------------------------- MODULE ActionApprovalProofs -------------------------
(***************************************************************************)
(* Proofs about ActionApproval, for any number of actions, API requests    *)
(* and executors: the types, that only confirmed actions take effect, and  *)
(* that DONE actions have taken theirs.                                    *)
(***************************************************************************)
EXTENDS ActionApproval, TLAPS

-------------------------------------------------------------------------------
\* The inductive invariant

WithEffect == {"outbox.send", "external"}

\* An approved action was confirmed, as was one that took effect or is DONE after
\* its effect.
ActionSound(id) ==
    /\ action[id].status = "APPROVED" => id \in confirmed
    /\ effects[id] > 0 => id \in confirmed
    /\ action[id].status = "DONE" /\ action[id].kind \in WithEffect => effects[id] > 0

\* A request about to approve has seen a token, which an action never loses.
RequestSound(r) ==
    request[r].id # 0 =>
        /\ action[request[r].id].status # "NONE"
        /\ request[r].decision = "APPROVED" => action[request[r].id].token

\* An executor only has confirmed actions in hand, and past the tool call of an
\* outbox.send the effect is there.
TaskSound(e) ==
    LET t == task[e] IN
    /\ t.pc # "loop" =>
          /\ t.cur \in Actions /\ t.cur \in confirmed /\ action[t.cur].status # "NONE"
    /\ t.pc \in {"reread", "record"} /\ action[t.cur].kind = "outbox.send" =>
          effects[t.cur] > 0

BatchSound(e) == \A id \in batch[e] : id \in confirmed /\ action[id].status # "NONE"

IInv ==
    /\ TypeOK
    /\ \A id \in Actions : ActionSound(id)
    /\ \A r \in Requests : RequestSound(r)
    /\ \A e \in Executors : TaskSound(e) /\ BatchSound(e)

-------------------------------------------------------------------------------

LEMMA Constants == NoAction \in Action /\ Idle \in Task /\ NoRequest \in Request
BY DEF NoAction, Idle, NoRequest, Action, Task, Request, Statuses, Decisions, AllKinds, PCs

LEMMA InvInit == Init => IInv
<1> SUFFICES ASSUME Init PROVE IInv
  OBVIOUS
<1>1. faults \in 0..MaxFaults
  BY BoundsAssumption DEF Init
<1>2. action \in [Actions -> Action] /\ task \in [Executors -> Task]
      /\ request \in [Requests -> Request]
  BY Constants DEF Init
<1>3. TypeOK
  BY <1>1, <1>2 DEF TypeOK, Init
<1>4. \A id \in Actions : ActionSound(id)
  BY DEF Init, ActionSound, NoAction
<1>5. \A r \in Requests : RequestSound(r)
  BY DEF Init, RequestSound, NoRequest
<1>6. \A e \in Executors : TaskSound(e) /\ BatchSound(e)
  BY DEF Init, TaskSound, BatchSound, Idle
<1> QED BY <1>3, <1>4, <1>5, <1>6 DEF IInv

\* How an action may change: it stays, keeps its kind and its token.
Grows(id) ==
    action[id].status # "NONE" => /\ action'[id].status # "NONE"
                                  /\ action'[id].kind = action[id].kind
                                  /\ action'[id].token = action[id].token

\* Confirmations and effects are never taken back.
Monotone == confirmed \subseteq confirmed' /\ \A id \in Actions : effects[id] > 0 => effects'[id] > 0

\* An executor, or a request, that does not move is not disturbed.
LEMMA TaskFrame ==
    ASSUME IInv, Monotone, \A id \in Actions : Grows(id), NEW e \in Executors,
           task'[e] = task[e], batch'[e] = batch[e]
    PROVE  TaskSound(e)' /\ BatchSound(e)'
<1>1. TaskSound(e) /\ BatchSound(e) /\ batch[e] \subseteq Actions
  BY DEF IInv, TypeOK
<1>2. TaskSound(e)'
  BY <1>1 DEF TaskSound, Monotone, Grows
<1>3. BatchSound(e)'
  BY <1>1 DEF BatchSound, Monotone, Grows
<1> QED BY <1>2, <1>3

LEMMA RequestFrame ==
    ASSUME IInv, \A id \in Actions : Grows(id), NEW r \in Requests, request'[r] = request[r]
    PROVE  RequestSound(r)'
<1>1. RequestSound(r) /\ (request[r].id # 0 => request[r].id \in Actions)
  BY DEF IInv, TypeOK, Request
<1> QED BY <1>1 DEF RequestSound, Grows

\* A step of executor e: what is left to show is its own part and the actions'.
LEMMA ExecutorStep ==
    ASSUME IInv, TypeOK', Monotone, UNCHANGED request, NEW e \in Executors,
           \A id \in Actions : Grows(id) /\ ActionSound(id)',
           \A d \in Executors \ {e} : task'[d] = task[d] /\ batch'[d] = batch[d],
           TaskSound(e)', BatchSound(e)'
    PROVE  IInv'
<1>1. \A d \in Executors : TaskSound(d)' /\ BatchSound(d)'
  BY TaskFrame
<1>2. \A r \in Requests : RequestSound(r)'
  BY RequestFrame
<1> QED BY <1>1, <1>2 DEF IInv

\* A step of the API: executors do not move.
LEMMA ApiStep ==
    ASSUME IInv, TypeOK', Monotone, UNCHANGED <<task, batch>>,
           \A id \in Actions : Grows(id) /\ ActionSound(id)',
           \A r \in Requests : RequestSound(r)'
    PROVE  IInv'
<1>1. \A d \in Executors : TaskSound(d)' /\ BatchSound(d)'
  BY TaskFrame
<1> QED BY <1>1 DEF IInv

\* Where actions, effects and confirmations stay, actions stay sound.
LEMMA ActionsKept ==
    ASSUME IInv, UNCHANGED <<action, effects, confirmed>>
    PROVE  Monotone /\ \A id \in Actions : Grows(id) /\ ActionSound(id)'
BY DEF IInv, Monotone, Grows, ActionSound

-------------------------------------------------------------------------------
\* The API

LEMMA InvPropose ==
    ASSUME IInv, NEW id \in Actions, NEW kind \in Kinds, NEW risk \in Risks,
           NEW token \in BOOLEAN, Propose(id, kind, risk, token)
    PROVE  IInv'
<1> DEFINE new == [status |-> "PENDING", kind |-> kind, risk |-> risk, token |-> token]
<1>1. new \in Action
  BY KindsAssumption DEF Action, Statuses, Decisions
<1>2. /\ action' = [action EXCEPT ![id] = new] /\ action[id].status = "NONE"
      /\ UNCHANGED <<request, fresh, batch, held, task, confirmed, effects, faults>>
  BY DEF Propose, executor
<1>3. TypeOK'
  BY <1>1, <1>2 DEF IInv, TypeOK
<1>4. ASSUME NEW n \in Actions PROVE Grows(n) /\ ActionSound(n)'
  <2>1. CASE n = id
    BY <1>2, <2>1 DEF IInv, TypeOK, Grows, ActionSound
  <2>2. CASE n # id
    BY <1>2, <2>2 DEF IInv, TypeOK, Grows, ActionSound
  <2> QED BY <2>1, <2>2
<1>5. \A r \in Requests : RequestSound(r)'
  BY <1>2, <1>4, RequestFrame
<1> QED BY <1>2, <1>3, <1>4, <1>5, ApiStep DEF Monotone

LEMMA InvReadForDecision ==
    ASSUME IInv, NEW r \in Requests, NEW id \in Actions, NEW decision \in Decisions,
           ReadForDecision(r, id, decision)
    PROVE  IInv'
<1> DEFINE new == [id |-> id, decision |-> decision]
<1>1. /\ request' = [request EXCEPT ![r] = new]
      /\ action[id].status = "PENDING" /\ (decision = "APPROVED" => action[id].token)
      /\ UNCHANGED <<action, fresh, batch, held, task, confirmed, effects, faults>>
  BY DEF ReadForDecision, MayDecide, executor
<1>2. new \in Request /\ id # 0
  BY ActionsAssumption DEF Request
<1>3. TypeOK'
  BY <1>1, <1>2 DEF IInv, TypeOK
<1>4. \A n \in Actions : Grows(n) /\ ActionSound(n)'
  BY <1>1, ActionsKept
<1>5. ASSUME NEW q \in Requests PROVE RequestSound(q)'
  <2>1. CASE q = r
    BY <1>1, <1>2, <2>1 DEF IInv, TypeOK, RequestSound
  <2>2. CASE q # r
    BY <1>1, <1>4, <2>2, RequestFrame DEF IInv, TypeOK
  <2> QED BY <2>1, <2>2
<1> QED BY <1>1, <1>3, <1>4, <1>5, ApiStep DEF Monotone

\* The commit of an approval: the token the request saw is still there.
LEMMA InvCommitDecision ==
    ASSUME IInv, NEW r \in Requests, CommitDecision(r) PROVE IInv'
<1> DEFINE id == request[r].id
           decision == request[r].decision
<1>1. /\ id # 0 /\ action' = [action EXCEPT ![id].status = decision]
      /\ confirmed' = IF decision = "APPROVED" /\ action[id].token
                      THEN confirmed \cup {id} ELSE confirmed
      /\ request' = [request EXCEPT ![r] = NoRequest]
      /\ UNCHANGED <<fresh, batch, held, task, effects, faults>>
  BY DEF CommitDecision, SetStatus, executor
<1>2. /\ id \in Actions /\ decision \in Decisions /\ action[id] \in Action
      /\ action[id].status # "NONE" /\ (decision = "APPROVED" => action[id].token)
  BY <1>1 DEF IInv, TypeOK, Request, RequestSound
<1> HIDE DEF id, decision
<1>3. /\ action'[id] = [action[id] EXCEPT !.status = decision]
      /\ \A n \in Actions \ {id} : action'[n] = action[n]
  BY <1>1, <1>2 DEF IInv, TypeOK
<1>4. TypeOK'
  <2>1. [action[id] EXCEPT !.status = decision] \in Action
    BY <1>2 DEF Action, Statuses
  <2>2. action' \in [Actions -> Action]
    BY <1>1, <1>2, <2>1 DEF IInv, TypeOK
  <2>3. request' \in [Requests -> Request]
    BY <1>1, Constants DEF IInv, TypeOK
  <2>4. confirmed' \in SUBSET Actions
    BY <1>1, <1>2 DEF IInv, TypeOK
  <2> QED BY <1>1, <2>2, <2>3, <2>4 DEF IInv, TypeOK
<1>5. ASSUME NEW n \in Actions PROVE Grows(n) /\ ActionSound(n)'
  <2>1. ActionSound(n) /\ confirmed \subseteq confirmed'
    BY <1>1 DEF IInv
  <2>2. CASE n = id
    <3>1. action'[n].status = decision /\ action'[n].kind = action[n].kind
          /\ action'[n].token = action[n].token
      BY <1>2, <1>3, <2>2 DEF Action
    <3> QED BY <1>1, <1>2, <2>1, <2>2, <3>1 DEF Grows, ActionSound, Decisions
  <2>3. CASE n # id
    BY <1>1, <1>3, <2>1, <2>3 DEF Grows, ActionSound
  <2> QED BY <2>2, <2>3
<1>6. ASSUME NEW q \in Requests PROVE RequestSound(q)'
  <2>1. CASE q = r
    BY <1>1, <2>1 DEF IInv, TypeOK, RequestSound, NoRequest
  <2>2. CASE q # r
    BY <1>1, <1>5, <2>2, RequestFrame DEF IInv, TypeOK
  <2> QED BY <2>1, <2>2
<1> QED BY <1>1, <1>4, <1>5, <1>6, ApiStep DEF Monotone

LEMMA InvRequestDies == ASSUME IInv, NEW r \in Requests, RequestDies(r) PROVE IInv'
<1>1. /\ request' = [request EXCEPT ![r] = NoRequest] /\ faults' = faults + 1
      /\ faults < MaxFaults
      /\ UNCHANGED <<action, confirmed, fresh, batch, held, task, effects>>
  BY DEF RequestDies
<1>2. faults' \in 0..MaxFaults /\ request' \in [Requests -> Request]
  BY <1>1, Constants, BoundsAssumption DEF IInv, TypeOK
<1>3. TypeOK'
  BY <1>1, <1>2 DEF IInv, TypeOK
<1>4. \A n \in Actions : Grows(n) /\ ActionSound(n)'
  BY <1>1, ActionsKept
<1>5. ASSUME NEW q \in Requests PROVE RequestSound(q)'
  <2>1. CASE q = r
    BY <1>1, <2>1 DEF IInv, TypeOK, RequestSound, NoRequest
  <2>2. CASE q # r
    BY <1>1, <1>4, <2>2, RequestFrame DEF IInv, TypeOK
  <2> QED BY <2>1, <2>2
<1> QED BY <1>1, <1>3, <1>4, <1>5, ApiStep DEF Monotone

LEMMA InvVerdict == ASSUME IInv, BootstrapVerdict PROVE IInv'
<1>1. fresh' \in BOOLEAN /\ UNCHANGED <<action, request, batch, held, task, confirmed, effects, faults>>
  BY DEF BootstrapVerdict
<1>2. TypeOK'
  BY <1>1 DEF IInv, TypeOK
<1>3. \A r \in Requests : RequestSound(r)'
  BY <1>1 DEF IInv, RequestSound
<1> QED BY <1>1, <1>2, <1>3, ActionsKept, ApiStep

-------------------------------------------------------------------------------
\* The executor

LEMMA InvPick == ASSUME IInv, NEW e \in Executors, Pick(e) PROVE IInv'
<1> DEFINE found == Oldest({id \in Actions : Pickable(id)})
<1>1. /\ task[e].pc = "loop" /\ batch' = [batch EXCEPT ![e] = found]
      /\ held' = [held EXCEPT ![e] = found]
      /\ UNCHANGED <<action, request, fresh, task, confirmed, effects, faults>>
  BY DEF Pick, At, others
<1>2. found \subseteq Actions /\ \A id \in found : action[id].status = "APPROVED"
  BY DEF Oldest, Pickable
<1> HIDE DEF found
<1>3. TypeOK'
  BY <1>1, <1>2 DEF IInv, TypeOK
<1>4. batch'[e] = found /\ \A d \in Executors \ {e} : batch'[d] = batch[d]
  BY <1>1 DEF IInv, TypeOK
<1>5. TaskSound(e)' /\ BatchSound(e)'
  BY <1>1, <1>2, <1>4 DEF IInv, TaskSound, BatchSound, ActionSound
<1> QED BY <1>1, <1>3, <1>4, <1>5, ActionsKept, ExecutorStep

\* A fetched action becomes the current one: a tick, or a fault before it.
LEMMA TakeUp ==
    ASSUME IInv, NEW e \in Executors, NEW id \in batch[e], task[e].pc = "loop",
           UNCHANGED <<action, request, fresh, confirmed, effects>>, faults' \in 0..MaxFaults,
           batch' = [batch EXCEPT ![e] = @ \ {id}], Release(e),
           \/ UNCHANGED task
           \/ \E pc \in {"call", "failing"} : task' = [task EXCEPT ![e].pc = pc, ![e].cur = id]
    PROVE  IInv'
<1>1. id \in Actions /\ id \in confirmed /\ action[id].status # "NONE" /\ task[e] \in Task
  BY DEF IInv, TypeOK, BatchSound
<1>2. /\ batch'[e] = batch[e] \ {id}
      /\ \A d \in Executors \ {e} : batch'[d] = batch[d] /\ task'[d] = task[d]
  BY DEF IInv, TypeOK
<1>3. \/ task'[e] = task[e]
      \/ task'[e].pc \in {"call", "failing"} /\ task'[e].cur = id
  BY DEF IInv, TypeOK, Task
<1>4. TypeOK'
  <2>1. task' \in [Executors -> Task]
    BY <1>1 DEF IInv, TypeOK, Task, PCs
  <2>2. batch' \in [Executors -> SUBSET Actions] /\ held' \in [Executors -> SUBSET Actions]
    BY <1>1 DEF IInv, TypeOK, Release
  <2> QED BY <2>1, <2>2 DEF IInv, TypeOK
<1>5. BatchSound(e)'
  BY <1>2 DEF IInv, BatchSound
<1>6. TaskSound(e)'
  BY <1>1, <1>3 DEF TaskSound
<1> QED BY <1>2, <1>4, <1>5, <1>6, ActionsKept, ExecutorStep

LEMMA InvTick == ASSUME IInv, NEW e \in Executors, Tick(e) PROVE IInv'
<1>1. UNCHANGED <<action, request, fresh, confirmed, effects, faults>> /\ task[e].pc = "loop"
  BY DEF Tick, others, IsNext, At
<1>2. PICK id \in batch[e] :
        /\ batch' = [batch EXCEPT ![e] = @ \ {id}] /\ Release(e)
        /\ task' = IF fresh THEN [task EXCEPT ![e].pc = "call", ![e].cur = id] ELSE task
  BY DEF Tick
<1>3. faults' \in 0..MaxFaults
  BY <1>1 DEF IInv, TypeOK
<1> QED BY <1>1, <1>2, <1>3, TakeUp

\* Leaving the loop body, or raising in it, keeps an executor sound.
LEMMA InBody ==
    ASSUME IInv, NEW e \in Executors, task[e].pc # "loop"
    PROVE  /\ task[e].cur \in Actions /\ task[e].cur \in confirmed /\ task[e] \in Task
           /\ action[task[e].cur] \in Action /\ action[task[e].cur].status # "NONE"
           /\ ActionSound(task[e].cur) /\ TaskSound(e)
BY DEF IInv, TypeOK, TaskSound

LEMMA LeaveStep ==
    ASSUME IInv, NEW e \in Executors, Leave(e), UNCHANGED <<request, fresh, confirmed>>,
           action' \in [Actions -> Action], effects' \in [Actions -> Nat],
           faults' \in 0..MaxFaults, Monotone,
           \A id \in Actions : Grows(id) /\ ActionSound(id)',
           \/ UNCHANGED <<batch, held>>
           \/ batch' = [batch EXCEPT ![e] = {}] /\ held' = [held EXCEPT ![e] = {}]
    PROVE  IInv'
<1>1. task' = [task EXCEPT ![e] = Idle]
  BY DEF Leave
<1>2. task'[e] = Idle /\ \A d \in Executors \ {e} : task'[d] = task[d] /\ batch'[d] = batch[d]
  BY <1>1 DEF IInv, TypeOK
<1>3. TypeOK'
  <2>1. task' \in [Executors -> Task]
    BY <1>1, Constants DEF IInv, TypeOK
  <2> QED BY <2>1 DEF IInv, TypeOK
<1>4. TaskSound(e)'
  BY <1>2 DEF TaskSound, Idle
<1>5. BatchSound(e)'
  <2>1. batch'[e] \subseteq batch[e] /\ batch[e] \subseteq Actions
    BY DEF IInv, TypeOK
  <2> QED BY <2>1 DEF IInv, BatchSound, Monotone, Grows
<1> QED BY <1>2, <1>3, <1>4, <1>5, ExecutorStep

\* Moving on in the loop body without touching the table.
LEMMA MoveStep ==
    ASSUME IInv, NEW e \in Executors, task[e].pc # "loop", NEW t \in Task,
           task' = [task EXCEPT ![e] = t], t.cur = task[e].cur,
           UNCHANGED <<action, request, fresh, batch, held, confirmed>>,
           effects' \in [Actions -> Nat], faults' \in 0..MaxFaults, Monotone,
           \A id \in Actions : Grows(id) /\ ActionSound(id)',
           t.pc \in {"reread", "record"} /\ action[t.cur].kind = "outbox.send" =>
              effects'[t.cur] > 0
    PROVE  IInv'
<1>1. task'[e] = t /\ \A d \in Executors \ {e} : task'[d] = task[d]
  BY DEF IInv, TypeOK
<1>2. TypeOK'
  BY DEF IInv, TypeOK
<1>3. TaskSound(e)'
  BY <1>1, InBody DEF TaskSound
<1>4. BatchSound(e)'
  BY DEF IInv, BatchSound
<1> QED BY <1>1, <1>2, <1>3, <1>4, ExecutorStep

LEMMA InvCall == ASSUME IInv, NEW e \in Executors, Call(e) PROVE IInv'
<1> DEFINE a == action[task[e].cur]
<1>1. task[e].pc = "call" /\ UNCHANGED <<action, request, fresh, batch, held, confirmed, effects, faults>>
  BY DEF Call, At, others
<1>2. CASE Leave(e)
  BY <1>1, <1>2, LeaveStep, ActionsKept DEF IInv, TypeOK
<1>3. CASE task' = [task EXCEPT ![e].seen = a.status, ![e].pc = NextStep(a.kind)]
  <2> DEFINE t == [task[e] EXCEPT !.seen = a.status, !.pc = NextStep(a.kind)]
  <2>1. task' = [task EXCEPT ![e] = t]
    BY <1>3
  <2>2. t \in Task /\ t.cur = task[e].cur
    BY <1>1, InBody DEF Task, Action, PCs, NextStep
  <2>3. t.pc \notin {"reread"} /\ (t.pc = "record" => a.kind # "outbox.send")
    BY <1>1, InBody DEF Task, NextStep
  <2> HIDE DEF t
  <2>4. effects' \in [Actions -> Nat] /\ faults' \in 0..MaxFaults
    BY <1>1 DEF IInv, TypeOK
  <2> QED BY <1>1, <2>1, <2>2, <2>3, <2>4, MoveStep, ActionsKept
<1> QED BY <1>2, <1>3 DEF Call

\* Taking effect is only ever of a confirmed action, and counts up.
LEMMA Effect ==
    ASSUME IInv, NEW id \in Actions, id \in confirmed, TakesEffect(id), UNCHANGED confirmed
    PROVE  /\ effects' \in [Actions -> Nat] /\ Monotone /\ effects'[id] > 0
           /\ \A n \in Actions : effects'[n] > 0 => n \in confirmed
<1>1. effects \in [Actions -> Nat] /\ \A n \in Actions : effects[n] > 0 => n \in confirmed
  BY DEF IInv, TypeOK, ActionSound
<1>2. effects' = [effects EXCEPT ![id] = @ + 1]
  BY DEF TakesEffect
<1>3. effects' \in [Actions -> Nat]
  BY <1>1, <1>2
<1>4. effects'[id] > 0
  BY <1>1, <1>2
<1>5. \A n \in Actions : effects[n] > 0 => effects'[n] > 0
  BY <1>1, <1>2
<1>6. \A n \in Actions : effects'[n] > 0 => n \in confirmed
  BY <1>1, <1>2
<1> QED BY <1>3, <1>4, <1>5, <1>6 DEF Monotone

LEMMA InvApproveOutboxItem ==
    ASSUME IInv, NEW e \in Executors, ApproveOutboxItem(e) PROVE IInv'
<1> DEFINE t == [task[e] EXCEPT !.pc = "reread"]
           c == task[e].cur
<1>1. /\ task[e].pc = "tool" /\ TakesEffect(c) /\ task' = [task EXCEPT ![e] = t]
      /\ UNCHANGED <<action, request, fresh, batch, held, confirmed, faults>>
  BY DEF ApproveOutboxItem, At, Goto, others
<1>2. c \in Actions /\ c \in confirmed /\ task[e] \in Task
  BY <1>1, InBody
<1>3. t \in Task /\ t.cur = c
  BY <1>2 DEF Task, PCs
<1>4. /\ effects' \in [Actions -> Nat] /\ Monotone /\ effects'[c] > 0
      /\ \A n \in Actions : effects'[n] > 0 => n \in confirmed
  BY <1>1, <1>2, Effect
<1>5. \A n \in Actions : Grows(n) /\ ActionSound(n)'
  BY <1>1, <1>4 DEF IInv, Grows, ActionSound, Monotone
<1>6. faults' \in 0..MaxFaults
  BY <1>1 DEF IInv, TypeOK
<1> HIDE DEF t
<1> QED BY <1>1, <1>3, <1>4, <1>5, <1>6, MoveStep

LEMMA InvReread == ASSUME IInv, NEW e \in Executors, Reread(e) PROVE IInv'
<1> DEFINE t == [task[e] EXCEPT !.pc = "record", !.seen = action[task[e].cur].status]
<1>1. /\ task[e].pc = "reread" /\ task' = [task EXCEPT ![e] = t]
      /\ UNCHANGED <<action, request, fresh, batch, held, confirmed, effects, faults>>
  BY DEF Reread, At, others
<1>2. t \in Task /\ t.cur = task[e].cur
  BY <1>1, InBody DEF Task, PCs, Action
<1>3. action[t.cur].kind = "outbox.send" => effects[t.cur] > 0
  BY <1>1, <1>2, InBody DEF TaskSound
<1>4. effects' \in [Actions -> Nat] /\ faults' \in 0..MaxFaults
  BY <1>1 DEF IInv, TypeOK
<1> HIDE DEF t
<1> QED BY <1>1, <1>2, <1>3, <1>4, MoveStep, ActionsKept

\* DONE is recorded of an action whose effect is there, or comes with the record.
LEMMA InvRecord == ASSUME IInv, NEW e \in Executors, Record(e) PROVE IInv'
<1> DEFINE c == task[e].cur
<1>1. /\ task[e].pc = "record" /\ Leave(e)
      /\ UNCHANGED <<request, fresh, batch, held, confirmed, faults>>
      /\ UNCHANGED action \/ action' = [action EXCEPT ![c].status = "DONE"]
      /\ IF action[c].kind = "external" THEN TakesEffect(c) ELSE UNCHANGED effects
  BY DEF Record, At, SetStatus, Result, others
<1>2. /\ c \in Actions /\ c \in confirmed /\ action[c] \in Action /\ action[c].status # "NONE"
      /\ action[c].kind = "outbox.send" => effects[c] > 0
  BY <1>1, InBody DEF TaskSound
<1> HIDE DEF c
<1>3. /\ effects' \in [Actions -> Nat] /\ Monotone
      /\ action[c].kind = "external" => effects'[c] > 0
      /\ \A n \in Actions : effects'[n] > 0 => n \in confirmed
  <2>1. CASE TakesEffect(c)
    BY <1>1, <1>2, <2>1, Effect
  <2>2. CASE action[c].kind # "external" /\ UNCHANGED effects
    BY <1>1, <2>2 DEF IInv, TypeOK, Monotone, ActionSound
  <2> QED BY <1>1, <2>1, <2>2
<1>4. action' \in [Actions -> Action]
  <2>1. [action[c] EXCEPT !.status = "DONE"] \in Action
    BY <1>2 DEF Action, Statuses
  <2> QED BY <1>1, <1>2, <2>1 DEF IInv, TypeOK
<1>5. /\ \A n \in Actions \ {c} : action'[n] = action[n]
      /\ \/ action'[c] = action[c]
         \/ action'[c] = [action[c] EXCEPT !.status = "DONE"]
  BY <1>1, <1>2 DEF IInv, TypeOK
<1>6. ASSUME NEW n \in Actions PROVE Grows(n) /\ ActionSound(n)'
  <2>1. ActionSound(n)
    BY DEF IInv
  <2>2. CASE n = c
    <3>1. /\ action'[n].kind = action[n].kind /\ action'[n].token = action[n].token
          /\ action'[n].status \in {action[n].status, "DONE"}
      BY <1>2, <1>5, <2>2 DEF Action
    <3> QED BY <1>1, <1>2, <1>3, <2>1, <2>2, <3>1 DEF Grows, ActionSound, WithEffect, Monotone
  <2>3. CASE n # c
    BY <1>1, <1>3, <1>5, <2>1, <2>3 DEF Grows, ActionSound, Monotone
  <2> QED BY <2>2, <2>3
<1>7. faults' \in 0..MaxFaults
  BY <1>1 DEF IInv, TypeOK
<1> QED BY <1>1, <1>3, <1>4, <1>6, <1>7, LeaveStep

LEMMA InvFault == ASSUME IInv, NEW e \in Executors, Fault(e) PROVE IInv'
<1>1. faults' \in 0..MaxFaults /\ UNCHANGED <<action, request, fresh, confirmed, effects>>
  BY BoundsAssumption DEF IInv, TypeOK, Fault, others
<1>2. CASE task[e].pc \notin {"loop", "failing"} /\ Raise(e) /\ UNCHANGED <<batch, held>>
  <2> DEFINE t == [Idle EXCEPT !.pc = "failing", !.cur = task[e].cur]
  <2>1. task' = [task EXCEPT ![e] = t]
    BY <1>2 DEF Raise
  <2>2. t \in Task /\ t.cur = task[e].cur /\ t.pc = "failing"
    BY <1>2, InBody, Constants DEF Task, PCs, Idle
  <2>3. effects' \in [Actions -> Nat]
    BY <1>1 DEF IInv, TypeOK
  <2> HIDE DEF t
  <2> QED BY <1>1, <1>2, <2>1, <2>2, <2>3, MoveStep, ActionsKept
<1>3. ASSUME NEW id \in batch[e], IsNext(e, id), batch' = [batch EXCEPT ![e] = @ \ {id}],
             Release(e), task' = [task EXCEPT ![e].pc = "failing", ![e].cur = id]
      PROVE  IInv'
  BY <1>1, <1>3, TakeUp DEF IsNext, At
<1> QED BY <1>2, <1>3 DEF Fault

LEMMA InvRescue == ASSUME IInv, NEW e \in Executors, Rescue(e) PROVE IInv'
<1> DEFINE c == task[e].cur
<1>1. /\ task[e].pc = "failing" /\ Leave(e) /\ action' = [action EXCEPT ![c].status = "FAILED"]
      /\ UNCHANGED <<request, fresh, batch, held, confirmed, effects, faults>>
  BY DEF Rescue, At, SetStatus, others
<1>2. c \in Actions /\ action[c] \in Action /\ action[c].status # "NONE"
  BY <1>1, InBody
<1> HIDE DEF c
<1>3. /\ action'[c] = [action[c] EXCEPT !.status = "FAILED"]
      /\ \A n \in Actions \ {c} : action'[n] = action[n]
  BY <1>1, <1>2 DEF IInv, TypeOK
<1>4. action' \in [Actions -> Action]
  <2>1. [action[c] EXCEPT !.status = "FAILED"] \in Action
    BY <1>2 DEF Action, Statuses
  <2> QED BY <1>1, <1>2, <2>1 DEF IInv, TypeOK
<1>5. ASSUME NEW n \in Actions PROVE Grows(n) /\ ActionSound(n)'
  <2>1. ActionSound(n)
    BY DEF IInv
  <2>2. CASE n = c
    <3>1. /\ action'[n].kind = action[n].kind /\ action'[n].token = action[n].token
          /\ action'[n].status = "FAILED"
      BY <1>2, <1>3, <2>2 DEF Action
    <3> QED BY <1>1, <2>1, <3>1 DEF Grows, ActionSound
  <2>3. CASE n # c
    BY <1>1, <1>3, <2>1, <2>3 DEF Grows, ActionSound
  <2> QED BY <2>2, <2>3
<1>6. effects' \in [Actions -> Nat] /\ faults' \in 0..MaxFaults /\ Monotone
  BY <1>1 DEF IInv, TypeOK, Monotone
<1> QED BY <1>1, <1>4, <1>5, <1>6, LeaveStep

LEMMA InvRescueFails == ASSUME IInv, NEW e \in Executors, RescueFails(e) PROVE IInv'
<1>1. faults' \in 0..MaxFaults
  BY BoundsAssumption DEF IInv, TypeOK, RescueFails
<1> QED BY <1>1, LeaveStep, ActionsKept DEF IInv, TypeOK, RescueFails, others

LEMMA InvCrash == ASSUME IInv, NEW e \in Executors, Crash(e) PROVE IInv'
<1>1. faults' \in 0..MaxFaults
  BY BoundsAssumption DEF IInv, TypeOK, Crash
<1> QED BY <1>1, LeaveStep, ActionsKept DEF IInv, TypeOK, Crash, Release, others

-------------------------------------------------------------------------------
\* The theorems

LEMMA InvNext == IInv /\ [Next]_vars => IInv'
<1> SUFFICES ASSUME IInv, [Next]_vars PROVE IInv'
  OBVIOUS
<1>1. CASE Api
  BY <1>1, InvPropose, InvReadForDecision, InvCommitDecision, InvRequestDies, InvVerdict DEF Api
<1>2. ASSUME NEW e \in Executors, Pick(e) \/ Work(e) \/ Mishap(e) PROVE IInv'
  BY <1>2, InvPick, InvTick, InvCall, InvApproveOutboxItem, InvReread, InvRecord, InvRescue,
     InvFault, InvRescueFails, InvCrash DEF Work, Mishap
<1>3. CASE UNCHANGED vars
  BY <1>3 DEF vars, IInv, TypeOK, ActionSound, RequestSound, TaskSound, BatchSound
<1> QED BY <1>1, <1>2, <1>3 DEF Next

\* The invariant holds in every reachable state.
THEOREM Invariant == Spec => []IInv
BY InvInit, InvNext, PTL DEF Spec

\* The state always has its types.
THEOREM TypeCorrect == Spec => []TypeOK
<1>1. IInv => TypeOK
  BY DEF IInv
<1> QED BY Invariant, <1>1, PTL

\* No action takes effect before a human approved it with its token
\* (ARCHITECTURE.md 23-26, actions.py 68-73).
THEOREM OnlyConfirmedTakesEffect == Spec => []EffectWasConfirmed
<1>1. IInv => EffectWasConfirmed
  BY DEF IInv, ActionSound, EffectWasConfirmed
<1> QED BY Invariant, <1>1, PTL

\* An action recorded DONE has taken its effect (jarvis_tasks.py 65-77,
\* tool_registry.py 92-112).
THEOREM DoneAfterEffect == Spec => []DoneTookEffect
<1>1. IInv => DoneTookEffect
  BY DEF IInv, ActionSound, WithEffect, DoneTookEffect
<1> QED BY Invariant, <1>1, PTL

-------------------------------------------------------------------------------
\* One executor and one request at a time

OneAtATime ==
    /\ \A d, e \in Executors : d = e
    /\ \A q, r \in Requests : q = r

\* Whoever is about to write a status still finds the one it acted on.
RequestAlone(r) == request[r].id # 0 => action[request[r].id].status = "PENDING"
TaskAlone(e) ==
    LET t == task[e] IN
    /\ \A id \in batch[e] : action[id].status = "APPROVED"
    /\ t.pc # "loop" =>
          /\ action[t.cur].status = "APPROVED"
          /\ t.cur \notin batch[e]
    /\ t.pc \in {"tool", "reread", "record"} => t.seen = "APPROVED"
    /\ t.pc \in {"tool", "reread"} => action[t.cur].kind = "outbox.send"

Alone ==
    /\ \A r \in Requests : RequestAlone(r)
    /\ \A e \in Executors : TaskAlone(e)
    /\ \A id \in Actions : action[id].status = "NONE" => effects[id] = 0
    /\ ExternalExactlyOnce

\* What is shown of every step.
Final(id) ==
    action[id].status \in {"REJECTED", "DONE", "FAILED"}
        => action'[id].status = action[id].status
AloneStep == Alone' /\ \A id \in Actions : Final(id)

LEMMA AloneInit == Init => Alone
<1> SUFFICES ASSUME Init PROVE Alone
  OBVIOUS
<1>1. \A r \in Requests : RequestAlone(r)
  BY DEF Init, RequestAlone, NoRequest
<1>2. \A e \in Executors : TaskAlone(e)
  BY DEF Init, TaskAlone, Idle
<1>3. ExternalExactlyOnce /\ \A id \in Actions : effects[id] = 0
  BY DEF Init, ExternalExactlyOnce, NoAction
<1> QED BY <1>1, <1>2, <1>3 DEF Alone

\* A step of the executor that writes no status, and carries out no external action.
LEMMA AloneMoves ==
    ASSUME OneAtATime, IInv, Alone, NEW e \in Executors, UNCHANGED <<action, request>>,
           TaskAlone(e)',
           \A id \in Actions :
              effects'[id] = effects[id]
              \/ (action[id].kind = "outbox.send" /\ action[id].status = "APPROVED")
    PROVE  AloneStep
<1>1. \A r \in Requests : RequestAlone(r)'
  BY DEF Alone, RequestAlone
<1>2. \A d \in Executors : TaskAlone(d)'
  BY DEF OneAtATime
<1>3. ExternalExactlyOnce' /\ \A id \in Actions : action'[id].status = "NONE" => effects'[id] = 0
  BY DEF Alone, ExternalExactlyOnce
<1> QED BY <1>1, <1>2, <1>3 DEF AloneStep, Alone, Final

\* A step that records how the current action ended.
LEMMA AloneEnds ==
    ASSUME OneAtATime, IInv, Alone, NEW e \in Executors, task[e].pc # "loop",
           NEW c, c = task[e].cur, NEW status \in {"DONE", "FAILED"},
           action' = [action EXCEPT ![c].status = status], UNCHANGED <<request, batch>>,
           task'[e] = Idle,
           \A id \in Actions \ {c} : effects'[id] = effects[id],
           action[c].kind = "external" =>
              effects'[c] = IF status = "DONE" THEN effects[c] + 1 ELSE effects[c]
    PROVE  AloneStep
<1>1. /\ c \in Actions /\ action[c] \in Action /\ action[c].status = "APPROVED"
      /\ c \notin batch[e] /\ batch[e] \subseteq Actions
  BY InBody DEF Alone, TaskAlone, IInv, TypeOK
<1>2. /\ action'[c].status = status /\ action'[c].kind = action[c].kind
      /\ \A id \in Actions \ {c} : action'[id] = action[id]
  BY <1>1 DEF IInv, TypeOK, Action
<1>3. ASSUME NEW r \in Requests PROVE RequestAlone(r)'
  <2>1. RequestAlone(r) /\ (request[r].id # 0 => request[r].id \in Actions)
    BY DEF Alone, IInv, TypeOK, Request
  <2> QED BY <1>1, <1>2, <2>1 DEF RequestAlone
<1>4. TaskAlone(e)'
  <2>1. \A id \in batch[e] : action[id].status = "APPROVED"
    BY DEF Alone, TaskAlone
  <2> QED BY <1>1, <1>2, <2>1 DEF TaskAlone, Idle
<1>5. ASSUME NEW id \in Actions
      PROVE  /\ action'[id].status = "NONE" => effects'[id] = 0
             /\ action'[id].kind = "external" =>
                   effects'[id] = IF action'[id].status = "DONE" THEN 1 ELSE 0
             /\ Final(id)
  <2>1. /\ action[id].status = "NONE" => effects[id] = 0
        /\ action[id].kind = "external" =>
              effects[id] = IF action[id].status = "DONE" THEN 1 ELSE 0
    BY DEF Alone, ExternalExactlyOnce
  <2>2. CASE id = c
    BY <1>1, <1>2, <2>1, <2>2 DEF Final
  <2>3. CASE id # c
    BY <1>2, <2>1, <2>3 DEF Final
  <2> QED BY <2>2, <2>3
<1> QED BY <1>3, <1>4, <1>5 DEF AloneStep, Alone, ExternalExactlyOnce, OneAtATime

\* A step of the API: it may write the status of an action nobody has in hand.
LEMMA AloneApi ==
    ASSUME IInv, Alone, UNCHANGED <<batch, task, effects>>, NEW c,
           \A id \in Actions \ {c} : action'[id] = action[id],
           c \in Actions => /\ action[c].status \in {"NONE", "PENDING"}
                            /\ action'[c].status \in {"PENDING", "APPROVED", "REJECTED"}
                            /\ action[c].status # "NONE" => action'[c].kind = action[c].kind,
           \A r \in Requests : RequestAlone(r)'
    PROVE  AloneStep
<1>1. ASSUME NEW e \in Executors PROVE TaskAlone(e)'
  <2>1. TaskAlone(e) /\ batch[e] \subseteq Actions /\ (task[e].pc # "loop" => task[e].cur \in Actions)
    BY InBody DEF Alone, IInv, TypeOK
  <2> QED BY <2>1 DEF TaskAlone
<1>2. ASSUME NEW id \in Actions
      PROVE  /\ action'[id].status = "NONE" => effects'[id] = 0
             /\ action'[id].kind = "external" =>
                   effects'[id] = IF action'[id].status = "DONE" THEN 1 ELSE 0
             /\ Final(id)
  <2>1. /\ action[id].status = "NONE" => effects[id] = 0
        /\ action[id].kind = "external" =>
              effects[id] = IF action[id].status = "DONE" THEN 1 ELSE 0
    BY DEF Alone, ExternalExactlyOnce
  <2>2. CASE id = c
    BY <2>1, <2>2 DEF Final
  <2>3. CASE id # c
    BY <2>1, <2>3 DEF Final
  <2> QED BY <2>2, <2>3
<1> QED BY <1>1, <1>2 DEF AloneStep, Alone, ExternalExactlyOnce

LEMMA AlonePropose ==
    ASSUME IInv, Alone, NEW id \in Actions, NEW kind \in Kinds, NEW risk \in Risks,
           NEW token \in BOOLEAN, Propose(id, kind, risk, token)
    PROVE  AloneStep
<1>1. /\ action[id].status = "NONE" /\ UNCHANGED <<request, batch, task, effects>>
      /\ action'[id].status = "PENDING"
      /\ \A n \in Actions \ {id} : action'[n] = action[n]
  BY DEF Propose, executor, IInv, TypeOK
<1>2. \A r \in Requests : RequestAlone(r)'
  BY <1>1 DEF Alone, RequestAlone, IInv, TypeOK, Request
<1> QED BY <1>1, <1>2, AloneApi

LEMMA AloneRead ==
    ASSUME IInv, Alone, NEW r \in Requests, NEW id \in Actions, NEW decision \in Decisions,
           ReadForDecision(r, id, decision)
    PROVE  AloneStep
<1>1. /\ action[id].status = "PENDING" /\ UNCHANGED <<action, batch, task, effects>>
      /\ request' = [request EXCEPT ![r] = [id |-> id, decision |-> decision]]
  BY DEF ReadForDecision, MayDecide, executor
<1>2. \A q \in Requests : RequestAlone(q)'
  BY <1>1 DEF Alone, RequestAlone, IInv, TypeOK
<1>3. PICK c : c \notin Actions
  BY ActionsAssumption
<1> QED BY <1>1, <1>2, <1>3, AloneApi

\* The only request finds its action as it has read it.
LEMMA AloneCommit ==
    ASSUME OneAtATime, IInv, Alone, NEW r \in Requests, CommitDecision(r) PROVE AloneStep
<1>1. PICK id : id = request[r].id
  OBVIOUS
<1>2. PICK decision : decision = request[r].decision
  OBVIOUS
<1>3. /\ id \in Actions /\ decision \in Decisions /\ action[id] \in Action
      /\ action[id].status = "PENDING"
  BY <1>1, <1>2 DEF IInv, TypeOK, Request, CommitDecision, Alone, RequestAlone
<1>4. /\ action' = [action EXCEPT ![id].status = decision]
      /\ request' = [request EXCEPT ![r] = NoRequest]
      /\ UNCHANGED <<batch, task, effects>>
  BY <1>1, <1>2 DEF CommitDecision, SetStatus, executor
<1>5. /\ action'[id].status = decision /\ action'[id].kind = action[id].kind
      /\ \A n \in Actions \ {id} : action'[n] = action[n]
  BY <1>3, <1>4 DEF IInv, TypeOK, Action
<1>6. \A q \in Requests : RequestAlone(q)'
  BY <1>4 DEF OneAtATime, RequestAlone, NoRequest, IInv, TypeOK
<1> QED BY <1>3, <1>4, <1>5, <1>6, AloneApi DEF Decisions

LEMMA AloneQuiet ==
    ASSUME IInv, Alone, UNCHANGED <<action, batch, task, effects>>,
           \A r \in Requests : RequestAlone(r)'
    PROVE  AloneStep
<1>1. PICK c : c \notin Actions
  BY ActionsAssumption
<1> QED BY <1>1, AloneApi

LEMMA AloneDies == ASSUME IInv, Alone, NEW r \in Requests, RequestDies(r) PROVE AloneStep
<1>1. \A q \in Requests : RequestAlone(q)'
  BY DEF RequestDies, Alone, RequestAlone, NoRequest, IInv, TypeOK
<1> QED BY <1>1, AloneQuiet DEF RequestDies

LEMMA AlonePick == ASSUME OneAtATime, IInv, Alone, NEW e \in Executors, Pick(e) PROVE AloneStep
<1> DEFINE found == Oldest({id \in Actions : Pickable(id)})
<1>1. /\ task[e].pc = "loop" /\ batch' = [batch EXCEPT ![e] = found]
      /\ UNCHANGED <<action, request, task, effects>>
  BY DEF Pick, At, others
<1>2. \A id \in found : action[id].status = "APPROVED"
  BY DEF Oldest, Pickable
<1> HIDE DEF found
<1>3. TaskAlone(e)'
  BY <1>1, <1>2 DEF TaskAlone, IInv, TypeOK
<1> QED BY <1>1, <1>3, AloneMoves

\* A fetched action becomes the current one.
LEMMA AloneTakeUp ==
    ASSUME OneAtATime, IInv, Alone, NEW e \in Executors, NEW id \in batch[e],
           task[e].pc = "loop", UNCHANGED <<action, request, effects>>,
           batch' = [batch EXCEPT ![e] = @ \ {id}],
           \/ UNCHANGED task
           \/ \E pc \in {"call", "failing"} : task' = [task EXCEPT ![e].pc = pc, ![e].cur = id]
    PROVE  AloneStep
<1>1. batch'[e] = batch[e] \ {id} /\ TaskAlone(e)
  BY DEF IInv, TypeOK, Alone
<1>2. task'[e].pc = "loop" \/ (task'[e].pc \in {"call", "failing"} /\ task'[e].cur = id)
  BY DEF IInv, TypeOK, Task
<1>3. TaskAlone(e)'
  BY <1>1, <1>2 DEF TaskAlone
<1> QED BY <1>3, AloneMoves

\* Leaving the loop body, or raising in it.
LEMMA AloneLeave ==
    ASSUME OneAtATime, IInv, Alone, NEW e \in Executors, UNCHANGED <<action, request, effects>>,
           batch'[e] \subseteq batch[e],
           \/ Leave(e)
           \/ task[e].pc # "loop" /\ Raise(e)
    PROVE  AloneStep
<1>1. TaskAlone(e)
  BY DEF Alone
<1>2. CASE Leave(e)
  <2>1. task'[e].pc = "loop"
    BY <1>2 DEF Leave, Idle, IInv, TypeOK
  <2>2. TaskAlone(e)'
    BY <1>1, <2>1 DEF TaskAlone
  <2> QED BY <2>2, AloneMoves
<1>3. CASE task[e].pc # "loop" /\ Raise(e)
  <2> DEFINE t == [Idle EXCEPT !.pc = "failing", !.cur = task[e].cur]
  <2>1. t.pc = "failing" /\ t.cur = task[e].cur
    BY DEF Idle
  <2>2. task' = [task EXCEPT ![e] = t]
    BY <1>3 DEF Raise
  <2> HIDE DEF t
  <2>3. task'[e].pc = "failing" /\ task'[e].cur = task[e].cur
    BY <2>1, <2>2 DEF IInv, TypeOK
  <2>4. TaskAlone(e)'
    BY <1>1, <1>3, <2>3 DEF TaskAlone
  <2> QED BY <2>4, AloneMoves
<1> QED BY <1>2, <1>3

LEMMA AloneCall == ASSUME OneAtATime, IInv, Alone, NEW e \in Executors, Call(e) PROVE AloneStep
<1> DEFINE a == action[task[e].cur]
<1>1. /\ task[e].pc = "call" /\ UNCHANGED <<action, request, batch, effects>>
      /\ TaskAlone(e) /\ task[e] \in Task
  BY DEF Call, At, others, Alone, IInv, TypeOK
<1>2. CASE Leave(e)
  BY <1>1, <1>2, AloneLeave
<1>3. CASE task' = [task EXCEPT ![e].seen = a.status, ![e].pc = NextStep(a.kind)]
  <2>1. /\ task'[e].seen = a.status /\ task'[e].cur = task[e].cur
        /\ task'[e].pc = NextStep(a.kind)
    BY <1>1, <1>3 DEF IInv, TypeOK, Task
  <2>2. TaskAlone(e)'
    BY <1>1, <2>1 DEF TaskAlone, NextStep
  <2> QED BY <1>1, <2>2, AloneMoves
<1> QED BY <1>2, <1>3 DEF Call

LEMMA AloneEffect ==
    ASSUME OneAtATime, IInv, Alone, NEW e \in Executors, ApproveOutboxItem(e) PROVE AloneStep
<1>1. /\ task[e].pc = "tool" /\ UNCHANGED <<action, request, batch>> /\ TaskAlone(e)
      /\ task'[e].pc = "reread" /\ task'[e].cur = task[e].cur /\ task'[e].seen = task[e].seen
  BY DEF ApproveOutboxItem, At, Goto, others, Alone, IInv, TypeOK, Task
<1>2. TaskAlone(e)'
  BY <1>1 DEF TaskAlone
<1>3. /\ action[task[e].cur].kind = "outbox.send" /\ action[task[e].cur].status = "APPROVED"
      /\ \A id \in Actions \ {task[e].cur} : effects'[id] = effects[id]
  BY <1>1 DEF TaskAlone, ApproveOutboxItem, TakesEffect, IInv, TypeOK
<1> QED BY <1>1, <1>2, <1>3, AloneMoves

LEMMA AloneReread ==
    ASSUME OneAtATime, IInv, Alone, NEW e \in Executors, Reread(e) PROVE AloneStep
<1>1. /\ task[e].pc = "reread" /\ UNCHANGED <<action, request, batch, effects>> /\ TaskAlone(e)
      /\ task'[e].pc = "record" /\ task'[e].cur = task[e].cur
      /\ task'[e].seen = action[task[e].cur].status
  BY DEF Reread, At, others, Alone, IInv, TypeOK, Task
<1>2. TaskAlone(e)'
  BY <1>1 DEF TaskAlone
<1> QED BY <1>1, <1>2, AloneMoves

LEMMA AloneRecord ==
    ASSUME OneAtATime, IInv, Alone, NEW e \in Executors, Record(e) PROVE AloneStep
<1>1. PICK c : c = task[e].cur
  OBVIOUS
<1>2. /\ task[e].pc = "record" /\ Leave(e) /\ UNCHANGED <<request, batch>>
      /\ task[e].seen = "APPROVED" /\ c \in Actions
  BY <1>1, InBody DEF Record, At, others, Alone, TaskAlone
<1>3. action' = [action EXCEPT ![c].status = "DONE"]
  BY <1>1, <1>2 DEF Record, SetStatus, Result
<1>4. task'[e] = Idle
  BY <1>2 DEF Leave, IInv, TypeOK
<1>5. /\ \A id \in Actions \ {c} : effects'[id] = effects[id]
      /\ action[c].kind = "external" => effects'[c] = effects[c] + 1
  BY <1>1, <1>2 DEF Record, TakesEffect, IInv, TypeOK
<1> QED BY <1>1, <1>2, <1>3, <1>4, <1>5, AloneEnds

LEMMA AloneRescue ==
    ASSUME OneAtATime, IInv, Alone, NEW e \in Executors, Rescue(e) PROVE AloneStep
<1>1. PICK c : c = task[e].cur
  OBVIOUS
<1>2. /\ task[e].pc = "failing" /\ UNCHANGED <<request, batch, effects>>
      /\ action' = [action EXCEPT ![c].status = "FAILED"] /\ task'[e] = Idle
  BY <1>1 DEF Rescue, At, SetStatus, others, Leave, IInv, TypeOK
<1> QED BY <1>1, <1>2, AloneEnds

LEMMA AloneMishap ==
    ASSUME OneAtATime, IInv, Alone, NEW e \in Executors, Mishap(e) PROVE AloneStep
<1>1. UNCHANGED <<action, request, effects>>
  BY DEF Mishap, Fault, RescueFails, Crash, others
<1>2. CASE UNCHANGED batch /\ (Leave(e) \/ (task[e].pc # "loop" /\ Raise(e)))
  BY <1>1, <1>2, AloneLeave
<1>3. CASE batch' = [batch EXCEPT ![e] = {}] /\ Leave(e)
  <2>1. batch'[e] \subseteq batch[e]
    BY <1>3 DEF IInv, TypeOK
  <2> QED BY <1>1, <1>3, <2>1, AloneLeave
<1>4. ASSUME NEW id \in batch[e], IsNext(e, id), batch' = [batch EXCEPT ![e] = @ \ {id}],
             task' = [task EXCEPT ![e].pc = "failing", ![e].cur = id]
      PROVE  AloneStep
  BY <1>1, <1>4, AloneTakeUp DEF IsNext, At
<1> QED BY <1>2, <1>3, <1>4 DEF Mishap, Fault, RescueFails, Crash, others

LEMMA AloneTick == ASSUME OneAtATime, IInv, Alone, NEW e \in Executors, Tick(e) PROVE AloneStep
<1>1. UNCHANGED <<action, request, effects>> /\ task[e].pc = "loop"
  BY DEF Tick, others, IsNext, At
<1>2. PICK id \in batch[e] :
        /\ batch' = [batch EXCEPT ![e] = @ \ {id}]
        /\ task' = IF fresh THEN [task EXCEPT ![e].pc = "call", ![e].cur = id] ELSE task
  BY DEF Tick
<1> QED BY <1>1, <1>2, AloneTakeUp

LEMMA AloneNext == OneAtATime /\ IInv /\ Alone /\ [Next]_vars => AloneStep
<1> SUFFICES ASSUME OneAtATime, IInv, Alone, [Next]_vars PROVE AloneStep
  OBVIOUS
<1>1. CASE Api
  <2>1. CASE BootstrapVerdict
    BY <2>1, AloneQuiet DEF BootstrapVerdict, Alone, RequestAlone
  <2> QED BY <1>1, <2>1, AlonePropose, AloneRead, AloneCommit, AloneDies DEF Api
<1>2. ASSUME NEW e \in Executors, Pick(e) \/ Work(e) \/ Mishap(e) PROVE AloneStep
  BY <1>2, AlonePick, AloneTick, AloneCall, AloneEffect, AloneReread, AloneRecord,
     AloneRescue, AloneMishap DEF Work
<1>3. CASE UNCHANGED vars
  BY <1>3, AloneQuiet DEF vars, Alone, RequestAlone
<1> QED BY <1>1, <1>2, <1>3 DEF Next

\* With one executor and one request at a time nothing is decided or carried out on
\* an action somebody else has moved on.
THEOREM NobodyInBetween == ASSUME OneAtATime PROVE Spec => []Alone
<1>1. IInv /\ Alone /\ [Next]_vars => Alone'
  BY AloneNext DEF AloneStep
<1> QED BY Invariant, AloneInit, <1>1, PTL DEF Spec

\* Then an external action is queued exactly once when it is DONE, and not at all
\* otherwise (lines 70-77).
THEOREM QueuedExactlyOnce == ASSUME OneAtATime PROVE Spec => []ExternalExactlyOnce
<1>1. Alone => ExternalExactlyOnce
  BY DEF Alone
<1> QED BY NobodyInBetween, <1>1, PTL

\* And a decided or executed action is never decided or executed again.
THEOREM FinalForGood == ASSUME OneAtATime PROVE Spec => FinalStays
<1>1. IInv /\ Alone /\ [Next]_vars =>
        [\A id \in Actions :
            action[id].status \in {"REJECTED", "DONE", "FAILED"}
                => action'[id].status = action[id].status]_vars
  BY AloneNext DEF AloneStep, Final
<1> QED BY Invariant, NobodyInBetween, <1>1, PTL DEF Spec, FinalStays
===============================================================================
