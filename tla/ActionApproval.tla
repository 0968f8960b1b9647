---------------------------- MODULE ActionApproval ----------------------------
(***************************************************************************)
(* Pending actions: proposed by a skill or a tool, approved or rejected by *)
(* a human through POST /actions/{id}/approve and /reject, and carried out *)
(* by the executor task process_pending_actions, which calls the tool      *)
(* registry's execute_pending_action.                                      *)
(*                                                                         *)
(* A handler reads the row in one step and commits in another; neither     *)
(* locks it against the other handlers.  The executor fetches a batch with *)
(* FOR UPDATE SKIP LOCKED and gives up its locks at its first commit.      *)
(***************************************************************************)
EXTENDS Naturals, FiniteSets

CONSTANTS
    Actions,      \* action numbers, in the order of created_at
    Requests,     \* API requests that may be in progress at once
    Executors,    \* concurrent executions of process_pending_actions
    Kinds,        \* kinds of action in use
    Risks,        \* risk levels in use
    Limit,        \* the limit argument of process_pending_actions
    MaxFaults     \* bound on the crashes and exceptions of a behaviour

\* "noop" does nothing; "outbox.send" sets the approved flag of an outbox message;
\* "dangling" is an outbox.send whose message does not exist or is not named;
\* "external" is every other action type: it becomes an outbox row.
AllKinds == {"noop", "outbox.send", "dangling", "external"}

ASSUME ActionsAssumption == Actions \subseteq Nat \ {0} /\ IsFiniteSet(Actions)
ASSUME KindsAssumption == Kinds \subseteq AllKinds /\ Risks \subseteq {"RED", "YELLOW"}
ASSUME BoundsAssumption == Limit \in Nat /\ MaxFaults \in Nat

VARIABLES
    action,     \* pending_actions
    request,    \* request[r]: the decision r is about to commit
    fresh,      \* what check_bootstrap_fresh answers
    batch,      \* batch[e]: fetched and not yet attempted
    held,       \* held[e]: rows locked by e
    task,       \* task[e]: where e is in the loop body
    confirmed,  \* observer: actions approved with their confirmation token
    effects,    \* observer: how often the action took effect
    faults

vars == <<action, request, fresh, batch, held, task, confirmed, effects, faults>>

Decisions == {"APPROVED", "REJECTED"}
Statuses  == {"NONE", "PENDING", "DONE", "FAILED"} \cup Decisions
Action    == [status: Statuses, kind: AllKinds, risk: {"RED", "YELLOW"}, token: BOOLEAN]
NoAction  == [status |-> "NONE", kind |-> "noop", risk |-> "RED", token |-> FALSE]

Request   == [id: Actions \cup {0}, decision: Decisions]
NoRequest == [id |-> 0, decision |-> "REJECTED"]

\* seen: the status of the session's copy of the row.
PCs  == {"loop", "call", "tool", "reread", "record", "failing"}
Task == [pc: PCs, cur: Actions \cup {0}, seen: Statuses]
Idle == [pc |-> "loop", cur |-> 0, seen |-> "NONE"]

At(e, pc) == task[e].pc = pc
Goto(e, pc) == task' = [task EXCEPT ![e].pc = pc]
Leave(e) == task' = [task EXCEPT ![e] = Idle]
Raise(e) == task' = [task EXCEPT ![e] = [Idle EXCEPT !.pc = "failing", !.cur = task[e].cur]]
ReleaseNothing(e) == UNCHANGED held         \* mutant: locks outlive the commit
Release(e) == held' = [held EXCEPT ![e] = {}]
SetStatus(id, status) == action' = [action EXCEPT ![id].status = status]
TakesEffect(id) == effects' = [effects EXCEPT ![id] = @ + 1]

Init ==
    /\ action    = [id \in Actions |-> NoAction]
    /\ request   = [r \in Requests |-> NoRequest]
    /\ fresh     = FALSE
    /\ batch     = [e \in Executors |-> {}]
    /\ held      = [e \in Executors |-> {}]
    /\ task      = [e \in Executors |-> Idle]
    /\ confirmed = {}
    /\ effects   = [id \in Actions |-> 0]
    /\ faults    = 0

-------------------------------------------------------------------------------
\* Proposal and decision

executor == <<fresh, batch, held, task, effects, faults>>

\* Skills store the hash of a fresh token; the tools router stores none.
Propose(id, kind, risk, token) ==
    /\ action[id].status = "NONE" /\ \A n \in Actions : n < id => action[n].status # "NONE"
    /\ action' = [action EXCEPT ![id] = [status |-> "PENDING", kind |-> kind,
                                         risk |-> risk, token |-> token]]
    /\ UNCHANGED <<executor, request, confirmed>>

\* The checks of approve_action and reject_action, on the row as it is read.
MayDecideWithoutToken(id, decision) ==      \* mutant: no token check
    action[id].status = "PENDING"
MayDecideAgain(id, decision) ==             \* mutant: no status check
    /\ action[id].status # "NONE"
    /\ decision = "APPROVED" => action[id].token
MayDecide(id, decision) ==
    /\ action[id].status = "PENDING"
    /\ decision = "APPROVED" => action[id].token

ReadForDecision(r, id, decision) ==
    /\ request[r].id = 0
    /\ MayDecide(id, decision)
    /\ request' = [request EXCEPT ![r] = [id |-> id, decision |-> decision]]
    /\ UNCHANGED <<executor, action, confirmed>>

CommitDecision(r) ==
    LET id == request[r].id IN
    /\ id # 0
    /\ SetStatus(id, request[r].decision)
    /\ confirmed' = IF request[r].decision = "APPROVED" /\ action[id].token
                    THEN confirmed \cup {id} ELSE confirmed
    /\ request' = [request EXCEPT ![r] = NoRequest]
    /\ UNCHANGED executor

RequestDies(r) ==
    /\ request[r].id # 0 /\ faults < MaxFaults
    /\ faults' = faults + 1
    /\ request' = [request EXCEPT ![r] = NoRequest]
    /\ UNCHANGED <<action, confirmed, fresh, batch, held, task, effects>>

BootstrapVerdict ==
    /\ fresh' = ~fresh
    /\ UNCHANGED <<action, request, batch, held, task, confirmed, effects, faults>>

-------------------------------------------------------------------------------
\* process_pending_actions

others == <<request, fresh, confirmed>>

Oldest(S) == {id \in S : Cardinality({n \in S : n < id}) < Limit}
Pickable(id) == action[id].status = "APPROVED" /\ \A e \in Executors : id \notin held[e]

Pick(e) ==
    LET found == Oldest({id \in Actions : Pickable(id)}) IN
    /\ At(e, "loop") /\ batch[e] = {} /\ found # {}
    /\ batch' = [batch EXCEPT ![e] = found]
    /\ held'  = [held EXCEPT ![e] = found]
    /\ UNCHANGED <<others, action, task, effects, faults>>

IsNext(e, id) == At(e, "loop") /\ id \in batch[e] /\ \A n \in batch[e] : id <= n

\* The commit of the tick's audit record gives up all locks.
Tick(e) ==
    \E id \in batch[e] :
        /\ IsNext(e, id)
        /\ batch' = [batch EXCEPT ![e] = @ \ {id}]
        /\ Release(e)
        /\ task' = IF fresh THEN [task EXCEPT ![e].pc = "call", ![e].cur = id] ELSE task
        /\ UNCHANGED <<others, action, effects, faults>>

\* execute_pending_action reads the row again; only for RED actions does it look
\* at the status, and ConfirmationRequired leaves the action as it is.
Refused(a) == a.risk = "RED" /\ a.status # "APPROVED"

NextStepAlways(kind) == "record"            \* mutant: outbox.send is not recognised
NextStep(kind) == IF kind = "outbox.send" THEN "tool" ELSE "record"

Call(e) ==
    LET a == action[task[e].cur] IN
    /\ At(e, "call")
    /\ IF Refused(a)
       THEN Leave(e)
       ELSE task' = [task EXCEPT ![e].seen = a.status,
                                 ![e].pc = NextStep(a.kind)]
    /\ UNCHANGED <<others, action, batch, held, effects, faults>>

\* outbox.send commits the message's approved flag; the action, expired by that
\* commit, is read again for the audit record.
ApproveOutboxItem(e) ==
    /\ At(e, "tool")
    /\ TakesEffect(task[e].cur)
    /\ Goto(e, "reread")
    /\ UNCHANGED <<others, action, batch, held, faults>>

Reread(e) ==
    /\ At(e, "reread")
    /\ task' = [task EXCEPT ![e].pc = "record", ![e].seen = action[task[e].cur].status]
    /\ UNCHANGED <<others, action, batch, held, effects, faults>>

\* The action is DONE whatever the tool's result; the outbox row of an external
\* action is committed with it.  A copy that already says DONE writes nothing.
ResultOfTool(kind) ==                       \* mutant: the tool's status is stored
    IF kind = "external" THEN "QUEUED" ELSE "DONE"
ResultKept(kind) ==                         \* mutant: a queued action stays APPROVED
    IF kind = "external" THEN "APPROVED" ELSE "DONE"
Result(kind) == "DONE"

Record(e) ==
    LET id == task[e].cur IN
    /\ At(e, "record")
    /\ IF task[e].seen = "DONE" THEN UNCHANGED action ELSE SetStatus(id, Result(action[id].kind))
    /\ IF action[id].kind = "external" THEN TakesEffect(id) ELSE UNCHANGED effects
    /\ Leave(e)
    /\ UNCHANGED <<others, batch, held, faults>>

Fault(e) ==
    /\ faults < MaxFaults
    /\ faults' = faults + 1
    /\ \/ /\ task[e].pc \notin {"loop", "failing"} /\ Raise(e)
          /\ UNCHANGED <<batch, held>>
       \/ \E id \in batch[e] :
            /\ IsNext(e, id)
            /\ batch' = [batch EXCEPT ![e] = @ \ {id}]
            /\ Release(e)
            /\ task' = [task EXCEPT ![e].pc = "failing", ![e].cur = id]
    /\ UNCHANGED <<others, action, effects>>

Rescue(e) ==
    /\ At(e, "failing")
    /\ SetStatus(task[e].cur, "FAILED")
    /\ Leave(e)
    /\ UNCHANGED <<others, batch, held, effects, faults>>

RescueFails(e) ==
    /\ At(e, "failing") /\ faults < MaxFaults
    /\ faults' = faults + 1
    /\ Leave(e)
    /\ UNCHANGED <<others, action, batch, held, effects>>

Crash(e) ==
    /\ faults < MaxFaults
    /\ task[e].pc # "loop" \/ batch[e] # {}
    /\ faults' = faults + 1
    /\ Leave(e)
    /\ batch' = [batch EXCEPT ![e] = {}]
    /\ Release(e)
    /\ UNCHANGED <<others, action, effects>>

-------------------------------------------------------------------------------

Api ==
    \/ \E id \in Actions, kind \in Kinds, risk \in Risks, token \in BOOLEAN :
           Propose(id, kind, risk, token)
    \/ \E r \in Requests :
         \/ \E id \in Actions, decision \in Decisions : ReadForDecision(r, id, decision)
         \/ CommitDecision(r)
         \/ RequestDies(r)
    \/ BootstrapVerdict

Work(e) == Tick(e) \/ Call(e) \/ ApproveOutboxItem(e) \/ Reread(e) \/ Record(e) \/ Rescue(e)
Mishap(e) == Fault(e) \/ RescueFails(e) \/ Crash(e)

Next == Api \/ \E e \in Executors : Pick(e) \/ Work(e) \/ Mishap(e)
Spec == Init /\ [][Next]_vars

\* A started task runs on, and the task is started again and again.
Fairness == \A e \in Executors : WF_vars(Pick(e) \/ Work(e))
FairSpec == Spec /\ Fairness

-------------------------------------------------------------------------------
\* Properties

TypeOK ==
    /\ action \in [Actions -> Action]
    /\ request \in [Requests -> Request]
    /\ fresh \in BOOLEAN
    /\ batch \in [Executors -> SUBSET Actions]
    /\ held \in [Executors -> SUBSET Actions]
    /\ task \in [Executors -> Task]
    /\ confirmed \in SUBSET Actions
    /\ effects \in [Actions -> Nat]
    /\ faults \in 0..MaxFaults

\* Nothing takes effect that a human has not approved with the token of that very
\* action, whatever its risk level (ARCHITECTURE.md 23-26, jarvis_tasks.py 35,
\* actions.py 68-73).
EffectWasConfirmed == \A id \in Actions : effects[id] > 0 => id \in confirmed

\* An action recorded DONE has taken its effect, unless there is none to take: no
\* crash, exception or second executor records one that was skipped.
DoneTookEffect ==
    \A id \in Actions :
        action[id].status = "DONE" /\ action[id].kind \in {"outbox.send", "external"}
            => effects[id] > 0

\* One executor and one request at a time: an external action is queued exactly
\* once when it is DONE and not at all otherwise, since the row and the status
\* share a commit (lines 70-77).
ExternalExactlyOnce ==
    \A id \in Actions :
        action[id].kind = "external"
            => effects[id] = IF action[id].status = "DONE" THEN 1 ELSE 0

\* One executor and one request at a time: a decided or executed action is never
\* decided or executed again.
FinalStays ==
    [][\A id \in Actions :
          action[id].status \in {"REJECTED", "DONE", "FAILED"}
              => action'[id].status = action[id].status]_vars

\* While the bootstrap stays fresh, an approved action is carried out or fails.
ApprovedIsHandled ==
    <>[]fresh => \A id \in Actions :
        action[id].status = "APPROVED" ~> action[id].status # "APPROVED"
===============================================================================
