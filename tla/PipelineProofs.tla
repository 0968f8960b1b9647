---------------------------- MODULE PipelineProofs ----------------------------
(***************************************************************************)
(* The path of a message from its approval to its dispatch, proved for any *)
(* number of messages, actions, requests, executors and dispatch tasks.    *)
(*                                                                         *)
(* The invariants of the two components are taken from their own proofs,   *)
(* through instances of these (D and A): every step of the pipeline is a   *)
(* step of a component or leaves its rows and processes alone.  What is    *)
(* new is the invariant that links the two (Link).                         *)
(***************************************************************************)
EXTENDS ApprovalPipeline, TLAPS

D == INSTANCE OutboxDispatchProofs WITH Approvers <- Executors
A == INSTANCE ActionApprovalProofs WITH
    Kinds <- {"outbox.send"}, Risks <- {"RED"}, batch <- actionBatch, held <- actionHeld

-------------------------------------------------------------------------------
\* The components, as the pipeline and as their proofs name them

\* The assumptions of the components hold in the pipeline.
LEMMA DispatchAssumptions ==
    /\ D!MessagesAssumption /\ D!AllowlistsAssumption
    /\ D!ChannelsAssumption /\ D!SettingsAssumption
<1>1. D!IsFiniteSet(Messages)
  BY PipelineAssumption DEF IsFiniteSet, D!IsFiniteSet
<1> QED BY <1>1, PipelineAssumption DEF D!Kinds

LEMMA ApprovalAssumptions == A!ActionsAssumption /\ A!KindsAssumption /\ A!BoundsAssumption
<1>1. A!IsFiniteSet(Actions)
  BY PipelineAssumption DEF IsFiniteSet, A!IsFiniteSet
<1> QED BY <1>1, PipelineAssumption DEF A!AllKinds

\* Both names of an action mean the same.
LEMMA SameInit == (Dispatch!Init <=> D!Init) /\ (Approval!Init <=> A!Init)
BY DEF Dispatch!Init, D!Init, Dispatch!Idle, D!Idle, Dispatch!NoRow, D!NoRow,
       Dispatch!NullPayload, D!NullPayload, Dispatch!NewMeta, D!NewMeta, Approval!Init, A!Init,
       Approval!NoAction, A!NoAction, Approval!NoRequest, A!NoRequest, Approval!Idle, A!Idle

LEMMA SameMessages ==
    /\ Dispatch!BootstrapVerdict <=> D!BootstrapVerdict
    /\ \A allow : Dispatch!PutAllowlist(allow) <=> D!PutAllowlist(allow)
    /\ \A m : Dispatch!Exists(m) <=> D!Exists(m)
    /\ \A m : Dispatch!Grant(m) <=> D!Grant(m)
    /\ \A m, channel, to, own, requires :
          Dispatch!CreateOutboxMessage(m, channel, to, own, requires)
             <=> D!CreateOutboxMessage(m, channel, to, own, requires)
BY DEF Dispatch!CreateOutboxMessage, D!CreateOutboxMessage, Dispatch!PutAllowlist, D!PutAllowlist,
       Dispatch!BootstrapVerdict, D!BootstrapVerdict, Dispatch!Grant, D!Grant,
       Dispatch!NextNumber, D!NextNumber, Dispatch!Exists, D!Exists, Dispatch!Enforced,
       D!Enforced, Dispatch!Merged, D!Merged, Dispatch!dispatcher, D!dispatcher, Dispatch!NoRow,
       D!NoRow, Dispatch!NullPayload, D!NullPayload, Dispatch!NewMeta, D!NewMeta

LEMMA SameApprover ==
    ASSUME NEW e
    PROVE  /\ \A m : Dispatch!ApproveLoad(e, m) <=> D!ApproveLoad(e, m)
           /\ Dispatch!ApproveCommit(e) <=> D!ApproveCommit(e)
           /\ Dispatch!ApproverCrash(e) <=> D!ApproverCrash(e)
BY DEF Dispatch!ApproveLoad, D!ApproveLoad, Dispatch!ApproveCommit, D!ApproveCommit,
       Dispatch!ApproverCrash, D!ApproverCrash, Dispatch!NoApproval, D!NoApproval,
       Dispatch!NewMeta, D!NewMeta, Dispatch!Written, D!Written, Dispatch!dispatcher, D!dispatcher

LEMMA SameWorker ==
    ASSUME NEW w
    PROVE  /\ Dispatch!Pick(w) <=> D!Pick(w)
           /\ Dispatch!Work(w) <=> D!Work(w)
           /\ Dispatch!Mishap(w) <=> D!Mishap(w)
BY DEF Dispatch!Pick, D!Pick, Dispatch!Work, D!Work, Dispatch!Mishap, D!Mishap, Dispatch!Attempt,
       D!Attempt, Dispatch!Load, D!Load, Dispatch!Enforce, D!Enforce, Dispatch!Reload, D!Reload,
       Dispatch!GateBlocked, D!GateBlocked, Dispatch!GateClaim, D!GateClaim, Dispatch!Render,
       D!Render, Dispatch!Prepare, D!Prepare, Dispatch!Post, D!Post, Dispatch!Telegram,
       D!Telegram, Dispatch!Finish, D!Finish, Dispatch!Rescue, D!Rescue, Dispatch!EnforceSkipped,
       D!EnforceSkipped, Dispatch!Fault, D!Fault, Dispatch!RescueFails, D!RescueFails,
       Dispatch!Crash, D!Crash, Dispatch!Cardinality, D!Cardinality, Dispatch!Oldest, D!Oldest,
       Dispatch!Pickable, D!Pickable, Dispatch!Exists, D!Exists, Dispatch!Upgraded, D!Upgraded, Dispatch!At, D!At,
       Dispatch!others, D!others, Dispatch!IsNext, D!IsNext, Dispatch!Release, D!Release,
       Dispatch!Raise, D!Raise, Dispatch!Leave, D!Leave, Dispatch!Settle, D!Settle, Dispatch!Goto,
       D!Goto, Dispatch!Idle, D!Idle, Dispatch!NoRow, D!NoRow, Dispatch!NullPayload,
       D!NullPayload, Dispatch!NewMeta, D!NewMeta, Dispatch!Normalised, D!Normalised,
       Dispatch!Enforced, D!Enforced, Dispatch!Merged, D!Merged, Dispatch!Commit, D!Commit,
       Dispatch!Flush, D!Flush, Dispatch!Written, D!Written, Dispatch!Cleared, D!Cleared,
       Dispatch!Kinds, D!Kinds, Dispatch!Sender, D!Sender, Dispatch!Transmit, D!Transmit,
       Dispatch!Reported, D!Reported, Dispatch!Outcome, D!Outcome, Dispatch!Recovered, D!Recovered

LEMMA SameApi ==
    /\ Approval!BootstrapVerdict <=> A!BootstrapVerdict
    /\ \A id, kind, risk, token :
          Approval!Propose(id, kind, risk, token) <=> A!Propose(id, kind, risk, token)
    /\ \A r, id, decision :
          Approval!ReadForDecision(r, id, decision) <=> A!ReadForDecision(r, id, decision)
    /\ \A r : Approval!CommitDecision(r) <=> A!CommitDecision(r)
BY DEF Approval!Propose, A!Propose, Approval!ReadForDecision, A!ReadForDecision,
       Approval!CommitDecision, A!CommitDecision, Approval!BootstrapVerdict, A!BootstrapVerdict,
       Approval!MayDecide, A!MayDecide, Approval!SetStatus, A!SetStatus, Approval!NoRequest,
       A!NoRequest, Approval!executor, A!executor

LEMMA SameExecutor ==
    ASSUME NEW e
    PROVE  /\ Approval!Pick(e) <=> A!Pick(e)
           /\ Approval!Tick(e) <=> A!Tick(e)
           /\ Approval!Call(e) <=> A!Call(e)
           /\ Approval!ApproveOutboxItem(e) <=> A!ApproveOutboxItem(e)
           /\ Approval!Reread(e) <=> A!Reread(e)
           /\ Approval!Record(e) <=> A!Record(e)
           /\ Approval!Rescue(e) <=> A!Rescue(e)
           /\ Approval!Mishap(e) <=> A!Mishap(e)
           /\ \A a : Approval!Refused(a) <=> A!Refused(a)
BY DEF Approval!Pick, A!Pick, Approval!Tick, A!Tick, Approval!Call, A!Call,
       Approval!ApproveOutboxItem, A!ApproveOutboxItem, Approval!Reread, A!Reread,
       Approval!Record, A!Record, Approval!Rescue, A!Rescue, Approval!Mishap, A!Mishap,
       Approval!Fault, A!Fault, Approval!RescueFails, A!RescueFails, Approval!Crash, A!Crash,
       Approval!Cardinality, A!Cardinality, Approval!Oldest, A!Oldest, Approval!Pickable,
       A!Pickable, Approval!At, A!At, Approval!Goto, A!Goto, Approval!Leave, A!Leave,
       Approval!Raise, A!Raise, Approval!Release, A!Release, Approval!SetStatus, A!SetStatus,
       Approval!TakesEffect, A!TakesEffect, Approval!Idle, A!Idle, Approval!IsNext, A!IsNext,
       Approval!Refused, A!Refused, Approval!NextStep, A!NextStep, Approval!Result, A!Result,
       Approval!others, A!others

-------------------------------------------------------------------------------
\* The components' invariants are the pipeline's

Components == D!IInv /\ D!Keeping /\ A!IInv

\* What a step keeps of the rows of both tables.
Progress ==
    /\ Components'
    /\ \A m \in Messages : D!Grows(row[m], row'[m]) /\ D!Keeps(m)

LEMMA DispatchStep ==
    ASSUME Components, D!Next
    PROVE  /\ D!IInv' /\ D!Keeping'
           /\ \A m \in Messages : D!Grows(row[m], row'[m]) /\ D!Keeps(m)
<1>1. D!GoodStep
  BY DispatchAssumptions, D!InvNext DEF Components
<1>2. D!KeepStep
  BY DispatchAssumptions, D!KeepNext DEF Components
<1> QED BY <1>1, <1>2 DEF D!GoodStep, D!KeepStep

\* The verdict may turn, and faults of the executors count, while the dispatcher rests.
LEMMA DispatchRests ==
    ASSUME Components, UNCHANGED dispatchOnly, fresh' \in BOOLEAN, faults' \in 0..MaxFaults
    PROVE  /\ D!IInv' /\ D!Keeping'
           /\ \A m \in Messages : D!Grows(row[m], row'[m]) /\ D!Keeps(m)
<1>1. D!TypeOK'
  BY DEF Components, D!IInv, D!TypeOK, dispatchOnly
<1>2. D!GrantSound'
  BY DEF Components, D!IInv, D!GrantSound, D!Exists, dispatchOnly
<1>3. D!GoodStep
  BY <1>1, <1>2, DispatchAssumptions, D!InvQuiet DEF Components, dispatchOnly
<1>4. D!KeepStep
  BY <1>3, DispatchAssumptions, D!KeepQuiet DEF Components, dispatchOnly
<1> QED BY <1>3, <1>4 DEF D!GoodStep, D!KeepStep

LEMMA ApprovalStep == ASSUME Components, A!Next PROVE A!IInv'
BY ApprovalAssumptions, A!InvNext DEF Components

LEMMA ApprovalRests ==
    ASSUME Components, UNCHANGED approvalOnly, fresh' \in BOOLEAN, faults' \in 0..MaxFaults
    PROVE  A!IInv'
BY DEF Components, approvalOnly, A!IInv, A!TypeOK, A!ActionSound, A!RequestSound, A!TaskSound,
       A!BatchSound

LEMMA DispatchCounts == ASSUME Components, D!IInv' PROVE fresh' \in BOOLEAN /\ faults' \in 0..MaxFaults
BY DEF D!IInv, D!TypeOK

LEMMA ApprovalCounts == ASSUME Components, A!IInv' PROVE fresh' \in BOOLEAN /\ faults' \in 0..MaxFaults
BY DEF A!IInv, A!TypeOK

\* A step of the dispatcher or of what feeds it; one of the approvals; one of both.
LEMMA DispatchAlone == ASSUME Components, D!Next, UNCHANGED approvalOnly PROVE Progress
BY DispatchStep, DispatchCounts, ApprovalRests DEF Progress, Components

LEMMA ApprovalAlone == ASSUME Components, A!Next, UNCHANGED dispatchOnly PROVE Progress
BY ApprovalStep, ApprovalCounts, DispatchRests DEF Progress, Components

LEMMA Together == ASSUME Components, A!Next, D!Next PROVE Progress
BY ApprovalStep, DispatchStep DEF Progress, Components

-------------------------------------------------------------------------------
\* What links the two

\* A proposed action names a message that requires approval.
ProposalSound(id) ==
    action[id].status # "NONE" =>
        /\ target[id] \in Messages /\ D!Exists(target[id]) /\ row[target[id]].payload.requires
        /\ action[id].kind = "outbox.send"

\* A confirmed action has its token, and its message counts as approved.
ConfirmedSound(id) ==
    action[id].status # "NONE" /\ action[id].token /\ target[id] \in granted

\* Once the tool has run the message carries the approval, if it waits at all.
ApprovedIfWaiting(m) == D!Waiting(m) => row[m].meta.approved

\* An executor holds a copy of the message during the tool call and only then.
ExecutorSound(e) ==
    LET m == target[task[e].cur] IN
    /\ approval[e].msg = IF task[e].pc = "tool" THEN m ELSE 0
    /\ task[e].pc \in {"reread", "record"} => ApprovedIfWaiting(m)

DoneSound(id) == action[id].status = "DONE" => ApprovedIfWaiting(target[id])

Link ==
    /\ target \in [Actions -> Messages \cup {0}]
    /\ \A id \in Actions : ProposalSound(id) /\ DoneSound(id)
    /\ \A id \in confirmed : ConfirmedSound(id)
    /\ \A m \in granted : \E id \in confirmed : target[id] = m
    /\ \A e \in Executors : ExecutorSound(e)

IInv == Components /\ Link

LEMMA InvInit == Init => IInv
<1> SUFFICES ASSUME Init PROVE IInv
  OBVIOUS
<1>1. D!Init /\ A!Init /\ target = [id \in Actions |-> 0]
  BY SameInit DEF Init
<1>2. D!IInv /\ D!Keeping
  BY <1>1, DispatchAssumptions, D!InvInit, D!KeepInit
<1>3. A!IInv
  BY <1>1, ApprovalAssumptions, A!InvInit
<1>4. Link
  <2>1. \A id \in Actions : ProposalSound(id) /\ DoneSound(id)
    BY <1>1 DEF A!Init, A!NoAction, ProposalSound, DoneSound
  <2>2. \A e \in Executors : ExecutorSound(e)
    BY <1>1 DEF A!Init, A!Idle, D!Init, ExecutorSound
  <2> QED BY <1>1, <2>1, <2>2 DEF A!Init, D!Init, Link
<1> QED BY <1>2, <1>3, <1>4 DEF IInv, Components

\* A decision is about a proposed action, and an executor works on a confirmed one.
LEMMA DecisionNames ==
    ASSUME IInv, NEW r \in Requests, request[r].id # 0
    PROVE  /\ request[r].id \in Actions /\ target[request[r].id] \in Messages
           /\ action[request[r].id].status # "NONE"
           /\ request[r].decision = "APPROVED" => action[request[r].id].token
BY DEF IInv, Components, A!IInv, A!TypeOK, A!Request, A!RequestSound, Link, ProposalSound

LEMMA ExecutorNames ==
    ASSUME IInv, NEW e \in Executors, task[e].pc # "loop"
    PROVE  /\ task[e] \in A!Task /\ task[e].cur \in Actions /\ task[e].cur \in confirmed
           /\ action[task[e].cur].status # "NONE" /\ action[task[e].cur].kind = "outbox.send"
           /\ target[task[e].cur] \in Messages /\ D!Exists(target[task[e].cur])
BY DEF IInv, Components, A!IInv, A!TypeOK, A!TaskSound, Link, ProposalSound

-------------------------------------------------------------------------------
\* Every step is one of a component, or of both

\* The component steps an action of the pipeline consists of.
LEMMA MessageSteps ==
    ASSUME \/ \E m \in Messages, channel \in Channels \cap Dispatch!Kinds, to \in Addresses,
                 own \in RequestAllowlists, requires \in BOOLEAN :
                   CreateMessage(m, channel, to, own, requires)
           \/ \E allow \in TenantAllowlists : PutAllowlist(allow)
           \/ \E w \in Workers : Dispatcher(w) \/ DispatcherMishap(w)
    PROVE  D!Next /\ UNCHANGED <<approvalOnly, granted, approval>>
<1>1. ASSUME NEW m \in Messages, NEW channel \in Channels \cap Dispatch!Kinds, NEW to \in Addresses,
             NEW own \in RequestAllowlists, NEW requires \in BOOLEAN,
             CreateMessage(m, channel, to, own, requires)
      PROVE  D!Next /\ UNCHANGED <<approvalOnly, granted, approval>>
  <2>1. D!CreateOutboxMessage(m, channel, to, own, requires) /\ channel \in Channels \cap D!Kinds
    BY <1>1, SameMessages DEF CreateMessage, Dispatch!Kinds, D!Kinds
  <2>2. UNCHANGED <<approvalOnly, granted, approval>>
    BY <1>1, <2>1 DEF CreateMessage, D!CreateOutboxMessage
  <2> QED BY <2>1, <2>2 DEF D!Next, D!Environment
<1>2. ASSUME NEW allow \in TenantAllowlists, PutAllowlist(allow)
      PROVE  D!Next /\ UNCHANGED <<approvalOnly, granted, approval>>
  <2>1. D!PutAllowlist(allow) /\ UNCHANGED approvalOnly
    BY <1>2, SameMessages DEF PutAllowlist
  <2>2. UNCHANGED <<granted, approval>>
    BY <2>1 DEF D!PutAllowlist
  <2> QED BY <2>1, <2>2 DEF D!Next, D!Environment
<1>3. ASSUME NEW w \in Workers, Dispatcher(w) \/ DispatcherMishap(w)
      PROVE  D!Next /\ UNCHANGED <<approvalOnly, granted, approval>>
  <2>1. (D!Pick(w) \/ D!Work(w) \/ D!Mishap(w)) /\ UNCHANGED approvalOnly
    BY <1>3, SameWorker DEF Dispatcher, DispatcherMishap
  <2>2. UNCHANGED D!others
    BY <2>1 DEF D!Pick, D!Work, D!Mishap, D!Attempt, D!Load, D!Enforce, D!Reload, D!GateBlocked,
         D!GateClaim, D!Render, D!Prepare, D!Post, D!Telegram, D!Finish, D!Rescue,
         D!EnforceSkipped, D!Fault, D!RescueFails, D!Crash
  <2> QED BY <2>1, <2>2 DEF D!Next, D!others
<1> QED BY <1>1, <1>2, <1>3

LEMMA ExecutorSteps ==
    ASSUME IInv, NEW e \in Executors, Executor(e) \/ ExecutorMishap(e)
    PROVE  Progress /\ UNCHANGED <<target, granted>>
<1>1. UNCHANGED target
  BY DEF Executor, ExecutorAlone, ExecutorCall, ExecutorApproves, ExecutorMishap
<1>2. A!Pick(e) \/ A!Work(e) \/ A!Mishap(e)
  BY SameExecutor DEF Executor, ExecutorAlone, ExecutorCall, ExecutorApproves, ExecutorMishap, A!Work
<1>3. \/ UNCHANGED dispatchOnly
      \/ (\E m : D!ApproveLoad(e, m)) \/ D!ApproveCommit(e) \/ D!ApproverCrash(e)
  BY SameApprover DEF Executor, ExecutorAlone, ExecutorCall, ExecutorApproves, ExecutorMishap
<1>4. CASE UNCHANGED dispatchOnly
  BY <1>1, <1>2, <1>4, ApprovalAlone DEF IInv, A!Next, dispatchOnly
<1>5. CASE (\E m : D!ApproveLoad(e, m)) \/ D!ApproveCommit(e) \/ D!ApproverCrash(e)
  <2>1. ASSUME NEW m, D!ApproveLoad(e, m) PROVE m \in Messages
    BY <2>1 DEF D!ApproveLoad, IInv, Components, D!IInv, D!TypeOK
  <2>2. D!Next
    BY <1>5, <2>1 DEF D!Next, D!Environment
  <2>3. UNCHANGED granted
    BY <1>5 DEF D!ApproveLoad, D!ApproveCommit, D!ApproverCrash
  <2> QED BY <1>1, <1>2, <2>2, <2>3, Together DEF IInv, A!Next
<1> QED BY <1>3, <1>4, <1>5

LEMMA DecisionSteps ==
    ASSUME IInv, NEW r \in Requests, CommitDecision(r) PROVE Progress
<1>1. A!CommitDecision(r)
  BY SameApi DEF CommitDecision
<1>2. A!Next
  BY <1>1 DEF A!Next, A!Api
<1>3. request[r].id # 0
  BY <1>1 DEF A!CommitDecision
<1>4. UNCHANGED dispatchOnly \/ D!Grant(target[request[r].id])
  BY SameMessages DEF CommitDecision
<1>5. CASE D!Grant(target[request[r].id])
  <2>1. D!Next
    BY <1>3, <1>5, DecisionNames DEF D!Next, D!Environment
  <2> QED BY <1>2, <2>1, Together DEF IInv
<1> QED BY <1>2, <1>4, <1>5, ApprovalAlone DEF IInv

LEMMA ProposalSteps ==
    ASSUME IInv, NEW id \in Actions, NEW m \in Messages, NEW token \in BOOLEAN,
           ProposeSend(id, m, token)
    PROVE  Progress
<1>1. A!Propose(id, "outbox.send", "RED", token)
  BY SameApi DEF ProposeSend
<1> QED BY <1>1, ApprovalAlone DEF IInv, ProposeSend, A!Next, A!Api

LEMMA ReadSteps ==
    ASSUME IInv, NEW r \in Requests, NEW id \in Actions, NEW decision \in {"APPROVED", "REJECTED"},
           ReadForDecision(r, id, decision)
    PROVE  Progress
<1>1. A!ReadForDecision(r, id, decision) /\ UNCHANGED dispatchOnly
  BY SameApi DEF ReadForDecision
<1> QED BY <1>1, ApprovalAlone DEF IInv, A!Next, A!Api, A!Decisions

LEMMA VerdictSteps == ASSUME IInv, BootstrapVerdict PROVE Progress
<1>1. A!BootstrapVerdict /\ D!BootstrapVerdict
  BY SameApi, SameMessages DEF BootstrapVerdict
<1> QED BY <1>1, Together DEF IInv, A!Next, A!Api, D!Next, D!Environment

-------------------------------------------------------------------------------
\* The link is kept

\* A message that exists stays, with its requirement, and waits on if it did.
LEMMA MessageFrame ==
    ASSUME IInv, Progress, NEW m \in Messages, D!Exists(m)
    PROVE  /\ D!Exists(m)'
           /\ row[m].payload.requires => row'[m].payload.requires
           /\ ApprovedIfWaiting(m) => ApprovedIfWaiting(m)'
<1>1. D!Grows(row[m], row'[m]) /\ D!Keeps(m) /\ D!SoundRow(row[m])
  BY DEF Progress, IInv, Components, D!IInv, D!RowSound
<1>2. ASSUME D!Waiting(m)' PROVE D!Waiting(m)
  <2>1. D!Covered(row[m])
    BY <1>1, <1>2 DEF D!Keeps, D!Waiting
  <2>2. row[m].enforced
    BY <1>1, <2>1 DEF D!SoundRow, D!Covered
  <2> QED BY <1>1, <1>2, <2>1, <2>2 DEF D!Grows, D!Waiting, D!Exists
<1> QED BY <1>1, <1>2 DEF D!Grows, D!Keeps, D!Exists, ApprovedIfWaiting

LEMMA ProposalFrame ==
    ASSUME IInv, Progress, NEW id \in Actions, target'[id] = target[id],
           action'[id] # action[id] => /\ action[id].status # "NONE"
                                       /\ action'[id].kind = action[id].kind
    PROVE  ProposalSound(id)'
<1>1. ProposalSound(id)
  BY DEF IInv, Link
<1> SUFFICES ASSUME action'[id].status # "NONE" PROVE ProposalSound(id)'
  BY DEF ProposalSound
<1>2. action[id].status # "NONE" /\ action'[id].kind = action[id].kind
  OBVIOUS
<1>3. PICK m \in Messages : m = target[id] /\ D!Exists(m) /\ row[m].payload.requires
  BY <1>1, <1>2 DEF ProposalSound
<1>4. D!Exists(m)' /\ row'[m].payload.requires
  BY <1>3, MessageFrame
<1> QED BY <1>1, <1>2, <1>3, <1>4 DEF ProposalSound, D!Exists

LEMMA DoneFrame ==
    ASSUME IInv, Progress, NEW id \in Actions, target'[id] = target[id],
           action'[id].status = "DONE" => action[id].status = "DONE"
    PROVE  DoneSound(id)'
<1> SUFFICES ASSUME action'[id].status = "DONE" PROVE DoneSound(id)'
  BY DEF DoneSound
<1>1. PICK m \in Messages : m = target[id] /\ D!Exists(m)
  BY DEF IInv, Link, ProposalSound
<1>2. ApprovedIfWaiting(m)
  BY <1>1 DEF IInv, Link, DoneSound
<1>3. ApprovedIfWaiting(m)'
  BY <1>1, <1>2, MessageFrame
<1> QED BY <1>1, <1>3 DEF DoneSound, ApprovedIfWaiting, D!Waiting

LEMMA ExecutorFrame ==
    ASSUME IInv, Progress, NEW e \in Executors, task'[e] = task[e], approval'[e] = approval[e],
           \A id \in Actions : action[id].status # "NONE" => target'[id] = target[id]
    PROVE  ExecutorSound(e)'
<1>1. CASE task[e].pc = "loop"
  BY <1>1 DEF IInv, Link, ExecutorSound
<1>2. CASE task[e].pc # "loop"
  <2>1. PICK m \in Messages : m = target[task[e].cur] /\ m = target'[task[e].cur] /\ D!Exists(m)
    BY <1>2, ExecutorNames
  <2>2. ExecutorSound(e)
    BY DEF IInv, Link
  <2>3. ApprovedIfWaiting(m) => ApprovedIfWaiting(m)'
    BY <2>1, MessageFrame
  <2> QED BY <2>1, <2>2, <2>3 DEF ExecutorSound, ApprovedIfWaiting, D!Waiting
<1> QED BY <1>1, <1>2

\* A step that leaves actions, executors and approvals alone.
LEMMA LinkRests ==
    ASSUME IInv, Progress, UNCHANGED <<action, task, confirmed, target, granted, approval>>
    PROVE  Link'
<1>1. \A id \in Actions : ProposalSound(id)' /\ DoneSound(id)'
  BY ProposalFrame, DoneFrame
<1>2. \A e \in Executors : ExecutorSound(e)'
  BY ExecutorFrame
<1> QED BY <1>1, <1>2 DEF IInv, Link, ConfirmedSound

LEMMA LinkPropose ==
    ASSUME IInv, NEW id \in Actions, NEW m \in Messages, NEW token \in BOOLEAN,
           ProposeSend(id, m, token)
    PROVE  Link'
<1>1. /\ action[id].status = "NONE"
      /\ action' = [action EXCEPT ![id] = [status |-> "PENDING", kind |-> "outbox.send",
                                           risk |-> "RED", token |-> token]]
      /\ UNCHANGED <<task, confirmed>>
  <2>1. A!Propose(id, "outbox.send", "RED", token)
    BY SameApi DEF ProposeSend
  <2> QED BY <2>1 DEF A!Propose, A!executor
<1>2. /\ target' = [target EXCEPT ![id] = m] /\ UNCHANGED <<row, granted, approval>>
      /\ D!Exists(m) /\ row[m].payload.requires
  BY SameMessages DEF ProposeSend, dispatchOnly
<1>3. Progress
  BY ProposalSteps
<1>4. /\ target' \in [Actions -> Messages \cup {0}] /\ target'[id] = m
      /\ action'[id].status = "PENDING" /\ action'[id].kind = "outbox.send"
      /\ \A n \in Actions \ {id} : target'[n] = target[n] /\ action'[n] = action[n]
  BY <1>1, <1>2 DEF IInv, Link, Components, A!IInv, A!TypeOK
<1>5. ASSUME NEW n \in Actions PROVE ProposalSound(n)' /\ DoneSound(n)'
  <2>1. CASE n = id
    BY <1>2, <1>4, <2>1 DEF ProposalSound, DoneSound, D!Exists
  <2>2. CASE n # id
    BY <1>3, <1>4, <2>2, ProposalFrame, DoneFrame
  <2> QED BY <2>1, <2>2
<1>6. \A n \in confirmed : n \in Actions \ {id} /\ ConfirmedSound(n)
  BY <1>1 DEF IInv, Link, ConfirmedSound, Components, A!IInv, A!TypeOK
<1>7. \A n \in confirmed' : ConfirmedSound(n)'
  BY <1>1, <1>2, <1>4, <1>6 DEF ConfirmedSound
<1>8. \A k \in granted' : \E n \in confirmed' : target'[n] = k
  BY <1>1, <1>2, <1>4, <1>6 DEF IInv, Link
<1>9. \A e \in Executors : ExecutorSound(e)'
  BY <1>1, <1>2, <1>3, <1>4, ExecutorFrame
<1> QED BY <1>4, <1>5, <1>7, <1>8, <1>9 DEF Link

LEMMA LinkCommit == ASSUME IInv, NEW r \in Requests, CommitDecision(r) PROVE Link'
<1>0. PICK id, m : id = request[r].id /\ m = target[id]
  OBVIOUS
<1>1. /\ id # 0 /\ action' = [action EXCEPT ![id].status = request[r].decision]
      /\ confirmed' = IF request[r].decision = "APPROVED" /\ action[id].token
                      THEN confirmed \cup {id} ELSE confirmed
      /\ UNCHANGED task
  <2>1. A!CommitDecision(r)
    BY SameApi DEF CommitDecision
  <2> QED BY <1>0, <2>1 DEF A!CommitDecision, A!SetStatus, A!executor
<1>2. /\ id \in Actions /\ m \in Messages /\ action[id].status # "NONE"
      /\ request[r].decision \in {"APPROVED", "REJECTED"}
      /\ request[r].decision = "APPROVED" => action[id].token
  BY <1>0, <1>1, DecisionNames DEF IInv, Components, A!IInv, A!TypeOK, A!Request, A!Decisions
<1>3. /\ UNCHANGED <<target, row, approval>>
      /\ granted' = IF request[r].decision = "APPROVED" THEN granted \cup {m} ELSE granted
  <2>1. CASE request[r].decision = "APPROVED" /\ m \notin granted
    <3>1. D!Grant(m)
      BY <1>0, <2>1, SameMessages DEF CommitDecision
    <3> QED BY <2>1, <3>1 DEF D!Grant, D!dispatcher, CommitDecision
  <2>2. CASE ~(request[r].decision = "APPROVED" /\ m \notin granted)
    BY <1>0, <2>2 DEF CommitDecision, dispatchOnly
  <2> QED BY <2>1, <2>2
<1>4. Progress
  BY DecisionSteps
<1>5. /\ action'[id].status = request[r].decision /\ action'[id].kind = action[id].kind
      /\ action'[id].token = action[id].token
      /\ \A n \in Actions \ {id} : action'[n] = action[n]
  BY <1>1, <1>2 DEF IInv, Components, A!IInv, A!TypeOK, A!Action
<1>6. \A n \in Actions : ProposalSound(n)' /\ DoneSound(n)'
  BY <1>2, <1>3, <1>4, <1>5, ProposalFrame, DoneFrame
<1>7. ASSUME NEW n \in confirmed' PROVE ConfirmedSound(n)'
  <2>1. CASE n = id
    BY <1>0, <1>1, <1>2, <1>3, <1>5, <1>7, <2>1 DEF IInv, Link, ConfirmedSound
  <2>2. CASE n # id
    <3>1. n \in confirmed /\ n \in Actions
      BY <1>1, <1>7, <2>2 DEF IInv, Components, A!IInv, A!TypeOK
    <3> QED BY <1>3, <1>5, <2>2, <3>1 DEF IInv, Link, ConfirmedSound
  <2> QED BY <2>1, <2>2
<1>8. \A k \in granted' : \E n \in confirmed' : target'[n] = k
  BY <1>0, <1>1, <1>2, <1>3 DEF IInv, Link
<1>9. \A e \in Executors : ExecutorSound(e)'
  BY <1>1, <1>3, <1>4, ExecutorFrame
<1> QED BY <1>3, <1>6, <1>7, <1>8, <1>9 DEF IInv, Link

LEMMA LinkRead ==
    ASSUME IInv, NEW r \in Requests, NEW id \in Actions, NEW decision \in {"APPROVED", "REJECTED"},
           ReadForDecision(r, id, decision)
    PROVE  Link'
<1>1. A!ReadForDecision(r, id, decision) /\ UNCHANGED <<dispatchOnly, target>>
  BY SameApi DEF ReadForDecision
<1>2. UNCHANGED <<action, task, confirmed, target, granted, approval>>
  BY <1>1 DEF A!ReadForDecision, A!executor, dispatchOnly
<1> QED BY <1>2, ReadSteps, LinkRests

LEMMA LinkVerdict == ASSUME IInv, BootstrapVerdict PROVE Link'
<1>1. A!BootstrapVerdict /\ D!BootstrapVerdict /\ UNCHANGED target
  BY SameApi, SameMessages DEF BootstrapVerdict
<1>2. UNCHANGED <<action, task, confirmed, target, granted, approval>>
  BY <1>1 DEF A!BootstrapVerdict, D!BootstrapVerdict
<1> QED BY <1>2, VerdictSteps, LinkRests

\* Of its own action an executor may change the status, to DONE only when the
\* message carries the approval if it waits.
LEMMA LinkExecutor ==
    ASSUME IInv, Progress, NEW e \in Executors, UNCHANGED <<target, granted, confirmed>>,
           \A d \in Executors \ {e} : task'[d] = task[d] /\ approval'[d] = approval[d],
           \A id \in Actions :
               action'[id] # action[id] =>
                   /\ action[id].status # "NONE" /\ action'[id].status # "NONE"
                   /\ action'[id].kind = action[id].kind /\ action'[id].token = action[id].token
                   /\ action'[id].status = "DONE" => ApprovedIfWaiting(target[id])',
           ExecutorSound(e)'
    PROVE  Link'
<1>1. ASSUME NEW id \in Actions PROVE ProposalSound(id)' /\ DoneSound(id)'
  <2>1. ProposalSound(id)'
    BY ProposalFrame
  <2>2. CASE action'[id] = action[id]
    BY <2>1, <2>2, DoneFrame
  <2>3. CASE action'[id] # action[id]
    BY <2>1, <2>3 DEF DoneSound, ApprovedIfWaiting, D!Waiting
  <2> QED BY <2>1, <2>2, <2>3
<1>2. ASSUME NEW id \in confirmed PROVE ConfirmedSound(id)'
  <2>1. id \in Actions /\ ConfirmedSound(id)
    BY DEF IInv, Link, Components, A!IInv, A!TypeOK
  <2> QED BY <2>1 DEF ConfirmedSound
<1>3. \A d \in Executors : ExecutorSound(d)'
  BY ExecutorFrame
<1> QED BY <1>1, <1>2, <1>3 DEF IInv, Link

LEMMA LinkPick == ASSUME IInv, NEW e \in Executors, ExecutorAlone(e), A!Pick(e) PROVE Link'
<1>1. Progress /\ UNCHANGED <<target, granted>>
  BY ExecutorSteps DEF Executor
<1>2. UNCHANGED <<action, task, confirmed, approval>>
  BY DEF A!Pick, A!others, ExecutorAlone, dispatchOnly
<1> QED BY <1>1, <1>2, LinkRests

LEMMA LinkTick == ASSUME IInv, NEW e \in Executors, ExecutorAlone(e), A!Tick(e) PROVE Link'
<1>1. Progress /\ UNCHANGED <<target, granted>>
  BY ExecutorSteps DEF Executor
<1>2. UNCHANGED <<action, confirmed, approval>> /\ task[e].pc = "loop"
  BY DEF A!Tick, A!others, A!IsNext, A!At, ExecutorAlone, dispatchOnly
<1>3. CASE UNCHANGED task
  BY <1>1, <1>2, <1>3, LinkRests
<1>4. ASSUME NEW id, task' = [task EXCEPT ![e].pc = "call", ![e].cur = id] PROVE Link'
  <2>1. task'[e].pc = "call" /\ \A d \in Executors \ {e} : task'[d] = task[d]
    BY <1>4 DEF IInv, Components, A!IInv, A!TypeOK, A!Task
  <2>2. ExecutorSound(e)'
    BY <1>2, <2>1 DEF IInv, Link, ExecutorSound
  <2> QED BY <1>1, <1>2, <2>1, <2>2, LinkExecutor
<1> QED BY <1>3, <1>4 DEF A!Tick

LEMMA LinkReread == ASSUME IInv, NEW e \in Executors, ExecutorAlone(e), A!Reread(e) PROVE Link'
<1>1. Progress /\ UNCHANGED <<target, granted>>
  BY ExecutorSteps DEF Executor
<1>2. /\ UNCHANGED <<action, confirmed, approval>> /\ task[e].pc = "reread"
      /\ task' = [task EXCEPT ![e].pc = "record", ![e].seen = action[task[e].cur].status]
  BY DEF A!Reread, A!others, A!At, ExecutorAlone, dispatchOnly
<1>3. /\ task'[e].pc = "record" /\ task'[e].cur = task[e].cur
      /\ \A d \in Executors \ {e} : task'[d] = task[d]
  BY <1>2 DEF IInv, Components, A!IInv, A!TypeOK, A!Task
<1>4. PICK m \in Messages : m = target[task[e].cur] /\ D!Exists(m)
  BY <1>2, ExecutorNames
<1>5. ApprovedIfWaiting(m)'
  <2>1. ApprovedIfWaiting(m)
    BY <1>2, <1>4 DEF IInv, Link, ExecutorSound
  <2> QED BY <1>1, <1>4, <2>1, MessageFrame
<1>6. ExecutorSound(e)'
  BY <1>1, <1>2, <1>3, <1>4, <1>5 DEF IInv, Link, ExecutorSound, ApprovedIfWaiting, D!Waiting
<1> QED BY <1>1, <1>2, <1>3, <1>6, LinkExecutor

\* The action is recorded once its tool has run, and an exception is recorded too.
LEMMA LinkRecord == ASSUME IInv, NEW e \in Executors, ExecutorAlone(e), A!Record(e) PROVE Link'
<1>0. PICK id \in Actions : id = task[e].cur
  BY ExecutorNames DEF A!Record, A!At
<1>1. Progress /\ UNCHANGED <<target, granted>>
  BY ExecutorSteps DEF Executor
<1>2. /\ UNCHANGED <<confirmed, approval>> /\ task[e].pc = "record"
      /\ task' = [task EXCEPT ![e] = A!Idle]
      /\ UNCHANGED action \/ action' = [action EXCEPT ![id].status = "DONE"]
  BY <1>0 DEF A!Record, A!others, A!At, A!Leave, A!SetStatus, A!Result, ExecutorAlone, dispatchOnly
<1>3. task'[e].pc = "loop" /\ \A d \in Executors \ {e} : task'[d] = task[d]
  BY <1>2 DEF IInv, Components, A!IInv, A!TypeOK, A!Idle
<1>4. PICK m \in Messages : m = target[id] /\ D!Exists(m) /\ action[id].status # "NONE"
  BY <1>0, <1>2, ExecutorNames
<1>5. ApprovedIfWaiting(m)'
  <2>1. ApprovedIfWaiting(m)
    BY <1>0, <1>2, <1>4 DEF IInv, Link, ExecutorSound
  <2> QED BY <1>1, <1>4, <2>1, MessageFrame
<1>6. ASSUME NEW n \in Actions, action'[n] # action[n]
      PROVE  /\ action[n].status # "NONE" /\ action'[n].status # "NONE"
             /\ action'[n].kind = action[n].kind /\ action'[n].token = action[n].token
             /\ action'[n].status = "DONE" => ApprovedIfWaiting(target[n])'
  <2>1. n = id /\ action'[n] = [action[n] EXCEPT !.status = "DONE"]
    BY <1>2, <1>6 DEF IInv, Components, A!IInv, A!TypeOK
  <2>2. /\ action'[n].status = "DONE" /\ action'[n].kind = action[n].kind
        /\ action'[n].token = action[n].token
    BY <2>1 DEF IInv, Components, A!IInv, A!TypeOK, A!Action
  <2> QED BY <1>1, <1>4, <1>5, <2>1, <2>2 DEF ApprovedIfWaiting, D!Waiting
<1>7. ExecutorSound(e)'
  BY <1>2, <1>3 DEF IInv, Link, ExecutorSound
<1> QED BY <1>1, <1>2, <1>3, <1>6, <1>7, LinkExecutor

LEMMA LinkRescue == ASSUME IInv, NEW e \in Executors, ExecutorAlone(e), A!Rescue(e) PROVE Link'
<1>0. PICK id \in Actions : id = task[e].cur /\ action[id].status # "NONE"
  BY ExecutorNames DEF A!Rescue, A!At
<1>1. Progress /\ UNCHANGED <<target, granted>>
  BY ExecutorSteps DEF Executor
<1>2. /\ UNCHANGED <<confirmed, approval>> /\ task[e].pc = "failing"
      /\ task' = [task EXCEPT ![e] = A!Idle]
      /\ action' = [action EXCEPT ![id].status = "FAILED"]
  BY <1>0 DEF A!Rescue, A!others, A!At, A!Leave, A!SetStatus, ExecutorAlone, dispatchOnly
<1>3. task'[e].pc = "loop" /\ \A d \in Executors \ {e} : task'[d] = task[d]
  BY <1>2 DEF IInv, Components, A!IInv, A!TypeOK, A!Idle
<1>4. ASSUME NEW n \in Actions, action'[n] # action[n]
      PROVE  /\ action[n].status # "NONE" /\ action'[n].status = "FAILED"
             /\ action'[n].kind = action[n].kind /\ action'[n].token = action[n].token
  <2>1. n = id /\ action'[n] = [action[n] EXCEPT !.status = "FAILED"]
    BY <1>2, <1>4 DEF IInv, Components, A!IInv, A!TypeOK
  <2> QED BY <1>0, <2>1 DEF IInv, Components, A!IInv, A!TypeOK, A!Action
<1>5. ExecutorSound(e)'
  BY <1>2, <1>3 DEF IInv, Link, ExecutorSound
<1> QED BY <1>1, <1>2, <1>3, <1>4, <1>5, LinkExecutor

\* The call takes the copy of the message that the tool then writes back.
LEMMA LinkCall == ASSUME IInv, NEW e \in Executors, ExecutorCall(e) PROVE Link'
<1>1. Progress /\ UNCHANGED <<target, granted>>
  BY ExecutorSteps DEF Executor
<1>2. A!Call(e)
  BY SameExecutor DEF ExecutorCall
<1>3. UNCHANGED <<action, confirmed>> /\ task[e].pc = "call" /\ approval[e].msg = 0
  BY <1>2 DEF A!Call, A!others, A!At, IInv, Link, ExecutorSound
<1>0. PICK id, m : id = task[e].cur /\ m = target[id]
  OBVIOUS
<1>4. id \in Actions /\ action[id].kind = "outbox.send" /\ task[e] \in A!Task
  BY <1>0, <1>3, ExecutorNames
<1>5. CASE A!Refused(action[id])
  <2>1. task' = [task EXCEPT ![e] = A!Idle] /\ UNCHANGED approval
    BY <1>0, <1>2, <1>5, SameExecutor DEF A!Call, A!Leave, ExecutorCall, dispatchOnly
  <2>2. task'[e].pc = "loop" /\ \A d \in Executors \ {e} : task'[d] = task[d]
    BY <2>1 DEF IInv, Components, A!IInv, A!TypeOK, A!Idle
  <2>3. ExecutorSound(e)'
    BY <1>3, <2>1, <2>2 DEF ExecutorSound
  <2> QED BY <1>1, <1>3, <2>1, <2>2, <2>3, LinkExecutor
<1>6. CASE ~A!Refused(action[id])
  <2>1. task' = [task EXCEPT ![e].seen = action[id].status, ![e].pc = "tool"]
    BY <1>0, <1>2, <1>4, <1>6 DEF A!Call, A!NextStep
  <2>2. /\ task'[e].pc = "tool" /\ task'[e].cur = id
        /\ \A d \in Executors \ {e} : task'[d] = task[d]
    BY <1>0, <1>4, <2>1 DEF IInv, Components, A!IInv, A!TypeOK, A!Task
  <2>3. D!ApproveLoad(e, m)
    BY <1>0, <1>6, SameExecutor, SameApprover DEF ExecutorCall
  <2>4. approval'[e].msg = m /\ \A d \in Executors \ {e} : approval'[d] = approval[d]
    BY <2>3 DEF D!ApproveLoad, IInv, Components, D!IInv, D!TypeOK
  <2>5. ExecutorSound(e)'
    BY <1>0, <1>1, <2>2, <2>4 DEF ExecutorSound
  <2> QED BY <1>1, <1>3, <2>2, <2>4, <2>5, LinkExecutor
<1> QED BY <1>5, <1>6

LEMMA LinkApproves == ASSUME IInv, NEW e \in Executors, ExecutorApproves(e) PROVE Link'
<1>1. Progress /\ UNCHANGED <<target, granted>>
  BY ExecutorSteps DEF Executor
<1>2. A!ApproveOutboxItem(e) /\ D!ApproveCommit(e)
  BY SameExecutor, SameApprover DEF ExecutorApproves
<1>3. /\ UNCHANGED <<action, confirmed>> /\ task[e].pc = "tool"
      /\ task' = [task EXCEPT ![e].pc = "reread"]
      /\ approval' = [approval EXCEPT ![e] = D!NoApproval]
  BY <1>2 DEF A!ApproveOutboxItem, A!others, A!At, A!Goto, D!ApproveCommit
<1>4. /\ task'[e].pc = "reread" /\ task'[e].cur = task[e].cur /\ approval'[e].msg = 0
      /\ \A d \in Executors \ {e} : task'[d] = task[d] /\ approval'[d] = approval[d]
  BY <1>3 DEF IInv, Components, A!IInv, A!TypeOK, A!Task, D!IInv, D!TypeOK, D!NoApproval
<1>5. PICK m : m = target[task[e].cur] /\ m = approval[e].msg
  BY <1>3 DEF IInv, Link, ExecutorSound
<1>6. D!Waiting(m)' => row'[m].meta.approved
  BY <1>2, <1>5, DispatchAssumptions, D!CommitApproves DEF IInv, Components
<1>7. ExecutorSound(e)'
  BY <1>1, <1>4, <1>5, <1>6 DEF ExecutorSound, ApprovedIfWaiting, D!Waiting
<1> QED BY <1>1, <1>3, <1>4, <1>7, LinkExecutor

LEMMA LinkMishap == ASSUME IInv, NEW e \in Executors, ExecutorMishap(e) PROVE Link'
<1>1. Progress /\ UNCHANGED <<target, granted>>
  BY ExecutorSteps
<1>2. A!Mishap(e)
  BY SameExecutor DEF ExecutorMishap
<1>3. UNCHANGED <<action, confirmed>>
  BY <1>2 DEF A!Mishap, A!Fault, A!RescueFails, A!Crash, A!others
<1>4. task'[e].pc \in {"loop", "failing"} /\ \A d \in Executors \ {e} : task'[d] = task[d]
  <2>1. CASE A!Raise(e)
    BY <2>1 DEF A!Raise, A!Idle, IInv, Components, A!IInv, A!TypeOK
  <2>2. CASE A!Leave(e)
    BY <2>2 DEF A!Leave, A!Idle, IInv, Components, A!IInv, A!TypeOK
  <2>3. ASSUME NEW id, task' = [task EXCEPT ![e].pc = "failing", ![e].cur = id]
        PROVE  task'[e].pc = "failing" /\ \A d \in Executors \ {e} : task'[d] = task[d]
    BY <2>3 DEF IInv, Components, A!IInv, A!TypeOK, A!Task
  <2> QED BY <1>2, <2>1, <2>2, <2>3 DEF A!Mishap, A!Fault, A!RescueFails, A!Crash
<1>5. approval'[e].msg = 0 /\ \A d \in Executors \ {e} : approval'[d] = approval[d]
  <2>1. CASE approval[e].msg = 0
    BY <2>1 DEF ExecutorMishap, dispatchOnly
  <2>2. CASE approval[e].msg # 0
    <3>1. D!ApproverCrash(e)
      BY <2>2, SameApprover DEF ExecutorMishap
    <3> QED BY <3>1 DEF D!ApproverCrash, D!NoApproval, IInv, Components, D!IInv, D!TypeOK
  <2> QED BY <2>1, <2>2
<1>6. ExecutorSound(e)'
  BY <1>4, <1>5 DEF ExecutorSound
<1> QED BY <1>1, <1>3, <1>4, <1>5, <1>6, LinkExecutor

LEMMA InvNext == IInv /\ [Next]_vars => IInv' /\ Progress
<1> SUFFICES ASSUME IInv, [Next]_vars PROVE Link' /\ Progress
  BY DEF IInv, Progress
<1>1. ASSUME \/ \E m \in Messages, channel \in Channels \cap Dispatch!Kinds, to \in Addresses,
                  own \in RequestAllowlists, requires \in BOOLEAN :
                    CreateMessage(m, channel, to, own, requires)
             \/ \E allow \in TenantAllowlists : PutAllowlist(allow)
             \/ \E w \in Workers : Dispatcher(w) \/ DispatcherMishap(w)
      PROVE  Link' /\ Progress
  <2>1. D!Next /\ UNCHANGED <<approvalOnly, granted, approval>>
    BY <1>1, MessageSteps
  <2>2. Progress
    BY <2>1, DispatchAlone DEF IInv
  <2> QED BY <2>1, <2>2, LinkRests DEF approvalOnly
<1>2. ASSUME NEW id \in Actions, NEW m \in Messages, NEW token \in BOOLEAN,
             ProposeSend(id, m, token)
      PROVE  Link' /\ Progress
  BY <1>2, LinkPropose, ProposalSteps
<1>3. ASSUME NEW r \in Requests, NEW id \in Actions, NEW decision \in {"APPROVED", "REJECTED"},
             ReadForDecision(r, id, decision)
      PROVE  Link' /\ Progress
  BY <1>3, LinkRead, ReadSteps
<1>4. ASSUME NEW r \in Requests, CommitDecision(r) PROVE Link' /\ Progress
  BY <1>4, LinkCommit, DecisionSteps
<1>5. CASE BootstrapVerdict
  BY <1>5, LinkVerdict, VerdictSteps
<1>6. ASSUME NEW e \in Executors, Executor(e) \/ ExecutorMishap(e) PROVE Link' /\ Progress
  <2>1. Progress
    BY <1>6, ExecutorSteps
  <2>2. CASE ExecutorAlone(e)
    BY <2>1, <2>2, SameExecutor, LinkPick, LinkTick, LinkReread, LinkRecord, LinkRescue DEF ExecutorAlone
  <2> QED BY <1>6, <2>1, <2>2, LinkCall, LinkApproves, LinkMishap DEF Executor
<1>7. CASE UNCHANGED vars
  <2>1. UNCHANGED dispatchOnly /\ UNCHANGED approvalOnly /\ UNCHANGED <<fresh, faults>>
    BY <1>7 DEF vars
  <2>2. fresh' \in BOOLEAN /\ faults' \in 0..MaxFaults
    BY <2>1 DEF IInv, Components, D!IInv, D!TypeOK
  <2>3. Progress
    BY <2>1, <2>2, DispatchRests, ApprovalRests DEF IInv, Progress, Components
  <2> QED BY <2>1, <2>3, LinkRests DEF dispatchOnly, approvalOnly
<1>8. CASE \E id \in Actions, m \in Messages, token \in BOOLEAN : ProposeSend(id, m, token)
  BY <1>2, <1>8
<1>9. CASE \E r \in Requests :
             \/ \E id \in Actions, decision \in {"APPROVED", "REJECTED"} :
                  ReadForDecision(r, id, decision)
             \/ CommitDecision(r)
  BY <1>3, <1>4, <1>9
<1>10. CASE \E e \in Executors : Executor(e) \/ ExecutorMishap(e)
  BY <1>6, <1>10
<1> QED BY <1>1, <1>5, <1>7, <1>8, <1>9, <1>10 DEF Next

-------------------------------------------------------------------------------
\* The theorems

\* The invariants of both components, and the link between their states, hold in
\* the system composed of the two.
THEOREM Invariant == Spec => []IInv
<1>1. IInv /\ [Next]_vars => IInv'
  BY InvNext
<1> QED BY InvInit, <1>1, PTL DEF Spec

\* Every message of the pipeline comes from create_outbox_message.
AllEnforced == \A m \in Messages : row[m].enforced

LEMMA WorkersKeepEnforced ==
    ASSUME IInv, AllEnforced, NEW w \in Workers, D!Pick(w) \/ D!Work(w) \/ D!Mishap(w)
    PROVE  AllEnforced'
<1>1. row \in [Messages -> D!Row] /\ job[w] \in D!Job
  BY DEF IInv, Components, D!IInv, D!TypeOK
<1>2. UNCHANGED row \/ (\E new : D!Commit(w, new)) \/ D!Rescue(w)
  BY DEF D!Pick, D!Work, D!Mishap, D!Attempt, D!Load, D!Enforce, D!Reload, D!GateBlocked,
         D!GateClaim, D!Render, D!Prepare, D!Post, D!Telegram, D!Finish, D!EnforceSkipped,
         D!Fault, D!RescueFails, D!Crash
<1>3. CASE UNCHANGED row
  BY <1>3 DEF AllEnforced
<1>4. ASSUME NEW new, D!Commit(w, new) PROVE AllEnforced'
  BY <1>1, <1>4 DEF D!Commit, D!Flush, D!Row, AllEnforced
<1>5. CASE D!Rescue(w)
  BY <1>1, <1>5 DEF D!Rescue, D!Recovered, D!Row, AllEnforced
<1> QED BY <1>2, <1>3, <1>4, <1>5

LEMMA AllEnforcedNext == ASSUME IInv, AllEnforced, [Next]_vars PROVE AllEnforced'
<1>0. row \in [Messages -> D!Row]
  BY DEF IInv, Components, D!IInv, D!TypeOK
<1>1. ASSUME NEW m \in Messages, NEW channel \in Channels \cap Dispatch!Kinds, NEW to \in Addresses,
             NEW own \in RequestAllowlists, NEW requires \in BOOLEAN,
             CreateMessage(m, channel, to, own, requires)
      PROVE  AllEnforced'
  <2>1. D!CreateOutboxMessage(m, channel, to, own, requires)
    BY <1>1, SameMessages DEF CreateMessage
  <2> DEFINE p == D!Enforced([given |-> TRUE, requires |-> requires, allow |-> own], to)
             made == [D!NoRow EXCEPT !.status = "QUEUED", !.channel = channel, !.to = to,
                                     !.payload = p]
  <2>2. row' = [row EXCEPT ![m] = made]
    BY <2>1 DEF D!CreateOutboxMessage
  <2>3. made.enforced
    <3> HIDE DEF p
    <3> QED BY DEF D!NoRow
  <2> HIDE DEF made
  <2> QED BY <1>0, <2>2, <2>3 DEF AllEnforced
<1>2. ASSUME NEW w \in Workers, Dispatcher(w) \/ DispatcherMishap(w) PROVE AllEnforced'
  BY <1>2, SameWorker, WorkersKeepEnforced DEF Dispatcher, DispatcherMishap
<1>3. ASSUME NEW e \in Executors, Executor(e) \/ ExecutorMishap(e) PROVE AllEnforced'
  <2>1. UNCHANGED row \/ D!ApproveCommit(e)
    BY <1>3, SameApprover
       DEF Executor, ExecutorAlone, ExecutorCall, ExecutorApproves, ExecutorMishap, dispatchOnly,
           D!ApproveLoad, D!ApproverCrash
  <2> QED BY <1>0, <2>1 DEF D!ApproveCommit, D!Row, AllEnforced
<1>4. ASSUME NEW r \in Requests, CommitDecision(r) PROVE AllEnforced'
  BY <1>4, SameMessages DEF CommitDecision, D!Grant, dispatchOnly, AllEnforced
<1>5. ASSUME \/ \E allow \in TenantAllowlists : PutAllowlist(allow)
             \/ BootstrapVerdict
             \/ \E id \in Actions, m \in Messages, token \in BOOLEAN : ProposeSend(id, m, token)
             \/ \E r \in Requests, id \in Actions, decision \in {"APPROVED", "REJECTED"} :
                  ReadForDecision(r, id, decision)
             \/ UNCHANGED vars
      PROVE  UNCHANGED row
  BY <1>5, SameMessages DEF PutAllowlist, BootstrapVerdict, ProposeSend, ReadForDecision,
     D!PutAllowlist, D!BootstrapVerdict, dispatchOnly, vars
<1>6. CASE UNCHANGED row
  BY <1>6 DEF AllEnforced
<1> QED BY <1>1, <1>2, <1>3, <1>4, <1>5, <1>6 DEF Next

\* A message that requires approval is claimed or sent only after a human has
\* presented the token of an action that names it, whoever proposed it and however
\* the executors, requests and dispatch tasks interleave or fail
\* (jarvis_tasks.py 266-283, actions.py 53-90, tool_registry.py 92-112).
THEOREM OnlyConfirmedIsDispatched == Spec => []DispatchedWasConfirmed
<1>1. Init => AllEnforced
  BY SameInit DEF Init, D!Init, D!NoRow, AllEnforced
<1>2. IInv /\ AllEnforced /\ [Next]_vars => AllEnforced'
  BY AllEnforcedNext
<1>3. IInv /\ AllEnforced => DispatchedWasConfirmed
  <2> SUFFICES ASSUME IInv, AllEnforced, NEW m \in Messages, row[m].payload.requires,
                      row[m].status \notin {"QUEUED", "FAILED"}
               PROVE  \E id \in confirmed : target[id] = m /\ action[id].token
    BY DEF DispatchedWasConfirmed
  <2>1. m \in granted
    BY DEF IInv, Components, AllEnforced, D!IInv, D!RowSound, D!SoundRow, D!NoRow, D!NullPayload
  <2> QED BY <2>1 DEF IInv, Link, ConfirmedSound
<1> QED BY Invariant, <1>1, <1>2, <1>3, PTL DEF Spec

\* An executor that holds a copy of a message, about to write the approval into it,
\* runs the confirmed action that names this message: what the dispatcher's model
\* takes for granted of approvers, the executors guarantee.
THEOREM ExecutorsAreConfirmed == Spec => []ExecutorIsConfirmed
<1>1. IInv => ExecutorIsConfirmed
  <2> SUFFICES ASSUME IInv, NEW e \in Executors, approval[e].msg # 0
               PROVE  \E id \in confirmed : target[id] = approval[e].msg /\ task[e].cur = id
    BY DEF ExecutorIsConfirmed
  <2>1. task[e].pc = "tool" /\ approval[e].msg = target[task[e].cur]
    BY DEF IInv, Link, ExecutorSound
  <2> QED BY <2>1, ExecutorNames
<1> QED BY Invariant, <1>1, PTL

\* Once the action is DONE its message carries the approval until it is dispatched,
\* if the message's stored allowlist covers its recipient; for the others the
\* enforcement at dispatch may write an older copy of meta back.
CoveredStaysApproved ==
    \A id \in Actions :
        action[id].status = "DONE" /\ row[target[id]].status = "QUEUED"
            /\ row[target[id]].to \in row[target[id]].payload.allow
            => row[target[id]].meta.approved

THEOREM CoveredDoneMeansApproved == Spec => []CoveredStaysApproved
<1>1. IInv => CoveredStaysApproved
  BY DEF IInv, Link, DoneSound, ProposalSound, ApprovedIfWaiting, D!Waiting, D!Covered,
         CoveredStaysApproved
<1> QED BY Invariant, <1>1, PTL

\* Where every request carries a list that covers its recipient, as those of the
\* run approval_pipeline do, that is every message.
EveryListCovers == \A own \in RequestAllowlists : Addresses \subseteq own

GivenCovers == \A m \in Messages : row[m].payload.given => D!Covered(row[m])

LEMMA GivenCoversNext ==
    ASSUME EveryListCovers, IInv, GivenCovers, [Next]_vars PROVE GivenCovers'
<1> SUFFICES ASSUME NEW m \in Messages, row'[m].payload.given PROVE D!Covered(row'[m])
  BY DEF GivenCovers, D!Covered
<1>1. D!Grows(row[m], row'[m]) /\ D!Keeps(m)
  BY InvNext DEF Progress
<1>2. CASE D!Exists(m)
  BY <1>1, <1>2 DEF GivenCovers, D!Grows, D!Keeps, D!Exists
<1>3. CASE ~D!Exists(m)
  <2>1. D!Created(row'[m])
    BY <1>1, <1>3 DEF D!Keeps
  <2> QED BY <2>1 DEF EveryListCovers, D!Created, D!Covered
<1> QED BY <1>2, <1>3

\* "approve sending an existing outbox item" (tool_registry.py 92): then a DONE
\* action means the approval is on the message as long as it waits.
THEOREM DoneApproves == ASSUME EveryListCovers PROVE Spec => []DoneMeansApproved
<1>1. Init => GivenCovers
  BY SameInit DEF Init, D!Init, D!NoRow, D!NullPayload, GivenCovers
<1>2. IInv /\ GivenCovers /\ [Next]_vars => GivenCovers'
  BY GivenCoversNext
<1>3. ASSUME IInv, GivenCovers PROVE DoneMeansApproved
  <2> SUFFICES ASSUME NEW id \in Actions, action[id].status = "DONE", row[target[id]].status = "QUEUED"
               PROVE  row[target[id]].meta.approved
    BY DEF DoneMeansApproved
  <2>1. PICK m \in Messages : m = target[id] /\ row[m].payload.requires /\ ApprovedIfWaiting(m)
    BY <1>3 DEF IInv, Link, ProposalSound, DoneSound
  <2>2. D!Covered(row[m])
    BY <1>3, <2>1 DEF IInv, Components, D!IInv, D!RowSound, D!SoundRow, GivenCovers
  <2> QED BY <2>1, <2>2 DEF ApprovedIfWaiting, D!Waiting
<1> QED BY Invariant, <1>1, <1>2, <1>3, PTL DEF Spec

\* What each component guarantees alone it guarantees in the composition: no worker
\* sends twice, no message goes out unapproved or uncovered, nothing takes effect
\* unconfirmed, and what is DONE has taken its effect.
THEOREM ComponentsHold ==
    Spec => [](/\ Dispatch!NoWorkerRepeats /\ Dispatch!UnapprovedStaysQueued
               /\ Dispatch!ClaimedIsCleared
               /\ Approval!EffectWasConfirmed /\ Approval!DoneTookEffect)
<1>1. ASSUME IInv PROVE Dispatch!NoWorkerRepeats /\ Dispatch!UnapprovedStaysQueued
  BY <1>1 DEF IInv, Components, D!IInv, D!SendSound, D!RowSound, Dispatch!NoWorkerRepeats,
              Dispatch!UnapprovedStaysQueued
<1>2. ASSUME IInv PROVE Dispatch!ClaimedIsCleared
  BY <1>2 DEF IInv, Components, D!IInv, D!RowSound, D!SoundRow, Dispatch!ClaimedIsCleared
<1>3. ASSUME IInv PROVE Approval!EffectWasConfirmed /\ Approval!DoneTookEffect
  BY <1>3 DEF IInv, Components, A!IInv, A!ActionSound, A!WithEffect, Approval!EffectWasConfirmed,
              Approval!DoneTookEffect
<1> QED BY Invariant, <1>1, <1>2, <1>3, PTL

\* And an approval written in the pipeline is not taken back while its message waits.
ApprovalLasts ==
    [][\A m \in Messages :
          D!Exists(m) /\ D!Waiting(m)' /\ row[m].meta.approved => row'[m].meta.approved]_vars

THEOREM ApprovalsLast == Spec => ApprovalLasts
<1>1. IInv /\ [Next]_vars =>
        [\A m \in Messages :
            D!Exists(m) /\ D!Waiting(m)' /\ row[m].meta.approved => row'[m].meta.approved]_vars
  BY InvNext DEF Progress, D!Keeps
<1> QED BY Invariant, <1>1, PTL DEF Spec, ApprovalLasts
===============================================================================
