--------------------------- MODULE ApprovalPipeline ---------------------------
(***************************************************************************)
(* ActionApproval and OutboxDispatch working on one database: the path of  *)
(* a message that needs approval, from the skill that stores it and        *)
(* proposes its outbox.send action, over the human who confirms with the   *)
(* token and the executor that sets the approved flag, to the dispatcher.  *)
(*                                                                         *)
(* Executors are the approvers of OutboxDispatch.  A step of one component *)
(* that the other one sees is a joint step of both.                        *)
(***************************************************************************)
EXTENDS Naturals, FiniteSets

CONSTANTS Messages, Workers, Addresses, NoAddress, TenantAllowlists, RequestAllowlists,
          Channels, TelegramLive, EnvChats, GithubLive,
          Actions, Requests, Executors, Limit, MaxFaults

\* What both components assume of these.
ASSUME PipelineAssumption ==
    /\ Messages \subseteq Nat \ {0} /\ IsFiniteSet(Messages)
    /\ Actions \subseteq Nat \ {0} /\ IsFiniteSet(Actions)
    /\ TenantAllowlists \cup RequestAllowlists \subseteq SUBSET Addresses
    /\ Channels \subseteq {"email", "telegram", "github_issue", "stub"}
    /\ TelegramLive \in BOOLEAN /\ GithubLive \in BOOLEAN
    /\ Limit \in Nat /\ MaxFaults \in Nat

VARIABLES
    row, tenantAllow, batch, held, job, approval, granted, sends,  \* OutboxDispatch
    action, request, actionBatch, actionHeld, task, confirmed, effects, \* ActionApproval
    fresh, faults,                                                  \* both
    target                          \* target[id]: the outbox_id in the action's payload

Dispatch == INSTANCE OutboxDispatch WITH Approvers <- Executors
Approval == INSTANCE ActionApproval WITH
    Kinds <- {"outbox.send"}, Risks <- {"RED"}, batch <- actionBatch, held <- actionHeld

dispatchOnly == <<row, tenantAllow, batch, held, job, approval, granted, sends>>
approvalOnly == <<action, request, actionBatch, actionHeld, task, confirmed, effects, target>>
vars == <<dispatchOnly, approvalOnly, fresh, faults>>

Init == Dispatch!Init /\ Approval!Init /\ target = [id \in Actions |-> 0]

-------------------------------------------------------------------------------

CreateMessage(m, channel, to, own, requires) ==
    /\ Dispatch!CreateOutboxMessage(m, channel, to, own, requires)
    /\ UNCHANGED approvalOnly

PutAllowlist(allow) == Dispatch!PutAllowlist(allow) /\ UNCHANGED approvalOnly

\* After its message, in a commit of its own, a skill (with a token) or the tools
\* router (without one) proposes the action.
ProposeSend(id, m, token) ==
    /\ Dispatch!Exists(m) /\ row[m].payload.requires
    /\ Approval!Propose(id, "outbox.send", "RED", token)
    /\ target' = [target EXCEPT ![id] = m]
    /\ UNCHANGED dispatchOnly

ReadForDecision(r, id, decision) ==
    /\ Approval!ReadForDecision(r, id, decision)
    /\ UNCHANGED <<dispatchOnly, target>>

\* The first approval of a message is what OutboxDispatch calls Grant.
CommitDecision(r) ==
    LET m == target[request[r].id]
        approves == request[r].decision = "APPROVED"
    IN
    /\ Approval!CommitDecision(r)
    /\ IF approves /\ m \notin granted THEN Dispatch!Grant(m) ELSE UNCHANGED dispatchOnly
    /\ UNCHANGED target

BootstrapVerdict ==
    Dispatch!BootstrapVerdict /\ Approval!BootstrapVerdict /\ UNCHANGED target

\* Executor steps the dispatcher does not see.
ExecutorAlone(e) ==
    /\ \/ Approval!Pick(e) \/ Approval!Tick(e) \/ Approval!Reread(e)
       \/ Approval!Record(e) \/ Approval!Rescue(e)
    /\ UNCHANGED <<dispatchOnly, target>>

\* The tool call reads the message unless the action is refused.
ExecutorCall(e) ==
    LET id == task[e].cur IN
    /\ Approval!Call(e)
    /\ IF Approval!Refused(action[id]) THEN UNCHANGED dispatchOnly
       ELSE Dispatch!ApproveLoad(e, target[id])
    /\ UNCHANGED target

ExecutorApproves(e) ==
    /\ Approval!ApproveOutboxItem(e)
    /\ Dispatch!ApproveCommit(e)
    /\ UNCHANGED target

\* A crash or an exception of the executor drops its copy of the message.
ExecutorMishap(e) ==
    /\ Approval!Mishap(e)
    /\ IF approval[e].msg = 0 THEN UNCHANGED dispatchOnly ELSE Dispatch!ApproverCrash(e)
    /\ UNCHANGED target

Executor(e) == ExecutorAlone(e) \/ ExecutorCall(e) \/ ExecutorApproves(e)

Dispatcher(w) ==
    (Dispatch!Pick(w) \/ Dispatch!Work(w)) /\ UNCHANGED approvalOnly

DispatcherMishap(w) == Dispatch!Mishap(w) /\ UNCHANGED approvalOnly

Next ==
    \/ \E m \in Messages, channel \in Channels \cap Dispatch!Kinds, to \in Addresses,
          own \in RequestAllowlists, requires \in BOOLEAN :
            CreateMessage(m, channel, to, own, requires)
    \/ \E allow \in TenantAllowlists : PutAllowlist(allow)
    \/ \E id \in Actions, m \in Messages, token \in BOOLEAN : ProposeSend(id, m, token)
    \/ \E r \in Requests :
         \/ \E id \in Actions, decision \in {"APPROVED", "REJECTED"} :
              ReadForDecision(r, id, decision)
         \/ CommitDecision(r)
    \/ BootstrapVerdict
    \/ \E e \in Executors : Executor(e) \/ ExecutorMishap(e)
    \/ \E w \in Workers : Dispatcher(w) \/ DispatcherMishap(w)

Spec == Init /\ [][Next]_vars

\* Both tasks are started again and again, and a started one runs on.
FairSpec ==
    /\ Spec
    /\ \A e \in Executors : WF_vars(Executor(e))
    /\ \A w \in Workers : WF_vars(Dispatcher(w))

-------------------------------------------------------------------------------
\* Properties

\* End to end: a message that requires approval leaves QUEUED for SENDING or an
\* outcome only after a human presented the token of an action that names it.
DispatchedWasConfirmed ==
    \A m \in Messages :
        row[m].payload.requires /\ row[m].status \notin {"QUEUED", "FAILED"}
            => \E id \in confirmed : target[id] = m /\ action[id].token

\* What OutboxDispatch assumes of its approvers, ActionApproval guarantees: an
\* executor about to set a message's flag runs an action a human confirmed.
ExecutorIsConfirmed ==
    \A e \in Executors : approval[e].msg # 0 =>
        \E id \in confirmed : target[id] = approval[e].msg /\ task[e].cur = id

\* "approve sending an existing outbox item" (tool_registry.py 92): once the
\* action is DONE the message carries the approval until it is dispatched.
DoneMeansApproved ==
    \A id \in Actions :
        action[id].status = "DONE" /\ row[target[id]].status = "QUEUED"
            => row[target[id]].meta.approved

\* While the bootstrap stays fresh, a message whose action is DONE leaves QUEUED.
ApprovedIsDispatched ==
    <>[]fresh => \A id \in Actions :
        action[id].status = "DONE"
            ~> (target[id] # 0 /\ row[target[id]].status # "QUEUED")
===============================================================================
