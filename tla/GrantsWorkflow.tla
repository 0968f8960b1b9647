---------------------------- MODULE GrantsWorkflow ----------------------------
(***************************************************************************)
(* The science grants workflow: POST /science/grants/run stores a workflow *)
(* row and then enqueues a Celery task, which sources grants, selects one, *)
(* drafts a document and creates three work items, with a commit after     *)
(* each of these.                                                          *)
(***************************************************************************)
EXTENDS Naturals

CONSTANTS
    Workflows,      \* workflow ids
    WorkItems       \* how many tasks a grant gets (workflow.py 95)

ASSUME GrantsAssumption == WorkItems \in Nat \ {0}

VARIABLES
    workflow,   \* rows of table workflows
    drafts,     \* drafts[w]: documents with workflow_id w
    workItems,  \* workItems[w]: tasks with workflow_id w
    step,       \* step[w]: where the request, then the Celery task, of w is
    stranded    \* observer: workflows whose request or task was cut short

grantsVars == <<workflow, drafts, workItems, step, stranded>>

States == {"NEW", "SOURCED", "ANALYZED", "DRAFTED", "NOTIFIED", "FAILED"}
Keys   == {"grants", "selected_grant", "draft_document_id", "created_task_ids"}
Workflow == [status: {"none", "RUNNING", "COMPLETED", "FAILED"}, state: States,
             artifacts: SUBSET Keys]

RequestSteps == {"enqueue"}
TaskSteps == {"queued", "source", "analyze", "draft", "recordDraft", "tasks", "notify"}
Steps == {"idle", "rescue", "ended"} \cup RequestSteps \cup TaskSteps

GrantsInit ==
    /\ workflow = [w \in Workflows |-> [status |-> "none", state |-> "NEW", artifacts |-> {}]]
    /\ drafts = [w \in Workflows |-> 0]
    /\ workItems = [w \in Workflows |-> 0]
    /\ step = [w \in Workflows |-> "idle"]
    /\ stranded = {}

Move(w, from, to) == step[w] = from /\ step' = [step EXCEPT ![w] = to]

\* One entry of artifacts set in place.  The column is plain JSON
\* (app/models/tables.py 9): the session does not see the change, the commit does not
\* write it, and the next read of the row drops it.
SetInPlace(artifacts, key) == artifacts

Save(w, state, artifacts) ==
    workflow' = [workflow EXCEPT ![w].state = state, ![w].artifacts = artifacts]

-------------------------------------------------------------------------------

\* start_grants_workflow up to its commit.
StartWorkflow(w) ==
    /\ Move(w, "idle", "enqueue")
    /\ workflow' = [workflow EXCEPT ![w].status = "RUNNING"]
    /\ UNCHANGED <<drafts, workItems, stranded>>

\* run_grants_workflow_task.delay.
EnqueueWorkflow(w) ==
    /\ Move(w, "enqueue", "queued")
    /\ UNCHANGED <<workflow, drafts, workItems, stranded>>

\* A Celery worker takes the task, acknowledges it and reads the row.
TakeWorkflow(w) ==
    /\ Move(w, "queued", "source")
    /\ UNCHANGED <<workflow, drafts, workItems, stranded>>

SourceGrants(w) ==
    /\ Move(w, "source", "analyze")
    /\ Save(w, "SOURCED", {"grants"})
    /\ UNCHANGED <<drafts, workItems, stranded>>

SelectGrant(w) ==
    /\ Move(w, "analyze", "draft")
    /\ Save(w, "ANALYZED", SetInPlace(workflow[w].artifacts, "selected_grant"))
    /\ UNCHANGED <<drafts, workItems, stranded>>

StoreDraft(w) ==
    /\ Move(w, "draft", "recordDraft")
    /\ drafts' = [drafts EXCEPT ![w] = @ + 1]
    /\ UNCHANGED <<workflow, workItems, stranded>>

RecordDraft(w) ==
    /\ Move(w, "recordDraft", "tasks")
    /\ Save(w, "DRAFTED", SetInPlace(workflow[w].artifacts, "draft_document_id"))
    /\ UNCHANGED <<drafts, workItems, stranded>>

\* All items in one commit.
StoreWorkItems(w) ==
    /\ Move(w, "tasks", "notify")
    /\ workItems' = [workItems EXCEPT ![w] = @ + WorkItems]
    /\ UNCHANGED <<workflow, drafts, stranded>>

NotifyFirst(w) ==                                   \* mutant: before the items exist
    /\ \E s \in {"tasks", "notify"} : Move(w, s, "ended")
    /\ workflow' = [workflow EXCEPT
         ![w].state = "NOTIFIED", ![w].status = "COMPLETED",
         ![w].artifacts = SetInPlace(workflow[w].artifacts, "created_task_ids")]
    /\ UNCHANGED <<drafts, workItems, stranded>>

NotifyDone(w) ==                                    \* mutant: the status of a task or an action
    /\ Move(w, "notify", "ended")
    /\ workflow' = [workflow EXCEPT
         ![w].state = "NOTIFIED", ![w].status = "DONE",
         ![w].artifacts = SetInPlace(workflow[w].artifacts, "created_task_ids")]
    /\ UNCHANGED <<drafts, workItems, stranded>>

Notify(w) ==
    /\ Move(w, "notify", "ended")
    /\ workflow' = [workflow EXCEPT
         ![w].state = "NOTIFIED", ![w].status = "COMPLETED",
         ![w].artifacts = SetInPlace(workflow[w].artifacts, "created_task_ids")]
    /\ UNCHANGED <<drafts, workItems, stranded>>

\* An exception in a step; what the step has not committed is lost.
RaiseInWorkflow(w) ==
    /\ step[w] \in TaskSteps \ {"queued"}
    /\ step' = [step EXCEPT ![w] = "rescue"]
    /\ UNCHANGED <<workflow, drafts, workItems, stranded>>

RescueSilently(w) ==                                \* mutant: the status stays RUNNING
    /\ Move(w, "rescue", "ended")
    /\ workflow' = [workflow EXCEPT ![w].state = "FAILED"]
    /\ UNCHANGED <<drafts, workItems, stranded>>

\* The exception handler; then the exception goes on to Celery, which does not retry.
RescueWorkflow(w) ==
    /\ Move(w, "rescue", "ended")
    /\ workflow' = [workflow EXCEPT ![w].state = "FAILED", ![w].status = "FAILED"]
    /\ UNCHANGED <<drafts, workItems, stranded>>

\* The API process dies before it enqueues or the broker refuses, the worker dies
\* after it acknowledged, or the handler's own commit fails.
StrandWorkflow(w) ==
    /\ step[w] \notin {"idle", "queued", "ended"}
    /\ step' = [step EXCEPT ![w] = "ended"]
    /\ stranded' = stranded \cup {w}
    /\ UNCHANGED <<workflow, drafts, workItems>>

\* GET /science/grants/workflows/{id}.
GetWorkflow(w) == workflow[w].status # "none" /\ UNCHANGED grantsVars

WorkOn(w) ==
    \/ EnqueueWorkflow(w) \/ TakeWorkflow(w) \/ SourceGrants(w) \/ SelectGrant(w)
    \/ StoreDraft(w) \/ RecordDraft(w) \/ StoreWorkItems(w) \/ Notify(w) \/ RescueWorkflow(w)

GrantsNext ==
    \E w \in Workflows :
        \/ StartWorkflow(w) \/ WorkOn(w) \/ GetWorkflow(w)
        \/ RaiseInWorkflow(w) \/ StrandWorkflow(w)

GrantsSpec == GrantsInit /\ [][GrantsNext]_grantsVars
GrantsFairness == \A w \in Workflows : WF_grantsVars(WorkOn(w))

-------------------------------------------------------------------------------
\* Properties

GrantsTypeOK ==
    /\ workflow \in [Workflows -> Workflow]
    /\ drafts \in [Workflows -> Nat]
    /\ workItems \in [Workflows -> Nat]
    /\ step \in [Workflows -> Steps]
    /\ stranded \subseteq Workflows

\* Rows are committed before the state that reports them: whoever polls
\* GET /workflows/{id} and sees DRAFTED finds the draft, NOTIFIED the draft and all
\* work items, once each, wherever the task was cut short; COMPLETED and NOTIFIED
\* appear together.
StateIsBacked ==
    \A w \in Workflows :
        /\ workflow[w].state = "DRAFTED" => drafts[w] = 1
        /\ workflow[w].state = "NOTIFIED" => drafts[w] = 1 /\ workItems[w] = WorkItems
        /\ workItems[w] # 0 => workflow[w].state \in {"DRAFTED", "NOTIFIED", "FAILED"}
        /\ drafts[w] # 0 => workflow[w].state \notin {"NEW", "SOURCED"}
        /\ workflow[w].status = "COMPLETED" <=> workflow[w].state = "NOTIFIED"

\* A workflow the API has answered for ends COMPLETED or FAILED, unless a process
\* was lost on the way; then it stays RUNNING.
WorkflowSettles ==
    \A w \in Workflows :
        workflow[w].status = "RUNNING" ~>
            workflow[w].status \in {"COMPLETED", "FAILED"} \/ w \in stranded
===============================================================================
