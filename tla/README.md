# TLA+ specifications of clowbot

clowbot is a FastAPI service with Celery tasks over PostgreSQL. Skills and
tools put messages into an outbox; messages that are risky wait for a human's
approval; a dispatcher task delivers the rest. These specifications model that
path first, because it is where the program acts on the world and where several
processes share rows of one database.

## Inventory

| component | state | operations | what makes it correct |
|---|---|---|---|
| Outbox dispatcher, `app/tasks/jarvis_tasks.py` `dispatch_outbox` | `outbox_messages` rows; per run: the fetched batch, its row locks, the session's copy of the current row | fetch a batch, then per row: check, normalise, enforce, gate, claim, render, send, record | at most one delivery; none before a required approval; a true and final outcome; nothing stays queued without a reason |
| Sender adapters, `app/outbox/adapters`, `app/integrations/telegram.py` | none | send | no second send of what was sent |
| Action executor, `process_pending_actions` and `app/core/tool_registry.py` | `pending_actions` rows, batch, locks, copy | fetch, tick, call the tool, record | carries out what a human confirmed, once |
| Approvals API, `app/api/routers/actions.py` | `pending_actions` rows | approve (with the token), reject | an action is decided once |
| Outbox service and policy, `app/outbox/service.py`, `app/core/outbox_policy.py`, `app/policy`, `/policy/allowlist` | outbox rows, policy documents | create (idempotent), replace the allowlist | one row per key; unlisted recipients need approval |
| Tools and outbox routers | none of their own | `/tools/telegram/send`, `/outbox` | every message that needs approval gets an action that can be approved |
| Skills, `app/skills` | documents, tasks, messages, actions | run | partial failure leaves no message behind that no one can approve |
| Bootstrap memory, `app/memory/bootstrap.py` | documents with versions | refresh, status, freshness check | stale or missing context blocks work; a refresh renews it |
| Grants workflow, `app/domain/science/grants` | workflow row with artifacts | start, run, status | steps in order, artifacts recorded |
| Portfolio scoring, `app/portfolio/scoring.py` | none | score, pick the active set | size and order of the set |
| Tenants and ids | tenants | create, seed | one tenant per name |
| Start-up, object store, vector store | connections | connect with retries | bounded |
| Preview renderer, mindmap router | documents | render, insert | - |
| On-demand scripts, `scripts/*.ps1` | lock files, rate-limit and router state files | status, smoke, e2e, help, poll Telegram | mutual exclusion; each command once |
| Always-on watchdog, `scripts/always_on` | failure counter, restart time | probe, count, restart | no restart storm, eventual restart |

How they interact: the API, the skills and the tools write `outbox_messages` and
`pending_actions`; the executor turns an APPROVED `outbox.send` action into the
`approved` flag in the message's `meta` column; the dispatcher reads that flag.
There are no messages between the processes: everything goes through rows, each
process with a session of its own. What is hard is therefore the order of reads
and commits of several sessions, crashes between two commits, and sends whose
answer is lost. Both tasks also ask `check_bootstrap_fresh` before each item.

## Plan

Done:

1. `OutboxContract`, `OutboxDispatch`, `OutboxDispatchSolo`: the dispatcher and its contract.
2. `ActionApproval`: proposal, decision and execution of actions.
3. `ApprovalPipeline`: 1 and 2 on one database.
4. `OutboxDispatchProofs`, `ActionApprovalProofs`: typing and safety.
5. `SkillRuns`, `SkillRunsProofs`: the producers of messages and actions, with the
   idempotency key.
6. `OutboxPolicy`: matching and merging of allowlists, against a reference reading of a list.
7. `Bootstrap`: refresh document by document.
8. `GrantsWorkflow`: commits step by step, the JSON column changed in place.
9. `OnDemandScripts`, `TelegramRouter`, `Watchdog`: flags, offsets, counters.
10. `Portfolio`, `TenantCreate`: a pure algorithm; a check-then-insert race. `Services` holds
    the modules of 6 to 10.
11. `ServicesProofs`, `ScriptsProofs`: their safety, and that of their sum. `OutboxOutcomes`: that
    recorded outcomes are true. In `ActionApprovalProofs` and `SkillRunsProofs`: what holds of
    one request and executor at a time, and of blocked jobs.
12. `OutboxRefinement`: `OutboxDispatchSolo` implements `OutboxContract`, step by step, and with one
    approver records every preview.

13. `PipelineProofs`: the end-to-end promises of `ApprovalPipeline`, from the invariants of both
    components. It is not a plain refinement of `ActionApproval` (a mishap of the dispatcher counts
    as a fault of both), so each action of the pipeline is shown to be a step of the components' state
    that their inductive invariants survive, and the lemmas of the components are used through the two instances.
14. `Portfolio` in `ServicesProofs`, and the types of `Services`: all safety of the services is proved.

To do:

15. A contract of `ActionApproval` like that of the outbox, for one request and executor: what `Alone` adds to
    `IInv` is nearly its simulation.
16. What the executors guarantee approvers of `OutboxDispatch` (`ExecutorsAreConfirmed`), as a step simulation
    of `OutboxDispatch` by the pipeline with the counters of faults left apart.

## Modules

| module | models | state | actions |
|---|---|---|---|
| `OutboxContract` | nothing; the promise of the outbox about one message | phase, needs, approved, delivered | submit, approve, claim, deliver, settle |
| `OutboxDispatch` | `dispatch_outbox`, its senders, and what writes its table: `create_outbox_message`, the outbox branches of `execute_pending_action`, `PUT /policy/allowlist` | `row` is `outbox_messages`, `tenantAllow` the newest policy document, `batch`, `held` and `job` a task's fetched rows, row locks and place in the loop body with its copy of the row, `approval` the executor's copy; `granted` and `sends` are observers, and `enforced` of a row, which tells rows of `create_outbox_message` from those stored past it (`StoreUnenforced`: older rows, as `test_outbox_github_adapter.py` inserts one) | one per database read, commit or send: `Pick` (lines 133-145), `Attempt` (155-176), `Load`, `Enforce`, `Reload`, `GateBlocked`/`GateClaim` (266-283), `Render`, `Prepare`, `Post`, `Telegram`, `Finish`, and the exception handler `Rescue` |
| `OutboxDispatchSolo` | the refinement to `OutboxContract`, and what the comments say of concurrency | - | - |
| `ActionApproval` | `approve_action`, `reject_action`, `process_pending_actions`, `execute_pending_action` | `action` is `pending_actions`, `request` a handler between its read and its commit, `batch`, `held`, `task` the executor; `confirmed` and `effects` are observers | one per read, commit or tool call |
| `ApprovalPipeline` | both on one database | all of the above, and `target`, the `outbox_id` of an action's payload | an action of either component, or a joint step where one sees the other: the tool call reads the row (`ExecutorCall`), sets the flag (`ExecutorApproves`), an approval is a grant (`CommitDecision`) |
| `SkillRuns` | `/skills/run`, `/tasks/{id}/run_skill`, the three skills, `/tools/telegram/send`, `create_outbox_message` with its key and the unique index | `stored`, `requires`: the outbox rows per key; `proposed`, `documents`, `asked`: the other tables; `run`: the requests; `wanted` what each caller asks for; `known`, `answers` (per job), `cut` are observers | one per commit, and the reads between them; a request of the wrong form ends with an exception before (`CountRefused`) or after its documents are committed (`PayloadRefused`) |
| `OutboxPolicy` | `enforce_allowlist`, the merge of lists, the match of recipients; what the sets of addresses in `OutboxDispatch` stand for | `payload`, `tenantList` | enforcement at creation and at dispatch, a new tenant list |
| `Bootstrap` | `refresh_bootstrap`, `bootstrap_status`, `check_bootstrap_fresh`; what the flag `fresh` of the modules above stands for | `files`, `docs`, a clock, `refresh`; `edited` is an observer | one per file read, query and commit; edits, ticks, cuts |
| `GrantsWorkflow` | the start request and the Celery task | `workflow`, `drafts`, `workItems` are rows; `step` the place of the request or task | one per commit, the exception handler, lost processes |
| `TenantCreate` | `POST /admin/tenants`, `seed_dev.py` | `tenant` with its unique index, `call` | lookup, insert, second lookup |
| `Portfolio` | `parse_portfolio_markdown_table`, `pick_active_set`; a stable sort is the sequence in the order of key and place (`InOrder`) | the document, the rows (a separator or a second header among them is one), the active set | parse, pick |
| `OnDemandScripts` | `smoke`, `e2e`, `status`, `help` `_on_demand.ps1` | lock and state files, `process`; `ranLately`, `shared` are observers | raise the flag, look at the others, check the limit, run, clean up, die |
| `TelegramRouter` | `telegram_router.ps1` and the update queue of Telegram (external) | `stored` offset, `confirmed` updates, `router` | load, fetch, handle, save, die |
| `Watchdog` | `always_on/watchdog.ps1` | state file, `watch`; `streak`, `quiet`, `lostWrite` are observers | lock, probe, count, restart, record, die |
| `Services` | the eight modules above as a sum: a behaviour exercises one of them | all of the above, `service` | those of the service |
| `MC...` | constants for TLC | - | - |
| `...Proofs`, `OutboxOutcomes`, `OutboxRefinement` | theorems | - | - |

The parts in `Services` share no row, file or process, so their interleavings tell nothing
that a behaviour of each does not; one run explores them all.

### Rows older than the enforcement

`jarvis_tasks.py:249` enforces the allowlist again at dispatch "in case policy docs changed or legacy rows", and
`test_outbox_github_adapter.py` inserts a row that asks for no approval and lists nobody. `StoreUnenforced`
is such a row. It gets its requirement at dispatch, and keeps it then (`RequirementIsKept`). Nothing
more is claimed of it: an exception in the enforcement is swallowed and lets it pass, and of two
tasks one may find it covered by a policy that the other no longer finds. The pipeline has no such rows.

### Sessions and commits

Every task and every request has a SQLAlchemy session of its own
(`app/core/db.py`: no autoflush). After a commit the session reads a row anew, once, at
its first use; from then on it works on that copy. A commit writes the columns that differ
from the copy, and `payload` and `meta` are single JSON columns: a change of one entry
writes the whole column. `Flush` and `Written` are that rule; it is why an approval
can be lost and why a stale status is not written back.

`FOR UPDATE SKIP LOCKED` keeps a row from other tasks' queries until the next commit of
the session, and the first commit, the audit record of the attempt, gives up the locks of
the whole batch. Other writers that would wait for a locked row are not delayed in the
model: a task changes no row between `Pick` and that commit, so waiting and not waiting
lead to the same rows.

Audit records are not modelled, but their commits are, because they end transactions.

### Runs

| run | shows |
|---|---|
| `dispatch_two_workers` | what survives two concurrent dispatch tasks, an executor and a fault: no task sends a message twice, no message leaves without the approval it requires, recorded outcomes are true, a requirement once found is kept, nothing is queued again |
| `dispatch_solo` | one task at a time, restarted after faults, implements `OutboxContract`, keeps the previews and drains what needs no approval |
| `approval_races` | two requests and two executors on one action: an action takes effect only after a confirmed approval; DONE means it took effect |
| `approval_single` | one of each: external actions are queued exactly once, decisions are final, approved actions are handled |
| `approval_pipeline` | end to end: dispatched means confirmed with a token of an action naming the message; an executed approval reaches the dispatcher |
| `skill_runs` | repeated and concurrent requests, some for the same keys, some of the wrong form: a DONE answer can be sent completely by who got it; a blocked job leaves a task and stores no message; a message nobody can approve exists only after a cut between two commits; every well-formed job is answered |
| `services` | refreshes, overlapping or cut: an answer is the status, of a refresh alone or of unchanged files, and without overlaps only changed documents are stored; a workflow's state is backed by its rows, and it settles; a name has one tenant; the active set is the top of the candidates; the verdict on recipients is exact; processes of scripts that yield to each other exclude each other and keep their limits, as long as they meet none of their own script; no command is lost; no restart storm, and a gateway that is down is restarted |
| `issue_posted_twice` | counterexample: two tasks post one GitHub issue |
| `narrowed_policy_ignored` | counterexample: a stored message keeps the allowlist of its creation |
| `stuck_sending` | counterexample: a claimed message of a dead task stays SENDING |
| `approval_overwritten` | counterexample: the flag set by the executor is overwritten by the dispatcher's copy of `meta` |
| `refresh_stays_stale` | counterexample: a complete refresh of unchanged files leaves the bootstrap stale |

The five counterexamples are recorded as findings in `PROJECT.json`, each with the comment
that promises otherwise. `DoneMeansApproved` holds in `approval_pipeline`, where no allowlist
upgrade happens at dispatch, because every recipient is then covered; the overwriting needs
the upgrade commit of lines 259-262 and so a recipient that is not.

The same models show more, which no run repeats. Some of it no document speaks of: the
verdict of the second bootstrap check before a GitHub post is not used; two executors that hold the same
external action queue it twice; a rejection that was read before the execution is written after it;
a batch full of messages
that wait for approval hides the younger ones; a second executor writes back a `meta` without the preview;
a missing required file is stored as an empty document and passes the guard;
`artifacts` of a workflow only ever keeps its first key, since later ones are set in place;
an exception during enforcement lets a row pass that nothing enforced before it was stored;
a separator or a second header among the rows of a table becomes a project;
smoke and e2e started together can both
give up, and the flag of a killed one stops the other until it is run again.
Some of it is against a comment:

- Two processes of one script run at once and remove each other's flag, because `New-Item -Force` does
  not fail on a file that is there. Line 4 of each of the four scripts says "lock (no parallel runs)",
  `telegram_router.ps1:7` "Lock: prevents parallel runs", `README.md:102` of e2e "locked to avoid parallel runs".
  Two routers repeat commands.
- A table without a separator line loses its first project; the comment of `scoring.py:58` is
  "Skip separator row if present".

The passing runs state what holds beside these: `ExternalExactlyOnce` and `FinalStays` for one request and one executor at a
time; `Drains` when a batch holds every message; `PreviewRecorded` for one approver;
`UnapprovedStaysQueued` and `ClaimedIsCleared` for rows whose allowlist was enforced when they were stored;
`MutualYieldExcludes` and `RunsAreSpaced` for processes that met no other of their own script;
`OnceWhenUndisturbed` without cuts and overlaps; `EachVersionIsNew` without overlaps;
`AnswerIsStatus` for a refresh that none overlapped, and for overlapped ones while no file changes;
`NoRestartStorm` except that a watchdog which dies with a restart or a success to record, or while writing,
costs one early restart; `WorkflowSettles` for workflows whose process was not lost.

### Bounds

`Messages`, `Actions`: one where the question is about processes on one row, two where it is
about batches (locks of the second row, order, draining). Rows do not influence each other
except through batches and locks, so a third row adds no new situation. `Workers`, `Requests`, `Executors`: two, as the
races are between a reader and one other writer. `MaxFaults`: crashes and
exceptions in one behaviour; one is enough to reach each place where a process can stop,
two in `approval_single` to fail in the handler as well. `Limit`: 25 in both tasks; in
the runs equal to the number of rows. Two addresses: one that policies list and one
that they do not. `SkillRuns` has a job of each kind, two of them of the wrong form. The messages of a sales job depend on the chat
and the place in the sequence, not on product or count, so such jobs share keys
(`outreach`, `teaser`, `encore`, `noproduct`); jobs of different kinds share no row. `Mixes` lists which two jobs callers
want in one behaviour: twice the same, two that share keys, one that is blocked with one that stores its keys, and the
kinds that share nothing in pairs, which only have to occur.
Its `MaxFaults` bounds requests cut short by a crash, not the errors of the unique index and of the schema, which are part of the code.

`Services`:

- Bootstrap: two sources, one of them required, two contents, two refreshes (a race needs a writer and a reader),
  a clock of 3 with documents stale after 1, so that a document outlives its age twice.
- Grants: two workflows (they share nothing; the second shows it). Tenants: three callers, one of
  them the seed script, two names; enough ids for every name and caller.
- Portfolio: five projects that differ in one rule each (computed score, tie in the key, urgency and money,
  done), in tables of two to four, with a line of prose in between or no header; an active set of 1 to 2.
- Policy: two boxes at two domains, so that an address can be covered by itself, by its domain or not at all;
  lists in every spelling (an entry of the list of emails spelled as a domain, "@corp", matches nothing); blind copies.
- Scripts: two processes of smoke and one of e2e, which yield to each other. status yields to both and help looks at no
  other script's file, but no script looks at theirs, so no process of them is run. Router: two processes, three updates, two of
  them commands, two per fetch, so that a backlog needs a second fetch. Watchdog: two processes,
  a threshold of 3, a cool-down of 2 ticks, two deaths. The count of failures and the ages stop at the threshold and at the
  cool-down: the script counts on, but compares with nothing larger.

### Fairness

- `OutboxDispatch`, `ActionApproval`, `ApprovalPipeline`: weak fairness of each task. It says that a started
  task runs on and that tasks are started again. Nothing in the repository schedules
  them (there is no beat schedule): it is an assumption about the deployment. Faults are never
  forced. The approval steps of humans are not fair.
- `SkillRuns`: a request in progress goes on, and a caller repeats a job until it is
  answered (strong fairness per job, as callers share the requests). The docstring of
  `task_run_skill` names the worker as its caller.
- `Services`: a Celery worker takes enqueued workflows and works on (`WorkOn`, weakly fair per workflow);
  the operating system starts a watchdog every minute (`install.ps1`) and its clock advances. Deaths, exceptions and
  changes of the gateway are not forced. Nothing else in `Services` is fair, and nothing else is claimed to happen.
- The liveness properties of the first two presuppose that the bootstrap verdict stays fresh from some moment on,
  since a stale one stops every task and every skill by design.

Deadlock is checked in every run.

## Proofs

TLAPS checks the following for every value of the constants that satisfies the named
assumptions (finite sets of positive numbers for messages and actions, allowlists over the addresses, natural bounds).

- `OutboxDispatchProofs`: `TypeCorrect`, one lemma per action; `IInv` is inductive, and from it
  `UnapprovedStaysQueued`, `ClaimedIsCleared`, `NoWorkerRepeats`, `NeverRequeued` and `RequirementIsKept`;
  with a second invariant, `Keeping`, that whether the own list of a message covers its recipient is fixed at
  creation (`CoverageFixed`) and that a covered message keeps a written approval while it waits (`ApprovalsLast`).
- `OutboxOutcomes`: `OutcomeIsTrue`.
- `OutboxRefinement`: with `OneTask` (one dispatch task at a time) `ImplementsContract`: every behaviour of the
  dispatcher, its environment and its faults is a behaviour of `OutboxContract`; with `OneApprover` too, `PreviewRecorded`.
  Two promises of the contract are also told of the rows: with `OneTask` a message leaves at most once
  (`AtMostOnce`, which the run `issue_posted_twice` refutes for two tasks) and an outcome is final.
- `ActionApprovalProofs`: typing, `EffectWasConfirmed` and `DoneTookEffect`; with `OneAtATime` (at most one
  request and one executor) also `ExternalExactlyOnce` and `FinalStays`.
- `PipelineProofs`: `DispatchedWasConfirmed` and `ExecutorIsConfirmed`, and that the invariants of both components
  hold in their composition (`ComponentsHold`). `DoneMeansApproved` is false in general (`approval_overwritten`); it is
  proved when every list of a request covers every address (`EveryListCovers`, as in `approval_pipeline`), and
  without that assumption for each message whose own list covers its recipient (`CoveredDoneMeansApproved`).
- `SkillRunsProofs`: typing, `OrphanOnlyWhenCut`, `DoneCanBeSent` and `BlockedAsks`, for jobs that share keys in any way.
- `ServicesProofs`: `EnforcementIsExact`, `StateIsBacked`, `NamesAgree`, `AnswerIsStatus`, `EachVersionIsNew`,
  `ActiveSetIsTop`.
- `ScriptsProofs`: `NoCommandLost`, `OnceWhenUndisturbed`, `NoRestartStorm`, `MutualYieldExcludes` and `RunsAreSpaced`,
  for any number of processes of each script.
- At the end of `ServicesProofs`: a behaviour of `Services` is a behaviour of each of its services
  (`EachIsRefined`), so all of this holds there, and so do the types of all of them (`ServicesTypeCorrect`).

None of the properties of `OutboxDispatch` is inductive: a task claims on the strength of a copy that may be
old. What makes it safe is that the copy and the row cannot disagree on what decides:
the recipient, whether there is a payload, whether it requires approval, and that a row
once out of QUEUED is never in it again (`CopyOf`). Of a row that nothing enforced before it was stored, the
requirement may still be raised at dispatch; what remains is that a copy which requires approval is one of a row that does,
and this is what `RequirementIsKept` rests on. `JobSound` adds, for each place in the loop body, what
the task has established; `SendSound` accounts for every send by the row's status and the
place of its task; `GrantSound` and `RowSound` trace every approved flag, in rows and in copies, to a human. The proof
first shows that no action breaks what the copies of the other tasks rely on
(the frame lemmas), then treats each action. `IInv` was also checked by TLC with the
constants of both dispatch runs.

`OutcomeIsTrue` does not follow from the statuses alone, because two tasks may write one row. It holds
because whether a message can leave the system at all is decided by its channel, its recipient and the settings
(`Open`), which nobody changes: `Truth` says that SENT and the external reference, in rows and in every copy,
stand for a send, and the stub outcomes for a message that is not open.

`ImplementsContract` is false of two tasks, so its proof needs what only one guarantees (`InStep`): the rows in the batch
are QUEUED, the row at hand is QUEUED until the claim and SENDING from there to the outcome, and the copy agrees.
Of a row that was not enforced, the copy carries a requirement the row has got since.
Each step then is one step of the contract (the claim, a send, the outcome, a creation, an approval) or changes
none of its variables; what an outcome says comes from `Truth`, that no send is repeated from `SendSound`.
`PreviewRecorded` needs that a claimed message carries the flag it was claimed on (`Recorded`): an approval
still under way then has nothing to write, and the preview in the same column stays.

An approval is lost when a task writes `meta` from a copy made before it. The task does so while the message waits
only to record that enforcement changed its payload, and for a covered message enforcement changes nothing: it is
`Keeping` that says so of rows and of copies (`CopyCovers`, `ApprovalCovers`). What a row covers is compared
with what the copy covers, and not the lists themselves, because the merge may enlarge them.

The pipeline needs, beside the invariants of its two components, what ties an action to the message it names (`Link`):
a grant of a message goes back to a confirmed action with that `target` (the dispatcher's invariant traces every
approved flag, in rows and in copies, to a grant); an executor holds a copy of the message of its action during the
tool call and only then (`ExecutorSound`); from the end of that call on, and once the action is DONE, the message is approved
if it still waits and is covered (`ApprovedIfWaiting`, which `Keeping` preserves).
All messages of the pipeline come from requests, which enforce the allowlist (`AllEnforced`).
The joint steps are then an environment step of the dispatcher and a step of an executor or a request at once.

`EffectWasConfirmed` needs that whatever an executor holds was APPROVED at some time
and that APPROVED rows, and the approvals requests are about to commit, have a token. `Alone` adds, for one
request and one executor, that whoever is about to write a status still finds the one it acted on.

`DoneCanBeSent` needs what a request has settled before it goes on to the next message
(`RequestSound`), and that no other request changes a stored row or takes back an action
(`Monotone`): an insert only touches a key that is not stored. `BlockedAsks` needs that every stored message
names a job that can store (`Blocking`).

In the services:

- `AnswerIsStatus`: while a refresh is alone, the sources it has passed are stored as it saw them
  (`RefreshSound`), and of those ahead every version is older than the refresh, so what it inserts is the
  newest. The times come from the refreshes, which begin at different instants. While refreshes overlap and no file
  changes, each source that one of them has passed has its file's content as its newest version, whoever stored it (`Steady`).
- `StateIsBacked`: at each step of the task, which rows exist and which state is written (`GrantsInv`).
- `NamesAgree`: ids that are stored, drawn or told are all different, and there is always a new one: ids that are
  in use are fewer than `MaxIds` (counted with the theorems on finite sets).
- `EnforcementIsExact`: a message once enforced requires approval or is covered by its own merged list
  (`PolicyInv`), and a merge only enlarges that list, so enforcement at dispatch changes nothing.
- `NoCommandLost`: what a router has passed, and what it read from the state file, has been handled (`HandledBehind`);
  every offset is one of these, so overlaps and deaths do no harm.
- `MutualYieldExcludes`, `RunsAreSpaced`: a process not in `shared` is the only one of its script (`Unmet`), so its flag is up
  between raising and removing it, and what it saved stays; of two
  that look at each other's flag not both get past it (`OneHasPassed`).
- `ActiveSetIsTop`: for a strict total order of a finite set, the number of elements ahead of one is its place, and
  places are a bijection (`OrderExists`, `OrderPlaces`, by counting with the theorems on finite sets and no induction over
  tables). The sort key with the place in the table is such an order (`BeforeIsTotal`), so a sequence in that order
  exists and has each row where the reference definition counts it; the bounds cut its front.
- `NoRestartStorm`: the count in the file and in the copy is at most the failures since the last good probe,
  while nothing was lost since the last recorded restart (`Counted`); recording a restart makes the file true again,
  so a death costs one early restart. Attempts in which Restart-Service raises are no restarts here: the script
  ends before it notes the time, and has no cool-down for them.

Only model-checked: liveness under fairness (`Drains`, `ApprovedIsHandled`, `ApprovedIsDispatched`,
`JobsAreAnswered`, `WorkflowSettles`, `DownIsRestarted`), which is beyond the prover. Every safety invariant and action property of
a passing run is a theorem, for every value of the constants or under the hypothesis named above.

## Not modelled

- The texts of payloads, previews and documents, and cells of a table (`_to_int`); hashes of contents, which are taken not to collide.
- In `OutboxDispatch` the bootstrap is a flag that turns at any time, which covers every refresh and
  every ageing in `Bootstrap`; an allowlist is the set of addresses that `OutboxPolicy` says it lets through.
- Validation errors of the endpoints and the 404/409 answers before the first commit: they change nothing. The errors that
  skills meet later are modelled (`CountRefused`, `PayloadRefused`).
- A Celery task delivered twice by the broker (the repository configures neither late acknowledgement nor retries).
- The lock file of the Telegram router, which excludes nobody (`New-Item -Force`): routers in the model overlap freely.
- The user and the audit record of the seed script; negative `min_active` and `max_active`.
- Start-up, MinIO and Qdrant clients, preview renderer, mindmap inserts, listings, migrations other than the
  unique index: input and output without rules of their own.
- Unknown kinds that only tests insert ("noop" and an outbox.send without a message) are kept in `ActionApproval`, because
  the executor has branches for them.
