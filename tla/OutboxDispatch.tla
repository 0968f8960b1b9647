---------------------------- MODULE OutboxDispatch ----------------------------
(***************************************************************************)
(* The outbox dispatcher, app/tasks/jarvis_tasks.py dispatch_outbox, with  *)
(* the code that feeds its table: create_outbox_message and the legacy     *)
(* branch of execute_pending_action insert rows, the outbox.send branch    *)
(* sets the approved flag, PUT /policy/allowlist changes the tenant's      *)
(* allowlist.  Several dispatch tasks may run at once, each in a database  *)
(* session of its own.                                                     *)
(*                                                                         *)
(* A session reads a row once after each of its commits or rollbacks and   *)
(* then works on that copy; a commit writes back only the columns whose    *)
(* value differs from the copy.  payload and meta are single JSON columns, *)
(* written whole.  The row locks of SELECT ... FOR UPDATE SKIP LOCKED last *)
(* until the session's next commit or rollback.                            *)
(*                                                                         *)
(* An address stands for a complete recipient, an allowlist for the set of *)
(* addresses it lets through.  Message numbers follow created_at.          *)
(***************************************************************************)
EXTENDS Naturals, FiniteSets

CONSTANTS
    Messages,           \* message numbers, in the order of created_at
    Workers,            \* concurrent executions of dispatch_outbox
    Approvers,          \* concurrent executions of the outbox.send branch
    Addresses,          \* recipients
    NoAddress,          \* the recipient of a row that does not exist yet
    TenantAllowlists,   \* allowlists an administrator may PUT
    RequestAllowlists,  \* allowlists a creation request may carry
    Channels,           \* channels in use
    TelegramLive,       \* TELEGRAM_BOT_TOKEN is set
    EnvChats,           \* TELEGRAM_ALLOWLIST_CHATS
    GithubLive,         \* OUTBOX_REAL_SEND_ENABLED and GITHUB_TOKEN are set
    Limit,              \* the limit argument of dispatch_outbox
    MaxFaults           \* bound on the crashes and exceptions of a behaviour

Kinds == {"email", "telegram", "github_issue"}   \* payload kinds of outbox_v1

ASSUME MessagesAssumption == Messages \subseteq Nat \ {0} /\ IsFiniteSet(Messages)
ASSUME AllowlistsAssumption ==
    /\ TenantAllowlists \subseteq SUBSET Addresses
    /\ RequestAllowlists \subseteq SUBSET Addresses
ASSUME ChannelsAssumption == Channels \subseteq Kinds \cup {"stub"}
ASSUME SettingsAssumption ==
    /\ TelegramLive \in BOOLEAN /\ GithubLive \in BOOLEAN
    /\ Limit \in Nat /\ MaxFaults \in Nat

VARIABLES
    row,          \* outbox_messages
    tenantAllow,  \* the newest policy_allowlist document
    fresh,        \* what check_bootstrap_fresh answers
    batch,        \* batch[w]: rows worker w has fetched and not yet attempted
    held,         \* held[w]: rows worker w holds locked
    job,          \* job[w]: where worker w is in the loop body
    approval,     \* approval[a]: the outbox.send execution a is in, and its copy
    granted,      \* observer: the messages a human has approved
    sends,        \* observer: sends[m][w] times m left the system through w
    faults        \* crashes and exceptions so far

vars == <<row, tenantAllow, fresh, batch, held, job, approval, granted, sends, faults>>

-------------------------------------------------------------------------------
\* Rows

Statuses == {"NONE", "QUEUED", "SENDING", "SENT", "STUB_SENT", "DRY_RUN_SENT", "FAILED"}
Payload  == [given: BOOLEAN, requires: BOOLEAN, allow: SUBSET Addresses]
Meta     == [approved: BOOLEAN, flagged: BOOLEAN, preview: BOOLEAN, external: BOOLEAN]
Row      == [status: Statuses, channel: Kinds \cup {"stub"},
             to: Addresses \cup {NoAddress}, payload: Payload, meta: Meta,
             enforced: BOOLEAN]     \* observer: its policy was enforced when it was stored

NullPayload == [given |-> FALSE, requires |-> FALSE, allow |-> {}]
NewMeta     == [approved |-> FALSE, flagged |-> FALSE, preview |-> FALSE, external |-> FALSE]
NoRow       == [status |-> "NONE", channel |-> "stub", to |-> NoAddress,
                payload |-> NullPayload, meta |-> NewMeta, enforced |-> TRUE]

Exists(m) == row[m].status # "NONE"

\* A commit: of the stored row, only the columns the session changed are written.
WrittenWhole(stored, loaded, new) == new    \* mutant: every column is written
Written(stored, loaded, new) == IF new = loaded THEN stored ELSE new
Flush(stored, loaded, new) ==
    [stored EXCEPT !.status  = Written(stored.status,  loaded.status,  new.status),
                   !.payload = Written(stored.payload, loaded.payload, new.payload),
                   !.meta    = Written(stored.meta,    loaded.meta,    new.meta)]

\* The payload the loop body works with: a row without one gets a payload that
\* allows its own recipient.
Normalised(r) ==
    IF r.payload.given THEN r.payload
    ELSE [given |-> FALSE, requires |-> FALSE, allow |-> {r.to}]

\* enforce_allowlist
Merged(allow) == allow \cup tenantAllow
EnforcedWithoutUpgrade(p, to) ==            \* mutant: merges, never upgrades
    [p EXCEPT !.allow = Merged(p.allow)]
Enforced(p, to) ==
    [p EXCEPT !.allow = Merged(p.allow), !.requires = @ \/ to \notin Merged(p.allow)]

\* Of the enforced payload p, whether dispatch writes it back.
UpgradedOrNot(p, to) == TRUE                \* mutant: it is, whatever the verdict
Upgraded(p, to) == to \notin p.allow

-------------------------------------------------------------------------------
\* Workers

PCs == {"loop", "load", "enforce", "reload", "gate", "render", "prepare",
        "post", "telegram", "finish", "failing"}
Results == {"STUB_SENT", "SENT", "DRY_RUN_SENT", "FAILED"}
Job  == [pc: PCs, cur: Messages \cup {0}, sess: Row, need: BOOLEAN, res: Results]

Idle == [pc |-> "loop", cur |-> 0, sess |-> NoRow, need |-> FALSE, res |-> "FAILED"]
At(w, pc) == job[w].pc = pc
Goto(w, pc) == job' = [job EXCEPT ![w].pc = pc]
Leave(w) == job' = [job EXCEPT ![w] = Idle]
Raise(w) == job' = [job EXCEPT ![w] = [Idle EXCEPT !.pc = "failing", !.cur = job[w].cur]]
Settle(w, res) == job' = [job EXCEPT ![w].pc = "finish", ![w].res = res]
Commit(w, new) ==
    row' = [row EXCEPT ![job[w].cur] = Flush(@, job[w].sess, new)]
ReleaseNothing(w) == UNCHANGED held         \* mutant: locks outlive the commit
Release(w) == held' = [held EXCEPT ![w] = {}]

Init ==
    /\ row         = [m \in Messages |-> NoRow]
    /\ tenantAllow = {}
    /\ fresh       = FALSE
    /\ batch       = [w \in Workers |-> {}]
    /\ held        = [w \in Workers |-> {}]
    /\ job         = [w \in Workers |-> Idle]
    /\ approval    = [a \in Approvers |-> [msg |-> 0, meta |-> NewMeta]]
    /\ granted     = {}
    /\ sends       = [m \in Messages |-> [w \in Workers |-> 0]]
    /\ faults      = 0
-------------------------------------------------------------------------------
\* The rest of the system, as the dispatcher sees it

dispatcher == <<batch, held, job, sends, faults>>

NextNumber(m) == ~Exists(m) /\ \A n \in Messages : n < m => Exists(n)

\* create_outbox_message with a new idempotency key (a known one changes nothing).
CreateOutboxMessage(m, channel, to, own, requires) ==
    /\ NextNumber(m)
    /\ row' = [row EXCEPT ![m] =
                 [NoRow EXCEPT !.status  = "QUEUED", !.channel = channel, !.to = to,
                               !.payload = Enforced([given    |-> TRUE,
                                                     requires |-> requires,
                                                     allow    |-> own], to)]]
    /\ UNCHANGED <<dispatcher, tenantAllow, fresh, approval, granted>>

\* A row whose payload was stored before anything enforced its allowlist, or past
\* create_outbox_message.  One that requires approval or lists its recipient is like
\* those of CreateOutboxMessage.
StoreUnenforced(m, channel, to, own) ==
    /\ NextNumber(m)
    /\ to \notin own
    /\ row' = [row EXCEPT ![m] =
                 [NoRow EXCEPT !.status  = "QUEUED", !.channel = channel, !.to = to,
                               !.payload = [given |-> TRUE, requires |-> FALSE, allow |-> own],
                               !.enforced = FALSE]]
    /\ UNCHANGED <<dispatcher, tenantAllow, fresh, approval, granted>>

\* A tool call without an adapter of its own becomes a row without a payload.
QueueToOutbox(m, channel, to) ==
    /\ NextNumber(m)
    /\ row' = [row EXCEPT ![m] = [NoRow EXCEPT !.status = "QUEUED",
                                               !.channel = channel, !.to = to]]
    /\ UNCHANGED <<dispatcher, tenantAllow, fresh, approval, granted>>

PutAllowlist(allow) ==
    /\ allow # tenantAllow
    /\ tenantAllow' = allow
    /\ UNCHANGED <<dispatcher, row, fresh, approval, granted>>

\* The bootstrap documents are refreshed, or pass the age of 24 hours.
BootstrapVerdict ==
    /\ fresh' = ~fresh
    /\ UNCHANGED <<dispatcher, row, tenantAllow, approval, granted>>

\* A human confirms the outbox.send action that goes with a message.
Grant(m) ==
    /\ Exists(m) /\ row[m].payload.requires /\ m \notin granted
    /\ granted' = granted \cup {m}
    /\ UNCHANGED <<dispatcher, row, tenantAllow, fresh, approval>>

\* The executor runs that action: it loads the row, and commits the approved flag.
NoApproval == [msg |-> 0, meta |-> NewMeta]

ApproveLoad(a, m) ==
    /\ approval[a].msg = 0 /\ m \in granted
    /\ approval' = [approval EXCEPT ![a] = [msg |-> m, meta |-> row[m].meta]]
    /\ UNCHANGED <<dispatcher, row, tenantAllow, fresh, granted>>

ApproveCommit(a) ==
    LET m == approval[a].msg  loaded == approval[a].meta IN
    /\ m # 0
    /\ row' = [row EXCEPT ![m].meta =
                 Written(@, loaded, [loaded EXCEPT !.approved = TRUE])]
    /\ approval' = [approval EXCEPT ![a] = NoApproval]
    /\ UNCHANGED <<dispatcher, tenantAllow, fresh, granted>>

ApproverCrash(a) ==
    /\ approval[a].msg # 0 /\ faults < MaxFaults
    /\ approval' = [approval EXCEPT ![a] = NoApproval]
    /\ faults' = faults + 1
    /\ UNCHANGED <<batch, held, job, sends, row, tenantAllow, fresh, granted>>

-------------------------------------------------------------------------------
\* dispatch_outbox

others == <<tenantAllow, fresh, approval, granted>>

\* The first Limit rows of S.
Oldest(S) == {m \in S : Cardinality({n \in S : n < m}) < Limit}

Pickable(m) == row[m].status = "QUEUED" /\ \A w \in Workers : m \notin held[w]

\* The query, with its row locks.
Pick(w) ==
    LET found == Oldest({m \in Messages : Pickable(m)}) IN
    /\ At(w, "loop") /\ batch[w] = {} /\ found # {}
    /\ batch' = [batch EXCEPT ![w] = found]
    /\ held'  = [held EXCEPT ![w] = found]
    /\ UNCHANGED <<others, row, job, sends, faults>>

IsNext(w, m) == At(w, "loop") /\ m \in batch[w] /\ \A n \in batch[w] : m <= n

\* Bootstrap check and audit record.  Their commit gives up every lock of the
\* session, those of the rows still to come included.
Attempt(w) ==
    \E m \in batch[w] :
        /\ IsNext(w, m)
        /\ batch' = [batch EXCEPT ![w] = @ \ {m}]
        /\ Release(w)
        /\ job' = IF fresh THEN [job EXCEPT ![w].pc = "load", ![w].cur = m] ELSE job
        /\ UNCHANGED <<others, row, sends, faults>>

\* The row is read again; what it holds decides how to go on.
Load(w) ==
    LET r == row[job[w].cur]
        legacy == ~r.payload.given
    IN
    /\ At(w, "load")
    /\ \/ /\ legacy /\ r.channel = "github_issue"     \* fails validation
          /\ Raise(w)
       \/ /\ legacy /\ r.channel \notin Kinds         \* never leaves the system
          /\ job' = [job EXCEPT ![w].pc = "finish", ![w].sess = r, ![w].res = "STUB_SENT"]
       \/ /\ legacy => r.channel \in {"email", "telegram"}
          /\ job' = [job EXCEPT ![w].pc = "enforce", ![w].sess = r]
    /\ UNCHANGED <<others, row, batch, held, sends, faults>>

\* The allowlist is enforced again; only an upgrade is written back.
Enforce(w) ==
    LET s == job[w].sess
        p == Enforced(Normalised(s), s.to)
        upgraded == Upgraded(p, s.to)
    IN
    /\ At(w, "enforce")
    /\ job' = [job EXCEPT ![w].need = p.requires,
                          ![w].pc   = IF upgraded THEN "reload" ELSE "gate"]
    /\ IF upgraded
       THEN Commit(w, [s EXCEPT !.payload = [p EXCEPT !.given = TRUE],
                                !.meta.flagged = TRUE])
       ELSE UNCHANGED row
    /\ UNCHANGED <<others, batch, held, sends, faults>>

\* An exception while enforcing is swallowed and the loop body goes on.
EnforceSkipped(w) ==
    /\ At(w, "enforce") /\ faults < MaxFaults
    /\ job' = [job EXCEPT ![w].need = Normalised(job[w].sess).requires, ![w].pc = "gate"]
    /\ faults' = faults + 1
    /\ UNCHANGED <<others, row, batch, held, sends>>

Reload(w) ==
    /\ At(w, "reload")
    /\ job' = [job EXCEPT ![w].pc = "gate", ![w].sess = row[job[w].cur]]
    /\ UNCHANGED <<others, row, batch, held, sends, faults>>

\* The approval gate, on the worker's copy of the row; the claim does not look
\* again whether the row is still QUEUED.
ClearedUnlessFlagged(w) ==                  \* mutant: only upgraded messages wait
    job[w].sess.meta.flagged => job[w].sess.meta.approved
Cleared(w) == job[w].need => job[w].sess.meta.approved

GateBlocked(w) ==
    /\ At(w, "gate") /\ ~Cleared(w)
    /\ Leave(w)
    /\ UNCHANGED <<others, row, batch, held, sends, faults>>

GateClaim(w) ==
    /\ At(w, "gate") /\ Cleared(w)
    /\ Commit(w, [job[w].sess EXCEPT !.status = "SENDING"])
    /\ Goto(w, "render")
    /\ UNCHANGED <<others, batch, held, sends, faults>>

\* The row is read again for the preview; the payload kind chooses the sender.
Sender(r) ==
    IF r.channel = "github_issue" THEN "prepare"
    ELSE IF r.channel = "telegram" /\ TelegramLive THEN "telegram"
    ELSE "finish"

Render(w) ==
    LET r == row[job[w].cur] IN
    /\ At(w, "render")
    /\ job' = [job EXCEPT ![w].sess = r, ![w].pc = Sender(r), ![w].res = "STUB_SENT"]
    /\ UNCHANGED <<others, row, batch, held, sends, faults>>

\* GitHub: the preview goes in with the audit record of the attempt.  The second
\* bootstrap check made here decides nothing.
Prepare(w) ==
    /\ At(w, "prepare")
    /\ Commit(w, [job[w].sess EXCEPT !.meta.preview = TRUE])
    /\ Goto(w, "post")
    /\ UNCHANGED <<others, batch, held, sends, faults>>

\* The message leaves the system, or not, and the worker learns of it, or not: a
\* lost answer and a refusal look alike.
Transmit(w, got) ==
    sends' = IF got THEN [sends EXCEPT ![job[w].cur][w] = @ + 1] ELSE sends

\* GitHubIssueAdapter.send, on a row read after the last commit.
ReportedRaw(ok) == IF ok THEN "SENT" ELSE "ERROR"             \* mutant: unknown status
ReportedDry(ok) == IF ok THEN "SENT" ELSE "DRY_RUN_SENT"      \* mutant: error as dry run
Reported(ok) == IF ok THEN "SENT" ELSE "FAILED"

Post(w) ==
    LET r == row[job[w].cur]
        End(res) == job' = [job EXCEPT ![w].sess = r, ![w].pc = "finish", ![w].res = res]
    IN
    /\ At(w, "post")
    /\ \/ r.meta.external /\ End("SENT") /\ UNCHANGED sends
       \/ ~r.meta.external /\ ~GithubLive /\ End("DRY_RUN_SENT") /\ UNCHANGED sends
       \/ /\ ~r.meta.external /\ GithubLive
          /\ \E got, ok \in BOOLEAN : (ok => got) /\ Transmit(w, got) /\ End(Reported(ok))
    /\ UNCHANGED <<others, row, batch, held, faults>>

\* Telegram: the chat must be in the environment's list; a bad answer raises.
Telegram(w) ==
    /\ At(w, "telegram")
    /\ \/ job[w].sess.to \notin EnvChats /\ Raise(w) /\ UNCHANGED sends
       \/ /\ job[w].sess.to \in EnvChats
          /\ \E got, ok \in BOOLEAN :
               /\ ok => got
               /\ Transmit(w, got)
               /\ IF ok THEN Settle(w, "SENT") ELSE Raise(w)
    /\ UNCHANGED <<others, row, batch, held, faults>>

\* The outcome is committed.
OutcomeInPlace(j) == [j.sess EXCEPT !.status = j.res]   \* mutant: meta change untracked
Outcome(j) ==
    [j.sess EXCEPT
        !.status = j.res,
        !.meta = IF j.sess.channel = "github_issue"
                 THEN [j.sess.meta EXCEPT !.external = @ \/ j.res = "SENT"]
                 ELSE [j.sess.meta EXCEPT !.preview = TRUE]]

Finish(w) ==
    /\ At(w, "finish")
    /\ Commit(w, Outcome(job[w]))
    /\ Leave(w)
    /\ UNCHANGED <<others, batch, held, sends, faults>>

\* An exception anywhere in the loop body (database, object store): the session
\* rolls back, which gives up its locks.
Fault(w) ==
    /\ faults < MaxFaults
    /\ faults' = faults + 1
    /\ \/ /\ job[w].pc \notin {"loop", "failing"} /\ Raise(w)
          /\ UNCHANGED <<batch, held>>
       \/ \E m \in batch[w] :
            /\ IsNext(w, m)
            /\ batch' = [batch EXCEPT ![w] = @ \ {m}]
            /\ Release(w)
            /\ job' = [job EXCEPT ![w].pc = "failing", ![w].cur = m]
    /\ UNCHANGED <<others, row, sends>>

\* Its handler: a fresh read, and one column written; if that fails too, the
\* exception is dropped.
RecoveredForRetry(r) == [r EXCEPT !.status = "QUEUED"]  \* mutant: try again later
Recovered(r) == [r EXCEPT !.status = "FAILED"]

Rescue(w) ==
    /\ At(w, "failing")
    /\ row' = [row EXCEPT ![job[w].cur] = Recovered(@)]
    /\ Leave(w)
    /\ UNCHANGED <<others, batch, held, sends, faults>>

RescueFails(w) ==
    /\ At(w, "failing") /\ faults < MaxFaults
    /\ faults' = faults + 1
    /\ Leave(w)
    /\ UNCHANGED <<others, row, batch, held, sends>>

\* The process dies, and with it the session and its locks.
Crash(w) ==
    /\ faults < MaxFaults
    /\ job[w].pc # "loop" \/ batch[w] # {}
    /\ faults' = faults + 1
    /\ Leave(w)
    /\ batch' = [batch EXCEPT ![w] = {}]
    /\ Release(w)
    /\ UNCHANGED <<others, row, sends>>

-------------------------------------------------------------------------------

Environment ==
    \/ \E m \in Messages, to \in Addresses :
         \/ \E channel \in Channels \cap Kinds, own \in RequestAllowlists,
               requires \in BOOLEAN :
                 CreateOutboxMessage(m, channel, to, own, requires)
         \/ \E channel \in Channels \cap Kinds, own \in RequestAllowlists :
                 StoreUnenforced(m, channel, to, own)
         \/ \E channel \in Channels : QueueToOutbox(m, channel, to)
    \/ \E allow \in TenantAllowlists : PutAllowlist(allow)
    \/ BootstrapVerdict
    \/ \E m \in Messages : Grant(m)
    \/ \E a \in Approvers : \/ \E m \in Messages : ApproveLoad(a, m)
                            \/ ApproveCommit(a)
                            \/ ApproverCrash(a)

\* A dispatch task's own progress.
Work(w) ==
    \/ Attempt(w) \/ Load(w)     \/ Enforce(w) \/ Reload(w)   \/ GateBlocked(w)
    \/ GateClaim(w) \/ Render(w) \/ Prepare(w) \/ Post(w)     \/ Telegram(w)
    \/ Finish(w)  \/ Rescue(w)

Mishap(w) == EnforceSkipped(w) \/ Fault(w) \/ RescueFails(w) \/ Crash(w)

Next == Environment \/ \E w \in Workers : Pick(w) \/ Work(w) \/ Mishap(w)

Spec == Init /\ [][Next]_vars

\* A started task runs on, and the task is started again and again.
Fairness == \A w \in Workers : WF_vars(Pick(w) \/ Work(w))
FairSpec == Spec /\ Fairness

-------------------------------------------------------------------------------
\* Properties

\* Types, and the bounds of the observers.
TypeOK ==
    /\ row \in [Messages -> Row]
    /\ tenantAllow \in SUBSET Addresses
    /\ fresh \in BOOLEAN
    /\ batch \in [Workers -> SUBSET Messages]
    /\ held \in [Workers -> SUBSET Messages]
    /\ job \in [Workers -> Job]
    /\ \A w \in Workers : job[w].pc # "loop" => job[w].cur \in Messages
    /\ approval \in [Approvers -> [msg: Messages \cup {0}, meta: Meta]]
    /\ granted \in SUBSET Messages
    /\ sends \in [Messages -> [Workers -> Nat]]
    /\ faults \in 0..MaxFaults

\* No dispatch task sends the same message twice, whatever exceptions, crashes
\* and other tasks come between: only QUEUED rows are fetched (line 136) and
\* every way out of a sending attempt leaves the row in another status.
NoWorkerRepeats == \A m \in Messages, w \in Workers : sends[m][w] <= 1

\* A message stored with requires_approval and not approved by a human stays
\* QUEUED or fails: whatever the payload, the copies of it and the flags in meta
\* go through, no worker claims it (lines 266-283).  Of a row stored without
\* enforcement one worker may find that it requires approval after another has
\* found that it does not.
UnapprovedStaysQueued ==
    \A m \in Messages :
        row[m].enforced /\ row[m].payload.requires /\ m \notin granted
            => row[m].status \in {"QUEUED", "FAILED"}

\* A message to an address its stored allowlist does not cover is never claimed
\* without a human's approval, if the list was enforced when it was stored
\* (enforce_allowlist at creation, lines 249-279).
ClaimedIsCleared ==
    \A m \in Messages :
        row[m].enforced /\ row[m].payload.given /\ row[m].status \notin {"NONE", "QUEUED", "FAILED"}
            => row[m].to \in row[m].payload.allow \/ m \in granted

\* The recorded outcome is true: SENT and the adapter's external reference are
\* only written of messages that left the system, STUB_SENT and DRY_RUN_SENT only
\* of messages that stayed in, whichever worker wrote them (lines 333-430,
\* github_issue.py 24-38).
OutcomeIsTrue ==
    \A m \in Messages :
        LET left == \E w \in Workers : sends[m][w] > 0 IN
        /\ row[m].status = "SENT" \/ row[m].meta.external => left
        /\ row[m].status \in {"STUB_SENT", "DRY_RUN_SENT"} => ~left

\* A dispatched message has its preview recorded in meta, also when approvals
\* write the same column (docs/outbox_preview_pack_spec_v1.md 3, lines 306-311).
PreviewRecorded ==
    \A m \in Messages :
        row[m].status \in {"SENT", "STUB_SENT", "DRY_RUN_SENT"} => row[m].meta.preview

\* Enforcement at dispatch may find that a message requires approval, but no step
\* takes the requirement back: neither a wider allowlist, nor a worker that writes
\* the payload column whole from a copy it read before another raised it (lines
\* 249-262).
RequirementIsKept ==
    [][\A m \in Messages :
          Exists(m) /\ row[m].payload.requires => row'[m].payload.requires]_vars

\* A row that left QUEUED never returns to it.
NeverRequeued ==
    [][\A m \in Messages :
          Exists(m) /\ row[m].status # "QUEUED" => row'[m].status # "QUEUED"]_vars

\* While the bootstrap stays fresh, a message that needs no approval does not
\* stay QUEUED unless it is found to need one, provided a batch holds every message.
Drains ==
    <>[]fresh => \A m \in Messages :
        (row[m].status = "QUEUED" /\ ~row[m].payload.requires)
            ~> (row[m].status # "QUEUED" \/ row[m].payload.requires)
===============================================================================
