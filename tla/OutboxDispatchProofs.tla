------------------------- MODULE OutboxDispatchProofs -------------------------
(***************************************************************************)
(* Typing and safety of OutboxDispatch, for any number of messages,        *)
(* workers and approvers and any settings.                                 *)
(*                                                                         *)
(* The safety properties are not inductive: they hold because a worker's   *)
(* copy of a row, stale as it may be, agrees with the row on what decides  *)
(* about approval.  That agreement is the heart of the invariant (CopyOf). *)
(***************************************************************************)
EXTENDS OutboxDispatch, TLAPS

-------------------------------------------------------------------------------
\* Typing of the helpers

\* A commit of typed rows leaves a typed row (Session.commit, lines 262-449).
LEMMA FlushType ==
    ASSUME NEW stored \in Row, NEW loaded \in Row, NEW new \in Row
    PROVE  Flush(stored, loaded, new) \in Row
BY DEF Flush, Written, Row

\* Enforcement of the allowlist keeps a payload typed.
LEMMA EnforcedType ==
    ASSUME NEW p \in Payload, NEW to, tenantAllow \in SUBSET Addresses
    PROVE  Enforced(p, to) \in Payload
BY DEF Enforced, Merged, Payload

\* The payload the loop body works with is typed once the row has a recipient.
LEMMA NormalisedType ==
    ASSUME NEW r \in Row, r.payload.given \/ r.to \in Addresses
    PROVE  Normalised(r) \in Payload
BY DEF Normalised, Row, Payload

LEMMA ConstantRows == NoRow \in Row /\ NewMeta \in Meta /\ NullPayload \in Payload /\ Idle \in Job
BY DEF NoRow, NewMeta, NullPayload, Idle, Row, Meta, Payload, Job, Statuses, Kinds, PCs, Results

LEMMA TypeInit == Init => TypeOK
<1> SUFFICES ASSUME Init PROVE TypeOK
  OBVIOUS
<1>1. row \in [Messages -> Row] /\ tenantAllow \in SUBSET Addresses
  BY ConstantRows DEF Init
<1>2. fresh \in BOOLEAN /\ granted \in SUBSET Messages
  BY DEF Init
<1>7. faults \in 0..MaxFaults
  BY SettingsAssumption DEF Init
<1>3. batch \in [Workers -> SUBSET Messages] /\ held \in [Workers -> SUBSET Messages]
  BY DEF Init
<1>4. job \in [Workers -> Job]
  BY ConstantRows DEF Init
<1>8. \A w \in Workers : job[w].pc = "loop"
  BY DEF Init, Idle
<1>5. approval \in [Approvers -> [msg: Messages \cup {0}, meta: Meta]]
  BY ConstantRows DEF Init
<1>6. sends \in [Messages -> [Workers -> Nat]]
  BY DEF Init
<1> QED BY <1>1, <1>2, <1>3, <1>4, <1>5, <1>6, <1>7, <1>8 DEF TypeOK

LEMMA TypeCreate ==
    ASSUME TypeOK, NEW m \in Messages, NEW to \in Addresses, NEW channel \in Channels \cap Kinds,
           NEW own \in RequestAllowlists, NEW requires \in BOOLEAN,
           CreateOutboxMessage(m, channel, to, own, requires)
    PROVE  TypeOK'
<1> DEFINE asked == [given |-> TRUE, requires |-> requires, allow |-> own]
           made == [NoRow EXCEPT !.status  = "QUEUED", !.channel = channel, !.to = to,
                                 !.payload = Enforced(asked, to)]
<1>1. asked \in Payload
  BY AllowlistsAssumption DEF Payload
<1>2. made \in Row
  <2>1. Enforced(asked, to) \in Payload
    BY <1>1, EnforcedType DEF TypeOK
  <2> QED BY <2>1, ConstantRows DEF Row, Statuses, NoRow
<1>3. row' = [row EXCEPT ![m] = made]
  BY DEF CreateOutboxMessage
<1> QED BY <1>2, <1>3 DEF TypeOK, CreateOutboxMessage, dispatcher

LEMMA TypeStore ==
    ASSUME TypeOK, NEW m \in Messages, NEW to \in Addresses, NEW channel \in Channels \cap Kinds,
           NEW own \in RequestAllowlists, StoreUnenforced(m, channel, to, own)
    PROVE  TypeOK'
<1> DEFINE asked == [given |-> TRUE, requires |-> FALSE, allow |-> own]
           made == [NoRow EXCEPT !.status  = "QUEUED", !.channel = channel, !.to = to,
                                 !.payload = asked, !.enforced = FALSE]
<1>1. asked \in Payload
  BY AllowlistsAssumption DEF Payload
<1>2. made \in Row
  BY <1>1, ConstantRows DEF Row, Statuses, NoRow
<1>3. row' = [row EXCEPT ![m] = made]
  BY DEF StoreUnenforced
<1> QED BY <1>2, <1>3 DEF TypeOK, StoreUnenforced, dispatcher

LEMMA TypeQueue ==
    ASSUME TypeOK, NEW m \in Messages, NEW to \in Addresses, NEW channel \in Channels,
           QueueToOutbox(m, channel, to)
    PROVE  TypeOK'
<1> DEFINE made == [NoRow EXCEPT !.status = "QUEUED", !.channel = channel, !.to = to]
<1>1. made \in Row
  BY ConstantRows, ChannelsAssumption DEF Row, Statuses, NoRow
<1>2. row' = [row EXCEPT ![m] = made]
  BY DEF QueueToOutbox
<1> QED BY <1>1, <1>2 DEF TypeOK, QueueToOutbox, dispatcher

LEMMA TypePut ==
    ASSUME TypeOK, NEW allow \in TenantAllowlists, PutAllowlist(allow)
    PROVE  TypeOK'
BY AllowlistsAssumption DEF TypeOK, PutAllowlist, dispatcher

LEMMA TypeVerdict == ASSUME TypeOK, BootstrapVerdict PROVE TypeOK'
BY DEF TypeOK, BootstrapVerdict, dispatcher

LEMMA TypeGrant == ASSUME TypeOK, NEW m \in Messages, Grant(m) PROVE TypeOK'
BY DEF TypeOK, Grant, dispatcher

LEMMA TypeApproveLoad ==
    ASSUME TypeOK, NEW a \in Approvers, NEW m \in Messages, ApproveLoad(a, m) PROVE TypeOK'
BY DEF TypeOK, ApproveLoad, dispatcher, Row

LEMMA TypeApproveCommit ==
    ASSUME TypeOK, NEW a \in Approvers, ApproveCommit(a) PROVE TypeOK'
<1> DEFINE m == approval[a].msg
<1>1. m \in Messages
  BY DEF ApproveCommit, TypeOK
<1> DEFINE new == Written(row[m].meta, approval[a].meta,
                          [approval[a].meta EXCEPT !.approved = TRUE])
<1>2. new \in Meta
  <2>1. approval[a].meta \in Meta /\ row[m].meta \in Meta
    BY <1>1 DEF TypeOK, Row
  <2> QED BY <2>1 DEF Written, Meta
<1>3. row' \in [Messages -> Row]
  <2>1. row' = [row EXCEPT ![m] = [row[m] EXCEPT !.meta = new]]
    BY DEF ApproveCommit
  <2> HIDE DEF m, new
  <2>2. row[m] \in Row
    BY <1>1 DEF TypeOK
  <2>3. [row[m] EXCEPT !.meta = new] \in Row
    BY <1>2, <2>2 DEF Row
  <2> QED BY <1>1, <2>1, <2>3 DEF TypeOK
<1> QED BY <1>3, ConstantRows DEF TypeOK, ApproveCommit, dispatcher, NoApproval

LEMMA TypeApproverCrash ==
    ASSUME TypeOK, NEW a \in Approvers, ApproverCrash(a) PROVE TypeOK'
BY ConstantRows, SettingsAssumption DEF TypeOK, ApproverCrash, NoApproval

\* A step that replaces worker w's record by another typed one keeps job typed.
LEMMA JobType ==
    ASSUME TypeOK, NEW w \in Workers, NEW j \in Job, j.pc # "loop" => j.cur \in Messages,
           job' = [job EXCEPT ![w] = j]
    PROVE  /\ job' \in [Workers -> Job]
           /\ \A v \in Workers : job'[v].pc # "loop" => job'[v].cur \in Messages
BY DEF TypeOK

LEMMA LeaveType ==
    ASSUME TypeOK, NEW w \in Workers, Leave(w)
    PROVE  /\ job' \in [Workers -> Job]
           /\ \A v \in Workers : job'[v].pc # "loop" => job'[v].cur \in Messages
BY JobType, ConstantRows DEF Leave, Idle

LEMMA RaiseType ==
    ASSUME TypeOK, NEW w \in Workers, job[w].pc # "loop", Raise(w)
    PROVE  /\ job' \in [Workers -> Job]
           /\ \A v \in Workers : job'[v].pc # "loop" => job'[v].cur \in Messages
<1> DEFINE j == [Idle EXCEPT !.pc = "failing", !.cur = job[w].cur]
<1>1. job[w].cur \in Messages
  BY DEF TypeOK
<1>2. j \in Job /\ j.cur \in Messages
  BY <1>1, ConstantRows DEF Job, PCs, Idle
<1>3. job' = [job EXCEPT ![w] = j]
  BY DEF Raise
<1> QED BY <1>2, <1>3, JobType

\* A commit of a typed row keeps the table typed.
LEMMA CommitType ==
    ASSUME TypeOK, NEW w \in Workers, job[w].pc # "loop", NEW new \in Row, Commit(w, new)
    PROVE  row' \in [Messages -> Row]
<1> DEFINE m == job[w].cur
           r == Flush(row[m], job[w].sess, new)
<1>1. m \in Messages /\ job[w].sess \in Row
  BY DEF TypeOK, Job
<1>2. r \in Row
  <2>1. row[m] \in Row
    BY <1>1 DEF TypeOK
  <2> QED BY <1>1, <2>1, FlushType
<1>3. row' = [row EXCEPT ![m] = r]
  BY DEF Commit
<1> HIDE DEF m, r
<1> QED BY <1>1, <1>2, <1>3 DEF TypeOK

LEMMA TypePick == ASSUME TypeOK, NEW w \in Workers, Pick(w) PROVE TypeOK'
<1>1. Oldest({m \in Messages : Pickable(m)}) \in SUBSET Messages
  BY DEF Oldest
<1> QED BY <1>1 DEF TypeOK, Pick, others

LEMMA TypeAttempt == ASSUME TypeOK, NEW w \in Workers, Attempt(w) PROVE TypeOK'
<1> PICK m \in batch[w] :
        /\ IsNext(w, m)
        /\ batch' = [batch EXCEPT ![w] = @ \ {m}]
        /\ Release(w)
        /\ job' = IF fresh THEN [job EXCEPT ![w].pc = "load", ![w].cur = m] ELSE job
        /\ UNCHANGED <<others, row, sends, faults>>
  BY DEF Attempt
<1>1. m \in Messages /\ batch[w] \ {m} \in SUBSET Messages /\ job[w] \in Job
  BY DEF TypeOK
<1>2. batch' \in [Workers -> SUBSET Messages] /\ held' \in [Workers -> SUBSET Messages]
  BY <1>1 DEF TypeOK, Release
<1>3. /\ job' \in [Workers -> Job]
      /\ \A v \in Workers : job'[v].pc # "loop" => job'[v].cur \in Messages
  <2>1. CASE fresh
    <3> DEFINE j == [job[w] EXCEPT !.pc = "load", !.cur = m]
    <3>1. job' = [job EXCEPT ![w] = j]
      BY <2>1
    <3>2. j \in Job /\ j.cur \in Messages
      BY <1>1 DEF Job, PCs
    <3> QED BY <3>1, <3>2, JobType
  <2>2. CASE ~fresh
    BY <2>2 DEF TypeOK
  <2> QED BY <2>1, <2>2
<1> QED BY <1>2, <1>3 DEF TypeOK, others

LEMMA TypeLoad == ASSUME TypeOK, NEW w \in Workers, Load(w) PROVE TypeOK'
<1> DEFINE r == row[job[w].cur]
<1>1. job[w].cur \in Messages /\ r \in Row /\ job[w] \in Job
  BY DEF TypeOK, Load, At
<1>2. /\ job' \in [Workers -> Job]
      /\ \A v \in Workers : job'[v].pc # "loop" => job'[v].cur \in Messages
  <2>1. CASE Raise(w)
    BY <2>1, RaiseType DEF Load, At
  <2>2. CASE job' = [job EXCEPT ![w].pc = "finish", ![w].sess = r, ![w].res = "STUB_SENT"]
    BY <1>1, <2>2 DEF TypeOK, Job, PCs, Results
  <2>3. CASE job' = [job EXCEPT ![w].pc = "enforce", ![w].sess = r]
    BY <1>1, <2>3 DEF TypeOK, Job, PCs
  <2> QED BY <2>1, <2>2, <2>3 DEF Load
<1> QED BY <1>2 DEF TypeOK, Load, others

LEMMA TypeEnforce == ASSUME TypeOK, NEW w \in Workers, Enforce(w) PROVE TypeOK'
<1> DEFINE s == job[w].sess
           p == Enforced(Normalised(s), s.to)
           upgraded == s.to \notin p.allow
           new == [s EXCEPT !.payload = [p EXCEPT !.given = TRUE], !.meta.flagged = TRUE]
<1>1. s \in Row /\ job[w] \in Job /\ job[w].pc # "loop"
  BY DEF TypeOK, Job, Enforce, At
<1>2. p.requires \in BOOLEAN
  BY <1>1 DEF Enforced, Normalised, Row, Payload
<1>3. upgraded => p \in Payload
  <2>1. CASE s.payload.given
    <3>1. Normalised(s) \in Payload
      BY <1>1, <2>1, NormalisedType
    <3> QED BY <3>1, EnforcedType DEF TypeOK
  <2>2. CASE ~s.payload.given
    BY <2>2 DEF Enforced, Normalised, Merged
  <2> QED BY <2>1, <2>2
<1>4. row' \in [Messages -> Row]
  <2>1. CASE upgraded
    <3>1. new \in Row
      BY <1>1, <1>3, <2>1 DEF Row, Payload, Meta
    <3>2. Commit(w, new)
      BY <2>1 DEF Enforce, Upgraded
    <3> QED BY <1>1, <3>1, <3>2, CommitType
  <2>2. CASE ~upgraded
    BY <2>2 DEF Enforce, TypeOK, Upgraded
  <2> QED BY <2>1, <2>2
<1>5. /\ job' \in [Workers -> Job]
      /\ \A v \in Workers : job'[v].pc # "loop" => job'[v].cur \in Messages
  <2>1. PICK pc \in {"reload", "gate"} : job' = [job EXCEPT ![w].need = p.requires, ![w].pc = pc]
    BY DEF Enforce
  <2> HIDE DEF p
  <2> QED BY <1>1, <1>2, <2>1 DEF TypeOK, Job, PCs
<1> QED BY <1>4, <1>5 DEF TypeOK, Enforce, others

LEMMA TypeEnforceSkipped == ASSUME TypeOK, NEW w \in Workers, EnforceSkipped(w) PROVE TypeOK'
<1>1. Normalised(job[w].sess).requires \in BOOLEAN
  BY DEF TypeOK, Job, Row, Payload, Normalised
<1> DEFINE need == Normalised(job[w].sess).requires
<1>2. job' = [job EXCEPT ![w].need = need, ![w].pc = "gate"] /\ job[w].pc # "loop"
  BY DEF EnforceSkipped, At
<1>3. /\ job' \in [Workers -> Job]
      /\ \A v \in Workers : job'[v].pc # "loop" => job'[v].cur \in Messages
  <2> HIDE DEF need
  <2> DEFINE j == [job[w] EXCEPT !.need = need, !.pc = "gate"]
  <2>1. job' = [job EXCEPT ![w] = j]
    BY <1>2
  <2>2. job[w] \in Job /\ job[w].cur \in Messages /\ need \in BOOLEAN
    BY <1>1, <1>2 DEF TypeOK, need
  <2>3. j \in Job /\ j.cur \in Messages
    BY <2>2 DEF Job, PCs
  <2> QED BY <2>1, <2>3, JobType
<1>4. faults' \in 0..MaxFaults
  BY SettingsAssumption DEF TypeOK, EnforceSkipped
<1> QED BY <1>3, <1>4 DEF TypeOK, EnforceSkipped, others

LEMMA TypeReload == ASSUME TypeOK, NEW w \in Workers, Reload(w) PROVE TypeOK'
<1> DEFINE r == row[job[w].cur]
<1>1. job[w].cur \in Messages /\ r \in Row /\ job[w] \in Job
  BY DEF TypeOK, Reload, At
<1>2. /\ job' \in [Workers -> Job]
      /\ \A v \in Workers : job'[v].pc # "loop" => job'[v].cur \in Messages
  <2> DEFINE j == [job[w] EXCEPT !.pc = "gate", !.sess = r]
  <2>1. job' = [job EXCEPT ![w] = j]
    BY DEF Reload
  <2>2. j \in Job /\ j.cur \in Messages
    BY <1>1 DEF Job, PCs
  <2> QED BY <2>1, <2>2, JobType
<1> QED BY <1>2 DEF TypeOK, Reload, others

LEMMA TypeGateBlocked == ASSUME TypeOK, NEW w \in Workers, GateBlocked(w) PROVE TypeOK'
BY LeaveType DEF TypeOK, GateBlocked, others

\* Moving on to another step of the loop body.
LEMMA GotoType ==
    ASSUME TypeOK, NEW w \in Workers, job[w].pc # "loop", NEW pc \in PCs, Goto(w, pc)
    PROVE  /\ job' \in [Workers -> Job]
           /\ \A v \in Workers : job'[v].pc # "loop" => job'[v].cur \in Messages
<1> DEFINE j == [job[w] EXCEPT !.pc = pc]
<1>1. job' = [job EXCEPT ![w] = j]
  BY DEF Goto
<1>2. j \in Job /\ j.cur \in Messages
  BY DEF TypeOK, Job
<1> QED BY <1>1, <1>2, JobType

LEMMA TypeGateClaim == ASSUME TypeOK, NEW w \in Workers, GateClaim(w) PROVE TypeOK'
<1>1. job[w].pc # "loop" /\ job[w].sess \in Row
  BY DEF TypeOK, Job, GateClaim, At
<1>2. [job[w].sess EXCEPT !.status = "SENDING"] \in Row
  BY <1>1 DEF Row, Statuses
<1>3. row' \in [Messages -> Row]
  BY <1>1, <1>2, CommitType DEF GateClaim
<1>4. "render" \in PCs
  BY DEF PCs
<1>5. /\ job' \in [Workers -> Job]
      /\ \A v \in Workers : job'[v].pc # "loop" => job'[v].cur \in Messages
  BY <1>1, <1>4, GotoType DEF GateClaim
<1> QED BY <1>3, <1>5 DEF TypeOK, GateClaim, others

LEMMA TypeRender == ASSUME TypeOK, NEW w \in Workers, Render(w) PROVE TypeOK'
<1> DEFINE r == row[job[w].cur]
<1>1. job[w].cur \in Messages /\ r \in Row /\ job[w] \in Job
  BY DEF TypeOK, Render, At
<1>2. Sender(r) \in PCs
  BY DEF Sender, PCs
<1>3. /\ job' \in [Workers -> Job]
      /\ \A v \in Workers : job'[v].pc # "loop" => job'[v].cur \in Messages
  <2> DEFINE j == [job[w] EXCEPT !.sess = r, !.pc = Sender(r), !.res = "STUB_SENT"]
  <2>1. job' = [job EXCEPT ![w] = j]
    BY DEF Render
  <2>2. j \in Job /\ j.cur \in Messages
    BY <1>1, <1>2 DEF Job, Results
  <2> QED BY <2>1, <2>2, JobType
<1> QED BY <1>3 DEF TypeOK, Render, others

LEMMA TypePrepare == ASSUME TypeOK, NEW w \in Workers, Prepare(w) PROVE TypeOK'
<1>1. job[w].pc # "loop" /\ job[w].sess \in Row
  BY DEF TypeOK, Job, Prepare, At
<1>2. [job[w].sess EXCEPT !.meta.preview = TRUE] \in Row
  BY <1>1 DEF Row, Meta
<1>3. row' \in [Messages -> Row]
  BY <1>1, <1>2, CommitType DEF Prepare
<1>4. "post" \in PCs
  BY DEF PCs
<1>5. /\ job' \in [Workers -> Job]
      /\ \A v \in Workers : job'[v].pc # "loop" => job'[v].cur \in Messages
  BY <1>1, <1>4, GotoType DEF Prepare
<1> QED BY <1>3, <1>5 DEF TypeOK, Prepare, others

\* A transmission counts once, or not at all.
LEMMA TransmitType ==
    ASSUME TypeOK, NEW w \in Workers, job[w].pc # "loop", NEW got \in BOOLEAN, Transmit(w, got)
    PROVE  sends' \in [Messages -> [Workers -> Nat]]
<1>1. job[w].cur \in Messages
  BY DEF TypeOK
<1> QED BY <1>1 DEF TypeOK, Transmit

LEMMA TypePost == ASSUME TypeOK, NEW w \in Workers, Post(w) PROVE TypeOK'
<1> DEFINE r == row[job[w].cur]
<1>1. job[w].cur \in Messages /\ r \in Row /\ job[w] \in Job /\ job[w].pc # "loop"
  BY DEF TypeOK, Post, At
<1>2. PICK res \in Results :
        job' = [job EXCEPT ![w].sess = r, ![w].pc = "finish", ![w].res = res]
  BY DEF Post, Results, Reported
<1>3. /\ job' \in [Workers -> Job]
      /\ \A v \in Workers : job'[v].pc # "loop" => job'[v].cur \in Messages
  <2> DEFINE j == [job[w] EXCEPT !.sess = r, !.pc = "finish", !.res = res]
  <2>1. job' = [job EXCEPT ![w] = j]
    BY <1>2
  <2>2. j \in Job /\ j.cur \in Messages
    BY <1>1 DEF Job, PCs
  <2> QED BY <2>1, <2>2, JobType
<1>4. sends' \in [Messages -> [Workers -> Nat]]
  <2>1. CASE UNCHANGED sends
    BY <2>1 DEF TypeOK
  <2>2. CASE \E got \in BOOLEAN : Transmit(w, got)
    BY <1>1, <2>2, TransmitType
  <2> QED BY <2>1, <2>2 DEF Post
<1> QED BY <1>3, <1>4 DEF TypeOK, Post, others

LEMMA TypeTelegram == ASSUME TypeOK, NEW w \in Workers, Telegram(w) PROVE TypeOK'
<1>1. job[w].cur \in Messages /\ job[w] \in Job /\ job[w].pc # "loop"
  BY DEF TypeOK, Telegram, At
<1>2. /\ job' \in [Workers -> Job]
      /\ \A v \in Workers : job'[v].pc # "loop" => job'[v].cur \in Messages
  <2>1. CASE Raise(w)
    BY <1>1, <2>1, RaiseType
  <2>2. CASE Settle(w, "SENT")
    <3> DEFINE j == [job[w] EXCEPT !.pc = "finish", !.res = "SENT"]
    <3>1. job' = [job EXCEPT ![w] = j]
      BY <2>2 DEF Settle
    <3>2. j \in Job /\ j.cur \in Messages
      BY <1>1 DEF Job, PCs, Results
    <3> QED BY <3>1, <3>2, JobType
  <2> QED BY <2>1, <2>2 DEF Telegram
<1>3. sends' \in [Messages -> [Workers -> Nat]]
  <2>1. CASE UNCHANGED sends
    BY <2>1 DEF TypeOK
  <2>2. CASE \E got \in BOOLEAN : Transmit(w, got)
    BY <1>1, <2>2, TransmitType
  <2> QED BY <2>1, <2>2 DEF Telegram
<1> QED BY <1>2, <1>3 DEF TypeOK, Telegram, others

\* The outcome of a job is a row with the recipient, the payload and the approval of
\* the copy.
LEMMA OutcomeType ==
    ASSUME NEW j \in Job
    PROVE  /\ Outcome(j) \in Row
           /\ Outcome(j).status = j.res /\ j.res \in Results
           /\ Outcome(j).to = j.sess.to /\ Outcome(j).payload = j.sess.payload
           /\ Outcome(j).enforced = j.sess.enforced
           /\ Outcome(j).channel = j.sess.channel
           /\ Outcome(j).meta.approved = j.sess.meta.approved
<1> DEFINE s == j.sess
           marked == [s.meta EXCEPT !.external = @ \/ j.res = "SENT"]
           shown == [s.meta EXCEPT !.preview = TRUE]
           meta == IF s.channel = "github_issue" THEN marked ELSE shown
<1>1. s \in Row /\ j.res \in Results
  BY DEF Job
<1>2. s.meta \in Meta /\ j.res \in Statuses
  BY <1>1 DEF Row, Results, Statuses
<1>3. /\ marked \in Meta /\ marked.approved = s.meta.approved
      /\ shown \in Meta /\ shown.approved = s.meta.approved
  BY <1>2 DEF Meta
<1>4. meta \in Meta /\ meta.approved = s.meta.approved
  BY <1>3
<1>5. Outcome(j) = [s EXCEPT !.status = j.res, !.meta = meta]
  BY DEF Outcome
<1> HIDE DEF s, meta
<1>6. [s EXCEPT !.status = j.res, !.meta = meta] \in Row
  BY <1>1, <1>2, <1>4 DEF Row
<1>7. LET new == [s EXCEPT !.status = j.res, !.meta = meta] IN
      /\ new.status = j.res /\ new.meta = meta /\ new.to = s.to
      /\ new.payload = s.payload /\ new.enforced = s.enforced /\ new.channel = s.channel
  BY <1>1 DEF Row
<1> QED BY <1>1, <1>4, <1>5, <1>6, <1>7 DEF s

LEMMA TypeFinish == ASSUME TypeOK, NEW w \in Workers, Finish(w) PROVE TypeOK'
<1>1. job[w].pc # "loop" /\ job[w] \in Job
  BY DEF TypeOK, Finish, At
<1>2. Outcome(job[w]) \in Row
  BY <1>1, OutcomeType
<1>3. row' \in [Messages -> Row]
  BY <1>1, <1>2, CommitType DEF Finish
<1> QED BY <1>3, LeaveType DEF TypeOK, Finish, others

LEMMA TypeFault == ASSUME TypeOK, NEW w \in Workers, Fault(w) PROVE TypeOK'
<1>1. faults' \in 0..MaxFaults
  BY SettingsAssumption DEF TypeOK, Fault
<1>2. CASE job[w].pc \notin {"loop", "failing"} /\ Raise(w) /\ UNCHANGED <<batch, held>>
  BY <1>1, <1>2, RaiseType DEF TypeOK, Fault, others
<1>3. ASSUME NEW m \in batch[w], IsNext(w, m), batch' = [batch EXCEPT ![w] = @ \ {m}],
             Release(w), job' = [job EXCEPT ![w].pc = "failing", ![w].cur = m]
      PROVE  TypeOK'
  <2>1. m \in Messages /\ batch[w] \ {m} \in SUBSET Messages
    BY DEF TypeOK
  <2>2. batch' \in [Workers -> SUBSET Messages] /\ held' \in [Workers -> SUBSET Messages]
    BY <1>3, <2>1 DEF TypeOK, Release
  <2>3. /\ job' \in [Workers -> Job]
        /\ \A v \in Workers : job'[v].pc # "loop" => job'[v].cur \in Messages
    <3> DEFINE j == [job[w] EXCEPT !.pc = "failing", !.cur = m]
    <3>1. job' = [job EXCEPT ![w] = j]
      BY <1>3
    <3>2. job[w] \in Job
      BY DEF TypeOK
    <3>3. j \in Job /\ j.cur \in Messages
      BY <2>1, <3>2 DEF Job, PCs
    <3> QED BY <3>1, <3>3, JobType
  <2> QED BY <1>1, <2>2, <2>3 DEF TypeOK, Fault, others
<1> QED BY <1>2, <1>3 DEF Fault

LEMMA TypeRescue == ASSUME TypeOK, NEW w \in Workers, Rescue(w) PROVE TypeOK'
<1> DEFINE m == job[w].cur
<1>1. m \in Messages
  BY DEF TypeOK, Rescue, At
<1>2. row' \in [Messages -> Row]
  <2> HIDE DEF m
  <2>1. row[m] \in Row
    BY <1>1 DEF TypeOK
  <2>2. Recovered(row[m]) \in Row
    BY <2>1 DEF Recovered, Row, Statuses
  <2>3. row' = [row EXCEPT ![m] = Recovered(row[m])]
    BY DEF Rescue, m
  <2> QED BY <1>1, <2>2, <2>3 DEF TypeOK
<1> QED BY <1>2, LeaveType DEF TypeOK, Rescue, others

LEMMA TypeRescueFails == ASSUME TypeOK, NEW w \in Workers, RescueFails(w) PROVE TypeOK'
<1>1. faults' \in 0..MaxFaults
  BY SettingsAssumption DEF TypeOK, RescueFails
<1> QED BY <1>1, LeaveType DEF TypeOK, RescueFails, others

LEMMA TypeCrash == ASSUME TypeOK, NEW w \in Workers, Crash(w) PROVE TypeOK'
<1>1. faults' \in 0..MaxFaults
  BY SettingsAssumption DEF TypeOK, Crash
<1>2. batch' \in [Workers -> SUBSET Messages] /\ held' \in [Workers -> SUBSET Messages]
  BY DEF TypeOK, Crash, Release
<1> QED BY <1>1, <1>2, LeaveType DEF TypeOK, Crash, others

\* The state always has its types: the typing of the module is inductive.
THEOREM TypeCorrect == Spec => []TypeOK
<1>1. TypeOK /\ [Next]_vars => TypeOK'
  <2> SUFFICES ASSUME TypeOK, [Next]_vars PROVE TypeOK'
    OBVIOUS
  <2>1. CASE Environment
    BY <2>1, TypeCreate, TypeStore, TypeQueue, TypePut, TypeVerdict, TypeGrant, TypeApproveLoad,
       TypeApproveCommit, TypeApproverCrash DEF Environment
  <2>2. ASSUME NEW w \in Workers, Pick(w) \/ Work(w) \/ Mishap(w) PROVE TypeOK'
    BY <2>2, TypePick, TypeAttempt, TypeLoad, TypeEnforce, TypeReload, TypeGateBlocked,
       TypeGateClaim, TypeRender, TypePrepare, TypePost, TypeTelegram, TypeFinish, TypeRescue,
       TypeEnforceSkipped, TypeFault, TypeRescueFails, TypeCrash DEF Work, Mishap
  <2>3. CASE UNCHANGED vars
    BY <2>3 DEF vars, TypeOK
  <2> QED BY <2>1, <2>2, <2>3 DEF Next
<1> QED BY TypeInit, <1>1, PTL DEF Spec
-------------------------------------------------------------------------------
\* The inductive invariant

Loaded  == {"enforce", "reload", "gate", "render", "prepare", "post", "telegram", "finish"}
Sending == {"render", "prepare", "post", "telegram"}

\* A row without a payload requires nothing; one with an enforced payload that
\* requires nothing covers its recipient, one with an un-enforced payload never does.
SoundRow(r) ==
    /\ r.status = "NONE" => r = NoRow
    /\ ~r.payload.given => ~r.payload.requires
    /\ r.enforced /\ r.payload.given /\ ~r.payload.requires => r.to \in r.payload.allow
    /\ ~r.enforced => r.payload.given /\ r.to \notin r.payload.allow

\* What a worker's copy of a row and the row always agree on.
CopyOf(s, r) ==
    /\ s.to = r.to
    /\ s.enforced = r.enforced
    /\ s.payload.given = r.payload.given
    /\ s.payload.requires => r.payload.requires
    /\ s.enforced => s.payload.requires = r.payload.requires
    /\ SoundRow(s) /\ s.status # "NONE"
    /\ s.status # "QUEUED" => r.status # "QUEUED"

RowSound(m) ==
    /\ SoundRow(row[m])
    /\ row[m].meta.approved => m \in granted
    /\ row[m].enforced /\ row[m].payload.requires /\ m \notin granted
          => row[m].status \in {"QUEUED", "FAILED"}

JobSound(w) ==
    LET j == job[w]  r == row[j.cur] IN
    j.pc # "loop" =>
        /\ r.status # "NONE"
        /\ j.cur \notin batch[w]
        /\ j.pc \in Loaded => CopyOf(j.sess, r) /\ (j.sess.meta.approved => j.cur \in granted)
        /\ j.pc \in {"reload", "gate"} /\ r.enforced => j.need = r.payload.requires
        /\ j.pc \in Sending \cup {"finish"} /\ r.enforced /\ r.payload.requires
              => j.cur \in granted
        /\ j.pc \in Sending => r.status # "QUEUED"

BatchSound(w) == \A m \in batch[w] : Exists(m)

SendSound(m, w) ==
    /\ sends[m][w] <= 1
    /\ sends[m][w] > 0 =>
          /\ row[m].status \notin {"NONE", "QUEUED"}
          /\ m \notin batch[w]
          /\ job[w].cur = m /\ job[w].pc # "loop" => job[w].pc \in {"finish", "failing"}

GrantSound ==
    /\ \A m \in granted : Exists(m)
    /\ \A a \in Approvers : approval[a].msg # 0 => approval[a].msg \in granted

IInv ==
    /\ TypeOK
    /\ \A m \in Messages : RowSound(m)
    /\ \A w \in Workers : JobSound(w) /\ BatchSound(w)
    /\ \A m \in Messages, w \in Workers : SendSound(m, w)
    /\ GrantSound

-------------------------------------------------------------------------------
\* How a step may change a row, and what that leaves alone

\* No step takes a row away, changes what decides about approval, or queues it again;
\* only a row stored without enforcement may be found to require an approval.
Grows(r, s) ==
    /\ r.status # "NONE" => /\ s.status # "NONE"
                            /\ s.to = r.to
                            /\ s.enforced = r.enforced
                            /\ s.payload.given = r.payload.given
                            /\ r.payload.requires => s.payload.requires
                            /\ r.enforced => s.payload.requires = r.payload.requires
    /\ r.status \notin {"NONE", "QUEUED"} => s.status # "QUEUED"

\* What is shown of every step.
GoodStep == IInv' /\ \A m \in Messages : Grows(row[m], row'[m])

LEMMA InvInit == Init => IInv
<1> SUFFICES ASSUME Init PROVE IInv
  OBVIOUS
<1>1. TypeOK
  BY TypeInit
<1>2. \A m \in Messages : RowSound(m)
  BY DEF Init, RowSound, SoundRow, NoRow, NullPayload, NewMeta
<1>3. \A w \in Workers : JobSound(w) /\ BatchSound(w)
  BY DEF Init, JobSound, BatchSound, Idle
<1>4. \A m \in Messages, w \in Workers : SendSound(m, w)
  BY DEF Init, SendSound
<1>5. GrantSound
  BY DEF Init, GrantSound
<1> QED BY <1>1, <1>2, <1>3, <1>4, <1>5 DEF IInv

\* A worker that does not move is not disturbed by what the others write.
LEMMA Frame ==
    ASSUME IInv, \A m \in Messages : Grows(row[m], row'[m]), granted \subseteq granted',
           NEW w \in Workers, job'[w] = job[w], batch'[w] = batch[w]
    PROVE  /\ JobSound(w)' /\ BatchSound(w)'
           /\ \A m \in Messages : sends'[m][w] = sends[m][w] => SendSound(m, w)'
<1>1. JobSound(w)'
  <2> SUFFICES ASSUME job[w].pc # "loop" PROVE JobSound(w)'
    BY DEF JobSound
  <2>1. job[w].cur \in Messages /\ JobSound(w)
    BY DEF IInv, TypeOK
  <2>2. Grows(row[job[w].cur], row'[job[w].cur])
    BY <2>1
  <2> QED BY <2>1, <2>2 DEF JobSound, Grows, CopyOf
<1>2. BatchSound(w)'
  BY DEF IInv, TypeOK, BatchSound, Exists, Grows
<1>3. ASSUME NEW m \in Messages, sends'[m][w] = sends[m][w] PROVE SendSound(m, w)'
  <2>1. SendSound(m, w) /\ Grows(row[m], row'[m])
    BY DEF IInv
  <2> QED BY <1>3, <2>1 DEF SendSound, Grows
<1> QED BY <1>1, <1>2, <1>3

\* Where rows do not change, they stay sound; more approvals do no harm.
LEMMA RowsKept ==
    ASSUME IInv, UNCHANGED row, granted \subseteq granted'
    PROVE  \A m \in Messages : Grows(row[m], row'[m]) /\ RowSound(m)'
BY DEF IInv, RowSound, Grows

\* Steps of the environment: no worker moves.
LEMMA EnvironmentStep ==
    ASSUME IInv, TypeOK', UNCHANGED <<batch, job, sends>>, granted \subseteq granted',
           \A m \in Messages : Grows(row[m], row'[m]) /\ RowSound(m)', GrantSound'
    PROVE  GoodStep
<1>1. \A w \in Workers : JobSound(w)' /\ BatchSound(w)'
  BY Frame
<1>2. \A m \in Messages, w \in Workers : SendSound(m, w)'
  BY Frame
<1> QED BY <1>1, <1>2 DEF IInv, GoodStep

\* Steps of worker w: only its own part of the invariant has to be shown again.
LEMMA WorkerStep ==
    ASSUME IInv, TypeOK', NEW w \in Workers, UNCHANGED <<granted, approval>>,
           \A m \in Messages : Grows(row[m], row'[m]) /\ RowSound(m)',
           \A v \in Workers \ {w} : job'[v] = job[v] /\ batch'[v] = batch[v],
           \A v \in Workers \ {w}, m \in Messages : sends'[m][v] = sends[m][v],
           JobSound(w)', BatchSound(w)', \A m \in Messages : SendSound(m, w)'
    PROVE  GoodStep
<1>1. \A v \in Workers : JobSound(v)' /\ BatchSound(v)'
  BY Frame
<1>2. ASSUME NEW m \in Messages, NEW v \in Workers PROVE SendSound(m, v)'
  <2>1. CASE v = w
    BY <2>1
  <2>2. CASE v # w
    BY <2>2, Frame
  <2> QED BY <2>1, <2>2
<1>3. GrantSound'
  BY DEF IInv, TypeOK, GrantSound, Exists, Grows
<1> QED BY <1>1, <1>2, <1>3 DEF IInv, GoodStep

\* A new row is queued, and requires approval unless it covers its recipient.
LEMMA NewRow ==
    ASSUME IInv, NEW m \in Messages, ~Exists(m), NEW r, SoundRow(r), r.status = "QUEUED",
           ~r.meta.approved, row' = [row EXCEPT ![m] = r], UNCHANGED <<granted, approval>>
    PROVE  (\A n \in Messages : Grows(row[n], row'[n]) /\ RowSound(n)') /\ GrantSound'
<1>1. row'[m] = r /\ \A n \in Messages \ {m} : row'[n] = row[n]
  BY DEF IInv, TypeOK
<1>2. ASSUME NEW n \in Messages PROVE Grows(row[n], row'[n]) /\ RowSound(n)'
  <2>1. CASE n = m
    BY <1>1, <2>1 DEF Grows, RowSound, Exists
  <2>2. CASE n # m
    BY <1>1, <2>2 DEF IInv, Grows, RowSound
  <2> QED BY <2>1, <2>2
<1>3. GrantSound'
  BY <1>1 DEF IInv, TypeOK, GrantSound, Exists
<1> QED BY <1>2, <1>3

LEMMA InvCreate ==
    ASSUME IInv, NEW m \in Messages, NEW to \in Addresses, NEW channel \in Channels \cap Kinds,
           NEW own \in RequestAllowlists, NEW requires \in BOOLEAN,
           CreateOutboxMessage(m, channel, to, own, requires)
    PROVE  GoodStep
<1> DEFINE p == Enforced([given |-> TRUE, requires |-> requires, allow |-> own], to)
           made == [NoRow EXCEPT !.status  = "QUEUED", !.channel = channel, !.to = to,
                                 !.payload = p]
<1>1. p.given /\ (p.requires \/ to \in p.allow)
  BY DEF Enforced
<1>2. SoundRow(made) /\ made.status = "QUEUED" /\ ~made.meta.approved
  <2> HIDE DEF p
  <2> QED BY <1>1 DEF SoundRow, NoRow, NewMeta
<1>3. row' = [row EXCEPT ![m] = made] /\ ~Exists(m)
  BY DEF CreateOutboxMessage, NextNumber
<1>4. UNCHANGED <<granted, approval, batch, job, sends>>
  BY DEF CreateOutboxMessage, dispatcher
<1>5. (\A n \in Messages : Grows(row[n], row'[n]) /\ RowSound(n)') /\ GrantSound'
  <2> HIDE DEF made
  <2> QED BY <1>2, <1>3, <1>4, NewRow
<1>6. TypeOK'
  BY TypeCreate DEF IInv
<1> QED BY <1>4, <1>5, <1>6, EnvironmentStep

LEMMA InvStore ==
    ASSUME IInv, NEW m \in Messages, NEW to \in Addresses, NEW channel \in Channels \cap Kinds,
           NEW own \in RequestAllowlists, StoreUnenforced(m, channel, to, own)
    PROVE  GoodStep
<1> DEFINE made == [NoRow EXCEPT !.status  = "QUEUED", !.channel = channel, !.to = to,
                                 !.payload = [given |-> TRUE, requires |-> FALSE, allow |-> own],
                                 !.enforced = FALSE]
<1>1. row' = [row EXCEPT ![m] = made] /\ ~Exists(m) /\ to \notin own
  BY DEF StoreUnenforced, NextNumber
<1>2. SoundRow(made) /\ made.status = "QUEUED" /\ ~made.meta.approved
  BY <1>1 DEF SoundRow, NoRow, NewMeta
<1>4. UNCHANGED <<granted, approval, batch, job, sends>>
  BY DEF StoreUnenforced, dispatcher
<1>5. (\A n \in Messages : Grows(row[n], row'[n]) /\ RowSound(n)') /\ GrantSound'
  <2> HIDE DEF made
  <2> QED BY <1>1, <1>2, <1>4, NewRow
<1>6. TypeOK'
  BY TypeStore DEF IInv
<1> QED BY <1>4, <1>5, <1>6, EnvironmentStep

LEMMA InvQueue ==
    ASSUME IInv, NEW m \in Messages, NEW to \in Addresses, NEW channel \in Channels,
           QueueToOutbox(m, channel, to)
    PROVE  GoodStep
<1> DEFINE made == [NoRow EXCEPT !.status = "QUEUED", !.channel = channel, !.to = to]
<1>2. SoundRow(made) /\ made.status = "QUEUED" /\ ~made.meta.approved
  BY DEF SoundRow, NoRow, NewMeta, NullPayload
<1>3. row' = [row EXCEPT ![m] = made] /\ ~Exists(m)
  BY DEF QueueToOutbox, NextNumber
<1>4. UNCHANGED <<granted, approval, batch, job, sends>>
  BY DEF QueueToOutbox, dispatcher
<1>5. (\A n \in Messages : Grows(row[n], row'[n]) /\ RowSound(n)') /\ GrantSound'
  <2> HIDE DEF made
  <2> QED BY <1>2, <1>3, <1>4, NewRow
<1>6. TypeOK'
  BY TypeQueue DEF IInv
<1> QED BY <1>4, <1>5, <1>6, EnvironmentStep

\* Steps that touch neither rows nor workers, and may add an approval.
LEMMA InvQuiet ==
    ASSUME IInv, TypeOK', UNCHANGED <<row, batch, job, sends>>, granted \subseteq granted', GrantSound'
    PROVE  GoodStep
BY RowsKept, EnvironmentStep

LEMMA InvPut ==
    ASSUME IInv, NEW allow \in TenantAllowlists, PutAllowlist(allow) PROVE GoodStep
<1>1. UNCHANGED <<row, batch, job, sends, granted, approval>>
  BY DEF PutAllowlist, dispatcher
<1>2. GrantSound'
  BY <1>1 DEF IInv, GrantSound, Exists
<1> QED BY <1>1, <1>2, TypePut, InvQuiet DEF IInv

LEMMA InvVerdict == ASSUME IInv, BootstrapVerdict PROVE GoodStep
<1>1. UNCHANGED <<row, batch, job, sends, granted, approval>>
  BY DEF BootstrapVerdict, dispatcher
<1>2. GrantSound'
  BY <1>1 DEF IInv, GrantSound, Exists
<1> QED BY <1>1, <1>2, TypeVerdict, InvQuiet DEF IInv

LEMMA InvGrant == ASSUME IInv, NEW m \in Messages, Grant(m) PROVE GoodStep
<1>1. UNCHANGED <<row, batch, job, sends, approval>> /\ granted' = granted \cup {m} /\ Exists(m)
  BY DEF Grant, dispatcher
<1>2. GrantSound'
  BY <1>1 DEF IInv, GrantSound, Exists
<1> QED BY <1>1, <1>2, TypeGrant, InvQuiet DEF IInv

LEMMA InvApproveLoad ==
    ASSUME IInv, NEW a \in Approvers, NEW m \in Messages, ApproveLoad(a, m) PROVE GoodStep
<1>1. UNCHANGED <<row, batch, job, sends, granted>>
  BY DEF ApproveLoad, dispatcher
<1>2. GrantSound'
  BY <1>1 DEF IInv, TypeOK, GrantSound, Exists, ApproveLoad
<1> QED BY <1>1, <1>2, TypeApproveLoad, InvQuiet DEF IInv

LEMMA InvApproverCrash == ASSUME IInv, NEW a \in Approvers, ApproverCrash(a) PROVE GoodStep
<1>1. UNCHANGED <<row, batch, job, sends, granted>>
  BY DEF ApproverCrash
<1>2. GrantSound'
  BY <1>1 DEF IInv, TypeOK, GrantSound, Exists, ApproverCrash, NoApproval
<1> QED BY <1>1, <1>2, TypeApproverCrash, InvQuiet DEF IInv

\* The approved flag is only ever written for a message a human has approved.
LEMMA InvApproveCommit == ASSUME IInv, NEW a \in Approvers, ApproveCommit(a) PROVE GoodStep
<1> DEFINE m == approval[a].msg
<1>1. m \in granted /\ m \in Messages
  BY DEF IInv, GrantSound, TypeOK, ApproveCommit
<1>2. UNCHANGED <<batch, job, sends, granted>>
  BY DEF ApproveCommit, dispatcher
<1>3. PICK new : row' = [row EXCEPT ![m].meta = new]
  BY DEF ApproveCommit
<1>4. /\ row'[m] = [row[m] EXCEPT !.meta = new]
      /\ \A n \in Messages \ {m} : row'[n] = row[n]
  BY <1>1, <1>3 DEF IInv, TypeOK
<1>5. row[m] \in Row /\ Exists(m)
  BY <1>1 DEF IInv, TypeOK, GrantSound
<1>6. ASSUME NEW n \in Messages PROVE Grows(row[n], row'[n]) /\ RowSound(n)'
  <2>1. CASE n = m
    BY <1>1, <1>2, <1>4, <1>5, <2>1 DEF IInv, Grows, RowSound, SoundRow, Row, Exists
  <2>2. CASE n # m
    BY <1>2, <1>4, <2>2 DEF IInv, Grows, RowSound
  <2> QED BY <2>1, <2>2
<1>7. GrantSound'
  <2>1. \A n \in granted : Exists(n)'
    BY <1>6 DEF IInv, TypeOK, GrantSound, Exists, Grows
  <2>2. \A b \in Approvers : approval'[b].msg # 0 => approval'[b].msg \in granted
    BY DEF IInv, TypeOK, GrantSound, ApproveCommit, NoApproval
  <2> QED BY <1>2, <2>1, <2>2 DEF GrantSound
<1> QED BY <1>2, <1>6, <1>7, TypeApproveCommit, EnvironmentStep DEF IInv

-------------------------------------------------------------------------------
\* Steps of a worker

\* A copy stays one when the row grows.
LEMMA CopyKept ==
    ASSUME NEW s, NEW r, NEW t, CopyOf(s, r), r.status # "NONE", Grows(r, t)
    PROVE  CopyOf(s, t)
BY DEF CopyOf, Grows

\* A row just read is its own copy.
LEMMA CopyFresh == ASSUME NEW r, SoundRow(r), r.status # "NONE" PROVE CopyOf(r, r)
BY DEF CopyOf

\* Within the loop body, and on leaving it, what was sent stays accounted for.
LEMMA SendsKept ==
    ASSUME IInv, NEW w \in Workers, \A m \in Messages : Grows(row[m], row'[m]),
           \A m \in Messages : sends'[m][w] = sends[m][w], batch'[w] \subseteq batch[w],
           job'[w].pc # "loop" => /\ job[w].pc # "loop" /\ job'[w].cur = job[w].cur
                                  /\ job[w].pc \in {"finish", "failing"} =>
                                        job'[w].pc \in {"finish", "failing"}
    PROVE  \A m \in Messages : SendSound(m, w)'
<1> TAKE m \in Messages
<1>1. SendSound(m, w) /\ Grows(row[m], row'[m])
  BY DEF IInv
<1> QED BY <1>1 DEF SendSound, Grows

\* What a worker may change in its copy s of row c before it commits.
Change(s, new, c) ==
    /\ SoundRow(new)
    /\ new.to = s.to
    /\ new.enforced = s.enforced
    /\ new.payload.given = s.payload.given
    /\ new.payload = s.payload \/ new.payload.requires
    /\ s.enforced => new.payload.requires = s.payload.requires
    /\ new.meta.approved => c \in granted
    /\ new.status # s.status => new.status \in Results \cup {"SENDING"}
    /\ new.status # s.status /\ s.enforced /\ s.payload.requires => c \in granted

LEMMA FlushSound ==
    ASSUME NEW r \in Row, NEW s \in Row, NEW new \in Row, NEW c,
           r.status # "NONE", SoundRow(r), r.meta.approved => c \in granted,
           r.enforced /\ r.payload.requires /\ c \notin granted
               => r.status \in {"QUEUED", "FAILED"},
           CopyOf(s, r), Change(s, new, c)
    PROVE  LET t == Flush(r, s, new) IN
           /\ Grows(r, t) /\ SoundRow(t) /\ (t.meta.approved => c \in granted)
           /\ t.enforced /\ t.payload.requires /\ c \notin granted
                 => t.status \in {"QUEUED", "FAILED"}
           /\ t.status = IF new.status = s.status THEN r.status ELSE new.status
<1> DEFINE t == Flush(r, s, new)
<1>1. /\ t.to = r.to /\ t.enforced = r.enforced
      /\ t.status  = Written(r.status, s.status, new.status)
      /\ t.payload = Written(r.payload, s.payload, new.payload)
      /\ t.meta    = Written(r.meta, s.meta, new.meta)
  <2> DEFINE st == Written(r.status, s.status, new.status)
             pl == Written(r.payload, s.payload, new.payload)
             mt == Written(r.meta, s.meta, new.meta)
  <2>1. t = [r EXCEPT !.status = st, !.payload = pl, !.meta = mt]
    BY DEF Flush
  <2> HIDE DEF st, pl, mt, t
  <2>2. t.to = r.to /\ t.enforced = r.enforced /\ t.status = st /\ t.payload = pl /\ t.meta = mt
    BY <2>1 DEF Row
  <2> QED BY <2>2 DEF st, pl, mt
<1> HIDE DEF t
<1>2. Grows(r, t)
  BY <1>1 DEF Grows, CopyOf, Change, Written, Results
<1>3. SoundRow(t)
  <2>1. t.status # "NONE"
    BY <1>2 DEF Grows
  <2>2. t.payload = r.payload \/ t.payload = new.payload
    BY <1>1 DEF Written
  <2> QED BY <1>1, <2>1, <2>2 DEF SoundRow, CopyOf, Change
<1>4. t.meta.approved => c \in granted
  BY <1>1 DEF Written, Change
<1>5. t.enforced /\ t.payload.requires /\ c \notin granted => t.status \in {"QUEUED", "FAILED"}
  BY <1>1, <1>2 DEF Written, CopyOf, Grows, Change
<1>6. t.status = IF new.status = s.status THEN r.status ELSE new.status
  BY <1>1 DEF Written
<1> QED BY <1>2, <1>3, <1>4, <1>5, <1>6 DEF t

\* A commit of such a change keeps every row sound.
LEMMA CommitSound ==
    ASSUME IInv, NEW w \in Workers, job[w].pc \in Loaded, NEW new \in Row, Commit(w, new),
           UNCHANGED granted, Change(job[w].sess, new, job[w].cur)
    PROVE  /\ \A m \in Messages : Grows(row[m], row'[m]) /\ RowSound(m)'
           /\ row'[job[w].cur].status = IF new.status = job[w].sess.status
                                        THEN row[job[w].cur].status ELSE new.status
<1> DEFINE c == job[w].cur
           t == Flush(row[c], job[w].sess, new)
<1>1. /\ c \in Messages /\ row[c] \in Row /\ job[w].sess \in Row
      /\ row[c].status # "NONE" /\ CopyOf(job[w].sess, row[c]) /\ RowSound(c)
  BY DEF IInv, TypeOK, JobSound, Job, Loaded
<1>2. row'[c] = t /\ \A n \in Messages \ {c} : row'[n] = row[n]
  BY <1>1 DEF IInv, TypeOK, Commit
<1>3. /\ Grows(row[c], t) /\ SoundRow(t) /\ (t.meta.approved => c \in granted)
      /\ t.enforced /\ t.payload.requires /\ c \notin granted
            => t.status \in {"QUEUED", "FAILED"}
      /\ t.status = IF new.status = job[w].sess.status THEN row[c].status ELSE new.status
  <2>1. row[c].meta.approved => c \in granted
    BY <1>1 DEF RowSound
  <2>2. row[c].enforced /\ row[c].payload.requires /\ c \notin granted
            => row[c].status \in {"QUEUED", "FAILED"}
    BY <1>1 DEF RowSound
  <2>3. SoundRow(row[c])
    BY <1>1 DEF RowSound
  <2> QED BY <1>1, <2>1, <2>2, <2>3, FlushSound
<1>4. ASSUME NEW m \in Messages PROVE Grows(row[m], row'[m]) /\ RowSound(m)'
  <2>1. CASE m = c
    <3> HIDE DEF t
    <3> QED BY <1>2, <1>3, <2>1 DEF RowSound
  <2>2. CASE m # c
    BY <1>2, <2>2 DEF IInv, Grows, RowSound
  <2> QED BY <2>1, <2>2
<1> QED BY <1>2, <1>3, <1>4

-------------------------------------------------------------------------------
\* Every action of a worker keeps the invariant

\* A step of worker w within the loop body, or out of it.
LEMMA BodyStep ==
    ASSUME IInv, TypeOK', NEW w \in Workers, UNCHANGED <<granted, approval>>,
           \A m \in Messages : Grows(row[m], row'[m]) /\ RowSound(m)',
           \A v \in Workers \ {w} : job'[v] = job[v] /\ batch'[v] = batch[v],
           \A v \in Workers \ {w}, m \in Messages : sends'[m][v] = sends[m][v],
           batch'[w] \subseteq batch[w], \A m \in Messages : sends'[m][w] = sends[m][w],
           job'[w].pc # "loop" => /\ job[w].pc # "loop" /\ job'[w].cur = job[w].cur
                                  /\ job[w].pc \in {"finish", "failing"} =>
                                        job'[w].pc \in {"finish", "failing"},
           JobSound(w)'
    PROVE  GoodStep
<1>1. BatchSound(w)'
  BY DEF IInv, TypeOK, BatchSound, Exists, Grows
<1>2. \A m \in Messages : SendSound(m, w)'
  BY SendsKept
<1> QED BY <1>1, <1>2, WorkerStep

\* What the invariant says of a worker in the loop body.
LEMMA InBody ==
    ASSUME IInv, NEW w \in Workers, job[w].pc # "loop"
    PROVE  /\ job[w] \in Job /\ job[w].cur \in Messages /\ row[job[w].cur] \in Row
           /\ row[job[w].cur].status # "NONE" /\ RowSound(job[w].cur) /\ JobSound(w)
           /\ job[w].cur \notin batch[w]
BY DEF IInv, TypeOK, JobSound

LEMMA InvPick == ASSUME IInv, NEW w \in Workers, Pick(w) PROVE GoodStep
<1> DEFINE found == Oldest({m \in Messages : Pickable(m)})
<1>1. /\ job[w].pc = "loop" /\ batch' = [batch EXCEPT ![w] = found]
      /\ UNCHANGED <<row, job, sends, granted, approval>>
  BY DEF Pick, At, others
<1>2. \A m \in found : m \in Messages /\ row[m].status = "QUEUED"
  BY DEF Oldest, Pickable
<1> HIDE DEF found
<1>3. batch'[w] = found /\ \A v \in Workers \ {w} : batch'[v] = batch[v]
  BY <1>1 DEF IInv, TypeOK
<1>4. JobSound(w)' /\ BatchSound(w)'
  BY <1>1, <1>2, <1>3 DEF JobSound, BatchSound, Exists
<1>5. \A m \in Messages : SendSound(m, w)'
  BY <1>1, <1>2, <1>3 DEF IInv, SendSound
<1>6. \A m \in Messages : Grows(row[m], row'[m]) /\ RowSound(m)'
  BY <1>1, RowsKept
<1>7. TypeOK'
  BY TypePick DEF IInv
<1> QED BY <1>1, <1>3, <1>4, <1>5, <1>6, <1>7, WorkerStep

\* A fetched row becomes the current one: an attempt, or a fault before it begins.
LEMMA TakeUp ==
    ASSUME IInv, TypeOK', NEW w \in Workers, NEW m \in batch[w], job[w].pc = "loop",
           UNCHANGED <<row, sends, granted, approval>>, batch' = [batch EXCEPT ![w] = @ \ {m}],
           \/ UNCHANGED job
           \/ \E pc \in {"load", "failing"} : job' = [job EXCEPT ![w].pc = pc, ![w].cur = m]
    PROVE  GoodStep
<1>1. m \in Messages /\ row[m].status # "NONE"
  BY DEF IInv, TypeOK, BatchSound, Exists
<1>2. /\ batch'[w] = batch[w] \ {m}
      /\ \A v \in Workers \ {w} : batch'[v] = batch[v] /\ job'[v] = job[v]
  BY DEF IInv, TypeOK
<1>3. \/ job'[w] = job[w]
      \/ job'[w].pc \in {"load", "failing"} /\ job'[w].cur = m
  BY DEF IInv, TypeOK, Job
<1>4. JobSound(w)'
  <2>1. CASE job'[w] = job[w]
    BY <2>1 DEF JobSound
  <2>2. CASE job'[w].pc \in {"load", "failing"} /\ job'[w].cur = m
    BY <1>1, <1>2, <2>2 DEF JobSound, Loaded, Sending
  <2> QED BY <1>3, <2>1, <2>2
<1>5. BatchSound(w)'
  BY <1>2 DEF IInv, BatchSound, Exists
<1>6. ASSUME NEW n \in Messages PROVE SendSound(n, w)'
  <2>1. SendSound(n, w)
    BY DEF IInv
  <2> QED BY <1>2, <1>3, <2>1 DEF SendSound
<1>7. \A n \in Messages : Grows(row[n], row'[n]) /\ RowSound(n)'
  BY RowsKept
<1> QED BY <1>2, <1>4, <1>5, <1>6, <1>7, WorkerStep

LEMMA InvAttempt == ASSUME IInv, NEW w \in Workers, Attempt(w) PROVE GoodStep
<1>1. TypeOK'
  BY TypeAttempt DEF IInv
<1>2. UNCHANGED <<row, sends, granted, approval>> /\ job[w].pc = "loop"
  BY DEF Attempt, others, IsNext, At
<1>3. PICK m \in batch[w] :
        /\ batch' = [batch EXCEPT ![w] = @ \ {m}]
        /\ job' = IF fresh THEN [job EXCEPT ![w].pc = "load", ![w].cur = m] ELSE job
  BY DEF Attempt
<1> QED BY <1>1, <1>2, <1>3, TakeUp

LEMMA InvLoad == ASSUME IInv, NEW w \in Workers, Load(w) PROVE GoodStep
<1> DEFINE r == row[job[w].cur]
<1>1. job[w].pc = "load" /\ UNCHANGED <<row, batch, sends, granted, approval>>
  BY DEF Load, At, others
<1>2. CASE Raise(w)
  <2>1. job'[w].pc = "failing" /\ job'[w].cur = job[w].cur
    BY <1>2 DEF IInv, TypeOK, Raise, Idle
  <2> QED BY <1>1, <1>2, <2>1, InBody, RowsKept, BodyStep, TypeLoad
       DEF IInv, TypeOK, JobSound, Loaded, Sending, Raise
<1>3. ASSUME NEW pc \in {"finish", "enforce"}, NEW res,
             pc = "finish" => ~r.payload.given,
             job' = [job EXCEPT ![w].pc = pc, ![w].sess = r, ![w].res = res]
      PROVE  GoodStep
  <2>1. /\ job'[w].pc = pc /\ job'[w].cur = job[w].cur /\ job'[w].sess = r
        /\ \A v \in Workers \ {w} : job'[v] = job[v]
    BY <1>3 DEF IInv, TypeOK, Job
  <2>2. r.status # "NONE" /\ RowSound(job[w].cur) /\ job[w].cur \notin batch[w]
    BY <1>1, InBody
  <2>3. CopyOf(r, r)
    BY <2>2 DEF CopyOf, RowSound
  <2>4. JobSound(w)'
    <3>1. /\ row'[job'[w].cur] = r /\ job'[w].sess = r /\ job'[w].pc = pc
          /\ job'[w].cur \notin batch'[w]
          /\ r.meta.approved => job'[w].cur \in granted'
      BY <1>1, <2>1, <2>2 DEF RowSound
    <3>2. pc = "finish" => ~r.payload.requires
      BY <1>3, <2>2 DEF RowSound, SoundRow
    <3> HIDE DEF r
    <3> QED BY <2>2, <2>3, <3>1, <3>2 DEF JobSound, Loaded, Sending
  <2> QED BY <1>1, <2>1, <2>4, RowsKept, BodyStep, TypeLoad DEF IInv
<1>4. \/ Raise(w)
      \/ /\ ~r.payload.given
         /\ job' = [job EXCEPT ![w].pc = "finish", ![w].sess = r, ![w].res = "STUB_SENT"]
      \/ job' = [job EXCEPT ![w].pc = "enforce", ![w].sess = r]
  BY DEF Load
<1>5. CASE job' = [job EXCEPT ![w].pc = "enforce", ![w].sess = r]
  <2>1. job' = [job EXCEPT ![w].pc = "enforce", ![w].sess = r, ![w].res = job[w].res]
    BY <1>5 DEF IInv, TypeOK, Job
  <2> QED BY <2>1, <1>3
<1> QED BY <1>2, <1>3, <1>4, <1>5

\* The requirement as it is enforced again holds if the stored one does, and is the
\* stored one of a row that was enforced before; only a row that requires an
\* approval is upgraded.
LEMMA SameRequirement ==
    ASSUME NEW s \in Row, SoundRow(s)
    PROVE  /\ Normalised(s).requires = s.payload.requires
           /\ s.payload.requires => Enforced(Normalised(s), s.to).requires
           /\ s.enforced => Enforced(Normalised(s), s.to).requires = s.payload.requires
           /\ s.to \notin Enforced(Normalised(s), s.to).allow =>
                 s.payload.given /\ Enforced(Normalised(s), s.to).requires
<1>1. CASE s.payload.given
  BY <1>1 DEF Normalised, Enforced, Merged, SoundRow, Row, Payload
<1>2. CASE ~s.payload.given
  BY <1>2 DEF Normalised, Enforced, Merged, SoundRow, Row, Payload
<1> QED BY <1>1, <1>2

LEMMA InvEnforce == ASSUME IInv, NEW w \in Workers, Enforce(w) PROVE GoodStep
<1> DEFINE s == job[w].sess
           p == Enforced(Normalised(s), s.to)
           upgraded == s.to \notin p.allow
           new == [s EXCEPT !.payload = [p EXCEPT !.given = TRUE], !.meta.flagged = TRUE]
           next == IF upgraded THEN "reload" ELSE "gate"
<1>1. job[w].pc = "enforce" /\ UNCHANGED <<batch, sends, granted, approval>>
  BY DEF Enforce, At, others
<1>2. /\ s \in Row /\ CopyOf(s, row[job[w].cur]) /\ SoundRow(s)
      /\ s.meta.approved => job[w].cur \in granted
      /\ row[job[w].cur].status # "NONE" /\ job[w].cur \in Messages
      /\ job[w].cur \notin batch[w]
  BY <1>1, InBody DEF JobSound, Loaded, CopyOf, Job
<1>3. s.enforced => p.requires = s.payload.requires
  BY <1>2, SameRequirement
<1>4. /\ \A m \in Messages : Grows(row[m], row'[m]) /\ RowSound(m)'
  <2>1. CASE upgraded
    <3>1. p \in Payload /\ p.requires
      <4>1. s.payload.given /\ p.requires
        BY <1>2, <2>1, SameRequirement
      <4>2. Normalised(s) \in Payload
        BY <1>2, <4>1, NormalisedType
      <4> QED BY <4>1, <4>2, EnforcedType DEF IInv, TypeOK
    <3>2. s.payload.given
      BY <1>2, <2>1, SameRequirement
    <3> HIDE DEF p
    <3>3. new \in Row
      BY <1>2, <3>1 DEF Row, Payload, Meta
    <3>4. Change(s, new, job[w].cur)
      <4>1. /\ new.status = s.status /\ new.to = s.to /\ new.enforced = s.enforced
            /\ new.payload.given = TRUE /\ new.payload.requires = p.requires
            /\ new.payload.allow = p.allow /\ new.meta.approved = s.meta.approved
        BY <1>2, <3>1 DEF Row, Payload, Meta
      <4>2. /\ s.payload.given = TRUE /\ p.requires = TRUE
            /\ s.enforced => p.requires = s.payload.requires
        BY <1>2, <1>3, <3>1, <3>2 DEF Row, Payload
      <4>3. SoundRow(new)
        BY <1>2, <2>1, <4>1, <4>2 DEF SoundRow, CopyOf
      <4> HIDE DEF new, s
      <4> QED BY <1>2, <4>1, <4>2, <4>3 DEF Change
    <3>5. Commit(w, new)
      BY <2>1 DEF Enforce, Upgraded, p
    <3> QED BY <1>1, <3>3, <3>4, <3>5, CommitSound DEF Loaded
  <2>2. CASE ~upgraded
    <3>1. UNCHANGED row
      BY <2>2 DEF Enforce, Upgraded
    <3> QED BY <1>1, <3>1, RowsKept
  <2> QED BY <2>1, <2>2
<1>5. job' = [job EXCEPT ![w].need = p.requires, ![w].pc = next]
  BY DEF Enforce, Upgraded
<1>6. /\ job'[w].pc \in {"reload", "gate"} /\ job'[w].cur = job[w].cur /\ job'[w].sess = s
      /\ s.enforced => job'[w].need = s.payload.requires
      /\ \A v \in Workers \ {w} : job'[v] = job[v]
  <2>1. next \in {"reload", "gate"}
    OBVIOUS
  <2> HIDE DEF p, next
  <2> QED BY <1>3, <1>5, <2>1 DEF IInv, TypeOK, Job
<1>7. JobSound(w)'
  <2>1. Grows(row[job[w].cur], row'[job[w].cur])
    BY <1>2, <1>4
  <2>2. CopyOf(s, row'[job[w].cur])
    BY <1>2, <2>1, CopyKept
  <2> QED BY <1>1, <1>2, <1>6, <2>1, <2>2 DEF JobSound, Loaded, Sending, Grows, CopyOf
<1> QED BY <1>1, <1>4, <1>6, <1>7, BodyStep, TypeEnforce DEF IInv

LEMMA InvEnforceSkipped == ASSUME IInv, NEW w \in Workers, EnforceSkipped(w) PROVE GoodStep
<1> DEFINE s == job[w].sess
           need == Normalised(s).requires
<1>1. job[w].pc = "enforce" /\ UNCHANGED <<row, batch, sends, granted, approval>>
  BY DEF EnforceSkipped, At, others
<1>2. /\ s \in Row /\ CopyOf(s, row[job[w].cur]) /\ SoundRow(s)
      /\ s.meta.approved => job[w].cur \in granted
      /\ row[job[w].cur].status # "NONE" /\ job[w].cur \notin batch[w]
  BY <1>1, InBody DEF JobSound, Loaded, CopyOf, Job
<1>3. need = s.payload.requires
  BY <1>2, SameRequirement
<1>4. job' = [job EXCEPT ![w].need = need, ![w].pc = "gate"]
  BY DEF EnforceSkipped
<1> HIDE DEF need
<1>5. /\ job'[w].pc = "gate" /\ job'[w].cur = job[w].cur /\ job'[w].sess = s
      /\ job'[w].need = need
      /\ \A v \in Workers \ {w} : job'[v] = job[v]
  BY <1>4 DEF IInv, TypeOK, Job
<1>6. JobSound(w)'
  BY <1>1, <1>2, <1>3, <1>5 DEF JobSound, Loaded, Sending, CopyOf
<1> QED BY <1>1, <1>5, <1>6, RowsKept, BodyStep, TypeEnforceSkipped DEF IInv

LEMMA InvReload == ASSUME IInv, NEW w \in Workers, Reload(w) PROVE GoodStep
<1> DEFINE r == row[job[w].cur]
<1>1. job[w].pc = "reload" /\ UNCHANGED <<row, batch, sends, granted, approval>>
  BY DEF Reload, At, others
<1>2. /\ job'[w].pc = "gate" /\ job'[w].cur = job[w].cur /\ job'[w].sess = r
      /\ job'[w].need = job[w].need
      /\ \A v \in Workers \ {w} : job'[v] = job[v]
  BY DEF IInv, TypeOK, Job, Reload
<1>3. r.status # "NONE" /\ RowSound(job[w].cur) /\ JobSound(w) /\ job[w].cur \notin batch[w]
  BY <1>1, InBody
<1>4. CopyOf(r, r)
  BY <1>3 DEF CopyOf, RowSound
<1>5. JobSound(w)'
  BY <1>1, <1>2, <1>3, <1>4 DEF JobSound, Loaded, Sending, RowSound
<1> QED BY <1>1, <1>2, <1>5, RowsKept, BodyStep, TypeReload DEF IInv

\* Leaving the loop body is always in order.
LEMMA LeaveStep ==
    ASSUME IInv, TypeOK', NEW w \in Workers, Leave(w), UNCHANGED <<sends, granted, approval>>,
           \A m \in Messages : Grows(row[m], row'[m]) /\ RowSound(m)',
           batch'[w] \subseteq batch[w], \A v \in Workers \ {w} : batch'[v] = batch[v]
    PROVE  GoodStep
<1>1. job'[w] = Idle /\ \A v \in Workers \ {w} : job'[v] = job[v]
  BY DEF IInv, TypeOK, Leave
<1>2. JobSound(w)' /\ job'[w].pc = "loop"
  BY <1>1 DEF JobSound, Idle
<1> QED BY <1>1, <1>2, BodyStep

LEMMA InvGateBlocked == ASSUME IInv, NEW w \in Workers, GateBlocked(w) PROVE GoodStep
BY RowsKept, LeaveStep, TypeGateBlocked DEF IInv, GateBlocked, others

LEMMA InvRescueFails == ASSUME IInv, NEW w \in Workers, RescueFails(w) PROVE GoodStep
BY RowsKept, LeaveStep, TypeRescueFails DEF IInv, RescueFails, others

LEMMA InvCrash == ASSUME IInv, NEW w \in Workers, Crash(w) PROVE GoodStep
<1>1. batch'[w] \subseteq batch[w] /\ \A v \in Workers \ {w} : batch'[v] = batch[v]
  BY DEF IInv, TypeOK, Crash
<1> QED BY <1>1, RowsKept, LeaveStep, TypeCrash DEF IInv, Crash, others

LEMMA InvRescue == ASSUME IInv, NEW w \in Workers, Rescue(w) PROVE GoodStep
<1> DEFINE c == job[w].cur
<1>1. /\ row' = [row EXCEPT ![c] = Recovered(row[c])] /\ Leave(w) /\ job[w].pc # "loop"
      /\ UNCHANGED <<batch, sends, granted, approval>>
  BY DEF Rescue, At, others
<1>2. c \in Messages /\ row[c] \in Row /\ row[c].status # "NONE" /\ RowSound(c)
  BY <1>1, InBody
<1>3. row'[c] = [row[c] EXCEPT !.status = "FAILED"] /\ \A n \in Messages \ {c} : row'[n] = row[n]
  BY <1>1, <1>2 DEF IInv, TypeOK, Recovered
<1>4. ASSUME NEW m \in Messages PROVE Grows(row[m], row'[m]) /\ RowSound(m)'
  <2>1. CASE m = c
    <3>1. /\ row'[m].status = "FAILED" /\ row'[m].to = row[m].to
          /\ row'[m].payload = row[m].payload /\ row'[m].meta = row[m].meta
          /\ row'[m].enforced = row[m].enforced /\ row'[m].channel = row[m].channel
      BY <1>2, <1>3, <2>1 DEF Row
    <3>2. row[m].status # "NONE" /\ RowSound(m) /\ granted' = granted
      BY <1>1, <1>2, <2>1
    <3>3. Grows(row[m], row'[m])
      BY <3>1, <3>2 DEF Grows
    <3>4. RowSound(m)'
      BY <3>1, <3>2 DEF RowSound, SoundRow
    <3> QED BY <3>3, <3>4
  <2>2. CASE m # c
    BY <1>1, <1>3, <2>2 DEF IInv, Grows, RowSound
  <2> QED BY <2>1, <2>2
<1> QED BY <1>1, <1>4, LeaveStep, TypeRescue DEF IInv

\* The claim: a copy that requires approval carries the flag, and the flag is only
\* there when a human has approved.
LEMMA InvGateClaim == ASSUME IInv, NEW w \in Workers, GateClaim(w) PROVE GoodStep
<1> DEFINE s == job[w].sess
           c == job[w].cur
           new == [s EXCEPT !.status = "SENDING"]
<1>1. /\ job[w].pc = "gate" /\ UNCHANGED <<batch, sends, granted, approval>>
      /\ job[w].need => s.meta.approved
      /\ Commit(w, new) /\ job' = [job EXCEPT ![w].pc = "render"]
  BY DEF GateClaim, At, Goto, Cleared, others
<1>2. /\ s \in Row /\ CopyOf(s, row[c]) /\ SoundRow(s)
      /\ s.meta.approved => c \in granted
      /\ row[c].enforced => job[w].need = row[c].payload.requires
      /\ row[c].status # "NONE" /\ c \notin batch[w] /\ c \in Messages
  BY <1>1, InBody DEF JobSound, Loaded, CopyOf, Job
<1>3. s.enforced /\ s.payload.requires => c \in granted
  BY <1>1, <1>2 DEF CopyOf
<1>4. new \in Row /\ Change(s, new, c) /\ new.status = "SENDING"
  BY <1>2, <1>3 DEF Row, Statuses, Change, SoundRow
<1>5. /\ \A m \in Messages : Grows(row[m], row'[m]) /\ RowSound(m)'
      /\ row'[c].status = IF s.status = "SENDING" THEN row[c].status ELSE "SENDING"
  <2> HIDE DEF new
  <2> QED BY <1>1, <1>4, CommitSound DEF Loaded
<1>6. /\ job'[w].pc = "render" /\ job'[w].cur = c /\ job'[w].sess = s
      /\ \A v \in Workers \ {w} : job'[v] = job[v]
  BY <1>1 DEF IInv, TypeOK, Job
<1>7. JobSound(w)'
  <2>1. Grows(row[c], row'[c])
    BY <1>2, <1>5
  <2>2. CopyOf(s, row'[c])
    BY <1>2, <2>1, CopyKept
  <2>3. row'[c].status \notin {"NONE", "QUEUED"}
    BY <1>2, <1>5 DEF CopyOf
  <2> HIDE DEF s, c
  <2> QED BY <1>1, <1>2, <1>3, <1>6, <2>1, <2>2, <2>3 DEF JobSound, Loaded, Sending, CopyOf, Grows
<1> QED BY <1>1, <1>5, <1>6, <1>7, BodyStep, TypeGateClaim DEF IInv

LEMMA InvRender == ASSUME IInv, NEW w \in Workers, Render(w) PROVE GoodStep
<1> DEFINE r == row[job[w].cur]
<1>1. job[w].pc = "render" /\ UNCHANGED <<row, batch, sends, granted, approval>>
  BY DEF Render, At, others
<1>2. /\ job'[w].pc \in {"prepare", "telegram", "finish"}
      /\ job'[w].cur = job[w].cur /\ job'[w].sess = r
      /\ \A v \in Workers \ {w} : job'[v] = job[v]
  BY DEF IInv, TypeOK, Job, Render, Sender
<1>3. r.status # "NONE" /\ RowSound(job[w].cur) /\ JobSound(w) /\ job[w].cur \notin batch[w]
  BY <1>1, InBody
<1>4. CopyOf(r, r)
  BY <1>3 DEF CopyOf, RowSound
<1>5. JobSound(w)'
  BY <1>1, <1>2, <1>3, <1>4 DEF JobSound, Loaded, Sending, RowSound
<1> QED BY <1>1, <1>2, <1>5, RowsKept, BodyStep, TypeRender DEF IInv

LEMMA InvPrepare == ASSUME IInv, NEW w \in Workers, Prepare(w) PROVE GoodStep
<1> DEFINE s == job[w].sess
           c == job[w].cur
           new == [s EXCEPT !.meta.preview = TRUE]
<1>1. /\ job[w].pc = "prepare" /\ UNCHANGED <<batch, sends, granted, approval>>
      /\ Commit(w, new) /\ job' = [job EXCEPT ![w].pc = "post"]
  BY DEF Prepare, At, Goto, others
<1>2. /\ s \in Row /\ CopyOf(s, row[c]) /\ SoundRow(s)
      /\ s.meta.approved => c \in granted
      /\ row[c].enforced /\ row[c].payload.requires => c \in granted
      /\ row[c].status \notin {"NONE", "QUEUED"} /\ c \notin batch[w] /\ c \in Messages
  BY <1>1, InBody DEF JobSound, Loaded, Sending, CopyOf, Job
<1>3. /\ new \in Row /\ new.status = s.status /\ new.to = s.to /\ new.payload = s.payload
      /\ new.enforced = s.enforced
      /\ new.meta.approved = s.meta.approved
  BY <1>2 DEF Row, Meta
<1>4. Change(s, new, c)
  <2> HIDE DEF new, s, c
  <2> QED BY <1>2, <1>3 DEF Change, SoundRow, CopyOf
<1>5. \A m \in Messages : Grows(row[m], row'[m]) /\ RowSound(m)'
  <2> HIDE DEF new
  <2> QED BY <1>1, <1>3, <1>4, CommitSound DEF Loaded
<1>6. /\ job'[w].pc = "post" /\ job'[w].cur = c /\ job'[w].sess = s
      /\ \A v \in Workers \ {w} : job'[v] = job[v]
  BY <1>1 DEF IInv, TypeOK, Job
<1>7. JobSound(w)'
  <2>1. Grows(row[c], row'[c])
    BY <1>2, <1>5
  <2>2. CopyOf(s, row'[c])
    BY <1>2, <2>1, CopyKept
  <2> HIDE DEF s, c
  <2> QED BY <1>1, <1>2, <1>6, <2>1, <2>2 DEF JobSound, Loaded, Sending, Grows
<1> QED BY <1>1, <1>5, <1>6, <1>7, BodyStep, TypePrepare DEF IInv

\* A send: the worker has not sent this message before, the row is claimed and not
\* in the worker's batch, and the worker goes on to record the outcome or to fail.
LEMMA SendStep ==
    ASSUME IInv, TypeOK', NEW w \in Workers, job[w].pc \in {"post", "telegram"},
           UNCHANGED <<row, batch, granted, approval>>,
           job'[w].pc \in {"finish", "failing"}, job'[w].cur = job[w].cur,
           job'[w].pc = "finish" => job'[w].sess \in {job[w].sess, row[job[w].cur]},
           \A v \in Workers \ {w} : job'[v] = job[v],
           UNCHANGED sends \/ sends' = [sends EXCEPT ![job[w].cur][w] = @ + 1]
    PROVE  GoodStep
<1> DEFINE c == job[w].cur
<1>1. /\ c \in Messages /\ row[c].status \notin {"NONE", "QUEUED"} /\ c \notin batch[w]
      /\ row[c].enforced /\ row[c].payload.requires => c \in granted
      /\ CopyOf(job[w].sess, row[c]) /\ (job[w].sess.meta.approved => c \in granted)
      /\ RowSound(c)
  BY InBody DEF JobSound, Sending, Loaded
<1>2. CopyOf(row[c], row[c])
  BY <1>1 DEF CopyOf, RowSound
<1>3. JobSound(w)' /\ BatchSound(w)'
  BY <1>1, <1>2 DEF IInv, JobSound, BatchSound, Exists, Loaded, Sending, RowSound
<1>4. sends[c][w] = 0
  <2>1. SendSound(c, w) /\ sends[c][w] \in Nat
    BY <1>1 DEF IInv, TypeOK
  <2> QED BY <2>1 DEF SendSound
<1>5. ASSUME NEW v \in Workers \ {w}, NEW m \in Messages PROVE sends'[m][v] = sends[m][v]
  <2>1. sends \in [Messages -> [Workers -> Nat]] /\ c \in Messages
    BY <1>1 DEF IInv, TypeOK
  <2>2. CASE sends' = [sends EXCEPT ![c][w] = @ + 1]
    <3> HIDE DEF c
    <3>1. CASE m = c
      <4>1. sends'[m] = [sends[m] EXCEPT ![w] = @ + 1]
        BY <2>1, <2>2, <3>1
      <4> QED BY <2>1, <4>1
    <3>2. CASE m # c
      BY <2>1, <2>2, <3>2
    <3> QED BY <3>1, <3>2
  <2> QED BY <2>2
<1>6. ASSUME NEW m \in Messages PROVE SendSound(m, w)'
  <2>1. SendSound(m, w)
    BY DEF IInv
  <2>2. CASE m = c
    <3>1. sends'[m][w] \in {0, 1}
      BY <1>1, <1>4, <2>2 DEF IInv, TypeOK
    <3> QED BY <1>1, <2>2, <3>1 DEF SendSound
  <2>3. CASE m # c
    <3>1. sends'[m][w] = sends[m][w]
      BY <1>1, <2>3 DEF IInv, TypeOK
    <3> QED BY <2>1, <2>3, <3>1 DEF SendSound
  <2> QED BY <2>2, <2>3
<1> QED BY <1>3, <1>5, <1>6, RowsKept, WorkerStep

LEMMA InvPost == ASSUME IInv, NEW w \in Workers, Post(w) PROVE GoodStep
<1> DEFINE r == row[job[w].cur]
<1>1. job[w].pc = "post" /\ UNCHANGED <<row, batch, granted, approval>>
  BY DEF Post, At, others
<1>2. PICK res : job' = [job EXCEPT ![w].sess = r, ![w].pc = "finish", ![w].res = res]
  BY DEF Post
<1>3. /\ job'[w].pc = "finish" /\ job'[w].cur = job[w].cur /\ job'[w].sess = r
      /\ \A v \in Workers \ {w} : job'[v] = job[v]
  BY <1>2 DEF IInv, TypeOK, Job
<1>4. UNCHANGED sends \/ sends' = [sends EXCEPT ![job[w].cur][w] = @ + 1]
  BY DEF Post, Transmit
<1> QED BY <1>1, <1>3, <1>4, SendStep, TypePost DEF IInv

LEMMA InvTelegram == ASSUME IInv, NEW w \in Workers, Telegram(w) PROVE GoodStep
<1>1. job[w].pc = "telegram" /\ UNCHANGED <<row, batch, granted, approval>>
  BY DEF Telegram, At, others
<1>2. /\ job'[w].pc \in {"finish", "failing"} /\ job'[w].cur = job[w].cur
      /\ job'[w].pc = "finish" => job'[w].sess = job[w].sess
      /\ \A v \in Workers \ {w} : job'[v] = job[v]
  <2>1. CASE Raise(w)
    BY <2>1 DEF IInv, TypeOK, Job, Raise, Idle
  <2>2. CASE Settle(w, "SENT")
    BY <2>2 DEF IInv, TypeOK, Job, Settle
  <2> QED BY <2>1, <2>2 DEF Telegram
<1>3. UNCHANGED sends \/ sends' = [sends EXCEPT ![job[w].cur][w] = @ + 1]
  BY DEF Telegram, Transmit
<1> QED BY <1>1, <1>2, <1>3, SendStep, TypeTelegram DEF IInv

LEMMA InvFinish == ASSUME IInv, NEW w \in Workers, Finish(w) PROVE GoodStep
<1> DEFINE s == job[w].sess
           c == job[w].cur
           new == Outcome(job[w])
<1>1. /\ job[w].pc = "finish" /\ UNCHANGED <<batch, sends, granted, approval>>
      /\ Commit(w, new) /\ Leave(w)
  BY DEF Finish, At, others
<1>2. /\ job[w] \in Job /\ s \in Row /\ CopyOf(s, row[c]) /\ SoundRow(s)
      /\ s.meta.approved => c \in granted
      /\ row[c].enforced /\ row[c].payload.requires => c \in granted
  BY <1>1, InBody DEF JobSound, Loaded, Sending, CopyOf, Job
<1>3. /\ new \in Row /\ new.status \in Results /\ new.to = s.to /\ new.payload = s.payload
      /\ new.enforced = s.enforced
      /\ new.meta.approved = s.meta.approved
  BY <1>2, OutcomeType
<1>4. Change(s, new, c)
  <2> HIDE DEF new, s, c
  <2> QED BY <1>2, <1>3 DEF Change, SoundRow, CopyOf, Results
<1>5. \A m \in Messages : Grows(row[m], row'[m]) /\ RowSound(m)'
  <2> HIDE DEF new
  <2> QED BY <1>1, <1>3, <1>4, CommitSound DEF Loaded
<1> QED BY <1>1, <1>5, LeaveStep, TypeFinish DEF IInv

LEMMA InvFault == ASSUME IInv, NEW w \in Workers, Fault(w) PROVE GoodStep
<1>1. TypeOK' /\ UNCHANGED <<row, sends, granted, approval>>
  BY TypeFault DEF IInv, Fault, others
<1>2. CASE job[w].pc \notin {"loop", "failing"} /\ Raise(w) /\ UNCHANGED batch
  <2>1. /\ job'[w].pc = "failing" /\ job'[w].cur = job[w].cur
        /\ \A v \in Workers \ {w} : job'[v] = job[v]
    BY <1>2 DEF IInv, TypeOK, Raise, Idle
  <2>2. JobSound(w)'
    BY <1>1, <1>2, <2>1, InBody DEF JobSound, Loaded, Sending
  <2> QED BY <1>1, <1>2, <2>1, <2>2, RowsKept, BodyStep
<1>3. ASSUME NEW m \in batch[w], IsNext(w, m), batch' = [batch EXCEPT ![w] = @ \ {m}],
             job' = [job EXCEPT ![w].pc = "failing", ![w].cur = m]
      PROVE  GoodStep
  BY <1>1, <1>3, TakeUp DEF IsNext, At
<1> QED BY <1>2, <1>3 DEF Fault

-------------------------------------------------------------------------------
\* The theorems

LEMMA InvNext == IInv /\ [Next]_vars => GoodStep
<1> SUFFICES ASSUME IInv, [Next]_vars PROVE GoodStep
  OBVIOUS
<1>1. CASE Environment
  BY <1>1, InvCreate, InvStore, InvQueue, InvPut, InvVerdict, InvGrant, InvApproveLoad, InvApproveCommit,
     InvApproverCrash DEF Environment
<1>2. ASSUME NEW w \in Workers, Pick(w) \/ Work(w) \/ Mishap(w) PROVE GoodStep
  BY <1>2, InvPick, InvAttempt, InvLoad, InvEnforce, InvReload, InvGateBlocked, InvGateClaim,
     InvRender, InvPrepare, InvPost, InvTelegram, InvFinish, InvRescue, InvEnforceSkipped,
     InvFault, InvRescueFails, InvCrash DEF Work, Mishap
<1>3. CASE UNCHANGED vars
  <2>1. TypeOK' /\ GrantSound'
    BY <1>3 DEF vars, IInv, TypeOK, GrantSound, Exists
  <2> QED BY <1>3, <2>1, InvQuiet DEF vars
<1> QED BY <1>1, <1>2, <1>3 DEF Next

\* The invariant holds in every reachable state.
THEOREM Invariant == Spec => []IInv
<1>1. IInv /\ [Next]_vars => IInv'
  BY InvNext DEF GoodStep
<1> QED BY InvInit, <1>1, PTL DEF Spec

\* A message whose allowlist was enforced when it was stored, that needs an approval
\* and has none, is never claimed (lines 266-283).
THEOREM NoClaimWithoutApproval == Spec => []UnapprovedStaysQueued
<1>1. IInv => UnapprovedStaysQueued
  BY DEF IInv, RowSound, UnapprovedStaysQueued
<1> QED BY Invariant, <1>1, PTL

\* A claimed message goes to an address its stored allowlist covers, or a human
\* has approved it, if that list was enforced when it was stored (enforce_allowlist
\* at creation, lines 249-283).
THEOREM ClaimsAreCleared == Spec => []ClaimedIsCleared
<1>1. IInv => ClaimedIsCleared
  <2> SUFFICES ASSUME IInv, NEW m \in Messages,
                      row[m].enforced, row[m].payload.given, row[m].status \notin {"NONE", "QUEUED", "FAILED"},
                      m \notin granted
               PROVE  row[m].to \in row[m].payload.allow
    BY DEF ClaimedIsCleared
  <2> QED BY DEF IInv, RowSound, SoundRow
<1> QED BY Invariant, <1>1, PTL

\* No dispatch task sends a message twice, however often it fails, restarts or
\* fetches (lines 136-147, 440-449).
THEOREM OneSendPerWorker == Spec => []NoWorkerRepeats
<1>1. IInv => NoWorkerRepeats
  BY DEF IInv, SendSound, NoWorkerRepeats
<1> QED BY Invariant, <1>1, PTL

\* A row that left QUEUED stays out of it, in every step of every process.
THEOREM StatusMovesOn == Spec => NeverRequeued
<1>1. IInv /\ [Next]_vars =>
        [\A m \in Messages :
            Exists(m) /\ row[m].status # "QUEUED" => row'[m].status # "QUEUED"]_vars
  BY InvNext DEF GoodStep, Grows, Exists
<1> QED BY Invariant, <1>1, PTL DEF Spec, NeverRequeued

\* Once a message is found to need an approval, at its creation or by enforcement at
\* dispatch, it goes on needing it, whatever older copies are written back (lines 249-262).
THEOREM RequirementIsNeverDropped == Spec => RequirementIsKept
<1>1. IInv /\ [Next]_vars =>
        [\A m \in Messages :
            Exists(m) /\ row[m].payload.requires => row'[m].payload.requires]_vars
  BY InvNext DEF GoodStep, Grows, Exists
<1> QED BY Invariant, <1>1, PTL DEF Spec, RequirementIsKept

-------------------------------------------------------------------------------
\* An approval, once written, stays written while the message waits.  This is
\* only so for messages their stored allowlist covers: for the others enforcement
\* writes the worker's copy of meta back (lines 256-262), approved or not.

Covered(r) == r.to \in r.payload.allow

Waiting(m) == row[m].status = "QUEUED" /\ row[m].payload.requires /\ Covered(row[m])

\* A copy covers its recipient if the row does; and only a row without a payload
\* reaches the outcome without a claim.
CopyCovers(w) ==
    LET j == job[w]  r == row[j.cur] IN
    j.pc \in Loaded =>
        /\ Covered(r) => Covered(j.sess)
        /\ j.pc = "finish" /\ r.payload.given => r.status # "QUEUED"

\* What an approver has read of a waiting message is still so.
ApprovalCovers(a) ==
    LET m == approval[a].msg IN
    m # 0 /\ Waiting(m) /\ approval[a].meta.approved => row[m].meta.approved

Keeping ==
    /\ \A w \in Workers : CopyCovers(w)
    /\ \A a \in Approvers : ApprovalCovers(a)

\* A new row with a payload allows at least what its request allowed.
Created(r) == r.to \in Addresses /\ \E own \in RequestAllowlists : own \subseteq r.payload.allow

\* No step covers an address that was not covered, or uncovers one, or takes an
\* approval back.
Keeps(m) ==
    /\ Exists(m) => /\ Covered(row'[m]) <=> Covered(row[m])
                    /\ Waiting(m)' /\ row[m].meta.approved => row'[m].meta.approved
    /\ ~Exists(m) /\ row'[m].payload.given => Created(row'[m])

KeepStep == Keeping' /\ \A m \in Messages : Keeps(m)

LEMMA KeepInit == Init => Keeping
BY DEF Init, Keeping, CopyCovers, ApprovalCovers, Idle, Loaded

LEMMA CopyFrame ==
    ASSUME IInv, Keeping, GoodStep, \A m \in Messages : Keeps(m),
           NEW w \in Workers, job'[w] = job[w]
    PROVE  CopyCovers(w)'
<1> SUFFICES ASSUME job[w].pc \in Loaded PROVE CopyCovers(w)'
  BY DEF CopyCovers
<1>1. job[w].cur \in Messages /\ Exists(job[w].cur) /\ CopyCovers(w)
  BY InBody DEF Loaded, Exists, Keeping
<1>2. Keeps(job[w].cur) /\ Grows(row[job[w].cur], row'[job[w].cur])
  BY <1>1 DEF GoodStep
<1> QED BY <1>1, <1>2 DEF CopyCovers, Keeps, Grows, Exists

LEMMA ApprovalCoverFrame ==
    ASSUME IInv, Keeping, GoodStep, \A m \in Messages : Keeps(m),
           NEW a \in Approvers, approval'[a] = approval[a]
    PROVE  ApprovalCovers(a)'
<1> DEFINE m == approval[a].msg
<1> SUFFICES ASSUME m # 0, Waiting(m)', approval[a].meta.approved PROVE row'[m].meta.approved
  BY DEF ApprovalCovers, Waiting
<1>1. m \in Messages /\ Exists(m) /\ ApprovalCovers(a)
  BY DEF IInv, TypeOK, GrantSound, Keeping
<1>2. Keeps(m) /\ Grows(row[m], row'[m])
  BY <1>1 DEF GoodStep
<1>3. Waiting(m)
  <2>1. row[m].enforced
    BY <1>1, <1>2 DEF Waiting, Covered, Keeps, IInv, RowSound, SoundRow
  <2> QED BY <1>1, <1>2, <2>1 DEF Waiting, Keeps, Grows, Exists, IInv, RowSound
<1> QED BY <1>1, <1>2, <1>3 DEF ApprovalCovers, Keeps

LEMMA RowKeeps == ASSUME IInv, NEW m \in Messages, row'[m] = row[m] PROVE Keeps(m)
BY DEF Keeps, Waiting, Exists, IInv, RowSound, SoundRow, NoRow, NullPayload

LEMMA RowsKeep == ASSUME IInv, UNCHANGED row PROVE \A m \in Messages : Keeps(m)
BY RowKeeps

\* A step of the environment, and of worker w.
LEMMA KeepEnvironment ==
    ASSUME IInv, Keeping, GoodStep, UNCHANGED job, \A m \in Messages : Keeps(m),
           \A a \in Approvers : approval'[a] = approval[a] \/ ApprovalCovers(a)'
    PROVE  KeepStep
<1>1. \A w \in Workers : CopyCovers(w)'
  BY CopyFrame
<1>2. \A a \in Approvers : ApprovalCovers(a)'
  BY ApprovalCoverFrame
<1> QED BY <1>1, <1>2 DEF KeepStep, Keeping

LEMMA KeepWorker ==
    ASSUME IInv, Keeping, GoodStep, UNCHANGED approval, \A m \in Messages : Keeps(m),
           NEW w \in Workers, \A v \in Workers \ {w} : job'[v] = job[v], CopyCovers(w)'
    PROVE  KeepStep
<1>1. \A v \in Workers : CopyCovers(v)'
  BY CopyFrame
<1>2. \A a \in Approvers : ApprovalCovers(a)'
  BY ApprovalCoverFrame
<1> QED BY <1>1, <1>2 DEF KeepStep, Keeping

\* A worker that reads the row, moves on with its copy, or leaves.
LEMMA KeepBody ==
    ASSUME IInv, Keeping, GoodStep, UNCHANGED approval, \A m \in Messages : Keeps(m),
           NEW w \in Workers, \A v \in Workers \ {w} : job'[v] = job[v],
           job'[w].pc \in Loaded =>
               /\ job[w].pc # "loop" /\ job'[w].cur = job[w].cur
               /\ \/ job'[w].sess = row[job[w].cur]
                  \/ job[w].pc \in Loaded /\ job'[w].sess = job[w].sess
               /\ job'[w].pc = "finish" =>
                     job[w].pc \in Sending \/ ~row[job[w].cur].payload.given
    PROVE  KeepStep
<1>1. CopyCovers(w)'
  <2> SUFFICES ASSUME job'[w].pc \in Loaded PROVE CopyCovers(w)'
    BY DEF CopyCovers
  <2> DEFINE c == job[w].cur
  <2>1. /\ c \in Messages /\ Exists(c) /\ RowSound(c) /\ JobSound(w) /\ CopyCovers(w)
    BY InBody DEF Exists, Keeping
  <2>2. Keeps(c) /\ Grows(row[c], row'[c])
    BY <2>1 DEF GoodStep
  <2>3. Covered(row'[c]) => Covered(job'[w].sess)
    BY <2>1, <2>2 DEF Keeps, CopyCovers
  <2>4. ASSUME job'[w].pc = "finish", row'[c].payload.given PROVE row'[c].status # "QUEUED"
    <3>1. row[c].payload.given
      BY <2>1, <2>2, <2>4 DEF Grows, Exists
    <3>2. row[c].status # "QUEUED" /\ row[c].status # "NONE"
      BY <2>1, <2>4, <3>1 DEF JobSound, Sending, Exists
    <3> QED BY <2>2, <3>2 DEF Grows
  <2> QED BY <2>3, <2>4 DEF CopyCovers
<1> QED BY <1>1, KeepWorker

\* Steps that leave rows, approvals and workers alone, and those of an approver.
LEMMA KeepNew ==
    ASSUME IInv, Keeping, GoodStep, NEW m \in Messages, ~Exists(m), NEW r,
           row' = [row EXCEPT ![m] = r], r.payload.given => Created(r), UNCHANGED <<job, approval>>
    PROVE  KeepStep
<1>1. ASSUME NEW n \in Messages PROVE Keeps(n)
  <2>1. CASE n = m
    BY <2>1 DEF IInv, TypeOK, Keeps
  <2>2. CASE n # m
    BY <2>2, RowKeeps DEF IInv, TypeOK
  <2> QED BY <2>1, <2>2
<1> QED BY <1>1, KeepEnvironment

LEMMA KeepCreate ==
    ASSUME IInv, Keeping, GoodStep, NEW m \in Messages, NEW to \in Addresses,
           NEW channel \in Channels \cap Kinds, NEW own \in RequestAllowlists,
           NEW requires \in BOOLEAN, CreateOutboxMessage(m, channel, to, own, requires)
    PROVE  KeepStep
<1> DEFINE p == Enforced([given |-> TRUE, requires |-> requires, allow |-> own], to)
           made == [NoRow EXCEPT !.status  = "QUEUED", !.channel = channel, !.to = to,
                                 !.payload = p]
<1>1. own \subseteq p.allow
  BY DEF Enforced, Merged
<1>2. Created(made)
  <2> HIDE DEF p
  <2> QED BY <1>1 DEF Created, NoRow
<1>3. row' = [row EXCEPT ![m] = made] /\ ~Exists(m) /\ UNCHANGED <<job, approval>>
  BY DEF CreateOutboxMessage, NextNumber, dispatcher
<1> HIDE DEF made
<1> QED BY <1>2, <1>3, KeepNew

LEMMA KeepStore ==
    ASSUME IInv, Keeping, GoodStep, NEW m \in Messages, NEW to \in Addresses,
           NEW channel \in Channels \cap Kinds, NEW own \in RequestAllowlists,
           StoreUnenforced(m, channel, to, own)
    PROVE  KeepStep
<1> DEFINE made == [NoRow EXCEPT !.status  = "QUEUED", !.channel = channel, !.to = to,
                                 !.payload = [given |-> TRUE, requires |-> FALSE, allow |-> own],
                                 !.enforced = FALSE]
<1>1. Created(made)
  BY DEF Created, NoRow
<1>2. row' = [row EXCEPT ![m] = made] /\ ~Exists(m) /\ UNCHANGED <<job, approval>>
  BY DEF StoreUnenforced, NextNumber, dispatcher
<1> HIDE DEF made
<1> QED BY <1>1, <1>2, KeepNew

LEMMA KeepQueue ==
    ASSUME IInv, Keeping, GoodStep, NEW m \in Messages, NEW to \in Addresses,
           NEW channel \in Channels, QueueToOutbox(m, channel, to)
    PROVE  KeepStep
<1> DEFINE made == [NoRow EXCEPT !.status = "QUEUED", !.channel = channel, !.to = to]
<1>1. ~made.payload.given
  BY DEF NoRow, NullPayload
<1>2. row' = [row EXCEPT ![m] = made] /\ ~Exists(m) /\ UNCHANGED <<job, approval>>
  BY DEF QueueToOutbox, NextNumber, dispatcher
<1> HIDE DEF made
<1> QED BY <1>1, <1>2, KeepNew

LEMMA KeepQuiet ==
    ASSUME IInv, Keeping, GoodStep, UNCHANGED <<row, job, approval>> PROVE KeepStep
BY RowsKeep, KeepEnvironment

LEMMA KeepApproveLoad ==
    ASSUME IInv, Keeping, GoodStep, NEW a \in Approvers, NEW m \in Messages, ApproveLoad(a, m)
    PROVE  KeepStep
<1>1. UNCHANGED <<row, job>> /\ approval' = [approval EXCEPT ![a] = [msg |-> m, meta |-> row[m].meta]]
  BY DEF ApproveLoad, dispatcher
<1>2. ApprovalCovers(a)' /\ \A b \in Approvers \ {a} : approval'[b] = approval[b]
  BY <1>1 DEF IInv, TypeOK, ApprovalCovers
<1> QED BY <1>1, <1>2, RowsKeep, KeepEnvironment

LEMMA KeepApproverCrash ==
    ASSUME IInv, Keeping, GoodStep, NEW a \in Approvers, ApproverCrash(a) PROVE KeepStep
<1>1. UNCHANGED <<row, job>> /\ approval' = [approval EXCEPT ![a] = NoApproval]
  BY DEF ApproverCrash
<1>2. ApprovalCovers(a)' /\ \A b \in Approvers \ {a} : approval'[b] = approval[b]
  BY <1>1 DEF IInv, TypeOK, ApprovalCovers, NoApproval
<1> QED BY <1>1, <1>2, RowsKeep, KeepEnvironment

\* After its commit the message is approved, whatever the approver had read.
LEMMA CommitApproves ==
    ASSUME IInv, Keeping, NEW a \in Approvers, ApproveCommit(a), NEW m, m = approval[a].msg
    PROVE  /\ m \in Messages /\ Exists(m)
           /\ Waiting(m)' => row'[m].meta.approved
           /\ row'[m].payload = row[m].payload /\ row'[m].to = row[m].to
           /\ \A n \in Messages \ {m} : row'[n] = row[n]
<1> DEFINE loaded == approval[a].meta
           new == Written(row[m].meta, loaded, [loaded EXCEPT !.approved = TRUE])
<1>1. m \in Messages /\ row[m] \in Row /\ loaded \in Meta /\ Exists(m)
  BY DEF IInv, TypeOK, GrantSound, ApproveCommit
<1>2. Waiting(m) /\ loaded.approved => row[m].meta.approved
  BY DEF Keeping, ApprovalCovers, ApproveCommit
<1>3. new.approved \/ (loaded.approved /\ new = row[m].meta)
  BY <1>1 DEF Written, Meta
<1>4. row' = [row EXCEPT ![m].meta = new]
  BY DEF ApproveCommit
<1> HIDE DEF new
<1>5. /\ row'[m].meta = new /\ row'[m].status = row[m].status
      /\ row'[m].payload = row[m].payload /\ row'[m].to = row[m].to
      /\ \A n \in Messages \ {m} : row'[n] = row[n]
  BY <1>1, <1>4 DEF IInv, TypeOK, Row
<1>6. ASSUME Waiting(m)' PROVE row'[m].meta.approved
  <2>1. Waiting(m)
    BY <1>5, <1>6 DEF Waiting, Covered
  <2> QED BY <1>2, <1>3, <1>5, <2>1
<1> QED BY <1>1, <1>5, <1>6

LEMMA KeepApproveCommit ==
    ASSUME IInv, Keeping, GoodStep, NEW a \in Approvers, ApproveCommit(a) PROVE KeepStep
<1>0. PICK m : m = approval[a].msg
  OBVIOUS
<1>1. \A n \in Messages : Keeps(n)
  <2> TAKE n \in Messages
  <2>1. CASE n = m
    BY <1>0, <2>1, CommitApproves DEF Keeps, Covered
  <2>2. CASE n # m
    <3>1. row'[n] = row[n]
      BY <1>0, <2>2, CommitApproves
    <3> QED BY <3>1, RowKeeps
  <2> QED BY <2>1, <2>2
<1>2. UNCHANGED job /\ approval' = [approval EXCEPT ![a] = NoApproval]
  BY DEF ApproveCommit, dispatcher
<1>3. ApprovalCovers(a)' /\ \A b \in Approvers \ {a} : approval'[b] = approval[b]
  BY <1>2 DEF IInv, TypeOK, ApprovalCovers, NoApproval
<1> QED BY <1>1, <1>2, <1>3, KeepEnvironment

\* A commit of a worker changes its row and no other, column by column.
LEMMA CommitRow ==
    ASSUME IInv, NEW w \in Workers, job[w].pc # "loop", NEW new, Commit(w, new)
    PROVE  LET c == job[w].cur  s == job[w].sess IN
           /\ c \in Messages /\ row'[c].to = row[c].to
           /\ row'[c].status  = Written(row[c].status, s.status, new.status)
           /\ row'[c].payload = Written(row[c].payload, s.payload, new.payload)
           /\ \A n \in Messages \ {c} : row'[n] = row[n]
<1> DEFINE c == job[w].cur
           s == job[w].sess
           st == Written(row[c].status, s.status, new.status)
           pl == Written(row[c].payload, s.payload, new.payload)
           mt == Written(row[c].meta, s.meta, new.meta)
<1>1. c \in Messages /\ row[c] \in Row
  BY InBody
<1>2. row' = [row EXCEPT ![c] = [row[c] EXCEPT !.status = st, !.payload = pl, !.meta = mt]]
  BY DEF Commit, Flush
<1> HIDE DEF st, pl, mt
<1>3. /\ row'[c].to = row[c].to /\ row'[c].status = st /\ row'[c].payload = pl
      /\ \A n \in Messages \ {c} : row'[n] = row[n]
  BY <1>1, <1>2 DEF IInv, TypeOK, Row
<1> QED BY <1>1, <1>3 DEF st, pl

\* A commit that takes the message out of QUEUED, or finds it out, is harmless.
LEMMA KeepCommit ==
    ASSUME IInv, NEW w \in Workers, job[w].pc # "loop", NEW new, Commit(w, new),
           new.payload = job[w].sess.payload, row'[job[w].cur].status # "QUEUED"
    PROVE  \A m \in Messages : Keeps(m)
<1> TAKE m \in Messages
<1>1. row'[job[w].cur].payload = row[job[w].cur].payload
  BY CommitRow DEF Written
<1>2. CASE m = job[w].cur
  BY <1>1, <1>2, CommitRow, InBody DEF Keeps, Waiting, Covered, Exists
<1>3. CASE m # job[w].cur
  <2>1. row'[m] = row[m]
    BY <1>3, CommitRow
  <2> QED BY <2>1, RowKeeps
<1> QED BY <1>2, <1>3

\* The upgrade writes the copy's meta back, but only where nothing covers the recipient.
LEMMA KeepEnforce ==
    ASSUME IInv, Keeping, GoodStep, NEW w \in Workers, Enforce(w) PROVE KeepStep
<1> DEFINE s == job[w].sess
           c == job[w].cur
           p == Enforced(Normalised(s), s.to)
           upgraded == s.to \notin p.allow
           new == [s EXCEPT !.payload = [p EXCEPT !.given = TRUE], !.meta.flagged = TRUE]
           next == IF upgraded THEN "reload" ELSE "gate"
<1>1. job[w].pc = "enforce" /\ UNCHANGED approval
  BY DEF Enforce, At, others
<1>2. s \in Row /\ SoundRow(s) /\ s.to = row[c].to /\ (Covered(row[c]) => Covered(s))
  BY <1>1, InBody DEF JobSound, Loaded, CopyOf, Job, Keeping, CopyCovers
<1>3. \A m \in Messages : Keeps(m)
  <2>1. CASE upgraded
    <3>1. s.payload.given
      BY <1>2, <2>1, SameRequirement
    <3>2. p \in Payload
      BY <1>2, <3>1, NormalisedType, EnforcedType DEF IInv, TypeOK
    <3>3. ~Covered(s)
      BY <2>1, <3>1 DEF Covered, Enforced, Normalised, Merged
    <3>4. Commit(w, new)
      BY <2>1 DEF Enforce, Upgraded
    <3>5. new.payload.allow = p.allow
      <4> HIDE DEF p
      <4> QED BY <1>2, <3>2 DEF Row, Payload, Meta
    <3> HIDE DEF new, p
    <3>6. ~Covered(row'[c])
      <4>1. row'[c].payload = row[c].payload \/ row'[c].payload = new.payload
        BY <1>1, <3>4, CommitRow DEF Written
      <4>2. row'[c].to = s.to
        BY <1>1, <1>2, <3>4, CommitRow
      <4> QED BY <1>2, <2>1, <3>3, <3>5, <4>1, <4>2 DEF Covered
    <3>7. \A n \in Messages \ {c} : row'[n] = row[n]
      BY <1>1, <3>4, CommitRow
    <3> TAKE m \in Messages
    <3>8. CASE m = c
      BY <1>1, <1>2, <3>3, <3>6, <3>8, InBody DEF Keeps, Waiting, Exists
    <3>9. CASE m # c
      BY <3>7, <3>9, RowKeeps
    <3> QED BY <3>8, <3>9
  <2>2. CASE ~upgraded
    BY <2>2, RowsKeep DEF Enforce, Upgraded
  <2> QED BY <2>1, <2>2
<1>4. job' = [job EXCEPT ![w].need = p.requires, ![w].pc = next]
  BY DEF Enforce, Upgraded
<1>5. /\ job'[w].pc \in {"reload", "gate"} /\ job'[w].cur = c /\ job'[w].sess = s
      /\ \A v \in Workers \ {w} : job'[v] = job[v]
  <2>1. next \in {"reload", "gate"}
    OBVIOUS
  <2> HIDE DEF p, next
  <2> QED BY <1>4, <2>1 DEF IInv, TypeOK, Job
<1> QED BY <1>1, <1>3, <1>5, KeepBody DEF Loaded

LEMMA KeepGateClaim ==
    ASSUME IInv, Keeping, GoodStep, NEW w \in Workers, GateClaim(w) PROVE KeepStep
<1> DEFINE new == [job[w].sess EXCEPT !.status = "SENDING"]
<1>1. job[w].pc = "gate" /\ UNCHANGED approval /\ Commit(w, new) /\ job' = [job EXCEPT ![w].pc = "render"]
  BY DEF GateClaim, At, Goto, others
<1>2. /\ job'[w].pc = "render" /\ job'[w].cur = job[w].cur /\ job'[w].sess = job[w].sess
      /\ \A v \in Workers \ {w} : job'[v] = job[v]
  BY <1>1 DEF IInv, TypeOK, Job
<1>3. row'[job[w].cur].status # "QUEUED"
  BY <1>2 DEF GoodStep, IInv, JobSound, Sending
<1>4. new.payload = job[w].sess.payload
  BY <1>1, InBody DEF Job, Row
<1>5. \A m \in Messages : Keeps(m)
  <2> HIDE DEF new
  <2> QED BY <1>1, <1>3, <1>4, KeepCommit
<1> QED BY <1>1, <1>2, <1>5, KeepBody DEF Loaded

LEMMA KeepPrepare ==
    ASSUME IInv, Keeping, GoodStep, NEW w \in Workers, Prepare(w) PROVE KeepStep
<1> DEFINE new == [job[w].sess EXCEPT !.meta.preview = TRUE]
<1>1. job[w].pc = "prepare" /\ UNCHANGED approval /\ Commit(w, new) /\ job' = [job EXCEPT ![w].pc = "post"]
  BY DEF Prepare, At, Goto, others
<1>2. /\ job'[w].pc = "post" /\ job'[w].cur = job[w].cur /\ job'[w].sess = job[w].sess
      /\ \A v \in Workers \ {w} : job'[v] = job[v]
  BY <1>1 DEF IInv, TypeOK, Job
<1>3. row'[job[w].cur].status # "QUEUED"
  BY <1>2 DEF GoodStep, IInv, JobSound, Sending
<1>4. new.payload = job[w].sess.payload
  BY <1>1, InBody DEF Job, Row
<1>5. \A m \in Messages : Keeps(m)
  <2> HIDE DEF new
  <2> QED BY <1>1, <1>3, <1>4, KeepCommit
<1> QED BY <1>1, <1>2, <1>5, KeepBody DEF Loaded

LEMMA KeepLeave ==
    ASSUME IInv, Keeping, GoodStep, UNCHANGED approval, \A m \in Messages : Keeps(m),
           NEW w \in Workers, Leave(w)
    PROVE  KeepStep
<1>1. job'[w].pc = "loop" /\ \A v \in Workers \ {w} : job'[v] = job[v]
  BY DEF IInv, TypeOK, Leave, Idle
<1> QED BY <1>1, KeepBody DEF Loaded

LEMMA KeepFinish ==
    ASSUME IInv, Keeping, GoodStep, NEW w \in Workers, Finish(w) PROVE KeepStep
<1> DEFINE s == job[w].sess
           c == job[w].cur
           new == Outcome(job[w])
<1>1. job[w].pc = "finish" /\ UNCHANGED approval /\ Commit(w, new) /\ Leave(w)
  BY DEF Finish, At, others
<1>2. job[w] \in Job /\ s \in Row /\ CopyOf(s, row[c]) /\ c \in Messages
  BY <1>1, InBody DEF JobSound, Loaded, Job
<1>3. new.payload = s.payload /\ new.status \in Results
  BY <1>2 DEF Outcome, Job, Row
<1> HIDE DEF new
<1>4. row'[c].status = Written(row[c].status, s.status, new.status)
  BY <1>1, CommitRow
<1>5. row'[c].status # "QUEUED"
  BY <1>2, <1>3, <1>4 DEF Written, Results, CopyOf
<1>6. \A m \in Messages : Keeps(m)
  BY <1>1, <1>3, <1>5, KeepCommit
<1> QED BY <1>1, <1>6, KeepLeave

LEMMA KeepRescue ==
    ASSUME IInv, Keeping, GoodStep, NEW w \in Workers, Rescue(w) PROVE KeepStep
<1> DEFINE c == job[w].cur
<1>1. /\ row' = [row EXCEPT ![c] = Recovered(row[c])] /\ Leave(w) /\ job[w].pc # "loop"
      /\ UNCHANGED approval
  BY DEF Rescue, At, others
<1>2. c \in Messages /\ row[c] \in Row
  BY <1>1, InBody
<1>3. row'[c] = [row[c] EXCEPT !.status = "FAILED"] /\ \A n \in Messages \ {c} : row'[n] = row[n]
  BY <1>1, <1>2 DEF IInv, TypeOK, Recovered
<1>4. /\ row'[c].status = "FAILED" /\ row'[c].to = row[c].to
      /\ row'[c].payload = row[c].payload
  BY <1>2, <1>3 DEF Row
<1>5. \A m \in Messages : Keeps(m)
  <2> TAKE m \in Messages
  <2>1. CASE m = c
    BY <1>1, <1>4, <2>1, InBody DEF Keeps, Waiting, Covered, Exists
  <2>2. CASE m # c
    BY <1>3, <2>2, RowKeeps
  <2> QED BY <2>1, <2>2
<1> QED BY <1>1, <1>5, KeepLeave

LEMMA KeepLoad == ASSUME IInv, Keeping, GoodStep, NEW w \in Workers, Load(w) PROVE KeepStep
<1> DEFINE r == row[job[w].cur]
<1>1. job[w].pc = "load" /\ UNCHANGED <<row, approval>>
  BY DEF Load, At, others
<1>2. /\ \/ job'[w].pc = "failing"
         \/ /\ job'[w].pc = "finish" /\ ~r.payload.given
            /\ job'[w].cur = job[w].cur /\ job'[w].sess = r
         \/ job'[w].pc = "enforce" /\ job'[w].cur = job[w].cur /\ job'[w].sess = r
      /\ \A v \in Workers \ {w} : job'[v] = job[v]
  <2>1. CASE Raise(w)
    BY <2>1 DEF IInv, TypeOK, Raise, Idle
  <2>2. CASE /\ ~r.payload.given
             /\ job' = [job EXCEPT ![w].pc = "finish", ![w].sess = r, ![w].res = "STUB_SENT"]
    BY <2>2 DEF IInv, TypeOK, Job
  <2>3. CASE job' = [job EXCEPT ![w].pc = "enforce", ![w].sess = r]
    BY <2>3 DEF IInv, TypeOK, Job
  <2> QED BY <2>1, <2>2, <2>3 DEF Load
<1> QED BY <1>1, <1>2, RowsKeep, KeepBody DEF Loaded

LEMMA KeepEnforceSkipped ==
    ASSUME IInv, Keeping, GoodStep, NEW w \in Workers, EnforceSkipped(w) PROVE KeepStep
<1> DEFINE need == Normalised(job[w].sess).requires
<1>1. job[w].pc = "enforce" /\ UNCHANGED <<row, approval>>
  BY DEF EnforceSkipped, At, others
<1>2. job' = [job EXCEPT ![w].need = need, ![w].pc = "gate"]
  BY DEF EnforceSkipped
<1> HIDE DEF need
<1>3. /\ job'[w].pc = "gate" /\ job'[w].cur = job[w].cur /\ job'[w].sess = job[w].sess
      /\ \A v \in Workers \ {w} : job'[v] = job[v]
  BY <1>2 DEF IInv, TypeOK, Job
<1> QED BY <1>1, <1>3, RowsKeep, KeepBody DEF Loaded

LEMMA KeepReload == ASSUME IInv, Keeping, GoodStep, NEW w \in Workers, Reload(w) PROVE KeepStep
<1>1. job[w].pc = "reload" /\ UNCHANGED <<row, approval>>
  BY DEF Reload, At, others
<1>2. /\ job'[w].pc = "gate" /\ job'[w].cur = job[w].cur /\ job'[w].sess = row[job[w].cur]
      /\ \A v \in Workers \ {w} : job'[v] = job[v]
  BY DEF IInv, TypeOK, Job, Reload
<1> QED BY <1>1, <1>2, RowsKeep, KeepBody DEF Loaded

LEMMA KeepRender == ASSUME IInv, Keeping, GoodStep, NEW w \in Workers, Render(w) PROVE KeepStep
<1> DEFINE r == row[job[w].cur]
<1>1. job[w].pc = "render" /\ UNCHANGED <<row, approval>>
  BY DEF Render, At, others
<1>2. job' = [job EXCEPT ![w].sess = r, ![w].pc = Sender(r), ![w].res = "STUB_SENT"]
  BY DEF Render
<1>3. /\ job'[w].cur = job[w].cur /\ job'[w].sess = r
      /\ \A v \in Workers \ {w} : job'[v] = job[v]
  BY <1>2 DEF IInv, TypeOK, Job
<1> QED BY <1>1, <1>3, RowsKeep, KeepBody DEF Sending

LEMMA KeepPost == ASSUME IInv, Keeping, GoodStep, NEW w \in Workers, Post(w) PROVE KeepStep
<1> DEFINE r == row[job[w].cur]
<1>1. job[w].pc = "post" /\ UNCHANGED <<row, approval>>
  BY DEF Post, At, others
<1>2. PICK res : job' = [job EXCEPT ![w].sess = r, ![w].pc = "finish", ![w].res = res]
  BY DEF Post
<1>3. /\ job'[w].cur = job[w].cur /\ job'[w].sess = r
      /\ \A v \in Workers \ {w} : job'[v] = job[v]
  BY <1>2 DEF IInv, TypeOK, Job
<1> QED BY <1>1, <1>3, RowsKeep, KeepBody DEF Sending

LEMMA KeepTelegram ==
    ASSUME IInv, Keeping, GoodStep, NEW w \in Workers, Telegram(w) PROVE KeepStep
<1>1. job[w].pc = "telegram" /\ UNCHANGED <<row, approval>>
  BY DEF Telegram, At, others
<1>2. /\ \/ job'[w].pc = "failing"
         \/ job'[w].cur = job[w].cur /\ job'[w].sess = job[w].sess
      /\ \A v \in Workers \ {w} : job'[v] = job[v]
  <2>1. CASE Raise(w)
    BY <2>1 DEF IInv, TypeOK, Raise, Idle
  <2>2. CASE Settle(w, "SENT")
    BY <2>2 DEF IInv, TypeOK, Job, Settle
  <2> QED BY <2>1, <2>2 DEF Telegram
<1> QED BY <1>1, <1>2, RowsKeep, KeepBody DEF Sending, Loaded

LEMMA KeepFault == ASSUME IInv, Keeping, GoodStep, NEW w \in Workers, Fault(w) PROVE KeepStep
<1>1. UNCHANGED <<row, approval>>
  BY DEF Fault, others
<1>2. job'[w].pc = "failing" /\ \A v \in Workers \ {w} : job'[v] = job[v]
  <2>1. CASE Raise(w)
    BY <2>1 DEF IInv, TypeOK, Raise, Idle
  <2>2. ASSUME NEW m, job' = [job EXCEPT ![w].pc = "failing", ![w].cur = m]
        PROVE  job'[w].pc = "failing" /\ \A v \in Workers \ {w} : job'[v] = job[v]
    BY <2>2 DEF IInv, TypeOK, Job
  <2> QED BY <2>1, <2>2 DEF Fault
<1> QED BY <1>1, <1>2, RowsKeep, KeepBody DEF Loaded

LEMMA KeepAttempt ==
    ASSUME IInv, Keeping, GoodStep, NEW w \in Workers, Attempt(w) PROVE KeepStep
<1>1. UNCHANGED <<row, approval>>
  BY DEF Attempt, others
<1>2. CASE UNCHANGED job
  BY <1>1, <1>2, KeepQuiet
<1>3. ASSUME NEW m, job' = [job EXCEPT ![w].pc = "load", ![w].cur = m] PROVE KeepStep
  <2>1. job'[w].pc = "load" /\ \A v \in Workers \ {w} : job'[v] = job[v]
    BY <1>3 DEF IInv, TypeOK, Job
  <2> QED BY <1>1, <2>1, RowsKeep, KeepBody DEF Loaded
<1> QED BY <1>2, <1>3 DEF Attempt

LEMMA KeepNext == IInv /\ Keeping /\ [Next]_vars => KeepStep
<1> SUFFICES ASSUME IInv, Keeping, [Next]_vars PROVE KeepStep
  OBVIOUS
<1>0. GoodStep
  BY InvNext
<1>1. CASE Environment
  <2>1. ASSUME NEW m \in Messages, NEW to \in Addresses, NEW channel \in Channels, QueueToOutbox(m, channel, to)
        PROVE  KeepStep
    BY <1>0, <2>1, KeepQueue
  <2>2. ASSUME NEW m \in Messages, NEW to \in Addresses, NEW channel \in Channels \cap Kinds,
               NEW own \in RequestAllowlists, NEW requires \in BOOLEAN,
               CreateOutboxMessage(m, channel, to, own, requires)
        PROVE  KeepStep
    BY <1>0, <2>2, KeepCreate
  <2>6. ASSUME NEW m \in Messages, NEW to \in Addresses, NEW channel \in Channels \cap Kinds,
               NEW own \in RequestAllowlists, StoreUnenforced(m, channel, to, own)
        PROVE  KeepStep
    BY <1>0, <2>6, KeepStore
  <2>3. ASSUME NEW allow \in TenantAllowlists, PutAllowlist(allow) PROVE KeepStep
    BY <1>0, <2>3, KeepQuiet DEF PutAllowlist, dispatcher
  <2>4. CASE BootstrapVerdict
    BY <1>0, <2>4, KeepQuiet DEF BootstrapVerdict, dispatcher
  <2>5. ASSUME NEW m \in Messages, Grant(m) PROVE KeepStep
    BY <1>0, <2>5, KeepQuiet DEF Grant, dispatcher
  <2> QED BY <1>0, <1>1, <2>1, <2>2, <2>3, <2>4, <2>5, <2>6, KeepApproveLoad, KeepApproveCommit,
             KeepApproverCrash DEF Environment
<1>2. ASSUME NEW w \in Workers, Pick(w) \/ Work(w) \/ Mishap(w) PROVE KeepStep
  <2>1. CASE Pick(w)
    BY <1>0, <2>1, KeepQuiet DEF Pick, others
  <2>2. CASE GateBlocked(w) \/ RescueFails(w) \/ Crash(w)
    BY <1>0, <2>2, RowsKeep, KeepLeave DEF GateBlocked, RescueFails, Crash, others
  <2> QED BY <1>0, <1>2, <2>1, <2>2, KeepAttempt, KeepLoad, KeepEnforce, KeepReload, KeepGateClaim,
             KeepRender, KeepPrepare, KeepPost, KeepTelegram, KeepFinish, KeepRescue,
             KeepEnforceSkipped, KeepFault DEF Work, Mishap
<1>3. CASE UNCHANGED vars
  BY <1>0, <1>3, KeepQuiet DEF vars
<1> QED BY <1>1, <1>2, <1>3 DEF Next

LEMMA AlwaysKeeping == Spec => [](IInv /\ Keeping)
<1>1. IInv /\ Keeping /\ [Next]_vars => IInv' /\ Keeping'
  BY InvNext, KeepNext DEF GoodStep, KeepStep
<1> QED BY InvInit, KeepInit, <1>1, PTL DEF Spec

\* While a message waits whose recipient its stored allowlist covers, no write of
\* the meta column, by the dispatcher or by another approver with an older copy,
\* takes its approval back (jarvis_tasks.py 256-262, tool_registry.py 92-112).
ApprovalLasts ==
    [][\A m \in Messages :
          Exists(m) /\ Waiting(m)' /\ row[m].meta.approved => row'[m].meta.approved]_vars

THEOREM ApprovalsLast == Spec => ApprovalLasts
<1>1. IInv /\ Keeping /\ [Next]_vars =>
        [\A m \in Messages :
            Exists(m) /\ Waiting(m)' /\ row[m].meta.approved => row'[m].meta.approved]_vars
  BY KeepNext DEF KeepStep, Keeps
<1> QED BY AlwaysKeeping, <1>1, PTL DEF Spec, ApprovalLasts

\* Whether a message's stored allowlist covers its recipient is settled when it is
\* created: enforcement at dispatch merges the tenant's newer list into the worker's
\* copy and stores the merged list only where it does not help (lines 249-262).
CoverageIsFixed ==
    [][\A m \in Messages : Exists(m) => (Covered(row'[m]) <=> Covered(row[m]))]_vars

THEOREM CoverageFixed == Spec => CoverageIsFixed
<1>1. IInv /\ Keeping /\ [Next]_vars =>
        [\A m \in Messages : Exists(m) => (Covered(row'[m]) <=> Covered(row[m]))]_vars
  BY KeepNext DEF KeepStep, Keeps
<1> QED BY AlwaysKeeping, <1>1, PTL DEF Spec, CoverageIsFixed
===============================================================================
