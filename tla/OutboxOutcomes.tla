---------------------------- MODULE OutboxOutcomes ----------------------------
(***************************************************************************)
(* What the dispatcher records of a message is true, proved for any number *)
(* of messages, workers and approvers.                                     *)
(*                                                                         *)
(* Several tasks may hold the same message, one of them posting it while   *)
(* another records an outcome.  A recorded "stub" or "dry run" stays true  *)
(* because whether a message can leave the system at all is settled by its *)
(* channel, its recipient and the settings (Open), which no task changes.  *)
(***************************************************************************)
EXTENDS OutboxDispatchProofs

Left(m) == \E w \in Workers : sends[m][w] > 0

\* A message the senders may let out of the system.
Open(m) ==
    \/ row[m].channel = "github_issue" /\ GithubLive
    \/ row[m].channel = "telegram" /\ TelegramLive /\ row[m].to \in EnvChats

RowTrue(m) ==
    /\ row[m].status = "SENT" \/ row[m].meta.external => Left(m)
    /\ row[m].status \in {"STUB_SENT", "DRY_RUN_SENT"} => ~Open(m)
    /\ Left(m) => Open(m)

JobTrue(w) ==
    LET j == job[w]  c == j.cur IN
    /\ j.pc \in Loaded => /\ j.sess.channel = row[c].channel
                          /\ j.sess.meta.external => Left(c)
    /\ j.pc \in {"prepare", "post"} => row[c].channel = "github_issue"
    /\ j.pc = "telegram" => row[c].channel = "telegram" /\ TelegramLive
    /\ j.pc = "finish" => /\ j.res = "SENT" => Left(c)
                          /\ j.res \in {"STUB_SENT", "DRY_RUN_SENT"} => ~Open(c)

ApprovalTrue(a) ==
    approval[a].msg # 0 /\ approval[a].meta.external => Left(approval[a].msg)

Truth ==
    /\ \A m \in Messages : RowTrue(m)
    /\ \A w \in Workers : JobTrue(w)
    /\ \A a \in Approvers : ApprovalTrue(a)

-------------------------------------------------------------------------------
\* What every step leaves alone

Steady(m) ==
    /\ Exists(m) => Exists(m)' /\ row'[m].channel = row[m].channel /\ row'[m].to = row[m].to
    /\ Left(m) => Left(m)'

LEMMA TruthInit == Init => Truth
<1> SUFFICES ASSUME Init PROVE Truth
  OBVIOUS
<1>1. \A m \in Messages : RowTrue(m)
  BY DEF Init, RowTrue, Left, NoRow, NewMeta
<1>2. \A w \in Workers : JobTrue(w)
  BY DEF Init, JobTrue, Idle, Loaded
<1>3. \A a \in Approvers : ApprovalTrue(a)
  BY DEF Init, ApprovalTrue
<1> QED BY <1>1, <1>2, <1>3 DEF Truth

LEMMA JobFrame ==
    ASSUME IInv, Truth, NEW w \in Workers, job'[w] = job[w], \A m \in Messages : Steady(m)
    PROVE  JobTrue(w)'
<1>1. CASE job[w].pc = "loop"
  BY <1>1 DEF JobTrue, Loaded
<1>2. CASE job[w].pc # "loop"
  <2>1. job[w].cur \in Messages /\ Exists(job[w].cur) /\ JobTrue(w)
    BY <1>2, InBody DEF Truth, Exists
  <2>2. Steady(job[w].cur)
    BY <2>1
  <2> QED BY <2>1, <2>2 DEF JobTrue, Steady, Open
<1> QED BY <1>1, <1>2

LEMMA ApprovalFrame ==
    ASSUME IInv, Truth, NEW a \in Approvers, approval'[a] = approval[a],
           \A m \in Messages : Steady(m)
    PROVE  ApprovalTrue(a)'
<1>1. ApprovalTrue(a) /\ approval[a].msg \in Messages \cup {0}
  BY DEF Truth, IInv, TypeOK
<1> QED BY <1>1 DEF ApprovalTrue, Steady

\* A row that stays, while more of it may have left as the settings allow.
LEMMA RowFrame ==
    ASSUME IInv, Truth, UNCHANGED row, NEW m \in Messages,
           sends'[m] = sends[m] \/ (Left(m)' /\ Open(m))
    PROVE  RowTrue(m)' /\ Steady(m)
<1>1. RowTrue(m)
  BY DEF Truth
<1>2. Left(m) => Left(m)'
  BY DEF Left
<1>3. Left(m)' => Left(m) \/ Open(m)
  BY DEF Left
<1>4. row'[m] = row[m]
  OBVIOUS
<1>5. RowTrue(m)'
  BY <1>1, <1>2, <1>3, <1>4 DEF RowTrue, Open
<1>6. Steady(m)
  BY <1>2, <1>4 DEF Steady, Exists
<1> QED BY <1>5, <1>6

\* A step that touches neither rows nor what was sent, nor the approvals.
LEMMA WorkerOnly ==
    ASSUME IInv, Truth, UNCHANGED <<row, sends, approval>>, NEW w \in Workers,
           \A v \in Workers \ {w} : job'[v] = job[v], JobTrue(w)'
    PROVE  Truth'
<1>1. \A m \in Messages : RowTrue(m)' /\ Steady(m)
  BY RowFrame
<1>2. \A v \in Workers : JobTrue(v)'
  BY <1>1, JobFrame
<1>3. \A a \in Approvers : ApprovalTrue(a)'
  BY <1>1, ApprovalFrame
<1> QED BY <1>1, <1>2, <1>3 DEF Truth

-------------------------------------------------------------------------------
\* The environment

LEMMA TrueWhenNew ==
    ASSUME IInv, Truth, NEW m \in Messages, ~Exists(m), NEW r, r.status = "QUEUED",
           ~r.meta.external, row' = [row EXCEPT ![m] = r], UNCHANGED <<sends, job, approval>>
    PROVE  Truth'
<1>1. row'[m] = r /\ \A n \in Messages \ {m} : row'[n] = row[n]
  BY DEF IInv, TypeOK
<1>2. ~Left(m)
  BY DEF IInv, TypeOK, SendSound, Left, Exists
<1>3. ASSUME NEW n \in Messages PROVE RowTrue(n)' /\ Steady(n)
  <2>1. CASE n = m
    BY <1>1, <1>2, <2>1 DEF RowTrue, Steady, Left
  <2>2. CASE n # m
    <3>1. RowTrue(n) /\ row'[n] = row[n]
      BY <1>1, <2>2 DEF Truth
    <3> QED BY <3>1 DEF RowTrue, Steady, Left, Open, Exists
  <2> QED BY <2>1, <2>2
<1>4. \A v \in Workers : JobTrue(v)'
  BY <1>3, JobFrame
<1>5. \A a \in Approvers : ApprovalTrue(a)'
  BY <1>3, ApprovalFrame
<1> QED BY <1>3, <1>4, <1>5 DEF Truth

LEMMA TruthCreate ==
    ASSUME IInv, Truth, NEW m \in Messages, NEW to \in Addresses,
           NEW channel \in Channels \cap Kinds, NEW own \in RequestAllowlists,
           NEW requires \in BOOLEAN, CreateOutboxMessage(m, channel, to, own, requires)
    PROVE  Truth'
<1> DEFINE p == Enforced([given |-> TRUE, requires |-> requires, allow |-> own], to)
           made == [NoRow EXCEPT !.status  = "QUEUED", !.channel = channel, !.to = to,
                                 !.payload = p]
<1>1. made.status = "QUEUED" /\ ~made.meta.external
  <2> HIDE DEF p
  <2> QED BY DEF NoRow, NewMeta
<1>2. row' = [row EXCEPT ![m] = made] /\ ~Exists(m) /\ UNCHANGED <<sends, job, approval>>
  BY DEF CreateOutboxMessage, NextNumber, dispatcher
<1> HIDE DEF made
<1> QED BY <1>1, <1>2, TrueWhenNew

LEMMA TruthStore ==
    ASSUME IInv, Truth, NEW m \in Messages, NEW to \in Addresses,
           NEW channel \in Channels \cap Kinds, NEW own \in RequestAllowlists,
           StoreUnenforced(m, channel, to, own)
    PROVE  Truth'
<1> DEFINE made == [NoRow EXCEPT !.status  = "QUEUED", !.channel = channel, !.to = to,
                                 !.payload = [given |-> TRUE, requires |-> FALSE, allow |-> own],
                                 !.enforced = FALSE]
<1>1. made.status = "QUEUED" /\ ~made.meta.external
  BY DEF NoRow, NewMeta
<1>2. row' = [row EXCEPT ![m] = made] /\ ~Exists(m) /\ UNCHANGED <<sends, job, approval>>
  BY DEF StoreUnenforced, NextNumber, dispatcher
<1> HIDE DEF made
<1> QED BY <1>1, <1>2, TrueWhenNew

LEMMA TruthQueue ==
    ASSUME IInv, Truth, NEW m \in Messages, NEW to \in Addresses, NEW channel \in Channels,
           QueueToOutbox(m, channel, to)
    PROVE  Truth'
<1> DEFINE made == [NoRow EXCEPT !.status = "QUEUED", !.channel = channel, !.to = to]
<1>1. made.status = "QUEUED" /\ ~made.meta.external
  BY DEF NoRow, NewMeta
<1>2. row' = [row EXCEPT ![m] = made] /\ ~Exists(m) /\ UNCHANGED <<sends, job, approval>>
  BY DEF QueueToOutbox, NextNumber, dispatcher
<1> HIDE DEF made
<1> QED BY <1>1, <1>2, TrueWhenNew

\* Steps that change only what is approved or being approved.
LEMMA ApprovalOnly ==
    ASSUME IInv, Truth, UNCHANGED <<row, sends, job>>, \A a \in Approvers : ApprovalTrue(a)'
    PROVE  Truth'
<1>1. \A m \in Messages : RowTrue(m)' /\ Steady(m)
  BY RowFrame
<1>2. \A v \in Workers : JobTrue(v)'
  BY <1>1, JobFrame
<1> QED BY <1>1, <1>2 DEF Truth

LEMMA TruthQuiet ==
    ASSUME IInv, Truth, UNCHANGED <<row, sends, job, approval>> PROVE Truth'
BY ApprovalOnly DEF Truth, ApprovalTrue, Left

LEMMA TruthApproveLoad ==
    ASSUME IInv, Truth, NEW a \in Approvers, NEW m \in Messages, ApproveLoad(a, m) PROVE Truth'
<1>1. UNCHANGED <<row, sends, job>>
  BY DEF ApproveLoad, dispatcher
<1>2. approval' = [approval EXCEPT ![a] = [msg |-> m, meta |-> row[m].meta]]
  BY DEF ApproveLoad
<1>3. ASSUME NEW b \in Approvers PROVE ApprovalTrue(b)'
  <2>1. ApprovalTrue(b) /\ RowTrue(m)
    BY DEF Truth
  <2> QED BY <1>1, <1>2, <2>1 DEF IInv, TypeOK, ApprovalTrue, RowTrue, Left
<1> QED BY <1>1, <1>3, ApprovalOnly

LEMMA TruthApproverCrash ==
    ASSUME IInv, Truth, NEW a \in Approvers, ApproverCrash(a) PROVE Truth'
<1>1. UNCHANGED <<row, sends, job>> /\ approval' = [approval EXCEPT ![a] = NoApproval]
  BY DEF ApproverCrash
<1>2. ASSUME NEW b \in Approvers PROVE ApprovalTrue(b)'
  <2>1. ApprovalTrue(b)
    BY DEF Truth
  <2> QED BY <1>1, <2>1 DEF IInv, TypeOK, ApprovalTrue, Left, NoApproval
<1> QED BY <1>1, <1>2, ApprovalOnly

\* The approved flag goes in with an old copy of meta, whose reference is true.
LEMMA TruthApproveCommit ==
    ASSUME IInv, Truth, NEW a \in Approvers, ApproveCommit(a) PROVE Truth'
<1> DEFINE m == approval[a].msg
           loaded == approval[a].meta
           new == Written(row[m].meta, loaded, [loaded EXCEPT !.approved = TRUE])
<1>1. m \in Messages /\ row[m] \in Row /\ loaded \in Meta /\ Exists(m)
  BY DEF IInv, TypeOK, GrantSound, ApproveCommit
<1>2. UNCHANGED <<sends, job>> /\ approval' = [approval EXCEPT ![a] = NoApproval]
  BY DEF ApproveCommit, dispatcher
<1>3. new.external = row[m].meta.external \/ new.external = loaded.external
  BY <1>1 DEF Written, Meta
<1>4. row' = [row EXCEPT ![m].meta = new]
  BY DEF ApproveCommit
<1> HIDE DEF new
<1>5. /\ row'[m].meta = new /\ row'[m].status = row[m].status
      /\ row'[m].channel = row[m].channel /\ row'[m].to = row[m].to
      /\ \A n \in Messages \ {m} : row'[n] = row[n]
  BY <1>1, <1>4 DEF IInv, TypeOK, Row
<1>6. loaded.external => Left(m)
  BY <1>1 DEF Truth, ApprovalTrue, IInv, TypeOK, ApproveCommit
<1>7. ASSUME NEW n \in Messages PROVE RowTrue(n)' /\ Steady(n)
  <2>1. RowTrue(n) /\ sends'[n] = sends[n]
    BY <1>2 DEF Truth
  <2>2. CASE n = m
    BY <1>3, <1>5, <1>6, <2>1, <2>2 DEF RowTrue, Steady, Left, Open, Exists
  <2>3. CASE n # m
    BY <1>5, <2>1, <2>3 DEF RowTrue, Steady, Left, Open, Exists
  <2> QED BY <2>2, <2>3
<1>8. \A v \in Workers : JobTrue(v)'
  BY <1>2, <1>7, JobFrame
<1>9. ASSUME NEW b \in Approvers PROVE ApprovalTrue(b)'
  <2>1. CASE b = a
    BY <1>2, <2>1 DEF IInv, TypeOK, ApprovalTrue, NoApproval
  <2>2. CASE b # a
    BY <1>2, <1>7, <2>2, ApprovalFrame DEF IInv, TypeOK
  <2> QED BY <2>1, <2>2
<1> QED BY <1>7, <1>8, <1>9 DEF Truth

-------------------------------------------------------------------------------
\* Steps of a worker that write no row and send nothing

LEMMA NoClaim ==
    ASSUME IInv, Truth, UNCHANGED <<row, sends, approval>>, NEW w \in Workers,
           \A v \in Workers \ {w} : job'[v] = job[v],
           job'[w].pc \in {"loop", "load", "failing"}
    PROVE  Truth'
<1>1. JobTrue(w)'
  BY DEF JobTrue, Loaded
<1> QED BY <1>1, WorkerOnly

LEMMA TruthPick == ASSUME IInv, Truth, NEW w \in Workers, Pick(w) PROVE Truth'
BY TruthQuiet DEF Pick, others

LEMMA TruthAttempt == ASSUME IInv, Truth, NEW w \in Workers, Attempt(w) PROVE Truth'
<1>1. UNCHANGED <<row, sends, approval>> /\ job[w].pc = "loop"
  BY DEF Attempt, others, IsNext, At
<1>2. UNCHANGED job \/ \E m \in batch[w] : job' = [job EXCEPT ![w].pc = "load", ![w].cur = m]
  BY DEF Attempt
<1>3. CASE UNCHANGED job
  BY <1>1, <1>3, TruthQuiet
<1>4. CASE \E m \in batch[w] : job' = [job EXCEPT ![w].pc = "load", ![w].cur = m]
  <2>1. job'[w].pc = "load" /\ \A v \in Workers \ {w} : job'[v] = job[v]
    BY <1>4 DEF IInv, TypeOK, Job
  <2> QED BY <1>1, <2>1, NoClaim
<1> QED BY <1>2, <1>3, <1>4

\* Raising, and leaving the loop body.
LEMMA TruthRaise ==
    ASSUME IInv, Truth, NEW w \in Workers, UNCHANGED <<row, sends, approval>>,
           Raise(w) \/ Leave(w)
    PROVE  Truth'
<1>1. /\ job'[w].pc \in {"loop", "failing"}
      /\ \A v \in Workers \ {w} : job'[v] = job[v]
  <2>1. CASE Raise(w)
    <3>1. [Idle EXCEPT !.pc = "failing", !.cur = job[w].cur].pc = "failing"
      BY DEF Idle
    <3> QED BY <2>1, <3>1 DEF IInv, TypeOK, Raise
  <2>2. CASE Leave(w)
    BY <2>2 DEF IInv, TypeOK, Leave, Idle
  <2> QED BY <2>1, <2>2
<1> QED BY <1>1, NoClaim

\* The row is read again.
LEMMA TruthRead ==
    ASSUME IInv, Truth, NEW w \in Workers, job[w].pc # "loop",
           UNCHANGED <<row, sends, approval>>,
           NEW pc \in {"enforce", "gate", "finish", "prepare", "telegram"}, NEW res,
           job' = [job EXCEPT ![w].pc = pc, ![w].sess = row[job[w].cur], ![w].res = res],
           pc = "prepare" => row[job[w].cur].channel = "github_issue",
           pc = "telegram" => row[job[w].cur].channel = "telegram" /\ TelegramLive,
           pc = "finish" => res = "STUB_SENT" /\ ~Open(job[w].cur)
    PROVE  Truth'
<1> DEFINE c == job[w].cur
<1>1. /\ job'[w].pc = pc /\ job'[w].cur = c /\ job'[w].sess = row[c] /\ job'[w].res = res
      /\ \A v \in Workers \ {w} : job'[v] = job[v]
  BY DEF IInv, TypeOK, Job
<1>2. c \in Messages /\ RowTrue(c)
  BY InBody DEF Truth
<1>3. JobTrue(w)'
  BY <1>1, <1>2 DEF JobTrue, RowTrue, Left, Open
<1> QED BY <1>1, <1>3, WorkerOnly

LEMMA TruthLoad == ASSUME IInv, Truth, NEW w \in Workers, Load(w) PROVE Truth'
<1> DEFINE r == row[job[w].cur]
<1>1. job[w].pc = "load" /\ UNCHANGED <<row, sends, approval>>
  BY DEF Load, At, others
<1>2. CASE Raise(w)
  BY <1>1, <1>2, TruthRaise
<1>3. CASE /\ ~r.payload.given /\ r.channel \notin Kinds
           /\ job' = [job EXCEPT ![w].pc = "finish", ![w].sess = r, ![w].res = "STUB_SENT"]
  <2>1. ~Open(job[w].cur)
    BY <1>3 DEF Open, Kinds
  <2> QED BY <1>1, <1>3, <2>1, TruthRead
<1>4. CASE job' = [job EXCEPT ![w].pc = "enforce", ![w].sess = r]
  <2>1. job' = [job EXCEPT ![w].pc = "enforce", ![w].sess = r, ![w].res = job[w].res]
    BY <1>4 DEF IInv, TypeOK, Job
  <2> QED BY <1>1, <2>1, TruthRead
<1> QED BY <1>2, <1>3, <1>4 DEF Load

LEMMA TruthEnforceSkipped ==
    ASSUME IInv, Truth, NEW w \in Workers, EnforceSkipped(w) PROVE Truth'
<1> DEFINE need == Normalised(job[w].sess).requires
<1>1. job[w].pc = "enforce" /\ UNCHANGED <<row, sends, approval>>
  BY DEF EnforceSkipped, At, others
<1>2. job' = [job EXCEPT ![w].need = need, ![w].pc = "gate"]
  BY DEF EnforceSkipped
<1> HIDE DEF need
<1>3. /\ job'[w].pc = "gate" /\ job'[w].cur = job[w].cur /\ job'[w].sess = job[w].sess
      /\ \A v \in Workers \ {w} : job'[v] = job[v]
  BY <1>2 DEF IInv, TypeOK, Job
<1>4. JobTrue(w)'
  BY <1>1, <1>3 DEF Truth, JobTrue, Loaded, Left
<1> QED BY <1>1, <1>3, <1>4, WorkerOnly

LEMMA TruthReload == ASSUME IInv, Truth, NEW w \in Workers, Reload(w) PROVE Truth'
<1>1. job[w].pc = "reload" /\ UNCHANGED <<row, sends, approval>>
  BY DEF Reload, At, others
<1>2. job' = [job EXCEPT ![w].pc = "gate", ![w].sess = row[job[w].cur], ![w].res = job[w].res]
  BY DEF IInv, TypeOK, Job, Reload
<1> QED BY <1>1, <1>2, TruthRead

\* The sender the preview's row chooses: whoever skips the senders cannot send.
LEMMA TruthRender == ASSUME IInv, Truth, NEW w \in Workers, Render(w) PROVE Truth'
<1> DEFINE r == row[job[w].cur]
           pc == Sender(r)
<1>1. job[w].pc = "render" /\ UNCHANGED <<row, sends, approval>>
  BY DEF Render, At, others
<1>2. /\ pc \in {"prepare", "telegram", "finish"}
      /\ pc = "prepare" => r.channel = "github_issue"
      /\ pc = "telegram" => r.channel = "telegram" /\ TelegramLive
      /\ pc = "finish" => ~Open(job[w].cur)
  BY DEF Sender, Open
<1>3. job' = [job EXCEPT ![w].pc = pc, ![w].sess = r, ![w].res = "STUB_SENT"]
  BY DEF IInv, TypeOK, Job, Render
<1> HIDE DEF pc
<1> QED BY <1>1, <1>2, <1>3, TruthRead

-------------------------------------------------------------------------------
\* Steps of a worker that commit

\* What a commit of worker w makes of its row.
LEMMA CommitShape ==
    ASSUME TypeOK, NEW w \in Workers, job[w].pc # "loop", NEW new \in Row, Commit(w, new)
    PROVE  LET c == job[w].cur IN
           /\ row'[c].channel = row[c].channel /\ row'[c].to = row[c].to
           /\ row'[c].status = Written(row[c].status, job[w].sess.status, new.status)
           /\ row'[c].payload = Written(row[c].payload, job[w].sess.payload, new.payload)
           /\ row'[c].meta = Written(row[c].meta, job[w].sess.meta, new.meta)
           /\ \A m \in Messages \ {c} : row'[m] = row[m]
<1> DEFINE c == job[w].cur
           st == Written(row[c].status, job[w].sess.status, new.status)
           pl == Written(row[c].payload, job[w].sess.payload, new.payload)
           mt == Written(row[c].meta, job[w].sess.meta, new.meta)
           t == [row[c] EXCEPT !.status = st, !.payload = pl, !.meta = mt]
<1>1. row' = [row EXCEPT ![c] = t]
  BY DEF Commit, Flush
<1>2. c \in Messages /\ row[c] \in Row
  BY DEF TypeOK
<1> HIDE DEF st, pl, mt
<1>3. /\ t.channel = row[c].channel /\ t.to = row[c].to
      /\ t.status = st /\ t.payload = pl /\ t.meta = mt
  BY <1>2 DEF Row
<1>4. row'[c] = t /\ \A m \in Messages \ {c} : row'[m] = row[m]
  BY <1>1, <1>2 DEF TypeOK
<1> HIDE DEF t
<1> QED BY <1>3, <1>4 DEF st, pl, mt

\* A commit whose news is true.
LEMMA CommitTrue ==
    ASSUME IInv, Truth, NEW w \in Workers, job[w].pc \in Loaded, NEW new \in Row,
           Commit(w, new), UNCHANGED <<sends, approval>>,
           \A v \in Workers \ {w} : job'[v] = job[v],
           new.meta.external => job[w].sess.meta.external \/ Left(job[w].cur),
           new.status # job[w].sess.status =>
              /\ new.status = "SENT" => Left(job[w].cur)
              /\ new.status \in {"STUB_SENT", "DRY_RUN_SENT"} => ~Open(job[w].cur),
           new.status # "NONE",
           job'[w].pc \in {"loop", "reload", "gate", "render", "post"},
           job'[w].pc # "loop" => job'[w].cur = job[w].cur /\ job'[w].sess = job[w].sess,
           job'[w].pc = "post" => job[w].pc = "prepare"
    PROVE  Truth'
<1>0. PICK c : c = job[w].cur
  OBVIOUS
<1>1. /\ job[w].pc # "loop" /\ c \in Messages /\ Exists(c) /\ JobTrue(w)
      /\ job[w].sess.channel = row[c].channel
      /\ job[w].sess.meta.external => Left(c)
  <2>1. job[w].pc # "loop" /\ JobTrue(w)
    BY DEF Loaded, Truth
  <2> QED BY <1>0, <2>1, InBody DEF JobTrue, Exists
<1>2. /\ row'[c].channel = row[c].channel /\ row'[c].to = row[c].to
      /\ row'[c].status = Written(row[c].status, job[w].sess.status, new.status)
      /\ row'[c].meta = Written(row[c].meta, job[w].sess.meta, new.meta)
      /\ \A m \in Messages \ {c} : row'[m] = row[m]
  BY <1>0, <1>1, CommitShape DEF IInv
<1>3. ASSUME NEW m \in Messages PROVE RowTrue(m)' /\ Steady(m)
  <2>1. RowTrue(m) /\ sends'[m] = sends[m]
    BY DEF Truth
  <2>2. CASE m = c
    <3>1. (Left(c)' <=> Left(c)) /\ (Open(c)' <=> Open(c))
      BY <1>2, <2>1, <2>2 DEF Left, Open
    <3>2. row'[c].meta.external => Left(c)
      <4>1. row[c].meta.external => Left(c)
        BY <2>1, <2>2 DEF RowTrue
      <4>2. new.meta.external => Left(c)
        BY <1>0, <1>1, Zenon
      <4>3. row'[c].meta = row[c].meta \/ row'[c].meta = new.meta
        BY <1>2 DEF Written
      <4> QED BY <4>1, <4>2, <4>3, Zenon
    <3>3. row'[c].status # "NONE" /\ (row'[c].status = "SENT" => Left(c))
          /\ (row'[c].status \in {"STUB_SENT", "DRY_RUN_SENT"} => ~Open(c))
      BY <1>0, <1>1, <1>2, <2>1, <2>2 DEF RowTrue, Written, Exists
    <3>4. RowTrue(c)'
      BY <2>1, <2>2, <3>1, <3>2, <3>3 DEF RowTrue
    <3>5. Steady(c)
      BY <1>2, <3>1, <3>3 DEF Steady, Exists
    <3> QED BY <2>2, <3>4, <3>5
  <2>3. CASE m # c
    BY <1>2, <2>1, <2>3 DEF RowTrue, Steady, Left, Open, Exists
  <2> QED BY <2>2, <2>3
<1>4. JobTrue(w)'
  <2>1. Steady(c)
    BY <1>1, <1>3
  <2> QED BY <1>0, <1>1, <1>2, <2>1 DEF JobTrue, Loaded, Steady
<1>5. \A v \in Workers : JobTrue(v)'
  BY <1>3, <1>4, JobFrame
<1>6. \A a \in Approvers : ApprovalTrue(a)'
  BY <1>3, ApprovalFrame
<1> QED BY <1>3, <1>5, <1>6 DEF Truth

LEMMA TruthEnforce == ASSUME IInv, Truth, NEW w \in Workers, Enforce(w) PROVE Truth'
<1> DEFINE s == job[w].sess
           p == Enforced(Normalised(s), s.to)
           upgraded == s.to \notin p.allow
           new == [s EXCEPT !.payload = [p EXCEPT !.given = TRUE], !.meta.flagged = TRUE]
           next == IF upgraded THEN "reload" ELSE "gate"
<1>1. job[w].pc = "enforce" /\ UNCHANGED <<sends, approval>>
  BY DEF Enforce, At, others
<1>2. s \in Row /\ SoundRow(s)
  BY <1>1, InBody DEF JobSound, Loaded, CopyOf, Job
<1>3. job' = [job EXCEPT ![w].need = p.requires, ![w].pc = next]
  BY DEF Enforce, Upgraded
<1>4. /\ job'[w].pc \in {"reload", "gate"} /\ job'[w].cur = job[w].cur /\ job'[w].sess = s
      /\ \A v \in Workers \ {w} : job'[v] = job[v]
  <2>1. next \in {"reload", "gate"}
    OBVIOUS
  <2> HIDE DEF p, next
  <2> QED BY <1>3, <2>1 DEF IInv, TypeOK, Job
<1>5. CASE upgraded
  <2>1. p \in Payload
    <3>1. s.payload.given
      BY <1>2, <1>5, SameRequirement
    <3>2. Normalised(s) \in Payload
      BY <1>2, <3>1, NormalisedType
    <3> QED BY <1>2, <3>2, EnforcedType DEF IInv, TypeOK
  <2>2. Commit(w, new)
    BY <1>5 DEF Enforce, Upgraded, p
  <2> HIDE DEF p
  <2>3. /\ new \in Row /\ new.status = s.status /\ new.status # "NONE"
        /\ new.meta.external = s.meta.external
    <3>1. s.status # "NONE"
      BY <1>1, InBody DEF JobSound, Loaded, CopyOf
    <3> QED BY <1>2, <2>1, <3>1 DEF Row, Payload, Meta
  <2> HIDE DEF new
  <2> QED BY <1>1, <1>4, <2>2, <2>3, CommitTrue DEF Loaded
<1>6. CASE ~upgraded
  <2>1. UNCHANGED row
    BY <1>6 DEF Enforce, Upgraded
  <2>2. JobTrue(w)'
    BY <1>1, <1>4, <2>1 DEF Truth, JobTrue, Loaded, Left
  <2> QED BY <1>1, <1>4, <2>1, <2>2, WorkerOnly
<1> QED BY <1>5, <1>6

LEMMA TruthGateBlocked ==
    ASSUME IInv, Truth, NEW w \in Workers, GateBlocked(w) PROVE Truth'
BY TruthRaise DEF GateBlocked, others

LEMMA TruthGateClaim == ASSUME IInv, Truth, NEW w \in Workers, GateClaim(w) PROVE Truth'
<1> DEFINE s == job[w].sess
           new == [s EXCEPT !.status = "SENDING"]
<1>1. job[w].pc = "gate" /\ UNCHANGED <<sends, approval>> /\ Commit(w, new)
  BY DEF GateClaim, At, others
<1>2. s \in Row
  BY <1>1, InBody DEF Job
<1>3. new \in Row /\ new.status = "SENDING" /\ new.meta = s.meta
  BY <1>2 DEF Row, Statuses
<1>4. /\ job'[w].pc = "render" /\ job'[w].cur = job[w].cur /\ job'[w].sess = s
      /\ \A v \in Workers \ {w} : job'[v] = job[v]
  BY DEF IInv, TypeOK, Job, GateClaim, Goto
<1> HIDE DEF new
<1> QED BY <1>1, <1>3, <1>4, CommitTrue DEF Loaded

LEMMA TruthPrepare == ASSUME IInv, Truth, NEW w \in Workers, Prepare(w) PROVE Truth'
<1> DEFINE s == job[w].sess
           new == [s EXCEPT !.meta.preview = TRUE]
<1>1. job[w].pc = "prepare" /\ UNCHANGED <<sends, approval>> /\ Commit(w, new)
  BY DEF Prepare, At, others
<1>2. s \in Row /\ s.status # "NONE"
  BY <1>1, InBody DEF Job, JobSound, Loaded, CopyOf
<1>3. new \in Row /\ new.status = s.status /\ new.meta.external = s.meta.external
  BY <1>2 DEF Row, Meta
<1>4. /\ job'[w].pc = "post" /\ job'[w].cur = job[w].cur /\ job'[w].sess = s
      /\ \A v \in Workers \ {w} : job'[v] = job[v]
  BY DEF IInv, TypeOK, Job, Prepare, Goto
<1> HIDE DEF new
<1> QED BY <1>1, <1>2, <1>3, <1>4, CommitTrue DEF Loaded

LEMMA TruthFinish == ASSUME IInv, Truth, NEW w \in Workers, Finish(w) PROVE Truth'
<1> DEFINE s == job[w].sess
           new == Outcome(job[w])
<1>1. /\ job[w].pc = "finish" /\ UNCHANGED <<sends, approval>>
      /\ Commit(w, new) /\ Leave(w)
  BY DEF Finish, At, others
<1>2. job[w] \in Job /\ s \in Row /\ JobTrue(w)
  BY <1>1, InBody DEF Truth, Job
<1>3. /\ new \in Row /\ new.status = job[w].res /\ new.status \in Results
      /\ new.meta.external => s.meta.external \/ job[w].res = "SENT"
  <2>1. new \in Row /\ new.status = job[w].res /\ new.status \in Results
    BY <1>2, OutcomeType
  <2>2. new.meta.external => s.meta.external \/ job[w].res = "SENT"
    <3>1. CASE s.channel = "github_issue" /\ job[w].res # "SENT"
      BY <1>2, <3>1 DEF Row, Meta, Outcome
    <3>2. CASE s.channel # "github_issue"
      BY <1>2, <3>2 DEF Row, Meta, Outcome
    <3> QED BY <3>1, <3>2
  <2> QED BY <2>1, <2>2
<1>4. job'[w].pc = "loop" /\ \A v \in Workers \ {w} : job'[v] = job[v]
  BY <1>1 DEF IInv, TypeOK, Leave, Idle
<1>5. /\ job[w].res = "SENT" => Left(job[w].cur)
      /\ job[w].res \in {"STUB_SENT", "DRY_RUN_SENT"} => ~Open(job[w].cur)
  BY <1>1, <1>2 DEF JobTrue
<1> HIDE DEF new
<1>6. new.meta.external => s.meta.external \/ Left(job[w].cur)
  BY <1>3, <1>5, Zenon
<1> QED BY <1>1, <1>3, <1>4, <1>5, <1>6, CommitTrue DEF Loaded, Results

\* Failing a row records no outcome that could be false.
LEMMA TruthRescue == ASSUME IInv, Truth, NEW w \in Workers, Rescue(w) PROVE Truth'
<1>0. PICK c : c = job[w].cur
  OBVIOUS
<1>1. /\ job[w].pc = "failing" /\ UNCHANGED <<sends, approval>> /\ Leave(w)
      /\ row' = [row EXCEPT ![c] = Recovered(@)]
  BY <1>0 DEF Rescue, At, others
<1>2. c \in Messages /\ row[c] \in Row /\ Exists(c)
  BY <1>0, <1>1, InBody DEF Exists
<1>3. /\ row'[c].status = "FAILED" /\ row'[c].meta = row[c].meta
      /\ row'[c].channel = row[c].channel /\ row'[c].to = row[c].to
      /\ \A m \in Messages \ {c} : row'[m] = row[m]
  BY <1>1, <1>2 DEF IInv, TypeOK, Recovered, Row
<1>4. ASSUME NEW m \in Messages PROVE RowTrue(m)' /\ Steady(m)
  <2>1. RowTrue(m) /\ sends'[m] = sends[m]
    BY <1>1 DEF Truth
  <2>2. CASE m = c
    BY <1>3, <2>1, <2>2 DEF RowTrue, Steady, Left, Open, Exists
  <2>3. CASE m # c
    BY <1>3, <2>1, <2>3 DEF RowTrue, Steady, Left, Open, Exists
  <2> QED BY <2>2, <2>3
<1>5. job'[w].pc = "loop" /\ \A v \in Workers \ {w} : job'[v] = job[v]
  BY <1>1 DEF IInv, TypeOK, Leave, Idle
<1>6. \A v \in Workers : JobTrue(v)'
  <2>1. JobTrue(w)'
    BY <1>5 DEF JobTrue, Loaded
  <2> QED BY <1>4, <1>5, <2>1, JobFrame
<1>7. \A a \in Approvers : ApprovalTrue(a)'
  BY <1>1, <1>4, ApprovalFrame
<1> QED BY <1>4, <1>6, <1>7 DEF Truth

LEMMA TruthMishap ==
    ASSUME IInv, Truth, NEW w \in Workers, Fault(w) \/ RescueFails(w) \/ Crash(w)
    PROVE  Truth'
<1>1. UNCHANGED <<row, sends, approval>>
  BY DEF Fault, RescueFails, Crash, others
<1>2. CASE Raise(w) \/ Leave(w)
  BY <1>1, <1>2, TruthRaise
<1>3. CASE \E m \in batch[w] : job' = [job EXCEPT ![w].pc = "failing", ![w].cur = m]
  <2>1. job'[w].pc = "failing" /\ \A v \in Workers \ {w} : job'[v] = job[v]
    BY <1>3 DEF IInv, TypeOK, Job
  <2> QED BY <1>1, <2>1, NoClaim
<1> QED BY <1>2, <1>3 DEF Fault, RescueFails, Crash

-------------------------------------------------------------------------------
\* The senders

\* A sender ends its attempt: what left is open, and SENT is only said of what left.
LEMMA SenderStep ==
    ASSUME IInv, Truth, NEW w \in Workers, job[w].pc \in Loaded, NEW c, c = job[w].cur,
           UNCHANGED <<row, approval>>,
           sends' = sends \/ (Open(c) /\ sends' = [sends EXCEPT ![c][w] = @ + 1]),
           \A v \in Workers \ {w} : job'[v] = job[v],
           job'[w].pc \in {"finish", "failing"}, job'[w].cur = c,
           job'[w].pc = "finish" =>
              /\ job'[w].sess \in {row[c], job[w].sess}
              /\ job'[w].res = "SENT" =>
                    row[c].meta.external \/ sends' = [sends EXCEPT ![c][w] = @ + 1]
              /\ job'[w].res \in {"STUB_SENT", "DRY_RUN_SENT"} => ~Open(c)
    PROVE  Truth'
<1>1. /\ c \in Messages /\ RowTrue(c) /\ JobTrue(w)
      /\ job[w].sess.channel = row[c].channel
      /\ job[w].sess.meta.external => Left(c)
  <2>1. job[w].pc # "loop" /\ JobTrue(w)
    BY DEF Loaded, Truth
  <2> QED BY <2>1, InBody DEF JobTrue, Truth
<1>2. sends' = [sends EXCEPT ![c][w] = @ + 1] => Left(c)'
  <2>1. sends[c][w] \in Nat /\ sends \in [Messages -> [Workers -> Nat]]
    BY <1>1 DEF IInv, TypeOK
  <2> QED BY <1>1, <2>1 DEF Left
<1>3. Left(c) => Left(c)'
  <2>1. CASE sends' = sends
    BY <2>1 DEF Left
  <2> QED BY <1>2, <2>1
<1>4. ASSUME NEW m \in Messages PROVE RowTrue(m)' /\ Steady(m)
  <2>1. CASE m = c
    BY <1>2, <2>1, RowFrame
  <2>2. CASE m # c
    <3>1. sends'[m] = sends[m]
      BY <2>2 DEF IInv, TypeOK
    <3> QED BY <3>1, RowFrame
  <2> QED BY <2>1, <2>2
<1>5. JobTrue(w)'
  <2>1. row[c].meta.external => Left(c)
    BY <1>1 DEF RowTrue
  <2>2. Open(c)' <=> Open(c)
    BY DEF Open
  <2>3. job'[w].pc = "finish" => job'[w].sess.channel = row[c].channel
                                 /\ (job'[w].sess.meta.external => Left(c)')
    BY <1>1, <1>3, <2>1
  <2>4. job'[w].pc = "finish" /\ job'[w].res = "SENT" => Left(c)'
    BY <1>2, <1>3, <2>1
  <2> QED BY <2>2, <2>3, <2>4 DEF JobTrue, Loaded
<1>6. \A v \in Workers : JobTrue(v)'
  BY <1>4, <1>5, JobFrame
<1>7. \A a \in Approvers : ApprovalTrue(a)'
  BY <1>4, ApprovalFrame
<1> QED BY <1>4, <1>6, <1>7 DEF Truth

LEMMA TruthPost == ASSUME IInv, Truth, NEW w \in Workers, Post(w) PROVE Truth'
<1>0. PICK c : c = job[w].cur
  OBVIOUS
<1>1. /\ job[w].pc = "post" /\ UNCHANGED <<row, approval>>
      /\ row[c].channel = "github_issue"
  BY <1>0 DEF Post, At, others, Truth, JobTrue
<1>2. PICK res \in Results :
        /\ job' = [job EXCEPT ![w].sess = row[c], ![w].pc = "finish", ![w].res = res]
        /\ \/ res = "SENT" /\ row[c].meta.external /\ UNCHANGED sends
           \/ res = "DRY_RUN_SENT" /\ ~GithubLive /\ UNCHANGED sends
           \/ /\ GithubLive /\ res \in {"SENT", "FAILED"}
              /\ sends' = sends \/ sends' = [sends EXCEPT ![c][w] = @ + 1]
              /\ res = "SENT" => sends' = [sends EXCEPT ![c][w] = @ + 1]
  BY <1>0 DEF Post, Transmit, Reported, Results
<1>3. /\ job'[w].pc = "finish" /\ job'[w].cur = c /\ job'[w].sess = row[c]
      /\ job'[w].res = res /\ \A v \in Workers \ {w} : job'[v] = job[v]
  BY <1>0, <1>2 DEF IInv, TypeOK, Job
<1>4. Open(c) <=> GithubLive
  BY <1>1 DEF Open
<1>5. sends' = sends \/ (Open(c) /\ sends' = [sends EXCEPT ![c][w] = @ + 1])
  BY <1>2, <1>4
<1>6. /\ res = "SENT" => row[c].meta.external \/ sends' = [sends EXCEPT ![c][w] = @ + 1]
      /\ res \in {"STUB_SENT", "DRY_RUN_SENT"} => ~Open(c)
  BY <1>2, <1>4
<1> QED BY <1>0, <1>1, <1>3, <1>5, <1>6, SenderStep DEF Loaded

LEMMA TruthTelegram == ASSUME IInv, Truth, NEW w \in Workers, Telegram(w) PROVE Truth'
<1>0. PICK c : c = job[w].cur
  OBVIOUS
<1>1. /\ job[w].pc = "telegram" /\ UNCHANGED <<row, approval>>
      /\ row[c].channel = "telegram" /\ TelegramLive
  BY <1>0 DEF Telegram, At, others, Truth, JobTrue
<1>2. job[w].sess.to = row[c].to
  BY <1>0, <1>1, InBody DEF JobSound, Loaded, CopyOf
<1>3. CASE job[w].sess.to \notin EnvChats
  BY <1>1, <1>3, TruthRaise DEF Telegram
<1>4. CASE job[w].sess.to \in EnvChats
  <2>1. Open(c)
    BY <1>1, <1>2, <1>4 DEF Open
  <2>2. PICK got, ok \in BOOLEAN :
          /\ ok => got
          /\ sends' = IF got THEN [sends EXCEPT ![c][w] = @ + 1] ELSE sends
          /\ IF ok THEN Settle(w, "SENT") ELSE Raise(w)
    BY <1>0, <1>4 DEF Telegram, Transmit
  <2>3. CASE ok
    <3>1. /\ job'[w].pc = "finish" /\ job'[w].cur = c /\ job'[w].sess = job[w].sess
          /\ job'[w].res = "SENT" /\ \A v \in Workers \ {w} : job'[v] = job[v]
      BY <1>0, <2>2, <2>3 DEF IInv, TypeOK, Job, Settle
    <3> QED BY <1>0, <1>1, <2>1, <2>2, <2>3, <3>1, SenderStep DEF Loaded
  <2>4. CASE ~ok
    <3>1. [Idle EXCEPT !.pc = "failing", !.cur = c].pc = "failing"
          /\ [Idle EXCEPT !.pc = "failing", !.cur = c].cur = c
      BY DEF Idle
    <3>2. job' = [job EXCEPT ![w] = [Idle EXCEPT !.pc = "failing", !.cur = c]]
      BY <1>0, <2>2, <2>4 DEF Raise
    <3>3. /\ job'[w].pc = "failing" /\ job'[w].cur = c
          /\ \A v \in Workers \ {w} : job'[v] = job[v]
      BY <3>1, <3>2 DEF IInv, TypeOK
    <3> QED BY <1>0, <1>1, <2>1, <2>2, <3>3, SenderStep DEF Loaded
  <2> QED BY <2>3, <2>4
<1> QED BY <1>3, <1>4

-------------------------------------------------------------------------------
\* The theorem

LEMMA TruthNext == IInv /\ Truth /\ [Next]_vars => Truth'
<1> SUFFICES ASSUME IInv, Truth, [Next]_vars PROVE Truth'
  OBVIOUS
<1>1. CASE Environment
  <2>1. ASSUME NEW allow \in TenantAllowlists, PutAllowlist(allow) PROVE Truth'
    BY <2>1, TruthQuiet DEF PutAllowlist, dispatcher
  <2>2. CASE BootstrapVerdict
    BY <2>2, TruthQuiet DEF BootstrapVerdict, dispatcher
  <2>3. ASSUME NEW m \in Messages, Grant(m) PROVE Truth'
    BY <2>3, TruthQuiet DEF Grant, dispatcher
  <2> QED BY <1>1, <2>1, <2>2, <2>3, TruthCreate, TruthStore, TruthQueue, TruthApproveLoad,
             TruthApproveCommit, TruthApproverCrash DEF Environment
<1>2. ASSUME NEW w \in Workers, Pick(w) \/ Work(w) \/ Mishap(w) PROVE Truth'
  BY <1>2, TruthPick, TruthAttempt, TruthLoad, TruthEnforce, TruthReload, TruthGateBlocked,
     TruthGateClaim, TruthRender, TruthPrepare, TruthPost, TruthTelegram, TruthFinish,
     TruthRescue, TruthEnforceSkipped, TruthMishap DEF Work, Mishap
<1>3. CASE UNCHANGED vars
  BY <1>3, TruthQuiet DEF vars
<1> QED BY <1>1, <1>2, <1>3 DEF Next

\* What a worker's copies and results say of the outside world is true.
THEOREM RecordsAreTrue == Spec => []Truth
BY Invariant, TruthInit, TruthNext, PTL DEF Spec

\* SENT and the external reference are only written of messages that left the
\* system, STUB_SENT and DRY_RUN_SENT only of messages that stayed in, whichever
\* worker wrote them (lines 333-430, github_issue.py 24-38).
THEOREM OutcomesAreTrue == Spec => []OutcomeIsTrue
<1>1. Truth => OutcomeIsTrue
  BY DEF Truth, RowTrue, Left, OutcomeIsTrue
<1> QED BY RecordsAreTrue, <1>1, PTL
===============================================================================
