--------------------------- MODULE OutboxRefinement ---------------------------
(***************************************************************************)
(* One dispatch task at a time implements OutboxContract.                  *)
(*                                                                         *)
(* With one task the status of a row follows the task's place in the loop  *)
(* body (InStep), which the invariants of any number of tasks, IInv and    *)
(* Truth, cannot say.  Every step of the program is then a step of the     *)
(* contract or leaves what the contract speaks of alone.                   *)
(* The same invariants, and one more (Recorded), show that with one        *)
(* approver too no recorded preview is lost.                               *)
(***************************************************************************)
EXTENDS OutboxDispatchSolo, OutboxOutcomes

OneTask == \E w : Workers = {w}

Claiming == {"load", "enforce", "reload", "gate"}

\* The status of the row the task is at, and of its copy but between a claim and
\* the next read; what the task knows of a required approval, also of a row stored
\* without enforcement, is what the row says.
InStep ==
    LET j == job[Solo]  r == row[job[Solo].cur] IN
    /\ \A m \in batch[Solo] : row[m].status = "QUEUED"
    /\ j.pc \in Claiming => r.status = "QUEUED"
    /\ j.pc \in Sending => r.status = "SENDING"
    /\ j.pc \in {"finish", "failing"} => r.status \in {"QUEUED", "SENDING"}
    /\ j.pc \in Loaded \ {"render"} => j.sess.status = r.status
    /\ j.pc = "enforce" /\ r.payload.requires => j.sess.payload.requires
    /\ j.pc \in {"reload", "gate"} /\ r.payload.requires => j.need
    /\ j.pc \in Sending \cup {"finish"} /\ r.payload.requires => j.cur \in granted

\* What is shown of every step.
Simulates == InStep' /\ [Contract!Next]_(Contract!vars)

LEMMA SoloIsIt == ASSUME OneTask PROVE Solo \in Workers /\ \A w \in Workers : w = Solo
BY DEF OneTask, Solo

-------------------------------------------------------------------------------
\* Steps of the contract

\* What the contract speaks of, for one message.
SameRow(m) ==
    row'[m].status = row[m].status /\ row'[m].payload.requires = row[m].payload.requires
SameButFor(m) == \A n \in Messages \ {m} : SameRow(n)

LEMMA Stutter ==
    ASSUME \A m \in Messages : SameRow(m), UNCHANGED <<granted, sends>>
    PROVE  UNCHANGED Contract!vars
<1>1. [m \in Messages |-> PhaseOf(row'[m].status)] = [m \in Messages |-> PhaseOf(row[m].status)]
  BY DEF SameRow
<1>2. [m \in Messages |-> row'[m].payload.requires] = [m \in Messages |-> row[m].payload.requires]
  BY DEF SameRow
<1> QED BY <1>1, <1>2 DEF Contract!vars

LEMMA ContractSubmits ==
    ASSUME NEW m \in Messages, ~Exists(m), row'[m].status = "QUEUED", SameButFor(m),
           row'[m].payload.requires \in BOOLEAN, UNCHANGED <<granted, sends>>
    PROVE  Contract!Next
<1>1. ASSUME NEW need \in BOOLEAN, row'[m].payload.requires = need PROVE Contract!Next
  <2>1. Contract!Submit(m, need)
    BY <1>1 DEF Contract!Submit, Exists, PhaseOf, SameButFor, SameRow
  <2> QED BY <2>1 DEF Contract!Next
<1> QED BY <1>1

LEMMA ContractApproves ==
    ASSUME NEW m \in Messages, Grant(m) PROVE Contract!Next
<1>1. Contract!Approve(m)
  <2>1. UNCHANGED <<row, sends>>
    BY DEF Grant, dispatcher
  <2>2. PhaseOf(row[m].status) # "absent"
    BY DEF Grant, Exists, PhaseOf
  <2> QED BY <2>1, <2>2 DEF Grant, Contract!Approve
<1> QED BY <1>1 DEF Contract!Next

LEMMA ContractRestricts ==
    ASSUME NEW m \in Messages, row[m].status = "QUEUED", row[m].payload.requires = FALSE,
           row'[m].status = "QUEUED", row'[m].payload.requires = TRUE, SameButFor(m),
           UNCHANGED <<granted, sends>>
    PROVE  Contract!Next
<1>1. Contract!Restrict(m)
  BY DEF Contract!Restrict, PhaseOf, SameButFor, SameRow
<1> QED BY <1>1 DEF Contract!Next

LEMMA ContractClaims ==
    ASSUME NEW m \in Messages, row[m].status = "QUEUED", row'[m].status = "SENDING",
           row'[m].payload.requires = row[m].payload.requires, SameButFor(m),
           row[m].payload.requires => m \in granted, UNCHANGED <<granted, sends>>
    PROVE  Contract!Next
<1>1. Contract!Claim(m)
  BY DEF Contract!Claim, PhaseOf, SameButFor, SameRow
<1> QED BY <1>1 DEF Contract!Next

LEMMA ContractDelivers ==
    ASSUME NEW m \in Messages, row[m].status = "SENDING", sends[m][Solo] = 0,
           sends'[m][Solo] = 1, \A n \in Messages \ {m} : sends'[n][Solo] = sends[n][Solo],
           UNCHANGED <<row, granted>>
    PROVE  Contract!Next
<1>1. Contract!Deliver(m)
  BY DEF Contract!Deliver, PhaseOf
<1> QED BY <1>1 DEF Contract!Next

LEMMA ContractSettles ==
    ASSUME NEW m \in Messages, row[m].status \in {"QUEUED", "SENDING"},
           row'[m].status \in Results, SameButFor(m),
           row'[m].payload.requires = row[m].payload.requires, UNCHANGED <<granted, sends>>,
           row'[m].status = "SENT" => sends[m][Solo] = 1,
           row'[m].status \in {"STUB_SENT", "DRY_RUN_SENT"} =>
              sends[m][Solo] = 0 /\ (row[m].payload.requires => m \in granted)
    PROVE  Contract!Next
<1> DEFINE outcome == PhaseOf(row'[m].status)
<1>1. /\ outcome \in {"sent", "failed", "simulated"}
      /\ outcome = "sent" => row'[m].status = "SENT"
      /\ outcome = "simulated" => row'[m].status \in {"STUB_SENT", "DRY_RUN_SENT"}
  BY DEF PhaseOf, Results
<1>2. PhaseOf(row[m].status) \in {"queued", "claimed"}
  BY DEF PhaseOf
<1>3. [n \in Messages |-> PhaseOf(row'[n].status)] =
        [[n \in Messages |-> PhaseOf(row[n].status)] EXCEPT ![m] = outcome]
  BY DEF SameButFor, SameRow
<1>4. [n \in Messages |-> row'[n].payload.requires] = [n \in Messages |-> row[n].payload.requires]
  BY DEF SameButFor, SameRow
<1> HIDE DEF outcome
<1>5. Contract!Settle(m, outcome)
  BY <1>1, <1>2, <1>3, <1>4 DEF Contract!Settle
<1> QED BY <1>1, <1>5 DEF Contract!Next, Contract!Outcomes

-------------------------------------------------------------------------------
\* Steps that write no row

LEMMA WritesNothing ==
    ASSUME UNCHANGED <<row, sends, granted>>, InStep' PROVE Simulates
BY Stutter DEF Simulates, SameRow

\* The environment: what it writes of rows that exist is neither their status nor
\* what they require.
LEMMA StepFrame ==
    ASSUME OneTask, IInv, InStep, UNCHANGED <<job, batch>>, granted \subseteq granted',
           \A m \in Messages : Exists(m) => SameRow(m)
    PROVE  InStep'
<1>1. Solo \in Workers
  BY SoloIsIt
<1>2. \A m \in batch[Solo] : m \in Messages /\ Exists(m)
  BY <1>1 DEF IInv, TypeOK, BatchSound
<1>3. job[Solo].pc # "loop" => job[Solo].cur \in Messages /\ Exists(job[Solo].cur)
  BY <1>1, InBody DEF Exists
<1> QED BY <1>2, <1>3 DEF InStep, Claiming, Sending, Loaded, SameRow

LEMMA EnvironmentIdle ==
    ASSUME OneTask, IInv, InStep, UNCHANGED <<row, job, batch, sends, granted>>
    PROVE  Simulates
BY StepFrame, WritesNothing DEF SameRow

LEMMA SimCreate ==
    ASSUME OneTask, IInv, InStep, GoodStep, NEW m \in Messages, ~Exists(m),
           NEW r, r.status = "QUEUED", row' = [row EXCEPT ![m] = r],
           UNCHANGED <<job, batch, sends, granted>>
    PROVE  Simulates
<1>1. row'[m] = r /\ \A n \in Messages \ {m} : row'[n] = row[n]
  BY DEF IInv, TypeOK
<1>2. InStep'
  BY <1>1, StepFrame DEF SameRow
<1>3. row'[m].payload.requires \in BOOLEAN
  BY DEF GoodStep, IInv, TypeOK, Row, Payload
<1>4. Contract!Next
  BY <1>1, <1>3, ContractSubmits DEF SameButFor, SameRow
<1> QED BY <1>2, <1>4 DEF Simulates

LEMMA SimGrant ==
    ASSUME OneTask, IInv, InStep, NEW m \in Messages, Grant(m) PROVE Simulates
<1>1. UNCHANGED <<row, job, batch>> /\ granted \subseteq granted'
  BY DEF Grant, dispatcher
<1> QED BY <1>1, StepFrame, ContractApproves DEF Simulates, SameRow

\* The flag goes into meta, which the contract does not speak of.
LEMMA SimApproveCommit ==
    ASSUME OneTask, IInv, InStep, NEW a \in Approvers, ApproveCommit(a) PROVE Simulates
<1> DEFINE m == approval[a].msg
           new == Written(row[m].meta, approval[a].meta,
                          [approval[a].meta EXCEPT !.approved = TRUE])
<1>1. m \in Messages /\ row' = [row EXCEPT ![m].meta = new]
  BY DEF IInv, TypeOK, ApproveCommit
<1> HIDE DEF new
<1>2. \A n \in Messages : SameRow(n)
  BY <1>1 DEF IInv, TypeOK, Row, SameRow
<1>3. UNCHANGED <<job, batch, sends, granted>>
  BY DEF ApproveCommit, dispatcher
<1> QED BY <1>2, <1>3, StepFrame, Stutter DEF Simulates, SameRow

LEMMA SimEnvironment ==
    ASSUME OneTask, IInv, InStep, GoodStep, Environment PROVE Simulates
<1>1. ASSUME NEW m \in Messages, NEW to \in Addresses, NEW channel \in Channels \cap Kinds,
             NEW own \in RequestAllowlists, NEW requires \in BOOLEAN,
             CreateOutboxMessage(m, channel, to, own, requires)
      PROVE  Simulates
  <2> DEFINE p == Enforced([given |-> TRUE, requires |-> requires, allow |-> own], to)
             made == [NoRow EXCEPT !.status  = "QUEUED", !.channel = channel, !.to = to,
                                   !.payload = p]
  <2>1. made.status = "QUEUED"
    <3> HIDE DEF p
    <3> QED BY DEF NoRow
  <2>2. row' = [row EXCEPT ![m] = made] /\ ~Exists(m) /\ UNCHANGED <<job, batch, sends, granted>>
    BY <1>1 DEF CreateOutboxMessage, NextNumber, dispatcher
  <2> HIDE DEF made
  <2> QED BY <2>1, <2>2, SimCreate
<1>2. ASSUME NEW m \in Messages, NEW to \in Addresses, NEW channel \in Channels,
             QueueToOutbox(m, channel, to)
      PROVE  Simulates
  <2> DEFINE made == [NoRow EXCEPT !.status = "QUEUED", !.channel = channel, !.to = to]
  <2>1. made.status = "QUEUED"
    BY DEF NoRow
  <2>2. row' = [row EXCEPT ![m] = made] /\ ~Exists(m) /\ UNCHANGED <<job, batch, sends, granted>>
    BY <1>2 DEF QueueToOutbox, NextNumber, dispatcher
  <2> HIDE DEF made
  <2> QED BY <2>1, <2>2, SimCreate
<1>7. ASSUME NEW m \in Messages, NEW to \in Addresses, NEW channel \in Channels \cap Kinds,
             NEW own \in RequestAllowlists, StoreUnenforced(m, channel, to, own)
      PROVE  Simulates
  <2> DEFINE made == [NoRow EXCEPT !.status  = "QUEUED", !.channel = channel, !.to = to,
                                   !.payload = [given |-> TRUE, requires |-> FALSE, allow |-> own],
                                   !.enforced = FALSE]
  <2>1. made.status = "QUEUED"
    BY DEF NoRow
  <2>2. row' = [row EXCEPT ![m] = made] /\ ~Exists(m) /\ UNCHANGED <<job, batch, sends, granted>>
    BY <1>7 DEF StoreUnenforced, NextNumber, dispatcher
  <2> HIDE DEF made
  <2> QED BY <2>1, <2>2, SimCreate
<1>3. ASSUME NEW allow \in TenantAllowlists, PutAllowlist(allow) PROVE Simulates
  BY <1>3, EnvironmentIdle DEF PutAllowlist, dispatcher
<1>4. CASE BootstrapVerdict
  BY <1>4, EnvironmentIdle DEF BootstrapVerdict, dispatcher
<1>5. ASSUME NEW a \in Approvers, NEW m \in Messages, ApproveLoad(a, m) PROVE Simulates
  BY <1>5, EnvironmentIdle DEF ApproveLoad, dispatcher
<1>6. ASSUME NEW a \in Approvers, ApproverCrash(a) PROVE Simulates
  BY <1>6, EnvironmentIdle DEF ApproverCrash
<1> QED BY <1>1, <1>2, <1>3, <1>4, <1>5, <1>6, <1>7, SimGrant, SimApproveCommit DEF Environment

-------------------------------------------------------------------------------
\* Steps of the task that write no row

\* What the invariants say of the task in the loop body.
LEMMA SoloInBody ==
    ASSUME OneTask, IInv, InStep, job[Solo].pc # "loop"
    PROVE  /\ Solo \in Workers /\ job[Solo] \in Job /\ job[Solo].cur \in Messages
           /\ row[job[Solo].cur] \in Row /\ JobSound(Solo)
           /\ job[Solo].cur \notin batch[Solo]
           /\ row[job[Solo].cur].status \in {"QUEUED", "SENDING"}
<1>1. Solo \in Workers
  BY SoloIsIt
<1>2. job[Solo].pc \in Claiming \cup Sending \cup {"finish", "failing"}
  BY <1>1, InBody DEF Job, PCs, Claiming, Sending
<1> QED BY <1>1, <1>2, InBody DEF InStep

LEMMA StepPick == ASSUME OneTask, IInv, InStep, Pick(Solo) PROVE InStep'
<1> DEFINE found == Oldest({m \in Messages : Pickable(m)})
<1>1. /\ batch' = [batch EXCEPT ![Solo] = found] /\ UNCHANGED <<row, job>>
      /\ job[Solo].pc = "loop" /\ Solo \in Workers
  BY SoloIsIt DEF Pick, At
<1>2. \A m \in found : row[m].status = "QUEUED"
  BY DEF Oldest, Pickable
<1> HIDE DEF found
<1> QED BY <1>1, <1>2 DEF InStep, IInv, TypeOK, Claiming, Sending, Loaded

\* The task takes up the next row of its batch.
LEMMA StepTakeUp ==
    ASSUME OneTask, IInv, InStep, NEW m \in batch[Solo], job[Solo].pc = "loop", UNCHANGED row,
           batch' = [batch EXCEPT ![Solo] = @ \ {m}],
           \/ UNCHANGED job
           \/ \E pc \in {"load", "failing"} : job' = [job EXCEPT ![Solo].pc = pc, ![Solo].cur = m]
    PROVE  InStep'
<1>1. row[m].status = "QUEUED" /\ Solo \in Workers
  BY SoloIsIt DEF InStep
<1>2. batch'[Solo] \subseteq batch[Solo]
  BY <1>1 DEF IInv, TypeOK
<1>3. \/ job'[Solo].pc = "loop"
      \/ job'[Solo].pc \in {"load", "failing"} /\ job'[Solo].cur = m
  BY <1>1 DEF IInv, TypeOK, Job
<1> QED BY <1>1, <1>2, <1>3 DEF InStep, Claiming, Sending, Loaded

LEMMA StepAttempt == ASSUME OneTask, IInv, InStep, Attempt(Solo) PROVE InStep'
<1>1. PICK m \in batch[Solo] :
        /\ IsNext(Solo, m) /\ batch' = [batch EXCEPT ![Solo] = @ \ {m}]
        /\ job' = IF fresh THEN [job EXCEPT ![Solo].pc = "load", ![Solo].cur = m] ELSE job
        /\ UNCHANGED row
  BY DEF Attempt
<1> QED BY <1>1, StepTakeUp DEF IsNext, At

\* The task raises, or is done with the row or ends.
LEMMA StepEnds ==
    ASSUME OneTask, IInv, InStep, UNCHANGED row, batch'[Solo] \subseteq batch[Solo],
           (Raise(Solo) /\ job[Solo].pc # "loop") \/ Leave(Solo)
    PROVE  InStep'
<1>1. CASE Leave(Solo)
  <2>1. job'[Solo].pc = "loop"
    BY <1>1, SoloIsIt DEF IInv, TypeOK, Leave, Idle
  <2> QED BY <2>1 DEF InStep, Claiming, Sending, Loaded
<1>2. CASE Raise(Solo) /\ job[Solo].pc # "loop"
  <2>1. job'[Solo].pc = "failing" /\ job'[Solo].cur = job[Solo].cur
    <3>1. /\ [Idle EXCEPT !.pc = "failing", !.cur = job[Solo].cur].pc = "failing"
          /\ [Idle EXCEPT !.pc = "failing", !.cur = job[Solo].cur].cur = job[Solo].cur
      BY DEF Idle
    <3> QED BY <1>2, <3>1, SoloIsIt DEF IInv, TypeOK, Raise
  <2> QED BY <1>2, <2>1, SoloInBody DEF InStep, Claiming, Sending, Loaded
<1> QED BY <1>1, <1>2

\* The row is read again and the task goes on as its status allows.
LEMMA StepReads ==
    ASSUME OneTask, IInv, InStep, UNCHANGED <<row, batch>>, job[Solo].pc # "loop",
           NEW pc \in {"enforce", "gate", "prepare", "telegram", "finish"},
           job'[Solo].pc = pc, job'[Solo].cur = job[Solo].cur,
           job'[Solo].sess = row[job[Solo].cur],
           pc = "enforce" => job[Solo].pc \in Claiming,
           pc = "gate" => job[Solo].pc = "reload" /\ job'[Solo].need = job[Solo].need,
           pc \in {"prepare", "telegram"} => job[Solo].pc \in Sending,
           pc = "finish" => \/ job[Solo].pc \in Sending
                            \/ ~row[job[Solo].cur].payload.requires,
           UNCHANGED granted
    PROVE  InStep'
<1>1. row[job[Solo].cur].status \in {"QUEUED", "SENDING"}
  BY SoloInBody
<1> QED BY <1>1, Zenon DEF InStep, Claiming, Sending, Loaded

LEMMA StepLoad == ASSUME OneTask, IInv, InStep, Load(Solo) PROVE InStep'
<1> DEFINE r == row[job[Solo].cur]
<1>1. job[Solo].pc = "load" /\ UNCHANGED <<row, batch, granted>>
  BY DEF Load, At, others
<1>2. CASE Raise(Solo)
  BY <1>1, <1>2, StepEnds
<1>3. CASE /\ ~r.payload.given
           /\ job' = [job EXCEPT ![Solo].pc = "finish", ![Solo].sess = r, ![Solo].res = "STUB_SENT"]
  <2>1. job'[Solo].pc = "finish" /\ job'[Solo].cur = job[Solo].cur /\ job'[Solo].sess = r
    BY <1>3, SoloIsIt DEF IInv, TypeOK, Job
  <2>2. ~r.payload.requires
    BY <1>1, <1>3, SoloInBody DEF IInv, RowSound, SoundRow
  <2> QED BY <1>1, <2>1, <2>2, StepReads
<1>4. CASE job' = [job EXCEPT ![Solo].pc = "enforce", ![Solo].sess = r]
  <2>1. job'[Solo].pc = "enforce" /\ job'[Solo].cur = job[Solo].cur /\ job'[Solo].sess = r
    BY <1>4, SoloIsIt DEF IInv, TypeOK, Job
  <2> QED BY <1>1, <2>1, StepReads DEF Claiming
<1> QED BY <1>2, <1>3, <1>4 DEF Load

LEMMA StepReload == ASSUME OneTask, IInv, InStep, Reload(Solo) PROVE InStep'
<1>1. job[Solo].pc = "reload" /\ UNCHANGED <<row, batch, granted>>
  BY DEF Reload, At, others
<1>2. /\ job'[Solo].pc = "gate" /\ job'[Solo].cur = job[Solo].cur
      /\ job'[Solo].sess = row[job[Solo].cur] /\ job'[Solo].need = job[Solo].need
  BY SoloIsIt DEF IInv, TypeOK, Job, Reload
<1> QED BY <1>1, <1>2, StepReads DEF Claiming

LEMMA StepRender == ASSUME OneTask, IInv, InStep, Render(Solo) PROVE InStep'
<1>1. job[Solo].pc = "render" /\ UNCHANGED <<row, batch, granted>>
  BY DEF Render, At, others
<1>2. /\ job'[Solo].pc \in {"prepare", "telegram", "finish"}
      /\ job'[Solo].cur = job[Solo].cur /\ job'[Solo].sess = row[job[Solo].cur]
  BY SoloIsIt DEF IInv, TypeOK, Job, Render, Sender
<1> QED BY <1>1, <1>2, StepReads DEF Sending

LEMMA StepEnforceSkipped == ASSUME OneTask, IInv, InStep, EnforceSkipped(Solo) PROVE InStep'
<1> DEFINE need == Normalised(job[Solo].sess).requires
<1>1. /\ job[Solo].pc = "enforce" /\ UNCHANGED <<row, batch>>
      /\ job' = [job EXCEPT ![Solo].need = need, ![Solo].pc = "gate"]
  BY DEF EnforceSkipped, At
<1>3. need = job[Solo].sess.payload.requires
  <2>1. job[Solo].sess \in Row /\ SoundRow(job[Solo].sess)
    BY <1>1, SoloInBody DEF JobSound, Loaded, CopyOf, Job
  <2> QED BY <2>1, SameRequirement
<1> HIDE DEF need
<1>2. /\ job'[Solo].pc = "gate" /\ job'[Solo].cur = job[Solo].cur
      /\ job'[Solo].sess = job[Solo].sess /\ job'[Solo].need = need
  BY <1>1, SoloIsIt DEF IInv, TypeOK, Job
<1> QED BY <1>1, <1>2, <1>3 DEF InStep, Claiming, Sending, Loaded

LEMMA StepFault == ASSUME OneTask, IInv, InStep, Fault(Solo) PROVE InStep'
<1>1. CASE job[Solo].pc \notin {"loop", "failing"} /\ Raise(Solo) /\ UNCHANGED <<row, batch>>
  BY <1>1, StepEnds
<1>2. CASE \E m \in batch[Solo] :
             /\ IsNext(Solo, m) /\ batch' = [batch EXCEPT ![Solo] = @ \ {m}] /\ UNCHANGED row
             /\ job' = [job EXCEPT ![Solo].pc = "failing", ![Solo].cur = m]
  <2>1. PICK m \in batch[Solo] :
             /\ IsNext(Solo, m) /\ batch' = [batch EXCEPT ![Solo] = @ \ {m}] /\ UNCHANGED row
             /\ job' = [job EXCEPT ![Solo].pc = "failing", ![Solo].cur = m]
    BY <1>2
  <2> QED BY <2>1, StepTakeUp DEF IsNext, At
<1> QED BY <1>1, <1>2 DEF Fault

LEMMA StepCrash == ASSUME OneTask, IInv, InStep, Crash(Solo) PROVE InStep'
<1>1. batch'[Solo] \subseteq batch[Solo]
  BY SoloIsIt DEF IInv, TypeOK, Crash
<1> QED BY <1>1, StepEnds DEF Crash

\* All of these leave the contract's variables alone.
LEMMA SimQuietSteps ==
    ASSUME OneTask, IInv, InStep,
           \/ Pick(Solo) \/ Attempt(Solo) \/ Load(Solo) \/ Reload(Solo) \/ GateBlocked(Solo)
           \/ Render(Solo) \/ EnforceSkipped(Solo) \/ Fault(Solo) \/ RescueFails(Solo)
           \/ Crash(Solo)
    PROVE  Simulates
<1>1. UNCHANGED <<row, sends, granted>>
  BY DEF Pick, Attempt, Load, Reload, GateBlocked, Render, EnforceSkipped, Fault, RescueFails,
         Crash, others
<1>2. InStep'
  BY StepPick, StepAttempt, StepLoad, StepReload, StepRender, StepEnforceSkipped, StepFault,
     StepCrash, StepEnds DEF GateBlocked, RescueFails
<1> QED BY <1>1, <1>2, WritesNothing

-------------------------------------------------------------------------------
\* Steps of the task that write its row or send

LEMMA CommitStatus ==
    ASSUME OneTask, IInv, InStep, GoodStep, job[Solo].pc # "loop", NEW new \in Row,
           Commit(Solo, new)
    PROVE  LET c == job[Solo].cur IN
           /\ row'[c].status = Written(row[c].status, job[Solo].sess.status, new.status)
           /\ row'[c].payload = Written(row[c].payload, job[Solo].sess.payload, new.payload)
           /\ row[c].payload.requires => row'[c].payload.requires
           /\ SameButFor(c)
<1> DEFINE c == job[Solo].cur
<1>1. /\ row'[c].status = Written(row[c].status, job[Solo].sess.status, new.status)
      /\ row'[c].payload = Written(row[c].payload, job[Solo].sess.payload, new.payload)
      /\ \A m \in Messages \ {c} : row'[m] = row[m]
  BY SoloIsIt, CommitShape DEF IInv
<1>2. c \in Messages /\ row[c].status # "NONE"
  BY SoloInBody
<1>3. row[c].payload.requires => row'[c].payload.requires
  BY <1>2 DEF GoodStep, Grows
<1> QED BY <1>1, <1>3 DEF SameButFor, SameRow

LEMMA SimPrepare == ASSUME OneTask, IInv, InStep, GoodStep, Prepare(Solo) PROVE Simulates
<1> DEFINE s == job[Solo].sess
           c == job[Solo].cur
           new == [s EXCEPT !.meta.preview = TRUE]
<1>1. /\ job[Solo].pc = "prepare" /\ UNCHANGED <<batch, sends, granted>>
      /\ Commit(Solo, new) /\ job' = [job EXCEPT ![Solo].pc = "post"]
  BY DEF Prepare, At, Goto, others
<1>2. s \in Row
  BY <1>1, SoloInBody DEF Job
<1>3. new \in Row /\ new.status = s.status /\ new.payload = s.payload
  BY <1>2 DEF Row, Meta
<1>4. job'[Solo].pc = "post" /\ job'[Solo].cur = c /\ job'[Solo].sess = s
  BY <1>1, SoloIsIt DEF IInv, TypeOK, Job
<1> HIDE DEF new
<1>5. \A m \in Messages : SameRow(m)
  BY <1>1, <1>3, CommitStatus DEF Written, SameButFor, SameRow
<1>6. c \in Messages /\ \A m \in batch[Solo] : m \in Messages
  BY <1>1, SoloIsIt, SoloInBody DEF IInv, TypeOK
<1>7. InStep'
  BY <1>1, <1>4, <1>5, <1>6 DEF InStep, SameRow, Claiming, Sending, Loaded
<1> QED BY <1>1, <1>5, <1>7, Stutter DEF Simulates

\* The upgrade of a row that required nothing is the contract's Restrict.
LEMMA SimEnforce == ASSUME OneTask, IInv, InStep, GoodStep, Enforce(Solo) PROVE Simulates
<1> DEFINE s == job[Solo].sess
           c == job[Solo].cur
           p == Enforced(Normalised(s), s.to)
           upgraded == s.to \notin p.allow
           new == [s EXCEPT !.payload = [p EXCEPT !.given = TRUE], !.meta.flagged = TRUE]
           next == IF upgraded THEN "reload" ELSE "gate"
<1>1. job[Solo].pc = "enforce" /\ UNCHANGED <<batch, sends, granted>>
  BY DEF Enforce, At, others
<1>2. /\ s \in Row /\ SoundRow(s) /\ c \in Messages /\ row[c] \in Row /\ CopyOf(s, row[c])
      /\ row[c].status = "QUEUED" /\ s.status = "QUEUED" /\ c \notin batch[Solo]
      /\ row[c].payload.requires => s.payload.requires
  BY <1>1, SoloInBody DEF JobSound, Loaded, CopyOf, Job, InStep, Claiming
<1>3. job' = [job EXCEPT ![Solo].need = p.requires, ![Solo].pc = next]
  BY DEF Enforce, Upgraded
<1>4. /\ job'[Solo].pc = next /\ job'[Solo].cur = c /\ job'[Solo].sess = s
      /\ job'[Solo].need = p.requires
  <2> HIDE DEF p, next
  <2> QED BY <1>3, SoloIsIt DEF IInv, TypeOK, Job
<1>7. \A m \in batch[Solo] : m \in Messages \ {c}
  BY <1>2, SoloIsIt DEF IInv, TypeOK
<1>5. CASE upgraded
  <2>1. p \in Payload /\ p.requires = TRUE
    <3>1. s.payload.given /\ p.requires
      BY <1>2, <1>5, SameRequirement
    <3>2. Normalised(s) \in Payload
      BY <1>2, <3>1, NormalisedType
    <3>3. p \in Payload
      BY <1>2, <3>2, EnforcedType DEF IInv, TypeOK
    <3> QED BY <3>1, <3>3 DEF Payload
  <2>2. Commit(Solo, new)
    BY <1>5 DEF Enforce, Upgraded, p
  <2> HIDE DEF p
  <2>3. new \in Row /\ new.status = s.status /\ new.payload.requires = TRUE
    BY <1>2, <2>1 DEF Row, Meta, Payload
  <2> HIDE DEF new
  <2>4. /\ row'[c].status = "QUEUED" /\ SameButFor(c)
        /\ row'[c].payload = Written(row[c].payload, s.payload, new.payload)
        /\ row[c].payload.requires => row'[c].payload.requires
    BY <1>1, <1>2, <2>2, <2>3, CommitStatus DEF Written
  <2>5. row[c].payload.requires \in BOOLEAN /\ row'[c].payload.requires = TRUE
    <3>1. row[c].payload.requires \in BOOLEAN /\ row'[c].payload.requires \in BOOLEAN
      BY <1>2 DEF GoodStep, IInv, TypeOK, Row, Payload
    <3>2. CASE row[c].payload.requires = TRUE
      BY <2>4, <3>1, <3>2
    <3>3. CASE row[c].payload.requires = FALSE
      <4>1. new.payload # s.payload
        BY <1>2, <2>3, <3>3 DEF CopyOf
      <4> QED BY <2>3, <2>4, <3>1, <4>1 DEF Written
    <3> QED BY <3>1, <3>2, <3>3
  <2>6. InStep'
    BY <1>1, <1>2, <1>4, <1>5, <1>7, <2>1, <2>4 DEF InStep, SameButFor, SameRow, Claiming, Sending, Loaded
  <2>7. CASE row[c].payload.requires
    <3>1. \A m \in Messages : SameRow(m)
      BY <1>2, <2>4, <2>5, <2>7 DEF SameButFor, SameRow
    <3> QED BY <1>1, <2>6, <3>1, Stutter DEF Simulates
  <2>8. CASE ~row[c].payload.requires
    <3>1. Contract!Next
      BY <1>1, <1>2, <2>4, <2>5, <2>8, ContractRestricts
    <3> QED BY <2>6, <3>1 DEF Simulates
  <2> QED BY <2>7, <2>8
<1>6. CASE ~upgraded
  <2>1. UNCHANGED row
    BY <1>6 DEF Enforce, Upgraded
  <2>2. s.payload.requires => p.requires
    BY <1>2, SameRequirement
  <2>3. InStep'
    <3> HIDE DEF p
    <3>1. job'[Solo].pc = "gate"
      BY <1>4, <1>6
    <3> QED BY <1>1, <1>2, <1>4, <2>1, <2>2, <3>1 DEF InStep, Claiming, Sending, Loaded
  <2> QED BY <1>1, <2>1, <2>3, WritesNothing
<1> QED BY <1>5, <1>6

LEMMA SimGateClaim == ASSUME OneTask, IInv, InStep, GoodStep, GateClaim(Solo) PROVE Simulates
<1> DEFINE s == job[Solo].sess
           c == job[Solo].cur
           new == [s EXCEPT !.status = "SENDING"]
<1>1. /\ job[Solo].pc = "gate" /\ UNCHANGED <<batch, sends, granted>>
      /\ job[Solo].need => s.meta.approved
      /\ Commit(Solo, new) /\ job' = [job EXCEPT ![Solo].pc = "render"]
  BY DEF GateClaim, At, Goto, Cleared, others
<1>2. /\ s \in Row /\ c \in Messages /\ c \notin batch[Solo]
      /\ row[c].status = "QUEUED" /\ s.status = "QUEUED"
      /\ row[c].payload.requires => c \in granted
  BY <1>1, SoloInBody DEF InStep, Claiming, Loaded, JobSound, Job
<1>3. new \in Row /\ new.status = "SENDING" /\ new.payload = s.payload
  BY <1>2 DEF Row, Statuses
<1> HIDE DEF new
<1>4. /\ row'[c].status = "SENDING" /\ row'[c].payload.requires = row[c].payload.requires
      /\ SameButFor(c)
  BY <1>1, <1>2, <1>3, CommitStatus DEF Written
<1>5. job'[Solo].pc = "render" /\ job'[Solo].cur = c
  BY <1>1, SoloIsIt DEF IInv, TypeOK, Job
<1>6. InStep'
  <2>1. \A m \in batch'[Solo] : m \in Messages \ {c} /\ row[m].status = "QUEUED"
    BY <1>1, <1>2, SoloIsIt DEF InStep, IInv, TypeOK
  <2> QED BY <1>1, <1>2, <1>4, <1>5, <2>1
           DEF InStep, SameButFor, SameRow, Claiming, Sending, Loaded
<1> QED BY <1>1, <1>2, <1>4, <1>6, ContractClaims DEF Simulates

\* The outcome is what happened: this task sends every message, and a message no
\* sender lets out has not left.
LEMMA SimFinish ==
    ASSUME OneTask, IInv, Truth, InStep, GoodStep, Finish(Solo) PROVE Simulates
<1> DEFINE s == job[Solo].sess
           c == job[Solo].cur
           res == job[Solo].res
           new == Outcome(job[Solo])
<1>1. /\ job[Solo].pc = "finish" /\ UNCHANGED <<batch, sends, granted>>
      /\ Commit(Solo, new) /\ Leave(Solo)
  BY DEF Finish, At, others
<1>2. /\ Solo \in Workers /\ job[Solo] \in Job /\ s \in Row /\ c \in Messages
      /\ c \notin batch[Solo] /\ res \in Results
      /\ row[c].status \in {"QUEUED", "SENDING"} /\ s.status = row[c].status
      /\ row[c].payload.requires => c \in granted
  BY <1>1, SoloInBody DEF InStep, Loaded, JobSound, Job
<1>3. new \in Row /\ new.status = res /\ new.payload = s.payload
  BY <1>2, OutcomeType
<1> HIDE DEF new
<1>4. /\ row'[c].status = res /\ row'[c].payload.requires = row[c].payload.requires
      /\ SameButFor(c)
  BY <1>1, <1>2, <1>3, CommitStatus DEF Written, Results
<1>5. sends[c][Solo] \in {0, 1} /\ (Left(c) <=> sends[c][Solo] = 1)
  BY <1>2, SoloIsIt DEF IInv, TypeOK, SendSound, Left
<1>6. /\ res = "SENT" => sends[c][Solo] = 1
      /\ res \in {"STUB_SENT", "DRY_RUN_SENT"} => sends[c][Solo] = 0
  <2>1. RowTrue(c) /\ JobTrue(Solo)
    BY <1>2 DEF Truth
  <2> QED BY <1>1, <1>5, <2>1 DEF RowTrue, JobTrue
<1>7. InStep'
  <2>1. \A m \in batch'[Solo] : m \in Messages \ {c} /\ row[m].status = "QUEUED"
    BY <1>1, <1>2 DEF InStep, IInv, TypeOK
  <2>2. job'[Solo].pc = "loop"
    BY <1>1, <1>2 DEF IInv, TypeOK, Leave, Idle
  <2> QED BY <1>4, <2>1, <2>2 DEF InStep, SameButFor, SameRow, Claiming, Sending, Loaded
<1>8. Contract!Next
  BY <1>1, <1>2, <1>4, <1>6, ContractSettles
<1> QED BY <1>7, <1>8 DEF Simulates

LEMMA SimRescue == ASSUME OneTask, IInv, InStep, Rescue(Solo) PROVE Simulates
<1>0. PICK c : c = job[Solo].cur
  OBVIOUS
<1>1. /\ job[Solo].pc = "failing" /\ UNCHANGED <<batch, sends, granted>> /\ Leave(Solo)
      /\ row' = [row EXCEPT ![c] = Recovered(@)]
  BY <1>0 DEF Rescue, At, others
<1>2. /\ Solo \in Workers /\ c \in Messages /\ row[c] \in Row
      /\ c \notin batch[Solo] /\ row[c].status \in {"QUEUED", "SENDING"}
  BY <1>0, <1>1, SoloInBody
<1>3. /\ row'[c].status = "FAILED" /\ row'[c].payload.requires = row[c].payload.requires
      /\ \A m \in Messages \ {c} : row'[m] = row[m]
  BY <1>1, <1>2 DEF IInv, TypeOK, Recovered, Row
<1>4. SameButFor(c)
  BY <1>3 DEF SameButFor, SameRow
<1>5. InStep'
  <2>1. \A m \in batch'[Solo] : m \in Messages \ {c} /\ row[m].status = "QUEUED"
    BY <1>1, <1>2 DEF InStep, IInv, TypeOK
  <2>2. job'[Solo].pc = "loop"
    BY <1>1, <1>2 DEF IInv, TypeOK, Leave, Idle
  <2> QED BY <1>3, <2>1, <2>2 DEF InStep, Claiming, Sending, Loaded
<1>6. Contract!Next
  BY <1>1, <1>2, <1>3, <1>4, ContractSettles DEF Results
<1> QED BY <1>5, <1>6 DEF Simulates

\* What leaves, leaves once, and while the message is claimed.
LEMMA SimSend ==
    ASSUME OneTask, IInv, InStep, job[Solo].pc \in {"post", "telegram"},
           UNCHANGED <<row, granted>>, InStep', NEW c, c = job[Solo].cur,
           UNCHANGED sends \/ sends' = [sends EXCEPT ![c][Solo] = @ + 1]
    PROVE  Simulates
<1>1. CASE UNCHANGED sends
  BY <1>1, WritesNothing
<1>2. CASE sends' = [sends EXCEPT ![c][Solo] = @ + 1]
  <2>1. c \in Messages /\ Solo \in Workers /\ row[c].status = "SENDING"
    BY SoloInBody DEF InStep, Sending
  <2>2. sends[c][Solo] = 0
    <3>1. SendSound(c, Solo) /\ sends[c][Solo] \in Nat
      BY <2>1 DEF IInv, TypeOK
    <3>2. ~ sends[c][Solo] > 0
      BY <3>1 DEF SendSound
    <3> QED BY <3>1, <3>2
  <2>3. sends'[c][Solo] = 1 /\ \A n \in Messages \ {c} : sends'[n][Solo] = sends[n][Solo]
    BY <1>2, <2>1, <2>2 DEF IInv, TypeOK
  <2> QED BY <2>1, <2>2, <2>3, ContractDelivers DEF Simulates
<1> QED BY <1>1, <1>2

LEMMA SimPost == ASSUME OneTask, IInv, InStep, Post(Solo) PROVE Simulates
<1>0. PICK c : c = job[Solo].cur
  OBVIOUS
<1>1. job[Solo].pc = "post" /\ UNCHANGED <<row, batch, granted>>
  BY DEF Post, At, others
<1>2. PICK res \in Results :
        job' = [job EXCEPT ![Solo].sess = row[c], ![Solo].pc = "finish", ![Solo].res = res]
  BY <1>0 DEF Post, Reported, Results
<1>3. UNCHANGED sends \/ sends' = [sends EXCEPT ![c][Solo] = @ + 1]
  BY <1>0 DEF Post, Transmit
<1>4. job'[Solo].pc = "finish" /\ job'[Solo].cur = c /\ job'[Solo].sess = row[c]
  BY <1>0, <1>2, SoloIsIt DEF IInv, TypeOK, Job
<1>5. InStep'
  BY <1>0, <1>1, <1>4, StepReads DEF Sending
<1> QED BY <1>0, <1>1, <1>3, <1>5, SimSend

LEMMA SimTelegram == ASSUME OneTask, IInv, InStep, Telegram(Solo) PROVE Simulates
<1>0. PICK c : c = job[Solo].cur
  OBVIOUS
<1>1. job[Solo].pc = "telegram" /\ UNCHANGED <<row, batch, granted>>
  BY DEF Telegram, At, others
<1>2. UNCHANGED sends \/ sends' = [sends EXCEPT ![c][Solo] = @ + 1]
  BY <1>0 DEF Telegram, Transmit
<1>3. InStep'
  <2>1. CASE Raise(Solo)
    BY <1>1, <2>1, StepEnds
  <2>2. CASE Settle(Solo, "SENT")
    <3>1. /\ job'[Solo].pc = "finish" /\ job'[Solo].cur = job[Solo].cur
          /\ job'[Solo].sess = job[Solo].sess
      BY <2>2, SoloIsIt DEF IInv, TypeOK, Job, Settle
    <3> QED BY <1>1, <3>1 DEF InStep, Claiming, Sending, Loaded
  <2> QED BY <2>1, <2>2 DEF Telegram
<1> QED BY <1>0, <1>1, <1>2, <1>3, SimSend

-------------------------------------------------------------------------------
\* The theorem

LEMMA InStepInit == ASSUME OneTask, Init PROVE InStep
BY SoloIsIt DEF Init, InStep, Idle, Claiming, Sending, Loaded

LEMMA ContractInit == ASSUME OneTask, Init PROVE Contract!Init
<1>1. \A m \in Messages : row[m].status = "NONE" /\ row[m].payload.requires = FALSE
  BY DEF Init, NoRow, NullPayload
<1>2. \A m \in Messages : sends[m][Solo] = 0
  BY SoloIsIt DEF Init
<1>3. PhaseOf("NONE") = "absent"
  BY DEF PhaseOf
<1>4. [m \in Messages |-> PhaseOf(row[m].status)] = [m \in Messages |-> "absent"]
  BY <1>1, <1>3
<1>5. [m \in Messages |-> row[m].payload.requires] = [m \in Messages |-> FALSE]
  BY <1>1
<1>6. [m \in Messages |-> sends[m][Solo]] = [m \in Messages |-> 0]
  BY <1>2
<1> QED BY <1>4, <1>5, <1>6 DEF Init, Contract!Init

LEMMA SimNext == OneTask /\ IInv /\ Truth /\ InStep /\ [Next]_vars => Simulates
<1> SUFFICES ASSUME OneTask, IInv, Truth, InStep, [Next]_vars PROVE Simulates
  OBVIOUS
<1>1. GoodStep
  BY InvNext
<1>2. CASE Environment
  BY <1>1, <1>2, SimEnvironment
<1>3. ASSUME NEW w \in Workers, Pick(w) \/ Work(w) \/ Mishap(w) PROVE Simulates
  <2>1. w = Solo
    BY SoloIsIt
  <2> QED BY <1>1, <1>3, <2>1, SimQuietSteps, SimEnforce, SimGateClaim, SimPrepare, SimPost,
             SimTelegram, SimFinish, SimRescue DEF Work, Mishap
<1>4. CASE UNCHANGED vars
  BY <1>4, EnvironmentIdle DEF vars
<1> QED BY <1>2, <1>3, <1>4 DEF Next

\* One task at a time, however often it fails, crashes and is started again, and
\* whatever is created, approved and re-configured meanwhile, keeps the contract:
\* at most one delivery of a message, none before the approval it requires, and
\* a final outcome that is true (dispatch_outbox).
THEOREM OneTaskKeepsTheContract == ASSUME OneTask PROVE Spec => ImplementsContract
<1>1. Init => InStep /\ Contract!Init
  BY InStepInit, ContractInit
<1>2. IInv /\ Truth /\ InStep /\ [Next]_vars => InStep' /\ [Contract!Next]_(Contract!vars)
  BY SimNext DEF Simulates
<1> QED BY <1>1, <1>2, Invariant, RecordsAreTrue, PTL DEF Spec, ImplementsContract, Contract!Spec

\* Two promises the contract makes, told of the rows.

\* A message leaves the system at most once, faults and restarts included, which two
\* tasks do not guarantee (github_issue.py 24, jarvis_tasks.py 141).
THEOREM OneTaskSendsOnce == ASSUME OneTask PROVE Spec => []AtMostOnce
<1>1. IInv => AtMostOnce
  <2> SUFFICES ASSUME IInv, NEW m \in Messages, NEW v \in Workers, NEW w \in Workers,
                      sends[m][v] > 0, sends[m][w] > 0
               PROVE  v = w /\ sends[m][w] = 1
    BY DEF AtMostOnce
  <2>1. v = w
    BY SoloIsIt
  <2>2. sends[m][w] \in Nat /\ sends[m][w] <= 1
    BY DEF IInv, TypeOK, SendSound
  <2> QED BY <2>1, <2>2
<1> QED BY <1>1, Invariant, PTL

\* An outcome is final: no status written from an older copy of the row turns a sent
\* message into a failed one, or a failed one back (jarvis_tasks.py 376-430).
OutcomesAreFinal ==
    [][\A m \in Messages :
          PhaseOf(row[m].status) \in {"sent", "simulated", "failed"}
              => PhaseOf(row'[m].status) = PhaseOf(row[m].status)]_vars

THEOREM OneTaskOutcomesStay == ASSUME OneTask PROVE Spec => OutcomesAreFinal
<1> DEFINE Final == \A m \in Messages :
                        PhaseOf(row[m].status) \in {"sent", "simulated", "failed"}
                            => PhaseOf(row'[m].status) = PhaseOf(row[m].status)
           phase == [m \in Messages |-> PhaseOf(row[m].status)]
<1>1. ASSUME Contract!Next PROVE Final
  <2>1. PICK m \in Messages :
          \/ \E need \in BOOLEAN : Contract!Submit(m, need)
          \/ Contract!Restrict(m)
          \/ Contract!Approve(m)
          \/ Contract!Claim(m)
          \/ Contract!Deliver(m)
          \/ \E outcome \in Contract!Outcomes : Contract!Settle(m, outcome)
    BY <1>1 DEF Contract!Next
  <2>2. \/ phase' = phase
        \/ /\ phase[m] \in {"absent", "queued", "claimed"}
           /\ \E to : phase' = [phase EXCEPT ![m] = to]
    BY <2>1 DEF Contract!Submit, Contract!Restrict, Contract!Approve, Contract!Claim, Contract!Deliver,
                Contract!Settle
  <2>3. ASSUME NEW n \in Messages, PhaseOf(row[n].status) \in {"sent", "simulated", "failed"}
        PROVE  phase'[n] = phase[n]
    BY <2>2, <2>3
  <2> QED BY <2>3
<1>2. ASSUME UNCHANGED Contract!vars PROVE Final
  <2>1. phase' = phase
    BY <1>2 DEF Contract!vars
  <2>2. \A m \in Messages : phase'[m] = phase[m]
    BY <2>1
  <2> QED BY <2>2
<1>3. Spec => [][Final]_vars
  BY OneTaskKeepsTheContract, <1>1, <1>2, PTL
     DEF Spec, ImplementsContract, Contract!Spec
<1> QED BY <1>3 DEF OutcomesAreFinal

-------------------------------------------------------------------------------
\* The preview in meta

\* One execution of the outbox.send branch at a time.
OneApprover == \A a, b \in Approvers : a = b

Late == {"prepare", "post", "telegram", "finish"}

\* A claimed message that needs an approval has the flag in meta, so an approval
\* that is still under way finds nothing to write, and loses no preview.
RowRecorded(m) ==
    /\ row[m].status \notin {"NONE", "QUEUED", "FAILED"} =>
          (row[m].payload.requires => row[m].meta.approved)
    /\ m \in granted => row[m].payload.requires
    /\ row[m].status \in {"SENT", "STUB_SENT", "DRY_RUN_SENT"} => row[m].meta.preview

JobRecorded ==
    LET j == job[Solo]  r == row[job[Solo].cur] IN
    /\ j.pc \in Loaded => (j.sess.meta.approved => r.meta.approved)
    /\ j.pc \in Late => /\ j.sess.meta.preview => r.meta.preview
                        /\ r.payload.requires => j.sess.meta.approved
    /\ j.pc = "post" => r.meta.preview
    /\ j.pc = "finish" /\ r.channel = "github_issue" => j.sess.meta.preview

ApprovalRecorded(a) ==
    approval[a].msg # 0 /\ row[approval[a].msg].meta.approved => approval[a].meta.approved

Recorded ==
    /\ \A m \in Messages : RowRecorded(m)
    /\ JobRecorded
    /\ \A a \in Approvers : ApprovalRecorded(a)

\* All the invariants of one task and one approver.
Known == OneTask /\ OneApprover /\ IInv /\ Truth /\ InStep /\ GoodStep /\ Recorded

LEMMA RecordedInit == OneTask /\ Init => Recorded
<1> SUFFICES ASSUME OneTask, Init PROVE Recorded
  OBVIOUS
<1>1. \A m \in Messages : RowRecorded(m)
  BY DEF Init, RowRecorded, NoRow, NullPayload
<1>2. JobRecorded
  BY SoloIsIt DEF Init, JobRecorded, Idle, Loaded, Late
<1>3. \A a \in Approvers : ApprovalRecorded(a)
  BY DEF Init, ApprovalRecorded
<1> QED BY <1>1, <1>2, <1>3 DEF Recorded

\* The environment -----------------------------------------------------------

\* Steps that leave the rows alone.
LEMMA RowsStay ==
    ASSUME Known, UNCHANGED row, \A m \in granted' : m \in granted \/ row[m].payload.requires,
           JobRecorded', \A a \in Approvers : ApprovalRecorded(a)'
    PROVE  Recorded'
<1>1. \A m \in Messages : RowRecorded(m)'
  BY DEF Known, Recorded, RowRecorded
<1> QED BY <1>1 DEF Recorded

LEMMA RecordedQuiet ==
    ASSUME Known, UNCHANGED <<row, job>>,
           \A m \in granted' : m \in granted \/ row[m].payload.requires,
           \A a \in Approvers :
              \/ approval'[a] = approval[a]
              \/ approval'[a].msg = 0
              \/ approval'[a].meta = row[approval'[a].msg].meta
    PROVE  Recorded'
<1>1. JobRecorded'
  BY DEF Known, Recorded, JobRecorded
<1>2. ASSUME NEW a \in Approvers PROVE ApprovalRecorded(a)'
  <2>1. ApprovalRecorded(a)
    BY DEF Known, Recorded
  <2> QED BY <2>1 DEF ApprovalRecorded
<1> QED BY <1>1, <1>2, RowsStay

LEMMA RecordedCreate ==
    ASSUME Known, NEW m \in Messages, ~Exists(m), NEW r, r.status = "QUEUED",
           row' = [row EXCEPT ![m] = r], UNCHANGED <<job, approval, granted>>
    PROVE  Recorded'
<1>1. row'[m] = r /\ \A n \in Messages \ {m} : row'[n] = row[n]
  BY DEF Known, IInv, TypeOK
<1>2. m \notin granted /\ \A a \in Approvers : approval[a].msg # m
  <2>1. m \notin granted
    BY DEF Known, IInv, GrantSound
  <2>2. m # 0
    BY MessagesAssumption
  <2> QED BY <2>1, <2>2 DEF Known, IInv, GrantSound
<1>3. \A n \in Messages : RowRecorded(n)'
  BY <1>1, <1>2 DEF Known, Recorded, RowRecorded
<1>4. JobRecorded'
  <2>1. CASE job[Solo].pc = "loop"
    BY <2>1 DEF JobRecorded, Loaded, Late
  <2>2. CASE job[Solo].pc # "loop"
    <3>1. job[Solo].cur \in Messages \ {m}
      BY <2>2, SoloInBody DEF Known, Exists
    <3> QED BY <1>1, <3>1 DEF Known, Recorded, JobRecorded
  <2> QED BY <2>1, <2>2
<1>5. ASSUME NEW a \in Approvers PROVE ApprovalRecorded(a)'
  <2>1. ApprovalRecorded(a) /\ approval[a].msg \in Messages \cup {0}
    BY DEF Known, Recorded, IInv, TypeOK
  <2> QED BY <1>1, <1>2, <2>1 DEF ApprovalRecorded
<1> QED BY <1>3, <1>4, <1>5 DEF Recorded

\* An approval either finds its flag set, and writes nothing, or sets it in a row
\* no task has claimed.
LEMMA RecordedApprove ==
    ASSUME Known, NEW a \in Approvers, ApproveCommit(a) PROVE Recorded'
<1>0. PICK m, loaded, new : /\ m = approval[a].msg /\ loaded = approval[a].meta
                            /\ new = Written(row[m].meta, loaded, [loaded EXCEPT !.approved = TRUE])
  OBVIOUS
<1>1. /\ m \in Messages /\ row[m] \in Row /\ loaded \in Meta /\ m \in granted
      /\ row[m].payload.requires /\ RowRecorded(m) /\ ApprovalRecorded(a)
      /\ m # 0
  BY <1>0 DEF Known, IInv, TypeOK, GrantSound, ApproveCommit, Recorded, RowRecorded
<1>2. /\ UNCHANGED <<job, granted>> /\ approval' = [approval EXCEPT ![a] = NoApproval]
      /\ row' = [row EXCEPT ![m].meta = new]
  BY <1>0 DEF ApproveCommit, dispatcher
<1>3. \A b \in Approvers : ApprovalRecorded(b)'
  <2>1. \A b \in Approvers : approval'[b].msg = 0
    BY <1>2 DEF Known, OneApprover, NoApproval, IInv, TypeOK
  <2> QED BY <2>1 DEF ApprovalRecorded
<1>4. CASE row[m].meta.approved
  <2>1. loaded.approved
    BY <1>0, <1>1, <1>4 DEF ApprovalRecorded
  <2>2. [loaded EXCEPT !.approved = TRUE] = loaded
    BY <1>1, <2>1 DEF Meta
  <2>3. new = row[m].meta
    BY <1>0, <2>2 DEF Written
  <2>4. UNCHANGED row
    BY <1>1, <1>2, <2>3 DEF Known, IInv, TypeOK, Row
  <2>5. JobRecorded'
    BY <1>2, <2>4 DEF Known, Recorded, JobRecorded
  <2> QED BY <1>2, <1>3, <2>4, <2>5, RowsStay
<1>5. CASE ~row[m].meta.approved
  <2>1. /\ row'[m].meta = new /\ row'[m].status = row[m].status
        /\ row'[m].channel = row[m].channel /\ row'[m].payload = row[m].payload
        /\ \A n \in Messages \ {m} : row'[n] = row[n]
    BY <1>1, <1>2 DEF Known, IInv, TypeOK, Row
  <2>2. row[m].status \in {"NONE", "QUEUED", "FAILED"}
    BY <1>1, <1>5 DEF RowRecorded
  <2>3. \A n \in Messages : RowRecorded(n)'
    BY <1>1, <1>2, <2>1, <2>2 DEF Known, Recorded, RowRecorded
  <2>4. JobRecorded'
    <3>1. CASE job[Solo].pc \notin Loaded
      BY <1>2, <3>1 DEF JobRecorded, Loaded, Late
    <3>2. CASE job[Solo].pc \in Loaded /\ job[Solo].cur = m
      <4>1. ~job[Solo].sess.meta.approved
        BY <1>5, <3>2 DEF Known, Recorded, JobRecorded
      <4>2. job[Solo].pc \notin Late
        BY <1>1, <3>2, <4>1 DEF Known, Recorded, JobRecorded
      <4> QED BY <1>2, <3>2, <4>1, <4>2 DEF JobRecorded, Late
    <3>3. CASE job[Solo].pc \in Loaded /\ job[Solo].cur # m
      <4>1. job[Solo].cur \in Messages
        BY <3>3, SoloInBody DEF Known, Loaded
      <4> QED BY <1>2, <2>1, <3>3, <4>1 DEF Known, Recorded, JobRecorded
    <3> QED BY <3>1, <3>2, <3>3
  <2> QED BY <1>3, <2>3, <2>4 DEF Recorded
<1> QED BY <1>4, <1>5

LEMMA RecordedEnvironment == ASSUME Known, Environment PROVE Recorded'
<1>1. ASSUME NEW m \in Messages, NEW to \in Addresses, NEW channel \in Channels \cap Kinds,
             NEW own \in RequestAllowlists, NEW requires \in BOOLEAN,
             CreateOutboxMessage(m, channel, to, own, requires)
      PROVE  Recorded'
  <2> DEFINE p == Enforced([given |-> TRUE, requires |-> requires, allow |-> own], to)
             made == [NoRow EXCEPT !.status  = "QUEUED", !.channel = channel, !.to = to,
                                   !.payload = p]
  <2>1. made.status = "QUEUED"
    <3> HIDE DEF p
    <3> QED BY DEF NoRow
  <2>2. row' = [row EXCEPT ![m] = made] /\ ~Exists(m) /\ UNCHANGED <<job, approval, granted>>
    BY <1>1 DEF CreateOutboxMessage, NextNumber, dispatcher
  <2> HIDE DEF made
  <2> QED BY <2>1, <2>2, RecordedCreate
<1>2. ASSUME NEW m \in Messages, NEW to \in Addresses, NEW channel \in Channels,
             QueueToOutbox(m, channel, to)
      PROVE  Recorded'
  <2> DEFINE made == [NoRow EXCEPT !.status = "QUEUED", !.channel = channel, !.to = to]
  <2>1. made.status = "QUEUED"
    BY DEF NoRow
  <2>2. row' = [row EXCEPT ![m] = made] /\ ~Exists(m) /\ UNCHANGED <<job, approval, granted>>
    BY <1>2 DEF QueueToOutbox, NextNumber, dispatcher
  <2> HIDE DEF made
  <2> QED BY <2>1, <2>2, RecordedCreate
<1>8. ASSUME NEW m \in Messages, NEW to \in Addresses, NEW channel \in Channels \cap Kinds,
             NEW own \in RequestAllowlists, StoreUnenforced(m, channel, to, own)
      PROVE  Recorded'
  <2> DEFINE made == [NoRow EXCEPT !.status  = "QUEUED", !.channel = channel, !.to = to,
                                   !.payload = [given |-> TRUE, requires |-> FALSE, allow |-> own],
                                   !.enforced = FALSE]
  <2>1. made.status = "QUEUED"
    BY DEF NoRow
  <2>2. row' = [row EXCEPT ![m] = made] /\ ~Exists(m) /\ UNCHANGED <<job, approval, granted>>
    BY <1>8 DEF StoreUnenforced, NextNumber, dispatcher
  <2> HIDE DEF made
  <2> QED BY <2>1, <2>2, RecordedCreate
<1>3. ASSUME NEW allow \in TenantAllowlists, PutAllowlist(allow) PROVE Recorded'
  BY <1>3, RecordedQuiet DEF PutAllowlist, dispatcher
<1>4. CASE BootstrapVerdict
  BY <1>4, RecordedQuiet DEF BootstrapVerdict, dispatcher
<1>5. ASSUME NEW m \in Messages, Grant(m) PROVE Recorded'
  BY <1>5, RecordedQuiet DEF Grant, dispatcher
<1>6. ASSUME NEW a \in Approvers, NEW m \in Messages, ApproveLoad(a, m) PROVE Recorded'
  <2>1. /\ UNCHANGED <<row, job, granted>>
        /\ approval' = [approval EXCEPT ![a] = [msg |-> m, meta |-> row[m].meta]]
    BY <1>6 DEF ApproveLoad, dispatcher
  <2> QED BY <2>1, RecordedQuiet DEF Known, IInv, TypeOK
<1>7. ASSUME NEW a \in Approvers, ApproverCrash(a) PROVE Recorded'
  <2>1. UNCHANGED <<row, job, granted>> /\ approval' = [approval EXCEPT ![a] = NoApproval]
    BY <1>7 DEF ApproverCrash
  <2> QED BY <2>1, RecordedQuiet DEF Known, IInv, TypeOK, NoApproval
<1> QED BY <1>1, <1>2, <1>3, <1>4, <1>5, <1>6, <1>7, <1>8, RecordedApprove DEF Environment

\* The task, steps that write no row -------------------------------------------

LEMMA TaskQuiet ==
    ASSUME Known, UNCHANGED <<row, approval, granted>>, JobRecorded' PROVE Recorded'
<1>1. \A a \in Approvers : ApprovalRecorded(a)'
  BY DEF Known, Recorded, ApprovalRecorded
<1> QED BY <1>1, RowsStay

\* The task reads no row, or gives its row up.
LEMMA RecordedUnread ==
    ASSUME Known, UNCHANGED <<row, approval, granted>>,
           job'[Solo].pc \in {"loop", "load", "failing"}
    PROVE  Recorded'
<1>1. JobRecorded'
  BY DEF JobRecorded, Loaded, Late
<1> QED BY <1>1, TaskQuiet

\* The row is read.  A claimed row that needs the flag has it.
LEMMA RecordedReads ==
    ASSUME Known, UNCHANGED <<row, approval, granted>>, job[Solo].pc # "loop",
           NEW c, c = job[Solo].cur, job'[Solo].cur = c, job'[Solo].sess = row[c],
           job'[Solo].pc \in {"enforce", "gate", "prepare", "telegram", "finish"},
           job'[Solo].pc \in Late =>
              row[c].status \notin {"NONE", "QUEUED", "FAILED"} \/ ~row[c].payload.requires,
           job'[Solo].pc = "finish" /\ row[c].channel = "github_issue" => row[c].meta.preview
    PROVE  Recorded'
<1>1. RowRecorded(c)
  BY SoloInBody DEF Known, Recorded
<1>2. JobRecorded'
  BY <1>1 DEF JobRecorded, RowRecorded, Late
<1> QED BY <1>2, TaskQuiet

LEMMA RecordedLoad == ASSUME Known, Load(Solo) PROVE Recorded'
<1>0. PICK c : c = job[Solo].cur
  OBVIOUS
<1>1. job[Solo].pc = "load" /\ UNCHANGED <<row, approval, granted>>
  BY DEF Load, At, others
<1>2. CASE Raise(Solo)
  <2>1. [Idle EXCEPT !.pc = "failing", !.cur = c].pc = "failing"
    BY DEF Idle
  <2>2. job'[Solo].pc = "failing"
    BY <1>0, <1>2, <2>1, SoloIsIt DEF Known, IInv, TypeOK, Raise
  <2> QED BY <1>1, <2>2, RecordedUnread
<1>3. CASE /\ ~row[c].payload.given /\ row[c].channel \notin Kinds
           /\ job' = [job EXCEPT ![Solo].pc = "finish", ![Solo].sess = row[c],
                                 ![Solo].res = "STUB_SENT"]
  <2>1. job'[Solo].pc = "finish" /\ job'[Solo].cur = c /\ job'[Solo].sess = row[c]
    BY <1>0, <1>3, SoloIsIt DEF Known, IInv, TypeOK, Job
  <2>2. ~row[c].payload.requires /\ row[c].channel # "github_issue"
    <3>1. RowSound(c)
      BY <1>0, <1>1, SoloInBody DEF Known, IInv
    <3> QED BY <1>3, <3>1 DEF RowSound, SoundRow, Kinds
  <2> QED BY <1>0, <1>1, <2>1, <2>2, RecordedReads
<1>4. CASE job' = [job EXCEPT ![Solo].pc = "enforce", ![Solo].sess = row[c]]
  <2>1. job'[Solo].pc = "enforce" /\ job'[Solo].cur = c /\ job'[Solo].sess = row[c]
    BY <1>0, <1>4, SoloIsIt DEF Known, IInv, TypeOK, Job
  <2> QED BY <1>0, <1>1, <2>1, RecordedReads DEF Late
<1> QED BY <1>0, <1>2, <1>3, <1>4 DEF Load

LEMMA RecordedReload == ASSUME Known, Reload(Solo) PROVE Recorded'
<1>1. job[Solo].pc = "reload" /\ UNCHANGED <<row, approval, granted>>
  BY DEF Reload, At, others
<1>2. /\ job'[Solo].pc = "gate" /\ job'[Solo].cur = job[Solo].cur
      /\ job'[Solo].sess = row[job[Solo].cur]
  BY SoloIsIt DEF Known, IInv, TypeOK, Job, Reload
<1> QED BY <1>1, <1>2, RecordedReads DEF Late

LEMMA RecordedRender == ASSUME Known, Render(Solo) PROVE Recorded'
<1>0. PICK c : c = job[Solo].cur
  OBVIOUS
<1>1. job[Solo].pc = "render" /\ UNCHANGED <<row, approval, granted>>
  BY DEF Render, At, others
<1>2. /\ job'[Solo].pc = Sender(row[c]) /\ job'[Solo].cur = c /\ job'[Solo].sess = row[c]
  BY <1>0, SoloIsIt DEF Known, IInv, TypeOK, Job, Render
<1>3. row[c].status = "SENDING"
  BY <1>0, <1>1 DEF Known, InStep, Sending
<1>4. /\ Sender(row[c]) \in {"prepare", "telegram", "finish"}
      /\ Sender(row[c]) = "finish" => row[c].channel # "github_issue"
  BY DEF Sender
<1> QED BY <1>0, <1>1, <1>2, <1>3, <1>4, RecordedReads

LEMMA RecordedPost == ASSUME Known, Post(Solo) PROVE Recorded'
<1>0. PICK c : c = job[Solo].cur
  OBVIOUS
<1>1. job[Solo].pc = "post" /\ UNCHANGED <<row, approval, granted>>
  BY DEF Post, At, others
<1>2. PICK res \in Results :
        job' = [job EXCEPT ![Solo].sess = row[c], ![Solo].pc = "finish", ![Solo].res = res]
  BY <1>0 DEF Post, Reported, Results
<1>3. job'[Solo].pc = "finish" /\ job'[Solo].cur = c /\ job'[Solo].sess = row[c]
  BY <1>0, <1>2, SoloIsIt DEF Known, IInv, TypeOK, Job
<1>4. row[c].status = "SENDING" /\ row[c].meta.preview
  BY <1>0, <1>1 DEF Known, InStep, Sending, Recorded, JobRecorded
<1> QED BY <1>0, <1>1, <1>3, <1>4, RecordedReads

LEMMA RecordedTelegram == ASSUME Known, Telegram(Solo) PROVE Recorded'
<1>0. PICK c : c = job[Solo].cur
  OBVIOUS
<1>1. job[Solo].pc = "telegram" /\ UNCHANGED <<row, approval, granted>> /\ Solo \in Workers
  BY SoloIsIt DEF Known, Telegram, At, others
<1>2. CASE Raise(Solo)
  <2>1. [Idle EXCEPT !.pc = "failing", !.cur = c].pc = "failing"
    BY DEF Idle
  <2>2. job'[Solo].pc = "failing"
    BY <1>0, <1>1, <1>2, <2>1 DEF Known, IInv, TypeOK, Raise
  <2> QED BY <1>1, <2>2, RecordedUnread
<1>3. CASE Settle(Solo, "SENT")
  <2>1. /\ job'[Solo].pc = "finish" /\ job'[Solo].cur = c
        /\ job'[Solo].sess = job[Solo].sess
    BY <1>0, <1>1, <1>3 DEF Known, IInv, TypeOK, Job, Settle
  <2>2. row[c].channel = "telegram"
    BY <1>0, <1>1 DEF Known, Truth, JobTrue
  <2>3. JobRecorded'
    BY <1>0, <1>1, <2>1, <2>2 DEF Known, Recorded, JobRecorded, Loaded, Late
  <2> QED BY <1>1, <2>3, TaskQuiet
<1> QED BY <1>2, <1>3 DEF Telegram

LEMMA RecordedSkip == ASSUME Known, EnforceSkipped(Solo) PROVE Recorded'
<1> DEFINE need == Normalised(job[Solo].sess).requires
<1>1. /\ job[Solo].pc = "enforce" /\ UNCHANGED <<row, approval, granted>>
      /\ job' = [job EXCEPT ![Solo].need = need, ![Solo].pc = "gate"]
  BY DEF EnforceSkipped, At, others
<1> HIDE DEF need
<1>2. /\ job'[Solo].pc = "gate" /\ job'[Solo].cur = job[Solo].cur
      /\ job'[Solo].sess = job[Solo].sess
  BY <1>1, SoloIsIt DEF Known, IInv, TypeOK, Job
<1>3. JobRecorded'
  BY <1>1, <1>2 DEF Known, Recorded, JobRecorded, Loaded, Late
<1> QED BY <1>1, <1>3, TaskQuiet

\* The task picks, takes up, gives up or loses a row.
LEMMA RecordedRest ==
    ASSUME Known,
           \/ Pick(Solo) \/ Attempt(Solo) \/ GateBlocked(Solo) \/ Fault(Solo)
           \/ RescueFails(Solo) \/ Crash(Solo)
    PROVE  Recorded'
<1>1. UNCHANGED <<row, approval, granted>> /\ Solo \in Workers /\ job \in [Workers -> Job]
  BY SoloIsIt DEF Pick, Attempt, GateBlocked, Fault, RescueFails, Crash, others, Known, IInv,
                  TypeOK
<1>2. CASE UNCHANGED job
  BY <1>1, <1>2, TaskQuiet DEF Known, Recorded, JobRecorded
<1>3. CASE Leave(Solo)
  BY <1>1, <1>3, RecordedUnread DEF Leave, Idle
<1>4. CASE Raise(Solo)
  <2>1. [Idle EXCEPT !.pc = "failing", !.cur = job[Solo].cur].pc = "failing"
    BY DEF Idle
  <2> QED BY <1>1, <1>4, <2>1, RecordedUnread DEF Raise
<1>5. ASSUME NEW m \in batch[Solo], NEW pc \in {"load", "failing"},
             job' = [job EXCEPT ![Solo].pc = pc, ![Solo].cur = m]
      PROVE  Recorded'
  BY <1>1, <1>5, RecordedUnread DEF Job
<1> QED BY <1>2, <1>3, <1>4, <1>5 DEF Pick, Attempt, GateBlocked, Fault, RescueFails, Crash

\* The task, steps that write its row ------------------------------------------

\* No flag is set, so an approval under way is not disturbed.
LEMMA TaskWrites ==
    ASSUME Known, NEW c \in Messages, \A m \in Messages \ {c} : row'[m] = row[m],
           row'[c].meta.approved => row[c].meta.approved, UNCHANGED <<approval, granted>>,
           RowRecorded(c)', JobRecorded'
    PROVE  Recorded'
<1>1. \A m \in Messages : RowRecorded(m)'
  BY DEF Known, Recorded, RowRecorded
<1>2. ASSUME NEW a \in Approvers PROVE ApprovalRecorded(a)'
  <2>1. ApprovalRecorded(a) /\ approval[a].msg \in Messages \cup {0}
    BY DEF Known, Recorded, IInv, TypeOK
  <2> QED BY <2>1 DEF ApprovalRecorded
<1> QED BY <1>1, <1>2 DEF Recorded

\* A commit that leaves the approved flag of the copy, and takes no preview away.
LEMMA TaskCommits ==
    ASSUME Known, job[Solo].pc \in Loaded, NEW c, c = job[Solo].cur, NEW s, s = job[Solo].sess,
           NEW new \in Row, Commit(Solo, new), new.meta.approved = s.meta.approved
    PROVE  /\ c \in Messages /\ s \in Row
           /\ \A m \in Messages \ {c} : row'[m] = row[m]
           /\ row'[c].status = Written(row[c].status, s.status, new.status)
           /\ row'[c].channel = row[c].channel
           /\ row[c].payload.requires => row'[c].payload.requires
           /\ new.payload = s.payload => row'[c].payload = row[c].payload
           /\ row'[c].meta \in {row[c].meta, new.meta}
           /\ new.meta = s.meta => row'[c].meta = row[c].meta
           /\ new.meta # s.meta => row'[c].meta = new.meta
           /\ row'[c].meta.approved => row[c].meta.approved
           /\ s.meta.approved => row'[c].meta.approved
<1>1. /\ c \in Messages /\ s \in Row /\ job[Solo].pc # "loop" /\ Solo \in Workers
      /\ s.meta.approved => row[c].meta.approved
  BY SoloInBody DEF Known, Loaded, Job, Recorded, JobRecorded
<1>2. /\ row'[c].status = Written(row[c].status, s.status, new.status)
      /\ row'[c].channel = row[c].channel
      /\ row'[c].meta = Written(row[c].meta, s.meta, new.meta)
      /\ \A m \in Messages \ {c} : row'[m] = row[m]
  BY <1>1, CommitShape DEF Known, IInv
<1>3. /\ row[c].payload.requires => row'[c].payload.requires
      /\ row'[c].payload = Written(row[c].payload, s.payload, new.payload)
  BY <1>1, CommitStatus DEF Known
<1> QED BY <1>1, <1>2, <1>3 DEF Written

LEMMA RecordedEnforce == ASSUME Known, Enforce(Solo) PROVE Recorded'
<1>0. PICK c, s : c = job[Solo].cur /\ s = job[Solo].sess
  OBVIOUS
<1> DEFINE p == Enforced(Normalised(s), s.to)
           upgraded == s.to \notin p.allow
           new == [s EXCEPT !.payload = [p EXCEPT !.given = TRUE], !.meta.flagged = TRUE]
           next == IF upgraded THEN "reload" ELSE "gate"
<1>1. job[Solo].pc = "enforce" /\ UNCHANGED <<approval, granted>>
  BY DEF Enforce, At, others
<1>2. s \in Row /\ SoundRow(s) /\ c \in Messages /\ row[c].status = "QUEUED" /\ s.status = "QUEUED"
  BY <1>0, <1>1, SoloInBody DEF Known, InStep, Claiming, JobSound, Loaded, CopyOf, Job
<1>3. job' = [job EXCEPT ![Solo].need = p.requires, ![Solo].pc = next]
  BY <1>0 DEF Enforce, Upgraded
<1>4. job'[Solo].pc \in {"reload", "gate"} /\ job'[Solo].cur = c /\ job'[Solo].sess = s
  <2> HIDE DEF p
  <2> QED BY <1>0, <1>3, SoloIsIt DEF Known, IInv, TypeOK, Job
<1>5. CASE upgraded
  <2>1. p \in Payload
    <3>1. s.payload.given
      BY <1>2, <1>5, SameRequirement DEF Known
    <3>2. Normalised(s) \in Payload
      BY <1>2, <3>1, NormalisedType
    <3> QED BY <1>2, <3>2, EnforcedType DEF Known, IInv, TypeOK
  <2>2. Commit(Solo, new)
    BY <1>0, <1>5 DEF Enforce, Upgraded, p
  <2> HIDE DEF p
  <2>3. new \in Row /\ new.status = s.status /\ new.meta.approved = s.meta.approved
    BY <1>2, <2>1 DEF Row, Meta, Payload
  <2> HIDE DEF new
  <2>4. /\ \A m \in Messages \ {c} : row'[m] = row[m]
        /\ row'[c].status = "QUEUED"
        /\ row[c].payload.requires => row'[c].payload.requires
        /\ row'[c].meta.approved => row[c].meta.approved
        /\ s.meta.approved => row'[c].meta.approved
    BY <1>0, <1>1, <1>2, <2>2, <2>3, TaskCommits DEF Loaded, Written
  <2>5. RowRecorded(c)' /\ JobRecorded'
    BY <1>1, <1>2, <1>4, <2>4 DEF Known, Recorded, RowRecorded, JobRecorded, Late
  <2> QED BY <1>1, <1>2, <2>4, <2>5, TaskWrites
<1>6. CASE ~upgraded
  <2>1. UNCHANGED row
    BY <1>0, <1>6 DEF Enforce, Upgraded
  <2>2. JobRecorded'
    BY <1>0, <1>1, <1>4, <2>1 DEF Known, Recorded, JobRecorded, Loaded, Late
  <2> QED BY <1>1, <2>1, <2>2, TaskQuiet
<1> QED BY <1>5, <1>6

\* The claim is the one step that asks for the flag.
LEMMA RecordedClaim == ASSUME Known, GateClaim(Solo) PROVE Recorded'
<1>0. PICK c, s : c = job[Solo].cur /\ s = job[Solo].sess
  OBVIOUS
<1> DEFINE new == [s EXCEPT !.status = "SENDING"]
<1>1. /\ job[Solo].pc = "gate" /\ UNCHANGED <<approval, granted>> /\ Commit(Solo, new)
      /\ (job[Solo].need => s.meta.approved)
      /\ job' = [job EXCEPT ![Solo].pc = "render"]
  BY <1>0 DEF GateClaim, At, Goto, Cleared, others
<1>2. /\ s \in Row /\ c \in Messages /\ row[c].status = "QUEUED" /\ s.status = "QUEUED"
      /\ row[c].payload.requires => s.meta.approved
  BY <1>0, <1>1, SoloInBody DEF Known, InStep, Claiming, Loaded, JobSound, Job
<1>3. new \in Row /\ new.status = "SENDING" /\ new.meta = s.meta /\ new.payload = s.payload
  BY <1>2 DEF Row, Statuses
<1> HIDE DEF new
<1>4. /\ \A m \in Messages \ {c} : row'[m] = row[m]
      /\ row'[c].status = "SENDING"
      /\ row'[c].payload.requires = row[c].payload.requires
      /\ row'[c].meta.approved => row[c].meta.approved
      /\ s.meta.approved => row'[c].meta.approved
  BY <1>0, <1>1, <1>2, <1>3, TaskCommits DEF Loaded, Written
<1>5. job'[Solo].pc = "render" /\ job'[Solo].cur = c /\ job'[Solo].sess = s
  BY <1>0, <1>1, SoloIsIt DEF Known, IInv, TypeOK, Job
<1>6. RowRecorded(c)' /\ JobRecorded'
  BY <1>1, <1>2, <1>4, <1>5 DEF Known, Recorded, RowRecorded, JobRecorded, Late
<1> QED BY <1>1, <1>2, <1>4, <1>6, TaskWrites

LEMMA RecordedPrepare == ASSUME Known, Prepare(Solo) PROVE Recorded'
<1>0. PICK c, s : c = job[Solo].cur /\ s = job[Solo].sess
  OBVIOUS
<1> DEFINE new == [s EXCEPT !.meta.preview = TRUE]
<1>1. /\ job[Solo].pc = "prepare" /\ UNCHANGED <<approval, granted>> /\ Commit(Solo, new)
      /\ job' = [job EXCEPT ![Solo].pc = "post"]
  BY <1>0 DEF Prepare, At, Goto, others
<1>2. /\ s \in Row /\ c \in Messages /\ row[c].status = "SENDING" /\ s.status = "SENDING"
      /\ row[c].payload.requires => s.meta.approved
      /\ s.meta.preview => row[c].meta.preview
  BY <1>0, <1>1, SoloInBody DEF Known, InStep, Sending, Loaded, Job, Recorded, JobRecorded, Late
<1>3. /\ new \in Row /\ new.status = s.status /\ new.meta.approved = s.meta.approved
      /\ new.payload = s.payload
      /\ new.meta.preview /\ (new.meta = s.meta => s.meta.preview)
  BY <1>2 DEF Row, Meta
<1> HIDE DEF new
<1>4. /\ \A m \in Messages \ {c} : row'[m] = row[m]
      /\ row'[c].status = "SENDING"
      /\ row'[c].payload.requires = row[c].payload.requires
      /\ row'[c].meta.approved => row[c].meta.approved
      /\ s.meta.approved => row'[c].meta.approved
      /\ row'[c].meta.preview
  BY <1>0, <1>1, <1>2, <1>3, TaskCommits DEF Loaded, Written
<1>5. job'[Solo].pc = "post" /\ job'[Solo].cur = c /\ job'[Solo].sess = s
  BY <1>0, <1>1, SoloIsIt DEF Known, IInv, TypeOK, Job
<1>6. RowRecorded(c)' /\ JobRecorded'
  BY <1>1, <1>2, <1>4, <1>5 DEF Known, Recorded, RowRecorded, JobRecorded, Late
<1> QED BY <1>1, <1>2, <1>4, <1>6, TaskWrites

LEMMA RecordedFinish == ASSUME Known, Finish(Solo) PROVE Recorded'
<1>0. PICK c, s : c = job[Solo].cur /\ s = job[Solo].sess
  OBVIOUS
<1> DEFINE new == Outcome(job[Solo])
<1>1. /\ job[Solo].pc = "finish" /\ UNCHANGED <<approval, granted>> /\ Commit(Solo, new)
      /\ Leave(Solo) /\ Solo \in Workers
  BY <1>0, SoloIsIt DEF Known, Finish, At, others
<1>2. /\ s \in Row /\ c \in Messages /\ job[Solo] \in Job /\ s.channel = row[c].channel
      /\ s.meta.approved => row[c].meta.approved
      /\ row[c].payload.requires => s.meta.approved
      /\ s.meta.preview => row[c].meta.preview
      /\ row[c].channel = "github_issue" => s.meta.preview
      /\ c \in granted => row[c].payload.requires
  <2>1. JobTrue(Solo) /\ JobRecorded
    BY <1>1 DEF Known, Truth, Recorded
  <2>2. /\ s \in Row /\ c \in Messages /\ job[Solo] \in Job
    BY <1>0, <1>1, SoloInBody DEF Known, Job
  <2>3. RowRecorded(c)
    BY <2>2 DEF Known, Recorded
  <2> QED BY <1>0, <1>1, <2>1, <2>2, <2>3 DEF JobTrue, JobRecorded, RowRecorded, Loaded, Late
<1>3. /\ new \in Row /\ new.meta.approved = s.meta.approved /\ new.payload = s.payload
      /\ new.meta.preview /\ (new.meta = s.meta => s.meta.preview)
  <2>1. new \in Row
    <3>1. s \in Row /\ job[Solo].res \in Statuses
      BY <1>2 DEF Job, Results, Statuses
    <3> DEFINE mt == IF s.channel = "github_issue"
                     THEN [s.meta EXCEPT !.external = @ \/ job[Solo].res = "SENT"]
                     ELSE [s.meta EXCEPT !.preview = TRUE]
    <3>2. mt \in Meta
      BY <3>1 DEF Row, Meta
    <3>3. new = [s EXCEPT !.status = job[Solo].res, !.meta = mt]
      BY <1>0 DEF Outcome
    <3> HIDE DEF mt
    <3> QED BY <3>1, <3>2, <3>3 DEF Row
  <2>2. CASE s.channel = "github_issue"
    <3>1. s.meta.preview
      BY <1>2, <2>2
    <3> QED BY <1>0, <1>2, <2>1, <2>2, <3>1 DEF Row, Meta, Outcome
  <2>3. CASE s.channel # "github_issue"
    BY <1>0, <1>2, <2>1, <2>3 DEF Row, Meta, Outcome
  <2> QED BY <2>2, <2>3
<1> HIDE DEF new
<1>4. /\ \A m \in Messages \ {c} : row'[m] = row[m]
      /\ row'[c].payload.requires = row[c].payload.requires
      /\ row'[c].meta.approved => row[c].meta.approved
      /\ s.meta.approved => row'[c].meta.approved
      /\ row'[c].meta.preview
  BY <1>0, <1>1, <1>2, <1>3, TaskCommits DEF Loaded
<1>5. job'[Solo].pc = "loop"
  BY <1>1 DEF Known, IInv, TypeOK, Leave, Idle
<1>6. RowRecorded(c)' /\ JobRecorded'
  BY <1>1, <1>2, <1>4, <1>5 DEF RowRecorded, JobRecorded, Loaded, Late
<1> QED BY <1>1, <1>2, <1>4, <1>6, TaskWrites

LEMMA RecordedRescue == ASSUME Known, Rescue(Solo) PROVE Recorded'
<1>0. PICK c : c = job[Solo].cur
  OBVIOUS
<1>1. /\ job[Solo].pc = "failing" /\ UNCHANGED <<approval, granted>> /\ Leave(Solo)
      /\ row' = [row EXCEPT ![c] = Recovered(@)]
  BY <1>0 DEF Rescue, At, others
<1>2. Solo \in Workers /\ c \in Messages /\ row[c] \in Row /\ RowRecorded(c)
  BY <1>0, <1>1, SoloInBody DEF Known, Recorded
<1>3. /\ row'[c].status = "FAILED" /\ row'[c].payload = row[c].payload
      /\ row'[c].meta = row[c].meta /\ \A m \in Messages \ {c} : row'[m] = row[m]
  BY <1>1, <1>2 DEF Known, IInv, TypeOK, Recovered, Row
<1>4. job'[Solo].pc = "loop"
  BY <1>1, <1>2 DEF Known, IInv, TypeOK, Leave, Idle
<1>5. RowRecorded(c)' /\ JobRecorded'
  BY <1>1, <1>2, <1>3, <1>4 DEF RowRecorded, JobRecorded, Loaded, Late
<1> QED BY <1>1, <1>2, <1>3, <1>5, TaskWrites

LEMMA RecordedNext ==
    OneTask /\ OneApprover /\ IInv /\ Truth /\ InStep /\ Recorded /\ [Next]_vars => Recorded'
<1> SUFFICES ASSUME OneTask, OneApprover, IInv, Truth, InStep, Recorded, [Next]_vars
             PROVE  Recorded'
  OBVIOUS
<1>1. Known
  BY InvNext DEF Known
<1>2. CASE Environment
  BY <1>1, <1>2, RecordedEnvironment
<1>3. ASSUME NEW w \in Workers, Pick(w) \/ Work(w) \/ Mishap(w) PROVE Recorded'
  <2>1. w = Solo
    BY SoloIsIt
  <2> QED BY <1>1, <1>3, <2>1, RecordedRest, RecordedLoad, RecordedReload, RecordedRender,
             RecordedPost, RecordedTelegram, RecordedSkip, RecordedEnforce, RecordedClaim,
             RecordedPrepare, RecordedFinish, RecordedRescue DEF Work, Mishap
<1>4. CASE UNCHANGED vars
  BY <1>1, <1>4, RecordedQuiet DEF vars
<1> QED BY <1>2, <1>3, <1>4 DEF Next

\* With one task and one approver at a time a dispatched message has its preview
\* in meta: no write of that column, made from an older copy of it, takes the
\* preview away (jarvis_tasks.py 303-430, tool_registry.py 102-116).
THEOREM PreviewsAreRecorded ==
    ASSUME OneTask, OneApprover PROVE Spec => []PreviewRecorded
<1>1. Init => InStep /\ Recorded
  BY InStepInit, RecordedInit
<1>2. IInv /\ Truth /\ InStep /\ Recorded /\ [Next]_vars => InStep' /\ Recorded'
  BY SimNext, RecordedNext DEF Simulates
<1>3. Recorded => PreviewRecorded
  BY DEF Recorded, RowRecorded, PreviewRecorded
<1> QED BY <1>1, <1>2, <1>3, Invariant, RecordsAreTrue, PTL DEF Spec
===============================================================================
