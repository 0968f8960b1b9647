---------------------------- MODULE SkillRunsProofs ----------------------------
(***************************************************************************)
(* Proofs about SkillRuns, for any jobs, messages and number of requests:  *)
(* the types, that a message that waits for approval has an action unless  *)
(* its request was cut short, that everything a DONE answer stands for can *)
(* be sent with the tokens this caller got, and that a job answered        *)
(* BLOCKED has asked and stored nothing.                                   *)
(***************************************************************************)
EXTENDS SkillRuns, TLAPS

-------------------------------------------------------------------------------
\* The inductive invariant

PartPCs == {"enforce", "lookup", "insert", "reload", "propose"}

\* What request r has to have done about message m before it goes on.
Settled(r, m) ==
    /\ stored[m] # 0
    /\ m \in requires =>
         /\ [of |-> m, token |-> SkillOf(r) # "tool"] \in proposed
         /\ SkillOf(r) # "tool" => m \in run[r].tokens

\* The messages before the current one are settled, and all of them at the end.
RequestSound(r) ==
    LET x == run[r]  j == run[r].job IN
    /\ x.pc # "idle" => j \in Jobs
    /\ x.pc \in {"begin", "recipient"} => x.next = 1 /\ Skill[j] # "tool"
    /\ x.pc = "recipient" => j \in documents
    /\ x.pc \in PartPCs =>
         /\ x.next \in 1..Len(Parts[j])
         /\ Skill[j] # "tool" => j \in documents
         /\ \A i \in 1..(x.next - 1) : Settled(r, Parts[j][i])
    /\ x.pc \in {"reload", "propose"} => stored[Parts[j][x.next]] # 0
    /\ x.pc = "respond" /\ x.outcome = "DONE" =>
         /\ Skill[j] # "tool" => j \in documents
         /\ \A i \in 1..Len(Parts[j]) : Settled(r, Parts[j][i])

IInv ==
    /\ TypeOK
    /\ OrphanOnlyWhenCut
    /\ DoneCanBeSent
    /\ \A r \in Requests : RequestSound(r)

-------------------------------------------------------------------------------
\* Frame lemmas

\* Documents, actions and tokens stay, and the verdict on a stored message too.
Monotone ==
    /\ documents \subseteq documents' /\ proposed \subseteq proposed'
    /\ \A j \in Jobs : known[j] \subseteq known'[j]
    /\ \A m \in Messages : stored[m] # 0 => stored'[m] # 0 /\ (m \in requires' => m \in requires)

LEMMA PartsOf ==
    ASSUME NEW j \in Jobs
    PROVE  /\ Parts[j] \in Seq(Messages)
           /\ Len(Parts[j]) \in Nat
           /\ \A i \in 1..Len(Parts[j]) : Parts[j][i] \in Messages
           /\ ToSet(Parts[j]) = {Parts[j][i] : i \in 1..Len(Parts[j])}
BY JobsAssumption DEF ToSet

LEMMA NoRunTyped == NoRun \in Run
BY DEF NoRun, Run, PCs, Outcomes

\* A request that does not move stays sound.
LEMMA OthersKeep ==
    ASSUME TypeOK, Monotone, NEW q \in Requests, RequestSound(q), run'[q] = run[q]
    PROVE  RequestSound(q)'
<1> DEFINE j == run[q].job
<1>1. \A m \in Messages : Settled(q, m) => Settled(q, m)'
  BY DEF Monotone, Settled, SkillOf
<1>2. CASE run[q].pc = "idle"
  BY <1>2 DEF RequestSound, PartPCs
<1>3. CASE run[q].pc # "idle"
  <2>1. j \in Jobs /\ run[q].next \in Nat
    BY <1>3 DEF RequestSound, TypeOK, Run
  <2>2. \A i \in 1..Len(Parts[j]) : Parts[j][i] \in Messages
    BY <2>1, PartsOf
  <2>3. \A i \in 1..Len(Parts[j]) : Settled(q, Parts[j][i]) => Settled(q, Parts[j][i])'
    BY <1>1, <2>2
  <2>4. \A i \in 1..Len(Parts[j]) : stored[Parts[j][i]] # 0 => stored'[Parts[j][i]] # 0
    BY <2>2 DEF Monotone
  <2>5. Len(Parts[j]) \in Nat
    BY <2>1, PartsOf
  <2> QED BY <1>3, <2>1, <2>3, <2>4, <2>5 DEF RequestSound, PartPCs, Monotone
<1> QED BY <1>2, <1>3

\* What was answered DONE stays so.
LEMMA AnswersKeep ==
    ASSUME TypeOK, DoneCanBeSent, Monotone, answers' = answers
    PROVE  DoneCanBeSent'
<1> SUFFICES ASSUME NEW j \in Jobs, "DONE" \in answers[j]
             PROVE  /\ Skill[j] # "tool" => j \in documents'
                    /\ \A m \in ToSet(Parts[j]) :
                         /\ stored'[m] # 0
                         /\ m \in requires' =>
                              /\ [of |-> m, token |-> Skill[j] # "tool"] \in proposed'
                              /\ Skill[j] # "tool" => m \in known'[j]
  BY DEF DoneCanBeSent
<1>1. ASSUME NEW m \in ToSet(Parts[j]) PROVE m \in Messages
  <2>1. PICK i \in 1..Len(Parts[j]) : m = Parts[j][i]
    BY PartsOf
  <2> QED BY <2>1, PartsOf
<1> QED BY <1>1 DEF DoneCanBeSent, Monotone

\* A request that is not between storing and proposing leaves no orphan.
LEMMA OrphansKeep ==
    ASSUME TypeOK, OrphanOnlyWhenCut, NEW r \in Requests,
           run[r].pc \notin {"reload", "propose"},
           \A q \in Requests \ {r} : run'[q] = run[q],
           requires' = requires, proposed' = proposed, cut' = cut
    PROVE  OrphanOnlyWhenCut'
BY DEF OrphanOnlyWhenCut, IsCurrent, Current

\* A step of request r, given what it means for r itself.
LEMMA StepOf ==
    ASSUME IInv, Monotone, NEW r \in Requests,
           \A q \in Requests \ {r} : run'[q] = run[q],
           TypeOK', OrphanOnlyWhenCut', DoneCanBeSent', RequestSound(r)'
    PROVE  IInv'
<1>1. \A q \in Requests \ {r} : RequestSound(q)'
  BY OthersKeep DEF IInv
<1> QED BY <1>1 DEF IInv

-------------------------------------------------------------------------------
\* One lemma per action

\* Shorthand for the actions that touch nothing but the request itself.
Untouched == UNCHANGED <<stored, requires, proposed, settings, observers>>

LEMMA InvInit == Init => IInv
<1> SUFFICES ASSUME Init PROVE IInv
  OBVIOUS
<1>1. faults \in 0..MaxFaults /\ wanted \in [Callers -> Jobs]
  BY JobsAssumption DEF Init
<1>2. run \in [Requests -> Run]
  BY NoRunTyped DEF Init
<1>3. stored \in [Messages -> Jobs \cup {0}] /\ known \in [Jobs -> SUBSET Messages]
      /\ answers \in [Jobs -> SUBSET Outcomes]
  BY DEF Init
<1>4. TypeOK
  BY <1>1, <1>2, <1>3 DEF Init, TypeOK
<1>5. \A r \in Requests : RequestSound(r)
  BY DEF Init, NoRun, RequestSound, PartPCs
<1>6. OrphanOnlyWhenCut /\ DoneCanBeSent
  BY DEF Init, OrphanOnlyWhenCut, DoneCanBeSent
<1> QED BY <1>4, <1>5, <1>6 DEF IInv

\* The surroundings move no request.
LEMMA InvSurroundings ==
    ASSUME IInv, (\E covers \in Listable : PutAllowlist(covers)) \/ BootstrapVerdict
    PROVE  IInv'
<1>1. TypeOK'
  <2>1. CASE \E covers \in Listable : PutAllowlist(covers)
    <3>1. listed' \subseteq Messages
      BY <2>1, JobsAssumption DEF PutAllowlist
    <3> QED BY <2>1, <3>1 DEF IInv, TypeOK, PutAllowlist
  <2>2. CASE BootstrapVerdict
    BY <2>2 DEF IInv, TypeOK, BootstrapVerdict
  <2> QED BY <2>1, <2>2
<1>2. /\ run' = run /\ stored' = stored /\ requires' = requires /\ proposed' = proposed
      /\ documents' = documents /\ known' = known /\ answers' = answers /\ cut' = cut
  BY DEF PutAllowlist, BootstrapVerdict
<1>3. Monotone
  BY <1>2 DEF Monotone
<1>4. \A r \in Requests : RequestSound(r)'
  BY <1>2, <1>3, OthersKeep DEF IInv
<1>5. OrphanOnlyWhenCut'
  BY <1>2 DEF IInv, OrphanOnlyWhenCut, IsCurrent, Current
<1>6. DoneCanBeSent'
  BY <1>2, <1>3, AnswersKeep DEF IInv
<1> QED BY <1>1, <1>4, <1>5, <1>6 DEF IInv

\* A step of r that stores, proposes and answers nothing.
LEMMA QuietStep ==
    ASSUME IInv, NEW r \in Requests, NEW x \in Run, run' = [run EXCEPT ![r] = x],
           run[r].pc \notin {"reload", "propose"},
           Untouched, documents \subseteq documents', documents' \subseteq Jobs,
           asked' \subseteq Jobs, RequestSound(r)'
    PROVE  IInv'
<1>1. TypeOK'
  BY DEF IInv, TypeOK, Untouched, settings, observers
<1>2. Monotone
  BY DEF Monotone, Untouched, observers
<1>3. \A q \in Requests \ {r} : run'[q] = run[q]
  BY DEF IInv, TypeOK
<1>4. OrphanOnlyWhenCut'
  BY <1>3, OrphansKeep DEF IInv, Untouched, observers
<1>5. DoneCanBeSent'
  BY <1>2, AnswersKeep DEF IInv, Untouched, observers
<1> QED BY <1>1, <1>2, <1>3, <1>4, <1>5, StepOf

LEMMA InvPost ==
    ASSUME IInv, NEW r \in Requests, NEW j \in Jobs, Post(r, j)
    PROVE  IInv'
<1> DEFINE x == [NoRun EXCEPT !.job = j,
                              !.pc  = IF Skill[j] = "tool" THEN "enforce" ELSE "begin"]
<1>1. x \in Run /\ x.job = j /\ x.next = 1
      /\ x.pc = (IF Skill[j] = "tool" THEN "enforce" ELSE "begin")
  BY DEF NoRun, Run, PCs, Outcomes
<1>2. run' = [run EXCEPT ![r] = x] /\ run'[r] = x
  BY DEF Post, IInv, TypeOK
<1>3. Skill[j] = "tool" => 1 \in 1..Len(Parts[j])
  BY PartsOf, JobsAssumption
<1> HIDE DEF x
<1>4. RequestSound(r)'
  BY <1>1, <1>2, <1>3 DEF RequestSound, PartPCs
<1>5. documents \subseteq documents' /\ documents' \subseteq Jobs /\ asked' \subseteq Jobs
      /\ run[r].pc \notin {"reload", "propose"} /\ Untouched
  BY DEF Post, At, IInv, TypeOK, Untouched
<1> QED BY <1>1, <1>2, <1>4, <1>5, QuietStep

LEMMA InvRefuse ==
    ASSUME IInv, NEW r \in Requests,
           UnknownSkill(r) \/ BlockOnInput(r) \/ BlockOnRecipient(r)
    PROVE  IInv'
<1>1. PICK outcome \in {"FAILED", "BLOCKED"} : Answer(r, outcome)
  BY DEF UnknownSkill, BlockOnInput, BlockOnRecipient
<1> DEFINE x == [run[r] EXCEPT !.pc = "respond", !.outcome = outcome]
<1>2. run[r] \in Run /\ run[r].pc \in {"begin", "recipient"} /\ run[r].job \in Jobs
  BY DEF IInv, TypeOK, RequestSound, UnknownSkill, BlockOnInput, BlockOnRecipient, At
<1>3. x \in Run /\ x.pc = "respond" /\ x.outcome # "DONE" /\ x.job = run[r].job
  BY <1>2 DEF Run, PCs, Outcomes
<1>4. run' = [run EXCEPT ![r] = x] /\ run'[r] = x
  BY <1>1 DEF Answer, IInv, TypeOK
<1>5. RequestSound(r)'
  BY <1>2, <1>3, <1>4 DEF RequestSound, PartPCs
<1>6. documents \subseteq documents' /\ documents' \subseteq Jobs /\ asked' \subseteq Jobs
      /\ Untouched
  BY <1>2 DEF UnknownSkill, BlockOnInput, BlockOnRecipient, IInv, TypeOK, Untouched
<1> HIDE DEF x
<1> QED BY <1>2, <1>3, <1>4, <1>5, <1>6, QuietStep

LEMMA InvStoreDocuments ==
    ASSUME IInv, NEW r \in Requests, StoreDocuments(r)
    PROVE  IInv'
<1> DEFINE j == run[r].job
           x == IF Skill[j] = "weekly"
                THEN [run[r] EXCEPT !.pc = "respond", !.outcome = "DONE"]
                ELSE [run[r] EXCEPT !.pc = IF Lacks[j] = "recipient" THEN "recipient"
                                           ELSE "enforce"]
<1>1. run[r] \in Run /\ run[r].pc = "begin" /\ j \in Jobs /\ run[r].next = 1
      /\ Skill[j] \in {"sales", "article", "weekly"}
  BY JobsAssumption DEF IInv, TypeOK, RequestSound, StoreDocuments, ReadsInputs, At, SkillOf, Skills
<1>2. x \in Run /\ x.job = j /\ x.next = 1
      /\ x.pc = (IF Skill[j] = "weekly" THEN "respond"
                 ELSE IF Lacks[j] = "recipient" THEN "recipient" ELSE "enforce")
  BY <1>1 DEF Run, PCs, Outcomes
<1>3. run' = [run EXCEPT ![r] = x] /\ run'[r] = x
  BY DEF StoreDocuments, SkillOf, Answer, Goto, IInv, TypeOK
<1>4. documents' = documents \cup {j} /\ documents' \subseteq Jobs /\ asked' \subseteq Jobs
      /\ Untouched
  BY <1>1 DEF StoreDocuments, IInv, TypeOK, Untouched
<1>5. IF Skill[j] = "weekly" THEN Len(Parts[j]) = 0 ELSE 1 \in 1..Len(Parts[j])
  BY <1>1, PartsOf, JobsAssumption
<1>6. RequestSound(r)'
  BY <1>1, <1>2, <1>3, <1>4, <1>5 DEF RequestSound, PartPCs
<1> HIDE DEF x
<1> QED BY <1>1, <1>2, <1>3, <1>4, <1>6, QuietStep

\* Where a request stands that works on a message.
LEMMA AtPart ==
    ASSUME IInv, NEW r \in Requests, run[r].pc \in PartPCs
    PROVE  /\ run[r] \in Run /\ run[r].job \in Jobs
           /\ run[r].next \in 1..Len(Parts[run[r].job])
           /\ Len(Parts[run[r].job]) \in Nat
           /\ Current(r) \in Messages /\ IsCurrent(r)
<1>1. run[r] \in Run /\ run[r].job \in Jobs /\ run[r].next \in 1..Len(Parts[run[r].job])
  BY DEF IInv, TypeOK, RequestSound, PartPCs
<1>2. Current(r) \in Messages /\ Len(Parts[run[r].job]) \in Nat
  BY <1>1, PartsOf DEF Current
<1> QED BY <1>1, <1>2 DEF IsCurrent, PartPCs

\* A request that goes on with the same message, and stores nothing, stays sound.
LEMMA PartSound ==
    ASSUME IInv, NEW r \in Requests, run[r].pc \in PartPCs, run'[r].pc \in PartPCs,
           run'[r].job = run[r].job, run'[r].next = run[r].next,
           run'[r].tokens = run[r].tokens,
           UNCHANGED <<stored, requires, proposed, documents>>,
           run'[r].pc \in {"reload", "propose"} => stored[Parts[run[r].job][run[r].next]] # 0
    PROVE  RequestSound(r)'
<1>1. ASSUME NEW m PROVE Settled(r, m)' <=> Settled(r, m)
  BY DEF Settled, SkillOf
<1>2. /\ run[r].job \in Jobs /\ run[r].next \in 1..Len(Parts[run[r].job])
      /\ Skill[run[r].job] # "tool" => run[r].job \in documents
      /\ \A i \in 1..(run[r].next - 1) : Settled(r, Parts[run[r].job][i])
  BY DEF IInv, RequestSound, PartPCs
<1>3. \A i \in 1..(run[r].next - 1) : Settled(r, Parts[run[r].job][i])'
  BY <1>1, <1>2
<1> QED BY <1>2, <1>3 DEF RequestSound, PartPCs

LEMMA InvEnforcePolicy ==
    ASSUME IInv, NEW r \in Requests, EnforcePolicy(r)
    PROVE  IInv'
<1> DEFINE x == [run[r] EXCEPT !.need = Requires(Current(r)), !.pc = "lookup"]
<1>1. run[r].pc = "enforce" /\ run[r] \in Run
  BY DEF EnforcePolicy, At, IInv, TypeOK
<1>2. x \in Run /\ x.pc = "lookup" /\ x.job = run[r].job /\ x.next = run[r].next
      /\ x.tokens = run[r].tokens
  BY <1>1 DEF Run, PCs, Requires
<1>3. run' = [run EXCEPT ![r] = x] /\ run'[r] = x
  BY DEF EnforcePolicy, IInv, TypeOK
<1>4. documents' = documents /\ asked' = asked /\ Untouched
  BY DEF EnforcePolicy, Untouched
<1> HIDE DEF x
<1>5. RequestSound(r)'
  BY <1>1, <1>2, <1>3, <1>4, PartSound DEF PartPCs, Untouched
<1>6. documents' \subseteq Jobs /\ asked' \subseteq Jobs
  BY <1>4 DEF IInv, TypeOK
<1> QED BY <1>1, <1>2, <1>3, <1>4, <1>5, <1>6, QuietStep

LEMMA InvLookUp ==
    ASSUME IInv, NEW r \in Requests, LookUp(r)
    PROVE  IInv'
<1> DEFINE x == [run[r] EXCEPT !.pc = IF Found(Current(r)) THEN "reload" ELSE "insert"]
<1>1. run[r].pc = "lookup" /\ run[r] \in Run
  BY DEF LookUp, At, IInv, TypeOK
<1>2. /\ x \in Run /\ x.job = run[r].job /\ x.next = run[r].next /\ x.tokens = run[r].tokens
      /\ x.pc \in {"reload", "insert"}
      /\ x.pc = "reload" => stored[Parts[run[r].job][run[r].next]] # 0
  BY <1>1 DEF Run, PCs, Found, Current
<1>3. run' = [run EXCEPT ![r] = x] /\ run'[r] = x
  BY DEF LookUp, Goto, IInv, TypeOK
<1>4. documents' = documents /\ asked' = asked /\ Untouched
  BY DEF LookUp, Untouched
<1> HIDE DEF x
<1>5. RequestSound(r)'
  BY <1>1, <1>2, <1>3, <1>4, PartSound DEF PartPCs, Untouched
<1>6. documents' \subseteq Jobs /\ asked' \subseteq Jobs
  BY <1>4 DEF IInv, TypeOK
<1> QED BY <1>1, <1>2, <1>3, <1>4, <1>5, <1>6, QuietStep

LEMMA InvGiveUp ==
    ASSUME IInv, NEW r \in Requests, CountRefused(r) \/ PayloadRefused(r) \/ InsertRefused(r)
    PROVE  IInv'
<1>1. /\ run[r].pc \in {"begin", "enforce", "insert"}
      /\ run' = [run EXCEPT ![r] = NoRun] /\ run'[r] = NoRun
  BY DEF CountRefused, PayloadRefused, InsertRefused, At, IInv, TypeOK
<1>2. RequestSound(r)'
  BY <1>1 DEF RequestSound, NoRun, PartPCs
<1>3. /\ documents' = documents /\ documents' \subseteq Jobs
      /\ asked' = asked /\ asked' \subseteq Jobs /\ Untouched
  BY DEF CountRefused, PayloadRefused, InsertRefused, Untouched, IInv, TypeOK
<1> QED BY <1>1, <1>2, <1>3, NoRunTyped, QuietStep

\* The unique index keeps the verdict on stored messages fixed.
LEMMA InvInsert ==
    ASSUME IInv, NEW r \in Requests, Insert(r)
    PROVE  IInv'
<1> DEFINE m == Current(r)
           x == [run[r] EXCEPT !.pc = "reload"]
<1>1. run[r].pc = "insert" /\ run[r] \in Run /\ m \in Messages /\ stored[m] = 0
      /\ run[r].job \in Jobs /\ run[r].next \in 1..Len(Parts[run[r].job])
  BY AtPart DEF Insert, Unique, At, PartPCs
<1>2. x \in Run /\ x.job = run[r].job /\ x.next = run[r].next /\ x.tokens = run[r].tokens
      /\ x.pc = "reload"
  BY <1>1 DEF Run, PCs
<1>3. run' = [run EXCEPT ![r] = x] /\ run'[r] = x /\ \A q \in Requests \ {r} : run'[q] = run[q]
  BY DEF Insert, Goto, IInv, TypeOK
<1>4. /\ stored' \in [Messages -> Jobs \cup {0}]
      /\ stored'[m] = run[r].job /\ stored'[m] # 0
      /\ \A n \in Messages \ {m} : stored'[n] = stored[n]
  BY <1>1, JobsAssumption DEF Insert, IInv, TypeOK
<1>5. requires' \subseteq requires \cup {m} /\ requires' \subseteq Messages
  BY <1>1 DEF Insert, IInv, TypeOK
<1>6. proposed' = proposed /\ documents' = documents /\ asked' = asked /\ wanted' = wanted
      /\ listed' = listed /\ fresh' = fresh /\ known' = known /\ answers' = answers
      /\ cut' = cut /\ faults' = faults
  BY DEF Insert, settings, observers
<1> HIDE DEF x
<1>7. TypeOK'
  BY <1>2, <1>3, <1>4, <1>5, <1>6 DEF IInv, TypeOK
<1>8. Monotone
  BY <1>1, <1>4, <1>5, <1>6 DEF Monotone
<1>9. OrphanOnlyWhenCut'
  <2> SUFFICES ASSUME NEW n \in requires'
               PROVE  \/ \E p \in proposed : p.of = n
                      \/ n \in cut
                      \/ \E q \in Requests : (/\ IsCurrent(q)' /\ Current(q)' = n
                                              /\ run'[q].pc \in {"reload", "propose"})
    BY <1>6 DEF OrphanOnlyWhenCut
  <2>1. CASE n = m
    <3>1. IsCurrent(r)' /\ Current(r)' = m /\ run'[r].pc = "reload"
      BY <1>1, <1>2, <1>3, PartsOf DEF IsCurrent, Current
    <3> QED BY <2>1, <3>1
  <2>2. CASE n # m
    <3>1. n \in requires
      BY <2>2, <1>5
    <3>2. \A q \in Requests : run[q].pc \in {"reload", "propose"} =>
            run'[q] = run[q]
      BY <1>1, <1>3
    <3> QED BY <3>1, <3>2 DEF IInv, OrphanOnlyWhenCut, IsCurrent, Current
  <2> QED BY <2>1, <2>2
<1>10. DoneCanBeSent'
  BY <1>6, <1>8, AnswersKeep DEF IInv
<1>11. RequestSound(r)'
  <2>1. \A i \in 1..Len(Parts[run[r].job]) : Parts[run[r].job][i] \in Messages
    BY <1>1, PartsOf
  <2>2. \A n \in Messages : Settled(r, n) => Settled(r, n)'
    BY <1>2, <1>3, <1>6, <1>8 DEF Settled, Monotone, SkillOf
  <2>3. /\ Skill[run[r].job] # "tool" => run[r].job \in documents
        /\ \A i \in 1..(run[r].next - 1) : Settled(r, Parts[run[r].job][i])
    BY <1>1 DEF IInv, RequestSound, PartPCs
  <2>4. \A i \in 1..(run[r].next - 1) : Settled(r, Parts[run[r].job][i])'
    BY <1>1, <1>2, <1>3, <2>1, <2>2, <2>3, PartsOf
  <2>5. /\ run[r].job \in Jobs /\ run[r].next \in 1..Len(Parts[run[r].job])
        /\ stored'[Parts[run[r].job][run[r].next]] # 0
    BY <1>1, <1>2, <1>4, <1>6 DEF IInv, RequestSound, PartPCs, Current
  <2> QED BY <1>2, <1>3, <1>6, <2>3, <2>4, <2>5 DEF RequestSound, PartPCs
<1> QED BY <1>3, <1>7, <1>8, <1>9, <1>10, <1>11, StepOf

\* On to the message after the current one, once that is settled.
LEMMA Advance ==
    ASSUME IInv, NEW r \in Requests, run[r].pc \in PartPCs,
           NEW y \in Run, y.job = run[r].job, y.next = run[r].next,
           run'[r] = AfterPart(y), documents' = documents,
           \A i \in 1..run[r].next :
             LET m == Parts[run[r].job][i]  token == Skill[run[r].job] # "tool" IN
             /\ stored'[m] # 0
             /\ m \in requires' => [of |-> m, token |-> token] \in proposed'
                                   /\ (token => m \in y.tokens)
    PROVE  AfterPart(y) \in Run /\ RequestSound(r)'
<1> DEFINE j == run[r].job
           n == run[r].next
           x == AfterPart(y)
<1>1. j \in Jobs /\ n \in 1..Len(Parts[j]) /\ Len(Parts[j]) \in Nat
  BY AtPart
<1>2. Skill[j] # "tool" => j \in documents
  BY DEF IInv, RequestSound
<1>3. CASE n < Len(Parts[j])
  <2>1. /\ x \in Run /\ x.job = j /\ x.next = n + 1 /\ x.tokens = y.tokens
        /\ x.pc = "enforce"
    <3>1. x = [y EXCEPT !.next = n + 1, !.need = FALSE, !.pc = "enforce"]
      BY <1>3 DEF AfterPart
    <3>2. n + 1 \in Nat
      BY <1>1
    <3> QED BY <3>1, <3>2 DEF Run, PCs
  <2>2. 1..(x.next - 1) = 1..n /\ x.next \in 1..Len(Parts[j])
    BY <1>1, <1>3, <2>1
  <2> HIDE DEF x
  <2>3. run'[r] = x
    BY DEF x
  <2>4. \A i \in 1..n : Settled(r, Parts[j][i])'
    BY <2>1, <2>3 DEF Settled, SkillOf
  <2>5. RequestSound(r)'
    BY <1>1, <1>2, <2>1, <2>2, <2>3, <2>4 DEF RequestSound, PartPCs
  <2> QED BY <2>1, <2>5 DEF x
<1>4. CASE ~(n < Len(Parts[j]))
  <2>1. /\ x \in Run /\ x.job = j /\ x.tokens = y.tokens
        /\ x.pc = "respond" /\ x.outcome = "DONE"
    BY <1>1, <1>4 DEF AfterPart, Run, PCs, Outcomes
  <2>2. 1..Len(Parts[j]) = 1..n
    BY <1>1, <1>4
  <2> HIDE DEF x
  <2>3. run'[r] = x
    BY DEF x
  <2>4. \A i \in 1..n : Settled(r, Parts[j][i])'
    BY <2>1, <2>3 DEF Settled, SkillOf
  <2>5. RequestSound(r)'
    BY <1>1, <1>2, <2>1, <2>2, <2>3, <2>4 DEF RequestSound, PartPCs
  <2> QED BY <2>1, <2>5 DEF x
<1> QED BY <1>3, <1>4

\* A stored message that needs no action lets the request go on.
LEMMA InvReload ==
    ASSUME IInv, NEW r \in Requests, Reload(r)
    PROVE  IInv'
<1> DEFINE j == run[r].job
           m == Current(r)
<1>1. run[r].pc = "reload" /\ run[r] \in Run /\ j \in Jobs /\ m \in Messages
      /\ run[r].next \in 1..Len(Parts[j]) /\ IsCurrent(r)
  BY AtPart DEF Reload, At, PartPCs
<1>2. /\ stored' = stored /\ requires' = requires /\ proposed' = proposed
      /\ documents' = documents /\ asked' = asked /\ wanted' = wanted /\ listed' = listed
      /\ fresh' = fresh /\ known' = known /\ answers' = answers /\ cut' = cut
      /\ faults' = faults
  BY DEF Reload, settings, observers
<1>3. Monotone
  BY <1>2 DEF Monotone, IInv
<1>4. DoneCanBeSent'
  BY <1>2, <1>3, AnswersKeep DEF IInv
<1>5. stored[m] # 0 /\ \A i \in 1..(run[r].next - 1) : Settled(r, Parts[j][i])
  BY <1>1 DEF IInv, RequestSound, PartPCs, Current
<1>6. CASE WantsAction(r)
  <2> DEFINE x == [run[r] EXCEPT !.pc = "propose"]
  <2>1. run' = [run EXCEPT ![r] = x] /\ run'[r] = x
    BY <1>6 DEF Reload, Goto, IInv, TypeOK
  <2>2. x \in Run /\ x.job = j /\ x.next = run[r].next /\ x.tokens = run[r].tokens
        /\ x.pc = "propose"
    BY <1>1 DEF Run, PCs
  <2> HIDE DEF x
  <2>3. TypeOK' /\ \A q \in Requests \ {r} : run'[q] = run[q]
    BY <1>2, <2>1, <2>2 DEF IInv, TypeOK
  <2>4. RequestSound(r)'
    BY <1>1, <1>2, <1>5, <2>1, <2>2, PartSound DEF PartPCs, Current
  <2>5. \A q \in Requests : IsCurrent(q)' = IsCurrent(q) /\ Current(q)' = Current(q)
          /\ (run[q].pc \in {"reload", "propose"} => run'[q].pc \in {"reload", "propose"})
    BY <1>1, <2>1, <2>2, <2>3 DEF IsCurrent, Current
  <2>6. OrphanOnlyWhenCut'
    BY <1>2, <2>5 DEF IInv, OrphanOnlyWhenCut
  <2> QED BY <1>3, <1>4, <2>3, <2>4, <2>6, StepOf
<1>7. CASE ~WantsAction(r)
  <2> DEFINE x == AfterPart(run[r])
  <2>1. run' = [run EXCEPT ![r] = x] /\ run'[r] = x
    BY <1>7 DEF Reload, NextPart, IInv, TypeOK
  <2>2. m \notin requires
    BY <1>7 DEF WantsAction
  <2>3. \A i \in 1..run[r].next :
          LET p == Parts[j][i]  token == Skill[j] # "tool" IN
          /\ stored'[p] # 0
          /\ p \in requires' => [of |-> p, token |-> token] \in proposed'
                                /\ (token => p \in run[r].tokens)
    <3> SUFFICES ASSUME NEW i \in 1..run[r].next
                 PROVE  LET p == Parts[j][i]  token == Skill[j] # "tool" IN
                        /\ stored'[p] # 0
                        /\ p \in requires' => [of |-> p, token |-> token] \in proposed'
                                              /\ (token => p \in run[r].tokens)
      OBVIOUS
    <3>1. i = run[r].next \/ i \in 1..(run[r].next - 1)
      BY <1>1, PartsOf
    <3> QED BY <1>2, <1>5, <2>2, <3>1 DEF Settled, SkillOf, Current
  <2>4. x \in Run /\ RequestSound(r)'
    BY <1>1, <1>2, <2>1, <2>3, Advance DEF PartPCs
  <2> HIDE DEF x
  <2>5. TypeOK' /\ \A q \in Requests \ {r} : run'[q] = run[q]
    BY <1>2, <2>1, <2>4 DEF IInv, TypeOK
  <2>6. OrphanOnlyWhenCut'
    BY <1>2, <2>2, <2>5 DEF IInv, OrphanOnlyWhenCut, IsCurrent, Current
  <2> QED BY <1>3, <1>4, <2>4, <2>5, <2>6, StepOf
<1> QED BY <1>6, <1>7

LEMMA InvPropose ==
    ASSUME IInv, NEW r \in Requests, Propose(r)
    PROVE  IInv'
<1> DEFINE j == run[r].job
           m == Current(r)
           token == Skill[j] # "tool"
           kept == IF token THEN run[r].tokens \cup {m} ELSE run[r].tokens
           y == [run[r] EXCEPT !.tokens = kept]
           x == AfterPart(y)
<1>1. run[r].pc = "propose" /\ run[r] \in Run /\ j \in Jobs /\ m \in Messages
      /\ run[r].next \in 1..Len(Parts[j])
  BY AtPart DEF Propose, At, PartPCs
<1>2. /\ stored' = stored /\ requires' = requires
      /\ proposed' = proposed \cup {[of |-> m, token |-> token]}
      /\ documents' = documents /\ asked' = asked /\ wanted' = wanted /\ listed' = listed
      /\ fresh' = fresh /\ known' = known /\ answers' = answers /\ cut' = cut
      /\ faults' = faults
  BY DEF Propose, SkillOf, settings, observers
<1>3. run' = [run EXCEPT ![r] = x] /\ run'[r] = x
  <2>1. run' = [run EXCEPT ![r] = x]
    BY DEF Propose, SkillOf
  <2> HIDE DEF x
  <2> QED BY <2>1 DEF IInv, TypeOK
<1>4. /\ y \in Run /\ y.job = j /\ y.next = run[r].next
      /\ run[r].tokens \subseteq y.tokens /\ (token => m \in y.tokens)
  BY <1>1 DEF Run
<1>5. stored[m] # 0 /\ \A i \in 1..(run[r].next - 1) : Settled(r, Parts[j][i])
  BY <1>1 DEF IInv, RequestSound, PartPCs, Current
<1> HIDE DEF y
<1>6. \A i \in 1..run[r].next :
        LET p == Parts[j][i]  t == Skill[j] # "tool" IN
        /\ stored'[p] # 0
        /\ p \in requires' => [of |-> p, token |-> t] \in proposed'
                              /\ (t => p \in y.tokens)
  <2> SUFFICES ASSUME NEW i \in 1..run[r].next
               PROVE  LET p == Parts[j][i] IN
                      /\ stored'[p] # 0
                      /\ p \in requires' => [of |-> p, token |-> token] \in proposed'
                                            /\ (token => p \in y.tokens)
    OBVIOUS
  <2>1. CASE i = run[r].next
    BY <1>2, <1>4, <1>5, <2>1 DEF Current
  <2>2. CASE i \in 1..(run[r].next - 1)
    BY <1>2, <1>4, <1>5, <2>2 DEF Settled, SkillOf
  <2>3. i = run[r].next \/ i \in 1..(run[r].next - 1)
    BY <1>1, PartsOf
  <2> QED BY <2>1, <2>2, <2>3
<1>7. x \in Run /\ RequestSound(r)'
  BY <1>1, <1>2, <1>3, <1>4, <1>6, Advance DEF PartPCs
<1> HIDE DEF x
<1>8. TypeOK' /\ \A q \in Requests \ {r} : run'[q] = run[q]
  <2>1. token \in BOOLEAN
    OBVIOUS
  <2> HIDE DEF token
  <2>2. [of |-> m, token |-> token] \in [of: Messages, token: BOOLEAN]
    BY <1>1, <2>1
  <2>3. proposed' \subseteq [of: Messages, token: BOOLEAN]
    BY <1>2, <2>2 DEF IInv, TypeOK
  <2>4. run' \in [Requests -> Run] /\ \A q \in Requests \ {r} : run'[q] = run[q]
    BY <1>3, <1>7 DEF IInv, TypeOK
  <2> QED BY <1>2, <2>3, <2>4 DEF IInv, TypeOK
<1>9. Monotone
  BY <1>2 DEF Monotone, IInv
<1>10. DoneCanBeSent'
  BY <1>2, <1>9, AnswersKeep DEF IInv
<1>11. OrphanOnlyWhenCut'
  <2> SUFFICES ASSUME NEW n \in requires'
               PROVE  \/ \E p \in proposed' : p.of = n
                      \/ n \in cut'
                      \/ \E q \in Requests : (/\ IsCurrent(q)' /\ Current(q)' = n
                                              /\ run'[q].pc \in {"reload", "propose"})
    BY DEF OrphanOnlyWhenCut
  <2>1. CASE n = m
    <3> DEFINE action == [of |-> m, token |-> token]
    <3>1. action \in proposed' /\ action.of = n
      BY <1>2, <2>1
    <3> QED BY <3>1
  <2>2. CASE n # m
    <3>1. \/ \E p \in proposed : p.of = n
          \/ n \in cut
          \/ \E q \in Requests : (/\ IsCurrent(q) /\ Current(q) = n
                                  /\ run[q].pc \in {"reload", "propose"})
      BY <1>2 DEF IInv, OrphanOnlyWhenCut
    <3>2. \A q \in Requests : Current(q) = n => q # r
      BY <2>2
    <3>3. \A q \in Requests \ {r} : IsCurrent(q)' = IsCurrent(q) /\ Current(q)' = Current(q)
      BY <1>8 DEF IsCurrent, Current
    <3>4. proposed \subseteq proposed' /\ cut' = cut
      BY <1>2
    <3> HIDE DEF m, token
    <3>5. CASE \E p \in proposed : p.of = n
      BY <3>4, <3>5
    <3>6. CASE \E q \in Requests : (/\ IsCurrent(q) /\ Current(q) = n
                                    /\ run[q].pc \in {"reload", "propose"})
      BY <1>8, <3>2, <3>3, <3>6
    <3> QED BY <3>1, <3>4, <3>5, <3>6
  <2> QED BY <2>1, <2>2
<1> QED BY <1>7, <1>8, <1>9, <1>10, <1>11, StepOf

\* A DONE answer hands over the tokens of every settled message.
LEMMA InvRespond ==
    ASSUME IInv, NEW r \in Requests, Respond(r)
    PROVE  IInv'
<1> DEFINE j == run[r].job
<1>1. run[r].pc = "respond" /\ run[r] \in Run /\ j \in Jobs
  BY DEF Respond, At, IInv, TypeOK, RequestSound
<1>2. /\ stored' = stored /\ requires' = requires /\ proposed' = proposed
      /\ documents' = documents /\ asked' = asked /\ wanted' = wanted /\ listed' = listed
      /\ fresh' = fresh /\ cut' = cut /\ faults' = faults
      /\ known' = [known EXCEPT ![j] = @ \cup run[r].tokens]
      /\ run' = [run EXCEPT ![r] = NoRun]
      /\ answers' = [answers EXCEPT ![j] = @ \cup {run[r].outcome}]
  BY DEF Respond, settings
<1>3. run'[r] = NoRun /\ \A q \in Requests \ {r} : run'[q] = run[q]
  BY <1>2 DEF IInv, TypeOK
<1>4. run[r].tokens \subseteq Messages /\ run[r].outcome \in Outcomes
  BY <1>1 DEF Run
<1>5. TypeOK'
  <2>1. /\ answers' \in [Jobs -> SUBSET Outcomes] /\ run' \in [Requests -> Run]
        /\ known' \in [Jobs -> SUBSET Messages]
    BY <1>1, <1>2, <1>4, NoRunTyped DEF IInv, TypeOK
  <2> QED BY <1>2, <1>4, <2>1 DEF IInv, TypeOK
<1>6. Monotone /\ known'[j] = known[j] \cup run[r].tokens
  BY <1>1, <1>2 DEF Monotone, IInv, TypeOK
<1>7. RequestSound(r)'
  BY <1>3 DEF RequestSound, NoRun, PartPCs
<1>8. OrphanOnlyWhenCut'
  BY <1>1, <1>2, <1>3, OrphansKeep DEF IInv
<1>9. DoneCanBeSent'
  <2> SUFFICES ASSUME NEW k \in Jobs, "DONE" \in answers'[k]
               PROVE  /\ Skill[k] # "tool" => k \in documents'
                      /\ \A m \in ToSet(Parts[k]) :
                           /\ stored'[m] # 0
                           /\ m \in requires' =>
                                /\ [of |-> m, token |-> Skill[k] # "tool"] \in proposed'
                                /\ Skill[k] # "tool" => m \in known'[k]
    BY DEF DoneCanBeSent
  <2>1. CASE "DONE" \in answers[k]
    BY <1>2, <1>6, <2>1 DEF IInv, DoneCanBeSent, Monotone
  <2>2. CASE "DONE" \notin answers[k]
    <3>1. k = j /\ run[r].outcome = "DONE"
      BY <1>1, <1>2, <2>2 DEF IInv, TypeOK
    <3>2. /\ Skill[j] # "tool" => j \in documents
          /\ \A i \in 1..Len(Parts[j]) : Settled(r, Parts[j][i])
      BY <1>1, <3>1 DEF IInv, RequestSound
    <3>3. ASSUME NEW m \in ToSet(Parts[j]) PROVE Settled(r, m)
      <4>1. PICK i \in 1..Len(Parts[j]) : m = Parts[j][i]
        BY <1>1, PartsOf
      <4> QED BY <3>2, <4>1
    <3> QED BY <1>2, <1>6, <3>1, <3>2, <3>3 DEF Settled, SkillOf
  <2> QED BY <2>1, <2>2
<1> QED BY <1>3, <1>5, <1>6, <1>7, <1>8, <1>9, StepOf

\* A message cut off before its action is remembered as cut.
LEMMA InvCutShort ==
    ASSUME IInv, NEW r \in Requests, CutShort(r)
    PROVE  IInv'
<1>1. /\ stored' = stored /\ requires' = requires /\ proposed' = proposed
      /\ documents' = documents /\ asked' = asked /\ wanted' = wanted /\ listed' = listed
      /\ fresh' = fresh /\ known' = known /\ answers' = answers
      /\ run' = [run EXCEPT ![r] = NoRun] /\ faults' = faults + 1 /\ faults < MaxFaults
      /\ cut' = IF run[r].pc \in {"reload", "propose"} THEN cut \cup {Current(r)} ELSE cut
  BY DEF CutShort, settings
<1>2. run'[r] = NoRun /\ \A q \in Requests \ {r} : run'[q] = run[q]
  BY <1>1 DEF IInv, TypeOK
<1>3. TypeOK'
  <2>1. cut' \subseteq Messages
    BY <1>1, AtPart DEF IInv, TypeOK, PartPCs
  <2>2. faults' \in 0..MaxFaults
    BY <1>1, JobsAssumption DEF IInv, TypeOK
  <2>3. run' \in [Requests -> Run]
    BY <1>1, NoRunTyped DEF IInv, TypeOK
  <2> QED BY <1>1, <2>1, <2>2, <2>3 DEF IInv, TypeOK
<1>4. Monotone
  BY <1>1 DEF Monotone, IInv
<1>5. RequestSound(r)'
  BY <1>2 DEF RequestSound, NoRun, PartPCs
<1>6. DoneCanBeSent'
  BY <1>1, <1>4, AnswersKeep DEF IInv
<1>7. OrphanOnlyWhenCut'
  BY <1>1, <1>2 DEF IInv, OrphanOnlyWhenCut, IsCurrent, Current
<1> QED BY <1>2, <1>3, <1>4, <1>5, <1>6, <1>7, StepOf

-------------------------------------------------------------------------------
\* Theorems

LEMMA InvNext == IInv /\ [Next]_vars => IInv'
<1> SUFFICES ASSUME IInv, [Next]_vars PROVE IInv'
  OBVIOUS
<1>1. CASE (\E covers \in Listable : PutAllowlist(covers)) \/ BootstrapVerdict
  BY <1>1, InvSurroundings
<1>2. ASSUME NEW r \in Requests, (\E j \in Jobs : Post(r, j)) \/ Progress(r) \/ CutShort(r)
      PROVE  IInv'
  BY <1>2, InvPost, InvRefuse, InvStoreDocuments, InvEnforcePolicy, InvLookUp, InvInsert,
     InvGiveUp, InvReload, InvPropose, InvRespond, InvCutShort DEF Progress
<1>3. CASE UNCHANGED vars
  <2>1. TypeOK'
    BY <1>3 DEF vars, IInv, TypeOK
  <2>2. OrphanOnlyWhenCut'
    BY <1>3 DEF vars, IInv, OrphanOnlyWhenCut, IsCurrent, Current
  <2>3. DoneCanBeSent'
    BY <1>3 DEF vars, IInv, DoneCanBeSent
  <2>4. \A r \in Requests : RequestSound(r)'
    BY <1>3 DEF vars, IInv, RequestSound, Settled, SkillOf
  <2> QED BY <2>1, <2>2, <2>3, <2>4 DEF IInv
<1> QED BY <1>1, <1>2, <1>3 DEF Next

\* The invariant holds in every reachable state.
THEOREM Invariant == Spec => []IInv
BY InvInit, InvNext, PTL DEF Spec

\* The state always has its types.
THEOREM TypeCorrect == Spec => []TypeOK
<1>1. IInv => TypeOK
  BY DEF IInv
<1> QED BY Invariant, <1>1, PTL

\* A message that waits for approval has an action, or its request stopped between
\* the two commits (sales_outreach_sequence.py 160-182).
THEOREM OrphansWereCut == Spec => []OrphanOnlyWhenCut
<1>1. IInv => OrphanOnlyWhenCut
  BY DEF IInv
<1> QED BY Invariant, <1>1, PTL

\* What was answered DONE can be sent, with the tokens the caller got, whatever
\* requests and policies came between.
THEOREM DoneIsComplete == Spec => []DoneCanBeSent
<1>1. IInv => DoneCanBeSent
  BY DEF IInv
<1> QED BY Invariant, <1>1, PTL

-------------------------------------------------------------------------------
\* Blocked jobs

\* Jobs whose inputs let their messages be stored.  The tool endpoint has no inputs
\* to miss but those its request model demands.
Stores(j) == Skill[j] = "tool" \/ Lacks[j] = "nothing"

BlockedRequest(r) ==
    LET x == run[r]  j == run[r].job IN
    /\ x.pc \in PartPCs => Stores(j)
    /\ x.pc = "recipient" => ~Stores(j)
    /\ x.pc = "respond" /\ x.outcome = "BLOCKED" => ~Stores(j) /\ j \in asked

Blocking ==
    /\ \A r \in Requests : BlockedRequest(r)
    /\ \A j \in Jobs : "BLOCKED" \in answers[j] => ~Stores(j) /\ j \in asked
    /\ \A m \in Messages : stored[m] # 0 => Stores(stored[m])

LEMMA BlockingInit == Init => Blocking
BY DEF Init, Blocking, BlockedRequest, NoRun, PartPCs

\* A step of request r that answers nobody and stores nothing.
LEMMA BlockingStep ==
    ASSUME IInv, Blocking, NEW r \in Requests, UNCHANGED <<stored, answers>>,
           asked \subseteq asked', \A q \in Requests \ {r} : run'[q] = run[q],
           BlockedRequest(r)'
    PROVE  Blocking'
<1>1. \A q \in Requests : BlockedRequest(q)'
  BY DEF Blocking, BlockedRequest
<1> QED BY <1>1 DEF Blocking

LEMMA BlockingIdle ==
    ASSUME IInv, Blocking, UNCHANGED <<stored, answers, run, asked>> PROVE Blocking'
BY DEF Blocking, BlockedRequest

LEMMA BlockingPost ==
    ASSUME IInv, Blocking, NEW r \in Requests, NEW j \in Jobs, Post(r, j) PROVE Blocking'
<1> DEFINE x == [NoRun EXCEPT !.job = j,
                              !.pc  = IF Skill[j] = "tool" THEN "enforce" ELSE "begin"]
<1>1. x.job = j /\ x.pc = (IF Skill[j] = "tool" THEN "enforce" ELSE "begin")
  BY DEF NoRun
<1>2. run' = [run EXCEPT ![r] = x] /\ UNCHANGED <<stored, answers, asked>>
  BY DEF Post, observers
<1> HIDE DEF x
<1>3. run'[r] = x /\ \A q \in Requests \ {r} : run'[q] = run[q]
  BY <1>2 DEF IInv, TypeOK
<1>4. BlockedRequest(r)'
  BY <1>1, <1>3 DEF BlockedRequest, PartPCs, Stores
<1> QED BY <1>2, <1>3, <1>4, BlockingStep

\* A refusal: BLOCKED is only said with a task that asks.
LEMMA BlockingRefuse ==
    ASSUME IInv, Blocking, NEW r \in Requests,
           UnknownSkill(r) \/ BlockOnInput(r) \/ BlockOnRecipient(r)
    PROVE  Blocking'
<1> DEFINE j == run[r].job
<1>1. PICK outcome \in {"FAILED", "BLOCKED"} :
        /\ Answer(r, outcome)
        /\ outcome = "BLOCKED" => j \in asked' /\ (Lacks[j] = "input" \/ run[r].pc = "recipient")
        /\ outcome = "BLOCKED" => run[r].pc \in {"begin", "recipient"}
  BY DEF UnknownSkill, BlockOnInput, BlockOnRecipient, At
<1>2. UNCHANGED <<stored, answers>> /\ asked \subseteq asked'
  BY DEF UnknownSkill, BlockOnInput, BlockOnRecipient, observers
<1>3. /\ run'[r].pc = "respond" /\ run'[r].outcome = outcome /\ run'[r].job = j
      /\ \A q \in Requests \ {r} : run'[q] = run[q]
  BY <1>1 DEF Answer, IInv, TypeOK, Run
<1>4. outcome = "BLOCKED" => ~Stores(j)
  <2>1. run[r].pc \in {"begin", "recipient"} => Skill[j] # "tool"
    BY DEF IInv, RequestSound
  <2>2. run[r].pc = "recipient" => ~Stores(j)
    BY DEF Blocking, BlockedRequest
  <2> QED BY <1>1, <2>1, <2>2 DEF Stores
<1>5. BlockedRequest(r)'
  BY <1>1, <1>3, <1>4 DEF BlockedRequest, PartPCs
<1> QED BY <1>2, <1>3, <1>5, BlockingStep

LEMMA BlockingDocuments ==
    ASSUME IInv, Blocking, NEW r \in Requests, StoreDocuments(r) PROVE Blocking'
<1> DEFINE j == run[r].job
<1>1. /\ run[r].pc = "begin" /\ j \in Jobs /\ Skill[j] # "tool" /\ Lacks[j] # "input"
      /\ UNCHANGED <<stored, answers, asked>>
  BY DEF StoreDocuments, At, observers, IInv, RequestSound
<1>2. /\ run'[r].job = j /\ \A q \in Requests \ {r} : run'[q] = run[q]
      /\ \/ run'[r].pc = "respond" /\ run'[r].outcome = "DONE"
         \/ run'[r].pc = (IF Lacks[j] = "recipient" THEN "recipient" ELSE "enforce")
  BY DEF StoreDocuments, Answer, Goto, IInv, TypeOK, Run
<1>3. Lacks[j] \in {"nothing", "input", "recipient"}
  BY <1>1, JobsAssumption
<1>4. BlockedRequest(r)'
  BY <1>1, <1>2, <1>3 DEF BlockedRequest, PartPCs, Stores
<1> QED BY <1>1, <1>2, <1>4, BlockingStep

\* Steps that go on with a message, or give up.
LEMMA BlockingMoves ==
    ASSUME IInv, Blocking, NEW r \in Requests, UNCHANGED <<stored, answers, asked>>,
           \A q \in Requests \ {r} : run'[q] = run[q],
           \/ run'[r].pc = "idle"
           \/ /\ run[r].pc \in PartPCs /\ run'[r].job = run[r].job
              /\ run'[r].pc \in PartPCs \/ (run'[r].pc = "respond" /\ run'[r].outcome = "DONE")
    PROVE  Blocking'
<1>1. BlockedRequest(r)'
  BY DEF BlockedRequest, Blocking, PartPCs
<1> QED BY <1>1, BlockingStep

LEMMA AfterPartMoves ==
    ASSUME NEW y \in Run
    PROVE  /\ AfterPart(y).job = y.job
           /\ \/ AfterPart(y).pc = "enforce"
              \/ AfterPart(y).pc = "respond" /\ AfterPart(y).outcome = "DONE"
BY DEF AfterPart, Run

LEMMA BlockingPart ==
    ASSUME IInv, Blocking, NEW r \in Requests,
           CountRefused(r) \/ PayloadRefused(r) \/ EnforcePolicy(r) \/ LookUp(r)
             \/ InsertRefused(r) \/ CutShort(r)
    PROVE  Blocking'
<1>1. UNCHANGED <<stored, answers, asked>>
  BY DEF CountRefused, PayloadRefused, EnforcePolicy, LookUp, InsertRefused, CutShort, observers
<1>2. CASE EnforcePolicy(r)
  <2> DEFINE need == Requires(Current(r))
  <2>1. run' = [run EXCEPT ![r].need = need, ![r].pc = "lookup"] /\ run[r].pc = "enforce"
    BY <1>2 DEF EnforcePolicy, At
  <2> HIDE DEF need
  <2> QED BY <1>1, <2>1, BlockingMoves DEF PartPCs, IInv, TypeOK, Run
<1>3. CASE LookUp(r)
  BY <1>1, <1>3, BlockingMoves DEF LookUp, Goto, At, PartPCs, IInv, TypeOK, Run
<1>4. CASE CountRefused(r) \/ PayloadRefused(r) \/ InsertRefused(r) \/ CutShort(r)
  BY <1>1, <1>4, BlockingMoves DEF CountRefused, PayloadRefused, InsertRefused, CutShort, NoRun, IInv, TypeOK, Run
<1> QED BY <1>2, <1>3, <1>4

LEMMA BlockingReload ==
    ASSUME IInv, Blocking, NEW r \in Requests, Reload(r) \/ Propose(r) PROVE Blocking'
<1>1. /\ UNCHANGED <<stored, answers, asked>> /\ run[r].pc \in PartPCs /\ run[r] \in Run
  BY DEF Reload, Propose, At, observers, PartPCs, IInv, TypeOK
<1>2. CASE run' = [run EXCEPT ![r].pc = "propose"]
  BY <1>1, <1>2, BlockingMoves DEF PartPCs, IInv, TypeOK, Run
<1>3. ASSUME NEW y \in Run, y.job = run[r].job, run' = [run EXCEPT ![r] = AfterPart(y)]
      PROVE  Blocking'
  <2>1. run'[r] = AfterPart(y) /\ \A q \in Requests \ {r} : run'[q] = run[q]
    BY <1>3 DEF IInv, TypeOK
  <2> QED BY <1>1, <1>3, <2>1, AfterPartMoves, BlockingMoves DEF PartPCs
<1>4. CASE Reload(r)
  <2>1. run' = [run EXCEPT ![r].pc = "propose"] \/ run' = [run EXCEPT ![r] = AfterPart(run[r])]
    BY <1>4 DEF Reload, Goto, NextPart
  <2> QED BY <1>1, <1>2, <1>3, <2>1
<1>5. CASE Propose(r)
  <2>1. PICK kept \in SUBSET Messages :
          run' = [run EXCEPT ![r] = AfterPart([run[r] EXCEPT !.tokens = kept])]
    <3>1. Current(r) \in Messages /\ run[r].tokens \in SUBSET Messages
      BY <1>1, AtPart DEF Run
    <3> QED BY <1>5, <3>1 DEF Propose
  <2>2. /\ [run[r] EXCEPT !.tokens = kept] \in Run
        /\ [run[r] EXCEPT !.tokens = kept].job = run[r].job
    BY <1>1 DEF Run
  <2> QED BY <1>3, <2>1, <2>2
<1> QED BY <1>4, <1>5

\* Only a job with all its inputs gets to storing.
LEMMA BlockingInsert ==
    ASSUME IInv, Blocking, NEW r \in Requests, Insert(r) PROVE Blocking'
<1> DEFINE j == run[r].job
<1>1. PICK m : m = Current(r)
  OBVIOUS
<1>2. /\ run[r].pc = "insert" /\ run[r] \in Run /\ UNCHANGED <<answers, asked>>
      /\ stored' = [stored EXCEPT ![m] = j] /\ run' = [run EXCEPT ![r].pc = "reload"]
  BY <1>1 DEF Insert, At, Goto, observers, IInv, TypeOK
<1>3. Stores(j) /\ m \in Messages
  BY <1>1, <1>2, AtPart DEF Blocking, BlockedRequest, PartPCs
<1>4. stored'[m] = j /\ \A n \in Messages \ {m} : stored'[n] = stored[n]
  BY <1>2, <1>3 DEF IInv, TypeOK
<1>5. \A n \in Messages : stored'[n] # 0 => Stores(stored'[n])
  BY <1>3, <1>4 DEF Blocking
<1>6. /\ run'[r].pc = "reload" /\ run'[r].job = j
      /\ \A q \in Requests \ {r} : run'[q] = run[q]
  BY <1>2 DEF IInv, TypeOK, Run
<1>7. \A q \in Requests : BlockedRequest(q)'
  BY <1>2, <1>3, <1>6 DEF Blocking, BlockedRequest
<1> QED BY <1>2, <1>5, <1>7 DEF Blocking

LEMMA BlockingRespond ==
    ASSUME IInv, Blocking, NEW r \in Requests, Respond(r) PROVE Blocking'
<1>1. PICK j : j = run[r].job
  OBVIOUS
<1>2. /\ run[r].pc = "respond" /\ j \in Jobs /\ UNCHANGED <<stored, asked>>
      /\ answers' = [answers EXCEPT ![j] = @ \cup {run[r].outcome}]
      /\ run' = [run EXCEPT ![r] = NoRun]
  BY <1>1 DEF Respond, At, IInv, RequestSound
<1>3. run[r].outcome = "BLOCKED" => ~Stores(j) /\ j \in asked
  BY <1>1, <1>2 DEF Blocking, BlockedRequest
<1>4. \A k \in Jobs : "BLOCKED" \in answers'[k] => ~Stores(k) /\ k \in asked'
  BY <1>2, <1>3 DEF Blocking, IInv, TypeOK
<1>5. \A q \in Requests : BlockedRequest(q)'
  <2>1. run'[r].pc = "idle" /\ \A q \in Requests \ {r} : run'[q] = run[q]
    BY <1>2 DEF NoRun, IInv, TypeOK
  <2> QED BY <1>2, <2>1 DEF Blocking, BlockedRequest, PartPCs
<1> QED BY <1>2, <1>4, <1>5 DEF Blocking

LEMMA BlockingNext == IInv /\ Blocking /\ [Next]_vars => Blocking'
<1> SUFFICES ASSUME IInv, Blocking, [Next]_vars PROVE Blocking'
  OBVIOUS
<1>1. CASE (\E covers \in Listable : PutAllowlist(covers)) \/ BootstrapVerdict \/ UNCHANGED vars
  BY <1>1, BlockingIdle DEF PutAllowlist, BootstrapVerdict, vars
<1>2. ASSUME NEW r \in Requests, (\E j \in Jobs : Post(r, j)) \/ Progress(r) \/ CutShort(r)
      PROVE  Blocking'
  BY <1>2, BlockingPost, BlockingRefuse, BlockingDocuments, BlockingPart, BlockingReload,
     BlockingInsert, BlockingRespond DEF Progress
<1> QED BY <1>1, <1>2 DEF Next

\* A job answered BLOCKED has a task that asks for what it lacks, and no request of
\* it stored a message, whichever jobs share its keys.
THEOREM BlockedOnlyAsks == Spec => []BlockedAsks
<1>1. IInv /\ Blocking => BlockedAsks
  BY JobsAssumption DEF BlockedAsks, Blocking
<1> QED BY Invariant, BlockingInit, BlockingNext, <1>1, PTL DEF Spec
===============================================================================
