----------------------------- MODULE ServicesProofs -----------------------------
(***************************************************************************)
(* Safety of the parts beside the outbox that are written in Python, for   *)
(* any number of documents, refreshes, workflows, callers and addresses.   *)
(* With ScriptsProofs it makes up what holds of Services, at the end.      *)
(***************************************************************************)
EXTENDS Services, ScriptsProofs, FiniteSetTheorems

-------------------------------------------------------------------------------
\* OutboxPolicy

\* An enforced message requires approval or its own merged list covers it.
SettledPolicy ==
    enforced # 0 => payload.requires \/ Allowed(payload.message, payload.allowlist)

PolicyInv == PolicyTypeOK /\ SettledPolicy

LEMMA MergeIsAllowlist ==
    ASSUME NEW a \in Allowlist, NEW b \in Allowlist
    PROVE  MergeLists(a, b) \in Allowlist
BY DEF MergeLists, Allowlist

\* Lowering a domain forgets the spelling; lowering an address keeps its "@".
LEMMA LoweredIsSpelled ==
    ASSUME NEW X, NEW entries \in SUBSET (X \X Spellings), NEW x
    PROVE  /\ x \in LoweredDomains(entries) <=> \E s \in Spellings : <<x, s>> \in entries
           /\ x \in LoweredEmails(entries)
                <=> \E s \in Spellings \ {"at"} : <<x, s>> \in entries
<1>1. \A e \in entries : e = <<e[1], e[2]>> /\ e[2] \in Spellings
  OBVIOUS
<1>2. \A s \in Spellings : <<x, s>>[1] = x /\ <<x, s>>[2] = s
  OBVIOUS
<1>3. ASSUME x \in LoweredDomains(entries) PROVE \E s \in Spellings : <<x, s>> \in entries
  <2>1. PICK e \in entries : e[1] = x
    BY <1>3 DEF LoweredDomains
  <2> QED BY <1>1, <2>1
<1>4. ASSUME NEW s \in Spellings, <<x, s>> \in entries PROVE x \in LoweredDomains(entries)
  BY <1>2, <1>4 DEF LoweredDomains
<1>5. ASSUME x \in LoweredEmails(entries)
      PROVE  \E s \in Spellings \ {"at"} : <<x, s>> \in entries
  <2>1. PICK e \in entries : e[1] = x /\ e[2] # "at"
    BY <1>5 DEF LoweredEmails
  <2> QED BY <1>1, <2>1
<1>6. ASSUME NEW s \in Spellings \ {"at"}, <<x, s>> \in entries
      PROVE  x \in LoweredEmails(entries)
  BY <1>2, <1>6 DEF LoweredEmails
<1> QED BY <1>3, <1>4, <1>5, <1>6

\* What a list allows, a merge with it allows.
LEMMA MergeKeeps ==
    ASSUME NEW a \in Allowlist, NEW b \in Allowlist, NEW message \in Message,
           Allowed(message, a)
    PROVE  Allowed(message, MergeLists(a, b))
BY DEF Allowed, OkAddress, LoweredEmails, LoweredDomains, MergeLists

\* The code's verdict on the merged lists is the reference's on the two lists.
LEMMA MergeCovers ==
    ASSUME NEW a \in Allowlist, NEW b \in Allowlist, NEW message \in Message
    PROVE  Allowed(message, MergeLists(a, b)) <=> Covered(message, a, b)
<1>1. CASE message.kind = "email"
  <2>1. message.mail \in Mail
    BY <1>1, PolicyAssumption DEF Message
  <2>2. \A x \in Addresses :
          OkAddress(x, MergeLists(a, b)) <=> x \in LetsThrough(a) \cup LetsThrough(b)
    <3> SUFFICES ASSUME NEW x \in Addresses
                 PROVE  OkAddress(x, MergeLists(a, b))
                            <=> x \in LetsThrough(a) \cup LetsThrough(b)
      OBVIOUS
    <3>1. /\ a.emails \in SUBSET (Addresses \X Spellings)
          /\ b.emails \in SUBSET (Addresses \X Spellings)
          /\ a.domains \in SUBSET (Domains \X Spellings)
          /\ b.domains \in SUBSET (Domains \X Spellings)
      BY DEF Allowlist
    <3>2. /\ MergeLists(a, b).emails = a.emails \cup b.emails
          /\ MergeLists(a, b).domains = a.domains \cup b.domains
      BY DEF MergeLists
    <3>3. /\ x \in LoweredEmails(a.emails \cup b.emails)
                <=> x \in LoweredEmails(a.emails) \/ x \in LoweredEmails(b.emails)
          /\ x.domain \in LoweredDomains(a.domains \cup b.domains)
                <=> \/ x.domain \in LoweredDomains(a.domains)
                    \/ x.domain \in LoweredDomains(b.domains)
      BY DEF LoweredEmails, LoweredDomains
    <3>4. /\ x \in LoweredEmails(a.emails)
                <=> \E s \in Spellings \ {"at"} : <<x, s>> \in a.emails
          /\ x \in LoweredEmails(b.emails)
                <=> \E s \in Spellings \ {"at"} : <<x, s>> \in b.emails
          /\ x.domain \in LoweredDomains(a.domains)
                <=> \E s \in Spellings : <<x.domain, s>> \in a.domains
          /\ x.domain \in LoweredDomains(b.domains)
                <=> \E s \in Spellings : <<x.domain, s>> \in b.domains
      BY <3>1, LoweredIsSpelled
    <3> QED BY <3>2, <3>3, <3>4 DEF OkAddress, LetsThrough
  <2>3. Reaches(message.mail) = Recipients(message.mail)
    BY <2>1 DEF Reaches, Recipients, Mail
  <2>4. Recipients(message.mail) \subseteq Addresses
    BY <2>1 DEF Recipients, Mail
  <2> QED BY <1>1, <2>2, <2>3, <2>4 DEF Allowed, Covered
<1>2. CASE message.kind # "email"
  BY <1>2 DEF Allowed, Covered, MergeLists
<1> QED BY <1>1, <1>2

LEMMA PolicyStep == PolicyInv /\ [PolicyNext]_policyVars => PolicyInv'
<1> SUFFICES ASSUME PolicyInv, [PolicyNext]_policyVars PROVE PolicyInv'
  OBVIOUS
<1> USE DEF PolicyInv, PolicyTypeOK
<1>1. CASE EnforceAllowlist
  <2> DEFINE merged == MergeLists(payload.allowlist, tenantList)
             requires == payload.requires \/ ~Allowed(payload.message, merged)
  <2>1. merged \in Allowlist
    BY MergeIsAllowlist, PolicyAssumption DEF Payload
  <2> HIDE DEF merged
  <2>2. /\ payload'.message = payload.message /\ payload'.allowlist = merged
        /\ payload'.requires = requires
        /\ payload' = [message |-> payload.message, allowlist |-> merged, requires |-> requires]
    BY <1>1 DEF EnforceAllowlist, Enforced, Payload, merged
  <2>3. payload' \in Payload
    BY <2>1, <2>2 DEF Payload
  <2>4. enforced' \in 0..2 /\ tenantList' \in TenantLists
    BY <1>1 DEF EnforceAllowlist
  <2>5. SettledPolicy'
    BY <2>2 DEF SettledPolicy
  <2> QED BY <2>3, <2>4, <2>5
<1>2. ASSUME NEW allow \in TenantLists, PutTenantList(allow) PROVE PolicyInv'
  BY <1>2 DEF PutTenantList, SettledPolicy
<1>3. CASE UNCHANGED policyVars
  BY <1>3 DEF policyVars, SettledPolicy
<1> QED BY <1>1, <1>2, <1>3 DEF PolicyNext

THEOREM PolicyInvariant == PolicySpec => []PolicyInv
<1>1. PolicyInit => PolicyInv
  BY PolicyAssumption DEF PolicyInit, NewPayloads, PolicyInv, PolicyTypeOK, Payload, SettledPolicy
<1> QED BY <1>1, PolicyStep, PTL DEF PolicySpec

\* The verdict falls at creation and is exact: every recipient, blind copies included,
\* against both lists; enforcement at dispatch changes nothing (outbox_policy.py 32, 67).
THEOREM PolicyIsExact == PolicySpec => EnforcementIsExact
<1> DEFINE Exact == enforced' # enforced =>
             (payload'.requires <=>
                \/ payload.requires
                \/ enforced = 0 /\ ~Covered(payload.message, payload.allowlist, tenantList))
<1>1. ASSUME PolicyInv, PolicyNext PROVE Exact
  <2> SUFFICES ASSUME EnforceAllowlist PROVE Exact
    BY <1>1 DEF PolicyNext, PutTenantList
  <2> DEFINE merged == MergeLists(payload.allowlist, tenantList)
  <2>1. /\ payload.allowlist \in Allowlist /\ tenantList \in Allowlist
        /\ payload.message \in Message /\ payload.requires \in BOOLEAN
    BY <1>1, PolicyAssumption DEF PolicyInv, PolicyTypeOK, Payload
  <2>2. payload'.requires <=> payload.requires \/ ~Allowed(payload.message, merged)
    BY <1>1 DEF EnforceAllowlist, Enforced, PolicyInv, PolicyTypeOK, Payload
  <2>3. Allowed(payload.message, merged) <=> Covered(payload.message, payload.allowlist, tenantList)
    BY <2>1, MergeCovers
  <2>4. enforced # 0 => payload.requires \/ Allowed(payload.message, merged)
    BY <1>1, <2>1, MergeKeeps DEF PolicyInv, SettledPolicy
  <2> HIDE DEF merged
  <2> QED BY <2>2, <2>3, <2>4
<1>2. PolicyInv /\ [PolicyNext]_policyVars => [Exact]_policyVars
  BY <1>1
<1> QED BY PolicyInvariant, <1>2, PTL DEF PolicySpec, EnforcementIsExact

-------------------------------------------------------------------------------
\* GrantsWorkflow

\* What is in the tables when the request or the task of w is at a place.
PlaceSound(w) ==
    LET s == step[w]  state == workflow[w].state  status == workflow[w].status IN
    /\ s = "idle" => status = "none" /\ state = "NEW"
    /\ s \in {"enqueue", "rescue"} \cup TaskSteps => status = "RUNNING"
    /\ s \in {"idle", "enqueue", "queued", "source", "analyze", "draft"} => drafts[w] = 0
    /\ s \in {"recordDraft", "tasks", "notify"} => drafts[w] = 1
    /\ s = "notify" => workItems[w] = WorkItems
    /\ s \in {"idle", "enqueue", "queued", "source", "analyze", "draft", "recordDraft", "tasks"}
          => workItems[w] = 0
    /\ s \in {"draft", "recordDraft"} => state = "ANALYZED"
    /\ s \in {"tasks", "notify"} => state = "DRAFTED"

Backed(w) ==
    /\ workflow[w].state = "DRAFTED" => drafts[w] = 1
    /\ workflow[w].state = "NOTIFIED" => drafts[w] = 1 /\ workItems[w] = WorkItems
    /\ workItems[w] # 0 => workflow[w].state \in {"DRAFTED", "NOTIFIED", "FAILED"}
    /\ drafts[w] # 0 => workflow[w].state \notin {"NEW", "SOURCED"}
    /\ workflow[w].status = "COMPLETED" <=> workflow[w].state = "NOTIFIED"

GrantsInv ==
    /\ GrantsTypeOK
    /\ \A w \in Workflows : PlaceSound(w) /\ Backed(w)

LEMMA GrantsInitial == GrantsInit => GrantsInv
BY GrantsAssumption
   DEF GrantsInit, GrantsInv, GrantsTypeOK, PlaceSound, Backed, Workflow, States, Keys, Steps,
       TaskSteps, RequestSteps

\* Save writes the state and the artifacts of one row.
LEMMA SaveRow ==
    ASSUME GrantsTypeOK, NEW w \in Workflows, NEW state \in States, NEW artifacts \in SUBSET Keys,
           Save(w, state, artifacts)
    PROVE  /\ workflow' \in [Workflows -> Workflow]
           /\ workflow'[w].state = state /\ workflow'[w].status = workflow[w].status
           /\ \A v \in Workflows \ {w} : workflow'[v] = workflow[v]
<1>1. workflow[w] \in Workflow
  BY DEF GrantsTypeOK
<1> DEFINE new == [workflow[w] EXCEPT !.state = state, !.artifacts = artifacts]
<1>2. new \in Workflow /\ new.state = state /\ new.status = workflow[w].status
  BY <1>1 DEF Workflow
<1>3. workflow' = [workflow EXCEPT ![w] = new]
  BY DEF Save
<1> HIDE DEF new
<1> QED BY <1>2, <1>3 DEF GrantsTypeOK

\* A step of workflow w touches nothing of the others.
LEMMA GrantsStep ==
    ASSUME GrantsInv, NEW w \in Workflows,
           StartWorkflow(w) \/ WorkOn(w) \/ GetWorkflow(w) \/ RaiseInWorkflow(w) \/ StrandWorkflow(w)
    PROVE  GrantsInv'
<1> USE GrantsAssumption
    DEF GrantsInv, GrantsTypeOK, PlaceSound, Backed, Workflow, States, Keys, Steps, TaskSteps,
        RequestSteps, Move, SetInPlace
<1>1. CASE StartWorkflow(w)
  BY <1>1, SMTT(20) DEF StartWorkflow
<1>2. CASE EnqueueWorkflow(w)
  BY <1>2 DEF EnqueueWorkflow
<1>3. CASE TakeWorkflow(w)
  BY <1>3 DEF TakeWorkflow
<1>4. CASE SourceGrants(w)
  <2>1. /\ workflow' \in [Workflows -> Workflow]
        /\ workflow'[w].state = "SOURCED" /\ workflow'[w].status = workflow[w].status
        /\ \A v \in Workflows \ {w} : workflow'[v] = workflow[v]
    BY <1>4, SaveRow DEF SourceGrants
  <2>2. /\ step[w] = "source" /\ step' = [step EXCEPT ![w] = "analyze"]
        /\ UNCHANGED <<drafts, workItems, stranded>>
    BY <1>4 DEF SourceGrants
  <2> QED BY <2>1, <2>2
<1>5. CASE SelectGrant(w)
  <2>1. /\ workflow' \in [Workflows -> Workflow]
        /\ workflow'[w].state = "ANALYZED" /\ workflow'[w].status = workflow[w].status
        /\ \A v \in Workflows \ {w} : workflow'[v] = workflow[v]
    BY <1>5, SaveRow DEF SelectGrant
  <2>2. /\ step[w] = "analyze" /\ step' = [step EXCEPT ![w] = "draft"]
        /\ UNCHANGED <<drafts, workItems, stranded>>
    BY <1>5 DEF SelectGrant
  <2> QED BY <2>1, <2>2
<1>6. CASE StoreDraft(w)
  BY <1>6 DEF StoreDraft
<1>7. CASE RecordDraft(w)
  <2>1. /\ workflow' \in [Workflows -> Workflow]
        /\ workflow'[w].state = "DRAFTED" /\ workflow'[w].status = workflow[w].status
        /\ \A v \in Workflows \ {w} : workflow'[v] = workflow[v]
    BY <1>7, SaveRow DEF RecordDraft
  <2>2. /\ step[w] = "recordDraft" /\ step' = [step EXCEPT ![w] = "tasks"]
        /\ UNCHANGED <<drafts, workItems, stranded>>
    BY <1>7 DEF RecordDraft
  <2> QED BY <2>1, <2>2
<1>8. CASE StoreWorkItems(w)
  BY <1>8 DEF StoreWorkItems
<1>9. CASE Notify(w)
  <2> DEFINE new == [status |-> "COMPLETED", state |-> "NOTIFIED",
                     artifacts |-> workflow[w].artifacts]
  <2>1. new \in Workflow /\ new.status = "COMPLETED" /\ new.state = "NOTIFIED"
    OBVIOUS
  <2>2. workflow' = [workflow EXCEPT ![w] = new]
    BY <1>9 DEF Notify
  <2> HIDE DEF new
  <2>3. /\ step[w] = "notify" /\ step' = [step EXCEPT ![w] = "ended"]
        /\ UNCHANGED <<drafts, workItems, stranded>>
    BY <1>9 DEF Notify
  <2> QED BY <2>1, <2>2, <2>3
<1>10. CASE RescueWorkflow(w)
  BY <1>10 DEF RescueWorkflow
<1>11. CASE RaiseInWorkflow(w)
  BY <1>11 DEF RaiseInWorkflow
<1>12. CASE StrandWorkflow(w)
  BY <1>12 DEF StrandWorkflow
<1>13. CASE GetWorkflow(w)
  BY <1>13 DEF GetWorkflow, grantsVars
<1> QED BY <1>1, <1>2, <1>3, <1>4, <1>5, <1>6, <1>7, <1>8, <1>9, <1>10, <1>11, <1>12, <1>13
        DEF WorkOn

THEOREM GrantsInvariant == GrantsSpec => []GrantsInv
<1>1. GrantsInv /\ UNCHANGED grantsVars => GrantsInv'
  BY DEF grantsVars, GrantsInv, GrantsTypeOK, PlaceSound, Backed
<1>2. GrantsInv /\ [GrantsNext]_grantsVars => GrantsInv'
  BY <1>1, GrantsStep DEF GrantsNext
<1> QED BY GrantsInitial, <1>2, PTL DEF GrantsSpec

\* What the state of a workflow reports is stored, wherever its task was cut short
\* (workflow.py 85, 91, 106, 113).
THEOREM StateReportsWhatIsStored == GrantsSpec => []StateIsBacked
<1>1. GrantsInv => StateIsBacked
  BY DEF GrantsInv, Backed, StateIsBacked
<1> QED BY GrantsInvariant, <1>1, PTL

-------------------------------------------------------------------------------
\* TenantCreate

\* Every id that is drawn belongs to one caller or one row.
TenantInv ==
    /\ TenantTypeOK
    /\ NamesAgree
    /\ \A n \in Names, c \in Callers : tenant[n] # 0 => tenant[n] # call[c].id
    /\ \A c, d \in Callers : call[c].id = call[d].id /\ call[c].id # 0 => c = d
    /\ \A c \in Callers :
         /\ call[c].pc = "insert" <=> call[c].id # 0 /\ call[c].pc # "again"
         /\ call[c].pc = "again" => tenant[call[c].name] # 0

\* The values of a function on a finite set are no more than its arguments.
LEMMA FewValues ==
    ASSUME NEW S, IsFiniteSet(S), NEW f \in [S -> Nat]
    PROVE  /\ IsFiniteSet({f[x] : x \in S})
           /\ Cardinality({f[x] : x \in S}) <= Cardinality(S)
<1> DEFINE T == {f[x] : x \in S}
<1>1. f \in Surjection(S, T)
  BY DEF Surjection
<1> QED BY <1>1, FS_Surjection

\* There is an id left for a caller that has not drawn one.
LEMMA IdsLast ==
    ASSUME TenantInv, NEW c \in Callers, call[c].id = 0
    PROVE  /\ NewUuid \in 1..MaxIds
           /\ \A n \in Names : NewUuid # tenant[n] /\ NewUuid \notin told[n]
           /\ \A d \in Callers : NewUuid # call[d].id
<1> USE TenantAssumption
<1> DEFINE ids == [d \in Callers |-> call[d].id]
           taken == {tenant[n] : n \in Names}
           drawn == {ids[d] : d \in Callers}
<1>1. tenant \in [Names -> Nat] /\ ids \in [Callers -> Nat]
  BY DEF TenantInv, TenantTypeOK, Call
<1>2. IsFiniteSet(taken) /\ Cardinality(taken) <= Cardinality(Names)
  BY <1>1, FewValues
<1>3. IsFiniteSet(drawn) /\ Cardinality(drawn) <= Cardinality(Callers)
  <2> HIDE DEF ids
  <2> QED BY <1>1, FewValues
<1> HIDE DEF taken, drawn
<1>4. IsFiniteSet(taken \cup drawn) /\ Cardinality(taken \cup drawn) <= MaxIds
  <2>1. IsFiniteSet(taken \cap drawn)
    BY <1>2, FS_Intersection
  <2>2. /\ Cardinality(Names) \in Nat /\ Cardinality(Callers) \in Nat
        /\ Cardinality(taken) \in Nat /\ Cardinality(drawn) \in Nat
        /\ Cardinality(taken \cap drawn) \in Nat
    BY <1>2, <1>3, <2>1, FS_CardinalityType
  <2>3. /\ IsFiniteSet(taken \cup drawn)
        /\ Cardinality(taken \cup drawn)
              = Cardinality(taken) + Cardinality(drawn) - Cardinality(taken \cap drawn)
    BY <1>2, <1>3, FS_Union
  <2> QED BY <1>2, <1>3, <2>2, <2>3
<1>5. \E id \in 0..MaxIds : id \notin taken \cup drawn
  <2> SUFFICES ASSUME 0..MaxIds \subseteq taken \cup drawn PROVE FALSE
    OBVIOUS
  <2>1. Cardinality(0..MaxIds) <= Cardinality(taken \cup drawn)
    BY <1>4, FS_Subset
  <2>2. Cardinality(0..MaxIds) = MaxIds + 1
    <3>1. MaxIds \in Nat
      OBVIOUS
    <3>2. Cardinality(0..MaxIds) = IF 0 > MaxIds THEN 0 ELSE MaxIds - 0 + 1
      BY <3>1, FS_Interval
    <3> QED BY <3>1, <3>2
  <2>3. Cardinality(taken \cup drawn) \in Nat
    BY <1>4, FS_CardinalityType
  <2> QED BY <1>4, <2>1, <2>2, <2>3
<1>6. PICK id \in 0..MaxIds : id \notin taken \cup drawn
  BY <1>5
<1>7. id # 0
  BY <1>6 DEF drawn
<1>8. /\ id \in 1..MaxIds
      /\ \A n \in Names : id # tenant[n] /\ id \notin told[n]
      /\ \A d \in Callers : id # call[d].id
  BY <1>6, <1>7 DEF taken, drawn, TenantInv, NamesAgree
<1> QED BY <1>8 DEF NewUuid

LEMMA TenantStep ==
    ASSUME TenantInv, NEW c \in Callers,
           \/ \E n \in Names : AskTenant(c, n)
           \/ LookupTenant(c) \/ InsertTenant(c) \/ LookupAgain(c)
    PROVE  TenantInv'
<1> USE TenantAssumption DEF TenantInv, TenantTypeOK, NamesAgree, NoCall
<1>0. call[c] \in Call
  OBVIOUS
<1>1. ASSUME NEW n \in Names, AskTenant(c, n) PROVE TenantInv'
  <2> DEFINE new == [pc |-> "lookup", id |-> 0, name |-> n]
  <2>1. new \in Call /\ new.pc = "lookup" /\ new.id = 0
    BY DEF Call
  <2>2. call' = [call EXCEPT ![c] = new] /\ UNCHANGED <<tenant, told>>
    BY <1>1 DEF AskTenant
  <2> HIDE DEF new
  <2> QED BY <2>1, <2>2
\* The two ways in which a caller leaves with an answer.
<1>2. ASSUME NEW n \in Names, call[c].name = n,
             call[c].pc # "idle", call' = [call EXCEPT ![c] = NoCall],
             told' = [told EXCEPT ![n] = told[n] \cup {tenant'[n]}],
             \/ UNCHANGED tenant /\ tenant[n] # 0
             \/ /\ call[c].pc = "insert" /\ tenant[n] = 0
                /\ tenant' = [tenant EXCEPT ![n] = call[c].id]
      PROVE  TenantInv'
  <2>1. call[c].id \in 0..MaxIds
    BY <1>0 DEF Call
  <2>2. NoCall \in Call /\ NoCall.pc = "idle" /\ NoCall.id = 0
    BY DEF Call
  <2>3. /\ call'[c] = NoCall /\ \A d \in Callers \ {c} : call'[d] = call[d]
        /\ call' \in [Callers -> Call]
    BY <1>2, <2>2
  <2>4. /\ tenant' \in [Names -> 0..MaxIds] /\ tenant'[n] # 0
        /\ \A k \in Names \ {n} : tenant'[k] = tenant[k]
        /\ tenant'[n] = tenant[n] \/ (tenant'[n] = call[c].id /\ tenant[n] = 0)
    BY <1>2, <2>1
  <2>5. /\ told' \in [Names -> SUBSET (0..MaxIds)]
        /\ told'[n] \subseteq {tenant'[n]}
        /\ \A k \in Names \ {n} : told'[k] = told[k]
    BY <1>2, <2>4
  <2> HIDE DEF NoCall
  <2>6. NamesAgree'
    BY <2>4, <2>5
  <2>7. \A k \in Names, d \in Callers : tenant'[k] # 0 => tenant'[k] # call'[d].id
    BY <1>2, <2>2, <2>3, <2>4
  <2>8. \A d, e \in Callers : call'[d].id = call'[e].id /\ call'[d].id # 0 => d = e
    BY <2>2, <2>3
  <2>9. \A d \in Callers :
          /\ call'[d].pc = "insert" <=> call'[d].id # 0 /\ call'[d].pc # "again"
          /\ call'[d].pc = "again" => tenant'[call'[d].name] # 0
    <3>1. \A d \in Callers : call[d].pc = "again" => call[d].name \in Names
      BY DEF Call
    <3> QED BY <2>2, <2>3, <2>4, <3>1
  <2> QED BY <2>3, <2>4, <2>5, <2>6, <2>7, <2>8, <2>9
<1>3. CASE LookupTenant(c)
  <2>1. CASE tenant[call[c].name] # 0
    BY <1>0, <1>2, <1>3, <2>1 DEF LookupTenant, AnswerTenant, Call
  <2>2. CASE tenant[call[c].name] = 0
    <3>1. call[c].pc = "lookup" /\ call[c].id = 0 /\ call[c].name \in Names
      BY <1>0, <1>3 DEF LookupTenant, Call
    <3>2. /\ NewUuid \in 1..MaxIds
          /\ \A n \in Names : NewUuid # tenant[n] /\ NewUuid \notin told[n]
          /\ \A d \in Callers : NewUuid # call[d].id
      BY <3>1, IdsLast
    <3> DEFINE new == [call[c] EXCEPT !.pc = "insert", !.id = NewUuid]
               Drawn == [pc: {"lookup", "insert", "again"}, id: 0..MaxIds, name: Names]
    <3>3. new \in Call /\ new.pc = "insert" /\ new.id = NewUuid
      <4>1. call[c] \in Drawn
        BY <1>0, <3>1 DEF Call
      <4>2. NewUuid \in 0..MaxIds
        BY <3>2
      <4>3. \A id \in 0..MaxIds :
              LET r == [call[c] EXCEPT !.pc = "insert", !.id = id]
              IN  r \in Drawn /\ r.pc = "insert" /\ r.id = id
        BY <4>1
      <4> QED BY <4>2, <4>3 DEF Call
    <3>4. call' = [call EXCEPT ![c] = new] /\ UNCHANGED <<tenant, told>>
      BY <1>3, <2>2 DEF LookupTenant
    <3> HIDE DEF new
    <3> QED BY <3>1, <3>2, <3>3, <3>4
  <2> QED BY <2>1, <2>2
<1>4. CASE InsertTenant(c)
  <2>1. CASE tenant[call[c].name] = 0
    BY <1>0, <1>2, <1>4, <2>1 DEF InsertTenant, AnswerTenant, Call
  <2>2. CASE tenant[call[c].name] # 0 /\ c \in Seeds
    <3>1. call' = [call EXCEPT ![c] = NoCall] /\ UNCHANGED <<tenant, told>>
      BY <1>4, <2>2 DEF InsertTenant
    <3> QED BY <3>1 DEF Call
  <2>3. CASE tenant[call[c].name] # 0 /\ c \notin Seeds
    <3> DEFINE new == [call[c] EXCEPT !.pc = "again"]
    <3>1. new \in Call /\ new.pc = "again" /\ new.id = call[c].id /\ new.name = call[c].name
      BY <1>0, <1>4 DEF InsertTenant, Call
    <3>2. call' = [call EXCEPT ![c] = new] /\ UNCHANGED <<tenant, told>>
      BY <1>4, <2>3 DEF InsertTenant
    <3>3. call[c].pc = "insert"
      BY <1>4 DEF InsertTenant
    <3> HIDE DEF new
    <3> QED BY <2>3, <3>1, <3>2, <3>3
  <2> QED BY <2>1, <2>2, <2>3
<1>5. CASE LookupAgain(c)
  BY <1>0, <1>2, <1>5 DEF LookupAgain, AnswerTenant, Call
<1> QED BY <1>1, <1>3, <1>4, <1>5

THEOREM TenantInvariant == TenantSpec => []TenantInv
<1>1. TenantInit => TenantInv
  BY TenantAssumption DEF TenantInit, TenantInv, TenantTypeOK, NamesAgree, NoCall, Call
<1>2. TenantInv /\ UNCHANGED tenantVars => TenantInv'
  BY DEF tenantVars, TenantInv, TenantTypeOK, NamesAgree
<1>3. TenantInv /\ [TenantNext]_tenantVars => TenantInv'
  BY <1>2, TenantStep DEF TenantNext
<1> QED BY <1>1, <1>3, PTL DEF TenantSpec

\* However many callers race for a name, all answers name the one stored row
\* (admin.py 26-45, ids.py 19-23).
THEOREM OneTenantPerName == TenantSpec => []NamesAgree
<1>1. TenantInv => NamesAgree
  BY DEF TenantInv
<1> QED BY TenantInvariant, <1>1, PTL

-------------------------------------------------------------------------------
\* Bootstrap

\* A refresh that no other one overlaps: what it has passed agrees with what it has read,
\* what it has not passed is older than itself.
RefreshSound(r) ==
    /\ \A q \in Refreshers : Active(q) => q = r
    /\ \A i \in DOMAIN Sources :
         IF i < refresh[r].next
         THEN /\ Versions(Sources[i]) # {}
              /\ Latest(Sources[i]).content = refresh[r].seen[Sources[i]]
         ELSE \A d \in Versions(Sources[i]) : d.at < refresh[r].at
    /\ refresh[r].pc = "insert" => ~Unchanged(TypeAt(r), refresh[r].seen[TypeAt(r)])

PlaceInSources(r) ==
    Active(r) => /\ refresh[r].at <= now
                 /\ refresh[r].pc = "audit" <=> refresh[r].next = Len(Sources) + 1

Answered(r) ==
    refresh[r].pc = "answered" =>
        /\ \A q \in Refreshers : ~Active(q)
        /\ ContextVersion = refresh[r].seen

BootstrapInv ==
    /\ BootstrapTypeOK
    /\ \A d \in docs : d.at <= now
    /\ \A r \in Refreshers : PlaceInSources(r) /\ Answered(r)
    /\ \A r \in Refreshers : Active(r) /\ refresh[r].alone => RefreshSound(r)

LEMMA SourceTypes ==
    /\ Len(Sources) \in Nat \ {0} /\ DOMAIN Sources = 1..Len(Sources)
    /\ \A i \in 1..Len(Sources) : Sources[i] \in DocTypes
    /\ \A t \in DocTypes : \E i \in 1..Len(Sources) : t = Sources[i]
    /\ \A i, j \in 1..Len(Sources) : Sources[i] = Sources[j] => i = j
<1>1. Sources \in Seq(DocTypes) /\ Sources # <<>>
  BY BootstrapAssumption
<1>2. Len(Sources) \in Nat \ {0} /\ DOMAIN Sources = 1..Len(Sources)
  BY <1>1
<1> QED BY <1>2, BootstrapAssumption DEF DocTypes

\* A version later than all the others is the newest one.
LEMMA LaterIsNewest ==
    ASSUME NEW versions, NEW d, d.at \in Nat, \A e \in versions : e.at \in Nat /\ e.at < d.at
    PROVE  Newest(versions \cup {d}) = d
<1>1. \A e \in versions \cup {d} : e.at <= d.at
  OBVIOUS
<1>2. \A x \in versions \cup {d} : (\A e \in versions \cup {d} : e.at <= x.at) => x = d
  OBVIOUS
<1> QED BY <1>1, <1>2 DEF Newest

\* What depends on the documents alone does not change without them.
LEMMA SameDocs ==
    ASSUME UNCHANGED docs
    PROVE  /\ \A t : Versions(t)' = Versions(t) /\ Latest(t)' = Latest(t)
           /\ \A t, c : Unchanged(t, c)' = Unchanged(t, c)
           /\ ContextVersion' = ContextVersion
<1>1. \A t : Versions(t)' = Versions(t)
  BY DEF Versions
<1>2. \A t : Latest(t)' = Latest(t)
  BY <1>1 DEF Latest
<1>3. Present' = Present
  BY <1>1 DEF Present
<1> QED BY <1>1, <1>2, <1>3 DEF Unchanged, ContextVersion

LEMMA BootstrapInitial == BootstrapInit => BootstrapInv
<1> SUFFICES ASSUME BootstrapInit PROVE BootstrapInv
  OBVIOUS
<1>1. NoRefresh \in Refresh /\ NoRefresh.pc = "idle"
  BY BootstrapAssumption, SourceTypes DEF NoRefresh, Refresh
<1>2. BootstrapTypeOK
  <2>1. files \in [DocTypes -> Contents] /\ edited \in BOOLEAN
    BY Zenon DEF BootstrapInit
  <2>2. docs \subseteq Document /\ now \in 0..MaxTime
    BY BootstrapAssumption DEF BootstrapInit
  <2>3. refresh \in [Refreshers -> Refresh]
    BY <1>1 DEF BootstrapInit
  <2> QED BY <2>1, <2>2, <2>3 DEF BootstrapTypeOK
<1>3. \A r \in Refreshers : refresh[r].pc = "idle"
  BY <1>1 DEF BootstrapInit
<1> QED BY <1>2, <1>3 DEF BootstrapInit, BootstrapInv, PlaceInSources, Answered, Active

LEMMA BeginKeeps ==
    ASSUME BootstrapInv, NEW r \in Refreshers, BeginRefresh(r) PROVE BootstrapInv'
<1> USE SourceTypes, BootstrapAssumption
<1> DEFINE begun == [pc |-> "read", at |-> now + 1, next |-> 1, seen |-> NoRefresh.seen,
                     alone |-> \A other \in Refreshers : ~Active(other)]
<1>0. now' = now + 1 /\ now' \in 0..MaxTime /\ ~Active(r) /\ UNCHANGED <<docs, files>>
  <2>1. now' = now + 1 /\ now < MaxTime /\ ~Active(r) /\ UNCHANGED <<docs, files>>
    BY DEF BeginRefresh
  <2>2. now \in 0..MaxTime
    BY DEF BootstrapInv, BootstrapTypeOK
  <2> QED BY <2>1, <2>2
<1>1. NoRefresh \in Refresh /\ NoRefresh.pc = "idle"
  BY DEF NoRefresh, Refresh
<1>2. /\ begun \in Refresh /\ begun.pc = "read" /\ begun.at = now + 1 /\ begun.next = 1
      /\ begun.alone => \A other \in Refreshers : ~Active(other)
  <2>1. (\A other \in Refreshers : ~Active(other)) \in BOOLEAN
    OBVIOUS
  <2>2. 1 \in 1..Len(Sources) + 1 /\ NoRefresh.seen \in [DocTypes -> Contents]
    BY <1>1 DEF Refresh
  <2> QED BY <1>0, <2>1, <2>2 DEF Refresh
<1>3. refresh' = [q \in Refreshers |->
         IF q = r THEN begun
         ELSE IF Active(q) THEN [refresh[q] EXCEPT !.alone = FALSE] ELSE NoRefresh]
  BY DEF BeginRefresh
<1> HIDE DEF begun
<1>4. ASSUME NEW q \in Refreshers, q # r, Active(q)
      PROVE  /\ refresh'[q] \in Refresh /\ ~refresh'[q].alone /\ Active(q)'
             /\ refresh'[q].pc = refresh[q].pc /\ refresh'[q].at = refresh[q].at
             /\ refresh'[q].next = refresh[q].next
  <2>1. refresh'[q] = [refresh[q] EXCEPT !.alone = FALSE] /\ refresh[q] \in Refresh
    BY <1>3, <1>4 DEF BootstrapInv, BootstrapTypeOK
  <2> QED BY <1>4, <2>1 DEF Refresh, Active
<1>5. ASSUME NEW q \in Refreshers, q # r, ~Active(q) PROVE refresh'[q] = NoRefresh /\ ~Active(q)'
  BY <1>1, <1>3, <1>5 DEF Active
<1>6. refresh'[r] = begun
  BY <1>3
<1>7. BootstrapTypeOK'
  <2>1. \A q \in Refreshers : refresh'[q] \in Refresh
    BY <1>1, <1>2, <1>4, <1>5, <1>6
  <2>2. refresh' \in [Refreshers -> Refresh]
    BY <1>3, <2>1
  <2>3. edited' \in BOOLEAN
    BY Zenon DEF BeginRefresh
  <2> QED BY <1>0, <2>2, <2>3 DEF BootstrapInv, BootstrapTypeOK
<1>8. \A d \in docs' : d.at <= now'
  BY <1>0 DEF BootstrapInv, BootstrapTypeOK, Document
<1>9. ASSUME NEW q \in Refreshers PROVE PlaceInSources(q)' /\ Answered(q)'
  <2>1. CASE q = r
    BY <1>0, <1>2, <1>6, <2>1 DEF PlaceInSources, Answered, BootstrapInv, BootstrapTypeOK
  <2>2. CASE q # r /\ Active(q)
    BY <1>0, <1>4, <2>2
       DEF PlaceInSources, Answered, BootstrapInv, BootstrapTypeOK, Refresh, Active
  <2>3. CASE q # r /\ ~Active(q)
    BY <1>1, <1>5, <2>3 DEF PlaceInSources, Answered
  <2> QED BY <2>1, <2>2, <2>3
<1>10. ASSUME NEW q \in Refreshers, Active(q)', refresh'[q].alone PROVE RefreshSound(q)'
  <2>1. q = r
    BY <1>4, <1>5, <1>10
  <2>2. \A p \in Refreshers \ {r} : ~Active(p)'
    BY <1>2, <1>5, <1>6, <1>10, <2>1
  <2>3. \A i \in 1..Len(Sources) : \A d \in Versions(Sources[i])' : d.at < refresh'[r].at
    BY <1>0, <1>2, <1>6 DEF Versions, BootstrapInv, BootstrapTypeOK, Document
  <2> QED BY <1>2, <1>6, <2>1, <2>2, <2>3 DEF RefreshSound
<1> QED BY <1>7, <1>8, <1>9, <1>10 DEF BootstrapInv

\* A step of an active refresh r: only its own part of the invariant has to be shown.
LEMMA OwnStep ==
    ASSUME BootstrapInv, BootstrapTypeOK', NEW r \in Refreshers, Active(r), now' = now,
           \A d \in docs' : d.at <= now,
           \A q \in Refreshers \ {r} : refresh'[q] = refresh[q],
           PlaceInSources(r)', Answered(r)',
           Active(r)' /\ refresh'[r].alone => RefreshSound(r)'
    PROVE  BootstrapInv'
<1>1. ASSUME NEW q \in Refreshers, q # r PROVE PlaceInSources(q)' /\ Answered(q)'
  BY <1>1 DEF BootstrapInv, PlaceInSources, Answered, Active
<1>2. ASSUME NEW q \in Refreshers, q # r, Active(q)', refresh'[q].alone PROVE FALSE
  BY <1>2 DEF BootstrapInv, RefreshSound, Active
<1> QED BY <1>1, <1>2 DEF BootstrapInv

\* The place of an active refresh that has not read everything.
LEMMA TypeOfPlace ==
    ASSUME BootstrapInv, NEW r \in Refreshers, refresh[r].pc \in {"read", "query", "insert"}
    PROVE  /\ Active(r) /\ refresh[r].next \in 1..Len(Sources) /\ TypeAt(r) \in DocTypes
           /\ refresh[r].at \in 0..now /\ refresh[r].at \in 0..MaxTime /\ refresh[r] \in Refresh
<1>1. Active(r) /\ refresh[r] \in Refresh
  BY DEF Active, BootstrapInv, BootstrapTypeOK
<1>2. refresh[r].next \in 1..Len(Sources) + 1 /\ refresh[r].next # Len(Sources) + 1
  BY <1>1 DEF Refresh, BootstrapInv, PlaceInSources
<1>3. refresh[r].next \in 1..Len(Sources)
  BY <1>2, SourceTypes
<1>4. refresh[r].at \in 0..now /\ refresh[r].at \in 0..MaxTime
  BY <1>1, BootstrapAssumption DEF Refresh, BootstrapInv, BootstrapTypeOK, PlaceInSources
<1> QED BY <1>1, <1>3, <1>4, SourceTypes DEF TypeAt

LEMMA ReadKeeps ==
    ASSUME BootstrapInv, NEW r \in Refreshers, ReadFile(r) PROVE BootstrapInv'
<1> DEFINE t == TypeAt(r)
           new == [refresh[r] EXCEPT !.pc = "query", !.seen[t] = files[t]]
<1>1. /\ refresh[r].pc = "read" /\ refresh' = [refresh EXCEPT ![r] = new]
      /\ UNCHANGED <<files, docs, now, edited>>
  BY DEF ReadFile
<1>2. /\ Active(r) /\ refresh[r].next \in 1..Len(Sources) /\ t \in DocTypes
      /\ refresh[r] \in Refresh
  BY <1>1, TypeOfPlace
<1>3. files[t] \in Contents
  BY <1>2 DEF BootstrapInv, BootstrapTypeOK
<1>4. /\ new \in Refresh /\ new.pc = "query" /\ new.next = refresh[r].next
      /\ new.at = refresh[r].at /\ new.alone = refresh[r].alone
      /\ \A u \in DocTypes \ {t} : new.seen[u] = refresh[r].seen[u]
  BY <1>2, <1>3 DEF Refresh
<1> HIDE DEF new
<1>5. refresh'[r] = new /\ \A q \in Refreshers \ {r} : refresh'[q] = refresh[q]
  BY <1>1 DEF BootstrapInv, BootstrapTypeOK
<1>6. BootstrapTypeOK'
  BY <1>1, <1>4 DEF BootstrapInv, BootstrapTypeOK
<1>7. PlaceInSources(r)' /\ Answered(r)'
  BY <1>1, <1>2, <1>4, <1>5 DEF BootstrapInv, PlaceInSources, Answered, Active
<1>8. ASSUME refresh'[r].alone PROVE RefreshSound(r)'
  <2>1. RefreshSound(r)
    BY <1>2, <1>4, <1>5, <1>8 DEF BootstrapInv
  <2>2. \A i \in 1..Len(Sources) : i < refresh[r].next => Sources[i] \in DocTypes \ {t}
    BY <1>2, SourceTypes DEF TypeAt
  <2>3. \A u : Versions(u)' = Versions(u) /\ Latest(u)' = Latest(u)
    BY <1>1, SameDocs
  <2>4. \A q \in Refreshers : Active(q)' => q = r
    BY <1>5, <2>1 DEF RefreshSound, Active
  <2> QED BY <1>4, <1>5, <2>1, <2>2, <2>3, <2>4, SourceTypes DEF RefreshSound
<1> QED BY <1>1, <1>2, <1>5, <1>6, <1>7, <1>8, OwnStep DEF BootstrapInv

\* Going on to the next file.
LEMMA NextPlace ==
    ASSUME BootstrapInv, NEW r \in Refreshers, refresh[r].pc \in {"read", "query", "insert"},
           NextFile(r)
    PROVE  /\ refresh' \in [Refreshers -> Refresh]
           /\ refresh'[r].next = refresh[r].next + 1
           /\ refresh'[r].pc = IF refresh[r].next = Len(Sources) THEN "audit" ELSE "read"
           /\ refresh'[r].at = refresh[r].at /\ refresh'[r].seen = refresh[r].seen
           /\ refresh'[r].alone = refresh[r].alone
           /\ \A q \in Refreshers \ {r} : refresh'[q] = refresh[q]
<1> DEFINE pc == IF refresh[r].next = Len(Sources) THEN "audit" ELSE "read"
           next == refresh[r].next + 1
           new == [refresh[r] EXCEPT !.next = next, !.pc = pc]
<1>1. refresh[r] \in Refresh /\ refresh[r].next \in 1..Len(Sources)
  BY TypeOfPlace
<1>2. next \in 1..Len(Sources) + 1 /\ pc \in {"audit", "read"}
  BY <1>1, SourceTypes
<1>3. refresh' = [refresh EXCEPT ![r] = new]
  BY DEF NextFile
<1> HIDE DEF pc, next
<1>4. /\ new \in Refresh /\ new.next = next /\ new.pc = pc /\ new.at = refresh[r].at
      /\ new.seen = refresh[r].seen /\ new.alone = refresh[r].alone
  BY <1>1, <1>2 DEF Refresh
<1> HIDE DEF new
<1>5. refresh \in [Refreshers -> Refresh]
  BY DEF BootstrapInv, BootstrapTypeOK
<1> QED BY <1>3, <1>4, <1>5 DEF pc, next

LEMMA QueryKeeps ==
    ASSUME BootstrapInv, NEW r \in Refreshers, QueryLatest(r) PROVE BootstrapInv'
<1> DEFINE t == TypeAt(r)
<1>1. /\ Active(r) /\ refresh[r].next \in 1..Len(Sources) /\ t \in DocTypes
      /\ refresh[r].at \in 0..now /\ refresh[r] \in Refresh
      /\ refresh[r].pc = "query" /\ UNCHANGED <<files, docs, now, edited>>
  BY TypeOfPlace DEF QueryLatest
<1>2. \A u : Versions(u)' = Versions(u) /\ Latest(u)' = Latest(u)
  BY <1>1, SameDocs
<1>3. CASE Unchanged(t, refresh[r].seen[t])
  <2>1. NextFile(r)
    BY <1>3 DEF QueryLatest
  <2>2. /\ refresh' \in [Refreshers -> Refresh]
        /\ refresh'[r].next = refresh[r].next + 1
        /\ refresh'[r].pc = IF refresh[r].next = Len(Sources) THEN "audit" ELSE "read"
        /\ refresh'[r].at = refresh[r].at /\ refresh'[r].seen = refresh[r].seen
        /\ refresh'[r].alone = refresh[r].alone
        /\ \A q \in Refreshers \ {r} : refresh'[q] = refresh[q]
    BY <1>1, <2>1, NextPlace
  <2>3. BootstrapTypeOK'
    BY <1>1, <2>2 DEF BootstrapInv, BootstrapTypeOK
  <2>4. PlaceInSources(r)' /\ Answered(r)'
    BY <1>1, <2>2, SourceTypes DEF PlaceInSources, Answered
  <2>5. ASSUME refresh'[r].alone PROVE RefreshSound(r)'
    <3>1. RefreshSound(r)
      BY <1>1, <2>2, <2>5 DEF BootstrapInv
    <3>2. \A q \in Refreshers : Active(q)' => q = r
      BY <2>2, <3>1 DEF RefreshSound, Active
    <3>3. Versions(t) # {} /\ Latest(t).content = refresh[r].seen[t]
      BY <1>3 DEF Unchanged
    <3> QED BY <1>1, <1>2, <2>2, <3>1, <3>2, <3>3, SourceTypes DEF RefreshSound, TypeAt
  <2> QED BY <1>1, <2>2, <2>3, <2>4, <2>5, OwnStep DEF BootstrapInv
<1>4. CASE ~Unchanged(t, refresh[r].seen[t])
  <2> DEFINE new == [refresh[r] EXCEPT !.pc = "insert"]
  <2>1. refresh' = [refresh EXCEPT ![r] = new]
    BY <1>4 DEF QueryLatest
  <2>2. /\ new \in Refresh /\ new.pc = "insert" /\ new.next = refresh[r].next
        /\ new.at = refresh[r].at /\ new.alone = refresh[r].alone /\ new.seen = refresh[r].seen
    BY <1>1 DEF Refresh
  <2> HIDE DEF new
  <2>3. refresh'[r] = new /\ \A q \in Refreshers \ {r} : refresh'[q] = refresh[q]
    BY <2>1 DEF BootstrapInv, BootstrapTypeOK
  <2>4. BootstrapTypeOK'
    BY <1>1, <2>1, <2>2 DEF BootstrapInv, BootstrapTypeOK
  <2>5. PlaceInSources(r)' /\ Answered(r)'
    BY <1>1, <2>2, <2>3 DEF BootstrapInv, PlaceInSources, Answered, Active
  <2>6. ASSUME refresh'[r].alone PROVE RefreshSound(r)'
    <3>1. RefreshSound(r)
      BY <1>1, <2>2, <2>3, <2>6 DEF BootstrapInv
    <3>2. \A q \in Refreshers : Active(q)' => q = r
      BY <2>3, <3>1 DEF RefreshSound, Active
    <3>3. TypeAt(r)' = t /\ ~Unchanged(t, refresh[r].seen[t])'
      BY <1>2, <1>4, <2>2, <2>3 DEF TypeAt, Unchanged
    <3> QED BY <1>2, <2>2, <2>3, <3>1, <3>2, <3>3 DEF RefreshSound, Unchanged
  <2> QED BY <1>1, <2>3, <2>4, <2>5, <2>6, OwnStep DEF BootstrapInv
<1> QED BY <1>3, <1>4

LEMMA InsertKeeps ==
    ASSUME BootstrapInv, NEW r \in Refreshers, InsertDocument(r) PROVE BootstrapInv'
<1>0. PICK t \in DocTypes : t = TypeAt(r)
  BY TypeOfPlace DEF InsertDocument
<1> DEFINE d == [type |-> t, content |-> refresh[r].seen[t], at |-> refresh[r].at]
<1>1. /\ Active(r) /\ refresh[r].next \in 1..Len(Sources) /\ t \in DocTypes
      /\ refresh[r].at \in 0..now /\ refresh[r].at \in 0..MaxTime /\ refresh[r] \in Refresh
      /\ refresh[r].pc = "insert" /\ UNCHANGED <<files, now, edited>> /\ docs' = docs \cup {d}
      /\ NextFile(r)
  BY <1>0, TypeOfPlace DEF InsertDocument
<1>2. d \in Document /\ d.type = t /\ d.content = refresh[r].seen[t] /\ d.at = refresh[r].at
  BY <1>1 DEF Document, Refresh
<1> HIDE DEF d
<1>3. /\ refresh' \in [Refreshers -> Refresh]
      /\ refresh'[r].next = refresh[r].next + 1
      /\ refresh'[r].pc = IF refresh[r].next = Len(Sources) THEN "audit" ELSE "read"
      /\ refresh'[r].at = refresh[r].at /\ refresh'[r].seen = refresh[r].seen
      /\ refresh'[r].alone = refresh[r].alone
      /\ \A q \in Refreshers \ {r} : refresh'[q] = refresh[q]
  BY <1>1, NextPlace
<1>4. BootstrapTypeOK' /\ \A e \in docs' : e.at <= now
  BY <1>1, <1>2, <1>3 DEF BootstrapInv, BootstrapTypeOK
<1>5. PlaceInSources(r)' /\ Answered(r)'
  BY <1>1, <1>3, SourceTypes DEF PlaceInSources, Answered
<1>6. ASSUME refresh'[r].alone PROVE RefreshSound(r)'
  <2>1. RefreshSound(r)
    BY <1>1, <1>3, <1>6 DEF BootstrapInv
  <2>2. \A q \in Refreshers : Active(q)' => q = r
    BY <1>3, <2>1 DEF RefreshSound, Active
  <2>3. \A u \in DocTypes \ {t} : Versions(u)' = Versions(u)
    BY <1>1, <1>2 DEF Versions
  <2>4. \A u \in DocTypes \ {t} : Latest(u)' = Latest(u)
    BY <2>3 DEF Latest
  <2>5. Versions(t)' = Versions(t) \cup {d}
    BY <1>1, <1>2 DEF Versions
  <2>6. \A e \in Versions(t) : e.at \in Nat /\ e.at < d.at
    BY <1>0, <1>1, <1>2, <2>1, SourceTypes
       DEF RefreshSound, TypeAt, Versions, BootstrapInv, BootstrapTypeOK, Document
  <2>7. Newest(Versions(t) \cup {d}) = d
    <3>1. d.at \in Nat
      BY <1>1, <1>2, BootstrapAssumption
    <3> QED BY <2>6, <3>1, LaterIsNewest
  <2>8. Latest(t)' = d
    BY <2>5, <2>7 DEF Latest
  <2>9. ASSUME NEW i \in 1..Len(Sources)
        PROVE  IF i < refresh'[r].next
               THEN Versions(Sources[i])' # {}
                    /\ Latest(Sources[i])'.content = refresh'[r].seen[Sources[i]]
               ELSE \A e \in Versions(Sources[i])' : e.at < refresh'[r].at
    <3>1. CASE i = refresh[r].next
      <4>1. Sources[i] = t /\ i < refresh'[r].next
        BY <1>0, <1>1, <1>3, <3>1 DEF TypeAt
      <4> QED BY <1>2, <1>3, <2>5, <2>8, <4>1
    <3>2. CASE i # refresh[r].next
      <4>1. Sources[i] \in DocTypes \ {t} /\ (i < refresh'[r].next <=> i < refresh[r].next)
        BY <1>0, <1>1, <1>3, <3>2, SourceTypes DEF TypeAt
      <4>2. IF i < refresh[r].next
            THEN /\ Versions(Sources[i]) # {}
                 /\ Latest(Sources[i]).content = refresh[r].seen[Sources[i]]
            ELSE \A e \in Versions(Sources[i]) : e.at < refresh[r].at
        BY <2>1, SourceTypes DEF RefreshSound
      <4> QED BY <1>3, <2>3, <2>4, <4>1, <4>2
    <3> QED BY <3>1, <3>2
  <2>10. refresh'[r].pc # "insert"
    BY <1>3
  <2> QED BY <2>2, <2>9, <2>10, SourceTypes DEF RefreshSound
<1> QED BY <1>1, <1>3, <1>4, <1>5, <1>6, OwnStep

LEMMA AuditKeeps ==
    ASSUME BootstrapInv, NEW r \in Refreshers, AuditRefresh(r) PROVE BootstrapInv'
<1>1. /\ Active(r) /\ refresh[r] \in Refresh /\ refresh[r].pc = "audit"
      /\ UNCHANGED <<files, docs, now, edited>> /\ refresh[r].next = Len(Sources) + 1
  BY DEF AuditRefresh, Active, BootstrapInv, BootstrapTypeOK, PlaceInSources
<1>2. NoRefresh \in Refresh /\ NoRefresh.pc = "idle"
  BY BootstrapAssumption, SourceTypes DEF NoRefresh, Refresh
<1>3. \A u : Versions(u)' = Versions(u) /\ Latest(u)' = Latest(u)
  BY <1>1, SameDocs
<1>4. CASE refresh[r].alone
  <2> DEFINE new == [refresh[r] EXCEPT !.pc = "answered"]
  <2>1. refresh' = [refresh EXCEPT ![r] = new]
    BY <1>4 DEF AuditRefresh
  <2>2. new \in Refresh /\ new.pc = "answered" /\ new.seen = refresh[r].seen
    BY <1>1 DEF Refresh
  <2> HIDE DEF new
  <2>3. refresh'[r] = new /\ \A q \in Refreshers \ {r} : refresh'[q] = refresh[q]
    BY <2>1 DEF BootstrapInv, BootstrapTypeOK
  <2>4. BootstrapTypeOK'
    BY <1>1, <2>1, <2>2 DEF BootstrapInv, BootstrapTypeOK
  <2>5. RefreshSound(r)
    BY <1>1, <1>4 DEF BootstrapInv
  <2>6. \A q \in Refreshers : ~Active(q)'
    BY <2>2, <2>3, <2>5 DEF RefreshSound, Active
  <2>7. \A t \in DocTypes : Versions(t) # {} /\ Latest(t).content = refresh[r].seen[t]
    BY <1>1, <2>5, SourceTypes DEF RefreshSound
  <2>8. ContextVersion = refresh[r].seen
    <3>1. Present = DocTypes
      BY <2>7 DEF Present
    <3>2. refresh[r].seen \in [DocTypes -> Contents]
      BY <1>1 DEF Refresh
    <3> QED BY <2>7, <3>1, <3>2 DEF ContextVersion
  <2>9. Answered(r)' /\ PlaceInSources(r)'
    <3>1. ContextVersion' = ContextVersion
      BY <1>1, SameDocs
    <3> QED BY <2>2, <2>3, <2>6, <2>8, <3>1 DEF Answered, PlaceInSources
  <2> QED BY <1>1, <2>3, <2>4, <2>6, <2>9, OwnStep DEF BootstrapInv
<1>5. CASE ~refresh[r].alone
  <2>1. refresh' = [refresh EXCEPT ![r] = NoRefresh]
    BY <1>5 DEF AuditRefresh
  <2> QED BY <1>1, <1>2, <2>1, OwnStep
          DEF BootstrapInv, BootstrapTypeOK, PlaceInSources, Answered, Active
<1> QED BY <1>4, <1>5

LEMMA CutKeeps ==
    ASSUME BootstrapInv, NEW r \in Refreshers, CutRefresh(r) PROVE BootstrapInv'
<1>1. NoRefresh \in Refresh /\ NoRefresh.pc = "idle"
  BY BootstrapAssumption, SourceTypes DEF NoRefresh, Refresh
<1>2. /\ Active(r) /\ UNCHANGED <<files, docs, now, edited>>
      /\ refresh' = [refresh EXCEPT ![r] = NoRefresh]
  BY DEF CutRefresh
<1> QED BY <1>1, <1>2, OwnStep
        DEF BootstrapInv, BootstrapTypeOK, PlaceInSources, Answered, Active

\* Edits, the passing of time and stuttering.
LEMMA QuietKeeps ==
    ASSUME BootstrapInv, BootstrapTypeOK', UNCHANGED <<docs, refresh>>, now' >= now
    PROVE  BootstrapInv'
<1>1. \A t : Versions(t)' = Versions(t) /\ Latest(t)' = Latest(t)
  BY SameDocs
<1>2. ContextVersion' = ContextVersion /\ \A t, c : Unchanged(t, c)' = Unchanged(t, c)
  BY SameDocs
<1>3. \A r \in Refreshers : Active(r)' = Active(r) /\ TypeAt(r)' = TypeAt(r)
  BY DEF Active, TypeAt
<1>4. \A d \in docs' : d.at <= now'
  BY DEF BootstrapInv, BootstrapTypeOK, Document
<1>5. \A r \in Refreshers : PlaceInSources(r)'
  BY <1>3 DEF BootstrapInv, BootstrapTypeOK, PlaceInSources, Refresh
<1>6. \A r \in Refreshers : Answered(r)'
  BY <1>2, <1>3 DEF BootstrapInv, Answered
<1>7. \A r \in Refreshers : Active(r)' /\ refresh'[r].alone => RefreshSound(r)'
  BY <1>1, <1>2, <1>3 DEF BootstrapInv, RefreshSound
<1> QED BY <1>4, <1>5, <1>6, <1>7 DEF BootstrapInv

LEMMA BootstrapStep == BootstrapInv /\ [BootstrapNext]_bootstrapVars => BootstrapInv'
<1>1. ASSUME BootstrapInv, NEW t \in DocTypes, NEW c \in Contents, EditFile(t, c)
      PROVE  BootstrapInv'
  <2>1. edited' \in BOOLEAN
    BY <1>1, Zenon DEF EditFile
  <2> QED BY <1>1, <2>1, QuietKeeps DEF EditFile, BootstrapInv, BootstrapTypeOK
<1>2. ASSUME BootstrapInv, Tick PROVE BootstrapInv'
  BY <1>2, QuietKeeps, BootstrapAssumption DEF Tick, BootstrapInv, BootstrapTypeOK
<1>3. ASSUME BootstrapInv, UNCHANGED bootstrapVars PROVE BootstrapInv'
  BY <1>3, QuietKeeps DEF bootstrapVars, BootstrapInv, BootstrapTypeOK
<1> QED BY <1>1, <1>2, <1>3, BeginKeeps, ReadKeeps, QueryKeeps, InsertKeeps, AuditKeeps, CutKeeps
        DEF BootstrapNext

THEOREM BootstrapInvariant == BootstrapSpec => []BootstrapInv
BY BootstrapInitial, BootstrapStep, PTL DEF BootstrapSpec

\* While no file has changed since the refreshes in progress began, all of them have
\* read and stored what the files hold.
Steady(r) ==
    /\ refresh[r].pc \in {"query", "insert"} => refresh[r].seen[TypeAt(r)] = files[TypeAt(r)]
    /\ \A i \in DOMAIN Sources : i < refresh[r].next =>
         LET t == Sources[i] IN
         /\ refresh[r].seen[t] = files[t]
         /\ Versions(t) # {} /\ Latest(t).content = files[t]
    /\ \A d \in docs : d.at >= refresh[r].at => d.content = files[d.type]

HasNewest(t) == Versions(t) # {} => \E d \in Versions(t) : \A e \in Versions(t) : e.at <= d.at

SteadyInv ==
    /\ BootstrapInv
    /\ \A t \in DocTypes : HasNewest(t)
    /\ ~edited => \A r \in Refreshers : Active(r) => Steady(r)

LEMMA LatestIsNewest ==
    ASSUME NEW t, HasNewest(t), Versions(t) # {}
    PROVE  Latest(t) \in Versions(t) /\ \A e \in Versions(t) : e.at <= Latest(t).at
BY DEF HasNewest, Latest, Newest

\* A step that stores nothing and leaves the files alone keeps the steadiness of a
\* refresh that stays where it is.
LEMMA SteadyStays ==
    ASSUME UNCHANGED <<files, docs>>, NEW r \in Refreshers, Steady(r),
           refresh'[r].pc = refresh[r].pc, refresh'[r].next = refresh[r].next,
           refresh'[r].at = refresh[r].at, refresh'[r].seen = refresh[r].seen
    PROVE  Steady(r)'
<1>1. \A u : Versions(u)' = Versions(u) /\ Latest(u)' = Latest(u)
  BY SameDocs
<1>2. TypeAt(r)' = TypeAt(r)
  BY DEF TypeAt
<1> QED BY <1>1, <1>2 DEF Steady

\* A step of refresh r that stores nothing.
LEMMA SteadyOwnStep ==
    ASSUME SteadyInv, BootstrapInv', NEW r \in Refreshers, UNCHANGED <<files, docs, edited>>,
           \A q \in Refreshers \ {r} : refresh'[q] = refresh[q],
           ~edited /\ Active(r)' => Steady(r)'
    PROVE  SteadyInv'
<1>1. \A t \in DocTypes : HasNewest(t)'
  <2>1. \A t : Versions(t)' = Versions(t)
    BY SameDocs
  <2> QED BY <2>1 DEF SteadyInv, HasNewest
<1>2. ASSUME ~edited', NEW q \in Refreshers, Active(q)' PROVE Steady(q)'
  <2>1. CASE q = r
    BY <1>2, <2>1
  <2>2. CASE q # r
    <3>1. Active(q) /\ refresh'[q] = refresh[q]
      BY <1>2, <2>2 DEF Active
    <3>2. Steady(q)
      BY <1>2, <3>1 DEF SteadyInv
    <3> QED BY <3>1, <3>2, SteadyStays
  <2> QED BY <2>1, <2>2
<1> QED BY <1>1, <1>2 DEF SteadyInv

LEMMA SteadyBegin ==
    ASSUME SteadyInv, BootstrapInv', NEW r \in Refreshers, BeginRefresh(r) PROVE SteadyInv'
<1>1. \A t \in DocTypes : HasNewest(t)'
  <2>1. \A t : Versions(t)' = Versions(t)
    BY SameDocs DEF BeginRefresh
  <2> QED BY <2>1 DEF SteadyInv, HasNewest
<1>2. ASSUME ~edited', NEW q \in Refreshers, Active(q)' PROVE Steady(q)'
  <2>1. CASE q = r
    <3>1. /\ refresh'[r].pc = "read" /\ refresh'[r].next = 1 /\ refresh'[r].at = now + 1
          /\ docs' = docs
      BY DEF BeginRefresh
    <3>2. \A d \in docs' : ~(d.at >= now + 1)
      BY <3>1, BootstrapAssumption DEF SteadyInv, BootstrapInv, BootstrapTypeOK, Document
    <3>3. \A i \in DOMAIN Sources : ~(i < 1)
      BY SourceTypes
    <3> QED BY <2>1, <3>1, <3>2, <3>3 DEF Steady
  <2>2. CASE q # r
    <3>1. Active(q)
      BY <1>2, <2>2 DEF BeginRefresh, Active, NoRefresh
    <3>2. Steady(q)
      BY <1>2, <3>1 DEF BeginRefresh, InProgress, SteadyInv
    <3>3. refresh'[q] = [refresh[q] EXCEPT !.alone = FALSE] /\ UNCHANGED <<files, docs>>
      BY <2>2, <3>1 DEF BeginRefresh
    <3>4. refresh[q] \in Refresh
      BY DEF SteadyInv, BootstrapInv, BootstrapTypeOK
    <3>5. /\ refresh'[q].pc = refresh[q].pc /\ refresh'[q].next = refresh[q].next
          /\ refresh'[q].at = refresh[q].at /\ refresh'[q].seen = refresh[q].seen
      BY <3>3, <3>4 DEF Refresh
    <3> QED BY <3>2, <3>3, <3>5, SteadyStays
  <2> QED BY <2>1, <2>2
<1> QED BY <1>1, <1>2 DEF SteadyInv

LEMMA SteadyRead ==
    ASSUME SteadyInv, BootstrapInv', NEW r \in Refreshers, ReadFile(r) PROVE SteadyInv'
<1> DEFINE t == TypeAt(r)
           new == [refresh[r] EXCEPT !.pc = "query", !.seen[t] = files[t]]
<1>1. /\ refresh[r].pc = "read" /\ refresh' = [refresh EXCEPT ![r] = new]
      /\ UNCHANGED <<files, docs, now, edited>>
  BY DEF ReadFile
<1>2. /\ Active(r) /\ refresh[r].next \in 1..Len(Sources) /\ t \in DocTypes
      /\ refresh[r] \in Refresh
  BY <1>1, TypeOfPlace DEF SteadyInv
<1>3. /\ new.pc = "query" /\ new.next = refresh[r].next /\ new.at = refresh[r].at
      /\ new.seen[t] = files[t] /\ \A u \in DocTypes \ {t} : new.seen[u] = refresh[r].seen[u]
  BY <1>2 DEF Refresh
<1> HIDE DEF new
<1>4. refresh'[r] = new /\ \A q \in Refreshers \ {r} : refresh'[q] = refresh[q]
  BY <1>1 DEF SteadyInv, BootstrapInv, BootstrapTypeOK
<1>5. ASSUME ~edited PROVE Steady(r)'
  <2>1. Steady(r)
    BY <1>2, <1>5 DEF SteadyInv
  <2>2. \A i \in 1..Len(Sources) : i < refresh[r].next => Sources[i] \in DocTypes \ {t}
    BY <1>2, SourceTypes DEF TypeAt
  <2>3. \A u : Versions(u)' = Versions(u) /\ Latest(u)' = Latest(u)
    BY <1>1, SameDocs
  <2>4. TypeAt(r)' = t
    BY <1>3, <1>4 DEF TypeAt
  <2> QED BY <1>1, <1>3, <1>4, <2>1, <2>2, <2>3, <2>4, SourceTypes DEF Steady
<1> QED BY <1>1, <1>4, <1>5, SteadyOwnStep

LEMMA SteadyQuery ==
    ASSUME SteadyInv, BootstrapInv', NEW r \in Refreshers, QueryLatest(r) PROVE SteadyInv'
<1> DEFINE t == TypeAt(r)
<1>1. /\ Active(r) /\ refresh[r].next \in 1..Len(Sources) /\ t \in DocTypes
      /\ refresh[r] \in Refresh
      /\ refresh[r].pc = "query" /\ UNCHANGED <<files, docs, now, edited>>
  BY TypeOfPlace DEF QueryLatest, SteadyInv
<1>2. \A u : Versions(u)' = Versions(u) /\ Latest(u)' = Latest(u)
  BY <1>1, SameDocs
<1>3. CASE Unchanged(t, refresh[r].seen[t])
  <2>1. NextFile(r)
    BY <1>3 DEF QueryLatest
  <2>2. /\ refresh'[r].next = refresh[r].next + 1
        /\ refresh'[r].pc \in {"audit", "read"}
        /\ refresh'[r].at = refresh[r].at /\ refresh'[r].seen = refresh[r].seen
        /\ \A q \in Refreshers \ {r} : refresh'[q] = refresh[q]
    BY <1>1, <2>1, NextPlace DEF SteadyInv
  <2>3. ASSUME ~edited PROVE Steady(r)'
    <3>1. Steady(r)
      BY <1>1, <2>3 DEF SteadyInv
    <3>2. refresh[r].seen[t] = files[t] /\ Versions(t) # {} /\ Latest(t).content = files[t]
      BY <1>1, <1>3, <3>1 DEF Steady, Unchanged
    <3> QED BY <1>1, <1>2, <2>2, <3>1, <3>2, SourceTypes DEF Steady, TypeAt
  <2> QED BY <1>1, <2>2, <2>3, SteadyOwnStep
<1>4. CASE ~Unchanged(t, refresh[r].seen[t])
  <2> DEFINE new == [refresh[r] EXCEPT !.pc = "insert"]
  <2>1. refresh' = [refresh EXCEPT ![r] = new]
    BY <1>4 DEF QueryLatest
  <2>2. /\ new.pc = "insert" /\ new.next = refresh[r].next
        /\ new.at = refresh[r].at /\ new.seen = refresh[r].seen
    BY <1>1 DEF Refresh
  <2> HIDE DEF new
  <2>3. refresh'[r] = new /\ \A q \in Refreshers \ {r} : refresh'[q] = refresh[q]
    BY <2>1 DEF SteadyInv, BootstrapInv, BootstrapTypeOK
  <2>4. ASSUME ~edited PROVE Steady(r)'
    <3>1. Steady(r)
      BY <1>1, <2>4 DEF SteadyInv
    <3>2. TypeAt(r)' = t
      BY <2>2, <2>3 DEF TypeAt
    <3> QED BY <1>1, <1>2, <2>2, <2>3, <3>1, <3>2 DEF Steady
  <2> QED BY <1>1, <2>3, <2>4, SteadyOwnStep
<1> QED BY <1>3, <1>4

LEMMA SteadyInsert ==
    ASSUME SteadyInv, BootstrapInv', NEW r \in Refreshers, InsertDocument(r) PROVE SteadyInv'
<1>0. PICK t \in DocTypes : t = TypeAt(r)
  BY TypeOfPlace DEF InsertDocument, SteadyInv
<1> DEFINE d == [type |-> t, content |-> refresh[r].seen[t], at |-> refresh[r].at]
<1>1. /\ Active(r) /\ refresh[r].next \in 1..Len(Sources) /\ refresh[r].at \in Nat
      /\ refresh[r].pc = "insert" /\ UNCHANGED <<files, now, edited>> /\ docs' = docs \cup {d}
      /\ NextFile(r)
  BY <1>0, TypeOfPlace, BootstrapAssumption DEF InsertDocument, SteadyInv
<1>2. d.type = t /\ d.content = refresh[r].seen[t] /\ d.at = refresh[r].at
  OBVIOUS
<1> HIDE DEF d
<1>3. /\ refresh'[r].next = refresh[r].next + 1
      /\ refresh'[r].pc \in {"audit", "read"}
      /\ refresh'[r].at = refresh[r].at /\ refresh'[r].seen = refresh[r].seen
      /\ \A q \in Refreshers \ {r} : refresh'[q] = refresh[q]
  BY <1>1, NextPlace DEF SteadyInv
<1>4. /\ \A u \in DocTypes \ {t} : Versions(u)' = Versions(u)
      /\ Versions(t)' = Versions(t) \cup {d}
  BY <1>1, <1>2 DEF Versions
<1>5. \A u \in DocTypes \ {t} : Latest(u)' = Latest(u)
  BY <1>4 DEF Latest
<1>6. \A e \in docs' : e.at \in Nat
  BY BootstrapAssumption DEF BootstrapInv, BootstrapTypeOK, Document
<1>7. ASSUME NEW u \in DocTypes PROVE HasNewest(u)'
  <2>1. CASE u # t
    BY <1>4, <2>1 DEF SteadyInv, HasNewest
  <2>2. CASE u = t /\ Versions(t) = {}
    BY <1>1, <1>2, <1>4, <2>2 DEF HasNewest
  <2>3. CASE u = t /\ Versions(t) # {}
    <3>1. PICK m \in Versions(t) : \A e \in Versions(t) : e.at <= m.at
      BY <2>3 DEF SteadyInv, HasNewest
    <3>2. \A e \in Versions(t) \cup {d} : e.at \in Nat
      BY <1>1, <1>6 DEF Versions
    <3>3. CASE d.at <= m.at
      BY <1>4, <2>3, <3>1, <3>3 DEF HasNewest
    <3>4. CASE ~(d.at <= m.at)
      <4>1. \A e \in Versions(t) \cup {d} : e.at <= d.at
        BY <3>1, <3>2, <3>4
      <4> QED BY <1>4, <2>3, <4>1 DEF HasNewest
    <3> QED BY <3>3, <3>4
  <2> QED BY <2>1, <2>2, <2>3
<1>8. ASSUME ~edited', NEW q \in Refreshers, Active(q)' PROVE Steady(q)'
  <2>1. /\ \A p \in Refreshers : Active(p) => Steady(p)
        /\ Active(q) /\ refresh'[q].at = refresh[q].at /\ refresh'[q].seen = refresh[q].seen
        /\ UNCHANGED files
    <3>1. Active(q)
      BY <1>1, <1>3, <1>8 DEF Active
    <3> QED BY <1>1, <1>3, <1>8, <3>1 DEF SteadyInv
  <2>2. d.content = files[t]
    BY <1>0, <1>1, <1>2, <2>1 DEF Steady
  <2>3. \A p \in Refreshers : Active(p) =>
           \A e \in docs' : e.at >= refresh[p].at => e.content = files[e.type]
    BY <1>1, <1>2, <2>1, <2>2 DEF Steady
  <2>4. Versions(t)' # {} /\ Latest(t)'.content = files[t]
    <3>1. Versions(t)' # {} /\ d \in Versions(t)'
      BY <1>4
    <3>2. Latest(t)' \in Versions(t)' /\ \A e \in Versions(t)' : e.at <= Latest(t)'.at
      BY <1>7, <3>1 DEF HasNewest, Latest, Newest
    <3>3. Latest(t)' \in docs' /\ Latest(t)'.type = t
      BY <3>2 DEF Versions
    <3>4. Latest(t)'.at >= refresh[r].at
      BY <1>1, <1>2, <1>6, <3>1, <3>2, <3>3
    <3> QED BY <1>1, <2>3, <3>1, <3>3, <3>4
  <2>5. \A i \in DOMAIN Sources : i < refresh'[q].next =>
          LET u == Sources[i] IN
          /\ refresh'[q].seen[u] = files[u]
          /\ Versions(u)' # {} /\ Latest(u)'.content = files[u]
    <3> SUFFICES ASSUME NEW i \in DOMAIN Sources, i < refresh'[q].next
                 PROVE  LET u == Sources[i] IN
                        /\ refresh'[q].seen[u] = files[u]
                        /\ Versions(u)' # {} /\ Latest(u)'.content = files[u]
      OBVIOUS
    <3>1. i < refresh[q].next \/ (q = r /\ i = refresh[r].next)
      BY <1>1, <1>3, SourceTypes
    <3>2. refresh'[q].seen[Sources[i]] = files[Sources[i]]
      <4>1. CASE i < refresh[q].next
        BY <2>1, <4>1 DEF Steady
      <4>2. CASE q = r /\ i = refresh[r].next
        BY <1>0, <1>1, <2>1, <4>2 DEF Steady, TypeAt
      <4> QED BY <3>1, <4>1, <4>2
    <3>3. CASE Sources[i] = t
      BY <2>4, <3>2, <3>3
    <3>4. CASE Sources[i] # t
      <4>1. i < refresh[q].next /\ Sources[i] \in DocTypes \ {t}
        BY <1>0, <3>1, <3>4, SourceTypes DEF TypeAt
      <4>2. Versions(Sources[i]) # {} /\ Latest(Sources[i]).content = files[Sources[i]]
        BY <2>1, <4>1 DEF Steady
      <4> QED BY <1>4, <1>5, <3>2, <4>1, <4>2
    <3> QED BY <3>3, <3>4
  <2>6. refresh'[q].pc \in {"query", "insert"}
           => refresh'[q].seen[TypeAt(q)'] = files[TypeAt(q)']
    <3>1. CASE q = r
      BY <1>3, <3>1
    <3>2. CASE q # r
      BY <1>3, <2>1, <3>2 DEF Steady, TypeAt
    <3> QED BY <3>1, <3>2
  <2> QED BY <2>1, <2>3, <2>5, <2>6 DEF Steady
<1> QED BY <1>7, <1>8 DEF SteadyInv

LEMMA SteadyStep == SteadyInv /\ [BootstrapNext]_bootstrapVars => SteadyInv'
<1> SUFFICES ASSUME SteadyInv, [BootstrapNext]_bootstrapVars PROVE SteadyInv'
  OBVIOUS
<1>1. BootstrapInv'
  BY BootstrapStep DEF SteadyInv
<1>2. ASSUME NEW t \in DocTypes, NEW c \in Contents, EditFile(t, c) PROVE SteadyInv'
  <2>1. \A u : Versions(u)' = Versions(u)
    BY <1>2, SameDocs DEF EditFile
  <2>2. ~edited' => \A r \in Refreshers : ~Active(r)'
    BY <1>2 DEF EditFile, InProgress, Active
  <2> QED BY <1>1, <2>1, <2>2 DEF SteadyInv, HasNewest
<1>3. ASSUME UNCHANGED <<files, docs, refresh, edited>> PROVE SteadyInv'
  <2>1. \A u : Versions(u)' = Versions(u)
    BY <1>3, SameDocs
  <2>2. ASSUME ~edited', NEW r \in Refreshers, Active(r)' PROVE Steady(r)'
    <3>1. Active(r) /\ Steady(r)
      BY <1>3, <2>2 DEF Active, SteadyInv
    <3> QED BY <1>3, <3>1, SteadyStays
  <2> QED BY <1>1, <2>1, <2>2 DEF SteadyInv, HasNewest
<1>4. ASSUME NEW r \in Refreshers, AuditRefresh(r) \/ CutRefresh(r) PROVE SteadyInv'
  <2>1. /\ UNCHANGED <<files, docs, edited>>
        /\ \A q \in Refreshers \ {r} : refresh'[q] = refresh[q]
    BY <1>4 DEF AuditRefresh, CutRefresh, SteadyInv, BootstrapInv, BootstrapTypeOK
  <2>2. ~Active(r)'
    BY <1>4 DEF AuditRefresh, CutRefresh, Active, NoRefresh, SteadyInv, BootstrapInv,
                BootstrapTypeOK, Refresh
  <2> QED BY <1>1, <2>1, <2>2, SteadyOwnStep
<1>5. CASE Tick
  BY <1>3, <1>5 DEF Tick
<1>6. CASE UNCHANGED bootstrapVars
  BY <1>3, <1>6 DEF bootstrapVars
<1> QED BY <1>1, <1>2, <1>4, <1>5, <1>6, SteadyBegin, SteadyRead, SteadyQuery, SteadyInsert
        DEF BootstrapNext

\* A refresh answers with the context version that is in force (bootstrap.py 138, 186),
\* whatever earlier refreshes left behind: one that no other overlapped, however the
\* files change; and one that others overlap, if no file has changed since the first
\* of the refreshes in progress began.  Of overlapping refreshes of changing files
\* nothing is claimed.
THEOREM AnswersAreStatus == BootstrapSpec => []AnswerIsStatus
<1>1. BootstrapInit => SteadyInv
  <2>1. ASSUME BootstrapInit PROVE \A r \in Refreshers : ~Active(r)
    BY <2>1 DEF BootstrapInit, NoRefresh, Active
  <2>2. ASSUME BootstrapInit, NEW t \in DocTypes PROVE HasNewest(t)
    BY <2>2 DEF BootstrapInit, HasNewest, Versions
  <2> QED BY <2>1, <2>2, BootstrapInitial DEF SteadyInv
<1>2. SteadyInv => AnswerIsStatus
  <2> SUFFICES ASSUME SteadyInv, NEW r \in Refreshers,
                      refresh[r].pc = "answered" \/ (refresh[r].pc = "audit" /\ ~edited)
               PROVE  ContextVersion = refresh[r].seen
    BY DEF AnswerIsStatus
  <2>1. CASE refresh[r].pc = "answered"
    BY <2>1 DEF SteadyInv, BootstrapInv, Answered
  <2>2. CASE refresh[r].pc = "audit" /\ ~edited
    <3>1. Active(r) /\ Steady(r) /\ refresh[r].next = Len(Sources) + 1
      BY <2>2 DEF Active, SteadyInv, BootstrapInv, PlaceInSources
    <3>2. \A i \in 1..Len(Sources) : i < refresh[r].next
      BY <3>1, SourceTypes
    <3>3. \A t \in DocTypes : Versions(t) # {} /\ Latest(t).content = refresh[r].seen[t]
      BY <3>1, <3>2, SourceTypes DEF Steady
    <3>4. Present = DocTypes
      BY <3>3 DEF Present
    <3>5. refresh[r].seen \in [DocTypes -> Contents]
      BY DEF SteadyInv, BootstrapInv, BootstrapTypeOK, Refresh
    <3> QED BY <3>3, <3>4, <3>5 DEF ContextVersion
  <2> QED BY <2>1, <2>2
<1> QED BY <1>1, <1>2, SteadyStep, PTL DEF BootstrapSpec

\* Refreshes that do not overlap store a document only when it differs from the newest
\* one (bootstrap.py 108).
THEOREM VersionsAreNew == BootstrapSpec => EachVersionIsNew
<1> DEFINE New == \A d \in docs' \ docs :
             (\A r \in Refreshers : Active(r) => refresh[r].alone)
                 => d.type \notin Present \/ Latest(d.type).content # d.content
<1>1. ASSUME BootstrapInv, NEW r \in Refreshers, InsertDocument(r) PROVE New
  <2> SUFFICES ASSUME NEW d \in docs' \ docs, refresh[r].alone,
                      d.type \in Present, Latest(d.type).content = d.content
               PROVE  FALSE
    BY <1>1, TypeOfPlace DEF InsertDocument
  <2>1. Active(r) /\ refresh[r].pc = "insert"
    BY <1>1, TypeOfPlace DEF InsertDocument
  <2>2. d.type = TypeAt(r) /\ d.content = refresh[r].seen[TypeAt(r)]
    BY <1>1 DEF InsertDocument
  <2>3. ~Unchanged(d.type, d.content)
    BY <1>1, <2>1, <2>2 DEF BootstrapInv, RefreshSound
  <2> QED BY <2>3 DEF Unchanged, Present
<1>2. ASSUME BootstrapInv, BootstrapNext PROVE New
  <2>1. CASE \E r \in Refreshers : InsertDocument(r)
    BY <1>1, <1>2, <2>1
  <2>2. CASE ~\E r \in Refreshers : InsertDocument(r)
    <3>1. UNCHANGED docs
      BY <1>2, <2>2 DEF BootstrapNext, EditFile, Tick, BeginRefresh, ReadFile, QueryLatest,
                        AuditRefresh, CutRefresh
    <3> QED BY <3>1
  <2> QED BY <2>1, <2>2
<1>3. BootstrapInv /\ [BootstrapNext]_bootstrapVars => [New]_bootstrapVars
  BY <1>2
<1> QED BY BootstrapInvariant, <1>3, PTL DEF BootstrapSpec, EachVersionIsNew

-------------------------------------------------------------------------------
\* Portfolio

\* R is a strict total order of S.
TotalOn(S, R) ==
    /\ \A i \in S : <<i, i>> \notin R
    /\ \A i, j, k \in S : <<i, j>> \in R /\ <<j, k>> \in R => <<i, k>> \in R
    /\ \A i, j \in S : i = j \/ <<i, j>> \in R \/ <<j, i>> \in R

Ahead(S, R, i) == {j \in S : <<j, i>> \in R}
Place(S, R, i) == Cardinality(Ahead(S, R, i)) + 1

LEMMA PlacesRise ==
    ASSUME NEW S, IsFiniteSet(S), NEW R, TotalOn(S, R)
    PROVE  /\ Cardinality(S) \in Nat
           /\ \A i \in S : Place(S, R, i) \in 1..Cardinality(S)
           /\ \A i, j \in S : <<i, j>> \in R => Place(S, R, i) < Place(S, R, j)
<1>1. Cardinality(S) \in Nat
  BY FS_CardinalityType
<1>2. ASSUME NEW i \in S
      PROVE  /\ IsFiniteSet(Ahead(S, R, i)) /\ Cardinality(Ahead(S, R, i)) \in Nat
             /\ Place(S, R, i) \in 1..Cardinality(S)
  <2>1. Ahead(S, R, i) \in SUBSET (S \ {i})
    BY DEF Ahead, TotalOn
  <2>2. IsFiniteSet(S \ {i}) /\ Cardinality(S \ {i}) = Cardinality(S) - 1
    BY FS_RemoveElement
  <2>3. /\ IsFiniteSet(Ahead(S, R, i))
        /\ Cardinality(Ahead(S, R, i)) <= Cardinality(S) - 1
    BY <2>1, <2>2, FS_Subset
  <2>4. Cardinality(Ahead(S, R, i)) \in Nat
    BY <2>3, FS_CardinalityType
  <2> QED BY <1>1, <2>3, <2>4 DEF Place
<1>3. ASSUME NEW i \in S, NEW j \in S, <<i, j>> \in R PROVE Place(S, R, i) < Place(S, R, j)
  <2>1. Ahead(S, R, i) \cup {i} \in SUBSET Ahead(S, R, j)
    BY <1>3 DEF Ahead, TotalOn
  <2>2. i \notin Ahead(S, R, i)
    BY DEF Ahead, TotalOn
  <2>3. Cardinality(Ahead(S, R, i) \cup {i}) = Cardinality(Ahead(S, R, i)) + 1
    BY <1>2, <2>2, FS_AddElement
  <2>4. Cardinality(Ahead(S, R, i) \cup {i}) <= Cardinality(Ahead(S, R, j))
    BY <1>2, <2>1, FS_Subset
  <2> QED BY <1>2, <2>3, <2>4 DEF Place
<1> QED BY <1>1, <1>2, <1>3

\* A finite set has an order of its elements that follows a strict total order.
LEMMA OrderExists ==
    ASSUME NEW S, IsFiniteSet(S), NEW R, TotalOn(S, R)
    PROVE  /\ InOrder(S, R) \in [1..Cardinality(S) -> S]
           /\ \A k, l \in 1..Cardinality(S) :
                 k < l => <<InOrder(S, R)[k], InOrder(S, R)[l]>> \in R
<1> DEFINE n == Cardinality(S)
           place == [i \in S |-> Place(S, R, i)]
<1>1. n \in Nat /\ place \in [S -> 1..n]
  BY PlacesRise
<1>2. place \in Injection(S, 1..n)
  <2>1. ASSUME NEW i \in S, NEW j \in S, i # j PROVE place[i] # place[j]
    <3>1. Place(S, R, i) < Place(S, R, j) \/ Place(S, R, j) < Place(S, R, i)
      BY <2>1, PlacesRise DEF TotalOn
    <3> QED BY <3>1, <1>1
  <2> QED BY <1>1, <2>1 DEF Injection, IsInjective
<1>3. IsFiniteSet(1..n) /\ Cardinality(1..n) = n
  BY <1>1, FS_Interval
<1>4. place \in Surjection(S, 1..n)
  BY <1>2, <1>3, FS_Injection
<1> DEFINE f == [k \in 1..n |-> CHOOSE i \in S : place[i] = k]
<1>5. \A k \in 1..n : f[k] \in S /\ place[f[k]] = k
  BY <1>4 DEF Surjection
<1>6. f \in [1..n -> S] /\ \A k \in 1..n : Place(S, R, f[k]) = k
  BY <1>5
<1> HIDE DEF f
<1>7. ASSUME NEW k \in 1..n, NEW l \in 1..n, k < l PROVE <<f[k], f[l]>> \in R
  <2>1. f[k] # f[l]
    BY <1>1, <1>6, <1>7
  <2>2. ~(Place(S, R, f[l]) < Place(S, R, f[k]))
    BY <1>1, <1>6, <1>7
  <2>3. <<f[l], f[k]>> \notin R
    BY <1>6, <2>2, PlacesRise
  <2> QED BY <1>6, <2>1, <2>3 DEF TotalOn
<1> QED BY <1>6, <1>7 DEF InOrder

\* An element stands behind those that are ahead of it.
LEMMA OrderPlaces ==
    ASSUME NEW S, IsFiniteSet(S), NEW R, TotalOn(S, R), NEW i \in S
    PROVE  Place(S, R, i) \in 1..Cardinality(S) /\ InOrder(S, R)[Place(S, R, i)] = i
<1> DEFINE n == Cardinality(S)
           f == InOrder(S, R)
<1>1. n \in Nat /\ f \in [1..n -> S] /\ \A k, l \in 1..n : k < l => <<f[k], f[l]>> \in R
  BY PlacesRise, OrderExists
<1> HIDE DEF f
<1>2. ASSUME NEW k \in 1..n, NEW l \in 1..n, f[k] = f[l] PROVE k = l
  <2>1. f[k] \in S /\ <<f[k], f[k]>> \notin R
    BY <1>1 DEF TotalOn
  <2>2. ~(k < l) /\ ~(l < k)
    BY <1>1, <1>2, <2>1
  <2> QED BY <1>1, <2>2
<1>3. f \in Surjection(1..n, S)
  <2>1. IsFiniteSet(1..n) /\ Cardinality(1..n) = n
    BY <1>1, FS_Interval
  <2>2. f \in Injection(1..n, S)
    BY <1>1, <1>2 DEF Injection, IsInjective
  <2> QED BY <2>1, <2>2, FS_Injection
<1>4. PICK k \in 1..n : f[k] = i
  BY <1>3 DEF Surjection
<1> DEFINE g == [l \in 1..k - 1 |-> f[l]]
<1>5. g \in Bijection(1..k - 1, Ahead(S, R, i))
  <2>1. \A l \in 1..k - 1 : l \in 1..n /\ l < k
    BY <1>1, <1>4
  <2>2. ASSUME NEW j \in Ahead(S, R, i) PROVE \E l \in 1..k - 1 : g[l] = j
    <3>1. PICK l \in 1..n : f[l] = j
      BY <1>3, <2>2 DEF Surjection, Ahead
    <3>2. j \in S /\ <<j, i>> \in R /\ <<i, i>> \notin R
      BY <2>2 DEF Ahead, TotalOn
    <3>3. ~(k < l)
      BY <1>1, <1>4, <3>1, <3>2 DEF TotalOn
    <3>4. l \in 1..k - 1
      BY <1>1, <1>4, <3>1, <3>2, <3>3
    <3> QED BY <3>1, <3>4
  <2>3. \A l \in 1..k - 1 : g[l] \in Ahead(S, R, i)
    BY <1>1, <1>4, <2>1 DEF Ahead
  <2> QED BY <1>2, <2>1, <2>2, <2>3 DEF Bijection, Injection, IsInjective, Surjection
<1>6. Cardinality(Ahead(S, R, i)) = k - 1
  <2>1. IsFiniteSet(1..k - 1) /\ Cardinality(1..k - 1) = k - 1
    <3>1. k \in 1..n /\ k - 1 \in Int
      BY <1>1, <1>4
    <3>2. /\ IsFiniteSet(1..k - 1)
          /\ Cardinality(1..k - 1) = IF 1 > k - 1 THEN 0 ELSE k - 1 - 1 + 1
      BY <3>1, FS_Interval
    <3> QED BY <3>1, <3>2
  <2>2. ExistsBijection(1..k - 1, Ahead(S, R, i))
    BY <1>5 DEF ExistsBijection
  <2> QED BY <2>1, <2>2, FS_Bijection
<1> QED BY <1>1, <1>4, <1>6 DEF Place, f

LEMMA ScoredType == ASSUME NEW p \in ProjectLine PROVE Scored(p) \in ProjectLine
<1> DEFINE score == ComputeScore(p)
<1>1. score \in Int
  BY DEF ProjectLine, ComputeScore
<1>2. Scored(p) = p \/ Scored(p) = [p EXCEPT !.score = score]
  BY DEF Scored
<1> HIDE DEF score
<1> QED BY <1>1, <1>2 DEF ProjectLine

\* The places of a document or a table are finite, and ordered from top to bottom.
LEMMA DownwardsIsOrder ==
    ASSUME NEW n \in Nat, NEW S \in SUBSET (1..n)
    PROVE  /\ IsFiniteSet(S) /\ Cardinality(S) \in Nat
           /\ Downwards(S) \in [1..Cardinality(S) -> S]
           /\ S # {} => Min(S) \in S
<1>1. IsFiniteSet(S)
  <2>1. IsFiniteSet(1..n)
    BY FS_Interval
  <2> QED BY <2>1, FS_Subset
<1> DEFINE R == {e \in S \X S : e[1] < e[2]}
<1>2. \A i, j \in S : <<i, j>> \in R <=> i < j
  OBVIOUS
<1> HIDE DEF R
<1>3. TotalOn(S, R)
  BY <1>2 DEF TotalOn
<1> DEFINE f == InOrder(S, R)
<1>4. /\ Cardinality(S) \in Nat /\ f \in [1..Cardinality(S) -> S]
      /\ \A k, l \in 1..Cardinality(S) : k < l => <<f[k], f[l]>> \in R
      /\ \A i \in S : Place(S, R, i) \in 1..Cardinality(S) /\ f[Place(S, R, i)] = i
  BY <1>1, <1>3, PlacesRise, OrderExists, OrderPlaces
<1>5. Downwards(S) = f
  BY DEF R, Downwards
<1> HIDE DEF f
<1>6. ASSUME S # {} PROVE Min(S) \in S
  <2>1. 1 \in 1..Cardinality(S)
    <3>1. PICK k : k \in 1..Cardinality(S)
      BY <1>4, <1>6
    <3> QED BY <1>4, <3>1
  <2>2. f[1] \in S /\ \A i \in S : f[1] <= i
    <3>1. f[1] \in S
      BY <1>4, <2>1
    <3>2. ASSUME NEW i \in S PROVE f[1] <= i
      <4>1. PICK k \in 1..Cardinality(S) : f[k] = i
        BY <1>4
      <4>2. CASE k = 1
        BY <3>1, <4>1, <4>2
      <4>3. CASE k # 1
        <5>1. 1 < k
          BY <1>4, <4>1, <4>3
        <5>2. <<f[1], i>> \in R
          BY <1>4, <2>1, <4>1, <5>1
        <5>3. f[1] < i
          BY <1>2, <3>1, <5>2
        <5>4. f[1] \in 1..n /\ i \in 1..n
          BY <3>1
        <5> QED BY <5>3, <5>4
      <4> QED BY <4>2, <4>3
    <3> QED BY <3>1, <3>2
  <2> QED BY <2>2 DEF Min
<1> QED BY <1>1, <1>4, <1>5, <1>6

LEMMA ParseType == ASSUME NEW doc \in Portfolios PROVE Parse(doc) \in Seq(ProjectLine)
<1> DEFINE S == {i \in DataPlaces(doc) : IsRow(doc[i])}
           order == Downwards(S)
<1>1. doc \in Seq(Projects \cup [other: Other]) /\ Len(doc) \in Nat
  BY PortfolioAssumption
<1>2. S \in SUBSET (1..Len(doc))
  <2> DEFINE headers == {i \in DOMAIN doc : IsHeader(doc[i])}
  <2>1. CASE headers = {}
    BY <2>1 DEF DataPlaces
  <2>2. CASE headers # {}
    <3>1. headers \in SUBSET (1..Len(doc))
      BY <1>1
    <3>2. Min(headers) \in 1..Len(doc)
      BY <1>1, <2>2, <3>1, DownwardsIsOrder
    <3>3. DataPlaces(doc) = (Min(headers) + 2)..Len(doc)
      BY <2>2 DEF DataPlaces
    <3> HIDE DEF headers
    <3> QED BY <1>1, <3>2, <3>3
  <2> QED BY <2>1, <2>2
<1>3. \A i \in S : Cells(doc[i]) \in ProjectLine
  BY PortfolioAssumption DEF IsProject, Cells, ProjectLine
<1> HIDE DEF S
<1>4. Cardinality(S) \in Nat /\ order \in [1..Cardinality(S) -> S]
  BY <1>1, <1>2, DownwardsIsOrder
<1>5. Parse(doc) = [k \in DOMAIN order |-> Scored(Cells(doc[order[k]]))]
  BY DEF Parse, S
<1> HIDE DEF order
<1>6. \A k \in 1..Cardinality(S) : Scored(Cells(doc[order[k]])) \in ProjectLine
  BY <1>3, <1>4, ScoredType
<1>7. Parse(doc) \in [1..Cardinality(S) -> ProjectLine]
  BY <1>4, <1>5, <1>6
<1> QED BY <1>4, <1>7

\* The sort key orders lines, up to those with equal keys.
LEMMA PrecedesIsOrder ==
    ASSUME NEW p \in ProjectLine, NEW q \in ProjectLine
    PROVE  /\ ~Precedes(p, p)
           /\ Precedes(p, q) => ~Precedes(q, p)
           /\ \A r \in ProjectLine : Precedes(p, r) => Precedes(p, q) \/ Precedes(q, r)
<1>1. \A r \in ProjectLine : r.score \in Int /\ r.urgency \in Int /\ r.money \in Int
  BY DEF ProjectLine
<1>2. p.score \in Int /\ p.urgency \in Int /\ p.money \in Int
  BY <1>1
<1>3. q.score \in Int /\ q.urgency \in Int /\ q.money \in Int
  BY <1>1
<1>4. ASSUME NEW r \in ProjectLine, Precedes(p, r) PROVE Precedes(p, q) \/ Precedes(q, r)
  <2>1. r.score \in Int /\ r.urgency \in Int /\ r.money \in Int
    BY <1>1
  <2> QED BY <1>2, <1>3, <1>4, <2>1 DEF Precedes
<1>5. ~Precedes(p, p) /\ (Precedes(p, q) => ~Precedes(q, p))
  BY <1>2, <1>3 DEF Precedes
<1> QED BY <1>4, <1>5

\* With the place in the table to break ties, the order is total.
LEMMA BeforeIsTotal ==
    ASSUME NEW rs \in Seq(ProjectLine), NEW S \in SUBSET (DOMAIN rs), NEW R,
           \A i, j \in S : <<i, j>> \in R <=> Before(rs, i, j)
    PROVE  TotalOn(S, R)
<1>1. \A i \in S : i \in Int /\ rs[i] \in ProjectLine
  OBVIOUS
<1>2. ASSUME NEW i \in S PROVE ~Before(rs, i, i)
  BY <1>1, PrecedesIsOrder DEF Before
<1>3. ASSUME NEW i \in S, NEW j \in S PROVE i = j \/ Before(rs, i, j) \/ Before(rs, j, i)
  <2>1. i \in Int /\ j \in Int
    BY <1>1
  <2> QED BY <2>1 DEF Before
<1>4. ASSUME NEW i \in S, NEW j \in S, NEW k \in S, Before(rs, i, j), Before(rs, j, k)
      PROVE  Before(rs, i, k)
  <2>1. /\ Precedes(rs[i], rs[j]) => ~Precedes(rs[j], rs[i])
        /\ Precedes(rs[j], rs[k]) => ~Precedes(rs[k], rs[j])
    BY <1>1, PrecedesIsOrder
  <2>2. /\ Precedes(rs[i], rs[j]) => Precedes(rs[i], rs[k]) \/ Precedes(rs[k], rs[j])
        /\ Precedes(rs[j], rs[k]) => Precedes(rs[j], rs[i]) \/ Precedes(rs[i], rs[k])
        /\ Precedes(rs[k], rs[i]) => Precedes(rs[k], rs[j]) \/ Precedes(rs[j], rs[i])
    BY <1>1, PrecedesIsOrder
  <2>3. i \in Int /\ j \in Int /\ k \in Int
    BY <1>1
  <2> QED BY <1>4, <2>1, <2>2, <2>3 DEF Before
<1> QED BY <1>2, <1>3, <1>4 DEF TotalOn

\* The candidates in the order of the sort.
LEMMA SortedOrder ==
    ASSUME NEW rs \in Seq(ProjectLine)
    PROVE  LET S == Candidates(rs)
               R == {e \in S \X S : Before(rs, e[1], e[2])}
           IN  /\ Sorted(rs, S) = InOrder(S, R)
               /\ S \in SUBSET (DOMAIN rs) /\ IsFiniteSet(S) /\ Cardinality(S) \in Nat
               /\ TotalOn(S, R)
               /\ \A i, j \in S : <<i, j>> \in R <=> Before(rs, i, j)
<1> DEFINE S == Candidates(rs)
           R == {e \in S \X S : Before(rs, e[1], e[2])}
<1>1. S \in SUBSET (DOMAIN rs) /\ Len(rs) \in Nat /\ DOMAIN rs = 1..Len(rs)
  BY DEF Candidates
<1>2. IsFiniteSet(S) /\ Cardinality(S) \in Nat
  BY <1>1, DownwardsIsOrder
<1>3. Sorted(rs, S) = InOrder(S, R)
  BY DEF Sorted
<1> HIDE DEF S
<1>4. \A i, j \in S : <<i, j>> \in R <=> Before(rs, i, j)
  OBVIOUS
<1> HIDE DEF R
<1>5. TotalOn(S, R)
  BY <1>1, <1>4, BeforeIsTotal
<1> QED BY <1>1, <1>2, <1>3, <1>4, <1>5 DEF S, R

\* The active set is the front of that order, as long as the larger bound allows.
LEMMA PickIsFront ==
    ASSUME NEW rs \in Seq(ProjectLine)
    PROVE  LET S == Candidates(rs)
               m == Smaller(Greater(MinActive, MaxActive), Cardinality(S))
           IN  /\ m \in Nat /\ Sorted(rs, S) \in [1..Cardinality(S) -> S]
               /\ PickActiveSet(rs) = [k \in 1..m |-> rs[Sorted(rs, S)[k]]]
               /\ PickActiveSet(rs) \in Seq(ProjectLine) /\ Len(PickActiveSet(rs)) = m
<1> DEFINE S == Candidates(rs)
           order == Sorted(rs, S)
           c == Cardinality(S)
           m == Smaller(Greater(MinActive, MaxActive), c)
           front == [k \in 1..m |-> rs[order[k]]]
<1>1. /\ S \in SUBSET (DOMAIN rs) /\ c \in Nat /\ order \in [1..c -> S]
  <2> DEFINE R == {e \in S \X S : Before(rs, e[1], e[2])}
  <2>1. /\ S \in SUBSET (DOMAIN rs) /\ IsFiniteSet(S) /\ c \in Nat
        /\ TotalOn(S, R) /\ order = InOrder(S, R)
    BY SortedOrder
  <2> HIDE DEF R, order, S
  <2>2. InOrder(S, R) \in [1..Cardinality(S) -> S]
    BY <2>1, OrderExists
  <2> QED BY <2>1, <2>2
<1>2. PickActiveSet(rs)
        = [k \in 1..Smaller(Greater(MinActive, Smaller(MaxActive, Len(order))), Len(order))
             |-> rs[order[k]]]
  BY DEF PickActiveSet
<1> HIDE DEF order, S
<1>3. Len(order) = c
  BY <1>1
<1>4. MinActive \in Nat /\ MaxActive \in Nat
  BY PortfolioAssumption
<1>5. m \in Nat /\ m <= c /\ Smaller(Greater(MinActive, Smaller(MaxActive, c)), c) = m
  BY <1>1, <1>4 DEF Smaller, Greater
<1> HIDE DEF m, c
<1>6. PickActiveSet(rs) = front
  BY <1>2, <1>3, <1>5
<1>7. \A k \in 1..m : rs[order[k]] \in ProjectLine
  <2>1. \A k \in 1..m : k \in 1..c
    BY <1>1, <1>5
  <2> QED BY <1>1, <2>1
<1>8. front \in [1..m -> ProjectLine]
  BY <1>7
<1> HIDE DEF front
<1>9. front \in Seq(ProjectLine) /\ Len(front) = m
  BY <1>5, <1>8
<1> QED BY <1>1, <1>5, <1>6, <1>9 DEF S, order, m, c, front

\* The active set of the rows is that of the inputs, once the review is done.
PortfolioInv == PortfolioTypeOK /\ (reviewing = "DONE" => active = PickActiveSet(rows))

LEMMA InvIsTop == PortfolioInv => ActiveSetIsTop
<1> SUFFICES ASSUME PortfolioTypeOK, reviewing = "DONE", active = PickActiveSet(rows)
             PROVE  ActiveSetIsTop
  BY DEF PortfolioInv, ActiveSetIsTop
<1> DEFINE Beats(j, i) ==
               /\ ~rows[j].done
               /\ Precedes(rows[j], rows[i]) \/ (~Precedes(rows[i], rows[j]) /\ j < i)
           place(i) == Cardinality({j \in DOMAIN rows : Beats(j, i)}) + 1
           n == Greater(MinActive, MaxActive)
           picked == {i \in DOMAIN rows : ~rows[i].done /\ place(i) <= n}
           S == Candidates(rows)
           R == {e \in S \X S : Before(rows, e[1], e[2])}
           order == Sorted(rows, S)
           c == Cardinality(S)
           m == Smaller(n, c)
<1>1. rows \in Seq(ProjectLine)
  BY DEF PortfolioTypeOK
<1>2. /\ S \in SUBSET (DOMAIN rows) /\ IsFiniteSet(S) /\ c \in Nat /\ TotalOn(S, R)
      /\ order = InOrder(S, R) /\ \A i, j \in S : <<i, j>> \in R <=> Before(rows, i, j)
  BY <1>1, SortedOrder
<1>3. /\ m \in Nat /\ order \in [1..c -> S]
      /\ active = [k \in 1..m |-> rows[order[k]]] /\ Len(active) = m
  BY <1>1, PickIsFront
<1>4. \A i \in DOMAIN rows : i \in S <=> ~rows[i].done
  BY DEF Candidates
<1>5. n \in Nat /\ m <= n /\ m <= c /\ \A k \in 1..c : k <= n => k \in 1..m
  <2>1. MinActive \in Nat /\ MaxActive \in Nat
    BY PortfolioAssumption
  <2> QED BY <1>2, <2>1 DEF Smaller, Greater
<1> HIDE DEF R, order, S, m, n
<1>6. /\ \A i \in S : Place(S, R, i) \in 1..c /\ order[Place(S, R, i)] = i
      /\ \A k, l \in 1..c : k < l => <<order[k], order[l]>> \in R
  <2>1. \A i \in S : Place(S, R, i) \in 1..c /\ InOrder(S, R)[Place(S, R, i)] = i
    BY <1>2, OrderPlaces
  <2>2. \A k, l \in 1..c : k < l => <<InOrder(S, R)[k], InOrder(S, R)[l]>> \in R
    BY <1>2, OrderExists
  <2> QED BY <1>2, <2>1, <2>2
<1> HIDE DEF c
<1>7. ASSUME NEW i \in S PROVE place(i) = Place(S, R, i)
  <2>1. \A j \in DOMAIN rows : Beats(j, i) <=> j \in S /\ Before(rows, j, i)
    BY <1>4 DEF Before
  <2>2. \A j \in S : <<j, i>> \in R <=> Before(rows, j, i)
    BY <1>2
  <2> HIDE DEF Beats
  <2>3. {j \in DOMAIN rows : Beats(j, i)} = Ahead(S, R, i)
    BY <1>2, <2>1, <2>2 DEF Ahead
  <2> QED BY <2>3 DEF Place
<1> HIDE DEF place
<1>8. picked = {i \in S : Place(S, R, i) <= n}
  BY <1>2, <1>4, <1>7
<1> HIDE DEF picked
<1>9. ASSUME NEW k \in 1..c PROVE Place(S, R, order[k]) = k
  <2>1. order[k] \in S
    BY <1>3
  <2>2. PICK p \in 1..c : p = Place(S, R, order[k]) /\ order[p] = order[k]
    BY <1>6, <2>1
  <2>3. <<order[k], order[k]>> \notin R
    BY <1>2, <2>1 DEF TotalOn
  <2>4. ~(p < k) /\ ~(k < p)
    BY <1>6, <2>2, <2>3
  <2>5. k \in Int /\ p \in Int
    BY <1>2
  <2> QED BY <2>2, <2>4, <2>5
<1> DEFINE g == [k \in 1..m |-> order[k]]
<1>10. g \in Bijection(1..m, picked)
  <2>1. \A k \in 1..m : k \in 1..c /\ k <= n
    BY <1>2, <1>3, <1>5
  <2>2. \A k \in 1..m : order[k] \in picked /\ Place(S, R, order[k]) = k
    BY <1>3, <1>8, <1>9, <2>1
  <2>3. \A i \in picked : \E k \in 1..m : order[k] = i
    <3>1. \A i \in picked : i \in S /\ Place(S, R, i) <= n
      BY <1>8
    <3> QED BY <1>5, <1>6, <3>1
  <2>4. g \in Injection(1..m, picked)
    BY <2>2 DEF Injection, IsInjective
  <2>5. g \in Surjection(1..m, picked)
    BY <2>2, <2>3 DEF Surjection
  <2> QED BY <2>4, <2>5 DEF Bijection
<1>11. Len(active) = Cardinality(picked)
  <2>1. IsFiniteSet(1..m) /\ Cardinality(1..m) = m
    BY <1>3, FS_Interval
  <2>2. ExistsBijection(1..m, picked)
    BY <1>10 DEF ExistsBijection
  <2> QED BY <1>3, <2>1, <2>2, FS_Bijection
<1>12. ASSUME NEW i \in picked PROVE active[place(i)] = rows[i]
  <2>1. i \in S /\ place(i) \in 1..c /\ place(i) <= n /\ order[place(i)] = i
    BY <1>6, <1>7, <1>8
  <2>2. place(i) \in 1..m
    BY <1>5, <2>1
  <2> QED BY <1>3, <2>1, <2>2
<1> QED BY <1>11, <1>12 DEF ActiveSetIsTop, picked, place, n

\* Rows and active set are lists of lines, and the review's answer is what the sort
\* and the bounds make of the rows that the parser made (scoring.py 32-125).
THEOREM PortfolioInvariant == PortfolioSpec => []PortfolioInv
<1>1. PortfolioInit => PortfolioInv
  BY DEF PortfolioInit, PortfolioInv, PortfolioTypeOK
<1>2. PortfolioInv /\ [PortfolioNext]_portfolioVars => PortfolioInv'
  <2> SUFFICES ASSUME PortfolioInv, [PortfolioNext]_portfolioVars PROVE PortfolioInv'
    OBVIOUS
  <2> USE DEF PortfolioInv, PortfolioTypeOK
  <2>1. CASE ParsePortfolio
    <3>1. Parse(lines) \in Seq(ProjectLine)
      BY ParseType
    <3> QED BY <2>1, <3>1 DEF ParsePortfolio
  <2>2. CASE ReviewPortfolio
    <3>1. PickActiveSet(rows) \in Seq(ProjectLine)
      BY PickIsFront
    <3> QED BY <2>2, <3>1 DEF ReviewPortfolio
  <2>3. CASE ReviewAgain
    BY <2>3 DEF ReviewAgain
  <2>4. CASE UNCHANGED portfolioVars
    BY <2>4 DEF portfolioVars
  <2> QED BY <2>1, <2>2, <2>3, <2>4 DEF PortfolioNext
<1> QED BY <1>1, <1>2, PTL DEF PortfolioSpec

\* Whatever the table and the bounds, the active set is the unfinished projects that
\* fewer than n others beat, each behind those that do (pick_active_set,
\* scoring.py 105-125).
THEOREM TopIsPicked == PortfolioSpec => []ActiveSetIsTop
BY PortfolioInvariant, InvIsTop, PTL

-------------------------------------------------------------------------------
\* Services: each of its behaviours, seen through the variables of one service, is a
\* behaviour of that service, so what is proved of the services holds of their sum.

\* A step of one service leaves the others alone.
LEMMA OnlyOne ==
    ASSUME NEW s, Only(s)
    PROVE  /\ s # "bootstrap" => UNCHANGED bootstrapVars
           /\ s # "grants" => UNCHANGED grantsVars
           /\ s # "tenants" => UNCHANGED tenantVars
           /\ s # "policy" => UNCHANGED policyVars
           /\ s # "scripts" => UNCHANGED onDemandVars
           /\ s # "router" => UNCHANGED routerVars
           /\ s # "watchdog" => UNCHANGED watchdogVars
           /\ s # "portfolio" => UNCHANGED portfolioVars
BY DEF Only

LEMMA InitOfEach ==
    Init => /\ BootstrapInit /\ GrantsInit /\ TenantInit /\ PolicyInit
            /\ OnDemandInit /\ RouterInit /\ WatchdogInit /\ PortfolioInit
BY DEF Init, IdlePolicy, IdlePortfolio

LEMMA NextOfEach ==
    [Next]_vars => /\ [BootstrapNext]_bootstrapVars /\ [GrantsNext]_grantsVars
                   /\ [TenantNext]_tenantVars /\ [PolicyNext]_policyVars
                   /\ [OnDemandNext]_onDemandVars /\ [RouterNext]_routerVars
                   /\ [WatchdogNext]_watchdogVars /\ [PortfolioNext]_portfolioVars
<1>1. ASSUME UNCHANGED vars
      PROVE  /\ UNCHANGED bootstrapVars /\ UNCHANGED grantsVars /\ UNCHANGED tenantVars
             /\ UNCHANGED policyVars /\ UNCHANGED onDemandVars /\ UNCHANGED routerVars
             /\ UNCHANGED watchdogVars /\ UNCHANGED portfolioVars
  BY <1>1 DEF vars
<1> QED BY <1>1, OnlyOne DEF Next

\* Every behaviour of Services is one of each service.
THEOREM EachIsRefined ==
    Spec => /\ BootstrapSpec /\ GrantsSpec /\ TenantSpec /\ PolicySpec
            /\ OnDemandSpec /\ RouterSpec /\ WatchdogSpec /\ PortfolioSpec
BY InitOfEach, NextOfEach, PTL
   DEF Spec, BootstrapSpec, GrantsSpec, TenantSpec, PolicySpec, OnDemandSpec, RouterSpec,
       WatchdogSpec, PortfolioSpec

\* Every service keeps its types.
THEOREM ServicesTypeCorrect == Spec => []TypeOK
<1>1. /\ BootstrapInv => BootstrapTypeOK
      /\ FlagInv => OnDemandTypeOK
      /\ GrantsInv => GrantsTypeOK
      /\ TenantInv => TenantTypeOK
      /\ PolicyInv => PolicyTypeOK
      /\ RouterInv => RouterTypeOK
      /\ WatchdogInv => WatchdogTypeOK
      /\ PortfolioInv => PortfolioTypeOK
  BY DEF BootstrapInv, GrantsInv, TenantInv, PolicyInv, FlagInv, RouterInv, WatchdogInv,
         PortfolioInv
<1>2. TypeOK <=> /\ BootstrapTypeOK /\ GrantsTypeOK /\ TenantTypeOK /\ PortfolioTypeOK
                 /\ PolicyTypeOK /\ OnDemandTypeOK /\ RouterTypeOK /\ WatchdogTypeOK
  BY DEF TypeOK
<1> QED BY EachIsRefined, BootstrapInvariant, GrantsInvariant, TenantInvariant,
           PolicyInvariant, FlagInvariant, RouterInvariant, WatchdogInvariant,
           PortfolioInvariant, <1>1, <1>2, PTL

\* The invariants of all services, in every state of Services (the code behind each
\* is named at the theorem of the service).
THEOREM ServicesAreSafe ==
    Spec => [](/\ AnswerIsStatus /\ StateIsBacked /\ NamesAgree /\ ActiveSetIsTop
               /\ MutualYieldExcludes /\ NoCommandLost /\ OnceWhenUndisturbed)
BY EachIsRefined, AnswersAreStatus, StateReportsWhatIsStored, OneTenantPerName, TopIsPicked,
   FlagsExclude, CommandsAreHandled, CommandsRunOnce, PTL

\* Their action properties.
THEOREM ServicesStepSafely ==
    Spec => EachVersionIsNew /\ EnforcementIsExact /\ RunsAreSpaced /\ NoRestartStorm
BY EachIsRefined, VersionsAreNew, PolicyIsExact, RunsKeepTheirLimit, RestartsAreRare, PTL
===============================================================================
