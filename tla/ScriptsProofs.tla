------------------------------ MODULE ScriptsProofs ------------------------------
(***************************************************************************)
(* Safety of the PowerShell scripts, for any number of processes: what a   *)
(* lock file that is only a flag still guarantees (OnDemandScripts), what  *)
(* the order of handling and storing guarantees (TelegramRouter), and what *)
(* a lock that the system keeps guarantees (Watchdog).                     *)
(***************************************************************************)
EXTENDS OnDemandScripts, TelegramRouter, Watchdog, TLAPS

-------------------------------------------------------------------------------
\* OnDemandScripts

\* A process that has met no other one of its script has none beside it.
Unmet ==
    \A p \in Runs \ shared, q \in Runs :
        p # q /\ Script[p] = Script[q] /\ process[p].pc # "none" => process[q].pc = "none"

\* p has looked at the lock file of q's script, or need not look at it, and goes on.
Passed(p, q) ==
    \/ process[p].pc \in {"rate", "save", "start", "running"}
    \/ process[p].pc = "check" /\ Script[q] \notin process[p].toCheck

Mutual(p, q) == Script[q] \in Yields[Script[p]] /\ Script[p] \in Yields[Script[q]]

FlagIsUp == \A p \in Runs \ shared : process[p].pc # "none" => lockFile[Script[p]]
OneHasPassed ==
    \A p, q \in Runs \ shared : p # q /\ Mutual(p, q) => ~(Passed(p, q) /\ Passed(q, p))
LimitIsKept ==
    /\ \A k \in ranLately : lastRun[k]
    /\ \A p \in Runs : process[p].pc = "start" => lastRun[Script[p]]
    /\ \A p \in Runs \ shared :
         /\ process[p].pc = "save" => ~lastRun[Script[p]]
         /\ process[p].pc = "start" => Script[p] \notin ranLately
FlagSafe == Unmet /\ FlagIsUp /\ OneHasPassed /\ LimitIsKept
FlagInv == OnDemandTypeOK /\ FlagSafe

LEMMA FlagInit == OnDemandInit => FlagInv
BY OnDemandAssumption
   DEF OnDemandInit, FlagInv, FlagSafe, OnDemandTypeOK, Unmet, FlagIsUp, OneHasPassed,
       LimitIsKept, NoProcess, Process, Passed

LEMMA FlagType == OnDemandTypeOK /\ [OnDemandNext]_onDemandVars => OnDemandTypeOK'
<1> SUFFICES ASSUME OnDemandTypeOK, [OnDemandNext]_onDemandVars PROVE OnDemandTypeOK'
  OBVIOUS
<1> USE OnDemandAssumption DEF OnDemandTypeOK, Process, NoProcess
<1>1. ASSUME NEW p \in Runs, BeginScript(p) PROVE OnDemandTypeOK'
  BY <1>1 DEF BeginScript, Meet, Siblings
<1>2. ASSUME NEW p \in Runs, NEW k \in Kinds, CheckBusy(p, k) PROVE OnDemandTypeOK'
  BY <1>2 DEF CheckBusy
<1>3. ASSUME NEW p \in Runs, AllChecked(p) \/ CheckRate(p) PROVE OnDemandTypeOK'
  <2>1. PICK pc \in {"rate", "unlock", "save"} : process' = [process EXCEPT ![p].pc = pc]
    BY <1>3 DEF AllChecked, CheckRate, Step
  <2>2. UNCHANGED <<lockFile, lastRun, ranLately, shared>>
    BY <1>3 DEF AllChecked, CheckRate
  <2>3. [process[p] EXCEPT !.pc = pc] \in Process
    OBVIOUS
  <2>4. process' \in [Runs -> Process]
    BY <2>1, <2>3
  <2> QED BY <2>2, <2>4
<1>4. ASSUME NEW p \in Runs, SaveLastRun(p) PROVE OnDemandTypeOK'
  BY <1>4 DEF SaveLastRun, Step
<1>5. ASSUME NEW p \in Runs, StartRun(p) PROVE OnDemandTypeOK'
  BY <1>5 DEF StartRun, Step
<1>6. ASSUME NEW p \in Runs, EndRun(p) \/ RemoveLock(p) \/ KillScript(p) PROVE OnDemandTypeOK'
  <2>1. CASE EndRun(p)
    BY <2>1 DEF EndRun
  <2>2. CASE RemoveLock(p)
    BY <2>2 DEF RemoveLock
  <2>3. CASE KillScript(p)
    BY <2>3 DEF KillScript
  <2> QED BY <1>6, <2>1, <2>2, <2>3
<1>7. ASSUME NEW k \in Kinds, LimitPasses(k) PROVE OnDemandTypeOK'
  BY <1>7 DEF LimitPasses
<1>8. CASE UNCHANGED onDemandVars
  BY <1>8 DEF onDemandVars
<1> QED BY <1>1, <1>2, <1>3, <1>4, <1>5, <1>6, <1>7, <1>8 DEF OnDemandNext

\* A step of process p changes no other process, and only p and others of its script
\* take the flag of the script down.
LEMMA FlagStep == ASSUME FlagInv, [OnDemandNext]_onDemandVars PROVE FlagSafe'
<1> USE OnDemandAssumption DEF FlagInv, FlagSafe, OnDemandTypeOK, Process, NoProcess
<1>1. ASSUME NEW p \in Runs, BeginScript(p) PROVE FlagSafe'
  <2>1. /\ process'[p].pc = "check" /\ process'[p].toCheck = Yields[Script[p]]
        /\ process[p].pc = "none" /\ lockFile'[Script[p]]
        /\ \A q \in Runs \ {p} : process'[q] = process[q]
        /\ \A k \in Kinds : lockFile[k] => lockFile'[k]
        /\ UNCHANGED <<lastRun, ranLately>>
    BY <1>1 DEF BeginScript
  <2>2. /\ \A q \in Runs \ shared' : q \notin shared
        /\ \A q \in Runs \ {p} : Script[q] = Script[p] /\ process[q].pc # "none"
              => p \in shared' /\ q \in shared'
    BY <1>1 DEF BeginScript, Meet, Siblings
  <2>3. Unmet'
    BY <2>1, <2>2 DEF Unmet
  <2>4. FlagIsUp'
    BY <2>1, <2>2 DEF FlagIsUp
  <2>5. OneHasPassed'
    BY <2>1, <2>2 DEF OneHasPassed, Passed, Mutual
  <2>6. LimitIsKept'
    BY <2>1, <2>2 DEF LimitIsKept
  <2> QED BY <2>3, <2>4, <2>5, <2>6
<1>2. ASSUME NEW p \in Runs, NEW k \in Kinds, CheckBusy(p, k) PROVE FlagSafe'
  <2>1. /\ process[p].pc = "check" /\ process'[p].pc \in {"check", "unlock"}
        /\ \A q \in Runs \ {p} : process'[q] = process[q]
        /\ UNCHANGED <<lockFile, lastRun, ranLately, shared>>
    BY <1>2 DEF CheckBusy
  <2>2. Unmet' /\ FlagIsUp' /\ LimitIsKept'
    <3>1. Unmet'
      BY <2>1 DEF Unmet
    <3>2. FlagIsUp'
      BY <2>1 DEF FlagIsUp
    <3>3. LimitIsKept'
      BY <2>1 DEF LimitIsKept
    <3> QED BY <3>1, <3>2, <3>3
  <2>3. \/ process'[p].pc = "unlock"
        \/ ~lockFile[k] /\ process'[p].toCheck = process[p].toCheck \ {k}
    BY <1>2 DEF CheckBusy
  <2>4. OneHasPassed'
    <3> SUFFICES ASSUME NEW q \in Runs \ shared, NEW z \in Runs \ shared, q # z, Mutual(q, z),
                        Passed(q, z)', Passed(z, q)'
                 PROVE  FALSE
      BY <2>1 DEF OneHasPassed, Mutual
    <3>1. ASSUME p \notin shared, NEW v \in Runs \ shared, v # p, Mutual(p, v),
                 Passed(p, v)', Passed(v, p)'
          PROVE  FALSE
      <4>1. process[v].pc # "none" /\ Passed(v, p)
        BY <2>1, <3>1 DEF Passed
      <4>2. lockFile[Script[v]]
        BY <3>1, <4>1 DEF FlagIsUp, FlagSafe
      <4>3. Passed(p, v)
        BY <2>1, <2>3, <3>1, <4>2 DEF Passed
      <4> QED BY <3>1, <4>1, <4>3 DEF OneHasPassed, FlagSafe
    <3>2. CASE q = p
      BY <3>1, <3>2
    <3>3. CASE z = p
      BY <3>1, <3>3 DEF Mutual
    <3>4. CASE q # p /\ z # p
      <4>1. q \in Runs /\ z \in Runs /\ process'[q] = process[q] /\ process'[z] = process[z]
        BY <2>1, <3>4
      <4>2. Passed(q, z) /\ Passed(z, q)
        BY <4>1 DEF Passed
      <4> QED BY <4>2 DEF OneHasPassed, FlagSafe
    <3> QED BY <3>2, <3>3, <3>4
  <2> QED BY <2>2, <2>4 DEF FlagSafe
<1>3. ASSUME NEW p \in Runs, AllChecked(p) \/ CheckRate(p) \/ SaveLastRun(p) \/ StartRun(p)
      PROVE  FlagSafe'
  <2>1. PICK pc \in {"rate", "unlock", "save", "start", "running"} :
           process' = [process EXCEPT ![p].pc = pc]
    BY <1>3 DEF AllChecked, CheckRate, SaveLastRun, StartRun, Step
  <2>2. /\ process[p].pc # "none" /\ UNCHANGED <<lockFile, shared>>
        /\ process[p].pc = "check" => process[p].toCheck = {}
        /\ process[p].pc \in {"check", "rate", "save", "start"}
    BY <1>3 DEF AllChecked, CheckRate, SaveLastRun, StartRun, Step
  <2>3. /\ process'[p].pc = pc
        /\ \A q \in Runs \ {p} : process'[q] = process[q]
    BY <2>1
  <2>4. Unmet' /\ FlagIsUp'
    BY <2>2, <2>3 DEF Unmet, FlagIsUp
  <2>5. OneHasPassed'
    <3>1. \A q \in Runs : Passed(p, q)
      BY <2>2 DEF Passed
    <3>2. \A q, r \in Runs : q # p => Passed(q, r)' = Passed(q, r)
      BY <2>3 DEF Passed
    <3> QED BY <2>2, <3>1, <3>2 DEF OneHasPassed, Mutual
  <2>6. LimitIsKept'
    <3>1. CASE AllChecked(p)
      BY <3>1, <2>3, <2>1 DEF AllChecked, Step, LimitIsKept
    <3>2. CASE CheckRate(p)
      BY <3>2, <2>3, <2>1 DEF CheckRate, Step, LimitIsKept
    <3>3. CASE SaveLastRun(p)
      BY <3>3, <2>3, <2>1 DEF SaveLastRun, Step, LimitIsKept, Unmet
    <3>4. CASE StartRun(p)
      BY <3>4, <2>3, <2>1 DEF StartRun, Step, LimitIsKept, Unmet
    <3> QED BY <1>3, <3>1, <3>2, <3>3, <3>4
  <2> QED BY <2>4, <2>5, <2>6
<1>4. ASSUME NEW p \in Runs, EndRun(p) \/ RemoveLock(p) \/ KillScript(p) PROVE FlagSafe'
  <2>1. /\ process'[p] \in {[pc |-> "unlock", toCheck |-> {}], NoProcess}
        /\ \A q \in Runs \ {p} : process'[q] = process[q]
        /\ process[p].pc # "none"
        /\ UNCHANGED <<lastRun, ranLately>>
        /\ \A q \in Runs \ {p} : q \in shared' <=> q \in shared
        /\ process'[p].pc = "none" \/ shared' = shared
    BY <1>4 DEF EndRun, RemoveLock, KillScript
  <2>2. Unmet'
    BY <2>1 DEF Unmet
  <2>3. FlagIsUp'
    <3>1. CASE EndRun(p) \/ KillScript(p)
      BY <3>1, <2>1 DEF EndRun, KillScript, FlagIsUp
    <3>2. CASE RemoveLock(p)
      BY <3>2, <2>1 DEF RemoveLock, FlagIsUp, Unmet
    <3> QED BY <1>4, <3>1, <3>2
  <2>4. OneHasPassed'
    <3>1. \A q \in Runs : ~Passed(p, q)'
      BY <2>1 DEF Passed
    <3>2. \A q \in Runs \ {p}, r \in Runs : Passed(q, r)' <=> Passed(q, r)
      BY <2>1 DEF Passed
    <3> QED BY <2>1, <3>1, <3>2 DEF OneHasPassed, Mutual
  <2>5. LimitIsKept'
    BY <2>1 DEF LimitIsKept
  <2> QED BY <2>2, <2>3, <2>4, <2>5
<1>5. ASSUME NEW k \in Kinds, LimitPasses(k) PROVE FlagSafe'
  BY <1>5 DEF LimitPasses, Unmet, FlagIsUp, OneHasPassed, LimitIsKept, Passed, Mutual
<1>6. CASE UNCHANGED onDemandVars
  BY <1>6 DEF onDemandVars, Unmet, FlagIsUp, OneHasPassed, LimitIsKept, Passed, Mutual
<1> QED BY <1>1, <1>2, <1>3, <1>4, <1>5, <1>6 DEF OnDemandNext

THEOREM FlagInvariant == OnDemandSpec => []FlagInv
<1>1. FlagInv /\ [OnDemandNext]_onDemandVars => FlagInv'
  BY FlagType, FlagStep DEF FlagInv
<1> QED BY FlagInit, <1>1, PTL DEF OnDemandSpec

\* With any number of processes of each script, two scripts that yield to each other
\* never run at the same time, whoever is killed (smoke_on_demand.ps1 69,
\* e2e_on_demand.ps1 67), unless one of the two processes has met another of its own
\* script.
THEOREM FlagsExclude == OnDemandSpec => []MutualYieldExcludes
<1>1. FlagInv => MutualYieldExcludes
  BY DEF FlagInv, FlagSafe, OneHasPassed, MutualYieldExcludes, Mutual, Passed
<1> QED BY FlagInvariant, <1>1, PTL

\* With any number of processes of each script, no run begins within the limit of the
\* one before (smoke_on_demand.ps1 71-81), unless its process has met another one of
\* its script.
THEOREM RunsKeepTheirLimit == OnDemandSpec => RunsAreSpaced
<1>1. FlagInv => \A p \in Runs \ shared :
                    process[p].pc = "start" => Script[p] \notin ranLately
  BY DEF FlagInv, FlagSafe, LimitIsKept
<1>2. FlagInv /\ [OnDemandNext]_onDemandVars =>
        [\A p \in Runs \ shared :
           process[p].pc = "start" /\ process'[p].pc = "running"
               => Script[p] \notin ranLately]_onDemandVars
  BY <1>1
<1> QED BY FlagInvariant, <1>2, PTL DEF OnDemandSpec, RunsAreSpaced

-------------------------------------------------------------------------------
\* TelegramRouter

\* What the router has gone past, or left behind a later update of its batch, is handled.
Behind(r, u) ==
    /\ router[r].pc # "none"
    /\ u <= router[r].last \/ (u \notin router[r].batch /\ \E v \in router[r].batch : u < v)

HandledBehind ==
    \A u \in Commands :
        u <= confirmed \/ u <= stored \/ (\E r \in Routers : Behind(r, u)) => u \in handled

\* While nothing disturbs there is one router, and it is ahead of what was handled.
Undisturbed ==
    ~disturbed =>
        /\ repeated = {}
        /\ \A r, q \in Routers : router[r].pc # "none" /\ router[q].pc # "none" => r = q
        /\ \A r \in Routers :
             /\ router[r].pc = "none" \/ router[r].pc = "fetch" => router[r].batch = {}
             /\ router[r].pc # "none" => /\ \A u \in handled : u <= router[r].last
                                         /\ \A u \in router[r].batch : u > router[r].last
        /\ (\A r \in Routers : router[r].pc = "none") => \A u \in handled : u <= stored

RouterInv == RouterTypeOK /\ HandledBehind /\ Undisturbed

LEMMA RouterInitial == RouterInit => RouterInv
<1> SUFFICES ASSUME RouterInit PROVE RouterInv
  OBVIOUS
<1>1. RouterTypeOK
  <2>1. 0 \in Updates
    BY RouterAssumption DEF Updates
  <2>2. NoRouter \in Router
    BY <2>1 DEF NoRouter, Router
  <2> QED BY <2>1, <2>2 DEF RouterInit, RouterTypeOK
<1>2. HandledBehind
  <2>1. \A u \in Commands : ~(u <= 0)
    BY RouterAssumption
  <2>2. \A r \in Routers : router[r].pc = "none"
    BY DEF RouterInit, NoRouter
  <2> QED BY <2>1, <2>2 DEF RouterInit, HandledBehind, Behind
<1>3. Undisturbed
  BY DEF RouterInit, Undisturbed, NoRouter
<1> QED BY <1>1, <1>2, <1>3 DEF RouterInv

LEMMA RouterType == RouterTypeOK /\ [RouterNext]_routerVars => RouterTypeOK'
<1> SUFFICES ASSUME RouterTypeOK, [RouterNext]_routerVars PROVE RouterTypeOK'
  OBVIOUS
<1> USE RouterAssumption DEF RouterTypeOK, Router, NoRouter, Updates
<1>1. CASE Arrive
  BY <1>1 DEF Arrive
<1>2. ASSUME NEW r \in Routers, LoadRouterState(r) PROVE RouterTypeOK'
  <2>1. PICK last \in {stored, 0} :
          router' = [router EXCEPT ![r] = [pc |-> "fetch", last |-> last, batch |-> {}]]
    BY <1>2 DEF LoadRouterState
  <2> QED BY <1>2, <2>1 DEF LoadRouterState
<1>3. ASSUME NEW r \in Routers, FetchUpdates(r) PROVE RouterTypeOK'
  <2>1. Batch(router[r].last) \subseteq 1..MaxUpdate
    BY DEF Batch
  <2>2. router'[r] = [pc |-> "handle", last |-> router[r].last, batch |-> Batch(router[r].last)]
    BY <1>3 DEF FetchUpdates
  <2>3. router' \in [Routers -> Router]
    BY <1>3, <2>1, <2>2 DEF FetchUpdates
  <2>4. confirmed' \in Updates
    BY <1>3 DEF FetchUpdates
  <2> QED BY <1>3, <2>3, <2>4 DEF FetchUpdates
<1>4. ASSUME NEW r \in Routers, NEW u \in 1..MaxUpdate, HandleUpdate(r, u) PROVE RouterTypeOK'
  BY <1>4 DEF HandleUpdate
<1>5. ASSUME NEW r \in Routers, SaveRouterState(r) PROVE RouterTypeOK'
  BY <1>5 DEF SaveRouterState
<1>6. ASSUME NEW r \in Routers, CutRouter(r) PROVE RouterTypeOK'
  BY <1>6 DEF CutRouter
<1>7. CASE UNCHANGED routerVars
  BY <1>7 DEF routerVars
<1> QED BY <1>1, <1>2, <1>3, <1>4, <1>5, <1>6, <1>7 DEF RouterNext

\* A step of router r leaves what is behind the others as it is, and handled only grows.
LEMMA HandledStep ==
    ASSUME RouterInv, [RouterNext]_routerVars PROVE HandledBehind'
<1> USE RouterAssumption DEF RouterInv, RouterTypeOK, Router, NoRouter, Updates
<1>1. CASE Arrive
  BY <1>1 DEF Arrive, HandledBehind, Behind
<1>2. ASSUME NEW r \in Routers, LoadRouterState(r) PROVE HandledBehind'
  <2>1. PICK last \in {stored, 0} :
          router' = [router EXCEPT ![r] = [pc |-> "fetch", last |-> last, batch |-> {}]]
    BY <1>2 DEF LoadRouterState
  <2>2. \A u \in Commands : Behind(r, u)' => u <= stored
    <3>1. router'[r].last = last /\ router'[r].batch = {}
      BY <2>1
    <3>2. \A u \in Commands : ~(u <= 0)
      OBVIOUS
    <3> QED BY <3>1, <3>2 DEF Behind
  <2>3. \A u \in Commands, q \in Routers \ {r} : Behind(q, u)' <=> Behind(q, u)
    BY <2>1 DEF Behind
  <2> QED BY <1>2, <2>2, <2>3 DEF LoadRouterState, HandledBehind
<1>3. ASSUME NEW r \in Routers, FetchUpdates(r) PROVE HandledBehind'
  <2>1. /\ router'[r].last = router[r].last /\ router'[r].batch = Batch(router[r].last)
        /\ router[r].pc = "fetch" /\ router'[r].pc = "handle"
        /\ \A q \in Routers \ {r} : router'[q] = router[q]
    BY <1>3 DEF FetchUpdates
  <2>2. \A u \in Commands : Behind(r, u)' => Behind(r, u) \/ u <= confirmed
    BY <1>3, <2>1 DEF Behind, Batch, FetchUpdates
  <2>3. \A u \in Commands, q \in Routers \ {r} : Behind(q, u)' <=> Behind(q, u)
    BY <2>1 DEF Behind
  <2>4. \A u \in Commands : u <= confirmed' => u <= confirmed \/ Behind(r, u)
    BY <1>3 DEF Behind, FetchUpdates
  <2> QED BY <1>3, <2>2, <2>3, <2>4 DEF FetchUpdates, HandledBehind
<1>4. ASSUME NEW r \in Routers, NEW u \in 1..MaxUpdate, HandleUpdate(r, u) PROVE HandledBehind'
  <2>1. router' = [router EXCEPT ![r] = [pc |-> "handle", last |-> u,
                                         batch |-> router[r].batch \ {u}]]
    BY <1>4 DEF HandleUpdate
  <2>2. \A v \in Commands : Behind(r, v)' => Behind(r, v) \/ v = u
    BY <1>4, <2>1 DEF Behind, HandleUpdate
  <2>3. \A v \in Commands, q \in Routers \ {r} : Behind(q, v)' <=> Behind(q, v)
    BY <2>1 DEF Behind
  <2> QED BY <1>4, <2>2, <2>3 DEF HandleUpdate, HandledBehind
<1>5. ASSUME NEW r \in Routers, SaveRouterState(r) PROVE HandledBehind'
  <2>1. \A u \in Commands : ~Behind(r, u)' /\ (u <= stored' => Behind(r, u))
    BY <1>5 DEF Behind, SaveRouterState
  <2>2. \A u \in Commands, q \in Routers \ {r} : Behind(q, u)' <=> Behind(q, u)
    BY <1>5 DEF Behind, SaveRouterState
  <2> QED BY <1>5, <2>1, <2>2 DEF SaveRouterState, HandledBehind
<1>6. ASSUME NEW r \in Routers, CutRouter(r) PROVE HandledBehind'
  <2>1. \A u \in Commands, q \in Routers : Behind(q, u)' => Behind(q, u)
    BY <1>6 DEF Behind, CutRouter
  <2> QED BY <1>6, <2>1 DEF CutRouter, HandledBehind
<1>7. CASE UNCHANGED routerVars
  BY <1>7 DEF routerVars, HandledBehind, Behind
<1> QED BY <1>1, <1>2, <1>3, <1>4, <1>5, <1>6, <1>7 DEF RouterNext

LEMMA UndisturbedStep ==
    ASSUME RouterInv, [RouterNext]_routerVars PROVE Undisturbed'
<1> SUFFICES ASSUME ~disturbed' PROVE Undisturbed'
  BY DEF Undisturbed
<1> USE RouterAssumption DEF RouterInv, RouterTypeOK, Router, NoRouter, Updates
<1>1. CASE Arrive
  BY <1>1 DEF Arrive, Undisturbed
<1>2. ASSUME NEW r \in Routers, LoadRouterState(r) PROVE Undisturbed'
  <2>1. /\ router' = [router EXCEPT ![r] = [pc |-> "fetch", last |-> stored, batch |-> {}]]
        /\ \A q \in Routers : router[q].pc = "none"
        /\ ~disturbed
    BY <1>2 DEF LoadRouterState
  <2> QED BY <1>2, <2>1 DEF LoadRouterState, Undisturbed
<1>3. ASSUME NEW r \in Routers, FetchUpdates(r) PROVE Undisturbed'
  <2>1. /\ router'[r].last = router[r].last /\ router'[r].batch = Batch(router[r].last)
        /\ router[r].pc = "fetch" /\ router'[r].pc = "handle"
        /\ \A q \in Routers \ {r} : router'[q] = router[q]
    BY <1>3 DEF FetchUpdates
  <2>2. \A u \in Batch(router[r].last) : u > router[r].last
    BY DEF Batch
  <2> QED BY <1>3, <2>1, <2>2 DEF FetchUpdates, Undisturbed
<1>4. ASSUME NEW r \in Routers, NEW u \in 1..MaxUpdate, HandleUpdate(r, u) PROVE Undisturbed'
  <2>1. router' = [router EXCEPT ![r] = [pc |-> "handle", last |-> u,
                                         batch |-> router[r].batch \ {u}]]
    BY <1>4 DEF HandleUpdate
  <2>2. u \notin handled /\ u > router[r].last
    BY <1>4 DEF HandleUpdate, Undisturbed
  <2> QED BY <1>4, <2>1, <2>2 DEF HandleUpdate, Undisturbed
<1>5. ASSUME NEW r \in Routers, SaveRouterState(r) PROVE Undisturbed'
  BY <1>5 DEF SaveRouterState, Undisturbed
<1>6. ASSUME NEW r \in Routers, CutRouter(r) PROVE Undisturbed'
  BY <1>6 DEF CutRouter
<1>7. CASE UNCHANGED routerVars
  BY <1>7 DEF routerVars, Undisturbed
<1> QED BY <1>1, <1>2, <1>3, <1>4, <1>5, <1>6, <1>7 DEF RouterNext

THEOREM RouterInvariant == RouterSpec => []RouterInv
<1>1. RouterInv /\ [RouterNext]_routerVars => RouterInv'
  BY RouterType, HandledStep, UndisturbedStep DEF RouterInv
<1> QED BY RouterInitial, <1>1, PTL DEF RouterSpec

\* No command is forgotten or passed over unhandled, with any number of routers that
\* overlap, die, or store an older id (telegram_router.ps1 91, 101, 135).
THEOREM CommandsAreHandled == RouterSpec => []NoCommandLost
<1>1. RouterInv => NoCommandLost
  BY DEF RouterInv, HandledBehind, NoCommandLost
<1> QED BY RouterInvariant, <1>1, PTL

\* A command is repeated only after a cut or an overlap (telegram_router.ps1 101).
THEOREM CommandsRunOnce == RouterSpec => []OnceWhenUndisturbed
<1>1. RouterInv => OnceWhenUndisturbed
  BY DEF RouterInv, Undisturbed, OnceWhenUndisturbed
<1> QED BY RouterInvariant, <1>1, PTL

-------------------------------------------------------------------------------
\* Watchdog

\* The system gives the lock to one process.
OneHolder ==
    \A v, w \in Watchdogs : watch[v].pc # "none" /\ watch[w].pc # "none" => v = w

\* What the state file counts was probed, except while a success or a restart is about
\* to be recorded; and it is no younger than the last restart.
Counted ==
    /\ (\A w \in Watchdogs : watch[w].pc \notin {"ok", "record"}) =>
          failures <= streak /\ age <= quiet
    /\ (\A w \in Watchdogs : watch[w].pc # "record") => age <= quiet
    /\ \A w \in Watchdogs :
         /\ watch[w].pc = "probe" => watch[w].count = failures
         /\ watch[w].pc = "count" => watch[w].count <= streak
         /\ watch[w].pc = "restart" => streak = Threshold /\ quiet = CoolDown

WatchdogInv == WatchdogTypeOK /\ OneHolder /\ (~lostWrite => Counted)

LEMMA WatchdogInitial == WatchdogInit => WatchdogInv
<1> SUFFICES ASSUME WatchdogInit PROVE WatchdogInv
  OBVIOUS
<1> USE WatchdogAssumption
<1>1. WatchdogTypeOK
  <2>1. 0 \in 0..Threshold /\ CoolDown \in 0..CoolDown /\ 0 \in 0..MaxKills
    OBVIOUS
  <2>2. NoWatch \in Watch
    BY <2>1 DEF NoWatch, Watch
  <2>3. watch \in [Watchdogs -> Watch]
    BY <2>2 DEF WatchdogInit
  <2> QED BY <2>1, <2>3 DEF WatchdogInit, WatchdogTypeOK
<1>2. OneHolder /\ Counted
  BY DEF WatchdogInit, OneHolder, Counted, NoWatch
<1> QED BY <1>1, <1>2 DEF WatchdogInv

LEMMA UpToBounds ==
    ASSUME NEW b \in Nat, NEW n \in 0..b, NEW k \in 0..b, n <= k
    PROVE  UpTo(b, n) \in 0..b /\ UpTo(b, n) <= UpTo(b, k) /\ (n = b => UpTo(b, n) = b)
BY DEF UpTo

LEMMA WatchdogSteps ==
    ASSUME WatchdogInv, [WatchdogNext]_watchdogVars PROVE WatchdogInv'
<1> USE WatchdogAssumption DEF WatchdogInv, WatchdogTypeOK, Watch, NoWatch
<1>1. CASE GatewayChanges
  BY <1>1 DEF GatewayChanges, observers, OneHolder, Counted
<1>2. CASE TimePasses
  <2>1. /\ age' \in 0..CoolDown /\ quiet' \in 0..CoolDown
        /\ age <= quiet => age' <= quiet'
        /\ quiet = CoolDown => quiet' = CoolDown
    BY <1>2, UpToBounds DEF TimePasses
  <2> QED BY <1>2, <2>1 DEF TimePasses, OneHolder, Counted
<1>3. ASSUME NEW w \in Watchdogs, OpenLock(w) PROVE WatchdogInv'
  BY <1>3 DEF OpenLock, LockFree, observers, OneHolder, Counted
<1>4. ASSUME NEW w \in Watchdogs, ProbeSucceeds(w) PROVE WatchdogInv'
  BY <1>4 DEF ProbeSucceeds, GoOn, OneHolder, Counted
<1>5. ASSUME NEW w \in Watchdogs, RecordOk(w) PROVE WatchdogInv'
  BY <1>5 DEF RecordOk, Leave, observers, OneHolder, Counted
<1>6. ASSUME NEW w \in Watchdogs, ProbeFails(w) PROVE WatchdogInv'
  <2>1. /\ UpTo(Threshold, watch[w].count) \in 0..Threshold
        /\ UpTo(Threshold, streak) \in 0..Threshold /\ streak <= UpTo(Threshold, streak)
        /\ watch[w].count <= streak
              => UpTo(Threshold, watch[w].count) <= UpTo(Threshold, streak)
    BY DEF UpTo
  <2> QED BY <1>6, <2>1 DEF ProbeFails, OneHolder, Counted
<1>7. ASSUME NEW w \in Watchdogs, RecordFailure(w) PROVE WatchdogInv'
  <2>1. CASE watch[w].count >= Threshold /\ age >= CoolDown
    BY <1>7, <2>1 DEF RecordFailure, GoOn, observers, OneHolder, Counted
  <2>2. CASE ~(watch[w].count >= Threshold /\ age >= CoolDown)
    BY <1>7, <2>2 DEF RecordFailure, Leave, observers, OneHolder, Counted
  <2> QED BY <2>1, <2>2
<1>8. ASSUME NEW w \in Watchdogs, RestartGateway(w) PROVE WatchdogInv'
  BY <1>8 DEF RestartGateway, GoOn, OneHolder, Counted
<1>9. ASSUME NEW w \in Watchdogs, RestartRaises(w) PROVE WatchdogInv'
  <2>1. healthy' \in BOOLEAN
    BY <1>9, Zenon DEF RestartRaises
  <2> QED BY <1>9, <2>1 DEF RestartRaises, Leave, observers, OneHolder, Counted
<1>10. ASSUME NEW w \in Watchdogs, RecordRestart(w) PROVE WatchdogInv'
  <2>1. /\ watch'[w].pc = "none" /\ watch[w].pc = "record"
        /\ \A v \in Watchdogs \ {w} : watch'[v] = watch[v]
        /\ failures' = 0 /\ age' = 0 /\ UNCHANGED <<healthy, streak, quiet, kills>>
    BY <1>10 DEF RecordRestart, Leave
  <2>2. WatchdogTypeOK'
    <3>1. watch' \in [Watchdogs -> Watch]
      BY <1>10 DEF RecordRestart, Leave
    <3>2. lostWrite' \in BOOLEAN
      BY <1>10, Zenon DEF RecordRestart
    <3>3. failures' \in 0..Threshold /\ age' \in 0..CoolDown
      BY <2>1
    <3> QED BY <2>1, <3>1, <3>2, <3>3
  <2>3. \A v \in Watchdogs : watch'[v].pc = "none"
    BY <2>1 DEF OneHolder
  <2>4. OneHolder' /\ Counted'
    BY <2>1, <2>3 DEF OneHolder, Counted
  <2> QED BY <2>2, <2>4
<1>11. ASSUME NEW w \in Watchdogs, KillWatchdog(w) PROVE WatchdogInv'
  <2>1. WatchdogTypeOK'
    <3>1. /\ watch' \in [Watchdogs -> Watch] /\ kills' \in 0..MaxKills
          /\ failures' \in 0..Threshold /\ age' \in 0..CoolDown
      BY <1>11 DEF KillWatchdog, Leave
    <3>2. lostWrite' \in BOOLEAN
      BY <1>11, Zenon DEF KillWatchdog
    <3> QED BY <1>11, <3>1, <3>2 DEF KillWatchdog
  <2>2. /\ watch'[w].pc = "none" /\ watch[w].pc # "none"
        /\ \A v \in Watchdogs \ {w} : watch'[v] = watch[v]
    BY <1>11 DEF KillWatchdog, Leave
  <2>3. OneHolder'
    BY <2>2 DEF OneHolder
  <2>4. ASSUME ~lostWrite' PROVE Counted'
    <3>1. ~lostWrite /\ watch[w].pc \notin {"ok", "record"}
      BY <1>11, <2>4 DEF KillWatchdog
    <3>2. UNCHANGED <<failures, age, streak, quiet>>
      BY <1>11, <2>4 DEF KillWatchdog
    <3> QED BY <2>2, <3>1, <3>2 DEF OneHolder, Counted
  <2> QED BY <2>1, <2>3, <2>4
<1>12. CASE UNCHANGED watchdogVars
  BY <1>12 DEF watchdogVars, observers, OneHolder, Counted
<1> QED BY <1>1, <1>2, <1>3, <1>4, <1>5, <1>6, <1>7, <1>8, <1>9, <1>10, <1>11, <1>12
        DEF WatchdogNext, WatchdogStep

THEOREM WatchdogInvariant == WatchdogSpec => []WatchdogInv
BY WatchdogInitial, WatchdogSteps, PTL DEF WatchdogSpec

\* The gateway is restarted only after Threshold failed probes in a row, a cool-down
\* after the last restart (watchdog.ps1 219-240), unless since the last recorded restart
\* a watchdog died with a success or a restart to record, or while it wrote its state.
THEOREM RestartsAreRare == WatchdogSpec => NoRestartStorm
<1>1. WatchdogInv => \A w \in Watchdogs : watch[w].pc = "restart" /\ ~lostWrite
                         => streak = Threshold /\ quiet = CoolDown
  BY DEF WatchdogInv, Counted
<1>2. WatchdogInv /\ [WatchdogNext]_watchdogVars =>
        [\A w \in Watchdogs :
           watch[w].pc = "restart" /\ watch'[w].pc = "record" /\ ~lostWrite
               => streak = Threshold /\ quiet = CoolDown]_watchdogVars
  BY <1>1
<1> QED BY WatchdogInvariant, <1>2, PTL DEF WatchdogSpec, NoRestartStorm

===============================================================================
