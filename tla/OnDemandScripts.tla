---------------------------- MODULE OnDemandScripts ----------------------------
(***************************************************************************)
(* The scripts smoke, e2e, status and help _on_demand.ps1.  Each writes a  *)
(* lock file of its own, gives up when it sees the lock file of a script   *)
(* it must not disturb, gives up when it ran too recently, runs, and       *)
(* removes its lock file whatever happened.                                *)
(*                                                                         *)
(* New-Item -Force succeeds although the file exists, and the file does    *)
(* not say whose it is: a lock file is a flag, not a lock.                 *)
(***************************************************************************)
EXTENDS FiniteSets

CONSTANTS
    Kinds,      \* the scripts
    Yields,     \* Yields[k]: the scripts whose lock file makes k give up
    Runs,       \* processes at once
    Script      \* Script[p]: the script that process p executes

ASSUME OnDemandAssumption ==
    /\ Yields \in [Kinds -> SUBSET Kinds]
    /\ Script \in [Runs -> Kinds]

VARIABLES
    lockFile,   \* lockFile[k]: whether k's lock file exists
    lastRun,    \* lastRun[k]: whether k's state file records a run within its limit
    process,    \* process[p]: where p is
    ranLately,  \* observer: scripts that have begun a run within their limit
    shared      \* observer: processes that have met another one of their script

onDemandVars == <<lockFile, lastRun, process, ranLately, shared>>

Process == [pc: {"none", "check", "rate", "save", "start", "running", "unlock"},
            toCheck: SUBSET Kinds]
NoProcess == [pc |-> "none", toCheck |-> {}]

OnDemandInit ==
    /\ lockFile = [k \in Kinds |-> FALSE]
    /\ lastRun = [k \in Kinds |-> FALSE]
    /\ process = [p \in Runs |-> NoProcess]
    /\ ranLately = {} /\ shared = {}

Siblings(p) == {q \in Runs \ {p} : Script[q] = Script[p] /\ process[q].pc # "none"}
Meet(p) == shared' = shared \cup Siblings(p) \cup {q \in {p} : Siblings(p) # {}}

Step(p, from, to) == process[p].pc = from /\ process' = [process EXCEPT ![p].pc = to]

-------------------------------------------------------------------------------

BeginUnlocked(p) ==                                 \* mutant: the flag goes up after the check
    /\ process[p].pc = "none"
    /\ process' = [process EXCEPT ![p] = [pc |-> "check", toCheck |-> Yields[Script[p]]]]
    /\ Meet(p)
    /\ UNCHANGED <<lockFile, lastRun, ranLately>>

\* The lock file is created, or is there already.
BeginScript(p) ==
    /\ process[p].pc = "none"
    /\ process' = [process EXCEPT ![p] = [pc |-> "check", toCheck |-> Yields[Script[p]]]]
    /\ Meet(p)
    /\ lockFile' = [lockFile EXCEPT ![Script[p]] = TRUE]
    /\ UNCHANGED <<lastRun, ranLately>>

\* The lock files of the others are looked at one by one.
CheckBusy(p, k) ==
    /\ process[p].pc = "check" /\ k \in process[p].toCheck
    /\ process' = [process EXCEPT
         ![p] = IF lockFile[k] THEN [pc |-> "unlock", toCheck |-> {}]
                ELSE [pc |-> "check", toCheck |-> process[p].toCheck \ {k}]]
    /\ UNCHANGED <<lockFile, lastRun, ranLately, shared>>

AllChecked(p) ==
    /\ process[p].toCheck = {}
    /\ Step(p, "check", "rate")
    /\ UNCHANGED <<lockFile, lastRun, ranLately, shared>>

\* An unreadable state file counts as no run (Load-JsonOrDefault).
CheckRate(p) ==
    /\ Step(p, "rate", IF lastRun[Script[p]] THEN "unlock" ELSE "save")
    /\ UNCHANGED <<lockFile, lastRun, ranLately, shared>>

SaveNothing(p) ==                                   \* mutant: saved after the run
    /\ Step(p, "save", "start")
    /\ UNCHANGED <<lockFile, lastRun, ranLately, shared>>

\* last_run_unix is saved before the run begins.
SaveLastRun(p) ==
    /\ Step(p, "save", "start")
    /\ lastRun' = [lastRun EXCEPT ![Script[p]] = TRUE]
    /\ UNCHANGED <<lockFile, ranLately, shared>>

StartRun(p) ==
    /\ Step(p, "start", "running")
    /\ ranLately' = ranLately \cup {Script[p]}
    /\ UNCHANGED <<lockFile, lastRun, shared>>

\* The run ends, well or not, or one of the steps before it raises.
EndRun(p) ==
    /\ process[p].pc \in {"check", "rate", "save", "start", "running"}
    /\ process' = [process EXCEPT ![p] = [pc |-> "unlock", toCheck |-> {}]]
    /\ UNCHANGED <<lockFile, lastRun, ranLately, shared>>

\* finally: the lock file goes, also when another process wrote it.
RemoveLock(p) ==
    /\ process[p].pc = "unlock"
    /\ process' = [process EXCEPT ![p] = NoProcess]
    /\ shared' = shared \ {p}
    /\ lockFile' = [lockFile EXCEPT ![Script[p]] = FALSE]
    /\ UNCHANGED <<lastRun, ranLately>>

\* The process is killed: no finally, the lock file stays.
KillScript(p) ==
    /\ process[p].pc # "none"
    /\ process' = [process EXCEPT ![p] = NoProcess]
    /\ shared' = shared \ {p}
    /\ UNCHANGED <<lockFile, lastRun, ranLately>>

\* The limit of k has passed since its last run.  It is minutes long: it does not pass
\* between saving the time of a run and starting it.
LimitPasses(k) ==
    /\ lastRun[k] \/ k \in ranLately
    /\ \A p \in Runs : Script[p] = k => process[p].pc # "start"
    /\ lastRun' = [lastRun EXCEPT ![k] = FALSE]
    /\ ranLately' = ranLately \ {k}
    /\ UNCHANGED <<lockFile, process, shared>>

OnDemandNext ==
    \/ \E p \in Runs :
         \/ BeginScript(p) \/ (\E k \in Kinds : CheckBusy(p, k)) \/ AllChecked(p)
         \/ CheckRate(p) \/ SaveLastRun(p) \/ StartRun(p) \/ EndRun(p)
         \/ RemoveLock(p) \/ KillScript(p)
    \/ \E k \in Kinds : LimitPasses(k)

OnDemandSpec == OnDemandInit /\ [][OnDemandNext]_onDemandVars

-------------------------------------------------------------------------------
\* Properties

OnDemandTypeOK ==
    /\ lockFile \in [Kinds -> BOOLEAN]
    /\ lastRun \in [Kinds -> BOOLEAN]
    /\ process \in [Runs -> Process]
    /\ ranLately \subseteq Kinds /\ shared \subseteq Runs

\* Two scripts that yield to each other never run at the same time, killed processes
\* and left-over lock files included ("SMOKE busy: e2e running",
\* smoke_on_demand.ps1 69), unless another process of the script of one of them has
\* been there with it: such a process may have removed the lock file.
MutualYieldExcludes ==
    \A p, q \in Runs \ shared :
        /\ process[p].pc = "running" /\ process[q].pc = "running"
        /\ Script[q] \in Yields[Script[p]] /\ Script[p] \in Yields[Script[q]]
        => p = q

\* A run begins only when its limit has passed since the last one of its script began,
\* the one that was killed in the middle included, unless another process of the script
\* has been there with it: both may have passed the check before either saved the time.
RunsAreSpaced ==
    [][\A p \in Runs \ shared :
         process[p].pc = "start" /\ process'[p].pc = "running"
             => Script[p] \notin ranLately]_onDemandVars
===============================================================================
