------------------------------- MODULE Watchdog -------------------------------
(***************************************************************************)
(* The gateway watchdog: every minute watchdog.ps1 takes a lock (a file    *)
(* opened without sharing: the system gives it to one process and takes it *)
(* back when that process ends), reads its state file, probes the gateway, *)
(* counts failures and restarts the gateway when there are enough.         *)
(***************************************************************************)
EXTENDS Naturals

CONSTANTS
    Watchdogs,  \* watchdog processes at once
    Threshold,  \* FailuresBeforeRestart; also the bound of the counts: the script counts on
                \* in the cool-down, but compares the count with nothing larger
    CoolDown,   \* 60 seconds, in ticks of the clock; also the bound of the ages
    MaxKills    \* bound on the processes that die in a behaviour

ASSUME WatchdogAssumption ==
    /\ Threshold \in Nat \ {0}
    /\ CoolDown \in Nat /\ MaxKills \in Nat

VARIABLES
    healthy,    \* what a probe of the gateway finds
    failures,   \* failures in the state file
    age,        \* ticks since lastRestart of the state file
    watch,      \* watch[w]: where w is, with its copy of the count
    streak,     \* observer: failed probes since the last good one or the last restart
    quiet,      \* observer: ticks since the last restart
    lostWrite,  \* observer: a process died when it had a success or a restart to record,
                \* or while it wrote the state file, and no restart was recorded since
    kills       \* processes that died so far

watchdogVars == <<healthy, failures, age, watch, streak, quiet, lostWrite, kills>>
observers == <<streak, quiet, lostWrite, kills>>

Watch == [pc: {"none", "probe", "ok", "count", "restart", "record"}, count: 0..Threshold]
NoWatch == [pc |-> "none", count |-> 0]

\* A state file without lastRestart suppresses nothing, like an old lastRestart.
WatchdogInit ==
    /\ healthy \in BOOLEAN
    /\ failures = 0 /\ age = CoolDown
    /\ watch = [w \in Watchdogs |-> NoWatch]
    /\ streak = 0 /\ quiet = CoolDown /\ lostWrite = FALSE /\ kills = 0

UpTo(bound, n) == IF n < bound THEN n + 1 ELSE bound
GoOn(w, pc) == watch' = [watch EXCEPT ![w].pc = pc]
Leave(w) == watch' = [watch EXCEPT ![w] = NoWatch]
LockFree == \A w \in Watchdogs : watch[w].pc = "none"

-------------------------------------------------------------------------------

\* The gateway comes up, goes down, or is started again by runner.ps1.
GatewayChanges ==
    /\ healthy' = ~healthy
    /\ UNCHANGED <<failures, age, watch, observers>>

TimePasses ==
    /\ age < CoolDown \/ quiet < CoolDown
    /\ age' = UpTo(CoolDown, age) /\ quiet' = UpTo(CoolDown, quiet)
    /\ UNCHANGED <<healthy, failures, watch, streak, lostWrite, kills>>

OpenAnyway(w) ==                                    \* mutant: the file is shared
    /\ watch[w].pc = "none"
    /\ watch' = [watch EXCEPT ![w] = [pc |-> "probe", count |-> failures]]
    /\ UNCHANGED <<healthy, failures, age, observers>>

\* With-Lock and Read-State; a watchdog that finds the lock taken ends.
OpenLock(w) ==
    /\ watch[w].pc = "none" /\ LockFree
    /\ watch' = [watch EXCEPT ![w] = [pc |-> "probe", count |-> failures]]
    /\ UNCHANGED <<healthy, failures, age, observers>>

ProbeSucceeds(w) ==
    /\ watch[w].pc = "probe" /\ healthy
    /\ GoOn(w, "ok")
    /\ streak' = 0
    /\ UNCHANGED <<healthy, failures, age, quiet, lostWrite, kills>>

RecordOk(w) ==
    /\ watch[w].pc = "ok"
    /\ failures' = 0
    /\ Leave(w)
    /\ UNCHANGED <<healthy, age, observers>>

ProbeFails(w) ==
    /\ watch[w].pc = "probe" /\ ~healthy
    /\ watch' = [watch EXCEPT
         ![w] = [pc |-> "count", count |-> UpTo(Threshold, watch[w].count)]]
    /\ streak' = UpTo(Threshold, streak)
    /\ UNCHANGED <<healthy, failures, age, quiet, lostWrite, kills>>

CountAtRestart(w) ==                    \* mutant: the state is written at the end only
    /\ watch[w].pc = "count"
    /\ IF watch[w].count >= Threshold /\ age >= CoolDown
       THEN GoOn(w, "restart") /\ failures' = watch[w].count
       ELSE Leave(w) /\ UNCHANGED failures
    /\ UNCHANGED <<healthy, age, observers>>

\* The count is written before anything is restarted; a restart in the cool-down is
\* suppressed.
RecordFailure(w) ==
    /\ watch[w].pc = "count"
    /\ failures' = watch[w].count
    /\ IF watch[w].count >= Threshold /\ age >= CoolDown THEN GoOn(w, "restart") ELSE Leave(w)
    /\ UNCHANGED <<healthy, age, observers>>

\* Restart-Gateway; the gateway may or may not come up.
RestartGateway(w) ==
    /\ watch[w].pc = "restart"
    /\ healthy' \in BOOLEAN
    /\ streak' = 0 /\ quiet' = 0
    /\ GoOn(w, "record")
    /\ UNCHANGED <<failures, age, lostWrite, kills>>

\* Restart-Service has stopped the gateway, or not even that, and raises: the exception
\* ends the watchdog.  Nothing is recorded, so the next watchdog that finds the gateway
\* unhealthy tries again, without a cool-down.
RestartRaises(w) ==
    /\ watch[w].pc = "restart"
    /\ healthy' \in {healthy, FALSE}
    /\ Leave(w)
    /\ UNCHANGED <<failures, age, observers>>

RecordRestart(w) ==
    /\ watch[w].pc = "record"
    /\ failures' = 0 /\ age' = 0
    /\ lostWrite' = FALSE
    /\ Leave(w)
    /\ UNCHANGED <<healthy, streak, quiet, kills>>

\* The process dies and the system closes the lock file.  Death while writing leaves
\* a state file that Read-State cannot parse and replaces by its defaults.
KillWatchdog(w) ==
    /\ watch[w].pc # "none" /\ kills < MaxKills
    /\ Leave(w)
    /\ kills' = kills + 1
    /\ \/ /\ UNCHANGED <<failures, age>>
          /\ lostWrite' = (lostWrite \/ watch[w].pc \in {"ok", "record"})
       \/ /\ watch[w].pc \in {"ok", "count", "record"}
          /\ failures' = 0 /\ age' = CoolDown
          /\ lostWrite' = TRUE
    /\ UNCHANGED <<healthy, streak, quiet>>

WatchdogStep(w) ==
    \/ OpenLock(w) \/ ProbeSucceeds(w) \/ RecordOk(w) \/ ProbeFails(w) \/ RecordFailure(w)
    \/ RestartGateway(w) \/ RestartRaises(w) \/ RecordRestart(w)

WatchdogNext ==
    \/ GatewayChanges \/ TimePasses
    \/ \E w \in Watchdogs : WatchdogStep(w) \/ KillWatchdog(w)

WatchdogSpec == WatchdogInit /\ [][WatchdogNext]_watchdogVars

\* The scheduler starts a watchdog every minute, a started one runs on, time passes.
WatchdogFairness ==
    /\ WF_watchdogVars(\E w \in Watchdogs : WatchdogStep(w))
    /\ WF_watchdogVars(TimePasses)

-------------------------------------------------------------------------------
\* Properties

WatchdogTypeOK ==
    /\ healthy \in BOOLEAN /\ lostWrite \in BOOLEAN
    /\ failures \in 0..Threshold /\ streak \in 0..Threshold
    /\ age \in 0..CoolDown /\ quiet \in 0..CoolDown
    /\ watch \in [Watchdogs -> Watch]
    /\ kills \in 0..MaxKills

\* "cool-down: avoid restart storms" (watchdog.ps1 225): the gateway is restarted
\* only after Threshold failed probes in a row since the last restart, which lies
\* a cool-down back, however watchdogs overlap and die, unless since the last recorded
\* restart one died when it had a success or a restart to record: such a death costs
\* one early restart at most.  Attempts that raise (RestartRaises) are not restarts
\* here; the script has no cool-down for them.
NoRestartStorm ==
    [][\A w \in Watchdogs :
         watch[w].pc = "restart" /\ watch'[w].pc = "record" /\ ~lostWrite
             => streak = Threshold /\ quiet = CoolDown]_watchdogVars

\* A gateway that stays unhealthy is restarted again and again, whatever the state
\* file says after a death: the restart is begun, and may raise.
DownIsRestarted ==
    []<>(healthy \/ \E w \in Watchdogs : watch[w].pc = "restart")
===============================================================================
