-------------------------------- MODULE Services --------------------------------
(***************************************************************************)
(* The parts of clowbot beside the outbox, in one specification.  They     *)
(* share no row, no file and no process, so nothing is learnt from         *)
(* interleaving them: a behaviour exercises one of them, the service, and  *)
(* the others keep an initial state.                                       *)
(***************************************************************************)
EXTENDS Bootstrap, GrantsWorkflow, TenantCreate, Portfolio, OutboxPolicy,
        OnDemandScripts, TelegramRouter, Watchdog

CONSTANT Exercised      \* the services that behaviours exercise

ASSUME ServicesAssumption ==
    Exercised \subseteq {"bootstrap", "grants", "tenants", "portfolio", "policy",
                         "scripts", "router", "watchdog"}

VARIABLE service

vars == <<service, bootstrapVars, grantsVars, tenantVars, portfolioVars, policyVars,
          onDemandVars, routerVars, watchdogVars>>

\* A service that may begin in several states begins in one of them when it idles.
IdlePortfolio == PortfolioInit /\ lines = CHOOSE doc \in Portfolios : TRUE
IdlePolicy ==
    /\ payload = CHOOSE p \in NewPayloads : TRUE
    /\ tenantList = CHOOSE allow \in TenantLists : TRUE
    /\ PolicyInit

Init ==
    /\ service \in Exercised
    /\ BootstrapInit /\ (service # "bootstrap" => files = [t \in DocTypes |-> NoContent])
    /\ GrantsInit
    /\ TenantInit
    /\ IF service = "portfolio" THEN PortfolioInit ELSE IdlePortfolio
    /\ IF service = "policy" THEN PolicyInit ELSE IdlePolicy
    /\ OnDemandInit
    /\ RouterInit
    /\ WatchdogInit /\ (service # "watchdog" => healthy)

\* A step of s while the others idle.
Only(s) ==
    /\ service = s
    /\ UNCHANGED service
    /\ IF s = "bootstrap" THEN TRUE ELSE UNCHANGED bootstrapVars
    /\ IF s = "grants"    THEN TRUE ELSE UNCHANGED grantsVars
    /\ IF s = "tenants"   THEN TRUE ELSE UNCHANGED tenantVars
    /\ IF s = "portfolio" THEN TRUE ELSE UNCHANGED portfolioVars
    /\ IF s = "policy"    THEN TRUE ELSE UNCHANGED policyVars
    /\ IF s = "scripts"   THEN TRUE ELSE UNCHANGED onDemandVars
    /\ IF s = "router"    THEN TRUE ELSE UNCHANGED routerVars
    /\ IF s = "watchdog"  THEN TRUE ELSE UNCHANGED watchdogVars

Next ==
    \/ Only("bootstrap") /\ BootstrapNext
    \/ Only("grants")    /\ GrantsNext
    \/ Only("tenants")   /\ TenantNext
    \/ Only("portfolio") /\ PortfolioNext
    \/ Only("policy")    /\ PolicyNext
    \/ Only("scripts")   /\ OnDemandNext
    \/ Only("router")    /\ RouterNext
    \/ Only("watchdog")  /\ WatchdogNext

Spec == Init /\ [][Next]_vars

\* The fairness of the two services that have one.
FairSpec ==
    /\ Spec
    /\ \A w \in Workflows : WF_vars(Only("grants") /\ WorkOn(w))
    /\ WF_vars(Only("watchdog") /\ \E w \in Watchdogs : WatchdogStep(w))
    /\ WF_vars(Only("watchdog") /\ TimePasses)

TypeOK ==
    /\ BootstrapTypeOK /\ GrantsTypeOK /\ TenantTypeOK /\ PortfolioTypeOK /\ PolicyTypeOK
    /\ OnDemandTypeOK /\ RouterTypeOK /\ WatchdogTypeOK
===============================================================================
