---------------------------- MODULE TelegramRouter ----------------------------
(***************************************************************************)
(* telegram_router.ps1: fetches the updates after the last one it has      *)
(* stored, runs a script for each that is a command from the right chat,   *)
(* and stores the last update id at the very end.  Telegram forgets the    *)
(* updates below the offset of a fetch.  The lock file excludes nobody     *)
(* (New-Item -Force), so routers started on schedule can overlap.          *)
(***************************************************************************)
EXTENDS Naturals

CONSTANTS
    Routers,    \* router processes at once
    MaxUpdate,  \* update ids are 1..MaxUpdate
    Commands,   \* the updates that are commands of the configured chat
    FetchLimit  \* limit=10 of getUpdates

ASSUME RouterAssumption ==
    /\ MaxUpdate \in Nat /\ FetchLimit \in Nat \ {0}
    /\ Commands \subseteq 1..MaxUpdate

VARIABLES
    arrived,    \* updates Telegram has received so far
    confirmed,  \* updates Telegram has forgotten
    stored,     \* last_update_id in the state file
    router,     \* router[r]: where r is
    handled,    \* observer: commands whose script was run
    repeated,   \* observer: commands whose script was run again
    disturbed   \* observer: a router was cut short or overlapped another

routerVars == <<arrived, confirmed, stored, router, handled, repeated, disturbed>>

Updates == 0..MaxUpdate
Router == [pc: {"none", "fetch", "handle", "save"}, last: Updates,
           batch: SUBSET (1..MaxUpdate)]
NoRouter == [pc |-> "none", last |-> 0, batch |-> {}]

RouterInit ==
    /\ arrived = 0 /\ confirmed = 0 /\ stored = 0
    /\ router = [r \in Routers |-> NoRouter]
    /\ handled = {} /\ repeated = {} /\ disturbed = FALSE

-------------------------------------------------------------------------------

Arrive ==
    /\ arrived < MaxUpdate
    /\ arrived' = arrived + 1
    /\ UNCHANGED <<confirmed, stored, router, handled, repeated, disturbed>>

\* A router starts and loads the state.  A state file that cannot be read, because a
\* process died or another one wrote at the same time, counts as update 0.
LoadRouterState(r) ==
    /\ router[r].pc = "none"
    /\ \E last \in {stored} \cup (IF disturbed THEN {0} ELSE {}) :
         router' = [router EXCEPT ![r] = [pc |-> "fetch", last |-> last, batch |-> {}]]
    /\ disturbed' = (disturbed \/ \E q \in Routers : router[q].pc # "none")
    /\ UNCHANGED <<arrived, confirmed, stored, handled, repeated>>

BatchFromLast(last) ==                  \* mutant: offset without + 1
    {u \in 1..arrived : u > confirmed /\ u >= last
                        /\ u <= FetchLimit + (IF confirmed > last THEN confirmed ELSE last)}
\* getUpdates: what is not forgotten, from the offset on, oldest first.
Batch(last) ==
    {u \in 1..arrived : u > confirmed /\ u > last
                        /\ u <= FetchLimit + (IF confirmed > last THEN confirmed ELSE last)}

FetchPastBatch(r) ==                    \* mutant: the offset confirms what it returns
    /\ router[r].pc = "fetch"
    /\ router' = [router EXCEPT ![r].pc = "handle", ![r].batch = Batch(router[r].last)]
    /\ confirmed' = arrived
    /\ UNCHANGED <<arrived, stored, handled, repeated, disturbed>>

FetchUpdates(r) ==
    /\ router[r].pc = "fetch"
    /\ router' = [router EXCEPT ![r].pc = "handle", ![r].batch = Batch(router[r].last)]
    /\ confirmed' = IF router[r].last > confirmed THEN router[r].last ELSE confirmed
    /\ UNCHANGED <<arrived, stored, handled, repeated, disturbed>>

\* The next update of the batch; other chats and other texts are passed over.
HandleUpdate(r, u) ==
    /\ router[r].pc = "handle" /\ u \in router[r].batch
    /\ \A v \in router[r].batch : u <= v
    /\ router' = [router EXCEPT
         ![r] = [pc |-> "handle", last |-> u, batch |-> router[r].batch \ {u}]]
    /\ handled' = handled \cup ({u} \cap Commands)
    /\ repeated' = repeated \cup ({u} \cap handled)
    /\ UNCHANGED <<arrived, confirmed, stored, disturbed>>

\* The state is saved, the router ends.
SaveRouterState(r) ==
    /\ router[r].pc = "handle" /\ router[r].batch = {}
    /\ stored' = router[r].last
    /\ router' = [router EXCEPT ![r] = NoRouter]
    /\ UNCHANGED <<arrived, confirmed, handled, repeated, disturbed>>

\* The process dies or a step raises: nothing is saved.
CutRouter(r) ==
    /\ router[r].pc # "none"
    /\ router' = [router EXCEPT ![r] = NoRouter]
    /\ disturbed' = TRUE
    /\ UNCHANGED <<arrived, confirmed, stored, handled, repeated>>

RouterNext ==
    \/ Arrive
    \/ \E r \in Routers :
         \/ LoadRouterState(r) \/ FetchUpdates(r)
         \/ \E u \in 1..MaxUpdate : HandleUpdate(r, u)
         \/ SaveRouterState(r) \/ CutRouter(r)

RouterSpec == RouterInit /\ [][RouterNext]_routerVars

-------------------------------------------------------------------------------
\* Properties

RouterTypeOK ==
    /\ arrived \in Updates /\ confirmed \in Updates /\ stored \in Updates
    /\ router \in [Routers -> Router]
    /\ handled \subseteq Commands /\ repeated \subseteq Commands
    /\ disturbed \in BOOLEAN

\* No command is lost: whatever Telegram has forgotten and whatever the state file
\* passes over has been handled, with any number of routers that overlap, die, or
\* store an older id over a newer one (telegram_router.ps1 91, 135).
NoCommandLost ==
    \A u \in Commands : u <= confirmed \/ u <= stored => u \in handled

\* A command runs once, unless a router was cut short before it saved its state
\* or two of them overlapped.
OnceWhenUndisturbed == repeated # {} => disturbed
===============================================================================
