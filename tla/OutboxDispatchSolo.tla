-------------------------- MODULE OutboxDispatchSolo --------------------------
(***************************************************************************)
(* A single dispatch task at a time keeps the outbox contract: what the    *)
(* recipient and the human see of OutboxDispatch is then OutboxContract.   *)
(* With two tasks it does not, see AtMostOnce.                             *)
(***************************************************************************)
EXTENDS OutboxDispatch

Solo == CHOOSE w \in Workers : TRUE

PhaseOf(status) ==
    CASE status = "NONE"    -> "absent"
      [] status = "QUEUED"  -> "queued"
      [] status = "SENDING" -> "claimed"
      [] status = "SENT"    -> "sent"
      [] status = "FAILED"  -> "failed"
      [] OTHER              -> "simulated"

Contract == INSTANCE OutboxContract WITH
    phase     <- [m \in Messages |-> PhaseOf(row[m].status)],
    needs     <- [m \in Messages |-> row[m].payload.requires],
    approved  <- granted,
    delivered <- [m \in Messages |-> sends[m][Solo]]

\* The dispatcher implements the contract: at most one delivery of a message,
\* none before the approval it requires, outcomes that are true and final, and
\* no requirement that is taken back, or raised once the message is claimed.
ImplementsContract == Contract!Spec

-------------------------------------------------------------------------------
\* What the code says of concurrent dispatch tasks

\* "Idempotency: if already has external info, do not re-send."
\* (github_issue.py 24), "avoid multiple workers picking the same rows" (line
\* 141): a message leaves the system once.
AtMostOnce ==
    \A m \in Messages, v, w \in Workers :
        sends[m][v] > 0 /\ sends[m][w] > 0 => v = w /\ sends[m][w] = 1

\* "Re-enforce allowlist at dispatch time (in case policy docs changed or legacy
\* rows)." (line 249): a claim without approval is of an address the policy of
\* that moment allows (a row without a payload allows its own address by design).
ClaimFollowsPolicy ==
    [][\A m \in Messages :
          ( /\ row[m].status = "QUEUED" /\ row'[m].status = "SENDING"
            /\ row[m].payload.given /\ row[m].enforced /\ m \notin granted )
          => row[m].to \in tenantAllow]_vars

\* "QUEUED -> SENDING -> STUB_SENT (or FAILED)" (line 125): SENDING is passed.
SendingIsPassed ==
    \A m \in Messages : row[m].status = "SENDING" ~> row[m].status # "SENDING"
===============================================================================
