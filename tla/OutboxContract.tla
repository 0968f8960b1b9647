---------------------------- MODULE OutboxContract ----------------------------
(***************************************************************************)
(* What the outbox promises about one message, whoever dispatches it and   *)
(* however often the dispatcher fails: the recipient gets it at most once, *)
(* never before a required approval, and the recorded outcome tells the    *)
(* truth about whether it left the system.                                 *)
(*                                                                         *)
(* phase[m]     absent -> queued -> claimed -> one of the outcomes         *)
(* needs[m]     the message requires approval, from the start or since     *)
(*              the policy was enforced on it                              *)
(* approved     the messages a human has approved                          *)
(* delivered[m] how many times the outside world has received it           *)
(***************************************************************************)
CONSTANT Messages

VARIABLES phase, needs, approved, delivered
vars == <<phase, needs, approved, delivered>>

Outcomes == {"sent", "simulated", "failed"}
Phases   == {"absent", "queued", "claimed"} \cup Outcomes

Init ==
    /\ phase     = [m \in Messages |-> "absent"]
    /\ needs     = [m \in Messages |-> FALSE]
    /\ approved  = {}
    /\ delivered = [m \in Messages |-> 0]

Submit(m, need) ==
    /\ phase[m] = "absent"
    /\ phase' = [phase EXCEPT ![m] = "queued"]
    /\ needs' = [needs EXCEPT ![m] = need]
    /\ UNCHANGED <<approved, delivered>>

\* While it waits a message may turn out to need approval.
Restrict(m) ==
    /\ phase[m] = "queued" /\ ~needs[m]
    /\ needs' = [needs EXCEPT ![m] = TRUE]
    /\ UNCHANGED <<phase, approved, delivered>>

Approve(m) ==
    /\ phase[m] # "absent" /\ needs[m]
    /\ approved' = approved \cup {m}
    /\ UNCHANGED <<phase, needs, delivered>>

Claim(m) ==
    /\ phase[m] = "queued"
    /\ needs[m] => m \in approved
    /\ phase' = [phase EXCEPT ![m] = "claimed"]
    /\ UNCHANGED <<needs, approved, delivered>>

Deliver(m) ==
    /\ phase[m] = "claimed" /\ delivered[m] = 0
    /\ delivered' = [delivered EXCEPT ![m] = 1]
    /\ UNCHANGED <<phase, needs, approved>>

\* A delivered message may be reported failed (the answer was lost), but "sent"
\* is only said of a delivered one, and "simulated" only of one that stayed in.
Settle(m, outcome) ==
    /\ phase[m] \in {"queued", "claimed"}
    /\ outcome = "sent" => delivered[m] = 1
    /\ outcome = "simulated" => delivered[m] = 0 /\ (needs[m] => m \in approved)
    /\ phase' = [phase EXCEPT ![m] = outcome]
    /\ UNCHANGED <<needs, approved, delivered>>

Next ==
    \E m \in Messages :
        \/ \E need \in BOOLEAN : Submit(m, need)
        \/ Restrict(m)
        \/ Approve(m)
        \/ Claim(m)
        \/ Deliver(m)
        \/ \E outcome \in Outcomes : Settle(m, outcome)

Spec == Init /\ [][Next]_vars
===============================================================================
