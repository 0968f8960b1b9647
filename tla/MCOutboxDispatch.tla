--------------------------- MODULE MCOutboxDispatch ---------------------------
(* Constants for TLC. *)
EXTENDS OutboxDispatchSolo, TLC

CONSTANTS home, away    \* an address policies list, and one they do not

NoAllowlist  == {{}}
HomeOnly     == {{}, {home}}
HomeChat     == {home}
BothAddresses == {home, away}
===============================================================================
