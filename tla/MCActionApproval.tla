--------------------------- MODULE MCActionApproval ---------------------------
(* TLC instances of ActionApproval take their constants from the cfg files. *)
EXTENDS ActionApproval, TLC
===============================================================================
