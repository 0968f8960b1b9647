-------------------------- MODULE MCApprovalPipeline --------------------------
(* Constants for TLC. *)
EXTENDS ApprovalPipeline, TLC

CONSTANTS home, away    \* an address the request's own allowlist lists, and one not

HomeOnly    == {{home}}
NoAllowlist == {{}}
HomeAddress == {home}
BothAddresses == {home, away}
===============================================================================
