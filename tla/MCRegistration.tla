---------------------------- MODULE MCRegistration ----------------------------
(* Instances of Registration for TLC. *)
EXTENDS Registration

CONSTANTS a1, a2, n1, n2
==============================================================================
