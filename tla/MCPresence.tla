------------------------------ MODULE MCPresence ------------------------------
(* Instances of Presence for TLC. *)
EXTENDS Presence, TLC

CONSTANTS phone, tablet, g1, g2

Alike == Permutations({phone, tablet}) \cup Permutations({g1, g2})
==============================================================================
