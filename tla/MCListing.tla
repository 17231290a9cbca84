------------------------------- MODULE MCListing -------------------------------
(* Instances of Listing for TLC. *)
EXTENDS Listing, TLC

CONSTANTS phone, tablet, g1, g2, r1, r2

Alike == Permutations({phone, tablet}) \cup Permutations({g1, g2})
==============================================================================
