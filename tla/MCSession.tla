------------------------------- MODULE MCSession -------------------------------
(* Instances of Session for TLC. *)
EXTENDS Session, TLC

CONSTANTS ann, bob, cid, ghost

GhostAtBob == (ann :> {cid}) @@ (bob :> {cid, ghost})
==============================================================================
