--------------------------- MODULE MCTeammateGraph ---------------------------
(* Instances of TeammateGraph for TLC: who is signed in on which device. *)
EXTENDS TeammateGraph, TLC

CONSTANTS ann, bob, phoneA, phoneB, tabletB

Nobody == {}
AnnToBob == {<<ann, bob>>}

OneDeviceEach == (phoneA :> ann) @@ (phoneB :> bob)
BobHasTwo == (phoneB :> bob) @@ (tabletB :> bob)
BobsDevices == Permutations({phoneB, tabletB})
==============================================================================
