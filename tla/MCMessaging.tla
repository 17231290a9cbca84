------------------------------ MODULE MCMessaging ------------------------------
(* Instances of Messaging for TLC: who is signed in on which device. *)
EXTENDS Messaging, TLC

CONSTANTS ann, bob, phoneA, phoneB, tabletB, m1, m2

OneDeviceEach == (phoneA :> ann) @@ (phoneB :> bob)
BobHasTwo == (phoneA :> ann) @@ (phoneB :> bob) @@ (tabletB :> bob)

\* Messages are alike until they are sent, and Bob's devices always.
Alike == Permutations({m1, m2}) \cup Permutations({phoneB, tabletB})
AlikeMessages == Permutations({m1, m2})
==============================================================================
