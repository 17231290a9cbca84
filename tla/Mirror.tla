--------------------------------- MODULE Mirror ---------------------------------
(***************************************************************************)
(* What a list in memory promises about the database, whatever observers,  *)
(* fetches and sign-outs there are underneath: it shows nothing, or a      *)
(* value that the database held for a user who has been signed in since    *)
(* the app was started.                                                    *)
(***************************************************************************)
CONSTANTS User, Value, NoOne, Nothing

VARIABLES
    viewer,   \* the user signed in
    past,     \* the users signed in since the app was started
    held,     \* <<user, value>> the database held
    shown     \* the user and the value shown, or Nothing

vars == <<viewer, past, held, shown>>

Init ==
    /\ viewer = NoOne
    /\ past = {}
    /\ held \in SUBSET (User \X Value)
    /\ shown = Nothing

Change ==
    /\ held' \in SUBSET (User \X Value)
    /\ held \subseteq held'
    /\ UNCHANGED <<viewer, past, shown>>

SignIn(u) ==
    /\ viewer = NoOne
    /\ viewer' = u
    /\ past' = past \cup {u}
    /\ UNCHANGED <<held, shown>>

\* The list is cleared even if the user stays signed in.
SignOut ==
    /\ viewer \in User
    /\ viewer' \in {NoOne, viewer}
    /\ shown' = Nothing
    /\ UNCHANGED <<past, held>>

Show(u, v) ==
    /\ u \in past
    /\ <<u, v>> \in held
    /\ shown' = <<u, v>>
    /\ UNCHANGED <<viewer, past, held>>

\* Whoever was signed in before is forgotten.
Restart ==
    /\ past' = {viewer} \ {NoOne}
    /\ shown' = Nothing
    /\ UNCHANGED <<viewer, held>>

Next ==
    \/ Change
    \/ \E u \in User : SignIn(u)
    \/ SignOut
    \/ \E u \in User, v \in Value : Show(u, v)
    \/ Restart

Spec == Init /\ [][Next]_vars
==============================================================================
