-------------------------------- MODULE Session --------------------------------
(***************************************************************************)
(* Signing in and out on one device, and the lists that follow the         *)
(* database in between (UserController, fetchTeammates, fetchChats,        *)
(* fetchCurrentlyPlayedGame).                                              *)
(*                                                                         *)
(* A list is an observer and, for every value it reports, a round of       *)
(* profile fetches that ends in showing the value.  Signing out clears the *)
(* list and removes the observer, but not the rounds under way; the        *)
(* current game keeps its observer as well.  The lists do not interact, so *)
(* one of them is followed at a time.  The token under which a user is     *)
(* sent notifications comes and goes with the sign-ins too.                *)
(***************************************************************************)
EXTENDS Naturals, Sequences, FiniteSets

CONSTANTS
    User,         \* the users who sign in on the device
    NoOne,        \* the viewer when nobody is signed in
    Nothing,      \* what is shown when a list has been cleared
    Partner,      \* users (or games) that may be on a list
    Broken,       \* those whose profile cannot be read
    Start,        \* the lists at the beginning, per user
    MaxSignIns,   \* bound: times a user signs in
    MaxRefused,   \* bound: times a sign-out fails
    MaxChanges,   \* bound: changes of the lists in the database
    MaxCrashes    \* bound: times the app is killed

ASSUME SessionNoOne == NoOne \notin User
ASSUME SessionNothing == Nothing \notin User \X SUBSET Partner
ASSUME SessionBroken == Broken \subseteq Partner
ASSUME SessionStart == Start \in [User -> SUBSET Partner]
ASSUME SessionBounds ==
    /\ MaxSignIns \in Nat /\ MaxRefused \in Nat
    /\ MaxChanges \in Nat /\ MaxCrashes \in Nat

VARIABLES
    list,       \* the list that is followed
    tree,       \* the server's data: per user, who is on the list
    viewer,     \* the user signed in
    observed,   \* the users whose list has an observer
    due,        \* of those, the ones with a value to report
    rounds,     \* the values whose profile fetches run, in order
    shown,      \* the owner and the value shown
    token,      \* the server's data: the users with the token of this device
    asked,      \* the tokens asked for and not there yet
    outbox,     \* the writes of the token that the server has not applied
    signIns, refused, changes, crashes,
    past,       \* history: the users signed in since the start of the app
    held,       \* history: <<user, value>> the server held
    stale,      \* history: what is shown came late, or is another user's
    stray       \* history: users whose last fetch or write of the token failed

lists == <<due, rounds, shown, stale>>
tokens == <<token, asked, outbox, stray>>
bounds == <<signIns, refused, changes, crashes>>
vars == <<list, tree, viewer, observed, lists, tokens, bounds, past, held>>

------------------------------------------------------------------------------

List == {"chats", "teammates", "game"}
Value == SUBSET Partner
Round == [owner : User, value : Value, old : BOOLEAN]
Write == [user : User, on : BOOLEAN]

TypeOK ==
    /\ list \in List
    /\ tree \in [User -> Value]
    /\ viewer \in User \cup {NoOne}
    /\ due \subseteq observed /\ observed \subseteq past
    /\ viewer \in past \cup {NoOne}
    /\ rounds \in Seq(Round)
    /\ shown \in (User \X Value) \cup {Nothing}
    /\ token \subseteq User
    /\ asked \in Nat
    /\ outbox \in Seq(Write)
    /\ signIns \in Nat /\ refused \in Nat
    /\ changes \in Nat /\ crashes \in Nat
    /\ past \subseteq User
    /\ held \subseteq User \X Value
    /\ stale \in BOOLEAN
    /\ stray \subseteq User

Init ==
    /\ list \in List
    /\ tree = Start
    /\ viewer = NoOne
    /\ observed = {} /\ due = {}
    /\ rounds = <<>>
    /\ shown = Nothing
    /\ token = {} /\ asked = 0 /\ outbox = <<>>
    /\ signIns = 0 /\ refused = 0 /\ changes = 0 /\ crashes = 0
    /\ past = {}
    /\ held = {<<u, tree[u]>> : u \in User}
    /\ stale = FALSE
    /\ stray = {}

------------------------------------------------------------------------------
(* The list *)

\* Somebody changes the list of a user.
Change(u, v) ==
    /\ changes < MaxChanges
    /\ changes' = changes + 1
    /\ tree[u] # v
    /\ tree' = [tree EXCEPT ![u] = v]
    /\ held' = held \cup {<<u, v>>}
    /\ due' = due \cup ({u} \cap observed)
    /\ UNCHANGED <<list, viewer, observed, rounds, shown, stale, tokens,
                   signIns, refused, crashes, past>>

\* Rounds that began before what is shown now are old.
Age(rs, n) == [i \in DOMAIN rs |-> [rs[i] EXCEPT !.old = @ \/ i <= n]]

\* fetchTeammates leaves out the users it cannot read.
Readable(v) == IF list = "teammates" THEN v \ Broken ELSE v

Show(u, v, old) ==
    /\ shown' = <<u, Readable(v)>>
    /\ stale' = (old \/ u # viewer)

\* An empty list is shown at once, and so is the name of a game.
ObserveAtOnce(u) ==
    /\ u \in due
    /\ tree[u] = {} \/ list = "game"
    /\ due' = due \ {u}
    /\ Show(u, tree[u], FALSE)
    /\ rounds' = Age(rounds, Len(rounds))
    /\ UNCHANGED <<list, tree, viewer, observed, tokens, bounds, past, held>>

Observe(u) ==
    /\ u \in due
    /\ tree[u] # {} /\ list # "game"
    /\ due' = due \ {u}
    /\ rounds' = Append(rounds, [owner |-> u, value |-> tree[u], old |-> FALSE])
    /\ UNCHANGED <<list, tree, viewer, observed, shown, stale, tokens, bounds,
                   past, held>>

\* Mutant: fetchUsers, too, forgets to leave for a profile it cannot read.
StuckAlways(v) == v \cap Broken # {}

\* The round of fetchChats does not end if there is a partner whose profile
\* cannot be read.
Stuck(v) == list = "chats" /\ v \cap Broken # {}

\* The i-th round has ended: the others are left, those before it are old.
Ended(rs, i) ==
    [j \in 1..(Len(rs) - 1) |-> Age(rs, i)[IF j < i THEN j ELSE j + 1]]

\* Rounds share the fetches of a profile: one can overtake an earlier one only
\* if that waits for a profile of its own.
FinishRound ==
    \E i \in DOMAIN rounds :
        /\ ~Stuck(rounds[i].value)
        /\ \A j \in 1..(i - 1) : ~(rounds[j].value \subseteq rounds[i].value)
        /\ Show(rounds[i].owner, rounds[i].value, rounds[i].old)
        /\ rounds' = Ended(rounds, i)
        /\ UNCHANGED <<list, tree, viewer, observed, due, tokens, bounds, past,
                       held>>

------------------------------------------------------------------------------
(* Signing in and out *)

\* Mutant: the list is not fetched.
SignInOnly(u) ==
    /\ signIns < MaxSignIns
    /\ signIns' = signIns + 1
    /\ viewer = NoOne
    /\ viewer' = u
    /\ past' = past \cup {u}
    /\ asked' = asked + 1
    /\ UNCHANGED <<list, tree, observed, lists, token, outbox, stray, refused,
                   changes, crashes, held>>

\* loginUser: fetchUserData and fetchFCMToken.
SignIn(u) ==
    /\ signIns < MaxSignIns
    /\ signIns' = signIns + 1
    /\ viewer = NoOne
    /\ viewer' = u
    /\ past' = past \cup {u}
    /\ observed' = observed \cup {u}
    /\ due' = due \cup {u}
    /\ asked' = asked + 1
    /\ UNCHANGED <<list, tree, rounds, shown, stale, token, outbox, stray,
                   refused, changes, crashes, held>>

\* Mutant: the list is not emptied.
ClearObserversOnly ==
    IF list = "game" THEN UNCHANGED <<observed, due, shown>>
    ELSE /\ observed' = observed \ {viewer}
         /\ due' = due \ {viewer}
         /\ UNCHANGED shown

\* clearDataAndObservers of the three controllers that signOutUser calls.
ClearDataAndObservers ==
    IF list = "game" THEN UNCHANGED <<observed, due, shown>>
    ELSE /\ observed' = observed \ {viewer}
         /\ due' = due \ {viewer}
         /\ shown' = Nothing

\* Mutant: called after Auth.signOut, when there is no user any more.
RemoveFCMTokenLate == UNCHANGED outbox

RemoveFCMToken == outbox' = Append(outbox, [user |-> viewer, on |-> FALSE])

SignOut ==
    /\ viewer # NoOne
    /\ ClearDataAndObservers
    /\ RemoveFCMToken
    /\ stray' = stray \ {viewer}
    /\ viewer' = NoOne
    /\ UNCHANGED <<list, tree, rounds, stale, token, asked, bounds, past, held>>

\* Auth.signOut throws: everything else has been done.
SignOutFails ==
    /\ refused < MaxRefused
    /\ refused' = refused + 1
    /\ viewer # NoOne
    /\ ClearDataAndObservers
    /\ RemoveFCMToken
    /\ stray' = stray \cup {viewer}
    /\ UNCHANGED <<list, tree, viewer, rounds, stale, token, asked, signIns,
                   changes, crashes, past, held>>

\* Mutant: without the check for a user.
FCMTokenFetchedUnnamed ==
    /\ asked > 0
    /\ asked' = asked - 1
    /\ outbox' = Append(outbox, [user |-> viewer, on |-> TRUE])
    /\ stray' = stray \ {viewer}
    /\ UNCHANGED <<list, tree, viewer, observed, lists, token, bounds, past, held>>

\* The token is there, and is written for whoever is signed in by now.
FCMTokenFetched ==
    /\ asked > 0
    /\ asked' = asked - 1
    /\ IF viewer = NoOne THEN UNCHANGED <<outbox, stray>>
       ELSE /\ outbox' = Append(outbox, [user |-> viewer, on |-> TRUE])
            /\ stray' = stray \ {viewer}
    /\ UNCHANGED <<list, tree, viewer, observed, lists, token, bounds, past, held>>

\* The last write for a user that is on its way, if there is one.
LastWrite(u, b) ==
    \E i \in DOMAIN outbox :
        /\ outbox[i] = [user |-> u, on |-> b]
        /\ \A j \in DOMAIN outbox : j > i => outbox[j].user # u
NoWrite(u) == \A i \in DOMAIN outbox : outbox[i].user # u

\* The user has the token, or will have it.
Gets(u) == LastWrite(u, TRUE) \/ (NoWrite(u) /\ u \in token)

\* Messaging reports an error: nothing is written.
FCMTokenNotFetched ==
    /\ asked > 0
    /\ asked' = asked - 1
    /\ stray' = IF viewer = NoOne \/ Gets(viewer) THEN stray
                ELSE stray \cup {viewer}
    /\ UNCHANGED <<list, tree, viewer, observed, lists, token, outbox, bounds,
                   past, held>>

Deliver ==
    /\ outbox # <<>>
    /\ token' = IF Head(outbox).on THEN token \cup {Head(outbox).user}
                ELSE token \ {Head(outbox).user}
    /\ outbox' = Tail(outbox)
    /\ UNCHANGED <<list, tree, viewer, observed, lists, asked, stray, bounds,
                   past, held>>

\* The app is killed and started again: a user who was signed in still is.
Crash ==
    /\ crashes < MaxCrashes
    /\ crashes' = crashes + 1
    /\ past' = {viewer} \ {NoOne}
    /\ observed' = past' /\ due' = past'
    /\ rounds' = <<>>
    /\ shown' = Nothing
    /\ stale' = FALSE
    /\ asked' = 1
    /\ stray' = stray \cup {outbox[i].user : i \in DOMAIN outbox}
    /\ outbox' = <<>>
    /\ UNCHANGED <<list, tree, viewer, token, signIns, refused, changes,
                   held>>

Next ==
    \/ \E u \in User :
          \/ \E v \in Value : Change(u, v)
          \/ ObserveAtOnce(u)
          \/ Observe(u)
          \/ SignIn(u)
    \/ FinishRound
    \/ SignOut
    \/ SignOutFails
    \/ FCMTokenFetched
    \/ FCMTokenNotFetched
    \/ Deliver
    \/ Crash

Spec == Init /\ [][Next]_vars

\* The database and the messaging service answer, the latter perhaps with an
\* error.  Nobody has to sign in or out.
FairSpec ==
    /\ Spec /\ WF_vars(FinishRound) /\ WF_vars(Deliver)
    /\ WF_vars(FCMTokenFetched \/ FCMTokenNotFetched)
    /\ \A u \in User : WF_vars(ObserveAtOnce(u) \/ Observe(u))

------------------------------------------------------------------------------
(* Properties *)

\* The list of a user who stays signed in shows what the database holds in the
\* end, unless a chat partner has no readable profile (MessageController:49), a
\* round of an older value came last, or another user's data did.  (A sign-out
\* that fails leaves the lists empty until the next start.)
ListAppears ==
    \A u \in User :
        <>[](viewer = u) /\ [](refused = 0) =>
            <>[](\/ shown = <<u, Readable(tree[u])>>
                 \/ list = "chats" /\ tree[u] \cap Broken # {}
                 \/ stale)

\* The token of the device is with the user who is signed in and with nobody
\* else once nothing is under way, except for users whose last write of it was
\* lost with the app or undone by a sign-out that failed, or who did not have it
\* and for whom it was not got (UserController:418; nobody asks again before the
\* next start or sign-in).  A later write for the user ends the exception.
TokenFollowsViewer ==
    asked = 0 /\ outbox = <<>> => token \ stray = {viewer} \ (stray \cup {NoOne})

\* The lists implement the promise of Mirror.  (The current game does not: it
\* is not cleared.)
M == INSTANCE Mirror WITH
        held <- {<<h[1], Readable(h[2])>> : h \in held},
        shown <- IF list = "game" THEN Nothing ELSE shown

ShowsHeldValues == M!Spec
==============================================================================
