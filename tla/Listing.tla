-------------------------------- MODULE Listing --------------------------------
(***************************************************************************)
(* The entries under which a player is found (UserController.updateUserLFG *)
(* and the edits that call it).                                            *)
(*                                                                         *)
(* The profile names the user's games, with the platform on which each is  *)
(* played, if there is one; lfg/<game> holds an entry for each game with a *)
(* platform, with a copy of the profile's region, under a generated key.   *)
(* An update reads the games, then the profile, then looks for the entry   *)
(* of every game, and writes in the callbacks of those queries.            *)
(***************************************************************************)
EXTENDS Naturals, Sequences, FiniteSets

CONSTANTS
    Game,        \* the catalogue
    Region,      \* values of the fields that an entry copies
    First,       \* the region given at registration
    NoRegion,    \* the region of an entry that is not there
    Device,      \* the devices the user is signed in on
    MaxOps,      \* bound: edits
    MaxCrashes   \* bound: times an app is killed

ASSUME ListingRegions == First \in Region /\ NoRegion \notin Region
ASSUME ListingBounds == MaxOps \in Nat /\ MaxCrashes \in Nat

VARIABLES
    tree,        \* the server's data: the profile and the entries
    outbox,      \* per device, the writes the server has not applied
    asking,      \* per device, the updates that wait for the games ...
    reading,     \* ... those that wait for the profile ...
    queries,     \* ... and per game, those that wait for its entries
    catalogue,   \* the devices that have the list of all games
    ops, crashes,
    crossed,     \* history: an edit on one device met one of another
    missed,      \* history: an update missed the entry another was about to add
    behind       \* history: an update was lost or had its platforms changed,
                 \* and none came through since

vars == <<tree, outbox, asking, reading, queries, catalogue, ops, crashes,
          crossed, missed, behind>>

------------------------------------------------------------------------------

\* Every edit starts an update, which makes at most one entry of a game: its
\* number stands for the keys generated for them.
Key == 1..MaxOps

RegionAt == <<"region">>
GamesAt == <<"games">>
EntryAt(g, k) == <<"entry", g, k>>
Place == {RegionAt, GamesAt} \cup {EntryAt(g, k) : g \in Game, k \in Key}

\* Games, and whether a platform is known for each (playerPlatform).
Games == UNION {[gs -> BOOLEAN] : gs \in SUBSET Game}
NoGames == [g \in {} |-> FALSE]
Playable(gs) == {g \in DOMAIN gs : gs[g]}

\* What may be stored at a place.
Values(p) ==
    IF p = RegionAt THEN Region
    ELSE IF p = GamesAt THEN Games
    ELSE Region \cup {NoRegion}
Value == UNION {Values(p) : p \in Place}

Put(p, v) == [place |-> p, value |-> v]
Write == {w \in [place : Place, value : Value] : w.value \in Values(w.place)}

\* An update has games once it got past the first read: read from the profile,
\* picked from the catalogue, or picked and changed on the screen since.
Update == [key : Key, games : Games \ {NoGames},
           state : {"read", "picked", "changed"}]
Query == [key : Key, listed : SUBSET Game, region : Region]

\* What is at a place under the first n writes of a queue.
Touching(q, n, p) == {i \in 1..n : q[i].place = p}
Latest(S) == CHOOSE i \in S : \A j \in S : j <= i
After(data, q, n, p) ==
    IF Touching(q, n, p) = {} THEN data[p]
    ELSE q[Latest(Touching(q, n, p))].value

\* What a device reads: the server's data under its own queue.
Seen(d, p) == After(tree, outbox[d], Len(outbox[d]), p)

Found(d, g) == {k \in Key : Seen(d, EntryAt(g, k)) # NoRegion}
Used(g) == {k \in Key : tree[EntryAt(g, k)] # NoRegion}

TypeOK ==
    /\ tree \in [Place -> Value]
    /\ \A p \in Place : tree[p] \in Values(p)
    /\ outbox \in [Device -> Seq(Write)]
    /\ asking \in [Device -> Seq(Key)]
    /\ reading \in [Device -> Seq(Update)]
    /\ queries \in [Device -> [Game -> Seq(Query)]]
    /\ catalogue \subseteq Device
    /\ ops \in 0..MaxOps /\ crashes \in Nat
    /\ {crossed, missed, behind} \subseteq BOOLEAN

\* The account is new: the first screen of games is still open.
Init ==
    /\ tree = [p \in Place |->
          IF p = RegionAt THEN First ELSE IF p = GamesAt THEN NoGames ELSE NoRegion]
    /\ outbox = [d \in Device |-> <<>>]
    /\ asking = [d \in Device |-> <<>>]
    /\ reading = [d \in Device |-> <<>>]
    /\ queries = [d \in Device |-> [g \in Game |-> <<>>]]
    /\ catalogue = {}
    /\ ops = 0 /\ crashes = 0
    /\ crossed = FALSE /\ missed = FALSE /\ behind = FALSE

Busy(d) ==
    \/ asking[d] # <<>> \/ reading[d] # <<>> \/ outbox[d] # <<>>
    \/ \E g \in Game : queries[d][g] # <<>>

------------------------------------------------------------------------------
(* The edits *)

\* The profile is written, and the update starts at its first read.
Edit(d, write) ==
    /\ ops < MaxOps
    /\ ops' = ops + 1
    /\ outbox' = [outbox EXCEPT ![d] = Append(@, write)]
    /\ crossed' = (crossed \/ \E e \in Device \ {d} : Busy(e))
    /\ UNCHANGED <<tree, queries, catalogue, crashes, missed, behind>>

\* "Finish" of AddGamesViewController.  Games are picked from the catalogue;
\* without it there are the user's own.  A swipe back that was cancelled has
\* taken the platforms of what was there (viewWillDisappear).
UpdateUserGames(d, gs) ==
    /\ gs # NoGames
    /\ \/ d \in catalogue
       \/ gs = Seen(d, GamesAt)
       \/ gs = [g \in DOMAIN Seen(d, GamesAt) |-> FALSE]
    /\ Edit(d, Put(GamesAt, gs))
    /\ reading' = [reading EXCEPT ![d] = Append(@,
          [key |-> ops + 1, games |-> gs,
           state |-> IF d \in catalogue THEN "picked" ELSE "read"])]
    /\ UNCHANGED asking

\* The screen is open again: a game of the catalogue is given a platform or
\* loses it, also in the updates that hold the same object.
Holds(u, g, has) == u.state # "read" /\ g \in DOMAIN u.games /\ u.games[g] # has
Repicked(u, g, has) ==
    [key |-> u.key, games |-> [u.games EXCEPT ![g] = has], state |-> "changed"]

PickAgain(d, g, has) ==
    /\ d \in catalogue
    /\ \E i \in DOMAIN reading[d] : Holds(reading[d][i], g, has)
    /\ reading' = [reading EXCEPT ![d] = [i \in DOMAIN @ |->
          IF Holds(@[i], g, has) THEN Repicked(@[i], g, has) ELSE @[i]]]
    /\ UNCHANGED <<tree, outbox, asking, queries, catalogue, ops, crashes,
                   crossed, missed, behind>>

\* editRegion, editMicStatus and updateBio: the games are read back.
EditRegion(d, r) ==
    /\ Edit(d, Put(RegionAt, r))
    /\ asking' = [asking EXCEPT ![d] = Append(@, ops + 1)]
    /\ UNCHANGED reading

------------------------------------------------------------------------------
(* The reads of an update: those of one place that wait together have their *)
(* answer together, in the order in which they were asked.                  *)

WithGames(keys, gs) ==
    [i \in DOMAIN keys |-> [key |-> keys[i], games |-> gs, state |-> "read"]]

\* Mutant: every game is listed, with a platform or without one.
WithRegionOfAll(us, r) ==
    [i \in DOMAIN us |->
        [key |-> us[i].key, listed |-> DOMAIN us[i].games, region |-> r]]

\* The platforms are read with the profile.
WithRegion(us, r) ==
    [i \in DOMAIN us |->
        [key |-> us[i].key, listed |-> Playable(us[i].games), region |-> r]]

\* Mutant: without the check for an empty list.
GamesFetchedAlways(d) ==
    /\ asking[d] # <<>>
    /\ asking' = [asking EXCEPT ![d] = <<>>]
    /\ reading' = [reading EXCEPT ![d] =
          @ \o WithGames(asking[d], Seen(d, GamesAt))]
    /\ UNCHANGED <<tree, outbox, queries, catalogue, ops, crashes, crossed,
                   missed, behind>>

\* fetchUsersGames: a user without games is not listed.
GamesFetched(d) ==
    /\ asking[d] # <<>>
    /\ asking' = [asking EXCEPT ![d] = <<>>]
    /\ IF Seen(d, GamesAt) = NoGames THEN UNCHANGED reading
       ELSE reading' = [reading EXCEPT ![d] =
               @ \o WithGames(asking[d], Seen(d, GamesAt))]
    /\ UNCHANGED <<tree, outbox, queries, catalogue, ops, crashes, crossed,
                   missed, behind>>

\* fetchUser, and a query for every game of the catalogue: for none if it is
\* not there yet.
UserFetched(d) ==
    /\ reading[d] # <<>>
    /\ reading' = [reading EXCEPT ![d] = <<>>]
    /\ IF d \notin catalogue THEN UNCHANGED queries
       ELSE queries' = [queries EXCEPT ![d] = [g \in Game |->
               @[g] \o WithRegion(reading[d], Seen(d, RegionAt))]]
    /\ behind' = (\/ d \notin catalogue
                  \/ reading[d][Len(reading[d])].state = "changed")
    /\ UNCHANGED <<tree, outbox, asking, catalogue, ops, crashes, crossed, missed>>

FetchAllGames(d) ==
    /\ d \notin catalogue
    /\ catalogue' = catalogue \cup {d}
    /\ UNCHANGED <<tree, outbox, asking, reading, queries, ops, crashes, crossed,
                   missed, behind>>

Wanted(u, g) == IF g \in u.listed THEN u.region ELSE NoRegion

\* An entry is there: each update writes it or removes it.
FoundWrites(us, g, k) ==
    [i \in DOMAIN us |-> Put(EntryAt(g, k), Wanted(us[i], g))]

\* None is there: each update that wants one adds one of its own, in order.
Adding(us, g) == {i \in DOMAIN us : g \in us[i].listed}
InOrder(S) ==
    {f \in [1..Cardinality(S) -> S] :
        \A i \in DOMAIN f : \A j \in DOMAIN f : i < j => f[i] < f[j]}
FreshWrites(us, g, f) ==
    [i \in DOMAIN f |-> Put(EntryAt(g, us[f[i]].key), us[f[i]].region)]

\* A later update of the same answer knows nothing of the entry.
AddsUnseen(us, g) ==
    \E i \in DOMAIN us : \E j \in DOMAIN us : i < j /\ g \in us[i].listed

Answered(d, g, writes) ==
    /\ outbox' = [outbox EXCEPT ![d] = @ \o writes]
    /\ queries' = [queries EXCEPT ![d][g] = <<>>]
    /\ UNCHANGED <<tree, asking, reading, catalogue, ops, crashes, crossed,
                   behind>>

\* Mutant: the key that is there is not used again.
QueryAnsweredAnew(d, g) ==
    /\ queries[d][g] # <<>>
    /\ \E f \in InOrder(Adding(queries[d][g], g)) :
          Answered(d, g, FreshWrites(queries[d][g], g, f))
    /\ missed' = (missed \/ AddsUnseen(queries[d][g], g))

\* The query for the user's entry of a game has its answer (allKeys.first: any
\* of the entries found).
QueryAnswered(d, g) ==
    /\ queries[d][g] # <<>>
    /\ \/ \E k \in Found(d, g) :
             /\ Answered(d, g, FoundWrites(queries[d][g], g, k))
             /\ UNCHANGED missed
       \/ /\ Found(d, g) = {}
          /\ \E f \in InOrder(Adding(queries[d][g], g)) :
                Answered(d, g, FreshWrites(queries[d][g], g, f))
          /\ missed' = (missed \/ AddsUnseen(queries[d][g], g))

------------------------------------------------------------------------------
(* The connection and the process *)

Deliver(d) ==
    /\ outbox[d] # <<>>
    /\ tree' = [tree EXCEPT ![Head(outbox[d]).place] = Head(outbox[d]).value]
    /\ outbox' = [outbox EXCEPT ![d] = Tail(@)]
    /\ UNCHANGED <<asking, reading, queries, catalogue, ops, crashes, crossed,
                   missed, behind>>

\* The app is killed and started again.
Crash(d) ==
    /\ crashes < MaxCrashes
    /\ crashes' = crashes + 1
    /\ behind' = (behind \/ Busy(d))
    /\ outbox' = [outbox EXCEPT ![d] = <<>>]
    /\ asking' = [asking EXCEPT ![d] = <<>>]
    /\ reading' = [reading EXCEPT ![d] = <<>>]
    /\ queries' = [queries EXCEPT ![d] = [g \in Game |-> <<>>]]
    /\ catalogue' = catalogue \ {d}
    /\ UNCHANGED <<tree, ops, crossed, missed>>

Next ==
    \E d \in Device :
        \/ \E gs \in Games : UpdateUserGames(d, gs)
        \/ \E g \in Game : \E has \in BOOLEAN : PickAgain(d, g, has)
        \/ \E r \in Region : EditRegion(d, r)
        \/ GamesFetched(d)
        \/ UserFetched(d)
        \/ FetchAllGames(d)
        \/ \E g \in Game : QueryAnswered(d, g)
        \/ Deliver(d)
        \/ Crash(d)

Spec == Init /\ [][Next]_vars

------------------------------------------------------------------------------
(* Properties *)

\* However the updates of one device overlap, the listing agrees with the
\* profile when they are through: one entry with the profile's region for each
\* of the user's games that has a platform, and none for the others.  The
\* exceptions: edits on two devices met, two updates found no entry at the same
\* time (UserController:226), or the last update was lost to a kill or a missing
\* catalogue or had its platforms changed on the screen while it waited for the
\* profile (:213); and then the next update makes up for it.
ListingAgrees ==
    ~crossed /\ ~missed /\ ~behind /\ (\A d \in Device : ~Busy(d)) =>
        \A g \in Game :
            {tree[EntryAt(g, k)] : k \in Used(g)} =
                IF g \in Playable(tree[GamesAt]) THEN {tree[RegionAt]} ELSE {}

\* A player is listed once for a game, at any time and whatever was killed,
\* with the first two exceptions only.
ListedOnce ==
    ~crossed /\ ~missed =>
        \A g \in Game : Cardinality(Used(g)) <= 1
==============================================================================
