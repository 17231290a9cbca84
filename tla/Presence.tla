------------------------------- MODULE Presence -------------------------------
(***************************************************************************)
(* "Playing Now": going online and offline for a game (GameController,     *)
(* LFGViewController, SelectGameViewController).                           *)
(*                                                                         *)
(* That one user is online is written twice: as currentlyPlaying in the    *)
(* profile, which the user's devices observe, and as an entry under        *)
(* lfg/online/<game>, which the search of the other players reads.  An     *)
(* entry has a generated key, so it is found again only by a query.        *)
(***************************************************************************)
EXTENDS Naturals, Sequences, FiniteSets

CONSTANTS
    Game,        \* the games of the user
    NoGame,      \* the value of currentlyPlaying that is not there
    Device,      \* the devices the user is signed in on
    MaxOps,      \* bound: confirmations of going online or offline
    MaxCrashes   \* bound: times an app is killed

ASSUME PresenceNoGame == NoGame \notin Game
ASSUME PresenceBounds == MaxOps \in Nat /\ MaxCrashes \in Nat

VARIABLES
    playing,     \* the server's data: users/<user>/currentlyPlaying
    entries,     \* the server's data: keys of the user's entries, per game
    outbox,      \* per device, the writes the server has not applied
    reads,       \* per device, the reads whose callbacks are to come
    changed,     \* the devices whose observer has a change to report
    catalogue,   \* the devices that have the list of all games
    late,        \* per device, the games that wait for that list, in order
    ready,       \* the devices with initialCurrentGameFetchComplete
    shown,       \* per device, userCurrentlyPlayedGame
    choosing,    \* the devices that show the choice of a game
    ops, crashes,
    disturbed,   \* history: a step was taken before an earlier one was through
    overtaken    \* history: devices where an event passed a waiting one

server == <<playing, entries>>
screen == <<catalogue, late, ready, shown>>
bounds == <<ops, crashes>>
vars == <<server, outbox, reads, changed, screen, choosing, bounds, disturbed,
          overtaken>>

------------------------------------------------------------------------------

\* Generated keys: every confirmation makes at most one.
Key == 1..MaxOps
Play(g) == [op |-> "play", game |-> g, key |-> 0]
Add(g, k) == [op |-> "add", game |-> g, key |-> k]
Drop(g, k) == [op |-> "drop", game |-> g, key |-> k]
Write == {Play(g) : g \in Game \cup {NoGame}}
    \cup {Add(g, k) : g \in Game, k \in Key}
    \cup {Drop(g, k) : g \in Game, k \in Key}
Read == [kind : {"online", "offline"}, game : Game, key : Key]

TypeOK ==
    /\ playing \in Game \cup {NoGame}
    /\ entries \in [Game -> SUBSET Key]
    /\ outbox \in [Device -> Seq(Write)]
    /\ reads \in [Device -> SUBSET Read]
    /\ changed \subseteq Device
    /\ catalogue \subseteq Device
    /\ late \in [Device -> Seq(Game)]
    /\ ready \subseteq Device
    /\ shown \in [Device -> Game \cup {NoGame}]
    /\ choosing \subseteq Device
    /\ ops \in Nat /\ crashes \in Nat
    /\ disturbed \in BOOLEAN
    /\ overtaken \subseteq Device

\* What a device sees: the server's data under its own queue.
OfKind(q, kinds) == {i \in DOMAIN q : q[i].op \in kinds}
Latest(S) == CHOOSE i \in S : \A j \in S : j <= i
PlayingAt(d) ==
    IF OfKind(outbox[d], {"play"}) = {} THEN playing
    ELSE outbox[d][Latest(OfKind(outbox[d], {"play"}))].game
EntriesAt(d, g) ==
    {k \in Key :
        \/ k \in entries[g] /\ \A i \in DOMAIN outbox[d] : outbox[d][i] # Drop(g, k)
        \/ \E i \in DOMAIN outbox[d] :
              /\ outbox[d][i] = Add(g, k)
              /\ \A j \in DOMAIN outbox[d] : j > i => outbox[d][j] # Drop(g, k)}

Queue(d, writes) == outbox' = [outbox EXCEPT ![d] = @ \o writes]
Raise(before) ==
    changed' = before \cup {d \in Device : PlayingAt(d)' # PlayingAt(d)}

Init ==
    /\ playing = NoGame
    /\ entries = [g \in Game |-> {}]
    /\ outbox = [d \in Device |-> <<>>]
    /\ reads = [d \in Device |-> {}]
    /\ changed = Device
    /\ catalogue = {}
    /\ late = [d \in Device |-> <<>>]
    /\ ready = {}
    /\ shown = [d \in Device |-> NoGame]
    /\ choosing = {}
    /\ ops = 0 /\ crashes = 0
    /\ disturbed = FALSE
    /\ overtaken = {}

------------------------------------------------------------------------------
(* What the device shows *)

\* updateCurrentlyPlayedGame.
Update(d, g) ==
    /\ shown' = [shown EXCEPT ![d] = g]
    /\ ready' = ready \cup {d}

\* Mutant: without the catalogue the name is not shown at all.
ObserveKnownGame(d) ==
    /\ d \in changed
    /\ changed' = changed \ {d}
    /\ IF PlayingAt(d) = NoGame \/ d \in catalogue
       THEN Update(d, PlayingAt(d))
       ELSE UNCHANGED <<shown, ready>>
    /\ UNCHANGED <<server, outbox, reads, catalogue, late, choosing, bounds,
                   disturbed, overtaken>>

\* The observer of currentlyPlaying.  A name needs the catalogue: without it
\* the name waits for a fetch of its own, while "nothing" is shown at once.
ObserveCurrentGame(d) ==
    /\ d \in changed
    /\ changed' = changed \ {d}
    /\ IF PlayingAt(d) = NoGame \/ d \in catalogue
       THEN /\ Update(d, PlayingAt(d))
            /\ overtaken' = IF late[d] = <<>> THEN overtaken \ {d}
                            ELSE overtaken \cup {d}
            /\ UNCHANGED late
       ELSE /\ late' = [late EXCEPT ![d] = Append(@, PlayingAt(d))]
            /\ UNCHANGED <<shown, ready, overtaken>>
    /\ UNCHANGED <<server, outbox, reads, catalogue, choosing, bounds, disturbed>>

\* fetchAllGames, called at sign-in and by the tab bar, has its answer.
FetchAllGames(d) ==
    /\ d \notin catalogue
    /\ catalogue' = catalogue \cup {d}
    /\ UNCHANGED <<server, outbox, reads, changed, late, ready, shown, choosing,
                   bounds, disturbed, overtaken>>

\* ... and so has the fetch of a name that waited.
ShowLateGame(d) ==
    /\ late[d] # <<>>
    /\ catalogue' = catalogue \cup {d}
    /\ Update(d, Head(late[d]))
    /\ late' = [late EXCEPT ![d] = Tail(@)]
    /\ UNCHANGED <<server, outbox, reads, changed, choosing, bounds, disturbed,
                   overtaken>>

------------------------------------------------------------------------------
(* Going online and offline *)

Start == ops < MaxOps /\ ops' = ops + 1
Unfinished == \E d \in Device : reads[d] # {} \/ outbox[d] # <<>>
GoingOnline ==
    \E d \in Device :
        \/ \E r \in reads[d] : r.kind = "online"
        \/ \E i \in DOMAIN outbox[d] : \E g \in Game : outbox[d][i] = Play(g)

\* The button is there while no game is shown.
GoOnlineTapped(d) ==
    /\ d \in ready \cap catalogue
    /\ shown[d] = NoGame
    /\ d \notin choosing
    /\ choosing' = choosing \cup {d}
    /\ UNCHANGED <<server, outbox, reads, changed, screen, bounds, disturbed,
                   overtaken>>

CancelChoice(d) ==
    /\ d \in choosing
    /\ choosing' = choosing \ {d}
    /\ UNCHANGED <<server, outbox, reads, changed, screen, bounds, disturbed,
                   overtaken>>

\* A game is chosen and confirmed: the profile is read first.
GoOnlineForGame(d, g) ==
    /\ d \in choosing
    /\ Start
    /\ choosing' = choosing \ {d}
    /\ reads' = [reads EXCEPT ![d] =
          @ \cup {[kind |-> "online", game |-> g, key |-> ops']}]
    /\ disturbed' = (disturbed \/ GoingOnline \/ playing # NoGame)
    /\ UNCHANGED <<server, outbox, changed, screen, crashes, overtaken>>

\* Mutant: only the entry is written.
OnlineWritesEntryOnly(r) == << Add(r.game, r.key) >>

\* The entry first, then the profile.
OnlineWrites(r) == << Add(r.game, r.key), Play(r.game) >>

ProfileFetched(d) ==
    \E r \in reads[d] :
        /\ r.kind = "online"
        /\ reads' = [reads EXCEPT ![d] = @ \ {r}]
        /\ Queue(d, OnlineWrites(r))
        /\ UNCHANGED <<server, screen, choosing, bounds, disturbed, overtaken>>
        /\ Raise(changed)

\* The profile cannot be read, or the game has no platform: nothing is written.
ProfileOfNoUse(d) ==
    \E r \in reads[d] :
        /\ r.kind = "online"
        /\ reads' = [reads EXCEPT ![d] = @ \ {r}]
        /\ UNCHANGED <<server, outbox, changed, screen, choosing, bounds,
                       disturbed, overtaken>>

\* Mutant: the button does not look at what is shown.
GoOfflineUnguarded(d) ==
    /\ Start
    /\ Queue(d, << Play(NoGame) >>)
    /\ reads' = [reads EXCEPT ![d] =
          @ \cup {[kind |-> "offline", game |-> shown[d], key |-> ops']}]
    /\ disturbed' = (disturbed \/ Unfinished \/ playing # shown[d])
    /\ UNCHANGED <<server, screen, choosing, crashes, overtaken>>
    /\ Raise(changed)

\* The prompt is confirmed: the profile is cleared at once, the entry has to
\* be looked for.
GoOfflineForGame(d) ==
    /\ shown[d] # NoGame
    /\ Start
    /\ Queue(d, << Play(NoGame) >>)
    /\ reads' = [reads EXCEPT ![d] =
          @ \cup {[kind |-> "offline", game |-> shown[d], key |-> ops']}]
    /\ disturbed' = (disturbed \/ Unfinished \/ playing # shown[d])
    /\ UNCHANGED <<server, screen, choosing, crashes, overtaken>>
    /\ Raise(changed)

\* Mutant: what the query finds is not removed.
EntryKept(d) ==
    \E r \in reads[d] :
        /\ r.kind = "offline"
        /\ reads' = [reads EXCEPT ![d] = @ \ {r}]
        /\ UNCHANGED <<server, outbox, changed, screen, choosing, bounds,
                       disturbed, overtaken>>

\* The query's answer: one of the entries found is removed, any of them
\* (allKeys.first).
EntryFound(d) ==
    \E r \in reads[d] :
        /\ r.kind = "offline"
        /\ reads' = [reads EXCEPT ![d] = @ \ {r}]
        /\ \/ EntriesAt(d, r.game) = {} /\ UNCHANGED outbox
           \/ \E k \in EntriesAt(d, r.game) : Queue(d, << Drop(r.game, k) >>)
        /\ UNCHANGED <<server, screen, choosing, bounds, disturbed, overtaken>>
        /\ Raise(changed)

------------------------------------------------------------------------------
(* The connection and the process *)

Apply(w) ==
    /\ playing' = IF w.op = "play" THEN w.game ELSE playing
    /\ entries' = [g \in Game |->
          CASE w = Add(g, w.key) -> entries[g] \cup {w.key}
            [] w = Drop(g, w.key) -> entries[g] \ {w.key}
            [] OTHER -> entries[g]]

Deliver(d) ==
    /\ outbox[d] # <<>>
    /\ Apply(Head(outbox[d]))
    /\ outbox' = [outbox EXCEPT ![d] = Tail(@)]
    /\ Raise(changed)
    /\ UNCHANGED <<reads, screen, choosing, bounds, disturbed, overtaken>>

\* The app is killed and started again.
Crash(d) ==
    /\ crashes < MaxCrashes
    /\ crashes' = crashes + 1
    /\ disturbed' = (disturbed \/ reads[d] # {} \/ outbox[d] # <<>>)
    /\ outbox' = [outbox EXCEPT ![d] = <<>>]
    /\ reads' = [reads EXCEPT ![d] = {}]
    /\ changed' = changed \cup {d}
    /\ catalogue' = catalogue \ {d}
    /\ late' = [late EXCEPT ![d] = <<>>]
    /\ ready' = ready \ {d}
    /\ shown' = [shown EXCEPT ![d] = NoGame]
    /\ choosing' = choosing \ {d}
    /\ overtaken' = overtaken \ {d}
    /\ UNCHANGED <<server, ops>>

Next ==
    \E d \in Device :
        \/ ObserveCurrentGame(d)
        \/ FetchAllGames(d)
        \/ ShowLateGame(d)
        \/ GoOnlineTapped(d)
        \/ CancelChoice(d)
        \/ \E g \in Game : GoOnlineForGame(d, g)
        \/ ProfileFetched(d)
        \/ ProfileOfNoUse(d)
        \/ GoOfflineForGame(d)
        \/ EntryFound(d)
        \/ Deliver(d)
        \/ Crash(d)

Spec == Init /\ [][Next]_vars

------------------------------------------------------------------------------
(* Properties *)

\* The profile and the search agree once nothing is under way: one entry, for
\* the game played, or none at all.  It takes that every step but one finds the
\* former steps through, on whatever device: only going online again may follow
\* at once, and overlap the removal of the old entry.
PresenceAgrees ==
    ~Unfinished /\ ~disturbed =>
        \A g \in Game : Cardinality(entries[g]) = IF playing = g THEN 1 ELSE 0

\* A device with no event to come shows what the profile says, unless "nothing"
\* was shown while a name still waited for the catalogue (GameController:114).
ShownAgrees ==
    \A d \in Device :
        d \notin changed /\ late[d] = <<>> /\ d \notin overtaken =>
            shown[d] = PlayingAt(d)
==============================================================================
