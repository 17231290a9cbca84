---------------------------- MODULE PresenceProofs ----------------------------
(***************************************************************************)
(* Proofs about Presence, for every set of games and of devices and every  *)
(* number of confirmations and restarts.                                   *)
(***************************************************************************)
EXTENDS Presence, SequenceTheorems, FiniteSetTheorems,
        WellFoundedInduction, TLAPS

(* Sequences *)

LEMMA AppendFacts ==
    ASSUME NEW S, NEW q \in Seq(S), NEW x \in S
    PROVE  /\ Append(q, x) \in Seq(S) /\ Append(q, x) # <<>>
           /\ Append(q, x)[Len(Append(q, x))] = x
OBVIOUS

LEMMA TailFacts ==
    ASSUME NEW S, NEW q \in Seq(S), q # <<>>
    PROVE  /\ Tail(q) \in Seq(S)
           /\ Head(q) = q[1] /\ Head(q) \in S
           /\ Tail(q) = <<>> => Len(q) = 1
           /\ Tail(q) # <<>> => Tail(q)[Len(Tail(q))] = q[Len(q)]
<1>1. Tail(q) \in Seq(S) /\ Len(Tail(q)) = Len(q) - 1 /\ Len(q) \in Nat \ {0}
    BY EmptySeq, LenProperties
<1>2. Head(q) = q[1] /\ Head(q) \in S
    OBVIOUS
<1>3. Tail(q) = <<>> => Len(q) = 1
    <2> DEFINE t == Tail(q)
    <2>1. Len(t) = Len(q) - 1 /\ Len(q) \in Nat
        BY <1>1
    <2> HIDE DEF t
    <2>2. t = <<>> => Len(q) = 1
        BY <2>1, EmptySeq
    <2> QED BY <2>2 DEF t
<1>4. ASSUME Tail(q) # <<>>
      PROVE  Tail(q)[Len(Tail(q))] = q[Len(q)]
    <2>1. Len(q) - 1 \in 1..Len(Tail(q))
        BY <1>1, <1>4, EmptySeq
    <2> QED BY <1>1, <2>1
<1> QED BY <1>1, <1>2, <1>3, <1>4

(* Types *)

\* The last of some places of a sequence exists.
LEMMA LatestIsThere ==
    ASSUME NEW n \in Nat, NEW S \in SUBSET (1..n), S # {}
    PROVE  Latest(S) \in S
<1> DEFINE T == {n - i : i \in S}
           R == OpToRel(<, Nat)
<1>0. \A i \in S : n - i \in Nat
    OBVIOUS
<1>1. T \subseteq Nat /\ T # {}
    BY <1>0
<1>2. IsWellFoundedOn(R, Nat)
    BY NatLessThanWellFounded
<1>3. \A x, y \in Nat : y < x => <<y, x>> \in R
    BY DEF OpToRel
<1> HIDE DEF R
<1>4. PICK x \in T : \A y \in T : ~(<<y, x>> \in R)
    BY <1>1, <1>2, WFMin
<1>5. PICK i \in S : x = n - i
    BY <1>4
<1>6. \A j \in S : j <= i
    <2> SUFFICES ASSUME NEW j \in S, ~(j <= i) PROVE FALSE
        OBVIOUS
    <2>1. n - j \in T /\ n - j \in Nat /\ n - i \in Nat /\ n - j < n - i
        OBVIOUS
    <2> QED BY <1>3, <1>4, <1>5, <2>1
<1> QED BY <1>6 DEF Latest

LEMMA WriteTypes ==
    /\ Play(NoGame) \in Write
    /\ \A g \in Game, k \in Key : /\ Play(g) \in Write /\ Add(g, k) \in Write
                                  /\ Drop(g, k) \in Write
BY DEF Write

LEMMA WriteFields ==
    ASSUME NEW w \in Write
    PROVE  /\ w.game \in Game \cup {NoGame}
           /\ w.op = "add" => w.key \in Key
<1>1. CASE w \in {Play(g) : g \in Game \cup {NoGame}}
    BY <1>1 DEF Play
<1>2. CASE w \in {Add(g, k) : g \in Game, k \in Key}
    <2>1. PICK g \in Game, k \in Key : w = Add(g, k)
        BY <1>2
    <2> QED BY <2>1 DEF Add
<1>3. CASE w \in {Drop(g, k) : g \in Game, k \in Key}
    <2>1. PICK g \in Game, k \in Key : w = Drop(g, k)
        BY <1>3
    <2> QED BY <2>1 DEF Drop
<1> QED BY <1>1, <1>2, <1>3 DEF Write

LEMMA PlayingType ==
    ASSUME TypeOK, NEW d \in Device
    PROVE  PlayingAt(d) \in Game \cup {NoGame}
<1> DEFINE S == OfKind(outbox[d], {"play"})
<1>1. CASE S = {}
    BY <1>1 DEF PlayingAt, TypeOK
<1>2. CASE S # {}
    <2>1. /\ outbox[d] \in Seq(Write) /\ Len(outbox[d]) \in Nat
          /\ DOMAIN outbox[d] = 1..Len(outbox[d])
        BY DEF TypeOK
    <2>2. S \subseteq 1..Len(outbox[d])
        BY <2>1 DEF OfKind
    <2>3. Latest(S) \in S
        BY <1>2, <2>1, <2>2, LatestIsThere
    <2>4. outbox[d][Latest(S)] \in Write
        BY <2>1, <2>2, <2>3
    <2>5. PlayingAt(d) = outbox[d][Latest(S)].game
        BY <1>2 DEF PlayingAt
    <2> QED BY <2>4, <2>5, WriteFields
<1> QED BY <1>1, <1>2

LEMMA QueueType ==
    ASSUME TypeOK, NEW d \in Device, NEW ws \in Seq(Write), Queue(d, ws)
    PROVE  outbox' \in [Device -> Seq(Write)]
<1>1. outbox[d] \o ws \in Seq(Write)
    BY DEF TypeOK
<1> QED BY <1>1 DEF Queue, TypeOK

LEMMA StartType ==
    ASSUME TypeOK, Start
    PROVE  ops' \in Nat /\ ops' \in Key
BY PresenceBounds DEF TypeOK, Start, Key

LEMMA TypeStep ==
    ASSUME TypeOK, [Next]_vars
    PROVE  TypeOK'
<1>1. ASSUME NEW d \in Device, ObserveCurrentGame(d)
      PROVE  TypeOK'
    <2>1. PlayingAt(d) \in Game \cup {NoGame}
        BY PlayingType
    <2>2. CASE PlayingAt(d) = NoGame \/ d \in catalogue
        BY <1>1, <2>1, <2>2
            DEF ObserveCurrentGame, Update, TypeOK, server, bounds
    <2>3. CASE ~(PlayingAt(d) = NoGame \/ d \in catalogue)
        <3>1. Append(late[d], PlayingAt(d)) \in Seq(Game)
            BY <2>1, <2>3, AppendFacts DEF TypeOK
        <3> QED BY <1>1, <2>3, <3>1
                DEF ObserveCurrentGame, TypeOK, server, bounds
    <2> QED BY <2>2, <2>3
<1>2. ASSUME NEW d \in Device, FetchAllGames(d)
      PROVE  TypeOK'
    BY <1>2 DEF FetchAllGames, TypeOK, server, bounds
<1>3. ASSUME NEW d \in Device, ShowLateGame(d)
      PROVE  TypeOK'
    <2>1. Tail(late[d]) \in Seq(Game) /\ Head(late[d]) \in Game
        BY <1>3, TailFacts DEF ShowLateGame, TypeOK
    <2> QED BY <1>3, <2>1 DEF ShowLateGame, Update, TypeOK, server, bounds
<1>4. ASSUME NEW d \in Device, GoOnlineTapped(d) \/ CancelChoice(d)
      PROVE  TypeOK'
    BY <1>4 DEF GoOnlineTapped, CancelChoice, TypeOK, server, bounds, screen
<1>5. ASSUME NEW d \in Device, NEW g \in Game, GoOnlineForGame(d, g)
      PROVE  TypeOK'
    <2>1. ops' \in Nat /\ ops' \in Key
        BY <1>5, StartType DEF GoOnlineForGame
    <2>2. reads' \in [Device -> SUBSET Read]
        BY <1>5, <2>1 DEF GoOnlineForGame, TypeOK, Read
    <2>3. disturbed' \in BOOLEAN
        BY <1>5 DEF GoOnlineForGame
    <2> QED BY <1>5, <2>1, <2>2, <2>3 DEF GoOnlineForGame, TypeOK, server, screen
<1>6. ASSUME NEW d \in Device, ProfileFetched(d)
      PROVE  TypeOK'
    <2>1. PICK r \in reads[d] :
              /\ reads' = [reads EXCEPT ![d] = @ \ {r}]
              /\ Queue(d, OnlineWrites(r))
        BY <1>6 DEF ProfileFetched
    <2>2. r \in Read
        BY DEF TypeOK
    <2>3. OnlineWrites(r) \in Seq(Write)
        BY <2>2, WriteTypes DEF OnlineWrites, Read
    <2>4. outbox' \in [Device -> Seq(Write)]
        BY <2>1, <2>3, QueueType
    <2> QED BY <1>6, <2>1, <2>4
            DEF ProfileFetched, TypeOK, server, screen, bounds, Raise
<1>7. ASSUME NEW d \in Device, GoOfflineForGame(d)
      PROVE  TypeOK'
    <2>1. ops' \in Nat /\ ops' \in Key
        BY <1>7, StartType DEF GoOfflineForGame
    <2>2. << Play(NoGame) >> \in Seq(Write)
        BY WriteTypes
    <2>3. outbox' \in [Device -> Seq(Write)]
        BY <1>7, <2>2, QueueType DEF GoOfflineForGame
    <2>4. [kind |-> "offline", game |-> shown[d], key |-> ops'] \in Read
        BY <1>7, <2>1 DEF GoOfflineForGame, TypeOK, Read
    <2>5. reads' \in [Device -> SUBSET Read]
        BY <1>7, <2>4 DEF GoOfflineForGame, TypeOK
    <2>6. disturbed' \in BOOLEAN
        BY <1>7 DEF GoOfflineForGame
    <2> QED BY <1>7, <2>1, <2>3, <2>5, <2>6
            DEF GoOfflineForGame, TypeOK, server, screen, Raise
<1>8. ASSUME NEW d \in Device, EntryFound(d)
      PROVE  TypeOK'
    <2>1. PICK r \in reads[d] :
              /\ reads' = [reads EXCEPT ![d] = @ \ {r}]
              /\ \/ UNCHANGED outbox
                 \/ \E k \in EntriesAt(d, r.game) :
                       Queue(d, << Drop(r.game, k) >>)
        BY <1>8 DEF EntryFound
    <2>2. r \in Read
        BY DEF TypeOK
    <2>3. \A k \in EntriesAt(d, r.game) : << Drop(r.game, k) >> \in Seq(Write)
        BY <2>2, WriteTypes DEF EntriesAt, Read
    <2>4. outbox' \in [Device -> Seq(Write)]
        BY <2>1, <2>3, QueueType DEF TypeOK
    <2> QED BY <1>8, <2>1, <2>4
            DEF EntryFound, TypeOK, server, screen, bounds, Raise
<1>9. ASSUME NEW d \in Device, Deliver(d)
      PROVE  TypeOK'
    <2> DEFINE w == Head(outbox[d])
    <2>1. Tail(outbox[d]) \in Seq(Write) /\ w \in Write
        BY <1>9, TailFacts DEF Deliver, TypeOK
    <2>2. w.game \in Game \cup {NoGame}
        BY <2>1, WriteFields
    <2>3. playing' \in Game \cup {NoGame}
        BY <1>9, <2>2 DEF Deliver, Apply, TypeOK
    <2>4. \A g \in Game : w = Add(g, w.key) => w.key \in Key
        BY <2>1, WriteFields DEF Add
    <2> QED BY <1>9, <2>1, <2>3, <2>4
            DEF Deliver, Apply, TypeOK, screen, bounds, Raise
<1>10. ASSUME NEW d \in Device, Crash(d)
       PROVE  TypeOK'
    <2>1. disturbed' \in BOOLEAN
        BY <1>10 DEF Crash
    <2>2. /\ outbox' \in [Device -> Seq(Write)] /\ late' \in [Device -> Seq(Game)]
          /\ reads' \in [Device -> SUBSET Read]
          /\ shown' \in [Device -> Game \cup {NoGame}]
        BY <1>10 DEF Crash, TypeOK
    <2> QED BY <1>10, <2>1, <2>2 DEF Crash, TypeOK, server
<1>11. ASSUME NEW d \in Device, ProfileOfNoUse(d)
       PROVE  TypeOK'
    <2>1. reads' \in [Device -> SUBSET Read]
        BY <1>11 DEF ProfileOfNoUse, TypeOK
    <2> QED BY <1>11, <2>1
            DEF ProfileOfNoUse, TypeOK, server, screen, bounds
<1>12. CASE UNCHANGED vars
    BY <1>12 DEF vars, server, screen, bounds, TypeOK
<1> QED
    BY <1>1, <1>2, <1>3, <1>4, <1>5, <1>6, <1>7, <1>8, <1>9, <1>10, <1>11, <1>12
    DEF Next

LEMMA TypeInit == Init => TypeOK
<1> SUFFICES ASSUME Init PROVE TypeOK
    OBVIOUS
<1>1. outbox \in [Device -> Seq(Write)] /\ late \in [Device -> Seq(Game)]
    BY DEF Init
<1> QED BY <1>1 DEF Init, TypeOK

\* The state stays well typed; in particular nobody goes offline for a game that
\* is not shown (goOfflineForGame looks for the entry of the game shown).
THEOREM TypeCorrect == Spec => []TypeOK
<1>1. TypeOK /\ [Next]_vars => TypeOK'
    BY TypeStep
<1> QED BY <1>1, TypeInit, PTL DEF Spec

(* What a device shows *)

\* The last event that has been reported, shown or still waiting, is the value
\* the device sees.
Reported(d) == IF late[d] = <<>> THEN shown[d] ELSE late[d][Len(late[d])]

ShownInv ==
    \A d \in Device :
        d \notin changed /\ d \notin overtaken => Reported(d) = PlayingAt(d)

\* Steps that show nothing: a device whose view changes has an event to come.
LEMMA RaisedShown ==
    ASSUME ShownInv, Raise(changed), UNCHANGED <<late, shown, overtaken>>
    PROVE  ShownInv'
<1> SUFFICES ASSUME NEW d \in Device, d \notin changed', d \notin overtaken'
             PROVE  Reported(d)' = PlayingAt(d)'
    BY DEF ShownInv
<1>1. d \notin changed /\ PlayingAt(d)' = PlayingAt(d)
    BY DEF Raise
<1>2. Reported(d)' = Reported(d)
    BY DEF Reported
<1> QED BY <1>1, <1>2 DEF ShownInv

LEMMA ViewKept ==
    ASSUME UNCHANGED <<playing, outbox>>
    PROVE  \A d : PlayingAt(d)' = PlayingAt(d)
BY DEF PlayingAt

LEMMA QuietShown ==
    ASSUME ShownInv, UNCHANGED <<playing, outbox, changed, late, shown, overtaken>>
    PROVE  ShownInv'
<1>1. \A d : PlayingAt(d)' = PlayingAt(d) /\ Reported(d)' = Reported(d)
    BY ViewKept DEF Reported
<1> QED BY <1>1 DEF ShownInv

LEMMA ShownStep ==
    ASSUME TypeOK, ShownInv, [Next]_vars
    PROVE  ShownInv'
<1>1. ASSUME NEW d \in Device, ObserveCurrentGame(d)
      PROVE  ShownInv'
    <2> SUFFICES ASSUME NEW e \in Device, e \notin changed', e \notin overtaken'
                 PROVE  Reported(e)' = PlayingAt(e)'
        BY DEF ShownInv
    <2>1. PlayingAt(e)' = PlayingAt(e)
        BY <1>1, ViewKept DEF ObserveCurrentGame, server
    <2>2. CASE e # d
        <3>1. /\ late'[e] = late[e] /\ shown'[e] = shown[e]
              /\ e \notin changed /\ e \notin overtaken
            BY <1>1, <2>2 DEF ObserveCurrentGame, Update, TypeOK
        <3> QED BY <2>1, <3>1 DEF ShownInv, Reported
    <2>3. CASE e = d /\ (PlayingAt(d) = NoGame \/ d \in catalogue)
        <3>1. late'[d] = <<>> /\ shown'[d] = PlayingAt(d)
            BY <1>1, <2>3 DEF ObserveCurrentGame, Update, TypeOK
        <3> QED BY <2>1, <2>3, <3>1 DEF Reported
    <2>4. CASE e = d /\ ~(PlayingAt(d) = NoGame \/ d \in catalogue)
        <3>1. late'[d] = Append(late[d], PlayingAt(d))
            BY <1>1, <2>4 DEF ObserveCurrentGame, TypeOK
        <3>2. PlayingAt(d) \in Game /\ late[d] \in Seq(Game)
            BY <2>4, PlayingType DEF TypeOK
        <3>3. late'[d] # <<>> /\ late'[d][Len(late'[d])] = PlayingAt(d)
            BY <3>1, <3>2, AppendFacts
        <3> QED BY <2>1, <2>4, <3>3 DEF Reported
    <2> QED BY <2>2, <2>3, <2>4
<1>2. ASSUME NEW d \in Device, ShowLateGame(d)
      PROVE  ShownInv'
    <2>1. \A e \in Device : PlayingAt(e)' = PlayingAt(e)
        BY <1>2, ViewKept DEF ShowLateGame, server
    <2>2. \A e \in Device : e # d => late'[e] = late[e] /\ shown'[e] = shown[e]
        BY <1>2 DEF ShowLateGame, Update, TypeOK
    <2>3. /\ late[d] # <<>> /\ late[d] \in Seq(Game)
          /\ late'[d] = Tail(late[d]) /\ shown'[d] = Head(late[d])
        BY <1>2 DEF ShowLateGame, Update, TypeOK
    <2>4. /\ late'[d] = <<>> => shown'[d] = late[d][Len(late[d])]
          /\ late'[d] # <<>> => late'[d][Len(late'[d])] = late[d][Len(late[d])]
        BY <2>3, TailFacts
    <2>5. Reported(d)' = Reported(d)
        BY <2>3, <2>4 DEF Reported
    <2>6. \A e \in Device : e # d => Reported(e)' = Reported(e)
        BY <2>2 DEF Reported
    <2> QED BY <1>2, <2>1, <2>5, <2>6 DEF ShowLateGame, ShownInv
<1>3. ASSUME NEW d \in Device,
             \/ FetchAllGames(d) \/ GoOnlineTapped(d) \/ CancelChoice(d)
             \/ \E g \in Game : GoOnlineForGame(d, g)
             \/ ProfileOfNoUse(d)
      PROVE  ShownInv'
    BY <1>3, QuietShown
        DEF FetchAllGames, GoOnlineTapped, CancelChoice, GoOnlineForGame,
            ProfileOfNoUse, server, screen
<1>4. ASSUME NEW d \in Device,
             \/ ProfileFetched(d) \/ GoOfflineForGame(d) \/ EntryFound(d)
             \/ Deliver(d)
      PROVE  ShownInv'
    BY <1>4, RaisedShown
        DEF ProfileFetched, GoOfflineForGame, EntryFound, Deliver, screen
<1>5. ASSUME NEW d \in Device, Crash(d)
      PROVE  ShownInv'
    <2> SUFFICES ASSUME NEW e \in Device, e \notin changed', e \notin overtaken'
                 PROVE  Reported(e)' = PlayingAt(e)'
        BY DEF ShownInv
    <2>1. /\ e # d /\ e \notin changed /\ e \notin overtaken
          /\ playing' = playing
          /\ outbox'[e] = outbox[e] /\ late'[e] = late[e] /\ shown'[e] = shown[e]
        BY <1>5 DEF Crash, TypeOK, server
    <2>2. PlayingAt(e)' = PlayingAt(e)
        BY <2>1 DEF PlayingAt
    <2> QED BY <2>1, <2>2 DEF Reported, ShownInv
<1>6. CASE UNCHANGED vars
    BY <1>6, QuietShown DEF vars, server, screen
<1> QED BY <1>1, <1>2, <1>3, <1>4, <1>5, <1>6 DEF Next

\* A device that has reported every event shows what it sees in the profile,
\* unless "nothing" passed a waiting name (fetchCurrentlyPlayedGame).
THEOREM ShowsWhatIsPlayed == Spec => []ShownAgrees
<1>1. Init => ShownInv
    BY DEF Init, ShownInv
<1>2. TypeOK /\ ShownInv /\ [Next]_vars => TypeOK' /\ ShownInv'
    BY TypeStep, ShownStep
<1>3. ShownInv => ShownAgrees
    BY DEF ShownInv, ShownAgrees, Reported
<1> QED BY <1>1, <1>2, <1>3, TypeInit, PTL DEF Spec

------------------------------------------------------------------------------
(* The profile and the search agree *)

Queues(d, w) == \E i \in DOMAIN outbox[d] : outbox[d][i] = w
Queued(w) == \E d \in Device : Queues(d, w)
Online(r) == r.kind = "online"
Offline(r) == r.kind = "offline"

\* Each kind of operation is under way at most once.
OneRead ==
    \A d, e \in Device : \A r \in reads[d] : \A s \in reads[e] :
        r.kind = s.kind => d = e /\ r = s

OneWrite ==
    \A d, e \in Device : \A i \in DOMAIN outbox[d] : \A j \in DOMAIN outbox[e] :
        /\ outbox[d][i].op \in {"play", "add"}
        /\ outbox[e][j].op = outbox[d][i].op
        => d = e /\ i = j

\* A queued value of the profile is a change.
PlayChanges ==
    /\ Queued(Play(NoGame)) => playing # NoGame
    /\ \A g \in Game : Queued(Play(g)) => playing = NoGame

\* A queued entry is new, ahead of the profile, and ahead of its own removal.
AddBeforePlay ==
    \A d \in Device : \A i \in DOMAIN outbox[d] : \A g \in Game : \A k \in Key :
        outbox[d][i] = Add(g, k) =>
            /\ k \notin entries[g]
            /\ \E j \in DOMAIN outbox[d] : i < j /\ outbox[d][j] = Play(g)

AddBeforeDrop ==
    \A d, e \in Device : \A i \in DOMAIN outbox[d] : \A j \in DOMAIN outbox[e] :
        \A g \in Game : \A k \in Key :
            outbox[d][i] = Add(g, k) /\ outbox[e][j] = Drop(g, k) =>
                d = e /\ i < j

\* While a device goes online, nobody plays or is about to, and its key is new.
OnlineAlone ==
    \A d \in Device : \A r \in reads[d] : Online(r) =>
        /\ playing = NoGame
        /\ \A g \in Game : ~Queued(Play(g))
        /\ \A g \in Game : r.key \notin entries[g] /\ ~Queued(Drop(g, r.key))

\* While one goes offline, the entry is there to be found.
OfflineFinds ==
    \A d \in Device : \A r \in reads[d] : Offline(r) =>
        /\ entries[r.game] # {}
        /\ \A g \in Game : \A k \in Key : ~Queued(Drop(g, k))

\* Keys are made from the count of confirmations.
KeysMade ==
    /\ \A g \in Game : \A k \in entries[g] : k <= ops
    /\ \A g \in Game : \A k \in Key :
          Queued(Add(g, k)) \/ Queued(Drop(g, k)) => k <= ops
    /\ \A d \in Device : \A r \in reads[d] : r.key <= ops

\* The entries left once the queues are through ...
Standing(g) ==
    {k \in Key : (k \in entries[g] \/ Queued(Add(g, k))) /\ ~Queued(Drop(g, k))}

\* ... are one for the game that will then be played, and one that a query
\* under way is to find.
WillPlay(g) == (playing = g /\ ~Queued(Play(NoGame))) \/ Queued(Play(g))
Leaving(g) == \E d \in Device : \E r \in reads[d] : Offline(r) /\ r.game = g

Counted(g) ==
    /\ ~WillPlay(g) /\ ~Leaving(g) => Standing(g) = {}
    /\ WillPlay(g) /\ ~Leaving(g) => \E k : Standing(g) = {k}
    /\ ~WillPlay(g) /\ Leaving(g) => \E k : Standing(g) = {k}
    /\ WillPlay(g) /\ Leaving(g) =>
          \E k, l : k # l /\ Standing(g) = {k, l}

OneByOne ==
    /\ OneRead /\ OneWrite /\ PlayChanges /\ AddBeforePlay /\ AddBeforeDrop
    /\ OnlineAlone /\ OfflineFinds /\ KeysMade
    /\ \A g \in Game : Counted(g)

AgreeInv == ~disturbed => OneByOne

LEMMA EndPositions ==
    ASSUME NEW S, NEW q \in Seq(S), NEW s \in Seq(S)
    PROVE  /\ \A i \in DOMAIN q :
                 i \in DOMAIN (q \o s) /\ (q \o s)[i] = q[i] /\ i \in Nat
           /\ \A j \in DOMAIN s :
                 Len(q) + j \in DOMAIN (q \o s) /\ (q \o s)[Len(q) + j] = s[j]
           /\ \A i \in DOMAIN (q \o s) : i \notin DOMAIN q =>
                 \E j \in DOMAIN s : i = Len(q) + j
<1>1. ASSUME NEW i \in DOMAIN (q \o s), i \notin DOMAIN q
      PROVE  \E j \in DOMAIN s : i = Len(q) + j
    <2>1. i - Len(q) \in DOMAIN s /\ i = Len(q) + (i - Len(q))
        BY <1>1
    <2> QED BY <2>1
<1> QED BY <1>1

\* What a call adds to the queues.
LEMMA QueueAppended ==
    ASSUME TypeOK, NEW d \in Device, NEW ws \in Seq(Write), Queue(d, ws)
    PROVE  /\ \A e \in Device : e # d => outbox'[e] = outbox[e]
           /\ \A e \in Device : \A i \in DOMAIN outbox[e] :
                 i \in DOMAIN outbox'[e] /\ outbox'[e][i] = outbox[e][i]
           /\ \A e \in Device : \A i \in DOMAIN outbox'[e] :
                 \/ i \in DOMAIN outbox[e]
                 \/ /\ e = d
                    /\ \E j \in DOMAIN ws :
                          i = Len(outbox[d]) + j /\ outbox'[e][i] = ws[j]
           /\ \A j \in DOMAIN ws :
                 /\ Len(outbox[d]) + j \in DOMAIN outbox'[d]
                 /\ outbox'[d][Len(outbox[d]) + j] = ws[j]
           /\ \A e \in Device : \A w :
                 Queues(e, w)' <=>
                    \/ Queues(e, w)
                    \/ e = d /\ \E j \in DOMAIN ws : ws[j] = w
<1> DEFINE q == outbox[d]
           r == q \o ws
<1>1. q \in Seq(Write)
    BY DEF TypeOK
<1>2. /\ \A i \in DOMAIN q : i \in DOMAIN r /\ r[i] = q[i]
      /\ \A j \in DOMAIN ws : Len(q) + j \in DOMAIN r /\ r[Len(q) + j] = ws[j]
      /\ \A i \in DOMAIN r : i \notin DOMAIN q =>
            \E j \in DOMAIN ws : i = Len(q) + j
    BY <1>1, EndPositions
<1>3. outbox'[d] = r /\ \A e \in Device : e # d => outbox'[e] = outbox[e]
    BY DEF Queue, TypeOK
<1> HIDE DEF r
<1>4. \A e \in Device : \A i \in DOMAIN outbox[e] :
         i \in DOMAIN outbox'[e] /\ outbox'[e][i] = outbox[e][i]
    BY <1>2, <1>3
<1>5. \A e \in Device : \A i \in DOMAIN outbox'[e] :
         \/ i \in DOMAIN outbox[e]
         \/ /\ e = d
            /\ \E j \in DOMAIN ws :
                  i = Len(outbox[d]) + j /\ outbox'[e][i] = ws[j]
    BY <1>2, <1>3
<1>6. \A j \in DOMAIN ws :
         /\ Len(outbox[d]) + j \in DOMAIN outbox'[d]
         /\ outbox'[d][Len(outbox[d]) + j] = ws[j]
    BY <1>2, <1>3
<1>7. ASSUME NEW e \in Device, NEW w
      PROVE  Queues(e, w)' <=>
                \/ Queues(e, w)
                \/ e = d /\ \E j \in DOMAIN ws : ws[j] = w
    <2>1. Queues(e, w)' <=> \E i \in DOMAIN outbox'[e] : outbox'[e][i] = w
        BY DEF Queues
    <2>2. Queues(e, w) <=> \E i \in DOMAIN outbox[e] : outbox[e][i] = w
        BY DEF Queues
    <2>3. Queues(e, w)' =>
             Queues(e, w) \/ (e = d /\ \E j \in DOMAIN ws : ws[j] = w)
        BY <1>4, <1>5, <2>1, <2>2
    <2>4. Queues(e, w) => Queues(e, w)'
        BY <1>4, <2>1, <2>2
    <2>5. (e = d /\ \E j \in DOMAIN ws : ws[j] = w) => Queues(e, w)'
        BY <1>6, <2>1
    <2> QED BY <2>3, <2>4, <2>5
<1> QED BY <1>3, <1>4, <1>5, <1>6, <1>7

\* What the delivery of the first write leaves in the queues.
LEMMA QueueDelivered ==
    ASSUME TypeOK, NEW d \in Device, Deliver(d)
    PROVE  LET w == outbox[d][1]
           IN  /\ 1 \in DOMAIN outbox[d] /\ w \in Write /\ Apply(w)
               /\ \A e \in Device : e # d => outbox'[e] = outbox[e]
               /\ \A i \in DOMAIN outbox'[d] :
                     /\ i \in Nat /\ 0 < i /\ i + 1 \in DOMAIN outbox[d]
                     /\ outbox'[d][i] = outbox[d][i + 1]
               /\ \A i \in DOMAIN outbox[d] : i \in Nat /\ 0 < i
               /\ \A i \in DOMAIN outbox[d] : i # 1 =>
                     i - 1 \in DOMAIN outbox'[d] /\ outbox'[d][i - 1] = outbox[d][i]
               /\ \A e \in Device : \A v : Queues(e, v)' => Queues(e, v)
               /\ \A e \in Device : \A v :
                     Queues(e, v) => Queues(e, v)' \/ (e = d /\ v = w)
<1> DEFINE q == outbox[d]
           t == Tail(q)
<1>1. q \in Seq(Write) /\ q # <<>> /\ Apply(Head(q))
      /\ outbox'[d] = t /\ \A e \in Device : e # d => outbox'[e] = outbox[e]
    BY DEF Deliver, TypeOK
<1>2. 1 \in DOMAIN q /\ q[1] \in Write /\ Head(q) = q[1]
    BY <1>1
<1>3. \A i \in DOMAIN t : i \in Nat /\ 0 < i /\ i + 1 \in DOMAIN q /\ t[i] = q[i + 1]
    BY <1>1
<1>4. \A i \in DOMAIN q : i \in Nat /\ 0 < i
    BY <1>1
<1>5. \A i \in DOMAIN q : i # 1 => i - 1 \in DOMAIN t /\ t[i - 1] = q[i]
    BY <1>1
<1> HIDE DEF t
<1>6. \A e \in Device : \A v : Queues(e, v)' => Queues(e, v)
    BY <1>1, <1>3 DEF Queues
<1>7. \A e \in Device : \A v : Queues(e, v) => Queues(e, v)' \/ (e = d /\ v = q[1])
    BY <1>1, <1>5 DEF Queues
<1> QED BY <1>1, <1>2, <1>3, <1>4, <1>5, <1>6, <1>7

LEMMA Fields ==
    \A g, k : /\ Play(g).op = "play" /\ Add(g, k).op = "add" /\ Drop(g, k).op = "drop"
              /\ Play(g).game = g /\ Add(g, k).key = k /\ Drop(g, k).key = k
              /\ Add(g, k).game = g /\ Drop(g, k).game = g
BY DEF Play, Add, Drop

\* Steps that leave all this alone.
LEMMA QuietAgree ==
    ASSUME OneByOne, UNCHANGED <<playing, entries, outbox, reads>>, ops' = ops
    PROVE  OneByOne'
<1>1. \A e, w : Queues(e, w)' <=> Queues(e, w)
    BY DEF Queues
<1>2. \A w : Queued(w)' <=> Queued(w)
    BY <1>1 DEF Queued
<1>3. OneRead' /\ OneWrite' /\ AddBeforePlay' /\ AddBeforeDrop'
    BY DEF OneByOne, OneRead, OneWrite, AddBeforePlay, AddBeforeDrop
<1>4. PlayChanges' /\ OnlineAlone' /\ OfflineFinds' /\ KeysMade'
    BY <1>2 DEF OneByOne, PlayChanges, OnlineAlone, OfflineFinds, KeysMade
<1>5. \A g \in Game : Standing(g)' = Standing(g)
                      /\ (WillPlay(g)' <=> WillPlay(g))
                      /\ (Leaving(g)' <=> Leaving(g))
    BY <1>2 DEF Standing, WillPlay, Leaving
<1>6. \A g \in Game : Counted(g)'
    BY <1>5 DEF OneByOne, Counted
<1> QED BY <1>3, <1>4, <1>6 DEF OneByOne

\* A game is confirmed while nobody plays: the profile is read first.
LEMMA GoOnlineAgree ==
    ASSUME TypeOK, OneByOne, NEW d \in Device, NEW g \in Game,
           GoOnlineForGame(d, g), ~disturbed'
    PROVE  OneByOne'
<1> DEFINE r == [kind |-> "online", game |-> g, key |-> ops']
<1>1. /\ playing = NoGame /\ UNCHANGED <<playing, entries, outbox>>
      /\ reads' = [reads EXCEPT ![d] = @ \cup {r}]
      /\ \A e \in Device : \A s \in reads[e] : s.kind # "online"
      /\ \A h \in Game : ~Queued(Play(h))
    BY DEF GoOnlineForGame, GoingOnline, server, Queued, Queues
<1>2. ops' = ops + 1 /\ ops \in Nat /\ ops' \in Key
    BY StartType DEF GoOnlineForGame, Start, TypeOK
<1>3. /\ \A e \in Device : \A s \in reads'[e] : s \in reads[e] \/ (e = d /\ s = r)
      /\ \A e \in Device : \A s \in reads[e] : s \in reads'[e]
    BY <1>1 DEF TypeOK
<1>4. r.kind = "online" /\ r.key = ops'
    OBVIOUS
<1> HIDE DEF r
<1>5. (\A e, w : Queues(e, w)' <=> Queues(e, w)) /\ \A w : Queued(w)' <=> Queued(w)
    BY <1>1 DEF Queues, Queued
<1>6. OneRead'
    BY <1>1, <1>3, <1>4 DEF OneByOne, OneRead
<1>7. OneWrite' /\ AddBeforePlay' /\ AddBeforeDrop'
    BY <1>1 DEF OneByOne, OneWrite, AddBeforePlay, AddBeforeDrop
<1>8. PlayChanges'
    BY <1>1, <1>5 DEF OneByOne, PlayChanges
<1>9. OnlineAlone'
    <2>1. \A h \in Game : ops' \notin entries[h] /\ ~Queued(Drop(h, ops'))
        BY <1>2 DEF OneByOne, KeysMade
    <2> QED BY <1>1, <1>3, <1>4, <1>5, <2>1 DEF OnlineAlone, Online
<1>10. OfflineFinds'
    BY <1>1, <1>3, <1>4, <1>5 DEF OneByOne, OfflineFinds, Offline
<1>11. KeysMade'
    <2>1. \A k \in Key : k <= ops => k <= ops'
        BY <1>2 DEF Key
    <2>2. \A h \in Game : entries[h] \subseteq Key
        BY DEF TypeOK
    <2>3. \A e \in Device : \A s \in reads[e] : s.key \in Key
        BY DEF TypeOK, Read
    <2>4. r.key <= ops'
        BY <1>2, <1>4
    <2> QED BY <1>1, <1>3, <1>5, <2>1, <2>2, <2>3, <2>4 DEF OneByOne, KeysMade
<1>12. \A h \in Game : /\ Standing(h)' = Standing(h)
                       /\ WillPlay(h)' <=> WillPlay(h)
                       /\ Leaving(h)' <=> Leaving(h)
    BY <1>1, <1>3, <1>4, <1>5 DEF Standing, WillPlay, Leaving, Offline
<1>13. \A h \in Game : Counted(h)'
    BY <1>12 DEF OneByOne, Counted
<1> QED BY <1>6, <1>7, <1>8, <1>9, <1>10, <1>11, <1>13 DEF OneByOne

\* The profile is of no use: the device no longer goes online.
LEMMA NoUseAgree ==
    ASSUME TypeOK, OneByOne, NEW d \in Device, ProfileOfNoUse(d)
    PROVE  OneByOne'
<1>1. PICK r \in reads[d] :
         /\ r.kind = "online"
         /\ reads' = [reads EXCEPT ![d] = @ \ {r}]
    BY DEF ProfileOfNoUse
<1>2. UNCHANGED <<playing, entries, outbox, ops>>
    BY DEF ProfileOfNoUse, server, bounds
<1>3. \A e \in Device : reads'[e] \subseteq reads[e]
    BY <1>1 DEF TypeOK
<1>4. \A e \in Device : \A s \in reads[e] : Offline(s) => s \in reads'[e]
    BY <1>1 DEF TypeOK, Offline
<1>5. (\A e, w : Queues(e, w)' <=> Queues(e, w)) /\ \A w : Queued(w)' <=> Queued(w)
    BY <1>2 DEF Queues, Queued
<1>6. OneRead'
    BY <1>3 DEF OneByOne, OneRead
<1>7. OneWrite' /\ AddBeforePlay' /\ AddBeforeDrop'
    BY <1>2 DEF OneByOne, OneWrite, AddBeforePlay, AddBeforeDrop
<1>8. PlayChanges'
    BY <1>2, <1>5 DEF OneByOne, PlayChanges
<1>9. OnlineAlone' /\ OfflineFinds'
    BY <1>2, <1>3, <1>5 DEF OneByOne, OnlineAlone, OfflineFinds
<1>10. KeysMade'
    BY <1>2, <1>3, <1>5 DEF OneByOne, KeysMade
<1>11. \A g \in Game : /\ Standing(g)' = Standing(g)
                       /\ WillPlay(g)' <=> WillPlay(g)
                       /\ Leaving(g)' <=> Leaving(g)
    BY <1>2, <1>3, <1>4, <1>5 DEF Standing, WillPlay, Leaving
<1>12. \A g \in Game : Counted(g)'
    BY <1>11 DEF OneByOne, Counted
<1> QED BY <1>6, <1>7, <1>8, <1>9, <1>10, <1>12 DEF OneByOne

\* The profile is there: the entry and the profile are queued.
LEMMA ProfileAgree ==
    ASSUME TypeOK, OneByOne, NEW d \in Device, ProfileFetched(d)
    PROVE  OneByOne'
<1>1. PICK r \in reads[d] :
         /\ r.kind = "online"
         /\ reads' = [reads EXCEPT ![d] = @ \ {r}]
         /\ Queue(d, OnlineWrites(r))
    BY DEF ProfileFetched
<1>2. UNCHANGED <<playing, entries, ops>>
    BY DEF ProfileFetched, server, bounds
<1> DEFINE g == r.game
           k == r.key
           ws == OnlineWrites(r)
<1>3. g \in Game /\ k \in Key
    BY DEF TypeOK, Read
<1>4. /\ ws \in Seq(Write) /\ DOMAIN ws = {1, 2}
      /\ ws[1] = Add(g, k) /\ ws[2] = Play(g)
    BY <1>3, WriteTypes DEF OnlineWrites
<1>5. /\ playing = NoGame /\ \A h \in Game : ~Queued(Play(h))
      /\ \A h \in Game : k \notin entries[h] /\ ~Queued(Drop(h, k))
      /\ ~Queued(Play(NoGame))
    BY <1>1 DEF OneByOne, OnlineAlone, Online, PlayChanges
<1>6. \A e \in Device : \A s \in reads'[e] :
         s \in reads[e] /\ s.kind # "online"
    BY <1>1 DEF TypeOK, OneByOne, OneRead
<1>7. \A e \in Device : \A s \in reads[e] : s.kind = "offline" => s \in reads'[e]
    BY <1>1 DEF TypeOK
<1>a. Queue(d, ws)
    BY <1>1
<1> HIDE DEF ws
<1>8. \A e \in Device : \A w :
         Queues(e, w)' <=> Queues(e, w) \/ (e = d /\ w \in {Add(g, k), Play(g)})
    BY <1>4, <1>a, QueueAppended
<1>9. \A w : Queued(w)' <=> Queued(w) \/ w \in {Add(g, k), Play(g)}
    BY <1>8 DEF Queued
<1>10. PICK L \in Nat : L = Len(outbox[d])
    BY DEF TypeOK
<1>11. /\ \A e \in Device : \A i \in DOMAIN outbox[e] :
             i \in DOMAIN outbox'[e] /\ outbox'[e][i] = outbox[e][i]
       /\ \A e \in Device : \A i \in DOMAIN outbox'[e] :
             \/ i \in DOMAIN outbox[e] /\ outbox'[e][i] = outbox[e][i]
             \/ e = d /\ i = L + 1 /\ outbox'[e][i] = Add(g, k)
             \/ e = d /\ i = L + 2 /\ outbox'[e][i] = Play(g)
       /\ L + 2 \in DOMAIN outbox'[d] /\ outbox'[d][L + 2] = Play(g)
    BY <1>4, <1>10, <1>a, QueueAppended
<1>12. \A e \in Device : \A i \in DOMAIN outbox[e] :
          outbox[e][i].op \notin {"play", "add"}
    <2> SUFFICES ASSUME NEW e \in Device, NEW i \in DOMAIN outbox[e],
                        outbox[e][i].op \in {"play", "add"}
                 PROVE  FALSE
        OBVIOUS
    <2>1. outbox[e][i] \in Write /\ Queued(outbox[e][i])
        BY DEF TypeOK, Queued, Queues
    <2>2. CASE \E h \in Game \cup {NoGame} : outbox[e][i] = Play(h)
        BY <1>5, <2>1, <2>2
    <2>3. ASSUME NEW h \in Game, NEW l \in Key, outbox[e][i] = Add(h, l)
          PROVE  FALSE
        <3>1. Queued(Play(h))
            BY <2>3 DEF OneByOne, AddBeforePlay, Queued, Queues
        <3> QED BY <1>5, <3>1
    <2> QED BY <2>1, <2>2, <2>3, Fields DEF Write
<1>13. OneRead'
    BY <1>6 DEF OneByOne, OneRead
<1>14. OneWrite'
    <2> SUFFICES ASSUME NEW e \in Device, NEW f \in Device,
                        NEW i \in DOMAIN outbox'[e], NEW j \in DOMAIN outbox'[f],
                        outbox'[e][i].op \in {"play", "add"},
                        outbox'[f][j].op = outbox'[e][i].op
                 PROVE  e = f /\ i = j
        BY DEF OneWrite
    <2> QED BY <1>11, <1>12, Fields
<1>15. PlayChanges'
    BY <1>2, <1>3, <1>5, <1>9, Fields, PresenceNoGame DEF PlayChanges, Add, Play
<1>16. AddBeforePlay'
    <2> SUFFICES ASSUME NEW e \in Device, NEW i \in DOMAIN outbox'[e],
                        NEW h \in Game, NEW l \in Key, outbox'[e][i] = Add(h, l)
                 PROVE  /\ l \notin entries'[h]
                        /\ \E j \in DOMAIN outbox'[e] :
                              i < j /\ outbox'[e][j] = Play(h)
        BY DEF AddBeforePlay
    <2>1. e = d /\ i = L + 1 /\ h = g /\ l = k
        <3>1. outbox'[e][i] = Add(g, k) /\ e = d /\ i = L + 1
            BY <1>11, <1>12, Fields
        <3>2. Add(h, l).game = h /\ Add(h, l).key = l
            BY Fields
        <3>3. Add(g, k).game = g /\ Add(g, k).key = k
            BY Fields
        <3> QED BY <3>1, <3>2, <3>3
    <2>2. L + 1 < L + 2
        OBVIOUS
    <2> QED BY <1>2, <1>5, <1>11, <2>1, <2>2
<1>17. AddBeforeDrop'
    <2> SUFFICES ASSUME NEW e \in Device, NEW f \in Device,
                        NEW i \in DOMAIN outbox'[e], NEW j \in DOMAIN outbox'[f],
                        NEW h \in Game, NEW l \in Key,
                        outbox'[e][i] = Add(h, l), outbox'[f][j] = Drop(h, l)
                 PROVE  FALSE
        BY DEF AddBeforeDrop
    <2>1. l = k
        <3>1. outbox'[e][i] = Add(g, k)
            BY <1>11, <1>12, Fields
        <3>2. Add(h, l).key = l /\ Add(g, k).key = k
            BY Fields
        <3> QED BY <3>1, <3>2
    <2>2. Queued(Drop(h, l))'
        BY DEF Queued, Queues
    <2>3. Queued(Drop(h, l))
        BY <1>9, <2>2, Fields
    <2> QED BY <1>5, <2>1, <2>3
<1>18. OnlineAlone'
    BY <1>6 DEF OnlineAlone, Online
<1>19. OfflineFinds'
    BY <1>2, <1>6, <1>9, Fields DEF OneByOne, OfflineFinds
<1>20. KeysMade'
    <2>1. k <= ops
        BY DEF OneByOne, KeysMade
    <2>2. \A h \in Game : \A l \in Key :
             Queued(Add(h, l))' \/ Queued(Drop(h, l))' => l <= ops
        <3> SUFFICES ASSUME NEW h \in Game, NEW l \in Key,
                            Queued(Add(h, l))' \/ Queued(Drop(h, l))'
                     PROVE  l <= ops
            OBVIOUS
        <3>1. \/ Queued(Add(h, l)) \/ Queued(Drop(h, l))
              \/ Add(h, l) = Add(g, k)
            BY <1>9, Fields
        <3>2. CASE Add(h, l) = Add(g, k)
            BY <2>1, <3>2, Fields
        <3> QED BY <3>1, <3>2 DEF OneByOne, KeysMade
    <2> QED BY <1>2, <1>6, <2>2 DEF OneByOne, KeysMade
<1>21. ASSUME NEW h \in Game PROVE Counted(h)'
    <2>1. Leaving(h)' <=> Leaving(h)
        BY <1>6, <1>7 DEF Leaving, Offline
    <2>2. ~WillPlay(h) /\ (WillPlay(h)' <=> h = g)
        <3>1. Queued(Play(h))' <=> h = g
            BY <1>5, <1>9, Fields
        <3>2. playing # h
            BY <1>5, PresenceNoGame
        <3> QED BY <1>2, <1>5, <3>1, <3>2 DEF WillPlay
    <2>3. h # g => Standing(h)' = Standing(h)
        <3>1. ASSUME h # g, NEW l \in Key
              PROVE  /\ Queued(Add(h, l))' <=> Queued(Add(h, l))
                     /\ Queued(Drop(h, l))' <=> Queued(Drop(h, l))
            <4>1. Add(h, l) # Add(g, k)
                BY <3>1, Fields
            <4> QED BY <1>9, <4>1, Fields
        <3> QED BY <1>2, <3>1 DEF Standing
    <2>4. h = g => Standing(h)' = Standing(h) \cup {k} /\ k \notin Standing(h)
        <3>1. ASSUME NEW l \in Key
              PROVE  /\ Queued(Add(g, l))' <=> Queued(Add(g, l)) \/ l = k
                     /\ Queued(Drop(g, l))' <=> Queued(Drop(g, l))
            <4>1. Add(g, l) = Add(g, k) <=> l = k
                BY Fields
            <4> QED BY <1>9, <4>1, Fields
        <3>2. ~Queued(Drop(g, k)) /\ k \notin entries[g] /\ ~Queued(Add(g, k))
            BY <1>3, <1>5, <1>12, Fields DEF Queued, Queues
        <3> QED BY <1>2, <1>3, <3>1, <3>2 DEF Standing
    <2>5. /\ ~Leaving(h) => Standing(h) = {}
          /\ Leaving(h) => \E l : Standing(h) = {l}
        BY <2>2 DEF OneByOne, Counted
    <2>6. CASE h # g
        BY <2>1, <2>2, <2>3, <2>5, <2>6 DEF Counted
    <2>7. CASE h = g
        <3>1. ~Leaving(h) => Standing(h)' = {k}
            BY <2>4, <2>5, <2>7
        <3>2. ASSUME NEW l, Standing(h) = {l}
              PROVE  l # k /\ Standing(h)' = {l, k}
            BY <2>4, <2>7, <3>2
        <3>3. Leaving(h) => \E l, m : l # m /\ Standing(h)' = {l, m}
            BY <2>5, <3>2
        <3> QED BY <2>1, <2>2, <2>7, <3>1, <3>3 DEF Counted
    <2> QED BY <2>6, <2>7
<1> QED BY <1>13, <1>14, <1>15, <1>16, <1>17, <1>18, <1>19, <1>20, <1>21
        DEF OneByOne

\* The user goes offline when nothing is under way: one entry, of the game shown.
LEMMA GoOfflineAgree ==
    ASSUME TypeOK, OneByOne, NEW d \in Device, GoOfflineForGame(d), ~disturbed'
    PROVE  OneByOne'
<1> DEFINE g == shown[d]
           r == [kind |-> "offline", game |-> g, key |-> ops']
           ws == << Play(NoGame) >>
<1>1. /\ g \in Game /\ playing = g /\ UNCHANGED <<playing, entries>>
      /\ \A e \in Device : reads[e] = {} /\ outbox[e] = <<>>
      /\ reads' = [reads EXCEPT ![d] = @ \cup {r}]
      /\ Queue(d, ws)
    BY DEF GoOfflineForGame, server, Unfinished, TypeOK
<1>2. ops' = ops + 1 /\ ops \in Nat /\ ops' \in Key
    BY StartType DEF GoOfflineForGame, Start, TypeOK
<1>3. \A e \in Device : \A s \in reads'[e] : e = d /\ s = r
    BY <1>1 DEF TypeOK
<1>4. r \in reads'[d]
    BY <1>1 DEF TypeOK
<1>5. r.kind = "offline" /\ r.key = ops' /\ r.game = g
    OBVIOUS
<1>6. ws \in Seq(Write) /\ DOMAIN ws = {1} /\ ws[1] = Play(NoGame)
    BY WriteTypes
<1> HIDE DEF r, ws
<1>7. \A e \in Device : \A w : ~Queues(e, w)
    BY <1>1 DEF Queues
<1>8. \A w : ~Queued(w)
    BY <1>7 DEF Queued
<1>9. \A e \in Device : \A w : Queues(e, w)' <=> e = d /\ w = Play(NoGame)
    BY <1>1, <1>6, <1>7, QueueAppended
<1>10. \A w : Queued(w)' <=> w = Play(NoGame)
    BY <1>9 DEF Queued
<1>11. \A e \in Device : \A i \in DOMAIN outbox'[e] :
          e = d /\ i = Len(outbox[d]) + 1 /\ outbox'[e][i] = Play(NoGame)
    BY <1>1, <1>6, QueueAppended
<1>12. OneRead' /\ OneWrite' /\ OnlineAlone'
    BY <1>3, <1>5, <1>11 DEF OneRead, OneWrite, OnlineAlone, Online
<1>13. \A h, k : Play(NoGame) # Add(h, k) /\ Play(NoGame) # Drop(h, k)
    BY Fields
<1>14. AddBeforePlay' /\ AddBeforeDrop'
    BY <1>11, <1>13 DEF AddBeforePlay, AddBeforeDrop
<1>15. \A h \in Game : Play(NoGame) # Play(h)
    BY Fields, PresenceNoGame
<1>16. PlayChanges'
    BY <1>1, <1>10, <1>15, PresenceNoGame DEF PlayChanges
<1>17. \A h \in Game : /\ Standing(h) = entries[h] /\ Standing(h)' = entries[h]
                       /\ WillPlay(h) <=> h = g
                       /\ ~WillPlay(h)'
                       /\ ~Leaving(h)
                       /\ Leaving(h)' <=> h = g
    <2>1. \A h \in Game : entries[h] \subseteq Key
        BY DEF TypeOK
    <2>2. \A h \in Game : Standing(h) = entries[h] /\ Standing(h)' = entries[h]
        BY <1>1, <1>8, <1>10, <1>13, <2>1 DEF Standing
    <2>3. \A h \in Game : (WillPlay(h) <=> h = g) /\ ~WillPlay(h)'
        BY <1>1, <1>8, <1>10, <1>15 DEF WillPlay
    <2>4. \A h \in Game : ~Leaving(h) /\ (Leaving(h)' <=> h = g)
        BY <1>1, <1>3, <1>4, <1>5 DEF Leaving, Offline
    <2> QED BY <2>2, <2>3, <2>4
<1>18. \A h \in Game : Counted(h)'
    BY <1>17 DEF OneByOne, Counted
<1>19. OfflineFinds'
    <2>1. entries[g] # {}
        <3>1. \E k : Standing(g) = {k}
            BY <1>1, <1>17 DEF OneByOne, Counted
        <3> QED BY <1>1, <1>17, <3>1
    <2> QED BY <1>1, <1>3, <1>5, <1>10, <1>13, <2>1 DEF OfflineFinds
<1>20. KeysMade'
    <2>1. \A h \in Game : \A k \in entries[h] : k <= ops'
        <3>1. \A h \in Game : \A k \in entries[h] : k <= ops /\ k \in Key
            BY DEF OneByOne, KeysMade, TypeOK
        <3> QED BY <1>2, <3>1 DEF Key
    <2>2. ops' <= ops'
        BY <1>2
    <2> QED BY <1>1, <1>3, <1>5, <1>10, <1>13, <2>1, <2>2 DEF KeysMade
<1> QED BY <1>12, <1>14, <1>16, <1>18, <1>19, <1>20 DEF OneByOne

\* The query finds an entry, of the game left or of the one just begun.
LEMMA EntryAgree ==
    ASSUME TypeOK, OneByOne, NEW d \in Device, EntryFound(d)
    PROVE  OneByOne'
<1>1. PICK r \in reads[d] :
         /\ r.kind = "offline"
         /\ reads' = [reads EXCEPT ![d] = @ \ {r}]
         /\ \/ EntriesAt(d, r.game) = {} /\ UNCHANGED outbox
            \/ \E k \in EntriesAt(d, r.game) : Queue(d, << Drop(r.game, k) >>)
    BY DEF EntryFound
<1>2. UNCHANGED <<playing, entries, ops>>
    BY DEF EntryFound, server, bounds
<1> DEFINE g == r.game
<1>3. g \in Game /\ \A h \in Game : entries[h] \subseteq Key
    BY DEF TypeOK, Read
<1>4. entries[g] # {} /\ \A h \in Game : \A l \in Key : ~Queued(Drop(h, l))
    BY <1>1 DEF OneByOne, OfflineFinds, Offline
<1>5. EntriesAt(d, g) # {}
    BY <1>3, <1>4 DEF EntriesAt, Queued, Queues
<1>6. PICK k \in EntriesAt(d, g) : Queue(d, << Drop(g, k) >>)
    BY <1>1, <1>5
<1> DEFINE ws == << Drop(g, k) >>
<1>7. k \in Key /\ (k \in entries[g] \/ Queues(d, Add(g, k)))
    BY DEF EntriesAt, Queues
<1>8. ws \in Seq(Write) /\ DOMAIN ws = {1} /\ ws[1] = Drop(g, k) /\ Queue(d, ws)
    BY <1>3, <1>6, <1>7, WriteTypes
<1> HIDE DEF ws
<1>9. \A e \in Device : \A w : Queues(e, w)' <=> Queues(e, w) \/ (e = d /\ w = Drop(g, k))
    BY <1>8, QueueAppended
<1>10. \A w : Queued(w)' <=> Queued(w) \/ w = Drop(g, k)
    BY <1>9 DEF Queued
<1>11. PICK L \in Nat : L = Len(outbox[d])
    BY DEF TypeOK
<1>12. /\ \A e \in Device : \A i \in DOMAIN outbox[e] :
             i \in DOMAIN outbox'[e] /\ outbox'[e][i] = outbox[e][i]
       /\ \A e \in Device : \A i \in DOMAIN outbox'[e] :
             \/ i \in DOMAIN outbox[e] /\ outbox'[e][i] = outbox[e][i]
             \/ e = d /\ i = L + 1 /\ outbox'[e][i] = Drop(g, k)
    BY <1>8, <1>11, QueueAppended
<1>13. /\ \A e \in Device : \A s \in reads'[e] : s \in reads[e] /\ s.kind # "offline"
       /\ \A e \in Device : \A s \in reads[e] : s.kind # "offline" => s \in reads'[e]
    BY <1>1 DEF TypeOK, OneByOne, OneRead
<1>14. OneRead'
    BY <1>13 DEF OneByOne, OneRead
<1>15. OneWrite'
    BY <1>12, Fields DEF OneByOne, OneWrite
<1>16. PlayChanges'
    BY <1>2, <1>10, Fields DEF OneByOne, PlayChanges
<1>17. AddBeforePlay'
    BY <1>2, <1>12, Fields DEF OneByOne, AddBeforePlay
<1>18. AddBeforeDrop'
    <2> SUFFICES ASSUME NEW e \in Device, NEW f \in Device,
                        NEW i \in DOMAIN outbox'[e], NEW j \in DOMAIN outbox'[f],
                        NEW h \in Game, NEW l \in Key,
                        outbox'[e][i] = Add(h, l), outbox'[f][j] = Drop(h, l)
                 PROVE  e = f /\ i < j
        BY DEF AddBeforeDrop
    <2>1. i \in DOMAIN outbox[e] /\ outbox[e][i] = Add(h, l)
        BY <1>12, Fields
    <2>2. f = d /\ j = L + 1 /\ h = g /\ l = k
        <3>1. ~(j \in DOMAIN outbox[f] /\ outbox'[f][j] = outbox[f][j])
            BY <1>4 DEF Queued, Queues
        <3>2. f = d /\ j = L + 1 /\ Drop(h, l) = Drop(g, k)
            BY <1>12, <3>1
        <3> QED BY <3>2, Fields
    <2>3. l \notin entries[h]
        BY <2>1 DEF OneByOne, AddBeforePlay
    <2>4. PICK m \in DOMAIN outbox[d] : outbox[d][m] = Add(g, k)
        BY <1>7, <2>2, <2>3 DEF Queues
    <2>5. e = d
        BY <2>1, <2>4, Fields DEF OneByOne, OneWrite
    <2>6. i < L + 1
        BY <1>11, <2>1, <2>5 DEF TypeOK
    <2> QED BY <2>2, <2>5, <2>6
<1>19. OnlineAlone'
    <2> SUFFICES ASSUME NEW e \in Device, NEW s \in reads'[e], s.kind = "online"
                 PROVE  /\ playing' = NoGame
                        /\ \A h \in Game : ~Queued(Play(h))'
                        /\ \A h \in Game : /\ s.key \notin entries'[h]
                                           /\ ~Queued(Drop(h, s.key))'
        BY DEF OnlineAlone, Online
    <2>1. /\ playing = NoGame
          /\ \A h \in Game : ~Queued(Play(h)) /\ s.key \notin entries[h]
          /\ \A h \in Game : ~Queued(Drop(h, s.key))
        BY <1>13 DEF OneByOne, OnlineAlone, Online
    <2>2. s.key # k
        <3>1. ~Queues(d, Add(g, k))
            <4>1. \A i \in DOMAIN outbox[d] : outbox[d][i] = Add(g, k) =>
                     Queued(Play(g))
                BY <1>3, <1>7 DEF OneByOne, AddBeforePlay, Queued, Queues
            <4> QED BY <1>3, <2>1, <4>1 DEF Queues
        <3> QED BY <1>3, <1>7, <2>1, <3>1
    <2>3. \A h \in Game : Drop(h, s.key) # Drop(g, k) /\ Play(h) # Drop(g, k)
        BY <2>2, Fields
    <2> QED BY <1>2, <1>10, <2>1, <2>3
<1>20. OfflineFinds'
    BY <1>13 DEF OfflineFinds, Offline
<1>21. KeysMade'
    <2>1. k <= ops
        BY <1>3, <1>7 DEF OneByOne, KeysMade, Queued
    <2>2. \A h \in Game : \A l \in Key :
             Queued(Add(h, l))' \/ Queued(Drop(h, l))' => l <= ops
        <3> SUFFICES ASSUME NEW h \in Game, NEW l \in Key,
                            Queued(Add(h, l))' \/ Queued(Drop(h, l))'
                     PROVE  l <= ops
            OBVIOUS
        <3>1. \/ Queued(Add(h, l)) \/ Queued(Drop(h, l))
              \/ Drop(h, l) = Drop(g, k)
            BY <1>10, Fields
        <3>2. CASE Drop(h, l) = Drop(g, k)
            BY <2>1, <3>2, Fields
        <3> QED BY <3>1, <3>2 DEF OneByOne, KeysMade
    <2> QED BY <1>2, <1>13, <2>2 DEF OneByOne, KeysMade
<1>22. ASSUME NEW h \in Game PROVE Counted(h)'
    <2>1. WillPlay(h)' <=> WillPlay(h)
        BY <1>2, <1>10, Fields DEF WillPlay
    <2>2. ~Leaving(h)' /\ (Leaving(h) <=> h = g)
        <3>1. ~Leaving(h)'
            BY <1>13 DEF Leaving, Offline
        <3>2. Leaving(g)
            BY <1>1 DEF Leaving, Offline
        <3>3. Leaving(h) => h = g
            BY <1>1 DEF Leaving, Offline, OneByOne, OneRead
        <3> QED BY <3>1, <3>2, <3>3
    <2>3. ASSUME NEW l \in Key
          PROVE  /\ Queued(Add(h, l))' <=> Queued(Add(h, l))
                 /\ Queued(Drop(h, l))' <=> h = g /\ l = k
        <3>1. Drop(h, l) = Drop(g, k) <=> h = g /\ l = k
            BY Fields
        <3> QED BY <1>4, <1>10, <3>1, Fields
    <2>4. Standing(h) = {l \in Key : l \in entries[h] \/ Queued(Add(h, l))}
        BY <1>4 DEF Standing
    <2>a. Standing(h)' = {l \in Key : /\ l \in entries[h] \/ Queued(Add(h, l))
                                      /\ ~(h = g /\ l = k)}
        <3>1. Standing(h)' \subseteq Key
            BY DEF Standing
        <3>2. \A l \in Key : l \in Standing(h)' <=>
                 /\ l \in entries'[h] \/ Queued(Add(h, l))'
                 /\ ~Queued(Drop(h, l))'
            BY DEF Standing
        <3>3. \A l \in Key : l \in Standing(h)' <=>
                 /\ l \in entries[h] \/ Queued(Add(h, l))
                 /\ ~(h = g /\ l = k)
            <4> SUFFICES ASSUME NEW l \in Key
                         PROVE  l \in Standing(h)' <=>
                                   /\ l \in entries[h] \/ Queued(Add(h, l))
                                   /\ ~(h = g /\ l = k)
                OBVIOUS
            <4>1. /\ Queued(Add(h, l))' <=> Queued(Add(h, l))
                  /\ Queued(Drop(h, l))' <=> h = g /\ l = k
                BY <2>3
            <4>2. entries' = entries
                BY <1>2
            <4> QED BY <3>2, <4>1, <4>2
        <3> QED BY <3>1, <3>3
    <2>5. CASE h # g
        <3>1. Standing(h)' = Standing(h)
            BY <2>4, <2>5, <2>a
        <3> QED BY <2>1, <2>2, <2>5, <3>1 DEF OneByOne, Counted
    <2>6. CASE h = g
        <3>1. Standing(h)' = Standing(h) \ {k}
            BY <2>4, <2>6, <2>a
        <3>2. k \in Standing(h)
            BY <1>7, <2>4, <2>6 DEF Queued
        <3>3. CASE WillPlay(h)
            <4>1. PICK l, m : l # m /\ Standing(h) = {l, m}
                BY <2>2, <2>6, <3>3 DEF OneByOne, Counted
            <4>2. Standing(h)' = {l} \/ Standing(h)' = {m}
                BY <3>1, <3>2, <4>1
            <4> QED BY <2>1, <2>2, <3>3, <4>2 DEF Counted
        <3>4. CASE ~WillPlay(h)
            <4>1. PICK l : Standing(h) = {l}
                BY <2>2, <2>6, <3>4 DEF OneByOne, Counted
            <4>2. Standing(h)' = {}
                BY <3>1, <3>2, <4>1
            <4> QED BY <2>1, <2>2, <3>4, <4>2 DEF Counted
        <3> QED BY <3>3, <3>4
    <2> QED BY <2>5, <2>6
<1> QED BY <1>14, <1>15, <1>16, <1>17, <1>18, <1>19, <1>20, <1>21, <1>22
        DEF OneByOne

\* The server applies a write: what will be there in the end stays the same.
LEMMA DeliverAgree ==
    ASSUME TypeOK, OneByOne, NEW d \in Device, Deliver(d)
    PROVE  OneByOne'
<1> DEFINE w == outbox[d][1]
<1>1. /\ 1 \in DOMAIN outbox[d] /\ w \in Write /\ Apply(w)
      /\ \A e \in Device : e # d => outbox'[e] = outbox[e]
      /\ \A i \in DOMAIN outbox'[d] :
            /\ i \in Nat /\ 0 < i /\ i + 1 \in DOMAIN outbox[d]
            /\ outbox'[d][i] = outbox[d][i + 1]
      /\ \A i \in DOMAIN outbox[d] : i \in Nat /\ 0 < i
      /\ \A i \in DOMAIN outbox[d] : i # 1 =>
            i - 1 \in DOMAIN outbox'[d] /\ outbox'[d][i - 1] = outbox[d][i]
      /\ \A e \in Device : \A v : Queues(e, v)' => Queues(e, v)
      /\ \A e \in Device : \A v :
            Queues(e, v) => Queues(e, v)' \/ (e = d /\ v = w)
    BY QueueDelivered
<1>2. UNCHANGED <<reads, ops>>
    BY DEF Deliver, bounds
<1>3. Queues(d, w) /\ Queued(w)
    BY <1>1 DEF Queues, Queued
<1> HIDE DEF w
<1>4. /\ \A v : Queued(v)' => Queued(v)
      /\ \A v : Queued(v) => Queued(v)' \/ v = w
    BY <1>1 DEF Queued
<1>5. \A g \in Game : entries[g] \subseteq Key
    BY DEF TypeOK
\* Nothing of the kind just applied is queued any more.
<1>6. w.op \in {"play", "add"} =>
         \A e \in Device : \A i \in DOMAIN outbox'[e] : outbox'[e][i].op # w.op
    <2> SUFFICES ASSUME w.op \in {"play", "add"}, NEW e \in Device,
                        NEW i \in DOMAIN outbox'[e], outbox'[e][i].op = w.op
                 PROVE  FALSE
        OBVIOUS
    <2>1. CASE e # d
        BY <1>1, <2>1 DEF OneByOne, OneWrite, w
    <2>2. CASE e = d
        <3>1. i + 1 \in DOMAIN outbox[d] /\ outbox[d][i + 1].op = w.op /\ i + 1 # 1
            BY <1>1, <2>2
        <3> QED BY <1>1, <3>1 DEF OneByOne, OneWrite, w
    <2> QED BY <2>1, <2>2
<1>7. OneRead'
    BY <1>2 DEF OneByOne, OneRead
<1>8. OneWrite'
    <2> SUFFICES ASSUME NEW e \in Device, NEW f \in Device,
                        NEW i \in DOMAIN outbox'[e], NEW j \in DOMAIN outbox'[f],
                        outbox'[e][i].op \in {"play", "add"},
                        outbox'[f][j].op = outbox'[e][i].op
                 PROVE  e = f /\ i = j
        BY DEF OneWrite
    <2> DEFINE before(c, n) == IF c = d THEN n + 1 ELSE n
    <2>1. /\ before(e, i) \in DOMAIN outbox[e]
          /\ outbox[e][before(e, i)] = outbox'[e][i]
        BY <1>1
    <2>2. /\ before(f, j) \in DOMAIN outbox[f]
          /\ outbox[f][before(f, j)] = outbox'[f][j]
        BY <1>1
    <2>3. e = f /\ before(e, i) = before(f, j)
        BY <2>1, <2>2 DEF OneByOne, OneWrite
    <2>4. CASE e = d
        BY <1>1, <2>3, <2>4
    <2>5. CASE e # d
        BY <2>3, <2>5
    <2> QED BY <2>3, <2>4, <2>5
<1>9. AddBeforeDrop'
    <2> SUFFICES ASSUME NEW e \in Device, NEW f \in Device,
                        NEW i \in DOMAIN outbox'[e], NEW j \in DOMAIN outbox'[f],
                        NEW h \in Game, NEW l \in Key,
                        outbox'[e][i] = Add(h, l), outbox'[f][j] = Drop(h, l)
                 PROVE  e = f /\ i < j
        BY DEF AddBeforeDrop
    <2> DEFINE before(c, n) == IF c = d THEN n + 1 ELSE n
    <2>1. /\ before(e, i) \in DOMAIN outbox[e]
          /\ outbox[e][before(e, i)] = Add(h, l)
        BY <1>1
    <2>2. /\ before(f, j) \in DOMAIN outbox[f]
          /\ outbox[f][before(f, j)] = Drop(h, l)
        BY <1>1
    <2>3. e = f /\ before(e, i) < before(f, j)
        BY <2>1, <2>2 DEF OneByOne, AddBeforeDrop
    <2>4. CASE e = d
        BY <1>1, <2>3, <2>4
    <2>5. CASE e # d
        BY <2>3, <2>5
    <2> QED BY <2>3, <2>4, <2>5
<1>10. AddBeforePlay'
    <2> SUFFICES ASSUME NEW e \in Device, NEW i \in DOMAIN outbox'[e],
                        NEW h \in Game, NEW l \in Key, outbox'[e][i] = Add(h, l)
                 PROVE  /\ l \notin entries'[h]
                        /\ \E j \in DOMAIN outbox'[e] :
                              i < j /\ outbox'[e][j] = Play(h)
        BY DEF AddBeforePlay
    <2>1. l \notin entries'[h]
        <3>1. Queues(e, Add(h, l))
            BY <1>1 DEF Queues
        <3>2. l \notin entries[h]
            BY <3>1 DEF OneByOne, AddBeforePlay, Queues
        <3>3. w # Add(h, w.key)
            BY <1>6, Fields
        <3> QED BY <1>1, <3>2, <3>3 DEF Apply
    <2>2. CASE e # d
        BY <1>1, <2>1, <2>2 DEF OneByOne, AddBeforePlay
    <2>3. CASE e = d
        <3>1. i + 1 \in DOMAIN outbox[d] /\ outbox[d][i + 1] = Add(h, l) /\ i \in Nat
            BY <1>1, <2>3
        <3>2. PICK j \in DOMAIN outbox[d] : i + 1 < j /\ outbox[d][j] = Play(h)
            BY <3>1 DEF OneByOne, AddBeforePlay
        <3>3. j # 1 /\ i < j - 1
            BY <1>1, <3>1, <3>2
        <3>4. j - 1 \in DOMAIN outbox'[d] /\ outbox'[d][j - 1] = Play(h)
            BY <1>1, <3>2, <3>3
        <3> QED BY <2>1, <2>3, <3>3, <3>4
    <2> QED BY <2>2, <2>3
<1>11. KeysMade'
    <2>1. \A h \in Game : \A k \in entries'[h] : k <= ops
        <3> SUFFICES ASSUME NEW h \in Game, NEW k \in entries'[h] PROVE k <= ops
            OBVIOUS
        <3>1. k \in entries[h] \/ w = Add(h, k)
            <4>1. CASE w = Add(h, w.key)
                BY <1>1, <4>1 DEF Apply
            <4>2. CASE w # Add(h, w.key)
                BY <1>1, <4>2 DEF Apply
            <4> QED BY <4>1, <4>2
        <3>2. w = Add(h, k) => k \in Key
            BY <1>1, WriteFields, Fields
        <3> QED BY <1>3, <3>1, <3>2 DEF OneByOne, KeysMade
    <2> QED BY <1>2, <1>4, <2>1 DEF OneByOne, KeysMade
\* What is queued besides w stays, and w goes if nothing of its kind is left.
<1>12. ASSUME NEW v, v # w PROVE Queued(v)' <=> Queued(v)
    BY <1>4, <1>12
<1>13. w.op \in {"play", "add"} => \A v : v.op = w.op => ~Queued(v)'
    BY <1>6 DEF Queued, Queues
<1>14. w.op \in {"play", "add"} => \A v : v.op = w.op /\ Queued(v) => v = w
    BY <1>4, <1>13
\* It is enough that the entries to come are the same.
<1>15. ASSUME NEW h \in Game,
              \A l \in Key :
                 (/\ l \in entries'[h] \/ Queued(Add(h, l))'
                  /\ ~Queued(Drop(h, l))')
                 <=> (/\ l \in entries[h] \/ Queued(Add(h, l))
                      /\ ~Queued(Drop(h, l))),
              WillPlay(h)' <=> WillPlay(h)
       PROVE  Counted(h)'
    <2>1. Standing(h)' = Standing(h)
        <3>1. Standing(h)' \subseteq Key /\ Standing(h) \subseteq Key
            BY DEF Standing
        <3>2. \A l \in Key : l \in Standing(h)' <=>
                 /\ l \in entries'[h] \/ Queued(Add(h, l))'
                 /\ ~Queued(Drop(h, l))'
            BY DEF Standing
        <3>3. \A l \in Key : l \in Standing(h) <=>
                 /\ l \in entries[h] \/ Queued(Add(h, l))
                 /\ ~Queued(Drop(h, l))
            BY DEF Standing
        <3> QED BY <1>15, <3>1, <3>2, <3>3
    <2>2. Leaving(h)' <=> Leaving(h)
        BY <1>2 DEF Leaving
    <2> QED BY <1>15, <2>1, <2>2 DEF OneByOne, Counted
<1>16. ASSUME NEW x \in Game \cup {NoGame}, w = Play(x)
       PROVE  PlayChanges' /\ OnlineAlone' /\ OfflineFinds' /\ \A h \in Game : Counted(h)'
    <2>1. w.op = "play" /\ w.game = x
        BY <1>16, Fields
    <2>2. playing' = x /\ \A h \in Game : entries'[h] = entries[h]
        <3>1. \A h \in Game : w # Add(h, w.key) /\ w # Drop(h, w.key)
            BY <2>1, Fields
        <3> QED BY <1>1, <2>1, <3>1 DEF Apply
    <2>3. \A y : ~Queued(Play(y))'
        BY <1>13, <2>1, Fields
    <2>4. \A y : Queued(Play(y)) <=> y = x
        BY <1>3, <1>14, <1>16, <2>1, Fields
    <2>5. \A h, l : /\ Queued(Add(h, l))' <=> Queued(Add(h, l))
                    /\ Queued(Drop(h, l))' <=> Queued(Drop(h, l))
        BY <1>12, <2>1, Fields
    <2>6. \A e \in Device : \A r \in reads[e] : ~Online(r)
        BY <2>4 DEF OneByOne, OnlineAlone, PlayChanges
    <2>7. PlayChanges' /\ OnlineAlone'
        BY <1>2, <2>3, <2>6 DEF PlayChanges, OnlineAlone, Online
    <2>8. OfflineFinds'
        <3>1. \A e \in Device : \A r \in reads[e] : r.game \in Game
            BY DEF TypeOK, Read
        <3> QED BY <1>2, <2>2, <2>5, <3>1 DEF OneByOne, OfflineFinds, Offline
    <2>9. ASSUME NEW h \in Game PROVE WillPlay(h)' <=> WillPlay(h)
        <3>1. WillPlay(h)' <=> x = h
            BY <2>2, <2>3 DEF WillPlay
        <3>2. WillPlay(h) <=> x = h
            <4>1. CASE x = NoGame
                BY <2>4, <4>1, PresenceNoGame DEF WillPlay
            <4>2. CASE x \in Game
                <5>1. playing = NoGame
                    BY <2>4, <4>2 DEF OneByOne, PlayChanges
                <5> QED BY <2>4, <5>1, PresenceNoGame DEF WillPlay
            <4> QED BY <4>1, <4>2
        <3> QED BY <3>1, <3>2
    <2>10. \A h \in Game : Counted(h)'
        BY <1>15, <2>2, <2>5, <2>9
    <2> QED BY <2>7, <2>8, <2>10
<1>17. ASSUME NEW g \in Game, NEW k \in Key, w = Add(g, k)
       PROVE  PlayChanges' /\ OnlineAlone' /\ OfflineFinds' /\ \A h \in Game : Counted(h)'
    <2>1. w.op = "add" /\ w.key = k
        BY <1>17, Fields
    <2>2. \A h : w = Add(h, w.key) <=> h = g
        BY <1>17, Fields
    <2>3. /\ playing' = playing
          /\ \A h \in Game :
                entries'[h] = IF h = g THEN entries[h] \cup {k} ELSE entries[h]
        <3>1. \A h : w # Drop(h, w.key)
            BY <2>1, Fields
        <3> QED BY <1>1, <2>1, <2>2, <3>1 DEF Apply
    <2>4. \A h, l : ~Queued(Add(h, l))'
        BY <1>13, <2>1, Fields
    <2>5. \A h, l : Queued(Add(h, l)) <=> h = g /\ l = k
        <3> SUFFICES ASSUME NEW h, NEW l
                     PROVE  Queued(Add(h, l)) <=> h = g /\ l = k
            OBVIOUS
        <3>1. Add(h, l).op = "add" /\ Add(h, l).game = h /\ Add(h, l).key = l
            BY Fields
        <3>2. Add(g, k).game = g /\ Add(g, k).key = k
            BY Fields
        <3>3. Queued(Add(h, l)) => Add(h, l) = Add(g, k)
            BY <1>14, <1>17, <2>1, <3>1
        <3> QED BY <1>3, <1>17, <3>1, <3>2, <3>3
    <2>6. \A h, l : /\ Queued(Play(h))' <=> Queued(Play(h))
                    /\ Queued(Drop(h, l))' <=> Queued(Drop(h, l))
        BY <1>12, <2>1, Fields
    <2>7. PlayChanges'
        BY <2>3, <2>6 DEF OneByOne, PlayChanges
    <2>8. \A e \in Device : \A r \in reads[e] : ~Online(r)
        <3>1. Queued(Play(g))
            BY <1>3, <1>17 DEF OneByOne, AddBeforePlay, Queued, Queues
        <3> QED BY <3>1 DEF OneByOne, OnlineAlone
    <2>9. OnlineAlone'
        BY <1>2, <2>8 DEF OnlineAlone, Online
    <2>10. OfflineFinds'
        <3>1. \A e \in Device : \A r \in reads[e] : r.game \in Game
            BY DEF TypeOK, Read
        <3>2. \A h \in Game : entries[h] \subseteq entries'[h]
            BY <2>3
        <3> QED BY <1>2, <2>6, <3>1, <3>2 DEF OneByOne, OfflineFinds, Offline
    <2>11. ASSUME NEW h \in Game PROVE WillPlay(h)' <=> WillPlay(h)
        BY <2>3, <2>6 DEF WillPlay
    <2>12. \A h \in Game : \A l \in Key :
              l \in entries'[h] <=> l \in entries[h] \/ (h = g /\ l = k)
        BY <2>3
    <2>13. \A h \in Game : Counted(h)'
        BY <1>15, <2>4, <2>5, <2>6, <2>11, <2>12
    <2> QED BY <2>7, <2>9, <2>10, <2>13
<1>18. ASSUME NEW g \in Game, NEW k \in Key, w = Drop(g, k)
       PROVE  PlayChanges' /\ OnlineAlone' /\ OfflineFinds' /\ \A h \in Game : Counted(h)'
    <2>1. w.op = "drop" /\ w.key = k
        BY <1>18, Fields
    <2>2. \A h : w = Drop(h, w.key) <=> h = g
        BY <1>18, Fields
    <2>3. /\ playing' = playing
          /\ \A h \in Game :
                entries'[h] = IF h = g THEN entries[h] \ {k} ELSE entries[h]
        <3>1. \A h : w # Add(h, w.key)
            BY <2>1, Fields
        <3> QED BY <1>1, <2>1, <2>2, <3>1 DEF Apply
    <2>4. \A h, l : /\ Queued(Play(h))' <=> Queued(Play(h))
                    /\ Queued(Add(h, l))' <=> Queued(Add(h, l))
        BY <1>12, <2>1, Fields
    <2>5. \A h, l : ~(h = g /\ l = k) => (Queued(Drop(h, l))' <=> Queued(Drop(h, l)))
        <3> SUFFICES ASSUME NEW h, NEW l, ~(h = g /\ l = k)
                     PROVE  Queued(Drop(h, l))' <=> Queued(Drop(h, l))
            OBVIOUS
        <3>1. Drop(h, l) # Drop(g, k)
            BY Fields
        <3> QED BY <1>12, <1>18, <3>1
    <2>6. Queued(Drop(g, k)) /\ ~Queued(Add(g, k))
        <3>1. Queued(Drop(g, k))
            BY <1>3, <1>18
        <3>2. \A e \in Device : \A i \in DOMAIN outbox[e] :
                 outbox[e][i] = Add(g, k) => e = d /\ i < 1
            BY <1>1, <1>18 DEF OneByOne, AddBeforeDrop, w
        <3>3. \A e \in Device : \A i \in DOMAIN outbox[e] : outbox[e][i] # Add(g, k)
            BY <1>1, <3>2
        <3> QED BY <3>1, <3>3 DEF Queued, Queues
    <2>7. PlayChanges'
        BY <2>3, <2>4 DEF OneByOne, PlayChanges
    <2>8. OnlineAlone'
        <3>1. \A h \in Game : entries'[h] \subseteq entries[h]
            BY <2>3
        <3> QED BY <1>2, <1>4, <2>3, <2>4, <3>1 DEF OneByOne, OnlineAlone, Online
    <2>9. \A e \in Device : \A r \in reads[e] : ~Offline(r)
        BY <2>6 DEF OneByOne, OfflineFinds
    <2>10. OfflineFinds'
        BY <1>2, <2>9 DEF OfflineFinds, Offline
    <2>11. ASSUME NEW h \in Game PROVE WillPlay(h)' <=> WillPlay(h)
        BY <2>3, <2>4 DEF WillPlay
    <2>12. \A h \in Game : \A l \in Key :
              l \in entries'[h] <=> l \in entries[h] /\ ~(h = g /\ l = k)
        BY <2>3
    <2>13. \A h \in Game : Counted(h)'
        BY <1>15, <2>4, <2>5, <2>6, <2>11, <2>12
    <2> QED BY <2>7, <2>8, <2>10, <2>13
<1>19. PlayChanges' /\ OnlineAlone' /\ OfflineFinds' /\ \A h \in Game : Counted(h)'
    BY <1>1, <1>16, <1>17, <1>18 DEF Write
<1> QED BY <1>7, <1>8, <1>9, <1>10, <1>11, <1>19 DEF OneByOne

LEMMA AgreeStep ==
    ASSUME TypeOK, AgreeInv, [Next]_vars
    PROVE  AgreeInv'
<1> SUFFICES ASSUME ~disturbed' PROVE OneByOne'
    BY DEF AgreeInv
<1>0. disturbed \in BOOLEAN
    BY DEF TypeOK
<1>1. ASSUME NEW d \in Device,
             \/ ObserveCurrentGame(d) \/ FetchAllGames(d) \/ ShowLateGame(d)
             \/ GoOnlineTapped(d) \/ CancelChoice(d)
      PROVE  OneByOne'
    <2>1. ~disturbed /\ ops' = ops
          /\ UNCHANGED <<playing, entries, outbox, reads>>
        BY <1>1 DEF ObserveCurrentGame, FetchAllGames, ShowLateGame,
                    GoOnlineTapped, CancelChoice, server, bounds
    <2> QED BY <2>1, QuietAgree DEF AgreeInv
<1>2. ASSUME NEW d \in Device, NEW g \in Game, GoOnlineForGame(d, g)
      PROVE  OneByOne'
    <2>1. ~disturbed
        BY <1>2 DEF GoOnlineForGame
    <2> QED BY <1>2, <2>1, GoOnlineAgree DEF AgreeInv
<1>3. ASSUME NEW d \in Device, ProfileFetched(d) PROVE OneByOne'
    <2>1. disturbed' = disturbed
        BY <1>3 DEF ProfileFetched
    <2> QED BY <1>3, <2>1, ProfileAgree DEF AgreeInv
<1>4. ASSUME NEW d \in Device, GoOfflineForGame(d) PROVE OneByOne'
    <2>1. ~disturbed
        BY <1>4 DEF GoOfflineForGame
    <2> QED BY <1>4, <2>1, GoOfflineAgree DEF AgreeInv
<1>5. ASSUME NEW d \in Device, EntryFound(d) PROVE OneByOne'
    <2>1. disturbed' = disturbed
        BY <1>5 DEF EntryFound
    <2> QED BY <1>5, <2>1, EntryAgree DEF AgreeInv
<1>6. ASSUME NEW d \in Device, Deliver(d) PROVE OneByOne'
    BY <1>6, DeliverAgree DEF AgreeInv, Deliver
<1>7. ASSUME NEW d \in Device, Crash(d) PROVE OneByOne'
    <2>1. ~disturbed /\ reads[d] = {} /\ outbox[d] = <<>>
        BY <1>7 DEF Crash
    <2>2. UNCHANGED <<playing, entries, outbox, reads>> /\ ops' = ops
        BY <1>7, <2>1 DEF Crash, TypeOK, server
    <2> QED BY <2>1, <2>2, QuietAgree DEF AgreeInv
<1>8. ASSUME NEW d \in Device, ProfileOfNoUse(d) PROVE OneByOne'
    <2>1. disturbed' = disturbed
        BY <1>8 DEF ProfileOfNoUse
    <2> QED BY <1>8, <2>1, NoUseAgree DEF AgreeInv
<1>9. CASE UNCHANGED vars
    BY <1>9, QuietAgree DEF vars, server, bounds, AgreeInv
<1> QED BY <1>1, <1>2, <1>3, <1>4, <1>5, <1>6, <1>7, <1>8, <1>9 DEF Next

LEMMA AgreeInit == Init => AgreeInv
<1> SUFFICES ASSUME Init PROVE OneByOne
    BY DEF AgreeInv
<1>1. \A d \in Device : outbox[d] = <<>> /\ reads[d] = {}
    BY DEF Init
<1>2. \A w : ~Queued(w)
    BY <1>1 DEF Queued, Queues
<1>3. OneRead /\ OneWrite /\ AddBeforePlay /\ AddBeforeDrop
    BY <1>1 DEF OneRead, OneWrite, AddBeforePlay, AddBeforeDrop
<1>4. PlayChanges /\ OnlineAlone /\ OfflineFinds
    BY <1>1, <1>2 DEF PlayChanges, OnlineAlone, OfflineFinds
<1>5. KeysMade
    BY <1>1, <1>2 DEF KeysMade, Init
<1>6. \A g \in Game : Counted(g)
    <2>1. \A g \in Game : Standing(g) = {} /\ ~WillPlay(g) /\ ~Leaving(g)
        BY <1>1, <1>2, PresenceNoGame DEF Init, Standing, WillPlay, Leaving
    <2> QED BY <2>1 DEF Counted
<1> QED BY <1>3, <1>4, <1>5, <1>6 DEF OneByOne

\* Once nothing is under way the profile and the search agree, if no step but
\* going online again was taken before an earlier one was through: one entry for
\* the game played, none for any other (goOnlineForGame, goOfflineForGame).
THEOREM ProfileAndSearchAgree == Spec => []PresenceAgrees
<1>1. TypeOK /\ AgreeInv => PresenceAgrees
    <2> SUFFICES ASSUME TypeOK, AgreeInv, ~Unfinished, ~disturbed, NEW g \in Game
                 PROVE  Cardinality(entries[g]) = IF playing = g THEN 1 ELSE 0
        BY DEF PresenceAgrees
    <2>1. \A d \in Device : reads[d] = {} /\ outbox[d] = <<>>
        BY DEF Unfinished
    <2>2. \A w : ~Queued(w)
        BY <2>1 DEF Queued, Queues
    <2>3. Standing(g) = entries[g] /\ ~Leaving(g) /\ (WillPlay(g) <=> playing = g)
        <3>1. entries[g] \subseteq Key
            BY DEF TypeOK
        <3> QED BY <2>1, <2>2, <3>1 DEF Standing, Leaving, WillPlay
    <2>4. CASE playing = g
        <3>1. PICK k : entries[g] = {k}
            BY <2>3, <2>4 DEF AgreeInv, OneByOne, Counted
        <3> QED BY <2>4, <3>1, FS_Singleton
    <2>5. CASE playing # g
        <3>1. entries[g] = {}
            BY <2>3, <2>5 DEF AgreeInv, OneByOne, Counted
        <3> QED BY <2>5, <3>1, FS_EmptySet
    <2> QED BY <2>4, <2>5
<1> QED BY <1>1, TypeInit, TypeStep, AgreeInit, AgreeStep, PTL DEF Spec
==============================================================================
