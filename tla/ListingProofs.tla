----------------------------- MODULE ListingProofs -----------------------------
(***************************************************************************)
(* Proofs about Listing, for every catalogue, set of regions and devices,  *)
(* and any number of edits.                                                *)
(***************************************************************************)
EXTENDS Listing, FiniteSetTheorems, SequenceTheorems, WellFoundedInduction,
        TLAPS

(* Places and writes *)

LEMMA PlacesApart ==
    /\ RegionAt \in Place /\ GamesAt \in Place /\ RegionAt # GamesAt
    /\ \A g \in Game : \A k \in Key :
          /\ EntryAt(g, k) \in Place
          /\ EntryAt(g, k) # RegionAt /\ EntryAt(g, k) # GamesAt
          /\ \A h \in Game : \A l \in Key :
                EntryAt(g, k) = EntryAt(h, l) => g = h /\ k = l
<1>1. RegionAt \in Place /\ GamesAt \in Place
    BY DEF Place
<1>2. RegionAt # GamesAt
    <2>1. RegionAt[1] = "region" /\ GamesAt[1] = "games"
        BY DEF RegionAt, GamesAt
    <2> QED BY <2>1
<1>3. ASSUME NEW g \in Game, NEW k \in Key
      PROVE  /\ EntryAt(g, k) \in Place
             /\ EntryAt(g, k) # RegionAt /\ EntryAt(g, k) # GamesAt
    <2>1. EntryAt(g, k)[1] = "entry" /\ RegionAt[1] = "region" /\ GamesAt[1] = "games"
        BY DEF EntryAt, RegionAt, GamesAt
    <2>2. EntryAt(g, k) \in Place
        BY DEF Place
    <2> QED BY <2>1, <2>2
<1>4. ASSUME NEW g \in Game, NEW k \in Key, NEW h \in Game, NEW l \in Key,
             EntryAt(g, k) = EntryAt(h, l)
      PROVE  g = h /\ k = l
    BY <1>4 DEF EntryAt
<1> QED BY <1>1, <1>2, <1>3, <1>4

LEMMA ValuesOf ==
    /\ Values(RegionAt) = Region /\ Values(GamesAt) = Games
    /\ \A g \in Game : \A k \in Key :
          Values(EntryAt(g, k)) = Region \cup {NoRegion}
BY PlacesApart DEF Values

LEMMA PutType ==
    ASSUME NEW p \in Place, NEW v \in Values(p)
    PROVE  Put(p, v) \in Write /\ Put(p, v).place = p /\ Put(p, v).value = v
<1>1. v \in Value
    BY DEF Value
<1>2. Put(p, v) \in [place : Place, value : Value]
    BY <1>1 DEF Put
<1>3. Put(p, v).place = p /\ Put(p, v).value = v
    BY DEF Put
<1> QED BY <1>2, <1>3 DEF Write

LEMMA WriteType ==
    ASSUME NEW w \in Write
    PROVE  w.place \in Place /\ w.value \in Value /\ w.value \in Values(w.place)
BY DEF Write

(* What is under a queue *)

\* A set of numbers has a smallest one, a bounded one a largest one.
LEMMA Smallest ==
    ASSUME NEW S \in SUBSET Nat, S # {}
    PROVE  \E x \in S : \A y \in S : x <= y
<1>1. \E x \in S : \A y \in S : ~(<<y, x>> \in OpToRel(<, Nat))
    BY NatLessThanWellFounded, WFMin, Zenon
<1>2. PICK x \in S : \A y \in S : ~(<<y, x>> \in OpToRel(<, Nat))
    BY <1>1
<1>3. \A y \in S : ~(y < x)
    BY <1>2 DEF OpToRel
<1> QED BY <1>3

LEMMA LatestIn ==
    ASSUME NEW n \in Nat, NEW S \in SUBSET (1..n), S # {}
    PROVE  Latest(S) \in S /\ \A j \in S : j <= Latest(S)
<1> DEFINE U == {k \in Nat : \A j \in S : j <= k}
<1>1. U \in SUBSET Nat /\ n \in U
    OBVIOUS
<1>2. PICK k \in U : \A y \in U : k <= y
    BY <1>1, Smallest
<1>3. k \in S
    <2> SUFFICES ASSUME k \notin S PROVE FALSE
        OBVIOUS
    <2>1. PICK j \in S : TRUE
        OBVIOUS
    <2>2. k \in Nat /\ j <= k /\ j >= 1
        BY <1>2
    <2>3. k - 1 \in U
        BY <1>2, <2>2
    <2> QED BY <1>2, <2>2, <2>3
<1>4. \E i \in S : \A j \in S : j <= i
    BY <1>2, <1>3
<1> QED BY <1>4 DEF Latest

LEMMA LatestIs ==
    ASSUME NEW n \in Nat, NEW S \in SUBSET (1..n), NEW i \in S,
           \A j \in S : j <= i
    PROVE  Latest(S) = i
<1>1. Latest(S) \in S /\ \A j \in S : j <= Latest(S)
    BY LatestIn
<1>2. PICK k \in S : k = Latest(S) /\ i <= k /\ k <= i
    BY <1>1
<1>3. k \in 1..n /\ i \in 1..n
    OBVIOUS
<1> QED BY <1>2, <1>3

LEMMA AfterNone ==
    ASSUME NEW data, NEW q, NEW p
    PROVE  After(data, q, 0, p) = data[p]
<1>1. Touching(q, 0, p) = {}
    BY DEF Touching
<1> QED BY <1>1 DEF After

\* The last write of a place is what is seen there ...
LEMMA AfterLast ==
    ASSUME NEW data, NEW q, NEW n \in Nat, NEW p, NEW i \in 1..n,
           q[i].place = p, \A j \in (i + 1)..n : q[j].place # p
    PROVE  After(data, q, n, p) = q[i].value
<1> DEFINE T == Touching(q, n, p)
<1>1. T \in SUBSET (1..n) /\ i \in T
    BY DEF Touching
<1>2. \A j \in T : j <= i
    BY DEF Touching
<1> HIDE DEF T
<1>3. Latest(T) = i
    BY <1>1, <1>2, LatestIs
<1> QED BY <1>1, <1>3 DEF After, T

LEMMA AfterEnd ==
    ASSUME NEW data, NEW q, NEW n \in Nat, n > 0, NEW p, q[n].place = p
    PROVE  After(data, q, n, p) = q[n].value
<1> DEFINE T == Touching(q, n, p)
<1>1. n \in 1..n
    OBVIOUS
<1>2. T \in SUBSET (1..n) /\ n \in T /\ \A j \in T : j <= n
    BY <1>1 DEF Touching
<1> HIDE DEF T
<1>3. Latest(T) = n
    BY <1>2, LatestIs
<1> QED BY <1>2, <1>3 DEF After, T

\* ... and writes of other places change nothing.
LEMMA AfterSame ==
    ASSUME NEW data, NEW q, NEW r, NEW n \in Nat, NEW m \in Nat, NEW p, n <= m,
           \A i \in 1..n : r[i] = q[i],
           \A i \in (n + 1)..m : r[i].place # p
    PROVE  After(data, r, m, p) = After(data, q, n, p)
<1>1. Touching(r, m, p) = Touching(q, n, p)
    <2>1. ASSUME NEW i \in 1..m PROVE i \in 1..n \/ i \in (n + 1)..m
        OBVIOUS
    <2>2. \A i \in 1..n : i \in 1..m
        OBVIOUS
    <2> QED BY <2>1, <2>2 DEF Touching
<1>2. CASE Touching(q, n, p) = {}
    BY <1>1, <1>2 DEF After
<1>3. CASE Touching(q, n, p) # {}
    <2> DEFINE T == Touching(q, n, p)
    <2>1. T \in SUBSET (1..n) /\ T # {}
        BY <1>3 DEF Touching
    <2> HIDE DEF T
    <2>2. Latest(T) \in 1..n
        BY <2>1, LatestIn
    <2>3. r[Latest(T)] = q[Latest(T)]
        BY <2>2
    <2> QED BY <1>1, <1>3, <2>3 DEF After, T
<1> QED BY <1>2, <1>3

\* A place holds a write of it, or what the data has.
LEMMA AfterWritten ==
    ASSUME NEW data, NEW q, NEW n \in Nat, NEW p
    PROVE  \/ After(data, q, n, p) = data[p]
           \/ \E i \in 1..n :
                 q[i].place = p /\ After(data, q, n, p) = q[i].value
<1> DEFINE T == Touching(q, n, p)
<1>1. T \in SUBSET (1..n) /\ \A i \in T : q[i].place = p
    BY DEF Touching
<1>2. CASE T = {}
    BY <1>2 DEF After
<1>3. CASE T # {}
    <2> HIDE DEF T
    <2>1. Latest(T) \in T
        BY <1>1, <1>3, LatestIn
    <2>2. After(data, q, n, p) = q[Latest(T)].value
        BY <1>3 DEF After, T
    <2> QED BY <1>1, <2>1, <2>2
<1> QED BY <1>2, <1>3

LEMMA AfterType ==
    ASSUME NEW data, NEW q \in Seq(Write), NEW n \in 0..Len(q), NEW p \in Place,
           data[p] \in Values(p)
    PROVE  After(data, q, n, p) \in Values(p)
<1>1. \A i \in 1..n : q[i] \in Write
    OBVIOUS
<1> QED BY <1>1, AfterWritten, WriteType

LEMMA TailElements ==
    ASSUME NEW S, NEW q \in Seq(S), q # <<>>
    PROVE  /\ Len(q) \in Nat /\ Len(q) > 0 /\ Head(q) = q[1]
           /\ Tail(q) \in Seq(S) /\ Len(Tail(q)) = Len(q) - 1
           /\ \A k \in 1..(Len(q) - 1) : Tail(q)[k] = q[k + 1]
<1>1. Len(q) \in Nat /\ Len(q) > 0 /\ Head(q) = q[1]
    OBVIOUS
<1>2. Tail(q) \in Seq(S) /\ Len(Tail(q)) = Len(q) - 1
    BY <1>1
<1>3. ASSUME NEW k \in 1..(Len(q) - 1) PROVE Tail(q)[k] = q[k + 1]
    BY <1>1
<1> QED BY <1>1, <1>2, <1>3

\* The server applying the first write of a queue moves all of it by one.
LEMMA AfterTail ==
    ASSUME NEW data, NEW new, NEW q \in Seq(Write), q # <<>>,
           NEW n \in 0..(Len(q) - 1), NEW p,
           new[p] = IF q[1].place = p THEN q[1].value ELSE data[p]
    PROVE  After(new, Tail(q), n, p) = After(data, q, n + 1, p)
<1>1. /\ n \in Nat /\ n + 1 \in Nat /\ n + 1 <= Len(q) /\ Len(q) \in Nat
      /\ \A k \in 1..n : Tail(q)[k] = q[k + 1]
    BY TailElements
<1> DEFINE T == Touching(Tail(q), n, p)
           U == Touching(q, n + 1, p)
<1>2. /\ T \in SUBSET (1..n) /\ U \in SUBSET (1..(n + 1))
      /\ \A i \in 1..n : i \in T <=> i + 1 \in U
      /\ 1 \in U <=> q[1].place = p
    BY <1>1 DEF Touching
<1>3. After(new, Tail(q), n, p) = IF T = {} THEN new[p] ELSE Tail(q)[Latest(T)].value
    BY DEF After
<1>4. After(data, q, n + 1, p) = IF U = {} THEN data[p] ELSE q[Latest(U)].value
    BY DEF After
<1> HIDE DEF T, U
<1>5. \A j \in U : j = 1 \/ (j - 1 \in T /\ j - 1 \in 1..n)
    <2> SUFFICES ASSUME NEW j \in U, j # 1 PROVE j - 1 \in T /\ j - 1 \in 1..n
        OBVIOUS
    <2>1. j \in 1..(n + 1) /\ j - 1 \in 1..n /\ (j - 1) + 1 = j
        BY <1>1, <1>2
    <2> QED BY <1>2, <2>1
<1>6. CASE T = {} /\ 1 \in U
    <2>1. U = {1}
        BY <1>5, <1>6
    <2>3. \A j \in U : j <= 1
        BY <2>1
    <2>2. Latest(U) = 1
        BY <1>1, <1>2, <1>6, <2>3, LatestIs
    <2> QED BY <1>2, <1>3, <1>4, <1>6, <2>1, <2>2
<1>7. CASE T = {} /\ 1 \notin U
    <2>1. U = {}
        BY <1>5, <1>7
    <2> QED BY <1>2, <1>3, <1>4, <1>7, <2>1
<1>8. CASE T # {}
    <2>1. PICK t \in T : t = Latest(T) /\ \A j \in T : j <= t
        BY <1>1, <1>2, <1>8, LatestIn
    <2>2. t \in 1..n /\ t + 1 \in U
        BY <1>2, <2>1
    <2>3. \A j \in U : j <= t + 1
        BY <1>1, <1>2, <1>5, <2>1, <2>2
    <2>4. Latest(U) = t + 1
        BY <1>1, <1>2, <2>2, <2>3, LatestIs
    <2> QED BY <1>1, <1>3, <1>4, <1>8, <2>1, <2>2, <2>4
<1> QED BY <1>6, <1>7, <1>8

(* Types *)

LEMMA SeenType ==
    ASSUME TypeOK, NEW d \in Device, NEW p \in Place
    PROVE  Seen(d, p) \in Values(p)
<1>1. outbox[d] \in Seq(Write) /\ tree[p] \in Values(p)
    BY DEF TypeOK
<1>2. Len(outbox[d]) \in 0..Len(outbox[d])
    BY <1>1
<1> QED BY <1>1, <1>2, AfterType DEF Seen

LEMMA ReadsType ==
    ASSUME TypeOK, NEW d \in Device
    PROVE  /\ Seen(d, RegionAt) \in Region /\ Seen(d, GamesAt) \in Games
           /\ \A g \in Game : \A k \in Key :
                 Seen(d, EntryAt(g, k)) \in Region \cup {NoRegion}
BY SeenType, PlacesApart, ValuesOf

LEMMA FoundType ==
    ASSUME NEW us \in Seq(Query), NEW g \in Game, NEW k \in Key
    PROVE  /\ FoundWrites(us, g, k) \in Seq(Write)
           /\ Len(FoundWrites(us, g, k)) = Len(us)
           /\ \A i \in 1..Len(us) :
                 /\ FoundWrites(us, g, k)[i].place = EntryAt(g, k)
                 /\ FoundWrites(us, g, k)[i].value = Wanted(us[i], g)
<1> DEFINE s == FoundWrites(us, g, k)
<1>1. /\ Len(us) \in Nat /\ DOMAIN us = 1..Len(us)
      /\ \A i \in 1..Len(us) : us[i] \in Query
    OBVIOUS
<1>2. ASSUME NEW i \in 1..Len(us)
      PROVE  /\ s[i] \in Write /\ s[i].place = EntryAt(g, k)
             /\ s[i].value = Wanted(us[i], g)
    <2>1. us[i].region \in Region
        BY <1>1 DEF Query
    <2>2. Wanted(us[i], g) \in Values(EntryAt(g, k)) /\ EntryAt(g, k) \in Place
        BY <2>1, ValuesOf, PlacesApart DEF Wanted
    <2>3. s[i] = Put(EntryAt(g, k), Wanted(us[i], g))
        BY <1>1 DEF FoundWrites
    <2> QED BY <2>2, <2>3, PutType
<1>3. s \in Seq(Write) /\ Len(s) = Len(us)
    <2>1. DOMAIN s = 1..Len(us) /\ s = [i \in 1..Len(us) |-> s[i]]
        BY <1>1 DEF FoundWrites
    <2> HIDE DEF s
    <2>2. s \in [1..Len(us) -> Write]
        BY <1>2, <2>1
    <2> QED BY <1>1, <2>2
<1> QED BY <1>2, <1>3

LEMMA FreshType ==
    ASSUME NEW us \in Seq(Query), NEW g \in Game,
           NEW f \in InOrder(Adding(us, g))
    PROVE  /\ FreshWrites(us, g, f) \in Seq(Write)
           /\ Len(FreshWrites(us, g, f)) = Cardinality(Adding(us, g))
           /\ \A i \in 1..Cardinality(Adding(us, g)) :
                 /\ f[i] \in Adding(us, g) /\ us[f[i]] \in Query
                 /\ FreshWrites(us, g, f)[i].place = EntryAt(g, us[f[i]].key)
                 /\ FreshWrites(us, g, f)[i].value = us[f[i]].region
<1> DEFINE s == FreshWrites(us, g, f)
           A == Adding(us, g)
           n == Cardinality(A)
<1>1. /\ Len(us) \in Nat /\ DOMAIN us = 1..Len(us)
      /\ \A i \in 1..Len(us) : us[i] \in Query
    OBVIOUS
<1>2. IsFiniteSet(A)
    <2>1. IsFiniteSet(1..Len(us))
        BY <1>1, FS_Interval
    <2>2. A \subseteq 1..Len(us)
        BY <1>1 DEF Adding
    <2> QED BY <2>1, <2>2, FS_Subset
<1>3. n \in Nat
    BY <1>2, FS_CardinalityType
<1>4. f \in [1..n -> A]
    BY DEF InOrder
<1> HIDE DEF n
<1>5. DOMAIN f = 1..n
    BY <1>4
<1>6. ASSUME NEW i \in 1..n
      PROVE  /\ f[i] \in A /\ us[f[i]] \in Query
             /\ s[i] \in Write /\ s[i].place = EntryAt(g, us[f[i]].key)
             /\ s[i].value = us[f[i]].region
    <2>1. f[i] \in A
        BY <1>4
    <2>2. us[f[i]] \in Query
        BY <1>1, <2>1 DEF Adding
    <2>3. us[f[i]].key \in Key /\ us[f[i]].region \in Region
        BY <2>2 DEF Query
    <2>4. /\ EntryAt(g, us[f[i]].key) \in Place
          /\ us[f[i]].region \in Values(EntryAt(g, us[f[i]].key))
        BY <2>3, ValuesOf, PlacesApart
    <2>5. s[i] = Put(EntryAt(g, us[f[i]].key), us[f[i]].region)
        BY <1>5 DEF FreshWrites
    <2> QED BY <2>1, <2>2, <2>4, <2>5, PutType
<1>7. s \in Seq(Write) /\ Len(s) = n
    <2>1. DOMAIN s = 1..n /\ s = [i \in 1..n |-> s[i]]
        BY <1>5 DEF FreshWrites
    <2> HIDE DEF s
    <2>2. s \in [1..n -> Write]
        BY <1>6, <2>1
    <2> QED BY <1>3, <2>2
<1> QED BY <1>6, <1>7 DEF n

\* Games with a platform are games; there are none among no games.
LEMMA PlayableType ==
    /\ \A gs \in Games : Playable(gs) \in SUBSET Game
    /\ NoGames \in Games /\ Playable(NoGames) = {}
<1>1. \A gs \in Games : DOMAIN gs \in SUBSET Game
    BY DEF Games
<1>2. NoGames \in [{} -> BOOLEAN] /\ DOMAIN NoGames = {}
    BY DEF NoGames
<1>3. NoGames \in Games
    BY <1>2 DEF Games
<1> QED BY <1>1, <1>2, <1>3 DEF Playable

\* A game of an update that is given a platform, or loses it.
LEMMA RepickedType ==
    ASSUME NEW u \in Update, NEW g \in Game, NEW has \in BOOLEAN, Holds(u, g, has)
    PROVE  /\ Repicked(u, g, has) \in Update
           /\ Repicked(u, g, has).state = "changed"
<1> DEFINE gs == [u.games EXCEPT ![g] = has]
<1>1. /\ u.key \in Key /\ u.games \in Games /\ u.games # NoGames
      /\ u.state \in {"read", "picked", "changed"} /\ g \in DOMAIN u.games
    BY DEF Update, Holds
<1>2. PICK S \in SUBSET Game : u.games \in [S -> BOOLEAN]
    BY <1>1 DEF Games
<1>3. gs \in [S -> BOOLEAN] /\ g \in DOMAIN gs
    BY <1>1, <1>2
<1>4. gs \in Games
    BY <1>3 DEF Games
<1>5. gs # NoGames
    <2>1. DOMAIN NoGames = {}
        BY DEF NoGames
    <2> QED BY <1>3, <2>1
<1>6. Repicked(u, g, has) = [key |-> u.key, games |-> gs, state |-> "changed"]
    BY DEF Repicked
<1> HIDE DEF gs
<1>7. [key |-> u.key, games |-> gs, state |-> "changed"] \in Update
    BY <1>1, <1>4, <1>5 DEF Update
<1> QED BY <1>6, <1>7

LEMMA WithGamesType ==
    ASSUME NEW keys \in Seq(Key), NEW gs \in Games \ {NoGames}
    PROVE  /\ WithGames(keys, gs) \in Seq(Update)
           /\ Len(WithGames(keys, gs)) = Len(keys)
           /\ \A i \in 1..Len(keys) : WithGames(keys, gs)[i].games = gs
<1> DEFINE s == WithGames(keys, gs)
<1>1. /\ Len(keys) \in Nat /\ DOMAIN keys = 1..Len(keys)
      /\ \A i \in 1..Len(keys) : keys[i] \in Key
    OBVIOUS
<1>2. s = [i \in 1..Len(keys) |->
             [key |-> keys[i], games |-> gs, state |-> "read"]]
    BY <1>1 DEF WithGames
<1> HIDE DEF s
<1>3. \A i \in 1..Len(keys) : s[i] \in Update /\ s[i].games = gs
    BY <1>1, <1>2 DEF Update
<1>4. s \in [1..Len(keys) -> Update]
    BY <1>2, <1>3
<1> QED BY <1>1, <1>3, <1>4 DEF s

LEMMA WithRegionType ==
    ASSUME NEW us \in Seq(Update), NEW r \in Region
    PROVE  /\ WithRegion(us, r) \in Seq(Query)
           /\ Len(WithRegion(us, r)) = Len(us)
           /\ \A i \in 1..Len(us) :
                 /\ WithRegion(us, r)[i].listed = Playable(us[i].games)
                 /\ WithRegion(us, r)[i].region = r
<1> DEFINE s == WithRegion(us, r)
<1>1. /\ Len(us) \in Nat /\ DOMAIN us = 1..Len(us)
      /\ \A i \in 1..Len(us) : us[i] \in Update
    OBVIOUS
<1>2. s = [i \in 1..Len(us) |->
             [key |-> us[i].key, listed |-> Playable(us[i].games), region |-> r]]
    BY <1>1 DEF WithRegion
<1> HIDE DEF s
<1>3. \A i \in 1..Len(us) :
          /\ s[i] \in Query /\ s[i].listed = Playable(us[i].games)
          /\ s[i].region = r
    <2> SUFFICES ASSUME NEW i \in 1..Len(us)
                 PROVE  /\ s[i] \in Query /\ s[i].listed = Playable(us[i].games)
                        /\ s[i].region = r
        OBVIOUS
    <2>1. us[i].key \in Key /\ us[i].games \in Games
        BY <1>1 DEF Update
    <2>2. PICK l \in SUBSET Game : l = Playable(us[i].games)
        BY <2>1, PlayableType
    <2>3. s[i] = [key |-> us[i].key, listed |-> l, region |-> r]
        BY <1>2, <2>2
    <2> QED BY <2>1, <2>2, <2>3 DEF Query
<1>4. s \in [1..Len(us) -> Query]
    BY <1>2, <1>3
<1> QED BY <1>1, <1>3, <1>4 DEF s

LEMMA InitTypeOK == Init => TypeOK
<1> SUFFICES ASSUME Init PROVE TypeOK
    OBVIOUS
<1>1. \A p \in Place : tree[p] \in Values(p)
    BY ListingRegions, PlayableType DEF Init, Values
<1>2. tree \in [Place -> Value]
    <2>1. \A p \in Place : tree[p] \in Value
        BY <1>1 DEF Value
    <2> QED BY <2>1 DEF Init
<1>3. ops \in 0..MaxOps /\ crashes \in Nat
    BY ListingBounds DEF Init
<1>4. {crossed, missed, behind} \subseteq BOOLEAN /\ catalogue \subseteq Device
    BY DEF Init
<1>5. /\ outbox \in [Device -> Seq(Write)] /\ asking \in [Device -> Seq(Key)]
      /\ reading \in [Device -> Seq(Update)]
      /\ queries \in [Device -> [Game -> Seq(Query)]]
    BY DEF Init
<1> QED BY <1>1, <1>2, <1>3, <1>4, <1>5 DEF TypeOK

\* An edit is numbered within the bound, and its write is queued.
LEMMA EditType ==
    ASSUME TypeOK, NEW d \in Device, NEW w \in Write, Edit(d, w)
    PROVE  /\ outbox' \in [Device -> Seq(Write)]
           /\ ops + 1 \in Key /\ ops' \in 0..MaxOps
           /\ {crossed, missed, behind}' \subseteq BOOLEAN
<1>1. ops \in Nat /\ ops < MaxOps /\ MaxOps \in Nat /\ ops' = ops + 1
    BY ListingBounds DEF TypeOK, Edit
<1>2. ops + 1 \in Key /\ ops' \in 0..MaxOps
    BY <1>1 DEF Key
<1>3. outbox' \in [Device -> Seq(Write)]
    <2>1. Append(outbox[d], w) \in Seq(Write)
        BY DEF TypeOK
    <2> QED BY <2>1 DEF TypeOK, Edit
<1>4. {crossed, missed, behind}' \subseteq BOOLEAN
    <2>1. crossed' \in BOOLEAN
        BY DEF Edit
    <2>2. missed' \in BOOLEAN /\ behind' \in BOOLEAN
        BY DEF Edit, TypeOK
    <2> QED BY <2>1, <2>2
<1> QED BY <1>2, <1>3, <1>4

LEMMA AnsweredType ==
    ASSUME TypeOK, NEW d \in Device, NEW g \in Game, NEW s \in Seq(Write),
           Answered(d, g, s)
    PROVE  /\ outbox' \in [Device -> Seq(Write)]
           /\ queries' \in [Device -> [Game -> Seq(Query)]]
<1>1. outbox[d] \o s \in Seq(Write)
    BY DEF TypeOK
<1>2. outbox' \in [Device -> Seq(Write)]
    BY <1>1 DEF TypeOK, Answered
<1>3. [queries[d] EXCEPT ![g] = <<>>] \in [Game -> Seq(Query)]
    BY DEF TypeOK
<1>4. queries' \in [Device -> [Game -> Seq(Query)]]
    BY <1>3 DEF TypeOK, Answered
<1> QED BY <1>2, <1>4

\* What UpdateUserGames makes.
Fresh(d, gs) ==
    [key |-> ops + 1, games |-> gs,
     state |-> IF d \in catalogue THEN "picked" ELSE "read"]

\* The updates that wait, once a game was picked again.
LEMMA PickAgainType ==
    ASSUME TypeOK, NEW d \in Device, NEW g \in Game, NEW has \in BOOLEAN,
           PickAgain(d, g, has)
    PROVE  /\ reading' \in [Device -> Seq(Update)]
           /\ reading'[d] # <<>> /\ Len(reading'[d]) = Len(reading[d])
           /\ reading[d] # <<>> /\ Len(reading[d]) \in 1..Len(reading[d])
           /\ \A i \in 1..Len(reading[d]) :
                 reading'[d][i] = reading[d][i] \/ reading'[d][i].state = "changed"
<1> DEFINE After1(u) == IF Holds(u, g, has) THEN Repicked(u, g, has) ELSE u
<1>1. PICK q \in Seq(Update) : q = reading[d]
    BY DEF TypeOK
<1>2. PICK n \in Nat : n = Len(q) /\ DOMAIN q = 1..n /\ \A i \in 1..n : q[i] \in Update
    OBVIOUS
<1>3. ASSUME NEW u \in Update
      PROVE  After1(u) \in Update /\ (After1(u) = u \/ After1(u).state = "changed")
    BY <1>3, RepickedType
<1>4. reading'[d] = [i \in 1..n |-> After1(q[i])]
    BY <1>1, <1>2 DEF PickAgain, TypeOK
<1> HIDE DEF After1
<1>5. PICK r : r = [i \in 1..n |-> After1(q[i])]
    OBVIOUS
<1>6. r \in [1..n -> Update]
    BY <1>2, <1>3, <1>5
<1>7. r \in Seq(Update) /\ Len(r) = n
    BY <1>6
<1>8. n \in 1..n
    <2>1. \E i \in DOMAIN q : Holds(q[i], g, has)
        BY <1>1 DEF PickAgain
    <2> QED BY <1>2, <2>1
<1>9. reading' \in [Device -> Seq(Update)]
    <2>1. reading' = [reading EXCEPT ![d] = r]
        BY <1>1, <1>2, <1>5 DEF PickAgain, TypeOK, After1
    <2> QED BY <1>7, <2>1 DEF TypeOK
<1> QED BY <1>1, <1>2, <1>3, <1>4, <1>5, <1>7, <1>8, <1>9

LEMMA NextTypeOK == TypeOK /\ [Next]_vars => TypeOK'
<1> SUFFICES ASSUME TypeOK, [Next]_vars PROVE TypeOK'
    OBVIOUS
<1>1. ASSUME NEW d \in Device, NEW gs \in Games, UpdateUserGames(d, gs)
      PROVE  TypeOK'
    <2>1. Put(GamesAt, gs) \in Write
        BY PutType, PlacesApart, ValuesOf
    <2>2. /\ outbox' \in [Device -> Seq(Write)]
          /\ ops + 1 \in Key /\ ops' \in 0..MaxOps
          /\ {crossed, missed, behind}' \subseteq BOOLEAN
        BY <1>1, <2>1, EditType DEF UpdateUserGames
    <2>3. PICK u \in Update : u = Fresh(d, gs)
        BY <1>1, <2>2 DEF UpdateUserGames, Update, Fresh
    <2>4. reading' \in [Device -> Seq(Update)]
        <3>1. Append(reading[d], u) \in Seq(Update)
            BY DEF TypeOK
        <3> QED BY <1>1, <2>3, <3>1 DEF UpdateUserGames, TypeOK, Fresh
    <2> QED BY <1>1, <2>2, <2>4 DEF UpdateUserGames, Edit, TypeOK
<1>2. ASSUME NEW d \in Device, NEW r \in Region, EditRegion(d, r) PROVE TypeOK'
    <2>1. Put(RegionAt, r) \in Write
        BY PutType, PlacesApart, ValuesOf
    <2>2. /\ outbox' \in [Device -> Seq(Write)]
          /\ ops + 1 \in Key /\ ops' \in 0..MaxOps
          /\ {crossed, missed, behind}' \subseteq BOOLEAN
        BY <1>2, <2>1, EditType DEF EditRegion
    <2>3. asking' \in [Device -> Seq(Key)]
        <3>1. Append(asking[d], ops + 1) \in Seq(Key)
            BY <2>2 DEF TypeOK
        <3> QED BY <1>2, <3>1 DEF EditRegion, TypeOK
    <2> QED BY <1>2, <2>2, <2>3 DEF EditRegion, Edit, TypeOK
<1>3. ASSUME NEW d \in Device, GamesFetched(d) PROVE TypeOK'
    <2>1. asking' \in [Device -> Seq(Key)]
        BY <1>3 DEF GamesFetched, TypeOK
    <2>2. reading' \in [Device -> Seq(Update)]
        <3>1. CASE Seen(d, GamesAt) = NoGames
            BY <1>3, <3>1 DEF GamesFetched, TypeOK
        <3>2. CASE Seen(d, GamesAt) # NoGames
            <4>1. PICK gs \in Games \ {NoGames} : gs = Seen(d, GamesAt)
                BY <3>2, ReadsType
            <4>2. asking[d] \in Seq(Key) /\ reading[d] \in Seq(Update)
                BY DEF TypeOK
            <4>3. WithGames(asking[d], gs) \in Seq(Update)
                BY <4>2, WithGamesType
            <4>4. reading[d] \o WithGames(asking[d], gs) \in Seq(Update)
                BY <4>2, <4>3
            <4> QED BY <1>3, <3>2, <4>1, <4>4 DEF GamesFetched, TypeOK
        <3> QED BY <3>1, <3>2
    <2> QED BY <1>3, <2>1, <2>2 DEF GamesFetched, TypeOK
<1>4. ASSUME NEW d \in Device, UserFetched(d) PROVE TypeOK'
    <2>1. reading' \in [Device -> Seq(Update)]
        BY <1>4 DEF UserFetched, TypeOK
    <2>2. queries' \in [Device -> [Game -> Seq(Query)]]
        <3>1. CASE d \notin catalogue
            BY <1>4, <3>1 DEF UserFetched, TypeOK
        <3>2. CASE d \in catalogue
            <4>1. PICK r \in Region : r = Seen(d, RegionAt)
                BY ReadsType
            <4>2. PICK s \in Seq(Query) : s = WithRegion(reading[d], r)
                BY WithRegionType DEF TypeOK
            <4>3. [g \in Game |-> queries[d][g] \o s] \in [Game -> Seq(Query)]
                BY DEF TypeOK
            <4>4. queries' = [queries EXCEPT ![d] = [g \in Game |-> queries[d][g] \o s]]
                BY <1>4, <3>2, <4>1, <4>2 DEF UserFetched
            <4> QED BY <4>3, <4>4 DEF TypeOK
        <3> QED BY <3>1, <3>2
    <2>3. {crossed, missed, behind}' \subseteq BOOLEAN
        <3>1. behind' \in BOOLEAN
            BY <1>4 DEF UserFetched
        <3> QED BY <1>4, <3>1 DEF UserFetched, TypeOK
    <2> QED BY <1>4, <2>1, <2>2, <2>3 DEF UserFetched, TypeOK
<1>5. ASSUME NEW d \in Device, FetchAllGames(d) PROVE TypeOK'
    BY <1>5 DEF FetchAllGames, TypeOK
<1>6. ASSUME NEW d \in Device, NEW g \in Game, QueryAnswered(d, g) PROVE TypeOK'
    <2>1. queries[d][g] \in Seq(Query)
        BY DEF TypeOK
    <2>2. PICK s \in Seq(Write) : Answered(d, g, s)
        <3>1. CASE \E k \in Found(d, g) :
                      Answered(d, g, FoundWrites(queries[d][g], g, k))
            BY <2>1, <3>1, FoundType DEF Found
        <3>2. CASE \E f \in InOrder(Adding(queries[d][g], g)) :
                      Answered(d, g, FreshWrites(queries[d][g], g, f))
            BY <2>1, <3>2, FreshType
        <3> QED BY <1>6, <3>1, <3>2 DEF QueryAnswered
    <2>3. /\ outbox' \in [Device -> Seq(Write)]
          /\ queries' \in [Device -> [Game -> Seq(Query)]]
        BY <2>2, AnsweredType
    <2>4. {crossed, missed, behind}' \subseteq BOOLEAN
        <3>1. missed' \in BOOLEAN
            BY <1>6 DEF QueryAnswered, TypeOK
        <3> QED BY <2>2, <3>1 DEF Answered, TypeOK
    <2> QED BY <2>2, <2>3, <2>4 DEF Answered, TypeOK
<1>7. ASSUME NEW d \in Device, Deliver(d) PROVE TypeOK'
    <2>1. outbox[d] \in Seq(Write) /\ outbox[d] # <<>>
        BY <1>7 DEF Deliver, TypeOK
    <2>2. PICK w \in Write : w = Head(outbox[d])
        BY <2>1
    <2>3. /\ w.place \in Place /\ w.value \in Values(w.place) /\ w.value \in Value
          /\ tree' = [tree EXCEPT ![w.place] = w.value]
        BY <1>7, <2>2, WriteType DEF Deliver
    <2>4. tree' \in [Place -> Value] /\ \A p \in Place : tree'[p] \in Values(p)
        BY <2>3 DEF TypeOK
    <2>5. outbox' \in [Device -> Seq(Write)]
        <3>1. Tail(outbox[d]) \in Seq(Write)
            BY <2>1, TailElements
        <3> QED BY <1>7, <3>1 DEF Deliver, TypeOK
    <2> QED BY <1>7, <2>4, <2>5 DEF Deliver, TypeOK
<1>8. ASSUME NEW d \in Device, Crash(d) PROVE TypeOK'
    <2>1. {crossed, missed, behind}' \subseteq BOOLEAN
        <3>1. behind' \in BOOLEAN
            BY <1>8 DEF Crash
        <3> QED BY <1>8, <3>1 DEF Crash, TypeOK
    <2>2. /\ outbox' \in [Device -> Seq(Write)] /\ asking' \in [Device -> Seq(Key)]
          /\ reading' \in [Device -> Seq(Update)]
        BY <1>8 DEF Crash, TypeOK
    <2>3. queries' \in [Device -> [Game -> Seq(Query)]]
        BY <1>8 DEF Crash, TypeOK
    <2> QED BY <1>8, <2>1, <2>2, <2>3 DEF Crash, TypeOK
<1>9. ASSUME NEW d \in Device, NEW g \in Game, NEW has \in BOOLEAN,
             PickAgain(d, g, has)
      PROVE  TypeOK'
    <2>1. reading' \in [Device -> Seq(Update)]
        BY <1>9, PickAgainType
    <2> QED BY <1>9, <2>1 DEF PickAgain, TypeOK
<1>10. CASE UNCHANGED vars
    BY <1>10 DEF vars, TypeOK
<1> QED
    BY <1>1, <1>2, <1>3, <1>4, <1>5, <1>6, <1>7, <1>8, <1>9, <1>10 DEF Next

\* The state stays well typed: an update that got past its first read has games
\* to list, and no more keys are generated than there were edits.
THEOREM TypeCorrect == Spec => []TypeOK
BY InitTypeOK, NextTypeOK, PTL DEF Spec

------------------------------------------------------------------------------
(***************************************************************************)
(* The listing agrees with the profile.                                    *)
(*                                                                         *)
(* As long as edits of two devices have not met, one device at most has    *)
(* anything under way.  Its last update knows the games and the region     *)
(* that the device sees, and whatever the queue does to the entries of a   *)
(* game, it leaves one at most.                                            *)
(***************************************************************************)

\* The places under the first n writes of a queue, and under all of them.
Content(data, q, n) == [p \in Place |-> After(data, q, n, p)]
View(d) == Content(tree, outbox[d], Len(outbox[d]))

Entries(c, g) == {k \in Key : c[EntryAt(g, k)] # NoRegion}
OnceIn(c) ==
    \A g \in Game : \A k \in Entries(c, g) : \A l \in Entries(c, g) : k = l
GamesFirstIn(c) ==
    c[GamesAt] = NoGames => \A g \in Game : Entries(c, g) = {}
RightIn(c, g) ==
    {c[EntryAt(g, k)] : k \in Entries(c, g)} =
        IF g \in Playable(c[GamesAt]) THEN {c[RegionAt]} ELSE {}

Alone(d) == \A e \in Device \ {d} : ~Busy(e)

\* A player is listed once, and not before there are games in the profile,
\* under any part of the queue.
EntriesOnce(d) ==
    \A n \in 0..Len(outbox[d]) :
        /\ OnceIn(Content(tree, outbox[d], n))
        /\ GamesFirstIn(Content(tree, outbox[d], n))

\* Queries are asked with games and with the catalogue.
QueriesSound(d) ==
    \A g \in Game : queries[d][g] # <<>> =>
        View(d)[GamesAt] # NoGames /\ d \in catalogue

\* The last update that waits knows what the device sees, unless another one
\* follows or its platforms have been changed.
ReadingNew(d) ==
    reading[d] # <<>> =>
        /\ View(d)[GamesAt] # NoGames
        /\ \/ reading[d][Len(reading[d])].state = "changed"
           \/ reading[d][Len(reading[d])].games = View(d)[GamesAt]
QueriesNew(d) ==
    ~behind /\ asking[d] = <<>> /\ reading[d] = <<>> =>
        \A g \in Game : queries[d][g] # <<>> =>
            /\ queries[d][g][Len(queries[d][g])].listed = Playable(View(d)[GamesAt])
            /\ queries[d][g][Len(queries[d][g])].region = View(d)[RegionAt]

\* With no update on its way to the entries of a game, they are right.
Through(d) ==
    ~behind /\ Alone(d) /\ asking[d] = <<>> /\ reading[d] = <<>> =>
        \A g \in Game : queries[d][g] = <<>> => RightIn(View(d), g)

Sound(d) ==
    /\ EntriesOnce(d) /\ QueriesSound(d)
    /\ ReadingNew(d) /\ QueriesNew(d) /\ Through(d)

OneBusy == \A d \in Device : \A e \in Device : Busy(d) /\ Busy(e) => d = e
NoDevice == Device = {} => OnceIn(tree) /\ \A g \in Game : RightIn(tree, g)

ListInv ==
    /\ ~crossed /\ ~missed => OneBusy /\ \A d \in Device : Sound(d)
    /\ NoDevice

(* Contents *)

LEMMA ContentNone ==
    ASSUME TypeOK, NEW q
    PROVE  Content(tree, q, 0) = tree
<1>1. \A p \in Place : After(tree, q, 0, p) = tree[p]
    BY AfterNone
<1>2. tree = [p \in Place |-> tree[p]]
    BY DEF TypeOK
<1> QED BY <1>1, <1>2 DEF Content

LEMMA ContentAt ==
    ASSUME NEW data, NEW q, NEW n
    PROVE  /\ \A p \in Place : Content(data, q, n)[p] = After(data, q, n, p)
           /\ Content(data, q, n) \in [Place -> {After(data, q, n, p) : p \in Place}]
BY DEF Content

LEMMA ViewSeen ==
    ASSUME NEW d \in Device
    PROVE  \A p \in Place : View(d)[p] = Seen(d, p)
BY DEF View, Content, Seen

LEMMA ViewType ==
    ASSUME TypeOK, NEW d \in Device
    PROVE  /\ View(d)[RegionAt] \in Region /\ View(d)[GamesAt] \in Games
           /\ \A g \in Game : Found(d, g) = Entries(View(d), g)
<1>1. \A p \in Place : View(d)[p] = Seen(d, p)
    BY ViewSeen
<1>2. \A g \in Game : \A k \in Key : View(d)[EntryAt(g, k)] = Seen(d, EntryAt(g, k))
    BY <1>1, PlacesApart
<1>3. View(d)[RegionAt] = Seen(d, RegionAt) /\ View(d)[GamesAt] = Seen(d, GamesAt)
    BY <1>1, PlacesApart
<1> QED BY <1>2, <1>3, ReadsType DEF Found, Entries

\* Contents that agree on the entries of all games, and on the games.
LEMMA SameEntries ==
    ASSUME NEW b, NEW c, NEW g \in Game,
           \A k \in Key : c[EntryAt(g, k)] = b[EntryAt(g, k)]
    PROVE  /\ Entries(c, g) = Entries(b, g)
           /\ c[GamesAt] = b[GamesAt] /\ c[RegionAt] = b[RegionAt] =>
                 (RightIn(b, g) => RightIn(c, g))
<1>1. Entries(c, g) = Entries(b, g)
    BY DEF Entries
<1>2. {c[EntryAt(g, k)] : k \in Entries(c, g)} = {b[EntryAt(g, k)] : k \in Entries(b, g)}
    BY <1>1 DEF Entries
<1> QED BY <1>1, <1>2 DEF RightIn

\* The last write is what its place holds.
LEMMA WrittenLast ==
    ASSUME NEW data, NEW q, NEW n \in Nat, n > 0, q[n].place \in Place
    PROVE  Content(data, q, n)[q[n].place] = q[n].value
<1>1. PICK p \in Place : p = q[n].place
    OBVIOUS
<1>2. After(data, q, n, p) = q[n].value
    BY <1>1, AfterEnd
<1> QED BY <1>1, <1>2 DEF Content

\* A queue with more writes, all of one place.
Extended(data, q, s, P) ==
    /\ Len(q \o s) = Len(q) + Len(s)
    /\ \A n \in 0..Len(q) : Content(data, q \o s, n) = Content(data, q, n)
    /\ \A n \in Len(q)..(Len(q) + Len(s)) : \A p \in Place : p # P =>
          Content(data, q \o s, n)[p] = Content(data, q, Len(q))[p]
    /\ \A i \in 1..Len(s) : Content(data, q \o s, Len(q) + i)[P] = s[i].value

LEMMA Appended ==
    ASSUME NEW data, NEW q \in Seq(Write), NEW s \in Seq(Write), NEW P \in Place,
           \A i \in 1..Len(s) : s[i].place = P
    PROVE  Extended(data, q, s, P)
<1> DEFINE r == q \o s
<1>1. /\ r \in Seq(Write) /\ Len(r) = Len(q) + Len(s)
      /\ \A i \in 1..(Len(q) + Len(s)) :
            r[i] = IF i <= Len(q) THEN q[i] ELSE s[i - Len(q)]
    BY ConcatProperties, Zenon
<1>2. Len(q) \in Nat /\ Len(s) \in Nat
    OBVIOUS
<1>3. PICK m \in Nat, l \in Nat : m = Len(q) /\ l = Len(s)
    BY <1>2
<1>4. /\ \A i \in 1..m : r[i] = q[i]
      /\ \A i \in (m + 1)..(m + l) : r[i].place = P
      /\ \A i \in 1..l : r[m + i] = s[i]
    <2>1. \A i \in 1..m : i \in 1..(m + l) /\ i <= m
        BY <1>3
    <2>2. ASSUME NEW i \in (m + 1)..(m + l) PROVE r[i].place = P
        <3>1. i \in 1..(m + l) /\ ~(i <= m) /\ i - m \in 1..l
            BY <1>3
        <3> QED BY <1>1, <1>3, <3>1
    <2>3. ASSUME NEW i \in 1..l PROVE r[m + i] = s[i]
        <3>1. m + i \in 1..(m + l) /\ ~(m + i <= m) /\ (m + i) - m = i
            BY <1>3
        <3> QED BY <1>1, <1>3, <3>1
    <2> QED BY <1>1, <1>3, <2>1, <2>2, <2>3
<1> HIDE DEF r
<1>5. ASSUME NEW n \in 0..m PROVE Content(data, r, n) = Content(data, q, n)
    <2>1. n \in Nat /\ n <= n /\ \A i \in 1..n : i \in 1..m
        BY <1>3
    <2>2. \A i \in 1..n : r[i] = q[i]
        BY <1>4, <2>1
    <2>3. ASSUME NEW p \in Place PROVE After(data, r, n, p) = After(data, q, n, p)
        <3>1. \A i \in (n + 1)..n : r[i].place # p
            BY <2>1
        <3> QED BY <2>1, <2>2, <3>1, AfterSame
    <2> QED BY <2>3 DEF Content
<1>6. ASSUME NEW n \in m..(m + l), NEW p \in Place, p # P
      PROVE  Content(data, r, n)[p] = Content(data, q, m)[p]
    <2>1. n \in Nat /\ m <= n /\ \A i \in (m + 1)..n : i \in (m + 1)..(m + l)
        BY <1>3
    <2>3. \A i \in 1..m : r[i] = q[i]
        BY <1>4
    <2>4. \A i \in (m + 1)..n : r[i].place # p
        BY <1>4, <1>6, <2>1
    <2>2. After(data, r, n, p) = After(data, q, m, p)
        BY <2>1, <2>3, <2>4, AfterSame
    <2> QED BY <2>2, ContentAt
<1>7. ASSUME NEW i \in 1..l
      PROVE  Content(data, r, m + i)[P] = s[i].value
    <2>1. m + i \in (m + 1)..(m + l) /\ m + i \in Nat /\ m + i > 0
        BY <1>3
    <2>2. r[m + i].place = P /\ r[m + i] = s[i]
        BY <1>4, <2>1
    <2> QED BY <2>1, <2>2, WrittenLast
<1> QED BY <1>1, <1>3, <1>5, <1>6, <1>7 DEF Extended, r

\* A call of a device that writes one place.
LEMMA Call ==
    ASSUME TypeOK, NEW d \in Device, NEW s \in Seq(Write), NEW P \in Place,
           tree' = tree, outbox' = [outbox EXCEPT ![d] = @ \o s],
           \A i \in 1..Len(s) : s[i].place = P
    PROVE  /\ \A n \in 0..Len(outbox'[d]) :
                 \/ /\ n \in 0..Len(outbox[d])
                    /\ Content(tree, outbox[d], n)' = Content(tree, outbox[d], n)
                 \/ /\ \A p \in Place \ {P} :
                          Content(tree, outbox[d], n)'[p] = View(d)[p]
                    /\ \E i \in 1..Len(s) :
                          Content(tree, outbox[d], n)'[P] = s[i].value
           /\ \A p \in Place \ {P} : View(d)'[p] = View(d)[p]
           /\ s # <<>> => View(d)'[P] = s[Len(s)].value
           /\ s = <<>> => View(d)' = View(d)
<1>1. PICK q \in Seq(Write) : q = outbox[d]
    BY DEF TypeOK
<1>2. outbox'[d] = q \o s
    BY <1>1 DEF TypeOK
<1>3. /\ Len(q \o s) = Len(q) + Len(s)
      /\ \A n \in 0..Len(q) : Content(tree, q \o s, n) = Content(tree, q, n)
      /\ \A n \in Len(q)..(Len(q) + Len(s)) : \A p \in Place : p # P =>
            Content(tree, q \o s, n)[p] = Content(tree, q, Len(q))[p]
      /\ \A i \in 1..Len(s) :
            Content(tree, q \o s, Len(q) + i)[P] = s[i].value
    <2>1. Extended(tree, q, s, P)
        BY Appended
    <2> QED BY <2>1 DEF Extended
<1>4. PICK m \in Nat, l \in Nat : m = Len(q) /\ l = Len(s)
    OBVIOUS
<1>5. View(d) = Content(tree, q, m) /\ View(d)' = Content(tree, q \o s, m + l)
    BY <1>1, <1>2, <1>3, <1>4 DEF View
<1>6. \A n : Content(tree, outbox[d], n)' = Content(tree, q \o s, n)
    BY <1>2
<1>7. ASSUME NEW n \in 0..Len(outbox'[d])
      PROVE  \/ /\ n \in 0..Len(outbox[d])
                /\ Content(tree, outbox[d], n)' = Content(tree, outbox[d], n)
             \/ /\ \A p \in Place \ {P} :
                      Content(tree, outbox[d], n)'[p] = View(d)[p]
                /\ \E i \in 1..Len(s) :
                      Content(tree, outbox[d], n)'[P] = s[i].value
    <2>1. n \in 0..(m + l)
        BY <1>2, <1>3, <1>4
    <2>2. CASE n \in 0..m
        BY <1>1, <1>3, <1>4, <1>6, <2>2
    <2>3. CASE n \in (m + 1)..(m + l)
        <3>1. n - m \in 1..l /\ m + (n - m) = n /\ n \in m..(m + l)
            BY <1>4, <2>3
        <3>2. \A p \in Place \ {P} : Content(tree, q \o s, n)[p] = View(d)[p]
            BY <1>3, <1>4, <1>5, <3>1
        <3>3. Content(tree, q \o s, n)[P] = s[n - m].value
            BY <1>3, <1>4, <3>1
        <3> QED BY <1>4, <1>6, <3>1, <3>2, <3>3
    <2>4. n \in 0..m \/ n \in (m + 1)..(m + l)
        BY <1>4, <2>1
    <2> QED BY <2>2, <2>3, <2>4
<1>8. m + l \in m..(m + l)
    BY <1>4
<1>9. \A p \in Place \ {P} : View(d)'[p] = View(d)[p]
    BY <1>3, <1>4, <1>5, <1>8
<1>10. ASSUME s # <<>> PROVE View(d)'[P] = s[Len(s)].value
    <2>1. l \in 1..l
        BY <1>4, <1>10
    <2> QED BY <1>3, <1>4, <1>5, <2>1
<1>11. ASSUME s = <<>> PROVE View(d)' = View(d)
    <2>1. l = 0 /\ m + l = m /\ m \in 0..m
        BY <1>4, <1>11
    <2> QED BY <1>3, <1>4, <1>5, <2>1
<1> QED BY <1>7, <1>9, <1>10, <1>11

\* Contents that differ in one place.
Changed(b, c, P) == \A p \in Place \ {P} : c[p] = b[p]

\* A new region, or new games, leaves the entries alone.
LEMMA ChangedProfile ==
    ASSUME NEW b, NEW c, NEW P \in {RegionAt, GamesAt}, Changed(b, c, P),
           OnceIn(b), GamesFirstIn(b), P = GamesAt => c[GamesAt] # NoGames
    PROVE  OnceIn(c) /\ GamesFirstIn(c)
<1>1. \A g \in Game : \A k \in Key : c[EntryAt(g, k)] = b[EntryAt(g, k)]
    BY PlacesApart DEF Changed
<1>2. \A g \in Game : Entries(c, g) = Entries(b, g)
    BY <1>1 DEF Entries
<1>3. P = RegionAt => c[GamesAt] = b[GamesAt]
    BY PlacesApart DEF Changed
<1> QED BY <1>2, <1>3 DEF OnceIn, GamesFirstIn

\* A changed entry of a game is the only one of it, if there is no other.
LEMMA ChangedEntry ==
    ASSUME NEW b, NEW c, NEW g \in Game, NEW k \in Key,
           Changed(b, c, EntryAt(g, k)), OnceIn(b), b[GamesAt] # NoGames,
           Entries(b, g) \subseteq {k}
    PROVE  /\ OnceIn(c) /\ GamesFirstIn(c)
           /\ c[GamesAt] = b[GamesAt] /\ c[RegionAt] = b[RegionAt]
           /\ \A h \in Game \ {g} : RightIn(b, h) => RightIn(c, h)
           /\ Entries(c, g) = IF c[EntryAt(g, k)] = NoRegion THEN {} ELSE {k}
<1>1. c[GamesAt] = b[GamesAt] /\ c[RegionAt] = b[RegionAt]
    BY PlacesApart DEF Changed
<1>2. \A h \in Game : \A l \in Key : h # g \/ l # k =>
          c[EntryAt(h, l)] = b[EntryAt(h, l)]
    BY PlacesApart DEF Changed
<1>3. ASSUME NEW h \in Game \ {g}
      PROVE  Entries(c, h) = Entries(b, h) /\ (RightIn(b, h) => RightIn(c, h))
    BY <1>1, <1>2, SameEntries
<1>4. Entries(c, g) = IF c[EntryAt(g, k)] = NoRegion THEN {} ELSE {k}
    <2>1. \A l \in Key \ {k} : c[EntryAt(g, l)] = NoRegion
        BY <1>2 DEF Entries
    <2> QED BY <2>1 DEF Entries
<1>5. OnceIn(c)
    <2> SUFFICES ASSUME NEW h \in Game, NEW l \in Entries(c, h), NEW m \in Entries(c, h)
                 PROVE  l = m
        BY DEF OnceIn
    <2>1. CASE h = g
        BY <1>4, <2>1
    <2>2. CASE h # g
        BY <1>3, <2>2 DEF OnceIn
    <2> QED BY <2>1, <2>2
<1> QED BY <1>1, <1>3, <1>4, <1>5 DEF GamesFirstIn

\* What a device reads is the last of the contents of its queue.
LEMMA ViewOnce ==
    ASSUME TypeOK, NEW d \in Device, EntriesOnce(d)
    PROVE  OnceIn(View(d)) /\ GamesFirstIn(View(d))
<1>1. Len(outbox[d]) \in 0..Len(outbox[d])
    BY DEF TypeOK
<1> QED BY <1>1 DEF View, EntriesOnce

LEMMA CallOnce ==
    ASSUME TypeOK, NEW d \in Device, NEW s \in Seq(Write), NEW P \in Place,
           tree' = tree, outbox' = [outbox EXCEPT ![d] = @ \o s],
           \A i \in 1..Len(s) : s[i].place = P,
           EntriesOnce(d),
           \A c : Changed(View(d), c, P) /\ (\E i \in 1..Len(s) : c[P] = s[i].value) =>
                     OnceIn(c) /\ GamesFirstIn(c)
    PROVE  /\ EntriesOnce(d)' /\ Changed(View(d), View(d)', P)
           /\ s # <<>> => View(d)'[P] = s[Len(s)].value
           /\ s = <<>> => View(d)' = View(d)
<1>1. /\ \A n \in 0..Len(outbox'[d]) :
            \/ /\ n \in 0..Len(outbox[d])
               /\ Content(tree, outbox[d], n)' = Content(tree, outbox[d], n)
            \/ /\ \A p \in Place \ {P} :
                     Content(tree, outbox[d], n)'[p] = View(d)[p]
               /\ \E i \in 1..Len(s) :
                     Content(tree, outbox[d], n)'[P] = s[i].value
      /\ \A p \in Place \ {P} : View(d)'[p] = View(d)[p]
      /\ s # <<>> => View(d)'[P] = s[Len(s)].value
      /\ s = <<>> => View(d)' = View(d)
    BY Call
<1>2. ASSUME NEW n \in 0..Len(outbox'[d])
      PROVE  OnceIn(Content(tree, outbox[d], n))' /\ GamesFirstIn(Content(tree, outbox[d], n))'
    <2>1. PICK c : c = Content(tree, outbox[d], n)'
        OBVIOUS
    <2>2. CASE n \in 0..Len(outbox[d]) /\ c = Content(tree, outbox[d], n)
        BY <2>1, <2>2 DEF EntriesOnce
    <2>3. CASE /\ \A p \in Place \ {P} : c[p] = View(d)[p]
               /\ \E i \in 1..Len(s) : c[P] = s[i].value
        <3>1. Changed(View(d), c, P)
            BY <2>3 DEF Changed
        <3> QED BY <2>1, <2>3, <3>1
    <2> QED BY <1>1, <2>1, <2>2, <2>3
<1>3. EntriesOnce(d)'
    BY <1>2 DEF EntriesOnce
<1> QED BY <1>1, <1>3 DEF Changed

------------------------------------------------------------------------------
(* The steps of a device while the others have nothing under way *)

LEMMA UpdateUserGamesSound ==
    ASSUME TypeOK, NEW d \in Device, NEW gs \in Games,
           UpdateUserGames(d, gs), Sound(d)
    PROVE  Sound(d)'
<1>1. /\ gs # NoGames /\ tree' = tree /\ queries' = queries /\ catalogue' = catalogue
      /\ outbox' = [outbox EXCEPT ![d] = Append(@, Put(GamesAt, gs))]
      /\ reading' = [reading EXCEPT ![d] = Append(@, Fresh(d, gs))]
    BY DEF UpdateUserGames, Edit, Fresh
<1>2. /\ Put(GamesAt, gs) \in Write /\ Put(GamesAt, gs).place = GamesAt
      /\ Put(GamesAt, gs).value = gs /\ GamesAt \in Place
    BY PutType, PlacesApart, ValuesOf
<1>3. PICK s \in Seq(Write) : s = <<Put(GamesAt, gs)>>
    <2>1. PICK w \in Write : w = Put(GamesAt, gs)
        BY <1>2
    <2>2. <<w>> \in Seq(Write)
        OBVIOUS
    <2> QED BY <2>1, <2>2
<1>4. /\ s # <<>> /\ Len(s) = 1 /\ s[1].value = gs
      /\ \A i \in 1..Len(s) : s[i].place = GamesAt /\ s[i].value = gs
    BY <1>2, <1>3
<1>5. outbox' = [outbox EXCEPT ![d] = @ \o s]
    <2>1. PICK q \in Seq(Write) : q = outbox[d]
        BY DEF TypeOK
    <2>2. Append(q, Put(GamesAt, gs)) = q \o s
        BY <1>2, <1>3
    <2> QED BY <1>1, <2>1, <2>2
<1>6. EntriesOnce(d)' /\ View(d)'[GamesAt] = gs
    <2>1. EntriesOnce(d) /\ OnceIn(View(d)) /\ GamesFirstIn(View(d))
        BY ViewOnce DEF Sound
    <2>2. \A c : Changed(View(d), c, GamesAt) /\ (\E i \in 1..Len(s) : c[GamesAt] = s[i].value) =>
              OnceIn(c) /\ GamesFirstIn(c)
        BY <1>1, <1>4, <2>1, ChangedProfile
    <2>3. /\ EntriesOnce(d)' /\ Changed(View(d), View(d)', GamesAt)
          /\ s # <<>> => View(d)'[GamesAt] = s[Len(s)].value
        <3>1. \A i \in 1..Len(s) : s[i].place = GamesAt
            BY <1>4
        <3> QED BY <1>1, <1>2, <1>5, <2>1, <2>2, <3>1, CallOnce
    <2> QED BY <1>4, <2>3
<1>7. reading'[d] # <<>> /\ reading'[d][Len(reading'[d])].games = gs
    <2>1. PICK q \in Seq(Update) : q = reading[d]
        BY DEF TypeOK
    <2>2. PICK r : r = Append(q, Fresh(d, gs))
        OBVIOUS
    <2>3. reading'[d] = r
        BY <1>1, <2>1, <2>2 DEF TypeOK
    <2>4. r # <<>> /\ r[Len(r)] = Fresh(d, gs)
        BY <2>2
    <2>5. Fresh(d, gs).games = gs
        BY DEF Fresh
    <2> QED BY <2>3, <2>4, <2>5
<1> QED BY <1>1, <1>6, <1>7 DEF Sound, QueriesSound, ReadingNew, QueriesNew, Through

\* What is read is what was written: the contents of a queue stay.
LEMMA SameContents ==
    ASSUME NEW d \in Device, tree' = tree, outbox'[d] = outbox[d]
    PROVE  View(d)' = View(d) /\ (EntriesOnce(d) => EntriesOnce(d)')
BY DEF View, EntriesOnce

\* The updates that wait may no longer be what the profile says.
LEMMA PickAgainSound ==
    ASSUME TypeOK, NEW d \in Device, NEW g \in Game, NEW has \in BOOLEAN,
           PickAgain(d, g, has), Sound(d)
    PROVE  Sound(d)'
<1>1. UNCHANGED <<tree, outbox, asking, queries, catalogue, behind>>
    BY DEF PickAgain
<1>2. /\ reading[d] # <<>> /\ reading'[d] # <<>>
      /\ \/ reading'[d][Len(reading'[d])] = reading[d][Len(reading[d])]
         \/ reading'[d][Len(reading'[d])].state = "changed"
    BY PickAgainType
<1>3. View(d)' = View(d) /\ EntriesOnce(d)'
    <2>1. EntriesOnce(d)
        BY DEF Sound
    <2> QED BY <1>1, <2>1, SameContents
<1>4. ReadingNew(d)'
    BY <1>2, <1>3 DEF Sound, ReadingNew
<1>5. QueriesSound(d)'
    BY <1>1, <1>3 DEF Sound, QueriesSound
<1>6. QueriesNew(d)' /\ Through(d)'
    BY <1>2 DEF QueriesNew, Through
<1> QED BY <1>3, <1>4, <1>5, <1>6 DEF Sound

LEMMA EditRegionSound ==
    ASSUME TypeOK, NEW d \in Device, NEW r \in Region, EditRegion(d, r), Sound(d)
    PROVE  Sound(d)'
<1>1. /\ tree' = tree /\ queries' = queries /\ catalogue' = catalogue
      /\ outbox' = [outbox EXCEPT ![d] = Append(@, Put(RegionAt, r))]
      /\ reading' = reading /\ asking' = [asking EXCEPT ![d] = Append(@, ops + 1)]
    BY DEF EditRegion, Edit
<1>2. /\ Put(RegionAt, r) \in Write /\ Put(RegionAt, r).place = RegionAt
      /\ RegionAt \in Place
    BY PutType, PlacesApart, ValuesOf
<1>3. PICK s \in Seq(Write) : s = <<Put(RegionAt, r)>>
    <2>1. PICK w \in Write : w = Put(RegionAt, r)
        BY <1>2
    <2>2. <<w>> \in Seq(Write)
        OBVIOUS
    <2> QED BY <2>1, <2>2
<1>4. \A i \in 1..Len(s) : s[i].place = RegionAt
    BY <1>2, <1>3
<1>5. outbox' = [outbox EXCEPT ![d] = @ \o s]
    <2>1. PICK q \in Seq(Write) : q = outbox[d]
        BY DEF TypeOK
    <2>2. Append(q, Put(RegionAt, r)) = q \o s
        BY <1>2, <1>3
    <2> QED BY <1>1, <2>1, <2>2
<1>6. EntriesOnce(d)' /\ View(d)'[GamesAt] = View(d)[GamesAt]
    <2>1. EntriesOnce(d) /\ OnceIn(View(d)) /\ GamesFirstIn(View(d))
        BY ViewOnce DEF Sound
    <2>2. \A c : Changed(View(d), c, RegionAt) => OnceIn(c) /\ GamesFirstIn(c)
        BY <2>1, PlacesApart, ChangedProfile
    <2>3. EntriesOnce(d)' /\ Changed(View(d), View(d)', RegionAt)
        BY <1>1, <1>2, <1>4, <1>5, <2>1, <2>2, CallOnce
    <2> QED BY <2>3, PlacesApart DEF Changed
<1>7. asking'[d] # <<>>
    <2>1. PICK q \in Seq(Key) : q = asking[d]
        BY DEF TypeOK
    <2>2. Append(q, ops + 1) # <<>>
        OBVIOUS
    <2> QED BY <1>1, <2>1, <2>2 DEF TypeOK
<1> QED BY <1>1, <1>6, <1>7 DEF Sound, QueriesSound, ReadingNew, QueriesNew, Through

LEMMA LastJoined ==
    ASSUME NEW S, NEW q \in Seq(S), NEW s \in Seq(S), s # <<>>
    PROVE  q \o s # <<>> /\ (q \o s)[Len(q \o s)] = s[Len(s)]
<1>1. /\ Len(q \o s) = Len(q) + Len(s)
      /\ \A i \in 1..(Len(q) + Len(s)) :
            (q \o s)[i] = IF i <= Len(q) THEN q[i] ELSE s[i - Len(q)]
    BY ConcatProperties, Zenon
<1>2. PICK m \in Nat, l \in Nat : m = Len(q) /\ l = Len(s) /\ l > 0
    OBVIOUS
<1>3. m + l \in 1..(m + l) /\ ~(m + l <= m) /\ (m + l) - m = l /\ m + l > 0
    BY <1>2
<1> QED BY <1>1, <1>2, <1>3

LEMMA GamesFetchedSound ==
    ASSUME TypeOK, NEW d \in Device, GamesFetched(d), Sound(d)
    PROVE  Sound(d)'
<1>1. /\ tree' = tree /\ outbox' = outbox /\ queries' = queries
      /\ catalogue' = catalogue /\ asking[d] # <<>>
    BY DEF GamesFetched
<1>2. PICK gs \in Games : gs = View(d)[GamesAt] /\ gs = Seen(d, GamesAt)
    BY ViewType, ViewSeen, PlacesApart
<1>3. EntriesOnce(d)' /\ View(d)' = View(d)
    BY <1>1, SameContents DEF Sound
<1>4. CASE gs = NoGames
    <2>1. reading' = reading
        BY <1>2, <1>4 DEF GamesFetched
    <2>2. \A g \in Game : queries[d][g] = <<>> /\ RightIn(View(d), g)
        <3>1. \A g \in Game : queries[d][g] = <<>>
            BY <1>2, <1>4 DEF Sound, QueriesSound
        <3>2. \A g \in Game : Entries(View(d), g) = {}
            BY <1>2, <1>4, ViewOnce DEF Sound, GamesFirstIn
        <3> QED BY <1>2, <1>4, <3>1, <3>2, PlayableType DEF RightIn
    <2> QED BY <1>1, <1>3, <2>1, <2>2
            DEF Sound, QueriesSound, ReadingNew, QueriesNew, Through
<1>5. CASE gs # NoGames
    <2>1. PICK keys \in Seq(Key), q \in Seq(Update) : keys = asking[d] /\ q = reading[d]
        BY DEF TypeOK
    <2>2. PICK s \in Seq(Update) : s = WithGames(keys, gs) /\ s # <<>> /\ s[Len(s)].games = gs
        <3>1. PICK s \in Seq(Update) : /\ s = WithGames(keys, gs) /\ Len(s) = Len(keys)
                                       /\ \A i \in 1..Len(keys) : s[i].games = gs
            BY <1>5, WithGamesType
        <3>2. Len(keys) \in 1..Len(keys)
            BY <1>1, <2>1
        <3> QED BY <3>1, <3>2
    <2>3. PICK r : r = q \o s /\ r # <<>> /\ r[Len(r)].games = gs
        BY <2>2, LastJoined
    <2>4. reading'[d] = r
        BY <1>2, <1>5, <2>1, <2>2, <2>3 DEF GamesFetched, TypeOK
    <2> QED BY <1>1, <1>2, <1>3, <1>5, <2>3, <2>4
            DEF Sound, QueriesSound, ReadingNew, QueriesNew, Through
<1> QED BY <1>4, <1>5

LEMMA UserFetchedSound ==
    ASSUME TypeOK, NEW d \in Device, UserFetched(d), Sound(d)
    PROVE  Sound(d)'
<1>1. /\ tree' = tree /\ outbox' = outbox /\ asking' = asking
      /\ catalogue' = catalogue /\ reading[d] # <<>>
    BY DEF UserFetched
<1>2. reading'[d] = <<>>
    BY DEF UserFetched, TypeOK
<1>3. EntriesOnce(d)' /\ View(d)' = View(d)
    BY <1>1, SameContents DEF Sound
<1>a. /\ behind' <=> \/ d \notin catalogue
                     \/ reading[d][Len(reading[d])].state = "changed"
    BY Zenon DEF UserFetched
<1>4. CASE d \notin catalogue
    <2>1. queries' = queries
        BY <1>4 DEF UserFetched
    <2>2. \A g \in Game : queries[d][g] = <<>>
        BY <1>4 DEF Sound, QueriesSound
    <2> QED BY <1>1, <1>2, <1>3, <1>4, <1>a, <2>1, <2>2
            DEF Sound, QueriesSound, ReadingNew, QueriesNew, Through
<1>5. CASE d \in catalogue
    <2>1. PICK us \in Seq(Update), r \in Region, gs \in Games :
              /\ us = reading[d] /\ r = View(d)[RegionAt] /\ r = Seen(d, RegionAt)
              /\ gs = View(d)[GamesAt]
        BY ViewType, ViewSeen, PlacesApart DEF TypeOK
    <2>2. us # <<>> /\ (~behind' => us[Len(us)].games = gs) /\ gs # NoGames
        <3>1. us # <<>> /\ (~behind' => us[Len(us)].games = gs)
            BY <1>1, <1>a, <2>1 DEF Sound, ReadingNew
        <3>2. gs # NoGames
            BY <1>1, <2>1 DEF Sound, ReadingNew
        <3> QED BY <3>1, <3>2
    <2>3. PICK s \in Seq(Query) :
              /\ s = WithRegion(us, r) /\ s # <<>> /\ s[Len(s)].region = r
              /\ ~behind' => s[Len(s)].listed = Playable(gs)
        <3>1. PICK s \in Seq(Query) :
                  /\ s = WithRegion(us, r) /\ Len(s) = Len(us)
                  /\ \A i \in 1..Len(us) :
                        s[i].listed = Playable(us[i].games) /\ s[i].region = r
            BY WithRegionType
        <3>2. Len(us) \in 1..Len(us)
            BY <2>2
        <3> QED BY <2>2, <3>1, <3>2
    <2>4. ASSUME NEW g \in Game
          PROVE  /\ queries'[d][g] # <<>>
                 /\ ~behind' =>
                        queries'[d][g][Len(queries'[d][g])].listed = Playable(gs)
                 /\ queries'[d][g][Len(queries'[d][g])].region = r
        <3>1. PICK q \in Seq(Query) : q = queries[d][g]
            BY DEF TypeOK
        <3>2. PICK t : t = q \o s /\ t # <<>> /\ t[Len(t)] = s[Len(s)]
            BY <2>3, LastJoined
        <3>3. queries'[d][g] = t
            BY <1>5, <2>1, <2>3, <3>1, <3>2 DEF UserFetched, TypeOK
        <3> QED BY <2>3, <3>2, <3>3
    <2> QED BY <1>1, <1>2, <1>3, <1>5, <2>1, <2>2, <2>4
            DEF Sound, QueriesSound, ReadingNew, QueriesNew, Through
<1> QED BY <1>4, <1>5

\* The writes of an answer have one place: the entry that is there, or the
\* one that the last update makes.
LEMMA AnsweredSound ==
    ASSUME TypeOK, NEW d \in Device, NEW g \in Game, NEW k \in Key,
           NEW s \in Seq(Write), NEW u \in Query, Alone(d), Sound(d),
           Answered(d, g, s), queries[d][g] # <<>>,
           u = queries[d][g][Len(queries[d][g])],
           \A i \in 1..Len(s) : s[i].place = EntryAt(g, k),
           Entries(View(d), g) \subseteq {k},
           s = <<>> => Entries(View(d), g) = {} /\ g \notin u.listed,
           s # <<>> => s[Len(s)].value = Wanted(u, g)
    PROVE  Sound(d)'
<1>1. /\ tree' = tree /\ reading' = reading /\ asking' = asking
      /\ catalogue' = catalogue /\ behind' = behind
      /\ outbox' = [outbox EXCEPT ![d] = @ \o s]
    BY DEF Answered
<1>2. queries'[d][g] = <<>> /\ \A h \in Game \ {g} : queries'[d][h] = queries[d][h]
    BY DEF Answered, TypeOK
<1> DEFINE b == View(d)
<1>3. /\ EntriesOnce(d) /\ QueriesSound(d) /\ ReadingNew(d) /\ QueriesNew(d)
      /\ Through(d) /\ OnceIn(b) /\ GamesFirstIn(b)
    BY ViewOnce DEF Sound
<1>4. b[GamesAt] # NoGames /\ d \in catalogue
    BY <1>3 DEF QueriesSound
<1>5. EntryAt(g, k) \in Place
    BY PlacesApart
<1> HIDE DEF b
<1>6. \A c : Changed(b, c, EntryAt(g, k)) =>
          /\ OnceIn(c) /\ GamesFirstIn(c)
          /\ c[GamesAt] = b[GamesAt] /\ c[RegionAt] = b[RegionAt]
          /\ \A h \in Game \ {g} : RightIn(b, h) => RightIn(c, h)
          /\ Entries(c, g) = IF c[EntryAt(g, k)] = NoRegion THEN {} ELSE {k}
    <2>1. OnceIn(b) /\ b[GamesAt] # NoGames /\ Entries(b, g) \subseteq {k}
        BY <1>3, <1>4 DEF b
    <2>2. PICK a : a = b
        OBVIOUS
    <2>3. ASSUME NEW c, Changed(a, c, EntryAt(g, k))
          PROVE  /\ OnceIn(c) /\ GamesFirstIn(c)
                 /\ c[GamesAt] = a[GamesAt] /\ c[RegionAt] = a[RegionAt]
                 /\ \A h \in Game \ {g} : RightIn(a, h) => RightIn(c, h)
                 /\ Entries(c, g) = IF c[EntryAt(g, k)] = NoRegion THEN {} ELSE {k}
        BY <2>1, <2>2, <2>3, ChangedEntry
    <2> QED BY <2>2, <2>3
<1>7. PICK c : c = View(d)'
    OBVIOUS
<1>8. /\ EntriesOnce(d)' /\ Changed(b, c, EntryAt(g, k))
      /\ s # <<>> => c[EntryAt(g, k)] = s[Len(s)].value
      /\ s = <<>> => c = b
    BY <1>1, <1>3, <1>5, <1>6, <1>7, CallOnce DEF b
<1>9. /\ c[GamesAt] = b[GamesAt] /\ c[RegionAt] = b[RegionAt]
      /\ \A h \in Game \ {g} : RightIn(b, h) => RightIn(c, h)
      /\ Entries(c, g) = IF c[EntryAt(g, k)] = NoRegion THEN {} ELSE {k}
    BY <1>6, <1>8
<1>10. ASSUME ~behind, asking[d] = <<>>, reading[d] = <<>> PROVE RightIn(c, g)
    <2>1. /\ u.listed = Playable(b[GamesAt]) /\ u.region = b[RegionAt]
          /\ u.region # NoRegion
        <3>1. u.listed = Playable(b[GamesAt]) /\ u.region = b[RegionAt]
            BY <1>3, <1>10 DEF QueriesNew, b
        <3> QED BY <3>1, ListingRegions DEF Query
    <2>2. CASE s = <<>>
        BY <1>8, <2>1, <2>2 DEF RightIn, b
    <2>3. CASE s # <<>>
        <3>1. c[EntryAt(g, k)] = IF g \in Playable(c[GamesAt])
                                THEN c[RegionAt] ELSE NoRegion
            BY <1>8, <1>9, <2>1, <2>3 DEF Wanted
        <3> QED BY <1>9, <2>1, <3>1 DEF RightIn
    <2> QED BY <2>2, <2>3
<1>11. Through(d)'
    <2> SUFFICES ASSUME ~behind, asking[d] = <<>>, reading[d] = <<>>, NEW h \in Game,
                        queries'[d][h] = <<>>
                 PROVE  RightIn(c, h)
        BY <1>1, <1>7 DEF Through
    <2>1. CASE h = g
        BY <1>10, <2>1
    <2>2. CASE h # g
        <3>1. RightIn(b, h)
            BY <1>2, <1>3, <2>2 DEF Through, b
        <3> QED BY <1>9, <2>2, <3>1
    <2> QED BY <2>1, <2>2
<1>12. QueriesSound(d)'
    BY <1>1, <1>2, <1>4, <1>7, <1>9 DEF QueriesSound
<1>13. ReadingNew(d)'
    BY <1>1, <1>3, <1>7, <1>9 DEF ReadingNew, b
<1>14. QueriesNew(d)'
    BY <1>1, <1>2, <1>3, <1>7, <1>9 DEF QueriesNew, b
<1> QED BY <1>8, <1>11, <1>12, <1>13, <1>14 DEF Sound

LEMMA QueryAnsweredSound ==
    ASSUME TypeOK, NEW d \in Device, NEW g \in Game, QueryAnswered(d, g), ~missed',
           Alone(d), Sound(d)
    PROVE  Sound(d)'
<1>1. PICK us \in Seq(Query), l \in Nat :
          us = queries[d][g] /\ l = Len(us) /\ us # <<>> /\ l > 0
    BY DEF TypeOK, QueryAnswered
<1>2. PICK u \in Query : u = us[l] /\ u = queries[d][g][Len(queries[d][g])]
    BY <1>1
<1>3. Found(d, g) = Entries(View(d), g) /\ OnceIn(View(d))
    BY ViewType, ViewOnce DEF Sound
<1>4. ASSUME NEW k \in Found(d, g), Answered(d, g, FoundWrites(us, g, k))
      PROVE  Sound(d)'
    <2>1. k \in Key /\ Entries(View(d), g) \subseteq {k}
        BY <1>3 DEF OnceIn, Found
    <2>2. PICK s \in Seq(Write) :
              /\ s = FoundWrites(us, g, k) /\ Len(s) = l
              /\ \A i \in 1..l : s[i].place = EntryAt(g, k) /\ s[i].value = Wanted(us[i], g)
        BY <1>1, <2>1, FoundType
    <2>3. s # <<>> /\ l \in 1..l
        BY <1>1, <2>2
    <2>4. s[Len(s)].value = Wanted(u, g)
        BY <1>2, <2>2, <2>3
    <2>5. \A i \in 1..Len(s) : s[i].place = EntryAt(g, k)
        BY <2>2
    <2>6. Answered(d, g, s) /\ queries[d][g] # <<>>
        BY <1>1, <1>4, <2>2
    <2> QED BY <1>2, <2>1, <2>3, <2>4, <2>5, <2>6, AnsweredSound
<1>5. ASSUME Found(d, g) = {}, ~AddsUnseen(us, g),
             NEW f \in InOrder(Adding(us, g)), Answered(d, g, FreshWrites(us, g, f))
      PROVE  Sound(d)'
    <2>1. Adding(us, g) = IF g \in u.listed THEN {l} ELSE {}
        <3>1. \A i \in 1..l : i < l => g \notin us[i].listed
            BY <1>1, <1>5 DEF AddsUnseen
        <3>2. l \in 1..l /\ DOMAIN us = 1..l
            BY <1>1
        <3>3. \A i \in 1..l : i < l \/ i = l
            OBVIOUS
        <3>4. \A i \in DOMAIN us : g \in us[i].listed <=> i = l /\ g \in u.listed
            BY <1>2, <3>1, <3>2, <3>3
        <3> QED BY <3>2, <3>4 DEF Adding
    <2>2. PICK s \in Seq(Write), n \in Nat :
              /\ s = FreshWrites(us, g, f) /\ Len(s) = n
              /\ n = Cardinality(Adding(us, g))
              /\ \A i \in 1..n :
                    /\ f[i] \in Adding(us, g)
                    /\ s[i].place = EntryAt(g, us[f[i]].key)
                    /\ s[i].value = us[f[i]].region
        BY FreshType
    <2>3. PICK k \in Key : k = u.key
        BY DEF Query
    <2>4. Answered(d, g, s) /\ queries[d][g] # <<>> /\ Entries(View(d), g) = {}
        BY <1>1, <1>3, <1>5, <2>2
    <2>5. CASE g \in u.listed
        <3>1. Adding(us, g) = {l}
            BY <2>1, <2>5
        <3>2. n = 1
            BY <2>2, <3>1, FS_Singleton
        <3>3. n \in 1..n /\ n > 0
            BY <3>2
        <3>4. f[n] = l
            BY <2>2, <3>1, <3>3
        <3>5. s[n].place = EntryAt(g, k) /\ s[n].value = Wanted(u, g)
            BY <1>2, <2>2, <2>3, <2>5, <3>3, <3>4 DEF Wanted
        <3>6. s # <<>> /\ s[Len(s)].value = Wanted(u, g)
            BY <2>2, <3>3, <3>5
        <3>7. \A i \in 1..Len(s) : s[i].place = EntryAt(g, k)
            BY <2>2, <3>2, <3>5
        <3> QED BY <1>2, <2>4, <3>6, <3>7, AnsweredSound
    <2>6. CASE g \notin u.listed
        <3>1. Len(s) = 0
            BY <2>1, <2>2, <2>6, FS_EmptySet
        <3>2. s = <<>> /\ \A i \in 1..Len(s) : s[i].place = EntryAt(g, k)
            BY <3>1
        <3> QED BY <1>2, <2>4, <2>6, <3>2, AnsweredSound
    <2> QED BY <2>5, <2>6
<1> QED BY <1>1, <1>4, <1>5 DEF QueryAnswered

LEMMA ContentTail ==
    ASSUME NEW data, NEW new, NEW q \in Seq(Write), q # <<>>,
           NEW n \in 0..(Len(q) - 1),
           \A p \in Place : new[p] = IF q[1].place = p THEN q[1].value ELSE data[p]
    PROVE  Content(new, Tail(q), n) = Content(data, q, n + 1)
<1>1. ASSUME NEW p \in Place PROVE After(new, Tail(q), n, p) = After(data, q, n + 1, p)
    BY AfterTail
<1> QED BY <1>1 DEF Content

LEMMA DeliverSound ==
    ASSUME TypeOK, NEW d \in Device, Deliver(d), Sound(d)
    PROVE  Sound(d)'
<1>1. /\ asking' = asking /\ reading' = reading /\ queries' = queries
      /\ catalogue' = catalogue /\ behind' = behind
    BY DEF Deliver
<1>2. PICK q \in Seq(Write), m \in Nat :
          /\ q = outbox[d] /\ q # <<>> /\ m = Len(q) /\ m > 0 /\ Len(Tail(q)) = m - 1
          /\ tree' = [tree EXCEPT ![q[1].place] = q[1].value]
          /\ outbox'[d] = Tail(q)
    <2>1. PICK q \in Seq(Write) : q = outbox[d] /\ q # <<>>
        BY DEF TypeOK, Deliver
    <2>2. Head(q) = q[1] /\ Len(q) \in Nat /\ Len(q) > 0 /\ Len(Tail(q)) = Len(q) - 1
        BY <2>1, TailElements
    <2> QED BY <2>1, <2>2 DEF Deliver, TypeOK
<1>3. PICK t : t = tree /\ \A p \in Place :
          tree'[p] = IF q[1].place = p THEN q[1].value ELSE t[p]
    BY <1>2 DEF TypeOK
<1>4. ASSUME NEW n \in 0..(m - 1)
      PROVE  Content(tree', Tail(q), n) = Content(t, q, n + 1)
    <2>1. PICK u : u = tree' /\ \A p \in Place :
              u[p] = IF q[1].place = p THEN q[1].value ELSE t[p]
        BY <1>3
    <2>2. n \in 0..(Len(q) - 1) /\ q # <<>>
        BY <1>2
    <2> QED BY <2>1, <2>2, ContentTail
<1>5. View(d)' = View(d)
    <2>1. m - 1 \in 0..(m - 1) /\ (m - 1) + 1 = m
        BY <1>2
    <2> QED BY <1>2, <1>3, <1>4, <2>1 DEF View
<1>6. EntriesOnce(d)'
    <2> SUFFICES ASSUME NEW n \in 0..Len(outbox'[d])
                 PROVE  /\ OnceIn(Content(tree', outbox'[d], n))
                        /\ GamesFirstIn(Content(tree', outbox'[d], n))
        BY DEF EntriesOnce
    <2>1. n \in 0..(m - 1) /\ n + 1 \in 0..Len(outbox[d])
        BY <1>2
    <2>2. Content(tree', outbox'[d], n) = Content(tree, outbox[d], n + 1)
        BY <1>2, <1>3, <1>4, <2>1
    <2> QED BY <2>1, <2>2 DEF Sound, EntriesOnce
<1>7. Alone(d)' => Alone(d)
    <2>1. \A e \in Device \ {d} : outbox'[e] = outbox[e]
        BY DEF Deliver, TypeOK
    <2> QED BY <1>1, <2>1 DEF Alone, Busy
<1> QED BY <1>1, <1>5, <1>6, <1>7
        DEF Sound, QueriesSound, ReadingNew, QueriesNew, Through

\* A device that is killed while it has something under way is behind.
LEMMA CrashSound ==
    ASSUME TypeOK, NEW d \in Device, Crash(d), Busy(d), Sound(d)
    PROVE  Sound(d)'
<1>1. /\ tree' = tree /\ outbox'[d] = <<>> /\ asking'[d] = <<>> /\ reading'[d] = <<>>
      /\ (\A g \in Game : queries'[d][g] = <<>>) /\ behind' = TRUE
    BY DEF Crash, TypeOK
<1>2. PICK b : b = Content(tree, outbox[d], 0) /\ b = tree /\ OnceIn(b) /\ GamesFirstIn(b)
    <2>1. 0 \in 0..Len(outbox[d])
        BY DEF TypeOK
    <2> QED BY <2>1, ContentNone DEF Sound, EntriesOnce
<1>3. \A n \in 0..Len(outbox'[d]) : n = 0
    BY <1>1
<1>4. Content(tree, outbox[d], 0)' = b
    <2>1. PICK q : q = outbox'[d]
        OBVIOUS
    <2>2. Content(tree, q, 0) = tree
        BY ContentNone
    <2> QED BY <1>1, <1>2, <2>1, <2>2
<1>5. EntriesOnce(d)'
    BY <1>2, <1>3, <1>4 DEF EntriesOnce
<1> QED BY <1>1, <1>5 DEF Sound, QueriesSound, ReadingNew, QueriesNew, Through

\* With one device at work, the others see the server's data, and so does it
\* once it is through.
Focused ==
    \A d \in Device : Alone(d) /\ Sound(d) => OneBusy /\ \A e \in Device : Sound(e)

LEMMA Focus == TypeOK => Focused
<1> SUFFICES ASSUME TypeOK, NEW d \in Device, Alone(d), Sound(d)
             PROVE  OneBusy /\ \A e \in Device : Sound(e)
    BY DEF Focused
<1>1. OneBusy
    BY DEF OneBusy, Alone
<1>2. ASSUME NEW e \in Device, e # d PROVE Sound(e)
    <2>1. /\ asking[e] = <<>> /\ reading[e] = <<>> /\ outbox[e] = <<>>
          /\ \A g \in Game : queries[e][g] = <<>>
        BY <1>2 DEF Alone, Busy
    <2>2. View(e) = tree /\ Content(tree, outbox[e], 0) = tree
        BY <2>1, ContentNone DEF View
    <2>3. OnceIn(tree) /\ GamesFirstIn(tree)
        <3>1. 0 \in 0..Len(outbox[d])
            BY DEF TypeOK
        <3>2. Content(tree, outbox[d], 0) = tree
            BY ContentNone
        <3> QED BY <3>1, <3>2 DEF Sound, EntriesOnce
    <2>4. EntriesOnce(e)
        <3>1. \A n \in 0..Len(outbox[e]) : n = 0
            BY <2>1
        <3> QED BY <2>2, <2>3, <3>1 DEF EntriesOnce
    <2>5. Through(e)
        <3> SUFFICES ASSUME ~behind, Alone(e), NEW g \in Game PROVE RightIn(tree, g)
            BY <2>2 DEF Through
        <3>1. /\ asking[d] = <<>> /\ reading[d] = <<>> /\ outbox[d] = <<>>
              /\ queries[d][g] = <<>>
            BY <1>2 DEF Alone, Busy
        <3>2. View(d) = tree
            BY <3>1, ContentNone DEF View
        <3> QED BY <3>1, <3>2 DEF Sound, Through
    <2> QED BY <2>1, <2>4, <2>5 DEF Sound, QueriesSound, ReadingNew, QueriesNew
<1> QED BY <1>1, <1>2

\* Steps that no queue and no update notices.
LEMMA Rest ==
    ASSUME UNCHANGED <<tree, outbox, asking, reading, queries, behind>>,
           \A e \in Device : e \in catalogue /\ Busy(e) => e \in catalogue',
           OneBusy, \A d \in Device : Sound(d)
    PROVE  OneBusy' /\ \A d \in Device : Sound(d)'
<1>1. \A e \in Device : Busy(e)' <=> Busy(e)
    BY DEF Busy
<1>2. OneBusy'
    BY <1>1 DEF OneBusy
<1>3. ASSUME NEW d \in Device PROVE Sound(d)'
    <2>1. EntriesOnce(d)' /\ View(d)' = View(d) /\ (Alone(d)' <=> Alone(d))
        BY <1>1, SameContents DEF Sound, Alone
    <2>2. QueriesSound(d)'
        BY <2>1 DEF Sound, QueriesSound, Busy
    <2>3. ReadingNew(d)'
        BY <2>1 DEF Sound, ReadingNew
    <2>4. QueriesNew(d)'
        BY <2>1 DEF Sound, QueriesNew
    <2>5. Through(d)'
        BY <2>1 DEF Sound, Through
    <2> QED BY <2>1, <2>2, <2>3, <2>4, <2>5 DEF Sound
<1> QED BY <1>2, <1>3

\* A device without anything under way loses the list of all games only.
LEMMA IdleCrash ==
    ASSUME TypeOK, NEW d \in Device, Crash(d), ~Busy(d)
    PROVE  /\ UNCHANGED <<tree, outbox, asking, reading, queries, behind>>
           /\ \A e \in Device : e \in catalogue /\ Busy(e) => e \in catalogue'
<1>1. /\ outbox[d] = <<>> /\ asking[d] = <<>> /\ reading[d] = <<>>
      /\ \A g \in Game : queries[d][g] = <<>>
    BY DEF Busy
<1>2. queries[d] = [g \in Game |-> <<>>]
    BY <1>1 DEF TypeOK
<1>3. outbox' = outbox /\ asking' = asking /\ reading' = reading
    BY <1>1 DEF Crash, TypeOK
<1>4. queries' = queries
    BY <1>2 DEF Crash, TypeOK
<1> QED BY <1>3, <1>4 DEF Crash, TypeOK

\* What one device does leaves the others as they are.
LEMMA OthersIdle ==
    ASSUME TypeOK, NEW d \in Device, Alone(d),
           \A e \in Device \ {d} :
               /\ outbox'[e] = outbox[e] /\ asking'[e] = asking[e]
               /\ reading'[e] = reading[e] /\ queries'[e] = queries[e]
    PROVE  Alone(d)'
BY DEF Alone, Busy

LEMMA InitListInv == Init => ListInv
<1> SUFFICES ASSUME Init PROVE ListInv
    OBVIOUS
<1>1. TypeOK
    BY InitTypeOK
<1>2. /\ tree[GamesAt] = NoGames
      /\ \A g \in Game : Entries(tree, g) = {}
    <2>1. tree[GamesAt] = NoGames
        BY PlacesApart DEF Init
    <2>2. \A g \in Game : \A k \in Key : tree[EntryAt(g, k)] = NoRegion
        BY PlacesApart DEF Init
    <2> QED BY <2>1, <2>2 DEF Entries
<1>3. OnceIn(tree) /\ GamesFirstIn(tree) /\ \A g \in Game : RightIn(tree, g)
    BY <1>2, PlayableType DEF OnceIn, GamesFirstIn, RightIn
<1>4. ASSUME NEW d \in Device PROVE Sound(d) /\ ~Busy(d)
    <2>1. /\ outbox[d] = <<>> /\ asking[d] = <<>> /\ reading[d] = <<>>
          /\ \A g \in Game : queries[d][g] = <<>>
        BY DEF Init
    <2>2. View(d) = tree /\ Content(tree, outbox[d], 0) = tree
        BY <1>1, <2>1, ContentNone DEF View
    <2>3. EntriesOnce(d)
        <3>1. \A n \in 0..Len(outbox[d]) : n = 0
            BY <2>1
        <3> QED BY <1>3, <2>2, <3>1 DEF EntriesOnce
    <2> QED BY <1>3, <2>1, <2>2, <2>3
            DEF Sound, QueriesSound, ReadingNew, QueriesNew, Through, Busy
<1> QED BY <1>3, <1>4 DEF ListInv, NoDevice, OneBusy

\* One device acts; if it is not the only one at work, edits have met.
LEMMA NextListInv == TypeOK /\ TypeOK' /\ ListInv /\ [Next]_vars => ListInv'
<1> SUFFICES ASSUME TypeOK, TypeOK', ListInv, [Next]_vars PROVE ListInv'
    OBVIOUS
<1>1. NoDevice'
    <2>1. CASE Device = {}
        <3>1. tree' = tree
            BY <2>1 DEF Next, vars
        <3> QED BY <2>1, <3>1 DEF ListInv, NoDevice
    <2>2. CASE Device # {}
        BY <2>2 DEF NoDevice
    <2> QED BY <2>1, <2>2
<1> SUFFICES ASSUME ~crossed', ~missed'
             PROVE  OneBusy' /\ \A d \in Device : Sound(d)'
    BY <1>1 DEF ListInv
<1>2. ~crossed /\ ~missed
    <2>1. ASSUME NEW d \in Device, NEW w, Edit(d, w) PROVE ~crossed /\ ~missed
        BY <2>1 DEF Edit
    <2>2. ASSUME NEW d \in Device, NEW g \in Game, QueryAnswered(d, g)
          PROVE  ~crossed /\ ~missed
        <3>1. crossed' = crossed
            BY <2>2 DEF QueryAnswered, Answered
        <3>2. \/ missed' = missed
              \/ missed' = (missed \/ AddsUnseen(queries[d][g], g))
            BY <2>2 DEF QueryAnswered
        <3>3. ~crossed
            BY <3>1
        <3>4. ~missed
            BY <3>2, Zenon
        <3> QED BY <3>3, <3>4
    <2>3. CASE UNCHANGED <<crossed, missed>>
        BY <2>3
    <2> QED BY <2>1, <2>2, <2>3
            DEF Next, vars, UpdateUserGames, PickAgain, EditRegion, GamesFetched,
                UserFetched, FetchAllGames, Deliver, Crash
<1>3. OneBusy /\ \A d \in Device : Sound(d)
    BY <1>2 DEF ListInv
<1>4. ASSUME NEW d \in Device, Alone(d)', Sound(d)'
      PROVE  OneBusy' /\ \A e \in Device : Sound(e)'
    <2>1. Focused'
        BY Focus, PTL
    <2> QED BY <1>4, <2>1 DEF Focused
<1>5. ASSUME NEW d \in Device, Busy(d) PROVE Alone(d)
    BY <1>3, <1>5 DEF OneBusy, Alone
<1>6. ASSUME NEW d \in Device, NEW gs \in Games, UpdateUserGames(d, gs)
      PROVE  OneBusy' /\ \A e \in Device : Sound(e)'
    <2>1. Alone(d)
        BY <1>6 DEF UpdateUserGames, Edit, Alone
    <2>2. Alone(d)'
        BY <1>6, <2>1, OthersIdle DEF UpdateUserGames, Edit, TypeOK
    <2> QED BY <1>3, <1>4, <1>6, <2>2, UpdateUserGamesSound
<1>7. ASSUME NEW d \in Device, NEW r \in Region, EditRegion(d, r)
      PROVE  OneBusy' /\ \A e \in Device : Sound(e)'
    <2>1. Alone(d)
        BY <1>7 DEF EditRegion, Edit, Alone
    <2>2. Alone(d)'
        BY <1>7, <2>1, OthersIdle DEF EditRegion, Edit, TypeOK
    <2> QED BY <1>3, <1>4, <1>7, <2>2, EditRegionSound
<1>8. ASSUME NEW d \in Device, GamesFetched(d)
      PROVE  OneBusy' /\ \A e \in Device : Sound(e)'
    <2>1. Alone(d)
        BY <1>5, <1>8 DEF GamesFetched, Busy
    <2>2. Alone(d)'
        BY <1>8, <2>1, OthersIdle DEF GamesFetched, TypeOK
    <2> QED BY <1>3, <1>4, <1>8, <2>2, GamesFetchedSound
<1>9. ASSUME NEW d \in Device, UserFetched(d)
      PROVE  OneBusy' /\ \A e \in Device : Sound(e)'
    <2>1. Alone(d)
        BY <1>5, <1>9 DEF UserFetched, Busy
    <2>2. Alone(d)'
        BY <1>9, <2>1, OthersIdle DEF UserFetched, TypeOK
    <2> QED BY <1>3, <1>4, <1>9, <2>2, UserFetchedSound
<1>10. ASSUME NEW d \in Device, FetchAllGames(d)
       PROVE  OneBusy' /\ \A e \in Device : Sound(e)'
    BY <1>3, <1>10, Rest DEF FetchAllGames
<1>11. ASSUME NEW d \in Device, NEW g \in Game, QueryAnswered(d, g)
       PROVE  OneBusy' /\ \A e \in Device : Sound(e)'
    <2>1. Alone(d)
        BY <1>5, <1>11 DEF QueryAnswered, Busy
    <2>2. PICK s : Answered(d, g, s)
        BY <1>11 DEF QueryAnswered
    <2>3. Alone(d)'
        BY <2>1, <2>2, OthersIdle DEF Answered, TypeOK
    <2> QED BY <1>3, <1>4, <1>11, <2>1, <2>3, QueryAnsweredSound
<1>12. ASSUME NEW d \in Device, Deliver(d)
       PROVE  OneBusy' /\ \A e \in Device : Sound(e)'
    <2>1. Alone(d)
        BY <1>5, <1>12 DEF Deliver, Busy
    <2>2. Alone(d)'
        BY <1>12, <2>1, OthersIdle DEF Deliver, TypeOK
    <2> QED BY <1>3, <1>4, <1>12, <2>2, DeliverSound
<1>13. ASSUME NEW d \in Device, Crash(d)
       PROVE  OneBusy' /\ \A e \in Device : Sound(e)'
    <2>1. CASE Busy(d)
        <3>1. Alone(d)'
            BY <1>5, <1>13, <2>1, OthersIdle DEF Crash, TypeOK
        <3> QED BY <1>3, <1>4, <1>13, <2>1, <3>1, CrashSound
    <2>2. CASE ~Busy(d)
        BY <1>3, <1>13, <2>2, IdleCrash, Rest
    <2> QED BY <2>1, <2>2
<1>14. ASSUME NEW d \in Device, NEW g \in Game, NEW has \in BOOLEAN,
              PickAgain(d, g, has)
       PROVE  OneBusy' /\ \A e \in Device : Sound(e)'
    <2>1. Alone(d)
        <3>1. reading[d] # <<>>
            BY <1>14, PickAgainType
        <3> QED BY <1>5, <3>1 DEF Busy
    <2>2. Alone(d)'
        BY <1>14, <2>1, OthersIdle DEF PickAgain, TypeOK
    <2> QED BY <1>3, <1>4, <1>14, <2>2, PickAgainSound
<1>15. CASE UNCHANGED vars
    BY <1>3, <1>15, Rest DEF vars
<1> QED
    BY <1>6, <1>7, <1>8, <1>9, <1>10, <1>11, <1>12, <1>13, <1>14, <1>15 DEF Next

------------------------------------------------------------------------------

\* A device without writes of its own sees the server's data.
LEMMA ListInvAgrees == TypeOK /\ ListInv => ListingAgrees
<1> SUFFICES ASSUME TypeOK, ListInv, ~crossed, ~missed, ~behind,
                    \A d \in Device : ~Busy(d), NEW g \in Game
             PROVE  RightIn(tree, g)
    BY DEF ListingAgrees, RightIn, Used, Entries
<1>1. CASE Device = {}
    BY <1>1 DEF ListInv, NoDevice
<1>2. ASSUME NEW d \in Device PROVE RightIn(tree, g)
    <2>1. outbox[d] = <<>> /\ asking[d] = <<>> /\ reading[d] = <<>> /\ queries[d][g] = <<>>
        BY DEF Busy
    <2>2. View(d) = tree
        BY <2>1, ContentNone DEF View
    <2> QED BY <2>1, <2>2 DEF ListInv, Sound, Through, Alone
<1> QED BY <1>1, <1>2

LEMMA ListInvOnce == TypeOK /\ ListInv => ListedOnce
<1> SUFFICES ASSUME TypeOK, ListInv, ~crossed, ~missed, NEW g \in Game
             PROVE  Cardinality(Used(g)) <= 1
    BY DEF ListedOnce
<1>1. OnceIn(tree)
    <2>1. CASE Device = {}
        BY <2>1 DEF ListInv, NoDevice
    <2>2. ASSUME NEW d \in Device PROVE OnceIn(tree)
        <3>1. 0 \in 0..Len(outbox[d])
            BY DEF TypeOK
        <3>2. Content(tree, outbox[d], 0) = tree
            BY ContentNone
        <3> QED BY <3>1, <3>2 DEF ListInv, Sound, EntriesOnce
    <2> QED BY <2>1, <2>2
<1>2. \A k \in Used(g) : \A l \in Used(g) : k = l
    BY <1>1 DEF OnceIn, Used, Entries
<1>3. CASE Used(g) = {}
    BY <1>3, FS_EmptySet
<1>4. ASSUME NEW k \in Used(g) PROVE Cardinality(Used(g)) <= 1
    <2>1. Used(g) = {k}
        BY <1>2
    <2>2. Cardinality({k}) = 1
        BY FS_Singleton
    <2> QED BY <2>1, <2>2
<1> QED BY <1>3, <1>4

LEMMA ListInvariant == Spec => [](TypeOK /\ ListInv)
<1>1. Init => TypeOK /\ ListInv
    BY InitTypeOK, InitListInv
<1>2. TypeOK /\ ListInv /\ [Next]_vars => (TypeOK /\ ListInv)'
    BY NextTypeOK, NextListInv
<1> QED BY <1>1, <1>2, PTL DEF Spec

\* Once the updates of one device are through, the entries of the user are
\* those of the profile's games, with its region (updateUserLFG), unless edits
\* on two devices met, two updates found no entry or the last one was lost.
THEOREM EntriesRight == Spec => []ListingAgrees
BY ListInvariant, ListInvAgrees, PTL

\* No game has two entries of the user at any time, whatever was killed, under
\* the first two exceptions (the query of updateUserLFG reuses the key found).
THEOREM OneEntryPerGame == Spec => []ListedOnce
BY ListInvariant, ListInvOnce, PTL

=============================================================================
