----------------------------- MODULE SessionProofs -----------------------------
(***************************************************************************)
(* Proofs about Session, for every set of users and of partners and every  *)
(* number of sign-ins, failed sign-outs, changes and restarts.             *)
(***************************************************************************)
EXTENDS Session, SequenceTheorems, TLAPS

(* Sequences *)

LEMMA AppendFacts ==
    ASSUME NEW S, NEW q \in Seq(S), NEW x \in S
    PROVE  /\ Append(q, x) \in Seq(S)
           /\ DOMAIN q = 1..Len(q) /\ Len(q) \in Nat
           /\ DOMAIN Append(q, x) = 1..(Len(q) + 1)
           /\ \A i \in DOMAIN q : Append(q, x)[i] = q[i]
           /\ Append(q, x)[Len(q) + 1] = x
OBVIOUS

LEMMA TailFacts ==
    ASSUME NEW S, NEW q \in Seq(S), q # <<>>
    PROVE  /\ Tail(q) \in Seq(S)
           /\ DOMAIN q = 1..Len(q) /\ Len(q) \in Nat /\ 1 \in DOMAIN q
           /\ Head(q) = q[1] /\ Head(q) \in S
           /\ DOMAIN Tail(q) = 1..(Len(q) - 1)
           /\ \A i \in DOMAIN Tail(q) : i + 1 \in DOMAIN q /\ Tail(q)[i] = q[i + 1]
OBVIOUS

LEMMA IsRounds ==
    ASSUME NEW n \in Nat, NEW rs, DOMAIN rs = 1..n,
           rs = [i \in DOMAIN rs |-> rs[i]], \A i \in 1..n : rs[i] \in Round
    PROVE  rs \in Seq(Round)
<1>1. rs \in [1..n -> Round]
    OBVIOUS
<1> QED BY <1>1

\* Rounds grow old in place.
LEMMA AgeFacts ==
    ASSUME NEW rs \in Seq(Round), NEW n
    PROVE  /\ DOMAIN Age(rs, n) = DOMAIN rs
           /\ \A i \in DOMAIN rs : /\ Age(rs, n)[i] \in Round
                                   /\ Age(rs, n)[i].owner = rs[i].owner
                                   /\ Age(rs, n)[i].value = rs[i].value
           /\ Age(rs, n) \in Seq(Round)
<1>1. ASSUME NEW i \in DOMAIN rs
      PROVE  /\ Age(rs, n)[i] = [rs[i] EXCEPT !.old = rs[i].old \/ i <= n]
             /\ rs[i] \in Round
    BY DEF Age
<1>2. ASSUME NEW r \in Round, NEW b \in BOOLEAN
      PROVE  /\ [r EXCEPT !.old = b] \in Round
             /\ [r EXCEPT !.old = b].owner = r.owner
             /\ [r EXCEPT !.old = b].value = r.value
    BY DEF Round
<1>3. \A i \in DOMAIN rs : (rs[i].old \/ i <= n) \in BOOLEAN
    OBVIOUS
<1>4. ASSUME NEW i \in DOMAIN rs
      PROVE  /\ Age(rs, n)[i] \in Round
             /\ Age(rs, n)[i].owner = rs[i].owner
             /\ Age(rs, n)[i].value = rs[i].value
    <2> DEFINE b == rs[i].old \/ i <= n
    <2>1. b \in BOOLEAN
        OBVIOUS
    <2>2. Age(rs, n)[i] = [rs[i] EXCEPT !.old = b] /\ rs[i] \in Round
        BY <1>1
    <2> HIDE DEF b
    <2> QED BY <1>2, <2>1, <2>2
<1>5. DOMAIN Age(rs, n) = DOMAIN rs
    BY DEF Age
<1>6. Age(rs, n) \in Seq(Round)
    <2>1. DOMAIN rs = 1..Len(rs) /\ Len(rs) \in Nat
        OBVIOUS
    <2>2. Age(rs, n) = [i \in DOMAIN Age(rs, n) |-> Age(rs, n)[i]]
        BY DEF Age
    <2> HIDE DEF Age
    <2> QED BY <1>4, <1>5, <2>1, <2>2, IsRounds
<1> QED BY <1>4, <1>5, <1>6

\* A round that has ended is taken out; the others stay.
LEMMA EndedFacts ==
    ASSUME NEW rs \in Seq(Round), NEW i \in DOMAIN rs
    PROVE  /\ Ended(rs, i) \in Seq(Round)
           /\ \A j \in DOMAIN Ended(rs, i) : \E k \in DOMAIN rs :
                 /\ Ended(rs, i)[j].owner = rs[k].owner
                 /\ Ended(rs, i)[j].value = rs[k].value
<1> DEFINE q == Ended(rs, i)
<1>0. q = [j \in 1..(Len(rs) - 1) |-> Age(rs, i)[IF j < i THEN j ELSE j + 1]]
    BY DEF Ended
<1> HIDE DEF q
<1>1. DOMAIN rs = 1..Len(rs) /\ Len(rs) \in Nat /\ i \in 1..Len(rs)
    OBVIOUS
<1>2. Len(rs) - 1 \in Nat /\ DOMAIN q = 1..(Len(rs) - 1)
    BY <1>0, <1>1
<1>3. ASSUME NEW j \in 1..(Len(rs) - 1)
      PROVE  /\ q[j] \in Round
             /\ \E k \in DOMAIN rs :
                   q[j].owner = rs[k].owner /\ q[j].value = rs[k].value
    <2> DEFINE k == IF j < i THEN j ELSE j + 1
    <2>1. k \in DOMAIN rs /\ q[j] = Age(rs, i)[k]
        BY <1>0, <1>1
    <2> HIDE DEF k
    <2>2. /\ Age(rs, i)[k] \in Round
          /\ Age(rs, i)[k].owner = rs[k].owner
          /\ Age(rs, i)[k].value = rs[k].value
        BY <2>1, AgeFacts
    <2> QED BY <2>1, <2>2
<1>4. q = [j \in DOMAIN q |-> q[j]]
    BY <1>0
<1>5. q \in Seq(Round)
    BY <1>2, <1>3, <1>4, IsRounds
<1> QED BY <1>2, <1>3, <1>5 DEF q

(* Types, and the values the rounds carry *)

\* What will be shown is a value the database held for a user signed in since
\* the start of the app.
RoundsHeld ==
    /\ \A u \in User : <<u, tree[u]>> \in held
    /\ \A i \in DOMAIN rounds :
          rounds[i].owner \in past /\ <<rounds[i].owner, rounds[i].value>> \in held

Inv == TypeOK /\ RoundsHeld

LEMMA ReadableType == \A v \in Value : Readable(v) \in Value
BY DEF Readable, Value

LEMMA ClearType ==
    ASSUME TypeOK, ClearDataAndObservers, past' = past
    PROVE  /\ due' \subseteq observed' /\ observed' \subseteq past'
           /\ shown' \in (User \X Value) \cup {Nothing}
BY DEF TypeOK, ClearDataAndObservers

LEMMA WriteType ==
    ASSUME TypeOK, NEW b \in BOOLEAN, viewer # NoOne
    PROVE  Append(outbox, [user |-> viewer, on |-> b]) \in Seq(Write)
<1>1. [user |-> viewer, on |-> b] \in Write
    BY DEF TypeOK, Write
<1> QED BY <1>1, AppendFacts DEF TypeOK

\* The sign-in state of a step that leaves lists and rounds alone.
LEMMA RoundsKept ==
    ASSUME RoundsHeld, past \subseteq past', UNCHANGED <<tree, rounds, held>>
    PROVE  RoundsHeld'
BY DEF RoundsHeld

LEMMA InvStep ==
    ASSUME Inv, [Next]_vars
    PROVE  Inv'
<1> USE DEF Inv
<1>1. ASSUME NEW u \in User, NEW v \in Value, Change(u, v)
      PROVE  Inv'
    <2>1. TypeOK'
        BY <1>1 DEF Change, TypeOK, tokens
    <2>2. \A w \in User : <<w, tree'[w]>> \in held'
        BY <1>1 DEF Change, TypeOK, RoundsHeld
    <2>3. RoundsHeld'
        BY <1>1, <2>2 DEF Change, RoundsHeld
    <2> QED BY <2>1, <2>3
<1>2. ASSUME NEW u \in User, ObserveAtOnce(u)
      PROVE  Inv'
    <2>1. tree[u] \in Value /\ Readable(tree[u]) \in Value
        BY ReadableType DEF TypeOK
    <2>2. /\ rounds' \in Seq(Round) /\ DOMAIN rounds' = DOMAIN rounds
          /\ \A i \in DOMAIN rounds : /\ rounds'[i].owner = rounds[i].owner
                                      /\ rounds'[i].value = rounds[i].value
        BY <1>2, AgeFacts DEF ObserveAtOnce, TypeOK
    <2>3. stale' \in BOOLEAN
        BY <1>2 DEF ObserveAtOnce, Show
    <2>4. shown' \in User \X Value
        BY <1>2, <2>1 DEF ObserveAtOnce, Show
    <2>5. TypeOK'
        BY <1>2, <2>2, <2>3, <2>4 DEF ObserveAtOnce, TypeOK, tokens, bounds
    <2>6. RoundsHeld'
        BY <1>2, <2>2 DEF ObserveAtOnce, RoundsHeld
    <2> QED BY <2>5, <2>6
<1>3. ASSUME NEW u \in User, Observe(u)
      PROVE  Inv'
    <2> DEFINE r == [owner |-> u, value |-> tree[u], old |-> FALSE]
    <2>1. r \in Round /\ r.owner = u /\ r.value = tree[u]
        BY DEF Round, TypeOK
    <2>2. u \in past /\ <<u, tree[u]>> \in held
        BY <1>3 DEF Observe, TypeOK, RoundsHeld
    <2>3. rounds' = Append(rounds, r)
        BY <1>3 DEF Observe
    <2> HIDE DEF r
    <2>4. /\ rounds' \in Seq(Round)
          /\ \A i \in DOMAIN rounds' : i \in DOMAIN rounds \/ rounds'[i] = r
          /\ \A i \in DOMAIN rounds : rounds'[i] = rounds[i]
        BY <2>1, <2>3, AppendFacts DEF TypeOK
    <2>5. TypeOK'
        BY <1>3, <2>4 DEF Observe, TypeOK, tokens, bounds
    <2>6. \A i \in DOMAIN rounds' :
              rounds'[i].owner \in past /\
              <<rounds'[i].owner, rounds'[i].value>> \in held
        BY <2>1, <2>2, <2>4 DEF RoundsHeld
    <2>7. RoundsHeld'
        BY <1>3, <2>6 DEF Observe, RoundsHeld
    <2> QED BY <2>5, <2>7
<1>4. CASE FinishRound
    <2>1. PICK i \in DOMAIN rounds :
              /\ Show(rounds[i].owner, rounds[i].value, rounds[i].old)
              /\ rounds' = Ended(rounds, i)
              /\ UNCHANGED <<list, tree, viewer, observed, due, tokens, bounds,
                             past, held>>
        BY <1>4 DEF FinishRound
    <2>2. rounds[i] \in Round
        BY DEF TypeOK
    <2>3. /\ rounds[i].owner \in User /\ rounds[i].value \in Value
          /\ Readable(rounds[i].value) \in Value
        BY <2>2, ReadableType DEF Round
    <2>4. /\ rounds' \in Seq(Round)
          /\ \A j \in DOMAIN rounds' : \E k \in DOMAIN rounds :
                /\ rounds'[j].owner = rounds[k].owner
                /\ rounds'[j].value = rounds[k].value
        <3>1. rounds \in Seq(Round)
            BY DEF TypeOK
        <3> QED BY <2>1, <3>1, EndedFacts
    <2>5. rounds[i].old \in BOOLEAN
        BY <2>2 DEF Round
    <2>6. stale' \in BOOLEAN
        BY <2>1, <2>5 DEF Show
    <2>7. shown' \in User \X Value
        BY <2>1, <2>3 DEF Show
    <2>8. TypeOK'
        BY <2>1, <2>4, <2>6, <2>7 DEF TypeOK, tokens, bounds
    <2>9. RoundsHeld'
        BY <2>1, <2>4 DEF RoundsHeld
    <2> QED BY <2>8, <2>9
<1>5. ASSUME NEW u \in User, SignIn(u)
      PROVE  Inv'
    <2>1. TypeOK'
        BY <1>5 DEF SignIn, TypeOK
    <2>2. RoundsHeld'
        BY <1>5, RoundsKept DEF SignIn
    <2> QED BY <2>1, <2>2
<1>6. CASE SignOut
    <2>1. outbox' \in Seq(Write)
        BY <1>6, WriteType DEF SignOut, RemoveFCMToken
    <2>2. /\ due' \subseteq observed' /\ observed' \subseteq past'
          /\ shown' \in (User \X Value) \cup {Nothing}
        BY <1>6, ClearType DEF SignOut
    <2>3. TypeOK'
        BY <1>6, <2>1, <2>2 DEF SignOut, TypeOK, bounds
    <2>4. RoundsHeld'
        BY <1>6, RoundsKept DEF SignOut
    <2> QED BY <2>3, <2>4
<1>7. CASE SignOutFails
    <2>1. outbox' \in Seq(Write)
        BY <1>7, WriteType DEF SignOutFails, RemoveFCMToken
    <2>2. /\ due' \subseteq observed' /\ observed' \subseteq past'
          /\ shown' \in (User \X Value) \cup {Nothing}
        BY <1>7, ClearType DEF SignOutFails
    <2>3. TypeOK'
        BY <1>7, <2>1, <2>2 DEF SignOutFails, TypeOK
    <2>4. RoundsHeld'
        BY <1>7, RoundsKept DEF SignOutFails
    <2> QED BY <2>3, <2>4
<1>8. CASE FCMTokenFetched
    <2>1. outbox' \in Seq(Write)
        BY <1>8, WriteType DEF FCMTokenFetched, TypeOK
    <2>2. TypeOK'
        BY <1>8, <2>1 DEF FCMTokenFetched, TypeOK, lists, bounds
    <2>3. RoundsHeld'
        BY <1>8, RoundsKept DEF FCMTokenFetched, lists
    <2> QED BY <2>2, <2>3
<1>9. CASE Deliver
    <2>1. Tail(outbox) \in Seq(Write) /\ Head(outbox) \in Write
        BY <1>9, TailFacts DEF Deliver, TypeOK
    <2>2. token' \subseteq User
        BY <1>9, <2>1 DEF Deliver, TypeOK, Write
    <2>3. TypeOK'
        BY <1>9, <2>1, <2>2 DEF Deliver, TypeOK, lists, bounds
    <2>4. RoundsHeld'
        BY <1>9, RoundsKept DEF Deliver, lists
    <2> QED BY <2>3, <2>4
<1>10. CASE Crash
    <2>1. {outbox[i].user : i \in DOMAIN outbox} \subseteq User
        <3>1. \A i \in DOMAIN outbox : outbox[i] \in Write
            BY DEF TypeOK
        <3> QED BY <3>1 DEF Write
    <2>a. stray' \subseteq User
        BY <1>10, <2>1 DEF Crash, TypeOK
    <2>b. /\ due' \subseteq observed' /\ observed' \subseteq past'
          /\ past' \subseteq User /\ viewer' \in past' \cup {NoOne}
        BY <1>10 DEF Crash, TypeOK
    <2>c. outbox' \in Seq(Write) /\ rounds' \in Seq(Round)
        BY <1>10 DEF Crash
    <2>d. stale' \in BOOLEAN
        BY <1>10 DEF Crash
    <2>e. /\ shown' \in (User \X Value) \cup {Nothing}
          /\ asked' \in Nat /\ crashes' \in Nat
        BY <1>10 DEF Crash, TypeOK
    <2>f. UNCHANGED <<list, tree, viewer, token, signIns, refused, changes, held>>
        BY <1>10 DEF Crash
    <2>2. TypeOK'
        BY <2>a, <2>b, <2>c, <2>d, <2>e, <2>f DEF TypeOK
    <2>3. RoundsHeld'
        BY <1>10 DEF Crash, RoundsHeld
    <2> QED BY <2>2, <2>3
<1>11. CASE UNCHANGED vars
    <2>1. TypeOK'
        BY <1>11 DEF vars, lists, tokens, bounds, TypeOK
    <2>2. RoundsHeld'
        BY <1>11, RoundsKept DEF vars, lists
    <2> QED BY <2>1, <2>2
<1>12. CASE FCMTokenNotFetched
    <2>1. stray' \subseteq User
        BY <1>12 DEF FCMTokenNotFetched, TypeOK
    <2>2. TypeOK'
        BY <1>12, <2>1 DEF FCMTokenNotFetched, TypeOK, lists, bounds
    <2>3. RoundsHeld'
        BY <1>12, RoundsKept DEF FCMTokenNotFetched, lists
    <2> QED BY <2>2, <2>3
<1> QED
    BY <1>1, <1>2, <1>3, <1>4, <1>5, <1>6, <1>7, <1>8, <1>9, <1>10, <1>11, <1>12
    DEF Next

LEMMA InvInit == Init => Inv
<1> SUFFICES ASSUME Init PROVE Inv
    OBVIOUS
<1>1. \A u \in User : tree[u] \in Value
    BY SessionStart DEF Init, Value
<1>2. tree \in [User -> Value]
    BY SessionStart DEF Init, Value
<1>3. held \subseteq User \X Value
    BY <1>1 DEF Init
<1>a. outbox \in Seq(Write) /\ rounds \in Seq(Round)
    BY DEF Init
<1>b. stale \in BOOLEAN /\ shown \in (User \X Value) \cup {Nothing}
    BY DEF Init
<1>4. TypeOK
    BY <1>2, <1>3, <1>a, <1>b DEF Init, TypeOK
<1>5. RoundsHeld
    BY DEF Init, RoundsHeld
<1> QED BY <1>4, <1>5 DEF Inv

LEMMA Invariance == Spec => []Inv
<1>1. Init => Inv
    BY InvInit
<1>2. Inv /\ [Next]_vars => Inv'
    BY InvStep
<1> QED BY <1>1, <1>2, PTL DEF Spec

\* The state stays well typed; in particular only users signed in since the
\* start of the app have observers (clearDataAndObservers, fetchUserData).
THEOREM TypeCorrect == Spec => []TypeOK
<1>1. Inv => TypeOK
    BY DEF Inv
<1> QED BY <1>1, Invariance, PTL

(* The promise of Mirror *)

\* The values as they are shown.
Seen == {<<h[1], Readable(h[2])>> : h \in held}
Screen == IF list = "game" THEN Nothing ELSE shown

LEMMA SeenFacts ==
    ASSUME Inv
    PROVE  /\ Seen \in SUBSET (User \X Value)
           /\ \A u, v : <<u, v>> \in held => <<u, Readable(v)>> \in Seen
<1>1. \A h \in held : h[1] \in User /\ Readable(h[2]) \in Value
    BY ReadableType DEF Inv, TypeOK
<1>2. Seen \in SUBSET (User \X Value)
    BY <1>1 DEF Seen
<1>3. ASSUME NEW u, NEW v, <<u, v>> \in held
      PROVE  <<u, Readable(v)>> \in Seen
    <2> DEFINE h == <<u, v>>
    <2>1. h \in held /\ h[1] = u /\ h[2] = v
        BY <1>3
    <2> HIDE DEF h
    <2> QED BY <2>1 DEF Seen
<1> QED BY <1>2, <1>3

LEMMA SeenGrows ==
    ASSUME UNCHANGED list, held \subseteq held'
    PROVE  Seen \subseteq Seen'
<1>1. \A v : Readable(v)' = Readable(v)
    BY DEF Readable
<1> QED BY <1>1 DEF Seen

LEMMA SeenKept ==
    ASSUME UNCHANGED <<list, held>>
    PROVE  UNCHANGED Seen
<1>1. \A v : Readable(v)' = Readable(v)
    BY DEF Readable
<1> QED BY <1>1 DEF Seen

\* What is shown is a value that the server held for a user of this start.
LEMMA ShowStep ==
    ASSUME Inv, NEW u \in past, NEW v \in Value, NEW b, <<u, v>> \in held,
           Show(u, v, b), UNCHANGED <<list, viewer, past, held>>
    PROVE  [M!Next]_(M!vars)
<1>1. UNCHANGED Seen
    BY SeenKept
<1>2. CASE list = "game"
    <2>1. UNCHANGED Screen
        BY <1>2 DEF Screen
    <2> QED BY <1>1, <2>1 DEF M!vars, Seen, Screen
<1>3. CASE list # "game"
    <2>1. Screen' = <<u, Readable(v)>>
        BY <1>3 DEF Screen, Show
    <2>2. <<u, Readable(v)>> \in Seen
        BY SeenFacts
    <2>3. M!Show(u, Readable(v))
        BY <1>1, <2>1, <2>2 DEF M!Show, Seen, Screen
    <2>4. u \in User /\ Readable(v) \in Value
        BY ReadableType DEF Inv, TypeOK
    <2> QED BY <2>3, <2>4 DEF M!Next
<1> QED BY <1>2, <1>3

LEMMA ClearStep ==
    ASSUME Inv, ClearDataAndObservers, viewer # NoOne, viewer' \in {NoOne, viewer},
           UNCHANGED <<list, past, held>>
    PROVE  M!SignOut
<1>1. UNCHANGED Seen
    BY SeenKept
<1>2. Screen' = Nothing
    BY DEF ClearDataAndObservers, Screen
<1>3. viewer \in User
    BY DEF Inv, TypeOK
<1> QED BY <1>1, <1>2, <1>3 DEF M!SignOut, Seen, Screen

LEMMA MirrorStep ==
    ASSUME Inv, Inv', [Next]_vars
    PROVE  [M!Next]_(M!vars)
<1>1. ASSUME NEW u \in User, NEW v \in Value, Change(u, v)
      PROVE  [M!Next]_(M!vars)
    <2>1. UNCHANGED <<list, viewer, past, shown>> /\ held \subseteq held'
        BY <1>1 DEF Change
    <2>a. \A h \in held' : h[1] \in User /\ Readable(h[2])' \in Value
        BY DEF Inv, TypeOK, Readable, Value
    <2>2. Seen' \in SUBSET (User \X Value) /\ Seen \subseteq Seen'
        BY <2>1, <2>a, SeenGrows DEF Seen
    <2>3. UNCHANGED Screen
        BY <2>1 DEF Screen
    <2>4. M!Change
        BY <2>1, <2>2, <2>3 DEF M!Change, Seen, Screen
    <2> QED BY <2>4 DEF M!Next
<1>2. ASSUME NEW u \in User, ObserveAtOnce(u)
      PROVE  [M!Next]_(M!vars)
    <2>1. u \in past /\ tree[u] \in Value /\ <<u, tree[u]>> \in held
        BY <1>2 DEF ObserveAtOnce, Inv, TypeOK, RoundsHeld
    <2>2. /\ Show(u, tree[u], FALSE)
          /\ UNCHANGED <<list, viewer, past, held>>
        BY <1>2 DEF ObserveAtOnce
    <2> QED BY <2>1, <2>2, ShowStep
<1>3. CASE FinishRound
    <2>1. PICK i \in DOMAIN rounds :
              /\ Show(rounds[i].owner, rounds[i].value, rounds[i].old)
              /\ UNCHANGED <<list, viewer, past, held>>
        BY <1>3 DEF FinishRound
    <2>2. rounds[i] \in Round
        BY DEF Inv, TypeOK
    <2>3. /\ rounds[i].owner \in past /\ rounds[i].value \in Value
          /\ <<rounds[i].owner, rounds[i].value>> \in held
        BY <2>2 DEF Inv, RoundsHeld, Round
    <2> QED BY <2>1, <2>3, ShowStep
<1>4. ASSUME NEW u \in User, SignIn(u)
      PROVE  [M!Next]_(M!vars)
    <2>1. UNCHANGED Seen /\ UNCHANGED Screen
        BY <1>4, SeenKept DEF SignIn, Screen
    <2>2. M!SignIn(u)
        BY <1>4, <2>1 DEF SignIn, M!SignIn, Seen, Screen
    <2> QED BY <2>2 DEF M!Next
<1>5. CASE SignOut \/ SignOutFails
    <2>1. M!SignOut
        BY <1>5, ClearStep DEF SignOut, SignOutFails
    <2> QED BY <2>1 DEF M!Next
<1>6. CASE Crash
    <2>1. UNCHANGED Seen /\ Screen' = Nothing
        BY <1>6, SeenKept DEF Crash, Screen
    <2>2. M!Restart
        BY <1>6, <2>1 DEF Crash, M!Restart, Seen, Screen
    <2> QED BY <2>2 DEF M!Next
<1>7. ASSUME UNCHANGED <<list, viewer, past, held, shown>>
      PROVE  [M!Next]_(M!vars)
    <2>1. UNCHANGED Seen /\ UNCHANGED Screen
        BY <1>7, SeenKept DEF Screen
    <2> QED BY <1>7, <2>1 DEF M!vars, Seen, Screen
<1>8. CASE (\E u \in User : Observe(u)) \/ FCMTokenFetched
           \/ FCMTokenNotFetched \/ Deliver \/ UNCHANGED vars
    BY <1>7, <1>8
    DEF Observe, FCMTokenFetched, FCMTokenNotFetched, Deliver, vars, lists
<1> QED BY <1>1, <1>2, <1>3, <1>4, <1>5, <1>6, <1>8 DEF Next

\* The lists of teammates and of chats implement Mirror: whatever rounds of
\* fetchTeammates and fetchChats are left over by a sign-out, what they show is
\* a value the database held for somebody signed in since the start.
THEOREM ListsImplementMirror == Spec => ShowsHeldValues
<1>1. Init => Inv /\ M!Init
    <2> SUFFICES ASSUME Init, Inv PROVE M!Init
        BY InvInit
    <2>1. Seen \in SUBSET (User \X Value)
        BY SeenFacts
    <2>2. Screen = Nothing
        BY DEF Init, Screen
    <2> QED BY <2>1, <2>2 DEF Init, M!Init, Seen, Screen
<1>2. Inv /\ Inv' /\ [Next]_vars => [M!Next]_(M!vars)
    BY MirrorStep
<1> QED BY <1>1, <1>2, Invariance, PTL DEF Spec, ShowsHeldValues, M!Spec

(* The token of the device *)

\* The last write of the token that is queued for a user, or else the database,
\* says whether the user is signed in (or the token is still asked for).
TokenInv ==
    \A u \in User \ stray :
        IF u = viewer
        THEN asked > 0 \/ LastWrite(u, TRUE) \/ (NoWrite(u) /\ u \in token)
        ELSE LastWrite(u, FALSE) \/ (NoWrite(u) /\ u \notin token)

\* One more write at the end of the queue.
LEMMA WriteFacts ==
    ASSUME TypeOK, NEW v \in User, NEW b \in BOOLEAN,
           outbox' = Append(outbox, [user |-> v, on |-> b])
    PROVE  /\ LastWrite(v, b)'
           /\ \A u \in User : u # v =>
                 /\ \A c : LastWrite(u, c) => LastWrite(u, c)'
                 /\ NoWrite(u) => NoWrite(u)'
<1> DEFINE w == [user |-> v, on |-> b]
<1>1. w \in Write /\ w.user = v
    BY DEF Write
<1>2. outbox' = Append(outbox, w)
    OBVIOUS
<1> HIDE DEF w
<1>3. /\ DOMAIN outbox = 1..Len(outbox) /\ Len(outbox) \in Nat
      /\ DOMAIN outbox' = 1..(Len(outbox) + 1)
      /\ \A i \in DOMAIN outbox : outbox'[i] = outbox[i]
      /\ outbox'[Len(outbox) + 1] = w
    BY <1>1, <1>2, AppendFacts DEF TypeOK
<1>4. LastWrite(v, b)'
    BY <1>3 DEF LastWrite, w
<1>5. ASSUME NEW u \in User, u # v, NEW c, LastWrite(u, c)
      PROVE  LastWrite(u, c)'
    <2>1. PICK i \in DOMAIN outbox :
              /\ outbox[i] = [user |-> u, on |-> c]
              /\ \A j \in DOMAIN outbox : j > i => outbox[j].user # u
        BY <1>5 DEF LastWrite
    <2>2. i \in DOMAIN outbox' /\ outbox'[i] = [user |-> u, on |-> c]
        BY <1>3, <2>1
    <2>3. \A j \in DOMAIN outbox' : j > i => outbox'[j].user # u
        BY <1>1, <1>3, <1>5, <2>1
    <2> QED BY <2>2, <2>3 DEF LastWrite
<1>6. ASSUME NEW u \in User, u # v, NoWrite(u)
      PROVE  NoWrite(u)'
    BY <1>1, <1>3, <1>6 DEF NoWrite
<1> QED BY <1>4, <1>5, <1>6

\* The oldest write is applied.
LEMMA DeliverFacts ==
    ASSUME TypeOK, Deliver, NEW u \in User
    PROVE  /\ \A b \in BOOLEAN : LastWrite(u, b) =>
                 LastWrite(u, b)' \/ (NoWrite(u)' /\ (u \in token' <=> b = TRUE))
           /\ NoWrite(u) => NoWrite(u)' /\ (u \in token' <=> u \in token)
<1> DEFINE q == outbox  t == Tail(outbox)
<1>1. /\ q # <<>> /\ q \in Seq(Write) /\ outbox' = t
      /\ token' = IF Head(q).on THEN token \cup {Head(q).user}
                  ELSE token \ {Head(q).user}
    BY DEF Deliver, TypeOK
<1>2. /\ DOMAIN q = 1..Len(q) /\ Len(q) \in Nat /\ 1 \in DOMAIN q
      /\ Head(q) = q[1]
      /\ DOMAIN t = 1..(Len(q) - 1)
      /\ \A i \in DOMAIN t : i + 1 \in DOMAIN q /\ t[i] = q[i + 1]
    BY <1>1, TailFacts
<1> HIDE DEF q, t
<1>3. ASSUME NEW b \in BOOLEAN, LastWrite(u, b)
      PROVE  LastWrite(u, b)' \/ (NoWrite(u)' /\ (u \in token' <=> b = TRUE))
    <2>1. PICK i \in DOMAIN q : /\ q[i] = [user |-> u, on |-> b]
                                /\ \A j \in DOMAIN q : j > i => q[j].user # u
        BY <1>3 DEF LastWrite, q
    <2>2. CASE i = 1
        <3>1. NoWrite(u)'
            <4> SUFFICES ASSUME NEW j \in DOMAIN t PROVE t[j].user # u
                BY <1>1 DEF NoWrite
            <4>1. j + 1 \in DOMAIN q /\ j + 1 > i /\ t[j] = q[j + 1]
                BY <1>2, <2>2
            <4> QED BY <2>1, <4>1
        <3>2. Head(q).user = u /\ Head(q).on = b
            BY <1>2, <2>1, <2>2
        <3>3. CASE b = TRUE
            BY <1>1, <3>1, <3>2, <3>3
        <3>4. CASE b = FALSE
            BY <1>1, <3>1, <3>2, <3>4
        <3> QED BY <3>3, <3>4
    <2>3. CASE i # 1
        <3>1. i - 1 \in DOMAIN t /\ t[i - 1] = q[i]
            BY <1>2, <2>1, <2>3
        <3>2. ASSUME NEW j \in DOMAIN t, j > i - 1
              PROVE  t[j].user # u
            <4>1. j + 1 \in DOMAIN q /\ j + 1 > i /\ t[j] = q[j + 1]
                BY <1>2, <2>1, <3>2
            <4> QED BY <2>1, <4>1
        <3>3. LastWrite(u, b)'
            BY <1>1, <2>1, <3>1, <3>2 DEF LastWrite
        <3> QED BY <3>3
    <2> QED BY <2>2, <2>3
<1>4. ASSUME NoWrite(u)
      PROVE  NoWrite(u)' /\ (u \in token' <=> u \in token)
    <2>1. \A i \in DOMAIN q : q[i].user # u
        BY <1>4 DEF NoWrite, q
    <2>2. NoWrite(u)'
        BY <1>1, <1>2, <2>1 DEF NoWrite
    <2>3. u \in token' <=> u \in token
        BY <1>1, <1>2, <2>1
    <2> QED BY <2>2, <2>3
<1> QED BY <1>3, <1>4

\* The users other than the one whose token is written.
LEMMA OthersKept ==
    ASSUME TypeOK, TokenInv, NEW v \in User, NEW b \in BOOLEAN,
           outbox' = Append(outbox, [user |-> v, on |-> b]),
           UNCHANGED token, NEW u \in User \ stray, u # v,
           u = viewer' => u = viewer /\ asked' = asked,
           u # viewer' => u # viewer
    PROVE  IF u = viewer'
           THEN asked' > 0 \/ LastWrite(u, TRUE)' \/ (NoWrite(u)' /\ u \in token')
           ELSE LastWrite(u, FALSE)' \/ (NoWrite(u)' /\ u \notin token')
<1>1. /\ \A c : LastWrite(u, c) => LastWrite(u, c)'
      /\ NoWrite(u) => NoWrite(u)'
    BY WriteFacts
<1> QED BY <1>1 DEF TokenInv

LEMMA TokenKept ==
    ASSUME TokenInv, UNCHANGED <<viewer, token, asked, outbox, stray>>
    PROVE  TokenInv'
BY DEF TokenInv, LastWrite, NoWrite

LEMMA TokenStep ==
    ASSUME TypeOK, TokenInv, [Next]_vars
    PROVE  TokenInv'
<1> DEFINE Right(u) ==
        IF u = viewer'
        THEN asked' > 0 \/ LastWrite(u, TRUE)' \/ (NoWrite(u)' /\ u \in token')
        ELSE LastWrite(u, FALSE)' \/ (NoWrite(u)' /\ u \notin token')
<1>1. ASSUME NEW u \in User, SignIn(u)
      PROVE  TokenInv'
    <2>1. /\ viewer = NoOne /\ viewer' = u /\ asked' > 0
          /\ UNCHANGED <<token, outbox, stray>>
        BY <1>1 DEF SignIn, TypeOK
    <2>2. \A w \in User : w # viewer
        BY <2>1, SessionNoOne
    <2> QED BY <2>1, <2>2 DEF TokenInv, LastWrite, NoWrite
<1>2. CASE SignOut
    <2>1. PICK v \in User :
              /\ v = viewer /\ viewer' = NoOne
              /\ outbox' = Append(outbox, [user |-> v, on |-> FALSE])
              /\ UNCHANGED token /\ stray' = stray \ {v}
        BY <1>2 DEF SignOut, RemoveFCMToken, TypeOK
    <2>2. LastWrite(v, FALSE)'
        BY <2>1, WriteFacts
    <2>3. ASSUME NEW u \in User \ stray', u # v
          PROVE  Right(u)
        <3>1. u \in User \ stray /\ u # viewer'
            BY <2>1, <2>3, SessionNoOne
        <3> QED BY <2>1, <2>3, <3>1, OthersKept
    <2>4. Right(v)
        BY <2>1, <2>2, SessionNoOne
    <2>5. \A u \in User \ stray' : Right(u)
        BY <2>3, <2>4
    <2> HIDE DEF Right
    <2> QED BY <2>5 DEF TokenInv, Right
<1>3. CASE SignOutFails
    <2>1. /\ viewer \in User /\ viewer' = viewer
          /\ outbox' = Append(outbox, [user |-> viewer, on |-> FALSE])
          /\ UNCHANGED <<token, asked>> /\ stray' = stray \cup {viewer}
        BY <1>3 DEF SignOutFails, RemoveFCMToken, TypeOK
    <2>2. ASSUME NEW u \in User \ stray'
          PROVE  Right(u)
        <3>1. u \in User \ stray /\ u # viewer
            BY <2>1, <2>2
        <3> QED BY <2>1, <3>1, OthersKept
    <2> QED BY <2>2 DEF TokenInv
<1>4. CASE FCMTokenFetched
    <2>1. CASE viewer = NoOne
        <3>1. /\ UNCHANGED <<viewer, token, outbox, stray>>
              /\ \A u \in User : u # viewer
            BY <1>4, <2>1, SessionNoOne DEF FCMTokenFetched
        <3> QED BY <3>1 DEF TokenInv, LastWrite, NoWrite
    <2>2. CASE viewer # NoOne
        <3>1. PICK v \in User :
                  /\ v = viewer /\ viewer' = v
                  /\ outbox' = Append(outbox, [user |-> v, on |-> TRUE])
                  /\ UNCHANGED token /\ stray' = stray \ {v}
            BY <1>4, <2>2 DEF FCMTokenFetched, TypeOK
        <3>2. LastWrite(v, TRUE)'
            BY <3>1, WriteFacts
        <3>3. ASSUME NEW u \in User \ stray', u # v
              PROVE  Right(u)
            <4>1. u \in User \ stray /\ u # viewer'
                BY <3>1, <3>3
            <4> QED BY <3>1, <3>3, <4>1, OthersKept
        <3>4. Right(v)
            BY <3>1, <3>2
        <3>5. \A u \in User \ stray' : Right(u)
            BY <3>3, <3>4
        <3> HIDE DEF Right
        <3> QED BY <3>5 DEF TokenInv, Right
    <2> QED BY <2>1, <2>2
<1>5. CASE Deliver
    <2>1. UNCHANGED <<viewer, asked, stray>>
        BY <1>5 DEF Deliver
    <2>2. ASSUME NEW u \in User \ stray
          PROVE  Right(u)
        <3>1. /\ LastWrite(u, TRUE) =>
                     LastWrite(u, TRUE)' \/ (NoWrite(u)' /\ u \in token')
              /\ LastWrite(u, FALSE) =>
                     LastWrite(u, FALSE)' \/ (NoWrite(u)' /\ u \notin token')
              /\ NoWrite(u) => NoWrite(u)' /\ (u \in token' <=> u \in token)
            BY <1>5, DeliverFacts
        <3> QED BY <2>1, <2>2, <3>1 DEF TokenInv
    <2> QED BY <2>1, <2>2 DEF TokenInv
<1>6. CASE Crash
    <2>1. /\ UNCHANGED <<viewer, token>> /\ asked' > 0
          /\ stray' = stray \cup {outbox[i].user : i \in DOMAIN outbox}
          /\ outbox' = <<>>
        BY <1>6 DEF Crash
    <2>2. ASSUME NEW u \in User \ stray', u # viewer
          PROVE  u \notin token
        <3>1. u \notin stray /\ NoWrite(u)
            BY <2>1, <2>2 DEF NoWrite
        <3>2. ~LastWrite(u, FALSE)
            BY <3>1 DEF NoWrite, LastWrite
        <3> QED BY <2>2, <3>1, <3>2 DEF TokenInv
    <2>3. \A u : NoWrite(u)'
        BY <2>1 DEF NoWrite
    <2> QED BY <2>1, <2>2, <2>3 DEF TokenInv
<1>7. ASSUME NEW u \in User,
             \/ \E v \in Value : Change(u, v)
             \/ ObserveAtOnce(u)
             \/ Observe(u)
      PROVE  TokenInv'
    <2>1. UNCHANGED <<viewer, token, asked, outbox, stray>>
        BY <1>7 DEF Change, ObserveAtOnce, Observe, tokens
    <2> QED BY <2>1, TokenKept
<1>8. CASE FinishRound \/ UNCHANGED vars
    <2>1. UNCHANGED <<viewer, token, asked, outbox, stray>>
        BY <1>8 DEF FinishRound, tokens, vars
    <2> QED BY <2>1, TokenKept
<1>9. CASE FCMTokenNotFetched
    <2>1. /\ UNCHANGED <<viewer, token, outbox>>
          /\ stray \subseteq stray'
          /\ viewer \in User \ stray' => Gets(viewer)
        BY <1>9, SessionNoOne DEF FCMTokenNotFetched
    <2>2. ASSUME NEW u \in User \ stray'
          PROVE  Right(u)
        <3>1. u \in User \ stray /\ (u = viewer => Gets(u))
            BY <2>1, <2>2
        <3>2. /\ Gets(u) => LastWrite(u, TRUE)' \/ (NoWrite(u)' /\ u \in token')
              /\ LastWrite(u, FALSE) => LastWrite(u, FALSE)'
              /\ NoWrite(u) => NoWrite(u)'
            BY <2>1 DEF Gets, LastWrite, NoWrite
        <3> QED BY <2>1, <3>1, <3>2 DEF TokenInv
    <2> QED BY <2>2 DEF TokenInv
<1> QED BY <1>1, <1>2, <1>3, <1>4, <1>5, <1>6, <1>7, <1>8, <1>9 DEF Next

\* With nothing under way, the token of the device is with the user signed in,
\* and with nobody else (fetchFCMToken, removeFCMToken).
THEOREM TokenIsViewers == Spec => []TokenFollowsViewer
<1>1. Init => TokenInv
    <2> SUFFICES ASSUME Init PROVE TokenInv
        OBVIOUS
    <2>1. viewer \notin User /\ token = {}
        BY SessionNoOne DEF Init
    <2>2. \A u : NoWrite(u)
        BY DEF Init, NoWrite
    <2> QED BY <2>1, <2>2 DEF TokenInv
<1>2. Inv /\ TokenInv /\ [Next]_vars => TokenInv'
    BY TokenStep DEF Inv
<1>3. Inv /\ TokenInv => TokenFollowsViewer
    <2> SUFFICES ASSUME TypeOK, TokenInv, asked = 0, outbox = <<>>
                 PROVE  token \ stray = {viewer} \ (stray \cup {NoOne})
        BY DEF Inv, TokenFollowsViewer
    <2>1. \A u \in User \ stray : u \in token <=> u = viewer
        BY DEF TokenInv, LastWrite
    <2>2. token \subseteq User /\ viewer \in User \cup {NoOne}
        BY DEF TypeOK
    <2> QED BY <2>1, <2>2, SessionNoOne
<1> QED BY <1>1, <1>2, <1>3, Invariance, PTL DEF Spec
==============================================================================
