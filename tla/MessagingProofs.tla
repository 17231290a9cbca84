---------------------------- MODULE MessagingProofs ----------------------------
(***************************************************************************)
(* Proofs about Messaging, for every set of users, devices and messages.   *)
(***************************************************************************)
EXTENDS Messaging, SequenceTheorems, WellFoundedInduction, TLAPS

(* Types *)

LEMMA MeType == \A d \in Device : Me(d) \in User
BY MessagingUserOf DEF Me

\* A chat of a device is a copy of its own user, and so is its partner's.
LEMMA ChatType ==
    ASSUME NEW a \in User, NEW b \in User, a # b
    PROVE  <<a, b>> \in Chat /\ <<b, a>> \in Chat
BY DEF Chat

LEMMA PutType ==
    ASSUME NEW c \in Chat, NEW ms \in SUBSET Msg, NEW as \in State
    PROVE  /\ Put(c, ms, as) \in Write
           /\ Put(c, ms, as).chat = c
           /\ Put(c, ms, as).msgs = ms
           /\ Put(c, ms, as).as = as
BY DEF Put, Write

\* The batches of writes are sequences of writes.
LEMMA BatchType ==
    ASSUME NEW a \in User, NEW b \in User, a # b
    PROVE  /\ \A ms \in SUBSET Msg : MarkWrites(a, b, ms) \in Seq(Write)
           /\ \A m \in Msg : SendWrites(a, b, m) \in Seq(Write)
<1>1. <<a, b>> \in Chat /\ <<b, a>> \in Chat
    BY ChatType
<1>2. {"unread", "read"} \subseteq State
    BY DEF State
<1>3. ASSUME NEW ms \in SUBSET Msg PROVE MarkWrites(a, b, ms) \in Seq(Write)
    <2>1. Put(<<a, b>>, ms, "read") \in Write
        BY <1>1, <1>2, PutType
    <2> QED BY <2>1 DEF MarkWrites
<1>4. ASSUME NEW m \in Msg PROVE SendWrites(a, b, m) \in Seq(Write)
    <2>1. /\ Put(<<a, b>>, {m}, "unread") \in Write
          /\ Put(<<b, a>>, {m}, "unread") \in Write
        BY <1>1, <1>2, PutType
    <2> QED BY <2>1 DEF SendWrites
<1> QED BY <1>3, <1>4

\* A set of numbers has a smallest one, a bounded one a largest one.
LEMMA Smallest ==
    ASSUME NEW S \in SUBSET Nat, S # {}
    PROVE  \E x \in S : \A y \in S : x <= y
<1>1. \E x \in S : \A y \in S : ~(<<y, x>> \in OpToRel(<, Nat))
    BY NatLessThanWellFounded, WFMin, Zenon
<1>2. PICK x \in S : \A y \in S : ~(<<y, x>> \in OpToRel(<, Nat))
    BY <1>1
<1>3. \A y \in S : ~(y < x)
    BY <1>2 DEF OpToRel
<1> QED BY <1>3

LEMMA LatestIn ==
    ASSUME NEW n \in Nat, NEW S \in SUBSET (1..n), S # {}
    PROVE  Latest(S) \in S /\ \A j \in S : j <= Latest(S)
<1> DEFINE U == {k \in Nat : \A j \in S : j <= k}
<1>1. U \in SUBSET Nat /\ n \in U
    OBVIOUS
<1>2. PICK k \in U : \A y \in U : k <= y
    BY <1>1, Smallest
<1>3. k \in S
    <2> SUFFICES ASSUME k \notin S PROVE FALSE
        OBVIOUS
    <2>1. PICK j \in S : TRUE
        OBVIOUS
    <2>2. k \in Nat /\ j <= k /\ j >= 1
        BY <1>2
    <2>3. k - 1 \in U
        BY <1>2, <2>2
    <2> QED BY <1>2, <2>2, <2>3
<1>4. \E i \in S : \A j \in S : j <= i
    BY <1>2, <1>3
<1> QED BY <1>4 DEF Latest

\* What a device sees of its chats is a value of its list.
LEMMA ViewType ==
    ASSUME TypeOK, NEW d \in Device
    PROVE  /\ View(d) \in Held
           /\ \A m \in Msg : View(d)[Me(d)][m] = "none"
<1>1. ASSUME NEW u \in User, NEW m \in Msg, u # Me(d)
      PROVE  Seen(tree, outbox[d], <<Me(d), u>>, m) \in State
    <2> DEFINE c == <<Me(d), u>>
               q == outbox[d]
               T == Touching(q, c, m)
    <2>1. c \in Chat
        BY <1>1, MeType, ChatType
    <2>2. tree[c][m] \in State
        BY <2>1 DEF TypeOK
    <2>3. q \in Seq(Write) /\ T \subseteq DOMAIN q
        BY DEF TypeOK, Touching
    <2>6. T \in SUBSET (1..Len(q)) /\ Len(q) \in Nat
        BY <2>3
    <2> HIDE DEF q, c, T
    <2>4. CASE T # {} /\ Latest(T) \in T
        <3>1. q[Latest(T)] \in Write
            BY <2>3, <2>4
        <3> QED BY <2>2, <2>4, <3>1 DEF Seen, Write, c, q, T
    <2>5. T # {} => Latest(T) \in T
        BY <2>6, LatestIn
    <2> QED BY <2>2, <2>4, <2>5 DEF Seen, c, q, T
<1> QED BY <1>1, MeType DEF View, Held, State

LEMMA InitTypeOK == Init => TypeOK
<1> SUFFICES ASSUME Init PROVE TypeOK
    OBVIOUS
<1>1. NoChats \in Held
    BY DEF NoChats, Held, State
<1>2. OthersOnly
    BY MeType DEF OthersOnly, Init, NoChats
<1> QED BY <1>1, <1>2 DEF TypeOK, Init, State

\* A call appends its writes to the queue of its device.
LEMMA CallType ==
    ASSUME TypeOK, NEW d \in Device, NEW s \in Seq(Write), Call(d, s)
    PROVE  outbox' \in [Device -> Seq(Write)]
BY DEF TypeOK, Call

\* The conditions of TypeOK on what MarkAsRead writes.
LEMMA MarkType ==
    ASSUME TypeOK, NEW d \in Device, NEW u \in User, u # Me(d),
           NEW value \in Held, \A m \in Msg : value[Me(d)][m] = "none",
           MarkAsRead(d, u, value)
    PROVE  /\ outbox' \in [Device -> Seq(Write)]
           /\ chats' \in [Device -> Held]
           /\ \A m \in Msg : chats'[d][Me(d)][m] = "none"
           /\ \A e \in Device \ {d} : chats'[e] = chats[e]
<1>1. Unread(d, u, value) \in SUBSET Msg
    BY DEF Unread
<1>2. MarkWrites(Me(d), u, Unread(d, u, value)) \in Seq(Write)
    BY <1>1, MeType, BatchType
<1>3. outbox' \in [Device -> Seq(Write)]
    BY <1>2, CallType DEF MarkAsRead
<1> DEFINE marked == [value EXCEPT ![u] = [m \in Msg |->
                         IF m \in Unread(d, u, value) THEN "read" ELSE @[m]]]
<1>4. marked \in Held
    BY DEF Held, State
<1>5. marked[Me(d)] = value[Me(d)]
    BY MeType DEF Held
<1>6. chats' = [chats EXCEPT ![d] = marked]
    BY DEF MarkAsRead
<1> HIDE DEF marked
<1> QED BY <1>3, <1>4, <1>5, <1>6 DEF TypeOK

\* The same for an update of the list.
LEMMA UpdateType ==
    ASSUME TypeOK, NEW d \in Device,
           NEW value \in Held, \A m \in Msg : value[Me(d)][m] = "none",
           UpdateChat(d, value)
    PROVE  /\ outbox' \in [Device -> Seq(Write)]
           /\ chats' \in [Device -> Held]
           /\ \A m \in Msg : chats'[d][Me(d)][m] = "none"
           /\ \A e \in Device \ {d} : chats'[e] = chats[e]
           /\ screen' \in [Device -> SUBSET Screen]
           /\ \A e \in Device : \A s \in screen'[e] : s.user # Me(e)
<1>1. CASE /\ chats' = [chats EXCEPT ![d] = value]
           /\ UNCHANGED <<outbox, screen>>
    BY <1>1 DEF TypeOK, OthersOnly
<1>2. ASSUME NEW s \in screen[d], NEW k \in Kinds(s, value),
             screen' = [screen EXCEPT ![d] = {[s EXCEPT !.kind = k]}],
             IF k = "listed" THEN MarkAsRead(d, s.user, value)
             ELSE chats' = [chats EXCEPT ![d] = value] /\ UNCHANGED outbox
      PROVE  /\ outbox' \in [Device -> Seq(Write)]
             /\ chats' \in [Device -> Held]
             /\ \A m \in Msg : chats'[d][Me(d)][m] = "none"
             /\ \A e \in Device \ {d} : chats'[e] = chats[e]
             /\ screen' \in [Device -> SUBSET Screen]
             /\ \A e \in Device : \A t \in screen'[e] : t.user # Me(e)
    <2>1. s \in Screen /\ s.user \in User /\ s.user # Me(d)
        BY DEF TypeOK, OthersOnly, Screen
    <2>2. k \in Kind
        BY DEF Kinds, Kind
    <2> DEFINE t == [s EXCEPT !.kind = k]
    <2>3. t \in Screen /\ t.user # Me(d)
        BY <2>1, <2>2 DEF Screen
    <2>4. screen' = [screen EXCEPT ![d] = {t}]
        BY <1>2
    <2> HIDE DEF t
    <2>5. /\ screen' \in [Device -> SUBSET Screen]
          /\ \A e \in Device : \A x \in screen'[e] : x.user # Me(e)
        BY <2>3, <2>4 DEF TypeOK, OthersOnly
    <2>6. CASE k = "listed"
        BY <1>2, <2>1, <2>5, <2>6, MarkType
    <2>7. CASE k # "listed"
        BY <1>2, <2>5, <2>7 DEF TypeOK
    <2> QED BY <2>6, <2>7
<1> QED BY <1>1, <1>2 DEF UpdateChat

\* A finished round leaves the others, in their order.
LEMMA RoundType ==
    ASSUME NEW S, NEW q \in Seq(S), NEW i \in DOMAIN q, NEW r,
           r = [j \in 1..(Len(q) - 1) |-> IF j < i THEN q[j] ELSE q[j + 1]]
    PROVE  /\ r \in Seq(S)
           /\ \A j \in DOMAIN r : \E k \in DOMAIN q : r[j] = q[k]
<1>1. /\ DOMAIN q = 1..Len(q) /\ Len(q) \in Nat /\ i \in 1..Len(q)
      /\ \A k \in 1..Len(q) : q[k] \in S
    OBVIOUS
<1>2. Len(q) - 1 \in Nat /\ DOMAIN r = 1..(Len(q) - 1)
    BY <1>1
<1>3. \A j \in 1..(Len(q) - 1) : j \in 1..Len(q) /\ j + 1 \in 1..Len(q)
    BY <1>1
<1>4. \A j \in DOMAIN r : \E k \in DOMAIN q : r[j] = q[k]
    BY <1>1, <1>2, <1>3
<1>5. \A j \in 1..(Len(q) - 1) : r[j] \in S
    BY <1>1, <1>3
<1>6. r \in [1..(Len(q) - 1) -> S]
    BY <1>2, <1>5
<1> QED BY <1>2, <1>4, <1>6

\* The server applying one write.
LEMMA ApplyType ==
    ASSUME TypeOK, NEW w \in Write, Apply(w)
    PROVE  tree' \in [Chat -> [Msg -> State]] /\ arrived' \subseteq Chat \X Msg
<1>1. w.as \in State /\ w.chat \in Chat /\ w.msgs \subseteq Msg
    BY DEF Write
<1>2. tree' \in [Chat -> [Msg -> State]]
    BY <1>1 DEF Apply, Applied, TypeOK
<1>3. arrived' \subseteq Chat \X Msg
    BY <1>1 DEF Apply, TypeOK
<1> QED BY <1>2, <1>3

\* Every step keeps the types, and never lets a device turn to its own user.
LEMMA NextTypeOK == TypeOK /\ [Next]_vars => TypeOK'
<1> SUFFICES ASSUME TypeOK, [Next]_vars PROVE TypeOK'
    OBVIOUS
<1> USE DEF bounds, history
<1>m. \A d \in Device : Me(d) \in User /\ Me(d)' = Me(d)
    BY MeType DEF Me
<1>o. OthersOnly
    BY DEF TypeOK
<1>1. ASSUME NEW d \in Device, ObserveEmpty(d) PROVE TypeOK'
    <2>1. NoChats \in Held /\ \A m \in Msg : NoChats[Me(d)][m] = "none"
        BY <1>m DEF NoChats, Held, State
    <2>2. /\ outbox' \in [Device -> Seq(Write)]
          /\ chats' \in [Device -> Held]
          /\ \A m \in Msg : chats'[d][Me(d)][m] = "none"
          /\ \A e \in Device \ {d} : chats'[e] = chats[e]
          /\ screen' \in [Device -> SUBSET Screen]
          /\ \A e \in Device : \A s \in screen'[e] : s.user # Me(e)
        BY <1>1, <2>1, UpdateType DEF ObserveEmpty
    <2>3. OthersOnly'
        BY <1>1, <1>m, <1>o, <2>2 DEF ObserveEmpty, OthersOnly
    <2>4. changed' \subseteq Device
        BY <1>1 DEF ObserveEmpty, Raise, TypeOK
    <2> QED BY <1>1, <2>2, <2>3, <2>4 DEF ObserveEmpty, Report, TypeOK
<1>2. ASSUME NEW d \in Device, Observe(d) PROVE TypeOK'
    <2>1. View(d) \in Held /\ \A m \in Msg : View(d)[Me(d)][m] = "none"
        BY ViewType
    <2> DEFINE v == View(d)
    <2>2. /\ v \in Held /\ \A m \in Msg : v[Me(d)][m] = "none"
          /\ rounds' = [rounds EXCEPT ![d] = Append(rounds[d], v)]
          /\ rounds[d] \in Seq(Held)
        BY <1>2, <2>1 DEF Observe, TypeOK
    <2> HIDE DEF v
    <2>3. /\ Append(rounds[d], v) \in Seq(Held)
          /\ \A i \in DOMAIN Append(rounds[d], v) :
                \/ Append(rounds[d], v)[i] = v
                \/ i \in DOMAIN rounds[d] /\ Append(rounds[d], v)[i] = rounds[d][i]
        BY <2>2
    <2>4. rounds' \in [Device -> Seq(Held)]
        BY <2>2, <2>3 DEF TypeOK
    <2>5. \A i \in DOMAIN rounds'[d] : \A m \in Msg : rounds'[d][i][Me(d)][m] = "none"
        BY <1>o, <2>2, <2>3 DEF OthersOnly, TypeOK
    <2>6. OthersOnly'
        BY <1>2, <1>m, <1>o, <2>2, <2>5 DEF Observe, OthersOnly, TypeOK
    <2> QED BY <1>2, <2>4, <2>6 DEF Observe, Report, TypeOK
<1>3. ASSUME NEW d \in Device, FinishRound(d) PROVE TypeOK'
    <2>1. PICK i \in DOMAIN rounds[d] :
             /\ UpdateChat(d, rounds[d][i])
             /\ rounds' = [rounds EXCEPT ![d] =
                   [j \in 1..(Len(rounds[d]) - 1) |->
                       IF j < i THEN rounds[d][j] ELSE rounds[d][j + 1]]]
        BY <1>3 DEF FinishRound
    <2>2. rounds[d] \in Seq(Held) /\ rounds[d][i] \in Held
        BY DEF TypeOK
    <2>3. \A m \in Msg : rounds[d][i][Me(d)][m] = "none"
        BY <1>o DEF OthersOnly
    <2>4. /\ outbox' \in [Device -> Seq(Write)]
          /\ chats' \in [Device -> Held]
          /\ \A m \in Msg : chats'[d][Me(d)][m] = "none"
          /\ \A e \in Device \ {d} : chats'[e] = chats[e]
          /\ screen' \in [Device -> SUBSET Screen]
          /\ \A e \in Device : \A s \in screen'[e] : s.user # Me(e)
        BY <2>1, <2>2, <2>3, UpdateType
    <2> DEFINE q == rounds[d]
               r == [j \in 1..(Len(q) - 1) |-> IF j < i THEN q[j] ELSE q[j + 1]]
    <2>6. rounds' = [rounds EXCEPT ![d] = r] /\ q \in Seq(Held) /\ i \in DOMAIN q
        BY <2>1, <2>2
    <2>12. r = [j \in 1..(Len(q) - 1) |-> IF j < i THEN q[j] ELSE q[j + 1]]
        OBVIOUS
    <2> HIDE DEF q, r
    <2>13. r \in Seq(Held) /\ \A j \in DOMAIN r : \E k \in DOMAIN q : r[j] = q[k]
        BY <2>6, <2>12, RoundType
    <2>5. /\ r \in Seq(Held)
          /\ \A j \in DOMAIN r : \E k \in DOMAIN rounds[d] : r[j] = rounds[d][k]
        BY <2>13 DEF q
    <2>7. rounds' \in [Device -> Seq(Held)] /\ rounds'[d] = r
        BY <2>5, <2>6 DEF TypeOK
    <2>8. \A e \in Device \ {d} : rounds'[e] = rounds[e]
        BY <2>6 DEF TypeOK
    <2>9. \A j \in DOMAIN rounds'[d] : \A m \in Msg : rounds'[d][j][Me(d)][m] = "none"
        BY <1>o, <2>5, <2>7 DEF OthersOnly
    <2>10. OthersOnly'
        <3>1. ASSUME NEW e \in Device
              PROVE  /\ \A m \in Msg : chats'[e][Me(e)][m] = "none"
                     /\ \A j \in DOMAIN rounds'[e] : \A m \in Msg :
                           rounds'[e][j][Me(e)][m] = "none"
            <4>1. CASE e = d
                BY <2>4, <2>9, <4>1
            <4>2. CASE e # d
                BY <1>o, <2>4, <2>8, <4>2 DEF OthersOnly
            <4> QED BY <4>1, <4>2
        <3> QED BY <1>m, <2>4, <3>1 DEF OthersOnly, Me
    <2>11. changed' \subseteq Device
        BY <1>3 DEF FinishRound, Raise, TypeOK
    <2> QED BY <1>3, <2>4, <2>7, <2>10, <2>11 DEF FinishRound, TypeOK
<1>4. ASSUME NEW d \in Device, NEW u \in User, OpenChat(d, u) PROVE TypeOK'
    <2>1. /\ u # Me(d) /\ MarkAsRead(d, u, chats[d])
          /\ screen' = [screen EXCEPT ![d] = {[user |-> u, kind |-> "listed"]}]
        BY <1>4 DEF OpenChat, Show
    <2>2. chats[d] \in Held /\ \A m \in Msg : chats[d][Me(d)][m] = "none"
        BY <1>o DEF TypeOK, OthersOnly
    <2>3. /\ outbox' \in [Device -> Seq(Write)]
          /\ chats' \in [Device -> Held]
          /\ \A m \in Msg : chats'[d][Me(d)][m] = "none"
          /\ \A e \in Device \ {d} : chats'[e] = chats[e]
        BY <2>1, <2>2, MarkType
    <2>4. screen' \in [Device -> SUBSET Screen]
        BY <2>1 DEF TypeOK, Screen, Kind
    <2>5. OthersOnly'
        BY <1>4, <1>m, <1>o, <2>1, <2>3 DEF OpenChat, Show, OthersOnly, TypeOK
    <2>6. changed' \subseteq Device
        BY <1>4 DEF OpenChat, Raise, TypeOK
    <2> QED BY <1>4, <2>3, <2>4, <2>5, <2>6 DEF OpenChat, Show, TypeOK
<1>5. ASSUME NEW d \in Device, NEW u \in User, CreateChat(d, u) PROVE TypeOK'
    <2>1. screen' \in [Device -> SUBSET Screen]
        BY <1>5 DEF CreateChat, Show, TypeOK, Screen, Kind
    <2>2. OthersOnly'
        BY <1>5, <1>m, <1>o DEF CreateChat, Show, OthersOnly, TypeOK
    <2> QED BY <1>5, <2>1, <2>2 DEF CreateChat, Show, TypeOK
<1>6. ASSUME NEW d \in Device, NEW s \in Seq(Chat), Remove(d, s) PROVE TypeOK'
    <2> DEFINE w == [i \in DOMAIN s |-> Clear(s[i])]
    <2>1. \A i \in DOMAIN s : Clear(s[i]) \in Write
        BY PutType DEF Clear, State
    <2>2. w \in Seq(Write)
        BY <2>1
    <2>3. Call(d, w)
        BY <1>6 DEF Remove
    <2> HIDE DEF w
    <2>4. outbox' \in [Device -> Seq(Write)]
        BY <2>2, <2>3, CallType
    <2>5. cleared' \subseteq Chat
        BY <1>6 DEF Remove, TypeOK
    <2>6. OthersOnly'
        BY <1>6, <1>m, <1>o DEF Remove, OthersOnly
    <2>7. changed' \subseteq Device
        BY <1>6 DEF Remove, Raise, TypeOK
    <2> QED BY <1>6, <2>4, <2>5, <2>6, <2>7 DEF Remove, Start, TypeOK
<1>7. ASSUME NEW d \in Device, NEW u \in User,
             DeleteDirectChat(d, u) \/ RemoveTeammate(d, u)
      PROVE  TypeOK'
    <2>1. u # Me(d)
        BY <1>7, <1>o DEF DeleteDirectChat, RemoveTeammate, Listed, OthersOnly
    <2>2. <<Me(d), u>> \in Chat /\ <<u, Me(d)>> \in Chat
        BY <1>m, <2>1, ChatType
    <2>3. /\ << <<Me(d), u>> >> \in Seq(Chat)
          /\ << <<Me(d), u>>, <<u, Me(d)>> >> \in Seq(Chat)
        BY <2>2
    <2> QED BY <1>6, <1>7, <2>3 DEF DeleteDirectChat, RemoveTeammate
<1>9. ASSUME NEW d \in Device, Close(d) PROVE TypeOK'
    <2>1. OthersOnly'
        BY <1>9, <1>m, <1>o DEF Close, OthersOnly, TypeOK
    <2> QED BY <1>9, <2>1 DEF Close, TypeOK
<1>10. ASSUME NEW d \in Device, NEW m \in Msg, SendDirectMessage(d, m) PROVE TypeOK'
    <2>1. PICK s \in screen[d] :
             /\ route' = [route EXCEPT ![m] = <<Me(d), s.user>>]
             /\ Call(d, SendWrites(Me(d), s.user, m))
        BY <1>10 DEF SendDirectMessage
    <2>2. s.user \in User /\ s.user # Me(d)
        BY <1>o DEF TypeOK, OthersOnly, Screen
    <2>3. SendWrites(Me(d), s.user, m) \in Seq(Write) /\ <<Me(d), s.user>> \in Chat
        BY <1>m, <2>2, BatchType, ChatType
    <2>4. outbox' \in [Device -> Seq(Write)]
        BY <2>1, <2>3, CallType
    <2>5. route' \in [Msg -> Chat \cup {<<>>}]
        BY <2>1, <2>3 DEF TypeOK
    <2>6. OthersOnly'
        BY <1>10, <1>m, <1>o DEF SendDirectMessage, OthersOnly
    <2>7. changed' \subseteq Device
        BY <1>10 DEF SendDirectMessage, Raise, TypeOK
    <2> QED BY <1>10, <2>4, <2>5, <2>6, <2>7 DEF SendDirectMessage, TypeOK
<1>11. ASSUME NEW d \in Device, Deliver(d) PROVE TypeOK'
    <2>1. outbox[d] \in Seq(Write) /\ outbox[d] # <<>>
        BY <1>11 DEF Deliver, TypeOK
    <2>2. Head(outbox[d]) \in Write /\ Tail(outbox[d]) \in Seq(Write)
        BY <2>1
    <2>3. tree' \in [Chat -> [Msg -> State]] /\ arrived' \subseteq Chat \X Msg
        BY <1>11, <2>2, ApplyType DEF Deliver
    <2>4. outbox' \in [Device -> Seq(Write)]
        BY <1>11, <2>2 DEF Deliver, TypeOK
    <2>5. OthersOnly'
        BY <1>11, <1>m, <1>o DEF Deliver, OthersOnly
    <2>6. changed' \subseteq Device
        BY <1>11 DEF Deliver, Raise, TypeOK
    <2> QED BY <1>11, <2>3, <2>4, <2>5, <2>6 DEF Deliver, TypeOK
<1>12. ASSUME NEW d \in Device, DeliverUnacked(d) PROVE TypeOK'
    <2>1. /\ outbox[d] \in Seq(Write) /\ unacked[d] \in Nat
          /\ unacked[d] < Len(outbox[d])
        BY <1>12 DEF DeliverUnacked, TypeOK
    <2>2. unacked[d] + 1 \in 1..Len(outbox[d])
        BY <2>1
    <2>3. outbox[d][unacked[d] + 1] \in Write
        BY <2>1, <2>2
    <2>4. tree' \in [Chat -> [Msg -> State]] /\ arrived' \subseteq Chat \X Msg
        BY <1>12, <2>3, ApplyType DEF DeliverUnacked
    <2>5. unacked' \in [Device -> Nat] /\ drops' \in Nat
        BY <1>12 DEF DeliverUnacked, TypeOK
    <2>6. OthersOnly'
        BY <1>12, <1>m, <1>o DEF DeliverUnacked, OthersOnly
    <2>7. changed' \subseteq Device
        BY <1>12 DEF DeliverUnacked, Raise, TypeOK
    <2> QED BY <1>12, <2>4, <2>5, <2>6, <2>7 DEF DeliverUnacked, TypeOK
<1>13. ASSUME NEW d \in Device, Reconnect(d) \/ Crash(d) PROVE TypeOK'
    <2>1. outbox[d] \in Seq(Write) /\ unacked[d] \in Nat
        BY DEF TypeOK
    <2>2. \A i \in DOMAIN outbox[d] : outbox[d][i].msgs \subseteq Msg
        <3>1. \A i \in DOMAIN outbox[d] : outbox[d][i] \in Write
            BY <2>1
        <3> QED BY <3>1 DEF Write
    <2>3. CASE Reconnect(d)
        <3>2. resent' \subseteq Msg
            BY <2>2, <2>3 DEF Reconnect, TypeOK
        <3>3. OthersOnly'
            BY <1>m, <1>o, <2>3 DEF Reconnect, OthersOnly
        <3> QED BY <2>3, <3>2, <3>3 DEF Reconnect, TypeOK
    <2>4. CASE Crash(d)
        <3>1. lost' \subseteq Msg
            BY <2>2, <2>4 DEF Crash, QueuedMessages, TypeOK
        <3>2. NoChats \in Held /\ \A m \in Msg : NoChats[Me(d)][m] = "none"
            BY <1>m DEF NoChats, Held, State
        <3>3. OthersOnly'
            BY <1>m, <1>o, <2>4, <3>2 DEF Crash, OthersOnly, TypeOK
        <3>4. changed' \subseteq Device
            BY <2>4 DEF Crash, TypeOK
        <3> QED BY <2>4, <3>1, <3>2, <3>3, <3>4 DEF Crash, TypeOK
    <2> QED BY <1>13, <2>3, <2>4
<1>14. CASE UNCHANGED vars
    BY <1>14, <1>m DEF vars, TypeOK, OthersOnly
<1> QED
    BY <1>1, <1>2, <1>3, <1>4, <1>5, <1>7, <1>9, <1>10, <1>11, <1>12,
       <1>13, <1>14 DEF Next

\* The state stays well typed, and no device lists, opens or deletes a chat of
\* its user with themself.
THEOREM TypeCorrect == Spec => []TypeOK
BY InitTypeOK, NextTypeOK, PTL DEF Spec

------------------------------------------------------------------------------
(***************************************************************************)
(* The sender of a message keeps a copy of all that the addressee has,     *)
(* unless the sender's copy was removed.                                   *)
(***************************************************************************)

(* What stays true of a message *)

\* The step leaves the route of a sent message, and its sender's copy or the
\* removal of it.
Steady ==
    \A m \in Msg : Sent(m) => route'[m] = route[m] /\ (Kept(m) => Kept(m)')

LEMMA BackedStays ==
    ASSUME Steady, NEW c, NEW m \in Msg, Backed(c, m)
    PROVE  Backed(c, m)'
<1>1. Sent(m) /\ route'[m] = route[m] /\ (Kept(m) => Kept(m)')
    BY DEF Steady, Backed
<1>2. Sent(m)'
    BY <1>1 DEF Sent
<1> QED BY <1>1, <1>2 DEF Backed, Back

\* Steps that touch neither database, routes nor removals are steady.
LEMMA QuietSteady ==
    ASSUME tree' = tree, route' = route, cleared \subseteq cleared'
    PROVE  Steady
BY DEF Steady, Kept

\* A write that stays queued stays backed, if the earlier writes of its queue
\* stay too or have done their part.
LEMMA WriteStays ==
    ASSUME Steady, cleared \subseteq cleared', NEW d \in Device,
           NEW w \in Write,
           NEW i \in DOMAIN outbox[d], outbox[d][i] = w,
           NEW k \in DOMAIN outbox'[d], outbox'[d][k] = w,
           WriteBacked(d, outbox[d], i),
           \A j \in DOMAIN outbox[d] : j < i =>
               \/ \E l \in DOMAIN outbox'[d] :
                     l < k /\ outbox'[d][l] = outbox[d][j]
               \/ \A m \in Msg :
                     Sent(m) /\ Writes(outbox[d][j], route[m], m) => Kept(m)'
    PROVE  WriteBacked(d, outbox[d], k)'
<1>1. w.msgs \subseteq Msg
    BY DEF Write
<1>2. CASE w.as = "none"
    BY <1>2 DEF WriteBacked
<1>3. CASE w.as # "none"
    <2> SUFFICES ASSUME NEW m \in w.msgs
                 PROVE  \/ Backed(w.chat, m)'
                        \/ w.chat[1] # Me(d) /\ Follows(outbox[d], k, m)'
        BY <1>3 DEF WriteBacked, Me
    <2>1. m \in Msg
        BY <1>1
    <2>0. \/ Backed(w.chat, m)
          \/ w.chat[1] # Me(d) /\ Follows(outbox[d], i, m)
        BY <1>3 DEF WriteBacked
    <2>2. CASE Backed(w.chat, m)
        <3>1. Backed(w.chat, m)'
            BY <2>1, <2>2, BackedStays
        <3> QED BY <3>1
    <2>3. CASE w.chat[1] # Me(d) /\ Follows(outbox[d], i, m)
        <3>1. /\ Sent(m) /\ w.chat = Back(route[m])
              /\ route'[m] = route[m]
            BY <2>1, <2>3 DEF Follows, Steady
        <3>2. PICK j \in DOMAIN outbox[d] :
                 j < i /\ Writes(outbox[d][j], route[m], m)
            BY <2>3 DEF Follows
        <3>3. Sent(m)' /\ w.chat = Back(route[m])'
            BY <3>1 DEF Sent, Back
        <3>4. CASE Kept(m)'
            BY <3>3, <3>4 DEF Backed
        <3>5. CASE \E l \in DOMAIN outbox'[d] :
                      l < k /\ outbox'[d][l] = outbox[d][j]
            <4>1. PICK l \in DOMAIN outbox'[d] :
                      l < k /\ outbox'[d][l] = outbox[d][j]
                BY <3>5
            <4>2. Writes(outbox'[d][l], route'[m], m)
                BY <3>1, <3>2, <4>1
            <4>3. Writes(outbox[d][l], route[m], m)'
                BY <4>2 DEF Writes, Touches
            <4>4. Follows(outbox[d], k, m)'
                BY <3>3, <4>1, <4>3 DEF Follows
            <4> QED BY <2>3, <4>4
        <3> QED BY <2>1, <3>1, <3>2, <3>4, <3>5
    <2> QED BY <2>0, <2>2, <2>3
<1> QED BY <1>2, <1>3

\* A queue that did not change stays backed.
LEMMA QueueStays ==
    ASSUME Steady, cleared \subseteq cleared', TypeOK, QueuesBacked,
           NEW d \in Device, outbox'[d] = outbox[d]
    PROVE  \A k \in DOMAIN outbox'[d] : WriteBacked(d, outbox[d], k)'
<1> SUFFICES ASSUME NEW k \in DOMAIN outbox'[d]
             PROVE  WriteBacked(d, outbox[d], k)'
    BY DEF Me
<1>1. outbox[d] \in Seq(Write) /\ k \in DOMAIN outbox[d]
    BY DEF TypeOK
<1>2. PICK w \in Write : outbox[d][k] = w
    BY <1>1
<1>3. outbox'[d][k] = w /\ WriteBacked(d, outbox[d], k)
    BY <1>1, <1>2 DEF QueuesBacked
<1>4. \A j \in DOMAIN outbox[d] : j < k =>
          \E l \in DOMAIN outbox'[d] : l < k /\ outbox'[d][l] = outbox[d][j]
    OBVIOUS
<1> QED BY <1>1, <1>2, <1>3, <1>4, WriteStays

\* Only sent messages are on their way.
LEMMA QueuedSent ==
    ASSUME QueuesBacked, NEW d \in Device, NEW j \in DOMAIN outbox[d],
           NEW c, NEW m \in Msg, Writes(outbox[d][j], c, m)
    PROVE  Sent(m)
BY DEF QueuesBacked, WriteBacked, Writes, Touches, Backed, Follows

\* What was applied and has done its part still has.
LEMMA AppliedStays ==
    ASSUME Steady, QueuesBacked, AppliedKept, NEW d \in Device,
           NEW j \in DOMAIN outbox[d], j <= unacked[d], NEW m \in Msg,
           Writes(outbox[d][j], route'[m], m)
    PROVE  Kept(m)'
<1>1. Sent(m)
    BY QueuedSent
<1>2. route'[m] = route[m] /\ (Kept(m) => Kept(m)')
    BY <1>1 DEF Steady
<1> QED BY <1>1, <1>2 DEF AppliedKept

LEMMA TreeStays ==
    ASSUME Steady, TreeBacked, tree' = tree
    PROVE  TreeBacked'
<1> SUFFICES ASSUME NEW c \in Chat, NEW m \in Msg, tree'[c][m] # "none"
             PROVE  Backed(c, m)'
    BY DEF TreeBacked
<1>1. Backed(c, m)
    BY DEF TreeBacked
<1> QED BY <1>1, BackedStays

\* The lists a device has after a step are backed if their values were before.
LEMMA ListsStay ==
    ASSUME Steady,
           \A d \in Device :
              /\ ValueBacked(d, chats'[d])
              /\ \A i \in DOMAIN rounds'[d] : ValueBacked(d, rounds'[d][i])
    PROVE  ListsBacked'
<1>1. ASSUME NEW d \in Device, NEW u \in User, NEW m \in Msg,
             Backed(<<Me(d), u>>, m)
      PROVE  Backed(<<Me(d), u>>, m)'
    <2> DEFINE c == <<UserOf[d], u>>
    <2>1. Backed(c, m)
        BY <1>1 DEF Me
    <2> HIDE DEF c
    <2>2. Backed(c, m)'
        BY <2>1, BackedStays
    <2> QED BY <2>2 DEF c, Me
<1> QED BY <1>1 DEF ListsBacked, ValueBacked

\* What a device sees of its chats is backed.
LEMMA ViewBacked ==
    ASSUME TypeOK, TreeBacked, QueuesBacked, NEW d \in Device
    PROVE  ValueBacked(d, View(d))
<1> SUFFICES ASSUME NEW u \in User, NEW m \in Msg, View(d)[u][m] # "none"
             PROVE  Backed(<<Me(d), u>>, m)
    BY DEF ValueBacked
<1> DEFINE c == <<Me(d), u>>
           q == outbox[d]
           T == Touching(q, c, m)
<1>1. u # Me(d) /\ Seen(tree, q, c, m) # "none"
    BY DEF View
<1>2. c \in Chat /\ c[1] = Me(d)
    BY <1>1, MeType, ChatType
<1>3. q \in Seq(Write) /\ Len(q) \in Nat
    BY DEF TypeOK
<1>4. \A i \in DOMAIN q : WriteBacked(d, q, i)
    BY DEF QueuesBacked
<1>5. T \subseteq DOMAIN q /\ \A i \in T : Touches(q[i], c, m)
    BY DEF Touching
<1> HIDE DEF q, c, T
<1>6. CASE T = {}
    BY <1>1, <1>2, <1>6 DEF Seen, TreeBacked, c, T
<1>7. CASE T # {}
    <2> DEFINE i == Latest(T)
    <2>1. T \in SUBSET (1..Len(q))
        BY <1>3, <1>5
    <2>2. i \in T
        BY <1>3, <1>7, <2>1, LatestIn
    <2>3. q[i].as # "none"
        BY <1>1, <1>7 DEF Seen, T
    <2> HIDE DEF i
    <2>4. q[i].chat = c /\ m \in q[i].msgs /\ WriteBacked(d, q, i)
        BY <1>4, <1>5, <2>2 DEF Touches
    <2> QED BY <1>2, <2>3, <2>4 DEF WriteBacked, c
<1> QED BY <1>6, <1>7

(* The server *)

\* To apply a backed write keeps the sender's copies, and what is written to
\* one has done its part.
LEMMA ApplyCopies ==
    ASSUME TypeOK, TreeBacked, NEW w \in Write, Apply(w),
           UNCHANGED <<route, cleared>>,
           w.as = "none" => w.chat \in cleared,
           w.as # "none" => \A m \in w.msgs : Backed(w.chat, m)
    PROVE  /\ Steady
           /\ TreeBacked'
           /\ \A m \in Msg : Sent(m) /\ Writes(w, route[m], m) => Kept(m)'
<1>1. \A c \in Chat : \A m \in Msg :
          tree'[c][m] = IF Touches(w, c, m) THEN w.as ELSE tree[c][m]
    BY DEF Apply, Applied
<1>2. \A m \in Msg : Sent(m) => route[m] \in Chat
    BY DEF Sent, TypeOK
<1>3. ASSUME NEW m \in Msg, Sent(m), Kept(m)
      PROVE  Kept(m)'
    BY <1>1, <1>2, <1>3 DEF Kept, Touches
<1>4. Steady
    BY <1>3 DEF Steady
<1>5. ASSUME NEW c \in Chat, NEW m \in Msg, tree'[c][m] # "none"
      PROVE  Backed(c, m)'
    <2>1. Backed(c, m)
        BY <1>1, <1>5 DEF Touches, TreeBacked
    <2> QED BY <1>4, <2>1, BackedStays
<1>6. ASSUME NEW m \in Msg, Sent(m), Writes(w, route[m], m)
      PROVE  Kept(m)'
    BY <1>1, <1>2, <1>6 DEF Kept, Writes
<1> QED BY <1>4, <1>5, <1>6 DEF TreeBacked

(* Calls of a device *)

\* The queues after a call whose own writes are backed.
LEMMA CallCopies ==
    ASSUME Steady, cleared \subseteq cleared', TypeOK, QueuesBacked, AppliedKept,
           NEW d \in Device, NEW s \in Seq(Write), Call(d, s),
           unacked' = unacked,
           \A k \in Len(outbox[d]) + 1 .. Len(outbox[d]) + Len(s) :
               WriteBacked(d, outbox[d], k)'
    PROVE  QueuesBacked' /\ AppliedKept'
<1>1. /\ outbox[d] \in Seq(Write) /\ Len(outbox[d]) \in Nat
      /\ outbox'[d] = outbox[d] \o s
      /\ \A e \in Device \ {d} : outbox'[e] = outbox[e]
    BY DEF TypeOK, Call
<1>2. /\ DOMAIN outbox[d] = 1..Len(outbox[d])
      /\ DOMAIN outbox'[d] = 1..(Len(outbox[d]) + Len(s))
      /\ Len(outbox'[d]) = Len(outbox[d]) + Len(s) /\ Len(s) \in Nat
      /\ \A k \in 1..Len(outbox[d]) : outbox'[d][k] = outbox[d][k]
    BY <1>1
<1>3. ASSUME NEW k \in 1..Len(outbox[d])
      PROVE  WriteBacked(d, outbox[d], k)'
    <2>1. PICK w \in Write : outbox[d][k] = w
        BY <1>1, <1>2
    <2>2. outbox'[d][k] = w /\ WriteBacked(d, outbox[d], k)
        BY <1>2, <2>1 DEF QueuesBacked
    <2>3. k \in DOMAIN outbox[d] /\ k \in DOMAIN outbox'[d]
        BY <1>2
    <2>4. \A j \in DOMAIN outbox[d] : j < k =>
              \E l \in DOMAIN outbox'[d] : l < k /\ outbox'[d][l] = outbox[d][j]
        BY <1>2
    <2> QED BY <2>1, <2>2, <2>3, <2>4, WriteStays
<1>4. QueuesBacked'
    <2>1. ASSUME NEW k \in DOMAIN outbox'[d]
          PROVE  WriteBacked(d, outbox[d], k)'
        <3>1. CASE k \in 1..Len(outbox[d])
            BY <1>3, <3>1
        <3>2. CASE k \in Len(outbox[d]) + 1 .. Len(outbox[d]) + Len(s)
            BY <3>2
        <3> QED BY <1>2, <3>1, <3>2
    <2>2. ASSUME NEW e \in Device, e # d, NEW k \in DOMAIN outbox'[e]
          PROVE  WriteBacked(e, outbox[e], k)'
        BY <1>1, <2>2, QueueStays
    <2> QED BY <2>1, <2>2 DEF QueuesBacked
<1>5. \A e \in Device : unacked[e] \in Nat /\ unacked[e] <= Len(outbox[e])
    BY DEF TypeOK, AppliedKept
<1>6. ASSUME NEW e \in Device, NEW j \in DOMAIN outbox'[e], NEW m \in Msg,
             j <= unacked[e], Writes(outbox'[e][j], route'[m], m)
      PROVE  Kept(m)'
    <2>1. j \in DOMAIN outbox[e] /\ outbox'[e][j] = outbox[e][j]
        <3>1. CASE e = d
            BY <1>2, <1>5, <1>6, <3>1
        <3>2. CASE e # d
            BY <1>1, <3>2
        <3> QED BY <3>1, <3>2
    <2> QED BY <1>6, <2>1, AppliedStays
<1>7. \A e \in Device : unacked'[e] <= Len(outbox'[e])
    <2>1. unacked'[d] <= Len(outbox'[d])
        BY <1>2, <1>5
    <2>2. \A e \in Device \ {d} : unacked'[e] <= Len(outbox'[e])
        BY <1>1, <1>5
    <2> QED BY <2>1, <2>2
<1>8. AppliedKept'
    <2>1. ASSUME NEW e \in Device, NEW j \in DOMAIN outbox'[e], NEW m \in Msg,
                 j <= unacked'[e], Writes(outbox[e][j], route[m], m)'
          PROVE  Kept(m)'
        BY <1>6, <2>1 DEF Writes, Touches
    <2> QED BY <1>7, <2>1 DEF AppliedKept
<1> QED BY <1>4, <1>8

\* A queue that is left alone.
LEMMA NoCallCopies ==
    ASSUME Steady, cleared \subseteq cleared', TypeOK, QueuesBacked, AppliedKept,
           UNCHANGED <<outbox, unacked>>
    PROVE  QueuesBacked' /\ AppliedKept'
<1>1. QueuesBacked'
    BY QueueStays DEF QueuesBacked
<1>2. ASSUME NEW e \in Device, NEW j \in DOMAIN outbox'[e], NEW m \in Msg,
             j <= unacked'[e], Writes(outbox[e][j], route[m], m)'
      PROVE  Kept(m)'
    BY <1>2, AppliedStays DEF Writes, Touches
<1>3. \A e \in Device : unacked'[e] <= Len(outbox'[e])
    BY DEF AppliedKept
<1> QED BY <1>1, <1>2, <1>3 DEF AppliedKept

\* Marking the messages of a backed list as read: the list and the queue.
LEMMA MarkCopies ==
    ASSUME TypeOK, QueuesBacked, AppliedKept,
           UNCHANGED <<tree, route, cleared, unacked>>,
           NEW d \in Device, NEW u \in User, u # Me(d),
           NEW value \in Held, ValueBacked(d, value), MarkAsRead(d, u, value)
    PROVE  /\ QueuesBacked' /\ AppliedKept'
           /\ ValueBacked(d, chats'[d])
           /\ \A e \in Device \ {d} : chats'[e] = chats[e]
<1> DEFINE ms == Unread(d, u, value)
           s == MarkWrites(Me(d), u, ms)
           c == <<UserOf[d], u>>
<1>1. Steady
    BY QuietSteady
<1>2. ms \in SUBSET Msg /\ \A m \in ms : Backed(c, m)
    BY DEF Unread, ValueBacked, Me
<1>3. s \in Seq(Write)
    BY <1>2, MeType, BatchType
<1>4. outbox[d] \in Seq(Write) /\ outbox'[d] = outbox[d] \o s /\ Call(d, s)
    BY DEF MarkAsRead, Call, TypeOK
<1>5. s = <<>> \/ s = << Put(c, ms, "read") >>
    BY DEF MarkWrites, Me
<1> HIDE DEF s, ms, c
<1>6. \A m \in ms : Backed(c, m)'
    BY <1>1, <1>2, BackedStays
<1>7. ASSUME NEW k \in Len(outbox[d]) + 1 .. Len(outbox[d]) + Len(s)
      PROVE  WriteBacked(d, outbox[d], k)'
    <2>1. /\ s = << Put(c, ms, "read") >> /\ k = Len(outbox[d]) + 1
          /\ outbox'[d][k] = Put(c, ms, "read")
        BY <1>3, <1>4, <1>5
    <2> QED BY <1>6, <2>1 DEF WriteBacked, Put
<1>8. QueuesBacked' /\ AppliedKept'
    BY <1>1, <1>3, <1>4, <1>7, CallCopies
<1>9. /\ \A v \in User : \A m \in Msg :
            chats'[d][v][m] # "none" => value[v][m] # "none"
      /\ \A e \in Device \ {d} : chats'[e] = chats[e]
    BY DEF MarkAsRead, TypeOK, Held, Unread
<1> QED BY <1>8, <1>9 DEF ValueBacked

\* The same for an update of the list.
LEMMA UpdateCopies ==
    ASSUME TypeOK, QueuesBacked, AppliedKept,
           UNCHANGED <<tree, route, cleared, unacked>>,
           NEW d \in Device, NEW value \in Held, ValueBacked(d, value),
           UpdateChat(d, value)
    PROVE  /\ QueuesBacked' /\ AppliedKept'
           /\ ValueBacked(d, chats'[d])
           /\ \A e \in Device \ {d} : chats'[e] = chats[e]
<1>1. CASE chats' = [chats EXCEPT ![d] = value] /\ UNCHANGED outbox
    <2>1. QueuesBacked' /\ AppliedKept'
        BY <1>1, QuietSteady, NoCallCopies
    <2> QED BY <1>1, <2>1 DEF TypeOK
<1>2. CASE \E t \in screen[d] : MarkAsRead(d, t.user, value)
    <2>1. PICK t \in screen[d] : MarkAsRead(d, t.user, value)
        BY <1>2
    <2>2. t.user \in User /\ t.user # Me(d)
        BY DEF TypeOK, OthersOnly, Screen
    <2> QED BY <2>1, <2>2, MarkCopies
<1> QED BY <1>1, <1>2 DEF UpdateChat

(* Steps *)

LEMMA TwoMore ==
    ASSUME NEW S, NEW q \in Seq(S), NEW s \in Seq(S), Len(s) = 2
    PROVE  /\ DOMAIN (q \o s) = 1..(Len(q) + 2)
           /\ (q \o s)[Len(q) + 1] = s[1]
           /\ (q \o s)[Len(q) + 2] = s[2]
<1>0. /\ q \o s \in Seq(S)
      /\ Len(q \o s) = Len(q) + Len(s)
      /\ \A i \in 1 .. Len(q) + Len(s) :
            (q \o s)[i] = IF i <= Len(q) THEN q[i] ELSE s[i - Len(q)]
    BY ConcatProperties, Zenon
<1>1. /\ q \o s \in Seq(S) /\ Len(q \o s) = Len(q) + 2 /\ Len(q) \in Nat
      /\ \A i \in 1 .. Len(q) + 2 :
            (q \o s)[i] = IF i <= Len(q) THEN q[i] ELSE s[i - Len(q)]
    BY <1>0
<1>2. DOMAIN (q \o s) = 1..(Len(q) + 2)
    BY <1>1
<1>3. /\ Len(q) + 1 \in 1..(Len(q) + 2) /\ Len(q) + 2 \in 1..(Len(q) + 2)
      /\ ~(Len(q) + 1 <= Len(q)) /\ (Len(q) + 1) - Len(q) = 1
      /\ ~(Len(q) + 2 <= Len(q)) /\ (Len(q) + 2) - Len(q) = 2
    BY <1>1
<1> QED BY <1>1, <1>2, <1>3

\* A new message: its sender's copy is queued before the other.
LEMMA SendCopies ==
    ASSUME TypeOK, CopyInv, NEW d \in Device, NEW m \in Msg,
           SendDirectMessage(d, m)
    PROVE  CopyInv'
<1>1. PICK t \in screen[d] :
         /\ route' = [route EXCEPT ![m] = <<Me(d), t.user>>]
         /\ Call(d, SendWrites(Me(d), t.user, m))
    BY DEF SendDirectMessage
<1>2. t.user \in User /\ t.user # Me(d)
    BY DEF TypeOK, OthersOnly, Screen
<1> DEFINE own == <<UserOf[d], t.user>>
           other == <<t.user, UserOf[d]>>
           s == SendWrites(Me(d), t.user, m)
<1>0. PICK n \in Nat : n = Len(outbox[d])
    BY DEF TypeOK
<1>3. s = << Put(own, {m}, "unread"), Put(other, {m}, "unread") >>
    BY DEF SendWrites, Me
<1>4. s \in Seq(Write) /\ Call(d, s)
    BY <1>1, <1>2, MeType, BatchType
<1>5. route'[m] = own /\ own # <<>> /\ other = Back(own) /\ other[1] # Me(d)
    BY <1>1, <1>2 DEF TypeOK, Back, Me
<1>6. ~Sent(m) /\ \A x \in Msg \ {m} : route'[x] = route[x]
    BY <1>1 DEF SendDirectMessage, TypeOK
<1>7. tree' = tree /\ cleared' = cleared /\ unacked' = unacked /\ chats' = chats
      /\ rounds' = rounds
    BY DEF SendDirectMessage, history
<1>8. Steady
    BY <1>6, <1>7 DEF Steady, Kept
<1>9. outbox[d] \in Seq(Write) /\ outbox'[d] = outbox[d] \o s
    BY <1>4 DEF TypeOK, Call
<1> HIDE DEF s
<1>10. /\ Len(s) = 2 /\ s[1] = Put(own, {m}, "unread")
       /\ s[2] = Put(other, {m}, "unread")
    BY <1>3
<1>11. /\ n + 1 \in DOMAIN outbox'[d]
       /\ outbox'[d][n + 1] = Put(own, {m}, "unread")
       /\ outbox'[d][n + 2] = Put(other, {m}, "unread")
    <2>1. /\ n + 1 \in 1..(n + 2) /\ n + 2 \in 1..(n + 2)
          /\ ~(n + 1 <= n) /\ ~(n + 2 <= n) /\ (n + 1) - n = 1 /\ (n + 2) - n = 2
        OBVIOUS
    <2>2. /\ DOMAIN outbox'[d] = 1..(n + 2)
          /\ outbox'[d][n + 1] = s[1] /\ outbox'[d][n + 2] = s[2]
        BY <1>0, <1>4, <1>9, <1>10, TwoMore
    <2> QED BY <1>10, <2>1, <2>2
<1> HIDE DEF own, other
<1>12. WriteBacked(d, outbox[d], n + 1)' /\ Sent(m)'
    BY <1>5, <1>11 DEF WriteBacked, Backed, Sent, Put
<1>13. WriteBacked(d, outbox[d], n + 2)'
    <2>1. Writes(outbox'[d][n + 1], route'[m], m)
        BY <1>5, <1>11 DEF Writes, Touches, Put
    <2>2. Sent(m)' /\ outbox'[d][n + 2].chat = Back(route'[m])
        BY <1>5, <1>11, <1>12 DEF Put
    <2>3. n + 1 < n + 2
        OBVIOUS
    <2>4. Follows(outbox[d], n + 2, m)'
        BY <1>11, <2>1, <2>2, <2>3 DEF Follows, Back, Writes, Touches
    <2> QED BY <1>5, <1>11, <2>4 DEF WriteBacked, Put, Me
<1>14. QueuesBacked' /\ AppliedKept'
    <2>1. \A k \in n + 1 .. n + Len(s) : k = n + 1 \/ k = n + 2
        BY <1>10
    <2>2. \A k \in n + 1 .. n + Len(s) : WriteBacked(d, outbox[d], k)'
        BY <1>12, <1>13, <2>1
    <2> QED BY <1>0, <1>4, <1>7, <1>8, <2>2, CallCopies DEF CopyInv
<1>15. TreeBacked' /\ ListsBacked'
    BY <1>7, <1>8, TreeStays, ListsStay DEF CopyInv, ListsBacked
<1> QED BY <1>14, <1>15 DEF CopyInv

\* A removal: only removed copies are cleared.
LEMMA RemoveCopies ==
    ASSUME TypeOK, CopyInv, NEW d \in Device, NEW copies \in Seq(Chat),
           Remove(d, copies)
    PROVE  CopyInv'
<1> DEFINE s == [i \in DOMAIN copies |-> Clear(copies[i])]
<1>1. /\ Call(d, s) /\ tree' = tree /\ route' = route /\ unacked' = unacked
      /\ chats' = chats /\ rounds' = rounds
      /\ cleared' = cleared \cup {copies[i] : i \in DOMAIN copies}
    BY DEF Remove
<1>2. \A i \in DOMAIN copies : Clear(copies[i]) \in Write
    BY PutType DEF Clear, State
<1>3. s \in Seq(Write) /\ Len(s) = Len(copies) /\ DOMAIN copies = 1..Len(copies)
    BY <1>2
<1>4. Steady
    BY <1>1, QuietSteady
<1>5. \A i \in 1..Len(s) : s[i].as = "none" /\ s[i].chat \in cleared'
    BY <1>1, <1>3 DEF Clear, Put
<1> HIDE DEF s
<1>6. outbox[d] \in Seq(Write) /\ outbox'[d] = outbox[d] \o s
    BY <1>1 DEF TypeOK, Call
<1>7. ASSUME NEW k \in Len(outbox[d]) + 1 .. Len(outbox[d]) + Len(s)
      PROVE  WriteBacked(d, outbox[d], k)'
    <2>1. PICK i \in 1..Len(s) : outbox'[d][k] = s[i]
        <3>1. Len(outbox[d]) \in Nat /\ Len(s) \in Nat
            BY <1>3, <1>6
        <3>2. k - Len(outbox[d]) \in 1..Len(s)
            BY <3>1
        <3>3. outbox'[d][k] = s[k - Len(outbox[d])]
            BY <1>3, <1>6, <3>1, <3>2
        <3> QED BY <3>2, <3>3
    <2> QED BY <1>5, <2>1 DEF WriteBacked
<1>8. QueuesBacked' /\ AppliedKept'
    BY <1>1, <1>3, <1>4, <1>7, CallCopies DEF CopyInv
<1>9. TreeBacked' /\ ListsBacked'
    BY <1>1, <1>4, TreeStays, ListsStay DEF CopyInv, ListsBacked
<1> QED BY <1>8, <1>9 DEF CopyInv

LEMMA TailElements ==
    ASSUME NEW S, NEW q \in Seq(S), q # <<>>
    PROVE  /\ Len(q) \in Nat /\ Len(q) > 0
           /\ DOMAIN q = 1..Len(q)
           /\ Len(Tail(q)) = Len(q) - 1
           /\ DOMAIN Tail(q) = 1..(Len(q) - 1)
           /\ \A k \in 1..(Len(q) - 1) : Tail(q)[k] = q[k + 1]
<1>1. Len(q) \in Nat /\ Len(q) > 0 /\ DOMAIN q = 1..Len(q)
    OBVIOUS
<1>2. Tail(q) \in Seq(S) /\ Len(Tail(q)) = Len(q) - 1
    BY <1>1
<1>3. DOMAIN Tail(q) = 1..(Len(q) - 1)
    BY <1>2
<1>4. ASSUME NEW k \in 1..(Len(q) - 1) PROVE Tail(q)[k] = q[k + 1]
    BY <1>1
<1> QED BY <1>1, <1>2, <1>3, <1>4

\* The server answers the first write of a queue.
LEMMA DeliverCopies ==
    ASSUME TypeOK, CopyInv, NEW d \in Device, Deliver(d)
    PROVE  CopyInv'
<1>1. /\ outbox[d] \in Seq(Write) /\ outbox[d] # <<>> /\ unacked[d] = 0
      /\ Apply(Head(outbox[d])) /\ outbox' = [outbox EXCEPT ![d] = Tail(@)]
      /\ UNCHANGED <<unacked, chats, rounds, route, cleared>>
    BY DEF Deliver, TypeOK
<1>2. PICK w \in Write : outbox[d][1] = w /\ Head(outbox[d]) = w
    BY <1>1
<1>3. 1 \in DOMAIN outbox[d] /\ WriteBacked(d, outbox[d], 1)
    BY <1>1 DEF CopyInv, QueuesBacked
<1>4. \A m \in Msg : ~Follows(outbox[d], 1, m)
    BY <1>1 DEF Follows
<1>5. /\ w.as = "none" => w.chat \in cleared
      /\ w.as # "none" => \A m \in w.msgs : Backed(w.chat, m)
    BY <1>2, <1>3, <1>4 DEF WriteBacked, Write
<1>6. /\ Steady /\ TreeBacked'
      /\ \A m \in Msg : Sent(m) /\ Writes(w, route[m], m) => Kept(m)'
    BY <1>1, <1>2, <1>5, ApplyCopies DEF CopyInv
<1>7. /\ outbox'[d] = Tail(outbox[d])
      /\ \A e \in Device \ {d} : outbox'[e] = outbox[e]
    BY <1>1 DEF TypeOK
<1>8. /\ Len(outbox[d]) \in Nat /\ Len(outbox[d]) > 0
      /\ DOMAIN outbox[d] = 1..Len(outbox[d])
      /\ Len(outbox'[d]) = Len(outbox[d]) - 1
      /\ DOMAIN outbox'[d] = 1..(Len(outbox[d]) - 1)
      /\ \A k \in 1..(Len(outbox[d]) - 1) : outbox'[d][k] = outbox[d][k + 1]
    <2> DEFINE q == outbox[d]
    <2>1. q \in Seq(Write) /\ q # <<>> /\ outbox'[d] = Tail(q)
        BY <1>1, <1>7
    <2> HIDE DEF q
    <2>2. /\ Len(q) \in Nat /\ Len(q) > 0
          /\ DOMAIN q = 1..Len(q)
          /\ Len(Tail(q)) = Len(q) - 1
          /\ DOMAIN Tail(q) = 1..(Len(q) - 1)
          /\ \A k \in 1..(Len(q) - 1) : Tail(q)[k] = q[k + 1]
        BY <2>1, TailElements
    <2> QED BY <2>1, <2>2 DEF q
<1>9. ASSUME NEW k \in DOMAIN outbox'[d]
      PROVE  WriteBacked(d, outbox[d], k)'
    <2>1. k + 1 \in DOMAIN outbox[d] /\ outbox'[d][k] = outbox[d][k + 1] /\ k \in Nat
        BY <1>8
    <2>2. PICK x \in Write : outbox[d][k + 1] = x
        BY <1>1, <2>1
    <2>3. WriteBacked(d, outbox[d], k + 1)
        BY <2>1 DEF CopyInv, QueuesBacked
    <2>4. ASSUME NEW j \in DOMAIN outbox[d], j < k + 1
          PROVE  \/ \E l \in DOMAIN outbox'[d] :
                       l < k /\ outbox'[d][l] = outbox[d][j]
                 \/ \A m \in Msg :
                       Sent(m) /\ Writes(outbox[d][j], route[m], m) => Kept(m)'
        <3>1. CASE j = 1
            BY <1>2, <1>6, <3>1
        <3>2. CASE j # 1
            <4>1. /\ j - 1 \in DOMAIN outbox'[d] /\ j - 1 < k
                  /\ outbox'[d][j - 1] = outbox[d][j]
                BY <1>8, <2>1, <2>4, <3>2
            <4> QED BY <4>1
        <3> QED BY <3>1, <3>2
    <2>5. cleared \subseteq cleared' /\ outbox'[d][k] = x
        BY <1>1, <2>1, <2>2
    <2> QED BY <1>6, <2>1, <2>2, <2>3, <2>4, <2>5, WriteStays
<1>10. ASSUME NEW e \in Device, e # d, NEW k \in DOMAIN outbox'[e]
       PROVE  WriteBacked(e, outbox[e], k)'
    BY <1>1, <1>6, <1>7, <1>10, QueueStays DEF CopyInv
<1>11. QueuesBacked'
    BY <1>9, <1>10 DEF QueuesBacked
<1>12. ASSUME NEW e \in Device
       PROVE  /\ unacked'[e] <= Len(outbox'[e])
              /\ \A j \in DOMAIN outbox'[e] : \A m \in Msg :
                    j <= unacked'[e] /\ Writes(outbox[e][j], route[m], m)'
                        => Kept(m)'
    <2>1. CASE e = d
        BY <1>1, <1>8, <2>1
    <2>2. CASE e # d
        <3>1. outbox'[e] = outbox[e] /\ unacked'[e] = unacked[e]
            BY <1>1, <1>7, <2>2
        <3> QED BY <1>6, <3>1, AppliedStays DEF CopyInv, AppliedKept, Writes, Touches
    <2> QED BY <2>1, <2>2
<1>13. AppliedKept'
    BY <1>12 DEF AppliedKept
<1>14. ListsBacked'
    BY <1>1, <1>6, ListsStay DEF CopyInv, ListsBacked
<1> QED BY <1>6, <1>11, <1>13, <1>14 DEF CopyInv

\* The server applies a write whose answer is lost: what it follows in its
\* queue was applied before it and has done its part.
LEMMA UnackedCopies ==
    ASSUME TypeOK, CopyInv, NEW d \in Device, DeliverUnacked(d)
    PROVE  CopyInv'
<1>1. PICK n \in Nat : n = unacked[d]
    BY DEF TypeOK
<1>2. /\ outbox[d] \in Seq(Write) /\ n < Len(outbox[d])
      /\ Apply(outbox[d][n + 1]) /\ unacked' = [unacked EXCEPT ![d] = @ + 1]
      /\ UNCHANGED <<outbox, chats, rounds, route, cleared>>
    BY <1>1 DEF DeliverUnacked, TypeOK
<1>3. n + 1 \in DOMAIN outbox[d] /\ Len(outbox[d]) \in Nat
    BY <1>2
<1>4. PICK w \in Write : outbox[d][n + 1] = w
    BY <1>2, <1>3
<1>5. WriteBacked(d, outbox[d], n + 1)
    BY <1>3 DEF CopyInv, QueuesBacked
<1>6. ASSUME NEW m \in Msg, Follows(outbox[d], n + 1, m)
      PROVE  Backed(w.chat, m)
    <2>1. PICK j \in DOMAIN outbox[d] :
             j < n + 1 /\ Writes(outbox[d][j], route[m], m)
        BY <1>6 DEF Follows
    <2>2. j <= unacked[d]
        BY <1>1, <1>2, <2>1
    <2>3. Kept(m)
        BY <1>6, <2>1, <2>2 DEF CopyInv, AppliedKept, Follows
    <2> QED BY <1>4, <1>6, <2>3 DEF Backed, Follows
<1>7. /\ w.as = "none" => w.chat \in cleared
      /\ w.as # "none" => \A m \in w.msgs : Backed(w.chat, m)
    BY <1>4, <1>5, <1>6 DEF WriteBacked, Write
<1>8. /\ Steady /\ TreeBacked'
      /\ \A m \in Msg : Sent(m) /\ Writes(w, route[m], m) => Kept(m)'
    BY <1>2, <1>4, <1>7, ApplyCopies DEF CopyInv
<1>9. QueuesBacked'
    BY <1>2, <1>8, QueueStays DEF CopyInv, QueuesBacked
<1>10. ASSUME NEW e \in Device
       PROVE  /\ unacked'[e] <= Len(outbox'[e])
              /\ \A j \in DOMAIN outbox'[e] : \A m \in Msg :
                    j <= unacked'[e] /\ Writes(outbox[e][j], route[m], m)'
                        => Kept(m)'
    <2>1. CASE e # d
        <3>1. outbox'[e] = outbox[e] /\ unacked'[e] = unacked[e]
            BY <1>2, <2>1 DEF TypeOK
        <3> QED BY <1>8, <3>1, AppliedStays DEF CopyInv, AppliedKept, Writes, Touches
    <2>2. CASE e = d
        <3>1. unacked'[d] = n + 1 /\ n + 1 <= Len(outbox'[d])
            BY <1>1, <1>2, <1>3 DEF TypeOK
        <3>2. ASSUME NEW j \in DOMAIN outbox'[d], NEW m \in Msg, j <= n + 1,
                     Writes(outbox[d][j], route[m], m)'
              PROVE  Kept(m)'
            <4>1. /\ outbox' = outbox /\ route' = route
                  /\ Writes(outbox[d][j], route[m], m)
                BY <1>2, <3>2 DEF Writes, Touches
            <4>2. CASE j = n + 1
                <5>1. Sent(m)
                    BY <4>1, QueuedSent DEF CopyInv
                <5> QED BY <1>4, <1>8, <4>1, <4>2, <5>1
            <4>3. CASE j # n + 1
                <5>1. j <= unacked[d]
                    BY <1>1, <1>2, <3>2, <4>3
                <5> QED BY <1>8, <4>1, <5>1, AppliedStays DEF CopyInv
            <4> QED BY <4>2, <4>3
        <3> QED BY <2>2, <3>1, <3>2
    <2> QED BY <2>1, <2>2
<1>11. AppliedKept'
    BY <1>10 DEF AppliedKept
<1>12. ListsBacked'
    BY <1>2, <1>8, ListsStay DEF CopyInv, ListsBacked
<1> QED BY <1>8, <1>9, <1>11, <1>12 DEF CopyInv

\* A new connection, or a kill.
LEMMA ConnectionCopies ==
    ASSUME TypeOK, CopyInv, NEW d \in Device, Reconnect(d) \/ Crash(d)
    PROVE  CopyInv'
<1>1. /\ UNCHANGED <<tree, route, cleared>> /\ unacked'[d] = 0
      /\ \A e \in Device \ {d} :
            UNCHANGED <<outbox[e], unacked[e], chats[e], rounds[e]>>
      /\ chats'[d] = chats[d] \/ chats'[d] = NoChats
      /\ rounds'[d] = rounds[d] \/ rounds'[d] = <<>>
      /\ outbox'[d] = outbox[d] \/ outbox'[d] = <<>>
    BY DEF Reconnect, Crash, TypeOK
<1>2. Steady
    BY <1>1, QuietSteady
<1>3. TreeBacked'
    BY <1>1, <1>2, TreeStays DEF CopyInv
<1>4. ValueBacked(d, NoChats)
    BY DEF ValueBacked, NoChats
<1>5. ListsBacked'
    <2>1. ASSUME NEW e \in Device
          PROVE  /\ ValueBacked(e, chats'[e])
                 /\ \A i \in DOMAIN rounds'[e] : ValueBacked(e, rounds'[e][i])
        <3>1. CASE e # d
            BY <1>1, <3>1 DEF CopyInv, ListsBacked
        <3>2. CASE e = d
            BY <1>1, <1>4, <3>2 DEF CopyInv, ListsBacked
        <3> QED BY <3>1, <3>2
    <2> QED BY <1>2, <2>1, ListsStay
<1>6. QueuesBacked'
    <2>1. ASSUME NEW e \in Device, NEW k \in DOMAIN outbox'[e]
          PROVE  WriteBacked(e, outbox[e], k)'
        <3>1. outbox'[e] = outbox[e]
            BY <1>1, <2>1
        <3> QED BY <1>1, <1>2, <3>1, QueueStays DEF CopyInv
    <2> QED BY <2>1 DEF QueuesBacked
<1>7. ASSUME NEW e \in Device
      PROVE  /\ unacked'[e] <= Len(outbox'[e])
             /\ \A j \in DOMAIN outbox'[e] : \A m \in Msg :
                   j <= unacked'[e] /\ Writes(outbox[e][j], route[m], m)'
                       => Kept(m)'
    <2>1. CASE e # d
        BY <1>1, <1>2, <2>1, AppliedStays DEF CopyInv, AppliedKept, Writes, Touches
    <2>2. CASE e = d
        <3>1. /\ outbox[d] \in Seq(Write) /\ Len(outbox[d]) \in Nat
              /\ Len(<<>>) = 0 /\ DOMAIN <<>> = {}
              /\ DOMAIN outbox[d] = 1..Len(outbox[d])
            BY DEF TypeOK
        <3> QED BY <1>1, <2>2, <3>1
    <2> QED BY <2>1, <2>2
<1>8. AppliedKept'
    BY <1>7 DEF AppliedKept
<1> QED BY <1>3, <1>5, <1>6, <1>8 DEF CopyInv

\* The list of chats gets a value, and the open chat may mark it.
LEMMA ListCopies ==
    ASSUME TypeOK, CopyInv, NEW d \in Device,
           UNCHANGED <<tree, route, cleared, unacked>>,
           QueuesBacked', AppliedKept',
           ValueBacked(d, chats'[d]),
           \A i \in DOMAIN rounds'[d] : ValueBacked(d, rounds'[d][i]),
           \A e \in Device \ {d} : chats'[e] = chats[e] /\ rounds'[e] = rounds[e]
    PROVE  CopyInv'
<1>1. Steady
    BY QuietSteady
<1>2. ListsBacked'
    BY <1>1, ListsStay DEF CopyInv, ListsBacked
<1> QED BY <1>1, <1>2, TreeStays DEF CopyInv

LEMMA InitCopies == Init => CopyInv
BY DEF Init, CopyInv, TreeBacked, ListsBacked, ValueBacked, NoChats,
       QueuesBacked, AppliedKept

LEMMA NextCopies == TypeOK /\ CopyInv /\ [Next]_vars => CopyInv'
<1> SUFFICES ASSUME TypeOK, CopyInv, [Next]_vars PROVE CopyInv'
    OBVIOUS
<1> USE DEF bounds, history
<1>c. /\ TreeBacked /\ QueuesBacked /\ AppliedKept
      /\ \A d \in Device :
            /\ ValueBacked(d, chats[d])
            /\ \A i \in DOMAIN rounds[d] : ValueBacked(d, rounds[d][i])
    BY DEF CopyInv, ListsBacked
<1>1. ASSUME NEW d \in Device, ObserveEmpty(d) PROVE CopyInv'
    <2>1. NoChats \in Held /\ ValueBacked(d, NoChats)
        BY DEF NoChats, Held, State, ValueBacked
    <2>2. /\ UNCHANGED <<tree, route, cleared, unacked, rounds>>
          /\ UpdateChat(d, NoChats)
        BY <1>1 DEF ObserveEmpty, Report
    <2>3. /\ QueuesBacked' /\ AppliedKept' /\ ValueBacked(d, chats'[d])
          /\ \A e \in Device \ {d} : chats'[e] = chats[e]
        BY <1>c, <2>1, <2>2, UpdateCopies
    <2> QED BY <1>c, <2>2, <2>3, ListCopies
<1>2. ASSUME NEW d \in Device, Observe(d) PROVE CopyInv'
    <2>1. /\ UNCHANGED <<tree, route, cleared, unacked, outbox, chats>>
          /\ rounds' = [rounds EXCEPT ![d] = Append(rounds[d], View(d))]
        BY <1>2 DEF Observe, Report
    <2>2. ValueBacked(d, View(d)) /\ View(d) \in Held
        BY <1>c, ViewBacked, ViewType
    <2> DEFINE v == View(d)
    <2>3. v \in Held /\ ValueBacked(d, v)
        BY <2>2
    <2>4. /\ rounds'[d] = Append(rounds[d], v) /\ rounds[d] \in Seq(Held)
          /\ \A e \in Device \ {d} : rounds'[e] = rounds[e]
        BY <2>1 DEF TypeOK
    <2> HIDE DEF v
    <2>5. \A i \in DOMAIN rounds'[d] :
              \/ rounds'[d][i] = v
              \/ i \in DOMAIN rounds[d] /\ rounds'[d][i] = rounds[d][i]
        BY <2>3, <2>4
    <2>6. \A i \in DOMAIN rounds'[d] : ValueBacked(d, rounds'[d][i])
        BY <1>c, <2>3, <2>5
    <2>7. QueuesBacked' /\ AppliedKept'
        BY <1>c, <2>1, QuietSteady, NoCallCopies
    <2> QED BY <1>c, <2>1, <2>4, <2>6, <2>7, ListCopies
<1>3. ASSUME NEW d \in Device, FinishRound(d) PROVE CopyInv'
    <2>1. PICK i \in DOMAIN rounds[d] :
             /\ UpdateChat(d, rounds[d][i])
             /\ rounds' = [rounds EXCEPT ![d] =
                   [j \in 1..(Len(rounds[d]) - 1) |->
                       IF j < i THEN rounds[d][j] ELSE rounds[d][j + 1]]]
        BY <1>3 DEF FinishRound
    <2>2. UNCHANGED <<tree, route, cleared, unacked>>
        BY <1>3 DEF FinishRound
    <2>3. rounds[d][i] \in Held /\ ValueBacked(d, rounds[d][i])
        BY <1>c DEF TypeOK
    <2>4. /\ QueuesBacked' /\ AppliedKept' /\ ValueBacked(d, chats'[d])
          /\ \A e \in Device \ {d} : chats'[e] = chats[e]
        BY <1>c, <2>1, <2>2, <2>3, UpdateCopies
    <2> DEFINE q == rounds[d]
               r == [j \in 1..(Len(q) - 1) |-> IF j < i THEN q[j] ELSE q[j + 1]]
    <2>5. /\ q \in Seq(Held) /\ i \in DOMAIN q /\ rounds'[d] = r
          /\ \A e \in Device \ {d} : rounds'[e] = rounds[e]
        BY <2>1 DEF TypeOK
    <2>6. r = [j \in 1..(Len(q) - 1) |-> IF j < i THEN q[j] ELSE q[j + 1]]
        OBVIOUS
    <2>7. \A k \in DOMAIN q : ValueBacked(d, q[k])
        BY <1>c
    <2> HIDE DEF q, r
    <2>8. \A j \in DOMAIN r : \E k \in DOMAIN q : r[j] = q[k]
        BY <2>5, <2>6, RoundType
    <2>9. \A j \in DOMAIN rounds'[d] : ValueBacked(d, rounds'[d][j])
        BY <2>5, <2>7, <2>8
    <2> QED BY <2>2, <2>4, <2>5, <2>9, ListCopies
<1>4. ASSUME NEW d \in Device, NEW u \in User, u # Me(d),
             MarkAsRead(d, u, chats[d]),
             UNCHANGED <<tree, route, cleared, unacked, rounds>>
      PROVE  CopyInv'
    <2>1. chats[d] \in Held
        BY DEF TypeOK
    <2>2. /\ QueuesBacked' /\ AppliedKept' /\ ValueBacked(d, chats'[d])
          /\ \A e \in Device \ {d} : chats'[e] = chats[e]
        BY <1>c, <1>4, <2>1, MarkCopies
    <2> QED BY <1>c, <1>4, <2>2, ListCopies
<1>5. ASSUME NEW d \in Device, NEW u \in User, OpenChat(d, u) PROVE CopyInv'
    BY <1>4, <1>5 DEF OpenChat, Show
<1>7. ASSUME UNCHANGED <<tree, outbox, unacked, chats, rounds, route, cleared>>
      PROVE  CopyInv'
    <2>1. QueuesBacked' /\ AppliedKept'
        BY <1>c, <1>7, QuietSteady, NoCallCopies
    <2>2. Steady
        BY <1>7, QuietSteady
    <2>3. ListsBacked'
        BY <1>c, <1>7, <2>2, ListsStay
    <2> QED BY <1>c, <1>7, <2>1, <2>2, <2>3, TreeStays DEF CopyInv
<1>8. ASSUME NEW d \in Device, NEW u \in User, CreateChat(d, u) PROVE CopyInv'
    BY <1>7, <1>8 DEF CreateChat, Show
<1>9. ASSUME NEW d \in Device, NEW u \in User,
             DeleteDirectChat(d, u) \/ RemoveTeammate(d, u)
      PROVE  CopyInv'
    <2>1. u # Me(d)
        BY <1>9 DEF DeleteDirectChat, RemoveTeammate, Listed, OthersOnly, TypeOK
    <2>2. <<Me(d), u>> \in Chat /\ <<u, Me(d)>> \in Chat
        BY <2>1, MeType, ChatType
    <2>3. /\ << <<Me(d), u>> >> \in Seq(Chat)
          /\ << <<Me(d), u>>, <<u, Me(d)>> >> \in Seq(Chat)
        BY <2>2
    <2> QED BY <1>9, <2>3, RemoveCopies DEF DeleteDirectChat, RemoveTeammate
<1>10. ASSUME NEW d \in Device, Close(d) PROVE CopyInv'
    BY <1>7, <1>10 DEF Close
<1>11. CASE UNCHANGED vars
    BY <1>7, <1>11 DEF vars
<1> QED
    BY <1>1, <1>2, <1>3, <1>5, <1>8, <1>9, <1>10, <1>11,
       SendCopies, DeliverCopies, UnackedCopies, ConnectionCopies DEF Next

\* Only backed messages are in the database, so the sender has what the
\* addressee has, unless the sender's copy was removed.
THEOREM SenderCopy == Spec => []SenderKeepsCopy
<1>1. TypeOK /\ CopyInv => SenderKeepsCopy
    <2> SUFFICES ASSUME TypeOK, CopyInv, NEW c \in Chat, NEW m \in Msg,
                        tree[c][m] # "none", From(m) = c[2]
                 PROVE  \/ tree[<<c[2], c[1]>>][m] # "none"
                        \/ <<c[2], c[1]>> \in cleared
        BY DEF SenderKeepsCopy
    <2>1. Backed(c, m)
        BY DEF CopyInv, TreeBacked
    <2>2. CASE c = Back(route[m]) /\ Kept(m)
        <3>1. route[m] \in Chat
            BY <2>1 DEF Backed, Sent, TypeOK
        <3>2. <<c[2], c[1]>> = route[m]
            BY <2>2, <3>1 DEF Back, Chat
        <3> QED BY <2>2, <3>2 DEF Kept
    <2>3. c # route[m]
        BY DEF Chat, From
    <2> QED BY <2>1, <2>2, <2>3 DEF Backed
<1>2. TypeOK /\ CopyInv /\ [Next]_vars => TypeOK' /\ CopyInv'
    BY NextTypeOK, NextCopies
<1>3. Init => TypeOK /\ CopyInv
    BY InitTypeOK, InitCopies
<1> QED BY <1>1, <1>2, <1>3, PTL DEF Spec

------------------------------------------------------------------------------
(***************************************************************************)
(* A message that was read, or that came back, is new again only if it was *)
(* sent again: every copy of a message is written as new by one queued     *)
(* write, and that write is ahead of all the server applied, until a lost  *)
(* connection sets it back.                                                *)
(***************************************************************************)

\* What a device holds of its chats was sent by its user or had arrived.
Own(d, m) == Sent(m) /\ From(m) = Me(d)
Known(d, value) ==
    \A u \in User : \A m \in Msg :
        value[u][m] # "none" => Own(d, m) \/ <<<<Me(d), u>>, m>> \in arrived

\* A device writes its own messages as new, and marks as read what arrived.
WriteKnown(d, w) ==
    /\ w.as = "unread" => \A m \in w.msgs : Own(d, m)
    /\ w.as = "read" => \A m \in w.msgs : <<w.chat, m>> \in arrived

Brings(w, c, m) == w.as = "unread" /\ Touches(w, c, m)

TreeArrived ==
    \A c \in Chat : \A m \in Msg :
        /\ tree[c][m] # "none" => <<c, m>> \in arrived
        /\ <<c, m>> \in arrived => Sent(m)

ListsKnown ==
    \A d \in Device :
        /\ Known(d, chats[d])
        /\ \A i \in DOMAIN rounds[d] : Known(d, rounds[d][i])

QueuesKnown ==
    \A d \in Device : \A i \in DOMAIN outbox[d] : WriteKnown(d, outbox[d][i])

\* A copy of a message is written as new by one queued write at most.
BroughtOnce ==
    \A d \in Device : \A e \in Device :
      \A i \in DOMAIN outbox[d] : \A j \in DOMAIN outbox[e] :
        \A c \in Chat : \A m \in Msg :
          Brings(outbox[d][i], c, m) /\ Brings(outbox[e][j], c, m)
              => d = e /\ i = j

\* Behind what the server applied of a queue there is nothing it had, except
\* for what is sent again.
NotYet ==
    \A d \in Device : \A i \in DOMAIN outbox[d] :
      \A c \in Chat : \A m \in Msg :
        i > unacked[d] /\ Brings(outbox[d][i], c, m) /\ <<c, m>> \in arrived
            => m \in resent

OnceInv == TreeArrived /\ ListsKnown /\ QueuesKnown /\ BroughtOnce /\ NotYet

\* The step keeps what arrived, and the routes of sent messages.
Onward ==
    /\ arrived \subseteq arrived'
    /\ \A m \in Msg : Sent(m) => route'[m] = route[m]

LEMMA OwnStays ==
    ASSUME Onward, NEW d \in Device, NEW m \in Msg, Own(d, m)
    PROVE  Own(d, m)'
BY DEF Onward, Own, Sent, From, Me

\* The lists a device has after a step are known if their values were before.
LEMMA KnownStay ==
    ASSUME Onward,
           \A d \in Device :
              /\ Known(d, chats'[d])
              /\ \A i \in DOMAIN rounds'[d] : Known(d, rounds'[d][i])
    PROVE  ListsKnown'
<1>1. ASSUME NEW d \in Device, NEW u \in User, NEW m \in Msg,
             Own(d, m) \/ <<<<Me(d), u>>, m>> \in arrived
      PROVE  Own(d, m)' \/ <<<<UserOf[d], u>>, m>> \in arrived'
    BY <1>1, OwnStays DEF Onward, Me
<1> QED BY <1>1 DEF ListsKnown, Known, Me

LEMMA WriteKnownStays ==
    ASSUME Onward, NEW d \in Device, NEW w \in Write, WriteKnown(d, w)
    PROVE  WriteKnown(d, w)'
<1>1. w.msgs \subseteq Msg
    BY DEF Write
<1>2. \A m \in Msg : Own(d, m) => Own(d, m)'
    BY OwnStays
<1> QED BY <1>1, <1>2 DEF WriteKnown, Onward

\* What a device sees of its chats is known.
LEMMA ViewKnown ==
    ASSUME TypeOK, TreeArrived, QueuesKnown, NEW d \in Device
    PROVE  Known(d, View(d))
<1> SUFFICES ASSUME NEW u \in User, NEW m \in Msg, View(d)[u][m] # "none"
             PROVE  Own(d, m) \/ <<<<Me(d), u>>, m>> \in arrived
    BY DEF Known
<1> DEFINE c == <<Me(d), u>>
           q == outbox[d]
           T == Touching(q, c, m)
<1>1. u # Me(d) /\ Seen(tree, q, c, m) # "none"
    BY DEF View
<1>2. c \in Chat
    BY <1>1, MeType, ChatType
<1>3. q \in Seq(Write) /\ Len(q) \in Nat
    BY DEF TypeOK
<1>4. \A i \in DOMAIN q : WriteKnown(d, q[i]) /\ q[i] \in Write
    BY <1>3 DEF QueuesKnown
<1>5. T \subseteq DOMAIN q /\ \A i \in T : Touches(q[i], c, m)
    BY DEF Touching
<1> HIDE DEF q, c, T
<1>6. CASE T = {}
    BY <1>1, <1>2, <1>6 DEF Seen, TreeArrived, c, T
<1>7. CASE T # {}
    <2> DEFINE i == Latest(T)
    <2>1. T \in SUBSET (1..Len(q))
        BY <1>3, <1>5
    <2>2. i \in T
        BY <1>3, <1>7, <2>1, LatestIn
    <2>3. q[i].as # "none"
        BY <1>1, <1>7 DEF Seen, T
    <2> HIDE DEF i
    <2>4. q[i].chat = c /\ m \in q[i].msgs /\ WriteKnown(d, q[i]) /\ q[i] \in Write
        BY <1>4, <1>5, <2>2 DEF Touches
    <2>5. q[i].as = "read" \/ q[i].as = "unread"
        BY <2>3, <2>4 DEF Write, State
    <2> QED BY <2>4, <2>5 DEF WriteKnown, c
<1> QED BY <1>6, <1>7

(* The queues *)

\* Queues that only lost writes from their front: what they hold is still new
\* if it was behind what the server applied, or is sent again.
LEMMA QueuesShrink ==
    ASSUME TypeOK, Onward, QueuesKnown, BroughtOnce, NotYet,
           NEW gone \in [Device -> Nat],
           resent \subseteq resent',
           outbox' \in [Device -> Seq(Write)],
           \A d \in Device : \A k \in DOMAIN outbox'[d] :
               /\ k + gone[d] \in DOMAIN outbox[d]
               /\ outbox'[d][k] = outbox[d][k + gone[d]]
               /\ \/ k > unacked'[d] => k + gone[d] > unacked[d]
                  \/ outbox'[d][k].msgs \subseteq resent',
           \A d \in Device : \A k \in DOMAIN outbox'[d] :
               \A c \in Chat : \A m \in Msg :
                   k > unacked'[d] /\ Brings(outbox'[d][k], c, m)
                   /\ <<c, m>> \in arrived' => <<c, m>> \in arrived
    PROVE  QueuesKnown' /\ BroughtOnce' /\ NotYet'
<1>1. ASSUME NEW d \in Device, NEW k \in DOMAIN outbox'[d]
      PROVE  WriteKnown(d, outbox[d][k])'
    <2>1. PICK w \in Write : outbox'[d][k] = w
        OBVIOUS
    <2>2. WriteKnown(d, w)
        BY <2>1 DEF QueuesKnown
    <2>3. WriteKnown(d, w)'
        BY <2>2, WriteKnownStays
    <2> QED BY <2>1, <2>3 DEF WriteKnown
<1>2. ASSUME NEW d \in Device, NEW e \in Device,
             NEW i \in DOMAIN outbox'[d], NEW j \in DOMAIN outbox'[e],
             NEW c \in Chat, NEW m \in Msg,
             Brings(outbox'[d][i], c, m), Brings(outbox'[e][j], c, m)
      PROVE  d = e /\ i = j
    <2>3. PICK a \in DOMAIN outbox[d] :
             a = i + gone[d] /\ Brings(outbox[d][a], c, m)
        BY <1>2
    <2>4. PICK b \in DOMAIN outbox[e] :
             b = j + gone[e] /\ Brings(outbox[e][b], c, m)
        BY <1>2
    <2>5. d = e /\ a = b
        BY <2>3, <2>4 DEF BroughtOnce, Brings, Touches
    <2>1. d = e /\ i + gone[d] = j + gone[e]
        BY <2>3, <2>4, <2>5
    <2>2. i \in Nat /\ j \in Nat /\ gone[d] \in Nat
        <3>1. outbox'[d] \in Seq(Write) /\ outbox'[e] \in Seq(Write)
            OBVIOUS
        <3> QED BY <3>1
    <2> QED BY <2>1, <2>2
<1>3. ASSUME NEW d \in Device, NEW k \in DOMAIN outbox'[d],
             NEW c \in Chat, NEW m \in Msg,
             k > unacked'[d], Brings(outbox'[d][k], c, m),
             <<c, m>> \in arrived'
      PROVE  m \in resent'
    <2>1. <<c, m>> \in arrived
        BY <1>3
    <2>2. CASE k + gone[d] > unacked[d]
        BY <1>3, <2>1, <2>2 DEF NotYet
    <2>3. CASE outbox'[d][k].msgs \subseteq resent'
        BY <1>3, <2>3 DEF Brings, Touches
    <2> QED BY <1>3, <2>2, <2>3
<1>4. QueuesKnown'
    BY <1>1 DEF QueuesKnown
<1>5. BroughtOnce'
    BY <1>2 DEF BroughtOnce, Brings, Touches
<1>6. NotYet'
    BY <1>3 DEF NotYet, Brings, Touches
<1> QED BY <1>4, <1>5, <1>6

\* Queues that are left alone.
LEMMA QueuesRest ==
    ASSUME TypeOK, Onward, QueuesKnown, BroughtOnce, NotYet,
           UNCHANGED <<outbox, unacked, arrived>>, resent \subseteq resent'
    PROVE  QueuesKnown' /\ BroughtOnce' /\ NotYet'
<1> DEFINE gone == [d \in Device |-> 0]
<1>1. gone \in [Device -> Nat] /\ outbox' \in [Device -> Seq(Write)]
    BY DEF TypeOK
<1>2. ASSUME NEW d \in Device, NEW k \in DOMAIN outbox'[d]
      PROVE  /\ k + gone[d] \in DOMAIN outbox[d]
             /\ outbox'[d][k] = outbox[d][k + gone[d]]
             /\ k > unacked'[d] => k + gone[d] > unacked[d]
    <2>1. k \in Nat /\ k \in DOMAIN outbox[d]
        <3>1. outbox[d] \in Seq(Write)
            BY DEF TypeOK
        <3> QED BY <3>1
    <2>2. k + gone[d] = k
        BY <2>1
    <2> QED BY <2>1, <2>2
<1> HIDE DEF gone
<1> QED BY <1>1, <1>2, QueuesShrink

\* A call whose new messages were not sent before.
LEMMA CallOnce ==
    ASSUME TypeOK, OnceInv, Onward,
           UNCHANGED <<unacked, arrived>>, resent \subseteq resent',
           NEW d \in Device, NEW s \in Seq(Write), Call(d, s),
           \A i \in DOMAIN s : WriteKnown(d, s[i])',
           \A i \in DOMAIN s : \A c \in Chat : \A m \in Msg :
               Brings(s[i], c, m) => ~Sent(m),
           \A i \in DOMAIN s : \A j \in DOMAIN s : \A c \in Chat : \A m \in Msg :
               Brings(s[i], c, m) /\ Brings(s[j], c, m) => i = j
    PROVE  QueuesKnown' /\ BroughtOnce' /\ NotYet'
<1>1. /\ outbox[d] \in Seq(Write) /\ Len(outbox[d]) \in Nat
      /\ outbox'[d] = outbox[d] \o s
      /\ \A e \in Device \ {d} : outbox'[e] = outbox[e]
    BY DEF TypeOK, Call
<1>2. PICK n \in Nat : n = Len(outbox[d])
    BY <1>1
<1>3. /\ DOMAIN outbox[d] = 1..n
      /\ DOMAIN outbox'[d] = 1..(n + Len(s))
      /\ Len(s) \in Nat /\ DOMAIN s = 1..Len(s)
      /\ \A k \in 1..n : outbox'[d][k] = outbox[d][k]
      /\ \A k \in (n + 1)..(n + Len(s)) : outbox'[d][k] = s[k - n]
    BY <1>1, <1>2
\* Each write of a queue was there, or is one of the call.
<1>4. ASSUME NEW e \in Device, NEW k \in DOMAIN outbox'[e]
      PROVE  \/ k \in DOMAIN outbox[e] /\ outbox'[e][k] = outbox[e][k]
             \/ e = d /\ k - n \in DOMAIN s /\ outbox'[e][k] = s[k - n]
    <2>1. CASE e # d
        BY <1>1, <2>1
    <2>2. CASE e = d /\ k \in 1..n
        BY <1>3, <2>2
    <2>3. CASE e = d /\ k \in (n + 1)..(n + Len(s))
        <3>1. k - n \in 1..Len(s)
            BY <1>2, <1>3, <2>3
        <3> QED BY <1>3, <2>3, <3>1
    <2> QED BY <1>2, <1>3, <2>1, <2>2, <2>3
<1>5. /\ QueuesKnown /\ BroughtOnce /\ NotYet /\ TreeArrived
      /\ \A e \in Device : outbox[e] \in Seq(Write)
    BY DEF OnceInv, TypeOK
<1>6. QueuesKnown'
    <2>1. ASSUME NEW e \in Device, NEW k \in DOMAIN outbox'[e]
          PROVE  WriteKnown(e, outbox[e][k])'
        <3>1. CASE k \in DOMAIN outbox[e] /\ outbox'[e][k] = outbox[e][k]
            <4>1. PICK w \in Write : outbox[e][k] = w
                BY <1>5, <3>1
            <4>2. WriteKnown(e, w)'
                BY <1>5, <3>1, <4>1, WriteKnownStays DEF QueuesKnown
            <4> QED BY <3>1, <4>1, <4>2 DEF WriteKnown
        <3>2. CASE e = d /\ k - n \in DOMAIN s /\ outbox'[e][k] = s[k - n]
            <4>1. WriteKnown(d, s[k - n])'
                BY <3>2
            <4> QED BY <3>2, <4>1 DEF WriteKnown
        <3> QED BY <1>4, <3>1, <3>2
    <2> QED BY <2>1 DEF QueuesKnown
\* A queued new message was sent.
<1>7. ASSUME NEW e \in Device, NEW k \in DOMAIN outbox[e],
             NEW c \in Chat, NEW m \in Msg, Brings(outbox[e][k], c, m)
      PROVE  Sent(m)
    BY <1>5, <1>7 DEF QueuesKnown, WriteKnown, Brings, Touches, Own
<1>8. ASSUME NEW e \in Device, NEW f \in Device,
             NEW i \in DOMAIN outbox'[e], NEW j \in DOMAIN outbox'[f],
             NEW c \in Chat, NEW m \in Msg,
             Brings(outbox'[e][i], c, m), Brings(outbox'[f][j], c, m)
      PROVE  e = f /\ i = j
    <2>1. CASE Sent(m)
        <3>1. /\ i \in DOMAIN outbox[e] /\ outbox'[e][i] = outbox[e][i]
              /\ j \in DOMAIN outbox[f] /\ outbox'[f][j] = outbox[f][j]
            BY <1>4, <1>8, <2>1
        <3> QED BY <1>5, <1>8, <3>1 DEF BroughtOnce
    <2>2. CASE ~Sent(m)
        <3>1. /\ e = d /\ i - n \in DOMAIN s /\ outbox'[e][i] = s[i - n]
              /\ f = d /\ j - n \in DOMAIN s /\ outbox'[f][j] = s[j - n]
            BY <1>4, <1>7, <1>8, <2>2
        <3>2. i - n = j - n
            BY <1>8, <3>1
        <3>3. i \in Nat /\ j \in Nat
            BY <1>3, <3>1
        <3> QED BY <1>2, <3>1, <3>2, <3>3
    <2> QED BY <2>1, <2>2
<1>9. ASSUME NEW e \in Device, NEW k \in DOMAIN outbox'[e],
             NEW c \in Chat, NEW m \in Msg,
             k > unacked'[e], Brings(outbox'[e][k], c, m),
             <<c, m>> \in arrived'
      PROVE  m \in resent'
    <2>1. Sent(m)
        BY <1>5, <1>9 DEF TreeArrived
    <2>2. k \in DOMAIN outbox[e] /\ outbox'[e][k] = outbox[e][k]
        BY <1>4, <1>9, <2>1
    <2> QED BY <1>5, <1>9, <2>2 DEF NotYet
<1>10. BroughtOnce'
    BY <1>8 DEF BroughtOnce, Brings, Touches
<1>11. NotYet'
    BY <1>9 DEF NotYet, Brings, Touches
<1> QED BY <1>6, <1>10, <1>11

(* Calls of a device *)

\* Marking the messages of a known list as read.
LEMMA MarkOnce ==
    ASSUME TypeOK, OnceInv, UNCHANGED <<route, unacked, arrived, resent>>,
           NEW d \in Device, NEW u \in User, u # Me(d),
           NEW value \in Held, Known(d, value), MarkAsRead(d, u, value)
    PROVE  /\ QueuesKnown' /\ BroughtOnce' /\ NotYet'
           /\ Known(d, chats'[d])
           /\ \A e \in Device \ {d} : chats'[e] = chats[e]
<1> DEFINE c == <<UserOf[d], u>>
<1>1. Onward
    BY DEF Onward
<1>0. PICK ms \in SUBSET Msg : ms = Unread(d, u, value)
    BY DEF Unread
<1> DEFINE s == MarkWrites(UserOf[d], u, ms)
<1>2. ms \in SUBSET Msg /\ \A m \in ms : <<c, m>> \in arrived
    BY <1>0 DEF Unread, Known, Own, Me
<1>3. s \in Seq(Write) /\ Call(d, s)
    BY <1>0, <1>2, MeType, BatchType DEF MarkAsRead, Me
<1>4. s = <<>> \/ s = << Put(c, ms, "read") >>
    BY DEF MarkWrites
<1> HIDE DEF s, c
<1>5. ASSUME NEW i \in DOMAIN s
      PROVE  s[i].as = "read" /\ s[i].chat = c /\ s[i].msgs = ms
    BY <1>4 DEF Put
<1>6. \A i \in DOMAIN s : WriteKnown(d, s[i])'
    BY <1>2, <1>5 DEF WriteKnown
<1>7. \A i \in DOMAIN s : \A b \in Chat : \A m \in Msg : ~Brings(s[i], b, m)
    BY <1>5 DEF Brings
<1>8. QueuesKnown' /\ BroughtOnce' /\ NotYet'
    BY <1>1, <1>3, <1>6, <1>7, CallOnce
<1>9. /\ \A v \in User : \A m \in Msg :
            chats'[d][v][m] # "none" => value[v][m] # "none"
      /\ \A e \in Device \ {d} : chats'[e] = chats[e]
    BY DEF MarkAsRead, TypeOK, Held, Unread
<1> QED BY <1>8, <1>9 DEF Known

\* The same for an update of the list.
LEMMA UpdateOnce ==
    ASSUME TypeOK, OnceInv, UNCHANGED <<route, unacked, arrived, resent>>,
           NEW d \in Device, NEW value \in Held, Known(d, value),
           UpdateChat(d, value)
    PROVE  /\ QueuesKnown' /\ BroughtOnce' /\ NotYet'
           /\ Known(d, chats'[d])
           /\ \A e \in Device \ {d} : chats'[e] = chats[e]
<1>1. CASE chats' = [chats EXCEPT ![d] = value] /\ UNCHANGED outbox
    <2>1. Onward
        BY DEF Onward
    <2>2. QueuesKnown' /\ BroughtOnce' /\ NotYet'
        BY <1>1, <2>1, QueuesRest DEF OnceInv
    <2> QED BY <1>1, <2>2 DEF TypeOK
<1>2. CASE \E t \in screen[d] : MarkAsRead(d, t.user, value)
    <2>1. PICK t \in screen[d] : MarkAsRead(d, t.user, value)
        BY <1>2
    <2>2. t.user \in User /\ t.user # Me(d)
        BY DEF TypeOK, OthersOnly, Screen
    <2> QED BY <2>1, <2>2, MarkOnce
<1> QED BY <1>1, <1>2 DEF UpdateChat

\* The list of chats gets a value, and the open chat may mark it.
LEMMA ListOnce ==
    ASSUME OnceInv, NEW d \in Device,
           UNCHANGED <<tree, route, arrived>>,
           QueuesKnown', BroughtOnce', NotYet',
           Known(d, chats'[d]),
           \A i \in DOMAIN rounds'[d] : Known(d, rounds'[d][i]),
           \A e \in Device \ {d} : chats'[e] = chats[e] /\ rounds'[e] = rounds[e]
    PROVE  OnceInv'
<1>1. Onward
    BY DEF Onward
<1>2. ListsKnown'
    BY <1>1, KnownStay DEF OnceInv, ListsKnown
<1>3. TreeArrived'
    BY DEF OnceInv, TreeArrived, Sent
<1> QED BY <1>2, <1>3 DEF OnceInv

\* A new message is in no queue and on no server.
LEMMA SendOnce ==
    ASSUME TypeOK, OnceInv, NEW d \in Device, NEW m \in Msg,
           SendDirectMessage(d, m)
    PROVE  OnceInv'
<1>1. PICK t \in screen[d] :
         /\ route' = [route EXCEPT ![m] = <<Me(d), t.user>>]
         /\ Call(d, SendWrites(Me(d), t.user, m))
    BY DEF SendDirectMessage
<1>2. t.user \in User /\ t.user # Me(d)
    BY DEF TypeOK, OthersOnly, Screen
<1> DEFINE own == <<UserOf[d], t.user>>
           other == <<t.user, UserOf[d]>>
           s == SendWrites(Me(d), t.user, m)
<1>3. s = << Put(own, {m}, "unread"), Put(other, {m}, "unread") >>
    BY DEF SendWrites, Me
<1>4. s \in Seq(Write) /\ Call(d, s)
    BY <1>1, <1>2, MeType, BatchType
<1>5. own # other /\ own # <<>> /\ route'[m] = own
    BY <1>1, <1>2 DEF TypeOK, Me
<1>6. ~Sent(m) /\ \A x \in Msg \ {m} : route'[x] = route[x]
    BY <1>1 DEF SendDirectMessage, TypeOK
<1>7. UNCHANGED <<tree, unacked, chats, rounds, arrived, resent>>
    BY DEF SendDirectMessage, history
<1>8. Onward
    BY <1>6, <1>7 DEF Onward
<1>9. Own(d, m)'
    BY <1>5 DEF Own, Sent, From, Me
<1> HIDE DEF s, own, other
<1>10. /\ DOMAIN s = {1, 2}
       /\ s[1].as = "unread" /\ s[1].chat = own /\ s[1].msgs = {m}
       /\ s[2].as = "unread" /\ s[2].chat = other /\ s[2].msgs = {m}
    BY <1>3 DEF Put
<1>11. \A i \in DOMAIN s : WriteKnown(d, s[i])'
    BY <1>9, <1>10 DEF WriteKnown
<1>12. \A i \in DOMAIN s : \A c \in Chat : \A x \in Msg :
          Brings(s[i], c, x) => ~Sent(x)
    BY <1>6, <1>10 DEF Brings, Touches
<1>13. \A i \in DOMAIN s : \A j \in DOMAIN s : \A c \in Chat : \A x \in Msg :
          Brings(s[i], c, x) /\ Brings(s[j], c, x) => i = j
    BY <1>5, <1>10 DEF Brings, Touches
<1>14. QueuesKnown' /\ BroughtOnce' /\ NotYet'
    BY <1>4, <1>7, <1>8, <1>11, <1>12, <1>13, CallOnce
<1>15. ListsKnown'
    BY <1>7, <1>8, KnownStay DEF OnceInv, ListsKnown
<1>16. TreeArrived'
    BY <1>7, <1>8 DEF OnceInv, TreeArrived, Onward, Sent
<1> QED BY <1>14, <1>15, <1>16 DEF OnceInv

\* A removal writes no message.
LEMMA RemoveOnce ==
    ASSUME TypeOK, OnceInv, NEW d \in Device, NEW copies \in Seq(Chat),
           Remove(d, copies)
    PROVE  OnceInv'
<1> DEFINE s == [i \in DOMAIN copies |-> Clear(copies[i])]
<1>1. /\ Call(d, s)
      /\ UNCHANGED <<tree, unacked, chats, rounds, route, arrived, resent>>
    BY DEF Remove
<1>2. \A i \in DOMAIN copies : Clear(copies[i]) \in Write
    BY PutType DEF Clear, State
<1>3. s \in Seq(Write)
    BY <1>2
<1>4. \A i \in DOMAIN s : s[i].as = "none"
    BY DEF Clear, Put
<1> HIDE DEF s
<1>5. \A i \in DOMAIN s : WriteKnown(d, s[i])'
    BY <1>4 DEF WriteKnown
<1>6. \A i \in DOMAIN s : \A c \in Chat : \A m \in Msg : ~Brings(s[i], c, m)
    BY <1>4 DEF Brings
<1>7. Onward
    BY <1>1 DEF Onward
<1>8. QueuesKnown' /\ BroughtOnce' /\ NotYet'
    BY <1>1, <1>3, <1>5, <1>6, <1>7, CallOnce
<1> QED BY <1>1, <1>8, ListOnce DEF OnceInv, ListsKnown

(* The server *)

\* To apply a known write adds no copy to what arrived but those it brings.
LEMMA ApplyOnce ==
    ASSUME TypeOK, TreeArrived, NEW d \in Device, NEW w \in Write,
           WriteKnown(d, w), Apply(w), UNCHANGED route
    PROVE  /\ Onward /\ TreeArrived'
           /\ \A c \in Chat : \A m \in Msg :
                 <<c, m>> \in arrived' => <<c, m>> \in arrived \/ Brings(w, c, m)
<1>1. /\ w.as \in State /\ w.chat \in Chat /\ w.msgs \subseteq Msg
    BY DEF Write
<1>2. \A c \in Chat : \A m \in Msg :
          tree'[c][m] = IF Touches(w, c, m) THEN w.as ELSE tree[c][m]
    BY DEF Apply, Applied
<1>3. ASSUME NEW c \in Chat, NEW m \in Msg
      PROVE  <<c, m>> \in arrived'
                 <=> <<c, m>> \in arrived \/ (w.as # "none" /\ Touches(w, c, m))
    BY DEF Apply, Touches
<1>4. Onward
    BY DEF Apply, Onward
<1>5. ASSUME NEW c \in Chat, NEW m \in Msg, <<c, m>> \in arrived'
      PROVE  (<<c, m>> \in arrived \/ Brings(w, c, m)) /\ Sent(m)
    <2>1. CASE <<c, m>> \in arrived
        BY <2>1 DEF TreeArrived
    <2>2. CASE w.as = "unread" /\ Touches(w, c, m)
        BY <2>2 DEF Brings, WriteKnown, Own, Touches
    <2>3. CASE w.as = "read" /\ Touches(w, c, m)
        <3>1. <<c, m>> \in arrived
            BY <2>3 DEF WriteKnown, Touches
        <3> QED BY <3>1 DEF TreeArrived
    <2> QED BY <1>1, <1>3, <1>5, <2>1, <2>2, <2>3 DEF State
<1>6. ASSUME NEW c \in Chat, NEW m \in Msg, tree'[c][m] # "none"
      PROVE  <<c, m>> \in arrived'
    BY <1>2, <1>3, <1>6 DEF TreeArrived
<1>7. TreeArrived'
    BY <1>5, <1>6 DEF TreeArrived, Sent
<1> QED BY <1>4, <1>5, <1>7

\* The server answers the first write of a queue.
LEMMA DeliverOnce ==
    ASSUME TypeOK, OnceInv, NEW d \in Device, Deliver(d)
    PROVE  OnceInv'
<1>1. /\ outbox[d] \in Seq(Write) /\ outbox[d] # <<>> /\ unacked[d] = 0
      /\ Apply(Head(outbox[d])) /\ outbox' = [outbox EXCEPT ![d] = Tail(@)]
      /\ UNCHANGED <<unacked, chats, rounds, route, resent>>
    BY DEF Deliver, TypeOK
<1>2. PICK w \in Write : outbox[d][1] = w /\ Head(outbox[d]) = w
    BY <1>1
<1>3. 1 \in DOMAIN outbox[d] /\ WriteKnown(d, w)
    BY <1>1, <1>2 DEF OnceInv, QueuesKnown
<1>4. /\ Onward /\ TreeArrived'
      /\ \A c \in Chat : \A m \in Msg :
            <<c, m>> \in arrived' => <<c, m>> \in arrived \/ Brings(w, c, m)
    BY <1>1, <1>2, <1>3, ApplyOnce DEF OnceInv
<1>5. /\ outbox'[d] = Tail(outbox[d])
      /\ \A e \in Device \ {d} : outbox'[e] = outbox[e]
    BY <1>1 DEF TypeOK
<1>6. /\ Len(outbox[d]) \in Nat /\ DOMAIN outbox[d] = 1..Len(outbox[d])
      /\ DOMAIN outbox'[d] = 1..(Len(outbox[d]) - 1)
      /\ \A k \in 1..(Len(outbox[d]) - 1) : outbox'[d][k] = outbox[d][k + 1]
    <2> DEFINE q == outbox[d]
    <2>1. q \in Seq(Write) /\ q # <<>> /\ outbox'[d] = Tail(q)
        BY <1>1, <1>5
    <2> HIDE DEF q
    <2>2. /\ Len(q) \in Nat /\ DOMAIN q = 1..Len(q)
          /\ DOMAIN Tail(q) = 1..(Len(q) - 1)
          /\ \A k \in 1..(Len(q) - 1) : Tail(q)[k] = q[k + 1]
        BY <2>1, TailElements
    <2> QED BY <2>1, <2>2 DEF q
<1> DEFINE gone == [e \in Device |-> IF e = d THEN 1 ELSE 0]
<1>7. /\ gone \in [Device -> Nat] /\ gone[d] = 1
      /\ \A e \in Device \ {d} : gone[e] = 0
    OBVIOUS
<1> HIDE DEF gone
<1>8. outbox' \in [Device -> Seq(Write)]
    <2>1. Tail(outbox[d]) \in Seq(Write)
        BY <1>1
    <2> QED BY <1>1, <2>1 DEF TypeOK
<1>9. ASSUME NEW e \in Device, NEW k \in DOMAIN outbox'[e]
      PROVE  /\ k + gone[e] \in DOMAIN outbox[e]
             /\ outbox'[e][k] = outbox[e][k + gone[e]]
             /\ k > unacked'[e] => k + gone[e] > unacked[e]
             /\ e = d => k + gone[e] # 1
    <2>1. CASE e = d
        <3>1. k \in Nat /\ k \in 1..(Len(outbox[d]) - 1) /\ k + 1 \in 1..Len(outbox[d])
            BY <1>6, <2>1
        <3> QED BY <1>1, <1>6, <1>7, <2>1, <3>1
    <2>2. CASE e # d
        <3>1. /\ gone[e] = 0 /\ outbox'[e] = outbox[e] /\ unacked'[e] = unacked[e]
              /\ outbox[e] \in Seq(Write)
            BY <1>1, <1>5, <1>7, <2>2 DEF TypeOK
        <3>2. k \in Nat /\ k + gone[e] = k
            BY <3>1
        <3> QED BY <2>2, <3>1, <3>2
    <2> QED BY <2>1, <2>2
<1>10. ASSUME NEW e \in Device, NEW k \in DOMAIN outbox'[e],
              NEW c \in Chat, NEW m \in Msg, Brings(outbox'[e][k], c, m),
              <<c, m>> \in arrived'
       PROVE  <<c, m>> \in arrived
    <2>1. ~Brings(w, c, m)
        <3> SUFFICES ASSUME Brings(w, c, m) PROVE FALSE
            OBVIOUS
        <3>1. /\ k + gone[e] \in DOMAIN outbox[e]
              /\ Brings(outbox[e][k + gone[e]], c, m)
            BY <1>9, <1>10
        <3>2. Brings(outbox[d][1], c, m)
            BY <1>2
        <3>3. d = e /\ 1 = k + gone[e]
            BY <1>3, <3>1, <3>2 DEF OnceInv, BroughtOnce
        <3> QED BY <1>9, <3>3
    <2> QED BY <1>4, <1>10, <2>1
<1>11. QueuesKnown' /\ BroughtOnce' /\ NotYet'
    BY <1>1, <1>4, <1>7, <1>8, <1>9, <1>10, QueuesShrink DEF OnceInv
<1>12. ListsKnown'
    BY <1>1, <1>4, KnownStay DEF OnceInv, ListsKnown
<1> QED BY <1>4, <1>11, <1>12 DEF OnceInv

\* The server applies a write whose answer is lost.
LEMMA UnackedOnce ==
    ASSUME TypeOK, OnceInv, NEW d \in Device, DeliverUnacked(d)
    PROVE  OnceInv'
<1>1. PICK n \in Nat : n = unacked[d]
    BY DEF TypeOK
<1>2. /\ outbox[d] \in Seq(Write) /\ n < Len(outbox[d])
      /\ Apply(outbox[d][n + 1]) /\ unacked' = [unacked EXCEPT ![d] = @ + 1]
      /\ UNCHANGED <<outbox, chats, rounds, route, resent>>
    BY <1>1 DEF DeliverUnacked, TypeOK
<1>3. n + 1 \in DOMAIN outbox[d]
    BY <1>2
<1>4. PICK w \in Write : outbox[d][n + 1] = w
    BY <1>2, <1>3
<1>5. WriteKnown(d, w)
    BY <1>3, <1>4 DEF OnceInv, QueuesKnown
<1>6. /\ Onward /\ TreeArrived'
      /\ \A c \in Chat : \A m \in Msg :
            <<c, m>> \in arrived' => <<c, m>> \in arrived \/ Brings(w, c, m)
    BY <1>2, <1>4, <1>5, ApplyOnce DEF OnceInv
<1>7. unacked'[d] = n + 1 /\ \A e \in Device \ {d} : unacked'[e] = unacked[e]
    BY <1>1, <1>2 DEF TypeOK
<1> DEFINE gone == [e \in Device |-> 0]
<1>8. gone \in [Device -> Nat] /\ \A e \in Device : gone[e] = 0
    OBVIOUS
<1> HIDE DEF gone
<1>9. ASSUME NEW e \in Device, NEW k \in DOMAIN outbox'[e]
      PROVE  /\ k + gone[e] \in DOMAIN outbox[e]
             /\ outbox'[e][k] = outbox[e][k + gone[e]]
             /\ k > unacked'[e] => k + gone[e] > unacked[e]
    <2>1. outbox[e] \in Seq(Write) /\ outbox'[e] = outbox[e]
        BY <1>2 DEF TypeOK
    <2>2. k \in Nat /\ k + gone[e] = k /\ k \in DOMAIN outbox[e]
        BY <1>8, <2>1
    <2>3. k > unacked'[e] => k > unacked[e]
        <3>1. CASE e = d
            BY <1>1, <1>7, <2>2, <3>1
        <3>2. CASE e # d
            BY <1>7, <3>2
        <3> QED BY <3>1, <3>2
    <2> QED BY <2>1, <2>2, <2>3
<1>10. ASSUME NEW e \in Device, NEW k \in DOMAIN outbox'[e],
              NEW c \in Chat, NEW m \in Msg, k > unacked'[e],
              Brings(outbox'[e][k], c, m), <<c, m>> \in arrived'
       PROVE  <<c, m>> \in arrived
    <2>1. ~Brings(w, c, m)
        <3> SUFFICES ASSUME Brings(w, c, m) PROVE FALSE
            OBVIOUS
        <3>1. k \in DOMAIN outbox[e] /\ Brings(outbox[e][k], c, m)
            BY <1>2, <1>10
        <3>2. Brings(outbox[d][n + 1], c, m)
            BY <1>4
        <3>3. d = e /\ n + 1 = k
            BY <1>3, <3>1, <3>2 DEF OnceInv, BroughtOnce
        <3> QED BY <1>7, <1>10, <3>3
    <2> QED BY <1>6, <1>10, <2>1
<1>11. outbox' \in [Device -> Seq(Write)]
    BY <1>2 DEF TypeOK
<1>12. QueuesKnown' /\ BroughtOnce' /\ NotYet'
    BY <1>2, <1>6, <1>8, <1>9, <1>10, <1>11, QueuesShrink DEF OnceInv
<1>13. ListsKnown'
    BY <1>2, <1>6, KnownStay DEF OnceInv, ListsKnown
<1> QED BY <1>6, <1>12, <1>13 DEF OnceInv

\* A new connection sends again what was not acknowledged; a kill forgets.
LEMMA ConnectionOnce ==
    ASSUME TypeOK, OnceInv, NEW d \in Device, Reconnect(d) \/ Crash(d)
    PROVE  OnceInv'
<1>1. /\ UNCHANGED <<tree, route, arrived>> /\ resent \subseteq resent'
      /\ unacked'[d] = 0
      /\ \A e \in Device \ {d} :
            UNCHANGED <<outbox[e], unacked[e], chats[e], rounds[e]>>
      /\ chats'[d] = chats[d] \/ chats'[d] = NoChats
      /\ rounds'[d] = rounds[d] \/ rounds'[d] = <<>>
    BY DEF Reconnect, Crash, TypeOK
<1>2. \/ outbox'[d] = <<>>
      \/ /\ outbox' = outbox
         /\ \A i \in DOMAIN outbox[d] :
               i <= unacked[d] => outbox[d][i].msgs \subseteq resent'
    BY DEF Reconnect, Crash, TypeOK
<1>3. Onward
    BY <1>1 DEF Onward
<1>4. TreeArrived'
    BY <1>1 DEF OnceInv, TreeArrived, Sent
<1>5. Known(d, NoChats)
    BY DEF Known, NoChats
<1>6. ListsKnown'
    <2>1. ASSUME NEW e \in Device
          PROVE  /\ Known(e, chats'[e])
                 /\ \A i \in DOMAIN rounds'[e] : Known(e, rounds'[e][i])
        <3>1. CASE e # d
            BY <1>1, <3>1 DEF OnceInv, ListsKnown
        <3>2. CASE e = d
            BY <1>1, <1>5, <3>2 DEF OnceInv, ListsKnown
        <3> QED BY <3>1, <3>2
    <2> QED BY <1>3, <2>1, KnownStay
<1> DEFINE gone == [e \in Device |-> 0]
<1>7. gone \in [Device -> Nat] /\ \A e \in Device : gone[e] = 0
    OBVIOUS
<1> HIDE DEF gone
<1>8. outbox' \in [Device -> Seq(Write)]
    <2>1. outbox' = outbox \/ outbox' = [outbox EXCEPT ![d] = <<>>]
        BY DEF Reconnect, Crash
    <2>2. <<>> \in Seq(Write)
        OBVIOUS
    <2> QED BY <2>1, <2>2 DEF TypeOK
<1>9. ASSUME NEW e \in Device, NEW k \in DOMAIN outbox'[e]
      PROVE  /\ k + gone[e] \in DOMAIN outbox[e]
             /\ outbox'[e][k] = outbox[e][k + gone[e]]
             /\ \/ k > unacked'[e] => k + gone[e] > unacked[e]
                \/ outbox'[e][k].msgs \subseteq resent'
    <2>1. outbox'[e] = outbox[e] /\ outbox[e] \in Seq(Write)
        BY <1>1, <1>2 DEF TypeOK
    <2>2. k \in Nat /\ k + gone[e] = k /\ k \in DOMAIN outbox[e]
        BY <1>7, <2>1
    <2>3. CASE e # d
        BY <1>1, <2>1, <2>2, <2>3
    <2>4. CASE e = d
        <3>1. outbox' = outbox /\ unacked[d] \in Nat
            BY <1>2, <2>4 DEF TypeOK
        <3>2. k > unacked[d] \/ outbox'[d][k].msgs \subseteq resent'
            BY <1>2, <2>1, <2>2, <2>4, <3>1
        <3> QED BY <2>1, <2>2, <2>4, <3>2
    <2> QED BY <2>3, <2>4
<1>10. QueuesKnown' /\ BroughtOnce' /\ NotYet'
    BY <1>1, <1>3, <1>7, <1>8, <1>9, QueuesShrink DEF OnceInv
<1> QED BY <1>4, <1>6, <1>10 DEF OnceInv

LEMMA InitOnce == Init => OnceInv
BY DEF Init, OnceInv, TreeArrived, ListsKnown, Known, NoChats, QueuesKnown,
       BroughtOnce, NotYet

LEMMA NextOnce == TypeOK /\ OnceInv /\ [Next]_vars => OnceInv'
<1> SUFFICES ASSUME TypeOK, OnceInv, [Next]_vars PROVE OnceInv'
    OBVIOUS
<1> USE DEF bounds, history
<1>c. /\ TreeArrived /\ QueuesKnown /\ BroughtOnce /\ NotYet
      /\ \A d \in Device :
            /\ Known(d, chats[d])
            /\ \A i \in DOMAIN rounds[d] : Known(d, rounds[d][i])
    BY DEF OnceInv, ListsKnown
<1>1. ASSUME NEW d \in Device, ObserveEmpty(d) PROVE OnceInv'
    <2>1. NoChats \in Held /\ Known(d, NoChats)
        BY DEF NoChats, Held, State, Known
    <2>2. /\ UNCHANGED <<tree, route, unacked, rounds, arrived, resent>>
          /\ UpdateChat(d, NoChats)
        BY <1>1 DEF ObserveEmpty, Report
    <2>3. /\ QueuesKnown' /\ BroughtOnce' /\ NotYet' /\ Known(d, chats'[d])
          /\ \A e \in Device \ {d} : chats'[e] = chats[e]
        BY <2>1, <2>2, UpdateOnce
    <2> QED BY <1>c, <2>2, <2>3, ListOnce
<1>2. ASSUME NEW d \in Device, Observe(d) PROVE OnceInv'
    <2>1. /\ UNCHANGED <<tree, route, unacked, outbox, chats, arrived, resent>>
          /\ rounds' = [rounds EXCEPT ![d] = Append(rounds[d], View(d))]
        BY <1>2 DEF Observe, Report
    <2>2. Known(d, View(d)) /\ View(d) \in Held
        BY <1>c, ViewKnown, ViewType
    <2> DEFINE v == View(d)
    <2>3. v \in Held /\ Known(d, v)
        BY <2>2
    <2>4. /\ rounds'[d] = Append(rounds[d], v) /\ rounds[d] \in Seq(Held)
          /\ \A e \in Device \ {d} : rounds'[e] = rounds[e]
        BY <2>1 DEF TypeOK
    <2> HIDE DEF v
    <2>5. \A i \in DOMAIN rounds'[d] :
              \/ rounds'[d][i] = v
              \/ i \in DOMAIN rounds[d] /\ rounds'[d][i] = rounds[d][i]
        BY <2>3, <2>4
    <2>6. \A i \in DOMAIN rounds'[d] : Known(d, rounds'[d][i])
        BY <1>c, <2>3, <2>5
    <2>7. Onward
        BY <2>1 DEF Onward
    <2>8. QueuesKnown' /\ BroughtOnce' /\ NotYet'
        BY <1>c, <2>1, <2>7, QueuesRest
    <2> QED BY <1>c, <2>1, <2>4, <2>6, <2>8, ListOnce
<1>3. ASSUME NEW d \in Device, FinishRound(d) PROVE OnceInv'
    <2>1. PICK i \in DOMAIN rounds[d] :
             /\ UpdateChat(d, rounds[d][i])
             /\ rounds' = [rounds EXCEPT ![d] =
                   [j \in 1..(Len(rounds[d]) - 1) |->
                       IF j < i THEN rounds[d][j] ELSE rounds[d][j + 1]]]
        BY <1>3 DEF FinishRound
    <2>2. UNCHANGED <<tree, route, unacked, arrived, resent>>
        BY <1>3 DEF FinishRound
    <2>3. rounds[d][i] \in Held /\ Known(d, rounds[d][i])
        BY <1>c DEF TypeOK
    <2>4. /\ QueuesKnown' /\ BroughtOnce' /\ NotYet' /\ Known(d, chats'[d])
          /\ \A e \in Device \ {d} : chats'[e] = chats[e]
        BY <2>1, <2>2, <2>3, UpdateOnce
    <2> DEFINE q == rounds[d]
               r == [j \in 1..(Len(q) - 1) |-> IF j < i THEN q[j] ELSE q[j + 1]]
    <2>5. /\ q \in Seq(Held) /\ i \in DOMAIN q /\ rounds'[d] = r
          /\ \A e \in Device \ {d} : rounds'[e] = rounds[e]
        BY <2>1 DEF TypeOK
    <2>6. r = [j \in 1..(Len(q) - 1) |-> IF j < i THEN q[j] ELSE q[j + 1]]
        OBVIOUS
    <2>7. \A k \in DOMAIN q : Known(d, q[k])
        BY <1>c
    <2> HIDE DEF q, r
    <2>8. \A j \in DOMAIN r : \E k \in DOMAIN q : r[j] = q[k]
        BY <2>5, <2>6, RoundType
    <2>9. \A j \in DOMAIN rounds'[d] : Known(d, rounds'[d][j])
        BY <2>5, <2>7, <2>8
    <2> QED BY <2>2, <2>4, <2>5, <2>9, ListOnce
<1>4. ASSUME NEW d \in Device, NEW u \in User, OpenChat(d, u) PROVE OnceInv'
    <2>1. /\ u # Me(d) /\ MarkAsRead(d, u, chats[d])
          /\ UNCHANGED <<tree, route, unacked, rounds, arrived, resent>>
        BY <1>4 DEF OpenChat, Show
    <2>2. chats[d] \in Held
        BY DEF TypeOK
    <2>3. /\ QueuesKnown' /\ BroughtOnce' /\ NotYet' /\ Known(d, chats'[d])
          /\ \A e \in Device \ {d} : chats'[e] = chats[e]
        BY <1>c, <2>1, <2>2, MarkOnce
    <2> QED BY <1>c, <2>1, <2>3, ListOnce
<1>5. ASSUME UNCHANGED <<tree, outbox, unacked, chats, rounds, route, arrived,
                         resent>>
      PROVE  OnceInv'
    <2>1. Onward
        BY <1>5 DEF Onward
    <2>2. QueuesKnown' /\ BroughtOnce' /\ NotYet'
        BY <1>c, <1>5, <2>1, QueuesRest
    <2>3. ListsKnown'
        BY <1>c, <1>5, <2>1, KnownStay
    <2>4. TreeArrived'
        BY <1>c, <1>5 DEF TreeArrived, Sent
    <2> QED BY <2>2, <2>3, <2>4 DEF OnceInv
<1>6. ASSUME NEW d \in Device, NEW u \in User, CreateChat(d, u) PROVE OnceInv'
    BY <1>5, <1>6 DEF CreateChat, Show
<1>7. ASSUME NEW d \in Device, NEW u \in User,
             DeleteDirectChat(d, u) \/ RemoveTeammate(d, u)
      PROVE  OnceInv'
    <2>1. u # Me(d)
        BY <1>7 DEF DeleteDirectChat, RemoveTeammate, Listed, OthersOnly, TypeOK
    <2>2. <<Me(d), u>> \in Chat /\ <<u, Me(d)>> \in Chat
        BY <2>1, MeType, ChatType
    <2>3. /\ << <<Me(d), u>> >> \in Seq(Chat)
          /\ << <<Me(d), u>>, <<u, Me(d)>> >> \in Seq(Chat)
        BY <2>2
    <2> QED BY <1>7, <2>3, RemoveOnce DEF DeleteDirectChat, RemoveTeammate
<1>8. ASSUME NEW d \in Device, Close(d) PROVE OnceInv'
    BY <1>5, <1>8 DEF Close
<1>9. CASE UNCHANGED vars
    BY <1>5, <1>9 DEF vars
<1> QED
    BY <1>1, <1>2, <1>3, <1>4, <1>6, <1>7, <1>8, <1>9,
       SendOnce, DeliverOnce, UnackedOnce, ConnectionOnce DEF Next

\* A step that makes a copy of a message new applies the one write that brings
\* it; had the message arrived before, that write was sent again.
LEMMA NewOnce ==
    ASSUME TypeOK, OnceInv, [Next]_vars, NEW c \in Chat, NEW m \in Msg,
           <<c, m>> \in arrived, tree[c][m] # "unread", tree'[c][m] = "unread"
    PROVE  m \in resent
<1> USE DEF bounds, history
<1>1. ASSUME NEW d \in Device, NEW i \in DOMAIN outbox[d], i > unacked[d],
             Apply(outbox[d][i])
      PROVE  m \in resent
    <2>1. Brings(outbox[d][i], c, m)
        BY <1>1 DEF Apply, Applied, Brings
    <2> QED BY <1>1, <2>1 DEF OnceInv, NotYet
<1>2. ASSUME NEW d \in Device, Deliver(d) PROVE m \in resent
    <2>1. /\ outbox[d] \in Seq(Write) /\ outbox[d] # <<>> /\ unacked[d] = 0
          /\ Apply(Head(outbox[d]))
        BY <1>2 DEF Deliver, TypeOK
    <2>2. 1 \in DOMAIN outbox[d] /\ 1 > unacked[d] /\ Apply(outbox[d][1])
        BY <2>1
    <2> QED BY <1>1, <2>2
<1>3. ASSUME NEW d \in Device, DeliverUnacked(d) PROVE m \in resent
    <2>1. PICK n \in Nat : n = unacked[d]
        BY DEF TypeOK
    <2>2. /\ outbox[d] \in Seq(Write) /\ n < Len(outbox[d])
          /\ Apply(outbox[d][n + 1])
        BY <1>3, <2>1 DEF DeliverUnacked, TypeOK
    <2>3. n + 1 \in DOMAIN outbox[d] /\ n + 1 > unacked[d]
        BY <2>1, <2>2
    <2> QED BY <1>1, <2>2, <2>3
<1>4. CASE UNCHANGED tree
    BY <1>4
<1>5. \A d \in Device :
         /\ ObserveEmpty(d) \/ Observe(d) \/ FinishRound(d) \/ Close(d)
            \/ Reconnect(d) \/ Crash(d) => UNCHANGED tree
         /\ \A u \in User :
               OpenChat(d, u) \/ CreateChat(d, u) \/ DeleteDirectChat(d, u)
               \/ RemoveTeammate(d, u) => UNCHANGED tree
         /\ \A x \in Msg : SendDirectMessage(d, x) => UNCHANGED tree
    BY DEF ObserveEmpty, Observe, Report, FinishRound, Close, Reconnect, Crash,
           OpenChat, CreateChat, Show, DeleteDirectChat, RemoveTeammate, Remove,
           SendDirectMessage
<1>6. UNCHANGED vars => UNCHANGED tree
    BY DEF vars
<1> QED BY <1>2, <1>3, <1>4, <1>5, <1>6 DEF Next

LEMMA OnceInductive ==
    /\ Init => TypeOK /\ OnceInv
    /\ TypeOK /\ OnceInv /\ [Next]_vars => TypeOK' /\ OnceInv'
BY InitTypeOK, NextTypeOK, InitOnce, NextOnce

\* For any users, devices and messages, under any deletions, kills and lost
\* connections: a message that was read becomes new again only if its sender
\* sends it again because the first time was not acknowledged.
THEOREM ReadIsFinal == Spec => ReadStays
<1>1. TypeOK /\ OnceInv /\ [Next]_vars =>
          [\A c \in Chat : \A m \in Msg :
              tree[c][m] = "read" /\ tree'[c][m] = "unread" => m \in resent]_vars
    <2> SUFFICES ASSUME TypeOK, OnceInv, [Next]_vars,
                        NEW c \in Chat, NEW m \in Msg,
                        tree[c][m] = "read", tree'[c][m] = "unread"
                 PROVE  m \in resent
        OBVIOUS
    <2>1. <<c, m>> \in arrived
        BY DEF OnceInv, TreeArrived
    <2> QED BY <2>1, NewOnce
<1> QED BY <1>1, OnceInductive, PTL DEF Spec, ReadStays

\* For any users, devices and messages, under any deletions, kills and lost
\* connections: a message that was removed comes back as read (from the memory
\* of a device that marks it), and as new only if it was sent again.
THEOREM ComesBackRead == Spec => ReturnsRead
<1>1. TypeOK /\ OnceInv /\ [Next]_vars =>
          [\A c \in Chat : \A m \in Msg :
              /\ <<c, m>> \in arrived
              /\ tree[c][m] = "none"
              /\ tree'[c][m] = "unread"
              => m \in resent]_vars
    <2> SUFFICES ASSUME TypeOK, OnceInv, [Next]_vars,
                        NEW c \in Chat, NEW m \in Msg, <<c, m>> \in arrived,
                        tree[c][m] = "none", tree'[c][m] = "unread"
                 PROVE  m \in resent
        OBVIOUS
    <2> QED BY NewOnce
<1> QED BY <1>1, OnceInductive, PTL DEF Spec, ReturnsRead
==============================================================================
