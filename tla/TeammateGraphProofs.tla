------------------------- MODULE TeammateGraphProofs -------------------------
(***************************************************************************)
(* Proofs about TeammateGraph, for every set of users and devices.         *)
(***************************************************************************)
EXTENDS TeammateGraph, TLAPS

(* Entries, writes and queues *)

\* An entry between two different users is an entry of the database.
LEMMA AtEntry ==
    ASSUME NEW n \in Node, NEW a \in User, NEW b \in User, a # b
    PROVE  /\ At(n, a, b) \in Entry
           /\ At(n, a, b).node = n
           /\ At(n, a, b).owner = a
           /\ At(n, a, b).peer = b
BY DEF At, Entry

Writes == Write(Entry, Operation)

\* Setting or removing an entry is a write.
LEMMA WriteTypes ==
    ASSUME NEW e \in Entry, NEW by \in Operation
    PROVE  SetValue(e, by) \in Writes /\ RemoveValue(e, by) \in Writes
BY DEF SetValue, RemoveValue, Writes, Write

\* The batches of writes each operation queues are sequences of writes.
LEMMA BatchTypes ==
    ASSUME NEW a \in User, NEW b \in User, a # b
    PROVE  /\ RequestWrites(a, b) \in Seq(Writes)
           /\ AcceptWrites(a, b) \in Seq(Writes)
           /\ RemoveWrites(a, b) \in Seq(Writes)
           /\ <<RemoveValue(At("teammateRequests", a, b), "decline")>>
                 \in Seq(Writes)
           /\ << SetValue(At("directChats", a, b), "message"),
                 SetValue(At("directChats", b, a), "message") >> \in Seq(Writes)
<1>1. \A n \in Node : At(n, a, b) \in Entry /\ At(n, b, a) \in Entry
    BY AtEntry
<1>2. {"request", "accept", "decline", "remove", "message"} \subseteq Operation
    BY DEF Operation
<1>3. {"teammates", "teammateRequests", "directChats"} \subseteq Node
    BY DEF Node
<1>4. RequestWrites(a, b) \in Seq(Writes)
    BY <1>1, <1>2, <1>3, WriteTypes DEF RequestWrites
<1>5. AcceptWrites(a, b) \in Seq(Writes)
    BY <1>1, <1>2, <1>3, WriteTypes DEF AcceptWrites
<1>6. RemoveWrites(a, b) \in Seq(Writes)
    BY <1>1, <1>2, <1>3, WriteTypes DEF RemoveWrites
<1>7. <<RemoveValue(At("teammateRequests", a, b), "decline")>> \in Seq(Writes)
    BY <1>1, <1>2, <1>3, WriteTypes
<1>8. << SetValue(At("directChats", a, b), "message"),
         SetValue(At("directChats", b, a), "message") >> \in Seq(Writes)
    BY <1>1, <1>2, <1>3, WriteTypes
<1> QED BY <1>4, <1>5, <1>6, <1>7, <1>8

\* Every write of a queue that a batch was appended to was in the one or in
\* the other.
LEMMA Appended ==
    ASSUME NEW S, NEW q \in Seq(S), NEW s \in Seq(S)
    PROVE  /\ q \o s \in Seq(S)
           /\ \A i \in DOMAIN (q \o s) :
                 \/ i \in DOMAIN q /\ (q \o s)[i] = q[i]
                 \/ \E j \in DOMAIN s : (q \o s)[i] = s[j]
<1>1. q \o s \in Seq(S) /\ Len(q \o s) = Len(q) + Len(s)
    OBVIOUS
<1>2. ASSUME NEW i \in DOMAIN (q \o s)
      PROVE  \/ i \in DOMAIN q /\ (q \o s)[i] = q[i]
             \/ \E j \in DOMAIN s : (q \o s)[i] = s[j]
    <2>1. i \in 1..(Len(q) + Len(s))
        BY <1>1
    <2>2. CASE i <= Len(q)
        BY <2>1, <2>2
    <2>3. CASE i > Len(q)
        <3>1. i - Len(q) \in DOMAIN s /\ (q \o s)[i] = s[i - Len(q)]
            BY <2>1, <2>3
        <3> QED BY <3>1
    <2> QED BY <2>1, <2>2, <2>3
<1> QED BY <1>1, <1>2

\* What is left of a queue after its head is delivered.
LEMMA Delivered ==
    ASSUME NEW S, NEW q \in Seq(S), q # <<>>
    PROVE  /\ Head(q) \in S
           /\ Tail(q) \in Seq(S)
           /\ 1 \in DOMAIN q /\ Head(q) = q[1]
           /\ \A i \in DOMAIN Tail(q) :
                 i + 1 \in DOMAIN q /\ Tail(q)[i] = q[i + 1]
OBVIOUS

------------------------------------------------------------------------------
(* Type correctness *)

LEMMA MeType == \A d \in Device : Me(d) \in User
BY UserOfAssumption DEF Me

\* The initial entries are between different users.
LEMMA InitTypeOK == Init => TypeOK
<1> SUFFICES ASSUME Init PROVE TypeOK
    OBVIOUS
<1>1. \A p \in Past \cup Waiting :
         p[1] \in User /\ p[2] \in User /\ p[1] # p[2] /\ p \in User \X User
    BY PastAssumption
<1>2. \A p \in Past : Edges(p[1], p[2]) \subseteq Entry
    BY <1>1, AtEntry DEF Edges, Node
<1>3. \A p \in Waiting : At("teammateRequests", p[2], p[1]) \in Entry
    BY <1>1, AtEntry DEF Node
<1>4. tree \subseteq Entry
    BY <1>2, <1>3 DEF Init
<1>5. asked \subseteq User \X User /\ formed \subseteq SUBSET User
    BY <1>1 DEF Init
<1>6. /\ ops \in Nat /\ crashes \in Nat /\ drops \in Nat
      /\ unacked \in [Device -> Nat] /\ disturbed \subseteq SUBSET User
    BY DEF Init
<1>7. outbox \in [Device -> Seq(Writes)]
    BY DEF Init
<1>8. /\ reads \in [Device -> [User -> ReadState]]
      /\ players \in [Device -> SUBSET User]
      /\ shown \in [Device -> [List -> SUBSET User]]
      /\ synced \in [Device -> [List -> SUBSET User]]
      /\ rounds \in [Device -> SUBSET Round]
      /\ captured \in [Device -> SUBSET Capture]
    BY DEF Init, ReadState, NothingShown
<1>9. OnlyOthers
    BY MeType DEF Init, OnlyOthers, NothingShown
<1> QED BY <1>4, <1>5, <1>6, <1>7, <1>8, <1>9 DEF TypeOK, Writes

\* A call that queues a batch keeps the queues well typed.
LEMMA CallType ==
    ASSUME outbox \in [Device -> Seq(Writes)],
           NEW d \in Device, NEW s \in Seq(Writes), Call(d, s)
    PROVE  outbox' \in [Device -> Seq(Writes)]
BY Appended DEF Call

\* Noting a crossing only adds a pair of users.
LEMMA NoteCrossingType ==
    ASSUME disturbed \subseteq SUBSET User,
           NEW d \in Device, NEW u \in User, NEW op, NoteCrossing(d, u, op)
    PROVE  disturbed' \subseteq SUBSET User
BY MeType DEF NoteCrossing

\* The view a device has of one of its lists names only other users.
LEMMA ViewType ==
    ASSUME NEW d \in Device, NEW n \in List
    PROVE  View(d, n) \subseteq User /\ Me(d) \notin View(d, n)
BY DEF View

\* What a kill leaves disturbed are pairs of users.
LEMMA QueuedPairsType ==
    ASSUME outbox \in [Device -> Seq(Writes)], NEW d \in Device
    PROVE  QueuedPairs(d) \subseteq SUBSET User
<1>1. ASSUME NEW i \in DOMAIN outbox[d]
      PROVE  {outbox[d][i].entry.owner, outbox[d][i].entry.peer} \subseteq User
    <2>1. outbox[d] \in Seq(Writes)
        OBVIOUS
    <2>2. outbox[d][i] \in Writes
        BY <2>1
    <2>3. outbox[d][i].entry \in Entry
        BY <2>2 DEF Writes, Write
    <2> QED BY <2>3 DEF Entry
<1> QED BY <1>1 DEF QueuedPairs

\* Dropping a request from the local list at most shortens it.
LEMMA DropShrinks ==
    ASSUME TypeOK, NEW d \in Device, NEW u \in User, DropRequest(d, u)
    PROVE  /\ shown' \in [Device -> [List -> SUBSET User]]
           /\ \A e \in Device : \A n \in List : shown'[e][n] \subseteq shown[e][n]
<1>1. CASE shown' = [shown EXCEPT ![d]["teammateRequests"] = @ \ {u}]
    BY <1>1 DEF TypeOK, List
<1>2. CASE shown' = shown
    BY <1>2 DEF TypeOK
<1> QED BY <1>1, <1>2 DEF DropRequest

\* The next write the server gets from a device is one of its queue.
LEMMA NextWriteQueued ==
    ASSUME TypeOK, NEW d \in Device, unacked[d] < Len(outbox[d])
    PROVE  /\ unacked[d] + 1 \in DOMAIN outbox[d]
           /\ NextWrite(d) = outbox[d][unacked[d] + 1]
           /\ NextWrite(d) \in Writes
<1>1. outbox[d] \in Seq(Writes) /\ unacked[d] \in Nat
    BY DEF TypeOK, Writes
<1>2. unacked[d] + 1 \in 1..Len(outbox[d])
    BY <1>1
<1> QED BY <1>1, <1>2 DEF NextWrite

\* A write keeps the database between users and their peers.
LEMMA ApplyType ==
    ASSUME TypeOK, NEW w \in Writes, Apply(w)
    PROVE  tree' \subseteq Entry /\ formed' \subseteq SUBSET User
<1>1. w.entry \in Entry
    BY DEF Writes, Write
<1>2. tree' \subseteq Entry
    BY <1>1 DEF Apply, Applied, TypeOK
<1>3. formed' \subseteq SUBSET User
    BY <1>1 DEF Apply, Entry, TypeOK
<1> QED BY <1>2, <1>3

\* Every step keeps the types, and never lets a device turn to its own user.
LEMMA NextTypeOK == TypeOK /\ [Next]_vars => TypeOK'
<1> SUFFICES ASSUME TypeOK, [Next]_vars PROVE TypeOK'
    OBVIOUS
<1> USE DEF Writes, faults
<1>1. \A d \in Device : Me(d) \in User
    BY MeType
<1>2. ASSUME NEW d \in Device, FetchPlayers(d) PROVE TypeOK'
    BY <1>1, <1>2 DEF TypeOK, OnlyOthers, FetchPlayers, Recognised, ListPlayers, history
<1>3. ASSUME NEW d \in Device, NEW t \in User, RequestPlayerToTeamUp(d, t)
      PROVE  TypeOK'
    BY <1>1, <1>3
    DEF TypeOK, OnlyOthers, RequestPlayerToTeamUp, Start, ReadState, history
<1>4. ASSUME NEW d \in Device, NEW t \in User, FindAlreadyRequested(d, t)
      PROVE  TypeOK'
    BY <1>1, <1>4
    DEF TypeOK, OnlyOthers, FindAlreadyRequested, Answered, ReadState, history
<1>5. ASSUME NEW d \in Device, NEW t \in User, SendRequest(d, t)
      PROVE  TypeOK'
    <2>1. Me(d) # t
        BY <1>5 DEF SendRequest, TypeOK, OnlyOthers
    <2>2. outbox' \in [Device -> Seq(Writes)]
        BY <1>1, <1>5, <2>1, BatchTypes, CallType DEF SendRequest, TypeOK
    <2>3. OnlyOthers'
        BY <1>1, <1>5
        DEF TypeOK, OnlyOthers, SendRequest, Answered, ReadState
    <2>4. /\ reads' \in [Device -> [User -> ReadState]]
          /\ players' \in [Device -> SUBSET User]
        BY <1>5 DEF TypeOK, SendRequest, Answered, ReadState
    <2>5. asked' \subseteq User \X User
        BY <1>1, <1>5 DEF TypeOK, SendRequest
    <2> QED
        BY <1>5, <2>2, <2>3, <2>4, <2>5 DEF TypeOK, SendRequest
<1>6. ASSUME NEW d \in Device, NEW n \in List, ObserveEmpty(d, n)
      PROVE  TypeOK'
    BY <1>1, <1>6, ViewType
    DEF TypeOK, OnlyOthers, ObserveEmpty, Report, Show, history
<1>7. ASSUME NEW d \in Device, NEW n \in List, Observe(d, n)
      PROVE  TypeOK'
    <2>1. /\ [node |-> n, users |-> View(d, n)] \in Round
          /\ Me(d) \notin View(d, n)
        BY ViewType DEF Round
    <2> QED
        BY <1>1, <1>7, <2>1, ViewType
        DEF TypeOK, OnlyOthers, Observe, Report, history
<1>8. ASSUME NEW d \in Device, NEW r \in rounds[d], FinishRound(d, r)
      PROVE  TypeOK'
    <2>1. r.node \in List /\ r.users \subseteq User /\ Me(d) \notin r.users
        BY <1>8 DEF TypeOK, OnlyOthers, Round
    <2> QED
        BY <1>1, <1>8, <2>1
        DEF TypeOK, OnlyOthers, FinishRound, Show, history
<1>9. ASSUME NEW d \in Device, NEW c \in Capture, Open(d, c)
      PROVE  TypeOK'
    <2>1. c.user # Me(d)
        BY <1>9 DEF Open, Source, Capture, TypeOK, OnlyOthers, List
    <2> QED
        BY <1>1, <1>9, <2>1 DEF TypeOK, OnlyOthers, Open, history
<1>10. ASSUME NEW d \in Device, Close(d) PROVE TypeOK'
    BY <1>1, <1>10 DEF TypeOK, OnlyOthers, Close, history
<1>11. ASSUME NEW d \in Device, NEW u \in User, AcceptTeammateRequest(d, u)
       PROVE  TypeOK'
    <2>1. Me(d) # u
        BY <1>11 DEF AcceptTeammateRequest, Confirmed, TypeOK, OnlyOthers
    <2>2. outbox' \in [Device -> Seq(Writes)]
        BY <1>1, <1>11, <2>1, BatchTypes, CallType
        DEF AcceptTeammateRequest, TypeOK
    <2>3. disturbed' \subseteq SUBSET User
        BY <1>11, NoteCrossingType DEF AcceptTeammateRequest, TypeOK
    <2>4. OnlyOthers'
        BY <1>1, <1>11, DropShrinks
        DEF TypeOK, OnlyOthers, AcceptTeammateRequest, Confirmed
    <2>5. /\ shown' \in [Device -> [List -> SUBSET User]]
          /\ captured' \in [Device -> SUBSET Capture]
          /\ ops' \in Nat
        BY <1>11, DropShrinks
        DEF TypeOK, AcceptTeammateRequest, Confirmed, Start
    <2> QED
        BY <1>11, <2>2, <2>3, <2>4, <2>5
        DEF TypeOK, AcceptTeammateRequest
<1>12. ASSUME NEW d \in Device, NEW u \in User, DeclineTeammateRequest(d, u)
       PROVE  TypeOK'
    <2>1. Me(d) # u
        BY <1>12 DEF DeclineTeammateRequest, Confirmed, TypeOK, OnlyOthers
    <2>2. outbox' \in [Device -> Seq(Writes)]
        BY <1>1, <1>12, <2>1, BatchTypes, CallType
        DEF DeclineTeammateRequest, TypeOK
    <2>4. OnlyOthers'
        BY <1>1, <1>12, DropShrinks
        DEF TypeOK, OnlyOthers, DeclineTeammateRequest, Confirmed
    <2>5. /\ shown' \in [Device -> [List -> SUBSET User]]
          /\ captured' \in [Device -> SUBSET Capture]
          /\ ops' \in Nat
        BY <1>12, DropShrinks
        DEF TypeOK, DeclineTeammateRequest, Confirmed, Start
    <2> QED
        BY <1>12, <2>2, <2>4, <2>5
        DEF TypeOK, DeclineTeammateRequest, history
<1>13. ASSUME NEW d \in Device, NEW u \in User, RemoveTeammate(d, u)
       PROVE  TypeOK'
    <2>1. Me(d) # u
        BY <1>13 DEF RemoveTeammate, Confirmed, TypeOK, OnlyOthers
    <2>2. outbox' \in [Device -> Seq(Writes)]
        BY <1>1, <1>13, <2>1, BatchTypes, CallType DEF RemoveTeammate, TypeOK
    <2>3. disturbed' \subseteq SUBSET User
        BY <1>13, NoteCrossingType DEF RemoveTeammate, TypeOK
    <2>4. OnlyOthers'
        BY <1>1, <1>13 DEF TypeOK, OnlyOthers, RemoveTeammate, Confirmed
    <2>5. captured' \in [Device -> SUBSET Capture] /\ ops' \in Nat
        BY <1>13 DEF TypeOK, RemoveTeammate, Confirmed, Start
    <2> QED
        BY <1>13, <2>2, <2>3, <2>4, <2>5 DEF TypeOK, RemoveTeammate
<1>14. ASSUME NEW d \in Device, NEW u \in User, SendDirectMessage(d, u)
       PROVE  TypeOK'
    <2>1. Me(d) # u
        BY <1>14 DEF SendDirectMessage, TypeOK, OnlyOthers
    <2>2. outbox' \in [Device -> Seq(Writes)]
        BY <1>1, <1>14, <2>1, BatchTypes, CallType
        DEF SendDirectMessage, TypeOK
    <2> QED
        BY <1>1, <1>14, <2>2
        DEF TypeOK, OnlyOthers, SendDirectMessage, Start, client, history
<1>15. ASSUME NEW d \in Device, Deliver(d) PROVE TypeOK'
    <2>1. outbox[d] \in Seq(Writes) /\ outbox[d] # <<>>
        BY <1>15 DEF Deliver, TypeOK
    <2>2. Head(outbox[d]) \in Writes /\ Tail(outbox[d]) \in Seq(Writes)
        BY <2>1, Delivered
    <2>3. tree' \subseteq Entry /\ formed' \subseteq SUBSET User
        BY <1>15, <2>2, ApplyType DEF Deliver
    <2> QED
        BY <1>1, <1>15, <2>2, <2>3 DEF TypeOK, OnlyOthers, Deliver, client
<1>a. ASSUME NEW d \in Device, DeliverUnacked(d) PROVE TypeOK'
    <2>1. NextWrite(d) \in Writes
        BY <1>a, NextWriteQueued DEF DeliverUnacked
    <2>2. tree' \subseteq Entry /\ formed' \subseteq SUBSET User
        BY <1>a, <2>1, ApplyType DEF DeliverUnacked
    <2>3. unacked' \in [Device -> Nat] /\ drops' \in Nat
        BY <1>a DEF DeliverUnacked, TypeOK
    <2> QED
        BY <1>1, <1>a, <2>2, <2>3 DEF TypeOK, OnlyOthers, DeliverUnacked, client
<1>b. ASSUME NEW d \in Device, Reconnect(d) PROVE TypeOK'
    BY <1>1, <1>b DEF TypeOK, OnlyOthers, Reconnect, client, history
<1>16. ASSUME NEW d \in Device, Crash(d) PROVE TypeOK'
    <2>1. disturbed' \subseteq SUBSET User
        BY <1>16, QueuedPairsType DEF Crash, TypeOK
    <2> QED
        BY <1>1, <1>16, <2>1
        DEF TypeOK, OnlyOthers, Crash, NothingShown, ReadState
<1>17. CASE UNCHANGED vars
    BY <1>17 DEF TypeOK, OnlyOthers, vars, client, history
<1> QED
    BY <1>2, <1>3, <1>4, <1>5, <1>6, <1>7, <1>8, <1>9, <1>10, <1>11, <1>12,
       <1>13, <1>14, <1>15, <1>a, <1>b, <1>16, <1>17 DEF Next

\* Whatever the screens, the rounds, the queues and the kills do, the state is
\* well typed: no entry of the database and no list ever relates a user to
\* themselves.
THEOREM TypeCorrect == Spec => []TypeOK
BY InitTypeOK, NextTypeOK, PTL DEF Spec

------------------------------------------------------------------------------
(* Consent *)

\* More requests back at least as much.
LEMMA BackedMonotone ==
    ASSUME NEW sent, NEW more, sent \subseteq more, NEW e, BackedBy(sent, e)
    PROVE  BackedBy(more, e)
BY DEF BackedBy

\* A request backs the two edges of the friendship, and an edge backs both
\* sides of a chat.
LEMMA RequestBacksEdges ==
    ASSUME NEW sent, NEW a, NEW b, BackedBy(sent, At("teammateRequests", a, b))
    PROVE  /\ BackedBy(sent, At("teammates", a, b))
           /\ BackedBy(sent, At("teammates", b, a))
BY DEF BackedBy, At

LEMMA EdgeBacksChat ==
    ASSUME NEW sent, NEW a, NEW b, BackedBy(sent, At("teammates", a, b))
    PROVE  /\ BackedBy(sent, At("directChats", a, b))
           /\ BackedBy(sent, At("directChats", b, a))
BY DEF BackedBy, At

\* A batch whose sets are backed keeps the queues backed.
LEMMA CallBacked ==
    ASSUME outbox \in [Device -> Seq(Writes)], WritesBacked,
           asked \subseteq asked',
           NEW d \in Device, NEW s \in Seq(Writes), Call(d, s),
           \A j \in DOMAIN s : s[j].op = "set" => BackedBy(asked', s[j].entry)
    PROVE  WritesBacked'
<1> SUFFICES ASSUME NEW e \in Device, NEW i \in DOMAIN outbox'[e],
                    outbox'[e][i].op = "set"
             PROVE  BackedBy(asked', outbox'[e][i].entry)
    BY DEF WritesBacked, Backed
<1>1. CASE e # d
    <2>1. outbox'[e] = outbox[e]
        BY <1>1 DEF Call
    <2>2. BackedBy(asked, outbox[e][i].entry)
        BY <2>1 DEF WritesBacked, Backed
    <2> QED BY <2>1, <2>2, BackedMonotone
<1>2. CASE e = d
    <2>1. outbox'[d] = outbox[d] \o s
        BY DEF Call
    <2>2. CASE i \in DOMAIN outbox[d] /\ outbox'[d][i] = outbox[d][i]
        <3>1. BackedBy(asked, outbox[d][i].entry)
            BY <1>2, <2>2 DEF WritesBacked, Backed
        <3> QED BY <1>2, <2>2, <3>1, BackedMonotone
    <2>3. CASE \E j \in DOMAIN s : outbox'[d][i] = s[j]
        BY <1>2, <2>3
    <2>4. outbox[d] \in Seq(Writes)
        OBVIOUS
    <2> QED BY <1>2, <2>1, <2>2, <2>3, <2>4, Appended
<1> QED BY <1>1, <1>2

\* What a device sees on one of its lists is backed: it comes from the
\* server or from the device's own queue.
LEMMA ViewBacked ==
    ASSUME ConsentInv, NEW d \in Device, NEW n \in List, NEW u \in View(d, n)
    PROVE  BackedBy(asked, At(n, Me(d), u))
<1>1. Seen(tree, outbox[d], At(n, Me(d), u))
    BY DEF View
<1>2. CASE At(n, Me(d), u) \in tree
    BY <1>2 DEF ConsentInv, ConsentedEntries, Backed
<1>3. CASE \E i \in DOMAIN outbox[d] :
              outbox[d][i].entry = At(n, Me(d), u) /\ outbox[d][i].op = "set"
    BY <1>3 DEF ConsentInv, WritesBacked, Backed
<1> QED BY <1>1, <1>2, <1>3 DEF Seen, Sets

\* Before the run every request and friendship was asked for.
LEMMA InitConsent == Init => ConsentInv
<1> SUFFICES ASSUME Init PROVE ConsentInv
    OBVIOUS
<1>1. \A p \in Past : \A e \in Edges(p[1], p[2]) : BackedBy(asked, e)
    <2> SUFFICES ASSUME NEW p \in Past, NEW e \in Edges(p[1], p[2])
                 PROVE  BackedBy(asked, e)
        OBVIOUS
    <2>1. p = <<p[1], p[2]>> /\ p \in asked
        BY PastAssumption DEF Init
    <2> QED BY <2>1 DEF Edges, At, BackedBy
<1>2. \A p \in Waiting :
         BackedBy(asked, At("teammateRequests", p[2], p[1]))
    <2> SUFFICES ASSUME NEW p \in Waiting
                 PROVE  BackedBy(asked, At("teammateRequests", p[2], p[1]))
        OBVIOUS
    <2>1. p = <<p[1], p[2]>> /\ p \in asked
        BY PastAssumption DEF Init
    <2> QED BY <2>1 DEF At, BackedBy
<1>3. ConsentedEntries
    BY <1>1, <1>2 DEF Init, ConsentedEntries, Backed
<1>4. WritesBacked /\ ListsBacked /\ CapturesBacked
    BY DEF Init, WritesBacked, ListsBacked, CapturesBacked, NothingShown
<1> QED BY <1>3, <1>4 DEF ConsentInv

\* Each part of the invariant survives a step that leaves its variables alone
\* and forgets no request.
LEMMA PartsKept ==
    ASSUME ConsentInv, asked \subseteq asked'
    PROVE  /\ tree' = tree => ConsentedEntries'
           /\ outbox' = outbox => WritesBacked'
           /\ shown' = shown /\ rounds' = rounds => ListsBacked'
           /\ captured' = captured => CapturesBacked'
<1> USE BackedMonotone DEF ConsentInv, Backed
<1>1. ASSUME tree' = tree PROVE ConsentedEntries'
    BY <1>1 DEF ConsentedEntries
<1>2. ASSUME outbox' = outbox PROVE WritesBacked'
    BY <1>2 DEF WritesBacked
<1>3. ASSUME shown' = shown, rounds' = rounds PROVE ListsBacked'
    <2>1. \A d \in Device : \A n \in List : \A u \in shown[d][n] :
             BackedBy(asked', At(n, Me(d), u))
        BY DEF ListsBacked
    <2>2. \A d \in Device : \A r \in rounds[d] : \A u \in r.users :
             BackedBy(asked', At(r.node, Me(d), u))
        BY DEF ListsBacked
    <2> QED BY <1>3, <2>1, <2>2 DEF ListsBacked
<1>4. ASSUME captured' = captured PROVE CapturesBacked'
    BY <1>4 DEF CapturesBacked
<1> QED BY <1>1, <1>2, <1>3, <1>4

\* Closing a screen, or dropping a user from a list, takes nothing away from
\* what is left.
LEMMA LessShown ==
    ASSUME TypeOK, ConsentInv, asked' = asked, NEW d \in Device
    PROVE  /\ captured' = [captured EXCEPT ![d] = {}] => CapturesBacked'
           /\ \A u \in User :
                 DropRequest(d, u) /\ rounds' = rounds => ListsBacked'
<1>1. ASSUME captured' = [captured EXCEPT ![d] = {}] PROVE CapturesBacked'
    BY <1>1 DEF ConsentInv, CapturesBacked, Backed, TypeOK
<1>2. ASSUME NEW u \in User, DropRequest(d, u), rounds' = rounds
      PROVE  ListsBacked'
    <2>1. \A e \in Device : \A n \in List : shown'[e][n] \subseteq shown[e][n]
        BY <1>2, DropShrinks
    <2> QED BY <1>2, <2>1 DEF ConsentInv, ListsBacked, Backed
<1> QED BY <1>1, <1>2

\* The server applying a backed write keeps the database backed.
LEMMA ApplyBacked ==
    ASSUME ConsentInv, asked' = asked, NEW w, Apply(w),
           w.op = "set" => BackedBy(asked, w.entry)
    PROVE  ConsentedEntries'
BY DEF Apply, Applied, ConsentInv, ConsentedEntries, Backed

\* Every step keeps what is on its way to the database backed by a request.
LEMMA NextConsent == TypeOK /\ ConsentInv /\ [Next]_vars => ConsentInv'
<1> SUFFICES ASSUME TypeOK, ConsentInv, [Next]_vars PROVE ConsentInv'
    OBVIOUS
<1>t. outbox \in [Device -> Seq(Writes)]
    BY DEF TypeOK, Writes
<1> USE DEF faults
<1>1. ASSUME NEW d \in Device, FetchPlayers(d) PROVE ConsentInv'
    BY <1>1, PartsKept DEF FetchPlayers, ListPlayers, history, ConsentInv
<1>2. ASSUME NEW d \in Device, NEW t \in User,
             RequestPlayerToTeamUp(d, t) \/ FindAlreadyRequested(d, t)
      PROVE  ConsentInv'
    BY <1>2, PartsKept
    DEF RequestPlayerToTeamUp, FindAlreadyRequested, history, ConsentInv
<1>3. ASSUME NEW d \in Device, NEW t \in User, SendRequest(d, t)
      PROVE  ConsentInv'
    <2>1. Me(d) # t /\ Me(d) \in User
        BY <1>3, MeType DEF SendRequest, TypeOK, OnlyOthers
    <2>2. asked \subseteq asked'
        BY <1>3 DEF SendRequest
    <2> DEFINE s == RequestWrites(Me(d), t)
    <2>3. s \in Seq(Writes)
        BY <2>1, BatchTypes
    <2>4. \A j \in DOMAIN s : BackedBy(asked', s[j].entry)
        BY <1>3 DEF SendRequest, RequestWrites, SetValue, BackedBy, At
    <2>5. WritesBacked'
        BY <1>t, <1>3, <2>2, <2>3, <2>4, CallBacked DEF SendRequest, ConsentInv
    <2> QED BY <1>3, <2>2, <2>5, PartsKept DEF SendRequest, ConsentInv
<1>4. ASSUME NEW d \in Device, NEW n \in List, ObserveEmpty(d, n)
      PROVE  ConsentInv'
    <2>1. ListsBacked'
        BY <1>4
        DEF ObserveEmpty, Report, Show, history, ConsentInv, ListsBacked,
            Backed, TypeOK
    <2> QED
        BY <1>4, <2>1, PartsKept DEF ObserveEmpty, Report, history, ConsentInv
<1>5. ASSUME NEW d \in Device, NEW n \in List, Observe(d, n)
      PROVE  ConsentInv'
    <2> DEFINE new == [node |-> n, users |-> View(d, n)]
    <2>1. \A u \in new.users : BackedBy(asked, At(new.node, Me(d), u))
        BY ViewBacked
    <2>2. \A e \in Device : \A r \in rounds'[e] : r \in rounds[e] \/ (e = d /\ r = new)
        BY <1>5 DEF Observe, TypeOK
    <2>3. asked' = asked /\ shown' = shown
        BY <1>5 DEF Observe, Report, history
    <2>4. ListsBacked'
        BY <2>1, <2>2, <2>3 DEF ConsentInv, ListsBacked, Backed
    <2> QED
        BY <1>5, <2>4, PartsKept DEF Observe, Report, history, ConsentInv
<1>6. ASSUME NEW d \in Device, NEW r \in rounds[d], FinishRound(d, r)
      PROVE  ConsentInv'
    <2>1. \A u \in r.users : BackedBy(asked, At(r.node, Me(d), u))
        BY DEF ConsentInv, ListsBacked, Backed
    <2>2. \A e \in Device : \A n \in List :
             shown'[e][n] = shown[e][n] \/ (e = d /\ n = r.node /\ shown'[e][n] = r.users)
        BY <1>6 DEF FinishRound, Show, TypeOK
    <2>3. \A e \in Device : rounds'[e] \subseteq rounds[e]
        BY <1>6 DEF FinishRound, TypeOK
    <2>4. asked' = asked
        BY <1>6 DEF FinishRound, history
    <2>5. ListsBacked'
        BY <2>1, <2>2, <2>3, <2>4 DEF ConsentInv, ListsBacked, Backed
    <2> QED
        BY <1>6, <2>5, PartsKept DEF FinishRound, history, ConsentInv
<1>7. ASSUME NEW d \in Device, NEW c \in Capture, Open(d, c)
      PROVE  ConsentInv'
    <2>1. BackedBy(asked, At(Source(c.kind), Me(d), c.user))
        BY <1>7 DEF Open, Source, List, ConsentInv, ListsBacked, Backed
    <2>2. asked' = asked /\ captured' = [captured EXCEPT ![d] = {c}]
        BY <1>7 DEF Open, history
    <2>3. CapturesBacked'
        BY <2>1, <2>2 DEF ConsentInv, CapturesBacked, Backed, TypeOK
    <2> QED BY <1>7, <2>3, PartsKept DEF Open, history, ConsentInv
<1>8. ASSUME NEW d \in Device, Close(d) PROVE ConsentInv'
    BY <1>8, PartsKept, LessShown DEF Close, history, ConsentInv
<1>9. ASSUME NEW d \in Device, NEW u \in User, AcceptTeammateRequest(d, u)
      PROVE  ConsentInv'
    <2>1. Me(d) # u /\ Me(d) \in User
        BY <1>9, MeType DEF AcceptTeammateRequest, Confirmed, TypeOK, OnlyOthers
    <2>2. asked' = asked
        BY <1>9 DEF AcceptTeammateRequest
    <2>3. BackedBy(asked, At("teammateRequests", Me(d), u))
        BY <1>9
        DEF AcceptTeammateRequest, Confirmed, ConsentInv, CapturesBacked,
            Backed, Source
    <2> DEFINE s == AcceptWrites(Me(d), u)
    <2>4. s \in Seq(Writes)
        BY <2>1, BatchTypes
    <2>5. \A j \in DOMAIN s : s[j].op = "set" => BackedBy(asked', s[j].entry)
        BY <2>2, <2>3, RequestBacksEdges DEF AcceptWrites, SetValue, RemoveValue
    <2>6. WritesBacked'
        BY <1>t, <1>9, <2>2, <2>4, <2>5, CallBacked
        DEF AcceptTeammateRequest, ConsentInv
    <2> QED
        BY <1>9, <2>2, <2>6, PartsKept, LessShown
        DEF AcceptTeammateRequest, Confirmed, ConsentInv
<1>10. ASSUME NEW d \in Device, NEW u \in User, DeclineTeammateRequest(d, u)
       PROVE  ConsentInv'
    <2>1. Me(d) # u /\ Me(d) \in User
        BY <1>10, MeType
        DEF DeclineTeammateRequest, Confirmed, TypeOK, OnlyOthers
    <2>2. asked' = asked
        BY <1>10 DEF DeclineTeammateRequest, history
    <2> DEFINE s == <<RemoveValue(At("teammateRequests", Me(d), u), "decline")>>
    <2>3. s \in Seq(Writes) /\ \A j \in DOMAIN s : s[j].op # "set"
        BY <2>1, BatchTypes DEF RemoveValue
    <2>4. WritesBacked'
        BY <1>t, <1>10, <2>2, <2>3, CallBacked
        DEF DeclineTeammateRequest, ConsentInv
    <2> QED
        BY <1>10, <2>2, <2>4, PartsKept, LessShown
        DEF DeclineTeammateRequest, Confirmed, ConsentInv
<1>11. ASSUME NEW d \in Device, NEW u \in User, RemoveTeammate(d, u)
       PROVE  ConsentInv'
    <2>1. Me(d) # u /\ Me(d) \in User
        BY <1>11, MeType DEF RemoveTeammate, Confirmed, TypeOK, OnlyOthers
    <2>2. asked' = asked
        BY <1>11 DEF RemoveTeammate
    <2> DEFINE s == RemoveWrites(Me(d), u)
    <2>a. s \in Seq(Writes)
        BY <2>1, BatchTypes
    <2>b. \A j \in DOMAIN s : s[j].op # "set"
        BY DEF RemoveWrites, RemoveValue
    <2>3. s \in Seq(Writes) /\ \A j \in DOMAIN s : s[j].op # "set"
        BY <2>a, <2>b
    <2>4. WritesBacked'
        BY <1>t, <1>11, <2>2, <2>3, CallBacked DEF RemoveTeammate, ConsentInv
    <2> QED
        BY <1>11, <2>2, <2>4, PartsKept, LessShown
        DEF RemoveTeammate, Confirmed, ConsentInv
<1>12. ASSUME NEW d \in Device, NEW u \in User, SendDirectMessage(d, u)
       PROVE  ConsentInv'
    <2>1. Me(d) # u /\ Me(d) \in User
        BY <1>12, MeType DEF SendDirectMessage, TypeOK, OnlyOthers
    <2>2. asked' = asked
        BY <1>12 DEF SendDirectMessage, history
    <2>3. BackedBy(asked, At("teammates", Me(d), u))
        BY <1>12 DEF SendDirectMessage, ConsentInv, CapturesBacked, Backed, Source
    <2> DEFINE s == << SetValue(At("directChats", Me(d), u), "message"),
                       SetValue(At("directChats", u, Me(d)), "message") >>
    <2>4. s \in Seq(Writes)
        BY <2>1, BatchTypes
    <2>5. \A j \in DOMAIN s : s[j].op = "set" => BackedBy(asked', s[j].entry)
        BY <2>2, <2>3, EdgeBacksChat DEF SetValue
    <2>6. WritesBacked'
        BY <1>t, <1>12, <2>2, <2>4, <2>5, CallBacked
        DEF SendDirectMessage, ConsentInv
    <2> QED
        BY <1>12, <2>2, <2>6, PartsKept DEF SendDirectMessage, client, ConsentInv
<1>13. ASSUME NEW d \in Device, Deliver(d) PROVE ConsentInv'
    <2>1. outbox[d] \in Seq(Writes) /\ outbox[d] # <<>>
        BY <1>t, <1>13 DEF Deliver
    <2>2. asked' = asked
        BY <1>13 DEF Deliver
    <2>3. ConsentedEntries'
        <3>1. Head(outbox[d]).op = "set" => BackedBy(asked, Head(outbox[d]).entry)
            BY <2>1, Delivered DEF ConsentInv, WritesBacked, Backed
        <3> QED BY <1>13, <2>2, <3>1, ApplyBacked DEF Deliver
    <2>4. WritesBacked'
        <3> SUFFICES ASSUME NEW e \in Device, NEW i \in DOMAIN outbox'[e],
                            outbox'[e][i].op = "set"
                     PROVE  BackedBy(asked, outbox'[e][i].entry)
            BY <2>2 DEF WritesBacked, Backed
        <3>1. CASE e # d
            <4>1. outbox'[e] = outbox[e]
                BY <1>t, <1>13, <3>1 DEF Deliver
            <4> QED BY <4>1 DEF ConsentInv, WritesBacked, Backed
        <3>2. CASE e = d
            <4>1. outbox'[d] = Tail(outbox[d])
                BY <1>t, <1>13 DEF Deliver
            <4>2. i + 1 \in DOMAIN outbox[d] /\ outbox'[e][i] = outbox[d][i + 1]
                BY <2>1, <3>2, <4>1, Delivered
            <4> QED BY <4>2 DEF ConsentInv, WritesBacked, Backed
        <3> QED BY <3>1, <3>2
    <2> QED
        BY <1>13, <2>2, <2>3, <2>4, PartsKept
        DEF Deliver, client, ConsentInv
<1>a. ASSUME NEW d \in Device, DeliverUnacked(d) PROVE ConsentInv'
    <2>1. asked' = asked
        BY <1>a DEF DeliverUnacked
    <2>2. NextWrite(d).op = "set" => BackedBy(asked, NextWrite(d).entry)
        BY <1>a, NextWriteQueued
        DEF DeliverUnacked, ConsentInv, WritesBacked, Backed
    <2>3. ConsentedEntries'
        BY <1>a, <2>1, <2>2, ApplyBacked DEF DeliverUnacked
    <2> QED
        BY <1>a, <2>1, <2>3, PartsKept DEF DeliverUnacked, client, ConsentInv
<1>b. ASSUME NEW d \in Device, Reconnect(d) PROVE ConsentInv'
    BY <1>b, PartsKept DEF Reconnect, client, history, ConsentInv
<1>14. ASSUME NEW d \in Device, Crash(d) PROVE ConsentInv'
    <2>1. asked' = asked /\ tree' = tree
        BY <1>14 DEF Crash
    <2>2. WritesBacked'
        BY <1>t, <1>14, <2>1 DEF Crash, ConsentInv, WritesBacked, Backed
    <2>3. ListsBacked'
        BY <1>14, <2>1
        DEF Crash, NothingShown, ConsentInv, ListsBacked, Backed, TypeOK
    <2> QED
        BY <1>14, <2>1, <2>2, <2>3, PartsKept, LessShown DEF Crash, ConsentInv
<1>15. CASE UNCHANGED vars
    BY <1>15, PartsKept DEF vars, client, history, ConsentInv
<1> QED
    BY <1>1, <1>2, <1>3, <1>4, <1>5, <1>6, <1>7, <1>8, <1>9, <1>10, <1>11,
       <1>12, <1>13, <1>a, <1>b, <1>14, <1>15 DEF Next

\* Nobody is in another's teammate list, and no chat exists, without one of
\* the two having asked the other: for any number of users and devices, with
\* any staleness of the lists, any order of the rounds and any kills.
THEOREM Consent == Spec => []ConsentedEntries
<1>1. TypeOK /\ ConsentInv => ConsentedEntries
    BY DEF ConsentInv
<1> QED BY <1>1, InitTypeOK, NextTypeOK, InitConsent, NextConsent, PTL DEF Spec
==============================================================================
