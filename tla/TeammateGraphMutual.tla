------------------------- MODULE TeammateGraphMutual -------------------------
(***************************************************************************)
(* The two sides of a friendship.  Their teammate lists agree once nothing *)
(* about the pair is queued, unless a batch was torn by a kill or crossed  *)
(* by another one; and the order of each device's queue keeps the removal  *)
(* of a request, and the first message, behind both edges.                 *)
(***************************************************************************)
EXTENDS TeammateGraphProofs

(* What a device sees through its queue *)

\* Without a queued write of e, a device sees what the server has.
LEMMA SeenUnqueued ==
    ASSUME NEW data, NEW q, NEW e, ~Queued(q, {e})
    PROVE  Seen(data, q, e) <=> e \in data
BY DEF Seen, Queued, Sets, Removes

\* When the queued writes of e all ask for the same, that is what is seen.
LEMMA SeenAgreed ==
    ASSUME NEW data, NEW q, NEW e, Queued(q, {e}), NEW k \in {"set", "remove"},
           \A i \in DOMAIN q : q[i].entry = e => q[i].op = k
    PROVE  Seen(data, q, e) <=> k = "set"
BY DEF Seen, Queued, Sets, Removes

\* A batch that does not write e changes nothing of what is seen of e.
LEMMA SeenOther ==
    ASSUME NEW data, NEW q \in Seq(Writes), NEW s \in Seq(Writes), NEW e,
           ~Queued(s, {e})
    PROVE  Seen(data, q \o s, e) <=> Seen(data, q, e)
<1> DEFINE r == q \o s
<1>1. r \in Seq(Writes) /\ Len(r) = Len(q) + Len(s)
    OBVIOUS
<1>2. \A i \in DOMAIN q : i \in DOMAIN r /\ r[i] = q[i]
    BY <1>1
<1>3. \A i \in DOMAIN r : i \in DOMAIN q \/ r[i].entry # e
    <2> SUFFICES ASSUME NEW i \in DOMAIN r, i \notin DOMAIN q
                 PROVE  r[i].entry # e
        OBVIOUS
    <2>1. \E j \in DOMAIN s : r[i] = s[j]
        BY Appended
    <2> QED BY <2>1 DEF Queued
<1> HIDE DEF r
<1>4. \A i \in DOMAIN r :
         Sets(r[i], e) \/ Removes(r[i], e) => i \in DOMAIN q /\ r[i] = q[i]
    BY <1>2, <1>3 DEF Sets, Removes
<1>5. Seen(data, r, e) <=> Seen(data, q, e)
    BY <1>2, <1>4 DEF Seen
<1> QED BY <1>5 DEF r

\* The server applies the head of a queue: its owner sees the same as before.
LEMMA SeenDelivered ==
    ASSUME NEW data, NEW q \in Seq(Writes), q # <<>>, NEW e
    PROVE  Seen(Applied(Head(q), data), Tail(q), e) <=> Seen(data, q, e)
<1> DEFINE t == Tail(q)
<1>1. /\ Head(q) = q[1] /\ 1 \in DOMAIN q
      /\ \A i \in DOMAIN t : i + 1 \in DOMAIN q /\ t[i] = q[i + 1]
      /\ \A i \in DOMAIN q : i # 1 => i - 1 \in DOMAIN t /\ t[i - 1] = q[i]
      /\ \A i \in DOMAIN t : i \in Nat /\ i # 0
      /\ \A i \in DOMAIN q : i \in Nat /\ (i # 1 <=> i > 1)
    OBVIOUS
<1>2. q[1] \in Writes
    BY <1>1
<1>3. q[1].op \in {"set", "remove"}
    BY <1>2 DEF Writes, Write
<1> HIDE DEF t
<1>4. e \in Applied(q[1], data) <=>
         Sets(q[1], e) \/ (e \in data /\ ~Removes(q[1], e))
    BY <1>3 DEF Applied, Sets, Removes
<1>5. (\E i \in DOMAIN t : /\ Sets(t[i], e)
                           /\ \A j \in DOMAIN t : j > i => ~Removes(t[j], e))
      <=> (\E i \in DOMAIN q : /\ i # 1 /\ Sets(q[i], e)
                               /\ \A j \in DOMAIN q : j > i => ~Removes(q[j], e))
    <2>1. ASSUME NEW i \in DOMAIN t, Sets(t[i], e),
                 \A j \in DOMAIN t : j > i => ~Removes(t[j], e)
          PROVE  \E k \in DOMAIN q : /\ k # 1 /\ Sets(q[k], e)
                    /\ \A j \in DOMAIN q : j > k => ~Removes(q[j], e)
        <3>1. i + 1 \in DOMAIN q /\ i + 1 # 1 /\ Sets(q[i + 1], e)
            BY <1>1, <2>1
        <3>2. ASSUME NEW j \in DOMAIN q, j > i + 1 PROVE ~Removes(q[j], e)
            <4>1. j - 1 \in DOMAIN t /\ t[j - 1] = q[j] /\ j - 1 > i
                BY <1>1, <3>2
            <4> QED BY <2>1, <4>1
        <3> QED BY <3>1, <3>2
    <2>2. ASSUME NEW k \in DOMAIN q, k # 1, Sets(q[k], e),
                 \A j \in DOMAIN q : j > k => ~Removes(q[j], e)
          PROVE  \E i \in DOMAIN t : /\ Sets(t[i], e)
                    /\ \A j \in DOMAIN t : j > i => ~Removes(t[j], e)
        <3>1. k - 1 \in DOMAIN t /\ Sets(t[k - 1], e)
            BY <1>1, <2>2
        <3>2. ASSUME NEW j \in DOMAIN t, j > k - 1 PROVE ~Removes(t[j], e)
            <4>1. j + 1 \in DOMAIN q /\ t[j] = q[j + 1] /\ j + 1 > k
                BY <1>1, <3>2
            <4> QED BY <2>2, <4>1
        <3> QED BY <3>1, <3>2
    <2> QED BY <2>1, <2>2
<1>6. (\A j \in DOMAIN t : ~Removes(t[j], e))
      <=> (\A j \in DOMAIN q : j # 1 => ~Removes(q[j], e))
    BY <1>1
<1>7. (\A j \in DOMAIN q : j # 1 => ~Removes(q[j], e))
      <=> (\A j \in DOMAIN q : j > 1 => ~Removes(q[j], e))
    BY <1>1
<1>8. ~(Sets(q[1], e) /\ Removes(q[1], e))
    BY DEF Sets, Removes
<1> QED BY <1>1, <1>4, <1>5, <1>6, <1>7, <1>8 DEF Seen, t

\* A batch whose writes of e all ask for the same decides what is seen of e.
LEMMA SeenBatch ==
    ASSUME NEW data, NEW q \in Seq(Writes), NEW s \in Seq(Writes), NEW e,
           NEW k \in {"set", "remove"}, Queued(s, {e}),
           \A j \in DOMAIN s : s[j].entry = e => s[j].op = k
    PROVE  Seen(data, q \o s, e) <=> k = "set"
<1> DEFINE r == q \o s
<1>1. /\ \A i \in DOMAIN r : i \in Nat
      /\ \A i \in DOMAIN r : i \notin DOMAIN q =>
            i - Len(q) \in DOMAIN s /\ r[i] = s[i - Len(q)]
      /\ \A j \in DOMAIN s : j + Len(q) \in DOMAIN r /\ r[j + Len(q)] = s[j]
      /\ \A i \in DOMAIN q : \A j \in DOMAIN s : i < j + Len(q)
      /\ \A i \in DOMAIN r : \A j \in DOMAIN s :
            i > j + Len(q) => i \notin DOMAIN q
    OBVIOUS
<1>2. PICK j \in DOMAIN s : s[j].entry = e /\ s[j].op = k
    BY DEF Queued
<1> HIDE DEF r
<1>3. \A i \in DOMAIN r : i \notin DOMAIN q /\ r[i].entry = e => r[i].op = k
    BY <1>1
<1>4. CASE k = "set"
    <2>1. Sets(r[j + Len(q)], e)
        BY <1>1, <1>2, <1>4 DEF Sets
    <2>2. \A i \in DOMAIN r : i > j + Len(q) => ~Removes(r[i], e)
        BY <1>1, <1>2, <1>3, <1>4 DEF Removes
    <2>3. Seen(data, r, e)
        BY <1>1, <1>2, <2>1, <2>2 DEF Seen
    <2> QED BY <1>4, <2>3 DEF r
<1>5. CASE k = "remove"
    <2>1. j + Len(q) \in DOMAIN r /\ Removes(r[j + Len(q)], e)
        BY <1>1, <1>2, <1>5 DEF Removes
    <2>2. \A i \in DOMAIN r : Sets(r[i], e) => j + Len(q) > i
        BY <1>1, <1>2, <1>3, <1>5 DEF Sets
    <2>3. ~Seen(data, r, e)
        BY <2>1, <2>2 DEF Seen
    <2> QED BY <1>5, <2>3 DEF r
<1> QED BY <1>4, <1>5

\* The server applies a queued write, which stays queued: its owner sees the
\* same as before.
LEMMA SeenKept ==
    ASSUME NEW data, NEW q, NEW i \in DOMAIN q, NEW e,
           q[i].op \in {"set", "remove"}
    PROVE  Seen(Applied(q[i], data), q, e) <=> Seen(data, q, e)
<1>1. CASE q[i].entry # e
    BY <1>1 DEF Seen, Applied
<1>2. CASE \E j \in DOMAIN q : Removes(q[j], e)
    BY <1>2 DEF Seen
<1>3. CASE Sets(q[i], e) /\ \A j \in DOMAIN q : ~Removes(q[j], e)
    BY <1>3 DEF Seen
<1>4. q[i].entry = e => Sets(q[i], e) \/ Removes(q[i], e)
    BY DEF Sets, Removes
<1> QED BY <1>1, <1>2, <1>3, <1>4

------------------------------------------------------------------------------
(* One pair *)

\* A pair has no order.
LEMMA PairSymmetric ==
    ASSUME NEW a, NEW b
    PROVE  /\ {a, b} = {b, a}
           /\ Edges(a, b) = Edges(b, a)
BY DEF Edges

\* Steps of the screens change neither queues nor database.
LEMMA QuietPair ==
    ASSUME NEW a, NEW b, PairInv(a, b),
           tree' = tree, outbox' = outbox, disturbed \subseteq disturbed'
    PROVE  PairInv(a, b)'
BY DEF PairInv, SameOps, WillAgree, Pending, Agree

\* Neither do, for this pair, batches that write none of its edges.
LEMMA OtherBatch ==
    ASSUME outbox \in [Device -> Seq(Writes)],
           NEW d \in Device, NEW s \in Seq(Writes), Call(d, s),
           NEW a, NEW b, PairInv(a, b), ~Queued(s, Edges(a, b)),
           tree' = tree, disturbed \subseteq disturbed'
    PROVE  PairInv(a, b)'
<1>1. outbox' = [outbox EXCEPT ![d] = outbox[d] \o s] /\ outbox[d] \in Seq(Writes)
    BY DEF Call
<1>2. \A e \in Device : \A i \in DOMAIN outbox'[e] :
         outbox'[e][i].entry \in Edges(a, b) =>
             i \in DOMAIN outbox[e] /\ outbox'[e][i] = outbox[e][i]
    BY <1>1, Appended DEF Queued
<1>3. \A e \in Device : \A i \in DOMAIN outbox[e] :
         i \in DOMAIN outbox'[e] /\ outbox'[e][i] = outbox[e][i]
    BY <1>1
<1>4. ASSUME NEW e \in Device, NEW x \in Edges(a, b)
      PROVE  Seen(tree', outbox'[e], x) <=> Seen(tree, outbox[e], x)
    <2>1. CASE e # d
        BY <1>1, <2>1
    <2>2. CASE e = d
        <3>1. ~Queued(s, {x})
            BY DEF Queued
        <3> QED BY <1>1, <2>2, <3>1, SeenOther
    <2> QED BY <2>1, <2>2
<1>5. At("teammates", a, b) \in Edges(a, b) /\ At("teammates", b, a) \in Edges(a, b)
    BY DEF Edges
<1>6. \A e \in Device : Pending(e, a, b)' <=> Pending(e, a, b)
    BY <1>2, <1>3 DEF Pending, Queued
<1>7. SameOps(a, b) => SameOps(a, b)'
    BY <1>2 DEF SameOps
<1>8. WillAgree(a, b) => WillAgree(a, b)'
    BY <1>4, <1>5, <1>6 DEF WillAgree
<1>9. Agree(a, b)' <=> Agree(a, b)
    BY DEF Agree
<1> QED BY <1>6, <1>7, <1>8, <1>9 DEF PairInv

\* A batch that sets, or removes, both edges of the pair: either it crosses
\* a queued one that says the opposite, and the pair is noted, or all agree.
LEMMA PairBatch ==
    ASSUME outbox \in [Device -> Seq(Writes)],
           NEW d \in Device, NEW u \in User, NEW k \in {"set", "remove"},
           NEW s \in Seq(Writes), Call(d, s), NoteCrossing(d, u, k),
           \A x \in Edges(Me(d), u) : Queued(s, {x}),
           \A j \in DOMAIN s : s[j].entry \in Edges(Me(d), u) => s[j].op = k,
           tree' = tree, PairInv(Me(d), u)
    PROVE  PairInv(Me(d), u)'
<1> DEFINE E == Edges(Me(d), u)
<1>1. outbox' = [outbox EXCEPT ![d] = outbox[d] \o s] /\ outbox[d] \in Seq(Writes)
    BY DEF Call
<1>2. disturbed \subseteq disturbed'
    BY DEF NoteCrossing
<1>3. CASE Crossed(d, Me(d), u, k) \/ {Me(d), u} \in disturbed
    BY <1>2, <1>3 DEF NoteCrossing, PairInv
<1>4. CASE ~Crossed(d, Me(d), u, k) /\ {Me(d), u} \notin disturbed
    <2>1. SameOps(Me(d), u) /\ WillAgree(Me(d), u)
        BY <1>4 DEF PairInv
    <2>2. \A e \in Device \ {d} : outbox'[e] = outbox[e]
        BY <1>1
    <2>3. \A e \in Device \ {d} : \A i \in DOMAIN outbox[e] :
             outbox[e][i].entry \in E => outbox[e][i].op = k
        BY <1>4 DEF Crossed
    <2>4. \A i \in DOMAIN outbox'[d] :
             outbox'[d][i].entry \in E =>
                 \/ outbox'[d][i].op = k
                 \/ i \in DOMAIN outbox[d] /\ outbox'[d][i] = outbox[d][i]
        BY <1>1, Appended
    <2>5. SameOps(Me(d), u)'
        <3> SUFFICES ASSUME NEW e \in Device, NEW f \in Device, e # f,
                            NEW i \in DOMAIN outbox'[e],
                            NEW j \in DOMAIN outbox'[f],
                            outbox'[e][i].entry \in E,
                            outbox'[f][j].entry \in E
                     PROVE  outbox'[e][i].op = outbox'[f][j].op
            BY DEF SameOps
        <3>1. CASE e # d /\ f # d
            BY <2>1, <2>2, <3>1 DEF SameOps
        <3>2. CASE e = d
            BY <2>1, <2>2, <2>3, <2>4, <3>2 DEF SameOps
        <3>3. CASE f = d
            BY <2>1, <2>2, <2>3, <2>4, <3>3 DEF SameOps
        <3> QED BY <3>1, <3>2, <3>3
    <2>6. \A x \in E : Seen(tree', outbox'[d], x) <=> k = "set"
        <3> SUFFICES ASSUME NEW x \in E
                     PROVE  Seen(tree, outbox[d] \o s, x) <=> k = "set"
            BY <1>1
        <3>1. Queued(s, {x}) /\ \A j \in DOMAIN s : s[j].entry = x => s[j].op = k
            OBVIOUS
        <3> DEFINE q == outbox[d]
        <3>2. q \in Seq(Writes)
            BY <1>1
        <3> HIDE DEF q
        <3>3. Seen(tree, q \o s, x) <=> k = "set"
            BY <3>1, <3>2, SeenBatch
        <3> QED BY <3>3 DEF q
    <2>7. At("teammates", Me(d), u) \in E /\ At("teammates", u, Me(d)) \in E
        BY DEF Edges
    <2>8. WillAgree(Me(d), u)'
        <3> SUFFICES ASSUME NEW e \in Device, Pending(e, Me(d), u)'
                     PROVE  Seen(tree', outbox'[e], At("teammates", Me(d), u))
                            <=> Seen(tree', outbox'[e], At("teammates", u, Me(d)))
            BY DEF WillAgree, Me
        <3>1. CASE e = d
            BY <2>6, <2>7, <3>1
        <3>2. CASE e # d
            BY <2>1, <2>2, <3>2 DEF WillAgree, Pending
        <3> QED BY <3>1, <3>2
    <2>9. Pending(d, Me(d), u)'
        <3>1. PICK j \in DOMAIN s : s[j].entry \in E
            BY <2>7 DEF Queued
        <3>2. j + Len(outbox[d]) \in DOMAIN outbox'[d]
              /\ outbox'[d][j + Len(outbox[d])] = s[j]
            BY <1>1
        <3> QED BY <3>1, <3>2 DEF Pending, Queued, Me
    <2> QED BY <2>5, <2>8, <2>9 DEF PairInv, Me
<1> QED BY <1>3, <1>4

\* What the server applies is what any other device with writes about the
\* pair queued already sees.
LEMMA OthersSee ==
    ASSUME NEW d \in Device, NEW n \in DOMAIN outbox[d],
           NEW w, w = outbox[d][n], w.op \in {"set", "remove"},
           tree' = Applied(w, tree), NEW a, NEW b,
           SameOps(a, b), WillAgree(a, b),
           NEW e \in Device, e # d, Pending(e, a, b), NEW x \in Edges(a, b)
    PROVE  Seen(tree', outbox[e], x) <=> Seen(tree, outbox[e], x)
<1> DEFINE ab == At("teammates", a, b)
           ba == At("teammates", b, a)
<1>0. Edges(a, b) = {ab, ba}
    BY DEF Edges
<1> HIDE DEF ab, ba
<1>1. CASE w.entry # x
    <2>1. x \in tree' <=> x \in tree
        BY <1>1 DEF Applied
    <2> QED BY <2>1 DEF Seen
<1>2. CASE w.entry = x
    <2>1. \A i \in DOMAIN outbox[e] :
             outbox[e][i].entry \in {ab, ba} => outbox[e][i].op = w.op
        BY <1>0, <1>2 DEF SameOps
    <2>2. PICK y \in {ab, ba} : Queued(outbox[e], {y})
        BY <1>0 DEF Pending, Queued
    <2>8. \A z \in {ab, ba} : \A data :
             Queued(outbox[e], {z}) =>
                 (Seen(data, outbox[e], z) <=> w.op = "set")
        <3> SUFFICES ASSUME NEW z \in {ab, ba}, NEW data,
                            Queued(outbox[e], {z})
                     PROVE  Seen(data, outbox[e], z) <=> w.op = "set"
            OBVIOUS
        <3>1. \A i \in DOMAIN outbox[e] :
                 outbox[e][i].entry = z => outbox[e][i].op = w.op
            BY <2>1
        <3> DEFINE k == w.op
                   q == outbox[e]
        <3>2. k \in {"set", "remove"} /\ Queued(q, {z})
            OBVIOUS
        <3>3. \A i \in DOMAIN q : q[i].entry = z => q[i].op = k
            BY <3>1
        <3> HIDE DEF k, q
        <3>4. Seen(data, q, z) <=> k = "set"
            BY <3>2, <3>3, SeenAgreed
        <3> QED BY <3>4 DEF k, q
    <2>3. Seen(tree, outbox[e], y) <=> w.op = "set"
        BY <2>2, <2>8
    <2>4. Seen(tree, outbox[e], ab) <=> Seen(tree, outbox[e], ba)
        BY DEF WillAgree, ab, ba
    <2>5. Seen(tree, outbox[e], x) <=> w.op = "set"
        BY <1>0, <2>3, <2>4
    <2>6. CASE Queued(outbox[e], {x})
        <3>1. Seen(tree', outbox[e], x) <=> w.op = "set"
            BY <1>0, <2>6, <2>8
        <3> QED BY <2>5, <3>1
    <2>7. CASE ~Queued(outbox[e], {x})
        <3>1. x \in tree' <=> w.op = "set"
            BY <1>2 DEF Applied
        <3> QED BY <2>5, <2>7, <3>1, SeenUnqueued
    <2> QED BY <2>6, <2>7
<1> QED BY <1>1, <1>2

\* The server applying one write: its owner sees the same as before, and any
\* other device with writes about the pair asked for the same.
LEMMA DeliverPair ==
    ASSUME outbox \in [Device -> Seq(Writes)],
           NEW d \in Device, Deliver(d), NEW a, NEW b, PairInv(a, b)
    PROVE  PairInv(a, b)'
<1> DEFINE w == Head(outbox[d])
           ab == At("teammates", a, b)
           ba == At("teammates", b, a)
<1>1. /\ outbox[d] \in Seq(Writes) /\ outbox[d] # <<>>
      /\ outbox' = [outbox EXCEPT ![d] = Tail(outbox[d])]
      /\ tree' = Applied(w, tree)
      /\ disturbed' = disturbed
    BY DEF Deliver, Apply
<1>2. w \in Writes /\ 1 \in DOMAIN outbox[d] /\ w = outbox[d][1]
    BY <1>1, Delivered
<1>3. w.op \in {"set", "remove"}
    BY <1>2 DEF Writes, Write
<1>4. \A e \in Device \ {d} : outbox'[e] = outbox[e]
    BY <1>1
<1>5. \A e \in Device : \A i \in DOMAIN outbox'[e] :
         \E j \in DOMAIN outbox[e] : outbox'[e][i] = outbox[e][j]
    BY <1>1, <1>4, Delivered
<1>6. Edges(a, b) = {ab, ba}
    BY DEF Edges
<1> HIDE DEF w, ab, ba
<1>7. CASE {a, b} \in disturbed
    BY <1>1, <1>7 DEF PairInv
<1>8. CASE {a, b} \notin disturbed
    <2>1. /\ SameOps(a, b) /\ WillAgree(a, b)
          /\ (\A e \in Device : ~Pending(e, a, b)) => Agree(a, b)
        BY <1>8 DEF PairInv
    <2>2. SameOps(a, b)'
        <3> SUFFICES ASSUME NEW e \in Device, NEW f \in Device, e # f,
                            NEW i \in DOMAIN outbox'[e],
                            NEW j \in DOMAIN outbox'[f],
                            outbox'[e][i].entry \in Edges(a, b),
                            outbox'[f][j].entry \in Edges(a, b)
                     PROVE  outbox'[e][i].op = outbox'[f][j].op
            BY DEF SameOps
        <3>1. PICK m \in DOMAIN outbox[e] : outbox'[e][i] = outbox[e][m]
            BY <1>5
        <3>2. PICK n \in DOMAIN outbox[f] : outbox'[f][j] = outbox[f][n]
            BY <1>5
        <3> QED BY <2>1, <3>1, <3>2 DEF SameOps
    <2>3. \A e \in Device : Pending(e, a, b)' => Pending(e, a, b)
        BY <1>5 DEF Pending, Queued
    <2>4. \A x : Seen(tree', outbox'[d], x) <=> Seen(tree, outbox[d], x)
        BY <1>1, SeenDelivered DEF w
    <2>5. ASSUME NEW e \in Device \ {d}, Pending(e, a, b), NEW x \in {ab, ba}
          PROVE  Seen(tree', outbox[e], x) <=> Seen(tree, outbox[e], x)
        BY <1>1, <1>2, <1>3, <1>6, <2>1, <2>5, OthersSee
    <2>6. WillAgree(a, b)'
        <3> SUFFICES ASSUME NEW e \in Device, Pending(e, a, b)'
                     PROVE  Seen(tree', outbox'[e], ab)
                            <=> Seen(tree', outbox'[e], ba)
            BY DEF WillAgree, ab, ba
        <3>1. Seen(tree, outbox[e], ab) <=> Seen(tree, outbox[e], ba)
            BY <2>1, <2>3 DEF WillAgree, ab, ba
        <3>2. CASE e = d
            BY <2>4, <3>1, <3>2
        <3>3. CASE e # d
            <4>1. outbox'[e] = outbox[e] /\ Pending(e, a, b)
                BY <1>4, <2>3, <3>3
            <4> QED BY <2>5, <3>1, <3>3, <4>1
        <3> QED BY <3>2, <3>3
    <2>7. ASSUME \A e \in Device : ~Pending(e, a, b)'
          PROVE  ab \in tree' <=> ba \in tree'
        <3>1. \A e \in Device \ {d} : ~Pending(e, a, b)
            BY <1>4, <2>7 DEF Pending
        <3>2. CASE Pending(d, a, b)
            <4>1. Seen(tree, outbox[d], ab) <=> Seen(tree, outbox[d], ba)
                BY <2>1, <3>2 DEF WillAgree, ab, ba
            <4>2. ~Queued(outbox'[d], {ab}) /\ ~Queued(outbox'[d], {ba})
                BY <1>6, <2>7 DEF Pending, Queued
            <4> QED BY <2>4, <4>1, <4>2, SeenUnqueued
        <3>3. CASE ~Pending(d, a, b)
            <4>1. w.entry \notin {ab, ba}
                BY <1>2, <1>6, <3>3 DEF Pending, Queued
            <4>2. ab \in tree <=> ba \in tree
                BY <2>1, <3>1, <3>3 DEF Agree, ab, ba
            <4> QED BY <1>1, <4>1, <4>2 DEF Applied
        <3> QED BY <3>2, <3>3
    <2> QED BY <2>2, <2>6, <2>7 DEF PairInv, Agree, ab, ba
<1> QED BY <1>7, <1>8

\* The same when the write stays queued because it was not acknowledged.
LEMMA UnackedPair ==
    ASSUME NEW d \in Device, NEW n \in DOMAIN outbox[d], NEW w,
           w = outbox[d][n], w.op \in {"set", "remove"},
           tree' = Applied(w, tree), outbox' = outbox, disturbed' = disturbed,
           NEW a, NEW b, PairInv(a, b)
    PROVE  PairInv(a, b)'
<1>1. CASE {a, b} \in disturbed
    BY <1>1 DEF PairInv
<1>2. CASE {a, b} \notin disturbed
    <2>1. /\ SameOps(a, b) /\ WillAgree(a, b)
          /\ (\A e \in Device : ~Pending(e, a, b)) => Agree(a, b)
        BY <1>2 DEF PairInv
    <2>2. SameOps(a, b)' /\ \A e \in Device : Pending(e, a, b)' <=> Pending(e, a, b)
        BY <2>1 DEF SameOps, Pending
    <2>3. /\ At("teammates", a, b) \in Edges(a, b)
          /\ At("teammates", b, a) \in Edges(a, b)
        BY DEF Edges
    <2>4. ASSUME NEW e \in Device, Pending(e, a, b), NEW x \in Edges(a, b)
          PROVE  Seen(tree', outbox[e], x) <=> Seen(tree, outbox[e], x)
        <3>1. CASE e = d
            <4> DEFINE q == outbox[d]
            <4>1. n \in DOMAIN q /\ w = q[n]
                OBVIOUS
            <4> HIDE DEF q
            <4>2. Seen(Applied(w, tree), q, x) <=> Seen(tree, q, x)
                BY <4>1, SeenKept
            <4> QED BY <3>1, <4>2 DEF q
        <3>2. CASE e # d
            BY <2>1, <2>4, <3>2, OthersSee
        <3> QED BY <3>1, <3>2
    <2>5. WillAgree(a, b)'
        <3> SUFFICES ASSUME NEW e \in Device, Pending(e, a, b)'
                     PROVE  Seen(tree', outbox'[e], At("teammates", a, b))
                            <=> Seen(tree', outbox'[e], At("teammates", b, a))
            BY DEF WillAgree
        <3>1. Pending(e, a, b)
            BY <2>2
        <3> QED BY <2>1, <2>3, <2>4, <3>1 DEF WillAgree
    <2>6. ASSUME \A e \in Device : ~Pending(e, a, b)
          PROVE  Agree(a, b)'
        <3>1. w.entry \notin Edges(a, b)
            BY <2>6 DEF Pending, Queued
        <3> QED BY <2>1, <2>3, <2>6, <3>1 DEF Agree, Applied
    <2> QED BY <2>2, <2>5, <2>6 DEF PairInv
<1> QED BY <1>1, <1>2

\* A kill that loses a write about the pair disturbs the pair.
LEMMA CrashPair ==
    ASSUME outbox \in [Device -> Seq(Writes)],
           NEW d \in Device, Crash(d), NEW a, NEW b, PairInv(a, b)
    PROVE  PairInv(a, b)'
<1>1. /\ outbox' = [outbox EXCEPT ![d] = <<>>]
      /\ tree' = tree
      /\ disturbed' = disturbed \cup QueuedPairs(d)
    BY DEF Crash
<1>2. CASE {a, b} \in disturbed
    BY <1>1, <1>2 DEF PairInv
<1>3. CASE Pending(d, a, b)
    <2>1. PICK i \in DOMAIN outbox[d] : outbox[d][i].entry \in Edges(a, b)
        BY <1>3 DEF Pending, Queued
    <2>2. /\ outbox[d][i].entry.node = "teammates"
          /\ {outbox[d][i].entry.owner, outbox[d][i].entry.peer} = {a, b}
        BY <2>1 DEF Edges, At
    <2>3. {a, b} \in QueuedPairs(d)
        BY <2>2 DEF QueuedPairs
    <2> QED BY <1>1, <2>3 DEF PairInv
<1>4. CASE {a, b} \notin disturbed /\ ~Pending(d, a, b)
    <2>1. \A e \in Device \ {d} : outbox'[e] = outbox[e]
        BY <1>1
    <2>2. ~Pending(d, a, b)' /\ DOMAIN outbox'[d] = {}
        BY <1>1 DEF Pending, Queued
    <2>3. \A e \in Device : Pending(e, a, b)' <=> Pending(e, a, b)
        BY <1>4, <2>1, <2>2 DEF Pending
    <2>4. SameOps(a, b)'
        BY <1>4, <2>1, <2>2 DEF PairInv, SameOps
    <2>5. WillAgree(a, b)'
        BY <1>1, <1>4, <2>1, <2>2, <2>3 DEF PairInv, WillAgree
    <2>6. (\A e \in Device : ~Pending(e, a, b)') => Agree(a, b)'
        BY <1>1, <1>4, <2>3 DEF PairInv, Agree
    <2> QED BY <2>4, <2>5, <2>6 DEF PairInv
<1> QED BY <1>2, <1>3, <1>4

------------------------------------------------------------------------------
(* All pairs *)

\* Before the run nothing is queued, and friendships have both their edges.
LEMMA InitMutual == Init => MutualInv
<1> SUFFICES ASSUME Init, NEW a \in User, NEW b \in User, a # b
             PROVE  PairInv(a, b)
    BY DEF MutualInv
<1>1. \A d \in Device : outbox[d] = <<>>
    BY DEF Init
<1>2. SameOps(a, b) /\ WillAgree(a, b)
    BY <1>1 DEF SameOps, WillAgree, Pending, Queued
<1>3. \A x, y \in User :
         At("teammates", x, y) \in tree
            <=> \E p \in Past : At("teammates", x, y) \in Edges(p[1], p[2])
    BY DEF Init, At
<1>4. \A x, y \in User : \A p \in Past :
         At("teammates", x, y) \in Edges(p[1], p[2])
            => At("teammates", y, x) \in Edges(p[1], p[2])
    BY DEF Edges, At
<1>5. Agree(a, b)
    BY <1>3, <1>4 DEF Agree
<1> QED BY <1>2, <1>5 DEF PairInv

\* A batch about d's user and u writes edges of no other pair.
LEMMA OtherPair ==
    ASSUME NEW m, NEW u, NEW a, NEW b, {a, b} # {m, u}
    PROVE  /\ ~Queued(AcceptWrites(m, u), Edges(a, b))
           /\ ~Queued(RemoveWrites(m, u), Edges(a, b))
<1>1. \A x \in Edges(a, b) :
         x # At("teammates", m, u) /\ x # At("teammates", u, m)
    BY DEF Edges, At
<1>2. \A x \in Edges(a, b) : \A n \in {"teammateRequests", "directChats"} :
         x # At(n, m, u) /\ x # At(n, u, m)
    BY DEF Edges, At
<1>3. ~Queued(AcceptWrites(m, u), Edges(a, b))
    BY <1>1, <1>2 DEF Queued, AcceptWrites, SetValue, RemoveValue
<1>4. ~Queued(RemoveWrites(m, u), Edges(a, b))
    BY <1>1, <1>2 DEF Queued, RemoveWrites, SetValue, RemoveValue
<1> QED BY <1>3, <1>4

\* Accepting sets both edges, removing removes both.
LEMMA WholePair ==
    ASSUME NEW m, NEW u
    PROVE  /\ \A x \in Edges(m, u) :
                 Queued(AcceptWrites(m, u), {x}) /\ Queued(RemoveWrites(m, u), {x})
           /\ \A j \in DOMAIN AcceptWrites(m, u) :
                 AcceptWrites(m, u)[j].entry \in Edges(m, u)
                    => AcceptWrites(m, u)[j].op = "set"
           /\ \A j \in DOMAIN RemoveWrites(m, u) :
                 RemoveWrites(m, u)[j].entry \in Edges(m, u)
                    => RemoveWrites(m, u)[j].op = "remove"
<1>1. \A x \in Edges(m, u) : Queued(AcceptWrites(m, u), {x})
    <2>1. /\ 1 \in DOMAIN AcceptWrites(m, u) /\ 2 \in DOMAIN AcceptWrites(m, u)
          /\ AcceptWrites(m, u)[1].entry = At("teammates", m, u)
          /\ AcceptWrites(m, u)[2].entry = At("teammates", u, m)
        BY DEF AcceptWrites, SetValue
    <2> QED BY <2>1 DEF Queued, Edges
<1>2. \A x \in Edges(m, u) : Queued(RemoveWrites(m, u), {x})
    <2>1. /\ 1 \in DOMAIN RemoveWrites(m, u) /\ 2 \in DOMAIN RemoveWrites(m, u)
          /\ RemoveWrites(m, u)[1].entry = At("teammates", m, u)
          /\ RemoveWrites(m, u)[2].entry = At("teammates", u, m)
        BY DEF RemoveWrites, RemoveValue
    <2> QED BY <2>1 DEF Queued, Edges
<1>3. \A j \in DOMAIN AcceptWrites(m, u) :
         AcceptWrites(m, u)[j].entry \in Edges(m, u)
            => AcceptWrites(m, u)[j].op = "set"
    BY DEF AcceptWrites, SetValue, RemoveValue, Edges, At
<1>4. \A j \in DOMAIN RemoveWrites(m, u) : RemoveWrites(m, u)[j].op = "remove"
    BY DEF RemoveWrites, RemoveValue
<1> QED BY <1>1, <1>2, <1>3, <1>4

\* Every step keeps the invariant of every pair.
LEMMA NextMutual == TypeOK /\ MutualInv /\ [Next]_vars => MutualInv'
<1> SUFFICES ASSUME TypeOK, MutualInv, [Next]_vars,
                    NEW a \in User, NEW b \in User, a # b
             PROVE  PairInv(a, b)'
    BY DEF MutualInv
<1>i. PairInv(a, b) /\ \A x, y \in User : x # y => PairInv(x, y)
    BY DEF MutualInv
<1>t. outbox \in [Device -> Seq(Writes)]
    BY DEF TypeOK, Writes
<1>m. \A d \in Device : Me(d) \in User
    BY MeType
<1>1. ASSUME NEW d \in Device,
             \/ FetchPlayers(d)
             \/ \E t \in User :
                   RequestPlayerToTeamUp(d, t) \/ FindAlreadyRequested(d, t)
             \/ \E n \in List : ObserveEmpty(d, n) \/ Observe(d, n)
             \/ \E r \in rounds[d] : FinishRound(d, r)
             \/ \E c \in Capture : Open(d, c)
             \/ Close(d)
      PROVE  PairInv(a, b)'
    <2>1. tree' = tree /\ outbox' = outbox /\ disturbed' = disturbed
        BY <1>1
        DEF FetchPlayers, ListPlayers, RequestPlayerToTeamUp, FindAlreadyRequested,
            ObserveEmpty, Observe, Report, FinishRound, Open, Close, history
    <2> QED BY <1>i, <2>1, QuietPair
<1>2. ASSUME NEW d \in Device, NEW t \in User, SendRequest(d, t)
      PROVE  PairInv(a, b)'
    <2> DEFINE s == RequestWrites(Me(d), t)
    <2>1. s \in Seq(Writes)
        BY <1>2, <1>m, BatchTypes DEF SendRequest, TypeOK, OnlyOthers
    <2>2. ~Queued(s, Edges(a, b))
        BY DEF RequestWrites, SetValue, Queued, Edges, At
    <2>3. Call(d, s) /\ tree' = tree /\ disturbed' = disturbed
        BY <1>2 DEF SendRequest
    <2> HIDE DEF s
    <2> QED BY <1>i, <1>t, <2>1, <2>2, <2>3, OtherBatch
<1>3. ASSUME NEW d \in Device, NEW u \in User, DeclineTeammateRequest(d, u)
      PROVE  PairInv(a, b)'
    <2> DEFINE s == <<RemoveValue(At("teammateRequests", Me(d), u), "decline")>>
    <2>1. s \in Seq(Writes)
        BY <1>3, <1>m, BatchTypes
        DEF DeclineTeammateRequest, Confirmed, TypeOK, OnlyOthers
    <2>2. ~Queued(s, Edges(a, b))
        BY DEF RemoveValue, Queued, Edges, At
    <2>3. Call(d, s) /\ tree' = tree /\ disturbed' = disturbed
        BY <1>3 DEF DeclineTeammateRequest, history
    <2> HIDE DEF s
    <2> QED BY <1>i, <1>t, <2>1, <2>2, <2>3, OtherBatch
<1>4. ASSUME NEW d \in Device, NEW u \in User, SendDirectMessage(d, u)
      PROVE  PairInv(a, b)'
    <2> DEFINE s == << SetValue(At("directChats", Me(d), u), "message"),
                       SetValue(At("directChats", u, Me(d)), "message") >>
    <2>1. s \in Seq(Writes)
        BY <1>4, <1>m, BatchTypes DEF SendDirectMessage, TypeOK, OnlyOthers
    <2>2. ~Queued(s, Edges(a, b))
        BY DEF SetValue, Queued, Edges, At
    <2>3. Call(d, s) /\ tree' = tree /\ disturbed' = disturbed
        BY <1>4 DEF SendDirectMessage, history
    <2> HIDE DEF s
    <2> QED BY <1>i, <1>t, <2>1, <2>2, <2>3, OtherBatch
<1>5. ASSUME NEW d \in Device, NEW u \in User, NEW s \in Seq(Writes),
             NEW k \in {"set", "remove"}, Call(d, s), NoteCrossing(d, u, k),
             tree' = tree, Me(d) # u,
             \A x \in Edges(Me(d), u) : Queued(s, {x}),
             \A j \in DOMAIN s : s[j].entry \in Edges(Me(d), u) => s[j].op = k,
             {a, b} # {Me(d), u} => ~Queued(s, Edges(a, b))
      PROVE  PairInv(a, b)'
    <2>1. CASE {a, b} = {Me(d), u}
        <3>1. PairInv(Me(d), u)
            BY <1>5, <1>i, <1>m
        <3>2. PairInv(Me(d), u)'
            BY <1>5, <1>t, <3>1, PairBatch
        <3>3. (a = Me(d) /\ b = u) \/ (a = u /\ b = Me(d))
            BY <2>1
        <3>4. {a, b} = {b, a} /\ Edges(a, b) = Edges(b, a)
            BY PairSymmetric
        <3>5. PairInv(b, a)' => PairInv(a, b)'
            <4>1. SameOps(b, a)' => SameOps(a, b)'
                BY <3>4 DEF SameOps
            <4>2. \A e \in Device : Pending(e, a, b)' <=> Pending(e, b, a)'
                BY <3>4 DEF Pending
            <4>3. WillAgree(b, a)' => WillAgree(a, b)'
                BY <4>2 DEF WillAgree
            <4>4. Agree(b, a)' <=> Agree(a, b)'
                BY DEF Agree
            <4> QED BY <3>4, <4>1, <4>2, <4>3, <4>4 DEF PairInv
        <3>6. CASE a = Me(d) /\ b = u
            BY <3>2, <3>6 DEF Me
        <3>7. CASE a = u /\ b = Me(d)
            BY <3>2, <3>5, <3>7 DEF Me
        <3> QED BY <3>3, <3>6, <3>7
    <2>2. CASE {a, b} # {Me(d), u}
        <3>1. disturbed \subseteq disturbed'
            BY <1>5 DEF NoteCrossing
        <3> QED BY <1>5, <1>i, <1>t, <2>2, <3>1, OtherBatch
    <2> QED BY <2>1, <2>2
<1>6. ASSUME NEW d \in Device, NEW u \in User, AcceptTeammateRequest(d, u)
      PROVE  PairInv(a, b)'
    <2> DEFINE s == AcceptWrites(Me(d), u)
    <2>1. Me(d) # u
        BY <1>6 DEF AcceptTeammateRequest, Confirmed, TypeOK, OnlyOthers
    <2>2. s \in Seq(Writes)
        BY <1>m, <2>1, BatchTypes
    <2>3. Call(d, s) /\ tree' = tree /\ NoteCrossing(d, u, "set")
        BY <1>6 DEF AcceptTeammateRequest
    <2>4. /\ \A x \in Edges(Me(d), u) : Queued(s, {x})
          /\ \A j \in DOMAIN s : s[j].entry \in Edges(Me(d), u) => s[j].op = "set"
          /\ {a, b} # {Me(d), u} => ~Queued(s, Edges(a, b))
        BY WholePair, OtherPair
    <2> HIDE DEF s
    <2> QED BY <1>5, <2>1, <2>2, <2>3, <2>4
<1>7. ASSUME NEW d \in Device, NEW u \in User, RemoveTeammate(d, u)
      PROVE  PairInv(a, b)'
    <2> DEFINE s == RemoveWrites(Me(d), u)
    <2>1. Me(d) # u
        BY <1>7 DEF RemoveTeammate, Confirmed, TypeOK, OnlyOthers
    <2>2. s \in Seq(Writes)
        BY <1>m, <2>1, BatchTypes
    <2>3. Call(d, s) /\ tree' = tree /\ NoteCrossing(d, u, "remove")
        BY <1>7 DEF RemoveTeammate
    <2>4. /\ \A x \in Edges(Me(d), u) : Queued(s, {x})
          /\ \A j \in DOMAIN s : s[j].entry \in Edges(Me(d), u) => s[j].op = "remove"
          /\ {a, b} # {Me(d), u} => ~Queued(s, Edges(a, b))
        BY WholePair, OtherPair
    <2> HIDE DEF s
    <2> QED BY <1>5, <2>1, <2>2, <2>3, <2>4
<1>8. ASSUME NEW d \in Device, Deliver(d) PROVE PairInv(a, b)'
    BY <1>8, <1>i, <1>t, DeliverPair
<1>9. ASSUME NEW d \in Device, DeliverUnacked(d) PROVE PairInv(a, b)'
    <2> DEFINE n == unacked[d] + 1
    <2>1. n \in DOMAIN outbox[d] /\ outbox[d][n] \in Writes
        BY <1>9, <1>t, NextWriteQueued DEF DeliverUnacked, NextWrite
    <2>2. outbox[d][n].op \in {"set", "remove"}
        BY <2>1 DEF Writes, Write
    <2>3. /\ tree' = Applied(outbox[d][n], tree)
          /\ outbox' = outbox /\ disturbed' = disturbed
        BY <1>9 DEF DeliverUnacked, Apply, NextWrite
    <2> HIDE DEF n
    <2> QED BY <1>i, <2>1, <2>2, <2>3, UnackedPair
<1>10. ASSUME NEW d \in Device, Reconnect(d) PROVE PairInv(a, b)'
    <2>1. tree' = tree /\ outbox' = outbox /\ disturbed' = disturbed
        BY <1>10 DEF Reconnect, history
    <2> QED BY <1>i, <2>1, QuietPair
<1>11. ASSUME NEW d \in Device, Crash(d) PROVE PairInv(a, b)'
    BY <1>11, <1>i, <1>t, CrashPair
<1>12. CASE UNCHANGED vars
    BY <1>12, <1>i, QuietPair DEF vars, history
<1> QED
    BY <1>1, <1>2, <1>3, <1>4, <1>6, <1>7, <1>8, <1>9, <1>10, <1>11, <1>12
    DEF Next

\* The separate writes of acceptTeammateRequest and removeTeammate leave the
\* two lists of a pair agreeing, for any number of users and devices, except
\* for a kill with a write of the pair queued or an accept and a removal of the
\* pair queued on two devices at once.
THEOREM Mutual == Spec => []SettledMutual
<1>1. MutualInv => SettledMutual
    <2> SUFFICES ASSUME MutualInv, NEW a \in User, NEW b \in User
                 PROVE  \/ {a, b} \in disturbed
                        \/ \E d \in Device : Pending(d, a, b)
                        \/ Agree(a, b)
        BY DEF SettledMutual
    <2>1. CASE a = b
        BY <2>1 DEF Agree
    <2>2. CASE a # b
        BY <2>2 DEF MutualInv, PairInv
    <2> QED BY <2>1, <2>2
<1> QED
    BY <1>1, InitTypeOK, NextTypeOK, InitMutual, NextMutual, PTL DEF Spec

------------------------------------------------------------------------------
(* On the way to a friendship *)

\* acceptTeammateRequest writes the own edge first and the other's next.
OwnEdgeSet(d, i, u) == Sets(outbox[d][i], At("teammates", Me(d), u))
OtherEdgeSet(d, i, u) == Sets(outbox[d][i], At("teammates", u, Me(d)))

Noted(a, b) == {a, b} \in formed \cup disturbed

\* By the time the server is at position n of d's queue, the pair will be
\* formed: it is already, or the second edge is still ahead of n.
Forming(d, u, n) ==
    \/ Noted(Me(d), u)
    \/ \E j \in DOMAIN outbox[d] :
          unacked[d] < j /\ j < n /\ OtherEdgeSet(d, j, u)

Others(d) == User \ {Me(d)}

UnackedQueued == \A d \in Device : unacked[d] <= Len(outbox[d])

\* A device sets no edges but those of its own user, ...
OwnPairs ==
    \A d \in Device : \A i \in DOMAIN outbox[d] :
        outbox[d][i].op = "set" /\ outbox[d][i].entry.node = "teammates" =>
            \E u \in Others(d) : OwnEdgeSet(d, i, u) \/ OtherEdgeSet(d, i, u)

\* ... and sets both, one right after the other.
EdgesTogether ==
    \A d \in Device : \A i \in DOMAIN outbox[d] : \A u \in Others(d) :
        /\ OwnEdgeSet(d, i, u) =>
              i + 1 \in DOMAIN outbox[d] /\ OtherEdgeSet(d, i + 1, u)
        /\ OtherEdgeSet(d, i, u) /\ ~Noted(Me(d), u) =>
              /\ unacked[d] < i
              /\ i # 1 => OwnEdgeSet(d, i - 1, u)
              /\ i = unacked[d] + 1 => At("teammates", Me(d), u) \in tree

\* A queued removal of a request is a refusal, or comes after both edges.
RequestRemovals ==
    \A d \in Device : \A i \in DOMAIN outbox[d] :
        /\ outbox[d][i].op = "remove"
        /\ outbox[d][i].entry.node = "teammateRequests"
        => \E u \in Others(d) :
              /\ outbox[d][i].entry \in {At("teammateRequests", Me(d), u),
                                         At("teammateRequests", u, Me(d))}
              /\ \/ outbox[d][i].by = "decline"
                 \/ Forming(d, u, i)

QueueInv == UnackedQueued /\ OwnPairs /\ EdgesTogether /\ RequestRemovals

\* Everything that leads to a chat follows both edges, or the queue that has
\* the second of them.
OneDevice == \A d, e \in Device : Me(d) = Me(e) => d = e

WillForm(d, u) == Forming(d, u, Len(outbox[d]) + 1)

ChatWrites ==
    \A d \in Device : \A i \in DOMAIN outbox[d] :
        /\ outbox[d][i].op = "set"
        /\ outbox[d][i].entry.node = "directChats"
        => \E u \in Others(d) :
              /\ outbox[d][i].entry \in {At("directChats", Me(d), u),
                                         At("directChats", u, Me(d))}
              /\ Forming(d, u, i)

EdgesForming ==
    \A a, b \in User :
        At("teammates", a, b) \in tree =>
            \/ Noted(a, b)
            \/ \E d \in Device : Me(d) = a /\ WillForm(d, b)

\* The users a device holds for teammates.
Held(d) ==
    {u \in User :
        \/ u \in shown[d]["teammates"]
        \/ \E r \in rounds[d] : r.node = "teammates" /\ u \in r.users
        \/ \E c \in captured[d] : Source(c.kind) = "teammates" /\ c.user = u}

ListsForming == \A d \in Device : \A u \in Held(d) : WillForm(d, u)

ChatInv == ChatWrites /\ EdgesForming /\ ListsForming /\ ChatsOfFormedPairs

\* Nothing noted is forgotten.
LEMMA NotedKept ==
    ASSUME formed \subseteq formed', disturbed \subseteq disturbed'
    PROVE  \A a, b : Noted(a, b) => Noted(a, b)'
BY DEF Noted

\* Steps that leave queues and database alone.
LEMMA QuietQueue ==
    ASSUME QueueInv, tree' = tree, outbox' = outbox, unacked' = unacked,
           formed \subseteq formed', disturbed \subseteq disturbed'
    PROVE  /\ QueueInv'
           /\ \A d \in Device : \A u, n : Forming(d, u, n) => Forming(d, u, n)'
           /\ \A d \in Device : \A u : WillForm(d, u) => WillForm(d, u)'
<1>1. \A a, b : Noted(a, b) => Noted(a, b)'
    BY NotedKept
<1>2. \A d \in Device : \A i, u :
         /\ OwnEdgeSet(d, i, u)' <=> OwnEdgeSet(d, i, u)
         /\ OtherEdgeSet(d, i, u)' <=> OtherEdgeSet(d, i, u)
    BY DEF OwnEdgeSet, OtherEdgeSet, Me
<1>3. \A d \in Device : \A u, n : Forming(d, u, n) => Forming(d, u, n)'
    BY <1>1, <1>2 DEF Forming, Me
<1>4. UnackedQueued'
    BY DEF QueueInv, UnackedQueued
<1>5. OwnPairs'
    BY <1>2 DEF QueueInv, OwnPairs, Others, Me
<1>6. EdgesTogether'
    BY <1>1, <1>2 DEF QueueInv, EdgesTogether, Others, Me
<1>7. RequestRemovals'
    BY <1>3 DEF QueueInv, RequestRemovals, Others, Me
<1> QED BY <1>3, <1>4, <1>5, <1>6, <1>7 DEF QueueInv, WillForm

\* Where the writes of a queue and of a batch are once it is appended.
LEMMA Positions ==
    ASSUME NEW S, NEW q \in Seq(S), NEW s \in Seq(S)
    PROVE  /\ Len(q \o s) = Len(q) + Len(s)
           /\ \A i \in DOMAIN q : i \in DOMAIN (q \o s) /\ (q \o s)[i] = q[i]
           /\ \A j \in DOMAIN s :
                 /\ Len(q) + j \in DOMAIN (q \o s)
                 /\ (q \o s)[Len(q) + j] = s[j]
           /\ \A i \in DOMAIN (q \o s) : i \notin DOMAIN q =>
                 \E j \in DOMAIN s : i = Len(q) + j
<1>1. ASSUME NEW i \in DOMAIN (q \o s), i \notin DOMAIN q
      PROVE  \E j \in DOMAIN s : i = Len(q) + j
    <2>1. i - Len(q) \in DOMAIN s /\ i = Len(q) + (i - Len(q))
        BY <1>1
    <2> QED BY <2>1
<1> QED BY <1>1

\* What a batch of d must be like to keep the order of the queue.
PairsSet(d, s) ==
    /\ \A j \in DOMAIN s :
          s[j].op = "set" /\ s[j].entry.node = "teammates" =>
              \E u \in Others(d) : \/ Sets(s[j], At("teammates", Me(d), u))
                                   \/ Sets(s[j], At("teammates", u, Me(d)))
    /\ \A j \in DOMAIN s : \A u \in Others(d) :
          /\ Sets(s[j], At("teammates", Me(d), u)) =>
                /\ j + 1 \in DOMAIN s
                /\ Sets(s[j + 1], At("teammates", u, Me(d)))
          /\ Sets(s[j], At("teammates", u, Me(d))) =>
                /\ j - 1 \in DOMAIN s
                /\ Sets(s[j - 1], At("teammates", Me(d), u))

RemovalsFollow(d, s) ==
    \A j \in DOMAIN s :
        s[j].op = "remove" /\ s[j].entry.node = "teammateRequests" =>
            \E u \in Others(d) :
                /\ s[j].entry \in {At("teammateRequests", Me(d), u),
                                   At("teammateRequests", u, Me(d))}
                /\ \/ s[j].by = "decline"
                   \/ \E k \in DOMAIN s :
                         k < j /\ Sets(s[k], At("teammates", u, Me(d)))

LEMMA BatchQueue ==
    ASSUME QueueInv,
           outbox \in [Device -> Seq(Writes)], unacked \in [Device -> Nat],
           NEW d \in Device, NEW s \in Seq(Writes), Call(d, s),
           PairsSet(d, s), RemovalsFollow(d, s),
           tree' = tree, unacked' = unacked,
           formed \subseteq formed', disturbed \subseteq disturbed'
    PROVE  /\ QueueInv'
           /\ \A e \in Device : \A u, n : Forming(e, u, n) => Forming(e, u, n)'
           /\ \A e \in Device : \A u : WillForm(e, u) => WillForm(e, u)'
<1> DEFINE q == outbox[d]
<1>0. PICK L \in Nat : L = Len(q)
    OBVIOUS
<1>1. /\ outbox' = [outbox EXCEPT ![d] = q \o s]
      /\ q \in Seq(Writes) /\ L \in Nat
    BY DEF Call
<1>2. outbox'[d] = q \o s /\ \A e \in Device : e # d => outbox'[e] = outbox[e]
    BY <1>1
<1> DEFINE r == q \o s
<1>r. /\ Len(r) = Len(q) + Len(s) /\ Len(s) \in Nat
      /\ \A i \in DOMAIN q : i \in DOMAIN r /\ r[i] = q[i]
      /\ \A j \in DOMAIN s : Len(q) + j \in DOMAIN r /\ r[Len(q) + j] = s[j]
      /\ \A i \in DOMAIN r : i \notin DOMAIN q =>
            \E j \in DOMAIN s : i = Len(q) + j
    <2>1. Len(s) \in Nat
        OBVIOUS
    <2> QED BY <1>1, <2>1, Positions
<1> HIDE DEF r
<1>3. /\ Len(outbox'[d]) = L + Len(s) /\ Len(s) \in Nat
      /\ \A i \in DOMAIN q : i \in DOMAIN outbox'[d] /\ outbox'[d][i] = q[i]
      /\ \A j \in DOMAIN s :
            L + j \in DOMAIN outbox'[d] /\ outbox'[d][L + j] = s[j]
      /\ \A i \in DOMAIN outbox'[d] : i \notin DOMAIN q =>
            \E j \in DOMAIN s : i = L + j
    BY <1>0, <1>2, <1>r DEF r
<1>4. /\ \A i \in DOMAIN q : i \in Nat /\ 1 <= i /\ i <= L
      /\ \A j \in DOMAIN s : j \in Nat /\ 1 <= j
      /\ \A i \in Nat : 1 <= i /\ i <= L => i \in DOMAIN q
    BY <1>0, <1>1
<1> HIDE DEF q
<1>5. \A e \in Device : \A i \in DOMAIN outbox[e] :
         i \in DOMAIN outbox'[e] /\ outbox'[e][i] = outbox[e][i]
    BY <1>2, <1>3 DEF q
<1>6. \A e \in Device : \A i \in DOMAIN outbox[e] : \A u :
         /\ OwnEdgeSet(e, i, u)' <=> OwnEdgeSet(e, i, u)
         /\ OtherEdgeSet(e, i, u)' <=> OtherEdgeSet(e, i, u)
    BY <1>5 DEF OwnEdgeSet, OtherEdgeSet, Me
<1>7. \A j \in DOMAIN s : \A u :
         /\ OwnEdgeSet(d, L + j, u)' <=> Sets(s[j], At("teammates", Me(d), u))
         /\ OtherEdgeSet(d, L + j, u)' <=> Sets(s[j], At("teammates", u, Me(d)))
    BY <1>3 DEF OwnEdgeSet, OtherEdgeSet, Me
<1>8. \A a, b : Noted(a, b) => Noted(a, b)'
    BY NotedKept
<1>9. \A e \in Device : \A u, n : Forming(e, u, n) => Forming(e, u, n)'
    BY <1>5, <1>6, <1>8 DEF Forming, Me
<1>10. \A e \in Device : Len(outbox'[e]) \in Nat /\ Len(outbox[e]) \in Nat
                         /\ Len(outbox[e]) <= Len(outbox'[e])
    BY <1>0, <1>1, <1>2, <1>3 DEF q
<1>11. ASSUME NEW e \in Device, NEW u, WillForm(e, u) PROVE WillForm(e, u)'
    <2>1. CASE Noted(Me(e), u)
        BY <2>1, <1>8 DEF WillForm, Forming, Me
    <2>2. CASE ~Noted(Me(e), u)
        <3>1. PICK j \in DOMAIN outbox[e] :
                 unacked[e] < j /\ OtherEdgeSet(e, j, u) /\ j < Len(outbox[e]) + 1
            BY <1>11, <2>2 DEF WillForm, Forming
        <3>2. j < Len(outbox'[e]) + 1
            BY <1>10, <3>1
        <3> QED BY <1>5, <1>6, <3>1, <3>2 DEF WillForm, Forming
    <2> QED BY <2>1, <2>2
<1>12. UnackedQueued'
    BY <1>10 DEF QueueInv, UnackedQueued
<1>13. \A e \in Device : \A i \in DOMAIN outbox'[e] :
          \/ i \in DOMAIN outbox[e]
          \/ e = d /\ \E j \in DOMAIN s : i = L + j
    BY <1>2, <1>3 DEF q
<1>14. OwnPairs'
    <2> SUFFICES ASSUME NEW e \in Device, NEW i \in DOMAIN outbox'[e],
                        outbox'[e][i].op = "set",
                        outbox'[e][i].entry.node = "teammates"
                 PROVE  \E u \in Others(e) :
                           OwnEdgeSet(e, i, u)' \/ OtherEdgeSet(e, i, u)'
        BY DEF OwnPairs, Others, Me
    <2>1. CASE i \in DOMAIN outbox[e]
        BY <1>5, <1>6, <2>1 DEF QueueInv, OwnPairs
    <2>2. ASSUME e = d, NEW j \in DOMAIN s, i = L + j
          PROVE  \E u \in Others(e) :
                    OwnEdgeSet(e, i, u)' \/ OtherEdgeSet(e, i, u)'
        BY <1>3, <1>7, <2>2 DEF PairsSet
    <2> QED BY <1>13, <2>1, <2>2
<1>15. EdgesTogether'
    <2> SUFFICES ASSUME NEW e \in Device, NEW i \in DOMAIN outbox'[e],
                        NEW u \in Others(e)
                 PROVE  /\ OwnEdgeSet(e, i, u)' =>
                              /\ i + 1 \in DOMAIN outbox'[e]
                              /\ OtherEdgeSet(e, i + 1, u)'
                        /\ OtherEdgeSet(e, i, u)' /\ ~Noted(Me(e), u)' =>
                              /\ unacked[e] < i
                              /\ i # 1 => OwnEdgeSet(e, i - 1, u)'
                              /\ i = unacked[e] + 1 =>
                                    At("teammates", Me(e), u) \in tree
        BY DEF EdgesTogether, Others, Me
    <2>1. CASE i \in DOMAIN outbox[e]
        <3>0. outbox[e] \in Seq(Writes)
            OBVIOUS
        <3>1. i # 1 => i - 1 \in DOMAIN outbox[e]
            BY <2>1, <3>0
        <3>2. Noted(Me(e), u) => Noted(Me(e), u)'
            BY <1>8 DEF Me
        <3> QED BY <1>5, <1>6, <2>1, <3>1, <3>2 DEF QueueInv, EdgesTogether
    <2>2. ASSUME e = d, NEW j \in DOMAIN s, i = L + j
          PROVE  /\ OwnEdgeSet(e, i, u)' =>
                              /\ i + 1 \in DOMAIN outbox'[e]
                              /\ OtherEdgeSet(e, i + 1, u)'
                 /\ OtherEdgeSet(e, i, u)' =>
                       /\ unacked[e] < i
                       /\ i # 1 => OwnEdgeSet(e, i - 1, u)'
                       /\ i # unacked[e] + 1
        <3>1. i + 1 = L + (j + 1) /\ i - 1 = L + (j - 1)
            BY <1>1, <1>4, <2>2
        <3>2. OwnEdgeSet(e, i, u)' => /\ i + 1 \in DOMAIN outbox'[e]
                                      /\ OtherEdgeSet(e, i + 1, u)'
            BY <1>3, <1>7, <2>2, <3>1 DEF PairsSet
        <3>3. ASSUME OtherEdgeSet(e, i, u)'
              PROVE  OwnEdgeSet(e, i - 1, u)' /\ j - 1 \in DOMAIN s
            BY <1>3, <1>7, <2>2, <3>1, <3>3 DEF PairsSet
        <3>4. unacked[d] \in Nat /\ unacked[d] <= L
            BY <1>0 DEF QueueInv, UnackedQueued, q
        <3>5. OtherEdgeSet(e, i, u)' => unacked[e] < i /\ i # unacked[e] + 1
            <4>1. j \in Nat /\ i = L + j /\ e = d
                BY <1>4, <2>2
            <4>2. OtherEdgeSet(e, i, u)' => 1 <= j - 1
                BY <1>4, <3>3
            <4> QED BY <3>4, <4>1, <4>2
        <3> QED BY <3>2, <3>3, <3>5
    <2> QED BY <1>13, <2>1, <2>2
<1>16. RequestRemovals'
    <2> SUFFICES ASSUME NEW e \in Device, NEW i \in DOMAIN outbox'[e],
                        outbox'[e][i].op = "remove",
                        outbox'[e][i].entry.node = "teammateRequests"
                 PROVE  \E u \in Others(e) :
                          /\ outbox'[e][i].entry \in
                                {At("teammateRequests", Me(e), u),
                                 At("teammateRequests", u, Me(e))}
                          /\ outbox'[e][i].by = "decline" \/ Forming(e, u, i)'
        BY DEF RequestRemovals, Others, Me
    <2>1. CASE i \in DOMAIN outbox[e]
        BY <1>5, <1>9, <2>1 DEF QueueInv, RequestRemovals
    <2>2. ASSUME e = d, NEW j \in DOMAIN s, i = L + j
          PROVE  \E u \in Others(e) :
                          /\ outbox'[e][i].entry \in
                                {At("teammateRequests", Me(e), u),
                                 At("teammateRequests", u, Me(e))}
                          /\ outbox'[e][i].by = "decline" \/ Forming(e, u, i)'
        <3>1. PICK u \in Others(d) :
                 /\ s[j].entry \in {At("teammateRequests", Me(d), u),
                                    At("teammateRequests", u, Me(d))}
                 /\ \/ s[j].by = "decline"
                    \/ \E k \in DOMAIN s :
                          k < j /\ Sets(s[k], At("teammates", u, Me(d)))
            BY <1>3, <2>2 DEF RemovalsFollow
        <3>2. ASSUME NEW k \in DOMAIN s, k < j,
                     Sets(s[k], At("teammates", u, Me(d)))
              PROVE  Forming(d, u, i)'
            <4>1. OtherEdgeSet(d, L + k, u)' /\ L + k \in DOMAIN outbox'[d]
                BY <1>3, <1>7, <3>2
            <4>2. unacked[d] \in Nat /\ unacked[d] <= L
                BY <1>0 DEF QueueInv, UnackedQueued, q
            <4>3. unacked'[d] < L + k /\ L + k < i
                BY <1>1, <1>4, <2>2, <3>2, <4>2
            <4> QED BY <4>1, <4>3 DEF Forming
        <3> QED BY <1>3, <2>2, <3>1, <3>2
    <2> QED BY <1>13, <2>1, <2>2
<1> QED BY <1>9, <1>11, <1>12, <1>14, <1>15, <1>16 DEF QueueInv

\* The server applies the next write of d.
NextApplied(d, n) ==
    /\ n = unacked[d] + 1
    /\ n \in DOMAIN outbox[d]
    /\ Apply(outbox[d][n])
    /\ disturbed' = disturbed

\* With the second edge the pair is formed; the first edge of another queue
\* stays until its second, as a removal would have been a crossing.
LEMMA EdgeApplied ==
    ASSUME QueueInv, MutualInv, NEW d \in Device, NEW n, NextApplied(d, n),
           outbox[d][n] \in Writes
    PROVE  /\ formed \subseteq formed' /\ disturbed \subseteq disturbed'
           /\ \A u \in Others(d) : OtherEdgeSet(d, n, u) => Noted(Me(d), u)'
           /\ \A e \in Device \ {d} : \A u \in Others(e) :
                 \A i \in DOMAIN outbox[e] :
                    /\ OtherEdgeSet(e, i, u) /\ ~Noted(Me(e), u)
                    /\ At("teammates", Me(e), u) \in tree
                    => At("teammates", Me(e), u) \in tree'
<1> DEFINE w == outbox[d][n]
<1>1. /\ tree' = Applied(w, tree)
      /\ w.op \in {"set", "remove"}
      /\ formed \subseteq formed' /\ disturbed \subseteq disturbed'
    BY DEF NextApplied, Apply, Writes, Write
<1>2. ASSUME NEW u \in Others(d), OtherEdgeSet(d, n, u)
      PROVE  Noted(Me(d), u)'
    <2>1. CASE Noted(Me(d), u)
        BY <1>1, <2>1, NotedKept DEF Me
    <2>2. CASE ~Noted(Me(d), u)
        <3>1. At("teammates", Me(d), u) \in tree
            BY <1>2, <2>2 DEF QueueInv, EdgesTogether, NextApplied
        <3>2. w.op = "set" /\ w.entry = At("teammates", u, Me(d))
            BY <1>2 DEF OtherEdgeSet, Sets
        <3>3. Edges(u, Me(d)) \subseteq tree'
            BY <1>1, <3>1, <3>2 DEF Edges, Applied
        <3>4. w.entry.owner = u /\ w.entry.peer = Me(d)
            BY <3>2 DEF At
        <3>5. {u, Me(d)} \in formed'
            BY <3>3, <3>4 DEF NextApplied, Apply, Mates
        <3>6. {u, Me(d)} = {Me(d), u}
            OBVIOUS
        <3> QED BY <3>5, <3>6 DEF Noted, Me
    <2> QED BY <2>1, <2>2
<1>3. ASSUME NEW e \in Device \ {d}, NEW u \in Others(e),
             NEW i \in DOMAIN outbox[e],
             OtherEdgeSet(e, i, u), ~Noted(Me(e), u),
             At("teammates", Me(e), u) \in tree
      PROVE  At("teammates", Me(e), u) \in tree'
    <2>1. Me(e) \in User /\ u \in User /\ Me(e) # u
        BY MeType DEF Others
    <2>2. SameOps(Me(e), u)
        BY <1>3, <2>1 DEF MutualInv, PairInv, Noted
    <2>3. outbox[e][i].op = "set" /\ outbox[e][i].entry \in Edges(Me(e), u)
        BY <1>3 DEF OtherEdgeSet, Sets, Edges
    <2>4. w.entry \in Edges(Me(e), u) => w.op = "set"
        BY <2>2, <2>3 DEF SameOps, NextApplied
    <2>5. At("teammates", Me(e), u) \in Edges(Me(e), u)
        BY DEF Edges
    <2> QED BY <1>1, <1>3, <2>4, <2>5 DEF Applied
<1> QED BY <1>1, <1>2, <1>3

\* The head of a queue is applied and acknowledged: all positions move down.
LEMMA DeliverQueue ==
    ASSUME QueueInv, MutualInv, TypeOK, NEW d \in Device, Deliver(d)
    PROVE  /\ QueueInv'
           /\ formed \subseteq formed' /\ disturbed \subseteq disturbed'
           /\ \A u \in Others(d) : \A n \in Nat :
                 Forming(d, u, n + 1) => Forming(d, u, n)'
           /\ \A e \in Device \ {d} : \A u, n :
                 Forming(e, u, n) => Forming(e, u, n)'
           /\ \A e \in Device : \A u \in Others(e) :
                 WillForm(e, u) => WillForm(e, u)'
<1> DEFINE q == outbox[d]
<1>1. /\ q \in Seq(Writes) /\ q # <<>>
      /\ outbox' = [outbox EXCEPT ![d] = Tail(q)]
      /\ unacked' = unacked /\ unacked[d] = 0
    BY DEF TypeOK, Writes, Deliver, faults
<1>2. /\ outbox'[d] = Tail(q)
      /\ \A e \in Device \ {d} : outbox'[e] = outbox[e]
    BY <1>1 DEF TypeOK
<1>3. /\ Len(q) \in Nat /\ Len(Tail(q)) = Len(q) - 1 /\ Len(q) # 0
      /\ 1 \in DOMAIN q /\ Head(q) = q[1] /\ q[1] \in Writes
      /\ \A i \in DOMAIN Tail(q) :
            i \in Nat /\ i # 0 /\ i + 1 \in DOMAIN q /\ Tail(q)[i] = q[i + 1]
      /\ \A i \in DOMAIN q : i \in Nat /\ i # 0
      /\ \A i \in Nat : i # 0 /\ i + 1 \in DOMAIN q =>
            i \in DOMAIN Tail(q) /\ Tail(q)[i] = q[i + 1]
    BY <1>1
<1> HIDE DEF q
<1>4. \A i \in DOMAIN outbox'[d] : \A u :
         /\ i \in Nat /\ i # 0 /\ i + 1 \in DOMAIN outbox[d]
         /\ outbox'[d][i] = outbox[d][i + 1]
         /\ OwnEdgeSet(d, i, u)' <=> OwnEdgeSet(d, i + 1, u)
         /\ OtherEdgeSet(d, i, u)' <=> OtherEdgeSet(d, i + 1, u)
    BY <1>2, <1>3 DEF OwnEdgeSet, OtherEdgeSet, Me, q
<1>5. \A i \in Nat : i # 0 /\ i + 1 \in DOMAIN outbox[d] => i \in DOMAIN outbox'[d]
    BY <1>2, <1>3 DEF q
<1>6. \A e \in Device \ {d} : \A i, u :
         /\ OwnEdgeSet(e, i, u)' <=> OwnEdgeSet(e, i, u)
         /\ OtherEdgeSet(e, i, u)' <=> OtherEdgeSet(e, i, u)
    BY <1>2 DEF OwnEdgeSet, OtherEdgeSet, Me
<1>7. NextApplied(d, 1) /\ outbox[d][1] \in Writes
    BY <1>1, <1>3 DEF NextApplied, Deliver, q
<1>8. /\ formed \subseteq formed' /\ disturbed \subseteq disturbed'
      /\ \A u \in Others(d) : OtherEdgeSet(d, 1, u) => Noted(Me(d), u)'
      /\ \A e \in Device \ {d} : \A u \in Others(e) :
            \A i \in DOMAIN outbox[e] :
               /\ OtherEdgeSet(e, i, u) /\ ~Noted(Me(e), u)
               /\ At("teammates", Me(e), u) \in tree
               => At("teammates", Me(e), u) \in tree'
    BY <1>7, EdgeApplied
<1>9. \A a, b : Noted(a, b) => Noted(a, b)'
    BY <1>8, NotedKept
<1>10. ASSUME NEW u \in Others(d), NEW n \in Nat, Forming(d, u, n + 1)
       PROVE  Forming(d, u, n)'
    <2>1. CASE Noted(Me(d), u) \/ OtherEdgeSet(d, 1, u)
        BY <1>8, <1>9, <2>1 DEF Forming, Me
    <2>2. CASE ~Noted(Me(d), u) /\ ~OtherEdgeSet(d, 1, u)
        <3>1. PICK j \in DOMAIN outbox[d] :
                 unacked[d] < j /\ j < n + 1 /\ OtherEdgeSet(d, j, u)
            BY <1>10, <2>2 DEF Forming
        <3>2. PICK i \in Nat : j = i + 1
            <4>1. j \in Nat /\ j # 0
                BY <1>3 DEF q
            <4>2. j - 1 \in Nat /\ j = (j - 1) + 1
                BY <4>1
            <4> QED BY <4>2
        <3>3. i # 0 /\ i < n
            BY <2>2, <3>1, <3>2
        <3>4. i \in DOMAIN outbox'[d] /\ OtherEdgeSet(d, i, u)'
            BY <1>4, <1>5, <3>1, <3>2, <3>3
        <3> QED BY <1>1, <3>3, <3>4 DEF Forming
    <2> QED BY <2>1, <2>2
<1>11. \A e \in Device \ {d} : \A u, n : Forming(e, u, n) => Forming(e, u, n)'
    BY <1>1, <1>2, <1>6, <1>9 DEF Forming, Me
<1>12. \A e \in Device : \A u \in Others(e) : WillForm(e, u) => WillForm(e, u)'
    <2>1. ASSUME NEW u \in Others(d), WillForm(d, u) PROVE WillForm(d, u)'
        <3>0. Len(Tail(q)) \in Nat
            BY <1>3
        <3>1. PICK L \in Nat : L = Len(outbox'[d])
            BY <1>2, <3>0
        <3>2. Forming(d, u, (L + 1) + 1)
            <4>1. Len(outbox[d]) = L + 1
                BY <1>2, <1>3, <3>1 DEF q
            <4> QED BY <2>1, <4>1 DEF WillForm
        <3>3. Forming(d, u, L + 1)'
            BY <1>10, <3>2
        <3> QED BY <3>1, <3>3 DEF WillForm
    <2>2. ASSUME NEW e \in Device \ {d}, NEW u \in Others(e), WillForm(e, u)
          PROVE  WillForm(e, u)'
        <3>1. Forming(e, u, Len(outbox[e]) + 1)
            BY <2>2 DEF WillForm
        <3>2. PICK n : n = Len(outbox[e]) + 1
            OBVIOUS
        <3>3. Forming(e, u, n)'
            BY <1>11, <3>1, <3>2
        <3> QED BY <1>2, <3>2, <3>3 DEF WillForm
    <2> QED BY <2>1, <2>2
<1>13. UnackedQueued'
    <2>1. Len(outbox'[d]) \in Nat
        BY <1>2, <1>3
    <2>2. unacked'[d] <= Len(outbox'[d])
        BY <1>1, <2>1
    <2>3. \A e \in Device \ {d} : unacked'[e] <= Len(outbox'[e])
        BY <1>1, <1>2 DEF QueueInv, UnackedQueued
    <2> QED BY <2>2, <2>3 DEF UnackedQueued
<1>14. OwnPairs'
    <2> SUFFICES ASSUME NEW e \in Device, NEW i \in DOMAIN outbox'[e],
                        outbox'[e][i].op = "set",
                        outbox'[e][i].entry.node = "teammates"
                 PROVE  \E u \in Others(e) :
                           OwnEdgeSet(e, i, u)' \/ OtherEdgeSet(e, i, u)'
        BY DEF OwnPairs, Others, Me
    <2>1. CASE e = d
        BY <1>4, <2>1 DEF QueueInv, OwnPairs
    <2>2. CASE e # d
        BY <1>2, <1>6, <2>2 DEF QueueInv, OwnPairs
    <2> QED BY <2>1, <2>2
<1>15. EdgesTogether'
    <2> SUFFICES ASSUME NEW e \in Device, NEW i \in DOMAIN outbox'[e],
                        NEW u \in Others(e)
                 PROVE  /\ OwnEdgeSet(e, i, u)' =>
                              /\ i + 1 \in DOMAIN outbox'[e]
                              /\ OtherEdgeSet(e, i + 1, u)'
                        /\ OtherEdgeSet(e, i, u)' /\ ~Noted(Me(e), u)' =>
                              /\ unacked'[e] < i
                              /\ i # 1 => OwnEdgeSet(e, i - 1, u)'
                              /\ i = unacked'[e] + 1 =>
                                    At("teammates", Me(e), u) \in tree'
        BY DEF EdgesTogether, Others, Me
    <2>0. Noted(Me(e), u) => Noted(Me(e), u)'
        BY <1>9 DEF Me
    <2>1. CASE e = d
        <3>0. i \in Nat /\ i # 0 /\ i + 1 \in DOMAIN outbox[d]
            BY <1>4, <2>1
        <3>1. ASSUME OwnEdgeSet(d, i, u)'
              PROVE  i + 1 \in DOMAIN outbox'[d] /\ OtherEdgeSet(d, i + 1, u)'
            <4>1. /\ (i + 1) + 1 \in DOMAIN outbox[d]
                  /\ OtherEdgeSet(d, (i + 1) + 1, u)
                BY <1>4, <2>1, <3>1 DEF QueueInv, EdgesTogether
            <4>2. i + 1 \in DOMAIN outbox'[d]
                BY <1>5, <3>0, <4>1
            <4> QED BY <1>4, <4>1, <4>2
        <3>2. ASSUME OtherEdgeSet(d, i, u)', ~Noted(Me(d), u)'
              PROVE  /\ i # 1 => OwnEdgeSet(d, i - 1, u)'
                     /\ i = 1 => At("teammates", Me(d), u) \in tree'
            <4>1. OwnEdgeSet(d, (i + 1) - 1, u)
                <5>1. OtherEdgeSet(d, i + 1, u) /\ i + 1 # 1
                    BY <1>4, <2>1, <3>0, <3>2
                <5> QED BY <2>0, <2>1, <3>0, <3>2, <5>1 DEF QueueInv, EdgesTogether
            <4>2. OwnEdgeSet(d, i, u)
                BY <3>0, <4>1
            <4>3. CASE i = 1
                BY <1>7, <4>2, <4>3 DEF NextApplied, Apply, Applied, OwnEdgeSet, Sets
            <4>4. CASE i # 1
                <5>1. PICK k \in Nat : i = k + 1 /\ k # 0
                    <6>1. i - 1 \in Nat /\ i = (i - 1) + 1 /\ i - 1 # 0
                        BY <3>0, <4>4
                    <6> QED BY <6>1
                <5>2. k \in DOMAIN outbox'[d]
                    <6>1. k + 1 \in DOMAIN outbox[d]
                        <7>1. \A x \in DOMAIN outbox'[d] : x \in DOMAIN outbox[d]
                            BY <1>1, <1>2 DEF q
                        <7> QED BY <2>1, <5>1, <7>1
                    <6> QED BY <1>5, <5>1, <6>1
                <5>3. OwnEdgeSet(d, k, u)'
                    BY <1>4, <4>2, <5>1, <5>2
                <5>4. k = i - 1
                    BY <5>1
                <5> QED BY <4>4, <5>3, <5>4
            <4> QED BY <4>3, <4>4
        <3>3. unacked'[d] = 0 /\ 0 < i
            BY <1>1, <3>0
        <3> QED BY <2>1, <3>1, <3>2, <3>3
    <2>2. CASE e # d
        <3>1. i \in DOMAIN outbox[e]
            BY <1>2, <2>2
        <3> QED BY <1>1, <1>2, <1>6, <1>8, <2>0, <2>2, <3>1
                DEF QueueInv, EdgesTogether
    <2> QED BY <2>1, <2>2
<1>16. RequestRemovals'
    <2> SUFFICES ASSUME NEW e \in Device, NEW i \in DOMAIN outbox'[e],
                        outbox'[e][i].op = "remove",
                        outbox'[e][i].entry.node = "teammateRequests"
                 PROVE  \E u \in Others(e) :
                          /\ outbox'[e][i].entry \in
                                {At("teammateRequests", Me(e), u),
                                 At("teammateRequests", u, Me(e))}
                          /\ outbox'[e][i].by = "decline" \/ Forming(e, u, i)'
        BY DEF RequestRemovals, Others, Me
    <2>1. CASE e = d
        <3>1. /\ i \in Nat /\ i + 1 \in DOMAIN outbox[d]
              /\ outbox'[d][i] = outbox[d][i + 1]
            BY <1>4, <2>1
        <3>2. PICK u \in Others(d) :
                 /\ outbox[d][i + 1].entry \in
                       {At("teammateRequests", Me(d), u),
                        At("teammateRequests", u, Me(d))}
                 /\ outbox[d][i + 1].by = "decline" \/ Forming(d, u, i + 1)
            BY <2>1, <3>1 DEF QueueInv, RequestRemovals
        <3>3. Forming(d, u, i + 1) => Forming(d, u, i)'
            BY <1>10, <3>1
        <3> QED BY <2>1, <3>1, <3>2, <3>3
    <2>2. CASE e # d
        BY <1>2, <1>11, <2>2 DEF QueueInv, RequestRemovals
    <2> QED BY <2>1, <2>2
<1> QED BY <1>8, <1>10, <1>11, <1>12, <1>13, <1>14, <1>15, <1>16 DEF QueueInv

\* The next write is applied and not acknowledged: it stays, and is passed.
LEMMA UnackedQueue ==
    ASSUME QueueInv, MutualInv, TypeOK, NEW d \in Device, DeliverUnacked(d)
    PROVE  /\ QueueInv'
           /\ formed \subseteq formed' /\ disturbed \subseteq disturbed'
           /\ \A e \in Device : \A u \in Others(e) : \A n :
                 Forming(e, u, n) => Forming(e, u, n)'
           /\ \A e \in Device : \A u \in Others(e) :
                 WillForm(e, u) => WillForm(e, u)'
<1>0. PICK n \in Nat : n = unacked[d] + 1
    BY DEF TypeOK
<1>1. /\ outbox' = outbox /\ unacked' = [unacked EXCEPT ![d] = n]
      /\ n \in DOMAIN outbox[d] /\ outbox[d][n] \in Writes
      /\ unacked[d] \in Nat /\ Len(outbox[d]) \in Nat /\ n <= Len(outbox[d])
      /\ \A e \in Device : \A i \in DOMAIN outbox[e] : i \in Nat /\ i # 0
    <2>1. outbox[d] \in Seq(Writes) /\ unacked[d] \in Nat
        BY DEF TypeOK, Writes
    <2>2. n <= Len(outbox[d])
        BY <1>0, <2>1 DEF DeliverUnacked
    <2>3. n \in DOMAIN outbox[d] /\ outbox[d][n] \in Writes
        BY <1>0, <2>1, <2>2
    <2>4. \A e \in Device : \A i \in DOMAIN outbox[e] : i \in Nat /\ i # 0
        BY DEF TypeOK
    <2> QED BY <1>0, <2>1, <2>2, <2>3, <2>4 DEF DeliverUnacked
<1>2. NextApplied(d, n)
    BY <1>0, <1>1 DEF NextApplied, DeliverUnacked, NextWrite
<1>3. /\ formed \subseteq formed' /\ disturbed \subseteq disturbed'
      /\ \A u \in Others(d) : OtherEdgeSet(d, n, u) => Noted(Me(d), u)'
      /\ \A e \in Device \ {d} : \A u \in Others(e) :
            \A i \in DOMAIN outbox[e] :
               /\ OtherEdgeSet(e, i, u) /\ ~Noted(Me(e), u)
               /\ At("teammates", Me(e), u) \in tree
               => At("teammates", Me(e), u) \in tree'
    BY <1>1, <1>2, EdgeApplied
<1>4. \A a, b : Noted(a, b) => Noted(a, b)'
    BY <1>3, NotedKept
<1>5. \A e \in Device : \A i, u :
         /\ OwnEdgeSet(e, i, u)' <=> OwnEdgeSet(e, i, u)
         /\ OtherEdgeSet(e, i, u)' <=> OtherEdgeSet(e, i, u)
    BY <1>1 DEF OwnEdgeSet, OtherEdgeSet, Me
<1>6. unacked'[d] = n /\ \A e \in Device \ {d} : unacked'[e] = unacked[e]
    BY <1>1 DEF TypeOK
<1>7. ASSUME NEW e \in Device, NEW u \in Others(e), NEW m, Forming(e, u, m)
      PROVE  Forming(e, u, m)'
    <2>1. CASE Noted(Me(e), u)
        BY <1>4, <2>1 DEF Forming, Me
    <2>2. CASE e = d /\ OtherEdgeSet(d, n, u)
        BY <1>3, <2>2 DEF Forming, Me
    <2>3. CASE e = d /\ ~OtherEdgeSet(d, n, u) /\ ~Noted(Me(e), u)
        <3>1. PICK j \in DOMAIN outbox[d] :
                 unacked[d] < j /\ j < m /\ OtherEdgeSet(d, j, u)
            BY <1>7, <2>3 DEF Forming
        <3>2. n < j
            BY <1>0, <1>1, <2>3, <3>1
        <3> QED BY <1>1, <1>5, <1>6, <2>3, <3>1, <3>2 DEF Forming
    <2>4. CASE e # d /\ ~Noted(Me(e), u)
        BY <1>1, <1>5, <1>6, <1>7, <2>4 DEF Forming
    <2> QED BY <2>1, <2>2, <2>3, <2>4
<1>8. \A e \in Device : \A u \in Others(e) : WillForm(e, u) => WillForm(e, u)'
    BY <1>1, <1>7 DEF WillForm
<1>9. UnackedQueued'
    BY <1>1, <1>6 DEF QueueInv, UnackedQueued
<1>10. OwnPairs'
    BY <1>1, <1>5 DEF QueueInv, OwnPairs, Others, Me
<1>11. EdgesTogether'
    <2> SUFFICES ASSUME NEW e \in Device, NEW i \in DOMAIN outbox[e],
                        NEW u \in Others(e)
                 PROVE  /\ OwnEdgeSet(e, i, u) =>
                              /\ i + 1 \in DOMAIN outbox[e]
                              /\ OtherEdgeSet(e, i + 1, u)
                        /\ OtherEdgeSet(e, i, u) /\ ~Noted(Me(e), u)' =>
                              /\ unacked'[e] < i
                              /\ i # 1 => OwnEdgeSet(e, i - 1, u)
                              /\ i = unacked'[e] + 1 =>
                                    At("teammates", Me(e), u) \in tree'
        BY <1>1, <1>5 DEF EdgesTogether, Others, Me
    <2>0. Noted(Me(e), u) => Noted(Me(e), u)'
        BY <1>4 DEF Me
    <2>1. CASE e = d
        <3>1. ASSUME OtherEdgeSet(d, i, u), ~Noted(Me(d), u)'
              PROVE  /\ n < i
                     /\ i # 1 => OwnEdgeSet(d, i - 1, u)
                     /\ i = n + 1 => At("teammates", Me(d), u) \in tree'
            <4>1. i # n
                BY <1>3, <2>1, <3>1
            <4>2. unacked[d] < i /\ (i # 1 => OwnEdgeSet(d, i - 1, u))
                BY <2>0, <2>1, <3>1 DEF QueueInv, EdgesTogether
            <4>3. n < i
                BY <1>0, <1>1, <2>1, <4>1, <4>2
            <4>4. ASSUME i = n + 1
                  PROVE  At("teammates", Me(d), u) \in tree'
                <5>1. i # 1 /\ i - 1 = n
                    BY <1>0, <1>1, <4>4
                <5>2. OwnEdgeSet(d, n, u)
                    BY <4>2, <5>1
                <5> QED BY <1>2, <5>2
                        DEF NextApplied, Apply, Applied, OwnEdgeSet, Sets
            <4> QED BY <4>2, <4>3, <4>4
        <3> QED BY <1>6, <2>1, <3>1 DEF QueueInv, EdgesTogether
    <2>2. CASE e # d
        BY <1>3, <1>6, <2>0, <2>2 DEF QueueInv, EdgesTogether
    <2> QED BY <2>1, <2>2
<1>12. RequestRemovals'
    <2> SUFFICES ASSUME NEW e \in Device, NEW i \in DOMAIN outbox[e],
                        outbox[e][i].op = "remove",
                        outbox[e][i].entry.node = "teammateRequests"
                 PROVE  \E u \in Others(e) :
                          /\ outbox[e][i].entry \in
                                {At("teammateRequests", Me(e), u),
                                 At("teammateRequests", u, Me(e))}
                          /\ outbox[e][i].by = "decline" \/ Forming(e, u, i)'
        BY <1>1 DEF RequestRemovals, Others, Me
    <2> QED BY <1>7 DEF QueueInv, RequestRemovals
<1> QED BY <1>3, <1>7, <1>8, <1>9, <1>10, <1>11, <1>12 DEF QueueInv

\* Everything is sent again: what was applied of it was noted.
LEMMA ReconnectQueue ==
    ASSUME QueueInv, TypeOK, NEW d \in Device, Reconnect(d)
    PROVE  /\ QueueInv'
           /\ \A e \in Device : \A u, n : Forming(e, u, n) => Forming(e, u, n)'
           /\ \A e \in Device : \A u : WillForm(e, u) => WillForm(e, u)'
<1>1. /\ outbox' = outbox /\ tree' = tree
      /\ formed' = formed /\ disturbed' = disturbed
      /\ unacked'[d] = 0 /\ \A e \in Device \ {d} : unacked'[e] = unacked[e]
      /\ unacked[d] \in Nat /\ unacked[d] > 0
    BY DEF Reconnect, history, TypeOK
<1>2. \A e \in Device : \A i \in DOMAIN outbox[e] : i \in Nat /\ i # 0
    BY DEF TypeOK
<1>3. \A e \in Device : \A i, u :
         /\ OwnEdgeSet(e, i, u)' <=> OwnEdgeSet(e, i, u)
         /\ OtherEdgeSet(e, i, u)' <=> OtherEdgeSet(e, i, u)
         /\ Noted(Me(e), u)' <=> Noted(Me(e), u)
    BY <1>1 DEF OwnEdgeSet, OtherEdgeSet, Me, Noted
<1>4. \A e \in Device : \A j \in DOMAIN outbox[e] :
         unacked[e] < j => unacked'[e] < j
    BY <1>1, <1>2
<1>5. \A e \in Device : \A u, n : Forming(e, u, n) => Forming(e, u, n)'
    BY <1>1, <1>3, <1>4 DEF Forming
<1>6. \A e \in Device : \A u : WillForm(e, u) => WillForm(e, u)'
    BY <1>1, <1>5 DEF WillForm
<1>7. UnackedQueued'
    <2>1. Len(outbox[d]) \in Nat
        BY DEF TypeOK
    <2> QED BY <1>1, <2>1 DEF QueueInv, UnackedQueued
<1>8. OwnPairs'
    BY <1>1, <1>3 DEF QueueInv, OwnPairs, Others, Me
<1>9. EdgesTogether'
    <2> SUFFICES ASSUME NEW e \in Device, NEW i \in DOMAIN outbox[e],
                        NEW u \in Others(e)
                 PROVE  /\ OwnEdgeSet(e, i, u) =>
                              /\ i + 1 \in DOMAIN outbox[e]
                              /\ OtherEdgeSet(e, i + 1, u)
                        /\ OtherEdgeSet(e, i, u) /\ ~Noted(Me(e), u) =>
                              /\ unacked'[e] < i
                              /\ i # 1 => OwnEdgeSet(e, i - 1, u)
                              /\ i = unacked'[e] + 1 =>
                                    At("teammates", Me(e), u) \in tree
        BY <1>1, <1>3 DEF EdgesTogether, Others, Me
    <2>1. e = d /\ i = unacked'[e] + 1 => ~(unacked[e] < i)
        BY <1>1
    <2> QED BY <1>1, <1>4, <2>1 DEF QueueInv, EdgesTogether
<1>10. RequestRemovals'
    BY <1>1, <1>5 DEF QueueInv, RequestRemovals, Others, Me
<1> QED BY <1>5, <1>6, <1>7, <1>8, <1>9, <1>10 DEF QueueInv

\* A kill notes the pairs of the queue it empties.
LEMMA CrashQueue ==
    ASSUME QueueInv, TypeOK, NEW d \in Device, Crash(d)
    PROVE  /\ QueueInv'
           /\ formed \subseteq formed' /\ disturbed \subseteq disturbed'
           /\ \A e \in Device : \A u, n : Forming(e, u, n) => Forming(e, u, n)'
           /\ \A e \in Device : \A u : WillForm(e, u) => WillForm(e, u)'
<1>1. /\ outbox' = [outbox EXCEPT ![d] = <<>>] /\ tree' = tree
      /\ unacked' = [unacked EXCEPT ![d] = 0]
      /\ formed' = formed /\ disturbed' = disturbed \cup QueuedPairs(d)
    BY DEF Crash
<1>2. /\ outbox'[d] = <<>> /\ unacked'[d] = 0
      /\ \A e \in Device \ {d} : outbox'[e] = outbox[e] /\ unacked'[e] = unacked[e]
    BY <1>1 DEF TypeOK
<1>3. formed \subseteq formed' /\ disturbed \subseteq disturbed'
    BY <1>1
<1>4. \A a, b : Noted(a, b) => Noted(a, b)'
    BY <1>3, NotedKept
<1>5. \A e \in Device \ {d} : \A i, u :
         /\ OwnEdgeSet(e, i, u)' <=> OwnEdgeSet(e, i, u)
         /\ OtherEdgeSet(e, i, u)' <=> OtherEdgeSet(e, i, u)
    BY <1>2 DEF OwnEdgeSet, OtherEdgeSet, Me
<1>6. ASSUME NEW j \in DOMAIN outbox[d], NEW u, OtherEdgeSet(d, j, u)
      PROVE  Noted(Me(d), u)'
    <2>1. outbox[d][j].entry.node = "teammates"
          /\ outbox[d][j].entry.owner = u /\ outbox[d][j].entry.peer = Me(d)
        BY <1>6 DEF OtherEdgeSet, Sets, At
    <2>2. {u, Me(d)} \in QueuedPairs(d)
        BY <2>1 DEF QueuedPairs
    <2>3. {u, Me(d)} = {Me(d), u}
        OBVIOUS
    <2> QED BY <1>1, <2>2, <2>3 DEF Noted, Me
<1>7. ASSUME NEW e \in Device, NEW u, NEW n, Forming(e, u, n)
      PROVE  Forming(e, u, n)'
    <2>1. CASE Noted(Me(e), u)
        BY <1>4, <2>1 DEF Forming, Me
    <2>2. CASE e = d /\ ~Noted(Me(e), u)
        BY <1>6, <1>7, <2>2 DEF Forming, Me
    <2>3. CASE e # d /\ ~Noted(Me(e), u)
        BY <1>2, <1>5, <1>7, <2>3 DEF Forming
    <2> QED BY <2>1, <2>2, <2>3
<1>8. ASSUME NEW e \in Device, NEW u, WillForm(e, u) PROVE WillForm(e, u)'
    <2>1. CASE Noted(Me(e), u)
        BY <1>4, <2>1 DEF WillForm, Forming, Me
    <2>2. CASE e = d /\ ~Noted(Me(e), u)
        BY <1>6, <1>8, <2>2 DEF WillForm, Forming, Me
    <2>3. CASE e # d /\ ~Noted(Me(e), u)
        BY <1>2, <1>5, <1>8, <2>3 DEF WillForm, Forming
    <2> QED BY <2>1, <2>2, <2>3
<1>9. DOMAIN outbox'[d] = {} /\ Len(outbox'[d]) = 0
    BY <1>2
<1>10. UnackedQueued'
    BY <1>2, <1>9 DEF QueueInv, UnackedQueued
<1>11. OwnPairs'
    BY <1>2, <1>5, <1>9 DEF QueueInv, OwnPairs, Others, Me
<1>12. EdgesTogether'
    <2> SUFFICES ASSUME NEW e \in Device, NEW i \in DOMAIN outbox'[e],
                        NEW u \in Others(e)
                 PROVE  /\ OwnEdgeSet(e, i, u)' =>
                              /\ i + 1 \in DOMAIN outbox'[e]
                              /\ OtherEdgeSet(e, i + 1, u)'
                        /\ OtherEdgeSet(e, i, u)' /\ ~Noted(Me(e), u)' =>
                              /\ unacked'[e] < i
                              /\ i # 1 => OwnEdgeSet(e, i - 1, u)'
                              /\ i = unacked'[e] + 1 =>
                                    At("teammates", Me(e), u) \in tree'
        BY DEF EdgesTogether, Others, Me
    <2>1. e # d
        BY <1>9
    <2>2. Noted(Me(e), u) => Noted(Me(e), u)'
        BY <1>4 DEF Me
    <2> QED BY <1>1, <1>2, <1>5, <2>1, <2>2 DEF QueueInv, EdgesTogether
<1>13. RequestRemovals'
    <2> SUFFICES ASSUME NEW e \in Device, NEW i \in DOMAIN outbox'[e],
                        outbox'[e][i].op = "remove",
                        outbox'[e][i].entry.node = "teammateRequests"
                 PROVE  \E u \in Others(e) :
                          /\ outbox'[e][i].entry \in
                                {At("teammateRequests", Me(e), u),
                                 At("teammateRequests", u, Me(e))}
                          /\ outbox'[e][i].by = "decline" \/ Forming(e, u, i)'
        BY DEF RequestRemovals, Others, Me
    <2>1. e # d
        BY <1>9
    <2> QED BY <1>2, <1>7, <2>1 DEF QueueInv, RequestRemovals
<1> QED BY <1>3, <1>7, <1>8, <1>10, <1>11, <1>12, <1>13 DEF QueueInv

\* The batches of the operations keep the order.
LEMMA AcceptOrdered ==
    ASSUME NEW d \in Device, NEW u \in Others(d)
    PROVE  /\ PairsSet(d, AcceptWrites(Me(d), u))
           /\ RemovalsFollow(d, AcceptWrites(Me(d), u))
<1> DEFINE s == AcceptWrites(Me(d), u)
           me == Me(d)
<1>1. /\ DOMAIN s = {1, 2, 3, 4}
      /\ s[1] = SetValue(At("teammates", me, u), "accept")
      /\ s[2] = SetValue(At("teammates", u, me), "accept")
      /\ s[3] = RemoveValue(At("teammateRequests", me, u), "accept")
      /\ s[4] = RemoveValue(At("teammateRequests", u, me), "accept")
    BY DEF AcceptWrites
<1>2. u # me
    BY DEF Others
<1> HIDE DEF s
<1>3. /\ Sets(s[1], At("teammates", me, u)) /\ Sets(s[2], At("teammates", u, me))
      /\ s[3].op = "remove" /\ s[4].op = "remove"
      /\ s[3].entry = At("teammateRequests", me, u)
      /\ s[4].entry = At("teammateRequests", u, me)
      /\ s[1].op = "set" /\ s[2].op = "set"
      /\ s[1].entry = At("teammates", me, u) /\ s[2].entry = At("teammates", u, me)
    BY <1>1 DEF Sets, SetValue, RemoveValue
<1> HIDE DEF me
<1>4. ASSUME NEW j \in DOMAIN s, NEW v,
             Sets(s[j], At("teammates", me, v)), v # me
      PROVE  j = 1 /\ v = u
    BY <1>1, <1>2, <1>3, <1>4 DEF Sets, At
<1>5. ASSUME NEW j \in DOMAIN s, NEW v,
             Sets(s[j], At("teammates", v, me)), v # me
      PROVE  j = 2 /\ v = u
    BY <1>1, <1>2, <1>3, <1>5 DEF Sets, At
<1>6. PairsSet(d, s)
    <2>1. ASSUME NEW j \in DOMAIN s, s[j].op = "set"
          PROVE  Sets(s[j], At("teammates", me, u))
                 \/ Sets(s[j], At("teammates", u, me))
        BY <1>1, <1>3, <2>1
    <2>2. ASSUME NEW j \in DOMAIN s, NEW v \in Others(d),
                 Sets(s[j], At("teammates", me, v))
          PROVE  j + 1 \in DOMAIN s /\ Sets(s[j + 1], At("teammates", v, me))
        <3>1. j = 1 /\ v = u
            BY <1>4, <2>2 DEF Others, me
        <3>2. j + 1 = 2
            BY <3>1
        <3> QED BY <1>1, <1>3, <3>1, <3>2
    <2>3. ASSUME NEW j \in DOMAIN s, NEW v \in Others(d),
                 Sets(s[j], At("teammates", v, me))
          PROVE  j - 1 \in DOMAIN s /\ Sets(s[j - 1], At("teammates", me, v))
        <3>1. j = 2 /\ v = u
            BY <1>5, <2>3 DEF Others, me
        <3>2. j - 1 = 1
            BY <3>1
        <3> QED BY <1>1, <1>3, <3>1, <3>2
    <2> QED BY <2>1, <2>2, <2>3 DEF PairsSet, me
<1>7. RemovalsFollow(d, s)
    <2>1. ASSUME NEW j \in DOMAIN s, s[j].op = "remove"
          PROVE  /\ s[j].entry \in {At("teammateRequests", me, u),
                                    At("teammateRequests", u, me)}
                 /\ 2 < j
        BY <1>1, <1>3, <2>1
    <2> QED BY <1>1, <1>3, <2>1 DEF RemovalsFollow, me
<1> QED BY <1>6, <1>7 DEF s

\* The other batches set no edges, and remove a request only to decline it.
LEMMA OthersOrdered ==
    ASSUME NEW d \in Device, NEW u \in Others(d)
    PROVE  \A s \in {RequestWrites(Me(d), u), RemoveWrites(Me(d), u),
                     <<RemoveValue(At("teammateRequests", Me(d), u), "decline")>>,
                     << SetValue(At("directChats", Me(d), u), "message"),
                        SetValue(At("directChats", u, Me(d)), "message") >>} :
              PairsSet(d, s) /\ RemovalsFollow(d, s)
<1>1. ASSUME NEW s,
             \A j \in DOMAIN s : s[j].op = "set" => s[j].entry.node # "teammates",
             \A j \in DOMAIN s :
                s[j].op = "remove" /\ s[j].entry.node = "teammateRequests" =>
                    /\ s[j].entry = At("teammateRequests", Me(d), u)
                    /\ s[j].by = "decline"
      PROVE  PairsSet(d, s) /\ RemovalsFollow(d, s)
    <2>1. \A j \in DOMAIN s : \A a, b : ~Sets(s[j], At("teammates", a, b))
        BY <1>1 DEF Sets, At
    <2> QED BY <1>1, <2>1 DEF PairsSet, RemovalsFollow
<1>2. ASSUME NEW s, s = RequestWrites(Me(d), u)
      PROVE  PairsSet(d, s) /\ RemovalsFollow(d, s)
    <2>1. \A j \in DOMAIN s : s[j].op = "set" /\ s[j].entry.node = "teammateRequests"
        BY <1>2 DEF RequestWrites, SetValue, At
    <2> QED BY <1>1, <2>1
<1>3. ASSUME NEW s, s = RemoveWrites(Me(d), u)
      PROVE  PairsSet(d, s) /\ RemovalsFollow(d, s)
    <2>1. \A j \in DOMAIN s :
             s[j].op = "remove" /\ s[j].entry.node \in {"teammates", "directChats"}
        BY <1>3 DEF RemoveWrites, RemoveValue, At
    <2> QED BY <1>1, <2>1
<1>4. ASSUME NEW s,
             s = <<RemoveValue(At("teammateRequests", Me(d), u), "decline")>>
      PROVE  PairsSet(d, s) /\ RemovalsFollow(d, s)
    <2>1. \A j \in DOMAIN s :
             /\ s[j].op = "remove" /\ s[j].by = "decline"
             /\ s[j].entry = At("teammateRequests", Me(d), u)
        BY <1>4 DEF RemoveValue
    <2> QED BY <1>1, <2>1
<1>5. ASSUME NEW s, s = << SetValue(At("directChats", Me(d), u), "message"),
                           SetValue(At("directChats", u, Me(d)), "message") >>
      PROVE  PairsSet(d, s) /\ RemovalsFollow(d, s)
    <2>1. \A j \in DOMAIN s : s[j].op = "set" /\ s[j].entry.node = "directChats"
        BY <1>5 DEF SetValue, At
    <2> QED BY <1>1, <2>1
<1> QED BY <1>2, <1>3, <1>4, <1>5

LEMMA InitQueue == Init => QueueInv
<1> SUFFICES ASSUME Init PROVE QueueInv
    OBVIOUS
<1>1. \A d \in Device : DOMAIN outbox[d] = {} /\ Len(outbox[d]) = 0 /\ unacked[d] = 0
    BY DEF Init
<1>2. UnackedQueued
    BY <1>1 DEF UnackedQueued
<1> QED BY <1>1, <1>2
        DEF QueueInv, OwnPairs, EdgesTogether, RequestRemovals

\* A message is written to a user whose chat is open.
ChatsHeld(d, s) ==
    \A j \in DOMAIN s :
        s[j].op = "set" /\ s[j].entry.node = "directChats" =>
            \E u \in Held(d) : s[j].entry \in {At("directChats", Me(d), u),
                                              At("directChats", u, Me(d))}

LEMMA ChatsOfCalls ==
    ASSUME NEW d \in Device, NEW u \in User
    PROVE  /\ ChatsHeld(d, RequestWrites(Me(d), u))
           /\ ChatsHeld(d, AcceptWrites(Me(d), u))
           /\ ChatsHeld(d, <<RemoveValue(At("teammateRequests", Me(d), u),
                                         "decline")>>)
           /\ ChatsHeld(d, RemoveWrites(Me(d), u))
           /\ [kind |-> "chat", user |-> u] \in captured[d] =>
                 ChatsHeld(d, << SetValue(At("directChats", Me(d), u), "message"),
                                 SetValue(At("directChats", u, Me(d)), "message") >>)
<1>1. ChatsHeld(d, RequestWrites(Me(d), u))
    BY DEF ChatsHeld, RequestWrites, SetValue, At
<1>2. ChatsHeld(d, AcceptWrites(Me(d), u))
    BY DEF ChatsHeld, AcceptWrites, SetValue, RemoveValue, At
<1>3. ChatsHeld(d, <<RemoveValue(At("teammateRequests", Me(d), u), "decline")>>)
    BY DEF ChatsHeld, RemoveValue, At
<1>4. ChatsHeld(d, RemoveWrites(Me(d), u))
    BY DEF ChatsHeld, RemoveWrites, RemoveValue, At
<1>5. ASSUME [kind |-> "chat", user |-> u] \in captured[d]
      PROVE  ChatsHeld(d, << SetValue(At("directChats", Me(d), u), "message"),
                             SetValue(At("directChats", u, Me(d)), "message") >>)
    <2>1. u \in Held(d)
        BY <1>5 DEF Held, Source
    <2> QED BY <2>1 DEF ChatsHeld, SetValue
<1> QED BY <1>1, <1>2, <1>3, <1>4, <1>5

\* What a step of the screens or of a call does.
Noting == formed \subseteq formed' /\ disturbed \subseteq disturbed'
Quiet == tree' = tree /\ outbox' = outbox /\ unacked' = unacked /\ Noting
Batch(d, s) ==
    /\ s \in Seq(Writes) /\ Call(d, s)
    /\ PairsSet(d, s) /\ RemovalsFollow(d, s) /\ ChatsHeld(d, s)
    /\ tree' = tree /\ unacked' = unacked /\ Noting

\* The operations of the user, by what they queue.
LEMMA CallsBatch ==
    ASSUME TypeOK, NEW d \in Device, NEW u \in User
    PROVE  /\ SendRequest(d, u) => Batch(d, RequestWrites(Me(d), u))
           /\ AcceptTeammateRequest(d, u) => Batch(d, AcceptWrites(Me(d), u))
           /\ DeclineTeammateRequest(d, u) =>
                 Batch(d, <<RemoveValue(At("teammateRequests", Me(d), u),
                                        "decline")>>)
           /\ RemoveTeammate(d, u) => Batch(d, RemoveWrites(Me(d), u))
           /\ SendDirectMessage(d, u) =>
                 Batch(d, << SetValue(At("directChats", Me(d), u), "message"),
                             SetValue(At("directChats", u, Me(d)), "message") >>)
<1>1. Me(d) \in User
    BY MeType
<1>2. SendRequest(d, u) => u # Me(d)
    BY DEF SendRequest, TypeOK, OnlyOthers
<1>3. \A c \in captured[d] : c.user # Me(d)
    BY DEF TypeOK, OnlyOthers
<1>4. (\/ AcceptTeammateRequest(d, u) \/ DeclineTeammateRequest(d, u)
       \/ RemoveTeammate(d, u) \/ SendDirectMessage(d, u)) => u # Me(d)
    BY <1>3 DEF AcceptTeammateRequest, DeclineTeammateRequest, RemoveTeammate,
                SendDirectMessage, Confirmed
<1>5. CASE u = Me(d)
    BY <1>2, <1>4, <1>5
<1>6. CASE u # Me(d)
    <2>1. u \in Others(d)
        BY <1>6 DEF Others
    <2>2. SendRequest(d, u) => Batch(d, RequestWrites(Me(d), u))
        BY <1>1, <1>6, <2>1, BatchTypes, OthersOrdered, ChatsOfCalls
        DEF SendRequest, Batch, Noting, faults
    <2>3. AcceptTeammateRequest(d, u) => Batch(d, AcceptWrites(Me(d), u))
        BY <1>1, <1>6, <2>1, BatchTypes, AcceptOrdered, ChatsOfCalls
        DEF AcceptTeammateRequest, Batch, Noting, NoteCrossing, faults
    <2>4. DeclineTeammateRequest(d, u) =>
             Batch(d, <<RemoveValue(At("teammateRequests", Me(d), u), "decline")>>)
        BY <1>1, <1>6, <2>1, BatchTypes, OthersOrdered, ChatsOfCalls
        DEF DeclineTeammateRequest, Batch, Noting, faults, history
    <2>5. RemoveTeammate(d, u) => Batch(d, RemoveWrites(Me(d), u))
        BY <1>1, <1>6, <2>1, BatchTypes, OthersOrdered, ChatsOfCalls
        DEF RemoveTeammate, Batch, Noting, NoteCrossing, faults
    <2>6. SendDirectMessage(d, u) =>
             Batch(d, << SetValue(At("directChats", Me(d), u), "message"),
                         SetValue(At("directChats", u, Me(d)), "message") >>)
        BY <1>1, <1>6, <2>1, BatchTypes, OthersOrdered, ChatsOfCalls
        DEF SendDirectMessage, Batch, Noting, faults, history
    <2> QED BY <2>2, <2>3, <2>4, <2>5, <2>6
<1> QED BY <1>5, <1>6

\* What a step may do to queues and database.
LEMMA StepKinds ==
    ASSUME TypeOK, [Next]_vars
    PROVE  \/ Quiet
           \/ \E d \in Device : \E s : Batch(d, s)
           \/ \E d \in Device :
                 Deliver(d) \/ DeliverUnacked(d) \/ Reconnect(d) \/ Crash(d)
<1>1. ASSUME NEW d \in Device,
             \/ FetchPlayers(d)
             \/ \E t \in User : RequestPlayerToTeamUp(d, t) \/ FindAlreadyRequested(d, t)
             \/ \E n \in List : ObserveEmpty(d, n) \/ Observe(d, n)
             \/ \E r \in rounds[d] : FinishRound(d, r)
             \/ \E c \in Capture : Open(d, c)
             \/ Close(d)
      PROVE  Quiet
    BY <1>1 DEF FetchPlayers, ListPlayers, RequestPlayerToTeamUp,
                FindAlreadyRequested, ObserveEmpty, Observe, Report, FinishRound,
                Open, Close, Quiet, Noting, faults, history
<1>2. ASSUME NEW d \in Device, NEW u \in User,
             \/ SendRequest(d, u) \/ AcceptTeammateRequest(d, u)
             \/ DeclineTeammateRequest(d, u) \/ RemoveTeammate(d, u)
             \/ SendDirectMessage(d, u)
      PROVE  \E s : Batch(d, s)
    BY <1>2, CallsBatch
<1>3. CASE UNCHANGED vars
    BY <1>3 DEF vars, Quiet, Noting, faults, history
<1> QED BY <1>1, <1>2, <1>3 DEF Next

\* Nothing noted is forgotten, and the queues keep their order.
LEMMA NextQueue ==
    TypeOK /\ MutualInv /\ QueueInv /\ [Next]_vars => QueueInv'
<1> SUFFICES ASSUME TypeOK, MutualInv, QueueInv, [Next]_vars
             PROVE  QueueInv'
    OBVIOUS
<1>1. outbox \in [Device -> Seq(Writes)] /\ unacked \in [Device -> Nat]
    BY DEF TypeOK, Writes
<1>2. CASE Quiet
    BY <1>2, QuietQueue DEF Quiet, Noting
<1>3. ASSUME NEW d \in Device, NEW s, Batch(d, s) PROVE QueueInv'
    BY <1>1, <1>3, BatchQueue DEF Batch, Noting
<1>4. ASSUME NEW d \in Device,
             Deliver(d) \/ DeliverUnacked(d) \/ Reconnect(d) \/ Crash(d)
      PROVE  QueueInv'
    BY <1>4, DeliverQueue, UnackedQueue, ReconnectQueue, CrashQueue
<1> QED BY <1>2, <1>3, <1>4, StepKinds

\* A request leaves the database only by a refusal, or after both edges.
LEMMA RequestLeaves ==
    ASSUME TypeOK, QueueInv, [Next]_vars,
           NEW e \in tree \ tree', e.node = "teammateRequests"
    PROVE  \/ {e.owner, e.peer} \in formed \cup disturbed
           \/ \E d \in Device :
                 /\ unacked[d] < Len(outbox[d])
                 /\ NextWrite(d) = RemoveValue(e, "decline")
<1>1. ~Quiet /\ ~(\E d \in Device : \E s : Batch(d, s))
    BY DEF Quiet, Batch
<1>2. PICK d \in Device : Deliver(d) \/ DeliverUnacked(d)
    <2>1. \A d \in Device : ~Reconnect(d) /\ ~Crash(d)
        BY DEF Reconnect, Crash
    <2> QED BY <1>1, <2>1, StepKinds
<1> DEFINE n == unacked[d] + 1
<1>3. /\ n \in DOMAIN outbox[d] /\ outbox[d][n] \in Writes
      /\ unacked[d] < Len(outbox[d])
      /\ tree' = Applied(outbox[d][n], tree)
    <2>1. outbox[d] \in Seq(Writes) /\ unacked[d] \in Nat
        BY DEF TypeOK, Writes
    <2>2. unacked[d] < Len(outbox[d])
        BY <1>2, <2>1 DEF Deliver, DeliverUnacked
    <2>3. n \in DOMAIN outbox[d] /\ outbox[d][n] \in Writes
        BY <2>1, <2>2
    <2>4. Deliver(d) => Head(outbox[d]) = outbox[d][n]
        BY <2>1 DEF Deliver
    <2> QED BY <1>2, <2>2, <2>3, <2>4 DEF Deliver, DeliverUnacked, Apply, NextWrite
<1>4. outbox[d][n].op = "remove" /\ outbox[d][n].entry = e
    BY <1>3 DEF Applied, Writes, Write
<1>5. PICK u \in Others(d) :
         /\ e \in {At("teammateRequests", Me(d), u), At("teammateRequests", u, Me(d))}
         /\ outbox[d][n].by = "decline" \/ Forming(d, u, n)
    BY <1>3, <1>4 DEF QueueInv, RequestRemovals
<1>6. CASE outbox[d][n].by = "decline"
    <2>1. outbox[d][n] = RemoveValue(e, "decline")
        BY <1>3, <1>4, <1>6 DEF Writes, Write, RemoveValue
    <2> QED BY <1>3, <2>1 DEF NextWrite
<1>7. CASE Forming(d, u, n)
    <2>1. \A j \in DOMAIN outbox[d] : ~(unacked[d] < j /\ j < n)
        BY DEF TypeOK
    <2>2. Noted(Me(d), u)
        BY <1>7, <2>1 DEF Forming
    <2>3. {e.owner, e.peer} = {Me(d), u}
        BY <1>5 DEF At
    <2> QED BY <2>2, <2>3 DEF Noted
<1> QED BY <1>5, <1>6, <1>7

\* Only a refusal, or a friendship that the server has had, takes a request
\* away, however often its acceptance is sent and wherever the app is killed.
THEOREM RequestsNotLost == Spec => RequestNotLost
<1> DEFINE Leaves ==
        \A e \in tree \ tree' :
            e.node = "teammateRequests" =>
                \/ {e.owner, e.peer} \in formed \cup disturbed
                \/ \E d \in Device :
                      /\ unacked[d] < Len(outbox[d])
                      /\ NextWrite(d) = RemoveValue(e, "decline")
<1>1. TypeOK /\ QueueInv /\ [Next]_vars => [Leaves]_vars
    BY RequestLeaves
<1> HIDE DEF Leaves
<1>2. Spec => [][Leaves]_vars
    BY <1>1, InitTypeOK, NextTypeOK, InitMutual, NextMutual, InitQueue, NextQueue,
       PTL DEF Spec
<1> QED BY <1>2 DEF RequestNotLost, Leaves

------------------------------------------------------------------------------
(* No chat before the friendship *)

LEMMA InitChat == Init => ChatInv
<1> SUFFICES ASSUME Init PROVE ChatInv
    OBVIOUS
<1>1. ChatWrites
    BY DEF Init, ChatWrites
<1>2. EdgesForming
    <2> SUFFICES ASSUME NEW a \in User, NEW b \in User,
                        At("teammates", a, b) \in tree
                 PROVE  Noted(a, b)
        BY DEF EdgesForming
    <2>1. PICK p \in Past : At("teammates", a, b) \in Edges(p[1], p[2])
        BY DEF Init, At
    <2>2. {a, b} = {p[1], p[2]}
        BY <2>1 DEF Edges, At
    <2> QED BY <2>2 DEF Init, Noted
<1>3. ListsForming
    BY DEF Init, ListsForming, Held, NothingShown, List
<1>4. ChatsOfFormedPairs
    BY DEF Init, ChatsOfFormedPairs, Edges, At
<1> QED BY <1>1, <1>2, <1>3, <1>4 DEF ChatInv

\* A teammate that a device sees, in its own queue or on the server, has the
\* second edge on its way as well: this is where one device per user counts.
LEMMA SeenForming ==
    ASSUME OneDevice, TypeOK, QueueInv, EdgesForming,
           NEW d \in Device, NEW u \in View(d, "teammates")
    PROVE  u \in Others(d) /\ WillForm(d, u)
<1>1. u \in Others(d) /\ Seen(tree, outbox[d], At("teammates", Me(d), u))
    BY DEF View, Others
<1>2. outbox[d] \in Seq(Writes) /\ unacked[d] \in Nat
    BY DEF TypeOK, Writes
<1>3. CASE At("teammates", Me(d), u) \in tree
    <2>1. PICK e \in Device : Noted(Me(d), u) \/ (Me(e) = Me(d) /\ WillForm(e, u))
        BY <1>1, <1>3, MeType DEF EdgesForming, Others
    <2> QED BY <1>1, <2>1 DEF OneDevice, WillForm, Forming
<1>4. CASE \E i \in DOMAIN outbox[d] : OwnEdgeSet(d, i, u)
    <2>1. PICK i \in DOMAIN outbox[d] : OwnEdgeSet(d, i, u)
        BY <1>4
    <2>2. i + 1 \in DOMAIN outbox[d] /\ OtherEdgeSet(d, i + 1, u)
        BY <1>1, <2>1 DEF QueueInv, EdgesTogether
    <2>3. ~Noted(Me(d), u) => unacked[d] < i + 1
        BY <1>1, <2>2 DEF QueueInv, EdgesTogether
    <2>4. i + 1 < Len(outbox[d]) + 1
        BY <1>2, <2>1, <2>2
    <2> QED BY <1>1, <2>2, <2>3, <2>4 DEF WillForm, Forming
<1> QED BY <1>1, <1>3, <1>4 DEF Seen, OwnEdgeSet

LEMMA HeldOthers ==
    ASSUME TypeOK, NEW d \in Device, NEW u \in Held(d)
    PROVE  u \in Others(d)
BY DEF TypeOK, OnlyOthers, Held, Others, List

\* The users held for teammates come from what the observer reports.
LEMMA HeldStep ==
    ASSUME TypeOK, [Next]_vars, NEW e \in Device
    PROVE  Held(e)' \subseteq Held(e) \cup View(e, "teammates")
<1>1. CASE UNCHANGED <<shown, rounds, captured>>
    BY <1>1 DEF Held
<1>2. ASSUME NEW d \in Device, NEW n \in List, ObserveEmpty(d, n) \/ Observe(d, n)
      PROVE  Held(e)' \subseteq Held(e) \cup View(e, "teammates")
    <2>1. CASE ObserveEmpty(d, n)
        BY <2>1 DEF ObserveEmpty, Report, Show, Held, TypeOK
    <2>2. CASE Observe(d, n)
        BY <2>2 DEF Observe, Report, Held, TypeOK
    <2> QED BY <1>2, <2>1, <2>2
<1>3. ASSUME NEW d \in Device, NEW r \in rounds[d], FinishRound(d, r)
      PROVE  Held(e)' \subseteq Held(e)
    BY <1>3 DEF FinishRound, Show, Held, TypeOK
<1>4. ASSUME NEW d \in Device, NEW c \in Capture, Open(d, c)
      PROVE  Held(e)' \subseteq Held(e)
    BY <1>4 DEF Open, Held, TypeOK
<1>5. ASSUME NEW d \in Device, NEW u \in User,
             \/ Close(d) \/ AcceptTeammateRequest(d, u)
             \/ DeclineTeammateRequest(d, u) \/ RemoveTeammate(d, u)
             \/ Crash(d)
      PROVE  Held(e)' \subseteq Held(e)
    <2>1. /\ captured'[e] \subseteq captured[e]
          /\ rounds'[e] \subseteq rounds[e]
          /\ shown'[e]["teammates"] \subseteq shown[e]["teammates"]
        <3>1. CASE Close(d) \/ RemoveTeammate(d, u)
            BY <3>1 DEF Close, RemoveTeammate, Confirmed, TypeOK
        <3>2. CASE AcceptTeammateRequest(d, u) \/ DeclineTeammateRequest(d, u)
            <4>1. shown'[e]["teammates"] = shown[e]["teammates"]
                <5>1. DropRequest(d, u)
                    BY <3>2 DEF AcceptTeammateRequest, DeclineTeammateRequest
                <5>2. shown \in [Device -> [List -> SUBSET User]]
                    BY DEF TypeOK
                <5>3. CASE UNCHANGED shown
                    BY <5>3
                <5>4. CASE shown' = [shown EXCEPT ![d]["teammateRequests"] = @ \ {u}]
                    <6>1. CASE e = d
                        BY <5>2, <5>4, <6>1 DEF List
                    <6>2. CASE e # d
                        BY <5>2, <5>4, <6>2
                    <6> QED BY <6>1, <6>2
                <5> QED BY <5>1, <5>3, <5>4 DEF DropRequest
            <4> QED BY <3>2, <4>1 DEF AcceptTeammateRequest, DeclineTeammateRequest,
                                      Confirmed, TypeOK
        <3>3. CASE Crash(d)
            BY <3>3 DEF Crash, TypeOK, NothingShown, List
        <3> QED BY <1>5, <3>1, <3>2, <3>3
    <2> QED BY <2>1 DEF Held
<1>6. ASSUME NEW d \in Device,
             \/ FetchPlayers(d)
             \/ \E t \in User :
                   \/ RequestPlayerToTeamUp(d, t) \/ FindAlreadyRequested(d, t)
                   \/ SendRequest(d, t) \/ SendDirectMessage(d, t)
             \/ Deliver(d) \/ DeliverUnacked(d) \/ Reconnect(d)
      PROVE  UNCHANGED <<shown, rounds, captured>>
    BY <1>6 DEF FetchPlayers, ListPlayers, RequestPlayerToTeamUp,
                FindAlreadyRequested, SendRequest, SendDirectMessage, Deliver,
                DeliverUnacked, Reconnect, client
<1>7. CASE UNCHANGED vars
    BY <1>1, <1>7 DEF vars, client
<1>8. User # {}
    BY MeType
<1> QED BY <1>1, <1>2, <1>3, <1>4, <1>5, <1>6, <1>7, <1>8 DEF Next

\* Whoever was on the way to a friendship stays on it.
LEMMA FormingKept ==
    ASSUME TypeOK, MutualInv, QueueInv, [Next]_vars
    PROVE  /\ formed \subseteq formed' /\ disturbed \subseteq disturbed'
           /\ \A e \in Device : \A u \in Others(e) :
                 WillForm(e, u) => WillForm(e, u)'
<1>1. outbox \in [Device -> Seq(Writes)] /\ unacked \in [Device -> Nat]
    BY DEF TypeOK, Writes
<1>2. CASE Quiet
    BY <1>2, QuietQueue DEF Quiet, Noting
<1>3. ASSUME NEW d \in Device, NEW s, Batch(d, s)
      PROVE  /\ formed \subseteq formed' /\ disturbed \subseteq disturbed'
             /\ \A e \in Device : \A u \in Others(e) :
                   WillForm(e, u) => WillForm(e, u)'
    BY <1>1, <1>3, BatchQueue DEF Batch, Noting
<1>4. ASSUME NEW d \in Device,
             Deliver(d) \/ DeliverUnacked(d) \/ Reconnect(d) \/ Crash(d)
      PROVE  /\ formed \subseteq formed' /\ disturbed \subseteq disturbed'
             /\ \A e \in Device : \A u \in Others(e) :
                   WillForm(e, u) => WillForm(e, u)'
    <2>1. CASE Deliver(d)
        BY <2>1, DeliverQueue
    <2>2. CASE DeliverUnacked(d)
        BY <2>2, UnackedQueue
    <2>3. CASE Reconnect(d)
        <3>1. formed' = formed /\ disturbed' = disturbed
            BY <2>3 DEF Reconnect, history
        <3> QED BY <2>3, <3>1, ReconnectQueue
    <2>4. CASE Crash(d)
        BY <2>4, CrashQueue
    <2> QED BY <1>4, <2>1, <2>2, <2>3, <2>4
<1> QED BY <1>2, <1>3, <1>4, StepKinds

\* An entry appears on the server only through the next write of a queue.
LEMMA EntryArrives ==
    ASSUME TypeOK, [Next]_vars, NEW e \in tree' \ tree
    PROVE  \E d \in Device :
              LET n == unacked[d] + 1
              IN  /\ NextApplied(d, n)
                  /\ n \in DOMAIN outbox[d] /\ outbox[d][n] \in Writes
                  /\ Sets(outbox[d][n], e)
<1>1. ~Quiet /\ ~(\E d \in Device : \E s : Batch(d, s))
    BY DEF Quiet, Batch
<1>2. PICK d \in Device : Deliver(d) \/ DeliverUnacked(d)
    <2>1. \A d \in Device : ~Reconnect(d) /\ ~Crash(d)
        BY DEF Reconnect, Crash
    <2> QED BY <1>1, <2>1, StepKinds
<1> DEFINE n == unacked[d] + 1
<1>3. outbox[d] \in Seq(Writes) /\ unacked[d] \in Nat
    BY DEF TypeOK, Writes
<1>4. unacked[d] < Len(outbox[d])
    BY <1>2, <1>3 DEF Deliver, DeliverUnacked
<1>5. n \in DOMAIN outbox[d] /\ outbox[d][n] \in Writes
    BY <1>3, <1>4
<1>6. Deliver(d) => Head(outbox[d]) = outbox[d][n]
    BY <1>3 DEF Deliver
<1>7. NextApplied(d, n)
    BY <1>2, <1>5, <1>6 DEF Deliver, DeliverUnacked, NextWrite, NextApplied
<1>8. Sets(outbox[d][n], e)
    BY <1>7 DEF NextApplied, Applied, Apply, Sets
<1> QED BY <1>5, <1>7, <1>8

\* The messages in the queues stay behind the edges.
LEMMA ChatWritesKept ==
    ASSUME TypeOK, MutualInv, QueueInv, ChatInv, [Next]_vars
    PROVE  ChatWrites'
<1> DEFINE Chat(e, i) == /\ outbox[e][i].op = "set"
                         /\ outbox[e][i].entry.node = "directChats"
           Of(e, i, u) == outbox[e][i].entry \in {At("directChats", Me(e), u),
                                                  At("directChats", u, Me(e))}
<1>1. outbox \in [Device -> Seq(Writes)] /\ unacked \in [Device -> Nat]
    BY DEF TypeOK, Writes
<1>2. SUFFICES ASSUME NEW e \in Device, NEW i \in DOMAIN outbox'[e], Chat(e, i)'
               PROVE  \E u \in Others(e) : Of(e, i, u)' /\ Forming(e, u, i)'
    BY DEF ChatWrites, Others, Me
<1>3. \A j \in DOMAIN outbox[e] :
         Chat(e, j) => \E u \in Others(e) : Of(e, j, u) /\ Forming(e, u, j)
    BY DEF ChatInv, ChatWrites
<1>4. ASSUME i \in DOMAIN outbox[e], outbox'[e][i] = outbox[e][i],
             \A u, n : Forming(e, u, n) => Forming(e, u, n)'
      PROVE  \E u \in Others(e) : Of(e, i, u)' /\ Forming(e, u, i)'
    BY <1>2, <1>3, <1>4 DEF Me
<1>5. CASE Quiet
    BY <1>4, <1>5, QuietQueue DEF Quiet, Noting
<1>6. ASSUME NEW d \in Device, NEW s, Batch(d, s)
      PROVE  \E u \in Others(e) : Of(e, i, u)' /\ Forming(e, u, i)'
    <2>1. /\ \A c \in Device : \A u, n : Forming(c, u, n) => Forming(c, u, n)'
          /\ \A c \in Device : \A u : WillForm(c, u) => WillForm(c, u)'
        BY <1>1, <1>6, BatchQueue DEF Batch, Noting
    <2> DEFINE q == outbox[d]
    <2>2. q \in Seq(Writes) /\ s \in Seq(Writes)
        BY <1>1, <1>6 DEF Batch
    <2>3. /\ outbox'[d] = q \o s
          /\ \A c \in Device : c # d => outbox'[c] = outbox[c]
        BY <1>1, <1>6 DEF Batch, Call
    <2> DEFINE r == q \o s
    <2>4. /\ \A j \in DOMAIN q : r[j] = q[j]
          /\ \A j \in DOMAIN s : r[Len(q) + j] = s[j]
          /\ \A j \in DOMAIN r : j \notin DOMAIN q =>
                \E k \in DOMAIN s : j = Len(q) + k
        BY <2>2, Positions
    <2> HIDE DEF r
    <2>5. PICK L \in Nat : L = Len(q)
        BY <2>2
    <2>6. \A k \in DOMAIN s : k \in Nat /\ 1 <= k
        BY <2>2
    <2>7. CASE i \in DOMAIN outbox[e]
        <3>1. outbox'[e][i] = outbox[e][i]
            BY <2>3, <2>4, <2>7 DEF r
        <3> QED BY <1>4, <2>1, <2>7, <3>1
    <2>8. CASE i \notin DOMAIN outbox[e]
        <3>1. e = d
            BY <2>3, <2>8
        <3>a. i \in DOMAIN r /\ i \notin DOMAIN q /\ outbox'[e] = r
            BY <1>2, <2>3, <2>8, <3>1 DEF r
        <3>b. PICK k \in DOMAIN s : i = Len(q) + k
            BY <2>4, <3>a
        <3>2. i = L + k /\ outbox'[e][i] = s[k]
            BY <2>4, <2>5, <3>a, <3>b
        <3>3. PICK u \in Held(d) : s[k].entry \in {At("directChats", Me(d), u),
                                                   At("directChats", u, Me(d))}
            BY <1>2, <1>6, <3>2 DEF Batch, ChatsHeld
        <3>4. u \in Others(d) /\ WillForm(d, u)
            BY <3>3, HeldOthers DEF ChatInv, ListsForming
        <3>5. WillForm(d, u)'
            BY <2>1, <3>4
        <3>6. Forming(d, u, L + 1)
            BY <2>5, <3>4 DEF WillForm, q
        <3>7. Forming(d, u, L + 1)'
            BY <2>1, <3>6
        <3>8. Forming(d, u, i)'
            <4>1. \A j \in DOMAIN outbox'[d] : j < L + 1 => j < i
                <5>1. outbox'[d] \in Seq(Writes)
                    BY <2>2, <2>3
                <5> QED BY <2>6, <3>2, <5>1
            <4> QED BY <3>7, <4>1 DEF Forming
        <3> QED BY <3>1, <3>2, <3>3, <3>4, <3>8 DEF Me
    <2> QED BY <2>7, <2>8
<1>7. ASSUME NEW d \in Device, Deliver(d)
      PROVE  \E u \in Others(e) : Of(e, i, u)' /\ Forming(e, u, i)'
    <2>1. outbox[d] \in Seq(Writes) /\ outbox[d] # <<>>
          /\ outbox' = [outbox EXCEPT ![d] = Tail(outbox[d])]
        BY <1>1, <1>7 DEF Deliver
    <2>2. CASE e # d
        <3>1. outbox'[e] = outbox[e]
            BY <1>1, <2>1, <2>2
        <3> QED BY <1>4, <1>7, <2>2, <3>1, DeliverQueue
    <2>3. CASE e = d
        <3>1. i \in DOMAIN Tail(outbox[d]) /\ outbox'[d] = Tail(outbox[d])
            BY <1>1, <2>1, <2>3
        <3>a. \A j \in DOMAIN Tail(outbox[d]) :
                 /\ j \in Nat /\ j + 1 \in DOMAIN outbox[d]
                 /\ Tail(outbox[d])[j] = outbox[d][j + 1]
            BY <2>1
        <3>2. /\ i \in Nat /\ i + 1 \in DOMAIN outbox[d]
              /\ outbox'[d][i] = outbox[d][i + 1]
            BY <3>1, <3>a
        <3>3. PICK u \in Others(d) : Of(d, i + 1, u) /\ Forming(d, u, i + 1)
            BY <1>2, <1>3, <2>3, <3>2
        <3>4. Forming(d, u, i)'
            BY <1>7, <3>2, <3>3, DeliverQueue
        <3> QED BY <2>3, <3>2, <3>3, <3>4 DEF Me
    <2> QED BY <2>2, <2>3
<1>8. ASSUME NEW d \in Device, DeliverUnacked(d) \/ Reconnect(d)
      PROVE  \E u \in Others(e) : Of(e, i, u)' /\ Forming(e, u, i)'
    <2>1. outbox' = outbox
        BY <1>8 DEF DeliverUnacked, Reconnect
    <2>2. \A u \in Others(e) : \A n : Forming(e, u, n) => Forming(e, u, n)'
        BY <1>8, UnackedQueue, ReconnectQueue
    <2> QED BY <1>2, <1>3, <2>1, <2>2 DEF Me
<1>9. ASSUME NEW d \in Device, Crash(d)
      PROVE  \E u \in Others(e) : Of(e, i, u)' /\ Forming(e, u, i)'
    <2>1. outbox'[e] = outbox[e]
        <3>1. e = d => outbox'[e] = <<>>
            BY <1>1, <1>9 DEF Crash
        <3>2. e # d
            BY <1>2, <3>1
        <3> QED BY <1>1, <1>9, <3>2 DEF Crash
    <2> QED BY <1>2, <1>4, <1>9, <2>1, CrashQueue
<1> QED BY <1>5, <1>6, <1>7, <1>8, <1>9, StepKinds

LEMMA NextChat ==
    ASSUME OneDevice, TypeOK, MutualInv, QueueInv, ChatInv, [Next]_vars
    PROVE  ChatInv'
<1>1. \A a, b : Noted(a, b) => Noted(a, b)'
    BY FormingKept, NotedKept
<1>2. \A e \in Device : \A u \in Others(e) : WillForm(e, u) => WillForm(e, u)'
    BY FormingKept
<1>3. ListsForming'
    <2> SUFFICES ASSUME NEW e \in Device, NEW u \in Held(e)'
                 PROVE  WillForm(e, u)'
        BY DEF ListsForming
    <2>1. u \in Others(e) /\ WillForm(e, u)
        BY HeldStep, HeldOthers, SeenForming DEF ChatInv, ListsForming
    <2> QED BY <1>2, <2>1
<1>4. EdgesForming'
    <2> SUFFICES ASSUME NEW a \in User, NEW b \in User,
                        At("teammates", a, b) \in tree'
                 PROVE  \/ Noted(a, b)'
                        \/ \E e \in Device : Me(e) = a /\ WillForm(e, b)'
        BY DEF EdgesForming, Me
    <2>1. a # b
        BY NextTypeOK DEF TypeOK, Entry, At
    <2>2. CASE At("teammates", a, b) \in tree
        <3>1. CASE Noted(a, b)
            BY <1>1, <3>1
        <3>2. ASSUME NEW e \in Device, Me(e) = a, WillForm(e, b)
              PROVE  WillForm(e, b)'
            BY <1>2, <2>1, <3>2 DEF Others
        <3> QED BY <2>2, <3>1, <3>2 DEF ChatInv, EdgesForming
    <2>3. CASE At("teammates", a, b) \notin tree
        <3>1. PICK d \in Device :
                 LET n == unacked[d] + 1
                 IN  /\ NextApplied(d, n)
                     /\ n \in DOMAIN outbox[d] /\ outbox[d][n] \in Writes
                     /\ Sets(outbox[d][n], At("teammates", a, b))
            BY <2>3, EntryArrives
        <3> DEFINE n == unacked[d] + 1
        <3>2. PICK u \in Others(d) : OwnEdgeSet(d, n, u) \/ OtherEdgeSet(d, n, u)
            BY <3>1 DEF QueueInv, OwnPairs, Sets, At
        <3>3. CASE OwnEdgeSet(d, n, u)
            <4>1. Me(d) = a /\ u = b
                BY <3>1, <3>3 DEF OwnEdgeSet, Sets, At
            <4>2. n + 1 \in DOMAIN outbox[d] /\ OtherEdgeSet(d, n + 1, u)
                BY <3>1, <3>2, <3>3 DEF QueueInv, EdgesTogether
            <4>3. unacked[d] < n + 1 /\ n + 1 < Len(outbox[d]) + 1
                BY <4>2 DEF TypeOK
            <4>4. WillForm(d, u)
                BY <4>2, <4>3 DEF WillForm, Forming
            <4> QED BY <1>2, <3>2, <4>1, <4>4
        <3>4. CASE OtherEdgeSet(d, n, u)
            <4>1. Me(d) = b /\ u = a
                BY <3>1, <3>4 DEF OtherEdgeSet, Sets, At
            <4>2. Noted(Me(d), u)'
                BY <3>1, <3>2, <3>4, EdgeApplied
            <4> QED BY <4>1, <4>2 DEF Noted, Me
        <3> QED BY <3>2, <3>3, <3>4
    <2> QED BY <2>2, <2>3
<1>5. ChatsOfFormedPairs'
    <2> SUFFICES ASSUME NEW e \in tree', e.node = "directChats"
                 PROVE  Noted(e.owner, e.peer)'
        BY DEF ChatsOfFormedPairs, Noted
    <2>1. CASE e \in tree
        BY <1>1, <2>1 DEF ChatInv, ChatsOfFormedPairs, Noted
    <2>2. CASE e \notin tree
        <3>1. PICK d \in Device :
                 LET n == unacked[d] + 1
                 IN  /\ n \in DOMAIN outbox[d]
                     /\ Sets(outbox[d][n], e)
            BY <2>2, EntryArrives
        <3> DEFINE n == unacked[d] + 1
        <3>2. PICK u \in Others(d) :
                 /\ e \in {At("directChats", Me(d), u), At("directChats", u, Me(d))}
                 /\ Forming(d, u, n)
            BY <3>1 DEF ChatInv, ChatWrites, Sets
        <3>3. \A j \in DOMAIN outbox[d] : ~(unacked[d] < j /\ j < n)
            BY DEF TypeOK
        <3>4. Noted(Me(d), u)
            BY <3>2, <3>3 DEF Forming
        <3>5. {e.owner, e.peer} = {Me(d), u}
            BY <3>2 DEF At
        <3> QED BY <1>1, <3>4, <3>5 DEF Noted
    <2> QED BY <2>1, <2>2
<1> QED BY <1>3, <1>4, <1>5, ChatWritesKept DEF ChatInv

\* With one device per user, no chat is ever written for a pair that the server
\* has not had as teammates, unless a batch about the pair was torn or crossed.
THEOREM ChatsOnlyOfFormedPairs ==
    ASSUME OneDevice PROVE Spec => []ChatsOfFormedPairs
<1>1. Init => TypeOK /\ MutualInv /\ QueueInv /\ ChatInv
    BY InitTypeOK, InitMutual, InitQueue, InitChat
<1>2. TypeOK /\ MutualInv /\ QueueInv /\ ChatInv /\ [Next]_vars
         => (TypeOK /\ MutualInv /\ QueueInv /\ ChatInv)'
    BY NextTypeOK, NextMutual, NextQueue, NextChat
<1>3. ChatInv => ChatsOfFormedPairs
    BY DEF ChatInv
<1> QED BY <1>1, <1>2, <1>3, PTL DEF Spec
==============================================================================
