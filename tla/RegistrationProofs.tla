-------------------------- MODULE RegistrationProofs --------------------------
(***************************************************************************)
(* Proofs about Registration, for every set of accounts and names.         *)
(***************************************************************************)
EXTENDS Registration, SequenceTheorems, TLAPS

(* Sequences *)

LEMMA AppendFacts ==
    ASSUME NEW S, NEW q \in Seq(S), NEW x \in S
    PROVE  /\ Append(q, x) \in Seq(S)
           /\ DOMAIN q = 1..Len(q) /\ Len(q) \in Nat
           /\ DOMAIN Append(q, x) = 1..(Len(q) + 1)
           /\ \A i \in DOMAIN q : Append(q, x)[i] = q[i]
           /\ Append(q, x)[Len(q) + 1] = x
OBVIOUS

LEMMA TailFacts ==
    ASSUME NEW S, NEW q \in Seq(S), q # <<>>
    PROVE  /\ Tail(q) \in Seq(S)
           /\ DOMAIN q = 1..Len(q) /\ Len(q) \in Nat /\ 1 \in DOMAIN q
           /\ Head(q) = q[1] /\ Head(q) \in S
           /\ DOMAIN Tail(q) = 1..(Len(q) - 1)
           /\ \A i \in DOMAIN Tail(q) : i + 1 \in DOMAIN q /\ Tail(q)[i] = q[i + 1]
OBVIOUS

LEMMA FrontFacts ==
    ASSUME NEW S, NEW q, NEW k \in Nat \ {0}, \A i \in 1..k : q[i] \in S
    PROVE  SubSeq(q, 1, k) \in Seq(S) /\ Len(SubSeq(q, 1, k)) = k
           /\ SubSeq(q, 1, k)[1] = q[1]
BY SubSeqProperties

LEMMA BackFacts ==
    ASSUME NEW S, NEW q \in Seq(S), q # <<>>, Len(q) # 1
    PROVE  /\ SubSeq(q, 1, Len(q) - 1) \in Seq(S)
           /\ SubSeq(q, 1, Len(q) - 1) # <<>>
           /\ SubSeq(q, 1, Len(q) - 1)[1] = q[1]
<1>1. Len(q) \in Nat \ {0} /\ q \in [1..Len(q) -> S]
    BY EmptySeq, LenProperties
<1>2. Len(q) - 1 \in Nat \ {0} /\ \A i \in 1..(Len(q) - 1) : q[i] \in S
    BY <1>1
<1>a. \A k \in Nat \ {0} : (\A i \in 1..k : q[i] \in S) =>
          /\ SubSeq(q, 1, k) \in Seq(S) /\ Len(SubSeq(q, 1, k)) = k
          /\ SubSeq(q, 1, k)[1] = q[1]
    BY FrontFacts
<1>3. /\ SubSeq(q, 1, Len(q) - 1) \in Seq(S)
      /\ Len(SubSeq(q, 1, Len(q) - 1)) = Len(q) - 1
      /\ SubSeq(q, 1, Len(q) - 1)[1] = q[1]
    <2> DEFINE m == Len(q) - 1
    <2>1. m \in Nat \ {0} /\ \A i \in 1..m : q[i] \in S
        BY <1>2
    <2> HIDE DEF m
    <2>2. /\ SubSeq(q, 1, m) \in Seq(S) /\ Len(SubSeq(q, 1, m)) = m
          /\ SubSeq(q, 1, m)[1] = q[1]
        BY <1>a, <2>1
    <2> QED BY <2>2 DEF m
<1> QED BY <1>2, <1>3, EmptySeq

(* Types *)

\* The first screen is one that cannot be left by going back.
Rooted ==
    \A a \in Account : stack[a][1] \in {"launch", "setup", "addGames", "tab"}

LEMMA WriteOwnType ==
    ASSUME TypeOK, NEW a \in Account, NEW p \in Part, WriteOwn(a, p)
    PROVE  outbox' \in [Account -> Seq(Write)]
<1>1. CASE displayName[a] = NoName
    BY <1>1 DEF WriteOwn, TypeOK
<1>2. CASE displayName[a] # NoName
    <2>1. [name |-> displayName[a], part |-> p] \in Write
        BY <1>2 DEF TypeOK, Write
    <2>2. Append(outbox[a], [name |-> displayName[a], part |-> p]) \in Seq(Write)
        BY <2>1, AppendFacts DEF TypeOK
    <2> QED BY <1>2, <2>2 DEF WriteOwn, Queue, TypeOK
<1> QED BY <1>1, <1>2

LEMMA PushType ==
    ASSUME TypeOK, Rooted, NEW a \in Account, NEW s \in Screen, Push(a, s)
    PROVE  /\ stack' \in [Account -> Seq(Screen)]
           /\ \A b \in Account : stack'[b] # <<>>
           /\ Rooted'
<1>1. stack[a] \in Seq(Screen) /\ stack[a] # <<>>
    BY DEF TypeOK
<1>2. 1 \in DOMAIN stack[a]
    BY <1>1
<1>3. /\ Append(stack[a], s) \in Seq(Screen)
      /\ Append(stack[a], s) # <<>>
      /\ Append(stack[a], s)[1] = stack[a][1]
    BY <1>1, <1>2, AppendFacts
<1> QED BY <1>3 DEF Push, TypeOK, Rooted

LEMMA MoveType ==
    ASSUME TypeOK, NEW a \in Account, NEW n \in Name, NEW s \in Stage,
           NEW t \in Stage, Move(a, n, s, t)
    PROVE  tries' \in [Account -> SUBSET Try]
<1>1. [name |-> n, stage |-> t] \in Try
    BY DEF Try
<1> QED BY <1>1 DEF Move, TypeOK

LEMMA TypeStep ==
    ASSUME TypeOK, Rooted, [Next]_vars
    PROVE  TypeOK' /\ Rooted'
<1> DEFINE Screens == /\ stack' \in [Account -> Seq(Screen)]
                      /\ \A b \in Account : stack'[b] # <<>>
                      /\ Rooted'
<1>1. ASSUME NEW a \in Account, NEW n \in Name, HandleContinue(a, n)
      PROVE  TypeOK' /\ Rooted'
    <2>1. [name |-> n, stage |-> "checking"] \in Try
        BY DEF Try, Stage
    <2> QED BY <1>1, <2>1, RegistrationBounds
                DEF HandleContinue, Tap, TypeOK, Rooted, names
<1>2. ASSUME NEW a \in Account, NEW n \in Name, NameTaken(a, n)
      PROVE  TypeOK' /\ Rooted'
    BY <1>2 DEF NameTaken, Drop, TypeOK, Rooted, names
<1>3. ASSUME NEW a \in Account, NEW n \in Name, NameFree(a, n)
      PROVE  TypeOK' /\ Rooted'
    <2>1. tries' \in [Account -> SUBSET Try]
        BY <1>3, MoveType DEF NameFree, Stage
    <2> QED BY <1>3, <2>1 DEF NameFree, TypeOK, Rooted, names
<1>4. ASSUME NEW a \in Account, NEW n \in Name, SendName(a, n)
       PROVE  TypeOK' /\ Rooted'
    <2>1. tries' \in [Account -> SUBSET Try]
        BY <1>4, MoveType DEF SendName, Stage
    <2> QED BY <1>4, <2>1 DEF SendName, TypeOK, Rooted
<1>5. ASSUME NEW a \in Account, NEW n \in Name, SetAccountInfo(a, n)
       PROVE  TypeOK' /\ Rooted'
    <2>1. tries' \in [Account -> SUBSET Try]
        BY <1>5, MoveType DEF SetAccountInfo, Stage, TypeOK
    <2>2. lost' \subseteq Name
        BY <1>5 DEF SetAccountInfo, TypeOK
    <2> QED BY <1>5, <2>1, <2>2 DEF SetAccountInfo, TypeOK, Rooted
<1>6. ASSUME NEW a \in Account, NEW n \in Name, StoreName(a, n)
       PROVE  TypeOK' /\ Rooted'
    <2>1. tries' \in [Account -> SUBSET Try]
        BY <1>6, MoveType DEF StoreName, Stage
    <2> QED BY <1>6, <2>1 DEF StoreName, TypeOK, Rooted
<1>7. ASSUME NEW a \in Account, NEW n \in Name, NameNotSet(a, n)
      PROVE  TypeOK' /\ Rooted'
    BY <1>7 DEF NameNotSet, Drop, TypeOK, Rooted, names
<1>8. ASSUME NEW a \in Account, NEW n \in Name, NameSet(a, n)
      PROVE  TypeOK' /\ Rooted'
    <2>1. Append(outbox[a], [name |-> n, part |-> "profile"]) \in Seq(Write)
        BY AppendFacts DEF TypeOK, Write, Part
    <2>2. Screens
        BY <1>8, PushType DEF NameSet, Screen
    <2> QED BY <1>8, <2>1, <2>2 DEF NameSet, Drop, Queue, TypeOK, names
<1>9. ASSUME NEW a \in Account, TokenFetched(a)
      PROVE  TypeOK' /\ Rooted'
    <2>1. outbox' \in [Account -> Seq(Write)]
        BY <1>9, WriteOwnType DEF TokenFetched, Part
    <2> QED BY <1>9, <2>1 DEF TokenFetched, TypeOK, Rooted, names
<1>10. ASSUME NEW a \in Account, FinishBio(a)
      PROVE  TypeOK' /\ Rooted'
    <2>1. outbox' \in [Account -> Seq(Write)]
        BY <1>10, WriteOwnType DEF FinishBio, Part
    <2>2. Screens
        BY <1>10, PushType DEF FinishBio, Screen
    <2> QED BY <1>10, <2>1, <2>2 DEF FinishBio, TypeOK, names
<1>11. ASSUME NEW a \in Account, FinishGames(a)
      PROVE  TypeOK' /\ Rooted'
    <2>1. outbox' \in [Account -> Seq(Write)]
        BY <1>11, WriteOwnType DEF FinishGames, Part
    <2>2. Screens
        <3>1. CASE Top(a) = "games"
            BY <1>11, <3>1, PushType DEF FinishGames, Push, Screen
        <3>2. CASE Top(a) # "games"
            BY <1>11, <3>2 DEF FinishGames, TypeOK, Rooted, Screen
        <3> QED BY <3>1, <3>2
    <2> QED BY <1>11, <2>1, <2>2 DEF FinishGames, TypeOK, names
<1>12. ASSUME NEW a \in Account, GoBack(a)
      PROVE  TypeOK' /\ Rooted'
    <2>1. stack[a] \in Seq(Screen) /\ stack[a] # <<>> /\ Len(stack[a]) # 1
        BY <1>12 DEF GoBack, Top, TypeOK, Rooted
    <2>2. /\ SubSeq(stack[a], 1, Len(stack[a]) - 1) \in Seq(Screen)
          /\ SubSeq(stack[a], 1, Len(stack[a]) - 1) # <<>>
          /\ SubSeq(stack[a], 1, Len(stack[a]) - 1)[1] = stack[a][1]
        BY <2>1, BackFacts
    <2>3. /\ stack' \in [Account -> Seq(Screen)]
          /\ \A b \in Account : stack'[b] # <<>>
          /\ Rooted'
        BY <1>12, <2>2 DEF GoBack, TypeOK, Rooted
    <2> QED BY <1>12, <2>3, RegistrationBounds DEF GoBack, Tap, TypeOK, names
<1>13. ASSUME NEW a \in Account, CheckIfProfileIsSetup(a)
       PROVE  TypeOK' /\ Rooted'
    <2>1. PICK s \in {"setup", "tab", "addGames"} :
              stack' = [stack EXCEPT ![a] = <<s>>]
        BY <1>13 DEF CheckIfProfileIsSetup
    <2>2. /\ stack' \in [Account -> Seq(Screen)]
          /\ \A b \in Account : stack'[b] # <<>>
          /\ Rooted'
        BY <2>1 DEF TypeOK, Rooted, Screen
    <2> QED BY <1>13, <2>2 DEF CheckIfProfileIsSetup, TypeOK, names
<1>14. ASSUME NEW a \in Account, Deliver(a)
       PROVE  TypeOK' /\ Rooted'
    <2>1. Tail(outbox[a]) \in Seq(Write) /\ Head(outbox[a]) \in Write
        BY <1>14, TailFacts DEF Deliver, TypeOK
    <2>2. outbox' \in [Account -> Seq(Write)]
        BY <1>14, <2>1 DEF Deliver, TypeOK
    <2>3. tree' \in [Name -> [Part -> Account \cup {Nobody}]]
        BY <1>14 DEF Deliver, TypeOK
    <2> QED BY <1>14, <2>2, <2>3 DEF Deliver, TypeOK, Rooted, names
<1>15. ASSUME NEW a \in Account, Crash(a)
       PROVE  TypeOK' /\ Rooted'
    BY <1>15 DEF Crash, TypeOK, Rooted, Screen, names
<1>16. CASE UNCHANGED vars
    BY <1>16 DEF vars, names, TypeOK, Rooted
<1> QED
    BY <1>1, <1>2, <1>3, <1>4, <1>5, <1>6, <1>7, <1>8, <1>9, <1>10, <1>11,
       <1>12, <1>13, <1>14, <1>15, <1>16 DEF Next

\* The state stays well typed; in particular the way back never leads past the
\* first screen of a registration (SetupProfileViewController).
THEOREM TypeCorrect == Spec => []TypeOK
<1>1. Init => TypeOK /\ Rooted
    BY DEF Init, TypeOK, Rooted, Screen
<1>2. TypeOK /\ Rooted /\ [Next]_vars => TypeOK' /\ Rooted'
    BY TypeStep
<1> QED BY <1>1, <1>2, PTL DEF Spec

(* Names *)

\* A name of an account has a profile, or one about to be written, ...
AccountHeld ==
    \A a \in Account : \A n \in Name \ lost :
        account[a] = n => At(a, n, "committed") \/ Coming(a, n)

DisplayHeld ==
    \A a \in Account : \A n \in Name \ lost :
        displayName[a] = n => Coming(a, n)

\* ... and whatever is written under it, or on its way, has one too.
Under(a, n) == \E i \in DOMAIN outbox[a] : outbox[a][i].name = n
Begun(n) ==
    (\E p \in Part : tree[n][p] # Nobody) \/ (\E a \in Account : Under(a, n))

PartsHeld ==
    \A n \in Name \ lost : Begun(n) => \E a \in Account : Coming(a, n)

\* From the check of a name on, only one account is after it, ...
Claims(a, n) ==
    Setting(a, n) \/ QueuedAt(a, n, "profile") \/ tree[n]["profile"] = a

Exclusive ==
    \A a, b \in Account : \A n \in Name \ raced :
        Claims(a, n) /\ Claims(b, n) => a = b

\* ... and who has the name has the profile.
Owns(a, n) ==
    \/ At(a, n, "committed") \/ At(a, n, "set")
    \/ QueuedAt(a, n, "profile")
    \/ tree[n]["profile"] = a

NamesOwned ==
    \A a \in Account : \A n \in Name \ (raced \cup lost) :
        HasName(a, n) => Owns(a, n)

NameInv == AccountHeld /\ DisplayHeld /\ PartsHeld /\ Exclusive /\ NamesOwned

\* What Move and Drop do to the stages of the tries.
LEMMA MoveFacts ==
    ASSUME TypeOK, NEW a \in Account, NEW n \in Name, NEW s \in Stage,
           NEW t \in Stage, s # t, Move(a, n, s, t)
    PROVE  \A b \in Account, m \in Name, u \in Stage :
              At(b, m, u)' <=>
                  \/ At(b, m, u) /\ ~(b = a /\ m = n /\ u = s)
                  \/ b = a /\ m = n /\ u = t
BY DEF Move, At, TypeOK

LEMMA DropFacts ==
    ASSUME TypeOK, NEW a \in Account, NEW n \in Name, NEW s \in Stage,
           Drop(a, n, s)
    PROVE  \A b \in Account, m \in Name, u \in Stage :
              At(b, m, u)' <=> At(b, m, u) /\ ~(b = a /\ m = n /\ u = s)
BY DEF Drop, At, TypeOK

\* A step in which no profile, name or write moves, and no try goes further than
\* it was.
LEMMA Undisturbed ==
    ASSUME NameInv, UNCHANGED <<tree, outbox, account, displayName, raced>>,
           lost \subseteq lost',
           \A b \in Account, n \in Name : Setting(b, n)' => Setting(b, n),
           \A b \in Account, n \in Name \ lost' : \A s \in {"committed", "set"} :
              At(b, n, s) => At(b, n, s)'
    PROVE  NameInv'
<1>1. \A b \in Account, n \in Name : QueuedAt(b, n, "profile")' <=> QueuedAt(b, n, "profile")
    BY DEF QueuedAt
<1>2. \A b \in Account, n \in Name \ lost' : Coming(b, n) => Coming(b, n)'
    BY <1>1 DEF Coming
<1>3. AccountHeld' /\ DisplayHeld'
    BY <1>2 DEF NameInv, AccountHeld, DisplayHeld
<1>4. \A n \in Name : Begun(n)' => Begun(n)
    BY DEF Begun, Under
<1>5. PartsHeld'
    BY <1>2, <1>4 DEF NameInv, PartsHeld
<1>6. \A b \in Account, n \in Name : Claims(b, n)' => Claims(b, n)
    BY <1>1 DEF Claims
<1>7. Exclusive'
    BY <1>6 DEF NameInv, Exclusive
<1>8. \A b \in Account, n \in Name \ lost' : Owns(b, n) => Owns(b, n)'
    BY <1>1 DEF Owns
<1>9. NamesOwned'
    BY <1>8 DEF NameInv, NamesOwned, HasName
<1> QED BY <1>3, <1>5, <1>7, <1>9 DEF NameInv

\* One more write at the end of a queue.
LEMMA QueueFacts ==
    ASSUME TypeOK, NEW a \in Account, NEW n \in Name, NEW p \in Part,
           Queue(a, n, p)
    PROVE  \A b \in Account :
              /\ DOMAIN outbox[b] \subseteq DOMAIN outbox'[b]
              /\ \A i \in DOMAIN outbox[b] : outbox'[b][i] = outbox[b][i]
              /\ \A i \in DOMAIN outbox'[b] :
                    \/ i \in DOMAIN outbox[b]
                    \/ /\ b = a /\ outbox'[b][i] = [name |-> n, part |-> p]
                       /\ \A j \in DOMAIN outbox[b] : j \in 1..i
              /\ \A i \in DOMAIN outbox'[b] : i \in Nat \ {0}
<1>1. [name |-> n, part |-> p] \in Write
    BY DEF Write
<1> DEFINE q == outbox[a]  w == [name |-> n, part |-> p]
<1>2. q \in Seq(Write) /\ \A b \in Account : outbox[b] \in Seq(Write)
    BY DEF TypeOK
<1>3. \A b \in Account :
          outbox'[b] = IF b = a THEN Append(q, w) ELSE outbox[b]
    BY DEF Queue, TypeOK
<1>4. /\ DOMAIN q = 1..Len(q) /\ Len(q) \in Nat
      /\ DOMAIN Append(q, w) = 1..(Len(q) + 1)
      /\ \A i \in DOMAIN q : Append(q, w)[i] = q[i]
      /\ Append(q, w)[Len(q) + 1] = w
    BY <1>1, <1>2, AppendFacts
<1>5. \A b \in Account : \A i \in DOMAIN outbox[b] : i \in Nat \ {0}
    BY <1>2
<1> HIDE DEF w
<1>6. ASSUME NEW b \in Account, b # a
      PROVE  outbox'[b] = outbox[b]
    BY <1>3, <1>6
<1>7. /\ DOMAIN q \subseteq DOMAIN Append(q, w)
      /\ \A i \in DOMAIN Append(q, w) :
            \/ i \in DOMAIN q
            \/ Append(q, w)[i] = w /\ \A j \in DOMAIN q : j \in 1..i
      /\ \A i \in DOMAIN Append(q, w) : i \in Nat \ {0}
    BY <1>4
<1>8. outbox'[a] = Append(q, w) /\ outbox[a] = q
    BY <1>3
<1> HIDE DEF q
<1> QED BY <1>4, <1>5, <1>6, <1>7, <1>8 DEF w

LEMMA QueuedAfter ==
    ASSUME TypeOK, NEW a \in Account, NEW n \in Name, NEW p \in Part,
           Queue(a, n, p)
    PROVE  \A b \in Account, m \in Name, r \in Part :
              QueuedAt(b, m, r)' <=>
                  QueuedAt(b, m, r) \/ (b = a /\ m = n /\ r = p)
<1> SUFFICES ASSUME NEW b \in Account, NEW m \in Name, NEW r \in Part
             PROVE  QueuedAt(b, m, r)' <=>
                        QueuedAt(b, m, r) \/ (b = a /\ m = n /\ r = p)
    OBVIOUS
<1>1. ASSUME QueuedAt(b, m, r)
      PROVE  QueuedAt(b, m, r)'
    <2>1. PICK i \in DOMAIN outbox[b] : outbox[b][i] = [name |-> m, part |-> r]
        BY <1>1 DEF QueuedAt
    <2>a. i \in DOMAIN outbox'[b] /\ outbox'[b][i] = outbox[b][i]
        BY QueueFacts
    <2>2. i \in DOMAIN outbox'[b] /\ outbox'[b][i] = [name |-> m, part |-> r]
        BY <2>1, <2>a
    <2> QED BY <2>2 DEF QueuedAt
<1>2. ASSUME QueuedAt(b, m, r)'
      PROVE  QueuedAt(b, m, r) \/ (b = a /\ m = n /\ r = p)
    <2>1. PICK i \in DOMAIN outbox'[b] :
              outbox'[b][i] = [name |-> m, part |-> r]
        BY <1>2 DEF QueuedAt
    <2>2. CASE i \in DOMAIN outbox[b]
        <3>1. outbox'[b][i] = outbox[b][i]
            BY <2>2, QueueFacts
        <3> QED BY <2>1, <2>2, <3>1 DEF QueuedAt
    <2>3. CASE i \notin DOMAIN outbox[b]
        <3>1. b = a /\ outbox'[b][i] = [name |-> n, part |-> p]
            BY <2>1, <2>3, QueueFacts
        <3>2. [name |-> m, part |-> r] = [name |-> n, part |-> p]
            BY <2>1, <3>1
        <3> QED BY <3>1, <3>2
    <2> QED BY <2>2, <2>3
<1>3. b = a /\ m = n /\ r = p => QueuedAt(b, m, r)'
    <2>1. Len(outbox[a]) + 1 \in DOMAIN outbox'[a]
          /\ outbox'[a][Len(outbox[a]) + 1] = [name |-> n, part |-> p]
        BY AppendFacts DEF Queue, TypeOK, Write
    <2> QED BY <2>1 DEF QueuedAt
<1> QED BY <1>1, <1>2, <1>3

LEMMA NamesUnder ==
    ASSUME TypeOK, NEW a \in Account, NEW n \in Name, NEW p \in Part,
           Queue(a, n, p)
    PROVE  \A b \in Account, m \in Name : Under(b, m)' => Under(b, m) \/ m = n
<1> SUFFICES ASSUME NEW b \in Account, NEW m \in Name, Under(b, m)', m # n
             PROVE  Under(b, m)
    OBVIOUS
<1>1. PICK i \in DOMAIN outbox'[b] : outbox'[b][i].name = m
    BY DEF Under
<1>2. outbox'[b][i] # [name |-> n, part |-> p]
    BY <1>1
<1>3. i \in DOMAIN outbox[b] /\ outbox'[b][i] = outbox[b][i]
    BY <1>2, QueueFacts
<1> QED BY <1>1, <1>3 DEF Under

\* The token, the biography and the games: written under a name that is held.
LEMMA WriteOwnKeeps ==
    ASSUME TypeOK, NameInv, NEW a \in Account, NEW p \in {"details", "games"},
           WriteOwn(a, p),
           UNCHANGED <<tree, account, displayName, tries, raced, lost>>
    PROVE  NameInv'
<1>1. CASE displayName[a] = NoName
    <2>1. UNCHANGED outbox
        BY <1>1 DEF WriteOwn
    <2> QED BY <2>1, Undisturbed DEF Setting, At
<1>2. CASE displayName[a] # NoName
    <2> DEFINE n == displayName[a]
    <2>1. n \in Name /\ p \in Part /\ p # "profile" /\ Queue(a, n, p)
        BY <1>2 DEF TypeOK, WriteOwn, Part
    <2>2. \A b \in Account, m \in Name :
              QueuedAt(b, m, "profile")' <=> QueuedAt(b, m, "profile")
        BY <2>1, QueuedAfter DEF Part
    <2>3. \A b \in Account, m \in Name, s \in Stage : At(b, m, s)' <=> At(b, m, s)
        BY DEF At
    <2>4. \A b \in Account, m \in Name : Coming(b, m)' <=> Coming(b, m)
        BY <2>2, <2>3 DEF Coming, Stage
    <2>5. AccountHeld' /\ DisplayHeld'
        BY <2>3, <2>4 DEF NameInv, AccountHeld, DisplayHeld, Stage
    <2>6. \A m \in Name : Begun(m)' => Begun(m) \/ m = n
        BY <2>1, NamesUnder DEF Begun
    <2>7. n \notin lost => Coming(a, n)
        BY <2>1 DEF NameInv, DisplayHeld
    <2>8. PartsHeld'
        BY <2>4, <2>6, <2>7 DEF NameInv, PartsHeld
    <2>9. \A b \in Account, m \in Name : Claims(b, m)' => Claims(b, m)
        BY <2>2, <2>3 DEF Claims, Setting
    <2>10. Exclusive'
        BY <2>9 DEF NameInv, Exclusive
    <2>11. NamesOwned'
        BY <2>2, <2>3 DEF NameInv, NamesOwned, HasName, Owns, Stage
    <2> QED BY <2>5, <2>8, <2>10, <2>11 DEF NameInv
<1> QED BY <1>1, <1>2

LEMMA NameFreeKeeps ==
    ASSUME TypeOK, NameInv, NEW a \in Account, NEW n \in Name, NameFree(a, n)
    PROVE  NameInv'
<1>1. /\ UNCHANGED <<tree, outbox, account, displayName, lost>>
      /\ raced' = IF Contested(a, n) THEN raced \cup {n} ELSE raced
      /\ ~Exists(a, n)
    BY DEF NameFree, names
<1>2. \A b \in Account, m \in Name, u \in Stage :
          At(b, m, u)' <=>
              \/ At(b, m, u) /\ ~(b = a /\ m = n /\ u = "checking")
              \/ b = a /\ m = n /\ u = "setting"
    BY MoveFacts DEF NameFree, Stage
<1>3. \A b \in Account, m \in Name, s \in {"committed", "set"} :
          At(b, m, s)' <=> At(b, m, s)
    BY <1>2 DEF Stage
<1>4. \A b \in Account, m \in Name :
          QueuedAt(b, m, "profile")' <=> QueuedAt(b, m, "profile")
    BY <1>1 DEF QueuedAt
<1>5. \A b \in Account, m \in Name : Coming(b, m)' <=> Coming(b, m)
    BY <1>1, <1>3, <1>4 DEF Coming
<1>6. AccountHeld' /\ DisplayHeld'
    BY <1>1, <1>3, <1>5 DEF NameInv, AccountHeld, DisplayHeld
<1>7. \A m \in Name : Begun(m)' <=> Begun(m)
    BY <1>1 DEF Begun, Under
<1>8. PartsHeld'
    BY <1>1, <1>5, <1>7 DEF NameInv, PartsHeld
<1>9. NamesOwned'
    BY <1>1, <1>3, <1>4 DEF NameInv, NamesOwned, HasName, Owns
<1>10. \A b \in Account, m \in Name : Setting(b, m)' =>
           Setting(b, m) \/ (b = a /\ m = n)
    BY <1>2 DEF Setting
<1>11. \A b \in Account, m \in Name : Claims(b, m)' =>
           Claims(b, m) \/ (b = a /\ m = n)
    BY <1>1, <1>4, <1>10 DEF Claims
<1>12. ASSUME n \notin raced', NEW b \in Account, b # a
       PROVE  ~Claims(b, n)
    <2>1. ~Contested(a, n)
        BY <1>1, <1>12
    <2>2. ~Setting(b, n) /\ ~QueuedAt(b, n, "profile")
        BY <1>12, <2>1 DEF Contested
    <2>3. tree[n]["profile"] = Nobody
        BY <1>1 DEF Exists, There, Part
    <2> QED BY <2>2, <2>3, RegistrationNobody DEF Claims
<1>13. Exclusive'
    <2> SUFFICES ASSUME NEW b \in Account, NEW c \in Account, NEW m \in Name,
                        m \notin raced', Claims(b, m)', Claims(c, m)'
                 PROVE  b = c
        BY DEF Exclusive
    <2>1. raced \subseteq raced'
        BY <1>1
    <2>2. CASE m = n
        <3>1. b = a /\ c = a
            BY <1>11, <1>12, <2>2
        <3> QED BY <3>1
    <2>3. CASE m # n
        <3>1. Claims(b, m) /\ Claims(c, m)
            BY <1>11, <2>3
        <3> QED BY <2>1, <3>1 DEF NameInv, Exclusive
    <2> QED BY <2>2, <2>3
<1> QED BY <1>6, <1>8, <1>9, <1>13 DEF NameInv

\* The account is read again before a commit: its name is held, as no other
\* commit is under way.
LEMMA SendNameKeeps ==
    ASSUME TypeOK, NameInv, NEW a \in Account, NEW n \in Name, SendName(a, n)
    PROVE  NameInv'
<1>1. /\ UNCHANGED <<tree, outbox, account, raced, lost>>
      /\ displayName' = [displayName EXCEPT ![a] = account[a]]
      /\ At(a, n, "setting")
      /\ \A m \in Name : ~At(a, m, "committed")
    BY DEF SendName, At
<1>2. \A b \in Account, m \in Name, u \in Stage :
          At(b, m, u)' <=>
              \/ At(b, m, u) /\ ~(b = a /\ m = n /\ u = "setting")
              \/ b = a /\ m = n /\ u = "sent"
    BY MoveFacts DEF SendName, Stage
<1>3. \A b \in Account, m \in Name, s \in {"committed", "set"} :
          At(b, m, s)' <=> At(b, m, s)
    BY <1>2 DEF Stage
<1>4. \A b \in Account, m \in Name :
          QueuedAt(b, m, "profile")' <=> QueuedAt(b, m, "profile")
    BY <1>1 DEF QueuedAt
<1>5. \A b \in Account, m \in Name : Coming(b, m)' <=> Coming(b, m)
    BY <1>1, <1>3, <1>4 DEF Coming
<1>6. \A b \in Account :
          displayName'[b] = IF b = a THEN account[a] ELSE displayName[b]
    BY <1>1 DEF TypeOK
<1>7. AccountHeld'
    BY <1>1, <1>3, <1>5 DEF NameInv, AccountHeld
<1>8. DisplayHeld'
    BY <1>1, <1>5, <1>6 DEF NameInv, AccountHeld, DisplayHeld
<1>9. \A m \in Name : Begun(m)' <=> Begun(m)
    BY <1>1 DEF Begun, Under
<1>10. PartsHeld'
    BY <1>1, <1>5, <1>9 DEF NameInv, PartsHeld
<1>11. \A b \in Account, m \in Name : HasName(b, m)' => HasName(b, m)
    BY <1>1, <1>6 DEF HasName
<1>12. NamesOwned'
    BY <1>1, <1>3, <1>4, <1>11 DEF NameInv, NamesOwned, Owns
<1>13. \A b \in Account, m \in Name : Setting(b, m)' => Setting(b, m)
    BY <1>1, <1>2 DEF Setting, Stage
<1>14. \A b \in Account, m \in Name : Claims(b, m)' => Claims(b, m)
    BY <1>1, <1>4, <1>13 DEF Claims
<1>15. Exclusive'
    BY <1>1, <1>14 DEF NameInv, Exclusive
<1> QED BY <1>7, <1>8, <1>10, <1>12, <1>15 DEF NameInv

LEMMA SetAccountInfoKeeps ==
    ASSUME TypeOK, NameInv, NEW a \in Account, NEW n \in Name,
           SetAccountInfo(a, n)
    PROVE  NameInv'
<1>1. /\ UNCHANGED <<tree, outbox, displayName, raced>>
      /\ lost \subseteq lost'
      /\ \A b \in Account : account'[b] = IF b = a THEN n ELSE account[b]
    BY DEF SetAccountInfo, TypeOK
<1>2. \A b \in Account, m \in Name, u \in Stage \ {"sent", "committed"} :
          At(b, m, u)' <=> At(b, m, u)
    <2>1. CASE Move(a, n, "sent", "committed")
        BY <2>1, MoveFacts DEF Stage
    <2>2. CASE UNCHANGED tries
        BY <2>2 DEF At
    <2> QED BY <2>1, <2>2 DEF SetAccountInfo
<1>3. \A b \in Account, m \in Name : At(b, m, "committed") => At(b, m, "committed")'
    <2>1. CASE Move(a, n, "sent", "committed")
        BY <2>1, MoveFacts DEF Stage
    <2>2. CASE UNCHANGED tries
        BY <2>2 DEF At
    <2> QED BY <2>1, <2>2 DEF SetAccountInfo
<1>4. n \notin lost' => At(a, n, "committed")'
    BY MoveFacts DEF SetAccountInfo, Stage
<1>5. \A b \in Account, m \in Name :
          QueuedAt(b, m, "profile")' <=> QueuedAt(b, m, "profile")
    BY <1>1 DEF QueuedAt
<1>6. \A b \in Account, m \in Name : Coming(b, m)' <=> Coming(b, m)
    BY <1>1, <1>2, <1>5 DEF Coming, Stage
<1>7. AccountHeld'
    <2> SUFFICES ASSUME NEW b \in Account, NEW m \in Name, m \notin lost',
                        account'[b] = m
                 PROVE  At(b, m, "committed")' \/ Coming(b, m)'
        BY DEF AccountHeld
    <2>1. CASE b = a
        BY <1>1, <1>4, <2>1
    <2>2. CASE b # a
        BY <1>1, <1>3, <1>6, <2>2 DEF NameInv, AccountHeld
    <2> QED BY <2>1, <2>2
<1>8. DisplayHeld'
    BY <1>1, <1>6 DEF NameInv, DisplayHeld
<1>9. \A m \in Name : Begun(m)' <=> Begun(m)
    BY <1>1 DEF Begun, Under
<1>10. PartsHeld'
    BY <1>1, <1>6, <1>9 DEF NameInv, PartsHeld
<1>11. NamesOwned'
    <2> SUFFICES ASSUME NEW b \in Account, NEW m \in Name, m \notin raced',
                        m \notin lost', HasName(b, m)'
                 PROVE  Owns(b, m)'
        BY DEF NamesOwned
    <2>1. CASE b = a /\ m = n
        BY <1>4, <2>1 DEF Owns
    <2>2. CASE ~(b = a /\ m = n)
        <3>1. HasName(b, m)
            BY <1>1, <2>2 DEF HasName
        <3>2. Owns(b, m)
            BY <1>1, <3>1 DEF NameInv, NamesOwned
        <3> QED BY <1>1, <1>2, <1>3, <1>5, <3>2 DEF Owns, Stage
    <2> QED BY <2>1, <2>2
<1>12. \A b \in Account, m \in Name : Setting(b, m)' => Setting(b, m)
    <2>1. CASE At(a, n, "sent") /\ Move(a, n, "sent", "committed")
        BY <2>1, MoveFacts DEF Setting, Stage
    <2>2. CASE UNCHANGED tries
        BY <2>2 DEF At, Setting
    <2> QED BY <2>1, <2>2 DEF SetAccountInfo
<1>13. \A b \in Account, m \in Name : Claims(b, m)' => Claims(b, m)
    BY <1>1, <1>5, <1>12 DEF Claims
<1>14. Exclusive'
    BY <1>1, <1>13 DEF NameInv, Exclusive
<1> QED BY <1>7, <1>8, <1>10, <1>11, <1>14 DEF NameInv

LEMMA StoreNameKeeps ==
    ASSUME TypeOK, NameInv, NEW a \in Account, NEW n \in Name, StoreName(a, n)
    PROVE  NameInv'
<1>1. /\ UNCHANGED <<tree, outbox, account, raced, lost>>
      /\ At(a, n, "committed")
      /\ \A b \in Account :
            displayName'[b] = IF b = a THEN n ELSE displayName[b]
    BY DEF StoreName, TypeOK
<1>2. \A b \in Account, m \in Name, u \in Stage :
          At(b, m, u)' <=>
              \/ At(b, m, u) /\ ~(b = a /\ m = n /\ u = "committed")
              \/ b = a /\ m = n /\ u = "set"
    BY MoveFacts DEF StoreName, Stage
<1>3. /\ \A b \in Account, m \in Name : At(b, m, "set")' <=>
             At(b, m, "set") \/ (b = a /\ m = n)
      /\ \A b \in Account, m \in Name : At(b, m, "committed") =>
             At(b, m, "committed")' \/ At(b, m, "set")'
    BY <1>2 DEF Stage
<1>4. \A b \in Account, m \in Name :
          QueuedAt(b, m, "profile")' <=> QueuedAt(b, m, "profile")
    BY <1>1 DEF QueuedAt
<1>5. \A b \in Account, m \in Name :
          /\ Coming(b, m) => Coming(b, m)'
          /\ At(b, m, "committed") => At(b, m, "committed")' \/ Coming(b, m)'
    BY <1>1, <1>3, <1>4 DEF Coming
<1>6. AccountHeld'
    BY <1>1, <1>5 DEF NameInv, AccountHeld
<1>7. Coming(a, n)'
    BY <1>3 DEF Coming
<1>8. DisplayHeld'
    BY <1>1, <1>5, <1>7 DEF NameInv, DisplayHeld
<1>9. \A m \in Name : Begun(m)' <=> Begun(m)
    BY <1>1 DEF Begun, Under
<1>10. PartsHeld'
    BY <1>1, <1>5, <1>9 DEF NameInv, PartsHeld
<1>11. \A b \in Account, m \in Name : Owns(b, m) => Owns(b, m)'
    BY <1>1, <1>3, <1>4 DEF Owns
<1>12. Owns(a, n)'
    BY <1>3 DEF Owns
<1>13. NamesOwned'
    <2> SUFFICES ASSUME NEW b \in Account, NEW m \in Name, m \notin raced,
                        m \notin lost, HasName(b, m)'
                 PROVE  Owns(b, m)'
        BY <1>1 DEF NamesOwned
    <2>1. CASE b = a /\ m = n
        BY <1>12, <2>1
    <2>2. CASE ~(b = a /\ m = n)
        <3>1. HasName(b, m)
            BY <1>1, <2>2 DEF HasName
        <3> QED BY <1>11, <3>1 DEF NameInv, NamesOwned
    <2> QED BY <2>1, <2>2
<1>14. \A b \in Account, m \in Name : Setting(b, m)' => Setting(b, m)
    BY <1>1, <1>2 DEF Setting, Stage
<1>15. \A b \in Account, m \in Name : Claims(b, m)' => Claims(b, m)
    BY <1>1, <1>4, <1>14 DEF Claims
<1>16. Exclusive'
    BY <1>1, <1>15 DEF NameInv, Exclusive
<1> QED BY <1>6, <1>8, <1>10, <1>13, <1>16 DEF NameInv

\* An error after the service has set the name makes it one of the lost.
LEMMA NameNotSetKeeps ==
    ASSUME TypeOK, NameInv, NEW a \in Account, NEW n \in Name, NameNotSet(a, n)
    PROVE  NameInv'
<1>1. PICK s \in {"setting", "sent", "committed"} :
          /\ Drop(a, n, s)
          /\ lost' = IF s = "committed" THEN lost \cup {n} ELSE lost
          /\ UNCHANGED <<tree, outbox, account, displayName, raced>>
    BY DEF NameNotSet, names
<1>2. \A b \in Account, m \in Name, u \in Stage :
          At(b, m, u)' <=> At(b, m, u) /\ ~(b = a /\ m = n /\ u = s)
    BY <1>1, DropFacts DEF Stage
<1>3. \A b \in Account, m \in Name : Setting(b, m)' => Setting(b, m)
    BY <1>2 DEF Setting
<1>4. \A b \in Account, m \in Name \ lost' : \A t \in {"committed", "set"} :
          At(b, m, t) => At(b, m, t)'
    BY <1>1, <1>2 DEF Stage
<1>5. lost \subseteq lost'
    BY <1>1
<1> QED BY <1>1, <1>3, <1>4, <1>5, Undisturbed

LEMMA NameSetKeeps ==
    ASSUME TypeOK, NameInv, NEW a \in Account, NEW n \in Name, NameSet(a, n)
    PROVE  NameInv'
<1>1. /\ At(a, n, "set") /\ Queue(a, n, "profile")
      /\ UNCHANGED <<tree, account, displayName, raced, lost>>
    BY DEF NameSet, names
<1>2. \A b \in Account, m \in Name, u \in Stage :
          At(b, m, u)' <=> At(b, m, u) /\ ~(b = a /\ m = n /\ u = "set")
    BY DropFacts DEF NameSet, Stage
<1>3. \A b \in Account, m \in Name : QueuedAt(b, m, "profile")' <=>
          QueuedAt(b, m, "profile") \/ (b = a /\ m = n)
    BY <1>1, QueuedAfter DEF Part
<1>4. \A b \in Account, m \in Name :
          /\ At(b, m, "committed")' <=> At(b, m, "committed")
          /\ At(b, m, "set") => At(b, m, "set")' \/ (b = a /\ m = n)
    BY <1>2 DEF Stage
<1>5. \A b \in Account, m \in Name : Coming(b, m) => Coming(b, m)'
    BY <1>1, <1>3, <1>4 DEF Coming
<1>6. AccountHeld' /\ DisplayHeld'
    BY <1>1, <1>4, <1>5 DEF NameInv, AccountHeld, DisplayHeld
<1>7. \A m \in Name : Begun(m)' => Begun(m) \/ m = n
    BY <1>1, NamesUnder DEF Begun, Part
<1>8. Coming(a, n)'
    BY <1>3 DEF Coming
<1>9. PartsHeld'
    BY <1>1, <1>5, <1>7, <1>8 DEF NameInv, PartsHeld
<1>10. \A b \in Account, m \in Name : Owns(b, m) => Owns(b, m)'
    BY <1>1, <1>3, <1>4 DEF Owns
<1>11. NamesOwned'
    BY <1>1, <1>10 DEF NameInv, NamesOwned, HasName
<1>12. \A b \in Account, m \in Name : Setting(b, m)' => Setting(b, m)
    BY <1>2 DEF Setting
<1>13. Setting(a, n)
    BY <1>1 DEF Setting, Stage
<1>14. \A b \in Account, m \in Name : Claims(b, m)' => Claims(b, m)
    BY <1>1, <1>3, <1>12, <1>13 DEF Claims
<1>15. Exclusive'
    BY <1>1, <1>14 DEF NameInv, Exclusive
<1> QED BY <1>6, <1>9, <1>11, <1>15 DEF NameInv

\* The server applies the oldest write of a queue.
LEMMA DeliverKeeps ==
    ASSUME TypeOK, NameInv, NEW a \in Account, Deliver(a)
    PROVE  NameInv'
<1> DEFINE q == outbox[a]  n == Head(q).name  p == Head(q).part
<1>1. /\ q \in Seq(Write) /\ q # <<>>
      /\ tree' = [tree EXCEPT ![n][p] = a]
      /\ outbox' = [outbox EXCEPT ![a] = Tail(q)]
      /\ UNCHANGED <<account, displayName, tries, raced, lost>>
    BY DEF Deliver, TypeOK, names
<1>2. /\ DOMAIN q = 1..Len(q) /\ Len(q) \in Nat /\ 1 \in DOMAIN q
      /\ Head(q) = q[1] /\ Head(q) \in Write
      /\ DOMAIN Tail(q) = 1..(Len(q) - 1)
      /\ \A i \in DOMAIN Tail(q) :
            i + 1 \in DOMAIN q /\ Tail(q)[i] = q[i + 1]
    BY <1>1, TailFacts
<1>3. n \in Name /\ p \in Part /\ q[1] = [name |-> n, part |-> p]
    BY <1>2 DEF Write
<1>4. /\ outbox'[a] = Tail(q)
      /\ \A b \in Account : b # a => outbox'[b] = outbox[b]
    BY <1>1 DEF TypeOK
<1>5. \A m \in Name, r \in Part :
          tree'[m][r] = IF m = n /\ r = p THEN a ELSE tree[m][r]
    BY <1>1, <1>3 DEF TypeOK
<1> DEFINE t == Tail(q)
<1>6. /\ outbox'[a] = t
      /\ \A i \in DOMAIN t : i + 1 \in DOMAIN q /\ t[i] = q[i + 1]
    BY <1>2, <1>4
<1> HIDE DEF t
<1>7. a # Nobody
    BY RegistrationNobody
<1> HIDE DEF n, p
<1>8. \A m \in Name, r \in Part : tree[m][r] # Nobody => tree'[m][r] # Nobody
    BY <1>5, <1>7
<1>9. ASSUME NEW b \in Account, NEW m \in Name, QueuedAt(b, m, "profile")
      PROVE  \/ QueuedAt(b, m, "profile")'
             \/ b = a /\ m = n /\ p = "profile" /\ tree'[m]["profile"] = a
    <2>1. PICK i \in DOMAIN outbox[b] :
              outbox[b][i] = [name |-> m, part |-> "profile"]
        BY <1>9 DEF QueuedAt
    <2>2. CASE b # a
        BY <1>4, <2>1, <2>2 DEF QueuedAt
    <2>3. CASE b = a /\ i = 1
        <3>1. m = n /\ p = "profile"
            BY <1>3, <2>1, <2>3
        <3> QED BY <1>5, <2>3, <3>1 DEF Part
    <2>4. CASE b = a /\ i # 1
        <3>1. i - 1 \in DOMAIN Tail(q) /\ (i - 1) + 1 = i
            BY <1>2, <2>1, <2>4
        <3>2. Tail(q)[i - 1] = [name |-> m, part |-> "profile"]
            BY <1>2, <2>1, <2>4, <3>1
        <3> QED BY <1>4, <2>4, <3>1, <3>2 DEF QueuedAt
    <2> QED BY <2>2, <2>3, <2>4
<1>10. ASSUME NEW b \in Account, NEW m \in Name, QueuedAt(b, m, "profile")'
       PROVE  QueuedAt(b, m, "profile")
    <2>1. PICK i \in DOMAIN outbox'[b] :
              outbox'[b][i] = [name |-> m, part |-> "profile"]
        BY <1>10 DEF QueuedAt
    <2>2. CASE b # a
        BY <1>4, <2>1, <2>2 DEF QueuedAt
    <2>3. CASE b = a
        <3>1. i + 1 \in DOMAIN q /\ q[i + 1] = [name |-> m, part |-> "profile"]
            BY <1>6, <2>1, <2>3
        <3> QED BY <2>3, <3>1 DEF QueuedAt
    <2> QED BY <2>2, <2>3
<1>11. \A b \in Account, m \in Name, s \in Stage : At(b, m, s)' <=> At(b, m, s)
    BY <1>1 DEF At
<1>12. \A b \in Account, m \in Name : Coming(b, m) => Coming(b, m)'
    BY <1>7, <1>8, <1>9, <1>11 DEF Coming, Stage, Part
<1>13. AccountHeld' /\ DisplayHeld'
    BY <1>1, <1>11, <1>12 DEF NameInv, AccountHeld, DisplayHeld, Stage
<1>14. \A b \in Account, m \in Name : Under(b, m)' => Under(b, m)
    <2> SUFFICES ASSUME NEW b \in Account, NEW m \in Name, Under(b, m)'
                 PROVE  Under(b, m)
        OBVIOUS
    <2>1. PICK i \in DOMAIN outbox'[b] : outbox'[b][i].name = m
        BY DEF Under
    <2>2. CASE b # a
        BY <1>4, <2>1, <2>2 DEF Under
    <2>3. CASE b = a
        <3>1. i + 1 \in DOMAIN q /\ q[i + 1].name = m
            BY <1>6, <2>1, <2>3
        <3> QED BY <2>3, <3>1 DEF Under
    <2> QED BY <2>2, <2>3
<1>15. Under(a, n)
    BY <1>2, <1>3 DEF Under
<1>16. \A m \in Name : Begun(m)' => Begun(m)
    BY <1>5, <1>14, <1>15 DEF Begun
<1>17. PartsHeld'
    BY <1>1, <1>12, <1>16 DEF NameInv, PartsHeld
<1>18. p = "profile" => QueuedAt(a, n, "profile")
    BY <1>2, <1>3 DEF QueuedAt
<1>19. \A b \in Account, m \in Name : Claims(b, m)' => Claims(b, m)
    <2> SUFFICES ASSUME NEW b \in Account, NEW m \in Name, Claims(b, m)'
                 PROVE  Claims(b, m)
        OBVIOUS
    <2>1. Setting(b, m)' <=> Setting(b, m)
        BY <1>11 DEF Setting
    <2>2. tree'[m]["profile"] = b =>
              tree[m]["profile"] = b \/ (b = a /\ m = n /\ p = "profile")
        BY <1>5 DEF Part
    <2> QED BY <1>10, <1>18, <2>1, <2>2 DEF Claims
<1>20. Exclusive'
    BY <1>1, <1>19 DEF NameInv, Exclusive
<1>21. ASSUME NEW b \in Account, NEW m \in Name, m \notin raced, Owns(b, m)
       PROVE  Owns(b, m)'
    <2>1. CASE tree[m]["profile"] = b
        <3>1. m = n /\ p = "profile" => b = a
            BY <1>18, <1>21, <2>1 DEF Claims, NameInv, Exclusive
        <3>2. tree'[m]["profile"] = b
            BY <1>5, <2>1, <3>1 DEF Part
        <3> QED BY <3>2 DEF Owns
    <2>2. CASE tree[m]["profile"] # b
        BY <1>9, <1>11, <1>21, <2>2 DEF Owns, Stage
    <2> QED BY <2>1, <2>2
<1>22. NamesOwned'
    BY <1>1, <1>21 DEF NameInv, NamesOwned, HasName
<1> QED BY <1>13, <1>17, <1>20, <1>22 DEF NameInv

\* A process dies with its queue and its callbacks.
LEMMA CrashKeeps ==
    ASSUME TypeOK, NameInv, NEW a \in Account, Crash(a)
    PROVE  NameInv'
<1>1. /\ UNCHANGED <<tree, account, displayName, raced>>
      /\ lost' = lost \cup {n \in Name : \/ QueuedAt(a, n, "profile")
                                         \/ At(a, n, "committed")
                                         \/ At(a, n, "set")}
      /\ outbox'[a] = <<>> /\ tries'[a] = {}
      /\ \A b \in Account : b # a => outbox'[b] = outbox[b] /\ tries'[b] = tries[b]
    BY DEF Crash, TypeOK, names
<1>2. /\ lost \subseteq lost'
      /\ \A n \in Name \ lost' : ~QueuedAt(a, n, "profile") /\
             ~At(a, n, "committed") /\ ~At(a, n, "set")
    BY <1>1
<1>3. \A b \in Account, n \in Name, s \in Stage :
          (At(b, n, s)' <=> b # a /\ At(b, n, s))
    BY <1>1 DEF At
<1>4. \A b \in Account, n \in Name :
          (QueuedAt(b, n, "profile")' <=> b # a /\ QueuedAt(b, n, "profile"))
    BY <1>1 DEF QueuedAt
<1>5. \A b \in Account, n \in Name \ lost' :
          /\ Coming(b, n) => Coming(b, n)'
          /\ Owns(b, n) => Owns(b, n)'
          /\ At(b, n, "committed") => At(b, n, "committed")'
    BY <1>1, <1>2, <1>3, <1>4 DEF Coming, Owns, Stage
<1>6. AccountHeld' /\ DisplayHeld'
    BY <1>1, <1>2, <1>5 DEF NameInv, AccountHeld, DisplayHeld
<1>7. \A b \in Account, n \in Name : Under(b, n)' => Under(b, n)
    BY <1>1 DEF Under
<1>8. \A n \in Name : Begun(n)' => Begun(n)
    BY <1>1, <1>7 DEF Begun
<1>9. PartsHeld'
    BY <1>2, <1>5, <1>8 DEF NameInv, PartsHeld
<1>10. NamesOwned'
    BY <1>1, <1>2, <1>5 DEF NameInv, NamesOwned, HasName
<1>11. \A b \in Account, n \in Name : Claims(b, n)' => Claims(b, n)
    BY <1>1, <1>3, <1>4 DEF Claims, Setting
<1>12. Exclusive'
    BY <1>1, <1>11 DEF NameInv, Exclusive
<1> QED BY <1>6, <1>9, <1>10, <1>12 DEF NameInv

LEMMA NameStep ==
    ASSUME TypeOK, NameInv, [Next]_vars
    PROVE  NameInv'
<1>1. ASSUME NEW a \in Account, NEW n \in Name,
             HandleContinue(a, n) \/ NameTaken(a, n)
      PROVE  NameInv'
    <2>1. UNCHANGED <<tree, outbox, account, displayName, raced, lost>>
        BY <1>1 DEF HandleContinue, NameTaken, names
    <2>2. \A b \in Account, m \in Name, s \in Stage \ {"checking"} :
              At(b, m, s)' <=> At(b, m, s)
        <3>1. CASE HandleContinue(a, n)
            BY <3>1 DEF HandleContinue, At, TypeOK
        <3>2. CASE NameTaken(a, n)
            BY <3>2, DropFacts DEF NameTaken, Stage
        <3> QED BY <1>1, <3>1, <3>2
    <2> QED BY <2>1, <2>2, Undisturbed DEF Setting, Stage
<1>2. ASSUME NEW a \in Account, GoBack(a) \/ CheckIfProfileIsSetup(a)
      PROVE  NameInv'
    <2>1. UNCHANGED <<tree, outbox, account, displayName, tries, raced, lost>>
        BY <1>2 DEF GoBack, CheckIfProfileIsSetup, names
    <2> QED BY <2>1, Undisturbed DEF Setting, At
<1>3. CASE UNCHANGED vars
    <2>1. UNCHANGED <<tree, outbox, account, displayName, tries, raced, lost>>
        BY <1>3 DEF vars, names
    <2> QED BY <2>1, Undisturbed DEF Setting, At
<1>4. ASSUME NEW a \in Account, TokenFetched(a) \/ FinishBio(a)
      PROVE  NameInv'
    <2>1. /\ WriteOwn(a, "details")
          /\ UNCHANGED <<tree, account, displayName, tries, raced, lost>>
        BY <1>4 DEF TokenFetched, FinishBio, names
    <2> QED BY <2>1, WriteOwnKeeps
<1>5. ASSUME NEW a \in Account, FinishGames(a)
      PROVE  NameInv'
    <2>1. /\ WriteOwn(a, "games")
          /\ UNCHANGED <<tree, account, displayName, tries, raced, lost>>
        BY <1>5 DEF FinishGames, names
    <2> QED BY <2>1, WriteOwnKeeps
<1> QED
    BY <1>1, <1>2, <1>3, <1>4, <1>5, NameFreeKeeps, SendNameKeeps,
       SetAccountInfoKeeps, StoreNameKeeps, NameNotSetKeeps, NameSetKeeps,
       DeliverKeeps, CrashKeeps DEF Next

LEMMA NameInvariant == Spec => [](TypeOK /\ NameInv)
<1>1. Init => TypeOK /\ Rooted
    BY DEF Init, TypeOK, Rooted, Screen
<1>2. Init => NameInv
    <2> SUFFICES ASSUME Init PROVE NameInv
        OBVIOUS
    <2>1. \A a \in Account, n \in Name : ~Claims(a, n) /\ ~HasName(a, n)
        BY RegistrationNobody, RegistrationNoName
            DEF Init, Claims, Setting, At, QueuedAt, Part, HasName
    <2>2. AccountHeld /\ DisplayHeld
        BY RegistrationNoName DEF Init, AccountHeld, DisplayHeld
    <2>3. PartsHeld
        BY DEF Init, PartsHeld, Begun, Under
    <2> QED BY <2>1, <2>2, <2>3 DEF NameInv, Exclusive, NamesOwned
<1>3. TypeOK /\ Rooted /\ NameInv /\ [Next]_vars =>
          TypeOK' /\ Rooted' /\ NameInv'
    BY TypeStep, NameStep
<1> QED BY <1>1, <1>2, <1>3, PTL DEF Spec

\* Two accounts have the same name only after a race or a lost profile: from
\* the check of setupProfile on, through the answer of commitChanges and the
\* write in its callback, one account alone is after it.
THEOREM NamesNotShared == Spec => []SharedOnlyByRace
<1>1. NameInv => SharedOnlyByRace
    <2> SUFFICES ASSUME NameInv, NEW a \in Account, NEW b \in Account,
                        NEW n \in Name, n \notin raced, n \notin lost,
                        HasName(a, n), HasName(b, n)
                 PROVE  a = b
        BY DEF SharedOnlyByRace
    <2>1. Owns(a, n) /\ Owns(b, n)
        BY DEF NameInv, NamesOwned
    <2>2. Claims(a, n) /\ Claims(b, n)
        BY <2>1 DEF Owns, Claims, Setting, Stage
    <2> QED BY <2>2 DEF NameInv, Exclusive
<1> QED BY <1>1, NameInvariant, PTL

\* What is written under a name has its profile, or one on its way from the
\* callback of commitChanges, unless the profile was lost (UserController
\* .setupProfile and what its callbacks write).
THEOREM ProfilesWhole == Spec => []NoHalfProfiles
<1>1. NameInv => NoHalfProfiles
    BY DEF NameInv, PartsHeld, Begun, NoHalfProfiles
<1> QED BY <1>1, NameInvariant, PTL

\* A profile is overwritten by nobody but its author, unless two accounts tried
\* at the same time: who writes a profile claims its name.
THEOREM ProfilesNotTaken == Spec => ProfileKept
<1> DEFINE Kept == \A n \in Name \ raced :
                       tree[n]["profile"] # Nobody =>
                           tree'[n]["profile"] = tree[n]["profile"]
<1>1. TypeOK /\ NameInv /\ [Next]_vars => [Kept]_vars
    <2> SUFFICES ASSUME TypeOK, NameInv, [Next]_vars PROVE Kept
        OBVIOUS
    <2>1. CASE UNCHANGED tree
        BY <2>1
    <2>2. ASSUME NEW a \in Account, Deliver(a)
          PROVE  Kept
        <3> SUFFICES ASSUME NEW n \in Name, n \notin raced,
                            tree[n]["profile"] # Nobody,
                            tree'[n]["profile"] # tree[n]["profile"]
                     PROVE  FALSE
            OBVIOUS
        <3>1. /\ Head(outbox[a]) \in Write /\ 1 \in DOMAIN outbox[a]
              /\ Head(outbox[a]) = outbox[a][1]
            BY <2>2, TailFacts DEF Deliver, TypeOK
        <3>2. /\ Head(outbox[a]).name = n /\ Head(outbox[a]).part = "profile"
              /\ tree'[n]["profile"] = a
            BY <2>2, <3>1 DEF Deliver, TypeOK, Write, Part
        <3>3. outbox[a][1] = [name |-> n, part |-> "profile"]
            BY <3>1, <3>2 DEF Write
        <3>4. Claims(a, n)
            BY <3>1, <3>3 DEF Claims, QueuedAt
        <3>5. tree[n]["profile"] \in Account /\ Claims(tree[n]["profile"], n)
            BY DEF TypeOK, Claims, Part
        <3>6. tree[n]["profile"] = a
            BY <3>4, <3>5 DEF NameInv, Exclusive
        <3> QED BY <3>2, <3>6
    <2>3. Next => UNCHANGED tree \/ \E a \in Account : Deliver(a)
        BY DEF Next, HandleContinue, NameTaken, NameFree, SendName,
               SetAccountInfo, StoreName, NameNotSet, NameSet, TokenFetched, FinishBio, FinishGames, GoBack,
               CheckIfProfileIsSetup, Crash
    <2>4. UNCHANGED vars => UNCHANGED tree
        BY DEF vars
    <2> QED BY <2>1, <2>2, <2>3, <2>4
<1> QED BY <1>1, NameInvariant, PTL DEF Spec, ProfileKept
==============================================================================
