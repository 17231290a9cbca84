----------------------------- MODULE TeammateGraph -----------------------------
(***************************************************************************)
(* Who is whose teammate: requests, acceptance, removal, and the lists the *)
(* screens act on (RequestController, TeammateController, the teammate     *)
(* side of MessageController, and the screens that call them).             *)
(*                                                                         *)
(* A friendship is two entries of the database, one under each user, and   *)
(* every operation on it is a batch of separate writes put in the device's *)
(* queue.  The screens decide from cached lists, refreshed by observers    *)
(* whose rounds of profile fetches may finish in any order.                *)
(***************************************************************************)
EXTENDS Backend, FiniteSets

CONSTANTS
    User,        \* the registered users
    Device,      \* running copies of the app
    UserOf,      \* the user signed in on each device
    MaxOps,      \* bound: operations started by the users, over the whole run
    MaxCrashes,  \* bound: times the app is killed
    MaxDrops,    \* bound: connections lost with writes not acknowledged
    MaxFaults,   \* bound: kills and lost connections together
    Past,        \* the requests accepted before the run, as <<from, to>>
    Waiting,     \* the requests not yet answered when the run starts
    Edited,      \* users who edited a biography or region: copies may differ
    MaxRounds    \* bound: rounds of one list in flight on a device

ASSUME UserOfAssumption == UserOf \in [Device -> User]
ASSUME BoundsAssumption ==
    /\ MaxOps \in Nat /\ MaxCrashes \in Nat /\ MaxDrops \in Nat
    /\ MaxFaults \in Nat
    /\ MaxRounds \in Nat \ {0}

ASSUME PastAssumption ==
    Past \cup Waiting \subseteq {p \in User \X User : p[1] # p[2]}
ASSUME EditedAssumption == Edited \subseteq User

VARIABLES
    tree,       \* the server's data: the entries that exist
    outbox,     \* per device, the writes not acknowledged, in order
    unacked,    \* per device, how many of them the server applied all the same
    reads,      \* per device and player, the check that precedes a request
    players,    \* per device, the players on the LFG screen still requestable
    shown,      \* per device, the lists held by the controllers
    synced,     \* per device, the value each list's observer last reported
    rounds,     \* per device, the reported values whose profile fetches run
    captured,   \* per device, the open prompt or chat and the user it is about
    ops,        \* operations started so far
    crashes,    \* kills so far
    drops,      \* connections lost so far before an acknowledgement
    asked,      \* history: <<a, b>> if a sent b a request
    disturbed,  \* history: pairs with a batch torn by a kill or crossed
    formed      \* history: pairs the server held in both teammate lists

client == <<reads, players, shown, synced, rounds, captured>>
history == <<asked, disturbed, formed>>
faults == <<unacked, crashes, drops>>
vars == <<tree, outbox, client, ops, faults, history>>

------------------------------------------------------------------------------

\* users/<owner>/<node>/<peer>; for directChats the whole chat with <peer>.
Node == {"teammates", "teammateRequests", "directChats"}
At(n, o, p) == [node |-> n, owner |-> o, peer |-> p]
Entry == {e \in [node : Node, owner : User, peer : User] : e.owner # e.peer}

Operation == {"request", "accept", "decline", "remove", "message"}
ReadState == {"idle", "absent", "present"}

\* The lists a device watches and shows.
List == {"teammates", "teammateRequests"}
Round == [node : List, users : SUBSET User]
Capture == [kind : {"accept", "decline", "remove", "chat"}, user : User]

Me(d) == UserOf[d]
Edges(a, b) == {At("teammates", a, b), At("teammates", b, a)}
Mates(data, a, b) == Edges(a, b) \subseteq data

\* The value of one of the device's own lists, as its observer reports it.
View(d, n) ==
    {p \in User \ {Me(d)} : Seen(tree, outbox[d], At(n, Me(d), p))}

\* A device offers, checks and captures only other users than its own.
OnlyOthers ==
    \A d \in Device :
        /\ Me(d) \notin players[d]
        /\ reads[d][Me(d)] = "idle"
        /\ \A n \in List : Me(d) \notin shown[d][n]
        /\ \A r \in rounds[d] : Me(d) \notin r.users
        /\ \A c \in captured[d] : c.user # Me(d)

\* Types, and what every entry rests on: no user is their own teammate,
\* because the filter of the player list keeps the player off it.
TypeOK ==
    /\ tree \subseteq Entry
    /\ outbox \in [Device -> Seq(Write(Entry, Operation))]
    /\ reads \in [Device -> [User -> ReadState]]
    /\ players \in [Device -> SUBSET User]
    /\ shown \in [Device -> [List -> SUBSET User]]
    /\ synced \in [Device -> [List -> SUBSET User]]
    /\ rounds \in [Device -> SUBSET Round]
    /\ captured \in [Device -> SUBSET Capture]
    /\ unacked \in [Device -> Nat]
    /\ ops \in Nat
    /\ crashes \in Nat
    /\ drops \in Nat
    /\ asked \subseteq User \X User
    /\ disturbed \subseteq SUBSET User
    /\ formed \subseteq SUBSET User
    /\ OnlyOthers

NothingShown == [n \in List |-> {}]

Init ==
    /\ tree = (UNION {Edges(p[1], p[2]) : p \in Past})
                \cup {At("teammateRequests", p[2], p[1]) : p \in Waiting}
    /\ asked = Past \cup Waiting
    /\ formed = {{p[1], p[2]} : p \in Past}
    /\ outbox = [d \in Device |-> <<>>]
    /\ reads = [d \in Device |-> [u \in User |-> "idle"]]
    /\ players = [d \in Device |-> {}]
    /\ shown = [d \in Device |-> NothingShown]
    /\ synced = [d \in Device |-> NothingShown]
    /\ rounds = [d \in Device |-> {}]
    /\ captured = [d \in Device |-> {}]
    /\ ops = 0
    /\ unacked = [d \in Device |-> 0]
    /\ crashes = 0
    /\ drops = 0
    /\ disturbed = {}

------------------------------------------------------------------------------
(* Sending a request *)

Start == ops < MaxOps /\ ops' = ops + 1

Call(d, writes) == outbox' = [outbox EXCEPT ![d] = @ \o writes]

\* The players kept off the LFG screen: the teammates shown at that moment.
\* User.== compares name, biography and region, so it does not recognise a
\* teammate in an entry of the listing with an older biography or region.
Recognised(d) == {shown[d]["teammates"] \ other : other \in SUBSET Edited}

\* The result of the search stays on the screen until the next one.
ListPlayers(d, found) ==
    /\ players[d] # found
    /\ players' = [players EXCEPT ![d] = found]
    /\ UNCHANGED <<tree, outbox, reads, shown, synced, rounds, captured,
                   ops, faults, history>>

\* Mutant: the player is not filtered out of the list.
FetchPlayersWithSelf(d) == \E r \in Recognised(d) : ListPlayers(d, User \ r)

FetchPlayers(d) ==
    \E r \in Recognised(d) : ListPlayers(d, User \ ({Me(d)} \cup r))

\* The tap on "request" reads the target's requests.  The step is the instant
\* at which the value read is fixed; the callback runs with it later.
RequestPlayerToTeamUp(d, t) ==
    /\ t \in players[d]
    /\ reads[d][t] = "idle"
    /\ Start
    /\ reads' = [reads EXCEPT ![d][t] =
          IF Seen(tree, outbox[d], At("teammateRequests", t, Me(d)))
          THEN "present" ELSE "absent"]
    /\ UNCHANGED <<tree, outbox, players, shown, synced, rounds, captured,
                   faults, history>>

Answered(d, t) ==
    /\ reads' = [reads EXCEPT ![d][t] = "idle"]
    /\ players' = [players EXCEPT ![d] = @ \ {t}]

\* "You've already requested t".
FindAlreadyRequested(d, t) ==
    /\ reads[d][t] = "present"
    /\ Answered(d, t)
    /\ UNCHANGED <<tree, outbox, shown, synced, rounds, captured, ops, faults,
                   history>>

RequestWrites(me, t) ==
    << SetValue(At("teammateRequests", t, me), "request") >>

SendRequest(d, t) ==
    /\ reads[d][t] = "absent"
    /\ Answered(d, t)
    /\ Call(d, RequestWrites(Me(d), t))
    /\ asked' = asked \cup {<<Me(d), t>>}
    /\ UNCHANGED <<tree, shown, synced, rounds, captured, ops, faults,
                   disturbed, formed>>

------------------------------------------------------------------------------
(* The lists and what is opened from them *)

Show(d, n, list) == shown' = [shown EXCEPT ![d][n] = list]

\* The observer of one of the device's lists reports a new value.
Report(d, n) ==
    /\ View(d, n) # synced[d][n]
    /\ synced' = [synced EXCEPT ![d][n] = View(d, n)]
    /\ UNCHANGED <<tree, outbox, reads, players, captured, ops, faults,
                   history>>

\* An emptied list is shown at once ...
ObserveEmpty(d, n) ==
    /\ View(d, n) = {}
    /\ Report(d, n)
    /\ Show(d, n, {})
    /\ UNCHANGED rounds

\* ... any other waits until the profile of each user on it is fetched.
Observe(d, n) ==
    /\ View(d, n) # {}
    /\ Cardinality({r \in rounds[d] : r.node = n}) < MaxRounds
    /\ Report(d, n)
    /\ rounds' = [rounds EXCEPT ![d] =
                     @ \cup {[node |-> n, users |-> View(d, n)]}]
    /\ UNCHANGED shown

\* Rounds finish in any order: an older value may be shown after a newer one.
FinishRound(d, r) ==
    /\ r \in rounds[d]
    /\ rounds' = [rounds EXCEPT ![d] = @ \ {r}]
    /\ Show(d, r.node, r.users)
    /\ UNCHANGED <<tree, outbox, reads, players, synced, captured, ops,
                   faults, history>>

\* The list each kind of screen is opened from.
Source(k) ==
    IF k \in {"accept", "decline"} THEN "teammateRequests" ELSE "teammates"

\* A prompt or a chat keeps the user it was opened for, whatever happens to
\* the list it was opened from.
Open(d, c) ==
    /\ captured[d] = {}
    /\ c.user \in shown[d][Source(c.kind)]
    /\ captured' = [captured EXCEPT ![d] = {c}]
    /\ UNCHANGED <<tree, outbox, reads, players, shown, synced, rounds, ops,
                   faults, history>>

\* Cancelled, left, or (a chat) dropped because the list of chats lacks it.
Close(d) ==
    /\ captured[d] # {}
    /\ captured' = [captured EXCEPT ![d] = {}]
    /\ UNCHANGED <<tree, outbox, reads, players, shown, synced, rounds, ops,
                   faults, history>>

------------------------------------------------------------------------------
(* Accepting, declining, removing, writing *)

Confirmed(d, k, u) ==
    /\ [kind |-> k, user |-> u] \in captured[d]
    /\ Start
    /\ captured' = [captured EXCEPT ![d] = {}]

\* removeRequest: the local list loses u at once, without waiting for the
\* observer, if firstIndex(of:) finds the user the prompt was opened for.
DropRequest(d, u) ==
    \/ shown' = [shown EXCEPT ![d]["teammateRequests"] = @ \ {u}]
    \/ u \in Edited /\ UNCHANGED shown

\* Another device has writes queued that say the opposite about the pair.
Crossed(d, a, b, op) ==
    \E e \in Device \ {d} : \E i \in DOMAIN outbox[e] :
        outbox[e][i].entry \in Edges(a, b) /\ outbox[e][i].op # op

NoteCrossing(d, u, op) ==
    disturbed' = IF Crossed(d, Me(d), u, op)
                 THEN disturbed \cup {{Me(d), u}} ELSE disturbed

\* Mutant: only the accepting user's list gets the new teammate.
AcceptWritesOwnSide(me, u) ==
    << SetValue(At("teammates", me, u), "accept"),
       RemoveValue(At("teammateRequests", me, u), "accept"),
       RemoveValue(At("teammateRequests", u, me), "accept") >>

\* Mutant: a crossed request is set again instead of removed.
AcceptWritesAskBack(me, u) ==
    << SetValue(At("teammates", me, u), "accept"),
       SetValue(At("teammates", u, me), "accept"),
       RemoveValue(At("teammateRequests", me, u), "accept"),
       SetValue(At("teammateRequests", u, me), "accept") >>

\* Mutant: the request is removed before the edges are written.
AcceptWritesRequestsFirst(me, u) ==
    << RemoveValue(At("teammateRequests", me, u), "accept"),
       RemoveValue(At("teammateRequests", u, me), "accept"),
       SetValue(At("teammates", me, u), "accept"),
       SetValue(At("teammates", u, me), "accept") >>

AcceptWrites(me, u) ==
    << SetValue(At("teammates", me, u), "accept"),
       SetValue(At("teammates", u, me), "accept"),
       RemoveValue(At("teammateRequests", me, u), "accept"),
       RemoveValue(At("teammateRequests", u, me), "accept") >>

AcceptTeammateRequest(d, u) ==
    /\ Confirmed(d, "accept", u)
    /\ Call(d, AcceptWrites(Me(d), u))
    /\ DropRequest(d, u)
    /\ NoteCrossing(d, u, "set")
    /\ UNCHANGED <<tree, reads, players, synced, rounds, faults, asked, formed>>

DeclineTeammateRequest(d, u) ==
    /\ Confirmed(d, "decline", u)
    /\ Call(d, <<RemoveValue(At("teammateRequests", Me(d), u), "decline")>>)
    /\ DropRequest(d, u)
    /\ UNCHANGED <<tree, reads, players, synced, rounds, faults, history>>

\* Mutant: the other user keeps the removed teammate.
RemoveWritesOwnSide(me, u) ==
    << RemoveValue(At("teammates", me, u), "remove"),
       RemoveValue(At("directChats", me, u), "remove"),
       RemoveValue(At("directChats", u, me), "remove") >>

RemoveWrites(me, u) ==
    << RemoveValue(At("teammates", me, u), "remove"),
       RemoveValue(At("teammates", u, me), "remove"),
       RemoveValue(At("directChats", me, u), "remove"),
       RemoveValue(At("directChats", u, me), "remove") >>

RemoveTeammate(d, u) ==
    /\ Confirmed(d, "remove", u)
    /\ Call(d, RemoveWrites(Me(d), u))
    /\ NoteCrossing(d, u, "remove")
    /\ UNCHANGED <<tree, reads, players, shown, synced, rounds, faults, asked,
                   formed>>

\* The chat stays open after a message is sent.
SendDirectMessage(d, u) ==
    /\ [kind |-> "chat", user |-> u] \in captured[d]
    /\ Start
    /\ Call(d, << SetValue(At("directChats", Me(d), u), "message"),
                  SetValue(At("directChats", u, Me(d)), "message") >>)
    /\ UNCHANGED <<tree, client, faults, history>>

------------------------------------------------------------------------------
(* The connection and the process *)

\* The server applies w.
Apply(w) ==
    /\ tree' = Applied(w, tree)
    /\ formed' = IF Mates(tree', w.entry.owner, w.entry.peer)
                 THEN formed \cup {{w.entry.owner, w.entry.peer}} ELSE formed

\* Mutant: queued writes are sent newest first.
DeliverNewest(d) ==
    /\ unacked[d] = 0
    /\ outbox[d] # <<>>
    /\ LET n == Len(outbox[d])
       IN  /\ Apply(outbox[d][n])
           /\ outbox' = [outbox EXCEPT ![d] = SubSeq(@, 1, n - 1)]
    /\ UNCHANGED <<client, ops, faults, asked, disturbed>>

\* The server applies the oldest queued write of d and acknowledges it.
Deliver(d) ==
    /\ unacked[d] = 0
    /\ outbox[d] # <<>>
    /\ Apply(Head(outbox[d]))
    /\ outbox' = [outbox EXCEPT ![d] = Tail(@)]
    /\ UNCHANGED <<client, ops, faults, asked, disturbed>>

NextWrite(d) == outbox[d][unacked[d] + 1]

\* The server applies the next write of d on a connection that breaks before
\* any acknowledgement comes back.
DeliverUnacked(d) ==
    /\ unacked[d] < Len(outbox[d])
    /\ \/ unacked[d] > 0 /\ UNCHANGED drops
       \/ /\ unacked[d] = 0
          /\ drops < MaxDrops /\ crashes + drops < MaxFaults
          /\ drops' = drops + 1
    /\ Apply(NextWrite(d))
    /\ unacked' = [unacked EXCEPT ![d] = @ + 1]
    /\ UNCHANGED <<outbox, client, ops, crashes, asked, disturbed>>

\* restoreState: on a new connection everything not acknowledged is sent
\* again, what the server has already applied included.
Reconnect(d) ==
    /\ unacked[d] > 0
    /\ unacked' = [unacked EXCEPT ![d] = 0]
    /\ UNCHANGED <<tree, outbox, client, ops, crashes, drops, history>>

\* Pairs whose teammate entries d has queued writes for.
QueuedPairs(d) ==
    {{outbox[d][i].entry.owner, outbox[d][i].entry.peer} :
        i \in {j \in DOMAIN outbox[d] : outbox[d][j].entry.node = "teammates"}}

\* The app is killed: it keeps nothing but the sign-in, and comes back.
Crash(d) ==
    /\ crashes < MaxCrashes /\ crashes + drops < MaxFaults
    /\ crashes' = crashes + 1
    /\ disturbed' = disturbed \cup QueuedPairs(d)
    /\ outbox' = [outbox EXCEPT ![d] = <<>>]
    /\ unacked' = [unacked EXCEPT ![d] = 0]
    /\ reads' = [reads EXCEPT ![d] = [u \in User |-> "idle"]]
    /\ players' = [players EXCEPT ![d] = {}]
    /\ shown' = [shown EXCEPT ![d] = NothingShown]
    /\ synced' = [synced EXCEPT ![d] = NothingShown]
    /\ rounds' = [rounds EXCEPT ![d] = {}]
    /\ captured' = [captured EXCEPT ![d] = {}]
    /\ UNCHANGED <<tree, ops, drops, asked, formed>>

Next ==
    \E d \in Device :
        \/ FetchPlayers(d)
        \/ \E t \in User :
              \/ RequestPlayerToTeamUp(d, t)
              \/ FindAlreadyRequested(d, t)
              \/ SendRequest(d, t)
        \/ \E n \in List : ObserveEmpty(d, n) \/ Observe(d, n)
        \/ \E r \in rounds[d] : FinishRound(d, r)
        \/ \E c \in Capture : Open(d, c)
        \/ Close(d)
        \/ \E u \in User :
              \/ AcceptTeammateRequest(d, u)
              \/ DeclineTeammateRequest(d, u)
              \/ RemoveTeammate(d, u)
              \/ SendDirectMessage(d, u)
        \/ Deliver(d)
        \/ DeliverUnacked(d)
        \/ Reconnect(d)
        \/ Crash(d)

Spec == Init /\ [][Next]_vars

\* The connection is retried until it works, so queued writes reach the
\* server unless the app is killed first.  Users and rounds owe nothing.
FairSpec ==
    Spec /\ \A d \in Device : WF_vars(Deliver(d)) /\ WF_vars(Reconnect(d))

------------------------------------------------------------------------------
(* Properties *)

\* What an entry presupposes of the requests sent: a request its sender's, a
\* teammate or a chat a request one way or the other.
BackedBy(sent, e) ==
    IF e.node = "teammateRequests"
    THEN <<e.peer, e.owner>> \in sent
    ELSE <<e.peer, e.owner>> \in sent \/ <<e.owner, e.peer>> \in sent

Backed(e) == BackedBy(asked, e)

\* Nobody becomes a teammate, or gets a chat, without one of the two having
\* asked the other; and a request in the database was sent by its sender.
\* Stale prompts, overtaken rounds and kills do not break this: every screen
\* can only act on a user that the database once offered it.
ConsentedEntries == \A e \in tree : Backed(e)

\* Why it holds: everything on the way to a write is backed as well.
WritesBacked ==
    \A d \in Device : \A i \in DOMAIN outbox[d] :
        outbox[d][i].op = "set" => Backed(outbox[d][i].entry)

ListsBacked ==
    \A d \in Device :
        /\ \A n \in List : \A u \in shown[d][n] : Backed(At(n, Me(d), u))
        /\ \A r \in rounds[d] : \A u \in r.users : Backed(At(r.node, Me(d), u))

CapturesBacked ==
    \A d \in Device : \A c \in captured[d] :
        Backed(At(Source(c.kind), Me(d), c.user))

ConsentInv ==
    ConsentedEntries /\ WritesBacked /\ ListsBacked /\ CapturesBacked

Pending(d, a, b) == Queued(outbox[d], Edges(a, b))
Agree(a, b) == At("teammates", a, b) \in tree <=> At("teammates", b, a) \in tree

\* Once no write about a pair is queued, the two teammate lists agree on it,
\* unless the app was killed with such a write queued, or an accept and a
\* removal of the pair were queued on two devices at once.  The batches of
\* acceptTeammateRequest and removeTeammate are not atomic: these are exactly
\* the ways in which that shows.
SettledMutual ==
    \A a, b \in User :
        \/ {a, b} \in disturbed
        \/ \E d \in Device : Pending(d, a, b)
        \/ Agree(a, b)

\* Why it holds: the writes that different devices have queued about a pair
\* ask for the same, and each device with some already sees both edges alike.
SameOps(a, b) ==
    \A d, e \in Device : \A i \in DOMAIN outbox[d] : \A j \in DOMAIN outbox[e] :
        /\ d # e
        /\ outbox[d][i].entry \in Edges(a, b)
        /\ outbox[e][j].entry \in Edges(a, b)
        => outbox[d][i].op = outbox[e][j].op

WillAgree(a, b) ==
    \A d \in Device :
        Pending(d, a, b) =>
            (Seen(tree, outbox[d], At("teammates", a, b))
                <=> Seen(tree, outbox[d], At("teammates", b, a)))

PairInv(a, b) ==
    \/ {a, b} \in disturbed
    \/ /\ SameOps(a, b)
       /\ WillAgree(a, b)
       /\ (\A d \in Device : ~Pending(d, a, b)) => Agree(a, b)

MutualInv == \A a, b \in User : a # b => PairInv(a, b)

\* A request leaves the database only because it was declined, or after the
\* server held the pair as teammates: acceptTeammateRequest writes both edges
\* before it removes the request, so a kill inside it loses no request.
RequestNotLost ==
    [][\A e \in tree \ tree' :
          e.node = "teammateRequests" =>
              \/ {e.owner, e.peer} \in formed \cup disturbed
              \/ \E d \in Device :
                    /\ unacked[d] < Len(outbox[d])
                    /\ NextWrite(d) = RemoveValue(e, "decline")]_vars

\* A chat exists only between users the server held as teammates at some time
\* (or a disturbed pair).  A device shows its own acceptance before the server
\* knows it, and may write a message at once: the order of its queue is what
\* keeps the message behind both edges.  With two devices of one user it fails.
ChatsOfFormedPairs ==
    \A e \in tree :
        e.node = "directChats" => {e.owner, e.peer} \in formed \cup disturbed

Accepting(a, b) ==
    \E d \in Device : \E i \in DOMAIN outbox[d] :
        outbox[d][i] = SetValue(At("teammates", a, b), "accept")

\* Whatever else the devices do, an accepted request makes the two users
\* teammates on the server, unless the pair is disturbed.
AcceptTakesEffect ==
    \A p \in {q \in User \X User : q[1] # q[2]} :
        Accepting(p[1], p[2]) ~> ({p[1], p[2]} \in formed \cup disturbed)

\* The prompt of TeammatesViewController: "This will also remove you from
\* their teammates list."
RemovalReachesBoth ==
    \A a, b \in User :
        (\E d \in Device : \E i \in DOMAIN outbox[d] :
            outbox[d][i] = RemoveValue(At("teammates", a, b), "remove"))
        ~> (At("teammates", b, a) \notin tree)
==============================================================================
