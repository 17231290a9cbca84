------------------------------- MODULE Messaging -------------------------------
(***************************************************************************)
(* Direct messages: sending, marking as read, deleting a chat, and the     *)
(* chat screen that follows the list of chats (MessageController,          *)
(* ChatViewController, MessagesViewController).                            *)
(*                                                                         *)
(* Each of two users owns a copy of their chat.  A message is written to   *)
(* both copies, one after the other; marking as read writes back the       *)
(* messages a device holds in memory; a deletion removes one copy.         *)
(***************************************************************************)
EXTENDS Naturals, Sequences, FiniteSets

CONSTANTS
    User,        \* the registered users
    Device,      \* running copies of the app
    UserOf,      \* the user signed in on each device
    Msg,         \* the messages that may be sent
    Edited,      \* users who edited a biography or region: copies may differ
    MaxOps,      \* bound: chats deleted and teammates removed
    MaxCrashes,  \* bound: times the app is killed
    MaxDrops,    \* bound: connections lost with writes not acknowledged
    MaxRounds    \* bound: rounds of the list in flight on a device

ASSUME MessagingUserOf == UserOf \in [Device -> User]
ASSUME MessagingEdited == Edited \subseteq User
ASSUME MessagingBounds ==
    /\ MaxOps \in Nat /\ MaxCrashes \in Nat /\ MaxDrops \in Nat
    /\ MaxRounds \in Nat \ {0}

VARIABLES
    tree,      \* the server's data: for each copy of a chat, its messages
    outbox,    \* per device, the writes not acknowledged, in order
    unacked,   \* per device, how many of them the server applied all the same
    chats,     \* per device, the list of chats in memory
    changed,   \* the devices whose observer has a change to report
    rounds,    \* per device, the values whose profile fetches run, in order
    screen,    \* per device, the chat screen, if one is open
    route,     \* per message, its sender and addressee once it is sent
    ops, crashes, drops,
    arrived,   \* history: <<copy, message>> the server held
    cleared,   \* history: copies somebody removed
    resent,    \* history: messages sent again because of a lost connection
    lost       \* history: messages in the queue of an app that was killed

bounds == <<ops, crashes, drops>>
history == <<arrived, cleared, resent, lost>>
vars == <<tree, outbox, unacked, chats, changed, rounds, screen, route, bounds,
          history>>

------------------------------------------------------------------------------

\* The copy of a chat with <peer> under users/<owner>/messaging/directChats.
Chat == {c \in User \X User : c[1] # c[2]}
State == {"none", "unread", "read"}

\* What a device holds of its chats: a chat without a message is not listed.
Held == [User -> [Msg -> State]]
NoChats == [u \in User |-> [m \in Msg |-> "none"]]
Listed(value) == {u \in User : \E m \in Msg : value[u][m] # "none"}

Kind == {"new", "listed", "gone"}
Screen == [user : User, kind : Kind]

\* A write gives every message of msgs in one copy the same state; to remove a
\* copy is to leave no message of it.
Write == [chat : Chat, msgs : SUBSET Msg, as : State]
Put(c, ms, as) == [chat |-> c, msgs |-> ms, as |-> as]
Clear(c) == Put(c, Msg, "none")

Touches(w, c, m) == w.chat = c /\ m \in w.msgs

Applied(w, data) ==
    [c \in Chat |->
        [m \in Msg |-> IF Touches(w, c, m) THEN w.as ELSE data[c][m]]]

\* What a device sees of a message: its last queued write of it, or else the
\* server's data.
Touching(q, c, m) == {i \in DOMAIN q : Touches(q[i], c, m)}
Latest(S) == CHOOSE i \in S : \A j \in S : j <= i
Seen(data, q, c, m) ==
    IF Touching(q, c, m) = {} THEN data[c][m]
    ELSE q[Latest(Touching(q, c, m))].as

Me(d) == UserOf[d]

View(d) ==
    [u \in User |-> [m \in Msg |->
        IF u = Me(d) THEN "none" ELSE Seen(tree, outbox[d], <<Me(d), u>>, m)]]

From(m) == route[m][1]
Sent(m) == route[m] # <<>>

\* Every change of what a device sees, by its own calls too, is reported to it
\* once.  (A value replaced before its report may be skipped.)
Raise(before) == changed' = before \cup {d \in Device : View(d)' # View(d)}

\* A device lists and opens chats with other users only.
OthersOnly ==
    \A d \in Device :
        /\ \A s \in screen[d] : s.user # Me(d)
        /\ \A m \in Msg : chats[d][Me(d)][m] = "none"
        /\ \A i \in DOMAIN rounds[d] : \A m \in Msg :
              rounds[d][i][Me(d)][m] = "none"

TypeOK ==
    /\ tree \in [Chat -> [Msg -> State]]
    /\ outbox \in [Device -> Seq(Write)]
    /\ unacked \in [Device -> Nat]
    /\ chats \in [Device -> Held]
    /\ changed \subseteq Device
    /\ rounds \in [Device -> Seq(Held)]
    /\ screen \in [Device -> SUBSET Screen]
    /\ route \in [Msg -> Chat \cup {<<>>}]
    /\ ops \in Nat /\ crashes \in Nat /\ drops \in Nat
    /\ arrived \subseteq Chat \X Msg
    /\ cleared \subseteq Chat
    /\ resent \subseteq Msg
    /\ lost \subseteq Msg
    /\ OthersOnly

Init ==
    /\ tree = [c \in Chat |-> [m \in Msg |-> "none"]]
    /\ outbox = [d \in Device |-> <<>>]
    /\ unacked = [d \in Device |-> 0]
    /\ chats = [d \in Device |-> NoChats]
    /\ changed = Device
    /\ rounds = [d \in Device |-> <<>>]
    /\ screen = [d \in Device |-> {}]
    /\ route = [m \in Msg |-> <<>>]
    /\ ops = 0 /\ crashes = 0 /\ drops = 0
    /\ arrived = {} /\ cleared = {} /\ resent = {} /\ lost = {}

------------------------------------------------------------------------------
(* Marking as read *)

Call(d, writes) == outbox' = [outbox EXCEPT ![d] = @ \o writes]

Unread(d, u, value) ==
    {m \in Msg : value[u][m] = "unread" /\ From(m) # Me(d)}

\* Mutant: the messages are written back as they were before the marking.
MarkWritesUnmarked(me, u, ms) ==
    IF ms = {} THEN <<>> ELSE << Put(<<me, u>>, ms, "unread") >>

\* The whole messages are written back, not just their read flag.
MarkWrites(me, u, ms) ==
    IF ms = {} THEN <<>> ELSE << Put(<<me, u>>, ms, "read") >>

\* markDirectChatMessagesAsRead on the list `value`: the messages in memory
\* are marked and written back.
MarkAsRead(d, u, value) ==
    /\ chats' = [chats EXCEPT ![d] =
          [value EXCEPT ![u] = [m \in Msg |->
              IF m \in Unread(d, u, value) THEN "read" ELSE @[m]]]]
    /\ Call(d, MarkWrites(Me(d), u, Unread(d, u, value)))

------------------------------------------------------------------------------
(* The list of chats *)

\* Looks the open chat up in the new list: not there, or there with a partner
\* who differs in biography or region, it is gone for good.
Kinds(s, value) ==
    IF s.kind = "gone" THEN {"gone"}
    ELSE (IF s.user \in Listed(value) THEN {"listed"} ELSE {"gone"})
             \cup (IF s.user \in Edited THEN {"gone"} ELSE {})

\* Mutant: the open chat does not mark what the new list brings.
UpdateChatOnly(d, value) ==
    /\ chats' = [chats EXCEPT ![d] = value]
    /\ UNCHANGED <<outbox, screen>>

\* "messagesUpdated": the open chat follows the list and is marked as read.
UpdateChat(d, value) ==
    \/ /\ screen[d] = {}
       /\ chats' = [chats EXCEPT ![d] = value]
       /\ UNCHANGED <<outbox, screen>>
    \/ \E s \in screen[d] : \E k \in Kinds(s, value) :
          /\ screen' = [screen EXCEPT ![d] = {[s EXCEPT !.kind = k]}]
          /\ IF k = "listed" THEN MarkAsRead(d, s.user, value)
             ELSE /\ chats' = [chats EXCEPT ![d] = value]
                  /\ UNCHANGED outbox

Report(d) ==
    /\ d \in changed
    /\ UNCHANGED <<tree, unacked, route, bounds, history>>

\* No chat at all is shown at once ...
ObserveEmpty(d) ==
    /\ View(d) = NoChats
    /\ Report(d)
    /\ UpdateChat(d, NoChats)
    /\ Raise(changed \ {d})
    /\ UNCHANGED rounds

\* ... any other value waits for the profiles of the partners.
Observe(d) ==
    /\ View(d) # NoChats
    /\ Len(rounds[d]) < MaxRounds
    /\ Report(d)
    /\ rounds' = [rounds EXCEPT ![d] = Append(@, View(d))]
    /\ changed' = changed \ {d}
    /\ UNCHANGED <<outbox, chats, screen>>

\* Rounds share the fetches of a profile: one can overtake an earlier one only
\* if that waits for a profile of its own.
FinishRound(d) ==
    \E i \in DOMAIN rounds[d] :
        /\ \A j \in 1..(i - 1) :
              ~(Listed(rounds[d][j]) \subseteq Listed(rounds[d][i]))
        /\ UpdateChat(d, rounds[d][i])
        /\ rounds' = [rounds EXCEPT ![d] =
              [j \in 1..(Len(@) - 1) |-> IF j < i THEN @[j] ELSE @[j + 1]]]
        /\ UNCHANGED <<tree, unacked, route, bounds, history>>
        /\ Raise(changed)

------------------------------------------------------------------------------
(* The chat screen *)

\* Mutant: one can write to oneself.
ShowAnyone(d, u, k) ==
    /\ screen[d] = {}
    /\ screen' = [screen EXCEPT ![d] = {[user |-> u, kind |-> k]}]
    /\ UNCHANGED <<tree, unacked, rounds, route, bounds, history>>

Show(d, u, k) ==
    /\ screen[d] = {}
    /\ u # Me(d)
    /\ screen' = [screen EXCEPT ![d] = {[user |-> u, kind |-> k]}]
    /\ UNCHANGED <<tree, unacked, rounds, route, bounds, history>>

\* A chat picked from the list, or found in it.  It is marked as read when it
\* has appeared; a new list in between would mark it just the same, and when it
\* appears again nothing is left to mark.
OpenChat(d, u) ==
    /\ u \in Listed(chats[d])
    /\ Show(d, u, "listed")
    /\ MarkAsRead(d, u, chats[d])
    /\ Raise(changed)

\* A chat with a teammate of whom the list has no chat.
CreateChat(d, u) ==
    /\ u \notin Listed(chats[d]) \/ u \in Edited
    /\ Show(d, u, "new")
    /\ UNCHANGED <<outbox, chats, changed>>

Close(d) ==
    /\ screen[d] # {}
    /\ screen' = [screen EXCEPT ![d] = {}]
    /\ UNCHANGED <<tree, outbox, unacked, chats, changed, rounds, route,
                   bounds, history>>

\* Mutant: the partner's copy is written first.
SendWritesPartnerFirst(me, u, m) ==
    << Put(<<u, me>>, {m}, "unread"), Put(<<me, u>>, {m}, "unread") >>

\* Mutant: only the sender's copy is written.
SendWritesOwn(me, u, m) == << Put(<<me, u>>, {m}, "unread") >>

SendWrites(me, u, m) ==
    << Put(<<me, u>>, {m}, "unread"), Put(<<u, me>>, {m}, "unread") >>

\* The send button does nothing once the chat of the screen is gone.
SendDirectMessage(d, m) ==
    \E s \in screen[d] :
        /\ s.kind # "gone"
        /\ ~Sent(m)
        /\ route' = [route EXCEPT ![m] = <<Me(d), s.user>>]
        /\ Call(d, SendWrites(Me(d), s.user, m))
        /\ UNCHANGED <<tree, unacked, chats, rounds, screen, bounds,
                       history>>
        /\ Raise(changed)

------------------------------------------------------------------------------
(* Deleting *)

Start == ops < MaxOps /\ ops' = ops + 1

Remove(d, copies) ==
    /\ Start
    /\ Call(d, [i \in DOMAIN copies |-> Clear(copies[i])])
    /\ cleared' = cleared \cup {copies[i] : i \in DOMAIN copies}
    /\ UNCHANGED <<tree, unacked, chats, rounds, screen, route,
                   crashes, drops, arrived, resent, lost>>
    /\ Raise(changed)

DeleteDirectChat(d, u) ==
    u \in Listed(chats[d]) /\ Remove(d, << <<Me(d), u>> >>)

\* removeTeammate drops both copies of the chat (its other writes, and which
\* users it can be called for, are in TeammateGraph).
RemoveTeammate(d, u) ==
    u # Me(d) /\ Remove(d, << <<Me(d), u>>, <<u, Me(d)>> >>)

------------------------------------------------------------------------------
(* The connection and the process *)

Apply(w) ==
    /\ tree' = Applied(w, tree)
    /\ arrived' = IF w.as = "none" THEN arrived
                  ELSE arrived \cup {<<w.chat, m>> : m \in w.msgs}

\* Mutant: an acknowledged write is queued once more.
DeliverRequeued(d) ==
    /\ unacked[d] = 0
    /\ outbox[d] # <<>>
    /\ Apply(Head(outbox[d]))
    /\ outbox' = [outbox EXCEPT ![d] = Append(Tail(@), Head(@))]
    /\ UNCHANGED <<unacked, chats, rounds, screen, route, bounds,
                   cleared, resent, lost>>
    /\ Raise(changed)

Deliver(d) ==
    /\ unacked[d] = 0
    /\ outbox[d] # <<>>
    /\ Apply(Head(outbox[d]))
    /\ outbox' = [outbox EXCEPT ![d] = Tail(@)]
    /\ UNCHANGED <<unacked, chats, rounds, screen, route, bounds,
                   cleared, resent, lost>>
    /\ Raise(changed)

\* The connection breaks after the server applied the write.
DeliverUnacked(d) ==
    /\ unacked[d] < Len(outbox[d])
    /\ \/ unacked[d] > 0 /\ UNCHANGED drops
       \/ unacked[d] = 0 /\ drops < MaxDrops /\ drops' = drops + 1
    /\ Apply(outbox[d][unacked[d] + 1])
    /\ unacked' = [unacked EXCEPT ![d] = @ + 1]
    /\ UNCHANGED <<outbox, chats, rounds, screen, route, ops, crashes,
                   cleared, resent, lost>>
    /\ Raise(changed)

QueuedMessages(d) == UNION {outbox[d][i].msgs : i \in DOMAIN outbox[d]}

Reconnect(d) ==
    /\ unacked[d] > 0
    /\ unacked' = [unacked EXCEPT ![d] = 0]
    /\ resent' = resent \cup
          UNION {outbox[d][i].msgs : i \in {j \in DOMAIN outbox[d] : j <= unacked[d]}}
    /\ UNCHANGED <<tree, outbox, chats, changed, rounds, screen, route, bounds,
                   arrived, cleared, lost>>

\* The app is killed: it keeps nothing but the sign-in, and comes back.
Crash(d) ==
    /\ crashes < MaxCrashes
    /\ crashes' = crashes + 1
    /\ lost' = lost \cup QueuedMessages(d)
    /\ outbox' = [outbox EXCEPT ![d] = <<>>]
    /\ unacked' = [unacked EXCEPT ![d] = 0]
    /\ chats' = [chats EXCEPT ![d] = NoChats]
    /\ changed' = changed \cup {d}
    /\ rounds' = [rounds EXCEPT ![d] = <<>>]
    /\ screen' = [screen EXCEPT ![d] = {}]
    /\ UNCHANGED <<tree, route, ops, drops, arrived, cleared, resent>>

Next ==
    \E d \in Device :
        \/ ObserveEmpty(d)
        \/ Observe(d)
        \/ FinishRound(d)
        \/ \E u \in User :
              \/ OpenChat(d, u)
              \/ CreateChat(d, u)
              \/ DeleteDirectChat(d, u)
              \/ RemoveTeammate(d, u)
        \/ Close(d)
        \/ \E m \in Msg : SendDirectMessage(d, m)
        \/ Deliver(d)
        \/ DeliverUnacked(d)
        \/ Reconnect(d)
        \/ Crash(d)

Spec == Init /\ [][Next]_vars

\* The connection is retried until it works, and the callbacks of the database
\* arrive.  Users owe nothing.
FairSpec ==
    Spec /\ \A d \in Device :
        /\ WF_vars(Deliver(d)) /\ WF_vars(Reconnect(d))
        /\ WF_vars(ObserveEmpty(d) \/ Observe(d)) /\ WF_vars(FinishRound(d))
------------------------------------------------------------------------------
(* Properties *)

\* What the addressee has, the sender has too, unless the sender's copy was
\* removed: the own copy is written first, so a kill between the two writes of
\* sendDirectMessage never leaves a message its sender does not know of.
SenderKeepsCopy ==
    \A c \in Chat : \A m \in Msg :
        tree[c][m] # "none" /\ From(m) = c[2] =>
            tree[<<c[2], c[1]>>][m] # "none" \/ <<c[2], c[1]>> \in cleared

\* Why it holds: every message on its way into a copy is in the sender's copy,
\* which lost it only to a removal, or follows the write of that copy in the
\* same queue.
Back(c) == <<c[2], c[1]>>
Kept(m) == tree[route[m]][m] # "none" \/ route[m] \in cleared
Backed(c, m) ==
    /\ Sent(m)
    /\ \/ c = route[m]
       \/ c = Back(route[m]) /\ Kept(m)
Writes(w, c, m) == w.as # "none" /\ Touches(w, c, m)

TreeBacked ==
    \A c \in Chat : \A m \in Msg : tree[c][m] # "none" => Backed(c, m)

ValueBacked(d, value) ==
    \A u \in User : \A m \in Msg :
        value[u][m] # "none" => Backed(<<Me(d), u>>, m)

ListsBacked ==
    \A d \in Device :
        /\ ValueBacked(d, chats[d])
        /\ \A i \in DOMAIN rounds[d] : ValueBacked(d, rounds[d][i])

\* The write of the addressee's copy comes after that of the sender's.
Follows(q, i, m) ==
    /\ Sent(m)
    /\ q[i].chat = Back(route[m])
    /\ \E j \in DOMAIN q : j < i /\ Writes(q[j], route[m], m)

WriteBacked(d, q, i) ==
    IF q[i].as = "none" THEN q[i].chat \in cleared
    ELSE \A m \in q[i].msgs :
            \/ Backed(q[i].chat, m)
            \/ q[i].chat[1] # Me(d) /\ Follows(q, i, m)

QueuesBacked ==
    \A d \in Device : \A i \in DOMAIN outbox[d] : WriteBacked(d, outbox[d], i)

\* What the server has applied of a queue has done its part.
AppliedKept ==
    \A d \in Device :
      /\ unacked[d] <= Len(outbox[d])
      /\ \A j \in DOMAIN outbox[d] : \A m \in Msg :
            j <= unacked[d] /\ Sent(m) /\ Writes(outbox[d][j], route[m], m)
                => Kept(m)

CopyInv == TreeBacked /\ ListsBacked /\ QueuesBacked /\ AppliedKept

\* A message that was read becomes new again only if its sender sends it again
\* because the first time was not acknowledged.
ReadStays ==
    [][\A c \in Chat : \A m \in Msg :
          tree[c][m] = "read" /\ tree'[c][m] = "unread" => m \in resent]_vars

\* Marking writes back what is in memory, so it can bring back messages of a
\* chat that was deleted on another device or removed by the other user; but a
\* message that comes back comes back as read.
ReturnsRead ==
    [][\A c \in Chat : \A m \in Msg :
          /\ <<c, m>> \in arrived
          /\ tree[c][m] = "none"
          /\ tree'[c][m] = "unread"
          => m \in resent]_vars

\* A message is in transit or was handed over, unless the app was killed.
\* (sendDirectMessage has no retry of its own: it relies on the queue.)
MessageArrives ==
    \A m \in Msg : \A c \in Chat :
        route[m] = c ~> <<<<c[2], c[1]>>, m>> \in arrived \/ m \in lost

\* With one chat screen open on a listed chat for ever, every message in it
\* is marked as read on the server in the end.
OpenChatIsRead ==
    \A d \in Device : \A u \in User \ {Me(d)} :
        (<>[](screen[d] = {[user |-> u, kind |-> "listed"]})
         => <>[](\A m \in Msg :
                    ~(tree[<<Me(d), u>>][m] = "unread" /\ From(m) = u)))

\* A chat screen that is open can send ("Send a message to chat with one of
\* your teammates.", MessagesViewController).
OpenChatCanSend ==
    \A d \in Device : \A s \in screen[d] : s.kind # "gone"
==============================================================================
