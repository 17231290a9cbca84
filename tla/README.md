# Team Up: a TLA+ model of the app's shared state

Team Up is an iOS app (Swift) in which players look for teammates, ask each
other, become teammates and write to each other. Its data lives in a Firebase
Realtime Database; there is no server code, so every rule the system keeps is
kept by the apps themselves, by separate reads and writes. This directory holds
a model of that protocol, the instances TLC checks, and theorems checked by
TLAPS.

Paths below are relative to `src/Team Up/Team Up/`; `MC` stands for
`Controllers/Model Controllers`.

## The system

| Component | State it keeps | Operations | Hard behaviour | What makes it correct |
|---|---|---|---|---|
| Database client (pod `FirebaseDatabase`) | queue of unacknowledged writes, in memory; server data per listened path | set, remove, observe, read once | a kill loses the queue; a lost acknowledgement sends writes twice; a device sees its own writes before the server does | writes of one device arrive in call order |
| `MC/RequestController` | `teammateRequests`; the entries `teammateRequests/<to>/<from>` | request, accept, decline, observe | an accept is four writes; the check before a request is a separate read; list rounds overtake | consent, no lost request, both sides agree |
| `MC/TeammateController` | `teammates`; the entries `teammates/<owner>/<peer>` | remove, observe, sort | a removal is four writes; prompts outlive their list | removal reaches both, sides agree |
| `MC/MessageController`, chat screens | `directChats`; two copies of each chat | send, mark read, delete, observe | marks write back whole cached messages; an open chat is looked up in a list that may lack it; a round that never ends | each sent message has two copies, read stays read, deleted stays deleted |
| `MC/LFGController`, `PlayersViewController` | the players shown, who was asked | search with filters, ask | the filter uses the teammates known at that instant and an equality over mutable fields | no offer of oneself |
| `MC/UserController`, registration screens | auth account, display name, profile, LFG entries, FCM token | register, claim a name, edit, sign out | check-then-act on the name; three steps on two services; callbacks after a sign-out | one account per name, no name without profile |
| `MC/GameController` | games, `currentlyPlayedGame`, online entries | search, add, go online and offline | entries under generated ids: two updates make two entries; observer may show the answer of an older fetch | one entry per player and game |
| `MC/AdController`, `PromptUserViewController` | `requestsCount`, a countdown, the ad in memory | count, show an ad, cancel | cancel races the last tick of the timer; an ad can be presented once | no ad after a cancel, the gate opens again |
| Session (`UserController`, `SceneDelegate`, `TabBarController`) | observers, controllers' caches, signed-in user | sign in, sign out | rounds in flight across a sign-out; a controller that is not cleared | a user is shown their own data only |
| Pictures, notifications, views, subscriptions | image caches | download, ask for permission, display | none another part decides on | - |

The controllers are singletons on the main thread. A view calls an operation;
the operation queues writes and returns; every write to a watched path comes
back as an event (first from the device's own queue, later from the server);
an event makes a controller fetch profiles and then post a notification; views
reload from the controller's list and let the user act on it. So the actors
that interleave are the users, the devices' callbacks, the devices' queues and
the server; two devices may be signed in as one user.

`PROJECT.json` lists every component with its status, and the hazards with the
line at which each bites.

## Plan

Everything below is modelled, in this order; the theorems left are at the end.

1. **Backend, TeammateGraph**: requests, acceptance, removal, and the lists the
   screens act on. It is first because it is what the app is for and because
   two users' data is changed by each other's devices.
2. **Messaging**: single messages, read marks, deletion, the open chat. It meets
   TeammateGraph in the removal that drops both copies.
3. **Registration**: a username is a check on one service and a claim on another.
4. **Listing** and **Presence**: the entries under generated keys that other
   players search, and the profile they have to agree with.
5. **Session** and its abstract specification **Mirror**: what sign-outs leave
   running under the lists, and what a list promises all the same.
6. **AdGate**: a timer that races a dismissal, and an ad that can be used once.

Proved of it: every invariant and every action property that a run checks (see
"What is proved"). Left: an abstract *atomic friendship* (ask, accept, remove in
one step), which TeammateGraph would implement on undisturbed pairs.

## The modules

`Backend` is the Firebase client as the app uses it: a write sets or removes
one entry, a device's queue holds its unacknowledged writes in call order, and
`Seen` is the client's view, the server's data under the queued writes. It was
read off the vendored SDK (`FPersistentConnection.m`, `FSyncTree.m`).

`TeammateGraph` models the entries of `teammates`, `teammateRequests` and
`directChats` (a whole chat as one entry) and, on each device, the controllers'
lists and the screens:

| Model | Code |
|---|---|
| `tree`, `outbox`, `unacked` | the database; the SDK's `outstandingPuts`; those of them the server already applied on a broken connection |
| `players` | `PlayersViewController.users` not yet asked |
| `reads`, `RequestPlayerToTeamUp`, `FindAlreadyRequested`, `SendRequest` | `RequestController.requestPlayerToTeamUp`: the read, and the two outcomes of its callback |
| `shown`, `synced`, `rounds`, `Observe`, `ObserveEmpty`, `FinishRound` | `fetchTeammateRequests`, `fetchTeammates`: the list held, the last value reported, the values whose profiles are being fetched |
| `captured`, `Open`, `Close` | the request, the teammate or the chat a prompt, an alert or a screen was opened for |
| `AcceptTeammateRequest`, `DeclineTeammateRequest`, `RemoveTeammate`, `SendDirectMessage` | the functions of those names, all their writes |
| `Deliver`, `DeliverUnacked`, `Reconnect`, `Crash` | one write reaches the server; it does, but the connection breaks before the acknowledgement; everything not acknowledged is sent again; iOS kills the app |
| `Edited`, `Recognised`, `DropRequest` | `User.==` compares name, biography and region: a user who edited one of the two latter is not recognised in an older copy |

`asked`, `formed` and `disturbed` are history: no action reads them.
`asked` are the requests sent, `formed` the pairs the server has held on both
sides, `disturbed` the pairs with a batch of writes torn by a kill, or with an
accept and a removal queued at once on two devices.

Simplifications of `TeammateGraph`, each one chosen to keep every behaviour or
to add some:

- The tap on *request* and the instant that fixes the value read are one step
  (its callback is another); at most one read per target is in flight.
- One prompt, alert or chat is open at a time on a device. A chat stays open
  when the list of chats loses it; `Close` covers the dropping.
- Rounds finish in any order and identical rounds merge. The SDK shares a fetch
  of one profile among rounds, so the code overtakes a little less often.
- `FetchPlayers` lists every user who is neither oneself nor recognised as a
  teammate; the code lists those of them who look for the chosen game.
- Profiles are complete, so no round gets stuck, and no security rule rejects
  a write.
- A kill disturbs every pair with a `teammates` write queued, also when the
  whole batch is lost or only the tail that does not matter.

`Messaging` models the chats message by message. A copy of a chat gives each
message a state (`none`, `unread`, `read`); there are two copies,
`users/<owner>/messaging/directChats/<peer>` for either order of the pair:

| Model | Code |
|---|---|
| `tree`, `outbox`, `unacked`, `Seen` | as in `Backend`, with writes that merge into a chat: the writes of one operation on one copy are one `Write` |
| `route` | the sender and the addressee of a message with a generated id, fixed by `sendDirectMessage` |
| `changed`, `Observe`, `ObserveEmpty` | the observer of `fetchChats`: a change that is to be reported; the report of a value, which starts a round of profile fetches; the report of no value, which empties the list at once |
| `rounds`, `FinishRound` | the `DispatchGroup` rounds and their `notify` |
| `chats` | `MessageController.chats`; marking changes these very objects |
| `screen` | the open `ChatViewController`: `new` (a chat created for a teammate), `listed` (a chat of the list), `gone` (its `chat` became nil) |
| `UpdateChat`, `Kinds` | "messagesUpdated", `updateChat` and `fetchDirectChat` |
| `OpenChat`, `CreateChat`, `Close` | the pushes of `MessagesViewController` with `viewDidAppear`, back |
| `MarkAsRead`, `SendDirectMessage`, `DeleteDirectChat`, `RemoveTeammate` | the functions of those names |

`arrived`, `cleared`, `resent` and `lost` are history. Simplifications:

- At most one chat screen per device; its push and its first `viewDidAppear`
  are one step, since a list that arrives in between marks the same messages.
- Who may be a chat partner or be removed is left to `TeammateGraph`; here it is
  anybody else. Only the chat part of a removal is modelled.
- A change is reported once; if another change comes before the report, the
  value in between may be skipped.
- A round may overtake an older one only if that waits for a profile the newer
  one does not need, as the SDK shares the fetches of a profile.
- Profiles are complete; the order of chats and the badge are left out.

`Registration` starts where `createNewUser` has made the account:

| Model | Code |
|---|---|
| `tree` | who wrote each part of `users/<name>`: `profile` (by `setupProfile`), `details` (token, biography), `games` |
| `account`, `displayName` | the name at the service of the accounts, and the one the device has stored, which every later write looks up (`WriteOwn`) |
| `tries`, `HandleContinue`, `NameTaken`, `NameFree` | calls of `setupProfile` under way, and the answer to the check of the name |
| `SendName`, `sent`, `SetAccountInfo`, `StoreName` | `commitChanges` on its way (`FIRUser.m`, 479 and 1584): one call at a time begins, reads the account and sends the name; the service sets it, whether or not anybody still waits; the answer is stored |
| `NameSet`, `NameNotSet` | the callback: the profile is queued; or an error, also one after which the name is set all the same |
| `stack`, `FinishBio`, `FinishGames`, `GoBack` | the navigation of the screens; the tab bar hides the way back |
| `CheckIfProfileIsSetup`, `tokenDue`, `TokenFetched` | the start of the app; `fetchFCMToken` |

`raced` (a name checked while another account was after it) and `lost` (a name
that was set, and whose profile died in a queue or was never written because the
answer did not come) are history. An account registers on one device and stays
signed in; the keychain takes what is written to it.

`Listing` has, for one user, the profile (region and games) and the entries
`lfg/<game>`, found by a query and made under generated keys:

| Model | Code |
|---|---|
| `tree` | what the database has at each `Place`: the region and the games of the profile, and the entries, by game and key |
| `Games`, `Playable` | games, each with a platform (`playerPlatform`) or without one; only the former are listed (`updateUserLFG`, line 213) |
| `outbox`, `Seen` | the device's writes not applied yet, each of one place, and the client's view: the last of them at a place, or else the server's data (`After`) |
| `UpdateUserGames`, `EditRegion` | the function, with games picked from the catalogue or the user's own, whose platforms a cancelled swipe back may have taken; `editRegion`, `editMicStatus` and `updateBio` |
| `PickAgain` | the screen of games gives a game a platform or takes it, while an update that holds the same `Game` object waits |
| `asking`, `GamesFetched` | calls of `editUserLFGInfo` that wait for the games, and the answer |
| `reading`, `UserFetched` | calls of `updateUserLFG` that wait for the profile, and the answer, which asks for the entries of every game in the catalogue |
| `queries`, `QueryAnswered` | for each game, the calls that wait for its entries, and the answer: the writes of all that wait |
| `catalogue`, `FetchAllGames` | `GameController.games` |

Reads of one place that wait together are answered together. An update makes at
most one entry of a game, so the number of its edit stands for the key that
`childByAutoId` generates. `region` stands for every field that an entry copies.
An edit on one device that meets one on another (`crossed`), an update that misses
the entry another is about to make (`missed`) and an update that was lost or had
its platforms changed while it waited (`behind`) are history, the exceptions of the
properties. Which platform a game has is not told apart, only whether it has one.

`Presence` has `currentlyPlaying` (`playing`) and the entries under
`lfg/online`; `GoOnlineForGame` and `ProfileFetched` are the two halves of
`goOnlineForGame` (`ProfileOfNoUse` is the second one when there is no profile
or no platform, and nothing is written), `GoOfflineForGame` and `EntryFound` those of
`goOfflineForGame`. `late` are the names that wait for the list of games while
`fetchCurrentlyPlayedGame` shows an empty value at once. `disturbed` and
`overtaken` are history.

`Session` has one device on which users sign in one after the other, and one of
the three observed lists (`list`: chats, teammates, the current game); the lists
do not interact. `rounds` are the fetches of profiles in the order they began,
`Observe` and `FinishRound` their beginning and end, `Stuck` the round that a
chat partner without a profile keeps from ending. `SignOut` and `SignOutFails`
are `signOutUser` with its four steps; `token`, `asked`, `FCMTokenFetched`,
`FCMTokenNotFetched` and `RemoveFCMToken` the notification token, which may also
fail to come. `stale` and `stray` are history.

`Mirror` is the abstract specification of a list: it shows nothing, or a value
that the database held for somebody signed in since the start of the app.
`Session` implements it, with `held` mapped through `Readable` (`fetchTeammates`
leaves out profiles it cannot read). The current game is mapped to *nothing*: the
code does not clear it at a sign-out, so it promises less.

`AdGate` has the players screen with its prompt (`prompt`, `actionPrompt`), the
timer (`Tick`) that runs on while a dismissed prompt moves away (`leaving`,
`late`), `requestsCount` and the ad in memory, which can be presented once
(`spent`). `rooted` says that `SceneDelegate.tabBarController` is set. The
system's answer to the permission dialogue is taken at once.

Each of the modules writes down its own queue of writes, since what a write is
differs; `Deliver` and `Crash` mean the same everywhere.

## What the runs show

| Run | Instance | Shows |
|---|---|---|
| `GraphPhones` | two users with a phone each, a request that waits, 2 operations, a kill or a connection lost before an acknowledgement, fair delivery | agreement of the two sides, no chat before its friendship, no lost request; an accepted request makes teammates, also when writes are sent twice |
| `GraphTablet` | one user on two devices, a waiting request of a user with an edited profile, 2 operations, no fault | types; consent; agreement and no lost request with stale lists and prompts |
| `GraphRemoval` | two teammates, 1 removal, 1 kill, fair delivery | a counterexample, below |
| `ChatTablet` | the addressee on two devices, 1 message, 1 deletion or removal, 1 kill | types; the sender keeps a copy, what was read stays read, what was deleted does not come back as new, when marks and deletions come from two devices |
| `ChatLive` | two users, 1 message, 1 deletion or removal, one connection lost, fair delivery and callbacks | the same three; a message arrives; an open chat is read in the end |
| `ChatGone` | two users, 2 messages, no fault | a counterexample, below |
| `Register` | two accounts, two names, 2 taps, 1 kill, requests and answers lost, fair delivery and callbacks | a name is shared only after a race or a lost profile; a profile is whole or on its way, and not overwritten; a name on the device leads to a profile, unless that was lost |
| `Playing` | two devices, two games, 3 confirmations, 2 kills | profile and entries agree; a device shows what the profile says |
| `Listing` | two devices, two games, two regions, 2 edits, 1 kill | entries agree with the profile, also when games are exchanged or lose their platforms; one entry per player and game |
| `SignIns` | two users one after the other, one with an unreadable partner, each of the three lists, 1 change, 1 failed sign-out, 1 kill, fair answers | `Session` implements `Mirror`; the list of who stays appears; the token is with the viewer alone |
| `AdGate` | 3 free requests, 5 in all, a countdown of 3 | the screen knows its prompt, a refusal holds, a used ad blocks only after an early close or a failed load |
| `AdLocked` | the same | a counterexample, below |

Bounds of the graph runs. `MaxOps` counts what users start; two, with a request
waiting at the start, are every pair of opposite operations (accept and decline
on two devices, accept and remove, two crossed requests). `MaxFaults` is
one kill or one lost connection, since a batch can only be torn once and a second
fault falls on a state of the same kind; `GraphTablet` leaves the faults to
`GraphPhones` and has the stale lists of two devices instead. The theorems hold
for any number of faults. `MaxRounds` is 1: within two operations on one pair
a list gets its one entry at most once, so a second round never starts while one
is in flight (2 gives `GraphTablet` the same states), and it is the empty value,
which needs no round, that overtakes. Two users are enough for the pair properties, as every
write is about one pair; the theorems hold for any number of users and devices.
In `GraphTablet` the two devices are interchangeable (`SYMMETRY`; no liveness is
checked there). Deadlock is not checked in any run: once the bounds are used up,
the system stops.

Bounds of the chat runs. A property is about one message in two copies, and a
second message (`ChatGone`) is only needed where a list must be there already.
One deletion is enough to bring a copy back, as the stale mark that does it is
not counted. Rounds differ in the profiles they need only when there are three
users; with two, only the empty value overtakes a round, so `MaxRounds = 1` loses
nothing but a queue of rounds. The theorems hold for any number of users and
rounds. That `OpenChatIsRead` survives a round overtaken by another is not
claimed; `ListAppears` names that exception.

Bounds of the other runs. `Register`: two taps are one name tried by both accounts,
two tries of one account beside each other, or a try and a way back; the safety
theorems hold for any number of them, and of accounts and names. `Playing`: three
confirmations are on, off and on again, or the two devices against each other
with one more; one kill tears the two writes of going online, the other those of
going offline. `Listing`: two edits are two updates that overlap at any stage, on
one device or two, or one that makes up for what a kill or a missing catalogue
lost; two games are exchanged for each other, kept side by side or given another
platform; the devices and the games are interchangeable (`SYMMETRY`). The theorems
hold for any number of edits. `SignIns`:
`MaxSignIns = 2` is what a round left by one user and ended under the other needs.
`AdGate`: two requests above the gate's 3 are those that are made while no ad is
in memory.

Fairness. Every `FairSpec` asks for weak fairness of `Deliver` (and `Reconnect`):
the SDK reconnects until it succeeds and then sends the queue in order. It asks
nothing of users, of kills, of refused sign-outs or of edits.
`Messaging` and `Session` add the observers and `FinishRound`, as the SDK reports
every change and answers every profile read; a `FinishRound` that waits for an
unreadable partner is not enabled, so no fairness can help it. `Session` adds the
token, where an error is an answer. `Registration` adds the callback of
`commitChanges` once its answer is stored (`NameSet`), which the main thread runs; of
the service of the accounts it asks nothing, as a request and an answer may be lost.
`OpenChatIsRead` assumes a chat screen that stays open; its user need not do
anything, as each new list marks. `ListAppears` assumes a user who stays signed
in.

Exceptions. `ChatsOfFormedPairs` is checked with one device per user, and is
false otherwise: the second device may show a friendship the first has accepted,
and the message it then writes is in another queue. `SettledMutual` is the
strongest statement about the two sides that the code allows; its exceptions are
the hazards of `RequestController.swift:88` and `TeammateController.swift:45`.
`SenderKeepsCopy` rests on the order of two lines (`MessageController`, 89 and
90) and on one queue per device. `ReadStays` and `ReturnsRead` carry the
exception of a message written again after a lost acknowledgement: then
`read = false` is written over what its addressee did in between. `MessageArrives`
needs the queue to survive: nothing sends a message again after a kill, and the
sender's own list shows it as sent. `SharedOnlyByRace`, `PresenceAgrees`,
`ListingAgrees` and `ListedOnce` name in history variables the very races that
the code does not exclude (`UserController`, 101 and 226; `GameController`, 154),
and say that there is no other way. A name without a profile is one of them
(`lost`): `commitChanges` has set the name, and the answer is lost or the app killed
before the profile is written. Where the device has stored the name,
`checkIfProfileIsSetup` takes it for a profile, and no screen writes one any more.
`ListingAgrees` also excepts an update whose
platforms were changed on the screen while it waited (`UserController`, 213), and
`TokenFollowsViewer` a user who had no token when it could not be fetched
(`UserController`, 418); the next update, sign-in or start makes up for either.
`NoAdAfterRefusal` holds with two seconds or
more to go: in the last second the timer, which is not stopped, makes the
dismissal look like the end of the countdown.

Divergences. The prompt of `TeammatesViewController` (line 220) says "This will
also remove you from their teammates list." `removeTeammate` queues one removal
for each side, and a kill between the two leaves the other side for ever
(`GraphRemoval`, `RemovalReachesBoth`).

The empty list of chats says "Send a message to chat with one of your
teammates." (`MessagesViewController`, line 36). A chat opened for that is not in
the controller's list, so the next "messagesUpdated" makes `updateChat` replace
it by nil (`ChatViewController`, line 114): the screen stays, and its send button
does nothing (`ChatGone`, `OpenChatCanSend`).

The prompt of the players screen says "View this ad to be able to send more
teammate requests." (`PlayersViewController`, line 192). After a fresh sign-in or
registration `SceneDelegate.tabBarController` is nil and no ad is ever presented
(`AdController`, line 40); after an ad closed early the used one stays in memory.
Either way no further request can be sent until the app is started again
(`AdLocked`, `AdCanBeViewed`).

## What is proved

Every theorem is about `Spec` with any sets of users, devices and messages, any
bounds and (in the graph) any requests accepted or waiting at the start, under
the assumptions on the constants that the modules name. One theorem has a
hypothesis more: `ChatsOnlyOfFormedPairs` assumes one device per user
(`OneDevice`), without which the property is false.

- `TypeCorrect` (`TeammateGraphProofs`): `[]TypeOK`. Types alone are not
  inductive: an entry from a user to themself is no `Entry`, and only
  `OnlyOthers` (no device offers, checks, shows or captures its own user) keeps
  `teammates/a/a` out of a queue. It starts at the filter of the player list.
- `Consent` (`TeammateGraphProofs`): `[]ConsentedEntries`. The strengthening
  `ConsentInv` follows an entry back along its path: what is on the server
  (`ConsentedEntries`), what is queued (`WritesBacked`), what is shown or being
  fetched (`ListsBacked`) and what a prompt holds (`CapturesBacked`).
- `Mutual` (`TeammateGraphMutual`): `[]SettledMutual`. For each pair not
  disturbed, `PairInv` says that the queued writes of different devices about
  the pair ask for the same (`SameOps`), and that each device with such writes
  already sees both edges alike (`WillAgree`). Delivering a write then changes
  nothing for its own device (`SeenDelivered`), nothing for another one with
  writes of the pair (`OthersSee`: it sees its own writes, which ask for the
  same), and when the last queue is empty, what is seen is what the server has.
  A write applied without acknowledgement and sent again fits the same argument
  (`SeenKept`).
- `RequestsNotLost` (`TeammateGraphMutual`): the action property
  `RequestNotLost`. A request leaves the server by a removal that some queue
  holds. `QueueInv` says of such a removal that it is a refusal, or that its pair
  was formed or has the second edge of the acceptance still ahead of it in the same
  queue (`RequestRemovals`, `Forming`); and of that edge that the first one stands
  right before it, or is what the server applied last and still has
  (`EdgesTogether`; `PairInv` tells that no other queue takes it away on a pair that
  is not disturbed). So when the second edge arrives the pair is formed, and when it
  is the removal's turn, that has happened.
- `ChatsOnlyOfFormedPairs` (`TeammateGraphMutual`): `[]ChatsOfFormedPairs` with one
  device per user. `ChatInv` follows a friendship from the acceptance on: whoever
  shows it, or fetches it, has a pair that is formed or whose edges are in the own
  queue (`ListsForming`), and a chat is queued behind them (`ChatWrites`). With a
  second device the edges may be in the queue of the other, and `ListsForming` is
  the conjunct that fails.
- `TypeCorrect` (`MessagingProofs`): `[]TypeOK` for `Messaging`. `OthersOnly` is
  its inductive core: lists, rounds and screens never name the own user, so
  every queued write is about a `Chat`.
- `SenderCopy` (`MessagingProofs`): `[]SenderKeepsCopy`. `CopyInv` says of every
  message anywhere that its sender's copy is there, or was removed, or is
  written earlier in the same queue (`Follows`): on the server (`TreeBacked`), in
  lists and rounds (`ListsBacked`, since a mark writes them back), in queues
  (`QueuesBacked`), and of the applied part of a queue (`AppliedKept`, without
  which a repeated queue could not be handled). `Steady` is what every step
  leaves alone, and `WriteStays` moves a queued write through deliveries and
  calls.
- `ReadIsFinal` and `ComesBackRead` (`MessagingProofs`): the action properties
  `ReadStays` and `ReturnsRead`. Both ask what a delivered write can do to a
  message that arrived. `OnceInv` says that a message is written as new by its
  sender's device alone (`QueuesKnown`) and by one queued write for each copy
  (`BroughtOnce`), and that behind the applied part of a queue such a write is of
  a message that has not arrived, unless it is sent again (`NotYet`). Marks are of
  messages that arrived, since they come from lists, and lists from the server or
  the own queue (`ListsKnown`). So a copy that was there becomes new by a repeated
  write only.
- `RegistrationProofs`: `TypeCorrect` needs `Rooted` (the first screen is one
  without a way back). `NamesNotShared`, `ProfilesWhole` and the action property
  `ProfilesNotTaken` follow from one invariant, `NameInv`, which follows a name from
  the check to the profile: a name at the service is waited for, or its profile is
  on its way (`AccountHeld`); a name on a device has its profile there or on its way
  (`DisplayHeld`), and so has whatever is written under a name (`PartsHeld`); one
  account only claims a name, from the check on (`Exclusive`), and the account that
  has it is the one whose profile it is (`NamesOwned`). A lost answer makes the name
  `lost` at the very step at which the service sets it or the last one who waits for
  it gives up. The check is what makes `NamesOwned` useful: a name that is free on
  the server has no other holder but one whose profile is still on the way, which is
  a race.
- `SessionProofs`: `ListsImplementMirror` is the refinement `Spec => M!Spec`. Its
  invariant `RoundsHeld` says that every round carries a value the database held
  for a user of this start; each step of `Session` is then a step of `Mirror` or a
  stutter (`MirrorStep`). `TokenIsViewers` rests on `TokenInv`: the last write
  queued for a user, or else the database, says whether the user is signed in, or the token is still asked for. A failed fetch
  leaves that as it is if the user gets the token anyway (`Gets`), and is an
  exception otherwise.
- `PresenceProofs`: `ShowsWhatIsPlayed` rests on `ShownInv`: what was reported
  last, shown or still waiting, is what the device sees. `TypeCorrect` needs that
  a nonempty queue has a last write (`LatestIsThere`, by well-foundedness).
  `ProfileAndSearchAgree` (`[]PresenceAgrees`) rests on `AgreeInv`, the books that
  hold until steps of two devices, or a kill, disturb them: each kind
  of operation is under way once at most (`OneRead`, `OneWrite`), a queued write of
  the profile changes it (`PlayChanges`), an entry is written
  before the profile names its game and before it is removed (`AddBeforePlay`,
  `AddBeforeDrop`), a query that is to remove an entry will find one
  (`OfflineFinds`), and a generated key is new (`KeysMade`). Then `Counted` gives
  the number of entries that will be left when all queues are through: one for the
  game that will be played, and one more while a query is to remove it.
- `ListingProofs`: `TypeCorrect`, `EntriesRight` (`[]ListingAgrees`) and
  `OneEntryPerGame` (`[]ListedOnce`). The module states what is under the first
  `n` writes of a queue as a choice of the last of them at a place, not as a fold
  over the queue, so that no induction is needed: `AfterSame`, `AfterEnd` and
  `AfterTail` are what adding writes and applying the first one do. `ListInv`
  says, as long as no edits met and no update missed an entry, that one device at
  most has anything under way (`OneBusy`), and of that device (`Sound`): under
  *every* part of its queue a game has one entry at most (`EntriesOnce`, since a
  kill or a delivery may stop anywhere); the last update that waits at each stage
  knows the games and the region the device sees, unless another follows it or its
  platforms were changed (`ReadingNew`, `QueriesNew`); and with no update before the
  queries, the entries of a game nobody asks for are right (`Through`). `Focus` is why
  it is enough to look at the device that acts: the others see the server's data, which is the
  first of its contents.
- `AdGateProofs`: `TypeCorrect` (no prompt is up while an ad plays),
  `PromptKnown`, `RefusalRespected` (`RefusalInv`: the one tick that a refusal
  leaves cannot reach 0) and `LockOutsExcused` (`SpentInv`: a used ad stays in
  memory only while the next one is asked for, or is excused).

`QueueInv`, `ChatInv`, `OnceInv`, `AgreeInv` and `ListInv` were checked by TLC on
small instances before they were proved.

Only model-checked: the liveness properties `AcceptTakesEffect`, `MessageArrives`,
`OpenChatIsRead`, `NamedIsFindable` and `ListAppears`, which are out of the
prover's reach, as is `ENABLED`; and the three properties of the counterexamples,
which are false.

## What is not modelled

- Views and cells, pictures and the subscription screen: they keep no state that
  another part decides on. Badges display a list.
- `sortTeammates` and the order of chats: the order of a display.
- `searchGames` and the order of answers of a search: filters over names by
  prefix and substring, whose letters the model abstracts from; the next answer
  replaces the last one.
- The filters of a player search (platform, region, the limit of 150): the result
  is any set of users without oneself and the teammates known.
- The validity of e-mail addresses, passwords and names, and errors of a sign-in:
  they change no state. A sign-out in the middle of a registration, and a keychain
  that refuses a write.
- Which platform a game is played on: an entry copies it with the region.
- The server's security rules, which are not in the repository.
- The vendored pods, except what `Backend` and its like say of the database
  client. By number of lines they are nearly all of the repository's C, C++ and
  Objective-C; the app itself is written in Swift, and everything modelled is
  Swift, or the few functions of `FirebaseDatabase` that queue, send and apply
  writes and of `FirebaseAuth` that set a name.
