----------------------------- MODULE Registration -----------------------------
(***************************************************************************)
(* Taking a username (UserController.setupProfile) and the screens of a    *)
(* registration (SetupProfile, AddBio, AddGames, TabBarController).        *)
(*                                                                         *)
(* A username is a key of the database and the name of the account, on two *)
(* services and without a transaction: the app reads whether users/<name>  *)
(* exists, has the name set by the service of the accounts, and writes the *)
(* profile when that has answered, into a queue that dies with the         *)
(* process.  The request or its answer may be lost on the way.  Each       *)
(* account registers on a device of its own.                               *)
(***************************************************************************)
EXTENDS Naturals, Sequences

CONSTANTS
    Account,     \* accounts that have an e-mail address and a password
    Name,        \* valid usernames
    Nobody,      \* the author of a part that is not there
    NoName,      \* the display name of an account that has none
    MaxTaps,     \* bound: taps on Continue and on Back
    MaxCrashes   \* bound: times an app is killed

ASSUME RegistrationNobody == Nobody \notin Account
ASSUME RegistrationNoName == NoName \notin Name
ASSUME RegistrationBounds == MaxTaps \in Nat /\ MaxCrashes \in Nat

VARIABLES
    tree,         \* the server's data: who wrote each part of users/<name>
    outbox,       \* per account, the writes the server has not applied
    account,      \* per account, the name at the service of the accounts ...
    displayName,  \* ... and the one the device has stored
    sent,         \* per account, the names whose request may reach the service
    tries,        \* per account, the calls of setupProfile under way
    stack,        \* per account, the screens of the registration
    tokenDue,     \* the accounts whose messaging token has been asked for
    taps, crashes,
    raced,        \* history: names checked while another try or write had them
    lost          \* history: names that were set and whose profile was lost

names == <<account, displayName, sent>>
vars == <<tree, outbox, names, tries, stack, tokenDue, taps, crashes, raced, lost>>

------------------------------------------------------------------------------

\* What setupProfile writes, what the callbacks and the bio screen add (token,
\* biography), and the games.
Part == {"profile", "details", "games"}
Write == [name : Name, part : Part]
Stage == {"checking", "setting", "sent", "committed", "set"}
Try == [name : Name, stage : Stage]
Screen == {"launch", "setup", "bio", "games", "addGames", "tab"}

QueuedAt(a, n, p) ==
    \E i \in DOMAIN outbox[a] : outbox[a][i] = [name |-> n, part |-> p]

\* The database as the device of a sees it: its own queue on top.
There(a, n, p) == tree[n][p] # Nobody \/ QueuedAt(a, n, p)
Exists(a, n) == \E p \in Part : There(a, n, p)

At(a, n, s) == [name |-> n, stage |-> s] \in tries[a]
Setting(a, n) == \E s \in Stage \ {"checking"} : At(a, n, s)
Top(a) == stack[a][Len(stack[a])]

TypeOK ==
    /\ tree \in [Name -> [Part -> Account \cup {Nobody}]]
    /\ outbox \in [Account -> Seq(Write)]
    /\ account \in [Account -> Name \cup {NoName}]
    /\ displayName \in [Account -> Name \cup {NoName}]
    /\ sent \in [Account -> SUBSET Name]
    /\ tries \in [Account -> SUBSET Try]
    /\ stack \in [Account -> Seq(Screen)]
    /\ \A a \in Account : stack[a] # <<>>
    /\ tokenDue \subseteq Account
    /\ taps \in Nat /\ crashes \in Nat
    /\ raced \subseteq Name
    /\ lost \subseteq Name

\* createNewUser has succeeded and pushed the first screen of the profile.
Init ==
    /\ tree = [n \in Name |-> [p \in Part |-> Nobody]]
    /\ outbox = [a \in Account |-> <<>>]
    /\ account = [a \in Account |-> NoName]
    /\ displayName = [a \in Account |-> NoName]
    /\ sent = [a \in Account |-> {}]
    /\ tries = [a \in Account |-> {}]
    /\ stack = [a \in Account |-> <<"setup">>]
    /\ tokenDue = {}
    /\ taps = 0 /\ crashes = 0
    /\ raced = {} /\ lost = {}

------------------------------------------------------------------------------
(* Taking the name *)

Tap == taps < MaxTaps /\ taps' = taps + 1
Push(a, s) == stack' = [stack EXCEPT ![a] = Append(@, s)]
Queue(a, n, p) ==
    outbox' = [outbox EXCEPT ![a] = Append(@, [name |-> n, part |-> p])]
Drop(a, n, s) ==
    tries' = [tries EXCEPT ![a] = @ \ {[name |-> n, stage |-> s]}]
Move(a, n, s, t) ==
    tries' = [tries EXCEPT ![a] =
        (@ \ {[name |-> n, stage |-> s]}) \cup {[name |-> n, stage |-> t]}]

\* The button is disabled until the answer, but editing a field or choosing a
\* region enables it again: a second try may run beside the first.
HandleContinue(a, n) ==
    /\ Top(a) = "setup"
    /\ Tap
    /\ tries' = [tries EXCEPT ![a] = @ \cup {[name |-> n, stage |-> "checking"]}]
    /\ UNCHANGED <<tree, outbox, names, stack, tokenDue, crashes, raced, lost>>

NameTaken(a, n) ==
    /\ At(a, n, "checking")
    /\ Exists(a, n)
    /\ Drop(a, n, "checking")
    /\ UNCHANGED <<tree, outbox, names, stack, tokenDue, taps, crashes, raced,
                   lost>>

\* Another account is about to take the name, or has it and its profile is
\* still on the way.
Contested(a, n) ==
    \E b \in Account \ {a} : Setting(b, n) \/ QueuedAt(b, n, "profile")

\* Mutant: the answer of the check is ignored.
NameFreeUnchecked(a, n) ==
    /\ At(a, n, "checking")
    /\ Move(a, n, "checking", "setting")
    /\ raced' = IF Contested(a, n) THEN raced \cup {n} ELSE raced
    /\ UNCHANGED <<tree, outbox, names, stack, tokenDue, taps, crashes, lost>>

\* Nothing is there: commitChanges is called, and waits for its turn.
NameFree(a, n) ==
    /\ At(a, n, "checking")
    /\ ~Exists(a, n)
    /\ Move(a, n, "checking", "setting")
    /\ raced' = IF Contested(a, n) THEN raced \cup {n} ELSE raced
    /\ UNCHANGED <<tree, outbox, names, stack, tokenDue, taps, crashes, lost>>

\* One commit runs at a time.  It begins by reading the account, which stores
\* the name found there, and sends the new one.
SendName(a, n) ==
    /\ At(a, n, "setting")
    /\ \A t \in tries[a] : t.stage \notin {"sent", "committed"}
    /\ Move(a, n, "setting", "sent")
    /\ displayName' = [displayName EXCEPT ![a] = account[a]]
    /\ sent' = [sent EXCEPT ![a] = @ \cup {n}]
    /\ UNCHANGED <<tree, outbox, account, stack, tokenDue, taps, crashes, raced,
                   lost>>

\* The service sets the name, even if nobody waits for the answer any more.
SetAccountInfo(a, n) ==
    /\ n \in sent[a]
    /\ account' = [account EXCEPT ![a] = n]
    /\ sent' = [sent EXCEPT ![a] = @ \ {n}]
    /\ \/ /\ At(a, n, "sent")
          /\ Move(a, n, "sent", "committed")
          /\ UNCHANGED lost
       \/ /\ ~At(a, n, "sent")
          /\ lost' = lost \cup {n}
          /\ UNCHANGED tries
    /\ UNCHANGED <<tree, outbox, displayName, stack, tokenDue, taps, crashes,
                   raced>>

\* The answer arrives: the name is stored, and the callback is due on the main
\* thread.
StoreName(a, n) ==
    /\ At(a, n, "committed")
    /\ Move(a, n, "committed", "set")
    /\ displayName' = [displayName EXCEPT ![a] = n]
    /\ UNCHANGED <<tree, outbox, account, sent, stack, tokenDue, taps, crashes,
                   raced, lost>>

\* commitChanges reports an error: nothing was sent, the request or the service
\* failed, or only the answer was lost.
NameNotSet(a, n) ==
    \E s \in {"setting", "sent", "committed"} :
        /\ At(a, n, s)
        /\ Drop(a, n, s)
        /\ lost' = IF s = "committed" THEN lost \cup {n} ELSE lost
        /\ UNCHANGED <<tree, outbox, names, stack, tokenDue, taps, crashes, raced>>

\* Mutant: the profile is not written.
NameSetOnly(a, n) ==
    /\ At(a, n, "set")
    /\ Drop(a, n, "set")
    /\ tokenDue' = tokenDue \cup {a}
    /\ Push(a, "bio")
    /\ UNCHANGED <<tree, outbox, names, taps, crashes, raced, lost>>

\* The callback: the profile is written, the token asked for, and the next
\* screen pushed, on whatever screen there is by now.
NameSet(a, n) ==
    /\ At(a, n, "set")
    /\ Drop(a, n, "set")
    /\ Queue(a, n, "profile")
    /\ tokenDue' = tokenDue \cup {a}
    /\ Push(a, "bio")
    /\ UNCHANGED <<tree, names, taps, crashes, raced, lost>>

\* Every later write looks the display name up again.
WriteOwn(a, p) ==
    IF displayName[a] = NoName THEN UNCHANGED outbox
    ELSE Queue(a, displayName[a], p)

\* Mutant: without the check for a display name.
TokenFetchedUnnamed(a) ==
    /\ a \in tokenDue
    /\ tokenDue' = tokenDue \ {a}
    /\ Queue(a, displayName[a], "details")
    /\ UNCHANGED <<tree, names, tries, stack, taps, crashes, raced, lost>>

\* The token arrives: it is written for whoever is signed in by then.  (If it
\* cannot be fetched, nothing is written: it stays due.)
TokenFetched(a) ==
    /\ a \in tokenDue
    /\ tokenDue' = tokenDue \ {a}
    /\ WriteOwn(a, "details")
    /\ UNCHANGED <<tree, names, tries, stack, taps, crashes, raced, lost>>

------------------------------------------------------------------------------
(* The screens that follow *)

\* AddBioViewController.handleContinue: updateBio, then the games.
FinishBio(a) ==
    /\ Top(a) = "bio"
    /\ WriteOwn(a, "details")
    /\ Push(a, "games")
    /\ UNCHANGED <<tree, names, tries, tokenDue, taps, crashes, raced, lost>>

\* AddGamesViewController.finishTapped.  The tab bar that appears looks for the
\* games and finds those just queued.
FinishGames(a) ==
    /\ Top(a) \in {"games", "addGames"}
    /\ WriteOwn(a, "games")
    /\ stack' = [stack EXCEPT ![a] =
          IF Top(a) = "games" THEN Append(@, "tab") ELSE <<"tab">>]
    /\ UNCHANGED <<tree, names, tries, tokenDue, taps, crashes, raced, lost>>

\* The tab bar hides the navigation bar for good.
GoBack(a) ==
    /\ Top(a) \in {"bio", "games"}
    /\ "tab" \notin {stack[a][i] : i \in DOMAIN stack[a]}
    /\ Tap
    /\ stack' = [stack EXCEPT ![a] = SubSeq(@, 1, Len(@) - 1)]
    /\ UNCHANGED <<tree, outbox, names, tries, tokenDue, crashes, raced, lost>>

\* checkIfProfileIsSetup: a display name counts as a profile.
CheckIfProfileIsSetup(a) ==
    /\ Top(a) = "launch"
    /\ stack' = [stack EXCEPT ![a] =
          IF displayName[a] = NoName THEN <<"setup">>
          ELSE IF There(a, displayName[a], "games") THEN <<"tab">>
          ELSE <<"addGames">>]
    /\ UNCHANGED <<tree, outbox, names, tries, tokenDue, taps, crashes, raced,
                   lost>>

------------------------------------------------------------------------------
(* The connection and the process *)

Deliver(a) ==
    /\ outbox[a] # <<>>
    /\ tree' = [tree EXCEPT ![Head(outbox[a]).name][Head(outbox[a]).part] = a]
    /\ outbox' = [outbox EXCEPT ![a] = Tail(@)]
    /\ UNCHANGED <<names, tries, stack, tokenDue, taps, crashes, raced, lost>>

\* The app is killed and started again: the account stays signed in under the
\* name stored, and the token is asked for at launch.  A request that was sent
\* is not called back.
Crash(a) ==
    /\ crashes < MaxCrashes
    /\ crashes' = crashes + 1
    /\ lost' = lost \cup {n \in Name : \/ QueuedAt(a, n, "profile")
                                     \/ At(a, n, "committed") \/ At(a, n, "set")}
    /\ outbox' = [outbox EXCEPT ![a] = <<>>]
    /\ tries' = [tries EXCEPT ![a] = {}]
    /\ stack' = [stack EXCEPT ![a] = <<"launch">>]
    /\ tokenDue' = tokenDue \cup {a}
    /\ UNCHANGED <<tree, names, taps, raced>>

Next ==
    \E a \in Account :
        \/ \E n \in Name :
              \/ HandleContinue(a, n)
              \/ NameTaken(a, n)
              \/ NameFree(a, n)
              \/ SendName(a, n)
              \/ SetAccountInfo(a, n)
              \/ StoreName(a, n)
              \/ NameNotSet(a, n)
              \/ NameSet(a, n)
        \/ TokenFetched(a)
        \/ FinishBio(a)
        \/ FinishGames(a)
        \/ GoBack(a)
        \/ CheckIfProfileIsSetup(a)
        \/ Deliver(a)
        \/ Crash(a)

Spec == Init /\ [][Next]_vars

\* The connection delivers in the end, and the main thread runs the callbacks it
\* is given.  No answer of the service is certain, and nobody has to tap anything.
FairSpec ==
    /\ Spec
    /\ \A a \in Account :
          WF_vars(Deliver(a)) /\ \A n \in Name : WF_vars(NameSet(a, n))

------------------------------------------------------------------------------
(* Properties *)

HasName(a, n) == account[a] = n \/ displayName[a] = n

\* "Username is already in use" (UserController:102) keeps two accounts from
\* sharing a name, at the service or on their devices, unless they tried at the
\* same time or the profile of the first was lost: there is no third way.
SharedOnlyByRace ==
    \A a, b \in Account : \A n \in Name \ (raced \cup lost) :
        HasName(a, n) /\ HasName(b, n) => a = b

\* The profile of a name is there, or this account is about to write it.
Coming(a, n) ==
    At(a, n, "set") \/ QueuedAt(a, n, "profile") \/ tree[n]["profile"] # Nobody

\* There is no half of a profile that stays one: whatever exists under a name
\* has a profile that can be read as a User, or it is on the way.  (fetchChats
\* never ends for a partner without one, MessageController:49.)  The exception
\* is a name whose profile was lost: in a queue, or before it was queued, with
\* the answer of commitChanges.
NoHalfProfiles ==
    \A n \in Name \ lost :
        (\E p \in Part : tree[n][p] # Nobody) => \E a \in Account : Coming(a, n)

\* A profile on the server is not overwritten by another account, unless both
\* tried at the same time.
ProfileKept ==
    [][\A n \in Name \ raced :
          tree[n]["profile"] # Nobody =>
              tree'[n]["profile"] = tree[n]["profile"]]_vars

\* An account that has a name becomes findable, unless the profile was lost.
NamedIsFindable ==
    \A a \in Account : \A n \in Name :
        displayName[a] = n ~> (tree[n]["profile"] # Nobody \/ n \in lost)
==============================================================================
