------------------------------- MODULE Backend -------------------------------
(***************************************************************************)
(* What the app relies on of the Firebase Realtime Database client.        *)
(*                                                                         *)
(* The database is the set of the entries (leaves or small subtrees) that  *)
(* exist.  A device queues its writes in memory, in the order of the calls *)
(* (FPersistentConnection: outstandingPuts under putCounter, resent in     *)
(* index order), and the server applies them one at a time.  What a device *)
(* observes is the server's data with its own queued writes on top         *)
(* (FSyncTree, applyUserOverwriteAtPath).  Nothing here is atomic beyond   *)
(* one write: the app never uses a multi-path update or a transaction.     *)
(***************************************************************************)
EXTENDS Naturals, Sequences

\* A write of one call, labelled with the operation that made it.
SetValue(e, by) == [op |-> "set", entry |-> e, by |-> by]
RemoveValue(e, by) == [op |-> "remove", entry |-> e, by |-> by]

Write(Entries, Labels) ==
    [op : {"set", "remove"}, entry : Entries, by : Labels]

\* The server's data after it applied w.
Applied(w, data) ==
    IF w.op = "set" THEN data \cup {w.entry} ELSE data \ {w.entry}

\* Is a write to one of the entries of S still queued in q?
Queued(q, S) == \E i \in DOMAIN q : q[i].entry \in S

Sets(w, e) == w.op = "set" /\ w.entry = e
Removes(w, e) == w.op = "remove" /\ w.entry = e

\* Is entry e there for a device whose queue is q: set by a queued write that
\* no later one removes, or on the server and not removed by a queued write.
Seen(data, q, e) ==
    \/ \E i \in DOMAIN q :
          /\ Sets(q[i], e)
          /\ \A j \in DOMAIN q : j > i => ~Removes(q[j], e)
    \/ e \in data /\ \A j \in DOMAIN q : ~Removes(q[j], e)
==============================================================================
