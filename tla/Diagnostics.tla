----------------------------- MODULE Diagnostics -----------------------------
(***************************************************************************)
(* The runtime diagnostics of the admin server: the lists of weak          *)
(* references to the states of watches and leases, and the handler of      *)
(* /kubert.json that summarizes them.                                      *)
(*                                                                         *)
(* A state is inspected by the task that owns it, under the state's write  *)
(* lock, and read by the handler under its read lock.  The handler holds   *)
(* the mutex of a list while it reads the states the list refers to, one   *)
(* after the other; owners come and go meanwhile.  What an event means for *)
(* a state is in modules Watch and LeaseTask: here a state is the number   *)
(* of the events that its contents, and its statistics, account for.       *)
(***************************************************************************)
EXTENDS Naturals, Sequences, FiniteSets, Functions

CONSTANTS
    Watches,    \* the watches the application may start
    Leases,     \* the leases it may spawn
    Client,     \* the connections to the admin server
    MaxEvents   \* bound on the events of a watch or lease

ASSUME DiagnosticsAssumption == MaxEvents \in Nat

Source == Watches \cup Leases
Lists == {"watches", "leases"}

VARIABLES
    fresh,      \* not registered yet
    owned,      \* whose WatchDiagnostics or LeaseDiagnostics is alive
    refs,       \* refs.watches, refs.leases: the weak references
    contents,   \* the events a state's contents account for
    stats,      \* the events its statistics account for
    writing,    \* the states that are being inspected
    handler     \* handler[c]: Diagnostics::handle for client c

stateVars == <<contents, stats, writing>>
diagnosticsVars == <<fresh, owned, refs, stateVars, handler>>

-----------------------------------------------------------------------------

\* No call of the handler: "none".  Otherwise it waits for the mutex of the
\* list, goes through it, or has both summaries.  `before' and `dropped' are
\* history: what has been alive since the request, and what was in the lists
\* but gone when it was made.
Idle == [at |-> "none", list |-> "watches", todo |-> <<>>, summary |-> <<>>,
         before |-> {}, dropped |-> {}]

List(i) == IF i \in Watches THEN "watches" ELSE "leases"
InList(i) == i \in Range(refs[List(i)])

Called == [Idle EXCEPT !.at = "lock", !.before = owned,
                       !.dropped = {i \in Source \ owned : InList(i)}]

\* The mutex of the list is not held.
Unlocked(list) ==
    \A c \in Client : ~(handler[c].at = "read" /\ handler[c].list = list)

\* register_watch and register_lease.
Register(i) ==
    /\ i \in fresh
    /\ Unlocked(List(i))
    /\ fresh' = fresh \ {i}
    /\ owned' = owned \cup {i}
    /\ refs' = [refs EXCEPT ![List(i)] = Append(@, i)]
    /\ UNCHANGED <<stateVars, handler>>

\* inspect takes the write lock and changes the contents...
Inspect(i) ==
    /\ i \in owned \ writing
    /\ contents[i] < MaxEvents
    /\ writing' = writing \cup {i}
    /\ contents' = [contents EXCEPT ![i] = @ + 1]
    /\ UNCHANGED <<fresh, owned, refs, stats, handler>>

\* Mutant: looks itself up in the list while it holds the write lock.
InspectDoneLocks(i) ==
    /\ i \in writing
    /\ Unlocked(List(i))
    /\ writing' = writing \ {i}
    /\ stats' = [stats EXCEPT ![i] = contents[i]]
    /\ UNCHANGED <<fresh, owned, refs, contents, handler>>

\* ... then the statistics.
InspectDone(i) ==
    /\ i \in writing
    /\ writing' = writing \ {i}
    /\ stats' = [stats EXCEPT ![i] = contents[i]]
    /\ UNCHANGED <<fresh, owned, refs, contents, handler>>

\* The stream or the lease manager is dropped, and the state with it.
Release(i) ==
    /\ i \in owned \ writing
    /\ owned' = owned \ {i}
    /\ contents' = [contents EXCEPT ![i] = 0]
    /\ stats' = [stats EXCEPT ![i] = 0]
    /\ handler' = [c \in Client |-> [handler[c] EXCEPT !.before = @ \ {i}]]
    /\ UNCHANGED <<fresh, refs, writing>>

-----------------------------------------------------------------------------
(* Diagnostics::handle: summarize_watches, then summarize_leases *)

\* Vec::retain: the elements of s that are in S, in their order.
Retained(s, S) ==
    LET kept == {j \in DOMAIN s : s[j] \in S}
        order == CHOOSE f \in Bijection(1 .. Cardinality(kept), kept) :
                     \A m, n \in DOMAIN f : m < n => f[m] < f[n]
    IN [n \in DOMAIN order |-> s[order[n]]]

\* Mutant: references to what was dropped stay.
RetainAll(c) ==
    LET list == handler[c].list
    IN /\ handler[c].at = "lock"
       /\ Unlocked(list)
       /\ handler' = [handler EXCEPT ![c].at = "read", ![c].todo = refs[list]]
       /\ UNCHANGED <<fresh, owned, refs, stateVars>>

\* Locks the list and retains the references that can be upgraded.
Retain(c) ==
    LET list == handler[c].list
        live == Retained(refs[list], owned)
    IN /\ handler[c].at = "lock"
       /\ Unlocked(list)
       /\ refs' = [refs EXCEPT ![list] = live]
       /\ handler' = [handler EXCEPT ![c].at = "read", ![c].todo = live]
       /\ UNCHANGED <<fresh, owned, stateVars>>

Entry(i) == [source |-> i, contents |-> contents[i], stats |-> stats[i]]

\* Mutant: reads the state without its lock.
VisitUnlocked(c) ==
    /\ handler[c].at = "read"
    /\ handler[c].todo # <<>>
    /\ LET i == Head(handler[c].todo)
       IN handler' = [handler EXCEPT
             ![c].todo = Tail(@),
             ![c].summary = IF i \in owned THEN Append(@, Entry(i)) ELSE @]
    /\ UNCHANGED <<fresh, owned, refs, stateVars>>

\* Mutant: try_read passes over a state that is being inspected.
VisitTries(c) ==
    /\ handler[c].at = "read"
    /\ handler[c].todo # <<>>
    /\ LET i == Head(handler[c].todo)
       IN handler' = [handler EXCEPT
             ![c].todo = Tail(@),
             ![c].summary = IF i \in owned \ writing THEN Append(@, Entry(i)) ELSE @]
    /\ UNCHANGED <<fresh, owned, refs, stateVars>>

\* The next reference: dropped since, or its state is read and summarized.
Visit(c) ==
    /\ handler[c].at = "read"
    /\ handler[c].todo # <<>>
    /\ Head(handler[c].todo) \notin writing
    /\ LET i == Head(handler[c].todo)
       IN handler' = [handler EXCEPT
             ![c].todo = Tail(@),
             ![c].summary = IF i \in owned THEN Append(@, Entry(i)) ELSE @]
    /\ UNCHANGED <<fresh, owned, refs, stateVars>>

\* The end of a list: its mutex is released.
Unlock(c) ==
    /\ handler[c].at = "read"
    /\ handler[c].todo = <<>>
    /\ handler' = [handler EXCEPT
          ![c].at = IF handler[c].list = "watches" THEN "lock" ELSE "done",
          ![c].list = "leases"]
    /\ UNCHANGED <<fresh, owned, refs, stateVars>>

DiagnosticsInit ==
    /\ fresh = Source
    /\ owned = {}
    /\ refs = [l \in Lists |-> <<>>]
    /\ contents = [i \in Source |-> 0]
    /\ stats = [i \in Source |-> 0]
    /\ writing = {}
    /\ handler = [c \in Client |-> Idle]

-----------------------------------------------------------------------------
(* Properties *)

\* The sources that a summary has entries for, in its order.
Names(s) == [j \in DOMAIN s |-> s[j].source]
Named(c) == Names(handler[c].summary)

\* A response has an entry for every watch and lease that was there from the
\* request to the response, whatever was registered or dropped meanwhile, and
\* has none twice.
Complete ==
    \A c \in Client : handler[c].at = "done" =>
        /\ handler[c].before \subseteq Range(Named(c))
        /\ IsInjective(Named(c))

\* A watch or lease that was dropped before a request is neither in the
\* response nor in the lists after it: the lists do not grow by what is dropped.
Collected ==
    \A c \in Client : handler[c].at = "done" =>
        \A i \in handler[c].dropped : i \notin Range(Named(c)) /\ ~InList(i)

\* The contents and the statistics of an entry are those of one moment.
Untorn ==
    \A c \in Client : \A j \in DOMAIN handler[c].summary :
        handler[c].summary[j].contents = handler[c].summary[j].stats
=============================================================================
