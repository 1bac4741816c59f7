---------------------------- MODULE ClusterIndex ----------------------------
(***************************************************************************)
(* kubert::index::cluster: keeps an index of cluster-scoped resources up   *)
(* to date with a watch.  The index is an IndexClusterResource with the    *)
(* default `reset', like the test's ClusterCache, but keeps versions too.  *)
(***************************************************************************)
EXTENDS Watch

VARIABLES
    keys,     \* the names the index is believed to hold
    added,    \* reset_added: for each name, the last one pushed
    removed,  \* reset_removed
    index     \* the index

indexVars == <<keys, added, removed, index>>
vars == <<watchVars, indexVars>>

-----------------------------------------------------------------------------

\* IndexClusterResource::reset: applies what was added, in order, and then
\* deletes what was removed.
Reset(idx, add, del) ==
    [k \in Key |-> IF k \in del THEN None
                   ELSE IF add[k] # None THEN add[k] ELSE idx[k]]

Apply(k, v) ==
    /\ v # None
    /\ WatchEvent(k, v)
    /\ keys' = keys \cup {k}
    /\ index' = [index EXCEPT ![k] = v]
    /\ UNCHANGED <<added, removed>>

Delete(k) ==
    /\ WatchEvent(k, None)
    /\ keys' = keys \ {k}
    /\ index' = [index EXCEPT ![k] = None]
    /\ UNCHANGED <<added, removed>>

InitStart ==
    /\ InitEvent
    /\ removed' = keys
    /\ keys' = {}
    /\ UNCHANGED <<added, index>>

InitApply(k) ==
    /\ InitApplyEvent(k)
    /\ added' = [added EXCEPT ![k] = list[k]]
    /\ removed' = removed \ {k}
    /\ keys' = keys \cup {k}
    /\ UNCHANGED index

InitDone ==
    /\ InitDoneEvent
    /\ index' = Reset(index, added, removed)
    /\ added' = Nothing
    /\ removed' = {}
    /\ UNCHANGED keys

Error ==
    /\ ErrorEvent
    /\ UNCHANGED indexVars

Init ==
    /\ WatchInit
    /\ keys = {}
    /\ added = Nothing
    /\ removed = {}
    /\ index = Nothing

Next ==
    \/ \E k \in Key : \/ \E v \in Version : Apply(k, v)
                      \/ Delete(k)
                      \/ InitApply(k)
    \/ InitStart \/ InitDone \/ Error

Spec == Init /\ [][Next]_vars

-----------------------------------------------------------------------------
(* Properties *)

TypeOK ==
    /\ phase \in {"empty", "listing", "watching"}
    /\ list \in Resources
    /\ todo \subseteq Key
    /\ view \in Resources
    /\ known \in Resources
    /\ resetting \in Resources
    /\ keys \subseteq Key
    /\ added \in Resources
    /\ removed \subseteq Key
    /\ index \in Resources

\* Once a list has completed, every resource that exists is in the index at
\* its current version, even if lists were cut short before (no resource is
\* lost, and none that an earlier list sent in an older version goes back).
LiveIndexed ==
    phase = "watching" =>
        \A k \in Present(view) : index[k] = view[k]

\* A reset leaves the index with exactly the live resources: those listed,
\* without the keys that were removed (index.rs:24, 166-168).
Exact == phase = "watching" => index = view

-----------------------------------------------------------------------------
(* Inductive invariants *)

\* The resources of the list in progress that were sent.
Sent == Present(list) \ todo

\* The handler's names and buffers follow the list in progress, and nothing
\* is left in them when it is done.
Follows ==
    /\ phase = "watching" =>
          /\ known = view
          /\ keys = Present(view)
          /\ added = Nothing
          /\ removed = {}
          /\ LiveIndexed
    /\ phase = "listing" =>
          /\ todo \subseteq Present(list)
          /\ keys = Sent
          /\ removed \cap Sent = {}
          /\ \A k \in Key : resetting[k] = IF k \in Sent THEN list[k] ELSE None
          /\ \A k \in Sent : added[k] = list[k]

\* While no list has been cut short, the names that the list has not confirmed
\* are those to remove.
Accounted ==
    /\ phase = "watching" => index = view
    /\ phase = "empty" =>
          /\ keys = Present(index)
          /\ added = Nothing
          /\ removed = {}
    /\ phase = "listing" =>
          /\ Present(added) = Sent
          /\ Present(index) \ Sent \subseteq removed
=============================================================================
