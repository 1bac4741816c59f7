-------------------------- MODULE NamespacedIndex --------------------------
(***************************************************************************)
(* kubert::index::namespaced: as `cluster', with the names kept in a map   *)
(* from namespaces to sets of names.  A namespace is in the map only while *)
(* it has names, except in reset_removed, where emptied sets stay.         *)
(***************************************************************************)
EXTENDS Watch

CONSTANTS Namespace, Name

ASSUME NamespaceAssumption == Key \subseteq Namespace \X Name

VARIABLES keys, added, removed, index

indexVars == <<keys, added, removed, index>>
vars == <<watchVars, indexVars>>

-----------------------------------------------------------------------------
(* HashMap<String, HashSet<String>> *)

NameMaps == UNION {[D -> SUBSET Name] : D \in SUBSET Namespace}
Empty == [ns \in {} |-> {}]

\* Mutant: the two strings are mixed up.
InsertSwapped(m, ns, n) ==
    [x \in DOMAIN m \cup {n} |->
        IF x # n THEN m[x]
        ELSE IF n \in DOMAIN m THEN m[n] \cup {ns} ELSE {ns}]

\* Mutant: the entry of the namespace is replaced.
InsertReplaces(m, ns, n) ==
    [x \in DOMAIN m \cup {ns} |-> IF x # ns THEN m[x] ELSE {n}]

\* keys.entry(ns).or_default().insert(n)
Insert(m, ns, n) ==
    [x \in DOMAIN m \cup {ns} |->
        IF x # ns THEN m[x]
        ELSE IF ns \in DOMAIN m THEN m[ns] \cup {n} ELSE {n}]

\* get_mut(ns).remove(n)
Strike(m, ns, n) ==
    [x \in DOMAIN m |-> IF x = ns THEN m[ns] \ {n} ELSE m[x]]

\* Mutant: an empty entry stays.
RemoveKeepsEmpty(m, ns, n) == Strike(m, ns, n)

\* The same, and removes an entry that is then empty.
Remove(m, ns, n) ==
    LET s == Strike(m, ns, n)
    IN [x \in {y \in DOMAIN m : y # ns \/ s[ns] # {}} |-> s[x]]

\* The resources that a map names.
Keys(m) == {k \in Key : k[1] \in DOMAIN m /\ k[2] \in m[k[1]]}

-----------------------------------------------------------------------------

\* IndexNamespacedResource::reset.
Reset(idx, add, del) ==
    [k \in Key |-> IF k \in Keys(del) THEN None
                   ELSE IF add[k] # None THEN add[k] ELSE idx[k]]

Apply(ns, n, v) ==
    /\ v # None
    /\ WatchEvent(<<ns, n>>, v)
    /\ keys' = Insert(keys, ns, n)
    /\ index' = [index EXCEPT ![<<ns, n>>] = v]
    /\ UNCHANGED <<added, removed>>

Delete(ns, n) ==
    /\ WatchEvent(<<ns, n>>, None)
    /\ keys' = Remove(keys, ns, n)
    /\ index' = [index EXCEPT ![<<ns, n>>] = None]
    /\ UNCHANGED <<added, removed>>

InitStart ==
    /\ InitEvent
    /\ removed' = keys
    /\ keys' = Empty
    /\ UNCHANGED <<added, index>>

\* Mutant: a listed name stays in reset_removed.
InitApplyKeepsRemoved(ns, n) ==
    /\ InitApplyEvent(<<ns, n>>)
    /\ keys' = Insert(keys, ns, n)
    /\ added' = [added EXCEPT ![<<ns, n>>] = list[<<ns, n>>]]
    /\ UNCHANGED <<removed, index>>

InitApply(ns, n) ==
    /\ InitApplyEvent(<<ns, n>>)
    /\ removed' = Strike(removed, ns, n)
    /\ keys' = Insert(keys, ns, n)
    /\ added' = [added EXCEPT ![<<ns, n>>] = list[<<ns, n>>]]
    /\ UNCHANGED index

InitDone ==
    /\ InitDoneEvent
    /\ index' = Reset(index, added, removed)
    /\ added' = Nothing
    /\ removed' = Empty
    /\ UNCHANGED keys

Error ==
    /\ ErrorEvent
    /\ UNCHANGED indexVars

Init ==
    /\ WatchInit
    /\ keys = Empty
    /\ added = Nothing
    /\ removed = Empty
    /\ index = Nothing

Next ==
    \/ \E ns \in Namespace, n \in Name :
          /\ <<ns, n>> \in Key
          /\ \/ \E v \in Version : Apply(ns, n, v)
             \/ Delete(ns, n)
             \/ InitApply(ns, n)
    \/ InitStart \/ InitDone \/ Error

Spec == Init /\ [][Next]_vars

-----------------------------------------------------------------------------
(* Properties *)

\* The variables have their types; in particular the maps are from namespaces to
\* names, which both are strings to the compiler.
TypeOK ==
    /\ phase \in {"empty", "listing", "watching"}
    /\ list \in Resources
    /\ todo \subseteq Key
    /\ view \in Resources
    /\ known \in Resources
    /\ resetting \in Resources
    /\ keys \in NameMaps
    /\ added \in Resources
    /\ removed \in NameMaps
    /\ index \in Resources

\* The map of known names has no empty namespace, so that it does not grow
\* with namespaces that come and go.
NoEmptyNamespace == \A ns \in DOMAIN keys : keys[ns] # {}

\* The namespaced index does what the cluster index does with pairs of a
\* namespace and a name: the two handlers agree on every event.
Flat == INSTANCE ClusterIndex WITH keys <- Keys(keys), removed <- Keys(removed)
SameAsCluster == Flat!Spec

\* Nothing that exists is missing from the index or old in it, as for the
\* cluster index.
LiveIndexed == Flat!LiveIndexed
=============================================================================
