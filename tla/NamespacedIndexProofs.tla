----------------------- MODULE NamespacedIndexProofs -----------------------
(***************************************************************************)
(* The namespaced index implements the cluster index over pairs.  The      *)
(* checksums of watch summaries are comparable.                            *)
(***************************************************************************)
EXTENDS NamespacedIndex, WatchSummary, FiniteSetTheorems,
        WellFoundedInduction, TLAPS

LEMMA PairKey ==
    ASSUME NEW k \in Key
    PROVE  k = <<k[1], k[2]>> /\ k[1] \in Namespace /\ k[2] \in Name
  BY NamespaceAssumption

LEMMA EmptyMap == Empty \in NameMaps /\ Keys(Empty) = {}
  BY DEF Empty, NameMaps, Keys

LEMMA MapType ==
    ASSUME NEW m, NEW D \in SUBSET Namespace, m \in [D -> SUBSET Name]
    PROVE  m \in NameMaps
  BY Zenon DEF NameMaps

LEMMA InsertMap ==
    ASSUME NEW m \in NameMaps, NEW ns \in Namespace, NEW n \in Name,
           <<ns, n>> \in Key
    PROVE  /\ Insert(m, ns, n) \in NameMaps
           /\ Keys(Insert(m, ns, n)) = Keys(m) \cup {<<ns, n>>}
           /\ (\A x \in DOMAIN m : m[x] # {}) =>
                 \A x \in DOMAIN Insert(m, ns, n) : Insert(m, ns, n)[x] # {}
  <1>1. PICK D \in SUBSET Namespace : m \in [D -> SUBSET Name]
    BY Zenon DEF NameMaps
  <1>2. Insert(m, ns, n) \in [D \cup {ns} -> SUBSET Name]
    BY Zenon, <1>1 DEF Insert
  <1>3. Insert(m, ns, n) \in NameMaps
    BY Zenon, <1>2, MapType
  <1>4. ASSUME NEW k \in Key
        PROVE  k \in Keys(Insert(m, ns, n)) <=> k \in Keys(m) \/ k = <<ns, n>>
    BY <1>1, PairKey DEF Insert, Keys
  <1>5. Keys(Insert(m, ns, n)) \subseteq Key /\ Keys(m) \subseteq Key
    BY Zenon DEF Keys
  <1>6. Keys(Insert(m, ns, n)) = Keys(m) \cup {<<ns, n>>}
    BY Zenon, <1>4, <1>5
  <1>7. (\A x \in DOMAIN m : m[x] # {}) =>
           \A x \in DOMAIN Insert(m, ns, n) : Insert(m, ns, n)[x] # {}
    BY Zenon, <1>1 DEF Insert
  <1> QED
    BY Zenon, <1>3, <1>6, <1>7

LEMMA StrikeMap ==
    ASSUME NEW m \in NameMaps, NEW ns \in Namespace, NEW n \in Name
    PROVE  /\ Strike(m, ns, n) \in NameMaps
           /\ Keys(Strike(m, ns, n)) = Keys(m) \ {<<ns, n>>}
  <1>1. PICK D \in SUBSET Namespace : m \in [D -> SUBSET Name]
    BY Zenon DEF NameMaps
  <1>2. Strike(m, ns, n) \in [D -> SUBSET Name]
    BY Zenon, <1>1 DEF Strike
  <1>3. Strike(m, ns, n) \in NameMaps
    BY Zenon, <1>2, MapType
  <1>4. ASSUME NEW k \in Key
        PROVE  k \in Keys(Strike(m, ns, n)) <=> k \in Keys(m) /\ k # <<ns, n>>
    BY <1>1, PairKey DEF Strike, Keys
  <1>5. Keys(Strike(m, ns, n)) \subseteq Key /\ Keys(m) \subseteq Key
    BY Zenon DEF Keys
  <1> QED
    BY Zenon, <1>3, <1>4, <1>5

LEMMA RemoveMap ==
    ASSUME NEW m \in NameMaps, NEW ns \in Namespace, NEW n \in Name
    PROVE  /\ Remove(m, ns, n) \in NameMaps
           /\ Keys(Remove(m, ns, n)) = Keys(m) \ {<<ns, n>>}
           /\ (\A x \in DOMAIN m : m[x] # {}) =>
                 \A x \in DOMAIN Remove(m, ns, n) : Remove(m, ns, n)[x] # {}
  <1> DEFINE s == Strike(m, ns, n)
             E == {y \in DOMAIN m : y # ns \/ s[ns] # {}}
  <1>1. PICK D \in SUBSET Namespace : m \in [D -> SUBSET Name]
    BY Zenon DEF NameMaps
  <1>2. /\ s \in [D -> SUBSET Name] /\ E \subseteq D /\ E \in SUBSET Namespace
        /\ \A x \in D \ {ns} : s[x] = m[x]
    BY Zenon, <1>1 DEF Strike
  <1>3. Remove(m, ns, n) = [x \in E |-> s[x]]
    BY Zenon DEF Remove
  <1>4. Keys(s) = Keys(m) \ {<<ns, n>>}
    BY Zenon, StrikeMap
  <1> HIDE DEF s, E
  <1>5. Remove(m, ns, n) \in [E -> SUBSET Name]
    BY Zenon, <1>2, <1>3
  <1>6. Remove(m, ns, n) \in NameMaps
    BY Zenon, <1>2, <1>5, MapType
  <1>7. Keys(Remove(m, ns, n)) = Keys(s)
    <2>1. ASSUME NEW k \in Key
          PROVE  k \in Keys(Remove(m, ns, n)) <=> k \in Keys(s)
      BY Zenon, <1>1, <1>2, <1>3 DEF Keys, E
    <2> QED
      BY Zenon, <2>1 DEF Keys
  <1>8. (\A x \in DOMAIN m : m[x] # {}) =>
           \A x \in DOMAIN Remove(m, ns, n) : Remove(m, ns, n)[x] # {}
    BY Zenon, <1>1, <1>2, <1>3 DEF E
  <1> QED
    BY Zenon, <1>4, <1>6, <1>7, <1>8

-----------------------------------------------------------------------------

MapsOK == keys \in NameMaps /\ removed \in NameMaps /\ NoEmptyNamespace

LEMMA MapsInit == Init => MapsOK
  BY Zenon, EmptyMap DEF Init, MapsOK, NoEmptyNamespace, Empty

LEMMA MapsStep == MapsOK /\ [Next]_vars => MapsOK'
  <1> SUFFICES ASSUME MapsOK, [Next]_vars PROVE MapsOK'
    BY Zenon
  <1>1. ASSUME NEW ns \in Namespace, NEW n \in Name, NEW v \in Version,
               <<ns, n>> \in Key, Apply(ns, n, v)
        PROVE  MapsOK'
    BY Zenon, <1>1, InsertMap DEF Apply, MapsOK, NoEmptyNamespace
  <1>2. ASSUME NEW ns \in Namespace, NEW n \in Name,
               <<ns, n>> \in Key, Delete(ns, n)
        PROVE  MapsOK'
    <2>1. keys' = Remove(keys, ns, n) /\ UNCHANGED removed
      BY Zenon, <1>2 DEF Delete
    <2>2. Remove(keys, ns, n) \in NameMaps
      BY Zenon, RemoveMap DEF MapsOK
    <2>3. \A x \in DOMAIN Remove(keys, ns, n) : Remove(keys, ns, n)[x] # {}
      BY Zenon, RemoveMap DEF MapsOK, NoEmptyNamespace
    <2> QED
      BY Zenon, <2>1, <2>2, <2>3 DEF MapsOK, NoEmptyNamespace
  <1>3. ASSUME NEW ns \in Namespace, NEW n \in Name,
               <<ns, n>> \in Key, InitApply(ns, n)
        PROVE  MapsOK'
    <2>1. removed' \in NameMaps
      BY Zenon, <1>3, StrikeMap DEF InitApply, MapsOK
    <2>2. keys' \in NameMaps /\ NoEmptyNamespace'
      BY Zenon, <1>3, InsertMap DEF InitApply, MapsOK, NoEmptyNamespace
    <2> QED
      BY Zenon, <2>1, <2>2 DEF MapsOK
  <1>4. CASE InitStart
    BY Zenon, <1>4, EmptyMap DEF InitStart, MapsOK, NoEmptyNamespace, Empty
  <1>5. CASE InitDone
    BY Zenon, <1>5, EmptyMap DEF InitDone, MapsOK, NoEmptyNamespace
  <1>6. CASE Error
    BY Zenon, <1>6 DEF Error, indexVars, MapsOK, NoEmptyNamespace
  <1>7. CASE UNCHANGED vars
    BY Zenon, <1>7 DEF vars, indexVars, MapsOK, NoEmptyNamespace
  <1> QED
    BY Zenon, <1>1, <1>2, <1>3, <1>4, <1>5, <1>6, <1>7 DEF Next

LEMMA MapsAlways == Spec => []MapsOK
  BY MapsInit, MapsStep, PTL DEF Spec

\* The map of names never keeps a namespace without names.
THEOREM NoNamespaceLeaks == Spec => []NoEmptyNamespace
  <1>1. MapsOK => NoEmptyNamespace
    BY Zenon DEF MapsOK
  <1> QED
    BY <1>1, MapsAlways, PTL

LEMMA FlatInit == Init => Flat!Init
  BY Zenon, EmptyMap DEF Init, WatchInit, Nothing, Flat!Init, Flat!WatchInit,
                  Flat!Nothing

LEMMA FlatStep == MapsOK /\ [Next]_vars => [Flat!Next]_Flat!vars
  <1> SUFFICES ASSUME MapsOK, [Next]_vars PROVE [Flat!Next]_Flat!vars
    BY Zenon
  <1>1. ASSUME NEW ns \in Namespace, NEW n \in Name, NEW v \in Version,
               <<ns, n>> \in Key, Apply(ns, n, v)
        PROVE  Flat!Apply(<<ns, n>>, v)
    <2>1. Keys(keys)' = Keys(keys) \cup {<<ns, n>>}
      BY <1>1, InsertMap DEF Apply, MapsOK
    <2> QED
      BY Zenon, <1>1, <2>1
         DEF Apply, WatchEvent, InspectEvent, Keys, Flat!Apply,
                        Flat!WatchEvent, Flat!InspectEvent
  <1>2. ASSUME NEW ns \in Namespace, NEW n \in Name,
               <<ns, n>> \in Key, Delete(ns, n)
        PROVE  Flat!Delete(<<ns, n>>)
    <2>1. Keys(keys)' = Keys(keys) \ {<<ns, n>>}
      BY <1>2, RemoveMap DEF Delete, MapsOK
    <2> QED
      BY Zenon, <1>2, <2>1
         DEF Delete, WatchEvent, InspectEvent, Keys, Flat!Delete,
                        Flat!WatchEvent, Flat!InspectEvent
  <1>3. ASSUME NEW ns \in Namespace, NEW n \in Name,
               <<ns, n>> \in Key, InitApply(ns, n)
        PROVE  Flat!InitApply(<<ns, n>>)
    <2>1. /\ Keys(keys)' = Keys(keys) \cup {<<ns, n>>}
          /\ Keys(removed)' = Keys(removed) \ {<<ns, n>>}
      BY <1>3, InsertMap, StrikeMap DEF InitApply, MapsOK
    <2> QED
      BY Zenon, <1>3, <2>1 DEF InitApply, InitApplyEvent, InspectInitApply,
           Flat!InitApply, Flat!InitApplyEvent, Flat!InspectInitApply
  <1>4. CASE InitStart
    <2>1. Keys(keys)' = {} /\ Keys(removed)' = Keys(keys)
      BY Zenon, <1>4, EmptyMap DEF InitStart
    <2> QED
      BY Zenon, <1>4, <2>1
         DEF InitStart, InitEvent, InspectInit, Resources, Nothing,
           Present, Flat!InitStart, Flat!InitEvent, Flat!InspectInit,
           Flat!Resources, Flat!Nothing, Flat!Present, Flat!Next
  <1>5. CASE InitDone
    <2>1. Keys(keys)' = Keys(keys) /\ Keys(removed)' = {}
      BY Zenon, <1>5, EmptyMap DEF InitDone
    <2>2. Flat!Reset(index, added, Keys(removed)) = Reset(index, added, removed)
      BY Zenon DEF Reset, Flat!Reset
    <2> QED
      BY Zenon, <1>5, <2>1, <2>2
         DEF InitDone, InitDoneEvent, InspectInitDone, Nothing,
           Flat!InitDone, Flat!InitDoneEvent, Flat!InspectInitDone,
           Flat!Nothing, Flat!Next
  <1>6. CASE Error
    BY Zenon, <1>6
       DEF Error, ErrorEvent, indexVars, Keys, Nothing, Flat!Error,
           Flat!ErrorEvent, Flat!indexVars, Flat!Nothing, Flat!Next
  <1>7. CASE UNCHANGED vars
    BY Zenon, <1>7
       DEF vars, watchVars, indexVars, Keys, Flat!vars, Flat!watchVars,
                Flat!indexVars
  <1> QED
    BY Zenon, <1>1, <1>2, <1>3, <1>4, <1>5, <1>6, <1>7
       DEF Next, Flat!Next

\* The namespaced handler and the cluster handler do the same with every event.
THEOREM NamespacedImplementsCluster == Spec => SameAsCluster
  BY FlatInit, FlatStep, MapsAlways, PTL DEF Spec, SameAsCluster, Flat!Spec

-----------------------------------------------------------------------------
(* What is proved of the cluster index holds of the namespaced index. *)

Cluster == INSTANCE IndexProofs WITH keys <- Keys(keys), removed <- Keys(removed)

LEMMA SameSpec == Flat!Spec => Cluster!Spec
  <1>1. Flat!Init => Cluster!Init
    BY Zenon DEF Flat!Init, Flat!WatchInit, Flat!Nothing,
                 Cluster!Init, Cluster!WatchInit, Cluster!Nothing
  <1>2. [Flat!Next]_(Flat!vars) => [Cluster!Next]_(Cluster!vars)
    BY Zenon
       DEF Flat!Next, Cluster!Next, Flat!Apply, Cluster!Apply,
           Flat!Delete, Cluster!Delete, Flat!InitApply,
           Cluster!InitApply, Flat!InitStart, Cluster!InitStart,
           Flat!InitDone, Cluster!InitDone, Flat!Error,
           Cluster!Error, Flat!WatchEvent, Cluster!WatchEvent,
           Flat!InitEvent, Cluster!InitEvent,
           Flat!InitApplyEvent, Cluster!InitApplyEvent,
           Flat!InitDoneEvent, Cluster!InitDoneEvent,
           Flat!ErrorEvent, Cluster!ErrorEvent,
           Flat!InspectEvent, Cluster!InspectEvent,
           Flat!InspectInit, Cluster!InspectInit,
           Flat!InspectInitApply, Cluster!InspectInitApply,
           Flat!InspectInitDone, Cluster!InspectInitDone,
           Flat!Reset, Cluster!Reset, Flat!Nothing,
           Cluster!Nothing, Flat!Resources, Cluster!Resources,
           Flat!Present, Cluster!Present, Flat!vars,
           Cluster!vars, Flat!watchVars, Cluster!watchVars,
           Flat!indexVars, Cluster!indexVars
  <1> QED
    BY <1>1, <1>2, PTL DEF Flat!Spec, Cluster!Spec

\* No resource that exists is lost from a namespaced index or out of date in
\* it, for any number of lists that failed.
THEOREM NothingLost == Spec => []LiveIndexed
  <1>1. Cluster!LiveIndexed => LiveIndexed
    BY Zenon DEF LiveIndexed, Flat!LiveIndexed, Flat!Present,
                 Cluster!LiveIndexed, Cluster!Present
  <1>2. Cluster!Spec => []Cluster!LiveIndexed
    BY Cluster!NothingLost, WatchAssumption
  <1> QED
    BY <1>1, <1>2, NamespacedImplementsCluster, SameSpec, PTL
       DEF SameAsCluster

\* The diagnostics of a watch of namespaced resources are exact too.
THEOREM DiagnosticsCorrect == Spec => []DiagnosticsExact
  <1>1. Cluster!DiagnosticsExact => DiagnosticsExact
    BY Zenon DEF DiagnosticsExact, Cluster!DiagnosticsExact
  <1>2. Cluster!Spec => []Cluster!DiagnosticsExact
    BY Cluster!DiagnosticsCorrect, WatchAssumption
  <1> QED
    BY <1>1, <1>2, NamespacedImplementsCluster, SameSpec, PTL
       DEF SameAsCluster

\* The namespaced index keeps its types: those of the cluster index, and the
\* two maps of names.
THEOREM TypeCorrect == Spec => []TypeOK
  <1>1. Cluster!TypeOK /\ MapsOK => TypeOK
    BY Zenon DEF TypeOK, MapsOK, Resources, Cluster!TypeOK, Cluster!Resources
  <1>2. Cluster!Spec => []Cluster!TypeOK
    BY Cluster!TypeCorrect, WatchAssumption
  <1> QED
    BY <1>1, <1>2, NamespacedImplementsCluster, SameSpec, MapsAlways, PTL
       DEF SameAsCluster

-----------------------------------------------------------------------------
(* The summaries' checksums *)

\* A sorted order lists every resource once.
LEMMA SortedOnto ==
    ASSUME NEW r, NEW s \in Sorted(r)
    PROVE  /\ s \in [1 .. Cardinality(Metas(r)) -> Metas(r)]
           /\ \A i, j \in 1 .. Cardinality(Metas(r)) : s[i] = s[j] => i = j
           /\ \A m \in Metas(r) : \E i \in 1 .. Cardinality(Metas(r)) : s[i] = m
           /\ \A i, j \in 1 .. Cardinality(Metas(r)) :
                 i < j => s[i].creation_timestamp <= s[j].creation_timestamp
  <1>1. s \in [1 .. Cardinality(Metas(r)) -> Metas(r)]
    BY Zenon DEF Sorted, Orders, Bijection, Injection
  <1>2. \A i, j \in 1 .. Cardinality(Metas(r)) : s[i] = s[j] => i = j
    BY Zenon, <1>1 DEF Sorted, Orders, Bijection, Injection, IsInjective
  <1>3. \A m \in Metas(r) : \E i \in 1 .. Cardinality(Metas(r)) : s[i] = m
    BY Zenon DEF Sorted, Orders, Bijection, Surjection
  <1>4. \A i, j \in 1 .. Cardinality(Metas(r)) :
           i < j => s[i].creation_timestamp <= s[j].creation_timestamp
    BY Zenon, <1>1 DEF Sorted
  <1> QED
    BY Zenon, <1>1, <1>2, <1>3, <1>4

LEMMA MetasFinite ==
    ASSUME NEW r
    PROVE  IsFiniteSet(Metas(r)) /\ Cardinality(Metas(r)) \in Nat
  <1> DEFINE f == [k \in Present(r) |-> Hashed(k, r[k])]
  <1>1. f \in Surjection(Present(r), Metas(r))
    BY Zenon DEF Surjection, Metas
  <1>2. IsFiniteSet(Present(r))
    BY Zenon, CreatedAssumption, FS_Subset DEF Present
  <1>3. IsFiniteSet(Metas(r))
    BY Zenon, <1>1, <1>2, FS_Surjection
  <1> QED
    BY Zenon, <1>3, FS_CardinalityType

LEMMA HashedFields ==
    ASSUME NEW k, NEW v, NEW j, NEW w
    PROVE  /\ Hashed(k, v) = Hashed(j, w) <=> k = j /\ v = w
           /\ Hashed(k, v).creation_timestamp = Created[k]
  BY SMT DEF Hashed

\* The sort key tells the resources of a watch apart.
LEMMA CreationIdentifies ==
    ASSUME NEW r, CreatedApart(r), NEW m \in Metas(r), NEW n \in Metas(r)
    PROVE  /\ m.creation_timestamp \in Nat
           /\ m.creation_timestamp = n.creation_timestamp => m = n
  <1>1. PICK k \in Present(r) : m = Hashed(k, r[k])
    BY Zenon DEF Metas
  <1>2. PICK j \in Present(r) : n = Hashed(j, r[j])
    BY Zenon DEF Metas
  <1>3. k \in Key /\ j \in Key
    BY Zenon DEF Present
  <1>4. m.creation_timestamp = Created[k] /\ n.creation_timestamp = Created[j]
    BY Zenon, <1>1, <1>2, HashedFields
  <1>5. Created[k] \in Nat
    BY Zenon, <1>3, CreatedAssumption
  <1> QED
    BY Zenon, <1>1, <1>2, <1>3, <1>4, <1>5 DEF CreatedApart

\* The sort leaves nothing of the hash map's order.
LEMMA OneOrder ==
    ASSUME NEW r, CreatedApart(r), NEW a \in Sorted(r), NEW b \in Sorted(r)
    PROVE  a = b
  <1> DEFINE N == Cardinality(Metas(r))
             T == {i \in 1 .. N : a[i] # b[i]}
  <1>1. N \in Nat
    BY Zenon, MetasFinite
  <1>2. a \in [1 .. N -> Metas(r)] /\ b \in [1 .. N -> Metas(r)]
    BY Zenon, SortedOnto
  <1>3. (\A i \in 1 .. N : a[i] = b[i]) => a = b
    <2> HIDE DEF N
    <2>1. a = [i \in 1 .. N |-> a[i]] /\ b = [i \in 1 .. N |-> b[i]]
      BY Zenon, <1>2
    <2> QED
      BY Zenon, <2>1
  <1>4. SUFFICES ASSUME T # {} PROVE FALSE
    BY Zenon, <1>3
  <1>5. T \in SUBSET Nat
    BY <1>1
  <1>6. PICK i \in T : \A j \in T : <<j, i>> \notin OpToRel(<, Nat)
    BY Zenon, <1>4, <1>5, WFMin, NatLessThanWellFounded
  <1>7. \A j \in T : ~(j < i)
    BY Zenon, <1>5, <1>6 DEF OpToRel
  <1>8. i \in 1 .. N /\ a[i] # b[i]
    OBVIOUS
  <1> HIDE DEF N
  <1>9. ASSUME NEW s \in Sorted(r), NEW t \in Sorted(r), s[i] # t[i],
               \A j \in 1 .. N : j < i => s[j] = t[j]
        PROVE  /\ s[i] \in Metas(r) /\ t[i] \in Metas(r)
               /\ t[i].creation_timestamp <= s[i].creation_timestamp
    <2>1. s \in [1 .. N -> Metas(r)] /\ t \in [1 .. N -> Metas(r)]
      BY Zenon, SortedOnto DEF N
    <2>2. s[i] \in Metas(r) /\ t[i] \in Metas(r)
      BY Zenon, <1>8, <2>1
    <2>3. \A m \in Metas(r) : \E j \in 1 .. N : t[j] = m
      BY Zenon, SortedOnto DEF N
    <2>4. PICK j \in 1 .. N : t[j] = s[i]
      BY Zenon, <2>2, <2>3
    <2>5. \A x, y \in 1 .. N : s[x] = s[y] => x = y
      BY Zenon, SortedOnto DEF N
    <2>6. j # i /\ ~(j < i)
      BY Zenon, <1>8, <1>9, <2>4, <2>5
    <2>7. i < j
      BY <1>1, <1>8, <2>6
    <2>8. \A x, y \in 1 .. N :
             x < y => t[x].creation_timestamp <= t[y].creation_timestamp
      BY Zenon, SortedOnto DEF N
    <2> QED
      BY Zenon, <1>8, <2>2, <2>4, <2>7, <2>8
  <1>10. \A j \in 1 .. N : j < i => a[j] = b[j] /\ b[j] = a[j]
    BY Zenon, <1>7
  <1> HIDE DEF T
  <1>11. /\ a[i] \in Metas(r) /\ b[i] \in Metas(r)
        /\ b[i].creation_timestamp <= a[i].creation_timestamp
    BY Zenon, <1>8, <1>9, <1>10
  <1>12. a[i].creation_timestamp <= b[i].creation_timestamp
    BY Zenon, <1>8, <1>9, <1>10
  <1>13. /\ a[i].creation_timestamp \in Nat /\ b[i].creation_timestamp \in Nat
         /\ a[i].creation_timestamp = b[i].creation_timestamp => a[i] = b[i]
    BY Zenon, <1>11, CreationIdentifies
  <1> QED
    BY SMT, <1>8, <1>11, <1>12, <1>13

\* What is hashed determines the resources and their versions.
LEMMA MetasIdentify ==
    ASSUME NEW r \in Resources, NEW q \in Resources, Metas(r) = Metas(q)
    PROVE  r = q
  <1>1. ASSUME NEW x \in Resources, NEW y \in Resources, NEW k \in Key,
               Metas(x) = Metas(y), x[k] # None
        PROVE  x[k] = y[k]
    <2>1. Hashed(k, x[k]) \in Metas(y)
      BY Zenon, <1>1 DEF Metas, Present
    <2>2. PICK j \in Present(y) : Hashed(k, x[k]) = Hashed(j, y[j])
      BY Zenon, <2>1 DEF Metas
    <2> QED
      <3>1. k = j /\ x[k] = y[j]
        BY SMT, <2>2, HashedFields
      <3> QED
        BY Zenon, <3>1
  <1>2. ASSUME NEW k \in Key PROVE r[k] = q[k]
    <2>1. CASE r[k] # None
      BY Zenon, <1>1, <2>1
    <2>2. CASE q[k] # None
      BY Zenon, <1>1, <2>2
    <2> QED
      BY Zenon, <2>1, <2>2
  <1> QED
    BY SMT, <1>2 DEF Resources

LEMMA MetasWithin ==
    ASSUME NEW r, NEW q, NEW s \in Sorted(r), s \in Sorted(q)
    PROVE  Metas(r) \subseteq Metas(q)
  <1>1. /\ s \in [1 .. Cardinality(Metas(r)) -> Metas(r)]
        /\ s \in [1 .. Cardinality(Metas(q)) -> Metas(q)]
    BY Zenon, SortedOnto
  <1>2. \A m \in Metas(r) : \E i \in 1 .. Cardinality(Metas(r)) : s[i] = m
    BY Zenon, SortedOnto
  <1> QED
    BY Zenon, <1>1, <1>2

\* Different resources have no checksum in common.
LEMMA ChecksumsDisjoint ==
    ASSUME NEW r \in Resources, NEW q \in Resources, r # q
    PROVE  Checksums(r) \cap Checksums(q) = {}
  <1> SUFFICES ASSUME NEW c \in Checksums(r), c \in Checksums(q) PROVE FALSE
    BY Zenon
  <1>1. ASSUME NEW s PROVE <<>> # <<s>>
    BY SMT
  <1>2. ASSUME NEW s, NEW t, <<s>> = <<t>> PROVE s = t
    BY SMT, <1>2
  <1>3. r # Nothing /\ q # Nothing
    BY Zenon, <1>1 DEF Checksums
  <1>4. PICK s \in Sorted(r) : c = <<s>>
    BY Zenon, <1>3 DEF Checksums
  <1>5. PICK t \in Sorted(q) : c = <<t>>
    BY Zenon, <1>3 DEF Checksums
  <1>6. s = t
    BY Zenon, <1>2, <1>4, <1>5
  <1>7. Metas(r) = Metas(q)
    <2>1. s \in Sorted(q)
      BY Zenon, <1>6
    <2>2. Metas(r) \subseteq Metas(q)
      BY SMT, <2>1, MetasWithin
    <2>3. Metas(q) \subseteq Metas(r)
      BY SMT, <2>1, MetasWithin
    <2> QED
      BY Zenon, <2>2, <2>3
  <1> QED
    BY Zenon, <1>7, MetasIdentify

\* The order by rank: the number of resources created no later.
LEMMA OrderExists ==
    ASSUME NEW r, CreatedApart(r)
    PROVE  Sorted(r) # {}
  <1> DEFINE M == Metas(r)
             N == Cardinality(M)
             B(m) == {x \in M : x.creation_timestamp <= m.creation_timestamp}
             f == [m \in M |-> Cardinality(B(m))]
             s == [i \in 1 .. N |-> CHOOSE m \in M : f[m] = i]
  <1>1. IsFiniteSet(M) /\ N \in Nat
    BY Zenon, MetasFinite
  <1>2. \A m, n \in M : /\ m.creation_timestamp \in Nat
                        /\ m.creation_timestamp = n.creation_timestamp => m = n
    BY Zenon, CreationIdentifies
  <1>3. ASSUME NEW m \in M
        PROVE  /\ IsFiniteSet(B(m)) /\ Cardinality(B(m)) \in Nat
               /\ Cardinality(B(m)) <= N /\ B(m) # {}
    <2>1. B(m) \subseteq M
      OBVIOUS
    <2>2. IsFiniteSet(B(m)) /\ Cardinality(B(m)) <= N
      BY Zenon, <1>1, <2>1, FS_Subset
    <2>3. m.creation_timestamp <= m.creation_timestamp
      BY SMT, <1>2
    <2> QED
      BY Zenon, <2>2, <2>3, FS_CardinalityType
  <1>4. ASSUME NEW m \in M PROVE f[m] \in 1 .. N
    <2>1. Cardinality(B(m)) # 0
      BY Zenon, <1>3, FS_EmptySet
    <2>2. f[m] = Cardinality(B(m))
      OBVIOUS
    <2> HIDE DEF f, B, N
    <2> QED
      BY SMT, <1>1, <1>3, <2>1, <2>2
  <1>5. ASSUME NEW m \in M, NEW n \in M, m.creation_timestamp < n.creation_timestamp
        PROVE  f[m] < f[n]
    <2>1. B(m) \subseteq B(n)
      BY SMT, <1>2, <1>5
    <2>2. ~(n.creation_timestamp <= m.creation_timestamp)
      BY SMT, <1>2, <1>5
    <2>3. n.creation_timestamp <= n.creation_timestamp
      BY SMT, <1>2
    <2>4. n \in B(n) /\ n \notin B(m)
      BY Zenon, <2>2, <2>3
    <2>5. f[m] = Cardinality(B(m)) /\ f[n] = Cardinality(B(n))
      OBVIOUS
    <2> HIDE DEF B, f
    <2>6. IsFiniteSet(B(n)) /\ B(m) # B(n)
      BY Zenon, <1>3, <2>4
    <2>7. Cardinality(B(m)) <= Cardinality(B(n)) /\ Cardinality(B(m)) # Cardinality(B(n))
      BY Zenon, <2>1, <2>6, FS_Subset
    <2> QED
      BY SMT, <1>3, <2>5, <2>7
  <1> HIDE DEF f, B
  <1>6. \A m, n \in M : f[m] = f[n] => m = n
    <2>1. ASSUME NEW m \in M, NEW n \in M, f[m] = f[n]
          PROVE  m.creation_timestamp = n.creation_timestamp
      BY SMT, <1>2, <1>4, <1>5, <2>1
    <2> QED
      BY Zenon, <1>2, <2>1
  <1>7. f \in Injection(M, 1 .. N)
    <2>1. f \in [M -> 1 .. N]
      BY Zenon, <1>4 DEF f
    <2> QED
      BY Zenon, <1>6, <2>1 DEF Injection, IsInjective
  <1>8. f \in Surjection(M, 1 .. N)
    <2>1. IsFiniteSet(1 .. N) /\ Cardinality(1 .. N) = N
      BY <1>1, FS_Interval
    <2> QED
      BY Zenon, <1>7, <2>1, FS_Injection
  <1>9. \A i \in 1 .. N : s[i] \in M /\ f[s[i]] = i
    BY Zenon, <1>8 DEF Surjection
  <1>10. s \in [1 .. N -> M]
    BY Zenon, <1>9
  <1> HIDE DEF s
  <1>11. s \in Injection(1 .. N, M)
    <2>1. \A i, j \in 1 .. N : s[i] = s[j] => i = j
      BY Zenon, <1>9
    <2> QED
      BY Zenon, <1>10, <2>1 DEF Injection, IsInjective
  <1>12. s \in Surjection(1 .. N, M)
    <2>1. \A m \in M : f[m] \in 1 .. N /\ s[f[m]] = m
      BY Zenon, <1>4, <1>6, <1>9
    <2> QED
      BY Zenon, <1>10, <2>1 DEF Surjection
  <1>13. ASSUME NEW i \in 1 .. N, NEW j \in 1 .. N, i < j
         PROVE  s[i].creation_timestamp <= s[j].creation_timestamp
    <2>1. ~(s[j].creation_timestamp < s[i].creation_timestamp)
      <3>1. ~(j < i)
        BY SMT, <1>1, <1>13
      <3> QED
        BY Zenon, <1>5, <1>9, <3>1
    <2> QED
      BY SMT, <1>2, <1>9, <2>1
  <1>14. s \in Sorted(r)
    BY Zenon, <1>10, <1>11, <1>12, <1>13 DEF Sorted, Orders, Bijection
  <1> QED
    BY Zenon, <1>14

LEMMA OneChecksum ==
    ASSUME NEW r, CreatedApart(r)
    PROVE  \E c \in Checksums(r) : Checksums(r) = {c}
  <1>1. CASE r = Nothing
    BY Zenon, <1>1 DEF Checksums
  <1>2. CASE r # Nothing
    <2>1. PICK s \in Sorted(r) : TRUE
      BY Zenon, OrderExists
    <2>2. Sorted(r) = {s}
      <3>1. ASSUME NEW t \in Sorted(r) PROVE t = s
        BY Zenon, OneOrder
      <3> QED
        BY Zenon, <3>1
    <2>3. Checksums(r) = {<<s>>}
      BY Zenon, <1>2, <2>2 DEF Checksums
    <2> QED
      BY Zenon, <2>3
  <1> QED
    BY Zenon, <1>1, <1>2

\* Two resources that were created at once may stand in either order.
LEMMA TiesSwap ==
    ASSUME NEW r, NEW s \in Sorted(r), ~CreatedApart(r)
    PROVE  \E t \in Sorted(r) : t # s
  <1> DEFINE N == Cardinality(Metas(r))
             T(i) == s[i].creation_timestamp
  <1>1. PICK j \in Present(r), k \in Present(r) : Created[j] = Created[k] /\ j # k
    BY Zenon DEF CreatedApart
  <1>2. Hashed(j, r[j]) \in Metas(r) /\ Hashed(k, r[k]) \in Metas(r)
    BY Zenon DEF Metas
  <1>3. PICK p \in 1 .. N, q \in 1 .. N :
           s[p] = Hashed(j, r[j]) /\ s[q] = Hashed(k, r[k])
    <2>1. \A m \in Metas(r) : \E i \in 1 .. N : s[i] = m
      BY Zenon, SortedOnto
    <2> QED
      BY Zenon, <1>2, <2>1
  <1>4. s[p] # s[q] /\ T(p) = T(q)
    <2>1. Hashed(j, r[j]) # Hashed(k, r[k])
      BY SMT, <1>1, HashedFields
    <2>2. T(p) = Created[j] /\ T(q) = Created[k]
      BY SMT, <1>3, HashedFields
    <2> QED
      BY Zenon, <1>1, <1>3, <2>1, <2>2
  <1> DEFINE t == [i \in 1 .. N |-> IF i = p THEN s[q]
                                    ELSE IF i = q THEN s[p] ELSE s[i]]
  <1>5. s \in [1 .. N -> Metas(r)]
    BY Zenon, SortedOnto
  <1>6. t \in [1 .. N -> Metas(r)]
    BY Zenon, <1>3, <1>5
  <1>7. \A i, h \in 1 .. N : t[i] = t[h] => i = h
    <2>1. \A i, h \in 1 .. N : s[i] = s[h] => i = h
      BY Zenon, SortedOnto
    <2> QED
      BY Zenon, <1>3, <2>1
  <1>8. \A m \in Metas(r) : \E i \in 1 .. N : t[i] = m
    <2>1. \A m \in Metas(r) : \E i \in 1 .. N : s[i] = m
      BY Zenon, SortedOnto
    <2>2. t[p] = s[q] /\ t[q] = s[p]
      BY Zenon, <1>3, <1>4
    <2>3. \A i \in 1 .. N : i # p /\ i # q => t[i] = s[i]
      BY Zenon
    <2> QED
      BY Zenon, <1>3, <2>1, <2>2, <2>3
  <1>9. \A i \in 1 .. N : t[i].creation_timestamp = T(i)
    BY Zenon, <1>3, <1>4
  <1>10. \A i, h \in 1 .. N :
            i < h => t[i].creation_timestamp <= t[h].creation_timestamp
    BY Zenon, <1>9, SortedOnto
  <1>11. t \in Sorted(r) /\ t[p] # s[p]
    <2> HIDE DEF t
    <2>1. t \in Orders(r)
      BY Zenon, <1>6, <1>7, <1>8
         DEF Orders, Bijection, Injection, Surjection, IsInjective
    <2>2. t[p] = s[q]
      BY Zenon, <1>3 DEF t
    <2> QED
      BY Zenon, <1>4, <1>6, <1>10, <2>1, <2>2 DEF Sorted
  <1> QED
    BY Zenon, <1>11

LEMMA ChecksumsOfTies ==
    ASSUME NEW r, NEW c \in Checksums(r), Checksums(r) = {c}
    PROVE  CreatedApart(r)
  <1> SUFFICES ASSUME ~CreatedApart(r) PROVE FALSE
    OBVIOUS
  <1>1. r # Nothing
    <2> SUFFICES ASSUME r = Nothing PROVE FALSE
      OBVIOUS
    <2>1. PICK j \in Present(r) : TRUE
      BY Zenon DEF CreatedApart
    <2> QED
      BY Zenon, <2>1 DEF Present, Nothing
  <1>2. PICK s \in Sorted(r) : c = <<s>>
    BY Zenon, <1>1 DEF Checksums
  <1>3. PICK t \in Sorted(r) : t # s
    BY SMT, TiesSwap
  <1>4. <<t>> \in Checksums(r)
    BY Zenon, <1>1 DEF Checksums
  <1>5. <<t>> # <<s>>
    BY SMT, <1>3
  <1> QED
    BY Zenon, <1>2, <1>4, <1>5

LEMMA ExactTells == TypeOK /\ DiagnosticsExact => ChecksumTells
  <1> SUFFICES ASSUME TypeOK, DiagnosticsExact, phase = "watching"
               PROVE  ChecksumTells
    BY Zenon DEF ChecksumTells
  <1>1. known = view
    BY Zenon DEF DiagnosticsExact
  <1>2. PICK r \in Resources : r = view
    BY Zenon DEF TypeOK
  <1>3. CreatedApart(r) <=> \E c \in Checksums(r) : Checksums(r) = {c}
    BY Zenon, OneChecksum, ChecksumsOfTies
  <1>4. ASSUME NEW k \in Key, NEW v \in Version \cup {None}, v # r[k]
        PROVE  Checksums(r) \cap Checksums([r EXCEPT ![k] = v]) = {}
    <2>1. [r EXCEPT ![k] = v] \in Resources /\ [r EXCEPT ![k] = v][k] = v
      BY Zenon DEF Resources
    <2>2. [r EXCEPT ![k] = v] # r
      BY Zenon, <1>4, <2>1
    <2> QED
      BY Zenon, <2>1, <2>2, ChecksumsDisjoint
  <1> QED
    BY Zenon, <1>1, <1>2, <1>3, <1>4 DEF ChecksumTells

\* WatchState::summary: once a list has completed, the instances that are up to
\* date agree on a checksum if and only if no two resources were created at once
\* (the sort is by creation timestamp alone), and one that is behind by an event
\* differs from them in any case (watch.rs:183-191, 208-221).
THEOREM ChecksumsTell == Spec => []ChecksumTells
  BY TypeCorrect, DiagnosticsCorrect, ExactTells, PTL
=============================================================================
