---------------------------- MODULE IndexProofs ----------------------------
(***************************************************************************)
(* Proofs about module ClusterIndex.                                       *)
(***************************************************************************)
EXTENDS ClusterIndex, TLAPS

LEMMA NothingType == Nothing \in Resources /\ Present(Nothing) = {}
  BY Zenon DEF Nothing, Resources, Present

\* A resource map is determined by its present keys and their values.
LEMMA SameResources ==
    ASSUME NEW r \in Resources, NEW s \in Resources, \A k \in Key : r[k] = s[k]
    PROVE  r = s
  BY DEF Resources

LEMMA PutPresent ==
    ASSUME NEW r \in Resources, NEW k \in Key, NEW v \in Version \cup {None}
    PROVE  /\ [r EXCEPT ![k] = v] \in Resources
           /\ v # None => Present([r EXCEPT ![k] = v]) = Present(r) \cup {k}
           /\ v = None => Present([r EXCEPT ![k] = v]) = Present(r) \ {k}
  BY Zenon DEF Resources, Present

LEMMA ResetType ==
    ASSUME NEW i \in Resources, NEW a \in Resources, NEW d
    PROVE  Reset(i, a, d) \in Resources
  BY Zenon DEF Reset, Resources

LEMMA TypeInit == Init => TypeOK
  BY Zenon, NothingType DEF Init, WatchInit, TypeOK

LEMMA TypeStep == TypeOK /\ [Next]_vars => TypeOK'
  <1> SUFFICES ASSUME TypeOK, [Next]_vars PROVE TypeOK'
    BY Zenon
  <1>1. ASSUME NEW k \in Key, NEW v \in Version, Apply(k, v) PROVE TypeOK'
    BY Zenon, <1>1, PutPresent DEF TypeOK, Apply, WatchEvent, InspectEvent
  <1>2. ASSUME NEW k \in Key, Delete(k) PROVE TypeOK'
    BY Zenon, <1>2, PutPresent DEF TypeOK, Delete, WatchEvent, InspectEvent
  <1>3. ASSUME NEW k \in Key, InitApply(k) PROVE TypeOK'
    <2>1. list[k] \in Version \cup {None}
      BY Zenon DEF TypeOK, Resources
    <2> QED
      BY Zenon, <1>3, <2>1, PutPresent
         DEF TypeOK, InitApply, InitApplyEvent, InspectInitApply
  <1>4. CASE InitStart
    BY Zenon, <1>4, NothingType
       DEF TypeOK, InitStart, InitEvent, InspectInit, Present
  <1>5. CASE InitDone
    BY Zenon, <1>5, NothingType, ResetType
       DEF TypeOK, InitDone, InitDoneEvent, InspectInitDone
  <1>6. CASE Error
    BY Zenon, <1>6, NothingType DEF TypeOK, Error, ErrorEvent, indexVars
  <1>7. CASE UNCHANGED vars
    BY Zenon, <1>7 DEF TypeOK, vars, watchVars, indexVars
  <1> QED
    BY Zenon, <1>1, <1>2, <1>3, <1>4, <1>5, <1>6, <1>7 DEF Next

\* The index, the watch and the diagnostics keep their types.
THEOREM TypeCorrect == Spec => []TypeOK
  BY TypeInit, TypeStep, PTL DEF Spec

-----------------------------------------------------------------------------
(* Lists that may fail *)

LEMMA FollowsInit == Init => Follows
  BY Zenon DEF Init, WatchInit, Follows

LEMMA WatchFollows ==
    ASSUME TypeOK, Follows, NEW k \in Key, NEW v \in Version \cup {None},
           WatchEvent(k, v), index' = [index EXCEPT ![k] = v],
           keys' = IF v = None THEN keys \ {k} ELSE keys \cup {k},
           UNCHANGED <<added, removed>>
    PROVE  Follows'
  <1>1. /\ phase = "watching" /\ phase' = "watching"
        /\ view' = [view EXCEPT ![k] = v] /\ known' = [known EXCEPT ![k] = v]
    BY Zenon DEF WatchEvent, InspectEvent
  <1>2. /\ known = view /\ keys = Present(view)
        /\ added = Nothing /\ removed = {} /\ LiveIndexed
    BY Zenon, <1>1 DEF Follows
  <1>3. known' = view' /\ keys' = Present(view')
    <2>1. /\ v # None => Present(view') = Present(view) \cup {k}
          /\ v = None => Present(view') = Present(view) \ {k}
      BY Zenon, <1>1, PutPresent DEF TypeOK
    <2> QED
      BY Zenon, <1>1, <1>2, <2>1
  <1>4. ASSUME NEW j \in Present(view') PROVE index'[j] = view'[j]
    <2>1. j \in Key
      BY Zenon DEF Present
    <2>2. CASE j = k
      BY Zenon, <1>1, <2>1, <2>2 DEF TypeOK, Resources
    <2>3. CASE j # k
      BY Zenon, <1>1, <1>2, <2>1, <2>3
         DEF TypeOK, Resources, LiveIndexed, Present
    <2> QED
      BY Zenon, <2>2, <2>3
  <1> QED
    BY Zenon, <1>1, <1>2, <1>3, <1>4
       DEF Follows, LiveIndexed, Present, Nothing

LEMMA InitApplyFollows ==
    ASSUME TypeOK, Follows, NEW k \in Key, InitApply(k)
    PROVE  Follows'
  <1>1. /\ phase = "listing" /\ phase' = "listing" /\ k \in todo
        /\ todo' = todo \ {k} /\ list' = list
        /\ resetting' = [resetting EXCEPT ![k] = list[k]]
        /\ added' = [added EXCEPT ![k] = list[k]]
        /\ removed' = removed \ {k} /\ keys' = keys \cup {k}
    BY Zenon DEF InitApply, InitApplyEvent, InspectInitApply
  <1>2. /\ todo \subseteq Present(list) /\ keys = Sent /\ removed \cap Sent = {}
        /\ \A j \in Key : resetting[j] = IF j \in Sent THEN list[j] ELSE None
        /\ \A j \in Sent : added[j] = list[j]
    BY Zenon, <1>1 DEF Follows
  <1>3. Sent' = Sent \cup {k} /\ Present(list)' = Present(list)
    BY Zenon, <1>1, <1>2 DEF Sent, Present
  <1>4. \A j \in Key : resetting'[j] = IF j \in Sent' THEN list'[j] ELSE None
    BY Zenon, <1>1, <1>2, <1>3 DEF TypeOK, Resources
  <1>5. \A j \in Sent' : added'[j] = list'[j]
    <2>1. Sent \subseteq Key
      BY Zenon DEF Sent, Present
    <2> QED
      BY Zenon, <1>1, <1>2, <1>3, <2>1 DEF TypeOK, Resources
  <1>6. todo' \subseteq Present(list)' /\ keys' = Sent' /\ removed' \cap Sent' = {}
    BY Zenon, <1>1, <1>2, <1>3
  <1> QED
    BY Zenon, <1>1, <1>4, <1>5, <1>6 DEF Follows

LEMMA InitDoneFollows ==
    ASSUME TypeOK, Follows, InitDone
    PROVE  Follows'
  <1>1. /\ phase = "listing" /\ phase' = "watching" /\ todo = {}
        /\ view' = list /\ known' = resetting /\ keys' = keys
        /\ index' = Reset(index, added, removed)
        /\ added' = Nothing /\ removed' = {}
    BY Zenon DEF InitDone, InitDoneEvent, InspectInitDone
  <1>2. Sent = Present(list)
    BY Zenon, <1>1 DEF Sent
  <1>3. /\ keys = Present(list) /\ removed \cap Present(list) = {}
        /\ \A k \in Key : resetting[k] = IF k \in Present(list) THEN list[k] ELSE None
        /\ \A k \in Present(list) : added[k] = list[k]
    BY Zenon, <1>1, <1>2 DEF Follows
  <1>4. resetting = list
    <2>1. \A k \in Key : resetting[k] = list[k]
      BY Zenon, <1>3 DEF Present
    <2> QED
      BY Zenon, <2>1, SameResources DEF TypeOK
  <1>5. \A k \in Present(list) : index'[k] = list[k]
    BY Zenon, <1>1, <1>3 DEF Reset, Present
  <1> QED
    BY Zenon, <1>1, <1>3, <1>4, <1>5
       DEF Follows, LiveIndexed, Present, Nothing

LEMMA FollowsStep == TypeOK /\ Follows /\ [Next]_vars => Follows'
  <1> SUFFICES ASSUME TypeOK, Follows, [Next]_vars PROVE Follows'
    BY Zenon
  <1>1. ASSUME NEW k \in Key, NEW v \in Version, Apply(k, v) PROVE Follows'
    BY Zenon, <1>1, WatchFollows DEF Apply
  <1>2. ASSUME NEW k \in Key, Delete(k) PROVE Follows'
    BY Zenon, <1>2, WatchFollows DEF Delete
  <1>3. ASSUME NEW k \in Key, InitApply(k) PROVE Follows'
    BY Zenon, <1>3, InitApplyFollows
  <1>4. CASE InitStart
    <2>1. /\ phase' = "listing" /\ todo' = Present(list') /\ keys' = {}
          /\ resetting' = Nothing
      BY Zenon, <1>4 DEF InitStart, InitEvent, InspectInit
    <2>2. Sent' = {}
      BY Zenon, <2>1 DEF Sent, Present
    <2> QED
      BY Zenon, <2>1, <2>2 DEF Follows, Nothing, Present
  <1>5. CASE InitDone
    BY Zenon, <1>5, InitDoneFollows
  <1>6. CASE Error
    BY Zenon, <1>6 DEF Error, ErrorEvent, Follows
  <1>7. CASE UNCHANGED vars
    BY Zenon, <1>7
       DEF vars, watchVars, indexVars, Follows, LiveIndexed, Sent, Present
  <1> QED
    BY Zenon, <1>1, <1>2, <1>3, <1>4, <1>5, <1>6, <1>7 DEF Next

LEMMA FollowsAlways == Spec => []Follows
  BY TypeCorrect, FollowsInit, FollowsStep, PTL DEF Spec

\* No resource that exists is lost from the index or out of date in it, for
\* any number of resources and of lists that failed.
THEOREM NothingLost == Spec => []LiveIndexed
  <1>1. Follows => LiveIndexed
    BY Zenon DEF Follows, LiveIndexed
  <1> QED
    BY <1>1, FollowsAlways, PTL

\* The watch diagnostics are exact after every list, failed ones included.
THEOREM DiagnosticsCorrect == Spec => []DiagnosticsExact
  <1>1. Follows => DiagnosticsExact
    BY Zenon DEF Follows, DiagnosticsExact
  <1> QED
    BY <1>1, FollowsAlways, PTL

-----------------------------------------------------------------------------
(* Lists that never fail *)

LEMMA AccountedInit == Init => Accounted
  BY Zenon, NothingType DEF Init, WatchInit, Accounted

LEMMA AccountedStep ==
    ASSUME ~Aborts
    PROVE  TypeOK /\ Follows /\ Accounted /\ [Next]_vars => Accounted'
  <1> SUFFICES ASSUME TypeOK, Follows, Accounted, [Next]_vars PROVE Accounted'
    BY Zenon
  <1>1. ASSUME NEW k \in Key, NEW v \in Version, Apply(k, v) PROVE Accounted'
    BY Zenon, <1>1 DEF Apply, WatchEvent, InspectEvent, Accounted
  <1>2. ASSUME NEW k \in Key, Delete(k) PROVE Accounted'
    BY Zenon, <1>2 DEF Delete, WatchEvent, InspectEvent, Accounted
  <1>3. ASSUME NEW k \in Key, InitApply(k) PROVE Accounted'
    <2>1. /\ phase = "listing" /\ phase' = "listing" /\ k \in todo
          /\ todo' = todo \ {k} /\ list' = list /\ index' = index
          /\ added' = [added EXCEPT ![k] = list[k]]
          /\ removed' = removed \ {k}
      BY Zenon, <1>3 DEF InitApply, InitApplyEvent
    <2>2. todo \subseteq Present(list)
      BY Zenon, <2>1 DEF Follows
    <2>3. /\ Sent' = Sent \cup {k} /\ Present(index)' = Present(index)
          /\ list[k] \in Version \cup {None} /\ list[k] # None
      BY Zenon, <2>1, <2>2 DEF Sent, Present, TypeOK, Resources
    <2>4. Present(added)' = Present(added) \cup {k}
      BY ZenonT(30), <2>1, <2>3, PutPresent DEF TypeOK
    <2> QED
      BY Zenon, <2>1, <2>3, <2>4 DEF Accounted
  <1>4. CASE InitStart
    <2>1. /\ phase = "empty" /\ phase' = "listing" /\ todo' = Present(list')
          /\ removed' = keys /\ added' = added /\ index' = index
      BY Zenon, <1>4 DEF InitStart, InitEvent
    <2>2. Sent' = {} /\ Present(index)' = Present(index)
      BY Zenon, <2>1 DEF Sent, Present
    <2>3. Present(added)' = {}
      BY Zenon, <2>1, NothingType DEF Accounted, Present
    <2> QED
      BY Zenon, <2>1, <2>2, <2>3 DEF Accounted
  <1>5. CASE InitDone
    <2>1. /\ phase = "listing" /\ phase' = "watching" /\ todo = {}
          /\ view' = list /\ index' = Reset(index, added, removed)
      BY Zenon, <1>5 DEF InitDone, InitDoneEvent
    <2>2. Sent = Present(list)
      BY Zenon, <2>1 DEF Sent
    <2>3. /\ Present(added) = Present(list)
          /\ Present(index) \ Present(list) \subseteq removed
          /\ removed \cap Present(list) = {}
          /\ \A k \in Present(list) : added[k] = list[k]
      BY Zenon, <2>1, <2>2 DEF Accounted, Follows
    <2>4. \A k \in Key : Reset(index, added, removed)[k] = list[k]
      BY Zenon, <2>3 DEF Reset, Present
    <2>5. Reset(index, added, removed) = list
      BY Zenon, <2>4, ResetType, SameResources DEF TypeOK
    <2> QED
      BY Zenon, <2>1, <2>5 DEF Accounted
  <1>6. CASE Error
    BY Zenon, <1>6
       DEF Error, ErrorEvent, indexVars, Accounted, Follows, Present
  <1>7. CASE UNCHANGED vars
    BY Zenon, <1>7 DEF vars, watchVars, indexVars, Accounted, Sent, Present
  <1> QED
    BY Zenon, <1>1, <1>2, <1>3, <1>4, <1>5, <1>6, <1>7 DEF Next

\* As long as no list is cut short, every reset leaves the index with exactly
\* the resources that exist.
THEOREM ResetsAreExact ==
    ASSUME ~Aborts
    PROVE  Spec => []Exact
  <1>1. TypeOK /\ Follows /\ Accounted /\ [Next]_vars => Accounted'
    BY Zenon, AccountedStep
  <1>2. Accounted => Exact
    BY Zenon DEF Accounted, Exact
  <1> QED
    BY <1>1, <1>2, AccountedInit, TypeCorrect, FollowsAlways, PTL DEF Spec
=============================================================================
