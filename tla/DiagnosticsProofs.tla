-------------------------- MODULE DiagnosticsProofs --------------------------
(***************************************************************************)
(* Summaries are consistent, complete and without repetition, for any      *)
(* numbers of clients, watches, leases, threads and events: the locks of   *)
(* the states and of the lists are enough.                                 *)
(***************************************************************************)
EXTENDS Admin, FiniteSetTheorems, TLAPS

Fields == {"at", "list", "todo", "summary", "before", "dropped"}
Entries == [source : Source, contents : Nat, stats : Nat]

\* The shape of a call of the handler, as far as it matters.
Shape(h) == DOMAIN h = Fields /\ h.summary \in Seq(Entries)

StatesOK ==
    /\ owned \subseteq Source
    /\ contents \in [Source -> Nat]
    /\ stats \in [Source -> Nat]
    /\ DOMAIN handler = Client
    /\ \A c \in Client : Shape(handler[c])

\* Contents and statistics differ only under the write lock.
Settled == \A i \in Source : i \notin writing => contents[i] = stats[i]

Consistent == StatesOK /\ Settled /\ Untorn

-----------------------------------------------------------------------------

\* What a step leaves of the summaries: all, or all but those it gives up.
Keeps ==
    /\ DOMAIN handler' = Client
    /\ \A c \in Client :
          /\ Shape(handler'[c])
          /\ handler'[c].summary \in {handler[c].summary, <<>>}

\* A step that adds nothing to a summary leaves entries as they were.
LEMMA KeepsUntorn ==
    ASSUME Untorn, Keeps
    PROVE  Untorn'
  BY DEF Untorn, Keeps

LEMMA IdleShape == Shape(Idle) /\ Shape(Called) /\ Idle.summary = <<>> /\ Called.summary = <<>>
  BY DEF Shape, Idle, Called, Fields

LEMMA RetainKeeps ==
    ASSUME StatesOK, NEW c \in Client, Retain(c)
    PROVE  Keeps
  BY DEF StatesOK, Retain, Keeps, Shape, Fields

LEMMA UnlockKeeps ==
    ASSUME StatesOK, NEW c \in Client, Unlock(c)
    PROVE  Keeps
  BY DEF StatesOK, Unlock, Keeps, Shape, Fields

LEMMA ReleaseKeeps ==
    ASSUME StatesOK, NEW i, Release(i)
    PROVE  Keeps
  BY DEF StatesOK, Release, Keeps, Shape, Fields

\* A call begins, or is over.
LEMMA CallKeeps ==
    ASSUME StatesOK, NEW c \in Client, NEW h, h \in {Idle, Called},
           handler' = [handler EXCEPT ![c] = h]
    PROVE  Keeps
  BY IdleShape DEF StatesOK, Keeps

\* Only Visit adds an entry, of a state that no one writes to.
LEMMA VisitUntorn ==
    ASSUME Consistent, NEW c \in Client, Visit(c)
    PROVE  /\ DOMAIN handler' = Client
           /\ \A d \in Client : Shape(handler'[d])
           /\ Untorn'
  <1> DEFINE i == Head(handler[c].todo)
             old == handler[c].summary
             new == IF i \in owned THEN Append(old, Entry(i)) ELSE old
  <1>1. /\ DOMAIN handler' = Client
        /\ DOMAIN handler'[c] = Fields
        /\ handler'[c].summary = new
        /\ \A d \in Client : d # c => handler'[d] = handler[d]
    BY DEF Consistent, StatesOK, Shape, Visit, Fields
  <1>2. old \in Seq(Entries)
    BY DEF Consistent, StatesOK, Shape
  <1>3. ASSUME i \in owned
        PROVE  Entry(i) \in Entries /\ Entry(i).contents = Entry(i).stats
    BY <1>3 DEF Consistent, StatesOK, Settled, Visit, Entry, Entries
  <1>4. new \in Seq(Entries)
    BY <1>2, <1>3
  <1>5. \A j \in DOMAIN new : new[j].contents = new[j].stats
    <2>1. \A j \in DOMAIN old : old[j].contents = old[j].stats
      BY DEF Consistent, Untorn
    <2> QED
      BY <1>2, <1>3, <2>1
  <1> HIDE DEF new
  <1>6. \A d \in Client : Shape(handler'[d])
    BY ZenonT(30), <1>1, <1>4 DEF Consistent, StatesOK, Shape
  <1>7. ASSUME NEW d \in Client, NEW j \in DOMAIN handler'[d].summary
        PROVE  handler'[d].summary[j].contents = handler'[d].summary[j].stats
    <2>1. CASE d = c
      BY Zenon, <1>1, <1>5, <1>7, <2>1
    <2>2. CASE d # c
      <3>1. handler'[d].summary = handler[d].summary
        BY Zenon, <1>1, <2>2
      <3>2. j \in DOMAIN handler[d].summary
        BY Zenon, <1>7, <3>1
      <3>3. handler[d].summary[j].contents = handler[d].summary[j].stats
        BY Zenon, <3>2 DEF Consistent, Untorn
      <3> QED
        BY Zenon, <3>1, <3>3
    <2> QED
      BY <2>1, <2>2
  <1> QED
    BY Zenon, <1>1, <1>6, <1>7 DEF Untorn

LEMMA ConsistentInit == Init => Consistent
  BY IdleShape
     DEF Init, DiagnosticsInit, Consistent, StatesOK, Settled, Untorn

\* Owners: they register, inspect under the write lock, and are dropped.
LEMMA SourcesStep ==
    ASSUME Consistent, Sources
    PROVE  Consistent'
  <1> SUFFICES ASSUME NEW i \in Source,
                      Register(i) \/ Inspect(i) \/ InspectDone(i) \/ Release(i)
               PROVE  Consistent'
    BY DEF Sources
  <1>1. CASE Register(i)
    BY <1>1 DEF Consistent, StatesOK, Settled, Untorn, Register, stateVars
  <1>2. CASE Inspect(i)
    BY <1>2 DEF Consistent, StatesOK, Settled, Untorn, Inspect
  <1>3. CASE InspectDone(i)
    BY <1>3 DEF Consistent, StatesOK, Settled, Untorn, InspectDone
  <1>4. CASE Release(i)
    <2>1. Keeps
      BY <1>4, ReleaseKeeps DEF Consistent
    <2>2. Untorn'
      BY <2>1, KeepsUntorn DEF Consistent
    <2>3. owned' \subseteq Source /\ contents' \in [Source -> Nat]
            /\ stats' \in [Source -> Nat] /\ Settled'
      BY <1>4 DEF Consistent, StatesOK, Settled, Release
    <2> QED
      BY <2>1, <2>2, <2>3 DEF Consistent, StatesOK, Keeps
  <1> QED
    BY <1>1, <1>2, <1>3, <1>4

\* The handler changes nothing but its own call, and the lists.
LEMMA HandlerStep ==
    ASSUME Consistent, UNCHANGED <<owned, stateVars>>,
           \/ Keeps
           \/ UNCHANGED handler
           \/ \E c \in Client : Visit(c)
    PROVE  Consistent'
  <1>1. /\ owned' \subseteq Source
        /\ contents' \in [Source -> Nat]
        /\ stats' \in [Source -> Nat]
        /\ Settled'
    BY DEF Consistent, StatesOK, Settled, stateVars
  <1>2. CASE Keeps
    BY <1>1, <1>2, KeepsUntorn DEF Consistent, StatesOK, Keeps
  <1>3. CASE UNCHANGED handler
    BY <1>1, <1>3 DEF Consistent, StatesOK, Untorn
  <1>4. CASE \E c \in Client : Visit(c)
    BY <1>1, <1>4, VisitUntorn DEF Consistent, StatesOK
  <1> QED
    BY <1>2, <1>3, <1>4

LEMMA ConsistentStep == Consistent /\ [Next]_vars => Consistent'
  <1> SUFFICES ASSUME Consistent, [Next]_vars
               PROVE  Consistent'
    BY Zenon
  <1> USE DEF diagnosticsVars
  <1>1. CASE Sources
    BY <1>1, SourcesStep
  <1>2. ASSUME NEW c \in Client, NEW q, Connect(c, q)
        PROVE  Consistent'
    BY <1>2, HandlerStep DEF Connect
  <1>3. ASSUME NEW c \in Client, Accept(c) \/ StartRoute(c) \/ EndRoute(c)
        PROVE  Consistent'
    BY <1>3, HandlerStep DEF Accept, StartRoute, EndRoute
  <1>4. ASSUME NEW c \in Client, AtOnce(c) \/ Refuse(c) \/ Route(c)
        PROVE  Consistent'
    BY <1>4, HandlerStep DEF AtOnce, Refuse, Route
  <1>5. ASSUME NEW c \in Client, Diagnose(c)
        PROVE  Consistent'
    BY ZenonT(30), <1>5, HandlerStep, CallKeeps DEF Diagnose, Consistent
  <1>6. ASSUME NEW c \in Client, Respond(c)
        PROVE  Consistent'
    BY ZenonT(30), <1>6, HandlerStep, CallKeeps DEF Respond, Consistent
  <1>7. ASSUME NEW c \in Client, Reading(c)
        PROVE  Consistent'
    <2>1. CASE Retain(c)
      BY ZenonT(30), <2>1, HandlerStep, RetainKeeps DEF Retain, Consistent
    <2>2. CASE Visit(c)
      BY ZenonT(30), <2>2, HandlerStep DEF Visit
    <2>3. CASE Unlock(c)
      BY ZenonT(30), <2>3, HandlerStep, UnlockKeeps DEF Unlock, Consistent
    <2> QED
      BY <1>7, <2>1, <2>2, <2>3 DEF Reading
  <1>8. CASE UNCHANGED vars
    BY <1>8, HandlerStep DEF vars
  <1> QED
    BY <1>1, <1>2, <1>3, <1>4, <1>5, <1>6, <1>7, <1>8
       DEF Next, Serve, Handle

\* No entry of a summary shows a state in the middle of inspect: readers take
\* the lock of each state, though not one lock for all (watch.rs:146,
\* diagnostics.rs:113).
THEOREM SummariesUntorn == Spec => []Untorn
  <1>1. Consistent => Untorn
    BY DEF Consistent
  <1> QED
    BY <1>1, ConsistentInit, ConsistentStep, PTL DEF Spec

-----------------------------------------------------------------------------
(* Lists *)

\* A finite set of numbers can be listed in its order: by rank.
LEMMA Enumeration ==
    ASSUME NEW K \in SUBSET Nat, IsFiniteSet(K)
    PROVE  \E f \in Bijection(1 .. Cardinality(K), K) :
              \A m, n \in DOMAIN f : m < n => f[m] < f[n]
  <1> DEFINE N == Cardinality(K)
             B(j) == {k \in K : k <= j}
             r == [j \in K |-> Cardinality(B(j))]
             f == [n \in 1 .. N |-> CHOOSE j \in K : r[j] = n]
  <1>1. N \in Nat
    BY Zenon, FS_CardinalityType
  <1>2. ASSUME NEW j \in K
        PROVE  /\ IsFiniteSet(B(j)) /\ Cardinality(B(j)) \in Nat
               /\ Cardinality(B(j)) <= N /\ B(j) # {}
    <2>1. B(j) \subseteq K
      OBVIOUS
    <2>2. IsFiniteSet(B(j)) /\ Cardinality(B(j)) <= N
      BY Zenon, <2>1, FS_Subset
    <2>3. j <= j
      BY SMT
    <2> QED
      BY Zenon, <2>2, <2>3, FS_CardinalityType
  <1>3. ASSUME NEW j \in K PROVE r[j] \in 1 .. N
    <2>1. Cardinality(B(j)) # 0
      BY Zenon, <1>2, FS_EmptySet
    <2>2. r[j] = Cardinality(B(j))
      OBVIOUS
    <2> HIDE DEF r, B, N
    <2> QED
      BY SMT, <1>1, <1>2, <2>1, <2>2
  <1>4. ASSUME NEW j \in K, NEW k \in K, j < k
        PROVE  r[j] < r[k]
    <2>1. B(j) \subseteq B(k)
      <3>1. ASSUME NEW i \in K, i <= j PROVE i <= k
        <4>1. i \in Nat /\ j \in Nat /\ k \in Nat
          OBVIOUS
        <4> QED
          BY SMT, <1>4, <3>1, <4>1
      <3> QED
        BY Zenon, <3>1
    <2>2. ~(k <= j) /\ k <= k
      <3>1. j \in Nat /\ k \in Nat
        OBVIOUS
      <3> QED
        BY SMT, <1>4, <3>1
    <2>3. k \in B(k) /\ k \notin B(j)
      BY Zenon, <2>2
    <2>4. r[j] = Cardinality(B(j)) /\ r[k] = Cardinality(B(k))
      OBVIOUS
    <2> HIDE DEF B, r
    <2>5. IsFiniteSet(B(k)) /\ B(j) # B(k)
      BY Zenon, <1>2, <2>3
    <2>6. Cardinality(B(j)) <= Cardinality(B(k)) /\ Cardinality(B(j)) # Cardinality(B(k))
      BY Zenon, <2>1, <2>5, FS_Subset
    <2> QED
      BY SMT, <1>2, <2>4, <2>6
  <1> HIDE DEF r, B
  <1>5. \A j, k \in K : r[j] = r[k] => j = k
    BY SMT, <1>3, <1>4
  <1>6. r \in Injection(K, 1 .. N)
    <2>1. r \in [K -> 1 .. N]
      BY Zenon, <1>3 DEF r
    <2> QED
      BY Zenon, <1>5, <2>1 DEF Injection, IsInjective
  <1>7. r \in Surjection(K, 1 .. N)
    <2>1. IsFiniteSet(1 .. N) /\ Cardinality(1 .. N) = N
      BY <1>1, FS_Interval
    <2> QED
      BY Zenon, <1>6, <2>1, FS_Injection
  <1>8. \A n \in 1 .. N : f[n] \in K /\ r[f[n]] = n
    BY Zenon, <1>7 DEF Surjection
  <1>9. f \in [1 .. N -> K]
    BY Zenon, <1>8
  <1> HIDE DEF f
  <1>10. f \in Injection(1 .. N, K)
    <2>1. \A m, n \in 1 .. N : f[m] = f[n] => m = n
      BY Zenon, <1>8
    <2> QED
      BY Zenon, <1>9, <2>1 DEF Injection, IsInjective
  <1>11. f \in Surjection(1 .. N, K)
    <2>1. \A j \in K : r[j] \in 1 .. N /\ f[r[j]] = j
      BY Zenon, <1>3, <1>5, <1>8
    <2> QED
      BY Zenon, <1>9, <2>1 DEF Surjection
  <1>12. ASSUME NEW m \in 1 .. N, NEW n \in 1 .. N, m < n
         PROVE  f[m] < f[n]
    <2>1. f[m] \in K /\ f[n] \in K /\ r[f[m]] = m /\ r[f[n]] = n
      BY Zenon, <1>8
    <2>2. m \in Nat /\ n \in Nat /\ ~(n < m) /\ n # m
      BY SMT, <1>1, <1>12
    <2>3. ~(f[n] < f[m]) /\ f[n] # f[m]
      BY Zenon, <1>4, <2>1, <2>2
    <2>4. f[m] \in Nat /\ f[n] \in Nat
      BY Zenon, <2>1
    <2> QED
      BY SMT, <2>3, <2>4
  <1>13. f \in Bijection(1 .. N, K) /\ DOMAIN f = 1 .. N
    BY Zenon, <1>9, <1>10, <1>11 DEF Bijection
  <1> QED
    BY Zenon, <1>12, <1>13

LEMMA RetainedOf ==
    ASSUME NEW T, NEW s \in Seq(T), NEW S
    PROVE  /\ Retained(s, S) \in Seq(T)
           /\ Range(Retained(s, S)) = Range(s) \cap S
           /\ IsInjective(s) => IsInjective(Retained(s, S))
  <1> DEFINE K == {j \in DOMAIN s : s[j] \in S}
             N == Cardinality(K)
             Q(f) == \A m, n \in DOMAIN f : m < n => f[m] < f[n]
             f == CHOOSE g \in Bijection(1 .. N, K) : Q(g)
  <1>1. K \in SUBSET Nat /\ IsFiniteSet(K) /\ DOMAIN s = 1 .. Len(s) /\ Len(s) \in Nat
    <2>1. DOMAIN s = 1 .. Len(s) /\ Len(s) \in Nat
      OBVIOUS
    <2>2. IsFiniteSet(1 .. Len(s))
      BY <2>1, FS_Interval
    <2>3. K \subseteq 1 .. Len(s)
      BY Zenon, <2>1
    <2>4. IsFiniteSet(K)
      BY Zenon, <2>2, <2>3, FS_Subset
    <2> QED
      BY <2>1, <2>3, <2>4
  <1>2. N \in Nat
    BY Zenon, <1>1, FS_CardinalityType
  <1>3. f \in Bijection(1 .. N, K)
    <2>1. \E g \in Bijection(1 .. N, K) : Q(g)
      BY Zenon, <1>1, Enumeration
    <2> HIDE DEF K, Q
    <2> QED
      BY Zenon, <2>1
  <1>4. Retained(s, S) = [n \in DOMAIN f |-> s[f[n]]]
    BY Zenon DEF Retained
  <1> HIDE DEF f, N
  <1>5. /\ f \in [1 .. N -> K] /\ DOMAIN f = 1 .. N
        /\ \A m, n \in 1 .. N : f[m] = f[n] => m = n
        /\ \A j \in K : \E n \in 1 .. N : f[n] = j
    BY Zenon, <1>3 DEF Bijection, Injection, Surjection, IsInjective
  <1> DEFINE t == [n \in 1 .. N |-> s[f[n]]]
  <1>6. Retained(s, S) = t
    BY Zenon, <1>4, <1>5
  <1>7. \A n \in 1 .. N : f[n] \in DOMAIN s /\ s[f[n]] \in T /\ s[f[n]] \in S
    <2>1. \A j \in DOMAIN s : s[j] \in T
      OBVIOUS
    <2> QED
      BY Zenon, <1>5, <2>1
  <1>8. t \in Seq(T)
    BY SMT, <1>2, <1>7
  <1>9. Range(t) = Range(s) \cap S
    <2>1. Range(t) \subseteq Range(s) \cap S
      BY Zenon, <1>7 DEF Range
    <2>2. ASSUME NEW j \in DOMAIN s, s[j] \in S
          PROVE  s[j] \in Range(t)
      <3>1. PICK n \in 1 .. N : f[n] = j
        BY Zenon, <1>5, <2>2
      <3>2. n \in DOMAIN t /\ t[n] = s[j]
        BY Zenon, <3>1
      <3> QED
        BY Zenon, <3>2 DEF Range
    <2> QED
      BY ZenonT(30), <2>1, <2>2 DEF Range
  <1>10. IsInjective(s) => IsInjective(t)
    <2>1. ASSUME IsInjective(s), NEW m \in 1 .. N, NEW n \in 1 .. N, t[m] = t[n]
          PROVE  m = n
      <3>1. s[f[m]] = s[f[n]] /\ f[m] \in DOMAIN s /\ f[n] \in DOMAIN s
        BY Zenon, <1>7, <2>1
      <3>2. f[m] = f[n]
        BY Zenon, <2>1, <3>1 DEF IsInjective
      <3> QED
        BY Zenon, <1>5, <3>2
    <2> QED
      BY Zenon, <2>1 DEF IsInjective
  <1> QED
    BY Zenon, <1>6, <1>8, <1>9, <1>10

LEMMA EmptyList ==
    Range(<<>>) = {} /\ IsInjective(<<>>) /\ Names(<<>>) = <<>>
  BY DEF Range, IsInjective, Names

LEMMA AppendOf ==
    ASSUME NEW T, NEW s \in Seq(T), NEW x \in T
    PROVE  /\ Append(s, x) \in Seq(T)
           /\ Range(Append(s, x)) = Range(s) \cup {x}
           /\ IsInjective(s) /\ x \notin Range(s) => IsInjective(Append(s, x))
  <1> DEFINE t == Append(s, x)
  <1>1. /\ t \in Seq(T) /\ Len(t) = Len(s) + 1 /\ Len(s) \in Nat
        /\ DOMAIN s = 1 .. Len(s) /\ DOMAIN t = 1 .. Len(s) + 1
        /\ \A i \in 1 .. Len(s) : t[i] = s[i]
        /\ t[Len(s) + 1] = x
    OBVIOUS
  <1> HIDE DEF t
  <1>2. Range(t) = Range(s) \cup {x}
    BY SMT, <1>1 DEF Range
  <1>3. IsInjective(s) /\ x \notin Range(s) => IsInjective(t)
    BY SMT, <1>1 DEF Range, IsInjective
  <1> QED
    BY <1>1, <1>2, <1>3 DEF t

LEMMA TailOf ==
    ASSUME NEW T, NEW s \in Seq(T), s # <<>>
    PROVE  /\ Head(s) \in T /\ Tail(s) \in Seq(T)
           /\ Range(s) = Range(Tail(s)) \cup {Head(s)}
           /\ IsInjective(s) => /\ IsInjective(Tail(s))
                                /\ Head(s) \notin Range(Tail(s))
  <1> DEFINE t == Tail(s)
  <1>1. /\ t \in Seq(T) /\ Len(s) \in Nat /\ Len(s) >= 1
        /\ DOMAIN s = 1 .. Len(s) /\ DOMAIN t = 1 .. Len(s) - 1
        /\ \A i \in 1 .. Len(s) - 1 : t[i] = s[i + 1]
        /\ Head(s) = s[1] /\ Head(s) \in T
    OBVIOUS
  <1> HIDE DEF t
  <1>2. Range(s) = Range(t) \cup {Head(s)}
    <2>1. Range(t) \cup {Head(s)} \subseteq Range(s)
      BY SMTT(30), <1>1 DEF Range
    <2>2. ASSUME NEW i \in DOMAIN s PROVE s[i] \in Range(t) \cup {Head(s)}
      <3>1. CASE i = 1
        BY Zenon, <1>1, <3>1
      <3>2. CASE i # 1
        <4>1. i - 1 \in DOMAIN t /\ t[i - 1] = s[i]
          BY SMT, <1>1, <3>2
        <4> QED
          BY Zenon, <4>1 DEF Range
      <3> QED
        BY Zenon, <3>1, <3>2
    <2> QED
      BY Zenon, <2>1, <2>2 DEF Range
  <1>3. ASSUME IsInjective(s)
        PROVE  IsInjective(t) /\ Head(s) \notin Range(t)
    <2>1. \A i, j \in 1 .. Len(s) : s[i] = s[j] => i = j
      BY Zenon, <1>1, <1>3 DEF IsInjective
    <2>2. ASSUME NEW i \in 1 .. Len(s) - 1
          PROVE  t[i] = s[i + 1] /\ i + 1 \in 1 .. Len(s) /\ t[i] # Head(s)
      BY SMT, <1>1, <2>1
    <2>3. \A i, j \in 1 .. Len(s) - 1 : t[i] = t[j] => i = j
      BY SMT, <1>1, <2>1, <2>2
    <2> QED
      BY Zenon, <1>1, <2>2, <2>3 DEF Range, IsInjective
  <1> QED
    BY <1>1, <1>2, <1>3 DEF t

LEMMA NamesOf ==
    ASSUME NEW s \in Seq(Entries), NEW e \in Entries
    PROVE  Names(s) \in Seq(Source) /\ Names(Append(s, e)) = Append(Names(s), e.source)
  <1>1. Names(s) \in Seq(Source) /\ Len(Names(s)) = Len(s)
    <2>1. /\ DOMAIN s = 1 .. Len(s) /\ Len(s) \in Nat
          /\ \A i \in 1 .. Len(s) : s[i] \in Entries
      OBVIOUS
    <2>2. \A i \in 1 .. Len(s) : s[i].source \in Source
      BY Zenon, <2>1 DEF Entries
    <2>3. Names(s) = [i \in 1 .. Len(s) |-> s[i].source]
      BY Zenon, <2>1 DEF Names
    <2> QED
      BY SMT, <2>1, <2>2, <2>3
  <1> DEFINE t == Append(s, e)
             u == Append(Names(s), e.source)
  <1>2. /\ Len(s) \in Nat
        /\ DOMAIN t = 1 .. Len(s) + 1
        /\ \A i \in 1 .. Len(s) : t[i] = s[i]
        /\ t[Len(s) + 1] = e
    OBVIOUS
  <1>3. /\ DOMAIN u = 1 .. Len(s) + 1
        /\ \A i \in 1 .. Len(s) : u[i] = s[i].source
        /\ u[Len(s) + 1] = e.source
        /\ u = [i \in 1 .. Len(s) + 1 |-> u[i]]
    BY SMT, <1>1 DEF Names
  <1> HIDE DEF t, u
  <1>4. ASSUME NEW i \in 1 .. Len(s) + 1 PROVE u[i] = t[i].source
    <2>1. i \in 1 .. Len(s) \/ i = Len(s) + 1
      BY SMT, <1>2
    <2> QED
      BY Zenon, <1>2, <1>3, <2>1
  <1>5. Names(t) = u
    BY Zenon, <1>2, <1>3, <1>4 DEF Names
  <1> QED
    BY Zenon, <1>1, <1>5 DEF t, u

-----------------------------------------------------------------------------
(* What a call of the handler owes *)

\* The summary of h has gone through list l, or begun to.
Past(h, l) == IF l = h.list THEN h.at # "lock" ELSE l = "watches"

SummaryOf(h) == Range(Names(h.summary))

\* Where a call h of the handler is.
CallOK(h) ==
    /\ h.list \in Lists
    /\ h.at = "done" => h.list = "leases"
    /\ h.at # "read" => h.todo = <<>>
    /\ h.todo \in Seq(Source) /\ IsInjective(h.todo)
    /\ IsInjective(Names(h.summary))
    /\ \A i \in Range(h.todo) : List(i) = h.list /\ i \notin SummaryOf(h)
    /\ \A i \in SummaryOf(h) : Past(h, List(i))

\* What it owes, to what is there throughout and to what was gone before, when
\* `own' is owned, `new' is fresh and `in' is in the lists.
Owes(h, own, new, in) ==
    /\ h.before \subseteq own
    /\ h.dropped \cap (own \cup new) = {}
    /\ \A i \in h.before :
          Past(h, List(i)) => i \in SummaryOf(h) \cup Range(h.todo)
    /\ h.dropped \cap (SummaryOf(h) \cup Range(h.todo)) = {}
    /\ \A i \in h.dropped : Past(h, List(i)) => i \notin in

\* A step of an owner, or of another call.
LEMMA OwesStill ==
    ASSUME NEW h, NEW own, NEW new, NEW in, Owes(h, own, new, in),
           NEW own1, NEW new1, NEW in1,
           own \subseteq own1, own1 \cup new1 \subseteq own \cup new,
           in1 \subseteq in \cup new
    PROVE  Owes(h, own1, new1, in1)
  BY Zenon DEF Owes

LEMMA OwesLess ==
    ASSUME NEW h, NEW own, NEW new, NEW in, NEW i, Owes(h, own, new, in), CallOK(h),
           NEW g, g.at = h.at, g.list = h.list, g.todo = h.todo,
           g.summary = h.summary, g.before = h.before \ {i}, g.dropped = h.dropped
    PROVE  CallOK(g) /\ Owes(g, own \ {i}, new, in)
  <1>1. SummaryOf(g) = SummaryOf(h) /\ \A l : Past(g, l) = Past(h, l)
    BY Zenon DEF SummaryOf, Past
  <1>2. CallOK(g)
    BY Zenon, <1>1 DEF CallOK
  <1>3. Owes(g, own \ {i}, new, in)
    BY Zenon, <1>1 DEF Owes
  <1> QED
    BY Zenon, <1>2, <1>3

\* A call begins.
LEMMA OwesAtFirst ==
    ASSUME NEW g, g.at \in {"none", "lock"}, g.list = "watches", g.todo = <<>>,
           g.summary = <<>>, NEW own, NEW new, NEW in,
           g.before \subseteq own, g.dropped \cap (own \cup new) = {},
           g.at = "none" => g.before = {} /\ g.dropped = {}
    PROVE  CallOK(g) /\ Owes(g, own, new, in)
  <1>1. SummaryOf(g) = {} /\ Range(g.todo) = {}
    BY Zenon, EmptyList DEF SummaryOf
  <1>2. CallOK(g)
    <2>1. <<>> \in Seq(Source)
      OBVIOUS
    <2>2. g.at # "done" /\ g.list \in Lists
      BY Zenon DEF Lists
    <2> QED
      BY Zenon, <1>1, <2>1, <2>2, EmptyList DEF CallOK
  <1>3. ASSUME NEW i, g.at # "none" PROVE ~Past(g, List(i))
    BY Zenon, <1>3 DEF Past, List
  <1>4. Owes(g, own, new, in)
    BY Zenon, <1>1, <1>3 DEF Owes
  <1> QED
    BY Zenon, <1>2, <1>4

\* The list is locked and retained.
LEMMA OwesRetained ==
    ASSUME NEW h, NEW own, NEW new, NEW in, Owes(h, own, new, in), CallOK(h),
           h.at = "lock", NEW s \in Seq(Source), IsInjective(s),
           \A i \in Range(s) : List(i) = h.list,
           NEW in1, in1 \subseteq in,
           \A i \in own : List(i) = h.list => i \in Range(s),
           \A i \in in1 : List(i) = h.list => i \in own,
           Range(s) \subseteq own,
           NEW g, g.at = "read", g.list = h.list, g.todo = s, g.summary = h.summary,
           g.before = h.before, g.dropped = h.dropped
    PROVE  CallOK(g) /\ Owes(g, own, new, in1)
  <1>1. SummaryOf(g) = SummaryOf(h)
    BY Zenon DEF SummaryOf
  <1>2. \A i \in SummaryOf(h) : List(i) # h.list /\ Past(g, List(i))
    BY Zenon DEF CallOK, Past
  <1>3. \A l : Past(g, l) => l = h.list \/ Past(h, l)
    BY Zenon DEF Past
  <1>4. CallOK(g)
    BY Zenon, <1>1, <1>2 DEF CallOK
  <1>5. h.todo = <<>> /\ Range(<<>>) = {}
    BY Zenon, EmptyList DEF CallOK
  <1>6. \A i \in g.before :
           Past(g, List(i)) => i \in SummaryOf(g) \cup Range(g.todo)
    <2> SUFFICES ASSUME NEW i \in h.before, Past(g, List(i))
                 PROVE  i \in SummaryOf(h) \cup Range(s)
      BY Zenon, <1>1
    <2>1. CASE List(i) = h.list
      BY Zenon, <2>1 DEF Owes
    <2>2. CASE Past(h, List(i))
      BY Zenon, <1>5, <2>2 DEF Owes
    <2> QED
      BY Zenon, <1>3, <2>1, <2>2
  <1>7. g.dropped \cap (SummaryOf(g) \cup Range(g.todo)) = {}
    BY Zenon, <1>1 DEF Owes
  <1>8. \A i \in g.dropped : Past(g, List(i)) => i \notin in1
    <2> SUFFICES ASSUME NEW i \in h.dropped, Past(g, List(i)), i \in in1
                 PROVE  FALSE
      BY Zenon
    <2>1. CASE List(i) = h.list
      BY Zenon, <2>1 DEF Owes
    <2>2. CASE Past(h, List(i))
      BY Zenon, <2>2 DEF Owes
    <2> QED
      BY Zenon, <1>3, <2>1, <2>2
  <1>9. Owes(g, own, new, in1)
    BY Zenon, <1>6, <1>7, <1>8 DEF Owes
  <1> QED
    BY Zenon, <1>4, <1>9

\* The next reference of the list.
LEMMA OwesVisited ==
    ASSUME NEW h, NEW own \in SUBSET Source, NEW new, NEW in,
           Owes(h, own, new, in), CallOK(h), h.summary \in Seq(Entries),
           h.at = "read", h.todo # <<>>,
           NEW e \in Entries, e.source = Head(h.todo),
           NEW g, g.at = h.at, g.list = h.list, g.todo = Tail(h.todo),
           g.summary = IF Head(h.todo) \in own THEN Append(h.summary, e)
                                               ELSE h.summary,
           g.before = h.before, g.dropped = h.dropped
    PROVE  CallOK(g) /\ Owes(g, own, new, in)
  <1> DEFINE i == Head(h.todo)
  <1>1. /\ i \in Source /\ g.todo \in Seq(Source)
        /\ Range(h.todo) = Range(g.todo) \cup {i}
        /\ IsInjective(g.todo) /\ i \notin Range(g.todo)
    <2>1. h.todo \in Seq(Source) /\ IsInjective(h.todo)
      BY Zenon DEF CallOK
    <2>2. /\ i \in Source /\ Tail(h.todo) \in Seq(Source)
          /\ Range(h.todo) = Range(Tail(h.todo)) \cup {i}
      BY Zenon, <2>1, TailOf
    <2>3. IsInjective(Tail(h.todo)) /\ i \notin Range(Tail(h.todo))
      BY Zenon, <2>1, TailOf
    <2> QED
      BY Zenon, <2>2, <2>3
  <1>2. i \notin SummaryOf(h) /\ List(i) = h.list
    BY Zenon, <1>1 DEF CallOK
  <1>3. \A l : Past(g, l) <=> Past(h, l)
    BY Zenon DEF Past
  <1>4. /\ IsInjective(Names(g.summary))
        /\ SummaryOf(g) = SummaryOf(h) \cup (IF i \in own THEN {i} ELSE {})
    <2>1. CASE i \in own
      <3>1. PICK n \in Seq(Source) : n = Names(h.summary)
        BY Zenon, NamesOf
      <3>2. Names(g.summary) = Append(n, i)
        BY Zenon, <2>1, <3>1, NamesOf
      <3>3. IsInjective(n) /\ i \notin Range(n)
        BY Zenon, <1>2, <3>1 DEF CallOK, SummaryOf
      <3> HIDE DEF i
      <3>4. Range(Append(n, i)) = Range(n) \cup {i} /\ IsInjective(Append(n, i))
        <4>1. i \in Source
          BY Zenon, <1>1
        <4>2. Range(Append(n, i)) = Range(n) \cup {i}
          BY SMT, <4>1, AppendOf
        <4>3. IsInjective(Append(n, i))
          BY Zenon, <3>3, <4>1, AppendOf
        <4> QED
          BY Zenon, <4>2, <4>3
      <3> QED
        BY Zenon, <2>1, <3>1, <3>2, <3>4 DEF SummaryOf
    <2>2. CASE i \notin own
      BY Zenon, <2>2 DEF SummaryOf, CallOK
    <2> QED
      BY Zenon, <2>1, <2>2
  <1>5. Past(g, List(i))
    <2>1. g.list = List(i) /\ g.at # "lock"
      BY Zenon, <1>2
    <2> QED
      BY Zenon, <2>1 DEF Past
  <1> HIDE DEF i
  <1>6. CallOK(g)
    <2>1. \A j \in Range(g.todo) : List(j) = g.list /\ j \notin SummaryOf(g)
      <3>1. \A j \in Range(g.todo) : List(j) = g.list /\ j \notin SummaryOf(h)
        BY Zenon, <1>1 DEF CallOK
      <3> QED
        BY Zenon, <1>1, <1>4, <3>1
    <2>2. \A j \in SummaryOf(g) : Past(g, List(j))
      BY Zenon, <1>3, <1>4, <1>5 DEF CallOK
    <2>3. g.at = "read" /\ g.list \in Lists
      BY Zenon DEF CallOK
    <2> QED
      BY Zenon, <1>1, <1>4, <2>1, <2>2, <2>3 DEF CallOK
  <1>7. Owes(g, own, new, in)
    <2>1. ASSUME NEW j \in g.before, Past(g, List(j))
          PROVE  j \in SummaryOf(g) \cup Range(g.todo)
      <3>1. j \in own /\ j \in SummaryOf(h) \cup Range(h.todo)
        BY Zenon, <1>3, <2>1 DEF Owes
      <3> QED
        BY Zenon, <1>1, <1>4, <3>1
    <2>2. g.dropped \cap (SummaryOf(g) \cup Range(g.todo)) = {}
      BY Zenon, <1>1, <1>4 DEF Owes
    <2>3. \A j \in g.dropped : Past(g, List(j)) => j \notin in
      BY Zenon, <1>3 DEF Owes
    <2> QED
      BY Zenon, <2>1, <2>2, <2>3 DEF Owes
  <1> QED
    BY Zenon, <1>6, <1>7

\* The end of a list.
LEMMA OwesUnlocked ==
    ASSUME NEW h, NEW own, NEW new, NEW in, Owes(h, own, new, in), CallOK(h),
           h.at = "read", h.todo = <<>>,
           NEW g, g.at = IF h.list = "watches" THEN "lock" ELSE "done",
           g.list = "leases", g.todo = h.todo, g.summary = h.summary,
           g.before = h.before, g.dropped = h.dropped
    PROVE  CallOK(g) /\ Owes(g, own, new, in)
  <1>1. SummaryOf(g) = SummaryOf(h)
    BY Zenon DEF SummaryOf
  <1>2. \A i : Past(g, List(i)) <=> Past(h, List(i))
    BY Zenon DEF Past, CallOK, Lists, List
  <1>3. CallOK(g)
    <2>1. Range(g.todo) = {} /\ g.list \in Lists
      BY Zenon, EmptyList DEF Lists
    <2> QED
      BY Zenon, <1>1, <1>2, <2>1 DEF CallOK
  <1>4. Owes(g, own, new, in)
    BY Zenon, <1>1, <1>2 DEF Owes
  <1> QED
    BY Zenon, <1>3, <1>4

-----------------------------------------------------------------------------

\* Every owner is in its list, nothing is twice in a list, and what is fresh is
\* in none.
RefsOK ==
    /\ fresh \subseteq Source /\ owned \subseteq Source
    /\ writing \subseteq owned
    /\ refs \in [Lists -> Seq(Source)]
    /\ \A l \in Lists : IsInjective(refs[l])
    /\ \A l \in Lists : \A i \in Range(refs[l]) : List(i) = l /\ i \notin fresh
    /\ \A i \in owned : InList(i)

CallsOK ==
    /\ DOMAIN handler = Client
    /\ \A c \in Client :
          /\ Shape(handler[c])
          /\ CallOK(handler[c])
          /\ Owes(handler[c], owned, fresh, {i \in Source : InList(i)})

Owed == RefsOK /\ CallsOK

LEMMA OwedInit == Init => Owed
  <1> SUFFICES ASSUME Init PROVE Owed
    OBVIOUS
  <1>1. RefsOK
    <2>1. <<>> \in Seq(Source)
      OBVIOUS
    <2> QED
      BY Zenon, <2>1, EmptyList DEF Init, DiagnosticsInit, RefsOK, Source
  <1>2. ASSUME NEW c \in Client
        PROVE  /\ Shape(handler[c]) /\ CallOK(handler[c])
               /\ Owes(handler[c], owned, fresh, {i \in Source : InList(i)})
    <2>1. PICK g : g = Idle
      BY Zenon
    <2>2. /\ g.at = "none" /\ g.list = "watches" /\ g.todo = <<>>
          /\ g.summary = <<>> /\ g.before = {} /\ g.dropped = {}
          /\ Shape(g)
      BY <2>1 DEF Idle, Shape, Fields
    <2>3. CallOK(g) /\ Owes(g, owned, fresh, {i \in Source : InList(i)})
      <3>1. /\ g.at \in {"none", "lock"} /\ g.before \subseteq owned
            /\ g.dropped \cap (owned \cup fresh) = {}
        BY Zenon, <2>2
      <3>2. PICK in : in = {i \in Source : InList(i)}
        BY Zenon
      <3>3. CallOK(g) /\ Owes(g, owned, fresh, in)
        BY SMT, <2>2, <3>1, OwesAtFirst
      <3> QED
        BY Zenon, <3>2, <3>3
    <2>4. handler[c] = g
      BY Zenon, <2>1 DEF Init, DiagnosticsInit
    <2> QED
      BY Zenon, <2>2, <2>3, <2>4
  <1>3. DOMAIN handler = Client
    BY Zenon DEF Init, DiagnosticsInit
  <1> QED
    BY Zenon, <1>1, <1>2, <1>3 DEF Owed, CallsOK

\* The calls that a step does not touch.
LEMMA OthersOwe ==
    ASSUME Owed, NEW d \in Client, handler'[d] = handler[d],
           owned \subseteq owned', owned' \cup fresh' \subseteq owned \cup fresh,
           \A i \in Source : InList(i)' => InList(i) \/ i \in fresh
    PROVE  /\ Shape(handler'[d]) /\ CallOK(handler'[d])
           /\ Owes(handler'[d], owned', fresh', {i \in Source : InList(i)'})
  <1> DEFINE in == {i \in Source : InList(i)}
             in1 == {i \in Source : InList(i)'}
  <1>1. Owes(handler[d], owned, fresh, in)
    BY Zenon DEF Owed, CallsOK
  <1>2. in1 \subseteq in \cup fresh
    BY Zenon
  <1> HIDE DEF in, in1
  <1>3. Owes(handler[d], owned', fresh', in1)
    BY ZenonT(30), <1>1, <1>2, OwesStill
  <1> QED
    BY Zenon, <1>3 DEF Owed, CallsOK, in1

LEMMA ListIn == ASSUME NEW i PROVE List(i) \in Lists
  BY Zenon DEF List, Lists

LEMMA RegisterOwed ==
    ASSUME Owed, NEW i \in Source, Register(i)
    PROVE  Owed'
  <1> DEFINE l == List(i)
  <1>1. /\ i \in fresh /\ fresh' = fresh \ {i} /\ owned' = owned \cup {i}
        /\ refs' = [refs EXCEPT ![l] = Append(refs[l], i)]
        /\ writing' = writing /\ handler' = handler
    BY Zenon DEF Register, stateVars
  <1>2. l \in Lists /\ refs \in [Lists -> Seq(Source)] /\ refs[l] \in Seq(Source)
    BY Zenon, ListIn DEF Owed, RefsOK
  <1>3. i \notin Range(refs[l]) /\ IsInjective(refs[l])
    BY Zenon, <1>1, <1>2 DEF Owed, RefsOK
  <1>4. PICK s \in Seq(Source) : s = refs[l]
    BY Zenon, <1>2
  <1>5. /\ Append(s, i) \in Seq(Source)
        /\ Range(Append(s, i)) = Range(s) \cup {i}
        /\ IsInjective(Append(s, i))
    BY SMT, <1>3, <1>4, AppendOf
  <1>6. /\ refs' \in [Lists -> Seq(Source)] /\ refs'[l] = Append(s, i)
        /\ \A m \in Lists : m # l => refs'[m] = refs[m]
    BY SMT, <1>1, <1>2, <1>4, <1>5
  <1>7. \A m \in Lists : Range(refs'[m]) =
                           IF m = l THEN Range(refs[m]) \cup {i} ELSE Range(refs[m])
    BY Zenon, <1>4, <1>5, <1>6
  <1>8. \A k : InList(k)' <=> InList(k) \/ k = i
    BY Zenon, <1>2, <1>7, ListIn DEF InList
  <1>9. RefsOK'
    <2>1. fresh' \subseteq Source /\ owned' \subseteq Source /\ writing' \subseteq owned'
      BY Zenon, <1>1 DEF Owed, RefsOK
    <2>2. \A m \in Lists : IsInjective(refs'[m])
      BY Zenon, <1>5, <1>6 DEF Owed, RefsOK
    <2>3. \A m \in Lists : \A k \in Range(refs'[m]) : List(k) = m /\ k \notin fresh'
      BY Zenon, <1>1, <1>7 DEF Owed, RefsOK
    <2>4. \A k \in owned' : InList(k)'
      BY Zenon, <1>1, <1>8 DEF Owed, RefsOK
    <2> QED
      BY Zenon, <1>6, <2>1, <2>2, <2>3, <2>4 DEF RefsOK, InList
  <1>10. CallsOK'
    <2>1. /\ owned \subseteq owned' /\ owned' \cup fresh' \subseteq owned \cup fresh
          /\ \A k \in Source : InList(k)' => InList(k) \/ k \in fresh
      BY Zenon, <1>1, <1>8
    <2>2. DOMAIN handler' = Client /\ \A d \in Client : handler'[d] = handler[d]
      BY Zenon, <1>1 DEF Owed, CallsOK
    <2> QED
      BY Zenon, <2>1, <2>2, OthersOwe DEF CallsOK
  <1> QED
    BY Zenon, <1>9, <1>10 DEF Owed

LEMMA ReleaseOwed ==
    ASSUME Owed, NEW i \in Source, Release(i)
    PROVE  Owed'
  <1>1. /\ i \in owned \ writing /\ owned' = owned \ {i}
        /\ handler' = [c \in Client |-> [handler[c] EXCEPT !.before = @ \ {i}]]
        /\ fresh' = fresh /\ refs' = refs /\ writing' = writing
    BY Zenon DEF Release
  <1>2. \A k : InList(k)' <=> InList(k)
    BY Zenon, <1>1 DEF InList
  <1>3. RefsOK'
    BY Zenon, <1>1, <1>2 DEF Owed, RefsOK
  <1>4. ASSUME NEW c \in Client
        PROVE  /\ Shape(handler'[c]) /\ CallOK(handler'[c])
               /\ Owes(handler'[c], owned', fresh', {k \in Source : InList(k)'})
    <2>1. PICK h : h = handler[c]
      BY Zenon
    <2>2. PICK g : g = handler'[c]
      BY Zenon
    <2>3. PICK in : in = {k \in Source : InList(k)}
      BY Zenon
    <2>4. Shape(h) /\ CallOK(h) /\ Owes(h, owned, fresh, in)
      BY Zenon, <2>1, <2>3 DEF Owed, CallsOK
    <2>5. /\ g.at = h.at /\ g.list = h.list /\ g.todo = h.todo
          /\ g.summary = h.summary /\ g.before = h.before \ {i}
          /\ g.dropped = h.dropped /\ Shape(g)
      BY SMT, <1>1, <2>1, <2>2, <2>4 DEF Shape, Fields
    <2>6. CallOK(g) /\ Owes(g, owned \ {i}, fresh, in)
      BY Zenon, <2>4, <2>5, OwesLess
    <2>7. in = {k \in Source : InList(k)'}
      BY Zenon, <1>2, <2>3
    <2> QED
      BY Zenon, <1>1, <2>2, <2>5, <2>6, <2>7
  <1>5. CallsOK'
    BY Zenon, <1>1, <1>4 DEF CallsOK
  <1> QED
    BY Zenon, <1>3, <1>5 DEF Owed

\* A step of one call.
LEMMA OneOwes ==
    ASSUME Owed, NEW c \in Client, owned' = owned, fresh' = fresh,
           DOMAIN handler' = Client,
           \A d \in Client : d # c => handler'[d] = handler[d],
           \A k \in Source : InList(k)' => InList(k),
           Shape(handler'[c]), CallOK(handler'[c]),
           Owes(handler'[c], owned, fresh, {k \in Source : InList(k)'})
    PROVE  CallsOK'
  <1>1. ASSUME NEW d \in Client, d # c
        PROVE  /\ Shape(handler'[d]) /\ CallOK(handler'[d])
               /\ Owes(handler'[d], owned', fresh', {k \in Source : InList(k)'})
    <2>1. /\ owned \subseteq owned' /\ owned' \cup fresh' \subseteq owned \cup fresh
          /\ \A k \in Source : InList(k)' => InList(k) \/ k \in fresh
      BY Zenon
    <2> QED
      BY Zenon, <1>1, <2>1, OthersOwe
  <1>2. /\ Shape(handler'[c]) /\ CallOK(handler'[c])
        /\ Owes(handler'[c], owned', fresh', {k \in Source : InList(k)'})
    BY Zenon
  <1>3. ASSUME NEW d \in Client
        PROVE  /\ Shape(handler'[d]) /\ CallOK(handler'[d])
               /\ Owes(handler'[d], owned', fresh', {k \in Source : InList(k)'})
    BY Zenon, <1>1, <1>2
  <1> QED
    BY Zenon, <1>3 DEF CallsOK

LEMMA SameRefs ==
    ASSUME UNCHANGED <<fresh, owned, refs, writing>>
    PROVE  /\ RefsOK => RefsOK'
           /\ {k \in Source : InList(k)'} = {k \in Source : InList(k)}
           /\ \A k \in Source : InList(k)' => InList(k)
  BY Zenon DEF RefsOK, InList

LEMMA RetainOwed ==
    ASSUME Owed, NEW c \in Client, Retain(c)
    PROVE  Owed'
  <1>1. PICK h : h = handler[c]
    BY Zenon
  <1>2. PICK g : g = handler'[c]
    BY Zenon
  <1>3. PICK l : l = h.list
    BY Zenon
  <1>4. PICK in : in = {k \in Source : InList(k)}
    BY Zenon
  <1>5. Shape(h) /\ CallOK(h) /\ Owes(h, owned, fresh, in) /\ DOMAIN handler = Client
    BY Zenon, <1>1, <1>4 DEF Owed, CallsOK
  <1>6. l \in Lists /\ refs \in [Lists -> Seq(Source)]
    BY Zenon, <1>3, <1>5 DEF CallOK, Owed, RefsOK
  <1>7. PICK s \in Seq(Source) : s = refs[l]
    BY Zenon, <1>6
  <1>8. PICK t : t = Retained(s, owned)
    BY Zenon
  <1>9. /\ t \in Seq(Source) /\ Range(t) = Range(s) \cap owned
        /\ IsInjective(s) => IsInjective(t)
    BY SMT, <1>8, RetainedOf
  <1>10. /\ h.at = "lock" /\ refs' = [refs EXCEPT ![l] = t]
         /\ handler' = [handler EXCEPT ![c].at = "read", ![c].todo = t]
         /\ fresh' = fresh /\ owned' = owned /\ writing' = writing
    BY Zenon, <1>1, <1>3, <1>7, <1>8 DEF Retain, stateVars
  <1>11. /\ refs' \in [Lists -> Seq(Source)] /\ refs'[l] = t
         /\ \A m \in Lists : m # l => refs'[m] = refs[m]
    BY SMT, <1>6, <1>9, <1>10
  <1>12. /\ DOMAIN handler' = Client /\ \A d \in Client : d # c => handler'[d] = handler[d]
    BY SMT, <1>5, <1>10
  <1>13. /\ g.at = "read" /\ g.list = h.list /\ g.todo = t
         /\ g.summary = h.summary /\ g.before = h.before
         /\ g.dropped = h.dropped /\ Shape(g)
    BY SMT, <1>1, <1>2, <1>5, <1>10 DEF Shape, Fields
  <1>14. \A m \in Lists : Range(refs'[m]) =
            IF m = l THEN Range(refs[m]) \cap owned ELSE Range(refs[m])
    BY Zenon, <1>7, <1>9, <1>11
  <1>15. \A k : InList(k)' <=> InList(k) /\ (List(k) = l => k \in owned)
    BY Zenon, <1>14, ListIn DEF InList
  <1>16. RefsOK'
    <2>1. \A m \in Lists : IsInjective(refs'[m])
      BY Zenon, <1>7, <1>9, <1>11 DEF Owed, RefsOK
    <2>2. \A m \in Lists : \A k \in Range(refs'[m]) : List(k) = m /\ k \notin fresh'
      BY Zenon, <1>10, <1>14 DEF Owed, RefsOK
    <2>3. \A k \in owned' : InList(k)'
      BY Zenon, <1>10, <1>15 DEF Owed, RefsOK
    <2> QED
      BY Zenon, <1>10, <1>11, <2>1, <2>2, <2>3 DEF RefsOK, Owed
  <1>17. PICK in1 : in1 = {k \in Source : InList(k)'}
    BY Zenon
  <1>18. CallOK(g) /\ Owes(g, owned, fresh, in1)
    <2>1. IsInjective(t) /\ Range(t) \subseteq owned
      BY ZenonT(30), <1>6, <1>7, <1>9 DEF Owed, RefsOK
    <2>2. \A k \in Range(t) : List(k) = h.list
      BY Zenon, <1>3, <1>6, <1>7, <1>9 DEF Owed, RefsOK
    <2>3. in1 \subseteq in /\ \A k \in in1 : List(k) = h.list => k \in owned
      BY Zenon, <1>3, <1>4, <1>15, <1>17
    <2>4. \A k \in owned : List(k) = h.list => k \in Range(t)
      BY Zenon, <1>3, <1>7, <1>9 DEF Owed, RefsOK, InList
    <2> QED
      BY Zenon, <1>5, <1>9, <1>10, <1>13, <2>1, <2>2, <2>3, <2>4, OwesRetained
  <1>19. CallsOK'
    <2>1. \A k \in Source : InList(k)' => InList(k)
      BY Zenon, <1>15
    <2> QED
      BY ZenonT(30), <1>2, <1>10, <1>12, <1>13, <1>17, <1>18, <2>1, OneOwes
  <1> QED
    BY Zenon, <1>16, <1>19 DEF Owed

LEMMA VisitOwed ==
    ASSUME Owed, contents \in [Source -> Nat], stats \in [Source -> Nat],
           NEW c \in Client, Visit(c)
    PROVE  Owed'
  <1>1. PICK h : h = handler[c]
    BY Zenon
  <1>2. PICK g : g = handler'[c]
    BY Zenon
  <1>3. PICK i : i = Head(h.todo)
    BY Zenon
  <1>4. PICK in : in = {k \in Source : InList(k)}
    BY Zenon
  <1>5. PICK e : e = Entry(i)
    BY Zenon
  <1>6. Shape(h) /\ CallOK(h) /\ Owes(h, owned, fresh, in) /\ DOMAIN handler = Client
    BY Zenon, <1>1, <1>4 DEF Owed, CallsOK
  <1>7. /\ h.at = "read" /\ h.todo # <<>>
        /\ handler' = [handler EXCEPT
              ![c].todo = Tail(h.todo),
              ![c].summary = IF i \in owned THEN Append(h.summary, e) ELSE h.summary]
        /\ UNCHANGED <<fresh, owned, refs, writing>>
    BY Zenon, <1>1, <1>3, <1>5 DEF Visit, stateVars
  <1>8. /\ DOMAIN handler' = Client /\ \A d \in Client : d # c => handler'[d] = handler[d]
    BY SMT, <1>6, <1>7
  <1>9. /\ g.at = h.at /\ g.list = h.list /\ g.todo = Tail(h.todo)
        /\ g.summary = IF i \in owned THEN Append(h.summary, e) ELSE h.summary
        /\ g.before = h.before /\ g.dropped = h.dropped /\ DOMAIN g = Fields
    BY SMT, <1>1, <1>2, <1>6, <1>7 DEF Shape, Fields
  <1>10. i \in Source
    <2>1. h.todo \in Seq(Source)
      BY Zenon, <1>6 DEF CallOK
    <2> QED
      BY Zenon, <1>3, <1>7, <2>1, TailOf
  <1>11. e \in Entries /\ e.source = i
    BY SMT, <1>5, <1>10 DEF Entry, Entries
  <1>12. h.summary \in Seq(Entries)
    BY Zenon, <1>6 DEF Shape
  <1>13. Shape(g)
    <2>1. Append(h.summary, e) \in Seq(Entries)
      BY SMT, <1>11, <1>12
    <2> QED
      BY Zenon, <1>9, <1>12, <2>1 DEF Shape
  <1>14. CallOK(g) /\ Owes(g, owned, fresh, in)
    <2>1. owned \in SUBSET Source
      BY Zenon DEF Owed, RefsOK
    <2> QED
      <3>1. /\ e.source = Head(h.todo)
            /\ g.summary = IF Head(h.todo) \in owned THEN Append(h.summary, e)
                                                     ELSE h.summary
        BY Zenon, <1>3, <1>9, <1>11
      <3> QED
        BY Zenon, <1>6, <1>7, <1>9, <1>11, <1>12, <2>1, <3>1, OwesVisited
  <1>15. /\ RefsOK' /\ in = {k \in Source : InList(k)'}
         /\ \A k \in Source : InList(k)' => InList(k)
    BY Zenon, <1>4, <1>7, SameRefs DEF Owed
  <1>16. CallsOK'
    BY ZenonT(30), <1>2, <1>7, <1>8, <1>13, <1>14, <1>15, OneOwes
  <1> QED
    BY Zenon, <1>15, <1>16 DEF Owed

LEMMA UnlockOwed ==
    ASSUME Owed, NEW c \in Client, Unlock(c)
    PROVE  Owed'
  <1>1. PICK h : h = handler[c]
    BY Zenon
  <1>2. PICK g : g = handler'[c]
    BY Zenon
  <1>3. PICK in : in = {k \in Source : InList(k)}
    BY Zenon
  <1>4. Shape(h) /\ CallOK(h) /\ Owes(h, owned, fresh, in) /\ DOMAIN handler = Client
    BY Zenon, <1>1, <1>3 DEF Owed, CallsOK
  <1>5. /\ h.at = "read" /\ h.todo = <<>>
        /\ handler' = [handler EXCEPT
              ![c].at = IF h.list = "watches" THEN "lock" ELSE "done",
              ![c].list = "leases"]
        /\ UNCHANGED <<fresh, owned, refs, writing>>
    BY Zenon, <1>1 DEF Unlock, stateVars
  <1>6. /\ DOMAIN handler' = Client /\ \A d \in Client : d # c => handler'[d] = handler[d]
    BY SMT, <1>4, <1>5
  <1>7. /\ g.at = IF h.list = "watches" THEN "lock" ELSE "done"
        /\ g.list = "leases" /\ g.todo = h.todo /\ g.summary = h.summary
        /\ g.before = h.before /\ g.dropped = h.dropped /\ Shape(g)
    BY SMT, <1>1, <1>2, <1>4, <1>5 DEF Shape, Fields
  <1>8. CallOK(g) /\ Owes(g, owned, fresh, in)
    BY Zenon, <1>4, <1>5, <1>7, OwesUnlocked
  <1>9. /\ RefsOK' /\ in = {k \in Source : InList(k)'}
        /\ \A k \in Source : InList(k)' => InList(k)
    BY Zenon, <1>3, <1>5, SameRefs DEF Owed
  <1>10. CallsOK'
    BY ZenonT(30), <1>2, <1>5, <1>6, <1>7, <1>8, <1>9, OneOwes
  <1> QED
    BY Zenon, <1>9, <1>10 DEF Owed

\* A call begins, or is over.
LEMMA CallOwed ==
    ASSUME Owed, NEW c \in Client, NEW g, g \in {Idle, Called},
           handler' = [handler EXCEPT ![c] = g],
           UNCHANGED <<fresh, owned, refs, writing>>
    PROVE  Owed'
  <1>1. PICK in : in = {k \in Source : InList(k)}
    BY Zenon
  <1>2. /\ g.at \in {"none", "lock"} /\ g.list = "watches" /\ g.todo = <<>>
        /\ g.summary = <<>> /\ Shape(g)
        /\ g.before \subseteq owned
        /\ g.dropped \subseteq {i \in Source \ owned : InList(i)}
        /\ g.at = "none" => g.before = {} /\ g.dropped = {}
    <2>1. CASE g = Idle
      BY SMT, <2>1 DEF Idle, Shape, Fields
    <2>2. CASE g = Called
      <3>1. /\ g.at = "lock" /\ g.list = "watches" /\ g.todo = <<>>
            /\ g.summary = <<>> /\ Shape(g) /\ g.before = owned
            /\ g.dropped = {i \in Source \ owned : InList(i)}
        BY SMT, <2>2 DEF Idle, Called, Shape, Fields
      <3> QED
        BY Zenon, <3>1
    <2> QED
      BY Zenon, <2>1, <2>2
  <1>3. g.dropped \cap (owned \cup fresh) = {}
    <2>1. \A i \in Source : InList(i) => i \notin fresh
      BY Zenon, ListIn DEF Owed, RefsOK, InList
    <2> QED
      BY Zenon, <1>2, <2>1
  <1>4. CallOK(g) /\ Owes(g, owned, fresh, in)
    BY SMT, <1>2, <1>3, OwesAtFirst
  <1>5. /\ RefsOK' /\ in = {k \in Source : InList(k)'}
        /\ \A k \in Source : InList(k)' => InList(k)
    BY Zenon, <1>1, SameRefs DEF Owed
  <1>6. /\ DOMAIN handler' = Client /\ handler'[c] = g
        /\ \A d \in Client : d # c => handler'[d] = handler[d]
    BY Zenon DEF Owed, CallsOK
  <1>7. CallsOK'
    BY Zenon, <1>2, <1>4, <1>5, <1>6, OneOwes
  <1> QED
    BY Zenon, <1>5, <1>7 DEF Owed

\* A step that has to do with neither the lists nor the calls.
LEMMA AsideOwed ==
    ASSUME Owed, UNCHANGED <<fresh, owned, refs, handler>>, writing' \subseteq owned
    PROVE  Owed'
  <1>1. RefsOK'
    BY Zenon DEF Owed, RefsOK, InList
  <1>2. {k \in Source : InList(k)'} = {k \in Source : InList(k)}
    BY Zenon DEF InList
  <1>3. CallsOK'
    BY Zenon, <1>2 DEF Owed, CallsOK
  <1> QED
    BY Zenon, <1>1, <1>3 DEF Owed

LEMMA OwedStep == Consistent /\ Owed /\ [Next]_vars => Owed'
  <1> SUFFICES ASSUME Consistent, Owed, [Next]_vars
               PROVE  Owed'
    BY Zenon
  <1>1. CASE Sources
    <2>1. PICK i \in Source :
             Register(i) \/ Inspect(i) \/ InspectDone(i) \/ Release(i)
      BY Zenon, <1>1 DEF Sources
    <2>2. writing \subseteq owned
      BY Zenon DEF Owed, RefsOK
    <2>3. CASE Inspect(i)
      BY Zenon, <2>2, <2>3, AsideOwed DEF Inspect
    <2>4. CASE InspectDone(i)
      BY Zenon, <2>2, <2>4, AsideOwed DEF InspectDone
    <2> QED
      BY Zenon, <2>1, <2>3, <2>4, RegisterOwed, ReleaseOwed
  <1>2. CASE UNCHANGED diagnosticsVars
    <2>1. UNCHANGED <<fresh, owned, refs, writing, handler>>
      BY Zenon, <1>2 DEF diagnosticsVars, stateVars
    <2>2. writing' \subseteq owned
      BY Zenon, <2>1 DEF Owed, RefsOK
    <2> QED
      BY Zenon, <2>1, <2>2, AsideOwed
  <1>3. ASSUME NEW c \in Client, Diagnose(c)
        PROVE  Owed'
    <2>1. /\ handler' = [handler EXCEPT ![c] = Called]
          /\ UNCHANGED <<fresh, owned, refs, writing>>
      BY Zenon, <1>3 DEF Diagnose, stateVars
    <2> QED
      BY Zenon, <2>1, CallOwed
  <1>4. ASSUME NEW c \in Client, Respond(c)
        PROVE  Owed'
    <2>1. /\ handler' = [handler EXCEPT ![c] = Idle]
          /\ UNCHANGED <<fresh, owned, refs, writing>>
      BY Zenon, <1>4 DEF Respond, stateVars
    <2> QED
      BY Zenon, <2>1, CallOwed
  <1>5. ASSUME NEW c \in Client, Reading(c)
        PROVE  Owed'
    <2>1. contents \in [Source -> Nat] /\ stats \in [Source -> Nat]
      BY Zenon DEF Consistent, StatesOK
    <2> QED
      BY Zenon, <1>5, <2>1, RetainOwed, VisitOwed, UnlockOwed DEF Reading
  <1>6. ASSUME NEW c \in Client,
               \/ Accept(c) \/ AtOnce(c) \/ Refuse(c) \/ Route(c)
               \/ StartRoute(c) \/ EndRoute(c) \/ \E q \in Request(c) : Connect(c, q)
        PROVE  UNCHANGED diagnosticsVars
    BY Zenon, <1>6 DEF Accept, AtOnce, Refuse, Route, StartRoute, EndRoute, Connect
  <1>7. CASE UNCHANGED vars
    BY Zenon, <1>2, <1>7 DEF vars
  <1>8. ASSUME NEW c \in Client,
               \/ \E q \in Request(c) : Connect(c, q)
               \/ Serve(c) \/ StartRoute(c) \/ EndRoute(c)
        PROVE  Owed'
    BY Zenon, <1>2, <1>3, <1>4, <1>5, <1>6, <1>8 DEF Serve, Handle
  <1> QED
    BY Zenon, <1>1, <1>7, <1>8 DEF Next

LEMMA OwedAlways == Spec => [](Consistent /\ Owed)
  BY ConsistentInit, ConsistentStep, OwedInit, OwedStep, PTL DEF Spec

\* summarize_watches and summarize_leases: a response has an entry, and only one,
\* for everything that was there from the request to the response, though
\* watches and leases are registered and dropped between the handler's steps.
THEOREM SummariesComplete == Spec => []Complete
  <1>1. Owed => Complete
    <2> SUFFICES ASSUME Owed, NEW c \in Client, handler[c].at = "done"
                 PROVE  /\ handler[c].before \subseteq Range(Named(c))
                        /\ IsInjective(Named(c))
      BY Zenon DEF Complete
    <2>1. PICK h : h = handler[c]
      BY Zenon
    <2>2. CallOK(h) /\ Owes(h, owned, fresh, {i \in Source : InList(i)})
      BY Zenon, <2>1 DEF Owed, CallsOK
    <2>3. \A i : Past(h, List(i))
      BY Zenon, <2>1, <2>2, ListIn DEF CallOK, Past, Lists
    <2>4. Range(h.todo) = {}
      BY Zenon, <2>1, <2>2, EmptyList DEF CallOK
    <2>5. h.before \subseteq SummaryOf(h) /\ IsInjective(Names(h.summary))
      BY Zenon, <2>2, <2>3, <2>4 DEF CallOK, Owes
    <2> QED
      BY Zenon, <2>1, <2>5 DEF Named, SummaryOf
  <1> QED
    BY <1>1, OwedAlways, PTL

\* The same handlers clean up: what was dropped before a request is not in the
\* response, and no longer in the lists.
THEOREM DroppedCollected == Spec => []Collected
  <1>1. Owed => Collected
    <2> SUFFICES ASSUME Owed, NEW c \in Client, handler[c].at = "done",
                        NEW i \in handler[c].dropped
                 PROVE  i \notin Range(Named(c)) /\ ~InList(i)
      BY Zenon DEF Collected
    <2>1. PICK h : h = handler[c]
      BY Zenon
    <2>2. PICK in : in = {k \in Source : InList(k)}
      BY Zenon
    <2>3. CallOK(h) /\ Owes(h, owned, fresh, in)
      BY Zenon, <2>1, <2>2 DEF Owed, CallsOK
    <2>4. Past(h, List(i))
      BY Zenon, <2>1, <2>3, ListIn DEF CallOK, Past, Lists
    <2>5. i \notin SummaryOf(h) /\ i \notin in
      BY Zenon, <2>1, <2>3, <2>4 DEF Owes
    <2>6. InList(i) => i \in Source
      <3>1. PICK s \in Seq(Source) : s = refs[List(i)]
        BY Zenon, ListIn DEF Owed, RefsOK
      <3>2. Range(s) \subseteq Source
        BY SMT DEF Range
      <3> QED
        BY Zenon, <3>1, <3>2 DEF InList
    <2> QED
      BY Zenon, <2>1, <2>2, <2>5, <2>6 DEF Named, SummaryOf
  <1> QED
    BY <1>1, OwedAlways, PTL

-----------------------------------------------------------------------------
(* Types *)

Places == {"closed", "backlog", "sent", "diagnostics", "queued", "blocking"}

\* Client c waits for the diagnostics, and may.
Asked(c) ==
    /\ conn[c] = "diagnostics"
    /\ request[c] = [path |-> "/kubert.json", method |-> "GET"]
    /\ c \in Loopback

Typed ==
    /\ contents \in [Source -> 0 .. MaxEvents]
    /\ stats \in [Source -> 0 .. MaxEvents]
    /\ conn \in [Client -> Places]
    /\ request \in [Client -> Requests \cup {NoRequest}]
    /\ \A c \in Client : handler[c].at # "none" => Asked(c)

LEMMA TypedInit == Init => Typed
  BY DiagnosticsAssumption
     DEF Init, DiagnosticsInit, Typed, Places, Idle, Requests, NoRequest

\* A step of a connection with no call of the handler.
LEMMA TypedConn ==
    ASSUME Typed, UNCHANGED <<contents, stats, handler>>, NEW c \in Client,
           conn[c] # "diagnostics", NEW p \in Places,
           conn' = [conn EXCEPT ![c] = p],
           request' \in [Client -> Requests \cup {NoRequest}],
           \A d \in Client : d # c => request'[d] = request[d]
    PROVE  Typed'
  BY Zenon DEF Typed, Asked

LEMMA TypedSources ==
    ASSUME Owed, Typed, Sources
    PROVE  Typed'
  <1>1. PICK i \in Source :
           Register(i) \/ Inspect(i) \/ InspectDone(i) \/ Release(i)
    BY Zenon DEF Sources
  <1>2. UNCHANGED <<conn, request>>
    BY Zenon DEF Sources, adminVars
  <1>3. \A c \in Client : handler'[c].at = handler[c].at
    <2>1. CASE Release(i)
      <3> SUFFICES ASSUME NEW c \in Client
                   PROVE  handler'[c].at = handler[c].at
        BY Zenon
      <3>1. DOMAIN handler[c] = Fields
        BY Zenon DEF Owed, CallsOK, Shape
      <3>2. handler'[c] = [handler[c] EXCEPT !.before = @ \ {i}]
        BY Zenon, <2>1 DEF Release
      <3> QED
        BY SMT, <3>1, <3>2 DEF Fields
    <2>2. CASE ~Release(i)
      BY Zenon, <1>1, <2>2 DEF Register, Inspect, InspectDone
    <2> QED
      BY Zenon, <2>1, <2>2
  <1>4. contents' \in [Source -> 0 .. MaxEvents] /\ stats' \in [Source -> 0 .. MaxEvents]
    <2>1. CASE Register(i)
      BY Zenon, <2>1 DEF Register, stateVars, Typed
    <2>2. CASE Inspect(i)
      BY SMT, <2>2, DiagnosticsAssumption DEF Inspect, Typed
    <2>3. CASE InspectDone(i)
      BY SMT, <2>3 DEF InspectDone, Typed
    <2>4. CASE Release(i)
      BY SMT, <2>4, DiagnosticsAssumption DEF Release, Typed
    <2> QED
      BY Zenon, <1>1, <2>1, <2>2, <2>3, <2>4
  <1> QED
    BY Zenon, <1>2, <1>3, <1>4 DEF Typed, Asked

LEMMA TypedAnswer ==
    ASSUME Typed, NEW c \in Client, Answer(c), UNCHANGED diagnosticsVars,
           conn[c] # "diagnostics"
    PROVE  Typed'
  <1>1. /\ conn' = [conn EXCEPT ![c] = "closed"]
        /\ request' \in [Client -> Requests \cup {NoRequest}]
        /\ \A d \in Client : d # c => request'[d] = request[d]
    BY Zenon DEF Answer, Typed
  <1> QED
    BY Zenon, <1>1, TypedConn DEF diagnosticsVars, stateVars, Places

LEMMA TypedMove ==
    ASSUME Typed, NEW c \in Client, conn[c] # "diagnostics", NEW p \in Places,
           conn' = [conn EXCEPT ![c] = p], UNCHANGED <<diagnosticsVars, request>>
    PROVE  Typed'
  <1>1. /\ request' \in [Client -> Requests \cup {NoRequest}]
        /\ \A d \in Client : d # c => request'[d] = request[d]
    BY Zenon DEF Typed
  <1> QED
    BY Zenon, <1>1, TypedConn DEF diagnosticsVars, stateVars

\* Only the handlers' own places change with the handlers.
LEMMA TypedReading ==
    ASSUME Owed, Typed, NEW c \in Client, Reading(c)
    PROVE  Typed'
  <1>1. UNCHANGED <<contents, stats, conn, request>>
    BY Zenon DEF Reading, Retain, Visit, Unlock, stateVars, adminVars
  <1>2. handler[c].at # "none"
    BY Zenon DEF Reading, Retain, Visit, Unlock
  <1>3. \A d \in Client : d # c => handler'[d] = handler[d]
    <2>1. CASE Retain(c)
      BY SMTT(30), <2>1 DEF Retain, Owed, CallsOK
    <2>2. CASE Visit(c)
      BY SMT, <2>2 DEF Visit, Owed, CallsOK
    <2>3. CASE Unlock(c)
      BY SMT, <2>3 DEF Unlock, Owed, CallsOK
    <2> QED
      BY Zenon, <2>1, <2>2, <2>3 DEF Reading
  <1> QED
    BY Zenon, <1>1, <1>2, <1>3 DEF Typed, Asked

LEMMA TypedStep == Owed /\ Typed /\ [Next]_vars => Typed'
  <1> SUFFICES ASSUME Owed, Typed, [Next]_vars
               PROVE  Typed'
    BY Zenon
  <1>1. ASSUME NEW c \in Client, NEW q \in Request(c), Connect(c, q)
        PROVE  Typed'
    <2>1. /\ request' \in [Client -> Requests \cup {NoRequest}]
          /\ \A d \in Client : d # c => request'[d] = request[d]
      BY Zenon, <1>1, AdminAssumption DEF Connect, Typed
    <2> QED
      BY Zenon, <1>1, <2>1, TypedConn DEF Connect, diagnosticsVars, stateVars, Places
  <1>2. ASSUME NEW c \in Client, Accept(c)
        PROVE  Typed'
    BY Zenon, <1>2, TypedMove DEF Accept, Places
  <1>3. ASSUME NEW c \in Client, Handle(c)
        PROVE  Typed'
    <2>1. conn[c] # "diagnostics"
      BY Zenon, <1>3 DEF Handle
    <2>2. CASE AtOnce(c) \/ Refuse(c)
      BY Zenon, <2>1, <2>2, TypedAnswer DEF AtOnce, Refuse
    <2>3. CASE Route(c)
      BY Zenon, <2>1, <2>3, TypedMove DEF Route, Places
    <2>4. CASE Diagnose(c)
      <3>1. /\ conn' = [conn EXCEPT ![c] = "diagnostics"]
            /\ UNCHANGED <<contents, stats, request>>
            /\ handler' = [handler EXCEPT ![c] = Called]
        BY Zenon, <2>4 DEF Diagnose, stateVars
      <3>2. \A d \in Client : d # c => handler'[d] = handler[d]
        BY Zenon, <3>1 DEF Owed, CallsOK
      <3>3. /\ conn' \in [Client -> Places] /\ conn'[c] = "diagnostics"
            /\ \A d \in Client : d # c => conn'[d] = conn[d]
        BY Zenon, <3>1 DEF Typed, Places
      <3>4. Asked(c)'
        <4>1. request[c] \in Requests
          BY SMT, <2>4 DEF Typed, Diagnose, NoRequest
        <4>2. request[c] = [path |-> "/kubert.json", method |-> "GET"]
          BY SMT, <2>4, <4>1 DEF Diagnose, Requests
        <4> QED
          BY Zenon, <2>4, <3>1, <3>3, <4>2 DEF Asked, Diagnose
      <3> QED
        BY Zenon, <3>1, <3>2, <3>3, <3>4 DEF Typed, Asked
    <2> QED
      BY Zenon, <1>3, <2>2, <2>3, <2>4 DEF Handle
  <1>4. ASSUME NEW c \in Client, Respond(c)
        PROVE  Typed'
    <2>1. /\ conn' = [conn EXCEPT ![c] = "closed"]
          /\ request' = [request EXCEPT ![c] = NoRequest]
          /\ UNCHANGED <<contents, stats>>
          /\ handler' = [handler EXCEPT ![c] = Idle]
      BY Zenon, <1>4 DEF Respond, Answer, stateVars
    <2>2. /\ handler'[c].at = "none"
          /\ \A d \in Client : d # c => handler'[d] = handler[d]
      BY Zenon, <2>1 DEF Owed, CallsOK, Idle
    <2>3. /\ conn' \in [Client -> Places]
          /\ \A d \in Client : d # c => conn'[d] = conn[d]
          /\ request' \in [Client -> Requests \cup {NoRequest}]
          /\ \A d \in Client : d # c => request'[d] = request[d]
      BY Zenon, <2>1 DEF Typed, Places
    <2> QED
      BY Zenon, <2>1, <2>2, <2>3 DEF Typed, Asked
  <1>5. ASSUME NEW c \in Client, StartRoute(c)
        PROVE  Typed'
    BY Zenon, <1>5, TypedMove DEF StartRoute, Places
  <1>6. ASSUME NEW c \in Client, EndRoute(c)
        PROVE  Typed'
    BY Zenon, <1>6, TypedAnswer DEF EndRoute
  <1>7. CASE UNCHANGED vars
    BY Zenon, <1>7 DEF vars, diagnosticsVars, stateVars, adminVars, Typed, Asked
  <1> QED
    BY Zenon, <1>1, <1>2, <1>3, <1>4, <1>5, <1>6, <1>7, TypedSources, TypedReading
       DEF Next, Serve

\* Every variable keeps its type, and Diagnostics::handle summarizes for none but
\* clients of the host that sent GET /kubert.json (diagnostics.rs:62-76).
THEOREM AdminTypes == Spec => []AdminTypeOK
  <1>1. Owed /\ Typed => AdminTypeOK
    <2> SUFFICES ASSUME Owed, Typed PROVE AdminTypeOK
      OBVIOUS
    <2>1. \A c \in Client :
             /\ conn[c] \in Places
             /\ request[c] \in Requests \cup {NoRequest}
             /\ handler[c].at # "none" => Asked(c)
      BY Zenon DEF Typed
    <2> QED
      BY Zenon, <2>1 DEF AdminTypeOK, Owed, RefsOK, Typed, Places, Asked
  <1> QED
    BY <1>1, OwedAlways, TypedInit, TypedStep, PTL DEF Spec
=============================================================================
