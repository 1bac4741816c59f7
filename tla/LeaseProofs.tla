---------------------------- MODULE LeaseProofs ----------------------------
(***************************************************************************)
(* Proofs about module Lease, for every set of claimants, every choice of  *)
(* durations, clock offsets and resolutions, and every bound.              *)
(***************************************************************************)
EXTENDS LeaseInvariant, TLAPS

-----------------------------------------------------------------------------
(* Arithmetic of the conversions *)

\* Division with remainder by a positive number.
LEMMA DivMod ==
    ASSUME NEW m \in Nat \ {0}, NEW t \in Nat
    PROVE  /\ t \div m \in Nat
           /\ t % m \in 0 .. m - 1
           /\ t = m * (t \div m) + (t % m)
  BY SMT

\* num_seconds() drops less than a second.
LEMMA SecondsLemma ==
    /\ Seconds(LeaseDuration) \in Nat
    /\ LeaseDuration % TicksPerSecond \in Nat
    /\ Seconds(LeaseDuration) * TicksPerSecond
          = LeaseDuration - (LeaseDuration % TicksPerSecond)
  <1>1. /\ LeaseDuration \div TicksPerSecond \in Nat
        /\ LeaseDuration % TicksPerSecond \in 0 .. TicksPerSecond - 1
        /\ LeaseDuration = TicksPerSecond * (LeaseDuration \div TicksPerSecond)
                             + (LeaseDuration % TicksPerSecond)
    BY Zenon, DivMod, ClockAssumption, ParamAssumption
  <1> QED
    BY <1>1, ClockAssumption, ParamAssumption DEF Seconds

LEMMA MicrosProduct ==
    ASSUME NEW t \in Nat
    PROVE  Micros(t) = TicksPerMicro * (t \div TicksPerMicro)
  <1> DEFINE q == t \div TicksPerMicro
  <1>1. /\ q \in Nat
        /\ t % TicksPerMicro \in 0 .. TicksPerMicro - 1
        /\ t = TicksPerMicro * q + (t % TicksPerMicro)
    BY Zenon, DivMod, ClockAssumption
  <1> HIDE DEF q
  <1>2. TicksPerMicro * q \in Nat
    BY <1>1, ClockAssumption
  <1>3. Micros(t) = TicksPerMicro * q
    BY <1>1, <1>2, ClockAssumption DEF Micros
  <1> QED
    BY Zenon, <1>3 DEF q

\* MicroTime drops less than a microsecond, and nothing from a whole one; it
\* keeps the order of timestamps.
LEMMA MicrosLemma ==
    ASSUME NEW t \in Nat
    PROVE  /\ Micros(t) \in Nat
           /\ Micros(t) <= t
           /\ t <= Micros(t) + (TicksPerMicro - 1)
           /\ Micros(Micros(t)) = Micros(t)
  <1> DEFINE m == TicksPerMicro
             q == t \div m
  <1>1. m \in Nat \ {0}
    BY Zenon, ClockAssumption
  <1>2. q \in Nat /\ t % m \in 0 .. m - 1 /\ t = m * q + (t % m)
    BY Zenon, <1>1, DivMod
  <1>3. m * q \in Nat
    BY <1>1, <1>2
  <1>4. Micros(t) = m * q
    BY Zenon, MicrosProduct
  <1> HIDE DEF q
  <1>5. (m * q) % m = 0
    BY <1>1, <1>2
  <1>6. Micros(m * q) = m * q
    BY <1>1, <1>3, <1>5 DEF Micros
  <1> QED
    BY <1>1, <1>2, <1>3, <1>4, <1>6

LEMMA MicrosMonotone ==
    ASSUME NEW s \in Nat, NEW t \in Nat, s <= t
    PROVE  Micros(s) <= Micros(t)
  <1> DEFINE m == TicksPerMicro
             a == s \div m
             b == t \div m
  <1>1. m \in Nat \ {0}
    BY Zenon, ClockAssumption
  <1>2. /\ a \in Nat /\ s % m \in 0 .. m - 1 /\ s = m * a + (s % m)
        /\ b \in Nat /\ t % m \in 0 .. m - 1 /\ t = m * b + (t % m)
    BY Zenon, <1>1, DivMod
  <1>3. Micros(s) = m * a /\ Micros(t) = m * b
    BY Zenon, MicrosProduct
  <1> HIDE DEF a, b
  <1>4. a <= b
    <2>1. SUFFICES ASSUME a >= b + 1 PROVE FALSE
      BY <1>2
    <2>2. m * a >= m * (b + 1)
      BY <1>1, <1>2, <2>1
    <2>3. m * (b + 1) = m * b + m
      BY <1>1, <1>2
    <2> QED
      BY <1>1, <1>2, <2>2, <2>3
  <1>5. m * a <= m * b
    BY <1>1, <1>2, <1>4
  <1> QED
    BY Zenon, <1>3, <1>5

-----------------------------------------------------------------------------
(* Types *)

LEMMA ClockType ==
    ASSUME NEW c \in Claimant, now \in Nat
    PROVE  Clock(c) \in Nat /\ now <= Clock(c) /\ Clock(c) <= now + MaxSkew
  <1>1. Skew[c] \in 0 .. MaxSkew
    BY Zenon, ClockAssumption
  <1> QED
    BY <1>1, ClockAssumption DEF Clock

LEMMA ExpiryType ==
    ASSUME NEW l \in Leases, l.renewTime # Absent,
           l.leaseDurationSeconds # Absent
    PROVE  Expiry(l) \in Nat
  <1>1. l.renewTime \in Nat /\ l.leaseDurationSeconds \in Nat
    BY Zenon DEF Leases
  <1>2. l.leaseDurationSeconds * TicksPerSecond \in Nat
    BY <1>1, ClockAssumption
  <1> QED
    BY <1>1, <1>2 DEF Expiry

LEMMA NothingType ==
    /\ NoClaim \in Claims
    /\ NoState \in States
    /\ NoLease \in Leases
    /\ \A c \in Claimant : NoPatch(c) \in Patches
  BY ParamAssumption
     DEF NoClaim, Claims, NoState, States, NoLease, Leases, NoPatch, Patches,
         Holder, Absent, Kind

LEMMA FromLeaseType ==
    ASSUME NEW c \in Claimant, NEW l \in Leases, now \in Nat
    PROVE  FromLease(c, l) \in States
  <1>1. ToU16(l.transitions) \in 0 .. U16 - 1
    BY ParamAssumption DEF ToU16, Leases
  <1>2. FromLease(c, l).claim \in Claims
    BY Zenon, NothingType, ExpiryType DEF FromLease, Claims, Leases
  <1>3. l.version \in Nat
    BY Zenon DEF Leases
  <1> QED
    BY Zenon, <1>1, <1>2, <1>3 DEF FromLease, States

LEMMA PatchType ==
    ASSUME NEW c \in Claimant, NEW kind \in Kind, NEW st \in States, now \in Nat
    PROVE  Patch(c, kind, st) \in Patches
  <1>1. (st.transitions + 1) % U16 \in 0 .. U16 - 1
    BY ParamAssumption, DivMod DEF States
  <1> QED
    BY Zenon, <1>1, ClockType DEF Patch, Patches, States

LEMMA PatchedType ==
    ASSUME NEW l \in Leases, NEW p \in Patches
    PROVE  Patched(l, p) \in Leases
  <1>1. Micros(p.time) \in Nat /\ Seconds(LeaseDuration) \in Nat
    BY Zenon, MicrosLemma, SecondsLemma DEF Patches
  <1>2. p.kind \in {"acquire", "renew", "vacate"}
    BY Zenon DEF Patches, Kind
  <1>3. CASE p.kind = "acquire"
    BY <1>1, <1>3, ParamAssumption DEF Patched, Leases, Patches, Holder
  <1>4. CASE p.kind = "renew"
    <2> DEFINE l1 == [l EXCEPT !.version = l.version + 1]
               l2 == [l1 EXCEPT !.renewTime = Micros(p.time)]
               l3 == [l2 EXCEPT !.leaseDurationSeconds = Seconds(LeaseDuration)]
    <2>1. l1 \in Leases
      BY DEF Leases
    <2>2. l2 \in Leases
      <3> HIDE DEF l1
      <3> QED  BY Zenon, <1>1, <2>1 DEF Leases
    <2>3. l3 \in Leases
      <3> HIDE DEF l2
      <3> QED  BY Zenon, <1>1, <2>2 DEF Leases
    <2>4. Patched(l, p) = l3
      BY Zenon, <1>4 DEF Patched
    <2> QED
      BY Zenon, <2>3, <2>4
  <1>5. CASE p.kind = "vacate"
    <2> DEFINE l1 == [l EXCEPT !.version = l.version + 1]
               l2 == [l1 EXCEPT !.holder = NoClaimant]
               l3 == [l2 EXCEPT !.renewTime = Absent]
               l4 == [l3 EXCEPT !.leaseDurationSeconds = Absent]
    <2>1. l1 \in Leases
      BY DEF Leases
    <2>2. l2 \in Leases
      <3> HIDE DEF l1
      <3> QED  BY Zenon, <2>1 DEF Leases, Holder
    <2>3. l3 \in Leases
      <3> HIDE DEF l2
      <3> QED  BY Zenon, <2>2 DEF Leases
    <2>4. l4 \in Leases
      <3> HIDE DEF l3
      <3> QED  BY Zenon, <2>3 DEF Leases
    <2>5. Patched(l, p) = l4
      BY Zenon, <1>5 DEF Patched
    <2> QED
      BY Zenon, <2>4, <2>5
  <1> QED
    BY Zenon, <1>2, <1>3, <1>4, <1>5

\* What each patch does to each field of the lease.
LEMMA PatchedFields ==
    ASSUME NEW l \in Leases, NEW p \in Patches
    PROVE  /\ Patched(l, p).version = l.version + 1
           /\ p.kind = "acquire" => /\ Patched(l, p).holder = p.by
                                    /\ Patched(l, p).transitions = p.transitions
           /\ p.kind = "renew" => Patched(l, p).holder = l.holder
           /\ p.kind = "vacate" => Patched(l, p).holder = NoClaimant
           /\ p.kind # "acquire" => Patched(l, p).transitions = l.transitions
           /\ p.kind # "vacate" =>
                 /\ Patched(l, p).renewTime = Micros(p.time)
                 /\ Patched(l, p).leaseDurationSeconds = Seconds(LeaseDuration)
  <1>1. p.kind \in {"acquire", "renew", "vacate"}
    BY Zenon DEF Patches, Kind
  <1>2. CASE p.kind = "acquire"
    BY Zenon, <1>2 DEF Patched
  <1>3. CASE p.kind = "renew"
    BY Zenon, <1>3 DEF Patched, Leases
  <1>4. CASE p.kind = "vacate"
    BY Zenon, <1>4 DEF Patched, Leases
  <1> QED
    BY Zenon, <1>1, <1>2, <1>3, <1>4

LEMMA ClaimOfType ==
    ASSUME NEW p \in Patches
    PROVE  ClaimOf(p) \in Claims
  BY ParamAssumption DEF ClaimOf, Claims, Patches, Holder

LEMMA OwnType ==
    ASSUME NEW c \in Claimant, NEW claim \in Claims
    PROVE  Own(c, claim) \in Claims
  BY Zenon, NothingType DEF Own

\* The steps that Loop can take keep types.
LEMMA LoopType ==
    ASSUME NEW c \in Claimant, NEW st \in States, TypeOK, Loop(c, st)
    PROVE  /\ state' \in [Claimant -> States]
           /\ pc' \in [Claimant ->
                         {"down", "idle", "patch", "patched", "get", "got"}]
           /\ call' \in [Claimant ->
                         {"none", "init", "sync", "ensure_claimed", "vacate"}]
           /\ req' \in [Claimant -> Patches]
           /\ resp' \in [Claimant -> Leases]
           /\ held' \in [Claimant -> Claims]
  <1>1. /\ Patch(c, "renew", st) \in Patches
        /\ Patch(c, "acquire", st) \in Patches
        /\ Own(c, st.claim) \in Claims
    BY Zenon, PatchType, OwnType DEF Kind, TypeOK, States
  <1> QED
    BY <1>1, NothingType DEF Loop, Return, SendPatch, TypeOK

LEMMA TypeStep == TypeOK /\ [Next]_vars => TypeOK'
  <1> SUFFICES ASSUME TypeOK, [Next]_vars PROVE TypeOK'
    BY Zenon
  <1> USE NothingType
  <1>1. ASSUME NEW c \in Claimant, Start(c) PROVE TypeOK'
    BY Zenon, <1>1 DEF Start, SendGet, TypeOK
  <1>2. ASSUME NEW c \in Claimant, Claimed(c) PROVE TypeOK'
    <2>1. Own(c, state[c].claim) \in Claims
      BY Zenon, OwnType DEF TypeOK, States
    <2> QED
      BY Zenon, <1>2, <2>1 DEF Claimed, TypeOK
  <1>3. ASSUME NEW c \in Claimant, Sync(c) PROVE TypeOK'
    BY Zenon, <1>3 DEF Sync, SendGet, TypeOK
  <1>4. ASSUME NEW c \in Claimant, EnsureClaimed(c) PROVE TypeOK'
    <2>1. state[c] \in States
      BY Zenon DEF TypeOK
    <2> QED
      BY Zenon, <1>4, <2>1, LoopType DEF EnsureClaimed, TypeOK
  <1>5. ASSUME NEW c \in Claimant, Vacate(c) PROVE TypeOK'
    <2>1. [state EXCEPT ![c].claim = NoClaim] \in [Claimant -> States]
      BY Zenon DEF TypeOK, States
    <2>2. Patch(c, "vacate", state[c]) \in Patches
      BY Zenon, PatchType DEF TypeOK, Kind
    <2> QED
      BY SMTT(30), <1>5, <2>1, <2>2 DEF Vacate, Return, SendPatch, TypeOK
  <1>6. ASSUME NEW c \in Claimant, ServerPatch(c) PROVE TypeOK'
    <2>1. Patched(lease, req[c]) \in Leases
      BY Zenon, PatchedType DEF TypeOK
    <2> QED
      BY Zenon, <1>6, <2>1 DEF ServerPatch, TypeOK
  <1>7. ASSUME NEW c \in Claimant, ServerGet(c) PROVE TypeOK'
    BY Zenon, <1>7 DEF ServerGet, TypeOK
  <1>8. ASSUME NEW c \in Claimant, OnPatched(c) PROVE TypeOK'
    <2>1. ClaimOf(req[c]) \in Claims
      BY Zenon, ClaimOfType DEF TypeOK
    <2>2. [claim |-> ClaimOf(req[c]), version |-> resp[c].version,
           transitions |-> req[c].transitions] \in States
      BY Zenon, <2>1 DEF TypeOK, States, Leases, Patches
    <2> QED
      BY <1>8, <2>1, <2>2 DEF OnPatched, Return, TypeOK
  <1>9. ASSUME NEW c \in Claimant, OnConflict(c) PROVE TypeOK'
    BY <1>9 DEF OnConflict, Return, SendGet, TypeOK
  <1>10. ASSUME NEW c \in Claimant, OnGot(c) PROVE TypeOK'
    <2> DEFINE st == FromLease(c, resp[c])
    <2>1. st \in States
      BY Zenon, FromLeaseType DEF TypeOK
    <2>2. Own(c, st.claim) \in Claims
      BY Zenon, <2>1, OwnType DEF States
    <2> HIDE DEF st
    <2>3. CASE Loop(c, st)
      BY Zenon, <1>10, <2>1, <2>3, LoopType DEF OnGot, TypeOK
    <2>4. CASE /\ state' = [state EXCEPT ![c] = st]
               /\ held' = [held EXCEPT ![c] = Own(c, st.claim)] \/ UNCHANGED held
               /\ Return(c)
      BY <1>10, <2>1, <2>2, <2>4 DEF OnGot, Return, TypeOK
    <2> QED
      BY Zenon, <1>10, <2>3, <2>4 DEF OnGot, st
  <1>11. ASSUME NEW c \in Claimant, Fail(c) PROVE TypeOK'
    <2>1. late' \in SUBSET Patches
      BY <1>11 DEF Fail, Abandon, TypeOK
    <2> QED
      BY Zenon, <1>11, <2>1 DEF Fail, TypeOK
  <1>12. ASSUME NEW c \in Claimant, Crash(c) PROVE TypeOK'
    <2>1. late' \in SUBSET Patches
      BY <1>12 DEF Crash, Abandon, TypeOK
    <2> QED
      BY Zenon, <1>12, <2>1 DEF Crash, TypeOK
  <1>13. CASE Tick
    BY <1>13 DEF Tick, managerVars, TypeOK
  <1>14. CASE Touch
    <2>1. [lease EXCEPT !.version = @ + 1] \in Leases
      BY SMTT(30) DEF TypeOK, Leases
    <2> QED
      BY Zenon, <1>14, <2>1 DEF Touch, managerVars, TypeOK
  <1>15. ASSUME NEW p \in late, ServerLate(p) PROVE TypeOK'
    <2>1. Patched(lease, p) \in Leases
      BY Zenon, PatchedType DEF TypeOK
    <2> QED
      BY Zenon, <1>15, <2>1 DEF ServerLate, managerVars, TypeOK
  <1>16. CASE UNCHANGED vars
    BY Zenon, <1>16 DEF vars, TypeOK
  <1> QED
    BY Zenon, <1>1, <1>2, <1>3, <1>4, <1>5, <1>6, <1>7, <1>8, <1>9, <1>10,
       <1>11,
       <1>12, <1>13, <1>14, <1>15, <1>16
       DEF Next, Call, ApiStep, Environment

LEMMA TypeInit == Init => TypeOK
  <1>1. [NoLease EXCEPT !.version = 1] \in Leases
    BY Zenon, NothingType DEF Leases
  <1> QED
    BY <1>1, NothingType DEF Init, TypeOK

\* Every variable keeps its type.
THEOREM TypeCorrect == Spec => []TypeOK
  BY TypeInit, TypeStep, PTL DEF Spec

-----------------------------------------------------------------------------
(* How the parts of the invariant carry over a step *)

LEMMA SlackType ==
    /\ Loss \in Nat
    /\ Slack \in Nat
    /\ Slack = MaxSkew + Loss
  BY SecondsLemma, ClockAssumption DEF Loss, Slack

\* The recorded expiry of a lease that a manager wrote.
LEMMA WrittenExpiry ==
    ASSUME NEW l \in Leases, l.holder # NoClaimant, WellFormed(l)
    PROVE  /\ l.renewTime \in Nat
           /\ Expiry(l) \in Nat
           /\ Expiry(l) = l.renewTime
                 + (LeaseDuration - (LeaseDuration % TicksPerSecond))
  <1>1. l.renewTime \in Nat
    BY Zenon DEF WellFormed, Leases
  <1>2. Expiry(l) = l.renewTime
                 + (LeaseDuration - (LeaseDuration % TicksPerSecond))
    BY Zenon, SecondsLemma DEF WellFormed, Expiry
  <1>3. Expiry(l) \in Nat
    <2>1. l.leaseDurationSeconds # Absent
      BY SecondsLemma DEF WellFormed, Absent
    <2> QED
      BY <1>1, <2>1, ExpiryType DEF Absent
  <1> QED
    BY Zenon, <1>1, <1>2, <1>3

\* The lease is as it was, or has a new version.
Moves ==
    \/ lease' = lease /\ now <= now'
    \/ lease'.version = lease.version + 1 /\ now' = now

KeepsBacked(d) == \A e \in Nat : Backed(d, e) => Backed(d, e)'

Same(d) ==
    /\ state'[d] = state[d]
    /\ pc'[d] = pc[d]
    /\ call'[d] = call[d]
    /\ req'[d] = req[d]
    /\ resp'[d] = resp[d]
    /\ held'[d] = held[d]

LEMMA ClockMoves ==
    ASSUME TypeOK, TypeOK', Moves, NEW c \in Claimant
    PROVE  Clock(c) \in Nat /\ Clock(c)' \in Nat /\ Clock(c) <= Clock(c)'
  <1>1. Skew[c] \in Nat
    BY ClockAssumption
  <1> QED
    BY <1>1 DEF Clock, TypeOK, Moves

LEMMA WellFormedMoves ==
    ASSUME TypeOK, TypeOK', Moves, NEW l \in Leases, WellFormed(l)
    PROVE  WellFormed(l)'
  <1>1. CASE l.holder = NoClaimant
    BY Zenon, <1>1 DEF WellFormed
  <1>2. CASE l.holder # NoClaimant
    <2>1. l.holder \in Claimant
      BY Zenon, <1>2 DEF Leases, Holder
    <2>2. l.renewTime \in Nat
      BY Zenon, <1>2, WrittenExpiry
    <2> QED
      BY <1>2, <2>1, <2>2, ClockMoves DEF WellFormed, Micros
  <1> QED
    BY Zenon, <1>1, <1>2

LEMMA AcquirableMoves ==
    ASSUME TypeOK, TypeOK', WellFormed(lease), lease' = lease, now <= now',
           NEW c \in Claimant, Acquirable(c)
    PROVE  Acquirable(c)'
  <1>1. CASE lease.holder \in {NoClaimant, c}
    BY Zenon, <1>1 DEF Acquirable
  <1>2. CASE lease.holder # NoClaimant /\ Expiry(lease) <= Clock(c)
    <2>1. Expiry(lease) \in Nat
      BY Zenon, <1>2, WrittenExpiry DEF TypeOK
    <2>2. Clock(c) \in Nat /\ Clock(c)' \in Nat /\ Clock(c) <= Clock(c)'
      BY Zenon, ClockMoves DEF Moves
    <2>3. Expiry(lease)' = Expiry(lease)
      BY Zenon DEF Expiry
    <2> QED
      BY <1>2, <2>1, <2>2, <2>3 DEF Acquirable
  <1> QED
    BY Zenon, <1>1, <1>2 DEF Acquirable

LEMMA JustifiedMoves ==
    ASSUME TypeOK, TypeOK', Moves, WellFormed(lease),
           NEW p \in Patches, Justified(p)
    PROVE  Justified(p)'
  <1>1. /\ p.by \in Claimant /\ p.version \in Nat /\ p.time \in Nat
        /\ lease.version \in Nat /\ lease'.version \in Nat
    BY Zenon DEF Patches, TypeOK, Leases
  <1>2. p.time <= Clock(p.by)'
    BY <1>1, ClockMoves DEF Justified
  <1>3. CASE lease' = lease /\ now <= now'
    <2>1. Acquirable(p.by) => Acquirable(p.by)'
      BY Zenon, <1>1, <1>3, AcquirableMoves
    <2> QED
      BY Zenon, <1>2, <1>3, <2>1 DEF Justified, Micros
  <1>4. CASE lease'.version = lease.version + 1
    BY <1>1, <1>2, <1>4 DEF Justified
  <1> QED
    BY Zenon, <1>3, <1>4 DEF Moves

LEMMA CoherentMoves ==
    ASSUME TypeOK, TypeOK', Moves, WellFormed(lease),
           NEW c \in Claimant, KeepsBacked(c),
           NEW st \in States, Coherent(c, st)
    PROVE  Coherent(c, st)'
  <1>1. /\ st.version \in Nat /\ st.claim.expiry \in Nat
        /\ lease.version \in Nat /\ lease'.version \in Nat
    BY Zenon DEF States, Claims, TypeOK, Leases
  <1>2. st.claim.holder = c => Backed(c, st.claim.expiry)'
    BY Zenon, <1>1 DEF Coherent, KeepsBacked
  <1>3. CASE lease' = lease /\ now <= now'
    <2>1. Acquirable(c) => Acquirable(c)'
      BY Zenon, <1>3, AcquirableMoves
    <2> QED
      BY Zenon, <1>2, <1>3, <2>1 DEF Coherent, Expiry
  <1>4. CASE lease'.version = lease.version + 1
    BY <1>1, <1>2, <1>4 DEF Coherent
  <1> QED
    BY Zenon, <1>3, <1>4 DEF Moves

LEMMA ReceivingMoves ==
    ASSUME Inv, TypeOK', Moves,
           NEW d \in Claimant, Same(d), KeepsBacked(d)
    PROVE  Receiving(d)'
  <1>1. /\ resp[d] \in Leases /\ req[d] \in Patches
        /\ resp[d].version \in Nat /\ req[d].time \in Nat
        /\ lease.version \in Nat /\ lease'.version \in Nat
    BY Zenon DEF Inv, TypeOK, Leases, Patches
  <1>2. Receiving(d)
    BY Zenon DEF Inv, ManagerInv
  <1>3. ASSUME pc[d] = "patched", call[d] # "vacate"
        PROVE  /\ resp[d].version <= lease'.version
               /\ Backed(d, req[d].time + LeaseDuration)'
               /\ resp[d].version = lease'.version =>
                     /\ lease'.holder = d
                     /\ lease'.transitions = req[d].transitions
    <2>1. req[d].time + LeaseDuration \in Nat
      BY <1>1, ParamAssumption
    <2>2. Backed(d, req[d].time + LeaseDuration)'
      <3>1. ASSUME NEW e \in Nat, Backed(d, e) PROVE Backed(d, e)'
        BY Zenon, <3>1 DEF KeepsBacked
      <3> DEFINE e == req[d].time + LeaseDuration
      <3>2. Backed(d, e)
        BY Zenon, <1>2, <1>3 DEF Receiving
      <3>3. e' = e
        BY Zenon DEF Same
      <3> QED
        BY Zenon, <2>1, <3>1, <3>2, <3>3 DEF Same, Backed
    <2> QED
      BY <1>1, <1>2, <1>3, <2>2 DEF Receiving, Moves
  <1>4. ASSUME pc[d] = "got"
        PROVE  /\ resp[d].version <= lease'.version
               /\ WellFormed(resp[d])'
               /\ resp[d].version = lease'.version => resp[d] = lease'
               /\ resp[d].holder = d => Backed(d, Expiry(resp[d]))'
    <2>1. WellFormed(resp[d])
      BY Zenon, <1>2, <1>4 DEF Receiving
    <2>2. WellFormed(resp[d])'
      BY Zenon, <1>1, <2>1, WellFormedMoves DEF Inv, Same, WellFormed, Clock
    <2>3. ASSUME resp[d].holder = d PROVE Backed(d, Expiry(resp[d]))'
      <3>1. Expiry(resp[d]) \in Nat
        BY Zenon, <1>1, <2>1, <2>3, WrittenExpiry, ClaimantAssumption
      <3> QED
        BY Zenon, <1>2, <1>4, <2>3, <3>1
           DEF Receiving, KeepsBacked, Same, Backed, Expiry
    <2> QED
      BY <1>1, <1>2, <1>4, <2>2, <2>3 DEF Receiving, Moves
  <1> QED
    BY Zenon, <1>3, <1>4 DEF Receiving, Same

\* A manager that takes no part in a step.
LEMMA Frame ==
    ASSUME Inv, TypeOK', Moves,
           NEW d \in Claimant, Same(d), KeepsBacked(d)
    PROVE  ManagerInv(d)'
  <1>1. Coherent(d, state[d])'
    <2>1. PICK st \in States : st = state[d]
      BY Zenon DEF Inv, TypeOK
    <2>2. Coherent(d, st)
      BY Zenon, <2>1 DEF Inv, ManagerInv
    <2>3. Coherent(d, st)'
      BY Zenon, <2>2, CoherentMoves DEF Inv
    <2>4. state'[d] = st
      BY Zenon, <2>1 DEF Same
    <2> QED
      BY Zenon, <2>3, <2>4 DEF Coherent
  <1>2. pc[d] = "patch" => Justified(req[d])'
    <2> HAVE pc[d] = "patch"
    <2>1. PICK p \in Patches : p = req[d]
      BY Zenon DEF Inv, TypeOK
    <2>2. Justified(p)
      BY Zenon, <2>1 DEF Inv, ManagerInv
    <2>3. Justified(p)'
      BY Zenon, <2>2, JustifiedMoves DEF Inv
    <2>4. req'[d] = p
      BY Zenon, <2>1 DEF Same
    <2> QED
      BY Zenon, <2>3, <2>4 DEF Justified
  <1>3. Receiving(d)'
    BY Zenon, ReceivingMoves
  <1>4. Acting(d)'
    <2>1. held[d].expiry \in Nat
      BY Zenon DEF Inv, TypeOK, Claims
    <2> QED
      BY <2>1 DEF Inv, ManagerInv, Acting, KeepsBacked, Same, Backed
  <1> QED
    BY Zenon, <1>1, <1>2, <1>3, <1>4 DEF ManagerInv, Same

LEMMA QuietKeepsBacked ==
    ASSUME TypeOK, TypeOK', lease' = lease, now <= now', NEW d \in Claimant
    PROVE  KeepsBacked(d)
  <1> SUFFICES ASSUME NEW e \in Nat, Backed(d, e) PROVE Backed(d, e)'
    BY Zenon DEF KeepsBacked
  <1> QED
    BY SlackType DEF Backed, Expiry, TypeOK

\* A patch that the server applies backs every claim that it finds backed,
\* except that a vacate gives up those of its own sender.
LEMMA PatchKeepsBacked ==
    ASSUME Inv, NEW p \in Patches, Justified(p), Matches(lease, p),
           lease' = Patched(lease, p), now' = now,
           NEW d \in Claimant, p.kind # "vacate" \/ d # p.by
    PROVE  KeepsBacked(d)
  <1> SUFFICES ASSUME NEW e \in Nat, Backed(d, e) PROVE Backed(d, e)'
    BY Zenon DEF KeepsBacked
  <1>1. /\ lease \in Leases /\ now \in Nat /\ p.by \in Claimant
        /\ p.kind \in {"acquire", "renew", "vacate"} /\ p.time \in Nat
    BY Zenon DEF Inv, TypeOK, Patches, Kind
  <1>2. CASE e <= now + Slack
    BY Zenon, <1>2 DEF Backed
  <1>3. CASE lease.holder = d /\ e <= Expiry(lease) + Loss
    <2>1. lease.holder # NoClaimant /\ WellFormed(lease)
      BY Zenon, <1>3, ClaimantAssumption DEF Inv
    <2>2. /\ lease.renewTime \in Nat
          /\ Expiry(lease) \in Nat
          /\ Expiry(lease) = lease.renewTime
                + (LeaseDuration - (LeaseDuration % TicksPerSecond))
      BY Zenon, <1>1, <2>1, WrittenExpiry
    <2>3. CASE d = p.by
      <3>1. p.kind # "vacate"
        BY Zenon, <2>3
      <3>2. lease'.holder = d
        BY Zenon, <1>1, <1>3, <2>3, <3>1, PatchedFields
      <3>3. Expiry(lease)' = Micros(p.time)
                + (LeaseDuration - (LeaseDuration % TicksPerSecond))
        BY Zenon, <1>1, <3>1, PatchedFields, SecondsLemma DEF Expiry
      <3>4. lease.renewTime <= Micros(p.time)
        BY Zenon, <1>3, <2>3 DEF Justified, Matches
      <3> QED
        BY <1>1, <1>3, <2>2, <3>2, <3>3, <3>4, MicrosLemma, SecondsLemma,
           SlackType, ParamAssumption DEF Backed
    <2>4. CASE d # p.by
      <3>1. Expiry(lease) <= Clock(p.by)
        BY Zenon, <1>3, <2>1, <2>4 DEF Justified, Matches, Acquirable
      <3>2. Clock(p.by) \in Nat /\ Clock(p.by) <= now + MaxSkew
        BY Zenon, <1>1, ClockType
      <3>3. e <= now + Slack
        BY <1>1, <1>3, <2>2, <3>1, <3>2, SlackType, ClockAssumption
      <3> QED
        BY Zenon, <3>3 DEF Backed
    <2> QED
      BY Zenon, <2>3, <2>4
  <1> QED
    BY Zenon, <1>2, <1>3 DEF Backed

LEMMA PatchedWellFormed ==
    ASSUME Inv, NEW p \in Patches, Justified(p), Matches(lease, p),
           lease' = Patched(lease, p), now' = now
    PROVE  WellFormed(lease)'
  <1>1. /\ lease \in Leases /\ now \in Nat /\ p.by \in Claimant
        /\ p.kind \in {"acquire", "renew", "vacate"} /\ p.time \in Nat
        /\ p.transitions \in Nat /\ p.transitions < U16
    BY ParamAssumption DEF Inv, TypeOK, Patches, Kind
  <1>2. lease'.transitions < U16
    BY Zenon, <1>1, PatchedFields DEF Inv, WellFormed
  <1>3. CASE p.kind = "vacate"
    BY Zenon, <1>1, <1>2, <1>3, PatchedFields DEF WellFormed
  <1>4. CASE p.kind # "vacate"
    <2>1. /\ lease'.holder = p.by
          /\ lease'.renewTime = Micros(p.time)
          /\ lease'.leaseDurationSeconds = Seconds(LeaseDuration)
      BY Zenon, <1>1, <1>4, PatchedFields DEF Justified, Matches
    <2>2. Clock(p.by) \in Nat /\ Clock(p.by)' = Clock(p.by)
      BY Zenon, <1>1, ClockType DEF Clock
    <2>3. /\ Micros(p.time) \in Nat
          /\ Micros(p.time) <= p.time
          /\ Micros(Micros(p.time)) = Micros(p.time)
      BY Zenon, <1>1, MicrosLemma
    <2>4. Micros(p.time) <= Clock(p.by)'
      BY <1>1, <2>2, <2>3 DEF Justified
    <2>5. Clock(lease.holder)' = Clock(p.by)'
      BY Zenon, <2>1 DEF Clock
    <2>6. lease'.renewTime = Micros(lease'.renewTime)
      BY Zenon, <2>1, <2>3
    <2> QED
      BY <1>2, <2>1, <2>3, <2>4, <2>5, <2>6 DEF WellFormed, Absent
  <1> QED
    BY Zenon, <1>3, <1>4

\* It is enough to look at the manager that acts.
LEMMA Assemble ==
    ASSUME Inv, TypeOK', Moves, WellFormed(lease)',
           \A p \in late' : \/ p \in late
                            \/ p.kind # "vacate" /\ p \in Patches /\ Justified(p),
           \A d \in Claimant : ManagerInv(d)'
    PROVE  Inv'
  <1>1. lease'.version > 0
    BY DEF Inv, TypeOK, Leases, Moves
  <1>2. ASSUME NEW p \in late' PROVE p.kind # "vacate" /\ Justified(p)'
    <2>1. p.kind # "vacate" /\ p \in Patches /\ Justified(p)
      BY Zenon, <1>2 DEF Inv, TypeOK
    <2> QED
      BY Zenon, <2>1, JustifiedMoves DEF Inv
  <1> QED
    BY Zenon, <1>1, <1>2 DEF Inv

\* A step of c's manager alone.
LEMMA LocalStep ==
    ASSUME Inv, TypeOK', lease' = lease, now' = now,
           NEW c \in Claimant, ManagerInv(c)',
           \A d \in Claimant \ {c} : Same(d),
           \A p \in late' : \/ p \in late
                            \/ p.kind # "vacate" /\ p \in Patches /\ Justified(p)
    PROVE  Inv'
  <1>1. Moves
    BY DEF Moves, Inv, TypeOK
  <1>2. WellFormed(lease)'
    BY Zenon, <1>1, WellFormedMoves DEF Inv, TypeOK, WellFormed, Clock
  <1>3. ASSUME NEW d \in Claimant, d # c PROVE ManagerInv(d)'
    BY SMTT(30), <1>1, <1>3, Frame, QuietKeepsBacked DEF Inv, TypeOK
  <1>4. \A d \in Claimant : ManagerInv(d)'
    BY Zenon, <1>3
  <1> QED
    BY Zenon, <1>1, <1>2, <1>4, Assemble

-----------------------------------------------------------------------------
(* The actions *)

\* A get that found the lease at its current version yields a coherent state.
LEMMA GotCoherent ==
    ASSUME Inv, NEW c \in Claimant, pc[c] = "got"
    PROVE  Coherent(c, FromLease(c, resp[c]))
  <1> DEFINE l == resp[c]
             st == FromLease(c, l)
  <1>1. /\ l \in Leases /\ WellFormed(l)
        /\ l.version <= lease.version
        /\ l.version = lease.version => l = lease
        /\ l.holder = c => Backed(c, Expiry(l))
    BY Zenon DEF Inv, TypeOK, ManagerInv, Receiving
  <1>2. st.version = l.version
    BY Zenon DEF FromLease
  <1>3. ToU16(l.transitions) = l.transitions /\ st.transitions = l.transitions
    BY Zenon, <1>1 DEF ToU16, WellFormed, FromLease
  <1>4. l.holder # NoClaimant =>
           l.renewTime # Absent /\ l.leaseDurationSeconds # Absent
    BY <1>1, SecondsLemma DEF WellFormed, Absent
  <1>5. CASE l.holder = NoClaimant \/ Expiry(l) <= Clock(c)
    <2>1. st.claim.holder = NoClaimant
      BY Zenon, <1>5 DEF FromLease, NoClaim
    <2> HIDE DEF st
    <2>2. Coherent(c, st)
      BY Zenon, <1>1, <1>2, <1>3, <1>5, <2>1, ClaimantAssumption
         DEF Coherent, Acquirable
    <2> QED
      BY Zenon, <2>2 DEF st
  <1>6. CASE l.holder # NoClaimant /\ ~(Expiry(l) <= Clock(c))
    <2>1. st.claim.holder = l.holder /\ st.claim.expiry = Expiry(l)
      BY Zenon, <1>4, <1>6 DEF FromLease
    <2> HIDE DEF st
    <2>2. Coherent(c, st)
      BY Zenon, <1>1, <1>2, <1>3, <1>6, <2>1 DEF Coherent
    <2> QED
      BY Zenon, <2>2 DEF st
  <1> QED
    BY Zenon, <1>5, <1>6

\* The patch that ensure_claimed or vacate sends is justified by the state it
\* is built from.
LEMMA PatchJustified ==
    ASSUME Inv, NEW c \in Claimant, NEW st \in States, Coherent(c, st),
           NEW kind \in Kind,
           IF kind = "acquire"
           THEN /\ st.claim.holder # c
                /\ st.claim.holder \in Claimant => ~IsCurrent(c, st.claim)
           ELSE st.claim.holder = c
    PROVE  Justified(Patch(c, kind, st))
  <1> DEFINE p == Patch(c, kind, st)
  <1>1. /\ p.kind = kind /\ p.by = c /\ p.version = st.version
        /\ p.time = Clock(c)
        /\ p.transitions = IF kind = "acquire" THEN (st.transitions + 1) % U16
                                               ELSE st.transitions
    BY Zenon DEF Patch
  <1> HIDE DEF p
  <1>2. lease \in Leases /\ Clock(c) \in Nat
    BY Zenon, ClockType DEF Inv, TypeOK
  <1>3. ASSUME lease.holder = c PROVE lease.renewTime <= Micros(Clock(c))
    <2>1. /\ lease.renewTime = Micros(lease.renewTime)
          /\ lease.renewTime <= Clock(c)
      BY Zenon, <1>3, ClaimantAssumption DEF Inv, WellFormed
    <2>2. lease.renewTime \in Nat
      BY Zenon, <1>2, <1>3, ClaimantAssumption, WrittenExpiry DEF Inv
    <2> QED
      BY Zenon, <1>2, <2>1, <2>2, MicrosMonotone
  <1>4. ASSUME kind = "acquire", st.version = lease.version
        PROVE  Acquirable(c)
    <2>1. CASE st.claim.holder = NoClaimant
      BY Zenon, <1>4, <2>1 DEF Coherent
    <2>2. CASE st.claim.holder \in Claimant
      <3>1. lease.holder # c /\ st.claim.expiry = Expiry(lease)
        BY Zenon, <1>4, <2>2, ClaimantAssumption DEF Coherent
      <3>2. st.claim.expiry \in Nat /\ ~(Clock(c) < st.claim.expiry)
        BY Zenon, <1>4, <2>2 DEF IsCurrent, States, Claims
      <3> QED
        BY <1>2, <3>1, <3>2 DEF Acquirable
    <2> QED
      BY Zenon, <2>1, <2>2 DEF States, Claims, Holder
  <1>5. ASSUME kind # "acquire", st.version = lease.version
        PROVE  lease.holder = c
    BY Zenon, <1>5, ClaimantAssumption DEF Coherent
  <1>6. Justified(p)
    BY SMTT(30), <1>1, <1>2, <1>3, <1>4, <1>5 DEF Justified, Coherent
  <1> QED
    BY Zenon, <1>6 DEF p

\* What c itself may assume at a step that leaves the lease alone.
LEMMA StillHere ==
    ASSUME lease' = lease, now' = now
    PROVE  /\ \A c \in Claimant, e \in Nat : Backed(c, e) <=> Backed(c, e)'
           /\ \A c \in Claimant, st \in States :
                 Coherent(c, st) <=> Coherent(c, st)'
           /\ \A p \in Patches : Justified(p) <=> Justified(p)'
  BY SMTT(30) DEF Backed, Coherent, Justified, Acquirable, Clock, Expiry

\* One turn of ensure_claimed's loop.
LEMMA LoopStep ==
    ASSUME Inv, TypeOK', lease' = lease, now' = now,
           NEW c \in Claimant, NEW st \in States, Coherent(c, st), Loop(c, st),
           pc[c] \in {"idle", "got"}
    PROVE  ManagerInv(c)' /\ \A d \in Claimant \ {c} : Same(d)
  <1>1. \A d \in Claimant \ {c} : Same(d)
    BY SMTT(30) DEF Loop, Return, SendPatch, Same, Inv, TypeOK
  <1>2. state'[c] = st
    BY Zenon DEF Loop, Inv, TypeOK
  <1>3. Coherent(c, state[c])'
    BY Zenon, <1>2, StillHere DEF Coherent
  <1>4. /\ held[c].holder \in {c, NoClaimant}
        /\ held[c].holder = c => Backed(c, held[c].expiry)
    BY Zenon DEF Inv, ManagerInv, Acting
  <1>5. CASE /\ held' = [held EXCEPT ![c] = Own(c, st.claim)]
             /\ Return(c)
    <2>1. pc'[c] = "idle" /\ held'[c] = Own(c, st.claim)
      BY <1>5 DEF Return, Inv, TypeOK
    <2>2. /\ Own(c, st.claim).holder \in {c, NoClaimant}
          /\ Own(c, st.claim).holder = c => Own(c, st.claim) = st.claim
      BY Zenon, ClaimantAssumption DEF Own, NoClaim
    <2>3. /\ held'[c].holder \in {c, NoClaimant}
          /\ held'[c].holder = c => Backed(c, held[c].expiry)'
      BY Zenon, <2>1, <2>2 DEF Coherent, Backed, Expiry
    <2> QED
      BY Zenon, <1>1, <1>3, <2>1, <2>3 DEF ManagerInv, Acting, Receiving
  <1>6. ASSUME NEW kind \in {"renew", "acquire"},
               SendPatch(c, kind, st), UNCHANGED held,
               IF kind = "acquire"
               THEN /\ st.claim.holder # c
                    /\ st.claim.holder \in Claimant => ~IsCurrent(c, st.claim)
               ELSE st.claim.holder = c
        PROVE  ManagerInv(c)'
    <2>1. /\ pc'[c] = "patch" /\ call'[c] = "ensure_claimed"
          /\ req'[c] = Patch(c, kind, st)
      BY SMTT(30), <1>6 DEF SendPatch, Inv, TypeOK
    <2>2. req'[c].by = c /\ req'[c].kind = kind
      BY <2>1 DEF Patch
    <2>3. Justified(Patch(c, kind, st))
      BY Zenon, <1>6, PatchJustified DEF Kind
    <2>4. Justified(req[c])'
      BY Zenon, <2>1, <2>3 DEF Justified, Acquirable, Clock, Expiry
    <2>5. /\ held'[c].holder \in {c, NoClaimant}
          /\ held'[c].holder = c => Backed(c, held[c].expiry)'
      BY Zenon, <1>4, <1>6 DEF Backed, Expiry
    <2> QED
      BY Zenon, <1>3, <1>6, <2>1, <2>2, <2>4, <2>5
         DEF ManagerInv, Acting, Receiving
  <1> QED
    BY Zenon, <1>1, <1>5, <1>6 DEF Loop

LEMMA StartStep ==
    ASSUME Inv, TypeOK', NEW c \in Claimant, Start(c) \/ Sync(c)
    PROVE  Inv'
  <1>1. /\ lease' = lease /\ now' = now /\ late' = late
        /\ pc'[c] = "get" /\ call'[c] \in {"init", "sync"}
        /\ state'[c] = state[c] /\ held'[c] = held[c]
        /\ \A d \in Claimant \ {c} : Same(d)
    BY DEF Start, Sync, SendGet, Same, Inv, TypeOK
  <1>2. Coherent(c, state[c])'
    BY Zenon, <1>1
       DEF Inv, ManagerInv, Coherent, Acquirable, Backed, Expiry, Clock
  <1>3. ManagerInv(c)'
    BY ZenonT(30), <1>1, <1>2
       DEF Inv, ManagerInv, Acting, Receiving, Backed, Expiry
  <1> QED
    BY Zenon, <1>1, <1>3, LocalStep

LEMMA ClaimedStep ==
    ASSUME Inv, TypeOK', NEW c \in Claimant, Claimed(c)
    PROVE  Inv'
  <1>1. /\ lease' = lease /\ now' = now /\ late' = late
        /\ pc'[c] = "idle" /\ state'[c] = state[c]
        /\ held'[c] = Own(c, state[c].claim)
        /\ \A d \in Claimant \ {c} : Same(d)
    BY ZenonT(30) DEF Claimed, Idle, Same, Inv, TypeOK
  <1>2. Coherent(c, state[c])'
    BY Zenon, <1>1
       DEF Inv, ManagerInv, Coherent, Acquirable, Backed, Expiry, Clock
  <1>3. /\ Own(c, state[c].claim).holder \in {c, NoClaimant}
        /\ Own(c, state[c].claim).holder = c
              => Own(c, state[c].claim) = state[c].claim
    BY Zenon, ClaimantAssumption DEF Own, NoClaim
  <1>4. ManagerInv(c)'
    BY Zenon, <1>1, <1>2, <1>3 DEF ManagerInv, Acting, Receiving, Coherent
  <1> QED
    BY Zenon, <1>1, <1>4, LocalStep

LEMMA EnsureClaimedStep ==
    ASSUME Inv, TypeOK', NEW c \in Claimant, EnsureClaimed(c)
    PROVE  Inv'
  <1>1. state[c] \in States /\ Coherent(c, state[c])
    BY Zenon DEF Inv, TypeOK, ManagerInv
  <1> QED
    BY Zenon, <1>1, LoopStep, LocalStep DEF EnsureClaimed, Idle

LEMMA VacateStep ==
    ASSUME Inv, TypeOK', NEW c \in Claimant, Vacate(c)
    PROVE  Inv'
  <1>1. /\ lease' = lease /\ now' = now /\ late' = late
        /\ held'[c] = NoClaim
        /\ \A d \in Claimant \ {c} : Same(d)
    BY DEF Vacate, Return, SendPatch, Same, Inv, TypeOK
  <1>2. NoClaim.holder = NoClaimant
    BY Zenon DEF NoClaim
  <1>3. /\ state[c] \in States /\ Coherent(c, state[c])
        /\ Clock(c) \in Nat
    BY Zenon, ClockType DEF Inv, TypeOK, ManagerInv
  <1>4. ASSUME state' = [state EXCEPT ![c].claim = NoClaim],
               \/ state[c].claim.holder = NoClaimant
               \/ ~IsCurrent(c, state[c].claim)
               \/ state[c].claim.holder = c
        PROVE  Coherent(c, state[c])'
    <2>1. /\ state'[c].claim = NoClaim
          /\ state'[c].version = state[c].version
          /\ state'[c].transitions = state[c].transitions
      BY <1>4 DEF Inv, TypeOK, States
    <2>2. state[c].version = lease.version => Acquirable(c)
      <3>1. CASE state[c].claim.holder = NoClaimant
        BY Zenon, <1>3, <3>1 DEF Coherent
      <3>2. CASE state[c].claim.holder = c
        BY Zenon, <1>3, <3>2, ClaimantAssumption DEF Coherent, Acquirable
      <3>3. CASE /\ state[c].claim.holder \in Claimant \ {c}
                 /\ ~IsCurrent(c, state[c].claim)
        <4>1. state[c].claim.expiry \in Nat
          BY Zenon, <1>3 DEF States, Claims
        <4> QED
          BY <1>3, <3>3, <4>1, ClaimantAssumption
             DEF Coherent, Acquirable, IsCurrent
      <3> QED
        BY Zenon, <1>3, <1>4, <3>1, <3>2, <3>3 DEF States, Claims, Holder
    <2>3. Acquirable(c)' <=> Acquirable(c)
      BY Zenon, <1>1 DEF Acquirable, Expiry, Clock
    <2> QED
      BY Zenon, <1>1, <1>2, <1>3, <2>1, <2>2, <2>3, ClaimantAssumption
         DEF Coherent
  <1>5. CASE Return(c) /\ UNCHANGED state
    <2>1. pc'[c] = "idle"
      BY <1>5 DEF Return, Inv, TypeOK
    <2>2. Coherent(c, state[c])'
      BY Zenon, <1>1, <1>3, <1>5
         DEF Coherent, Acquirable, Backed, Expiry, Clock
    <2> QED
      BY Zenon, <1>1, <1>2, <2>1, <2>2, LocalStep, ClaimantAssumption
         DEF ManagerInv, Acting, Receiving
  <1>6. CASE /\ Return(c)
             /\ state' = [state EXCEPT ![c].claim = NoClaim]
             /\ \/ state[c].claim.holder = NoClaimant
                \/ ~IsCurrent(c, state[c].claim)
    <2>1. pc'[c] = "idle"
      BY ZenonT(30), <1>6 DEF Return, Inv, TypeOK
    <2>2. Coherent(c, state[c])'
      BY Zenon, <1>4, <1>6
    <2> QED
      BY Zenon, <1>1, <1>2, <2>1, <2>2, LocalStep, ClaimantAssumption
         DEF ManagerInv, Acting, Receiving
  <1>7. CASE /\ SendPatch(c, "vacate", state[c])
             /\ state' = [state EXCEPT ![c].claim = NoClaim]
             /\ state[c].claim.holder = c
    <2>1. /\ pc'[c] = "patch" /\ call'[c] = "vacate"
          /\ req'[c] = Patch(c, "vacate", state[c])
          /\ state'[c].claim = NoClaim
      BY <1>7 DEF SendPatch, Inv, TypeOK, States
    <2>2. req'[c].by = c /\ req'[c].kind = "vacate"
      BY <2>1 DEF Patch
    <2>3. Justified(Patch(c, "vacate", state[c]))
      BY Zenon, <1>3, <1>7, PatchJustified DEF Kind
    <2>4. Justified(req[c])'
      BY Zenon, <1>1, <2>1, <2>3 DEF Justified, Acquirable, Clock, Expiry
    <2>5. Coherent(c, state[c])'
      BY Zenon, <1>4, <1>7
    <2>6. ManagerInv(c)'
      BY Zenon, <1>1, <1>2, <2>1, <2>2, <2>4, <2>5, ClaimantAssumption
         DEF ManagerInv, Acting, Receiving
    <2> QED
      BY Zenon, <1>1, <2>6, LocalStep
  <1> QED
    BY Zenon, <1>5, <1>6, <1>7 DEF Vacate, IsCurrentFor

LEMMA ServerGetStep ==
    ASSUME Inv, TypeOK', NEW c \in Claimant, ServerGet(c)
    PROVE  Inv'
  <1>1. /\ lease' = lease /\ now' = now /\ late' = late
        /\ pc[c] = "get" /\ pc'[c] = "got" /\ resp'[c] = lease
        /\ call'[c] = call[c] /\ state'[c] = state[c] /\ held'[c] = held[c]
        /\ \A d \in Claimant \ {c} : Same(d)
    BY DEF ServerGet, Same, Inv, TypeOK
  <1>2. Coherent(c, state[c])'
    BY ZenonT(30), <1>1
       DEF Inv, ManagerInv, Coherent, Acquirable, Backed, Expiry, Clock
  <1>3. lease.version \in Nat
    BY Zenon DEF Inv, TypeOK, Leases
  <1>4. lease.holder = c => Backed(c, Expiry(lease))'
    <2>1. SUFFICES ASSUME lease.holder = c PROVE Backed(c, Expiry(lease))'
      BY Zenon
    <2>2. Expiry(lease) \in Nat
      BY Zenon, <2>1, WrittenExpiry, ClaimantAssumption DEF Inv, TypeOK
    <2> QED
      BY SMTT(30), <1>1, <2>1, <2>2, SlackType DEF Backed, Expiry
  <1>5. Receiving(c)'
    <2>1. WellFormed(lease)'
      BY Zenon, <1>1 DEF Inv, WellFormed, Clock
    <2> QED
      BY SMTT(30), <1>1, <1>3, <1>4, <2>1 DEF Receiving, WellFormed, Backed, Expiry
  <1>6. Acting(c)'
    BY Zenon, <1>1 DEF Inv, ManagerInv, Acting, Backed, Expiry
  <1> QED
    BY ZenonT(30), <1>1, <1>2, <1>5, <1>6, LocalStep DEF ManagerInv

\* The claim that acquire and renew return is backed by what they wrote.
LEMMA NewClaimBacked ==
    ASSUME Inv, NEW p \in Patches, Justified(p), Matches(lease, p),
           lease' = Patched(lease, p), now' = now, p.kind # "vacate"
    PROVE  Backed(p.by, p.time + LeaseDuration)'
  <1>1. /\ lease \in Leases /\ p.time \in Nat
        /\ p.kind \in {"acquire", "renew", "vacate"}
    BY Zenon DEF Inv, TypeOK, Patches, Kind
  <1>2. lease'.holder = p.by
    BY Zenon, <1>1, PatchedFields DEF Justified, Matches
  <1>3. Expiry(lease)' = Micros(p.time)
            + (LeaseDuration - (LeaseDuration % TicksPerSecond))
    BY Zenon, <1>1, PatchedFields, SecondsLemma DEF Expiry
  <1>4. /\ Micros(p.time) \in Nat
        /\ p.time <= Micros(p.time) + (TicksPerMicro - 1)
    BY Zenon, <1>1, MicrosLemma
  <1>5. p.time + LeaseDuration <= Expiry(lease)' + Loss
    BY <1>1, <1>3, <1>4, SecondsLemma, ParamAssumption, ClockAssumption DEF Loss
  <1> QED
    BY Zenon, <1>2, <1>5 DEF Backed

LEMMA ServerPatchStep ==
    ASSUME Inv, TypeOK', NEW c \in Claimant, ServerPatch(c)
    PROVE  Inv'
  <1> DEFINE p == req[c]
  <1>1. /\ p \in Patches /\ p.by = c /\ Justified(p) /\ Matches(lease, p)
        /\ lease' = Patched(lease, p) /\ now' = now
        /\ late' = late
        /\ lease \in Leases /\ lease.version \in Nat /\ lease'.version \in Nat
    BY Zenon DEF ServerPatch, Inv, TypeOK, ManagerInv, Acting, Leases
  <1>2. /\ pc[c] = "patch" /\ pc'[c] = "patched" /\ resp'[c] = lease'
        /\ call'[c] = call[c] /\ state'[c] = state[c]
        /\ held'[c] = held[c] /\ req'[c] = p
        /\ \A d \in Claimant \ {c} : Same(d)
    BY DEF ServerPatch, Same, Inv, TypeOK
  <1>3. lease'.version = lease.version + 1
    BY Zenon, <1>1, PatchedFields
  <1>4. Moves
    BY Zenon, <1>1, <1>3 DEF Moves
  <1>5. WellFormed(lease)'
    BY Zenon, <1>1, PatchedWellFormed
  <1>6. ASSUME NEW d \in Claimant, d # c PROVE ManagerInv(d)'
    BY Zenon, <1>1, <1>2, <1>4, <1>6, PatchKeepsBacked, Frame
  <1>7. Coherent(c, state[c]) /\ Acting(c) /\ state[c] \in States
    BY Zenon DEF Inv, ManagerInv, TypeOK
  <1>8. CASE p.kind = "vacate"
    <2>1. state[c].claim = NoClaim /\ held[c] = NoClaim /\ call[c] = "vacate"
      BY Zenon, <1>2, <1>7, <1>8 DEF Acting
    <2>2. NoClaim.holder = NoClaimant
      BY Zenon DEF NoClaim
    <2>3. Coherent(c, state[c])'
      BY SMTT(30), <1>1, <1>2, <1>3, <1>7, <2>1, <2>2, ClaimantAssumption
         DEF Coherent, States
    <2>4. ManagerInv(c)'
      BY ZenonT(30), <1>1, <1>2, <1>8, <2>1, <2>2, <2>3, ClaimantAssumption
         DEF ManagerInv, Acting, Receiving
    <2> QED
      BY Zenon, <1>1, <1>4, <1>5, <1>6, <2>4, Assemble
  <1>9. CASE p.kind # "vacate"
    <2>1. KeepsBacked(c)
      BY Zenon, <1>1, <1>9, PatchKeepsBacked
    <2>2. Coherent(c, state[c])'
      <3>1. PICK st \in States : st = state[c]
        BY Zenon, <1>7
      <3>2. Coherent(c, st)
        BY Zenon, <1>7, <3>1
      <3>3. Coherent(c, st)'
        BY Zenon, <1>4, <2>1, <3>2, CoherentMoves DEF Inv
      <3>4. state'[c] = st
        BY Zenon, <1>2, <3>1
      <3> QED
        BY Zenon, <3>3, <3>4 DEF Coherent
    <2>3. Backed(c, p.time + LeaseDuration)'
      BY Zenon, <1>1, <1>2, <1>9, NewClaimBacked DEF Backed
    <2>4. lease'.holder = c /\ lease'.transitions = p.transitions
      BY Zenon, <1>1, <1>9, PatchedFields
         DEF Justified, Matches, Patches, Kind
    <2>5. Receiving(c)'
      <3>1. resp'[c].version <= lease'.version
        BY <1>1, <1>2
      <3> QED
        BY Zenon, <1>2, <2>3, <2>4, <3>1 DEF Receiving
    <2>6. held[c].expiry \in Nat
      BY Zenon DEF Inv, TypeOK, Claims
    <2>7. Acting(c)'
      BY Zenon, <1>2, <1>7, <2>1, <2>6 DEF Acting, KeepsBacked, Backed
    <2>8. ManagerInv(c)'
      BY Zenon, <1>2, <2>2, <2>5, <2>7 DEF ManagerInv
    <2> QED
      BY Zenon, <1>1, <1>4, <1>5, <1>6, <2>8, Assemble
  <1> QED
    BY Zenon, <1>8, <1>9

LEMMA OnPatchedStep ==
    ASSUME Inv, TypeOK', NEW c \in Claimant, OnPatched(c)
    PROVE  Inv'
  <1>1. /\ lease' = lease /\ now' = now /\ late' = late
        /\ pc[c] = "patched" /\ pc'[c] = "idle"
        /\ \A d \in Claimant \ {c} : Same(d)
    BY DEF OnPatched, Return, Same, Inv, TypeOK
  <1>2. /\ Coherent(c, state[c]) /\ Receiving(c) /\ Acting(c)
        /\ req[c] \in Patches
    BY Zenon DEF Inv, ManagerInv, TypeOK
  <1>3. CASE call[c] = "vacate"
    <2>1. state'[c] = state[c] /\ held'[c] = held[c]
      BY Zenon, <1>3 DEF OnPatched
    <2>2. Coherent(c, state[c])'
      BY Zenon, <1>1, <1>2, <2>1
         DEF Coherent, Acquirable, Backed, Expiry, Clock
    <2>3. ManagerInv(c)'
      BY Zenon, <1>1, <1>2, <2>1, <2>2
         DEF ManagerInv, Acting, Receiving, Backed, Expiry
    <2> QED
      BY Zenon, <1>1, <2>3, LocalStep
  <1>4. CASE call[c] # "vacate"
    <2> DEFINE claim == ClaimOf(req[c])
    <2>1. /\ held'[c] = claim
          /\ state'[c] = [claim |-> claim, version |-> resp[c].version,
                          transitions |-> req[c].transitions]
      BY ZenonT(30), <1>4 DEF OnPatched, Inv, TypeOK
    <2>2. /\ claim.holder = c
          /\ claim.expiry = req[c].time + LeaseDuration
      BY Zenon, <1>1, <1>2 DEF ClaimOf, Acting
    <2>3. /\ Backed(c, claim.expiry)
          /\ resp[c].version <= lease.version
          /\ resp[c].version = lease.version =>
                lease.holder = c /\ lease.transitions = req[c].transitions
      BY Zenon, <1>1, <1>2, <1>4, <2>2 DEF Receiving
    <2> HIDE DEF claim
    <2>4. /\ state'[c].claim = claim
          /\ state'[c].version = resp[c].version
          /\ state'[c].transitions = req[c].transitions
      BY <2>1
    <2>5. Coherent(c, state[c])'
      BY Zenon, <1>1, <2>2, <2>3, <2>4, ClaimantAssumption
         DEF Coherent, Backed, Expiry
    <2>6. ManagerInv(c)'
      BY Zenon, <1>1, <2>1, <2>2, <2>3, <2>5
         DEF ManagerInv, Acting, Receiving, Backed, Expiry
    <2> QED
      BY Zenon, <1>1, <2>6, LocalStep
  <1> QED
    BY Zenon, <1>3, <1>4

LEMMA OnConflictStep ==
    ASSUME Inv, TypeOK', NEW c \in Claimant, OnConflict(c)
    PROVE  Inv'
  <1>1. /\ lease' = lease /\ now' = now /\ late' = late
        /\ \/ pc'[c] = "idle"
           \/ pc'[c] = "get" /\ call'[c] = "ensure_claimed"
        /\ state'[c] = state[c] /\ held'[c] = held[c]
        /\ \A d \in Claimant \ {c} : Same(d)
    BY DEF OnConflict, Return, SendGet, Same, Inv, TypeOK
  <1>2. Coherent(c, state[c])'
    BY Zenon, <1>1
       DEF Inv, ManagerInv, Coherent, Acquirable, Backed, Expiry, Clock
  <1>3. ManagerInv(c)'
    BY ZenonT(30), <1>1, <1>2
       DEF Inv, ManagerInv, Acting, Receiving, Backed, Expiry
  <1> QED
    BY Zenon, <1>1, <1>3, LocalStep

LEMMA OnGotStep ==
    ASSUME Inv, TypeOK', NEW c \in Claimant, OnGot(c)
    PROVE  Inv'
  <1> DEFINE st == FromLease(c, resp[c])
  <1>1. /\ lease' = lease /\ now' = now /\ late' = late /\ pc[c] = "got"
    BY Zenon DEF OnGot
  <1>2. st \in States /\ Coherent(c, st)
    BY Zenon, <1>1, FromLeaseType, GotCoherent DEF Inv, TypeOK
  <1>3. \/ Loop(c, st)
        \/ /\ state' = [state EXCEPT ![c] = st]
           /\ held' = [held EXCEPT ![c] = Own(c, st.claim)] \/ held' = held
           /\ Return(c)
    BY Zenon DEF OnGot
  <1> HIDE DEF st
  <1>4. CASE Loop(c, st)
    BY Zenon, <1>1, <1>2, <1>4, LoopStep, LocalStep
  <1>5. CASE /\ state' = [state EXCEPT ![c] = st]
             /\ held' = [held EXCEPT ![c] = Own(c, st.claim)] \/ held' = held
             /\ Return(c)
    <2>1. /\ pc'[c] = "idle" /\ state'[c] = st
          /\ held'[c] \in {Own(c, st.claim), held[c]}
          /\ \A d \in Claimant \ {c} : Same(d)
      BY SMTT(30), <1>5 DEF Return, Same, Inv, TypeOK
    <2>2. Coherent(c, state[c])'
      BY Zenon, <1>1, <1>2, <2>1
         DEF Coherent, Acquirable, Backed, Expiry, Clock
    <2>3. /\ Own(c, st.claim).holder \in {c, NoClaimant}
          /\ Own(c, st.claim).holder = c => Own(c, st.claim) = st.claim
      BY Zenon, ClaimantAssumption DEF Own, NoClaim
    <2>4. /\ held'[c].holder \in {c, NoClaimant}
          /\ held'[c].holder = c => Backed(c, held'[c].expiry)
      BY ZenonT(30), <1>2, <2>1, <2>3 DEF Coherent, Inv, ManagerInv, Acting
    <2>5. ManagerInv(c)'
      BY ZenonT(30), <1>1, <2>1, <2>2, <2>4
         DEF ManagerInv, Acting, Receiving, Backed, Expiry
    <2> QED
      BY Zenon, <1>1, <2>1, <2>5, LocalStep
  <1> QED
    BY ZenonT(30), <1>3, <1>4, <1>5

\* A request that is abandoned was justified, and is no vacate.
LEMMA AbandonLate ==
    ASSUME Inv, "vacate" \notin LateKinds, NEW c \in Claimant, Abandon(c)
    PROVE  \A p \in late' : \/ p \in late
                            \/ p.kind # "vacate" /\ p \in Patches /\ Justified(p)
  BY DEF Abandon, Inv, ManagerInv, TypeOK

LEMMA FailStep ==
    ASSUME Inv, TypeOK', "vacate" \notin LateKinds, NEW c \in Claimant, Fail(c)
    PROVE  Inv'
  <1>1. /\ lease' = lease /\ now' = now /\ Abandon(c)
        /\ pc'[c] \in {"idle", "down"}
        /\ state'[c] = state[c] /\ held'[c] = held[c]
        /\ \A d \in Claimant \ {c} : Same(d)
    BY DEF Fail, Same, Inv, TypeOK
  <1>2. Coherent(c, state[c])'
    BY Zenon, <1>1
       DEF Inv, ManagerInv, Coherent, Acquirable, Backed, Expiry, Clock
  <1>3. ManagerInv(c)'
    BY ZenonT(30), <1>1, <1>2
       DEF Inv, ManagerInv, Acting, Receiving, Backed, Expiry
  <1> QED
    BY Zenon, <1>1, <1>3, AbandonLate, LocalStep

LEMMA CrashStep ==
    ASSUME Inv, TypeOK', "vacate" \notin LateKinds, NEW c \in Claimant, Crash(c)
    PROVE  Inv'
  <1>1. /\ lease' = lease /\ now' = now /\ Abandon(c)
        /\ pc'[c] = "down" /\ state'[c] = NoState /\ held'[c] = NoClaim
        /\ \A d \in Claimant \ {c} : Same(d)
    BY DEF Crash, Same, Inv, TypeOK
  <1>2. /\ NoState.version = 0 /\ NoState.claim.holder = NoClaimant
        /\ NoClaim.holder = NoClaimant
    BY Zenon DEF NoState, NoClaim
  <1>3. lease.version \in Nat /\ lease.version > 0
    BY Zenon DEF Inv, TypeOK, Leases
  <1>4. Coherent(c, state[c])'
    BY SMTT(30), <1>1, <1>2, <1>3, ClaimantAssumption DEF Coherent
  <1>5. ManagerInv(c)'
    BY Zenon, <1>1, <1>2, <1>4, ClaimantAssumption
       DEF ManagerInv, Acting, Receiving
  <1> QED
    BY ZenonT(30), <1>1, <1>5, AbandonLate, LocalStep

LEMMA EnvironmentStep ==
    ASSUME Inv, TypeOK', Environment
    PROVE  Inv'
  <1>1. \A d \in Claimant : Same(d)
    BY Zenon DEF Environment, Tick, Touch, ServerLate, managerVars, Same
  <1>2. CASE Tick
    <2>1. lease' = lease /\ late' = late /\ now <= now'
      BY SMTT(30), <1>2 DEF Tick, Inv, TypeOK
    <2>2. Moves
      BY Zenon, <2>1 DEF Moves
    <2>3. WellFormed(lease)'
      BY Zenon, <2>1, <2>2, WellFormedMoves DEF Inv, TypeOK, WellFormed
    <2>4. \A d \in Claimant : KeepsBacked(d)
      BY ZenonT(30), <2>1, QuietKeepsBacked DEF Inv
    <2> QED
      BY Zenon, <1>1, <2>1, <2>2, <2>3, <2>4, Frame, Assemble
  <1>3. CASE Touch
    <2>1. /\ late' = late /\ now' = now
          /\ lease' = [lease EXCEPT !.version = lease.version + 1]
      BY ZenonT(30), <1>3 DEF Touch
    <2>2. /\ lease'.version = lease.version + 1
          /\ lease'.holder = lease.holder
          /\ lease'.renewTime = lease.renewTime
          /\ lease'.leaseDurationSeconds = lease.leaseDurationSeconds
          /\ lease'.transitions = lease.transitions
      BY Zenon, <2>1 DEF Inv, TypeOK, Leases
    <2>3. Moves
      BY Zenon, <2>1, <2>2 DEF Moves
    <2>4. WellFormed(lease)'
      BY Zenon, <2>1, <2>2 DEF Inv, WellFormed, Clock
    <2>5. \A d \in Claimant : KeepsBacked(d)
      BY Zenon, <2>1, <2>2 DEF KeepsBacked, Backed, Expiry
    <2> QED
      BY Zenon, <1>1, <2>1, <2>3, <2>4, <2>5, Frame, Assemble
  <1>4. ASSUME NEW p \in late, ServerLate(p) PROVE Inv'
    <2>1. /\ p \in Patches /\ p.kind # "vacate" /\ Justified(p)
          /\ now' = now /\ \A q \in late' : q \in late
      BY Zenon, <1>4 DEF ServerLate, Inv, TypeOK
    <2>2. CASE lease' = lease
      <3>1. Moves
        BY SMTT(30), <2>1, <2>2 DEF Moves, Inv, TypeOK
      <3>2. WellFormed(lease)'
        BY Zenon, <2>1, <2>2 DEF Inv, WellFormed, Clock
      <3>3. \A d \in Claimant : KeepsBacked(d)
        BY Zenon, <2>1, <2>2 DEF KeepsBacked, Backed, Expiry
      <3> QED
        BY Zenon, <1>1, <2>1, <3>1, <3>2, <3>3, Frame, Assemble
    <2>3. CASE Matches(lease, p) /\ lease' = Patched(lease, p)
      <3>1. lease'.version = lease.version + 1
        BY Zenon, <2>1, <2>3, PatchedFields DEF Inv, TypeOK
      <3>2. Moves
        BY Zenon, <2>1, <3>1 DEF Moves
      <3>3. WellFormed(lease)'
        BY Zenon, <2>1, <2>3, PatchedWellFormed
      <3>4. \A d \in Claimant : KeepsBacked(d)
        BY Zenon, <2>1, <2>3, PatchKeepsBacked
      <3> QED
        BY Zenon, <1>1, <2>1, <3>2, <3>3, <3>4, Frame, Assemble
    <2> QED
      BY Zenon, <1>4, <2>2, <2>3 DEF ServerLate
  <1> QED
    BY Zenon, <1>2, <1>3, <1>4 DEF Environment

-----------------------------------------------------------------------------
(* Theorems *)

LEMMA InvInit == Init => Inv
  <1> SUFFICES ASSUME Init PROVE Inv
    BY Zenon
  <1>1. TypeOK
    BY Zenon, TypeInit
  <1>2. /\ lease.version = 1 /\ lease.holder = NoClaimant
        /\ lease.transitions = 0
    BY Zenon DEF Init, NoLease
  <1>3. WellFormed(lease)
    BY <1>2, ParamAssumption DEF WellFormed
  <1>4. ASSUME NEW c \in Claimant PROVE ManagerInv(c)
    <2>1. pc[c] = "down" /\ state[c] = NoState /\ held[c] = NoClaim
      BY ZenonT(30) DEF Init
    <2>2. /\ NoState.version = 0 /\ NoState.claim.holder = NoClaimant
          /\ NoClaim.holder = NoClaimant
      BY Zenon DEF NoState, NoClaim
    <2> QED
      BY SMTT(30), <1>2, <2>1, <2>2, ClaimantAssumption
         DEF ManagerInv, Coherent, Receiving, Acting
  <1> QED
    BY <1>1, <1>2, <1>3, <1>4 DEF Inv, Init

LEMMA InvStep ==
    ASSUME "vacate" \notin LateKinds
    PROVE  Inv /\ [Next]_vars => Inv'
  <1> SUFFICES ASSUME Inv, [Next]_vars PROVE Inv'
    BY Zenon
  <1>1. TypeOK'
    BY Zenon, TypeStep DEF Inv
  <1>2. CASE UNCHANGED vars
    <2>1. /\ lease' = lease /\ now' = now /\ late' = late
          /\ \A d \in Claimant : Same(d)
      BY Zenon, <1>2 DEF vars, Same
    <2>2. Moves
      BY <2>1 DEF Moves, Inv, TypeOK
    <2>3. WellFormed(lease)'
      BY Zenon, <2>1 DEF Inv, WellFormed, Clock
    <2>4. \A d \in Claimant : KeepsBacked(d)
      BY Zenon, <2>1 DEF KeepsBacked, Backed, Expiry
    <2> QED
      BY Zenon, <1>1, <2>1, <2>2, <2>3, <2>4, Frame, Assemble
  <1>3. CASE Next
    BY Zenon, <1>1, <1>3, StartStep, ClaimedStep, EnsureClaimedStep,
       VacateStep,
       ServerGetStep, ServerPatchStep, OnPatchedStep, OnConflictStep, OnGotStep,
       FailStep, CrashStep, EnvironmentStep
       DEF Next, Call, ApiStep
  <1> QED
    BY Zenon, <1>2, <1>3

\* The invariant holds of every behaviour in which no vacate is applied after
\* its call has returned.
THEOREM Invariance ==
    ASSUME "vacate" \notin LateKinds
    PROVE  Spec => []Inv
  BY InvInit, InvStep, PTL DEF Spec

LEMMA InvOverlap == Inv => BoundedOverlap
  <1> SUFFICES ASSUME Inv, NEW c \in Holders, NEW d \in Holders, c # d,
                      ~(held[c].expiry <= now + Slack),
                      ~(held[d].expiry <= now + Slack)
               PROVE  FALSE
    BY Zenon DEF BoundedOverlap
  <1>1. /\ c \in Claimant /\ held[c].holder = c
        /\ d \in Claimant /\ held[d].holder = d
    BY Zenon DEF Holders, Holds, IsCurrentFor
  <1>2. Backed(c, held[c].expiry) /\ Backed(d, held[d].expiry)
    BY Zenon, <1>1 DEF Inv, ManagerInv, Acting
  <1> QED
    BY Zenon, <1>2 DEF Backed

\* Two claimants hold claims at once only in the last Slack ticks of one of
\* them: the clocks' disagreement plus what MicroTime and num_seconds drop.
THEOREM OverlapIsBounded ==
    ASSUME "vacate" \notin LateKinds
    PROVE  Spec => []BoundedOverlap
  BY Invariance, InvOverlap, PTL

LEMMA OverlapExclusive ==
    ASSUME Slack = 0
    PROVE  TypeOK /\ BoundedOverlap => Exclusive
  <1> SUFFICES ASSUME TypeOK, BoundedOverlap,
                      NEW c \in Holders, NEW d \in Holders, c # d
               PROVE  FALSE
    BY Zenon DEF Exclusive
  <1>1. ASSUME NEW e \in Holders PROVE ~(held[e].expiry <= now + Slack)
    <2>1. /\ e \in Claimant /\ held[e].expiry \in Nat
          /\ Clock(e) < held[e].expiry
      BY Zenon DEF Holders, Holds, IsCurrentFor, IsCurrent, TypeOK, Claims
    <2>2. Clock(e) \in Nat /\ now <= Clock(e)
      BY Zenon, <2>1, ClockType DEF TypeOK
    <2> QED
      BY <2>1, <2>2 DEF TypeOK
  <1> QED
    BY Zenon, <1>1 DEF BoundedOverlap

\* With clocks that agree, readings in whole microseconds and a lease_duration
\* of whole seconds, the lease has a single owner at any time.
THEOREM MutualExclusion ==
    ASSUME "vacate" \notin LateKinds, Slack = 0
    PROVE  Spec => []Exclusive
  <1>1. TypeOK /\ BoundedOverlap => Exclusive
    BY Zenon, OverlapExclusive
  <1> QED
    BY <1>1, TypeCorrect, OverlapIsBounded, PTL

\* The lease changes only by a metadata update and by justified patches.
LEMMA LeaseChange ==
    ASSUME Inv, [Next]_vars
    PROVE  \/ lease' = lease
           \/ lease' = [lease EXCEPT !.version = @ + 1]
           \/ \E p \in Patches : /\ Justified(p)
                                 /\ Matches(lease, p)
                                 /\ lease' = Patched(lease, p)
  <1>1. CASE UNCHANGED vars
    BY Zenon, <1>1 DEF vars
  <1>2. ASSUME NEW c \in Claimant,
               Start(c) \/ Call(c) \/ ApiStep(c) \/ Fail(c) \/ Crash(c)
        PROVE  \/ lease' = lease
               \/ \E p \in Patches : /\ Justified(p)
                                     /\ Matches(lease, p)
                                     /\ lease' = Patched(lease, p)
    <2>1. CASE ServerPatch(c)
      BY Zenon, <2>1 DEF ServerPatch, Inv, ManagerInv, TypeOK
    <2> QED
      BY Zenon, <1>2, <2>1
         DEF Start, Call, Claimed, Sync, EnsureClaimed, Vacate,
           ApiStep, ServerGet, OnPatched, OnConflict, OnGot, Fail, Crash
  <1>3. CASE Environment
    BY ZenonT(30), <1>3 DEF Environment, Tick, Touch, ServerLate, Inv, TypeOK
  <1> QED
    BY Zenon, <1>1, <1>2, <1>3 DEF Next

LEMMA NoStealStep ==
    ASSUME Inv, [Next]_vars, NEW c \in Claimant,
           lease.holder = c, lease'.holder \in Claimant \ {c}
    PROVE  Expiry(lease) <= now + MaxSkew
  <1>1. PICK p \in Patches : /\ Justified(p) /\ Matches(lease, p)
                             /\ lease' = Patched(lease, p)
    BY ZenonT(30), LeaseChange DEF Inv, TypeOK, Leases
  <1>2. p.kind = "acquire" /\ p.by = lease'.holder
    BY SMTT(30), <1>1, PatchedFields, ClaimantAssumption DEF Inv, TypeOK, Patches, Kind
  <1>3. Expiry(lease) <= Clock(p.by)
    BY ZenonT(30), <1>1, <1>2, ClaimantAssumption
       DEF Justified, Matches, Acquirable
  <1>4. Clock(p.by) \in Nat /\ Clock(p.by) <= now + MaxSkew
    BY Zenon, ClockType DEF Patches, Inv, TypeOK
  <1>5. Expiry(lease) \in Int
    BY SMTT(30), ExpiryType, SecondsLemma, ClaimantAssumption
       DEF Inv, TypeOK, WellFormed, Absent
  <1> QED
    BY SMTT(30), <1>3, <1>4, <1>5, ClockAssumption DEF Inv, TypeOK

\* A holder recorded in the lease is replaced by another one only after its
\* recorded claim has run out, whatever calls are lost or interleaved and
\* whichever acquires and renewals are applied late, if no vacate is.
THEOREM NeverStolen ==
    ASSUME "vacate" \notin LateKinds
    PROVE  Spec => NoSteal
  <1>1. Inv /\ [Next]_vars =>
          [ \A c \in Claimant :
              lease.holder = c /\ lease'.holder \in Claimant \ {c}
                => Expiry(lease) <= now + MaxSkew ]_vars
    BY Zenon, NoStealStep
  <1> QED
    BY <1>1, Invariance, PTL DEF Spec, NoSteal

LEMMA ExtendsStep ==
    ASSUME Inv, [Next]_vars, lease.holder = lease'.holder,
           lease.holder # NoClaimant
    PROVE  Expiry(lease) <= Expiry(lease')
  <1>1. /\ lease \in Leases /\ WellFormed(lease)
        /\ Expiry(lease) \in Int /\ lease.holder \in Claimant
    BY SMTT(30), ExpiryType, SecondsLemma DEF Inv, TypeOK, WellFormed, Leases, Holder, Absent
  <1>2. CASE lease' = lease
    BY SMTT(30), <1>1, <1>2
  <1>3. CASE lease' = [lease EXCEPT !.version = @ + 1]
    BY <1>1, <1>3 DEF Expiry, Leases
  <1>4. CASE \E p \in Patches : /\ Justified(p) /\ Matches(lease, p)
                                /\ lease' = Patched(lease, p)
    <2>1. PICK p \in Patches : /\ Justified(p) /\ Matches(lease, p)
                               /\ lease' = Patched(lease, p)
      BY Zenon, <1>4
    <2>2. /\ p.kind \in {"acquire", "renew"} /\ p.by = lease.holder
          /\ lease'.renewTime = Micros(p.time)
          /\ lease'.leaseDurationSeconds = Seconds(LeaseDuration)
      BY Zenon, <1>1, <2>1, PatchedFields, ClaimantAssumption
         DEF Justified, Matches, Patches, Kind
    <2>3. lease.renewTime <= Micros(p.time)
      BY Zenon, <2>1, <2>2 DEF Justified, Matches
    <2>4. /\ lease.leaseDurationSeconds = Seconds(LeaseDuration)
          /\ lease.renewTime \in Int
      BY <1>1 DEF WellFormed, Leases, Absent
    <2>5. Micros(p.time) \in Int
      BY MicrosLemma DEF Patches
    <2>6. Seconds(LeaseDuration) * TicksPerSecond \in Int
      BY SecondsLemma, ParamAssumption, ClockAssumption DEF Seconds
    <2> QED
      BY SMTT(30), <2>2, <2>3, <2>4, <2>5, <2>6 DEF Expiry
  <1> QED
    BY Zenon, <1>2, <1>3, <1>4, LeaseChange

\* While the lease stays with a holder its recorded expiry never moves back, if
\* no vacate is applied late.
THEOREM RenewalsExtend ==
    ASSUME "vacate" \notin LateKinds
    PROVE  Spec => RenewalExtends
  <1>1. Inv /\ [Next]_vars =>
          [ lease.holder = lease'.holder /\ lease.holder # NoClaimant
              => Expiry(lease) <= Expiry(lease') ]_vars
    BY Zenon, ExtendsStep
  <1> QED
    BY <1>1, Invariance, PTL DEF Spec, RenewalExtends

LEMMA TransitionsStep ==
    ASSUME Inv, [Next]_vars
    PROVE  LET next == (lease.transitions + 1) % U16
           IN /\ lease'.transitions \in {lease.transitions, next}
              /\ lease'.holder = NoClaimant
                   => lease'.transitions = lease.transitions
              /\ lease'.holder \notin {lease.holder, NoClaimant}
                   => lease'.transitions = next
  <1>1. lease \in Leases
    BY Zenon DEF Inv, TypeOK
  <1>2. CASE lease' = lease
    BY Zenon, <1>2
  <1>3. CASE lease' = [lease EXCEPT !.version = @ + 1]
    BY Zenon, <1>1, <1>3 DEF Leases
  <1>4. CASE \E p \in Patches : /\ Justified(p) /\ Matches(lease, p)
                                /\ lease' = Patched(lease, p)
    BY SMTT(30), <1>1, <1>4, PatchedFields, ClaimantAssumption
       DEF Justified, Matches, Patches, Kind
  <1> QED
    BY Zenon, <1>2, <1>3, <1>4, LeaseChange

\* leaseTransitions counts the changes of holder modulo 2^16, and no stale
\* cached count is ever written, if no vacate is applied late.
THEOREM TransitionsCounted ==
    ASSUME "vacate" \notin LateKinds
    PROVE  Spec => CountsTransitions
  <1>1. Inv /\ [Next]_vars =>
          [ LET next == (lease.transitions + 1) % U16
            IN /\ lease'.transitions \in {lease.transitions, next}
               /\ lease'.holder = NoClaimant
                    => lease'.transitions = lease.transitions
               /\ lease'.holder \notin {lease.holder, NoClaimant}
                    => lease'.transitions = next ]_vars
    BY Zenon, TransitionsStep
  <1> QED
    BY <1>1, Invariance, PTL DEF Spec, CountsTransitions

\* A step changes what one claimant acts on, or lets time pass.
LEMMA HeldChange ==
    ASSUME TypeOK, [Next]_vars
    PROVE  \/ /\ now' = now
              /\ \E c \in Claimant :
                    \A d \in Claimant \ {c} : held'[d] = held[d]
           \/ held' = held /\ now <= now'
  <1>1. ASSUME NEW c \in Claimant,
               Start(c) \/ Call(c) \/ ApiStep(c) \/ Fail(c) \/ Crash(c)
        PROVE  now' = now /\ \A d \in Claimant \ {c} : held'[d] = held[d]
    <2>1. CASE Start(c) \/ Fail(c) \/ Crash(c)
      BY ZenonT(30), <2>1 DEF Start, Fail, Crash, TypeOK
    <2>2. CASE Call(c)
      BY Zenon, <2>2
         DEF Call, Claimed, Sync, EnsureClaimed, Vacate, Loop, TypeOK
    <2>3. CASE ServerPatch(c) \/ ServerGet(c) \/ OnConflict(c)
      BY Zenon, <2>3 DEF ServerPatch, ServerGet, OnConflict, TypeOK
    <2>4. CASE OnPatched(c) \/ OnGot(c)
      BY ZenonT(30), <2>4 DEF OnPatched, OnGot, Loop, TypeOK
    <2> QED
      BY Zenon, <1>1, <2>1, <2>2, <2>3, <2>4 DEF ApiStep
  <1>2. CASE Environment
    BY <1>2 DEF Environment, Tick, Touch, ServerLate, managerVars, TypeOK
  <1>3. CASE UNCHANGED vars
    BY <1>3 DEF vars, TypeOK
  <1> QED
    BY Zenon, <1>1, <1>2, <1>3 DEF Next

\* A claim that is not current does not become current by waiting.
LEMMA LapsesOnly ==
    ASSUME TypeOK, held' = held, now' \in Nat, now <= now'
    PROVE  Holders' \subseteq Holders
  <1> SUFFICES ASSUME NEW c \in Claimant, Holds(c)' PROVE Holds(c)
    BY Zenon DEF Holders
  <1>1. now \in Nat /\ Skew[c] \in Nat /\ held[c].expiry \in Nat
    BY ClockAssumption DEF TypeOK, Claims
  <1> QED
    BY <1>1 DEF Holds, IsCurrentFor, IsCurrent, Clock

LEMMA LockStep ==
    ASSUME TypeOK, Exclusive, TypeOK', Exclusive', [Next]_vars
    PROVE  [Lock!Next]_Holders
  <1>1. Holders \subseteq Claimant /\ Holders' \subseteq Claimant
    BY Zenon DEF Holders
  <1>2. ASSUME NEW c \in Holders, NEW d \in Holders' PROVE c = d
    <2> SUFFICES ASSUME c # d PROVE FALSE
      BY Zenon
    <2>1. c \notin Holders' /\ d \notin Holders
      BY Zenon DEF Exclusive
    <2>2. ~(held' = held /\ now <= now')
      BY Zenon, <2>1, LapsesOnly DEF TypeOK
    <2>3. PICK e \in Claimant : /\ now' = now
                                /\ \A f \in Claimant \ {e} : held'[f] = held[f]
      BY Zenon, <2>2, HeldChange
    <2>4. \A f \in Claimant \ {e} : f \in Holders <=> f \in Holders'
      BY Zenon, <2>3 DEF Holders, Holds, IsCurrentFor, IsCurrent, Clock
    <2> QED
      BY Zenon, <1>1, <2>1, <2>4
  <1>3. CASE Holders' = Holders
    BY Zenon, <1>3
  <1>4. CASE Holders' # Holders
    <2>1. CASE Holders = {}
      <3>1. PICK d \in Holders' : TRUE
        BY Zenon, <1>4, <2>1
      <3>2. Holders' = {d}
        BY Zenon, <3>1 DEF Exclusive
      <3> QED
        BY Zenon, <1>1, <2>1, <3>2 DEF Lock!Next, Lock!Acquire
    <2>2. CASE Holders # {}
      <3>1. PICK c \in Holders : TRUE
        BY Zenon, <2>2
      <3>2. Holders = {c}
        BY Zenon, <3>1 DEF Exclusive
      <3>3. Holders' = {}
        BY Zenon, <1>2, <1>4, <3>1, <3>2
      <3> QED
        BY Zenon, <1>1, <3>1, <3>2, <3>3 DEF Lock!Next, Lock!Lapse
    <2> QED
      BY Zenon, <2>1, <2>2
  <1> QED
    BY Zenon, <1>3, <1>4

\* The managers implement the advisory lock: a claimant becomes the owner only
\* while there is none, and ownership never passes over directly.
THEOREM RefinesAdvisoryLock ==
    ASSUME "vacate" \notin LateKinds, Slack = 0
    PROVE  Spec => ImplementsLock
  <1>1. Init => Lock!Init
    BY ClaimantAssumption
       DEF Init, Lock!Init, Holders, Holds, IsCurrentFor, NoClaim
  <1>2. TypeOK /\ Exclusive /\ TypeOK' /\ Exclusive' /\ [Next]_vars
          => [Lock!Next]_Holders
    BY Zenon, LockStep
  <1> QED
    BY <1>1, <1>2, TypeCorrect, MutualExclusion, PTL
       DEF Spec, ImplementsLock, Lock!Spec

=============================================================================
