------------------------------- MODULE Lease -------------------------------
(***************************************************************************)
(* kubert::lease::LeaseManager and the coordination.k8s.io Lease it works  *)
(* on.  Every claimant is a process with a LeaseManager of its own; the    *)
(* API server applies a patch only when the resourceVersion it carries is  *)
(* still the lease's.  Calls fail, time out, and may be applied after      *)
(* their caller has given up; processes crash and start again.             *)
(*                                                                         *)
(* The manager's state lives under a tokio Mutex that a call holds across  *)
(* its awaits, so a manager has at most one call in progress: pc[c] is     *)
(* "idle" exactly when the mutex is free.  A step runs from one await to   *)
(* the next.                                                               *)
(***************************************************************************)
EXTENDS Integers, FiniteSets

CONSTANTS
    Claimant,        \* identities; each uses one LeaseManager
    NoClaimant,      \* None
    Skew,            \* Skew[c]: how far c's system clock is ahead of `now'
    MaxSkew,
    LeaseDuration,   \* ClaimParams::lease_duration, in ticks
    RenewGrace,      \* ClaimParams::renew_grace_period, in ticks
    TicksPerSecond,
    TicksPerMicro,   \* resolution of metav1::MicroTime, in ticks
    U16,             \* 2^16: the range of Meta::transitions
    Faults,          \* which of Fail, Crash, Touch may happen
    LateKinds,       \* patches that may be applied after the call gave up
    MaxTime, MaxVersion, MaxLate                        \* bounds

Kind == {"acquire", "renew", "vacate"}

ASSUME ClaimantAssumption == NoClaimant \notin Claimant
ASSUME ClockAssumption ==
    /\ MaxSkew \in Nat
    /\ Skew \in [Claimant -> 0 .. MaxSkew]
    /\ TicksPerSecond \in Nat \ {0}
    /\ TicksPerMicro \in Nat \ {0}
ASSUME ParamAssumption ==
    /\ LeaseDuration \in Nat
    /\ RenewGrace \in Nat
    /\ U16 \in Nat \ {0}
    /\ Faults \subseteq {"fail", "crash", "touch"}
    /\ LateKinds \subseteq Kind
ASSUME BoundAssumption ==
    /\ MaxTime \in Nat
    /\ MaxVersion \in Nat
    /\ MaxLate \in Nat

VARIABLES
    now,    \* real time
    lease,  \* the Lease resource stored by the API server
    late,   \* patches whose callers gave up, still on their way
    state,  \* state[c]: the State of c's LeaseManager
    pc,     \* pc[c]: where the call that holds c's mutex is waiting
    call,   \* call[c]: the call that holds c's mutex
    req,    \* req[c]: the patch c is waiting for
    resp,   \* resp[c]: the lease in the reply on its way to c
    held    \* held[c]: the claim c acts on, got from its last call

managerVars == <<state, pc, call, req, resp, held>>
vars == <<now, lease, late, state, pc, call, req, resp, held>>

-----------------------------------------------------------------------------
(* Data *)

Absent == -1                                \* a field the object lacks
NoClaim == [holder |-> NoClaimant, expiry |-> 0]

Holder == Claimant \cup {NoClaimant}
Claims == [holder : Holder, expiry : Nat]
States == [claim : Claims, version : Nat, transitions : 0 .. U16 - 1]
Leases == [version : Nat, holder : Holder, renewTime : Nat \cup {Absent},
           leaseDurationSeconds : Nat \cup {Absent}, transitions : Nat]
Patches == [kind : Kind, by : Claimant, version : Nat, time : Nat,
            transitions : 0 .. U16 - 1]

NoState == [claim |-> NoClaim, version |-> 0, transitions |-> 0]
NoLease == [version |-> 0, holder |-> NoClaimant, renewTime |-> Absent,
            leaseDurationSeconds |-> Absent, transitions |-> 0]

\* chrono::Utc::now() on c's machine.
Clock(c) == now + Skew[c]

\* MicroTime keeps microseconds, num_seconds() whole seconds.
Micros(t) == t - (t % TicksPerMicro)
Seconds(d) == d \div TicksPerSecond

\* renew_time + lease_duration of a lease that has both fields.
Expiry(l) == l.renewTime + l.leaseDurationSeconds * TicksPerSecond

\* Mutant: the claim is still current when it expires.
IsCurrentAtExpiry(c, claim) == Clock(c) <= claim.expiry

IsCurrent(c, claim) == Clock(c) < claim.expiry
IsCurrentFor(c, claim) == claim.holder = c /\ IsCurrent(c, claim)

\* What the caller of a manager that returns claim acts on.
Own(c, claim) == IF claim.holder = c THEN claim ELSE NoClaim

\* i32 -> u16 by try_into().unwrap_or(0).
ToU16(n) == IF n < U16 THEN n ELSE 0

\* What LeaseManager::get makes of a lease.
FromLease(c, l) ==
    [version |-> l.version,
     transitions |-> ToU16(l.transitions),
     claim |->
        IF \/ l.holder = NoClaimant
           \/ l.renewTime = Absent
           \/ l.leaseDurationSeconds = Absent
           \/ Expiry(l) <= Clock(c)
        THEN NoClaim
        ELSE [holder |-> l.holder, expiry |-> Expiry(l)]]

\* Mutant: the claim lasts longer than the lease says.
ClaimOfLonger(p) == [holder |-> p.by, expiry |-> p.time + LeaseDuration + 1]

\* The claim that acquire and renew return for the patch p.
ClaimOf(p) == [holder |-> p.by, expiry |-> p.time + LeaseDuration]

\* Mutant: the u16 is not wide enough.
PatchOverflows(c, kind, st) ==
    [kind |-> kind, by |-> c, version |-> st.version, time |-> Clock(c),
     transitions |-> IF kind = "acquire" THEN st.transitions + 1
                                         ELSE st.transitions]

\* Mutant: acquire does not count the transition.
PatchUncounted(c, kind, st) ==
    [kind |-> kind, by |-> c, version |-> st.version, time |-> Clock(c),
     transitions |-> st.transitions]

Patch(c, kind, st) ==
    [kind |-> kind, by |-> c, version |-> st.version, time |-> Clock(c),
     transitions |-> IF kind = "acquire" THEN (st.transitions + 1) % U16
                                         ELSE st.transitions]

NoPatch(c) == [kind |-> "renew", by |-> c, version |-> 0, time |-> 0,
               transitions |-> 0]

-----------------------------------------------------------------------------
(* The API server *)

\* The lease l after the patch p.
Patched(l, p) ==
    CASE p.kind = "acquire" ->
           [version |-> l.version + 1, holder |-> p.by,
            renewTime |-> Micros(p.time),
            leaseDurationSeconds |-> Seconds(LeaseDuration),
            transitions |-> p.transitions]
      [] p.kind = "renew" ->
           [l EXCEPT !.version = @ + 1, !.renewTime = Micros(p.time),
                     !.leaseDurationSeconds = Seconds(LeaseDuration)]
      [] p.kind = "vacate" ->
           [l EXCEPT !.version = @ + 1, !.holder = NoClaimant,
                     !.renewTime = Absent, !.leaseDurationSeconds = Absent]

\* Mutant: the patch carries no resourceVersion.
MatchesAny(l, p) == TRUE

\* The resourceVersion in a patch is a precondition.
Matches(l, p) == p.version = l.version

ServerPatch(c) ==
    /\ pc[c] = "patch"
    /\ Matches(lease, req[c])
    /\ lease.version < MaxVersion
    /\ lease' = Patched(lease, req[c])
    /\ resp' = [resp EXCEPT ![c] = lease']
    /\ pc' = [pc EXCEPT ![c] = "patched"]
    /\ UNCHANGED <<now, late, state, call, req, held>>

ServerGet(c) ==
    /\ pc[c] = "get"
    /\ resp' = [resp EXCEPT ![c] = lease]
    /\ pc' = [pc EXCEPT ![c] = "got"]
    /\ UNCHANGED <<now, lease, late, state, call, req, held>>

\* A patch arrives after its caller stopped waiting for it.
ServerLate(p) ==
    /\ p \in late
    /\ late' = late \ {p}
    /\ \/ /\ Matches(lease, p)
          /\ lease.version < MaxVersion
          /\ lease' = Patched(lease, p)
       \/ /\ ~Matches(lease, p)
          /\ UNCHANGED lease
    /\ UNCHANGED <<now, managerVars>>

\* Someone else updates the lease's metadata, e.g. its annotations.
Touch ==
    /\ "touch" \in Faults
    /\ lease.version < MaxVersion
    /\ lease' = [lease EXCEPT !.version = @ + 1]
    /\ UNCHANGED <<now, late, managerVars>>

-----------------------------------------------------------------------------
(* LeaseManager *)

Idle(c) == pc[c] = "idle"

\* The call returns and releases the mutex.
Return(c) ==
    /\ pc' = [pc EXCEPT ![c] = "idle"]
    /\ call' = [call EXCEPT ![c] = "none"]
    /\ req' = [req EXCEPT ![c] = NoPatch(c)]
    /\ resp' = [resp EXCEPT ![c] = NoLease]

SendGet(c, by) ==
    /\ pc' = [pc EXCEPT ![c] = "get"]
    /\ call' = [call EXCEPT ![c] = by]
    /\ req' = [req EXCEPT ![c] = NoPatch(c)]
    /\ resp' = [resp EXCEPT ![c] = NoLease]

SendPatch(c, kind, st) ==
    /\ pc' = [pc EXCEPT ![c] = "patch"]
    /\ call' = [call EXCEPT ![c] =
                  IF kind = "vacate" THEN "vacate" ELSE "ensure_claimed"]
    /\ req' = [req EXCEPT ![c] = Patch(c, kind, st)]
    /\ resp' = [resp EXCEPT ![c] = NoLease]

\* Mutant: another claimant's claim is not looked at.
LoopSteals(c, st) ==
    /\ state' = [state EXCEPT ![c] = st]
    /\ \/ /\ st.claim.holder = c
          /\ Clock(c) < st.claim.expiry - RenewGrace
          /\ held' = [held EXCEPT ![c] = Own(c, st.claim)]
          /\ Return(c)
       \/ /\ st.claim.holder = c
          /\ Clock(c) >= st.claim.expiry - RenewGrace
          /\ SendPatch(c, "renew", st)
          /\ UNCHANGED held
       \/ /\ st.claim.holder # c
          /\ SendPatch(c, "acquire", st)
          /\ UNCHANGED held

\* The body of ensure_claimed's loop, up to its first await.
Loop(c, st) ==
    /\ state' = [state EXCEPT ![c] = st]
    /\ \/ /\ st.claim.holder = c
          /\ Clock(c) < st.claim.expiry - RenewGrace
          /\ held' = [held EXCEPT ![c] = Own(c, st.claim)]
          /\ Return(c)
       \/ /\ st.claim.holder = c
          /\ Clock(c) >= st.claim.expiry - RenewGrace
          /\ SendPatch(c, "renew", st)
          /\ UNCHANGED held
       \/ /\ st.claim.holder \in Claimant \ {c}
          /\ IsCurrent(c, st.claim)
          /\ held' = [held EXCEPT ![c] = Own(c, st.claim)]
          /\ Return(c)
       \/ /\ st.claim.holder # c
          /\ st.claim.holder \in Claimant => ~IsCurrent(c, st.claim)
          /\ SendPatch(c, "acquire", st)
          /\ UNCHANGED held

\* init, of a process that has just started.
Start(c) ==
    /\ pc[c] = "down"
    /\ SendGet(c, "init")
    /\ UNCHANGED <<now, lease, late, state, held>>

Claimed(c) ==
    /\ Idle(c)
    /\ held' = [held EXCEPT ![c] = Own(c, state[c].claim)]
    /\ UNCHANGED <<now, lease, late, state, pc, call, req, resp>>

Sync(c) ==
    /\ Idle(c)
    /\ SendGet(c, "sync")
    /\ UNCHANGED <<now, lease, late, state, held>>

EnsureClaimed(c) ==
    /\ Idle(c)
    /\ Loop(c, state[c])
    /\ UNCHANGED <<now, lease, late>>

\* A claimant that vacates no longer acts on a claim, whatever the outcome.
Vacate(c) ==
    /\ Idle(c)
    /\ held' = [held EXCEPT ![c] = NoClaim]
    /\ LET claim == state[c].claim
           taken == [state EXCEPT ![c].claim = NoClaim]
       IN \/ /\ \/ claim.holder = NoClaimant
                \/ ~IsCurrent(c, claim)
             /\ state' = taken
             /\ Return(c)
          \/ /\ claim.holder \in Claimant \ {c}
             /\ IsCurrent(c, claim)
             /\ UNCHANGED state
             /\ Return(c)
          \/ /\ IsCurrentFor(c, claim)
             /\ state' = taken
             /\ SendPatch(c, "vacate", state[c])
    /\ UNCHANGED <<now, lease, late>>

\* The reply to a patch arrives.
OnPatched(c) ==
    /\ pc[c] = "patched"
    /\ IF call[c] = "vacate"
       THEN UNCHANGED <<state, held>>       \* meta keeps the old version
       ELSE /\ state' = [state EXCEPT ![c] =
                           [claim |-> ClaimOf(req[c]),
                            version |-> resp[c].version,
                            transitions |-> req[c].transitions]]
            /\ held' = [held EXCEPT ![c] = ClaimOf(req[c])]
    /\ Return(c)
    /\ UNCHANGED <<now, lease, late>>

\* A patch is refused with a conflict: ensure_claimed gets the lease and tries
\* again, vacate gives up.
OnConflict(c) ==
    /\ pc[c] = "patch"
    /\ ~Matches(lease, req[c])
    /\ IF call[c] = "vacate" THEN Return(c) ELSE SendGet(c, "ensure_claimed")
    /\ UNCHANGED <<now, lease, late, state, held>>

\* The reply to a get arrives: init, sync, or ensure_claimed's re-sync.
OnGot(c) ==
    /\ pc[c] = "got"
    /\ LET st == FromLease(c, resp[c])
       IN \/ /\ call[c] = "ensure_claimed"
             /\ Loop(c, st)
          \/ /\ call[c] \in {"init", "sync"}
             /\ state' = [state EXCEPT ![c] = st]
             /\ held' = IF call[c] = "sync"
                        THEN [held EXCEPT ![c] = Own(c, st.claim)]
                        ELSE held
             /\ Return(c)
    /\ UNCHANGED <<now, lease, late>>

\* What becomes of c's request, if the server has not handled it yet: it is
\* lost, or still on its way.
Abandon(c) ==
    \/ UNCHANGED late
    \/ /\ pc[c] = "patch"
       /\ req[c].kind \in LateKinds
       /\ Cardinality(late) < MaxLate
       /\ late' = late \cup {req[c]}

InCall(c) == pc[c] \in {"patch", "patched", "get", "got"}

\* The call returns an error other than a conflict: API_TIMEOUT passed, the
\* transport failed, the server refused, the reply was incomplete; or the
\* caller dropped the future.
Fail(c) ==
    /\ "fail" \in Faults
    /\ InCall(c)
    /\ Abandon(c)
    /\ pc' = [pc EXCEPT ![c] = IF call[c] = "init" THEN "down" ELSE "idle"]
    /\ call' = [call EXCEPT ![c] = "none"]
    /\ req' = [req EXCEPT ![c] = NoPatch(c)]
    /\ resp' = [resp EXCEPT ![c] = NoLease]
    /\ UNCHANGED <<now, lease, state, held>>

\* The process dies, and its memory with it.
Crash(c) ==
    /\ "crash" \in Faults
    /\ pc[c] # "down"
    /\ Abandon(c)
    /\ pc' = [pc EXCEPT ![c] = "down"]
    /\ call' = [call EXCEPT ![c] = "none"]
    /\ req' = [req EXCEPT ![c] = NoPatch(c)]
    /\ resp' = [resp EXCEPT ![c] = NoLease]
    /\ state' = [state EXCEPT ![c] = NoState]
    /\ held' = [held EXCEPT ![c] = NoClaim]
    /\ UNCHANGED <<now, lease>>

Tick ==
    /\ now < MaxTime
    /\ now' = now + 1
    /\ UNCHANGED <<lease, late, managerVars>>

-----------------------------------------------------------------------------

Init ==
    /\ now = 0
    /\ lease = [NoLease EXCEPT !.version = 1]
    /\ late = {}
    /\ state = [c \in Claimant |-> NoState]
    /\ pc = [c \in Claimant |-> "down"]
    /\ call = [c \in Claimant |-> "none"]
    /\ req = [c \in Claimant |-> NoPatch(c)]
    /\ resp = [c \in Claimant |-> NoLease]
    /\ held = [c \in Claimant |-> NoClaim]

\* The API server and the replies, whoever called.
ApiStep(c) ==
    \/ ServerPatch(c) \/ ServerGet(c)
    \/ OnPatched(c) \/ OnConflict(c) \/ OnGot(c)

Call(c) == Claimed(c) \/ Sync(c) \/ EnsureClaimed(c) \/ Vacate(c)

Environment == Tick \/ Touch \/ (\E p \in late : ServerLate(p))

Next ==
    \/ \E c \in Claimant :
          Start(c) \/ Call(c) \/ ApiStep(c) \/ Fail(c) \/ Crash(c)
    \/ Environment

Spec == Init /\ [][Next]_vars

-----------------------------------------------------------------------------
(* Properties *)

\* c is the owner as far as it can tell: is_current_for(c) of its claim.
Holds(c) == IsCurrentFor(c, held[c])

Holders == {c \in Claimant : Holds(c)}

TypeOK ==
    /\ now \in Nat
    /\ lease \in Leases
    /\ late \in SUBSET Patches
    /\ state \in [Claimant -> States]
    /\ pc \in [Claimant ->
                 {"down", "idle", "patch", "patched", "get", "got"}]
    /\ call \in [Claimant ->
                   {"none", "init", "sync", "ensure_claimed", "vacate"}]
    /\ req \in [Claimant -> Patches]
    /\ resp \in [Claimant -> Leases]
    /\ held \in [Claimant -> Claims]

\* A single claimant owns the lease at a time (lease.rs:7-8): no two of them
\* hold a claim that is_current_for them.
Exclusive == \A c, d \in Holders : c = d

\* How much longer a claim may last for its holder than for others: acquire
\* and renew return now + lease_duration, while the lease records whole
\* microseconds and whole seconds, and clocks differ.
Loss == (TicksPerMicro - 1) + (LeaseDuration % TicksPerSecond)
Slack == MaxSkew + Loss

\* Two claimants hold claims at once only while one of the claims is in its
\* last Slack ticks, however calls interleave, fail or arrive late.
BoundedOverlap ==
    \A c, d \in Holders :
        \/ c = d
        \/ held[c].expiry <= now + Slack
        \/ held[d].expiry <= now + Slack

\* The holder that the lease records is replaced by another one only after
\* the recorded claim has run out (on the fastest clock): neither a stale
\* cache nor a late patch takes a live lease away.
NoSteal ==
    [][ \A c \in Claimant :
          lease.holder = c /\ lease'.holder \in Claimant \ {c}
            => Expiry(lease) <= now + MaxSkew ]_vars

\* While the lease stays with a holder its recorded expiry never moves back,
\* late renewals included.
RenewalExtends ==
    [][ lease.holder = lease'.holder /\ lease.holder # NoClaimant
          => Expiry(lease) <= Expiry(lease') ]_vars

\* leaseTransitions counts changes of holder modulo 2^16: each new holder adds
\* one, vacating keeps the count, and no stale cached count is ever written.
CountsTransitions ==
    [][ LET next == (lease.transitions + 1) % U16
        IN /\ lease'.transitions \in {lease.transitions, next}
           /\ lease'.holder = NoClaimant
                => lease'.transitions = lease.transitions
           /\ lease'.holder \notin {lease.holder, NoClaimant}
                => lease'.transitions = next ]_vars

\* The managers implement an advisory lock whose owners are the claimants
\* that hold a current claim.
Lock == INSTANCE AdvisoryLock WITH owner <- Holders
ImplementsLock == Lock!Spec
=============================================================================
