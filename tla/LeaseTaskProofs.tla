--------------------------- MODULE LeaseTaskProofs ---------------------------
(***************************************************************************)
(* A lease task does nothing to the lease that a user of its manager could *)
(* not do, so that what is proved of the managers holds of the tasks.  A   *)
(* task that has ended leaves the lease to others for good, one that runs  *)
(* in time keeps its claim, and its diagnostics tell what it knows.        *)
(***************************************************************************)
EXTENDS LeaseTaskInvariant, LeaseDiagnostics, LeaseProofs

LEMMA TaskStep == [TaskNext]_allVars => [Next]_vars
  <1>1. ASSUME NEW c \in Claimant, Boot(c)
        PROVE  Next
    BY Zenon, <1>1 DEF Boot, Next
  <1>2. ASSUME NEW c \in Claimant, Run(c)
        PROVE  Next
    BY Zenon, <1>2 DEF Run, FirstClaim, Wake, Retry, Close, Next, Call
  <1>3. ASSUME NEW c \in Claimant, Progress(c) \/ Error(c) \/ Die(c)
        PROVE  Next
    BY Zenon, <1>3 DEF Progress, Error, Die, Next
  <1>4. ASSUME NEW c \in Claimant, Drop(c)
        PROVE  UNCHANGED vars
    BY Zenon, <1>4 DEF Drop
  <1>5. Elapse \/ Others => Next
    BY Zenon DEF Elapse, Others, Next, Environment
  <1>6. UNCHANGED allVars => UNCHANGED vars
    BY Zenon DEF allVars
  <1> QED
    BY ZenonT(30), <1>1, <1>2, <1>3, <1>4, <1>5, <1>6 DEF TaskNext

\* Every behaviour of the tasks of LeaseManager::spawn is one of managers
\* (lease.rs:366-431).
THEOREM TasksAreManagers == TaskSpec => Spec
  <1>1. TaskInit => Init
    BY Zenon DEF TaskInit
  <1> QED
    BY <1>1, TaskStep, PTL DEF TaskSpec, Spec

\* With equal clocks, whole seconds and no late vacate there is one task at a
\* time whose watch channel shows a current claim of its own.
THEOREM TasksExclude ==
    ASSUME "vacate" \notin LateKinds, Slack = 0
    PROVE  TaskSpec => []Exclusive
  BY TasksAreManagers, MutualExclusion, PTL

\* Under the same assumptions the tasks implement the advisory lock.
THEOREM TasksImplementLock ==
    ASSUME "vacate" \notin LateKinds, Slack = 0
    PROVE  TaskSpec => ImplementsLock
  BY TasksAreManagers, RefinesAdvisoryLock, PTL

-----------------------------------------------------------------------------
(* The task's own state *)

\* The other managers are left alone.
LEMMA OneManager ==
    ASSUME TypeOK, NEW c \in Claimant,
           \/ Start(c) \/ EnsureClaimed(c) \/ Vacate(c)
           \/ ApiStep(c) \/ Fail(c) \/ Crash(c)
    PROVE  \A d \in Claimant : d # c => Same(d)
  <1> SUFFICES ASSUME NEW d \in Claimant, d # c
               PROVE  Same(d)
    BY ZenonT(30)
  <1>1. ASSUME NEW st, Loop(c, st)
        PROVE  Same(d)
    BY ZenonT(30), <1>1 DEF TypeOK, Loop, Return, SendPatch, Same
  <1>2. CASE Start(c)
    BY Zenon, <1>2 DEF TypeOK, Start, SendGet, Same
  <1>3. CASE EnsureClaimed(c)
    BY Zenon, <1>1, <1>3 DEF EnsureClaimed
  <1>4. CASE Vacate(c)
    BY ZenonT(30), <1>4 DEF TypeOK, Vacate, Return, SendPatch, Same
  <1>5. CASE ServerPatch(c) \/ ServerGet(c)
    BY Zenon, <1>5 DEF TypeOK, ServerPatch, ServerGet, Same
  <1>6. CASE OnPatched(c)
    BY Zenon, <1>6 DEF TypeOK, OnPatched, Return, Same
  <1>7. CASE OnConflict(c)
    BY <1>7 DEF TypeOK, OnConflict, Return, SendGet, Same
  <1>8. CASE OnGot(c)
    <2>1. CASE Loop(c, FromLease(c, resp[c]))
      BY Zenon, <1>1, <2>1
    <2>2. CASE ~Loop(c, FromLease(c, resp[c]))
      BY <1>8, <2>2 DEF TypeOK, OnGot, Return, Same
    <2> QED
      BY Zenon, <2>1, <2>2
  <1>9. CASE Fail(c)
    BY Zenon, <1>9 DEF TypeOK, Fail, Same
  <1>10. CASE Crash(c)
    BY Zenon, <1>10 DEF TypeOK, Crash, Same
  <1> QED
    BY Zenon, <1>2, <1>3, <1>4, <1>5, <1>6, <1>7, <1>8, <1>9, <1>10 DEF ApiStep

\* Steps of c that set its task's state to one where no call is in progress,
\* or to one that made the call, preserve the rest.
LEMMA TaskOKCarries ==
    ASSUME TaskOK, NEW c \in Claimant,
           \A d \in Claimant : d # c => pc'[d] = pc[d],
           NEW t \in {"none", "init", "spawn", "wait", "claim", "vacate",
                      "ended", "failed"},
           NEW r \in BOOLEAN, NEW n \in 0 .. MaxRetries,
           task' = [task EXCEPT ![c] = t],
           receivers' = [receivers EXCEPT ![c] = r],
           retries' = [retries EXCEPT ![c] = n],
           InCall(c)' => t \in {"init", "spawn", "claim", "vacate"},
           t = "claim" /\ Idle(c)' => n < MaxRetries
    PROVE  TaskOK'
  BY Zenon DEF TaskOK, InCall, Idle

\* What follows a call that returned, goes on or ended in an error.
LEMMA AfterCall ==
    ASSUME TypeOK, TaskOK, NEW c \in Claimant,
           \A d \in Claimant : d # c => pc'[d] = pc[d],
           NEW by \in {"init", "spawn", "claim", "vacate"},
           NEW n \in 0 .. MaxRetries,
           \/ Calls(c, by, n)
           \/ ~InCall(c)' /\ Failed(c)
    PROVE  TaskOK'
  <1>0. 0 \in 0 .. MaxRetries
    BY TaskAssumption
  <1>1. CASE pc'[c] = "idle" /\ Returned(c, by)
    <2> DEFINE t == CASE by = "init" -> "spawn"
                      [] by \in {"spawn", "claim"} -> "wait"
                      [] by = "vacate" -> "ended"
               r == receivers[c] \/ by = "spawn"
    <2>1. t \in {"spawn", "wait", "ended"}
      BY Zenon
    <2>2. r \in BOOLEAN
      BY Zenon
    <2>3. /\ task' = [task EXCEPT ![c] = t]
          /\ receivers' = [receivers EXCEPT ![c] = r]
          /\ retries' = [retries EXCEPT ![c] = 0]
      BY <1>1, Zenon DEF Returned, TaskOK
    <2>4. ~InCall(c)'
      BY Zenon, <1>1 DEF InCall
    <2> HIDE DEF t, r
    <2> QED
      BY Zenon, <1>0, <2>1, <2>2, <2>3, <2>4, TaskOKCarries
  <1>2. CASE pc'[c] # "idle" /\ Calls(c, by, n)
    <2>1. receivers' = [receivers EXCEPT ![c] = receivers[c]]
      BY Zenon, <1>2 DEF Calls, TaskOK
    <2>2. receivers[c] \in BOOLEAN
      BY Zenon DEF TaskOK
    <2>3. ~Idle(c)'
      BY Zenon, <1>2 DEF Idle
    <2> QED
      BY ZenonT(30), <1>2, <2>1, <2>2, <2>3, TaskOKCarries DEF Calls
  <1>3. CASE ~InCall(c)' /\ Failed(c)
    <2>1. receivers' = [receivers EXCEPT ![c] = receivers[c]]
      BY Zenon, <1>3 DEF Failed, TaskOK
    <2>2. receivers[c] \in BOOLEAN
      BY Zenon DEF TaskOK
    <2> QED
      BY Zenon, <1>0, <1>3, <2>1, <2>2, TaskOKCarries DEF Failed
  <1> QED
    BY Zenon, <1>1, <1>2, <1>3 DEF Calls

LEMMA TaskOKStep == TypeOK /\ TaskOK /\ [TaskNext]_allVars => TaskOK'
  <1> SUFFICES ASSUME TypeOK, TaskOK, [TaskNext]_allVars
               PROVE  TaskOK'
    BY ZenonT(30)
  <1>0. 0 \in 0 .. MaxRetries
    BY TaskAssumption
  <1>1. ASSUME NEW c \in Claimant, Boot(c)
        PROVE  TaskOK'
    <2>1. \A d \in Claimant : d # c => pc'[d] = pc[d]
      BY Zenon, <1>1, OneManager DEF Boot, Same
    <2>2. /\ receivers' = [receivers EXCEPT ![c] = receivers[c]]
          /\ retries' = [retries EXCEPT ![c] = retries[c]]
          /\ retries[c] \in 0 .. MaxRetries
      BY Zenon, <1>1 DEF Boot, TaskOK
    <2>3. receivers[c] \in BOOLEAN
      BY Zenon DEF TaskOK
    <2> QED
      BY ZenonT(30), <1>1, <2>1, <2>2, <2>3, TaskOKCarries DEF Boot
  <1>2. ASSUME NEW c \in Claimant, Run(c)
        PROVE  TaskOK'
    <2>1. \A d \in Claimant : d # c => pc'[d] = pc[d]
      BY Zenon, <1>2, OneManager DEF Run, FirstClaim, Wake, Retry, Close, Same
    <2>2. CASE FirstClaim(c) \/ Wake(c) \/ Close(c)
      BY Zenon, <1>0, <2>1, <2>2, AfterCall DEF FirstClaim, Wake, Close
    <2>3. CASE Retry(c)
      <3>1. retries[c] + 1 \in 0 .. MaxRetries
        BY <2>3, TaskAssumption DEF Retry, EnsureClaimed, TaskOK
      <3> QED
        BY Zenon, <2>1, <2>3, <3>1, AfterCall DEF Retry
    <2> QED
      BY Zenon, <1>2, <2>2, <2>3 DEF Run
  <1>3. ASSUME NEW c \in Claimant, Progress(c)
        PROVE  TaskOK'
    <2>1. \A d \in Claimant : d # c => pc'[d] = pc[d]
      BY Zenon, <1>3, OneManager DEF Progress, Same
    <2>2. InCall(c)
      BY Zenon, <1>3 DEF Progress, ApiStep, ServerPatch, ServerGet, OnPatched,
                  OnConflict, OnGot, InCall
    <2>3. /\ task[c] \in {"init", "spawn", "claim", "vacate"}
          /\ retries[c] \in 0 .. MaxRetries
      BY Zenon, <2>2 DEF TaskOK
    <2>4. Calls(c, task[c], retries[c]) \/ (~InCall(c)' /\ Failed(c))
      BY Zenon, <1>3 DEF Progress, InCall
    <2> QED
      BY Zenon, <2>1, <2>3, <2>4, AfterCall
  <1>4. ASSUME NEW c \in Claimant, Error(c)
        PROVE  TaskOK'
    <2>1. \A d \in Claimant : d # c => pc'[d] = pc[d]
      BY Zenon, <1>4, OneManager DEF Error, Same
    <2>2. ~InCall(c)'
      BY Zenon, <1>4 DEF Error, Fail, InCall, TypeOK
    <2>3. CASE Failed(c)
      BY Zenon, <1>0, <2>1, <2>2, <2>3, AfterCall
    <2>4. CASE /\ task[c] = "claim" /\ retries[c] < MaxRetries
               /\ UNCHANGED <<task, receivers, retries>>
      BY Zenon, <2>1, <2>2, <2>4 DEF TaskOK, InCall, Idle
    <2> QED
      BY Zenon, <1>4, <2>3, <2>4 DEF Error
  <1>5. ASSUME NEW c \in Claimant, Die(c)
        PROVE  TaskOK'
    <2>1. \A d \in Claimant : d # c => pc'[d] = pc[d]
      BY Zenon, <1>5, OneManager DEF Die, Same
    <2>2. ~InCall(c)'
      BY Zenon, <1>5 DEF Die, Crash, InCall, TypeOK
    <2> QED
      BY Zenon, <1>0, <1>5, <2>1, <2>2, TaskOKCarries DEF Die
  <1>6. ASSUME NEW c \in Claimant, Drop(c)
        PROVE  TaskOK'
    BY Zenon, <1>6 DEF Drop, vars, TaskOK, InCall, Idle
  <1>7. CASE Elapse \/ Others
    BY Zenon, <1>7
       DEF Elapse, Others, taskVars, Tick, Touch, ServerLate, managerVars,
           TaskOK, InCall, Idle
  <1>8. CASE UNCHANGED allVars
    BY Zenon, <1>8 DEF allVars, vars, taskVars, TaskOK, InCall, Idle
  <1> QED
    BY Zenon, <1>1, <1>2, <1>3, <1>4, <1>5, <1>6, <1>7, <1>8 DEF TaskNext

\* The task of LeaseManager::spawn is always in one of its states, and its
\* backoff never retries more often than it may (lease.rs:394-421).
THEOREM TasksTypeCorrect == TaskSpec => []TaskTypeOK
  <1>1. TaskInit => TaskOK
    BY TaskAssumption DEF TaskInit, Init, TaskOK, InCall, Idle
  <1>2. TypeOK /\ TaskOK => TaskTypeOK
    BY Zenon DEF TaskOK, TaskTypeOK
  <1> QED
    BY <1>1, <1>2, TaskOKStep, TasksAreManagers, TypeCorrect, PTL DEF TaskSpec

-----------------------------------------------------------------------------
(* A task that ends leaves the lease to others *)

\* The lease as c sees it when others act: a new version does not extend c's
\* claim if none of c's own patches is on its way.
Steady(c) ==
    /\ \A p \in late' : p.by = c => p \in late
    /\ \/ lease' = lease
       \/ Stale(c) /\ lease'.holder = c =>
             lease.holder = c /\ Expiry(lease)' = Expiry(lease)

TaskAt(c) == Calling(c) /\ Waiting(c) /\ Informed(c)

LEMMA ExpiryInt ==
    ASSUME NEW l \in Leases
    PROVE  Expiry(l) \in Int
  <1>1. /\ l.renewTime \in Int /\ l.leaseDurationSeconds \in Int
        /\ TicksPerSecond \in Int
    BY ClockAssumption DEF Leases, Absent
  <1>2. l.leaseDurationSeconds * TicksPerSecond \in Int
    BY <1>1
  <1> QED
    BY <1>1, <1>2 DEF Expiry

LEMMA SureSteady ==
    ASSUME TypeOK, TypeOK', Moves, NEW c \in Claimant, Steady(c),
           NEW claim \in Claims, Sure(c, claim)
    PROVE  Sure(c, claim)'
  <1>1. /\ Clock(c) \in Nat /\ Clock(c)' \in Nat /\ Clock(c) <= Clock(c)'
        /\ claim.expiry \in Nat
    BY Zenon, ClockMoves DEF Claims
  <1>2. Expiry(lease) \in Int /\ Expiry(lease)' \in Int
    <2>1. lease \in Leases /\ lease' \in Leases
      BY Zenon DEF TypeOK
    <2> QED
      BY Zenon, <2>1, ExpiryInt DEF Expiry
  <1>3. Covered(c, claim)'
    <2>1. CASE lease' = lease
      BY <1>1, <1>2, <2>1 DEF Sure, Covered, Expiry
    <2>2. CASE lease' # lease
      BY <1>1, <1>2, <2>2 DEF Sure, Covered, Steady
    <2> QED
      BY Zenon, <2>1, <2>2
  <1>4. Stale(c)'
    <2> SUFFICES ASSUME NEW p \in late', p.by = c
                 PROVE  p.version < lease'.version
      BY Zenon DEF Stale
    <2>1. p \in late /\ p.version \in Nat /\ p.version < lease.version
      BY ZenonT(30) DEF Steady, Sure, Stale, TypeOK, Patches
    <2>2. /\ lease.version \in Nat /\ lease'.version \in Nat
          /\ lease.version <= lease'.version
      BY DEF TypeOK, Leases, Moves
    <2> QED
      BY <2>1, <2>2
  <1> QED
    BY Zenon, <1>3, <1>4 DEF Sure

LEMMA CoveredSteady ==
    ASSUME TypeOK, TypeOK', Moves, NEW c \in Claimant, lease' = lease,
           NEW claim \in Claims, Covered(c, claim)
    PROVE  Covered(c, claim)'
  <1>1. /\ Clock(c) \in Nat /\ Clock(c)' \in Nat /\ Clock(c) <= Clock(c)'
        /\ claim.expiry \in Nat
    BY Zenon, ClockMoves DEF Claims
  <1>2. Expiry(lease) \in Int
    BY Zenon, ExpiryInt DEF TypeOK
  <1> QED
    BY <1>1, <1>2 DEF Covered, Expiry

\* What returns at once would have done so before.
LEMMA ImmediateSteady ==
    ASSUME TypeOK, TypeOK', Moves, NEW c \in Claimant,
           NEW st \in States, Immediate(c, st)'
    PROVE  Immediate(c, st)
  <1>1. /\ Clock(c) \in Nat /\ Clock(c)' \in Nat /\ Clock(c) <= Clock(c)'
        /\ st.claim.expiry \in Nat /\ RenewGrace \in Nat
    BY Zenon, ClockMoves, ParamAssumption DEF States, Claims
  <1> QED
    BY <1>1 DEF Immediate, IsCurrent

LEMMA FreshSteady ==
    ASSUME TypeOK, TypeOK', Moves, NEW c \in Claimant,
           NEW l \in Leases, Fresh(c, l)'
    PROVE  Fresh(c, l)
  <1>1. /\ Clock(c) \in Nat /\ Clock(c)' \in Nat /\ Clock(c) <= Clock(c)'
        /\ RenewGrace \in Nat
    BY Zenon, ClockMoves, ParamAssumption
  <1>2. Expiry(l) \in Int /\ Expiry(l)' = Expiry(l)
    BY Zenon, ExpiryInt DEF Expiry
  <1> QED
    BY <1>1, <1>2 DEF Fresh

LEMMA RipeSteady ==
    ASSUME TypeOK, TypeOK', Moves, NEW p \in Patches,
           p.version <= lease.version, Ripe(p)
    PROVE  Ripe(p)'
  <1>1. p.by \in Claimant /\ p.version \in Nat
    BY Zenon DEF Patches
  <1>2. lease \in Leases /\ lease.version \in Nat /\ lease'.version \in Nat
    BY Zenon DEF TypeOK, Leases
  <1>3. CASE lease' = lease
    <2>1. Fresh(p.by, lease)' => Fresh(p.by, lease)
      BY Zenon, <1>1, <1>2, <1>3, FreshSteady DEF Fresh, Expiry
    <2> QED
      BY Zenon, <1>3, <2>1 DEF Ripe
  <1>4. CASE lease'.version = lease.version + 1
    BY <1>1, <1>2, <1>4 DEF Ripe
  <1> QED
    BY Zenon, <1>3, <1>4 DEF Moves

\* A task and a manager that take no part in a step.
LEMMA PassiveStep ==
    ASSUME Inv, TypeOK', Moves, NEW c \in Claimant, Steady(c), Same(c),
           task'[c] = task[c], TaskAt(c)
    PROVE  TaskAt(c)'
  <1>1. TypeOK
    BY Zenon DEF Inv
  <1>2. /\ state[c] \in States /\ state[c].claim \in Claims
        /\ req[c] \in Patches /\ resp[c] \in Leases
        /\ NoClaim \in Claims
    BY Zenon, <1>1 DEF TypeOK, States, NoClaim, Claims, Holder
  <1>3. Calling(c)'
    BY Zenon DEF TaskAt, Calling, InCall, Same
  <1>4. Waiting(c)'
    <2>1. pc'[c] = "patch" /\ call'[c] = "ensure_claimed" => Ripe(req[c])'
      BY ZenonT(30), <1>1, <1>2, RipeSteady
         DEF TaskAt, Waiting, Same, Inv, ManagerInv, Justified, Ripe, Fresh
    <2>2. pc'[c] = "patched" /\ call'[c] = "vacate" => Sure(c, NoClaim)'
      BY ZenonT(30), <1>1, <1>2, SureSteady DEF TaskAt, Waiting, Same
    <2>3. pc'[c] = "patched" /\ call'[c] # "vacate" => Sure(c, ClaimOf(req[c]))'
      BY ZenonT(30), <1>1, <1>2, ClaimOfType, SureSteady
         DEF TaskAt, Waiting, Same, Sure, Covered, ClaimOf
    <2>4. pc'[c] = "got" /\ Fresh(c, resp[c])' =>
            Sure(c, [holder |-> resp[c].holder, expiry |-> Expiry(resp[c])])'
      <3> SUFFICES ASSUME pc[c] = "got", Fresh(c, resp[c])'
                   PROVE  Sure(c, [holder |-> resp[c].holder,
                                   expiry |-> Expiry(resp[c])])'
        BY Zenon DEF Same
      <3> DEFINE claim == [holder |-> resp[c].holder, expiry |-> Expiry(resp[c])]
      <3>1. Fresh(c, resp[c])
        BY ZenonT(30), <1>1, <1>2, FreshSteady DEF Same, Fresh
      <3>2. claim \in Claims
        BY Zenon, <1>2, <3>1, ExpiryType DEF Fresh, Leases, Claims, Absent
      <3>3. Sure(c, claim)
        BY Zenon, <3>1 DEF TaskAt, Waiting
      <3>4. claim' = claim
        BY Zenon DEF Same, Expiry
      <3> QED
        BY Zenon, <1>1, <3>2, <3>3, <3>4, SureSteady DEF Sure, Covered
    <2> QED
      BY Zenon, <2>1, <2>2, <2>3, <2>4 DEF Waiting
  <1>5. Informed(c)'
    <2>1. Sure(c, state[c].claim) => Sure(c, state[c].claim)'
      BY Zenon, <1>1, <1>2, SureSteady DEF Same, Sure, Covered
    <2>2. Sure(c, NoClaim) => Sure(c, NoClaim)'
      BY Zenon, <1>1, <1>2, SureSteady
    <2>3. Immediate(c, state[c])' => Immediate(c, state[c])
      BY Zenon, <1>1, <1>2, ImmediateSteady DEF Same, Immediate
    <2>4. /\ state[c].version = lease.version => Covered(c, state[c].claim)
          /\ state'[c].version = lease'.version
          => Covered(c, state[c].claim)'
      <3>1. CASE lease' = lease
        BY Zenon, <1>1, <1>2, <3>1, CoveredSteady DEF Same, Covered
      <3>2. CASE lease'.version = lease.version + 1
        BY SMTT(30), <1>1, <1>2, <3>2
           DEF Inv, ManagerInv, Coherent, Same, TypeOK, States, Leases
      <3> QED
        BY Zenon, <3>1, <3>2 DEF Moves
    <2> QED
      BY Zenon, <2>1, <2>2, <2>3, <2>4 DEF TaskAt, Informed, Same, Idle
  <1> QED
    BY Zenon, <1>3, <1>4, <1>5 DEF TaskAt

\* A task that gave up, or whose process died.
LEMMA OverStep ==
    ASSUME NEW c \in Claimant, ~InCall(c)', task'[c] \in {"none", "failed"}
    PROVE  TaskAt(c)'
  BY ZenonT(30) DEF TaskAt, Calling, Waiting, Informed, InCall

\* One turn of ensure_claimed's loop, called by the task.
LEMMA LoopAt ==
    ASSUME Inv, TypeOK', lease' = lease, now' = now, late' = late,
           NEW c \in Claimant, NEW st \in States, Coherent(c, st),
           Loop(c, st), c \in DOMAIN task,
           NEW by \in {"spawn", "claim"}, NEW n, Calls(c, by, n),
           st.version = lease.version => Covered(c, st.claim),
           Immediate(c, st) => Sure(c, st.claim)
    PROVE  TaskAt(c)'
  <1>1. /\ TypeOK /\ lease \in Leases /\ RenewGrace \in Nat
        /\ Clock(c) \in Nat /\ Clock(c)' = Clock(c)
        /\ st.claim.expiry \in Nat /\ st.version \in Nat
        /\ st.claim.holder \in Holder
    BY Zenon, ClockType, ParamAssumption DEF Inv, TypeOK, States, Claims, Clock
  <1>2. Expiry(lease) \in Int /\ Expiry(lease)' = Expiry(lease)
    BY ZenonT(30), <1>1, ExpiryInt DEF Expiry
  <1>3. state'[c] = st
    BY Zenon, <1>1 DEF Loop, TypeOK
  <1>4. CASE Immediate(c, st)
    <2>1. pc'[c] = "idle"
      BY SMTT(30), <1>1, <1>4 DEF Loop, Return, Immediate, IsCurrent, TypeOK
    <2>2. task'[c] = "wait"
      BY Zenon, <2>1 DEF Calls, Returned
    <2>3. Sure(c, st.claim)'
      BY Zenon, <1>1, <1>2, <1>4 DEF Sure, Covered, Stale
    <2>4. Sure(c, state[c].claim)'
      BY Zenon, <1>3, <2>3 DEF Sure, Covered
    <2> QED
      BY Zenon, <2>1, <2>2, <2>4 DEF TaskAt, Calling, Waiting, Informed, InCall
  <1>5. CASE ~Immediate(c, st)
    <2>1. PICK kind \in {"acquire", "renew"} : SendPatch(c, kind, st)
      BY Zenon, <1>1, <1>5 DEF Loop, Immediate, IsCurrent, Holder
    <2>2. /\ pc'[c] = "patch" /\ call'[c] = "ensure_claimed"
          /\ req'[c] = Patch(c, kind, st)
      BY ZenonT(30), <1>1, <2>1 DEF SendPatch, TypeOK
    <2>3. task'[c] = by
      BY ZenonT(30), <2>2 DEF Calls
    <2>4. st.version = lease.version => ~Fresh(c, lease)
      <3> SUFFICES ASSUME st.version = lease.version, Fresh(c, lease)
                   PROVE  FALSE
        BY Zenon
      <3>1. CASE lease.holder = c
        BY <1>1, <1>2, <1>5, <3>1 DEF Fresh, Covered, Immediate
      <3>2. CASE lease.holder # c
        BY SMTT(30), <1>1, <1>2, <1>5, <3>2
           DEF Fresh, Immediate, IsCurrent, Coherent, Acquirable, Holder
      <3> QED
        BY Zenon, <3>1, <3>2
    <2>5. Ripe(req[c])'
      <3>0. Patch(c, kind, st).by = c /\ Patch(c, kind, st).version = st.version
        BY Zenon DEF Patch
      <3>1. req'[c].by = c /\ req'[c].version = st.version
        BY Zenon, <2>2, <3>0
      <3>2. Fresh(c, lease)' = Fresh(c, lease)
        BY ZenonT(30), <1>1, <1>2 DEF Fresh
      <3>3. Fresh(req[c].by, lease)' = Fresh(c, lease)'
        BY Zenon, <3>1 DEF Fresh, Clock
      <3> QED
        BY Zenon, <2>4, <3>1, <3>2, <3>3 DEF Ripe
    <2>6. ~Immediate(c, state[c])'
      BY Zenon, <1>1, <1>3, <1>5 DEF Immediate, IsCurrent
    <2>7. state'[c].version = lease'.version => Covered(c, state[c].claim)'
      BY Zenon, <1>1, <1>2, <1>3 DEF Covered
    <2> QED
      BY Zenon, <2>2, <2>3, <2>5, <2>6, <2>7
         DEF TaskAt, Calling, Waiting, Informed, InCall
  <1> QED
    BY Zenon, <1>4, <1>5

\* The state that get makes of a reply.
LEMMA GotAt ==
    ASSUME Inv, NEW c \in Claimant, pc[c] = "got", Waiting(c)
    PROVE  LET st == FromLease(c, resp[c])
           IN /\ st \in States
              /\ Coherent(c, st)
              /\ st.version = lease.version => Covered(c, st.claim)
              /\ Immediate(c, st) => Sure(c, st.claim)
  <1> DEFINE l == resp[c]
             st == FromLease(c, l)
  <1>1. /\ TypeOK /\ now \in Nat /\ l \in Leases /\ l.holder \in Holder
        /\ l.version = lease.version => l = lease
        /\ RenewGrace \in Nat
    BY ZenonT(30), ParamAssumption DEF Inv, TypeOK, ManagerInv, Receiving, Leases
  <1>2. st \in States
    BY ZenonT(30), <1>1, FromLeaseType
  <1>3. Coherent(c, st)
    BY Zenon, GotCoherent
  <1>4. Clock(c) \in Nat /\ Expiry(l) \in Int
    BY Zenon, <1>1, ClockType, ExpiryInt
  <1>5. st.version = l.version
    BY Zenon DEF FromLease
  <1>6. \/ /\ l.holder # NoClaimant /\ l.renewTime # Absent
           /\ l.leaseDurationSeconds # Absent
           /\ ~(Expiry(l) <= Clock(c))
           /\ st.claim = [holder |-> l.holder, expiry |-> Expiry(l)]
        \/ st.claim = NoClaim /\ (l.holder = c => Expiry(l) <= Clock(c))
    <2>1. l.holder = c =>
             l.renewTime # Absent /\ l.leaseDurationSeconds # Absent
      BY SMTT(30), ClaimantAssumption, SecondsLemma
         DEF Inv, ManagerInv, Receiving, WellFormed, Absent
    <2> QED
      BY <2>1, ClaimantAssumption, Zenon DEF FromLease
  <1> HIDE DEF st
  <1>7. st.version = lease.version => Covered(c, st.claim)
    BY SMTT(30), <1>1, <1>4, <1>5, <1>6 DEF Covered
  <1>8. Immediate(c, st) => Sure(c, st.claim)
    <2> SUFFICES ASSUME Immediate(c, st)
                 PROVE  Sure(c, st.claim)
      BY Zenon
    <2>1. /\ Fresh(c, l)
          /\ st.claim = [holder |-> l.holder, expiry |-> Expiry(l)]
      BY SMTT(30), <1>1, <1>4, <1>6, ClaimantAssumption
         DEF Immediate, Fresh, IsCurrent, NoClaim
    <2> QED
      BY Zenon, <2>1 DEF Waiting
  <1> QED
    BY Zenon, <1>2, <1>3, <1>7, <1>8 DEF st

\* The task calls ensure_claimed.
LEMMA RunAt ==
    ASSUME Inv, TypeOK', TaskOK, NEW c \in Claimant, TaskAt(c),
           FirstClaim(c) \/ Wake(c) \/ Retry(c)
    PROVE  TaskAt(c)'
  <1>1. /\ state[c] \in States /\ Coherent(c, state[c]) /\ c \in DOMAIN task
    BY ZenonT(30) DEF Inv, TypeOK, ManagerInv, TaskOK
  <1>2. /\ EnsureClaimed(c) /\ Loop(c, state[c]) /\ Idle(c)
        /\ lease' = lease /\ now' = now /\ late' = late
    BY Zenon DEF FirstClaim, Wake, Retry, EnsureClaimed
  <1>3. PICK by \in {"spawn", "claim"}, n \in Int : Calls(c, by, n)
    BY DEF FirstClaim, Wake, Retry, TaskOK
  <1>4. /\ state[c].version = lease.version => Covered(c, state[c].claim)
        /\ Immediate(c, state[c]) => Sure(c, state[c].claim)
    BY Zenon DEF TaskAt, Informed, FirstClaim, Wake, Retry, Sure
  <1> QED
    BY ZenonT(30), <1>1, <1>2, <1>3, <1>4, LoopAt

\* The task vacates, or sees that there is nothing to vacate.
LEMMA CloseAt ==
    ASSUME Inv, TypeOK', TaskOK, NEW c \in Claimant, TaskAt(c), Close(c)
    PROVE  TaskAt(c)'
  <1>1. /\ Vacate(c) /\ Calls(c, "vacate", 0) /\ Sure(c, state[c].claim)
        /\ lease' = lease /\ now' = now /\ late' = late
        /\ c \in DOMAIN task
    BY ZenonT(30) DEF Close, Vacate, TaskAt, Informed, TaskOK
  <1>2. /\ TypeOK /\ state[c].claim \in Claims
        /\ state[c].claim.expiry \in Nat
        /\ Clock(c) \in Nat /\ Clock(c)' = Clock(c)
        /\ Expiry(lease) \in Int /\ Expiry(lease)' = Expiry(lease)
    BY Zenon, <1>1, ClockType, ExpiryInt
       DEF Inv, TypeOK, States, Claims, Clock, Expiry
  <1>3. CASE pc'[c] = "idle"
    <2>1. ~IsCurrentFor(c, state[c].claim)
      BY Zenon, <1>1, <1>2, <1>3, ClaimantAssumption
         DEF Vacate, SendPatch, TypeOK, IsCurrentFor
    <2>2. Sure(c, NoClaim)'
      BY SMTT(30), <1>1, <1>2, <2>1 DEF Sure, Covered, Stale, IsCurrentFor, IsCurrent
    <2>3. task'[c] = "ended"
      BY Zenon, <1>1, <1>3 DEF Calls, Returned
    <2> QED
      BY ZenonT(30), <1>3, <2>2, <2>3 DEF TaskAt, Calling, Waiting, Informed, InCall
  <1>4. CASE pc'[c] # "idle"
    <2>1. pc'[c] = "patch" /\ call'[c] = "vacate"
      BY ZenonT(30), <1>1, <1>2, <1>4 DEF Vacate, Return, SendPatch, TypeOK
    <2>2. task'[c] = "vacate"
      BY ZenonT(30), <1>1, <1>4 DEF Calls
    <2> QED
      BY Zenon, <2>1, <2>2 DEF TaskAt, Calling, Waiting, Informed, InCall
  <1> QED
    BY Zenon, <1>3, <1>4

\* Where the task is while its call is in progress.
LEMMA InProgress ==
    ASSUME Inv, TaskOK, NEW c \in Claimant, TaskAt(c), InCall(c)
    PROVE  /\ task[c] \in {"init", "spawn", "claim", "vacate"}
           /\ ~Idle(c)
           /\ task[c] \in {"spawn", "claim"} => ~Immediate(c, state[c])
           /\ pc[c] \in {"patch", "patched"} =>
                 \/ task[c] = "vacate" /\ call[c] = "vacate"
                 \/ task[c] \in {"spawn", "claim"} /\ call[c] = "ensure_claimed"
           /\ pc[c] \in {"get", "got"} =>
                 \/ task[c] = "init" /\ call[c] = "init"
                 \/ task[c] \in {"spawn", "claim"} /\ call[c] = "ensure_claimed"
  BY ZenonT(30)
     DEF TaskOK, TaskAt, Calling, Informed, InCall, Idle, Inv, ManagerInv, Acting

LEMMA ServerPatchAt ==
    ASSUME Inv, TypeOK', TaskOK, NEW c \in Claimant, TaskAt(c),
           ServerPatch(c), task'[c] = task[c]
    PROVE  TaskAt(c)'
  <1>1. /\ TypeOK /\ req[c] \in Patches /\ lease \in Leases
        /\ req[c].time \in Nat /\ LeaseDuration \in Nat
        /\ lease.version \in Nat /\ lease'.version \in Nat
        /\ pc[c] = "patch" /\ InCall(c) /\ pc'[c] = "patched"
        /\ call' = call /\ req' = req /\ state' = state /\ now' = now
        /\ late' = late /\ lease' = Patched(lease, req[c])
    BY SMTT(30), ParamAssumption DEF Inv, TypeOK, ServerPatch, InCall, Patches, Leases
  <1>2. /\ req[c].by = c /\ Justified(req[c])
        /\ call[c] = IF req[c].kind = "vacate" THEN "vacate"
                                               ELSE "ensure_claimed"
        /\ Coherent(c, state[c])
    BY <1>1, Zenon DEF Inv, ManagerInv, Acting
  <1>3. lease'.version = lease.version + 1
    BY ZenonT(30), <1>1, PatchedFields
  <1>4. Stale(c)'
    <2> SUFFICES ASSUME NEW p \in late
                 PROVE  p.version < lease'.version
      BY Zenon, <1>1 DEF Stale
    <2>1. p.version \in Nat /\ p.version <= lease.version
      BY Zenon, <1>1 DEF Inv, Justified, TypeOK, Patches
    <2> QED
      BY SMTT(30), <1>1, <1>3, <2>1
  <1>5. call[c] = "vacate" => Sure(c, NoClaim)'
    <2> SUFFICES ASSUME call[c] = "vacate"
                 PROVE  lease'.holder # c
      BY Zenon, <1>4 DEF Sure, Covered
    <2>1. lease'.holder = NoClaimant
      BY Zenon, <1>1, <1>2, PatchedFields
    <2> QED
      BY ZenonT(30), <2>1, ClaimantAssumption
  <1>6. call[c] # "vacate" => Sure(c, ClaimOf(req[c]))'
    <2> SUFFICES ASSUME call[c] # "vacate"
                 PROVE  Expiry(lease') <= req[c].time + LeaseDuration
      BY ZenonT(30), <1>1, <1>2, <1>4 DEF Sure, Covered, ClaimOf, Expiry
    <2>1. /\ lease'.renewTime = Micros(req[c].time)
          /\ lease'.leaseDurationSeconds = Seconds(LeaseDuration)
      BY <1>1, <1>2, PatchedFields, ZenonT(30)
    <2>2. Expiry(lease') = Micros(req[c].time)
              + (LeaseDuration - (LeaseDuration % TicksPerSecond))
      BY <2>1, SecondsLemma, Zenon DEF Expiry
    <2> QED
      BY SMTT(30), <1>1, <2>2, MicrosLemma, SecondsLemma
  <1>7. ~Immediate(c, state[c]) => ~Immediate(c, state[c])'
    BY ZenonT(30), <1>1 DEF Immediate, IsCurrent, Clock
  <1>8. state'[c].version # lease'.version
    BY SMTT(30), <1>1, <1>2, <1>3 DEF Coherent, TypeOK, States
  <1>9. Calling(c)'
    BY ZenonT(30), <1>1 DEF TaskAt, Calling, InCall
  <1>10. Waiting(c)'
    BY Zenon, <1>1, <1>5, <1>6 DEF Waiting
  <1>11. Informed(c)'
    BY Zenon, <1>1, <1>7, <1>8, InProgress DEF Informed
  <1> QED
    BY Zenon, <1>9, <1>10, <1>11 DEF TaskAt

LEMMA ServerGetAt ==
    ASSUME Inv, TypeOK', Settled, NEW c \in Claimant,
           ServerGet(c), task'[c] = task[c]
    PROVE  TaskAt(c)'
  <1>1. /\ TypeOK /\ lease \in Leases /\ Expiry(lease) \in Int
        /\ pc[c] = "get" /\ InCall(c) /\ pc'[c] = "got" /\ resp'[c] = lease
        /\ call' = call /\ state' = state /\ now' = now
        /\ late' = late /\ lease' = lease
    BY ZenonT(30), ExpiryInt DEF Inv, TypeOK, ServerGet, InCall
  <1>2. TaskOK /\ TaskAt(c)
    BY ZenonT(30) DEF Settled, TaskAt
  <1>3. Fresh(c, lease) => Stale(c)
    <2> SUFFICES ASSUME Fresh(c, lease), NEW p \in late, p.by = c
                 PROVE  p.version < lease.version
      BY Zenon DEF Stale
    <2>1. /\ p.version \in Nat /\ lease.version \in Nat
          /\ p.version <= lease.version
      BY ZenonT(30), <1>1 DEF Inv, Justified, TypeOK, Patches, Leases
    <2>2. p.version # lease.version
      BY ZenonT(30) DEF Settled, Ripe
    <2> QED
      BY <2>1, <2>2
  <1>4. Fresh(c, lease) =>
           Sure(c, [holder |-> lease.holder, expiry |-> Expiry(lease)])
    BY SMTT(30), <1>1, <1>3 DEF Sure, Covered
  <1>5. Waiting(c)'
    BY Zenon, <1>1, <1>4 DEF Waiting, Fresh, Clock, Expiry, Sure, Covered, Stale
  <1>6. Calling(c)'
    BY Zenon, <1>1, <1>2 DEF TaskAt, Calling, InCall
  <1>7. ~Immediate(c, state[c]) => ~Immediate(c, state[c])'
    BY Zenon, <1>1 DEF Immediate, IsCurrent, Clock
  <1>8. Informed(c)'
    BY ZenonT(30), <1>1, <1>2, <1>7, InProgress
       DEF TaskAt, Informed, Covered, Clock, Expiry
  <1> QED
    BY Zenon, <1>5, <1>6, <1>8 DEF TaskAt

LEMMA OnPatchedAt ==
    ASSUME Inv, TypeOK', TaskOK, NEW c \in Claimant, TaskAt(c),
           OnPatched(c), Calls(c, task[c], retries[c])
    PROVE  TaskAt(c)'
  <1>1. /\ TypeOK /\ pc[c] = "patched" /\ InCall(c) /\ pc'[c] = "idle"
        /\ now' = now /\ late' = late /\ lease' = lease
        /\ c \in DOMAIN task
    BY SMTT(30) DEF Inv, TypeOK, OnPatched, Return, InCall, TaskOK
  <1>2. CASE call[c] = "vacate"
    <2>1. task'[c] = "ended"
      BY ZenonT(30), <1>1, <1>2, InProgress DEF Calls, Returned
    <2>2. Sure(c, NoClaim)'
      BY Zenon, <1>1, <1>2
         DEF TaskAt, Waiting, Sure, Covered, Stale, Clock, Expiry
    <2> QED
      BY Zenon, <1>1, <2>1, <2>2 DEF TaskAt, Calling, Waiting, Informed, InCall
  <1>3. CASE call[c] # "vacate"
    <2>1. task'[c] = "wait"
      BY ZenonT(30), <1>1, <1>3, InProgress DEF Calls, Returned
    <2>2. state'[c].claim = ClaimOf(req[c])
      BY SMTT(30), <1>1, <1>3 DEF OnPatched, TypeOK
    <2>3. Sure(c, state[c].claim)'
      BY Zenon, <1>1, <1>3, <2>2
         DEF TaskAt, Waiting, Sure, Covered, Stale, Clock, Expiry
    <2> QED
      BY ZenonT(30), <1>1, <2>1, <2>3 DEF TaskAt, Calling, Waiting, Informed, InCall
  <1> QED
    BY Zenon, <1>2, <1>3

\* vacate gives up on a conflict, ensure_claimed gets the lease.
LEMMA OnConflictAt ==
    ASSUME Inv, TypeOK', TaskOK, NEW c \in Claimant, TaskAt(c),
           OnConflict(c),
           IF pc'[c] = "idle" THEN Failed(c)
                              ELSE Calls(c, task[c], retries[c])
    PROVE  TaskAt(c)'
  <1>1. /\ TypeOK /\ pc[c] = "patch" /\ InCall(c)
        /\ now' = now /\ late' = late /\ lease' = lease /\ state' = state
        /\ c \in DOMAIN task
    BY ZenonT(30) DEF Inv, TypeOK, OnConflict, InCall, TaskOK
  <1>2. CASE call[c] = "vacate"
    <2>1. pc'[c] = "idle"
      BY ZenonT(30), <1>1, <1>2 DEF OnConflict, Return, TypeOK
    <2>2. task'[c] = "failed"
      BY ZenonT(30), <1>1, <2>1 DEF Failed
    <2> QED
      BY Zenon, <2>1, <2>2, OverStep DEF InCall
  <1>3. CASE call[c] # "vacate"
    <2>1. pc'[c] = "get" /\ call'[c] = "ensure_claimed"
      BY ZenonT(30), <1>1, <1>3 DEF OnConflict, SendGet, TypeOK
    <2>2. task'[c] = task[c] /\ task[c] \in {"spawn", "claim"}
      BY Zenon, <1>1, <1>3, <2>1, InProgress DEF Calls
    <2>3. ~Immediate(c, state[c])'
      BY ZenonT(30), <1>1, <2>2, InProgress DEF Immediate, IsCurrent, Clock
    <2> QED
      BY ZenonT(30), <1>1, <2>1, <2>2, <2>3
         DEF TaskAt, Calling, Waiting, Informed, InCall, Covered, Clock, Expiry
  <1> QED
    BY Zenon, <1>2, <1>3

LEMMA OnGotAt ==
    ASSUME Inv, TypeOK', TaskOK, NEW c \in Claimant, TaskAt(c),
           OnGot(c), Calls(c, task[c], retries[c])
    PROVE  TaskAt(c)'
  <1> DEFINE st == FromLease(c, resp[c])
  <1>1. /\ TypeOK /\ pc[c] = "got" /\ InCall(c)
        /\ now' = now /\ late' = late /\ lease' = lease
        /\ c \in DOMAIN task
    BY ZenonT(30) DEF Inv, TypeOK, OnGot, InCall, TaskOK
  <1>2. /\ st \in States /\ Coherent(c, st)
        /\ st.version = lease.version => Covered(c, st.claim)
        /\ Immediate(c, st) => Sure(c, st.claim)
    BY Zenon, <1>1, GotAt DEF TaskAt
  <1>3. CASE call[c] = "ensure_claimed"
    <2>1. task[c] \in {"spawn", "claim"}
      BY ZenonT(30), <1>1, <1>3, InProgress
    <2>2. Loop(c, st)
      BY Zenon, <1>3 DEF OnGot
    <2> HIDE DEF st
    <2> QED
      BY Zenon, <1>1, <1>2, <2>1, <2>2, LoopAt
  <1>4. CASE call[c] # "ensure_claimed"
    <2>1. task[c] = "init" /\ state'[c] = st /\ pc'[c] = "idle"
      BY ZenonT(30), <1>1, <1>4, InProgress DEF OnGot, Return, TypeOK
    <2>2. task'[c] = "spawn"
      BY ZenonT(30), <1>1, <2>1 DEF Calls, Returned
    <2> HIDE DEF st
    <2>3. state'[c].version = lease'.version => Covered(c, state[c].claim)'
      BY Zenon, <1>1, <1>2, <2>1 DEF Covered, Clock, Expiry
    <2>4. Immediate(c, state[c])' => Sure(c, state[c].claim)'
      BY Zenon, <1>1, <1>2, <2>1
         DEF Immediate, IsCurrent, Sure, Covered, Stale, Clock, Expiry
    <2> QED
      BY Zenon, <2>1, <2>2, <2>3, <2>4
         DEF TaskAt, Calling, Waiting, Informed, InCall, Idle
  <1> QED
    BY ZenonT(30), <1>3, <1>4

LEMMA ProgressAt ==
    ASSUME Inv, TypeOK', Settled, NEW c \in Claimant, Progress(c)
    PROVE  TaskAt(c)'
  <1>1. TaskOK /\ TaskAt(c) /\ TypeOK /\ c \in DOMAIN task
    BY ZenonT(30) DEF Settled, TaskAt, TaskOK, Inv
  <1>2. CASE ServerPatch(c) \/ ServerGet(c)
    <2>1. pc'[c] \in {"patched", "got"}
      BY ZenonT(30), <1>1, <1>2 DEF ServerPatch, ServerGet, TypeOK
    <2>2. task'[c] = task[c]
      BY ZenonT(30), <1>1, <2>1 DEF Progress, Calls
    <2> QED
      BY Zenon, <1>1, <1>2, <2>2, ServerPatchAt, ServerGetAt
  <1>3. CASE OnPatched(c)
    <2>1. Calls(c, task[c], retries[c])
      BY ZenonT(30), <1>3 DEF Progress, OnPatched
    <2> QED
      BY ZenonT(30), <1>1, <1>3, <2>1, OnPatchedAt
  <1>4. CASE OnGot(c)
    <2>1. Calls(c, task[c], retries[c])
      BY ZenonT(30), <1>4 DEF Progress, OnGot
    <2> QED
      BY ZenonT(30), <1>1, <1>4, <2>1, OnGotAt
  <1>5. CASE OnConflict(c)
    <2>1. IF pc'[c] = "idle" THEN Failed(c)
                             ELSE Calls(c, task[c], retries[c])
      BY ZenonT(30), <1>5 DEF Progress, OnConflict
    <2> QED
      BY Zenon, <1>1, <1>5, <2>1, OnConflictAt
  <1> QED
    BY Zenon, <1>2, <1>3, <1>4, <1>5 DEF Progress, ApiStep

\* A patch that is applied leaves the lease to its sender or to no one.
LEMMA PatchedHolder ==
    ASSUME TypeOK, NEW p \in Patches, Justified(p), Matches(lease, p)
    PROVE  Patched(lease, p).holder \in {p.by, NoClaimant}
  <1>1. lease \in Leases /\ p.kind \in {"acquire", "renew", "vacate"}
    BY Zenon DEF TypeOK, Patches, Kind
  <1> QED
    BY Zenon, <1>1, PatchedFields DEF Justified, Matches

\* What a step of c's manager is to the others, and to patches on their way.
LEMMA OthersSteady ==
    ASSUME Inv, Settled, TypeOK', "vacate" \notin LateKinds, NEW c \in Claimant,
           \/ Start(c) \/ EnsureClaimed(c) \/ Vacate(c)
           \/ ApiStep(c) \/ Fail(c) \/ Crash(c)
    PROVE  /\ Moves
           /\ \A d \in Claimant : d # c => Steady(d)
           /\ \A p \in late' : Ripe(p)'
  <1>1. TypeOK /\ lease \in Leases /\ req[c] \in Patches /\ now \in Nat
    BY ZenonT(30) DEF Inv, TypeOK
  <1>2. /\ now' = now
        /\ \/ lease' = lease
           \/ /\ pc[c] = "patch" /\ Matches(lease, req[c])
              /\ lease' = Patched(lease, req[c])
    BY ZenonT(30) DEF Start, EnsureClaimed, Vacate, ApiStep, ServerPatch, ServerGet,
           OnPatched, OnConflict, OnGot, Fail, Crash
  <1>3. \/ late' = late
        \/ /\ pc[c] = "patch" /\ req[c].kind \in LateKinds
           /\ late' = late \cup {req[c]}
    BY ZenonT(30) DEF Start, EnsureClaimed, Vacate, ApiStep, ServerPatch, ServerGet,
           OnPatched, OnConflict, OnGot, Fail, Crash, Abandon
  <1>4. pc[c] = "patch" =>
           /\ req[c].by = c /\ Justified(req[c])
           /\ req[c].kind # "vacate" => Ripe(req[c])
    <2> SUFFICES ASSUME pc[c] = "patch"
                 PROVE  /\ req[c].by = c /\ Justified(req[c])
                        /\ req[c].kind # "vacate" => Ripe(req[c])
      BY Zenon
    <2>1. /\ req[c].by = c /\ Justified(req[c])
          /\ req[c].kind # "vacate" => call[c] = "ensure_claimed"
      BY Zenon DEF Inv, ManagerInv, Acting
    <2> QED
      BY Zenon, <2>1 DEF Settled, Waiting
  <1>5. Moves
    BY SMTT(30), <1>1, <1>2, PatchedFields DEF Moves
  <1>6. ASSUME NEW d \in Claimant, d # c
        PROVE  Steady(d)
    <2>1. \A p \in late' : p.by = d => p \in late
      BY Zenon, <1>3, <1>4, <1>6
    <2>2. lease' = lease \/ lease'.holder # d
      BY Zenon, <1>1, <1>2, <1>4, <1>6, PatchedHolder, ClaimantAssumption
    <2> QED
      BY ZenonT(30), <2>1, <2>2 DEF Steady
  <1>7. ASSUME NEW p \in late'
        PROVE  Ripe(p)'
    <2>1. p \in Patches /\ p.version <= lease.version /\ Ripe(p)
      BY ZenonT(30), <1>1, <1>3, <1>4 DEF Inv, TypeOK, Justified, Settled
    <2> QED
      BY ZenonT(30), <1>1, <1>5, <2>1, RipeSteady
  <1> QED
    BY ZenonT(30), <1>5, <1>6, <1>7

\* Time, other writers and late patches.
LEMMA EnvironmentSteady ==
    ASSUME Inv, Settled, TypeOK', Environment
    PROVE  /\ Moves
           /\ \A d \in Claimant : Steady(d) /\ Same(d)
           /\ \A p \in late' : Ripe(p)'
  <1>1. TypeOK /\ lease \in Leases /\ now \in Nat
    BY ZenonT(30) DEF Inv, TypeOK
  <1>2. \A d \in Claimant : Same(d)
    BY Zenon DEF Environment, Tick, Touch, ServerLate, managerVars, Same
  <1>3. late' \subseteq late
    BY Zenon DEF Environment, Tick, Touch, ServerLate
  <1>4. ASSUME NEW p \in late, ServerLate(p)
        PROVE  /\ Moves
               /\ \A d \in Claimant :
                     lease' = lease \/ (Stale(d) => lease'.holder # d)
    <2>1. /\ p \in Patches /\ Justified(p) /\ now' = now
          /\ \/ lease' = lease
             \/ Matches(lease, p) /\ lease' = Patched(lease, p)
      BY ZenonT(30), <1>1, <1>4 DEF Inv, TypeOK, ServerLate
    <2>2. Moves
      BY SMTT(30), <1>1, <2>1, PatchedFields DEF Moves
    <2>3. ASSUME NEW d \in Claimant, lease' # lease, Stale(d)
          PROVE  lease'.holder # d
      <3>1. p.by # d
        BY SMTT(30), <1>1, <2>1, <2>3 DEF Stale, Matches, Leases
      <3> QED
        BY ZenonT(30), <1>1, <2>1, <2>3, <3>1, PatchedHolder, ClaimantAssumption
    <2> QED
      BY Zenon, <2>2, <2>3
  <1>5. Moves
    <2>1. Tick => Moves
      BY SMTT(30), <1>1 DEF Tick, Moves
    <2>2. Touch => Moves
      BY Zenon, <1>1 DEF Touch, Moves, Leases
    <2> QED
      BY Zenon, <1>4, <2>1, <2>2 DEF Environment
  <1>6. ASSUME NEW d \in Claimant
        PROVE  Steady(d)
    <2>1. CASE Tick
      BY ZenonT(30), <1>3, <2>1 DEF Tick, Steady
    <2>2. CASE Touch
      <3>1. /\ lease'.holder = lease.holder
            /\ lease'.renewTime = lease.renewTime
            /\ lease'.leaseDurationSeconds = lease.leaseDurationSeconds
        BY ZenonT(30), <1>1, <2>2 DEF Touch, Leases
      <3> QED
        BY Zenon, <1>3, <3>1 DEF Steady, Expiry
    <2>3. ASSUME NEW p \in late, ServerLate(p)
          PROVE  Steady(d)
      BY Zenon, <1>3, <1>4, <2>3 DEF Steady
    <2> QED
      BY ZenonT(30), <2>1, <2>2, <2>3 DEF Environment
  <1>7. ASSUME NEW p \in late'
        PROVE  Ripe(p)'
    <2>1. p \in Patches /\ p.version <= lease.version /\ Ripe(p)
      BY ZenonT(30), <1>1, <1>3 DEF Inv, TypeOK, Justified, Settled
    <2> QED
      BY Zenon, <1>1, <1>5, <2>1, RipeSteady
  <1> QED
    BY ZenonT(30), <1>2, <1>5, <1>6, <1>7

LEMMA BootAt ==
    ASSUME TypeOK, TaskOK, NEW c \in Claimant, Boot(c)
    PROVE  TaskAt(c)'
  <1>1. pc'[c] = "get" /\ call'[c] = "init" /\ task'[c] = "init"
    BY ZenonT(30) DEF TypeOK, TaskOK, Boot, Start, SendGet
  <1> QED
    BY ZenonT(30), <1>1 DEF TaskAt, Calling, Waiting, Informed, InCall

LEMMA ErrorAt ==
    ASSUME Inv, TypeOK', TaskOK, NEW c \in Claimant, TaskAt(c), Error(c)
    PROVE  TaskAt(c)'
  <1>1. /\ TypeOK /\ InCall(c) /\ ~InCall(c)' /\ c \in DOMAIN task
        /\ lease' = lease /\ now' = now /\ state' = state
    BY SMTT(30) DEF Inv, TypeOK, TaskOK, Error, Fail, InCall
  <1>2. CASE Failed(c)
    BY Zenon, <1>1, <1>2, OverStep DEF Failed
  <1>3. CASE task[c] = "claim" /\ task' = task
    <2>1. ~Immediate(c, state[c])'
      BY ZenonT(30), <1>1, <1>3, InProgress DEF Immediate, IsCurrent, Clock
    <2> QED
      BY ZenonT(30), <1>1, <1>3, <2>1
         DEF TaskAt, Calling, Waiting, Informed, InCall, Covered, Clock, Expiry
  <1> QED
    BY Zenon, <1>2, <1>3 DEF Error

\* No manager and no task takes part in the step, or only a receiver is dropped.
LEMMA QuietAt ==
    ASSUME Settled, UNCHANGED vars, task' = task
    PROVE  /\ \A c \in Claimant : TaskAt(c)'
           /\ \A p \in late' : Ripe(p)'
  <1>1. \A p : Ripe(p)' = Ripe(p)
    BY Zenon DEF vars, Ripe, Fresh, Clock, Expiry
  <1>2. ASSUME NEW c \in Claimant
        PROVE  TaskAt(c)'
    <2>1. Calling(c)'
      BY Zenon DEF vars, Settled, Calling, InCall
    <2>2. Waiting(c)'
      BY ZenonT(30) DEF vars, Settled, Waiting, Ripe, Fresh, Sure, Covered, Stale, Clock,
             Expiry, ClaimOf
    <2>3. Informed(c)'
      BY Zenon DEF vars, Settled, Informed, Immediate, IsCurrent, Idle, Sure, Covered,
             Stale, Clock, Expiry
    <2> QED
      BY Zenon, <2>1, <2>2, <2>3 DEF TaskAt
  <1> QED
    BY Zenon, <1>1, <1>2 DEF vars, Settled

LEMMA SettledStep ==
    ASSUME "vacate" \notin LateKinds
    PROVE  Inv /\ Settled /\ [TaskNext]_allVars => Settled'
  <1> SUFFICES ASSUME Inv, Settled, [TaskNext]_allVars
               PROVE  Settled'
    BY ZenonT(30)
  <1>1. TypeOK /\ TaskOK /\ \A c \in Claimant : TaskAt(c)
    BY Zenon DEF Inv, Settled, TaskAt
  <1>2. TypeOK' /\ TaskOK'
    BY Zenon, <1>1, TaskStep, TypeStep, TaskOKStep
  <1> SUFFICES /\ \A c \in Claimant : TaskAt(c)'
               /\ \A p \in late' : Ripe(p)'
    BY Zenon, <1>2 DEF Settled, TaskAt
  <1>3. ASSUME NEW c \in Claimant,
               Boot(c) \/ Run(c) \/ Progress(c) \/ Error(c) \/ Die(c)
        PROVE  /\ \A d \in Claimant : TaskAt(d)'
               /\ \A p \in late' : Ripe(p)'
    <2>1. \/ Start(c) \/ EnsureClaimed(c) \/ Vacate(c)
          \/ ApiStep(c) \/ Fail(c) \/ Crash(c)
      BY ZenonT(30), <1>3
         DEF Boot, Run, FirstClaim, Wake, Retry, Close, Progress, Error, Die
    <2>2. /\ Moves
          /\ \A d \in Claimant : d # c => Steady(d) /\ Same(d)
          /\ \A p \in late' : Ripe(p)'
      BY Zenon, <1>1, <1>2, <2>1, OthersSteady, OneManager
    <2>3. \A d \in Claimant : d # c => task'[d] = task[d]
      BY ZenonT(30), <1>1, <1>3 DEF TaskOK, Boot, Run, FirstClaim, Wake, Retry, Close,
                        Progress, Error, Die, Calls, Returned, Failed
    <2>4. TaskAt(c)'
      <3>1. CASE Boot(c)
        BY ZenonT(30), <1>1, <3>1, BootAt
      <3>2. CASE FirstClaim(c) \/ Wake(c) \/ Retry(c)
        BY Zenon, <1>1, <1>2, <3>2, RunAt
      <3>3. CASE Close(c)
        BY ZenonT(30), <1>1, <1>2, <3>3, CloseAt
      <3>4. CASE Progress(c)
        BY Zenon, <1>1, <1>2, <3>4, ProgressAt
      <3>5. CASE Error(c)
        BY ZenonT(30), <1>1, <1>2, <3>5, ErrorAt
      <3>6. CASE Die(c)
        BY ZenonT(30), <1>1, <3>6, OverStep DEF Die, Crash, TypeOK, TaskOK, InCall
      <3> QED
        BY ZenonT(30), <1>3, <3>1, <3>2, <3>3, <3>4, <3>5, <3>6 DEF Run
    <2>5. ASSUME NEW d \in Claimant, d # c
          PROVE  TaskAt(d)'
      BY ZenonT(30), <1>1, <1>2, <2>2, <2>3, <2>5, PassiveStep
    <2> QED
      BY Zenon, <2>2, <2>4, <2>5
  <1>4. ASSUME NEW c \in Claimant, Drop(c)
        PROVE  /\ \A d \in Claimant : TaskAt(d)'
               /\ \A p \in late' : Ripe(p)'
    BY ZenonT(30), <1>4, QuietAt DEF Drop
  <1>5. CASE Elapse \/ Others
    <2>1. Environment /\ task' = task
      BY Zenon, <1>5 DEF Elapse, Others, Environment, taskVars
    <2>2. /\ Moves
          /\ \A d \in Claimant : Steady(d) /\ Same(d)
          /\ \A p \in late' : Ripe(p)'
      BY Zenon, <1>2, <2>1, EnvironmentSteady
    <2> QED
      BY Zenon, <1>1, <1>2, <2>1, <2>2, PassiveStep
  <1>6. CASE UNCHANGED allVars
    BY ZenonT(30), <1>6, QuietAt DEF allVars, taskVars
  <1> QED
    BY Zenon, <1>3, <1>4, <1>5, <1>6 DEF TaskNext

\* If no vacate is applied late, a task that waits knows of any claim of its
\* own in the lease, whatever calls failed, processes died and patches came
\* late before (lease.rs:378-431).
THEOREM TasksSettled ==
    ASSUME "vacate" \notin LateKinds
    PROVE  TaskSpec => []Settled
  <1>1. TaskInit => Settled
    <2>1. TaskInit => TaskOK
      BY TaskAssumption DEF TaskInit, Init, TaskOK, InCall, Idle
    <2> QED
      BY ZenonT(30), <2>1 DEF TaskInit, Init, Settled, Calling, Waiting, Informed, InCall
  <1> QED
    BY <1>1, SettledStep, TasksAreManagers, Invariance, PTL DEF TaskSpec

\* Then a task that ended without an error left the lease to others for good
\* (lease.rs:364-365).
THEOREM TasksRelease ==
    ASSUME "vacate" \notin LateKinds
    PROVE  TaskSpec => []EndedReleased
  <1>1. Settled => EndedReleased
    <2> SUFFICES ASSUME Settled, NEW c \in Claimant, task[c] = "ended"
                 PROVE  Released(c)
      BY ZenonT(30) DEF EndedReleased
    <2>1. Covered(c, NoClaim)
      BY Zenon DEF Settled, Informed, Sure
    <2>2. NoClaim.holder # c
      BY Zenon, ClaimantAssumption DEF NoClaim
    <2> QED
      BY Zenon, <2>1, <2>2 DEF Covered, Released
  <1> QED
    BY <1>1, TasksSettled, PTL

-----------------------------------------------------------------------------
(* A task that runs in time keeps its claim *)

\* What a task publishes is its manager's claim, which it renews before anyone
\* may take the lease; no time passes while it does.
Kept(c) ==
    /\ task[c] = "wait" => held[c] = Own(c, state[c].claim)
    /\ task[c] \in {"none", "init", "spawn"} => held[c] = NoClaim
    /\ task[c] \in {"wait", "claim"} /\ held[c].holder = c
          => now + Slack < held[c].expiry
    /\ pc[c] \in {"patch", "patched"} /\ call[c] = "ensure_claimed"
          => req[c].time = Clock(c)
    /\ pc[c] = "got" /\ held[c].holder = c
          => resp[c].holder = c /\ Clock(c) < Expiry(resp[c])

\* A step leaves c the claim that it publishes.
Carried(c) ==
    held[c].holder = c /\ task'[c] \in {"wait", "claim"} => held'[c].holder = c

\* A claim that outlasts the slack is current, and backed by the lease.
LEMMA LastingClaim ==
    ASSUME NEW c \in Claimant, now \in Nat, NEW e \in Nat, now + Slack < e
    PROVE  /\ Clock(c) < e
           /\ Backed(c, e) =>
                 lease.holder = c /\ (Expiry(lease) \in Int => Clock(c) < Expiry(lease))
  <1>1. /\ Clock(c) \in Nat /\ Clock(c) <= now + MaxSkew /\ MaxSkew \in Nat
        /\ Loss \in Nat /\ Slack \in Nat /\ Slack = MaxSkew + Loss
    BY Zenon, ClockType, SlackType, ClockAssumption
  <1>2. Clock(c) < e
    BY <1>1
  <1>3. ASSUME Backed(c, e)
        PROVE  lease.holder = c /\ e <= Expiry(lease) + Loss
    <2>1. ~(e <= now + Slack)
      BY <1>1
    <2> QED
      BY Zenon, <1>3, <2>1 DEF Backed
  <1>4. ASSUME Backed(c, e), Expiry(lease) \in Int
        PROVE  Clock(c) < Expiry(lease)
    BY <1>1, <1>3, <1>4
  <1> QED
    BY Zenon, <1>2, <1>3, <1>4

LEMMA KeptPassive ==
    ASSUME NEW c \in Claimant, Same(c), task'[c] = task[c], now' = now, Kept(c)
    PROVE  Kept(c)' /\ Carried(c)
  <1>1. Clock(c)' = Clock(c)
    BY Zenon DEF Clock
  <1>2. Kept(c)'
    BY Zenon, <1>1 DEF Kept, Same, Expiry
  <1> QED
    BY Zenon, <1>2 DEF Carried, Same

\* Time passes for a task only while it waits and is not due.
LEMMA KeptTick ==
    ASSUME Inv, TaskOK, Timely, Slack < RenewGrace,
           NEW c \in Claimant, Elapse, Kept(c)
    PROVE  Kept(c)' /\ Carried(c)
  <1>1. /\ TypeOK /\ now \in Nat /\ now' = now + 1 /\ Same(c) /\ task'[c] = task[c]
    BY Zenon DEF Inv, TypeOK, Elapse, Tick, managerVars, taskVars, Same
  <1>2. ~Due(c) /\ task[c] \notin {"init", "spawn", "claim", "vacate"} /\ ~InCall(c)
    BY Zenon DEF Elapse, TaskOK
  <1>3. ASSUME task[c] = "wait", held[c].holder = c
        PROVE  now + 1 + Slack < held[c].expiry
    <2>1. held[c] = state[c].claim /\ state[c].claim.holder = c
      BY SMTT(30), <1>3, ClaimantAssumption DEF Kept, Own, NoClaim
    <2>2. ~(Clock(c) >= state[c].claim.expiry - RenewGrace)
      BY Zenon, <1>2, <1>3, <2>1 DEF Due, WakeAt
    <2>3. /\ Clock(c) \in Nat /\ now <= Clock(c) /\ RenewGrace \in Nat
          /\ Slack \in Nat /\ held[c].expiry \in Nat
      BY Zenon, <1>1, ClockType, SlackType, ParamAssumption DEF TypeOK, Claims
    <2> QED
      BY <1>1, <2>1, <2>2, <2>3
  <1>4. now' + Slack = now + 1 + Slack
    BY Zenon, <1>1
  <1>5. Kept(c)'
    <2>1. task[c] = "wait" /\ held[c].holder = c => now' + Slack < held[c].expiry
      BY Zenon, <1>3, <1>4
    <2>2. pc[c] \notin {"patch", "patched", "got"} /\ task[c] # "claim"
      BY Zenon, <1>2 DEF InCall
    <2> QED
      BY Zenon, <1>1, <2>1, <2>2 DEF Kept, Same
  <1> QED
    BY Zenon, <1>1, <1>5 DEF Carried, Same

\* A task without a call in progress that does not publish a claim.
LEMMA KeptOver ==
    ASSUME NEW c \in Claimant, ~InCall(c)',
           \/ task'[c] \in {"ended", "failed"}
           \/ task'[c] = "none" /\ held'[c] = NoClaim
    PROVE  Kept(c)' /\ Carried(c)
  BY Zenon DEF Kept, Carried, InCall

\* One turn of ensure_claimed's loop, called by the task.
LEMMA KeptLoop ==
    ASSUME Inv, TaskOK, Slack < RenewGrace, now' = now, NEW c \in Claimant,
           NEW st \in States, Loop(c, st),
           NEW by \in {"spawn", "claim"}, NEW n, Calls(c, by, n),
           by = "spawn" => held[c] = NoClaim,
           held[c].holder = c =>
              /\ now + Slack < held[c].expiry
              /\ st.claim.holder = c \/ ~Immediate(c, st)
    PROVE  Kept(c)' /\ Carried(c)
  <1>1. /\ TypeOK /\ c \in DOMAIN task /\ state'[c] = st /\ now \in Nat
        /\ Clock(c)' = Clock(c) /\ Clock(c) \in Nat /\ now <= Clock(c)
        /\ RenewGrace \in Nat /\ Slack \in Nat /\ st.claim.expiry \in Nat
    BY ZenonT(30), ClockType, SlackType, ParamAssumption
       DEF Inv, TypeOK, TaskOK, Loop, Clock, States, Claims
  <1>2. CASE held' = [held EXCEPT ![c] = Own(c, st.claim)] /\ Return(c) /\ Immediate(c, st)
    <2>1. pc'[c] = "idle" /\ held'[c] = Own(c, st.claim)
      BY Zenon, <1>1, <1>2 DEF Return, TypeOK
    <2>2. task'[c] = "wait"
      BY Zenon, <1>1, <2>1 DEF Calls, Returned
    <2>3. st.claim.holder = c => now + Slack < st.claim.expiry
      BY SMTT(30), <1>1, <1>2 DEF Immediate
    <2>4. held'[c].holder = c => st.claim.holder = c /\ held'[c] = st.claim
      BY SMTT(30), <2>1, ClaimantAssumption DEF Own, NoClaim
    <2>5. Kept(c)'
      BY Zenon, <1>1, <2>1, <2>2, <2>3, <2>4 DEF Kept
    <2>6. Carried(c)
      BY Zenon, <1>2, <2>1 DEF Carried, Own
    <2> QED
      BY Zenon, <2>5, <2>6
  <1>3. ASSUME NEW kind \in {"acquire", "renew"}, SendPatch(c, kind, st), held' = held
        PROVE  Kept(c)' /\ Carried(c)
    <2>1. /\ pc'[c] = "patch" /\ req'[c] = Patch(c, kind, st)
      BY ZenonT(30), <1>1, <1>3 DEF SendPatch, TypeOK
    <2>2. task'[c] = by
      BY ZenonT(30), <1>1, <2>1 DEF Calls
    <2>3. req'[c].time = Clock(c)
      <3>1. Patch(c, kind, st).time = Clock(c)
        BY Zenon DEF Patch
      <3> QED
        BY Zenon, <2>1, <3>1
    <2> QED
      BY Zenon, <1>1, <1>3, <2>1, <2>2, <2>3 DEF Kept, Carried
  <1> QED
    BY Zenon, <1>2, <1>3 DEF Loop, Immediate

LEMMA KeptRun ==
    ASSUME Inv, Settled, Slack < RenewGrace, NEW c \in Claimant, Kept(c),
           FirstClaim(c) \/ Wake(c) \/ Retry(c)
    PROVE  Kept(c)' /\ Carried(c)
  <1>1. TaskOK /\ Informed(c) /\ state[c] \in States
    BY Zenon DEF Settled, Inv, TypeOK
  <1>2. Loop(c, state[c]) /\ now' = now
    BY Zenon DEF FirstClaim, Wake, Retry, EnsureClaimed
  <1>3. CASE FirstClaim(c)
    <2>1. held[c] = NoClaim /\ Calls(c, "spawn", 0)
      BY Zenon, <1>3 DEF FirstClaim, Kept
    <2>2. held[c].holder # c
      <3>1. NoClaim.holder # c
        BY Zenon, ClaimantAssumption DEF NoClaim
      <3> QED
        BY Zenon, <2>1, <3>1
    <2> QED
      BY Zenon, <1>1, <1>2, <2>1, <2>2, KeptLoop
  <1>4. CASE Wake(c)
    <2>1. held[c] = Own(c, state[c].claim) /\ Calls(c, "claim", 0)
      BY Zenon, <1>4 DEF Wake, Kept
    <2>2. held[c].holder = c => state[c].claim.holder = c /\ now + Slack < held[c].expiry
      BY SMTT(30), <1>4, <2>1, ClaimantAssumption DEF Wake, Kept, Own, NoClaim
    <2> QED
      BY Zenon, <1>1, <1>2, <2>1, <2>2, KeptLoop
  <1>5. CASE Retry(c)
    <2>1. task[c] = "claim" /\ Calls(c, "claim", retries[c] + 1)
      BY Zenon, <1>5 DEF Retry
    <2>2. ~Immediate(c, state[c])
      BY Zenon, <1>1, <2>1 DEF Informed
    <2>3. held[c].holder = c => now + Slack < held[c].expiry
      BY Zenon, <2>1 DEF Kept
    <2> QED
      BY Zenon, <1>1, <1>2, <2>1, <2>2, <2>3, KeptLoop
  <1> QED
    BY Zenon, <1>3, <1>4, <1>5

LEMMA KeptClose ==
    ASSUME Inv, TaskOK, NEW c \in Claimant, Close(c)
    PROVE  Kept(c)' /\ Carried(c)
  <1>1. TypeOK /\ c \in DOMAIN task /\ Vacate(c) /\ Calls(c, "vacate", 0)
    BY Zenon DEF Inv, TaskOK, Close
  <1>2. CASE Return(c)
    <2>1. pc'[c] = "idle"
      BY Zenon, <1>1, <1>2 DEF Return, TypeOK
    <2>2. task'[c] = "ended"
      BY Zenon, <1>1, <2>1 DEF Calls, Returned
    <2> QED
      BY Zenon, <2>1, <2>2, KeptOver DEF InCall
  <1>3. CASE SendPatch(c, "vacate", state[c])
    <2>1. pc'[c] = "patch" /\ call'[c] = "vacate"
      BY ZenonT(30), <1>1, <1>3 DEF SendPatch, TypeOK
    <2>2. task'[c] = "vacate"
      BY ZenonT(30), <1>1, <2>1 DEF Calls
    <2> QED
      BY Zenon, <2>1, <2>2 DEF Kept, Carried
  <1> QED
    BY Zenon, <1>1, <1>2, <1>3 DEF Vacate

LEMMA KeptError ==
    ASSUME Inv, TaskOK, NEW c \in Claimant, Kept(c), Error(c)
    PROVE  Kept(c)' /\ Carried(c)
  <1>1. /\ TypeOK /\ c \in DOMAIN task /\ ~InCall(c)' /\ held' = held /\ now' = now
    BY SMTT(30) DEF Inv, TypeOK, TaskOK, Error, Fail, InCall
  <1>2. CASE Failed(c)
    <2>1. task'[c] = "failed"
      BY Zenon, <1>1, <1>2 DEF Failed
    <2> QED
      BY Zenon, <1>1, <2>1, KeptOver
  <1>3. CASE task[c] = "claim" /\ task' = task
    BY Zenon, <1>1, <1>3 DEF Kept, Carried, InCall
  <1> QED
    BY Zenon, <1>2, <1>3 DEF Error

LEMMA KeptServer ==
    ASSUME Inv, Settled, NEW c \in Claimant, Kept(c),
           ServerPatch(c) \/ ServerGet(c), task'[c] = task[c]
    PROVE  Kept(c)' /\ Carried(c)
  <1>1. /\ TypeOK /\ TaskOK /\ now \in Nat /\ held[c].expiry \in Nat
        /\ Expiry(lease) \in Int
    BY Zenon, ExpiryInt DEF Inv, Settled, TypeOK, Claims
  <1>2. /\ now' = now /\ state' = state /\ call' = call /\ req' = req /\ held' = held
        /\ Clock(c)' = Clock(c)
    BY Zenon DEF ServerPatch, ServerGet, Clock
  <1>3. CASE ServerPatch(c)
    <2>1. pc[c] = "patch" /\ pc'[c] = "patched"
      BY Zenon, <1>1, <1>3 DEF ServerPatch, TypeOK
    <2> QED
      BY Zenon, <1>2, <2>1 DEF Kept, Carried
  <1>4. CASE ServerGet(c)
    <2>1. /\ pc[c] = "get" /\ pc'[c] = "got" /\ resp'[c] = lease /\ InCall(c)
      BY Zenon, <1>1, <1>4 DEF ServerGet, TypeOK, InCall
    <2>2. task[c] \in {"init", "spawn", "claim"}
      BY Zenon, <2>1 DEF Settled, TaskOK, Calling, Inv, ManagerInv, Acting
    <2>3. ASSUME held[c].holder = c
          PROVE  lease.holder = c /\ Clock(c) < Expiry(lease)
      <3>1. NoClaim.holder # c
        BY Zenon, ClaimantAssumption DEF NoClaim
      <3>2. now + Slack < held[c].expiry
        BY Zenon, <2>2, <2>3, <3>1 DEF Kept
      <3>3. Backed(c, held[c].expiry)
        BY Zenon, <2>3 DEF Inv, ManagerInv, Acting
      <3> QED
        BY Zenon, <1>1, <3>2, <3>3, LastingClaim
    <2> QED
      BY Zenon, <1>2, <2>1, <2>3 DEF Kept, Carried, Expiry
  <1> QED
    BY Zenon, <1>3, <1>4

LEMMA KeptOnPatched ==
    ASSUME Inv, Settled, Slack < LeaseDuration, NEW c \in Claimant, Kept(c),
           OnPatched(c), Calls(c, task[c], retries[c])
    PROVE  Kept(c)' /\ Carried(c)
  <1>1. /\ TypeOK /\ TaskOK /\ TaskAt(c) /\ c \in DOMAIN task
        /\ pc[c] = "patched" /\ InCall(c) /\ pc'[c] = "idle" /\ now' = now
    BY ZenonT(30) DEF Inv, Settled, TaskAt, TypeOK, OnPatched, Return, InCall, TaskOK
  <1>2. CASE call[c] = "vacate"
    <2>1. task'[c] = "ended"
      BY ZenonT(30), <1>1, <1>2, InProgress DEF Calls, Returned
    <2> QED
      BY Zenon, <1>1, <2>1, KeptOver DEF InCall
  <1>3. CASE call[c] # "vacate"
    <2>1. task'[c] = "wait" /\ call[c] = "ensure_claimed"
      BY ZenonT(30), <1>1, <1>3, InProgress DEF Calls, Returned
    <2>2. state'[c].claim = ClaimOf(req[c]) /\ held'[c] = ClaimOf(req[c])
      BY SMTT(30), <1>1, <1>3 DEF OnPatched, TypeOK
    <2>3. req[c].by = c /\ req[c].time = Clock(c)
      BY Zenon, <1>1, <2>1 DEF Kept, Inv, ManagerInv, Acting
    <2>4. ClaimOf(req[c]).holder = c
          /\ ClaimOf(req[c]).expiry = Clock(c) + LeaseDuration
      BY Zenon, <2>3 DEF ClaimOf
    <2>5. Own(c, ClaimOf(req[c])) = ClaimOf(req[c])
      BY Zenon, <2>4 DEF Own
    <2>6. now + Slack < Clock(c) + LeaseDuration
      <3>1. /\ now \in Nat /\ Clock(c) \in Nat /\ now <= Clock(c)
            /\ Slack \in Nat /\ LeaseDuration \in Nat
        BY Zenon, <1>1, ClockType, SlackType, ParamAssumption DEF TypeOK
      <3> QED
        BY <3>1
    <2> QED
      BY Zenon, <1>1, <2>1, <2>2, <2>4, <2>5, <2>6 DEF Kept, Carried
  <1> QED
    BY Zenon, <1>2, <1>3

LEMMA KeptOnConflict ==
    ASSUME Inv, Settled, NEW c \in Claimant, Kept(c), OnConflict(c),
           IF pc'[c] = "idle" THEN Failed(c)
                              ELSE Calls(c, task[c], retries[c])
    PROVE  Kept(c)' /\ Carried(c)
  <1>1. /\ TypeOK /\ c \in DOMAIN task /\ now' = now /\ held' = held /\ state' = state
        /\ pc'[c] = "idle" \/ pc'[c] = "get"
    BY ZenonT(30) DEF Inv, Settled, TaskOK, TypeOK, OnConflict, Return, SendGet
  <1>2. CASE pc'[c] = "idle"
    <2>1. task'[c] = "failed"
      BY Zenon, <1>1, <1>2 DEF Failed
    <2> QED
      BY Zenon, <1>2, <2>1, KeptOver DEF InCall
  <1>3. CASE pc'[c] = "get"
    <2>1. task'[c] = task[c]
      BY Zenon, <1>1, <1>3 DEF Calls
    <2> QED
      BY Zenon, <1>1, <1>3, <2>1 DEF Kept, Carried
  <1> QED
    BY Zenon, <1>1, <1>2, <1>3

\* A re-sync finds the claim that the task publishes.
LEMMA KeptOnGot ==
    ASSUME Inv, Settled, Slack < RenewGrace, NEW c \in Claimant, Kept(c),
           OnGot(c), Calls(c, task[c], retries[c])
    PROVE  Kept(c)' /\ Carried(c)
  <1> DEFINE l == resp[c]
             st == FromLease(c, l)
  <1>1. /\ TypeOK /\ TaskOK /\ TaskAt(c) /\ c \in DOMAIN task /\ l \in Leases
        /\ now \in Nat /\ pc[c] = "got" /\ InCall(c) /\ now' = now
    BY ZenonT(30) DEF Inv, Settled, TaskAt, TypeOK, OnGot, InCall, TaskOK
  <1>2. st \in States
    BY Zenon, <1>1, FromLeaseType
  <1>3. ASSUME held[c].holder = c
        PROVE  st.claim.holder = c
    <2>1. l.holder = c /\ Clock(c) < Expiry(l)
      BY Zenon, <1>1, <1>3 DEF Kept
    <2>2. l.holder # NoClaimant
      BY Zenon, <2>1, ClaimantAssumption
    <2>3. WellFormed(l)
      BY Zenon, <1>1 DEF Inv, ManagerInv, Receiving
    <2>4. l.renewTime # Absent /\ l.leaseDurationSeconds # Absent
      BY <2>2, <2>3, SecondsLemma DEF WellFormed, Absent
    <2>5. ~(Expiry(l) <= Clock(c))
      BY <1>1, <2>1, ClockType, ExpiryInt
    <2> QED
      BY Zenon, <2>1, <2>2, <2>4, <2>5 DEF FromLease
  <1>4. \/ call[c] = "ensure_claimed" /\ Loop(c, st)
        \/ call[c] # "ensure_claimed" /\ Return(c)
    BY Zenon DEF OnGot
  <1> HIDE DEF st
  <1>5. CASE call[c] = "ensure_claimed" /\ Loop(c, st)
    <2>1. task[c] \in {"spawn", "claim"}
      BY ZenonT(30), <1>1, <1>5, InProgress
    <2>2. task[c] = "spawn" => held[c] = NoClaim
      BY Zenon DEF Kept
    <2>3. NoClaim.holder # c
      BY Zenon, ClaimantAssumption DEF NoClaim
    <2>4. held[c].holder = c => now + Slack < held[c].expiry
      BY Zenon, <2>1, <2>2, <2>3 DEF Kept
    <2> QED
      BY Zenon, <1>1, <1>2, <1>3, <1>5, <2>1, <2>2, <2>4, KeptLoop
  <1>6. CASE call[c] # "ensure_claimed" /\ Return(c)
    <2>1. task[c] = "init"
      BY ZenonT(30), <1>1, <1>6, InProgress
    <2>2. pc'[c] = "idle"
      BY Zenon, <1>1, <1>6 DEF Return, TypeOK
    <2>3. task'[c] = "spawn"
      BY Zenon, <1>1, <2>1, <2>2 DEF Calls, Returned
    <2>4. held' = held
      <3>1. call[c] = "init"
        BY ZenonT(30), <1>1, <1>6, InProgress
      <3> QED
        BY Zenon, <3>1 DEF OnGot
    <2>5. held'[c] = NoClaim
      BY Zenon, <2>1, <2>4 DEF Kept
    <2> QED
      BY Zenon, <2>2, <2>3, <2>5 DEF Kept, Carried
  <1> QED
    BY Zenon, <1>4, <1>5, <1>6

LEMMA KeptProgress ==
    ASSUME Inv, Settled, Slack < RenewGrace, Slack < LeaseDuration,
           NEW c \in Claimant, Kept(c), Progress(c)
    PROVE  Kept(c)' /\ Carried(c)
  <1>1. TypeOK /\ c \in DOMAIN task
    BY Zenon DEF Inv, Settled, TaskOK
  <1>2. CASE ServerPatch(c) \/ ServerGet(c)
    <2>1. pc'[c] \in {"patched", "got"}
      BY ZenonT(30), <1>1, <1>2 DEF ServerPatch, ServerGet, TypeOK
    <2>2. task'[c] = task[c]
      BY ZenonT(30), <1>1, <2>1 DEF Progress, Calls
    <2> QED
      BY Zenon, <1>2, <2>2, KeptServer
  <1>3. CASE OnPatched(c) \/ OnGot(c)
    <2>1. Calls(c, task[c], retries[c])
      BY ZenonT(30), <1>3 DEF Progress, OnPatched, OnGot
    <2> QED
      BY ZenonT(30), <1>3, <2>1, KeptOnPatched, KeptOnGot
  <1>4. CASE OnConflict(c)
    <2>1. IF pc'[c] = "idle" THEN Failed(c)
                             ELSE Calls(c, task[c], retries[c])
      BY ZenonT(30), <1>4 DEF Progress, OnConflict
    <2> QED
      BY Zenon, <1>4, <2>1, KeptOnConflict
  <1> QED
    BY Zenon, <1>2, <1>3, <1>4 DEF Progress, ApiStep

LEMMA KeptStep ==
    ASSUME Timely, Slack < RenewGrace, Slack < LeaseDuration,
           Inv, Settled, \A c \in Claimant : Kept(c), [TaskNext]_allVars
    PROVE  \A c \in Claimant : Kept(c)' /\ Carried(c)
  <1>1. TypeOK /\ TaskOK
    BY Zenon DEF Inv, Settled
  <1>2. ASSUME NEW c \in Claimant,
               Boot(c) \/ Run(c) \/ Progress(c) \/ Error(c) \/ Die(c)
        PROVE  \A d \in Claimant : Kept(d)' /\ Carried(d)
    <2>1. \/ Start(c) \/ EnsureClaimed(c) \/ Vacate(c)
          \/ ApiStep(c) \/ Fail(c) \/ Crash(c)
      BY ZenonT(30), <1>2
         DEF Boot, Run, FirstClaim, Wake, Retry, Close, Progress, Error, Die
    <2>2. \A d \in Claimant : d # c => Same(d)
      BY Zenon, <1>1, <2>1, OneManager
    <2>3. \A d \in Claimant : d # c => task'[d] = task[d]
      BY ZenonT(30), <1>1, <1>2 DEF TaskOK, Boot, Run, FirstClaim, Wake, Retry,
                        Close, Progress, Error, Die, Calls, Returned, Failed
    <2>4. now' = now
      BY ZenonT(30), <2>1
         DEF Start, EnsureClaimed, Vacate, ApiStep, ServerPatch, ServerGet,
             OnPatched, OnConflict, OnGot, Fail, Crash
    <2>5. CASE Boot(c)
      <3>1. /\ pc'[c] = "get" /\ task'[c] = "init" /\ task[c] = "none" /\ held' = held
        BY ZenonT(30), <1>1, <2>5 DEF TypeOK, TaskOK, Boot, Start, SendGet
      <3>2. Kept(c)' /\ Carried(c)
        BY Zenon, <3>1 DEF Kept, Carried
      <3> QED
        BY Zenon, <2>2, <2>3, <2>4, <3>2, KeptPassive
    <2>6. CASE Die(c)
      <3>1. ~InCall(c)' /\ task'[c] = "none" /\ held'[c] = NoClaim
        BY Zenon, <1>1, <2>6 DEF TypeOK, TaskOK, Die, Crash, InCall
      <3>2. Kept(c)' /\ Carried(c)
        BY Zenon, <3>1, KeptOver
      <3> QED
        BY Zenon, <2>2, <2>3, <2>4, <3>2, KeptPassive
    <2>7. CASE Run(c) \/ Progress(c) \/ Error(c)
      <3>1. Kept(c)' /\ Carried(c)
        BY Zenon, <1>1, <2>7, KeptRun, KeptClose, KeptProgress, KeptError DEF Run
      <3> QED
        BY Zenon, <2>2, <2>3, <2>4, <3>1, KeptPassive
    <2> QED
      BY Zenon, <1>2, <2>5, <2>6, <2>7
  <1>3. CASE Elapse
    BY Zenon, <1>1, <1>3, KeptTick
  <1>4. CASE Others \/ (\E c \in Claimant : Drop(c)) \/ UNCHANGED allVars
    <2>1. now' = now /\ task' = task /\ \A c \in Claimant : Same(c)
      BY ZenonT(30), <1>4
         DEF Others, Touch, ServerLate, Drop, allVars, vars, taskVars, managerVars, Same
    <2> QED
      BY Zenon, <2>1, KeptPassive
  <1> QED
    BY Zenon, <1>2, <1>3, <1>4 DEF TaskNext

\* If calls return and due tasks run within a tick, and the grace period and
\* the lease's duration exceed what clocks and roundings may differ by, then a
\* running task never lets its claim lapse, whatever calls fail, processes die
\* and renewals come late (lease.rs:381-382, 399-421).
THEOREM TasksKeepTheirClaims ==
    ASSUME Timely, "vacate" \notin LateKinds,
           Slack < RenewGrace, Slack < LeaseDuration
    PROVE  TaskSpec => NoLapse
  <1> DEFINE K == \A c \in Claimant : Kept(c)
             A == \A c \in Claimant :
                     Holds(c) /\ receivers[c] /\ task'[c] \in {"wait", "claim"}
                        => Holds(c)'
  <1>1. TaskInit => K
    <2> SUFFICES ASSUME TaskInit, NEW c \in Claimant
                 PROVE  Kept(c)
      BY Zenon
    <2>1. task[c] = "none" /\ pc[c] = "down" /\ held[c] = NoClaim
      BY DEF TaskInit, Init
    <2> QED
      BY Zenon, <2>1 DEF Kept
  <1>2. Inv /\ Settled /\ K /\ [TaskNext]_allVars => K'
    BY Zenon, KeptStep
  <1>3. Inv /\ Settled /\ K /\ [TaskNext]_allVars => A
    <2> SUFFICES ASSUME Inv, Settled, K, [TaskNext]_allVars, NEW c \in Claimant,
                        Holds(c), task'[c] \in {"wait", "claim"}
                 PROVE  Holds(c)'
      BY Zenon
    <2>1. held[c].holder = c
      BY Zenon DEF Holds, IsCurrentFor
    <2>2. Kept(c)' /\ held'[c].holder = c
      BY Zenon, <2>1, KeptStep DEF Carried
    <2>3. now' + Slack < held'[c].expiry
      BY Zenon, <2>2 DEF Kept
    <2>4. TypeOK'
      BY Zenon, TaskStep, TypeStep DEF Inv
    <2>5. now' \in Nat /\ held'[c].expiry \in Nat
      BY Zenon, <2>4 DEF TypeOK, Claims
    <2>6. Clock(c)' < held'[c].expiry
      <3>1. Clock(c)' = now' + Skew[c]
        BY Zenon DEF Clock
      <3>2. /\ Skew[c] \in 0 .. MaxSkew /\ MaxSkew \in Nat /\ Loss \in Nat
            /\ Slack = MaxSkew + Loss
        BY Zenon, ClockAssumption, SlackType
      <3> QED
        BY <2>3, <2>5, <3>1, <3>2
    <2> QED
      BY Zenon, <2>2, <2>6 DEF Holds, IsCurrentFor, IsCurrent
  <1> HIDE DEF K
  <1>4. TaskSpec => []K
    BY <1>1, <1>2, TasksSettled, TasksAreManagers, Invariance, PTL DEF TaskSpec
  <1>5. Inv /\ Settled /\ K /\ [TaskNext]_allVars => [A]_allVars
    BY Zenon, <1>3
  <1> QED
    BY <1>4, <1>5, TasksSettled, TasksAreManagers, Invariance, PTL
       DEF TaskSpec, NoLapse

-----------------------------------------------------------------------------
(* What the diagnostics tell, with no assumption on late patches *)

\* What is cached, asked for or replied of the lease l, with its version, is
\* so for as long as l has that version.
Cached(l, st) ==
    /\ st.version <= l.version
    /\ st.version = l.version /\ st.claim.holder # NoClaimant
          => l.holder = st.claim.holder

Asked(l, c, p) ==
    /\ p.by = c
    /\ p.version <= l.version
    /\ p.version = l.version /\ p.kind = "renew" => l.holder = c

Written(l, c, r) ==
    /\ r.version <= l.version
    /\ r.version = l.version => l.holder = c

Found(l, r) ==
    /\ r.version <= l.version
    /\ r.version = l.version => r = l

\* The manager of c, between its requests and their replies.
Versioned(c) ==
    /\ Cached(lease, state[c])
    /\ pc[c] = "patch" => Asked(lease, c, req[c])
    /\ pc[c] = "patch" /\ call[c] # "vacate" => req[c].kind # "vacate"
    /\ pc[c] = "patched" /\ call[c] # "vacate" =>
          req[c].by = c /\ Written(lease, c, resp[c])
    /\ pc[c] = "got" => Found(lease, resp[c])

\* Which call a task has in progress.
Engaged(c) ==
    InCall(c) =>
       \/ task[c] = "init" /\ call[c] = "init" /\ pc[c] \in {"get", "got"}
       \/ task[c] \in {"spawn", "claim"} /\ call[c] = "ensure_claimed"
       \/ task[c] = "vacate" /\ call[c] = "vacate" /\ pc[c] \in {"patch", "patched"}

\* A lease with a holder has the fields of its claim.
Filled(l) ==
    l.holder # NoClaimant => l.renewTime # Absent /\ l.leaseDurationSeconds # Absent

Report == [current : Claims, version : Nat]

\* The report d is right about the lease l at the time t.
Right(l, t, d) ==
    /\ d.version <= l.version
    /\ d.version = l.version =>
          \/ d.current.holder = l.holder
          \/ d.current = NoClaim /\ Expiry(l) <= t

\* The report of c is that of its manager's state, but for the claim that
\* vacate takes out of the state before it patches the lease.
Following(c) ==
    diag[c] # Untold =>
        /\ task[c] \in {"spawn", "claim", "wait", "vacate"}
        /\ task[c] = "vacate" => ~Idle(c)
        /\ task[c] # "vacate" => diag[c] = Told(state[c])
        /\ Right(lease, Clock(c), diag[c])

DiagAt(c) == Versioned(c) /\ Engaged(c) /\ Following(c)

DiagInv ==
    /\ TypeOK
    /\ TaskOK
    /\ diag \in [Claimant -> Report]
    /\ Filled(lease)
    /\ \A c \in Claimant : DiagAt(c)

LEMMA DiagTypes ==
    ASSUME DiagInv, NEW c \in Claimant
    PROVE  /\ TypeOK /\ TaskOK /\ DiagAt(c) /\ c \in DOMAIN task
           /\ lease \in Leases /\ lease.version \in Nat
           /\ state[c] \in States /\ state[c].version \in Nat
           /\ req[c] \in Patches /\ req[c].version \in Nat
           /\ resp[c] \in Leases /\ resp[c].version \in Nat
           /\ diag[c] \in Report /\ diag[c].version \in Nat
           /\ Clock(c) \in Nat
  <1>1. /\ TypeOK /\ TaskOK /\ DiagAt(c) /\ c \in DOMAIN task
        /\ lease \in Leases /\ state[c] \in States /\ req[c] \in Patches
        /\ resp[c] \in Leases /\ diag[c] \in Report
    BY Zenon DEF DiagInv, TypeOK, TaskOK
  <1>2. Clock(c) \in Nat
    BY Zenon, <1>1, ClockType DEF TypeOK
  <1> QED
    BY Zenon, <1>1, <1>2 DEF Leases, States, Patches, Report

LEMMA NewVersion ==
    ASSUME NEW l \in Leases, NEW m \in Leases, m.version = l.version + 1
    PROVE  /\ \A st \in States : Cached(l, st) => Cached(m, st)
           /\ \A c \in Claimant, p \in Patches : Asked(l, c, p) => Asked(m, c, p)
           /\ \A c \in Claimant, r \in Leases : Written(l, c, r) => Written(m, c, r)
           /\ \A r \in Leases : Found(l, r) => Found(m, r)
           /\ \A d \in Report : \A s, t : Right(l, s, d) => Right(m, t, d)
  <1>1. /\ l.version \in Nat
        /\ \A n \in Nat : n <= l.version => n <= m.version /\ n # m.version
    BY DEF Leases
  <1>2. /\ \A st \in States : st.version \in Nat
        /\ \A p \in Patches : p.version \in Nat
        /\ \A r \in Leases : r.version \in Nat
        /\ \A d \in Report : d.version \in Nat
    BY Zenon DEF States, Patches, Leases, Report
  <1> QED
    BY Zenon, <1>1, <1>2 DEF Cached, Asked, Written, Found, Right

\* A report stays right as time goes on.
LEMMA RightLater ==
    ASSUME NEW l \in Leases, NEW d, NEW s \in Nat, NEW t \in Nat, s <= t,
           Right(l, s, d)
    PROVE  Right(l, t, d)
  <1>1. Expiry(l) \in Int
    BY Zenon, ExpiryInt
  <1>2. Expiry(l) <= s => Expiry(l) <= t
    BY <1>1
  <1> QED
    BY Zenon, <1>2 DEF Right

\* A manager and a task that take no part in a step.
LEMMA DiagPassive ==
    ASSUME DiagInv, TypeOK', Moves, NEW c \in Claimant, Same(c),
           task'[c] = task[c], diag'[c] = diag[c]
    PROVE  DiagAt(c)'
  <1>1. /\ TypeOK /\ lease \in Leases /\ lease' \in Leases /\ state[c] \in States
        /\ req[c] \in Patches /\ resp[c] \in Leases /\ diag[c] \in Report
        /\ DiagAt(c)
    BY Zenon, DiagTypes DEF TypeOK
  <1>2. Versioned(c)'
    <2>1. CASE lease' = lease
      BY Zenon, <1>1, <2>1 DEF DiagAt, Versioned, Same
    <2>2. CASE lease'.version = lease.version + 1
      BY Zenon, <1>1, <2>2, NewVersion DEF DiagAt, Versioned, Same
    <2> QED
      BY Zenon, <2>1, <2>2 DEF Moves
  <1>3. Engaged(c)'
    BY Zenon, <1>1 DEF DiagAt, Engaged, Same, InCall
  <1>4. Right(lease, Clock(c), diag[c]) => Right(lease, Clock(c), diag[c])'
    <2>1. CASE lease' = lease
      BY Zenon, <1>1, <2>1, ClockMoves, RightLater
    <2>2. CASE lease'.version = lease.version + 1
      BY Zenon, <1>1, <2>2, NewVersion
    <2> QED
      BY Zenon, <2>1, <2>2 DEF Moves
  <1>5. Following(c)'
    BY Zenon, <1>1, <1>4 DEF DiagAt, Following, Same, Idle
  <1> QED
    BY Zenon, <1>2, <1>3, <1>5 DEF DiagAt

\* A manager with no call in progress.
LEMMA RestVersioned ==
    ASSUME NEW c \in Claimant, ~InCall(c)', Cached(lease', state'[c])
    PROVE  Versioned(c)' /\ Engaged(c)'
  BY Zenon DEF Versioned, Engaged, InCall

\* One turn of ensure_claimed's loop, called by the task.
LEMMA LoopVersioned ==
    ASSUME TypeOK, lease' = lease, NEW c \in Claimant, c \in DOMAIN task,
           NEW st \in States, Cached(lease, st), Loop(c, st),
           NEW by \in {"spawn", "claim"}, NEW n, Calls(c, by, n)
    PROVE  /\ Versioned(c)' /\ Engaged(c)'
           /\ state'[c] = st
           /\ task'[c] \in {"wait", "spawn", "claim"}
  <1>1. state'[c] = st
    BY Zenon DEF Loop, TypeOK
  <1>2. Cached(lease', state'[c])
    BY Zenon, <1>1
  <1>3. CASE Return(c)
    <2>1. pc'[c] = "idle"
      BY Zenon, <1>3 DEF Return, TypeOK
    <2>2. task'[c] = "wait"
      BY Zenon, <2>1 DEF Calls, Returned
    <2>3. ~InCall(c)'
      BY Zenon, <2>1 DEF InCall
    <2> QED
      BY Zenon, <1>1, <1>2, <2>2, <2>3, RestVersioned
  <1>4. ASSUME NEW kind \in {"acquire", "renew"}, SendPatch(c, kind, st),
               kind = "renew" => st.claim.holder = c
        PROVE  /\ Versioned(c)' /\ Engaged(c)'
               /\ task'[c] \in {"wait", "spawn", "claim"}
    <2>1. /\ pc'[c] = "patch" /\ call'[c] = "ensure_claimed"
          /\ req'[c] = Patch(c, kind, st)
      BY ZenonT(30), <1>4 DEF SendPatch, TypeOK
    <2>2. task'[c] = by
      BY ZenonT(30), <2>1 DEF Calls
    <2>3. /\ Patch(c, kind, st).by = c /\ Patch(c, kind, st).kind = kind
          /\ Patch(c, kind, st).version = st.version
      BY Zenon DEF Patch
    <2>4. Asked(lease, c, Patch(c, kind, st))
      BY Zenon, <1>4, <2>3, ClaimantAssumption DEF Asked, Cached
    <2>5. Versioned(c)'
      BY Zenon, <1>2, <1>4, <2>1, <2>3, <2>4 DEF Versioned
    <2>6. Engaged(c)'
      BY Zenon, <2>1, <2>2 DEF Engaged
    <2> QED
      BY Zenon, <2>2, <2>5, <2>6
  <1> QED
    BY Zenon, <1>1, <1>3, <1>4, ClaimantAssumption DEF Loop

\* What c's report becomes.
LEMMA KeepsReport ==
    ASSUME DiagInv, NEW c \in Claimant, Keep(c)
    PROVE  /\ diag'[c] = IF Gone(c) THEN Untold ELSE diag[c]
           /\ \A d \in Claimant : d # c => diag'[d] = diag[d]
  BY Zenon DEF DiagInv, Keep

LEMMA BootDiag ==
    ASSUME DiagInv, NEW c \in Claimant, Boot(c), Keep(c)
    PROVE  DiagAt(c)'
  <1>1. TypeOK /\ TaskOK /\ DiagAt(c)
    BY Zenon, DiagTypes
  <1>2. /\ pc'[c] = "get" /\ call'[c] = "init" /\ task'[c] = "init"
        /\ task[c] = "none" /\ lease' = lease /\ state' = state
    BY ZenonT(30), <1>1 DEF TypeOK, TaskOK, Boot, Start, SendGet
  <1>3. Versioned(c)' /\ Engaged(c)'
    BY Zenon, <1>1, <1>2 DEF DiagAt, Versioned, Engaged
  <1>4. diag[c] = Untold
    BY Zenon, <1>1, <1>2 DEF DiagAt, Following
  <1>5. Following(c)'
    BY Zenon, <1>4, KeepsReport DEF Following
  <1> QED
    BY Zenon, <1>3, <1>5 DEF DiagAt

\* The task calls ensure_claimed: the manager learns nothing.
LEMMA RunDiag ==
    ASSUME DiagInv, NEW c \in Claimant,
           FirstClaim(c) \/ Wake(c) \/ Retry(c), Keep(c)
    PROVE  DiagAt(c)'
  <1>1. /\ TypeOK /\ TaskOK /\ DiagAt(c) /\ c \in DOMAIN task
        /\ state[c] \in States
    BY Zenon, DiagTypes
  <1>2. /\ Loop(c, state[c]) /\ lease' = lease /\ now' = now
        /\ task[c] \in {"spawn", "wait", "claim"}
    BY Zenon DEF FirstClaim, Wake, Retry, EnsureClaimed
  <1>3. PICK by \in {"spawn", "claim"}, n \in Int : Calls(c, by, n)
    BY <1>1 DEF FirstClaim, Wake, Retry, TaskOK
  <1>4. /\ Versioned(c)' /\ Engaged(c)' /\ state'[c] = state[c]
        /\ task'[c] \in {"wait", "spawn", "claim"}
    <2>1. Cached(lease, state[c])
      BY Zenon, <1>1 DEF DiagAt, Versioned
    <2> QED
      BY ZenonT(30), <1>1, <1>2, <1>3, <2>1, LoopVersioned
  <1>5. Following(c)'
    <2>1. diag'[c] = diag[c]
      BY Zenon, <1>4, KeepsReport DEF Gone
    <2> QED
      BY Zenon, <1>1, <1>2, <1>4, <2>1 DEF DiagAt, Following, Told, Clock
  <1> QED
    BY Zenon, <1>4, <1>5 DEF DiagAt

\* The task vacates: the report stays until the task is gone.
LEMMA CloseDiag ==
    ASSUME DiagInv, NEW c \in Claimant, Close(c), Keep(c)
    PROVE  DiagAt(c)'
  <1>1. /\ TypeOK /\ TaskOK /\ DiagAt(c) /\ c \in DOMAIN task
        /\ state[c] \in States
    BY Zenon, DiagTypes
  <1>2. /\ Vacate(c) /\ Calls(c, "vacate", 0)
        /\ lease' = lease /\ now' = now /\ task[c] = "wait"
    BY Zenon DEF Close, Vacate
  <1>3. /\ state'[c].version = state[c].version
        /\ state'[c].claim \in {state[c].claim, NoClaim}
    BY ZenonT(30), <1>1, <1>2 DEF Vacate, TypeOK, States
  <1>4. Cached(lease', state'[c])
    <2>1. NoClaim.holder = NoClaimant
      BY Zenon DEF NoClaim
    <2> QED
      BY Zenon, <1>1, <1>2, <1>3, <2>1 DEF DiagAt, Versioned, Cached
  <1>5. CASE Return(c)
    <2>1. pc'[c] = "idle"
      BY Zenon, <1>1, <1>5 DEF Return, TypeOK
    <2>2. task'[c] = "ended"
      BY Zenon, <1>1, <1>2, <2>1 DEF Calls, Returned
    <2>3. diag'[c] = Untold
      BY Zenon, <2>2, KeepsReport DEF Gone
    <2>4. Versioned(c)' /\ Engaged(c)'
      BY Zenon, <1>4, <2>1, RestVersioned DEF InCall
    <2> QED
      BY Zenon, <2>3, <2>4 DEF DiagAt, Following
  <1>6. CASE SendPatch(c, "vacate", state[c])
    <2>1. /\ pc'[c] = "patch" /\ call'[c] = "vacate"
          /\ req'[c] = Patch(c, "vacate", state[c])
      BY ZenonT(30), <1>1, <1>6 DEF SendPatch, TypeOK
    <2>2. task'[c] = "vacate"
      BY ZenonT(30), <1>1, <1>2, <2>1 DEF Calls
    <2>3. Asked(lease, c, Patch(c, "vacate", state[c]))
      BY Zenon, <1>1 DEF DiagAt, Versioned, Cached, Asked, Patch
    <2>4. Versioned(c)' /\ Engaged(c)'
      BY Zenon, <1>2, <1>4, <2>1, <2>2, <2>3 DEF Versioned, Engaged
    <2>5. diag'[c] = diag[c]
      BY Zenon, <2>2, KeepsReport DEF Gone
    <2>6. Following(c)'
      BY Zenon, <1>1, <1>2, <2>1, <2>2, <2>5 DEF DiagAt, Following, Clock, Idle
    <2> QED
      BY Zenon, <2>4, <2>6 DEF DiagAt
  <1> QED
    BY Zenon, <1>2, <1>5, <1>6 DEF Vacate

LEMMA ErrorDiag ==
    ASSUME DiagInv, NEW c \in Claimant, Error(c), Keep(c)
    PROVE  DiagAt(c)'
  <1>1. /\ TypeOK /\ TaskOK /\ DiagAt(c) /\ c \in DOMAIN task
    BY Zenon, DiagTypes
  <1>2. /\ ~InCall(c)' /\ lease' = lease /\ now' = now /\ state' = state
    BY SMTT(30), <1>1 DEF TypeOK, Error, Fail, InCall
  <1>3. Versioned(c)' /\ Engaged(c)'
    BY Zenon, <1>1, <1>2, RestVersioned DEF DiagAt, Versioned
  <1>4. CASE Failed(c)
    <2>1. task'[c] = "failed"
      BY Zenon, <1>1, <1>4 DEF Failed
    <2> QED
      BY Zenon, <1>3, <2>1, KeepsReport DEF DiagAt, Following, Gone
  <1>5. CASE task[c] = "claim" /\ task' = task
    <2>1. diag'[c] = diag[c]
      BY Zenon, <1>5, KeepsReport DEF Gone
    <2> QED
      BY Zenon, <1>1, <1>2, <1>3, <1>5, <2>1 DEF DiagAt, Following, Clock
  <1> QED
    BY Zenon, <1>4, <1>5 DEF Error

LEMMA DieDiag ==
    ASSUME DiagInv, NEW c \in Claimant, Die(c), Keep(c)
    PROVE  DiagAt(c)'
  <1>1. /\ TypeOK /\ TaskOK /\ c \in DOMAIN task /\ lease.version \in Nat
    BY Zenon, DiagTypes
  <1>2. /\ ~InCall(c)' /\ lease' = lease /\ state'[c] = NoState
        /\ task'[c] = "none"
    BY Zenon, <1>1 DEF TypeOK, Die, Crash, InCall
  <1>3. Cached(lease', NoState)
    BY <1>1, <1>2 DEF Cached, NoState, NoClaim
  <1>4. Versioned(c)' /\ Engaged(c)'
    BY Zenon, <1>2, <1>3, RestVersioned
  <1> QED
    BY Zenon, <1>2, <1>4, KeepsReport DEF DiagAt, Following, Gone

\* What the manager tells when a reply arrives.
LEMMA InspectsReport ==
    ASSUME DiagInv, NEW c \in Claimant, Inspect(c)
    PROVE  /\ Gone(c) => diag'[c] = Untold
           /\ ~Gone(c) /\ call[c] = "ensure_claimed" /\ pc[c] \in {"patched", "got"}
                 => diag'[c] = Told(state'[c])
           /\ ~Gone(c) /\ ~(call[c] = "ensure_claimed" /\ pc[c] \in {"patched", "got"})
                 => diag'[c] = diag[c]
           /\ \A d \in Claimant : d # c => diag'[d] = diag[d]
  BY Zenon DEF DiagInv, Inspect

\* The server answers, and nothing is told.
LEMMA ServerDiag ==
    ASSUME DiagInv, TypeOK', NEW c \in Claimant, Moves,
           ServerPatch(c) \/ ServerGet(c), task'[c] = task[c], Inspect(c)
    PROVE  DiagAt(c)'
  <1>1. /\ TypeOK /\ TaskOK /\ DiagAt(c) /\ lease \in Leases /\ lease' \in Leases
        /\ state[c] \in States /\ req[c] \in Patches /\ diag[c] \in Report
        /\ lease.version \in Nat /\ lease'.version \in Nat
    BY Zenon, DiagTypes DEF TypeOK, Leases
  <1>2. /\ pc[c] \in {"patch", "get"} /\ pc'[c] \in {"patched", "got"} /\ InCall(c)
        /\ call' = call /\ state' = state /\ req' = req /\ resp'[c] = lease'
        /\ pc[c] = "patch" <=> pc'[c] = "patched"
    BY Zenon, <1>1 DEF ServerPatch, ServerGet, TypeOK, InCall
  <1>3. Cached(lease', state'[c])
    BY Zenon, <1>1, <1>2, NewVersion DEF DiagAt, Versioned, Moves
  <1>4. Found(lease', resp'[c])
    BY <1>1, <1>2 DEF Found
  <1>5. pc[c] = "patch" /\ call[c] # "vacate" =>
           req[c].by = c /\ Written(lease', c, resp'[c])
    <2> SUFFICES ASSUME pc[c] = "patch", call[c] # "vacate"
                 PROVE  req[c].by = c /\ lease'.holder = c
      BY <1>1, <1>2 DEF Written
    <2>1. /\ lease' = Patched(lease, req[c]) /\ Matches(lease, req[c])
          /\ Asked(lease, c, req[c]) /\ req[c].kind # "vacate"
      BY Zenon, <1>1 DEF ServerPatch, ServerGet, DiagAt, Versioned
    <2> QED
      BY Zenon, <1>1, <2>1, PatchedFields DEF Asked, Matches, Patches, Kind
  <1>6. Versioned(c)'
    BY Zenon, <1>2, <1>3, <1>4, <1>5 DEF Versioned
  <1>7. Engaged(c)'
    BY Zenon, <1>1, <1>2 DEF DiagAt, Engaged
  <1>8. Following(c)'
    <2>1. diag'[c] = diag[c] \/ diag'[c] = Untold
      BY Zenon, <1>2, InspectsReport
    <2>2. Right(lease, Clock(c), diag[c]) => Right(lease', Clock(c)', diag[c])
      BY Zenon, <1>1, NewVersion, ClockMoves, RightLater DEF Moves
    <2> QED
      BY Zenon, <1>1, <1>2, <2>1, <2>2 DEF DiagAt, Following, Idle
  <1> QED
    BY Zenon, <1>6, <1>7, <1>8 DEF DiagAt

LEMMA OnPatchedDiag ==
    ASSUME DiagInv, NEW c \in Claimant, OnPatched(c), TypeOK',
           Calls(c, task[c], retries[c]), Inspect(c)
    PROVE  DiagAt(c)'
  <1>1. /\ TypeOK /\ TaskOK /\ DiagAt(c) /\ c \in DOMAIN task
    BY Zenon, DiagTypes
  <1>2. /\ pc[c] = "patched" /\ pc'[c] = "idle" /\ lease' = lease /\ now' = now
    BY Zenon, <1>1 DEF OnPatched, Return, TypeOK
  <1>3. ~InCall(c)' /\ InCall(c)
    BY Zenon, <1>2 DEF InCall
  <1>4. CASE call[c] = "vacate"
    <2>1. task[c] = "vacate"
      BY Zenon, <1>1, <1>3, <1>4 DEF DiagAt, Engaged
    <2>2. task'[c] = "ended"
      BY Zenon, <1>1, <1>2, <2>1 DEF Calls, Returned
    <2>3. Cached(lease', state'[c])
      BY Zenon, <1>1, <1>2, <1>4 DEF DiagAt, Versioned, OnPatched
    <2> QED
      BY Zenon, <1>3, <2>2, <2>3, RestVersioned, InspectsReport
         DEF DiagAt, Following, Gone
  <1>5. CASE call[c] # "vacate"
    <2>1. task[c] \in {"spawn", "claim"} /\ call[c] = "ensure_claimed"
      BY Zenon, <1>1, <1>2, <1>3, <1>5 DEF DiagAt, Engaged
    <2>2. task'[c] = "wait"
      BY Zenon, <1>1, <1>2, <2>1 DEF Calls, Returned
    <2>3. /\ state'[c].claim = ClaimOf(req[c]) /\ state'[c].version = resp[c].version
      BY SMTT(30), <1>1, <1>5 DEF OnPatched, TypeOK
    <2>4. req[c].by = c /\ Written(lease, c, resp[c])
      BY Zenon, <1>1, <1>2, <1>5 DEF DiagAt, Versioned
    <2>5. state'[c].claim.holder = c
      <3>1. ClaimOf(req[c]).holder = req[c].by
        BY Zenon DEF ClaimOf
      <3> QED
        BY Zenon, <2>3, <2>4, <3>1
    <2>6. Cached(lease', state'[c])
      BY Zenon, <1>2, <2>3, <2>4, <2>5 DEF Cached, Written
    <2>7. diag'[c] = Told(state'[c])
      BY Zenon, <1>2, <2>1, <2>2, InspectsReport DEF Gone
    <2>8. Right(lease', Clock(c)', Told(state'[c]))
      BY Zenon, <1>2, <2>3, <2>4, <2>5 DEF Right, Written, Told
    <2> QED
      BY Zenon, <1>3, <2>2, <2>6, <2>7, <2>8, RestVersioned DEF DiagAt, Following
  <1> QED
    BY Zenon, <1>4, <1>5

LEMMA OnConflictDiag ==
    ASSUME DiagInv, NEW c \in Claimant, OnConflict(c), Inspect(c),
           IF pc'[c] = "idle" THEN Failed(c)
                              ELSE Calls(c, task[c], retries[c])
    PROVE  DiagAt(c)'
  <1>1. /\ TypeOK /\ TaskOK /\ DiagAt(c) /\ c \in DOMAIN task
    BY Zenon, DiagTypes
  <1>2. /\ pc[c] = "patch" /\ InCall(c)
        /\ now' = now /\ lease' = lease /\ state' = state
    BY ZenonT(30), <1>1 DEF OnConflict, InCall
  <1>3. Cached(lease', state'[c])
    BY Zenon, <1>1, <1>2 DEF DiagAt, Versioned
  <1>4. CASE call[c] = "vacate"
    <2>1. pc'[c] = "idle"
      BY ZenonT(30), <1>1, <1>4 DEF OnConflict, Return, TypeOK
    <2>2. task'[c] = "failed"
      BY ZenonT(30), <1>1, <2>1 DEF Failed
    <2>3. ~InCall(c)'
      BY Zenon, <2>1 DEF InCall
    <2> QED
      BY Zenon, <1>3, <2>2, <2>3, RestVersioned, InspectsReport
         DEF DiagAt, Following, Gone
  <1>5. CASE call[c] # "vacate"
    <2>1. pc'[c] = "get" /\ call'[c] = "ensure_claimed"
      BY ZenonT(30), <1>1, <1>5 DEF OnConflict, SendGet, TypeOK
    <2>2. task'[c] = task[c]
      BY Zenon, <1>1, <2>1 DEF Calls
    <2>3. task[c] \in {"spawn", "claim"}
      BY Zenon, <1>1, <1>2, <1>5 DEF DiagAt, Engaged
    <2>4. Versioned(c)' /\ Engaged(c)'
      BY Zenon, <1>3, <2>1, <2>2, <2>3 DEF Versioned, Engaged
    <2>5. diag'[c] = diag[c]
      BY Zenon, <1>2, <2>2, <2>3, InspectsReport DEF Gone
    <2> QED
      BY Zenon, <1>1, <1>2, <2>2, <2>3, <2>4, <2>5 DEF DiagAt, Following, Clock
  <1> QED
    BY Zenon, <1>4, <1>5

\* What get makes of a reply is right about the lease it was read from.
LEMMA GotRight ==
    ASSUME DiagInv, NEW c \in Claimant, pc[c] = "got"
    PROVE  LET st == FromLease(c, resp[c])
           IN st \in States /\ Cached(lease, st) /\ Right(lease, Clock(c), Told(st))
  <1> DEFINE l == resp[c]
             st == FromLease(c, l)
  <1>1. /\ TypeOK /\ l \in Leases /\ Found(lease, l) /\ Filled(lease)
    BY Zenon, DiagTypes DEF DiagInv, DiagAt, Versioned
  <1>2. st \in States
    BY ZenonT(30), <1>1, FromLeaseType DEF TypeOK
  <1>3. st.version = l.version
    BY Zenon DEF FromLease
  <1>4. \/ st.claim.holder = l.holder
        \/ /\ st.claim = NoClaim
           /\ \/ l.holder = NoClaimant \/ l.renewTime = Absent
              \/ l.leaseDurationSeconds = Absent \/ Expiry(l) <= Clock(c)
    BY SMTT(30) DEF FromLease
  <1>5. NoClaim.holder = NoClaimant
    BY Zenon DEF NoClaim
  <1> HIDE DEF st
  <1>6. st.claim.holder \in {l.holder, NoClaimant}
    BY Zenon, <1>4, <1>5
  <1>7. Cached(lease, st)
    BY Zenon, <1>1, <1>3, <1>6 DEF Cached, Found
  <1>8. Right(lease, Clock(c), Told(st))
    <2>1. Told(st).version = l.version /\ Told(st).current = st.claim
      BY Zenon, <1>3 DEF Told
    <2>2. ASSUME l = lease
          PROVE  \/ st.claim.holder = lease.holder
                 \/ st.claim = NoClaim /\ Expiry(lease) <= Clock(c)
      BY Zenon, <1>1, <1>4, <1>5, <2>2 DEF Filled
    <2> QED
      BY Zenon, <1>1, <2>1, <2>2 DEF Right, Found
  <1> QED
    BY Zenon, <1>2, <1>7, <1>8 DEF st

LEMMA OnGotDiag ==
    ASSUME DiagInv, NEW c \in Claimant, OnGot(c),
           Calls(c, task[c], retries[c]), Inspect(c)
    PROVE  DiagAt(c)'
  <1> DEFINE st == FromLease(c, resp[c])
  <1>1. /\ TypeOK /\ TaskOK /\ DiagAt(c) /\ c \in DOMAIN task
    BY Zenon, DiagTypes
  <1>2. /\ pc[c] = "got" /\ InCall(c) /\ now' = now /\ lease' = lease
    BY ZenonT(30) DEF OnGot, InCall
  <1>3. st \in States /\ Cached(lease, st) /\ Right(lease, Clock(c), Told(st))
    BY Zenon, <1>2, GotRight
  <1>4. \/ call[c] = "ensure_claimed" /\ Loop(c, st)
        \/ /\ call[c] # "ensure_claimed" /\ Return(c)
           /\ state' = [state EXCEPT ![c] = st]
    BY Zenon DEF OnGot
  <1> HIDE DEF st
  <1>5. CASE call[c] = "ensure_claimed" /\ Loop(c, st)
    <2>1. task[c] \in {"spawn", "claim"}
      BY Zenon, <1>1, <1>2, <1>5 DEF DiagAt, Engaged
    <2>2. /\ Versioned(c)' /\ Engaged(c)' /\ state'[c] = st
          /\ task'[c] \in {"wait", "spawn", "claim"}
      BY Zenon, <1>1, <1>2, <1>3, <1>5, <2>1, LoopVersioned
    <2>3. diag'[c] = Told(st)
      BY Zenon, <1>2, <1>5, <2>2, InspectsReport DEF Gone
    <2>4. Clock(c)' = Clock(c)
      BY Zenon, <1>2 DEF Clock
    <2>5. Following(c)'
      BY Zenon, <1>2, <1>3, <2>2, <2>3, <2>4 DEF Following
    <2> QED
      BY Zenon, <2>2, <2>5 DEF DiagAt
  <1>6. CASE call[c] # "ensure_claimed" /\ Return(c) /\ state' = [state EXCEPT ![c] = st]
    <2>1. task[c] = "init"
      BY Zenon, <1>1, <1>2, <1>6 DEF DiagAt, Engaged
    <2>2. pc'[c] = "idle" /\ state'[c] = st
      BY Zenon, <1>1, <1>6 DEF Return, TypeOK
    <2>3. task'[c] = "spawn"
      BY Zenon, <1>1, <2>1, <2>2 DEF Calls, Returned
    <2>4. diag'[c] = Untold
      BY Zenon, <1>1, <1>6, <2>1, <2>3, InspectsReport DEF DiagAt, Following
    <2>5. Versioned(c)' /\ Engaged(c)'
      BY Zenon, <1>2, <1>3, <2>2, RestVersioned DEF InCall
    <2> QED
      BY Zenon, <2>4, <2>5 DEF DiagAt, Following
  <1> QED
    BY Zenon, <1>4, <1>5, <1>6

LEMMA ProgressDiag ==
    ASSUME DiagInv, TypeOK', Moves, NEW c \in Claimant, Progress(c), Inspect(c)
    PROVE  DiagAt(c)'
  <1>1. TypeOK /\ TaskOK /\ c \in DOMAIN task
    BY Zenon, DiagTypes
  <1>2. CASE ServerPatch(c) \/ ServerGet(c)
    <2>1. pc'[c] \in {"patched", "got"}
      BY ZenonT(30), <1>1, <1>2 DEF ServerPatch, ServerGet, TypeOK
    <2>2. task'[c] = task[c]
      BY ZenonT(30), <1>1, <2>1 DEF Progress, Calls
    <2> QED
      BY Zenon, <1>2, <2>2, ServerDiag
  <1>3. CASE OnPatched(c) \/ OnGot(c)
    <2>1. Calls(c, task[c], retries[c])
      BY ZenonT(30), <1>3 DEF Progress, OnPatched, OnGot
    <2> QED
      BY ZenonT(30), <1>3, <2>1, OnPatchedDiag, OnGotDiag
  <1>4. CASE OnConflict(c)
    <2>1. IF pc'[c] = "idle" THEN Failed(c)
                             ELSE Calls(c, task[c], retries[c])
      BY ZenonT(30), <1>4 DEF Progress, OnConflict
    <2> QED
      BY Zenon, <1>4, <2>1, OnConflictDiag
  <1> QED
    BY Zenon, <1>2, <1>3, <1>4 DEF Progress, ApiStep

\* How a manager's own step changes the lease.
LEMMA LeaseMoves ==
    ASSUME DiagInv, TypeOK', NEW p \in Patches, now' = now,
           lease' = lease \/ lease' = Patched(lease, p)
    PROVE  Moves /\ Filled(lease')
  <1>1. lease \in Leases /\ Filled(lease) /\ now \in Nat
    BY Zenon DEF DiagInv, TypeOK
  <1>2. Moves
    BY <1>1, PatchedFields DEF Moves
  <1>3. Filled(Patched(lease, p))
    <2>1. Micros(p.time) \in Nat /\ Seconds(LeaseDuration) \in Nat
      BY Zenon, MicrosLemma, SecondsLemma DEF Patches
    <2>2. Micros(p.time) # Absent /\ Seconds(LeaseDuration) # Absent
      BY <2>1 DEF Absent
    <2> QED
      BY Zenon, <1>1, <2>2, PatchedFields DEF Filled, Patches, Kind
  <1> QED
    BY Zenon, <1>1, <1>2, <1>3

\* Time, other writers and late patches.
LEMMA EnvironmentDiag ==
    ASSUME DiagInv, TypeOK', Environment
    PROVE  Moves /\ Filled(lease') /\ \A c \in Claimant : Same(c)
  <1>1. TypeOK /\ lease \in Leases /\ Filled(lease) /\ now \in Nat
    BY Zenon DEF DiagInv, TypeOK
  <1>2. \A d \in Claimant : Same(d)
    BY Zenon DEF Environment, Tick, Touch, ServerLate, managerVars, Same
  <1>3. ASSUME NEW p \in late, ServerLate(p)
        PROVE  Moves /\ Filled(lease')
    <2>1. /\ p \in Patches /\ now' = now
          /\ lease' = lease \/ lease' = Patched(lease, p)
      BY ZenonT(30), <1>1, <1>3 DEF TypeOK, ServerLate
    <2> QED
      BY Zenon, <2>1, LeaseMoves
  <1>4. CASE Tick
    <2>1. Moves /\ lease' = lease
      BY SMTT(30), <1>1, <1>4 DEF Tick, Moves
    <2> QED
      BY Zenon, <1>1, <1>2, <2>1
  <1>5. CASE Touch
    <2>1. Moves
      BY Zenon, <1>1, <1>5 DEF Touch, Moves, Leases
    <2>2. /\ lease'.holder = lease.holder
          /\ lease'.renewTime = lease.renewTime
          /\ lease'.leaseDurationSeconds = lease.leaseDurationSeconds
      BY ZenonT(30), <1>1, <1>5 DEF Touch, Leases
    <2> QED
      BY Zenon, <1>1, <1>2, <2>1, <2>2 DEF Filled
  <1> QED
    BY Zenon, <1>2, <1>3, <1>4, <1>5 DEF Environment

LEMMA DiagStep == DiagInv /\ [DiagNext]_<<allVars, diag>> => DiagInv'
  <1> SUFFICES ASSUME DiagInv, [DiagNext]_<<allVars, diag>>
               PROVE  DiagInv'
    BY Zenon
  <1>1. TypeOK /\ TaskOK /\ Filled(lease) /\ \A c \in Claimant : DiagAt(c)
    BY Zenon DEF DiagInv
  <1>2. TypeOK' /\ TaskOK'
    <2>1. [TaskNext]_allVars
      BY Zenon DEF DiagNext, TaskNext
    <2> QED
      BY Zenon, <1>1, <2>1, TaskStep, TypeStep, TaskOKStep
  <1>3. ASSUME NEW c \in Claimant,
               \/ Progress(c) /\ Inspect(c)
               \/ (Boot(c) \/ Run(c) \/ Error(c) \/ Die(c)) /\ Keep(c)
        PROVE  DiagInv'
    <2>1. \/ Start(c) \/ EnsureClaimed(c) \/ Vacate(c)
          \/ ApiStep(c) \/ Fail(c) \/ Crash(c)
      BY ZenonT(30), <1>3
         DEF Boot, Run, FirstClaim, Wake, Retry, Close, Progress, Error, Die
    <2>2. \A d \in Claimant : d # c => Same(d)
      BY Zenon, <1>1, <2>1, OneManager
    <2>3. \A d \in Claimant : d # c => task'[d] = task[d]
      BY ZenonT(30), <1>1, <1>3 DEF TaskOK, Boot, Run, FirstClaim, Wake, Retry,
                        Close, Progress, Error, Die, Calls, Returned, Failed
    <2>4. \A d \in Claimant : d # c => diag'[d] = diag[d]
      BY Zenon, <1>3, KeepsReport, InspectsReport
    <2>5. now' = now /\ (lease' = lease \/ lease' = Patched(lease, req[c]))
      BY ZenonT(30), <2>1
         DEF Start, EnsureClaimed, Vacate, ApiStep, ServerPatch, ServerGet,
             OnPatched, OnConflict, OnGot, Fail, Crash
    <2>6. Moves /\ Filled(lease')
      BY Zenon, <1>1, <1>2, <2>5, LeaseMoves DEF TypeOK
    <2>7. DiagAt(c)'
      BY Zenon, <1>2, <1>3, <2>6, ProgressDiag, BootDiag, RunDiag, CloseDiag,
         ErrorDiag, DieDiag DEF Run
    <2>8. ASSUME NEW d \in Claimant, d # c
          PROVE  DiagAt(d)'
      BY Zenon, <1>2, <2>2, <2>3, <2>4, <2>6, <2>8, DiagPassive
    <2>9. diag' \in [Claimant -> Report]
      <3>1. \A st \in States : Told(st) \in Report
        BY Zenon DEF States, Told, Report
      <3>2. Untold \in Report
        BY NothingType DEF Untold, Report
      <3>3. /\ diag \in [Claimant -> Report] /\ diag[c] \in Report
            /\ Told(state'[c]) \in Report
        BY Zenon, <1>2, <3>1 DEF DiagInv, TypeOK
      <3> QED
        BY Zenon, <1>3, <3>2, <3>3 DEF Keep, Inspect
    <2> QED
      BY Zenon, <1>2, <2>6, <2>7, <2>8, <2>9 DEF DiagInv
  <1>4. ASSUME NEW c \in Claimant, Drop(c), Keep(c)
        PROVE  DiagInv'
    <2>1. UNCHANGED vars /\ task' = task
      BY Zenon, <1>4 DEF Drop
    <2>2. diag' = diag
      <3>1. Gone(c) => diag[c] = Untold
        BY Zenon, <1>1, <2>1 DEF Gone, DiagAt, Following
      <3>2. diag' = [diag EXCEPT ![c] = diag[c]]
        BY Zenon, <1>4, <3>1 DEF Keep
      <3> QED
        BY Zenon, <3>2 DEF DiagInv
    <2>3. Moves /\ \A d \in Claimant : Same(d)
      <3>1. now \in Nat
        BY Zenon, <1>1 DEF TypeOK
      <3>2. Moves
        BY <2>1, <3>1 DEF vars, Moves
      <3> QED
        BY Zenon, <2>1, <3>2 DEF vars, Same
    <2> QED
      BY Zenon, <1>1, <1>2, <2>1, <2>2, <2>3, DiagPassive DEF DiagInv, vars
  <1>5. CASE (Elapse \/ Others) /\ UNCHANGED diag
    <2>1. Environment /\ task' = task
      BY Zenon, <1>5 DEF Elapse, Others, Environment, taskVars
    <2>2. Moves /\ Filled(lease') /\ \A c \in Claimant : Same(c)
      BY Zenon, <1>2, <2>1, EnvironmentDiag
    <2> QED
      BY Zenon, <1>2, <1>5, <2>1, <2>2, DiagPassive DEF DiagInv
  <1>6. CASE UNCHANGED <<allVars, diag>>
    <2>1. UNCHANGED vars /\ task' = task /\ diag' = diag
      BY Zenon, <1>6 DEF allVars, taskVars
    <2>2. Moves /\ \A d \in Claimant : Same(d)
      <3>1. now \in Nat
        BY Zenon, <1>1 DEF TypeOK
      <3>2. Moves
        BY <2>1, <3>1 DEF vars, Moves
      <3> QED
        BY Zenon, <2>1, <3>2 DEF vars, Same
    <2> QED
      BY Zenon, <1>1, <1>2, <2>1, <2>2, DiagPassive DEF DiagInv, vars
  <1> QED
    BY Zenon, <1>3, <1>4, <1>5, <1>6 DEF DiagNext

\* Whatever calls fail, processes die and patches come late, vacates included,
\* the diagnostics of a lease task say what its manager last learnt, and tell
\* the holder of the lease's present version or that its claim had run out
\* (lease.rs:226-302, admin/diagnostics/lease.rs:81-105).
THEOREM DiagnosticsFollowTasks == DiagSpec => []DiagnosticsFollow
  <1>1. DiagInit => DiagInv
    <2> SUFFICES ASSUME DiagInit
                 PROVE  DiagInv
      BY Zenon
    <2>1. TypeOK /\ TaskInit
      BY Zenon, TypeInit DEF DiagInit, TaskInit
    <2>2. TaskOK
      BY <2>1, TaskAssumption DEF TaskInit, Init, TaskOK, InCall, Idle
    <2>3. diag \in [Claimant -> Report]
      BY NothingType DEF DiagInit, Untold, Report
    <2>4. Filled(lease)
      BY <2>1 DEF TaskInit, Init, NoLease, Filled
    <2>5. ASSUME NEW c \in Claimant
          PROVE  DiagAt(c)
      <3>1. /\ diag[c] = Untold /\ pc[c] = "down" /\ state[c] = NoState
        BY <2>1 DEF DiagInit, TaskInit, Init
      <3>2. Cached(lease, NoState)
        BY <2>1 DEF TaskInit, Init, NoLease, NoState, NoClaim, Cached
      <3> QED
        BY Zenon, <3>1, <3>2 DEF DiagAt, Versioned, Engaged, Following, InCall
    <2> QED
      BY Zenon, <2>1, <2>2, <2>3, <2>4, <2>5 DEF DiagInv
  <1>2. DiagInv => DiagnosticsFollow
    BY Zenon DEF DiagInv, DiagAt, Following, Right, DiagnosticsFollow
  <1> QED
    BY <1>1, <1>2, DiagStep, PTL DEF DiagSpec

\* Telling the diagnostics changes nothing of what the tasks do, so that all of
\* the above holds of the tasks that Runtime::spawn_lease starts with them.
THEOREM DiagnosticsWatch == DiagSpec => FairSpec
  <1>1. DiagInit => TaskInit
    BY Zenon DEF DiagInit
  <1>2. [DiagNext]_<<allVars, diag>> => [TaskNext]_allVars
    BY Zenon DEF DiagNext, TaskNext
  <1> QED
    BY <1>1, <1>2, PTL DEF DiagSpec, FairSpec, TaskSpec

=============================================================================
