----------------------------- MODULE LeaseTask -----------------------------
(***************************************************************************)
(* The task of LeaseManager::spawn, started by Runtime::spawn_lease: it    *)
(* owns a LeaseManager, keeps the lease claimed, publishes every claim on  *)
(* a watch channel, and vacates the lease once all receivers are gone.     *)
(* Every call it makes is an action of module Lease, so that its           *)
(* behaviours are behaviours of Lease.                                     *)
(*                                                                         *)
(* The task's local claim is the claim of the manager's state whenever it  *)
(* is read (no one else can reach the manager), and held[c] is the claim   *)
(* in the watch channel: tx.send follows the call's return with no await   *)
(* in between.                                                             *)
(***************************************************************************)
EXTENDS Lease

CONSTANTS
    MaxRetries,   \* stands for the backoff's max_elapsed_time
    Timely        \* calls return, and due tasks run, within a tick

ASSUME TaskAssumption == MaxRetries \in Nat /\ Timely \in BOOLEAN

VARIABLES
    task,      \* task[c]: what spawn_lease, or the task it spawned, is doing
    receivers, \* receivers[c]: some receiver of the watch channel exists
    retries    \* retries[c]: retries made by the current backoff

taskVars == <<task, receivers, retries>>

-----------------------------------------------------------------------------

\* Mutant: the holder sleeps until its claim has expired.
WakeAtExpiry(c) == state[c].claim.expiry

\* When the task that waits in expire_with_grace wakes up.
WakeAt(c) ==
    LET claim == state[c].claim
    IN IF claim.holder = c THEN claim.expiry - RenewGrace ELSE claim.expiry

\* The sleep is over, or all receivers are gone.
Due(c) == task[c] = "wait" /\ (Clock(c) >= WakeAt(c) \/ ~receivers[c])

\* A call made for task[c] = by returned without an error.  After a failed
\* tx.send the task breaks out of its loop as it does in "wait", where
\* tx.closed() is polled first.
Returned(c, by) ==
    /\ task' = [task EXCEPT ![c] =
                  CASE by = "init" -> "spawn"
                    [] by \in {"spawn", "claim"} -> "wait"
                    [] by = "vacate" -> "ended"]
    /\ receivers' = [receivers EXCEPT ![c] = @ \/ by = "spawn"]
    /\ retries' = [retries EXCEPT ![c] = 0]

\* The task calls the manager, for the n-th retry of a backoff; the call may
\* return at once.
Calls(c, by, n) ==
    IF pc'[c] = "idle"
    THEN Returned(c, by)
    ELSE /\ task' = [task EXCEPT ![c] = by]
         /\ retries' = [retries EXCEPT ![c] = n]
         /\ UNCHANGED receivers

\* The task, or the call of spawn, ends with an error.
Failed(c) ==
    /\ task' = [task EXCEPT ![c] = "failed"]
    /\ retries' = [retries EXCEPT ![c] = 0]
    /\ UNCHANGED receivers

Boot(c) ==
    /\ task[c] = "none"
    /\ Start(c)
    /\ task' = [task EXCEPT ![c] = "init"]
    /\ UNCHANGED <<receivers, retries>>

\* spawn's own call, before there is a task.
FirstClaim(c) ==
    /\ task[c] = "spawn"
    /\ EnsureClaimed(c)
    /\ Calls(c, "spawn", 0)

\* The first attempt of backoff::future::retry.
Wake(c) ==
    /\ task[c] = "wait"
    /\ receivers[c]
    /\ Clock(c) >= WakeAt(c)
    /\ EnsureClaimed(c)
    /\ Calls(c, "claim", 0)

Retry(c) ==
    /\ task[c] = "claim"
    /\ EnsureClaimed(c)
    /\ Calls(c, "claim", retries[c] + 1)

\* Mutant: the task ends without vacating.
CloseForgets(c) ==
    /\ task[c] = "wait"
    /\ ~receivers[c]
    /\ task' = [task EXCEPT ![c] = "ended"]
    /\ UNCHANGED <<vars, receivers, retries>>

\* Mutant: tx.closed() is looked at only when the sleep is over.
CloseAfterSleep(c) ==
    /\ task[c] = "wait"
    /\ ~receivers[c]
    /\ Clock(c) >= WakeAt(c)
    /\ Vacate(c)
    /\ Calls(c, "vacate", 0)

Close(c) ==
    /\ task[c] = "wait"
    /\ ~receivers[c]
    /\ Vacate(c)
    /\ Calls(c, "vacate", 0)

\* A call in progress moves on.  A conflict is an error to vacate's caller.
Progress(c) ==
    /\ ApiStep(c)
    /\ IF pc[c] = "patch" /\ pc'[c] = "idle"
       THEN Failed(c)
       ELSE Calls(c, task[c], retries[c])

\* Mutant: the backoff never gives up.
ErrorRetries(c) ==
    /\ Fail(c)
    /\ \/ task[c] = "claim" /\ UNCHANGED <<task, receivers, retries>>
       \/ Failed(c)

\* Mutant: an error in the loop is logged, and the task waits again.
ErrorWaits(c) ==
    /\ Fail(c)
    /\ \/ /\ task[c] = "claim"
          /\ task' = [task EXCEPT ![c] = "wait"]
          /\ retries' = [retries EXCEPT ![c] = 0]
          /\ UNCHANGED receivers
       \/ task[c] # "claim" /\ Failed(c)

\* The call fails.  In the loop a transient error is retried for as long as
\* the backoff allows; any other one ends the task, which then vacates nothing.
Error(c) ==
    /\ Fail(c)
    /\ \/ /\ task[c] = "claim" /\ retries[c] < MaxRetries
          /\ UNCHANGED <<task, receivers, retries>>
       \/ Failed(c)

\* The last receiver is dropped.
Drop(c) ==
    /\ receivers[c]
    /\ receivers' = [receivers EXCEPT ![c] = FALSE]
    /\ UNCHANGED <<vars, task, retries>>

Die(c) ==
    /\ Crash(c)
    /\ task' = [task EXCEPT ![c] = "none"]
    /\ receivers' = [receivers EXCEPT ![c] = FALSE]
    /\ retries' = [retries EXCEPT ![c] = 0]

\* Timely: time passes only while no call is in progress and no task is due.
Elapse ==
    /\ Tick
    /\ Timely => \A c \in Claimant :
                    /\ ~Due(c)
                    /\ task[c] \notin {"init", "spawn", "claim", "vacate"}
    /\ UNCHANGED taskVars

Others ==
    /\ Touch \/ \E p \in late : ServerLate(p)
    /\ UNCHANGED taskVars

TaskInit ==
    /\ Init
    /\ task = [c \in Claimant |-> "none"]
    /\ receivers = [c \in Claimant |-> FALSE]
    /\ retries = [c \in Claimant |-> 0]

\* What the task does of its own accord.
Run(c) == FirstClaim(c) \/ Wake(c) \/ Retry(c) \/ Close(c)

TaskNext ==
    \/ \E c \in Claimant :
          Boot(c) \/ Run(c) \/ Progress(c) \/ Error(c) \/ Drop(c) \/ Die(c)
    \/ Elapse
    \/ Others

allVars == <<vars, taskVars>>
TaskSpec == TaskInit /\ [][TaskNext]_allVars

\* A spawned task is polled, and API_TIMEOUT ends every call.
Fairness ==
    \A c \in Claimant : WF_allVars(Run(c) \/ Progress(c) \/ Error(c))

FairSpec == TaskSpec /\ Fairness

-----------------------------------------------------------------------------
(* Properties *)

TaskTypeOK ==
    /\ TypeOK
    /\ task \in [Claimant -> {"none", "init", "spawn", "wait", "claim",
                              "vacate", "ended", "failed"}]
    /\ receivers \in [Claimant -> BOOLEAN]
    /\ retries \in [Claimant -> 0 .. MaxRetries]

\* c's claim is not, or no longer, in the lease.
Released(c) == lease.holder # c \/ Expiry(lease) <= Clock(c)

\* A task that ended without an error left the lease to others (lease.rs:
\* 364-365), for good: no renewal it gave up on brings the claim back.
EndedReleased == \A c \in Claimant : task[c] = "ended" => Released(c)

\* When all receivers are dropped, the task completes and the lease is
\* vacated so that another process can claim it (lease.rs:364-365).
DropVacates ==
    \A c \in Claimant :
        task[c] \in {"ended", "failed"} /\ ~receivers[c] => Released(c)

\* The claimant renews before its claim expires (lease.rs:381-382): with calls
\* shorter than the grace period, a running task never lets its claim lapse,
\* whatever other claimants and writers do.
NoLapse ==
    [][ \A c \in Claimant :
          Holds(c) /\ receivers[c] /\ task'[c] \in {"wait", "claim"}
            => Holds(c)' ]_allVars

\* The task goes on although no receiver is left.
Unwatched(c) == task[c] \in {"wait", "claim", "vacate"} /\ ~receivers[c]

\* Once all receivers are gone the task completes, also when that happens in
\* the middle of its retries (lease.rs:364, 391-395, 423-426): no process is
\* left with such a task.
DropCompletes ==
    (\E c \in Claimant : Unwatched(c)) ~> (\A c \in Claimant : ~Unwatched(c))
=============================================================================
