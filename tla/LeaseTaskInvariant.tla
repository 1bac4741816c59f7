------------------------- MODULE LeaseTaskInvariant -------------------------
(***************************************************************************)
(* The inductive invariant behind EndedReleased: what a task's manager     *)
(* knows of its own claim in the lease, and why no patch that the task, or *)
(* a former process with its identity, gave up on can renew that claim     *)
(* behind its back.                                                        *)
(***************************************************************************)
EXTENDS LeaseTask, LeaseInvariant

\* ensure_claimed returns at once in the state st.
Immediate(c, st) ==
    \/ st.claim.holder = c /\ Clock(c) < st.claim.expiry - RenewGrace
    \/ st.claim.holder \in Claimant \ {c} /\ IsCurrent(c, st.claim)

\* A claim of c in the lease has run out, or c knows it to last that long.
Covered(c, claim) ==
    lease.holder = c =>
       \/ Expiry(lease) <= Clock(c)
       \/ claim.holder = c /\ Expiry(lease) <= claim.expiry

\* No patch of c that is still on its way will be applied.
Stale(c) == \A p \in late : p.by = c => p.version < lease.version

Sure(c, claim) == Covered(c, claim) /\ Stale(c)

\* ensure_claimed returns at once in what a get of the lease l makes of it.
Fresh(c, l) ==
    /\ l.holder # NoClaimant
    /\ l.renewTime # Absent
    /\ l.leaseDurationSeconds # Absent
    /\ Clock(c) + (IF l.holder = c THEN RenewGrace ELSE 0) < Expiry(l)

\* A patch that would be applied was worth sending: its sender has to send
\* another if it reads the lease that the patch was made for.
Ripe(p) == p.version = lease.version => ~Fresh(p.by, lease)

-----------------------------------------------------------------------------

\* A call is in progress only in the states of the task that make one, and a
\* task that is to try again has a retry left.
TaskOK ==
    /\ task \in [Claimant -> {"none", "init", "spawn", "wait", "claim",
                              "vacate", "ended", "failed"}]
    /\ receivers \in [Claimant -> BOOLEAN]
    /\ retries \in [Claimant -> 0 .. MaxRetries]
    /\ \A c \in Claimant :
          /\ InCall(c) => task[c] \in {"init", "spawn", "claim", "vacate"}
          /\ task[c] = "claim" /\ Idle(c) => retries[c] < MaxRetries

\* The task and its manager are in the same call.
Calling(c) ==
    InCall(c) =>
       /\ task[c] = "init" => call[c] = "init"
       /\ task[c] \in {"spawn", "claim"} => call[c] = "ensure_claimed"
       /\ task[c] = "vacate" => call[c] = "vacate"

\* A request or a reply of c is on its way.
Waiting(c) ==
    /\ pc[c] = "patch" /\ call[c] = "ensure_claimed" => Ripe(req[c])
    /\ pc[c] = "patched" /\ call[c] = "vacate" => Sure(c, NoClaim)
    /\ pc[c] = "patched" /\ call[c] # "vacate" => Sure(c, ClaimOf(req[c]))
    /\ pc[c] = "got" /\ Fresh(c, resp[c]) =>
          Sure(c, [holder |-> resp[c].holder, expiry |-> Expiry(resp[c])])

\* What the manager's state says of the lease.
Informed(c) ==
    /\ task[c] = "wait" => Sure(c, state[c].claim)
    /\ task[c] = "ended" => Sure(c, NoClaim)
    /\ task[c] \in {"spawn", "claim"} =>
          /\ state[c].version = lease.version => Covered(c, state[c].claim)
          /\ Immediate(c, state[c]) =>
                task[c] = "spawn" /\ Idle(c) /\ Sure(c, state[c].claim)

\* A task that waits knows of any claim of its own in the lease, and one that
\* has to write does not return before it has written.  (It takes that no
\* vacate is applied late.)
Settled ==
    /\ TaskOK
    /\ \A c \in Claimant : Calling(c) /\ Waiting(c) /\ Informed(c)
    /\ \A p \in late : Ripe(p)
=============================================================================
