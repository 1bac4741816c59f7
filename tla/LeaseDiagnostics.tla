-------------------------- MODULE LeaseDiagnostics --------------------------
(***************************************************************************)
(* The LeaseDiagnostics that Runtime::spawn_lease gives to its manager: in *)
(* /kubert.json, for as long as the manager lives, what it was told last.  *)
(***************************************************************************)
EXTENDS LeaseTask

VARIABLE diag   \* diag[c]: LeaseState

\* LeaseDiagnostics::new: no claim, and no resource version.  The counts and
\* times of the updates are left out.
Untold == [current |-> NoClaim, version |-> 0]

\* inspect, with what the manager knows.
Told(st) == [current |-> st.claim, version |-> st.version]

\* The manager, and the diagnostics, are dropped with the task.
Gone(c) == task'[c] \in {"none", "ended", "failed"}

\* Mutant: the re-sync after a conflict is not inspected.
InspectPatched(c) ==
    diag' = [diag EXCEPT ![c] =
               IF Gone(c) THEN Untold
               ELSE IF call[c] = "ensure_claimed" /\ pc[c] = "patched"
               THEN Told(state'[c]) ELSE @]

\* ensure_claimed tells what it learns from a patch or from a re-sync; init
\* tells nothing, and vacate tells it as the task ends.
Inspect(c) ==
    diag' = [diag EXCEPT ![c] =
               IF Gone(c) THEN Untold
               ELSE IF call[c] = "ensure_claimed" /\ pc[c] \in {"patched", "got"}
               THEN Told(state'[c]) ELSE @]

\* Nothing is told.
Keep(c) == diag' = [diag EXCEPT ![c] = IF Gone(c) THEN Untold ELSE @]

DiagInit == TaskInit /\ diag = [c \in Claimant |-> Untold]

DiagNext ==
    \/ \E c \in Claimant :
          \/ Progress(c) /\ Inspect(c)
          \/ (Boot(c) \/ Run(c) \/ Error(c) \/ Drop(c) \/ Die(c)) /\ Keep(c)
    \/ (Elapse \/ Others) /\ UNCHANGED diag

DiagSpec == DiagInit /\ [][DiagNext]_<<allVars, diag>> /\ Fairness

-----------------------------------------------------------------------------
(* Properties *)

\* Once told of the lease, the diagnostics say what the task last learnt of it
\* whenever it is between calls; and of the lease's present version they tell
\* the holder, unless its claim had run out.
DiagnosticsFollow ==
    \A c \in Claimant :
        diag[c] # Untold =>
            /\ Idle(c) => diag[c] = Told(state[c])
            /\ diag[c].version = lease.version =>
                  \/ diag[c].current.holder = lease.holder
                  \/ diag[c].current = NoClaim /\ Expiry(lease) <= Clock(c)
=============================================================================
