------------------------------ MODULE Shutdown ------------------------------
(***************************************************************************)
(* kubert::shutdown::Shutdown, and the drain channel it completes.         *)
(*                                                                         *)
(* A drain::Watch can be cloned by whoever has one, and the channel is     *)
(* closed when all clones are gone: `watches' is the set of those who      *)
(* still hold one (or the release handle they got for it).  Those who hold *)
(* one are modelled in Runtime and Server.                                 *)
(***************************************************************************)
EXTENDS Naturals, FiniteSets

CONSTANTS
    Holder,      \* the tasks that may hold a drain::Watch
    MaxSignals   \* bound on the signals the process gets

SignalKind == {"interrupt", "terminate"}

ASSUME SignalAssumption == MaxSignals \in Nat

VARIABLES
    sent,      \* signals sent to the process so far
    sigs,      \* signal kinds received and not yet taken by recv()
    shutdown,  \* where Shutdown::signaled is
    signaled,  \* the watches have been notified
    watches

shutdownVars == <<sent, sigs, shutdown, signaled, watches>>

\* Signals of a kind that come before recv() is called count as one.
Signal(s) ==
    /\ sent < MaxSignals
    /\ sent' = sent + 1
    /\ sigs' = sigs \cup {s}
    /\ UNCHANGED <<shutdown, signaled, watches>>

\* The first select!

Receive(s) ==
    /\ shutdown = "waiting"
    /\ s \in sigs
    /\ sigs' = sigs \ {s}
    /\ shutdown' = "draining"
    /\ UNCHANGED <<sent, signaled, watches>>

Closed ==
    /\ shutdown = "waiting"
    /\ watches = {}
    /\ shutdown' = "completed"
    /\ UNCHANGED <<sent, sigs, signaled, watches>>

\* The second select! polls its branches in any order, so a signal that has
\* come already may abort the shutdown before drain() has notified anyone.

Drain ==
    /\ shutdown = "draining"
    /\ ~signaled
    /\ signaled' = TRUE
    /\ UNCHANGED <<sent, sigs, shutdown, watches>>

Drained ==
    /\ shutdown = "draining"
    /\ signaled
    /\ watches = {}
    /\ shutdown' = "completed"
    /\ UNCHANGED <<sent, sigs, signaled, watches>>

\* The drain's sender is dropped, which notifies the watches too.
Abort(s) ==
    /\ shutdown = "draining"
    /\ s \in sigs
    /\ sigs' = sigs \ {s}
    /\ shutdown' = "aborted"
    /\ signaled' = TRUE
    /\ UNCHANGED <<sent, watches>>

-----------------------------------------------------------------------------

ShutdownInit ==
    /\ sent = 0
    /\ sigs = {}
    /\ shutdown = "waiting"
    /\ signaled = FALSE

\* A step of Shutdown::signaled.
Signaled ==
    \/ \E s \in SignalKind : Receive(s) \/ Abort(s)
    \/ Closed \/ Drain \/ Drained

ShutdownTypeOK ==
    /\ sent \in 0 .. MaxSignals
    /\ sigs \subseteq SignalKind
    /\ shutdown \in {"waiting", "draining", "completed", "aborted"}
    /\ signaled \in BOOLEAN
    /\ watches \subseteq Holder
=============================================================================
