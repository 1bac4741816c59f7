---------------------------- MODULE ServerProofs ----------------------------
(***************************************************************************)
(* The HTTPS server's tasks hold the shutdown up until their requests are  *)
(* complete, for any number of connections and signals.                    *)
(***************************************************************************)
EXTENDS Server, TLAPS

\* A connection exists from the end of its handshake, and has ended when
\* serve_conn has.
Served ==
    \A c \in Conn :
        /\ serve[c] \in {"none", "handshake"} => conn[c] = "none"
        /\ serve[c] = "done" => conn[c] \in {"none", "closed"}

\* Nobody can get a Watch when none is left.
NoneLeft == shutdown = "completed" => watches = {}

ServerInv == ServerTypeOK /\ Served /\ NoneLeft

LEMMA ServerInvInit == Init => ServerInv
  <1> SUFFICES ASSUME Init PROVE ServerInv
    OBVIOUS
  <1> USE DEF Init, ShutdownInit
  <1>1. signaled \in BOOLEAN
    BY Zenon
  <1>2. sent \in 0 .. MaxSignals
    BY SignalAssumption
  <1>3. /\ sigs \subseteq SignalKind
        /\ shutdown \in {"waiting", "draining", "completed", "aborted"}
        /\ watches \subseteq Holder
    BY ServerAssumption
  <1>4. Served /\ NoneLeft
    BY DEF Served, NoneLeft
  <1>5. watches \ {Main} = {c \in Conn : serve[c] \notin {"none", "done"}}
                             \cup (IF listener \in {"accepting", "polled"} THEN {Loop} ELSE {})
    OBVIOUS
  <1> QED
    BY <1>1, <1>2, <1>3, <1>4, <1>5 DEF ServerInv, ServerTypeOK, ShutdownTypeOK

\* The shutdown takes no Watch from anyone, and completes when there is none.
LEMMA ShutdownInv ==
    ASSUME ServerInv, ShutdownStep
    PROVE  ServerInv'
  <1>1. UNCHANGED <<watches, listener, serve, conn>>
    BY DEF ShutdownStep, Signaled, Signal, Receive, Closed, Drain, Drained, Abort
  <1>2. signaled' \in BOOLEAN
    BY Zenon
       DEF ServerInv, ServerTypeOK, ShutdownTypeOK, ShutdownStep, Signaled,
           Signal, Receive, Closed, Drain, Drained, Abort
  <1>3. /\ sent' \in 0 .. MaxSignals
        /\ sigs' \subseteq SignalKind
        /\ shutdown' \in {"waiting", "draining", "completed", "aborted"}
    BY SignalAssumption
       DEF ServerInv, ServerTypeOK, ShutdownTypeOK, ShutdownStep, Signaled,
           Signal, Receive, Closed, Drain, Drained, Abort
  <1>4. NoneLeft'
    BY DEF ServerInv, NoneLeft, ShutdownStep, Signaled,
           Signal, Receive, Closed, Drain, Drained, Abort
  <1> QED
    BY <1>1, <1>2, <1>3, <1>4
       DEF ServerInv, ServerTypeOK, ShutdownTypeOK, Served

\* The accept loop and the owner of the server.
LEMMA LoopInv ==
    ASSUME ServerInv,
           Spawn \/ PollDrain \/ AcceptNone \/ Return \/ AbortLoop \/ DropMain
    PROVE  ServerInv'
  <1> USE ServerAssumption DEF ServerInv, ServerTypeOK, ShutdownTypeOK, Served, NoneLeft
  <1>1. CASE Spawn \/ Return \/ AbortLoop \/ DropMain
    BY <1>1 DEF Spawn, Return, AbortLoop, DropMain, Clone, Release
  <1>2. CASE PollDrain \/ AcceptNone
    BY <1>2 DEF PollDrain, AcceptNone, shutdownVars
  <1> QED
    BY Zenon, <1>1, <1>2

\* A connection's tasks.
LEMMA ConnInv ==
    ASSUME ServerInv, NEW c \in Conn, ConnStep(c)
    PROVE  ServerInv'
  <1> USE ServerAssumption DEF ServerInv, ServerTypeOK, ShutdownTypeOK, Served, NoneLeft
  <1>1. CASE Accept(c)
    BY <1>1 DEF Accept, Clone
  <1>2. CASE Fail(c)
    BY <1>2 DEF Fail, Release
  <1>3. CASE Establish(c)
    BY <1>3 DEF Establish, shutdownVars
  <1>4. CASE GracefulShutdown(c)
    BY <1>4 DEF GracefulShutdown, shutdownVars
  <1>5. CASE ReleaseAfter(c)
    BY <1>5 DEF ReleaseAfter, Release
  <1>6. CASE Request(c) \/ Respond(c) \/ Disconnect(c) \/ CloseIdle(c)
    BY <1>6 DEF Request, Respond, Disconnect, CloseIdle, shutdownVars
  <1> QED
    BY <1>1, <1>2, <1>3, <1>4, <1>5, <1>6 DEF ConnStep

LEMMA ServerInvAlways == Spec => []ServerInv
  <1>1. ServerInv /\ [Next]_vars => ServerInv'
    <2>1. ASSUME ServerInv, UNCHANGED vars
          PROVE  ServerInv'
      BY <2>1 DEF vars, shutdownVars, ServerInv, ServerTypeOK, ShutdownTypeOK,
                  Served, NoneLeft
    <2> QED
      BY <2>1, ShutdownInv, LoopInv, ConnInv DEF Next
  <1> QED
    BY <1>1, ServerInvInit, PTL DEF Spec

\* The tasks that run are those that hold a Watch (server.rs:245-248, 272-274,
\* 388-389).
THEOREM TasksHoldWatches == Spec => []ServerTypeOK
  <1>1. ServerInv => ServerTypeOK
    BY DEF ServerInv
  <1> QED
    BY <1>1, ServerInvAlways, PTL

\* The shutdown completes only when every connection is closed, whenever it
\* was accepted, established, used or lost (server.rs:387-389).
THEOREM RequestsCompleted == Spec => []RequestsComplete
  <1>1. ServerInv => RequestsComplete
    BY ServerAssumption
       DEF ServerInv, ServerTypeOK, Served, NoneLeft, RequestsComplete
  <1> QED
    BY <1>1, ServerInvAlways, PTL
=============================================================================
