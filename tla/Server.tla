------------------------------- MODULE Server -------------------------------
(***************************************************************************)
(* kubert::server: the accept loop, the serve_conn task of each connection *)
(* and the hyper connection it spawns, until the drain is signaled and the *)
(* in-flight requests have completed.                                      *)
(***************************************************************************)
EXTENDS Shutdown

CONSTANTS
    Conn,     \* connections; each is accepted at most once
    Main,     \* holds the Watch the server is spawned with a clone of
    Loop      \* the task of the accept loop

ASSUME ServerAssumption ==
    /\ Holder = Conn \cup {Main, Loop}
    /\ Main \notin Conn /\ Loop \notin Conn /\ Main # Loop

VARIABLES
    listener,  \* where the accept loop is
    serve,     \* serve[c]: where serve_conn is
    conn       \* conn[c]: the HTTP connection

vars == <<shutdownVars, listener, serve, conn>>

\* The task h ends, and its Watch with it.
Release(h) ==
    /\ watches' = watches \ {h}
    /\ UNCHANGED <<sent, sigs, shutdown, signaled>>

\* h gets a clone of the Watch that g has.
Clone(g, h) ==
    /\ g \in watches
    /\ watches' = watches \cup {h}
    /\ UNCHANGED <<sent, sigs, shutdown, signaled>>

-----------------------------------------------------------------------------
(* accept_loop *)

Spawn ==
    /\ listener = "bound"
    /\ listener' = "accepting"
    /\ Clone(Main, Loop)
    /\ UNCHANGED <<serve, conn>>

\* The select! is biased: it polls the drain, and only then the listener.  So
\* at most one connection is accepted after the drain is signaled.
PollDrain ==
    /\ listener = "accepting"
    /\ ~signaled
    /\ listener' = "polled"
    /\ UNCHANGED <<shutdownVars, serve, conn>>

Accept(c) ==
    /\ listener = "polled"
    /\ serve[c] = "none"
    /\ listener' = "accepting"
    /\ serve' = [serve EXCEPT ![c] = "handshake"]
    /\ Clone(Loop, c)
    /\ UNCHANGED conn

\* No connection is there, or it is lost before it gets a task.
AcceptNone ==
    /\ listener = "polled"
    /\ listener' = "accepting"
    /\ UNCHANGED <<shutdownVars, serve, conn>>

Return ==
    /\ listener = "accepting"
    /\ signaled
    /\ listener' = "returned"
    /\ Release(Loop)
    /\ UNCHANGED <<serve, conn>>

\* Mutant: the Watch outlives the loop.
AbortLoopKeepsWatch ==
    /\ listener = "accepting"
    /\ listener' = "returned"
    /\ UNCHANGED <<shutdownVars, serve, conn>>

\* SpawnedServer::abort ends the accept loop where it waits, and no connection.
AbortLoop ==
    /\ listener = "accepting"
    /\ listener' = "returned"
    /\ Release(Loop)
    /\ UNCHANGED <<serve, conn>>

-----------------------------------------------------------------------------
(* serve_conn *)

\* Mutant: the Watch outlives the failed connection.
FailKeepsWatch(c) ==
    /\ serve[c] = "handshake"
    /\ serve' = [serve EXCEPT ![c] = "done"]
    /\ UNCHANGED <<shutdownVars, listener, conn>>

\* The credentials do not load, or the TLS handshake fails.
Fail(c) ==
    /\ serve[c] = "handshake"
    /\ serve' = [serve EXCEPT ![c] = "done"]
    /\ Release(c)
    /\ UNCHANGED <<listener, conn>>

Establish(c) ==
    /\ serve[c] = "handshake"
    /\ serve' = [serve EXCEPT ![c] = "serving"]
    /\ conn' = [conn EXCEPT ![c] = "idle"]
    /\ UNCHANGED <<shutdownVars, listener>>

\* Mutant: the latch is released before the connection has ended.
GracefulShutdownReleases(c) ==
    /\ serve[c] = "serving"
    /\ signaled
    /\ serve' = [serve EXCEPT ![c] = "closing"]
    /\ Release(c)
    /\ UNCHANGED <<listener, conn>>

\* drain.signaled() returns, and graceful.shutdown() tells the connection.
GracefulShutdown(c) ==
    /\ serve[c] = "serving"
    /\ signaled
    /\ serve' = [serve EXCEPT ![c] = "closing"]
    /\ UNCHANGED <<shutdownVars, listener, conn>>

\* graceful.shutdown() returns when the connection has ended; only then is
\* the drain's latch released.
ReleaseAfter(c) ==
    /\ serve[c] = "closing"
    /\ conn[c] = "closed"
    /\ serve' = [serve EXCEPT ![c] = "done"]
    /\ Release(c)
    /\ UNCHANGED <<listener, conn>>

-----------------------------------------------------------------------------
(* The connection: hyper *)

\* A request may still be read before the connection sees the shutdown.
Request(c) ==
    /\ conn[c] = "idle"
    /\ conn' = [conn EXCEPT ![c] = "busy"]
    /\ UNCHANGED <<shutdownVars, listener, serve>>

\* A connection that was told to shut down closes after the response.
Respond(c) ==
    /\ conn[c] = "busy"
    /\ conn' = [conn EXCEPT ![c] = IF serve[c] = "closing" THEN "closed" ELSE "idle"]
    /\ UNCHANGED <<shutdownVars, listener, serve>>

\* The client is gone, or has sent no header for too long.
Disconnect(c) ==
    /\ conn[c] \in {"idle", "busy"}
    /\ conn' = [conn EXCEPT ![c] = "closed"]
    /\ UNCHANGED <<shutdownVars, listener, serve>>

CloseIdle(c) ==
    /\ serve[c] = "closing"
    /\ conn[c] = "idle"
    /\ conn' = [conn EXCEPT ![c] = "closed"]
    /\ UNCHANGED <<shutdownVars, listener, serve>>

-----------------------------------------------------------------------------

\* The owner of the server gives up its own Watch.
DropMain ==
    /\ Main \in watches
    /\ Release(Main)
    /\ UNCHANGED <<listener, serve, conn>>

Init ==
    /\ ShutdownInit
    /\ watches = {Main}
    /\ listener = "bound"
    /\ serve = [c \in Conn |-> "none"]
    /\ conn = [c \in Conn |-> "none"]

ShutdownStep ==
    /\ Signaled \/ \E s \in SignalKind : Signal(s)
    /\ UNCHANGED <<listener, serve, conn>>

ConnStep(c) ==
    \/ Accept(c) \/ Fail(c) \/ Establish(c)
    \/ GracefulShutdown(c) \/ ReleaseAfter(c)
    \/ Request(c) \/ Respond(c) \/ Disconnect(c) \/ CloseIdle(c)

Next ==
    \/ ShutdownStep
    \/ Spawn \/ PollDrain \/ AcceptNone \/ Return \/ AbortLoop \/ DropMain
    \/ \E c \in Conn : ConnStep(c)

Spec == Init /\ [][Next]_vars

\* Tasks that can run do, hyper closes idle connections that it was told to
\* shut down, and the owner drops its Watch once it is signaled.  Nothing is
\* assumed of clients and of the service: a handshake may stall (it has no
\* timeout), and a request may never be answered.
Fairness ==
    /\ WF_vars(Signaled /\ UNCHANGED <<listener, serve, conn>>)
    /\ WF_vars(AcceptNone)
    /\ WF_vars(Return)
    /\ WF_vars(signaled /\ DropMain)
    /\ \A c \in Conn :
          /\ WF_vars(GracefulShutdown(c))
          /\ WF_vars(ReleaseAfter(c))
          /\ WF_vars(CloseIdle(c))

FairSpec == Spec /\ Fairness

-----------------------------------------------------------------------------
(* Properties *)

\* The server's tasks are where the code can take them, and those that run
\* are those that hold a Watch.
ServerTypeOK ==
    /\ ShutdownTypeOK
    /\ listener \in {"bound", "accepting", "polled", "returned"}
    /\ serve \in [Conn -> {"none", "handshake", "serving", "closing", "done"}]
    /\ conn \in [Conn -> {"none", "idle", "busy", "closed"}]
    /\ watches \ {Main} = {c \in Conn : serve[c] \notin {"none", "done"}}
                             \cup (IF listener \in {"accepting", "polled"} THEN {Loop} ELSE {})

\* Shutdown::signaled returns Ok only when the accept loop has ended and every
\* connection is closed, so that no request is cut off by the process's exit,
\* whenever connections were accepted, established, used, or lost.
RequestsComplete ==
    shutdown = "completed" =>
       /\ listener \notin {"accepting", "polled"}
       /\ \A c \in Conn : /\ serve[c] \in {"none", "done"}
                          /\ conn[c] \in {"none", "closed"}

\* The connections that wait for their client or for the service.
Stalled ==
    {c \in Conn : \/ serve[c] = "handshake"
                  \/ serve[c] = "closing" /\ conn[c] = "busy"}

\* Once the drain is signaled the shutdown ends, unless a handshake or a request
\* that is in progress does not; and then nothing else holds a Watch: the accept
\* loop, idle, lost and failed connections all end (server.rs:301-330, 387-388).
ServerDrains ==
    signaled ~> \/ shutdown \in {"completed", "aborted"}
                \/ watches # {} /\ watches \subseteq Stalled
=============================================================================
