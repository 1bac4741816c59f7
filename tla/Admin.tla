-------------------------------- MODULE Admin --------------------------------
(***************************************************************************)
(* The admin server: its accept loop, its connections, and `handle', which *)
(* answers probes and diagnostics on the runtime's worker threads and runs *)
(* the routes of the user on the threads for blocking tasks.               *)
(*                                                                         *)
(* A connection (HTTP/1) has one request at a time, and here just one: the *)
(* next on a kept connection is like the first on one accepted at once.    *)
(* What /ready answers is the readiness flag, which is modelled in module  *)
(* Runtime; the statuses and bodies of the answers are left out, except    *)
(* for the diagnostics.                                                    *)
(***************************************************************************)
EXTENDS Diagnostics

CONSTANTS
    Loopback,   \* the clients with a loopback address
    Request(_), \* the requests that a client sends
    Workers,    \* the worker threads of the runtime
    Blocking    \* bound of its pool of threads for blocking tasks

NoRequest == [path |-> "none", method |-> "none"]
Requests == [path : {"/live", "/ready", "/kubert.json", "user", "other"},
             method : {"GET", "HEAD", "POST"}]

ASSUME AdminAssumption ==
    /\ Loopback \subseteq Client
    /\ \A c \in Client : Request(c) \subseteq Requests
    /\ Workers \in Nat \ {0}
    /\ Blocking \in Nat

VARIABLES
    conn,       \* conn[c]: where the connection is
    request     \* request[c]: the request it waits for an answer to

adminVars == <<conn, request>>
vars == <<diagnosticsVars, adminVars>>

In(s) == {c \in Client : conn[c] = s}

\* A worker thread is free.  Probes take one for an instant, diagnostics for
\* as long as they wait for locks.
Free == Cardinality(In("diagnostics")) < Workers

-----------------------------------------------------------------------------

Connect(c, q) ==
    /\ conn[c] = "closed"
    /\ conn' = [conn EXCEPT ![c] = "backlog"]
    /\ request' = [request EXCEPT ![c] = q]
    /\ UNCHANGED diagnosticsVars

\* Mutant: the loop serves the connection itself.
AcceptInline(c) ==
    /\ conn[c] = "backlog"
    /\ Free
    /\ \A d \in Client : conn[d] \in {"closed", "backlog"}
    /\ conn' = [conn EXCEPT ![c] = "sent"]
    /\ UNCHANGED <<diagnosticsVars, request>>

\* Bound::spawn: the loop spawns a task for the connection.  If accept fails
\* the loop goes on and the connection stays in the backlog.
Accept(c) ==
    /\ conn[c] = "backlog"
    /\ Free
    /\ conn' = [conn EXCEPT ![c] = "sent"]
    /\ UNCHANGED <<diagnosticsVars, request>>

Answer(c) ==
    /\ conn' = [conn EXCEPT ![c] = "closed"]
    /\ request' = [request EXCEPT ![c] = NoRequest]

\* handle_live, handle_ready, and 404 for paths without a route: answered at
\* once, whatever the method.
AtOnce(c) ==
    /\ request[c].path \in {"/live", "/ready", "other"}
    /\ Answer(c)
    /\ UNCHANGED diagnosticsVars

\* Mutant: any method will do.
DiagnoseAnyMethod(c) ==
    /\ request[c].path = "/kubert.json"
    /\ c \in Loopback
    /\ conn' = [conn EXCEPT ![c] = "diagnostics"]
    /\ handler' = [handler EXCEPT ![c] = Called]
    /\ UNCHANGED <<fresh, owned, refs, stateVars, request>>

\* Diagnostics::handle begins...
Diagnose(c) ==
    /\ request[c].path = "/kubert.json"
    /\ request[c].method = "GET" /\ c \in Loopback
    /\ conn' = [conn EXCEPT ![c] = "diagnostics"]
    /\ handler' = [handler EXCEPT ![c] = Called]
    /\ UNCHANGED <<fresh, owned, refs, stateVars, request>>

\* ... unless it is another method (405) or not a loopback client (403).
Refuse(c) ==
    /\ request[c].path = "/kubert.json"
    /\ request[c].method # "GET" \/ c \notin Loopback
    /\ Answer(c)
    /\ UNCHANGED diagnosticsVars

\* A route of the user goes to the blocking threads.
Route(c) ==
    /\ request[c].path = "user"
    /\ conn' = [conn EXCEPT ![c] = "queued"]
    /\ UNCHANGED <<diagnosticsVars, request>>

\* handle.
Handle(c) ==
    /\ conn[c] = "sent"
    /\ Free
    /\ AtOnce(c) \/ Diagnose(c) \/ Refuse(c) \/ Route(c)

\* A blocking thread takes the handler; it may never return.
StartRoute(c) ==
    /\ conn[c] = "queued"
    /\ Cardinality(In("blocking")) < Blocking
    /\ conn' = [conn EXCEPT ![c] = "blocking"]
    /\ UNCHANGED <<diagnosticsVars, request>>

\* The handler's response (for metrics, handle_metrics), or its panic: a
\* JoinError, which ends the connection.
EndRoute(c) ==
    /\ conn[c] = "blocking"
    /\ Answer(c)
    /\ UNCHANGED diagnosticsVars

\* Diagnostics::handle ends: the summaries are serialized.
Respond(c) ==
    /\ handler[c].at = "done"
    /\ handler' = [handler EXCEPT ![c] = Idle]
    /\ Answer(c)
    /\ UNCHANGED <<fresh, owned, refs, stateVars>>

Init ==
    /\ DiagnosticsInit
    /\ conn = [c \in Client |-> "closed"]
    /\ request = [c \in Client |-> NoRequest]

Reading(c) == (Retain(c) \/ Visit(c) \/ Unlock(c)) /\ UNCHANGED adminVars

Sources ==
    /\ \E i \in Source : Register(i) \/ Inspect(i) \/ InspectDone(i) \/ Release(i)
    /\ UNCHANGED adminVars

\* What the server does for a client, up to the user's routes.
Serve(c) == Accept(c) \/ Handle(c) \/ Reading(c) \/ Respond(c)

Next ==
    \/ Sources
    \/ \E c \in Client :
          \/ \E q \in Request(c) : Connect(c, q)
          \/ Serve(c) \/ StartRoute(c) \/ EndRoute(c)

Spec == Init /\ [][Next]_vars

\* The scheduler of the runtime runs every task that is ready, and locks are
\* handed to whoever waits for them.  Nothing is assumed of clients, of what
\* is watched, and of the user's routes.
Fairness ==
    /\ \A c \in Client : SF_vars(Serve(c))
    /\ \A i \in Source : WF_vars(InspectDone(i) /\ UNCHANGED adminVars)

FairSpec == Spec /\ Fairness

-----------------------------------------------------------------------------
(* Properties *)

\* The variables have their types, and Diagnostics::handle summarizes for none
\* but clients of the host that asked for it by GET /kubert.json
\* (diagnostics.rs:62-76).
AdminTypeOK ==
    /\ fresh \subseteq Source /\ owned \subseteq Source /\ writing \subseteq owned
    /\ refs \in [Lists -> Seq(Source)]
    /\ \A l \in Lists : \A i \in Range(refs[l]) : List(i) = l
    /\ contents \in [Source -> 0 .. MaxEvents]
    /\ stats \in [Source -> 0 .. MaxEvents]
    /\ \A c \in Client :
          /\ conn[c] \in {"closed", "backlog", "sent", "diagnostics", "queued",
                          "blocking"}
          /\ request[c] \in Requests \cup {NoRequest}
          /\ handler[c].at # "none" =>
                /\ conn[c] = "diagnostics"
                /\ request[c] = [path |-> "/kubert.json", method |-> "GET"]
                /\ c \in Loopback

\* Probes and requests for diagnostics are answered, even when every handler
\* of the user hangs (admin.rs:411-413).
Answered ==
    \A c \in Client :
        request[c].path \notin {"user", "none"} ~> conn[c] = "closed"

\* No list stays locked: whoever starts a watch or spawns a lease gets to
\* register it, though the handlers that hold the mutex of its list wait for the
\* locks of states meanwhile (diagnostics.rs:108-118).
ListsReleased == \A l \in Lists : []<>Unlocked(l)
=============================================================================
