------------------------------- MODULE Runtime -------------------------------
(***************************************************************************)
(* kubert::runtime::Runtime: the streams it hands out, the initialization  *)
(* handles they hold, the readiness task of Runtime::run and the shutdown. *)
(*                                                                         *)
(* A watch is the stack                                                    *)
(*   CancelOnShutdown<ReleasesOnReady<LogAndSleep<watcher>>>               *)
(* and a requeue stream is CancelOnShutdown<requeue::Receiver>.  Each is   *)
(* polled by a consumer, which may drop it at any time.  A poll_next of    *)
(* the stack ends at the first item, or when its inner stream is pending;  *)
(* the steps below are the rounds of LogAndSleep's loop.  A future given   *)
(* to cancel_on_shutdown is a stream that yields nothing before it ends.   *)
(***************************************************************************)
EXTENDS Shutdown, Sequences

CONSTANTS
    Stream,     \* streams the application may ask for
    Task,       \* tasks of the application's own
    Main,       \* the Runtime, later the readiness task
    MaxEvents   \* bound on what the inner stream of each stream yields

ASSUME RuntimeAssumption ==
    /\ Holder = Stream \cup Task \cup {Main}
    /\ Stream \cap Task = {} /\ Main \notin Stream \cup Task
    /\ MaxEvents \in Nat

VARIABLES
    task,      \* the readiness task: "none" until Runtime::run is called
    ready,     \* admin::Readiness
    issued,    \* Initialized::issued
    permits,   \* permits of Initialized's semaphore that are available
    handles,   \* who holds an initialized::Handle
    stream,    \* stream[c]: state of the stream of c
    source,    \* source[c]: what the inner stream of c has ready
    yielded    \* yielded[c]: how much it has yielded so far

runtimeVars == <<task, ready, issued, permits, handles>>
streamVars == <<stream, source, yielded>>
vars == <<shutdownVars, runtimeVars, streamVars>>

\* The states of a stream, and of a task: not asked for, in use, ended (it
\* has returned None) and dropped.
NoStream == [kind |-> "none", at |-> "absent", failed |-> FALSE, sleeping |-> FALSE]

-----------------------------------------------------------------------------
(* Initialized *)

\* A permit is added and taken at once.
add_handle(h) ==
    /\ issued' = issued + 1
    /\ handles' = handles \cup {h}
    /\ UNCHANGED permits

\* Mutant: a handle is released again when the stream is dropped.
drop_handle_twice(h) ==
    /\ permits' = permits + 1
    /\ handles' = handles \ {h}
    /\ UNCHANGED issued

drop_handle(h) ==
    /\ permits' = IF h \in handles THEN permits + 1 ELSE permits
    /\ handles' = handles \ {h}
    /\ UNCHANGED issued

\* Mutant: the stream gets no Watch.
clone_watch_none(h) == UNCHANGED shutdownVars

\* The drain::Watch of h.
clone_watch(h) ==
    /\ Main \in watches
    /\ watches' = watches \cup {h}
    /\ UNCHANGED <<sent, sigs, shutdown, signaled>>

drop_watch(h) ==
    /\ watches' = watches \ {h}
    /\ UNCHANGED <<sent, sigs, shutdown, signaled>>

-----------------------------------------------------------------------------
(* Before Runtime::run *)

Create(c, kind) ==
    /\ task = "none"
    /\ stream[c].at = "absent"
    /\ stream' = [stream EXCEPT ![c] = [@ EXCEPT !.kind = kind, !.at = "live"]]
    /\ clone_watch(c)
    /\ UNCHANGED <<task, ready, source, yielded>>

\* watch_all, watch_namespaced, cache_all, cache_namespaced
watch(c) == c \in Stream /\ Create(c, "watch") /\ add_handle(c)

requeue(c) ==
    c \in Stream /\ Create(c, "requeue") /\ UNCHANGED <<issued, permits, handles>>

\* A task with an initialized_handle and a shutdown_handle.
spawn(c) == c \in Task /\ Create(c, "task") /\ add_handle(c)

cancel_on_shutdown(c) ==
    c \in Task /\ Create(c, "future") /\ UNCHANGED <<issued, permits, handles>>

\* The Runtime's own Watch is moved to the readiness task.
run ==
    /\ task = "none"
    /\ task' = "initializing"
    /\ UNCHANGED <<shutdownVars, ready, issued, permits, handles, streamVars>>

-----------------------------------------------------------------------------
(* The readiness task *)

\* Mutant: one permit is enough.
SetReadyOnFirst ==
    /\ task = "initializing"
    /\ permits >= 1
    /\ ready' = TRUE
    /\ task' = "ready"
    /\ UNCHANGED <<shutdownVars, issued, permits, handles, streamVars>>

\* Mutant: one permit too many is waited for.
SetReadyOffByOne ==
    /\ task = "initializing"
    /\ permits > issued
    /\ ready' = TRUE
    /\ task' = "ready"
    /\ UNCHANGED <<shutdownVars, issued, permits, handles, streamVars>>

\* initialized().await: acquire_many(issued), given back at once.
SetReady ==
    /\ task = "initializing"
    /\ permits >= issued
    /\ ready' = TRUE
    /\ task' = "ready"
    /\ UNCHANGED <<shutdownVars, issued, permits, handles, streamVars>>

\* drop(shutdown_rx.signaled().await)
Notified ==
    /\ task = "ready"
    /\ signaled
    /\ task' = "notified"
    /\ drop_watch(Main)
    /\ UNCHANGED <<ready, issued, permits, handles, streamVars>>

\* Mutant: readiness is left as it is.
SetUnreadyForgets ==
    /\ task = "notified"
    /\ task' = "done"
    /\ UNCHANGED <<shutdownVars, ready, issued, permits, handles, streamVars>>

SetUnready ==
    /\ task = "notified"
    /\ ready' = FALSE
    /\ task' = "done"
    /\ UNCHANGED <<shutdownVars, issued, permits, handles, streamVars>>

-----------------------------------------------------------------------------
(* Polling a stream *)

\* The inner stream gets something to yield; only a watch yields errors, and
\* it does not end.
Yields == [watch |-> {"item", "error"}, requeue |-> {"item", "end"},
           future |-> {"end"}, task |-> {}]

Arrive(c, e) ==
    /\ stream[c].at = "live"
    /\ e \in Yields[stream[c].kind]
    /\ yielded[c] < MaxEvents
    /\ source' = [source EXCEPT ![c] = Append(@, e)]
    /\ yielded' = [yielded EXCEPT ![c] = IF e = "end" THEN MaxEvents ELSE @ + 1]
    /\ UNCHANGED <<shutdownVars, runtimeVars, stream>>

Idle(c) == stream[c].sleeping \/ source[c] = <<>>

Polls(c, e) ==
    /\ stream[c].at = "live"
    /\ ~Idle(c)
    /\ Head(source[c]) = e
    /\ source' = [source EXCEPT ![c] = Tail(@)]
    /\ UNCHANGED <<task, ready, yielded>>

PollItem(c) ==
    /\ Polls(c, "item")
    /\ stream' = [stream EXCEPT ![c].failed = FALSE]
    /\ drop_handle(c)
    /\ UNCHANGED shutdownVars

PollEnd(c) ==
    /\ Polls(c, "end")
    /\ stream' = [stream EXCEPT ![c] = [@ EXCEPT !.at = "ended", !.failed = FALSE]]
    /\ drop_handle(c)
    /\ UNCHANGED shutdownVars

\* LogAndSleep: the first error in a row is followed by another poll, those
\* after it by a delay.
PollError(c) ==
    /\ Polls(c, "error")
    /\ stream' = [stream EXCEPT ![c] = [@ EXCEPT !.sleeping = stream[c].failed,
                                                 !.failed = TRUE]]
    /\ UNCHANGED <<shutdownVars, issued, permits, handles>>

\* The delay is over.
Wake(c) ==
    /\ stream[c].at = "live"
    /\ stream[c].sleeping
    /\ stream' = [stream EXCEPT ![c].sleeping = FALSE]
    /\ UNCHANGED <<shutdownVars, runtimeVars, source, yielded>>

\* Mutant: the shutdown is not polled while LogAndSleep sleeps.
PollCancelledAwake(c) ==
    /\ stream[c].at = "live"
    /\ stream[c].kind # "task"
    /\ source[c] = <<>> /\ ~stream[c].sleeping
    /\ signaled
    /\ stream' = [stream EXCEPT ![c].at = "ended"]
    /\ drop_watch(c)
    /\ UNCHANGED <<runtimeVars, source, yielded>>

\* CancelOnShutdown: the inner stream is pending and the shutdown has fired.
\* The Watch is released; what the stream holds is not, until it is dropped.
PollCancelled(c) ==
    /\ stream[c].at = "live"
    /\ stream[c].kind # "task"
    /\ Idle(c)
    /\ signaled
    /\ stream' = [stream EXCEPT ![c].at = "ended"]
    /\ drop_watch(c)
    /\ UNCHANGED <<runtimeVars, source, yielded>>

\* The consumer drops the stream and all that is in it, or the task ends.
Drop(c) ==
    /\ stream[c].at \in {"live", "ended"}
    /\ stream' = [stream EXCEPT ![c] = [NoStream EXCEPT !.at = "dropped"]]
    /\ source' = [source EXCEPT ![c] = <<>>]
    /\ yielded' = [yielded EXCEPT ![c] = 0]
    /\ drop_handle(c)
    /\ drop_watch(c)
    /\ UNCHANGED <<task, ready>>

\* A task of the application's is initialized.
TaskInitialized(c) ==
    /\ c \in Task \cap handles
    /\ drop_handle(c)
    /\ UNCHANGED <<shutdownVars, task, ready, streamVars>>

-----------------------------------------------------------------------------

Init ==
    /\ ShutdownInit
    /\ watches = {Main}
    /\ task = "none"
    /\ ready = FALSE
    /\ issued = 0
    /\ permits = 0
    /\ handles = {}
    /\ stream = [c \in Stream \cup Task |-> NoStream]
    /\ source = [c \in Stream \cup Task |-> <<>>]
    /\ yielded = [c \in Stream \cup Task |-> 0]

\* Runtime::run awaits Shutdown::signaled.
AwaitShutdown ==
    /\ task # "none"
    /\ Signaled
    /\ UNCHANGED <<runtimeVars, streamVars>>

Kill(s) == Signal(s) /\ UNCHANGED <<runtimeVars, streamVars>>

Readiness == SetReady \/ Notified \/ SetUnready

Poll(c) == PollItem(c) \/ PollEnd(c) \/ PollError(c) \/ PollCancelled(c)

Next ==
    \/ run \/ Readiness \/ AwaitShutdown
    \/ \E s \in SignalKind : Kill(s)
    \/ \E c \in Stream \cup Task :
          \/ watch(c) \/ requeue(c) \/ spawn(c) \/ cancel_on_shutdown(c)
          \/ Poll(c) \/ Wake(c) \/ Drop(c) \/ TaskInitialized(c)
          \/ \E e \in {"item", "error", "end"} : Arrive(c, e)

Spec == Init /\ [][Next]_vars

\* The tokio tasks run; consumers poll their streams, and drop those that
\* have ended; the application's tasks end once they are notified.
Fairness ==
    /\ WF_vars(Readiness)
    /\ WF_vars(AwaitShutdown)
    /\ \A c \in Stream \cup Task :
          /\ WF_vars(Poll(c))
          /\ WF_vars(/\ \/ stream[c].at = "ended"
                        \/ stream[c].kind = "task" /\ signaled
                     /\ Drop(c))

FairSpec == Spec /\ Fairness

-----------------------------------------------------------------------------
(* Properties *)

Places == {"absent", "live", "ended", "dropped"}

\* The values of the runtime's variables.
RuntimeTypeOK ==
    /\ ShutdownTypeOK
    /\ task \in {"none", "initializing", "ready", "notified", "done"}
    /\ ready \in BOOLEAN
    /\ issued \in Nat
    /\ permits \in 0 .. issued
    /\ handles \subseteq Stream \cup Task
    /\ stream \in [Stream \cup Task -> [kind : {"none", "watch", "requeue", "future", "task"},
                                        at : Places, failed : BOOLEAN, sleeping : BOOLEAN]]
    /\ source \in [Stream \cup Task -> Seq({"item", "error", "end"})]
    /\ yielded \in [Stream \cup Task -> 0 .. MaxEvents]

\* The runtime is ready only when no component holds an initialization handle
\* any more, however handles were added, released and dropped before.
ReadyWhenInitialized == ready => handles = {}

\* Runtime::run returns Ok only when no stream and no task of the application
\* is in use, and the readiness task has been told.
AllTerminated ==
    shutdown = "completed" =>
       /\ \A c \in Stream \cup Task : stream[c].at # "live"
       /\ task \in {"notified", "done"}

\* Runtime::run's documentation: readiness returns success once all components
\* have become ready "and then returns an error after shutdown is initiated".
\* So a runtime that is shut down when a component is not ready yet never
\* reports success.
NotReadyAfterShutdown == [](signaled /\ handles # {} => []~ready)

\* A runtime whose handles have all been released becomes ready, if it is
\* not shut down first.
BecomesReady == task = "initializing" /\ handles = {} ~> ready \/ signaled

\* After a shutdown is initiated the readiness endpoint fails for good.
BecomesUnready == signaled ~> [](~ready)

\* A shutdown completes without a second signal: no stream that waits, sleeps
\* after errors, is not initialized or still has items holds it up, and the
\* readiness task does not either.
ShutdownCompletes == shutdown = "draining" ~> shutdown \in {"completed", "aborted"}
=============================================================================
