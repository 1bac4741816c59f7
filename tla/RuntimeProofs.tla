---------------------------- MODULE RuntimeProofs ----------------------------
(***************************************************************************)
(* Readiness waits for every handle, and the shutdown for every component, *)
(* for any number of streams, tasks, items and signals.                    *)
(***************************************************************************)
EXTENDS Runtime, FiniteSetTheorems, TLAPS

Component == Stream \cup Task

\* Every handle that was issued is held, or its permit is available; and only
\* what has been created and not dropped holds one.
HandlesOK ==
    /\ issued \in Nat
    /\ permits \in Nat
    /\ handles \subseteq Component
    /\ IsFiniteSet(handles)
    /\ permits + Cardinality(handles) = issued

StreamStates ==
    [kind : {"none", "watch", "requeue", "future", "task"},
     at : Places, failed : BOOLEAN, sleeping : BOOLEAN]

StreamsOK ==
    /\ stream \in [Component -> StreamStates]
    /\ source \in [Component -> Seq({"item", "error", "end"})]
    /\ yielded \in [Component -> 0 .. MaxEvents]

Held == \A c \in handles : stream[c].at \in {"live", "ended"}

\* The readiness task has passed initialized() only without handles left.
TaskOK ==
    /\ task \in {"none", "initializing", "ready", "notified", "done"}
    /\ ready \in BOOLEAN
    /\ ready => task \in {"ready", "notified"}
    /\ task \in {"ready", "notified", "done"} => handles = {}

\* What runs has a Watch, so that the shutdown cannot complete.
Watching ==
    /\ \A c \in Component : stream[c].at = "live" => c \in watches
    /\ task \notin {"notified", "done"} => Main \in watches
    /\ shutdown = "completed" => watches = {}

RuntimeInv == HandlesOK /\ StreamsOK /\ Held /\ TaskOK /\ ShutdownTypeOK /\ Watching

-----------------------------------------------------------------------------
(* Handles *)

LEMMA AddHandle ==
    ASSUME HandlesOK, NEW h \in Component, h \notin handles, add_handle(h)
    PROVE  HandlesOK'
  <1>1. /\ IsFiniteSet(handles \cup {h})
        /\ Cardinality(handles \cup {h}) = Cardinality(handles) + 1
        /\ Cardinality(handles) \in Nat
    BY FS_AddElement, FS_CardinalityType DEF HandlesOK
  <1>2. handles' = handles \cup {h} /\ issued' = issued + 1 /\ permits' = permits
    BY DEF add_handle
  <1>3. IsFiniteSet(handles') /\ Cardinality(handles') = Cardinality(handles) + 1
    BY Zenon, <1>1, <1>2
  <1>4. handles' \subseteq Component
    BY Zenon, <1>2 DEF HandlesOK
  <1>5. permits' + Cardinality(handles') = issued' /\ issued' \in Nat
    BY <1>1, <1>2, <1>3 DEF HandlesOK
  <1> QED
    BY Zenon, <1>2, <1>3, <1>4, <1>5 DEF HandlesOK

LEMMA DropHandle ==
    ASSUME HandlesOK, NEW h, drop_handle(h)
    PROVE  HandlesOK' /\ handles' \subseteq handles /\ h \notin handles'
  <1>1. CASE h \in handles
    <2>1. /\ IsFiniteSet(handles \ {h})
          /\ Cardinality(handles \ {h}) = Cardinality(handles) - 1
          /\ Cardinality(handles) \in Nat
      BY <1>1, FS_RemoveElement, FS_CardinalityType DEF HandlesOK
    <2> QED
      BY <1>1, <2>1 DEF HandlesOK, drop_handle
  <1>2. CASE h \notin handles
    <2>1. handles' = handles
      BY <1>2 DEF drop_handle
    <2> QED
      BY ZenonT(30), <1>2, <2>1 DEF HandlesOK, drop_handle
  <1> QED
    BY <1>1, <1>2

\* If all permits are available no handle is held.
LEMMA NoHandles ==
    ASSUME HandlesOK, permits >= issued
    PROVE  handles = {}
  <1>1. Cardinality(handles) \in Nat
    BY FS_CardinalityType DEF HandlesOK
  <1>2. Cardinality(handles) = 0
    BY <1>1 DEF HandlesOK
  <1> QED
    BY <1>2, FS_EmptySet DEF HandlesOK

-----------------------------------------------------------------------------

LEMMA RuntimeInvInit == Init => RuntimeInv
  <1> SUFFICES ASSUME Init PROVE RuntimeInv
    OBVIOUS
  <1> USE DEF Init, ShutdownInit
  <1>1. HandlesOK
    BY FS_EmptySet DEF HandlesOK
  <1>2. StreamsOK /\ Held
    BY RuntimeAssumption
       DEF StreamsOK, Held, StreamStates, NoStream, Component, Places
  <1>3. ready \in BOOLEAN /\ signaled \in BOOLEAN
    BY Zenon
  <1>4. TaskOK
    BY <1>3 DEF TaskOK
  <1>5. ShutdownTypeOK
    BY <1>3, SignalAssumption, RuntimeAssumption DEF ShutdownTypeOK
  <1>6. Watching
    BY DEF Watching, Component, NoStream
  <1> QED
    BY <1>1, <1>2, <1>4, <1>5, <1>6 DEF RuntimeInv

\* Signals, and the steps of Shutdown::signaled.
LEMMA ShutdownInv ==
    ASSUME RuntimeInv, AwaitShutdown \/ \E s \in SignalKind : Kill(s)
    PROVE  RuntimeInv'
  <1> USE DEF AwaitShutdown, Kill, Signaled, Signal, Receive, Closed, Drain,
              Drained, Abort
  <1>1. UNCHANGED <<watches, runtimeVars, streamVars>>
    BY SMTT(30)
  <1>2. signaled' \in BOOLEAN
    BY Zenon DEF RuntimeInv, ShutdownTypeOK
  <1>3. /\ sent' \in 0 .. MaxSignals
        /\ sigs' \subseteq SignalKind
        /\ shutdown' \in {"waiting", "draining", "completed", "aborted"}
    BY SignalAssumption DEF RuntimeInv, ShutdownTypeOK
  <1>4. shutdown' = "completed" => watches = {}
    BY DEF RuntimeInv, Watching
  <1> QED
    BY SMTT(30), <1>1, <1>2, <1>3, <1>4
       DEF RuntimeInv, HandlesOK, StreamsOK, Held, TaskOK, ShutdownTypeOK,
           Watching, runtimeVars, streamVars

\* run, and the readiness task.
LEMMA TaskInv ==
    ASSUME RuntimeInv, run \/ Readiness
    PROVE  RuntimeInv'
  <1> USE DEF run, Readiness, SetReady, Notified, SetUnready, drop_watch
  <1>1. UNCHANGED <<issued, permits, handles, streamVars>>
    OBVIOUS
  <1>2. ready' \in BOOLEAN
    BY Zenon DEF RuntimeInv, TaskOK
  <1>3. TaskOK'
    BY <1>1, <1>2, NoHandles DEF RuntimeInv, TaskOK
  <1>4. ShutdownTypeOK' /\ Watching'
    BY <1>1, RuntimeAssumption
       DEF RuntimeInv, TaskOK, ShutdownTypeOK, Watching, shutdownVars,
           streamVars, Component
  <1> QED
    BY <1>1, <1>3, <1>4
       DEF RuntimeInv, HandlesOK, StreamsOK, Held, streamVars

\* A component is created, with a handle or without.
LEMMA CreateInv ==
    ASSUME RuntimeInv, NEW c \in Component,
           watch(c) \/ requeue(c) \/ spawn(c) \/ cancel_on_shutdown(c)
    PROVE  RuntimeInv'
  <1>1. PICK kind \in {"watch", "requeue", "task", "future"} : Create(c, kind)
    BY SMTT(30) DEF watch, requeue, spawn, cancel_on_shutdown
  <1>2. add_handle(c) \/ UNCHANGED <<issued, permits, handles>>
    BY DEF watch, requeue, spawn, cancel_on_shutdown
  <1>3. c \notin handles
    BY <1>1 DEF RuntimeInv, Held, Create
  <1>4. HandlesOK'
    BY <1>2, <1>3, AddHandle DEF RuntimeInv, HandlesOK
  <1>5. handles' \subseteq handles \cup {c}
    BY <1>2 DEF add_handle
  <1>6. StreamsOK' /\ stream'[c].at = "live"
            /\ \A d \in Component \ {c} : stream'[d] = stream[d]
    BY ZenonT(30), <1>1 DEF RuntimeInv, StreamsOK, StreamStates, Create, Places
  <1>7. Held'
    BY <1>5, <1>6 DEF RuntimeInv, Held, HandlesOK
  <1>8. TaskOK'
    BY <1>1 DEF RuntimeInv, TaskOK, Create
  <1>9. ShutdownTypeOK' /\ Watching'
    BY <1>1, <1>6, RuntimeAssumption
       DEF RuntimeInv, ShutdownTypeOK, Watching, Create, clone_watch, Component
  <1> QED
    BY <1>4, <1>6, <1>7, <1>8, <1>9 DEF RuntimeInv

\* Steps that make no component live: a handle may be dropped, a Watch only by
\* one that is no longer live.
LEMMA Quieter ==
    ASSUME RuntimeInv, NEW c \in Component, StreamsOK',
           UNCHANGED <<task, ready, sent, sigs, shutdown, signaled>>,
           HandlesOK', handles' \subseteq handles,
           \A d \in Component \ {c} : stream'[d] = stream[d],
           stream'[c].at = "live" => stream[c].at = "live",
           c \in handles' => stream'[c].at \in {"live", "ended"},
           \/ UNCHANGED watches
           \/ watches' = watches \ {c} /\ stream'[c].at # "live"
    PROVE  RuntimeInv'
  <1>1. Held'
    BY SMTT(30) DEF RuntimeInv, Held, HandlesOK
  <1>2. TaskOK'
    BY DEF RuntimeInv, TaskOK
  <1>3. ShutdownTypeOK'
    BY DEF RuntimeInv, ShutdownTypeOK
  <1>4. Watching'
    BY RuntimeAssumption DEF RuntimeInv, Watching, Component
  <1> QED
    BY <1>1, <1>2, <1>3, <1>4 DEF RuntimeInv

LEMMA PollsSource ==
    ASSUME RuntimeInv, NEW c \in Component, NEW e, Polls(c, e)
    PROVE  /\ source' \in [Component -> Seq({"item", "error", "end"})]
           /\ UNCHANGED yielded
           /\ stream[c].at = "live"
  <1>1. source[c] # <<>>
    BY Zenon DEF Polls, Idle
  <1>2. Tail(source[c]) \in Seq({"item", "error", "end"})
    BY <1>1 DEF RuntimeInv, StreamsOK
  <1> QED
    BY <1>2 DEF RuntimeInv, StreamsOK, Polls

LEMMA PollInv ==
    ASSUME RuntimeInv, NEW c \in Component, Poll(c)
    PROVE  RuntimeInv'
  <1>1. CASE PollItem(c)
    <2>1. StreamsOK' /\ stream'[c].at = "live"
            /\ \A d \in Component \ {c} : stream'[d] = stream[d]
      BY ZenonT(30), <1>1, PollsSource DEF RuntimeInv, StreamsOK, StreamStates, PollItem
    <2>2. HandlesOK' /\ handles' \subseteq handles
      BY <1>1, DropHandle DEF RuntimeInv, PollItem
    <2> QED
      BY <1>1, <2>1, <2>2, Quieter DEF PollItem, Polls, shutdownVars
  <1>2. CASE PollEnd(c)
    <2>1. StreamsOK' /\ stream'[c].at = "ended"
            /\ \A d \in Component \ {c} : stream'[d] = stream[d]
      BY ZenonT(30), <1>2, PollsSource DEF RuntimeInv, StreamsOK, StreamStates, Places, PollEnd
    <2>2. HandlesOK' /\ handles' \subseteq handles
      BY <1>2, DropHandle DEF RuntimeInv, PollEnd
    <2> QED
      BY <1>2, <2>1, <2>2, Quieter DEF PollEnd, Polls, shutdownVars
  <1>3. CASE PollError(c)
    <2>1. StreamsOK' /\ stream'[c].at = "live"
            /\ \A d \in Component \ {c} : stream'[d] = stream[d]
      BY ZenonT(30), <1>3, PollsSource DEF RuntimeInv, StreamsOK, StreamStates, PollError
    <2>2. HandlesOK' /\ handles' \subseteq handles
      BY <1>3 DEF RuntimeInv, HandlesOK, PollError
    <2> QED
      BY SMTT(30), <1>3, <2>1, <2>2, Quieter DEF PollError, Polls, shutdownVars
  <1>4. CASE PollCancelled(c)
    <2>1. StreamsOK' /\ stream'[c].at = "ended"
            /\ \A d \in Component \ {c} : stream'[d] = stream[d]
      BY ZenonT(30), <1>4 DEF RuntimeInv, StreamsOK, StreamStates, Places, PollCancelled
    <2>2. HandlesOK' /\ handles' \subseteq handles
      BY <1>4 DEF RuntimeInv, HandlesOK, PollCancelled, runtimeVars
    <2> QED
      BY <1>4, <2>1, <2>2, Quieter DEF PollCancelled, drop_watch, runtimeVars
  <1> QED
    BY <1>1, <1>2, <1>3, <1>4 DEF Poll

\* What the inner stream, the clock, the consumer and the task itself do.
LEMMA ComponentInv ==
    ASSUME RuntimeInv, NEW c \in Component,
           \/ Wake(c) \/ Drop(c) \/ TaskInitialized(c)
           \/ \E e \in {"item", "error", "end"} : Arrive(c, e)
    PROVE  RuntimeInv'
  <1>1. CASE Wake(c)
    <2>1. StreamsOK' /\ stream'[c].at = "live"
            /\ \A d \in Component \ {c} : stream'[d] = stream[d]
      BY ZenonT(30), <1>1 DEF RuntimeInv, StreamsOK, StreamStates, Wake
    <2>2. HandlesOK' /\ handles' \subseteq handles
      BY <1>1 DEF RuntimeInv, HandlesOK, Wake, runtimeVars
    <2> QED
      BY <1>1, <2>1, <2>2, Quieter DEF Wake, shutdownVars, runtimeVars
  <1>2. CASE Drop(c)
    <2>1. StreamsOK' /\ stream'[c].at = "dropped"
            /\ \A d \in Component \ {c} : stream'[d] = stream[d]
      <3>1. [NoStream EXCEPT !.at = "dropped"] \in StreamStates
        BY ZenonT(30) DEF NoStream, StreamStates, Places
      <3> QED
        BY SMTT(30), <1>2, <3>1, RuntimeAssumption
           DEF RuntimeInv, StreamsOK, Drop, StreamStates, NoStream
    <2>2. HandlesOK' /\ handles' \subseteq handles /\ c \notin handles'
      BY <1>2, DropHandle DEF RuntimeInv, Drop
    <2> QED
      BY <1>2, <2>1, <2>2, Quieter DEF Drop, drop_watch
  <1>3. CASE TaskInitialized(c)
    <2>1. StreamsOK' /\ UNCHANGED stream
      BY SMTT(30), <1>3 DEF RuntimeInv, StreamsOK, TaskInitialized, streamVars
    <2>2. HandlesOK' /\ handles' \subseteq handles /\ c \notin handles'
      BY <1>3, DropHandle DEF RuntimeInv, TaskInitialized
    <2> QED
      BY SMTT(30), <1>3, <2>1, <2>2, Quieter DEF TaskInitialized, shutdownVars
  <1>4. ASSUME NEW e \in {"item", "error", "end"}, Arrive(c, e)
        PROVE  RuntimeInv'
    <2>1. StreamsOK' /\ UNCHANGED stream
      BY SMTT(30), <1>4, RuntimeAssumption DEF RuntimeInv, StreamsOK, Arrive
    <2>2. HandlesOK' /\ UNCHANGED handles
      BY <1>4 DEF RuntimeInv, HandlesOK, Arrive, runtimeVars
    <2>3. c \in handles' => stream'[c].at \in {"live", "ended"}
      BY <2>1, <2>2 DEF RuntimeInv, Held
    <2> QED
      BY SMTT(30), <1>4, <2>1, <2>2, <2>3, Quieter DEF Arrive, shutdownVars, runtimeVars
  <1> QED
    BY <1>1, <1>2, <1>3, <1>4

LEMMA RuntimeInvAlways == Spec => []RuntimeInv
  <1>1. RuntimeInv /\ [Next]_vars => RuntimeInv'
    <2>1. ASSUME RuntimeInv, UNCHANGED vars
          PROVE  RuntimeInv'
      BY <2>1 DEF vars, shutdownVars, runtimeVars, streamVars, RuntimeInv,
                  HandlesOK, StreamsOK, Held, TaskOK, ShutdownTypeOK, Watching
    <2> QED
      BY <2>1, ShutdownInv, TaskInv, CreateInv, PollInv, ComponentInv
         DEF Next, Component
  <1> QED
    BY <1>1, RuntimeInvInit, PTL DEF Spec

-----------------------------------------------------------------------------

\* The runtime's variables keep their types; in particular no handle is ever
\* released twice (initialized.rs:102-111).
THEOREM TypeCorrect == Spec => []RuntimeTypeOK
  <1>1. RuntimeInv => permits \in 0 .. issued
    <2>1. RuntimeInv => Cardinality(handles) \in Nat
      BY FS_CardinalityType DEF RuntimeInv, HandlesOK
    <2> QED
      BY <2>1 DEF RuntimeInv, HandlesOK
  <1>2. RuntimeInv => RuntimeTypeOK
    BY Zenon, <1>1 DEF RuntimeInv, HandlesOK, StreamsOK, TaskOK, RuntimeTypeOK,
                       StreamStates, Component
  <1> QED
    BY <1>2, RuntimeInvAlways, PTL

\* The admin server reports readiness only when every component has released
\* its handle (initialized.rs:62-68, runtime.rs:623-626).
THEOREM ReadinessWaits == Spec => []ReadyWhenInitialized
  <1>1. RuntimeInv => ReadyWhenInitialized
    BY DEF RuntimeInv, TaskOK, ReadyWhenInitialized
  <1> QED
    BY <1>1, RuntimeInvAlways, PTL

\* Runtime::run returns Ok only when no component is in use any more
\* (runtime.rs:632-634, shutdown.rs:93-104).
THEOREM ShutdownWaits == Spec => []AllTerminated
  <1>1. RuntimeInv => AllTerminated
    BY DEF RuntimeInv, TaskOK, Watching, AllTerminated, Component
  <1> QED
    BY <1>1, RuntimeInvAlways, PTL
=============================================================================
