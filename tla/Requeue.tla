------------------------------ MODULE Requeue ------------------------------
(***************************************************************************)
(* kubert::requeue: a bounded channel of operations to a Receiver that     *)
(* holds a DelayQueue of objects and a map from objects to their keys in   *)
(* it.                                                                     *)
(*                                                                         *)
(* Senders run concurrently with poll_requeued, so each round of its loop  *)
(* is a step.  What follows the loop is one step with the poll_recv that   *)
(* finds the channel empty: an operation sent in between is handled by the *)
(* next poll either way.                                                   *)
(***************************************************************************)
EXTENDS Integers, Sequences, FiniteSets

CONSTANTS
    Obj,        \* the objects of type T
    Slot,       \* the indices of the DelayQueue's slab
    Never,      \* no key, no time
    Capacity,   \* of the channel
    MaxSenders, MaxTime

ASSUME RequeueAssumption ==
    /\ Capacity \in Nat \ {0}
    /\ MaxSenders \in Nat \ {0}
    /\ MaxTime \in Nat
    /\ Slot \subseteq Nat
    /\ IsFiniteSet(Obj) /\ IsFiniteSet(Slot) /\ Cardinality(Obj) <= Cardinality(Slot)
    /\ Never \notin Nat /\ Never \notin Obj

Time == 0 .. MaxTime

VARIABLES
    now,
    senders,    \* number of Senders
    waiting,    \* how many of them are in a send
    chan,       \* operations in the channel
    rx_closed,
    q,          \* the DelayQueue
    pending,    \* object -> key
    ended,      \* poll_requeued has returned Ready(None)
    dropped,    \* the Receiver was dropped
    throttled   \* poll_recv may return Pending with operations left, when
                \* the task has used up tokio's cooperative budget; chosen
                \* once, at the start

receiverVars == <<rx_closed, q, pending, ended, dropped, throttled>>
vars == <<now, senders, waiting, chan, receiverVars>>

-----------------------------------------------------------------------------
(* Senders *)

RequeueOp(o, t) == [op |-> "requeue", obj |-> o, at |-> t]
CancelOp(o) == [op |-> "cancel", obj |-> o]
ClearOp == [op |-> "clear"]
Ops == {RequeueOp(o, t) : o \in Obj, t \in Time}
         \cup {CancelOp(o) : o \in Obj} \cup {ClearOp}

\* A sender calls requeue, requeue_at, cancel or clear.
Sends ==
    /\ waiting < senders
    /\ waiting' = waiting + 1
    /\ UNCHANGED <<now, senders, chan, receiverVars>>

\* Mutant: the channel is not bounded.
SendUnbounded(op) ==
    /\ waiting > 0
    /\ waiting' = waiting - 1
    /\ ~dropped
    /\ chan' = Append(chan, op)
    /\ UNCHANGED <<now, senders, receiverVars>>

\* The send waits for room in the channel...
Send(op) ==
    /\ waiting > 0
    /\ waiting' = waiting - 1
    /\ ~dropped
    /\ Len(chan) < Capacity
    /\ chan' = Append(chan, op)
    /\ UNCHANGED <<now, senders, receiverVars>>

\* requeue passes Instant::now() + defer.
RequeueAt(o, t) == Send(RequeueOp(o, t))
Cancel(o) == Send(CancelOp(o))
ClearAll == Send(ClearOp)

\* Mutant: a send that waits is not told that the receiver is gone.
SendErrorAtOnce ==
    /\ waiting > 0
    /\ dropped
    /\ waiting < senders
    /\ waiting' = waiting - 1
    /\ UNCHANGED <<now, senders, chan, receiverVars>>

\* ... and fails if the receiver is dropped: SendError.
SendError ==
    /\ waiting > 0
    /\ dropped
    /\ waiting' = waiting - 1
    /\ UNCHANGED <<now, senders, chan, receiverVars>>

CloneSender ==
    /\ senders > 0
    /\ senders < MaxSenders
    /\ senders' = senders + 1
    /\ UNCHANGED <<now, waiting, chan, receiverVars>>

DropSender ==
    /\ waiting < senders
    /\ senders' = senders - 1
    /\ UNCHANGED <<now, waiting, chan, receiverVars>>

-----------------------------------------------------------------------------
(* tokio_util::time::DelayQueue: a slab of entries, whose indices are keys *)

Vacant == [obj |-> Never, at |-> Never]
EmptyQueue == [k \in Slot |-> Vacant]
FreeSlots == {k \in Slot : q[k] = Vacant}
Expired == {k \in Slot : q[k] # Vacant /\ q[k].at <= now}

-----------------------------------------------------------------------------
(* Receiver::poll_requeued *)

Pending == {o \in Obj : pending[o] # Never}

RecvClear ==
    /\ Head(chan).op = "clear"
    /\ pending' = [o \in Obj |-> Never]
    /\ q' = EmptyQueue

\* Mutant: the object stays in the delay queue.
RecvCancelKeepsEntry ==
    /\ Head(chan).op = "cancel"
    /\ pending' = [pending EXCEPT ![Head(chan).obj] = Never]
    /\ UNCHANGED q

RecvCancel ==
    /\ Head(chan).op = "cancel"
    /\ LET obj == Head(chan).obj
       IN IF obj \in Pending
          THEN /\ pending' = [pending EXCEPT ![obj] = Never]
               /\ q' = [q EXCEPT ![pending[obj]] = Vacant]
          ELSE UNCHANGED <<pending, q>>

\* Mutant: an object that is pending keeps its time.
RecvRequeueKeepsTime ==
    /\ Head(chan).op = "requeue"
    /\ LET k == Head(chan).obj
       IN IF k \in Pending
          THEN UNCHANGED <<q, pending>>
          ELSE \E key \in FreeSlots :
                  /\ q' = [q EXCEPT ![key] = [obj |-> k, at |-> Head(chan).at]]
                  /\ pending' = [pending EXCEPT ![k] = key]

RecvRequeue ==
    /\ Head(chan).op = "requeue"
    /\ LET k == Head(chan).obj
           at == Head(chan).at
       IN IF k \in Pending
          THEN /\ q' = [q EXCEPT ![pending[k]].at = at]
               /\ UNCHANGED pending
          ELSE \E key \in FreeSlots :
                  /\ q' = [q EXCEPT ![key] = [obj |-> k, at |-> at]]
                  /\ pending' = [pending EXCEPT ![k] = key]

\* One round of the loop.
Recv ==
    /\ ~rx_closed
    /\ chan # <<>>
    /\ RecvClear \/ RecvCancel \/ RecvRequeue
    /\ chan' = Tail(chan)
    /\ UNCHANGED <<now, senders, waiting, rx_closed, ended, dropped, throttled>>

\* Mutant: rx_closed is not set.
RecvNoneForgets ==
    /\ ~rx_closed
    /\ chan = <<>>
    /\ senders = 0
    /\ UNCHANGED vars

\* The channel is empty and no sender is left.
RecvNone ==
    /\ ~rx_closed
    /\ chan = <<>>
    /\ senders = 0
    /\ rx_closed' = TRUE
    /\ UNCHANGED <<now, senders, waiting, chan, q, pending, ended, dropped,
                   throttled>>

\* poll_recv returns Pending, and the loop is left.
Drained == chan = <<>> \/ throttled

\* The delay queue returns an entry that has expired, in no particular order.
Return(k) ==
    /\ Drained
    /\ Pending # {}
    /\ k \in Expired
    /\ q' = [q EXCEPT ![k] = Vacant]
    /\ pending' = [pending EXCEPT ![q[k].obj] = Never]
    /\ UNCHANGED <<now, senders, waiting, chan, rx_closed, ended, dropped,
                   throttled>>

End ==
    /\ rx_closed
    /\ Pending = {}
    /\ ~ended
    /\ ended' = TRUE
    /\ UNCHANGED <<now, senders, waiting, chan, rx_closed, q, pending, dropped,
                   throttled>>

\* The consumer drops the Receiver, and all that it holds.
DropReceiver ==
    /\ ~dropped
    /\ dropped' = TRUE
    /\ chan' = <<>>
    /\ pending' = [o \in Obj |-> Never]
    /\ q' = EmptyQueue
    /\ UNCHANGED <<now, senders, waiting, rx_closed, ended, throttled>>

Pass ==
    /\ now < MaxTime
    /\ now' = now + 1
    /\ UNCHANGED <<senders, waiting, chan, receiverVars>>

-----------------------------------------------------------------------------

Init ==
    /\ now = 0
    /\ senders = 1
    /\ waiting = 0
    /\ chan = <<>>
    /\ rx_closed = FALSE
    /\ q = EmptyQueue
    /\ pending = [o \in Obj |-> Never]
    /\ ended = FALSE
    /\ dropped = FALSE
    /\ throttled \in BOOLEAN

Sending ==
    \/ \E o \in Obj : Cancel(o) \/ \E t \in Time : RequeueAt(o, t)
    \/ ClearAll \/ SendError

Poll ==
    /\ ~dropped
    /\ Recv \/ RecvNone \/ (\E k \in Slot : Return(k)) \/ End

Next ==
    \/ Sends \/ Sending \/ CloneSender \/ DropSender
    \/ Poll \/ DropReceiver \/ Pass

Spec == Init /\ [][Next]_vars

\* The stream is polled when it has been woken, until it is dropped; a send
\* that can go on does; and time passes.
FairSpec == Spec /\ WF_vars(Poll) /\ WF_vars(Sending) /\ WF_vars(Pass)

-----------------------------------------------------------------------------
(* Properties *)

TypeOK ==
    /\ now \in Time
    /\ senders \in 0 .. MaxSenders
    /\ waiting \in 0 .. senders
    /\ chan \in Seq(Ops) /\ Len(chan) <= Capacity
    /\ rx_closed \in BOOLEAN
    /\ q \in [Slot -> [obj : Obj \cup {Never}, at : Time \cup {Never}]]
    /\ pending \in [Obj -> Slot \cup {Never}]
    /\ ended \in BOOLEAN
    /\ dropped \in BOOLEAN
    /\ throttled \in BOOLEAN

\* The map and the delay queue hold the same objects under the same keys, so
\* that no key that the queue has forgotten, or given to another object, is
\* ever removed or reset (either would panic, or lose an object).
Paired ==
    /\ \A o \in Pending : q[pending[o]].obj = o /\ q[pending[o]].at # Never
    /\ \A k \in Slot : q[k] # Vacant =>
                          q[k].obj \in Pending /\ pending[q[k].obj] = k

\* Whether the operation decides when o is due.
Decides(op, o) == op.op = "clear" \/ op.obj = o

\* When o is due, after all operations that were received, and after those in
\* the channel as well.
Received(o) == IF o \in Pending THEN q[pending[o]].at ELSE Never
Due(o) ==
    LET last == {i \in DOMAIN chan :
                    /\ Decides(chan[i], o)
                    /\ \A j \in i + 1 .. Len(chan) : ~Decides(chan[j], o)}
    IN IF last # {}
       THEN LET op == chan[CHOOSE i \in last : TRUE]
            IN IF op.op = "requeue" THEN op.at ELSE Never
       ELSE Received(o)

\* An operation takes effect when it is sent: a poll never returns an object
\* that a later operation cancelled or put off, returns each object once, and
\* ends the stream only when every object was returned.  Where the cooperative
\* budget may cut the loop short it takes effect when it is received.
Abstract == INSTANCE Schedule WITH
                due <- [o \in Obj |-> IF throttled THEN Received(o) ELSE Due(o)],
                open <- ~dropped /\ IF throttled THEN ~rx_closed ELSE senders > 0
ImplementsSchedule == Abstract!Spec

\* Once the senders are gone everything that is still scheduled is returned
\* and the stream ends (as in the test drains_after_sender_dropped), unless it
\* is dropped.
DrainsAndEnds == senders = 0 ~> ended \/ dropped

\* A full channel holds senders up only until the stream is polled or dropped:
\* they are never left waiting all together.
SendersProceed ==
    waiting > 0 /\ waiting = senders ~> waiting < senders \/ senders = 0
=============================================================================
