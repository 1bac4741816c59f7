---------------------------- MODULE RequeueProofs ----------------------------
(***************************************************************************)
(* The Receiver's map and its delay queue agree, and the channel and the   *)
(* Receiver implement Schedule, for any number of objects, senders and     *)
(* slots, and any capacity.                                                *)
(***************************************************************************)
EXTENDS Requeue, WellFoundedInduction, TLAPS

Entry == [obj : Obj \cup {Never}, at : Time \cup {Never}]

QueueOK ==
    /\ q \in [Slot -> Entry]
    /\ pending \in [Obj -> Slot \cup {Never}]

ChanOK == chan \in Seq(Ops) /\ Len(chan) <= Capacity

Others ==
    /\ now \in Time
    /\ senders \in 0 .. MaxSenders
    /\ waiting \in 0 .. senders
    /\ rx_closed \in BOOLEAN
    /\ ended \in BOOLEAN
    /\ dropped \in BOOLEAN
    /\ throttled \in BOOLEAN

Inv == QueueOK /\ ChanOK /\ Others /\ Paired

LEMMA NeverDistinct ==
    /\ Never \notin Slot
    /\ Never \notin Obj
    /\ Never \notin Time
  <1>1. \A t \in Time : t \in Nat
    BY RequeueAssumption DEF Time
  <1> QED
    BY Zenon, <1>1, RequeueAssumption

\* What the fields of an operation are.
LEMMA OpFields ==
    ASSUME NEW op \in Ops
    PROVE  /\ op.op \in {"requeue", "cancel", "clear"}
           /\ op.op \in {"requeue", "cancel"} => op.obj \in Obj
           /\ op.op = "requeue" => op.at \in Time
  <1>1. \/ \E o \in Obj, t \in Time : op = RequeueOp(o, t)
        \/ \E o \in Obj : op = CancelOp(o)
        \/ op = ClearOp
    BY DEF Ops
  <1>2. ASSUME NEW o \in Obj, NEW t \in Time, op = RequeueOp(o, t)
        PROVE  op.op = "requeue" /\ op.obj \in Obj /\ op.at \in Time
    BY <1>2 DEF RequeueOp
  <1>3. ASSUME NEW o \in Obj, op = CancelOp(o)
        PROVE  op.op = "cancel" /\ op.obj \in Obj
    BY <1>3 DEF CancelOp
  <1>4. op = ClearOp => op.op = "clear"
    BY DEF ClearOp
  <1> QED
    BY <1>1, <1>2, <1>3, <1>4

\* The head of a channel that is not empty, and the rest of it.
LEMMA ChanHead ==
    ASSUME ChanOK, chan # <<>>
    PROVE  /\ Head(chan) \in Ops
           /\ Tail(chan) \in Seq(Ops)
           /\ Len(Tail(chan)) <= Capacity
  BY RequeueAssumption DEF ChanOK

\* An empty map and an empty queue.
LEMMA EmptyPaired ==
    ASSUME pending' = [o \in Obj |-> Never], q' = EmptyQueue
    PROVE  QueueOK' /\ Paired'
  BY NeverDistinct
     DEF QueueOK, Paired, Pending, EmptyQueue, Vacant, Entry

\* An entry is taken out, with its key.
LEMMA RemovePaired ==
    ASSUME QueueOK, Paired, NEW o \in Pending,
           pending' = [pending EXCEPT ![o] = Never],
           q' = [q EXCEPT ![pending[o]] = Vacant]
    PROVE  QueueOK' /\ Paired'
  BY NeverDistinct DEF QueueOK, Paired, Pending, Vacant, Entry

\* An object gets an entry in a free slot.
LEMMA InsertPaired ==
    ASSUME QueueOK, Paired, NEW o \in Obj \ Pending, NEW t \in Time,
           NEW key \in FreeSlots,
           pending' = [pending EXCEPT ![o] = key],
           q' = [q EXCEPT ![key] = [obj |-> o, at |-> t]]
    PROVE  QueueOK' /\ Paired'
  BY NeverDistinct DEF QueueOK, Paired, Pending, FreeSlots, Vacant, Entry

\* An entry gets another time.
LEMMA ResetPaired ==
    ASSUME QueueOK, Paired, NEW o \in Pending, NEW t \in Time,
           UNCHANGED pending, q' = [q EXCEPT ![pending[o]].at = t]
    PROVE  QueueOK' /\ Paired'
  BY NeverDistinct DEF QueueOK, Paired, Pending, Vacant, Entry

-----------------------------------------------------------------------------

LEMMA InvInit == Init => Inv
  <1> SUFFICES ASSUME Init PROVE Inv
    OBVIOUS
  <1>1. QueueOK /\ Paired
    BY NeverDistinct
       DEF Init, QueueOK, Paired, Pending, EmptyQueue, Vacant, Entry
  <1>2. ChanOK
    BY RequeueAssumption DEF Init, ChanOK
  <1>3. /\ rx_closed \in BOOLEAN /\ ended \in BOOLEAN /\ dropped \in BOOLEAN
        /\ throttled \in BOOLEAN
    BY Zenon DEF Init
  <1>4. Others
    BY <1>3, RequeueAssumption DEF Init, Others, Time
  <1> QED
    BY <1>1, <1>2, <1>4 DEF Inv

\* One round of the loop of poll_requeued.
LEMMA RecvPaired ==
    ASSUME Inv, Recv
    PROVE  QueueOK' /\ Paired'
  <1> DEFINE op == Head(chan)
  <1>1. op \in Ops
    BY ChanHead DEF Inv, Recv
  <1>2. /\ op.op \in {"requeue", "cancel", "clear"}
        /\ op.op \in {"requeue", "cancel"} => op.obj \in Obj
        /\ op.op = "requeue" => op.at \in Time
    BY <1>1, OpFields
  <1>3. UNCHANGED <<q, pending>> => QueueOK' /\ Paired'
    BY DEF Inv, QueueOK, Paired, Pending
  <1>4. CASE RecvClear
    BY <1>4, EmptyPaired DEF RecvClear
  <1>5. CASE RecvCancel
    <2>1. CASE op.obj \in Pending
      BY <1>5, <2>1, RemovePaired DEF Inv, RecvCancel
    <2>2. CASE op.obj \notin Pending
      BY <1>3, <1>5, <2>2 DEF RecvCancel
    <2> QED
      BY <2>1, <2>2
  <1>6. CASE RecvRequeue
    <2>1. op.obj \in Obj /\ op.at \in Time
      BY <1>2, <1>6 DEF RecvRequeue
    <2>2. CASE op.obj \in Pending
      BY <1>6, <2>1, <2>2, ResetPaired DEF Inv, RecvRequeue
    <2>3. CASE op.obj \notin Pending
      <3>1. PICK key \in FreeSlots :
               /\ q' = [q EXCEPT ![key] = [obj |-> op.obj, at |-> op.at]]
               /\ pending' = [pending EXCEPT ![op.obj] = key]
        BY <1>6, <2>3 DEF RecvRequeue
      <3> QED
        BY ZenonT(30), <2>1, <2>3, <3>1, InsertPaired DEF Inv
    <2> QED
      BY <2>2, <2>3
  <1> QED
    BY <1>4, <1>5, <1>6 DEF Recv

\* An expired entry is returned.
LEMMA ReturnPaired ==
    ASSUME Inv, NEW k \in Slot, Return(k)
    PROVE  QueueOK' /\ Paired'
  <1> DEFINE o == q[k].obj
  <1>1. o \in Pending /\ pending[o] = k
    BY DEF Inv, Paired, Return, Expired
  <1> QED
    BY ZenonT(30), <1>1, RemovePaired DEF Inv, Return

\* The senders touch neither the map nor the queue.
LEMMA SendInv ==
    ASSUME Inv, Sends \/ Sending \/ CloneSender \/ DropSender
    PROVE  Inv'
  <1>1. UNCHANGED <<now, receiverVars>>
    BY DEF Sends, Sending, CloneSender, DropSender, RequeueAt, Cancel, ClearAll,
           Send, SendError
  <1>2. QueueOK' /\ Paired'
    BY <1>1 DEF Inv, QueueOK, Paired, Pending, receiverVars
  <1>3. senders' \in 0 .. MaxSenders /\ waiting' \in 0 .. senders'
    BY RequeueAssumption
       DEF Inv, Others, Sends, Sending, CloneSender, DropSender, RequeueAt,
           Cancel, ClearAll, Send, SendError
  <1>4. Others'
    BY Zenon, <1>1, <1>3 DEF Inv, Others, receiverVars
  <1>5. UNCHANGED chan \/ \E op \in Ops : Send(op)
    BY DEF Sends, Sending, CloneSender, DropSender, RequeueAt, Cancel, ClearAll,
           SendError, Ops
  <1>6. ChanOK'
    BY <1>5, RequeueAssumption DEF Inv, ChanOK, Send
  <1> QED
    BY <1>2, <1>4, <1>6 DEF Inv

LEMMA ReceiverInv ==
    ASSUME Inv, Poll \/ DropReceiver \/ Pass
    PROVE  Inv'
  <1>1. QueueOK' /\ Paired'
    <2>1. CASE UNCHANGED <<q, pending>>
      BY <2>1 DEF Inv, QueueOK, Paired, Pending
    <2>2. RecvNone \/ End \/ Pass => UNCHANGED <<q, pending>>
      BY DEF RecvNone, End, Pass, receiverVars
    <2> QED
      BY <2>1, <2>2, RecvPaired, ReturnPaired, EmptyPaired DEF Poll, DropReceiver
  <1>2. ChanOK'
    <2>1. CASE Recv
      BY <2>1, ChanHead DEF Inv, ChanOK, Recv
    <2>2. UNCHANGED chan => ChanOK'
      BY DEF Inv, ChanOK
    <2>3. chan' = <<>> => ChanOK'
      BY RequeueAssumption DEF ChanOK
    <2> QED
      BY <2>1, <2>2, <2>3
         DEF Poll, DropReceiver, Pass, RecvNone, Return, End
  <1>3. UNCHANGED <<senders, waiting>>
    BY DEF Poll, DropReceiver, Pass, Recv, RecvNone, Return, End
  <1>4. /\ rx_closed' \in BOOLEAN /\ ended' \in BOOLEAN /\ dropped' \in BOOLEAN
        /\ throttled' \in BOOLEAN
    BY Zenon DEF Inv, Others, Poll, DropReceiver, Pass, Recv, RecvNone, Return,
                 End, receiverVars
  <1>5. now' \in Time
    BY SMTT(30), RequeueAssumption
       DEF Inv, Others, Poll, DropReceiver, Pass, Recv, RecvNone, Return, End, Time
  <1> QED
    BY <1>1, <1>2, <1>3, <1>4, <1>5 DEF Inv, Others

LEMMA InvAlways == Spec => []Inv
  <1>1. Inv /\ [Next]_vars => Inv'
    <2>1. ASSUME Inv, UNCHANGED vars
          PROVE  Inv'
      BY <2>1 DEF vars, receiverVars, Inv, QueueOK, ChanOK, Others, Paired, Pending
    <2> QED
      BY <2>1, SendInv, ReceiverInv DEF Next
  <1> QED
    BY <1>1, InvInit, PTL DEF Spec

\* The channel is never over its capacity, and nothing leaves its type.
THEOREM TypeCorrect == Spec => []TypeOK
  <1>1. Inv => TypeOK
    BY Zenon DEF Inv, QueueOK, ChanOK, Others, TypeOK, Entry
  <1> QED
    BY <1>1, InvAlways, PTL

\* No key in the map is unknown to the delay queue, or another object's: remove
\* and reset_at (requeue.rs:89, 96) never panic, and lose no object.
THEOREM KeysPaired == Spec => []Paired
  <1>1. Inv => Paired
    BY DEF Inv
  <1> QED
    BY <1>1, InvAlways, PTL

-----------------------------------------------------------------------------
(* The refinement of Schedule.  When an object is due is a function of the *)
(* channel's contents and of what the receiver holds for it: DueOf.  It    *)
(* changes when an operation is appended, and stays when one is received.  *)

\* When the operation says that the objects it decides for are due.
Says(op) == IF op.op = "requeue" THEN op.at ELSE Never

Last(ch, o) == {i \in DOMAIN ch :
                   /\ Decides(ch[i], o)
                   /\ \A j \in i + 1 .. Len(ch) : ~Decides(ch[j], o)}

DueOf(ch, r, o) == IF Last(ch, o) # {}
                   THEN Says(ch[CHOOSE i \in Last(ch, o) : TRUE])
                   ELSE r

LEMMA DueIsDueOf ==
    ASSUME NEW o \in Obj
    PROVE  /\ Due(o) = DueOf(chan, Received(o), o)
           /\ Due(o)' = DueOf(chan', Received(o)', o)
  BY Zenon DEF Due, DueOf, Last, Says

\* The last operation that decides is the one that counts.
LEMMA DueOfLast ==
    ASSUME NEW ch \in Seq(Ops), NEW o, NEW r, NEW i \in Last(ch, o)
    PROVE  DueOf(ch, r, o) = Says(ch[i])
  <1>1. \A k \in Last(ch, o) : k = i
    BY DEF Last
  <1>2. (CHOOSE k \in Last(ch, o) : TRUE) = i
    BY Zenon, <1>1
  <1> QED
    BY Zenon, <1>2 DEF DueOf

\* If any operation decides then there is a last one.
LEMMA LastExists ==
    ASSUME NEW ch \in Seq(Ops), NEW o, NEW i \in DOMAIN ch, Decides(ch[i], o)
    PROVE  Last(ch, o) # {}
  <1> DEFINE T == {n \in Nat : n < Len(ch) /\ Decides(ch[Len(ch) - n], o)}
  <1>1. Len(ch) - i \in T
    <2>1. i = Len(ch) - (Len(ch) - i)
      OBVIOUS
    <2> QED
      BY <2>1
  <1>2. PICK n \in T : \A m \in T : <<m, n>> \notin OpToRel(<, Nat)
    BY Zenon, <1>1, WFMin, NatLessThanWellFounded
  <1>3. \A m \in T : ~(m < n)
    BY Zenon, <1>2 DEF OpToRel
  <1>4. n \in Nat /\ n < Len(ch) /\ Decides(ch[Len(ch) - n], o)
    OBVIOUS
  <1>5. ASSUME NEW j \in Len(ch) - n + 1 .. Len(ch)
        PROVE  ~Decides(ch[j], o)
    <2>1. Len(ch) - j \in Nat /\ Len(ch) - j < n /\ Len(ch) - j < Len(ch)
      BY <1>4, <1>5
    <2>2. j = Len(ch) - (Len(ch) - j)
      BY <1>5
    <2> QED
      BY <1>3, <2>1, <2>2
  <1>6. Len(ch) - n \in Last(ch, o)
    BY <1>4, <1>5 DEF Last
  <1> QED
    BY Zenon, <1>6

\* An operation that is sent decides from then on.
LEMMA DueOfAppend ==
    ASSUME NEW ch \in Seq(Ops), NEW op \in Ops, NEW o, NEW r
    PROVE  DueOf(Append(ch, op), r, o) =
             IF Decides(op, o) THEN Says(op) ELSE DueOf(ch, r, o)
  <1> DEFINE c == Append(ch, op)
  <1>1. /\ c \in Seq(Ops) /\ Len(c) = Len(ch) + 1 /\ c[Len(c)] = op
        /\ DOMAIN c = 1 .. Len(ch) + 1 /\ DOMAIN ch = 1 .. Len(ch)
        /\ \A i \in 1 .. Len(ch) : c[i] = ch[i]
        /\ Len(ch) \in Nat
    OBVIOUS
  <1> HIDE DEF c
  <1>2. CASE Decides(op, o)
    <2>1. Len(c) \in Last(c, o)
      BY <1>1, <1>2 DEF Last
    <2> QED
      BY ZenonT(30), <1>1, <1>2, <2>1, DueOfLast DEF c
  <1>3. CASE ~Decides(op, o)
    <2>1. Last(c, o) = Last(ch, o)
      <3>1. ASSUME NEW i \in Last(c, o) PROVE i \in Last(ch, o)
        BY <1>1, <1>3, <3>1 DEF Last
      <3>2. ASSUME NEW i \in Last(ch, o) PROVE i \in Last(c, o)
        <4>1. i \in 1 .. Len(ch) /\ Decides(c[i], o)
          BY <1>1, <3>2 DEF Last
        <4>2. ASSUME NEW j \in i + 1 .. Len(c) PROVE ~Decides(c[j], o)
          <5>1. CASE j = Len(c)
            BY Zenon, <1>1, <1>3, <5>1
          <5>2. CASE j # Len(c)
            <6>1. j \in i + 1 .. Len(ch) /\ j \in 1 .. Len(ch)
              BY <1>1, <4>1, <4>2, <5>2
            <6> QED
              BY Zenon, <1>1, <6>1 DEF Last
          <5> QED
            BY <5>1, <5>2
        <4> QED
          BY <1>1, <4>1, <4>2 DEF Last
      <3> QED
        BY Zenon, <3>1, <3>2
    <2>2. ASSUME NEW i \in Last(ch, o) PROVE c[i] = ch[i]
      BY <1>1, <2>2 DEF Last
    <2>3. CASE Last(ch, o) = {}
      BY Zenon, <1>3, <2>1, <2>3 DEF DueOf, c
    <2>4. CASE Last(ch, o) # {}
      <3>1. PICK i \in Last(ch, o) : TRUE
        BY Zenon, <2>4
      <3>2. DueOf(c, r, o) = Says(c[i]) /\ DueOf(ch, r, o) = Says(ch[i])
        BY Zenon, <1>1, <2>1, <3>1, DueOfLast
      <3> QED
        BY Zenon, <1>3, <2>2, <3>1, <3>2 DEF c
    <2> QED
      BY Zenon, <2>3, <2>4
  <1> QED
    BY <1>2, <1>3

\* To receive an operation changes nothing, if what the receiver then holds for
\* the objects that it decides for is what it says.
LEMMA DueOfTail ==
    ASSUME NEW ch \in Seq(Ops), ch # <<>>, NEW o, NEW r
    PROVE  DueOf(Tail(ch), IF Decides(Head(ch), o) THEN Says(Head(ch)) ELSE r, o)
             = DueOf(ch, r, o)
  <1> DEFINE c == Tail(ch)
             s == IF Decides(Head(ch), o) THEN Says(Head(ch)) ELSE r
  <1>1. /\ c \in Seq(Ops) /\ Len(c) = Len(ch) - 1 /\ Head(ch) = ch[1]
        /\ DOMAIN c = 1 .. Len(ch) - 1 /\ DOMAIN ch = 1 .. Len(ch)
        /\ \A i \in 1 .. Len(ch) - 1 : c[i] = ch[i + 1]
        /\ Len(ch) \in Nat \ {0}
    OBVIOUS
  <1> HIDE DEF c, s
  <1>2. ASSUME NEW i \in Last(c, o) PROVE i + 1 \in Last(ch, o) /\ c[i] = ch[i + 1]
    <2>1. i \in 1 .. Len(ch) - 1 /\ Decides(c[i], o)
      BY <1>1, <1>2 DEF Last
    <2>2. ASSUME NEW j \in i + 2 .. Len(ch) PROVE ~Decides(ch[j], o)
      <3>1. j - 1 \in i + 1 .. Len(c) /\ j - 1 \in 1 .. Len(ch) - 1 /\ j = (j - 1) + 1
        BY <1>1, <2>1, <2>2
      <3>2. ~Decides(c[j - 1], o)
        BY Zenon, <1>2, <3>1 DEF Last
      <3> QED
        BY SMTT(30), <1>1, <3>1, <3>2
    <2> QED
      BY <1>1, <2>1, <2>2 DEF Last
  <1>3. ASSUME NEW i \in Last(ch, o), i # 1 PROVE Last(c, o) # {}
    <2>1. i \in 2 .. Len(ch) /\ Decides(ch[i], o)
      BY <1>1, <1>3 DEF Last
    <2>2. i - 1 \in DOMAIN c /\ c[i - 1] = ch[i]
      BY <1>1, <2>1
    <2> QED
      BY Zenon, <1>1, <2>1, <2>2, LastExists
  <1>4. CASE Last(c, o) # {}
    <2>1. PICK i \in Last(c, o) : TRUE
      BY Zenon, <1>4
    <2>2. DueOf(c, s, o) = Says(c[i])
      BY ZenonT(30), <1>1, <2>1, DueOfLast
    <2>3. DueOf(ch, r, o) = Says(ch[i + 1])
      BY Zenon, <1>2, <2>1, DueOfLast
    <2> QED
      BY Zenon, <1>2, <2>1, <2>2, <2>3 DEF c, s
  <1>5. CASE Last(c, o) = {}
    <2>1. DueOf(c, s, o) = s
      BY Zenon, <1>5 DEF DueOf
    <2>2. CASE Decides(Head(ch), o)
      <3>1. Last(ch, o) # {}
        BY SMTT(30), <1>1, <2>2, LastExists
      <3>2. 1 \in Last(ch, o)
        BY Zenon, <1>3, <1>5, <3>1
      <3>3. DueOf(ch, r, o) = Says(ch[1])
        BY Zenon, <3>2, DueOfLast
      <3> QED
        BY Zenon, <1>1, <2>1, <2>2, <3>3 DEF c, s
    <2>3. CASE ~Decides(Head(ch), o)
      <3>1. Last(ch, o) = {}
        <4>1. 1 \notin Last(ch, o)
          BY Zenon, <1>1, <2>3 DEF Last
        <4> QED
          BY Zenon, <1>3, <1>5, <4>1
      <3>2. DueOf(ch, r, o) = r
        BY Zenon, <3>1 DEF DueOf
      <3> QED
        BY Zenon, <2>1, <2>3, <3>2 DEF c, s
    <2> QED
      BY Zenon, <2>2, <2>3
  <1> QED
    BY Zenon, <1>4, <1>5

LEMMA DueOfEmpty ==
    ASSUME NEW o, NEW r
    PROVE  DueOf(<<>>, r, o) = r
  <1>1. Last(<<>>, o) = {}
    BY DEF Last
  <1> QED
    BY Zenon, <1>1 DEF DueOf

-----------------------------------------------------------------------------
(* What the receiver holds *)

\* One round of the loop does what the operation says.
LEMMA RecvReceived ==
    ASSUME Inv, Recv, NEW o \in Obj
    PROVE  Received(o)' = IF Decides(Head(chan), o) THEN Says(Head(chan))
                                                    ELSE Received(o)
  <1> DEFINE op == Head(chan)
  <1>1. op \in Ops
    BY ChanHead DEF Inv, Recv
  <1>2. /\ op.op \in {"requeue", "cancel", "clear"}
        /\ op.op \in {"requeue", "cancel"} => op.obj \in Obj
        /\ op.op = "requeue" => op.at \in Time
    BY <1>1, OpFields
  <1> HIDE DEF op
  <1>3. CASE RecvClear
    BY <1>3 DEF RecvClear, Received, Pending, Decides, Says
  <1>4. CASE RecvCancel
    <2>1. op.op = "cancel" /\ op.obj \in Obj
      BY <1>2, <1>4 DEF RecvCancel, op
    <2>2. CASE op.obj \in Pending
      <3>1. /\ pending' = [pending EXCEPT ![op.obj] = Never]
            /\ q' = [q EXCEPT ![pending[op.obj]] = Vacant]
        BY <1>4, <2>2 DEF RecvCancel, op
      <3> QED
        BY SMTT(30), <2>1, <2>2, <3>1, NeverDistinct
           DEF Inv, QueueOK, Paired, Received, Pending, Decides, Says, op
    <2>3. CASE op.obj \notin Pending
      <3>1. UNCHANGED <<pending, q>>
        BY <1>4, <2>3 DEF RecvCancel, op
      <3> QED
        BY <2>1, <2>3, <3>1 DEF Received, Pending, Decides, Says, op
    <2> QED
      BY Zenon, <2>2, <2>3
  <1>5. CASE RecvRequeue
    <2>1. op.op = "requeue" /\ op.obj \in Obj /\ op.at \in Time
      BY SMTT(30), <1>2, <1>5 DEF RecvRequeue, op
    <2>2. CASE op.obj \in Pending
      <3>1. UNCHANGED pending /\ q' = [q EXCEPT ![pending[op.obj]].at = op.at]
        BY <1>5, <2>2 DEF RecvRequeue, op
      <3> QED
        BY <2>1, <2>2, <3>1, NeverDistinct
           DEF Inv, QueueOK, Paired, Received, Pending, Decides, Says, op, Entry
    <2>3. CASE op.obj \notin Pending
      <3>1. PICK key \in FreeSlots :
               /\ q' = [q EXCEPT ![key] = [obj |-> op.obj, at |-> op.at]]
               /\ pending' = [pending EXCEPT ![op.obj] = key]
        BY <1>5, <2>3 DEF RecvRequeue, op
      <3> QED
        BY <2>1, <2>3, <3>1, NeverDistinct
           DEF Inv, QueueOK, Paired, Received, Pending, Decides, Says, op, Entry,
               FreeSlots, Vacant
    <2> QED
      BY Zenon, <2>2, <2>3
  <1> QED
    BY <1>3, <1>4, <1>5 DEF Recv

\* An object whose entry has expired is due no more once it is returned.
LEMMA ReturnReceived ==
    ASSUME Inv, NEW k \in Slot, Return(k)
    PROVE  /\ q[k].obj \in Obj
           /\ Received(q[k].obj) # Never /\ Received(q[k].obj) <= now
           /\ \A o \in Obj : Received(o)' = IF o = q[k].obj THEN Never ELSE Received(o)
  <1> DEFINE o == q[k].obj
  <1>1. o \in Pending /\ pending[o] = k /\ q[k].at <= now /\ q[k].at # Never
    BY SMTT(30) DEF Inv, Paired, Return, Expired
  <1>2. o \in Obj
    BY <1>1 DEF Pending
  <1>3. Received(o) = q[k].at
    BY Zenon, <1>1 DEF Received
  <1>4. ASSUME NEW p \in Obj
        PROVE  Received(p)' = IF p = o THEN Never ELSE Received(p)
    BY <1>1, <1>2, NeverDistinct
       DEF Inv, QueueOK, Paired, Return, Received, Pending
  <1> QED
    BY SMTT(30), <1>1, <1>2, <1>3, <1>4

-----------------------------------------------------------------------------
(* The steps of Schedule *)

\* The refinement mapping of Abstract.
DueBar == [o \in Obj |-> IF throttled THEN Received(o) ELSE Due(o)]
OpenBar == ~dropped /\ IF throttled THEN ~rx_closed ELSE senders > 0

AbstractStep == [Abstract!Next]_<<now, DueBar, OpenBar, ended>>

\* An operation takes effect.
LEMMA Takes ==
    ASSUME NEW op \in Ops, OpenBar, OpenBar' = OpenBar, UNCHANGED <<now, ended>>,
           \A o \in Obj : DueBar'[o] = IF Decides(op, o) THEN Says(op) ELSE DueBar[o]
    PROVE  Abstract!Next
  <1>1. CASE op.op = "clear"
    <2>1. DueBar' = [o \in Obj |-> Never]
      BY <1>1 DEF DueBar, Decides, Says
    <2> QED
      BY Zenon, <2>1 DEF DueBar, OpenBar, Abstract!Next, Abstract!Clear
  <1>2. CASE op.op # "clear"
    <2>1. op.obj \in Obj /\ Says(op) \in Time \cup {Never}
      BY <1>2, OpFields DEF Says
    <2>2. DueBar' = [DueBar EXCEPT ![op.obj] = Says(op)]
      BY ZenonT(30), <1>2, <2>1 DEF DueBar, Decides
    <2>3. Abstract!Set(op.obj, Says(op))
      BY Zenon, <2>2 DEF DueBar, OpenBar, Abstract!Set
    <2> QED
      BY Zenon, <2>1, <2>3 DEF Abstract!Next
  <1> QED
    BY Zenon, <1>1, <1>2

LEMMA Stutters ==
    ASSUME UNCHANGED <<now, ended>>, OpenBar' = OpenBar,
           \A o \in Obj : DueBar'[o] = DueBar[o]
    PROVE  AbstractStep
  <1>1. DueBar' = DueBar
    BY DEF DueBar
  <1> QED
    BY Zenon, <1>1 DEF AbstractStep

LEMMA Closes ==
    ASSUME UNCHANGED <<now, ended>>, OpenBar, ~OpenBar',
           \A o \in Obj : DueBar'[o] = DueBar[o]
    PROVE  Abstract!Next
  <1>1. DueBar' = DueBar
    BY DEF DueBar
  <1>2. OpenBar' = FALSE
    BY DEF OpenBar
  <1> QED
    BY Zenon, <1>1, <1>2 DEF DueBar, OpenBar, Abstract!Next, Abstract!Close

LEMMA DueBarAt ==
    ASSUME NEW o \in Obj
    PROVE  /\ DueBar[o] = IF throttled THEN Received(o) ELSE Due(o)
           /\ DueBar'[o] = IF throttled' THEN Received(o)' ELSE Due(o)'
  BY Zenon DEF DueBar

\* What neither the channel nor the receiver changes in.
LEMMA SameDue ==
    ASSUME UNCHANGED <<chan, q, pending, throttled>>
    PROVE  \A o \in Obj : DueBar'[o] = DueBar[o]
  <1> TAKE o \in Obj
  <1>1. Received(o)' = Received(o)
    BY Zenon DEF Received, Pending
  <1> QED
    BY Zenon, <1>1, DueIsDueOf, DueBarAt

\* poll_recv has returned None only after the last sender was dropped, and
\* with nothing left in the channel.
Shut == rx_closed => senders = 0 /\ chan = <<>>

LEMMA ShutAlways == Spec => []Shut
  <1>1. Init => Shut
    BY SMTT(30) DEF Init, Shut
  <1>2. Inv /\ Shut /\ [Next]_vars => Shut'
    <2> SUFFICES ASSUME Inv, Shut, [Next]_vars PROVE Shut'
      OBVIOUS
    <2>1. waiting \in 0 .. senders /\ senders \in Nat
      BY DEF Inv, Others
    <2>2. UNCHANGED <<senders, chan, rx_closed>> => Shut'
      BY DEF Shut
    <2>3. CASE Sends \/ SendError \/ (\E k \in Slot : Return(k)) \/ End \/ Pass
               \/ UNCHANGED vars
      BY Zenon, <2>2, <2>3
         DEF Sends, SendError, Return, End, Pass, vars, receiverVars
    <2>4. ASSUME NEW op, Send(op) PROVE Shut'
      BY <2>1, <2>4 DEF Send, Shut, receiverVars
    <2>5. CASE CloneSender \/ DropSender
      <3>1. senders > 0
        BY <2>1, <2>5 DEF CloneSender, DropSender
      <3>2. ~rx_closed
        BY <3>1 DEF Shut
      <3>3. UNCHANGED rx_closed
        BY Zenon, <2>5 DEF CloneSender, DropSender, receiverVars
      <3> QED
        BY Zenon, <3>2, <3>3 DEF Shut
    <2>6. CASE Recv \/ RecvNone \/ DropReceiver
      BY ZenonT(30), <2>6 DEF Recv, RecvNone, DropReceiver, Shut
    <2> QED
      BY Zenon, <2>3, <2>4, <2>5, <2>6
         DEF Next, Sending, Poll, RequeueAt, Cancel, ClearAll
  <1> QED
    BY <1>1, <1>2, InvAlways, PTL DEF Spec

-----------------------------------------------------------------------------

LEMMA SendStep ==
    ASSUME Inv, NEW op \in Ops, Send(op)
    PROVE  AbstractStep
  <1>1. /\ UNCHANGED <<now, senders, rx_closed, q, pending, ended, dropped, throttled>>
        /\ chan' = Append(chan, op) /\ chan \in Seq(Ops) /\ ~dropped
    BY Zenon DEF Send, Inv, ChanOK, receiverVars
  <1>2. senders > 0
    BY DEF Send, Inv, Others
  <1>3. OpenBar' = OpenBar
    BY Zenon, <1>1 DEF OpenBar
  <1>4. \A o \in Obj : Received(o)' = Received(o)
    BY Zenon, <1>1 DEF Received, Pending
  <1>5. CASE throttled
    BY Zenon, <1>1, <1>3, <1>4, <1>5, DueBarAt, Stutters
  <1>6. CASE ~throttled
    <2>1. ASSUME NEW o \in Obj
          PROVE  Due(o)' = IF Decides(op, o) THEN Says(op) ELSE Due(o)
      <3>1. Due(o)' = DueOf(Append(chan, op), Received(o), o)
        BY Zenon, <1>1, <1>4, DueIsDueOf
      <3>2. Due(o) = DueOf(chan, Received(o), o)
        BY Zenon, DueIsDueOf
      <3> QED
        BY Zenon, <1>1, <3>1, <3>2, DueOfAppend
    <2>2. OpenBar
      BY Zenon, <1>1, <1>2, <1>6 DEF OpenBar
    <2>3. ASSUME NEW o \in Obj
          PROVE  DueBar'[o] = IF Decides(op, o) THEN Says(op) ELSE DueBar[o]
      BY Zenon, <1>1, <1>6, <2>1, DueBarAt
    <2> QED
      BY ZenonT(30), <1>1, <1>3, <2>2, <2>3, Takes DEF AbstractStep
  <1> QED
    BY Zenon, <1>5, <1>6

LEMMA RecvStep ==
    ASSUME Inv, ~dropped, Recv
    PROVE  AbstractStep
  <1> DEFINE op == Head(chan)
  <1>1. /\ UNCHANGED <<now, senders, rx_closed, ended, dropped, throttled>>
        /\ chan' = Tail(chan) /\ chan \in Seq(Ops) /\ chan # <<>> /\ ~rx_closed
    BY Zenon DEF Recv, Inv, ChanOK
  <1>2. op \in Ops
    BY Zenon, ChanHead, <1>1 DEF Inv
  <1>3. OpenBar' = OpenBar
    BY Zenon, <1>1 DEF OpenBar
  <1>4. \A o \in Obj : Received(o)' = IF Decides(op, o) THEN Says(op) ELSE Received(o)
    BY Zenon, RecvReceived
  <1>5. CASE throttled
    <2>1. OpenBar
      BY ZenonT(30), <1>1, <1>5 DEF OpenBar
    <2>2. ASSUME NEW o \in Obj
          PROVE  DueBar'[o] = IF Decides(op, o) THEN Says(op) ELSE DueBar[o]
      BY Zenon, <1>1, <1>4, <1>5, DueBarAt
    <2> QED
      BY Zenon, <1>1, <1>2, <1>3, <2>1, <2>2, Takes DEF AbstractStep
  <1>6. CASE ~throttled
    <2>1. ASSUME NEW o \in Obj PROVE Due(o)' = Due(o)
      <3>1. Due(o)' = DueOf(Tail(chan), Received(o)', o)
        BY Zenon, <1>1, DueIsDueOf
      <3>2. Due(o) = DueOf(chan, Received(o), o)
        BY Zenon, DueIsDueOf
      <3>3. Received(o)' = IF Decides(Head(chan), o) THEN Says(Head(chan))
                                                     ELSE Received(o)
        BY Zenon, <1>4
      <3> QED
        BY ZenonT(30), <1>1, <3>1, <3>2, <3>3, DueOfTail
    <2>2. \A o \in Obj : DueBar'[o] = DueBar[o]
      BY Zenon, <1>1, <1>6, <2>1, DueBarAt
    <2> QED
      BY ZenonT(30), <1>1, <1>3, <2>2, Stutters
  <1> QED
    BY Zenon, <1>5, <1>6

LEMMA ReturnStep ==
    ASSUME Inv, NEW k \in Slot, Return(k)
    PROVE  AbstractStep
  <1> DEFINE o == q[k].obj
  <1>1. /\ UNCHANGED <<now, senders, chan, rx_closed, ended, dropped, throttled>>
        /\ chan = <<>> \/ throttled
    BY Zenon DEF Return, Drained
  <1>2. o \in Obj /\ Received(o) # Never /\ Received(o) <= now
    BY Zenon, ReturnReceived
  <1>3. \A p \in Obj : Received(p)' = IF p = o THEN Never ELSE Received(p)
    BY Zenon, ReturnReceived
  <1>4. \A p \in Obj : DueBar[p] = Received(p) /\ DueBar'[p] = Received(p)'
    <2> TAKE p \in Obj
    <2>1. CASE throttled
      BY Zenon, <1>1, <2>1, DueBarAt
    <2>2. CASE ~throttled
      <3>1. Due(p) = Received(p) /\ Due(p)' = Received(p)'
        <4>1. chan = <<>> /\ chan' = <<>>
          BY Zenon, <1>1, <2>2
        <4>2. Due(p) = DueOf(<<>>, Received(p), p)
          BY Zenon, <4>1, DueIsDueOf
        <4>3. Due(p)' = DueOf(<<>>, Received(p)', p)
          BY Zenon, <4>1, DueIsDueOf
        <4> QED
          BY Zenon, <4>2, <4>3, DueOfEmpty
      <3> QED
        BY Zenon, <1>1, <2>2, <3>1, DueBarAt
    <2> QED
      BY Zenon, <2>1, <2>2
  <1>5. OpenBar' = OpenBar
    BY Zenon, <1>1 DEF OpenBar
  <1> HIDE DEF o
  <1>6. DueBar' = [DueBar EXCEPT ![o] = Never]
    BY ZenonT(30), <1>2, <1>3, <1>4 DEF DueBar
  <1>7. DueBar[o] # Never /\ DueBar[o] <= now
    BY Zenon, <1>2, <1>4
  <1>8. Abstract!Return(o)
    BY Zenon, <1>1, <1>2, <1>5, <1>6, <1>7
       DEF DueBar, OpenBar, Abstract!Return, Abstract!Scheduled
  <1> QED
    BY ZenonT(30), <1>2, <1>8 DEF AbstractStep, Abstract!Next

LEMMA EndStep ==
    ASSUME Inv, Shut, End
    PROVE  AbstractStep
  <1>1. /\ UNCHANGED <<now, senders, chan, rx_closed, q, pending, dropped, throttled>>
        /\ rx_closed /\ Pending = {} /\ ended' = TRUE
    BY Zenon DEF End
  <1>2. chan = <<>> /\ senders = 0
    BY Zenon, <1>1 DEF Shut
  <1>3. ~OpenBar
    BY <1>1, <1>2 DEF OpenBar
  <1>4. OpenBar' = OpenBar
    BY Zenon, <1>1 DEF OpenBar
  <1>5. \A o \in Obj : DueBar[o] = Never
    <2> TAKE o \in Obj
    <2>1. Received(o) = Never
      BY Zenon, <1>1 DEF Received
    <2>2. Due(o) = Never
      BY Zenon, <1>2, <2>1, DueIsDueOf, DueOfEmpty
    <2> QED
      BY Zenon, <2>1, <2>2, DueBarAt
  <1>6. DueBar' = DueBar
    <2>1. \A o \in Obj : DueBar'[o] = DueBar[o]
      BY Zenon, <1>1, SameDue
    <2> QED
      BY <2>1 DEF DueBar
  <1>7. {o \in Obj : DueBar[o] # Never} = {}
    BY Zenon, <1>5
  <1>8. Abstract!End
    BY Zenon, <1>1, <1>3, <1>4, <1>6, <1>7
       DEF DueBar, OpenBar, Abstract!End, Abstract!Scheduled
  <1> QED
    BY Zenon, <1>8 DEF AbstractStep, Abstract!Next

LEMMA DropReceiverStep ==
    ASSUME DropReceiver
    PROVE  AbstractStep
  <1>1. /\ UNCHANGED <<now, ended, throttled>> /\ dropped' = TRUE /\ chan' = <<>>
        /\ pending' = [o \in Obj |-> Never]
    BY Zenon DEF DropReceiver
  <1>2. \A o \in Obj : Received(o)' = Never
    BY <1>1 DEF Received, Pending
  <1>3. \A o \in Obj : DueBar'[o] = Never
    BY Zenon, <1>1, <1>2, DueIsDueOf, DueOfEmpty, DueBarAt
  <1>4. DueBar' = [o \in Obj |-> Never]
    BY <1>3 DEF DueBar
  <1>5. OpenBar' = FALSE
    BY <1>1 DEF OpenBar
  <1>6. Abstract!Discard
    BY Zenon, <1>1, <1>4, <1>5 DEF DueBar, OpenBar, Abstract!Discard
  <1> QED
    BY ZenonT(30), <1>6 DEF AbstractStep, Abstract!Next

LEMMA SendersStep ==
    ASSUME Inv, Sends \/ SendError \/ CloneSender \/ DropSender
    PROVE  AbstractStep
  <1>1. UNCHANGED <<now, chan, rx_closed, q, pending, ended, dropped, throttled>>
    BY Zenon DEF Sends, SendError, CloneSender, DropSender, receiverVars
  <1>2. \A o \in Obj : DueBar'[o] = DueBar[o]
    BY Zenon, <1>1, SameDue
  <1>3. CASE OpenBar' = OpenBar
    BY Zenon, <1>1, <1>2, <1>3, Stutters
  <1>4. senders' > 0 => senders > 0
    BY DEF Inv, Others, Sends, SendError, CloneSender, DropSender
  <1>5. OpenBar' => OpenBar
    BY <1>1, <1>4 DEF OpenBar
  <1>6. CASE OpenBar /\ ~OpenBar'
    BY Zenon, <1>1, <1>2, <1>6, Closes DEF AbstractStep
  <1>7. OpenBar \in BOOLEAN /\ OpenBar' \in BOOLEAN
    BY ZenonT(30) DEF OpenBar
  <1> QED
    BY Zenon, <1>3, <1>5, <1>6, <1>7

LEMMA RecvNoneStep ==
    ASSUME ~dropped, RecvNone
    PROVE  AbstractStep
  <1>1. /\ UNCHANGED <<now, senders, chan, q, pending, ended, dropped, throttled>>
        /\ ~rx_closed /\ rx_closed' = TRUE
    BY Zenon DEF RecvNone
  <1>2. \A o \in Obj : DueBar'[o] = DueBar[o]
    BY Zenon, <1>1, SameDue
  <1>3. CASE throttled
    <2>1. OpenBar /\ ~OpenBar'
      BY Zenon, <1>1, <1>3 DEF OpenBar
    <2> QED
      BY Zenon, <1>1, <1>2, <2>1, Closes DEF AbstractStep
  <1>4. CASE ~throttled
    <2>1. OpenBar' = OpenBar
      BY Zenon, <1>1, <1>4 DEF OpenBar
    <2> QED
      BY Zenon, <1>1, <1>2, <2>1, Stutters
  <1> QED
    BY Zenon, <1>3, <1>4

LEMMA PassStep ==
    ASSUME Pass \/ UNCHANGED vars
    PROVE  AbstractStep
  <1>1. /\ UNCHANGED <<senders, chan, rx_closed, q, pending, ended, dropped, throttled>>
        /\ now' = now + 1 \/ now' = now
    BY Zenon DEF Pass, vars, receiverVars
  <1>2. \A o \in Obj : DueBar'[o] = DueBar[o]
    BY Zenon, <1>1, SameDue
  <1>3. OpenBar' = OpenBar
    BY Zenon, <1>1 DEF OpenBar
  <1>4. CASE now' = now
    BY Zenon, <1>1, <1>2, <1>3, <1>4, Stutters
  <1>5. CASE now' = now + 1
    <2>1. DueBar' = DueBar
      BY <1>2 DEF DueBar
    <2>2. Abstract!Pass
      BY Zenon, <1>1, <1>3, <1>5, <2>1 DEF DueBar, OpenBar, Abstract!Pass
    <2> QED
      BY Zenon, <2>2 DEF AbstractStep, Abstract!Next
  <1> QED
    BY Zenon, <1>1, <1>4, <1>5

\* The requeue channel keeps the promise of Schedule: an operation takes effect
\* when it is sent (or received, where polls may be cut short), so that
\* poll_requeued never returns an object that was cancelled or put off since,
\* returns each once and not early, and ends the stream only when no sender is
\* left and nothing is scheduled.
THEOREM ChannelImplementsSchedule == Spec => ImplementsSchedule
  <1>1. Init => Abstract!Init
    <2> SUFFICES ASSUME Init PROVE Abstract!Init
      OBVIOUS
    <2>1. \A o \in Obj : Received(o) = Never
      BY DEF Init, Received, Pending
    <2>2. \A o \in Obj : DueBar[o] = Never
      BY ZenonT(30), <2>1, DueIsDueOf, DueOfEmpty, DueBarAt DEF Init
    <2>3. DueBar = [o \in Obj |-> Never]
      BY <2>2 DEF DueBar
    <2>4. OpenBar = TRUE
      BY DEF Init, OpenBar
    <2> QED
      BY Zenon, <2>3, <2>4 DEF Init, Abstract!Init, DueBar, OpenBar
  <1>2. Inv /\ Shut /\ [Next]_vars => AbstractStep
    <2> SUFFICES ASSUME Inv, Shut, [Next]_vars PROVE AbstractStep
      OBVIOUS
    <2>1. ASSUME Sending PROVE AbstractStep
      <3>1. (\E op \in Ops : Send(op)) \/ SendError
        BY <2>1 DEF Sending, RequeueAt, Cancel, ClearAll, Ops
      <3> QED
        BY Zenon, <3>1, SendStep, SendersStep
    <2>2. ASSUME Poll PROVE AbstractStep
      BY Zenon, <2>2, RecvStep, RecvNoneStep, ReturnStep, EndStep DEF Poll
    <2> QED
      BY Zenon, <2>1, <2>2, SendersStep, DropReceiverStep, PassStep DEF Next
  <1> QED
    BY <1>1, <1>2, InvAlways, ShutAlways, PTL
       DEF Spec, ImplementsSchedule, Abstract!Spec, AbstractStep, DueBar, OpenBar
=============================================================================
