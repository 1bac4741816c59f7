------------------------------ MODULE Schedule ------------------------------
(***************************************************************************)
(* What the requeue channel promises: each object has at most one time at  *)
(* which it is due, which the last operation sent for it decides.  An      *)
(* object is returned once, not before it is due; the stream ends when     *)
(* nothing can become due any more.                                        *)
(***************************************************************************)
EXTENDS Integers

CONSTANTS Obj, Time, Never

VARIABLES
    now,
    due,     \* due[o]: when o is due, or Never
    open,    \* there are senders
    ended    \* the stream has ended

Scheduled == {o \in Obj : due[o] # Never}

Set(o, t) == open /\ due' = [due EXCEPT ![o] = t] /\ UNCHANGED <<now, open, ended>>

Clear == open /\ due' = [o \in Obj |-> Never] /\ UNCHANGED <<now, open, ended>>

Return(o) ==
    /\ o \in Scheduled
    /\ due[o] <= now
    /\ due' = [due EXCEPT ![o] = Never]
    /\ UNCHANGED <<now, open, ended>>

Close == open /\ open' = FALSE /\ UNCHANGED <<now, due, ended>>

End ==
    /\ ~open
    /\ Scheduled = {}
    /\ ended' = TRUE
    /\ UNCHANGED <<now, due, open>>

\* The consumer gives up the stream.
Discard ==
    /\ due' = [o \in Obj |-> Never]
    /\ open' = FALSE
    /\ UNCHANGED <<now, ended>>

Pass == now' = now + 1 /\ UNCHANGED <<due, open, ended>>

Init == now = 0 /\ due = [o \in Obj |-> Never] /\ open = TRUE /\ ended = FALSE

Next ==
    \/ \E o \in Obj : \/ \E t \in Time \cup {Never} : Set(o, t)
                      \/ Return(o)
    \/ Clear \/ Close \/ End \/ Discard \/ Pass

Spec == Init /\ [][Next]_<<now, due, open, ended>>
=============================================================================
