---------------------------- MODULE AdvisoryLock ----------------------------
(***************************************************************************)
(* What kubert::lease promises: "a distributed, advisory lock".  A         *)
(* claimant becomes the owner only while there is none; ownership ends     *)
(* when it is given up or runs out, and never passes from one claimant to  *)
(* another directly.                                                       *)
(***************************************************************************)
CONSTANT Claimant

VARIABLE owner      \* the claimants that own the lock: none or one

Init == owner = {}

Acquire(c) == owner = {} /\ owner' = {c}

Lapse(c) == owner = {c} /\ owner' = {}

Next == \E c \in Claimant : Acquire(c) \/ Lapse(c)

Spec == Init /\ [][Next]_owner
=============================================================================
