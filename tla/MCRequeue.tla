----------------------------- MODULE MCRequeue -----------------------------
(* Requeue with a few objects. *)
EXTENDS Requeue
=============================================================================
