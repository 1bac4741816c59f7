------------------------------ MODULE MCRuntime ------------------------------
(* Runtime with a few streams and tasks. *)
EXTENDS Runtime

AllHolders == Stream \cup Task \cup {Main}
=============================================================================
