------------------------------ MODULE MCServer ------------------------------
(* Server with a few connections. *)
EXTENDS Server

AllHolders == Conn \cup {Main, Loop}
=============================================================================
