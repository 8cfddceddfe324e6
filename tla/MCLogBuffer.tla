---------------------------- MODULE MCLogBuffer -----------------------------
(* Model checking of LogBuffer with the clients the cfg names. *)
EXTENDS LogBuffer
=============================================================================
