----------------------------- MODULE MCRecovery -----------------------------
(* Model checking of crashes and recovery. *)
EXTENDS Recovery
=============================================================================
