-------------------------- MODULE MCBufferManager ---------------------------
(* Model checking of the buffer pool on small pools. *)
EXTENDS BufferManager
=============================================================================
