------------------------ MODULE MCTransactionManager ------------------------
(* Model checking of the transaction manager: with threads that interleave *)
(* freely, and with the terminal's one thread.                             *)
EXTENDS TransactionManager
=============================================================================
