------------------------------ MODULE MCSession ------------------------------
(* Model checking of the terminal's session. *)
EXTENDS Session

(* Bound: records of the table. *)
RowsBound == Len(records) <= 2
=============================================================================
