---------------------------- MODULE MCLogFile -------------------------------
(* LogFile with rows whose images have no byte, one byte, and too many     *)
(* bytes for the log buffer.                                               *)
EXTENDS LogFile

Row(n) == [table_id |-> 1, page_id |-> 1, row_id |-> 0, image |-> [i \in 1 .. n |-> i + 1]]

MCInserts == {Row(1), Row(6)}
MCDeletes == {Row(0)}
=============================================================================
