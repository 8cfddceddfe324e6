---------------------------- MODULE MCMVCCTable -----------------------------
(* Model checking of the versioned table. *)
EXTENDS MVCCTable

(***************************************************************************)
(* The steps of Begin, and those of Commit and Abort that write the log,   *)
(* follow each other at once: they touch neither rows nor undo, and their  *)
(* interleavings are the subject of the run of TransactionManager.  Nobody *)
(* else is in the log buffer then, so that a flush forces all of the log.  *)
(* What is left are statements, begins and commits of others between the   *)
(* steps of a roll-back.                                                   *)
(***************************************************************************)
InOneStep(t) == phase[t] \in {"begun", "committing", "commit_logged", "aborting", "abort_logged"}

OnlyRollbackInterleaves ==
    /\ \A t \in TxIds : InOneStep(t) => phase'[t] # phase[t]
    /\ (\E t \in TxIds : phase[t] \in {"commit_logged", "abort_logged"}) =>
           durable' = 1 .. Len(log)
=============================================================================
