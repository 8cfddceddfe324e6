----------------------------- MODULE MCHeapFile -----------------------------
EXTENDS HeapFile

(* Two names of different lengths; the third table finds the page full. *)
MCNameLen == 1 :> 1 @@ 2 :> 2 @@ 3 :> 1
MCColumns == 1 :> 1 @@ 2 :> 0 @@ 3 :> 2
=============================================================================
