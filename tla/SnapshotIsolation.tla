------------------------- MODULE SnapshotIsolation --------------------------
(***************************************************************************)
(* What the storage engine promises its transactions, without versions,    *)
(* undo chains or read views: a transaction works on a private copy of the *)
(* committed table taken when its snapshot is taken; its changes reach the *)
(* committed table all at once when it commits, and not at all when it     *)
(* aborts; a statement passes over a row that a concurrent transaction has *)
(* changed since the snapshot (the first updater wins).                    *)
(*                                                                         *)
(* A version is [row, val, by]: the row it belongs to (the row's first     *)
(* record), its value and the transaction that wrote it.                   *)
(***************************************************************************)
EXTENDS Integers, FiniteSets

CONSTANTS Txns, Values, Rows

VARIABLES
    db,        \* the committed versions
    status,    \* of each transaction
    view,      \* what each running transaction sees
    added,     \* the versions it has written
    removed    \* the committed versions it has deleted or replaced

siVars == <<db, status, view, added, removed>>

Version(r, v, t) == [row |-> r, val |-> v, by |-> t]

SIInit ==
    /\ db = {}
    /\ status = [t \in Txns |-> "none"]
    /\ view = [t \in Txns |-> {}]
    /\ added = [t \in Txns |-> {}]
    /\ removed = [t \in Txns |-> {}]

(* The committed table with t's own changes. *)
Current(t) == (db \ removed[t]) \union added[t]

(* t may change version x: it is t's own, or committed and nobody's target. *)
Writable(t, x) ==
    \/ x \in added[t]
    \/ x \in db /\ \A u \in Txns : x \notin removed[u]

Begin(t) ==
    /\ status[t] = "none"
    /\ status' = [status EXCEPT ![t] = "running"]
    /\ view' = [view EXCEPT ![t] = db]
    /\ UNCHANGED <<db, added, removed>>

(* READ COMMITTED: a statement starts from the table as it is now. *)
Refresh(t) ==
    /\ status[t] = "running" /\ UNCHANGED status
    /\ view' = [view EXCEPT ![t] = Current(t)]
    /\ UNCHANGED <<db, added, removed>>

(* t's statement sees table seen, takes the versions out and puts in in. *)
Write(t, seen, out, in) ==
    /\ view' = [view EXCEPT ![t] = (seen \ out) \union in]
    /\ added' = [added EXCEPT ![t] = (@ \ out) \union in]
    /\ removed' = [removed EXCEPT ![t] = @ \union (out \ added[t])]
    /\ UNCHANGED db

Insert(t, seen) ==
    \E r \in Rows, v \in Values :
        /\ \A u \in Txns : \A x \in db \union added[u] \union removed[u] : x.row # r
        /\ Write(t, seen, {}, {Version(r, v, t)})

Targets(t, seen, S) == {x \in seen : x.val \in S /\ Writable(t, x)}

Delete(t, seen) ==
    \E S \in SUBSET Values : Write(t, seen, Targets(t, seen, S), {})

Update(t, seen) ==
    \E S \in SUBSET Values, v \in Values :
        LET out == Targets(t, seen, S)
        IN  Write(t, seen, out, {Version(x.row, v, t) : x \in out})

Commit(t) ==
    /\ status[t] = "running"
    /\ status' = [status EXCEPT ![t] = "done"]
    /\ db' = Current(t)
    /\ view' = [view EXCEPT ![t] = {}]
    /\ added' = [added EXCEPT ![t] = {}]
    /\ removed' = [removed EXCEPT ![t] = {}]

(* An abort begins: t's own versions are gone, but the committed versions  *)
(* it has taken stay its own until they are given back.                    *)
Abort(t) ==
    /\ status[t] = "running"
    /\ status' = [status EXCEPT ![t] = "aborting"]
    /\ view' = [view EXCEPT ![t] = {}]
    /\ added' = [added EXCEPT ![t] = {}]
    /\ UNCHANGED <<db, removed>>

(* A statement fails half-way and its transaction aborts: some committed   *)
(* versions it was about to change are taken too.                          *)
Fail(t, seen) ==
    /\ status' = [status EXCEPT ![t] = "aborting"]
    /\ view' = [view EXCEPT ![t] = {}]
    /\ added' = [added EXCEPT ![t] = {}]
    /\ \E out \in SUBSET (Targets(t, seen, Values) \ added[t]) :
          removed' = [removed EXCEPT ![t] = @ \union out]
    /\ UNCHANGED db

GiveBack(t) ==
    /\ status[t] = "aborting" /\ UNCHANGED status
    /\ \E x \in removed[t] : removed' = [removed EXCEPT ![t] = @ \ {x}]
    /\ UNCHANGED <<db, view, added>>

AbortDone(t) ==
    /\ status[t] = "aborting"
    /\ removed[t] = {}
    /\ status' = [status EXCEPT ![t] = "done"]
    /\ UNCHANGED <<db, view, added, removed>>

SINext ==
    \E t \in Txns :
        \/ Begin(t) \/ Refresh(t) \/ Commit(t)
        \/ Abort(t) \/ GiveBack(t) \/ AbortDone(t)
        \/ /\ status[t] = "running"
           /\ \E seen \in {view[t], Current(t)} :
                 \/ /\ UNCHANGED status
                    /\ Insert(t, seen) \/ Delete(t, seen) \/ Update(t, seen)
                 \/ Fail(t, seen)

SISpec == SIInit /\ [][SINext]_siVars
=============================================================================
