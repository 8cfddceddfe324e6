------------------------------ MODULE ReadView ------------------------------
(***************************************************************************)
(* The snapshot of a transaction (src/src/transaction/read_view.cpp): what *)
(* TransactionManager::CreateReadView records and how                      *)
(* ReadView::IsVisible decides whether the version written by a            *)
(* transaction belongs to the snapshot.  Both are pure operators of the    *)
(* manager's state, so that every module that reads versions shares them.  *)
(***************************************************************************)
EXTENDS Integers, FiniteSetsExt

INVALID_TX_ID == 0

TransactionState == {"UNKNOWN", "IN_PROGRESS", "COMMITTED", "ABORTED"}

(* A read view that has not been created yet. *)
NoReadView == [create |-> INVALID_TX_ID, low |-> 0, up |-> 0, active |-> {}]


(***************************************************************************)
(* The view of transaction id when the manager's counter is next, the map  *)
(* active_txns has domain actives, and txn_state_ is state ("UNKNOWN" for  *)
(* an id the map does not hold).  up is the water mark below which every   *)
(* transaction has ended, low the one at and above which none had begun.   *)
(***************************************************************************)
MakeReadView(id, next, actives, state) ==
    LET others == {a \in actives \ {id} : state[a] = "IN_PROGRESS"}
    IN  [create |-> id, low |-> next, up |-> Min(others \union {next}),
         active |-> others]

(* A plausible slip: the view is not closed at next_txid_. *)
IsVisibleNoLowLimit(rv, state, v) ==
    \/ v = INVALID_TX_ID
    \/ v = rv.create
    \/ /\ state[v] # "ABORTED"
       /\ v \notin rv.active
       /\ v < rv.up \/ state[v] = "COMMITTED"

(***************************************************************************)
(* Whether the version written by transaction v is visible to rv, given    *)
(* the manager's current txn_state_.                                       *)
(***************************************************************************)
IsVisible(rv, state, v) ==
    \/ v = INVALID_TX_ID
    \/ v = rv.create
    \/ /\ state[v] # "ABORTED"
       /\ v < rv.low
       /\ v \notin rv.active
       /\ v < rv.up \/ state[v] = "COMMITTED"
=============================================================================
