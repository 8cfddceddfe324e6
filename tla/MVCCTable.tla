----------------------------- MODULE MVCCTable ------------------------------
(***************************************************************************)
(* One table under multi-version concurrency control: the records of its   *)
(* pages, the undo log, the statements that read and change them           *)
(* (src/src/executor/executor_{insert,delete,update,seq_scan}.cpp) and the *)
(* roll-back of a transaction (TransactionManager::RollbackWrites),        *)
(* composed with TransactionManager.                                       *)
(*                                                                         *)
(* A record's position in rows is its RID: records are only appended, page *)
(* after page.  An undo pointer is the position of the image in undo, 0    *)
(* for the null pointer.  A WHERE clause is the set of values it accepts.  *)
(* A statement is one action: the engine runs it to its end, or to the     *)
(* exception that ends it, on the calling thread.  Abort takes writes back *)
(* one by one without the manager's lock.                                  *)
(***************************************************************************)
EXTENDS TransactionManager

CONSTANTS Values,          \* values of the one column
          MaxRows,         \* bound: records ever placed in the table
          ReadCommitted    \* the transactions that run READ COMMITTED

ASSUME MaxRowsAssumption == MaxRows \in Nat
ASSUME ReadCommittedAssumption == ReadCommitted \subseteq TxIds

VARIABLES
    rows,        \* record header (trx_id, roll_ptr, DEL, DEAD), value, and as history
                 \* row: the record of the INSERT that the record descends from
    undo,        \* images of records before they were marked deleted
    write_set,   \* Transaction::write_set_
    num_rows     \* the table's row count in the meta page

tableVars == <<rows, undo, write_set, num_rows>>
mvccVars == <<txnVars, tableVars>>

MVCCInit ==
    /\ TxnInit
    /\ rows = <<>>
    /\ undo = <<>>
    /\ write_set = [t \in TxIds |-> <<>>]
    /\ num_rows = 0

-----------------------------------------------------------------------------
(* Reading. *)

VersionOf(rec) == [row |-> rec.row, val |-> rec.val, by |-> rec.trx]

(* The newest visible image on the chain that starts at pointer p, or none. *)
ChainVersion(rv, p) ==
    LET visible[q \in 0 .. Len(undo)] ==
            IF q = 0 THEN {}
            ELSE IF IsVisible(rv, txn_state, undo[q].trx) THEN {VersionOf(undo[q])}
            ELSE visible[undo[q].roll]
    IN  visible[p]

(* A plausible slip: the scan stops at the page, without the undo log. *)
ScanRecordNoChain(rv, r) ==
    IF rows[r].dead \/ rows[r].del \/ ~IsVisible(rv, txn_state, rows[r].trx) THEN {}
    ELSE {VersionOf(rows[r])}

(* What ExecutorSeqScan::Next returns for record r: one version, or none. *)
ScanRecord(rv, r) ==
    IF rows[r].dead THEN {}
    ELSE IF IsVisible(rv, txn_state, rows[r].trx)
         THEN IF rows[r].del THEN {} ELSE {VersionOf(rows[r])}
         ELSE ChainVersion(rv, rows[r].roll)

Scan(rv) == UNION {ScanRecord(rv, r) : r \in 1 .. Len(rows)}

(* How often a scan returns version x. *)
Times(rv, x) == Cardinality({r \in 1 .. Len(rows) : x \in ScanRecord(rv, r)})

(* A plausible slip: the delete mark is not looked at. *)
HitsIgnoreMark(rv, S) ==
    {r \in 1 .. Len(rows) : /\ IsVisible(rv, txn_state, rows[r].trx)
                            /\ rows[r].val \in S}

(* The records a DELETE or UPDATE takes: not marked, visible and matching. *)
Hits(rv, S) ==
    {r \in 1 .. Len(rows) : /\ ~rows[r].del
                            /\ IsVisible(rv, txn_state, rows[r].trx)
                            /\ rows[r].val \in S}

(* The conflict check of DELETE and UPDATE on a hit: its writer is another *)
(* transaction in progress.  The statement would throw.                    *)
Conflict(t, hits) ==
    \E r \in hits : rows[r].trx # t /\ txn_state[rows[r].trx] = "IN_PROGRESS"

-----------------------------------------------------------------------------
(* Statements.  ExecuteSQL gives a READ COMMITTED statement a fresh view. *)

StatementView(t) ==
    IF t \in ReadCommitted THEN MakeReadView(t, next_txid, active_txns, txn_state)
    ELSE read_view[t]

BeginStatement(t) ==
    /\ MayStep(t)
    /\ phase[t] = "running"
    /\ read_view' = [read_view EXCEPT ![t] = StatementView(t)]
    /\ snapshot' = [snapshot EXCEPT ![t] = IF t \in ReadCommitted THEN CommittedTxns ELSE @]
    /\ UNCHANGED <<next_txid, active_txns, txn_state, phase, log, durable>>

Select(t) ==
    /\ BeginStatement(t)
    /\ UNCHANGED tableVars

NewRecord(t, v, roll, row) ==
    [trx |-> t, roll |-> roll, del |-> FALSE, dead |-> FALSE, val |-> v, row |-> row]

InsertWrite(r) == [rid |-> r, type |-> "INSERT", prev_trx |-> INVALID_TX_ID, prev_roll |-> 0]
DeleteWrite(r) == [rid |-> r, type |-> "DELETE", prev_trx |-> rows[r].trx,
                   prev_roll |-> rows[r].roll]

InsertRow(t, v) ==
    /\ BeginStatement(t)
    /\ Len(rows) < MaxRows
    /\ rows' = Append(rows, NewRecord(t, v, 0, Len(rows) + 1))
    /\ num_rows' = num_rows + 1
    /\ write_set' = [write_set EXCEPT ![t] = Append(@, InsertWrite(Len(rows) + 1))]
    /\ UNCHANGED undo

(* The hits in the order of the scan, and where the image of one goes. *)
Rank(hits, r) == Cardinality({h \in hits : h <= r})
InOrder(hits) == [k \in 1 .. Cardinality(hits) |-> CHOOSE r \in hits : Rank(hits, r) = k]
ImagePtr(hits, r) == Len(undo) + Rank(hits, r)

(* AppendUndoRecord for every hit. *)
SaveImages(hits) ==
    undo' = undo \o [k \in 1 .. Cardinality(hits) |->
                       LET rec == rows[InOrder(hits)[k]]
                       IN  [trx |-> rec.trx, roll |-> rec.roll, val |-> rec.val, row |-> rec.row]]

(* MarkDelete for every hit. *)
Marked(t, hits) ==
    [r \in 1 .. Len(rows) |->
        IF r \in hits THEN [rows[r] EXCEPT !.trx = t, !.roll = ImagePtr(hits, r), !.del = TRUE]
        ELSE rows[r]]

(* UpdateTableRows(-n), which stops at 0. *)
RowsLess(n) == IF num_rows >= n THEN num_rows - n ELSE 0

(* DELETE marks the hits. *)
TakeRows(t, hits) ==
    /\ SaveImages(hits)
    /\ rows' = Marked(t, hits)
    /\ num_rows' = RowsLess(Cardinality(hits))
    /\ write_set' = [write_set EXCEPT ![t] =
           @ \o [k \in 1 .. Cardinality(hits) |-> DeleteWrite(InOrder(hits)[k])]]

DeleteRows(t, S) ==
    LET hits == Hits(StatementView(t), S)
    IN  /\ BeginStatement(t)
        /\ ~Conflict(t, hits)
        /\ TakeRows(t, hits)

(* UPDATE is delete-old and insert-new, hit by hit: the old record is      *)
(* marked, and the new record at the table's end points to the same image. *)
(* The last hit may be without its new record.                             *)
ReplaceRows(t, hits, placed, v) ==
    LET n == Cardinality(hits)
        old(k) == InOrder(hits)[k]
    IN  /\ Len(rows) + n <= MaxRows
        /\ SaveImages(hits)
        /\ rows' = Marked(t, hits) \o
               [k \in 1 .. placed |-> NewRecord(t, v, Len(undo) + k, rows[old(k)].row)]
        /\ num_rows' = IF placed = n THEN num_rows ELSE RowsLess(1)
        /\ write_set' = [write_set EXCEPT ![t] =
               @ \o [j \in 1 .. n + placed |->
                       IF j % 2 = 1 THEN DeleteWrite(old((j + 1) \div 2))
                       ELSE InsertWrite(Len(rows) + j \div 2)]]

UpdateRows(t, S, v) ==
    LET hits == Hits(StatementView(t), S)
    IN  /\ BeginStatement(t)
        /\ ~Conflict(t, hits)
        /\ ReplaceRows(t, hits, Cardinality(hits), v)

(***************************************************************************)
(* A statement throws after its first k hits (no frame is free, an image   *)
(* fits no undo page): ExecuteSQL's catch block calls Abort at once.  One  *)
(* that throws before its first hit is AbortLookup alone.                  *)
(***************************************************************************)
FailStatement(t) ==
    /\ MayStep(t)
    /\ phase[t] = "running" /\ t \in active_txns
    /\ read_view' = [read_view EXCEPT ![t] = StatementView(t)]
    /\ snapshot' = [snapshot EXCEPT ![t] = IF t \in ReadCommitted THEN CommittedTxns ELSE @]
    /\ phase' = [phase EXCEPT ![t] = "rollback"]
    /\ UNCHANGED <<next_txid, active_txns, txn_state, log, durable>>

FirstHits(hits, k) == {r \in hits : Rank(hits, r) <= k}

DeleteFails(t, S) ==
    LET hits == Hits(StatementView(t), S)
    IN  /\ FailStatement(t)
        /\ \E k \in 1 .. Cardinality(hits) - 1 : TakeRows(t, FirstHits(hits, k))

(* The k-th hit is marked; it may or may not have its new record. *)
UpdateFails(t, S, v) ==
    LET hits == Hits(StatementView(t), S)
    IN  /\ FailStatement(t)
        /\ \E k \in 1 .. Cardinality(hits) :
              \E placed \in {k - 1} \union ({k} \ {Cardinality(hits)}) :
                  ReplaceRows(t, FirstHits(hits, k), placed, v)

-----------------------------------------------------------------------------
(* Roll-back. *)

(* MarkDead: the record of an INSERT that is taken back. *)
MarkDead(r) ==
    /\ rows' = [rows EXCEPT ![r].dead = TRUE]
    /\ num_rows' = IF ~rows[r].del /\ ~rows[r].dead THEN RowsLess(1) ELSE num_rows

(* A plausible slip: the row count is not taken back. *)
RestoreRecordNoCount(w) ==
    /\ rows' = [rows EXCEPT ![w.rid].trx = w.prev_trx, ![w.rid].roll = w.prev_roll,
                            ![w.rid].del = FALSE]
    /\ num_rows' = num_rows

(* A plausible slip: the mark goes, the writer's id stays. *)
RestoreRecordKeepsTrx(w) ==
    /\ rows' = [rows EXCEPT ![w.rid].roll = w.prev_roll, ![w.rid].del = FALSE]
    /\ num_rows' = IF rows[w.rid].del THEN num_rows + 1 ELSE num_rows

(* RestoreRecord: the header as it was before the mark. *)
RestoreRecord(w) ==
    /\ rows' = [rows EXCEPT ![w.rid].trx = w.prev_trx, ![w.rid].roll = w.prev_roll,
                            ![w.rid].del = FALSE]
    /\ num_rows' = IF rows[w.rid].del THEN num_rows + 1 ELSE num_rows

(* RollbackWrites: the newest write that is left. *)
RollbackWrite(t) ==
    LET w == write_set[t][Len(write_set[t])]
    IN  /\ MayStep(t)
        /\ phase[t] = "rollback"
        /\ write_set[t] # <<>>
        /\ write_set' = [write_set EXCEPT ![t] = SubSeq(@, 1, Len(@) - 1)]
        /\ IF w.type = "INSERT" THEN MarkDead(w.rid) ELSE RestoreRecord(w)
        /\ UNCHANGED <<undo, txnVars>>

-----------------------------------------------------------------------------
MVCCNext ==
    \E t \in TxIds :
        \/ /\ BeginRegister(t) \/ BeginReadView(t)
           /\ UNCHANGED tableVars
        \/ Select(t)
        \/ \E v \in Values : InsertRow(t, v)
        \/ \E S \in SUBSET Values \ {{}} : DeleteRows(t, S) \/ DeleteFails(t, S)
        \/ \E S \in SUBSET Values \ {{}}, v \in Values :
              UpdateRows(t, S, v) \/ UpdateFails(t, S, v)
        \/ /\ CommitPublish(t) \/ CommitLog(t) \/ CommitFlush(t)
           /\ UNCHANGED tableVars
        \/ /\ AbortLookup(t)
           /\ UNCHANGED tableVars
        \/ RollbackWrite(t)
        \/ /\ write_set[t] = <<>>
           /\ AbortPublish(t)
           /\ UNCHANGED tableVars
        \/ /\ AbortLog(t) \/ AbortFlush(t)
           /\ UNCHANGED tableVars

MVCCSpec == MVCCInit /\ [][MVCCNext]_mvccVars

-----------------------------------------------------------------------------
(***************************************************************************)
(* The abstract state: what each transaction reads, and what it has        *)
(* changed, computed from the records, the undo log and the read views.    *)
(***************************************************************************)
InFlight(t) == phase[t] \in {"running", "rollback"}

Committed == Scan(MakeReadView(0, next_txid, active_txns, txn_state))

Status(t) ==
    CASE phase[t] \in {"none", "begun"} -> "none"
      [] phase[t] = "running" -> "running"
      [] phase[t] = "rollback" -> "aborting"
      [] OTHER -> "done"

Added(t) ==
    {VersionOf(rows[r]) : r \in {r \in 1 .. Len(rows) :
        phase[t] = "running" /\ rows[r].trx = t /\ ~rows[r].del /\ ~rows[r].dead}}

Removed(t) ==
    {VersionOf(undo[rows[r].roll]) : r \in {r \in 1 .. Len(rows) :
        /\ InFlight(t) /\ rows[r].trx = t /\ rows[r].del
        /\ undo[rows[r].roll].trx # t}}

Isolation == INSTANCE SnapshotIsolation WITH
    Txns <- TxIds,
    Rows <- 1 .. MaxRows,
    db <- Committed,
    status <- [t \in TxIds |-> Status(t)],
    view <- [t \in TxIds |-> IF phase[t] = "running" THEN Scan(read_view[t]) ELSE {}],
    added <- [t \in TxIds |-> Added(t)],
    removed <- [t \in TxIds |-> Removed(t)]

(***************************************************************************)
(* The engine implements snapshot isolation: scans through read views and  *)
(* undo chains show each transaction its private copy, commits publish all *)
(* of a transaction's changes at once, an abort none of them, and the      *)
(* first of two concurrent updaters of a row wins.                         *)
(***************************************************************************)
ImplementsSnapshotIsolation == Isolation!SISpec

(***************************************************************************)
(* The row count in the meta page, kept by increments in InsertTuple,      *)
(* MarkDelete, RestoreRecord and MarkDead, is the number of records that   *)
(* carry neither mark.                                                     *)
(***************************************************************************)
RowCountExact ==
    num_rows = Cardinality({r \in 1 .. Len(rows) : ~rows[r].del /\ ~rows[r].dead})

(***************************************************************************)
(* Once an abort has been published nothing of the transaction is left but *)
(* dead records: no delete mark of it survives and no image of its own     *)
(* version is the head of a chain that anyone can still reach alive.       *)
(***************************************************************************)
AbortLeavesOnlyDead ==
    \A r \in 1 .. Len(rows) : txn_state[rows[r].trx] = "ABORTED" => rows[r].dead

(***************************************************************************)
(* First updater wins: while the transaction that marked a record is in    *)
(* progress, no statement, its own included, and no roll-back of another   *)
(* transaction touches the record's header: only its own roll-back does.   *)
(***************************************************************************)
MarkIsOwned ==
    [][\A r \in 1 .. Len(rows) :
          LET t == rows[r].trx
          IN  rows[r].del /\ InFlight(t) /\ rows'[r] # rows[r] =>
                 phase[t] = "rollback" /\ write_set'[t] # write_set[t]]_mvccVars

(***************************************************************************)
(* The conflict check never throws: a record that passes the delete-mark   *)
(* and visibility tests of DELETE and UPDATE was never written by another  *)
(* transaction in progress.  It is why SecondWriterFails is violated.      *)
(***************************************************************************)
NoConflictThrown ==
    \A t \in TxIds : phase[t] = "running" => ~Conflict(t, Hits(StatementView(t), Values))

(***************************************************************************)
(* Write-write conflict detection as the comment in DELETE and UPDATE has  *)
(* it: a statement that completes has met no row of its view that matches  *)
(* and that another transaction in progress has changed.                   *)
(***************************************************************************)
SecondWriterFails ==
    [][\A t \in TxIds, S \in SUBSET Values :
          DeleteRows(t, S) \/ (\E v \in Values : UpdateRows(t, S, v)) =>
             \A r \in 1 .. Len(rows) :
                 (\E x \in ScanRecord(StatementView(t), r) : x.val \in S) =>
                     rows[r].trx = t \/ txn_state[rows[r].trx] # "IN_PROGRESS"]_mvccVars

(***************************************************************************)
(* REPEATABLE READ: a transaction's scan returns the same rows, each       *)
(* equally often, until it changes something itself, whatever others do.   *)
(***************************************************************************)
RepeatableRead ==
    [][\A t \in TxIds \ ReadCommitted :
          phase[t] = "running" /\ phase'[t] = "running" /\ write_set'[t] = write_set[t] =>
             \A x \in Scan(read_view[t]) \union Scan(read_view[t])' :
                 Times(read_view[t], x)' = Times(read_view[t], x)]_mvccVars
=============================================================================
