------------------------------ MODULE Recovery ------------------------------
(***************************************************************************)
(* Crashes, restarts and RecoveryManager::Recover                          *)
(* (src/src/transaction/recovery_manager.cpp) for one table page, its undo *)
(* images and the log file.  What survives the process is the page (forced *)
(* to disk after every change), the images and the log file; the log's     *)
(* tail, the counters and the transaction states do not.                   *)
(*                                                                         *)
(* One session runs one transaction at a time, as the terminal does.  A    *)
(* step is the change of one record, because the page is forced record by  *)
(* record: the process can die between any two of them.  A log record is   *)
(* on disk or not; the one a death may tear is the subject of LogFile.     *)
(* The meta page is taken to be read back (MetaPage::Init) before Recover  *)
(* runs.                                                                   *)
(*                                                                         *)
(* A version of a row is named by the position of the record that the      *)
(* INSERT or UPDATE placed; an undo image remembers which version it is    *)
(* (field ver).                                                            *)
(***************************************************************************)
EXTENDS ReadView, Sequences

CONSTANTS MaxTxid,       \* bound: transaction ids
          MaxRows,       \* bound: records placed in the page
          WritingRuns,   \* bound: runs of the program in which it writes
          LoseTxn        \* TRUE: the process may die with a change on disk of a
                         \* transaction of which the log file has no record

ASSUME MaxTxidAssumption == MaxTxid \in Nat
ASSUME MaxRowsAssumption == MaxRows \in Nat
ASSUME WritingRunsAssumption == WritingRuns \in Nat \ {0}
ASSUME LoseTxnAssumption == LoseTxn \in BOOLEAN

TxIds == 1 .. MaxTxid
Rids == 1 .. MaxRows

VARIABLES
    rows,        \* on disk: the records of the page
    page_lsn,    \* on disk: the LSN in the page's header
    undo,        \* on disk: the images of the undo page
    wal,         \* on disk: the log file
    tail,        \* records in the log buffer
    next_lsn,    \* LogManager::next_lsn_
    next_txid,   \* TransactionManager::next_txid_
    txn_state,   \* TransactionManager::txn_state_
    cur,         \* the session's transaction, or INVALID_TX_ID
    write_set,   \* its write set
    pending,     \* the image an UPDATE's new version will point to, or 0
    stage,       \* what the program is doing
    redo_pos,    \* the log record Redo looks at next
    run,         \* history: the run of the program
    db           \* history: the versions committed, as the log on disk has it

recVars == <<rows, page_lsn, undo, wal, tail, next_lsn, next_txid, txn_state, cur,
             write_set, pending, stage, redo_pos, run, db>>

pageVars == <<rows, page_lsn, undo>>
logVars == <<wal, tail, next_lsn>>
txnVars == <<next_txid, txn_state, cur, write_set>>

DataTypes == {"INSERT_ROW", "DELETE_ROW"}

RecInit ==
    /\ rows = <<>> /\ page_lsn = 0 /\ undo = <<>>
    /\ wal = <<>> /\ tail = <<>> /\ next_lsn = 1
    /\ next_txid = 1 /\ txn_state = [t \in TxIds |-> "UNKNOWN"]
    /\ cur = INVALID_TX_ID /\ write_set = <<>> /\ pending = 0
    /\ stage = "idle" /\ redo_pos = 1
    /\ run = 1 /\ db = {}

-----------------------------------------------------------------------------
(* Reading: what a scan with view rv returns for record r, if anything. *)

ChainVersion(rv, p) ==
    LET visible[q \in 0 .. Len(undo)] ==
            IF q = 0 THEN {}
            ELSE IF IsVisible(rv, txn_state, undo[q].trx) THEN {undo[q].ver}
            ELSE visible[undo[q].roll]
    IN  visible[p]

ScanRecord(rv, r) ==
    IF rows[r].dead THEN {}
    ELSE IF IsVisible(rv, txn_state, rows[r].trx)
         THEN IF rows[r].del THEN {} ELSE {r}
         ELSE ChainVersion(rv, rows[r].roll)

(* The view of a transaction that begins now, after cur. *)
NewReader == MakeReadView(next_txid, next_txid + 1, {cur} \ {INVALID_TX_ID}, txn_state)

Scan(rv) == UNION {ScanRecord(rv, r) : r \in 1 .. Len(rows)}

-----------------------------------------------------------------------------
(* The log.  A record that does not fit the log buffer sends the records   *)
(* before it to disk first (LogBuffer::Write).                             *)

AppendLogRecord(type, r) ==
    LET rec == [lsn |-> next_lsn, tx |-> cur, rid |-> r, type |-> type]
    IN  /\ \/ wal' = wal /\ tail' = Append(tail, rec)
           \/ wal' = wal \o tail /\ tail' = <<rec>>
        /\ next_lsn' = next_lsn + 1

FlushLog ==
    /\ wal' = wal \o tail
    /\ tail' = <<>>
    /\ UNCHANGED next_lsn

(* The versions committed once cur's COMMIT record is on disk. *)
Written(type) == {write_set[i].rid : i \in {i \in 1 .. Len(write_set) : write_set[i].type = type}}
CommittedWith == (db \union Written("INSERT")) \ Written("DELETE")

-----------------------------------------------------------------------------
(* The session. *)

Begin ==
    /\ stage = "idle" /\ run <= WritingRuns
    /\ next_txid <= MaxTxid
    /\ cur' = next_txid
    /\ next_txid' = next_txid + 1
    /\ txn_state' = [txn_state EXCEPT ![next_txid] = "IN_PROGRESS"]
    /\ write_set' = <<>>
    /\ stage' = "running"
    /\ UNCHANGED <<pageVars, logVars, pending, redo_pos, run, db>>

(* A plausible slip: the page keeps its old LSN. *)
SetLsnNot(lsn) == page_lsn' = page_lsn

(* TablePage::SetLsn: the LSN of the newest record about the page. *)
SetLsn(lsn) == page_lsn' = lsn

(* A new record: in the page, in the log, in the write set; the page with  *)
(* its new LSN is forced to disk.                                          *)
PlaceRecord(roll) ==
    /\ Len(rows) < MaxRows
    /\ rows' = Append(rows, [trx |-> cur, roll |-> roll, del |-> FALSE, dead |-> FALSE])
    /\ AppendLogRecord("INSERT_ROW", Len(rows) + 1)
    /\ SetLsn(next_lsn)
    /\ write_set' = Append(write_set, [rid |-> Len(rows) + 1, type |-> "INSERT",
                                       prev_trx |-> INVALID_TX_ID, prev_roll |-> 0])
    /\ UNCHANGED <<undo, next_txid, txn_state, cur, stage, redo_pos, run, db>>

InsertRow ==
    /\ stage = "running" /\ pending = 0
    /\ PlaceRecord(0)
    /\ UNCHANGED pending

(***************************************************************************)
(* A hit of DELETE or UPDATE is marked: image, mark, log record, page LSN, *)
(* write set, and the page is forced.  Only in the first run: page ids     *)
(* start from 1 again with the process, and the first undo page of a later *)
(* run would take the table page's place in the file.                      *)
(***************************************************************************)
MarkRecord(r) ==
    LET rv == MakeReadView(cur, next_txid, {cur}, txn_state)
    IN  /\ stage = "running" /\ pending = 0 /\ run = 1
        /\ ~rows[r].del /\ IsVisible(rv, txn_state, rows[r].trx)
        /\ undo' = Append(undo, [trx |-> rows[r].trx, roll |-> rows[r].roll, ver |-> r])
        /\ rows' = [rows EXCEPT ![r].trx = cur, ![r].roll = Len(undo) + 1, ![r].del = TRUE]
        /\ AppendLogRecord("DELETE_ROW", r)
        /\ SetLsn(next_lsn)
        /\ write_set' = Append(write_set, [rid |-> r, type |-> "DELETE",
                                prev_trx |-> rows[r].trx, prev_roll |-> rows[r].roll])
        /\ UNCHANGED <<next_txid, txn_state, cur, stage, redo_pos, run, db>>

DeleteRow(r) ==
    /\ MarkRecord(r)
    /\ UNCHANGED pending

(* UPDATE: the old record is marked, then the new version is placed. *)
UpdateOld(r) ==
    /\ Len(rows) < MaxRows
    /\ MarkRecord(r)
    /\ pending' = Len(undo) + 1

InsertNewVersion ==
    /\ pending # 0 /\ stage = "running"
    /\ PlaceRecord(pending)
    /\ pending' = 0

(* Commit: the state is published and the record appended, then flushed. *)
CommitLog ==
    /\ stage = "running" /\ pending = 0
    /\ txn_state' = [txn_state EXCEPT ![cur] = "COMMITTED"]
    /\ AppendLogRecord("COMMIT", 0)
    /\ stage' = "committing"
    /\ UNCHANGED <<pageVars, next_txid, cur, write_set, pending, redo_pos, run, db>>

CommitFlush ==
    /\ stage = "committing"
    /\ FlushLog
    /\ db' = CommittedWith
    /\ cur' = INVALID_TX_ID
    /\ stage' = "idle"
    /\ UNCHANGED <<pageVars, next_txid, txn_state, write_set, pending, redo_pos, run>>

Abort ==
    /\ stage = "running" /\ pending = 0
    /\ stage' = "rollback"
    /\ UNCHANGED <<pageVars, logVars, txnVars, pending, redo_pos, run, db>>

(* A plausible slip: the record of an INSERT stays as it is. *)
MarkDeadNot(r) == rows

MarkDead(r) == [rows EXCEPT ![r].dead = TRUE]

(* RollbackWrites takes the newest write back; the page is forced, with    *)
(* neither a log record nor a new LSN.                                     *)
RollbackWrite ==
    LET w == write_set[Len(write_set)]
    IN  /\ stage = "rollback" /\ write_set # <<>>
        /\ rows' = IF w.type = "INSERT" THEN MarkDead(w.rid)
                   ELSE [rows EXCEPT ![w.rid].trx = w.prev_trx, ![w.rid].roll = w.prev_roll,
                                     ![w.rid].del = FALSE]
        /\ write_set' = SubSeq(write_set, 1, Len(write_set) - 1)
        /\ UNCHANGED <<page_lsn, undo, logVars, next_txid, txn_state, cur, pending,
                       stage, redo_pos, run, db>>

AbortLog ==
    /\ stage = "rollback" /\ write_set = <<>>
    /\ txn_state' = [txn_state EXCEPT ![cur] = "ABORTED"]
    /\ AppendLogRecord("ABORT", 0)
    /\ stage' = "aborting"
    /\ UNCHANGED <<pageVars, next_txid, cur, write_set, pending, redo_pos, run, db>>

AbortFlush ==
    /\ stage = "aborting"
    /\ FlushLog
    /\ cur' = INVALID_TX_ID
    /\ stage' = "idle"
    /\ UNCHANGED <<pageVars, next_txid, txn_state, write_set, pending, redo_pos, run, db>>

-----------------------------------------------------------------------------
(* The end of the process: everything in memory is gone. *)

GoDown ==
    /\ stage' = "down"
    /\ tail' = <<>> /\ next_lsn' = 1
    /\ next_txid' = 1 /\ txn_state' = [t \in TxIds |-> "UNKNOWN"]
    /\ cur' = INVALID_TX_ID /\ write_set' = <<>> /\ pending' = 0
    /\ redo_pos' = 1
    /\ run' = IF run > WritingRuns \/ stage = "redo" THEN run ELSE run + 1
    /\ UNCHANGED pageVars

(* exit at the prompt: the log buffer's destructor flushes; a transaction  *)
(* that is still open is just left.                                        *)
Exit ==
    /\ stage \in {"idle", "running"} /\ pending = 0
    /\ wal' = wal \o tail
    /\ GoDown
    /\ UNCHANGED db

LogOf(t) == {i \in 1 .. Len(wal) : wal[i].tx = t}

(* Inside LogBuffer's flush: a Flush, or the Write of a record that does   *)
(* not fit (a statement's next record, COMMIT or ABORT).                   *)
MayFlush ==
    \/ stage \in {"running", "committing", "aborting"}
    \/ stage = "rollback" /\ write_set = <<>>

(* Once the first n records of the buffer are on disk, the log knows of    *)
(* the open transaction, or there is no change of it to know of.           *)
Known(n) ==
    \/ n > 0
    \/ LogOf(cur) # {}
    \/ \A i \in 1 .. Len(tail) : tail[i].type \notin DataTypes

(***************************************************************************)
(* The process dies, between any two changes of a record or inside a flush *)
(* that has put the first n records of the buffer on disk; the others are  *)
(* lost.  In a flush that makes room the page is as it was: the change     *)
(* whose record did not fit is not forced yet (an image that nothing       *)
(* points to yet is left out).                                             *)
(***************************************************************************)
Crash(n) ==
    /\ stage # "down"
    /\ n > 0 => MayFlush
    /\ LoseTxn \/ Known(n)
    /\ wal' = wal \o SubSeq(tail, 1, n)
    /\ db' = IF stage = "committing" /\ n = Len(tail) THEN CommittedWith ELSE db
    /\ GoDown

-----------------------------------------------------------------------------
(* RecoveryManager. *)

(* A plausible slip: only transactions that ended get their state back. *)
AnalysisStateEndedOnly(t) ==
    IF \E i \in LogOf(t) : wal[i].type = "COMMIT" THEN "COMMITTED"
    ELSE IF \E i \in LogOf(t) : wal[i].type = "ABORT" THEN "ABORTED"
    ELSE "UNKNOWN"

(* The state Analysis gives a transaction: that of its last control        *)
(* record, and ABORTED for one that only has data records.                 *)
AnalysisState(t) ==
    LET control == {i \in LogOf(t) : wal[i].type \in {"COMMIT", "ABORT"}}
    IN  IF LogOf(t) = {} THEN "UNKNOWN"
        ELSE IF control # {} /\ wal[Max(control)].type = "COMMIT" THEN "COMMITTED"
        ELSE "ABORTED"

(* A plausible slip: the largest id in the log is handed out again. *)
AdvanceNextTxIdNoIncrement(at_least) == Max({at_least, next_txid})

AdvanceNextTxId(at_least) == Max({at_least + 1, next_txid})

(* ReadLog and Analysis; with an empty log there is nothing to recover. *)
Analysis ==
    /\ stage = "down"
    /\ txn_state' = [t \in TxIds |-> AnalysisState(t)]
    /\ next_txid' = AdvanceNextTxId(Max({wal[i].tx : i \in 1 .. Len(wal)} \union {0}))
    /\ stage' = IF wal = <<>> THEN "idle" ELSE "redo"
    /\ redo_pos' = 1
    /\ UNCHANGED <<pageVars, logVars, cur, write_set, pending, run, db>>

(* Redo goes on to the next record, or recovery ends. *)
Redone ==
    /\ stage' = IF redo_pos = Len(wal) THEN "idle" ELSE "redo"
    /\ redo_pos' = redo_pos + 1
    /\ UNCHANGED next_lsn

(* A data record younger than the page: its delete mark is set again       *)
(* (MarkDelete leaves a marked record alone), with a null undo pointer,    *)
(* and the page takes its LSN.                                             *)
RedoApply ==
    LET rec == wal[redo_pos]
    IN  /\ stage = "redo"
        /\ rec.type \in DataTypes /\ page_lsn < rec.lsn
        /\ rows' = IF rec.type = "DELETE_ROW" /\ ~rows[rec.rid].del
                   THEN [rows EXCEPT ![rec.rid].trx = rec.tx, ![rec.rid].roll = 0,
                                     ![rec.rid].del = TRUE]
                   ELSE rows
        /\ SetLsn(rec.lsn)
        /\ Redone
        /\ UNCHANGED <<undo, wal, tail, txnVars, pending, run, db>>

RedoSkip ==
    /\ stage = "redo"
    /\ ~(wal[redo_pos].type \in DataTypes /\ page_lsn < wal[redo_pos].lsn)
    /\ Redone
    /\ UNCHANGED <<pageVars, wal, tail, txnVars, pending, run, db>>

RecNext ==
    \/ Begin \/ InsertRow \/ InsertNewVersion
    \/ \E r \in 1 .. Len(rows) : DeleteRow(r) \/ UpdateOld(r)
    \/ CommitLog \/ CommitFlush
    \/ Abort \/ RollbackWrite \/ AbortLog \/ AbortFlush
    \/ Exit
    \/ \E n \in 0 .. Len(tail) : Crash(n)
    \/ Analysis \/ RedoApply \/ RedoSkip

RecSpec == RecInit /\ [][RecNext]_recVars

-----------------------------------------------------------------------------
Up == stage \notin {"down", "redo"}

(* A transaction that begins now reads exactly the committed versions. *)
ReadsCommitted == Up /\ stage # "committing" => Scan(NewReader) = db

(***************************************************************************)
(* A transaction that begins after the restart reads exactly the versions  *)
(* of the transactions whose COMMIT record is on disk, also when the       *)
(* process died between the two records of an UPDATE, in the middle of a   *)
(* roll-back or inside a flush: uncommitted versions are filtered by       *)
(* visibility alone, since Recover undoes nothing. It holds while the      *)
(* first two runs write and at the restart between them, if the log file   *)
(* has a record of every transaction that changed the page.                *)
(***************************************************************************)
FirstRecovery == run <= 2 => ReadsCommitted

(***************************************************************************)
(* The same after every restart, however often the program is restarted    *)
(* and writes again (Redo is idempotent).                                  *)
(***************************************************************************)
EveryRecovery == ReadsCommitted

(***************************************************************************)
(* No version of an uncommitted or aborted transaction is read after a     *)
(* restart, however often the program is restarted and writes again, if    *)
(* the log file has a record of every transaction that changed the page.   *)
(***************************************************************************)
NoDirtyVersion == Up /\ stage # "committing" => Scan(NewReader) \subseteq db

(***************************************************************************)
(* The next transaction id is larger than every id in a record header or   *)
(* undo image: Analysis moves next_txid_ past all of history, if the log   *)
(* file has a record of every transaction that changed the page.           *)
(***************************************************************************)
FreshIds ==
    Up => /\ \A r \in 1 .. Len(rows) : rows[r].trx < next_txid
          /\ \A p \in 1 .. Len(undo) : undo[p].trx < next_txid

(***************************************************************************)
(* The Redo after the first run never changes a record: pages are forced   *)
(* before their log records can be on disk, so the page LSN is at least    *)
(* the LSN of every data record of the file.                               *)
(***************************************************************************)
RedoIsNoOp == [][stage = "redo" /\ run <= 2 => rows' = rows]_recVars

(***************************************************************************)
(* Wherever the process died, between the two records of an UPDATE and in  *)
(* the middle of its roll-back too, a scan after the restart returns a row *)
(* more than once only through the two records of an UPDATE that did not   *)
(* commit (their chains share an image).                                   *)
(***************************************************************************)
RecoveredOnce ==
    stage = "idle" /\ run <= 2 =>
        \A r, s \in 1 .. Len(rows) :
            r # s /\ ScanRecord(NewReader, r) \cap ScanRecord(NewReader, s) # {} =>
                /\ rows[r].trx = rows[s].trx
                /\ txn_state[rows[r].trx] # "COMMITTED"
=============================================================================
