------------------------------- MODULE Session -------------------------------
(***************************************************************************)
(* The terminal's session (src/src/main.cpp): BEGIN, COMMIT, ROLLBACK,     *)
(* statements inside an explicit transaction and autocommit statements,    *)
(* the catch block of ExecuteSQL, and roll-back with its failures, on top  *)
(* of the transaction manager.  The terminal runs one command at a time    *)
(* (OneThread).                                                            *)
(*                                                                         *)
(* A statement is a sequence of inserted records and delete marks, each    *)
(* kept in the transaction's write set, and ends well or throws at any     *)
(* point.  An UPDATE is a mark and an insert.  FetchPage may throw inside  *)
(* RollbackWrites: a statement that throws does not close its executors,   *)
(* the pages they hold stay pinned, and a pool without free frames refuses *)
(* the page that the roll-back needs.  Of a record the model keeps the     *)
(* header without its undo pointer; tables and pages are left out.         *)
(***************************************************************************)
EXTENDS TransactionManager

CONSTANT MaxWrites   \* bound: writes of one transaction

ASSUME MaxWritesAssumption == MaxWrites \in Nat

VARIABLES
    session,    \* ClientSession::current_txn_, or INVALID_TX_ID
    job,        \* the command being executed: "none", "BEGIN", "COMMIT", "ROLLBACK",
                \* "autocommit" or "statement" (of an explicit transaction)
    txn,        \* the transaction it works for
    write_set,  \* Transaction::write_set_
    records,    \* the record headers in the table's pages, by RID
    num_rows,   \* the table's row count in the directory
    left,       \* how many writes the roll-back in progress has still to visit
    inserter,   \* history: the transaction that inserted each record
    failed,     \* history: transactions of which a statement failed
    given_up    \* history: transactions whose roll-back threw

tableVars == <<write_set, records, inserter, num_rows>>

sessionVars == <<session, job, txn, tableVars, left, failed, given_up>>

SessionInit ==
    /\ TxnInit
    /\ session = INVALID_TX_ID
    /\ job = "none"
    /\ txn = INVALID_TX_ID
    /\ write_set = [t \in TxIds |-> <<>>]
    /\ records = <<>>
    /\ inserter = <<>>
    /\ num_rows = 0
    /\ left = 0
    /\ failed = {}
    /\ given_up = {}

(* The prev_* fields of an INSERT's write record, never read. *)
NoHeader == [trx |-> INVALID_TX_ID, flags |-> {}]

InExplicitTxn == session # INVALID_TX_ID

(* A command starts to work for transaction t. *)
Start(j, t) ==
    /\ job = "none"
    /\ job' = j
    /\ txn' = t

(* The command returns to the prompt, and the session holds s. *)
Return(s) ==
    /\ job' = "none"
    /\ session' = s
    /\ UNCHANGED txn

(* A plausible slip: roll-back misses the newest write. *)
ToVisitSkipsNewest(t) == IF write_set[t] = <<>> THEN 0 ELSE Len(write_set[t]) - 1

(* RollbackWrites visits the whole write set, the newest write first. *)
ToVisit(t) == Len(write_set[t])

-----------------------------------------------------------------------------
(* HandleTransactionStatement: BEGIN, refused inside a transaction. *)
Begin ==
    /\ ~InExplicitTxn /\ next_txid <= MaxTxid
    /\ Start("BEGIN", next_txid)
    /\ BeginRegister(next_txid)
    /\ UNCHANGED <<session, tableVars, left, failed, given_up>>

BeginReturns ==
    /\ job = "BEGIN"
    /\ BeginReadView(txn)
    /\ Return(txn)
    /\ UNCHANGED <<tableVars, left, failed, given_up>>

(* COMMIT and ROLLBACK, refused outside a transaction. *)
Commit ==
    /\ InExplicitTxn
    /\ Start("COMMIT", session)
    /\ CommitPublish(session)
    /\ UNCHANGED <<session, tableVars, left, failed, given_up>>

Rollback ==
    /\ InExplicitTxn
    /\ Start("ROLLBACK", session)
    /\ AbortLookup(session)
    /\ left' = ToVisit(session)
    /\ UNCHANGED <<session, tableVars, failed, given_up>>

-----------------------------------------------------------------------------
(* ExecuteSQL, an autocommit statement: a transaction of its own. *)
Autocommit ==
    /\ ~InExplicitTxn /\ next_txid <= MaxTxid
    /\ Start("autocommit", next_txid)
    /\ BeginRegister(next_txid)
    /\ UNCHANGED <<session, tableVars, left, failed, given_up>>

AutocommitBegun ==
    /\ job = "autocommit"
    /\ BeginReadView(txn)
    /\ UNCHANGED sessionVars

(* A statement of the explicit transaction; READ COMMITTED refreshes its view. *)
Statement ==
    /\ InExplicitTxn
    /\ Start("statement", session)
    /\ RefreshReadView(session) \/ UNCHANGED txnVars
    /\ UNCHANGED <<session, tableVars, left, failed, given_up>>

Executing == job \in {"autocommit", "statement"} /\ phase[txn] = "running"

(* The executor keeps a change for roll-back, with the header it replaced. *)
KeepWrite(type, rid, prev) ==
    write_set' = [write_set EXCEPT ![txn] = Append(@, [type |-> type, rid |-> rid, prev |-> prev])]

InsertTuple ==
    /\ records' = Append(records, [trx |-> txn, flags |-> {}])
    /\ inserter' = Append(inserter, txn)
    /\ num_rows' = num_rows + 1
    /\ KeepWrite("INSERT", Len(records) + 1, NoHeader)

(* UpdateTableRows(-1), which stops at 0. *)
RowsLess == IF num_rows > 0 THEN num_rows - 1 ELSE 0

(***************************************************************************)
(* DELETE and UPDATE mark a record that is not marked and whose header is  *)
(* visible to them.  They do not look at RECORD_DEAD.                      *)
(***************************************************************************)
MarkDelete(rid) ==
    /\ "DEL" \notin records[rid].flags
    /\ IsVisible(read_view[txn], txn_state, records[rid].trx)
    /\ records' = [records EXCEPT ![rid] = [trx |-> txn, flags |-> @.flags \union {"DEL"}]]
    /\ num_rows' = RowsLess
    /\ KeepWrite("DELETE", rid, records[rid])
    /\ UNCHANGED inserter

Write ==
    /\ Executing
    /\ Len(write_set[txn]) < MaxWrites
    /\ InsertTuple \/ \E rid \in DOMAIN records : MarkDelete(rid)
    /\ UNCHANGED <<txnVars, session, job, txn, left, failed, given_up>>

(* The statement ends: an explicit transaction waits for COMMIT. *)
StatementDone ==
    /\ Executing /\ job = "statement"
    /\ Return(session)
    /\ UNCHANGED <<txnVars, tableVars, left, failed, given_up>>

AutocommitDone ==
    /\ Executing /\ job = "autocommit"
    /\ CommitPublish(txn)
    /\ UNCHANGED sessionVars

(* A plausible slip: only autocommit statements are rolled back. *)
StatementFailsAutocommitOnly ==
    /\ Executing
    /\ failed' = failed \union {txn}
    /\ \/ /\ job = "autocommit"
          /\ AbortLookup(txn)
          /\ left' = ToVisit(txn)
          /\ UNCHANGED <<session, job, txn>>
       \/ /\ job = "statement"
          /\ Return(session)
          /\ UNCHANGED <<txnVars, left>>
    /\ UNCHANGED <<tableVars, given_up>>

(* The statement throws: the catch block calls Abort. *)
StatementFails ==
    /\ Executing
    /\ AbortLookup(txn)
    /\ left' = ToVisit(txn)
    /\ failed' = failed \union {txn}
    /\ UNCHANGED <<session, job, txn, tableVars, given_up>>

-----------------------------------------------------------------------------
RollingBack == job # "none" /\ phase[txn] = "rollback"

(* TablePage::MarkDead, of an inserted record. *)
MarkDead(rid) ==
    /\ records' = [records EXCEPT ![rid] = [trx |-> @.trx, flags |-> @.flags \union {"DEAD"}]]
    /\ num_rows' = IF records[rid].flags = {} THEN RowsLess ELSE num_rows

(***************************************************************************)
(* TablePage::RestoreRecord, of a marked record: the header is written     *)
(* over whatever stands there.                                             *)
(***************************************************************************)
RestoreRecord(rid, prev) ==
    /\ records' = [records EXCEPT ![rid] = prev]
    /\ num_rows' = num_rows +
           (IF "DEL" \in records[rid].flags /\ "DEL" \notin prev.flags THEN 1 ELSE 0)

(* RollbackWrites visits the newest write it has not yet visited. *)
UndoWrite ==
    /\ RollingBack /\ left > 0
    /\ LET wr == write_set[txn][left]
       IN  IF wr.type = "INSERT" THEN MarkDead(wr.rid) ELSE RestoreRecord(wr.rid, wr.prev)
    /\ left' = left - 1
    /\ UNCHANGED <<txnVars, session, job, txn, write_set, inserter, failed, given_up>>

(***************************************************************************)
(* FetchPage throws.  The exception leaves Abort before it has changed any *)
(* state of the transaction, then the catch block before it clears the     *)
(* session, and is reported at the prompt.  The write set keeps the writes *)
(* that were visited: the next roll-back visits them again.                *)
(***************************************************************************)
RollbackThrows ==
    /\ RollingBack /\ left > 0
    /\ phase' = [phase EXCEPT ![txn] = "running"]
    /\ Return(session)
    /\ left' = 0
    /\ given_up' = given_up \union {txn}
    /\ UNCHANGED <<next_txid, active_txns, txn_state, read_view, log, durable, snapshot>>
    /\ UNCHANGED <<tableVars, failed>>

(* The writes are taken back and the ABORTED state is published. *)
RollbackDone ==
    /\ RollingBack /\ left = 0
    /\ AbortPublish(txn)
    /\ UNCHANGED sessionVars

(* The control record of Commit or Abort. *)
EndLogged ==
    /\ job # "none"
    /\ CommitLog(txn) \/ AbortLog(txn)
    /\ UNCHANGED sessionVars

(* A plausible slip: a failed statement leaves the session its transaction. *)
SessionAfterKeeps == IF job \in {"autocommit", "statement"} THEN session ELSE INVALID_TX_ID

(* What the session holds when Commit or Abort has returned. *)
SessionAfter == IF job = "autocommit" THEN session ELSE INVALID_TX_ID

EndReturns ==
    /\ job # "none"
    /\ CommitFlush(txn) \/ AbortFlush(txn)
    /\ Return(SessionAfter)
    /\ UNCHANGED <<tableVars, left, failed, given_up>>

SessionNext ==
    \/ Begin \/ BeginReturns \/ Commit \/ Rollback
    \/ Autocommit \/ AutocommitBegun \/ Statement
    \/ Write \/ StatementDone \/ AutocommitDone \/ StatementFails
    \/ UndoWrite \/ RollbackThrows \/ RollbackDone
    \/ EndLogged \/ EndReturns

SessionSpec == SessionInit /\ [][SessionNext]_<<txnVars, sessionVars>>

-----------------------------------------------------------------------------
(***************************************************************************)
(* At the prompt the session holds no transaction or one that is active    *)
(* and running: a transaction that has ended would make every later BEGIN, *)
(* COMMIT and ROLLBACK of the session fail.                                *)
(***************************************************************************)
SessionTxnIsActive ==
    job = "none" /\ InExplicitTxn =>
        session \in active_txns /\ phase[session] = "running"

(***************************************************************************)
(* At the prompt no transaction is active except the session's, and those  *)
(* whose roll-back threw: one that nobody can end would hold back          *)
(* up_limit_id_ of every later view.                                       *)
(***************************************************************************)
NoLeakedTxn == job = "none" => active_txns \subseteq {session} \union given_up

(***************************************************************************)
(* Of a transaction that has committed no statement failed, no inserted    *)
(* record is dead and every mark stands: no roll-back reached them, of its *)
(* own or of another transaction.  Only a transaction whose roll-back      *)
(* threw and was given up is excepted.                                     *)
(***************************************************************************)
CommittedIsWhole ==
    \A t \in TxIds \ given_up : txn_state[t] = "COMMITTED" =>
        /\ t \notin failed
        /\ \A i \in DOMAIN write_set[t] :
             LET wr == write_set[t][i]
             IN  IF wr.type = "INSERT" THEN "DEAD" \notin records[wr.rid].flags
                                       ELSE records[wr.rid].trx = t /\ "DEL" \in records[wr.rid].flags

(***************************************************************************)
(* Of a transaction that has aborted only dead records carry its id, and   *)
(* so no mark of it is left: roll-back may have been tried several times,  *)
(* have visited a write twice, and have found marks on dead records that   *)
(* the transaction made between the tries.                                 *)
(***************************************************************************)
AbortedIsUndone ==
    \A t \in TxIds : txn_state[t] = "ABORTED" =>
        \A rid \in DOMAIN records : records[rid].trx = t => "DEAD" \in records[rid].flags

LiveRecords == {rid \in DOMAIN records : records[rid].flags = {}}

(***************************************************************************)
(* write_record.h:23 keeps the table id of a write so that "roll-back      *)
(* maintains the row count", and RestoreRecord counts a record that        *)
(* becomes visible again: a step of roll-back changes the count by as much *)
(* as it changes the number of live records.                               *)
(***************************************************************************)
UndoKeepsRowCount ==
    [][UndoWrite => num_rows' - num_rows = Cardinality(LiveRecords') - Cardinality(LiveRecords)
      ]_<<txnVars, sessionVars>>
==============================================================================
