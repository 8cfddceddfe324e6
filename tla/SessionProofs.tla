--------------------------- MODULE SessionProofs ----------------------------
(***************************************************************************)
(* Proofs about Session for any number of transactions and writes: the     *)
(* terminal neither keeps nor leaks a transaction, and what it reports as  *)
(* committed or aborted is so.                                             *)
(***************************************************************************)
EXTENDS Session, TransactionManagerProofs

Jobs == {"none", "BEGIN", "COMMIT", "ROLLBACK", "autocommit", "statement"}

RecordFlags == {"DEL", "DEAD"}

Headers == [trx : TxIds, flags : SUBSET RecordFlags]

WriteRecords ==
    [type : {"INSERT", "DELETE"}, rid : Nat,
     prev : [trx : TxIds \union {INVALID_TX_ID}, flags : SUBSET RecordFlags]]

SessTypeOK ==
    /\ session \in TxIds \union {INVALID_TX_ID}
    /\ job \in Jobs
    /\ txn \in TxIds \union {INVALID_TX_ID}
    /\ write_set \in [TxIds -> Seq(WriteRecords)]
    /\ records \in Seq(Headers)
    /\ inserter \in Seq(TxIds)
    /\ num_rows \in Nat
    /\ left \in Nat
    /\ failed \subseteq TxIds
    /\ given_up \subseteq TxIds

(***************************************************************************)
(* The command in progress works for the session's transaction, or for one *)
(* of its own when there is none, and the manager's call is as far as the  *)
(* command can have brought it.                                            *)
(***************************************************************************)
JobInv ==
    /\ job # "none" =>
         /\ txn \in TxIds
         /\ session = IF job \in {"BEGIN", "autocommit"} THEN INVALID_TX_ID ELSE txn
         /\ phase[txn] \notin {"none", "ended"}
    /\ job = "BEGIN" => phase[txn] = "begun"
    /\ job = "COMMIT" => phase[txn] \in {"committing", "commit_logged"}
    /\ job = "ROLLBACK" => phase[txn] \in {"rollback", "aborting", "abort_logged"}
    /\ job = "statement" => phase[txn] \in {"running", "rollback", "aborting", "abort_logged"}
    /\ job = "none" /\ InExplicitTxn => phase[session] = "running"

(* The transaction that somebody still works for. *)
Attended(t) == t = session \/ (job # "none" /\ t = txn)

(* Nobody else's transaction is open, unless its roll-back threw. *)
AttendedInv ==
    \A t \in TxIds :
        \/ phase[t] \in {"none", "ended"}
        \/ phase[t] = "running" /\ t \in given_up
        \/ Attended(t)

(* Transaction t keeps a write of record rid, among the oldest n. *)
WroteBefore(t, rid, n) == \E i \in 1 .. n : write_set[t][i].rid = rid

Wrote(t, rid) == WroteBefore(t, rid, Len(write_set[t]))

(***************************************************************************)
(* The headers: an unmarked record carries the id of its inserter, and the *)
(* transaction whose id a record carries keeps a write of it.              *)
(***************************************************************************)
RecordInv ==
    /\ Len(inserter) = Len(records)
    /\ \A r \in 1 .. Len(records) :
          /\ Wrote(records[r].trx, r)
          /\ Wrote(inserter[r], r)
          /\ "DEL" \notin records[r].flags => records[r].trx = inserter[r]

(***************************************************************************)
(* A write that transaction t keeps: a mark was put on an unmarked record  *)
(* that t had written before, or that a committed transaction inserted.    *)
(***************************************************************************)
WriteInv(t, i) ==
    LET wr == write_set[t][i]
    IN  /\ wr.rid \in 1 .. Len(records)
        /\ wr.type = "INSERT" => inserter[wr.rid] = t
        /\ wr.type = "DELETE" =>
              /\ wr.prev.trx = inserter[wr.rid]
              /\ "DEL" \notin wr.prev.flags
              /\ IF inserter[wr.rid] = t THEN WroteBefore(t, wr.rid, i - 1)
                                         ELSE txn_state[inserter[wr.rid]] = "COMMITTED"

WriteSetInv ==
    \A t \in TxIds :
        /\ phase[t] = "none" => write_set[t] = <<>>
        /\ \A i \in 1 .. Len(write_set[t]) : WriteInv(t, i)

(* A roll-back of t has begun; nothing undoes that. *)
Damaged(t) == t \in given_up \/ phase[t] = "rollback" \/ txn_state[t] = "ABORTED"

(* Only roll-back makes a record dead, and only its own takes a mark away. *)
DamageInv ==
    /\ failed \subseteq {t \in TxIds : Damaged(t)}
    /\ \A r \in 1 .. Len(records) : "DEAD" \in records[r].flags => Damaged(inserter[r])
    /\ \A t \in TxIds : \A i \in 1 .. Len(write_set[t]) :
          LET wr == write_set[t][i]
          IN  wr.type = "DELETE" =>
                /\ "DEAD" \in wr.prev.flags => Damaged(inserter[wr.rid])
                /\ Damaged(t) \/ (records[wr.rid].trx = t /\ "DEL" \in records[wr.rid].flags)

(* While somebody works for t nobody else marks a record that t has marked. *)
MarksInv ==
    \A t \in TxIds : Attended(t) =>
        \A i \in 1 .. Len(write_set[t]) :
            LET wr == write_set[t][i]
            IN  wr.type = "DELETE" =>
                    records[wr.rid].trx = t \/ "DEL" \notin records[wr.rid].flags

(***************************************************************************)
(* Roll-back visits the writes from the newest down: a record that still   *)
(* carries the transaction's id is dead or among the writes to visit, also *)
(* when a second visit of a mark has just cleared the dead flag.           *)
(***************************************************************************)
UndoneInv ==
    /\ RollingBack =>
          /\ left <= Len(write_set[txn])
          /\ \A r \in 1 .. Len(records) : records[r].trx = txn =>
                "DEAD" \in records[r].flags \/ WroteBefore(txn, r, left)
    /\ \A r \in 1 .. Len(records) :
          txn_state[records[r].trx] = "ABORTED" => "DEAD" \in records[r].flags

SessInv ==
    /\ TxnInv
    /\ SessTypeOK
    /\ JobInv
    /\ AttendedInv
    /\ RecordInv
    /\ WriteSetInv
    /\ DamageInv
    /\ MarksInv
    /\ UndoneInv

-----------------------------------------------------------------------------
(***************************************************************************)
(* Every step of the session is one of the manager, or leaves it alone,    *)
(* or is a roll-back that throws.                                          *)
(***************************************************************************)
LEMMA SessionStepsManager ==
    ASSUME SessInv, SessionNext, ~RollbackThrows
    PROVE  [TxnNext]_txnVars
<1> USE DEF TxnNext, SessInv
<1>1. next_txid <= MaxTxid => next_txid \in TxIds
  BY MaxTxidAssumption DEF TxnInv, TxnTypeOK, TxIds
<1>2. (InExplicitTxn => session \in TxIds) /\ (job # "none" => txn \in TxIds)
  BY DEF SessTypeOK, JobInv, InExplicitTxn
<1>3. CASE Begin \/ Autocommit
  BY <1>1, <1>3 DEF Begin, Autocommit
<1>4. CASE BeginReturns \/ AutocommitBegun
  BY <1>2, <1>4 DEF BeginReturns, AutocommitBegun
<1>5. CASE Commit \/ Rollback
  BY <1>2, <1>5 DEF Commit, Rollback
<1>6. CASE Statement
  BY <1>2, <1>6 DEF Statement
<1>7. CASE Write \/ StatementDone \/ UndoWrite
  BY <1>7 DEF Write, StatementDone, UndoWrite
<1>8. CASE AutocommitDone \/ StatementFails
  BY <1>2, <1>8 DEF AutocommitDone, StatementFails, Executing
<1>9. CASE RollbackDone
  BY <1>2, <1>9 DEF RollbackDone, RollingBack
<1>10. CASE EndLogged \/ EndReturns
  BY <1>2, <1>10 DEF EndLogged, EndReturns
<1> QED
  BY <1>3, <1>4, <1>5, <1>6, <1>7, <1>8, <1>9, <1>10 DEF SessionNext

(* A roll-back that throws leaves the transaction as active as it was. *)
LEMMA ThrowKeepsManager ==
    ASSUME SessInv, RollbackThrows
    PROVE  TxnInv'
<1>1. /\ txn \in TxIds /\ phase[txn] = "rollback"
      /\ phase \in [TxIds -> Phases]
      /\ phase' = [phase EXCEPT ![txn] = "running"]
      /\ UNCHANGED <<next_txid, active_txns, txn_state, read_view, log, durable, snapshot>>
  BY DEF SessInv, JobInv, RollbackThrows, RollingBack, TxnInv, TxnTypeOK
<1>2. /\ phase'[txn] = "running"
      /\ \A t \in TxIds : t # txn => phase'[t] = phase[t]
  BY <1>1
<1>3. TxnTypeOK'
  BY <1>1 DEF SessInv, TxnInv, TxnTypeOK, Phases
<1>4. PhaseInv'
  BY <1>1, <1>2 DEF SessInv, TxnInv, PhaseInv
<1>5. \A t \in TxIds : HasView(t)' <=> HasView(t)
  BY <1>1, <1>2 DEF HasView
<1>6. ViewInv' /\ OrderInv'
  BY <1>1, <1>5 DEF SessInv, TxnInv, ViewInv, OrderInv
<1>7. LogInv'
  BY <1>1, <1>2 DEF SessInv, TxnInv, LogInv
<1> QED
  BY <1>3, <1>4, <1>6, <1>7 DEF TxnInv

LEMMA SessionTxnStep ==
    ASSUME SessInv, SessionNext
    PROVE  TxnInv'
BY SessionStepsManager, ThrowKeepsManager, TxnStep DEF SessInv

(* The phase of one transaction changes, that of no other. *)
MovesTo(t, p) ==
    /\ t \in TxIds
    /\ phase'[t] = p
    /\ \A u \in TxIds : u # t => phase'[u] = phase[u] /\ txn_state'[u] = txn_state[u]

(***************************************************************************)
(* What each action does to the phases and states of transactions.         *)
(***************************************************************************)
LEMMA ActionPhases ==
    ASSUME SessInv
    PROVE  /\ Begin \/ Autocommit =>
                /\ MovesTo(next_txid, "begun") /\ phase[next_txid] = "none"
                /\ next_txid \in TxIds /\ txn_state'[next_txid] = "IN_PROGRESS"
           /\ BeginReturns \/ AutocommitBegun =>
                MovesTo(txn, "running") /\ phase[txn] = "begun" /\ txn_state' = txn_state
           /\ Commit => MovesTo(session, "committing") /\ txn_state'[session] = "COMMITTED"
           /\ Rollback => MovesTo(session, "rollback") /\ txn_state' = txn_state
           /\ Statement => phase' = phase /\ txn_state' = txn_state /\ session \in TxIds
           /\ AutocommitDone => MovesTo(txn, "committing") /\ txn_state'[txn] = "COMMITTED"
           /\ StatementFails => MovesTo(txn, "rollback") /\ txn_state' = txn_state
           /\ RollbackThrows => MovesTo(txn, "running") /\ txn_state' = txn_state
           /\ RollbackDone => MovesTo(txn, "aborting") /\ txn_state'[txn] = "ABORTED"
           /\ EndLogged =>
                /\ \/ MovesTo(txn, "commit_logged") /\ phase[txn] = "committing"
                   \/ MovesTo(txn, "abort_logged") /\ phase[txn] = "aborting"
                /\ txn_state' = txn_state
           /\ EndReturns =>
                /\ MovesTo(txn, "ended") /\ phase[txn] \in {"commit_logged", "abort_logged"}
                /\ txn_state' = txn_state
<1>1. phase \in [TxIds -> Phases] /\ txn_state \in [TxIds -> TransactionState]
  BY DEF SessInv, TxnInv, TxnTypeOK
<1>2. (InExplicitTxn => session \in TxIds) /\ (job # "none" => txn \in TxIds)
  BY DEF SessInv, SessTypeOK, JobInv, InExplicitTxn
<1>3. next_txid <= MaxTxid => next_txid \in TxIds /\ phase[next_txid] = "none"
  BY MaxTxidAssumption DEF SessInv, TxnInv, TxnTypeOK, PhaseInv, TxIds
<1> USE <1>1, <1>2 DEF MovesTo
<1>4. Begin \/ Autocommit =>
        /\ MovesTo(next_txid, "begun") /\ phase[next_txid] = "none"
        /\ next_txid \in TxIds /\ txn_state'[next_txid] = "IN_PROGRESS"
  BY <1>3 DEF Begin, Autocommit, BeginRegister
<1>5. BeginReturns \/ AutocommitBegun =>
        MovesTo(txn, "running") /\ phase[txn] = "begun" /\ txn_state' = txn_state
  BY DEF BeginReturns, AutocommitBegun, BeginReadView, CreateReadView
<1>6. Commit => MovesTo(session, "committing") /\ txn_state'[session] = "COMMITTED"
  BY DEF Commit, CommitPublish, EndState
<1>7. Rollback => MovesTo(session, "rollback") /\ txn_state' = txn_state
  BY DEF Rollback, AbortLookup
<1>8. Statement => phase' = phase /\ txn_state' = txn_state /\ session \in TxIds
  BY DEF Statement, RefreshReadView, CreateReadView, txnVars
<1>9. AutocommitDone => MovesTo(txn, "committing") /\ txn_state'[txn] = "COMMITTED"
  BY DEF AutocommitDone, Executing, CommitPublish, EndState
<1>10. StatementFails => MovesTo(txn, "rollback") /\ txn_state' = txn_state
  BY DEF StatementFails, Executing, AbortLookup
<1>11. RollbackThrows => MovesTo(txn, "running") /\ txn_state' = txn_state
  BY DEF RollbackThrows, RollingBack
<1>12. RollbackDone => MovesTo(txn, "aborting") /\ txn_state'[txn] = "ABORTED"
  BY DEF RollbackDone, RollingBack, AbortPublish, EndState
<1>13. EndLogged =>
         /\ \/ MovesTo(txn, "commit_logged") /\ phase[txn] = "committing"
            \/ MovesTo(txn, "abort_logged") /\ phase[txn] = "aborting"
         /\ txn_state' = txn_state
  BY DEF EndLogged, CommitLog, AbortLog, WriteTxnControlLog
<1>14. EndReturns =>
         /\ MovesTo(txn, "ended") /\ phase[txn] \in {"commit_logged", "abort_logged"}
         /\ txn_state' = txn_state
  BY DEF EndReturns, CommitFlush, AbortFlush, FlushLog
<1> HIDE DEF MovesTo
<1> QED
  BY <1>4, <1>5, <1>6, <1>7, <1>8, <1>9, <1>10, <1>11, <1>12, <1>13, <1>14

(* What the invariant says of the variables that most actions read. *)
LEMMA SessFacts ==
    ASSUME SessInv
    PROVE  /\ SessTypeOK
           /\ INVALID_TX_ID \notin TxIds
           /\ InExplicitTxn => session \in TxIds
           /\ job # "none" => txn \in TxIds
           /\ \A t \in TxIds :
                 /\ phase[t] \in {"begun", "running", "rollback"} <=> txn_state[t] = "IN_PROGRESS"
                 /\ phase[t] = "none" <=> txn_state[t] = "UNKNOWN"
BY DEF SessInv, SessTypeOK, JobInv, InExplicitTxn, TxnInv, PhaseInv, TxIds, INVALID_TX_ID

-----------------------------------------------------------------------------
(***************************************************************************)
(* What Write and UndoWrite do to the table and to the write sets, record  *)
(* by record.                                                              *)
(***************************************************************************)
Keeps(wr) ==
    /\ \A t \in TxIds : t # txn => write_set'[t] = write_set[t]
    /\ Len(write_set'[txn]) = Len(write_set[txn]) + 1
    /\ \A i \in 1 .. Len(write_set[txn]) : write_set'[txn][i] = write_set[txn][i]
    /\ write_set'[txn][Len(write_set[txn]) + 1] = wr

Others(rid) ==
    /\ Len(records') = Len(records)
    /\ \A r \in 1 .. Len(records) : r # rid => records'[r] = records[r]
    /\ inserter' = inserter

Inserted ==
    /\ Len(records') = Len(records) + 1
    /\ \A r \in 1 .. Len(records) : records'[r] = records[r]
    /\ records'[Len(records) + 1] = [trx |-> txn, flags |-> {}]
    /\ Len(inserter') = Len(inserter) + 1
    /\ \A r \in 1 .. Len(inserter) : inserter'[r] = inserter[r]
    /\ inserter'[Len(inserter) + 1] = txn
    /\ Keeps([type |-> "INSERT", rid |-> Len(records) + 1, prev |-> NoHeader])

Marked(rid) ==
    /\ rid \in 1 .. Len(records)
    /\ "DEL" \notin records[rid].flags
    /\ records[rid].trx = txn \/ txn_state[records[rid].trx] = "COMMITTED"
    /\ records'[rid] = [trx |-> txn, flags |-> records[rid].flags \union {"DEL"}]
    /\ Others(rid)
    /\ Keeps([type |-> "DELETE", rid |-> rid, prev |-> records[rid]])

(* A record that a running transaction sees is its own or was committed. *)
LEMMA VisibleIsCommitted ==
    ASSUME TxnInv, NEW t \in TxIds, phase[t] = "running", NEW v \in TxIds,
           IsVisible(read_view[t], txn_state, v)
    PROVE  v = t \/ txn_state[v] = "COMMITTED"
BY DEF TxnInv, ViewInv, HasView, IsVisible, INVALID_TX_ID, TxIds

LEMMA AppendFacts ==
    ASSUME NEW S, NEW q \in Seq(S), NEW e \in S
    PROVE  /\ Append(q, e) \in Seq(S)
           /\ Len(Append(q, e)) = Len(q) + 1
           /\ \A i \in 1 .. Len(q) : Append(q, e)[i] = q[i]
           /\ Append(q, e)[Len(q) + 1] = e
OBVIOUS

LEMMA ReplaceFacts ==
    ASSUME NEW S, NEW q \in Seq(S), NEW i \in 1 .. Len(q), NEW e \in S
    PROVE  /\ [q EXCEPT ![i] = e] \in Seq(S)
           /\ Len([q EXCEPT ![i] = e]) = Len(q)
           /\ \A j \in 1 .. Len(q) : j # i => [q EXCEPT ![i] = e][j] = q[j]
           /\ [q EXCEPT ![i] = e][i] = e
OBVIOUS

LEMMA KeepFacts ==
    ASSUME SessTypeOK, txn \in TxIds, NEW type, NEW rid, NEW prev,
           [type |-> type, rid |-> rid, prev |-> prev] \in WriteRecords,
           KeepWrite(type, rid, prev)
    PROVE  /\ write_set' \in [TxIds -> Seq(WriteRecords)]
           /\ Keeps([type |-> type, rid |-> rid, prev |-> prev])
<1> DEFINE wr == [type |-> type, rid |-> rid, prev |-> prev]
<1>1. write_set[txn] \in Seq(WriteRecords) /\ write_set \in [TxIds -> Seq(WriteRecords)]
  BY DEF SessTypeOK
<1>2. write_set' = [write_set EXCEPT ![txn] = Append(write_set[txn], wr)]
  BY DEF KeepWrite
<1> HIDE DEF wr
<1>3. wr \in WriteRecords
  BY DEF wr
<1>4. /\ Append(write_set[txn], wr) \in Seq(WriteRecords)
      /\ Len(Append(write_set[txn], wr)) = Len(write_set[txn]) + 1
      /\ \A i \in 1 .. Len(write_set[txn]) : Append(write_set[txn], wr)[i] = write_set[txn][i]
      /\ Append(write_set[txn], wr)[Len(write_set[txn]) + 1] = wr
  BY <1>1, <1>3, AppendFacts
<1>5. write_set'[txn] = Append(write_set[txn], wr) /\ \A t \in TxIds : t # txn => write_set'[t] = write_set[t]
  BY <1>1, <1>2
<1>6. write_set' \in [TxIds -> Seq(WriteRecords)]
  BY <1>1, <1>2, <1>4
<1>7. Keeps(wr)
  BY <1>4, <1>5 DEF Keeps
<1> QED
  BY <1>6, <1>7 DEF wr

LEMMA WriteTypes ==
    ASSUME SessInv, Write
    PROVE  /\ SessTypeOK'
           /\ Inserted \/ \E rid \in 1 .. Len(records) : Marked(rid)
           /\ job # "none" /\ txn \in TxIds /\ phase[txn] = "running" /\ phase' = phase
           /\ txn_state' = txn_state /\ UNCHANGED <<session, job, txn, left, failed, given_up>>
<1>1. /\ txn \in TxIds /\ phase[txn] = "running" /\ job # "none"
      /\ phase' = phase /\ txn_state' = txn_state
      /\ UNCHANGED <<session, job, txn, left, failed, given_up>>
  BY SessFacts DEF Write, Executing, txnVars
<1>2. /\ SessTypeOK /\ Len(records) \in Nat /\ DOMAIN records = 1 .. Len(records)
      /\ records \in Seq(Headers) /\ inserter \in Seq(TxIds) /\ num_rows \in Nat
  BY SessFacts DEF SessTypeOK
<1>3. NoHeader \in [trx : TxIds \union {INVALID_TX_ID}, flags : SUBSET RecordFlags]
  BY DEF NoHeader
<1>4. CASE InsertTuple
  <2>1. [type |-> "INSERT", rid |-> Len(records) + 1, prev |-> NoHeader] \in WriteRecords
    BY <1>2, <1>3 DEF WriteRecords
  <2>2. /\ write_set' \in [TxIds -> Seq(WriteRecords)]
        /\ Keeps([type |-> "INSERT", rid |-> Len(records) + 1, prev |-> NoHeader])
    BY <1>1, <1>2, <1>4, <2>1, KeepFacts DEF InsertTuple
  <2>3. [trx |-> txn, flags |-> {}] \in Headers
    BY <1>1 DEF Headers
  <2>4. /\ records' = Append(records, [trx |-> txn, flags |-> {}])
        /\ inserter' = Append(inserter, txn) /\ num_rows' = num_rows + 1
    BY <1>4 DEF InsertTuple
  <2>5. /\ records' \in Seq(Headers) /\ Len(records') = Len(records) + 1
        /\ \A r \in 1 .. Len(records) : records'[r] = records[r]
        /\ records'[Len(records) + 1] = [trx |-> txn, flags |-> {}]
    BY ONLY <1>2, <2>3, <2>4, AppendFacts
  <2>6. /\ inserter' \in Seq(TxIds) /\ Len(inserter') = Len(inserter) + 1
        /\ \A r \in 1 .. Len(inserter) : inserter'[r] = inserter[r]
        /\ inserter'[Len(inserter) + 1] = txn
    BY ONLY <1>1, <1>2, <2>4, AppendFacts
  <2>7. Inserted
    BY <2>2, <2>5, <2>6 DEF Inserted
  <2>8. SessTypeOK'
    BY <1>1, <1>2, <2>2, <2>4, <2>5, <2>6 DEF SessTypeOK
  <2> QED
    BY <1>1, <2>7, <2>8
<1>5. ASSUME NEW rid \in DOMAIN records, MarkDelete(rid)
      PROVE  SessTypeOK' /\ Marked(rid)
  <2>1. rid \in 1 .. Len(records) /\ records[rid] \in Headers
    BY <1>2
  <2>2. [type |-> "DELETE", rid |-> rid, prev |-> records[rid]] \in WriteRecords
    BY <2>1 DEF WriteRecords, Headers
  <2>3. /\ write_set' \in [TxIds -> Seq(WriteRecords)]
        /\ Keeps([type |-> "DELETE", rid |-> rid, prev |-> records[rid]])
    BY <1>1, <1>2, <1>5, <2>2, KeepFacts DEF MarkDelete
  <2>4. /\ records' = [records EXCEPT ![rid] = [trx |-> txn, flags |-> records[rid].flags \union {"DEL"}]]
        /\ inserter' = inserter /\ num_rows' \in Nat /\ "DEL" \notin records[rid].flags
    BY <1>2, <1>5 DEF MarkDelete, RowsLess
  <2>5. [trx |-> txn, flags |-> records[rid].flags \union {"DEL"}] \in Headers
    BY <1>1, <2>1 DEF Headers, RecordFlags
  <2>6. /\ records' \in Seq(Headers) /\ Len(records') = Len(records)
        /\ \A r \in 1 .. Len(records) : r # rid => records'[r] = records[r]
        /\ records'[rid] = [trx |-> txn, flags |-> records[rid].flags \union {"DEL"}]
    BY ONLY <1>2, <2>1, <2>4, <2>5, ReplaceFacts
  <2>7. records[rid].trx = txn \/ txn_state[records[rid].trx] = "COMMITTED"
    <3>1. records[rid].trx \in TxIds
      BY <2>1 DEF Headers
    <3> QED
      BY <1>1, <1>5, <3>1, VisibleIsCommitted DEF MarkDelete, SessInv
  <2>8. Marked(rid)
    BY <2>1, <2>3, <2>4, <2>6, <2>7 DEF Marked, Others
  <2>9. SessTypeOK'
    BY <1>1, <1>2, <2>3, <2>4, <2>6 DEF SessTypeOK
  <2> QED
    BY <2>8, <2>9
<1> QED
  BY <1>1, <1>2, <1>4, <1>5 DEF Write

(* The write that roll-back visits. *)
Visited == write_set[txn][left]

MadeDead(rid) ==
    /\ records'[rid] = [trx |-> records[rid].trx, flags |-> records[rid].flags \union {"DEAD"}]
    /\ Others(rid)

Restored(rid) == records'[rid] = Visited.prev /\ Others(rid)

LEMMA UndoTypes ==
    ASSUME SessInv, UndoWrite
    PROVE  /\ SessTypeOK'
           /\ RollingBack /\ txn \in TxIds /\ left \in 1 .. Len(write_set[txn]) /\ left' = left - 1
           /\ \/ Visited.type = "INSERT" /\ MadeDead(Visited.rid)
              \/ Visited.type = "DELETE" /\ Restored(Visited.rid)
           /\ phase' = phase /\ txn_state' = txn_state
           /\ UNCHANGED <<session, job, txn, write_set, inserter, failed, given_up>>
<1>1. /\ RollingBack /\ txn \in TxIds /\ left' = left - 1 /\ left \in 1 .. Len(write_set[txn])
      /\ phase' = phase /\ txn_state' = txn_state
      /\ UNCHANGED <<session, job, txn, write_set, inserter, failed, given_up>>
  BY SessFacts DEF UndoWrite, RollingBack, txnVars, SessInv, UndoneInv, SessTypeOK
<1>2. /\ SessTypeOK /\ Len(records) \in Nat /\ records \in Seq(Headers) /\ num_rows \in Nat
      /\ write_set[txn] \in Seq(WriteRecords) /\ left \in Nat
  BY <1>1, SessFacts DEF SessTypeOK
<1>3. Visited \in WriteRecords
  BY <1>1, <1>2 DEF Visited
<1>4. WriteInv(txn, left)
  BY <1>1 DEF SessInv, WriteSetInv
<1>5. Visited.rid \in 1 .. Len(records) /\ Visited.type \in {"INSERT", "DELETE"}
  BY <1>3, <1>4 DEF WriteInv, Visited, WriteRecords
<1>6. records[Visited.rid] \in Headers
  BY <1>2, <1>5
<1>7. CASE Visited.type = "INSERT"
  <2>1. [trx |-> records[Visited.rid].trx, flags |-> records[Visited.rid].flags \union {"DEAD"}] \in Headers
    BY <1>6 DEF Headers, RecordFlags
  <2>2. /\ records' = [records EXCEPT ![Visited.rid] =
               [trx |-> records[Visited.rid].trx, flags |-> records[Visited.rid].flags \union {"DEAD"}]]
        /\ num_rows' \in Nat
    BY <1>2, <1>6, <1>7 DEF UndoWrite, MarkDead, RowsLess, Visited, Headers
  <2>3. /\ records' \in Seq(Headers) /\ Len(records') = Len(records)
        /\ \A r \in 1 .. Len(records) : r # Visited.rid => records'[r] = records[r]
        /\ records'[Visited.rid] =
              [trx |-> records[Visited.rid].trx, flags |-> records[Visited.rid].flags \union {"DEAD"}]
    <3>1. PICK q, e : /\ q = Visited.rid
                      /\ e = [trx |-> records[q].trx, flags |-> records[q].flags \union {"DEAD"}]
      OBVIOUS
    <3>2. q \in 1 .. Len(records) /\ e \in Headers /\ records' = [records EXCEPT ![q] = e]
      BY <1>5, <2>1, <2>2, <3>1
    <3>3. /\ records' \in Seq(Headers) /\ Len(records') = Len(records)
          /\ \A r \in 1 .. Len(records) : r # q => records'[r] = records[r]
          /\ records'[q] = e
      BY ONLY <1>2, <3>2, ReplaceFacts
    <3> QED
      BY <3>1, <3>3
  <2>4. MadeDead(Visited.rid)
    BY <1>1, <2>3 DEF MadeDead, Others
  <2>5. SessTypeOK'
    BY <1>1, <1>2, <2>2, <2>3 DEF SessTypeOK
  <2> QED
    BY <1>1, <1>7, <2>4, <2>5
<1>8. CASE Visited.type = "DELETE"
  <2>1. Visited.prev \in Headers
    <3>1. Visited.prev.trx = inserter[Visited.rid]
      BY <1>4, <1>8 DEF WriteInv, Visited
    <3>2. inserter[Visited.rid] \in TxIds
      BY <1>2, <1>5 DEF SessTypeOK, SessInv, RecordInv
    <3> QED
      BY <1>3, <3>1, <3>2 DEF WriteRecords, Headers
  <2>2. records' = [records EXCEPT ![Visited.rid] = Visited.prev] /\ num_rows' \in Nat
    BY <1>2, <1>8 DEF UndoWrite, RestoreRecord, Visited
  <2>3. /\ records' \in Seq(Headers) /\ Len(records') = Len(records)
        /\ \A r \in 1 .. Len(records) : r # Visited.rid => records'[r] = records[r]
        /\ records'[Visited.rid] = Visited.prev
    BY ONLY <1>2, <1>5, <2>1, <2>2, ReplaceFacts
  <2>4. Restored(Visited.rid)
    BY <1>1, <2>3 DEF Restored, Others
  <2>5. SessTypeOK'
    BY <1>1, <1>2, <2>2, <2>3 DEF SessTypeOK
  <2> QED
    BY <1>1, <1>8, <2>4, <2>5
<1> QED
  BY <1>5, <1>7, <1>8

(* The session's variables keep their types. *)
LEMMA SessTypeStep ==
    ASSUME SessInv, SessionNext
    PROVE  SessTypeOK'
<1> USE SessFacts DEF SessTypeOK, Jobs, InExplicitTxn, MovesTo, tableVars
<1>1. CASE Begin
  BY <1>1, ActionPhases DEF Begin, Start
<1>2. CASE Autocommit
  BY <1>2, ActionPhases DEF Autocommit, Start
<1>3. CASE BeginReturns
  BY <1>3, ActionPhases DEF BeginReturns, Return
<1>4. CASE AutocommitBegun
  BY <1>4, ActionPhases DEF AutocommitBegun, sessionVars
<1>5. CASE Commit
  BY <1>5, ActionPhases DEF Commit, Start
<1>6. CASE Rollback
  BY <1>6, ActionPhases DEF Rollback, Start, ToVisit
<1>7. CASE Statement
  BY <1>7, ActionPhases DEF Statement, Start
<1>8. CASE Write
  BY <1>8, WriteTypes DEF Write
<1>9. CASE StatementDone
  BY <1>9, ActionPhases DEF StatementDone, Executing, Return, txnVars
<1>10. CASE AutocommitDone
  BY <1>10, ActionPhases DEF AutocommitDone, Executing, sessionVars
<1>11. CASE StatementFails
  BY <1>11, ActionPhases DEF StatementFails, Executing, ToVisit
<1>12. CASE UndoWrite
  BY <1>12, UndoTypes DEF UndoWrite
<1>13. CASE RollbackThrows
  BY <1>13, ActionPhases DEF RollbackThrows, RollingBack, Return
<1>14. CASE RollbackDone
  BY <1>14, ActionPhases DEF RollbackDone, RollingBack, sessionVars
<1>15. CASE EndLogged
  BY <1>15, ActionPhases DEF EndLogged, sessionVars
<1>16. CASE EndReturns
  BY <1>16, ActionPhases DEF EndReturns, Return, SessionAfter
<1> QED
  BY <1>1, <1>2, <1>3, <1>4, <1>5, <1>6, <1>7, <1>8, <1>9, <1>10, <1>11, <1>12, <1>13, <1>14, <1>15, <1>16 DEF SessionNext

(* Every action leaves command and manager in step with each other. *)
LEMMA JobStep ==
    ASSUME SessInv, SessionNext
    PROVE  JobInv'
<1> USE SessFacts DEF SessInv, JobInv, InExplicitTxn, MovesTo, tableVars
<1>1. CASE Begin
  BY <1>1, ActionPhases DEF Begin, Start
<1>2. CASE Autocommit
  BY <1>2, ActionPhases DEF Autocommit, Start
<1>3. CASE BeginReturns
  BY <1>3, ActionPhases DEF BeginReturns, Return
<1>4. CASE AutocommitBegun
  BY <1>4, ActionPhases DEF AutocommitBegun, sessionVars
<1>5. CASE Commit
  BY <1>5, ActionPhases DEF Commit, Start
<1>6. CASE Rollback
  BY <1>6, ActionPhases DEF Rollback, Start, ToVisit
<1>7. CASE Statement
  BY <1>7, ActionPhases DEF Statement, Start
<1>8. CASE Write
  BY <1>8, ActionPhases DEF Write, Executing, txnVars
<1>9. CASE StatementDone
  BY <1>9, ActionPhases DEF StatementDone, Executing, Return, txnVars
<1>10. CASE AutocommitDone
  BY <1>10, ActionPhases DEF AutocommitDone, Executing, sessionVars
<1>11. CASE StatementFails
  BY <1>11, ActionPhases DEF StatementFails, Executing, ToVisit
<1>12. CASE UndoWrite
  BY <1>12, ActionPhases DEF UndoWrite, RollingBack, txnVars
<1>13. CASE RollbackThrows
  BY <1>13, ActionPhases DEF RollbackThrows, RollingBack, Return
<1>14. CASE RollbackDone
  BY <1>14, ActionPhases DEF RollbackDone, RollingBack, sessionVars
<1>15. CASE EndLogged
  BY <1>15, ActionPhases DEF EndLogged, sessionVars
<1>16. CASE EndReturns
  BY <1>16, ActionPhases DEF EndReturns, Return, SessionAfter
<1> QED
  BY <1>1, <1>2, <1>3, <1>4, <1>5, <1>6, <1>7, <1>8, <1>9, <1>10, <1>11, <1>12, <1>13, <1>14, <1>15, <1>16 DEF SessionNext

(* No action lets go of a transaction that is still open. *)
LEMMA AttendedStep ==
    ASSUME SessInv, SessionNext
    PROVE  AttendedInv'
<1> USE SessFacts DEF SessInv, JobInv, AttendedInv, Attended, InExplicitTxn, MovesTo
<1>1. CASE Begin
  BY <1>1, ActionPhases DEF Begin, Start
<1>2. CASE Autocommit
  BY <1>2, ActionPhases DEF Autocommit, Start
<1>3. CASE BeginReturns
  BY <1>3, ActionPhases DEF BeginReturns, Return
<1>4. CASE AutocommitBegun
  BY <1>4, ActionPhases DEF AutocommitBegun, sessionVars
<1>5. CASE Commit
  BY <1>5, ActionPhases DEF Commit, Start
<1>6. CASE Rollback
  BY <1>6, ActionPhases DEF Rollback, Start, ToVisit
<1>7. CASE Statement
  BY <1>7, ActionPhases DEF Statement, Start
<1>8. CASE Write
  BY <1>8, ActionPhases DEF Write, Executing, txnVars
<1>9. CASE StatementDone
  BY <1>9, ActionPhases DEF StatementDone, Executing, Return, txnVars
<1>10. CASE AutocommitDone
  BY <1>10, ActionPhases DEF AutocommitDone, Executing, sessionVars
<1>11. CASE StatementFails
  BY <1>11, ActionPhases DEF StatementFails, Executing, ToVisit
<1>12. CASE UndoWrite
  BY <1>12, ActionPhases DEF UndoWrite, RollingBack, txnVars
<1>13. CASE RollbackThrows
  BY <1>13, ActionPhases DEF RollbackThrows, RollingBack, Return
<1>14. CASE RollbackDone
  BY <1>14, ActionPhases DEF RollbackDone, RollingBack, sessionVars
<1>15. CASE EndLogged
  BY <1>15, ActionPhases DEF EndLogged, sessionVars
<1>16. CASE EndReturns
  BY <1>16, ActionPhases DEF EndReturns, Return, SessionAfter
<1> QED
  BY <1>1, <1>2, <1>3, <1>4, <1>5, <1>6, <1>7, <1>8, <1>9, <1>10, <1>11, <1>12, <1>13, <1>14, <1>15, <1>16 DEF SessionNext

(* What the invariant says of a record and of a write. *)
LEMMA TableFacts ==
    ASSUME SessInv
    PROVE  /\ Len(records) \in Nat /\ Len(inserter) = Len(records)
           /\ \A t \in TxIds : Len(write_set[t]) \in Nat
           /\ \A r \in 1 .. Len(records) : records[r].trx \in TxIds /\ inserter[r] \in TxIds
           /\ \A t \in TxIds : \A i \in 1 .. Len(write_set[t]) :
                 /\ WriteInv(t, i)
                 /\ write_set[t][i].rid \in 1 .. Len(records)
                 /\ write_set[t][i].rid \in Nat
                 /\ inserter[write_set[t][i].rid] \in TxIds
<1>1. /\ records \in Seq(Headers) /\ inserter \in Seq(TxIds) /\ Len(inserter) = Len(records)
      /\ write_set \in [TxIds -> Seq(WriteRecords)]
  BY SessFacts DEF SessTypeOK, SessInv, RecordInv
<1>2. \A r \in 1 .. Len(records) : records[r].trx \in TxIds /\ inserter[r] \in TxIds
  <2>1. \A r \in 1 .. Len(records) : records[r] \in Headers /\ inserter[r] \in TxIds
    BY ONLY <1>1
  <2> QED
    BY ONLY <2>1 DEF Headers
<1>3. ASSUME NEW t \in TxIds, NEW i \in 1 .. Len(write_set[t])
      PROVE  /\ WriteInv(t, i) /\ write_set[t][i].rid \in 1 .. Len(records)
             /\ write_set[t][i].rid \in Nat
  BY DEF SessInv, WriteSetInv, WriteInv
<1> QED
  BY <1>1, <1>2, <1>3

(* What every action but Write and UndoWrite does, as the table's invariants see it. *)
Quiet ==
    /\ UNCHANGED tableVars
    /\ \A t \in TxIds :
          /\ txn_state[t] = "COMMITTED" => txn_state'[t] = "COMMITTED"
          /\ phase'[t] = "none" => phase[t] = "none"
          /\ Damaged(t) => Damaged(t)'
          /\ Attended(t)' => Attended(t) \/ phase[t] = "none"
          /\ txn_state'[t] = "ABORTED" => txn_state[t] = "ABORTED" \/ (t = txn /\ RollingBack /\ left = 0)
    /\ failed' \subseteq {t \in TxIds : t \in failed \/ Damaged(t)'}
    /\ RollingBack' => \/ RollingBack /\ txn' = txn /\ left' = left
                       \/ txn' \in TxIds /\ left' = Len(write_set[txn'])

LEMMA QuietStep ==
    ASSUME SessInv, SessionNext, ~Write, ~UndoWrite
    PROVE  Quiet
<1> USE SessFacts DEF Quiet, SessInv, SessTypeOK, JobInv, Damaged, Attended, RollingBack, InExplicitTxn,
                      MovesTo, tableVars
<1>1. CASE Begin
  BY <1>1, ActionPhases DEF Begin, Start
<1>2. CASE Autocommit
  BY <1>2, ActionPhases DEF Autocommit, Start
<1>3. CASE BeginReturns
  BY <1>3, ActionPhases DEF BeginReturns, Return
<1>4. CASE AutocommitBegun
  BY <1>4, ActionPhases DEF AutocommitBegun, sessionVars
<1>5. CASE Commit
  BY <1>5, ActionPhases DEF Commit, Start
<1>6. CASE Rollback
  BY <1>6, ActionPhases DEF Rollback, Start, ToVisit
<1>7. CASE Statement
  BY <1>7, ActionPhases DEF Statement, Start
<1>8. CASE StatementDone
  BY <1>8, ActionPhases DEF StatementDone, Executing, Return, txnVars
<1>9. CASE AutocommitDone
  BY <1>9, ActionPhases DEF AutocommitDone, Executing, sessionVars
<1>10. CASE StatementFails
  BY <1>10, ActionPhases DEF StatementFails, Executing, ToVisit
<1>11. CASE RollbackThrows
  BY <1>11, ActionPhases DEF RollbackThrows, Return
<1>12. CASE RollbackDone
  BY <1>12, ActionPhases DEF RollbackDone, sessionVars
<1>13. CASE EndLogged
  BY <1>13, ActionPhases DEF EndLogged, sessionVars
<1>14. CASE EndReturns
  BY <1>14, ActionPhases DEF EndReturns, Return, SessionAfter
<1> QED
  BY <1>1, <1>2, <1>3, <1>4, <1>5, <1>6, <1>7, <1>8, <1>9, <1>10, <1>11, <1>12, <1>13, <1>14 DEF SessionNext

(* Such an action leaves the records and the write sets as the invariants want them. *)
LEMMA QuietTable ==
    ASSUME SessInv, Quiet
    PROVE  RecordInv' /\ WriteSetInv' /\ DamageInv' /\ MarksInv' /\ UndoneInv'
<1>1. /\ write_set' = write_set /\ records' = records /\ inserter' = inserter
      /\ Len(inserter) = Len(records)
      /\ \A r \in 1 .. Len(records) : records[r].trx \in TxIds /\ inserter[r] \in TxIds
  <2>1. write_set' = write_set /\ records' = records /\ inserter' = inserter
    BY DEF Quiet, tableVars
  <2> QED
    BY <2>1, TableFacts
<1>2. \A t, r, n : WroteBefore(t, r, n)' <=> WroteBefore(t, r, n)
  <2> SUFFICES ASSUME NEW t, NEW r, NEW n PROVE WroteBefore(t, r, n)' <=> WroteBefore(t, r, n)
    OBVIOUS
  <2> QED
    BY <1>1 DEF WroteBefore
<1>3. RecordInv'
  BY <1>1 DEF SessInv, RecordInv, Wrote, WroteBefore
<1>4. ASSUME NEW t \in TxIds, NEW i \in 1 .. Len(write_set[t])
      PROVE  WriteInv(t, i)'
  <2>1. WriteInv(t, i)
    BY DEF SessInv, WriteSetInv
  <2>2. write_set[t][i].rid \in 1 .. Len(records)
    BY <2>1 DEF WriteInv
  <2>3. inserter[write_set[t][i].rid] \in TxIds
    BY <1>1, <2>2
  <2> QED
    BY <1>1, <2>1, <2>3 DEF WriteInv, WroteBefore, Quiet
<1>5. WriteSetInv'
  BY <1>1, <1>4 DEF SessInv, WriteSetInv, Quiet
<1>6. ASSUME NEW t \in TxIds, NEW i \in 1 .. Len(write_set[t])
      PROVE  write_set[t][i].rid \in 1 .. Len(records)
  BY DEF SessInv, WriteSetInv, WriteInv
<1>7. DamageInv'
  <2>1. failed' \subseteq {t \in TxIds : Damaged(t)'}
    BY DEF Quiet, SessInv, DamageInv
  <2>2. \A r \in 1 .. Len(records) : "DEAD" \in records[r].flags => Damaged(inserter[r])'
    BY <1>1 DEF Quiet, SessInv, DamageInv, Damaged
  <2>3. ASSUME NEW t \in TxIds, NEW i \in 1 .. Len(write_set[t]), write_set[t][i].type = "DELETE"
        PROVE  /\ "DEAD" \in write_set[t][i].prev.flags => Damaged(inserter[write_set[t][i].rid])'
               /\ \/ Damaged(t)'
                  \/ records[write_set[t][i].rid].trx = t /\ "DEL" \in records[write_set[t][i].rid].flags
    <3>1. inserter[write_set[t][i].rid] \in TxIds
      BY <1>1, <1>6
    <3> QED
      BY <1>1, <2>3, <3>1 DEF Quiet, SessInv, DamageInv, Damaged
  <2> QED
    BY <1>1, <2>1, <2>2, <2>3 DEF DamageInv, Damaged
<1>8. MarksInv'
  BY <1>1 DEF Quiet, SessInv, MarksInv, WriteSetInv
<1>9. UndoneInv'
  <2>1. ASSUME NEW r \in 1 .. Len(records), txn_state'[records[r].trx] = "ABORTED"
        PROVE  "DEAD" \in records[r].flags
    <3>1. CASE txn_state[records[r].trx] = "ABORTED"
      BY <3>1 DEF SessInv, UndoneInv
    <3>2. CASE records[r].trx = txn /\ RollingBack /\ left = 0
      BY <3>2 DEF SessInv, UndoneInv, WroteBefore
    <3> QED
      BY <1>1, <2>1, <3>1, <3>2 DEF Quiet
  <2>2. ASSUME RollingBack'
        PROVE  /\ left' <= Len(write_set[txn'])
               /\ \A r \in 1 .. Len(records) : records[r].trx = txn' =>
                     "DEAD" \in records[r].flags \/ WroteBefore(txn', r, left')
    <3>1. CASE RollingBack /\ txn' = txn /\ left' = left
      BY <3>1 DEF SessInv, UndoneInv
    <3>2. CASE txn' \in TxIds /\ left' = Len(write_set[txn'])
      <4>1. Len(write_set[txn']) \in Nat
        BY <3>2, SessFacts DEF SessTypeOK
      <4> QED
        BY <3>2, <4>1 DEF SessInv, RecordInv, Wrote
    <3> QED
      BY <2>2, <3>1, <3>2 DEF Quiet
  <2> QED
    BY <1>1, <2>1, <2>2 DEF UndoneInv, WroteBefore
<1> QED
  BY <1>3, <1>5, <1>7, <1>8, <1>9

(* A new write hides no earlier one. *)
LEMMA KeepsWrote ==
    ASSUME SessTypeOK, txn \in TxIds, NEW wr, Keeps(wr)
    PROVE  /\ \A t \in TxIds : Len(write_set[t]) \in Nat /\ Len(write_set[t]) <= Len(write_set'[t])
           /\ \A t \in TxIds : \A i \in 1 .. Len(write_set[t]) : write_set'[t][i] = write_set[t][i]
           /\ \A t \in TxIds : \A r, n : n \in Nat /\ n <= Len(write_set[t]) /\ WroteBefore(t, r, n) => WroteBefore(t, r, n)'
           /\ \A t \in TxIds : \A r : Wrote(t, r) => Wrote(t, r)'
           /\ \A t \in TxIds : t = txn => Wrote(t, wr.rid)'
<1>1. \A t \in TxIds : Len(write_set[t]) \in Nat
  BY DEF SessTypeOK
<1>2. \A t \in TxIds : /\ Len(write_set[t]) <= Len(write_set'[t])
                       /\ \A i \in 1 .. Len(write_set[t]) : write_set'[t][i] = write_set[t][i]
  BY <1>1 DEF Keeps
<1>3. ASSUME NEW t \in TxIds, NEW r, NEW n \in Nat, n <= Len(write_set[t]), WroteBefore(t, r, n)
      PROVE  WroteBefore(t, r, n)'
  <2>1. PICK i \in 1 .. n : write_set[t][i].rid = r
    BY <1>3 DEF WroteBefore
  <2>2. i \in 1 .. Len(write_set[t])
    BY <1>1, <1>3
  <2>3. write_set'[t][i].rid = r
    BY <1>2, <2>1, <2>2
  <2> QED
    BY <2>3 DEF WroteBefore
<1>4. ASSUME NEW t \in TxIds, NEW r, Wrote(t, r)
      PROVE  Wrote(t, r)'
  <2>1. PICK i \in 1 .. Len(write_set[t]) : write_set[t][i].rid = r
    BY <1>4 DEF Wrote, WroteBefore
  <2>2. write_set'[t][i].rid = r /\ i \in 1 .. Len(write_set'[t])
    BY <1>1, <1>2, <2>1 DEF Keeps
  <2> QED
    BY <2>2 DEF Wrote, WroteBefore
<1>5. ASSUME NEW t \in TxIds, t = txn
      PROVE  Wrote(t, wr.rid)'
  <2>1. PICK n \in Nat : n = Len(write_set[t]) + 1
    BY <1>1
  <2>2. Len(write_set'[t]) = n /\ write_set'[t][n].rid = wr.rid /\ n \in 1 .. n
    BY <1>1, <1>5, <2>1 DEF Keeps
  <2> QED
    BY <2>2 DEF Wrote, WroteBefore
<1> QED
  BY <1>1, <1>2, <1>3, <1>4, <1>5

(* The transaction a command works for is the only one that is attended. *)
LEMMA OnlyAttended ==
    ASSUME SessInv, job # "none"
    PROVE  \A t \in TxIds : Attended(t) <=> t = txn
BY SessFacts DEF SessInv, JobInv, Attended

LEMMA InsertedTable ==
    ASSUME SessInv, Inserted, txn \in TxIds, phase[txn] = "running", job # "none", phase' = phase,
           txn_state' = txn_state, UNCHANGED <<session, job, txn, left, failed, given_up>>
    PROVE  RecordInv' /\ WriteSetInv' /\ DamageInv' /\ MarksInv' /\ UndoneInv'
<1>1. PICK new \in Nat : new = Len(records) + 1
  BY TableFacts
<1>2. PICK wr : wr = [type |-> "INSERT", rid |-> new, prev |-> NoHeader]
  OBVIOUS
<1>3. Keeps(wr) /\ wr.type = "INSERT" /\ wr.rid = new
  BY <1>1, <1>2 DEF Inserted
<1>4. /\ Len(records') = new /\ Len(inserter') = new
      /\ 1 .. Len(records') = (1 .. Len(records)) \union {new} /\ new \notin 1 .. Len(records)
      /\ \A r \in 1 .. Len(records) : records'[r] = records[r] /\ inserter'[r] = inserter[r]
      /\ records'[new] = [trx |-> txn, flags |-> {}] /\ inserter'[new] = txn
  BY <1>1, TableFacts DEF Inserted
<1>5. /\ \A t \in TxIds : \A i \in 1 .. Len(write_set[t]) : write_set'[t][i] = write_set[t][i]
      /\ \A t \in TxIds : \A r, n : n \in Nat /\ n <= Len(write_set[t]) /\ WroteBefore(t, r, n) => WroteBefore(t, r, n)'
      /\ \A t \in TxIds : \A r : Wrote(t, r) => Wrote(t, r)'
      /\ \A t \in TxIds : t = txn => Wrote(t, new)'
  BY <1>3, KeepsWrote, SessFacts
<1>6. \A t \in TxIds : \A i \in 1 .. Len(write_set'[t]) :
         i \in 1 .. Len(write_set[t]) \/ (t = txn /\ write_set'[t][i] = wr)
  BY <1>3, TableFacts DEF Keeps
<1>7. RecordInv'
  <2>1. ASSUME NEW r \in 1 .. Len(records)
        PROVE  /\ \A t : t = records[r].trx \/ t = inserter[r] => Wrote(t, r)'
               /\ "DEL" \notin records[r].flags => records[r].trx = inserter[r]
    BY <1>5, TableFacts DEF SessInv, RecordInv
  <2>2. \A t : t = txn => Wrote(t, new)'
    BY <1>5
  <2>3. ASSUME NEW r \in 1 .. Len(records'), NEW t, NEW u, t = records'[r].trx, u = inserter'[r]
        PROVE  Wrote(t, r)' /\ Wrote(u, r)' /\ ("DEL" \notin records'[r].flags => t = u)
    <3>1. CASE r \in 1 .. Len(records)
      BY <1>4, <2>1, <2>3, <3>1
    <3>2. CASE r = new
      BY <1>4, <2>2, <2>3, <3>2
    <3> QED
      BY <1>4, <3>1, <3>2
  <2>4. ASSUME NEW r \in 1 .. Len(records')
        PROVE  /\ Wrote(records[r].trx, r)' /\ Wrote(inserter[r], r)'
               /\ "DEL" \notin records'[r].flags => records'[r].trx = inserter'[r]
    <3>1. PICK t, u : t = records'[r].trx /\ u = inserter'[r]
      OBVIOUS
    <3>2. Wrote(t, r)' /\ Wrote(u, r)' /\ ("DEL" \notin records'[r].flags => t = u)
      BY <2>3, <3>1
    <3> QED
      BY <3>1, <3>2 DEF Wrote, WroteBefore
  <2> QED
    BY <1>4, <2>4 DEF RecordInv
<1>8. WriteSetInv'
  <2>1. ASSUME NEW t \in TxIds, NEW i \in 1 .. Len(write_set'[t]), i \in 1 .. Len(write_set[t])
        PROVE  WriteInv(t, i)'
    <3>1. PICK q : q = write_set[t][i].rid
      OBVIOUS
    <3>2. WriteInv(t, i) /\ q \in 1 .. Len(records) /\ write_set'[t][i] = write_set[t][i]
          /\ inserter'[q] = inserter[q] /\ q \in 1 .. Len(records')
      BY <1>4, <1>5, <2>1, <3>1, TableFacts
    <3>3. WroteBefore(t, q, i - 1) => WroteBefore(t, q, i - 1)'
      <4>1. i - 1 \in Nat /\ i - 1 <= Len(write_set[t])
        BY <2>1, TableFacts
      <4> QED
        BY <1>5, <4>1
    <3> QED
      BY <3>1, <3>2, <3>3 DEF WriteInv, WroteBefore
  <2>2. ASSUME NEW t \in TxIds, NEW i \in 1 .. Len(write_set'[t]), t = txn, write_set'[t][i] = wr
        PROVE  WriteInv(t, i)'
    BY <1>3, <1>4, <2>2 DEF WriteInv
  <2>3. \A t \in TxIds : phase[t] = "none" => write_set'[t] = <<>>
    BY <1>3 DEF SessInv, WriteSetInv, Keeps
  <2> QED
    BY <1>6, <2>1, <2>2, <2>3 DEF WriteSetInv
<1>9. DamageInv'
  <2>1. failed' \subseteq {t \in TxIds : Damaged(t)'}
    BY DEF SessInv, DamageInv, Damaged
  <2>2. ASSUME NEW r \in 1 .. Len(records'), "DEAD" \in records'[r].flags
        PROVE  Damaged(inserter[r])'
    <3>1. r \in 1 .. Len(records) /\ records'[r] = records[r] /\ inserter'[r] = inserter[r]
      BY <1>4, <2>2
    <3>2. Damaged(inserter[r])
      BY <2>2, <3>1 DEF SessInv, DamageInv
    <3> QED
      BY <3>1, <3>2 DEF Damaged
  <2>3. ASSUME NEW t \in TxIds, NEW i \in 1 .. Len(write_set'[t]), NEW w, w = write_set'[t][i], w.type = "DELETE"
        PROVE  /\ "DEAD" \in w.prev.flags => Damaged(inserter[w.rid])'
               /\ Damaged(t)' \/ (records'[w.rid].trx = t /\ "DEL" \in records'[w.rid].flags)
    <3>1. i \in 1 .. Len(write_set[t])
      BY <1>3, <1>6, <2>3
    <3>2. w = write_set[t][i] /\ w.rid \in 1 .. Len(records)
      BY <1>5, <2>3, <3>1, TableFacts
    <3>3. /\ "DEAD" \in w.prev.flags => Damaged(inserter[w.rid])
          /\ Damaged(t) \/ (records[w.rid].trx = t /\ "DEL" \in records[w.rid].flags)
      BY <2>3, <3>1, <3>2 DEF SessInv, DamageInv
    <3> QED
      BY <1>4, <3>2, <3>3 DEF Damaged
  <2> QED
    BY <2>1, <2>2, <2>3 DEF DamageInv
<1>10. MarksInv'
  <2>1. ASSUME NEW t \in TxIds, Attended(t)', NEW i \in 1 .. Len(write_set'[t]), NEW w, w = write_set'[t][i], w.type = "DELETE"
        PROVE  records'[w.rid].trx = t \/ "DEL" \notin records'[w.rid].flags
    <3>1. i \in 1 .. Len(write_set[t]) /\ Attended(t)
      BY <1>3, <1>6, <2>1 DEF Attended
    <3>2. w = write_set[t][i] /\ w.rid \in 1 .. Len(records)
      BY <1>5, <2>1, <3>1, TableFacts
    <3> QED
      BY <1>4, <2>1, <3>1, <3>2 DEF SessInv, MarksInv
  <2> QED
    BY <2>1 DEF MarksInv
<1>11. UndoneInv'
  <2>1. txn_state[txn] # "ABORTED"
    BY SessFacts
  <2>2. \A r \in 1 .. Len(records') : txn_state'[records'[r].trx] = "ABORTED" => "DEAD" \in records'[r].flags
    BY <1>4, <2>1 DEF SessInv, UndoneInv
  <2>3. ~RollingBack'
    BY DEF RollingBack
  <2> QED
    BY <2>2, <2>3 DEF UndoneInv
<1> QED
  BY <1>7, <1>8, <1>9, <1>10, <1>11

LEMMA MarkedTable ==
    ASSUME SessInv, NEW k \in 1 .. Len(records), Marked(k), txn \in TxIds, phase[txn] = "running",
           job # "none", phase' = phase, txn_state' = txn_state,
           UNCHANGED <<session, job, txn, left, failed, given_up>>
    PROVE  RecordInv' /\ WriteSetInv' /\ DamageInv' /\ MarksInv' /\ UndoneInv'
<1>1. PICK wr : wr = [type |-> "DELETE", rid |-> k, prev |-> records[k]]
  OBVIOUS
<1>2. Keeps(wr) /\ wr.type = "DELETE" /\ wr.rid = k /\ wr.prev = records[k]
  BY <1>1 DEF Marked
<1>3. /\ Len(records') = Len(records) /\ inserter' = inserter
      /\ \A r \in 1 .. Len(records) : r # k => records'[r] = records[r]
      /\ records'[k].trx = txn /\ records'[k].flags = records[k].flags \union {"DEL"}
      /\ "DEL" \notin records[k].flags
      /\ records[k].trx = txn \/ txn_state[records[k].trx] = "COMMITTED"
  BY DEF Marked, Others
<1>4. /\ \A t \in TxIds : \A i \in 1 .. Len(write_set[t]) : write_set'[t][i] = write_set[t][i]
      /\ \A t \in TxIds : \A r, n : n \in Nat /\ n <= Len(write_set[t]) /\ WroteBefore(t, r, n) => WroteBefore(t, r, n)'
      /\ \A t \in TxIds : \A r : Wrote(t, r) => Wrote(t, r)'
      /\ \A t \in TxIds : t = txn => Wrote(t, k)'
  BY <1>2, KeepsWrote, SessFacts
<1>5. \A t \in TxIds : \A i \in 1 .. Len(write_set'[t]) :
         \/ i \in 1 .. Len(write_set[t])
         \/ t = txn /\ write_set'[t][i] = wr /\ i = Len(write_set[t]) + 1
  BY <1>2, TableFacts DEF Keeps
<1>6. RecordInv'
  <2>1. ASSUME NEW r \in 1 .. Len(records)
        PROVE  /\ \A t : t = records[r].trx \/ t = inserter[r] => Wrote(t, r)'
               /\ "DEL" \notin records[r].flags => records[r].trx = inserter[r]
    BY <1>4, TableFacts DEF SessInv, RecordInv
  <2>2. \A t : t = txn => Wrote(t, k)'
    BY <1>4
  <2>3. ASSUME NEW r \in 1 .. Len(records), NEW t, NEW u, t = records'[r].trx, u = inserter[r]
        PROVE  Wrote(t, r)' /\ Wrote(u, r)' /\ ("DEL" \notin records'[r].flags => t = u)
    <3>1. CASE r # k
      BY <1>3, <2>1, <2>3, <3>1
    <3>2. CASE r = k
      BY <1>3, <2>1, <2>2, <2>3, <3>2
    <3> QED
      BY <3>1, <3>2
  <2>4. ASSUME NEW r \in 1 .. Len(records)
        PROVE  /\ Wrote(records[r].trx, r)' /\ Wrote(inserter[r], r)'
               /\ "DEL" \notin records'[r].flags => records'[r].trx = inserter'[r]
    <3>1. PICK t, u : t = records'[r].trx /\ u = inserter[r]
      OBVIOUS
    <3>2. Wrote(t, r)' /\ Wrote(u, r)' /\ ("DEL" \notin records'[r].flags => t = u)
      BY <2>3, <3>1
    <3> QED
      BY <1>3, <3>1, <3>2 DEF Wrote, WroteBefore
  <2> QED
    BY <1>3, TableFacts, <2>4 DEF RecordInv
<1>7. records[k].trx = inserter[k] /\ inserter[k] \in TxIds
  BY <1>3, TableFacts DEF SessInv, RecordInv
<1>8. WriteSetInv'
  <2>1. ASSUME NEW t \in TxIds, NEW i \in 1 .. Len(write_set'[t]), i \in 1 .. Len(write_set[t])
        PROVE  WriteInv(t, i)'
    <3>1. PICK q : q = write_set[t][i].rid
      OBVIOUS
    <3>2. WriteInv(t, i) /\ q \in 1 .. Len(records) /\ write_set'[t][i] = write_set[t][i]
      BY <1>4, <2>1, <3>1, TableFacts
    <3>3. WroteBefore(t, q, i - 1) => WroteBefore(t, q, i - 1)'
      <4>1. i - 1 \in Nat /\ i - 1 <= Len(write_set[t])
        BY <2>1, TableFacts
      <4> QED
        BY <1>4, <4>1
    <3> QED
      BY <1>3, <3>1, <3>2, <3>3 DEF WriteInv, WroteBefore
  <2>2. ASSUME NEW t \in TxIds, NEW i \in 1 .. Len(write_set'[t]), t = txn, write_set'[t][i] = wr,
               i = Len(write_set[t]) + 1
        PROVE  WriteInv(t, i)'
    <3>1. inserter[k] = t => WroteBefore(t, k, i - 1)'
      <4>1. i - 1 = Len(write_set[t]) /\ i - 1 \in Nat /\ i - 1 <= Len(write_set[t])
        BY <2>2, TableFacts
      <4>2. inserter[k] = t => WroteBefore(t, k, i - 1)
        BY <4>1 DEF SessInv, RecordInv, Wrote
      <4> QED
        BY <1>4, <4>1, <4>2
    <3> QED
      BY <1>2, <1>3, <1>7, <2>2, <3>1 DEF WriteInv, WroteBefore
  <2>3. \A t \in TxIds : phase[t] = "none" => write_set'[t] = <<>>
    BY <1>2 DEF SessInv, WriteSetInv, Keeps
  <2> QED
    BY <1>5, <2>1, <2>2, <2>3 DEF WriteSetInv
<1>9. DamageInv'
  <2>1. failed' \subseteq {t \in TxIds : Damaged(t)'}
    BY DEF SessInv, DamageInv, Damaged
  <2>2. \A r \in 1 .. Len(records') : "DEAD" \in records'[r].flags => Damaged(inserter[r])'
    BY <1>3 DEF SessInv, DamageInv, Damaged
  <2>3. ASSUME NEW t \in TxIds, NEW i \in 1 .. Len(write_set'[t]), NEW w, w = write_set'[t][i], w.type = "DELETE"
        PROVE  /\ "DEAD" \in w.prev.flags => Damaged(inserter[w.rid])'
               /\ Damaged(t)' \/ (records'[w.rid].trx = t /\ "DEL" \in records'[w.rid].flags)
    <3>1. CASE i \in 1 .. Len(write_set[t])
      <4>1. w = write_set[t][i] /\ w.rid \in 1 .. Len(records)
        BY <1>4, <2>3, <3>1, TableFacts
      <4>2. /\ "DEAD" \in w.prev.flags => Damaged(inserter[w.rid])
            /\ Damaged(t) \/ (records[w.rid].trx = t /\ "DEL" \in records[w.rid].flags)
        BY <2>3, <3>1, <4>1 DEF SessInv, DamageInv
      <4> QED
        BY <1>3, <4>1, <4>2 DEF Damaged
    <3>2. CASE t = txn /\ w = wr
      BY <1>2, <1>3, <3>2 DEF SessInv, DamageInv, Damaged
    <3> QED
      BY <1>5, <2>3, <3>1, <3>2
  <2> QED
    BY <2>1, <2>2, <2>3 DEF DamageInv
<1>10. MarksInv'
  <2>1. ASSUME NEW t \in TxIds, Attended(t)', NEW i \in 1 .. Len(write_set'[t]), NEW w, w = write_set'[t][i], w.type = "DELETE"
        PROVE  records'[w.rid].trx = t \/ "DEL" \notin records'[w.rid].flags
    <3>1. Attended(t) /\ t = txn
      BY <2>1, OnlyAttended DEF Attended
    <3>2. CASE i \in 1 .. Len(write_set[t])
      <4>1. w = write_set[t][i] /\ w.rid \in 1 .. Len(records)
        BY <1>4, <2>1, <3>2, TableFacts
      <4>2. records[w.rid].trx = t \/ "DEL" \notin records[w.rid].flags
        BY <2>1, <3>1, <3>2, <4>1 DEF SessInv, MarksInv
      <4> QED
        BY <1>3, <3>1, <4>1, <4>2
    <3>3. CASE w = wr
      BY <1>2, <1>3, <3>1, <3>3
    <3> QED
      BY <1>5, <2>1, <3>2, <3>3
  <2> QED
    BY <2>1 DEF MarksInv
<1>11. UndoneInv'
  <2>1. txn_state[txn] # "ABORTED"
    BY SessFacts
  <2>2. \A r \in 1 .. Len(records') : txn_state'[records'[r].trx] = "ABORTED" => "DEAD" \in records'[r].flags
    BY <1>3, <2>1 DEF SessInv, UndoneInv
  <2>3. ~RollingBack'
    BY DEF RollingBack
  <2> QED
    BY <2>2, <2>3 DEF UndoneInv
<1> QED
  BY <1>6, <1>8, <1>9, <1>10, <1>11

(* A visit of roll-back, the first or a later one of the same write. *)
LEMMA UndoTable ==
    ASSUME SessInv, UndoWrite
    PROVE  RecordInv' /\ WriteSetInv' /\ DamageInv' /\ MarksInv' /\ UndoneInv'
<1>1. PICK n \in Nat, k \in 1 .. Len(records), m \in TxIds :
         n = left /\ k = Visited.rid /\ m = txn /\ n \in 1 .. Len(write_set[m])
  <2>1. txn \in TxIds /\ left \in 1 .. Len(write_set[txn])
    BY UndoTypes
  <2>2. Visited.rid \in 1 .. Len(records) /\ left \in Nat
    BY <2>1, TableFacts DEF Visited
  <2> QED
    BY <2>1, <2>2
<1>2. PICK v : v = Visited
  OBVIOUS
<1>3. /\ write_set[m][n] = v /\ v.rid = k /\ WriteInv(m, n) /\ phase[m] = "rollback" /\ job # "none"
      /\ left' = n - 1 /\ write_set' = write_set /\ inserter' = inserter
      /\ phase' = phase /\ txn_state' = txn_state
      /\ UNCHANGED <<session, job, txn, failed, given_up>>
      /\ n <= Len(write_set[m])
  BY <1>1, <1>2, UndoTypes, TableFacts DEF Visited, RollingBack
<1>4. /\ Len(records') = Len(records)
      /\ \A r \in 1 .. Len(records) : r # k => records'[r] = records[r]
      /\ \/ /\ v.type = "INSERT" /\ records'[k].trx = records[k].trx
            /\ records'[k].flags = records[k].flags \union {"DEAD"}
         \/ v.type = "DELETE" /\ records'[k] = v.prev
  BY <1>1, <1>2, UndoTypes DEF MadeDead, Restored, Others
<1>5. /\ v.type = "INSERT" => inserter[k] = m
      /\ v.type = "DELETE" =>
            /\ v.prev.trx = inserter[k] /\ "DEL" \notin v.prev.flags
            /\ IF inserter[k] = m THEN WroteBefore(m, k, n - 1) ELSE txn_state[inserter[k]] = "COMMITTED"
  BY <1>3 DEF WriteInv
<1>6. RecordInv'
  <2>1. ASSUME NEW r \in 1 .. Len(records)
        PROVE  /\ \A t : t = records[r].trx \/ t = inserter[r] => Wrote(t, r)
               /\ "DEL" \notin records[r].flags => records[r].trx = inserter[r]
    BY TableFacts DEF SessInv, RecordInv
  <2>2. ASSUME NEW r \in 1 .. Len(records), NEW t, NEW u, t = records'[r].trx, u = inserter[r]
        PROVE  Wrote(t, r) /\ Wrote(u, r) /\ ("DEL" \notin records'[r].flags => t = u)
    <3>1. CASE r # k
      BY <1>4, <2>1, <2>2, <3>1
    <3>2. CASE r = k
      BY <1>4, <1>5, <2>1, <2>2, <3>2
    <3> QED
      BY <3>1, <3>2
  <2>3. ASSUME NEW r \in 1 .. Len(records)
        PROVE  /\ Wrote(records[r].trx, r)' /\ Wrote(inserter[r], r)'
               /\ "DEL" \notin records'[r].flags => records'[r].trx = inserter'[r]
    <3>1. PICK t, u : t = records'[r].trx /\ u = inserter[r]
      OBVIOUS
    <3>2. Wrote(t, r) /\ Wrote(u, r) /\ ("DEL" \notin records'[r].flags => t = u)
      BY <2>2, <3>1
    <3> QED
      BY <1>3, <3>1, <3>2 DEF Wrote, WroteBefore
  <2> QED
    BY <1>3, <1>4, TableFacts, <2>3 DEF RecordInv
<1>7. WriteSetInv'
  <2>1. ASSUME NEW t \in TxIds, NEW i \in 1 .. Len(write_set[t]) PROVE WriteInv(t, i)'
    BY <1>3, <1>4, TableFacts DEF WriteInv, WroteBefore
  <2> QED
    BY <1>3, <2>1 DEF SessInv, WriteSetInv
<1>8. /\ \A r \in 1 .. Len(records) : "DEAD" \in records[r].flags => Damaged(inserter[r])
      /\ \A t \in TxIds : \A i \in 1 .. Len(write_set[t]) :
            write_set[t][i].type = "DELETE" =>
                /\ "DEAD" \in write_set[t][i].prev.flags => Damaged(inserter[write_set[t][i].rid])
                /\ \/ Damaged(t)
                   \/ records[write_set[t][i].rid].trx = t /\ "DEL" \in records[write_set[t][i].rid].flags
  BY DEF SessInv, DamageInv
<1>9. Damaged(m) /\ \A t : Damaged(t)' <=> Damaged(t)
  BY <1>3 DEF Damaged
<1>10. v.type = "DELETE" => records[k].trx = m \/ "DEL" \notin records[k].flags
  <2>1. Attended(m)
    BY <1>1, <1>3, OnlyAttended
  <2> QED
    BY <1>1, <1>3, <2>1 DEF SessInv, MarksInv
<1>11. DamageInv'
  <2>1. failed' \subseteq {t \in TxIds : Damaged(t)'}
    BY <1>3 DEF SessInv, DamageInv, Damaged
  <2>2. ASSUME NEW r \in 1 .. Len(records), "DEAD" \in records'[r].flags
        PROVE  Damaged(inserter[r])
    <3>1. CASE r # k
      BY <1>4, <1>8, <2>2, <3>1
    <3>2. CASE r = k /\ v.type = "INSERT"
      BY <1>5, <1>9, <3>2
    <3>3. CASE r = k /\ v.type = "DELETE"
      BY <1>1, <1>3, <1>4, <1>8, <2>2, <3>3
    <3> QED
      BY <1>4, <3>1, <3>2, <3>3
  <2>3. ASSUME NEW t \in TxIds, NEW i \in 1 .. Len(write_set[t]), NEW w, w = write_set[t][i], w.type = "DELETE"
        PROVE  /\ "DEAD" \in w.prev.flags => Damaged(inserter[w.rid])
               /\ Damaged(t) \/ (records'[w.rid].trx = t /\ "DEL" \in records'[w.rid].flags)
    <3>1. /\ "DEAD" \in w.prev.flags => Damaged(inserter[w.rid])
          /\ Damaged(t) \/ (records[w.rid].trx = t /\ "DEL" \in records[w.rid].flags)
          /\ w.rid \in 1 .. Len(records)
      BY <1>8, <2>3, TableFacts
    <3>2. CASE w.rid # k \/ v.type = "INSERT"
      BY <1>4, <3>1, <3>2
    <3>3. CASE w.rid = k /\ v.type = "DELETE"
      BY <1>9, <1>10, <3>1, <3>3
    <3> QED
      BY <1>4, <3>2, <3>3
  <2>4. \A r \in 1 .. Len(records') : "DEAD" \in records'[r].flags => Damaged(inserter[r])'
    BY <1>3, <1>4, <2>2 DEF Damaged
  <2>5. ASSUME NEW t \in TxIds, NEW i \in 1 .. Len(write_set'[t]), NEW w, w = write_set'[t][i], w.type = "DELETE"
        PROVE  /\ "DEAD" \in w.prev.flags => Damaged(inserter[w.rid])'
               /\ Damaged(t)' \/ (records'[w.rid].trx = t /\ "DEL" \in records'[w.rid].flags)
    <3>1. /\ "DEAD" \in w.prev.flags => Damaged(inserter[w.rid])
          /\ Damaged(t) \/ (records'[w.rid].trx = t /\ "DEL" \in records'[w.rid].flags)
      BY <1>3, <2>3, <2>5
    <3> QED
      BY <1>3, <3>1 DEF Damaged
  <2> QED
    BY <2>1, <2>4, <2>5 DEF DamageInv
<1>12. MarksInv'
  <2>1. ASSUME NEW t \in TxIds, Attended(t), NEW i \in 1 .. Len(write_set[t]), NEW w, w = write_set[t][i], w.type = "DELETE"
        PROVE  records'[w.rid].trx = t \/ "DEL" \notin records'[w.rid].flags
    <3>1. w.rid \in 1 .. Len(records) /\ (records[w.rid].trx = t \/ "DEL" \notin records[w.rid].flags)
      BY <2>1, TableFacts DEF SessInv, MarksInv
    <3> QED
      BY <1>4, <1>5, <3>1
  <2> QED
    BY <1>3, <2>1 DEF MarksInv, Attended
<1>13. UndoneInv'
  <2>1. ASSUME NEW r \in 1 .. Len(records), txn_state[records'[r].trx] = "ABORTED"
        PROVE  "DEAD" \in records'[r].flags
    <3>1. CASE r # k
      BY <1>4, <2>1, <3>1 DEF SessInv, UndoneInv
    <3>2. CASE r = k /\ v.type = "INSERT"
      BY <1>4, <3>2
    <3>3. CASE r = k /\ v.type = "DELETE"
      <4>1. txn_state[m] # "ABORTED"
        BY <1>3, SessFacts
      <4> QED
        BY <1>4, <1>5, <2>1, <3>3, <4>1
    <3> QED
      BY <1>4, <3>1, <3>2, <3>3
  <2>2. ASSUME NEW r \in 1 .. Len(records), records'[r].trx = m
        PROVE  "DEAD" \in records'[r].flags \/ WroteBefore(m, r, n - 1)
    <3>1. CASE r # k
      <4>1. "DEAD" \in records[r].flags \/ WroteBefore(m, r, n)
        BY <1>1, <1>3, <1>4, <2>2, <3>1 DEF SessInv, UndoneInv, RollingBack
      <4>2. ASSUME WroteBefore(m, r, n) PROVE WroteBefore(m, r, n - 1)
        <5>1. PICK i \in 1 .. n : write_set[m][i].rid = r
          BY <4>2 DEF WroteBefore
        <5>2. i # n
          BY <1>3, <3>1, <5>1
        <5>3. i \in 1 .. (n - 1)
          BY <5>1, <5>2
        <5> QED
          BY <5>1, <5>3 DEF WroteBefore
      <4> QED
        BY <1>4, <3>1, <4>1, <4>2
    <3>2. CASE r = k /\ v.type = "INSERT"
      BY <1>4, <3>2
    <3>3. CASE r = k /\ v.type = "DELETE"
      BY <1>4, <1>5, <2>2, <3>3
    <3> QED
      BY <1>4, <3>1, <3>2, <3>3
  <2>3. n - 1 <= Len(write_set[m])
    BY <1>1, <1>3, TableFacts
  <2> QED
    BY <1>1, <1>3, <1>4, <2>1, <2>2, <2>3 DEF UndoneInv, WroteBefore
<1> QED
  BY <1>6, <1>7, <1>11, <1>12, <1>13

(* Every action keeps the table's invariants. *)
LEMMA TableStep ==
    ASSUME SessInv, SessionNext
    PROVE  RecordInv' /\ WriteSetInv' /\ DamageInv' /\ MarksInv' /\ UndoneInv'
<1>1. CASE Write
  BY <1>1, WriteTypes, InsertedTable, MarkedTable
<1>2. CASE UndoWrite
  BY <1>2, UndoTable
<1>3. CASE ~Write /\ ~UndoWrite
  BY <1>3, QuietStep, QuietTable
<1> QED
  BY <1>1, <1>2, <1>3

-----------------------------------------------------------------------------
THEOREM SessInitInv == SessionInit => SessInv
<1> SUFFICES ASSUME SessionInit PROVE SessInv
  OBVIOUS
<1>1. TxnInv
  BY TxnInitInv DEF SessionInit
<1>2. /\ phase = [t \in TxIds |-> "none"] /\ txn_state = [t \in TxIds |-> "UNKNOWN"]
      /\ write_set = [t \in TxIds |-> <<>>] /\ records = <<>> /\ inserter = <<>> /\ num_rows = 0
      /\ session = INVALID_TX_ID /\ job = "none" /\ txn = INVALID_TX_ID
      /\ left = 0 /\ failed = {} /\ given_up = {}
  BY DEF SessionInit, TxnInit
<1>3. SessTypeOK
  BY <1>2 DEF SessTypeOK, Jobs
<1>4. JobInv /\ AttendedInv
  BY <1>2 DEF JobInv, InExplicitTxn, AttendedInv
<1>5. RecordInv /\ WriteSetInv /\ DamageInv /\ MarksInv /\ UndoneInv
  BY <1>2 DEF RecordInv, WriteSetInv, DamageInv, MarksInv, UndoneInv, RollingBack
<1> QED
  BY <1>1, <1>3, <1>4, <1>5 DEF SessInv

(***************************************************************************)
(* SessInv is an inductive invariant of the terminal, for any number of    *)
(* transactions and writes.                                                *)
(***************************************************************************)
THEOREM SessInvariance == SessionSpec => []SessInv
<1>1. SessInv /\ [SessionNext]_<<txnVars, sessionVars>> => SessInv'
  <2> SUFFICES ASSUME SessInv, [SessionNext]_<<txnVars, sessionVars>>
               PROVE  SessInv'
    OBVIOUS
  <2>1. CASE SessionNext
    BY <2>1, SessionTxnStep, SessTypeStep, JobStep, AttendedStep, TableStep DEF SessInv
  <2>2. CASE UNCHANGED <<txnVars, sessionVars>>
    <3>1. UNCHANGED txnVars /\ UNCHANGED sessionVars
      BY <2>2
    <3>2. TxnInv'
      BY <3>1, TxnStep DEF SessInv
    <3>3. SessTypeOK' /\ JobInv' /\ AttendedInv'
      BY <3>1 DEF SessInv, SessTypeOK, JobInv, InExplicitTxn, AttendedInv, Attended,
                  txnVars, sessionVars, tableVars
    <3>4. /\ UNCHANGED tableVars /\ phase' = phase /\ txn_state' = txn_state
          /\ UNCHANGED <<session, job, txn, left, failed, given_up>> /\ failed \subseteq TxIds
      BY <3>1, SessFacts DEF txnVars, sessionVars, SessTypeOK
    <3>5. Quiet
      BY <3>4 DEF Quiet, Damaged, Attended, RollingBack
    <3> QED
      BY <3>2, <3>3, <3>5, QuietTable DEF SessInv
  <2> QED
    BY <2>1, <2>2
<1> QED
  BY <1>1, SessInitInv, PTL DEF SessionSpec

(***************************************************************************)
(* At the prompt the session's transaction is active and running: COMMIT,  *)
(* ROLLBACK and the next statement find it.                                *)
(***************************************************************************)
THEOREM SessionTxnTheorem == SessionSpec => []SessionTxnIsActive
<1>1. SessInv => SessionTxnIsActive
  BY SessFacts DEF SessInv, JobInv, TxnInv, PhaseInv, SessionTxnIsActive
<1> QED
  BY <1>1, SessInvariance, PTL

(***************************************************************************)
(* No transaction stays active behind the session's back, except one whose *)
(* roll-back threw.                                                        *)
(***************************************************************************)
THEOREM NoLeakTheorem == SessionSpec => []NoLeakedTxn
<1>1. SessInv => NoLeakedTxn
  BY DEF SessInv, AttendedInv, Attended, TxnInv, TxnTypeOK, PhaseInv, NoLeakedTxn
<1> QED
  BY <1>1, SessInvariance, PTL

(***************************************************************************)
(* Atomicity, one half: of a committed transaction no statement failed, no *)
(* inserted record is dead and every mark stands, unless a roll-back of it *)
(* threw before.                                                           *)
(***************************************************************************)
THEOREM CommittedTheorem == SessionSpec => []CommittedIsWhole
<1>1. ASSUME SessInv PROVE CommittedIsWhole
  <2>1. \A t \in TxIds \ given_up : txn_state[t] = "COMMITTED" => ~Damaged(t)
    BY <1>1, SessFacts DEF Damaged
  <2>2. \A t \in TxIds : DOMAIN write_set[t] = 1 .. Len(write_set[t])
    BY <1>1, SessFacts DEF SessTypeOK
  <2>3. ASSUME NEW t \in TxIds, ~Damaged(t), NEW i \in 1 .. Len(write_set[t]), NEW wr, wr = write_set[t][i]
        PROVE  IF wr.type = "INSERT" THEN "DEAD" \notin records[wr.rid].flags
                                     ELSE records[wr.rid].trx = t /\ "DEL" \in records[wr.rid].flags
    <3>1. WriteInv(t, i) /\ wr.rid \in 1 .. Len(records)
      BY <1>1, <2>3, TableFacts
    <3>2. wr.type \in {"INSERT", "DELETE"}
      <4>1. write_set[t] \in Seq(WriteRecords)
        BY <1>1, SessFacts DEF SessTypeOK
      <4>2. wr \in WriteRecords
        BY <2>3, <4>1
      <4> QED
        BY ONLY <4>2 DEF WriteRecords
    <3> QED
      BY <1>1, <2>3, <3>1, <3>2 DEF WriteInv, SessInv, DamageInv
  <2>4. \A t \in TxIds : ~Damaged(t) => t \notin failed
    BY <1>1 DEF SessInv, DamageInv
  <2> QED
    BY <2>1, <2>2, <2>3, <2>4 DEF CommittedIsWhole
<1> QED
  BY <1>1, SessInvariance, PTL

(***************************************************************************)
(* Atomicity, the other half: of an aborted transaction only dead records  *)
(* carry the id, however often the roll-back threw and was tried again,    *)
(* and although a second visit of a mark clears the dead flag.             *)
(***************************************************************************)
THEOREM AbortedTheorem == SessionSpec => []AbortedIsUndone
<1>1. ASSUME SessInv PROVE AbortedIsUndone
  <2>1. DOMAIN records = 1 .. Len(records)
    BY <1>1, SessFacts DEF SessTypeOK
  <2>2. \A r \in 1 .. Len(records) : txn_state[records[r].trx] = "ABORTED" => "DEAD" \in records[r].flags
    BY <1>1 DEF SessInv, UndoneInv
  <2> QED
    BY <2>1, <2>2 DEF AbortedIsUndone
<1> QED
  BY <1>1, SessInvariance, PTL
=============================================================================
