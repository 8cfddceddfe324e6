------------------------- MODULE TransactionManager -------------------------
(***************************************************************************)
(* src/src/transaction/transaction_manager.cpp: transaction ids, the       *)
(* states of transactions, read views, and the control records that        *)
(* Commit and Abort write to the log.                                      *)
(*                                                                         *)
(* A call is split where the code drops mutex_ or calls another component: *)
(* Begin registers the id under one lock and takes its read view under     *)
(* another; Commit publishes the state, then appends and flushes the log   *)
(* without the lock; Abort looks the transaction up, rolls its writes back *)
(* without the lock, publishes the state, then logs.  Whether other calls  *)
(* run between these steps is the constant OneThread: the shipped terminal *)
(* has one thread, the class is written (mutex_) for several.              *)
(*                                                                         *)
(* The log is what LogBuffer makes of it: a sequence of records, those at  *)
(* the indices in durable known to be on disk.  For its only client        *)
(* LogBuffer is the abstract log that FlushLog forces (LogBuffer's run and *)
(* proofs); with several clients a flush promises nothing (FlushLog).      *)
(***************************************************************************)
EXTENDS ReadView, Sequences

CONSTANTS MaxTxid,    \* bound: transactions begun in one behaviour
          OneThread   \* TRUE: a call runs to its end before the next starts

ASSUME MaxTxidAssumption == MaxTxid \in Nat
ASSUME OneThreadAssumption == OneThread \in BOOLEAN

TxIds == 1 .. MaxTxid

VARIABLES
    next_txid,      \* next_txid_
    active_txns,    \* the domain of the map active_txns
    txn_state,      \* txn_state_ (and Transaction::state_, set with it)
    read_view,      \* Transaction::read_view_
    phase,          \* how far the call that works on the transaction is
    log,            \* control records appended, oldest first
    durable,        \* the indices of the records of log known to be on disk
    snapshot        \* history: what had committed when read_view was taken

txnVars == <<next_txid, active_txns, txn_state, read_view, phase, log,
             durable, snapshot>>

Phases == {"none", "begun", "running", "committing", "commit_logged",
           "rollback", "aborting", "abort_logged", "ended"}

LogRecords == [tx : TxIds, type : {"COMMIT", "ABORT"}]

TxnTypeOK ==
    /\ next_txid \in 1 .. (MaxTxid + 1)
    /\ active_txns \subseteq TxIds
    /\ txn_state \in [TxIds -> TransactionState]
    /\ read_view \in [TxIds -> [create : 0 .. MaxTxid, low : Nat, up : Nat,
                                active : SUBSET TxIds]]
    /\ phase \in [TxIds -> Phases]
    /\ log \in Seq(LogRecords)
    /\ durable \subseteq 1 .. Len(log)
    /\ snapshot \in [TxIds -> SUBSET TxIds]

TxnInit ==
    /\ next_txid = 1
    /\ active_txns = {}
    /\ txn_state = [t \in TxIds |-> "UNKNOWN"]
    /\ read_view = [t \in TxIds |-> NoReadView]
    /\ phase = [t \in TxIds |-> "none"]
    /\ log = <<>>
    /\ durable = {}
    /\ snapshot = [t \in TxIds |-> {}]

CommittedTxns == {t \in TxIds : txn_state[t] = "COMMITTED"}

(* Transaction u is inside a call of the manager. *)
MidCall(u) == phase[u] \notin {"none", "running", "ended"}

(* t may take a step: with one thread no other call is half done. *)
MayStep(t) == OneThread => \A u \in TxIds \ {t} : ~MidCall(u)

-----------------------------------------------------------------------------
(* Begin, first critical section: the id is taken and registered. *)
BeginRegister(t) ==
    /\ MayStep(t)
    /\ t = next_txid
    /\ next_txid' = next_txid + 1
    /\ active_txns' = active_txns \union {t}
    /\ txn_state' = [txn_state EXCEPT ![t] = "IN_PROGRESS"]
    /\ phase' = [phase EXCEPT ![t] = "begun"]
    /\ UNCHANGED <<read_view, log, durable, snapshot>>

(* CreateReadView(t), under the lock. *)
CreateReadView(t) ==
    /\ read_view' = [read_view EXCEPT
                        ![t] = MakeReadView(t, next_txid, active_txns, txn_state)]
    /\ snapshot' = [snapshot EXCEPT ![t] = CommittedTxns]
    /\ UNCHANGED <<next_txid, active_txns, txn_state, log, durable>>

(* Begin, second critical section. *)
BeginReadView(t) ==
    /\ MayStep(t)
    /\ phase[t] = "begun"
    /\ CreateReadView(t)
    /\ phase' = [phase EXCEPT ![t] = "running"]

(* READ COMMITTED: the statement loop takes a fresh view per statement. *)
RefreshReadView(t) ==
    /\ MayStep(t)
    /\ phase[t] = "running"
    /\ CreateReadView(t)
    /\ UNCHANGED phase

(* A plausible slip: the transaction stays in active_txns. *)
EndStateKeepsActive(t, s) ==
    /\ t \in active_txns
    /\ txn_state' = [txn_state EXCEPT ![t] = s]
    /\ UNCHANGED <<next_txid, active_txns, read_view, log, durable, snapshot>>

(* A transaction that is not active is refused: Commit and Abort throw. *)
EndState(t, s) ==
    /\ t \in active_txns
    /\ txn_state' = [txn_state EXCEPT ![t] = s]
    /\ active_txns' = active_txns \ {t}
    /\ UNCHANGED <<next_txid, read_view, log, durable, snapshot>>

(* Commit, critical section: the state is published. *)
CommitPublish(t) ==
    /\ MayStep(t)
    /\ phase[t] = "running"
    /\ EndState(t, "COMMITTED")
    /\ phase' = [phase EXCEPT ![t] = "committing"]

(* WriteTxnControlLog: appended to the log buffer, not yet on disk. *)
WriteTxnControlLog(t, type) ==
    /\ log' = Append(log, [tx |-> t, type |-> type])
    /\ UNCHANGED <<next_txid, active_txns, txn_state, read_view, durable, snapshot>>

CommitLog(t) ==
    /\ MayStep(t)
    /\ phase[t] = "committing"
    /\ WriteTxnControlLog(t, "COMMIT")
    /\ phase' = [phase EXCEPT ![t] = "commit_logged"]

(* A plausible slip: the caller does not wait for the disk. *)
FlushLogNoWait ==
    UNCHANGED <<next_txid, active_txns, txn_state, read_view, log, snapshot, durable>>

(* A plausible slip: one record too many is taken to be on disk. *)
FlushLogPastEnd ==
    /\ durable' = 1 .. (Len(log) + 1)
    /\ UNCHANGED <<next_txid, active_txns, txn_state, read_view, log, snapshot>>

(* log_->Flush().  Called by the only client of the log buffer it returns  *)
(* once everything appended is on disk.  With other clients about it may   *)
(* return at once although the caller's bytes are in the other buffer, and *)
(* a second swap can drop bytes that the backend has not read yet: then    *)
(* any part of what was appended may be missing.                           *)
FlushLog ==
    /\ IF OneThread
       THEN durable' = 1 .. Len(log)
       ELSE durable' \in {S \union durable : S \in SUBSET (1 .. Len(log))}
    /\ UNCHANGED <<next_txid, active_txns, txn_state, read_view, log, snapshot>>

(* Commit returns: the commit is acknowledged to the client. *)
CommitFlush(t) ==
    /\ MayStep(t)
    /\ phase[t] = "commit_logged"
    /\ FlushLog
    /\ phase' = [phase EXCEPT ![t] = "ended"]

(* Abort: the transaction is looked up, then its writes are rolled back. *)
AbortLookup(t) ==
    /\ MayStep(t)
    /\ phase[t] = "running"
    /\ t \in active_txns
    /\ phase' = [phase EXCEPT ![t] = "rollback"]
    /\ UNCHANGED <<next_txid, active_txns, txn_state, read_view, log, durable, snapshot>>

AbortPublish(t) ==
    /\ MayStep(t)
    /\ phase[t] = "rollback"
    /\ EndState(t, "ABORTED")
    /\ phase' = [phase EXCEPT ![t] = "aborting"]

AbortLog(t) ==
    /\ MayStep(t)
    /\ phase[t] = "aborting"
    /\ WriteTxnControlLog(t, "ABORT")
    /\ phase' = [phase EXCEPT ![t] = "abort_logged"]

AbortFlush(t) ==
    /\ MayStep(t)
    /\ phase[t] = "abort_logged"
    /\ FlushLog
    /\ phase' = [phase EXCEPT ![t] = "ended"]

TxnNext ==
    \E t \in TxIds :
        \/ BeginRegister(t)
        \/ BeginReadView(t)
        \/ RefreshReadView(t)
        \/ CommitPublish(t)
        \/ CommitLog(t)
        \/ CommitFlush(t)
        \/ AbortLookup(t)
        \/ AbortPublish(t)
        \/ AbortLog(t)
        \/ AbortFlush(t)

TxnSpec == TxnInit /\ [][TxnNext]_txnVars

-----------------------------------------------------------------------------
(* The transactions whose versions t's view shows, at any moment. *)
Visible(t) == {v \in TxIds : IsVisible(read_view[t], txn_state, v)}

(* t holds a read view. *)
HasView(t) == phase[t] \notin {"none", "begun"}

(***************************************************************************)
(* A read view is a snapshot: although ReadView::IsVisible consults the    *)
(* states as they are when it is called, what it shows is exactly the      *)
(* transaction itself and what had committed when the view was created,    *)
(* whatever commits, aborts or begins afterwards.                          *)
(***************************************************************************)
ReadViewIsSnapshot ==
    \A t \in TxIds : HasView(t) => Visible(t) = snapshot[t] \union {t}

(***************************************************************************)
(* Two read views never disagree about the order of commits: leaving each  *)
(* owner's own writes aside, one shows no more than the other.  So a view  *)
(* that shows a transaction shows everything that transaction had seen.    *)
(* (CreateReadView runs after Begin released the lock, so a view may be    *)
(* older or younger than its transaction id suggests.)                     *)
(***************************************************************************)
ViewsAreOrdered ==
    \A t, u \in TxIds :
        HasView(t) /\ HasView(u) =>
            \/ Visible(t) \ {t} \subseteq Visible(u) \ {u}
            \/ Visible(u) \ {u} \subseteq Visible(t) \ {t}

(***************************************************************************)
(* Force-log-at-commit: when Commit has returned, the COMMIT record of the *)
(* transaction is on disk, and the log holds no ABORT record of it.  The   *)
(* promise is the terminal's, whose one thread is the log's only client    *)
(* (OneThread); LogBuffer's run with two clients shows it broken there.    *)
(***************************************************************************)
AckedCommitIsDurable ==
    \A t \in TxIds :
        phase[t] = "ended" /\ txn_state[t] = "COMMITTED" =>
            /\ \E i \in durable : log[i] = [tx |-> t, type |-> "COMMIT"]
            /\ \A i \in 1 .. Len(log) : log[i] # [tx |-> t, type |-> "ABORT"]
=============================================================================
