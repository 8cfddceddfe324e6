---------------------- MODULE TransactionManagerProofs ----------------------
(***************************************************************************)
(* Proofs about TransactionManager for any number of transactions, with or *)
(* without interleaved calls.                                              *)
(***************************************************************************)
EXTENDS TransactionManager, WellFoundedInduction, TLAPS

(***************************************************************************)
(* The inductive invariant.  PhaseInv ties the call in progress to the     *)
(* published state and to active_txns.  ViewInv is what makes a view a     *)
(* snapshot although IsVisible reads the current states: below low every   *)
(* transaction outside active had already ended when the view was taken.   *)
(* LogInv ties the log to the phases of Commit and Abort; its last part,   *)
(* what a flush promises, is for the log's only client.                    *)
(***************************************************************************)
PhaseInv ==
    \A t \in TxIds :
        /\ t < next_txid <=> phase[t] # "none"
        /\ t \in active_txns <=> phase[t] \in {"begun", "running", "rollback"}
        /\ t \in active_txns <=> txn_state[t] = "IN_PROGRESS"
        /\ phase[t] = "none" <=> txn_state[t] = "UNKNOWN"
        /\ phase[t] \in {"committing", "commit_logged"} => txn_state[t] = "COMMITTED"
        /\ phase[t] \in {"aborting", "abort_logged"} => txn_state[t] = "ABORTED"

ViewInv ==
    \A t \in TxIds : HasView(t) =>
        /\ read_view[t].create = t
        /\ t < read_view[t].low
        /\ read_view[t].low <= next_txid
        /\ t \notin snapshot[t]
        /\ \A v \in TxIds :
              /\ v \in snapshot[t] =>
                    /\ txn_state[v] = "COMMITTED"
                    /\ v < read_view[t].low
                    /\ v \notin read_view[t].active
              /\ v < read_view[t].low /\ v # t /\ v \notin read_view[t].active =>
                    v \in snapshot[t] \/ txn_state[v] = "ABORTED"

OrderInv ==
    \A t, u \in TxIds :
        HasView(t) /\ HasView(u) =>
            snapshot[t] \subseteq snapshot[u] \/ snapshot[u] \subseteq snapshot[t]

LogInv ==
    /\ \A i \in 1 .. Len(log) :
          log[i].type = "ABORT" => txn_state[log[i].tx] = "ABORTED"
    /\ \A t \in TxIds : phase[t] = "commit_logged" =>
          \E i \in 1 .. Len(log) : log[i] = [tx |-> t, type |-> "COMMIT"]
    /\ OneThread =>
          \A t \in TxIds : phase[t] = "ended" /\ txn_state[t] = "COMMITTED" =>
              \E i \in durable : log[i] = [tx |-> t, type |-> "COMMIT"]
TxnInv == TxnTypeOK /\ PhaseInv /\ ViewInv /\ OrderInv /\ LogInv

-----------------------------------------------------------------------------
(* A nonempty set of naturals has a least element, which Min returns. *)
LEMMA MinOfNats ==
    ASSUME NEW S, S \subseteq Nat, S # {}
    PROVE  Min(S) \in S /\ \A y \in S : Min(S) <= y
<1>1. \E x \in S : \A y \in S : ~(<<y, x>> \in OpToRel(<, Nat))
  BY NatLessThanWellFounded, WFMin
<1>2. PICK x \in S : \A y \in S : ~(<<y, x>> \in OpToRel(<, Nat))
  BY <1>1
<1>3. \A y \in S : x <= y
  <2> TAKE y \in S
  <2>1. <<y, x>> \in Nat \X Nat /\ x \in Nat /\ y \in Nat
    OBVIOUS
  <2>2. ~(y < x)
    BY <1>2, <2>1 DEF OpToRel
  <2> QED
    BY <2>1, <2>2
<1> QED
  BY <1>3 DEF Min

(* The up-limit of a new read view is a transaction id or next_txid. *)
LEMMA MakeReadViewType ==
    ASSUME NEW t \in TxIds, TxnTypeOK
    PROVE  MakeReadView(t, next_txid, active_txns, txn_state)
             \in [create : 0 .. MaxTxid, low : Nat, up : Nat, active : SUBSET TxIds]
<1> DEFINE others == {a \in active_txns \ {t} : txn_state[a] = "IN_PROGRESS"}
<1>1. others \union {next_txid} \subseteq Nat
  <2>1. TxIds \subseteq Nat /\ next_txid \in Nat
    BY MaxTxidAssumption DEF TxnTypeOK, TxIds
  <2>2. others \subseteq TxIds
    BY DEF TxnTypeOK
  <2> QED
    BY <2>1, <2>2
<1>2. Min(others \union {next_txid}) \in Nat
  <2> HIDE DEF others
  <2> QED  BY <1>1, MinOfNats
<1>3. others \in SUBSET TxIds
  BY DEF TxnTypeOK
<1>4. t \in 0 .. MaxTxid /\ next_txid \in Nat
  BY MaxTxidAssumption DEF TxnTypeOK, TxIds
<1> QED
  BY <1>2, <1>3, <1>4 DEF MakeReadView

THEOREM TxnInitInv == TxnInit => TxnInv
<1> SUFFICES ASSUME TxnInit PROVE TxnInv
  OBVIOUS
<1>1. TxnTypeOK
  BY MaxTxidAssumption DEF TxnInit, TxnTypeOK, TxIds, NoReadView, INVALID_TX_ID, TransactionState, Phases, LogRecords
<1>2. PhaseInv /\ ViewInv /\ OrderInv /\ LogInv
  BY MaxTxidAssumption DEF TxnInit, PhaseInv, ViewInv, OrderInv, LogInv, HasView, TxIds
<1> QED
  BY <1>1, <1>2 DEF TxnInv

(***************************************************************************)
(* Every step preserves the types.                                         *)
(***************************************************************************)
LEMMA TxnTypeStep ==
    ASSUME TxnInv, [TxnNext]_txnVars
    PROVE  TxnTypeOK'
<1> USE DEF TxnInv, TxnTypeOK
<1> USE MaxTxidAssumption
<1>1. ASSUME NEW t \in TxIds, BeginRegister(t)
      PROVE  TxnTypeOK'
  BY <1>1 DEF BeginRegister, TransactionState, Phases, TxIds
<1>2. ASSUME NEW t \in TxIds, CreateReadView(t), phase' \in [TxIds -> Phases]
      PROVE  TxnTypeOK'
  <2>1. MakeReadView(t, next_txid, active_txns, txn_state)
             \in [create : 0 .. MaxTxid, low : Nat, up : Nat, active : SUBSET TxIds]
    BY MakeReadViewType
  <2>2. CommittedTxns \subseteq TxIds
    BY DEF CommittedTxns
  <2> QED
    BY <1>2, <2>1, <2>2 DEF CreateReadView
<1>3. ASSUME NEW t \in TxIds, NEW s \in TransactionState, EndState(t, s),
             phase' \in [TxIds -> Phases]
      PROVE  TxnTypeOK'
  BY <1>3 DEF EndState
<1>4. ASSUME NEW t \in TxIds, NEW type \in {"COMMIT", "ABORT"},
             WriteTxnControlLog(t, type), phase' \in [TxIds -> Phases]
      PROVE  TxnTypeOK'
  <2>1. log' \in Seq(LogRecords) /\ Len(log') = Len(log) + 1 /\ Len(log) \in Nat
    BY <1>4 DEF WriteTxnControlLog, LogRecords
  <2>2. 1 .. Len(log) \subseteq 1 .. Len(log')
    BY <2>1
  <2> QED
    BY <1>4, <2>1, <2>2 DEF WriteTxnControlLog
<1>5. ASSUME FlushLog, phase' \in [TxIds -> Phases]
      PROVE  TxnTypeOK'
  <2>1. durable' \subseteq 1 .. Len(log)
    BY <1>5 DEF FlushLog
  <2> QED
    BY <1>5, <2>1 DEF FlushLog
<1>6. ASSUME NEW t \in TxIds, AbortLookup(t)
      PROVE  TxnTypeOK'
  BY <1>6 DEF AbortLookup, Phases
<1>7. CASE UNCHANGED txnVars
  BY <1>7 DEF txnVars
<1>8. ASSUME NEW t \in TxIds, NEW p \in Phases
      PROVE  [phase EXCEPT ![t] = p] \in [TxIds -> Phases]
  OBVIOUS
<1>9. {"running", "committing", "commit_logged", "aborting", "abort_logged", "ended"}
         \subseteq Phases
  BY DEF Phases
<1>10. {"COMMITTED", "ABORTED"} \subseteq TransactionState
  BY DEF TransactionState
<1> HIDE DEF TxnInv, TxnTypeOK
<1>11. phase \in [TxIds -> Phases]
  BY DEF TxnInv, TxnTypeOK
<1>12. CASE TxnNext
  <2> PICK t \in TxIds :
        \/ BeginRegister(t) \/ BeginReadView(t) \/ RefreshReadView(t)
        \/ CommitPublish(t) \/ CommitLog(t) \/ CommitFlush(t)
        \/ AbortLookup(t) \/ AbortPublish(t) \/ AbortLog(t) \/ AbortFlush(t)
    BY <1>12 DEF TxnNext
  <2>1. CASE BeginRegister(t)  BY <2>1, <1>1
  <2>2. CASE BeginReadView(t)  BY <2>2, <1>2, <1>8, <1>9 DEF BeginReadView
  <2>3. CASE RefreshReadView(t)  BY <2>3, <1>2, <1>11 DEF RefreshReadView
  <2>4. CASE CommitPublish(t)  BY <2>4, <1>3, <1>8, <1>9, <1>10 DEF CommitPublish
  <2>5. CASE CommitLog(t)  BY <2>5, <1>4, <1>8, <1>9 DEF CommitLog
  <2>6. CASE CommitFlush(t)  BY <2>6, <1>5, <1>8, <1>9 DEF CommitFlush
  <2>7. CASE AbortLookup(t)  BY <2>7, <1>6
  <2>8. CASE AbortPublish(t)  BY <2>8, <1>3, <1>8, <1>9, <1>10 DEF AbortPublish
  <2>9. CASE AbortLog(t)  BY <2>9, <1>4, <1>8, <1>9 DEF AbortLog
  <2>10. CASE AbortFlush(t)  BY <2>10, <1>5, <1>8, <1>9 DEF AbortFlush
  <2> QED
    BY <2>1, <2>2, <2>3, <2>4, <2>5, <2>6, <2>7, <2>8, <2>9, <2>10
<1> QED
  BY <1>7, <1>12

(* Every step keeps phases, published states and active_txns in accord. *)
LEMMA PhaseStep ==
    ASSUME TxnInv, [TxnNext]_txnVars
    PROVE  PhaseInv'
<1> USE DEF TxnInv, TxnTypeOK, PhaseInv
<1> USE MaxTxidAssumption
<1>1. CASE UNCHANGED txnVars
  BY <1>1 DEF txnVars
<1>2. ASSUME NEW t \in TxIds, BeginRegister(t)
      PROVE  PhaseInv'
  BY <1>2, SMTT(30) DEF BeginRegister, TxIds
<1>3. ASSUME NEW t \in TxIds, BeginReadView(t) \/ RefreshReadView(t)
      PROVE  PhaseInv'
  BY <1>3, ZenonT(40) DEF BeginReadView, RefreshReadView, CreateReadView, TxIds
<1>4. ASSUME NEW t \in TxIds, CommitPublish(t) \/ AbortPublish(t)
      PROVE  PhaseInv'
  <2> SUFFICES ASSUME NEW u \in TxIds
               PROVE  /\ u < next_txid' <=> phase'[u] # "none"
                      /\ u \in active_txns' <=> phase'[u] \in {"begun", "running", "rollback"}
                      /\ u \in active_txns' <=> txn_state'[u] = "IN_PROGRESS"
                      /\ phase'[u] = "none" <=> txn_state'[u] = "UNKNOWN"
                      /\ phase'[u] \in {"committing", "commit_logged"} => txn_state'[u] = "COMMITTED"
                      /\ phase'[u] \in {"aborting", "abort_logged"} => txn_state'[u] = "ABORTED"
    OBVIOUS
  <2>1. CASE u # t
    BY <1>4, <2>1 DEF CommitPublish, AbortPublish, EndState
  <2>2. CASE u = t /\ CommitPublish(t)
    BY <2>2 DEF CommitPublish, EndState
  <2>3. CASE u = t /\ AbortPublish(t)
    BY <2>3 DEF AbortPublish, EndState
  <2> QED
    BY <1>4, <2>1, <2>2, <2>3
<1>5. ASSUME NEW t \in TxIds, CommitLog(t) \/ AbortLog(t)
      PROVE  PhaseInv'
  BY <1>5, ZenonT(40) DEF CommitLog, AbortLog, WriteTxnControlLog, TxIds
<1>6. ASSUME NEW t \in TxIds, CommitFlush(t) \/ AbortFlush(t)
      PROVE  PhaseInv'
  BY <1>6, ZenonT(40) DEF CommitFlush, AbortFlush, FlushLog, TxIds
<1>7. ASSUME NEW t \in TxIds, AbortLookup(t)
      PROVE  PhaseInv'
  BY <1>7 DEF AbortLookup, TxIds
<1> QED
  BY <1>1, <1>2, <1>3, <1>4, <1>5, <1>6, <1>7 DEF TxnNext

(***************************************************************************)
(* A step that leaves the views alone and changes at most the state of     *)
(* transactions in progress or not yet begun preserves ViewInv.            *)
(***************************************************************************)
LEMMA ViewKept ==
    ASSUME TxnInv, TxnTypeOK',
           UNCHANGED <<read_view, snapshot>>,
           next_txid <= next_txid',
           \A v \in TxIds : HasView(v)' => HasView(v),
           \A v \in TxIds : txn_state[v] \in {"COMMITTED", "ABORTED"} =>
                               txn_state'[v] = txn_state[v]
    PROVE  ViewInv'
<1> SUFFICES ASSUME NEW t \in TxIds, HasView(t)'
             PROVE  /\ read_view[t].create = t
                    /\ t < read_view[t].low
                    /\ read_view[t].low <= next_txid'
                    /\ t \notin snapshot[t]
                    /\ \A v \in TxIds :
                          /\ v \in snapshot[t] =>
                                /\ txn_state'[v] = "COMMITTED"
                                /\ v < read_view[t].low
                                /\ v \notin read_view[t].active
                          /\ v < read_view[t].low /\ v # t /\ v \notin read_view[t].active =>
                                v \in snapshot[t] \/ txn_state'[v] = "ABORTED"
  BY DEF ViewInv
<1>1. HasView(t)
  OBVIOUS
<1>2. next_txid \in Int /\ next_txid' \in Int /\ read_view[t].low \in Int
  BY MaxTxidAssumption DEF TxnInv, TxnTypeOK
<1> QED
  BY <1>1, <1>2 DEF TxnInv, ViewInv

(* A new view is tied to what has committed now. *)
LEMMA ViewCreated ==
    ASSUME TxnInv, NEW t \in TxIds, CreateReadView(t), t \in active_txns,
           \A v \in TxIds \ {t} : HasView(v)' <=> HasView(v)
    PROVE  ViewInv'
<1> SUFFICES ASSUME NEW u \in TxIds, HasView(u)'
             PROVE  /\ read_view'[u].create = u
                    /\ u < read_view'[u].low
                    /\ read_view'[u].low <= next_txid'
                    /\ u \notin snapshot'[u]
                    /\ \A v \in TxIds :
                          /\ v \in snapshot'[u] =>
                                /\ txn_state'[v] = "COMMITTED"
                                /\ v < read_view'[u].low
                                /\ v \notin read_view'[u].active
                          /\ v < read_view'[u].low /\ v # u /\ v \notin read_view'[u].active =>
                                v \in snapshot'[u] \/ txn_state'[v] = "ABORTED"
  BY DEF ViewInv
<1>1. CASE u # t
  BY <1>1 DEF CreateReadView, TxnInv, TxnTypeOK, ViewInv
<1>2. CASE u = t
  <2> DEFINE others == {a \in active_txns \ {t} : txn_state[a] = "IN_PROGRESS"}
  <2>1. /\ read_view'[t].create = t
        /\ read_view'[t].low = next_txid
        /\ read_view'[t].active = others
        /\ snapshot'[t] = CommittedTxns
        /\ txn_state' = txn_state
        /\ next_txid' = next_txid
    BY DEF CreateReadView, MakeReadView, TxnInv, TxnTypeOK
  <2>2. t < next_txid /\ txn_state[t] = "IN_PROGRESS"
    BY DEF TxnInv, PhaseInv
  <2>3. \A v \in TxIds : v < next_txid /\ v # t /\ v \notin others =>
                         txn_state[v] \in {"COMMITTED", "ABORTED"}
    BY DEF TxnInv, PhaseInv, TxnTypeOK, TransactionState
  <2>4. \A v \in CommittedTxns :
          v \in TxIds /\ txn_state[v] = "COMMITTED" /\ v < next_txid /\ v \notin others
    BY DEF CommittedTxns, TxnInv, PhaseInv
  <2>5. next_txid <= next_txid
    BY DEF TxnInv, TxnTypeOK
  <2> QED
    BY <1>2, <2>1, <2>2, <2>3, <2>4, <2>5 DEF CommittedTxns
<1> QED
  BY <1>1, <1>2

(* Every step keeps each view tied to what had committed when it was made. *)
LEMMA ViewStep ==
    ASSUME TxnInv, [TxnNext]_txnVars
    PROVE  ViewInv'
<1>0. TxnTypeOK'
  BY TxnTypeStep
<1>1. CASE UNCHANGED txnVars
  BY <1>1, <1>0, ViewKept, MaxTxidAssumption DEF txnVars, HasView, TxnInv, TxnTypeOK
<1>2. ASSUME NEW t \in TxIds, BeginRegister(t)
      PROVE  ViewInv'
  <2>1. next_txid <= next_txid'
    BY <1>2, MaxTxidAssumption DEF BeginRegister, TxnInv, TxnTypeOK
  <2>2. \A v \in TxIds : HasView(v)' => HasView(v)
    BY <1>2 DEF BeginRegister, HasView, TxnInv, TxnTypeOK
  <2>3. txn_state[t] = "UNKNOWN"
    BY <1>2, MaxTxidAssumption DEF BeginRegister, TxnInv, TxnTypeOK, PhaseInv, TxIds
  <2> QED
    BY <1>0, <1>2, <2>1, <2>2, <2>3, ViewKept DEF BeginRegister, TxnInv, TxnTypeOK
<1>4. ASSUME NEW t \in TxIds, BeginReadView(t) \/ RefreshReadView(t)
      PROVE  ViewInv'
  <2>1. t \in active_txns /\ CreateReadView(t)
    BY <1>4 DEF BeginReadView, RefreshReadView, TxnInv, PhaseInv
  <2>2. \A v \in TxIds \ {t} : HasView(v)' <=> HasView(v)
    BY <1>4 DEF BeginReadView, RefreshReadView, HasView, TxnInv, TxnTypeOK
  <2> QED
    BY <2>1, <2>2, ViewCreated
<1>5. ASSUME NEW t \in TxIds,
             \/ CommitPublish(t) \/ AbortPublish(t) \/ AbortLookup(t)
             \/ CommitLog(t) \/ AbortLog(t) \/ CommitFlush(t) \/ AbortFlush(t)
      PROVE  ViewInv'
  <2> USE DEF CommitPublish, AbortPublish, AbortLookup, CommitLog, AbortLog,
              CommitFlush, AbortFlush, EndState, WriteTxnControlLog, FlushLog
  <2>1. UNCHANGED <<read_view, snapshot, next_txid>>
    BY <1>5
  <2>2. next_txid <= next_txid'
    BY <2>1, MaxTxidAssumption DEF TxnInv, TxnTypeOK
  <2>3. \A v \in TxIds : HasView(v)' => HasView(v)
    BY <1>5 DEF HasView, TxnInv, TxnTypeOK
  <2>4. \A v \in TxIds : txn_state[v] \in {"COMMITTED", "ABORTED"} =>
                               txn_state'[v] = txn_state[v]
    BY <1>5 DEF TxnInv, TxnTypeOK, PhaseInv
  <2> QED
    BY <1>0, <2>1, <2>2, <2>3, <2>4, ViewKept
<1> QED
  BY <1>1, <1>2, <1>4, <1>5 DEF TxnNext

(* A new snapshot contains every older one, so snapshots stay nested. *)
LEMMA OrderStep ==
    ASSUME TxnInv, [TxnNext]_txnVars
    PROVE  OrderInv'
<1>1. \A u \in TxIds : HasView(u) => snapshot[u] \subseteq CommittedTxns
  BY DEF TxnInv, TxnTypeOK, ViewInv, CommittedTxns
<1>2. ASSUME UNCHANGED snapshot, \A v \in TxIds : HasView(v)' => HasView(v)
      PROVE  OrderInv'
  BY <1>2 DEF TxnInv, OrderInv
<1>3. CASE UNCHANGED txnVars
  BY <1>2, <1>3 DEF txnVars, HasView
<1>4. ASSUME NEW t \in TxIds, BeginReadView(t) \/ RefreshReadView(t)
      PROVE  OrderInv'
  <2>1. snapshot' = [snapshot EXCEPT ![t] = CommittedTxns]
    BY <1>4 DEF BeginReadView, RefreshReadView, CreateReadView
  <2>2. \A v \in TxIds \ {t} : HasView(v)' => HasView(v)
    BY <1>4 DEF BeginReadView, RefreshReadView, HasView, TxnInv, TxnTypeOK
  <2>3. \A v \in TxIds : snapshot'[v] = IF v = t THEN CommittedTxns ELSE snapshot[v]
    BY <2>1 DEF TxnInv, TxnTypeOK
  <2> QED
    BY <1>1, <2>2, <2>3 DEF TxnInv, OrderInv
<1>5. ASSUME NEW t \in TxIds,
             \/ BeginRegister(t) \/ CommitPublish(t) \/ AbortPublish(t) \/ AbortLookup(t)
             \/ CommitLog(t) \/ AbortLog(t) \/ CommitFlush(t) \/ AbortFlush(t)
      PROVE  OrderInv'
  <2> USE DEF BeginRegister, CommitPublish, AbortPublish, AbortLookup, CommitLog,
              AbortLog, CommitFlush, AbortFlush, EndState, WriteTxnControlLog, FlushLog
  <2>1. UNCHANGED snapshot
    BY <1>5
  <2>2. \A v \in TxIds : HasView(v)' => HasView(v)
    BY <1>5 DEF HasView, TxnInv, TxnTypeOK
  <2> QED
    BY <1>2, <2>1, <2>2
<1> QED
  BY <1>3, <1>4, <1>5 DEF TxnNext

(***************************************************************************)
(* Records are only appended and states of ended transactions are final,   *)
(* so what the log says of a transaction stays true.                       *)
(***************************************************************************)
LEMMA LogStep ==
    ASSUME TxnInv, [TxnNext]_txnVars
    PROVE  LogInv'
<1> USE DEF LogInv
<1>0. /\ log \in Seq(LogRecords) /\ durable \subseteq 1 .. Len(log)
      /\ Len(log) \in Nat
      /\ \A i \in 1 .. Len(log) : log[i].tx \in TxIds
      /\ phase \in [TxIds -> Phases]
      /\ txn_state \in [TxIds -> TransactionState]
  <2>1. log \in Seq(LogRecords) /\ durable \subseteq 1 .. Len(log)
    BY DEF TxnInv, TxnTypeOK
  <2>2. Len(log) \in Nat /\ \A i \in 1 .. Len(log) : log[i] \in LogRecords
    BY <2>1
  <2>3. \A i \in 1 .. Len(log) : log[i].tx \in TxIds
    BY <2>2 DEF LogRecords
  <2> QED
    BY <2>1, <2>2, <2>3 DEF TxnInv, TxnTypeOK
<1>1. ASSUME UNCHANGED <<log, durable>>,
             \A v \in TxIds : phase'[v] = "commit_logged" => phase[v] = "commit_logged",
             \A v \in TxIds : phase'[v] = "ended" => phase[v] = "ended",
             \A v \in TxIds : txn_state'[v] = "COMMITTED" =>
                                 txn_state[v] = "COMMITTED" \/ phase[v] # "ended",
             \A v \in TxIds : txn_state[v] = "ABORTED" => txn_state'[v] = "ABORTED"
      PROVE  LogInv'
  BY <1>0, <1>1 DEF TxnInv
<1>2. CASE UNCHANGED txnVars
  BY <1>1, <1>2 DEF txnVars
<1>3. ASSUME NEW t \in TxIds,
             \/ BeginRegister(t) \/ BeginReadView(t) \/ RefreshReadView(t)
             \/ CommitPublish(t) \/ AbortPublish(t) \/ AbortLookup(t)
      PROVE  LogInv'
  <2>1. UNCHANGED <<log, durable>>
    BY <1>3 DEF BeginRegister, BeginReadView, RefreshReadView, CreateReadView,
                CommitPublish, AbortPublish, EndState, AbortLookup
  <2>2. /\ \A v \in TxIds \ {t} : phase'[v] = phase[v] /\ txn_state'[v] = txn_state[v]
        /\ phase'[t] \in {"begun", "running", "committing", "aborting", "rollback"}
    BY <1>0, <1>3 DEF BeginRegister, BeginReadView, RefreshReadView, CreateReadView,
                CommitPublish, AbortPublish, EndState, AbortLookup
  <2>3. phase[t] # "ended" /\ txn_state[t] # "ABORTED"
    BY <1>0, <1>3, MaxTxidAssumption
       DEF BeginRegister, BeginReadView, RefreshReadView, CommitPublish, AbortPublish,
           EndState, AbortLookup, TxnInv, TxnTypeOK, PhaseInv, TxIds
  <2> QED
    BY <1>1, <2>1, <2>2, <2>3
<1>4. ASSUME NEW t \in TxIds, NEW type \in {"COMMIT", "ABORT"},
             WriteTxnControlLog(t, type),
             type = "ABORT" => txn_state[t] = "ABORTED",
             \A v \in TxIds \ {t} : phase'[v] = phase[v],
             phase'[t] # "ended",
             phase'[t] = "commit_logged" => type = "COMMIT"
      PROVE  LogInv'
  <2>1. /\ log' = Append(log, [tx |-> t, type |-> type])
        /\ UNCHANGED <<txn_state, durable>>
    BY <1>4 DEF WriteTxnControlLog
  <2>2. /\ Len(log') = Len(log) + 1
        /\ log'[Len(log) + 1] = [tx |-> t, type |-> type]
        /\ \A i \in 1 .. Len(log) : log'[i] = log[i]
    BY <1>0, <2>1 DEF LogRecords
  <2>3. \A i \in 1 .. Len(log') : i \in 1 .. Len(log) \/ i = Len(log) + 1
    BY <1>0, <2>2
  <2>4. \A i \in 1 .. Len(log') : log'[i].type = "ABORT" => txn_state'[log'[i].tx] = "ABORTED"
    BY <1>4, <2>1, <2>2, <2>3 DEF TxnInv
  <2>5. \A v \in TxIds : phase'[v] = "commit_logged" =>
          \E i \in 1 .. Len(log') : log'[i] = [tx |-> v, type |-> "COMMIT"]
    <3>1. Len(log) + 1 \in 1 .. Len(log') /\ 1 .. Len(log) \subseteq 1 .. Len(log')
      BY <1>0, <2>2
    <3> SUFFICES ASSUME NEW v \in TxIds, phase'[v] = "commit_logged"
                 PROVE  \E i \in 1 .. Len(log') : log'[i] = [tx |-> v, type |-> "COMMIT"]
      OBVIOUS
    <3>2. CASE v = t
      BY <1>4, <2>2, <3>1, <3>2
    <3>3. CASE v # t
      <4>1. PICK i \in 1 .. Len(log) : log[i] = [tx |-> v, type |-> "COMMIT"]
        BY <1>4, <3>3 DEF TxnInv
      <4> QED
        BY <2>2, <3>1, <4>1
    <3> QED
      BY <3>2, <3>3
  <2>6. OneThread =>
          \A v \in TxIds : phase'[v] = "ended" /\ txn_state'[v] = "COMMITTED" =>
              \E i \in durable' : log'[i] = [tx |-> v, type |-> "COMMIT"]
    BY <1>0, <1>4, <2>1, <2>2 DEF TxnInv
  <2> QED
    BY <2>4, <2>5, <2>6
<1>5. ASSUME NEW t \in TxIds, CommitLog(t) \/ AbortLog(t)
      PROVE  LogInv'
  <2>1. CASE CommitLog(t)
    BY <1>0, <1>4, <2>1 DEF CommitLog
  <2>2. CASE AbortLog(t)
    <3>1. txn_state[t] = "ABORTED"
      BY <2>2 DEF AbortLog, TxnInv, PhaseInv
    <3> QED
      BY <1>0, <1>4, <2>2, <3>1 DEF AbortLog
  <2> QED
    BY <1>5, <2>1, <2>2
<1>6. ASSUME NEW t \in TxIds, CommitFlush(t) \/ AbortFlush(t)
      PROVE  LogInv'
  <2>1. /\ UNCHANGED <<log, txn_state>>
        /\ OneThread => durable' = 1 .. Len(log)
        /\ phase[t] \in {"commit_logged", "abort_logged"}
        /\ phase'[t] = "ended"
        /\ \A v \in TxIds \ {t} : phase'[v] = phase[v]
    BY <1>0, <1>6 DEF CommitFlush, AbortFlush, FlushLog
  <2>2. phase[t] = "abort_logged" => txn_state[t] = "ABORTED"
    BY DEF TxnInv, PhaseInv
  <2> QED
    BY <1>0, <2>1, <2>2 DEF TxnInv
<1> QED
  BY <1>2, <1>3, <1>5, <1>6 DEF TxnNext

(* Every step of the manager preserves the invariant. *)
LEMMA TxnStep ==
    ASSUME TxnInv, [TxnNext]_txnVars
    PROVE  TxnInv'
BY TxnTypeStep, PhaseStep, ViewStep, OrderStep, LogStep DEF TxnInv

(***************************************************************************)
(* TxnInv holds throughout: it is what Begin, CreateReadView, Commit and   *)
(* Abort preserve, interleaved in any way.                                 *)
(***************************************************************************)
THEOREM TxnInvariance == TxnSpec => []TxnInv
<1>1. TxnInit => TxnInv
  BY TxnInitInv
<1>2. TxnInv /\ [TxnNext]_txnVars => TxnInv'
  BY TxnStep
<1> QED
  BY <1>1, <1>2, PTL DEF TxnSpec

(* TransactionManager's variables keep their types. *)
THEOREM TxnTypeCorrect == TxnSpec => []TxnTypeOK
<1>1. TxnInv => TxnTypeOK
  BY DEF TxnInv
<1> QED
  BY <1>1, TxnInvariance, PTL

(***************************************************************************)
(* ReadView::IsVisible shows exactly what had committed when the view was  *)
(* created, and the transaction's own writes, at every later moment.       *)
(***************************************************************************)
THEOREM SnapshotTheorem == TxnSpec => []ReadViewIsSnapshot
<1>1. TxnInv => ReadViewIsSnapshot
  <2> SUFFICES ASSUME TxnInv, NEW t \in TxIds, HasView(t), NEW v \in TxIds
               PROVE  IsVisible(read_view[t], txn_state, v) <=> v \in snapshot[t] \union {t}
    BY DEF TxnInv, TxnTypeOK, ReadViewIsSnapshot, Visible
  <2>1. v # INVALID_TX_ID
    BY MaxTxidAssumption DEF TxIds, INVALID_TX_ID
  <2> QED
    BY <2>1 DEF TxnInv, ViewInv, IsVisible
<1> QED
  BY <1>1, TxnInvariance, PTL

(***************************************************************************)
(* Any two read views are nested, up to their owners' own writes.          *)
(***************************************************************************)
THEOREM ViewOrderTheorem == TxnSpec => []ViewsAreOrdered
<1>1. TxnInv /\ ReadViewIsSnapshot => ViewsAreOrdered
  BY DEF TxnInv, ViewInv, OrderInv, ReadViewIsSnapshot, ViewsAreOrdered
<1> QED
  BY <1>1, TxnInvariance, SnapshotTheorem, PTL

(***************************************************************************)
(* When Commit has returned to the log's only client, the COMMIT record is *)
(* on disk and no ABORT record of the transaction exists.                  *)
(***************************************************************************)
THEOREM DurabilityTheorem == OneThread /\ TxnSpec => []AckedCommitIsDurable
<1> SUFFICES ASSUME OneThread PROVE TxnSpec => []AckedCommitIsDurable
  OBVIOUS
<1>1. TxnInv => AckedCommitIsDurable
  <2> SUFFICES ASSUME TxnInv, NEW t \in TxIds,
                      phase[t] = "ended", txn_state[t] = "COMMITTED"
               PROVE  /\ \E i \in durable : log[i] = [tx |-> t, type |-> "COMMIT"]
                      /\ \A i \in 1 .. Len(log) : log[i] # [tx |-> t, type |-> "ABORT"]
    BY DEF AckedCommitIsDurable
  <2> QED
    BY DEF TxnInv, LogInv
<1> QED
  BY <1>1, TxnInvariance, PTL
=============================================================================
