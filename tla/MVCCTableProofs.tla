--------------------------- MODULE MVCCTableProofs --------------------------
(***************************************************************************)
(* Proofs about MVCCTable, for any number of transactions, records and     *)
(* values, whichever transactions run READ COMMITTED and however calls     *)
(* interleave: the row count, what an abort leaves behind, the conflict    *)
(* check, the ownership of delete marks, and that the table implements     *)
(* SnapshotIsolation.                                                      *)
(***************************************************************************)
EXTENDS MVCCTable, TransactionManagerProofs, FiniteSetTheorems, SequenceTheorems

Records == [trx : TxIds, roll : Nat, del : BOOLEAN, dead : BOOLEAN, val : Values, row : Nat]
Images == [trx : TxIds, roll : Nat, val : Values, row : Nat]
Writes == [rid : Nat, type : {"INSERT", "DELETE"}, prev_trx : Nat, prev_roll : Nat]

TableTypeOK ==
    /\ rows \in Seq(Records)
    /\ undo \in Seq(Images)
    /\ write_set \in [TxIds -> Seq(Writes)]
    /\ num_rows \in Nat

(***************************************************************************)
(* The inductive invariant.  While a transaction has not ended, its write  *)
(* set is exactly what a roll-back needs: every record that carries its id *)
(* alive is in it, every entry names a record that still carries its id,   *)
(* and entries of one record are an INSERT followed by a DELETE.           *)
(***************************************************************************)
NotEnded(t) == txn_state[t] \in {"UNKNOWN", "IN_PROGRESS"}

Listed(t, r) == \E i \in 1 .. Len(write_set[t]) : write_set[t][i].rid = r

Kept(t, w) ==
    /\ w.rid \in 1 .. Len(rows)
    /\ rows[w.rid].trx = t
    /\ ~rows[w.rid].dead
    /\ w.type = "DELETE" => /\ rows[w.rid].del
                            /\ w.prev_trx \in TxIds
                            /\ w.prev_trx = t \/ txn_state[w.prev_trx] = "COMMITTED"

ListedInv ==
    \A t \in TxIds : NotEnded(t) =>
        \A r \in 1 .. Len(rows) : rows[r].trx = t /\ ~rows[r].dead => Listed(t, r)

KeptInv ==
    \A t \in TxIds : NotEnded(t) =>
        \A i \in 1 .. Len(write_set[t]) : Kept(t, write_set[t][i])

(* What a DELETE entry restores to its own transaction is still listed. *)
OwnInv ==
    \A t \in TxIds : NotEnded(t) =>
        \A j \in 1 .. Len(write_set[t]) :
            write_set[t][j].type = "DELETE" /\ write_set[t][j].prev_trx = t =>
                \E i \in 1 .. j - 1 : write_set[t][i].rid = write_set[t][j].rid

PairInv ==
    \A t \in TxIds : NotEnded(t) =>
        \A i, j \in 1 .. Len(write_set[t]) :
            i < j /\ write_set[t][i].rid = write_set[t][j].rid =>
                /\ write_set[t][i].type = "INSERT"
                /\ write_set[t][j].type = "DELETE" /\ write_set[t][j].prev_trx = t

(* A dead record is one of a transaction that rolls back, or has. *)
DeadInv ==
    \A r \in 1 .. Len(rows) : rows[r].dead =>
        txn_state[rows[r].trx] = "ABORTED" \/ phase[rows[r].trx] = "rollback"

TableInv ==
    /\ TxnInv
    /\ TableTypeOK
    /\ ListedInv /\ KeptInv /\ OwnInv /\ PairInv
    /\ DeadInv
    /\ AbortLeavesOnlyDead
    /\ RowCountExact

-----------------------------------------------------------------------------
(* The hits of a statement in the order of the scan. *)

(* A hit's rank is its number in the order: different for different hits. *)
LEMMA RankInjective ==
    ASSUME NEW n \in Nat, NEW hits \in SUBSET (1 .. n)
    PROVE  /\ IsFiniteSet(hits) /\ Cardinality(hits) \in Nat
           /\ \A r \in hits : Rank(hits, r) \in 1 .. Cardinality(hits)
           /\ \A r, s \in hits : r < s => Rank(hits, r) < Rank(hits, s)
<1> DEFINE upto(r) == {h \in hits : h <= r}
<1>1. IsFiniteSet(hits)
  <2>1. 1 \in Int /\ n \in Int
    OBVIOUS
  <2>2. IsFiniteSet(1 .. n)
    BY <2>1, FS_Interval
  <2> QED
    BY <2>2, FS_Subset
<1>2. Cardinality(hits) \in Nat
  BY <1>1, FS_CardinalityType
<1>3. ASSUME NEW r \in hits
      PROVE  /\ IsFiniteSet(upto(r)) /\ Cardinality(upto(r)) \in Nat
             /\ Cardinality(upto(r)) <= Cardinality(hits) /\ Cardinality(upto(r)) # 0
  <2>1. upto(r) \in SUBSET hits /\ r \in upto(r)
    OBVIOUS
  <2> HIDE DEF upto
  <2>2. IsFiniteSet(upto(r)) /\ Cardinality(upto(r)) <= Cardinality(hits)
    BY <1>1, <2>1, FS_Subset
  <2>3. Cardinality(upto(r)) \in Nat /\ Cardinality(upto(r)) # 0
    BY <2>1, <2>2, FS_CardinalityType, FS_EmptySet
  <2> QED
    BY <2>2, <2>3
<1>4. ASSUME NEW r \in hits, NEW s \in hits, r < s
      PROVE  Cardinality(upto(r)) < Cardinality(upto(s))
  <2>1. upto(r) \in SUBSET upto(s)
    <3>1. \A h \in hits : h \in Int
      OBVIOUS
    <3>2. \A h \in upto(r) : h \in upto(s)
      BY <1>4, <3>1
    <3> QED
      BY <3>2
  <2>2. s \in upto(s) /\ s \notin upto(r)
    BY <1>4
  <2> HIDE DEF upto
  <2>3. IsFiniteSet(upto(s))
    BY <1>3
  <2>4. upto(r) # upto(s)
    BY <2>2
  <2>5. Cardinality(upto(r)) <= Cardinality(upto(s)) /\ Cardinality(upto(r)) # Cardinality(upto(s))
    BY ONLY <2>1, <2>3, <2>4, FS_Subset
  <2> QED
    BY <1>3, <2>5
<1> QED
  BY <1>1, <1>2, <1>3, <1>4 DEF Rank

(* Every number has its hit: ranks are the numbers from 1 on. *)
LEMMA RankOnto ==
    ASSUME NEW n \in Nat, NEW hits \in SUBSET (1 .. n), NEW k \in 1 .. Cardinality(hits)
    PROVE  \E r \in hits : Rank(hits, r) = k
<1> DEFINE m == Cardinality(hits)
           f == [r \in hits |-> Rank(hits, r)]
<1>1. /\ IsFiniteSet(hits) /\ m \in Nat
      /\ \A r \in hits : Rank(hits, r) \in 1 .. m
      /\ \A r, s \in hits : r < s => Rank(hits, r) < Rank(hits, s)
  BY RankInjective
<1>2. \A r, s \in hits : Rank(hits, r) = Rank(hits, s) => r = s
  <2> SUFFICES ASSUME NEW r \in hits, NEW s \in hits, Rank(hits, r) = Rank(hits, s) PROVE r = s
    OBVIOUS
  <2>1. ~(r < s) /\ ~(s < r)
    BY <1>1
  <2> QED
    BY <2>1
<1> HIDE DEF m
<1>3. f \in Injection(hits, 1 .. m)
  BY <1>1, <1>2 DEF Injection, IsInjective
<1>4. IsFiniteSet(1 .. m) /\ Cardinality(1 .. m) = m
  BY <1>1, FS_Interval
<1> HIDE DEF f
<1>5. f \in Surjection(hits, 1 .. m)
  BY <1>3, <1>4, FS_Injection DEF m
<1>6. PICK r \in hits : f[r] = k
  BY <1>5 DEF Surjection, m
<1> QED
  BY <1>6 DEF f

(* InOrder runs through the hits, each once. *)
LEMMA InOrderBijective ==
    ASSUME NEW n \in Nat, NEW hits \in SUBSET (1 .. n)
    PROVE  /\ \A k \in 1 .. Cardinality(hits) : InOrder(hits)[k] \in hits
           /\ \A k, l \in 1 .. Cardinality(hits) : InOrder(hits)[k] = InOrder(hits)[l] => k = l
           /\ \A r \in hits : \E k \in 1 .. Cardinality(hits) : InOrder(hits)[k] = r
<1> DEFINE m == Cardinality(hits)
<1>0. /\ IsFiniteSet(hits) /\ Cardinality(hits) \in Nat
      /\ \A r \in hits : Rank(hits, r) \in 1 .. Cardinality(hits)
      /\ \A r, s \in hits : r < s => Rank(hits, r) < Rank(hits, s)
  BY RankInjective
<1>1. \A k \in 1 .. m : InOrder(hits)[k] = CHOOSE r \in hits : Rank(hits, r) = k
  BY DEF InOrder
<1>2. \A k \in 1 .. m : InOrder(hits)[k] \in hits /\ Rank(hits, InOrder(hits)[k]) = k
  BY <1>1, RankOnto, ZenonT(40)
<1>3. \A r, s \in hits : Rank(hits, r) = Rank(hits, s) => r = s
  <2> SUFFICES ASSUME NEW r \in hits, NEW s \in hits, Rank(hits, r) = Rank(hits, s) PROVE r = s
    OBVIOUS
  <2>1. ~(r < s) /\ ~(s < r)
    BY <1>0
  <2> QED
    BY <2>1
<1>4. \A r \in hits : Rank(hits, r) \in 1 .. m
  BY <1>0
<1> HIDE DEF m
<1>5. \A k, l \in 1 .. m : InOrder(hits)[k] = InOrder(hits)[l] => k = l
  BY <1>2
<1>6. \A r \in hits : \E k \in 1 .. m : InOrder(hits)[k] = r
  BY <1>2, <1>3, <1>4
<1> QED
  BY <1>2, <1>5, <1>6 DEF m

(* The first k hits are k hits. *)
LEMMA FirstHitsCount ==
    ASSUME NEW n \in Nat, NEW hits \in SUBSET (1 .. n), NEW k \in 1 .. Cardinality(hits)
    PROVE  FirstHits(hits, k) \in SUBSET hits /\ Cardinality(FirstHits(hits, k)) = k
<1> DEFINE first == FirstHits(hits, k)
           f == [i \in 1 .. k |-> InOrder(hits)[i]]
<1>0. /\ IsFiniteSet(hits) /\ Cardinality(hits) \in Nat
      /\ \A r \in hits : Rank(hits, r) \in 1 .. Cardinality(hits)
      /\ \A r, s \in hits : r < s => Rank(hits, r) < Rank(hits, s)
  BY RankInjective
<1>1. first = {r \in hits : Rank(hits, r) <= k}
  BY DEF FirstHits
<1>2. \A i \in 1 .. Cardinality(hits) : InOrder(hits)[i] = CHOOSE r \in hits : Rank(hits, r) = i
  BY DEF InOrder
<1>3. \A i \in 1 .. Cardinality(hits) : InOrder(hits)[i] \in hits /\ Rank(hits, InOrder(hits)[i]) = i
  BY <1>2, RankOnto
<1>4. 1 .. k \subseteq 1 .. Cardinality(hits) /\ k \in Nat
  BY <1>0
<1>5. \A i \in 1 .. k : f[i] \in hits /\ Rank(hits, f[i]) = i
  BY <1>3, <1>4
<1>6. \A r, s \in hits : Rank(hits, r) = Rank(hits, s) => r = s
  <2> SUFFICES ASSUME NEW r \in hits, NEW s \in hits, Rank(hits, r) = Rank(hits, s) PROVE r = s
    OBVIOUS
  <2>1. ~(r < s) /\ ~(s < r)
    BY <1>0
  <2> QED
    BY <2>1
<1> HIDE DEF f, first
<1>7. f \in [1 .. k -> first]
  <2>1. f = [i \in 1 .. k |-> InOrder(hits)[i]] /\ \A i \in 1 .. k : f[i] \in first
    BY <1>1, <1>5 DEF f
  <2> QED
    BY <2>1
<1>8. \A i, j \in 1 .. k : f[i] = f[j] => i = j
  BY <1>5
<1>9. \A r \in first : \E i \in 1 .. k : f[i] = r
  <2> SUFFICES ASSUME NEW r \in first PROVE \E i \in 1 .. k : f[i] = r
    OBVIOUS
  <2>1. r \in hits /\ Rank(hits, r) \in 1 .. k
    BY <1>0, <1>1, <1>4
  <2> QED
    BY <1>5, <1>6, <2>1
<1>10. ExistsBijection(1 .. k, first)
  BY <1>7, <1>8, <1>9 DEF ExistsBijection, Bijection, Injection, IsInjective, Surjection
<1>11. IsFiniteSet(1 .. k) /\ Cardinality(1 .. k) = k
  BY <1>4, FS_Interval
<1>12. Cardinality(first) = k
  BY <1>10, <1>11, FS_Bijection
<1> QED
  BY <1>1, <1>12 DEF first

-----------------------------------------------------------------------------
(* What a statement does to the transaction manager. *)

(* A statement takes a fresh view at READ COMMITTED and none otherwise. *)
LEMMA StatementTxn ==
    ASSUME TxnInv, NEW t \in TxIds, BeginStatement(t)
    PROVE  TxnInv' /\ txn_state' = txn_state /\ phase' = phase /\ phase[t] = "running"
<1>1. txn_state' = txn_state /\ phase' = phase /\ phase[t] = "running"
  BY DEF BeginStatement
<1>2. CASE t \in ReadCommitted
  <2>1. RefreshReadView(t)
    BY <1>2 DEF BeginStatement, StatementView, RefreshReadView, CreateReadView
  <2>2. TxnNext
    BY <2>1 DEF TxnNext
  <2> QED
    BY <1>1, <2>2, TxnStep
<1>3. CASE t \notin ReadCommitted
  <2>1. read_view' = read_view /\ snapshot' = snapshot
    BY <1>3 DEF BeginStatement, StatementView, TxnInv, TxnTypeOK
  <2>2. UNCHANGED txnVars
    BY <2>1 DEF BeginStatement, txnVars
  <2> QED
    BY <1>1, <2>2, TxnStep
<1> QED
  BY <1>2, <1>3

(* One that throws has taken its view, and Abort has looked it up. *)
LEMMA FailTxn ==
    ASSUME TxnInv, NEW t \in TxIds, FailStatement(t)
    PROVE  /\ TxnInv' /\ txn_state' = txn_state /\ phase[t] = "running"
           /\ phase' = [phase EXCEPT ![t] = "rollback"]
<1>1. /\ txn_state' = txn_state /\ phase[t] = "running" /\ t \in active_txns
      /\ phase' = [phase EXCEPT ![t] = "rollback"]
      /\ UNCHANGED <<next_txid, active_txns, log, durable>>
  BY DEF FailStatement
<1>2. CASE t \notin ReadCommitted
  <2>1. read_view' = read_view /\ snapshot' = snapshot
    BY <1>2 DEF FailStatement, StatementView, TxnInv, TxnTypeOK
  <2>2. AbortLookup(t)
    BY <1>1, <2>1 DEF FailStatement, AbortLookup
  <2>3. TxnNext
    BY <2>2 DEF TxnNext
  <2> QED
    BY <1>1, <2>3, TxnStep
<1>3. CASE t \in ReadCommitted
  <2>1. CreateReadView(t)
    BY <1>3 DEF FailStatement, StatementView, CreateReadView
  <2>2. \A v \in TxIds : HasView(v)' <=> HasView(v)
    BY <1>1 DEF HasView, TxnInv, TxnTypeOK
  <2>3. \A v \in TxIds : phase'[v] = IF v = t THEN "rollback" ELSE phase[v]
    BY <1>1 DEF TxnInv, TxnTypeOK
  <2>4. TxnTypeOK'
    <3>1. MakeReadView(t, next_txid, active_txns, txn_state)
             \in [create : 0 .. MaxTxid, low : Nat, up : Nat, active : SUBSET TxIds]
      BY MakeReadViewType DEF TxnInv
    <3>2. CommittedTxns \in SUBSET TxIds
      BY DEF CommittedTxns
    <3>3. read_view' \in [TxIds -> [create : 0 .. MaxTxid, low : Nat, up : Nat, active : SUBSET TxIds]]
      <4> HIDE DEF MakeReadView
      <4> QED
        BY <2>1, <3>1 DEF CreateReadView, TxnInv, TxnTypeOK
    <3>4. snapshot' \in [TxIds -> SUBSET TxIds]
      BY <2>1, <3>2 DEF CreateReadView, TxnInv, TxnTypeOK
    <3>5. phase' \in [TxIds -> Phases]
      BY <1>1 DEF TxnInv, TxnTypeOK, Phases
    <3> QED
      BY <1>1, <3>3, <3>4, <3>5 DEF TxnInv, TxnTypeOK
  <2>5. PhaseInv'
    BY <1>1, <2>3 DEF TxnInv, PhaseInv
  <2>6. ViewInv'
    BY <1>1, <2>1, <2>2, ViewCreated
  <2>7. OrderInv'
    <3>1. \A u \in TxIds : HasView(u) => snapshot[u] \subseteq CommittedTxns
      BY DEF TxnInv, TxnTypeOK, ViewInv, CommittedTxns
    <3>2. \A v \in TxIds : snapshot'[v] = IF v = t THEN CommittedTxns ELSE snapshot[v]
      BY <2>1 DEF CreateReadView, TxnInv, TxnTypeOK
    <3> QED
      BY <2>2, <3>1, <3>2 DEF TxnInv, OrderInv
  <2>8. LogInv'
    BY <1>1, <2>3 DEF TxnInv, LogInv
  <2> QED
    BY <1>1, <2>4, <2>5, <2>6, <2>7, <2>8 DEF TxnInv
<1> QED
  BY <1>2, <1>3

(***************************************************************************)
(* A version that a statement's view shows was written by the statement's  *)
(* own transaction or by one that has committed.                           *)
(***************************************************************************)
LEMMA VisibleWriters ==
    ASSUME TxnInv, NEW t \in TxIds, phase[t] = "running", NEW v \in TxIds,
           IsVisible(StatementView(t), txn_state, v)
    PROVE  v = t \/ txn_state[v] = "COMMITTED"
<1>1. v # INVALID_TX_ID
  BY MaxTxidAssumption DEF TxIds, INVALID_TX_ID
<1>2. txn_state[v] \in {"UNKNOWN", "IN_PROGRESS", "COMMITTED", "ABORTED"}
  BY DEF TxnInv, TxnTypeOK, TransactionState
<1>3. CASE t \in ReadCommitted
  <2> DEFINE others == {a \in active_txns \ {t} : txn_state[a] = "IN_PROGRESS"}
  <2>1. /\ StatementView(t).create = t /\ StatementView(t).low = next_txid
        /\ StatementView(t).active = others
    BY <1>3 DEF StatementView, MakeReadView
  <2>2. v = t \/ (txn_state[v] # "ABORTED" /\ v < next_txid /\ v \notin others)
    BY <1>1, <2>1 DEF IsVisible
  <2>3. v < next_txid => txn_state[v] # "UNKNOWN"
    BY DEF TxnInv, PhaseInv
  <2>4. txn_state[v] = "IN_PROGRESS" => v \in active_txns
    BY DEF TxnInv, PhaseInv
  <2> QED
    BY <1>2, <2>2, <2>3, <2>4
<1>4. CASE t \notin ReadCommitted
  <2>1. StatementView(t) = read_view[t] /\ HasView(t)
    BY <1>4 DEF StatementView, HasView
  <2> QED
    BY <1>1, <2>1 DEF IsVisible, TxnInv, ViewInv
<1> QED
  BY <1>3, <1>4

(* So no hit of a DELETE or UPDATE is another's that is in progress. *)
LEMMA NoConflict ==
    ASSUME TxnInv, TableTypeOK
    PROVE  NoConflictThrown
<1> SUFFICES ASSUME NEW t \in TxIds, phase[t] = "running",
                    NEW r \in Hits(StatementView(t), Values),
                    rows[r].trx # t, txn_state[rows[r].trx] = "IN_PROGRESS"
             PROVE  FALSE
  BY DEF NoConflictThrown, Conflict
<1>1. r \in 1 .. Len(rows) /\ IsVisible(StatementView(t), txn_state, rows[r].trx)
  BY DEF Hits
<1>2. rows[r] \in Records
  BY <1>1 DEF TableTypeOK
<1>3. rows[r].trx \in TxIds
  BY <1>2 DEF Records
<1> QED
  BY <1>1, <1>3, VisibleWriters

-----------------------------------------------------------------------------
(***************************************************************************)
(* What the statements that change rows have in common: hits that are      *)
(* alive, visible to t and not marked get t's mark, some new records of t  *)
(* are added, and the write set grows by one entry for each of them.       *)
(***************************************************************************)
New(placed) == Len(rows) + 1 .. Len(rows) + placed

HitsOK(t, hits) ==
    /\ hits \in SUBSET (1 .. Len(rows))
    /\ \A r \in hits : /\ ~rows[r].del /\ ~rows[r].dead
                       /\ rows[r].trx = t \/ txn_state[rows[r].trx] = "COMMITTED"

NewRows(t, hits, placed) ==
    /\ rows' \in Seq(Records)
    /\ Len(rows') = Len(rows) + placed
    /\ \A r \in 1 .. Len(rows) : r \notin hits => rows'[r] = rows[r]
    /\ \A r \in hits : rows'[r].trx = t /\ rows'[r].del /\ ~rows'[r].dead
    /\ \A r \in New(placed) : rows'[r].trx = t /\ ~rows'[r].del /\ ~rows'[r].dead

(* The entry w is about a hit, or about a new record. *)
EntryOf(w, hits, placed) ==
    \/ w.type = "DELETE" /\ w.rid \in hits /\ w.prev_trx = rows[w.rid].trx
    \/ w.type = "INSERT" /\ w.rid \in New(placed)

Entries(ext, hits, placed) ==
    /\ ext \in Seq(Writes)
    /\ \A j \in 1 .. Len(ext) : EntryOf(ext[j], hits, placed)
    /\ \A i, j \in 1 .. Len(ext) : ext[i].rid = ext[j].rid => i = j
    /\ \A r \in hits \union New(placed) : \E j \in 1 .. Len(ext) : ext[j].rid = r

NewWrites(t, hits, placed) ==
    LET old == Len(write_set[t])
        all == Len(write_set'[t])
    IN  /\ write_set' \in [TxIds -> Seq(Writes)]
        /\ \A u \in TxIds : u # t => write_set'[u] = write_set[u]
        /\ old \in Nat /\ all \in Nat /\ old <= all
        /\ \A i \in 1 .. old : write_set'[t][i] = write_set[t][i]
        /\ \A j \in old + 1 .. all : EntryOf(write_set'[t][j], hits, placed)
        /\ \A i, j \in old + 1 .. all : write_set'[t][i].rid = write_set'[t][j].rid => i = j
        /\ \A r \in hits \union New(placed) :
              \E j \in old + 1 .. all : write_set'[t][j].rid = r

(* Appending entries is all that happens to the write sets. *)
LEMMA WritesAppended ==
    ASSUME TableTypeOK, NEW t \in TxIds, NEW hits, NEW placed, NEW ext,
           Entries(ext, hits, placed),
           write_set' = [write_set EXCEPT ![t] = write_set[t] \o ext]
    PROVE  NewWrites(t, hits, placed)
<1> DEFINE W == write_set[t]
           X == W \o ext
           old == Len(W)
           all == Len(X)
<1>1. W \in Seq(Writes) /\ ext \in Seq(Writes) /\ write_set \in [TxIds -> Seq(Writes)]
  BY DEF TableTypeOK, Entries
<1>2. /\ write_set'[t] = X
      /\ \A u \in TxIds : u # t => write_set'[u] = write_set[u]
  BY <1>1
<1> HIDE DEF W
<1>3. /\ X \in Seq(Writes)
      /\ Len(X) = Len(W) + Len(ext)
      /\ \A i \in 1 .. Len(W) + Len(ext) : X[i] = IF i <= Len(W) THEN W[i] ELSE ext[i - Len(W)]
  BY <1>1, ConcatProperties
<1>4. Len(W) \in Nat /\ Len(ext) \in Nat
  BY <1>1
<1> HIDE DEF X
<1>5. write_set' \in [TxIds -> Seq(Writes)]
  <2>1. write_set' = [write_set EXCEPT ![t] = X]
    BY DEF X, W
  <2> QED
    BY <1>1, <1>3, <2>1
<1>6. \A j \in old + 1 .. all : j - old \in 1 .. Len(ext) /\ X[j] = ext[j - old]
  BY <1>3, <1>4
<1>7. \A j \in 1 .. Len(ext) : j + old \in old + 1 .. all /\ X[j + old] = ext[j]
  <2> SUFFICES ASSUME NEW j \in 1 .. Len(ext)
               PROVE  j + old \in old + 1 .. all /\ X[j + old] = ext[j]
    OBVIOUS
  <2>1. j + old \in old + 1 .. all /\ j + old \in 1 .. Len(W) + Len(ext)
        /\ ~(j + old <= Len(W)) /\ (j + old) - Len(W) = j
    BY <1>3, <1>4
  <2> QED
    BY <1>3, <2>1
<1>8. \A i \in 1 .. old : X[i] = W[i]
  BY <1>3, <1>4
<1>9. old \in Nat /\ all \in Nat /\ old <= all
  BY <1>3, <1>4
<1> HIDE DEF old, all
<1>10. \A j \in old + 1 .. all : EntryOf(X[j], hits, placed)
  BY <1>6 DEF Entries
<1>11. \A i, j \in old + 1 .. all : X[i].rid = X[j].rid => i = j
  <2> SUFFICES ASSUME NEW i \in old + 1 .. all, NEW j \in old + 1 .. all, X[i].rid = X[j].rid
               PROVE  i = j
    OBVIOUS
  <2>1. i - old = j - old
    BY <1>6 DEF Entries
  <2> QED
    BY <1>9, <2>1
<1>12. \A r \in hits \union New(placed) : \E j \in old + 1 .. all : X[j].rid = r
  BY <1>7 DEF Entries
<1> QED
  BY <1>2, <1>5, <1>8, <1>9, <1>10, <1>11, <1>12 DEF NewWrites, W, X, old, all

(* INSERT places one record. *)
LEMMA InsertEffect ==
    ASSUME TableTypeOK, NEW t \in TxIds, NEW v \in Values, InsertRow(t, v)
    PROVE  /\ HitsOK(t, {}) /\ NewRows(t, {}, 1) /\ NewWrites(t, {}, 1)
           /\ undo' \in Seq(Images)
           /\ num_rows' = num_rows + 1
<1> DEFINE n == Len(rows)
           h == NewRecord(t, v, 0, n + 1)
           w == InsertWrite(n + 1)
<1>1. rows \in Seq(Records) /\ n \in Nat
  BY DEF TableTypeOK
<1>2. h \in Records /\ h.trx = t /\ ~h.del /\ ~h.dead
  BY <1>1 DEF NewRecord, Records
<1>3. w \in Writes /\ w.type = "INSERT" /\ w.rid = n + 1
  BY <1>1 DEF InsertWrite, Writes, INVALID_TX_ID
<1>4. rows' = Append(rows, h) /\ write_set' = [write_set EXCEPT ![t] = Append(@, w)]
  BY DEF InsertRow
<1> HIDE DEF h, w
<1>5. New(1) = {n + 1}
  BY <1>1 DEF New
<1>6. NewRows(t, {}, 1)
  <2>1. /\ rows' \in Seq(Records) /\ Len(rows') = n + 1
        /\ \A r \in 1 .. n : rows'[r] = rows[r]
        /\ rows'[n + 1] = h
    BY <1>1, <1>2, <1>4, AppendProperties
  <2> QED
    BY <1>2, <1>5, <2>1 DEF NewRows
<1>7. Entries(<<w>>, {}, 1)
  BY <1>3, <1>5 DEF Entries, EntryOf
<1>8. NewWrites(t, {}, 1)
  <2>1. write_set[t] \in Seq(Writes)
    BY DEF TableTypeOK
  <2>2. Append(write_set[t], w) = write_set[t] \o <<w>>
    BY <1>3, <2>1, AppendIsConcat
  <2>3. write_set' = [write_set EXCEPT ![t] = write_set[t] \o <<w>>]
    BY <1>4, <2>2
  <2> QED
    BY <1>7, <2>3, WritesAppended
<1> QED
  BY <1>6, <1>8 DEF HitsOK, InsertRow, TableTypeOK

(* The k-th hit is a record of the table. *)
LEMMA HitRecords ==
    ASSUME TableTypeOK, NEW t, NEW hits, HitsOK(t, hits)
    PROVE  /\ Len(rows) \in Nat /\ Cardinality(hits) \in Nat /\ IsFiniteSet(hits)
           /\ \A r \in hits : r \in Nat /\ rows[r] \in Records /\ Rank(hits, r) \in Nat
           /\ \A k \in 1 .. Cardinality(hits) : InOrder(hits)[k] \in hits
           /\ \A k, l \in 1 .. Cardinality(hits) : InOrder(hits)[k] = InOrder(hits)[l] => k = l
           /\ \A r \in hits : \E k \in 1 .. Cardinality(hits) : InOrder(hits)[k] = r
<1>1. Len(rows) \in Nat /\ hits \in SUBSET (1 .. Len(rows))
  BY DEF TableTypeOK, HitsOK
<1>2. /\ IsFiniteSet(hits) /\ Cardinality(hits) \in Nat
      /\ \A r \in hits : Rank(hits, r) \in 1 .. Cardinality(hits)
  BY <1>1, RankInjective
<1>3. \A r \in hits : r \in Nat /\ rows[r] \in Records
  BY <1>1 DEF TableTypeOK
<1>4. /\ \A k \in 1 .. Cardinality(hits) : InOrder(hits)[k] \in hits
      /\ \A k, l \in 1 .. Cardinality(hits) : InOrder(hits)[k] = InOrder(hits)[l] => k = l
      /\ \A r \in hits : \E k \in 1 .. Cardinality(hits) : InOrder(hits)[k] = r
  BY <1>1, InOrderBijective
<1>5. \A r \in hits : Rank(hits, r) \in Nat
  BY <1>2
<1> QED
  BY <1>1, <1>2, <1>3, <1>4, <1>5

(* AppendUndoRecord appends images. *)
LEMMA ImagesSaved ==
    ASSUME TableTypeOK, NEW t, NEW hits, HitsOK(t, hits), SaveImages(hits)
    PROVE  undo' \in Seq(Images)
<1> DEFINE n == Cardinality(hits)
           img(k) == LET rec == rows[InOrder(hits)[k]]
                     IN  [trx |-> rec.trx, roll |-> rec.roll, val |-> rec.val, row |-> rec.row]
           ext == [k \in 1 .. n |-> img(k)]
<1>1. undo' = undo \o ext /\ undo \in Seq(Images)
  BY DEF SaveImages, TableTypeOK
<1>2. n \in Nat /\ \A k \in 1 .. n : rows[InOrder(hits)[k]] \in Records
  BY HitRecords
<1>3. \A k \in 1 .. n : img(k) \in Images
  BY <1>2 DEF Records, Images
<1> HIDE DEF n, img
<1>4. ext \in Seq(Images)
  BY <1>2, <1>3
<1> HIDE DEF ext
<1> QED
  BY <1>1, <1>4, ConcatProperties

(* MarkDelete changes three fields of each hit. *)
LEMMA RowsMarked ==
    ASSUME TableTypeOK, NEW t \in TxIds, NEW hits, HitsOK(t, hits)
    PROVE  /\ Marked(t, hits) \in Seq(Records) /\ Len(Marked(t, hits)) = Len(rows)
           /\ \A r \in 1 .. Len(rows) : r \notin hits => Marked(t, hits)[r] = rows[r]
           /\ \A r \in hits : /\ Marked(t, hits)[r].trx = t
                              /\ Marked(t, hits)[r].del /\ ~Marked(t, hits)[r].dead
<1> DEFINE n == Len(rows)
           m(r) == [rows[r] EXCEPT !.trx = t, !.roll = ImagePtr(hits, r), !.del = TRUE]
           f == Marked(t, hits)
<1>1. n \in Nat /\ (\A r \in 1 .. n : rows[r] \in Records) /\ Len(undo) \in Nat
      /\ hits \in SUBSET (1 .. n)
  BY DEF TableTypeOK, HitsOK
<1>2. f = [r \in 1 .. n |-> IF r \in hits THEN m(r) ELSE rows[r]]
  BY DEF Marked
<1>3. ASSUME NEW r \in hits
      PROVE  m(r) \in Records /\ m(r).trx = t /\ m(r).del /\ ~m(r).dead
  <2>1. ImagePtr(hits, r) \in Nat /\ rows[r] \in Records
    BY <1>1, HitRecords DEF ImagePtr
  <2>2. ~rows[r].dead
    BY DEF HitsOK
  <2> HIDE DEF ImagePtr
  <2>3. m(r) \in Records /\ m(r).trx = t /\ m(r).del
    BY <2>1 DEF Records
  <2>4. m(r).dead = rows[r].dead
    BY <2>1 DEF Records
  <2> QED
    BY <2>2, <2>3, <2>4
<1> HIDE DEF n, m, f
<1>4. \A r \in 1 .. n : f[r] = IF r \in hits THEN m(r) ELSE rows[r]
  BY <1>2
<1>5. f \in [1 .. n -> Records]
  BY <1>1, <1>2, <1>3, <1>4
<1>6. f \in Seq(Records) /\ Len(f) = n
  BY <1>1, <1>5
<1>7. \A r \in 1 .. n : r \notin hits => f[r] = rows[r]
  BY <1>4
<1>8. \A r \in hits : f[r].trx = t /\ f[r].del /\ ~f[r].dead
  BY <1>1, <1>3, <1>4
<1> QED
  BY <1>6, <1>7, <1>8 DEF f, n

(* An entry for a hit, and one for a new record. *)
LEMMA EntryTypes ==
    ASSUME TableTypeOK, NEW t \in TxIds, NEW hits, HitsOK(t, hits), NEW placed \in Nat
    PROVE  /\ \A r \in hits : DeleteWrite(r) \in Writes /\ DeleteWrite(r).rid = r
                              /\ EntryOf(DeleteWrite(r), hits, placed)
           /\ \A r \in New(placed) : InsertWrite(r) \in Writes /\ InsertWrite(r).rid = r
                              /\ EntryOf(InsertWrite(r), hits, placed)
           /\ \A r \in hits : r \notin New(placed)
<1>1. Len(rows) \in Nat /\ hits \in SUBSET (1 .. Len(rows))
  BY DEF TableTypeOK, HitsOK
<1>2. ASSUME NEW r \in hits
      PROVE  DeleteWrite(r) \in Writes /\ DeleteWrite(r).rid = r /\ EntryOf(DeleteWrite(r), hits, placed)
  <2>1. r \in Nat /\ rows[r] \in Records
    BY HitRecords
  <2>2. rows[r].trx \in Nat /\ rows[r].roll \in Nat
    BY <2>1, MaxTxidAssumption DEF Records, TxIds
  <2> QED
    BY <2>1, <2>2 DEF DeleteWrite, Writes, EntryOf
<1>3. ASSUME NEW r \in New(placed)
      PROVE  InsertWrite(r) \in Writes /\ InsertWrite(r).rid = r /\ EntryOf(InsertWrite(r), hits, placed)
  <2>1. r \in Nat
    BY <1>1 DEF New
  <2> QED
    BY <2>1 DEF InsertWrite, Writes, EntryOf, INVALID_TX_ID
<1>4. \A r \in hits : r \notin New(placed)
  BY <1>1 DEF New
<1> QED
  BY <1>2, <1>3, <1>4

(* DELETE, or the part of it before it throws. *)
LEMMA TakeEffect ==
    ASSUME TableTypeOK, NEW t \in TxIds, NEW hits, HitsOK(t, hits), TakeRows(t, hits)
    PROVE  /\ NewRows(t, hits, 0) /\ NewWrites(t, hits, 0)
           /\ undo' \in Seq(Images)
           /\ num_rows' = RowsLess(Cardinality(hits))
<1> DEFINE n == Cardinality(hits)
           w(k) == DeleteWrite(InOrder(hits)[k])
           ext == [k \in 1 .. n |-> w(k)]
<1>1. /\ rows' = Marked(t, hits) /\ num_rows' = RowsLess(n) /\ SaveImages(hits)
      /\ write_set' = [write_set EXCEPT ![t] = write_set[t] \o ext]
  BY DEF TakeRows
<1>2. New(0) = {}
  BY HitRecords DEF New
<1>3. Len(rows) + 0 = Len(rows)
  BY HitRecords
<1>4. NewRows(t, hits, 0)
  BY <1>1, <1>2, <1>3, RowsMarked DEF NewRows
<1>5. /\ n \in Nat
      /\ \A k \in 1 .. n : InOrder(hits)[k] \in hits
      /\ \A k, l \in 1 .. n : InOrder(hits)[k] = InOrder(hits)[l] => k = l
      /\ \A r \in hits : \E k \in 1 .. n : InOrder(hits)[k] = r
  BY HitRecords
<1>6. \A r \in hits : DeleteWrite(r) \in Writes /\ DeleteWrite(r).rid = r
                      /\ EntryOf(DeleteWrite(r), hits, 0)
  BY EntryTypes
<1>7. \A k \in 1 .. n : w(k) \in Writes /\ w(k).rid = InOrder(hits)[k] /\ EntryOf(w(k), hits, 0)
  BY <1>5, <1>6
<1> HIDE DEF n, w
<1>8. ext \in Seq(Writes) /\ Len(ext) = n /\ \A k \in 1 .. n : ext[k] = w(k)
  BY <1>5, <1>7
<1> HIDE DEF ext
<1>9. Entries(ext, hits, 0)
  BY <1>2, <1>5, <1>7, <1>8 DEF Entries
<1>10. NewWrites(t, hits, 0)
  BY <1>1, <1>9, WritesAppended
<1>11. undo' \in Seq(Images)
  BY <1>1, ImagesSaved
<1> QED
  BY <1>1, <1>4, <1>10, <1>11 DEF n

(* The entries of an UPDATE alternate: mark, new record, mark, new record. *)
LEMMA Alternate ==
    ASSUME NEW n \in Nat, NEW placed \in Nat, placed = n \/ placed = n - 1
    PROVE  /\ \A j \in 1 .. n + placed : j % 2 = 1 => (j + 1) \div 2 \in 1 .. n
           /\ \A j \in 1 .. n + placed : j % 2 # 1 => j \div 2 \in 1 .. placed
           /\ \A i, j \in 1 .. n + placed :
                 i % 2 = 1 /\ j % 2 = 1 /\ (i + 1) \div 2 = (j + 1) \div 2 => i = j
           /\ \A i, j \in 1 .. n + placed :
                 i % 2 # 1 /\ j % 2 # 1 /\ i \div 2 = j \div 2 => i = j
           /\ \A k \in 1 .. n : \E j \in 1 .. n + placed : j % 2 = 1 /\ (j + 1) \div 2 = k
           /\ \A k \in 1 .. placed : \E j \in 1 .. n + placed : j % 2 # 1 /\ j \div 2 = k
<1>1. \A j \in 1 .. n + placed : j % 2 = 1 => (j + 1) \div 2 \in 1 .. n
  OBVIOUS
<1>2. \A j \in 1 .. n + placed : j % 2 # 1 => j \div 2 \in 1 .. placed
  OBVIOUS
<1>3. \A i, j \in 1 .. n + placed :
         i % 2 = 1 /\ j % 2 = 1 /\ (i + 1) \div 2 = (j + 1) \div 2 => i = j
  OBVIOUS
<1>4. \A i, j \in 1 .. n + placed :
         i % 2 # 1 /\ j % 2 # 1 /\ i \div 2 = j \div 2 => i = j
  OBVIOUS
<1>5. ASSUME NEW k \in 1 .. n
      PROVE  \E j \in 1 .. n + placed : j % 2 = 1 /\ (j + 1) \div 2 = k
  <2>1. 2 * k - 1 \in 1 .. n + placed /\ (2 * k - 1) % 2 = 1 /\ ((2 * k - 1) + 1) \div 2 = k
    OBVIOUS
  <2> QED
    BY <2>1
<1>6. ASSUME NEW k \in 1 .. placed
      PROVE  \E j \in 1 .. n + placed : j % 2 # 1 /\ j \div 2 = k
  <2>1. 2 * k \in 1 .. n + placed /\ (2 * k) % 2 # 1 /\ (2 * k) \div 2 = k
    OBVIOUS
  <2> QED
    BY <2>1
<1> QED
  BY <1>1, <1>2, <1>3, <1>4, <1>5, <1>6

(* UPDATE, or the part of it before it throws. *)
LEMMA ReplaceEffect ==
    ASSUME TableTypeOK, NEW t \in TxIds, NEW hits, HitsOK(t, hits),
           NEW placed \in Nat, placed = Cardinality(hits) \/ placed = Cardinality(hits) - 1,
           NEW v \in Values, ReplaceRows(t, hits, placed, v)
    PROVE  /\ NewRows(t, hits, placed) /\ NewWrites(t, hits, placed)
           /\ undo' \in Seq(Images)
           /\ num_rows' = IF placed = Cardinality(hits) THEN num_rows ELSE RowsLess(1)
<1> DEFINE n == Cardinality(hits)
           old(k) == InOrder(hits)[k]
           new(k) == NewRecord(t, v, Len(undo) + k, rows[old(k)].row)
           news == [k \in 1 .. placed |-> new(k)]
           w(j) == IF j % 2 = 1 THEN DeleteWrite(old((j + 1) \div 2))
                   ELSE InsertWrite(Len(rows) + j \div 2)
           ext == [j \in 1 .. n + placed |-> w(j)]
<1>1. /\ rows' = Marked(t, hits) \o news /\ SaveImages(hits)
      /\ num_rows' = IF placed = n THEN num_rows ELSE RowsLess(1)
      /\ write_set' = [write_set EXCEPT ![t] = write_set[t] \o ext]
  BY DEF ReplaceRows
<1>2. /\ n \in Nat /\ Len(rows) \in Nat /\ Len(undo) \in Nat
      /\ \A r \in hits : rows[r] \in Records
      /\ \A k \in 1 .. n : old(k) \in hits
      /\ \A k, l \in 1 .. n : old(k) = old(l) => k = l
      /\ \A r \in hits : \E k \in 1 .. n : old(k) = r
  BY HitRecords DEF TableTypeOK
<1>3. placed = n \/ placed = n - 1
  OBVIOUS
<1> HIDE DEF n, old
<1>4. \A k \in 1 .. placed : new(k) \in Records /\ new(k).trx = t /\ ~new(k).del /\ ~new(k).dead
  <2> SUFFICES ASSUME NEW k \in 1 .. placed
               PROVE  new(k) \in Records /\ new(k).trx = t /\ ~new(k).del /\ ~new(k).dead
    OBVIOUS
  <2>1. k \in 1 .. n /\ Len(undo) + k \in Nat
    BY <1>2, <1>3
  <2>2. rows[old(k)].row \in Nat
    BY <1>2, <2>1 DEF Records
  <2> QED
    BY <2>1, <2>2 DEF NewRecord, Records
<1> HIDE DEF new
<1>5. news \in Seq(Records) /\ Len(news) = placed /\ \A k \in 1 .. placed : news[k] = new(k)
  BY <1>4
<1> HIDE DEF news
<1>6. NewRows(t, hits, placed)
  <2> DEFINE m == Marked(t, hits)
             N == Len(rows)
  <2>1. /\ m \in Seq(Records) /\ Len(m) = N
        /\ \A r \in 1 .. N : r \notin hits => m[r] = rows[r]
        /\ \A r \in hits : m[r].trx = t /\ m[r].del /\ ~m[r].dead
    BY RowsMarked
  <2>2. rows' = m \o news
    BY <1>1
  <2>3. hits \in SUBSET (1 .. N) /\ New(placed) = N + 1 .. N + placed /\ N \in Nat
    BY <1>2 DEF HitsOK, New
  <2> HIDE DEF m, N
  <2> DEFINE X == m \o news
  <2>4. /\ X \in Seq(Records) /\ Len(X) = Len(m) + Len(news)
        /\ \A r \in 1 .. Len(m) + Len(news) : X[r] = IF r <= Len(m) THEN m[r] ELSE news[r - Len(m)]
    BY <1>5, <2>1, ConcatProperties
  <2> HIDE DEF X
  <2>5. /\ rows' \in Seq(Records) /\ Len(rows') = N + placed
        /\ \A r \in 1 .. N + placed : rows'[r] = IF r <= N THEN m[r] ELSE news[r - N]
    <3>1. rows' = X
      BY <2>2 DEF X
    <3> QED
      BY <1>5, <2>1, <2>4, <3>1
  <2>6. \A r \in 1 .. N : rows'[r] = m[r]
    BY <2>3, <2>5
  <2>7. \A r \in N + 1 .. N + placed : r - N \in 1 .. placed /\ rows'[r] = news[r - N]
    BY <2>3, <2>5
  <2>8. \A r \in N + 1 .. N + placed : rows'[r].trx = t /\ ~rows'[r].del /\ ~rows'[r].dead
    BY <1>4, <1>5, <2>7
  <2>9. \A r \in hits : rows'[r].trx = t /\ rows'[r].del /\ ~rows'[r].dead
    BY <2>1, <2>3, <2>6
  <2> QED
    BY <2>1, <2>3, <2>5, <2>6, <2>8, <2>9 DEF NewRows, N
<1>7. /\ \A j \in 1 .. n + placed : j % 2 = 1 => (j + 1) \div 2 \in 1 .. n
      /\ \A j \in 1 .. n + placed : j % 2 # 1 => j \div 2 \in 1 .. placed
      /\ \A i, j \in 1 .. n + placed :
            i % 2 = 1 /\ j % 2 = 1 /\ (i + 1) \div 2 = (j + 1) \div 2 => i = j
      /\ \A i, j \in 1 .. n + placed :
            i % 2 # 1 /\ j % 2 # 1 /\ i \div 2 = j \div 2 => i = j
      /\ \A k \in 1 .. n : \E j \in 1 .. n + placed : j % 2 = 1 /\ (j + 1) \div 2 = k
      /\ \A k \in 1 .. placed : \E j \in 1 .. n + placed : j % 2 # 1 /\ j \div 2 = k
  BY <1>2, <1>3, Alternate
<1>8. /\ \A r \in hits : DeleteWrite(r) \in Writes /\ DeleteWrite(r).rid = r
                         /\ EntryOf(DeleteWrite(r), hits, placed)
      /\ \A r \in New(placed) : InsertWrite(r) \in Writes /\ InsertWrite(r).rid = r
                         /\ EntryOf(InsertWrite(r), hits, placed)
      /\ \A r \in hits : r \notin New(placed)
  BY EntryTypes
<1>9. \A k \in 1 .. placed : Len(rows) + k \in New(placed)
  BY <1>2 DEF New
<1>10. \A r \in New(placed) : \E k \in 1 .. placed : r = Len(rows) + k
  <2> SUFFICES ASSUME NEW r \in New(placed) PROVE \E k \in 1 .. placed : r = Len(rows) + k
    OBVIOUS
  <2>1. r - Len(rows) \in 1 .. placed /\ r = Len(rows) + (r - Len(rows))
    BY <1>2 DEF New
  <2> QED
    BY <2>1
<1>11. \A j \in 1 .. n + placed :
          /\ j % 2 = 1 => w(j) = DeleteWrite(old((j + 1) \div 2)) /\ old((j + 1) \div 2) \in hits
          /\ j % 2 # 1 => w(j) = InsertWrite(Len(rows) + j \div 2)
                          /\ Len(rows) + j \div 2 \in New(placed)
  BY <1>2, <1>7, <1>9
<1> HIDE DEF w
<1>12. \A j \in 1 .. n + placed :
          /\ w(j) \in Writes /\ EntryOf(w(j), hits, placed)
          /\ j % 2 = 1 => w(j).rid = old((j + 1) \div 2)
          /\ j % 2 # 1 => w(j).rid = Len(rows) + j \div 2
  BY <1>8, <1>11
<1>13. ext \in Seq(Writes) /\ Len(ext) = n + placed /\ \A j \in 1 .. n + placed : ext[j] = w(j)
  <2>1. n + placed \in Nat
    BY <1>2
  <2> QED
    BY <1>12, <2>1
<1> HIDE DEF ext
<1>14. \A i, j \in 1 .. n + placed : w(i).rid = w(j).rid => i = j
  <2> SUFFICES ASSUME NEW i \in 1 .. n + placed, NEW j \in 1 .. n + placed, w(i).rid = w(j).rid
               PROVE  i = j
    OBVIOUS
  <2>1. CASE i % 2 = 1 /\ j % 2 = 1
    <3>1. old((i + 1) \div 2) = old((j + 1) \div 2)
      BY <1>12, <2>1
    <3>2. (i + 1) \div 2 \in 1 .. n /\ (j + 1) \div 2 \in 1 .. n
      BY <1>7, <2>1
    <3>3. (i + 1) \div 2 = (j + 1) \div 2
      BY <1>2, <3>1, <3>2
    <3> QED
      BY <1>7, <2>1, <3>3
  <2>2. CASE i % 2 # 1 /\ j % 2 # 1
    <3>1. Len(rows) + i \div 2 = Len(rows) + j \div 2
      BY <1>12, <2>2
    <3>2. i \div 2 = j \div 2
      BY <1>2, <1>7, <2>2, <3>1
    <3> QED
      BY <1>7, <2>2, <3>2
  <2>3. CASE (i % 2 = 1 /\ j % 2 # 1) \/ (i % 2 # 1 /\ j % 2 = 1)
    BY <1>8, <1>11, <1>12, <2>3
  <2> QED
    BY <2>1, <2>2, <2>3
<1>15. \A r \in hits \union New(placed) : \E j \in 1 .. n + placed : w(j).rid = r
  <2>1. ASSUME NEW r \in hits PROVE \E j \in 1 .. n + placed : w(j).rid = r
    <3>1. PICK k \in 1 .. n : old(k) = r
      BY <1>2
    <3>2. PICK j \in 1 .. n + placed : j % 2 = 1 /\ (j + 1) \div 2 = k
      BY <1>7
    <3> QED
      BY <1>12, <3>1, <3>2
  <2>2. ASSUME NEW r \in New(placed) PROVE \E j \in 1 .. n + placed : w(j).rid = r
    <3>1. PICK k \in 1 .. placed : r = Len(rows) + k
      BY <1>10
    <3>2. PICK j \in 1 .. n + placed : j % 2 # 1 /\ j \div 2 = k
      BY <1>7
    <3> QED
      BY <1>12, <3>1, <3>2
  <2> QED
    BY <2>1, <2>2
<1>16. Entries(ext, hits, placed)
  BY <1>12, <1>13, <1>14, <1>15 DEF Entries
<1>17. NewWrites(t, hits, placed)
  BY <1>1, <1>16, WritesAppended
<1>18. undo' \in Seq(Images)
  BY <1>1, ImagesSaved
<1> QED
  BY <1>1, <1>6, <1>17, <1>18 DEF n

-----------------------------------------------------------------------------
(* A hit is alive: a dead record is visible to nobody that runs. *)
LEMMA HitsAreOK ==
    ASSUME TxnInv, TableTypeOK, DeadInv, NEW t \in TxIds, phase[t] = "running", NEW S,
           NEW hits, hits \in SUBSET Hits(StatementView(t), S)
    PROVE  HitsOK(t, hits)
<1>1. hits \in SUBSET (1 .. Len(rows))
  BY DEF Hits
<1>2. ASSUME NEW r \in hits
      PROVE  /\ ~rows[r].del /\ ~rows[r].dead
             /\ rows[r].trx = t \/ txn_state[rows[r].trx] = "COMMITTED"
  <2>1. ~rows[r].del /\ IsVisible(StatementView(t), txn_state, rows[r].trx)
    BY DEF Hits
  <2>2. rows[r] \in Records
    BY <1>1 DEF TableTypeOK
  <2>3. rows[r].trx \in TxIds
    BY <2>2 DEF Records
  <2>4. rows[r].trx = t \/ txn_state[rows[r].trx] = "COMMITTED"
    BY <2>1, <2>3, VisibleWriters
  <2>5. txn_state[t] = "IN_PROGRESS"
        /\ (phase[rows[r].trx] = "rollback" => txn_state[rows[r].trx] = "IN_PROGRESS")
    BY <2>3 DEF TxnInv, PhaseInv
  <2>6. ~(txn_state[rows[r].trx] = "ABORTED" \/ phase[rows[r].trx] = "rollback")
    BY <2>4, <2>5
  <2>7. ~rows[r].dead
    BY <1>1, <2>6 DEF DeadInv
  <2> QED
    BY <2>1, <2>4, <2>7
<1> QED
  BY <1>1, <1>2 DEF HitsOK

(* The records that a row count counts. *)
Live == {r \in 1 .. Len(rows) : ~rows[r].del /\ ~rows[r].dead}

(* They are finitely many. *)
LEMMA LiveFinite ==
    ASSUME TableTypeOK
    PROVE  IsFiniteSet(Live) /\ Cardinality(Live) \in Nat /\ Len(rows) \in Nat
<1>1. Len(rows) \in Nat /\ 1 \in Int /\ Len(rows) \in Int
  BY DEF TableTypeOK
<1>2. IsFiniteSet(1 .. Len(rows))
  BY <1>1, FS_Interval
<1>3. Live \in SUBSET (1 .. Len(rows))
  BY DEF Live
<1>4. IsFiniteSet(Live)
  BY <1>2, <1>3, FS_Subset
<1> QED
  BY <1>1, <1>4, FS_CardinalityType

(* The table has at least as many live records as a statement has hits. *)
LEMMA HitsCounted ==
    ASSUME TableTypeOK, RowCountExact, NEW t, NEW hits, HitsOK(t, hits)
    PROVE  hits \subseteq Live /\ Cardinality(hits) \in Nat /\ Cardinality(hits) <= num_rows
<1>1. hits \in SUBSET Live
  BY DEF HitsOK, Live
<1>2. Cardinality(hits) <= Cardinality(Live)
  BY <1>1, LiveFinite, FS_Subset
<1>3. num_rows = Cardinality(Live)
  BY DEF RowCountExact, Live
<1> QED
  BY <1>1, <1>2, <1>3, HitRecords

(* The effect of a statement that changes rows. *)
Effect(t, hits, placed) ==
    /\ HitsOK(t, hits) /\ NewRows(t, hits, placed) /\ NewWrites(t, hits, placed)
    /\ undo' \in Seq(Images)
    /\ num_rows' = (num_rows - Cardinality(hits)) + placed

Changing(t) ==
    \/ \E v \in Values : InsertRow(t, v)
    \/ \E S \in SUBSET Values \ {{}} : DeleteRows(t, S) \/ DeleteFails(t, S)
    \/ \E S \in SUBSET Values \ {{}}, v \in Values : UpdateRows(t, S, v) \/ UpdateFails(t, S, v)

(* DELETE takes its hits off the row count. *)
LEMMA TakeCounted ==
    ASSUME TableTypeOK, RowCountExact, NEW t \in TxIds, NEW hits, HitsOK(t, hits), TakeRows(t, hits)
    PROVE  Effect(t, hits, 0)
<1>1. /\ NewRows(t, hits, 0) /\ NewWrites(t, hits, 0) /\ undo' \in Seq(Images)
      /\ num_rows' = RowsLess(Cardinality(hits))
  BY TakeEffect
<1>2. Cardinality(hits) \in Nat /\ Cardinality(hits) <= num_rows /\ num_rows \in Nat
  BY HitsCounted DEF TableTypeOK
<1> DEFINE n == Cardinality(hits)
<1> HIDE DEF n
<1>3. num_rows' = (num_rows - n) + 0
  BY <1>1, <1>2 DEF RowsLess, n
<1> QED
  BY <1>1, <1>3 DEF Effect, n

(* UPDATE leaves the count, but for a hit without its new record. *)
LEMMA ReplaceCounted ==
    ASSUME TableTypeOK, RowCountExact, NEW t \in TxIds, NEW hits, HitsOK(t, hits),
           NEW placed \in Nat, placed = Cardinality(hits) \/ placed = Cardinality(hits) - 1,
           NEW v \in Values, ReplaceRows(t, hits, placed, v)
    PROVE  Effect(t, hits, placed)
<1> DEFINE n == Cardinality(hits)
<1>1. /\ NewRows(t, hits, placed) /\ NewWrites(t, hits, placed) /\ undo' \in Seq(Images)
      /\ num_rows' = IF placed = n THEN num_rows ELSE RowsLess(1)
  BY ReplaceEffect
<1>2. n \in Nat /\ n <= num_rows /\ num_rows \in Nat
  BY HitsCounted DEF TableTypeOK
<1>3. placed = n \/ placed = n - 1
  OBVIOUS
<1> HIDE DEF n
<1>4. num_rows' = (num_rows - n) + placed
  <2>1. CASE placed = n
    BY <1>1, <1>2, <2>1
  <2>2. CASE placed # n
    <3>1. placed = n - 1 /\ num_rows >= 1
      BY <1>2, <1>3, <2>2
    <3>2. RowsLess(1) = num_rows - 1
      BY <3>1 DEF RowsLess
    <3> QED
      BY <1>1, <1>2, <2>2, <3>1, <3>2
  <2> QED
    BY <2>1, <2>2
<1> QED
  BY <1>1, <1>4 DEF Effect, n

(* Each of them has that effect, for some hits and some new records. *)
LEMMA ChangingEffect ==
    ASSUME TxnInv, TableTypeOK, DeadInv, RowCountExact, NEW t \in TxIds, Changing(t)
    PROVE  \E hits : \E placed \in Nat : Effect(t, hits, placed)
<1>1. BeginStatement(t) \/ FailStatement(t) => phase[t] = "running"
  BY DEF BeginStatement, FailStatement
<1>2. CASE \E v \in Values : InsertRow(t, v)
  <2>1. PICK v \in Values : InsertRow(t, v)
    BY <1>2
  <2>2. /\ HitsOK(t, {}) /\ NewRows(t, {}, 1) /\ NewWrites(t, {}, 1) /\ undo' \in Seq(Images)
        /\ num_rows' = num_rows + 1
    BY <2>1, InsertEffect
  <2>3. num_rows' = (num_rows - Cardinality({})) + 1
    BY <2>2, FS_EmptySet DEF TableTypeOK
  <2>4. Effect(t, {}, 1)
    BY <2>2, <2>3 DEF Effect
  <2> QED
    BY <2>4
<1>3. ASSUME NEW S \in SUBSET Values \ {{}}, DeleteRows(t, S)
      PROVE  \E hits : \E placed \in Nat : Effect(t, hits, placed)
  <2> DEFINE hits == Hits(StatementView(t), S)
  <2>1. BeginStatement(t) /\ TakeRows(t, hits)
    BY <1>3 DEF DeleteRows
  <2> HIDE DEF hits
  <2>2. HitsOK(t, hits)
    BY <1>1, <2>1, HitsAreOK DEF hits
  <2>3. Effect(t, hits, 0)
    BY <2>1, <2>2, TakeCounted
  <2> QED
    BY <2>3
<1>4. ASSUME NEW S \in SUBSET Values \ {{}}, DeleteFails(t, S)
      PROVE  \E hits : \E placed \in Nat : Effect(t, hits, placed)
  <2> DEFINE hits == Hits(StatementView(t), S)
  <2>1. FailStatement(t)
    BY <1>4 DEF DeleteFails
  <2>2. PICK k \in 1 .. Cardinality(hits) - 1 : TakeRows(t, FirstHits(hits, k))
    BY <1>4 DEF DeleteFails
  <2>3. FirstHits(hits, k) \in SUBSET hits
    BY DEF FirstHits
  <2> HIDE DEF hits
  <2> DEFINE first == FirstHits(hits, k)
  <2> HIDE DEF first
  <2>4. HitsOK(t, first)
    BY <1>1, <2>1, <2>3, HitsAreOK DEF hits, first
  <2>5. Effect(t, first, 0)
    BY <2>2, <2>4, TakeCounted DEF first
  <2> QED
    BY <2>5
<1>5. ASSUME NEW S \in SUBSET Values \ {{}}, NEW v \in Values, UpdateRows(t, S, v)
      PROVE  \E hits : \E placed \in Nat : Effect(t, hits, placed)
  <2> DEFINE hits == Hits(StatementView(t), S)
  <2>1. BeginStatement(t) /\ ReplaceRows(t, hits, Cardinality(hits), v)
    BY <1>5 DEF UpdateRows
  <2> HIDE DEF hits
  <2>2. HitsOK(t, hits)
    BY <1>1, <2>1, HitsAreOK DEF hits
  <2>3. Cardinality(hits) \in Nat
    BY <2>2, HitRecords
  <2>4. Effect(t, hits, Cardinality(hits))
    BY <2>1, <2>2, <2>3, ReplaceCounted
  <2> QED
    BY <2>3, <2>4
<1>6. ASSUME NEW S \in SUBSET Values \ {{}}, NEW v \in Values, UpdateFails(t, S, v)
      PROVE  \E hits : \E placed \in Nat : Effect(t, hits, placed)
  <2> DEFINE hits == Hits(StatementView(t), S)
  <2>1. FailStatement(t)
    BY <1>6 DEF UpdateFails
  <2>2. PICK k \in 1 .. Cardinality(hits) :
           \E placed \in {k - 1} \union ({k} \ {Cardinality(hits)}) :
              ReplaceRows(t, FirstHits(hits, k), placed, v)
    BY <1>6 DEF UpdateFails
  <2>3. PICK placed \in {k - 1} \union ({k} \ {Cardinality(hits)}) :
              ReplaceRows(t, FirstHits(hits, k), placed, v)
    BY <2>2
  <2> HIDE DEF hits
  <2>4. HitsOK(t, hits)
    BY <1>1, <2>1, HitsAreOK DEF hits
  <2> DEFINE first == FirstHits(hits, k)
  <2>5. first \in SUBSET hits /\ Cardinality(first) = k
    <3>1. Len(rows) \in Nat /\ hits \in SUBSET (1 .. Len(rows))
      BY <2>4 DEF HitsOK, TableTypeOK
    <3> QED
      BY <3>1, FirstHitsCount
  <2>6. k \in Nat /\ k >= 1
    BY <2>4, HitRecords
  <2>7. placed \in Nat /\ (placed = k \/ placed = k - 1)
    BY <2>6
  <2>8. ReplaceRows(t, first, placed, v)
    BY <2>3
  <2> HIDE DEF first
  <2>9. HitsOK(t, first)
    BY <1>1, <2>1, <2>5, HitsAreOK DEF hits
  <2>10. Effect(t, first, placed)
    BY <2>5, <2>7, <2>8, <2>9, ReplaceCounted
  <2> QED
    BY <2>7, <2>10
<1> QED
  BY <1>2, <1>3, <1>4, <1>5, <1>6 DEF Changing

-----------------------------------------------------------------------------
(* A statement keeps every part of the invariant. *)

(* A record after it: untouched, marked by t, or new and t's. *)
LEMMA EffectRows ==
    ASSUME TableTypeOK, NEW t \in TxIds, NEW hits, NEW placed \in Nat, Effect(t, hits, placed)
    PROVE  /\ Len(rows) \in Nat /\ Len(rows') = Len(rows) + placed
           /\ hits \subseteq 1 .. Len(rows)
           /\ \A r \in 1 .. Len(rows') :
                 \/ r \in 1 .. Len(rows) /\ r \notin hits /\ rows'[r] = rows[r]
                 \/ r \in hits /\ rows'[r].trx = t /\ rows'[r].del /\ ~rows'[r].dead
                 \/ r \in New(placed) /\ rows'[r].trx = t /\ ~rows'[r].del /\ ~rows'[r].dead
           /\ \A r \in 1 .. Len(rows) : r \in 1 .. Len(rows') /\ r \notin New(placed)
           /\ \A r \in New(placed) : r \in 1 .. Len(rows')
<1>1. Len(rows) \in Nat /\ hits \in SUBSET (1 .. Len(rows)) /\ Len(rows') = Len(rows) + placed
  BY DEF TableTypeOK, Effect, HitsOK, NewRows
<1>2. \A r \in 1 .. Len(rows') : r \in 1 .. Len(rows) \/ r \in New(placed)
  BY <1>1 DEF New
<1>3. \A r \in 1 .. Len(rows) : r \in 1 .. Len(rows') /\ r \notin New(placed)
  BY <1>1 DEF New
<1>4. \A r \in New(placed) : r \in 1 .. Len(rows')
  BY <1>1 DEF New
<1>5. /\ \A r \in 1 .. Len(rows) : r \notin hits => rows'[r] = rows[r]
      /\ \A r \in hits : rows'[r].trx = t /\ rows'[r].del /\ ~rows'[r].dead
      /\ \A r \in New(placed) : rows'[r].trx = t /\ ~rows'[r].del /\ ~rows'[r].dead
  BY DEF Effect, NewRows
<1> QED
  BY <1>1, <1>2, <1>3, <1>4, <1>5

(* Its own new records and marks are listed, others' are not touched. *)
LEMMA EffectListed ==
    ASSUME TableInv, NEW t \in TxIds, txn_state' = txn_state,
           NEW hits, NEW placed \in Nat, Effect(t, hits, placed)
    PROVE  ListedInv'
<1> SUFFICES ASSUME NEW u \in TxIds, NotEnded(u)', NEW r \in 1 .. Len(rows'),
                    rows'[r].trx = u, ~rows'[r].dead
             PROVE  \E i \in 1 .. Len(write_set'[u]) : write_set'[u][i].rid = r
  BY DEF ListedInv, Listed
<1>1. NotEnded(u)
  BY DEF NotEnded
<1>2. NewWrites(t, hits, placed) /\ TableTypeOK
  BY DEF Effect, TableInv
<1>3. CASE r \in hits \union New(placed)
  <2>1. u = t
    BY <1>2, <1>3, EffectRows DEF Effect, NewRows
  <2>2. PICK j \in Len(write_set[t]) + 1 .. Len(write_set'[t]) : write_set'[t][j].rid = r
    BY <1>2, <1>3 DEF NewWrites
  <2>3. Len(write_set[t]) \in Nat /\ Len(write_set'[t]) \in Nat
    BY <1>2 DEF NewWrites
  <2>4. j \in 1 .. Len(write_set'[t])
    BY <2>2, <2>3
  <2> QED
    BY <2>1, <2>2, <2>4
<1>4. CASE r \notin hits \union New(placed)
  <2>1. r \in 1 .. Len(rows) /\ rows'[r] = rows[r]
    BY <1>2, <1>4, EffectRows
  <2>2. PICK i \in 1 .. Len(write_set[u]) : write_set[u][i].rid = r
    BY <1>1, <2>1 DEF TableInv, ListedInv, Listed
  <2>3. u # t => write_set'[u] = write_set[u]
    BY <1>2 DEF NewWrites
  <2>4. u = t => i \in 1 .. Len(write_set'[u]) /\ write_set'[u][i] = write_set[u][i]
    <3> SUFFICES ASSUME u = t PROVE i \in 1 .. Len(write_set'[u]) /\ write_set'[u][i] = write_set[u][i]
      OBVIOUS
    <3>1. /\ Len(write_set[t]) \in Nat /\ Len(write_set'[t]) \in Nat
          /\ Len(write_set[t]) <= Len(write_set'[t])
          /\ write_set'[t][i] = write_set[t][i]
      BY <1>2, <2>2 DEF NewWrites
    <3> QED
      BY <2>2, <3>1
  <2> QED
    BY <2>2, <2>3, <2>4
<1> QED
  BY <1>3, <1>4

(* An entry of a transaction that has not ended keeps its record. *)
LEMMA EffectKept ==
    ASSUME TableInv, NEW t \in TxIds, txn_state' = txn_state,
           NEW hits, NEW placed \in Nat, Effect(t, hits, placed)
    PROVE  KeptInv'
<1> SUFFICES ASSUME NEW u \in TxIds, NotEnded(u)', NEW i \in 1 .. Len(write_set'[u])
             PROVE  Kept(u, write_set[u][i])'
  BY DEF KeptInv
<1> DEFINE w == write_set'[u][i]
<1>1. NotEnded(u)
  BY DEF NotEnded
<1>2. NewWrites(t, hits, placed) /\ TableTypeOK /\ HitsOK(t, hits)
  BY DEF Effect, TableInv
<1>3. SUFFICES /\ w.rid \in 1 .. Len(rows') /\ rows'[w.rid].trx = u /\ ~rows'[w.rid].dead
               /\ w.type = "DELETE" => /\ rows'[w.rid].del /\ w.prev_trx \in TxIds
                                       /\ w.prev_trx = u \/ txn_state[w.prev_trx] = "COMMITTED"
  BY DEF Kept
<1>4. ASSUME Kept(u, w)
      PROVE  /\ w.rid \in 1 .. Len(rows') /\ rows'[w.rid].trx = u /\ ~rows'[w.rid].dead
             /\ w.type = "DELETE" => /\ rows'[w.rid].del /\ w.prev_trx \in TxIds
                                     /\ w.prev_trx = u \/ txn_state[w.prev_trx] = "COMMITTED"
  <2> HIDE DEF w
  <2>1. /\ w.rid \in 1 .. Len(rows) /\ rows[w.rid].trx = u /\ ~rows[w.rid].dead
        /\ w.type = "DELETE" => /\ rows[w.rid].del /\ w.prev_trx \in TxIds
                                /\ w.prev_trx = u \/ txn_state[w.prev_trx] = "COMMITTED"
    BY <1>4 DEF Kept
  <2>2. w.rid \in 1 .. Len(rows') /\ w.rid \notin New(placed)
    BY <1>2, <2>1, EffectRows
  <2>3. CASE w.rid \in hits
    <3>1. rows'[w.rid].trx = t /\ rows'[w.rid].del /\ ~rows'[w.rid].dead
      BY <2>3 DEF Effect, NewRows
    <3>2. u = t
      BY <1>1, <1>2, <2>1, <2>3 DEF HitsOK, NotEnded
    <3> QED
      BY <2>1, <2>2, <3>1, <3>2
  <2>4. CASE w.rid \notin hits
    <3>1. rows'[w.rid] = rows[w.rid]
      BY <2>1, <2>4 DEF Effect, NewRows
    <3> QED
      BY <2>1, <2>2, <3>1
  <2> QED
    BY <2>3, <2>4
<1>5. CASE u # t
  <2>1. write_set'[u] = write_set[u]
    BY <1>2, <1>5 DEF NewWrites
  <2>2. Kept(u, w)
    BY <1>1, <2>1 DEF TableInv, KeptInv
  <2> QED
    BY <1>4, <2>2
<1>6. CASE u = t /\ i \in 1 .. Len(write_set[t])
  <2>1. w = write_set[t][i]
    BY <1>2, <1>6 DEF NewWrites
  <2>2. Kept(u, w)
    BY <1>1, <1>6, <2>1 DEF TableInv, KeptInv
  <2> QED
    BY <1>4, <2>2
<1>7. CASE u = t /\ i \notin 1 .. Len(write_set[t])
  <2>1. Len(write_set[t]) \in Nat /\ Len(write_set'[t]) \in Nat
    BY <1>2 DEF NewWrites
  <2>2. i \in Len(write_set[t]) + 1 .. Len(write_set'[t])
    BY <1>7, <2>1
  <2>3. EntryOf(w, hits, placed)
    BY <1>2, <1>7, <2>2 DEF NewWrites
  <2> HIDE DEF w
  <2>4. CASE w.type = "DELETE" /\ w.rid \in hits /\ w.prev_trx = rows[w.rid].trx
    <3>1. rows'[w.rid].trx = t /\ rows'[w.rid].del /\ ~rows'[w.rid].dead
      BY <2>4 DEF Effect, NewRows
    <3>2. rows[w.rid].trx = t \/ txn_state[rows[w.rid].trx] = "COMMITTED"
      BY <1>2, <2>4 DEF HitsOK
    <3>3. rows[w.rid].trx \in TxIds
      <4>1. rows[w.rid] \in Records
        BY <1>2, <2>4, HitRecords
      <4> QED
        BY <4>1 DEF Records
    <3>4. w.rid \in 1 .. Len(rows')
      BY <1>2, <2>4, EffectRows
    <3> QED
      BY <1>7, <2>4, <3>1, <3>2, <3>3, <3>4
  <2>5. CASE w.type = "INSERT" /\ w.rid \in New(placed)
    <3>1. rows'[w.rid].trx = t /\ ~rows'[w.rid].dead
      BY <2>5 DEF Effect, NewRows
    <3>2. w.rid \in 1 .. Len(rows')
      BY <1>2, <2>5, EffectRows
    <3> QED
      BY <1>7, <2>5, <3>1, <3>2
  <2> QED
    BY <2>3, <2>4, <2>5 DEF EntryOf
<1> QED
  BY <1>5, <1>6, <1>7

(* The entries of t before and after the statement. *)
LEMMA EffectEntries ==
    ASSUME TableInv, NEW t \in TxIds, NEW hits, NEW placed, Effect(t, hits, placed),
           NEW j \in 1 .. Len(write_set'[t])
    PROVE  /\ Len(write_set[t]) \in Nat /\ j \in Nat
           /\ \/ /\ j \in 1 .. Len(write_set[t])
                 /\ write_set'[t][j] = write_set[t][j]
              \/ /\ j > Len(write_set[t])
                 /\ EntryOf(write_set'[t][j], hits, placed)
<1>1. NewWrites(t, hits, placed)
  BY DEF Effect
<1>2. Len(write_set[t]) \in Nat /\ Len(write_set'[t]) \in Nat
  BY <1>1 DEF NewWrites
<1>3. CASE j \in 1 .. Len(write_set[t])
  BY <1>1, <1>2, <1>3 DEF NewWrites
<1>4. CASE j \notin 1 .. Len(write_set[t])
  <2>1. j \in Len(write_set[t]) + 1 .. Len(write_set'[t]) /\ j > Len(write_set[t])
    BY <1>2, <1>4
  <2> QED
    BY <1>1, <1>2, <2>1 DEF NewWrites
<1> QED
  BY <1>3, <1>4

(* A record of its own that the statement marks was listed before. *)
LEMMA EffectOwn ==
    ASSUME TableInv, NEW t \in TxIds, txn_state' = txn_state, NotEnded(t),
           NEW hits, NEW placed \in Nat, Effect(t, hits, placed)
    PROVE  OwnInv'
<1> SUFFICES ASSUME NEW u \in TxIds, NotEnded(u)', NEW j \in 1 .. Len(write_set'[u]),
                    write_set'[u][j].type = "DELETE", write_set'[u][j].prev_trx = u
             PROVE  \E i \in 1 .. j - 1 : write_set'[u][i].rid = write_set'[u][j].rid
  BY DEF OwnInv
<1>1. NotEnded(u) /\ HitsOK(t, hits) /\ NewWrites(t, hits, placed)
  BY DEF NotEnded, Effect
<1>2. CASE u # t
  <2>1. write_set'[u] = write_set[u]
    BY <1>1, <1>2 DEF NewWrites
  <2> QED
    BY <1>1, <2>1 DEF TableInv, OwnInv
<1>3. CASE u = t /\ j \in 1 .. Len(write_set[t]) /\ write_set'[t][j] = write_set[t][j]
  <2>1. PICK i \in 1 .. j - 1 : write_set[t][i].rid = write_set[t][j].rid
    BY <1>1, <1>3 DEF TableInv, OwnInv
  <2>2. i \in 1 .. Len(write_set[t])
    BY <1>3, EffectEntries
  <2>3. write_set'[t][i] = write_set[t][i]
    BY <1>1, <2>2 DEF NewWrites
  <2> QED
    BY <1>3, <2>1, <2>3
<1>4. CASE u = t /\ j > Len(write_set[t]) /\ EntryOf(write_set'[t][j], hits, placed)
  <2> DEFINE w == write_set'[t][j]
  <2>1. w.rid \in hits /\ rows[w.rid].trx = t
    BY <1>4 DEF EntryOf
  <2>2. w.rid \in 1 .. Len(rows) /\ ~rows[w.rid].dead
    BY <1>1, <2>1 DEF HitsOK
  <2> HIDE DEF w
  <2>3. PICK i \in 1 .. Len(write_set[t]) : write_set[t][i].rid = w.rid
    BY <2>1, <2>2 DEF TableInv, ListedInv, Listed
  <2>4. write_set'[t][i] = write_set[t][i]
    BY <1>1, <2>3 DEF NewWrites
  <2>5. i \in 1 .. j - 1
    BY <1>4, <2>3, EffectEntries
  <2> QED
    BY <1>4, <2>3, <2>4, <2>5 DEF w
<1> QED
  BY <1>2, <1>3, <1>4, EffectEntries

(* A record gets a second entry only by the mark on its own new record. *)
LEMMA EffectPair ==
    ASSUME TableInv, NEW t \in TxIds, txn_state' = txn_state, NotEnded(t),
           NEW hits, NEW placed \in Nat, Effect(t, hits, placed)
    PROVE  PairInv'
<1> SUFFICES ASSUME NEW u \in TxIds, NotEnded(u)',
                    NEW i \in 1 .. Len(write_set'[u]), NEW j \in 1 .. Len(write_set'[u]),
                    i < j, write_set'[u][i].rid = write_set'[u][j].rid
             PROVE  /\ write_set'[u][i].type = "INSERT"
                    /\ write_set'[u][j].type = "DELETE" /\ write_set'[u][j].prev_trx = u
  BY DEF PairInv
<1>1. NotEnded(u) /\ HitsOK(t, hits) /\ NewWrites(t, hits, placed) /\ TableTypeOK
  BY DEF NotEnded, Effect, TableInv
<1>2. CASE u # t
  <2>1. write_set'[u] = write_set[u]
    BY <1>1, <1>2 DEF NewWrites
  <2> QED
    BY <1>1, <2>1 DEF TableInv, PairInv
<1>3. CASE u = t
  <2> DEFINE old == Len(write_set[t])
             v == write_set'[t][i]
             w == write_set'[t][j]
  <2>1. old \in Nat /\ i \in Nat /\ j \in Nat
    BY <1>3, EffectEntries
  <2>2. \/ i \in 1 .. old /\ v = write_set[t][i]
        \/ i > old /\ EntryOf(v, hits, placed)
    BY <1>3, EffectEntries
  <2>3. \/ j \in 1 .. old /\ w = write_set[t][j]
        \/ j > old /\ EntryOf(w, hits, placed)
    BY <1>3, EffectEntries
  <2>4. CASE j \in 1 .. old
    <3>1. i \in 1 .. old /\ v = write_set[t][i] /\ w = write_set[t][j]
      BY <2>1, <2>2, <2>3, <2>4
    <3> QED
      BY <1>3, <2>4, <3>1 DEF TableInv, PairInv
  <2>5. CASE j > old /\ i > old
    <3>1. i \in old + 1 .. Len(write_set'[t]) /\ j \in old + 1 .. Len(write_set'[t])
      BY <1>3, <2>1, <2>5
    <3>2. i = j
      BY <1>1, <1>3, <3>1 DEF NewWrites
    <3> QED
      BY <2>1, <3>2
  <2>6. CASE j > old /\ i \in 1 .. old
    <3>1. v = write_set[t][i] /\ EntryOf(w, hits, placed)
      BY <2>1, <2>2, <2>3, <2>6
    <3>2. Kept(t, v)
      BY <2>6, <3>1 DEF TableInv, KeptInv
    <3>3. v.type \in {"INSERT", "DELETE"}
      <4>1. write_set[t] \in Seq(Writes)
        BY <1>1 DEF TableTypeOK
      <4>2. v \in Writes
        BY <2>6, <3>1, <4>1
      <4> QED
        BY <4>2 DEF Writes
    <3>4. v.rid = w.rid
      BY <1>3
    <3> HIDE DEF v, w
    <3>5. w.rid \in 1 .. Len(rows) /\ rows[w.rid].trx = t /\ (v.type = "DELETE" => rows[w.rid].del)
      BY <3>2, <3>4 DEF Kept
    <3>6. w.rid \notin New(placed)
      BY <1>1, <3>5, EffectRows
    <3>7. w.type = "DELETE" /\ w.rid \in hits /\ w.prev_trx = t
      BY <3>1, <3>5, <3>6 DEF EntryOf
    <3>8. ~rows[w.rid].del
      BY <1>1, <3>7 DEF HitsOK
    <3>9. v.type = "INSERT"
      BY <3>3, <3>5, <3>8
    <3> QED
      BY <1>3, <3>7, <3>9 DEF v, w
  <2> QED
    BY <2>1, <2>4, <2>5, <2>6
<1> QED
  BY <1>2, <1>3

(* No record dies, and none that is dead comes back. *)
LEMMA EffectDead ==
    ASSUME TableInv, NEW t \in TxIds, txn_state' = txn_state, phase[t] = "running",
           \A u \in TxIds : u # t => phase'[u] = phase[u],
           NEW hits, NEW placed \in Nat, Effect(t, hits, placed)
    PROVE  DeadInv' /\ AbortLeavesOnlyDead'
<1>1. TableTypeOK /\ DeadInv /\ AbortLeavesOnlyDead /\ txn_state[t] = "IN_PROGRESS"
  BY DEF TableInv, TxnInv, PhaseInv
<1>2. DeadInv'
  <2> SUFFICES ASSUME NEW r \in 1 .. Len(rows'), rows'[r].dead
               PROVE  txn_state'[rows'[r].trx] = "ABORTED" \/ phase'[rows'[r].trx] = "rollback"
    BY DEF DeadInv
  <2>1. r \in 1 .. Len(rows) /\ rows'[r] = rows[r]
    BY <1>1, EffectRows
  <2>2. rows[r] \in Records
    BY <1>1, <2>1 DEF TableTypeOK
  <2>3. rows[r].trx \in TxIds
    BY <2>2 DEF Records
  <2>4. txn_state[rows[r].trx] = "ABORTED" \/ phase[rows[r].trx] = "rollback"
    BY <1>1, <2>1 DEF DeadInv
  <2> QED
    BY <2>1, <2>3, <2>4
<1>3. AbortLeavesOnlyDead'
  <2> SUFFICES ASSUME NEW r \in 1 .. Len(rows'), txn_state'[rows'[r].trx] = "ABORTED"
               PROVE  rows'[r].dead
    BY DEF AbortLeavesOnlyDead
  <2>1. rows'[r].trx # t
    BY <1>1
  <2>2. r \in 1 .. Len(rows) /\ rows'[r] = rows[r]
    BY <1>1, <2>1, EffectRows
  <2> QED
    BY <1>1, <2>2 DEF AbortLeavesOnlyDead
<1> QED
  BY <1>2, <1>3

(* The row count moves with the live records. *)
LEMMA EffectCount ==
    ASSUME TableInv, NEW t \in TxIds, NEW hits, NEW placed \in Nat, Effect(t, hits, placed)
    PROVE  RowCountExact' /\ num_rows' \in Nat
<1> DEFINE new == New(placed)
<1>1. TableTypeOK /\ RowCountExact /\ HitsOK(t, hits)
  BY DEF TableInv, Effect
<1>2. hits \subseteq Live /\ Cardinality(hits) \in Nat /\ Cardinality(hits) <= num_rows
  BY <1>1, HitsCounted
<1>3. IsFiniteSet(Live) /\ Len(rows) \in Nat /\ num_rows \in Nat /\ num_rows = Cardinality(Live)
  BY <1>1, LiveFinite DEF RowCountExact, Live, TableTypeOK
<1>4. Live' = (Live \ hits) \union new
  <2>1. Live' = {r \in 1 .. Len(rows') : ~rows'[r].del /\ ~rows'[r].dead}
    BY DEF Live
  <2>2. ASSUME NEW r PROVE r \in Live' <=> r \in (Live \ hits) \union new
    <3>1. CASE r \in 1 .. Len(rows')
      BY <1>1, <2>1, <3>1, EffectRows DEF Live
    <3>2. CASE r \notin 1 .. Len(rows')
      BY <1>1, <2>1, <3>2, EffectRows DEF Live
    <3> QED
      BY <3>1, <3>2
  <2> QED
    BY <2>2
<1>5. IsFiniteSet(Live \ hits) /\ Cardinality(Live \ hits) = num_rows - Cardinality(hits)
  <2>1. Live \cap hits = hits
    BY <1>2
  <2> QED
    BY <1>3, <2>1, FS_Difference, ZenonT(40)
<1>6. IsFiniteSet(new) /\ Cardinality(new) = placed
  <2> DEFINE a == Len(rows) + 1
             b == Len(rows) + placed
  <2>1. a \in Int /\ b \in Int
    BY <1>3
  <2>2. IsFiniteSet(a .. b) /\ Cardinality(a .. b) = IF a > b THEN 0 ELSE b - a + 1
    <3> HIDE DEF a, b
    <3> QED
      BY <2>1, FS_Interval
  <2>3. (IF a > b THEN 0 ELSE b - a + 1) = placed
    BY <1>3
  <2> QED
    BY <2>2, <2>3 DEF New
<1>7. (Live \ hits) \cap new = {}
  BY <1>1, EffectRows DEF Live
<1> HIDE DEF new
<1>8. Cardinality((Live \ hits) \union new) = (num_rows - Cardinality(hits)) + placed - 0
  BY <1>5, <1>6, <1>7, FS_Union, FS_EmptySet
<1>9. num_rows' = (num_rows - Cardinality(hits)) + placed
  BY DEF Effect
<1> DEFINE n == Cardinality(hits)
<1> HIDE DEF n
<1>10. num_rows' \in Nat /\ num_rows' = Cardinality(Live')
  BY <1>2, <1>3, <1>4, <1>8, <1>9 DEF n
<1>11. RowCountExact'
  BY <1>10 DEF RowCountExact, Live
<1> QED
  BY <1>10, <1>11

-----------------------------------------------------------------------------
(* The roll-back of the newest write. *)
RolledBack(t, w) ==
    /\ w = write_set[t][Len(write_set[t])]
    /\ w \in Writes
    /\ Kept(t, w)
    /\ Len(write_set[t]) \in Nat \ {0}
    /\ write_set' \in [TxIds -> Seq(Writes)]
    /\ Len(write_set'[t]) = Len(write_set[t]) - 1
    /\ \A i \in 1 .. Len(write_set[t]) - 1 : write_set'[t][i] = write_set[t][i]
    /\ \A u \in TxIds : u # t => write_set'[u] = write_set[u]
    /\ rows' \in Seq(Records) /\ Len(rows') = Len(rows)
    /\ \A r \in 1 .. Len(rows) : r # w.rid => rows'[r] = rows[r]
    /\ w.type = "INSERT" => rows'[w.rid].trx = t /\ rows'[w.rid].dead
    /\ w.type = "DELETE" => /\ rows'[w.rid].trx = w.prev_trx
                            /\ ~rows'[w.rid].del /\ ~rows'[w.rid].dead

(* MarkDead writes one field of a header. *)
LEMMA RecordDead ==
    ASSUME NEW f \in Seq(Records), NEW k \in 1 .. Len(f)
    PROVE  LET g == [f EXCEPT ![k].dead = TRUE]
           IN  /\ g \in Seq(Records) /\ Len(g) = Len(f)
               /\ \A r \in 1 .. Len(f) : r # k => g[r] = f[r]
               /\ g[k].trx = f[k].trx /\ g[k].dead
<1> DEFINE h == [f[k] EXCEPT !.dead = TRUE]
           g == [f EXCEPT ![k].dead = TRUE]
<1>1. Len(f) \in Nat /\ DOMAIN f = 1 .. Len(f) /\ \A q \in 1 .. Len(f) : f[q] \in Records
  OBVIOUS
<1>2. h \in Records /\ h.trx = f[k].trx /\ h.dead
  BY <1>1 DEF Records
<1>3. g = [f EXCEPT ![k] = h]
  OBVIOUS
<1> HIDE DEF h, g
<1>4. \A q \in 1 .. Len(f) : g[q] = IF q = k THEN h ELSE f[q]
  BY <1>1, <1>3
<1>5. g \in [1 .. Len(f) -> Records]
  BY <1>1, <1>2, <1>3
<1>6. g \in Seq(Records) /\ Len(g) = Len(f)
  BY <1>1, <1>5
<1>7. g[k] = h /\ \A r \in 1 .. Len(f) : r # k => g[r] = f[r]
  BY <1>4
<1>8. g[k].trx = f[k].trx /\ g[k].dead
  BY <1>2, <1>7
<1> QED
  BY <1>6, <1>7, <1>8 DEF g

(* RestoreRecord writes three. *)
Restored(f, k, x, p) == [f EXCEPT ![k].trx = x, ![k].roll = p, ![k].del = FALSE]

(* The record of a restored header lives as it did. *)
LEMMA RecordRestored ==
    ASSUME NEW f \in Seq(Records), NEW k \in 1 .. Len(f), NEW x \in TxIds, NEW p \in Nat,
           ~f[k].dead
    PROVE  /\ Restored(f, k, x, p) \in Seq(Records) /\ Len(Restored(f, k, x, p)) = Len(f)
           /\ \A r \in 1 .. Len(f) : r # k => Restored(f, k, x, p)[r] = f[r]
           /\ Restored(f, k, x, p)[k].trx = x
           /\ ~Restored(f, k, x, p)[k].del /\ ~Restored(f, k, x, p)[k].dead
<1> DEFINE h == [[[f[k] EXCEPT !.trx = x] EXCEPT !.roll = p] EXCEPT !.del = FALSE]
           g == Restored(f, k, x, p)
<1>1. Len(f) \in Nat /\ DOMAIN f = 1 .. Len(f) /\ \A q \in 1 .. Len(f) : f[q] \in Records
  OBVIOUS
<1>2. h \in Records /\ h.trx = x /\ ~h.del
  BY <1>1 DEF Records
<1>3. h.dead = f[k].dead
  BY <1>1 DEF Records
<1>4. ~h.dead
  BY <1>3
<1>5. g = [f EXCEPT ![k] = h]
  BY <1>1 DEF Restored
<1> HIDE DEF h, g
<1>6. \A q \in 1 .. Len(f) : g[q] = IF q = k THEN h ELSE f[q]
  BY <1>1, <1>5
<1>7. g \in [1 .. Len(f) -> Records]
  BY <1>1, <1>2, <1>5
<1>8. g \in Seq(Records) /\ Len(g) = Len(f)
  BY <1>1, <1>7
<1>9. g[k] = h /\ \A r \in 1 .. Len(f) : r # k => g[r] = f[r]
  BY <1>6
<1> QED
  BY <1>2, <1>4, <1>8, <1>9 DEF g

(* RollbackWrite has that effect. *)
LEMMA RollbackEffect ==
    ASSUME TableInv, NEW t \in TxIds, RollbackWrite(t)
    PROVE  RolledBack(t, write_set[t][Len(write_set[t])])
<1> DEFINE W == write_set[t]
           n == Len(W) - 1
           w == W[Len(W)]
<1>1. W \in Seq(Writes) /\ W # <<>> /\ write_set \in [TxIds -> Seq(Writes)] /\ rows \in Seq(Records)
  BY DEF TableInv, TableTypeOK, RollbackWrite
<1>2. Len(W) \in Nat \ {0} /\ Len(W) \in 1 .. Len(W) /\ n \in Nat /\ Len(W) = n + 1
  BY <1>1
<1>3. w \in Writes
  BY <1>1, <1>2
<1>4. NotEnded(t)
  BY DEF RollbackWrite, TableInv, TxnInv, PhaseInv, NotEnded
<1>5. Kept(t, w)
  BY <1>2, <1>4 DEF TableInv, KeptInv
<1>6. write_set' = [write_set EXCEPT ![t] = SubSeq(W, 1, n)]
  BY DEF RollbackWrite
<1>7. IF w.type = "INSERT" THEN MarkDead(w.rid) ELSE RestoreRecord(w)
  BY DEF RollbackWrite
<1>8. \A i \in 1 .. n : W[i] \in Writes
  BY <1>1, <1>2
<1> HIDE DEF n, W, w
<1>9. /\ SubSeq(W, 1, n) \in Seq(Writes)
      /\ Len(SubSeq(W, 1, n)) = IF 1 <= n THEN n - 1 + 1 ELSE 0
      /\ \A i \in 1 .. n - 1 + 1 : SubSeq(W, 1, n)[i] = W[1 + i - 1]
  BY <1>2, <1>8, SubSeqProperties
<1>10. /\ Len(SubSeq(W, 1, n)) = n
       /\ \A i \in 1 .. n : SubSeq(W, 1, n)[i] = W[i]
  BY <1>2, <1>9
<1> DEFINE X == SubSeq(W, 1, n)
<1> HIDE DEF X
<1>11. /\ write_set' \in [TxIds -> Seq(Writes)]
       /\ write_set'[t] = X
       /\ \A u \in TxIds : u # t => write_set'[u] = write_set[u]
  BY <1>1, <1>6, <1>9 DEF X
<1>12. /\ Len(write_set'[t]) = n
       /\ \A i \in 1 .. n : write_set'[t][i] = W[i]
  BY <1>10, <1>11 DEF X
<1>13. /\ w.rid \in 1 .. Len(rows) /\ rows[w.rid].trx = t /\ ~rows[w.rid].dead
       /\ w.type = "DELETE" => w.prev_trx \in TxIds
  BY <1>5 DEF Kept
<1>14. w.type \in {"INSERT", "DELETE"} /\ w.prev_roll \in Nat
  BY <1>3 DEF Writes
<1>15. CASE w.type = "INSERT"
  <2>1. rows' = [rows EXCEPT ![w.rid].dead = TRUE]
    BY <1>7, <1>15 DEF MarkDead
  <2>2. /\ rows' \in Seq(Records) /\ Len(rows') = Len(rows)
        /\ \A r \in 1 .. Len(rows) : r # w.rid => rows'[r] = rows[r]
        /\ rows'[w.rid].trx = rows[w.rid].trx /\ rows'[w.rid].dead
    BY <1>1, <1>13, <2>1, RecordDead
  <2> QED
    BY <1>2, <1>3, <1>5, <1>11, <1>12, <1>13, <1>15, <2>2 DEF RolledBack, W, w
<1>16. CASE w.type = "DELETE"
  <2> DEFINE g == Restored(rows, w.rid, w.prev_trx, w.prev_roll)
  <2>1. rows' = g
    BY <1>7, <1>16 DEF RestoreRecord, Restored
  <2>2. /\ g \in Seq(Records) /\ Len(g) = Len(rows)
        /\ \A r \in 1 .. Len(rows) : r # w.rid => g[r] = rows[r]
        /\ g[w.rid].trx = w.prev_trx /\ ~g[w.rid].del /\ ~g[w.rid].dead
    BY <1>1, <1>13, <1>14, <1>16, RecordRestored, SMTT(30)
  <2> HIDE DEF g
  <2> QED
    BY <1>2, <1>3, <1>5, <1>11, <1>12, <1>16, <2>1, <2>2 DEF RolledBack, W, w
<1> QED
  BY <1>14, <1>15, <1>16

(* A roll-back step keeps the write sets in order with the records. *)
LEMMA RollbackKeeps ==
    ASSUME TableInv, NEW t \in TxIds, NotEnded(t), phase[t] = "rollback",
           txn_state' = txn_state, phase' = phase, NEW w, RolledBack(t, w)
    PROVE  ListedInv' /\ KeptInv' /\ OwnInv' /\ PairInv' /\ DeadInv' /\ AbortLeavesOnlyDead'
<1> DEFINE n == Len(write_set[t]) - 1
<1>1. \A u \in TxIds : NotEnded(u)' <=> NotEnded(u)
  BY DEF NotEnded
<1>2. /\ n \in Nat /\ Len(write_set[t]) = n + 1 /\ Len(write_set'[t]) = n
      /\ w = write_set[t][n + 1] /\ n + 1 \in 1 .. Len(write_set[t])
      /\ \A i \in 1 .. n : write_set'[t][i] = write_set[t][i] /\ i \in 1 .. Len(write_set[t])
  BY DEF RolledBack
<1> HIDE DEF n
<1>3. \A u \in TxIds : u # t => write_set'[u] = write_set[u]
  BY DEF RolledBack
<1>4. /\ w.rid \in 1 .. Len(rows) /\ rows[w.rid].trx = t /\ ~rows[w.rid].dead
      /\ w.type = "DELETE" => w.prev_trx \in TxIds
                              /\ (w.prev_trx = t \/ txn_state[w.prev_trx] = "COMMITTED")
  BY DEF RolledBack, Kept
<1>5. /\ Len(rows') = Len(rows)
      /\ \A r \in 1 .. Len(rows) : r # w.rid => rows'[r] = rows[r]
      /\ w.type = "INSERT" => rows'[w.rid].trx = t /\ rows'[w.rid].dead
      /\ w.type = "DELETE" => /\ rows'[w.rid].trx = w.prev_trx
                              /\ ~rows'[w.rid].del /\ ~rows'[w.rid].dead
  BY DEF RolledBack
<1>6. w.type \in {"INSERT", "DELETE"}
  BY DEF RolledBack, Writes
<1>7. txn_state[t] = "IN_PROGRESS"
  BY DEF TableInv, TxnInv, PhaseInv
<1>8. ListedInv'
  <2> SUFFICES ASSUME NEW u \in TxIds, NotEnded(u), NEW r \in 1 .. Len(rows),
                      rows'[r].trx = u, ~rows'[r].dead
               PROVE  \E i \in 1 .. Len(write_set'[u]) : write_set'[u][i].rid = r
    BY <1>1, <1>5 DEF ListedInv, Listed
  <2>1. CASE r # w.rid
    <3>1. PICK i \in 1 .. Len(write_set[u]) : write_set[u][i].rid = r
      BY <1>5, <2>1 DEF TableInv, ListedInv, Listed
    <3>2. CASE u # t
      BY <1>3, <3>1, <3>2
    <3>3. CASE u = t
      <4>1. i # n + 1
        BY <1>2, <2>1, <3>1, <3>3
      <4>2. i \in 1 .. n
        BY <1>2, <3>1, <3>3, <4>1
      <4> QED
        BY <1>2, <3>1, <3>3, <4>2
    <3> QED
      BY <3>2, <3>3
  <2>2. CASE r = w.rid
    <3>1. w.type = "DELETE" /\ u = w.prev_trx
      BY <1>5, <1>6, <2>2
    <3>2. u = t
      BY <1>4, <3>1 DEF NotEnded
    <3>3. PICK i \in 1 .. (n + 1) - 1 : write_set[t][i].rid = w.rid
      BY <1>2, <3>1, <3>2, ZenonT(40) DEF TableInv, OwnInv
    <3>4. i \in 1 .. n
      BY <1>2, <3>3
    <3> QED
      BY <1>2, <2>2, <3>2, <3>3, <3>4
  <2> QED
    BY <2>1, <2>2
<1>9. KeptInv'
  <2> SUFFICES ASSUME NEW u \in TxIds, NotEnded(u), NEW i \in 1 .. Len(write_set'[u])
               PROVE  Kept(u, write_set[u][i])'
    BY <1>1 DEF KeptInv
  <2> DEFINE x == write_set'[u][i]
  <2>1. x = write_set[u][i] /\ i \in 1 .. Len(write_set[u])
    BY <1>2, <1>3
  <2>2. Kept(u, x)
    BY <2>1 DEF TableInv, KeptInv
  <2>3. SUFFICES /\ x.rid \in 1 .. Len(rows') /\ rows'[x.rid].trx = u /\ ~rows'[x.rid].dead
                 /\ x.type = "DELETE" => /\ rows'[x.rid].del /\ x.prev_trx \in TxIds
                                         /\ x.prev_trx = u \/ txn_state[x.prev_trx] = "COMMITTED"
    BY DEF Kept
  <2>4. CASE x.rid # w.rid
    <3> HIDE DEF x
    <3>1. x.rid \in 1 .. Len(rows') /\ rows'[x.rid] = rows[x.rid]
      BY <1>5, <2>2, <2>4 DEF Kept
    <3> QED
      BY <2>2, <3>1 DEF Kept
  <2>5. CASE x.rid = w.rid
    <3>1. u = t
      BY <1>4, <2>2, <2>5 DEF Kept
    <3>2. i < n + 1 /\ write_set[t][i].rid = write_set[t][n + 1].rid
      BY <1>2, <2>1, <2>5, <3>1
    <3>3. x.type = "INSERT" /\ w.type = "DELETE" /\ w.prev_trx = t
      BY <1>2, <2>1, <3>1, <3>2 DEF TableInv, PairInv
    <3> HIDE DEF x
    <3> QED
      BY <1>4, <1>5, <2>5, <3>1, <3>3
  <2> QED
    BY <2>4, <2>5
<1>10. OwnInv'
  <2> SUFFICES ASSUME NEW u \in TxIds, NotEnded(u), NEW j \in 1 .. Len(write_set'[u]),
                      write_set'[u][j].type = "DELETE", write_set'[u][j].prev_trx = u
               PROVE  \E i \in 1 .. j - 1 : write_set'[u][i].rid = write_set'[u][j].rid
    BY <1>1 DEF OwnInv
  <2>1. CASE u # t
    BY <1>3, <2>1 DEF TableInv, OwnInv
  <2>2. CASE u = t
    <3>1. j \in 1 .. n /\ write_set'[t][j] = write_set[t][j] /\ j \in 1 .. Len(write_set[t])
      BY <1>2, <2>2
    <3>2. PICK i \in 1 .. j - 1 : write_set[t][i].rid = write_set[t][j].rid
      BY <2>2, <3>1 DEF TableInv, OwnInv
    <3>3. i \in 1 .. n
      BY <1>2, <3>1, <3>2
    <3> QED
      BY <1>2, <2>2, <3>1, <3>2, <3>3
  <2> QED
    BY <2>1, <2>2
<1>11. PairInv'
  <2>1. \A u \in TxIds : \A i \in 1 .. Len(write_set'[u]) :
           i \in 1 .. Len(write_set[u]) /\ write_set'[u][i] = write_set[u][i]
    BY <1>2, <1>3
  <2>2. PairInv
    BY DEF TableInv
  <2> QED
    BY <1>1, <2>1, <2>2 DEF PairInv
<1>12. DeadInv'
  <2> SUFFICES ASSUME NEW r \in 1 .. Len(rows), rows'[r].dead
               PROVE  txn_state[rows'[r].trx] = "ABORTED" \/ phase[rows'[r].trx] = "rollback"
    BY <1>5 DEF DeadInv
  <2> QED
    BY <1>5, <1>6 DEF TableInv, DeadInv
<1>13. AbortLeavesOnlyDead'
  <2> SUFFICES ASSUME NEW r \in 1 .. Len(rows), txn_state[rows'[r].trx] = "ABORTED"
               PROVE  rows'[r].dead
    BY <1>5 DEF AbortLeavesOnlyDead
  <2>1. r = w.rid => w.type # "DELETE"
    BY <1>4, <1>5, <1>7
  <2> QED
    BY <1>5, <1>6, <2>1 DEF TableInv, AbortLeavesOnlyDead
<1> QED
  BY <1>8, <1>9, <1>10, <1>11, <1>12, <1>13

(* The count goes down with a record that dies and up with one restored. *)
LEMMA RollbackCount ==
    ASSUME TableInv, NEW t \in TxIds, RollbackWrite(t)
    PROVE  RowCountExact' /\ num_rows' \in Nat
<1> DEFINE w == write_set[t][Len(write_set[t])]
<1>1. RolledBack(t, w)
  BY RollbackEffect
<1>2. IF w.type = "INSERT" THEN MarkDead(w.rid) ELSE RestoreRecord(w)
  BY DEF RollbackWrite
<1> HIDE DEF w
<1>3. TableTypeOK /\ RowCountExact
  BY DEF TableInv
<1>4. IsFiniteSet(Live) /\ Len(rows) \in Nat /\ num_rows \in Nat /\ num_rows = Cardinality(Live)
  BY <1>3, LiveFinite DEF RowCountExact, Live, TableTypeOK
<1>5. /\ w.rid \in 1 .. Len(rows) /\ ~rows[w.rid].dead
      /\ w.type = "DELETE" => rows[w.rid].del
  BY <1>1 DEF RolledBack, Kept
<1>6. /\ Len(rows') = Len(rows)
      /\ \A r \in 1 .. Len(rows) : r # w.rid => rows'[r] = rows[r]
      /\ w.type = "INSERT" => rows'[w.rid].dead
      /\ w.type = "DELETE" => ~rows'[w.rid].del /\ ~rows'[w.rid].dead
  BY <1>1 DEF RolledBack
<1>7. w.type \in {"INSERT", "DELETE"}
  BY <1>1 DEF RolledBack, Writes
<1>8. Live' = {r \in 1 .. Len(rows) : ~rows'[r].del /\ ~rows'[r].dead}
  BY <1>6 DEF Live
<1>9. num_rows' = Cardinality(Live') /\ num_rows' \in Nat
  <2>1. CASE w.type = "INSERT" /\ ~rows[w.rid].del
    <3>1. Live' = Live \ {w.rid} /\ w.rid \in Live
      BY <1>5, <1>6, <1>8, <2>1 DEF Live
    <3>2. num_rows' = RowsLess(1)
      BY <1>2, <1>5, <2>1 DEF MarkDead
    <3>3. Cardinality(Live \ {w.rid}) = Cardinality(Live) - 1
      BY <1>4, <3>1, FS_RemoveElement
    <3>4. num_rows # 0
      BY <1>4, <3>1, FS_EmptySet
    <3> QED
      BY <1>4, <3>1, <3>2, <3>3, <3>4 DEF RowsLess
  <2>2. CASE w.type = "INSERT" /\ rows[w.rid].del
    <3>1. Live' = Live
      BY <1>5, <1>6, <1>8, <2>2 DEF Live
    <3>2. num_rows' = num_rows
      BY <1>2, <2>2 DEF MarkDead
    <3> QED
      BY <1>4, <3>1, <3>2
  <2>3. CASE w.type = "DELETE"
    <3>1. Live' = Live \union {w.rid} /\ w.rid \notin Live
      BY <1>5, <1>6, <1>8, <2>3 DEF Live
    <3>2. num_rows' = num_rows + 1
      BY <1>2, <1>5, <2>3 DEF RestoreRecord
    <3>3. Cardinality(Live \union {w.rid}) = Cardinality(Live) + 1
      BY <1>4, <3>1, FS_AddElement
    <3> QED
      BY <1>4, <3>1, <3>2, <3>3
  <2> QED
    BY <1>7, <2>1, <2>2, <2>3
<1>10. RowCountExact'
  BY <1>9 DEF RowCountExact, Live
<1> QED
  BY <1>9, <1>10

-----------------------------------------------------------------------------
(* The calls that leave the table alone. *)
Calls(t) ==
    \/ BeginRegister(t) \/ BeginReadView(t)
    \/ CommitPublish(t) \/ CommitLog(t) \/ CommitFlush(t)
    \/ AbortLookup(t) \/ (write_set[t] = <<>> /\ AbortPublish(t)) \/ AbortLog(t) \/ AbortFlush(t)

(* A transaction ends once, and only a finished roll-back ends in ABORTED. *)
LEMMA CallsEnd ==
    ASSUME TxnInv, NEW t \in TxIds, Calls(t)
    PROVE  /\ TxnInv'
           /\ \A u \in TxIds :
                 /\ NotEnded(u)' => NotEnded(u)
                 /\ txn_state[u] = "COMMITTED" => txn_state'[u] = "COMMITTED"
                 /\ txn_state[u] = "ABORTED" => txn_state'[u] = "ABORTED"
                 /\ phase[u] = "rollback" => phase'[u] = "rollback" \/ txn_state'[u] = "ABORTED"
                 /\ txn_state'[u] = "ABORTED" =>
                       txn_state[u] = "ABORTED" \/ (write_set[u] = <<>> /\ NotEnded(u))
<1>1. TxnInv'
  <2>1. TxnNext
    BY DEF Calls, TxnNext
  <2> QED
    BY <2>1, TxnStep
<1>2. txn_state \in [TxIds -> TransactionState] /\ phase \in [TxIds -> Phases]
  BY DEF TxnInv, TxnTypeOK
<1>3. ASSUME NEW u \in TxIds, u # t
      PROVE  txn_state'[u] = txn_state[u] /\ phase'[u] = phase[u]
  BY <1>2, <1>3 DEF Calls, BeginRegister, BeginReadView, CreateReadView, CommitPublish, CommitLog,
     CommitFlush, AbortLookup, AbortPublish, AbortLog, AbortFlush, EndState, WriteTxnControlLog, FlushLog
<1>4. CASE BeginRegister(t)
  <2>1. txn_state[t] = "UNKNOWN" /\ phase[t] = "none"
    BY <1>4, MaxTxidAssumption DEF BeginRegister, TxnInv, TxnTypeOK, PhaseInv, TxIds
  <2>2. txn_state'[t] = "IN_PROGRESS"
    BY <1>2, <1>4 DEF BeginRegister
  <2> QED
    BY <1>1, <1>3, <2>1, <2>2 DEF NotEnded
<1>5. CASE BeginReadView(t) \/ CommitLog(t) \/ CommitFlush(t) \/ AbortLookup(t) \/ AbortLog(t) \/ AbortFlush(t)
  <2>1. txn_state' = txn_state /\ phase[t] # "rollback"
    BY <1>5 DEF BeginReadView, CreateReadView, CommitLog, CommitFlush, AbortLookup, AbortLog,
       AbortFlush, WriteTxnControlLog, FlushLog
  <2> QED
    BY <1>1, <1>3, <2>1 DEF NotEnded
<1>6. CASE CommitPublish(t)
  <2>1. txn_state'[t] = "COMMITTED" /\ phase[t] = "running"
    BY <1>2, <1>6 DEF CommitPublish, EndState
  <2>2. txn_state[t] = "IN_PROGRESS"
    BY <2>1 DEF TxnInv, PhaseInv
  <2> QED
    BY <1>1, <1>3, <2>1, <2>2 DEF NotEnded
<1>7. CASE write_set[t] = <<>> /\ AbortPublish(t)
  <2>1. txn_state'[t] = "ABORTED" /\ phase[t] = "rollback"
    BY <1>2, <1>7 DEF AbortPublish, EndState
  <2>2. txn_state[t] = "IN_PROGRESS"
    BY <2>1 DEF TxnInv, PhaseInv
  <2> QED
    BY <1>1, <1>3, <1>7, <2>1, <2>2 DEF NotEnded
<1> QED
  BY <1>4, <1>5, <1>6, <1>7 DEF Calls

(* They keep the invariant. *)
LEMMA CallsKeep ==
    ASSUME TableInv, NEW t \in TxIds, Calls(t), UNCHANGED tableVars
    PROVE  TableInv'
<1>1. UNCHANGED <<rows, undo, write_set, num_rows>>
  BY DEF tableVars
<1>2. /\ TxnInv'
      /\ \A u \in TxIds :
            /\ NotEnded(u)' => NotEnded(u)
            /\ txn_state[u] = "COMMITTED" => txn_state'[u] = "COMMITTED"
            /\ txn_state[u] = "ABORTED" => txn_state'[u] = "ABORTED"
            /\ phase[u] = "rollback" => phase'[u] = "rollback" \/ txn_state'[u] = "ABORTED"
            /\ txn_state'[u] = "ABORTED" =>
                  txn_state[u] = "ABORTED" \/ (write_set[u] = <<>> /\ NotEnded(u))
  BY CallsEnd DEF TableInv
<1>3. \A r \in 1 .. Len(rows) : rows[r].trx \in TxIds
  <2>1. \A r \in 1 .. Len(rows) : rows[r] \in Records
    BY DEF TableInv, TableTypeOK
  <2> QED
    BY <2>1 DEF Records
<1>4. TableTypeOK' /\ RowCountExact'
  BY <1>1 DEF TableInv, TableTypeOK, RowCountExact
<1>5. ListedInv'
  BY <1>1, <1>2 DEF TableInv, ListedInv, Listed
<1>6. KeptInv'
  BY <1>1, <1>2 DEF TableInv, KeptInv, Kept
<1>7. OwnInv'
  BY <1>1, <1>2 DEF TableInv, OwnInv
<1>8. PairInv'
  BY <1>1, <1>2 DEF TableInv, PairInv
<1>9. DeadInv'
  BY <1>1, <1>2, <1>3 DEF TableInv, DeadInv
<1>10. AbortLeavesOnlyDead'
  <2> SUFFICES ASSUME NEW r \in 1 .. Len(rows), txn_state'[rows[r].trx] = "ABORTED"
               PROVE  rows[r].dead
    BY <1>1 DEF AbortLeavesOnlyDead
  <2> DEFINE u == rows[r].trx
  <2>1. CASE txn_state[u] = "ABORTED"
    BY <2>1 DEF TableInv, AbortLeavesOnlyDead
  <2>2. CASE write_set[u] = <<>> /\ NotEnded(u)
    <3>1. ~Listed(u, r)
      BY <2>2 DEF Listed
    <3> QED
      BY <1>3, <2>2, <3>1 DEF TableInv, ListedInv
  <2> QED
    BY <1>2, <1>3, <2>1, <2>2
<1> QED
  BY <1>2, <1>4, <1>5, <1>6, <1>7, <1>8, <1>9, <1>10 DEF TableInv

(* A statement that changes rows keeps the invariant. *)
LEMMA ChangingKeeps ==
    ASSUME TableInv, NEW t \in TxIds, Changing(t)
    PROVE  TableInv'
<1>1. TxnInv /\ TableTypeOK /\ DeadInv /\ RowCountExact
  BY DEF TableInv
<1>2. BeginStatement(t) \/ FailStatement(t)
  BY DEF Changing, InsertRow, DeleteRows, DeleteFails, UpdateRows, UpdateFails
<1>3. /\ TxnInv' /\ txn_state' = txn_state /\ phase[t] = "running"
      /\ \A u \in TxIds : u # t => phase'[u] = phase[u]
  BY <1>1, <1>2, StatementTxn, FailTxn DEF TxnInv, TxnTypeOK
<1>4. NotEnded(t)
  BY <1>1, <1>3 DEF NotEnded, TxnInv, PhaseInv
<1>5. PICK hits : \E placed \in Nat : Effect(t, hits, placed)
  BY <1>1, ChangingEffect
<1>6. PICK placed \in Nat : Effect(t, hits, placed)
  BY <1>5
<1>7. ListedInv' /\ KeptInv'
  BY <1>3, <1>6, EffectListed, EffectKept
<1>8. OwnInv' /\ PairInv'
  BY <1>3, <1>4, <1>6, EffectOwn, EffectPair
<1>9. DeadInv' /\ AbortLeavesOnlyDead'
  BY <1>3, <1>6, EffectDead
<1>10. RowCountExact' /\ num_rows' \in Nat
  BY <1>6, EffectCount
<1>11. TableTypeOK'
  BY <1>6, <1>10 DEF Effect, NewRows, NewWrites, TableTypeOK
<1> QED
  BY <1>3, <1>7, <1>8, <1>9, <1>10, <1>11 DEF TableInv

(* So does a roll-back step. *)
LEMMA RollbackStep ==
    ASSUME TableInv, NEW t \in TxIds, RollbackWrite(t)
    PROVE  TableInv'
<1> DEFINE w == write_set[t][Len(write_set[t])]
<1>1. /\ txn_state' = txn_state /\ phase' = phase /\ phase[t] = "rollback"
      /\ UNCHANGED txnVars /\ undo' = undo
  BY DEF RollbackWrite, txnVars
<1>2. TxnInv'
  BY <1>1, TxnStep DEF TableInv
<1>3. NotEnded(t)
  BY <1>1 DEF NotEnded, TableInv, TxnInv, PhaseInv
<1>4. RolledBack(t, w)
  BY RollbackEffect
<1> HIDE DEF w
<1>5. ListedInv' /\ KeptInv' /\ OwnInv' /\ PairInv' /\ DeadInv' /\ AbortLeavesOnlyDead'
  BY <1>1, <1>3, <1>4, RollbackKeeps
<1>6. RowCountExact' /\ num_rows' \in Nat
  BY RollbackCount
<1>7. TableTypeOK'
  BY <1>1, <1>4, <1>6 DEF RolledBack, TableInv, TableTypeOK
<1> QED
  BY <1>2, <1>5, <1>6, <1>7 DEF TableInv

(* A SELECT changes no row. *)
LEMMA SelectKeeps ==
    ASSUME TableInv, NEW t \in TxIds, Select(t)
    PROVE  TableInv'
<1>1. /\ TxnInv' /\ txn_state' = txn_state /\ phase' = phase
      /\ UNCHANGED <<rows, undo, write_set, num_rows>>
  BY StatementTxn DEF Select, tableVars, TableInv
<1>2. TableTypeOK' /\ RowCountExact'
  BY <1>1 DEF TableInv, TableTypeOK, RowCountExact
<1>3. ListedInv' /\ KeptInv'
  BY <1>1 DEF TableInv, ListedInv, Listed, KeptInv, Kept, NotEnded
<1>4. OwnInv' /\ PairInv' /\ DeadInv' /\ AbortLeavesOnlyDead'
  BY <1>1 DEF TableInv, OwnInv, PairInv, NotEnded, DeadInv, AbortLeavesOnlyDead
<1> QED
  BY <1>1, <1>2, <1>3, <1>4 DEF TableInv

(* The steps of the engine, by what they do to the table. *)
LEMMA MVCCCases ==
    ASSUME MVCCNext
    PROVE  \E t \in TxIds : \/ Calls(t) /\ UNCHANGED tableVars
                            \/ Select(t) \/ Changing(t) \/ RollbackWrite(t)
BY DEF MVCCNext, Calls, Changing

(* Every step of the engine, or none, keeps the invariant. *)
LEMMA TableStep ==
    ASSUME TableInv, [MVCCNext]_mvccVars
    PROVE  TableInv'
<1>1. CASE MVCCNext
  BY <1>1, MVCCCases, CallsKeep, SelectKeeps, ChangingKeeps, RollbackStep
<1>2. CASE UNCHANGED mvccVars
  <2>1. UNCHANGED txnVars /\ UNCHANGED <<rows, undo, write_set, num_rows>>
    BY <1>2 DEF mvccVars, tableVars
  <2>2. TxnInv' /\ txn_state' = txn_state /\ phase' = phase
    BY <2>1, TxnStep DEF TableInv, txnVars
  <2>3. TableTypeOK' /\ RowCountExact'
    BY <2>1 DEF TableInv, TableTypeOK, RowCountExact
  <2>4. ListedInv' /\ KeptInv'
    BY <2>1, <2>2 DEF TableInv, ListedInv, Listed, KeptInv, Kept, NotEnded
  <2>5. OwnInv' /\ PairInv' /\ DeadInv' /\ AbortLeavesOnlyDead'
    BY <2>1, <2>2 DEF TableInv, OwnInv, PairInv, NotEnded, DeadInv, AbortLeavesOnlyDead
  <2> QED
    BY <2>2, <2>3, <2>4, <2>5 DEF TableInv
<1> QED
  BY <1>1, <1>2

(* An empty table has no writes and no rows. *)
LEMMA TableInit == MVCCInit => TableInv
<1> SUFFICES ASSUME MVCCInit PROVE TableInv
  OBVIOUS
<1>1. TxnInv
  BY TxnInitInv DEF MVCCInit
<1>2. rows = <<>> /\ undo = <<>> /\ write_set = [t \in TxIds |-> <<>>] /\ num_rows = 0
  BY DEF MVCCInit
<1>3. Len(rows) = 0 /\ \A t \in TxIds : Len(write_set[t]) = 0
  BY <1>2
<1>4. TableTypeOK
  BY <1>2 DEF TableTypeOK
<1>5. ListedInv /\ KeptInv /\ OwnInv /\ PairInv /\ DeadInv /\ AbortLeavesOnlyDead
  BY <1>3 DEF ListedInv, KeptInv, OwnInv, PairInv, DeadInv, AbortLeavesOnlyDead
<1>6. RowCountExact
  <2>1. {r \in 1 .. Len(rows) : ~rows[r].del /\ ~rows[r].dead} = {}
    BY <1>3
  <2> QED
    BY <1>2, <2>1, FS_EmptySet DEF RowCountExact
<1> QED
  BY <1>1, <1>4, <1>5, <1>6 DEF TableInv

(***************************************************************************)
(* In every reachable state the write set of a transaction that has not    *)
(* ended is exactly what RollbackWrites needs to take its writes back.     *)
(***************************************************************************)
THEOREM TableInvariance == MVCCSpec => []TableInv
<1>1. MVCCInit => TableInv
  BY TableInit
<1>2. TableInv /\ [MVCCNext]_mvccVars => TableInv'
  BY TableStep
<1> QED
  BY <1>1, <1>2, PTL DEF MVCCSpec

(***************************************************************************)
(* The row count of the meta page, kept by increments, is the number of    *)
(* records with neither mark, through statements that throw half way and   *)
(* roll-backs too.                                                         *)
(***************************************************************************)
THEOREM RowCountTheorem == MVCCSpec => []RowCountExact
<1>1. TableInv => RowCountExact
  BY DEF TableInv
<1> QED
  BY <1>1, TableInvariance, PTL

(***************************************************************************)
(* Once Abort has published its state, nothing of the transaction is left  *)
(* in the table but records marked dead.                                   *)
(***************************************************************************)
THEOREM AbortTheorem == MVCCSpec => []AbortLeavesOnlyDead
<1>1. TableInv => AbortLeavesOnlyDead
  BY DEF TableInv
<1> QED
  BY <1>1, TableInvariance, PTL

(***************************************************************************)
(* The conflict check of DELETE and UPDATE never finds a conflict: the     *)
(* visibility test before it has already left out the records of others    *)
(* that are in progress.                                                   *)
(***************************************************************************)
THEOREM NoConflictTheorem == MVCCSpec => []NoConflictThrown
<1>1. TableInv => NoConflictThrown
  BY NoConflict DEF TableInv
<1> QED
  BY <1>1, TableInvariance, PTL

(***************************************************************************)
(* While the transaction that marked a record is in flight, nothing but    *)
(* its own roll-back changes the record's header.                          *)
(***************************************************************************)
THEOREM MarkOwnerTheorem == MVCCSpec => MarkIsOwned
<1>1. ASSUME TableInv, [MVCCNext]_mvccVars, NEW r \in 1 .. Len(rows),
             rows[r].del, InFlight(rows[r].trx), rows'[r] # rows[r]
      PROVE  phase[rows[r].trx] = "rollback" /\ write_set'[rows[r].trx] # write_set[rows[r].trx]
  <2>1. TableTypeOK /\ TxnInv /\ DeadInv /\ RowCountExact
    BY <1>1 DEF TableInv
  <2>2. MVCCNext
    BY <1>1 DEF mvccVars, tableVars
  <2>3. PICK t \in TxIds : \/ Calls(t) /\ UNCHANGED tableVars
                           \/ Select(t) \/ Changing(t) \/ RollbackWrite(t)
    BY <2>2, MVCCCases
  <2>4. ~(UNCHANGED tableVars) /\ ~Select(t)
    BY <1>1 DEF tableVars, Select
  <2>5. ~Changing(t)
    <3> SUFFICES ASSUME Changing(t) PROVE FALSE
      OBVIOUS
    <3>1. PICK hits : \E placed \in Nat : Effect(t, hits, placed)
      BY <2>1, ChangingEffect
    <3>2. PICK placed \in Nat : Effect(t, hits, placed)
      BY <3>1
    <3>3. HitsOK(t, hits) /\ NewRows(t, hits, placed)
      BY <3>2 DEF Effect
    <3>4. r \in hits
      BY <1>1, <3>3 DEF NewRows
    <3> QED
      BY <1>1, <3>3, <3>4 DEF HitsOK
  <2>6. RollbackWrite(t)
    BY <2>3, <2>4, <2>5
  <2> DEFINE w == write_set[t][Len(write_set[t])]
  <2>7. RolledBack(t, w) /\ phase[t] = "rollback"
    BY <1>1, <2>6, RollbackEffect DEF RollbackWrite
  <2> HIDE DEF w
  <2>8. r = w.rid /\ rows[r].trx = t
    BY <1>1, <2>7 DEF RolledBack, Kept
  <2>9. Len(write_set'[t]) # Len(write_set[t])
    BY <2>7 DEF RolledBack
  <2> QED
    BY <2>7, <2>8, <2>9
<1>2. TableInv /\ [MVCCNext]_mvccVars =>
        [\A r \in 1 .. Len(rows) :
            LET t == rows[r].trx
            IN  rows[r].del /\ InFlight(t) /\ rows'[r] # rows[r] =>
                   phase[t] = "rollback" /\ write_set'[t] # write_set[t]]_mvccVars
  BY <1>1
<1> QED
  BY <1>2, TableInvariance, PTL DEF MVCCSpec, MarkIsOwned

-----------------------------------------------------------------------------
(***************************************************************************)
(* The table implements SnapshotIsolation.  The abstract state is what     *)
(* scans return, so the proof has to know what every scan returns: the one *)
(* of a transaction's own read view, and the one that a later commit will  *)
(* make the committed table.  RefineInv says why these agree: undo chains  *)
(* stay within a row and lead to older images, the records of a row are    *)
(* its versions in order, and the write set of a transaction can put back  *)
(* exactly what the scans of the others still find under its changes.      *)
(***************************************************************************)

(* Who wrote the record's version, and the image before that version. *)
Writer(r) == IF rows[r].del THEN undo[rows[r].roll].trx ELSE rows[r].trx
Base(r) == IF rows[r].del THEN undo[rows[r].roll].roll ELSE rows[r].roll

(* Every set of transactions that a scan can be asked to show. *)
Views ==
    {CommittedTxns}
    \union {CommittedTxns \union {t} : t \in {u \in TxIds : InFlight(u)}}
    \union {snapshot[t] \union {t} : t \in {u \in TxIds : phase[u] = "running"}}

(* Whoever is shown what w wrote is also shown what d did. *)
Before(d, w) == \A V \in Views : w \in V => d \in V

(* Undo images lead to older images of the same row. *)
ImageOK(p) ==
    /\ undo[p].roll \in 0 .. p - 1
    /\ undo[p].roll # 0 => undo[undo[p].roll].row = undo[p].row

(* A record leads to images of its row; the image under a delete mark is   *)
(* the version it deletes: its own transaction's, or a committed one.      *)
RecordOK(r) ==
    /\ rows[r].row \in 1 .. r
    /\ rows[r].roll \in 0 .. Len(undo)
    /\ rows[r].roll # 0 => undo[rows[r].roll].row = rows[r].row
    /\ rows[r].dead => ~rows[r].del
    /\ rows[r].del =>
          /\ rows[r].roll # 0
          /\ undo[rows[r].roll].val = rows[r].val
          /\ undo[rows[r].roll].trx = rows[r].trx \/ undo[rows[r].roll].trx \in CommittedTxns

HeadInv ==
    /\ \A p \in 1 .. Len(undo) : ImageOK(p)
    /\ \A r \in 1 .. Len(rows) : RecordOK(r)

(* Whoever wrote a record or an image has begun. *)
StartedInv ==
    /\ \A p \in 1 .. Len(undo) : HasView(undo[p].trx)
    /\ \A r \in 1 .. Len(rows) : HasView(rows[r].trx)

(* A DELETE of the write set and the image under the mark hold the same    *)
(* header, so the roll-back puts back what scans found under the mark.     *)
SavedInv ==
    \A t \in TxIds : NotEnded(t) =>
        \A i \in 1 .. Len(write_set[t]) :
            LET w == write_set[t][i]
            IN  w.type = "DELETE" => /\ undo[rows[w.rid].roll].trx = w.prev_trx
                                     /\ undo[rows[w.rid].roll].roll = w.prev_roll

(* A mark of a transaction that has not ended is in its write set. *)
MarkInv ==
    \A r \in 1 .. Len(rows) : rows[r].del /\ NotEnded(rows[r].trx) =>
        \E i \in 1 .. Len(write_set[rows[r].trx]) :
            /\ write_set[rows[r].trx][i].rid = r
            /\ write_set[rows[r].trx][i].type = "DELETE"

(* A version not yet committed is an INSERT of its writer's write set,      *)
(* entered after the DELETE of the version that it replaces.               *)
Held(t, n) ==
    \E i \in 1 .. Len(write_set[t]) :
        /\ write_set[t][i].type = "INSERT" /\ write_set[t][i].rid = n
        /\ \A j \in 1 .. Len(write_set[t]) :
              LET w == write_set[t][j]
              IN  w.type = "DELETE" /\ w.rid < n /\ rows[w.rid].row = rows[n].row => j < i
        /\ Base(n) # 0 =>
              \E j \in 1 .. i - 1 : /\ write_set[t][j].type = "DELETE"
                                    /\ rows[write_set[t][j].rid].roll = Base(n)

HoldInv ==
    \A n \in 1 .. Len(rows) : ~rows[n].dead /\ NotEnded(Writer(n)) => Held(Writer(n), n)

(* The records of a row, live ones, are its versions in order: the older   *)
(* is marked, and whoever is shown the newer is shown the mark, so that no *)
(* scan shows both.                                                        *)
LineInv ==
    \A s, r \in 1 .. Len(rows) :
        s < r /\ rows[s].row = rows[r].row /\ ~rows[s].dead /\ ~rows[r].dead =>
            rows[s].del /\ Before(rows[s].trx, Writer(r))

-----------------------------------------------------------------------------
(* What a scan shows of the versions that the transactions in V wrote. *)
Walks(f, V, ud) ==
    /\ f[0] = {}
    /\ \A q \in 1 .. Len(ud) :
          f[q] = IF ud[q].trx \in V THEN {VersionOf(ud[q])} ELSE f[ud[q].roll]

Found(V, ud) == CHOOSE f : Walks(f, V, ud)

Shown(V, rs, ud, r) ==
    IF rs[r].dead THEN {}
    ELSE IF rs[r].trx \in V THEN IF rs[r].del THEN {} ELSE {VersionOf(rs[r])}
    ELSE Found(V, ud)[rs[r].roll]

TableOf(V, rs, ud) == UNION {Shown(V, rs, ud, r) : r \in 1 .. Len(rs)}

(* The images a pointer leads to get older. *)
RollsBack(ud) == Len(ud) \in Nat /\ \A p \in 1 .. Len(ud) : ud[p].roll \in 0 .. p - 1

(* Chains lead to older images, so the walk is defined from every pointer. *)
LEMMA WalkExists ==
    ASSUME NEW V, NEW ud, RollsBack(ud)
    PROVE  Walks(Found(V, ud), V, ud)
<1> DEFINE upto(f, n) == /\ f[0] = {}
                         /\ \A q \in 1 .. n :
                              f[q] = IF ud[q].trx \in V THEN {VersionOf(ud[q])} ELSE f[ud[q].roll]
           S == {n \in Nat : n <= Len(ud) /\ ~ \E f : upto(f, n)}
<1>0. Len(ud) \in Nat /\ \A p \in 1 .. Len(ud) : ud[p].roll \in 0 .. p - 1
  BY DEF RollsBack
<1>1. S = {}
  <2> SUFFICES ASSUME S # {} PROVE FALSE
    OBVIOUS
  <2>1. PICK m \in S : \A k \in S : m <= k
    <3>1. S \subseteq Nat
      OBVIOUS
    <3> HIDE DEF S
    <3> QED
      BY <3>1, MinOfNats
  <2>2. m \in Nat /\ m <= Len(ud) /\ ~ \E f : upto(f, m)
    OBVIOUS
  <2>3. CASE m = 0
    <3> DEFINE g == [q \in 0 .. 0 |-> {}]
    <3>1. upto(g, 0)
      OBVIOUS
    <3> QED
      BY <2>2, <2>3, <3>1
  <2>4. CASE m # 0
    <3>1. m - 1 \in Nat /\ m - 1 <= Len(ud) /\ ~(m <= m - 1)
      BY <1>0, <2>2, <2>4
    <3>2. PICK f : upto(f, m - 1)
      BY <2>1, <3>1
    <3> DEFINE at(q) == IF ud[q].trx \in V THEN {VersionOf(ud[q])} ELSE f[ud[q].roll]
               g == [q \in 0 .. m |-> IF q = 0 THEN {} ELSE at(q)]
    <3>3. f[0] = {} /\ \A q \in 1 .. m - 1 : f[q] = at(q)
      BY <3>2
    <3> HIDE DEF at
    <3>4. \A q \in 0 .. m - 1 : q \in 0 .. m /\ g[q] = f[q]
      <4> SUFFICES ASSUME NEW q \in 0 .. m - 1 PROVE q \in 0 .. m /\ g[q] = f[q]
        OBVIOUS
      <4>1. q \in 0 .. m /\ (q = 0 \/ q \in 1 .. m - 1)
        BY <2>2
      <4> QED
        BY <3>3, <4>1
    <3>5. g[0] = {} /\ \A q \in 1 .. m : g[q] = at(q)
      BY <2>2
    <3> HIDE DEF g
    <3>6. ASSUME NEW q \in 1 .. m PROVE f[ud[q].roll] = g[ud[q].roll]
      <4>1. ud[q].roll \in 0 .. q - 1
        BY <1>0, <2>2
      <4>2. ud[q].roll \in 0 .. m - 1
        BY <2>2, <4>1
      <4> QED
        BY <3>4, <4>2
    <3>7. upto(g, m)
      BY <3>5, <3>6 DEF at
    <3> QED
      BY <2>2, <3>7
  <2> QED
    BY <2>3, <2>4
<1>2. \E f : upto(f, Len(ud))
  <2>1. Len(ud) \in Nat /\ Len(ud) <= Len(ud)
    BY <1>0
  <2> QED
    BY <1>1, <2>1
<1>3. \E f : Walks(f, V, ud)
  BY <1>2 DEF Walks
<1> QED
  BY <1>3 DEF Found

(* The images are among the others, and V and W agree on their writers. *)
SameImages(ud, ue, V, W) ==
    /\ Len(ue) \in Nat /\ Len(ud) <= Len(ue)
    /\ \A q \in 1 .. Len(ud) : ue[q] = ud[q] /\ (ud[q].trx \in V <=> ud[q].trx \in W)

(* Two walks over the same images with views that agree find the same. *)
LEMMA WalkUnique ==
    ASSUME NEW V, NEW W, NEW ud, NEW ue, RollsBack(ud), NEW f, NEW g,
           Walks(f, V, ud), Walks(g, W, ue), SameImages(ud, ue, V, W)
    PROVE  \A q \in 0 .. Len(ud) : f[q] = g[q]
<1>a. /\ Len(ue) \in Nat /\ Len(ud) <= Len(ue)
      /\ \A q \in 1 .. Len(ud) : ue[q] = ud[q] /\ (ud[q].trx \in V <=> ud[q].trx \in W)
  BY DEF SameImages
<1> DEFINE S == {n \in 0 .. Len(ud) : f[n] # g[n]}
<1> SUFFICES ASSUME S # {} PROVE FALSE
  OBVIOUS
<1>0. Len(ud) \in Nat /\ \A p \in 1 .. Len(ud) : ud[p].roll \in 0 .. p - 1
  BY DEF RollsBack
<1>1. PICK m \in S : \A k \in S : m <= k
  <2>1. S \subseteq Nat
    BY <1>0
  <2> HIDE DEF S
  <2> QED
    BY <2>1, MinOfNats
<1>2. m \in 0 .. Len(ud) /\ f[m] # g[m]
  OBVIOUS
<1>3. m # 0
  BY <1>2 DEF Walks
<1>4. m \in 1 .. Len(ud) /\ m \in 1 .. Len(ue)
  BY <1>0, <1>a, <1>2, <1>3
<1>5. /\ f[m] = IF ud[m].trx \in V THEN {VersionOf(ud[m])} ELSE f[ud[m].roll]
      /\ g[m] = IF ue[m].trx \in W THEN {VersionOf(ue[m])} ELSE g[ue[m].roll]
  BY <1>4 DEF Walks
<1>6. f[ud[m].roll] # g[ud[m].roll]
  BY <1>a, <1>2, <1>4, <1>5
<1>7. ud[m].roll \in 0 .. m - 1
  BY <1>0, <1>4
<1>8. ud[m].roll \in 0 .. Len(ud) /\ ~(m <= ud[m].roll)
  BY ONLY <1>0, <1>2, <1>7
<1>9. ud[m].roll \in S
  BY <1>6, <1>8
<1> QED
  BY <1>1, <1>8, <1>9

(* The walk from a pointer. *)
LEMMA FoundUnfolds ==
    ASSUME NEW V, NEW ud, RollsBack(ud)
    PROVE  /\ Found(V, ud)[0] = {}
           /\ \A q \in 1 .. Len(ud) :
                 Found(V, ud)[q] = IF ud[q].trx \in V THEN {VersionOf(ud[q])}
                                   ELSE Found(V, ud)[ud[q].roll]
<1>1. Walks(Found(V, ud), V, ud)
  BY WalkExists
<1> QED
  BY ONLY <1>1 DEF Walks

(* ChainVersion is such a walk. *)
LEMMA ChainIsWalk ==
    ASSUME NEW V, NEW rv, RollsBack(undo),
           \A q \in 1 .. Len(undo) : undo[q].trx \in V <=> IsVisible(rv, txn_state, undo[q].trx),
           NEW p \in 0 .. Len(undo)
    PROVE  ChainVersion(rv, p) = Found(V, undo)[p]
<1> DEFINE f == Found(V, undo)
           g == [q \in 0 .. Len(undo) |-> f[q]]
           visible[q \in 0 .. Len(undo)] ==
             IF q = 0 THEN {}
             ELSE IF IsVisible(rv, txn_state, undo[q].trx) THEN {VersionOf(undo[q])}
             ELSE visible[undo[q].roll]
<1>0. Len(undo) \in Nat /\ \A q \in 1 .. Len(undo) : undo[q].roll \in 0 .. q - 1
  BY DEF RollsBack
<1>1. /\ f[0] = {}
      /\ \A q \in 1 .. Len(undo) : f[q] = IF undo[q].trx \in V THEN {VersionOf(undo[q])}
                                          ELSE f[undo[q].roll]
  BY FoundUnfolds
<1> HIDE DEF f, visible
<1>2. visible = CHOOSE h : h = [q \in 0 .. Len(undo) |->
                    IF q = 0 THEN {}
                    ELSE IF IsVisible(rv, txn_state, undo[q].trx) THEN {VersionOf(undo[q])}
                    ELSE h[undo[q].roll]]
  BY DEF visible
<1>3. \A q \in 0 .. Len(undo) : g[q] = f[q]
  OBVIOUS
<1>4. \A q \in 1 .. Len(undo) : undo[q].roll \in 0 .. Len(undo)
  BY <1>0
<1>5. \A q \in 0 .. Len(undo) : f[q] =
        IF q = 0 THEN {}
        ELSE IF IsVisible(rv, txn_state, undo[q].trx) THEN {VersionOf(undo[q])}
        ELSE g[undo[q].roll]
  <2> SUFFICES ASSUME NEW q \in 0 .. Len(undo), q # 0
               PROVE  f[q] = IF IsVisible(rv, txn_state, undo[q].trx) THEN {VersionOf(undo[q])}
                             ELSE g[undo[q].roll]
    BY <1>1
  <2>1. q \in 1 .. Len(undo)
    BY <1>0
  <2>2. g[undo[q].roll] = f[undo[q].roll]
    BY <1>3, <1>4, <2>1
  <2> HIDE DEF g
  <2> QED
    BY <1>1, <2>1, <2>2
<1>6. g = [q \in 0 .. Len(undo) |->
             IF q = 0 THEN {}
             ELSE IF IsVisible(rv, txn_state, undo[q].trx) THEN {VersionOf(undo[q])}
             ELSE g[undo[q].roll]]
  <2>1. g = [q \in 0 .. Len(undo) |-> f[q]]
    OBVIOUS
  <2> HIDE DEF g
  <2> QED
    BY <1>5, <2>1
<1> HIDE DEF g
<1>7. visible = [q \in 0 .. Len(undo) |->
                    IF q = 0 THEN {}
                    ELSE IF IsVisible(rv, txn_state, undo[q].trx) THEN {VersionOf(undo[q])}
                    ELSE visible[undo[q].roll]]
  BY <1>2, <1>6
<1>8. Walks(visible, V, undo)
  <2>1. visible[0] = {}
    BY <1>0, <1>7
  <2>2. ASSUME NEW q \in 1 .. Len(undo)
        PROVE  visible[q] = IF undo[q].trx \in V THEN {VersionOf(undo[q])} ELSE visible[undo[q].roll]
    <3>1. q \in 0 .. Len(undo) /\ q # 0
      BY <1>0
    <3>2. visible[q] = IF IsVisible(rv, txn_state, undo[q].trx) THEN {VersionOf(undo[q])}
                       ELSE visible[undo[q].roll]
      BY <1>7, <3>1
    <3> QED
      BY <3>2
  <2> QED
    BY <2>1, <2>2 DEF Walks
<1>9. Walks(f, V, undo)
  BY WalkExists DEF f
<1>10. Len(undo) <= Len(undo) /\ Len(undo) \in Nat
  BY <1>0
<1>b. SameImages(undo, undo, V, V)
  BY <1>10 DEF SameImages
<1>11. visible[p] = f[p]
  BY <1>8, <1>9, <1>b, WalkUnique
<1>12. ChainVersion(rv, p) = visible[p]
  BY DEF ChainVersion, visible
<1> QED
  BY <1>11, <1>12 DEF f

-----------------------------------------------------------------------------
(* Which transactions' versions a read view shows. *)

(* The view of a transaction: its snapshot and itself. *)
LEMMA OwnView ==
    ASSUME TxnInv, NEW t \in TxIds, HasView(t), NEW v \in TxIds
    PROVE  IsVisible(read_view[t], txn_state, v) <=> v \in snapshot[t] \union {t}
<1>1. v # INVALID_TX_ID
  BY MaxTxidAssumption DEF TxIds, INVALID_TX_ID
<1> QED
  BY <1>1 DEF TxnInv, TxnTypeOK, ViewInv, IsVisible

(* A view taken now shows what has committed by now, and its owner's. *)
LEMMA FreshView ==
    ASSUME TxnInv, NEW t \in 0 .. MaxTxid, NEW v \in TxIds
    PROVE  IsVisible(MakeReadView(t, next_txid, active_txns, txn_state), txn_state, v)
              <=> v \in CommittedTxns \union {t}
<1> DEFINE rv == MakeReadView(t, next_txid, active_txns, txn_state)
           others == {a \in active_txns \ {t} : txn_state[a] = "IN_PROGRESS"}
<1>1. v # INVALID_TX_ID
  BY MaxTxidAssumption DEF TxIds, INVALID_TX_ID
<1>2. txn_state[v] \in {"UNKNOWN", "IN_PROGRESS", "COMMITTED", "ABORTED"}
  BY DEF TxnInv, TxnTypeOK, TransactionState
<1>3. rv.create = t /\ rv.low = next_txid /\ rv.active = others
  BY DEF MakeReadView
<1>4. /\ v < next_txid <=> txn_state[v] # "UNKNOWN"
      /\ v \in active_txns <=> txn_state[v] = "IN_PROGRESS"
  BY DEF TxnInv, PhaseInv
<1>5. v \in CommittedTxns <=> txn_state[v] = "COMMITTED"
  BY DEF CommittedTxns
<1> HIDE DEF rv
<1>6. IsVisible(rv, txn_state, v) <=>
        \/ v = t
        \/ /\ txn_state[v] # "ABORTED" /\ v < next_txid /\ v \notin others
           /\ v < rv.up \/ txn_state[v] = "COMMITTED"
  BY <1>1, <1>3 DEF IsVisible
<1>7. v \in others <=> v # t /\ txn_state[v] = "IN_PROGRESS"
  BY <1>4
<1> HIDE DEF others
<1>8. IsVisible(rv, txn_state, v) <=> v = t \/ txn_state[v] = "COMMITTED"
  BY <1>2, <1>4, <1>6, <1>7
<1> QED
  BY <1>5, <1>8 DEF rv

(* What a statement of t starts from, besides t's own. *)
StatementSet(t) == IF t \in ReadCommitted THEN CommittedTxns ELSE snapshot[t]

(* A statement sees its start set and its own transaction, and nothing else. *)
LEMMA StatementSees ==
    ASSUME TxnInv, NEW t \in TxIds, phase[t] = "running", NEW v \in TxIds
    PROVE  IsVisible(StatementView(t), txn_state, v) <=> v \in StatementSet(t) \union {t}
<1>1. t \in 0 .. MaxTxid /\ HasView(t)
  BY MaxTxidAssumption DEF TxIds, HasView
<1>2. CASE t \in ReadCommitted
  BY <1>1, <1>2, FreshView DEF StatementView, StatementSet
<1>3. CASE t \notin ReadCommitted
  BY <1>1, <1>3, OwnView DEF StatementView, StatementSet
<1> QED
  BY <1>2, <1>3

(* What the types of rows and undo say of each field. *)
LEMMA FieldTypes ==
    TableTypeOK =>
       /\ Len(undo) \in Nat /\ Len(rows) \in Nat
       /\ \A r \in 1 .. Len(rows) :
             /\ rows[r].trx \in TxIds /\ rows[r].val \in Values /\ rows[r].row \in Nat
             /\ rows[r].del \in BOOLEAN /\ rows[r].dead \in BOOLEAN /\ rows[r].roll \in Nat
       /\ \A p \in 1 .. Len(undo) :
             undo[p].trx \in TxIds /\ undo[p].val \in Values /\ undo[p].roll \in Nat
<1> SUFFICES ASSUME TableTypeOK
             PROVE  /\ Len(undo) \in Nat /\ Len(rows) \in Nat
                    /\ \A r \in 1 .. Len(rows) :
                          /\ rows[r].trx \in TxIds /\ rows[r].val \in Values /\ rows[r].row \in Nat
                          /\ rows[r].del \in BOOLEAN /\ rows[r].dead \in BOOLEAN /\ rows[r].roll \in Nat
                    /\ \A p \in 1 .. Len(undo) :
                          undo[p].trx \in TxIds /\ undo[p].val \in Values /\ undo[p].roll \in Nat
  OBVIOUS
<1>1. Len(undo) \in Nat /\ Len(rows) \in Nat
  BY DEF TableTypeOK
<1>2. \A r \in 1 .. Len(rows) : rows[r] \in Records
  BY DEF TableTypeOK
<1>3. \A p \in 1 .. Len(undo) : undo[p] \in Images
  BY DEF TableTypeOK
<1> QED
  BY <1>1, <1>2, <1>3 DEF Records, Images

(* A scan shows the table of what its view shows. *)
LEMMA ScanIsTable ==
    ASSUME TableTypeOK, HeadInv, NEW rv, NEW V,
           \A v \in TxIds : IsVisible(rv, txn_state, v) <=> v \in V
    PROVE  Scan(rv) = TableOf(V, rows, undo)
<1>1. /\ Len(undo) \in Nat /\ Len(rows) \in Nat
      /\ \A r \in 1 .. Len(rows) : rows[r].trx \in TxIds
      /\ \A p \in 1 .. Len(undo) : undo[p].trx \in TxIds
  BY FieldTypes
<1>2. RollsBack(undo)
  BY <1>1 DEF RollsBack, HeadInv, ImageOK
<1>3. \A q \in 1 .. Len(undo) : undo[q].trx \in V <=> IsVisible(rv, txn_state, undo[q].trx)
  BY <1>1
<1>4. \A r \in 1 .. Len(rows) : rows[r].roll \in 0 .. Len(undo)
  BY DEF HeadInv, RecordOK
<1>5. \A r \in 1 .. Len(rows) : ChainVersion(rv, rows[r].roll) = Found(V, undo)[rows[r].roll]
  BY <1>2, <1>3, <1>4, ChainIsWalk
<1>6. \A r \in 1 .. Len(rows) : ScanRecord(rv, r) = Shown(V, rows, undo, r)
  BY <1>1, <1>5 DEF ScanRecord, Shown
<1> QED
  BY <1>6 DEF Scan, TableOf

RefineInv ==
    TableInv /\ HeadInv /\ StartedInv /\ SavedInv /\ MarkInv /\ HoldInv /\ LineInv

(* The abstract state, in terms of those tables. *)
LEMMA Mapped ==
    TableInv /\ HeadInv =>
       /\ Committed = TableOf(CommittedTxns, rows, undo)
       /\ \A t \in TxIds : phase[t] = "running" =>
             Scan(read_view[t]) = TableOf(snapshot[t] \union {t}, rows, undo)
<1> SUFFICES ASSUME TableInv, HeadInv
             PROVE  /\ Committed = TableOf(CommittedTxns, rows, undo)
                    /\ \A t \in TxIds : phase[t] = "running" =>
                          Scan(read_view[t]) = TableOf(snapshot[t] \union {t}, rows, undo)
  OBVIOUS
<1>0. TxnInv /\ TableTypeOK
  BY DEF TableInv
<1>1. Committed = TableOf(CommittedTxns, rows, undo)
  <2> DEFINE rv == MakeReadView(0, next_txid, active_txns, txn_state)
  <2>1. 0 \in 0 .. MaxTxid /\ \A v \in TxIds : v # 0
    BY MaxTxidAssumption DEF TxIds
  <2>2. \A v \in TxIds : IsVisible(rv, txn_state, v) <=> v \in CommittedTxns \union {0}
    BY <1>0, <2>1, FreshView
  <2> HIDE DEF rv
  <2>3. \A v \in TxIds : IsVisible(rv, txn_state, v) <=> v \in CommittedTxns
    BY <2>1, <2>2
  <2>4. Scan(rv) = TableOf(CommittedTxns, rows, undo)
    BY <1>0, <2>3, ScanIsTable
  <2> QED
    BY <2>4 DEF Committed, rv
<1>2. ASSUME NEW t \in TxIds, phase[t] = "running"
      PROVE  Scan(read_view[t]) = TableOf(snapshot[t] \union {t}, rows, undo)
  <2>1. \A v \in TxIds : IsVisible(read_view[t], txn_state, v) <=> v \in snapshot[t] \union {t}
    BY <1>0, <1>2, OwnView DEF HasView
  <2> QED
    BY <1>0, <2>1, ScanIsTable
<1> QED
  BY <1>1, <1>2

-----------------------------------------------------------------------------
(* What the records and chains look like. *)

(* What the walk finds belongs to the row, and to the view. *)
LEMMA FoundRow ==
    ASSUME TableTypeOK, HeadInv, NEW V, NEW q \in 1 .. Len(undo), NEW x \in Found(V, undo)[q]
    PROVE  x.row = undo[q].row /\ x.by \in V
<1> DEFINE f == Found(V, undo)
           S == {p \in 1 .. Len(undo) : \E y \in f[p] : ~(y.row = undo[p].row /\ y.by \in V)}
<1>0. /\ Len(undo) \in Nat
      /\ \A p \in 1 .. Len(undo) :
            undo[p].roll \in 0 .. p - 1 /\ (undo[p].roll # 0 => undo[undo[p].roll].row = undo[p].row)
  <2>1. Len(undo) \in Nat
    BY FieldTypes
  <2> QED
    BY <2>1 DEF HeadInv, ImageOK
<1>1. /\ f[0] = {}
      /\ \A p \in 1 .. Len(undo) : f[p] = IF undo[p].trx \in V THEN {VersionOf(undo[p])}
                                          ELSE f[undo[p].roll]
  <2>1. RollsBack(undo)
    BY <1>0 DEF RollsBack
  <2>2. Walks(f, V, undo)
    BY <2>1, WalkExists
  <2> HIDE DEF f
  <2> QED
    BY ONLY <2>2 DEF Walks
<1> HIDE DEF f
<1>2. S = {}
  <2> SUFFICES ASSUME S # {} PROVE FALSE
    OBVIOUS
  <2>1. PICK m \in S : \A k \in S : m <= k
    <3>1. S \subseteq Nat
      BY <1>0
    <3> HIDE DEF S
    <3> QED
      BY <3>1, MinOfNats
  <2>2. m \in 1 .. Len(undo)
    OBVIOUS
  <2>3. PICK y \in f[m] : ~(y.row = undo[m].row /\ y.by \in V)
    OBVIOUS
  <2>4. undo[m].trx \notin V
    <3> SUFFICES ASSUME undo[m].trx \in V PROVE FALSE
      OBVIOUS
    <3>1. y = VersionOf(undo[m])
      BY <1>1, <2>2
    <3> QED
      BY <2>3, <3>1 DEF VersionOf
  <2>5. y \in f[undo[m].roll]
    BY <1>1, <2>2, <2>4
  <2>6. undo[m].roll \in 0 .. m - 1 /\ undo[m].roll # 0
    BY <1>0, <1>1, <2>2, <2>5
  <2>7. undo[m].roll \in 1 .. Len(undo) /\ ~(m <= undo[m].roll)
    BY <1>0, <2>2, <2>6
  <2>8. undo[undo[m].roll].row = undo[m].row
    BY <1>0, <2>2, <2>6
  <2>9. undo[m].roll \in S
    BY <2>3, <2>5, <2>7, <2>8
  <2> QED
    BY <2>1, <2>7, <2>9
<1> QED
  BY <1>2 DEF f

(* What is shown of a record is a version of its row, by one of the set. *)
LEMMA ShownRow ==
    ASSUME TableTypeOK, HeadInv, NEW V, NEW r \in 1 .. Len(rows), NEW x \in Shown(V, rows, undo, r)
    PROVE  x.row = rows[r].row /\ x.by \in V /\ ~rows[r].dead
<1>1. ~rows[r].dead
  BY DEF Shown
<1>2. CASE rows[r].trx \in V
  <2>1. x = VersionOf(rows[r])
    BY <1>1, <1>2 DEF Shown
  <2> QED
    BY <1>1, <1>2, <2>1 DEF VersionOf
<1>3. CASE rows[r].trx \notin V
  <2>1. x \in Found(V, undo)[rows[r].roll]
    BY <1>1, <1>3 DEF Shown
  <2>2. rows[r].roll \in 0 .. Len(undo) /\ Len(undo) \in Nat /\ RollsBack(undo)
    BY FieldTypes DEF HeadInv, RecordOK, RollsBack, ImageOK
  <2>3. rows[r].roll # 0
    BY <2>1, <2>2, FoundUnfolds
  <2>4. rows[r].roll \in 1 .. Len(undo) /\ undo[rows[r].roll].row = rows[r].row
    BY <2>2, <2>3 DEF HeadInv, RecordOK
  <2> QED
    BY <1>1, <2>1, <2>4, FoundRow
<1> QED
  BY <1>2, <1>3

(* The writer of a living record has committed or is in flight. *)
LEMMA WriterKinds ==
    ASSUME TableInv, StartedInv, NEW r \in 1 .. Len(rows), ~rows[r].dead
    PROVE  /\ rows[r].trx \in TxIds
           /\ \/ rows[r].trx \in CommittedTxns
              \/ InFlight(rows[r].trx) /\ NotEnded(rows[r].trx) /\ rows[r].trx \notin CommittedTxns
<1> DEFINE t == rows[r].trx
<1>1. t \in TxIds
  BY FieldTypes DEF TableInv
<1>2. HasView(t) /\ txn_state[t] # "ABORTED"
  BY DEF StartedInv, TableInv, AbortLeavesOnlyDead
<1> HIDE DEF t
<1>3. txn_state[t] \in {"UNKNOWN", "IN_PROGRESS", "COMMITTED", "ABORTED"}
  BY <1>1 DEF TableInv, TxnInv, TxnTypeOK, TransactionState
<1>4. txn_state[t] = "UNKNOWN" <=> phase[t] = "none"
  BY <1>1 DEF TableInv, TxnInv, PhaseInv
<1>5. txn_state[t] = "IN_PROGRESS" => phase[t] \in {"begun", "running", "rollback"}
  BY <1>1 DEF TableInv, TxnInv, PhaseInv
<1>6. txn_state[t] \in {"COMMITTED", "IN_PROGRESS"}
  BY <1>2, <1>3, <1>4 DEF HasView
<1>7. t \in CommittedTxns <=> txn_state[t] = "COMMITTED"
  BY <1>1 DEF CommittedTxns
<1> QED
  BY <1>1, <1>2, <1>5, <1>6, <1>7 DEF t, HasView, InFlight, NotEnded

(* A transaction in flight has not ended, and has not committed. *)
LEMMA FlightKinds ==
    ASSUME TxnInv, NEW t \in TxIds, InFlight(t)
    PROVE  NotEnded(t) /\ t \notin CommittedTxns /\ txn_state[t] = "IN_PROGRESS"
<1>1. txn_state[t] = "IN_PROGRESS"
  BY DEF TxnInv, PhaseInv, InFlight
<1> QED
  BY <1>1 DEF NotEnded, CommittedTxns

(* An image that a mark leads to: the record's version before the mark. *)
LEMMA MarkedImage ==
    ASSUME TableInv, HeadInv, NEW r \in 1 .. Len(rows), rows[r].del
    PROVE  /\ rows[r].roll \in 1 .. Len(undo)
           /\ undo[rows[r].roll].row = rows[r].row /\ undo[rows[r].roll].val = rows[r].val
           /\ undo[rows[r].roll].trx = rows[r].trx \/ undo[rows[r].roll].trx \in CommittedTxns
           /\ Writer(r) = undo[rows[r].roll].trx /\ Base(r) = undo[rows[r].roll].roll
           /\ ~rows[r].dead
<1>1. RecordOK(r)
  BY DEF HeadInv
<1>2. Len(undo) \in Nat /\ rows[r].dead \in BOOLEAN
  BY FieldTypes DEF TableInv
<1>3. rows[r].roll \in 1 .. Len(undo)
  BY <1>1, <1>2 DEF RecordOK
<1> QED
  BY <1>1, <1>2, <1>3 DEF RecordOK, Writer, Base

(* A record that is alive and visible is the only one of its row to show. *)
LEMMA OnlyShown ==
    ASSUME TableInv, HeadInv, LineInv, NEW V \in Views,
           NEW r \in 1 .. Len(rows), ~rows[r].del, ~rows[r].dead, rows[r].trx \in V,
           NEW s \in 1 .. Len(rows), s # r, rows[s].row = rows[r].row
    PROVE  Shown(V, rows, undo, s) = {}
<1>1. CASE rows[s].dead
  BY <1>1 DEF Shown
<1>2. CASE ~rows[s].dead
  <2>1. s < r \/ r < s
    OBVIOUS
  <2>2. ~(r < s)
    BY <1>2 DEF LineInv
  <2>3. rows[s].del /\ Before(rows[s].trx, Writer(r))
    BY <1>2, <2>1, <2>2 DEF LineInv
  <2>4. Writer(r) = rows[r].trx
    BY DEF Writer
  <2>5. rows[s].trx \in V
    BY <2>3, <2>4 DEF Before
  <2> QED
    BY <1>2, <2>3, <2>5 DEF Shown
<1> QED
  BY <1>1, <1>2

(* Two marks of transactions in flight on committed versions are on        *)
(* different rows.                                                         *)
LEMMA MarksApart ==
    ASSUME TableInv, HeadInv, LineInv,
           NEW r \in 1 .. Len(rows), rows[r].del, rows[r].trx \notin CommittedTxns,
           NEW s \in 1 .. Len(rows), rows[s].del, rows[s].trx \notin CommittedTxns,
           undo[rows[r].roll].trx # rows[r].trx, undo[rows[s].roll].trx # rows[s].trx,
           rows[r].row = rows[s].row
    PROVE  r = s
<1>1. ~rows[r].dead /\ ~rows[s].dead
  BY MarkedImage
<1>2. Writer(r) \in CommittedTxns /\ Writer(s) \in CommittedTxns
  BY MarkedImage
<1>3. CommittedTxns \in Views
  BY DEF Views
<1>4. ~(r < s)
  BY <1>1, <1>2, <1>3 DEF LineInv, Before
<1>5. ~(s < r)
  BY <1>1, <1>2, <1>3 DEF LineInv, Before
<1> QED
  BY <1>4, <1>5

(* A committed version on its page is nobody's target yet. *)
LEMMA FreeVersion ==
    ASSUME TableInv, HeadInv, LineInv, NEW r \in 1 .. Len(rows), ~rows[r].del, ~rows[r].dead,
           rows[r].trx \in CommittedTxns, NEW u \in TxIds
    PROVE  VersionOf(rows[r]) \notin Removed(u)
<1> SUFFICES ASSUME VersionOf(rows[r]) \in Removed(u) PROVE FALSE
  OBVIOUS
<1>1. PICK s \in 1 .. Len(rows) :
         /\ InFlight(u) /\ rows[s].trx = u /\ rows[s].del
         /\ VersionOf(rows[r]) = VersionOf(undo[rows[s].roll])
  BY DEF Removed
<1>2. rows[s].row = rows[r].row /\ ~rows[s].dead
  <2>1. undo[rows[s].roll].row = rows[s].row /\ ~rows[s].dead
    BY <1>1, MarkedImage
  <2>2. VersionOf(rows[r]).row = VersionOf(undo[rows[s].roll]).row
    BY <1>1
  <2> QED
    BY <2>1, <2>2 DEF VersionOf
<1>3. u \notin CommittedTxns
  BY <1>1, FlightKinds DEF TableInv
<1>4. CommittedTxns \in Views
  BY DEF Views
<1>5. r # s
  BY <1>1
<1>6. Writer(r) = rows[r].trx
  BY DEF Writer
<1>7. ~(s < r)
  BY <1>1, <1>2, <1>3, <1>4, <1>6 DEF LineInv, Before
<1>8. ~(r < s)
  BY <1>2 DEF LineInv
<1> QED
  BY <1>5, <1>7, <1>8

(***************************************************************************)
(* A transaction in flight never hides a committed version without having  *)
(* taken it: below its own images, the chain of a record that it wrote     *)
(* leads to the version it has marked.                                     *)
(***************************************************************************)
LEMMA HeldChain ==
    ASSUME RefineInv, NEW V, CommittedTxns \subseteq V,
           NEW u \in TxIds, InFlight(u), u \notin V,
           NEW n \in 1 .. Len(rows), ~rows[n].dead, Writer(n) = u,
           NEW x \in Found(V, undo)[Base(n)]
    PROVE  x \in Removed(u)
<1> DEFINE f == Found(V, undo)
           Bad(b, k) == k \in 1 .. Len(rows) /\ ~rows[k].dead /\ Writer(k) = u /\ Base(k) = b /\ x \in f[b]
           S == {b \in Nat : \E k : Bad(b, k)}
<1>0. /\ TableInv /\ HeadInv /\ HoldInv /\ TxnInv /\ TableTypeOK /\ KeptInv /\ NotEnded(u)
      /\ Len(undo) \in Nat
  <2>1. TableInv /\ HeadInv /\ HoldInv /\ TxnInv /\ TableTypeOK /\ KeptInv
    BY DEF RefineInv, TableInv
  <2> QED
    BY <2>1, FlightKinds, FieldTypes
<1>1. /\ f[0] = {}
      /\ \A p \in 1 .. Len(undo) : f[p] = IF undo[p].trx \in V THEN {VersionOf(undo[p])}
                                          ELSE f[undo[p].roll]
  <2>1. RollsBack(undo)
    BY <1>0 DEF RollsBack, HeadInv, ImageOK
  <2>2. Walks(f, V, undo)
    BY <2>1, WalkExists
  <2> HIDE DEF f
  <2> QED
    BY ONLY <2>2 DEF Walks
<1>2. Base(n) \in S
  <2>1. Base(n) \in Nat
    <3>1. CASE rows[n].del
      <4>1. Base(n) = undo[rows[n].roll].roll /\ rows[n].roll \in 1 .. Len(undo)
        BY <1>0, <3>1, MarkedImage
      <4> QED
        BY <1>0, <4>1, FieldTypes
    <3>2. CASE ~rows[n].del
      BY <1>0, <3>2, FieldTypes DEF Base
    <3> QED
      BY <3>1, <3>2
  <2>2. Bad(Base(n), n)
    OBVIOUS
  <2> HIDE DEF Bad
  <2> QED
    BY <2>1, <2>2
<1> HIDE DEF f
<1>3. PICK m \in S : \A k \in S : m <= k
  <2>1. S \subseteq Nat /\ S # {}
    BY <1>2
  <2> HIDE DEF S
  <2> QED
    BY <2>1, MinOfNats
<1>4. PICK k : Bad(m, k)
  OBVIOUS
<1>5. m # 0
  BY <1>1, <1>4
<1>6. Held(u, k)
  BY <1>0, <1>4 DEF HoldInv
<1>7. \E s \in 1 .. Len(rows) : rows[s].trx = u /\ rows[s].del /\ ~rows[s].dead /\ rows[s].roll = m
  <2>1. PICK i \in 1 .. Len(write_set[u]) :
           \E j \in 1 .. i - 1 : /\ write_set[u][j].type = "DELETE"
                                 /\ rows[write_set[u][j].rid].roll = m
    BY <1>4, <1>5, <1>6 DEF Held
  <2>2. PICK j \in 1 .. i - 1 : /\ write_set[u][j].type = "DELETE"
                                /\ rows[write_set[u][j].rid].roll = m
    BY <2>1
  <2>3. j \in 1 .. Len(write_set[u])
    <3>1. Len(write_set[u]) \in Nat
      BY <1>0 DEF TableTypeOK
    <3> QED
      BY <3>1
  <2>4. Kept(u, write_set[u][j])
    BY <1>0, <2>3 DEF KeptInv
  <2> QED
    BY <2>2, <2>4 DEF Kept
<1>8. PICK s \in 1 .. Len(rows) : rows[s].trx = u /\ rows[s].del /\ ~rows[s].dead /\ rows[s].roll = m
  BY <1>7
<1>9. /\ m \in 1 .. Len(undo)
      /\ undo[m].trx = u \/ undo[m].trx \in CommittedTxns
      /\ Writer(s) = undo[m].trx /\ Base(s) = undo[m].roll
  BY <1>0, <1>8, MarkedImage
<1>10. CASE undo[m].trx # u
  <2>1. x = VersionOf(undo[m])
    BY <1>1, <1>4, <1>9, <1>10
  <2> QED
    BY <1>8, <1>10, <2>1 DEF Removed
<1>11. CASE undo[m].trx = u
  <2>1. undo[m].roll \in 0 .. m - 1
    BY <1>0, <1>9 DEF HeadInv, ImageOK
  <2>2. undo[m].roll \in Nat /\ ~(m <= undo[m].roll)
    BY <1>0, <1>9, <2>1
  <2>3. x \in f[undo[m].roll]
    BY <1>1, <1>4, <1>9, <1>11
  <2>4. Bad(undo[m].roll, s)
    BY <1>8, <1>9, <1>11, <2>3
  <2>5. undo[m].roll \in S
    <3> HIDE DEF Bad
    <3> QED
      BY <2>2, <2>4
  <2> QED
    BY <1>3, <2>2, <2>5
<1> QED
  BY <1>10, <1>11

(* So what a record of another transaction in flight shows, it has taken. *)
LEMMA ShownIsTaken ==
    ASSUME RefineInv, NEW V, CommittedTxns \subseteq V,
           NEW r \in 1 .. Len(rows), rows[r].trx \notin V, NEW x \in Shown(V, rows, undo, r)
    PROVE  rows[r].trx \in TxIds /\ InFlight(rows[r].trx) /\ x \in Removed(rows[r].trx)
<1> DEFINE u == rows[r].trx
           f == Found(V, undo)
<1>0. TableInv /\ HeadInv /\ StartedInv /\ Len(undo) \in Nat
  BY FieldTypes DEF RefineInv, TableInv
<1>1. ~rows[r].dead /\ x \in f[rows[r].roll]
  BY DEF Shown
<1>2. u \in TxIds /\ InFlight(u) /\ u \notin V
  BY <1>0, <1>1, WriterKinds
<1>3. CASE ~rows[r].del
  <2>1. Writer(r) = u /\ Base(r) = rows[r].roll
    BY <1>3 DEF Writer, Base
  <2>2. x \in Removed(u)
    BY <1>1, <1>2, <2>1, HeldChain
  <2> QED
    BY <1>2, <2>2
<1>4. CASE rows[r].del
  <2> DEFINE p == rows[r].roll
  <2>1. /\ p \in 1 .. Len(undo)
        /\ undo[p].trx = u \/ undo[p].trx \in CommittedTxns
        /\ Writer(r) = undo[p].trx /\ Base(r) = undo[p].roll
    BY <1>0, <1>4, MarkedImage
  <2>2. f[p] = IF undo[p].trx \in V THEN {VersionOf(undo[p])} ELSE f[undo[p].roll]
    <3>1. RollsBack(undo)
      BY <1>0 DEF RollsBack, HeadInv, ImageOK
    <3>2. Walks(f, V, undo)
      BY <3>1, WalkExists
    <3> HIDE DEF f, p
    <3> QED
      BY ONLY <2>1, <3>2 DEF Walks
  <2>3. CASE undo[p].trx # u
    <3>1. x = VersionOf(undo[p])
      BY <1>1, <2>1, <2>2, <2>3
    <3>2. x \in Removed(u)
      BY <1>2, <1>4, <2>3, <3>1 DEF Removed
    <3> QED
      BY <1>2, <3>2
  <2>4. CASE undo[p].trx = u
    <3>1. x \in f[Base(r)] /\ Writer(r) = u
      BY <1>1, <1>2, <2>1, <2>2, <2>4
    <3>2. x \in Removed(u)
      BY <1>1, <1>2, <3>1, HeldChain
    <3> QED
      BY <1>2, <3>2
  <2> QED
    BY <2>3, <2>4
<1> QED
  BY <1>3, <1>4

(* A version taken by one transaction in flight is not another's. *)
LEMMA TakenOnce ==
    ASSUME RefineInv, NEW t \in TxIds, NEW u \in TxIds, t # u, NEW x \in Removed(u)
    PROVE  x \notin Removed(t)
<1> SUFFICES ASSUME x \in Removed(t) PROVE FALSE
  OBVIOUS
<1>0. TableInv /\ HeadInv /\ LineInv /\ TxnInv
  BY DEF RefineInv, TableInv
<1>1. PICK s \in 1 .. Len(rows) : /\ InFlight(u) /\ rows[s].trx = u /\ rows[s].del
                                  /\ undo[rows[s].roll].trx # u /\ x = VersionOf(undo[rows[s].roll])
  BY DEF Removed
<1>2. PICK r \in 1 .. Len(rows) : /\ InFlight(t) /\ rows[r].trx = t /\ rows[r].del
                                  /\ undo[rows[r].roll].trx # t /\ x = VersionOf(undo[rows[r].roll])
  BY DEF Removed
<1>3. t \notin CommittedTxns /\ u \notin CommittedTxns
  BY <1>0, <1>1, <1>2, FlightKinds
<1>4. rows[r].row = rows[s].row
  <2>1. undo[rows[s].roll].row = rows[s].row /\ undo[rows[r].roll].row = rows[r].row
    BY <1>0, <1>1, <1>2, MarkedImage
  <2>2. VersionOf(undo[rows[s].roll]).row = VersionOf(undo[rows[r].roll]).row
    BY <1>1, <1>2
  <2> QED
    BY <2>1, <2>2 DEF VersionOf
<1>5. r = s
  BY <1>0, <1>1, <1>2, <1>3, <1>4, MarksApart
<1> QED
  BY <1>1, <1>2, <1>5

(* What has been taken is committed, and still shows to all but the taker. *)
LEMMA TakenShows ==
    ASSUME RefineInv, NEW V, CommittedTxns \subseteq V, NEW u \in TxIds, u \notin V, NEW x \in Removed(u)
    PROVE  x \in TableOf(V, rows, undo)
<1> DEFINE f == Found(V, undo)
<1>0. TableInv /\ HeadInv /\ Len(undo) \in Nat
  BY FieldTypes DEF RefineInv, TableInv
<1>1. PICK s \in 1 .. Len(rows) : /\ rows[s].trx = u /\ rows[s].del
                                  /\ undo[rows[s].roll].trx # u /\ x = VersionOf(undo[rows[s].roll])
  BY DEF Removed
<1> DEFINE p == rows[s].roll
<1>2. p \in 1 .. Len(undo) /\ undo[p].trx \in CommittedTxns /\ ~rows[s].dead
  BY <1>0, <1>1, MarkedImage
<1>3. f[p] = IF undo[p].trx \in V THEN {VersionOf(undo[p])} ELSE f[undo[p].roll]
  <2>1. RollsBack(undo)
    BY <1>0 DEF RollsBack, HeadInv, ImageOK
  <2>2. Walks(f, V, undo)
    BY <2>1, WalkExists
  <2> HIDE DEF f, p
  <2> QED
    BY ONLY <1>2, <2>2 DEF Walks
<1>4. x \in f[p]
  BY <1>1, <1>2, <1>3
<1>5. x \in Shown(V, rows, undo, s)
  BY <1>1, <1>2, <1>4 DEF Shown
<1> QED
  BY <1>5 DEF TableOf

(* A committed version is on its page unmarked, or somebody has taken it. *)
LEMMA FreeOrTaken ==
    ASSUME RefineInv, NEW x \in TableOf(CommittedTxns, rows, undo)
    PROVE  \/ \E r \in 1 .. Len(rows) : /\ ~rows[r].del /\ ~rows[r].dead
                                        /\ rows[r].trx \in CommittedTxns /\ x = VersionOf(rows[r])
           \/ \E u \in TxIds : u \notin CommittedTxns /\ x \in Removed(u)
<1>1. PICK r \in 1 .. Len(rows) : x \in Shown(CommittedTxns, rows, undo, r)
  BY DEF TableOf
<1>2. CASE rows[r].trx \in CommittedTxns
  <2>1. ~rows[r].del /\ ~rows[r].dead /\ x = VersionOf(rows[r])
    BY <1>1, <1>2 DEF Shown
  <2> QED
    BY <1>2, <2>1
<1>3. CASE rows[r].trx \notin CommittedTxns
  <2>1. rows[r].trx \in TxIds /\ x \in Removed(rows[r].trx)
    BY <1>1, <1>3, ShownIsTaken
  <2> QED
    BY <1>3, <2>1
<1> QED
  BY <1>2, <1>3

(***************************************************************************)
(* A fresh view of t shows the committed table with t's own changes.       *)
(***************************************************************************)
LEMMA CurrentTable ==
    ASSUME RefineInv, NEW t \in TxIds, phase[t] = "running"
    PROVE  TableOf(CommittedTxns \union {t}, rows, undo) =
             (TableOf(CommittedTxns, rows, undo) \ Removed(t)) \union Added(t)
<1> DEFINE C == CommittedTxns
           V == C \union {t}
           T == TableOf(V, rows, undo)
           D == TableOf(C, rows, undo)
<1>0. TableInv /\ HeadInv /\ LineInv /\ TxnInv /\ InFlight(t)
  BY DEF RefineInv, TableInv, InFlight
<1>1. t \notin C
  BY <1>0, FlightKinds
<1>2. ASSUME NEW x \in T PROVE x \in (D \ Removed(t)) \union Added(t)
  <2>1. PICK r \in 1 .. Len(rows) : x \in Shown(V, rows, undo, r)
    BY DEF TableOf
  <2>2. CASE rows[r].trx = t
    <3>1. ~rows[r].del /\ ~rows[r].dead /\ x = VersionOf(rows[r])
      BY <2>1, <2>2 DEF Shown
    <3>2. x \in Added(t)
      BY <2>2, <3>1 DEF Added
    <3> QED
      BY <3>2
  <2>3. CASE rows[r].trx \in C
    <3>1. ~rows[r].del /\ ~rows[r].dead /\ x = VersionOf(rows[r])
      BY <2>1, <2>3 DEF Shown
    <3>2. x \in Shown(C, rows, undo, r)
      BY <2>3, <3>1 DEF Shown
    <3>3. x \in D
      BY <3>2 DEF TableOf
    <3>4. x \notin Removed(t)
      BY <1>0, <2>3, <3>1, FreeVersion
    <3> QED
      BY <3>3, <3>4
  <2>4. CASE rows[r].trx \notin V
    <3> DEFINE u == rows[r].trx
    <3>1. u \in TxIds /\ x \in Removed(u)
      BY <2>1, <2>4, ShownIsTaken
    <3>2. u # t /\ u \notin C
      BY <2>4
    <3> HIDE DEF u
    <3>3. x \notin Removed(t)
      BY <3>1, <3>2, TakenOnce
    <3>4. x \in D
      BY <3>1, <3>2, TakenShows
    <3> QED
      BY <3>3, <3>4
  <2> QED
    BY <2>2, <2>3, <2>4
<1>3. ASSUME NEW x \in Added(t) PROVE x \in T
  <2>1. PICK r \in 1 .. Len(rows) : rows[r].trx = t /\ ~rows[r].del /\ ~rows[r].dead /\ x = VersionOf(rows[r])
    BY DEF Added
  <2>2. x \in Shown(V, rows, undo, r)
    BY <2>1 DEF Shown
  <2> QED
    BY <2>2 DEF TableOf
<1>4. ASSUME NEW x \in D, x \notin Removed(t) PROVE x \in T
  <2>1. CASE \E r \in 1 .. Len(rows) : /\ ~rows[r].del /\ ~rows[r].dead
                                        /\ rows[r].trx \in C /\ x = VersionOf(rows[r])
    <3>1. PICK r \in 1 .. Len(rows) : /\ ~rows[r].del /\ ~rows[r].dead
                                      /\ rows[r].trx \in C /\ x = VersionOf(rows[r])
      BY <2>1
    <3>2. x \in Shown(V, rows, undo, r)
      BY <3>1 DEF Shown
    <3> QED
      BY <3>2 DEF TableOf
  <2>2. CASE \E u \in TxIds : u \notin C /\ x \in Removed(u)
    <3>1. PICK u \in TxIds : u \notin C /\ x \in Removed(u)
      BY <2>2
    <3>2. u \notin V
      BY <1>4, <3>1
    <3>3. C \subseteq V
      OBVIOUS
    <3> HIDE DEF V
    <3> QED
      BY <3>1, <3>2, <3>3, TakenShows DEF T
  <2> QED
    BY <2>1, <2>2, FreeOrTaken
<1> HIDE DEF T, D
<1>5. T = (D \ Removed(t)) \union Added(t)
  BY <1>2, <1>3, <1>4
<1> QED
  BY <1>5 DEF T, D

-----------------------------------------------------------------------------
(* What DELETE and UPDATE do to records and images, field by field. *)

Copies(img, rec) ==
    img.trx = rec.trx /\ img.roll = rec.roll /\ img.val = rec.val /\ img.row = rec.row

(* Each hit has its image behind the old ones. *)
Saved(hits) ==
    /\ Len(undo') = Len(undo) + Cardinality(hits)
    /\ \A q \in 1 .. Len(undo) : undo'[q] = undo[q]
    /\ \A r \in hits : /\ ImagePtr(hits, r) \in Len(undo) + 1 .. Len(undo')
                       /\ Copies(undo'[ImagePtr(hits, r)], rows[r])
    /\ \A q \in Len(undo) + 1 .. Len(undo') : \E r \in hits : q = ImagePtr(hits, r)

PointsToImage(hits) ==
    \A r \in hits : /\ rows'[r].roll = ImagePtr(hits, r)
                    /\ rows'[r].val = rows[r].val /\ rows'[r].row = rows[r].row

(* The record that the new record n replaces. *)
Origin(hits, n) == InOrder(hits)[n - Len(rows)]

Replaced(t, hits, placed, v) ==
    /\ \A n \in New(placed) :
          LET r == Origin(hits, n)
          IN  /\ r \in hits
              /\ rows'[n].roll = ImagePtr(hits, r) /\ rows'[n].row = rows[r].row /\ rows'[n].val = v
              /\ \A i, j \in Len(write_set[t]) + 1 .. Len(write_set'[t]) :
                    write_set'[t][i].rid = n /\ write_set'[t][j].rid = r => j < i
    /\ \A m, n \in New(placed) : Origin(hits, m) = Origin(hits, n) => m = n
    /\ placed = Cardinality(hits) => \A r \in hits : \E n \in New(placed) : Origin(hits, n) = r

EntriesSave(t) ==
    \A j \in Len(write_set[t]) + 1 .. Len(write_set'[t]) :
        write_set'[t][j].type = "DELETE" =>
            write_set'[t][j].prev_roll = rows[write_set'[t][j].rid].roll

Changed(t, hits, placed, v) ==
    /\ Saved(hits) /\ PointsToImage(hits) /\ EntriesSave(t)
    /\ Replaced(t, hits, placed, v)

(* InOrder and Rank are inverses. *)
LEMMA InOrderRank ==
    ASSUME NEW n \in Nat, NEW hits \in SUBSET (1 .. n)
    PROVE  /\ \A k \in 1 .. Cardinality(hits) : InOrder(hits)[k] \in hits /\ Rank(hits, InOrder(hits)[k]) = k
           /\ \A r \in hits : Rank(hits, r) \in 1 .. Cardinality(hits) /\ InOrder(hits)[Rank(hits, r)] = r
<1>0. /\ \A r \in hits : Rank(hits, r) \in 1 .. Cardinality(hits)
      /\ \A r, s \in hits : r < s => Rank(hits, r) < Rank(hits, s)
  BY RankInjective
<1>1. \A k \in 1 .. Cardinality(hits) : InOrder(hits)[k] = CHOOSE r \in hits : Rank(hits, r) = k
  BY DEF InOrder
<1>2. \A k \in 1 .. Cardinality(hits) : InOrder(hits)[k] \in hits /\ Rank(hits, InOrder(hits)[k]) = k
  BY <1>1, RankOnto, ZenonT(40)
<1>3. \A r, s \in hits : Rank(hits, r) = Rank(hits, s) => r = s
  <2> SUFFICES ASSUME NEW r \in hits, NEW s \in hits, Rank(hits, r) = Rank(hits, s) PROVE r = s
    OBVIOUS
  <2>1. ~(r < s) /\ ~(s < r)
    BY <1>0, RankInjective
  <2> QED
    BY <2>1
<1>4. ASSUME NEW r \in hits PROVE InOrder(hits)[Rank(hits, r)] = r
  <2>1. Rank(hits, r) \in 1 .. Cardinality(hits)
    BY <1>0
  <2>2. InOrder(hits)[Rank(hits, r)] \in hits /\ Rank(hits, InOrder(hits)[Rank(hits, r)]) = Rank(hits, r)
    BY <1>2, <2>1
  <2> QED
    BY <1>3, <2>2
<1> QED
  BY <1>0, <1>2, <1>4

(* DELETE and UPDATE save every hit in the undo log before they mark it. *)
LEMMA ImagesCopied ==
    ASSUME TableTypeOK, NEW t, NEW hits, HitsOK(t, hits), SaveImages(hits)
    PROVE  Saved(hits)
<1> DEFINE n == Cardinality(hits)
           N == Len(undo)
           img(k) == LET rec == rows[InOrder(hits)[k]]
                     IN  [trx |-> rec.trx, roll |-> rec.roll, val |-> rec.val, row |-> rec.row]
           ext == [k \in 1 .. n |-> img(k)]
           X == undo \o ext
<1>1. undo' = X /\ undo \in Seq(Images)
  BY DEF SaveImages, TableTypeOK
<1>2. n \in Nat /\ N \in Nat /\ \A k \in 1 .. n : rows[InOrder(hits)[k]] \in Records
  BY HitRecords DEF TableTypeOK
<1>3. \A k \in 1 .. n : img(k) \in Images /\ Copies(img(k), rows[InOrder(hits)[k]])
  BY <1>2 DEF Records, Images, Copies
<1>4. /\ \A k \in 1 .. n : InOrder(hits)[k] \in hits /\ Rank(hits, InOrder(hits)[k]) = k
      /\ \A r \in hits : Rank(hits, r) \in 1 .. n /\ InOrder(hits)[Rank(hits, r)] = r
  <2>1. Len(rows) \in Nat /\ hits \in SUBSET (1 .. Len(rows))
    BY DEF HitsOK, TableTypeOK
  <2> QED
    BY <2>1, InOrderRank
<1> HIDE DEF n, img
<1>5. ext \in Seq(Images) /\ Len(ext) = n /\ \A k \in 1 .. n : ext[k] = img(k)
  BY <1>2, <1>3
<1> HIDE DEF ext, N
<1>6. /\ Len(X) = Len(undo) + Len(ext)
      /\ \A i \in 1 .. Len(undo) + Len(ext) : X[i] = IF i <= Len(undo) THEN undo[i] ELSE ext[i - Len(undo)]
  BY <1>1, <1>5, ConcatProperties
<1> HIDE DEF X
<1>7. /\ Len(undo') = N + n
      /\ \A i \in 1 .. N + n : undo'[i] = IF i <= N THEN undo[i] ELSE ext[i - N]
  BY <1>1, <1>5, <1>6 DEF N
<1>8. \A q \in 1 .. N : undo'[q] = undo[q]
  BY <1>2, <1>7
<1>9. ASSUME NEW k \in 1 .. n
      PROVE  N + k \in N + 1 .. N + n /\ undo'[N + k] = img(k)
  <2>1. N + k \in N + 1 .. N + n /\ N + k \in 1 .. N + n /\ ~(N + k <= N) /\ (N + k) - N = k
    BY <1>2
  <2> QED
    BY <1>5, <1>7, <2>1
<1>10. ASSUME NEW r \in hits
       PROVE  N + Rank(hits, r) \in N + 1 .. N + n /\ Copies(undo'[N + Rank(hits, r)], rows[r])
  <2>1. Rank(hits, r) \in 1 .. n /\ InOrder(hits)[Rank(hits, r)] = r
    BY <1>4
  <2> QED
    BY <1>3, <1>9, <2>1
<1>11. ASSUME NEW q \in N + 1 .. N + n PROVE \E r \in hits : q = N + Rank(hits, r)
  <2>1. q - N \in 1 .. n /\ N + (q - N) = q
    BY <1>2
  <2>2. InOrder(hits)[q - N] \in hits /\ Rank(hits, InOrder(hits)[q - N]) = q - N
    BY <1>4, <2>1
  <2> QED
    BY <2>1, <2>2
<1> QED
  BY <1>7, <1>8, <1>10, <1>11 DEF Saved, ImagePtr, N, n

(* Marking a hit keeps its value and points it at the image saved. *)
LEMMA MarkedFields ==
    ASSUME TableTypeOK, NEW t \in TxIds, NEW hits, HitsOK(t, hits), NEW r \in hits
    PROVE  /\ Marked(t, hits)[r].roll = ImagePtr(hits, r)
           /\ Marked(t, hits)[r].val = rows[r].val /\ Marked(t, hits)[r].row = rows[r].row
<1>1. r \in 1 .. Len(rows) /\ rows[r] \in Records
  BY HitRecords DEF HitsOK
<1>2. Marked(t, hits)[r] = [rows[r] EXCEPT !.trx = t, !.roll = ImagePtr(hits, r), !.del = TRUE]
  BY <1>1 DEF Marked
<1> HIDE DEF ImagePtr
<1> QED
  BY <1>1, <1>2 DEF Records

(* The entries behind the old ones are the appended ones. *)
LEMMA AppendedEntries ==
    ASSUME TableTypeOK, NEW t \in TxIds, NEW ext \in Seq(Writes),
           write_set' = [write_set EXCEPT ![t] = write_set[t] \o ext]
    PROVE  /\ Len(write_set[t]) \in Nat /\ Len(ext) \in Nat
           /\ Len(write_set'[t]) = Len(write_set[t]) + Len(ext)
           /\ \A j \in Len(write_set[t]) + 1 .. Len(write_set'[t]) :
                 /\ j - Len(write_set[t]) \in 1 .. Len(ext)
                 /\ write_set'[t][j] = ext[j - Len(write_set[t])]
<1> DEFINE W == write_set[t]
           X == W \o ext
<1>1. W \in Seq(Writes) /\ write_set \in [TxIds -> Seq(Writes)]
  BY DEF TableTypeOK
<1>2. write_set'[t] = X
  BY <1>1
<1> HIDE DEF W
<1>3. /\ Len(X) = Len(W) + Len(ext)
      /\ \A i \in 1 .. Len(W) + Len(ext) : X[i] = IF i <= Len(W) THEN W[i] ELSE ext[i - Len(W)]
  BY <1>1, ConcatProperties
<1>4. Len(W) \in Nat /\ Len(ext) \in Nat
  BY <1>1
<1> HIDE DEF X
<1>5. \A j \in Len(W) + 1 .. Len(X) : j - Len(W) \in 1 .. Len(ext) /\ X[j] = ext[j - Len(W)]
  BY <1>3, <1>4
<1> QED
  BY <1>2, <1>3, <1>4, <1>5 DEF W

(* DELETE changes the hits, adds no record and lists each hit once. *)
LEMMA TakeChanged ==
    ASSUME TableTypeOK, NEW t \in TxIds, NEW hits, HitsOK(t, hits), TakeRows(t, hits), NEW v
    PROVE  Changed(t, hits, 0, v)
<1> DEFINE n == Cardinality(hits)
           w(k) == DeleteWrite(InOrder(hits)[k])
           ext == [k \in 1 .. n |-> w(k)]
<1>1. /\ rows' = Marked(t, hits) /\ SaveImages(hits)
      /\ write_set' = [write_set EXCEPT ![t] = write_set[t] \o ext]
  BY DEF TakeRows
<1>2. New(0) = {} /\ Len(rows) \in Nat /\ n \in Nat /\ IsFiniteSet(hits)
  BY HitRecords DEF New
<1>3. Saved(hits)
  BY <1>1, ImagesCopied
<1>4. PointsToImage(hits)
  BY <1>1, MarkedFields DEF PointsToImage
<1>5. Replaced(t, hits, 0, v)
  <2>1. 0 = n => hits = {}
    BY <1>2, FS_EmptySet
  <2> QED
    BY <1>2, <2>1 DEF Replaced
<1>6. \A k \in 1 .. n : InOrder(hits)[k] \in hits
  BY HitRecords
<1>7. \A k \in 1 .. n : w(k) \in Writes /\ w(k).prev_roll = rows[w(k).rid].roll
  <2>1. \A r \in hits : DeleteWrite(r) \in Writes
    BY EntryTypes
  <2>2. \A r \in hits : DeleteWrite(r).prev_roll = rows[DeleteWrite(r).rid].roll
    BY DEF DeleteWrite
  <2> QED
    BY <1>6, <2>1, <2>2
<1> HIDE DEF n, w
<1>8. ext \in Seq(Writes) /\ Len(ext) = n /\ \A k \in 1 .. n : ext[k] = w(k)
  BY <1>2, <1>7
<1> HIDE DEF ext
<1>9. \A j \in Len(write_set[t]) + 1 .. Len(write_set'[t]) :
         /\ j - Len(write_set[t]) \in 1 .. Len(ext)
         /\ write_set'[t][j] = ext[j - Len(write_set[t])]
  BY <1>1, <1>8, AppendedEntries
<1>10. EntriesSave(t)
  BY <1>7, <1>8, <1>9 DEF EntriesSave
<1> QED
  BY <1>3, <1>4, <1>5, <1>10 DEF Changed

(* UPDATE also adds a record per hit, all but the last if it threw. *)
LEMMA ReplaceChanged ==
    ASSUME TableTypeOK, NEW t \in TxIds, NEW hits, HitsOK(t, hits),
           NEW placed \in Nat, placed = Cardinality(hits) \/ placed = Cardinality(hits) - 1,
           NEW v \in Values, ReplaceRows(t, hits, placed, v)
    PROVE  Changed(t, hits, placed, v)
<1> DEFINE n == Cardinality(hits)
           N == Len(rows)
           old(k) == InOrder(hits)[k]
           new(k) == NewRecord(t, v, Len(undo) + k, rows[old(k)].row)
           news == [k \in 1 .. placed |-> new(k)]
           w(j) == IF j % 2 = 1 THEN DeleteWrite(old((j + 1) \div 2))
                   ELSE InsertWrite(N + j \div 2)
           ext == [j \in 1 .. n + placed |-> w(j)]
           X == Marked(t, hits) \o news
<1>1. /\ rows' = X /\ SaveImages(hits)
      /\ write_set' = [write_set EXCEPT ![t] = write_set[t] \o ext]
  BY DEF ReplaceRows
<1>2. /\ n \in Nat /\ N \in Nat /\ Len(undo) \in Nat
      /\ \A r \in hits : r \in Nat /\ rows[r] \in Records
      /\ hits \in SUBSET (1 .. N)
  <2>1. Len(undo) \in Nat /\ hits \in SUBSET (1 .. N)
    BY DEF TableTypeOK, HitsOK
  <2> QED
    BY <2>1, HitRecords
<1>3. placed = n \/ placed = n - 1
  OBVIOUS
<1>4. /\ \A k \in 1 .. n : old(k) \in hits /\ Rank(hits, old(k)) = k
      /\ \A r \in hits : Rank(hits, r) \in 1 .. n /\ old(Rank(hits, r)) = r
  BY <1>2, InOrderRank
<1>5. Saved(hits)
  BY <1>1, ImagesCopied
<1>6. /\ Marked(t, hits) \in Seq(Records) /\ Len(Marked(t, hits)) = N
      /\ \A r \in hits : /\ Marked(t, hits)[r].roll = ImagePtr(hits, r)
                         /\ Marked(t, hits)[r].val = rows[r].val /\ Marked(t, hits)[r].row = rows[r].row
  BY RowsMarked, MarkedFields
<1> HIDE DEF n, N, old
<1>7. \A k \in 1 .. placed : k \in 1 .. n
  BY <1>2, <1>3
<1>8. \A k \in 1 .. placed :
         /\ new(k) \in Records /\ new(k).roll = Len(undo) + k
         /\ new(k).row = rows[old(k)].row /\ new(k).val = v
  <2> SUFFICES ASSUME NEW k \in 1 .. placed
               PROVE  /\ new(k) \in Records /\ new(k).roll = Len(undo) + k
                      /\ new(k).row = rows[old(k)].row /\ new(k).val = v
    OBVIOUS
  <2>1. k \in 1 .. n /\ Len(undo) + k \in Nat
    BY <1>2, <1>7
  <2>2. rows[old(k)].row \in Nat
    BY <1>2, <1>4, <2>1 DEF Records
  <2> QED
    BY <2>1, <2>2 DEF NewRecord, Records
<1> HIDE DEF new
<1>9. news \in Seq(Records) /\ Len(news) = placed /\ \A k \in 1 .. placed : news[k] = new(k)
  BY <1>8
<1> HIDE DEF news
<1>10. /\ Len(X) = Len(Marked(t, hits)) + Len(news)
       /\ \A r \in 1 .. Len(Marked(t, hits)) + Len(news) :
             X[r] = IF r <= Len(Marked(t, hits)) THEN Marked(t, hits)[r] ELSE news[r - Len(Marked(t, hits))]
  BY <1>6, <1>9, ConcatProperties
<1> HIDE DEF X
<1>11. \A r \in 1 .. N + placed : rows'[r] = IF r <= N THEN Marked(t, hits)[r] ELSE news[r - N]
  BY <1>1, <1>6, <1>9, <1>10
<1>12. PointsToImage(hits)
  <2>1. \A r \in hits : r \in 1 .. N + placed /\ r <= N
    BY <1>2
  <2> QED
    BY <1>6, <1>11, <2>1 DEF PointsToImage
<1>13. ASSUME NEW m \in New(placed)
       PROVE  /\ m - N \in 1 .. placed /\ m - N \in 1 .. n
              /\ rows'[m].roll = ImagePtr(hits, old(m - N))
              /\ rows'[m].row = rows[old(m - N)].row /\ rows'[m].val = v
  <2>1. m - N \in 1 .. placed /\ m \in 1 .. N + placed /\ ~(m <= N)
    BY <1>2 DEF New, N
  <2>2. rows'[m] = new(m - N)
    BY <1>9, <1>11, <2>1
  <2>3. m - N \in 1 .. n
    BY <1>7, <2>1
  <2> QED
    BY <1>4, <1>8, <2>1, <2>2, <2>3 DEF ImagePtr
<1>14. \A j \in 1 .. n + placed :
          /\ j % 2 = 1 => (j + 1) \div 2 \in 1 .. n
          /\ j % 2 # 1 => j \div 2 \in 1 .. placed
  BY <1>2, <1>3, Alternate
<1>15. /\ \A r \in hits : DeleteWrite(r) \in Writes /\ DeleteWrite(r).rid = r
                          /\ DeleteWrite(r).prev_roll = rows[r].roll /\ DeleteWrite(r).type = "DELETE"
       /\ \A r \in New(placed) : InsertWrite(r) \in Writes /\ InsertWrite(r).rid = r
                          /\ InsertWrite(r).type = "INSERT"
       /\ \A r \in hits : r \notin New(placed)
  <2>1. \A r \in hits : DeleteWrite(r).prev_roll = rows[r].roll /\ DeleteWrite(r).type = "DELETE"
    BY DEF DeleteWrite
  <2>2. \A r \in New(placed) : InsertWrite(r).type = "INSERT"
    BY DEF InsertWrite
  <2> QED
    BY <2>1, <2>2, EntryTypes
<1>16. ASSUME NEW j \in 1 .. n + placed
       PROVE  \/ /\ j % 2 = 1 /\ (j + 1) \div 2 \in 1 .. n
                 /\ w(j) \in Writes /\ w(j).type = "DELETE" /\ w(j).rid = old((j + 1) \div 2)
                 /\ w(j).rid \in hits /\ w(j).prev_roll = rows[w(j).rid].roll
              \/ /\ j % 2 # 1 /\ j \div 2 \in 1 .. placed
                 /\ w(j) \in Writes /\ w(j).type = "INSERT" /\ w(j).rid = N + j \div 2
                 /\ w(j).rid \in New(placed)
  <2>1. CASE j % 2 = 1
    <3>1. (j + 1) \div 2 \in 1 .. n /\ w(j) = DeleteWrite(old((j + 1) \div 2))
      BY <1>14, <2>1
    <3>2. old((j + 1) \div 2) \in hits
      BY <1>4, <3>1
    <3> QED
      BY <1>15, <2>1, <3>1, <3>2
  <2>2. CASE j % 2 # 1
    <3> DEFINE k == j \div 2
    <3>1. k \in 1 .. placed /\ w(j) = InsertWrite(N + k)
      BY <1>14, <2>2
    <3> HIDE DEF k, w
    <3>2. N + k \in New(placed)
      BY <1>2, <3>1 DEF New, N
    <3>3. w(j) \in Writes /\ w(j).type = "INSERT" /\ w(j).rid = N + k /\ w(j).rid \in New(placed)
      BY <1>15, <3>1, <3>2
    <3> QED
      BY <2>2, <3>1, <3>3 DEF k
  <2> QED
    BY <2>1, <2>2
<1> HIDE DEF w
<1>17. ext \in Seq(Writes) /\ Len(ext) = n + placed /\ \A j \in 1 .. n + placed : ext[j] = w(j)
  <2>1. n + placed \in Nat
    BY <1>2
  <2> QED
    BY <1>16, <2>1
<1> HIDE DEF ext
<1>18. /\ Len(write_set[t]) \in Nat
       /\ \A j \in Len(write_set[t]) + 1 .. Len(write_set'[t]) :
             /\ j - Len(write_set[t]) \in 1 .. n + placed
             /\ write_set'[t][j] = w(j - Len(write_set[t]))
  BY <1>1, <1>17, AppendedEntries
<1>19. EntriesSave(t)
  <2> SUFFICES ASSUME NEW j \in Len(write_set[t]) + 1 .. Len(write_set'[t]),
                      write_set'[t][j].type = "DELETE"
               PROVE  write_set'[t][j].prev_roll = rows[write_set'[t][j].rid].roll
    BY DEF EntriesSave
  <2> QED
    BY <1>16, <1>18
<1>20. ASSUME NEW m \in New(placed), NEW i \in 1 .. n + placed, NEW j \in 1 .. n + placed,
              w(i).rid = m, w(j).rid = old(m - N)
       PROVE  j < i
  <2>1. m - N \in 1 .. n /\ old(m - N) \in hits
    BY <1>4, <1>13
  <2>2. w(i).rid \notin hits /\ w(j).rid \notin New(placed)
    BY <1>15, <1>20, <2>1
  <2>3. i % 2 # 1 /\ m = N + i \div 2
    BY <1>16, <1>20, <2>2
  <2>4. j % 2 = 1 /\ (j + 1) \div 2 \in 1 .. n /\ old((j + 1) \div 2) = old(m - N)
    BY <1>16, <1>20, <2>2
  <2>5. (j + 1) \div 2 = m - N
    BY <1>4, <2>1, <2>4
  <2>6. (j + 1) \div 2 = i \div 2
    BY ONLY <1>2, <2>3, <2>5, i \in Nat, i \div 2 \in Nat
  <2> QED
    BY ONLY <1>2, <2>3, <2>4, <2>6, i \in Int, j \in Int
<1>21. Replaced(t, hits, placed, v)
  <2>1. \A m : Origin(hits, m) = old(m - N)
    BY DEF Origin, old, N
  <2>2. ASSUME NEW m \in New(placed)
        PROVE  /\ Origin(hits, m) \in hits
               /\ rows'[m].roll = ImagePtr(hits, Origin(hits, m))
               /\ rows'[m].row = rows[Origin(hits, m)].row /\ rows'[m].val = v
    BY <1>4, <1>13, <2>1
  <2>3. ASSUME NEW m \in New(placed), NEW i \in Len(write_set[t]) + 1 .. Len(write_set'[t]),
               NEW j \in Len(write_set[t]) + 1 .. Len(write_set'[t]),
               write_set'[t][i].rid = m, write_set'[t][j].rid = Origin(hits, m)
        PROVE  j < i
    <3>1. j - Len(write_set[t]) < i - Len(write_set[t])
      BY <1>18, <1>20, <2>1, <2>3
    <3> QED
      BY <1>18, <3>1
  <2>4. ASSUME NEW l \in New(placed), NEW m \in New(placed), Origin(hits, l) = Origin(hits, m)
        PROVE  l = m
    <3>1. l - N \in 1 .. n /\ m - N \in 1 .. n /\ old(l - N) = old(m - N)
      BY <1>13, <2>1, <2>4
    <3>2. l - N = m - N
      BY <1>4, <3>1
    <3>3. l \in Int /\ m \in Int /\ N \in Int
      BY <1>2 DEF New, N
    <3> QED
      BY ONLY <3>2, <3>3
  <2>5. ASSUME placed = n, NEW r \in hits PROVE \E m \in New(placed) : Origin(hits, m) = r
    <3> DEFINE k == Rank(hits, r)
    <3>1. k \in 1 .. n /\ old(k) = r
      BY <1>4
    <3> HIDE DEF k
    <3>2. N + k \in New(placed) /\ (N + k) - N = k
      BY <1>2, <2>5, <3>1 DEF New, N
    <3> QED
      BY <2>1, <3>1, <3>2
  <2> QED
    BY <2>2, <2>3, <2>4, <2>5 DEF Replaced, n
<1> QED
  BY <1>5, <1>12, <1>19, <1>21 DEF Changed

-----------------------------------------------------------------------------
(* How the set of views changes. *)

(* A snapshot holds only what has committed. *)
LEMMA SnapshotCommitted ==
    ASSUME TxnInv, NEW t \in TxIds, HasView(t)
    PROVE  snapshot[t] \subseteq CommittedTxns /\ t \notin snapshot[t]
<1>1. snapshot[t] \in SUBSET TxIds
  BY DEF TxnInv, TxnTypeOK
<1>2. \A v \in TxIds : v \in snapshot[t] => txn_state[v] = "COMMITTED"
  BY DEF TxnInv, ViewInv
<1>3. t \notin snapshot[t]
  BY DEF TxnInv, ViewInv
<1> QED
  BY <1>1, <1>2, <1>3 DEF CommittedTxns

(* A statement fixes what its transaction reads and changes no status. *)
LEMMA StatementFacts ==
    ASSUME TxnInv, NEW t \in TxIds, BeginStatement(t) \/ FailStatement(t)
    PROVE  /\ phase[t] = "running" /\ TxnInv' /\ txn_state' = txn_state
           /\ CommittedTxns' = CommittedTxns
           /\ snapshot' = [snapshot EXCEPT ![t] = StatementSet(t)]
           /\ \A u \in TxIds : u # t => phase'[u] = phase[u] /\ snapshot'[u] = snapshot[u]
           /\ snapshot'[t] = StatementSet(t)
           /\ phase'[t] \in {"running", "rollback"}
           /\ \A u \in TxIds : (HasView(u)' <=> HasView(u)) /\ (InFlight(u)' <=> InFlight(u))
           /\ StatementSet(t) \subseteq CommittedTxns
<1>1. phase[t] = "running" /\ TxnInv' /\ txn_state' = txn_state
  BY StatementTxn, FailTxn
<1>2. CommittedTxns' = CommittedTxns
  BY <1>1 DEF CommittedTxns
<1>3. snapshot' = [snapshot EXCEPT ![t] = StatementSet(t)]
  BY DEF BeginStatement, FailStatement, StatementSet
<1>4. phase \in [TxIds -> Phases] /\ snapshot \in [TxIds -> SUBSET TxIds]
  BY DEF TxnInv, TxnTypeOK
<1>5. phase' = phase \/ phase' = [phase EXCEPT ![t] = "rollback"]
  BY DEF BeginStatement, FailStatement
<1>6. /\ \A u \in TxIds : u # t => phase'[u] = phase[u] /\ snapshot'[u] = snapshot[u]
      /\ snapshot'[t] = StatementSet(t)
      /\ phase'[t] \in {"running", "rollback"}
  BY <1>1, <1>3, <1>4, <1>5
<1>7. \A u \in TxIds : (HasView(u)' <=> HasView(u)) /\ (InFlight(u)' <=> InFlight(u))
  BY <1>1, <1>6 DEF HasView, InFlight
<1>8. StatementSet(t) \subseteq CommittedTxns
  BY <1>1, SnapshotCommitted DEF StatementSet, HasView
<1> QED
  BY <1>1, <1>2, <1>3, <1>6, <1>7, <1>8

(* A statement adds no view, and what t wrote shows only with what t saw. *)
LEMMA StatementViews ==
    ASSUME TxnInv, NEW t \in TxIds, BeginStatement(t) \/ FailStatement(t)
    PROVE  /\ Views' \subseteq Views
           /\ \A V \in Views' : t \in V => StatementSet(t) \subseteq V
           /\ StatementSet(t) \union {t} \in Views
<1>1. /\ phase[t] = "running" /\ TxnInv' /\ txn_state' = txn_state
      /\ CommittedTxns' = CommittedTxns
      /\ \A u \in TxIds : u # t => phase'[u] = phase[u] /\ snapshot'[u] = snapshot[u]
      /\ snapshot'[t] = StatementSet(t)
      /\ \A u \in TxIds : InFlight(u)' <=> InFlight(u)
      /\ StatementSet(t) \subseteq CommittedTxns
  BY StatementFacts
<1>2. InFlight(t) /\ t \notin CommittedTxns
  BY <1>1, FlightKinds DEF InFlight
<1>3. StatementSet(t) \union {t} \in Views
  <2>1. CASE t \in ReadCommitted
    BY <1>1, <1>2, <2>1 DEF StatementSet, Views
  <2>2. CASE t \notin ReadCommitted
    BY <1>1, <1>2, <2>2 DEF StatementSet, Views
  <2> QED
    BY <2>1, <2>2
<1>4. ASSUME NEW V \in Views' PROVE V \in Views /\ (t \in V => StatementSet(t) \subseteq V)
  <2>0. \/ V = CommittedTxns'
        \/ \E u \in TxIds : InFlight(u)' /\ V = CommittedTxns' \union {u}
        \/ \E u \in TxIds : phase'[u] = "running" /\ V = snapshot'[u] \union {u}
    BY DEF Views
  <2>1. CASE V = CommittedTxns'
    BY <1>1, <1>2, <2>1 DEF Views
  <2>2. CASE \E u \in TxIds : InFlight(u)' /\ V = CommittedTxns' \union {u}
    <3>1. PICK u \in TxIds : InFlight(u)' /\ V = CommittedTxns' \union {u}
      BY <2>2
    <3>2. InFlight(u) /\ V = CommittedTxns \union {u}
      BY <1>1, <3>1
    <3>3. V \in Views
      BY <3>2 DEF Views
    <3> QED
      BY <1>1, <1>2, <3>2, <3>3
  <2>3. CASE \E u \in TxIds : phase'[u] = "running" /\ V = snapshot'[u] \union {u}
    <3>1. PICK u \in TxIds : phase'[u] = "running" /\ V = snapshot'[u] \union {u}
      BY <2>3
    <3>2. CASE u = t
      BY <1>1, <1>3, <3>1, <3>2
    <3>3. CASE u # t
      <4>1. phase[u] = "running" /\ V = snapshot[u] \union {u}
        BY <1>1, <3>1, <3>3
      <4>2. snapshot[u] \subseteq CommittedTxns
        BY <4>1, SnapshotCommitted DEF HasView
      <4>3. V \in Views
        BY <4>1 DEF Views
      <4> QED
        BY <1>2, <3>3, <4>1, <4>2, <4>3
    <3> QED
      BY <3>2, <3>3
  <2> QED
    BY <2>0, <2>1, <2>2, <2>3
<1> QED
  BY <1>3, <1>4

(***************************************************************************)
(* Begin, Commit and Abort: every view afterwards is made of views from    *)
(* before, as far as transactions go that can have written something.      *)
(***************************************************************************)
MadeOf(V, A, B) == A \union B \subseteq V /\ \A v \in V : HasView(v) => v \in A \union B

(* Begin, commit, abort: each set shown is made of sets shown before. *)
LEMMA CallsViews ==
    ASSUME TxnInv, NEW t \in TxIds, Calls(t)
    PROVE  /\ \A V \in Views' : \E A, B \in Views : MadeOf(V, A, B)
           /\ CommittedTxns \subseteq CommittedTxns'
           /\ \A u \in TxIds : HasView(u) => HasView(u)'
<1>1. phase \in [TxIds -> Phases] /\ txn_state \in [TxIds -> TransactionState]
      /\ snapshot \in [TxIds -> SUBSET TxIds]
  BY DEF TxnInv, TxnTypeOK
<1>2. /\ txn_state[t] # "COMMITTED" \/ txn_state' = txn_state
      /\ \A u \in TxIds : u # t => txn_state'[u] = txn_state[u] /\ phase'[u] = phase[u]
                                   /\ snapshot'[u] = snapshot[u]
      /\ HasView(t) => phase'[t] \notin {"none", "begun"}
  <2>1. CASE BeginRegister(t)
    <3>1. phase[t] = "none" /\ txn_state[t] = "UNKNOWN"
      BY <2>1 DEF BeginRegister, TxnInv, TxnTypeOK, PhaseInv
    <3> QED
      BY <1>1, <2>1, <3>1 DEF BeginRegister, HasView
  <2>2. CASE BeginReadView(t)
    BY <1>1, <2>2 DEF BeginReadView, CreateReadView, HasView
  <2>3. CASE CommitPublish(t) \/ AbortPublish(t)
    <3>1. txn_state[t] = "IN_PROGRESS"
      BY <2>3 DEF CommitPublish, AbortPublish, EndState, TxnInv, PhaseInv
    <3> QED
      BY <1>1, <2>3, <3>1 DEF CommitPublish, AbortPublish, EndState, HasView
  <2>4. CASE CommitLog(t) \/ AbortLog(t)
    BY <1>1, <2>4 DEF CommitLog, AbortLog, WriteTxnControlLog, HasView
  <2>5. CASE CommitFlush(t) \/ AbortFlush(t)
    BY <1>1, <2>5 DEF CommitFlush, AbortFlush, FlushLog, HasView
  <2>6. CASE AbortLookup(t)
    BY <1>1, <2>6 DEF AbortLookup, HasView
  <2> QED
    BY <2>1, <2>2, <2>3, <2>4, <2>5, <2>6 DEF Calls
<1>3. CommittedTxns \subseteq CommittedTxns' /\ \A u \in TxIds : HasView(u) => HasView(u)'
  BY <1>2 DEF CommittedTxns, HasView
<1>4. /\ CommittedTxns' = CommittedTxns \/ (phase[t] = "running" /\ CommittedTxns' = CommittedTxns \union {t})
      /\ \/ phase'[t] \notin {"running", "rollback"}
         \/ phase[t] \in {"running", "rollback"} /\ snapshot'[t] = snapshot[t] /\ phase'[t] = "rollback"
            /\ CommittedTxns' = CommittedTxns
         \/ ~HasView(t) /\ snapshot'[t] = CommittedTxns /\ CommittedTxns' = CommittedTxns
  <2>1. CASE BeginRegister(t)
    <3>1. phase[t] = "none" /\ txn_state[t] = "UNKNOWN"
      BY <2>1 DEF BeginRegister, TxnInv, TxnTypeOK, PhaseInv
    <3> QED
      BY <1>1, <2>1, <3>1 DEF BeginRegister, CommittedTxns
  <2>2. CASE BeginReadView(t)
    BY <1>1, <2>2 DEF BeginReadView, CreateReadView, HasView, CommittedTxns
  <2>3. CASE CommitPublish(t)
    BY <1>1, <2>3 DEF CommitPublish, EndState, CommittedTxns
  <2>4. CASE AbortPublish(t)
    <3>1. txn_state[t] = "IN_PROGRESS"
      BY <2>4 DEF AbortPublish, EndState, TxnInv, PhaseInv
    <3> QED
      BY <1>1, <2>4, <3>1 DEF AbortPublish, EndState, CommittedTxns
  <2>5. CASE CommitLog(t) \/ AbortLog(t)
    BY <1>1, <2>5 DEF CommitLog, AbortLog, WriteTxnControlLog, CommittedTxns
  <2>6. CASE CommitFlush(t) \/ AbortFlush(t)
    BY <1>1, <2>6 DEF CommitFlush, AbortFlush, FlushLog, CommittedTxns
  <2>7. CASE AbortLookup(t)
    BY <1>1, <2>7 DEF AbortLookup, CommittedTxns
  <2> QED
    BY <2>1, <2>2, <2>3, <2>4, <2>5, <2>6, <2>7 DEF Calls
<1>5. CommittedTxns \in Views /\ CommittedTxns' \in Views
      /\ \A u \in TxIds : InFlight(u) => CommittedTxns \union {u} \in Views
  BY <1>4 DEF Views, InFlight
<1>6. ASSUME NEW V \in Views' PROVE \E A, B \in Views : MadeOf(V, A, B)
  <2>0. \/ V = CommittedTxns'
        \/ \E u \in TxIds : InFlight(u)' /\ V = CommittedTxns' \union {u}
        \/ \E u \in TxIds : phase'[u] = "running" /\ V = snapshot'[u] \union {u}
    BY DEF Views
  <2>1. CASE V = CommittedTxns'
    BY <1>5, <2>1 DEF MadeOf
  <2>2. CASE \E u \in TxIds : InFlight(u)' /\ V = CommittedTxns' \union {u}
    <3>1. PICK u \in TxIds : InFlight(u)' /\ V = CommittedTxns' \union {u}
      BY <2>2
    <3>2. CASE u # t
      <4>1. InFlight(u)
        BY <1>2, <3>1, <3>2 DEF InFlight
      <4>2. MadeOf(V, CommittedTxns', CommittedTxns \union {u})
        BY <1>3, <3>1 DEF MadeOf
      <4> QED
        BY <1>5, <4>1, <4>2
    <3>3. CASE u = t
      <4>1. CASE InFlight(t)
        <5>1. CommittedTxns' = CommittedTxns
          BY <1>4, <3>1, <3>3, <4>1 DEF InFlight, HasView
        <5>2. MadeOf(V, CommittedTxns, CommittedTxns \union {t})
          BY <3>1, <3>3, <5>1 DEF MadeOf
        <5> QED
          BY <1>5, <4>1, <5>2
      <4>2. CASE ~InFlight(t)
        <5>1. ~HasView(t) /\ CommittedTxns' = CommittedTxns
          BY <1>4, <3>1, <3>3, <4>2 DEF InFlight
        <5>2. MadeOf(V, CommittedTxns, CommittedTxns)
          BY <3>1, <3>3, <5>1 DEF MadeOf
        <5> QED
          BY <1>5, <5>2
      <4> QED
        BY <4>1, <4>2
    <3> QED
      BY <3>2, <3>3
  <2>3. CASE \E u \in TxIds : phase'[u] = "running" /\ V = snapshot'[u] \union {u}
    <3>1. PICK u \in TxIds : phase'[u] = "running" /\ V = snapshot'[u] \union {u}
      BY <2>3
    <3>2. CASE u # t
      <4>1. V \in Views
        BY <1>2, <3>1, <3>2 DEF Views
      <4>2. MadeOf(V, V, V)
        BY DEF MadeOf
      <4> QED
        BY <4>1, <4>2
    <3>3. CASE u = t
      <4>1. ~HasView(t) /\ V = CommittedTxns \union {t}
        BY <1>4, <3>1, <3>3
      <4>2. MadeOf(V, CommittedTxns, CommittedTxns)
        BY <4>1 DEF MadeOf
      <4> QED
        BY <1>5, <4>2
    <3> QED
      BY <3>2, <3>3
  <2> QED
    BY <2>0, <2>1, <2>2, <2>3
<1> QED
  BY <1>3, <1>6

-----------------------------------------------------------------------------
(* The invariant is inductive. *)

(* A version was written by a transaction that has begun. *)
LEMMA WriterType ==
    ASSUME TableInv, HeadInv, StartedInv, NEW r \in 1 .. Len(rows)
    PROVE  /\ Writer(r) \in TxIds /\ HasView(Writer(r)) /\ Base(r) \in 0 .. Len(undo)
           /\ rows[r].trx \in TxIds /\ HasView(rows[r].trx)
<1>1. rows[r].trx \in TxIds /\ HasView(rows[r].trx)
  BY FieldTypes DEF TableInv, StartedInv
<1>2. Len(undo) \in Nat
  BY FieldTypes DEF TableInv
<1>3. CASE rows[r].del
  <2>1. /\ rows[r].roll \in 1 .. Len(undo)
        /\ Writer(r) = undo[rows[r].roll].trx /\ Base(r) = undo[rows[r].roll].roll
    BY <1>3, MarkedImage
  <2>2. undo[rows[r].roll].trx \in TxIds /\ HasView(undo[rows[r].roll].trx)
    BY <2>1, FieldTypes DEF TableInv, StartedInv
  <2>3. undo[rows[r].roll].roll \in 0 .. rows[r].roll - 1
    BY <2>1 DEF HeadInv, ImageOK
  <2>4. undo[rows[r].roll].roll \in 0 .. Len(undo)
    BY <1>2, <2>1, <2>3
  <2> QED
    BY <1>1, <2>1, <2>2, <2>4
<1>4. CASE ~rows[r].del
  BY <1>1, <1>4 DEF Writer, Base, HeadInv, RecordOK
<1> QED
  BY <1>3, <1>4

(* Steps that leave records, images and write sets alone. *)
LEMMA TableKept ==
    ASSUME RefineInv, TableInv', rows' = rows, undo' = undo, write_set' = write_set,
           \A V \in Views' : \E A, B \in Views : MadeOf(V, A, B),
           CommittedTxns \subseteq CommittedTxns',
           \A u \in TxIds : (HasView(u) => HasView(u)') /\ (NotEnded(u)' => NotEnded(u))
    PROVE  RefineInv'
<1>0. /\ TableInv /\ HeadInv /\ StartedInv /\ SavedInv /\ MarkInv /\ HoldInv /\ LineInv
      /\ \A r \in 1 .. Len(rows) : rows[r].trx \in TxIds
      /\ \A p \in 1 .. Len(undo) : undo[p].trx \in TxIds
  BY FieldTypes DEF RefineInv, TableInv
<1>1. \A r : Writer(r)' = Writer(r) /\ Base(r)' = Base(r)
  BY DEF Writer, Base
<1>2. \A r \in 1 .. Len(rows) : Writer(r) \in TxIds /\ HasView(Writer(r))
  BY <1>0, WriterType
<1>3. HeadInv'
  BY <1>0 DEF HeadInv, ImageOK, RecordOK
<1>4. StartedInv'
  <2>1. \A r \in 1 .. Len(rows) : HasView(rows[r].trx)'
    BY <1>0 DEF StartedInv
  <2>2. \A p \in 1 .. Len(undo) : HasView(undo[p].trx)'
    BY <1>0 DEF StartedInv
  <2> QED
    BY <2>1, <2>2 DEF StartedInv
<1>5. SavedInv'
  BY <1>0 DEF SavedInv
<1>6. MarkInv'
  <2>1. \A r \in 1 .. Len(rows) : NotEnded(rows[r].trx)' => NotEnded(rows[r].trx)
    BY <1>0
  <2> QED
    BY <1>0, <2>1 DEF MarkInv
<1>7. HoldInv'
  <2> SUFFICES ASSUME NEW n \in 1 .. Len(rows), ~rows[n].dead, NotEnded(Writer(n))'
               PROVE  Held(Writer(n), n)'
    BY DEF HoldInv
  <2>1. NotEnded(Writer(n))
    <3>1. NotEnded(Writer(n))' <=> txn_state'[Writer(n)] \in {"UNKNOWN", "IN_PROGRESS"}
      BY <1>1 DEF NotEnded
    <3> DEFINE u == Writer(n)
    <3>2. u \in TxIds /\ txn_state'[u] \in {"UNKNOWN", "IN_PROGRESS"}
      BY <1>2, <3>1
    <3> HIDE DEF u
    <3>3. NotEnded(u)
      BY <3>2 DEF NotEnded
    <3> QED
      BY <3>3 DEF u
  <2>2. Held(Writer(n), n)
    BY <1>0, <2>1 DEF HoldInv
  <2> QED
    BY <1>1, <2>2 DEF Held
<1>8. LineInv'
  <2> SUFFICES ASSUME NEW s \in 1 .. Len(rows), NEW r \in 1 .. Len(rows),
                      s < r, rows[s].row = rows[r].row, ~rows[s].dead, ~rows[r].dead
               PROVE  rows[s].del /\ Before(rows[s].trx, Writer(r))'
    BY DEF LineInv
  <2>1. rows[s].del /\ Before(rows[s].trx, Writer(r))
    BY <1>0 DEF LineInv
  <2>2. ASSUME NEW V \in Views', Writer(r) \in V PROVE rows[s].trx \in V
    <3>1. PICK A \in Views, B \in Views : MadeOf(V, A, B)
      OBVIOUS
    <3>2. Writer(r) \in A \union B
      BY <1>2, <2>2, <3>1 DEF MadeOf
    <3>3. rows[s].trx \in A \union B
      BY <2>1, <3>2 DEF Before
    <3> QED
      BY <3>1, <3>3 DEF MadeOf
  <2> QED
    BY <1>1, <2>1, <2>2 DEF Before
<1> QED
  BY <1>3, <1>4, <1>5, <1>6, <1>7, <1>8 DEF RefineInv

(* Begin, commit and abort leave the table alone. *)
LEMMA CallsRefine ==
    ASSUME RefineInv, NEW t \in TxIds, Calls(t), UNCHANGED tableVars
    PROVE  RefineInv'
<1>1. TableInv /\ TxnInv
  BY DEF RefineInv, TableInv
<1>2. TableInv'
  BY <1>1, CallsKeep
<1>3. rows' = rows /\ undo' = undo /\ write_set' = write_set
  BY DEF tableVars
<1>4. /\ \A V \in Views' : \E A, B \in Views : MadeOf(V, A, B)
      /\ CommittedTxns \subseteq CommittedTxns'
      /\ \A u \in TxIds : HasView(u) => HasView(u)'
  BY <1>1, CallsViews
<1>5. \A u \in TxIds : NotEnded(u)' => NotEnded(u)
  BY <1>1, CallsEnd
<1> QED
  BY <1>2, <1>3, <1>4, <1>5, TableKept

(* SELECT only changes what its transaction reads. *)
LEMMA SelectRefine ==
    ASSUME RefineInv, NEW t \in TxIds, Select(t)
    PROVE  RefineInv'
<1>1. TableInv /\ TxnInv /\ BeginStatement(t)
  BY DEF RefineInv, TableInv, Select
<1>2. TableInv'
  BY <1>1, SelectKeeps
<1>3. rows' = rows /\ undo' = undo /\ write_set' = write_set
  BY DEF tableVars, Select
<1>4. Views' \subseteq Views
  BY <1>1, StatementViews
<1>5. /\ txn_state' = txn_state /\ CommittedTxns' = CommittedTxns
      /\ \A u \in TxIds : HasView(u)' <=> HasView(u)
  BY <1>1, StatementFacts
<1>6. \A V \in Views' : \E A, B \in Views : MadeOf(V, A, B)
  <2> SUFFICES ASSUME NEW V \in Views' PROVE \E A, B \in Views : MadeOf(V, A, B)
    OBVIOUS
  <2>1. V \in Views /\ MadeOf(V, V, V)
    BY <1>4 DEF MadeOf
  <2> QED
    BY <2>1
<1>7. \A u \in TxIds : (HasView(u) => HasView(u)') /\ (NotEnded(u)' => NotEnded(u))
  BY <1>5 DEF NotEnded
<1> QED
  BY <1>2, <1>3, <1>5, <1>6, <1>7, TableKept

(* A stuttering step. *)
LEMMA IdleRefine ==
    ASSUME RefineInv, UNCHANGED mvccVars
    PROVE  RefineInv'
<1>1. rows' = rows /\ undo' = undo /\ write_set' = write_set
      /\ txn_state' = txn_state /\ phase' = phase /\ snapshot' = snapshot
  BY DEF mvccVars, tableVars, txnVars
<1>2. TableInv'
  BY TableStep DEF RefineInv
<1>3. CommittedTxns' = CommittedTxns
  BY <1>1 DEF CommittedTxns
<1>4. Views' = Views
  BY <1>1, <1>3 DEF Views, InFlight
<1>5. \A V \in Views' : \E A, B \in Views : MadeOf(V, A, B)
  <2> SUFFICES ASSUME NEW V \in Views' PROVE \E A, B \in Views : MadeOf(V, A, B)
    OBVIOUS
  <2>1. V \in Views /\ MadeOf(V, V, V)
    BY <1>4 DEF MadeOf
  <2> QED
    BY <2>1
<1>6. \A u \in TxIds : (HasView(u) => HasView(u)') /\ (NotEnded(u)' => NotEnded(u))
  BY <1>1 DEF HasView, NotEnded
<1> QED
  BY <1>1, <1>2, <1>3, <1>5, <1>6, TableKept

(* INSERT: one record, of a row of its own. *)
LEMMA InsertFields ==
    ASSUME TableTypeOK, NEW t \in TxIds, NEW v \in Values, InsertRow(t, v)
    PROVE  /\ Len(rows') = Len(rows) + 1
           /\ \A r \in 1 .. Len(rows) : rows'[r] = rows[r]
           /\ rows'[Len(rows) + 1] = NewRecord(t, v, 0, Len(rows) + 1)
           /\ undo' = undo
           /\ Len(write_set[t]) \in Nat
           /\ Len(write_set'[t]) = Len(write_set[t]) + 1
           /\ \A i \in 1 .. Len(write_set[t]) : write_set'[t][i] = write_set[t][i]
           /\ write_set'[t][Len(write_set[t]) + 1] = InsertWrite(Len(rows) + 1)
           /\ \A u \in TxIds : u # t => write_set'[u] = write_set[u]
<1> DEFINE n == Len(rows)
           h == NewRecord(t, v, 0, n + 1)
           w == InsertWrite(n + 1)
           W == write_set[t]
           m == Len(W)
<1>1. /\ rows \in Seq(Records) /\ n \in Nat /\ write_set \in [TxIds -> Seq(Writes)]
      /\ W \in Seq(Writes) /\ m \in Nat
  BY DEF TableTypeOK
<1>2. h \in Records
  BY <1>1 DEF NewRecord, Records
<1>3. w \in Writes
  BY <1>1 DEF InsertWrite, Writes, INVALID_TX_ID
<1>4. rows' = Append(rows, h) /\ write_set' = [write_set EXCEPT ![t] = Append(W, w)] /\ undo' = undo
  BY DEF InsertRow
<1> HIDE DEF h, w, W, m
<1>5. Len(rows') = n + 1 /\ (\A r \in 1 .. n : rows'[r] = rows[r]) /\ rows'[n + 1] = h
  BY <1>1, <1>2, <1>4, AppendProperties
<1>6. Len(Append(W, w)) = m + 1 /\ (\A i \in 1 .. m : Append(W, w)[i] = W[i]) /\ Append(W, w)[m + 1] = w
  BY <1>1, <1>3, AppendProperties DEF m
<1>7. write_set'[t] = Append(W, w) /\ \A u \in TxIds : u # t => write_set'[u] = write_set[u]
  BY <1>1, <1>4
<1> QED
  BY <1>1, <1>4, <1>5, <1>6, <1>7 DEF h, w, W, m

(* INSERT adds the only record of its row. *)
LEMMA InsertRefine ==
    ASSUME RefineInv, NEW t \in TxIds, NEW v \in Values, InsertRow(t, v)
    PROVE  RefineInv'
<1>a. PICK N : N = Len(rows)
  OBVIOUS
<1>b. PICK n : n = N + 1
  OBVIOUS
<1> DEFINE h == rows'[n]
           K == Len(write_set[t])
<1>0. /\ TableInv /\ HeadInv /\ StartedInv /\ SavedInv /\ MarkInv /\ HoldInv /\ LineInv
      /\ TxnInv /\ TableTypeOK /\ BeginStatement(t) /\ KeptInv
  BY DEF RefineInv, TableInv, InsertRow
<1>1. TableInv'
  BY <1>0, ChangingKeeps DEF Changing
<1>2. /\ Len(rows') = n
      /\ \A r \in 1 .. N : rows'[r] = rows[r]
      /\ h = NewRecord(t, v, 0, n)
      /\ undo' = undo
      /\ K \in Nat /\ Len(write_set'[t]) = K + 1
      /\ \A i \in 1 .. K : write_set'[t][i] = write_set[t][i]
      /\ write_set'[t][K + 1] = InsertWrite(n)
      /\ \A u \in TxIds : u # t => write_set'[u] = write_set[u]
  BY <1>0, <1>a, <1>b, InsertFields
<1>3. /\ phase[t] = "running" /\ txn_state' = txn_state /\ CommittedTxns' = CommittedTxns
      /\ \A u \in TxIds : HasView(u)' <=> HasView(u)
      /\ Views' \subseteq Views
  BY <1>0, StatementFacts, StatementViews
<1>4. /\ N \in Nat /\ Len(undo) \in Nat
      /\ \A r \in 1 .. N : rows[r].trx \in TxIds /\ rows[r].del \in BOOLEAN
      /\ \A p \in 1 .. Len(undo) : undo[p].trx \in TxIds
  BY <1>0, <1>a, FieldTypes
<1>5. h.trx = t /\ h.roll = 0 /\ ~h.del /\ ~h.dead /\ h.val = v /\ h.row = n
  BY <1>2 DEF NewRecord
<1>6. \A r \in 1 .. n : r \in 1 .. N \/ r = n
  BY <1>4, <1>b
<1>7. \A r \in 1 .. N : Writer(r)' = Writer(r) /\ Base(r)' = Base(r)
  BY <1>2 DEF Writer, Base
<1>8. Writer(n)' = t /\ Base(n)' = 0
  BY <1>5 DEF Writer, Base
<1>9. n \in 1 .. n /\ n \in Nat /\ \A r \in 1 .. N : r < n /\ r # n /\ r \in 1 .. n
  BY <1>4, <1>b
<1>10. \A r \in 1 .. N : rows[r].row \in 1 .. r /\ rows[r].row # n
  <2> SUFFICES ASSUME NEW r \in 1 .. N PROVE rows[r].row \in 1 .. r /\ rows[r].row # n
    OBVIOUS
  <2>1. rows[r].row \in 1 .. r
    BY <1>0, <1>a DEF HeadInv, RecordOK
  <2> QED
    BY <1>4, <1>b, <2>1
<1> HIDE DEF h
<1>11. HeadInv'
  <2>1. \A p \in 1 .. Len(undo) : ImageOK(p)'
    BY <1>0, <1>2 DEF HeadInv, ImageOK
  <2>2. \A r \in 1 .. N : RecordOK(r)'
    <3> SUFFICES ASSUME NEW r \in 1 .. N PROVE RecordOK(r)'
      OBVIOUS
    <3>1. RecordOK(r)
      BY <1>0, <1>a DEF HeadInv
    <3>2. rows'[r] = rows[r] /\ undo' = undo /\ CommittedTxns' = CommittedTxns
      BY <1>2, <1>3
    <3> QED
      BY ONLY <3>1, <3>2 DEF RecordOK
  <2>3. RecordOK(n)'
    <3>1. rows'[n].row \in 1 .. n /\ rows'[n].roll \in 0 .. Len(undo) /\ rows'[n].roll = 0
      BY <1>4, <1>5, <1>9 DEF h
    <3> QED
      BY <1>2, <1>5, <3>1 DEF RecordOK, h
  <2> QED
    BY <1>2, <1>6, <2>1, <2>2, <2>3 DEF HeadInv
<1>12. StartedInv'
  <2>1. \A p \in 1 .. Len(undo) : phase'[undo[p].trx] \notin {"none", "begun"}
    BY <1>0, <1>3, <1>4 DEF StartedInv, HasView
  <2>2. \A r \in 1 .. N : phase'[rows[r].trx] \notin {"none", "begun"}
    BY <1>0, <1>3, <1>4, <1>a DEF StartedInv, HasView
  <2>3. phase'[t] \notin {"none", "begun"}
    BY <1>3 DEF HasView
  <2> QED
    BY <1>2, <1>5, <1>6, <2>1, <2>2, <2>3 DEF StartedInv, HasView, h
<1>13. ASSUME NEW u \in TxIds, NEW i \in 1 .. Len(write_set'[u])
       PROVE  \/ i \in 1 .. Len(write_set[u]) /\ write_set'[u][i] = write_set[u][i]
              \/ u = t /\ i = K + 1 /\ write_set'[u][i].type = "INSERT" /\ write_set'[u][i].rid = n
  <2>1. CASE u # t
    BY <1>2, <2>1
  <2>2. CASE u = t
    <3>1. i \in 1 .. K \/ i = K + 1
      BY <1>2, <2>2
    <3> QED
      BY <1>2, <2>2, <3>1 DEF InsertWrite
  <2> QED
    BY <2>1, <2>2
<1>14. ASSUME NEW u \in TxIds, NEW i \in 1 .. Len(write_set[u])
       PROVE  i \in 1 .. Len(write_set'[u]) /\ write_set'[u][i] = write_set[u][i]
  BY <1>2
<1>15. \A u \in TxIds : NotEnded(u)' <=> NotEnded(u)
  BY <1>3 DEF NotEnded
<1>16. ASSUME NEW u \in TxIds, NotEnded(u), NEW i \in 1 .. Len(write_set[u])
       PROVE  write_set[u][i].rid \in 1 .. N /\ rows'[write_set[u][i].rid] = rows[write_set[u][i].rid]
  BY <1>0, <1>2, <1>16, <1>a DEF KeptInv, Kept
<1>17. SavedInv'
  <2> SUFFICES ASSUME NEW u \in TxIds, NotEnded(u)', NEW i \in 1 .. Len(write_set'[u]),
                      write_set'[u][i].type = "DELETE"
               PROVE  /\ undo[rows'[write_set'[u][i].rid].roll].trx = write_set'[u][i].prev_trx
                      /\ undo[rows'[write_set'[u][i].rid].roll].roll = write_set'[u][i].prev_roll
    BY <1>2 DEF SavedInv
  <2>1. i \in 1 .. Len(write_set[u]) /\ write_set'[u][i] = write_set[u][i]
    BY <1>13
  <2> QED
    BY <1>0, <1>15, <1>16, <2>1 DEF SavedInv
<1>18. MarkInv'
  <2> SUFFICES ASSUME NEW r \in 1 .. n, rows'[r].del, NotEnded(rows[r].trx)'
               PROVE  \E i \in 1 .. Len(write_set'[rows'[r].trx]) :
                         /\ write_set'[rows'[r].trx][i].rid = r
                         /\ write_set'[rows'[r].trx][i].type = "DELETE"
    BY <1>2 DEF MarkInv, NotEnded
  <2>1. r \in 1 .. N /\ rows'[r] = rows[r]
    BY <1>2, <1>5, <1>6 DEF h
  <2>2. rows[r].trx \in TxIds /\ NotEnded(rows[r].trx) /\ r \in 1 .. Len(rows)
    BY <1>3, <1>4, <1>a, <2>1 DEF NotEnded
  <2>3. PICK i \in 1 .. Len(write_set[rows[r].trx]) :
           /\ write_set[rows[r].trx][i].rid = r
           /\ write_set[rows[r].trx][i].type = "DELETE"
    BY <1>0, <2>1, <2>2 DEF MarkInv
  <2> QED
    BY <1>14, <2>1, <2>2, <2>3
<1>19. HoldInv'
  <2> SUFFICES ASSUME NEW k \in 1 .. n, ~rows'[k].dead, NotEnded(Writer(k))'
               PROVE  Held(Writer(k), k)'
    BY <1>2 DEF HoldInv
  <2>1. CASE k \in 1 .. N
    <3> DEFINE u == Writer(k)
    <3>1. u \in TxIds /\ Writer(k)' = u /\ Base(k)' = Base(k) /\ rows'[k] = rows[k]
      BY <1>0, <1>2, <1>7, <1>a, <2>1, WriterType
    <3> HIDE DEF u
    <3>2. NotEnded(u)
      BY <1>3, <3>1 DEF NotEnded
    <3>3. Held(u, k)
      BY <1>0, <1>a, <2>1, <3>1, <3>2 DEF HoldInv, u
    <3>4. PICK i \in 1 .. Len(write_set[u]) :
        /\ write_set[u][i].type = "INSERT" /\ write_set[u][i].rid = k
        /\ \A j \in 1 .. Len(write_set[u]) :
              write_set[u][j].type = "DELETE" /\ write_set[u][j].rid < k
                /\ rows[write_set[u][j].rid].row = rows[k].row => j < i
        /\ Base(k) # 0 =>
              \E j \in 1 .. i - 1 : /\ write_set[u][j].type = "DELETE"
                                    /\ rows[write_set[u][j].rid].roll = Base(k)
      BY <3>3 DEF Held
    <3>5. i \in 1 .. Len(write_set'[u]) /\ write_set'[u][i] = write_set[u][i]
      BY <1>14, <3>1
    <3>6. \A j \in 1 .. i - 1 : j \in 1 .. Len(write_set[u])
      <4>1. Len(write_set[u]) \in Nat
        BY <1>0, <3>1 DEF TableTypeOK
      <4> QED
        BY <4>1
    <3>7. ASSUME NEW j \in 1 .. Len(write_set'[u]), write_set'[u][j].type = "DELETE",
                 write_set'[u][j].rid < k, rows'[write_set'[u][j].rid].row = rows'[k].row
          PROVE  j < i
      <4>1. j \in 1 .. Len(write_set[u]) /\ write_set'[u][j] = write_set[u][j]
        BY <1>13, <3>1, <3>7
      <4> QED
        BY <1>16, <3>1, <3>2, <3>4, <3>7, <4>1
    <3>8. ASSUME Base(k) # 0
          PROVE  \E j \in 1 .. i - 1 : /\ write_set'[u][j].type = "DELETE"
                                       /\ rows'[write_set'[u][j].rid].roll = Base(k)
      <4>1. PICK j \in 1 .. i - 1 : /\ write_set[u][j].type = "DELETE"
                                    /\ rows[write_set[u][j].rid].roll = Base(k)
        BY <3>4, <3>8
      <4>2. j \in 1 .. Len(write_set[u])
        BY <3>6
      <4>3. write_set'[u][j] = write_set[u][j]
            /\ rows'[write_set[u][j].rid] = rows[write_set[u][j].rid]
        BY <1>14, <1>16, <3>1, <3>2, <4>2
      <4>4. write_set'[u][j].type = "DELETE" /\ rows'[write_set'[u][j].rid].roll = Base(k)
        BY <4>1, <4>3
      <4> QED
        BY <4>4
    <3> QED
      BY <3>1, <3>4, <3>5, <3>7, <3>8 DEF Held
  <2>2. CASE k = n
    <3>1. K + 1 \in 1 .. Len(write_set'[t]) /\ write_set'[t][K + 1].type = "INSERT"
          /\ write_set'[t][K + 1].rid = n
      BY <1>2 DEF InsertWrite
    <3>2. NotEnded(t)
      BY <1>3, <1>8, <2>2 DEF NotEnded
    <3>3. ASSUME NEW j \in 1 .. Len(write_set'[t]), write_set'[t][j].type = "DELETE",
                 rows'[write_set'[t][j].rid].row = rows'[n].row
          PROVE  j < K + 1
      <4>1. j \in 1 .. Len(write_set[t]) /\ write_set'[t][j] = write_set[t][j]
        BY <1>13, <3>3
      <4>2. rows[write_set[t][j].rid].row = n /\ write_set[t][j].rid \in 1 .. N
        BY <1>5, <1>16, <3>2, <3>3, <4>1 DEF h
      <4> QED
        BY <1>10, <4>2
    <3> QED
      BY <1>8, <2>2, <3>1, <3>3 DEF Held
  <2> QED
    BY <1>6, <2>1, <2>2
<1>20. LineInv'
  <2> SUFFICES ASSUME NEW s \in 1 .. n, NEW r \in 1 .. n,
                      s < r, rows'[s].row = rows'[r].row, ~rows'[s].dead, ~rows'[r].dead
               PROVE  rows'[s].del /\ Before(rows[s].trx, Writer(r))'
    BY <1>2 DEF LineInv
  <2>1. r \in 1 .. N /\ s \in 1 .. N
    <3>1. s \in 1 .. N
      BY <1>4, <1>6, <1>b
    <3>2. r # n
      BY <1>2, <1>5, <1>10, <3>1 DEF h
    <3> QED
      BY <1>6, <3>1, <3>2
  <2>2. rows[s].del /\ Before(rows[s].trx, Writer(r))
    BY <1>0, <1>2, <1>a, <2>1 DEF LineInv
  <2> QED
    BY <1>2, <1>3, <1>7, <2>1, <2>2 DEF Before
<1> QED
  BY <1>1, <1>11, <1>12, <1>17, <1>18, <1>19, <1>20 DEF RefineInv

(* What a roll-back step does to the header, field by field. *)
LEMMA HeaderFields ==
    ASSUME NEW f \in Seq(Records), NEW k \in 1 .. Len(f), NEW x \in TxIds, NEW p \in Nat
    PROVE  /\ LET g == [f EXCEPT ![k].dead = TRUE]
              IN  /\ g[k].trx = f[k].trx /\ g[k].roll = f[k].roll /\ g[k].del = f[k].del
                  /\ g[k].val = f[k].val /\ g[k].row = f[k].row
           /\ LET g == Restored(f, k, x, p)
              IN  g[k].roll = p /\ g[k].val = f[k].val /\ g[k].row = f[k].row
<1> DEFINE h == [[[f[k] EXCEPT !.trx = x] EXCEPT !.roll = p] EXCEPT !.del = FALSE]
           g == Restored(f, k, x, p)
           d == [f[k] EXCEPT !.dead = TRUE]
           e == [f EXCEPT ![k].dead = TRUE]
<1>1. Len(f) \in Nat /\ DOMAIN f = 1 .. Len(f) /\ f[k] \in Records
  OBVIOUS
<1>2. h.roll = p /\ h.val = f[k].val /\ h.row = f[k].row
  BY <1>1 DEF Records
<1>3. d.trx = f[k].trx /\ d.roll = f[k].roll /\ d.del = f[k].del /\ d.val = f[k].val /\ d.row = f[k].row
  BY <1>1 DEF Records
<1>4. g = [f EXCEPT ![k] = h] /\ e = [f EXCEPT ![k] = d]
  BY <1>1 DEF Restored
<1> HIDE DEF h, g, d, e
<1>5. g[k] = h /\ e[k] = d
  BY <1>1, <1>4
<1>6. g[k].roll = p /\ g[k].val = f[k].val /\ g[k].row = f[k].row
  BY <1>2, <1>5
<1>7. /\ e[k].trx = f[k].trx /\ e[k].roll = f[k].roll /\ e[k].del = f[k].del
      /\ e[k].val = f[k].val /\ e[k].row = f[k].row
  BY <1>3, <1>5
<1> QED
  BY <1>6, <1>7 DEF g, e

(* A step of the roll-back in the fields of the record it touches. *)
LEMMA RollbackFields ==
    ASSUME TableInv, NEW t \in TxIds, RollbackWrite(t), NEW w, w = write_set[t][Len(write_set[t])]
    PROVE  /\ w.type = "INSERT" =>
                 /\ rows'[w.rid].trx = rows[w.rid].trx /\ rows'[w.rid].roll = rows[w.rid].roll
                 /\ rows'[w.rid].del = rows[w.rid].del
           /\ w.type = "DELETE" => rows'[w.rid].roll = w.prev_roll
           /\ rows'[w.rid].val = rows[w.rid].val /\ rows'[w.rid].row = rows[w.rid].row
<1>1. RolledBack(t, w)
  BY RollbackEffect
<1>2. IF w.type = "INSERT" THEN MarkDead(w.rid) ELSE RestoreRecord(w)
  BY DEF RollbackWrite
<1>3. w \in Writes /\ Kept(t, w)
  BY <1>1 DEF RolledBack
<1>4. w.type \in {"INSERT", "DELETE"} /\ w.prev_roll \in Nat /\ w.rid \in 1 .. Len(rows)
      /\ (w.type = "DELETE" => w.prev_trx \in TxIds)
  BY <1>3 DEF Writes, Kept
<1>5. rows \in Seq(Records)
  BY DEF TableInv, TableTypeOK
<1>6. CASE w.type = "INSERT"
  <2>1. rows' = [rows EXCEPT ![w.rid].dead = TRUE]
    BY <1>2, <1>6 DEF MarkDead
  <2> DEFINE k == w.rid
  <2>2. k \in 1 .. Len(rows) /\ t \in TxIds /\ 0 \in Nat
    BY <1>4
  <2> HIDE DEF k
  <2>3. LET g == [rows EXCEPT ![k].dead = TRUE]
        IN  /\ g[k].trx = rows[k].trx /\ g[k].roll = rows[k].roll /\ g[k].del = rows[k].del
            /\ g[k].val = rows[k].val /\ g[k].row = rows[k].row
    BY <1>5, <2>2, HeaderFields
  <2> QED
    BY <1>6, <2>1, <2>3 DEF k
<1>7. CASE w.type = "DELETE"
  <2> DEFINE k == w.rid
             x == w.prev_trx
             p == w.prev_roll
  <2>1. rows' = Restored(rows, k, x, p)
    BY <1>2, <1>7 DEF RestoreRecord, Restored
  <2>2. k \in 1 .. Len(rows) /\ x \in TxIds /\ p \in Nat
    BY <1>4, <1>7
  <2> HIDE DEF k, x, p
  <2>3. LET g == Restored(rows, k, x, p)
        IN  g[k].roll = p /\ g[k].val = rows[k].val /\ g[k].row = rows[k].row
    BY <1>5, <2>2, HeaderFields
  <2> QED
    BY <1>7, <2>1, <2>3 DEF k, x, p
<1> QED
  BY <1>4, <1>6, <1>7

(* All of it together: an insert dies, or a mark goes as it came. *)
TakenBack(t, r, type) ==
    /\ r \in 1 .. Len(rows) /\ rows[r].trx = t /\ ~rows[r].dead
    /\ Len(rows') = Len(rows) /\ undo' = undo
    /\ \A q \in 1 .. Len(rows) : q # r => rows'[q] = rows[q]
    /\ rows'[r].val = rows[r].val /\ rows'[r].row = rows[r].row /\ ~rows'[r].del
    /\ \/ /\ type = "INSERT"
          /\ ~rows[r].del
          /\ rows'[r].trx = t /\ rows'[r].roll = rows[r].roll /\ rows'[r].dead
       \/ /\ type = "DELETE"
          /\ rows[r].del
          /\ rows'[r].trx = undo[rows[r].roll].trx /\ rows'[r].roll = undo[rows[r].roll].roll
          /\ ~rows'[r].dead

(* It kills an inserted record, or gives a marked one its saved image. *)
LEMMA RollbackTakesBack ==
    ASSUME RefineInv, NEW t \in TxIds, RollbackWrite(t), NEW w, w = write_set[t][Len(write_set[t])]
    PROVE  TakenBack(t, w.rid, w.type) /\ InFlight(t) /\ NotEnded(t) /\ t \notin CommittedTxns
<1>0. TableInv /\ TxnInv /\ HeadInv /\ SavedInv /\ MarkInv /\ PairInv
  BY DEF RefineInv, TableInv
<1>1. RolledBack(t, w)
  BY <1>0, RollbackEffect
<1>2. InFlight(t) /\ NotEnded(t) /\ t \notin CommittedTxns
  <2>1. InFlight(t)
    BY DEF RollbackWrite, InFlight
  <2> QED
    BY <1>0, <2>1, FlightKinds
<1> DEFINE r == w.rid
           L == Len(write_set[t])
<1>3. /\ w \in Writes /\ Kept(t, w) /\ L \in Nat \ {0} /\ Len(rows') = Len(rows) /\ undo' = undo
      /\ \A q \in 1 .. Len(rows) : q # r => rows'[q] = rows[q]
      /\ w.type = "INSERT" => rows'[r].trx = t /\ rows'[r].dead
      /\ w.type = "DELETE" => rows'[r].trx = w.prev_trx /\ ~rows'[r].del /\ ~rows'[r].dead
  BY <1>1 DEF RolledBack, RollbackWrite
<1>4. /\ w.type \in {"INSERT", "DELETE"} /\ r \in 1 .. Len(rows) /\ rows[r].trx = t /\ ~rows[r].dead
      /\ w.type = "DELETE" => rows[r].del
  BY <1>3 DEF Writes, Kept
<1>5. /\ w.type = "INSERT" => rows'[r].roll = rows[r].roll /\ rows'[r].del = rows[r].del
      /\ w.type = "DELETE" => rows'[r].roll = w.prev_roll
      /\ rows'[r].val = rows[r].val /\ rows'[r].row = rows[r].row
  BY <1>0, RollbackFields
<1>6. L \in 1 .. L /\ write_set[t][L] = w
  BY <1>3
<1>7. CASE w.type = "INSERT"
  <2>1. ~rows[r].del
    <3> SUFFICES ASSUME rows[r].del PROVE FALSE
      OBVIOUS
    <3>0. r \in 1 .. Len(rows) /\ rows[r].del /\ rows[r].trx = t /\ NotEnded(t)
      BY <1>2, <1>4
    <3>1. PICK i \in 1 .. L : write_set[t][i].rid = r /\ write_set[t][i].type = "DELETE"
      BY ONLY <1>0, <3>0 DEF MarkInv, L
    <3>2. i # L
      BY <1>6, <1>7, <3>1
    <3>3. i < L
      BY <1>3, <3>2
    <3>4. write_set[t][L].type = "DELETE"
      BY <1>0, <1>2, <1>6, <3>1, <3>3 DEF PairInv
    <3> QED
      BY <1>6, <1>7, <3>4
  <2> QED
    BY <1>2, <1>3, <1>4, <1>5, <1>7, <2>1 DEF TakenBack
<1>8. CASE w.type = "DELETE"
  <2>1. undo[rows[r].roll].trx = w.prev_trx /\ undo[rows[r].roll].roll = w.prev_roll
    BY <1>0, <1>2, <1>6, <1>8 DEF SavedInv
  <2> QED
    BY <1>2, <1>3, <1>4, <1>5, <1>8, <2>1 DEF TakenBack
<1> QED
  BY <1>4, <1>7, <1>8

(* A step of the roll-back takes back the newest of the changes. *)
LEMMA RollbackRefine ==
    ASSUME RefineInv, NEW t \in TxIds, RollbackWrite(t)
    PROVE  RefineInv'
<1>a. PICK w : w = write_set[t][Len(write_set[t])]
  OBVIOUS
<1>b. PICK r : r = w.rid
  OBVIOUS
<1>c. PICK L : L = Len(write_set[t])
  OBVIOUS
<1>0. /\ TableInv /\ HeadInv /\ StartedInv /\ SavedInv /\ MarkInv /\ HoldInv /\ LineInv
      /\ TxnInv /\ TableTypeOK /\ PairInv /\ KeptInv
  BY DEF RefineInv, TableInv
<1>1. TableInv'
  BY <1>0, RollbackStep
<1>2. TakenBack(t, r, w.type) /\ InFlight(t) /\ NotEnded(t) /\ t \notin CommittedTxns
  BY <1>a, <1>b, RollbackTakesBack
<1>3. RolledBack(t, w)
  BY <1>0, <1>a, RollbackEffect
<1>4. /\ L \in Nat \ {0} /\ w = write_set[t][L] /\ L \in 1 .. L
      /\ Len(write_set'[t]) = L - 1
      /\ \A i \in 1 .. L - 1 : write_set'[t][i] = write_set[t][i]
      /\ \A u \in TxIds : u # t => write_set'[u] = write_set[u]
  BY <1>3, <1>a, <1>c DEF RolledBack
<1>5. /\ txn_state' = txn_state /\ phase' = phase /\ snapshot' = snapshot
  BY DEF RollbackWrite, txnVars
<1>6. /\ CommittedTxns' = CommittedTxns /\ Views' = Views
      /\ \A u \in TxIds : (NotEnded(u)' <=> NotEnded(u))
  <2>1. CommittedTxns' = CommittedTxns
    BY <1>5 DEF CommittedTxns
  <2> QED
    BY <1>5, <2>1 DEF Views, InFlight, NotEnded
<1>7. /\ r \in 1 .. Len(rows) /\ rows[r].trx = t /\ ~rows[r].dead
      /\ Len(rows') = Len(rows) /\ undo' = undo
      /\ \A q \in 1 .. Len(rows) : q # r => rows'[q] = rows[q]
      /\ rows'[r].val = rows[r].val /\ rows'[r].row = rows[r].row /\ ~rows'[r].del
      /\ w.type = "INSERT" \/ w.type = "DELETE"
  BY <1>2 DEF TakenBack
<1>8. w.type = "INSERT" => /\ ~rows[r].del
                           /\ rows'[r].trx = t /\ rows'[r].roll = rows[r].roll /\ rows'[r].dead
  BY <1>2 DEF TakenBack
<1>9. w.type = "DELETE" => /\ rows[r].del
                           /\ rows'[r].trx = undo[rows[r].roll].trx
                           /\ rows'[r].roll = undo[rows[r].roll].roll /\ ~rows'[r].dead
  BY <1>2 DEF TakenBack
<1>10. \A q \in 1 .. Len(rows) : Writer(q)' = Writer(q) /\ Base(q)' = Base(q) /\ rows'[q].row = rows[q].row
  <2> SUFFICES ASSUME NEW q \in 1 .. Len(rows)
               PROVE  Writer(q)' = Writer(q) /\ Base(q)' = Base(q) /\ rows'[q].row = rows[q].row
    OBVIOUS
  <2>1. CASE q # r
    BY <1>7, <2>1 DEF Writer, Base
  <2>2. CASE q = r /\ w.type = "INSERT"
    BY <1>7, <1>8, <2>2 DEF Writer, Base
  <2>3. CASE q = r /\ w.type = "DELETE"
    BY <1>7, <1>9, <2>3 DEF Writer, Base
  <2> QED
    BY <1>7, <2>1, <2>2, <2>3
<1>11. /\ Len(undo) \in Nat /\ Len(rows) \in Nat
       /\ \A q \in 1 .. Len(rows) : rows[q].trx \in TxIds
  BY <1>0, FieldTypes
<1>12. HeadInv'
  <2>1. \A p \in 1 .. Len(undo) : ImageOK(p)'
    BY <1>0, <1>7 DEF HeadInv, ImageOK
  <2>2. \A q \in 1 .. Len(rows) : q # r => RecordOK(q)'
    BY <1>0, <1>6, <1>7 DEF HeadInv, RecordOK
  <2>3. RecordOK(r)'
    <3>1. RecordOK(r)
      BY <1>0, <1>7 DEF HeadInv
    <3>2. CASE w.type = "INSERT"
      BY <1>7, <1>8, <3>1, <3>2 DEF RecordOK
    <3>3. CASE w.type = "DELETE"
      <4>1. rows[r].roll \in 1 .. Len(undo) /\ undo[rows[r].roll].row = rows[r].row
        BY <1>0, <1>7, <1>9, <3>3, MarkedImage
      <4>2. ImageOK(rows[r].roll)
        BY <1>0, <4>1 DEF HeadInv
      <4>3. /\ undo[rows[r].roll].roll \in 0 .. Len(undo)
            /\ undo[rows[r].roll].roll # 0 => undo[undo[rows[r].roll].roll].row = rows[r].row
        BY <1>11, <4>1, <4>2 DEF ImageOK
      <4> QED
        BY <1>7, <1>9, <3>1, <3>3, <4>3 DEF RecordOK
    <3> QED
      BY <1>7, <3>2, <3>3
  <2> QED
    BY <1>7, <2>1, <2>2, <2>3 DEF HeadInv
<1>13. StartedInv'
  <2>1. \A q \in 1 .. Len(rows) : phase'[rows'[q].trx] \notin {"none", "begun"}
    <3> SUFFICES ASSUME NEW q \in 1 .. Len(rows) PROVE phase'[rows'[q].trx] \notin {"none", "begun"}
      OBVIOUS
    <3>1. CASE rows'[q].trx = rows[q].trx
      BY <1>0, <1>5, <3>1 DEF StartedInv, HasView
    <3>2. CASE q = r /\ w.type = "DELETE"
      <4>1. rows[r].roll \in 1 .. Len(undo)
        BY <1>0, <1>7, <1>9, <3>2, MarkedImage
      <4> QED
        BY <1>0, <1>5, <1>9, <3>2, <4>1 DEF StartedInv, HasView
    <3> QED
      BY <1>7, <1>8, <3>1, <3>2
  <2>2. \A p \in 1 .. Len(undo) : phase'[undo'[p].trx] \notin {"none", "begun"}
    BY <1>0, <1>5, <1>7 DEF StartedInv, HasView
  <2> QED
    BY <1>7, <2>1, <2>2 DEF StartedInv, HasView
<1>14. ASSUME NEW u \in TxIds, NEW i \in 1 .. Len(write_set'[u])
       PROVE  i \in 1 .. Len(write_set[u]) /\ write_set'[u][i] = write_set[u][i] /\ (u = t => i < L)
  <2>1. CASE u # t
    BY <1>4, <2>1
  <2>2. CASE u = t
    <3>1. i \in 1 .. L - 1 /\ i \in 1 .. L /\ i < L
      BY <1>4, <2>2
    <3> QED
      BY <1>4, <1>c, <2>2, <3>1
  <2> QED
    BY <2>1, <2>2
<1>15. ASSUME NEW u \in TxIds, NEW i \in 1 .. Len(write_set[u]), u = t => i # L
       PROVE  i \in 1 .. Len(write_set'[u]) /\ write_set'[u][i] = write_set[u][i]
  <2>1. CASE u # t
    BY <1>4, <2>1
  <2>2. CASE u = t
    <3>1. i \in 1 .. L - 1
      BY <1>4, <1>15, <1>c, <2>2
    <3> QED
      BY <1>4, <2>2, <3>1
  <2> QED
    BY <2>1, <2>2
<1>16. ASSUME NEW u \in TxIds, NotEnded(u), NEW i \in 1 .. Len(write_set[u]),
              write_set[u][i].type = "DELETE", u = t => i < L
       PROVE  /\ write_set[u][i].rid \in 1 .. Len(rows) /\ write_set[u][i].rid # r
              /\ rows'[write_set[u][i].rid] = rows[write_set[u][i].rid]
  <2>1. write_set[u][i].rid \in 1 .. Len(rows) /\ rows[write_set[u][i].rid].trx = u
    BY <1>0, <1>16 DEF KeptInv, Kept
  <2>2. write_set[u][i].rid # r
    <3>1. CASE u # t
      BY <1>7, <2>1, <3>1
    <3>2. CASE u = t
      <4>1. i < L /\ i \in 1 .. Len(write_set[t]) /\ L \in 1 .. Len(write_set[t]) /\ write_set[t][i].type = "DELETE"
            /\ write_set[t][L].rid = r
        BY <1>4, <1>16, <1>b, <1>c, <3>2
      <4>2. write_set[t][i].rid # write_set[t][L].rid
        BY <1>0, <1>2, <4>1 DEF PairInv
      <4> QED
        BY <3>2, <4>1, <4>2
    <3> QED
      BY <3>1, <3>2
  <2> QED
    BY <1>7, <2>1, <2>2
<1>17. SavedInv'
  <2> SUFFICES ASSUME NEW u \in TxIds, NotEnded(u)', NEW i \in 1 .. Len(write_set'[u]),
                      write_set'[u][i].type = "DELETE"
               PROVE  /\ undo[rows'[write_set'[u][i].rid].roll].trx = write_set'[u][i].prev_trx
                      /\ undo[rows'[write_set'[u][i].rid].roll].roll = write_set'[u][i].prev_roll
    BY <1>7 DEF SavedInv
  <2>1. i \in 1 .. Len(write_set[u]) /\ write_set'[u][i] = write_set[u][i] /\ (u = t => i < L) /\ NotEnded(u)
    BY <1>6, <1>14
  <2>2. rows'[write_set[u][i].rid] = rows[write_set[u][i].rid]
    BY <1>16, <2>1
  <2> QED
    BY <1>0, <2>1, <2>2 DEF SavedInv
<1>18. MarkInv'
  <2> SUFFICES ASSUME NEW q \in 1 .. Len(rows), rows'[q].del, NotEnded(rows[q].trx)'
               PROVE  \E i \in 1 .. Len(write_set'[rows'[q].trx]) :
                         /\ write_set'[rows'[q].trx][i].rid = q
                         /\ write_set'[rows'[q].trx][i].type = "DELETE"
    BY <1>7 DEF MarkInv, NotEnded
  <2>1. q # r /\ rows'[q] = rows[q]
    BY <1>7
  <2>2. rows[q].trx \in TxIds /\ NotEnded(rows[q].trx)
    BY <1>5, <1>11, <2>1 DEF NotEnded
  <2>3. PICK i \in 1 .. Len(write_set[rows[q].trx]) :
           /\ write_set[rows[q].trx][i].rid = q
           /\ write_set[rows[q].trx][i].type = "DELETE"
    BY <1>0, <2>1, <2>2 DEF MarkInv
  <2>4. rows[q].trx = t => i # L
    BY <1>4, <1>b, <2>1, <2>3
  <2> QED
    BY <1>15, <2>1, <2>2, <2>3, <2>4
<1>19. HoldInv'
  <2> SUFFICES ASSUME NEW k \in 1 .. Len(rows), ~rows'[k].dead, NotEnded(Writer(k))'
               PROVE  Held(Writer(k), k)'
    BY <1>7 DEF HoldInv
  <2>a. PICK u : u = Writer(k)
    OBVIOUS
  <2>1. u \in TxIds /\ Writer(k)' = u /\ Base(k)' = Base(k) /\ rows'[k].row = rows[k].row
    BY <1>0, <1>10, <2>a, WriterType
  <2>2. NotEnded(u) /\ ~rows[k].dead /\ (w.type = "INSERT" => k # r)
    BY <1>5, <1>7, <1>8, <2>1 DEF NotEnded
  <2>3. Held(u, k)
    BY <1>0, <2>2, <2>a DEF HoldInv
  <2>4. PICK i \in 1 .. Len(write_set[u]) :
      /\ write_set[u][i].type = "INSERT" /\ write_set[u][i].rid = k
      /\ \A j \in 1 .. Len(write_set[u]) :
            write_set[u][j].type = "DELETE" /\ write_set[u][j].rid < k
              /\ rows[write_set[u][j].rid].row = rows[k].row => j < i
      /\ Base(k) # 0 =>
            \E j \in 1 .. i - 1 : /\ write_set[u][j].type = "DELETE"
                                  /\ rows[write_set[u][j].rid].roll = Base(k)
    BY <2>3 DEF Held
  <2>5. u = t => i # L
    BY <1>4, <1>7, <1>b, <2>2, <2>4
  <2>6. i \in 1 .. Len(write_set'[u]) /\ write_set'[u][i] = write_set[u][i] /\ (u = t => i < L)
    BY <1>14, <1>15, <2>1, <2>5
  <2>7. Len(write_set[u]) \in Nat
    BY <1>0, <2>1 DEF TableTypeOK
  <2>8. ASSUME NEW j \in 1 .. Len(write_set'[u]), write_set'[u][j].type = "DELETE",
               write_set'[u][j].rid < k, rows'[write_set'[u][j].rid].row = rows'[k].row
        PROVE  j < i
    <3>1. j \in 1 .. Len(write_set[u]) /\ write_set'[u][j] = write_set[u][j] /\ (u = t => j < L)
      BY <1>14, <2>1
    <3>2. rows'[write_set[u][j].rid] = rows[write_set[u][j].rid]
      BY <1>16, <2>1, <2>2, <2>8, <3>1
    <3> QED
      BY <2>1, <2>4, <2>8, <3>1, <3>2
  <2>9. ASSUME Base(k) # 0
        PROVE  \E j \in 1 .. i - 1 : /\ write_set'[u][j].type = "DELETE"
                                     /\ rows'[write_set'[u][j].rid].roll = Base(k)
    <3>1. PICK j \in 1 .. i - 1 : /\ write_set[u][j].type = "DELETE"
                                  /\ rows[write_set[u][j].rid].roll = Base(k)
      BY <2>4, <2>9
    <3>2. j \in 1 .. Len(write_set[u]) /\ (u = t => j < L)
      BY <1>4, <2>6, <2>7
    <3>3. u = t => j # L
      BY <1>4, <3>2
    <3>4. write_set'[u][j] = write_set[u][j]
          /\ rows'[write_set[u][j].rid] = rows[write_set[u][j].rid]
      BY <1>15, <1>16, <2>1, <2>2, <3>1, <3>2, <3>3
    <3>5. write_set'[u][j].type = "DELETE" /\ rows'[write_set'[u][j].rid].roll = Base(k)
      BY <3>1, <3>4
    <3> QED
      BY <3>5
  <2> QED
    BY <2>1, <2>4, <2>6, <2>8, <2>9 DEF Held
<1>20. LineInv'
  <2> SUFFICES ASSUME NEW s \in 1 .. Len(rows), NEW q \in 1 .. Len(rows),
                      s < q, rows'[s].row = rows'[q].row, ~rows'[s].dead, ~rows'[q].dead
               PROVE  rows'[s].del /\ Before(rows[s].trx, Writer(q))'
    BY <1>7 DEF LineInv
  <2>1. ~rows[s].dead /\ ~rows[q].dead /\ rows[s].row = rows[q].row
    BY <1>7, <1>10
  <2>2. rows[s].del /\ Before(rows[s].trx, Writer(q))
    BY <1>0, <2>1 DEF LineInv
  <2>3. CASE s # r
    BY <1>6, <1>7, <1>10, <2>2, <2>3 DEF Before
  <2>4. CASE s = r
    <3>1. w.type = "DELETE"
      BY <1>7, <1>8, <2>4
    <3>2. Before(t, Writer(q))
      BY <1>7, <2>2, <2>4
    <3>3. Writer(q) \notin CommittedTxns
      BY <1>2, <3>2 DEF Before, Views
    <3>4. Writer(q) = rows[q].trx
      <4>1. CASE rows[q].del
        BY <1>0, <3>3, <4>1, MarkedImage
      <4>2. CASE ~rows[q].del
        BY <4>2 DEF Writer
      <4> QED
        BY <4>1, <4>2
    <3>5. rows[q].trx \in TxIds /\ InFlight(rows[q].trx) /\ NotEnded(rows[q].trx)
      BY <1>0, <2>1, <3>3, <3>4, WriterKinds
    <3>6. CommittedTxns \union {rows[q].trx} \in Views
      BY <3>5 DEF Views
    <3>7. Writer(q) = t
      BY <1>2, <3>2, <3>4, <3>6 DEF Before
    <3>8. Held(t, q)
      BY <1>0, <1>2, <2>1, <3>7 DEF HoldInv
    <3>9. PICK i \in 1 .. Len(write_set[t]) :
             \A j \in 1 .. Len(write_set[t]) :
               write_set[t][j].type = "DELETE" /\ write_set[t][j].rid < q
                 /\ rows[write_set[t][j].rid].row = rows[q].row => j < i
      BY <3>8 DEF Held
    <3>10. L < i /\ i \in 1 .. L
      BY <1>4, <1>b, <1>c, <2>1, <2>4, <3>1, <3>9
    <3> QED
      BY <1>4, <3>10
  <2> QED
    BY <2>3, <2>4
<1> QED
  BY <1>1, <1>12, <1>13, <1>17, <1>18, <1>19, <1>20 DEF RefineInv

-----------------------------------------------------------------------------
(* A DELETE or an UPDATE, or the part of one that was done when it threw. *)
Wrote(t, hits, placed, v) ==
    /\ BeginStatement(t) \/ FailStatement(t)
    /\ Effect(t, hits, placed) /\ Changed(t, hits, placed, v) /\ placed \in Nat
    /\ \A r \in hits : rows[r].trx \in StatementSet(t) \union {t}

(* A hit before and after it. *)
LEMMA HitAfter ==
    ASSUME RefineInv, NEW t \in TxIds, NEW hits, NEW placed, NEW v, Wrote(t, hits, placed, v),
           NEW r \in hits
    PROVE  /\ r \in 1 .. Len(rows) /\ ~rows[r].del /\ ~rows[r].dead
           /\ rows[r].trx \in TxIds /\ HasView(rows[r].trx)
           /\ rows[r].trx = t \/ rows[r].trx \in CommittedTxns
           /\ rows[r].trx \in StatementSet(t) \union {t}
           /\ rows[r].roll \in 0 .. Len(undo)
           /\ rows[r].roll # 0 => undo[rows[r].roll].row = rows[r].row
           /\ rows'[r].trx = t /\ rows'[r].del /\ ~rows'[r].dead
           /\ rows'[r].val = rows[r].val /\ rows'[r].row = rows[r].row
           /\ rows'[r].roll \in Len(undo) + 1 .. Len(undo')
           /\ Copies(undo'[rows'[r].roll], rows[r])
<1>1. TableInv /\ HeadInv /\ StartedInv /\ TableTypeOK
  BY DEF RefineInv, TableInv
<1>2. r \in 1 .. Len(rows) /\ ~rows[r].del /\ ~rows[r].dead
      /\ (rows[r].trx = t \/ txn_state[rows[r].trx] = "COMMITTED")
  BY DEF Wrote, Effect, HitsOK
<1>3. rows[r].trx \in TxIds
  BY <1>1, <1>2, FieldTypes
<1>4. HasView(rows[r].trx) /\ rows[r].roll \in 0 .. Len(undo)
      /\ (rows[r].roll # 0 => undo[rows[r].roll].row = rows[r].row)
  BY <1>1, <1>2 DEF StartedInv, HeadInv, RecordOK
<1>5. rows'[r].trx = t /\ rows'[r].del /\ ~rows'[r].dead
  BY DEF Wrote, Effect, NewRows
<1>6. rows'[r].val = rows[r].val /\ rows'[r].row = rows[r].row /\ rows'[r].roll = ImagePtr(hits, r)
  BY DEF Wrote, Changed, PointsToImage
<1>7. ImagePtr(hits, r) \in Len(undo) + 1 .. Len(undo') /\ Copies(undo'[ImagePtr(hits, r)], rows[r])
  BY DEF Wrote, Changed, Saved
<1>8. rows[r].trx = t \/ rows[r].trx \in CommittedTxns
  BY <1>2, <1>3 DEF CommittedTxns
<1>9. rows[r].trx \in StatementSet(t) \union {t}
  BY DEF Wrote
<1> QED
  BY <1>2, <1>3, <1>4, <1>5, <1>6, <1>7, <1>8, <1>9

(* A new record is the successor of a hit. *)
LEMMA NewAfter ==
    ASSUME RefineInv, NEW t \in TxIds, NEW hits, NEW placed, NEW v, Wrote(t, hits, placed, v),
           NEW n \in New(placed)
    PROVE  /\ Origin(hits, n) \in hits
           /\ n \in 1 .. Len(rows') /\ n \notin 1 .. Len(rows) /\ n > Len(rows)
           /\ rows'[n].trx = t /\ ~rows'[n].del /\ ~rows'[n].dead
           /\ rows'[n].roll = rows'[Origin(hits, n)].roll
           /\ rows'[n].row = rows[Origin(hits, n)].row /\ rows'[n].val = v
<1>1. TableTypeOK /\ Effect(t, hits, placed) /\ placed \in Nat
  BY DEF RefineInv, TableInv, Wrote
<1>2. n \in 1 .. Len(rows') /\ Len(rows) \in Nat
  BY <1>1, EffectRows
<1>3. n > Len(rows) /\ n \notin 1 .. Len(rows)
  BY <1>1, <1>2 DEF New
<1>4. rows'[n].trx = t /\ ~rows'[n].del /\ ~rows'[n].dead
  BY DEF Wrote, Effect, NewRows
<1>5. Origin(hits, n) \in hits /\ rows'[n].roll = ImagePtr(hits, Origin(hits, n))
      /\ rows'[n].row = rows[Origin(hits, n)].row /\ rows'[n].val = v
  BY DEF Wrote, Changed, Replaced
<1>6. rows'[Origin(hits, n)].roll = ImagePtr(hits, Origin(hits, n))
  BY <1>5 DEF Wrote, Changed, PointsToImage
<1> QED
  BY <1>2, <1>3, <1>4, <1>5, <1>6

(* The other records are untouched, and so are the images. *)
LEMMA OthersAfter ==
    ASSUME RefineInv, NEW t \in TxIds, NEW hits, NEW placed, NEW v, Wrote(t, hits, placed, v)
    PROVE  /\ Len(rows) \in Nat /\ Len(undo) \in Nat /\ placed \in Nat
           /\ Len(rows') = Len(rows) + placed /\ Len(undo') \in Nat /\ Len(undo) <= Len(undo')
           /\ hits \subseteq 1 .. Len(rows)
           /\ \A r \in 1 .. Len(rows) : r \notin hits => rows'[r] = rows[r]
           /\ \A r \in 1 .. Len(rows') : r \in 1 .. Len(rows) \/ r \in New(placed)
           /\ \A r \in 1 .. Len(rows) : r \in 1 .. Len(rows') /\ r \notin New(placed)
           /\ \A q \in 1 .. Len(undo) : undo'[q] = undo[q] /\ q \in 1 .. Len(undo')
           /\ \A q \in 1 .. Len(undo') :
                 q \notin 1 .. Len(undo) => \E r \in hits : q = rows'[r].roll
<1>1. TableTypeOK /\ Effect(t, hits, placed) /\ placed \in Nat /\ Saved(hits)
  BY DEF RefineInv, TableInv, Wrote, Changed
<1>2. Len(undo) \in Nat /\ Len(rows) \in Nat
  BY <1>1, FieldTypes
<1>3. Cardinality(hits) \in Nat
  BY <1>1, HitRecords DEF Effect
<1>4. Len(undo') = Len(undo) + Cardinality(hits) /\ \A q \in 1 .. Len(undo) : undo'[q] = undo[q]
  BY <1>1 DEF Saved
<1>5. Len(undo') \in Nat /\ Len(undo) <= Len(undo')
  BY <1>2, <1>3, <1>4
<1>6. /\ Len(rows') = Len(rows) + placed
      /\ hits \subseteq 1 .. Len(rows)
      /\ \A r \in 1 .. Len(rows) : r \notin hits => rows'[r] = rows[r]
      /\ \A r \in 1 .. Len(rows) : r \in 1 .. Len(rows') /\ r \notin New(placed)
  BY <1>1, EffectRows DEF Effect, NewRows
<1>7. \A r \in 1 .. Len(rows') : r \in 1 .. Len(rows) \/ r \in New(placed)
  BY <1>1, <1>2, <1>6 DEF New
<1>8. \A q \in 1 .. Len(undo) : undo'[q] = undo[q] /\ q \in 1 .. Len(undo')
  BY <1>2, <1>4, <1>5
<1>9. ASSUME NEW q \in 1 .. Len(undo'), q \notin 1 .. Len(undo)
      PROVE  \E r \in hits : q = rows'[r].roll
  <2>1. q \in Len(undo) + 1 .. Len(undo')
    BY <1>2, <1>5, <1>9
  <2>2. PICK r \in hits : q = ImagePtr(hits, r)
    BY <1>1, <2>1 DEF Saved
  <2>3. rows'[r].roll = ImagePtr(hits, r)
    BY DEF Wrote, Changed, PointsToImage
  <2> QED
    BY <2>2, <2>3
<1> QED
  BY <1>1, <1>2, <1>5, <1>6, <1>7, <1>8, <1>9

(* What every record keeps: its row, its writer, the image before it. *)
LEMMA KeepsWriter ==
    ASSUME RefineInv, NEW t \in TxIds, NEW hits, NEW placed, NEW v, Wrote(t, hits, placed, v),
           NEW r \in 1 .. Len(rows)
    PROVE  /\ Writer(r)' = Writer(r) /\ Base(r)' = Base(r)
           /\ rows'[r].row = rows[r].row /\ rows'[r].val = rows[r].val
           /\ rows'[r].dead <=> rows[r].dead
<1>1. CASE r \in hits
  <2>1. /\ ~rows[r].del /\ ~rows[r].dead /\ rows'[r].del /\ ~rows'[r].dead
        /\ rows'[r].val = rows[r].val /\ rows'[r].row = rows[r].row
        /\ Copies(undo'[rows'[r].roll], rows[r])
    BY <1>1, HitAfter
  <2>2. Writer(r) = rows[r].trx /\ Base(r) = rows[r].roll
    BY <2>1 DEF Writer, Base
  <2>3. Writer(r)' = undo'[rows'[r].roll].trx /\ Base(r)' = undo'[rows'[r].roll].roll
    BY <2>1 DEF Writer, Base
  <2> QED
    BY <2>1, <2>2, <2>3 DEF Copies
<1>2. CASE r \notin hits
  <2>1. rows'[r] = rows[r]
    BY <1>2, OthersAfter
  <2>2. rows[r].del => rows[r].roll \in 1 .. Len(undo)
    BY MarkedImage DEF RefineInv
  <2>3. rows[r].del => undo'[rows[r].roll] = undo[rows[r].roll]
    BY <2>2, OthersAfter
  <2> QED
    BY <2>1, <2>3 DEF Writer, Base
<1> QED
  BY <1>1, <1>2

(* A hit is the newest record of its row that is alive. *)
LEMMA HitIsLast ==
    ASSUME RefineInv, NEW t, NEW hits, HitsOK(t, hits), NEW r \in hits,
           NEW s \in 1 .. Len(rows), rows[s].row = rows[r].row, ~rows[s].dead, s # r
    PROVE  s < r /\ rows[s].del /\ Before(rows[s].trx, rows[r].trx) /\ s \notin hits
<1>1. r \in 1 .. Len(rows) /\ ~rows[r].del /\ ~rows[r].dead /\ LineInv /\ TableTypeOK
  BY DEF HitsOK, RefineInv, TableInv
<1>2. Len(rows) \in Nat
  BY <1>1, FieldTypes
<1>3. s < r
  BY <1>1, <1>2 DEF LineInv
<1>4. rows[s].del /\ Before(rows[s].trx, Writer(r))
  BY <1>1, <1>3 DEF LineInv
<1>5. Writer(r) = rows[r].trx
  BY <1>1 DEF Writer
<1>6. s \notin hits
  BY <1>4 DEF HitsOK
<1> QED
  BY <1>3, <1>4, <1>5, <1>6

(* The images are still well-formed, and so are the records. *)
LEMMA WroteHead ==
    ASSUME RefineInv, NEW t \in TxIds, NEW hits, NEW placed, NEW v, Wrote(t, hits, placed, v)
    PROVE  HeadInv'
<1>0. TableInv /\ HeadInv /\ TxnInv /\ (BeginStatement(t) \/ FailStatement(t))
  BY DEF RefineInv, TableInv, Wrote
<1>1. CommittedTxns' = CommittedTxns
  BY <1>0, StatementFacts
<1>2. /\ Len(rows) \in Nat /\ Len(undo) \in Nat /\ Len(undo') \in Nat /\ Len(undo) <= Len(undo')
      /\ \A r \in 1 .. Len(rows) : r \notin hits => rows'[r] = rows[r]
      /\ \A q \in 1 .. Len(undo) : undo'[q] = undo[q]
  BY OthersAfter
<1>3. ASSUME NEW q \in 0 .. Len(undo), q # 0 PROVE undo'[q] = undo[q]
  <2>1. q \in 1 .. Len(undo)
    BY <1>2, <1>3
  <2> QED
    BY <1>2, <2>1
<1>4. ASSUME NEW p \in 1 .. Len(undo')
      PROVE  /\ undo'[p].roll \in 0 .. p - 1
             /\ undo'[p].roll # 0 => undo'[undo'[p].roll].row = undo'[p].row
  <2>1. CASE p \in 1 .. Len(undo)
    <3>1. /\ undo[p].roll \in 0 .. p - 1
          /\ undo[p].roll # 0 => undo[undo[p].roll].row = undo[p].row
      BY <1>0, <2>1 DEF HeadInv, ImageOK
    <3>2. undo[p].roll \in 0 .. Len(undo)
      BY <1>2, <2>1, <3>1
    <3> QED
      BY <1>2, <1>3, <2>1, <3>1, <3>2
  <2>2. CASE p \notin 1 .. Len(undo)
    <3>1. PICK r \in hits : p = rows'[r].roll
      BY <2>2, OthersAfter
    <3>2. /\ rows[r].roll \in 0 .. Len(undo)
          /\ rows[r].roll # 0 => undo[rows[r].roll].row = rows[r].row
          /\ p \in Len(undo) + 1 .. Len(undo') /\ Copies(undo'[p], rows[r])
      BY <3>1, HitAfter
    <3>3. rows[r].roll \in 0 .. p - 1
      BY <1>2, <3>2
    <3> QED
      BY <1>3, <3>2, <3>3 DEF Copies
  <2> QED
    BY <2>1, <2>2
<1>5. ASSUME NEW r \in 1 .. Len(rows) PROVE rows[r].row \in 1 .. r
  BY <1>0 DEF HeadInv, RecordOK
<1>6. ASSUME NEW r \in hits
      PROVE  /\ rows'[r].roll \in 0 .. Len(undo') /\ rows'[r].roll # 0
             /\ undo'[rows'[r].roll].row = rows[r].row
             /\ undo'[rows'[r].roll].val = rows[r].val
             /\ undo'[rows'[r].roll].trx = t \/ undo'[rows'[r].roll].trx \in CommittedTxns
  <2>1. /\ rows'[r].roll \in Len(undo) + 1 .. Len(undo') /\ Copies(undo'[rows'[r].roll], rows[r])
        /\ rows[r].trx = t \/ rows[r].trx \in CommittedTxns
    BY HitAfter
  <2>2. rows'[r].roll \in 0 .. Len(undo') /\ rows'[r].roll # 0
    BY <1>2, <2>1
  <2> QED
    BY <2>1, <2>2 DEF Copies
<1>7. ASSUME NEW r \in 1 .. Len(rows') PROVE RecordOK(r)'
  <2>1. CASE r \in hits
    <3>1. /\ r \in 1 .. Len(rows) /\ rows'[r].trx = t /\ rows'[r].del /\ ~rows'[r].dead
          /\ rows'[r].val = rows[r].val /\ rows'[r].row = rows[r].row
      BY <2>1, HitAfter
    <3> QED
      BY <1>1, <1>5, <1>6, <2>1, <3>1 DEF RecordOK
  <2>2. CASE r \in 1 .. Len(rows) /\ r \notin hits
    <3>1. rows'[r] = rows[r] /\ RecordOK(r)
      BY <1>0, <1>2, <2>2 DEF HeadInv
    <3>2. rows[r].roll \in 0 .. Len(undo)
      BY <3>1 DEF RecordOK
    <3>3. rows[r].roll \in 0 .. Len(undo')
      BY <1>2, <3>2
    <3>4. rows[r].roll # 0 => undo'[rows[r].roll] = undo[rows[r].roll]
      BY <1>3, <3>2
    <3> QED
      BY <1>1, <3>1, <3>3, <3>4 DEF RecordOK
  <2>3. CASE r \in New(placed)
    <3> DEFINE o == Origin(hits, r)
    <3>1. /\ o \in hits /\ r > Len(rows) /\ ~rows'[r].del /\ ~rows'[r].dead
          /\ rows'[r].roll = rows'[o].roll /\ rows'[r].row = rows[o].row
      BY <2>3, NewAfter
    <3> HIDE DEF o
    <3>2. o \in 1 .. Len(rows)
      BY <3>1, HitAfter
    <3>3. rows[o].row \in 1 .. r
      BY <1>2, <1>5, <3>1, <3>2
    <3> QED
      BY <1>6, <3>1, <3>3 DEF RecordOK
  <2> QED
    BY <2>1, <2>2, <2>3, OthersAfter
<1> QED
  BY <1>4, <1>7 DEF HeadInv, ImageOK

(* Whoever wrote something has its view. *)
LEMMA WroteStarted ==
    ASSUME RefineInv, NEW t \in TxIds, NEW hits, NEW placed, NEW v, Wrote(t, hits, placed, v)
    PROVE  StartedInv'
<1>0. TableInv /\ StartedInv /\ TxnInv /\ TableTypeOK /\ (BeginStatement(t) \/ FailStatement(t))
  BY DEF RefineInv, TableInv, Wrote
<1>1. phase[t] = "running" /\ \A u \in TxIds : HasView(u)' <=> HasView(u)
  BY <1>0, StatementFacts
<1>2. ASSUME NEW u \in TxIds, HasView(u) PROVE phase'[u] \notin {"none", "begun"}
  BY <1>1, <1>2 DEF HasView
<1>3. HasView(t)
  BY <1>1 DEF HasView
<1>4. ASSUME NEW p \in 1 .. Len(undo') PROVE phase'[undo'[p].trx] \notin {"none", "begun"}
  <2>1. CASE p \in 1 .. Len(undo)
    <3>1. undo'[p] = undo[p]
      BY <2>1, OthersAfter
    <3>2. undo[p].trx \in TxIds
      BY <1>0, <2>1, FieldTypes
    <3>3. HasView(undo[p].trx)
      BY <1>0, <2>1 DEF StartedInv
    <3> QED
      BY <1>2, <3>1, <3>2, <3>3
  <2>2. CASE p \notin 1 .. Len(undo)
    <3>1. PICK r \in hits : p = rows'[r].roll
      BY <2>2, OthersAfter
    <3>2. rows[r].trx \in TxIds /\ HasView(rows[r].trx) /\ Copies(undo'[p], rows[r])
      BY <3>1, HitAfter
    <3> QED
      BY <1>2, <3>2 DEF Copies
  <2> QED
    BY <2>1, <2>2
<1>5. ASSUME NEW r \in 1 .. Len(rows') PROVE phase'[rows'[r].trx] \notin {"none", "begun"}
  <2>1. CASE r \in hits
    BY <1>2, <1>3, <2>1, HitAfter
  <2>2. CASE r \in New(placed)
    BY <1>2, <1>3, <2>2, NewAfter
  <2>3. CASE r \in 1 .. Len(rows) /\ r \notin hits
    <3>1. rows'[r] = rows[r]
      BY <2>3, OthersAfter
    <3>2. rows[r].trx \in TxIds
      BY <1>0, <2>3, FieldTypes
    <3>3. HasView(rows[r].trx)
      BY <1>0, <2>3 DEF StartedInv
    <3> QED
      BY <1>2, <3>1, <3>2, <3>3
  <2> QED
    BY <2>1, <2>2, <2>3, OthersAfter
<1> QED
  BY <1>4, <1>5 DEF StartedInv, HasView

(* The write sets after it: t's has grown, by entries of hits and new records. *)
LEMMA WroteEntries ==
    ASSUME RefineInv, NEW t \in TxIds, NEW hits, NEW placed, NEW v, Wrote(t, hits, placed, v),
           NEW u \in TxIds
    PROVE  /\ Len(write_set[u]) \in Nat /\ Len(write_set'[u]) \in Nat
           /\ \A i \in 1 .. Len(write_set[u]) :
                 i \in 1 .. Len(write_set'[u]) /\ write_set'[u][i] = write_set[u][i]
           /\ \A i \in 1 .. Len(write_set'[u]) :
                 \/ i \in 1 .. Len(write_set[u])
                 \/ /\ u = t /\ i \in Len(write_set[t]) + 1 .. Len(write_set'[t])
                    /\ EntryOf(write_set'[u][i], hits, placed)
                    /\ write_set'[u][i].type = "DELETE" =>
                         write_set'[u][i].prev_roll = rows[write_set'[u][i].rid].roll
<1>1. TableInv /\ TableTypeOK /\ Effect(t, hits, placed) /\ NewWrites(t, hits, placed) /\ EntriesSave(t)
  BY DEF RefineInv, TableInv, Wrote, Effect, Changed
<1>2. CASE u # t
  <2>1. write_set'[u] = write_set[u]
    BY <1>1, <1>2 DEF NewWrites
  <2>2. Len(write_set[u]) \in Nat
    BY <1>1 DEF TableTypeOK
  <2> QED
    BY <2>1, <2>2
<1>3. CASE u = t
  <2>1. /\ Len(write_set[t]) \in Nat /\ Len(write_set'[t]) \in Nat
        /\ Len(write_set[t]) <= Len(write_set'[t])
        /\ \A i \in 1 .. Len(write_set[t]) : write_set'[t][i] = write_set[t][i]
        /\ \A j \in Len(write_set[t]) + 1 .. Len(write_set'[t]) :
              EntryOf(write_set'[t][j], hits, placed)
    BY <1>1 DEF NewWrites
  <2>2. \A i \in 1 .. Len(write_set[t]) : i \in 1 .. Len(write_set'[t])
    BY <2>1
  <2>3. \A i \in 1 .. Len(write_set'[t]) :
           i \in 1 .. Len(write_set[t]) \/ i \in Len(write_set[t]) + 1 .. Len(write_set'[t])
    BY <2>1
  <2>4. \A j \in Len(write_set[t]) + 1 .. Len(write_set'[t]) :
           write_set'[t][j].type = "DELETE" =>
             write_set'[t][j].prev_roll = rows[write_set'[t][j].rid].roll
    BY <1>1 DEF EntriesSave
  <2> QED
    BY <1>3, <2>1, <2>2, <2>3, <2>4
<1> QED
  BY <1>2, <1>3

(* An entry that was there names a record that is still what it was, or,   *)
(* of an INSERT, was marked.                                               *)
LEMMA EntryAfter ==
    ASSUME RefineInv, NEW t \in TxIds, NEW hits, NEW placed, NEW v, Wrote(t, hits, placed, v),
           NEW u \in TxIds, NotEnded(u), NEW i \in 1 .. Len(write_set[u])
    PROVE  LET w == write_set[u][i]
           IN  /\ w.rid \in 1 .. Len(rows) /\ ~rows[w.rid].dead /\ rows[w.rid].trx = u
               /\ rows'[w.rid].row = rows[w.rid].row
               /\ w.type = "DELETE" => /\ rows[w.rid].del /\ w.rid \notin hits
                                       /\ rows'[w.rid] = rows[w.rid]
                                       /\ rows[w.rid].roll \in 1 .. Len(undo)
                                       /\ undo'[rows[w.rid].roll] = undo[rows[w.rid].roll]
<1> DEFINE w == write_set[u][i]
<1>1. /\ w.rid \in 1 .. Len(rows) /\ rows[w.rid].trx = u /\ ~rows[w.rid].dead
      /\ w.type = "DELETE" => rows[w.rid].del
  BY DEF RefineInv, TableInv, KeptInv, Kept
<1> HIDE DEF w
<1>2. rows'[w.rid].row = rows[w.rid].row
  BY <1>1, KeepsWriter
<1>3. ASSUME w.type = "DELETE"
      PROVE  /\ w.rid \notin hits /\ rows'[w.rid] = rows[w.rid]
             /\ rows[w.rid].roll \in 1 .. Len(undo)
             /\ undo'[rows[w.rid].roll] = undo[rows[w.rid].roll]
  <2>1. rows[w.rid].del
    BY <1>1, <1>3
  <2>2. w.rid \notin hits
    BY <2>1, HitAfter
  <2>3. rows[w.rid].roll \in 1 .. Len(undo)
    BY <1>1, <2>1, MarkedImage DEF RefineInv
  <2> QED
    BY <1>1, <2>2, <2>3, OthersAfter
<1> QED
  BY <1>1, <1>2, <1>3 DEF w

(* What a roll-back restores is in the image. *)
LEMMA WroteSaved ==
    ASSUME RefineInv, NEW t \in TxIds, NEW hits, NEW placed, NEW v, Wrote(t, hits, placed, v)
    PROVE  SavedInv'
<1> SUFFICES ASSUME NEW u \in TxIds, NotEnded(u)', NEW i \in 1 .. Len(write_set'[u]),
                    write_set'[u][i].type = "DELETE"
             PROVE  /\ undo'[rows'[write_set'[u][i].rid].roll].trx = write_set'[u][i].prev_trx
                    /\ undo'[rows'[write_set'[u][i].rid].roll].roll = write_set'[u][i].prev_roll
  BY DEF SavedInv
<1>0. TxnInv /\ SavedInv /\ (BeginStatement(t) \/ FailStatement(t))
  BY DEF RefineInv, TableInv, Wrote
<1>1. NotEnded(u)
  BY <1>0, StatementFacts DEF NotEnded
<1> DEFINE w == write_set'[u][i]
<1>2. CASE i \in 1 .. Len(write_set[u])
  <2>1. w = write_set[u][i]
    BY <1>2, WroteEntries
  <2>2. undo[rows[w.rid].roll].trx = w.prev_trx /\ undo[rows[w.rid].roll].roll = w.prev_roll
    BY <1>0, <1>1, <1>2, <2>1 DEF SavedInv
  <2>3. rows'[w.rid] = rows[w.rid] /\ undo'[rows[w.rid].roll] = undo[rows[w.rid].roll]
    BY <1>1, <1>2, <2>1, EntryAfter
  <2> QED
    BY <2>2, <2>3
<1>3. CASE i \notin 1 .. Len(write_set[u])
  <2>1. EntryOf(w, hits, placed) /\ w.type = "DELETE" /\ w.prev_roll = rows[w.rid].roll
    BY <1>3, WroteEntries
  <2> HIDE DEF w
  <2>2. w.rid \in hits /\ w.prev_trx = rows[w.rid].trx
    BY <2>1 DEF EntryOf
  <2>3. Copies(undo'[rows'[w.rid].roll], rows[w.rid])
    BY <2>2, HitAfter
  <2>4. undo'[rows'[w.rid].roll].trx = w.prev_trx /\ undo'[rows'[w.rid].roll].roll = w.prev_roll
    BY <2>1, <2>2, <2>3 DEF Copies
  <2> QED
    BY <2>4 DEF w
<1> QED
  BY <1>2, <1>3

(* A mark is in the write set of its transaction. *)
LEMMA WroteMark ==
    ASSUME RefineInv, NEW t \in TxIds, NEW hits, NEW placed, NEW v, Wrote(t, hits, placed, v)
    PROVE  MarkInv'
<1> SUFFICES ASSUME NEW r \in 1 .. Len(rows'), rows'[r].del, NotEnded(rows[r].trx)'
             PROVE  \E i \in 1 .. Len(write_set'[rows'[r].trx]) :
                       /\ write_set'[rows'[r].trx][i].rid = r
                       /\ write_set'[rows'[r].trx][i].type = "DELETE"
  BY DEF MarkInv, NotEnded
<1>0. TxnInv /\ MarkInv /\ TableTypeOK /\ NewWrites(t, hits, placed) /\ (BeginStatement(t) \/ FailStatement(t))
  BY DEF RefineInv, TableInv, Wrote, Effect
<1>1. CASE r \in hits
  <2>1. rows'[r].trx = t /\ r \in 1 .. Len(rows)
    BY <1>1, HitAfter
  <2>2. PICK j \in Len(write_set[t]) + 1 .. Len(write_set'[t]) : write_set'[t][j].rid = r
    BY <1>0, <1>1 DEF NewWrites
  <2>3. EntryOf(write_set'[t][j], hits, placed)
    BY <1>0 DEF NewWrites
  <2>4. r \notin New(placed)
    BY <2>1, OthersAfter
  <2>5. write_set'[t][j].type = "DELETE"
    BY <2>2, <2>3, <2>4 DEF EntryOf
  <2>6. j \in 1 .. Len(write_set'[t])
    <3>1. Len(write_set[t]) \in Nat /\ Len(write_set'[t]) \in Nat
      BY WroteEntries
    <3> QED
      BY <3>1
  <2> QED
    BY <2>1, <2>2, <2>5, <2>6
<1>2. CASE r \notin hits
  <2>1. r \in 1 .. Len(rows) /\ rows'[r] = rows[r]
    BY <1>2, OthersAfter, NewAfter
  <2>2. rows[r].trx \in TxIds
    BY <1>0, <2>1, FieldTypes
  <2>3. txn_state' = txn_state
    BY <1>0, StatementFacts
  <2>4. NotEnded(rows[r].trx)
    BY <2>1, <2>3 DEF NotEnded
  <2>5. PICK i \in 1 .. Len(write_set[rows[r].trx]) :
           /\ write_set[rows[r].trx][i].rid = r
           /\ write_set[rows[r].trx][i].type = "DELETE"
    BY <1>0, <2>1, <2>4 DEF MarkInv
  <2>6. i \in 1 .. Len(write_set'[rows[r].trx]) /\ write_set'[rows[r].trx][i] = write_set[rows[r].trx][i]
    BY <2>2, <2>5, WroteEntries
  <2> QED
    BY <2>1, <2>5, <2>6
<1> QED
  BY <1>1, <1>2

(* Every version that is not committed is held by the write set. *)
LEMMA WroteHold ==
    ASSUME RefineInv, NEW t \in TxIds, NEW hits, NEW placed, NEW v, Wrote(t, hits, placed, v)
    PROVE  HoldInv'
<1> SUFFICES ASSUME NEW k \in 1 .. Len(rows'), ~rows'[k].dead, NotEnded(Writer(k))'
             PROVE  Held(Writer(k), k)'
  BY DEF HoldInv
<1>0. /\ TableInv /\ HeadInv /\ StartedInv /\ HoldInv /\ TxnInv /\ TableTypeOK
      /\ HitsOK(t, hits) /\ NewWrites(t, hits, placed) /\ (BeginStatement(t) \/ FailStatement(t))
      /\ Replaced(t, hits, placed, v)
  BY DEF RefineInv, TableInv, Wrote, Effect, Changed
<1>1. txn_state' = txn_state
  BY <1>0, StatementFacts
<1>2. CASE k \in 1 .. Len(rows)
  <2> DEFINE u == Writer(k)
  <2>1. u \in TxIds /\ Writer(k)' = u /\ Base(k)' = Base(k) /\ rows'[k].row = rows[k].row /\ ~rows[k].dead
    BY <1>0, <1>2, WriterType, KeepsWriter
  <2> HIDE DEF u
  <2>2. NotEnded(u)
    BY <1>1, <2>1 DEF NotEnded
  <2>3. Held(u, k)
    BY <1>0, <1>2, <2>1, <2>2 DEF HoldInv, u
  <2>4. PICK i \in 1 .. Len(write_set[u]) :
      /\ write_set[u][i].type = "INSERT" /\ write_set[u][i].rid = k
      /\ \A j \in 1 .. Len(write_set[u]) :
            write_set[u][j].type = "DELETE" /\ write_set[u][j].rid < k
              /\ rows[write_set[u][j].rid].row = rows[k].row => j < i
      /\ Base(k) # 0 =>
            \E j \in 1 .. i - 1 : /\ write_set[u][j].type = "DELETE"
                                  /\ rows[write_set[u][j].rid].roll = Base(k)
    BY <2>3 DEF Held
  <2>5. i \in 1 .. Len(write_set'[u]) /\ write_set'[u][i] = write_set[u][i] /\ Len(write_set[u]) \in Nat
    BY <2>1, WroteEntries
  <2>6. \A j \in 1 .. i - 1 : j \in 1 .. Len(write_set[u])
    BY <2>5
  <2>7. ASSUME NEW j \in 1 .. Len(write_set'[u]), write_set'[u][j].type = "DELETE",
               write_set'[u][j].rid < k, rows'[write_set'[u][j].rid].row = rows'[k].row
        PROVE  j < i
    <3> DEFINE w == write_set'[u][j]
    <3>1. CASE j \in 1 .. Len(write_set[u])
      <4>1. w = write_set[u][j]
        BY <2>1, <3>1, WroteEntries
      <4>2. rows'[w.rid].row = rows[w.rid].row
        BY <2>1, <2>2, <3>1, <4>1, EntryAfter
      <4> QED
        BY <2>1, <2>4, <2>7, <3>1, <4>1, <4>2
    <3>2. CASE j \notin 1 .. Len(write_set[u])
      <4>1. EntryOf(w, hits, placed)
        BY <2>1, <3>2, WroteEntries
      <4>2. w.type = "DELETE" /\ w.rid < k /\ rows'[w.rid].row = rows'[k].row
        BY <2>7
      <4> HIDE DEF w
      <4>3. w.rid \in hits
        BY <4>1, <4>2 DEF EntryOf
      <4>4. w.rid \in 1 .. Len(rows) /\ rows'[w.rid].row = rows[w.rid].row /\ Len(rows) \in Nat
        <5>1. w.rid \in 1 .. Len(rows) /\ rows'[w.rid].row = rows[w.rid].row
          BY <4>3, HitAfter
        <5>2. Len(rows) \in Nat
          BY OthersAfter
        <5> QED
          BY ONLY <5>1, <5>2
      <4>5. rows[k].row = rows[w.rid].row /\ k # w.rid
        BY <1>2, <2>1, <4>2, <4>4
      <4>6. k < w.rid
        BY <1>0, <1>2, <2>1, <4>3, <4>5, HitIsLast
      <4> QED
        BY <1>2, <4>2, <4>4, <4>6
    <3> QED
      BY <3>1, <3>2
  <2>8. ASSUME Base(k) # 0
        PROVE  \E j \in 1 .. i - 1 : /\ write_set'[u][j].type = "DELETE"
                                     /\ rows'[write_set'[u][j].rid].roll = Base(k)
    <3>1. PICK j \in 1 .. i - 1 : /\ write_set[u][j].type = "DELETE"
                                  /\ rows[write_set[u][j].rid].roll = Base(k)
      BY <2>4, <2>8
    <3>2. j \in 1 .. Len(write_set[u])
      BY <2>6
    <3>3. rows'[write_set[u][j].rid] = rows[write_set[u][j].rid]
      BY <2>1, <2>2, <3>1, <3>2, EntryAfter
    <3>4. write_set'[u][j] = write_set[u][j]
      BY <2>1, <3>2, WroteEntries
    <3>5. write_set'[u][j].type = "DELETE" /\ rows'[write_set'[u][j].rid].roll = Base(k)
      BY <3>1, <3>3, <3>4
    <3> QED
      BY <3>5
  <2> QED
    BY <2>1, <2>4, <2>5, <2>7, <2>8 DEF Held
<1>3. CASE k \in New(placed)
  <2>a. PICK o : o = Origin(hits, k)
    OBVIOUS
  <2>b. PICK K : K = Len(write_set[t])
    OBVIOUS
  <2>1. /\ o \in hits /\ k > Len(rows) /\ k \notin 1 .. Len(rows) /\ ~rows'[k].del /\ rows'[k].trx = t
        /\ rows'[k].roll = rows'[o].roll /\ rows'[k].row = rows[o].row
    BY <1>3, <2>a, NewAfter
  <2>2. Writer(k)' = t /\ Base(k)' = rows'[o].roll
    BY <2>1 DEF Writer, Base
  <2>3. hits \subseteq 1 .. Len(rows) /\ Len(rows) \in Nat /\ \A r \in 1 .. Len(rows) : r \notin New(placed)
    BY OthersAfter
  <2>4. K \in Nat /\ Len(write_set'[t]) \in Nat
    BY <2>b, WroteEntries
  <2>5. PICK i \in K + 1 .. Len(write_set'[t]) : write_set'[t][i].rid = k
    BY <1>0, <1>3, <2>b DEF NewWrites
  <2>6. PICK d \in K + 1 .. Len(write_set'[t]) : write_set'[t][d].rid = o
    BY <1>0, <2>1, <2>b DEF NewWrites
  <2>7. \A j \in K + 1 .. Len(write_set'[t]) : EntryOf(write_set'[t][j], hits, placed)
    BY <1>0, <2>b DEF NewWrites
  <2>8. write_set'[t][i].type = "INSERT" /\ write_set'[t][d].type = "DELETE"
    BY <2>1, <2>3, <2>5, <2>6, <2>7 DEF EntryOf
  <2>9. \A j \in K + 1 .. Len(write_set'[t]) : write_set'[t][j].rid = o => j < i
    BY <1>0, <1>3, <2>5, <2>a, <2>b DEF Replaced
  <2>10. i \in 1 .. Len(write_set'[t]) /\ d \in 1 .. i - 1
    <3>1. d < i
      BY <2>6, <2>9
    <3> QED
      BY <2>4, <2>5, <2>6, <3>1
  <2>11. ASSUME NEW j \in 1 .. Len(write_set'[t]), write_set'[t][j].type = "DELETE",
                rows'[write_set'[t][j].rid].row = rows'[k].row
         PROVE  j < i
    <3> DEFINE w == write_set'[t][j]
    <3>1. CASE j \in 1 .. K
      BY <2>4, <2>5, <3>1
    <3>2. CASE j \notin 1 .. K
      <4>1. j \in K + 1 .. Len(write_set'[t])
        BY <2>4, <3>2
      <4>2. EntryOf(w, hits, placed) /\ w.type = "DELETE" /\ rows'[w.rid].row = rows'[k].row
        BY <2>7, <2>11, <4>1
      <4>3. w.rid = o => j < i
        BY <2>9, <4>1
      <4> HIDE DEF w
      <4>4. w.rid \in hits
        BY <4>2 DEF EntryOf
      <4>5. w.rid \in 1 .. Len(rows) /\ rows[w.rid].row = rows[o].row /\ ~rows[w.rid].dead
        BY <2>1, <4>2, <4>4, HitAfter
      <4>6. w.rid = o
        BY <1>0, <2>1, <4>4, <4>5, HitIsLast
      <4> QED
        BY <4>3, <4>6
    <3> QED
      BY <3>1, <3>2
  <2>12. \E j \in 1 .. i - 1 : /\ write_set'[t][j].type = "DELETE"
                               /\ rows'[write_set'[t][j].rid].roll = Base(k)'
    BY <2>2, <2>6, <2>8, <2>10
  <2> QED
    BY <2>2, <2>5, <2>8, <2>10, <2>11, <2>12 DEF Held
<1> QED
  BY <1>2, <1>3, OthersAfter

(* The records of a row that are alive: every one but the newest is marked. *)
LEMMA WroteLine ==
    ASSUME RefineInv, NEW t \in TxIds, NEW hits, NEW placed, NEW v, Wrote(t, hits, placed, v)
    PROVE  LineInv'
<1> SUFFICES ASSUME NEW s \in 1 .. Len(rows'), NEW r \in 1 .. Len(rows'),
                    s < r, rows'[s].row = rows'[r].row, ~rows'[s].dead, ~rows'[r].dead
             PROVE  rows'[s].del /\ Before(rows[s].trx, Writer(r))'
  BY DEF LineInv
<1>0. /\ LineInv /\ TxnInv /\ HitsOK(t, hits) /\ (BeginStatement(t) \/ FailStatement(t))
      /\ Replaced(t, hits, placed, v)
  BY DEF RefineInv, TableInv, Wrote, Effect, Changed
<1>1. Views' \subseteq Views /\ \A V \in Views' : t \in V => StatementSet(t) \subseteq V
  BY <1>0, StatementViews
<1>2. CASE r \in 1 .. Len(rows)
  <2>1. s \in 1 .. Len(rows)
    BY <1>2, OthersAfter
  <2>2. /\ rows'[s].row = rows[s].row /\ rows'[r].row = rows[r].row
        /\ ~rows[s].dead /\ ~rows[r].dead /\ Writer(r)' = Writer(r)
    BY <1>2, <2>1, KeepsWriter
  <2>3. rows[s].del /\ Before(rows[s].trx, Writer(r))
    BY <1>0, <1>2, <2>1, <2>2 DEF LineInv
  <2>4. rows'[s] = rows[s]
    BY <2>1, <2>3, HitAfter, OthersAfter
  <2> QED
    BY <1>1, <2>2, <2>3, <2>4 DEF Before
<1>3. CASE r \in New(placed)
  <2>a. PICK o : o = Origin(hits, r)
    OBVIOUS
  <2>1. /\ o \in hits /\ r > Len(rows) /\ ~rows'[r].del /\ rows'[r].trx = t
        /\ rows'[r].row = rows[o].row
    BY <1>3, <2>a, NewAfter
  <2>2. Writer(r)' = t
    BY <2>1 DEF Writer
  <2>3. CASE s = o
    <3>1. rows'[o].del /\ rows'[o].trx = t
      BY <2>1, HitAfter
    <3> QED
      BY <2>2, <2>3, <3>1 DEF Before
  <2>4. CASE s \in 1 .. Len(rows) /\ s # o
    <3>1. rows'[s].row = rows[s].row /\ ~rows[s].dead
      BY <2>4, KeepsWriter
    <3>2. rows[s].del /\ Before(rows[s].trx, rows[o].trx) /\ s \notin hits
      BY <1>0, <2>1, <2>4, <3>1, HitIsLast
    <3>3. rows'[s] = rows[s]
      BY <2>4, <3>2, OthersAfter
    <3>4. rows[o].trx \in StatementSet(t) \union {t}
      BY <2>1, HitAfter
    <3>5. ASSUME NEW V \in Views', t \in V PROVE rows[s].trx \in V
      BY <1>1, <3>2, <3>4, <3>5 DEF Before
    <3> QED
      BY <2>2, <3>2, <3>3, <3>5 DEF Before
  <2>5. CASE s \in New(placed)
    <3>a. PICK p : p = Origin(hits, s)
      OBVIOUS
    <3>1. p \in hits /\ rows'[s].row = rows[p].row
      BY <2>5, <3>a, NewAfter
    <3>2. rows[p].row = rows[o].row /\ p \in 1 .. Len(rows) /\ ~rows[p].dead
      BY <2>1, <3>1, HitAfter
    <3>3. p = o
      BY <1>0, <2>1, <3>1, <3>2, HitIsLast
    <3>4. s = r
      BY <1>0, <1>3, <2>5, <2>a, <3>3, <3>a DEF Replaced
    <3> QED
      BY <3>4, OthersAfter
  <2> QED
    BY <2>3, <2>4, <2>5, OthersAfter
<1> QED
  BY <1>2, <1>3, OthersAfter

(* A DELETE or UPDATE keeps the invariant. *)
LEMMA WroteRefine ==
    ASSUME RefineInv, NEW t \in TxIds, NEW hits, NEW placed, NEW v, Wrote(t, hits, placed, v), TableInv'
    PROVE  RefineInv'
BY WroteHead, WroteStarted, WroteSaved, WroteMark, WroteHold, WroteLine DEF RefineInv

(* The records that a statement takes are those its set of transactions shows. *)
LEMMA HitsSeen ==
    ASSUME TxnInv, TableTypeOK, NEW t \in TxIds, phase[t] = "running", NEW S
    PROVE  Hits(StatementView(t), S) =
             {r \in 1 .. Len(rows) : ~rows[r].del /\ rows[r].trx \in StatementSet(t) \union {t}
                                       /\ rows[r].val \in S}
<1>1. \A r \in 1 .. Len(rows) : rows[r].trx \in TxIds
  BY FieldTypes
<1>2. \A r \in 1 .. Len(rows) : IsVisible(StatementView(t), txn_state, rows[r].trx)
                                   <=> rows[r].trx \in StatementSet(t) \union {t}
  BY <1>1, StatementSees
<1> QED
  BY <1>2 DEF Hits

(* DELETE. *)
LEMMA DeleteWrote ==
    ASSUME RefineInv, NEW t \in TxIds, NEW S, DeleteRows(t, S), NEW v, NEW hits,
           hits = Hits(StatementView(t), S)
    PROVE  BeginStatement(t) /\ Wrote(t, hits, 0, v)
<1>1. BeginStatement(t) /\ TakeRows(t, hits)
  BY DEF DeleteRows
<1>2. TxnInv /\ TableTypeOK /\ DeadInv /\ RowCountExact /\ phase[t] = "running"
  BY <1>1 DEF RefineInv, TableInv, BeginStatement
<1>3. HitsOK(t, hits)
  BY <1>2, HitsAreOK
<1>4. Effect(t, hits, 0)
  BY <1>1, <1>2, <1>3, TakeCounted
<1>5. Changed(t, hits, 0, v)
  BY <1>1, <1>2, <1>3, TakeChanged
<1>6. \A r \in hits : rows[r].trx \in StatementSet(t) \union {t}
  BY <1>2, HitsSeen
<1> QED
  BY <1>1, <1>4, <1>5, <1>6 DEF Wrote

(* UPDATE. *)
LEMMA UpdateWrote ==
    ASSUME RefineInv, NEW t \in TxIds, NEW S, NEW v \in Values, UpdateRows(t, S, v), NEW hits,
           hits = Hits(StatementView(t), S)
    PROVE  BeginStatement(t) /\ Wrote(t, hits, Cardinality(hits), v)
<1>1. BeginStatement(t) /\ ReplaceRows(t, hits, Cardinality(hits), v)
  BY DEF UpdateRows
<1>2. TxnInv /\ TableTypeOK /\ DeadInv /\ RowCountExact /\ phase[t] = "running"
  BY <1>1 DEF RefineInv, TableInv, BeginStatement
<1>3. HitsOK(t, hits)
  BY <1>2, HitsAreOK
<1>4. Cardinality(hits) \in Nat
  BY <1>2, <1>3, HitRecords
<1>5. Effect(t, hits, Cardinality(hits))
  BY <1>1, <1>2, <1>3, <1>4, ReplaceCounted
<1>6. Changed(t, hits, Cardinality(hits), v)
  BY <1>1, <1>2, <1>3, <1>4, ReplaceChanged
<1>7. \A r \in hits : rows[r].trx \in StatementSet(t) \union {t}
  BY <1>2, HitsSeen
<1> QED
  BY <1>1, <1>4, <1>5, <1>6, <1>7 DEF Wrote

(* DELETE that throws has taken some of its hits. *)
LEMMA DeleteFailsWrote ==
    ASSUME RefineInv, NEW t \in TxIds, NEW S, DeleteFails(t, S), NEW v
    PROVE  FailStatement(t) /\ \E hits : Wrote(t, hits, 0, v)
<1> DEFINE all == Hits(StatementView(t), S)
<1>1. FailStatement(t)
  BY DEF DeleteFails
<1>2. PICK k \in 1 .. Cardinality(all) - 1 : TakeRows(t, FirstHits(all, k))
  BY DEF DeleteFails
<1>3. PICK hits : hits = FirstHits(all, k)
  OBVIOUS
<1>4. hits \in SUBSET all
  BY <1>3 DEF FirstHits
<1>5. TxnInv /\ TableTypeOK /\ DeadInv /\ RowCountExact /\ phase[t] = "running"
  BY <1>1 DEF RefineInv, TableInv, FailStatement
<1>6. HitsOK(t, hits)
  BY <1>4, <1>5, HitsAreOK
<1>7. Effect(t, hits, 0)
  BY <1>2, <1>3, <1>5, <1>6, TakeCounted
<1>8. Changed(t, hits, 0, v)
  BY <1>2, <1>3, <1>5, <1>6, TakeChanged
<1>9. \A r \in hits : rows[r].trx \in StatementSet(t) \union {t}
  BY <1>4, <1>5, HitsSeen
<1>10. Wrote(t, hits, 0, v)
  BY <1>1, <1>7, <1>8, <1>9 DEF Wrote
<1> QED
  BY <1>1, <1>10

(* So has UPDATE. *)
LEMMA UpdateFailsWrote ==
    ASSUME RefineInv, NEW t \in TxIds, NEW S, NEW v \in Values, UpdateFails(t, S, v)
    PROVE  FailStatement(t) /\ \E hits, placed : Wrote(t, hits, placed, v)
<1> DEFINE all == Hits(StatementView(t), S)
<1>1. FailStatement(t)
  BY DEF UpdateFails
<1>2. PICK k \in 1 .. Cardinality(all) :
         \E p \in {k - 1} \union ({k} \ {Cardinality(all)}) : ReplaceRows(t, FirstHits(all, k), p, v)
  BY DEF UpdateFails
<1>3. PICK placed \in {k - 1} \union ({k} \ {Cardinality(all)}) :
         ReplaceRows(t, FirstHits(all, k), placed, v)
  BY <1>2
<1>4. TxnInv /\ TableTypeOK /\ DeadInv /\ RowCountExact /\ phase[t] = "running"
  BY <1>1 DEF RefineInv, TableInv, FailStatement
<1>5. HitsOK(t, all)
  BY <1>4, HitsAreOK
<1>6. PICK hits : hits = FirstHits(all, k)
  OBVIOUS
<1>7. hits \in SUBSET all
  BY <1>6 DEF FirstHits
<1> HIDE DEF all
<1>8. Cardinality(hits) = k
  <2>1. Len(rows) \in Nat /\ all \in SUBSET (1 .. Len(rows))
    BY <1>4, <1>5, FieldTypes DEF HitsOK
  <2> QED
    BY <1>6, <2>1, FirstHitsCount
<1>9. k \in Nat /\ k >= 1
  BY <1>4, <1>5, HitRecords
<1>10. placed \in Nat /\ (placed = k \/ placed = k - 1)
  BY <1>9
<1>11. HitsOK(t, hits)
  BY <1>4, <1>7, HitsAreOK DEF all
<1>12. Effect(t, hits, placed) /\ Changed(t, hits, placed, v)
  BY <1>3, <1>4, <1>6, <1>8, <1>10, <1>11, ReplaceCounted, ReplaceChanged
<1>13. \A r \in hits : rows[r].trx \in StatementSet(t) \union {t}
  BY <1>4, <1>7, HitsSeen DEF all
<1>14. Wrote(t, hits, placed, v)
  BY <1>1, <1>10, <1>12, <1>13 DEF Wrote
<1> QED
  BY <1>1, <1>14

(* Every statement keeps the invariant. *)
LEMMA ChangingRefine ==
    ASSUME RefineInv, NEW t \in TxIds, Changing(t)
    PROVE  RefineInv'
<1>1. TableInv'
  BY ChangingKeeps DEF RefineInv
<1>2. ASSUME NEW hits, NEW placed, NEW v, Wrote(t, hits, placed, v) PROVE RefineInv'
  BY <1>1, <1>2, WroteRefine
<1>3. ASSUME NEW v \in Values, InsertRow(t, v) PROVE RefineInv'
  BY <1>3, InsertRefine
<1>4. ASSUME NEW S, DeleteRows(t, S) PROVE RefineInv'
  BY <1>2, <1>4, DeleteWrote
<1>5. ASSUME NEW S, DeleteFails(t, S) PROVE RefineInv'
  BY <1>2, <1>5, DeleteFailsWrote
<1>6. ASSUME NEW S, NEW v \in Values, UpdateRows(t, S, v) PROVE RefineInv'
  BY <1>2, <1>6, UpdateWrote
<1>7. ASSUME NEW S, NEW v \in Values, UpdateFails(t, S, v) PROVE RefineInv'
  BY <1>2, <1>7, UpdateFailsWrote
<1> QED
  BY <1>3, <1>4, <1>5, <1>6, <1>7 DEF Changing

(* Every step of the engine, or none, keeps the invariant. *)
LEMMA RefineStep ==
    ASSUME RefineInv, [MVCCNext]_mvccVars
    PROVE  RefineInv'
BY MVCCCases, CallsRefine, SelectRefine, ChangingRefine, RollbackRefine, IdleRefine

(* It holds of an empty table. *)
LEMMA RefineInit == MVCCInit => RefineInv
<1> SUFFICES ASSUME MVCCInit PROVE RefineInv
  OBVIOUS
<1>1. TableInv
  BY TableInit
<1>2. rows = <<>> /\ undo = <<>> /\ write_set = [t \in TxIds |-> <<>>]
  BY DEF MVCCInit
<1>3. Len(rows) = 0 /\ Len(undo) = 0 /\ \A t \in TxIds : Len(write_set[t]) = 0
  BY <1>2
<1>4. HeadInv /\ StartedInv /\ SavedInv /\ MarkInv /\ HoldInv /\ LineInv
  BY <1>3 DEF HeadInv, StartedInv, SavedInv, MarkInv, HoldInv, LineInv
<1> QED
  BY <1>1, <1>4 DEF RefineInv

(***************************************************************************)
(* In every reachable state the records of a row form a line, of which all *)
(* but the newest alive one are marked, each by a transaction that         *)
(* everyone who sees the successor sees too, and the undo log and write    *)
(* sets hold the version before every change that has not committed.       *)
(***************************************************************************)
THEOREM RefineInvariance == MVCCSpec => []RefineInv
BY RefineInit, RefineStep, PTL DEF MVCCSpec

(* The abstract state, transaction by transaction. *)
View(t) == IF phase[t] = "running" THEN Scan(read_view[t]) ELSE {}

(* A step that gives t this status, this view and these changes. *)
Moves(t, st, vw, ad, rm) ==
    /\ Status(t)' = st /\ View(t)' = vw /\ Added(t)' = ad /\ Removed(t)' = rm
    /\ \A u \in TxIds : u # t => /\ Status(u)' = Status(u) /\ View(u)' = View(u)
                                 /\ Added(u)' = Added(u) /\ Removed(u)' = Removed(u)

(* The chains lead back. *)
LEMMA HeadRolls == TableTypeOK /\ HeadInv => RollsBack(undo)
<1> SUFFICES ASSUME TableTypeOK, HeadInv PROVE RollsBack(undo)
  OBVIOUS
<1>1. Len(undo) \in Nat
  BY FieldTypes
<1> QED
  BY <1>1 DEF RollsBack, HeadInv, ImageOK

(* Images that are added change no walk from an older one. *)
LEMMA FoundGrows ==
    ASSUME NEW V, NEW ud, NEW ue, RollsBack(ud), RollsBack(ue), Len(ud) <= Len(ue),
           \A q \in 1 .. Len(ud) : ue[q] = ud[q]
    PROVE  \A q \in 0 .. Len(ud) : Found(V, ue)[q] = Found(V, ud)[q]
<1> DEFINE f == Found(V, ud)
           g == Found(V, ue)
<1>1. Walks(f, V, ud) /\ Walks(g, V, ue)
  BY WalkExists
<1> HIDE DEF f, g
<1>2. \A q \in 0 .. Len(ud) : f[q] = g[q]
  <2>1. SameImages(ud, ue, V, V)
    BY DEF RollsBack, SameImages
  <2> QED
    BY ONLY <1>1, <2>1, RollsBack(ud), WalkUnique
<1> QED
  BY <1>2 DEF f, g

(* Views that agree on the writers show the same table. *)
LEMMA TableAgrees ==
    ASSUME TableTypeOK, HeadInv, NEW V, NEW W,
           \A p \in 1 .. Len(undo) : undo[p].trx \in V <=> undo[p].trx \in W,
           \A r \in 1 .. Len(rows) : rows[r].trx \in V <=> rows[r].trx \in W
    PROVE  TableOf(V, rows, undo) = TableOf(W, rows, undo)
<1> DEFINE f == Found(V, undo)
           g == Found(W, undo)
<1>1. RollsBack(undo)
  BY HeadRolls
<1>2. Walks(f, V, undo) /\ Walks(g, W, undo)
  BY <1>1, WalkExists
<1> HIDE DEF f, g
<1>a. Len(undo) \in Nat /\ Len(undo) <= Len(undo)
  BY <1>1 DEF RollsBack
<1>3. \A q \in 0 .. Len(undo) : f[q] = g[q]
  <2>1. SameImages(undo, undo, V, W)
    BY <1>a DEF SameImages
  <2> QED
    BY ONLY <1>1, <1>2, <2>1, WalkUnique
<1>4. ASSUME NEW r \in 1 .. Len(rows) PROVE Shown(V, rows, undo, r) = Shown(W, rows, undo, r)
  <2>1. rows[r].roll \in 0 .. Len(undo)
    BY DEF HeadInv, RecordOK
  <2>2. f[rows[r].roll] = g[rows[r].roll]
    BY <1>3, <2>1
  <2> QED
    BY <2>2 DEF Shown, f, g
<1> QED
  BY <1>4 DEF TableOf

(* A record that is not hit shows what it showed. *)
LEMMA UnhitShows ==
    ASSUME RefineInv, HeadInv', TableTypeOK', NEW t \in TxIds, NEW hits, NEW placed, NEW v,
           Wrote(t, hits, placed, v), NEW V, NEW r \in 1 .. Len(rows), r \notin hits
    PROVE  Shown(V, rows', undo', r) = Shown(V, rows, undo, r)
<1>0. TableTypeOK /\ HeadInv
  BY DEF RefineInv, TableInv
<1>1. RollsBack(undo) /\ RollsBack(undo')
  <2>1. RollsBack(undo)'
    BY HeadRolls, PTL
  <2> QED
    BY <1>0, <2>1, HeadRolls
<1>2. Len(undo) <= Len(undo') /\ (\A q \in 1 .. Len(undo) : undo'[q] = undo[q]) /\ rows'[r] = rows[r]
  BY OthersAfter
<1>3. \A q \in 0 .. Len(undo) : Found(V, undo')[q] = Found(V, undo)[q]
  BY <1>1, <1>2, FoundGrows
<1>4. rows[r].roll \in 0 .. Len(undo)
  BY <1>0 DEF HeadInv, RecordOK
<1>5. Found(V, undo')[rows[r].roll] = Found(V, undo)[rows[r].roll]
  BY <1>3, <1>4
<1> QED
  BY <1>2, <1>5 DEF Shown

(* A hit shows others what it showed them. *)
LEMMA HitShows ==
    ASSUME RefineInv, HeadInv', TableTypeOK', NEW t \in TxIds, NEW hits, NEW placed, NEW v,
           Wrote(t, hits, placed, v), NEW V, t \notin V, NEW r \in hits
    PROVE  /\ Shown(V, rows', undo', r) = Shown(V, rows, undo, r)
           /\ Shown(V, rows', undo', r) = Found(V, undo')[rows'[r].roll]
<1>0. TableTypeOK /\ HeadInv
  BY DEF RefineInv, TableInv
<1>1. RollsBack(undo) /\ RollsBack(undo')
  <2>1. RollsBack(undo)'
    BY HeadRolls, PTL
  <2> QED
    BY <1>0, <2>1, HeadRolls
<1> DEFINE f == Found(V, undo)
           g == Found(V, undo')
           p == rows'[r].roll
<1>2. /\ ~rows[r].del /\ ~rows[r].dead /\ rows[r].roll \in 0 .. Len(undo)
      /\ rows'[r].trx = t /\ ~rows'[r].dead
      /\ p \in Len(undo) + 1 .. Len(undo') /\ Copies(undo'[p], rows[r])
  BY HitAfter
<1>3. /\ Len(undo) <= Len(undo') /\ \A q \in 1 .. Len(undo) : undo'[q] = undo[q]
      /\ Len(undo) \in Nat /\ Len(undo') \in Nat
  BY OthersAfter
<1>4. \A q \in 0 .. Len(undo) : g[q] = f[q]
  BY <1>1, <1>3, FoundGrows
<1>5. Walks(g, V, undo')
  BY <1>1, WalkExists
<1>6. Shown(V, rows', undo', r) = g[p]
  BY <1>2 DEF Shown
<1>7. Shown(V, rows, undo, r) = IF rows[r].trx \in V THEN {VersionOf(rows[r])} ELSE f[rows[r].roll]
  BY <1>2 DEF Shown
<1> HIDE DEF f, g, p
<1>8. p \in 1 .. Len(undo')
  BY <1>2, <1>3
<1>9. g[p] = IF undo'[p].trx \in V THEN {VersionOf(undo'[p])} ELSE g[undo'[p].roll]
  BY ONLY <1>5, <1>8 DEF Walks
<1>10. VersionOf(undo'[p]) = VersionOf(rows[r])
  BY <1>2 DEF Copies, VersionOf
<1>11. g[p] = Shown(V, rows, undo, r)
  BY <1>2, <1>4, <1>7, <1>9, <1>10 DEF Copies
<1> QED
  BY <1>6, <1>11 DEF g, p

(* Nobody else sees the statement. *)
LEMMA WroteOthers ==
    ASSUME RefineInv, HeadInv', TableTypeOK', NEW t \in TxIds, NEW hits, NEW placed, NEW v,
           Wrote(t, hits, placed, v), NEW V, t \notin V
    PROVE  TableOf(V, rows', undo') = TableOf(V, rows, undo)
<1>1. ASSUME NEW r \in 1 .. Len(rows) PROVE Shown(V, rows', undo', r) = Shown(V, rows, undo, r)
  BY UnhitShows, HitShows
<1>2. ASSUME NEW n \in New(placed)
      PROVE  \E r \in 1 .. Len(rows) : Shown(V, rows', undo', n) = Shown(V, rows, undo, r)
  <2>a. PICK o : o = Origin(hits, n)
    OBVIOUS
  <2>1. o \in hits /\ rows'[n].trx = t /\ ~rows'[n].dead /\ rows'[n].roll = rows'[o].roll
    BY <2>a, NewAfter
  <2>2. /\ Shown(V, rows', undo', o) = Shown(V, rows, undo, o)
        /\ Shown(V, rows', undo', o) = Found(V, undo')[rows'[o].roll]
    BY <2>1, HitShows
  <2>3. Shown(V, rows', undo', n) = Found(V, undo')[rows'[n].roll]
    BY <2>1 DEF Shown
  <2>4. o \in 1 .. Len(rows)
    BY <2>1, OthersAfter
  <2> QED
    BY <2>1, <2>2, <2>3, <2>4
<1>3. /\ \A r \in 1 .. Len(rows') : r \in 1 .. Len(rows) \/ r \in New(placed)
      /\ \A r \in 1 .. Len(rows) : r \in 1 .. Len(rows')
  BY OthersAfter
<1> QED
  BY <1>1, <1>2, <1>3 DEF TableOf

(* Its transaction sees the hits gone and the new records there. *)
LEMMA WroteOwn ==
    ASSUME RefineInv, HeadInv', TableTypeOK', NEW t \in TxIds, NEW hits, NEW placed, NEW v,
           Wrote(t, hits, placed, v), NEW V, V = StatementSet(t) \union {t}
    PROVE  TableOf(V, rows', undo') =
             (TableOf(V, rows, undo) \ {VersionOf(rows[r]) : r \in hits})
               \union {VersionOf(rows'[n]) : n \in New(placed)}
<1> DEFINE out == {VersionOf(rows[r]) : r \in hits}
           in == {VersionOf(rows'[n]) : n \in New(placed)}
<1>0. TableInv /\ HeadInv /\ LineInv /\ TxnInv /\ TableTypeOK /\ (BeginStatement(t) \/ FailStatement(t))
  BY DEF RefineInv, TableInv, Wrote
<1>1. V \in Views /\ t \in V
  BY <1>0, StatementViews
<1>2. \A r \in 1 .. Len(rows) : r \notin hits => Shown(V, rows', undo', r) = Shown(V, rows, undo, r)
  BY UnhitShows
<1>3. ASSUME NEW r \in hits
      PROVE  /\ Shown(V, rows', undo', r) = {} /\ Shown(V, rows, undo, r) = {VersionOf(rows[r])}
             /\ r \in 1 .. Len(rows)
  <2>1. /\ ~rows[r].del /\ ~rows[r].dead /\ rows[r].trx \in V /\ r \in 1 .. Len(rows)
        /\ rows'[r].trx = t /\ ~rows'[r].dead /\ rows'[r].del
    BY HitAfter
  <2> QED
    BY <1>1, <2>1 DEF Shown
<1>4. ASSUME NEW n \in New(placed) PROVE Shown(V, rows', undo', n) = {VersionOf(rows'[n])}
  BY <1>1, NewAfter DEF Shown
<1>5. ASSUME NEW s \in 1 .. Len(rows), s \notin hits, NEW x \in Shown(V, rows, undo, s) PROVE x \notin out
  <2> SUFFICES ASSUME NEW r \in hits, x = VersionOf(rows[r]) PROVE FALSE
    OBVIOUS
  <2>1. ~rows[r].del /\ ~rows[r].dead /\ rows[r].trx \in V /\ r \in 1 .. Len(rows)
    BY HitAfter
  <2>2. x.row = rows[s].row
    BY <1>0, ShownRow
  <2>3. rows[s].row = rows[r].row /\ s # r
    BY <1>5, <2>2 DEF VersionOf
  <2>4. Shown(V, rows, undo, s) = {}
    BY <1>0, <1>1, <2>1, <2>3, OnlyShown
  <2> QED
    BY <2>4
<1>6. /\ \A r \in 1 .. Len(rows') : r \in 1 .. Len(rows) \/ r \in New(placed)
      /\ \A r \in 1 .. Len(rows) : r \in 1 .. Len(rows')
      /\ \A n \in New(placed) : n \in 1 .. Len(rows')
  BY OthersAfter, NewAfter
<1>7. ASSUME NEW x \in TableOf(V, rows', undo')
      PROVE  x \in (TableOf(V, rows, undo) \ out) \union in
  <2>1. PICK r \in 1 .. Len(rows') : x \in Shown(V, rows', undo', r)
    BY DEF TableOf
  <2>2. CASE r \in New(placed)
    BY <1>4, <2>1, <2>2
  <2>3. CASE r \in 1 .. Len(rows)
    <3>1. r \notin hits
      BY <1>3, <2>1
    <3>2. x \in Shown(V, rows, undo, r) /\ x \notin out
      BY <1>2, <1>5, <2>1, <2>3, <3>1
    <3>3. x \in TableOf(V, rows, undo)
      BY <2>3, <3>2 DEF TableOf
    <3> QED
      BY <3>2, <3>3
  <2> QED
    BY <1>6, <2>2, <2>3
<1>8. ASSUME NEW x \in TableOf(V, rows, undo), x \notin out PROVE x \in TableOf(V, rows', undo')
  <2>1. PICK r \in 1 .. Len(rows) : x \in Shown(V, rows, undo, r)
    BY DEF TableOf
  <2>2. r \notin hits
    BY <1>3, <1>8, <2>1
  <2>3. x \in Shown(V, rows', undo', r) /\ r \in 1 .. Len(rows')
    BY <1>2, <1>6, <2>1, <2>2
  <2> QED
    BY <2>3 DEF TableOf
<1>9. ASSUME NEW x \in in PROVE x \in TableOf(V, rows', undo')
  <2>1. PICK n \in New(placed) : x = VersionOf(rows'[n])
    OBVIOUS
  <2>2. x \in Shown(V, rows', undo', n) /\ n \in 1 .. Len(rows')
    BY <1>4, <1>6, <2>1
  <2> QED
    BY <2>2 DEF TableOf
<1> HIDE DEF out, in
<1>10. TableOf(V, rows', undo') = (TableOf(V, rows, undo) \ out) \union in
  BY <1>7, <1>8, <1>9
<1> QED
  BY <1>10 DEF out, in

-----------------------------------------------------------------------------
(* What the statement adds to its transaction's changes. *)

(* Its own versions: the hits among them are gone, the new ones are there. *)
LEMMA WroteAdded ==
    ASSUME RefineInv, NEW t \in TxIds, NEW hits, NEW placed, NEW v,
           Wrote(t, hits, placed, v), phase[t] = "running", phase'[t] = "running"
    PROVE  Added(t)' = (Added(t) \ {VersionOf(rows[r]) : r \in hits})
                          \union {VersionOf(rows'[n]) : n \in New(placed)}
<1> DEFINE out == {VersionOf(rows[r]) : r \in hits}
           in == {VersionOf(rows'[n]) : n \in New(placed)}
<1>0. HitsOK(t, hits)
  BY DEF Wrote, Effect
<1>1. ASSUME NEW x \in Added(t)' PROVE x \in (Added(t) \ out) \union in
  <2>1. PICK r \in 1 .. Len(rows') : rows'[r].trx = t /\ ~rows'[r].del /\ ~rows'[r].dead
                                       /\ x = VersionOf(rows'[r])
    BY DEF Added
  <2>2. CASE r \in New(placed)
    BY <2>1, <2>2
  <2>3. CASE r \in 1 .. Len(rows)
    <3>1. r \notin hits /\ rows'[r] = rows[r]
      BY <2>1, <2>3, HitAfter, OthersAfter
    <3>2. x \in Added(t)
      BY <2>1, <2>3, <3>1 DEF Added
    <3>3. x \notin out
      <4> SUFFICES ASSUME NEW h \in hits, x = VersionOf(rows[h]) PROVE FALSE
        OBVIOUS
      <4>1. rows[r].row = rows[h].row
        BY <2>1, <3>1 DEF VersionOf
      <4>2. rows[r].del
        BY <1>0, <2>1, <2>3, <3>1, <4>1, HitIsLast
      <4> QED
        BY <2>1, <3>1, <4>2
    <3> QED
      BY <3>2, <3>3
  <2> QED
    BY <2>2, <2>3, OthersAfter
<1>2. ASSUME NEW x \in Added(t), x \notin out PROVE x \in Added(t)'
  <2>1. PICK r \in 1 .. Len(rows) : rows[r].trx = t /\ ~rows[r].del /\ ~rows[r].dead
                                       /\ x = VersionOf(rows[r])
    BY DEF Added
  <2>2. r \notin hits
    BY <1>2, <2>1
  <2>3. rows'[r] = rows[r] /\ r \in 1 .. Len(rows')
    BY <2>2, OthersAfter
  <2> QED
    BY <2>1, <2>3 DEF Added
<1>3. ASSUME NEW x \in in PROVE x \in Added(t)'
  <2>1. PICK n \in New(placed) : x = VersionOf(rows'[n])
    OBVIOUS
  <2>2. n \in 1 .. Len(rows') /\ rows'[n].trx = t /\ ~rows'[n].del /\ ~rows'[n].dead
    BY <2>1, NewAfter
  <2> QED
    BY <2>1, <2>2 DEF Added
<1> HIDE DEF out, in
<1>4. Added(t)' = (Added(t) \ out) \union in
  BY <1>1, <1>2, <1>3
<1> QED
  BY <1>4 DEF out, in

(* The committed versions it has taken: the hits that are not its own. *)
LEMMA WroteRemoved ==
    ASSUME RefineInv, NEW t \in TxIds, NEW hits, NEW placed, NEW v,
           Wrote(t, hits, placed, v), phase[t] = "running", InFlight(t)'
    PROVE  Removed(t)' = Removed(t) \union ({VersionOf(rows[r]) : r \in hits} \ Added(t))
<1> DEFINE out == {VersionOf(rows[r]) : r \in hits}
<1>0. InFlight(t) /\ TableInv /\ HeadInv
  BY DEF InFlight, RefineInv
<1>1. ASSUME NEW x \in Removed(t)' PROVE x \in Removed(t) \union (out \ Added(t))
  <2>1. PICK r \in 1 .. Len(rows') : /\ rows'[r].trx = t /\ rows'[r].del
                                     /\ undo'[rows'[r].roll].trx # t
                                     /\ x = VersionOf(undo'[rows'[r].roll])
    BY DEF Removed
  <2>2. CASE r \in hits
    <3>1. Copies(undo'[rows'[r].roll], rows[r])
      BY <2>2, HitAfter
    <3>2. x = VersionOf(rows[r]) /\ rows[r].trx # t
      BY <2>1, <3>1 DEF Copies, VersionOf
    <3>3. x \notin Added(t)
      BY <3>2 DEF Added, VersionOf
    <3> QED
      BY <2>2, <3>2, <3>3
  <2>3. CASE r \notin hits
    <3>1. r \in 1 .. Len(rows) /\ rows'[r] = rows[r]
      BY <2>1, <2>3, OthersAfter, NewAfter
    <3>2. rows[r].roll \in 1 .. Len(undo)
      BY <1>0, <2>1, <3>1, MarkedImage
    <3>3. undo'[rows[r].roll] = undo[rows[r].roll]
      BY <3>2, OthersAfter
    <3>4. x \in Removed(t)
      BY <1>0, <2>1, <3>1, <3>3 DEF Removed
    <3> QED
      BY <3>4
  <2> QED
    BY <2>2, <2>3
<1>2. ASSUME NEW x \in Removed(t) PROVE x \in Removed(t)'
  <2>1. PICK r \in 1 .. Len(rows) : /\ rows[r].trx = t /\ rows[r].del
                                    /\ undo[rows[r].roll].trx # t
                                    /\ x = VersionOf(undo[rows[r].roll])
    BY DEF Removed
  <2>2. r \notin hits
    BY <2>1, HitAfter
  <2>3. rows'[r] = rows[r] /\ r \in 1 .. Len(rows')
    BY <2>2, OthersAfter
  <2>4. rows[r].roll \in 1 .. Len(undo)
    BY <1>0, <2>1, MarkedImage
  <2>5. undo'[rows[r].roll] = undo[rows[r].roll]
    BY <2>4, OthersAfter
  <2> QED
    BY <2>1, <2>3, <2>5 DEF Removed
<1>3. ASSUME NEW x \in out, x \notin Added(t) PROVE x \in Removed(t)'
  <2>1. PICK r \in hits : x = VersionOf(rows[r])
    OBVIOUS
  <2>2. /\ r \in 1 .. Len(rows) /\ ~rows[r].del /\ ~rows[r].dead
        /\ rows'[r].trx = t /\ rows'[r].del /\ Copies(undo'[rows'[r].roll], rows[r])
    BY HitAfter
  <2>3. rows[r].trx # t
    BY <1>3, <2>1, <2>2 DEF Added
  <2>4. undo'[rows'[r].roll].trx # t /\ x = VersionOf(undo'[rows'[r].roll])
    BY <2>1, <2>2, <2>3 DEF Copies, VersionOf
  <2>5. r \in 1 .. Len(rows')
    BY <2>2, OthersAfter
  <2> QED
    BY <2>2, <2>4, <2>5 DEF Removed
<1> HIDE DEF out
<1>4. Removed(t)' = Removed(t) \union (out \ Added(t))
  BY <1>1, <1>2, <1>3
<1> QED
  BY <1>4 DEF out

(* The changes of other transactions stay. *)
LEMMA WroteElse ==
    ASSUME RefineInv, NEW t \in TxIds, NEW hits, NEW placed, NEW v,
           Wrote(t, hits, placed, v), NEW u \in TxIds, u # t, phase'[u] = phase[u]
    PROVE  Added(u)' = Added(u) /\ Removed(u)' = Removed(u)
<1>0. TableInv /\ HeadInv /\ TxnInv
  BY DEF RefineInv, TableInv
<1>1. phase[u] = "running" => u \notin CommittedTxns
  BY <1>0, FlightKinds DEF InFlight
<1>2. ASSUME NEW r \in hits
      PROVE  /\ ~rows[r].del /\ rows'[r].trx = t
             /\ rows[r].trx = t \/ rows[r].trx \in CommittedTxns
  BY HitAfter
<1>3. \A r \in New(placed) : rows'[r].trx = t
  BY NewAfter
<1>4. /\ \A r \in 1 .. Len(rows') : r \in 1 .. Len(rows) \/ r \in New(placed)
      /\ \A r \in 1 .. Len(rows) : r \in 1 .. Len(rows') /\ (r \notin hits => rows'[r] = rows[r])
  BY OthersAfter
<1>5. ASSUME NEW r \in 1 .. Len(rows), rows[r].del
      PROVE  undo'[rows[r].roll] = undo[rows[r].roll]
  <2>1. rows[r].roll \in 1 .. Len(undo)
    BY <1>0, <1>5, MarkedImage
  <2> QED
    BY <2>1, OthersAfter
<1>6. Added(u)' = Added(u)
  <2>1. CASE phase[u] = "running"
    <3>1. {r \in 1 .. Len(rows') : rows'[r].trx = u /\ ~rows'[r].del /\ ~rows'[r].dead} =
            {r \in 1 .. Len(rows) : rows[r].trx = u /\ ~rows[r].del /\ ~rows[r].dead}
      BY <1>1, <1>2, <1>3, <1>4, <2>1
    <3>2. \A r \in 1 .. Len(rows) : rows[r].trx = u => rows'[r] = rows[r]
      BY <1>1, <1>2, <1>4, <2>1
    <3> QED
      BY <2>1, <3>1, <3>2 DEF Added
  <2>2. CASE phase[u] # "running"
    BY <2>2 DEF Added
  <2> QED
    BY <2>1, <2>2
<1>7. ASSUME NEW r \in 1 .. Len(rows'), rows'[r].trx = u, rows'[r].del
      PROVE  /\ r \in 1 .. Len(rows) /\ rows'[r] = rows[r]
             /\ undo'[rows'[r].roll] = undo[rows[r].roll]
  BY <1>2, <1>3, <1>4, <1>5, <1>7
<1>8. ASSUME NEW r \in 1 .. Len(rows), rows[r].trx = u, rows[r].del
      PROVE  /\ r \in 1 .. Len(rows') /\ rows'[r] = rows[r]
             /\ undo'[rows'[r].roll] = undo[rows[r].roll]
  BY <1>2, <1>4, <1>5, <1>8
<1>9. ASSUME NEW x \in Removed(u)' PROVE x \in Removed(u)
  BY <1>7 DEF Removed, InFlight
<1>10. ASSUME NEW x \in Removed(u) PROVE x \in Removed(u)'
  BY <1>8 DEF Removed, InFlight
<1> QED
  BY <1>6, <1>9, <1>10

-----------------------------------------------------------------------------
(* The versions that a statement changes are those it may change. *)
MayChange(t, x) ==
    \/ x \in Added(t)
    \/ x \in TableOf(CommittedTxns, rows, undo) /\ \A u \in TxIds : x \notin Removed(u)

(* What a hit holds is there for the statement, and free. *)
LEMMA HitIsFree ==
    ASSUME RefineInv, NEW t \in TxIds, phase[t] = "running", NEW r \in 1 .. Len(rows),
           ~rows[r].del, ~rows[r].dead, rows[r].trx \in StatementSet(t) \union {t}
    PROVE  /\ VersionOf(rows[r]) \in TableOf(StatementSet(t) \union {t}, rows, undo)
           /\ MayChange(t, VersionOf(rows[r]))
<1> DEFINE x == VersionOf(rows[r])
           V == StatementSet(t) \union {t}
<1>0. TableInv /\ HeadInv /\ LineInv /\ TxnInv /\ HasView(t)
  BY DEF RefineInv, TableInv, HasView
<1>1. StatementSet(t) \subseteq CommittedTxns
  BY <1>0, SnapshotCommitted DEF StatementSet
<1>2. x \in Shown(V, rows, undo, r)
  BY DEF Shown
<1>3. x \in TableOf(V, rows, undo)
  BY <1>2 DEF TableOf
<1>4. CASE rows[r].trx = t
  <2>1. x \in Added(t)
    BY <1>4 DEF Added
  <2> QED
    BY <1>3, <2>1 DEF MayChange
<1>5. CASE rows[r].trx \in CommittedTxns
  <2>1. x \in Shown(CommittedTxns, rows, undo, r)
    BY <1>5 DEF Shown
  <2>2. x \in TableOf(CommittedTxns, rows, undo)
    BY <2>1 DEF TableOf
  <2>3. \A u \in TxIds : x \notin Removed(u)
    BY <1>0, <1>5, FreeVersion
  <2> HIDE DEF x, V
  <2>4. MayChange(t, x)
    BY <2>2, <2>3 DEF MayChange
  <2> QED
    BY <1>3, <2>4 DEF x, V
<1> QED
  BY <1>1, <1>4, <1>5

(* What the statement sees and may change is what a hit holds. *)
LEMMA FreeIsHit ==
    ASSUME RefineInv, NEW t \in TxIds, phase[t] = "running", NEW x, MayChange(t, x),
           x \in TableOf(StatementSet(t) \union {t}, rows, undo)
    PROVE  \E r \in 1 .. Len(rows) : /\ ~rows[r].del /\ ~rows[r].dead
                                     /\ rows[r].trx \in StatementSet(t) \union {t}
                                     /\ x = VersionOf(rows[r])
<1> DEFINE V == StatementSet(t) \union {t}
<1>0. TableInv /\ HeadInv /\ LineInv /\ TxnInv /\ TableTypeOK
  BY DEF RefineInv, TableInv
<1>1. CASE x \in Added(t)
  BY <1>1 DEF Added
<1>2. CASE x \in TableOf(CommittedTxns, rows, undo) /\ \A u \in TxIds : x \notin Removed(u)
  <2>1. PICK r \in 1 .. Len(rows) : /\ ~rows[r].del /\ ~rows[r].dead
                                    /\ rows[r].trx \in CommittedTxns /\ x = VersionOf(rows[r])
    BY <1>2, FreeOrTaken
  <2>2. PICK s \in 1 .. Len(rows) : x \in Shown(V, rows, undo, s)
    BY DEF TableOf
  <2> HIDE DEF V
  <2>3. x.by \in V
    BY <1>0, <2>2, ShownRow
  <2>4. rows[r].trx \in V
    BY <2>1, <2>3 DEF VersionOf
  <2> QED
    BY <2>1, <2>4 DEF V
<1> QED
  BY <1>1, <1>2 DEF MayChange

(* So the hits of a statement hold what the statement should change. *)
LEMMA TargetsAreHits ==
    ASSUME RefineInv, NEW t \in TxIds, phase[t] = "running", NEW S
    PROVE  {VersionOf(rows[r]) : r \in Hits(StatementView(t), S)} =
             {x \in TableOf(StatementSet(t) \union {t}, rows, undo) : x.val \in S /\ MayChange(t, x)}
<1> DEFINE hits == Hits(StatementView(t), S)
           T == TableOf(StatementSet(t) \union {t}, rows, undo)
<1>0. TxnInv /\ TableTypeOK /\ DeadInv
  BY DEF RefineInv, TableInv
<1>1. hits = {r \in 1 .. Len(rows) : ~rows[r].del /\ rows[r].trx \in StatementSet(t) \union {t}
                                       /\ rows[r].val \in S}
  BY <1>0, HitsSeen
<1>2. HitsOK(t, hits)
  BY <1>0, HitsAreOK
<1> HIDE DEF hits
<1>3. ASSUME NEW r \in hits
      PROVE  VersionOf(rows[r]) \in T /\ VersionOf(rows[r]).val \in S /\ MayChange(t, VersionOf(rows[r]))
  <2>1. ~rows[r].dead
    BY <1>2 DEF HitsOK
  <2>2. VersionOf(rows[r]).val \in S
    BY <1>1 DEF VersionOf
  <2> QED
    BY <1>1, <2>1, <2>2, HitIsFree
<1>4. ASSUME NEW x \in T, x.val \in S, MayChange(t, x)
      PROVE  \E r \in hits : x = VersionOf(rows[r])
  <2>1. PICK r \in 1 .. Len(rows) : /\ ~rows[r].del /\ ~rows[r].dead
                                    /\ rows[r].trx \in StatementSet(t) \union {t}
                                    /\ x = VersionOf(rows[r])
    BY <1>4, FreeIsHit
  <2>2. rows[r].val \in S
    BY <1>4, <2>1 DEF VersionOf
  <2>3. r \in hits
    BY <1>1, <2>1, <2>2
  <2> QED
    BY <2>1, <2>3
<1> HIDE DEF T
<1>5. {VersionOf(rows[r]) : r \in hits} = {x \in T : x.val \in S /\ MayChange(t, x)}
  BY <1>3, <1>4
<1> QED
  BY <1>5 DEF hits, T

(* An INSERT is a version more for those who see its transaction. *)
LEMMA InsertShows ==
    ASSUME RefineInv, NEW t \in TxIds, NEW v \in Values, InsertRow(t, v), NEW V
    PROVE  TableOf(V, rows', undo') = TableOf(V, rows, undo)
             \union IF t \in V THEN {VersionOf(NewRecord(t, v, 0, Len(rows) + 1))} ELSE {}
<1>a. PICK n : n = Len(rows) + 1
  OBVIOUS
<1> DEFINE h == NewRecord(t, v, 0, n)
           more == IF t \in V THEN {VersionOf(h)} ELSE {}
<1>0. TableTypeOK /\ HeadInv
  BY DEF RefineInv, TableInv
<1>1. /\ Len(rows') = n /\ undo' = undo /\ rows'[n] = h
      /\ \A r \in 1 .. Len(rows) : rows'[r] = rows[r]
  BY <1>0, <1>a, InsertFields
<1>2. Len(rows) \in Nat
  BY <1>0, FieldTypes
<1>3. \A r \in 1 .. Len(rows) : Shown(V, rows', undo', r) = Shown(V, rows, undo, r)
  BY <1>1 DEF Shown
<1>4. Shown(V, rows', undo', n) = more
  <2>1. RollsBack(undo)
    BY <1>0, HeadRolls
  <2>2. Found(V, undo)[0] = {}
    BY <2>1, FoundUnfolds
  <2>3. h.trx = t /\ h.roll = 0 /\ ~h.del /\ ~h.dead
    BY DEF NewRecord
  <2> HIDE DEF h
  <2> QED
    BY <1>1, <2>2, <2>3 DEF Shown
<1>5. 1 .. Len(rows') = (1 .. Len(rows)) \union {n}
  BY <1>1, <1>2, <1>a
<1> HIDE DEF more
<1>6. TableOf(V, rows', undo') = TableOf(V, rows, undo) \union more
  <2>1. TableOf(V, rows', undo') = UNION {Shown(V, rows', undo', r) : r \in (1 .. Len(rows)) \union {n}}
    BY <1>5 DEF TableOf
  <2>2. ASSUME NEW x \in TableOf(V, rows', undo') PROVE x \in TableOf(V, rows, undo) \union more
    BY <1>3, <1>4, <2>1 DEF TableOf
  <2>3. ASSUME NEW x \in TableOf(V, rows, undo) PROVE x \in TableOf(V, rows', undo')
    BY <1>3, <2>1 DEF TableOf
  <2>4. ASSUME NEW x \in more PROVE x \in TableOf(V, rows', undo')
    BY <1>4, <2>1
  <2> QED
    BY <2>2, <2>3, <2>4
<1> QED
  BY <1>6, <1>a DEF more

(* A change of its transaction, and of no other. *)
LEMMA InsertAdds ==
    ASSUME RefineInv, NEW t \in TxIds, NEW v \in Values, InsertRow(t, v)
    PROVE  /\ Added(t)' = Added(t) \union {VersionOf(NewRecord(t, v, 0, Len(rows) + 1))}
           /\ \A u \in TxIds : u # t => Added(u)' = Added(u)
           /\ \A u \in TxIds : Removed(u)' = Removed(u)
<1>a. PICK n : n = Len(rows) + 1
  OBVIOUS
<1> DEFINE h == NewRecord(t, v, 0, n)
<1>0. TableTypeOK /\ phase' = phase /\ phase[t] = "running"
  BY DEF RefineInv, TableInv, InsertRow, BeginStatement
<1>1. /\ Len(rows') = n /\ undo' = undo /\ rows'[n] = h
      /\ \A r \in 1 .. Len(rows) : rows'[r] = rows[r]
  BY <1>0, <1>a, InsertFields
<1>2. Len(rows) \in Nat
  BY <1>0, FieldTypes
<1>3. h.trx = t /\ ~h.del /\ ~h.dead
  BY DEF NewRecord
<1> HIDE DEF h
<1>4. 1 .. Len(rows') = (1 .. Len(rows)) \union {n}
  BY <1>1, <1>2, <1>a
<1>5. Added(t)' = Added(t) \union {VersionOf(h)}
  <2>1. ASSUME NEW x \in Added(t)' PROVE x \in Added(t) \union {VersionOf(h)}
    BY <1>0, <1>1, <1>4 DEF Added
  <2>2. ASSUME NEW x \in Added(t) PROVE x \in Added(t)'
    BY <1>0, <1>1, <1>4 DEF Added
  <2>3. VersionOf(h) \in Added(t)'
    BY <1>0, <1>1, <1>3, <1>4 DEF Added
  <2> QED
    BY <2>1, <2>2, <2>3
<1>6. ASSUME NEW u \in TxIds, u # t PROVE Added(u)' = Added(u)
  <2>1. ASSUME NEW x \in Added(u)' PROVE x \in Added(u)
    BY <1>0, <1>1, <1>3, <1>4, <1>6 DEF Added
  <2>2. ASSUME NEW x \in Added(u) PROVE x \in Added(u)'
    BY <1>0, <1>1, <1>4 DEF Added
  <2> QED
    BY <2>1, <2>2
<1>7. ASSUME NEW u \in TxIds PROVE Removed(u)' = Removed(u)
  <2>1. ASSUME NEW x \in Removed(u)' PROVE x \in Removed(u)
    BY <1>0, <1>1, <1>3, <1>4 DEF Removed, InFlight
  <2>2. ASSUME NEW x \in Removed(u) PROVE x \in Removed(u)'
    BY <1>0, <1>1, <1>4 DEF Removed, InFlight
  <2> QED
    BY <2>1, <2>2
<1> QED
  BY <1>5, <1>6, <1>7, <1>a DEF h

(* The row of an INSERT is nobody's. *)
LEMMA InsertIsFresh ==
    ASSUME RefineInv, NEW u \in TxIds,
           NEW x \in TableOf(CommittedTxns, rows, undo) \union Added(u) \union Removed(u)
    PROVE  x.row # Len(rows) + 1
<1>0. TableTypeOK /\ HeadInv /\ TableInv
  BY DEF RefineInv, TableInv
<1>1. ASSUME NEW r \in 1 .. Len(rows) PROVE rows[r].row # Len(rows) + 1
  <2>1. rows[r].row \in 1 .. r
    BY <1>0 DEF HeadInv, RecordOK
  <2>2. Len(rows) \in Nat
    BY <1>0, FieldTypes
  <2> QED
    BY <2>1, <2>2
<1>2. CASE x \in TableOf(CommittedTxns, rows, undo)
  <2>1. PICK r \in 1 .. Len(rows) : x \in Shown(CommittedTxns, rows, undo, r)
    BY <1>2 DEF TableOf
  <2>2. x.row = rows[r].row
    BY <1>0, <2>1, ShownRow
  <2> QED
    BY <1>1, <2>2
<1>3. CASE x \in Added(u)
  <2>1. PICK r \in 1 .. Len(rows) : x = VersionOf(rows[r])
    BY <1>3 DEF Added
  <2> QED
    BY <1>1, <2>1 DEF VersionOf
<1>4. CASE x \in Removed(u)
  <2>1. PICK r \in 1 .. Len(rows) : rows[r].del /\ x = VersionOf(undo[rows[r].roll])
    BY <1>4 DEF Removed
  <2>2. undo[rows[r].roll].row = rows[r].row
    BY <1>0, <2>1, MarkedImage
  <2> QED
    BY <1>1, <2>1, <2>2 DEF VersionOf
<1> QED
  BY <1>2, <1>3, <1>4

-----------------------------------------------------------------------------
(* A roll-back step is seen by nobody. *)
LEMMA RollbackShows ==
    ASSUME RefineInv, NEW t \in TxIds, RollbackWrite(t), NEW V, t \notin V
    PROVE  TableOf(V, rows', undo') = TableOf(V, rows, undo)
<1>a. PICK w : w = write_set[t][Len(write_set[t])]
  OBVIOUS
<1>b. PICK r : r = w.rid
  OBVIOUS
<1>0. TableInv /\ HeadInv /\ TableTypeOK /\ HoldInv /\ KeptInv
  BY DEF RefineInv, TableInv
<1>1. TakenBack(t, r, w.type) /\ NotEnded(t)
  BY <1>a, <1>b, RollbackTakesBack
<1>2. /\ r \in 1 .. Len(rows) /\ rows[r].trx = t /\ ~rows[r].dead
      /\ Len(rows') = Len(rows) /\ undo' = undo
      /\ \A q \in 1 .. Len(rows) : q # r => rows'[q] = rows[q]
      /\ rows'[r].val = rows[r].val /\ rows'[r].row = rows[r].row /\ ~rows'[r].del
  BY <1>1 DEF TakenBack
<1> DEFINE f == Found(V, undo)
<1>3. Walks(f, V, undo)
  BY <1>0, HeadRolls, WalkExists
<1>4. \A q \in 1 .. Len(rows) : q # r => Shown(V, rows', undo', q) = Shown(V, rows, undo, q)
  BY <1>2 DEF Shown
<1>5. Shown(V, rows, undo, r) = f[rows[r].roll]
  BY <1>2 DEF Shown
<1>6. CASE rows[r].del /\ rows'[r].trx = undo[rows[r].roll].trx /\ ~rows'[r].dead
           /\ rows'[r].roll = undo[rows[r].roll].roll
  <2> DEFINE p == rows[r].roll
  <2>1. p \in 1 .. Len(undo) /\ undo[p].row = rows[r].row /\ undo[p].val = rows[r].val
    BY <1>0, <1>2, <1>6, MarkedImage
  <2>2. Shown(V, rows', undo', r) = IF undo[p].trx \in V THEN {VersionOf(rows'[r])} ELSE f[undo[p].roll]
    BY <1>2, <1>6 DEF Shown
  <2>3. VersionOf(rows'[r]) = VersionOf(undo[p])
    BY <1>2, <1>6, <2>1 DEF VersionOf
  <2> HIDE DEF f, p
  <2>4. f[p] = IF undo[p].trx \in V THEN {VersionOf(undo[p])} ELSE f[undo[p].roll]
    BY ONLY <1>3, <2>1 DEF Walks
  <2>5. Shown(V, rows', undo', r) = Shown(V, rows, undo, r)
    BY <1>5, <2>2, <2>3, <2>4 DEF p
  <2> QED
    BY <1>2, <1>4, <2>5 DEF TableOf
<1>7. CASE ~rows[r].del /\ rows'[r].dead
  <2>1. Shown(V, rows', undo', r) = {}
    BY <1>7 DEF Shown
  <2>2. ASSUME NEW x \in Shown(V, rows, undo, r)
        PROVE  \E s \in 1 .. Len(rows) : s # r /\ x \in Shown(V, rows, undo, s)
    <3>1. Writer(r) = t /\ Base(r) = rows[r].roll
      BY <1>2, <1>7 DEF Writer, Base
    <3>2. Held(t, r)
      BY <1>0, <1>1, <1>2, <3>1 DEF HoldInv
    <3> HIDE DEF f
    <3>3. Base(r) # 0
      <4>1. f[0] = {}
        BY ONLY <1>3 DEF Walks
      <4> QED
        BY <1>5, <2>2, <3>1, <4>1
    <3>4. PICK i \in 1 .. Len(write_set[t]) :
             \E j \in 1 .. i - 1 : /\ write_set[t][j].type = "DELETE"
                                   /\ rows[write_set[t][j].rid].roll = Base(r)
      BY <3>2, <3>3 DEF Held
    <3>5. PICK j \in 1 .. i - 1 : /\ write_set[t][j].type = "DELETE"
                                  /\ rows[write_set[t][j].rid].roll = Base(r)
      BY <3>4
    <3>6. j \in 1 .. Len(write_set[t])
      <4>1. Len(write_set[t]) \in Nat
        BY <1>0 DEF TableTypeOK
      <4> QED
        BY <4>1
    <3>7. Kept(t, write_set[t][j])
      BY <1>0, <1>1, <3>6 DEF KeptInv
    <3>8. PICK s : s = write_set[t][j].rid
      OBVIOUS
    <3>9. s \in 1 .. Len(rows) /\ rows[s].trx = t /\ ~rows[s].dead /\ rows[s].del
      BY <3>5, <3>7, <3>8 DEF Kept
    <3>10. Shown(V, rows, undo, s) = f[rows[s].roll]
      BY <3>9 DEF Shown, f
    <3>11. s # r /\ x \in Shown(V, rows, undo, s)
      BY <1>5, <1>7, <2>2, <3>1, <3>5, <3>8, <3>9, <3>10
    <3> QED
      BY <3>9, <3>11
  <2> QED
    BY <1>2, <1>4, <2>1, <2>2 DEF TableOf
<1> QED
  BY <1>1, <1>6, <1>7 DEF TakenBack

(* It gives at most one version back, and changes nothing of others. *)
LEMMA RollbackGivesBack ==
    ASSUME RefineInv, NEW t \in TxIds, RollbackWrite(t)
    PROVE  /\ Removed(t)' = Removed(t) \/ \E x \in Removed(t) : Removed(t)' = Removed(t) \ {x}
           /\ \A u \in TxIds : Added(u)' = Added(u)
           /\ \A u \in TxIds : u # t => Removed(u)' = Removed(u)
<1>a. PICK w : w = write_set[t][Len(write_set[t])]
  OBVIOUS
<1>b. PICK r : r = w.rid
  OBVIOUS
<1>0. TableInv /\ HeadInv /\ LineInv /\ TxnInv
  BY DEF RefineInv, TableInv
<1>1. TakenBack(t, r, w.type) /\ InFlight(t) /\ t \notin CommittedTxns
  BY <1>a, <1>b, RollbackTakesBack
<1>2. /\ r \in 1 .. Len(rows) /\ rows[r].trx = t /\ ~rows[r].dead
      /\ Len(rows') = Len(rows) /\ undo' = undo
      /\ \A q \in 1 .. Len(rows) : q # r => rows'[q] = rows[q]
      /\ rows'[r].val = rows[r].val /\ rows'[r].row = rows[r].row /\ ~rows'[r].del
  BY <1>1 DEF TakenBack
<1>3. phase' = phase /\ phase[t] = "rollback"
  BY DEF RollbackWrite, txnVars
<1>4. \/ ~rows[r].del /\ rows'[r].trx = t
      \/ rows[r].del /\ rows'[r].trx = undo[rows[r].roll].trx
  BY <1>1 DEF TakenBack
<1>5. rows'[r].trx = t \/ rows'[r].trx \in CommittedTxns
  BY <1>0, <1>2, <1>4, MarkedImage
<1>6. ASSUME NEW u \in TxIds PROVE Added(u)' = Added(u)
  <2>1. CASE phase[u] = "running"
    <3>1. u # t /\ u \notin CommittedTxns
      BY <1>0, <1>3, <2>1, FlightKinds DEF InFlight
    <3>2. rows[r].trx # u /\ rows'[r].trx # u
      BY <1>2, <1>5, <3>1
    <3>3. ASSUME NEW x \in Added(u)' PROVE x \in Added(u)
      BY <1>2, <1>3, <3>2 DEF Added
    <3>4. ASSUME NEW x \in Added(u) PROVE x \in Added(u)'
      BY <1>2, <1>3, <3>2 DEF Added
    <3> QED
      BY <3>3, <3>4
  <2>2. CASE phase[u] # "running"
    BY <1>3, <2>2 DEF Added
  <2> QED
    BY <2>1, <2>2
<1>7. ASSUME NEW u \in TxIds, u # t PROVE Removed(u)' = Removed(u)
  <2>1. ASSUME NEW x \in Removed(u)' PROVE x \in Removed(u)
    BY <1>2, <1>3 DEF Removed, InFlight
  <2>2. ASSUME NEW x \in Removed(u) PROVE x \in Removed(u)'
    BY <1>2, <1>3, <1>7 DEF Removed, InFlight
  <2> QED
    BY <2>1, <2>2
<1>8. ASSUME NEW x \in Removed(t)' PROVE x \in Removed(t)
  BY <1>2, <1>3 DEF Removed, InFlight
<1>9. CASE rows[r].del /\ undo[rows[r].roll].trx # t
  <2> DEFINE y == VersionOf(undo[rows[r].roll])
  <2>1. y \in Removed(t)
    BY <1>1, <1>2, <1>9 DEF Removed
  <2>2. ASSUME NEW s \in 1 .. Len(rows), rows[s].trx = t, rows[s].del, undo[rows[s].roll].trx # t,
               y = VersionOf(undo[rows[s].roll])
        PROVE  s = r
    <3>1. undo[rows[s].roll].row = undo[rows[r].roll].row
      BY <2>2 DEF VersionOf
    <3>2. rows[s].row = rows[r].row
      BY <1>0, <1>2, <1>9, <2>2, <3>1, MarkedImage
    <3> QED
      BY <1>0, <1>1, <1>2, <1>9, <2>2, <3>2, MarksApart
  <2> HIDE DEF y
  <2>3. y \notin Removed(t)'
    <3> SUFFICES ASSUME y \in Removed(t)' PROVE FALSE
      OBVIOUS
    <3>1. PICK s \in 1 .. Len(rows') : rows'[s].trx = t /\ rows'[s].del
                /\ undo'[rows'[s].roll].trx # t /\ y = VersionOf(undo'[rows'[s].roll])
      BY DEF Removed
    <3>2. s # r /\ rows'[s] = rows[s]
      BY <1>2, <3>1
    <3> QED
      BY <1>2, <2>2, <3>1, <3>2
  <2>4. ASSUME NEW x \in Removed(t), x # y PROVE x \in Removed(t)'
    <3>1. PICK s \in 1 .. Len(rows) : rows[s].trx = t /\ rows[s].del
                /\ undo[rows[s].roll].trx # t /\ x = VersionOf(undo[rows[s].roll])
      BY DEF Removed
    <3>2. s # r
      BY <2>4, <3>1 DEF y
    <3>3. rows'[s] = rows[s] /\ s \in 1 .. Len(rows')
      BY <1>2, <3>2
    <3>4. InFlight(t)'
      BY <1>3 DEF InFlight
    <3> QED
      BY <1>2, <3>1, <3>3, <3>4 DEF Removed
  <2>5. Removed(t)' = Removed(t) \ {y}
    BY <1>8, <2>1, <2>3, <2>4
  <2> QED
    BY <1>6, <1>7, <2>1, <2>5
<1>10. CASE ~(rows[r].del /\ undo[rows[r].roll].trx # t)
  <2>1. ASSUME NEW x \in Removed(t) PROVE x \in Removed(t)'
    <3>1. PICK s \in 1 .. Len(rows) : rows[s].trx = t /\ rows[s].del
                /\ undo[rows[s].roll].trx # t /\ x = VersionOf(undo[rows[s].roll])
      BY DEF Removed
    <3>2. rows'[s] = rows[s] /\ s \in 1 .. Len(rows')
      BY <1>2, <1>10, <3>1
    <3>3. InFlight(t)'
      BY <1>3 DEF InFlight
    <3> QED
      BY <1>2, <3>1, <3>2, <3>3 DEF Removed
  <2>2. Removed(t)' = Removed(t)
    BY <1>8, <2>1
  <2> QED
    BY <1>6, <1>7, <2>2
<1> QED
  BY <1>9, <1>10

-----------------------------------------------------------------------------
(* A step of the engine as a step of SnapshotIsolation. *)

(* A transaction begins. *)
LEMMA BeginMap ==
    ASSUME NEW t \in TxIds, Status(t) = "none", Committed' = Committed,
           Moves(t, "running", Committed, Added(t), Removed(t))
    PROVE  Isolation!Begin(t)
<1>1. [u \in TxIds |-> Status(u)]' = [[u \in TxIds |-> Status(u)] EXCEPT ![t] = "running"]
  BY DEF Moves
<1>2. [u \in TxIds |-> View(u)]' = [[u \in TxIds |-> View(u)] EXCEPT ![t] = Committed]
  BY DEF Moves
<1>3. [u \in TxIds |-> Added(u)]' = [u \in TxIds |-> Added(u)]
  BY DEF Moves
<1>4. [u \in TxIds |-> Removed(u)]' = [u \in TxIds |-> Removed(u)]
  BY DEF Moves
<1>7. [u \in TxIds |-> Status(u)][t] = "none"
  OBVIOUS
<1> QED
  BY <1>1, <1>2, <1>3, <1>4, <1>7 DEF Isolation!Begin, View

(* A READ COMMITTED statement takes a fresh view. *)
LEMMA RefreshMap ==
    ASSUME NEW t \in TxIds, Status(t) = "running", Committed' = Committed,
           Moves(t, "running", (Committed \ Removed(t)) \union Added(t), Added(t), Removed(t))
    PROVE  Isolation!Refresh(t)
<1>1. [u \in TxIds |-> Status(u)]' = [u \in TxIds |-> Status(u)]
  BY DEF Moves
<1>2. [u \in TxIds |-> View(u)]' =
        [[u \in TxIds |-> View(u)] EXCEPT ![t] = (Committed \ Removed(t)) \union Added(t)]
  BY DEF Moves
<1>3. [u \in TxIds |-> Added(u)]' = [u \in TxIds |-> Added(u)]
  BY DEF Moves
<1>4. [u \in TxIds |-> Removed(u)]' = [u \in TxIds |-> Removed(u)]
  BY DEF Moves
<1>5. [u \in TxIds |-> Status(u)][t] = "running"
  OBVIOUS
<1>6. [u \in TxIds |-> Removed(u)][t] = Removed(t) /\ [u \in TxIds |-> Added(u)][t] = Added(t)
  OBVIOUS
<1> QED
  BY <1>1, <1>2, <1>3, <1>4, <1>5, <1>6 DEF Isolation!Refresh, Isolation!Current, View

(* A commit publishes the transaction's changes. *)
LEMMA CommitMap ==
    ASSUME NEW t \in TxIds, Status(t) = "running",
           Committed' = (Committed \ Removed(t)) \union Added(t), Moves(t, "done", {}, {}, {})
    PROVE  Isolation!Commit(t)
<1>1. [u \in TxIds |-> Status(u)]' = [[u \in TxIds |-> Status(u)] EXCEPT ![t] = "done"]
  BY DEF Moves
<1>2. [u \in TxIds |-> View(u)]' = [[u \in TxIds |-> View(u)] EXCEPT ![t] = {}]
  BY DEF Moves
<1>3. [u \in TxIds |-> Added(u)]' = [[u \in TxIds |-> Added(u)] EXCEPT ![t] = {}]
  BY DEF Moves
<1>4. [u \in TxIds |-> Removed(u)]' = [[u \in TxIds |-> Removed(u)] EXCEPT ![t] = {}]
  BY DEF Moves
<1>5. [u \in TxIds |-> Status(u)][t] = "running"
  OBVIOUS
<1>6. [u \in TxIds |-> Removed(u)][t] = Removed(t) /\ [u \in TxIds |-> Added(u)][t] = Added(t)
  OBVIOUS
<1> QED
  BY <1>1, <1>2, <1>3, <1>4, <1>5, <1>6 DEF Isolation!Commit, Isolation!Current, View

(* An abort begins. *)
LEMMA AbortMap ==
    ASSUME NEW t \in TxIds, Status(t) = "running", Committed' = Committed,
           Moves(t, "aborting", {}, {}, Removed(t))
    PROVE  Isolation!Abort(t)
<1>1. [u \in TxIds |-> Status(u)]' = [[u \in TxIds |-> Status(u)] EXCEPT ![t] = "aborting"]
  BY DEF Moves
<1>2. [u \in TxIds |-> View(u)]' = [[u \in TxIds |-> View(u)] EXCEPT ![t] = {}]
  BY DEF Moves
<1>3. [u \in TxIds |-> Added(u)]' = [[u \in TxIds |-> Added(u)] EXCEPT ![t] = {}]
  BY DEF Moves
<1>4. [u \in TxIds |-> Removed(u)]' = [u \in TxIds |-> Removed(u)]
  BY DEF Moves
<1>5. [u \in TxIds |-> Status(u)][t] = "running"
  OBVIOUS
<1> QED
  BY <1>1, <1>2, <1>3, <1>4, <1>5 DEF Isolation!Abort, View

(* A version is given back. *)
LEMMA GiveBackMap ==
    ASSUME NEW t \in TxIds, Status(t) = "aborting", Committed' = Committed,
           NEW x \in Removed(t), Moves(t, "aborting", View(t), Added(t), Removed(t) \ {x})
    PROVE  Isolation!GiveBack(t)
<1>1. [u \in TxIds |-> Status(u)]' = [u \in TxIds |-> Status(u)]
  BY DEF Moves
<1>2. [u \in TxIds |-> View(u)]' = [u \in TxIds |-> View(u)]
  BY DEF Moves
<1>3. [u \in TxIds |-> Added(u)]' = [u \in TxIds |-> Added(u)]
  BY DEF Moves
<1>4. [u \in TxIds |-> Removed(u)]' = [[u \in TxIds |-> Removed(u)] EXCEPT ![t] = @ \ {x}]
  BY DEF Moves
<1>5. [u \in TxIds |-> Status(u)][t] = "aborting" /\ x \in [u \in TxIds |-> Removed(u)][t]
  OBVIOUS
<1> QED
  BY <1>1, <1>2, <1>3, <1>4, <1>5 DEF Isolation!GiveBack, View

(* An abort is over. *)
LEMMA AbortDoneMap ==
    ASSUME NEW t \in TxIds, Status(t) = "aborting", Committed' = Committed, Removed(t) = {},
           Moves(t, "done", View(t), Added(t), Removed(t))
    PROVE  Isolation!AbortDone(t)
<1>1. [u \in TxIds |-> Status(u)]' = [[u \in TxIds |-> Status(u)] EXCEPT ![t] = "done"]
  BY DEF Moves
<1>2. [u \in TxIds |-> View(u)]' = [u \in TxIds |-> View(u)]
  BY DEF Moves
<1>3. [u \in TxIds |-> Added(u)]' = [u \in TxIds |-> Added(u)]
  BY DEF Moves
<1>4. [u \in TxIds |-> Removed(u)]' = [u \in TxIds |-> Removed(u)]
  BY DEF Moves
<1>5. [u \in TxIds |-> Status(u)][t] = "aborting" /\ [u \in TxIds |-> Removed(u)][t] = {}
  OBVIOUS
<1> QED
  BY <1>1, <1>2, <1>3, <1>4, <1>5 DEF Isolation!AbortDone, View

(* Nothing that SnapshotIsolation speaks of changes. *)
LEMMA StutterMap ==
    ASSUME NEW t \in TxIds, Committed' = Committed,
           Moves(t, Status(t), View(t), Added(t), Removed(t))
    PROVE  UNCHANGED Isolation!siVars
<1>1. [u \in TxIds |-> Status(u)]' = [u \in TxIds |-> Status(u)]
  BY DEF Moves
<1>2. [u \in TxIds |-> View(u)]' = [u \in TxIds |-> View(u)]
  BY DEF Moves
<1>3. [u \in TxIds |-> Added(u)]' = [u \in TxIds |-> Added(u)]
  BY DEF Moves
<1>4. [u \in TxIds |-> Removed(u)]' = [u \in TxIds |-> Removed(u)]
  BY DEF Moves
<1> QED
  BY <1>1, <1>2, <1>3, <1>4 DEF Isolation!siVars, View

(* A statement changes versions. *)
LEMMA WriteMap ==
    ASSUME NEW t \in TxIds, NEW seen, NEW out, NEW in, Committed' = Committed,
           Moves(t, Status(t), (seen \ out) \union in, (Added(t) \ out) \union in,
                 Removed(t) \union (out \ Added(t)))
    PROVE  Isolation!Write(t, seen, out, in) /\ UNCHANGED [u \in TxIds |-> Status(u)]
<1>1. [u \in TxIds |-> Status(u)]' = [u \in TxIds |-> Status(u)]
  BY DEF Moves
<1>2. [u \in TxIds |-> View(u)]' = [[u \in TxIds |-> View(u)] EXCEPT ![t] = (seen \ out) \union in]
  BY DEF Moves
<1>3. [u \in TxIds |-> Added(u)]' = [[u \in TxIds |-> Added(u)] EXCEPT ![t] = (@ \ out) \union in]
  BY DEF Moves
<1>4. [u \in TxIds |-> Removed(u)]' =
        [[u \in TxIds |-> Removed(u)] EXCEPT ![t] = @ \union (out \ Added(t))]
  BY DEF Moves
<1>5. [u \in TxIds |-> Added(u)][t] = Added(t)
  OBVIOUS
<1> QED
  BY <1>1, <1>2, <1>3, <1>4, <1>5 DEF Isolation!Write, View

(* The versions that it may change. *)
LEMMA TargetsMap ==
    ASSUME NEW t \in TxIds, Committed = TableOf(CommittedTxns, rows, undo), NEW seen, NEW S
    PROVE  Isolation!Targets(t, seen, S) = {x \in seen : x.val \in S /\ MayChange(t, x)}
<1>1. [u \in TxIds |-> Added(u)][t] = Added(t)
  OBVIOUS
<1>2. \A u \in TxIds : [w \in TxIds |-> Removed(w)][u] = Removed(u)
  OBVIOUS
<1>3. \A x : Isolation!Writable(t, x) <=> MayChange(t, x)
  BY <1>1, <1>2 DEF Isolation!Writable, MayChange
<1> QED
  BY <1>3 DEF Isolation!Targets

(* The table that it starts from: the transaction's, or the present one. *)
Starts(t, seen) == seen = View(t) \/ seen = (Committed \ Removed(t)) \union Added(t)

(* In the abstract state it is the view, or the present table. *)
LEMMA StartsMap ==
    ASSUME NEW t \in TxIds, NEW seen, Starts(t, seen)
    PROVE  seen \in {[u \in TxIds |-> IF phase[u] = "running" THEN Scan(read_view[u]) ELSE {}][t],
                     Isolation!Current(t)}
<1>1. [u \in TxIds |-> View(u)][t] = View(t)
  OBVIOUS
<1>2. [u \in TxIds |-> Removed(u)][t] = Removed(t) /\ [u \in TxIds |-> Added(u)][t] = Added(t)
  OBVIOUS
<1> QED
  BY <1>1, <1>2 DEF Starts, Isolation!Current, View

(* A statement of a running transaction is a step. *)
LEMMA StatementMap ==
    ASSUME NEW t \in TxIds, Status(t) = "running", NEW seen, Starts(t, seen),
           \/ /\ UNCHANGED [u \in TxIds |-> Status(u)]
              /\ Isolation!Insert(t, seen) \/ Isolation!Delete(t, seen) \/ Isolation!Update(t, seen)
           \/ Isolation!Fail(t, seen)
    PROVE  Isolation!SINext
<1>1. [u \in TxIds |-> Status(u)][t] = "running"
  OBVIOUS
<1>2. seen \in {[u \in TxIds |-> IF phase[u] = "running" THEN Scan(read_view[u]) ELSE {}][t],
                Isolation!Current(t)}
  BY StartsMap
<1> QED
  BY <1>1, <1>2 DEF Isolation!SINext

(* A statement throws. *)
LEMMA FailMap ==
    ASSUME NEW t \in TxIds, Committed = TableOf(CommittedTxns, rows, undo), NEW seen, NEW out,
           Committed' = Committed,
           \A x \in out : x \in seen /\ x.val \in Values /\ MayChange(t, x) /\ x \notin Added(t),
           Moves(t, "aborting", {}, {}, Removed(t) \union out)
    PROVE  Isolation!Fail(t, seen)
<1>1. [u \in TxIds |-> Status(u)]' = [[u \in TxIds |-> Status(u)] EXCEPT ![t] = "aborting"]
  BY DEF Moves
<1>2. [u \in TxIds |-> View(u)]' = [[u \in TxIds |-> View(u)] EXCEPT ![t] = {}]
  BY DEF Moves
<1>3. [u \in TxIds |-> Added(u)]' = [[u \in TxIds |-> Added(u)] EXCEPT ![t] = {}]
  BY DEF Moves
<1>4. [u \in TxIds |-> Removed(u)]' = [[u \in TxIds |-> Removed(u)] EXCEPT ![t] = @ \union out]
  BY DEF Moves
<1>5. [u \in TxIds |-> Added(u)][t] = Added(t)
  OBVIOUS
<1>6. out \in SUBSET (Isolation!Targets(t, seen, Values) \ [u \in TxIds |-> Added(u)][t])
  BY <1>5, TargetsMap
<1> QED
  BY <1>1, <1>2, <1>3, <1>4, <1>6 DEF Isolation!Fail, View

-----------------------------------------------------------------------------
(* What the transactions read, as tables. *)
Shows ==
    /\ Committed = TableOf(CommittedTxns, rows, undo)
    /\ \A t \in TxIds :
          View(t) = IF phase[t] = "running" THEN TableOf(snapshot[t] \union {t}, rows, undo) ELSE {}

(* The mapping shows each transaction what its scan returns. *)
LEMMA RefineShows == RefineInv => Shows
BY Mapped DEF RefineInv, Shows, View

(* After a step too. *)
LEMMA ShowsAfter ==
    ASSUME RefineInv'
    PROVE  /\ Committed' = TableOf(CommittedTxns', rows', undo')
           /\ \A t \in TxIds :
                 View(t)' = IF phase'[t] = "running" THEN TableOf(snapshot'[t] \union {t}, rows', undo')
                            ELSE {}
<1>1. Shows'
  BY RefineShows, PTL
<1> QED
  BY <1>1 DEF Shows

(* What a transaction sees of a table that is not touched stays. *)
LEMMA OthersStay ==
    ASSUME RefineInv, RefineInv', NEW t \in TxIds, rows' = rows, undo' = undo,
           \A u \in TxIds : u # t => phase'[u] = phase[u] /\ snapshot'[u] = snapshot[u]
    PROVE  /\ \A u \in TxIds : u # t => /\ Status(u)' = Status(u) /\ View(u)' = View(u)
                                        /\ Added(u)' = Added(u) /\ Removed(u)' = Removed(u)
           /\ CommittedTxns' = CommittedTxns => Committed' = Committed
<1>1. Shows
  BY RefineShows
<1>2. \A u \in TxIds : u # t => View(u)' = View(u)
  BY <1>1, ShowsAfter DEF Shows
<1>3. \A u \in TxIds : u # t => Status(u)' = Status(u)
  BY DEF Status
<1>4. \A u \in TxIds : u # t => Added(u)' = Added(u)
  BY DEF Added
<1>5. \A u \in TxIds : u # t => Removed(u)' = Removed(u)
  BY DEF Removed, InFlight
<1>6. CommittedTxns' = CommittedTxns => Committed' = Committed
  BY <1>1, ShowsAfter DEF Shows
<1> QED
  BY <1>2, <1>3, <1>4, <1>5, <1>6

(* The phases and snapshots after a call of the manager. *)
LEMMA CallsElse ==
    ASSUME TxnInv, NEW t \in TxIds, Calls(t)
    PROVE  \A u \in TxIds : u # t => phase'[u] = phase[u] /\ snapshot'[u] = snapshot[u]
<1>1. phase \in [TxIds -> Phases] /\ snapshot \in [TxIds -> SUBSET TxIds]
  BY DEF TxnInv, TxnTypeOK
<1>2. CASE BeginRegister(t) \/ BeginReadView(t)
  BY <1>1, <1>2 DEF BeginRegister, BeginReadView, CreateReadView
<1>3. CASE CommitPublish(t) \/ AbortPublish(t)
  BY <1>1, <1>3 DEF CommitPublish, AbortPublish, EndState
<1>4. CASE CommitLog(t) \/ AbortLog(t)
  BY <1>1, <1>4 DEF CommitLog, AbortLog, WriteTxnControlLog
<1>5. CASE CommitFlush(t) \/ AbortFlush(t)
  BY <1>1, <1>5 DEF CommitFlush, AbortFlush, FlushLog
<1>6. CASE AbortLookup(t)
  BY <1>1, <1>6 DEF AbortLookup
<1> QED
  BY <1>2, <1>3, <1>4, <1>5, <1>6 DEF Calls

(* Begin, registration: nothing yet. *)
LEMMA RegisterStep ==
    ASSUME RefineInv, RefineInv', NEW t \in TxIds, BeginRegister(t), rows' = rows, undo' = undo
    PROVE  UNCHANGED Isolation!siVars
<1>0. TxnInv /\ Calls(t)
  BY DEF RefineInv, TableInv, Calls
<1>1. phase \in [TxIds -> Phases] /\ txn_state \in [TxIds -> TransactionState]
  BY <1>0 DEF TxnInv, TxnTypeOK
<1>2. phase[t] = "none" /\ txn_state[t] = "UNKNOWN"
  BY <1>0 DEF BeginRegister, TxnInv, TxnTypeOK, PhaseInv
<1>3. phase'[t] = "begun" /\ CommittedTxns' = CommittedTxns
  BY <1>1, <1>2 DEF BeginRegister, CommittedTxns
<1>4. /\ \A u \in TxIds : u # t => /\ Status(u)' = Status(u) /\ View(u)' = View(u)
                                   /\ Added(u)' = Added(u) /\ Removed(u)' = Removed(u)
      /\ Committed' = Committed
  BY <1>0, <1>3, CallsElse, OthersStay
<1>5. Status(t)' = Status(t) /\ View(t)' = View(t) /\ Added(t)' = Added(t) /\ Removed(t)' = Removed(t)
  BY <1>2, <1>3 DEF Status, View, Added, Removed, InFlight
<1>6. Moves(t, Status(t), View(t), Added(t), Removed(t))
  BY <1>4, <1>5 DEF Moves
<1> QED
  BY <1>4, <1>6, StutterMap

(* Begin, the read view: the transaction gets its copy. *)
LEMMA BeginStep ==
    ASSUME RefineInv, RefineInv', NEW t \in TxIds, BeginReadView(t), rows' = rows, undo' = undo
    PROVE  Isolation!SINext
<1>0. TxnInv /\ Calls(t) /\ TableTypeOK /\ HeadInv /\ StartedInv /\ Shows
  BY RefineShows DEF RefineInv, TableInv, Calls
<1>1. phase \in [TxIds -> Phases] /\ snapshot \in [TxIds -> SUBSET TxIds]
  BY <1>0 DEF TxnInv, TxnTypeOK
<1>2. /\ phase[t] = "begun" /\ phase'[t] = "running" /\ snapshot'[t] = CommittedTxns
      /\ CommittedTxns' = CommittedTxns
  BY <1>1 DEF BeginReadView, CreateReadView, CommittedTxns
<1>3. /\ \A u \in TxIds : u # t => /\ Status(u)' = Status(u) /\ View(u)' = View(u)
                                   /\ Added(u)' = Added(u) /\ Removed(u)' = Removed(u)
      /\ Committed' = Committed
  BY <1>0, <1>2, CallsElse, OthersStay
<1>4. /\ \A p \in 1 .. Len(undo) : undo[p].trx # t
      /\ \A r \in 1 .. Len(rows) : rows[r].trx # t
  BY <1>0, <1>2 DEF StartedInv, HasView
<1>5. TableOf(CommittedTxns \union {t}, rows, undo) = TableOf(CommittedTxns, rows, undo)
  BY <1>0, <1>4, TableAgrees
<1>6. View(t)' = Committed
  BY <1>0, <1>2, <1>5, ShowsAfter DEF Shows
<1>7. Status(t) = "none" /\ Status(t)' = "running"
  BY <1>2 DEF Status
<1>8. Added(t)' = Added(t) /\ Removed(t)' = Removed(t)
  BY <1>2, <1>4 DEF Added, Removed, InFlight
<1>9. Moves(t, "running", Committed, Added(t), Removed(t))
  BY <1>3, <1>6, <1>7, <1>8 DEF Moves
<1>10. Isolation!Begin(t)
  BY <1>3, <1>7, <1>9, BeginMap
<1> QED
  BY <1>10 DEF Isolation!SINext

(* Commit, the state is published: all changes at once. *)
LEMMA CommitStep ==
    ASSUME RefineInv, RefineInv', NEW t \in TxIds, CommitPublish(t), rows' = rows, undo' = undo
    PROVE  Isolation!SINext
<1>0. TxnInv /\ Calls(t) /\ Shows
  BY RefineShows DEF RefineInv, TableInv, Calls
<1>1. phase \in [TxIds -> Phases] /\ txn_state \in [TxIds -> TransactionState]
  BY <1>0 DEF TxnInv, TxnTypeOK
<1>2. phase[t] = "running" /\ phase'[t] = "committing" /\ CommittedTxns' = CommittedTxns \union {t}
  BY <1>1 DEF CommitPublish, EndState, CommittedTxns
<1>3. \A u \in TxIds : u # t => /\ Status(u)' = Status(u) /\ View(u)' = View(u)
                                /\ Added(u)' = Added(u) /\ Removed(u)' = Removed(u)
  BY <1>0, CallsElse, OthersStay
<1>4. Committed' = TableOf(CommittedTxns \union {t}, rows, undo)
  BY <1>2, ShowsAfter
<1>5. Committed' = (Committed \ Removed(t)) \union Added(t)
  BY <1>0, <1>2, <1>4, CurrentTable DEF Shows
<1>6. Status(t) = "running" /\ Status(t)' = "done"
  BY <1>2 DEF Status
<1>7. View(t)' = {} /\ Added(t)' = {} /\ Removed(t)' = {}
  BY <1>2 DEF View, Added, Removed, InFlight
<1>8. Moves(t, "done", {}, {}, {})
  BY <1>3, <1>6, <1>7 DEF Moves
<1>9. Isolation!Commit(t)
  BY <1>5, <1>6, <1>8, CommitMap
<1> QED
  BY <1>9 DEF Isolation!SINext

(* Abort, the look-up: the transaction's own versions are gone. *)
LEMMA AbortStep ==
    ASSUME RefineInv, RefineInv', NEW t \in TxIds, AbortLookup(t), rows' = rows, undo' = undo
    PROVE  Isolation!SINext
<1>0. TxnInv /\ Calls(t)
  BY DEF RefineInv, TableInv, Calls
<1>1. phase \in [TxIds -> Phases]
  BY <1>0 DEF TxnInv, TxnTypeOK
<1>2. phase[t] = "running" /\ phase'[t] = "rollback" /\ CommittedTxns' = CommittedTxns
  BY <1>1 DEF AbortLookup, CommittedTxns
<1>3. /\ \A u \in TxIds : u # t => /\ Status(u)' = Status(u) /\ View(u)' = View(u)
                                   /\ Added(u)' = Added(u) /\ Removed(u)' = Removed(u)
      /\ Committed' = Committed
  BY <1>0, <1>2, CallsElse, OthersStay
<1>4. Status(t) = "running" /\ Status(t)' = "aborting"
  BY <1>2 DEF Status
<1>5. View(t)' = {} /\ Added(t)' = {} /\ Removed(t)' = Removed(t)
  BY <1>2 DEF View, Added, Removed, InFlight
<1>6. Moves(t, "aborting", {}, {}, Removed(t))
  BY <1>3, <1>4, <1>5 DEF Moves
<1>7. Isolation!Abort(t)
  BY <1>3, <1>4, <1>6, AbortMap
<1> QED
  BY <1>7 DEF Isolation!SINext

(* Abort, the state is published: everything has been given back. *)
LEMMA AbortDoneStep ==
    ASSUME RefineInv, RefineInv', NEW t \in TxIds, write_set[t] = <<>>, AbortPublish(t),
           rows' = rows, undo' = undo
    PROVE  Isolation!SINext
<1>0. TxnInv /\ Calls(t) /\ MarkInv
  BY DEF RefineInv, TableInv, Calls
<1>1. phase \in [TxIds -> Phases] /\ txn_state \in [TxIds -> TransactionState]
  BY <1>0 DEF TxnInv, TxnTypeOK
<1>2. phase[t] = "rollback" /\ phase'[t] = "aborting" /\ txn_state[t] = "IN_PROGRESS"
  BY <1>0, <1>1 DEF AbortPublish, TxnInv, PhaseInv
<1>3. CommittedTxns' = CommittedTxns
  BY <1>1, <1>2 DEF AbortPublish, EndState, CommittedTxns
<1>4. /\ \A u \in TxIds : u # t => /\ Status(u)' = Status(u) /\ View(u)' = View(u)
                                   /\ Added(u)' = Added(u) /\ Removed(u)' = Removed(u)
      /\ Committed' = Committed
  BY <1>0, <1>3, CallsElse, OthersStay
<1>5. NotEnded(t) /\ Len(write_set[t]) = 0
  BY <1>2 DEF NotEnded
<1>6. \A r \in 1 .. Len(rows) : ~(rows[r].trx = t /\ rows[r].del)
  BY <1>0, <1>5 DEF MarkInv
<1>7. Removed(t) = {} /\ Removed(t)' = {}
  BY <1>6 DEF Removed
<1>8. Status(t) = "aborting" /\ Status(t)' = "done"
  BY <1>2 DEF Status
<1>9. View(t)' = View(t) /\ Added(t)' = Added(t)
  BY <1>2 DEF View, Added
<1>10. Moves(t, "done", View(t), Added(t), Removed(t))
  BY <1>4, <1>7, <1>8, <1>9 DEF Moves
<1>11. Isolation!AbortDone(t)
  BY <1>4, <1>7, <1>8, <1>10, AbortDoneMap
<1> QED
  BY <1>11 DEF Isolation!SINext

(* The log records of an end, and their flush: nothing more. *)
LEMMA LoggedStep ==
    ASSUME RefineInv, RefineInv', NEW t \in TxIds,
           CommitLog(t) \/ CommitFlush(t) \/ AbortLog(t) \/ AbortFlush(t), rows' = rows, undo' = undo
    PROVE  UNCHANGED Isolation!siVars
<1>0. TxnInv /\ Calls(t)
  BY DEF RefineInv, TableInv, Calls
<1>1. phase \in [TxIds -> Phases]
  BY <1>0 DEF TxnInv, TxnTypeOK
<1>2. /\ phase[t] \in {"committing", "commit_logged", "aborting", "abort_logged"}
      /\ phase'[t] \in {"commit_logged", "abort_logged", "ended"}
  BY <1>1 DEF CommitLog, CommitFlush, AbortLog, AbortFlush
<1>3. CommittedTxns' = CommittedTxns
  BY DEF CommitLog, CommitFlush, AbortLog, AbortFlush, WriteTxnControlLog, FlushLog, CommittedTxns
<1>4. /\ \A u \in TxIds : u # t => /\ Status(u)' = Status(u) /\ View(u)' = View(u)
                                   /\ Added(u)' = Added(u) /\ Removed(u)' = Removed(u)
      /\ Committed' = Committed
  BY <1>0, <1>3, CallsElse, OthersStay
<1>5. Status(t)' = Status(t) /\ View(t)' = View(t) /\ Added(t)' = Added(t) /\ Removed(t)' = Removed(t)
  BY <1>2 DEF Status, View, Added, Removed, InFlight
<1>6. Moves(t, Status(t), View(t), Added(t), Removed(t))
  BY <1>4, <1>5 DEF Moves
<1> QED
  BY <1>4, <1>6, StutterMap

-----------------------------------------------------------------------------
(* The table that a statement sees. *)
LEMMA SeenTable ==
    ASSUME RefineInv, NEW t \in TxIds, phase[t] = "running"
    PROVE  Starts(t, TableOf(StatementSet(t) \union {t}, rows, undo)) /\ Status(t) = "running"
<1>1. Shows
  BY RefineShows
<1>2. CASE t \in ReadCommitted
  <2>1. TableOf(CommittedTxns \union {t}, rows, undo) = (Committed \ Removed(t)) \union Added(t)
    BY <1>1, CurrentTable DEF Shows
  <2> QED
    BY <1>2, <2>1 DEF Starts, StatementSet, Status
<1>3. CASE t \notin ReadCommitted
  <2>1. View(t) = TableOf(snapshot[t] \union {t}, rows, undo)
    BY <1>1 DEF Shows
  <2> QED
    BY <1>3, <2>1 DEF Starts, StatementSet, Status
<1> QED
  BY <1>2, <1>3

(* The transactions that others see are not the statement's. *)
LEMMA UnseenByOthers ==
    ASSUME TxnInv, NEW t \in TxIds, InFlight(t)
    PROVE  /\ t \notin CommittedTxns
           /\ \A u \in TxIds : u # t /\ phase[u] = "running" => t \notin snapshot[u] \union {u}
<1>1. t \notin CommittedTxns
  BY FlightKinds
<1>2. \A u \in TxIds : phase[u] = "running" => snapshot[u] \subseteq CommittedTxns
  BY SnapshotCommitted DEF HasView
<1> QED
  BY <1>1, <1>2

(* If they see the same tables, nothing changes for them. *)
LEMMA OthersSee ==
    ASSUME RefineInv, RefineInv', NEW t \in TxIds, InFlight(t), CommittedTxns' = CommittedTxns,
           \A u \in TxIds : u # t => phase'[u] = phase[u] /\ snapshot'[u] = snapshot[u],
           \A V : t \notin V => TableOf(V, rows', undo') = TableOf(V, rows, undo)
    PROVE  /\ Committed' = Committed
           /\ \A u \in TxIds : u # t => Status(u)' = Status(u) /\ View(u)' = View(u)
<1>0. Shows /\ TxnInv
  BY RefineShows DEF RefineInv, TableInv
<1>1. /\ t \notin CommittedTxns
      /\ \A u \in TxIds : u # t /\ phase[u] = "running" => t \notin snapshot[u] \union {u}
  BY <1>0, UnseenByOthers
<1>2. Committed' = Committed
  BY <1>0, <1>1, ShowsAfter DEF Shows
<1>3. ASSUME NEW u \in TxIds, u # t PROVE Status(u)' = Status(u) /\ View(u)' = View(u)
  <2>1. phase'[u] = phase[u] /\ snapshot'[u] = snapshot[u]
    BY <1>3
  <2>2. View(u)' = IF phase[u] = "running" THEN TableOf(snapshot[u] \union {u}, rows', undo') ELSE {}
    BY <2>1, ShowsAfter
  <2>3. View(u) = IF phase[u] = "running" THEN TableOf(snapshot[u] \union {u}, rows, undo) ELSE {}
    BY <1>0 DEF Shows
  <2>4. View(u)' = View(u)
    BY <1>1, <1>3, <2>2, <2>3
  <2>5. Status(u)' = Status(u)
    BY <2>1 DEF Status
  <2> QED
    BY <2>4, <2>5
<1> QED
  BY <1>2, <1>3

(* SELECT refreshes the copy at READ COMMITTED, and only there. *)
LEMMA SelectStep ==
    ASSUME RefineInv, RefineInv', NEW t \in TxIds, Select(t)
    PROVE  Isolation!SINext \/ UNCHANGED Isolation!siVars
<1>0. TxnInv /\ Shows /\ BeginStatement(t) /\ rows' = rows /\ undo' = undo
  BY RefineShows DEF RefineInv, TableInv, Select, tableVars
<1>1. /\ phase[t] = "running" /\ CommittedTxns' = CommittedTxns /\ snapshot'[t] = StatementSet(t)
      /\ \A u \in TxIds : u # t => phase'[u] = phase[u] /\ snapshot'[u] = snapshot[u]
  BY <1>0, StatementFacts
<1>2. phase' = phase
  BY <1>0 DEF BeginStatement
<1>3. /\ \A u \in TxIds : u # t => /\ Status(u)' = Status(u) /\ View(u)' = View(u)
                                   /\ Added(u)' = Added(u) /\ Removed(u)' = Removed(u)
      /\ Committed' = Committed
  BY <1>0, <1>1, OthersStay
<1>4. Status(t)' = Status(t) /\ Added(t)' = Added(t) /\ Removed(t)' = Removed(t) /\ Status(t) = "running"
  BY <1>0, <1>1, <1>2 DEF Status, Added, Removed, InFlight
<1>5. View(t)' = TableOf(StatementSet(t) \union {t}, rows, undo)
  BY <1>0, <1>1, <1>2, ShowsAfter
<1>6. View(t)' = View(t) \/ View(t)' = (Committed \ Removed(t)) \union Added(t)
  BY <1>1, <1>5, SeenTable DEF Starts
<1>7. CASE View(t)' = View(t)
  <2>1. Moves(t, Status(t), View(t), Added(t), Removed(t))
    BY <1>3, <1>4, <1>7 DEF Moves
  <2> QED
    BY <1>3, <2>1, StutterMap
<1>8. CASE View(t)' = (Committed \ Removed(t)) \union Added(t)
  <2>1. Moves(t, "running", (Committed \ Removed(t)) \union Added(t), Added(t), Removed(t))
    BY <1>3, <1>4, <1>8 DEF Moves
  <2>2. Isolation!Refresh(t)
    BY <1>3, <1>4, <2>1, RefreshMap
  <2> QED
    BY <2>2 DEF Isolation!SINext
<1> QED
  BY <1>6, <1>7, <1>8

(* INSERT puts a version of a new row into the copy. *)
LEMMA InsertStep ==
    ASSUME RefineInv, RefineInv', NEW t \in TxIds, NEW v \in Values, InsertRow(t, v)
    PROVE  Isolation!SINext
<1>a. PICK n : n = Len(rows) + 1
  OBVIOUS
<1>b. PICK seen : seen = TableOf(StatementSet(t) \union {t}, rows, undo)
  OBVIOUS
<1>c. PICK x : x = VersionOf(NewRecord(t, v, 0, n))
  OBVIOUS
<1>0. TxnInv /\ TableTypeOK /\ Shows /\ BeginStatement(t)
  BY RefineShows DEF RefineInv, TableInv, InsertRow
<1>1. /\ phase[t] = "running" /\ CommittedTxns' = CommittedTxns /\ snapshot'[t] = StatementSet(t)
      /\ \A u \in TxIds : u # t => phase'[u] = phase[u] /\ snapshot'[u] = snapshot[u]
  BY <1>0, StatementFacts
<1>2. phase' = phase /\ InFlight(t)
  BY <1>0, <1>1 DEF BeginStatement, InFlight
<1>3. \A V : TableOf(V, rows', undo') = TableOf(V, rows, undo) \union IF t \in V THEN {x} ELSE {}
  BY <1>a, <1>c, InsertShows
<1>4. Committed' = Committed /\ \A u \in TxIds : u # t => Status(u)' = Status(u) /\ View(u)' = View(u)
  <2>1. \A V : t \notin V => TableOf(V, rows', undo') = TableOf(V, rows, undo)
    BY <1>3
  <2> QED
    BY <1>1, <1>2, <2>1, OthersSee
<1>5. /\ Added(t)' = Added(t) \union {x}
      /\ \A u \in TxIds : u # t => Added(u)' = Added(u)
      /\ \A u \in TxIds : Removed(u)' = Removed(u)
  BY <1>a, <1>c, InsertAdds
<1>6. View(t)' = seen \union {x}
  <2>1. View(t)' = TableOf(StatementSet(t) \union {t}, rows', undo')
    BY <1>1, <1>2, ShowsAfter
  <2> QED
    BY <1>3, <1>b, <2>1
<1>7. Status(t)' = Status(t)
  BY <1>2 DEF Status
<1>8. Moves(t, Status(t), (seen \ {}) \union {x}, (Added(t) \ {}) \union {x}, Removed(t) \union ({} \ Added(t)))
  BY <1>4, <1>5, <1>6, <1>7 DEF Moves
<1>9. Isolation!Write(t, seen, {}, {x}) /\ UNCHANGED [u \in TxIds |-> Status(u)]
  BY <1>4, <1>8, WriteMap
<1>10. x = Isolation!Version(n, v, t)
  BY <1>c DEF VersionOf, NewRecord, Isolation!Version
<1>11. n \in 1 .. MaxRows
  <2>1. Len(rows) \in Nat /\ Len(rows) < MaxRows
    BY <1>0, FieldTypes DEF InsertRow
  <2> QED
    BY <1>a, <2>1, MaxRowsAssumption
<1>12. \A u \in TxIds : \A y \in Committed \union [w \in TxIds |-> Added(w)][u]
                                  \union [w \in TxIds |-> Removed(w)][u] : y.row # n
  <2> SUFFICES ASSUME NEW u \in TxIds, NEW y \in Committed \union Added(u) \union Removed(u)
               PROVE  y.row # n
    OBVIOUS
  <2>1. y \in TableOf(CommittedTxns, rows, undo) \union Added(u) \union Removed(u)
    BY <1>0 DEF Shows
  <2> QED
    BY <1>a, <2>1, InsertIsFresh
<1>13. Isolation!Insert(t, seen)
  BY <1>9, <1>10, <1>11, <1>12 DEF Isolation!Insert
<1>14. Starts(t, seen) /\ Status(t) = "running"
  BY <1>1, <1>b, SeenTable
<1> QED
  BY <1>9, <1>13, <1>14, StatementMap

(* What DELETE and UPDATE do to the abstract state. *)
LEMMA WroteMoves ==
    ASSUME RefineInv, RefineInv', NEW t \in TxIds, NEW hits, NEW placed, NEW v,
           Wrote(t, hits, placed, v), NEW seen, seen = TableOf(StatementSet(t) \union {t}, rows, undo),
           NEW out, out = {VersionOf(rows[r]) : r \in hits},
           NEW in, in = {VersionOf(rows'[n]) : n \in New(placed)}
    PROVE  /\ Committed' = Committed
           /\ BeginStatement(t) =>
                 Moves(t, Status(t), (seen \ out) \union in, (Added(t) \ out) \union in,
                       Removed(t) \union (out \ Added(t)))
           /\ FailStatement(t) => Moves(t, "aborting", {}, {}, Removed(t) \union (out \ Added(t)))
<1>0. /\ TxnInv /\ Shows /\ (BeginStatement(t) \/ FailStatement(t))
      /\ HeadInv' /\ TableTypeOK'
  BY RefineShows DEF RefineInv, TableInv, Wrote
<1>1. /\ phase[t] = "running" /\ CommittedTxns' = CommittedTxns /\ snapshot'[t] = StatementSet(t)
      /\ \A u \in TxIds : u # t => phase'[u] = phase[u] /\ snapshot'[u] = snapshot[u]
      /\ phase'[t] \in {"running", "rollback"}
  BY <1>0, StatementFacts
<1>2. InFlight(t) /\ InFlight(t)'
  BY <1>1 DEF InFlight
<1>3. Committed' = Committed /\ \A u \in TxIds : u # t => Status(u)' = Status(u) /\ View(u)' = View(u)
  <2>1. \A V : t \notin V => TableOf(V, rows', undo') = TableOf(V, rows, undo)
    BY <1>0, WroteOthers
  <2> QED
    BY <1>1, <1>2, <2>1, OthersSee
<1>4. \A u \in TxIds : u # t => Added(u)' = Added(u) /\ Removed(u)' = Removed(u)
  BY <1>1, WroteElse
<1>5. Removed(t)' = Removed(t) \union (out \ Added(t))
  BY <1>1, <1>2, WroteRemoved
<1>6. ASSUME BeginStatement(t)
      PROVE  Moves(t, Status(t), (seen \ out) \union in, (Added(t) \ out) \union in,
                   Removed(t) \union (out \ Added(t)))
  <2>1. phase' = phase
    BY <1>6 DEF BeginStatement
  <2>2. Added(t)' = (Added(t) \ out) \union in
    BY <1>1, <2>1, WroteAdded
  <2>3. View(t)' = TableOf(StatementSet(t) \union {t}, rows', undo')
    BY <1>1, <2>1, ShowsAfter
  <2>4. View(t)' = (seen \ out) \union in
    <3>1. PICK V : V = StatementSet(t) \union {t}
      OBVIOUS
    <3>2. TableOf(V, rows', undo') = (TableOf(V, rows, undo) \ out) \union in
      BY <1>0, <3>1, WroteOwn
    <3> QED
      BY <2>3, <3>1, <3>2
  <2>5. Status(t)' = Status(t)
    BY <2>1 DEF Status
  <2> QED
    BY <1>3, <1>4, <1>5, <2>2, <2>4, <2>5 DEF Moves
<1>7. ASSUME FailStatement(t)
      PROVE  Moves(t, "aborting", {}, {}, Removed(t) \union (out \ Added(t)))
  <2>1. phase'[t] = "rollback"
    BY <1>0, <1>7 DEF FailStatement, TxnInv, TxnTypeOK
  <2>2. Status(t)' = "aborting" /\ View(t)' = {} /\ Added(t)' = {}
    BY <2>1 DEF Status, View, Added
  <2> QED
    BY <1>3, <1>4, <1>5, <2>2 DEF Moves
<1> QED
  BY <1>3, <1>6, <1>7

(* DELETE takes what it should change out of the copy. *)
LEMMA DeleteStep ==
    ASSUME RefineInv, RefineInv', NEW t \in TxIds, NEW S \in SUBSET Values, DeleteRows(t, S)
    PROVE  Isolation!SINext
<1>a. PICK hits : hits = Hits(StatementView(t), S)
  OBVIOUS
<1>b. PICK seen : seen = TableOf(StatementSet(t) \union {t}, rows, undo)
  OBVIOUS
<1>c. PICK out : out = {VersionOf(rows[r]) : r \in hits}
  OBVIOUS
<1>1. BeginStatement(t) /\ Wrote(t, hits, 0, {})
  BY <1>a, DeleteWrote
<1>2. phase[t] = "running" /\ Shows
  BY <1>1, RefineShows DEF BeginStatement
<1>3. {VersionOf(rows'[n]) : n \in New(0)} = {}
  <2>1. Len(rows) \in Nat
    BY <1>1, OthersAfter
  <2>2. New(0) = {}
    BY <2>1 DEF New
  <2> QED
    BY <2>2
<1>4. /\ Committed' = Committed
      /\ Moves(t, Status(t), (seen \ out) \union {}, (Added(t) \ out) \union {},
               Removed(t) \union (out \ Added(t)))
  BY <1>1, <1>3, <1>b, <1>c, WroteMoves
<1>5. Isolation!Write(t, seen, out, {}) /\ UNCHANGED [u \in TxIds |-> Status(u)]
  BY <1>4, WriteMap
<1>6. out = Isolation!Targets(t, seen, S)
  <2>1. out = {x \in seen : x.val \in S /\ MayChange(t, x)}
    BY <1>2, <1>a, <1>b, <1>c, TargetsAreHits
  <2>2. Committed = TableOf(CommittedTxns, rows, undo)
    BY <1>2 DEF Shows
  <2> QED
    BY <2>1, <2>2, TargetsMap
<1>7. Isolation!Delete(t, seen)
  BY <1>5, <1>6 DEF Isolation!Delete
<1>8. Starts(t, seen) /\ Status(t) = "running"
  BY <1>2, <1>b, SeenTable
<1> QED
  BY <1>5, <1>7, <1>8, StatementMap

(* UPDATE replaces each of them by a version of the same row. *)
LEMMA UpdateStep ==
    ASSUME RefineInv, RefineInv', NEW t \in TxIds, NEW S \in SUBSET Values, NEW v \in Values,
           UpdateRows(t, S, v)
    PROVE  Isolation!SINext
<1>a. PICK hits : hits = Hits(StatementView(t), S)
  OBVIOUS
<1>b. PICK seen : seen = TableOf(StatementSet(t) \union {t}, rows, undo)
  OBVIOUS
<1>c. PICK out : out = {VersionOf(rows[r]) : r \in hits}
  OBVIOUS
<1>d. PICK placed : placed = Cardinality(hits)
  OBVIOUS
<1>e. PICK in : in = {VersionOf(rows'[n]) : n \in New(placed)}
  OBVIOUS
<1>1. BeginStatement(t) /\ Wrote(t, hits, placed, v)
  BY <1>a, <1>d, UpdateWrote
<1>2. phase[t] = "running" /\ Shows
  BY <1>1, RefineShows DEF BeginStatement
<1>3. in = {Isolation!Version(x.row, v, t) : x \in out}
  <2>1. ASSUME NEW n \in New(placed)
        PROVE  \E x \in out : VersionOf(rows'[n]) = Isolation!Version(x.row, v, t)
    <3>a. PICK o : o = Origin(hits, n)
      OBVIOUS
    <3>1. o \in hits /\ rows'[n].trx = t /\ rows'[n].row = rows[o].row /\ rows'[n].val = v
      BY <1>1, <3>a, NewAfter
    <3>2. VersionOf(rows[o]) \in out /\ VersionOf(rows[o]).row = rows[o].row
      BY <1>c, <3>1 DEF VersionOf
    <3>3. VersionOf(rows'[n]) = Isolation!Version(VersionOf(rows[o]).row, v, t)
      BY <3>1, <3>2 DEF VersionOf, Isolation!Version
    <3> QED
      BY <3>2, <3>3
  <2>2. ASSUME NEW x \in out
        PROVE  \E n \in New(placed) : VersionOf(rows'[n]) = Isolation!Version(x.row, v, t)
    <3>1. PICK o \in hits : x = VersionOf(rows[o])
      BY <1>c
    <3>2. PICK n \in New(placed) : Origin(hits, n) = o
      BY <1>1, <1>d DEF Wrote, Changed, Replaced
    <3>3. rows'[n].trx = t /\ rows'[n].row = rows[o].row /\ rows'[n].val = v
      BY <1>1, <3>2, NewAfter
    <3>4. x.row = rows[o].row
      BY <3>1 DEF VersionOf
    <3>5. VersionOf(rows'[n]) = Isolation!Version(x.row, v, t)
      BY <3>3, <3>4 DEF VersionOf, Isolation!Version
    <3> QED
      BY <3>5
  <2> QED
    BY <1>e, <2>1, <2>2
<1>4. /\ Committed' = Committed
      /\ Moves(t, Status(t), (seen \ out) \union in, (Added(t) \ out) \union in,
               Removed(t) \union (out \ Added(t)))
  BY <1>1, <1>b, <1>c, <1>e, WroteMoves
<1>5. Isolation!Write(t, seen, out, in) /\ UNCHANGED [u \in TxIds |-> Status(u)]
  BY <1>4, WriteMap
<1>6. out = Isolation!Targets(t, seen, S)
  <2>1. out = {x \in seen : x.val \in S /\ MayChange(t, x)}
    BY <1>2, <1>a, <1>b, <1>c, TargetsAreHits
  <2>2. Committed = TableOf(CommittedTxns, rows, undo)
    BY <1>2 DEF Shows
  <2> QED
    BY <2>1, <2>2, TargetsMap
<1>7. Isolation!Update(t, seen)
  <2>1. in = {Isolation!Version(x.row, v, t) : x \in Isolation!Targets(t, seen, S)}
    BY ONLY <1>3, <1>6
  <2>2. Isolation!Write(t, seen, Isolation!Targets(t, seen, S), in)
    BY ONLY <1>5, <1>6
  <2>3. Isolation!Write(t, seen, Isolation!Targets(t, seen, S),
                        {Isolation!Version(x.row, v, t) : x \in Isolation!Targets(t, seen, S)})
    BY ONLY <2>1, <2>2 DEF Isolation!Write
  <2> QED
    BY ONLY <2>3, v \in Values, S \in SUBSET Values DEF Isolation!Update
<1>8. Starts(t, seen) /\ Status(t) = "running"
  BY <1>2, <1>b, SeenTable
<1> QED
  BY <1>5, <1>7, <1>8, StatementMap

(* A statement that throws leaves its transaction aborting. *)
LEMMA FailStep ==
    ASSUME RefineInv, RefineInv', NEW t \in TxIds, FailStatement(t),
           NEW hits, NEW placed, NEW v, Wrote(t, hits, placed, v)
    PROVE  Isolation!SINext
<1>b. PICK seen : seen = TableOf(StatementSet(t) \union {t}, rows, undo)
  OBVIOUS
<1>c. PICK out : out = {VersionOf(rows[r]) : r \in hits}
  OBVIOUS
<1>d. PICK own : own = Added(t)
  OBVIOUS
<1>1. phase[t] = "running" /\ Shows /\ TableTypeOK
  BY RefineShows DEF FailStatement, RefineInv, TableInv
<1>2. Committed' = Committed /\ Moves(t, "aborting", {}, {}, Removed(t) \union (out \ own))
  BY <1>b, <1>c, <1>d, WroteMoves
<1>3. ASSUME NEW x \in out PROVE x \in seen /\ x.val \in Values /\ MayChange(t, x)
  <2>1. PICK r \in hits : x = VersionOf(rows[r])
    BY <1>c
  <2>2. /\ r \in 1 .. Len(rows) /\ ~rows[r].del /\ ~rows[r].dead
        /\ rows[r].trx \in StatementSet(t) \union {t}
    BY HitAfter
  <2>3. rows[r].val \in Values
    BY <1>1, <2>2, FieldTypes
  <2>4. x \in seen /\ MayChange(t, x)
    BY <1>1, <1>b, <2>1, <2>2, HitIsFree
  <2> QED
    BY <2>1, <2>3, <2>4 DEF VersionOf
<1>4. Committed = TableOf(CommittedTxns, rows, undo)
  BY <1>1 DEF Shows
<1>5. Isolation!Fail(t, seen)
  <2>1. PICK gone : gone = out \ own
    OBVIOUS
  <2>2. \A x \in gone : x \in seen /\ x.val \in Values /\ MayChange(t, x) /\ x \notin Added(t)
    BY <1>3, <1>d, <2>1
  <2>3. Moves(t, "aborting", {}, {}, Removed(t) \union gone)
    BY <1>2, <2>1
  <2> QED
    BY <1>2, <1>4, <2>2, <2>3, FailMap
<1>6. Starts(t, seen) /\ Status(t) = "running"
  BY <1>1, <1>b, SeenTable
<1> QED
  BY <1>5, <1>6, StatementMap

(* A roll-back step gives a version back, or is not to be seen. *)
LEMMA RollbackMapped ==
    ASSUME RefineInv, RefineInv', NEW t \in TxIds, RollbackWrite(t)
    PROVE  Isolation!SINext \/ UNCHANGED Isolation!siVars
<1>1. UNCHANGED txnVars /\ phase[t] = "rollback"
  BY DEF RollbackWrite
<1>2. phase' = phase /\ snapshot' = snapshot /\ CommittedTxns' = CommittedTxns /\ InFlight(t)
  BY <1>1 DEF txnVars, CommittedTxns, InFlight
<1>3. Committed' = Committed /\ \A u \in TxIds : u # t => Status(u)' = Status(u) /\ View(u)' = View(u)
  <2>1. \A V : t \notin V => TableOf(V, rows', undo') = TableOf(V, rows, undo)
    BY RollbackShows
  <2> QED
    BY <1>2, <2>1, OthersSee
<1>4. /\ Removed(t)' = Removed(t) \/ \E x \in Removed(t) : Removed(t)' = Removed(t) \ {x}
      /\ \A u \in TxIds : Added(u)' = Added(u)
      /\ \A u \in TxIds : u # t => Removed(u)' = Removed(u)
  BY RollbackGivesBack
<1>5. Status(t) = "aborting" /\ Status(t)' = Status(t) /\ View(t)' = View(t)
  BY <1>1, <1>2 DEF Status, View
<1>6. CASE Removed(t)' = Removed(t)
  <2>1. Moves(t, Status(t), View(t), Added(t), Removed(t))
    BY <1>3, <1>4, <1>5, <1>6 DEF Moves
  <2> QED
    BY <1>3, <2>1, StutterMap
<1>7. CASE \E x \in Removed(t) : Removed(t)' = Removed(t) \ {x}
  <2>1. PICK x \in Removed(t) : Removed(t)' = Removed(t) \ {x}
    BY <1>7
  <2>2. Moves(t, "aborting", View(t), Added(t), Removed(t) \ {x})
    BY <1>3, <1>4, <1>5, <2>1 DEF Moves
  <2>3. Isolation!GiveBack(t)
    BY <1>3, <1>5, <2>2, GiveBackMap
  <2> QED
    BY <2>3 DEF Isolation!SINext
<1> QED
  BY <1>4, <1>6, <1>7

(* Every step of the engine is a step of SnapshotIsolation, or none. *)
LEMMA IsolationStep ==
    ASSUME RefineInv, RefineInv', [MVCCNext]_mvccVars
    PROVE  [Isolation!SINext]_(Isolation!siVars)
<1> DEFINE Goal == Isolation!SINext \/ UNCHANGED Isolation!siVars
<1> SUFFICES Goal
  OBVIOUS
<1>1. ASSUME NEW t \in TxIds, Calls(t), UNCHANGED tableVars PROVE Goal
  <2>1. rows' = rows /\ undo' = undo
    BY <1>1 DEF tableVars
  <2> QED
    BY <1>1, <2>1, RegisterStep, BeginStep, CommitStep, AbortStep, AbortDoneStep, LoggedStep DEF Calls
<1>2. ASSUME NEW t \in TxIds, Select(t) PROVE Goal
  BY <1>2, SelectStep
<1>3. ASSUME NEW t \in TxIds, Changing(t) PROVE Goal
  <2>1. ASSUME NEW v \in Values, InsertRow(t, v) PROVE Goal
    BY <2>1, InsertStep
  <2>2. ASSUME NEW S \in SUBSET Values, DeleteRows(t, S) PROVE Goal
    BY <2>2, DeleteStep
  <2>3. ASSUME NEW S \in SUBSET Values, DeleteFails(t, S) PROVE Goal
    <3>1. PICK hits : FailStatement(t) /\ Wrote(t, hits, 0, {})
      BY <2>3, DeleteFailsWrote
    <3> QED
      BY <3>1, FailStep
  <2>4. ASSUME NEW S \in SUBSET Values, NEW v \in Values, UpdateRows(t, S, v) PROVE Goal
    BY <2>4, UpdateStep
  <2>5. ASSUME NEW S \in SUBSET Values, NEW v \in Values, UpdateFails(t, S, v) PROVE Goal
    <3>1. PICK hits, placed : FailStatement(t) /\ Wrote(t, hits, placed, v)
      BY <2>5, UpdateFailsWrote
    <3> QED
      BY <3>1, FailStep
  <2> HIDE DEF Goal
  <2> QED
    BY <1>3, <2>1, <2>2, <2>3, <2>4, <2>5 DEF Changing
<1>4. ASSUME NEW t \in TxIds, RollbackWrite(t) PROVE Goal
  BY <1>4, RollbackMapped
<1>5. CASE UNCHANGED mvccVars
  <2>1. /\ rows' = rows /\ undo' = undo /\ phase' = phase /\ txn_state' = txn_state
        /\ next_txid' = next_txid /\ active_txns' = active_txns /\ read_view' = read_view
    BY <1>5 DEF mvccVars, tableVars, txnVars
  <2>2. UNCHANGED Isolation!siVars
    BY <2>1 DEF Isolation!siVars, Committed, Status, Added, Removed, InFlight, Scan, ScanRecord,
                ChainVersion, MakeReadView, IsVisible
  <2> QED
    BY <2>2
<1> HIDE DEF Goal
<1> QED
  BY <1>1, <1>2, <1>3, <1>4, <1>5, MVCCCases

(* An empty table is an empty database. *)
LEMMA IsolationInit == MVCCInit => Isolation!SIInit
<1> SUFFICES ASSUME MVCCInit PROVE Isolation!SIInit
  OBVIOUS
<1>1. rows = <<>> /\ \A t \in TxIds : phase[t] = "none"
  BY DEF MVCCInit, TxnInit
<1>2. Len(rows) = 0
  BY <1>1
<1>3. 1 .. Len(rows) = {}
  BY <1>2
<1>4. Committed = {}
  BY <1>3 DEF Committed, Scan
<1>5. \A t \in TxIds : Status(t) = "none" /\ Added(t) = {} /\ Removed(t) = {} /\ phase[t] # "running"
  BY <1>1, <1>3 DEF Status, Added, Removed
<1> QED
  BY <1>4, <1>5 DEF Isolation!SIInit

(***************************************************************************)
(* Snapshot isolation, for any number of transactions, records and values: *)
(* what a scan finds through its read view and the undo chains is the      *)
(* committed table at the moment the view was made (the transaction's or,  *)
(* READ COMMITTED, the statement's) with the transaction's own changes;    *)
(* a commit publishes all of these at once; an abort or a statement that   *)
(* throws publishes none and gives back what it had taken, change by       *)
(* change; and no statement changes a version that another transaction     *)
(* has changed, or that is no longer the committed one.                    *)
(***************************************************************************)
THEOREM IsolationTheorem == MVCCSpec => ImplementsSnapshotIsolation
<1>1. MVCCSpec => [][Isolation!SINext]_(Isolation!siVars)
  BY RefineInvariance, IsolationStep, PTL DEF MVCCSpec
<1>2. MVCCSpec => Isolation!SIInit
  BY IsolationInit DEF MVCCSpec
<1> QED
  BY <1>1, <1>2 DEF ImplementsSnapshotIsolation, Isolation!SISpec
=============================================================================
