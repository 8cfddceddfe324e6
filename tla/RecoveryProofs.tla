--------------------------- MODULE RecoveryProofs ---------------------------
(***************************************************************************)
(* Proofs about Recovery, for any number of transactions, records, runs    *)
(* and restarts: Redo after the first run changes no record, and when the  *)
(* process never dies with a change on disk of a transaction that the log  *)
(* file does not know (~LoseTxn), no transaction id is ever handed out     *)
(* twice, no transaction reads a version that is not committed on disk,    *)
(* and those of the first two runs read every version that is.             *)
(***************************************************************************)
EXTENDS Recovery, SequenceTheorems, NaturalsInduction, WellFoundedInduction, TLAPS

Headers == [trx : TxIds, roll : Nat, del : BOOLEAN, dead : BOOLEAN]
Images == [trx : TxIds, roll : Nat, ver : Nat]
LogRecs == [lsn : Nat, tx : TxIds, rid : Nat, type : DataTypes \union {"COMMIT", "ABORT"}]
Writes == [rid : Nat, type : {"INSERT", "DELETE"}, prev_trx : Nat, prev_roll : Nat]

Active == {"running", "committing", "rollback", "aborting"}

RecTypeOK ==
    /\ rows \in Seq(Headers)
    /\ page_lsn \in Nat
    /\ undo \in Seq(Images)
    /\ wal \in Seq(LogRecs) /\ tail \in Seq(LogRecs)
    /\ next_lsn \in Nat \ {0}
    /\ next_txid \in 1 .. (MaxTxid + 1)
    /\ write_set \in Seq(Writes)
    /\ pending \in Nat
    /\ stage \in Active \union {"idle", "down", "redo"}
    /\ redo_pos \in Nat
    /\ run \in Nat \ {0}

(* Where the program is, and what that says of its counters. *)
StageInv ==
    /\ stage \in Active => cur \in TxIds /\ cur < next_txid
    /\ stage \in Active => run <= WritingRuns
    /\ stage \in {"down", "redo"} => tail = <<>>
    /\ stage = "redo" => redo_pos \in 1 .. Len(wal)
    /\ \A i \in 1 .. Len(write_set) :
          write_set[i].type = "DELETE" => write_set[i].prev_trx \in TxIds

(* The elements of a sequence. *)
Elements(s) == {s[i] : i \in 1 .. Len(s)}

(* The log, in the file or in the buffer. *)
InLog == Elements(wal) \union Elements(tail)

(* The page is forced with its LSN before a log record can reach the file. *)
LsnInv ==
    /\ run = 1 => stage \notin {"down", "redo"} /\ page_lsn < next_lsn
    /\ run = 1 \/ (run = 2 /\ (stage \in {"down", "redo"} \/ WritingRuns < 2)) =>
          \A x \in InLog : x.type \in DataTypes => x.lsn <= page_lsn

RedoInv == RecTypeOK /\ StageInv /\ LsnInv

(* The log has a record, or a data record, of transaction t. *)
Logged(t) == \E x \in InLog : x.tx = t
Changed(t) == \E x \in InLog : x.tx = t /\ x.type \in DataTypes

(* The buffer holds records of the session's transaction, and its control  *)
(* record comes after all of its data records.                             *)
TailInv ==
    /\ stage \notin Active => tail = <<>>
    /\ \A i \in 1 .. Len(tail) : tail[i].tx = cur
    /\ stage \in Active =>
          \A i \in 1 .. Len(wal) : wal[i].tx = cur => wal[i].type \in DataTypes
    /\ \A i \in 1 .. Len(tail) - 1 : tail[i].type \in DataTypes
    /\ stage \in {"running", "rollback"} =>
          \A i \in 1 .. Len(tail) : tail[i].type \in DataTypes
    /\ stage # "committing" => \A i \in 1 .. Len(tail) : tail[i].type # "COMMIT"

(* Every id in a header, an image or a write set is the id of a data record *)
(* of the log.                                                              *)
IdInv ==
    /\ \A r \in 1 .. Len(rows) : Changed(rows[r].trx)
    /\ \A p \in 1 .. Len(undo) : Changed(undo[p].trx)
    /\ \A i \in 1 .. Len(write_set) :
          write_set[i].type = "DELETE" => Changed(write_set[i].prev_trx)
    /\ stage # "down" => \A x \in InLog : x.tx < next_txid
    /\ TailInv

LEMMA ChangedIsLogged == \A t : Changed(t) => Logged(t)
BY DEF Changed, Logged

-----------------------------------------------------------------------------
(* The elements of a concatenation. *)
LEMMA ElementsOfConcat ==
    ASSUME NEW S, NEW s \in Seq(S), NEW t \in Seq(S)
    PROVE  /\ s \o t \in Seq(S)
           /\ Elements(s \o t) = Elements(s) \union Elements(t)
<1>1. s \o t \in Seq(S)
  OBVIOUS
<1>2. /\ Len(s) \in Nat /\ Len(t) \in Nat
      /\ Len(s \o t) = Len(s) + Len(t)
      /\ \A i \in 1 .. Len(s) + Len(t) :
            (s \o t)[i] = IF i <= Len(s) THEN s[i] ELSE t[i - Len(s)]
  BY ConcatProperties, LenProperties
<1>3. Elements(s \o t) = Elements(s) \union Elements(t)
  <2>1. ASSUME NEW i \in 1 .. Len(s) + Len(t)
        PROVE  (s \o t)[i] \in Elements(s) \union Elements(t)
    <3>1. CASE i <= Len(s)
      BY <3>1, <1>2 DEF Elements
    <3>2. CASE i > Len(s)
      <4>1. i - Len(s) \in 1 .. Len(t) /\ (s \o t)[i] = t[i - Len(s)]
        BY <3>2, <1>2
      <4> QED
        BY <4>1 DEF Elements
    <3> QED
      BY <3>1, <3>2, <1>2
  <2>2. ASSUME NEW i \in 1 .. Len(s) PROVE s[i] \in Elements(s \o t)
    <3>1. i \in 1 .. Len(s) + Len(t) /\ (s \o t)[i] = s[i]
      BY <1>2
    <3> QED
      BY <3>1, <1>2 DEF Elements
  <2>3. ASSUME NEW i \in 1 .. Len(t) PROVE t[i] \in Elements(s \o t)
    <3>1. Len(s) + i \in 1 .. Len(s) + Len(t) /\ (Len(s) + i) - Len(s) = i /\ ~(Len(s) + i <= Len(s))
      BY <1>2
    <3>2. (s \o t)[Len(s) + i] = t[i]
      BY <3>1, <1>2
    <3> QED
      BY <3>1, <3>2, <1>2 DEF Elements
  <2>4. Elements(s \o t) \subseteq Elements(s) \union Elements(t)
    BY <2>1, <1>2 DEF Elements
  <2>5. Elements(s) \subseteq Elements(s \o t) /\ Elements(t) \subseteq Elements(s \o t)
    BY <2>2, <2>3 DEF Elements
  <2> QED
    BY <2>4, <2>5
<1> QED
  BY <1>1, <1>3

(* The elements when one more is appended. *)
LEMMA ElementsOfAppend ==
    ASSUME NEW S, NEW s \in Seq(S), NEW e \in S
    PROVE  /\ Append(s, e) \in Seq(S)
           /\ <<e>> \in Seq(S)
           /\ Elements(Append(s, e)) = Elements(s) \union {e}
           /\ Elements(<<e>>) = {e}
<1>1. Append(s, e) \in Seq(S) /\ <<e>> \in Seq(S) /\ Len(s) \in Nat
  OBVIOUS
<1>2. /\ Len(Append(s, e)) = Len(s) + 1
      /\ \A i \in 1 .. Len(s) : Append(s, e)[i] = s[i]
      /\ Append(s, e)[Len(s) + 1] = e
  BY AppendProperties
<1>3. Elements(Append(s, e)) = Elements(s) \union {e}
  <2>1. Elements(Append(s, e)) = {Append(s, e)[i] : i \in 1 .. Len(s) + 1}
    BY <1>2 DEF Elements
  <2>2. 1 .. Len(s) + 1 = (1 .. Len(s)) \union {Len(s) + 1}
    BY <1>1
  <2> QED
    BY <2>1, <2>2, <1>2 DEF Elements
<1>4. Elements(<<e>>) = {e}
  BY DEF Elements
<1> QED
  BY <1>1, <1>3, <1>4

LEMMA ElementsOfEmpty == Elements(<<>>) = {}
BY DEF Elements

(* A bounded set of naturals has a largest element, which Max returns. *)
LEMMA MaxOfBounded ==
    ASSUME NEW S, NEW n \in Nat, S \subseteq 0 .. n, S # {}
    PROVE  Max(S) \in S /\ \A y \in S : Max(S) >= y
<1> DEFINE T == {k \in Nat : \E x \in S : k = n - x}
<1>1. T \subseteq Nat /\ T # {}
  <2>1. PICK x \in S : TRUE
    OBVIOUS
  <2>2. n - x \in Nat
    BY <2>1
  <2> QED
    BY <2>1, <2>2
<1>2. PICK m \in T : \A y \in T : ~(<<y, m>> \in OpToRel(<, Nat))
  <2> HIDE DEF T
  <2> QED
    BY <1>1, NatLessThanWellFounded, WFMin
<1>3. PICK x \in S : m = n - x
  OBVIOUS
<1>4. ASSUME NEW y \in S PROVE x >= y
  <2>1. n - y \in T /\ n - y \in Nat /\ m \in Nat
    BY <1>1
  <2>2. ~(n - y < m)
    BY <1>2, <2>1 DEF OpToRel
  <2> QED
    BY <1>3, <2>2
<1> QED
  BY <1>4 DEF Max

(* An appended record joins the log, in the buffer or behind a full one. *)
LEMMA LogAppended ==
    ASSUME RecTypeOK, cur \in TxIds, NEW type \in DataTypes \union {"COMMIT", "ABORT"}, NEW r \in Nat,
           AppendLogRecord(type, r)
    PROVE  /\ wal' \in Seq(LogRecs) /\ tail' \in Seq(LogRecs)
           /\ next_lsn' = next_lsn + 1 /\ next_lsn' \in Nat \ {0}
           /\ InLog' = InLog \union {[lsn |-> next_lsn, tx |-> cur, rid |-> r, type |-> type]}
<1> DEFINE rec == [lsn |-> next_lsn, tx |-> cur, rid |-> r, type |-> type]
<1>1. rec \in LogRecs /\ wal \in Seq(LogRecs) /\ tail \in Seq(LogRecs)
  BY DEF LogRecs, RecTypeOK
<1>2. next_lsn' = next_lsn + 1 /\ next_lsn' \in Nat \ {0}
  BY DEF RecTypeOK, AppendLogRecord
<1>3. \/ wal' = wal /\ tail' = Append(tail, rec)
      \/ wal' = wal \o tail /\ tail' = <<rec>>
  BY DEF AppendLogRecord
<1> HIDE DEF rec
<1>4. /\ Append(tail, rec) \in Seq(LogRecs) /\ wal \o tail \in Seq(LogRecs) /\ <<rec>> \in Seq(LogRecs)
      /\ Elements(Append(tail, rec)) = Elements(tail) \union {rec}
      /\ Elements(wal \o tail) = Elements(wal) \union Elements(tail)
      /\ Elements(<<rec>>) = {rec}
  BY <1>1, ElementsOfConcat, ElementsOfAppend
<1>5. wal' \in Seq(LogRecs) /\ tail' \in Seq(LogRecs)
  BY <1>1, <1>3, <1>4
<1>6. Elements(wal)' = Elements(wal') /\ Elements(tail)' = Elements(tail')
  BY DEF Elements
<1>7. InLog' = InLog \union {rec}
  BY <1>3, <1>4, <1>6 DEF InLog
<1> QED
  BY <1>2, <1>5, <1>7 DEF rec

(* A flushed log has the same records. *)
LEMMA LogFlushed ==
    ASSUME RecTypeOK, wal' = wal \o tail, tail' = <<>>
    PROVE  wal' \in Seq(LogRecs) /\ tail' \in Seq(LogRecs) /\ InLog' = InLog
<1>1. wal \in Seq(LogRecs) /\ tail \in Seq(LogRecs)
  BY DEF RecTypeOK
<1>2. wal \o tail \in Seq(LogRecs) /\ Elements(wal \o tail) = Elements(wal) \union Elements(tail)
  BY <1>1, ElementsOfConcat
<1>3. Elements(wal') = Elements(wal) \union Elements(tail) /\ Elements(tail') = {}
  BY <1>2, ElementsOfEmpty
<1>4. InLog' = Elements(wal') \union Elements(tail')
  BY DEF InLog, Elements
<1> QED
  BY <1>1, <1>2, <1>3, <1>4 DEF InLog

(* The parts of the log that a step leaves alone. *)
LEMMA LogSame ==
    ASSUME RecTypeOK, wal' = wal, tail' = tail \/ tail' = <<>>
    PROVE  /\ wal' \in Seq(LogRecs) /\ tail' \in Seq(LogRecs)
           /\ InLog' \subseteq InLog
           /\ tail' = tail => InLog' = InLog
<1>1. wal \in Seq(LogRecs) /\ tail \in Seq(LogRecs) /\ <<>> \in Seq(LogRecs)
  BY DEF RecTypeOK
<1>2. InLog' = Elements(wal') \union Elements(tail')
  BY DEF InLog, Elements
<1> QED
  BY <1>1, <1>2, ElementsOfEmpty DEF InLog

-----------------------------------------------------------------------------
(* The steps, by what they do. *)

Placing == InsertRow \/ InsertNewVersion
Marking(r) == DeleteRow(r) \/ UpdateOld(r)
Ending == CommitLog \/ AbortLog
Flushing == CommitFlush \/ AbortFlush
Dying == Exit \/ \E n \in 0 .. Len(tail) : Crash(n)
Redoing == RedoApply \/ RedoSkip

LEMMA RecCases ==
    ASSUME RecNext
    PROVE  \/ Begin \/ Placing \/ (\E r \in 1 .. Len(rows) : Marking(r)) \/ Ending
           \/ Flushing \/ Abort \/ RollbackWrite \/ Dying \/ Analysis \/ Redoing
BY DEF RecNext, Placing, Marking, Ending, Flushing, Dying, Redoing

(* The first n elements of a sequence. *)
LEMMA PrefixOf ==
    ASSUME NEW S, NEW s \in Seq(S), NEW n \in 0 .. Len(s)
    PROVE  /\ SubSeq(s, 1, n) \in Seq(S) /\ Len(SubSeq(s, 1, n)) = n
           /\ \A i \in 1 .. n : SubSeq(s, 1, n)[i] = s[i]
           /\ n = Len(s) => SubSeq(s, 1, n) = s
           /\ Elements(SubSeq(s, 1, n)) = {s[i] : i \in 1 .. n}
<1>1. n \in Int /\ 1 \in Int /\ Len(s) \in Nat /\ \A i \in 1 .. n : s[i] \in S
  OBVIOUS
<1>2. /\ SubSeq(s, 1, n) \in Seq(S)
      /\ Len(SubSeq(s, 1, n)) = IF 1 <= n THEN n - 1 + 1 ELSE 0
      /\ \A i \in 1 .. n - 1 + 1 : SubSeq(s, 1, n)[i] = s[1 + i - 1]
  BY <1>1, SubSeqProperties
<1>3. Len(SubSeq(s, 1, n)) = n /\ \A i \in 1 .. n : SubSeq(s, 1, n)[i] = s[i]
  BY <1>1, <1>2
<1>4. n = Len(s) => SubSeq(s, 1, n) = s
  BY SubSeqFull
<1> QED
  BY <1>2, <1>3, <1>4 DEF Elements

(* Dying leaves a prefix of the buffer in the file: all of it at an exit.  *)
(* A transaction commits with the whole of it.                             *)
Survives(n) ==
    /\ wal' = wal \o SubSeq(tail, 1, n) /\ tail' = <<>>
    /\ n = Len(tail) \/ LoseTxn \/ Known(n)
    /\ db' = IF stage = "committing" /\ n = Len(tail) THEN CommittedWith ELSE db

LEMMA DyingLog ==
    ASSUME RecTypeOK, Dying
    PROVE  \E n \in 0 .. Len(tail) : Survives(n)
<1>1. tail \in Seq(LogRecs) /\ Len(tail) \in 0 .. Len(tail)
  BY DEF RecTypeOK
<1>2. SubSeq(tail, 1, Len(tail)) = tail
  BY <1>1, PrefixOf
<1>3. CASE Exit
  <2>1. Survives(Len(tail))
    BY <1>2, <1>3 DEF Exit, GoDown, Survives
  <2> QED
    BY <1>1, <2>1
<1>4. CASE \E n \in 0 .. Len(tail) : Crash(n)
  BY <1>4 DEF Crash, GoDown, Survives
<1> QED
  BY <1>3, <1>4 DEF Dying

(* What is left of the log. *)
LEMMA SurvivingLog ==
    ASSUME RecTypeOK, NEW n \in 0 .. Len(tail), Survives(n)
    PROVE  /\ wal' \in Seq(LogRecs)
           /\ Len(wal') = Len(wal) + n
           /\ InLog' = Elements(wal) \union {tail[i] : i \in 1 .. n}
           /\ InLog' \subseteq InLog
<1> DEFINE kept == SubSeq(tail, 1, n)
<1>1. wal \in Seq(LogRecs) /\ tail \in Seq(LogRecs) /\ Len(tail) \in Nat
  BY DEF RecTypeOK
<1>2. kept \in Seq(LogRecs) /\ Len(kept) = n /\ Elements(kept) = {tail[i] : i \in 1 .. n}
  BY <1>1, PrefixOf
<1>3. wal' = wal \o kept /\ tail' = <<>>
  BY DEF Survives
<1> HIDE DEF kept
<1>4. /\ wal \o kept \in Seq(LogRecs) /\ Len(wal \o kept) = Len(wal) + Len(kept)
      /\ Elements(wal \o kept) = Elements(wal) \union Elements(kept)
  BY <1>1, <1>2, ElementsOfConcat
<1>5. InLog' = Elements(wal') \union Elements(tail')
  BY DEF InLog, Elements
<1>6. InLog' = Elements(wal) \union {tail[i] : i \in 1 .. n}
  BY <1>2, <1>3, <1>4, <1>5, ElementsOfEmpty
<1>7. {tail[i] : i \in 1 .. n} \subseteq Elements(tail)
  BY <1>1 DEF Elements
<1> QED
  BY <1>2, <1>3, <1>4, <1>6, <1>7 DEF InLog

(* What the log does in each step. *)
LEMMA LogOfStep ==
    ASSUME RecTypeOK, StageInv
    PROVE  /\ Placing =>
                /\ wal' \in Seq(LogRecs) /\ tail' \in Seq(LogRecs)
                /\ next_lsn' = next_lsn + 1 /\ next_lsn' \in Nat \ {0}
                /\ InLog' = InLog \union {[lsn |-> next_lsn, tx |-> cur,
                                           rid |-> Len(rows) + 1, type |-> "INSERT_ROW"]}
           /\ \A r \in 1 .. Len(rows) : Marking(r) =>
                /\ wal' \in Seq(LogRecs) /\ tail' \in Seq(LogRecs)
                /\ next_lsn' = next_lsn + 1 /\ next_lsn' \in Nat \ {0}
                /\ InLog' = InLog \union {[lsn |-> next_lsn, tx |-> cur,
                                           rid |-> r, type |-> "DELETE_ROW"]}
           /\ Ending =>
                /\ wal' \in Seq(LogRecs) /\ tail' \in Seq(LogRecs)
                /\ next_lsn' = next_lsn + 1 /\ next_lsn' \in Nat \ {0}
                /\ \E type \in {"COMMIT", "ABORT"} :
                      InLog' = InLog \union {[lsn |-> next_lsn, tx |-> cur,
                                              rid |-> 0, type |-> type]}
           /\ Flushing =>
                /\ wal' \in Seq(LogRecs) /\ tail' \in Seq(LogRecs)
                /\ InLog' = InLog
           /\ Begin \/ Abort \/ RollbackWrite \/ Analysis \/ Redoing =>
                /\ wal' = wal /\ tail' = tail /\ InLog' = InLog
                /\ next_lsn' = next_lsn
           /\ Dying =>
                /\ wal' \in Seq(LogRecs) /\ tail' = <<>> /\ InLog' \subseteq InLog
<1>1. Len(rows) \in Nat /\ \A r \in 1 .. Len(rows) : r \in Nat
  BY DEF RecTypeOK
<1>2. Placing => cur \in TxIds /\ AppendLogRecord("INSERT_ROW", Len(rows) + 1)
  BY DEF Placing, InsertRow, InsertNewVersion, PlaceRecord, StageInv, Active
<1>3. \A r \in 1 .. Len(rows) : Marking(r) => cur \in TxIds /\ AppendLogRecord("DELETE_ROW", r)
  BY DEF Marking, DeleteRow, UpdateOld, MarkRecord, StageInv, Active
<1>4. Ending => cur \in TxIds /\ (AppendLogRecord("COMMIT", 0) \/ AppendLogRecord("ABORT", 0))
  BY DEF Ending, CommitLog, AbortLog, StageInv, Active
<1>5. Flushing => wal' = wal \o tail /\ tail' = <<>>
  BY DEF Flushing, CommitFlush, AbortFlush, FlushLog
<1>6. Begin \/ Abort \/ RollbackWrite \/ Analysis \/ Redoing =>
        wal' = wal /\ tail' = tail /\ next_lsn' = next_lsn
  BY DEF Begin, Abort, RollbackWrite, Analysis, Redoing, RedoApply, RedoSkip, Redone, logVars
<1>8. ASSUME Placing
      PROVE  /\ wal' \in Seq(LogRecs) /\ tail' \in Seq(LogRecs)
             /\ next_lsn' = next_lsn + 1 /\ next_lsn' \in Nat \ {0}
             /\ InLog' = InLog \union {[lsn |-> next_lsn, tx |-> cur,
                                        rid |-> Len(rows) + 1, type |-> "INSERT_ROW"]}
  <2>1. Len(rows) + 1 \in Nat /\ "INSERT_ROW" \in DataTypes \union {"COMMIT", "ABORT"}
    BY <1>1 DEF DataTypes
  <2> QED
    BY <1>2, <1>8, <2>1, LogAppended
<1>9. ASSUME NEW r \in 1 .. Len(rows), Marking(r)
      PROVE  /\ wal' \in Seq(LogRecs) /\ tail' \in Seq(LogRecs)
             /\ next_lsn' = next_lsn + 1 /\ next_lsn' \in Nat \ {0}
             /\ InLog' = InLog \union {[lsn |-> next_lsn, tx |-> cur,
                                        rid |-> r, type |-> "DELETE_ROW"]}
  <2>1. r \in Nat /\ "DELETE_ROW" \in DataTypes \union {"COMMIT", "ABORT"}
    BY <1>1 DEF DataTypes
  <2> QED
    BY <1>3, <1>9, <2>1, LogAppended
<1>10. ASSUME Ending
       PROVE  /\ wal' \in Seq(LogRecs) /\ tail' \in Seq(LogRecs)
              /\ next_lsn' = next_lsn + 1 /\ next_lsn' \in Nat \ {0}
              /\ \E type \in {"COMMIT", "ABORT"} :
                    InLog' = InLog \union {[lsn |-> next_lsn, tx |-> cur, rid |-> 0, type |-> type]}
  <2>1. PICK type \in {"COMMIT", "ABORT"} : AppendLogRecord(type, 0)
    BY <1>4, <1>10
  <2>2. type \in DataTypes \union {"COMMIT", "ABORT"} /\ 0 \in Nat /\ cur \in TxIds
    BY <1>4, <1>10
  <2> QED
    BY <2>1, <2>2, LogAppended
<1>11. ASSUME Flushing
       PROVE  wal' \in Seq(LogRecs) /\ tail' \in Seq(LogRecs) /\ InLog' = InLog
  BY <1>5, <1>11, LogFlushed
<1>12. ASSUME Begin \/ Abort \/ RollbackWrite \/ Analysis \/ Redoing
       PROVE  wal' = wal /\ tail' = tail /\ InLog' = InLog /\ next_lsn' = next_lsn
  BY <1>6, <1>12, LogSame
<1>13. ASSUME Dying
       PROVE  wal' \in Seq(LogRecs) /\ tail' = <<>> /\ InLog' \subseteq InLog
  <2>1. PICK n \in 0 .. Len(tail) : Survives(n)
    BY <1>13, DyingLog
  <2> QED
    BY <2>1, SurvivingLog DEF Survives
<1> QED
  BY <1>8, <1>9, <1>10, <1>11, <1>12, <1>13

-----------------------------------------------------------------------------
(* MarkDelete writes three fields of a header. *)
Marked(f, r, t, p) == [f EXCEPT ![r].trx = t, ![r].roll = p, ![r].del = TRUE]

LEMMA HeaderMarked ==
    ASSUME NEW f \in Seq(Headers), NEW r, NEW t \in TxIds, NEW p \in Nat
    PROVE  /\ Marked(f, r, t, p) \in Seq(Headers)
           /\ Len(Marked(f, r, t, p)) = Len(f)
           /\ \A q \in 1 .. Len(f) :
                 Marked(f, r, t, p)[q].trx = IF q = r THEN t ELSE f[q].trx
<1> DEFINE h == [[[f[r] EXCEPT !.trx = t] EXCEPT !.roll = p] EXCEPT !.del = TRUE]
           g == Marked(f, r, t, p)
<1>1. Len(f) \in Nat /\ DOMAIN f = 1 .. Len(f) /\ \A q \in 1 .. Len(f) : f[q] \in Headers
  OBVIOUS
<1>2. r \in 1 .. Len(f) => h \in Headers /\ h.trx = t
  BY <1>1 DEF Headers
<1>3. g = [f EXCEPT ![r] = h]
  BY <1>1 DEF Marked
<1> HIDE DEF h, g
<1>4. \A q \in 1 .. Len(f) : g[q] = IF q = r THEN h ELSE f[q]
  BY <1>1, <1>3
<1>5. g \in [1 .. Len(f) -> Headers]
  BY <1>1, <1>2, <1>3
<1>6. g \in Seq(Headers) /\ Len(g) = Len(f)
  BY <1>1, <1>5
<1>7. \A q \in 1 .. Len(f) : g[q].trx = IF q = r THEN t ELSE f[q].trx
  BY <1>2, <1>4
<1> QED
  BY <1>6, <1>7 DEF g

(* RestoreRecord writes the same three. *)
Restored(f, r, t, p) == [f EXCEPT ![r].trx = t, ![r].roll = p, ![r].del = FALSE]

LEMMA HeaderRestored ==
    ASSUME NEW f \in Seq(Headers), NEW r, NEW t \in TxIds, NEW p \in Nat
    PROVE  /\ Restored(f, r, t, p) \in Seq(Headers)
           /\ Len(Restored(f, r, t, p)) = Len(f)
           /\ \A q \in 1 .. Len(f) :
                 Restored(f, r, t, p)[q].trx = IF q = r THEN t ELSE f[q].trx
<1> DEFINE h == [[[f[r] EXCEPT !.trx = t] EXCEPT !.roll = p] EXCEPT !.del = FALSE]
           g == Restored(f, r, t, p)
<1>1. Len(f) \in Nat /\ DOMAIN f = 1 .. Len(f) /\ \A q \in 1 .. Len(f) : f[q] \in Headers
  OBVIOUS
<1>2. r \in 1 .. Len(f) => h \in Headers /\ h.trx = t
  BY <1>1 DEF Headers
<1>3. g = [f EXCEPT ![r] = h]
  BY <1>1 DEF Restored
<1> HIDE DEF h, g
<1>4. \A q \in 1 .. Len(f) : g[q] = IF q = r THEN h ELSE f[q]
  BY <1>1, <1>3
<1>5. g \in [1 .. Len(f) -> Headers]
  BY <1>1, <1>2, <1>3
<1>6. g \in Seq(Headers) /\ Len(g) = Len(f)
  BY <1>1, <1>5
<1>7. \A q \in 1 .. Len(f) : g[q].trx = IF q = r THEN t ELSE f[q].trx
  BY <1>2, <1>4
<1> QED
  BY <1>6, <1>7 DEF g

(* MarkDead writes one. *)
LEMMA HeaderDead ==
    ASSUME NEW f \in Seq(Headers), NEW r
    PROVE  LET g == [f EXCEPT ![r].dead = TRUE]
           IN  /\ g \in Seq(Headers)
               /\ Len(g) = Len(f)
               /\ \A q \in 1 .. Len(f) : g[q].trx = f[q].trx
<1> DEFINE h == [f[r] EXCEPT !.dead = TRUE]
           g == [f EXCEPT ![r].dead = TRUE]
<1>1. Len(f) \in Nat /\ DOMAIN f = 1 .. Len(f) /\ \A q \in 1 .. Len(f) : f[q] \in Headers
  OBVIOUS
<1>2. r \in 1 .. Len(f) => h \in Headers /\ h.trx = f[r].trx
  BY <1>1 DEF Headers
<1>3. g = [f EXCEPT ![r] = h]
  OBVIOUS
<1> HIDE DEF h, g
<1>4. \A q \in 1 .. Len(f) : g[q] = IF q = r THEN h ELSE f[q]
  BY <1>1, <1>3
<1>5. g \in [1 .. Len(f) -> Headers]
  BY <1>1, <1>2, <1>3
<1>6. g \in Seq(Headers) /\ Len(g) = Len(f)
  BY <1>1, <1>5
<1>7. \A q \in 1 .. Len(f) : g[q].trx = f[q].trx
  BY <1>2, <1>4
<1> QED
  BY <1>6, <1>7 DEF g

(***************************************************************************)
(* What each step does to the ids in record headers: they come from the    *)
(* session's transaction, a log record of the file, or a write set.        *)
(***************************************************************************)
LEMMA HeadersOfStep ==
    ASSUME RecTypeOK, StageInv
    PROVE  /\ Placing =>
                /\ rows' \in Seq(Headers) /\ Len(rows') = Len(rows) + 1
                /\ \A q \in 1 .. Len(rows) + 1 :
                      rows'[q].trx = IF q <= Len(rows) THEN rows[q].trx ELSE cur
           /\ \A r \in 1 .. Len(rows) : Marking(r) =>
                /\ rows' \in Seq(Headers) /\ Len(rows') = Len(rows)
                /\ \A q \in 1 .. Len(rows) :
                      rows'[q].trx = IF q = r THEN cur ELSE rows[q].trx
           /\ RollbackWrite =>
                LET w == write_set[Len(write_set)]
                IN  /\ rows' \in Seq(Headers) /\ Len(rows') = Len(rows)
                    /\ w.type = "INSERT" \/ w.prev_trx \in TxIds
                    /\ \A q \in 1 .. Len(rows) : rows'[q].trx =
                          IF q = w.rid /\ w.type # "INSERT" THEN w.prev_trx ELSE rows[q].trx
           /\ Redoing =>
                /\ rows' \in Seq(Headers) /\ Len(rows') = Len(rows)
                /\ \A q \in 1 .. Len(rows) :
                      rows'[q].trx \in {rows[q].trx, wal[redo_pos].tx}
           /\ Begin \/ Ending \/ Flushing \/ Abort \/ Dying \/ Analysis => rows' = rows
<1>1. rows \in Seq(Headers) /\ Len(rows) \in Nat /\ pending \in Nat /\ Len(undo) \in Nat
  BY DEF RecTypeOK
<1>2. ASSUME Placing
      PROVE  /\ rows' \in Seq(Headers) /\ Len(rows') = Len(rows) + 1
             /\ \A q \in 1 .. Len(rows) + 1 :
                   rows'[q].trx = IF q <= Len(rows) THEN rows[q].trx ELSE cur
  <2>1. PICK roll \in Nat :
          rows' = Append(rows, [trx |-> cur, roll |-> roll, del |-> FALSE, dead |-> FALSE])
    BY <1>1, <1>2 DEF Placing, InsertRow, InsertNewVersion, PlaceRecord
  <2> DEFINE h == [trx |-> cur, roll |-> roll, del |-> FALSE, dead |-> FALSE]
  <2>2. cur \in TxIds
    BY <1>2 DEF Placing, InsertRow, InsertNewVersion, StageInv, Active
  <2>3. h \in Headers /\ h.trx = cur
    BY <2>2 DEF Headers
  <2> HIDE DEF h
  <2>4. rows' = Append(rows, h)
    BY <2>1 DEF h
  <2>5. /\ rows' \in Seq(Headers) /\ Len(rows') = Len(rows) + 1
        /\ \A q \in 1 .. Len(rows) : rows'[q] = rows[q]
        /\ rows'[Len(rows) + 1] = h
    BY <1>1, <2>3, <2>4, AppendProperties
  <2> QED
    BY <1>1, <2>3, <2>5
<1>3. ASSUME NEW r \in 1 .. Len(rows), Marking(r)
      PROVE  /\ rows' \in Seq(Headers) /\ Len(rows') = Len(rows)
             /\ \A q \in 1 .. Len(rows) :
                   rows'[q].trx = IF q = r THEN cur ELSE rows[q].trx
  <2>1. /\ rows' = [rows EXCEPT ![r].trx = cur, ![r].roll = Len(undo) + 1, ![r].del = TRUE]
        /\ cur \in TxIds
    BY <1>3 DEF Marking, DeleteRow, UpdateOld, MarkRecord, StageInv, Active
  <2> DEFINE p == Len(undo) + 1
             g == Marked(rows, r, cur, p)
  <2>2. p \in Nat /\ rows' = g
    BY <1>1, <2>1 DEF Marked
  <2> HIDE DEF p
  <2>3. /\ g \in Seq(Headers) /\ Len(g) = Len(rows)
        /\ \A q \in 1 .. Len(rows) : g[q].trx = IF q = r THEN cur ELSE rows[q].trx
    BY <1>1, <2>1, <2>2, HeaderMarked
  <2> HIDE DEF g
  <2> QED
    BY <2>2, <2>3
<1>4. ASSUME RollbackWrite
      PROVE  LET w == write_set[Len(write_set)]
             IN  /\ rows' \in Seq(Headers) /\ Len(rows') = Len(rows)
                 /\ w.type = "INSERT" \/ w.prev_trx \in TxIds
                 /\ \A q \in 1 .. Len(rows) : rows'[q].trx =
                       IF q = w.rid /\ w.type # "INSERT" THEN w.prev_trx ELSE rows[q].trx
  <2> DEFINE w == write_set[Len(write_set)]
  <2>1. /\ Len(write_set) \in 1 .. Len(write_set) /\ w \in Writes
    BY <1>4 DEF RollbackWrite, RecTypeOK
  <2>2. w.type \in {"INSERT", "DELETE"} /\ w.prev_roll \in Nat
        /\ (w.type = "DELETE" => w.prev_trx \in TxIds)
    BY <2>1 DEF Writes, StageInv
  <2>3. rows' = IF w.type = "INSERT" THEN [rows EXCEPT ![w.rid].dead = TRUE]
                ELSE [rows EXCEPT ![w.rid].trx = w.prev_trx, ![w.rid].roll = w.prev_roll,
                                  ![w.rid].del = FALSE]
    BY <1>4 DEF RollbackWrite, MarkDead
  <2> HIDE DEF w
  <2>4. CASE w.type = "INSERT"
    BY <1>1, <2>3, <2>4, HeaderDead DEF w
  <2>5. CASE w.type # "INSERT"
    <3> DEFINE g == Restored(rows, w.rid, w.prev_trx, w.prev_roll)
    <3>1. w.prev_trx \in TxIds /\ rows' = g
      BY <2>2, <2>3, <2>5 DEF Restored
    <3>2. /\ g \in Seq(Headers) /\ Len(g) = Len(rows)
          /\ \A q \in 1 .. Len(rows) : g[q].trx = IF q = w.rid THEN w.prev_trx ELSE rows[q].trx
      BY <1>1, <2>2, <3>1, HeaderRestored
    <3> HIDE DEF g
    <3>3. /\ rows' \in Seq(Headers) /\ Len(rows') = Len(rows)
          /\ \A q \in 1 .. Len(rows) : rows'[q].trx = IF q = w.rid THEN w.prev_trx ELSE rows[q].trx
      BY <3>1, <3>2
    <3> QED
      BY <2>5, <3>1, <3>3 DEF w
  <2> QED
    BY <2>4, <2>5
<1>5. ASSUME Redoing
      PROVE  /\ rows' \in Seq(Headers) /\ Len(rows') = Len(rows)
             /\ \A q \in 1 .. Len(rows) :
                   rows'[q].trx \in {rows[q].trx, wal[redo_pos].tx}
  <2> DEFINE rec == wal[redo_pos]
  <2>1. stage = "redo"
    BY <1>5 DEF Redoing, RedoApply, RedoSkip
  <2>2. rec \in LogRecs
    BY <2>1 DEF StageInv, RecTypeOK
  <2>3. rec.tx \in TxIds
    BY <2>2 DEF LogRecs
  <2>4. \/ rows' = rows
        \/ rows' = [rows EXCEPT ![rec.rid].trx = rec.tx, ![rec.rid].roll = 0, ![rec.rid].del = TRUE]
    BY <1>5 DEF Redoing, RedoApply, RedoSkip, pageVars
  <2> HIDE DEF rec
  <2>5. CASE rows' = rows
    BY <2>5, <1>1
  <2>6. CASE rows' = [rows EXCEPT ![rec.rid].trx = rec.tx, ![rec.rid].roll = 0, ![rec.rid].del = TRUE]
    <3> DEFINE g == Marked(rows, rec.rid, rec.tx, 0)
    <3>1. /\ g \in Seq(Headers) /\ Len(g) = Len(rows)
          /\ \A q \in 1 .. Len(rows) : g[q].trx = IF q = rec.rid THEN rec.tx ELSE rows[q].trx
      BY <1>1, <2>3, HeaderMarked
    <3>2. rows' = g
      BY <2>6 DEF Marked
    <3> HIDE DEF g
    <3> QED
      BY <3>1, <3>2 DEF rec
  <2> QED
    BY <2>4, <2>5, <2>6
<1>6. Begin \/ Ending \/ Flushing \/ Abort \/ Dying \/ Analysis => rows' = rows
  BY DEF Begin, Ending, CommitLog, AbortLog, Flushing, CommitFlush, AbortFlush, Abort, Dying, Exit,
         Crash, GoDown, Analysis, pageVars
<1> QED
  BY <1>2, <1>3, <1>4, <1>5, <1>6

(* A write set grows by one record, or loses its newest one. *)
LEMMA WritesOfStep ==
    ASSUME RecTypeOK, StageInv
    PROVE  /\ Placing =>
                /\ write_set' \in Seq(Writes)
                /\ \A i \in 1 .. Len(write_set') : write_set'[i].type = "DELETE" =>
                      i \in 1 .. Len(write_set) /\ write_set'[i] = write_set[i]
           /\ \A r \in 1 .. Len(rows) : Marking(r) =>
                /\ write_set' \in Seq(Writes)
                /\ \A i \in 1 .. Len(write_set') :
                      \/ i \in 1 .. Len(write_set) /\ write_set'[i] = write_set[i]
                      \/ write_set'[i].prev_trx = rows[r].trx
           /\ RollbackWrite =>
                /\ write_set' \in Seq(Writes)
                /\ \A i \in 1 .. Len(write_set') :
                      i \in 1 .. Len(write_set) /\ write_set'[i] = write_set[i]
           /\ Ending \/ Flushing \/ Abort \/ Analysis \/ Redoing => write_set' = write_set
           /\ Begin \/ Dying => write_set' = <<>>
<1>1. write_set \in Seq(Writes) /\ Len(write_set) \in Nat /\ Len(rows) \in Nat
  BY DEF RecTypeOK
<1>2. ASSUME NEW w \in Writes, write_set' = Append(write_set, w)
      PROVE  /\ write_set' \in Seq(Writes)
             /\ \A i \in 1 .. Len(write_set') :
                   \/ i \in 1 .. Len(write_set) /\ write_set'[i] = write_set[i]
                   \/ write_set'[i] = w
  <2>1. /\ Append(write_set, w) \in Seq(Writes)
        /\ Len(Append(write_set, w)) = Len(write_set) + 1
        /\ \A i \in 1 .. Len(write_set) : Append(write_set, w)[i] = write_set[i]
        /\ Append(write_set, w)[Len(write_set) + 1] = w
    BY <1>1, AppendProperties
  <2> QED
    BY <1>1, <1>2, <2>1
<1>3. ASSUME Placing
      PROVE  /\ write_set' \in Seq(Writes)
             /\ \A i \in 1 .. Len(write_set') : write_set'[i].type = "DELETE" =>
                   i \in 1 .. Len(write_set) /\ write_set'[i] = write_set[i]
  <2> DEFINE w == [rid |-> Len(rows) + 1, type |-> "INSERT",
                   prev_trx |-> INVALID_TX_ID, prev_roll |-> 0]
  <2>1. write_set' = Append(write_set, w)
    BY <1>3 DEF Placing, InsertRow, InsertNewVersion, PlaceRecord
  <2>2. w \in Writes /\ w.type = "INSERT"
    BY <1>1 DEF Writes, INVALID_TX_ID
  <2> HIDE DEF w
  <2> QED
    BY <1>2, <2>1, <2>2
<1>4. ASSUME NEW r \in 1 .. Len(rows), Marking(r)
      PROVE  /\ write_set' \in Seq(Writes)
             /\ \A i \in 1 .. Len(write_set') :
                   \/ i \in 1 .. Len(write_set) /\ write_set'[i] = write_set[i]
                   \/ write_set'[i].prev_trx = rows[r].trx
  <2> DEFINE w == [rid |-> r, type |-> "DELETE",
                   prev_trx |-> rows[r].trx, prev_roll |-> rows[r].roll]
  <2>1. write_set' = Append(write_set, w)
    BY <1>4 DEF Marking, DeleteRow, UpdateOld, MarkRecord
  <2>2. rows[r] \in Headers
    BY DEF RecTypeOK
  <2>3. w \in Writes /\ w.prev_trx = rows[r].trx
    BY <1>1, <2>2, MaxTxidAssumption DEF Writes, Headers, TxIds
  <2> HIDE DEF w
  <2> QED
    BY <1>2, <2>1, <2>3
<1>5. ASSUME RollbackWrite
      PROVE  /\ write_set' \in Seq(Writes)
             /\ \A i \in 1 .. Len(write_set') :
                   i \in 1 .. Len(write_set) /\ write_set'[i] = write_set[i]
  <2> DEFINE n == Len(write_set) - 1
  <2>1. write_set' = SubSeq(write_set, 1, n) /\ write_set # <<>>
    BY <1>5 DEF RollbackWrite
  <2>2. n \in Nat /\ Len(write_set) = n + 1
    BY <1>1, <2>1
  <2>3. \A i \in 1 .. n : write_set[i] \in Writes
    BY <1>1, <2>2
  <2> HIDE DEF n
  <2>4. /\ SubSeq(write_set, 1, n) \in Seq(Writes)
        /\ Len(SubSeq(write_set, 1, n)) = IF 1 <= n THEN n - 1 + 1 ELSE 0
        /\ \A i \in 1 .. n - 1 + 1 : SubSeq(write_set, 1, n)[i] = write_set[1 + i - 1]
    BY <2>2, <2>3, SubSeqProperties
  <2>5. /\ Len(SubSeq(write_set, 1, n)) = n
        /\ \A i \in 1 .. n : SubSeq(write_set, 1, n)[i] = write_set[i]
    BY <2>2, <2>4
  <2> QED
    BY <2>1, <2>2, <2>4, <2>5
<1>6. Ending \/ Flushing \/ Abort \/ Analysis \/ Redoing => write_set' = write_set
  BY DEF Ending, CommitLog, AbortLog, Flushing, CommitFlush, AbortFlush, Abort, Analysis, Redoing,
         RedoApply, RedoSkip, txnVars
<1>7. Begin \/ Dying => write_set' = <<>>
  BY DEF Begin, Dying, Exit, Crash, GoDown
<1> QED
  BY <1>3, <1>4, <1>5, <1>6, <1>7

(* The id that Analysis gives the next transaction is above all of the log. *)
LEMMA AnalysisIds ==
    ASSUME RecTypeOK, StageInv, Analysis
    PROVE  /\ next_txid' \in 1 .. (MaxTxid + 1)
           /\ \A x \in InLog : x.tx < next_txid'
<1> DEFINE ids == {wal[i].tx : i \in 1 .. Len(wal)} \union {0}
           m == Max(ids)
<1>1. /\ next_txid' = Max({m + 1, next_txid}) /\ tail = <<>>
  BY DEF Analysis, AdvanceNextTxId, StageInv
<1>2. ids \subseteq 0 .. MaxTxid /\ ids # {} /\ \A i \in 1 .. Len(wal) : wal[i].tx \in ids
  <2>1. \A i \in 1 .. Len(wal) : wal[i] \in LogRecs
    BY DEF RecTypeOK
  <2>2. \A i \in 1 .. Len(wal) : wal[i].tx \in 0 .. MaxTxid
    BY <2>1, MaxTxidAssumption DEF LogRecs, TxIds
  <2>3. 0 \in 0 .. MaxTxid
    BY MaxTxidAssumption
  <2> QED
    BY <2>2, <2>3
<1> HIDE DEF ids
<1>3. m \in ids /\ \A y \in ids : m >= y
  BY <1>2, MaxOfBounded, MaxTxidAssumption
<1>4. m \in 0 .. MaxTxid
  BY <1>2, <1>3
<1> HIDE DEF m
<1> DEFINE two == {m + 1, next_txid}
<1>5. /\ two \subseteq 0 .. (MaxTxid + 1) /\ two # {} /\ MaxTxid + 1 \in Nat
      /\ two \subseteq 1 .. (MaxTxid + 1) /\ m + 1 \in two
  BY <1>4, MaxTxidAssumption DEF RecTypeOK
<1> HIDE DEF two
<1>6. Max(two) \in two /\ \A y \in two : Max(two) >= y
  BY <1>5, MaxOfBounded
<1>7. next_txid' = Max(two)
  BY <1>1 DEF two
<1>8. next_txid' \in 1 .. (MaxTxid + 1) /\ m < next_txid'
  <2>1. next_txid' \in 1 .. (MaxTxid + 1)
    BY <1>5, <1>6, <1>7
  <2>2. next_txid' >= m + 1
    BY <1>5, <1>6, <1>7
  <2> QED
    BY <1>4, <2>1, <2>2, MaxTxidAssumption
<1>9. ASSUME NEW x \in InLog PROVE x.tx < next_txid'
  <2>1. x \in Elements(wal)
    BY <1>1, ElementsOfEmpty DEF InLog
  <2>2. PICK i \in 1 .. Len(wal) : x = wal[i]
    BY <2>1 DEF Elements
  <2>3. x.tx \in ids
    BY <1>2, <2>2
  <2>4. x.tx <= m /\ x.tx \in 0 .. MaxTxid
    BY <1>2, <1>3, <1>4, <2>3
  <2> QED
    BY <1>4, <1>8, <2>4
<1> QED
  BY <1>8, <1>9

(* An undo image is added by a mark and by nothing else. *)
LEMMA ImagesOfStep ==
    ASSUME RecTypeOK, StageInv
    PROVE  /\ \A r \in 1 .. Len(rows) : Marking(r) =>
                /\ undo' \in Seq(Images)
                /\ \A p \in 1 .. Len(undo') :
                      \/ p \in 1 .. Len(undo) /\ undo'[p] = undo[p]
                      \/ undo'[p].trx = rows[r].trx
           /\ Begin \/ Placing \/ Ending \/ Flushing \/ Abort \/ RollbackWrite \/ Dying
                \/ Analysis \/ Redoing => undo' = undo
<1>1. undo \in Seq(Images) /\ Len(undo) \in Nat /\ Len(rows) \in Nat
  BY DEF RecTypeOK
<1>2. ASSUME NEW r \in 1 .. Len(rows), Marking(r)
      PROVE  /\ undo' \in Seq(Images)
             /\ \A p \in 1 .. Len(undo') :
                   \/ p \in 1 .. Len(undo) /\ undo'[p] = undo[p]
                   \/ undo'[p].trx = rows[r].trx
  <2> DEFINE u == [trx |-> rows[r].trx, roll |-> rows[r].roll, ver |-> r]
  <2>1. undo' = Append(undo, u)
    BY <1>2 DEF Marking, DeleteRow, UpdateOld, MarkRecord
  <2>2. rows[r] \in Headers
    BY DEF RecTypeOK
  <2>3. u \in Images /\ u.trx = rows[r].trx
    BY <1>1, <2>2 DEF Images, Headers
  <2> HIDE DEF u
  <2>4. /\ Append(undo, u) \in Seq(Images)
        /\ Len(Append(undo, u)) = Len(undo) + 1
        /\ \A p \in 1 .. Len(undo) : Append(undo, u)[p] = undo[p]
        /\ Append(undo, u)[Len(undo) + 1] = u
    BY <1>1, <2>3, AppendProperties
  <2> QED
    BY <1>1, <2>1, <2>3, <2>4
<1>3. Begin \/ Placing \/ Ending \/ Flushing \/ Abort \/ RollbackWrite \/ Dying
        \/ Analysis \/ Redoing => undo' = undo
  BY DEF Begin, Placing, InsertRow, InsertNewVersion, PlaceRecord, Ending, CommitLog, AbortLog,
         Flushing, CommitFlush, AbortFlush, Abort, RollbackWrite, Dying, Exit, Crash,
         GoDown, Analysis, Redoing, RedoApply, RedoSkip, pageVars
<1> QED
  BY <1>2, <1>3

(* The counters that a step leaves alone or moves. *)
LEMMA CountersOfStep ==
    ASSUME RecTypeOK, StageInv, RecNext
    PROVE  /\ page_lsn' \in Nat
           /\ next_lsn' \in Nat \ {0}
           /\ pending' \in Nat
           /\ stage' \in Active \union {"idle", "down", "redo"}
           /\ redo_pos' \in Nat
           /\ run' \in Nat \ {0}
           /\ next_txid' \in 1 .. (MaxTxid + 1)
<1>1. /\ page_lsn \in Nat /\ next_lsn \in Nat \ {0} /\ pending \in Nat /\ redo_pos \in Nat
      /\ run \in Nat \ {0} /\ Len(undo) \in Nat /\ next_txid \in 1 .. (MaxTxid + 1)
      /\ stage \in Active \union {"idle", "down", "redo"} /\ MaxTxid \in Nat
  BY MaxTxidAssumption DEF RecTypeOK
<1>2. CASE Begin
  BY <1>1, <1>2 DEF Begin, pageVars, logVars, Active
<1>3. CASE Placing
  <2>1. /\ page_lsn' = next_lsn /\ next_lsn' = next_lsn + 1
        /\ stage' = stage /\ redo_pos' = redo_pos /\ run' = run /\ next_txid' = next_txid
    BY <1>3 DEF Placing, InsertRow, InsertNewVersion, PlaceRecord, SetLsn, AppendLogRecord
  <2>2. pending' = pending \/ pending' = 0
    BY <1>3 DEF Placing, InsertRow, InsertNewVersion
  <2> QED
    BY ONLY <1>1, <2>1, <2>2
<1>4. CASE \E r \in 1 .. Len(rows) : Marking(r)
  <2>1. /\ page_lsn' = next_lsn /\ next_lsn' = next_lsn + 1
        /\ stage' = stage /\ redo_pos' = redo_pos /\ run' = run /\ next_txid' = next_txid
    BY <1>4 DEF Marking, DeleteRow, UpdateOld, MarkRecord, SetLsn, AppendLogRecord
  <2>2. pending' = pending \/ pending' = Len(undo) + 1
    BY <1>4 DEF Marking, DeleteRow, UpdateOld
  <2> QED
    BY ONLY <1>1, <2>1, <2>2
<1>5. CASE Ending
  <2>1. /\ page_lsn' = page_lsn /\ next_lsn' = next_lsn + 1 /\ pending' = pending
        /\ redo_pos' = redo_pos /\ run' = run /\ next_txid' = next_txid
        /\ stage' = "committing" \/ stage' = "aborting" \/ stage' = "idle" \/ stage' = stage
    BY <1>5 DEF Ending, CommitLog, AbortLog, AppendLogRecord, pageVars
  <2> QED
    BY ONLY <1>1, <2>1 DEF Active
<1>6. CASE Flushing
  BY <1>1, <1>6 DEF Flushing, CommitFlush, AbortFlush, FlushLog, pageVars
<1>7. CASE Abort
  BY <1>1, <1>7 DEF Abort, pageVars, logVars, txnVars, Active
<1>8. CASE RollbackWrite
  BY <1>1, <1>8 DEF RollbackWrite, logVars
<1>9. CASE Dying
  BY <1>1, <1>9 DEF Dying, Exit, Crash, GoDown, pageVars
<1>10. CASE Analysis
  <2>1. next_txid' \in 1 .. (MaxTxid + 1)
    BY <1>10, AnalysisIds
  <2> QED
    BY <1>1, <1>10, <2>1 DEF Analysis, pageVars, logVars
<1>11. CASE Redoing
  <2>1. wal[redo_pos] \in LogRecs
    BY <1>11 DEF Redoing, RedoApply, RedoSkip, StageInv, RecTypeOK
  <2>2. wal[redo_pos].lsn \in Nat
    BY <2>1 DEF LogRecs
  <2> QED
    BY <1>1, <1>11, <2>2 DEF Redoing, RedoApply, RedoSkip, Redone, SetLsn, pageVars, txnVars
<1> QED
  BY RecCases, <1>2, <1>3, <1>4, <1>5, <1>6, <1>7, <1>8, <1>9, <1>10, <1>11

(* Every step keeps the types. *)
LEMMA RecTypeStep ==
    ASSUME RecTypeOK, StageInv, RecNext
    PROVE  RecTypeOK'
<1>1. wal' \in Seq(LogRecs) /\ tail' \in Seq(LogRecs)
  <2>1. wal \in Seq(LogRecs) /\ tail \in Seq(LogRecs) /\ <<>> \in Seq(LogRecs)
    BY DEF RecTypeOK
  <2> QED
    BY <2>1, RecCases, LogOfStep
<1>2. rows' \in Seq(Headers)
  <2>1. rows \in Seq(Headers)
    BY DEF RecTypeOK
  <2> QED
    BY <2>1, RecCases, HeadersOfStep
<1>3. write_set' \in Seq(Writes)
  <2>1. write_set \in Seq(Writes) /\ <<>> \in Seq(Writes)
    BY DEF RecTypeOK
  <2> QED
    BY <2>1, RecCases, WritesOfStep
<1>4. undo' \in Seq(Images)
  <2>1. undo \in Seq(Images)
    BY DEF RecTypeOK
  <2> QED
    BY <2>1, RecCases, ImagesOfStep
<1> QED
  BY <1>1, <1>2, <1>3, <1>4, CountersOfStep DEF RecTypeOK

(* Where each step leaves the program. *)
LEMMA StageOfStep ==
    ASSUME RecTypeOK, StageInv
    PROVE  /\ Begin => stage' = "running" /\ cur' = next_txid /\ next_txid' = next_txid + 1
                       /\ next_txid <= MaxTxid /\ run' = run /\ run <= WritingRuns
           /\ Placing \/ (\E r \in 1 .. Len(rows) : Marking(r)) =>
                /\ stage = "running" /\ stage' = stage /\ cur' = cur
                /\ next_txid' = next_txid /\ run' = run /\ page_lsn' = next_lsn
           /\ Ending \/ Abort =>
                /\ stage \in Active /\ stage' \in Active
                /\ cur' = cur /\ next_txid' = next_txid /\ run' = run /\ page_lsn' = page_lsn
           /\ RollbackWrite =>
                /\ stage \in Active /\ stage' \in Active
                /\ cur' = cur /\ next_txid' = next_txid /\ run' = run /\ page_lsn' = page_lsn
           /\ Flushing => stage' = "idle" /\ next_txid' = next_txid /\ run' = run
                          /\ page_lsn' = page_lsn /\ next_lsn' = next_lsn
           /\ Dying => stage' = "down"
           /\ Analysis => stage = "down" /\ run' = run
                          /\ (stage' = "idle" \/ (stage' = "redo" /\ wal # <<>> /\ redo_pos' = 1))
           /\ Redoing => stage = "redo" /\ next_txid' = next_txid /\ run' = run
                         /\ (stage' = "idle" \/ (stage' = "redo" /\ redo_pos # Len(wal)))
                         /\ redo_pos' = redo_pos + 1
<1>1. Begin => stage' = "running" /\ cur' = next_txid /\ next_txid' = next_txid + 1
               /\ next_txid <= MaxTxid /\ run' = run /\ run <= WritingRuns
  BY DEF Begin
<1>2. Placing => /\ stage = "running" /\ stage' = stage /\ cur' = cur
                 /\ next_txid' = next_txid /\ run' = run /\ page_lsn' = next_lsn
  BY DEF Placing, InsertRow, InsertNewVersion, PlaceRecord, SetLsn
<1>3. (\E r \in 1 .. Len(rows) : Marking(r)) =>
                 /\ stage = "running" /\ stage' = stage /\ cur' = cur
                 /\ next_txid' = next_txid /\ run' = run /\ page_lsn' = next_lsn
  BY DEF Marking, DeleteRow, UpdateOld, MarkRecord, SetLsn
<1>4. Ending \/ Abort => /\ stage \in Active /\ stage' \in Active
                /\ cur' = cur /\ next_txid' = next_txid /\ run' = run /\ page_lsn' = page_lsn
  BY DEF Ending, CommitLog, AbortLog, Abort, Active, pageVars, txnVars
<1>5. RollbackWrite => /\ stage \in Active /\ stage' \in Active
                /\ cur' = cur /\ next_txid' = next_txid /\ run' = run /\ page_lsn' = page_lsn
  BY DEF RollbackWrite, Active
<1>6. Flushing => stage' = "idle" /\ next_txid' = next_txid /\ run' = run
                  /\ page_lsn' = page_lsn /\ next_lsn' = next_lsn
  BY DEF Flushing, CommitFlush, AbortFlush, FlushLog, pageVars
<1>7. Dying => stage' = "down"
  BY DEF Dying, Exit, Crash, GoDown
<1>8. Analysis => stage = "down" /\ run' = run
                  /\ (stage' = "idle" \/ (stage' = "redo" /\ wal # <<>> /\ redo_pos' = 1))
  BY DEF Analysis
<1>9. Redoing => stage = "redo" /\ next_txid' = next_txid /\ run' = run
                 /\ (stage' = "idle" \/ (stage' = "redo" /\ redo_pos # Len(wal)))
                 /\ redo_pos' = redo_pos + 1
  BY DEF Redoing, RedoApply, RedoSkip, Redone, txnVars
<1> QED
  BY <1>1, <1>2, <1>3, <1>4, <1>5, <1>6, <1>7, <1>8, <1>9

(* Every step keeps what the stage says of the counters. *)
LEMMA StageStep ==
    ASSUME RecTypeOK, StageInv, RecNext
    PROVE  StageInv'
<1>1. next_txid \in 1 .. (MaxTxid + 1) /\ MaxTxid \in Nat /\ redo_pos \in Nat
      /\ wal \in Seq(LogRecs) /\ Len(wal) \in Nat
  BY MaxTxidAssumption DEF RecTypeOK
<1>2. (stage \in Active => cur \in TxIds /\ cur < next_txid) /\ (stage \in Active => run <= WritingRuns)
  BY DEF StageInv
<1>3. (stage \in Active => cur \in TxIds /\ cur < next_txid)'
  <2>1. CASE Begin
    BY <1>1, <2>1, StageOfStep DEF TxIds
  <2>2. CASE Placing \/ (\E r \in 1 .. Len(rows) : Marking(r)) \/ Ending \/ Abort \/ RollbackWrite
    BY <1>2, <2>2, StageOfStep DEF Active
  <2>3. CASE Flushing \/ Dying \/ Analysis \/ Redoing
    BY <2>3, StageOfStep DEF Active
  <2> QED
    BY RecCases, <2>1, <2>2, <2>3
<1>4. (stage \in Active => run <= WritingRuns)'
  <2>1. CASE Begin
    BY <2>1, StageOfStep
  <2>2. CASE Placing \/ (\E r \in 1 .. Len(rows) : Marking(r)) \/ Ending \/ Abort \/ RollbackWrite
    BY <1>2, <2>2, StageOfStep DEF Active
  <2>3. CASE Flushing \/ Dying \/ Analysis \/ Redoing
    BY <2>3, StageOfStep DEF Active
  <2> QED
    BY RecCases, <2>1, <2>2, <2>3
<1>5. (stage \in {"down", "redo"} => tail = <<>>)'
  <2>1. CASE Begin \/ Placing \/ (\E r \in 1 .. Len(rows) : Marking(r)) \/ Ending \/ Abort
             \/ RollbackWrite \/ Flushing
    BY <2>1, StageOfStep DEF Active
  <2>2. CASE Dying
    BY <2>2, LogOfStep
  <2>3. CASE Analysis \/ Redoing
    <3>1. tail' = tail /\ stage \in {"down", "redo"}
      BY <2>3, LogOfStep, StageOfStep
    <3> QED
      BY <3>1 DEF StageInv
  <2> QED
    BY RecCases, <2>1, <2>2, <2>3
<1>6. (stage = "redo" => redo_pos \in 1 .. Len(wal))'
  <2>1. CASE Begin \/ Placing \/ (\E r \in 1 .. Len(rows) : Marking(r)) \/ Ending \/ Abort
             \/ RollbackWrite \/ Flushing \/ Dying
    BY <2>1, StageOfStep DEF Active
  <2>2. CASE Analysis
    <3>1. wal' = wal
      BY <2>2, LogOfStep
    <3>2. wal # <<>> => Len(wal) >= 1
      BY <1>1
    <3> QED
      BY <1>1, <2>2, <3>1, <3>2, StageOfStep
  <2>3. CASE Redoing
    <3>1. wal' = wal
      BY <2>3, LogOfStep
    <3>2. redo_pos \in 1 .. Len(wal)
      BY <2>3, StageOfStep DEF StageInv
    <3>3. stage' = "redo" => redo_pos # Len(wal) /\ redo_pos' = redo_pos + 1
      BY <2>3, StageOfStep
    <3> QED
      BY <1>1, <3>1, <3>2, <3>3
  <2> QED
    BY RecCases, <2>1, <2>2, <2>3
<1>7. (\A i \in 1 .. Len(write_set) :
          write_set[i].type = "DELETE" => write_set[i].prev_trx \in TxIds)'
  <2> SUFFICES ASSUME NEW i \in 1 .. Len(write_set'), write_set'[i].type = "DELETE"
               PROVE  write_set'[i].prev_trx \in TxIds
    OBVIOUS
  <2>1. CASE i \in 1 .. Len(write_set) /\ write_set'[i] = write_set[i]
    BY <2>1 DEF StageInv
  <2>2. ASSUME NEW r \in 1 .. Len(rows), write_set'[i].prev_trx = rows[r].trx
        PROVE  write_set'[i].prev_trx \in TxIds
    <3>1. rows[r] \in Headers
      BY DEF RecTypeOK
    <3> QED
      BY <2>2, <3>1 DEF Headers
  <2>3. CASE Begin \/ Dying
    <3>1. write_set' = <<>>
      BY <2>3, WritesOfStep
    <3> QED
      BY <3>1
  <2>4. CASE \E r \in 1 .. Len(rows) : Marking(r)
    BY <2>1, <2>2, <2>4, WritesOfStep
  <2>5. CASE Placing \/ RollbackWrite
    BY <2>1, <2>5, WritesOfStep
  <2>6. CASE Ending \/ Flushing \/ Abort \/ Analysis \/ Redoing
    <3>1. write_set' = write_set
      BY <2>6, WritesOfStep
    <3> QED
      BY <2>1, <3>1
  <2> QED
    BY RecCases, <2>3, <2>4, <2>5, <2>6
<1> QED
  BY <1>3, <1>4, <1>5, <1>6, <1>7 DEF StageInv

-----------------------------------------------------------------------------
(* The state in which no log record is younger than the page. *)
Covered == run = 1 \/ (run = 2 /\ (stage \in {"down", "redo"} \/ WritingRuns < 2))

(* Dying leaves the page as it is; a new run starts, except in recovery. *)
LEMMA DyingRuns ==
    ASSUME RecTypeOK, StageInv, LsnInv, Dying
    PROVE  page_lsn' = page_lsn /\ run' # 1 /\ (run' = 2 => Covered)
<1>1. page_lsn' = page_lsn /\ run' = IF run > WritingRuns \/ stage = "redo" THEN run ELSE run + 1
  BY DEF Dying, Exit, Crash, GoDown, pageVars
<1>2. run \in Nat \ {0} /\ WritingRuns \in Nat \ {0} /\ (run = 1 => stage # "redo")
  BY WritingRunsAssumption DEF RecTypeOK, LsnInv
<1> QED
  BY <1>1, <1>2 DEF Covered

(* While no log record is younger than the page, Redo applies none. *)
LEMMA RedoSkips ==
    ASSUME RecTypeOK, StageInv, LsnInv, Redoing, Covered
    PROVE  rows' = rows /\ page_lsn' = page_lsn
<1> DEFINE rec == wal[redo_pos]
<1>1. redo_pos \in 1 .. Len(wal) /\ rec \in LogRecs
  BY DEF Redoing, RedoApply, RedoSkip, StageInv, RecTypeOK
<1>2. rec \in InLog
  BY <1>1 DEF InLog, Elements
<1>3. rec.type \in DataTypes => rec.lsn <= page_lsn
  BY <1>2 DEF LsnInv, Covered
<1>4. rec.lsn \in Nat /\ page_lsn \in Nat
  BY <1>1 DEF LogRecs, RecTypeOK
<1>5. ~RedoApply
  BY <1>3, <1>4 DEF RedoApply
<1> QED
  BY <1>5 DEF Redoing, RedoSkip, pageVars

(* Every step keeps the order of the page's LSN and the log's. *)
LEMMA LsnStep ==
    ASSUME RecTypeOK, StageInv, LsnInv, RecNext
    PROVE  LsnInv'
<1>1. page_lsn \in Nat /\ next_lsn \in Nat \ {0} /\ run \in Nat \ {0} /\ WritingRuns \in Nat \ {0}
  BY WritingRunsAssumption DEF RecTypeOK
<1>2. (run = 1 => stage \notin {"down", "redo"} /\ page_lsn < next_lsn)
      /\ (Covered => \A x \in InLog : x.type \in DataTypes => x.lsn <= page_lsn)
  BY DEF LsnInv, Covered
<1>3. \A x \in InLog : x \in LogRecs
  BY DEF InLog, Elements, RecTypeOK
<1>4. \A x \in InLog : x.lsn \in Nat
  BY <1>3 DEF LogRecs
<1>5. Covered' = (run' = 1 \/ (run' = 2 /\ (stage' \in {"down", "redo"} \/ WritingRuns < 2)))
  BY DEF Covered
<1>6. SUFFICES /\ run' = 1 => stage' \notin {"down", "redo"} /\ page_lsn' < next_lsn'
               /\ Covered' => \A x \in InLog' : x.type \in DataTypes => x.lsn <= page_lsn'
  BY <1>5 DEF LsnInv
<1>7. CASE Placing \/ (\E r \in 1 .. Len(rows) : Marking(r))
  <2>1. stage = "running" /\ stage' = stage /\ run' = run /\ page_lsn' = next_lsn
        /\ next_lsn' = next_lsn + 1
    BY <1>7, StageOfStep, LogOfStep
  <2>2. run <= WritingRuns
    BY <2>1 DEF StageInv, Active
  <2>3. Covered' => run = 1 /\ Covered
    BY <1>1, <1>5, <2>1, <2>2 DEF Covered
  <2>4. \A x \in InLog' : x \in InLog \/ x.lsn = next_lsn
    BY <1>7, LogOfStep
  <2> QED
    BY <1>1, <1>2, <1>4, <2>1, <2>3, <2>4
<1>8. CASE Ending
  <2>1. stage \in Active /\ stage' \in Active /\ run' = run /\ page_lsn' = page_lsn
        /\ next_lsn' = next_lsn + 1
    BY <1>8, StageOfStep, LogOfStep
  <2>2. Covered' => Covered
    BY <1>5, <2>1 DEF Covered, Active
  <2>3. \A x \in InLog' : x \in InLog \/ x.type \notin DataTypes
    BY <1>8, LogOfStep DEF DataTypes
  <2> QED
    BY <1>1, <1>2, <2>1, <2>2, <2>3 DEF Active
<1>9. CASE Begin \/ Abort \/ RollbackWrite \/ Flushing
  <2>1. page_lsn' = page_lsn /\ next_lsn' = next_lsn /\ run' = run /\ InLog' = InLog
        /\ stage' \notin {"down", "redo"}
    <3>1. Begin => page_lsn' = page_lsn /\ stage' = "running"
      BY DEF Begin, pageVars
    <3> QED
      BY <1>9, <3>1, StageOfStep, LogOfStep DEF Active
  <2>2. Covered' => Covered
    BY <1>5, <2>1 DEF Covered
  <2> QED
    BY <1>2, <2>1, <2>2
<1>10. CASE Dying
  <2>1. page_lsn' = page_lsn /\ run' # 1 /\ (run' = 2 => Covered)
    BY <1>10, DyingRuns
  <2>2. InLog' \subseteq InLog
    BY <1>10, LogOfStep
  <2> QED
    BY <1>2, <1>5, <2>1, <2>2
<1>11. CASE Analysis \/ Redoing
  <2>1. stage \in {"down", "redo"} /\ run' = run /\ InLog' = InLog
    BY <1>11, StageOfStep, LogOfStep
  <2>2. Covered' => Covered
    BY <1>5, <2>1 DEF Covered
  <2>3. Covered => page_lsn' = page_lsn
    BY <1>11, RedoSkips DEF Analysis, pageVars
  <2> QED
    BY <1>2, <2>1, <2>2, <2>3
<1> QED
  BY RecCases, <1>7, <1>8, <1>9, <1>10, <1>11

(* The program starts with an empty page and an empty log. *)
LEMMA RedoInit == RecInit => RedoInv
<1> SUFFICES ASSUME RecInit PROVE RedoInv
  OBVIOUS
<1>1. <<>> \in Seq(Headers) /\ <<>> \in Seq(Images) /\ <<>> \in Seq(LogRecs) /\ <<>> \in Seq(Writes)
      /\ 1 \in 1 .. (MaxTxid + 1)
  BY MaxTxidAssumption
<1>2. RecTypeOK
  BY <1>1 DEF RecInit, RecTypeOK, Active
<1>3. StageInv
  BY DEF RecInit, StageInv, Active
<1>4. InLog = {}
  BY ElementsOfEmpty DEF RecInit, InLog
<1>5. LsnInv
  BY <1>4 DEF RecInit, LsnInv
<1> QED
  BY <1>2, <1>3, <1>5 DEF RedoInv

(* A step, or none, keeps the whole invariant. *)
LEMMA RedoStep ==
    ASSUME RedoInv, [RecNext]_recVars
    PROVE  RedoInv'
<1>1. CASE RecNext
  BY <1>1, RecTypeStep, StageStep, LsnStep DEF RedoInv
<1>2. CASE UNCHANGED recVars
  <2>1. RecTypeOK' /\ StageInv'
    BY <1>2 DEF RedoInv, RecTypeOK, StageInv, recVars
  <2>2. InLog' = InLog
    BY <1>2 DEF InLog, Elements, recVars
  <2>3. LsnInv'
    BY <1>2, <2>2 DEF RedoInv, LsnInv, recVars
  <2> QED
    BY <2>1, <2>3 DEF RedoInv
<1> QED
  BY <1>1, <1>2

(***************************************************************************)
(* In every reachable state, also when a crash makes the log forget a      *)
(* transaction, the page's LSN is at least that of every data record of    *)
(* the log until the second run writes: pages are forced before their log  *)
(* records.                                                                *)
(***************************************************************************)
THEOREM RedoInvariance == RecSpec => []RedoInv
<1>1. RecInit => RedoInv
  BY RedoInit
<1>2. RedoInv /\ [RecNext]_recVars => RedoInv'
  BY RedoStep
<1> QED
  BY <1>1, <1>2, PTL DEF RecSpec

(***************************************************************************)
(* The Redo of the restart after the first run, and of every crash inside  *)
(* it, changes no record of the page (RecoveryManager::Redo).              *)
(***************************************************************************)
THEOREM RedoNoOpTheorem == RecSpec => RedoIsNoOp
<1>1. ASSUME RedoInv, [RecNext]_recVars
      PROVE  [stage = "redo" /\ run <= 2 => rows' = rows]_recVars
  <2>1. CASE RecNext
    <3> SUFFICES ASSUME stage = "redo", run <= 2 PROVE rows' = rows
      OBVIOUS
    <3>1. Covered
      BY <1>1 DEF RedoInv, RecTypeOK, LsnInv, Covered
    <3>2. Redoing \/ Dying
      BY <1>1, <2>1, RecCases, StageOfStep
         DEF RedoInv, Active, Flushing, CommitFlush, AbortFlush, Begin
    <3>3. Dying => rows' = rows
      BY <1>1, HeadersOfStep DEF RedoInv
    <3> QED
      BY <1>1, <3>1, <3>2, <3>3, RedoSkips DEF RedoInv
  <2>2. CASE UNCHANGED recVars
    BY <2>2
  <2> QED
    BY <1>1, <2>1, <2>2
<1> QED
  BY <1>1, RedoInvariance, PTL DEF RecSpec, RedoIsNoOp

-----------------------------------------------------------------------------
(* The buffer after one more record. *)
LEMMA AppendTail ==
    ASSUME RecTypeOK, TailInv, stage \in {"running", "rollback"}, cur \in TxIds, cur' = cur,
           NEW type \in DataTypes \union {"COMMIT", "ABORT"}, NEW r \in Nat, AppendLogRecord(type, r),
           \/ type \in DataTypes /\ stage' = stage
           \/ type = "COMMIT" /\ stage' = "committing"
           \/ type = "ABORT" /\ stage' = "aborting"
    PROVE  TailInv'
<1> DEFINE rec == [lsn |-> next_lsn, tx |-> cur, rid |-> r, type |-> type]
<1>1. rec \in LogRecs /\ rec.tx = cur /\ rec.type = type
  BY DEF LogRecs, RecTypeOK
<1>2. \/ wal' = wal /\ tail' = Append(tail, rec)
      \/ wal' = wal \o tail /\ tail' = <<rec>>
  BY DEF AppendLogRecord
<1> HIDE DEF rec
<1>3. wal \in Seq(LogRecs) /\ tail \in Seq(LogRecs) /\ Len(tail) \in Nat /\ Len(wal) \in Nat
  BY DEF RecTypeOK
<1>4. /\ \A i \in 1 .. Len(tail) : tail[i].tx = cur /\ tail[i].type \in DataTypes
      /\ \A i \in 1 .. Len(wal) : wal[i].tx = cur => wal[i].type \in DataTypes
  BY DEF TailInv, Active
<1>5. \A x \in Elements(wal') : x.tx = cur => x.type \in DataTypes
  <2>1. Elements(wal \o tail) = Elements(wal) \union Elements(tail)
    BY <1>3, ElementsOfConcat
  <2>2. \A x \in Elements(wal) \union Elements(tail) : x.tx = cur => x.type \in DataTypes
    BY <1>4 DEF Elements
  <2> QED
    BY <1>2, <2>1, <2>2
<1>6. /\ Len(tail') \in Nat /\ tail'[Len(tail')] = rec
      /\ \A i \in 1 .. Len(tail') - 1 : tail'[i].tx = cur /\ tail'[i].type \in DataTypes
  <2>1. CASE tail' = <<rec>>
    BY <2>1
  <2>2. CASE tail' = Append(tail, rec)
    <3>1. /\ Len(tail') = Len(tail) + 1 /\ tail'[Len(tail) + 1] = rec
          /\ \A i \in 1 .. Len(tail) : tail'[i] = tail[i]
      BY <1>1, <1>3, <2>2, AppendProperties
    <3> QED
      BY <1>3, <1>4, <3>1
  <2> QED
    BY <1>2, <2>1, <2>2
<1>7. \A i \in 1 .. Len(tail') : /\ tail'[i].tx = cur
                                 /\ tail'[i].type \in DataTypes \/ (i = Len(tail') /\ tail'[i].type = type)
  BY <1>1, <1>6
<1>8. \A i \in 1 .. Len(wal') : wal'[i].tx = cur => wal'[i].type \in DataTypes
  BY <1>5 DEF Elements
<1>9. "COMMIT" \notin DataTypes
  BY DEF DataTypes
<1>10. /\ \A i \in 1 .. Len(tail') - 1 : tail'[i].type \in DataTypes
       /\ stage' \in {"running", "rollback"} => type \in DataTypes
       /\ stage' # "committing" => type # "COMMIT"
       /\ stage' \in Active
  BY <1>6, <1>9 DEF Active
<1> QED
  BY <1>7, <1>8, <1>9, <1>10 DEF TailInv

(* Every step keeps the order of the buffer. *)
LEMMA TailStep ==
    ASSUME RecTypeOK, StageInv, IdInv, RecNext
    PROVE  TailInv'
<1>1. TailInv /\ (stage \in Active => cur \in TxIds)
  BY DEF IdInv, StageInv
<1>2. Len(rows) \in Nat
  BY DEF RecTypeOK
<1>3. CASE Begin
  <2>1. stage = "idle" /\ wal' = wal /\ tail' = tail /\ cur' = next_txid /\ stage' = "running"
    BY <1>3 DEF Begin, logVars
  <2>2. tail = <<>>
    BY <1>1, <2>1 DEF TailInv, Active
  <2>3. ASSUME NEW i \in 1 .. Len(wal) PROVE wal[i].tx # next_txid
    <3>1. wal[i] \in InLog
      BY DEF InLog, Elements
    <3> QED
      BY <2>1, <3>1 DEF IdInv, RecTypeOK
  <2> QED
    BY <2>1, <2>2, <2>3 DEF TailInv, Active
<1>4. CASE Placing
  <2>1. /\ stage = "running" /\ stage' = stage /\ cur' = cur
        /\ AppendLogRecord("INSERT_ROW", Len(rows) + 1)
    BY <1>4 DEF Placing, InsertRow, InsertNewVersion, PlaceRecord
  <2>2. Len(rows) + 1 \in Nat /\ "INSERT_ROW" \in DataTypes /\ cur \in TxIds
    BY <1>1, <1>2, <2>1 DEF DataTypes, Active
  <2> QED
    BY <1>1, <2>1, <2>2, AppendTail
<1>5. CASE \E r \in 1 .. Len(rows) : Marking(r)
  <2>1. PICK r \in 1 .. Len(rows) : Marking(r)
    BY <1>5
  <2>2. stage = "running" /\ stage' = stage /\ cur' = cur /\ AppendLogRecord("DELETE_ROW", r)
    BY <2>1 DEF Marking, DeleteRow, UpdateOld, MarkRecord
  <2>3. r \in Nat /\ "DELETE_ROW" \in DataTypes /\ cur \in TxIds
    BY <1>1, <1>2, <2>2 DEF DataTypes, Active
  <2> QED
    BY <1>1, <2>2, <2>3, AppendTail
<1>6. CASE CommitLog
  <2>1. stage = "running" /\ stage' = "committing" /\ cur' = cur /\ AppendLogRecord("COMMIT", 0)
    BY <1>6 DEF CommitLog
  <2>2. 0 \in Nat /\ cur \in TxIds
    BY <1>1, <2>1 DEF Active
  <2> QED
    BY <1>1, <2>1, <2>2, AppendTail
<1>7. CASE AbortLog
  <2>1. stage = "rollback" /\ stage' = "aborting" /\ cur' = cur /\ AppendLogRecord("ABORT", 0)
    BY <1>7 DEF AbortLog
  <2>2. 0 \in Nat /\ cur \in TxIds
    BY <1>1, <2>1 DEF Active
  <2> QED
    BY <1>1, <2>1, <2>2, AppendTail
<1>8. CASE Abort \/ RollbackWrite
  <2>1. /\ stage \in {"running", "rollback"} /\ stage' = "rollback" /\ cur' = cur
        /\ wal' = wal /\ tail' = tail
    BY <1>8 DEF Abort, RollbackWrite, logVars, txnVars
  <2> QED
    BY <1>1, <2>1 DEF TailInv, Active
<1>9. CASE Flushing \/ Dying \/ Analysis \/ Redoing
  <2>1. stage' \notin Active
    BY <1>9, StageOfStep DEF Active
  <2>2. Flushing \/ Dying => tail' = <<>>
    BY LogOfStep DEF Flushing, CommitFlush, AbortFlush, FlushLog
  <2>3. Analysis \/ Redoing => tail' = tail /\ stage \notin Active
    BY LogOfStep, StageOfStep DEF Active
  <2>4. tail' = <<>>
    BY <1>1, <1>9, <2>2, <2>3 DEF TailInv
  <2> QED
    BY <2>1, <2>4 DEF TailInv, Active
<1> QED
  BY RecCases, <1>3, <1>4, <1>5, <1>6, <1>7, <1>8, <1>9 DEF Ending

(* The log forgets no transaction that changed the page. *)
LEMMA ChangeKept ==
    ASSUME RecTypeOK, StageInv, IdInv, RecNext, ~LoseTxn, NEW t, Changed(t)
    PROVE  \E x \in InLog' : x.tx = t /\ x.type \in DataTypes
<1>1. CASE ~Dying
  <2>1. InLog \subseteq InLog'
    BY <1>1, RecCases, LogOfStep
  <2> QED
    BY <2>1 DEF Changed
<1>2. CASE Dying
  <2>1. PICK n \in 0 .. Len(tail) : Survives(n)
    BY <1>2, DyingLog
  <2>2. InLog' = Elements(wal) \union {tail[i] : i \in 1 .. n} /\ Len(tail) \in Nat
    BY <2>1, SurvivingLog DEF RecTypeOK
  <2>3. PICK x \in InLog : x.tx = t /\ x.type \in DataTypes
    BY DEF Changed
  <2>4. CASE x \in Elements(wal)
    BY <2>2, <2>3, <2>4
  <2>5. CASE x \in Elements(tail)
    <3>1. PICK i \in 1 .. Len(tail) : x = tail[i]
      BY <2>5 DEF Elements
    <3>2. TailInv /\ tail # <<>>
      BY <2>2, <3>1 DEF IdInv
    <3>3. t = cur /\ stage \in Active
      BY <2>3, <3>1, <3>2 DEF TailInv
    <3>4. CASE n > 0
      <4>1. 1 \in 1 .. n /\ 1 \in 1 .. Len(tail) /\ tail[1].tx = t
        BY <2>2, <3>2, <3>3, <3>4 DEF TailInv
      <4>2. tail[1].type \in DataTypes
        <5>1. CASE Len(tail) = 1
          BY <2>3, <3>1, <5>1
        <5>2. CASE Len(tail) # 1
          <6>1. 1 \in 1 .. Len(tail) - 1
            BY <2>2, <4>1, <5>2
          <6> QED
            BY <3>2, <6>1 DEF TailInv
        <5> QED
          BY <5>1, <5>2
      <4> QED
        BY <2>2, <4>1, <4>2
    <3>5. CASE LogOf(cur) # {}
      <4>1. PICK j \in 1 .. Len(wal) : wal[j].tx = cur
        BY <3>5 DEF LogOf
      <4>2. wal[j].type \in DataTypes
        BY <3>2, <3>3, <4>1 DEF TailInv
      <4> QED
        BY <2>2, <3>3, <4>1, <4>2 DEF Elements
    <3>6. n = Len(tail) \/ Known(n)
      BY <2>1 DEF Survives
    <3>7. n = Len(tail) => n > 0
      BY <2>2, <3>1
    <3> QED
      BY <2>3, <3>1, <3>4, <3>5, <3>6, <3>7 DEF Known
  <2> QED
    BY <2>3, <2>4, <2>5 DEF InLog
<1> QED
  BY <1>1, <1>2

(* Every id of a header, an image or a write set stays that of a data      *)
(* record of the log.                                                      *)
LEMMA IdStep ==
    ASSUME RecTypeOK, StageInv, IdInv, RecNext, ~LoseTxn
    PROVE  IdInv'
<1> DEFINE Keeps(t) == \E x \in InLog' : x.tx = t /\ x.type \in DataTypes
<1>1. Len(rows) \in Nat /\ Len(undo) \in Nat /\ next_txid \in 1 .. (MaxTxid + 1) /\ MaxTxid \in Nat
  BY MaxTxidAssumption DEF RecTypeOK
<1>2. \A x \in InLog : x \in LogRecs
  BY DEF InLog, Elements, RecTypeOK
<1>3. ASSUME NEW t, Changed(t) PROVE Keeps(t)
  BY <1>3, ChangeKept
<1>4. Placing \/ (\E r \in 1 .. Len(rows) : Marking(r)) => Keeps(cur)
  <2>1. ASSUME NEW r, NEW type \in DataTypes,
               InLog' = InLog \union {[lsn |-> next_lsn, tx |-> cur, rid |-> r, type |-> type]}
        PROVE  Keeps(cur)
    <3> DEFINE rec == [lsn |-> next_lsn, tx |-> cur, rid |-> r, type |-> type]
    <3>1. rec.tx = cur /\ rec.type = type /\ rec \in InLog'
      BY <2>1
    <3> HIDE DEF rec
    <3> QED
      BY <3>1
  <2>4. "INSERT_ROW" \in DataTypes /\ "DELETE_ROW" \in DataTypes
    BY DEF DataTypes
  <2> HIDE DEF Keeps
  <2>2. CASE Placing
    BY <2>1, <2>2, <2>4, LogOfStep
  <2>3. CASE \E r \in 1 .. Len(rows) : Marking(r)
    BY <2>1, <2>3, <2>4, LogOfStep
  <2> QED
    BY <2>2, <2>3
<1> HIDE DEF Keeps
<1>5. ASSUME NEW q \in 1 .. Len(rows') PROVE Keeps(rows'[q].trx)
  <2>1. \A r \in 1 .. Len(rows) : Changed(rows[r].trx)
    BY DEF IdInv
  <2>2. CASE Placing
    BY <1>1, <1>3, <1>4, <2>1, <2>2, HeadersOfStep
  <2>3. CASE \E r \in 1 .. Len(rows) : Marking(r)
    BY <1>3, <1>4, <2>1, <2>3, HeadersOfStep
  <2>4. CASE RollbackWrite
    <3> DEFINE w == write_set[Len(write_set)]
    <3>1. Len(write_set) \in 1 .. Len(write_set) /\ w \in Writes
      BY <2>4 DEF RollbackWrite, RecTypeOK
    <3>2. w.type # "INSERT" => Changed(w.prev_trx)
      BY <3>1 DEF Writes, IdInv
    <3>3. /\ Len(rows') = Len(rows)
          /\ rows'[q].trx = rows[q].trx \/ (w.type # "INSERT" /\ rows'[q].trx = w.prev_trx)
      BY <2>4, HeadersOfStep
    <3> HIDE DEF w
    <3> QED
      BY <1>3, <2>1, <3>2, <3>3
  <2>5. CASE Redoing
    <3>1. redo_pos \in 1 .. Len(wal)
      BY <2>5, StageOfStep DEF StageInv
    <3>2. wal[redo_pos].type \in DataTypes => Changed(wal[redo_pos].tx)
      BY <3>1 DEF Changed, InLog, Elements
    <3>3. Len(rows') = Len(rows) /\ rows'[q].trx \in {rows[q].trx, wal[redo_pos].tx}
      BY <2>5, HeadersOfStep
    <3>4. wal[redo_pos].type \notin DataTypes => rows' = rows
      BY <2>5 DEF Redoing, RedoApply, RedoSkip, pageVars
    <3> QED
      BY <1>3, <2>1, <3>2, <3>3, <3>4
  <2>6. CASE Begin \/ Ending \/ Flushing \/ Abort \/ Dying \/ Analysis
    <3>1. rows' = rows
      BY <2>6, HeadersOfStep
    <3> QED
      BY <1>3, <2>1, <3>1
  <2> QED
    BY RecCases, <2>2, <2>3, <2>4, <2>5, <2>6
<1>6. ASSUME NEW p \in 1 .. Len(undo') PROVE Keeps(undo'[p].trx)
  <2>1. /\ \A r \in 1 .. Len(rows) : Changed(rows[r].trx)
        /\ \A i \in 1 .. Len(undo) : Changed(undo[i].trx)
    BY DEF IdInv
  <2>2. CASE \E r \in 1 .. Len(rows) : Marking(r)
    BY <1>3, <2>1, <2>2, ImagesOfStep
  <2>3. CASE ~ \E r \in 1 .. Len(rows) : Marking(r)
    <3>1. undo' = undo
      BY <2>3, RecCases, ImagesOfStep
    <3> QED
      BY <1>3, <2>1, <3>1
  <2> QED
    BY <2>2, <2>3
<1>7. ASSUME NEW i \in 1 .. Len(write_set'), write_set'[i].type = "DELETE"
      PROVE  Keeps(write_set'[i].prev_trx)
  <2>1. /\ \A r \in 1 .. Len(rows) : Changed(rows[r].trx)
        /\ \A j \in 1 .. Len(write_set) :
              write_set[j].type = "DELETE" => Changed(write_set[j].prev_trx)
    BY DEF IdInv
  <2>2. CASE \E r \in 1 .. Len(rows) : Marking(r)
    BY <1>3, <1>7, <2>1, <2>2, WritesOfStep
  <2>3. CASE Placing \/ RollbackWrite
    BY <1>3, <1>7, <2>1, <2>3, WritesOfStep
  <2>4. CASE Ending \/ Flushing \/ Abort \/ Analysis \/ Redoing
    <3>1. write_set' = write_set
      BY <2>4, WritesOfStep
    <3> QED
      BY <1>3, <1>7, <2>1, <3>1
  <2>5. CASE Begin \/ Dying
    <3>1. write_set' = <<>>
      BY <2>5, WritesOfStep
    <3> QED
      BY <3>1
  <2> QED
    BY RecCases, <2>2, <2>3, <2>4, <2>5
<1>8. ASSUME NEW x \in InLog', stage' # "down" PROVE x.tx < next_txid'
  <2>1. stage # "down" => \A y \in InLog : y.tx < next_txid
    BY DEF IdInv
  <2>2. stage \in Active => cur \in TxIds /\ cur < next_txid
    BY DEF StageInv
  <2>3. CASE Placing \/ (\E r \in 1 .. Len(rows) : Marking(r)) \/ Ending
    <3>1. stage \in Active /\ stage # "down" /\ next_txid' = next_txid
      BY <2>3, StageOfStep DEF Active
    <3>2. x \in InLog \/ x.tx = cur
      BY <2>3, LogOfStep
    <3> QED
      BY <2>1, <2>2, <3>1, <3>2
  <2>4. CASE Begin
    <3>1. stage # "down" /\ InLog' = InLog /\ next_txid' = next_txid + 1
      BY <2>4, LogOfStep DEF Begin
    <3>2. x \in LogRecs
      BY <1>2, <3>1
    <3>3. x.tx \in TxIds
      BY <3>2 DEF LogRecs
    <3> QED
      BY <1>1, <2>1, <3>1, <3>3 DEF TxIds
  <2>5. CASE Flushing \/ Abort \/ RollbackWrite \/ Redoing
    <3>1. stage # "down"
      BY <2>5, StageOfStep DEF Active, Flushing, CommitFlush, AbortFlush
    <3>2. InLog' = InLog /\ next_txid' = next_txid
      BY <2>5, StageOfStep, LogOfStep
    <3> QED
      BY <2>1, <3>1, <3>2
  <2>6. CASE Dying
    BY <1>8, <2>6, StageOfStep
  <2>7. CASE Analysis
    BY <2>7, AnalysisIds, LogOfStep
  <2> QED
    BY RecCases, <2>3, <2>4, <2>5, <2>6, <2>7
<1> QED
  BY <1>5, <1>6, <1>7, <1>8, TailStep DEF IdInv, Changed, Keeps

(* The program starts with no id in use. *)
LEMMA IdInit == RecInit => IdInv
<1> SUFFICES ASSUME RecInit PROVE IdInv
  OBVIOUS
<1>1. InLog = {}
  BY ElementsOfEmpty DEF RecInit, InLog
<1>2. TailInv
  BY DEF RecInit, TailInv, Active
<1> QED
  BY <1>1, <1>2 DEF RecInit, IdInv

(***************************************************************************)
(* While the log file knows of every transaction that changed the page,    *)
(* whatever else of the buffer a crash loses, every transaction id in a    *)
(* record header, an undo image or a write set is the id of some data      *)
(* record of the log, and outside of recovery all of them are below        *)
(* next_txid_.                                                             *)
(***************************************************************************)
THEOREM IdInvariance ==
    ASSUME ~LoseTxn
    PROVE  RecSpec => []IdInv
<1>1. RecInit => IdInv
  BY IdInit
<1>2. ASSUME RedoInv, IdInv, [RecNext]_recVars PROVE IdInv'
  <2>1. CASE RecNext
    BY <1>2, <2>1, IdStep DEF RedoInv
  <2>2. CASE UNCHANGED recVars
    <3>1. InLog' = InLog
      BY <2>2 DEF InLog, Elements, recVars
    <3>2. TailInv'
      BY <1>2, <2>2 DEF IdInv, TailInv, recVars
    <3> QED
      BY <1>2, <2>2, <3>1, <3>2 DEF IdInv, Changed, recVars
  <2> QED
    BY <1>2, <2>1, <2>2
<1> QED
  BY <1>1, <1>2, RedoInvariance, PTL DEF RecSpec

(***************************************************************************)
(* While the log file knows of every transaction that changed the page,    *)
(* the transaction that begins after any number of crashes and restarts    *)
(* has an id above every id on disk: AdvanceNextTxId after Analysis is     *)
(* enough, although records that were rolled back or never committed keep  *)
(* their ids.                                                              *)
(***************************************************************************)
THEOREM FreshIdsTheorem ==
    ASSUME ~LoseTxn
    PROVE  RecSpec => []FreshIds
<1>1. IdInv => FreshIds
  <2> SUFFICES ASSUME IdInv, Up PROVE FreshIds
    BY DEF FreshIds
  <2>1. \A t : Changed(t) => t < next_txid
    BY DEF IdInv, Up, Changed
  <2> QED
    BY <2>1 DEF IdInv, FreshIds
<1> QED
  BY <1>1, IdInvariance, PTL

-----------------------------------------------------------------------------
(***************************************************************************)
(* What a transaction reads after a restart.  The log, the page and the    *)
(* undo images are tied together by RecoverInv: the states of transactions *)
(* are those of their log records, a marked record's image is the record   *)
(* as it was, the chain of a record whose transaction is not on disk runs  *)
(* over records that the same transaction marked, down to a version that   *)
(* is committed, and the write set lists what is on the page.              *)
(***************************************************************************)
(* The COMMIT record of t is in the file. *)
CommitLogged(t) == \E x \in InLog : x.tx = t /\ x.type = "COMMIT"
OnDisk(t) == CommitLogged(t) /\ ~(stage = "committing" /\ t = cur)

(* Transaction t works, and may still be rolled back. *)
Open(t) == stage \in {"running", "rollback"} /\ t = cur

(* What the states of transactions say of the log. *)
StatusInv ==
    /\ stage \notin Active => cur = INVALID_TX_ID
    /\ txn_state \in [TxIds -> TransactionState]
    /\ stage # "down" => \A t \in TxIds : Logged(t) /\ ~Open(t) =>
          txn_state[t] = IF CommitLogged(t) THEN "COMMITTED" ELSE "ABORTED"
    /\ \A x \in InLog : Open(x.tx) => x.type \in DataTypes
    /\ stage \in {"running", "rollback"} => txn_state[cur] = "IN_PROGRESS"
    /\ \A x, y \in InLog : x.tx = y.tx /\ x.type = "COMMIT" => y.type # "ABORT"
    /\ stage \in {"committing", "aborting"} => tail # <<>>
    /\ stage = "committing" => CommitLogged(cur)

(* Redo has marked record r, without an image. *)
Lost(r) == rows[r].del /\ rows[r].roll = 0

(* The record as it was before it was marked. *)
Image(r) ==
    IF rows[r].del THEN undo[rows[r].roll]
    ELSE [trx |-> rows[r].trx, roll |-> rows[r].roll, ver |-> r]

(* Undo pointer p is null, or that of a record that t has marked. *)
Held(p, t) ==
    p # 0 => /\ p \in 1 .. Len(undo)
             /\ undo[p].ver \in 1 .. Len(rows)
             /\ LET s == rows[undo[p].ver]
                IN  s.del /\ ~s.dead /\ s.trx = t /\ s.roll = p

(* What headers and images say of each other. *)
ImageInv(r) ==
    /\ rows[r].roll <= Len(undo)
    /\ rows[r].del /\ ~Lost(r) =>
          /\ rows[r].roll \in 1 .. Len(undo) /\ ~rows[r].dead
          /\ Image(r).ver = r
          /\ Image(r).trx = rows[r].trx \/ OnDisk(Image(r).trx)
    /\ ~rows[r].dead /\ ~OnDisk(rows[r].trx) => Held(rows[r].roll, rows[r].trx)
    /\ ~rows[r].dead /\ ~Lost(r) /\ ~OnDisk(Image(r).trx) => Held(Image(r).roll, Image(r).trx)
    /\ rows[r].dead /\ ~rows[r].del => ~OnDisk(rows[r].trx)
    /\ run <= 2 => ~Lost(r)

(* The versions committed are those the page and the images say. *)
VersionInv(r) ==
    /\ rows[r].dead => r \notin db
    /\ ~rows[r].dead /\ ~Lost(r) =>
          (r \in db <=> OnDisk(Image(r).trx) /\ ~(rows[r].del /\ OnDisk(rows[r].trx)))

(* Page, images and committed versions. *)
PageInv ==
    /\ \A p \in 1 .. Len(undo) : undo[p].roll < p
    /\ \A r \in 1 .. Len(rows) : ImageInv(r) /\ VersionInv(r)
    /\ db \subseteq 1 .. Len(rows)

(* The writes of the write set, by kind and record. *)
Did(i, type, r) == write_set[i].type = type /\ write_set[i].rid = r
Done(type, r) == \E i \in 1 .. Len(write_set) : Did(i, type, r)

(* The write set says what the page holds of the session's transaction: of *)
(* one record, and of one write.                                           *)
RecordDone(r) ==
    /\ Done("INSERT", r) <=> ~rows[r].dead /\ ~Lost(r) /\ Image(r).trx = cur
    /\ Done("DELETE", r) <=> rows[r].del /\ rows[r].trx = cur

WriteDone(i) ==
    LET w == write_set[i]
    IN  /\ w.rid \in 1 .. Len(rows)
        /\ w.type = "DELETE" => /\ ~Lost(w.rid)
                                /\ w.prev_trx = Image(w.rid).trx
                                /\ w.prev_roll = Image(w.rid).roll
        /\ w.type = "INSERT" /\ Image(w.rid).roll # 0 =>
              \E j \in 1 .. i - 1 : Did(j, "DELETE", undo[Image(w.rid).roll].ver)
        /\ \A j \in 1 .. i - 1 : write_set[j].rid = w.rid =>
              write_set[j].type = "INSERT" /\ w.type = "DELETE"

SetInv ==
    /\ \A r \in 1 .. Len(rows) : RecordDone(r)
    /\ \A i \in 1 .. Len(write_set) : WriteDone(i)
    /\ stage # "rollback" => \A r \in 1 .. Len(rows) : rows[r].dead => rows[r].trx # cur
    /\ pending # 0 => Held(pending, cur) /\ Done("DELETE", undo[pending].ver)

(* While the transaction works its write set agrees with the page. *)
WorkInv ==
    /\ stage \in {"running", "committing", "rollback"} => SetInv
    /\ pending # 0 => stage = "running"
-----------------------------------------------------------------------------
(* MarkDead. *)
Killed(f, r) == [f EXCEPT ![r].dead = TRUE]

(* A header with some of its fields written. *)
LEMMA HeaderFields ==
    ASSUME NEW x \in Headers, NEW t \in TxIds, NEW p \in Nat
    PROVE  /\ [[[x EXCEPT !.trx = t] EXCEPT !.roll = p] EXCEPT !.del = TRUE]
                = [trx |-> t, roll |-> p, del |-> TRUE, dead |-> x.dead]
           /\ [[[x EXCEPT !.trx = t] EXCEPT !.roll = p] EXCEPT !.del = FALSE]
                = [trx |-> t, roll |-> p, del |-> FALSE, dead |-> x.dead]
           /\ [x EXCEPT !.dead = TRUE]
                = [trx |-> x.trx, roll |-> x.roll, del |-> x.del, dead |-> TRUE]
<1>1. \A y \in Headers : y = [trx |-> y.trx, roll |-> y.roll, del |-> y.del, dead |-> y.dead]
  BY DEF Headers
<1> DEFINE m(b) == [[[x EXCEPT !.trx = t] EXCEPT !.roll = p] EXCEPT !.del = b]
           d == [x EXCEPT !.dead = TRUE]
<1>2. ASSUME NEW b \in BOOLEAN
      PROVE  m(b) \in Headers /\ m(b).trx = t /\ m(b).roll = p /\ m(b).del = b /\ m(b).dead = x.dead
  BY DEF Headers
<1>3. d \in Headers /\ d.trx = x.trx /\ d.roll = x.roll /\ d.del = x.del /\ d.dead = TRUE
  BY DEF Headers
<1> HIDE DEF m, d
<1>4. m(TRUE) = [trx |-> t, roll |-> p, del |-> TRUE, dead |-> x.dead]
  BY <1>1, <1>2, Zenon
<1>5. m(FALSE) = [trx |-> t, roll |-> p, del |-> FALSE, dead |-> x.dead]
  BY <1>1, <1>2, Zenon
<1>6. d = [trx |-> x.trx, roll |-> x.roll, del |-> x.del, dead |-> TRUE]
  BY <1>1, <1>3, Zenon
<1> QED
  BY <1>4, <1>5, <1>6, Zenon DEF m, d

(* What the three changes of a header leave. *)
LEMMA MarkedExact ==
    ASSUME NEW f \in Seq(Headers), NEW r \in 1 .. Len(f), NEW t \in TxIds, NEW p \in Nat, NEW q \in 1 .. Len(f)
    PROVE  Marked(f, r, t, p)[q] =
             IF q = r THEN [trx |-> t, roll |-> p, del |-> TRUE, dead |-> f[r].dead] ELSE f[q]
<1>1. Len(f) \in Nat /\ DOMAIN f = 1 .. Len(f) /\ f[r] \in Headers
  OBVIOUS
<1> DEFINE m == [[[f[r] EXCEPT !.trx = t] EXCEPT !.roll = p] EXCEPT !.del = TRUE]
<1>2. m = [trx |-> t, roll |-> p, del |-> TRUE, dead |-> f[r].dead]
  BY ONLY <1>1, HeaderFields
<1>3. Marked(f, r, t, p) = [f EXCEPT ![r] = m]
  BY <1>1 DEF Marked
<1> HIDE DEF m
<1>4. Marked(f, r, t, p)[q] = IF q = r THEN m ELSE f[q]
  BY <1>1, <1>3
<1> QED
  BY <1>2, <1>4

(* The same for the header a roll-back restores. *)
LEMMA RestoredExact ==
    ASSUME NEW f \in Seq(Headers), NEW r \in 1 .. Len(f), NEW t \in TxIds, NEW p \in Nat, NEW q \in 1 .. Len(f)
    PROVE  Restored(f, r, t, p)[q] =
             IF q = r THEN [trx |-> t, roll |-> p, del |-> FALSE, dead |-> f[r].dead] ELSE f[q]
<1>1. Len(f) \in Nat /\ DOMAIN f = 1 .. Len(f) /\ f[r] \in Headers
  OBVIOUS
<1> DEFINE m == [[[f[r] EXCEPT !.trx = t] EXCEPT !.roll = p] EXCEPT !.del = FALSE]
<1>2. m = [trx |-> t, roll |-> p, del |-> FALSE, dead |-> f[r].dead]
  BY ONLY <1>1, HeaderFields
<1>3. Restored(f, r, t, p) = [f EXCEPT ![r] = m]
  BY <1>1 DEF Restored
<1> HIDE DEF m
<1>4. Restored(f, r, t, p)[q] = IF q = r THEN m ELSE f[q]
  BY <1>1, <1>3
<1> QED
  BY <1>2, <1>4

(* The same for the header of a dead record. *)
LEMMA KilledExact ==
    ASSUME NEW f \in Seq(Headers), NEW r \in 1 .. Len(f), NEW q \in 1 .. Len(f)
    PROVE  Killed(f, r)[q] =
             IF q = r THEN [trx |-> f[r].trx, roll |-> f[r].roll, del |-> f[r].del, dead |-> TRUE]
             ELSE f[q]
<1>1. Len(f) \in Nat /\ DOMAIN f = 1 .. Len(f) /\ f[r] \in Headers
  OBVIOUS
<1> DEFINE m == [f[r] EXCEPT !.dead = TRUE]
<1>2. m = [trx |-> f[r].trx, roll |-> f[r].roll, del |-> f[r].del, dead |-> TRUE]
  <2>1. f[r].trx \in TxIds /\ 0 \in Nat
    BY <1>1 DEF Headers
  <2> QED
    BY ONLY <1>1, <2>1, HeaderFields
<1>3. Killed(f, r) = [f EXCEPT ![r] = m]
  BY <1>1 DEF Killed
<1> HIDE DEF m
<1>4. Killed(f, r)[q] = IF q = r THEN m ELSE f[q]
  BY <1>1, <1>3
<1> QED
  BY <1>2, <1>4

(* A record is placed at the end, behind the image that is pending. *)
LEMMA PlacingEffect ==
    ASSUME RecTypeOK, StageInv, Placing
    PROVE  /\ stage = "running" /\ stage' = stage /\ cur' = cur /\ run' = run /\ db' = db
           /\ txn_state' = txn_state /\ undo' = undo /\ pending' = 0
           /\ Len(rows') = Len(rows) + 1
           /\ \A q \in 1 .. Len(rows) : rows'[q] = rows[q]
           /\ rows'[Len(rows) + 1] = [trx |-> cur, roll |-> pending, del |-> FALSE, dead |-> FALSE]
           /\ Len(write_set') = Len(write_set) + 1
           /\ \A i \in 1 .. Len(write_set) : write_set'[i] = write_set[i]
           /\ write_set'[Len(write_set) + 1].type = "INSERT"
           /\ write_set'[Len(write_set) + 1].rid = Len(rows) + 1
<1> DEFINE h == [trx |-> cur, roll |-> pending, del |-> FALSE, dead |-> FALSE]
           w == [rid |-> Len(rows) + 1, type |-> "INSERT", prev_trx |-> INVALID_TX_ID, prev_roll |-> 0]
<1>1. /\ stage = "running" /\ stage' = stage /\ cur' = cur /\ run' = run /\ db' = db
      /\ txn_state' = txn_state /\ undo' = undo /\ pending' = 0
      /\ rows' = Append(rows, h) /\ write_set' = Append(write_set, w)
  BY DEF Placing, InsertRow, InsertNewVersion, PlaceRecord
<1>2. rows \in Seq(Headers) /\ write_set \in Seq(Writes) /\ pending \in Nat /\ Len(rows) \in Nat
      /\ cur \in TxIds
  BY <1>1 DEF RecTypeOK, StageInv, Active
<1>3. h \in Headers /\ w \in Writes /\ w.type = "INSERT" /\ w.rid = Len(rows) + 1
  BY <1>2 DEF Headers, Writes, INVALID_TX_ID
<1> HIDE DEF h, w
<1>4. /\ Len(rows') = Len(rows) + 1 /\ rows'[Len(rows) + 1] = h
      /\ \A q \in 1 .. Len(rows) : rows'[q] = rows[q]
  BY <1>1, <1>2, <1>3, AppendProperties
<1>5. /\ Len(write_set') = Len(write_set) + 1 /\ write_set'[Len(write_set) + 1] = w
      /\ \A q \in 1 .. Len(write_set) : write_set'[q] = write_set[q]
  BY <1>1, <1>2, <1>3, AppendProperties
<1> QED
  BY <1>1, <1>3, <1>4, <1>5 DEF h

(* A record is marked, its image is the newest one. *)
LEMMA MarkingEffect ==
    ASSUME RecTypeOK, StageInv, NEW r \in 1 .. Len(rows), Marking(r)
    PROVE  /\ stage = "running" /\ stage' = stage /\ cur' = cur /\ run' = run /\ db' = db
           /\ txn_state' = txn_state /\ pending = 0 /\ pending' \in {0, Len(undo) + 1} /\ run = 1
           /\ ~rows[r].del
           /\ IsVisible(MakeReadView(cur, next_txid, {cur}, txn_state), txn_state, rows[r].trx)
           /\ Len(rows') = Len(rows)
           /\ \A q \in 1 .. Len(rows) : q # r => rows'[q] = rows[q]
           /\ rows'[r] = [trx |-> cur, roll |-> Len(undo) + 1, del |-> TRUE, dead |-> rows[r].dead]
           /\ Len(undo') = Len(undo) + 1
           /\ \A p \in 1 .. Len(undo) : undo'[p] = undo[p]
           /\ undo'[Len(undo) + 1] = [trx |-> rows[r].trx, roll |-> rows[r].roll, ver |-> r]
           /\ Len(write_set') = Len(write_set) + 1
           /\ \A i \in 1 .. Len(write_set) : write_set'[i] = write_set[i]
           /\ write_set'[Len(write_set) + 1] = [rid |-> r, type |-> "DELETE",
                                   prev_trx |-> rows[r].trx, prev_roll |-> rows[r].roll]
<1> DEFINE g == [trx |-> rows[r].trx, roll |-> rows[r].roll, ver |-> r]
           w == [rid |-> r, type |-> "DELETE", prev_trx |-> rows[r].trx, prev_roll |-> rows[r].roll]
<1>1. /\ stage = "running" /\ stage' = stage /\ cur' = cur /\ run' = run /\ db' = db
      /\ txn_state' = txn_state /\ pending = 0 /\ pending' \in {0, Len(undo) + 1} /\ run = 1
      /\ ~rows[r].del
      /\ IsVisible(MakeReadView(cur, next_txid, {cur}, txn_state), txn_state, rows[r].trx)
  BY DEF Marking, DeleteRow, UpdateOld, MarkRecord
<1>2. rows' = Marked(rows, r, cur, Len(undo) + 1) /\ undo' = Append(undo, g)
      /\ write_set' = Append(write_set, w)
  BY DEF Marking, DeleteRow, UpdateOld, MarkRecord, Marked
<1>3. rows \in Seq(Headers) /\ write_set \in Seq(Writes) /\ undo \in Seq(Images) /\ Len(rows) \in Nat
      /\ Len(undo) \in Nat /\ cur \in TxIds
  BY <1>1 DEF RecTypeOK, StageInv, Active
<1>4. rows[r] \in Headers
  BY <1>3
<1>5. g \in Images /\ w \in Writes
  <2>1. rows[r].trx \in TxIds /\ rows[r].roll \in Nat /\ r \in Nat
    BY <1>3, <1>4 DEF Headers
  <2>2. rows[r].trx \in Nat
    BY <2>1 DEF TxIds
  <2> QED
    BY <2>1, <2>2 DEF Images, Writes
<1> HIDE DEF g, w
<1>6. /\ Len(undo') = Len(undo) + 1 /\ undo'[Len(undo) + 1] = g
      /\ \A q \in 1 .. Len(undo) : undo'[q] = undo[q]
  BY <1>2, <1>3, <1>5, AppendProperties
<1>7. /\ Len(write_set') = Len(write_set) + 1 /\ write_set'[Len(write_set) + 1] = w
      /\ \A q \in 1 .. Len(write_set) : write_set'[q] = write_set[q]
  BY <1>2, <1>3, <1>5, AppendProperties
<1>8. Len(rows') = Len(rows)
  <2>1. Len(undo) + 1 \in Nat
    BY <1>3
  <2> QED
    BY <1>2, <1>3, <2>1, HeaderMarked
<1>9. \A q \in 1 .. Len(rows) : rows'[q] =
         IF q = r THEN [trx |-> cur, roll |-> Len(undo) + 1, del |-> TRUE, dead |-> rows[r].dead]
         ELSE rows[q]
  <2> DEFINE n == Len(undo) + 1
  <2>1. n \in Nat /\ r \in 1 .. Len(rows)
    BY <1>3
  <2> HIDE DEF n
  <2>2. ASSUME NEW q \in 1 .. Len(rows)
        PROVE  Marked(rows, r, cur, n)[q] =
                 IF q = r THEN [trx |-> cur, roll |-> n, del |-> TRUE, dead |-> rows[r].dead] ELSE rows[q]
    BY ONLY <1>3, <2>1, <2>2, MarkedExact
  <2> QED
    BY <1>2, <2>2 DEF n
<1> QED
  BY <1>1, <1>6, <1>7, <1>8, <1>9 DEF g, w

(* The newest write is taken back. *)
LEMMA RollbackEffect ==
    ASSUME RecTypeOK, StageInv, RollbackWrite, write_set[Len(write_set)].rid \in 1 .. Len(rows)
    PROVE  LET w == write_set[Len(write_set)]
               r == w.rid
           IN  /\ stage = "rollback" /\ stage' = stage /\ cur' = cur /\ run' = run /\ db' = db
               /\ txn_state' = txn_state /\ pending' = pending /\ undo' = undo
               /\ Len(write_set) \in 1 .. Len(write_set) /\ w.type \in {"INSERT", "DELETE"}
               /\ Len(write_set') = Len(write_set) - 1
               /\ \A i \in 1 .. Len(write_set) - 1 : write_set'[i] = write_set[i]
               /\ Len(rows') = Len(rows)
               /\ \A q \in 1 .. Len(rows) : q # r => rows'[q] = rows[q]
               /\ rows'[r] =
                     IF w.type = "INSERT"
                     THEN [trx |-> rows[r].trx, roll |-> rows[r].roll, del |-> rows[r].del, dead |-> TRUE]
                     ELSE [trx |-> w.prev_trx, roll |-> w.prev_roll, del |-> FALSE, dead |-> rows[r].dead]
<1> DEFINE w == write_set[Len(write_set)]
           r == w.rid
<1>1. /\ stage = "rollback" /\ stage' = stage /\ cur' = cur /\ run' = run /\ db' = db
      /\ txn_state' = txn_state /\ pending' = pending /\ undo' = undo /\ write_set # <<>>
      /\ write_set' = SubSeq(write_set, 1, Len(write_set) - 1)
  BY DEF RollbackWrite
<1>2. rows \in Seq(Headers) /\ write_set \in Seq(Writes)
  BY DEF RecTypeOK
<1>3. Len(write_set) \in 1 .. Len(write_set) /\ w \in Writes
  BY <1>1, <1>2
<1>4. w.type \in {"INSERT", "DELETE"}
  BY <1>3 DEF Writes
<1>5. /\ Len(write_set') = Len(write_set) - 1
      /\ \A i \in 1 .. Len(write_set) - 1 : write_set'[i] = write_set[i]
  <2> DEFINE n == Len(write_set) - 1
  <2>1. 1 \in Int /\ n \in Nat /\ n \in Int /\ \A i \in 1 .. n : write_set[i] \in Writes
    BY <1>2, <1>3
  <2> HIDE DEF n
  <2>2. /\ Len(SubSeq(write_set, 1, n)) = IF 1 <= n THEN n - 1 + 1 ELSE 0
        /\ \A i \in 1 .. n - 1 + 1 : SubSeq(write_set, 1, n)[i] = write_set[1 + i - 1]
    BY <2>1, SubSeqProperties
  <2>3. Len(SubSeq(write_set, 1, n)) = n /\ \A i \in 1 .. n : SubSeq(write_set, 1, n)[i] = write_set[i]
    BY <2>1, <2>2
  <2> QED
    BY <1>1, <2>3 DEF n
<1>6. rows' = IF w.type = "INSERT" THEN Killed(rows, r)
              ELSE Restored(rows, r, w.prev_trx, w.prev_roll)
  BY DEF RollbackWrite, MarkDead, Restored, Killed
<1>7. Len(rows') = Len(rows)
  BY HeadersOfStep
<1>8. r \in 1 .. Len(rows)
  OBVIOUS
<1>10. w.prev_roll \in Nat /\ (w.type = "DELETE" => w.prev_trx \in TxIds)
  BY <1>3 DEF Writes, StageInv
<1> HIDE DEF w, r
<1>9. \A q \in 1 .. Len(rows) : rows'[q] =
        IF q # r THEN rows[q]
        ELSE IF w.type = "INSERT"
             THEN [trx |-> rows[r].trx, roll |-> rows[r].roll, del |-> rows[r].del, dead |-> TRUE]
             ELSE [trx |-> w.prev_trx, roll |-> w.prev_roll, del |-> FALSE, dead |-> rows[r].dead]
  <2>1. w.type # "INSERT" => \A q \in 1 .. Len(rows) : Restored(rows, r, w.prev_trx, w.prev_roll)[q] =
             IF q = r THEN [trx |-> w.prev_trx, roll |-> w.prev_roll, del |-> FALSE, dead |-> rows[r].dead]
             ELSE rows[q]
    BY ONLY <1>2, <1>4, <1>8, <1>10, RestoredExact
  <2>2. \A q \in 1 .. Len(rows) : Killed(rows, r)[q] =
             IF q = r THEN [trx |-> rows[r].trx, roll |-> rows[r].roll, del |-> rows[r].del, dead |-> TRUE]
             ELSE rows[q]
    BY ONLY <1>2, <1>8, KilledExact
  <2> QED
    BY <1>6, <2>1, <2>2
<1> QED
  BY <1>1, <1>3, <1>4, <1>5, <1>7, <1>8, <1>9 DEF w, r

(* Redo marks one record, without an image, or none. *)
LEMMA RedoEffect ==
    ASSUME RecTypeOK, StageInv, Redoing
    PROVE  /\ stage = "redo" /\ stage' \in {"idle", "redo"} /\ cur' = cur /\ run' = run /\ db' = db
           /\ txn_state' = txn_state /\ pending' = pending /\ undo' = undo /\ write_set' = write_set
           /\ Len(rows') = Len(rows)
           /\ \A q \in 1 .. Len(rows) :
                 rows'[q] = rows[q] \/
                 (/\ ~rows[q].del /\ rows'[q].del /\ rows'[q].roll = 0
                  /\ rows'[q].dead = rows[q].dead)
<1> DEFINE rec == wal[redo_pos]
<1>1. /\ stage = "redo" /\ stage' \in {"idle", "redo"} /\ cur' = cur /\ run' = run /\ db' = db
      /\ txn_state' = txn_state /\ pending' = pending /\ undo' = undo /\ write_set' = write_set
  BY DEF Redoing, RedoApply, RedoSkip, Redone, txnVars, pageVars
<1>2. Len(rows') = Len(rows) /\ rows \in Seq(Headers)
  BY HeadersOfStep DEF RecTypeOK
<1>3. rows' = rows \/ (~rows[rec.rid].del /\ rows' = Marked(rows, rec.rid, rec.tx, 0))
  BY DEF Redoing, RedoApply, RedoSkip, pageVars, Marked
<1>5. rec.tx \in TxIds
  <2>1. rec \in LogRecs
    BY <1>1 DEF StageInv, RecTypeOK
  <2> QED
    BY <2>1 DEF LogRecs
<1> HIDE DEF rec
<1>4. ASSUME NEW q \in 1 .. Len(rows), rows' # rows
      PROVE  rows'[q] = rows[q] \/
                 (/\ ~rows[q].del /\ rows'[q].del /\ rows'[q].roll = 0
                  /\ rows'[q].dead = rows[q].dead)
  <2>1. CASE rec.rid \in 1 .. Len(rows)
    <3>1. Marked(rows, rec.rid, rec.tx, 0)[q] =
            IF q = rec.rid THEN [trx |-> rec.tx, roll |-> 0, del |-> TRUE, dead |-> rows[rec.rid].dead]
            ELSE rows[q]
      BY <1>2, <1>4, <1>5, <2>1, MarkedExact
    <3> QED
      BY <1>3, <1>4, <3>1
  <2>2. CASE rec.rid \notin 1 .. Len(rows)
    <3>1. DOMAIN rows = 1 .. Len(rows)
      BY <1>2
    <3>2. rows' = Marked(rows, rec.rid, rec.tx, 0)
      BY <1>3, <1>4
    <3> QED
      BY <2>2, <3>1, <3>2, <1>4 DEF Marked
  <2> QED
    BY <2>1, <2>2
<1> QED
  BY <1>1, <1>2, <1>4

(* Flush returns to Commit, or the process dies when the COMMIT record, the *)
(* last of the buffer, is on disk.                                          *)
Commits == stage = "committing" /\ wal' = wal \o tail

(* The steps that leave the page alone. *)
LEMMA QuietEffect ==
    ASSUME RecTypeOK, StageInv
    PROVE  /\ Begin \/ Ending \/ Flushing \/ Abort \/ Dying \/ Analysis => rows' = rows /\ undo' = undo
           /\ Begin => /\ stage = "idle" /\ stage' = "running" /\ cur' = next_txid /\ run' = run
                       /\ db' = db /\ pending' = pending /\ write_set' = <<>>
                       /\ txn_state' = [txn_state EXCEPT ![next_txid] = "IN_PROGRESS"]
           /\ CommitLog => /\ stage = "running" /\ stage' = "committing"
                           /\ txn_state' = [txn_state EXCEPT ![cur] = "COMMITTED"]
           /\ AbortLog => /\ stage = "rollback" /\ stage' = "aborting" /\ write_set = <<>>
                          /\ txn_state' = [txn_state EXCEPT ![cur] = "ABORTED"]
           /\ Ending => cur' = cur /\ db' = db /\ run' = run /\ pending' = pending /\ write_set' = write_set
           /\ Flushing => /\ stage' = "idle" /\ cur' = INVALID_TX_ID /\ run' = run /\ pending' = pending
                          /\ txn_state' = txn_state /\ write_set' = write_set
           /\ CommitFlush => stage = "committing" /\ db' = CommittedWith
           /\ AbortFlush => stage = "aborting" /\ db' = db
           /\ Abort => /\ stage = "running" /\ stage' = "rollback" /\ pending = 0 /\ pending' = 0
                       /\ cur' = cur /\ db' = db /\ run' = run /\ txn_state' = txn_state
                       /\ write_set' = write_set
           /\ Dying => /\ stage' = "down" /\ cur' = INVALID_TX_ID /\ pending' = 0 /\ write_set' = <<>>
                       /\ run' >= run
                       /\ txn_state' = [t \in TxIds |-> "UNKNOWN"]
           /\ Dying => db' = IF Commits THEN CommittedWith ELSE db
           /\ Analysis => /\ stage = "down" /\ stage' \in {"idle", "redo"} /\ cur' = cur /\ db' = db
                          /\ run' = run /\ pending' = pending /\ write_set' = write_set
                          /\ txn_state' = [t \in TxIds |-> AnalysisState(t)]
<1>1. Begin \/ Ending \/ Flushing \/ Abort \/ Dying \/ Analysis => rows' = rows /\ undo' = undo
  BY HeadersOfStep, ImagesOfStep
<1>2. run \in Nat
  BY DEF RecTypeOK
<1>3. Dying => run' >= run
  BY <1>2 DEF Dying, Exit, Crash, GoDown
<1>4. ASSUME Dying PROVE db' = IF Commits THEN CommittedWith ELSE db
  <2>1. PICK n \in 0 .. Len(tail) : Survives(n)
    BY <1>4, DyingLog
  <2>2. tail \in Seq(LogRecs) /\ wal \in Seq(LogRecs) /\ Len(tail) \in Nat /\ Len(wal) \in Nat
    BY DEF RecTypeOK
  <2>3. n = Len(tail) => wal' = wal \o tail
    BY <2>1, <2>2, PrefixOf DEF Survives
  <2>4. wal' = wal \o tail => n = Len(tail)
    BY <2>1, <2>2, SurvivingLog
  <2> QED
    BY <2>1, <2>3, <2>4 DEF Survives, Commits
<1> QED
  BY <1>1, <1>3, <1>4 DEF Begin, Ending, CommitLog, AbortLog, Flushing, CommitFlush, AbortFlush, Abort,
     Dying, Exit, Crash, GoDown, Analysis, pageVars, logVars, txnVars

-----------------------------------------------------------------------------
(* Analysis gives a transaction of the log the state its records say. *)
LEMMA AnalysisTells ==
    ASSUME RecTypeOK, StageInv, StatusInv, stage = "down", NEW t \in TxIds
    PROVE  AnalysisState(t) = IF ~Logged(t) THEN "UNKNOWN"
                              ELSE IF CommitLogged(t) THEN "COMMITTED" ELSE "ABORTED"
<1> DEFINE ctl == {i \in LogOf(t) : wal[i].type \in {"COMMIT", "ABORT"}}
<1>1. tail = <<>> /\ Len(wal) \in Nat
  BY DEF StageInv, RecTypeOK
<1>2. InLog = Elements(wal)
  BY <1>1, ElementsOfEmpty DEF InLog
<1>3. (LogOf(t) = {}) <=> ~Logged(t)
  BY <1>2 DEF LogOf, Logged, Elements
<1>4. CommitLogged(t) <=> \E i \in ctl : wal[i].type = "COMMIT"
  BY <1>2 DEF LogOf, CommitLogged, Elements
<1>5. ctl \subseteq 0 .. Len(wal)
  BY <1>1 DEF LogOf
<1>6. ctl # {} => Max(ctl) \in ctl
  BY <1>1, <1>5, MaxOfBounded
<1>7. \A i, j \in ctl : wal[i].type = "COMMIT" => wal[j].type = "COMMIT"
  <2> SUFFICES ASSUME NEW i \in ctl, NEW j \in ctl, wal[i].type = "COMMIT"
               PROVE  wal[j].type = "COMMIT"
    OBVIOUS
  <2>1. wal[i] \in InLog /\ wal[j] \in InLog /\ wal[i].tx = wal[j].tx
    BY <1>2 DEF LogOf, Elements
  <2> QED
    BY <2>1 DEF StatusInv
<1>8. AnalysisState(t) = IF LogOf(t) = {} THEN "UNKNOWN"
                         ELSE IF ctl # {} /\ wal[Max(ctl)].type = "COMMIT" THEN "COMMITTED"
                         ELSE "ABORTED"
  BY DEF AnalysisState
<1> HIDE DEF ctl
<1> QED
  BY <1>3, <1>4, <1>6, <1>7, <1>8

(* A control record joins the log, and is in the buffer. *)
LEMMA EndingLogs ==
    ASSUME RecTypeOK, StageInv
    PROVE  /\ CommitLog =>
                /\ tail' # <<>>
                /\ InLog' = InLog \union {[lsn |-> next_lsn, tx |-> cur, rid |-> 0, type |-> "COMMIT"]}
           /\ AbortLog =>
                /\ tail' # <<>>
                /\ InLog' = InLog \union {[lsn |-> next_lsn, tx |-> cur, rid |-> 0, type |-> "ABORT"]}
<1>1. ASSUME NEW type \in {"COMMIT", "ABORT"}, AppendLogRecord(type, 0), cur \in TxIds
      PROVE  /\ tail' # <<>>
             /\ InLog' = InLog \union {[lsn |-> next_lsn, tx |-> cur, rid |-> 0, type |-> type]}
  <2> DEFINE rec == [lsn |-> next_lsn, tx |-> cur, rid |-> 0, type |-> type]
  <2>1. tail' = Append(tail, rec) \/ tail' = <<rec>>
    BY <1>1 DEF AppendLogRecord
  <2>2. tail \in Seq(LogRecs) /\ Len(tail) \in Nat /\ rec \in LogRecs
    BY <1>1 DEF RecTypeOK, LogRecs
  <2> HIDE DEF rec
  <2>3. Append(tail, rec) # <<>> /\ <<rec>> # <<>>
    BY <2>2
  <2>4. type \in DataTypes \union {"COMMIT", "ABORT"} /\ 0 \in Nat
    BY <1>1
  <2>5. InLog' = InLog \union {[lsn |-> next_lsn, tx |-> cur, rid |-> 0, type |-> type]}
    BY <1>1, <2>4, LogAppended
  <2> QED
    BY <2>1, <2>3, <2>5
<1>2. CommitLog \/ AbortLog => cur \in TxIds
  BY DEF CommitLog, AbortLog, StageInv, Active
<1>3. CommitLog => AppendLogRecord("COMMIT", 0)
  BY DEF CommitLog
<1>4. AbortLog => AppendLogRecord("ABORT", 0)
  BY DEF AbortLog
<1> QED
  BY <1>1, <1>2, <1>3, <1>4

(* What a step appends to the log, if anything, is about the session's     *)
(* transaction; nothing is lost while the process lives.                   *)
LEMMA LogStep ==
    ASSUME RecTypeOK, StageInv, RecNext
    PROVE  /\ ~Dying => InLog \subseteq InLog'
           /\ \A x \in InLog' \ InLog : x.tx = cur
           /\ \A x \in InLog' \ InLog : x.type \notin DataTypes => CommitLog \/ AbortLog
           /\ \A x \in InLog' \ InLog : x.type = "COMMIT" => CommitLog
           /\ \A x \in InLog' \ InLog : x.type = "ABORT" => AbortLog
           /\ \A x \in InLog' \ InLog : stage \in {"running", "rollback"} /\ cur' = cur
           /\ CommitLog => \E x \in InLog' : x.tx = cur /\ x.type = "COMMIT"
<1>1. CASE Placing
  <2> DEFINE rec == [lsn |-> next_lsn, tx |-> cur, rid |-> Len(rows) + 1, type |-> "INSERT_ROW"]
  <2>1. InLog' = InLog \union {rec} /\ rec.tx = cur /\ rec.type = "INSERT_ROW"
    BY <1>1, LogOfStep
  <2> HIDE DEF rec
  <2>2. ~CommitLog /\ stage = "running" /\ cur' = cur
    BY <1>1, PlacingEffect DEF CommitLog
  <2> QED
    BY <2>1, <2>2 DEF DataTypes
<1>2. ASSUME NEW r \in 1 .. Len(rows), Marking(r)
      PROVE  /\ InLog \subseteq InLog'
             /\ \A x \in InLog' \ InLog : x.tx = cur /\ x.type = "DELETE_ROW" /\ stage = "running" /\ cur' = cur
             /\ ~CommitLog
  <2> DEFINE rec == [lsn |-> next_lsn, tx |-> cur, rid |-> r, type |-> "DELETE_ROW"]
  <2>1. InLog' = InLog \union {rec} /\ rec.tx = cur /\ rec.type = "DELETE_ROW"
    BY <1>2, LogOfStep
  <2> HIDE DEF rec
  <2>2. ~CommitLog /\ stage = "running" /\ cur' = cur
    BY <1>2, MarkingEffect DEF CommitLog
  <2> QED
    BY <2>1, <2>2
<1>3. CASE \E r \in 1 .. Len(rows) : Marking(r)
  BY <1>2, <1>3 DEF DataTypes
<1>4. CASE CommitLog
  <2> DEFINE rec == [lsn |-> next_lsn, tx |-> cur, rid |-> 0, type |-> "COMMIT"]
  <2>1. InLog' = InLog \union {rec} /\ rec.tx = cur /\ rec.type = "COMMIT"
    BY <1>4, EndingLogs
  <2> HIDE DEF rec
  <2>2. stage = "running" /\ cur' = cur
    BY <1>4, QuietEffect DEF Ending
  <2> QED
    BY <1>4, <2>1, <2>2 DEF DataTypes
<1>5. CASE AbortLog
  <2> DEFINE rec == [lsn |-> next_lsn, tx |-> cur, rid |-> 0, type |-> "ABORT"]
  <2>1. InLog' = InLog \union {rec} /\ rec.tx = cur /\ rec.type = "ABORT"
    BY <1>5, EndingLogs
  <2> HIDE DEF rec
  <2>2. stage = "rollback" /\ cur' = cur
    BY <1>5, QuietEffect DEF Ending
  <2>3. ~CommitLog
    BY <2>2 DEF CommitLog
  <2> QED
    BY <1>5, <2>1, <2>2, <2>3 DEF DataTypes
<1>6. CASE Begin \/ Flushing \/ Abort \/ RollbackWrite \/ Dying \/ Analysis \/ Redoing
  <2>1. InLog' \subseteq InLog /\ (~Dying => InLog' = InLog)
    BY <1>6, LogOfStep
  <2>2. ~CommitLog
    BY <1>6, QuietEffect, RedoEffect, StageOfStep DEF CommitLog, Begin, Abort, Analysis,
       RollbackWrite, Redoing, Flushing, Dying
  <2> QED
    BY <2>1, <2>2
<1> QED
  BY RecCases, <1>1, <1>3, <1>4, <1>5, <1>6 DEF Ending

(* Into and out of the states in which a control record waits for Flush. *)
LEMMA CommitMoves ==
    ASSUME RecTypeOK, StageInv, RecNext
    PROVE  /\ stage' = "committing" => CommitLog /\ stage = "running"
           /\ stage' = "aborting" => AbortLog /\ stage = "rollback"
           /\ stage = "committing" => CommitFlush \/ Dying
           /\ stage' = "running" /\ stage # "running" => Begin
           /\ stage' = "rollback" => stage \in {"running", "rollback"} /\ cur' = cur
           /\ stage' = "running" /\ stage = "running" => cur' = cur
           /\ stage' # "down" /\ stage = "down" => Analysis
<1>2. CASE Placing
  BY <1>2, PlacingEffect
<1>3. CASE \E r \in 1 .. Len(rows) : Marking(r)
  BY <1>3, MarkingEffect
<1>4. CASE RollbackWrite
  BY <1>4 DEF RollbackWrite
<1>5. CASE Redoing
  BY <1>5, RedoEffect
<1>6. CASE Begin \/ Ending \/ Flushing \/ Abort \/ Analysis
  BY <1>6, QuietEffect DEF Ending, Flushing, Begin
<1>7. CASE Dying
  BY <1>7, QuietEffect
<1> QED
  BY RecCases, <1>2, <1>3, <1>4, <1>5, <1>6, <1>7

(* Dying keeps the COMMIT records of the file and, with the whole buffer,  *)
(* that of the transaction that commits.                                   *)
LEMMA DyingCommits ==
    ASSUME RecTypeOK, StageInv, IdInv, StatusInv, Dying, NEW t
    PROVE  CommitLogged(t)' <=> OnDisk(t) \/ (t = cur /\ Commits)
<1>1. PICK n \in 0 .. Len(tail) : Survives(n)
  BY DyingLog
<1>2. wal \in Seq(LogRecs) /\ tail \in Seq(LogRecs) /\ Len(tail) \in Nat /\ Len(wal) \in Nat
  BY DEF RecTypeOK
<1>3. InLog' = Elements(wal) \union {tail[i] : i \in 1 .. n} /\ Len(wal') = Len(wal) + n
  BY <1>1, SurvivingLog
<1>4. Commits <=> stage = "committing" /\ n = Len(tail)
  <2>1. n = Len(tail) => wal' = wal \o tail
    BY <1>1, <1>2, PrefixOf DEF Survives
  <2>2. wal' = wal \o tail => n = Len(tail)
    BY <1>2, <1>3
  <2> QED
    BY <2>1, <2>2 DEF Commits
<1>5. TailInv /\ "COMMIT" \notin DataTypes
  BY DEF IdInv, DataTypes
<1>6. CommitLogged(t)' <=> \E x \in InLog' : x.tx = t /\ x.type = "COMMIT"
  BY DEF CommitLogged
<1>7. CommitLogged(t) <=> \/ \E x \in Elements(wal) : x.tx = t /\ x.type = "COMMIT"
                          \/ \E x \in Elements(tail) : x.tx = t /\ x.type = "COMMIT"
  BY DEF CommitLogged, InLog
<1>8. CASE stage # "committing"
  <2>1. \A i \in 1 .. Len(tail) : tail[i].type # "COMMIT"
    BY <1>5, <1>8 DEF TailInv
  <2>2. \A i \in 1 .. n : tail[i].type # "COMMIT"
    BY <1>2, <2>1
  <2> QED
    BY <1>3, <1>4, <1>6, <1>7, <1>8, <2>1, <2>2 DEF OnDisk, Elements
<1>9. CASE stage = "committing" /\ t # cur
  <2>1. \A i \in 1 .. Len(tail) : tail[i].tx # t
    BY <1>5, <1>9 DEF TailInv
  <2>2. \A i \in 1 .. n : tail[i].tx # t
    BY <1>2, <2>1
  <2> QED
    BY <1>3, <1>6, <1>7, <1>9, <2>1, <2>2 DEF OnDisk, Elements
<1>10. CASE stage = "committing" /\ t = cur
  <2>1. \A x \in Elements(wal) : x.tx = t => x.type # "COMMIT"
    BY <1>5, <1>10 DEF TailInv, Active, Elements
  <2>2. PICK i \in 1 .. Len(tail) : tail[i].tx = t /\ tail[i].type = "COMMIT"
    BY <1>7, <1>10, <2>1 DEF StatusInv, Elements
  <2>3. n = Len(tail) => CommitLogged(t)'
    BY <1>3, <1>6, <2>2
  <2>4. \A j \in 1 .. Len(tail) - 1 : tail[j].type # "COMMIT"
    BY <1>5 DEF TailInv
  <2>5. n # Len(tail) => \A j \in 1 .. n : tail[j].type # "COMMIT"
    BY <1>2, <2>4
  <2>6. n # Len(tail) => ~CommitLogged(t)'
    BY <1>3, <1>6, <2>1, <2>5
  <2> QED
    BY <1>4, <1>10, <2>3, <2>6 DEF OnDisk
<1> QED
  BY <1>8, <1>9, <1>10

(* The COMMIT record of a transaction reaches the disk when Flush returns, *)
(* or when the process dies at its end, and is never lost.                 *)
LEMMA OnDiskStep ==
    ASSUME RecTypeOK, StageInv, IdInv, StatusInv, RecNext, NEW t
    PROVE  /\ ~Dying => (CommitLogged(t)' <=> CommitLogged(t) \/ (CommitLog /\ t = cur))
           /\ OnDisk(t)' <=> OnDisk(t) \/ (t = cur /\ Commits)
<1>1. CommitLogged(t)' <=> \E x \in InLog' : x.tx = t /\ x.type = "COMMIT"
  BY DEF CommitLogged
<1>2. ASSUME ~Dying PROVE CommitLogged(t)' <=> CommitLogged(t) \/ (CommitLog /\ t = cur)
  <2>1. CommitLogged(t)' => CommitLogged(t) \/ (CommitLog /\ t = cur)
    BY <1>1, LogStep DEF CommitLogged
  <2>2. CommitLogged(t) => CommitLogged(t)'
    BY <1>1, <1>2, LogStep DEF CommitLogged
  <2>3. CommitLog /\ t = cur => CommitLogged(t)'
    BY <1>1, LogStep
  <2> QED
    BY <2>1, <2>2, <2>3
<1>3. OnDisk(t)' <=> CommitLogged(t)' /\ ~(stage' = "committing" /\ t = cur')
  BY DEF OnDisk
<1>4. CASE Dying
  <2>1. stage' # "committing"
    BY <1>4, StageOfStep
  <2> QED
    BY <1>3, <1>4, <2>1, DyingCommits
<1>5. CASE ~Dying /\ stage = "committing"
  <2>1. CommitFlush /\ ~CommitLog /\ stage' # "committing"
    BY <1>5, CommitMoves DEF CommitLog
  <2>2. CommitLogged(cur)
    BY <1>5 DEF StatusInv
  <2>3. Commits
    BY <1>5, <2>1 DEF Commits, CommitFlush, FlushLog
  <2> QED
    BY <1>2, <1>3, <1>5, <2>1, <2>2, <2>3 DEF OnDisk
<1>6. CASE ~Dying /\ CommitLog
  <2>1. stage = "running" /\ stage' = "committing" /\ cur' = cur
    BY <1>6, QuietEffect DEF Ending
  <2>2. ~CommitLogged(cur)
    BY <2>1 DEF StatusInv, CommitLogged, Open, DataTypes
  <2> QED
    BY <1>2, <1>3, <1>6, <2>1, <2>2 DEF OnDisk, Commits
<1>7. CASE ~Dying /\ stage # "committing" /\ ~CommitLog
  <2>1. stage' # "committing"
    BY <1>7, CommitMoves
  <2> QED
    BY <1>2, <1>3, <1>7, <2>1 DEF OnDisk, Commits
<1> QED
  BY <1>2, <1>4, <1>5, <1>6, <1>7

(* The states of transactions follow the log, through restarts too. *)
LEMMA StatusStep ==
    ASSUME RecTypeOK, StageInv, IdInv, StatusInv, RecNext
    PROVE  StatusInv'
<1>1. next_txid \in 1 .. (MaxTxid + 1) /\ MaxTxid \in Nat /\ (stage \in Active => cur \in TxIds)
  BY MaxTxidAssumption DEF RecTypeOK, StageInv
<1>2. (stage \notin Active => cur = INVALID_TX_ID)'
  <2>1. stage \notin Active => cur = INVALID_TX_ID
    BY DEF StatusInv
  <2>2. CASE RollbackWrite
    BY <2>1, <2>2 DEF RollbackWrite, Active
  <2>3. CASE Begin \/ Ending \/ Flushing \/ Abort \/ Dying \/ Analysis
    BY <2>1, <2>3, QuietEffect DEF Active, Ending
  <2> QED
    BY <2>1, <2>2, <2>3, RecCases, PlacingEffect, MarkingEffect, RedoEffect DEF Active
<1>3. \/ txn_state' = txn_state
      \/ Begin /\ txn_state' = [txn_state EXCEPT ![next_txid] = "IN_PROGRESS"] /\ next_txid \in TxIds
      \/ CommitLog /\ txn_state' = [txn_state EXCEPT ![cur] = "COMMITTED"] /\ cur \in TxIds
      \/ AbortLog /\ txn_state' = [txn_state EXCEPT ![cur] = "ABORTED"] /\ cur \in TxIds
      \/ Dying /\ txn_state' = [t \in TxIds |-> "UNKNOWN"]
      \/ Analysis /\ txn_state' = [t \in TxIds |-> AnalysisState(t)]
  <2>1. Begin => next_txid \in TxIds
    BY <1>1 DEF Begin, TxIds
  <2>2. CommitLog \/ AbortLog => cur \in TxIds
    BY <1>1 DEF CommitLog, AbortLog, Active
  <2>3. RollbackWrite => txn_state' = txn_state
    BY DEF RollbackWrite
  <2> QED
    BY <2>1, <2>2, <2>3, RecCases, PlacingEffect, MarkingEffect, RedoEffect, QuietEffect DEF Ending
<1>4. txn_state' \in [TxIds -> TransactionState]
  <2>1. txn_state \in [TxIds -> TransactionState]
    BY DEF StatusInv
  <2>2. \A t \in TxIds : AnalysisState(t) \in TransactionState
    BY DEF AnalysisState, TransactionState
  <2>3. {"IN_PROGRESS", "COMMITTED", "ABORTED", "UNKNOWN"} \subseteq TransactionState
    BY DEF TransactionState
  <2> QED
    BY <1>3, <2>1, <2>2, <2>3
<1>5. (\A x \in InLog : Open(x.tx) => x.type \in DataTypes)'
  <2> SUFFICES ASSUME NEW x \in InLog', Open(x.tx)' PROVE x.type \in DataTypes
    BY DEF DataTypes
  <2>1. stage' \in {"running", "rollback"} /\ x.tx = cur'
    BY DEF Open
  <2>2. CASE x \notin InLog
    <3>1. CASE CommitLog \/ AbortLog
      BY <2>1, <3>1, QuietEffect
    <3> QED
      BY <2>2, <3>1, LogStep
  <2>3. CASE x \in InLog /\ Begin
    <3>1. x.tx < next_txid /\ cur' = next_txid
      BY <2>3, QuietEffect DEF IdInv
    <3> QED
      BY <1>1, <2>1, <3>1
  <2>4. CASE x \in InLog /\ ~Begin
    <3>1. stage \in {"running", "rollback"} /\ cur' = cur
      BY <2>1, <2>4, CommitMoves
    <3> QED
      BY <2>1, <2>4, <3>1 DEF StatusInv, Open
  <2> QED
    BY <2>2, <2>3, <2>4
<1>6. (stage \in {"running", "rollback"} => txn_state[cur] = "IN_PROGRESS")'
  <2> SUFFICES ASSUME stage' \in {"running", "rollback"} PROVE txn_state'[cur'] = "IN_PROGRESS"
    OBVIOUS
  <2>1. CASE Begin
    <3>1. next_txid \in TxIds /\ cur' = next_txid
          /\ txn_state' = [txn_state EXCEPT ![next_txid] = "IN_PROGRESS"]
      BY <1>1, <2>1, QuietEffect DEF Begin, TxIds
    <3> QED
      BY <3>1 DEF StatusInv
  <2>2. CASE ~Begin
    <3>1. stage \in {"running", "rollback"} /\ cur' = cur
      BY <2>2, CommitMoves
    <3>2. txn_state' = txn_state
      BY <1>3, <2>2, <3>1, QuietEffect
    <3> QED
      BY <3>1, <3>2 DEF StatusInv
  <2> QED
    BY <2>1, <2>2
<1>7. (\A x, y \in InLog : x.tx = y.tx /\ x.type = "COMMIT" => y.type # "ABORT")'
  <2> SUFFICES ASSUME NEW x \in InLog', NEW y \in InLog', x.tx = y.tx, x.type = "COMMIT", y.type = "ABORT"
               PROVE  FALSE
    OBVIOUS
  <2>1. \A z \in InLog : Open(z.tx) => z.type \in DataTypes
    BY DEF StatusInv
  <2>2. CASE x \in InLog /\ y \in InLog
    BY <2>2 DEF StatusInv
  <2>3. CASE x \notin InLog /\ y \in InLog
    <3>1. x.tx = cur /\ stage \in {"running", "rollback"}
      BY <2>3, LogStep
    <3> QED
      BY <2>1, <2>3, <3>1 DEF Open, DataTypes
  <2>4. CASE x \in InLog /\ y \notin InLog
    <3>1. y.tx = cur /\ stage \in {"running", "rollback"}
      BY <2>4, LogStep
    <3> QED
      BY <2>1, <2>4, <3>1 DEF Open, DataTypes
  <2>5. CASE x \notin InLog /\ y \notin InLog
    BY <2>5, LogStep DEF CommitLog, AbortLog
  <2> QED
    BY <2>2, <2>3, <2>4, <2>5
<1>8. (stage \in {"committing", "aborting"} => tail # <<>>)'
  BY CommitMoves, EndingLogs
<1>9. (stage = "committing" => CommitLogged(cur))'
  <2> SUFFICES ASSUME stage' = "committing" PROVE CommitLogged(cur)'
    OBVIOUS
  <2>1. CommitLog /\ cur' = cur
    BY CommitMoves, QuietEffect DEF Ending
  <2>2. \E x \in InLog' : x.tx = cur /\ x.type = "COMMIT"
    BY <2>1, LogStep
  <2> QED
    BY <2>1, <2>2 DEF CommitLogged
<1>10. ASSUME stage' # "down", NEW t \in TxIds, Logged(t)', ~Open(t)'
       PROVE  txn_state'[t] = IF CommitLogged(t)' THEN "COMMITTED" ELSE "ABORTED"
  <2>0. txn_state \in [TxIds -> TransactionState]
    BY DEF StatusInv
  <2>1. CASE Analysis
    <3>1. stage = "down" /\ txn_state'[t] = AnalysisState(t) /\ InLog' = InLog
      BY <2>1, QuietEffect, LogOfStep
    <3>2. Logged(t) /\ (CommitLogged(t)' <=> CommitLogged(t))
      BY <1>10, <3>1 DEF Logged, CommitLogged
    <3> QED
      BY <3>1, <3>2, AnalysisTells
  <2>2. CASE ~Analysis
    <3>0. ~Dying
      BY <1>10, StageOfStep
    <3>1. stage # "down"
      BY <1>10, <2>2, CommitMoves
    <3>2. Logged(t) /\ ~Open(t) => txn_state[t] = IF CommitLogged(t) THEN "COMMITTED" ELSE "ABORTED"
      BY <3>1 DEF StatusInv
    <3>3. CASE CommitLog /\ t = cur
      <4>1. txn_state'[t] = "COMMITTED"
        BY <2>0, <3>3, QuietEffect
      <4> QED
        BY <3>0, <3>3, <4>1, OnDiskStep
    <3>4. CASE AbortLog /\ t = cur
      <4>1. txn_state'[t] = "ABORTED" /\ stage = "rollback"
        BY <2>0, <3>4, QuietEffect
      <4>2. ~CommitLogged(t)
        BY <3>4, <4>1 DEF StatusInv, CommitLogged, Open, DataTypes
      <4>3. ~CommitLogged(t)'
        BY <3>0, <4>1, <4>2, OnDiskStep DEF CommitLog
      <4> QED
        BY <4>1, <4>3
    <3>5. CASE ~((CommitLog \/ AbortLog) /\ t = cur)
      <4>1. CommitLogged(t)' <=> CommitLogged(t)
        BY <3>0, <3>5, OnDiskStep
      <4>2. ~Open(t)
        <5> SUFFICES ASSUME Open(t) PROVE FALSE
          OBVIOUS
        <5>1. stage \in {"running", "rollback"} /\ t = cur /\ cur # INVALID_TX_ID
          BY DEF Open, INVALID_TX_ID, TxIds
        <5>2. ~(stage' \in {"running", "rollback"} /\ cur' = cur)
          BY <1>10, <5>1 DEF Open
        <5>3. Placing \/ (\E r \in 1 .. Len(rows) : Marking(r)) \/ Abort \/ RollbackWrite \/ Dying
          BY <3>5, <5>1, RecCases, QuietEffect, RedoEffect DEF Ending, Flushing
        <5>4. CASE RollbackWrite
          BY <5>2, <5>4 DEF RollbackWrite
        <5> QED
          BY <1>10, <5>1, <5>2, <5>3, <5>4, PlacingEffect, MarkingEffect, QuietEffect
      <4>3. Logged(t)
        <5>1. PICK x \in InLog' : x.tx = t
          BY <1>10 DEF Logged
        <5>2. CASE x \in InLog
          BY <5>1, <5>2 DEF Logged
        <5>3. CASE x \notin InLog
          BY <4>2, <5>1, <5>3, LogStep DEF Open
        <5> QED
          BY <5>2, <5>3
      <4>4. txn_state'[t] = txn_state[t]
        <5>1. CASE Begin
          <6>1. t < next_txid
            BY <4>3, <3>1 DEF IdInv, Logged
          <6> QED
            BY <1>1, <2>0, <5>1, <6>1, QuietEffect
        <5>2. CASE CommitLog \/ AbortLog
          BY <2>0, <3>5, <5>2, QuietEffect
        <5>3. CASE ~Begin /\ ~CommitLog /\ ~AbortLog
          BY <1>3, <1>10, <2>2, <5>3, QuietEffect
        <5> QED
          BY <5>1, <5>2, <5>3
      <4> QED
        BY <3>2, <4>1, <4>2, <4>3, <4>4
    <3> QED
      BY <3>3, <3>4, <3>5
  <2> QED
    BY <2>1, <2>2
<1> QED
  BY <1>2, <1>4, <1>5, <1>6, <1>7, <1>8, <1>9, <1>10 DEF StatusInv

-----------------------------------------------------------------------------
(* A transaction that begins now sees the commits on disk and nothing else. *)
LEMMA ReaderSees ==
    ASSUME RecTypeOK, StageInv, IdInv, StatusInv, Up, stage # "committing",
           NEW t \in TxIds, Logged(t)
    PROVE  IsVisible(NewReader, txn_state, t) <=> OnDisk(t)
<1> DEFINE others == {a \in ({cur} \ {INVALID_TX_ID}) \ {next_txid} : txn_state[a] = "IN_PROGRESS"}
<1>1. /\ NewReader.create = next_txid /\ NewReader.low = next_txid + 1 /\ NewReader.active = others
  BY DEF NewReader, MakeReadView
<1>2. t < next_txid /\ next_txid \in Nat /\ t \in Nat /\ t # 0
  BY DEF IdInv, Logged, Up, RecTypeOK, TxIds
<1>3. OnDisk(t) <=> CommitLogged(t)
  BY DEF OnDisk
<1>4. IsVisible(NewReader, txn_state, t) <=>
         txn_state[t] # "ABORTED" /\ t \notin others /\ (t < NewReader.up \/ txn_state[t] = "COMMITTED")
  <2>1. t # INVALID_TX_ID /\ t # next_txid /\ t < next_txid + 1
    BY <1>2 DEF INVALID_TX_ID
  <2> HIDE DEF others
  <2> QED
    BY <1>1, <2>1 DEF IsVisible
<1>5. CASE Open(t)
  <2>1. t = cur /\ txn_state[t] = "IN_PROGRESS" /\ stage \in {"running", "rollback"}
    BY <1>5 DEF Open, StatusInv
  <2>2. t \in others
    BY <1>2, <2>1 DEF INVALID_TX_ID
  <2>3. ~CommitLogged(t)
    BY <1>5 DEF CommitLogged, StatusInv, DataTypes
  <2> QED
    BY <1>3, <1>4, <2>2, <2>3
<1>6. CASE ~Open(t)
  <2>1. txn_state[t] = IF CommitLogged(t) THEN "COMMITTED" ELSE "ABORTED"
    BY <1>6 DEF StatusInv, Up
  <2>2. t \in others => txn_state[t] = "IN_PROGRESS"
    OBVIOUS
  <2> HIDE DEF others
  <2> QED
    BY <1>3, <1>4, <2>1, <2>2
<1> QED
  BY <1>5, <1>6

(* A statement takes records of its own transaction or of commits on disk. *)
LEMMA MarkerSees ==
    ASSUME RecTypeOK, StageInv, IdInv, StatusInv, stage = "running",
           NEW t \in TxIds, Logged(t), t # cur,
           IsVisible(MakeReadView(cur, next_txid, {cur}, txn_state), txn_state, t)
    PROVE  OnDisk(t)
<1> DEFINE rv == MakeReadView(cur, next_txid, {cur}, txn_state)
<1>1. rv.create = cur
  BY DEF MakeReadView
<1>2. t # INVALID_TX_ID
  BY DEF INVALID_TX_ID, TxIds
<1>3. txn_state[t] # "ABORTED"
  <2> HIDE DEF rv
  <2>1. IsVisible(rv, txn_state, t)
    BY DEF rv
  <2> QED
    BY <1>1, <1>2, <2>1 DEF IsVisible
<1>4. txn_state[t] = IF CommitLogged(t) THEN "COMMITTED" ELSE "ABORTED"
  BY DEF StatusInv, Open
<1> QED
  BY <1>3, <1>4 DEF OnDisk

-----------------------------------------------------------------------------
(* A set of naturals has a least element. *)
LEMMA LeastOf ==
    ASSUME NEW S, S \subseteq Nat, S # {}
    PROVE  \E m \in S : \A k \in S : m <= k
<1>1. PICK m \in S : \A y \in S : ~(<<y, m>> \in OpToRel(<, Nat))
  BY NatLessThanWellFounded, WFMin
<1>2. ASSUME NEW k \in S PROVE m <= k
  <2>1. k \in Nat /\ m \in Nat
    OBVIOUS
  <2>2. ~(k < m)
    BY <1>1, <2>1 DEF OpToRel
  <2> QED
    BY <2>1, <2>2
<1> QED
  BY <1>2

(* f tells what the walk along the chain finds from pointers up to n. *)
WalkFrom(f, n, rv) ==
    f = [q \in 0 .. n |->
            IF q = 0 THEN {}
            ELSE IF IsVisible(rv, txn_state, undo[q].trx) THEN {undo[q].ver}
            ELSE f[undo[q].roll]]

(* The images a pointer leads to get older. *)
RollsBack == \A p \in 1 .. Len(undo) : undo[p].roll \in Nat /\ undo[p].roll < p

(* Chains lead to older images, so the walk is defined from every pointer. *)
LEMMA WalkExists ==
    ASSUME Len(undo) \in Nat, RollsBack, NEW rv
    PROVE  \E f : WalkFrom(f, Len(undo), rv)
<1> DEFINE S == {n \in Nat : n <= Len(undo) /\ ~ \E f : WalkFrom(f, n, rv)}
<1> SUFFICES ASSUME S # {} PROVE FALSE
  OBVIOUS
<1>1. PICK m \in S : \A k \in S : m <= k
  <2>1. S \subseteq Nat
    OBVIOUS
  <2> HIDE DEF S
  <2> QED
    BY <2>1, LeastOf
<1>2. m \in Nat /\ m <= Len(undo) /\ ~ \E f : WalkFrom(f, m, rv)
  OBVIOUS
<1>3. CASE m = 0
  <2> DEFINE g == [q \in 0 .. 0 |-> {}]
  <2>1. WalkFrom(g, 0, rv)
    BY DEF WalkFrom
  <2> QED
    BY <1>2, <1>3, <2>1
<1>4. CASE m # 0
  <2>1. m - 1 \in Nat /\ m - 1 <= Len(undo) /\ ~(m <= m - 1)
    BY <1>2, <1>4
  <2>2. PICK f : WalkFrom(f, m - 1, rv)
    BY <1>1, <2>1
  <2> DEFINE at(q) == IF IsVisible(rv, txn_state, undo[q].trx) THEN {undo[q].ver} ELSE f[undo[q].roll]
             g == [q \in 0 .. m |-> IF q = 0 THEN {} ELSE at(q)]
  <2>3. \A q \in 0 .. m - 1 : f[q] = IF q = 0 THEN {} ELSE at(q)
    BY <2>2 DEF WalkFrom
  <2> HIDE DEF at
  <2>4. \A q \in 0 .. m - 1 : q \in 0 .. m /\ g[q] = f[q]
    BY <1>2, <2>3
  <2>5. ASSUME NEW q \in 0 .. m, q # 0 PROVE f[undo[q].roll] = g[undo[q].roll]
    <3>1. q \in 1 .. Len(undo)
      BY <1>2, <2>5
    <3>2. undo[q].roll \in Nat /\ undo[q].roll < q
      BY <3>1 DEF RollsBack
    <3>3. undo[q].roll \in 0 .. m - 1
      BY <1>2, <2>5, <3>2
    <3> QED
      BY <2>4, <3>3
  <2>6. g = [q \in 0 .. m |->
               IF q = 0 THEN {}
               ELSE IF IsVisible(rv, txn_state, undo[q].trx) THEN {undo[q].ver}
               ELSE g[undo[q].roll]]
    <3>1. \A q \in 0 .. m : q # 0 => at(q) =
            IF IsVisible(rv, txn_state, undo[q].trx) THEN {undo[q].ver} ELSE g[undo[q].roll]
      BY <2>5 DEF at
    <3>2. g = [q \in 0 .. m |-> IF q = 0 THEN {} ELSE at(q)]
      OBVIOUS
    <3> HIDE DEF g
    <3> QED
      BY <3>1, <3>2
  <2>7. WalkFrom(g, m, rv)
    <3> HIDE DEF g
    <3> QED
      BY <2>6 DEF WalkFrom
  <2> QED
    BY <1>2, <2>7
<1> QED
  BY <1>3, <1>4

(* What the walk finds from a pointer. *)
LEMMA ChainUnfolds ==
    ASSUME Len(undo) \in Nat, RollsBack, NEW rv, NEW p \in 0 .. Len(undo)
    PROVE  ChainVersion(rv, p) =
             IF p = 0 THEN {}
             ELSE IF IsVisible(rv, txn_state, undo[p].trx) THEN {undo[p].ver}
             ELSE ChainVersion(rv, undo[p].roll)
<1> DEFINE visible[q \in 0 .. Len(undo)] ==
             IF q = 0 THEN {}
             ELSE IF IsVisible(rv, txn_state, undo[q].trx) THEN {undo[q].ver}
             ELSE visible[undo[q].roll]
<1> HIDE DEF visible
<1>1. visible = CHOOSE f : f = [q \in 0 .. Len(undo) |->
                    IF q = 0 THEN {}
                    ELSE IF IsVisible(rv, txn_state, undo[q].trx) THEN {undo[q].ver}
                    ELSE f[undo[q].roll]]
  BY DEF visible
<1>2. PICK g : WalkFrom(g, Len(undo), rv)
  BY WalkExists
<1>3. WalkFrom(visible, Len(undo), rv)
  BY <1>1, <1>2 DEF WalkFrom
<1>4. \A q : ChainVersion(rv, q) = visible[q]
  BY DEF ChainVersion, visible
<1>5. visible[p] = IF p = 0 THEN {}
                   ELSE IF IsVisible(rv, txn_state, undo[p].trx) THEN {undo[p].ver}
                   ELSE visible[undo[p].roll]
  BY <1>3 DEF WalkFrom
<1> QED
  BY <1>4, <1>5

-----------------------------------------------------------------------------
(* View rv shows the commits on disk. *)
SeesDisk(rv) ==
    /\ \A r \in 1 .. Len(rows) : IsVisible(rv, txn_state, rows[r].trx) <=> OnDisk(rows[r].trx)
    /\ \A p \in 1 .. Len(undo) : IsVisible(rv, txn_state, undo[p].trx) <=> OnDisk(undo[p].trx)

(* A version that a record t has marked leads to, when t is not on disk. *)
TakenBy(x, t) == x \in 1 .. Len(rows) /\ rows[x].del /\ rows[x].trx = t /\ x \in db

(* The pointers of the page are naturals, and lead to older images. *)
LEMMA PageTypes ==
    ASSUME RecTypeOK, PageInv
    PROVE  /\ Len(undo) \in Nat /\ Len(rows) \in Nat /\ RollsBack
           /\ \A r \in 1 .. Len(rows) : rows[r] \in Headers /\ rows[r].roll \in Nat
           /\ \A p \in 1 .. Len(undo) : undo[p] \in Images /\ undo[p].roll \in Nat
<1>1. /\ Len(undo) \in Nat /\ Len(rows) \in Nat
      /\ \A r \in 1 .. Len(rows) : rows[r] \in Headers
      /\ \A p \in 1 .. Len(undo) : undo[p] \in Images
  BY DEF RecTypeOK
<1>2. /\ \A h \in Headers : h.roll \in Nat
      /\ \A g \in Images : g.roll \in Nat
  BY DEF Headers, Images
<1> QED
  BY <1>1, <1>2 DEF PageInv, RollsBack

(* A chain that starts at a record t has marked leads to such versions. *)
LEMMA HeldChain ==
    ASSUME RecTypeOK, PageInv, NEW rv, SeesDisk(rv), NEW t, ~OnDisk(t), NEW p \in Nat, Held(p, t)
    PROVE  \A x \in ChainVersion(rv, p) : TakenBy(x, t)
<1> DEFINE Bad == {q \in Nat : Held(q, t) /\ \E x \in ChainVersion(rv, q) : ~TakenBy(x, t)}
<1> SUFFICES ASSUME Bad # {} PROVE FALSE
  OBVIOUS
<1>1. PICK m \in Bad : \A k \in Bad : m <= k
  <2>1. Bad \subseteq Nat
    OBVIOUS
  <2> HIDE DEF Bad
  <2> QED
    BY <2>1, LeastOf
<1>2. m \in Nat /\ Held(m, t) /\ \E x \in ChainVersion(rv, m) : ~TakenBy(x, t)
  OBVIOUS
<1>3. Len(undo) \in Nat /\ RollsBack
  BY PageTypes
<1>4. m # 0
  <2>1. ChainVersion(rv, 0) = {}
    BY <1>3, ChainUnfolds
  <2> QED
    BY <1>2, <2>1
<1>5. m \in 1 .. Len(undo) /\ m \in 0 .. Len(undo)
  BY <1>2, <1>3, <1>4 DEF Held
<1>6. ChainVersion(rv, m) = IF IsVisible(rv, txn_state, undo[m].trx) THEN {undo[m].ver}
                            ELSE ChainVersion(rv, undo[m].roll)
  BY <1>3, <1>4, <1>5, ChainUnfolds
<1> DEFINE s == undo[m].ver
<1>7. s \in 1 .. Len(rows) /\ rows[s].del /\ ~rows[s].dead /\ rows[s].trx = t /\ rows[s].roll = m
  BY <1>2, <1>4 DEF Held
<1> HIDE DEF s
<1>8. ~Lost(s) /\ Image(s) = undo[m] /\ ImageInv(s) /\ VersionInv(s)
  BY <1>4, <1>7 DEF Lost, Image, PageInv
<1>9. CASE OnDisk(undo[m].trx)
  <2>1. ChainVersion(rv, m) = {s}
    BY <1>5, <1>6, <1>9 DEF SeesDisk, s
  <2>2. s \in db
    BY <1>7, <1>8, <1>9 DEF VersionInv
  <2> QED
    BY <1>2, <1>7, <2>1, <2>2 DEF TakenBy
<1>10. CASE ~OnDisk(undo[m].trx)
  <2>1. ChainVersion(rv, m) = ChainVersion(rv, undo[m].roll)
    BY <1>5, <1>6, <1>10 DEF SeesDisk
  <2>2. Held(undo[m].roll, t)
    BY <1>7, <1>8, <1>10 DEF ImageInv
  <2>3. undo[m].roll \in Nat /\ undo[m].roll < m
    BY <1>3, <1>5 DEF RollsBack
  <2>4. undo[m].roll \in Bad
    BY <1>2, <2>1, <2>2, <2>3
  <2> QED
    BY <1>1, <1>2, <2>3, <2>4
<1> QED
  BY <1>9, <1>10

(* What a scan returns for record r. *)
LEMMA ScanOfRecord ==
    ASSUME RecTypeOK, PageInv, NEW rv, SeesDisk(rv), NEW r \in 1 .. Len(rows)
    PROVE  /\ \A x \in ScanRecord(rv, r) :
                \/ x = r /\ x \in db /\ OnDisk(rows[r].trx) /\ ~rows[r].del
                \/ ~OnDisk(rows[r].trx) /\ TakenBy(x, rows[r].trx)
           /\ r \in db /\ ~Lost(r) => r \in ScanRecord(rv, r)
<1>1. ImageInv(r) /\ VersionInv(r)
  BY DEF PageInv
<1>2. Len(undo) \in Nat /\ RollsBack /\ rows[r] \in Headers /\ rows[r].roll \in Nat
  BY PageTypes
<1>3. IsVisible(rv, txn_state, rows[r].trx) <=> OnDisk(rows[r].trx)
  BY DEF SeesDisk
<1>4. CASE rows[r].dead
  BY <1>1, <1>4 DEF ScanRecord, VersionInv
<1>5. CASE ~rows[r].dead /\ OnDisk(rows[r].trx)
  <2>1. ScanRecord(rv, r) = IF rows[r].del THEN {} ELSE {r}
    BY <1>3, <1>5 DEF ScanRecord
  <2>2. ~rows[r].del => r \in db
    BY <1>1, <1>5 DEF VersionInv, Lost, Image
  <2>3. r \in db /\ ~Lost(r) => ~rows[r].del
    BY <1>1, <1>5 DEF VersionInv
  <2> QED
    BY <1>5, <2>1, <2>2, <2>3
<1>6. CASE ~rows[r].dead /\ ~OnDisk(rows[r].trx)
  <2>1. ScanRecord(rv, r) = ChainVersion(rv, rows[r].roll)
    BY <1>3, <1>6 DEF ScanRecord
  <2>2. Held(rows[r].roll, rows[r].trx)
    BY <1>1, <1>6 DEF ImageInv
  <2>3. \A x \in ScanRecord(rv, r) : TakenBy(x, rows[r].trx)
    BY <1>2, <1>6, <2>1, <2>2, HeldChain
  <2>4. ASSUME r \in db, ~Lost(r) PROVE r \in ScanRecord(rv, r)
    <3>1. OnDisk(Image(r).trx)
      BY <1>1, <1>6, <2>4 DEF VersionInv
    <3>2. rows[r].del
      BY <1>6, <3>1 DEF Image
    <3>3. Image(r) = undo[rows[r].roll] /\ rows[r].roll \in 1 .. Len(undo) /\ Image(r).ver = r
      BY <1>1, <2>4, <3>2 DEF ImageInv, Image
    <3>4. IsVisible(rv, txn_state, undo[rows[r].roll].trx)
      BY <3>1, <3>3 DEF SeesDisk
    <3>5. rows[r].roll \in 0 .. Len(undo) /\ rows[r].roll # 0
      BY <1>2, <3>3
    <3>6. ChainVersion(rv, rows[r].roll) = {undo[rows[r].roll].ver}
      BY <1>2, <3>4, <3>5, ChainUnfolds
    <3> QED
      BY <2>1, <3>3, <3>6
  <2> QED
    BY <1>6, <2>3, <2>4
<1> QED
  BY <1>4, <1>5, <1>6

(* The invariants say what a transaction that begins now reads. *)
LEMMA ReaderReads ==
    ASSUME RecTypeOK, StageInv, IdInv, StatusInv, PageInv, Up, stage # "committing"
    PROVE  /\ SeesDisk(NewReader)
           /\ Scan(NewReader) \subseteq db
           /\ run <= 2 => Scan(NewReader) = db
<1>1. SeesDisk(NewReader)
  <2>1. \A r \in 1 .. Len(rows) : rows[r].trx \in TxIds /\ Logged(rows[r].trx)
    <3>1. \A r \in 1 .. Len(rows) : rows[r] \in Headers
      BY DEF RecTypeOK
    <3> QED
      BY <3>1, ChangedIsLogged DEF Headers, IdInv
  <2>2. \A p \in 1 .. Len(undo) : undo[p].trx \in TxIds /\ Logged(undo[p].trx)
    <3>1. \A p \in 1 .. Len(undo) : undo[p] \in Images
      BY DEF RecTypeOK
    <3> QED
      BY <3>1, ChangedIsLogged DEF Images, IdInv
  <2> QED
    BY <2>1, <2>2, ReaderSees DEF SeesDisk
<1>2. \A r \in 1 .. Len(rows) : ScanRecord(NewReader, r) \subseteq db
  BY <1>1, ScanOfRecord DEF TakenBy
<1>3. Scan(NewReader) \subseteq db
  BY <1>2 DEF Scan
<1>4. ASSUME run <= 2, NEW r \in db PROVE r \in Scan(NewReader)
  <2>1. r \in 1 .. Len(rows) /\ ~Lost(r)
    BY <1>4 DEF PageInv, ImageInv
  <2>2. r \in ScanRecord(NewReader, r)
    BY <1>1, <1>4, <2>1, ScanOfRecord
  <2> QED
    BY <2>1, <2>2 DEF Scan
<1> QED
  BY <1>1, <1>3, <1>4

-----------------------------------------------------------------------------
(* Steps and the page. *)

(* Marked records stay as they are, and so do images. *)
KeepsMarks ==
    /\ Len(rows) <= Len(rows') /\ Len(undo) <= Len(undo')
    /\ \A p \in 1 .. Len(undo) : undo'[p] = undo[p]
    /\ \A q \in 1 .. Len(rows) : rows[q].del => rows'[q] = rows[q]

(* A pointer that is held stays so while marks are kept. *)
LEMMA HeldKept ==
    ASSUME Len(rows) \in Nat, Len(undo) \in Nat, Len(rows') \in Nat, Len(undo') \in Nat,
           KeepsMarks, NEW p, NEW t, Held(p, t)
    PROVE  Held(p, t)'
<1> SUFFICES ASSUME p # 0
             PROVE  /\ p \in 1 .. Len(undo')
                    /\ undo'[p].ver \in 1 .. Len(rows')
                    /\ LET s == rows'[undo'[p].ver]
                       IN  s.del /\ ~s.dead /\ s.trx = t /\ s.roll = p
  BY DEF Held
<1> DEFINE v == undo[p].ver
<1>1. p \in 1 .. Len(undo) /\ v \in 1 .. Len(rows)
      /\ rows[v].del /\ ~rows[v].dead /\ rows[v].trx = t /\ rows[v].roll = p
  BY DEF Held
<1>2. undo'[p] = undo[p] /\ p \in 1 .. Len(undo')
  BY <1>1 DEF KeepsMarks
<1>3. rows'[v] = rows[v] /\ v \in 1 .. Len(rows')
  BY <1>1 DEF KeepsMarks
<1> QED
  BY <1>1, <1>2, <1>3

(* A record that stays keeps what it was. *)
LEMMA ImageKept ==
    ASSUME Len(rows) \in Nat, Len(undo) \in Nat, Len(rows') \in Nat, Len(undo') \in Nat,
           KeepsMarks, NEW q \in 1 .. Len(rows), rows'[q] = rows[q], ImageInv(q)
    PROVE  /\ Lost(q)' <=> Lost(q)
           /\ ~Lost(q) => Image(q)' = Image(q)
<1>1. Lost(q)' <=> Lost(q)
  BY DEF Lost
<1>2. ASSUME ~Lost(q), rows[q].del PROVE Image(q)' = Image(q)
  <2>1. rows[q].roll \in 1 .. Len(undo)
    BY <1>2 DEF ImageInv
  <2>2. undo'[rows[q].roll] = undo[rows[q].roll]
    BY <2>1 DEF KeepsMarks
  <2> QED
    BY <1>2, <2>2 DEF Image
<1>3. ~rows[q].del => Image(q)' = Image(q)
  BY DEF Image
<1> QED
  BY <1>1, <1>2, <1>3

(* No COMMIT record reaches the disk in this step. *)
SameDisk == \A t : OnDisk(t)' <=> OnDisk(t)

(* A record that stays keeps its invariants. *)
LEMMA RecordKept ==
    ASSUME Len(rows) \in Nat, Len(undo) \in Nat, Len(rows') \in Nat, Len(undo') \in Nat,
           run \in Nat, run' \in Nat, run <= run',
           KeepsMarks, NEW q \in 1 .. Len(rows), rows[q] \in Headers, rows'[q] = rows[q], ImageInv(q), VersionInv(q),
           SameDisk, q \in db' <=> q \in db
    PROVE  ImageInv(q)' /\ VersionInv(q)'
<1>1. Lost(q)' <=> Lost(q)
  BY ImageKept
<1>2. ~Lost(q) => Image(q)' = Image(q)
  BY ImageKept
<1>3. \A p, t : Held(p, t) => Held(p, t)'
  BY HeldKept
<1>4. VersionInv(q)'
  BY <1>1, <1>2 DEF VersionInv, SameDisk
<1>5. (rows[q].del /\ ~Lost(q) =>
          /\ rows[q].roll \in 1 .. Len(undo) /\ ~rows[q].dead
          /\ Image(q).ver = q
          /\ Image(q).trx = rows[q].trx \/ OnDisk(Image(q).trx))'
  BY <1>1, <1>2 DEF ImageInv, SameDisk, KeepsMarks
<1>6. (~rows[q].dead /\ ~OnDisk(rows[q].trx) => Held(rows[q].roll, rows[q].trx))'
  BY <1>3 DEF ImageInv, SameDisk
<1>7. (~rows[q].dead /\ ~Lost(q) /\ ~OnDisk(Image(q).trx) => Held(Image(q).roll, Image(q).trx))'
  BY <1>1, <1>2, <1>3 DEF ImageInv, SameDisk
<1>8. (rows[q].dead /\ ~rows[q].del => ~OnDisk(rows[q].trx))'
  BY DEF ImageInv, SameDisk
<1>9. (run <= 2 => ~Lost(q))'
  BY <1>1 DEF ImageInv
<1>10. (rows[q].roll <= Len(undo))'
  <2>1. rows[q].roll <= Len(undo) /\ rows[q].roll \in Nat
    BY DEF ImageInv, Headers
  <2> QED
    BY <2>1 DEF KeepsMarks
<1> QED
  BY <1>4, <1>5, <1>6, <1>7, <1>8, <1>9, <1>10 DEF ImageInv

(* The whole inductive invariant. *)
RecoverInv == RecTypeOK /\ StageInv /\ LsnInv /\ IdInv /\ StatusInv /\ PageInv /\ WorkInv

(* The types around a step. *)
LEMMA StepTypes ==
    ASSUME RecTypeOK, StageInv, RecNext
    PROVE  /\ Len(rows) \in Nat /\ Len(undo) \in Nat /\ Len(rows') \in Nat /\ Len(undo') \in Nat
           /\ run \in Nat /\ run' \in Nat
           /\ \A r \in 1 .. Len(rows) : rows[r] \in Headers
           /\ Len(write_set) \in Nat
<1>1. RecTypeOK'
  BY RecTypeStep
<1>2. rows' \in Seq(Headers) /\ undo' \in Seq(Images) /\ run' \in Nat
  BY <1>1 DEF RecTypeOK
<1>3. rows \in Seq(Headers) /\ undo \in Seq(Images) /\ run \in Nat /\ write_set \in Seq(Writes)
  BY DEF RecTypeOK
<1>4. Len(rows') \in Nat /\ Len(undo') \in Nat
  BY <1>2
<1> QED
  BY <1>2, <1>3, <1>4

(* A step that leaves the page alone and commits nothing. *)
LEMMA QuietPage ==
    ASSUME RecTypeOK, StageInv, PageInv, RecNext,
           rows' = rows, undo' = undo, db' = db, run <= run', SameDisk
    PROVE  PageInv'
<1>1. KeepsMarks
  BY StepTypes DEF KeepsMarks
<1>2. ASSUME NEW q \in 1 .. Len(rows) PROVE ImageInv(q)' /\ VersionInv(q)'
  <2>1. ImageInv(q) /\ VersionInv(q) /\ rows'[q] = rows[q]
    BY DEF PageInv
  <2> QED
    BY <1>1, <2>1, StepTypes, RecordKept
<1> QED
  BY <1>2 DEF PageInv

(* Flush has the COMMIT record on disk: what the write set says becomes    *)
(* what the page says.                                                     *)
LEMMA CommitPage ==
    ASSUME RecTypeOK, StageInv, PageInv, StatusInv, SetInv, RecNext, stage = "committing",
           rows' = rows, undo' = undo, db' = CommittedWith, run <= run',
           \A t : OnDisk(t)' <=> OnDisk(t) \/ t = cur
    PROVE  PageInv'
<1>1. \A r : r \in db' <=> (r \in db \/ Done("INSERT", r)) /\ ~Done("DELETE", r)
  BY DEF CommittedWith, Written, Done, Did
<1>2. ~OnDisk(cur)
  BY DEF OnDisk
<1>3. ASSUME NEW q \in 1 .. Len(rows) PROVE ImageInv(q)' /\ VersionInv(q)'
  <2>1. ImageInv(q) /\ VersionInv(q) /\ rows'[q] = rows[q]
    BY DEF PageInv
  <2>2. /\ Done("INSERT", q) <=> ~rows[q].dead /\ ~Lost(q) /\ Image(q).trx = cur
        /\ Done("DELETE", q) <=> rows[q].del /\ rows[q].trx = cur
        /\ rows[q].dead => rows[q].trx # cur
    BY DEF SetInv, RecordDone, WriteDone
  <2>3. /\ Lost(q)' <=> Lost(q)
        /\ Image(q)' = Image(q)
    BY DEF Lost, Image
  <2>4. \A p, t : Held(p, t) => Held(p, t)'
    BY DEF Held
  <2>5. VersionInv(q)'
    BY <1>1, <1>2, <2>1, <2>2, <2>3 DEF VersionInv, ImageInv
  <2>6. (/\ rows[q].roll <= Len(undo)
         /\ rows[q].del /\ ~Lost(q) =>
              /\ rows[q].roll \in 1 .. Len(undo) /\ ~rows[q].dead
              /\ Image(q).ver = q
              /\ Image(q).trx = rows[q].trx \/ OnDisk(Image(q).trx))'
    BY <2>1, <2>3 DEF ImageInv
  <2>7. (~rows[q].dead /\ ~OnDisk(rows[q].trx) => Held(rows[q].roll, rows[q].trx))'
    BY <2>1, <2>4 DEF ImageInv
  <2>8. (~rows[q].dead /\ ~Lost(q) /\ ~OnDisk(Image(q).trx) => Held(Image(q).roll, Image(q).trx))'
    BY <2>1, <2>3, <2>4 DEF ImageInv
  <2>9. (rows[q].dead /\ ~rows[q].del => ~OnDisk(rows[q].trx))'
    BY <2>1, <2>2 DEF ImageInv
  <2>10. (run <= 2 => ~Lost(q))'
    BY <2>1, <2>3, StepTypes DEF ImageInv
  <2> QED
    BY <2>5, <2>6, <2>7, <2>8, <2>9, <2>10 DEF ImageInv
<1>4. \A r : Done("INSERT", r) => r \in 1 .. Len(rows)
  BY DEF SetInv, RecordDone, WriteDone, Done, Did
<1>5. db' \subseteq 1 .. Len(rows)
  BY <1>1, <1>4 DEF PageInv
<1> QED
  BY <1>3, <1>5 DEF PageInv

(* A new record, of a transaction whose COMMIT record is not on disk. *)
LEMMA PlacePage ==
    ASSUME RecTypeOK, StageInv, StatusInv, PageInv, SetInv, RecNext, Placing, SameDisk
    PROVE  PageInv'
<1> DEFINE n == Len(rows) + 1
<1>1. /\ stage = "running" /\ run' = run /\ db' = db /\ undo' = undo /\ Len(rows') = n
      /\ \A q \in 1 .. Len(rows) : rows'[q] = rows[q]
      /\ rows'[n] = [trx |-> cur, roll |-> pending, del |-> FALSE, dead |-> FALSE]
  BY PlacingEffect
<1>2. KeepsMarks
  BY <1>1, StepTypes DEF KeepsMarks
<1>3. ASSUME NEW q \in 1 .. Len(rows) PROVE ImageInv(q)' /\ VersionInv(q)'
  <2>1. ImageInv(q) /\ VersionInv(q) /\ rows'[q] = rows[q] /\ run <= run'
    BY <1>1, StepTypes DEF PageInv
  <2> QED
    BY <1>1, <1>2, <2>1, StepTypes, RecordKept
<1>4. ASSUME NEW k, k = n PROVE ImageInv(k)' /\ VersionInv(k)'
  <2>1. Held(pending, cur)
    BY DEF SetInv, RecordDone, WriteDone, Held
  <2>3. \A p, t : Held(p, t) => Held(p, t)'
    BY <1>2, StepTypes, HeldKept
  <2>4. ~OnDisk(cur)
    BY <1>1 DEF OnDisk, CommitLogged, StatusInv, Open, DataTypes
  <2>5. rows'[k].trx = cur /\ rows'[k].roll = pending /\ ~rows'[k].del /\ ~rows'[k].dead
    BY <1>1, <1>4
  <2>6. pending <= Len(undo) /\ k \notin db
    <3>1. pending # 0 => pending \in 1 .. Len(undo)
      BY <2>1 DEF Held
    <3>2. ~(k \in 1 .. Len(rows))
      BY <1>4, StepTypes
    <3>3. Len(undo) \in Nat
      BY StepTypes
    <3>4. pending <= Len(undo)
      BY <3>1, <3>3
    <3>5. k \notin db
      BY <3>2 DEF PageInv
    <3> QED
      BY <3>4, <3>5
  <2>7. ~Lost(k)' /\ Image(k)'.trx = cur /\ Image(k)'.roll = pending
    BY <2>5 DEF Lost, Image
  <2>8. VersionInv(k)'
    BY <1>1, <2>4, <2>5, <2>6, <2>7 DEF VersionInv, SameDisk
  <2>9. ImageInv(k)'
    BY <1>1, <2>1, <2>3, <2>5, <2>6, <2>7 DEF ImageInv
  <2> QED
    BY <2>8, <2>9
<1>5. \A q \in 1 .. Len(rows') : q \in 1 .. Len(rows) \/ q = n
  BY <1>1, StepTypes
<1>6. db' \subseteq 1 .. Len(rows')
  BY <1>1, StepTypes DEF PageInv
<1>7. \A q \in 1 .. Len(rows') : ImageInv(q)' /\ VersionInv(q)'
  BY <1>3, <1>4, <1>5
<1> QED
  BY <1>1, <1>6, <1>7 DEF PageInv

(* A marked record keeps its version, in its image. *)
LEMMA MarkPage ==
    ASSUME RecTypeOK, StageInv, IdInv, StatusInv, PageInv, SetInv, RecNext, SameDisk,
           NEW r \in 1 .. Len(rows), Marking(r)
    PROVE  /\ PageInv'
           /\ ~rows[r].dead /\ Lost(r)' = FALSE
           /\ Image(r)' = [trx |-> rows[r].trx, roll |-> rows[r].roll, ver |-> r]
           /\ \A p, u : p = Len(undo) + 1 /\ u = cur => Held(p, u)'
           /\ KeepsMarks
<1> DEFINE n == Len(undo) + 1
           t == rows[r].trx
<1>0. /\ stage = "running" /\ run' = run /\ db' = db /\ Len(rows') = Len(rows) /\ ~rows[r].del
      /\ IsVisible(MakeReadView(cur, next_txid, {cur}, txn_state), txn_state, rows[r].trx)
      /\ \A q \in 1 .. Len(rows) : q # r => rows'[q] = rows[q]
      /\ rows'[r] = [trx |-> cur, roll |-> n, del |-> TRUE, dead |-> rows[r].dead]
      /\ Len(undo') = n
      /\ \A p \in 1 .. Len(undo) : undo'[p] = undo[p]
      /\ undo'[n] = [trx |-> t, roll |-> rows[r].roll, ver |-> r]
  BY MarkingEffect
<1>1. Len(rows) \in Nat /\ Len(undo) \in Nat /\ Len(rows') \in Nat /\ Len(undo') \in Nat
      /\ rows[r] \in Headers /\ run \in Nat /\ run' \in Nat
  BY StepTypes
<1>2. KeepsMarks
  BY <1>0, <1>1 DEF KeepsMarks
<1>3. ImageInv(r) /\ VersionInv(r)
  BY DEF PageInv
<1>4. t \in TxIds /\ Logged(t) /\ rows[r].roll \in Nat /\ rows[r].roll <= Len(undo)
  BY <1>1, <1>3, ChangedIsLogged DEF Headers, IdInv, ImageInv
<1>5. t = cur \/ OnDisk(t)
  BY <1>0, <1>4, MarkerSees
<1>6. ~rows[r].dead
  BY <1>0, <1>3, <1>5 DEF ImageInv, SetInv, RecordDone, WriteDone
<1>7. ~OnDisk(cur)
  BY <1>0 DEF OnDisk, CommitLogged, StatusInv, Open, DataTypes
<1>8. \A p, u : Held(p, u) => Held(p, u)'
  BY <1>1, <1>2, HeldKept
<1>9. rows'[r].trx = cur /\ rows'[r].roll = n /\ rows'[r].del /\ ~rows'[r].dead /\ n # 0
  BY <1>0, <1>1, <1>6
<1>10. ~Lost(r)' /\ Image(r)' = undo'[n]
  BY <1>9 DEF Lost, Image
<1>11. Image(r)'.trx = t /\ Image(r)'.roll = rows[r].roll /\ Image(r)'.ver = r
  BY <1>0, <1>10
<1>12. ASSUME NEW p, NEW u, p = n, u = cur PROVE Held(p, u)'
  <2>1. p \in 1 .. Len(undo') /\ undo'[p].ver = r /\ r \in 1 .. Len(rows')
    BY <1>0, <1>1, <1>12
  <2> QED
    BY <1>9, <1>12, <2>1 DEF Held
<1>13. VersionInv(r)'
  <2>1. r \in db <=> OnDisk(t)
    BY <1>0, <1>3, <1>6 DEF VersionInv, Lost, Image
  <2> QED
    BY <1>0, <1>7, <1>9, <1>10, <1>11, <2>1 DEF VersionInv, SameDisk
<1>14. ImageInv(r)'
  <2>1. /\ rows'[r].roll <= Len(undo')
        /\ (rows[r].del /\ ~Lost(r) =>
              /\ rows[r].roll \in 1 .. Len(undo) /\ ~rows[r].dead
              /\ Image(r).ver = r
              /\ Image(r).trx = rows[r].trx \/ OnDisk(Image(r).trx))'
    BY <1>0, <1>1, <1>5, <1>9, <1>11 DEF SameDisk
  <2>2. (~rows[r].dead /\ ~OnDisk(rows[r].trx) => Held(rows[r].roll, rows[r].trx))'
    BY <1>9, <1>12
  <2>3. (~rows[r].dead /\ ~Lost(r) /\ ~OnDisk(Image(r).trx) => Held(Image(r).roll, Image(r).trx))'
    <3>1. ~OnDisk(t) => Held(rows[r].roll, t)
      BY <1>3, <1>6 DEF ImageInv
    <3>2. OnDisk(Image(r).trx)' <=> OnDisk(t)
      BY <1>11 DEF SameDisk
    <3> QED
      BY <1>8, <1>11, <3>1, <3>2
  <2>4. rows'[r].del /\ ~Lost(r)'
    BY <1>9, <1>10
  <2> QED
    BY <2>1, <2>2, <2>3, <2>4 DEF ImageInv
<1>15. ASSUME NEW q \in 1 .. Len(rows), q # r PROVE ImageInv(q)' /\ VersionInv(q)'
  <2>1. ImageInv(q) /\ VersionInv(q) /\ rows'[q] = rows[q] /\ run <= run' /\ rows[q] \in Headers
    BY <1>0, <1>1, <1>15, StepTypes DEF PageInv
  <2> QED
    BY <1>0, <1>1, <1>2, <2>1, RecordKept
<1>16. \A p \in 1 .. Len(undo') : undo'[p].roll < p
  <2>1. \A p \in 1 .. Len(undo') : p \in 1 .. Len(undo) \/ p = n
    BY <1>0, <1>1
  <2>2. \A p \in 1 .. Len(undo) : undo'[p].roll < p
    BY <1>0 DEF PageInv
  <2>3. undo'[n].roll < n
    BY <1>0, <1>1, <1>4
  <2> QED
    BY <2>1, <2>2, <2>3
<1>17. db' \subseteq 1 .. Len(rows')
  BY <1>0 DEF PageInv
<1>18. PageInv'
  <2>1. \A q \in 1 .. Len(rows') : ImageInv(q)' /\ VersionInv(q)'
    BY <1>0, <1>13, <1>14, <1>15
  <2> QED
    BY <1>16, <1>17, <2>1 DEF PageInv
<1> QED
  BY <1>0, <1>2, <1>6, <1>10, <1>12, <1>18

(* Redo marks without an image, which hides a record and nothing else. *)
LEMMA RedoPage ==
    ASSUME RecTypeOK, StageInv, PageInv, RecNext, SameDisk, Redoing, run <= 2 => rows' = rows
    PROVE  PageInv'
<1>0. /\ run' = run /\ db' = db /\ undo' = undo /\ Len(rows') = Len(rows)
      /\ \A q \in 1 .. Len(rows) :
            rows'[q] = rows[q] \/ (/\ ~rows[q].del /\ rows'[q].del /\ rows'[q].roll = 0
                                   /\ rows'[q].dead = rows[q].dead)
  BY RedoEffect
<1>1. Len(rows) \in Nat /\ Len(undo) \in Nat /\ Len(rows') \in Nat /\ Len(undo') \in Nat
      /\ run \in Nat /\ run' \in Nat
  BY StepTypes
<1>2. KeepsMarks
  BY <1>0, <1>1 DEF KeepsMarks
<1>3. ASSUME NEW q \in 1 .. Len(rows) PROVE ImageInv(q)' /\ VersionInv(q)'
  <2>1. ImageInv(q) /\ VersionInv(q) /\ run <= run' /\ rows[q] \in Headers
    BY <1>0, <1>1, StepTypes DEF PageInv
  <2>2. CASE rows'[q] = rows[q]
    BY <1>0, <1>1, <1>2, <2>1, <2>2, RecordKept
  <2>3. CASE rows'[q] # rows[q]
    <3>1. rows'[q].del /\ rows'[q].roll = 0 /\ rows'[q].dead = rows[q].dead
      BY <1>0, <2>3
    <3>2. ~(run' <= 2)
      BY <1>0, <2>3
    <3>3. Lost(q)'
      BY <3>1 DEF Lost
    <3>4. \A t : Held(0, t)'
      BY DEF Held
    <3>5. ImageInv(q)'
      BY <1>1, <3>1, <3>2, <3>3, <3>4 DEF ImageInv
    <3>6. VersionInv(q)'
      BY <1>0, <2>1, <3>1, <3>3 DEF VersionInv
    <3> QED
      BY <3>5, <3>6
  <2> QED
    BY <2>2, <2>3
<1> QED
  BY <1>0, <1>3 DEF PageInv

(* One record is restored, the others are as they were. *)
OthersStay(r) ==
    /\ Len(rows') = Len(rows) /\ undo' = undo
    /\ \A q \in 1 .. Len(rows) : q # r => rows'[q] = rows[q]

(* A pointer that another record holds stays held. *)
LEMMA HeldBesides ==
    ASSUME NEW r \in 1 .. Len(rows), OthersStay(r), NEW p, NEW t, Held(p, t), p # rows[r].roll
    PROVE  Held(p, t)'
<1> SUFFICES ASSUME p # 0
             PROVE  /\ p \in 1 .. Len(undo')
                    /\ undo'[p].ver \in 1 .. Len(rows')
                    /\ LET s == rows'[undo'[p].ver]
                       IN  s.del /\ ~s.dead /\ s.trx = t /\ s.roll = p
  BY DEF Held
<1> DEFINE v == undo[p].ver
<1>1. p \in 1 .. Len(undo) /\ v \in 1 .. Len(rows)
      /\ rows[v].del /\ ~rows[v].dead /\ rows[v].trx = t /\ rows[v].roll = p
  BY DEF Held
<1>2. rows'[v] = rows[v] /\ undo' = undo /\ Len(rows') = Len(rows)
  BY <1>1 DEF OthersStay
<1> QED
  BY <1>1, <1>2

(* The newest write of the write set, before it is taken back. *)
LEMMA NewestWrite ==
    ASSUME RecTypeOK, StageInv, StatusInv, PageInv, SetInv, RollbackWrite
    PROVE  LET w == write_set[Len(write_set)]
               r == w.rid
           IN  /\ r \in 1 .. Len(rows) /\ ~rows[r].dead /\ ~Lost(r) /\ ~OnDisk(cur) /\ stage = "rollback"
               /\ w.type \in {"INSERT", "DELETE"}
               /\ w.type = "INSERT" => ~rows[r].del /\ rows[r].trx = cur
               /\ w.type = "DELETE" =>
                    /\ rows[r].del /\ rows[r].trx = cur
                    /\ w.prev_trx = Image(r).trx /\ w.prev_roll = Image(r).roll
                    /\ \A q \in 1 .. Len(rows) : q # r /\ ~rows[q].dead /\ ~Lost(q) /\ Image(q).trx = cur =>
                          Image(q).roll # rows[r].roll
<1> DEFINE n == Len(write_set)
           w == write_set[n]
           r == w.rid
<1>1. write_set \in Seq(Writes) /\ n \in Nat /\ n \in 1 .. n /\ w \in Writes /\ stage = "rollback"
  BY DEF RollbackWrite, RecTypeOK
<1>2. w.type \in {"INSERT", "DELETE"}
  BY <1>1 DEF Writes
<1>3. r \in 1 .. Len(rows)
  BY <1>1 DEF SetInv, RecordDone, WriteDone
<1>4. /\ w.type = "DELETE" => /\ ~Lost(r)
                              /\ w.prev_trx = Image(r).trx /\ w.prev_roll = Image(r).roll
      /\ \A j \in 1 .. n - 1 : write_set[j].rid = r => write_set[j].type = "INSERT" /\ w.type = "DELETE"
  BY <1>1 DEF SetInv, RecordDone, WriteDone
<1>5. /\ Done("INSERT", r) <=> ~rows[r].dead /\ ~Lost(r) /\ Image(r).trx = cur
      /\ Done("DELETE", r) <=> rows[r].del /\ rows[r].trx = cur
  BY <1>3 DEF SetInv, RecordDone, WriteDone
<1>6. ImageInv(r)
  BY <1>3 DEF PageInv
<1>7. ~OnDisk(cur)
  BY <1>1 DEF OnDisk, CommitLogged, StatusInv, Open, DataTypes
<1>8. CASE w.type = "INSERT"
  <2>1. Done("INSERT", r)
    BY <1>1, <1>8 DEF Done, Did
  <2>2. ~Done("DELETE", r)
    <3> SUFFICES ASSUME NEW j \in 1 .. n, Did(j, "DELETE", r) PROVE FALSE
      BY DEF Done
    <3>1. CASE j = n
      BY <1>8, <3>1 DEF Did
    <3>2. CASE j # n
      BY <1>1, <1>4, <1>8, <3>2 DEF Did
    <3> QED
      BY <3>1, <3>2
  <2>3. ~rows[r].del
    BY <1>5, <1>6, <1>7, <2>1, <2>2 DEF ImageInv
  <2>4. rows[r].trx = cur
    BY <1>5, <2>1, <2>3 DEF Image
  <2> QED
    BY <1>1, <1>2, <1>3, <1>5, <1>7, <1>8, <2>1, <2>3, <2>4
<1>9. CASE w.type = "DELETE"
  <2>1. Done("DELETE", r)
    BY <1>1, <1>9 DEF Done, Did
  <2>2. rows[r].del /\ rows[r].trx = cur /\ ~Lost(r)
    BY <1>4, <1>5, <1>9, <2>1
  <2>3. ~rows[r].dead /\ rows[r].roll # 0 /\ undo[rows[r].roll].ver = r
    BY <1>6, <2>2 DEF ImageInv, Lost, Image
  <2>4. ASSUME NEW q \in 1 .. Len(rows), q # r, ~rows[q].dead, ~Lost(q), Image(q).trx = cur,
               Image(q).roll = rows[r].roll
        PROVE  FALSE
    <3>1. Done("INSERT", q)
      BY <2>4 DEF SetInv, RecordDone, WriteDone
    <3>2. PICK i \in 1 .. n : Did(i, "INSERT", q)
      BY <3>1 DEF Done
    <3>3. \E j \in 1 .. i - 1 : Did(j, "DELETE", undo[Image(q).roll].ver)
      <4>1. write_set[i].type = "INSERT" /\ write_set[i].rid = q
        BY <3>2 DEF Did
      <4>2. Image(q).roll # 0
        BY <2>3, <2>4
      <4> QED
        BY <4>1, <4>2 DEF SetInv, RecordDone, WriteDone
    <3>4. PICK j \in 1 .. i - 1 : Did(j, "DELETE", r)
      BY <2>3, <2>4, <3>3
    <3>5. j \in 1 .. n - 1
      BY <1>1, <3>2, <3>4
    <3> QED
      BY <1>4, <3>4, <3>5 DEF Did
  <2> QED
    BY <1>1, <1>2, <1>3, <1>4, <1>7, <1>9, <2>2, <2>3, <2>4
<1> QED
  BY <1>2, <1>8, <1>9

(* A write is taken back: the record dies, or is what its image says. *)
LEMMA RollbackPage ==
    ASSUME RecTypeOK, StageInv, StatusInv, PageInv, SetInv, RecNext, SameDisk, RollbackWrite
    PROVE  PageInv'
<1> DEFINE w == write_set[Len(write_set)]
           r == w.rid
<1>1. /\ r \in 1 .. Len(rows) /\ ~rows[r].dead /\ ~Lost(r) /\ ~OnDisk(cur) /\ stage = "rollback"
      /\ w.type \in {"INSERT", "DELETE"}
      /\ w.type = "INSERT" => ~rows[r].del /\ rows[r].trx = cur
      /\ w.type = "DELETE" =>
            /\ rows[r].del /\ rows[r].trx = cur
            /\ w.prev_trx = Image(r).trx /\ w.prev_roll = Image(r).roll
            /\ \A q \in 1 .. Len(rows) : q # r /\ ~rows[q].dead /\ ~Lost(q) /\ Image(q).trx = cur =>
                  Image(q).roll # rows[r].roll
  BY NewestWrite
<1>2. /\ cur' = cur /\ run' = run /\ db' = db /\ undo' = undo /\ Len(rows') = Len(rows)
      /\ \A q \in 1 .. Len(rows) : q # r => rows'[q] = rows[q]
      /\ rows'[r] =
            IF w.type = "INSERT"
            THEN [trx |-> rows[r].trx, roll |-> rows[r].roll, del |-> rows[r].del, dead |-> TRUE]
            ELSE [trx |-> w.prev_trx, roll |-> w.prev_roll, del |-> FALSE, dead |-> rows[r].dead]
  BY <1>1, RollbackEffect
<1>3. Len(rows) \in Nat /\ Len(undo) \in Nat /\ Len(rows') \in Nat /\ Len(undo') \in Nat
      /\ run \in Nat /\ run' \in Nat /\ (\A q \in 1 .. Len(rows) : rows[q] \in Headers)
  BY StepTypes
<1>4. \A q \in 1 .. Len(rows) : ImageInv(q) /\ VersionInv(q)
  BY DEF PageInv
<1> SUFFICES ASSUME NEW k, k = r PROVE PageInv'
  OBVIOUS
<1> SUFFICES \A q \in 1 .. Len(rows) : ImageInv(q)' /\ VersionInv(q)'
  BY <1>2 DEF PageInv
<1>5. CASE w.type = "INSERT"
  <2>1. KeepsMarks
    BY <1>1, <1>2, <1>3, <1>5 DEF KeepsMarks
  <2>2. ASSUME NEW q \in 1 .. Len(rows), q # k PROVE ImageInv(q)' /\ VersionInv(q)'
    <3>1. rows'[q] = rows[q] /\ run <= run' /\ ImageInv(q) /\ VersionInv(q)
      BY <1>2, <1>3, <1>4, <2>2
    <3> QED
      BY <1>2, <1>3, <2>1, <3>1, RecordKept
  <2>3. rows'[k].trx = cur /\ rows'[k].roll = rows[k].roll /\ ~rows'[k].del /\ rows'[k].dead
    BY <1>1, <1>2, <1>5
  <2>4. k \notin db /\ rows[k].roll <= Len(undo)
    <3>1. Image(k).trx = cur
      BY <1>1, <1>5 DEF Image
    <3> QED
      BY <1>1, <1>4, <3>1 DEF VersionInv, ImageInv
  <2>5. ~Lost(k)'
    BY <2>3 DEF Lost
  <2>6. ImageInv(k)'
    BY <1>1, <1>2, <2>3, <2>4, <2>5 DEF ImageInv, SameDisk
  <2>7. VersionInv(k)'
    BY <1>2, <2>3, <2>4 DEF VersionInv
  <2> QED
    BY <1>1, <2>2, <2>6, <2>7
<1>6. CASE w.type = "DELETE"
  <2>1. OthersStay(k) /\ k \in 1 .. Len(rows)
    BY <1>1, <1>2 DEF OthersStay
  <2>2. \A p, t : Held(p, t) /\ p # rows[k].roll => Held(p, t)'
    BY <2>1, HeldBesides
  <2>3. /\ rows[k].roll \in 1 .. Len(undo) /\ Image(k) = undo[rows[k].roll] /\ Image(k).ver = k
        /\ Image(k).trx = cur \/ OnDisk(Image(k).trx)
    BY <1>1, <1>4, <1>6 DEF ImageInv, Image
  <2>4. ASSUME NEW q \in 1 .. Len(rows), q # k PROVE ImageInv(q)' /\ VersionInv(q)'
    <3>1. rows'[q] = rows[q] /\ ImageInv(q) /\ VersionInv(q)
      BY <1>2, <1>4, <2>4
    <3>2. (Lost(q)' <=> Lost(q)) /\ Image(q)' = Image(q)
      BY <1>2, <3>1 DEF Lost, Image
    <3>3. VersionInv(q)'
      BY <1>2, <3>1, <3>2 DEF VersionInv, SameDisk
    <3>4. (~rows[q].dead /\ ~Lost(q) /\ ~OnDisk(Image(q).trx) => Held(Image(q).roll, Image(q).trx))'
      <4> SUFFICES ASSUME ~rows[q].dead, ~Lost(q), ~OnDisk(Image(q).trx)
                   PROVE  Held(Image(q).roll, Image(q).trx)'
        BY <3>1, <3>2 DEF SameDisk
      <4>1. Held(Image(q).roll, Image(q).trx)
        BY <3>1 DEF ImageInv
      <4>2. Image(q).roll # rows[k].roll
        <5> SUFFICES ASSUME Image(q).roll = rows[k].roll PROVE FALSE
          OBVIOUS
        <5>1. Image(q).trx = rows[k].trx
          BY <1>3, <2>3, <4>1 DEF Held
        <5> QED
          BY <1>1, <1>6, <2>4, <5>1
      <4> QED
        BY <2>2, <3>2, <4>1, <4>2
    <3>5. (~rows[q].dead /\ ~OnDisk(rows[q].trx) => Held(rows[q].roll, rows[q].trx))'
      <4> SUFFICES ASSUME ~rows[q].dead, ~OnDisk(rows[q].trx)
                   PROVE  Held(rows[q].roll, rows[q].trx)'
        BY <3>1 DEF SameDisk
      <4>1. Held(rows[q].roll, rows[q].trx)
        BY <3>1 DEF ImageInv
      <4>2. CASE ~rows[q].del
        <5>1. ~Lost(q) /\ Image(q).trx = rows[q].trx /\ Image(q).roll = rows[q].roll
          BY <4>2 DEF Lost, Image
        <5>2. Held(Image(q).roll, Image(q).trx)'
          BY <3>1, <3>2, <3>4, <5>1 DEF SameDisk
        <5> QED
          BY <3>1, <3>2, <5>1, <5>2
      <4>3. CASE rows[q].del
        <5>1. rows[q].roll # rows[k].roll
          BY <2>3, <2>4, <3>1, <4>3 DEF ImageInv, Image, Lost
        <5> QED
          BY <2>2, <3>1, <4>1, <5>1
      <4> QED
        BY <4>2, <4>3
    <3>6. (/\ rows[q].roll <= Len(undo)
           /\ rows[q].del /\ ~Lost(q) =>
                /\ rows[q].roll \in 1 .. Len(undo) /\ ~rows[q].dead
                /\ Image(q).ver = q
                /\ Image(q).trx = rows[q].trx \/ OnDisk(Image(q).trx)
           /\ rows[q].dead /\ ~rows[q].del => ~OnDisk(rows[q].trx)
           /\ run <= 2 => ~Lost(q))'
      BY <1>2, <3>1, <3>2 DEF ImageInv, SameDisk
    <3> QED
      BY <3>3, <3>4, <3>5, <3>6 DEF ImageInv
  <2>5. /\ rows'[k].trx = Image(k).trx /\ rows'[k].roll = Image(k).roll
        /\ ~rows'[k].del /\ ~rows'[k].dead
    BY <1>1, <1>2, <1>6
  <2>6. ~Lost(k)' /\ Image(k)'.trx = Image(k).trx /\ Image(k)'.roll = Image(k).roll
    BY <2>5 DEF Lost, Image
  <2>7. Image(k).roll \in Nat /\ Image(k).roll < rows[k].roll
    BY <2>3, PageTypes DEF RollsBack
  <2>8. ~OnDisk(Image(k).trx) => \A p, t : p = Image(k).roll /\ t = Image(k).trx => Held(p, t)'
    <3>1. ~OnDisk(Image(k).trx) => Held(Image(k).roll, Image(k).trx)
      BY <1>1, <1>4 DEF ImageInv
    <3>2. Image(k).roll # rows[k].roll
      BY <1>3, <2>3, <2>7
    <3> SUFFICES ASSUME NEW p, NEW t, ~OnDisk(Image(k).trx), p = Image(k).roll, t = Image(k).trx
                 PROVE  Held(p, t)'
      OBVIOUS
    <3>3. Held(p, t) /\ p # rows[k].roll
      BY <3>1, <3>2
    <3> QED
      BY ONLY <2>2, <3>3
  <2>9. ImageInv(k)'
    <3>1. /\ rows'[k].roll = Image(k).roll /\ Image(k).roll \in Nat /\ Image(k).roll < rows[k].roll
          /\ rows[k].roll \in 1 .. Len(undo) /\ Len(undo) \in Nat /\ undo' = undo
      BY <1>2, <1>3, <2>3, <2>5, <2>7
    <3>2. rows'[k].roll <= Len(undo')
      BY ONLY <3>1
    <3> QED
      BY <2>5, <2>6, <2>8, <3>2 DEF ImageInv, SameDisk
  <2>10. VersionInv(k)'
    <3>1. k \in db <=> OnDisk(Image(k).trx)
      BY <1>1, <1>4, <1>6 DEF VersionInv
    <3> QED
      BY <1>2, <2>5, <2>6, <3>1 DEF VersionInv, SameDisk
  <2> QED
    BY <1>1, <2>4, <2>9, <2>10
<1> QED
  BY <1>1, <1>5, <1>6

(* Every step keeps the page, its images and the committed versions in     *)
(* agreement.                                                              *)
LEMMA PageStep ==
    ASSUME RecoverInv, RecNext, ~LoseTxn
    PROVE  PageInv'
<1>1. RecTypeOK /\ StageInv /\ LsnInv /\ IdInv /\ StatusInv /\ PageInv /\ WorkInv
  BY DEF RecoverInv
<1>2. \A t : OnDisk(t)' <=> OnDisk(t) \/ (t = cur /\ Commits)
  BY <1>1, OnDiskStep
<1>3. ~Commits => SameDisk
  BY <1>2 DEF SameDisk
<1>4. run \in Nat /\ run' \in Nat
  BY <1>1, StepTypes
<1>5. stage \in {"running", "committing", "rollback"} => SetInv
  BY <1>1 DEF WorkInv
<1>6. CASE Commits
  <2>0. stage = "committing"
    BY <1>6 DEF Commits
  <2>1. CommitFlush \/ Dying
    BY <1>1, <2>0, CommitMoves
  <2>2. rows' = rows /\ undo' = undo /\ db' = CommittedWith /\ run <= run'
    BY <1>1, <1>4, <1>6, <2>1, QuietEffect DEF Flushing
  <2>3. \A t : OnDisk(t)' <=> OnDisk(t) \/ t = cur
    BY <1>2, <1>6
  <2> QED
    BY <1>1, <1>5, <2>0, <2>2, <2>3, CommitPage
<1>7. CASE ~Commits
  <2>1. SameDisk
    BY <1>3, <1>7
  <2>2. CASE Placing
    <3>1. SetInv
      BY <1>1, <1>5, <2>2, PlacingEffect
    <3> QED
      BY <1>1, <2>1, <2>2, <3>1, PlacePage
  <2>3. CASE \E r \in 1 .. Len(rows) : Marking(r)
    <3>1. PICK r \in 1 .. Len(rows) : Marking(r)
      BY <2>3
    <3>2. SetInv
      BY <1>1, <1>5, <3>1, MarkingEffect
    <3> QED
      BY <1>1, <2>1, <3>1, <3>2, MarkPage
  <2>4. CASE RollbackWrite
    <3>1. SetInv
      BY <1>5, <2>4 DEF RollbackWrite
    <3> QED
      BY <1>1, <2>1, <2>4, <3>1, RollbackPage
  <2>5. CASE Redoing
    <3>1. stage = "redo"
      BY <1>1, <2>5, RedoEffect
    <3>2. run <= 2 => Covered
      BY <1>1, <3>1 DEF RecTypeOK, LsnInv, Covered
    <3>3. run <= 2 => rows' = rows
      BY <1>1, <2>5, <3>2, RedoSkips
    <3> QED
      BY <1>1, <2>1, <2>5, <3>3, RedoPage
  <2>6. CASE Begin \/ Ending \/ Flushing \/ Abort \/ Dying \/ Analysis
    <3>1. rows' = rows /\ undo' = undo
      BY <1>1, <2>6, QuietEffect
    <3>2. db' = db
      <4>1. ~CommitFlush
        BY <1>7 DEF CommitFlush, FlushLog, Commits
      <4> QED
        BY <1>1, <1>7, <2>6, <4>1, QuietEffect DEF Flushing
    <3>3. run <= run'
      BY <1>1, <1>4, <2>6, QuietEffect
    <3> QED
      BY <1>1, <2>1, <3>1, <3>2, <3>3, QuietPage
  <2> QED
    BY RecCases, <2>2, <2>3, <2>4, <2>5, <2>6
<1> QED
  BY <1>6, <1>7

-----------------------------------------------------------------------------
(* The write set. *)

(* A transaction that begins finds no record of its own: its id is new. *)
LEMMA BeginSet ==
    ASSUME RecTypeOK, StageInv, IdInv, PageInv, WorkInv, Begin
    PROVE  SetInv'
<1>1. /\ stage = "idle" /\ stage' = "running" /\ cur' = next_txid /\ pending' = pending /\ write_set' = <<>>
      /\ rows' = rows /\ undo' = undo
  BY QuietEffect
<1>2. pending = 0
  BY <1>1 DEF WorkInv
<1>3. next_txid \in Nat /\ ~(next_txid < next_txid) /\ \A t : Changed(t) => t < next_txid
  BY <1>1 DEF RecTypeOK, IdInv, Changed
<1>4. \A type, r : ~Done(type, r)'
  BY <1>1 DEF Done
<1>5. ASSUME NEW r \in 1 .. Len(rows)
      PROVE  rows[r].trx # next_txid /\ (~Lost(r) => Image(r).trx # next_txid)
  <2>1. Changed(rows[r].trx)
    BY DEF IdInv
  <2>2. rows[r].del /\ ~Lost(r) => rows[r].roll \in 1 .. Len(undo)
    BY DEF PageInv, ImageInv
  <2>3. rows[r].del /\ ~Lost(r) => Changed(Image(r).trx)
    BY <2>2 DEF IdInv, Image
  <2>4. ~rows[r].del => Image(r).trx = rows[r].trx
    BY DEF Image
  <2> QED
    BY <1>3, <2>1, <2>3, <2>4
<1>6. ASSUME NEW r \in 1 .. Len(rows) PROVE RecordDone(r)'
  <2>1. (Lost(r)' <=> Lost(r)) /\ Image(r)' = Image(r)
    BY <1>1 DEF Lost, Image
  <2> QED
    BY <1>1, <1>4, <1>5, <2>1 DEF RecordDone
<1>7. Len(write_set') = 0 /\ pending' = 0
  BY <1>1, <1>2
<1>8. \A i \in 1 .. Len(write_set') : WriteDone(i)'
  BY <1>7
<1> QED
  BY <1>1, <1>5, <1>6, <1>7, <1>8 DEF SetInv

(* A write stays what it was when its record's version does. *)
LEMMA WriteKept ==
    ASSUME NEW i, WriteDone(i), write_set'[i] = write_set[i],
           \A j \in 1 .. i - 1 : write_set'[j] = write_set[j],
           NEW v, v = write_set[i].rid, v \in 1 .. Len(rows'),
           Image(v)'.roll = Image(v).roll,
           write_set[i].type = "DELETE" => ~Lost(v)' /\ Image(v)'.trx = Image(v).trx,
           Image(v).roll # 0 => undo'[Image(v).roll] = undo[Image(v).roll]
    PROVE  WriteDone(i)'
<1>1. /\ write_set[i].type = "DELETE" => write_set[i].prev_trx = Image(v).trx
                                         /\ write_set[i].prev_roll = Image(v).roll
      /\ write_set[i].type = "INSERT" /\ Image(v).roll # 0 =>
            \E j \in 1 .. i - 1 : Did(j, "DELETE", undo[Image(v).roll].ver)
      /\ \A j \in 1 .. i - 1 : write_set[j].rid = v =>
            write_set[j].type = "INSERT" /\ write_set[i].type = "DELETE"
  BY DEF WriteDone
<1>2. \A j \in 1 .. i - 1 : \A q : Did(j, "DELETE", q)' <=> Did(j, "DELETE", q)
  BY DEF Did
<1>3. \A u : u = v => Lost(u)' = Lost(v)' /\ Image(u)' = Image(v)'
  OBVIOUS
<1>4. WriteDone(i)' <=>
        /\ v \in 1 .. Len(rows')
        /\ write_set'[i].type = "DELETE" => /\ ~Lost(v)'
                                            /\ write_set'[i].prev_trx = Image(v)'.trx
                                            /\ write_set'[i].prev_roll = Image(v)'.roll
        /\ write_set'[i].type = "INSERT" /\ Image(v)'.roll # 0 =>
              \E j \in 1 .. i - 1 : write_set'[j].type = "DELETE" /\ write_set'[j].rid = undo'[Image(v)'.roll].ver
        /\ \A j \in 1 .. i - 1 : write_set'[j].rid = v =>
              write_set'[j].type = "INSERT" /\ write_set'[i].type = "DELETE"
  <2>1. write_set'[i].rid = v
    OBVIOUS
  <2> QED
    BY ONLY <2>1 DEF WriteDone, Did, Lost, Image
<1> QED
  BY <1>1, <1>2, <1>4 DEF Did

(* The write of a new record. *)
LEMMA PlaceSet ==
    ASSUME RecTypeOK, StageInv, PageInv, SetInv, RecNext, Placing
    PROVE  SetInv'
<1> DEFINE n == Len(rows) + 1
           m == Len(write_set) + 1
<1>1. /\ stage = "running" /\ stage' = stage /\ cur' = cur /\ undo' = undo /\ pending' = 0
      /\ Len(rows') = n
      /\ \A q \in 1 .. Len(rows) : rows'[q] = rows[q]
      /\ rows'[n] = [trx |-> cur, roll |-> pending, del |-> FALSE, dead |-> FALSE]
      /\ Len(write_set') = m
      /\ \A i \in 1 .. Len(write_set) : write_set'[i] = write_set[i]
      /\ write_set'[m].type = "INSERT" /\ write_set'[m].rid = n
  BY PlacingEffect
<1>2. /\ \A r \in 1 .. Len(rows) : RecordDone(r)
      /\ \A i \in 1 .. Len(write_set) : WriteDone(i)
      /\ \A r \in 1 .. Len(rows) : rows[r].dead => rows[r].trx # cur
      /\ pending # 0 => Done("DELETE", undo[pending].ver)
  BY <1>1 DEF SetInv
<1>3. Len(rows) \in Nat /\ Len(undo) \in Nat /\ Len(rows') \in Nat /\ Len(undo') \in Nat
      /\ Len(write_set) \in Nat
  BY StepTypes
<1>4. KeepsMarks
  BY <1>1, <1>3 DEF KeepsMarks
<1>5. \A i \in 1 .. Len(write_set) : write_set[i].rid \in 1 .. Len(rows)
  BY <1>2 DEF WriteDone
<1>6. \A q \in 1 .. Len(rows) : (Lost(q)' <=> Lost(q)) /\ Image(q)' = Image(q)
  BY <1>1 DEF Lost, Image
<1>7. \A i \in 1 .. Len(write_set) : \A type, q : Did(i, type, q)' <=> Did(i, type, q)
  BY <1>1 DEF Did
<1>8. 1 .. Len(write_set') = (1 .. Len(write_set)) \union {m} /\ 1 .. Len(rows') = (1 .. Len(rows)) \union {n}
      /\ n \notin 1 .. Len(rows) /\ m - 1 = Len(write_set)
  BY <1>1, <1>3
<1>9. ASSUME NEW k, k = m PROVE \A type, q : Did(k, type, q)' <=> type = "INSERT" /\ q = n
  BY <1>1, <1>9 DEF Did
<1>10. \A type, q : Done(type, q)' <=> Done(type, q) \/ (type = "INSERT" /\ q = n)
  <2>1. \A type, q : Done(type, q)' <=> \E i \in 1 .. Len(write_set') : Did(i, type, q)'
    BY DEF Done
  <2>2. ASSUME NEW type, NEW q, Done(type, q) PROVE Done(type, q)'
    BY <1>7, <1>8, <2>1, <2>2 DEF Done
  <2>3. ASSUME NEW type, NEW q, Done(type, q)' PROVE Done(type, q) \/ (type = "INSERT" /\ q = n)
    <3>1. PICK i \in 1 .. Len(write_set') : Did(i, type, q)'
      BY <2>1, <2>3
    <3>2. CASE i \in 1 .. Len(write_set)
      BY <1>7, <3>1, <3>2 DEF Done
    <3>3. CASE i = m
      BY <1>9, <3>1, <3>3
    <3> QED
      BY <1>8, <3>2, <3>3
  <2>4. ASSUME NEW k, k = m PROVE \A q : q = n => Done("INSERT", q)'
    <3>1. k \in 1 .. Len(write_set')
      BY <1>8, <2>4
    <3> QED
      BY <1>9, <2>1, <2>4, <3>1
  <2> QED
    BY <2>2, <2>3, <2>4
<1>11. ASSUME NEW q \in 1 .. Len(rows) PROVE RecordDone(q)'
  <2>1. q # n /\ rows'[q] = rows[q] /\ RecordDone(q)
    BY <1>1, <1>2, <1>8
  <2> QED
    BY <1>1, <1>6, <1>10, <2>1 DEF RecordDone
<1>12. ASSUME NEW k, k = n PROVE RecordDone(k)'
  <2>1. \A type : ~Done(type, k)
    BY <1>5, <1>8, <1>12 DEF Done, Did
  <2>2. rows'[k].trx = cur /\ ~rows'[k].del /\ ~rows'[k].dead
    BY <1>1, <1>12
  <2>3. ~Lost(k)' /\ Image(k)'.trx = cur
    BY <2>2 DEF Lost, Image
  <2> QED
    BY <1>1, <1>10, <1>12, <2>1, <2>2, <2>3 DEF RecordDone
<1>13. ASSUME NEW i \in 1 .. Len(write_set) PROVE WriteDone(i)'
  <2> DEFINE w == write_set[i]
  <2>1. WriteDone(i) /\ write_set'[i] = w /\ w.rid \in 1 .. Len(rows) /\ w.rid \in 1 .. Len(rows')
    BY <1>1, <1>2, <1>5, <1>8
  <2>2. \A j \in 1 .. i - 1 : j \in 1 .. Len(write_set) /\ write_set'[j] = write_set[j]
    BY <1>1, <1>3
  <2> QED
    <3>1. PICK v \in 1 .. Len(rows) : v = w.rid
      BY <2>1
    <3>2. v \in 1 .. Len(rows') /\ Image(v)' = Image(v) /\ (Lost(v)' <=> Lost(v))
      BY <1>6, <2>1, <3>1
    <3>3. w.type = "DELETE" => ~Lost(v)
      BY <2>1, <3>1 DEF WriteDone
    <3> QED
      BY ONLY <1>1, <2>1, <2>2, <3>1, <3>2, <3>3, WriteKept
<1>14. ASSUME NEW k, k = m PROVE WriteDone(k)'
  <2>1. write_set'[k].type = "INSERT" /\ write_set'[k].rid = n /\ n \in 1 .. Len(rows')
    BY <1>1, <1>8, <1>14
  <2>2. \A j \in 1 .. k - 1 : j \in 1 .. Len(write_set) /\ write_set'[j].rid # n
    BY <1>1, <1>3, <1>5, <1>8, <1>14
  <2>3. ASSUME pending # 0 PROVE \E j \in 1 .. k - 1 : Did(j, "DELETE", undo[pending].ver)
    BY <1>2, <1>8, <1>14, <2>3 DEF Done
  <2>4. ASSUME pending # 0 PROVE \E j \in 1 .. k - 1 :
            write_set'[j].type = "DELETE" /\ write_set'[j].rid = undo'[pending].ver
    BY <1>1, <2>2, <2>3, <2>4 DEF Did
  <2>5. ASSUME NEW v, v = n PROVE Image(v)'.roll = pending
    BY <1>1, <2>5 DEF Image
  <2>6. Image(write_set[k].rid)'.roll = pending
    <3>1. rows'[write_set'[k].rid] = [trx |-> cur, roll |-> pending, del |-> FALSE, dead |-> FALSE]
      BY <1>1, <2>1
    <3> QED
      BY <3>1 DEF Image
  <2> QED
    BY <2>1, <2>2, <2>4, <2>6 DEF WriteDone, Did
<1>15. \A q \in 1 .. Len(rows') : rows'[q].dead => rows'[q].trx # cur'
  BY <1>1, <1>2, <1>8
<1>16. \A q \in 1 .. Len(rows') : RecordDone(q)'
  BY <1>8, <1>11, <1>12
<1>17. \A i \in 1 .. Len(write_set') : WriteDone(i)'
  BY <1>8, <1>13, <1>14
<1> QED
  BY <1>1, <1>15, <1>16, <1>17 DEF SetInv

(* The write of a mark. *)
LEMMA MarkSet ==
    ASSUME RecTypeOK, StageInv, IdInv, StatusInv, PageInv, SetInv, RecNext, SameDisk,
           NEW r \in 1 .. Len(rows), Marking(r)
    PROVE  SetInv'
<1> DEFINE n == Len(undo) + 1
           m == Len(write_set) + 1
<1>1. /\ stage = "running" /\ stage' = stage /\ cur' = cur /\ pending' \in {0, n}
      /\ ~rows[r].del
      /\ Len(rows') = Len(rows)
      /\ \A q \in 1 .. Len(rows) : q # r => rows'[q] = rows[q]
      /\ rows'[r] = [trx |-> cur, roll |-> n, del |-> TRUE, dead |-> rows[r].dead]
      /\ Len(undo') = n
      /\ \A p \in 1 .. Len(undo) : undo'[p] = undo[p]
      /\ undo'[n] = [trx |-> rows[r].trx, roll |-> rows[r].roll, ver |-> r]
      /\ Len(write_set') = m
      /\ \A i \in 1 .. Len(write_set) : write_set'[i] = write_set[i]
      /\ write_set'[m] = [rid |-> r, type |-> "DELETE",
                          prev_trx |-> rows[r].trx, prev_roll |-> rows[r].roll]
  BY MarkingEffect
<1>2. /\ \A q \in 1 .. Len(rows) : RecordDone(q)
      /\ \A i \in 1 .. Len(write_set) : WriteDone(i)
      /\ \A q \in 1 .. Len(rows) : rows[q].dead => rows[q].trx # cur
  BY <1>1 DEF SetInv
<1>3. Len(rows) \in Nat /\ Len(undo) \in Nat /\ Len(rows') \in Nat /\ Len(undo') \in Nat
      /\ Len(write_set) \in Nat
  BY StepTypes
<1>4. /\ ~rows[r].dead /\ ~Lost(r)'
      /\ Image(r)' = [trx |-> rows[r].trx, roll |-> rows[r].roll, ver |-> r]
      /\ \A p, u : p = n /\ u = cur => Held(p, u)'
      /\ KeepsMarks
  BY MarkPage
<1>5. ~Lost(r) /\ Image(r) = [trx |-> rows[r].trx, roll |-> rows[r].roll, ver |-> r]
  BY <1>1 DEF Lost, Image
<1>6. \A q \in 1 .. Len(rows) : q # r => (Lost(q)' <=> Lost(q)) /\ (~Lost(q) => Image(q)' = Image(q))
  <2> SUFFICES ASSUME NEW q \in 1 .. Len(rows), q # r
               PROVE  (Lost(q)' <=> Lost(q)) /\ (~Lost(q) => Image(q)' = Image(q))
    OBVIOUS
  <2>1. rows'[q] = rows[q] /\ ImageInv(q)
    BY <1>1 DEF PageInv
  <2> QED
    BY <1>3, <1>4, <2>1, ImageKept
<1>7. \A i \in 1 .. Len(write_set) : \A type, q : Did(i, type, q)' <=> Did(i, type, q)
  BY <1>1 DEF Did
<1>8. 1 .. Len(write_set') = (1 .. Len(write_set)) \union {m} /\ m - 1 = Len(write_set)
  BY <1>1, <1>3
<1>9. ASSUME NEW k, k = m PROVE \A type, q : Did(k, type, q)' <=> type = "DELETE" /\ q = r
  BY <1>1, <1>9 DEF Did
<1>10. \A type, q : Done(type, q)' <=> Done(type, q) \/ (type = "DELETE" /\ q = r)
  <2>1. \A type, q : Done(type, q)' <=> \E i \in 1 .. Len(write_set') : Did(i, type, q)'
    BY DEF Done
  <2>2. ASSUME NEW type, NEW q, Done(type, q) PROVE Done(type, q)'
    BY <1>7, <1>8, <2>1, <2>2 DEF Done
  <2>3. ASSUME NEW type, NEW q, Done(type, q)' PROVE Done(type, q) \/ (type = "DELETE" /\ q = r)
    <3>1. PICK i \in 1 .. Len(write_set') : Did(i, type, q)'
      BY <2>1, <2>3
    <3>2. CASE i \in 1 .. Len(write_set)
      BY <1>7, <3>1, <3>2 DEF Done
    <3>3. CASE i = m
      BY <1>9, <3>1, <3>3
    <3> QED
      BY <1>8, <3>2, <3>3
  <2>4. ASSUME NEW k, k = m PROVE Done("DELETE", r)'
    <3>1. k \in 1 .. Len(write_set')
      BY <1>8, <2>4
    <3> QED
      BY <1>9, <2>1, <2>4, <3>1
  <2> QED
    BY <2>2, <2>3, <2>4
<1>11. ASSUME NEW q \in 1 .. Len(rows) PROVE RecordDone(q)'
  <2>1. CASE q # r
    <3>1. rows'[q] = rows[q] /\ RecordDone(q)
      BY <1>1, <1>2, <2>1
    <3> QED
      BY <1>1, <1>6, <1>10, <2>1, <3>1 DEF RecordDone
  <2>2. CASE q = r
    <3>1. RecordDone(r)
      BY <1>2
    <3>2. rows'[r].del /\ rows'[r].trx = cur /\ ~rows'[r].dead
      BY <1>1, <1>4
    <3>3. Image(r)'.trx = rows[r].trx /\ Image(r).trx = rows[r].trx
      BY <1>4, <1>5
    <3>4. RecordDone(r)'
      BY <1>1, <1>4, <1>5, <1>10, <3>1, <3>2, <3>3 DEF RecordDone
    <3> QED
      BY <2>2, <3>4
  <2> QED
    BY <2>1, <2>2
<1>12. ~Done("DELETE", r)
  BY <1>1, <1>2 DEF RecordDone
<1>13. ASSUME NEW i \in 1 .. Len(write_set) PROVE WriteDone(i)'
  <2>1. WriteDone(i) /\ write_set'[i] = write_set[i]
    BY <1>1, <1>2
  <2>2. \A j \in 1 .. i - 1 : write_set'[j] = write_set[j]
    BY <1>1, <1>3
  <2>3. PICK v \in 1 .. Len(rows) : v = write_set[i].rid
    BY <2>1 DEF WriteDone
  <2>4. write_set[i].type = "DELETE" => ~Lost(v) /\ v # r
    BY <1>12, <2>1, <2>3 DEF WriteDone, Done, Did
  <2>5. ~Lost(v)
    <3>1. write_set[i].type \in {"INSERT", "DELETE"}
      <4>1. write_set[i] \in Writes
        BY DEF RecTypeOK
      <4> QED
        BY <4>1 DEF Writes
    <3>2. write_set[i].type = "INSERT" => Done("INSERT", v)
      BY <2>3 DEF Done, Did
    <3>3. RecordDone(v)
      BY <1>2
    <3> QED
      BY <2>4, <3>1, <3>2, <3>3 DEF RecordDone
  <2>6. ~Lost(v)' /\ Image(v)'.trx = Image(v).trx /\ Image(v)'.roll = Image(v).roll
    <3>1. CASE v = r
      BY <1>4, <1>5, <3>1
    <3>2. CASE v # r
      BY <1>6, <2>5, <3>2
    <3> QED
      BY <3>1, <3>2
  <2>7. Image(v).roll # 0 => undo'[Image(v).roll] = undo[Image(v).roll]
    <3>1. ImageInv(v) /\ rows[v].roll \in Nat
      BY PageTypes DEF PageInv
    <3>2. Image(v).roll \in Nat /\ Image(v).roll <= Len(undo)
      <4>1. CASE rows[v].del
        <5>1. rows[v].roll \in 1 .. Len(undo) /\ Image(v) = undo[rows[v].roll]
          BY <2>5, <3>1, <4>1 DEF ImageInv, Image
        <5>2. Image(v).roll \in Nat /\ Image(v).roll < rows[v].roll
          BY <5>1, PageTypes DEF RollsBack
        <5> QED
          BY <1>3, <5>1, <5>2
      <4>2. CASE ~rows[v].del
        BY <3>1, <4>2 DEF ImageInv, Image
      <4> QED
        BY <4>1, <4>2
    <3> DEFINE p == Image(v).roll
    <3>3. p # 0 => p \in 1 .. Len(undo)
      BY <1>3, <3>2
    <3> HIDE DEF p
    <3>4. p # 0 => undo'[p] = undo[p]
      BY <1>1, <3>3
    <3> QED
      BY <3>4 DEF p
  <2>8. v \in 1 .. Len(rows')
    BY <1>1
  <2> QED
    BY <2>1, <2>2, <2>3, <2>6, <2>7, <2>8, WriteKept
<1>14. ASSUME NEW k, k = m PROVE WriteDone(k)'
  <2>1. /\ write_set'[k].type = "DELETE" /\ write_set'[k].rid = r /\ r \in 1 .. Len(rows')
        /\ write_set'[k].prev_trx = rows[r].trx /\ write_set'[k].prev_roll = rows[r].roll
    BY <1>1, <1>14
  <2>2. \A j \in 1 .. k - 1 : write_set'[j].rid = r => write_set'[j].type = "INSERT"
    <3> SUFFICES ASSUME NEW j \in 1 .. Len(write_set), write_set[j].rid = r
                 PROVE  write_set[j].type = "INSERT"
      BY <1>1, <1>8, <1>14
    <3>1. write_set[j].type # "DELETE"
      BY <1>12 DEF Done, Did
    <3>2. write_set[j] \in Writes
      BY DEF RecTypeOK
    <3> QED
      BY <3>1, <3>2 DEF Writes
  <2>3. ~Lost(r)' /\ Image(r)'.trx = rows[r].trx /\ Image(r)'.roll = rows[r].roll
    BY <1>4
  <2>4. WriteDone(k)' <=>
          /\ r \in 1 .. Len(rows')
          /\ ~Lost(r)' /\ write_set'[k].prev_trx = Image(r)'.trx /\ write_set'[k].prev_roll = Image(r)'.roll
          /\ \A j \in 1 .. k - 1 : write_set'[j].rid = r => write_set'[j].type = "INSERT"
    <3>1. write_set'[k].rid = r /\ write_set'[k].type = "DELETE"
      BY <2>1
    <3> QED
      BY ONLY <3>1 DEF WriteDone, Lost, Image
  <2> QED
    BY <2>1, <2>2, <2>3, <2>4
<1>15. \A q \in 1 .. Len(rows') : rows'[q].dead => rows'[q].trx # cur'
  BY <1>1, <1>2, <1>4
<1>16. pending' # 0 => Held(pending, cur)' /\ Done("DELETE", undo[pending].ver)'
  <2> SUFFICES ASSUME pending' # 0 PROVE Held(pending, cur)' /\ Done("DELETE", undo[pending].ver)'
    OBVIOUS
  <2>1. pending' = n /\ cur' = cur
    BY <1>1
  <2>2. ASSUME NEW p, NEW u, p = n, u = cur PROVE Held(p, u)'
    BY <1>4, <2>2
  <2>3. Held(pending, cur)'
    <3>1. Held(pending, cur)' <=> \A p, u : p = pending' /\ u = cur' => Held(p, u)'
      BY DEF Held
    <3> QED
      BY <1>4, <2>1, <3>1
  <2>4. undo'[pending'].ver = r
    BY <1>1, <2>1
  <2>5. Done("DELETE", r)'
    BY <1>10
  <2>6. Done("DELETE", undo[pending].ver)' <=> Done("DELETE", r)'
    BY <2>4 DEF Done, Did
  <2> QED
    BY <2>3, <2>5, <2>6
<1>17. \A i \in 1 .. Len(write_set') : WriteDone(i)'
  BY <1>8, <1>13, <1>14
<1>18. \A q \in 1 .. Len(rows') : RecordDone(q)'
  BY <1>1, <1>11
<1> QED
  BY <1>15, <1>16, <1>17, <1>18 DEF SetInv

(* The newest write leaves the write set as its effect leaves the page. *)
LEMMA RollbackSet ==
    ASSUME RecTypeOK, StageInv, StatusInv, PageInv, WorkInv, RecNext, RollbackWrite
    PROVE  SetInv'
<1> DEFINE n == Len(write_set)
           w == write_set[n]
           r == w.rid
<1>0. stage = "rollback" /\ SetInv /\ pending = 0
  BY DEF RollbackWrite, WorkInv
<1>1. /\ r \in 1 .. Len(rows) /\ ~rows[r].dead /\ ~Lost(r)
      /\ w.type \in {"INSERT", "DELETE"}
      /\ w.type = "INSERT" => ~rows[r].del /\ rows[r].trx = cur
      /\ w.type = "DELETE" => w.prev_trx = Image(r).trx /\ w.prev_roll = Image(r).roll
  BY <1>0, NewestWrite
<1>2. /\ stage' = stage /\ cur' = cur /\ pending' = pending /\ undo' = undo
      /\ n \in 1 .. n /\ Len(write_set') = n - 1
      /\ \A i \in 1 .. n - 1 : write_set'[i] = write_set[i]
      /\ Len(rows') = Len(rows)
      /\ \A q \in 1 .. Len(rows) : q # r => rows'[q] = rows[q]
      /\ rows'[r] =
            IF w.type = "INSERT"
            THEN [trx |-> rows[r].trx, roll |-> rows[r].roll, del |-> rows[r].del, dead |-> TRUE]
            ELSE [trx |-> w.prev_trx, roll |-> w.prev_roll, del |-> FALSE, dead |-> rows[r].dead]
  BY <1>1, RollbackEffect
<1>3. Len(rows) \in Nat /\ n \in Nat
  BY StepTypes
<1>4. /\ \A q \in 1 .. Len(rows) : RecordDone(q)
      /\ \A i \in 1 .. n : WriteDone(i)
  BY <1>0 DEF SetInv
<1>5. \A j \in 1 .. n - 1 : write_set[j].rid = r => write_set[j].type = "INSERT" /\ w.type = "DELETE"
  BY <1>2, <1>4 DEF WriteDone
<1>6. ASSUME NEW type, NEW q PROVE Done(type, q)' <=> Done(type, q) /\ ~(type = w.type /\ q = r)
  <2>1. Done(type, q)' <=> \E i \in 1 .. n - 1 : Did(i, type, q)
    BY <1>2 DEF Done, Did
  <2>2. ASSUME NEW i \in 1 .. n - 1, Did(i, type, q) PROVE Done(type, q) /\ ~(type = w.type /\ q = r)
    BY <1>3, <1>5, <2>2 DEF Done, Did
  <2>3. ASSUME NEW i \in 1 .. n, Did(i, type, q), ~(type = w.type /\ q = r) PROVE i \in 1 .. n - 1
    BY <1>3, <2>3 DEF Did
  <2> QED
    BY <2>1, <2>2, <2>3 DEF Done
<1> SUFFICES ASSUME NEW k, k = r PROVE SetInv'
  OBVIOUS
<1>7. \A q \in 1 .. Len(rows) : q # k => (Lost(q)' <=> Lost(q)) /\ Image(q)' = Image(q)
  BY <1>2 DEF Lost, Image
<1>8. ASSUME w.type = "INSERT" PROVE rows'[k].dead /\ ~rows'[k].del /\ ~rows[k].del
  BY <1>1, <1>2, <1>8
<1>9. ASSUME w.type = "DELETE"
      PROVE  /\ ~rows'[k].dead /\ ~rows'[k].del /\ ~Lost(k)'
             /\ Image(k)'.trx = Image(k).trx /\ Image(k)'.roll = Image(k).roll
  <2>1. /\ rows'[k].trx = Image(k).trx /\ rows'[k].roll = Image(k).roll
        /\ ~rows'[k].del /\ ~rows'[k].dead
    BY <1>1, <1>2, <1>9
  <2> QED
    BY <2>1 DEF Lost, Image
<1>10. ASSUME NEW q \in 1 .. Len(rows) PROVE RecordDone(q)'
  <2>1. RecordDone(q)
    BY <1>4
  <2>2. CASE q # k
    BY <1>2, <1>6, <1>7, <2>1, <2>2 DEF RecordDone
  <2>3. CASE q = k /\ w.type = "INSERT"
    BY <1>2, <1>6, <1>8, <2>1, <2>3 DEF RecordDone
  <2>4. CASE q = k /\ w.type = "DELETE"
    BY <1>1, <1>2, <1>6, <1>9, <2>1, <2>4 DEF RecordDone
  <2> QED
    BY <1>1, <2>2, <2>3, <2>4
<1>11. ASSUME NEW i \in 1 .. n - 1 PROVE WriteDone(i)'
  <2>1. WriteDone(i) /\ write_set'[i] = write_set[i]
    BY <1>2, <1>3, <1>4
  <2>2. \A j \in 1 .. i - 1 : write_set'[j] = write_set[j]
    BY <1>2, <1>3
  <2>3. PICK v \in 1 .. Len(rows) : v = write_set[i].rid
    BY <2>1 DEF WriteDone
  <2>4. v = k => write_set[i].type = "INSERT" /\ w.type = "DELETE"
    BY <1>5, <2>3
  <2>5. Image(v)'.roll = Image(v).roll
    BY <1>7, <1>9, <2>4
  <2>6. write_set[i].type = "DELETE" => ~Lost(v)' /\ Image(v)'.trx = Image(v).trx
    BY <1>7, <2>1, <2>3, <2>4 DEF WriteDone
  <2> QED
    BY <1>2, <2>1, <2>2, <2>3, <2>5, <2>6, WriteKept
<1>12. \A q \in 1 .. Len(rows') : RecordDone(q)'
  BY <1>2, <1>10
<1>13. \A i \in 1 .. Len(write_set') : WriteDone(i)'
  BY <1>2, <1>11
<1>14. stage' = "rollback" /\ pending' = 0
  BY <1>0, <1>2
<1> QED
  BY <1>12, <1>13, <1>14 DEF SetInv

(* A step that changes neither of them keeps them in agreement. *)
LEMMA SetKept ==
    ASSUME SetInv, rows' = rows, undo' = undo, write_set' = write_set, cur' = cur,
           pending' = pending, stage' # "rollback" => stage # "rollback"
    PROVE  SetInv'
<1>1. \A r : (Lost(r)' <=> Lost(r)) /\ Image(r)' = Image(r)
  BY DEF Lost, Image
<1>2. \A type, r : Done(type, r)' <=> Done(type, r)
  BY DEF Done, Did
<1>3. /\ \A r \in 1 .. Len(rows) : RecordDone(r)
      /\ \A i \in 1 .. Len(write_set) : WriteDone(i)
      /\ stage # "rollback" => \A r \in 1 .. Len(rows) : rows[r].dead => rows[r].trx # cur
      /\ pending # 0 => Held(pending, cur) /\ Done("DELETE", undo[pending].ver)
  BY DEF SetInv
<1>4. \A r \in 1 .. Len(rows) : RecordDone(r)'
  BY <1>1, <1>2, <1>3 DEF RecordDone
<1>5. ASSUME NEW i \in 1 .. Len(write_set) PROVE WriteDone(i)'
  <2>1. WriteDone(i)
    BY <1>3
  <2>2. PICK v \in 1 .. Len(rows) : v = write_set[i].rid
    BY <2>1 DEF WriteDone
  <2>3. write_set[i].type = "DELETE" => ~Lost(v)
    BY <2>1, <2>2 DEF WriteDone
  <2> QED
    BY <1>1, <2>1, <2>2, <2>3, WriteKept
<1>6. pending' # 0 => Held(pending, cur)' /\ Done("DELETE", undo[pending].ver)'
  BY <1>3 DEF Held, Done, Did
<1> QED
  BY <1>3, <1>4, <1>5, <1>6 DEF SetInv

(* Every step keeps the write set in agreement with the page. *)
LEMMA WorkStep ==
    ASSUME RecoverInv, RecNext, ~LoseTxn
    PROVE  WorkInv'
<1>1. RecTypeOK /\ StageInv /\ IdInv /\ StatusInv /\ PageInv /\ WorkInv
  BY DEF RecoverInv
<1>2. /\ stage \in {"running", "committing", "rollback"} => SetInv
      /\ pending # 0 => stage = "running"
  BY <1>1 DEF WorkInv
<1>3. ASSUME NEW t, stage = "running" PROVE OnDisk(t)' <=> OnDisk(t)
  BY <1>1, <1>3, OnDiskStep DEF Commits
<1>4. CASE Begin
  <2>1. SetInv'
    BY <1>1, <1>4, BeginSet
  <2>2. stage = "idle" /\ pending' = pending /\ stage' = "running"
    BY <1>1, <1>4, QuietEffect
  <2> QED
    BY <2>1, <2>2 DEF WorkInv
<1>5. CASE Placing
  <2>1. stage = "running" /\ pending' = 0
    BY <1>1, <1>5, PlacingEffect
  <2>2. SetInv'
    BY <1>1, <1>2, <1>5, <2>1, PlaceSet
  <2> QED
    BY <2>1, <2>2 DEF WorkInv
<1>6. CASE \E r \in 1 .. Len(rows) : Marking(r)
  <2>1. PICK r \in 1 .. Len(rows) : Marking(r)
    BY <1>6
  <2>2. stage = "running" /\ stage' = "running"
    BY <1>1, <2>1, MarkingEffect
  <2>3. SameDisk
    BY <1>3, <2>2 DEF SameDisk
  <2>4. SetInv'
    BY <1>1, <1>2, <2>1, <2>2, <2>3, MarkSet
  <2> QED
    BY <2>2, <2>4 DEF WorkInv
<1>7. CASE RollbackWrite
  <2>1. SetInv'
    BY <1>1, <1>7, RollbackSet
  <2>2. pending' = 0
    BY <1>2, <1>7 DEF RollbackWrite
  <2> QED
    BY <2>1, <2>2 DEF WorkInv
<1>8. CASE CommitLog \/ Abort
  <2>1. /\ stage = "running" /\ pending = 0 /\ pending' = 0 /\ cur' = cur /\ write_set' = write_set
        /\ rows' = rows /\ undo' = undo
    BY <1>1, <1>8, QuietEffect DEF CommitLog, Ending
  <2>2. SetInv
    BY <1>2, <2>1
  <2>3. SetInv'
    BY <2>1, <2>2, SetKept
  <2> QED
    BY <2>1, <2>3 DEF WorkInv
<1>9. CASE AbortLog \/ Flushing \/ Dying \/ Analysis \/ Redoing
  <2>1. stage' \notin {"running", "committing", "rollback"}
    BY <1>1, <1>9, QuietEffect, RedoEffect DEF Ending
  <2>2. pending' = 0
    <3>1. CASE Dying
      BY <1>1, <3>1, QuietEffect
    <3>2. CASE ~Dying
      BY <1>1, <1>2, <1>9, <3>2, QuietEffect, RedoEffect DEF Ending, Flushing
    <3> QED
      BY <3>1, <3>2
  <2> QED
    BY <2>1, <2>2 DEF WorkInv
<1> QED
  BY RecCases, <1>4, <1>5, <1>6, <1>7, <1>8, <1>9 DEF Ending

(* The program starts with an empty page and an empty log. *)
LEMMA RecoverInit == RecInit => RecoverInv
<1> SUFFICES ASSUME RecInit PROVE RecoverInv
  OBVIOUS
<1>1. RecTypeOK /\ StageInv /\ LsnInv /\ IdInv
  BY RedoInit, IdInit DEF RedoInv
<1>2. InLog = {}
  BY ElementsOfEmpty DEF RecInit, InLog
<1>3. stage = "idle" /\ cur = INVALID_TX_ID /\ txn_state = [t \in TxIds |-> "UNKNOWN"] /\ pending = 0
  BY DEF RecInit
<1>4. StatusInv
  BY <1>2, <1>3 DEF StatusInv, Active, Logged, TransactionState
<1>5. Len(rows) = 0 /\ Len(undo) = 0 /\ db = {}
  BY DEF RecInit
<1>6. PageInv
  BY <1>5 DEF PageInv
<1>7. WorkInv
  BY <1>3 DEF WorkInv
<1> QED
  BY <1>1, <1>4, <1>6, <1>7 DEF RecoverInv

(* Every step keeps the whole invariant. *)
LEMMA RecoverStep ==
    ASSUME RecoverInv, [RecNext]_recVars, ~LoseTxn
    PROVE  RecoverInv'
<1>1. RecTypeOK /\ StageInv /\ LsnInv /\ IdInv /\ StatusInv /\ PageInv /\ WorkInv
  BY DEF RecoverInv
<1>2. CASE RecNext
  <2>1. RecTypeOK' /\ StageInv' /\ LsnInv' /\ IdInv' /\ StatusInv'
    BY <1>1, <1>2, RecTypeStep, StageStep, LsnStep, IdStep, StatusStep
  <2> QED
    BY <1>2, <2>1, PageStep, WorkStep DEF RecoverInv
<1>3. CASE UNCHANGED recVars
  <2>1. InLog' = InLog
    BY <1>3 DEF InLog, Elements, recVars
  <2>2. RedoInv'
    BY <1>1, RedoStep DEF RedoInv
  <2>3. IdInv'
    <3>1. TailInv'
      BY <1>1, <1>3 DEF IdInv, TailInv, recVars
    <3> QED
      BY <1>1, <1>3, <2>1, <3>1 DEF IdInv, Changed, recVars
  <2>4. \A t : (CommitLogged(t)' <=> CommitLogged(t)) /\ (OnDisk(t)' <=> OnDisk(t)) /\ (Logged(t)' <=> Logged(t))
               /\ (Open(t)' <=> Open(t))
    BY <1>3, <2>1 DEF CommitLogged, OnDisk, Logged, Open, recVars
  <2>5. StatusInv'
    BY <1>1, <1>3, <2>1, <2>4 DEF StatusInv, recVars
  <2>6. \A r : (Lost(r)' <=> Lost(r)) /\ Image(r)' = Image(r)
    BY <1>3 DEF Lost, Image, recVars
  <2>7. \A p, t : Held(p, t)' <=> Held(p, t)
    BY <1>3 DEF Held, recVars
  <2>8. PageInv'
    <3>1. ASSUME NEW r \in 1 .. Len(rows) PROVE ImageInv(r)' /\ VersionInv(r)'
      <4>1. ImageInv(r) /\ VersionInv(r)
        BY <1>1 DEF PageInv
      <4>2. VersionInv(r)'
        BY <1>3, <2>4, <2>6, <4>1 DEF VersionInv, recVars
      <4>3. ImageInv(r)'
        BY <1>3, <2>4, <2>6, <2>7, <4>1 DEF ImageInv, recVars
      <4> QED
        BY <4>2, <4>3
    <3> QED
      BY <1>1, <1>3, <3>1 DEF PageInv, recVars
  <2>9. WorkInv'
    <3>1. SetInv => SetInv'
      BY <1>3, SetKept DEF recVars
    <3> QED
      BY <1>1, <1>3, <3>1 DEF WorkInv, recVars
  <2> QED
    BY <2>2, <2>3, <2>5, <2>8, <2>9 DEF RedoInv, RecoverInv
<1> QED
  BY <1>2, <1>3

(***************************************************************************)
(* While the log file knows of every transaction that changed the page,    *)
(* the record headers, the undo images, the write set of the open          *)
(* transaction and the states of transactions agree with the COMMIT        *)
(* records on disk, through any number of statements, roll-backs, crashes  *)
(* inside them and restarts.                                               *)
(***************************************************************************)
THEOREM RecoverInvariance ==
    ASSUME ~LoseTxn
    PROVE  RecSpec => []RecoverInv
<1>1. RecInit => RecoverInv
  BY RecoverInit
<1>2. RecoverInv /\ [RecNext]_recVars => RecoverInv'
  BY RecoverStep
<1> QED
  BY <1>1, <1>2, PTL DEF RecSpec

(***************************************************************************)
(* A transaction that begins in the first two runs reads exactly the       *)
(* versions whose COMMIT record is on disk, also after a crash between the *)
(* two records of an UPDATE, in the middle of a roll-back, or inside a     *)
(* flush of which a prefix reached the file, as long as the file has a     *)
(* record of every transaction that changed the page                       *)
(* (RecoveryManager::Recover, which redoes nothing there and undoes        *)
(* nothing, with ReadView and the undo chains).                            *)
(***************************************************************************)
THEOREM FirstRecoveryTheorem ==
    ASSUME ~LoseTxn
    PROVE  RecSpec => []FirstRecovery
<1>1. RecoverInv => FirstRecovery
  BY ReaderReads DEF RecoverInv, FirstRecovery, ReadsCommitted
<1> QED
  BY <1>1, RecoverInvariance, PTL

(***************************************************************************)
(* While the log file knows of every transaction that changed the page, no *)
(* transaction reads a version that is not committed on disk, however      *)
(* often the program dies and is restarted, although Redo marks records    *)
(* without an image from the third run on.                                 *)
(***************************************************************************)
THEOREM NoDirtyVersionTheorem ==
    ASSUME ~LoseTxn
    PROVE  RecSpec => []NoDirtyVersion
<1>1. RecoverInv => NoDirtyVersion
  BY ReaderReads DEF RecoverInv, NoDirtyVersion
<1> QED
  BY <1>1, RecoverInvariance, PTL

(***************************************************************************)
(* Wherever an UPDATE stopped, its end, its roll-back or a death between   *)
(* its two records, two records of the page return the same version only   *)
(* when both belong to one transaction that did not commit: their chains   *)
(* lead to the image of the old version. It holds as long as the log file  *)
(* knows of every transaction that changed the page.                       *)
(***************************************************************************)
THEOREM RecoveredOnceTheorem ==
    ASSUME ~LoseTxn
    PROVE  RecSpec => []RecoveredOnce
<1>1. RecoverInv => RecoveredOnce
  <2> SUFFICES ASSUME RecoverInv, stage = "idle", run <= 2,
                      NEW r \in 1 .. Len(rows), NEW s \in 1 .. Len(rows), r # s,
                      NEW x, x \in ScanRecord(NewReader, r), x \in ScanRecord(NewReader, s)
               PROVE  rows[r].trx = rows[s].trx /\ txn_state[rows[r].trx] # "COMMITTED"
    BY DEF RecoveredOnce
  <2>1. RecTypeOK /\ StageInv /\ IdInv /\ StatusInv /\ PageInv /\ Up /\ stage # "committing"
    BY DEF RecoverInv, Up
  <2>2. SeesDisk(NewReader)
    BY <2>1, ReaderReads
  <2>3. /\ (x = r /\ OnDisk(rows[r].trx) /\ ~rows[r].del) \/ (~OnDisk(rows[r].trx) /\ TakenBy(x, rows[r].trx))
        /\ (x = s /\ OnDisk(rows[s].trx) /\ ~rows[s].del) \/ (~OnDisk(rows[s].trx) /\ TakenBy(x, rows[s].trx))
    BY <2>1, <2>2, ScanOfRecord
  <2>4. rows[r].trx = rows[s].trx /\ ~OnDisk(rows[r].trx)
    BY <2>3 DEF TakenBy
  <2>5. Logged(rows[r].trx) /\ rows[r] \in Headers
    BY <2>1, ChangedIsLogged DEF IdInv, RecTypeOK
  <2>6. rows[r].trx \in TxIds /\ ~Open(rows[r].trx) /\ ~CommitLogged(rows[r].trx)
    BY <2>4, <2>5 DEF Headers, Open, OnDisk
  <2> QED
    BY <2>1, <2>4, <2>5, <2>6 DEF StatusInv
<1> QED
  BY <1>1, RecoverInvariance, PTL
=============================================================================
