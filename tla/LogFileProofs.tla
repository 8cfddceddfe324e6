--------------------------- MODULE LogFileProofs ----------------------------
(***************************************************************************)
(* Proofs about LogFile, for every set of records, every size of the log   *)
(* buffer, and any number of writes, crashes and runs:                     *)
(*                                                                         *)
(*   - ReadLog and Decode give back exactly the records that are wholly in *)
(*     the file, wherever the process died in a write;                     *)
(*   - what ReadLog has once returned it returns for ever.                 *)
(*                                                                         *)
(* ReadLog is a recursive function of an offset that only grows.  Facts    *)
(* about what it returns are shown by taking the least distance from the   *)
(* end of the file at which one fails (LeastOf).  The inductive invariant  *)
(* says where each record of the history begins: in the file (FileLaid)    *)
(* and in the log buffer (BufferLaid).                                     *)
(***************************************************************************)
EXTENDS LogFile, TLAPS, SequenceTheorems, NaturalsInduction, WellFoundedInduction

(* What ReadLog makes of one record. *)
RawRecords == [lsn : Nat, tx : Nat, type : Nat, payload : Seq(Nat)]

(* A whole record begins behind offset off, and the next one behind it. *)
After(buf, off) == off + HeaderSize + buf[off + HeaderSize]
Whole(buf, off) == off + HeaderSize <= Len(buf) /\ After(buf, off) <= Len(buf)
RawAt(buf, off) ==
    [lsn |-> buf[off + 1], tx |-> buf[off + 2], type |-> buf[off + 3],
     payload |-> SubSeq(buf, off + HeaderSize + 1, After(buf, off))]

(* f tells what ReadLog reads from the offsets that are at most n cells    *)
(* before the end.                                                         *)
ReadFrom(f, buf, n) ==
    f = [off \in Len(buf) - n .. Len(buf) |->
            IF Whole(buf, off) THEN <<RawAt(buf, off)>> \o f[After(buf, off)] ELSE <<>>]

(* A set of naturals has a least element. *)
LEMMA LeastOf ==
    ASSUME NEW S, S \subseteq Nat, S # {}
    PROVE  \E m \in S : \A k \in S : m <= k
<1>1. PICK m \in S : \A y \in S : ~(<<y, m>> \in OpToRel(<, Nat))
  BY NatLessThanWellFounded, WFMin
<1>2. ASSUME NEW k \in S PROVE m <= k
  <2>1. k \in Nat /\ m \in Nat
    OBVIOUS
  <2>2. ~(k < m)
    BY <1>1, <2>1 DEF OpToRel
  <2> QED
    BY <2>1, <2>2
<1> QED
  BY <1>2

(* The reader moves forward, by a header at least, and stays in the file. *)
LEMMA MovesForward ==
    ASSUME NEW buf \in Seq(Nat), NEW off \in Nat, Whole(buf, off)
    PROVE  /\ After(buf, off) \in Nat /\ off + HeaderSize <= After(buf, off)
           /\ After(buf, off) <= Len(buf)
           /\ buf[off + HeaderSize] \in Nat
<1>1. Len(buf) \in Nat
  OBVIOUS
<1>2. off + 4 \in 1 .. Len(buf)
  BY <1>1 DEF Whole, HeaderSize
<1>3. buf[off + 4] \in Nat
  BY <1>2
<1> QED
  BY <1>1, <1>3 DEF Whole, After, HeaderSize

(* Offsets only grow, so what ReadLog reads is defined from every offset. *)
LEMMA ReadExists ==
    ASSUME NEW buf \in Seq(Nat)
    PROVE  \E f : ReadFrom(f, buf, Len(buf))
<1> DEFINE L == Len(buf)
           S == {n \in Nat : n <= L /\ ~ \E f : ReadFrom(f, buf, n)}
<1>0. L \in Nat
  OBVIOUS
<1> SUFFICES ASSUME S # {} PROVE FALSE
  <2>1. L \notin S => \E f : ReadFrom(f, buf, L)
    BY <1>0
  <2> QED
    BY <2>1
<1>1. PICK m \in S : \A k \in S : m <= k
  <2>1. S \subseteq Nat
    OBVIOUS
  <2> HIDE DEF S
  <2> QED
    BY <2>1, LeastOf
<1>2. m \in Nat /\ m <= L /\ ~ \E f : ReadFrom(f, buf, m)
  OBVIOUS
<1>3. \E f : \A q \in (L - m) + 1 .. L :
         f[q] = IF Whole(buf, q) THEN <<RawAt(buf, q)>> \o f[After(buf, q)] ELSE <<>>
  <2>1. CASE m = 0
    BY <1>0, <1>2, <2>1
  <2>2. CASE m # 0
    <3>1. m - 1 \in Nat /\ m - 1 <= L /\ ~(m <= m - 1)
      BY <1>0, <1>2, <2>2
    <3>2. PICK f : ReadFrom(f, buf, m - 1)
      BY <1>1, <3>1
    <3>3. L - (m - 1) = (L - m) + 1
      BY <1>0, <1>2
    <3> QED
      BY <3>2, <3>3 DEF ReadFrom
  <2> QED
    BY <2>1, <2>2
<1>4. PICK f : \A q \in (L - m) + 1 .. L :
         f[q] = IF Whole(buf, q) THEN <<RawAt(buf, q)>> \o f[After(buf, q)] ELSE <<>>
  BY <1>3
<1> DEFINE at(q) == IF Whole(buf, q) THEN <<RawAt(buf, q)>> \o f[After(buf, q)] ELSE <<>>
           g == [q \in L - m .. L |-> at(q)]
<1>5. \A q \in (L - m) + 1 .. L : f[q] = at(q)
  BY <1>4
<1> HIDE DEF at
<1>6. \A q \in (L - m) + 1 .. L : g[q] = f[q]
  BY <1>0, <1>2, <1>5
<1>7. \A q \in L - m .. L : Whole(buf, q) => g[After(buf, q)] = f[After(buf, q)]
  <2> SUFFICES ASSUME NEW q \in L - m .. L, Whole(buf, q)
               PROVE  After(buf, q) \in (L - m) + 1 .. L
    BY <1>6
  <2>1. q \in Nat
    BY <1>0, <1>2
  <2> QED
    BY <1>0, <1>2, <2>1, MovesForward DEF HeaderSize
<1>8. \A q \in L - m .. L :
        at(q) = IF Whole(buf, q) THEN <<RawAt(buf, q)>> \o g[After(buf, q)] ELSE <<>>
  <2> HIDE DEF g
  <2> QED
    BY <1>7 DEF at
<1>9. g = [q \in L - m .. L |-> at(q)]
  OBVIOUS
<1>10. ReadFrom(g, buf, m)
  <2> HIDE DEF g
  <2> QED
    BY <1>8, <1>9 DEF ReadFrom
<1> QED
  BY <1>2, <1>10

(* The recursion of ReadLog, step by step. *)
Reads(f, buf) ==
    \A off \in 0 .. Len(buf) :
        f[off] = IF Whole(buf, off) THEN <<RawAt(buf, off)>> \o f[After(buf, off)] ELSE <<>>

LEMMA ReadLogReads ==
    ASSUME NEW buf \in Seq(Nat)
    PROVE  \E f : Reads(f, buf) /\ ReadLog(buf) = f[0]
<1> DEFINE read[off \in 0 .. Len(buf)] ==
            LET p == off + HeaderSize
                end == p + buf[p]
            IN  IF p > Len(buf) \/ end > Len(buf) THEN <<>>
                ELSE <<[lsn |-> buf[off + 1], tx |-> buf[off + 2], type |-> buf[off + 3],
                        payload |-> SubSeq(buf, p + 1, end)]>> \o read[end]
<1> HIDE DEF read
<1>1. read = CHOOSE f : f = [off \in 0 .. Len(buf) |->
            IF off + HeaderSize > Len(buf)
                 \/ off + HeaderSize + buf[off + HeaderSize] > Len(buf) THEN <<>>
            ELSE <<[lsn |-> buf[off + 1], tx |-> buf[off + 2], type |-> buf[off + 3],
                    payload |-> SubSeq(buf, off + HeaderSize + 1,
                                       off + HeaderSize + buf[off + HeaderSize])]>>
                 \o f[off + HeaderSize + buf[off + HeaderSize]]]
  BY DEF read
<1>2. \A off \in 0 .. Len(buf) :
        (off + HeaderSize > Len(buf)
           \/ off + HeaderSize + buf[off + HeaderSize] > Len(buf)) <=> ~Whole(buf, off)
  <2> SUFFICES ASSUME NEW off \in 0 .. Len(buf)
               PROVE  (off + 4 > Len(buf) \/ off + 4 + buf[off + 4] > Len(buf))
                        <=> ~(off + 4 <= Len(buf) /\ off + 4 + buf[off + 4] <= Len(buf))
    BY DEF Whole, After, HeaderSize
  <2>1. CASE off + 4 <= Len(buf)
    <3>1. off + 4 \in 1 .. Len(buf)
      BY <2>1
    <3>2. buf[off + 4] \in Nat
      BY <3>1
    <3> QED
      BY <2>1, <3>2
  <2>2. CASE ~(off + 4 <= Len(buf))
    BY <2>2
  <2> QED
    BY <2>1, <2>2
<1>3. \A off : /\ off + HeaderSize + buf[off + HeaderSize] = After(buf, off)
               /\ [lsn |-> buf[off + 1], tx |-> buf[off + 2], type |-> buf[off + 3],
                    payload |-> SubSeq(buf, off + HeaderSize + 1,
                                       off + HeaderSize + buf[off + HeaderSize])] = RawAt(buf, off)
  BY DEF After, RawAt
<1>4. \A f : ReadFrom(f, buf, Len(buf)) =>
        f = [off \in 0 .. Len(buf) |->
            IF off + HeaderSize > Len(buf)
                 \/ off + HeaderSize + buf[off + HeaderSize] > Len(buf) THEN <<>>
            ELSE <<[lsn |-> buf[off + 1], tx |-> buf[off + 2], type |-> buf[off + 3],
                    payload |-> SubSeq(buf, off + HeaderSize + 1,
                                       off + HeaderSize + buf[off + HeaderSize])]>>
                 \o f[off + HeaderSize + buf[off + HeaderSize]]]
  <2>1. Len(buf) \in Nat /\ Len(buf) - Len(buf) = 0
    OBVIOUS
  <2> QED
    BY <1>2, <1>3, <2>1 DEF ReadFrom
<1>5. read = [off \in 0 .. Len(buf) |->
            IF off + HeaderSize > Len(buf)
                 \/ off + HeaderSize + buf[off + HeaderSize] > Len(buf) THEN <<>>
            ELSE <<[lsn |-> buf[off + 1], tx |-> buf[off + 2], type |-> buf[off + 3],
                    payload |-> SubSeq(buf, off + HeaderSize + 1,
                                       off + HeaderSize + buf[off + HeaderSize])]>>
                 \o read[off + HeaderSize + buf[off + HeaderSize]]]
  BY <1>1, <1>4, ReadExists
<1>6. ReadLog(buf) = read[0]
  BY DEF ReadLog, read
<1>7. Reads(read, buf)
  BY <1>2, <1>3, <1>5 DEF Reads
<1> QED
  BY <1>6, <1>7

(* What is read from every offset is a sequence of records. *)
LEMMA ReadTyped ==
    ASSUME NEW buf \in Seq(Nat), NEW f, Reads(f, buf)
    PROVE  \A off \in 0 .. Len(buf) : f[off] \in Seq(RawRecords)
<1> DEFINE L == Len(buf)
           Bad == {n \in Nat : n <= L /\ f[L - n] \notin Seq(RawRecords)}
<1>0. L \in Nat
  OBVIOUS
<1> SUFFICES ASSUME Bad # {} PROVE FALSE
  <2>1. \A off \in 0 .. L : L - off \in Nat /\ L - off <= L /\ L - (L - off) = off
    BY <1>0
  <2> QED
    BY <2>1
<1>1. PICK m \in Bad : \A k \in Bad : m <= k
  <2>1. Bad \subseteq Nat
    OBVIOUS
  <2> HIDE DEF Bad
  <2> QED
    BY <2>1, LeastOf
<1>2. m \in Nat /\ m <= L /\ f[L - m] \notin Seq(RawRecords)
  OBVIOUS
<1> DEFINE off == L - m
           next == After(buf, off)
<1>3. off \in Nat /\ off \in 0 .. Len(buf) /\ f[off] \notin Seq(RawRecords)
  BY <1>0, <1>2
<1>3a. off = L - m
  OBVIOUS
<1>4. f[off] = IF Whole(buf, off) THEN <<RawAt(buf, off)>> \o f[next] ELSE <<>>
  <2> HIDE DEF off
  <2> QED
    BY <1>3 DEF Reads
<1>5. Whole(buf, off)
  <2>1. <<>> \in Seq(RawRecords)
    OBVIOUS
  <2> HIDE DEF off
  <2> QED
    BY <1>3, <1>4, <2>1
<1> HIDE DEF off
<1>6. next \in Nat /\ off + 4 <= next /\ next <= L /\ off + 4 \in Nat
  BY <1>3, <1>5, MovesForward DEF HeaderSize
<1>7. f[next] \in Seq(RawRecords)
  <2> HIDE DEF Bad, next
  <2>1. L - next \in Nat /\ L - next <= L /\ L - (L - next) = next /\ ~(m <= L - next)
    BY <1>0, <1>2, <1>3, <1>3a, <1>6
  <2>2. L - next \notin Bad
    BY <1>1, <2>1
  <2> QED
    BY <2>1, <2>2 DEF Bad
<1>8. RawAt(buf, off) \in RawRecords
  <2> HIDE DEF next
  <2>1. \A i \in 1 .. L : buf[i] \in Nat
    OBVIOUS
  <2>2. off + 1 \in 1 .. L /\ off + 2 \in 1 .. L /\ off + 3 \in 1 .. L
    BY <1>0, <1>3, <1>6
  <2>3. SubSeq(buf, off + HeaderSize + 1, next) \in Seq(Nat)
    <3>1. off + HeaderSize + 1 \in Int /\ next \in Int
      BY <1>3, <1>6 DEF HeaderSize
    <3>2. \A i \in off + HeaderSize + 1 .. next : buf[i] \in Nat
      BY <1>0, <1>3, <1>6, <2>1 DEF HeaderSize
    <3> QED
      BY <3>1, <3>2, SubSeqProperties
  <2> QED
    BY <2>1, <2>2, <2>3 DEF RawAt, RawRecords, next
<1>9. <<RawAt(buf, off)>> \o f[next] \in Seq(RawRecords)
  <2> HIDE DEF next
  <2>1. <<RawAt(buf, off)>> \in Seq(RawRecords)
    BY <1>8
  <2> QED
    BY <1>7, <2>1, ConcatProperties
<1> QED
  BY <1>3, <1>4, <1>5, <1>9

(* A longer file begins with the same records. *)
LEMMA WholeStays ==
    ASSUME NEW buf \in Seq(Nat), NEW cells \in Seq(Nat), NEW off \in Nat, Whole(buf, off)
    PROVE  /\ Whole(buf \o cells, off)
           /\ After(buf \o cells, off) = After(buf, off)
           /\ RawAt(buf \o cells, off) = RawAt(buf, off)
<1> DEFINE long == buf \o cells
           end == After(buf, off)
<1>1. Len(buf) \in Nat /\ Len(cells) \in Nat /\ long \in Seq(Nat) /\ Len(long) = Len(buf) + Len(cells)
  OBVIOUS
<1>2. \A i \in 1 .. Len(buf) : long[i] = buf[i] /\ buf[i] \in Nat
  OBVIOUS
<1>3. end \in Nat /\ off + 4 <= end /\ end <= Len(buf)
  BY MovesForward DEF HeaderSize
<1> HIDE DEF long
<1>4. off + 1 \in 1 .. Len(buf) /\ off + 2 \in 1 .. Len(buf) /\ off + 3 \in 1 .. Len(buf)
      /\ off + 4 \in 1 .. Len(buf)
  <2>1. off \in Nat
    OBVIOUS
  <2> QED
    BY ONLY <1>1, <1>3, <2>1
<1>5. After(long, off) = end
  BY <1>2, <1>4 DEF After, HeaderSize
<1>6. Whole(long, off)
  <2>1. off \in Nat
    OBVIOUS
  <2> HIDE DEF end
  <2>2. off + 4 <= Len(long) /\ end <= Len(long)
    BY ONLY <1>1, <1>3, <2>1
  <2> QED
    BY ONLY <1>5, <2>2 DEF Whole, HeaderSize
<1>7. SubSeq(long, off + 5, end) = SubSeq(buf, off + 5, end)
  <2> HIDE DEF end
  <2>1. \A i \in off + 5 .. end : buf[i] \in Nat /\ long[i] = buf[i]
    BY <1>1, <1>2, <1>3
  <2> DEFINE a == SubSeq(long, off + 5, end)
             b == SubSeq(buf, off + 5, end)
  <2>2. off + 5 \in Int /\ end \in Int
    BY <1>3
  <2>3. /\ a \in Seq(Nat)
        /\ Len(a) = IF off + 5 <= end THEN end - (off + 5) + 1 ELSE 0
        /\ \A i \in 1 .. end - (off + 5) + 1 : a[i] = long[off + 5 + i - 1]
    BY <2>1, <2>2, SubSeqProperties
  <2>4. /\ b \in Seq(Nat)
        /\ Len(b) = IF off + 5 <= end THEN end - (off + 5) + 1 ELSE 0
        /\ \A i \in 1 .. end - (off + 5) + 1 : b[i] = buf[off + 5 + i - 1]
    BY <2>1, <2>2, SubSeqProperties
  <2> HIDE DEF a, b
  <2>5. Len(a) = Len(b)
    BY <2>3, <2>4
  <2>6. \A i \in 1 .. Len(a) : a[i] = b[i]
    <3> SUFFICES ASSUME NEW i \in 1 .. Len(a) PROVE a[i] = b[i]
      OBVIOUS
    <3>1. i \in 1 .. end - (off + 5) + 1 /\ off + 5 + i - 1 \in off + 5 .. end
      BY <1>3, <2>3
    <3> QED
      BY <2>1, <2>3, <2>4, <3>1
  <2>7. a = b
    BY <2>3, <2>4, <2>5, <2>6, SeqEqual
  <2> QED
    BY <2>7 DEF a, b
<1>8. off + HeaderSize + 1 = off + 5
  BY DEF HeaderSize
<1>9. RawAt(long, off) = RawAt(buf, off)
  <2> HIDE DEF end
  <2>1. long[off + 1] = buf[off + 1] /\ long[off + 2] = buf[off + 2] /\ long[off + 3] = buf[off + 3]
    BY <1>2, <1>4
  <2> QED
    BY <1>5, <1>7, <1>8, <2>1 DEF RawAt, end
<1> QED
  BY <1>5, <1>6, <1>9 DEF long, end

(* What IsPrefix compares, element by element. *)
Begins(s, t) == Len(s) <= Len(t) /\ \A i \in 1 .. Len(s) : s[i] = t[i]

LEMMA PrefixOfSeq ==
    ASSUME NEW T, NEW s \in Seq(T), NEW t \in Seq(T), Begins(s, t)
    PROVE  IsPrefix(s, t)
<1> DEFINE n == Len(s)
           a == SubSeq(s, 1, n)
           b == SubSeq(t, 1, n)
<1>1. n \in Nat /\ Len(t) \in Nat /\ n <= Len(t)
  BY DEF Begins
<1>2. \A i \in 1 .. n : s[i] \in T /\ t[i] \in T /\ s[i] = t[i]
  BY <1>1 DEF Begins
<1>3. Len(s) = n
  OBVIOUS
<1> HIDE DEF n
<1>4. /\ a \in Seq(T) /\ Len(a) = IF 1 <= n THEN n - 1 + 1 ELSE 0
      /\ \A i \in 1 .. n - 1 + 1 : a[i] = s[1 + i - 1]
  BY <1>1, <1>2, SubSeqProperties
<1>5. /\ b \in Seq(T) /\ Len(b) = IF 1 <= n THEN n - 1 + 1 ELSE 0
      /\ \A i \in 1 .. n - 1 + 1 : b[i] = t[1 + i - 1]
  BY <1>1, <1>2, SubSeqProperties
<1> HIDE DEF a, b
<1>6. Len(a) = Len(b)
  BY <1>1, <1>4, <1>5
<1>7. \A i \in 1 .. Len(a) : a[i] = b[i]
  BY <1>1, <1>2, <1>4, <1>5
<1>8. a = b
  BY <1>4, <1>5, <1>6, <1>7, SeqEqual
<1> QED
  BY <1>1, <1>3, <1>8 DEF IsPrefix, a, b

(* What is read from a longer file begins with what is read from it now. *)
LEMMA ReadBegins ==
    ASSUME NEW buf \in Seq(Nat), NEW cells \in Seq(Nat),
           NEW f, Reads(f, buf), NEW g, Reads(g, buf \o cells)
    PROVE  \A off \in 0 .. Len(buf) : Begins(f[off], g[off])
<1> DEFINE L == Len(buf)
           long == buf \o cells
           Bad == {n \in Nat : n <= L /\ ~Begins(f[L - n], g[L - n])}
<1>0. L \in Nat /\ long \in Seq(Nat) /\ Len(long) \in Nat /\ L <= Len(long)
  OBVIOUS
<1> SUFFICES ASSUME Bad # {} PROVE FALSE
  <2>1. \A off \in 0 .. L : L - off \in Nat /\ L - off <= L /\ L - (L - off) = off
    BY <1>0
  <2> QED
    BY <2>1
<1>1. PICK m \in Bad : \A k \in Bad : m <= k
  <2>1. Bad \subseteq Nat
    OBVIOUS
  <2> HIDE DEF Bad
  <2> QED
    BY <2>1, LeastOf
<1>2. m \in Nat /\ m <= L /\ ~Begins(f[L - m], g[L - m])
  OBVIOUS
<1> DEFINE off == L - m
           next == After(buf, off)
<1>3. off \in Nat /\ off \in 0 .. Len(buf) /\ off \in 0 .. Len(long) /\ ~Begins(f[off], g[off])
  <2> HIDE DEF long
  <2> QED
    BY <1>0, <1>2
<1>3a. off = L - m
  OBVIOUS
<1> HIDE DEF off
<1>4. /\ \A x \in 0 .. Len(buf) : f[x] \in Seq(RawRecords)
      /\ \A x \in 0 .. Len(long) : g[x] \in Seq(RawRecords)
  BY <1>0, ReadTyped
<1>5. f[off] = IF Whole(buf, off) THEN <<RawAt(buf, off)>> \o f[next] ELSE <<>>
  BY <1>3 DEF Reads
<1>6. Whole(buf, off)
  <2> SUFFICES ASSUME ~Whole(buf, off) PROVE FALSE
    OBVIOUS
  <2>1. f[off] = <<>>
    BY <1>5
  <2>2. g[off] \in Seq(RawRecords)
    BY <1>3, <1>4
  <2>3. Begins(<<>>, g[off])
    BY <2>2 DEF Begins
  <2> QED
    BY <1>3, <2>1, <2>3
<1>7. Whole(long, off) /\ After(long, off) = next /\ RawAt(long, off) = RawAt(buf, off)
  BY <1>3, <1>6, WholeStays
<1>8. next \in Nat /\ off + 4 <= next /\ next <= L
  BY <1>3, <1>6, MovesForward DEF HeaderSize
<1> HIDE DEF next
<1>9. next \in 0 .. Len(buf) /\ next \in 0 .. Len(long)
  <2> HIDE DEF long
  <2> QED
    BY <1>0, <1>8
<1>10. Begins(f[next], g[next])
  <2> HIDE DEF Bad
  <2>1. L - next \in Nat /\ L - next <= L /\ L - (L - next) = next /\ ~(m <= L - next)
    BY <1>0, <1>2, <1>3, <1>3a, <1>8
  <2>2. L - next \notin Bad
    BY <1>1, <2>1
  <2> QED
    BY <2>1, <2>2 DEF Bad
<1>11. g[off] = <<RawAt(buf, off)>> \o g[next]
  <2> HIDE DEF long
  <2> SUFFICES Reads(g, long)
    BY <1>3, <1>7 DEF Reads
  <2> QED
    BY DEF long
<1>12. f[off] = <<RawAt(buf, off)>> \o f[next]
  BY <1>5, <1>6
<1> DEFINE r == RawAt(buf, off)
<1>13. ASSUME NEW a \in Seq(RawRecords), NEW b \in Seq(RawRecords), Begins(a, b)
       PROVE  Begins(<<r>> \o a, <<r>> \o b)
  <2> HIDE DEF r
  <2> DEFINE x == <<r>> \o a
             y == <<r>> \o b
  <2>1. Len(a) \in Nat /\ Len(b) \in Nat /\ Len(x) = Len(a) + 1 /\ Len(y) = Len(b) + 1
    OBVIOUS
  <2>2. /\ \A i \in 1 .. Len(a) + 1 : x[i] = IF i = 1 THEN r ELSE a[i - 1]
        /\ \A i \in 1 .. Len(b) + 1 : y[i] = IF i = 1 THEN r ELSE b[i - 1]
    OBVIOUS
  <2> HIDE DEF x, y
  <2>3. Len(a) <= Len(b) /\ \A i \in 1 .. Len(a) : a[i] = b[i]
    BY <1>13 DEF Begins
  <2>4. ASSUME NEW i \in 1 .. Len(x) PROVE x[i] = y[i]
    <3>1. i \in 1 .. Len(a) + 1 /\ i \in 1 .. Len(b) + 1
      BY <2>1, <2>3
    <3>2. i # 1 => i - 1 \in 1 .. Len(a)
      BY <2>1, <3>1
    <3> QED
      BY <2>2, <2>3, <3>1, <3>2
  <2>5. Len(x) <= Len(y)
    BY <2>1, <2>3
  <2>6. Begins(x, y)
    BY <2>4, <2>5 DEF Begins
  <2> QED
    BY <2>6 DEF x, y
<1> QED
  BY <1>3, <1>4, <1>9, <1>10, <1>11, <1>12, <1>13

(***************************************************************************)
(* Whatever is written behind it, a file is read as before, and then on.   *)
(***************************************************************************)
LEMMA WritesKeepTheLog ==
    ASSUME NEW buf \in Seq(Nat), NEW cells \in Seq(Nat)
    PROVE  IsPrefix(ReadLog(buf), ReadLog(buf \o cells))
<1>1. buf \o cells \in Seq(Nat) /\ 0 \in 0 .. Len(buf) /\ 0 \in 0 .. Len(buf \o cells)
  OBVIOUS
<1>2. PICK f : Reads(f, buf) /\ ReadLog(buf) = f[0]
  BY ReadLogReads
<1>3. PICK g : Reads(g, buf \o cells) /\ ReadLog(buf \o cells) = g[0]
  BY <1>1, ReadLogReads
<1>4. f[0] \in Seq(RawRecords) /\ g[0] \in Seq(RawRecords)
  BY <1>1, <1>2, <1>3, ReadTyped
<1>5. Begins(f[0], g[0])
  BY <1>1, <1>2, <1>3, ReadBegins
<1> QED
  BY <1>2, <1>3, <1>4, <1>5, PrefixOfSeq

-----------------------------------------------------------------------------
(* Records, and the cells AppendLogRecord makes of them. *)

Records ==
    {rec \in [lsn : Nat, tx : TxIds, type : {COMMIT, ABORT} \union DataTypes, data : Payload] :
        rec.type \notin DataTypes => rec.data = NoData}

PayloadOf(rec) == IF rec.type \in DataTypes THEN Encode(rec.data) ELSE <<>>
CellsOf(rec) == Cells(rec.lsn, rec.tx, rec.type, PayloadOf(rec))
RawOf(rec) == [lsn |-> rec.lsn, tx |-> rec.tx, type |-> rec.type, payload |-> PayloadOf(rec)]

(* The payload of a record is decoded to what was encoded. *)
LEMMA EncodeDecode ==
    ASSUME NEW p \in Payload
    PROVE  /\ Encode(p) \in Seq(Nat) /\ Len(Encode(p)) = 4 + Len(p.image)
           /\ Decode(Encode(p)) = p
<1>1. /\ p.table_id \in Nat /\ p.page_id \in Nat /\ p.row_id \in Nat /\ p.image \in Seq(Nat)
      /\ p = [table_id |-> p.table_id, page_id |-> p.page_id, row_id |-> p.row_id, image |-> p.image]
  BY DEF Payload
<1> DEFINE image == p.image
           n == Len(image)
           head == <<p.table_id, p.page_id, p.row_id, n>>
           e == head \o image
<1>2. n \in Nat /\ image \in Seq(Nat)
  BY <1>1
<1>2a. Len(image) = n
  OBVIOUS
<1> HIDE DEF image, n
<1>3. /\ head \in Seq(Nat) /\ Len(head) = 4
      /\ head[1] = p.table_id /\ head[2] = p.page_id /\ head[3] = p.row_id /\ head[4] = n
  BY <1>1, <1>2
<1> HIDE DEF head
<1>4. /\ e \in Seq(Nat) /\ Len(e) = 4 + n
      /\ \A i \in 1 .. 4 + n : e[i] = IF i <= 4 THEN head[i] ELSE image[i - 4]
  <2>1. /\ e \in Seq(Nat) /\ Len(e) = Len(head) + Len(image)
        /\ \A i \in 1 .. Len(head) + Len(image) :
              e[i] = IF i <= Len(head) THEN head[i] ELSE image[i - Len(head)]
    BY ONLY <1>2, <1>3, ConcatProperties
  <2> QED
    BY ONLY <1>2, <1>2a, <1>3, <2>1
<1>5. Encode(p) = e
  BY <1>1 DEF Encode, head, image, n
<1> HIDE DEF e
<1>6. e[1] = p.table_id /\ e[2] = p.page_id /\ e[3] = p.row_id /\ e[4] = n
  <2>1. 1 \in 1 .. 4 + n /\ 2 \in 1 .. 4 + n /\ 3 \in 1 .. 4 + n /\ 4 \in 1 .. 4 + n
    BY <1>2
  <2> QED
    BY <1>3, <1>4, <2>1
<1>7. SubSeq(e, 5, 4 + n) = image
  <2> DEFINE b == SubSeq(e, 5, 4 + n)
  <2>1. 5 \in Int /\ 4 + n \in Int /\ \A i \in 5 .. 4 + n : e[i] \in Nat
    BY <1>2, <1>4
  <2>2. /\ b \in Seq(Nat)
        /\ Len(b) = IF 5 <= 4 + n THEN (4 + n) - 5 + 1 ELSE 0
        /\ \A i \in 1 .. (4 + n) - 5 + 1 : b[i] = e[5 + i - 1]
    BY <2>1, SubSeqProperties
  <2> HIDE DEF b
  <2>3. Len(b) = n
    BY <1>2, <2>2
  <2>4. \A i \in 1 .. n : b[i] = image[i]
    <3> SUFFICES ASSUME NEW i \in 1 .. n PROVE b[i] = image[i]
      OBVIOUS
    <3>1. i \in 1 .. (4 + n) - 5 + 1 /\ 5 + i - 1 = i + 4 /\ i + 4 \in 1 .. 4 + n /\ ~(i + 4 <= 4)
          /\ (i + 4) - 4 = i
      BY <1>2
    <3> QED
      BY <1>4, <2>2, <3>1
  <2>5. b = image
    BY <1>2, <1>2a, <2>2, <2>3, <2>4, SeqEqual
  <2> QED
    BY <2>5 DEF b
<1>8. Decode(e) = [table_id |-> e[1], page_id |-> e[2], row_id |-> e[3], image |-> SubSeq(e, 5, 4 + e[4])]
  <2>1. ~(Len(e) < PayloadFixed) /\ PayloadFixed + 1 = 5 /\ PayloadFixed = 4
    BY <1>2, <1>4 DEF PayloadFixed
  <2> QED
    BY <2>1 DEF Decode
<1>9. Decode(e) = p
  BY <1>1, <1>6, <1>7, <1>8 DEF image
<1> QED
  BY <1>2, <1>4, <1>5, <1>9 DEF image, n

(* The cells of a record: the four of the header, then the payload. *)
LEMMA CellsOfRecord ==
    ASSUME NEW rec \in Records
    PROVE  /\ PayloadOf(rec) \in Seq(Nat) /\ CellsOf(rec) \in Seq(Nat)
           /\ Len(CellsOf(rec)) = 4 + Len(PayloadOf(rec))
           /\ CellsOf(rec)[1] = rec.lsn /\ CellsOf(rec)[2] = rec.tx /\ CellsOf(rec)[3] = rec.type
           /\ CellsOf(rec)[4] = Len(PayloadOf(rec))
           /\ \A i \in 1 .. Len(PayloadOf(rec)) : CellsOf(rec)[4 + i] = PayloadOf(rec)[i]
<1>1. rec.lsn \in Nat /\ rec.tx \in Nat /\ rec.type \in Nat /\ rec.data \in Payload
  <2>1. rec \in [lsn : Nat, tx : TxIds, type : {COMMIT, ABORT} \union DataTypes, data : Payload]
    BY DEF Records
  <2>2. {COMMIT, ABORT} \union DataTypes \subseteq Nat
    BY DEF COMMIT, ABORT, DataTypes, INSERT_ROW, DELETE_ROW
  <2> QED
    BY <2>1, <2>2, TxIdsAssumption
<1> DEFINE q == PayloadOf(rec)
           n == Len(q)
           head == <<rec.lsn, rec.tx, rec.type, n>>
           e == head \o q
<1>2. q \in Seq(Nat) /\ n \in Nat
  <2>1. Encode(rec.data) \in Seq(Nat)
    BY <1>1, EncodeDecode
  <2>2. PayloadOf(rec) \in Seq(Nat)
    BY <2>1 DEF PayloadOf
  <2> QED
    BY <2>2
<1>3. CellsOf(rec) = e
  BY DEF CellsOf, Cells
<1>3a. Len(q) = n
  OBVIOUS
<1> HIDE DEF q, n
<1>4. /\ head \in Seq(Nat) /\ Len(head) = 4
      /\ head[1] = rec.lsn /\ head[2] = rec.tx /\ head[3] = rec.type /\ head[4] = n
  BY <1>1, <1>2
<1> HIDE DEF head
<1>5. /\ e \in Seq(Nat) /\ Len(e) = 4 + n
      /\ \A i \in 1 .. 4 + n : e[i] = IF i <= 4 THEN head[i] ELSE q[i - 4]
  <2>1. /\ e \in Seq(Nat) /\ Len(e) = Len(head) + Len(q)
        /\ \A i \in 1 .. Len(head) + Len(q) :
              e[i] = IF i <= Len(head) THEN head[i] ELSE q[i - Len(head)]
    BY ONLY <1>2, <1>4, ConcatProperties
  <2> QED
    BY ONLY <1>2, <1>3a, <1>4, <2>1
<1> HIDE DEF e
<1>6. e[1] = rec.lsn /\ e[2] = rec.tx /\ e[3] = rec.type /\ e[4] = n
  <2>1. 1 \in 1 .. 4 + n /\ 2 \in 1 .. 4 + n /\ 3 \in 1 .. 4 + n /\ 4 \in 1 .. 4 + n
    BY <1>2
  <2> QED
    BY <1>4, <1>5, <2>1
<1>7. \A i \in 1 .. n : e[4 + i] = q[i]
  <2> SUFFICES ASSUME NEW i \in 1 .. n PROVE e[4 + i] = q[i]
    OBVIOUS
  <2>1. 4 + i \in 1 .. 4 + n /\ ~(4 + i <= 4) /\ (4 + i) - 4 = i
    BY <1>2
  <2> QED
    BY <1>5, <2>1
<1> QED
  BY <1>2, <1>3, <1>3a, <1>5, <1>6, <1>7 DEF q

(***************************************************************************)
(* The cells buf hold the records of recs behind number lo up to number    *)
(* hi, one behind the other: record i ends at pos[i].                      *)
(***************************************************************************)
Lays(buf, recs, lo, hi, pos) ==
    /\ pos[lo] = 0
    /\ \A i \in lo .. hi : pos[i] \in 0 .. Len(buf)
    /\ \A i \in lo .. hi - 1 :
          /\ pos[i + 1] = pos[i] + Len(CellsOf(recs[i + 1]))
          /\ \A j \in 1 .. Len(CellsOf(recs[i + 1])) : buf[pos[i] + j] = CellsOf(recs[i + 1])[j]

(* ReadLog finds a laid-out record where it begins. *)
LEMMA FindsRecord ==
    ASSUME NEW buf \in Seq(Nat), NEW recs \in Seq(Records), NEW hi \in 0 .. Len(recs),
           NEW pos, Lays(buf, recs, 0, hi, pos), NEW i \in 0 .. hi - 1
    PROVE  /\ Whole(buf, pos[i]) /\ After(buf, pos[i]) = pos[i + 1]
           /\ RawAt(buf, pos[i]) = RawOf(recs[i + 1])
<1> DEFINE rec == recs[i + 1]
           o == pos[i]
           q == PayloadOf(rec)
           n == Len(q)
           c == CellsOf(rec)
           end == pos[i + 1]
<1>0. Len(buf) \in Nat /\ Len(recs) \in Nat /\ i \in Nat /\ i + 1 \in 1 .. Len(recs)
      /\ i \in 0 .. hi /\ i + 1 \in 0 .. hi
  OBVIOUS
<1>1. rec \in Records
  BY <1>0
<1>2. /\ o \in 0 .. Len(buf) /\ end \in 0 .. Len(buf) /\ end = o + Len(c)
      /\ \A j \in 1 .. Len(c) : buf[o + j] = c[j]
  BY <1>0 DEF Lays
<1> HIDE DEF rec
<1>3. /\ q \in Seq(Nat) /\ n \in Nat /\ Len(c) = 4 + n
      /\ c[1] = rec.lsn /\ c[2] = rec.tx /\ c[3] = rec.type /\ c[4] = n
      /\ \A k \in 1 .. n : c[4 + k] = q[k]
  <2>1. q \in Seq(Nat)
    BY ONLY <1>1, CellsOfRecord
  <2>2. n \in Nat
    BY ONLY <2>1
  <2> QED
    BY ONLY <1>1, <2>1, <2>2, CellsOfRecord
<1>3a. Len(q) = n
  OBVIOUS
<1> HIDE DEF o, q, n, c, end
<1>4. buf[o + 1] = rec.lsn /\ buf[o + 2] = rec.tx /\ buf[o + 3] = rec.type /\ buf[o + 4] = n
  <2>1. 1 \in 1 .. Len(c) /\ 2 \in 1 .. Len(c) /\ 3 \in 1 .. Len(c) /\ 4 \in 1 .. Len(c)
    BY <1>3
  <2> QED
    BY <1>2, <1>3, <2>1
<1>5. end = o + 4 + n /\ o + 4 <= end /\ end <= Len(buf) /\ o \in Nat /\ end \in Nat
  BY <1>0, <1>2, <1>3
<1>6. After(buf, o) = end /\ Whole(buf, o)
  <2>1. After(buf, o) = end
    BY <1>4, <1>5 DEF After, HeaderSize
  <2> QED
    BY <1>0, <1>5, <2>1 DEF Whole, HeaderSize
<1>7. SubSeq(buf, o + 5, end) = q
  <2> DEFINE b == SubSeq(buf, o + 5, end)
  <2>1. o + 5 \in Int /\ end \in Int /\ \A x \in o + 5 .. end : buf[x] \in Nat
    <3>1. \A x \in 1 .. Len(buf) : buf[x] \in Nat
      OBVIOUS
    <3> QED
      BY <1>0, <1>5, <3>1
  <2>2. /\ b \in Seq(Nat)
        /\ Len(b) = IF o + 5 <= end THEN end - (o + 5) + 1 ELSE 0
        /\ \A x \in 1 .. end - (o + 5) + 1 : b[x] = buf[o + 5 + x - 1]
    BY ONLY <2>1, SubSeqProperties
  <2> HIDE DEF b
  <2>3. Len(b) = n
    BY <1>3, <1>5, <2>2
  <2>4. \A x \in 1 .. n : b[x] = q[x]
    <3> SUFFICES ASSUME NEW x \in 1 .. n PROVE b[x] = q[x]
      OBVIOUS
    <3>1. x \in 1 .. end - (o + 5) + 1 /\ o + 5 + x - 1 = o + (4 + x) /\ 4 + x \in 1 .. Len(c)
      BY <1>3, <1>5
    <3> QED
      BY <1>2, <1>3, <2>2, <3>1
  <2>5. b = q
    BY <1>3, <1>3a, <2>2, <2>3, <2>4, SeqEqual
  <2> QED
    BY <2>5 DEF b
<1>8. o + HeaderSize + 1 = o + 5
  BY <1>5 DEF HeaderSize
<1>9. RawAt(buf, o) = RawOf(rec)
  BY <1>4, <1>6, <1>7, <1>8 DEF RawAt, RawOf, q
<1> QED
  BY <1>6, <1>9 DEF o, end, rec

(* From the end of record i ReadLog returns the records behind it, when    *)
(* no whole record is behind the last.                                     *)
ReturnsFrom(s, recs, i, hi) ==
    Len(s) = hi - i /\ \A j \in 1 .. hi - i : s[j] = RawOf(recs[i + j])

LEMMA ReadsLayout ==
    ASSUME NEW buf \in Seq(Nat), NEW recs \in Seq(Records), NEW hi \in 0 .. Len(recs),
           NEW pos, Lays(buf, recs, 0, hi, pos), ~Whole(buf, pos[hi]),
           NEW f, Reads(f, buf)
    PROVE  ReturnsFrom(f[0], recs, 0, hi)
<1> DEFINE Bad == {n \in Nat : n <= hi /\ ~ReturnsFrom(f[pos[hi - n]], recs, hi - n, hi)}
<1>0. hi \in Nat /\ Len(buf) \in Nat /\ Len(recs) \in Nat
  OBVIOUS
<1> SUFFICES ASSUME Bad # {} PROVE FALSE
  <2>1. pos[0] = 0 /\ hi - hi = 0 /\ hi \in Nat /\ hi <= hi
    BY <1>0 DEF Lays
  <2>2. hi \notin Bad => ReturnsFrom(f[pos[hi - hi]], recs, hi - hi, hi)
    BY <2>1
  <2> QED
    BY <2>1, <2>2
<1>1. PICK m \in Bad : \A k \in Bad : m <= k
  <2>1. Bad \subseteq Nat
    OBVIOUS
  <2> HIDE DEF Bad
  <2> QED
    BY <2>1, LeastOf
<1>2. m \in Nat /\ m <= hi /\ ~ReturnsFrom(f[pos[hi - m]], recs, hi - m, hi)
  OBVIOUS
<1> DEFINE i == hi - m
<1>3. i \in 0 .. hi /\ i \in Nat /\ i = hi - m
  BY <1>0, <1>2
<1>4. ~ReturnsFrom(f[pos[i]], recs, i, hi)
  BY <1>2
<1> HIDE DEF i
<1>5. \A k \in 0 .. hi : pos[k] \in 0 .. Len(buf)
  BY DEF Lays
<1>6. \A k \in 0 .. hi : f[pos[k]] =
         IF Whole(buf, pos[k]) THEN <<RawAt(buf, pos[k])>> \o f[After(buf, pos[k])] ELSE <<>>
  BY <1>5 DEF Reads
<1>7. CASE i = hi
  <2>1. f[pos[hi]] = <<>>
    BY <1>3, <1>6, <1>7
  <2>2. hi - hi = 0
    BY <1>0
  <2>3. ReturnsFrom(<<>>, recs, hi, hi)
    BY <2>2 DEF ReturnsFrom
  <2> QED
    BY <1>4, <1>7, <2>1, <2>3
<1>8. CASE i # hi
  <2>1. i \in 0 .. hi - 1 /\ i + 1 \in 0 .. hi
    BY <1>0, <1>3, <1>8
  <2>2. f[pos[i]] = <<RawOf(recs[i + 1])>> \o f[pos[i + 1]]
    <3>1. /\ Whole(buf, pos[i]) /\ After(buf, pos[i]) = pos[i + 1]
          /\ RawAt(buf, pos[i]) = RawOf(recs[i + 1])
      BY <2>1, FindsRecord
    <3> QED
      BY ONLY <1>3, <1>6, <3>1
  <2>3. ReturnsFrom(f[pos[i + 1]], recs, i + 1, hi)
    <3> HIDE DEF Bad
    <3>1. m - 1 \in Nat /\ m - 1 <= hi /\ ~(m <= m - 1) /\ hi - (m - 1) = i + 1
      BY <1>0, <1>2, <1>3, <1>8
    <3>2. m - 1 \notin Bad
      BY <1>1, <3>1
    <3> QED
      BY <3>1, <3>2 DEF Bad
  <2> DEFINE s == f[pos[i + 1]]
             r == RawOf(recs[i + 1])
             t == <<r>> \o s
  <2>4. s \in Seq(RawRecords)
    BY <1>5, <2>1, ReadTyped
  <2>5. Len(s) = hi - (i + 1) /\ \A j \in 1 .. hi - (i + 1) : s[j] = RawOf(recs[i + 1 + j])
    BY <2>3 DEF ReturnsFrom
  <2>5a. r = RawOf(recs[i + 1])
    OBVIOUS
  <2> HIDE DEF s, r
  <2>6. Len(t) = Len(s) + 1 /\ \A j \in 1 .. Len(s) + 1 : t[j] = IF j = 1 THEN r ELSE s[j - 1]
    BY <2>4
  <2> HIDE DEF t
  <2>7. Len(t) = hi - i
    BY <1>0, <1>3, <2>5, <2>6
  <2>8. ASSUME NEW j \in 1 .. hi - i PROVE t[j] = RawOf(recs[i + j])
    <3>1. j \in 1 .. Len(s) + 1
      BY <1>0, <1>3, <2>5, <2>8
    <3>2. CASE j = 1
      BY <2>5a, <2>6, <3>1, <3>2
    <3>3. CASE j # 1
      <4>1. j - 1 \in 1 .. hi - (i + 1) /\ i + 1 + (j - 1) = i + j
        BY <1>0, <1>3, <2>8, <3>3
      <4> QED
        BY <2>5, <2>6, <3>1, <3>3, <4>1
    <3> QED
      BY <3>2, <3>3
  <2>9. ReturnsFrom(t, recs, i, hi)
    BY <2>7, <2>8 DEF ReturnsFrom
  <2> QED
    BY <1>4, <2>2, <2>9 DEF t, s, r
<1> QED
  BY <1>7, <1>8

-----------------------------------------------------------------------------
(* How layouts grow and are cut. *)

(* Arithmetic of offsets. *)
LEMMA InRange ==
    ASSUME NEW x \in Nat, NEW y \in Nat, NEW z \in Nat, NEW n \in Nat, y = x + z, y <= n,
           NEW j \in 1 .. z
    PROVE  x + j \in 1 .. n
OBVIOUS

LEMMA OneBack ==
    ASSUME NEW x \in Nat, NEW y \in Nat, NEW z \in Nat, NEW n \in Nat, y = x + z, z >= 1,
           NEW m \in Nat, y + (m - 1) <= n
    PROVE  x + m <= n
OBVIOUS

(* A record has a cell at least, so records end one behind the other. *)
LEMMA LaysGrow ==
    ASSUME NEW buf \in Seq(Nat), NEW recs \in Seq(Records),
           NEW lo \in Nat, NEW hi \in Nat, hi <= Len(recs), NEW pos, Lays(buf, recs, lo, hi, pos),
           NEW k \in lo .. hi
    PROVE  \A i \in lo .. k : pos[i] + (k - i) <= pos[k]
<1> DEFINE Bad == {d \in Nat : k - d \in lo .. k /\ ~(pos[k - d] + d <= pos[k])}
<1>0. /\ Len(buf) \in Nat /\ Len(recs) \in Nat /\ k \in Nat
      /\ \A i \in lo .. hi : pos[i] \in Nat
      /\ \A i \in lo .. hi - 1 : pos[i + 1] = pos[i] + Len(CellsOf(recs[i + 1]))
  <2>1. Len(buf) \in Nat /\ Len(recs) \in Nat /\ k \in Nat
    OBVIOUS
  <2>2. \A i \in lo .. hi : pos[i] \in 0 .. Len(buf)
    BY DEF Lays
  <2>3. \A i \in lo .. hi - 1 : pos[i + 1] = pos[i] + Len(CellsOf(recs[i + 1]))
    BY DEF Lays
  <2> QED
    BY ONLY <2>1, <2>2, <2>3
<1> SUFFICES ASSUME Bad # {} PROVE FALSE
  <2> SUFFICES ASSUME NEW i \in lo .. k PROVE pos[i] + (k - i) <= pos[k]
    OBVIOUS
  <2>1. k - i \in Nat /\ k - (k - i) = i
    BY <1>0
  <2>2. k - i \notin Bad
    OBVIOUS
  <2> QED
    BY <2>1, <2>2
<1>1. PICK m \in Bad : \A d \in Bad : m <= d
  <2>1. Bad \subseteq Nat
    OBVIOUS
  <2> HIDE DEF Bad
  <2> QED
    BY <2>1, LeastOf
<1>2. m \in Nat /\ k - m \in lo .. k /\ ~(pos[k - m] + m <= pos[k])
  OBVIOUS
<1>3. m # 0
  BY <1>0, <1>2
<1> DEFINE i == k - m
<1>4. i \in lo .. hi - 1 /\ i + 1 \in lo .. hi /\ i + 1 \in 1 .. Len(recs) /\ i \in lo .. hi
      /\ i + 1 \in lo .. k
  BY <1>0, <1>2, <1>3
<1>5. i + 1 = k - (m - 1) /\ m - 1 \in Nat /\ ~(m <= m - 1)
  BY <1>0, <1>2, <1>3
<1>6. pos[i + 1] + (m - 1) <= pos[k]
  <2>1. m - 1 \notin Bad
    <3> HIDE DEF Bad
    <3> QED
      BY <1>1, <1>5
  <2> QED
    BY <1>4, <1>5, <2>1
<1> HIDE DEF i
<1>7. Len(CellsOf(recs[i + 1])) \in Nat /\ Len(CellsOf(recs[i + 1])) >= 1
  <2>1. recs[i + 1] \in Records
    BY <1>4
  <2>2. Len(CellsOf(recs[i + 1])) = 4 + Len(PayloadOf(recs[i + 1])) /\ PayloadOf(recs[i + 1]) \in Seq(Nat)
    BY <2>1, CellsOfRecord
  <2>3. Len(PayloadOf(recs[i + 1])) \in Nat
    BY <2>2
  <2> QED
    BY <2>2, <2>3
<1>8. pos[i + 1] = pos[i] + Len(CellsOf(recs[i + 1])) /\ pos[i] \in Nat /\ pos[i + 1] \in Nat
      /\ pos[k] \in Nat
  BY <1>0, <1>4
<1>9. pos[i] + m <= pos[k]
  BY ONLY <1>2, <1>6, <1>7, <1>8, OneBack
<1> QED
  BY <1>2, <1>9 DEF i

(* A layout depends on its records alone. *)
LEMMA LaysAgree ==
    ASSUME NEW buf, NEW recs, NEW other, NEW lo \in Nat, NEW hi \in Nat,
           NEW pos, Lays(buf, recs, lo, hi, pos), \A i \in lo + 1 .. hi : other[i] = recs[i]
    PROVE  Lays(buf, other, lo, hi, pos)
<1>1. \A i \in lo .. hi - 1 : other[i + 1] = recs[i + 1]
  OBVIOUS
<1> QED
  BY <1>1 DEF Lays

(* The first cells hold the first records. *)
LEMMA LaysCut ==
    ASSUME NEW buf \in Seq(Nat), NEW recs \in Seq(Records),
           NEW lo \in Nat, NEW hi \in Nat, hi <= Len(recs), NEW pos, Lays(buf, recs, lo, hi, pos),
           NEW k \in lo .. hi, NEW n \in 0 .. Len(buf), pos[k] <= n
    PROVE  Lays(SubSeq(buf, 1, n), recs, lo, k, pos)
<1> DEFINE b == SubSeq(buf, 1, n)
<1>1. /\ Len(buf) \in Nat /\ n \in Nat /\ Len(b) = n /\ b \in Seq(Nat)
      /\ \A x \in 1 .. n : b[x] = buf[x]
  OBVIOUS
<1> HIDE DEF b
<1>2. \A i \in lo .. hi : pos[i] \in Nat
  BY <1>1 DEF Lays
<1>3. \A i \in lo .. k : pos[i] <= pos[k]
  <2> SUFFICES ASSUME NEW i \in lo .. k PROVE pos[i] <= pos[k]
    OBVIOUS
  <2>1. pos[i] + (k - i) <= pos[k]
    BY LaysGrow
  <2> QED
    BY <1>2, <2>1
<1>4. \A i \in lo .. k : pos[i] \in 0 .. Len(b)
  BY <1>1, <1>2, <1>3
<1>5. ASSUME NEW i \in lo .. k - 1, NEW j \in 1 .. Len(CellsOf(recs[i + 1]))
      PROVE  b[pos[i] + j] = CellsOf(recs[i + 1])[j]
  <2>1. i \in lo .. hi - 1 /\ i + 1 \in lo .. k /\ i \in lo .. hi /\ i + 1 \in lo .. hi
    OBVIOUS
  <2>2. pos[i + 1] = pos[i] + Len(CellsOf(recs[i + 1])) /\ buf[pos[i] + j] = CellsOf(recs[i + 1])[j]
    BY <2>1 DEF Lays
  <2>3. pos[i] + j \in 1 .. n
    <3>1. /\ pos[i] \in Nat /\ pos[i + 1] \in Nat /\ pos[k] \in Nat /\ pos[i + 1] <= pos[k]
          /\ pos[k] <= n /\ n \in Nat /\ pos[i + 1] <= n
      BY <1>1, <1>2, <1>3, <2>1
    <3>2. Len(CellsOf(recs[i + 1])) \in Nat
      BY <2>1, CellsOfRecord
    <3> QED
      BY ONLY <1>5, <2>2, <3>1, <3>2, InRange
  <2> QED
    BY <1>1, <2>2, <2>3
<1>6. Lays(b, recs, lo, k, pos)
  BY <1>4, <1>5 DEF Lays
<1> QED
  BY <1>6 DEF b

(* Records behind records. *)
LEMMA LaysJoin ==
    ASSUME NEW a \in Seq(Nat), NEW b \in Seq(Nat), NEW recs \in Seq(Records),
           NEW lo \in Nat, NEW mid \in Nat, NEW hi \in Nat, lo <= mid, mid <= hi, hi <= Len(recs),
           NEW pa, Lays(a, recs, lo, mid, pa), pa[mid] = Len(a),
           NEW pb, Lays(b, recs, mid, hi, pb)
    PROVE  \E pos : Lays(a \o b, recs, lo, hi, pos) /\ pos[hi] = Len(a) + pb[hi]
<1> DEFINE c == a \o b
           pos == [i \in lo .. hi |-> IF i <= mid THEN pa[i] ELSE Len(a) + pb[i]]
<1>1. /\ Len(a) \in Nat /\ Len(b) \in Nat /\ Len(c) = Len(a) + Len(b) /\ Len(recs) \in Nat
      /\ \A x \in 1 .. Len(a) : c[x] = a[x]
      /\ \A x \in 1 .. Len(b) : c[Len(a) + x] = b[x]
  OBVIOUS
<1>2. /\ pa[lo] = 0 /\ pb[mid] = 0
      /\ \A i \in lo .. mid : pa[i] \in 0 .. Len(a)
      /\ \A i \in mid .. hi : pb[i] \in 0 .. Len(b)
  BY DEF Lays
<1>3. /\ \A i \in lo .. mid : pos[i] = pa[i]
      /\ \A i \in mid .. hi : pos[i] = Len(a) + pb[i]
  <2>1. pa[mid] = Len(a) + pb[mid]
    BY <1>1, <1>2
  <2> QED
    BY <2>1
<1> HIDE DEF c, pos
<1>4. pos[lo] = 0
  BY <1>2, <1>3
<1>5. \A i \in lo .. hi : pos[i] \in 0 .. Len(c)
  <2> SUFFICES ASSUME NEW i \in lo .. hi PROVE pos[i] \in 0 .. Len(c)
    OBVIOUS
  <2>1. CASE i <= mid
    <3>1. i \in lo .. mid
      BY <2>1
    <3>2. pos[i] \in 0 .. Len(a)
      BY <1>2, <1>3, <3>1
    <3> QED
      BY ONLY <1>1, <3>2
  <2>2. CASE ~(i <= mid)
    <3>1. i \in mid .. hi
      BY <2>2
    <3>2. pos[i] = Len(a) + pb[i] /\ pb[i] \in 0 .. Len(b)
      BY <1>2, <1>3, <3>1
    <3> QED
      BY ONLY <1>1, <3>2
  <2> QED
    BY <2>1, <2>2
<1>6. ASSUME NEW i \in lo .. hi - 1
      PROVE  /\ pos[i + 1] = pos[i] + Len(CellsOf(recs[i + 1]))
             /\ \A j \in 1 .. Len(CellsOf(recs[i + 1])) : c[pos[i] + j] = CellsOf(recs[i + 1])[j]
  <2> DEFINE w == CellsOf(recs[i + 1])
  <2>0. Len(w) \in Nat
    <3>1. i + 1 \in 1 .. Len(recs)
      BY <1>1
    <3>2. recs[i + 1] \in Records
      BY <3>1
    <3>3. w \in Seq(Nat)
      BY <3>2, CellsOfRecord
    <3> HIDE DEF w
    <3> QED
      BY <3>3
  <2>1. CASE i < mid
    <3>1. i \in lo .. mid - 1 /\ i \in lo .. mid /\ i + 1 \in lo .. mid
      BY <2>1
    <3>2. pa[i + 1] = pa[i] + Len(w) /\ \A j \in 1 .. Len(w) : a[pa[i] + j] = w[j]
      BY <3>1 DEF Lays
    <3>3. pos[i] = pa[i] /\ pos[i + 1] = pa[i + 1] /\ pa[i] \in 0 .. Len(a) /\ pa[i + 1] \in 0 .. Len(a)
      BY <1>2, <1>3, <3>1
    <3> HIDE DEF w
    <3>4. ASSUME NEW j \in 1 .. Len(w) PROVE c[pos[i] + j] = w[j]
      <4>1. pa[i] + j \in 1 .. Len(a)
        <5>1. pa[i] \in Nat /\ pa[i + 1] \in Nat /\ pa[i + 1] <= Len(a) /\ Len(a) \in Nat
          BY ONLY <1>1, <3>3
        <5> QED
          BY ONLY <2>0, <3>2, <3>4, <5>1, InRange
      <4> QED
        BY <1>1, <3>2, <3>3, <4>1
    <3> QED
      BY <3>2, <3>3, <3>4 DEF w
  <2>2. CASE ~(i < mid)
    <3>1. i \in mid .. hi - 1 /\ i \in mid .. hi /\ i + 1 \in mid .. hi
      BY <2>2
    <3>2. pb[i + 1] = pb[i] + Len(w) /\ \A j \in 1 .. Len(w) : b[pb[i] + j] = w[j]
      BY <3>1 DEF Lays
    <3>3. pos[i] = Len(a) + pb[i] /\ pos[i + 1] = Len(a) + pb[i + 1]
          /\ pb[i] \in 0 .. Len(b) /\ pb[i + 1] \in 0 .. Len(b)
      BY <1>2, <1>3, <3>1
    <3> HIDE DEF w
    <3>4. ASSUME NEW j \in 1 .. Len(w) PROVE c[pos[i] + j] = w[j]
      <4>1. pb[i] + j \in 1 .. Len(b) /\ pos[i] + j = Len(a) + (pb[i] + j)
        <5>1. pb[i] \in Nat /\ pb[i + 1] \in Nat /\ pb[i + 1] <= Len(b) /\ Len(b) \in Nat
              /\ Len(a) \in Nat
          BY ONLY <1>1, <3>3
        <5>2. pb[i] + j \in 1 .. Len(b)
          BY ONLY <2>0, <3>2, <3>4, <5>1, InRange
        <5> QED
          BY ONLY <2>0, <3>3, <3>4, <5>1, <5>2
      <4> QED
        BY <1>1, <3>2, <4>1
    <3>5. pos[i + 1] = pos[i] + Len(w)
      BY <1>1, <2>0, <3>2, <3>3
    <3> QED
      BY <3>4, <3>5 DEF w
  <2> QED
    BY <2>1, <2>2
<1>7. Lays(c, recs, lo, hi, pos)
  BY <1>4, <1>5, <1>6 DEF Lays
<1>8. pos[hi] = Len(a) + pb[hi]
  BY <1>3
<1> QED
  BY <1>7, <1>8 DEF c

(* The cells of one record. *)
LEMMA LaysOne ==
    ASSUME NEW recs \in Seq(Records), NEW hi \in 1 .. Len(recs)
    PROVE  \E pos : /\ Lays(CellsOf(recs[hi]), recs, hi - 1, hi, pos)
                    /\ pos[hi] = Len(CellsOf(recs[hi]))
<1> DEFINE w == CellsOf(recs[hi])
           pos == [i \in hi - 1 .. hi |-> IF i = hi THEN Len(w) ELSE 0]
<1>1. Len(w) \in Nat /\ hi \in Nat
  <2>1. recs[hi] \in Records
    OBVIOUS
  <2>2. w \in Seq(Nat)
    BY <2>1, CellsOfRecord
  <2> HIDE DEF w
  <2> QED
    BY <2>2
<1> HIDE DEF w
<1>2. pos[hi - 1] = 0 /\ pos[hi] = Len(w)
  BY <1>1
<1> HIDE DEF pos
<1>3. \A i \in hi - 1 .. hi : pos[i] \in 0 .. Len(w)
  BY <1>1, <1>2
<1>4. ASSUME NEW i \in hi - 1 .. hi - 1
      PROVE  /\ pos[i + 1] = pos[i] + Len(CellsOf(recs[i + 1]))
             /\ \A j \in 1 .. Len(CellsOf(recs[i + 1])) : w[pos[i] + j] = CellsOf(recs[i + 1])[j]
  <2>1. i = hi - 1 /\ i + 1 = hi
    BY <1>1, <1>4
  <2>2. CellsOf(recs[i + 1]) = w
    BY <2>1 DEF w
  <2>3. \A j \in 1 .. Len(w) : pos[i] + j = j
    BY <1>1, <1>2, <2>1
  <2> QED
    BY <1>1, <1>2, <2>1, <2>2, <2>3
<1>5. Lays(w, recs, hi - 1, hi, pos)
  BY <1>2, <1>3, <1>4 DEF Lays
<1> QED
  BY <1>2, <1>5 DEF w

-----------------------------------------------------------------------------
(* The inductive invariant. *)

FileTypeOK ==
    /\ log_file \in Seq(Nat) /\ buffered \in Seq(Nat)
    /\ next_lsn \in Nat /\ up \in BOOLEAN /\ flushing \in BOOLEAN /\ run \in Nat
    /\ given \in Seq(Records) /\ stored \in 0 .. Len(given)
    /\ torn \in {"no", "tail", "over"}

(* The buffer holds the records that are not stored, and nothing else. *)
BufferLaid(buf, recs, lo) ==
    \E pos : Lays(buf, recs, lo, Len(recs), pos) /\ pos[Len(recs)] = Len(buf)

(* The file holds the stored records; what follows them is no whole record. *)
FileLaid(buf, recs, hi, state) ==
    state # "over" =>
        \E pos : /\ Lays(buf, recs, 0, hi, pos)
                 /\ ~Whole(buf, pos[hi])
                 /\ state = "no" => pos[hi] = Len(buf)

FileInv ==
    /\ FileTypeOK
    /\ BufferLaid(buffered, given, stored)
    /\ FileLaid(log_file, given, stored, torn)

(* Nothing begins at the end. *)
LEMMA NothingBehind ==
    ASSUME NEW buf \in Seq(Nat), NEW off, off = Len(buf)
    PROVE  ~Whole(buf, off)
  BY DEF Whole, HeaderSize

(* An empty buffer holds no record. *)
LEMMA EmptyBuffer ==
    ASSUME NEW recs \in Seq(Records)
    PROVE  BufferLaid(<<>>, recs, Len(recs))
<1> DEFINE n == Len(recs)
           pos == [i \in n .. n |-> 0]
<1>1. n \in Nat
  OBVIOUS
<1>2. n = Len(recs)
  OBVIOUS
<1> HIDE DEF n
<1>3. Lays(<<>>, recs, n, n, pos) /\ pos[n] = Len(<<>>)
  <2>1. pos[n] = 0 /\ \A i \in n .. n : pos[i] = 0
    BY <1>1
  <2>2. \A i \in n .. n - 1 : FALSE
    BY <1>1
  <2> HIDE DEF pos
  <2> QED
    BY <2>1, <2>2 DEF Lays
<1> QED
  BY <1>2, <1>3 DEF BufferLaid

(* A buffer without cells is a buffer without records. *)
LEMMA NoCellsNoRecords ==
    ASSUME NEW recs \in Seq(Records), NEW lo \in 0 .. Len(recs), BufferLaid(<<>>, recs, lo)
    PROVE  lo = Len(recs)
<1>1. PICK pos : Lays(<<>>, recs, lo, Len(recs), pos) /\ pos[Len(recs)] = Len(<<>>)
  BY DEF BufferLaid
<1>2. lo \in Nat /\ Len(recs) \in Nat /\ lo \in lo .. Len(recs) /\ Len(recs) \in lo .. Len(recs)
      /\ <<>> \in Seq(Nat) /\ Len(<<>>) = 0
  OBVIOUS
<1>3. pos[lo] + (Len(recs) - lo) <= pos[Len(recs)]
  <2>1. \A i \in lo .. Len(recs) : pos[i] + (Len(recs) - i) <= pos[Len(recs)]
    <3> DEFINE n == Len(recs)
    <3>1. n \in Nat /\ n <= Len(recs) /\ n \in lo .. n /\ Lays(<<>>, recs, lo, n, pos)
      BY <1>1, <1>2
    <3> HIDE DEF n
    <3>2. \A i \in lo .. n : pos[i] + (n - i) <= pos[n]
      BY <1>2, <3>1, LaysGrow
    <3> QED
      BY <3>2 DEF n
  <2> QED
    BY <1>2, <2>1
<1>4. pos[lo] = 0
  BY <1>1 DEF Lays
<1> QED
  BY <1>1, <1>2, <1>3, <1>4

(* One more record, for the file and for the buffer. *)
LEMMA AppendFacts ==
    ASSUME NEW recs \in Seq(Records), NEW rec \in Records
    PROVE  /\ Append(recs, rec) \in Seq(Records)
           /\ Len(Append(recs, rec)) = Len(recs) + 1
           /\ Append(recs, rec)[Len(recs) + 1] = rec
           /\ \A i \in 1 .. Len(recs) : Append(recs, rec)[i] = recs[i]
           /\ Len(recs) \in Nat
  OBVIOUS

LEMMA FileKeepsRecords ==
    ASSUME NEW buf, NEW recs \in Seq(Records), NEW rec \in Records, NEW hi \in 0 .. Len(recs),
           NEW state, FileLaid(buf, recs, hi, state)
    PROVE  FileLaid(buf, Append(recs, rec), hi, state)
<1> SUFFICES ASSUME state # "over" PROVE FileLaid(buf, Append(recs, rec), hi, state)
  BY DEF FileLaid
<1>1. PICK pos : Lays(buf, recs, 0, hi, pos) /\ ~Whole(buf, pos[hi]) /\ (state = "no" => pos[hi] = Len(buf))
  BY DEF FileLaid
<1>2. 0 \in Nat /\ hi \in Nat /\ \A i \in 0 + 1 .. hi : Append(recs, rec)[i] = recs[i]
  BY AppendFacts
<1>3. Lays(buf, Append(recs, rec), 0, hi, pos)
  BY ONLY <1>1, <1>2, LaysAgree
<1> QED
  BY <1>1, <1>3 DEF FileLaid

LEMMA BufferTakesRecord ==
    ASSUME NEW buf \in Seq(Nat), NEW recs \in Seq(Records), NEW rec \in Records,
           NEW lo \in 0 .. Len(recs), BufferLaid(buf, recs, lo)
    PROVE  BufferLaid(buf \o CellsOf(rec), Append(recs, rec), lo)
<1> DEFINE more == Append(recs, rec)
           n == Len(recs)
           w == CellsOf(rec)
<1>1. /\ more \in Seq(Records) /\ Len(more) = n + 1 /\ more[n + 1] = rec /\ n \in Nat
      /\ \A i \in 1 .. n : more[i] = recs[i]
  BY AppendFacts
<1>1a. n = Len(recs) /\ w \in Seq(Nat)
  BY CellsOfRecord
<1> HIDE DEF more, n
<1>2. PICK pos : Lays(buf, recs, lo, n, pos) /\ pos[n] = Len(buf)
  BY <1>1a DEF BufferLaid
<1>3. lo \in Nat /\ lo <= n /\ \A i \in lo + 1 .. n : more[i] = recs[i]
  BY <1>1, <1>1a
<1>4. Lays(buf, more, lo, n, pos)
  BY ONLY <1>1, <1>2, <1>3, LaysAgree
<1>5. n + 1 \in 1 .. Len(more) /\ (n + 1) - 1 = n /\ n + 1 \in Nat /\ n <= n + 1 /\ n + 1 <= Len(more)
  BY ONLY <1>1
<1>6. PICK one : Lays(w, more, n, n + 1, one) /\ one[n + 1] = Len(w)
  <2>1. \E one : /\ Lays(CellsOf(more[n + 1]), more, (n + 1) - 1, n + 1, one)
                 /\ one[n + 1] = Len(CellsOf(more[n + 1]))
    BY ONLY <1>1, <1>5, LaysOne
  <2> QED
    BY ONLY <1>1, <1>5, <2>1
<1>7. \E p : Lays(buf \o w, more, lo, n + 1, p) /\ p[n + 1] = Len(buf) + one[n + 1]
  <2> HIDE DEF w
  <2> DEFINE h == n + 1
  <2>1. /\ buf \in Seq(Nat) /\ w \in Seq(Nat) /\ more \in Seq(Records)
        /\ lo \in Nat /\ n \in Nat /\ h \in Nat /\ lo <= n /\ n <= h /\ h <= Len(more)
        /\ Lays(buf, more, lo, n, pos) /\ pos[n] = Len(buf) /\ Lays(w, more, n, h, one)
    BY <1>1, <1>1a, <1>2, <1>3, <1>4, <1>5, <1>6
  <2> HIDE DEF h
  <2>2. \E p : Lays(buf \o w, more, lo, h, p) /\ p[h] = Len(buf) + one[h]
    BY ONLY <2>1, LaysJoin
  <2> QED
    BY <2>2 DEF h
<1>8. Len(buf \o w) = Len(buf) + Len(w)
  BY <1>1a
<1> HIDE DEF w
<1>9. BufferLaid(buf \o w, more, lo)
  BY <1>1, <1>6, <1>7, <1>8 DEF BufferLaid
<1> QED
  BY <1>9 DEF w, more

LEMMA BufferBegins ==
    ASSUME NEW recs \in Seq(Records), NEW rec \in Records
    PROVE  BufferLaid(CellsOf(rec), Append(recs, rec), Len(recs))
<1> DEFINE w == CellsOf(rec)
<1>1. w \in Seq(Nat)
  BY CellsOfRecord
<1>2. BufferLaid(<<>>, recs, Len(recs)) /\ Len(recs) \in 0 .. Len(recs) /\ <<>> \in Seq(Nat)
  BY EmptyBuffer
<1>3. BufferLaid(<<>> \o w, Append(recs, rec), Len(recs))
  BY <1>2, BufferTakesRecord
<1>4. <<>> \o w = w
  <2> HIDE DEF w
  <2> QED
    BY <1>1, ConcatEmptySeq
<1> QED
  BY <1>3, <1>4

(* A write of the buffer to the file. *)
LEMMA WriteLays ==
    ASSUME NEW disk \in Seq(Nat), NEW buf \in Seq(Nat), NEW recs \in Seq(Records),
           NEW lo \in 0 .. Len(recs), NEW state \in {"no", "tail", "over"},
           FileLaid(disk, recs, lo, state), BufferLaid(buf, recs, lo)
    PROVE  FileLaid(disk \o buf, recs, Len(recs),
                    IF state = "tail" /\ buf # <<>> THEN "over" ELSE state)
<1>0. lo \in Nat /\ Len(recs) \in Nat /\ lo <= Len(recs) /\ Len(disk) \in Nat /\ Len(buf) \in Nat
      /\ 0 \in Nat /\ 0 <= lo /\ Len(recs) <= Len(recs)
  OBVIOUS
<1>1. CASE state = "no"
  <2>1. PICK pos : Lays(disk, recs, 0, lo, pos) /\ pos[lo] = Len(disk)
    BY <1>1 DEF FileLaid
  <2>2. PICK pb : Lays(buf, recs, lo, Len(recs), pb) /\ pb[Len(recs)] = Len(buf)
    BY DEF BufferLaid
  <2>3. PICK p : Lays(disk \o buf, recs, 0, Len(recs), p) /\ p[Len(recs)] = Len(disk) + pb[Len(recs)]
    <3> DEFINE n == Len(recs)
    <3>1. /\ n \in Nat /\ lo <= n /\ n <= Len(recs) /\ Lays(buf, recs, lo, n, pb)
          /\ disk \in Seq(Nat) /\ buf \in Seq(Nat) /\ recs \in Seq(Records)
      BY <1>0, <2>2
    <3> HIDE DEF n
    <3>2. \E p : Lays(disk \o buf, recs, 0, n, p) /\ p[n] = Len(disk) + pb[n]
      BY ONLY <1>0, <2>1, <3>1, LaysJoin
    <3> QED
      BY <3>2 DEF n
  <2>4. disk \o buf \in Seq(Nat) /\ Len(disk \o buf) = Len(disk) + Len(buf)
    OBVIOUS
  <2>5. p[Len(recs)] = Len(disk \o buf)
    BY <2>2, <2>3, <2>4
  <2>6. ~Whole(disk \o buf, p[Len(recs)])
    BY ONLY <2>4, <2>5, NothingBehind
  <2>7. FileLaid(disk \o buf, recs, Len(recs), "no")
    BY <2>3, <2>5, <2>6 DEF FileLaid
  <2> QED
    BY <1>1, <2>7
<1>2. CASE state = "tail" /\ buf = <<>>
  <2>1. lo = Len(recs)
    BY <1>2, NoCellsNoRecords
  <2>2. disk \o buf = disk
    BY <1>2
  <2> QED
    BY <1>2, <2>1, <2>2
<1>3. CASE state = "over" \/ (state = "tail" /\ buf # <<>>)
  BY <1>3 DEF FileLaid
<1> QED
  BY <1>1, <1>2, <1>3

(* The initial state. *)
LEMMA FileInitInv == FileInit => FileInv
<1> SUFFICES ASSUME FileInit PROVE FileInv
  OBVIOUS
<1>1. /\ log_file = <<>> /\ buffered = <<>> /\ next_lsn = 1 /\ up = TRUE /\ flushing = FALSE
      /\ run = 1 /\ given = <<>> /\ stored = 0 /\ torn = "no"
  BY DEF FileInit
<1>3. <<>> \in Seq(Records) /\ Len(<<>>) = 0 /\ <<>> \in Seq(Nat) /\ 0 \in 0 .. 0
  OBVIOUS
<1>2. FileTypeOK
  <2>1. log_file \in Seq(Nat) /\ buffered \in Seq(Nat) /\ given \in Seq(Records)
    BY ONLY <1>1, <1>3
  <2>2. stored \in 0 .. Len(given)
    BY ONLY <1>1, <1>3
  <2>3. next_lsn \in Nat /\ up \in BOOLEAN /\ flushing \in BOOLEAN /\ run \in Nat
        /\ torn \in {"no", "tail", "over"}
    BY ONLY <1>1
  <2> QED
    BY ONLY <2>1, <2>2, <2>3 DEF FileTypeOK
<1>4. BufferLaid(<<>>, <<>>, 0)
  BY <1>3, EmptyBuffer
<1>5. FileLaid(<<>>, <<>>, 0, "no")
  <2>1. PICK pos : Lays(<<>>, <<>>, 0, 0, pos) /\ pos[0] = 0
    BY <1>3, <1>4 DEF BufferLaid
  <2>2. ~Whole(<<>>, pos[0])
    BY <1>3, <2>1, NothingBehind
  <2> QED
    BY <1>3, <2>1, <2>2 DEF FileLaid
<1> QED
  BY <1>1, <1>2, <1>4, <1>5 DEF FileInv

(* AppendLogRecord with a record as LogDataChange and WriteTxnControlLog   *)
(* make it.                                                                *)
LEMMA AppendKeepsInv ==
    ASSUME FileInv, NEW tx \in TxIds, NEW type, NEW data, NEW payload,
           AppendLogRecord(tx, type, data, payload), flushing' \in BOOLEAN,
           [lsn |-> next_lsn, tx |-> tx, type |-> type, data |-> data] \in Records,
           payload = PayloadOf([lsn |-> next_lsn, tx |-> tx, type |-> type, data |-> data])
    PROVE  FileInv'
<1> DEFINE rec == [lsn |-> next_lsn, tx |-> tx, type |-> type, data |-> data]
           w == CellsOf(rec)
           full == Len(buffered) + Len(w) > Capacity
<1>1. rec \in Records
  OBVIOUS
<1>2. Cells(next_lsn, tx, type, payload) = w
  BY DEF CellsOf
<1>3. /\ next_lsn' = next_lsn + 1
      /\ IF full THEN DiskWrite(buffered) ELSE UNCHANGED <<log_file, torn>>
      /\ buffered' = IF full THEN w ELSE buffered \o w
      /\ given' = Append(given, rec)
      /\ stored' = IF full THEN Len(given) ELSE stored
      /\ UNCHANGED <<up, run>>
  BY <1>2 DEF AppendLogRecord
<1> HIDE DEF rec, full
<1>4. w \in Seq(Nat)
  BY <1>1, CellsOfRecord
<1> HIDE DEF w
<1>5. /\ log_file \in Seq(Nat) /\ buffered \in Seq(Nat) /\ next_lsn \in Nat
      /\ given \in Seq(Records) /\ stored \in 0 .. Len(given) /\ torn \in {"no", "tail", "over"}
      /\ up \in BOOLEAN /\ run \in Nat
  BY DEF FileInv, FileTypeOK
<1>6. BufferLaid(buffered, given, stored) /\ FileLaid(log_file, given, stored, torn)
  BY DEF FileInv
<1>7. /\ given' \in Seq(Records) /\ Len(given') = Len(given) + 1 /\ Len(given) \in Nat
  BY <1>1, <1>3, <1>5, AppendFacts
<1>8. CASE full
  <2>1. /\ log_file' = log_file \o buffered
        /\ torn' = IF torn = "tail" /\ buffered # <<>> THEN "over" ELSE torn
        /\ buffered' = w /\ stored' = Len(given)
    BY <1>3, <1>8 DEF DiskWrite
  <2>2. FileLaid(log_file', given, Len(given), torn')
    BY <1>5, <1>6, <2>1, WriteLays
  <2>3. FileLaid(log_file', given', stored', torn')
    <3>1. Len(given) \in 0 .. Len(given)
      BY <1>7
    <3> QED
      BY <1>1, <1>3, <1>5, <2>1, <2>2, <3>1, FileKeepsRecords
  <2>4. BufferLaid(buffered', given', stored')
    BY <1>1, <1>3, <1>5, <2>1, BufferBegins DEF w
  <2>5. FileTypeOK'
    <3>1. log_file' \in Seq(Nat) /\ torn' \in {"no", "tail", "over"}
      BY <1>5, <2>1
    <3>2. stored' \in 0 .. Len(given')
      BY <1>7, <2>1
    <3> QED
      BY <1>3, <1>4, <1>5, <1>7, <2>1, <3>1, <3>2 DEF FileTypeOK
  <2> QED
    BY <2>3, <2>4, <2>5 DEF FileInv
<1>9. CASE ~full
  <2>1. log_file' = log_file /\ torn' = torn /\ buffered' = buffered \o w /\ stored' = stored
    BY <1>3, <1>9
  <2>2. FileLaid(log_file', given', stored', torn')
    BY <1>1, <1>3, <1>5, <1>6, <2>1, FileKeepsRecords
  <2>3. BufferLaid(buffered', given', stored')
    BY <1>1, <1>3, <1>5, <1>6, <2>1, BufferTakesRecord DEF w
  <2>4. FileTypeOK'
    <3>1. buffered' \in Seq(Nat)
      BY <1>4, <1>5, <2>1
    <3>2. stored' \in 0 .. Len(given')
      BY <1>5, <1>7, <2>1
    <3> QED
      BY <1>3, <1>5, <1>7, <2>1, <3>1, <3>2 DEF FileTypeOK
  <2> QED
    BY <2>2, <2>3, <2>4 DEF FileInv
<1> QED
  BY <1>8, <1>9

(* Flush and the destructor. *)
LEMMA FlushKeepsInv ==
    ASSUME FileInv, FlushBuffer, UNCHANGED <<next_lsn, run, given>>,
           up' \in BOOLEAN, flushing' \in BOOLEAN
    PROVE  FileInv'
<1>1. /\ log_file' = log_file \o buffered
      /\ torn' = IF torn = "tail" /\ buffered # <<>> THEN "over" ELSE torn
      /\ buffered' = <<>> /\ stored' = Len(given) /\ given' = given
      /\ next_lsn' = next_lsn /\ run' = run
  BY DEF FlushBuffer, DiskWrite
<1>2. /\ log_file \in Seq(Nat) /\ buffered \in Seq(Nat) /\ next_lsn \in Nat
      /\ given \in Seq(Records) /\ stored \in 0 .. Len(given) /\ torn \in {"no", "tail", "over"}
      /\ run \in Nat
  BY DEF FileInv, FileTypeOK
<1>3. FileLaid(log_file', given', stored', torn')
  <2>1. BufferLaid(buffered, given, stored) /\ FileLaid(log_file, given, stored, torn)
    BY DEF FileInv
  <2> QED
    BY <1>1, <1>2, <2>1, WriteLays
<1>4. BufferLaid(buffered', given', stored')
  BY <1>1, <1>2, EmptyBuffer
<1>5. FileTypeOK'
  <2>1. log_file' \in Seq(Nat) /\ torn' \in {"no", "tail", "over"} /\ buffered' \in Seq(Nat)
    BY <1>1, <1>2
  <2>2. stored' \in 0 .. Len(given')
    BY <1>1, <1>2
  <2> QED
    BY <1>1, <1>2, <2>1, <2>2 DEF FileTypeOK
<1> QED
  BY <1>3, <1>4, <1>5 DEF FileInv

-----------------------------------------------------------------------------
(* A crash. *)

(* BufferedUpTo counts the cells of the first records in the buffer. *)
LEMMA CountsCells ==
    ASSUME FileTypeOK, NEW pos, Lays(buffered, given, stored, Len(given), pos),
           NEW k \in 0 .. Len(given) - stored
    PROVE  BufferedUpTo(k) = pos[stored + k]
<1> DEFINE step(i) == Len(Cells(0, 0, 0, IF given[stored + i].type \in DataTypes
                                         THEN Encode(given[stored + i].data) ELSE <<>>))
           size[i \in 0 .. k] == IF i = 0 THEN 0 ELSE size[i - 1] + step(i)
<1>0. /\ stored \in Nat /\ Len(given) \in Nat /\ stored <= Len(given) /\ given \in Seq(Records)
      /\ k \in Nat /\ k <= Len(given) - stored /\ buffered \in Seq(Nat) /\ Len(buffered) \in Nat
  BY DEF FileTypeOK
<1>1. ASSUME NEW i \in 1 .. k PROVE /\ stored + i \in 1 .. Len(given)
                                    /\ step(i) = Len(CellsOf(given[stored + i]))
  <2>1. stored + i \in 1 .. Len(given)
    BY <1>0
  <2> DEFINE rec == given[stored + i]
             q == PayloadOf(rec)
  <2>2. rec \in Records
    BY <1>0, <2>1
  <2>3. q \in Seq(Nat) /\ Len(CellsOf(rec)) = 4 + Len(q)
    BY <2>2, CellsOfRecord
  <2>4. step(i) = Len(Cells(0, 0, 0, q))
    BY DEF PayloadOf
  <2> HIDE DEF q
  <2>5. Len(Cells(0, 0, 0, q)) = 4 + Len(q)
    <3>1. Len(q) \in Nat
      BY <2>3
    <3>2. <<0, 0, 0, Len(q)>> \in Seq(Nat) /\ Len(<<0, 0, 0, Len(q)>>) = 4
      BY <3>1
    <3> QED
      BY <2>3, <3>2, ConcatProperties DEF Cells
  <2> QED
    BY <2>1, <2>3, <2>4, <2>5
<1>2. BufferedUpTo(k) = size[k]
  BY DEF BufferedUpTo
<1> HIDE DEF size
<1>3. size = CHOOSE f : f = [i \in 0 .. k |-> IF i = 0 THEN 0 ELSE f[i - 1] + step(i)]
  BY DEF size
<1> HIDE DEF step
<1>4. pos[stored] = 0 /\ \A i \in 1 .. k : pos[stored + i] = pos[stored + (i - 1)] + step(i)
  <2>1. pos[stored] = 0
    BY DEF Lays
  <2>2. ASSUME NEW i \in 1 .. k PROVE pos[stored + i] = pos[stored + (i - 1)] + step(i)
    <3>1. stored + (i - 1) \in stored .. Len(given) - 1 /\ stored + (i - 1) + 1 = stored + i
      BY <1>0
    <3>2. pos[stored + i] = pos[stored + (i - 1)] + Len(CellsOf(given[stored + i]))
      BY <3>1 DEF Lays
    <3> QED
      BY <1>1, <3>2
  <2> QED
    BY <2>1, <2>2
<1> DEFINE g == [i \in 0 .. k |-> pos[stored + i]]
<1>5. g = [i \in 0 .. k |-> IF i = 0 THEN 0 ELSE g[i - 1] + step(i)]
  <2>1. \A i \in 0 .. k : pos[stored + i] = IF i = 0 THEN 0 ELSE g[i - 1] + step(i)
    <3> SUFFICES ASSUME NEW i \in 0 .. k
                 PROVE  pos[stored + i] = IF i = 0 THEN 0 ELSE g[i - 1] + step(i)
      OBVIOUS
    <3>1. CASE i = 0
      BY <1>0, <1>4, <3>1
    <3>2. CASE i # 0
      <4>1. i \in 1 .. k /\ i - 1 \in 0 .. k
        BY <1>0, <3>2
      <4>2. g[i - 1] = pos[stored + (i - 1)]
        BY <4>1
      <4> QED
        BY <1>4, <3>2, <4>1, <4>2
    <3> QED
      BY <3>1, <3>2
  <2>2. g = [i \in 0 .. k |-> pos[stored + i]]
    OBVIOUS
  <2> HIDE DEF g
  <2> QED
    BY <2>1, <2>2
<1>6. size = [i \in 0 .. k |-> IF i = 0 THEN 0 ELSE size[i - 1] + step(i)]
  <2> HIDE DEF g
  <2> QED
    BY <1>3, <1>5
<1>7. \A i \in 0 .. k : size[i] = IF i = 0 THEN 0 ELSE size[i - 1] + step(i)
  BY <1>6
<1> DEFINE Bad == {i \in Nat : i <= k /\ size[i] # pos[stored + i]}
<1> SUFFICES ASSUME Bad # {} PROVE FALSE
  <2>1. k \in Nat /\ k <= k
    BY <1>0
  <2>2. k \notin Bad => size[k] = pos[stored + k]
    BY <2>1
  <2> QED
    BY <1>2, <2>2
<1>8. PICK m \in Bad : \A j \in Bad : m <= j
  <2>1. Bad \subseteq Nat
    OBVIOUS
  <2> HIDE DEF Bad
  <2> QED
    BY <2>1, LeastOf
<1>9. m \in Nat /\ m <= k /\ size[m] # pos[stored + m]
  OBVIOUS
<1>10. m # 0
  <2>1. size[0] = 0 /\ stored + 0 = stored
    BY <1>0, <1>7
  <2> QED
    BY <1>4, <1>9, <2>1
<1>11. m \in 1 .. k /\ m \in 0 .. k /\ m - 1 \in Nat /\ m - 1 <= k /\ ~(m <= m - 1)
  BY <1>0, <1>9, <1>10
<1>12. size[m - 1] = pos[stored + (m - 1)]
  <2>1. m - 1 \notin Bad
    <3> HIDE DEF Bad
    <3> QED
      BY <1>8, <1>11
  <2> QED
    BY <1>11, <2>1
<1> QED
  BY <1>4, <1>7, <1>9, <1>10, <1>11, <1>12

(* The records a write of the first n cells has brought to the file, and   *)
(* the one it has torn.                                                    *)
KeptBy(n, k) ==
    /\ BufferedUpTo(k) <= n
    /\ k < Len(given) - stored => n < BufferedUpTo(k + 1)

LEMMA SomeAreKept ==
    ASSUME FileTypeOK, NEW pos, Lays(buffered, given, stored, Len(given), pos),
           NEW n \in 0 .. Len(buffered)
    PROVE  \E k \in 0 .. Len(given) - stored : KeptBy(n, k)
<1> DEFINE top == Len(given) - stored
           S == {k \in Nat : k <= top /\ (k < top => n < BufferedUpTo(k + 1))}
<1>0. stored \in Nat /\ Len(given) \in Nat /\ stored <= Len(given) /\ top \in Nat /\ n \in Nat
  BY DEF FileTypeOK
<1>1. \A k \in 0 .. top : BufferedUpTo(k) = pos[stored + k] /\ BufferedUpTo(k) \in Nat
  <2> SUFFICES ASSUME NEW k \in 0 .. top
               PROVE  BufferedUpTo(k) = pos[stored + k] /\ pos[stored + k] \in Nat
    OBVIOUS
  <2>1. BufferedUpTo(k) = pos[stored + k]
    BY CountsCells
  <2>2. stored + k \in stored .. Len(given)
    BY <1>0
  <2>3. pos[stored + k] \in 0 .. Len(buffered)
    BY <2>2 DEF Lays
  <2> QED
    BY <2>1, <2>3
<1>2. pos[stored] = 0
  BY DEF Lays
<1> HIDE DEF top
<1>3. top \in S
  BY <1>0
<1>4. PICK m \in S : \A k \in S : m <= k
  <2>1. S \subseteq Nat /\ S # {}
    BY <1>3
  <2> HIDE DEF S
  <2> QED
    BY <2>1, LeastOf
<1>5. m \in Nat /\ m <= top /\ (m < top => n < BufferedUpTo(m + 1))
  OBVIOUS
<1>6. BufferedUpTo(m) <= n
  <2>1. CASE m = 0
    <3>1. BufferedUpTo(0) = 0
      <4>1. 0 \in 0 .. top /\ stored + 0 = stored
        BY <1>0
      <4> QED
        BY <1>1, <1>2, <4>1
    <3> QED
      BY <1>0, <2>1, <3>1
  <2>2. CASE m # 0
    <3>1. m - 1 \in Nat /\ m - 1 <= top /\ m - 1 < top /\ ~(m <= m - 1) /\ (m - 1) + 1 = m
          /\ m \in 0 .. top
      BY <1>0, <1>5, <2>2
    <3>2. m - 1 \notin S
      <4> HIDE DEF S
      <4> QED
        BY <1>4, <3>1
    <3>3. ~(n < BufferedUpTo(m))
      BY <3>1, <3>2
    <3>4. BufferedUpTo(m) \in Nat
      BY <1>1, <3>1
    <3> QED
      BY <1>0, <3>3, <3>4
  <2> QED
    BY <2>1, <2>2
<1>7. m \in 0 .. top
  BY <1>0, <1>5
<1> QED
  BY <1>5, <1>6, <1>7 DEF KeptBy, top

(* The file after a crash: the whole records of the first n cells, and     *)
(* behind them nothing or a torn record.                                   *)
LEMMA CrashLays ==
    ASSUME FileTypeOK, torn = "no", NEW pos, Lays(buffered, given, stored, Len(given), pos),
           pos[Len(given)] = Len(buffered), FileLaid(log_file, given, stored, "no"),
           NEW n \in 0 .. Len(buffered), NEW k \in 0 .. Len(given) - stored, KeptBy(n, k)
    PROVE  FileLaid(log_file \o SubSeq(buffered, 1, n), given, stored + k,
                    IF n = BufferedUpTo(k) THEN "no" ELSE "tail")
<1> DEFINE b == SubSeq(buffered, 1, n)
           hi == stored + k
           disk == log_file \o b
<1>0. /\ stored \in Nat /\ Len(given) \in Nat /\ stored <= Len(given) /\ given \in Seq(Records)
      /\ k \in Nat /\ buffered \in Seq(Nat) /\ Len(buffered) \in Nat /\ log_file \in Seq(Nat)
      /\ Len(log_file) \in Nat /\ n \in Nat /\ n <= Len(buffered)
  BY DEF FileTypeOK
<1>1. b \in Seq(Nat) /\ Len(b) = n /\ \A x \in 1 .. n : b[x] = buffered[x]
  BY <1>0
<1> HIDE DEF b
<1>2. disk \in Seq(Nat) /\ Len(disk) = Len(log_file) + n /\ Len(disk) \in Nat
      /\ \A x \in 1 .. n : disk[Len(log_file) + x] = b[x]
  <2>1. /\ disk \in Seq(Nat) /\ Len(disk) = Len(log_file) + Len(b)
        /\ \A i \in 1 .. Len(log_file) + Len(b) :
              disk[i] = IF i <= Len(log_file) THEN log_file[i] ELSE b[i - Len(log_file)]
    BY ONLY <1>0, <1>1, ConcatProperties
  <2>2. ASSUME NEW x \in 1 .. n PROVE disk[Len(log_file) + x] = b[x]
    <3> HIDE DEF disk
    <3>1. Len(log_file) + x \in 1 .. Len(log_file) + Len(b) /\ ~(Len(log_file) + x <= Len(log_file))
          /\ (Len(log_file) + x) - Len(log_file) = x
      <4>1. Len(log_file) \in Nat /\ Len(b) \in Nat /\ x \in 1 .. Len(b)
        BY ONLY <1>0, <1>1, <2>2
      <4> QED
        BY ONLY <4>1
    <3> QED
      BY ONLY <2>1, <3>1
  <2> QED
    BY <1>0, <1>1, <2>1, <2>2
<1>3. hi \in Nat /\ stored <= hi /\ hi <= Len(given) /\ hi \in stored .. Len(given)
  BY <1>0
<1>4. BufferedUpTo(k) = pos[hi] /\ pos[hi] <= n /\ pos[hi] \in Nat
  <2>1. BufferedUpTo(k) = pos[hi]
    BY CountsCells
  <2>2. pos[hi] \in 0 .. Len(buffered)
    BY <1>3 DEF Lays
  <2> QED
    BY <2>1, <2>2 DEF KeptBy
<1> HIDE DEF hi, disk
<1>5. Lays(b, given, stored, hi, pos)
  <2>1. Len(given) \in Nat /\ Len(given) <= Len(given)
    BY <1>0
  <2> QED
    BY <1>0, <1>3, <1>4, <2>1, LaysCut DEF b
<1>6. PICK p0 : Lays(log_file, given, 0, stored, p0) /\ p0[stored] = Len(log_file)
  BY DEF FileLaid
<1>7. PICK p : Lays(disk, given, 0, hi, p) /\ p[hi] = Len(log_file) + pos[hi]
  <2>1. 0 \in Nat /\ 0 <= stored
    BY <1>0
  <2> QED
    BY ONLY <1>0, <1>1, <1>3, <1>5, <1>6, <2>1, LaysJoin DEF disk
<1>8. CASE n = pos[hi]
  <2>1. p[hi] = Len(disk)
    BY <1>2, <1>7, <1>8
  <2>2. ~Whole(disk, p[hi])
    BY <1>2, <2>1, NothingBehind
  <2>3. FileLaid(disk, given, hi, "no")
    BY <1>7, <2>1, <2>2 DEF FileLaid
  <2> QED
    BY <1>4, <1>8, <2>3 DEF disk, b, hi
<1>9. CASE n # pos[hi]
  <2>1. hi < Len(given)
    BY <1>0, <1>3, <1>4, <1>9
  <2> DEFINE w == CellsOf(given[hi + 1])
             q == PayloadOf(given[hi + 1])
  <2>2. n < pos[hi + 1]
    <3>1. k < Len(given) - stored /\ k + 1 \in 0 .. Len(given) - stored /\ stored + (k + 1) = hi + 1
      BY <1>0, <2>1 DEF hi
    <3>2. BufferedUpTo(k + 1) = pos[hi + 1]
      BY <3>1, CountsCells
    <3> QED
      BY <3>1, <3>2 DEF KeptBy
  <2>3. pos[hi + 1] = pos[hi] + Len(w) /\ \A j \in 1 .. Len(w) : buffered[pos[hi] + j] = w[j]
    <3>1. hi \in stored .. Len(given) - 1
      BY <1>0, <1>3, <2>1
    <3> QED
      BY <3>1 DEF Lays
  <2>4. Len(w) = 4 + Len(q) /\ w[4] = Len(q) /\ Len(q) \in Nat
    <3>1. hi + 1 \in 1 .. Len(given)
      BY <1>0, <1>3, <2>1
    <3>2. given[hi + 1] \in Records
      BY <1>0, <3>1
    <3>3. q \in Seq(Nat)
      BY <3>2, CellsOfRecord
    <3>4. Len(q) \in Nat
      BY <3>3
    <3> QED
      BY <3>2, <3>4, CellsOfRecord
  <2> HIDE DEF w, q
  <2>5. ~Whole(disk, p[hi])
    <3> SUFFICES ASSUME Whole(disk, p[hi]) PROVE FALSE
      OBVIOUS
    <3>1. p[hi] + 4 <= Len(disk) /\ p[hi] + 4 + disk[p[hi] + 4] <= Len(disk)
      BY DEF Whole, After, HeaderSize
    <3>2. pos[hi] + 4 \in 1 .. n /\ p[hi] + 4 = Len(log_file) + (pos[hi] + 4)
      <4>1. /\ Len(log_file) \in Nat /\ n \in Nat /\ pos[hi] \in Nat
            /\ p[hi] = Len(log_file) + pos[hi] /\ Len(disk) = Len(log_file) + n
        BY <1>0, <1>2, <1>4, <1>7
      <4> QED
        BY ONLY <3>1, <4>1
    <3>3. disk[p[hi] + 4] = buffered[pos[hi] + 4]
      <4> DEFINE x == pos[hi] + 4
      <4>1. x \in 1 .. n /\ p[hi] + 4 = Len(log_file) + x
        BY <3>2
      <4> HIDE DEF x
      <4>2. disk[Len(log_file) + x] = b[x] /\ b[x] = buffered[x]
        BY ONLY <1>1, <1>2, <4>1
      <4>3. disk[p[hi] + 4] = buffered[x]
        BY ONLY <4>1, <4>2
      <4> QED
        BY <4>3 DEF x
    <3>4. 4 \in 1 .. Len(w)
      BY <2>4
    <3>5. disk[p[hi] + 4] = Len(q)
      BY <2>3, <2>4, <3>3, <3>4
    <3> QED
      <4>1. /\ Len(log_file) \in Nat /\ n \in Nat /\ pos[hi] \in Nat
            /\ p[hi] = Len(log_file) + pos[hi] /\ Len(disk) = Len(log_file) + n
            /\ n < pos[hi + 1] /\ pos[hi + 1] = pos[hi] + (4 + Len(q))
        BY <1>0, <1>2, <1>4, <1>7, <2>2, <2>3, <2>4
      <4> QED
        BY ONLY <2>4, <3>1, <3>5, <4>1
  <2>6. FileLaid(disk, given, hi, "tail")
    BY <1>7, <2>5 DEF FileLaid
  <2> QED
    BY <1>4, <1>9, <2>6 DEF disk, b, hi
<1> QED
  BY <1>8, <1>9

(* Nothing was written: no record got to the file. *)
LEMMA NothingKept ==
    ASSUME FileTypeOK, NEW pos, Lays(buffered, given, stored, Len(given), pos),
           NEW k \in 0 .. Len(given) - stored, KeptBy(0, k)
    PROVE  k = 0
<1>0. /\ stored \in Nat /\ Len(given) \in Nat /\ stored <= Len(given) /\ given \in Seq(Records)
      /\ k \in Nat /\ buffered \in Seq(Nat) /\ Len(buffered) \in Nat
  BY DEF FileTypeOK
<1> DEFINE hi == stored + k
<1>1. hi \in stored .. Len(given) /\ stored \in stored .. hi
  BY <1>0
<1>2. BufferedUpTo(k) = pos[hi]
  BY CountsCells
<1>3. pos[hi] <= 0 /\ pos[stored] = 0 /\ pos[hi] \in 0 .. Len(buffered)
  <2> HIDE DEF hi
  <2> QED
    BY <1>1, <1>2 DEF KeptBy, Lays
<1>4. hi - stored = k
  BY <1>0
<1> HIDE DEF hi
<1>5. pos[stored] + (hi - stored) <= pos[hi]
  <2> DEFINE top == Len(given)
  <2>1. top \in Nat /\ top <= Len(given) /\ Lays(buffered, given, stored, top, pos) /\ hi \in stored .. top
    BY <1>0, <1>1
  <2> HIDE DEF top
  <2>2. \A i \in stored .. hi : pos[i] + (hi - i) <= pos[hi]
    BY <1>0, <2>1, LaysGrow
  <2> QED
    BY <1>1, <2>2
<1> QED
  BY <1>0, <1>3, <1>4, <1>5

LEMMA CrashKeepsInv ==
    ASSUME FileInv, NEW n \in 0 .. Len(buffered), Crash(n)
    PROVE  FileInv'
<1> DEFINE kept == CHOOSE k \in 0 .. (Len(given) - stored) : KeptBy(n, k)
<1>0. FileTypeOK /\ FileLaid(log_file, given, stored, torn)
  BY DEF FileInv
<1>1. PICK pos : Lays(buffered, given, stored, Len(given), pos) /\ pos[Len(given)] = Len(buffered)
  BY DEF FileInv, BufferLaid
<1>2. kept \in 0 .. Len(given) - stored /\ KeptBy(n, kept)
  <2>1. \E k \in 0 .. (Len(given) - stored) : KeptBy(n, k)
    BY <1>0, <1>1, SomeAreKept
  <2> QED
    BY <2>1
<1>3. /\ log_file' = log_file \o SubSeq(buffered, 1, n)
      /\ torn' = CASE n = 0 -> torn
                   [] n > 0 /\ torn = "no" -> IF n = BufferedUpTo(kept) THEN "no" ELSE "tail"
                   [] n > 0 /\ torn # "no" -> "over"
      /\ given' = SubSeq(given, 1, stored + kept)
      /\ stored' = stored + kept
      /\ buffered' = <<>>
      /\ up' = FALSE /\ flushing' = FALSE
      /\ next_lsn' = next_lsn /\ run' = run
  BY DEF Crash, KeptBy
<1> HIDE DEF kept
<1>4. /\ log_file \in Seq(Nat) /\ buffered \in Seq(Nat) /\ next_lsn \in Nat /\ run \in Nat
      /\ given \in Seq(Records) /\ stored \in Nat /\ Len(given) \in Nat /\ stored <= Len(given)
      /\ torn \in {"no", "tail", "over"} /\ Len(buffered) \in Nat /\ n \in Nat
  BY <1>0 DEF FileTypeOK
<1> DEFINE hi == stored + kept
<1>5. hi \in Nat /\ hi <= Len(given) /\ hi \in 0 .. Len(given)
  BY <1>2, <1>4
<1>6. /\ given' \in Seq(Records) /\ Len(given') = hi /\ \A i \in 1 .. hi : given'[i] = given[i]
      /\ stored' = hi
  <2> HIDE DEF hi
  <2>1. given' = SubSeq(given, 1, hi) /\ stored' = hi
    BY <1>3 DEF hi
  <2>2. \A i \in 1 .. hi : given[i] \in Records
    BY <1>4, <1>5
  <2> DEFINE s == SubSeq(given, 1, hi)
  <2>3. /\ s \in Seq(Records) /\ Len(s) = (IF 1 <= hi THEN hi - 1 + 1 ELSE 0)
        /\ \A i \in 1 .. hi - 1 + 1 : s[i] = given[1 + i - 1]
    BY ONLY <1>5, <2>2, SubSeqProperties
  <2> HIDE DEF s
  <2>4. Len(s) = hi /\ \A i \in 1 .. hi : s[i] = given[i]
    BY ONLY <1>5, <2>3
  <2> QED
    BY <2>1, <2>3, <2>4 DEF s
<1>7. torn' \in {"no", "tail", "over"}
  <2>1. CASE n = 0
    BY <1>3, <1>4, <2>1
  <2>2. CASE n > 0 /\ torn = "no"
    <3>1. torn' = IF n = BufferedUpTo(kept) THEN "no" ELSE "tail"
      BY <1>3, <2>2
    <3> QED
      BY <3>1
  <2>3. CASE n > 0 /\ torn # "no"
    <3>1. torn' = "over"
      BY <1>3, <2>3
    <3> QED
      BY <3>1
  <2> QED
    BY <1>4, <2>1, <2>2, <2>3
<1>8. FileTypeOK'
  <2>1. log_file' \in Seq(Nat)
    <3>1. SubSeq(buffered, 1, n) \in Seq(Nat)
      BY <1>4
    <3> QED
      BY <1>3, <1>4, <3>1
  <2>2. buffered' \in Seq(Nat)
    BY <1>3
  <2>3. stored' \in 0 .. Len(given')
    BY <1>5, <1>6
  <2>4. next_lsn' \in Nat /\ up' \in BOOLEAN /\ flushing' \in BOOLEAN /\ run' \in Nat
    BY <1>3, <1>4
  <2> QED
    BY <1>6, <1>7, <2>1, <2>2, <2>3, <2>4 DEF FileTypeOK
<1>9. BufferLaid(buffered', given', stored')
  <2>1. buffered' = <<>> /\ stored' = Len(given')
    BY <1>3, <1>6
  <2> QED
    BY <1>6, <2>1, EmptyBuffer
<1>10. FileLaid(log_file', given, hi, torn')
  <2>1. CASE n = 0
    <3>1. kept = 0
      BY <1>0, <1>1, <1>2, <2>1, NothingKept
    <3>2. SubSeq(buffered, 1, n) = <<>>
      BY <2>1
    <3>3. log_file' = log_file /\ torn' = torn /\ hi = stored
      BY <1>3, <1>4, <2>1, <3>1, <3>2
    <3> QED
      BY <1>0, <3>3
  <2>2. CASE n > 0 /\ torn = "no"
    <3>1. torn' = IF n = BufferedUpTo(kept) THEN "no" ELSE "tail"
      BY <1>3, <2>2
    <3> QED
      BY <1>0, <1>1, <1>2, <1>3, <2>2, <3>1, CrashLays
  <2>3. CASE n > 0 /\ torn # "no"
    <3>1. torn' = "over"
      BY <1>3, <2>3
    <3> QED
      BY <3>1 DEF FileLaid
  <2> QED
    BY <1>4, <2>1, <2>2, <2>3
<1>11. FileLaid(log_file', given', stored', torn')
  <2> HIDE DEF hi
  <2> SUFFICES ASSUME torn' # "over" PROVE FileLaid(log_file', given', hi, torn')
    BY <1>6 DEF FileLaid
  <2>1. PICK p : /\ Lays(log_file', given, 0, hi, p) /\ ~Whole(log_file', p[hi])
                 /\ torn' = "no" => p[hi] = Len(log_file')
    BY <1>10 DEF FileLaid
  <2>2. 0 \in Nat /\ \A i \in 0 + 1 .. hi : given'[i] = given[i]
    BY <1>6
  <2>3. Lays(log_file', given', 0, hi, p)
    BY ONLY <1>5, <2>1, <2>2, LaysAgree
  <2> QED
    BY <2>1, <2>3 DEF FileLaid
<1> QED
  BY <1>8, <1>9, <1>11 DEF FileInv

-----------------------------------------------------------------------------
(* Every step keeps the invariant. *)
LEMMA FileNextInv == FileInv /\ [FileNext]_fileVars => FileInv'
<1> SUFFICES ASSUME FileInv, [FileNext]_fileVars PROVE FileInv'
  OBVIOUS
<1>0. /\ log_file \in Seq(Nat) /\ next_lsn \in Nat /\ up \in BOOLEAN /\ flushing \in BOOLEAN
      /\ run \in Nat /\ FileTypeOK
  BY DEF FileInv, FileTypeOK
<1>1. ASSUME NEW tx \in TxIds, NEW type \in DataTypes, NEW p \in Inserts \union Deletes,
             LogDataChange(tx, type, p)
      PROVE  FileInv'
  <2> DEFINE rec == [lsn |-> next_lsn, tx |-> tx, type |-> type, data |-> p]
  <2>1. rec.lsn = next_lsn /\ rec.tx = tx /\ rec.type = type /\ rec.data = p
    OBVIOUS
  <2>2. p \in Payload
    BY PayloadAssumption
  <2>3. rec \in Records
    BY <1>0, <2>2 DEF Records
  <2> HIDE DEF rec
  <2>4. Encode(p) = PayloadOf(rec)
    BY <2>1 DEF PayloadOf
  <2>5. AppendLogRecord(tx, type, p, Encode(p)) /\ flushing' = flushing
    BY <1>1 DEF LogDataChange
  <2> QED
    BY <1>0, <2>3, <2>4, <2>5, AppendKeepsInv DEF rec
<1>2. ASSUME NEW tx \in TxIds, NEW type \in {COMMIT, ABORT}, WriteTxnControlLog(tx, type)
      PROVE  FileInv'
  <2> DEFINE rec == [lsn |-> next_lsn, tx |-> tx, type |-> type, data |-> NoData]
  <2>1. rec.lsn = next_lsn /\ rec.tx = tx /\ rec.type = type /\ rec.data = NoData
    OBVIOUS
  <2>2. NoData \in Payload
    <3>1. <<>> \in Seq(Nat)
      OBVIOUS
    <3> QED
      BY <3>1 DEF NoData, Payload
  <2>3. type \notin DataTypes
    BY DEF COMMIT, ABORT, DataTypes, INSERT_ROW, DELETE_ROW
  <2>4. rec \in Records
    BY <1>0, <2>2 DEF Records
  <2> HIDE DEF rec
  <2>5. <<>> = PayloadOf(rec)
    BY <2>1, <2>3 DEF PayloadOf
  <2>6. AppendLogRecord(tx, type, NoData, <<>>) /\ flushing' = TRUE
    BY <1>2 DEF WriteTxnControlLog
  <2> QED
    BY <2>4, <2>5, <2>6, AppendKeepsInv DEF rec
<1>3. ASSUME NEW p \in Inserts, WriteTooLarge(p) PROVE FileInv'
  <2>1. next_lsn' \in Nat
    BY <1>0, <1>3 DEF WriteTooLarge
  <2> QED
    BY <1>3, <2>1 DEF WriteTooLarge, FileInv, FileTypeOK
<1>4. CASE Flush
  BY <1>0, <1>4, FlushKeepsInv DEF Flush
<1>5. CASE Exit
  BY <1>0, <1>5, FlushKeepsInv DEF Exit
<1>6. ASSUME NEW n \in 0 .. Len(buffered), Crash(n) PROVE FileInv'
  BY <1>6, CrashKeepsInv
<1>7. CASE Restart
  <2>1. next_lsn' \in Nat /\ run' \in Nat /\ up' \in BOOLEAN
    BY <1>0, <1>7 DEF Restart
  <2> QED
    BY <1>7, <2>1 DEF Restart, Open, FileInv, FileTypeOK
<1>8. CASE UNCHANGED fileVars
  BY <1>8 DEF fileVars, FileInv, FileTypeOK
<1>9. INSERT_ROW \in DataTypes /\ DELETE_ROW \in DataTypes
  BY DEF DataTypes
<1> QED
  BY <1>1, <1>2, <1>3, <1>4, <1>5, <1>6, <1>7, <1>8, <1>9 DEF FileNext, Ended

(* The layout of the file and of the buffer is kept by every step. *)
THEOREM FileInvariance == FileSpec => []FileInv
<1> QED
  BY FileInitInv, FileNextInv, PTL DEF FileSpec

(* Decode and ReadLog give back the records a layout holds. *)
LEMMA InvReadsWhole == FileInv => ReadsWholeRecords
<1> SUFFICES ASSUME FileInv, torn # "over"
             PROVE  Decoded(ReadLog(log_file)) = SubSeq(given, 1, stored)
  BY DEF ReadsWholeRecords
<1>1. /\ log_file \in Seq(Nat) /\ given \in Seq(Records) /\ stored \in 0 .. Len(given)
      /\ stored \in Nat /\ stored <= Len(given) /\ Len(given) \in Nat
  BY DEF FileInv, FileTypeOK
<1>2. PICK pos : Lays(log_file, given, 0, stored, pos) /\ ~Whole(log_file, pos[stored])
  BY DEF FileInv, FileLaid
<1>3. PICK f : Reads(f, log_file) /\ ReadLog(log_file) = f[0]
  BY <1>1, ReadLogReads
<1> DEFINE log == ReadLog(log_file)
<1>4. log \in Seq(RawRecords) /\ ReturnsFrom(log, given, 0, stored)
  <2>1. 0 \in 0 .. Len(log_file)
    BY <1>1
  <2>2. f[0] \in Seq(RawRecords)
    BY <1>1, <1>3, <2>1, ReadTyped
  <2>3. ReturnsFrom(f[0], given, 0, stored)
    BY <1>1, <1>2, <1>3, ReadsLayout
  <2> QED
    BY <1>3, <2>2, <2>3
<1> HIDE DEF log
<1>5. DOMAIN log = 1 .. stored
  <2>1. Len(log) = stored
    BY <1>1, <1>4 DEF ReturnsFrom
  <2> QED
    BY <1>4, <2>1
<1>6. ASSUME NEW i \in 1 .. stored
      PROVE  /\ given[i] \in Records
             /\ [lsn |-> log[i].lsn, tx |-> log[i].tx, type |-> log[i].type,
                 data |-> IF log[i].type \in DataTypes THEN Decode(log[i].payload) ELSE NoData]
                = given[i]
  <2> DEFINE rec == given[i]
  <2>1. rec \in Records
    BY <1>1
  <2>2. log[i] = RawOf(rec)
    <3>1. i \in 1 .. stored - 0 /\ 0 + i = i
      BY <1>1
    <3> QED
      BY <1>4, <3>1 DEF ReturnsFrom
  <2> HIDE DEF rec
  <2>3. /\ log[i].lsn = rec.lsn /\ log[i].tx = rec.tx /\ log[i].type = rec.type
        /\ log[i].payload = PayloadOf(rec)
    BY <2>2 DEF RawOf
  <2>4. /\ rec = [lsn |-> rec.lsn, tx |-> rec.tx, type |-> rec.type, data |-> rec.data]
        /\ rec.data \in Payload /\ (rec.type \notin DataTypes => rec.data = NoData)
    BY <2>1 DEF Records
  <2>5. rec.type \in DataTypes => Decode(PayloadOf(rec)) = rec.data
    BY <2>4, EncodeDecode DEF PayloadOf
  <2>6. [lsn |-> log[i].lsn, tx |-> log[i].tx, type |-> log[i].type,
         data |-> IF log[i].type \in DataTypes THEN Decode(log[i].payload) ELSE NoData] = rec
    BY <2>3, <2>4, <2>5
  <2> QED
    BY <2>1, <2>6 DEF rec
<1> DEFINE d == Decoded(log)
           s == SubSeq(given, 1, stored)
<1>7. d = [i \in 1 .. stored |-> given[i]]
  BY <1>5, <1>6 DEF Decoded
<1>8. s = [i \in 1 .. stored |-> given[i]]
  <2>1. \A i \in 1 .. stored : given[i] \in Records
    BY <1>6
  <2>2. /\ s \in Seq(Records) /\ Len(s) = (IF 1 <= stored THEN stored - 1 + 1 ELSE 0)
        /\ \A i \in 1 .. stored - 1 + 1 : s[i] = given[1 + i - 1]
    BY ONLY <1>1, <2>1, SubSeqProperties
  <2> HIDE DEF s
  <2>3. Len(s) = stored /\ \A i \in 1 .. stored : s[i] = given[i]
    BY ONLY <1>1, <2>2
  <2>4. s = [i \in 1 .. Len(s) |-> s[i]]
    BY <2>2
  <2> QED
    BY <2>3, <2>4
<1> QED
  BY <1>7, <1>8 DEF log

(***************************************************************************)
(* Wherever the process died in a write, for every size of the buffer and  *)
(* every record: what RecoveryManager::ReadLog and LogDataPayload::Decode  *)
(* make of the file are exactly the records wholly in it, in order.        *)
(***************************************************************************)
THEOREM ReadsWholeRecordsTheorem == FileSpec => []ReadsWholeRecords
<1> QED
  BY FileInvariance, InvReadsWhole, PTL

(* The file only grows, whatever the step. *)
LEMMA FileGrows ==
    ASSUME FileInv, [FileNext]_fileVars
    PROVE  \E cells \in Seq(Nat) : log_file' = log_file \o cells
<1>0. log_file \in Seq(Nat) /\ buffered \in Seq(Nat)
  BY DEF FileInv, FileTypeOK
<1>1. ASSUME log_file' = log_file PROVE \E cells \in Seq(Nat) : log_file' = log_file \o cells
  <2>1. <<>> \in Seq(Nat) /\ log_file \o <<>> = log_file
    BY <1>0
  <2> QED
    BY <1>1, <2>1
<1>2. ASSUME DiskWrite(buffered) PROVE \E cells \in Seq(Nat) : log_file' = log_file \o cells
  BY <1>0, <1>2 DEF DiskWrite
<1>3. ASSUME NEW tx, NEW type, NEW data, NEW payload, AppendLogRecord(tx, type, data, payload)
      PROVE  \E cells \in Seq(Nat) : log_file' = log_file \o cells
  BY <1>1, <1>2, <1>3 DEF AppendLogRecord
<1>4. ASSUME NEW n \in 0 .. Len(buffered), Crash(n)
      PROVE  \E cells \in Seq(Nat) : log_file' = log_file \o cells
  <2>1. SubSeq(buffered, 1, n) \in Seq(Nat)
    BY <1>0
  <2> QED
    BY <1>4, <2>1 DEF Crash
<1>5. CASE \E tx \in TxIds :
              \/ \E p \in Inserts : LogDataChange(tx, INSERT_ROW, p)
              \/ \E p \in Deletes : LogDataChange(tx, DELETE_ROW, p)
              \/ \E type \in {COMMIT, ABORT} : WriteTxnControlLog(tx, type)
  BY <1>3, <1>5 DEF LogDataChange, WriteTxnControlLog
<1>6. CASE Flush \/ Exit
  BY <1>2, <1>6 DEF Flush, Exit, FlushBuffer
<1>7. CASE (\E p \in Inserts : WriteTooLarge(p)) \/ Restart \/ Ended \/ UNCHANGED fileVars
  <2>1. log_file' = log_file
    BY <1>7 DEF WriteTooLarge, Restart, Open, Ended, fileVars
  <2> QED
    BY <1>1, <2>1
<1> QED
  BY <1>4, <1>5, <1>6, <1>7 DEF FileNext

(***************************************************************************)
(* What ReadLog has once returned it returns after every later write,      *)
(* crash and restart, behind a torn record too.                            *)
(***************************************************************************)
THEOREM NeverForgetsTheorem == FileSpec => NeverForgets
<1>1. FileInv /\ [FileNext]_fileVars => [IsPrefix(ReadLog(log_file), ReadLog(log_file'))]_fileVars
  <2> SUFFICES ASSUME FileInv, [FileNext]_fileVars
               PROVE  IsPrefix(ReadLog(log_file), ReadLog(log_file'))
    OBVIOUS
  <2>1. log_file \in Seq(Nat)
    BY DEF FileInv, FileTypeOK
  <2>2. PICK cells \in Seq(Nat) : log_file' = log_file \o cells
    BY FileGrows
  <2> QED
    BY <2>1, <2>2, WritesKeepTheLog
<1> QED
  BY <1>1, FileInvariance, PTL DEF FileSpec, NeverForgets
=============================================================================
