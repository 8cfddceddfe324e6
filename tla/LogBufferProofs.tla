--------------------------- MODULE LogBufferProofs ---------------------------
(***************************************************************************)
(* Proofs about LogBuffer for one client thread, any capacity, any sizes   *)
(* and any number of records: the file is a prefix of what was accepted,   *)
(* Flush forces the log, and every step is one of the abstract log.        *)
(*                                                                         *)
(* One client is what the terminal has.  For two the statements are false: *)
(* a second Write or Flush swaps the buffers under a flush in progress.    *)
(***************************************************************************)
EXTENDS LogBuffer, SequenceTheorems, TLAPS

OneClient == \E c : Clients = {c}

(* Bytes that are handed over and not yet in the file. *)
Pending == IF is_flush /\ backend \in {"wait", "unlocked", "write"} THEN flush_size ELSE 0

(* Client and backend take turns: who waits has left nothing behind. *)
TurnInv ==
    /\ \A c \in Clients :
          /\ is_flush => pc[c] \in {"write_wait", "flush_wait"}
          /\ pc[c] \in {"write_wait", "flush_wait"} => cur_offset = 0
          /\ pc[c] \in {"write", "write_wait"} =>
                record[c].lsn \in 1 .. MaxRecords /\ record[c].size \in Sizes
          /\ pc[c] = "write_wait" => record[c].size <= Capacity
          /\ stop => pc[c] \in {"join", "gone"}
    /\ backend \in {"unlocked", "write", "done"} => is_flush
    /\ backend \in {"unlocked", "write"} => taken.size = flush_size
    /\ backend = "write" => taken.from = 1 - log_index /\ taken.size > 0
    /\ backend = "exited" => stop

(* A pending Flush waits for bytes that have been accepted. *)
GoalInv ==
    \A c \in Clients :
        /\ mine[c] <= Len(accepted)
        /\ IF pc[c] \in {"flush", "flush_wait"}
           THEN 0 <= goal[c] /\ goal[c] <= Len(accepted)
           ELSE goal[c] = -1

(* What was accepted is in the file, then in flush_buffer_, then in log_buffer_. *)
ContentInv ==
    /\ Len(accepted) = Len(disk) + Pending + cur_offset
    /\ \A i \in 1 .. Len(disk) : disk[i] = accepted[i]
    /\ \A i \in 1 .. Pending : buffer[1 - log_index][i] = accepted[Len(disk) + i]
    /\ \A i \in 1 .. cur_offset : buffer[log_index][i] = accepted[Len(disk) + Pending + i]

LogInv == LogTypeOK /\ TurnInv /\ GoalInv /\ ContentInv

-----------------------------------------------------------------------------
(* A function on 1 .. n is a sequence. *)
LEMMA MakeSeq ==
    ASSUME NEW S, NEW n \in Nat, NEW f, f = [i \in 1 .. n |-> f[i]],
           \A i \in 1 .. n : f[i] \in S
    PROVE  f \in Seq(S) /\ Len(f) = n
OBVIOUS

(* What the backend reads from a buffer. *)
LEMMA BytesTaken ==
    ASSUME NEW b \in [1 .. Capacity -> 0 .. MaxRecords], NEW n \in Nat
    PROVE  LET bytes == [i \in 1 .. n |-> IF i <= Capacity THEN b[i] ELSE 0]
           IN  bytes \in Seq(0 .. MaxRecords) /\ Len(bytes) = n
<1> DEFINE bytes == [i \in 1 .. n |-> IF i <= Capacity THEN b[i] ELSE 0]
<1>1. ASSUME NEW i \in 1 .. n PROVE bytes[i] \in 0 .. MaxRecords
  <2>1. CASE i <= Capacity
    BY <2>1, CapacityAssumption
  <2>2. CASE ~(i <= Capacity)
    BY <2>2, MaxRecordsAssumption
  <2> QED
    BY <2>1, <2>2
<1>2. bytes = [i \in 1 .. n |-> bytes[i]]
  OBVIOUS
<1> HIDE DEF bytes
<1>3. bytes \in Seq(0 .. MaxRecords) /\ Len(bytes) = n
  BY <1>1, <1>2, MakeSeq
<1> QED
  BY <1>3 DEF bytes

(* The bytes of a record, appended to what was accepted. *)
LEMMA RecordAppended ==
    ASSUME NEW s \in Seq(1 .. MaxRecords), NEW l \in 1 .. MaxRecords, NEW n \in Nat
    PROVE  /\ s \o Record(l, n) \in Seq(1 .. MaxRecords)
           /\ Len(s \o Record(l, n)) = Len(s) + n
           /\ \A i \in 1 .. Len(s) : (s \o Record(l, n))[i] = s[i]
           /\ \A i \in 1 .. n : (s \o Record(l, n))[Len(s) + i] = l
<1>1. Record(l, n) \in Seq(1 .. MaxRecords) /\ Len(Record(l, n)) = n
  BY DEF Record
<1>2. \A i \in 1 .. n : Record(l, n)[i] = l
  BY DEF Record
<1> DEFINE r == Record(l, n)
<1> HIDE DEF r
<1>3. /\ s \o r \in Seq(1 .. MaxRecords)
      /\ Len(s \o r) = Len(s) + Len(r)
      /\ \A i \in 1 .. Len(s) + Len(r) :
            (s \o r)[i] = IF i <= Len(s) THEN s[i] ELSE r[i - Len(s)]
  BY <1>1, ConcatProperties DEF r
<1>4. Len(s) \in Nat /\ Len(r) = n /\ \A i \in 1 .. n : r[i] = l
  BY <1>1, <1>2, LenProperties DEF r
<1>5. \A i \in 1 .. Len(s) : (s \o r)[i] = s[i]
  BY <1>3, <1>4
<1>6. \A i \in 1 .. n : (s \o r)[Len(s) + i] = l
  BY <1>3, <1>4
<1> QED
  BY <1>3, <1>4, <1>5, <1>6 DEF r

(* A record of n bytes with LSN l goes into log_buffer_, where it fits. *)
Copies(c, n, l) ==
    /\ cur_offset + n <= Capacity
    /\ ~is_flush
    /\ accepted' = accepted \o Record(l, n)
    /\ accepted' \in Seq(1 .. MaxRecords)
    /\ Len(accepted') = Len(accepted) + n
    /\ \A i \in 1 .. Len(accepted) : accepted'[i] = accepted[i]
    /\ \A i \in 1 .. n : accepted'[Len(accepted) + i] = l
    /\ cur_offset' = cur_offset + n
    /\ buffer' \in [0 .. 1 -> [1 .. Capacity -> 0 .. MaxRecords]]
    /\ buffer'[1 - log_index] = buffer[1 - log_index]
    /\ \A i \in 1 .. Capacity : buffer'[log_index][i] =
           IF i \in (cur_offset + 1) .. (cur_offset + n) THEN l ELSE buffer[log_index][i]
    /\ mine' = [mine EXCEPT ![c] = Len(accepted) + n]
    /\ pc' = [pc EXCEPT ![c] = "idle"]
    /\ UNCHANGED <<log_index, flush_size, is_flush, stop, next_lsn, record,
                   asleep, backend, taken, closing, disk, goal>>

(***************************************************************************)
(* Whatever a client copies fits: Write has made sure of it, or the wait   *)
(* has left the buffer empty.                                              *)
(***************************************************************************)
LEMMA Copied ==
    ASSUME LogInv, NEW c \in Clients, WriteFits(c) \/ WriteResume(c)
    PROVE  \E n \in Nat \ {0}, l \in 1 .. MaxRecords : n \in Sizes /\ Copies(c, n, l)
<1> DEFINE size == record[c].size
           lsn == record[c].lsn
           copy == [i \in 1 .. Capacity |->
                       IF i \in (cur_offset + 1) .. (cur_offset + size)
                       THEN lsn ELSE buffer[log_index][i]]
<1>1. CopyRecord(c) /\ pc[c] \in {"write", "write_wait"}
  BY DEF WriteFits, WriteResume
<1>2. size \in Sizes /\ size \in Nat \ {0} /\ lsn \in 1 .. MaxRecords
  BY <1>1, SizesAssumption DEF LogInv, TurnInv
<1>3. cur_offset + size <= Capacity /\ ~is_flush
  BY <1>1, <1>2, CapacityAssumption DEF LogInv, TurnInv, LogTypeOK, WriteFits, WriteResume
<1>4. /\ buffer \in [0 .. 1 -> [1 .. Capacity -> 0 .. MaxRecords]]
      /\ log_index \in 0 .. 1 /\ 1 - log_index \in 0 .. 1 /\ 1 - log_index # log_index
      /\ accepted \in Seq(1 .. MaxRecords)
      /\ cur_offset \in Nat
  BY CapacityAssumption DEF LogInv, LogTypeOK
<1>5. /\ buffer' = [buffer EXCEPT ![log_index] = copy]
      /\ accepted' = accepted \o Record(lsn, size)
      /\ cur_offset' = cur_offset + size
      /\ mine' = [mine EXCEPT ![c] = Len(accepted) + size]
      /\ pc' = [pc EXCEPT ![c] = "idle"]
      /\ UNCHANGED <<log_index, flush_size, is_flush, stop, next_lsn, record,
                     asleep, backend, taken, closing, disk, goal>>
  BY <1>1, <1>4 DEF CopyRecord
<1> HIDE DEF size, lsn
<1>6. \A i \in 1 .. Capacity :
        copy[i] = IF i \in (cur_offset + 1) .. (cur_offset + size) THEN lsn ELSE buffer[log_index][i]
  OBVIOUS
<1>7. copy \in [1 .. Capacity -> 0 .. MaxRecords]
  <2>1. lsn \in 0 .. MaxRecords
    BY <1>2, MaxRecordsAssumption
  <2>2. \A i \in 1 .. Capacity : buffer[log_index][i] \in 0 .. MaxRecords
    BY <1>4
  <2> QED
    BY <2>1, <2>2
<1> HIDE DEF copy
<1>8. /\ buffer' \in [0 .. 1 -> [1 .. Capacity -> 0 .. MaxRecords]]
      /\ buffer'[1 - log_index] = buffer[1 - log_index]
      /\ buffer'[log_index] = copy
  BY <1>4, <1>5, <1>7
<1>9. /\ accepted' \in Seq(1 .. MaxRecords)
      /\ Len(accepted') = Len(accepted) + size
      /\ \A i \in 1 .. Len(accepted) : accepted'[i] = accepted[i]
      /\ \A i \in 1 .. size : accepted'[Len(accepted) + i] = lsn
  <2> DEFINE after == accepted \o Record(lsn, size)
  <2>1. size \in Nat /\ lsn \in 1 .. MaxRecords /\ accepted \in Seq(1 .. MaxRecords)
    BY <1>2, <1>4
  <2>2. /\ after \in Seq(1 .. MaxRecords)
        /\ Len(after) = Len(accepted) + size
        /\ \A i \in 1 .. Len(accepted) : after[i] = accepted[i]
        /\ \A i \in 1 .. size : after[Len(accepted) + i] = lsn
    BY ONLY <2>1, RecordAppended, Zenon DEF after
  <2>3. accepted' = after
    BY <1>5
  <2> HIDE DEF after
  <2> QED
    BY ONLY <2>2, <2>3
<1>10. Copies(c, size, lsn)
  BY <1>3, <1>5, <1>6, <1>8, <1>9 DEF Copies
<1> QED
  BY <1>2, <1>10

(* Every step keeps the types; no record is copied past its buffer. *)
LEMMA LogTypeStep ==
    ASSUME OneClient, LogInv, LogNext
    PROVE  LogTypeOK'
<1> USE CapacityAssumption, SizesAssumption, MaxRecordsAssumption DEF LogInv, TurnInv, LogTypeOK, ClientStates
<1>1. ASSUME NEW c \in Clients, ClientCall(c) \/ ClientStep(c)
      PROVE  LogTypeOK'
  <2>1. CASE AppendLogRecord(c)
    BY <2>1, SMTT(30) DEF AppendLogRecord, bufferVars
  <2>2. CASE FlushCall(c)
    BY <2>2 DEF FlushCall, bufferVars
  <2>3. CASE Destroy(c)
    BY <2>3 DEF Destroy, bufferVars
  <2>4. CASE WriteTooLarge(c)
    BY <2>4 DEF WriteTooLarge, bufferVars
  <2>5. CASE WriteFits(c)
    <3>1. PICK n \in Nat \ {0}, l \in 1 .. MaxRecords : Copies(c, n, l)
      BY <2>5, Copied
    <3> QED
      BY <3>1, SMTT(30) DEF Copies
  <2>6. CASE WriteFull(c)
    BY <2>6, SMTT(30) DEF WriteFull, HandOver, SwapBuffers
  <2>7. CASE WriteSleep(c)
    BY <2>7 DEF WriteSleep, SleepWhileFlushing, bufferVars
  <2>8. CASE WriteResume(c)
    <3>1. PICK n \in Nat \ {0}, l \in 1 .. MaxRecords : Copies(c, n, l)
      BY <2>8, Copied
    <3> QED
      BY <3>1, SMTT(30) DEF Copies
  <2>9. CASE FlushNothing(c)
    BY <2>9, SMTT(30) DEF FlushNothing, FlushReturn, bufferVars
  <2>10. CASE FlushSwap(c)
    BY <2>10, SMTT(30) DEF FlushSwap, HandOver, SwapBuffers
  <2>11. CASE FlushSleep(c)
    BY <2>11 DEF FlushSleep, SleepWhileFlushing, bufferVars
  <2>12. CASE FlushResume(c)
    BY <2>12, SMTT(30) DEF FlushResume, FlushReturn, bufferVars
  <2>13. CASE DestroyStop(c)
    BY <2>13 DEF DestroyStop, bufferVars
  <2>14. CASE DestroyJoin(c)
    BY <2>14 DEF DestroyJoin, bufferVars
  <2> QED
    BY <1>1, <2>1, <2>2, <2>3, <2>4, <2>5, <2>6, <2>7, <2>8, <2>9, <2>10, <2>11, <2>12, <2>13, <2>14 DEF ClientCall, ClientStep
<1>2. CASE BackendSleep
  BY <1>2 DEF BackendSleep, backendFrame
<1>3. CASE BackendTake
  <2>1. taken' = [size |-> flush_size, from |-> taken.from]
    BY <1>3 DEF BackendTake
  <2>2. flush_size \in Nat /\ taken.from \in 0 .. 1
    OBVIOUS
  <2>3. taken' \in [size : Nat, from : 0 .. 1]
    BY ONLY <2>1, <2>2
  <2> QED
    BY <1>3, <2>3 DEF BackendTake, backendFrame
<1>4. CASE BackendPointer
  <2>1. taken' = [size |-> taken.size, from |-> 1 - log_index]
    BY <1>4 DEF BackendPointer
  <2>2. backend' \in {"wait", "unlocked", "write", "done", "exited"}
    BY <1>4 DEF BackendPointer
  <2>3. taken.size \in Nat /\ 1 - log_index \in 0 .. 1
    OBVIOUS
  <2>4. taken' \in [size : Nat, from : 0 .. 1]
    BY ONLY <2>1, <2>3
  <2> QED
    BY <1>4, <2>2, <2>4 DEF BackendPointer, backendFrame
<1>5. CASE BackendWrite
  <2> DEFINE bytes == [i \in 1 .. taken.size |->
                          IF i <= Capacity THEN buffer[taken.from][i] ELSE 0]
  <2>1. taken.size \in Nat /\ taken.from \in 0 .. 1
    OBVIOUS
  <2>2. bytes \in Seq(0 .. MaxRecords)
    BY <2>1, BytesTaken
  <2> HIDE DEF bytes
  <2>3. disk \o bytes \in Seq(0 .. MaxRecords)
    BY <2>2, ConcatProperties
  <2>4. disk' \in Seq(0 .. MaxRecords)
    BY <1>5, <2>3 DEF BackendWrite, bytes
  <2> QED
    BY <1>5, <2>4 DEF BackendWrite, backendFrame
<1>6. CASE BackendDone
  BY <1>6 DEF BackendDone, backendFrame
<1>7. CASE BackendStop
  BY <1>7 DEF BackendStop, backendFrame
<1>8. CASE Finished
  BY <1>8 DEF Finished, logVars
<1> QED
  BY <1>1, <1>2, <1>3, <1>4, <1>5, <1>6, <1>7, <1>8 DEF LogNext, BackendThreadMain

(* Client and backend keep taking turns. *)
LEMMA TurnStep ==
    ASSUME OneClient, LogInv, LogNext
    PROVE  TurnInv'
<1> USE CapacityAssumption, SizesAssumption, MaxRecordsAssumption DEF LogInv, OneClient, LogTypeOK, TurnInv
<1>1. ASSUME NEW c \in Clients, ClientCall(c) \/ ClientStep(c)
      PROVE  TurnInv'
  <2>1. CASE AppendLogRecord(c)
    BY <2>1 DEF AppendLogRecord, bufferVars
  <2>2. CASE FlushCall(c)
    BY <2>2 DEF FlushCall, bufferVars
  <2>3. CASE Destroy(c)
    BY <2>3 DEF Destroy, bufferVars
  <2>4. CASE WriteTooLarge(c)
    BY <2>4 DEF WriteTooLarge, bufferVars
  <2>5. CASE WriteFits(c)
    BY <2>5 DEF WriteFits, CopyRecord
  <2>6. CASE WriteFull(c)
    BY <2>6 DEF WriteFull, HandOver, SwapBuffers
  <2>7. CASE WriteSleep(c)
    BY <2>7 DEF WriteSleep, SleepWhileFlushing, bufferVars
  <2>8. CASE WriteResume(c)
    BY <2>8 DEF WriteResume, CopyRecord
  <2>9. CASE FlushNothing(c)
    BY <2>9 DEF FlushNothing, FlushReturn, bufferVars
  <2>10. CASE FlushSwap(c)
    BY <2>10 DEF FlushSwap, HandOver, SwapBuffers
  <2>11. CASE FlushSleep(c)
    BY <2>11 DEF FlushSleep, SleepWhileFlushing, bufferVars
  <2>12. CASE FlushResume(c)
    BY <2>12 DEF FlushResume, FlushReturn, bufferVars
  <2>13. CASE DestroyStop(c)
    BY <2>13 DEF DestroyStop, bufferVars
  <2>14. CASE DestroyJoin(c)
    BY <2>14 DEF DestroyJoin, bufferVars
  <2> QED
    BY <1>1, <2>1, <2>2, <2>3, <2>4, <2>5, <2>6, <2>7, <2>8, <2>9, <2>10, <2>11, <2>12, <2>13, <2>14 DEF ClientCall, ClientStep
<1>2. CASE BackendSleep
  BY <1>2 DEF BackendSleep, backendFrame
<1>3. CASE BackendTake
  BY <1>3 DEF BackendTake, backendFrame
<1>4. CASE BackendPointer
  BY <1>4 DEF BackendPointer, backendFrame
<1>5. CASE BackendWrite
  BY <1>5 DEF BackendWrite, backendFrame
<1>6. CASE BackendDone
  BY <1>6 DEF BackendDone, backendFrame
<1>7. CASE BackendStop
  BY <1>7 DEF BackendStop, backendFrame
<1>8. CASE Finished
  BY <1>8 DEF Finished, logVars
<1> QED
  BY <1>1, <1>2, <1>3, <1>4, <1>5, <1>6, <1>7, <1>8 DEF LogNext, BackendThreadMain

(* Goals stay within what was accepted. *)
LEMMA GoalStep ==
    ASSUME OneClient, LogInv, LogNext
    PROVE  GoalInv'
<1> USE SizesAssumption DEF LogInv, OneClient, LogTypeOK, TurnInv, GoalInv
<1>1. ASSUME NEW c \in Clients, ClientCall(c) \/ ClientStep(c)
      PROVE  GoalInv'
  <2>1. CASE AppendLogRecord(c)
    BY <2>1 DEF AppendLogRecord, bufferVars
  <2>2. CASE FlushCall(c)
    BY <2>2 DEF FlushCall, bufferVars
  <2>3. CASE Destroy(c)
    BY <2>3 DEF Destroy, bufferVars
  <2>4. CASE WriteTooLarge(c)
    BY <2>4 DEF WriteTooLarge, bufferVars
  <2>5. CASE WriteFits(c)
    <3>1. PICK n \in Nat \ {0}, l \in 1 .. MaxRecords : Copies(c, n, l)
      BY <2>5, Copied
    <3>2. /\ Len(accepted') = Len(accepted) + n
          /\ mine' = [mine EXCEPT ![c] = Len(accepted) + n]
          /\ pc' = [pc EXCEPT ![c] = "idle"]
          /\ goal' = goal /\ pc[c] \in {"write", "write_wait"}
      BY <2>5, <3>1 DEF Copies, WriteFits, WriteResume
    <3>3. Len(accepted) \in Nat
      OBVIOUS
    <3> QED
      BY <3>2, <3>3
  <2>6. CASE WriteFull(c)
    BY <2>6 DEF WriteFull, HandOver, SwapBuffers
  <2>7. CASE WriteSleep(c)
    BY <2>7 DEF WriteSleep, SleepWhileFlushing, bufferVars
  <2>8. CASE WriteResume(c)
    <3>1. PICK n \in Nat \ {0}, l \in 1 .. MaxRecords : Copies(c, n, l)
      BY <2>8, Copied
    <3>2. /\ Len(accepted') = Len(accepted) + n
          /\ mine' = [mine EXCEPT ![c] = Len(accepted) + n]
          /\ pc' = [pc EXCEPT ![c] = "idle"]
          /\ goal' = goal /\ pc[c] \in {"write", "write_wait"}
      BY <2>8, <3>1 DEF Copies, WriteFits, WriteResume
    <3>3. Len(accepted) \in Nat
      OBVIOUS
    <3> QED
      BY <3>2, <3>3
  <2>9. CASE FlushNothing(c)
    BY <2>9 DEF FlushNothing, FlushReturn, bufferVars
  <2>10. CASE FlushSwap(c)
    BY <2>10 DEF FlushSwap, HandOver, SwapBuffers
  <2>11. CASE FlushSleep(c)
    BY <2>11 DEF FlushSleep, SleepWhileFlushing, bufferVars
  <2>12. CASE FlushResume(c)
    BY <2>12 DEF FlushResume, FlushReturn, bufferVars
  <2>13. CASE DestroyStop(c)
    BY <2>13 DEF DestroyStop, bufferVars
  <2>14. CASE DestroyJoin(c)
    BY <2>14 DEF DestroyJoin, bufferVars
  <2> QED
    BY <1>1, <2>1, <2>2, <2>3, <2>4, <2>5, <2>6, <2>7, <2>8, <2>9, <2>10, <2>11, <2>12, <2>13, <2>14 DEF ClientCall, ClientStep
<1>2. CASE BackendSleep
  BY <1>2 DEF BackendSleep, backendFrame
<1>3. CASE BackendTake
  BY <1>3 DEF BackendTake, backendFrame
<1>4. CASE BackendPointer
  BY <1>4 DEF BackendPointer, backendFrame
<1>5. CASE BackendWrite
  BY <1>5 DEF BackendWrite, backendFrame
<1>6. CASE BackendDone
  BY <1>6 DEF BackendDone, backendFrame
<1>7. CASE BackendStop
  BY <1>7 DEF BackendStop, backendFrame
<1>8. CASE Finished
  BY <1>8 DEF Finished, logVars
<1> QED
  BY <1>1, <1>2, <1>3, <1>4, <1>5, <1>6, <1>7, <1>8 DEF LogNext, BackendThreadMain

-----------------------------------------------------------------------------
(* Most steps move no byte. *)
LEMMA ContentFrame ==
    ASSUME LogInv, UNCHANGED <<buffer, log_index, cur_offset, disk, accepted>>, Pending' = Pending
    PROVE  ContentInv'
BY DEF LogInv, ContentInv

(* A record goes to the end of log_buffer_ and to the end of what is accepted. *)
LEMMA ContentCopy ==
    ASSUME LogInv, NEW c \in Clients, WriteFits(c) \/ WriteResume(c)
    PROVE  ContentInv'
<1>1. PICK n \in Nat \ {0}, l \in 1 .. MaxRecords : Copies(c, n, l)
  BY Copied
<1>2. /\ cur_offset + n <= Capacity
      /\ Len(accepted') = Len(accepted) + n
      /\ \A i \in 1 .. Len(accepted) : accepted'[i] = accepted[i]
      /\ \A i \in 1 .. n : accepted'[Len(accepted) + i] = l
      /\ cur_offset' = cur_offset + n
      /\ buffer'[1 - log_index] = buffer[1 - log_index]
      /\ \A i \in 1 .. Capacity : buffer'[log_index][i] =
             IF i \in (cur_offset + 1) .. (cur_offset + n) THEN l ELSE buffer[log_index][i]
      /\ log_index' = log_index /\ disk' = disk /\ Pending' = Pending
  BY <1>1 DEF Copies, Pending
<1>3. /\ cur_offset \in Nat /\ Len(disk) \in Nat /\ Pending = 0 /\ Capacity \in Nat
      /\ ~is_flush
  BY <1>1, CapacityAssumption DEF LogInv, LogTypeOK, Copies, Pending
<1>4. /\ Len(accepted) = Len(disk) + cur_offset
      /\ \A i \in 1 .. Len(disk) : disk[i] = accepted[i]
      /\ \A i \in 1 .. cur_offset : buffer[log_index][i] = accepted[Len(disk) + i]
  BY <1>3 DEF LogInv, ContentInv
<1>5. Len(accepted') = Len(disk) + cur_offset'
  BY <1>2, <1>3, <1>4
<1>6. \A i \in 1 .. Len(disk) : disk[i] = accepted'[i]
  BY <1>2, <1>3, <1>4
<1>7. ASSUME NEW i \in 1 .. cur_offset'
      PROVE  buffer'[log_index][i] = accepted'[Len(disk) + i]
  <2>1. CASE i <= cur_offset
    <3>1. i \in 1 .. cur_offset /\ i \in 1 .. Capacity /\ i \notin (cur_offset + 1) .. (cur_offset + n)
      BY <2>1, <1>2, <1>3
    <3>2. Len(disk) + i \in 1 .. Len(accepted)
      BY <3>1, <1>3, <1>4
    <3> QED
      BY <3>1, <3>2, <1>2, <1>4
  <2>2. CASE i > cur_offset
    <3>1. i - cur_offset \in 1 .. n /\ Len(accepted) + (i - cur_offset) = Len(disk) + i
      BY <2>2, <1>2, <1>3, <1>4
    <3>2. accepted'[Len(disk) + i] = l
      BY <3>1, <1>2
    <3> QED
      BY <3>2, <2>2, <1>2, <1>3
  <2> QED
    BY <2>1, <2>2, <1>2, <1>3
<1>8. Pending' = 0 /\ Len(accepted') = Len(disk') + Pending' + cur_offset'
  BY <1>2, <1>3, <1>5
<1>9. log_index' = log_index /\ disk' = disk /\ cur_offset' \in Nat
  BY <1>2, <1>3
<1>10. ASSUME NEW i \in 1 .. cur_offset'
       PROVE  buffer'[log_index'][i] = accepted'[Len(disk') + Pending' + i]
  <2>1. Len(disk') + Pending' + i = Len(disk) + i
    BY <1>3, <1>8, <1>9
  <2> QED
    BY <2>1, <1>7, <1>9
<1>11. \A i \in 1 .. Len(disk') : disk'[i] = accepted'[i]
  BY <1>6, <1>9
<1> QED
  BY <1>8, <1>10, <1>11 DEF ContentInv

(* The buffers change places: what was current is pending. *)
LEMMA ContentSwap ==
    ASSUME LogInv, NEW c \in Clients, WriteFull(c) \/ FlushSwap(c)
    PROVE  ContentInv'
<1>1. /\ log_index' = 1 - log_index /\ flush_size' = cur_offset /\ cur_offset' = 0
      /\ is_flush' = TRUE /\ UNCHANGED <<buffer, backend, disk, accepted>>
      /\ pc[c] \in {"write", "flush"}
  BY DEF WriteFull, FlushSwap, HandOver, SwapBuffers
<1>2. is_flush = FALSE
  BY <1>1 DEF LogInv, TurnInv, LogTypeOK
<1>3. backend = "wait"
  BY <1>1, <1>2 DEF LogInv, TurnInv, LogTypeOK
<1>4. Pending = 0 /\ Pending' = cur_offset
  BY <1>1, <1>2, <1>3 DEF Pending
<1>5. /\ log_index \in 0 .. 1 /\ cur_offset \in Nat /\ Len(disk) \in Nat
      /\ 1 - (1 - log_index) = log_index
  BY CapacityAssumption DEF LogInv, LogTypeOK
<1> QED
  BY <1>1, <1>4, <1>5 DEF LogInv, ContentInv

(* The backend appends what was handed over to the file. *)
LEMMA ContentWrite ==
    ASSUME LogInv, BackendWrite
    PROVE  ContentInv'
<1> DEFINE bytes == [i \in 1 .. taken.size |->
                        IF i <= Capacity THEN buffer[taken.from][i] ELSE 0]
<1>1. /\ disk' = disk \o bytes /\ backend' = "done"
      /\ UNCHANGED <<buffer, log_index, cur_offset, accepted>>
  BY DEF BackendWrite, backendFrame
<1>2. /\ is_flush /\ taken.size = flush_size /\ taken.from = 1 - log_index
      /\ taken.from \in 0 .. 1
      /\ flush_size \in Nat /\ flush_size <= Capacity /\ Capacity \in Nat
      /\ cur_offset \in Nat /\ disk \in Seq(0 .. MaxRecords) /\ Len(disk) \in Nat
  BY CapacityAssumption DEF LogInv, TurnInv, LogTypeOK, BackendWrite
<1>3. Pending = flush_size /\ Pending' = 0
  BY <1>1, <1>2 DEF Pending, BackendWrite
<1>4. buffer[taken.from] \in [1 .. Capacity -> 0 .. MaxRecords] /\ taken.size \in Nat
  BY <1>2 DEF LogInv, LogTypeOK
<1>5. /\ bytes \in Seq(0 .. MaxRecords) /\ Len(bytes) = flush_size
  BY <1>2, <1>4, BytesTaken
<1>6. \A i \in 1 .. flush_size : bytes[i] = buffer[1 - log_index][i]
  BY <1>2
<1> HIDE DEF bytes
<1>7. /\ Len(disk') = Len(disk) + flush_size
      /\ \A i \in 1 .. Len(disk) + flush_size :
            disk'[i] = IF i <= Len(disk) THEN disk[i] ELSE bytes[i - Len(disk)]
  <2>1. /\ Len(disk \o bytes) = Len(disk) + Len(bytes)
        /\ \A i \in 1 .. Len(disk) + Len(bytes) :
              (disk \o bytes)[i] = IF i <= Len(disk) THEN disk[i] ELSE bytes[i - Len(disk)]
    BY <1>2, <1>5, ConcatProperties
  <2> QED
    BY <2>1, <1>1, <1>5
<1>8. /\ Len(accepted) = Len(disk) + flush_size + cur_offset
      /\ \A i \in 1 .. Len(disk) : disk[i] = accepted[i]
      /\ \A i \in 1 .. flush_size : buffer[1 - log_index][i] = accepted[Len(disk) + i]
      /\ \A i \in 1 .. cur_offset :
            buffer[log_index][i] = accepted[Len(disk) + flush_size + i]
  BY <1>3 DEF LogInv, ContentInv
<1>9. ASSUME NEW i \in 1 .. Len(disk) + flush_size
      PROVE  disk'[i] = accepted[i]
  <2>1. CASE i <= Len(disk)
    BY <2>1, <1>2, <1>7, <1>8
  <2>2. CASE i > Len(disk)
    <3>1. i - Len(disk) \in 1 .. flush_size /\ Len(disk) + (i - Len(disk)) = i
      BY <2>2, <1>2
    <3>2. disk'[i] = bytes[i - Len(disk)]
      BY <2>2, <1>2, <1>7
    <3> QED
      BY <3>1, <3>2, <1>6, <1>8
  <2> QED
    BY <2>1, <2>2, <1>2
<1>10. \A i \in 1 .. cur_offset' : buffer'[log_index'][i] = accepted'[Len(disk') + Pending' + i]
  BY <1>1, <1>2, <1>3, <1>7, <1>8
<1>11. \A i \in 1 .. Len(disk') : disk'[i] = accepted'[i]
  BY <1>1, <1>7, <1>9
<1>12. Len(accepted') = Len(disk') + Pending' + cur_offset'
  BY <1>1, <1>2, <1>3, <1>7, <1>8
<1> QED
  BY <1>3, <1>10, <1>11, <1>12 DEF ContentInv

(* Every step keeps the order of the bytes. *)
LEMMA ContentStep ==
    ASSUME OneClient, LogInv, LogNext
    PROVE  ContentInv'
<1>1. ASSUME NEW c \in Clients, WriteFits(c) \/ WriteResume(c)
      PROVE  ContentInv'
  BY <1>1, ContentCopy
<1>2. ASSUME NEW c \in Clients, WriteFull(c) \/ FlushSwap(c)
      PROVE  ContentInv'
  BY <1>2, ContentSwap
<1>3. CASE BackendWrite
  BY <1>3, ContentWrite
<1> USE DEF bufferVars, Pending
<1>4. ASSUME NEW c \in Clients, ClientCall(c)
      PROVE  ContentInv'
  BY <1>4, ContentFrame DEF ClientCall, AppendLogRecord, FlushCall, Destroy
<1>5. ASSUME NEW c \in Clients,
             \/ WriteTooLarge(c) \/ WriteSleep(c) \/ FlushNothing(c) \/ FlushSleep(c)
             \/ FlushResume(c) \/ DestroyStop(c) \/ DestroyJoin(c)
      PROVE  ContentInv'
  BY <1>5, ContentFrame DEF WriteTooLarge, WriteSleep, SleepWhileFlushing, FlushNothing,
       FlushReturn, FlushSleep, FlushResume, DestroyStop, DestroyJoin
<1>6. CASE BackendSleep \/ BackendTake \/ BackendStop
  BY <1>6, ContentFrame DEF BackendSleep, BackendTake, BackendStop, backendFrame
<1>7. CASE BackendPointer
  <2>1. taken.size \in Nat /\ taken.size = flush_size /\ is_flush /\ backend = "unlocked"
    BY <1>7 DEF BackendPointer, LogInv, TurnInv, LogTypeOK
  <2>2. Pending' = Pending
    BY <1>7, <2>1 DEF BackendPointer, backendFrame
  <2> QED
    BY <1>7, <2>2, ContentFrame DEF BackendPointer, backendFrame
<1>8. CASE BackendDone
  BY <1>8, ContentFrame DEF BackendDone, backendFrame
<1>9. CASE Finished
  BY <1>9, ContentFrame DEF Finished, logVars
<1> QED
  BY <1>1, <1>2, <1>3, <1>4, <1>5, <1>6, <1>7, <1>8, <1>9
     DEF LogNext, ClientStep, BackendThreadMain

-----------------------------------------------------------------------------
THEOREM LogInitInv == LogInit => LogInv
<1> SUFFICES ASSUME LogInit PROVE LogInv
  OBVIOUS
<1>1. LogTypeOK
  <2> USE CapacityAssumption, MaxRecordsAssumption DEF LogInit
  <2>1. buffer \in [0 .. 1 -> [1 .. Capacity -> 0 .. MaxRecords]]
    OBVIOUS
  <2>2. record \in [Clients -> [lsn : 0 .. MaxRecords, size : Nat]]
    OBVIOUS
  <2>3. taken \in [size : Nat, from : 0 .. 1]
    OBVIOUS
  <2>4. is_flush \in BOOLEAN /\ stop \in BOOLEAN /\ closing \in BOOLEAN
    BY Zenon
  <2> QED
    BY <2>1, <2>2, <2>3, <2>4 DEF LogTypeOK, ClientStates
<1>2. TurnInv /\ GoalInv
  BY DEF LogInit, TurnInv, GoalInv
<1>3. ContentInv
  BY DEF LogInit, ContentInv, Pending
<1> QED
  BY <1>1, <1>2, <1>3 DEF LogInv

LEMMA LogStep ==
    ASSUME OneClient, LogInv, [LogNext]_logVars
    PROVE  LogInv'
<1>1. CASE LogNext
  BY <1>1, LogTypeStep, TurnStep, GoalStep, ContentStep DEF LogInv
<1>2. CASE UNCHANGED logVars
  BY <1>2 DEF logVars, LogInv, LogTypeOK, TurnInv, GoalInv, ContentInv, Pending
<1> QED
  BY <1>1, <1>2

(***************************************************************************)
(* LogInv is an inductive invariant of the log buffer with one client, for *)
(* any capacity, sizes and number of records.                              *)
(***************************************************************************)
THEOREM LogInvariance ==
    ASSUME OneClient
    PROVE  LogSpec => []LogInv
BY LogInitInv, LogStep, PTL DEF LogSpec

(* In particular offset and flush size never leave the buffers. *)
THEOREM LogTypeCorrect ==
    ASSUME OneClient
    PROVE  LogSpec => []LogTypeOK
<1>1. LogInv => LogTypeOK
  BY DEF LogInv
<1> QED
  BY <1>1, LogInvariance, PTL

(***************************************************************************)
(* The file holds the accepted bytes in order, none lost, repeated or      *)
(* invented.                                                               *)
(***************************************************************************)
THEOREM DiskPrefixTheorem ==
    ASSUME OneClient
    PROVE  LogSpec => []DiskIsPrefix
<1>1. LogInv => DiskIsPrefix
  BY CapacityAssumption DEF LogInv, LogTypeOK, ContentInv, DiskIsPrefix, Pending
<1> QED
  BY <1>1, LogInvariance, PTL

-----------------------------------------------------------------------------
(***************************************************************************)
(* What the abstract variables do in a step: a record is accepted, handed  *)
(* over bytes are stored, a Flush is called or returns, or nothing.        *)
(***************************************************************************)
LEMMA AbstractEffect ==
    ASSUME OneClient, LogInv, LogNext
    PROVE  \/ UNCHANGED <<accepted, disk, mine, goal>>
           \/ \E c \in Clients : WriteFits(c) \/ WriteResume(c)
           \/ BackendWrite
           \/ \E c \in Clients :
                 /\ pc[c] \notin {"flush", "flush_wait"}
                 /\ goal' = [goal EXCEPT ![c] = mine[c]]
                 /\ UNCHANGED <<accepted, disk, mine>>
           \/ \E c \in Clients :
                 /\ pc[c] \in {"flush", "flush_wait"}
                 /\ ~is_flush /\ cur_offset = 0
                 /\ goal' = [goal EXCEPT ![c] = -1]
                 /\ UNCHANGED <<accepted, disk, mine>>
<1>1. ASSUME NEW c \in Clients, FlushCall(c) \/ Destroy(c)
      PROVE  /\ pc[c] \notin {"flush", "flush_wait"}
             /\ goal' = [goal EXCEPT ![c] = mine[c]]
             /\ UNCHANGED <<accepted, disk, mine>>
  BY <1>1 DEF FlushCall, Destroy
<1>2. ASSUME NEW c \in Clients, FlushNothing(c) \/ FlushResume(c)
      PROVE  /\ pc[c] \in {"flush", "flush_wait"}
             /\ ~is_flush /\ cur_offset = 0
             /\ goal' = [goal EXCEPT ![c] = -1]
             /\ UNCHANGED <<accepted, disk, mine>>
  BY <1>2 DEF FlushNothing, FlushResume, FlushReturn, LogInv, TurnInv
<1>3. ASSUME NEW c \in Clients,
             \/ AppendLogRecord(c) \/ WriteTooLarge(c) \/ WriteFull(c) \/ WriteSleep(c)
             \/ FlushSwap(c) \/ FlushSleep(c) \/ DestroyStop(c) \/ DestroyJoin(c)
      PROVE  UNCHANGED <<accepted, disk, mine, goal>>
  BY <1>3 DEF AppendLogRecord, WriteTooLarge, WriteFull, HandOver, WriteSleep,
       SleepWhileFlushing, FlushSwap, FlushSleep, DestroyStop, DestroyJoin
<1>4. ASSUME \/ BackendSleep \/ BackendTake \/ BackendPointer \/ BackendDone \/ BackendStop
             \/ Finished
      PROVE  UNCHANGED <<accepted, disk, mine, goal>>
  BY <1>4 DEF BackendSleep, BackendTake, BackendPointer, BackendDone, BackendStop, backendFrame,
       Finished, logVars
<1>5. ASSUME NEW c \in Clients, ClientCall(c)
      PROVE  AppendLogRecord(c) \/ FlushCall(c) \/ Destroy(c)
  BY <1>5 DEF ClientCall
<1>6. ASSUME NEW c \in Clients, ClientStep(c)
      PROVE  \/ WriteFits(c) \/ WriteResume(c) \/ FlushNothing(c) \/ FlushResume(c)
             \/ WriteTooLarge(c) \/ WriteFull(c) \/ WriteSleep(c)
             \/ FlushSwap(c) \/ FlushSleep(c) \/ DestroyStop(c) \/ DestroyJoin(c)
  BY <1>6 DEF ClientStep
<1>7. CASE BackendThreadMain \/ Finished
  BY <1>7, <1>4 DEF BackendThreadMain
<1>8. ASSUME NEW c \in Clients, ClientCall(c) \/ ClientStep(c)
      PROVE  \/ UNCHANGED <<accepted, disk, mine, goal>>
             \/ WriteFits(c) \/ WriteResume(c)
             \/ /\ pc[c] \notin {"flush", "flush_wait"}
                /\ goal' = [goal EXCEPT ![c] = mine[c]]
                /\ UNCHANGED <<accepted, disk, mine>>
             \/ /\ pc[c] \in {"flush", "flush_wait"}
                /\ ~is_flush /\ cur_offset = 0
                /\ goal' = [goal EXCEPT ![c] = -1]
                /\ UNCHANGED <<accepted, disk, mine>>
  BY <1>8, <1>1, <1>2, <1>3, <1>5, <1>6
<1> QED
  BY <1>7, <1>8 DEF LogNext

(* With both buffers empty everything accepted is in the file. *)
LEMMA EmptyIsStored ==
    ASSUME LogInv, ~is_flush, cur_offset = 0
    PROVE  Len(disk) = Len(accepted) /\ \A i \in 1 .. Len(disk) : disk[i] = accepted[i]
BY DEF LogInv, LogTypeOK, ContentInv, Pending

(***************************************************************************)
(* Flush forces the log: when it returns, by the wait or by the early      *)
(* return for an empty buffer, every byte its caller had written is in the *)
(* file.                                                                   *)
(***************************************************************************)
THEOREM FlushForcesTheorem ==
    ASSUME OneClient
    PROVE  LogSpec => FlushForces
<1> DEFINE Forced ==
        \A c \in Clients : goal[c] >= 0 /\ goal'[c] = -1 =>
            \A i \in 1 .. goal[c] : i <= Len(disk) /\ disk[i] = accepted[i]
<1>1. LogInv /\ [LogNext]_logVars => [Forced]_logVars
  <2> SUFFICES ASSUME LogInv, LogNext, NEW c \in Clients, goal[c] >= 0, goal'[c] = -1
               PROVE  \A i \in 1 .. goal[c] : i <= Len(disk) /\ disk[i] = accepted[i]
    BY DEF logVars
  <2>1. goal[c] \in Int /\ mine \in [Clients -> Nat] /\ goal \in [Clients -> Int]
    BY DEF LogInv, LogTypeOK
  <2>2. goal' # goal
    BY <2>1
  <2>3. \A d \in Clients : WriteFits(d) \/ WriteResume(d) => goal' = goal
    BY DEF WriteFits, WriteResume, CopyRecord
  <2>4. BackendWrite => goal' = goal
    BY DEF BackendWrite, backendFrame
  <2>5. \A d \in Clients : goal' # [goal EXCEPT ![d] = mine[d]]
    <3>1. ASSUME NEW d \in Clients, goal' = [goal EXCEPT ![d] = mine[d]]
          PROVE  FALSE
      <4>1. mine[d] \in Nat /\ goal'[c] = IF c = d THEN mine[d] ELSE goal[c]
        BY <2>1, <3>1
      <4> QED
        BY <4>1, <2>1
    <3> QED
      BY <3>1
  <2>6. ~is_flush /\ cur_offset = 0
    BY <2>2, <2>3, <2>4, <2>5, AbstractEffect
  <2>7. goal[c] <= Len(accepted)
    BY DEF LogInv, GoalInv
  <2>8. Len(disk) = Len(accepted) /\ \A i \in 1 .. Len(disk) : disk[i] = accepted[i]
    BY <2>6, EmptyIsStored
  <2>9. Len(disk) \in Nat
    BY DEF LogInv, LogTypeOK
  <2> QED
    BY <2>1, <2>7, <2>8, <2>9
<1>2. LogSpec => [][Forced]_logVars
  BY <1>1, LogInvariance, PTL DEF LogSpec
<1> QED
  BY <1>2 DEF FlushForces

-----------------------------------------------------------------------------
(* The initial states of the writer are those of the abstract log. *)
LEMMA AbstractInit == LogInit => Abstract!DLInit
BY DEF LogInit, Abstract!DLInit

(* A copied record is accepted. *)
LEMMA CopyAccepts ==
    ASSUME LogInv, NEW c \in Clients, WriteFits(c) \/ WriteResume(c)
    PROVE  Abstract!Accept(c)
<1>1. PICK size \in Nat \ {0}, lsn \in 1 .. MaxRecords : size \in Sizes /\ Copies(c, size, lsn)
  BY Copied
<1>2. /\ accepted' = accepted \o Record(lsn, size) /\ Len(accepted') = Len(accepted) + size
      /\ mine' = [mine EXCEPT ![c] = Len(accepted) + size]
      /\ disk' = disk /\ goal' = goal
  BY <1>1 DEF Copies
<1>3. Record(lsn, size) \in AllRecords
  BY <1>1 DEF AllRecords
<1>4. mine' = [mine EXCEPT ![c] = Len(accepted')]
  BY <1>2
<1>5. \E r \in AllRecords : accepted' = accepted \o r
  BY <1>2, <1>3
<1>6. UNCHANGED <<disk, goal>>
  BY <1>2
<1> QED
  BY <1>4, <1>5, <1>6 DEF Abstract!Accept

(* What the backend writes is a longer prefix of what was accepted. *)
LEMMA WriteStores ==
    ASSUME LogInv, BackendWrite, ContentInv', LogTypeOK'
    PROVE  Abstract!Store
<1> DEFINE n == Len(disk')
<1>1. accepted' = accepted /\ mine' = mine /\ goal' = goal
  BY DEF BackendWrite, backendFrame
<1>2. /\ disk \in Seq(0 .. MaxRecords) /\ disk' \in Seq(0 .. MaxRecords)
      /\ accepted \in Seq(1 .. MaxRecords)
      /\ Len(disk) \in Nat /\ Len(disk') \in Nat /\ Len(accepted) \in Nat
      /\ cur_offset \in Nat /\ cur_offset' = cur_offset /\ flush_size \in Nat
  BY CapacityAssumption DEF LogInv, LogTypeOK, BackendWrite, backendFrame
<1>3. flush_size > 0 /\ Pending = flush_size /\ Pending' = 0
  BY DEF LogInv, TurnInv, Pending, BackendWrite
<1>4. /\ Len(accepted) = Len(disk) + flush_size + cur_offset
      /\ Len(accepted) = Len(disk') + cur_offset
      /\ \A i \in 1 .. Len(disk') : disk'[i] = accepted[i]
  BY <1>1, <1>2, <1>3 DEF LogInv, ContentInv
<1>5. n \in (Len(disk) + 1) .. Len(accepted)
  BY <1>2, <1>3, <1>4
<1>6. disk' = SubSeq(accepted, 1, n)
  <2>1. n \in Nat /\ n >= 1 /\ \A i \in 1 .. n : accepted[i] \in 0 .. MaxRecords
    BY <1>2, <1>5, ElementOfSeq, MaxRecordsAssumption, SMTT(30)
  <2>2. disk' \in Seq(0 .. MaxRecords) /\ Len(disk') = n /\ \A i \in 1 .. n : disk'[i] = accepted[i]
    BY <1>2, <1>4
  <2> HIDE DEF n
  <2>3. /\ SubSeq(accepted, 1, n) \in Seq(0 .. MaxRecords)
        /\ Len(SubSeq(accepted, 1, n)) = IF 1 <= n THEN n - 1 + 1 ELSE 0
        /\ \A i \in 1 .. n - 1 + 1 : SubSeq(accepted, 1, n)[i] = accepted[1 + i - 1]
    BY <2>1, SubSeqProperties
  <2>4. /\ Len(SubSeq(accepted, 1, n)) = n
        /\ \A i \in 1 .. n : SubSeq(accepted, 1, n)[i] = accepted[i]
    BY <2>1, <2>3
  <2> QED
    BY <2>2, <2>3, <2>4, SeqEqual
<1> QED
  BY <1>1, <1>5, <1>6 DEF Abstract!Store

(* Every step of the writer is a step of the abstract log, or none. *)
LEMMA AbstractStep ==
    ASSUME OneClient, LogInv, LogInv', [LogNext]_logVars
    PROVE  [Abstract!DLNext]_(Abstract!durableLogVars)
<1> USE DEF Abstract!durableLogVars
<1>1. CASE UNCHANGED logVars
  BY <1>1 DEF logVars
<1>2. CASE UNCHANGED <<accepted, disk, mine, goal>>
  BY <1>2
<1>3. ASSUME NEW c \in Clients, WriteFits(c) \/ WriteResume(c)
      PROVE  Abstract!DLNext
  BY <1>3, CopyAccepts DEF Abstract!DLNext
<1>4. CASE BackendWrite
  BY <1>4, WriteStores DEF LogInv, Abstract!DLNext
<1>5. ASSUME NEW c \in Clients,
             pc[c] \notin {"flush", "flush_wait"},
             goal' = [goal EXCEPT ![c] = mine[c]],
             UNCHANGED <<accepted, disk, mine>>
      PROVE  Abstract!DLNext
  <2>1. goal[c] = -1
    BY <1>5 DEF LogInv, GoalInv
  <2> QED
    BY <1>5, <2>1 DEF Abstract!DLNext, Abstract!FlushCall
<1>6. ASSUME NEW c \in Clients,
             pc[c] \in {"flush", "flush_wait"}, ~is_flush, cur_offset = 0,
             goal' = [goal EXCEPT ![c] = -1],
             UNCHANGED <<accepted, disk, mine>>
      PROVE  Abstract!DLNext
  <2>1. goal[c] >= 0 /\ goal[c] <= Len(accepted) /\ goal[c] \in Int
    BY <1>6 DEF LogInv, GoalInv, LogTypeOK
  <2>2. Len(disk) = Len(accepted)
    BY <1>6, EmptyIsStored
  <2>3. Len(disk) >= goal[c]
    BY <2>1, <2>2
  <2> QED
    BY <1>6, <2>1, <2>3 DEF Abstract!DLNext, Abstract!FlushReturn
<1> QED
  BY <1>1, <1>2, <1>3, <1>4, <1>5, <1>6, AbstractEffect

(***************************************************************************)
(* The double-buffered writer implements the durable log of DurableLog,    *)
(* liveness apart: records are accepted whole and in order, the file is a  *)
(* growing prefix, and Flush returns only when its goal is reached.        *)
(***************************************************************************)
THEOREM LogRefinement ==
    ASSUME OneClient
    PROVE  LogSpec => Abstract!DLSafety
<1>1. LogSpec => [][Abstract!DLNext]_(Abstract!durableLogVars)
  BY LogInvariance, AbstractStep, PTL DEF LogSpec
<1>2. LogSpec => Abstract!DLInit
  BY AbstractInit DEF LogSpec
<1> QED
  BY <1>1, <1>2 DEF Abstract!DLSafety
=============================================================================
