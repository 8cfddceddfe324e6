----------------------------- MODULE LogBuffer ------------------------------
(***************************************************************************)
(* The double-buffered log writer (src/src/log/log_buffer.cpp) and         *)
(* LogManager's use of it (src/src/log/log_manager.cpp).                   *)
(*                                                                         *)
(* Client threads copy records into log_buffer_; a full buffer or a Flush  *)
(* swaps the two buffers and hands flush_buffer_ to the backend thread,    *)
(* which appends it to the file without holding mutex_.  One action is one *)
(* critical section of mutex_, or one access the code makes outside it.    *)
(* Both condition variables are modelled: a thread that finds its          *)
(* predicate false sleeps until it is notified.                            *)
(*                                                                         *)
(* A byte is the LSN of the record it belongs to; 0 is a byte never        *)
(* written.  A buffer keeps its old bytes when the buffers are swapped.    *)
(***************************************************************************)
EXTENDS Integers, Sequences, FiniteSets

CONSTANTS Clients,     \* the threads that call LogManager
          Capacity,    \* capacity_, in bytes
          Sizes,       \* the sizes of records
          MaxRecords   \* bound: records appended in one behaviour

ASSUME CapacityAssumption == Capacity \in Nat \ {0}
ASSUME SizesAssumption == Sizes \subseteq Nat \ {0}
ASSUME MaxRecordsAssumption == MaxRecords \in Nat

VARIABLES
    buffer,       \* the two char arrays, 0 and 1
    log_index,    \* which of them log_buffer_ points to
    cur_offset,   \* cur_offset_
    flush_size,   \* flush_size_
    is_flush,     \* is_flush_
    stop,         \* stop_
    next_lsn,     \* LogManager::next_lsn_
    pc,           \* where each client is
    record,       \* the record a client is writing: its LSN and size
    asleep,       \* threads sleeping on a condition variable
    backend,      \* where BackendThreadMain is
    taken,        \* its local size and the buffer it reads
    closing,      \* the destructor has been entered
    disk,         \* the log file
    accepted,     \* history: the bytes copied into the buffers, in order
    mine,         \* history: each client's last accepted byte
    goal          \* history: the caller's last byte when its pending Flush was called

logVars == <<buffer, log_index, cur_offset, flush_size, is_flush, stop, next_lsn,
             pc, record, asleep, backend, taken, closing, disk, accepted,
             mine, goal>>

bufferVars == <<buffer, log_index, cur_offset, flush_size, is_flush>>

Backend == "backend"

ClientStates == {"idle", "write", "write_wait", "flush", "flush_wait",
                 "stop", "join", "gone"}

Record(lsn, n) == [i \in 1 .. n |-> lsn]

LogTypeOK ==
    /\ buffer \in [0 .. 1 -> [1 .. Capacity -> 0 .. MaxRecords]]
    /\ log_index \in 0 .. 1
    /\ cur_offset \in 0 .. Capacity
    /\ flush_size \in 0 .. Capacity
    /\ is_flush \in BOOLEAN /\ stop \in BOOLEAN /\ closing \in BOOLEAN
    /\ next_lsn \in 1 .. (MaxRecords + 1)
    /\ pc \in [Clients -> ClientStates]
    /\ record \in [Clients -> [lsn : 0 .. MaxRecords, size : Nat]]
    /\ asleep \subseteq (Clients \union {Backend})
    /\ backend \in {"wait", "unlocked", "write", "done", "exited"}
    /\ taken \in [size : Nat, from : 0 .. 1]
    /\ disk \in Seq(0 .. MaxRecords)
    /\ accepted \in Seq(1 .. MaxRecords)
    /\ mine \in [Clients -> Nat]
    /\ goal \in [Clients -> Int]

LogInit ==
    /\ buffer = [b \in 0 .. 1 |-> [i \in 1 .. Capacity |-> 0]]
    /\ log_index = 0
    /\ cur_offset = 0
    /\ flush_size = 0
    /\ is_flush = FALSE
    /\ stop = FALSE
    /\ closing = FALSE
    /\ next_lsn = 1
    /\ pc = [c \in Clients |-> "idle"]
    /\ record = [c \in Clients |-> [lsn |-> 0, size |-> 0]]
    /\ asleep = {}
    /\ backend = "wait"
    /\ taken = [size |-> 0, from |-> 0]
    /\ disk = <<>>
    /\ accepted = <<>>
    /\ mine = [c \in Clients |-> 0]
    /\ goal = [c \in Clients |-> -1]

-----------------------------------------------------------------------------
(* The pieces the handlers share. *)

(* A plausible slip: the write position is not reset. *)
SwapBuffersKeepsOffset ==
    /\ log_index' = 1 - log_index
    /\ flush_size' = cur_offset
    /\ cur_offset' = cur_offset

SwapBuffers ==
    /\ log_index' = 1 - log_index
    /\ flush_size' = cur_offset
    /\ cur_offset' = 0

(* A plausible slip: the backend is not notified. *)
HandOverNoNotify(c, p) ==
    /\ SwapBuffers
    /\ is_flush' = TRUE
    /\ pc' = [pc EXCEPT ![c] = p]
    /\ UNCHANGED <<buffer, stop, next_lsn, record, backend, taken, closing, disk, accepted, mine, asleep>>

(* Swap, raise is_flush_ and wake the backend; the caller is in pc p. *)
HandOver(c, p) ==
    /\ SwapBuffers
    /\ is_flush' = TRUE
    /\ asleep' = asleep \ {Backend}
    /\ pc' = [pc EXCEPT ![c] = p]
    /\ UNCHANGED <<buffer, stop, next_lsn, record, backend, taken, closing, disk, accepted, mine>>

(* memcpy at log_buffer_ + cur_offset_.  Bytes past the array are lost:    *)
(* what they overwrite is not part of the model.                           *)
CopyRecord(c) ==
    LET n == record[c].size
    IN  /\ buffer' = [buffer EXCEPT ![log_index] =
               [i \in 1 .. Capacity |->
                   IF i \in (cur_offset + 1) .. (cur_offset + n)
                   THEN record[c].lsn ELSE @[i]]]
        /\ cur_offset' = cur_offset + n
        /\ accepted' = accepted \o Record(record[c].lsn, n)
        /\ mine' = [mine EXCEPT ![c] = Len(accepted) + n]
        /\ pc' = [pc EXCEPT ![c] = "idle"]
        /\ UNCHANGED <<log_index, flush_size, is_flush, stop, next_lsn, record,
                       asleep, backend, taken, closing, disk, goal>>

(* cv_flush_thread_.wait: c sleeps while a flush is under way. *)
SleepWhileFlushing(c) ==
    /\ is_flush
    /\ asleep' = asleep \union {c}
    /\ UNCHANGED <<bufferVars, stop, next_lsn, pc, record, backend, taken, closing, disk,
                   accepted, mine, goal>>

-----------------------------------------------------------------------------
(* The clients. *)

(* LogManager::AppendLogRecord takes the LSN before it calls Write. *)
AppendLogRecord(c) ==
    /\ pc[c] = "idle" /\ ~closing
    /\ next_lsn <= MaxRecords
    /\ \E n \in Sizes : record' = [record EXCEPT ![c] = [lsn |-> next_lsn, size |-> n]]
    /\ next_lsn' = next_lsn + 1
    /\ pc' = [pc EXCEPT ![c] = "write"]
    /\ UNCHANGED <<bufferVars, stop, asleep, backend, taken, closing, disk, accepted, mine, goal>>

(* Write throws: a record larger than the buffer; its LSN stays used. *)
WriteTooLarge(c) ==
    /\ pc[c] = "write"
    /\ record[c].size > Capacity
    /\ pc' = [pc EXCEPT ![c] = "idle"]
    /\ UNCHANGED <<bufferVars, stop, next_lsn, record, asleep, backend, taken, closing, disk,
                   accepted, mine, goal>>

WriteFits(c) ==
    /\ pc[c] = "write"
    /\ record[c].size <= Capacity
    /\ cur_offset + record[c].size <= Capacity
    /\ CopyRecord(c)

WriteFull(c) ==
    /\ pc[c] = "write"
    /\ record[c].size <= Capacity
    /\ cur_offset + record[c].size > Capacity
    /\ HandOver(c, "write_wait")
    /\ UNCHANGED goal

WriteSleep(c) ==
    /\ pc[c] = "write_wait" /\ c \notin asleep
    /\ SleepWhileFlushing(c)

(* The wait is over: the record is copied, with no second look at the room. *)
WriteResume(c) ==
    /\ pc[c] = "write_wait" /\ c \notin asleep
    /\ ~is_flush
    /\ CopyRecord(c)

FlushCall(c) ==
    /\ pc[c] = "idle" /\ ~closing
    /\ pc' = [pc EXCEPT ![c] = "flush"]
    /\ goal' = [goal EXCEPT ![c] = mine[c]]
    /\ UNCHANGED <<bufferVars, stop, next_lsn, record, asleep, backend, taken, closing, disk, accepted, mine>>

(* Flush returns, to its caller or to the destructor. *)
FlushReturn(c) ==
    /\ pc' = [pc EXCEPT ![c] = IF closing THEN "stop" ELSE "idle"]
    /\ goal' = [goal EXCEPT ![c] = -1]
    /\ UNCHANGED <<bufferVars, stop, next_lsn, record, asleep, backend, taken, closing, disk, accepted, mine>>

FlushNothing(c) ==
    /\ pc[c] = "flush"
    /\ cur_offset = 0
    /\ FlushReturn(c)

FlushSwap(c) ==
    /\ pc[c] = "flush"
    /\ cur_offset # 0
    /\ HandOver(c, "flush_wait")
    /\ UNCHANGED goal

FlushSleep(c) ==
    /\ pc[c] = "flush_wait" /\ c \notin asleep
    /\ SleepWhileFlushing(c)

FlushResume(c) ==
    /\ pc[c] = "flush_wait" /\ c \notin asleep
    /\ ~is_flush
    /\ FlushReturn(c)

(* ~LogBuffer: nobody else uses the object; what is left is flushed first. *)
Destroy(c) ==
    /\ ~closing
    /\ \A d \in Clients : pc[d] = "idle"
    /\ closing' = TRUE
    /\ pc' = [pc EXCEPT ![c] = "flush"]
    /\ goal' = [goal EXCEPT ![c] = mine[c]]
    /\ UNCHANGED <<bufferVars, stop, next_lsn, record, asleep, backend, taken, disk, accepted, mine>>

DestroyStop(c) ==
    /\ pc[c] = "stop"
    /\ stop' = TRUE
    /\ asleep' = asleep \ {Backend}
    /\ pc' = [pc EXCEPT ![c] = "join"]
    /\ UNCHANGED <<bufferVars, next_lsn, record, backend, taken, closing, disk,
                   accepted, mine, goal>>

DestroyJoin(c) ==
    /\ pc[c] = "join"
    /\ backend = "exited"
    /\ pc' = [pc EXCEPT ![c] = "gone"]
    /\ UNCHANGED <<bufferVars, stop, next_lsn, record, asleep, backend, taken,
                   closing, disk, accepted, mine, goal>>

-----------------------------------------------------------------------------
(* BackendThreadMain. *)

backendFrame == <<buffer, log_index, cur_offset, flush_size, stop, next_lsn, pc,
                  record, closing, accepted, mine, goal>>

BackendSleep ==
    /\ backend = "wait" /\ Backend \notin asleep
    /\ ~is_flush /\ ~stop
    /\ asleep' = asleep \union {Backend}
    /\ UNCHANGED <<backendFrame, is_flush, backend, taken, disk>>

BackendTake ==
    /\ backend = "wait" /\ Backend \notin asleep
    /\ is_flush
    /\ taken' = [taken EXCEPT !.size = flush_size]
    /\ backend' = "unlocked"
    /\ UNCHANGED <<backendFrame, is_flush, asleep, disk>>

(* A plausible slip: the flush is declared over before the disk write. *)
BackendPointerClearsFlag ==
    /\ backend = "unlocked"
    /\ taken' = [taken EXCEPT !.from = 1 - log_index]
    /\ backend' = IF taken.size > 0 THEN "write" ELSE "done"
    /\ is_flush' = FALSE
    /\ asleep' = asleep \ Clients
    /\ UNCHANGED <<backendFrame, disk>>

(* flush_buffer_ is read without the lock. *)
BackendPointer ==
    /\ backend = "unlocked"
    /\ taken' = [taken EXCEPT !.from = 1 - log_index]
    /\ backend' = IF taken.size > 0 THEN "write" ELSE "done"
    /\ UNCHANGED <<backendFrame, is_flush, asleep, disk>>

(* LogDiskManager::Write appends to the file, without the lock. *)
BackendWrite ==
    /\ backend = "write"
    /\ disk' = disk \o [i \in 1 .. taken.size |->
                           IF i <= Capacity THEN buffer[taken.from][i] ELSE 0]
    /\ backend' = "done"
    /\ UNCHANGED <<backendFrame, is_flush, asleep, taken>>

(* The lock is taken again: the flush is over, its waiters are woken. *)
BackendDone ==
    /\ backend = "done"
    /\ is_flush' = FALSE
    /\ asleep' = asleep \ Clients
    /\ backend' = IF stop THEN "exited" ELSE "wait"
    /\ UNCHANGED <<backendFrame, taken, disk>>

BackendStop ==
    /\ backend = "wait" /\ Backend \notin asleep
    /\ ~is_flush /\ stop
    /\ backend' = "exited"
    /\ UNCHANGED <<backendFrame, is_flush, asleep, taken, disk>>

-----------------------------------------------------------------------------
(* The steps of a call that has started; a client need not start a call. *)
ClientStep(c) ==
    \/ WriteTooLarge(c) \/ WriteFits(c) \/ WriteFull(c) \/ WriteSleep(c) \/ WriteResume(c)
    \/ FlushNothing(c) \/ FlushSwap(c) \/ FlushSleep(c) \/ FlushResume(c)
    \/ DestroyStop(c) \/ DestroyJoin(c)

ClientCall(c) == AppendLogRecord(c) \/ FlushCall(c) \/ Destroy(c)

BackendThreadMain ==
    \/ BackendSleep \/ BackendTake \/ BackendPointer \/ BackendWrite
    \/ BackendDone \/ BackendStop

(* The object is gone: nothing is left to do. *)
Finished ==
    /\ \E c \in Clients : pc[c] = "gone"
    /\ UNCHANGED logVars

LogNext ==
    \/ \E c \in Clients : ClientCall(c) \/ ClientStep(c)
    \/ BackendThreadMain
    \/ Finished

(* The operating system runs every thread that can run. *)
LogFairness ==
    /\ WF_logVars(BackendThreadMain)
    /\ \A c \in Clients : WF_logVars(ClientStep(c))

LogSpec == LogInit /\ [][LogNext]_logVars /\ LogFairness

-----------------------------------------------------------------------------
(***************************************************************************)
(* The file holds the accepted bytes in order, none lost, repeated or      *)
(* invented, whatever the backend thread and the clients interleave.       *)
(***************************************************************************)
DiskIsPrefix ==
    /\ Len(disk) <= Len(accepted)
    /\ \A i \in 1 .. Len(disk) : disk[i] = accepted[i]

(***************************************************************************)
(* Flush forces the log: when it returns, the file holds every byte up to  *)
(* the last one its caller had handed over.  Both ways of returning count, *)
(* the wait and the early return for an empty buffer.                      *)
(***************************************************************************)
FlushForces ==
    [][\A c \in Clients : goal[c] >= 0 /\ goal'[c] = -1 =>
          \A i \in 1 .. goal[c] : i <= Len(disk) /\ disk[i] = accepted[i]]_logVars

(* Every call returns: nobody waits forever on a condition variable. *)
CallsReturn ==
    \A c \in Clients : (pc[c] # "idle") ~> (pc[c] \in {"idle", "gone"})

(* Every record that a client may write, as bytes. *)
AllRecords == {Record(l, n) : l \in 1 .. MaxRecords, n \in Sizes}

(***************************************************************************)
(* The abstract log: accepted is what has been copied into the buffers,    *)
(* stored is the content of the file.                                      *)
(***************************************************************************)
Abstract == INSTANCE DurableLog WITH
                Records <- AllRecords,
                stored <- disk

(***************************************************************************)
(* The double-buffered writer (Write, Flush and BackendThreadMain)         *)
(* implements the durable log, its fairness included.                      *)
(***************************************************************************)
ImplementsDurableLog == Abstract!DLSpec
=============================================================================
