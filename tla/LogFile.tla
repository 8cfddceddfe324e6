------------------------------ MODULE LogFile -------------------------------
(***************************************************************************)
(* The log file as cells: how LogManager::AppendLogRecord and              *)
(* LogDataPayload::Encode lay records out, how LogDiskManager appends, and *)
(* what RecoveryManager::ReadLog and LogDataPayload::Decode make of the    *)
(* file after a restart, when the process died in the middle of a write.   *)
(*                                                                         *)
(* A field (lsn, tx_id, type, a size, an id) and a byte of a row image is  *)
(* one cell, and every cell is a number, so that a reader that loses its   *)
(* place reads one field as another.  The two buffers of LogBuffer are one *)
(* queue here: that they keep the order is shown in module LogBuffer.      *)
(***************************************************************************)
EXTENDS Integers, SequencesExt

CONSTANTS TxIds,       \* the transaction ids in records
          Inserts,     \* the payloads of INSERT_ROW records
          Deletes,     \* the payloads of DELETE_ROW records
          Capacity,    \* capacity_ of the log buffer, in cells
          MaxRecords,  \* bound: records accepted and not lost
          MaxLsn,      \* bound: LSNs taken in one run
          MaxRuns      \* bound: runs of the program

Payload == [table_id : Nat, page_id : Nat, row_id : Nat, image : Seq(Nat)]

ASSUME PayloadAssumption == (Inserts \union Deletes) \subseteq Payload
ASSUME TxIdsAssumption == TxIds \subseteq Nat
ASSUME FileBoundsAssumption == {Capacity, MaxRecords, MaxLsn, MaxRuns} \subseteq Nat

VARIABLES
    log_file,    \* on disk: the cells of the file
    buffered,    \* the cells in the log buffer
    next_lsn,    \* LogManager::next_lsn_
    up,          \* the process runs
    flushing,    \* a COMMIT or ABORT record was appended: Flush comes next
    run,         \* history: the run of the program
    given,       \* history: the records accepted and not lost in a crash
    stored,      \* history: how many of them are wholly in the file
    torn         \* history: "no", "tail" (the file ends in a torn record), "over"
                 \* (a later run has written behind one)

fileVars == <<log_file, buffered, next_lsn, up, flushing, run, given, stored, torn>>

(* LogRecordType: the numbers the file holds. *)
COMMIT == 1
ABORT == 2
INSERT_ROW == 3
DELETE_ROW == 5
DataTypes == {INSERT_ROW, DELETE_ROW}

NoData == [table_id |-> 0, page_id |-> 0, row_id |-> 0, image |-> <<>>]

FileInit ==
    /\ log_file = <<>> /\ buffered = <<>>
    /\ next_lsn = 1
    /\ up = TRUE /\ flushing = FALSE
    /\ run = 1 /\ given = <<>> /\ stored = 0 /\ torn = "no"

-----------------------------------------------------------------------------
(* Layout. *)

HeaderSize == 4      \* lsn, tx_id, type, payload_size
PayloadFixed == 4    \* table_id, page_id, row_id, image_size

Encode(p) == <<p.table_id, p.page_id, p.row_id, Len(p.image)>> \o p.image

(* A plausible slip: the image is taken to start right behind the row id. *)
DecodeShifted(data) ==
    IF Len(data) < PayloadFixed THEN NoData
    ELSE [table_id |-> data[1], page_id |-> data[2], row_id |-> data[3],
          image |-> SubSeq(data, PayloadFixed, PayloadFixed - 1 + data[4])]

(* Decode: a payload that is too short gives zeros.  image_size is not     *)
(* compared with the payload: an image that ends behind it is undefined.   *)
Decode(data) ==
    IF Len(data) < PayloadFixed THEN NoData
    ELSE [table_id |-> data[1], page_id |-> data[2], row_id |-> data[3],
          image |-> SubSeq(data, PayloadFixed + 1, PayloadFixed + data[4])]

(* The bytes AppendLogRecord hands to LogBuffer::Write. *)
Cells(lsn, tx, type, payload) == <<lsn, tx, type, Len(payload)>> \o payload

(* A plausible slip: < for <= in the loop, so a last record that is all    *)
(* header (a COMMIT) is not read.                                          *)
ReadLogStrict(buf) ==
    LET read[off \in 0 .. Len(buf)] ==
            LET p == off + HeaderSize
                end == p + buf[p]
            IN  IF p >= Len(buf) \/ end > Len(buf) THEN <<>>
                ELSE <<[lsn |-> buf[off + 1], tx |-> buf[off + 2], type |-> buf[off + 3],
                        payload |-> SubSeq(buf, p + 1, end)]>> \o read[end]
    IN  read[0]

(* ReadLog: record after record from the start of the file, until what is  *)
(* left is no whole record.  The file is not cut there.                    *)
ReadLog(buf) ==
    LET read[off \in 0 .. Len(buf)] ==
            LET p == off + HeaderSize
                end == p + buf[p]
            IN  IF p > Len(buf) \/ end > Len(buf) THEN <<>>
                ELSE <<[lsn |-> buf[off + 1], tx |-> buf[off + 2], type |-> buf[off + 3],
                        payload |-> SubSeq(buf, p + 1, end)]>> \o read[end]
    IN  read[0]

-----------------------------------------------------------------------------
(* The writer. *)

(* LogDiskManager::Write: the file was opened for appending. *)
DiskWrite(cells) ==
    /\ log_file' = log_file \o cells
    /\ torn' = IF torn = "tail" /\ cells # <<>> THEN "over" ELSE torn

(***************************************************************************)
(* AppendLogRecord takes an LSN and calls LogBuffer::Write: a record that  *)
(* does not fit behind what is buffered sends that to the file first.      *)
(***************************************************************************)
AppendLogRecord(tx, type, data, payload) ==
    LET cells == Cells(next_lsn, tx, type, payload)
        full  == Len(buffered) + Len(cells) > Capacity
    IN  /\ up /\ ~flushing
        /\ next_lsn <= MaxLsn /\ Len(given) < MaxRecords
        /\ Len(cells) <= Capacity
        /\ next_lsn' = next_lsn + 1
        /\ IF full THEN DiskWrite(buffered) ELSE UNCHANGED <<log_file, torn>>
        /\ buffered' = IF full THEN cells ELSE buffered \o cells
        /\ given' = Append(given, [lsn |-> next_lsn, tx |-> tx, type |-> type, data |-> data])
        /\ stored' = IF full THEN Len(given) ELSE stored
        /\ UNCHANGED <<up, run>>

(* LogBuffer::Write throws for a record larger than the buffer; the LSN    *)
(* stays used.                                                             *)
WriteTooLarge(p) ==
    /\ up /\ ~flushing
    /\ next_lsn <= MaxLsn
    /\ HeaderSize + Len(Encode(p)) > Capacity
    /\ next_lsn' = next_lsn + 1
    /\ UNCHANGED <<log_file, buffered, up, flushing, run, given, stored, torn>>

(* ExecutorContext::LogDataChange: a row was placed or marked. *)
LogDataChange(tx, type, p) ==
    /\ AppendLogRecord(tx, type, p, Encode(p))
    /\ UNCHANGED flushing

(* WriteTxnControlLog: a record without payload; Commit and Abort flush    *)
(* the log next.                                                           *)
WriteTxnControlLog(tx, type) ==
    /\ AppendLogRecord(tx, type, NoData, <<>>)
    /\ flushing' = TRUE

FlushBuffer ==
    /\ DiskWrite(buffered)
    /\ buffered' = <<>>
    /\ stored' = Len(given)

Flush ==
    /\ up /\ flushing
    /\ FlushBuffer
    /\ flushing' = FALSE
    /\ UNCHANGED <<next_lsn, up, run, given>>

(* exit at the prompt: the buffer's destructor flushes. *)
Exit ==
    /\ up /\ ~flushing
    /\ FlushBuffer
    /\ up' = FALSE
    /\ UNCHANGED <<next_lsn, flushing, run, given>>

(* The number of cells of the first k buffered records. *)
BufferedUpTo(k) ==
    LET size[i \in 0 .. k] ==
            IF i = 0 THEN 0
            ELSE size[i - 1] + Len(Cells(0, 0, 0,
                     IF given[stored + i].type \in DataTypes
                     THEN Encode(given[stored + i].data) ELSE <<>>))
    IN  size[k]

(***************************************************************************)
(* The process dies.  Of what is buffered the file has got the first n     *)
(* cells: a write may be under way, of Flush, of a full buffer or of the   *)
(* destructor.                                                             *)
(***************************************************************************)
Crash(n) ==
    LET kept == CHOOSE k \in 0 .. (Len(given) - stored) :
                    /\ BufferedUpTo(k) <= n
                    /\ k < Len(given) - stored => n < BufferedUpTo(k + 1)
    IN  /\ up
        /\ log_file' = log_file \o SubSeq(buffered, 1, n)
        /\ torn' = CASE n = 0 -> torn
                     [] n > 0 /\ torn = "no" -> IF n = BufferedUpTo(kept) THEN "no" ELSE "tail"
                     [] n > 0 /\ torn # "no" -> "over"
        /\ given' = SubSeq(given, 1, stored + kept)
        /\ stored' = stored + kept
        /\ buffered' = <<>>
        /\ up' = FALSE /\ flushing' = FALSE
        /\ UNCHANGED <<next_lsn, run>>

(* A plausible slip: the file is opened without std::ios::app or in, which *)
(* empties it.                                                             *)
OpenTruncates == <<>>

(* The constructor of LogDiskManager: the file as it is, or a new one. *)
Open == log_file

(* The next run: the log is opened and read (Recover), then LogManager     *)
(* counts LSNs from 1 again.                                               *)
Restart ==
    /\ ~up /\ run < MaxRuns
    /\ log_file' = Open
    /\ next_lsn' = 1
    /\ up' = TRUE
    /\ run' = run + 1
    /\ UNCHANGED <<buffered, flushing, given, stored, torn>>

Ended ==
    /\ ~up /\ run = MaxRuns
    /\ UNCHANGED fileVars

FileNext ==
    \/ \E tx \in TxIds :
          \/ \E p \in Inserts : LogDataChange(tx, INSERT_ROW, p)
          \/ \E p \in Deletes : LogDataChange(tx, DELETE_ROW, p)
          \/ \E type \in {COMMIT, ABORT} : WriteTxnControlLog(tx, type)
    \/ \E p \in Inserts : WriteTooLarge(p)
    \/ Flush \/ Exit
    \/ \E n \in 0 .. Len(buffered) : Crash(n)
    \/ Restart \/ Ended

FileSpec == FileInit /\ [][FileNext]_fileVars

-----------------------------------------------------------------------------
(* What Recover works with: data records are decoded (Redo). *)
Decoded(log) ==
    [i \in DOMAIN log |->
        [lsn |-> log[i].lsn, tx |-> log[i].tx, type |-> log[i].type,
         data |-> IF log[i].type \in DataTypes THEN Decode(log[i].payload) ELSE NoData]]

(***************************************************************************)
(* Wherever the process died in a write, ReadLog and Decode give back      *)
(* exactly the records that are wholly in the file, field by field and in  *)
(* order, those of every Flush that returned among them.  It holds until a *)
(* run writes behind a torn record.                                        *)
(***************************************************************************)
ReadsWholeRecords ==
    torn # "over" => Decoded(ReadLog(log_file)) = SubSeq(given, 1, stored)

(***************************************************************************)
(* A torn record is dropped, as ReadLog's comment says, and nothing else:  *)
(* every record wholly written, behind a torn one too, is read.  Violated: *)
(* the file is not cut, and the next run's records become its payload.     *)
(***************************************************************************)
OnlyTornIsDropped == Decoded(ReadLog(log_file)) = SubSeq(given, 1, stored)

(***************************************************************************)
(* What ReadLog has once returned it returns again after every later       *)
(* write, crash and restart, a write behind a torn record included: what   *)
(* follows a record cannot hide it.                                        *)
(***************************************************************************)
NeverForgets == [][IsPrefix(ReadLog(log_file), ReadLog(log_file'))]_fileVars
=============================================================================
