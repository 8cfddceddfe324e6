# A TLA+ verification project for YourSQL

YourSQL (`src/`) is a small relational database in C++: a terminal parses SQL,
plans it, and runs it on a storage engine with a buffer pool, slotted pages,
MySQL-like multi-version concurrency control (record headers with a transaction
id and an undo pointer, read views, undo pages) and a write-ahead log with a
recovery pass at start.

This directory holds TLA+ models of the engine's core, TLC configurations that
check them on small instances, and TLAPS proofs for instances of every size.
`PROJECT.json` is the index: the components, the runs, the mutants, the source
lines of each definition, the findings, the hazards and the theorems.

Paths below are relative to `src/src/` unless they start with `src/`.

## 1. Inventory

| Component | State | Operations | Why it is hard |
|---|---|---|---|
| Transaction manager (`transaction/transaction_manager.cpp`) | `next_txid_`, `active_txns`, `txn_state_`, per transaction the read view and write set | `Begin`, `Commit`, `Abort`, `CreateReadView`, `SetTxnState`, `AdvanceNextTxId` | Each call takes and drops `mutex_` several times; the log is written outside it |
| Read view (`transaction/read_view.cpp`) | creator, low and up water marks, active ids | `IsVisible` | It asks for states as they are *now* and must answer for *then* |
| Log buffer, log manager (`log/`) | two byte buffers, `cur_offset_`, `flush_size_`, `is_flush_`, `stop_`, `next_lsn_`, the log file | `AppendLogRecord`, `Write`, `Flush`, destructor, backend thread | Two kinds of threads, two condition variables, the disk write is outside the lock |
| Buffer pool, LRU list, data file (`buffer/buffer_manager.cpp`, `include/buffer/lru_manager.h`, `storage/posix_disk_manager.cpp`) | `free_pages_`, `buffer_pages_`, pin counts, LRU list, frames, the file and the stream's failbit | `NewPage`, `FetchPage`, `Flush`, `Release`, `TouchPage` | Three lists must agree on every frame; failures of the stream are silent |
| Versioned table (`executor/`, `storage/page/table_page.cpp`, `transaction/undo_log_manager.cpp`) | record headers, undo images, write sets, row count | INSERT, DELETE, UPDATE, sequential scan, roll-back | Versions of several transactions in one chain, roll-back without the manager's lock |
| Page layouts (`storage/page/table_page.cpp`, `transaction/undo_log.cpp`) | offsets, slots, free space | insert, mark, restore, append image | Off-by-one at 4096 bytes; two formats with different overheads |
| Row serialisation (`storage/page/row.cpp`) | none | `Serialize`, `Deserialize` | Type by type conversions |
| Recovery (`transaction/recovery_manager.cpp`) | reads the log, writes pages and the manager's counters | `ReadLog`, `Analysis`, `Redo` | Crash points; counters that restart from 1 |
| Meta page, catalog (`buffer/meta_page.cpp`, `catalog/`) | tables, columns, row counts, page ids | `AddTable`, `UpdateTableRows`, `ReadMata`, ... | In-place updates, capacity of one page |
| Terminal, session (`main.cpp`, `include/client/client_session.h`) | the current transaction, isolation level, autocommit | BEGIN, COMMIT, ROLLBACK, statement loop, catch block | Which failures leave a transaction behind |
| Expressions (`include/planner/physical/expression/`) | none | comparison, LIKE, AND, OR | NULL columns, operands of different types |
| Parser, binder, planner (`parser/`, `binder/`, `planner/`) | the catalog's names | translation of trees, resolution of names | Two statements test a clause in two ways; look-ups that insert |
| B+ tree index (`index/`) | tree pages | insert, search, split | Its templates cannot be instantiated (section 6) |
| Lock manager | none | none (an empty class) | - |

How they interact: the terminal calls `Begin`, hands the transaction to the
executors and ends it with `Commit` or `Abort`. Executors fetch pages from the
buffer pool, ask the read view which versions count, append undo images through
the undo log manager, append data records to the log, and `Release` pages, which
forces a dirty page to the data file at once. `Commit` and `Abort` append a
control record and `Flush` the log. The only second thread of the shipped
terminal is the log's backend thread; the manager, the log manager and the log
buffer carry mutexes and are written to be called from several.

What makes each part correct:

* transaction manager: a read view is a snapshot whatever happens after it; two
  views agree on the order of commits; an acknowledged commit is on disk;
* log: the file is a prefix of what was accepted, `Flush` forces, every call
  returns, LSNs are in file order;
* buffer pool: a frame is free or referenced and never both, no write is lost;
* versioned table: the engine implements snapshot isolation; roll-back leaves
  nothing behind; the row count is exact;
* log file: the reader gives back every whole record, wherever a write was cut;
* layouts and codec: what is written is read back, at the size limits as well,
  and only what fits no page is turned away;
* statements: a clause selects the rows it describes, for SELECT, DELETE and
  UPDATE alike;
* recovery: after a crash the committed transactions, all of them and no others,
  are visible;
* session: every failed statement ends its transaction or leaves it usable.

## 2. The models

| Module | Models | Built on |
|---|---|---|
| `ReadView` | read views, as operators | - |
| `TransactionManager` | ids, states, views, control records | `ReadView` |
| `LogBuffer`, `DurableLog` | the write-ahead log and its promise | `DurableLog` by refinement |
| `LogFile` | the cells of the log file, torn writes, `ReadLog` | - |
| `BufferManager` | pool, LRU list, data file | - |
| `MVCCTable`, `SnapshotIsolation` | versions, undo chains, roll-back, and the promise | `TransactionManager`; `SnapshotIsolation` by refinement |
| `Session` | the terminal's commands and failures | `TransactionManager` |
| `Recovery` | crashes, restarts, `Recover` | `ReadView` |
| `MetaPage` | the table directory, and a start over it | - |
| `HeapFile` | page layouts, chains, undo pages, a restart | `MetaPage` |
| `Statements` | values, rows, clauses, select lists | - |

The modules named `...Proofs` hold the theorems about the module in front of
that name (section 4). The modules named `MC...` give constants their values;
`MCMVCCTable` also says which interleavings its run leaves out, and `MCSession`
bounds the table.

### `ReadView` - read views as operators
`MakeReadView` is what `CreateReadView` records, `IsVisible` the chain of tests
of `ReadView::IsVisible`. Both are pure operators of the manager's state.

### `TransactionManager` - ids, states, views, control records
One action per stretch of a call between two points where the code drops
`mutex_` or calls another component:

| Action | Code |
|---|---|
| `BeginRegister`, `BeginReadView` | `Begin`: the id is registered under one lock, the view taken under another |
| `RefreshReadView` | the statement loop of a READ COMMITTED session (`main.cpp`) |
| `CommitPublish`, `CommitLog`, `CommitFlush` | `Commit`: state and active map under the lock, then the COMMIT record, then `Flush` |
| `AbortLookup`, `AbortPublish`, `AbortLog`, `AbortFlush` | `Abort`: look-up, roll-back (in `MVCCTable` and `Session`), state, ABORT record, `Flush` |

`OneThread` says whether calls may interleave. What is known to be on disk
(`durable`) depends on it. With one thread, as in the terminal, `FlushLog` forces
the whole log: that is what `LogBuffer` is shown to do for its only client (a
buffer that runs full may write a record earlier, which only helps the
properties here). With several threads `LogBuffer::Flush` may return while the
caller's record is in flight (`MCLogBufferTwoClients`), so there any set of records
may be on disk afterwards, and only the properties of read views are checked.
`snapshot` is a history variable: the transactions that were COMMITTED when the
view was taken.

### `LogBuffer` and `DurableLog` - the write-ahead log
`LogBuffer` has one action per critical section of `mutex_` or access outside
it, for the client threads and for `BackendThreadMain`, and models sleeping and
notification on both condition variables (`asleep`). A byte is the LSN of its
record; the buffers keep stale bytes when they are swapped, so an offset error
shows in the file. `DurableLog` is the promise: an ordered log of which the disk
holds a prefix, and a `Flush` that returns when the caller's records are stored.
`ImplementsDurableLog` is the refinement, fairness included.

### `LogFile` - the log file and its reader
`LogBuffer` and `Recovery` treat a log record as one thing; here it is a header
of four cells (`lsn`, `tx_id`, `type`, `payload_size`) and a payload that
`LogDataPayload::Encode` built, and every cell is a number, so a reader that
loses its place takes one field for another. `AppendLogRecord`, `LogDataChange`,
`WriteTxnControlLog`, `Flush` and the destructor write; `Crash(n)` is a death
after n cells of what is buffered; `Restart` opens the file as it is and counts
LSNs from 1. `ReadLog` and `Decode` are the loop and the conversion of
`recovery_manager.cpp` and `log_payload.h`. The two buffers are one queue: that
they keep the order is `LogBuffer`'s result. `given`, `stored` and `torn` are
history.

### `BufferManager` - pool, LRU list and data file
One action per public operation, with `LRUManager` and `PosixDiskManager`
inside. `FetchPage` is two actions (`FetchResident`, `FetchLoad`) for its two
branches. A page's content is an abstract value; the stream's sticky failbit is
modelled because a read past the end sets it and only a write clears it.
`Modify` is external to the pool: a caller changes a page it holds. `held`,
`latest` and `unwritten` are history variables (references held by callers, the
last content given to a page, new pages whose header is not written yet).

A behaviour is one run of the program, over an empty file or one that earlier
runs left. `Fetchable` says who fetches what: first `MetaPage`'s constructor page
0, which fails on an empty file and leaves the stream failed until the first
write; then `Redo` the pages that log records name, one at a time, until
`RecoverReturns`; then statements the pages that `NewPage` has made in this
process. `LogMatchesFile` says that the pages the log names are in the data file.
It holds for a file and a log that belong together, since a page is forced before
its record can be on disk.

### `MVCCTable` and `SnapshotIsolation` - statements, versions, roll-back
`MVCCTable` extends `TransactionManager` with one table: `rows` (header fields
`trx_id`, `roll_ptr`, the DEL and DEAD marks, the value), `undo` (images),
`write_set` and the row count. A RID is a position, since records are only
appended. A statement is one action (the engine runs it to its end on the
caller's thread) that ends, or throws after any of its hits (`DeleteFails`,
`UpdateFails`: an UPDATE may leave its last hit marked and without a new
version) and goes straight to `Abort`; `RollbackWrite` takes one write back,
because roll-back runs without the manager's lock. UPDATE marks the old record and appends the new one,
both pointing to the same image; its row count is -1 and +1 per hit, hence
unchanged. The image of a record keeps the header bytes the code saves, so a
scan of a chain sees the writer of each version. The field `row` is history: the
INSERT a version descends from.

`SnapshotIsolation` knows no versions, chains or read views: a running
transaction has a private copy (`view`), the versions it `added` and the
committed versions it `removed`. `ImplementsSnapshotIsolation` is the refinement;
the mapping computes `db` and `view` by running the code's own scan.

### `Session` - the terminal's commands and their failures
Commands of `main.cpp` on top of the transaction manager's own actions:

| Action | Code |
|---|---|
| `Begin`, `BeginReturns` | BEGIN: refused inside a transaction, else `Begin` and `SetTxn` |
| `Commit`, `Rollback` | COMMIT and ROLLBACK: the manager's call, then `ClearTxn` |
| `Autocommit`, `AutocommitBegun`, `Statement` | `ExecuteSQL` outside and inside an explicit transaction |
| `Write`, `StatementDone`, `AutocommitDone` | the executor's writes, the end of the statement, the commit of autocommit |
| `StatementFails` | the catch block: `Abort` for autocommit and explicit transactions |
| `UndoWrite`, `RollbackThrows`, `RollbackDone` | `RollbackWrites`, newest write first: `MarkDead` of an inserted record, `RestoreRecord` of a marked one, or `FetchPage` throws |
| `EndLogged`, `EndReturns` | the log record of the end, and the session's pointer |

The table is its record headers (`records`: transaction id and the flags DEL and
DEAD) and its row count; a statement inserts records (`InsertTuple`) and marks
those it finds unmarked and visible (`MarkDelete`, which does not look at DEAD).
`write_set` keeps each write with the header it replaced. `inserter` is history.

A statement may throw after any of its writes. Roll-back may throw as well, and
this is not an invented failure: a statement that throws does not `Close` its
executors, the pages they hold stay pinned, the pool of 128 frames runs out, and
`FetchPage` throws in `RollbackWrites`. The exception leaves `Abort` before the
state changes and the catch block before `ClearTxn`, and the write set keeps its
length: the next try visits every header again, those it has put back and those
the session has marked since. `given_up` records such transactions; the
properties say what holds in spite of it, and section 5 what does not. In the
code a pool that ran out stays so and a later try throws again; the model lets it
go on, which includes the code's behaviours.

### `Recovery` - crashes, restarts and `RecoveryManager::Recover`
What survives the process is a table page (`rows`, `page_lsn`), the undo images
and the log file (`wal`); `tail` is the log buffer. A step is the change of one
record, because pages are forced to disk record by record: the process can die
between any two. `Exit` is a normal end (the log's destructor writes the tail),
`Crash(n)` a death between any two record changes, or inside a flush (of `Flush`,
or of a `Write` that has to make room) that has put the first n records of the
tail on disk; the rest of the tail is lost. Unless `LoseTxn` is `TRUE` the log
file must then have a record of the open transaction, if it has changed the page
at all (`Known`): the process may die inside a transaction, between the two
records of an UPDATE or in the middle of a roll-back once a first record of the
transaction has left the buffer. `LoseTxn` allows a death before that.
`Analysis`, then `RedoApply` and `RedoSkip` record by record, are the restart;
a crash may hit the restart too.

One session runs one transaction at a time, as the terminal does. Versions are
named by the record that placed them; `db` is history, the versions committed as
far as the log on disk tells. Three limits: the directory is taken to be read
back before `Recover` runs; DELETE and UPDATE happen in the first run only,
because page ids restart at 1 in each process and a new undo page of a later run
takes the id of an old page (`HeapFile`); a log record is atomic (`LogFile`).

### `MetaPage` and `HeapFile` - the directory, page layouts, chains
`MetaPage` has one position per field: a name of length n takes n positions,
every other field one. `AddTable` writes an item at `last_point`, the in-place
updates find an item through its recorded offset, and `ReadMata` reads the page
as a restart would. An item that runs past the page (`overrun`, possible since
the capacity check leaves the columns out) ends the behaviour: what the writes
then hit is not defined. A new process starts over the file in one of two ways:
`StartWithoutDirectory` is the terminal, whose catalog is empty and which never
calls `Init`; `StartFromDirectory` is a program that builds its catalog from the
meta page, the constructor that only tests use.

`HeapFile` gives tables and the undo log their pages: offsets, slots, free space
and the link to the next page. Its operators take a *store* and return one, in
the order of the code's calls, so that a statement that throws half-way keeps
what it had already done (a new page, for example). INSERT is one action;
DELETE and UPDATE are one action per row they hit. `RestartTerminal` and
`RestartFromDirectory` are the two starts: page ids count from 1 again and the
undo log has no page. `clash` records that `NewPage` returned the id of a page
that a table or an undo pointer still names; what the program makes of such a
page is left out, so the properties speak of behaviours without a clash.
`gave_up` is history: the rows that an operation did without. Who sees a record, and what is logged about
it, are the subjects of `MVCCTable` and `Recovery`.

### `Statements` - values, rows, clauses, select lists
INSERT, DELETE and UPDATE on one table in autocommit mode, and SELECT as a state
function. The chain is the code's: literals (`ToInt` keeps the width of `int`),
names (`BoundNames`: an unknown INSERT column resolves to id 0 and is added to
the catalog), the null bitmap and fields (`Serialize`, `Deserialize`, in cells
instead of bytes), `Evaluate` for the operators that transformer
(`TransformsWhere`) and binder (`BoundCompExpression`) take, and the two ways the outcome of a clause is tested (`FilterThrows` for SELECT,
`MatchThrows` and `Matched` for DELETE and UPDATE). A select list goes through
`transformSelect` (other items are dropped), `BoundSelectStatement` (a list of
one item becomes all columns), `Projected` and `PrintTupleThrows` (a value is
printed with the type of the schema's column at its place). `table` is history, the row
each record was to hold; `Holds` is the reference meaning of a clause, with a
NULL column read as its type's default.

## 3. The runs

| Run | Config | Bounds | Shows |
|---|---|---|---|
| `txn` | `MCTransactionManager` | 3 transactions, calls interleave | types, `ReadViewIsSnapshot`, `ViewsAreOrdered` |
| `log_one_client` | `MCLogBuffer` | 1 client and the backend, 3-byte buffers, records of 1, 2 and 4 bytes, 5 records | types (offsets inside the buffer), `DiskIsPrefix`, `FlushForces`, `CallsReturn`, `ImplementsDurableLog` |
| `log_file` | `MCLogFile` | buffer of 13 cells, rows of 0, 1 and 6 bytes, 3 records kept, 3 runs | `ReadsWholeRecords`, `NeverForgets` |
| `buffer` | `MCBufferManager` | 3 frames, 4 pages (the directory's among them), 2 references per page, any file of up to 4 pages, `LogMatchesFile` | types, `FreeListExact`, `PinsAreReferences`, `NoLostWrite`, `LruWithinFree` |
| `mvcc` | `MCMVCCTable` | 3 transactions (the third READ COMMITTED), 3 records, 1 value, roll-backs interleave | `ImplementsSnapshotIsolation`, `RowCountExact`, `AbortLeavesOnlyDead`, `MarkIsOwned` |
| `mvcc_conflict` | `MCMVCCConflict` | as `mvcc`, one thread | violation of `SecondWriterFails` |
| `mvcc_repeatable_read` | `MCMVCCRepeatableRead` | as `mvcc`, one thread | violation of `RepeatableRead` |
| `recovery` | `MCRecovery` | 3 transactions, 3 records, 2 runs that write, any number of restarts, no `LoseTxn` | `FirstRecovery`, `NoDirtyVersion`, `FreshIds`, `RecoveredOnce`, `RedoIsNoOp` |
| `recovery_lost_tail` | `MCRecoveryLostTail` | 1 run that writes, `LoseTxn` | violation of `FirstRecovery` |
| `session` | `MCSession` | 3 transactions of up to 3 writes, one thread, states with up to 2 records are continued | `AckedCommitIsDurable`, `SessionTxnIsActive`, `NoLeakedTxn`, `CommittedIsWhole`, `AbortedIsUndone` |
| `heap` | `MCHeapFile` | 3 tables, directory of 28 fields, pages of 17 units, rows of 3, 11 and 12 units, 6 pages, a restart after at most 2 | `MetaReadsBack`, `RecordsDisjoint`, `ChainComplete`, `RowCountIsScan`, `UndoIsImage`, `GivesUpOnlyOversize` |
| `statements` | `MCStatements` | 3 columns, 3-bit integers, 6 INSERTs, 4 SET lists, 11 clauses, 12 select lists, 4 records | `StoredIsGiven`, `SelectIsPreview`, `ClauseMeansWhatItSays`, `ListPrintsItsColumns` |

Five more configurations are not among the runs. Each shows, with the same
modules, what becomes of a promise when a condition of the runs is dropped; TLC
finds the named property violated, and section 5 says how:

| Config | Module | Condition dropped | Violated |
|---|---|---|---|
| `MCLogBufferTwoClients` | `MCLogBuffer` | one client | `FlushForces` |
| `MCLogFileTorn` | `MCLogFile` | no write behind a torn record | `OnlyTornIsDropped` |
| `MCBufferManagerRedo` | `MCBufferManager` | the pages the log names are in the file | `NoLostWrite` |
| `MCRecoveryRedo` | `MCRecovery` | only the first two runs write | `EveryRecovery` |
| `MCSessionRetry` | `MCSession` | each write is taken back once | `UndoKeepsRowCount` |

Why the bounds are enough to be of interest. Three transactions are what it
takes for a view to have one older transaction committed, one in flight and its
own. Capacity 3 with records of 1, 2 and 4 bytes gives an exactly full buffer, a
record that does not fit the rest, and one that fits no buffer; five records go
twice round both buffers. A log buffer of 13 cells is filled to the last
cell by a row of one byte and a COMMIT, takes no two data records, and no row of
6 bytes at all; the process dies after any of the cells, in each of three runs. Of three frames the directory keeps one; the other two
are too few for the three other pages, and every one of them is reused for another page. Three records and an undo log allow
an UPDATE of an UPDATE of a row, and its roll-back. In `mvcc` the action
constraint `OnlyRollbackInterleaves` lets the steps of `Begin` and the log steps
of `Commit` and `Abort` follow each other at once: they touch no row and no
image, and the run `txn` interleaves them; a roll-back is open to the statements
of others after each write it takes back. Two runs that write, and
restarts without writes between and after them, are what it takes for a log of
one run to be redone on pages of another. Three writes and two records let a
session insert a record, mark it, and have a roll-back throw before, between and
after the two. In a heap page of 17 units two rows of
3 fit and a third fails by its slot alone; 11 fills an empty table page to the
last unit and does not fit an empty undo page; 12 fits neither. The third table
finds the directory full, and one of the others has a column list that the
capacity check does not count. The statements hold partial and repeated column
lists, a name that is no column, an integer past the width, strings of 0, 1 and
2 characters and literals of the wrong type; each operator of a clause occurs.
A restart of the heap after one or two pages lets the next process reach the
ids of both.

Deadlock is not checked where ids, pages or records are used up and the model
has to stop (`CHECK_DEADLOCK FALSE`); in the log, the buffer pool and recovery
it is checked.

Fairness. `LogSpec` assumes weak fairness of the backend thread and of each
client *inside* a call: the operating system eventually runs a thread that can
run, and a thread that sleeps on a condition variable cannot. No client is
assumed to start a call. Nothing else in the project assumes fairness.

Every property of a passing run has a mutant in `PROJECT.json`: a changed
definition (a dropped guard, a missing notification, a header half restored)
under which TLC finds that property violated in the same run. The mutated
definitions stand before the originals, marked "a plausible slip".

## 4. The proofs

TLC shows a property on a small instance; the theorems below hold for every
value of the constants (any number of transactions, records, frames, pages and
references, any capacity and record sizes), from the assumptions that stand
beside each constant and from nothing else, except where a hypothesis is named.
Each module `XProofs` states an inductive invariant, shows that it holds
initially, that every action keeps it (one case per action), and
derives the properties of the runs from it. The parts that no run checks were
checked by TLC on the runs' instances before they were proved.

### `TransactionManagerProofs`
For every `MaxTxid` and both values of `OneThread`: `TxnTypeCorrect`,
`SnapshotTheorem` (`ReadViewIsSnapshot`), `ViewOrderTheorem`
(`ViewsAreOrdered`); under the hypothesis `OneThread`, `DurabilityTheorem`
(`AckedCommitIsDurable`).
The inductive invariant is `TxnInv`, five parts:

* `TxnTypeOK`;
* `PhaseInv` ties the place of a call to the manager's state: which phases an
  id in `active_txns` can be in, which state each phase has, that ids at and
  above `next_txid` are untouched. Without it `Commit` could end an unknown
  transaction;
* `ViewInv` says what a view has recorded: its water marks bracket the ids, the
  recorded active ones had begun, everything below the low mark that is not
  active and not in the snapshot has aborted. This is the part that makes
  `ReadViewIsSnapshot` inductive: a commit after the view either is of an id at
  or above the low mark or of a recorded active id, so `IsVisible` goes on
  saying no although it reads the new state;
* `OrderInv` says that the snapshots form a chain (they contain only committed
  transactions, `CommittedTxns` only grows, so the newest is the largest);
* `LogInv` says which control records the log holds in each phase and, with one
  thread, that the COMMIT record of a transaction whose call has returned is on
  disk.

`TxnStep` (every step keeps `TxnInv`) is what the modules that extend the
manager build on.

### `SessionProofs`
`SessionTxnTheorem`, `NoLeakTheorem`, `CommittedTheorem`, `AbortedTheorem`, one
per property of the run `session`. `SessionStepsManager` shows that every step
of the terminal is one of the manager or leaves it alone, so `TxnInv` carries
over; the only exception, a roll-back that throws, is `ThrowKeepsManager`. The
rest of `SessInv`: `JobInv` ties the command in progress to the manager's phase
and to the session's pointer, `AttendedInv` says that an open transaction is
one somebody works for or one that was given up. The others are about headers
and write sets. `RecordInv`: an unmarked record carries its inserter's id, and
whoever's id a record carries keeps a write of it. `WriteSetInv`: the header that
a DELETE saved is unmarked and the inserter's, and the inserter is committed or
the transaction itself, with its INSERT before. `DamageInv`: only roll-back makes a
record dead and only the marker's own takes a mark away, so that a transaction
without one is whole. `MarksInv`: while somebody works for a transaction nobody
else marks its records. `UndoneInv`: during a roll-back a record that carries the
id is dead or among the writes still to visit. This is what survives a second
visit, where putting a saved header back clears the dead flag: the INSERT of that
record is older than its mark and is visited after it.

### `MVCCTableProofs`
`RowCountTheorem`, `AbortTheorem`, `NoConflictTheorem` (the conflict check is dead
code, which is why `mvcc_conflict` is violated) and the action property
`MarkOwnerTheorem`, for any transactions, records and values, any set of READ
COMMITTED transactions, roll-backs that interleave with statements, and
statements that throw after any of their hits. None of the properties is
inductive: what they rest on is that, until a transaction has ended, its write
set is exactly what its roll-back needs. `ListedInv`: every live record with its
id is in the write set. `KeptInv`: every entry names a record that still carries
the id, is not dead and, for a DELETE, is marked, with an earlier header that is
its own or of a committed transaction. `OwnInv` and `PairInv`: two entries for
one record are an INSERT followed by a DELETE that restores the header to the
transaction itself. `DeadInv`: dead records are of transactions that roll back
or have. `Rank` and `InOrder` (the hits of a statement in scan order) are
definitions without recursion so that `RankInjective` and the lemmas after it
can say what they return.

`IsolationTheorem`: `MVCCSpec` implements `SnapshotIsolation`, under the mapping
of `MVCCTable`, for the same range of instances. The abstract state is made of
what scans return, so every step has to be followed through every scan. The proof
first leaves the code's scan behind: `TableOf(V, rows, undo)` is the table that
shows what the transactions in `V` wrote, and `Mapped` says that the committed
table is the one of the committed transactions and the view of a transaction the
one of its snapshot and itself. This needs that the walk along an undo chain is
defined (`WalkExists`) and returns what the code's recursive function returns
(`ChainIsWalk`). The inductive invariant `RefineInv` adds to the one above

* `HeadInv`: chains stay within a row and lead to older images, and the image
  under a delete mark is the version that the mark deletes; `StartedInv`: ids in
  headers and images are of transactions that have begun, so a new transaction
  has no versions yet;
* `SavedInv` and `MarkInv`: the header that a DELETE of the write set saved is the
  one in the image under the mark, and every mark of a transaction that has not
  ended has such an entry. Hence what a roll-back puts back is what the scans of
  the others went on finding while the mark was there;
* `HoldInv`: a version that is not committed is an INSERT of its writer's write
  set, entered after the DELETE of the version it replaces. Roll-back goes from
  the newest write to the oldest, so the new version dies before the old one is
  given back;
* `LineInv`: of two live records of one row the older is marked, and every view
  that shows the newer one's version shows the mark. Hence what is shown of a row
  is one version, and a commit changes the table by exactly what the
  transaction added and removed.

`LineInv` speaks of every set that a scan may be asked for (`Views`): the
committed transactions, those with one transaction in flight, and each snapshot
with its owner. `RefineStep` shows `RefineInv` preserved, one lemma per action;
the `...Map` lemmas turn a change of the tables into a step of
`SnapshotIsolation`; `IsolationStep` joins them: `Begin`, `Commit` and `Abort` for
the manager's calls, `Refresh` or a stuttering step for a SELECT, `Insert`,
`Delete`, `Update` and `Fail` for the other statements, `GiveBack` or a stuttering
step for each write rolled back, `AbortDone` when the abort is published.

### `BufferManagerProofs`
`BufTypeCorrect`, `FreeListTheorem`, `PinTheorem`, `NoLostWriteTheorem`,
`LruTheorem`; all but `NoLostWriteTheorem` whatever Redo fetches, that one under
the hypothesis `LogMatchesFile`, without which it is false (`MCBufferManagerRedo`). The
invariant has two halves. `PoolInv` adds to the properties `FreeIsClean`
(`Release` cleans the frame it frees, so it can be reused without a write) and
`NotYetMade` (once `Recover` has returned, page ids not handed out are unused).
`DataInv` adds `CleanIsStored` (a clean frame's page is in the file as it is,
unless its header was never written), without which `NoLostWrite` is not kept by
the last `Release`; `FailedIsEmpty` (the stream is only failed while the file is
empty, so the failure of the start-up read can hide no page: the first write
clears it); and `MadeHasContents`.

### `LogBufferProofs`
`LogTypeCorrect`, `DiskPrefixTheorem`, the action property `FlushForcesTheorem`
and `LogRefinement`: `LogSpec` implements `DLSafety`, the part of `DurableLog`
without fairness, under the mapping of `ImplementsDurableLog`. The hypothesis is
`OneClient`, which is what the terminal has; with a second client the statements
are false (section 5). `TurnInv` says that client and backend take turns, which
is why the swap cannot hit a flush in progress; `ContentInv` that what was
accepted is the file, followed by the bytes handed over, followed by the bytes
in `log_buffer_`; `GoalInv` that a `Flush` waits for bytes that exist.

### `LogFileProofs`
`ReadsWholeRecordsTheorem` and the action property `NeverForgetsTheorem`, for any
transactions and rows, any size of the log buffer, and any number of writes,
crashes in the middle of one, and runs. The assumption is that ids, sizes and
image bytes are naturals (`PayloadAssumption`, `TxIdsAssumption`). What `ReadLog`
returns says nothing of the records that are still buffered, so the properties are
not inductive. `FileInv` says where each accepted record ends: there are positions
at which the cells of the records lie one behind the other, in the log buffer for
the records that are not stored (`BufferLaid`), and in the file for those that are,
with no whole record behind the last (`FileLaid`, until a run has written behind a
torn record). `LaysJoin`, `LaysCut` and `LaysOne` say how such a layout grows with
a write and is cut by a crash; `CountsCells` that the number of whole records in
the first n cells, which `Crash(n)` chooses, is the one the positions give;
`ReadsLayout` that `ReadLog` moves from position to position. `ReadLog` is a
recursive function of an offset; facts about it are shown by taking the offset
nearest to the end of the file at which one fails (`LeastOf`), as for the undo
chains of `RecoveryProofs`. `NeverForgets` needs no layout: `WritesKeepTheLog` is
true of every file.

### `RecoveryProofs`
`RedoNoOpTheorem` (an action property, with transactions unknown to the log too): the
invariant `RedoInv` says that in the first run, and until the second writes, no
data record of the log, buffered or in the file, has a larger LSN than the page.
`FreshIdsTheorem`, under the hypothesis `~LoseTxn` (whoever changed the page has
a record in the log file when the process dies): `IdInv` says that every id in a
header, an undo image or a write set is the id of a data record of the log, and
`Analysis` moves `next_txid` past those; without the hypothesis it is false, which
is the finding of `recovery_lost_tail`.

`FirstRecoveryTheorem`, `NoDirtyVersionTheorem` and `RecoveredOnceTheorem`, under
the same hypothesis, for any number of transactions, records, runs, crashes and
restarts, with deaths in the middle of a transaction, of an UPDATE, of a roll-back
and of a flush. They speak of what a scan finds at the end of the undo chains, and rest
on `RecoverInv`, which adds to the parts above

* `StatusInv`: outside of a crash the states of transactions are those of their
  log records (`AnalysisTells` shows that `Analysis` restores this), so that a new
  read view sees the transactions whose COMMIT record is on disk and no others
  (`ReaderSees`);
* `PageInv`: the image of a marked record is the record as it was; the pointer of
  a record whose transaction is not on disk is null or *held*, which means that it
  is the pointer of a record that the same transaction marked. `HeldChain` follows
  such a chain down: every image on it is of the same transaction until it reaches
  a version that is committed, and that version is the one of the marked record.
  `Redo` of a third run marks records without an image (`Lost`), which hides a
  committed version and is the finding of `MCRecoveryRedo`, but never shows one
  that is not;
* `WorkInv`: until its transaction has ended, the write set lists exactly the
  records that carry its id, the newest entry last, with an UPDATE's mark before
  the record that points to its image. Without the order a roll-back in the middle
  could leave a record that points to an image nobody holds (`NewestWrite`).

The walk along a chain is a recursive function over the pointers. `WalkExists`
shows, by taking the smallest pointer from which the walk would not be defined,
that the function exists because pointers lead to older images, and
`ChainUnfolds` what it returns.

### `HeapFileProofs`
`DirectoryReadsBack`, `RecordsAreDisjoint`, `ChainsAreComplete`,
`RowCountsAreScans`, `UndoLeadsToImage` and `OnlyOversizeIsRefused`, one per
property of the run `heap`, for any tables, names and columns, any sizes of pages,
headers and rows, and any number of pages. The inductive invariant `HeapInv` is
`HeapTypeOK`, `GivesUpOnlyOversize` and

* `MetaInv`: there is an order of the tables (that of their creation) in which the
  items of the meta page lie one behind the other (`InOrder`), each field is at
  the offset where `ReadMata` looks for it (`Stored`), and the header agrees with
  the catalog. `DirectoryRead` concludes that a reader which only knows where the
  first item starts finds all of them;
* `PagesOK(Store, ch)` for some `ch`, as long as no page id in use was handed out
  again. `ch` gives each table the sequence of its pages, so that nothing has to be
  said about `Chain`, which walks along the links, until a property needs it
  (`ScanOfChains`). `Packed`: the extents of a page follow each other without a
  gap, which is why the free space that the constructor adds up
  (`UsedIsPacked`) is what is left behind the last record. `Linked`: the links of a page
  lead to its successor in `ch`, and each table page is in one sequence.
  `Rolls` and `Counted` are `UndoIsImage` and `RowCountIsScan` said of `ch`.

A statement is a composition of operators on a store, so the proof has one lemma
per operator (`OpenOK`, `LinkOK`, `MakeRoomOK`, `FreshOK`, `UndoPageOK`,
`RowPlaced`, `RowRemoved`) and joins them per statement. They carry a second fact
along, `Avail`: the ids from `s.next` up to the last one that the statement takes
are named by no link and no undo pointer. When it does not hold, the statement has
set `clash`, and nothing is claimed.

### Only model-checked
* Liveness and fairness: `CallsReturn` and the fairness half of
  `ImplementsDurableLog`. The prover handles neither fairness nor `ENABLED`.
* The properties of `Statements`, which uses recursive operators.

## 5. Findings

With a run; the quoted lines are in `PROJECT.json`.

* UPDATE breaks REPEATABLE READ (`mvcc_repeatable_read`): the old and the new
  record share one undo image, so an older snapshot follows both chains and
  reads the old version twice. That no version is wrong or missing is what
  `ImplementsSnapshotIsolation` shows, which speaks of sets of versions.
* Data pages reach the disk before their log records (`recovery_lost_tail`).
  When the process dies in between, the log does not know the transaction, its
  id is used again, and the new owner of the id reads the version. As long as the
  log file has one record of every transaction that changed the page, the first
  recovery is exact (`FirstRecovery` in `recovery`).
* The write-write conflict check of DELETE and UPDATE never fires
  (`mvcc_conflict`, `NoConflictTheorem`): a row changed by a transaction in
  progress carries a delete mark or is invisible, and is skipped before the check.
  The second writer succeeds without having changed the row.

With a configuration that is not a run:

* Redo is not idempotent across runs (`MCRecoveryRedo`): LSNs restart from 1 and
  a write of the second run lowers the page's LSN, so the third start applies
  log records of the first again.
* With two clients `Flush` returns while the caller's record is in flight
  (`MCLogBufferTwoClients`): it looks at the offset of the buffer being filled only. The
  terminal has one client thread, for which `FlushForces` holds.
* A log record that the process died in is skipped by `ReadLog` ("末尾残缺记录，
  丢弃", `transaction/recovery_manager.cpp:36`) but stays in the file
  (`MCLogFileTorn`). The next run appends behind it, and its records are read as
  the torn record's payload or not at all, a flushed COMMIT included:
  `ReadsWholeRecords` holds until then. `NeverForgets` says that the records in
  front of it stay readable.
* A fetch of a page past the end of the data file does not fail, although `Redo`
  is written as if it did (`MCBufferManagerRedo`): later fetches keep what their frames
  held before until a write clears the stream, and `Redo` may force those bytes
  over a good page. The same failed read when the program starts over an empty
  file is harmless (`NoLostWrite` in `buffer`): the first write clears it.
* A roll-back that is tried again miscounts (`MCSessionRetry`): the second visit of
  a mark on a record the transaction inserted clears its dead flag without
  counting, and the record is counted off once more. That the records themselves
  come out right is `AbortedIsUndone`.

Seen while modelling; no run is devoted to them, and the models do what the code
does:

* When a roll-back throws, an explicit transaction stays open and a later COMMIT
  commits what was not rolled back; an autocommit transaction stays active for
  ever. The properties of `Session` except these (`given_up`).
* The shared image of an UPDATE that did not commit makes a row be read twice
  after a restart (`RecoveredOnce` says that nothing else does).
* With several client threads records may reach the file against their LSNs,
  since the LSN is taken before the buffer's lock. The terminal has one client
  thread.
* The LRU list never holds a frame that is not free (`LruWithinFree`), so
  eviction is never what frees a frame: a page leaves the pool at its last
  `Release`.
* UPDATE to a row that fits no page drops the row without an error; a row that
  fills a table page cannot be deleted or updated, because an undo page has less
  room (`GivesUpOnlyOversize` says that no smaller row is turned away).
* The capacity check of `AddTable` leaves the columns out; a CREATE TABLE that
  fails leaves the name in the catalog; `tuple_size_` has 16 bits.
* An INSERT with an unknown column name writes the first column, and the name is
  accepted from then on; NULL columns compare as 0 or the empty string; a float
  literal in INSERT always throws; IN in a clause and INSERT without a column
  list dereference a null pointer.
* `Decode` does not compare `image_size` with the payload.
* The terminal builds an empty `Catalog` and never calls `MetaPage::Init`
  (`main.cpp:35`): after a restart no table is known, CREATE TABLE writes over
  the directory, and a `Redo` that marks a record looks a table up that is not
  there. `Recovery` is about a program that reads the directory first.
* In such a program page ids and entry ids start from 1 again: `NewPage` returns
  a page that is in use (`clash`), and a new table takes the id of an old one.
* An UPDATE whose new row fits no page notes a write with RID {0, 0}; a ROLLBACK
  then marks a record of page 0, the directory, and lowers the row count.
* `SELECT b FROM t` prints all columns, since a list of one item is taken for a
  star; a longer list is printed under the names and with the types of the
  schema's first columns, so `SELECT b, a` throws where the types differ and a
  list longer than the schema reads past it; a star beside a column is a null
  pointer to the binder; an item that is no column is dropped.

## 6. Not modelled

* B+ tree (`index/`): there is no behaviour to translate. Its templates cannot be
  instantiated: `SplitLeaf` and `SplitInternal` call `ValAt`, which neither page
  class declares, `Delete` passes a page where `Release` takes an id, and the
  definitions are in `.cpp` files without an instantiation, so the index tests
  cannot be linked. Its pages are casts of bytes to objects that hold a
  `std::vector`. No executor uses it.
* Lock manager: an empty class.
* Redo's marks on several pages (`BufferManager` has the fetches, `Recovery` the
  marks on one page), or over a directory that was not read back; pages
  that two owners share after a clash of ids; a table created beside a directory
  that was read back (its id is taken).
* Roll-back together with page boundaries (`MVCCTable` has the one, `HeapFile`
  the other), and several client threads of the log: the order of LSNs in the
  file is shown for one.
* Rows of 64 KiB and more, whose `tuple_size_` wraps.
* Clauses with IN, and what the printer draws around the values.
* The bytes themselves: LSNs, sizes, cells and fields stand for them.

## 7. Plan

Done: everything in sections 2 and 4.

The B+ tree is worth a module once it compiles and an executor uses it.
