# A TLA+ model of RMDB

RMDB is a small relational database server in C++ (`src/src/`).  Clients connect
over TCP; each connection is served by a thread that parses SQL, analyzes and plans
it, and runs it inside an implicit or explicit transaction.  This directory models the
server from the socket to the disk: sessions and their transactions, what a statement
means on its way from the analyzer to its rows, the places where threads meet (locks,
versions, records, the index, the buffer pool), and what has to survive the death of
the process (catalogue, log, table files and recovery).

## Inventory

| Component | State | Operations | What is hard about it |
|---|---|---|---|
| Server (`rmdb.cpp`, `portal.h`, `execution_manager.cpp`) | the accepting thread, one thread per client, per session a transaction id | `start_server`, `client_handler`, `SetTransaction`, `Portal::run`, `run_cmd_utility` | one socket variable for all threads; exceptions and disconnects at every point; which transaction a statement is in |
| Catalogue (`system/`) | `db_`, handles of tables and indexes, `db.meta` | CREATE and DROP of tables and indexes, `create_db`, `open_db`, `close_db`, `flush_meta` | several changes of the disk per statement; the server dies between two of them |
| Pool slicing (`storage/disk_buffer_pool.h`) | pools by file name, frames handed out | `get_pool`, `delete_pool` | the last pool gets what is left |
| Analyzer, planner (`analyze/`, `optimizer/`) | the query, its conditions, the plan tree | resolution of names, checks, propagation of constants, choice of index, join order, projection | conditions and columns are moved about; a lost one changes the answer |
| Query operators (`execution/`) | per statement: the records read, groups, sorted tuples | sequential and index scan, filter, join, projection, group, aggregate, sort, UPDATE, LOAD | conditions the index is taken to cover; shared buffers; LOAD runs without a latch |
| Lock manager (`transaction/concurrency`) | `lock_table_`: a queue of granted requests per record or table; `lock_set_` and `state_` of every transaction | `lock_*_on_record`, `lock_*_on_table`, `unlock` | no-wait refusal, two-phase rule, release in a loop without a common latch |
| Transaction manager (`transaction/transaction_manager`) | id and timestamp counters, transaction table, write sets | `begin`, `commit`, `abort`, `rollback_single_operation` | commit and abort are sequences of separately latched steps |
| Version chains (`transaction/mvcc_manager`, `mvcc_defs`) | per record a list of versions, newest first | `update_version`, `delete_version`, `find_visible_version`, `commit_chain_versions`, `rollback_chain_versions` | timestamps are drawn before they are written |
| Record files (`record/`) | pages with bitmap and slots, list of free pages, visibility map `mvcc_map_` | `get_record`, `insert_record`, `update_record`, `delete_record`, `visit`, `commit_mvcc`, `RmScan` | readers and LOAD take no latch; slot and map are written one after the other |
| Index (`index/`) | a B+ tree from keys to records, unique | `is_unique`, `insert_entry`, `delete_entry`, `get_value`, `IxScan` | readers without a latch beside splits and merges; uniqueness tested apart from insertion |
| Buffer pool (`storage/`, `replacer/`) | page table, frames with pin count and dirty flag, free list, clock | `fetch_page`, `unpin_page`, `new_page`, `flush_page`, `flush_all_pages` | clients write outside the latch; eviction |
| Log and recovery (`recovery/`) | log buffer, LSN counter, log file; undo list | `add_log_to_buffer`, `flush_log_to_disk`, `analyze`, `redo`, `undo` | what has reached the disk when the server dies |

How they interact.  The accepting thread hands its socket to a thread per client.  That
thread finds or begins the transaction of the session, has the statement analyzed and
planned, runs it, writes the answer and commits if the transaction is implicit.  An
executor asks the lock manager for the record, tests the visibility map, copies the
slot, adds a version to the chain, writes the slot and marks it in the visibility map,
then appends to the transaction's write set.  `commit` walks the write set to stamp the
versions, releases the locks, and clears the marks; `abort` removes the versions, undoes
the writes in reverse order, clears the marks and releases the locks.  Every structure
has its own latch and no latch covers two of them, except that `RmFileHandle::latch_` is
held by a writer (not by readers) over slot and mark.  Pages reach the disk through the
buffer pool, which cuts its frames into one pool per open file.

What makes each component correct: a session's statements are in the transaction its
client thinks, and every transaction ends once; tables whose creation was answered
survive; a statement returns the rows SQL says; the lock manager never grants
incompatible locks and gets every lock back; writers never lose an update and never read
uncommitted data; chains are ordered by commit time and slots agree with them; an ended
transaction leaves nothing behind; the index is an ordered map, whatever its nodes do; no
free slot and no row of a table file is lost; the buffer pool keeps what was written to a
page and never moves a page under a pointer; recovery ends, and leaves what the log says
was committed and nothing of what it says was not.

## Modules

| Module | Models | State and actions |
|---|---|---|
| `LockManager` | `lock_manager.cpp` | one action per operation (each runs under `latch_`), and the caller that ends a transaction: copy `lock_set_`, unlock its members one by one, clear it |
| `LockManagerProofs` | | the theorems about `LockManager` |
| `VersionChain` | `mvcc_defs.h`, `mvcc_manager.h` | operators from chain to chain; every method holds `version_chains_mutex_` throughout |
| `MvccMap` | `mvcc_map.h` | operators from map to map |
| `TransactionManager` | transaction manager and executors, composed with the three above and with an index reduced to its interface | a process per transaction; `pc` cuts its thread where it takes or gives back a latch |
| `TransactionManagerProofs` | | `TransactionManager` implements `LockManager`; what the operators of `VersionChain` keep of a chain; uncommitted versions, lost updates, reads of writers, what an abort undoes, snapshots, slots against chains, inserts |
| `ClockReplacer` | `clock_replacer.h` | operators on the clock's state |
| `PageStore` | what a buffer pool promises | pages, and who works on them |
| `BufferPool` | `buffer_pool_manager.cpp` over one file | one action per operation, plus the clients' writes through their pointers; implements `PageStore` |
| `BufferPoolProofs` | | the theorems about `BufferPool` |
| `RecordFile` | `rm_file_handle.cpp`, `bitmap.h` | operators from table file to table file: header, pages, list of free pages; every operation holds `latch_` |
| `RecordFileProofs` | | lemmas: what the operators of `RecordFile` keep of a file and of its list of free pages |
| `TableFile` | `executor_load.h`, `rm_scan.cpp`, on `RecordFile` | sessions that insert, commit and roll back; LOAD batch by batch, page by page and row by row; sequential scans, slot by slot |
| `TableFileProofs` | | the theorems about `TableFile` |
| `Recovery` | `log_manager`, `log_recovery`, the log records of `transaction_manager.cpp`, on `RecordFile` | transactions that write a table file and the log, the write-back of pages, DROP TABLE, the death of the server, `open_db`, then `redo` and `undo` one log record per step |
| `RecoveryProofs` | | the theorems about `Recovery` |
| `OrderedMap` | what an index promises | a set of entries that one call changes by one key |
| `BPlusTree` | `ix_index_handle.cpp`, `ix_scan.cpp`, the leaf that LOAD keeps | a writer (it holds `latch_`) that changes a leaf and then splits, merges or shifts node by node; readers that descend and walk the leaves between its steps; implements `OrderedMap` |
| `Analyzer` | `analyze.cpp` | operators: name resolution, the checks that accept a statement, the query it becomes |
| `Planner` | `planner.cpp`, `tpcc_optimizer.h` | operators: propagation of constants, choice of an index, placing of conditions, join order, projection |
| `Executors` | `executor_*.h`, `execution_sort.h`, `fliter.h` | operators from the rows an executor gets to the rows it yields |
| `Updates` | `executor_update.h`, `expression_evaluator.h`, the write set in `transaction_manager.cpp` | operators: the expressions of SET, the keys a record leaves and gets in its indexes, and how an abort takes both back |
| `QueryEngine` | `do_analyze`, `do_planner`, `Portal::start`, `UpdateExecutor::Next` | a statement received, analyzed, planned in steps (propagation, scans, joins), executed, an UPDATE record by record and then committed or aborted; composes the four above |
| `Catalogue` | `sm_manager.cpp`, `sm_meta.h`, `rm_manager.h`, `ix_manager.h`, `disk_buffer_pool.h` | statements cut where the server may die between two changes of the disk; the death and the start of the server |
| `CatalogueProofs` | | the theorems about `Catalogue` |
| `Server` | `rmdb.cpp`, `execution_manager.cpp` | the accept loop with its mutex, and per client: read, find the transaction, run, answer, commit; every handler of an exception |
| `ServerProofs` | | the theorems about `Server` |
| `MC*` | | the instances for TLC |

Abstractions.  In the transactional modules the content of a record is the set of
transactions whose writes it contains, so an update is a read-modify-write whose loss is
visible.  Keys, records, pages and clients are model values or small integers.  There
`rids_` of a statement is any set of used slots (what conditions select is the subject of
`QueryEngine`), a table has one unique index, and updates leave its key alone.  The lock
manager is modelled as its interface offers it; the executors use only
`lock_exclusive_on_record`, and only `commit` and `abort` call `unlock`.  `granted_` and
the condition variable are left out: a request is granted at once or never appended.  The
loop of `ClockReplacer::victim` is written in closed form: the hand stops at the first
candidate without reference bit, or in the second round at the first candidate.

`Recovery` needs neither versions nor visibility marks, which die with the process: a
row is who wrote it last and how, and `busy` stands for lock and uncommitted version
together.  The log buffer may be full at any record, because records have different
lengths.  A page may be written back at any time; the header of the file is written
only by `close_file`, which a server that dies does not reach.  DELETE statements write
neither the table file nor the log, so there are no delete records.  `analyze` reads the
log only, so it is part of `open_db`.  After a crash the variables of the dead process
get a fixed value, and `status` keeps only who had committed.  DROP TABLE takes no lock and
writes no log (`sm_manager.cpp:471`); `table` says whether the table is still in `db.meta`,
which is what `redo` and `undo` ask, and what is said of the file has no meaning without it.
An abort that still has to undo writes to a dropped table follows a null pointer: that is a
death of the server.  The tests for a log record without a table name (`log_recovery.cpp:435`,
`:538`) have no case: every record has its table's name.

`Catalogue` knows of `db.meta` which tables and indexes it names and where reading it goes
astray.  `operator>>` of `TabMeta` reads every index of a table into one `IndexMeta`
(`sm_meta.h:171`) to whose columns each one adds its own (`:64`): `long` are the indexes that
were read with columns of others.  `operator<<` writes all of them behind the smaller
`col_num`, and the next start takes the surplus lines for what should follow.  `first` and
`last` are the indexes that the hash table puts first and last of their table.  Surplus lines
at the end of the file do no harm.  Before another index they are read as an index with the
name of the table, and `open_index` of a table's file fails an assertion (on a table whose
records have 88 bytes it might not, which is left out).  Behind the last index of a table they
are read as the next table, of the same name and without columns (`blank`), and a further one
has the name `""`, for which there is no file (`Unreadable`).  CREATE INDEX finds no column in
such a table.  A start with a `long` index may fail in recovery, which makes the name of the
index's file from its columns (`log_recovery.cpp:271`): it does if there is a logged write
to the table, and the log is left open here.

In `TableFile` a row is a number that is never used again, and LOAD's batch is the set of
the numbers it has parsed, which it writes in ascending order; in `BPlusTree` keys are
integers and positions count from 0 as in the code; pages that merges give up are
forgotten when no reader is in the tree.  In `QueryEngine` a row is a
function from columns to numbers that count quarters, so that FLOAT and INT differ.  An INT
has `IntBits` bits and wraps around; a float keeps integers of `FloatBits` bits and rounds
others to the nearest; `static_cast<int>` truncates toward zero.  Fractions are exact, and an
average is a pair of sum and count.  A negative INT whose bytes are read as a FLOAT would be a
NaN; no statement of the run has one.  A failed `assert` ends the server: the build defines no
`NDEBUG`.  The
index a scan uses has the rows in the order of their keys.  Only UPDATE changes the
tables.  One that is committed is the session's last statement, which bounds the
contents of the tables; one that is aborted must leave what the next statement expects.  In `Server` a statement ends well, ends in one of the exceptions the
handler tells apart, or takes the process with it; what it does to the data is left to the
other modules, and what it wrote is remembered by its number.

## Runs

| Run | Result | Shows |
|---|---|---|
| `locks` | pass | two transactions, one record, one table, queues up to 3: grants are compatible, ended transactions hold no record lock, locking is two-phase |
| `writers` | pass | three transactions update and delete one record: no lost update; uncommitted versions are on top and locked; a snapshot finds the newest version committed before it |
| `sessions` | pass | two transactions of two statements read, update and delete a record, with fairness: slot and chain agree, writers read committed data, every thread returns, an ended transaction leaves nothing, and the whole uses the lock manager as `LockManager` says (`LockClient`) |
| `inserts` | pass | three transactions insert into an empty table of three slots, two keys: aborted inserts leave no record, the index leads to records |
| `buffer_pool` | pass | two clients, two frames, a file of two to four pages: `PoolInv` (frames are accounted for, pointers stay valid, clean pages are on disk), and `BufferPool` implements `PageStore` |
| `recovery` | pass | two transactions, three writes, two pages of two slots, DROP TABLE at any time, a crash at any step and another one during recovery: a record whose logged writers all committed is there, with the last update; a record only one unfinished transaction wrote is as before; recovery fails only on a record that two unfinished transactions wrote, and ends, unless an unfinished transaction has logged writes to the dropped table |
| `index` | pass | a tree of order 3 grows to three levels and shrinks, a LOAD appends to it, a reader is in it at any time: `TreeInv` (balanced, filled, linked), search and chain of leaves agree, undisturbed reads are exact and others return only what was there, and the tree implements `OrderedMap` |
| `queries` | pass | statements of every form over five tables: `PlanInv` (constants are propagated soundly, every condition is evaluated where its columns are, index ranges lose no row), supported statements get the rows SQL says and change the rows SQL says, accepted statements fail only for the reasons given below, and `TablesInv` (rows and indexes agree between any two rows of an UPDATE, and an abort restores both) |
| `catalogue` | pass | three tables, one with two indexes, created and dropped in every order, too few frames, two kills: `CatalogueInv` (handles, open files, pools, files and `db.meta` agree), answered tables survive, the server starts again, a CREATE INDEX that meets a duplicate key leaves nothing |
| `server` | pass | two clients, blocks and single statements, every exception, broken connections: `ServerInv` (every thread has its own socket, a block is one transaction, no transaction with writes is forgotten while its connection lasts), no transaction ends twice, and `EveryoneIsServed` (requests are answered and clients get a thread) |
| `records` | pass | two sessions insert and roll back, a file of lines is loaded, a scan counts: `TableInv` (a page with room is on the list), no row is overwritten, a scan finds what stays, LOAD ends with every line in the table |
| `full_page` | violation | LOAD leaves a full page on the list of free pages; INSERT takes it and puts its row behind the last slot |

`full_page` checks a sentence of the source, quoted in `PROJECT.json`, and TLC refutes it
by the code's own steps.

The invariants ending in `Inv` are conjunctions of parts with a comment each, the type
invariant among them.

Bounds.  Two transactions are enough for every race between a committer or aborter
and its successor; three let one commit between two others, which the order of
chains needs.  Two statements let a transaction work twice on one record.  One record
suffices because chains, locks and marks of different records do not interact except
through the write set.  The buffer pool needs more pages than frames, and two clients
so that a frame is shared.  `INT32_MAX = 99` is above every timestamp an instance
reaches, and a chain never gets near the 1000 versions at which readers give up.
`MaxStatements`, `MaxRows` and `MaxQueue` bound what clients ask for.  `Recovery` needs
two transactions for a record that passes from one to the other, three writes so that
one of them can write a record twice and a page fill up and another begin, and two
restarts so that a recovery can be interrupted and repeated (`MaxWrites`, `MaxPages`,
`MaxStarts`).

The index has eight keys, order 3 and eight pages: the least with which inner nodes
split, borrow and merge below a root that is an inner node itself.  Its one reader
overlaps at most one change (`MaxOverlap`).  `LoadsAppend` keeps LOAD to its intended use:
it runs alone and its keys come after all that are in the index.  `queries` has five
tables of up to five rows, with the contents and the statements listed in
`MCQueryEngine`, so that every index, every form of condition and every operator is
chosen.  `IntBits = 6` and `FloatBits = 4` put the ends of the INTs at -32 and 31 and the
first integer a float does not keep at 17; a row is at either end, and two rows differ by what a float
forgets.  Without any one of the exceptions of `Supported` for these numbers TLC refutes
`AnswerIsExact`.  `catalogue` runs statements one at a time: `SmManager` has no latch.  Ten
frames for pools of three and two suffice for three tables or for two and two indexes, so
that the last pool is smaller than asked or impossible; two kills let a start be interrupted too.  Two
indexes of the first of three tables are the least with which surplus columns stand before
an index, before one table and before two.  `server` has three requests of
one client and one of the other: BEGIN, a statement and its end, with another session in
between.  `records` has pages of two slots, three pages, five rows and files of up to
four lines in batches of two, so that a batch ends within a page and a page within a
batch.  LOAD takes no latch and appends by the number of records of a page, so it starts
on a table without rows and no INSERT starts before its end; `FillsPages` says whether
sessions go on when a full page has come to the head of the list: `FALSE` in `records`,
`TRUE` in `full_page`.

`inserts` has no updates or deletes on purpose.  Between the slot and the mark of an
insertion another transaction can lock, update or delete the record; if the insertion
is then undone, the other one's `update_record` throws after it has added its version,
and `abort`, which goes by the write set, leaves that version in the chain.  (The other way
to that throw, no free frame for the page, `rm_file_handle.cpp:288`, is not modelled:
`TransactionManager` has no buffer pool.)  With three
transactions that mix inserts and updates a stale update can also land in a slot that was
freed and used again, and with inserts and deletes an abort can put back an index entry
of a freed slot: there `AbortedIsUndone` and `IndexLeadsToRecords` do not hold.

Fairness.  `TransactionManager` (`FairSpec`): a thread that is inside a statement, a
commit or an abort is scheduled again, and a `TransactionAbortException` reaches
`client_handler`, which aborts.  Nothing is assumed of clients: they need not ask for
anything nor ever end their transaction.  Weak fairness is enough because threads wait
for nothing but `RmFileHandle::latch_`, whose holder needs no other latch that is held
over a step; with a third contender the mutex would have to be fair as well.  In
`Recovery` only `main` is assumed to go on with a recovery it has begun, unless the server
dies.  In `Server` the accepting thread and every client's thread are scheduled while the
server is up; they wait for clients and for the mutex of the socket only, and only the
accepting thread and the thread it has just made use that mutex.  In `TableFile` the loop
of LOAD goes on; it waits for nobody.  The other specifications assume no fairness.

Deadlock checking is off where clients may simply stop.

## Known deviations

Formulas that the code, its comments or SQL suggest and that TLC refutes.  They stay in
the modules, so that a repair can be checked.

| Formula | Instance | What happens |
|---|---|---|
| `InsertsHaveASlot` (`TableFile`) | run `full_page` | see above; `rm_file_handle.cpp:69` tests `first_bit` for -1, which it never returns |
| `UndoPassesDroppedTable` (`Recovery`) | the instance of `recovery` | `continue` in `undo` (`log_recovery.cpp:445`) does not reach `pop_back` (`:585`), though the comment says that the record is skipped; recovery never ends when a table with a log record of an unfinished transaction was dropped |
| `LoadsWhatWasWritten` (`Catalogue`) | the instance of `catalogue` | one `IndexMeta` for all indexes of a table (`sm_meta.h:171`), see Abstractions; tables are lost or the server does not start |
| `ScansReadCommitted` (`TransactionManager`) | two transactions, one loaded record, one statement each, `Kinds = {"update", "read"}` | a scan returns an uncommitted update: visibility test and copy of the slot are two steps, and so are the writer's (`mvcc_executor_base.h:59`) |
| `SkipsOnlyUncommitted` | the same, `Kinds = {"update"}` | `commit` unlocks before it clears the marks (`transaction_manager.cpp:208`); the next updater gets the lock and silently skips the record |
| `DeletedIsInvisible` | the same, `Kinds = {"delete", "read"}` | a committed deletion is recorded in the chain, where no scan looks (`mvcc_executor_base.h:248`) |
| `KeysAreUnique` | two transactions, three slots, `Kinds = {"insert"}` | uniqueness is tested apart from the insertion (`executor_insert.h:84`) |
| `NoRowOfUnfinished` (`Recovery`) | the instance of `recovery`, two writes | a page reaches the disk before its log record (`buffer_pool_manager.cpp:47`); the row of an unfinished transaction stays |
| `FreeListLeadsToRoom` | the same | a full page reaches the disk and the header does not (`rm_manager.h:91`); the list of free pages starts at a page without room |
| `NeverOverwrites` (`BPlusTree`) | the instance of `index` | a merge counts `num_pages_` down (`ix_index_handle.cpp:1283`), after a restart pages are handed out from there (`:269`), and a split is given a page that is still in the tree |
| `ScanStaysInRange` | the instance of `index` | the end of a scan is a position; a deletion beside the scan moves other keys in front of it |
| `SearchFindsChain` | the instance of `index`, `LoadsAppend = FALSE`, a file with unsorted keys | `can_insert_to_cached_node` is always true (`executor_load.h:242`); LOAD puts a key into the leaf of the one before |
| `FailedUpdateLeavesNothing` (`QueryEngine`) | the instance of `queries` | an UPDATE of two records meets a duplicate key at the second (`executor_update.h:177`) and is committed: the first stays changed, and the second may be missing from an index whose key was removed before the one that failed |
| `SortedRowsAreTheRows` (`QueryEngine`) | the instance of `queries` | sort keeps pointers into the one buffer of a projecting scan (`execution_sort.h:73`); all its rows become the last one |

Where a property of a passing run has an exception, this is it:

- Queries (`Supported`).  An index scan drops the conditions on the columns it takes for
  covered: of several bounds the last one wins, `<>` is lost, strict bounds on a FLOAT are
  not strict, a literal of another type is compared by its bytes; a FLOAT literal for an
  INT column is truncated.  A strict bound at the end of the INTs, `a > INT_MAX` or
  `a < INT_MIN`, is not strict in an index scan, so the row with that value is returned
  (`executor_index_scan.h:248`, `:280`).  A sequential scan compares INTs as floats, and so
  does every comparison between the types (`executor_abstract.h:147`): INTs beyond 2^24 that
  differ may be equal.  A sum of INTs wraps around, that of an average without GROUP BY too
  (`executor_aggregation_optimized.h:243`).  A SEMI JOIN runs as an inner join.  ORDER BY and LIMIT share
  one buffer.  A join as the left child of a join gives one pass.  A plain column beside an
  aggregate is 0, an aggregate other than COUNT over nothing yields no row, and MIN or MAX
  of the last column of an index is taken from its first or last record.
  The SET clauses of an UPDATE see what the ones before have set (`executor_update.h:140`).
- Accepted statements that fail (`AcceptedQueriesRun`): a column of ORDER BY that the scan
  does not pass up, a comparison within one table that the first table of the list has
  taken, and a key that another record has at that moment, also if the UPDATE would give
  it up later.  Three kinds end the server.  A comparison within one table that the index
  scan of another one is given fails the assert of its constructor
  (`executor_index_scan.h:96`), as in `FROM t1, t3 WHERE t3.a = t3.d AND t1.a = 1` with an index
  on `t1(a)`.  And two raise a `std::runtime_error`, which is no `RMDBError`
  and which `client_handler` does not catch: a column of GROUP BY or an aggregate that the
  scan does not pass up (`executor_group.h:156`), and an expression of SET that divides by
  zero or names a column the table does not have, which the analyzer does not look at
  (`expression_evaluator.h:99`, `:244`).
- Catalogue.  A death inside `flush_meta` loses every table; one between the destruction
  of a file and the end of `flush_meta`, or within `create_db`, keeps the server from
  starting (`StartsAgain`).  A table that has had two indexes since a start before the last
  `flush_meta` has surplus columns in `db.meta` (`Garbled`): the next start may lose tables or
  fail, and even before that recovery may look for an index by a name no file has
  (`sm_meta.h:171`).  With at most one index per table none of this happens
  (`OneIndexIsReadBack`).  A CREATE INDEX on columns too long for a key, or one that finds no
  frames, leaves its file, open.  A CREATE TABLE that finds no frames leaves a table without a
  handle.  DROP TABLE leaves the files, handles and pools of its indexes.
- Server.  An accept error leaves the mutex locked and nobody is served again
  (`rmdb.cpp:438`).  The answer is written before the implicit transaction is committed
  (`:365`, `:371`).  A connection that breaks inside a block leaves its transaction with
  its locks.  What a statement wrote before an `RMDBError` is kept (`:320`).  ABORT without
  a transaction dereferences a null pointer (`execution_manager.cpp:175`), and so does SET
  of a planner knob.  `begin ;` is not recognised as BEGIN and begins an implicit
  transaction that is left behind.  After an abort inside a block the statements that
  follow are committed one by one.
- Recovery.  It does not end when an unfinished transaction has logged writes to a table that
  was dropped (`RecoveryEnds`), and what is said of rows is said of tables that were not.
- LOAD.  It takes no latch, puts rows over others when a page has holes, ends by writing
  back its copy of the header (`executor_load.h:472`), maintains the first index only,
  parses FLOAT as an integer, and stops at a batch in which no line parses.
- Index.  A read that overlaps a change may miss keys that are there throughout.

By reading only: COUNT(*) without conditions counts every used slot, deleted and
uncommitted rows too, and SUM or COUNT of a column dereferences a null pointer on an
invisible record (`executor_aggregation_optimized.h:733`); `delete_page`, which a unit
test calls, leaves the page mapped and its frame both free and evictable; `redo` leaves
the pages it creates pinned (`log_recovery.cpp:255`); nothing flushes the log at commit.

## Proofs

`LockManagerProofs`, for every set of transactions, records and tables:
`LockTypeCorrect`, `LocksExclude` (`GrantsCompatible`), `RecordLocksGivenBack`
(`EndedHoldsNoRecordLock`) and `LocksAreTwoPhase` (`TwoPhase`).  The inductive
invariant `LockInv` adds what the queue of a record looks like: one request per
transaction (`OneRequestPerRecord`), recorded in the lock set (`RecordLockInSet`) and
the other way round (`LockSetBacked`), and a release loop that covers what is still
held (`ReleaseCovers`).  Without the first, the single `erase` of `unlock` would not be
enough; without the last, nothing relates the copy of the lock set to the set.
The only assumption is that record and table ids differ.

`TransactionManagerProofs` proves that the server implements `LockManager`
(`LockClient`): every step of a thread is a step of the lock manager's caller or is
invisible to it.  The refinement mapping is `ending`, the phase a thread is in.  The
invariant it needs (`ClientInv`) says that a thread that still works on statements is
`GROWING`, so its requests are requests of a running transaction, and that `commit`
reaches its erase loop only with nothing left to release, so that it finishes as
`LockManager` demands.  What is proved of the lock manager then holds of the server,
for any number of transactions and records: no record is locked by two threads
(`ServerLocksExclude`), and an ended transaction holds no record lock
(`ServerReturnsLocks`).

The module goes on from there to the data the locks protect.
`TransactionTypes` (`TypeOK`) is for all statements.  The others, up to the two on inserts,
are for clients that update, delete and read, `"insert" \notin Kinds`, which is what the runs
`writers` and `sessions` check for two and three transactions: with INSERT a slot can be freed
and used again under another transaction (see `inserts` above), and the formulas are false.

- `VersionsAreLocked` (`UncommittedIsLocked`) and `EndedIsClean` (`EndedLeavesNothing`).
  The invariant `WriterInv` says of every record (`Pending`) that its uncommitted versions
  belong to one transaction and are the newest, and that this transaction has not got past
  the stamping of its versions and has the record in its write set, or is at one of the two
  steps between the version and the write record.  Without the write set nothing says that
  `commit` and `abort`, which go by it, reach every version.  `LocksHeld` says that a thread
  at work on a record holds its lock, and that one that still has to stamp or undo holds the
  locks of all it has written: `commit` releases only after the last stamp, `abort` after
  the last undo.  `EntriesHaveWriters` ties the marks of the visibility map, which
  `commit` clears after it has unlocked, to the write sets that are worked off for them.
- `UpdatesAreKept` (`NoLostUpdate`).  `CoverInv` adds what slot and chain have to do with
  each other: the slot contains what its versions contain, but for one that its writer has
  added and not yet copied (`HeapCovers`); what a writer has read is still the slot's when
  it writes (`ReadIsCurrent`); and the image an update notes for its undo covers the
  committed versions (`NotedCovers`), so that the slot covers them after an abort too.  The
  lemma behind it is `LockedStays`: while a thread holds a record's lock, no step of another
  one changes its slot or its chain.
- `NoDirtyReadsByWriters` (`WritersReadCommitted`) and `AbortsUndoUpdates`
  (`AbortedIsUndone`).  `CommittedInv` says whose writes a slot contains: those of
  transactions past the point of commit, and of one whose update is still to be committed or
  undone (`SlotCommitted`); and that the image an update notes contains committed writes or
  its own earlier ones, which are undone after it (`NotedCommitted`).
- `SnapshotsAreRight` (`SnapshotIsNewestCommitted`), as long as the clock is not past
  `INT32_MAX` and no chain is longer than `MaxIterations` (`WithinBounds`): a reader gives up
  after that many versions, so beyond it the formula is false.  `StampInv` says that commit
  timestamps never rise on the way down a chain and that a version expires at the commit of
  one above it (`Stamped`).  Since `commit` draws its timestamp in one step and writes it in a
  later one, that needs that a timestamp not yet written is still the youngest on the records
  its transaction has written (`StampsRise`), which is what their locks are for.  The
  assumption `IntegerRange` says that transaction ids fit in their type.
- `SlotsShowTheChain` (`SlotAgreesWithChain`).  `SlotInv` says that a slot shows the newest
  live version of its chain (`SlotShows`) with two exceptions, both under the record's lock:
  a thread has put a version on top and not yet written the slot (`Overtaken`), or has dropped
  its versions and is still undoing (`Restores`).  For the end of the second, the image noted by a
  transaction's first update of a record shows the record's committed versions (`NotedShows`),
  and no live version is uncommitted without such a note, or its thread on the way to it
  (`LiveIsNoted`).
- `InsertsLeadToRecords` (`IndexLeadsToRecords`) and `AbortsUndoInserts` (`AbortedIsUndone`), for
  clients that insert and read, `Kinds \subseteq {"insert", "read"}`, among them those of the run
  `inserts`.  `InsertInv` says that a slot which its inserter may still free is in use, has one
  owner and is noted once (`OneOwner`); that the index leads to such a slot only if the
  owner, which undoes its writes from the last to the first, takes the entry out before
  the record (`EntryGoesFirst`); and that what a used slot contains is committed or its
  owner's (`SlotOwned`).

Its first part has the lemmas these need of the chain operators, for chains of any
length: adding a version leaves the others in their places, `commit_chain_versions` changes
timestamps only, `rollback_chain_versions` drops a transaction's versions and keeps the order
of the rest.

`BufferPoolProofs`, for any pages, frames and finitely many clients (`FewClients`):
`PoolKeepsItsFrames` (`PoolInv`) and `PoolImplementsStore` (`KeepsPages`), the refinement of
`PageStore`.  The inductive invariant `PoolIndInv` adds to `PoolInv`: a pin count is the
number of clients that use the frame (`PinsAreUsers`), so a count of 0 means that no pointer
is left and an eviction disturbs nobody; a frame is in one place only, free, evictable or
pinned (`OnePlace`, `FreeOnce`), a mapped page's frame holds that page (`MappedIsHeld`) and
a free frame nothing (`FreeIsEmpty`); the clock counts its candidates (`SizeCounts`), on
which `victim` relies; a client that has written still has its pin (`WroteIsPinned`), so that
the dirty flag it will set reaches the right page; and every page that exists is in a frame
or on the disk (`PagesAreSomewhere`).

`ServerProofs`, for any number of clients: `SessionsKeepTheirTransactions` (`ServerInv`) and
`WritersEndOnce` (`EndsOnce`).  In the invariant `ServerIndInv`,
`Handover` says that the mutex is held from before `accept` until the new thread has copied
the socket; `OwnIds` that a session works with its own transactions only, that those it has
not begun are fresh, and that a running one that has written is the session's; and one
formula per phase (`Resting`, `Executing`, `Answered`) what the pointer, the id and the
client's view of its block have to do with each other.  `Answered` is the subtle one: after
ABORT the pointer still leads to the ended transaction.  The
assumption `NoClientIsNone` says that the mark for "no socket" is no client.

`CatalogueProofs`, for any tables and indexes with files of different names
(`FilesAreNamedApart`), any pool sizes and any number of kills: `CatalogueAgrees`
(`CatalogueInv`), `TablesSurvive` (`CreatedTablesSurvive`), `ServerStartsAgain`
(`StartsAgain`), `FailedIndexIsUndone` (`FailedIndexLeavesNothing`) and `OneIndexReadsBack`: where no
table can have two indexes, the exceptions for surplus columns in the first three are empty.  `CatalogueIndInv`
says for every place where the server can die what the disk is then: without a death inside
`flush_meta` there is a `db.meta` to start from (`MetaIsSound`), it has the tables whose
creation was answered (`KeptIsNamed`), and until a death leaves a drop half done every file
it names exists, except between the drop and `flush_meta` (`NamedIsThere`).  `Opened` and
`MetaIsCurrent` carry that through `open_db`, file by file, and through statements that fail
for want of frames; `Building` says what CREATE INDEX has changed so far.  That the frames
of the pools add up (`Pools`) needs that a sum over a finite set does not depend on the order
of the fold, `SumTakes`, which is proved by the least counterexample: of the subsets for which it
fails one would contain no other.

`RecordFileProofs` has what the operators of `RecordFile` do to any file: which slots they
change, that the links of its pages stay page numbers, and what becomes of the list of free
pages, described as the sequence of page numbers the links run through.

`TableFileProofs`, for any number of sessions, scans, slots and pages, and any number of
lines (`BoundsAreNumbers`, `EmptySlotIsNoRow`):

- `ScansAreExact` (`ScanIsExact`) and `RowsAreNotOverwritten` (`RowsStay`).  The invariant
  `TableIndInv` says that a row has one place, that one that was taken back or is still to
  be parsed has none (`RowsInv`), so that a slot which is used twice never shows the same
  row; that LOAD, which looks for no free slot but writes to the number of rows it counts,
  finds its pages filled from the first slot upwards (`LoadInv`); and that a scan has seen
  what is behind it and nothing else, rows that came and went meanwhile apart (`ScanInv`).
- `NoRoomIsLost` (`TableInv`) and `InsertsHaveSlots` (`InsertsHaveASlot`), while sessions
  insert only when the head of the list has room, `~FillsPages`: a full page at the head is
  what the run `full_page` fails on.  `ListInvariant` says that the list of free pages is a
  chain without cycle with every page that has room, and that a page from which a row may
  still be taken back is not on it while it is full: `release_page_handle` puts a page at
  the front when it was full, and would put it there a second time.

`RecoveryProofs`, for any transactions, records, pages and slots, any length of the log and
any number of pages written back before the death (the last two while the table is not
dropped): `RecoveryIsSafe` (`RecoveryInv`),
`RedoRestoresCommitted` (`CommittedIsRedone`) and `UndoRestoresOld` (`UnfinishedIsUndone`).
`RecoveryIndInv` follows the server through its life.  At all times the log has a shape on
which recovery relies (`LogShape`): an update finds a record that was loaded or inserted
before it (`RecordsBegin`), a transaction inserts a record before it writes it
(`InsertsAreFirst`), and the first record of a page comes after the first of the page before
it (`PagesInOrder`).  That needs, while the server is up, that pages and records of the file
are in the log and that the writes of a transaction that has not ended are its alone
(`UpInv`).  A prefix of a log of that shape has it too, so it does not matter how much
of the log the death has left.  `RedoInv` says that the writes behind redo have their
records, with what the last update wrote, whatever page images it started from: it never
fails.  `UndoInv` says that the records without unfinished writer stay as redo left them, that
those of a single one are there until its first write is taken back, and as before that
write then; `FailedInv` that undo fails only where two unfinished transactions have written
one record.

Model-checked only.  Liveness (`ThreadsReturn`, `RecoveryEnds`, `EveryoneIsServed`,
`LoadCompletes`) is beyond the prover.  So are the recursive definitions of the index and of
the plans, which no theorem can reach: `TreeInv`, `SearchFindsChain`, `ReadsAreRight` and the
refinement `MapSpec` of `BPlusTree`, and `PlanInv`, `AnswerIsExact`, `AcceptedQueriesRun` and
`TablesInv` of `QueryEngine`.

## Not modelled, and the plan

Parts that remain to be modelled: recovery over several lives of the server (LSNs and
transaction ids start again at 0 while the log is kept), a table that is dropped and created
again under its name while the log has records of the first one, the index part
of redo and undo; updates that change a key (modelled for one session in `QueryEngine`) and index scans
beside other transactions;
the shutdown by signal, whose `longjmp` may leave the stack of another thread.

Left out for good: data definition by two sessions at once (a data race throughout
`SmManager`); SHOW and DESC, which only read; the parser (generated); the deadlock
detector, watermark and snapshot collection (never active); and code that nothing calls:
`execution_aggregation.h` (commented out), the logical optimizer and plan builder, the
semi-join, distinct, chunk-scan and filter executors, the LRU list,
`MVCCRecordManager`, `insert_records_batch`, `rollback_traditional`, `insert_version`, the
TPC-C coordinator; static checkpoints, which only print; benchmark helpers, vendored
code and clients.
