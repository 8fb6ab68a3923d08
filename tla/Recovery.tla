------------------------------ MODULE Recovery ------------------------------
(***************************************************************************)
(* The log and recovery: transactions that write a table file and the log, *)
(* a server that dies at any moment, and the restarts after it, which run  *)
(* RecoveryManager::analyze, redo and undo and may die again.              *)
(*                                                                         *)
(* One life of the server is modelled, up to its death, and then any       *)
(* number of recoveries.  LSNs count from 0 in it, so an LSN is the        *)
(* position of its record.  The table was created, filled by LOAD (which   *)
(* writes no log) and closed before.                                       *)
(*                                                                         *)
(* DELETE writes neither the table file nor the log, so there are insert   *)
(* and update records only.                                                *)
(***************************************************************************)
EXTENDS RecordFile

CONSTANTS Txns,       \* transaction ids, given out in ascending order
          LoadedRows, \* rows in the first page at the start
          Kinds,      \* what clients do: "insert", "update", "abort", "drop" (the table)
          MaxWrites,  \* bound: writes of all transactions
          MaxPages,   \* bound: pages of the file
          MaxStarts   \* bound: restarts of the server

ASSUME Ids == Txns \subseteq Nat
ASSUME LoadedPageIsNotFull == LoadedRows \in 0 .. SlotsPerPage - 1
ASSUME BoundsAreNumbers == MaxPages \in Nat \ {0} /\ MaxStarts \in Nat

Nobody == -1     \* no transaction

VARIABLES
    phase,       \* what the server does
    starts,      \* restarts so far
    log_file,    \* db.log
    log_buffer,  \* LogManager::log_buffer_
    file,        \* the table file as the server sees it through its pool
    disk,        \* the table file on disk: header and pages
    table,       \* is the table in db.meta
    busy,        \* who has locked or not yet committed a record
    status,      \* where a transaction is
    write_set,   \* Transaction::write_set_
    todo         \* positions in the log redo or undo has still to process

vars == <<phase, starts, log_file, log_buffer, file, disk, table, busy, status, write_set, todo>>

Row(t, kind) == [by |-> t, kind |-> kind]

ASSUME EmptySlotIsNoRow ==
    NoRow \notin [by : Txns \cup {Nobody}, kind : {"load", "insert", "update"}]

Rids == [page_no : 1 .. MaxPages, slot_no : Slots]

(* A log record and, field by field, what recovery reads back of it; the   *)
(* table is the only one, and what a record says of the length of the file *)
(* is never used.                                                          *)
LogRecord(type, t) == [type |-> type, tid |-> t]

BeginLogRecord(t) == LogRecord("begin", t)

CommitLogRecord(t) == LogRecord("commit", t)

AbortLogRecord(t) == LogRecord("abort", t)

InsertLogRecord(t, rid, value) ==
    [type |-> "insert", tid |-> t, rid |-> rid, old |-> NoRow, new |-> value]

UpdateLogRecord(t, rid, old, new) ==
    [type |-> "update", tid |-> t, rid |-> rid, old |-> old, new |-> new]

Writes(log) == {i \in DOMAIN log : log[i].type \in {"insert", "update"}}

LoadedFile ==
    [first_free_page_no |-> 1,
     pages |-> << [EmptyPage(NoPage) EXCEPT
                     !.rows = [s \in Slots |-> IF s < LoadedRows THEN Row(Nobody, "load")
                                                                 ELSE NoRow]] >>]

(* A page that was never written; the header on disk does not count it. *)
Unwritten == EmptyPage(0)

Statuses == {"none", "running", "log_commit", "committed",
             "undoing", "log_abort", "aborted"}

TypeOK ==
    /\ phase \in {"up", "down", "redo", "undo", "recovered", "failed"}
    /\ starts \in 0 .. MaxStarts
    /\ table \in BOOLEAN
    /\ file.first_free_page_no \in {NoPage} \cup 1 .. MaxPages
    /\ disk.num_pages \in 1 .. MaxPages + 1
    /\ \A p \in DOMAIN file.pages :
          file.pages[p].next_free_page_no \in {NoPage} \cup 1 .. MaxPages
    /\ busy \in [Rids -> Txns \cup {Nobody}]
    /\ status \in [Txns -> Statuses]
    /\ todo \subseteq DOMAIN log_file

(* The table file on disk after LOAD *)
LoadedDisk ==
    [num_pages |-> num_pages(LoadedFile),
     first_free_page_no |-> LoadedFile.first_free_page_no,
     pages |-> [p \in 1 .. MaxPages |-> IF p = 1 THEN LoadedFile.pages[1] ELSE Unwritten]]

Init ==
    /\ phase = "up" /\ starts = 0 /\ table = TRUE
    /\ log_file = << >> /\ log_buffer = << >>
    /\ file = LoadedFile
    /\ disk = LoadedDisk
    /\ busy = [rid \in Rids |-> Nobody]
    /\ status = [t \in Txns |-> "none"]
    /\ write_set = [t \in Txns |-> << >>]
    /\ todo = {}

-----------------------------------------------------------------------------
(* The log manager *)

(* add_log_to_buffer: records have different lengths, so any record may be *)
(* the one the buffer is full for; the buffer is then written first.       *)
add_log_to_buffer(record) ==
    \/ /\ log_buffer' = Append(log_buffer, record)
       /\ UNCHANGED log_file
    \/ /\ log_buffer # << >>
       /\ log_file' = log_file \o log_buffer
       /\ log_buffer' = << record >>

-----------------------------------------------------------------------------
(* Transactions *)

Goes(t, from, to) ==
    /\ phase = "up"
    /\ status[t] = from
    /\ status' = [status EXCEPT ![t] = to]

begin(t) ==
    /\ Goes(t, "none", "running")
    /\ \A u \in Txns : u < t => status[u] # "none"
    /\ add_log_to_buffer(BeginLogRecord(t))
    /\ UNCHANGED <<phase, starts, table, file, disk, busy, write_set, todo>>

(* The slot and the log record are written under one latch and one pin. *)
Write(t, record, written) ==
    /\ Goes(t, "running", "running") /\ table
    /\ record.type \in Kinds
    /\ Cardinality(Writes(log_file \o log_buffer)) < MaxWrites
    /\ file' = written
    /\ add_log_to_buffer(record)
    /\ write_set' = [write_set EXCEPT ![t] =
                       Append(@, [type |-> record.type, rid |-> record.rid, old |-> record.old])]
    /\ busy' = [busy EXCEPT ![record.rid] = t]
    /\ UNCHANGED <<phase, starts, table, disk, todo>>

Insert(t) ==
    /\ num_pages(Room(file)) <= MaxPages + 1
    /\ Write(t, InsertLogRecord(t, FreeRid(file), Row(t, "insert")),
             insert_record(file, Row(t, "insert")))

(* An update needs the lock, and no uncommitted version of another one. *)
Update(t, rid) ==
    /\ is_record(file, rid)
    /\ busy[rid] \in {Nobody, t}
    /\ Write(t, UpdateLogRecord(t, rid, row(file, rid), Row(t, "update")),
             update_record(file, rid, Row(t, "update")))

Release(t) == busy' = [rid \in Rids |-> IF busy[rid] = t THEN Nobody ELSE busy[rid]]

(* commit gives the records free before it writes its log record. *)
commit(t) ==
    /\ Goes(t, "running", "log_commit")
    /\ Release(t)
    /\ UNCHANGED <<phase, starts, table, log_file, log_buffer, file, disk, write_set, todo>>

log_commit(t) ==
    /\ Goes(t, "log_commit", "committed")
    /\ add_log_to_buffer(CommitLogRecord(t))
    /\ UNCHANGED <<phase, starts, table, file, disk, busy, write_set, todo>>

abort(t) ==
    /\ "abort" \in Kinds
    /\ Goes(t, "running", "undoing")
    /\ UNCHANGED <<phase, starts, table, log_file, log_buffer, file, disk, busy, write_set, todo>>

(* The undo of a write, newest first, is not logged.  If the table is gone *)
(* it follows a null pointer: the server dies.                             *)
rollback_single_operation(t) ==
    LET ws == write_set[t]
        w  == ws[Len(ws)]
    IN  /\ phase = "up" /\ status[t] = "undoing" /\ ws # << >> /\ table
        /\ file' = IF ~ is_record(file, w.rid) THEN file
                   ELSE IF w.type = "insert"   THEN delete_record(file, w.rid)
                                               ELSE update_record(file, w.rid, w.old)
        /\ write_set' = [write_set EXCEPT ![t] = SubSeq(@, 1, Len(@) - 1)]
        /\ UNCHANGED <<phase, starts, table, log_file, log_buffer, disk, busy, status, todo>>

undone(t) ==
    /\ write_set[t] = << >>
    /\ Goes(t, "undoing", "log_abort")
    /\ Release(t)
    /\ UNCHANGED <<phase, starts, table, log_file, log_buffer, file, disk, write_set, todo>>

log_abort(t) ==
    /\ Goes(t, "log_abort", "aborted")
    /\ add_log_to_buffer(AbortLogRecord(t))
    /\ UNCHANGED <<phase, starts, table, file, disk, busy, write_set, todo>>

(* DROP TABLE asks for no lock and writes no log.  The file is gone, and    *)
(* what is said of it has no meaning any more: disk gets its first value.  *)
drop_table ==
    /\ "drop" \in Kinds
    /\ phase = "up" /\ table
    /\ table' = FALSE
    /\ disk' = LoadedDisk
    /\ UNCHANGED <<phase, starts, log_file, log_buffer, file, busy, status, write_set, todo>>

-----------------------------------------------------------------------------
(* The buffer pool and the death of the server *)

(* A dirty page may be written back at any time, whatever the log on disk  *)
(* says.  Pages that redo creates stay pinned: redo unpins them in another *)
(* pool.                                                                   *)
write_page(p) ==
    /\ \/ phase = "up"
       \/ phase \in {"redo", "undo"} /\ p < disk.num_pages
    /\ table /\ disk.pages[p] # file.pages[p]
    /\ disk' = [disk EXCEPT !.pages[p] = file.pages[p]]
    /\ UNCHANGED <<phase, starts, table, log_file, log_buffer, file, busy, status, write_set, todo>>

(* What a process knows is lost; history keeps who had committed. *)
Crash ==
    /\ phase \in {"up", "redo", "undo", "recovered"}
    /\ starts < MaxStarts
    /\ phase' = "down"
    /\ log_buffer' = << >>
    /\ todo' = {}
    /\ busy' = [rid \in Rids |-> Nobody]
    /\ write_set' = [t \in Txns |-> << >>]
    /\ file' = LoadedFile
    /\ status' = [t \in Txns |-> IF status[t] \in {"log_commit", "committed"}
                                  THEN "committed" ELSE "none"]
    /\ UNCHANGED <<starts, table, log_file, disk>>

-----------------------------------------------------------------------------
(* Recovery *)

WritesInLog == Writes(log_file)

Logged(type) == {t \in Txns : \E i \in DOMAIN log_file :
                                 log_file[i].type = type /\ log_file[i].tid = t}

(* undo_map_ after analyze: the transactions without an end in the log *)
Unfinished == Txns \ (Logged("commit") \cup Logged("abort"))

(* open_db reads the header and analyze the log: every write is redone. *)
open_db ==
    /\ phase \in {"down", "failed"}
    /\ starts < MaxStarts
    /\ starts' = starts + 1
    /\ file' = [first_free_page_no |-> disk.first_free_page_no,
                pages |-> SubSeq(disk.pages, 1, disk.num_pages - 1)]
    /\ todo' = WritesInLog
    /\ phase' = "redo"
    /\ UNCHANGED <<table, log_file, log_buffer, disk, busy, status, write_set>>

(* An exception leaves redo or undo, and main exits. *)
Fail == phase' = "failed" /\ UNCHANGED file

(* Mutant: without slot_is_occupied *)
redo_insert_NotIdempotent(r) ==
    LET room == IF num_pages(file) <= r.rid.page_no THEN create_new_page_handle(file)
                                                    ELSE file
    IN  IF num_pages(room) <= r.rid.page_no \/ is_record(room, r.rid)
          THEN Fail
          ELSE file' = insert_record_at(room, r.rid, r.new) /\ UNCHANGED phase

(* Redo of an insert makes one page, if the row's page is not there, and   *)
(* leaves an occupied slot as it is.                                       *)
redo_insert(r) ==
    LET room == IF num_pages(file) <= r.rid.page_no THEN create_new_page_handle(file)
                                                    ELSE file
    IN  IF num_pages(room) <= r.rid.page_no
          THEN Fail
          ELSE /\ file' = IF is_record(room, r.rid) THEN room
                          ELSE insert_record_at(room, r.rid, r.new)
               /\ UNCHANGED phase

(* Mutant: redo writes the old value *)
redo_update_Old(r) ==
    /\ file' = IF is_record(file, r.rid) THEN update_record(file, r.rid, r.old) ELSE file
    /\ UNCHANGED phase

(* Redo of an update catches the exception of a missing record. *)
redo_update(r) ==
    /\ file' = IF is_record(file, r.rid) THEN update_record(file, r.rid, r.new) ELSE file
    /\ UNCHANGED phase

(* Mutant: a record of a table that is gone stays the next, as in undo *)
redo_NoSkip ==
    /\ phase = "redo" /\ todo # {}
    /\ LET i == Min(todo)
           r == log_file[i]
       IN  \/ /\ table
              /\ \/ r.type = "insert" /\ redo_insert(r)
                 \/ r.type = "update" /\ redo_update(r)
              /\ todo' = IF phase' = "failed" THEN {} ELSE todo \ {i}
           \/ ~ table /\ UNCHANGED <<phase, file, todo>>
    /\ UNCHANGED <<starts, table, log_file, log_buffer, disk, busy, status, write_set>>

(* A record of a table that is gone is passed over. *)
redo ==
    /\ phase = "redo" /\ todo # {}
    /\ LET i == Min(todo)
           r == log_file[i]
       IN  /\ \/ table /\ r.type = "insert" /\ redo_insert(r)
              \/ table /\ r.type = "update" /\ redo_update(r)
              \/ ~ table /\ UNCHANGED <<phase, file>>
           /\ todo' = IF phase' = "failed" THEN {} ELSE todo \ {i}
    /\ UNCHANGED <<starts, table, log_file, log_buffer, disk, busy, status, write_set>>

redone ==
    /\ phase = "redo" /\ todo = {}
    /\ phase' = "undo"
    /\ todo' = {i \in WritesInLog : log_file[i].tid \in Unfinished}
    /\ UNCHANGED <<starts, table, log_file, log_buffer, file, disk, busy, status, write_set>>

(* Mutant: the records of a transaction are undone oldest first *)
UndoNext_Forward ==
    LET tid == Min({log_file[i].tid : i \in todo})
    IN  Min({i \in todo : log_file[i].tid = tid})

(* undo goes through the transactions in the order of their ids, and       *)
(* through the records of each backwards.                                  *)
UndoNext ==
    LET tid == Min({log_file[i].tid : i \in todo})
    IN  Max({i \in todo : log_file[i].tid = tid})

(* delete_record and update_record throw when the record is not there. *)
undo_record(r) ==
    IF ~ is_record(file, r.rid)
      THEN Fail
      ELSE /\ file' = IF r.type = "insert" THEN delete_record(file, r.rid)
                                           ELSE update_record(file, r.rid, r.old)
           /\ UNCHANGED phase

(* A record of a table that is gone is not passed over: `continue' goes    *)
(* round the loop without pop_back, to the same record, for ever, or until *)
(* the buffers it does not free have used up the memory.                   *)
undo ==
    /\ phase = "undo" /\ todo # {}
    /\ \/ /\ table /\ undo_record(log_file[UndoNext])
          /\ todo' = IF phase' = "failed" THEN {} ELSE todo \ {UndoNext}
       \/ ~ table /\ UNCHANGED <<phase, file, todo>>
    /\ UNCHANGED <<starts, table, log_file, log_buffer, disk, busy, status, write_set>>

is_recovery == WritesInLog # {} \/ Logged("begin") \cap Unfinished # {}

(* If there was anything to recover, all pages are written; the header is  *)
(* not.                                                                    *)
set_check_point ==
    /\ phase = "undo" /\ todo = {}
    /\ phase' = "recovered"
    /\ disk' = [disk EXCEPT !.pages = [p \in DOMAIN disk.pages |->
                   IF table /\ is_recovery /\ p \in DOMAIN file.pages THEN file.pages[p]
                                                                       ELSE disk.pages[p]]]
    /\ UNCHANGED <<starts, table, log_file, log_buffer, file, busy, status, write_set, todo>>

-----------------------------------------------------------------------------
Recover == redo \/ redone \/ undo \/ set_check_point

Transaction(t) ==
    \/ begin(t) \/ Insert(t) \/ (\E rid \in RidsOf(file) : Update(t, rid))
    \/ commit(t) \/ log_commit(t)
    \/ abort(t) \/ rollback_single_operation(t) \/ undone(t) \/ log_abort(t)

Next ==
    \/ \E t \in Txns : Transaction(t)
    \/ \E p \in DOMAIN file.pages : write_page(p)
    \/ drop_table \/ Crash \/ open_db \/ Recover

(* Recovery runs before the server serves anybody: main goes on with it    *)
(* until it ends or dies.                                                  *)
Spec == Init /\ [][Next]_vars /\ WF_vars(Recover)

-----------------------------------------------------------------------------
(* Properties *)

WritesOf(rid) == {i \in WritesInLog : log_file[i].rid = rid}

WritersOf(rid) == {log_file[i].tid : i \in WritesOf(rid)}

Content(rid) == IF rid \in RidsOf(file) THEN row(file, rid) ELSE NoRow

(* What redo is for: a record all of whose logged writers have their       *)
(* commit in the log is there after recovery, and if the last write of it  *)
(* in the log is an update, with what that update wrote: whatever pages    *)
(* had reached the disk, and however often recovery was interrupted, if    *)
(* the table was not dropped.                                              *)
CommittedIsRedone ==
    phase = "recovered" /\ table =>
        \A rid \in Rids :
            (WritesOf(rid) # {} /\ WritersOf(rid) \subseteq Logged("commit")) =>
                LET last == log_file[Max(WritesOf(rid))]
                IN  /\ Content(rid) # NoRow
                    /\ last.type = "update" => Content(rid) = last.new

(* What undo is for: a record that the log says one unfinished transaction *)
(* alone has written is after recovery as it was before its first write,   *)
(* if the table was not dropped.                                           *)
UnfinishedIsUndone ==
    phase = "recovered" /\ table =>
        \A rid \in Rids :
            (Cardinality(WritersOf(rid)) = 1 /\ WritersOf(rid) \subseteq Unfinished) =>
                Content(rid) = log_file[Min(WritesOf(rid))].old

(* Recovery gives up only when the log holds writes of one record by two   *)
(* transactions, neither of which has its end in the log.                  *)
FailsOnlyOnSharedRecords ==
    phase = "failed" =>
        \E rid \in Rids : Cardinality(WritersOf(rid) \cap Unfinished) > 1

(* The log, the file and the recovery have their types, and a recovery     *)
(* fails only so.                                                          *)
RecoveryInv == TypeOK /\ FailsOnlyOnSharedRecords

(* A recovery that is not interrupted ends, unless an unfinished           *)
(* transaction has logged writes to a table that was dropped since.        *)
RecoveryEnds ==
    (phase \in {"redo", "undo"} /\ (table \/ \A i \in WritesInLog : log_file[i].tid \notin Unfinished))
        ~> phase \notin {"redo", "undo"}

(* TLC refutes the three formulas below (README, "Known deviations").      *)

(* log_recovery.cpp:445 says of a log record whose table is not in db.meta  *)
(* that undo skips it and goes on with the next.                           *)
UndoPassesDroppedTable == (phase = "undo" /\ ~ table) ~> phase # "undo"

(* log_recovery.cpp:404 says of undo that it rolls unfinished transactions *)
(* back: after recovery no record has a row of a transaction that had not  *)
(* committed when the server died.                                         *)
NoRowOfUnfinished ==
    phase = "recovered" /\ table =>
        \A rid \in {r \in RidsOf(file) : is_record(file, r)} :
            LET t == row(file, rid).by
            IN  t # Nobody => status[t] = "committed"

(* rm_file_handle.cpp:92 says that the list of free pages is updated       *)
(* atomically with the row that fills a page, and insert_record relies on  *)
(* it: after recovery the page at the head of the list has a free slot.    *)
FreeListLeadsToRoom ==
    (phase = "recovered" /\ table /\ file.first_free_page_no # NoPage) =>
        /\ file.first_free_page_no \in DOMAIN file.pages
        /\ FreeSlots(file.pages[file.first_free_page_no]) # {}
=============================================================================
