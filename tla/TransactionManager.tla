------------------------- MODULE TransactionManager -------------------------
(***************************************************************************)
(* Transactions over one table: TransactionManager::begin, commit and      *)
(* abort, the update, delete, insert and scan executors that run between   *)
(* them, and what they share: the lock table, the version chains, the heap *)
(* slots, the visibility map and a unique index.                           *)
(*                                                                         *)
(* A client thread is a process.  Its steps are cut where it takes or      *)
(* gives back a latch, because another thread can run there; whatever it   *)
(* does under one latch, and whatever only it can see (its write set, its  *)
(* local record) goes into the same step.  Three latches matter:           *)
(* LockManager::latch_ and version_chains_mutex_ are held for one step;    *)
(* RmFileHandle::latch_ is held over two, the write of the slot and the    *)
(* write of the visibility map, and readers never take it.                 *)
(*                                                                         *)
(* The content of a record is the set of transactions whose writes it      *)
(* contains: an update adds its transaction to what it has read.           *)
(***************************************************************************)
EXTENDS Integers, Sequences, FiniteSets

CONSTANTS Txns,           \* transaction ids, given out in ascending order
          Rids,           \* the slots of the table
          Loaded,         \* the slots that hold a loaded record at the start
          KeyOf,          \* the index key of every loaded record
          Keys,           \* index keys
          NoRid,          \* the index has no entry
          Kinds,          \* the statements clients issue
          MaxStatements,  \* bound: statements of one transaction
          MaxRows,        \* bound: records one statement works on
          INT32_MAX, MaxIterations

ASSUME TxnIds == Txns \subseteq Nat
ASSUME LoadedRecords == Loaded \subseteq Rids /\ KeyOf \in [Loaded -> Keys]
ASSUME NoRidIsNoRid == NoRid \notin Rids
ASSUME StatementBound == MaxStatements \in Nat
ASSUME IntegerRange == INT32_MAX \in Nat /\ MaxIterations \in Nat /\ \A t \in Txns : t < INT32_MAX

VARIABLES
    lock_table, lock_set, state, to_release,   \* of LockManager
    next_timestamp,  \* TransactionManager::next_timestamp_
    read_ts,         \* Transaction::read_ts_
    commit_ts,       \* Transaction::commit_ts_
    write_set,       \* Transaction::write_set_
    chains,          \* MVCCManager::version_chains_
    heap,            \* bitmap bit and content of every slot
    latch,           \* holder of RmFileHandle::latch_
    mvcc_map,        \* RmFileHandle::mvcc_map_
    index,           \* the key -> rid map of the unique B+ tree
    pc,              \* what a thread does next
    stmt,            \* the statement it runs: kind, key, remaining rids_
    cur,             \* the record the statement works on
    rec,             \* the copy of it the executor has read
    left,            \* statements the client may still issue
    pos              \* abort: write records still to be undone

lockVars == <<lock_table, lock_set, state, to_release>>
data     == <<chains, heap, latch, mvcc_map, index>>
local    == <<stmt, cur, rec, left, pos>>
vars     == <<lockVars, next_timestamp, read_ts, commit_ts, write_set, data, pc, local>>

(* What the lock manager knows of a caller that does this step next *)
Phase(step) ==
    CASE step \in {"versions", "unlock", "erase"}         -> "commit"
      [] step \in {"undo", "abort_erase", "abort_unlock"} -> "abort"
      [] step \in {"committed", "aborted"}                -> "done"
      [] OTHER                                            -> "no"

ending == [t \in Txns |-> Phase(pc[t])]

LM == INSTANCE LockManager WITH RecordIds <- Rids, TableIds <- {}, MaxQueue <- 0
VC == INSTANCE VersionChain
MM == INSTANCE MvccMap

Free == -1        \* latch: nobody holds it

Steps == {"none", "idle", "row", "visit", "get", "index", "check", "version",
          "heap", "map", "unique", "slot", "slot_map", "entry", "throw",
          "versions", "unlock", "erase", "committed",
          "undo", "abort_erase", "abort_unlock", "aborted"}

(* A record: its index key and its content *)
Row(k, content) == [key |-> k, content |-> content]

NoRow == Row(NoRid, {})

Rows == [key : Keys \cup {NoRid}, content : SUBSET Txns]

NoStmt == [kind |-> "none", key |-> NoRid, rids |-> {}]

TypeOK ==
    /\ LM!TypeOK
    /\ next_timestamp \in Nat
    /\ read_ts \in [Txns -> Nat] /\ commit_ts \in [Txns -> Nat]
    /\ heap \in [Rids -> [used : BOOLEAN, row : Rows]]
    /\ latch \in Txns \cup {Free}
    /\ DOMAIN mvcc_map \subseteq Rids
    /\ index \in [Keys -> Rids \cup {NoRid}]
    /\ pc \in [Txns -> Steps]
    /\ cur \in [Txns -> Rids \cup {NoRid}]
    /\ rec \in [Txns -> Rows]
    /\ \A t \in Txns : stmt[t].rids \subseteq Rids /\ left[t] \in 0 .. MaxStatements

Init ==
    /\ pc = [t \in Txns |-> "none"]
    /\ LM!Init
    /\ next_timestamp = 1
    /\ read_ts = [t \in Txns |-> 0] /\ commit_ts = [t \in Txns |-> 0]
    /\ write_set = [t \in Txns |-> << >>]
    /\ chains = [r \in Rids |-> << >>]
    /\ heap = [r \in Rids |-> [used |-> r \in Loaded,
                               row |-> IF r \in Loaded THEN Row(KeyOf[r], {}) ELSE NoRow]]
    /\ latch = Free
    /\ mvcc_map = MM!EmptyMap
    /\ index = [k \in Keys |-> IF \E r \in Loaded : KeyOf[r] = k
                                 THEN CHOOSE r \in Loaded : KeyOf[r] = k
                                 ELSE NoRid]
    /\ stmt = [t \in Txns |-> NoStmt]
    /\ cur = [t \in Txns |-> NoRid]
    /\ rec = [t \in Txns |-> NoRow]
    /\ left = [t \in Txns |-> MaxStatements]
    /\ pos = [t \in Txns |-> 0]

-----------------------------------------------------------------------------
(* Common pieces of the steps *)

GoTo(t, step) == pc' = [pc EXCEPT ![t] = step]

WriteRecord(type, r, row) == [type |-> type, rid |-> r, row |-> row]

append_write_record(t, w) == write_set' = [write_set EXCEPT ![t] = Append(@, w)]

(* The executor's loop goes on with the next of rids_, or is done. *)
RowDone(t) ==
    /\ stmt' = [stmt EXCEPT ![t].rids = @ \ {cur[t]}]
    /\ GoTo(t, IF stmt[t].rids \ {cur[t]} = {} THEN "idle" ELSE "row")

(* An RMDBError ends the statement, not the transaction. *)
Fail(t) ==
    /\ stmt' = [stmt EXCEPT ![t].rids = {}]
    /\ GoTo(t, "idle")

(* A TransactionAbortException on its way to client_handler *)
Throw(t) == GoTo(t, "throw") /\ UNCHANGED stmt

(* Mutant: no timestamp is drawn. *)
NextTimestamp_Unset(ts, t) ==
    /\ ts' = [ts EXCEPT ![t] = VC!INVALID_TIMESTAMP]
    /\ next_timestamp' = next_timestamp + 1

NextTimestamp(ts, t) ==
    /\ ts' = [ts EXCEPT ![t] = next_timestamp]
    /\ next_timestamp' = next_timestamp + 1

-----------------------------------------------------------------------------
(* Begin and the statements *)

begin(t) ==
    /\ pc[t] = "none"
    /\ \A u \in Txns : u < t => pc[u] # "none"
    /\ NextTimestamp(read_ts, t)
    /\ GoTo(t, "idle")
    /\ UNCHANGED <<lockVars, commit_ts, write_set, data, local>>

(* SetTransaction refreshes the read timestamp for every statement of an   *)
(* explicit transaction; the scan below the executor collects rids_        *)
(* without any lock.                                                       *)
SetTransaction(t) ==
    /\ pc[t] = "idle"
    /\ left[t] > 0
    /\ left' = [left EXCEPT ![t] = @ - 1]
    /\ NextTimestamp(read_ts, t)
    /\ UNCHANGED <<lockVars, commit_ts, write_set, data, cur, rec, pos>>

Statement(t) ==
    /\ SetTransaction(t)
    /\ \E kind \in Kinds \ {"insert"}, rids \in SUBSET {r \in Rids : heap[r].used} :
          /\ Cardinality(rids) \in 1 .. MaxRows
          /\ stmt' = [stmt EXCEPT ![t] = [kind |-> kind, key |-> NoRid, rids |-> rids]]
    /\ GoTo(t, "row")

InsertStatement(t) ==
    /\ "insert" \in Kinds
    /\ SetTransaction(t)
    /\ \E k \in Keys :
          stmt' = [stmt EXCEPT ![t] = [kind |-> "insert", key |-> k, rids |-> {}]]
    /\ GoTo(t, "unique")

-----------------------------------------------------------------------------
(* Scan, update and delete: the steps for one record of rids_ *)

(* Mutant: a shared lock is thought to be enough. *)
lock_record_Shared(t, r) ==
    /\ pc[t] = "row" /\ stmt[t].kind # "read"
    /\ r \in stmt[t].rids
    /\ LM!lock_shared_on_record(t, r)
    /\ cur' = [cur EXCEPT ![t] = r]
    /\ GoTo(t, IF state'[t] = "ABORTED" THEN "throw" ELSE "visit")
    /\ UNCHANGED <<to_release, next_timestamp, read_ts, commit_ts, write_set, data,
                   stmt, rec, left, pos>>

(* UpdateExecutor, DeleteExecutor: the lock, or a thrown refusal *)
lock_record(t, r) ==
    /\ pc[t] = "row" /\ stmt[t].kind # "read"
    /\ r \in stmt[t].rids
    /\ LM!lock_exclusive_on_record(t, r)
    /\ cur' = [cur EXCEPT ![t] = r]
    /\ GoTo(t, IF state'[t] = "ABORTED" THEN "throw" ELSE "visit")
    /\ UNCHANGED <<to_release, next_timestamp, read_ts, commit_ts, write_set, data,
                   stmt, rec, left, pos>>

(* A scan takes no lock. *)
scan_record(t, r) ==
    /\ pc[t] = "row" /\ stmt[t].kind = "read"
    /\ r \in stmt[t].rids
    /\ cur' = [cur EXCEPT ![t] = r]
    /\ GoTo(t, "visit")
    /\ UNCHANGED <<lockVars, next_timestamp, read_ts, commit_ts, write_set, data,
                   stmt, rec, left, pos>>

(* get_record_mvcc: an invisible record is skipped silently ... *)
visit(t) ==
    /\ pc[t] = "visit"
    /\ IF MM!visit(mvcc_map, cur[t], t)
         THEN GoTo(t, "get") /\ UNCHANGED stmt
         ELSE RowDone(t)
    /\ UNCHANGED <<lockVars, next_timestamp, read_ts, commit_ts, write_set, data,
                   cur, rec, left, pos>>

(* ... and then the slot is copied; an empty one is RecordNotFoundError. *)
get_record(t) ==
    /\ pc[t] = "get"
    /\ IF heap[cur[t]].used
         THEN /\ rec' = [rec EXCEPT ![t] = heap[cur[t]].row]
              /\ \/ stmt[t].kind = "read" /\ RowDone(t)
                 \/ stmt[t].kind = "update" /\ GoTo(t, "check") /\ UNCHANGED stmt
                 \/ stmt[t].kind = "delete" /\ GoTo(t, "index") /\ UNCHANGED stmt
         ELSE Fail(t) /\ UNCHANGED rec
    /\ UNCHANGED <<lockVars, next_timestamp, read_ts, commit_ts, write_set, data,
                   cur, left, pos>>

(* DeleteExecutor takes the key out of the index first. *)
delete_entry(t) ==
    /\ pc[t] = "index"
    /\ index' = [index EXCEPT ![rec[t].key] = NoRid]
    /\ append_write_record(t, WriteRecord("IX_DELETE", cur[t], Row(rec[t].key, {})))
    /\ GoTo(t, "check")
    /\ UNCHANGED <<lockVars, next_timestamp, read_ts, commit_ts, chains, heap, latch,
                   mvcc_map, local>>

(* What the SET clauses make of the record that was read *)
Updated(t) == [rec[t] EXCEPT !.content = @ \cup {t}]

(* The conflict test on the head in update_record_mvcc, delete_record_mvcc *)
check_head(t) ==
    /\ pc[t] = "check"
    /\ LET chain == chains[cur[t]]
           gone  == /\ stmt[t].kind = "update"
                    /\ chain # << >>
                    /\ Head(chain).is_deleted
                    /\ Head(chain).txn_id # t
       IN  IF VC!has_write_conflict(chain, t) \/ gone
             THEN Throw(t)
             ELSE GoTo(t, "version") /\ UNCHANGED stmt
    /\ UNCHANGED <<lockVars, next_timestamp, read_ts, commit_ts, write_set, data,
                   cur, rec, left, pos>>

update_version(t) ==
    /\ pc[t] = "version" /\ stmt[t].kind = "update"
    /\ IF VC!UpdateSucceeds(chains[cur[t]], read_ts[t], t)
         THEN /\ chains' = [chains EXCEPT
                              ![cur[t]] = VC!update_version(@, t, Updated(t))]
              /\ GoTo(t, "heap")
              /\ UNCHANGED stmt
         ELSE Throw(t) /\ UNCHANGED chains
    /\ UNCHANGED <<lockVars, next_timestamp, read_ts, commit_ts, write_set,
                   heap, latch, mvcc_map, index, cur, rec, left, pos>>

(* The slot keeps the deleted record: only the chain and the write set     *)
(* learn of the deletion.                                                  *)
delete_version(t) ==
    /\ pc[t] = "version" /\ stmt[t].kind = "delete"
    /\ LET r     == cur[t]
           chain == IF heap[r].used THEN VC!WithInitial(chains[r], heap[r].row)
                                    ELSE chains[r]
       IN  IF VC!DeleteSucceeds(chain, read_ts[t], t)
             THEN /\ chains' = [chains EXCEPT ![r] = VC!delete_version(chain, read_ts[t], t)]
                  /\ append_write_record(t, WriteRecord("DELETE", r, rec[t]))
                  /\ RowDone(t)
             ELSE Throw(t) /\ chains' = [chains EXCEPT ![r] = chain] /\ UNCHANGED write_set
    /\ UNCHANGED <<lockVars, next_timestamp, read_ts, commit_ts, heap, latch, mvcc_map,
                   index, cur, rec, left, pos>>

(* RmFileHandle::update_record, up to the memcpy *)
update_record(t) ==
    /\ pc[t] = "heap"
    /\ latch = Free
    /\ IF heap[cur[t]].used
         THEN /\ heap' = [heap EXCEPT ![cur[t]].row = Updated(t)]
              /\ latch' = t
              /\ GoTo(t, "map")
              /\ UNCHANGED stmt
         ELSE Fail(t) /\ UNCHANGED <<heap, latch>>
    /\ UNCHANGED <<lockVars, next_timestamp, read_ts, commit_ts, write_set, chains,
                   mvcc_map, index, cur, rec, left, pos>>

(* Mutant: the latch is not given back. *)
update_record_map_KeepsLatch(t) ==
    /\ pc[t] = "map"
    /\ mvcc_map' = MM!insert_record(mvcc_map, cur[t], t)
    /\ append_write_record(t, WriteRecord("UPDATE", cur[t], rec[t]))
    /\ RowDone(t)
    /\ UNCHANGED <<lockVars, next_timestamp, read_ts, commit_ts, chains, heap, latch, index,
                   cur, rec, left, pos>>

(* ... and from there; then UpdateExecutor notes the old content. *)
update_record_map(t) ==
    /\ pc[t] = "map"
    /\ mvcc_map' = MM!insert_record(mvcc_map, cur[t], t)
    /\ latch' = Free
    /\ append_write_record(t, WriteRecord("UPDATE", cur[t], rec[t]))
    /\ RowDone(t)
    /\ UNCHANGED <<lockVars, next_timestamp, read_ts, commit_ts, chains, heap, index,
                   cur, rec, left, pos>>

-----------------------------------------------------------------------------
(* InsertExecutor::Next *)

is_unique(t) ==
    /\ pc[t] = "unique"
    /\ IF index[stmt[t].key] = NoRid THEN GoTo(t, "slot") /\ UNCHANGED stmt
                                     ELSE Fail(t)
    /\ UNCHANGED <<lockVars, next_timestamp, read_ts, commit_ts, write_set, data,
                   cur, rec, left, pos>>

(* RmFileHandle::insert_record, up to the bitmap; no lock is taken. *)
insert_record(t) ==
    /\ pc[t] = "slot"
    /\ latch = Free
    /\ \E r \in Rids :
          /\ ~heap[r].used
          /\ heap' = [heap EXCEPT ![r] = [used |-> TRUE, row |-> Row(stmt[t].key, {t})]]
          /\ cur' = [cur EXCEPT ![t] = r]
    /\ latch' = t
    /\ GoTo(t, "slot_map")
    /\ UNCHANGED <<lockVars, next_timestamp, read_ts, commit_ts, write_set, chains,
                   mvcc_map, index, stmt, rec, left, pos>>

insert_record_map(t) ==
    /\ pc[t] = "slot_map"
    /\ mvcc_map' = MM!insert_record(mvcc_map, cur[t], t)
    /\ latch' = Free
    /\ append_write_record(t, WriteRecord("INSERT", cur[t], Row(stmt[t].key, {t})))
    /\ GoTo(t, "entry")
    /\ UNCHANGED <<lockVars, next_timestamp, read_ts, commit_ts, chains, heap, index,
                   local>>

(* B+ tree insertion: a key that is present is left as it is. *)
EntryInserted(k, r) == [index EXCEPT ![k] = IF @ = NoRid THEN r ELSE @]

insert_entry(t) ==
    /\ pc[t] = "entry"
    /\ index' = EntryInserted(stmt[t].key, cur[t])
    /\ append_write_record(t, WriteRecord("IX_INSERT", cur[t], Row(stmt[t].key, {})))
    /\ GoTo(t, "idle")
    /\ UNCHANGED <<lockVars, next_timestamp, read_ts, commit_ts, chains, heap, latch,
                   mvcc_map, local>>

-----------------------------------------------------------------------------
(* TransactionManager::commit *)

(* target_keys: the records of the tuple writes *)
Written(t) == {write_set[t][i].rid :
                 i \in {j \in DOMAIN write_set[t] :
                          write_set[t][j].type \in {"INSERT", "UPDATE", "DELETE"}}}

commit(t) ==
    /\ pc[t] = "idle"
    /\ state' = [state EXCEPT ![t] = "SHRINKING"]
    /\ to_release' = [to_release EXCEPT ![t] = lock_set[t]]
    /\ NextTimestamp(commit_ts, t)
    /\ GoTo(t, "versions")
    /\ UNCHANGED <<lock_table, lock_set, read_ts, write_set, data, local>>

(* Mutant: the loop over locks_to_release is gone. *)
commit_mvcc_versions_NoRelease(t) ==
    /\ pc[t] = "versions"
    /\ chains' = [r \in Rids |->
                    IF r \in Written(t)
                      THEN VC!commit_chain_versions(chains[r], t, commit_ts[t])
                      ELSE chains[r]]
    /\ GoTo(t, "erase")
    /\ UNCHANGED <<lockVars, next_timestamp, read_ts, commit_ts, write_set, heap, latch,
                   mvcc_map, index, local>>

(* commit_transaction, for the chains of the write set *)
commit_mvcc_versions(t) ==
    /\ pc[t] = "versions"
    /\ chains' = [r \in Rids |->
                    IF r \in Written(t)
                      THEN VC!commit_chain_versions(chains[r], t, commit_ts[t])
                      ELSE chains[r]]
    /\ GoTo(t, IF to_release[t] = {} THEN "erase" ELSE "unlock")
    /\ UNCHANGED <<lockVars, next_timestamp, read_ts, commit_ts, write_set, heap, latch,
                   mvcc_map, index, local>>

(* One round of the loop over locks_to_release, of commit and of abort *)
unlock(t, r) ==
    /\ pc[t] \in {"unlock", "abort_unlock"}
    /\ r \in to_release[t]
    /\ LM!unlock(t, r)
    /\ to_release' = [to_release EXCEPT ![t] = @ \ {r}]
    /\ IF pc[t] = "unlock" /\ to_release'[t] = {} THEN GoTo(t, "erase") ELSE UNCHANGED pc
    /\ UNCHANGED <<next_timestamp, read_ts, commit_ts, write_set, data, local>>

(* One round of the loop that clears the visibility map, of commit and of  *)
(* abort; the table of an index write is not in fhs_.                      *)
erase_entry(t) ==
    /\ pc[t] \in {"erase", "abort_erase"}
    /\ write_set[t] # << >>
    /\ LET w == Head(write_set[t])
       IN  mvcc_map' = IF w.type \in {"INSERT", "UPDATE", "DELETE"}
                         THEN MM!commit_mvcc(mvcc_map, w.rid)
                         ELSE mvcc_map
    /\ write_set' = [write_set EXCEPT ![t] = Tail(@)]
    /\ UNCHANGED <<lockVars, next_timestamp, read_ts, commit_ts, chains, heap, latch,
                   index, pc, local>>

finish_commit(t) ==
    /\ pc[t] = "erase"
    /\ write_set[t] = << >>
    /\ lock_set' = [lock_set EXCEPT ![t] = {}]
    /\ state' = [state EXCEPT ![t] = "COMMITTED"]
    /\ GoTo(t, "committed")
    /\ UNCHANGED <<lock_table, to_release, next_timestamp, read_ts, commit_ts, write_set,
                   data, local>>

-----------------------------------------------------------------------------
(* TransactionManager::abort, after an exception or on the client's demand *)

(* Mutant: the versions are not rolled back. *)
abort_KeepsVersions(t) ==
    /\ pc[t] \in {"idle", "throw"}
    /\ to_release' = [to_release EXCEPT ![t] = lock_set[t]]
    /\ pos' = [pos EXCEPT ![t] = Len(write_set[t])]
    /\ GoTo(t, "undo")
    /\ UNCHANGED <<lock_table, lock_set, state, next_timestamp, read_ts, commit_ts,
                   write_set, data, stmt, cur, rec, left>>

(* rollback_mvcc_versions, for the chains of the write set *)
abort(t) ==
    /\ pc[t] \in {"idle", "throw"}
    /\ to_release' = [to_release EXCEPT ![t] = lock_set[t]]
    /\ chains' = [r \in Rids |-> IF r \in Written(t)
                                   THEN VC!rollback_chain_versions(chains[r], t)
                                   ELSE chains[r]]
    /\ pos' = [pos EXCEPT ![t] = Len(write_set[t])]
    /\ GoTo(t, "undo")
    /\ UNCHANGED <<lock_table, lock_set, state, next_timestamp, read_ts, commit_ts,
                   write_set, heap, latch, mvcc_map, index, stmt, cur, rec, left>>

(* Mutant: an inserted record is left where it is. *)
Undo_KeepsInsert(w) ==
    /\ w.type = "UPDATE" => latch = Free
    /\ heap' = IF w.type = "UPDATE" /\ heap[w.rid].used
                 THEN [heap EXCEPT ![w.rid].row = w.row] ELSE heap
    /\ index' = CASE w.type = "IX_INSERT" -> [index EXCEPT ![w.row.key] = NoRid]
                  [] w.type = "IX_DELETE" -> EntryInserted(w.row.key, w.rid)
                  [] OTHER -> index

(* Mutant: the index entry of an inserted record is left where it is. *)
Undo_KeepsEntry(w) ==
    /\ w.type \in {"INSERT", "UPDATE"} => latch = Free
    /\ heap' = CASE w.type = "INSERT" -> [heap EXCEPT ![w.rid].used = FALSE]
                 [] w.type = "UPDATE" /\ heap[w.rid].used ->
                       [heap EXCEPT ![w.rid].row = w.row]
                 [] OTHER -> heap
    /\ index' = IF w.type = "IX_DELETE" THEN EntryInserted(w.row.key, w.rid) ELSE index

(* rollback_single_operation: the heap operations take the file's latch;   *)
(* one that finds its slot empty throws and is passed over.                *)
Undo(w) ==
    /\ w.type \in {"INSERT", "UPDATE"} => latch = Free
    /\ heap' = CASE w.type = "INSERT" -> [heap EXCEPT ![w.rid].used = FALSE]
                 [] w.type = "UPDATE" /\ heap[w.rid].used ->
                       [heap EXCEPT ![w.rid].row = w.row]
                 [] OTHER -> heap
    /\ index' = CASE w.type = "IX_INSERT" -> [index EXCEPT ![w.row.key] = NoRid]
                  [] w.type = "IX_DELETE" -> EntryInserted(w.row.key, w.rid)
                  [] OTHER -> index

(* Mutant: the oldest write is undone first. *)
rollback_single_operation_Forward(t) ==
    /\ pc[t] = "undo"
    /\ pos[t] > 0
    /\ pos' = [pos EXCEPT ![t] = @ - 1]
    /\ Undo(write_set[t][Len(write_set[t]) + 1 - pos[t]])
    /\ UNCHANGED <<lockVars, next_timestamp, read_ts, commit_ts, write_set, chains, latch,
                   mvcc_map, pc, stmt, cur, rec, left>>

(* One round of the loop over the write set, from its end *)
rollback_single_operation(t) ==
    /\ pc[t] = "undo"
    /\ pos[t] > 0
    /\ pos' = [pos EXCEPT ![t] = @ - 1]
    /\ Undo(write_set[t][pos[t]])
    /\ UNCHANGED <<lockVars, next_timestamp, read_ts, commit_ts, write_set, chains, latch,
                   mvcc_map, pc, stmt, cur, rec, left>>

(* Mutant: the visibility map is not cleared. *)
undone_KeepsEntries(t) ==
    /\ pc[t] = "undo"
    /\ pos[t] = 0
    /\ GoTo(t, "abort_unlock")
    /\ UNCHANGED <<lockVars, next_timestamp, read_ts, commit_ts, write_set, data, local>>

undone(t) ==
    /\ pc[t] = "undo"
    /\ pos[t] = 0
    /\ GoTo(t, "abort_erase")
    /\ UNCHANGED <<lockVars, next_timestamp, read_ts, commit_ts, write_set, data, local>>

erased(t) ==
    /\ pc[t] = "abort_erase"
    /\ write_set[t] = << >>
    /\ GoTo(t, "abort_unlock")
    /\ UNCHANGED <<lockVars, next_timestamp, read_ts, commit_ts, write_set, data, local>>

finish_abort(t) ==
    /\ pc[t] = "abort_unlock"
    /\ to_release[t] = {}
    /\ lock_set' = [lock_set EXCEPT ![t] = {}]
    /\ state' = [state EXCEPT ![t] = "ABORTED"]
    /\ GoTo(t, "aborted")
    /\ UNCHANGED <<lock_table, to_release, next_timestamp, read_ts, commit_ts, write_set,
                   data, local>>

-----------------------------------------------------------------------------
(* What the client asks for, and what the server does on its own *)
Client(t) == begin(t) \/ Statement(t) \/ InsertStatement(t)

Server(t) ==
    \/ \E r \in Rids : lock_record(t, r) \/ scan_record(t, r)
    \/ visit(t) \/ get_record(t) \/ delete_entry(t) \/ check_head(t)
    \/ update_version(t) \/ delete_version(t)
    \/ update_record(t) \/ update_record_map(t)
    \/ is_unique(t) \/ insert_record(t) \/ insert_record_map(t) \/ insert_entry(t)
    \/ commit_mvcc_versions(t) \/ erase_entry(t) \/ finish_commit(t)
    \/ \E r \in Rids : unlock(t, r)
    \/ rollback_single_operation(t) \/ undone(t) \/ erased(t) \/ finish_abort(t)

Next == \E t \in Txns : Client(t) \/ commit(t) \/ abort(t) \/ Server(t)

Spec == Init /\ [][Next]_vars

(* A thread that is inside a statement, commit or abort keeps running; the *)
(* client alone decides when to begin, what to ask for and when to end.    *)
FairSpec ==
    /\ Spec
    /\ \A t \in Txns : WF_vars(Server(t)) /\ WF_vars(pc[t] = "throw" /\ abort(t))

-----------------------------------------------------------------------------
(* Properties of updates, deletes and scans *)

Ended(t) == pc[t] \in {"committed", "aborted"}

(* A transaction counts as committed from the moment commit() starts. *)
Committing(t) == pc[t] \in {"versions", "unlock", "erase", "committed"}

LockedX(t, r) == LM!HoldsMode(t, r, "X")

Unlocked(r) == lock_table[r] = << >>

(* A transaction that has ended has left nothing behind that stops others: *)
(* no lock, no uncommitted version, no entry of the visibility map.        *)
EndedLeavesNothing ==
    \A t \in Txns : Ended(t) =>
        \A r \in Rids :
            /\ ~LM!Holds(t, r)
            /\ \A i \in DOMAIN chains[r] : ~VC!UncommittedOf(chains[r][i], t)
            /\ r \in DOMAIN mvcc_map => mvcc_map[r].t_xmin # -t

(* No update is lost: whatever a committed version contains, every later   *)
(* live version of the record contains too.  UpdateExecutor reads the slot *)
(* only under the exclusive lock, and commit keeps that lock until the     *)
(* versions carry their timestamps.  (A deletion copies the version of its *)
(* snapshot, which may be older than the newest.)                          *)
NoLostUpdate ==
    \A r \in Rids : \A i, j \in DOMAIN chains[r] :
        (i < j /\ ~VC!Uncommitted(chains[r][j]) /\ ~chains[r][i].is_deleted) =>
            chains[r][j].data.content \subseteq chains[r][i].data.content

(* The content of the first of the versions at the given positions, the    *)
(* empty one if there is none                                              *)
Shows(chain, positions, content) ==
    \/ positions = {} /\ content = {}
    \/ \E i \in positions : (\A j \in positions : i <= j) /\ content = chain[i].data.content

Live(chain) == {i \in DOMAIN chain : ~chain[i].is_deleted}

(* The slot and the chain agree whenever nobody holds the record: abort    *)
(* undoes the slot in reverse order, and both before it unlocks; no write  *)
(* of an aborted transaction survives in a slot.                           *)
SlotAgreesWithChain ==
    \A r \in Rids : Unlocked(r) => Shows(chains[r], Live(chains[r]), heap[r].row.content)

(* An uncommitted version is always the head's, and its transaction holds  *)
(* the exclusive lock of the record: the version of the record that a      *)
(* writer builds on is decided by the lock alone.                          *)
UncommittedIsLocked ==
    \A r \in Rids : \A i \in DOMAIN chains[r] :
        VC!Uncommitted(chains[r][i]) =>
            /\ LockedX(chains[r][i].txn_id, r)
            /\ \A j \in 1 .. i : VC!UncommittedOf(chains[r][j], chains[r][i].txn_id)

(* find_visible_version returns the version a snapshot should see: of the  *)
(* versions committed up to read_ts the one with the greatest commit       *)
(* timestamp, and none if that one is a deletion.  So commit timestamps    *)
(* never fall along a chain, although they are drawn before, and outside   *)
(* of, the step that writes them.                                          *)
SnapshotIsNewestCommitted ==
    \A r \in Rids, ts \in 0 .. next_timestamp :
        LET chain  == chains[r]
            inSnap == {i \in DOMAIN chain : ~VC!Uncommitted(chain[i]) /\ chain[i].create_ts <= ts}
            newest == {i \in inSnap : \A j \in inSnap :
                          \/ chain[i].create_ts > chain[j].create_ts
                          \/ chain[i].create_ts = chain[j].create_ts /\ i <= j}
            found  == VC!find_visible_version(chain, ts, INT32_MAX)
        IN  IF found = 0
              THEN \A i \in newest : chain[i].is_deleted
              ELSE found \in newest /\ ~chain[found].is_deleted

(* What an update or a delete reads under the exclusive lock is committed, *)
(* or its own.                                                             *)
WritersReadCommitted ==
    [][\A t \in Txns :
         (pc[t] = "get" /\ stmt[t].kind # "read" /\ rec'[t] # rec[t]) =>
             \A u \in rec'[t].content \ {t} : Committing(u)]_vars

(* Every statement, commit and abort comes to an end, whatever the others  *)
(* do: lock requests are refused, never queued, and RmFileHandle::latch_   *)
(* is always given back.                                                   *)
ThreadsReturn ==
    \A t \in Txns : pc[t] \notin {"none", "idle", "committed", "aborted"}
                      ~> pc[t] \in {"idle", "committed", "aborted"}

(* Seen from the lock table, the executors and the transaction manager are *)
(* the caller that LockManager describes.                                  *)
LockClient == LM!Spec

(* Inserts: the index never leads to a slot that an abort has freed.       *)
IndexLeadsToRecords ==
    \A k \in Keys : index[k] # NoRid =>
        heap[index[k]].used /\ heap[index[k]].row.key = k

(* Nothing an aborted transaction wrote is left in a used slot. *)
AbortedIsUndone ==
    \A t \in Txns, r \in Rids :
        pc[t] = "aborted" /\ heap[r].used => t \notin heap[r].row.content

-----------------------------------------------------------------------------
(* What comments of the source promise of every statement.  TLC refutes    *)
(* the four formulas below; the README lists the instances that do it      *)
(* under "Known deviations".                                               *)

(* "uncommitted versions are invisible (no dirty read)": what a scan       *)
(* returns is committed, or its own.                                       *)
ScansReadCommitted ==
    [][\A t \in Txns :
         (pc[t] = "get" /\ stmt[t].kind = "read" /\ rec'[t] # rec[t]) =>
             \A u \in rec'[t].content \ {t} : Committing(u)]_vars

(* "t_xmin: positive once committed, negative while uncommitted": an       *)
(* update or delete that holds the lock skips a record as invisible only   *)
(* if an uncommitted transaction wrote it.                                 *)
SkipsOnlyUncommitted ==
    [][\A t \in Txns :
         (pc[t] = "visit" /\ stmt[t].kind # "read" /\ pc'[t] \in {"idle", "row"}) =>
             \E u \in Txns : mvcc_map[cur[t]].t_xmin = -u /\ ~Committing(u)]_vars

(* "deleted versions are never visible": a statement whose snapshot is     *)
(* younger than a committed deletion does not read the record.             *)
DeletedIsInvisible ==
    [][\A t \in Txns :
         (pc[t] = "get" /\ stmt[t].kind = "read" /\ rec'[t] # rec[t]) =>
             LET chain == chains[cur[t]]
             IN  ~(/\ chain # << >>
                   /\ Head(chain).is_deleted
                   /\ ~VC!Uncommitted(Head(chain))
                   /\ Head(chain).create_ts < read_ts[t])]_vars

(* "first check that the key is unique": two committed records never have  *)
(* the same key.                                                           *)
KeysAreUnique ==
    \A r, s \in Rids :
        /\ r # s /\ heap[r].used /\ heap[s].used
        /\ chains[r] = << >> /\ chains[s] = << >>
        /\ {r, s} \cap DOMAIN mvcc_map = {} /\ latch = Free
        => heap[r].row.key # heap[s].row.key
=============================================================================
