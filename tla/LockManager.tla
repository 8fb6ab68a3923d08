---------------------------- MODULE LockManager ----------------------------
(***************************************************************************)
(* The lock table of src/transaction/concurrency/lock_manager.cpp: a       *)
(* no-wait two-phase lock manager.  Every operation runs under latch_, so  *)
(* an operation is one action.  A request that cannot be granted at once   *)
(* marks the transaction ABORTED and returns false; nothing ever waits.    *)
(*                                                                         *)
(* The caller is the thread of the transaction: it requests locks, it may  *)
(* give one back, and it ends the transaction by copying lock_set_ into a  *)
(* vector and unlocking every member of it (TransactionManager::commit and *)
(* abort).  A caller that was told false ends the transaction.             *)
(***************************************************************************)
EXTENDS Naturals, Sequences, FiniteSets

CONSTANTS Txns,        \* transaction ids
          RecordIds,   \* LockDataIds of type RECORD
          TableIds,    \* LockDataIds of type TABLE
          MaxQueue     \* bound: no table lock is requested on a longer queue

ASSUME LockIdsDisjoint == RecordIds \cap TableIds = {}

VARIABLES lock_table,  \* lock_table_: the request queue of every item
          lock_set,    \* Transaction::lock_set_
          state,       \* Transaction::state_
          to_release,  \* locks_to_release, local to commit and abort
          ending       \* where the caller is: running, ending one way, done

lockVars == <<lock_table, lock_set, state>>
vars     == <<lock_table, lock_set, state, to_release, ending>>

DataIds   == RecordIds \cup TableIds
LockModes == {"S", "X", "IS", "IX"}
TxnStates == {"GROWING", "SHRINKING", "COMMITTED", "ABORTED"}
Endings   == {"no", "commit", "abort", "done"}

(* Every request in a queue has granted_ = true: one that is refused is    *)
(* never appended.  A queue is kept exactly while it is not empty.         *)
Request == [txn : Txns, mode : LockModes]

TypeOK ==
    /\ lock_table \in [DataIds -> Seq(Request)]
    /\ lock_set \in [Txns -> SUBSET DataIds]
    /\ state \in [Txns -> TxnStates]
    /\ to_release \in [Txns -> SUBSET DataIds]
    /\ ending \in [Txns -> Endings]

Init ==
    /\ lock_table = [d \in DataIds |-> << >>]
    /\ lock_set = [t \in Txns |-> {}]
    /\ state = [t \in Txns |-> "GROWING"]
    /\ to_release = [t \in Txns |-> {}]
    /\ ending = [t \in Txns |-> "no"]

-----------------------------------------------------------------------------
(* Queue formulae *)

Positions(q, t) == {i \in DOMAIN q : q[i].txn = t}

Holds(t, d) == Positions(lock_table[d], t) # {}

HoldsMode(t, d, m) ==
    \E i \in DOMAIN lock_table[d] : lock_table[d][i] = [txn |-> t, mode |-> m]

OthersHold(t, d, modes) ==
    \E i \in DOMAIN lock_table[d] :
        /\ lock_table[d][i].txn # t
        /\ lock_table[d][i].mode \in modes

(* erase of the first request of t in the queue *)
FirstOf(q, t) ==
    CHOOSE i \in Positions(q, t) : \A j \in Positions(q, t) : i <= j

Without(q, i) ==
    [j \in 1 .. (Len(q) - 1) |-> IF j < i THEN q[j] ELSE q[j + 1]]

-----------------------------------------------------------------------------
(* Outcomes shared by the six lock operations *)

Grant(t, d, m) ==
    /\ lock_table' = [lock_table EXCEPT
                        ![d] = Append(@, [txn |-> t, mode |-> m])]
    /\ lock_set' = [lock_set EXCEPT ![t] = @ \cup {d}]
    /\ UNCHANGED state

Refuse(t) ==
    /\ state' = [state EXCEPT ![t] = "ABORTED"]
    /\ UNCHANGED <<lock_table, lock_set>>

(* Mutant: the two-phase test is missing. *)
Shrinking_Never(t) == FALSE

(* A shrinking transaction may not lock again: two-phase locking. *)
Shrinking(t) == state[t] = "SHRINKING"

(* Mutant: an IX request overlooks the S locks of the others. *)
TableConflicts_IXoverS(m) ==
    CASE m = "S"  -> {"X", "IX"}
      [] m = "X"  -> LockModes
      [] m = "IS" -> {"X"}
      [] m = "IX" -> {"X"}

(* The modes held by others that conflict with a table lock of mode m *)
TableConflicts(m) ==
    CASE m = "S"  -> {"X", "IX"}
      [] m = "X"  -> LockModes
      [] m = "IS" -> {"X"}
      [] m = "IX" -> {"X", "S"}

(* Mutant: no test for a lock that is held already. *)
lock_shared_on_record_NotReentrant(t, d) ==
    IF Shrinking(t) \/ OthersHold(t, d, {"X"}) \/ Len(lock_table[d]) > 2
      THEN Refuse(t)
      ELSE Grant(t, d, "S")

lock_shared_on_record(t, d) ==
    \/ /\ Shrinking(t)
       /\ Refuse(t)
    \/ /\ ~Shrinking(t)
       /\ Holds(t, d)
       /\ UNCHANGED lockVars
    \/ /\ ~Shrinking(t)
       /\ ~Holds(t, d)
       /\ IF OthersHold(t, d, {"X"}) THEN Refuse(t) ELSE Grant(t, d, "S")

(* The own S lock is not upgraded: the request is refused. *)
lock_exclusive_on_record(t, d) ==
    \/ /\ Shrinking(t)
       /\ Refuse(t)
    \/ /\ ~Shrinking(t)
       /\ HoldsMode(t, d, "X")
       /\ UNCHANGED lockVars
    \/ /\ ~Shrinking(t)
       /\ ~HoldsMode(t, d, "X")
       /\ IF HoldsMode(t, d, "S") \/ OthersHold(t, d, LockModes)
            THEN Refuse(t)
            ELSE Grant(t, d, "X")

(* The table locks look only at the other transactions' requests: a second *)
(* request of the same transaction is appended to the queue as well.       *)
LockTable(t, d, m) ==
    IF Shrinking(t) \/ OthersHold(t, d, TableConflicts(m))
      THEN Refuse(t)
      ELSE Grant(t, d, m)

lock_shared_on_table(t, d)    == LockTable(t, d, "S")
lock_exclusive_on_table(t, d) == LockTable(t, d, "X")
lock_IS_on_table(t, d)        == LockTable(t, d, "IS")
lock_IX_on_table(t, d)        == LockTable(t, d, "IX")

(* GROWING becomes SHRINKING before the queue is looked at; without a      *)
(* queue nothing else changes; otherwise the item leaves the lock set and  *)
(* the FIRST request of the transaction leaves the queue.                  *)
unlock(t, d) ==
    /\ state' = [state EXCEPT ![t] = IF @ = "GROWING" THEN "SHRINKING" ELSE @]
    /\ lock_set' = IF lock_table[d] = << >>
                     THEN lock_set
                     ELSE [lock_set EXCEPT ![t] = @ \ {d}]
    /\ lock_table' = IF Holds(t, d)
                       THEN [lock_table EXCEPT ![d] = Without(@, FirstOf(@, t))]
                       ELSE lock_table

-----------------------------------------------------------------------------
(* The caller *)

Running(t) == ending[t] = "no" /\ state[t] # "ABORTED"

LockRecord(t, d) ==
    /\ Running(t)
    /\ \/ lock_shared_on_record(t, d)
       \/ lock_exclusive_on_record(t, d)
    /\ UNCHANGED <<to_release, ending>>

LockTab(t, d) ==
    /\ Running(t)
    /\ Len(lock_table[d]) < MaxQueue
    /\ \/ lock_shared_on_table(t, d)
       \/ lock_exclusive_on_table(t, d)
       \/ lock_IS_on_table(t, d)
       \/ lock_IX_on_table(t, d)
    /\ UNCHANGED <<to_release, ending>>

UnlockEarly(t, d) ==
    /\ Running(t)
    /\ d \in lock_set[t]
    /\ unlock(t, d)
    /\ UNCHANGED <<to_release, ending>>

(* commit sets SHRINKING first, abort leaves the state alone; both copy    *)
(* the lock set before they unlock its members one by one.                 *)
StartCommit(t) ==
    /\ Running(t)
    /\ state' = [state EXCEPT ![t] = "SHRINKING"]
    /\ to_release' = [to_release EXCEPT ![t] = lock_set[t]]
    /\ ending' = [ending EXCEPT ![t] = "commit"]
    /\ UNCHANGED <<lock_table, lock_set>>

StartAbort(t) ==
    /\ ending[t] = "no"
    /\ to_release' = [to_release EXCEPT ![t] = lock_set[t]]
    /\ ending' = [ending EXCEPT ![t] = "abort"]
    /\ UNCHANGED lockVars

Release(t, d) ==
    /\ ending[t] \in {"commit", "abort"}
    /\ d \in to_release[t]
    /\ unlock(t, d)
    /\ to_release' = [to_release EXCEPT ![t] = @ \ {d}]
    /\ UNCHANGED ending

(* Mutant: the finished transaction object is reset. *)
Finish_Default(t) ==
    /\ ending[t] \in {"commit", "abort"}
    /\ to_release[t] = {}
    /\ lock_set' = [lock_set EXCEPT ![t] = {}]
    /\ state' = [state EXCEPT ![t] = "DEFAULT"]
    /\ ending' = [ending EXCEPT ![t] = "done"]
    /\ UNCHANGED <<lock_table, to_release>>

Finish(t) ==
    /\ ending[t] \in {"commit", "abort"}
    /\ to_release[t] = {}
    /\ lock_set' = [lock_set EXCEPT ![t] = {}]
    /\ state' = [state EXCEPT ![t] = IF ending[t] = "commit" THEN "COMMITTED"
                                                             ELSE "ABORTED"]
    /\ ending' = [ending EXCEPT ![t] = "done"]
    /\ UNCHANGED <<lock_table, to_release>>

Next ==
    \E t \in Txns :
        \/ \E d \in RecordIds : LockRecord(t, d)
        \/ \E d \in TableIds : LockTab(t, d)
        \/ \E d \in DataIds : UnlockEarly(t, d) \/ Release(t, d)
        \/ StartCommit(t)
        \/ StartAbort(t)
        \/ Finish(t)

Spec == Init /\ [][Next]_vars

-----------------------------------------------------------------------------
(* Properties *)

Compatible(m, n) ==
    /\ m # "X" /\ n # "X"
    /\ ~(m = "S" /\ n = "IX")
    /\ ~(m = "IX" /\ n = "S")

(* Whatever the order of requests, early unlocks and releases, two         *)
(* transactions never hold incompatible locks on one item: the promise of  *)
(* the six lock_* functions taken together.                                *)
GrantsCompatible ==
    \A d \in DataIds :
        \A i, j \in DOMAIN lock_table[d] :
            lock_table[d][i].txn # lock_table[d][j].txn
                => Compatible(lock_table[d][i].mode, lock_table[d][j].mode)

(* A transaction that has ended holds no record lock: the re-entrancy      *)
(* tests of the record locks keep one request per transaction and item, so *)
(* the single erase of unlock is enough.                                   *)
EndedHoldsNoRecordLock ==
    \A t \in Txns : ending[t] = "done" => \A d \in RecordIds : ~Holds(t, d)

(* Two-phase locking: after a transaction has given back a lock its set of *)
(* locks never grows again.                                                *)
TwoPhase ==
    [][\A t \in Txns : state[t] = "SHRINKING" => lock_set'[t] \subseteq lock_set[t]]_vars

-----------------------------------------------------------------------------
(* The inductive invariant behind the two state properties *)

RecordModes ==
    \A d \in RecordIds : \A i \in DOMAIN lock_table[d] :
        lock_table[d][i].mode \in {"S", "X"}

OneRequestPerRecord ==
    \A d \in RecordIds : \A i, j \in DOMAIN lock_table[d] :
        lock_table[d][i].txn = lock_table[d][j].txn => i = j

RecordLockInSet ==
    \A t \in Txns, d \in RecordIds : Holds(t, d) => d \in lock_set[t]

LockSetBacked ==
    \A t \in Txns : \A d \in lock_set[t] : Holds(t, d)

ReleaseCovers ==
    \A t \in Txns :
        /\ ending[t] \in {"commit", "abort"} => lock_set[t] \subseteq to_release[t]
        /\ ending[t] = "done" => lock_set[t] = {}

LockInv ==
    /\ TypeOK
    /\ GrantsCompatible
    /\ RecordModes
    /\ OneRequestPerRecord
    /\ RecordLockInSet
    /\ LockSetBacked
    /\ ReleaseCovers

=============================================================================
