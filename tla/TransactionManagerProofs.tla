---------------------- MODULE TransactionManagerProofs ----------------------
(***************************************************************************)
(* Proofs about TransactionManager, for any number of transactions,        *)
(* records and statements, in seven parts:                                 *)
(*   - the server uses the lock table as LockManager says, so that what    *)
(*     LockManagerProofs proves of the lock manager holds of the server;   *)
(*   - what the operators of VersionChain do to a chain of any length;     *)
(*   - what the record locks buy: who may have an uncommitted version;     *)
(*   - no committed update is lost, and writers read committed records;    *)
(*   - commit timestamps never rise along a chain, so that a snapshot sees *)
(*     the newest committed version;                                       *)
(*   - the slot shows what the chain does whenever nobody holds the record;*)
(*   - inserts, which take no lock, leave no entry and no record behind.   *)
(***************************************************************************)
EXTENDS TransactionManager, TLAPS, WellFoundedInduction, FiniteSetTheorems

(* The steps of a transaction that no lock request has been refused to *)
Working == {"none", "idle", "row", "visit", "get", "index", "check", "version",
            "heap", "map", "unique", "slot", "slot_map", "entry"}

(* A working transaction is GROWING, and commit reaches its erase loop     *)
(* only when the release loop is through.                                  *)
ClientInv ==
    /\ pc \in [Txns -> Steps]
    /\ state \in [Txns -> LM!TxnStates]
    /\ lock_set \in [Txns -> SUBSET Rids]
    /\ to_release \in [Txns -> SUBSET Rids]
    /\ \A t \in Txns : pc[t] \in Working => state[t] = "GROWING"
    /\ \A t \in Txns : pc[t] = "erase" => to_release[t] = {}

(* A step of a thread that stays in its phase and leaves the lock table    *)
(* alone is not seen by the lock manager.                                  *)
LEMMA QuietStep ==
    ASSUME NEW t \in Txns, NEW s \in Steps, ClientInv,
           pc' = [pc EXCEPT ![t] = s],
           UNCHANGED lockVars,
           Phase(s) = Phase(pc[t]),
           s \in Working => pc[t] \in Working,
           s = "erase" => to_release[t] = {}
    PROVE  ClientInv' /\ UNCHANGED LM!vars
<1>1. ClientInv'
  BY DEF ClientInv, lockVars
<1>2. ending' = ending
  BY DEF ending, ClientInv
<1> QED
  BY <1>1, <1>2 DEF LM!vars, lockVars

(* The steps of an executor up to the end of the statement *)
Executor(t) ==
    \/ \E r \in Rids : scan_record(t, r)
    \/ visit(t) \/ get_record(t) \/ delete_entry(t) \/ check_head(t)
    \/ update_version(t) \/ delete_version(t)
    \/ update_record(t) \/ update_record_map(t)
    \/ is_unique(t) \/ insert_record(t) \/ insert_record_map(t) \/ insert_entry(t)

(* They leave the lock table and the phase alone. *)
LEMMA ExecutorIsQuiet ==
    ASSUME NEW t \in Txns, ClientInv, Client(t) \/ Executor(t)
    PROVE  ClientInv' /\ UNCHANGED LM!vars
<1> DEFINE Quiet(s) == /\ pc' = [pc EXCEPT ![t] = s]
                       /\ s \in Working \cup {"throw"}
                       /\ UNCHANGED lockVars
                       /\ pc[t] \in Working
<1>1. SUFFICES \E s \in Steps : Quiet(s)
  <2>1. PICK s \in Steps : Quiet(s)
    BY <1>1
  <2>2. Phase(s) = Phase(pc[t])
    BY <2>1 DEF Phase, Working
  <2> QED
    BY <2>1, <2>2, QuietStep DEF Working
<1>2. CASE begin(t)
  BY <1>2 DEF begin, GoTo, Working, Steps
<1>3. CASE Statement(t)
  BY <1>3 DEF Statement, SetTransaction, GoTo, Working, Steps
<1>4. CASE InsertStatement(t)
  BY <1>4 DEF InsertStatement, SetTransaction, GoTo, Working, Steps
<1>5. CASE \E r \in Rids : scan_record(t, r)
  BY <1>5 DEF scan_record, GoTo, Working, Steps
<1>6. CASE visit(t)
  BY <1>6 DEF visit, RowDone, GoTo, Working, Steps
<1>7. CASE get_record(t)
  BY <1>7 DEF get_record, RowDone, Fail, GoTo, Working, Steps
<1>8. CASE delete_entry(t)
  BY <1>8 DEF delete_entry, GoTo, Working, Steps
<1>9. CASE check_head(t)
  BY <1>9 DEF check_head, Throw, GoTo, Working, Steps
<1>10. CASE update_version(t)
  BY <1>10 DEF update_version, Throw, GoTo, Working, Steps
<1>11. CASE delete_version(t)
  BY <1>11 DEF delete_version, Throw, RowDone, GoTo, Working, Steps
<1>12. CASE update_record(t)
  BY <1>12 DEF update_record, Fail, GoTo, Working, Steps
<1>13. CASE update_record_map(t)
  BY <1>13 DEF update_record_map, RowDone, GoTo, Working, Steps
<1>14. CASE is_unique(t)
  BY <1>14 DEF is_unique, Fail, GoTo, Working, Steps
<1>15. CASE insert_record(t)
  BY <1>15 DEF insert_record, GoTo, Working, Steps
<1>16. CASE insert_record_map(t)
  BY <1>16 DEF insert_record_map, GoTo, Working, Steps
<1>17. CASE insert_entry(t)
  BY <1>17 DEF insert_entry, GoTo, Working, Steps
<1> QED
  BY <1>2, <1>3, <1>4, <1>5, <1>6, <1>7, <1>8, <1>9, <1>10, <1>11, <1>12, <1>13,
     <1>14, <1>15, <1>16, <1>17 DEF Client, Executor

(* The steps of commit and abort that do not touch the lock table: the     *)
(* versions, the undo loop and the two loops over the visibility map       *)
Cleaning(t) ==
    \/ commit_mvcc_versions(t) \/ erase_entry(t)
    \/ rollback_single_operation(t) \/ undone(t) \/ erased(t)

(* They leave the lock table alone, too. *)
LEMMA CleaningIsQuiet ==
    ASSUME NEW t \in Txns, ClientInv, Cleaning(t)
    PROVE  ClientInv' /\ UNCHANGED LM!vars
<1>1. CASE commit_mvcc_versions(t)
  <2>1. PICK s \in {"erase", "unlock"} : /\ pc' = [pc EXCEPT ![t] = s]
                                         /\ s = "erase" => to_release[t] = {}
    BY <1>1 DEF commit_mvcc_versions, GoTo
  <2>2. UNCHANGED lockVars /\ pc[t] = "versions"
    BY <1>1 DEF commit_mvcc_versions
  <2> QED
    BY <2>1, <2>2, QuietStep DEF Phase, Working, Steps
<1>2. CASE erase_entry(t) \/ rollback_single_operation(t)
  <2>1. UNCHANGED <<lockVars, pc>>
    BY <1>2 DEF erase_entry, rollback_single_operation
  <2> QED
    BY <2>1 DEF ClientInv, LM!vars, lockVars, ending
<1>3. CASE undone(t)
  <2>1. UNCHANGED lockVars /\ pc[t] = "undo" /\ pc' = [pc EXCEPT ![t] = "abort_erase"]
    BY <1>3 DEF undone, GoTo
  <2> QED
    BY <2>1, QuietStep DEF Phase, Working, Steps
<1>4. CASE erased(t)
  <2>1. UNCHANGED lockVars /\ pc[t] = "abort_erase" /\ pc' = [pc EXCEPT ![t] = "abort_unlock"]
    BY <1>4 DEF erased, GoTo
  <2> QED
    BY <2>1, QuietStep DEF Phase, Working, Steps
<1> QED
  BY <1>1, <1>2, <1>3, <1>4 DEF Cleaning

(* The request of an update or a delete is a request of LockManager's      *)
(* caller; a refusal throws and leads to abort.                            *)
LEMMA LockStep ==
    ASSUME NEW t \in Txns, NEW r \in Rids, ClientInv, lock_record(t, r)
    PROVE  ClientInv' /\ LM!LockRecord(t, r)
<1>1. /\ pc[t] = "row"
      /\ state[t] = "GROWING"
      /\ LM!lock_exclusive_on_record(t, r)
      /\ UNCHANGED to_release
  BY DEF lock_record, ClientInv, Working
<1>2. PICK s \in {"throw", "visit"} : /\ pc' = [pc EXCEPT ![t] = s]
                                      /\ s = "visit" => state'[t] # "ABORTED"
  BY DEF lock_record, GoTo
<1>3. \/ UNCHANGED LM!lockVars
      \/ LM!Grant(t, r, "X")
      \/ LM!Refuse(t)
  BY <1>1 DEF LM!lock_exclusive_on_record, LM!lockVars
<1>4. ending' = ending
  <2>1. Phase(s) = "no" /\ Phase(pc[t]) = "no"
    BY <1>1 DEF Phase
  <2> QED
    BY <1>2, <2>1 DEF ending, ClientInv
<1>5. LM!LockRecord(t, r)
  <2>1. ending[t] = "no"
    BY <1>1 DEF ending, Phase
  <2> QED
    BY <1>1, <1>4, <2>1 DEF LM!LockRecord, LM!Running
<1>6. /\ state' \in [Txns -> LM!TxnStates]
      /\ lock_set' \in [Txns -> SUBSET Rids]
      /\ \A u \in Txns : u # t => state'[u] = state[u]
      /\ state'[t] \in {"GROWING", "ABORTED"}
  BY <1>1, <1>3 DEF LM!lockVars, LM!Grant, LM!Refuse, LM!TxnStates, ClientInv
<1>7. pc' \in [Txns -> Steps] /\ \A u \in Txns : u # t => pc'[u] = pc[u]
  BY <1>2 DEF ClientInv, Steps
<1>8. pc'[t] = s
  BY <1>2 DEF ClientInv
<1>9. \A u \in Txns : pc'[u] \in Working => state'[u] = "GROWING"
  BY <1>2, <1>6, <1>7, <1>8 DEF ClientInv, Working
<1>10. \A u \in Txns : pc'[u] = "erase" => to_release'[u] = {}
  BY <1>1, <1>7, <1>8 DEF ClientInv
<1> QED
  BY <1>1, <1>5, <1>6, <1>7, <1>9, <1>10 DEF ClientInv

(* One round of the release loop of commit or abort *)
LEMMA ReleaseStep ==
    ASSUME NEW t \in Txns, NEW r \in Rids, ClientInv, unlock(t, r)
    PROVE  ClientInv' /\ LM!Release(t, r)
<1>1. /\ pc[t] \in {"unlock", "abort_unlock"}
      /\ r \in to_release[t]
      /\ LM!unlock(t, r)
      /\ to_release' = [to_release EXCEPT ![t] = @ \ {r}]
  BY DEF unlock
<1>2. PICK s \in {"unlock", "abort_unlock", "erase"} :
         /\ pc' = [pc EXCEPT ![t] = s]
         /\ s = "erase" => to_release'[t] = {}
         /\ Phase(s) = Phase(pc[t])
  <2>1. CASE pc' = pc
    BY <1>1, <2>1 DEF ClientInv
  <2>2. CASE pc[t] = "unlock" /\ to_release'[t] = {} /\ pc' = [pc EXCEPT ![t] = "erase"]
    BY <2>2 DEF Phase
  <2> QED
    BY <2>1, <2>2 DEF unlock, GoTo
<1>3. ending' = ending
  BY <1>2 DEF ending, ClientInv
<1>4. LM!Release(t, r)
  <2>1. ending[t] \in {"commit", "abort"}
    BY <1>1 DEF ending, Phase
  <2> QED
    BY <1>1, <1>3, <2>1 DEF LM!Release
<1>5. /\ state' \in [Txns -> LM!TxnStates]
      /\ lock_set' \in [Txns -> SUBSET Rids]
      /\ \A u \in Txns : u # t => state'[u] = state[u]
  BY <1>1 DEF LM!unlock, LM!TxnStates, ClientInv
<1>6. /\ to_release' \in [Txns -> SUBSET Rids]
      /\ \A u \in Txns : u # t => to_release'[u] = to_release[u]
  BY <1>1 DEF ClientInv
<1>7. /\ pc' \in [Txns -> Steps]
      /\ \A u \in Txns : u # t => pc'[u] = pc[u]
      /\ pc'[t] = s
  BY <1>2 DEF ClientInv, Steps
<1>8. \A u \in Txns : pc'[u] \in Working => state'[u] = "GROWING"
  BY <1>2, <1>5, <1>7 DEF ClientInv, Working
<1>9. \A u \in Txns : pc'[u] = "erase" => to_release'[u] = {}
  BY <1>2, <1>6, <1>7 DEF ClientInv
<1> QED
  BY <1>4, <1>5, <1>6, <1>7, <1>8, <1>9 DEF ClientInv

(* commit and abort start as LockManager's caller starts to end a          *)
(* transaction, with a copy of the lock set.                               *)
LEMMA EndingStarts ==
    ASSUME NEW t \in Txns, ClientInv, commit(t) \/ abort(t)
    PROVE  ClientInv' /\ (LM!StartCommit(t) \/ LM!StartAbort(t))
<1>1. CASE commit(t)
  <2>1. /\ pc[t] = "idle" /\ state[t] = "GROWING"
        /\ pc' = [pc EXCEPT ![t] = "versions"]
        /\ state' = [state EXCEPT ![t] = "SHRINKING"]
        /\ to_release' = [to_release EXCEPT ![t] = lock_set[t]]
        /\ UNCHANGED <<lock_table, lock_set>>
    BY <1>1 DEF commit, GoTo, ClientInv, Working
  <2>2. ending[t] = "no" /\ ending' = [ending EXCEPT ![t] = "commit"]
    <3>1. Phase("versions") = "commit" /\ Phase("idle") = "no"
      BY DEF Phase
    <3> QED
      BY <2>1, <3>1 DEF ending, ClientInv
  <2>3. LM!StartCommit(t)
    BY <2>1, <2>2 DEF LM!StartCommit, LM!Running
  <2>4. ClientInv'
    BY <2>1 DEF ClientInv, Working, Steps, LM!TxnStates
  <2> QED
    BY <2>3, <2>4
<1>2. CASE abort(t)
  <2>1. /\ pc[t] \in {"idle", "throw"}
        /\ pc' = [pc EXCEPT ![t] = "undo"]
        /\ to_release' = [to_release EXCEPT ![t] = lock_set[t]]
        /\ UNCHANGED <<lock_table, lock_set, state>>
    BY <1>2 DEF abort, GoTo
  <2>2. ending[t] = "no" /\ ending' = [ending EXCEPT ![t] = "abort"]
    <3>1. Phase("undo") = "abort" /\ Phase("idle") = "no" /\ Phase("throw") = "no"
      BY DEF Phase
    <3> QED
      BY <2>1, <3>1 DEF ending, ClientInv
  <2>3. LM!StartAbort(t)
    BY <2>1, <2>2 DEF LM!StartAbort, LM!lockVars
  <2>4. ClientInv'
    BY <2>1 DEF ClientInv, Working, Steps
  <2> QED
    BY <2>3, <2>4
<1> QED
  BY <1>1, <1>2

(* finish_commit and finish_abort come after the last release. *)
LEMMA EndingFinishes ==
    ASSUME NEW t \in Txns, ClientInv, finish_commit(t) \/ finish_abort(t)
    PROVE  ClientInv' /\ LM!Finish(t)
<1>1. PICK s \in {"committed", "aborted"} :
         /\ pc[t] = IF s = "committed" THEN "erase" ELSE "abort_unlock"
         /\ to_release[t] = {}
         /\ pc' = [pc EXCEPT ![t] = s]
         /\ lock_set' = [lock_set EXCEPT ![t] = {}]
         /\ state' = [state EXCEPT ![t] = IF s = "committed" THEN "COMMITTED"
                                                             ELSE "ABORTED"]
         /\ UNCHANGED <<lock_table, to_release>>
  <2>1. CASE finish_commit(t)
    BY <2>1 DEF finish_commit, GoTo, ClientInv
  <2>2. CASE finish_abort(t)
    BY <2>2 DEF finish_abort, GoTo
  <2> QED
    BY <2>1, <2>2
<1>2. /\ ending[t] = IF s = "committed" THEN "commit" ELSE "abort"
      /\ ending' = [ending EXCEPT ![t] = "done"]
  <2>1. /\ Phase("committed") = "done" /\ Phase("aborted") = "done"
        /\ Phase("erase") = "commit" /\ Phase("abort_unlock") = "abort"
    BY DEF Phase
  <2> QED
    BY <1>1, <2>1 DEF ending, ClientInv
<1>3. LM!Finish(t)
  BY <1>1, <1>2 DEF LM!Finish
<1>4. ClientInv'
  BY <1>1 DEF ClientInv, Working, Steps, LM!TxnStates
<1> QED
  BY <1>3, <1>4

(* The next-state relation, sorted by what the lock manager sees of it *)
LEMMA StepKinds ==
    ASSUME Next
    PROVE  \E t \in Txns :
              \/ Client(t) \/ Executor(t)
              \/ Cleaning(t)
              \/ \E r \in Rids : lock_record(t, r)
              \/ \E r \in Rids : unlock(t, r)
              \/ commit(t) \/ abort(t)
              \/ finish_commit(t) \/ finish_abort(t)
  BY Zenon DEF Next, Server, Executor, Cleaning

(* Every step keeps ClientInv and is a step of LockManager or invisible    *)
(* to it.                                                                  *)
LEMMA StepSimulation ==
    ASSUME ClientInv, [Next]_vars
    PROVE  ClientInv' /\ [LM!Next]_(LM!vars)
<1>1. CASE UNCHANGED vars
  BY <1>1 DEF vars, lockVars, ClientInv, LM!vars, ending
<1>2. CASE Next
  <2>1. PICK t \in Txns :
              \/ Client(t) \/ Executor(t)
              \/ Cleaning(t)
              \/ \E r \in Rids : lock_record(t, r)
              \/ \E r \in Rids : unlock(t, r)
              \/ commit(t) \/ abort(t)
              \/ finish_commit(t) \/ finish_abort(t)
    BY <1>2, StepKinds
  <2>2. CASE Client(t) \/ Executor(t)
    BY <2>2, ExecutorIsQuiet
  <2>3. CASE Cleaning(t)
    BY <2>3, CleaningIsQuiet
  <2>4. CASE \E r \in Rids : lock_record(t, r)
    <3>1. PICK r \in Rids : lock_record(t, r)
      BY <2>4
    <3> QED
      BY <3>1, LockStep DEF LM!Next
  <2>5. CASE \E r \in Rids : unlock(t, r)
    <3>1. PICK r \in Rids : unlock(t, r)
      BY <2>5
    <3>2. ClientInv' /\ LM!Release(t, r) /\ r \in LM!DataIds
      BY <3>1, ReleaseStep DEF LM!DataIds
    <3> QED
      BY <3>2 DEF LM!Next
  <2>6. CASE commit(t) \/ abort(t)
    <3>1. ClientInv' /\ (LM!StartCommit(t) \/ LM!StartAbort(t))
      BY <2>6, EndingStarts
    <3> QED
      BY <3>1 DEF LM!Next
  <2>7. CASE finish_commit(t) \/ finish_abort(t)
    BY <2>7, EndingFinishes DEF LM!Next
  <2> QED
    BY <2>1, <2>2, <2>3, <2>4, <2>5, <2>6, <2>7
<1> QED
  BY <1>1, <1>2

(* The initial state is LockManager's. *)
LEMMA StartSimulation ==
    ASSUME Init
    PROVE  ClientInv /\ LM!Init
<1>1. pc = [t \in Txns |-> "none"] /\ LM!Init
  BY DEF Init
<1> QED
  BY <1>1 DEF ClientInv, LM!Init, LM!TxnStates, Steps, Working

(* The executors, commit and abort use the lock table as LockManager's     *)
(* caller does: they request only while they run, they copy the lock set   *)
(* when they start to end, and they finish only when the release loop is   *)
(* through.  (LockClient is the property of the run sessions.)             *)
THEOREM ServerImplementsLockClient == Spec => LockClient
<1>1. Init => ClientInv /\ LM!Init
  BY StartSimulation
<1>2. ClientInv /\ [Next]_vars => ClientInv' /\ [LM!Next]_(LM!vars)
  BY StepSimulation
<1> QED
  BY <1>1, <1>2, PTL DEF Spec, LockClient, LM!Spec

-----------------------------------------------------------------------------
(* What is proved of LockManager, brought over.  Its assumption that record *)
(* and table ids differ holds because the executors lock no tables.        *)
LMP == INSTANCE LockManagerProofs WITH RecordIds <- Rids, TableIds <- {}, MaxQueue <- 0

(* LM and LMP are two names of the same instance. *)
LEMMA SameSteps == [LM!Next]_(LM!vars) <=> [LMP!Next]_(LMP!vars)
<1>1. LM!Next <=> LMP!Next
  BY Zenon
     DEF LM!DataIds, LMP!DataIds, LM!LockModes, LMP!LockModes,
         LM!Positions, LMP!Positions, LM!Holds, LMP!Holds, LM!HoldsMode,
         LMP!HoldsMode, LM!OthersHold, LMP!OthersHold, LM!FirstOf,
         LMP!FirstOf, LM!Without, LMP!Without, LM!Grant, LMP!Grant,
         LM!Refuse, LMP!Refuse, LM!Shrinking, LMP!Shrinking,
         LM!TableConflicts, LMP!TableConflicts,
         LM!lock_shared_on_record, LMP!lock_shared_on_record,
         LM!lock_exclusive_on_record, LMP!lock_exclusive_on_record,
         LM!LockTable, LMP!LockTable, LM!lock_shared_on_table,
         LMP!lock_shared_on_table, LM!lock_exclusive_on_table,
         LMP!lock_exclusive_on_table, LM!lock_IS_on_table,
         LMP!lock_IS_on_table, LM!lock_IX_on_table,
         LMP!lock_IX_on_table, LM!unlock, LMP!unlock, LM!Running,
         LMP!Running, LM!LockRecord, LMP!LockRecord, LM!LockTab,
         LMP!LockTab, LM!UnlockEarly, LMP!UnlockEarly, LM!StartCommit,
         LMP!StartCommit, LM!StartAbort, LMP!StartAbort, LM!Release,
         LMP!Release, LM!Finish, LMP!Finish, LM!Next, LMP!Next,
         LM!lockVars, LMP!lockVars
<1>2. LM!vars = LMP!vars
  BY DEF LM!vars, LMP!vars
<1> QED
  BY <1>1, <1>2 DEF LM!vars, LMP!vars

(* So a behaviour of the one is a behaviour of the other. *)
LEMMA SameSpec == LM!Spec => LMP!Spec
<1>1. LM!Init => LMP!Init
  BY DEF LM!Init, LMP!Init, LM!DataIds, LMP!DataIds
<1>2. [LM!Next]_(LM!vars) => [LMP!Next]_(LMP!vars)
  BY SameSteps
<1> QED
  BY <1>1, <1>2, PTL DEF LM!Spec, LMP!Spec

(* Two threads of the server never hold incompatible locks on a record:    *)
(* with X locks alone, never more than one holds it.                       *)
THEOREM ServerLocksExclude == Spec => []LM!GrantsCompatible
<1>1. Spec => LM!Spec
  BY ServerImplementsLockClient DEF LockClient
<1>2. LMP!Spec => []LMP!GrantsCompatible
  BY LMP!LocksExclude
<1>3. LMP!GrantsCompatible => LM!GrantsCompatible
  BY DEF LM!GrantsCompatible, LMP!GrantsCompatible, LM!DataIds, LMP!DataIds,
         LM!Compatible, LMP!Compatible
<1>4. []LMP!GrantsCompatible => []LM!GrantsCompatible
  BY <1>3, PTL
<1> QED
  BY <1>1, <1>2, <1>4, SameSpec, PTL

(* A transaction whose commit or abort has returned holds no record lock,  *)
(* however the loops of commit and abort interleave with other threads.    *)
THEOREM ServerReturnsLocks == Spec => []LM!EndedHoldsNoRecordLock
<1>1. Spec => LM!Spec
  BY ServerImplementsLockClient DEF LockClient
<1>2. LMP!Spec => []LMP!EndedHoldsNoRecordLock
  BY LMP!RecordLocksGivenBack
<1>3. LMP!EndedHoldsNoRecordLock => LM!EndedHoldsNoRecordLock
  BY DEF LM!EndedHoldsNoRecordLock, LMP!EndedHoldsNoRecordLock,
         LM!Holds, LMP!Holds, LM!Positions, LMP!Positions
<1>4. []LMP!EndedHoldsNoRecordLock => []LM!EndedHoldsNoRecordLock
  BY <1>3, PTL
<1> QED
  BY <1>1, <1>2, <1>4, SameSpec, PTL

-----------------------------------------------------------------------------
(***************************************************************************)
(* What the operations of VersionChain do to a chain of any length: which  *)
(* versions a rollback keeps, what a commit changes of a version, and that *)
(* the bounded walk down the chain ends on a version that stops it.        *)
(***************************************************************************)

(* The versions that transactions Ids make of records Data *)
Versions(Ids, Data) ==
    [txn_id : Ids, data : Data, is_deleted : BOOLEAN,
     create_ts : Nat \cup {VC!INVALID_TIMESTAMP}, expire_ts : Nat \cup {INT32_MAX}]

(* A set of numbers that is not empty has a least member. *)
LEMMA LeastMember ==
    ASSUME NEW P \in SUBSET Nat, P # {}
    PROVE  \E i \in P : \A j \in P : i <= j
<1> DEFINE Less == {ss \in Nat \X Nat : ss[1] < ss[2]}
<1>1. OpToRel(<, Nat) = Less
  BY DEF OpToRel
<1>2. IsWellFoundedOn(Less, Nat)
  BY <1>1, NatLessThanWellFounded
<1> HIDE DEF Less
<1>3. \E i \in P : \A j \in P : ~(<<j, i>> \in Less)
  BY <1>2, WFMin
<1>4. \A a, b \in Nat : a < b => <<a, b>> \in Less
  BY DEF Less
<1>5. PICK i \in P : \A j \in P : ~(<<j, i>> \in Less)
  BY <1>3
<1>6. \A j \in P : ~(j < i)
  BY <1>4, <1>5
<1> QED
  BY <1>6

(* A walk that reaches one of the versions that stop it ends on such a     *)
(* version, within the bound of the loop.                                  *)
LEMMA WalkStops ==
    ASSUME NEW stops \in SUBSET Nat, VC!Walk(stops) # 0
    PROVE  VC!Walk(stops) \in stops
<1> DEFINE reached == {i \in stops : i <= MaxIterations}
<1>1. reached # {} /\ reached \in SUBSET Nat
  BY DEF VC!Walk
<1>2. \E i \in reached : \A j \in reached : i <= j
  BY <1>1, LeastMember
<1>3. VC!Walk(stops) = CHOOSE i \in reached : \A j \in reached : i <= j
  BY <1>1 DEF VC!Walk
<1>4. VC!Walk(stops) \in reached
  BY <1>2, <1>3
<1> QED
  BY <1>4

-----------------------------------------------------------------------------
(* The order in which a rollback keeps versions *)

InOrder(f, S) ==
    /\ f \in [1 .. Cardinality(S) -> S]
    /\ \A i, j \in DOMAIN f : i < j => f[i] < f[j]
    /\ \A p \in S : \E i \in DOMAIN f : f[i] = p

(* The positions of a chain can be listed in ascending order, each once. *)
LEMMA AscendingExists ==
    ASSUME NEW n \in Nat, NEW S \in SUBSET (1 .. n)
    PROVE  Cardinality(S) \in Nat /\ \E f : InOrder(f, S)
<1> DEFINE Sorted(m) == \A T \in SUBSET (1 .. m) : Cardinality(T) \in Nat /\ \E f : InOrder(f, T)
           Bad == {m \in Nat : ~Sorted(m)}
<1>1. Sorted(0)
  <2> SUFFICES ASSUME NEW T \in SUBSET (1 .. 0)
               PROVE  Cardinality(T) \in Nat /\ \E f : InOrder(f, T)
    OBVIOUS
  <2>1. T = {}
    OBVIOUS
  <2>2. Cardinality(T) = 0
    BY <2>1, FS_EmptySet
  <2>3. InOrder([i \in {} |-> i], T)
    BY <2>1, <2>2 DEF InOrder
  <2> QED
    BY <2>2, <2>3
<1>2. ASSUME NEW m \in Nat, Sorted(m)
      PROVE  Sorted(m + 1)
  <2> SUFFICES ASSUME NEW T \in SUBSET (1 .. m + 1)
               PROVE  Cardinality(T) \in Nat /\ \E f : InOrder(f, T)
    OBVIOUS
  <2>1. CASE m + 1 \notin T
    <3>1. T \in SUBSET (1 .. m)
      BY <2>1
    <3> QED
      BY <1>2, <3>1
  <2>2. CASE m + 1 \in T
    <3> DEFINE U == T \ {m + 1}
               k == Cardinality(U)
    <3>1. U \in SUBSET (1 .. m)
      OBVIOUS
    <3>2. k \in Nat /\ \E f : InOrder(f, U)
      BY <1>2, <3>1
    <3>3. PICK f : InOrder(f, U)
      BY <3>2
    <3>4. IsFiniteSet(U)
      <4>1. IsFiniteSet(1 .. m)
        BY FS_Interval
      <4> QED
        BY <3>1, <4>1, FS_Subset
    <3>5. Cardinality(T) = k + 1
      <4>1. T = U \cup {m + 1} /\ m + 1 \notin U
        BY <2>2
      <4> HIDE DEF U
      <4> QED
        BY <3>4, <4>1, FS_AddElement
    <3> DEFINE g == [i \in 1 .. (k + 1) |-> IF i = k + 1 THEN m + 1 ELSE f[i]]
    <3>6. /\ f \in [1 .. k -> U]
          /\ \A i, j \in 1 .. k : i < j => f[i] < f[j]
          /\ \A p \in U : \E i \in 1 .. k : f[i] = p
      BY <3>3 DEF InOrder
    <3>7. ASSUME NEW i \in 1 .. k
          PROVE  g[i] = f[i] /\ f[i] \in T /\ f[i] < m + 1
      <4>1. f[i] \in U
        BY <3>6
      <4>2. f[i] \in T /\ f[i] \in 1 .. m
        BY <3>1, <4>1
      <4> HIDE DEF U, k
      <4>3. g[i] = f[i]
        BY <3>2
      <4> QED
        BY <4>2, <4>3
    <3>8. g[k + 1] = m + 1 /\ DOMAIN g = 1 .. (k + 1)
      BY <3>2
    <3>9. \A i \in 1 .. (k + 1) : i \in 1 .. k \/ i = k + 1
      BY <3>2
    <3>10. 1 .. k \subseteq 1 .. (k + 1) /\ k + 1 \in 1 .. (k + 1)
      BY <3>2
    <3> HIDE DEF g, k
    <3>11. g \in [1 .. (k + 1) -> T]
      <4>1. \A i \in 1 .. (k + 1) : g[i] \in T
        BY <2>2, <3>7, <3>8, <3>9
      <4> QED
        BY <4>1 DEF g
    <3>12. ASSUME NEW i \in 1 .. (k + 1), NEW j \in 1 .. (k + 1), i < j
           PROVE  g[i] < g[j]
      <4>1. i \in 1 .. k
        BY <3>2, <3>12
      <4>2. CASE j \in 1 .. k
        BY <3>6, <3>7, <3>12, <4>1, <4>2
      <4>3. CASE j = k + 1
        BY <3>7, <3>8, <4>1, <4>3
      <4> QED
        BY <3>9, <4>2, <4>3
    <3>13. ASSUME NEW p \in T
           PROVE  \E i \in 1 .. (k + 1) : g[i] = p
      <4>1. CASE p = m + 1
        BY <3>8, <3>10, <4>1
      <4>2. CASE p \in U
        <5>1. PICK i \in 1 .. k : f[i] = p
          BY <3>6, <4>2
        <5> QED
          BY <3>7, <3>10, <5>1
      <4> QED
        BY <4>1, <4>2
    <3>14. InOrder(g, T)
      BY <3>5, <3>8, <3>11, <3>12, <3>13 DEF InOrder
    <3> QED
      BY <3>2, <3>5, <3>14
  <2> QED
    BY <2>1, <2>2
<1>3. Bad = {}
  <2> SUFFICES ASSUME Bad # {} PROVE FALSE
    OBVIOUS
  <2>1. PICK m \in Bad : \A j \in Bad : m <= j
    BY LeastMember
  <2>2. m # 0 /\ m \in Nat
    BY <1>1
  <2>3. m - 1 \in Nat /\ m - 1 \notin Bad /\ (m - 1) + 1 = m
    BY <2>1, <2>2
  <2>4. Sorted(m - 1)
    BY <2>3
  <2> HIDE DEF Sorted
  <2>5. Sorted((m - 1) + 1)
    BY <1>2, <2>3, <2>4
  <2> QED
    BY <2>1, <2>3, <2>5
<1>4. Sorted(n)
  BY <1>3
<1> QED
  BY <1>4

(* Ascending lists them. *)
LEMMA AscendingLists ==
    ASSUME NEW n \in Nat, NEW S \in SUBSET (1 .. n)
    PROVE  Cardinality(S) \in Nat /\ InOrder(VC!Ascending(S), S)
<1>1. Cardinality(S) \in Nat /\ \E f : InOrder(f, S)
  BY AscendingExists
<1>2. PICK f : InOrder(f, S)
  BY <1>1
<1>3. VC!Ascending(S) = CHOOSE h \in [1 .. Cardinality(S) -> S] :
                        /\ \A i, j \in DOMAIN h : i < j => h[i] < h[j]
                        /\ \A p \in S : \E i \in DOMAIN h : h[i] = p
  BY Zenon DEF VC!Ascending, VC!Cardinality, Cardinality
<1> QED
  BY <1>1, <1>2, <1>3 DEF InOrder

(* A rollback of t keeps exactly the versions that are not uncommitted     *)
(* versions of t, in their order.                                          *)
LEMMA RollbackKeepsOrder ==
    ASSUME NEW V, NEW chain \in Seq(V), NEW t
    PROVE  LET rest == VC!rollback_chain_versions(chain, t)
           IN  /\ rest \in Seq(V)
               /\ \E at \in [DOMAIN rest -> DOMAIN chain] :
                     /\ \A i \in DOMAIN rest :
                           rest[i] = chain[at[i]] /\ ~VC!UncommittedOf(rest[i], t)
                     /\ \A i, j \in DOMAIN rest : i < j => at[i] < at[j]
                     /\ \A k \in DOMAIN chain : ~VC!UncommittedOf(chain[k], t) =>
                           \E i \in DOMAIN rest : at[i] = k
<1> DEFINE K    == {i \in DOMAIN chain : ~VC!UncommittedOf(chain[i], t)}
           at   == VC!Ascending(K)
           rest == VC!rollback_chain_versions(chain, t)
<1>1. Len(chain) \in Nat /\ DOMAIN chain = 1 .. Len(chain) /\ K \in SUBSET (1 .. Len(chain))
  OBVIOUS
<1>2. Cardinality(K) \in Nat /\ InOrder(at, K)
  BY <1>1, AscendingLists
<1>3. /\ at \in [1 .. Cardinality(K) -> K]
      /\ \A i, j \in 1 .. Cardinality(K) : i < j => at[i] < at[j]
      /\ \A p \in K : \E i \in 1 .. Cardinality(K) : at[i] = p
  BY <1>2 DEF InOrder
<1>4. rest = [i \in DOMAIN at |-> chain[at[i]]]
  BY DEF VC!rollback_chain_versions
<1>5. K \subseteq DOMAIN chain /\ \A k \in DOMAIN chain : k \in K <=> ~VC!UncommittedOf(chain[k], t)
  OBVIOUS
<1> HIDE DEF K, at, rest
<1>6. /\ DOMAIN rest = 1 .. Cardinality(K)
      /\ \A i \in 1 .. Cardinality(K) : rest[i] = chain[at[i]] /\ at[i] \in K
  BY <1>3, <1>4
<1>7. rest \in Seq(V)
  <2>1. \A i \in 1 .. Cardinality(K) : rest[i] \in V
    BY <1>1, <1>5, <1>6
  <2>2. rest \in [1 .. Cardinality(K) -> V]
    BY <1>3, <1>4, <2>1
  <2> QED
    BY <1>2, <2>2
<1>8. at \in [DOMAIN rest -> DOMAIN chain]
  BY <1>3, <1>5, <1>6
<1>9. \A i \in DOMAIN rest : rest[i] = chain[at[i]] /\ ~VC!UncommittedOf(rest[i], t)
  BY <1>5, <1>6
<1>10. \A k \in DOMAIN chain : ~VC!UncommittedOf(chain[k], t) => \E i \in DOMAIN rest : at[i] = k
  BY <1>3, <1>5, <1>6
<1>11. \A i, j \in DOMAIN rest : i < j => at[i] < at[j]
  BY <1>3, <1>6
<1>12. \E f \in [DOMAIN rest -> DOMAIN chain] :
          /\ \A i \in DOMAIN rest : rest[i] = chain[f[i]] /\ ~VC!UncommittedOf(rest[i], t)
          /\ \A i, j \in DOMAIN rest : i < j => f[i] < f[j]
          /\ \A k \in DOMAIN chain : ~VC!UncommittedOf(chain[k], t) =>
                \E i \in DOMAIN rest : f[i] = k
  BY <1>8, <1>9, <1>10, <1>11
<1> QED
  BY <1>7, <1>12 DEF rest

-----------------------------------------------------------------------------
(* The other operations *)

(* A new version becomes the head; the others move down by one. *)
LEMMA AddedAtHead ==
    ASSUME NEW V, NEW chain \in Seq(V), NEW v \in V
    PROVE  /\ VC!add_version(chain, v) \in Seq(V)
           /\ DOMAIN VC!add_version(chain, v) = 1 .. (Len(chain) + 1)
           /\ VC!add_version(chain, v)[1] = v
           /\ \A i \in DOMAIN VC!add_version(chain, v) :
                 i # 1 => /\ i - 1 \in DOMAIN chain
                          /\ VC!add_version(chain, v)[i] = chain[i - 1]
<1>1. <<v>> \in Seq(V) /\ Len(<<v>>) = 1 /\ <<v>>[1] = v
  OBVIOUS
<1>2. Len(chain) \in Nat /\ DOMAIN chain = 1 .. Len(chain)
  OBVIOUS
<1>3. /\ (<<v>> \o chain) \in Seq(V)
      /\ Len(<<v>> \o chain) = 1 + Len(chain)
      /\ (<<v>> \o chain)[1] = v
      /\ \A i \in 1 .. (Len(chain) + 1) : i # 1 => (<<v>> \o chain)[i] = chain[i - 1]
  BY <1>1, <1>2
<1>4. DOMAIN (<<v>> \o chain) = 1 .. (Len(chain) + 1)
  BY <1>2, <1>3
<1> QED
  BY <1>2, <1>3, <1>4 DEF VC!add_version

(* A commit changes nothing of a version but its timestamps, and gives     *)
(* exactly the uncommitted versions of the transaction a create_ts.        *)
LEMMA CommitStampsOwn ==
    ASSUME NEW Ids, NEW Data, NEW chain \in Seq(Versions(Ids, Data)),
           NEW t, NEW ts \in Nat
    PROVE  LET done == VC!commit_chain_versions(chain, t, ts)
           IN  /\ done \in Seq(Versions(Ids, Data))
               /\ DOMAIN done = DOMAIN chain
               /\ \A i \in DOMAIN chain :
                     /\ done[i].txn_id = chain[i].txn_id
                     /\ done[i].data = chain[i].data
                     /\ done[i].is_deleted = chain[i].is_deleted
                     /\ done[i].create_ts = IF VC!UncommittedOf(chain[i], t) THEN ts
                                            ELSE chain[i].create_ts
<1> DEFINE done == VC!commit_chain_versions(chain, t, ts)
<1>1. Len(chain) \in Nat /\ DOMAIN chain = 1 .. Len(chain)
  OBVIOUS
<1>2. DOMAIN done = DOMAIN chain
  BY DEF VC!commit_chain_versions
<1>3. ASSUME NEW i \in DOMAIN chain
      PROVE  /\ done[i] \in Versions(Ids, Data)
             /\ done[i].txn_id = chain[i].txn_id
             /\ done[i].data = chain[i].data
             /\ done[i].is_deleted = chain[i].is_deleted
             /\ done[i].create_ts = IF VC!UncommittedOf(chain[i], t) THEN ts
                                    ELSE chain[i].create_ts
  <2> DEFINE c == IF VC!UncommittedOf(chain[i], t) THEN ts ELSE chain[i].create_ts
             e == IF /\ i > 1
                     /\ VC!UncommittedOf(chain[i - 1], t)
                     /\ ~VC!Uncommitted(chain[i])
                     /\ chain[i].expire_ts = INT32_MAX
                    THEN ts ELSE chain[i].expire_ts
             v == chain[i]
  <2>1. done[i] = [v EXCEPT !.create_ts = c, !.expire_ts = e]
    BY DEF VC!commit_chain_versions
  <2>2. v \in Versions(Ids, Data)
    BY <1>1
  <2>3. c \in Nat \cup {VC!INVALID_TIMESTAMP} /\ e \in Nat \cup {INT32_MAX}
    BY <2>2 DEF Versions
  <2>4. c = IF VC!UncommittedOf(v, t) THEN ts ELSE v.create_ts
    OBVIOUS
  <2> HIDE DEF c, e, v, done
  <2>5. /\ done[i] \in Versions(Ids, Data)
        /\ done[i].txn_id = v.txn_id
        /\ done[i].data = v.data
        /\ done[i].is_deleted = v.is_deleted
        /\ done[i].create_ts = c
    BY <2>1, <2>2, <2>3 DEF Versions
  <2> QED
    BY <2>4, <2>5 DEF v
<1>4. done \in Seq(Versions(Ids, Data))
  <2>1. \A i \in 1 .. Len(chain) : done[i] \in Versions(Ids, Data)
    BY <1>1, <1>3
  <2>2. done \in [1 .. Len(chain) -> Versions(Ids, Data)]
    BY <1>1, <2>1 DEF VC!commit_chain_versions
  <2> QED
    BY <1>1, <2>2
<1> QED
  BY <1>2, <1>3, <1>4

(* An update leaves every version below the head as it is; its own version *)
(* is at the head then, uncommitted and live.                              *)
LEMMA UpdateAtHead ==
    ASSUME NEW Ids, NEW Data, NEW chain \in Seq(Versions(Ids, Data)),
           NEW t \in Ids, NEW stored \in Data,
           VC!OwnHead(chain, t) => ~Head(chain).is_deleted
    PROVE  LET new == VC!update_version(chain, t, stored)
           IN  /\ new \in Seq(Versions(Ids, Data))
               /\ 1 \in DOMAIN new
               /\ VC!UncommittedOf(new[1], t)
               /\ new[1].data = stored /\ ~new[1].is_deleted
               /\ \A i \in DOMAIN new : i # 1 =>
                     \E k \in DOMAIN chain :
                        /\ new[i] = chain[k]
                        /\ k = IF VC!OwnHead(chain, t) THEN i ELSE i - 1
<1> DEFINE new == VC!update_version(chain, t, stored)
<1>1. Len(chain) \in Nat /\ DOMAIN chain = 1 .. Len(chain)
  OBVIOUS
<1>2. CASE VC!OwnHead(chain, t)
  <2> DEFINE w == [chain[1] EXCEPT !.data = stored]
  <2>1. chain # << >> /\ 1 \in DOMAIN chain /\ chain[1] = Head(chain)
    BY <1>1, <1>2 DEF VC!OwnHead
  <2>2. chain[1] \in Versions(Ids, Data) /\ VC!UncommittedOf(chain[1], t) /\ ~chain[1].is_deleted
    BY <1>1, <1>2, <2>1 DEF VC!OwnHead
  <2>3. new = [chain EXCEPT ![1] = w]
    BY <1>2 DEF VC!update_version
  <2>4. w \in Versions(Ids, Data) /\ VC!UncommittedOf(w, t) /\ w.data = stored /\ ~w.is_deleted
    BY <2>2 DEF Versions, VC!UncommittedOf, VC!Uncommitted
  <2> HIDE DEF w, new
  <2>5. /\ new \in Seq(Versions(Ids, Data)) /\ DOMAIN new = DOMAIN chain
        /\ new[1] = w /\ \A i \in DOMAIN new : i # 1 => new[i] = chain[i]
    BY <1>1, <2>1, <2>3, <2>4
  <2> QED
    BY <1>2, <2>1, <2>4, <2>5 DEF new
<1>3. CASE ~VC!OwnHead(chain, t)
  <2> DEFINE v == VC!TupleVersion(t, stored, FALSE)
  <2>1. v \in Versions(Ids, Data) /\ VC!UncommittedOf(v, t) /\ v.data = stored /\ ~v.is_deleted
    BY DEF VC!TupleVersion, Versions, VC!UncommittedOf, VC!Uncommitted
  <2>2. new = VC!add_version(chain, v)
    BY <1>3 DEF VC!update_version
  <2> HIDE DEF v, new
  <2>3. /\ new \in Seq(Versions(Ids, Data))
        /\ DOMAIN new = 1 .. (Len(chain) + 1)
        /\ new[1] = v
        /\ \A i \in DOMAIN new : i # 1 => i - 1 \in DOMAIN chain /\ new[i] = chain[i - 1]
    <3>1. v \in Versions(Ids, Data)
      BY <2>1
    <3> DEFINE V == Versions(Ids, Data)
    <3>2. v \in V /\ chain \in Seq(V)
      BY <3>1
    <3> HIDE DEF V
    <3>3. /\ VC!add_version(chain, v) \in Seq(V)
          /\ DOMAIN VC!add_version(chain, v) = 1 .. (Len(chain) + 1)
          /\ VC!add_version(chain, v)[1] = v
          /\ \A i \in DOMAIN VC!add_version(chain, v) :
                i # 1 => i - 1 \in DOMAIN chain /\ VC!add_version(chain, v)[i] = chain[i - 1]
      BY <3>2, AddedAtHead
    <3> QED
      BY <2>2, <3>3 DEF V
  <2>4. 1 \in DOMAIN new
    BY <1>1, <2>3
  <2> QED
    BY <1>3, <2>1, <2>3, <2>4 DEF new
<1> QED
  BY <1>2, <1>3

(* A deletion copies the data of a version of the chain that is committed  *)
(* or the transaction's own, and puts its version at the head.             *)
LEMMA DeleteAtHead ==
    ASSUME NEW Ids, NEW Data, NEW chain \in Seq(Versions(Ids, Data)),
           NEW t \in Ids, NEW ts, VC!DeleteSucceeds(chain, ts, t)
    PROVE  LET new == VC!delete_version(chain, ts, t)
           IN  /\ new \in Seq(Versions(Ids, Data))
               /\ 1 \in DOMAIN new
               /\ VC!UncommittedOf(new[1], t) /\ new[1].is_deleted
               /\ \E k \in DOMAIN chain : new[1].data = chain[k].data
               /\ \A i \in DOMAIN new : i # 1 =>
                     i - 1 \in DOMAIN chain /\ new[i] = chain[i - 1]
<1> DEFINE new == VC!delete_version(chain, ts, t)
           k   == VC!find_version_for_delete(chain, ts, t)
           v   == VC!TupleVersion(t, chain[k].data, TRUE)
<1>1. Len(chain) \in Nat /\ DOMAIN chain = 1 .. Len(chain)
  OBVIOUS
<1>2. k \in DOMAIN chain
  <2> DEFINE stops == {i \in DOMAIN chain : VC!is_version_visible(chain[i], t, ts)}
  <2>1. stops \in SUBSET Nat /\ stops \subseteq DOMAIN chain
    BY <1>1
  <2>2. k = VC!Walk(stops) /\ k # 0
    BY DEF VC!find_version_for_delete, VC!DeleteSucceeds
  <2> HIDE DEF k, stops
  <2> QED
    BY <2>1, <2>2, WalkStops
<1>3. chain[k] \in Versions(Ids, Data)
  BY <1>1, <1>2
<1>4. new = VC!add_version(chain, v)
  BY DEF VC!delete_version
<1> HIDE DEF k
<1>5. v \in Versions(Ids, Data) /\ VC!UncommittedOf(v, t) /\ v.data = chain[k].data /\ v.is_deleted
  BY <1>3 DEF VC!TupleVersion, Versions, VC!UncommittedOf, VC!Uncommitted
<1> HIDE DEF v, new
<1>6. /\ new \in Seq(Versions(Ids, Data))
      /\ DOMAIN new = 1 .. (Len(chain) + 1)
      /\ new[1] = v
      /\ \A i \in DOMAIN new : i # 1 => i - 1 \in DOMAIN chain /\ new[i] = chain[i - 1]
  <2>1. v \in Versions(Ids, Data)
    BY <1>5
  <2> DEFINE V == Versions(Ids, Data)
  <2>2. v \in V /\ chain \in Seq(V)
    BY <2>1
  <2> HIDE DEF V
  <2>3. /\ VC!add_version(chain, v) \in Seq(V)
        /\ DOMAIN VC!add_version(chain, v) = 1 .. (Len(chain) + 1)
        /\ VC!add_version(chain, v)[1] = v
        /\ \A i \in DOMAIN VC!add_version(chain, v) :
              i # 1 => i - 1 \in DOMAIN chain /\ VC!add_version(chain, v)[i] = chain[i - 1]
    BY <2>2, AddedAtHead
  <2> QED
    BY <1>4, <2>3 DEF V
<1>7. 1 \in DOMAIN new
  BY <1>1, <1>6
<1> QED
  BY <1>2, <1>5, <1>6, <1>7 DEF new

-----------------------------------------------------------------------------
(***************************************************************************)
(* What the record locks buy: proofs about the data that the executors,    *)
(* commit and abort of TransactionManager share, for any number of         *)
(* transactions, records and statements.                                   *)
(*                                                                         *)
(* The argument goes in stages, each an invariant that uses the ones       *)
(* before it: types; without inserts, slots are neither filled nor freed;  *)
(* a writer holds the lock of what it has written; so a chain has          *)
(* uncommitted versions of one transaction only, above the committed ones; *)
(* so what a writer has read is what it writes over, and an abort puts it  *)
(* back.                                                                   *)
(***************************************************************************)

(* The lock manager's invariant, which LockManagerProofs proves, holds of  *)
(* the server's lock table.                                                *)
LEMMA ServerLockInv == Spec => []LM!LockInv
<1>1. Spec => LM!Spec
  BY ServerImplementsLockClient DEF LockClient
<1>2. LMP!Spec => []LMP!LockInv
  BY LMP!LockInvHolds
<1>3. LMP!LockInv => LM!LockInv
  BY Zenon DEF LM!LockInv, LMP!LockInv, LM!TypeOK, LMP!TypeOK,
         LM!GrantsCompatible, LMP!GrantsCompatible, LM!Compatible, LMP!Compatible,
         LM!RecordModes, LMP!RecordModes, LM!OneRequestPerRecord, LMP!OneRequestPerRecord,
         LM!RecordLockInSet, LMP!RecordLockInSet, LM!LockSetBacked, LMP!LockSetBacked,
         LM!ReleaseCovers, LMP!ReleaseCovers, LM!Holds, LMP!Holds,
         LM!Positions, LMP!Positions, LM!DataIds, LMP!DataIds,
         LM!Request, LMP!Request, LM!LockModes, LMP!LockModes,
         LM!TxnStates, LMP!TxnStates, LM!Endings, LMP!Endings
<1>4. []LMP!LockInv => []LM!LockInv
  BY <1>3, PTL
<1> QED
  BY <1>1, <1>2, <1>4, SameSpec, PTL

(* A record locked in mode X is locked by one transaction. *)
LEMMA OneWriter ==
    ASSUME LM!LockInv, NEW r \in Rids, NEW t, NEW u, LockedX(t, r), LockedX(u, r)
    PROVE  t = u
<1>1. PICK i \in DOMAIN lock_table[r] : lock_table[r][i] = [txn |-> t, mode |-> "X"]
  BY DEF LockedX, LM!HoldsMode
<1>2. PICK j \in DOMAIN lock_table[r] : lock_table[r][j] = [txn |-> u, mode |-> "X"]
  BY DEF LockedX, LM!HoldsMode
<1>3. r \in LM!DataIds
  BY DEF LM!DataIds
<1>4. lock_table[r][i].txn # lock_table[r][j].txn =>
         LM!Compatible(lock_table[r][i].mode, lock_table[r][j].mode)
  BY <1>3 DEF LM!LockInv, LM!GrantsCompatible
<1> QED
  BY <1>1, <1>2, <1>4 DEF LM!Compatible

(* A request for an X lock takes no lock away, and if it is not refused    *)
(* the transaction has the lock.                                           *)
LEMMA RequestKeepsLocks ==
    ASSUME LM!LockInv, NEW t \in Txns, NEW r \in Rids, LM!lock_exclusive_on_record(t, r)
    PROVE  /\ state'[t] # "ABORTED" => LockedX(t, r)'
           /\ \A u \in Txns, s \in Rids : LockedX(u, s) => LockedX(u, s)'
<1>1. lock_table \in [Rids -> Seq(LM!Request)] /\ state \in [Txns -> LM!TxnStates]
  BY DEF LM!LockInv, LM!TypeOK, LM!DataIds
<1>2. CASE LM!HoldsMode(t, r, "X") /\ UNCHANGED LM!lockVars
  BY <1>2 DEF LM!lockVars, LockedX, LM!HoldsMode
<1>3. CASE LM!Grant(t, r, "X")
  <2> DEFINE q == lock_table[r]
             e == [txn |-> t, mode |-> "X"]
  <2>1. q \in Seq(LM!Request) /\ e \in LM!Request
    BY <1>1 DEF LM!Request, LM!LockModes
  <2>2. lock_table'[r] = Append(q, e) /\ \A s \in Rids : s # r => lock_table'[s] = lock_table[s]
    BY <1>1, <1>3 DEF LM!Grant
  <2> HIDE DEF q, e
  <2>3. /\ DOMAIN q \subseteq DOMAIN Append(q, e)
        /\ \A i \in DOMAIN q : Append(q, e)[i] = q[i]
        /\ Len(q) + 1 \in DOMAIN Append(q, e)
        /\ Append(q, e)[Len(q) + 1] = e
    BY <2>1
  <2>4. LockedX(t, r)'
    BY <2>2, <2>3 DEF LockedX, LM!HoldsMode, e
  <2>5. ASSUME NEW u \in Txns, NEW s \in Rids, LockedX(u, s)
        PROVE  LockedX(u, s)'
    <3>1. CASE s # r
      BY <2>2, <2>5, <3>1 DEF LockedX, LM!HoldsMode
    <3>2. CASE s = r
      <4>1. PICK i \in DOMAIN q : q[i] = [txn |-> u, mode |-> "X"]
        BY <2>5, <3>2 DEF LockedX, LM!HoldsMode, q
      <4>2. i \in DOMAIN Append(q, e) /\ Append(q, e)[i] = [txn |-> u, mode |-> "X"]
        BY <2>3, <4>1
      <4> QED
        BY <2>2, <3>2, <4>2 DEF LockedX, LM!HoldsMode
    <3> QED
      BY <3>1, <3>2
  <2> QED
    BY <2>4, <2>5
<1>4. CASE LM!Refuse(t)
  BY <1>1, <1>4 DEF LM!Refuse, LockedX, LM!HoldsMode
<1> QED
  BY <1>2, <1>3, <1>4 DEF LM!lock_exclusive_on_record

(* A release takes away no lock of another transaction. *)
LEMMA ReleaseKeepsLocks ==
    ASSUME LM!LockInv, NEW t \in Txns, NEW r \in Rids, LM!unlock(t, r)
    PROVE  \A u \in Txns, s \in Rids : u # t /\ LockedX(u, s) => LockedX(u, s)'
<1> SUFFICES ASSUME NEW u \in Txns, NEW s \in Rids, u # t, LockedX(u, s)
             PROVE  LockedX(u, s)'
  OBVIOUS
<1>1. lock_table \in [Rids -> Seq(LM!Request)]
  BY DEF LM!LockInv, LM!TypeOK, LM!DataIds
<1>2. CASE ~LM!Holds(t, r) \/ s # r
  <2>1. lock_table'[s] = lock_table[s]
    BY <1>1, <1>2 DEF LM!unlock
  <2> QED
    BY <2>1 DEF LockedX, LM!HoldsMode
<1>3. CASE LM!Holds(t, r) /\ s = r
  <2> DEFINE q == lock_table[r]
             i == LM!FirstOf(q, t)
  <2>1. q \in Seq(LM!Request)
    BY <1>1
  <2>2. lock_table'[r] = LM!Without(q, i)
    BY <1>1, <1>3 DEF LM!unlock
  <2>3. i \in DOMAIN q /\ q[i].txn = t
    <3>1. q \in Seq(LMP!Request) /\ LMP!Positions(q, t) # {}
      BY <1>3, <2>1 DEF LM!Request, LMP!Request, LM!LockModes, LMP!LockModes,
             LM!Holds, LM!Positions, LMP!Positions
    <3>2. LMP!FirstOf(q, t) \in LMP!Positions(q, t)
      BY <3>1, LMP!FirstOfIsAPosition
    <3>3. LMP!FirstOf(q, t) = i
      BY Zenon DEF LM!FirstOf, LMP!FirstOf, LM!Positions, LMP!Positions
    <3> QED
      BY <3>2, <3>3 DEF LMP!Positions
  <2>4. PICK k \in DOMAIN q : q[k] = [txn |-> u, mode |-> "X"]
    BY <1>3 DEF LockedX, LM!HoldsMode
  <2>5. k # i
    BY <2>3, <2>4
  <2>6. \E j \in DOMAIN LM!Without(q, i) : LM!Without(q, i)[j] = q[k]
    <3>1. q \in Seq(LMP!Request)
      BY <2>1 DEF LM!Request, LMP!Request, LM!LockModes, LMP!LockModes
    <3>2. \A j \in DOMAIN q : j # i =>
             \E m \in DOMAIN LMP!Without(q, i) : LMP!Without(q, i)[m] = q[j]
      <4> HIDE DEF q, i
      <4> QED
        BY <2>3, <3>1, LMP!WithoutProperties
    <3>3. LMP!Without(q, i) = LM!Without(q, i)
      BY Zenon DEF LM!Without, LMP!Without
    <3> QED
      BY <2>4, <2>5, <3>2, <3>3
  <2> QED
    BY <1>3, <2>2, <2>4, <2>6 DEF LockedX, LM!HoldsMode
<1> QED
  BY <1>2, <1>3

-----------------------------------------------------------------------------
(* Types.  Beyond TypeOK: what is in a write set and in a chain, that a    *)
(* statement works on a record of the table, and that the undo loop is     *)
(* within the write set.                                                   *)

WriteRecords == [type : {"INSERT", "UPDATE", "DELETE", "IX_INSERT", "IX_DELETE"},
                 rid : Rids, row : Rows]

Chain == Seq(Versions(Txns \cup {0}, Rows))

OnRecord == {"visit", "get", "index", "check", "version", "heap", "map", "slot_map", "entry"}

Statements == [kind : Kinds \cup {"none"}, key : Keys \cup {NoRid}, rids : SUBSET Rids]

(* What the threads share *)
SharedTypes ==
    /\ next_timestamp \in Nat
    /\ heap \in [Rids -> [used : BOOLEAN, row : Rows]]
    /\ latch \in Txns \cup {Free}
    /\ DOMAIN mvcc_map \subseteq Rids
    /\ index \in [Keys -> Rids \cup {NoRid}]
    /\ chains \in [Rids -> Chain]

(* What each has for itself *)
ThreadTypes ==
    /\ read_ts \in [Txns -> Nat] /\ commit_ts \in [Txns -> Nat]
    /\ write_set \in [Txns -> Seq(WriteRecords)]
    /\ pc \in [Txns -> Steps]
    /\ stmt \in [Txns -> Statements]
    /\ cur \in [Txns -> Rids \cup {NoRid}]
    /\ rec \in [Txns -> Rows]
    /\ left \in [Txns -> 0 .. MaxStatements]
    /\ pos \in [Txns -> Nat]
    /\ \A t \in Txns : pc[t] \in OnRecord => cur[t] \in Rids
    /\ \A t \in Txns : pc[t] = "undo" => pos[t] <= Len(write_set[t])

TypeInv == SharedTypes /\ ThreadTypes

(* The types hold at the start. *)
LEMMA InitTypes == Init => TypeInv
<1> SUFFICES ASSUME Init PROVE TypeInv
  OBVIOUS
<1>1. NoRow \in Rows /\ \A r \in Loaded : Row(KeyOf[r], {}) \in Rows
  BY LoadedRecords DEF NoRow, Row, Rows
<1>2. heap \in [Rids -> [used : BOOLEAN, row : Rows]]
  <2> DEFINE row(r) == IF r \in Loaded THEN Row(KeyOf[r], {}) ELSE NoRow
  <2>1. \A r \in Rids : row(r) \in Rows
    BY <1>1
  <2>2. heap = [r \in Rids |-> [used |-> r \in Loaded, row |-> row(r)]]
    BY DEF Init
  <2> HIDE DEF row
  <2> QED
    BY <2>1, <2>2
<1>3. index \in [Keys -> Rids \cup {NoRid}]
  <2>1. ASSUME NEW k \in Keys, \E r \in Loaded : KeyOf[r] = k
        PROVE  (CHOOSE r \in Loaded : KeyOf[r] = k) \in Rids
    BY <2>1, LoadedRecords
  <2> QED
    BY <2>1 DEF Init
<1>4. chains \in [Rids -> Chain]
  BY DEF Init, Chain
<1>5. SharedTypes
  BY <1>2, <1>3, <1>4 DEF Init, SharedTypes, MM!EmptyMap
<1>6. NoStmt \in Statements
  BY DEF NoStmt, Statements
<1>7. ThreadTypes
  BY <1>1, <1>6, StatementBound DEF Init, ThreadTypes, Steps, OnRecord
<1> QED
  BY <1>5, <1>7 DEF TypeInv

(* The end of a row or of a statement takes rids out of the statement. *)
LEMMA RowEnds ==
    ASSUME TypeInv, NEW t \in Txns, RowDone(t) \/ Fail(t)
    PROVE  /\ stmt' \in [Txns -> Statements]
           /\ \A u \in Txns : u # t => stmt'[u] = stmt[u]
           /\ stmt'[t].kind = stmt[t].kind
           /\ stmt'[t].rids \subseteq stmt[t].rids
           /\ \E s \in {"idle", "row"} : pc' = [pc EXCEPT ![t] = s]
<1>1. stmt \in [Txns -> Statements] /\ stmt[t] \in Statements
  BY DEF TypeInv, ThreadTypes
<1>2. \E s \in {"idle", "row"} : pc' = [pc EXCEPT ![t] = s]
  BY DEF RowDone, Fail, GoTo
<1>3. PICK rids \in SUBSET stmt[t].rids :
         stmt' = [stmt EXCEPT ![t] = [stmt[t] EXCEPT !.rids = rids]]
  <2>1. CASE RowDone(t)
    BY <1>1, <2>1 DEF RowDone
  <2>2. CASE Fail(t)
    BY <1>1, <2>2 DEF Fail
  <2> QED
    BY <2>1, <2>2
<1> DEFINE s == [stmt[t] EXCEPT !.rids = rids]
<1>4. s \in Statements /\ s.kind = stmt[t].kind /\ s.rids = rids
  BY <1>1 DEF Statements
<1> HIDE DEF s
<1>5. stmt' = [stmt EXCEPT ![t] = s]
  BY <1>3 DEF s
<1> QED
  BY <1>1, <1>2, <1>4, <1>5

(* Steps of the statement up to the first write *)
LEMMA ReadingTypes ==
    ASSUME TypeInv, NEW t \in Txns,
           \/ begin(t) \/ Statement(t) \/ InsertStatement(t)
           \/ \E r \in Rids : lock_record(t, r) \/ scan_record(t, r)
           \/ visit(t) \/ get_record(t) \/ check_head(t) \/ is_unique(t)
    PROVE  TypeInv'
<1> USE DEF TypeInv, SharedTypes, ThreadTypes, GoTo, data, OnRecord, Steps
<1>1. ASSUME SetTransaction(t)
      PROVE  /\ pc[t] = "idle"
             /\ next_timestamp' \in Nat
             /\ read_ts' \in [Txns -> Nat]
             /\ left' \in [Txns -> 0 .. MaxStatements]
             /\ UNCHANGED <<commit_ts, write_set, data, cur, rec, pos>>
  BY <1>1, StatementBound DEF SetTransaction, NextTimestamp
<1>2. CASE begin(t)
  BY <1>2 DEF begin, NextTimestamp, local
<1>3. CASE Statement(t)
  <2>1. PICK kind \in Kinds \ {"insert"}, rids \in SUBSET {r \in Rids : heap[r].used} :
           stmt' = [stmt EXCEPT ![t] = [kind |-> kind, key |-> NoRid, rids |-> rids]]
    BY <1>3 DEF Statement
  <2>2. [kind |-> kind, key |-> NoRid, rids |-> rids] \in Statements
    BY DEF Statements
  <2>3. stmt' \in [Txns -> Statements]
    BY <2>1, <2>2
  <2> QED
    BY <1>1, <1>3, <2>3 DEF Statement
<1>4. CASE InsertStatement(t)
  <2>1. PICK k \in Keys :
           stmt' = [stmt EXCEPT ![t] = [kind |-> "insert", key |-> k, rids |-> {}]]
    BY <1>4 DEF InsertStatement
  <2>2. [kind |-> "insert", key |-> k, rids |-> {}] \in Statements
    BY <1>4 DEF Statements, InsertStatement
  <2>3. stmt' \in [Txns -> Statements]
    BY <2>1, <2>2
  <2> QED
    BY <1>1, <1>4, <2>3 DEF InsertStatement
<1>5. ASSUME NEW r \in Rids, lock_record(t, r) \/ scan_record(t, r)
      PROVE  TypeInv'
  <2>1. /\ \E s \in {"throw", "visit"} : pc' = [pc EXCEPT ![t] = s]
        /\ cur' = [cur EXCEPT ![t] = r]
        /\ UNCHANGED <<next_timestamp, read_ts, commit_ts, write_set, data, stmt, rec, left, pos>>
    BY <1>5 DEF lock_record, scan_record
  <2>2. /\ pc' \in [Txns -> Steps] /\ cur' \in [Txns -> Rids \cup {NoRid}]
        /\ pc'[t] # "undo" /\ cur'[t] \in Rids
        /\ \A u \in Txns : u # t => pc'[u] = pc[u] /\ cur'[u] = cur[u]
    BY <1>5, <2>1
  <2>3. /\ \A u \in Txns : pc'[u] \in OnRecord => cur'[u] \in Rids
        /\ \A u \in Txns : pc'[u] = "undo" => pos'[u] =< Len(write_set'[u])
    BY <2>1, <2>2
  <2> QED
    BY <2>1, <2>2, <2>3
<1>6. CASE visit(t)
  <2>1. /\ stmt' \in [Txns -> Statements]
        /\ \E s \in {"get", "idle", "row"} : pc' = [pc EXCEPT ![t] = s]
        /\ pc[t] = "visit"
    BY <1>6, RowEnds DEF visit
  <2> QED
    BY <1>6, <2>1 DEF visit
<1>7. CASE get_record(t)
  <2>1. stmt' \in [Txns -> Statements]
    BY <1>7, RowEnds DEF get_record
  <2>2. rec' \in [Txns -> Rows]
    <3>1. heap[cur[t]].row \in Rows
      BY <1>7 DEF get_record
    <3> QED
      BY <1>7, <3>1 DEF get_record
  <2>3. /\ pc[t] = "get"
        /\ \E s \in {"idle", "row", "check", "index"} : pc' = [pc EXCEPT ![t] = s]
        /\ UNCHANGED <<lockVars, next_timestamp, read_ts, commit_ts, write_set, data,
                       cur, left, pos>>
    BY <1>7 DEF get_record, RowDone, Fail
  <2> QED
    BY <2>1, <2>2, <2>3
<1>8. CASE check_head(t)
  <2>1. /\ \E s \in {"throw", "version"} : pc' = [pc EXCEPT ![t] = s]
        /\ pc[t] = "check"
        /\ UNCHANGED <<next_timestamp, read_ts, commit_ts, write_set, data, stmt, cur, rec,
                       left, pos>>
    BY <1>8 DEF check_head, Throw
  <2> QED
    BY <2>1
<1>9. CASE is_unique(t)
  <2>1. /\ stmt' \in [Txns -> Statements]
        /\ \E s \in {"slot", "idle", "row"} : pc' = [pc EXCEPT ![t] = s]
    BY <1>9, RowEnds DEF is_unique
  <2> QED
    BY <1>9, <2>1 DEF is_unique
<1> QED
  BY <1>2, <1>3, <1>4, <1>5, <1>6, <1>7, <1>8, <1>9

(* What the four operations on chains do to the chains of the table *)

(* The updated record contains what was read and the writer. *)
LEMMA UpdatedRow ==
    ASSUME TypeInv, NEW t \in Txns
    PROVE  Updated(t) \in Rows /\ Updated(t).content = rec[t].content \cup {t}
<1> DEFINE m == rec[t]
<1>1. m \in Rows
  BY DEF TypeInv, ThreadTypes
<1>2. Updated(t) = [m EXCEPT !.content = m.content \cup {t}]
  BY DEF Updated
<1> HIDE DEF m
<1>3. Updated(t) \in Rows /\ Updated(t).content = m.content \cup {t}
  BY <1>1, <1>2 DEF Rows
<1> QED
  BY <1>3 DEF m

(* UpdateExecutor puts a version with its new content at the head, or over *)
(* its own at the head; the versions below stay.                           *)
LEMMA UpdateChains ==
    ASSUME TypeInv, NEW t \in Txns, update_version(t),
           VC!UpdateSucceeds(chains[cur[t]], read_ts[t], t)
    PROVE  /\ cur[t] \in Rids
           /\ chains' \in [Rids -> Chain]
           /\ \A s \in Rids : s # cur[t] => chains'[s] = chains[s]
           /\ 1 \in DOMAIN chains'[cur[t]]
           /\ VC!UncommittedOf(chains'[cur[t]][1], t)
           /\ chains'[cur[t]][1].data = Updated(t)
           /\ ~chains'[cur[t]][1].is_deleted
           /\ \A i \in DOMAIN chains'[cur[t]] : i # 1 =>
                 \E k \in DOMAIN chains[cur[t]] :
                    /\ chains'[cur[t]][i] = chains[cur[t]][k]
                    /\ k = IF VC!OwnHead(chains[cur[t]], t) THEN i ELSE i - 1
<1> DEFINE r     == cur[t]
           chain == chains[r]
           new   == VC!update_version(chain, t, Updated(t))
<1>1. r \in Rids /\ chain \in Chain /\ chains \in [Rids -> Chain]
  BY DEF update_version, TypeInv, SharedTypes, ThreadTypes, OnRecord
<1>2. Updated(t) \in Rows
  BY UpdatedRow
<1>3. chains' = [chains EXCEPT ![r] = new]
  BY DEF update_version
<1>4. VC!OwnHead(chain, t) => ~Head(chain).is_deleted
  BY DEF VC!UpdateSucceeds
<1>5. new = VC!update_version(chain, t, Updated(t))
  OBVIOUS
<1>6. chain \in Seq(Versions(Txns \cup {0}, Rows)) /\ t \in Txns \cup {0}
  BY <1>1 DEF Chain
<1> HIDE DEF chain, new
<1>7. /\ new \in Seq(Versions(Txns \cup {0}, Rows))
      /\ 1 \in DOMAIN new
      /\ VC!UncommittedOf(new[1], t)
      /\ new[1].data = Updated(t) /\ ~new[1].is_deleted
      /\ \A i \in DOMAIN new : i # 1 =>
            \E k \in DOMAIN chain :
               /\ new[i] = chain[k]
               /\ k = IF VC!OwnHead(chain, t) THEN i ELSE i - 1
  BY <1>2, <1>4, <1>5, <1>6, UpdateAtHead
<1>8. VC!UncommittedOf(new[1], t)
  BY <1>7
<1>9. chains'[r] = new /\ chains' \in [Rids -> Chain] /\ \A s \in Rids : s # r => chains'[s] = chains[s]
  BY <1>1, <1>3, <1>7 DEF Chain
<1> QED
  BY <1>1, <1>7, <1>8, <1>9 DEF chain

(* DeleteExecutor's chain is the one it found, or one with the initial     *)
(* version of what the slot holds.                                         *)
Found(t) == IF heap[cur[t]].used THEN VC!WithInitial(chains[cur[t]], heap[cur[t]].row)
                                 ELSE chains[cur[t]]

(* The initial version is committed and has the content of the slot. *)
LEMMA FoundChain ==
    ASSUME TypeInv, NEW t \in Txns, cur[t] \in Rids
    PROVE  /\ Found(t) \in Chain
           /\ chains[cur[t]] # << >> => Found(t) = chains[cur[t]]
           /\ chains[cur[t]] = << >> =>
                 \A i \in DOMAIN Found(t) : /\ i = 1
                                            /\ ~VC!Uncommitted(Found(t)[i])
                                            /\ Found(t)[i].data = heap[cur[t]].row
<1> DEFINE r == cur[t]
           v == [VC!TupleVersion(0, heap[r].row, FALSE) EXCEPT !.create_ts = 0]
<1>1. chains[r] \in Chain /\ heap[r].row \in Rows
  BY DEF TypeInv, SharedTypes
<1>2. /\ v \in Versions(Txns \cup {0}, Rows)
      /\ v.create_ts = 0 /\ v.data = heap[r].row
  BY <1>1 DEF VC!TupleVersion, Versions, VC!INVALID_TIMESTAMP
<1>3. ~VC!Uncommitted(v)
  BY <1>2 DEF VC!Uncommitted, VC!INVALID_TIMESTAMP
<1>4. CASE chains[r] # << >> \/ ~heap[r].used
  BY <1>1, <1>4 DEF Found, VC!WithInitial
<1>5. CASE chains[r] = << >> /\ heap[r].used
  <2>1. Found(t) = <<v>>
    BY <1>5 DEF Found, VC!WithInitial
  <2> HIDE DEF v
  <2> QED
    BY <1>2, <1>3, <1>5, <2>1 DEF Chain
<1> QED
  BY <1>4, <1>5

(* DeleteExecutor puts a deletion above the versions it has found. *)
LEMMA DeleteChains ==
    ASSUME TypeInv, NEW t \in Txns, delete_version(t),
           VC!DeleteSucceeds(Found(t), read_ts[t], t)
    PROVE  /\ cur[t] \in Rids
           /\ chains' \in [Rids -> Chain]
           /\ \A s \in Rids : s # cur[t] => chains'[s] = chains[s]
           /\ 1 \in DOMAIN chains'[cur[t]]
           /\ VC!UncommittedOf(chains'[cur[t]][1], t)
           /\ chains'[cur[t]][1].is_deleted
           /\ \E k \in DOMAIN Found(t) : chains'[cur[t]][1].data = Found(t)[k].data
           /\ \A i \in DOMAIN chains'[cur[t]] : i # 1 =>
                 i - 1 \in DOMAIN Found(t) /\ chains'[cur[t]][i] = Found(t)[i - 1]
<1> DEFINE r     == cur[t]
           chain == Found(t)
           ts    == read_ts[t]
           new   == VC!delete_version(chain, ts, t)
<1>1. r \in Rids /\ chains \in [Rids -> Chain]
  BY DEF delete_version, TypeInv, SharedTypes, ThreadTypes, OnRecord
<1>2. chain \in Chain
  BY <1>1, FoundChain
<1>3. chains' = [chains EXCEPT ![r] = new]
  BY DEF delete_version, Found
<1>4. new = VC!delete_version(chain, ts, t) /\ VC!DeleteSucceeds(chain, ts, t)
  OBVIOUS
<1>5. chain \in Seq(Versions(Txns \cup {0}, Rows)) /\ t \in Txns \cup {0}
  BY <1>2 DEF Chain
<1> HIDE DEF chain, new, ts
<1>6. /\ new \in Seq(Versions(Txns \cup {0}, Rows))
      /\ 1 \in DOMAIN new
      /\ VC!UncommittedOf(new[1], t) /\ new[1].is_deleted
      /\ \E k \in DOMAIN chain : new[1].data = chain[k].data
      /\ \A i \in DOMAIN new : i # 1 => i - 1 \in DOMAIN chain /\ new[i] = chain[i - 1]
  <2> DEFINE Ids == Txns \cup {0}
  <2>1. chain \in Seq(Versions(Ids, Rows)) /\ t \in Ids
    BY <1>5
  <2> HIDE DEF Ids
  <2>2. LET n == VC!delete_version(chain, ts, t)
        IN  /\ n \in Seq(Versions(Ids, Rows))
            /\ 1 \in DOMAIN n
            /\ VC!UncommittedOf(n[1], t) /\ n[1].is_deleted
            /\ \E k \in DOMAIN chain : n[1].data = chain[k].data
            /\ \A i \in DOMAIN n : i # 1 => i - 1 \in DOMAIN chain /\ n[i] = chain[i - 1]
    BY <1>4, <2>1, DeleteAtHead
  <2> QED
    BY <1>4, <2>2 DEF Ids
<1>7. VC!UncommittedOf(new[1], t)
  BY <1>6 DEF VC!UncommittedOf, VC!Uncommitted,
         VC!INVALID_TIMESTAMP
<1>8. chains'[r] = new /\ chains' \in [Rids -> Chain] /\ \A s \in Rids : s # r => chains'[s] = chains[s]
  BY <1>1, <1>3, <1>6 DEF Chain
<1> QED
  BY <1>1, <1>6, <1>7, <1>8 DEF chain

(* commit stamps the uncommitted versions of t in the chains it has        *)
(* written and changes nothing else that a reader of the data sees.        *)
LEMMA CommitChains ==
    ASSUME TypeInv, NEW t \in Txns, commit_mvcc_versions(t)
    PROVE  /\ chains' \in [Rids -> Chain]
           /\ \A r \in Rids : r \notin Written(t) => chains'[r] = chains[r]
           /\ \A r \in Rids :
                 /\ DOMAIN chains'[r] = DOMAIN chains[r]
                 /\ \A i \in DOMAIN chains[r] :
                       /\ chains'[r][i].txn_id = chains[r][i].txn_id
                       /\ chains'[r][i].data = chains[r][i].data
                       /\ chains'[r][i].is_deleted = chains[r][i].is_deleted
                       /\ VC!Uncommitted(chains'[r][i]) <=>
                             /\ VC!Uncommitted(chains[r][i])
                             /\ ~(r \in Written(t) /\ chains[r][i].txn_id = t)
<1> DEFINE ts == commit_ts[t]
           Done(r) == VC!commit_chain_versions(chains[r], t, ts)
<1>1. chains \in [Rids -> Chain] /\ ts \in Nat
  BY DEF TypeInv, SharedTypes, ThreadTypes
<1>2. chains' = [r \in Rids |-> IF r \in Written(t) THEN Done(r) ELSE chains[r]]
  BY DEF commit_mvcc_versions
<1>3. ASSUME NEW r \in Rids, r \in Written(t)
      PROVE  /\ chains'[r] \in Chain
             /\ DOMAIN chains'[r] = DOMAIN chains[r]
             /\ \A i \in DOMAIN chains[r] :
                   /\ chains'[r][i].txn_id = chains[r][i].txn_id
                   /\ chains'[r][i].data = chains[r][i].data
                   /\ chains'[r][i].is_deleted = chains[r][i].is_deleted
                   /\ VC!Uncommitted(chains'[r][i]) <=>
                         /\ VC!Uncommitted(chains[r][i])
                         /\ chains[r][i].txn_id # t
  <2> DEFINE chain == chains[r]
             done  == chains'[r]
  <2>1. done = VC!commit_chain_versions(chain, t, ts)
    BY <1>2, <1>3
  <2>2. chain \in Seq(Versions(Txns \cup {0}, Rows))
    BY <1>1 DEF Chain
  <2> HIDE DEF chain, done, ts
  <2>3. /\ done \in Seq(Versions(Txns \cup {0}, Rows))
        /\ DOMAIN done = DOMAIN chain
        /\ \A i \in DOMAIN chain :
              /\ done[i].txn_id = chain[i].txn_id
              /\ done[i].data = chain[i].data
              /\ done[i].is_deleted = chain[i].is_deleted
              /\ done[i].create_ts = IF VC!UncommittedOf(chain[i], t) THEN ts
                                     ELSE chain[i].create_ts
    BY <1>1, <2>1, <2>2, CommitStampsOwn
  <2>4. ASSUME NEW i \in DOMAIN chain
        PROVE  VC!Uncommitted(done[i]) <=> VC!Uncommitted(chain[i]) /\ chain[i].txn_id # t
    <3>1. done[i].create_ts = IF VC!UncommittedOf(chain[i], t) THEN ts ELSE chain[i].create_ts
      BY <2>3
    <3> QED
      BY <1>1, <3>1 DEF VC!Uncommitted, VC!UncommittedOf,
             VC!INVALID_TIMESTAMP
  <2> QED
    BY <2>3, <2>4 DEF chain, done, Chain
<1>4. \A r \in Rids : r \notin Written(t) => chains'[r] = chains[r]
  BY <1>2
<1>5. chains' \in [Rids -> Chain]
  <2>1. \A r \in Rids : chains'[r] \in Chain
    BY <1>1, <1>3, <1>4
  <2>2. DOMAIN chains' = Rids
    BY <1>2
  <2> HIDE DEF Done
  <2> QED
    BY <1>2, <2>1, <2>2
<1>6. ASSUME NEW r \in Rids
      PROVE  /\ DOMAIN chains'[r] = DOMAIN chains[r]
             /\ \A i \in DOMAIN chains[r] :
                   /\ chains'[r][i].txn_id = chains[r][i].txn_id
                   /\ chains'[r][i].data = chains[r][i].data
                   /\ chains'[r][i].is_deleted = chains[r][i].is_deleted
                   /\ VC!Uncommitted(chains'[r][i]) <=>
                         /\ VC!Uncommitted(chains[r][i])
                         /\ ~(r \in Written(t) /\ chains[r][i].txn_id = t)
  <2>1. CASE r \in Written(t)
    BY <1>3, <2>1
  <2>2. CASE r \notin Written(t)
    BY <1>4, <2>2
  <2> QED
    BY <2>1, <2>2
<1> QED
  BY <1>4, <1>5, <1>6

(* abort takes the uncommitted versions of t out of the chains it has      *)
(* written and keeps the others in their order.                            *)
LEMMA RollbackChains ==
    ASSUME TypeInv, NEW t \in Txns, abort(t)
    PROVE  /\ chains' \in [Rids -> Chain]
           /\ \A r \in Rids : r \notin Written(t) => chains'[r] = chains[r]
           /\ \A r \in Rids : r \in Written(t) =>
                 \E at \in [DOMAIN chains'[r] -> DOMAIN chains[r]] :
                     /\ \A i \in DOMAIN chains'[r] :
                           /\ chains'[r][i] = chains[r][at[i]]
                           /\ ~VC!UncommittedOf(chains'[r][i], t)
                     /\ \A i, j \in DOMAIN chains'[r] : i < j => at[i] < at[j]
                     /\ \A k \in DOMAIN chains[r] : ~VC!UncommittedOf(chains[r][k], t) =>
                           \E i \in DOMAIN chains'[r] : at[i] = k
<1> DEFINE Rest(r) == VC!rollback_chain_versions(chains[r], t)
<1>1. chains \in [Rids -> Chain]
  BY DEF TypeInv, SharedTypes
<1>2. chains' = [r \in Rids |-> IF r \in Written(t) THEN Rest(r) ELSE chains[r]]
  BY DEF abort
<1>4. ASSUME NEW r \in Rids, r \in Written(t)
      PROVE  /\ chains'[r] \in Chain
             /\ \E at \in [DOMAIN chains'[r] -> DOMAIN chains[r]] :
                     /\ \A i \in DOMAIN chains'[r] :
                           /\ chains'[r][i] = chains[r][at[i]]
                           /\ ~VC!UncommittedOf(chains'[r][i], t)
                     /\ \A i, j \in DOMAIN chains'[r] : i < j => at[i] < at[j]
                     /\ \A k \in DOMAIN chains[r] : ~VC!UncommittedOf(chains[r][k], t) =>
                           \E i \in DOMAIN chains'[r] : at[i] = k
  <2> DEFINE chain == chains[r]
             rest  == chains'[r]
             V     == Versions(Txns \cup {0}, Rows)
  <2>1. rest = VC!rollback_chain_versions(chain, t)
    BY <1>2, <1>4
  <2>2. chain \in Seq(V)
    BY <1>1 DEF Chain
  <2> HIDE DEF chain, rest, V
  <2>3. /\ rest \in Seq(V)
        /\ \E at \in [DOMAIN rest -> DOMAIN chain] :
              /\ \A i \in DOMAIN rest :
                    rest[i] = chain[at[i]] /\ ~VC!UncommittedOf(rest[i], t)
              /\ \A i, j \in DOMAIN rest : i < j => at[i] < at[j]
              /\ \A k \in DOMAIN chain : ~VC!UncommittedOf(chain[k], t) =>
                    \E i \in DOMAIN rest : at[i] = k
    BY <2>1, <2>2, RollbackKeepsOrder
  <2> QED
    BY <2>3, Zenon DEF chain, rest, V, Chain
<1>5. \A r \in Rids : r \notin Written(t) => chains'[r] = chains[r]
  BY <1>2
<1>6. chains' \in [Rids -> Chain]
  <2>1. \A r \in Rids : chains'[r] \in Chain
    BY <1>1, <1>4, <1>5
  <2>2. DOMAIN chains' = Rids
    BY <1>2
  <2> HIDE DEF Rest
  <2> QED
    BY <1>2, <2>1, <2>2
<1> QED
  BY <1>4, <1>5, <1>6

(* A write record is appended to the write set of its transaction. *)
LEMMA Appended ==
    ASSUME TypeInv, NEW t \in Txns, NEW w \in WriteRecords, append_write_record(t, w)
    PROVE  /\ write_set' \in [Txns -> Seq(WriteRecords)]
           /\ \A u \in Txns : u # t => write_set'[u] = write_set[u]
           /\ Len(write_set'[t]) = Len(write_set[t]) + 1 /\ Len(write_set[t]) \in Nat
           /\ DOMAIN write_set'[t] = 1 .. (Len(write_set[t]) + 1)
           /\ DOMAIN write_set[t] = 1 .. Len(write_set[t])
           /\ \A i \in DOMAIN write_set[t] :
                 i \in DOMAIN write_set'[t] /\ write_set'[t][i] = write_set[t][i]
           /\ write_set'[t][Len(write_set[t]) + 1] = w
<1> DEFINE ws == write_set[t]
<1>1. write_set \in [Txns -> Seq(WriteRecords)] /\ ws \in Seq(WriteRecords)
  BY DEF TypeInv, ThreadTypes
<1>2. write_set' = [write_set EXCEPT ![t] = Append(ws, w)]
  BY DEF append_write_record
<1> HIDE DEF ws
<1>3. /\ Append(ws, w) \in Seq(WriteRecords)
      /\ Len(Append(ws, w)) = Len(ws) + 1 /\ Len(ws) \in Nat
      /\ DOMAIN Append(ws, w) = 1 .. (Len(ws) + 1)
      /\ DOMAIN ws = 1 .. Len(ws)
      /\ \A i \in 1 .. Len(ws) : i \in 1 .. (Len(ws) + 1) /\ Append(ws, w)[i] = ws[i]
      /\ Append(ws, w)[Len(ws) + 1] = w
  BY <1>1
<1>4. write_set'[t] = Append(ws, w) /\ \A u \in Txns : u # t => write_set'[u] = write_set[u]
  BY <1>1, <1>2
<1>5. write_set' \in [Txns -> Seq(WriteRecords)]
  BY <1>1, <1>2, <1>3
<1> QED
  BY <1>3, <1>4, <1>5 DEF ws

(* Steps that write *)
LEMMA WritingTypes ==
    ASSUME TypeInv, NEW t \in Txns,
           \/ delete_entry(t) \/ update_version(t) \/ delete_version(t)
           \/ update_record(t) \/ update_record_map(t)
    PROVE  TypeInv'
<1>1. /\ rec[t] \in Rows /\ Updated(t) \in Rows
      /\ pc[t] \in OnRecord => cur[t] \in Rids
  BY UpdatedRow DEF TypeInv, ThreadTypes
<1>2. CASE delete_entry(t)
  <2>1. pc[t] = "index" /\ cur[t] \in Rids
    BY <1>1, <1>2 DEF delete_entry, OnRecord
  <2>2. Row(rec[t].key, {}) \in Rows
    BY <1>1 DEF Row, Rows
  <2>3. WriteRecord("IX_DELETE", cur[t], Row(rec[t].key, {})) \in WriteRecords
    BY <2>1, <2>2 DEF WriteRecord, WriteRecords
  <2>4. /\ write_set' \in [Txns -> Seq(WriteRecords)]
        /\ \A u \in Txns : u # t => write_set'[u] = write_set[u]
    BY <1>2, <2>3, Appended DEF delete_entry
  <2>5. index' \in [Keys -> Rids \cup {NoRid}]
    BY <1>2 DEF delete_entry, TypeInv, SharedTypes
  <2> QED
    BY <1>2, <2>1, <2>4, <2>5
       DEF delete_entry, TypeInv, SharedTypes, ThreadTypes, GoTo, local, Steps, OnRecord
<1>3. CASE update_version(t)
  <2>1. chains' \in [Rids -> Chain]
    <3>1. CASE VC!UpdateSucceeds(chains[cur[t]], read_ts[t], t)
      BY <1>3, <3>1, UpdateChains
    <3>2. CASE ~VC!UpdateSucceeds(chains[cur[t]], read_ts[t], t)
      BY <1>3, <3>2 DEF update_version, TypeInv, SharedTypes
    <3> QED
      BY <3>1, <3>2
  <2>2. pc[t] = "version" /\ UNCHANGED stmt /\ \E s \in {"heap", "throw"} : pc' = [pc EXCEPT ![t] = s]
    BY <1>3 DEF update_version, Throw, GoTo
  <2> QED
    BY <1>3, <2>1, <2>2
       DEF update_version, TypeInv, SharedTypes, ThreadTypes, Steps, OnRecord
<1>4. CASE delete_version(t)
  <2>1. pc[t] = "version" /\ cur[t] \in Rids
    BY <1>1, <1>4 DEF delete_version, OnRecord
  <2>2. CASE VC!DeleteSucceeds(Found(t), read_ts[t], t)
    <3>1. chains' \in [Rids -> Chain]
      BY <1>4, <2>2, DeleteChains
    <3>2. append_write_record(t, WriteRecord("DELETE", cur[t], rec[t])) /\ RowDone(t)
      BY <1>4, <2>2 DEF delete_version, Found
    <3>3. WriteRecord("DELETE", cur[t], rec[t]) \in WriteRecords
      BY <1>1, <2>1 DEF WriteRecord, WriteRecords
    <3>4. /\ write_set' \in [Txns -> Seq(WriteRecords)]
          /\ \A u \in Txns : u # t => write_set'[u] = write_set[u]
      BY <3>2, <3>3, Appended
    <3>5. stmt' \in [Txns -> Statements] /\ \E s \in {"idle", "row"} : pc' = [pc EXCEPT ![t] = s]
      BY <3>2, RowEnds
    <3>6. /\ pc' \in [Txns -> Steps] /\ pc'[t] \notin OnRecord /\ pc'[t] # "undo"
          /\ \A u \in Txns : u # t => pc'[u] = pc[u]
      BY <3>5 DEF TypeInv, ThreadTypes, Steps, OnRecord
    <3>7. UNCHANGED <<next_timestamp, read_ts, commit_ts, heap, mvcc_map, index, latch, cur, rec,
                      left, pos>>
      BY <1>4 DEF delete_version
    <3>8. /\ \A u \in Txns : pc'[u] \in OnRecord => cur'[u] \in Rids
          /\ \A u \in Txns : pc'[u] = "undo" => pos'[u] =< Len(write_set'[u])
      BY <3>4, <3>6, <3>7 DEF TypeInv, ThreadTypes
    <3> QED
      BY <3>1, <3>4, <3>5, <3>6, <3>7, <3>8 DEF TypeInv, SharedTypes, ThreadTypes
  <2>3. CASE ~VC!DeleteSucceeds(Found(t), read_ts[t], t)
    <3>1. chains' = [chains EXCEPT ![cur[t]] = Found(t)] /\ Throw(t) /\ UNCHANGED write_set
      BY <1>4, <2>3 DEF delete_version, Found
    <3>2. chains' \in [Rids -> Chain]
      BY <2>1, <3>1, FoundChain DEF TypeInv, SharedTypes
    <3> QED
      BY <1>4, <3>1, <3>2
         DEF delete_version, Throw, GoTo, TypeInv, SharedTypes, ThreadTypes, Steps, OnRecord
  <2> QED
    BY <2>2, <2>3
<1>5. CASE update_record(t)
  <2>1. pc[t] = "heap" /\ cur[t] \in Rids
    BY <1>1, <1>5 DEF update_record, OnRecord
  <2>2. heap' \in [Rids -> [used : BOOLEAN, row : Rows]] /\ latch' \in Txns \cup {Free}
    <3> DEFINE row == Updated(t)
               slot == heap[cur[t]]
    <3>1. slot \in [used : BOOLEAN, row : Rows] /\ row \in Rows
      BY <1>1, <2>1 DEF TypeInv, SharedTypes
    <3>2. heap' = heap \/ heap' = [heap EXCEPT ![cur[t]] = [slot EXCEPT !.row = row]]
      BY <1>5 DEF update_record
    <3> HIDE DEF row, slot
    <3>3. [slot EXCEPT !.row = row] \in [used : BOOLEAN, row : Rows]
      BY <3>1
    <3> QED
      BY <1>5, <3>2, <3>3 DEF update_record, TypeInv, SharedTypes
  <2>3. /\ stmt' \in [Txns -> Statements]
        /\ \E s \in {"map", "idle", "row"} : pc' = [pc EXCEPT ![t] = s]
    BY <1>5, RowEnds DEF update_record, GoTo, TypeInv, ThreadTypes
  <2> QED
    BY <1>5, <2>1, <2>2, <2>3
       DEF update_record, TypeInv, SharedTypes, ThreadTypes, Steps, OnRecord
<1>6. CASE update_record_map(t)
  <2>1. pc[t] = "map" /\ cur[t] \in Rids
    BY <1>1, <1>6 DEF update_record_map, OnRecord
  <2>2. append_write_record(t, WriteRecord("UPDATE", cur[t], rec[t])) /\ RowDone(t)
    BY <1>6 DEF update_record_map
  <2>3. WriteRecord("UPDATE", cur[t], rec[t]) \in WriteRecords
    BY <1>1, <2>1 DEF WriteRecord, WriteRecords
  <2>4. /\ write_set' \in [Txns -> Seq(WriteRecords)]
        /\ \A u \in Txns : u # t => write_set'[u] = write_set[u]
    BY <2>2, <2>3, Appended
  <2>5. stmt' \in [Txns -> Statements] /\ \E s \in {"idle", "row"} : pc' = [pc EXCEPT ![t] = s]
    BY <2>2, RowEnds
  <2>6. DOMAIN mvcc_map' \subseteq Rids
    BY <1>6, <2>1 DEF update_record_map, MM!insert_record, TypeInv, SharedTypes
  <2> QED
    BY <1>6, <2>4, <2>5, <2>6
       DEF update_record_map, TypeInv, SharedTypes, ThreadTypes, Steps, OnRecord
<1> QED
  BY <1>2, <1>3, <1>4, <1>5, <1>6

(* InsertExecutor's steps *)
LEMMA InsertTypes ==
    ASSUME TypeInv, NEW t \in Txns,
           insert_record(t) \/ insert_record_map(t) \/ insert_entry(t)
    PROVE  TypeInv'
<1>1. /\ stmt[t].key \in Keys \cup {NoRid}
      /\ pc[t] \in OnRecord => cur[t] \in Rids
  BY DEF TypeInv, ThreadTypes, Statements
<1>2. Row(stmt[t].key, {t}) \in Rows /\ Row(stmt[t].key, {}) \in Rows
  BY <1>1 DEF Row, Rows
<1>3. CASE insert_record(t)
  <2>1. PICK r \in Rids :
           /\ heap' = [heap EXCEPT ![r] = [used |-> TRUE, row |-> Row(stmt[t].key, {t})]]
           /\ cur' = [cur EXCEPT ![t] = r]
    BY <1>3 DEF insert_record
  <2>2. heap' \in [Rids -> [used : BOOLEAN, row : Rows]]
    BY <1>2, <2>1 DEF TypeInv, SharedTypes
  <2> QED
    BY <1>3, <2>1, <2>2
       DEF insert_record, GoTo, TypeInv, SharedTypes, ThreadTypes, Steps, OnRecord
<1>4. CASE insert_record_map(t)
  <2>1. pc[t] = "slot_map" /\ cur[t] \in Rids
    BY <1>1, <1>4 DEF insert_record_map, OnRecord
  <2>2. WriteRecord("INSERT", cur[t], Row(stmt[t].key, {t})) \in WriteRecords
    BY <1>2, <2>1 DEF WriteRecord, WriteRecords
  <2>3. /\ write_set' \in [Txns -> Seq(WriteRecords)]
        /\ \A u \in Txns : u # t => write_set'[u] = write_set[u]
    BY <1>4, <2>2, Appended DEF insert_record_map
  <2>4. DOMAIN mvcc_map' \subseteq Rids
    BY <1>4, <2>1 DEF insert_record_map, MM!insert_record, TypeInv, SharedTypes
  <2> QED
    BY <1>4, <2>1, <2>3, <2>4
       DEF insert_record_map, GoTo, local, TypeInv, SharedTypes, ThreadTypes, Steps, OnRecord
<1>5. CASE insert_entry(t)
  <2>1. pc[t] = "entry" /\ cur[t] \in Rids
    BY <1>1, <1>5 DEF insert_entry, OnRecord
  <2>2. WriteRecord("IX_INSERT", cur[t], Row(stmt[t].key, {})) \in WriteRecords
    BY <1>2, <2>1 DEF WriteRecord, WriteRecords
  <2>3. /\ write_set' \in [Txns -> Seq(WriteRecords)]
        /\ \A u \in Txns : u # t => write_set'[u] = write_set[u]
    BY <1>5, <2>2, Appended DEF insert_entry
  <2>4. index' \in [Keys -> Rids \cup {NoRid}]
    BY <1>5, <2>1 DEF insert_entry, EntryInserted, TypeInv, SharedTypes
  <2> QED
    BY <1>5, <2>1, <2>3, <2>4
       DEF insert_entry, GoTo, local, TypeInv, SharedTypes, ThreadTypes, Steps, OnRecord
<1> QED
  BY <1>3, <1>4, <1>5

(* What Undo does to slots and index *)
LEMMA UndoTypes ==
    ASSUME TypeInv, NEW w \in WriteRecords, Undo(w)
    PROVE  /\ heap' \in [Rids -> [used : BOOLEAN, row : Rows]]
           /\ index' \in [Keys -> Rids \cup {NoRid}]
           /\ \A r \in Rids : heap'[r] # heap[r] => r = w.rid /\ w.type \in {"INSERT", "UPDATE"}
           /\ w.type # "INSERT" => \A r \in Rids : heap'[r].used = heap[r].used
           /\ w.type = "UPDATE" /\ heap[w.rid].used => heap'[w.rid].row = w.row
<1> DEFINE Slot == [used : BOOLEAN, row : Rows]
           slot == heap[w.rid]
<1>1. w.rid \in Rids /\ w.row \in Rows
  BY DEF WriteRecords
<1>2. heap \in [Rids -> Slot] /\ slot \in Slot
  BY <1>1 DEF TypeInv, SharedTypes
<1>3. index' \in [Keys -> Rids \cup {NoRid}]
  BY <1>1 DEF Undo, EntryInserted, TypeInv, SharedTypes
<1>4. /\ [slot EXCEPT !.used = FALSE] \in Slot
      /\ [slot EXCEPT !.row = w.row] \in Slot
      /\ [slot EXCEPT !.row = w.row].row = w.row
      /\ [slot EXCEPT !.row = w.row].used = slot.used
  BY <1>1, <1>2
<1>5. CASE w.type = "INSERT"
  <2>1. heap' = [heap EXCEPT ![w.rid] = [slot EXCEPT !.used = FALSE]]
    BY <1>5 DEF Undo
  <2> HIDE DEF slot, Slot
  <2> QED
    BY <1>1, <1>2, <1>3, <1>4, <1>5, <2>1 DEF Slot
<1>6. CASE w.type = "UPDATE" /\ heap[w.rid].used
  <2>1. heap' = [heap EXCEPT ![w.rid] = [slot EXCEPT !.row = w.row]]
    BY <1>6 DEF Undo
  <2>2. heap' \in [Rids -> Slot] /\ \A r \in Rids : r # w.rid => heap'[r] = heap[r]
    BY <1>1, <1>2, <1>4, <2>1
  <2>3. heap'[w.rid] = [slot EXCEPT !.row = w.row]
    BY <1>1, <1>2, <2>1
  <2>4. heap'[w.rid].row = w.row /\ heap'[w.rid].used = heap[w.rid].used
    BY <1>4, <2>3
  <2> QED
    BY <1>1, <1>3, <1>6, <2>2, <2>4
<1>7. CASE w.type # "INSERT" /\ ~(w.type = "UPDATE" /\ heap[w.rid].used)
  <2>1. heap' = heap
    BY <1>7 DEF Undo
  <2> QED
    BY <1>2, <1>3, <1>7, <2>1
<1> QED
  BY <1>5, <1>6, <1>7

(* The steps of commit and abort *)
LEMMA EndingTypes ==
    ASSUME TypeInv, NEW t \in Txns,
           \/ commit(t) \/ commit_mvcc_versions(t) \/ erase_entry(t) \/ finish_commit(t)
           \/ \E r \in Rids : unlock(t, r)
           \/ abort(t) \/ rollback_single_operation(t) \/ undone(t) \/ erased(t)
           \/ finish_abort(t)
    PROVE  TypeInv'
<1>1. write_set[t] \in Seq(WriteRecords)
  BY DEF TypeInv, ThreadTypes
<1>2. CASE commit(t)
  BY <1>2 DEF commit, NextTimestamp, GoTo, local, data,
              TypeInv, SharedTypes, ThreadTypes, Steps, OnRecord
<1>3. CASE commit_mvcc_versions(t)
  BY <1>3, CommitChains DEF commit_mvcc_versions, GoTo, local,
              TypeInv, SharedTypes, ThreadTypes, Steps, OnRecord
<1>4. CASE erase_entry(t)
  <2>1. write_set[t] # << >> /\ Tail(write_set[t]) \in Seq(WriteRecords)
    BY <1>1, <1>4 DEF erase_entry
  <2>2. write_set' = [write_set EXCEPT ![t] = Tail(write_set[t])]
    BY <1>4 DEF erase_entry
  <2>3. write_set' \in [Txns -> Seq(WriteRecords)] /\ \A u \in Txns : u # t => write_set'[u] = write_set[u]
    BY <2>1, <2>2 DEF TypeInv, ThreadTypes
  <2>4. DOMAIN mvcc_map' \subseteq Rids
    BY <1>4 DEF erase_entry, MM!commit_mvcc, TypeInv, SharedTypes
  <2>5. pc[t] # "undo"
    BY <1>4 DEF erase_entry
  <2> QED
    BY <1>4, <2>3, <2>4, <2>5 DEF erase_entry, local, TypeInv, SharedTypes, ThreadTypes
<1>5. CASE finish_commit(t) \/ undone(t) \/ erased(t) \/ finish_abort(t)
  <2>1. /\ UNCHANGED <<next_timestamp, read_ts, commit_ts, write_set, data, local>>
        /\ GoTo(t, "committed") \/ GoTo(t, "abort_erase") \/ GoTo(t, "abort_unlock")
              \/ GoTo(t, "aborted")
    BY <1>5 DEF finish_commit, undone, erased, finish_abort
  <2>2. SharedTypes'
    BY <2>1 DEF data, TypeInv, SharedTypes
  <2>3. PICK s \in {"committed", "abort_erase", "abort_unlock", "aborted"} :
           pc' = [pc EXCEPT ![t] = s]
    BY <2>1 DEF GoTo
  <2>4. ThreadTypes'
    BY <2>1, <2>3 DEF local, TypeInv, ThreadTypes, Steps, OnRecord
  <2> QED
    BY <2>2, <2>4 DEF TypeInv
<1>6. ASSUME NEW r \in Rids, unlock(t, r)
      PROVE  TypeInv'
  BY <1>6 DEF unlock, GoTo, local, data, TypeInv, SharedTypes, ThreadTypes, Steps, OnRecord
<1>7. CASE abort(t)
  <2>1. Len(write_set[t]) \in Nat /\ pos' = [pos EXCEPT ![t] = Len(write_set[t])]
    BY <1>1, <1>7 DEF abort
  <2>2. chains' \in [Rids -> Chain]
    BY <1>7, RollbackChains
  <2>3. pc' = [pc EXCEPT ![t] = "undo"]
    BY <1>7 DEF abort, GoTo
  <2>4. SharedTypes'
    BY <1>7, <2>2 DEF abort, TypeInv, SharedTypes
  <2>5. ThreadTypes'
    BY <1>7, <2>1, <2>3 DEF abort, TypeInv, ThreadTypes, Steps, OnRecord
  <2> QED
    BY <2>4, <2>5 DEF TypeInv
<1>8. CASE rollback_single_operation(t)
  <2>1. /\ pc[t] = "undo" /\ pos[t] \in 1 .. Len(write_set[t])
        /\ pos' = [pos EXCEPT ![t] = @ - 1]
    BY <1>1, <1>8 DEF rollback_single_operation, TypeInv, ThreadTypes
  <2>2. write_set[t][pos[t]] \in WriteRecords
    BY <1>1, <2>1
  <2>3. /\ heap' \in [Rids -> [used : BOOLEAN, row : Rows]]
        /\ index' \in [Keys -> Rids \cup {NoRid}]
    BY <1>8, <2>2, UndoTypes DEF rollback_single_operation
  <2>4. /\ pos' \in [Txns -> Nat]
        /\ \A u \in Txns : pc[u] = "undo" => pos'[u] <= Len(write_set[u])
    BY <1>1, <2>1 DEF TypeInv, ThreadTypes
  <2> QED
    BY <1>8, <2>3, <2>4 DEF rollback_single_operation, TypeInv, SharedTypes, ThreadTypes
<1> QED
  BY <1>2, <1>3, <1>4, <1>5, <1>6, <1>7, <1>8

(* Every step preserves the types. *)
LEMMA NextTypes == TypeInv /\ [Next]_vars => TypeInv'
<1> SUFFICES ASSUME TypeInv, [Next]_vars PROVE TypeInv'
  OBVIOUS
<1>1. CASE UNCHANGED vars
  BY <1>1 DEF vars, data, local, TypeInv, SharedTypes, ThreadTypes
<1>2. CASE Next
  BY <1>2, ReadingTypes, WritingTypes, InsertTypes, EndingTypes, Zenon DEF Next, Client, Server
<1> QED
  BY <1>1, <1>2

(* So they hold in every state. *)
LEMMA TypesHold == Spec => []TypeInv
  BY InitTypes, NextTypes, PTL DEF Spec

(* Every variable of the transaction manager keeps its type, whatever      *)
(* statements are issued: no step reads outside a table, a write set or a  *)
(* chain, and the timestamps drawn are never INVALID_TIMESTAMP.            *)
THEOREM TransactionTypes == Spec => []TypeOK
<1>1. LM!LockInv /\ TypeInv => TypeOK
  <2> SUFFICES ASSUME LM!LockInv, TypeInv PROVE TypeOK
    OBVIOUS
  <2>1. \A t \in Txns : stmt[t].rids \subseteq Rids /\ left[t] \in 0 .. MaxStatements
    BY DEF TypeInv, ThreadTypes, Statements
  <2> QED
    BY <2>1 DEF TypeOK, LM!LockInv, TypeInv, SharedTypes, ThreadTypes
<1> QED
  BY <1>1, ServerLockInv, TypesHold, PTL

-----------------------------------------------------------------------------
(* A thread writes no local variable of another. *)

Step(t) == Client(t) \/ commit(t) \/ abort(t) \/ Server(t)

Same(u) ==
    /\ pc'[u] = pc[u] /\ stmt'[u] = stmt[u] /\ cur'[u] = cur[u] /\ rec'[u] = rec[u]
    /\ pos'[u] = pos[u] /\ write_set'[u] = write_set[u]

(* Same(u): a step of t leaves the local variables of u as they are. *)
LEMMA OthersStay ==
    ASSUME TypeInv, NEW t \in Txns, Step(t)
    PROVE  \A u \in Txns : u # t => Same(u)
<1> SUFFICES ASSUME NEW u \in Txns, u # t PROVE Same(u)
  OBVIOUS
<1>1. /\ DOMAIN pc = Txns /\ DOMAIN stmt = Txns /\ DOMAIN cur = Txns /\ DOMAIN rec = Txns
      /\ DOMAIN pos = Txns /\ DOMAIN write_set = Txns
  BY DEF TypeInv, ThreadTypes
<1>2. RowDone(t) \/ Fail(t) \/ Throw(t) => pc'[u] = pc[u] /\ stmt'[u] = stmt[u]
  BY <1>1 DEF RowDone, Fail, Throw, GoTo
<1>3. \A s : GoTo(t, s) => pc'[u] = pc[u]
  BY <1>1 DEF GoTo
<1>4. \A w : append_write_record(t, w) => write_set'[u] = write_set[u]
  BY <1>1 DEF append_write_record
<1> USE <1>1 DEF Same, local
<1>5. CASE Client(t)
  BY <1>3, <1>5 DEF Client, begin, Statement, InsertStatement, SetTransaction
<1>6. CASE commit(t) \/ abort(t)
  BY <1>3, <1>6 DEF commit, abort
<1>7. CASE \E r \in Rids : lock_record(t, r) \/ scan_record(t, r) \/ unlock(t, r)
  BY <1>3, <1>7 DEF lock_record, scan_record, unlock
<1>8. CASE visit(t) \/ get_record(t) \/ check_head(t)
  BY <1>2, <1>3, <1>8 DEF visit, get_record, check_head
<1>9. CASE delete_entry(t) \/ update_version(t) \/ delete_version(t)
  BY <1>2, <1>3, <1>4, <1>9 DEF delete_entry, update_version, delete_version
<1>10. CASE update_record(t) \/ update_record_map(t)
  BY <1>2, <1>3, <1>4, <1>10 DEF update_record, update_record_map
<1>11. CASE is_unique(t) \/ insert_record(t) \/ insert_record_map(t) \/ insert_entry(t)
  BY <1>2, <1>3, <1>4, <1>11 DEF is_unique, insert_record, insert_record_map, insert_entry
<1>12. CASE commit_mvcc_versions(t) \/ erase_entry(t) \/ finish_commit(t)
  BY <1>3, <1>12 DEF commit_mvcc_versions, erase_entry, finish_commit
<1>13. CASE rollback_single_operation(t) \/ undone(t) \/ erased(t) \/ finish_abort(t)
  BY <1>3, <1>13 DEF rollback_single_operation, undone, erased, finish_abort
<1> QED
  BY <1>5, <1>6, <1>7, <1>8, <1>9, <1>10, <1>11, <1>12, <1>13 DEF Step, Server

-----------------------------------------------------------------------------
(* The visibility map.  An entry has been made by a transaction whose      *)
(* write set still names the slot, and commit and abort return only when   *)
(* they have worked off the write set.                                     *)

TupleWrites == {"INSERT", "UPDATE", "DELETE"}

EntriesHaveWriters ==
    /\ \A r \in DOMAIN mvcc_map :
          \E t \in Txns : mvcc_map[r].t_xmin = -t /\ r \in Written(t)
    /\ \A t \in Txns : pc[t] \in {"committed", "abort_unlock", "aborted"} => write_set[t] = << >>

(* The map is empty at the start. *)
LEMMA InitEntries == Init => EntriesHaveWriters
  BY DEF Init, EntriesHaveWriters, MM!EmptyMap

(* What has been written is written when more is. *)
LEMMA WrittenGrows ==
    ASSUME TypeInv, NEW t \in Txns, NEW w \in WriteRecords, append_write_record(t, w)
    PROVE  /\ \A u \in Txns : Written(u) \subseteq Written(u)'
           /\ w.type \in TupleWrites => w.rid \in Written(t)'
<1>1. /\ \A u \in Txns : u # t => write_set'[u] = write_set[u]
      /\ Len(write_set[t]) \in Nat
      /\ DOMAIN write_set'[t] = 1 .. (Len(write_set[t]) + 1)
      /\ \A i \in DOMAIN write_set[t] :
            i \in DOMAIN write_set'[t] /\ write_set'[t][i] = write_set[t][i]
      /\ write_set'[t][Len(write_set[t]) + 1] = w
  BY Appended
<1>2. Len(write_set[t]) + 1 \in DOMAIN write_set'[t]
  BY <1>1
<1>3. ASSUME NEW u \in Txns, NEW r \in Written(u)
      PROVE  r \in Written(u)'
  <2>1. CASE u # t
    BY <1>1, <1>3, <2>1 DEF Written
  <2>2. CASE u = t
    BY <1>1, <1>3, <2>2 DEF Written
  <2> QED
    BY <2>1, <2>2
<1>4. w.type \in TupleWrites => w.rid \in Written(t)'
  BY <1>1, <1>2 DEF Written, TupleWrites
<1> QED
  BY <1>3, <1>4

(* The loop over the write set drops its first record: the slots that the  *)
(* rest of it names stay written.                                          *)
LEMMA WrittenShrinks ==
    ASSUME TypeInv, NEW t \in Txns, erase_entry(t)
    PROVE  /\ \A u \in Txns : u # t => Written(u)' = Written(u)
           /\ \A r \in Written(t) :
                 \/ r \in Written(t)'
                 \/ r = Head(write_set[t]).rid /\ Head(write_set[t]).type \in TupleWrites
<1> DEFINE ws == write_set[t]
<1>1. /\ ws \in Seq(WriteRecords) /\ ws # << >>
      /\ write_set' = [write_set EXCEPT ![t] = Tail(ws)]
      /\ write_set \in [Txns -> Seq(WriteRecords)]
  BY DEF erase_entry, TypeInv, ThreadTypes
<1>2. write_set'[t] = Tail(ws) /\ \A u \in Txns : u # t => write_set'[u] = write_set[u]
  BY <1>1
<1>3. \A u \in Txns : u # t => Written(u)' = Written(u)
  BY <1>2 DEF Written
<1>4. ASSUME NEW r \in Written(t), r \notin Written(t)'
      PROVE  r = Head(ws).rid /\ Head(ws).type \in TupleWrites
  <2>1. PICK i \in DOMAIN ws : ws[i].rid = r /\ ws[i].type \in TupleWrites
    BY DEF Written, TupleWrites
  <2> HIDE DEF ws
  <2>2. CASE i = 1
    BY <1>1, <2>1, <2>2
  <2>3. CASE i # 1
    <3>1. i - 1 \in DOMAIN Tail(ws) /\ Tail(ws)[i - 1] = ws[i]
      BY <1>1, <2>3
    <3>2. r \in Written(t)'
      BY <1>2, <2>1, <3>1 DEF Written, TupleWrites
    <3> QED
      BY <1>4, <3>2
  <2> QED
    BY <2>2, <2>3
<1> QED
  BY <1>3, <1>4

(* Every step preserves EntriesHaveWriters. *)
LEMMA NextEntries ==
    ASSUME TypeInv, EntriesHaveWriters, NEW t \in Txns, Step(t)
    PROVE  EntriesHaveWriters'
<1> DEFINE Made(r) == \E u \in Txns : mvcc_map[r].t_xmin = -u /\ r \in Written(u)
           Through(u) == pc[u] \in {"committed", "abort_unlock", "aborted"} => write_set[u] = << >>
<1>1. \A u \in Txns : u # t => Same(u)
  BY OthersStay
<1>2. ASSUME UNCHANGED <<mvcc_map, write_set>>, Through(t)'
      PROVE  EntriesHaveWriters'
  <2>1. \A u \in Txns : Written(u)' = Written(u)
    BY <1>2 DEF Written
  <2> QED
    BY <1>1, <1>2, <2>1 DEF EntriesHaveWriters, Same
<1>3. ASSUME NEW w \in WriteRecords, append_write_record(t, w),
             pc'[t] \notin {"committed", "abort_unlock", "aborted"},
             \/ UNCHANGED mvcc_map
             \/ mvcc_map' = MM!insert_record(mvcc_map, w.rid, t) /\ w.type \in TupleWrites
      PROVE  EntriesHaveWriters'
  <2>1. /\ \A u \in Txns : Written(u) \subseteq Written(u)'
        /\ w.type \in TupleWrites => w.rid \in Written(t)'
    BY <1>3, WrittenGrows
  <2>2. CASE UNCHANGED mvcc_map
    BY <1>1, <1>3, <2>1, <2>2 DEF EntriesHaveWriters, Same
  <2>3. CASE mvcc_map' = MM!insert_record(mvcc_map, w.rid, t) /\ w.type \in TupleWrites
    <3>1. /\ DOMAIN mvcc_map' = DOMAIN mvcc_map \cup {w.rid}
          /\ \A r \in DOMAIN mvcc_map' :
                IF r = w.rid THEN mvcc_map'[r].t_xmin = -t
                             ELSE mvcc_map'[r] = mvcc_map[r]
      BY <2>3 DEF MM!insert_record
    <3> QED
      BY <1>1, <1>3, <2>1, <2>3, <3>1 DEF EntriesHaveWriters, Same
  <2> QED
    BY <1>3, <2>2, <2>3
<1> USE DEF TypeInv, ThreadTypes, GoTo, data, local
<1>4. CASE Client(t)
  BY <1>2, <1>4 DEF Client, begin, Statement, InsertStatement, SetTransaction
<1>5. CASE commit(t) \/ abort(t)
  BY <1>2, <1>5 DEF commit, abort
<1>6. CASE \E r \in Rids : lock_record(t, r) \/ scan_record(t, r)
  BY <1>2, <1>6 DEF lock_record, scan_record
<1>7. CASE \E r \in Rids : unlock(t, r)
  BY <1>2, <1>7 DEF unlock, EntriesHaveWriters
<1>8. CASE visit(t) \/ get_record(t) \/ check_head(t) \/ is_unique(t)
  BY <1>2, <1>8 DEF visit, get_record, check_head, is_unique, RowDone, Fail, Throw
<1>9. CASE update_version(t) \/ update_record(t) \/ insert_record(t)
  BY <1>2, <1>9 DEF update_version, update_record, insert_record, Fail, Throw
<1>10. CASE undone(t) \/ erased(t) \/ finish_commit(t) \/ finish_abort(t)
  BY <1>2, <1>10 DEF undone, erased, finish_commit, finish_abort, EntriesHaveWriters
<1>11. CASE commit_mvcc_versions(t) \/ rollback_single_operation(t)
  BY <1>2, <1>11 DEF commit_mvcc_versions, rollback_single_operation
<1>12. CASE delete_entry(t)
  <2>1. WriteRecord("IX_DELETE", cur[t], Row(rec[t].key, {})) \in WriteRecords
    BY <1>12 DEF delete_entry, WriteRecord, WriteRecords, Row, Rows, OnRecord
  <2> QED
    BY <1>3, <1>12, <2>1 DEF delete_entry
<1>13. CASE delete_version(t)
  <2>1. WriteRecord("DELETE", cur[t], rec[t]) \in WriteRecords
    BY <1>13 DEF delete_version, WriteRecord, WriteRecords, OnRecord
  <2>2. CASE append_write_record(t, WriteRecord("DELETE", cur[t], rec[t])) /\ RowDone(t)
    BY <1>3, <1>13, <2>1, <2>2 DEF delete_version, RowDone
  <2>3. CASE Throw(t) /\ UNCHANGED write_set
    BY <1>2, <1>13, <2>3 DEF delete_version, Throw
  <2> QED
    BY <1>13, <2>2, <2>3 DEF delete_version
<1>14. CASE update_record_map(t)
  <2>1. /\ WriteRecord("UPDATE", cur[t], rec[t]) \in WriteRecords
        /\ WriteRecord("UPDATE", cur[t], rec[t]).type \in TupleWrites
        /\ WriteRecord("UPDATE", cur[t], rec[t]).rid = cur[t]
    BY <1>14 DEF update_record_map, WriteRecord, WriteRecords, OnRecord, TupleWrites
  <2> QED
    BY <1>3, <1>14, <2>1 DEF update_record_map, RowDone
<1>15. CASE insert_record_map(t)
  <2> DEFINE w == WriteRecord("INSERT", cur[t], Row(stmt[t].key, {t}))
  <2>1. w \in WriteRecords /\ w.type \in TupleWrites /\ w.rid = cur[t]
    BY <1>15 DEF insert_record_map, WriteRecord, WriteRecords, OnRecord, TupleWrites,
                 Row, Rows, Statements
  <2> QED
    BY <1>3, <1>15, <2>1 DEF insert_record_map
<1>16. CASE insert_entry(t)
  <2>1. WriteRecord("IX_INSERT", cur[t], Row(stmt[t].key, {})) \in WriteRecords
    BY <1>16 DEF insert_entry, WriteRecord, WriteRecords, OnRecord, Row, Rows, Statements
  <2> QED
    BY <1>3, <1>16, <2>1 DEF insert_entry
<1>17. CASE erase_entry(t)
  <2> DEFINE w == Head(write_set[t])
  <2>1. mvcc_map' = IF w.type \in TupleWrites THEN MM!commit_mvcc(mvcc_map, w.rid) ELSE mvcc_map
    BY <1>17 DEF erase_entry, TupleWrites
  <2>2. /\ \A u \in Txns : u # t => Written(u)' = Written(u)
        /\ \A r \in Written(t) : r \in Written(t)' \/ (r = w.rid /\ w.type \in TupleWrites)
    BY <1>17, WrittenShrinks
  <2>3. \A r \in DOMAIN mvcc_map' : /\ r \in DOMAIN mvcc_map
                                    /\ mvcc_map'[r] = mvcc_map[r]
                                    /\ ~(r = w.rid /\ w.type \in TupleWrites)
    BY <2>1 DEF MM!commit_mvcc
  <2>4. pc' = pc /\ pc[t] \in {"erase", "abort_erase"}
    BY <1>17 DEF erase_entry
  <2> HIDE DEF w
  <2>5. ASSUME NEW r \in DOMAIN mvcc_map'
        PROVE  \E u \in Txns : mvcc_map'[r].t_xmin = -u /\ r \in Written(u)'
    <3>1. PICK u \in Txns : mvcc_map[r].t_xmin = -u /\ r \in Written(u)
      BY <2>3, <2>5 DEF EntriesHaveWriters
    <3>2. r \in Written(u)'
      BY <2>2, <2>3, <2>5, <3>1
    <3> QED
      BY <2>3, <2>5, <3>1, <3>2
  <2>6. ASSUME NEW u \in Txns, pc'[u] \in {"committed", "abort_unlock", "aborted"}
        PROVE  write_set'[u] = << >>
    BY <1>1, <2>4, <2>6 DEF EntriesHaveWriters, Same
  <2> QED
    BY <2>5, <2>6 DEF EntriesHaveWriters
<1> QED
  BY <1>4, <1>5, <1>6, <1>7, <1>8, <1>9, <1>10, <1>11, <1>12, <1>13, <1>14, <1>15, <1>16,
     <1>17 DEF Step, Server

-----------------------------------------------------------------------------
(* Without INSERT no slot is filled or freed, every record a statement     *)
(* works on is a loaded one, and only writers get beyond "get".            *)

Writing == {"index", "check", "version", "heap", "map"}

Updating(t) ==
    /\ pc[t] \notin {"unique", "slot", "slot_map", "entry"}
    /\ pc[t] \in Writing => stmt[t].kind # "read"
    /\ stmt[t].rids \subseteq Loaded
    /\ pc[t] \in OnRecord => cur[t] \in Loaded
    /\ \A i \in DOMAIN write_set[t] :
          /\ write_set[t][i].type \in {"UPDATE", "DELETE", "IX_DELETE"}
          /\ write_set[t][i].rid \in Loaded

NoInserts ==
    /\ \A r \in Rids : heap[r].used <=> r \in Loaded
    /\ \A t \in Txns : Updating(t)

(* At the start the loaded slots are used, the others free. *)
LEMMA InitNoInserts == Init => NoInserts
<1> SUFFICES ASSUME Init PROVE NoInserts
  OBVIOUS
<1>1. \A r \in Rids : heap[r].used <=> r \in Loaded
  BY DEF Init
<1>2. \A t \in Txns : Updating(t)
  BY DEF Init, Updating, NoStmt, Writing, OnRecord
<1> QED
  BY <1>1, <1>2 DEF NoInserts

(* The slots stay used or free. *)
LEMMA SlotsStay ==
    ASSUME TypeInv, NoInserts, NEW t \in Txns, Step(t)
    PROVE  \A r \in Rids : heap'[r].used = heap[r].used
<1>1. CASE UNCHANGED heap
  BY <1>1
<1>2. CASE update_record(t)
  <2> DEFINE slot == heap[cur[t]]
             row  == Updated(t)
  <2>1. cur[t] \in Rids /\ heap \in [Rids -> [used : BOOLEAN, row : Rows]]
    BY <1>2 DEF update_record, TypeInv, SharedTypes, ThreadTypes, OnRecord
  <2>2. heap' = heap \/ heap' = [heap EXCEPT ![cur[t]] = [slot EXCEPT !.row = row]]
    BY <1>2 DEF update_record
  <2>3. slot \in [used : BOOLEAN, row : Rows]
    BY <2>1
  <2>4. [slot EXCEPT !.row = row].used = slot.used
    BY <2>3
  <2> QED
    BY <2>1, <2>2, <2>4
<1>3. CASE rollback_single_operation(t)
  <2>1. pos[t] \in 1 .. Len(write_set[t]) /\ write_set[t] \in Seq(WriteRecords)
    BY <1>3 DEF rollback_single_operation, TypeInv, ThreadTypes
  <2>2. write_set[t][pos[t]] \in WriteRecords /\ pos[t] \in DOMAIN write_set[t]
    BY <2>1
  <2>3. write_set[t][pos[t]].type # "INSERT"
    BY <2>2 DEF NoInserts, Updating
  <2> QED
    BY <1>3, <2>2, <2>3, UndoTypes DEF rollback_single_operation
<1>4. CASE insert_record(t)
  BY <1>4 DEF insert_record, NoInserts, Updating
<1> QED
  BY <1>1, <1>2, <1>3, <1>4, Zenon
     DEF Step, Server, Client, begin, Statement, InsertStatement, SetTransaction, commit, abort,
         lock_record, scan_record, visit, get_record, delete_entry, check_head, update_version,
         delete_version, update_record_map, is_unique, insert_record_map, insert_entry,
         commit_mvcc_versions, erase_entry, finish_commit, unlock, undone, erased, finish_abort,
         data

(* Every step preserves NoInserts, if clients issue no INSERT. *)
LEMMA NextNoInserts ==
    ASSUME "insert" \notin Kinds, TypeInv, NoInserts, NEW t \in Txns, Step(t)
    PROVE  NoInserts'
<1>1. \A r \in Rids : heap'[r].used = heap[r].used
  BY SlotsStay
<1>2. \A u \in Txns : u # t => Same(u)
  BY OthersStay
<1>3. SUFFICES Updating(t)'
  BY <1>1, <1>2 DEF NoInserts, Updating, Same
<1>4. Updating(t) /\ pc \in [Txns -> Steps]
  BY DEF NoInserts, TypeInv, ThreadTypes
<1>5. ASSUME RowDone(t) \/ Fail(t)
      PROVE  /\ stmt'[t].rids \subseteq Loaded
             /\ pc'[t] \in {"idle", "row"}
  BY <1>4, <1>5, RowEnds DEF Updating
<1>6. ASSUME NEW w \in WriteRecords, append_write_record(t, w),
             w.type \in {"UPDATE", "DELETE", "IX_DELETE"}, w.rid \in Loaded
      PROVE  \A i \in DOMAIN write_set'[t] :
                /\ write_set'[t][i].type \in {"UPDATE", "DELETE", "IX_DELETE"}
                /\ write_set'[t][i].rid \in Loaded
  <2>1. /\ Len(write_set[t]) \in Nat
        /\ DOMAIN write_set'[t] = 1 .. (Len(write_set[t]) + 1)
        /\ DOMAIN write_set[t] = 1 .. Len(write_set[t])
        /\ \A i \in DOMAIN write_set[t] : write_set'[t][i] = write_set[t][i]
        /\ write_set'[t][Len(write_set[t]) + 1] = w
    BY <1>6, Appended
  <2>2. ASSUME NEW i \in DOMAIN write_set'[t]
        PROVE  i \in DOMAIN write_set[t] \/ i = Len(write_set[t]) + 1
    BY <2>1
  <2> QED
    BY <1>4, <1>6, <2>1, <2>2 DEF Updating
<1>7. \A s \in Steps : GoTo(t, s) => pc'[t] = s
  BY <1>4 DEF GoTo
<1>8. rec[t] \in Rows /\ (pc[t] \in OnRecord => cur[t] \in Rids)
  BY DEF TypeInv, ThreadTypes
<1> USE <1>4, <1>7 DEF Updating, Writing, OnRecord, Steps, local
<1>9. CASE Client(t)
  <2>1. CASE begin(t)
    BY <2>1 DEF begin
  <2>2. CASE Statement(t)
    <3>1. PICK kind \in Kinds \ {"insert"}, rids \in SUBSET {r \in Rids : heap[r].used} :
             stmt' = [stmt EXCEPT ![t] = [kind |-> kind, key |-> NoRid, rids |-> rids]]
      BY <2>2 DEF Statement
    <3>2. stmt'[t].rids = rids /\ rids \subseteq Loaded
      BY <3>1 DEF NoInserts, TypeInv, ThreadTypes
    <3> QED
      BY <2>2, <3>2 DEF Statement, SetTransaction
  <2>3. CASE InsertStatement(t)
    BY <2>3 DEF InsertStatement
  <2> QED
    BY <1>9, <2>1, <2>2, <2>3 DEF Client
<1>10. CASE commit(t) \/ abort(t) \/ commit_mvcc_versions(t)
  BY <1>10 DEF commit, abort, commit_mvcc_versions
<1>11. ASSUME NEW r \in Rids, lock_record(t, r) \/ scan_record(t, r)
       PROVE  Updating(t)'
  <2>1. cur'[t] = r /\ r \in Loaded
    BY <1>11 DEF lock_record, scan_record, TypeInv, ThreadTypes
  <2> QED
    BY <1>11, <2>1 DEF lock_record, scan_record
<1>12. ASSUME NEW r \in Rids, unlock(t, r)
       PROVE  Updating(t)'
  BY <1>12 DEF unlock
<1>13. CASE visit(t)
  BY <1>5, <1>13 DEF visit
<1>14. CASE get_record(t)
  BY <1>5, <1>14 DEF get_record
<1>15. CASE check_head(t)
  BY <1>15 DEF check_head, Throw
<1>16. CASE delete_entry(t)
  <2> DEFINE w == WriteRecord("IX_DELETE", cur[t], Row(rec[t].key, {}))
  <2>1. w \in WriteRecords /\ w.type = "IX_DELETE" /\ w.rid = cur[t]
    BY <1>8, <1>16 DEF delete_entry, WriteRecord, WriteRecords, Row, Rows
  <2> QED
    BY <1>6, <1>16, <2>1 DEF delete_entry
<1>17. CASE update_version(t)
  BY <1>17 DEF update_version, Throw
<1>18. CASE delete_version(t)
  <2> DEFINE w == WriteRecord("DELETE", cur[t], rec[t])
  <2>1. w \in WriteRecords /\ w.type = "DELETE" /\ w.rid = cur[t]
    BY <1>8, <1>18 DEF delete_version, WriteRecord, WriteRecords
  <2>2. CASE append_write_record(t, w) /\ RowDone(t)
    BY <1>5, <1>6, <1>18, <2>1, <2>2 DEF delete_version
  <2>3. CASE Throw(t) /\ UNCHANGED write_set
    BY <1>18, <2>3 DEF delete_version, Throw
  <2> QED
    BY <1>18, <2>2, <2>3 DEF delete_version
<1>19. CASE update_record(t)
  BY <1>5, <1>19 DEF update_record
<1>20. CASE update_record_map(t)
  <2> DEFINE w == WriteRecord("UPDATE", cur[t], rec[t])
  <2>1. w \in WriteRecords /\ w.type = "UPDATE" /\ w.rid = cur[t]
    BY <1>8, <1>20 DEF update_record_map, WriteRecord, WriteRecords
  <2> QED
    BY <1>5, <1>6, <1>20, <2>1 DEF update_record_map
<1>21. CASE is_unique(t) \/ insert_record(t) \/ insert_record_map(t) \/ insert_entry(t)
  BY <1>21 DEF is_unique, insert_record, insert_record_map, insert_entry
<1>22. CASE erase_entry(t)
  <2>1. write_set[t] \in Seq(WriteRecords) /\ write_set[t] # << >>
    BY <1>22 DEF erase_entry, TypeInv, ThreadTypes
  <2>2. write_set'[t] = Tail(write_set[t])
    BY <1>22 DEF erase_entry, TypeInv, ThreadTypes
  <2>3. \A i \in DOMAIN Tail(write_set[t]) :
           i + 1 \in DOMAIN write_set[t] /\ Tail(write_set[t])[i] = write_set[t][i + 1]
    BY <2>1
  <2> QED
    BY <1>22, <2>2, <2>3 DEF erase_entry
<1>23. CASE finish_commit(t) \/ undone(t) \/ erased(t) \/ finish_abort(t)
  BY <1>23 DEF finish_commit, undone, erased, finish_abort
<1>24. CASE rollback_single_operation(t)
  BY <1>24 DEF rollback_single_operation
<1> QED
  BY <1>9, <1>10, <1>11, <1>12, <1>13, <1>14, <1>15, <1>16, <1>17, <1>18, <1>19, <1>20,
     <1>21, <1>22, <1>23, <1>24, Zenon DEF Step, Server

-----------------------------------------------------------------------------
(* A writer holds the X lock of the record it works on, and of every       *)
(* record it has written until commit or abort starts to unlock.           *)

AtRecord(t) == pc[t] \in {"visit", "get"} \cup Writing /\ stmt[t].kind # "read"

Active(t) == pc[t] \in Working \cup {"throw"}

Unended(t) == Active(t) \/ pc[t] \in {"versions", "undo", "abort_erase"}

Locked(t) ==
    /\ AtRecord(t) => LockedX(t, cur[t])
    /\ Unended(t) => \A r \in Written(t) : LockedX(t, r)

LocksHeld == \A t \in Txns : Locked(t)

(* At the start nothing has been written. *)
LEMMA InitLocksHeld == Init => LocksHeld
  BY DEF Init, LocksHeld, Locked, AtRecord, Writing, Written

(* Only the release loop takes a lock from its holder. *)
LEMMA LocksStay ==
    ASSUME LM!LockInv, NEW t \in Txns, Step(t),
           NEW u \in Txns, NEW s \in Rids, LockedX(u, s),
           u = t => pc[t] \notin {"unlock", "abort_unlock"}
    PROVE  LockedX(u, s)'
<1>1. CASE UNCHANGED lock_table
  BY <1>1 DEF LockedX, LM!HoldsMode
<1>2. ASSUME NEW r \in Rids, lock_record(t, r)
      PROVE  LockedX(u, s)'
  BY <1>2, RequestKeepsLocks DEF lock_record
<1>3. ASSUME NEW r \in Rids, unlock(t, r)
      PROVE  LockedX(u, s)'
  BY <1>3, ReleaseKeepsLocks DEF unlock
<1> QED
  BY <1>1, <1>2, <1>3, Zenon
     DEF Step, Server, Client, begin, Statement, InsertStatement, SetTransaction, commit, abort,
         scan_record, visit, get_record, delete_entry, check_head, update_version,
         delete_version, update_record, update_record_map, is_unique, insert_record,
         insert_record_map, insert_entry,
         commit_mvcc_versions, erase_entry, finish_commit, undone, erased, finish_abort,
         rollback_single_operation, lockVars

(* What an append adds to the written records: the record of a tuple write *)
LEMMA WrittenAppend ==
    ASSUME TypeInv, NEW t \in Txns, NEW w \in WriteRecords, append_write_record(t, w),
           NEW r \in Written(t)'
    PROVE  r \in Written(t) \/ (w.type \in TupleWrites /\ r = w.rid)
<1>1. /\ Len(write_set[t]) \in Nat
      /\ DOMAIN write_set'[t] = 1 .. (Len(write_set[t]) + 1)
      /\ DOMAIN write_set[t] = 1 .. Len(write_set[t])
      /\ \A i \in DOMAIN write_set[t] : write_set'[t][i] = write_set[t][i]
      /\ write_set'[t][Len(write_set[t]) + 1] = w
  BY Appended
<1>2. PICK i \in DOMAIN write_set'[t] :
         write_set'[t][i].rid = r /\ write_set'[t][i].type \in TupleWrites
  BY DEF Written, TupleWrites
<1>3. i \in DOMAIN write_set[t] \/ i = Len(write_set[t]) + 1
  BY <1>1, <1>2
<1> QED
  BY <1>1, <1>2, <1>3 DEF Written, TupleWrites

(* The records a transaction has written are records of the table. *)
LEMMA WrittenAreRecords ==
    ASSUME TypeInv, NEW t \in Txns
    PROVE  Written(t) \subseteq Rids
<1>1. write_set[t] \in Seq(WriteRecords)
  BY DEF TypeInv, ThreadTypes
<1>2. \A i \in DOMAIN write_set[t] : write_set[t][i].rid \in Rids
  <2>1. \A i \in DOMAIN write_set[t] : write_set[t][i] \in WriteRecords
    BY <1>1
  <2> QED
    BY <2>1 DEF WriteRecords
<1> QED
  BY <1>2 DEF Written

(* Every step preserves LocksHeld: one case per action. *)
LEMMA NextLocksHeld ==
    ASSUME LM!LockInv, TypeInv, NoInserts, LocksHeld, NEW t \in Txns, Step(t)
    PROVE  LocksHeld'
<1>1. \A u \in Txns : u # t => Same(u)
  BY OthersStay
<1>2. ASSUME NEW u \in Txns, u # t
      PROVE  Locked(u)'
  <2>1. Same(u) /\ Locked(u) /\ Written(u)' = Written(u) /\ Written(u) \subseteq Rids
    BY <1>1, <1>2, WrittenAreRecords DEF LocksHeld, Same, Written
  <2>2. AtRecord(u) => cur[u] \in Rids
    BY DEF AtRecord, Writing, TypeInv, ThreadTypes, OnRecord
  <2>3. \A s \in Rids : LockedX(u, s) => LockedX(u, s)'
    BY <1>2, LocksStay
  <2> QED
    BY <2>1, <2>2, <2>3 DEF Locked, AtRecord, Unended, Active, Same
<1>3. SUFFICES Locked(t)'
  BY <1>2 DEF LocksHeld
<1>4. Locked(t) /\ Updating(t) /\ pc \in [Txns -> Steps] /\ Written(t) \subseteq Rids
  BY WrittenAreRecords DEF LocksHeld, NoInserts, TypeInv, ThreadTypes
<1>5. pc[t] \notin {"unlock", "abort_unlock"} => \A s \in Rids : LockedX(t, s) => LockedX(t, s)'
  BY LocksStay
<1>6. \A s \in Steps : GoTo(t, s) => pc'[t] = s
  BY <1>4 DEF GoTo
<1>7. ASSUME pc[t] \notin {"unlock", "abort_unlock"}, Written(t)' = Written(t),
             Unended(t)' => Unended(t),
             AtRecord(t)' => \/ LockedX(t, cur[t])'
                             \/ cur'[t] \in Rids /\ LockedX(t, cur'[t])
      PROVE  Locked(t)'
  <2>1. AtRecord(t)' => LockedX(t, cur[t])'
    BY <1>5, <1>7 DEF LockedX, LM!HoldsMode
  <2>2. Unended(t)' => \A r \in Written(t)' : LockedX(t, r)'
    BY <1>4, <1>5, <1>7 DEF Locked
  <2> QED
    BY <2>1, <2>2 DEF Locked
<1>8. ASSUME RowDone(t) \/ Fail(t)
      PROVE  pc'[t] \in {"idle", "row"}
  BY <1>4, <1>8, RowEnds
<1>9. UNCHANGED write_set => Written(t)' = Written(t)
  BY DEF Written
<1>10. AtRecord(t) => cur[t] \in Rids /\ LockedX(t, cur[t])
  BY <1>4 DEF AtRecord, Writing, TypeInv, ThreadTypes, OnRecord, Locked
<1>11. ASSUME NEW w \in WriteRecords, append_write_record(t, w), AtRecord(t), Unended(t),
              w.rid = cur[t], UNCHANGED cur
       PROVE  Locked(t)'
  <2>1. \A r \in Written(t)' : r \in Written(t) \/ r = cur[t]
    BY <1>11, WrittenAppend
  <2>2. pc[t] \notin {"unlock", "abort_unlock"}
    BY <1>11 DEF AtRecord, Writing
  <2> QED
    BY <1>4, <1>5, <1>10, <1>11, <2>1, <2>2 DEF Locked
<1>12. rec[t] \in Rows
  BY DEF TypeInv, ThreadTypes
<1> USE <1>4, <1>6, <1>9, <1>10 DEF Updating, AtRecord, Unended, Active, Working, Writing, Steps, local
<1>13. CASE Client(t)
  BY <1>7, <1>13 DEF Client, begin, Statement, InsertStatement, SetTransaction
<1>14. CASE commit(t) \/ abort(t)
  BY <1>7, <1>14 DEF commit, abort
<1>15. CASE commit_mvcc_versions(t)
  BY <1>7, <1>15 DEF commit_mvcc_versions
<1>16. ASSUME NEW r \in Rids, lock_record(t, r)
       PROVE  Locked(t)'
  <2>1. cur'[t] = r
    BY <1>16 DEF lock_record, TypeInv, ThreadTypes
  <2>2. pc'[t] = "throw" \/ LockedX(t, r)'
    BY <1>16, RequestKeepsLocks DEF lock_record
  <2>3. pc'[t] = "throw" \/ LockedX(t, cur[t])'
    BY <2>1, <2>2 DEF LockedX, LM!HoldsMode
  <2>4. pc'[t] \in {"throw", "visit"} /\ pc[t] = "row" /\ UNCHANGED write_set
    BY <1>16 DEF lock_record
  <2> QED
    BY <1>7, <2>3, <2>4
<1>17. ASSUME NEW r \in Rids, scan_record(t, r)
       PROVE  Locked(t)'
  BY <1>7, <1>17 DEF scan_record
<1>18. ASSUME NEW r \in Rids, unlock(t, r)
       PROVE  Locked(t)'
  <2>1. pc'[t] \in {"unlock", "abort_unlock", "erase"}
    BY <1>18 DEF unlock
  <2> QED
    BY <2>1 DEF Locked
<1>19. CASE visit(t)
  BY <1>7, <1>8, <1>19 DEF visit
<1>20. CASE get_record(t)
  BY <1>7, <1>8, <1>20 DEF get_record
<1>21. CASE check_head(t)
  BY <1>7, <1>21 DEF check_head, Throw
<1>22. CASE delete_entry(t)
  <2> DEFINE w == WriteRecord("IX_DELETE", cur[t], Row(rec[t].key, {}))
  <2>1. w \in WriteRecords /\ w.rid = cur[t]
    BY <1>12, <1>22 DEF delete_entry, WriteRecord, WriteRecords, Row, Rows
  <2>2. pc[t] = "index" /\ append_write_record(t, w) /\ UNCHANGED cur
    BY <1>22 DEF delete_entry
  <2> HIDE DEF w
  <2> QED
    BY <1>11, <2>1, <2>2
<1>23. CASE update_version(t)
  BY <1>7, <1>23 DEF update_version, Throw
<1>24. CASE delete_version(t)
  <2> DEFINE w == WriteRecord("DELETE", cur[t], rec[t])
  <2>1. w \in WriteRecords /\ w.rid = cur[t] /\ pc[t] = "version" /\ UNCHANGED cur
    BY <1>12, <1>24 DEF delete_version, WriteRecord, WriteRecords
  <2>2. append_write_record(t, w) \/ (Throw(t) /\ UNCHANGED write_set)
    BY <1>24 DEF delete_version
  <2> HIDE DEF w
  <2> QED
    BY <1>7, <1>11, <2>1, <2>2 DEF Throw
<1>25. CASE update_record(t)
  BY <1>7, <1>8, <1>25 DEF update_record
<1>26. CASE update_record_map(t)
  <2> DEFINE w == WriteRecord("UPDATE", cur[t], rec[t])
  <2>1. w \in WriteRecords /\ w.rid = cur[t]
    BY <1>12, <1>26 DEF update_record_map, WriteRecord, WriteRecords
  <2>2. pc[t] = "map" /\ append_write_record(t, w) /\ UNCHANGED cur
    BY <1>26 DEF update_record_map
  <2> HIDE DEF w
  <2> QED
    BY <1>11, <2>1, <2>2
<1>27. CASE is_unique(t) \/ insert_record(t) \/ insert_record_map(t) \/ insert_entry(t)
  BY <1>27 DEF is_unique, insert_record, insert_record_map, insert_entry
<1>28. CASE erase_entry(t)
  <2>1. Written(t)' \subseteq Written(t)
    <3>1. write_set[t] \in Seq(WriteRecords) /\ write_set[t] # << >>
      BY <1>28 DEF erase_entry, TypeInv, ThreadTypes
    <3>2. write_set'[t] = Tail(write_set[t])
      BY <1>28 DEF erase_entry, TypeInv, ThreadTypes
    <3>3. \A i \in DOMAIN Tail(write_set[t]) :
             i + 1 \in DOMAIN write_set[t] /\ Tail(write_set[t])[i] = write_set[t][i + 1]
      BY <3>1
    <3> QED
      BY <3>2, <3>3 DEF Written
  <2>2. pc[t] \in {"erase", "abort_erase"} /\ UNCHANGED <<pc, stmt, cur>>
    BY <1>28 DEF erase_entry
  <2> QED
    BY <1>5, <2>1, <2>2 DEF Locked
<1>29. CASE finish_commit(t)
  BY <1>7, <1>29 DEF finish_commit
<1>30. CASE undone(t)
  BY <1>7, <1>30 DEF undone
<1>31. CASE erased(t)
  BY <1>7, <1>31 DEF erased
<1>32. CASE finish_abort(t)
  BY <1>32 DEF finish_abort, Locked
<1>33. CASE rollback_single_operation(t)
  BY <1>7, <1>33 DEF rollback_single_operation
<1> QED
  BY <1>13, <1>14, <1>15, <1>16, <1>17, <1>18, <1>19, <1>20, <1>21, <1>22, <1>23, <1>24,
     <1>25, <1>26, <1>27, <1>28, <1>29, <1>30, <1>31, <1>32, <1>33, Zenon DEF Step, Server

-----------------------------------------------------------------------------
(* Uncommitted versions.  Their transaction has not ended and has noted    *)
(* the write, or is about to; they are above the committed versions and of *)
(* one transaction; a version above an uncommitted one is a deletion.      *)

Owns(t, r) ==
    /\ t \in Txns
    /\ Active(t) \/ pc[t] = "versions"
    /\ r \in Written(t) \/ (pc[t] \in {"heap", "map"} /\ cur[t] = r)

Pending(r) ==
    /\ \A i \in DOMAIN chains[r] :
          VC!Uncommitted(chains[r][i]) =>
             /\ Owns(chains[r][i].txn_id, r)
             /\ \A j \in 1 .. i : VC!UncommittedOf(chains[r][j], chains[r][i].txn_id)
    /\ \A i, j \in DOMAIN chains[r] :
          i < j /\ VC!Uncommitted(chains[r][j]) => chains[r][i].is_deleted

(* At the start the chains are empty. *)
LEMMA InitPending == Init => \A r \in Rids : Pending(r)
  BY DEF Init, Pending

(* The owner of an uncommitted version has the record locked. *)
LEMMA OwnersLock ==
    ASSUME TypeInv, NoInserts, LocksHeld, NEW r \in Rids, NEW t, Owns(t, r)
    PROVE  LockedX(t, r)
<1>1. t \in Txns /\ Locked(t) /\ Updating(t)
  BY DEF Owns, LocksHeld, NoInserts
<1> QED
  BY <1>1 DEF Owns, Locked, Updating, AtRecord, Writing, Unended

(* A transaction loses a version it owns only to commit and to rollback:   *)
(* an update that has made its version also finds the slot and notes it.   *)
LEMMA OwnersStay ==
    ASSUME TypeInv, NoInserts, NEW t \in Txns, Step(t), NEW u, NEW r \in Rids, Owns(u, r)
    PROVE  Owns(u, r)' \/ (u = t /\ (commit_mvcc_versions(t) \/ abort(t)))
<1>1. CASE u # t
  <2>1. u \in Txns /\ Same(u)
    BY <1>1, OthersStay DEF Owns
  <2>2. Written(u)' = Written(u)
    BY <2>1 DEF Written, Same
  <2> QED
    BY <2>1, <2>2 DEF Owns, Active, Same
<1>2. CASE u = t
  <2>1. Updating(t) /\ pc \in [Txns -> Steps] /\ (Active(t) \/ pc[t] = "versions")
    BY <1>2 DEF NoInserts, TypeInv, ThreadTypes, Owns
  <2>2. \A s \in Steps : GoTo(t, s) => pc'[t] = s
    BY <2>1 DEF GoTo
  <2>3. ASSUME Written(t) \subseteq Written(t)', Active(t)' \/ pc'[t] = "versions",
               \/ pc[t] \notin {"heap", "map"}
               \/ cur[t] \in Written(t)'
               \/ pc'[t] = "map" /\ cur'[t] = cur[t]
        PROVE  Owns(t, r)'
    BY <1>2, <2>3 DEF Owns
  <2>4. UNCHANGED write_set => Written(t)' = Written(t)
    BY DEF Written
  <2>5. ASSUME RowDone(t) \/ Fail(t)
        PROVE  pc'[t] \in {"idle", "row"}
    BY <2>5, RowEnds, <2>1
  <2>6. /\ rec[t] \in Rows
        /\ pc[t] \in OnRecord => cur[t] \in Rids /\ heap[cur[t]].used
    BY <2>1, LoadedRecords DEF TypeInv, ThreadTypes, NoInserts, Updating
  <2> USE <1>2, <2>1, <2>2, <2>4 DEF Updating, Active, Working, Steps, local
  <2>7. CASE Client(t)
    BY <2>3, <2>7 DEF Client, begin, Statement, InsertStatement, SetTransaction
  <2>8. CASE commit(t)
    BY <2>3, <2>8 DEF commit
  <2>9. ASSUME NEW s \in Rids, lock_record(t, s) \/ scan_record(t, s)
        PROVE  Owns(t, r)'
    BY <2>3, <2>9 DEF lock_record, scan_record
  <2>10. ASSUME NEW s \in Rids, unlock(t, s)
         PROVE  FALSE
    BY <2>10 DEF unlock
  <2>11. CASE visit(t) \/ get_record(t) \/ check_head(t)
    BY <2>3, <2>5, <2>11 DEF visit, get_record, check_head, Throw
  <2>12. CASE delete_entry(t)
    <3> DEFINE w == WriteRecord("IX_DELETE", cur[t], Row(rec[t].key, {}))
    <3>1. w \in WriteRecords
      BY <2>6, <2>12 DEF delete_entry, WriteRecord, WriteRecords, Row, Rows, OnRecord
    <3> QED
      BY <2>3, <2>12, <3>1, WrittenGrows DEF delete_entry
  <2>13. CASE update_version(t)
    BY <2>3, <2>13 DEF update_version, Throw
  <2>14. CASE delete_version(t)
    <3> DEFINE w == WriteRecord("DELETE", cur[t], rec[t])
    <3>1. w \in WriteRecords
      BY <2>6, <2>14 DEF delete_version, WriteRecord, WriteRecords, OnRecord
    <3>2. CASE append_write_record(t, w) /\ RowDone(t)
      BY <2>3, <2>5, <2>14, <3>1, <3>2, WrittenGrows DEF delete_version
    <3>3. CASE Throw(t) /\ UNCHANGED write_set
      BY <2>3, <2>14, <3>3 DEF delete_version, Throw
    <3> QED
      BY <2>14, <3>2, <3>3 DEF delete_version
  <2>15. CASE update_record(t)
    BY <2>3, <2>6, <2>15 DEF update_record, OnRecord
  <2>16. CASE update_record_map(t)
    <3> DEFINE w == WriteRecord("UPDATE", cur[t], rec[t])
    <3>1. w \in WriteRecords /\ w.type \in TupleWrites /\ w.rid = cur[t]
      BY <2>6, <2>16 DEF update_record_map, WriteRecord, WriteRecords, OnRecord, TupleWrites
    <3>2. append_write_record(t, w) /\ RowDone(t)
      BY <2>16 DEF update_record_map
    <3> HIDE DEF w
    <3> QED
      BY <2>3, <2>5, <3>1, <3>2, WrittenGrows
  <2>17. CASE is_unique(t) \/ insert_record(t) \/ insert_record_map(t) \/ insert_entry(t)
    BY <2>17 DEF is_unique, insert_record, insert_record_map, insert_entry
  <2>18. CASE erase_entry(t) \/ finish_commit(t) \/ rollback_single_operation(t) \/ undone(t)
              \/ erased(t) \/ finish_abort(t)
    BY <2>18 DEF erase_entry, finish_commit, rollback_single_operation, undone, erased, finish_abort
  <2> QED
    BY <1>2, <2>7, <2>8, <2>9, <2>10, <2>11, <2>12, <2>13, <2>14, <2>15, <2>16, <2>17, <2>18,
       Zenon DEF Step, Server
<1> QED
  BY <1>1, <1>2

(* In a chain whose record t has locked no other has uncommitted versions. *)
LEMMA OnlyOwn ==
    ASSUME LM!LockInv, TypeInv, NoInserts, LocksHeld, NEW r \in Rids, Pending(r),
           NEW t, LockedX(t, r),
           NEW i \in DOMAIN chains[r], VC!Uncommitted(chains[r][i])
    PROVE  \A j \in 1 .. i : VC!UncommittedOf(chains[r][j], t)
<1>1. LockedX(chains[r][i].txn_id, r)
  BY OwnersLock DEF Pending
<1>2. chains[r][i].txn_id = t
  BY <1>1, OneWriter
<1> QED
  BY <1>2 DEF Pending

(* The steps that write version chains *)
LEMMA ChainSteps ==
    ASSUME NEW t \in Txns, Step(t), chains' # chains
    PROVE  commit_mvcc_versions(t) \/ abort(t) \/ update_version(t) \/ delete_version(t)
  BY Zenon
     DEF Step, Server, Client, begin, Statement, InsertStatement, SetTransaction, commit,
         lock_record, scan_record, visit, get_record, delete_entry, check_head, update_record,
         update_record_map, is_unique, insert_record, insert_record_map, insert_entry, unlock,
         erase_entry, finish_commit, undone, erased, finish_abort, rollback_single_operation, data

(* Every step preserves Pending: one case per action that writes chains. *)
LEMMA NextPending ==
    ASSUME LM!LockInv, TypeInv, NoInserts, LocksHeld, \A r \in Rids : Pending(r),
           NEW t \in Txns, Step(t), NEW r \in Rids, TypeInv'
    PROVE  Pending(r)'
<1>1. Pending(r) /\ chains[r] \in Chain /\ chains'[r] \in Chain
  BY DEF TypeInv, SharedTypes
<1>2. /\ Len(chains[r]) \in Nat /\ DOMAIN chains[r] = 1 .. Len(chains[r])
      /\ Len(chains'[r]) \in Nat /\ DOMAIN chains'[r] = 1 .. Len(chains'[r])
  BY <1>1 DEF Chain
<1>3. \A u : Owns(u, r) => Owns(u, r)' \/ (u = t /\ (commit_mvcc_versions(t) \/ abort(t)))
  BY OwnersStay
<1>4. CASE chains'[r] = chains[r] /\ ~commit_mvcc_versions(t) /\ ~abort(t)
  BY <1>1, <1>3, <1>4 DEF Pending
<1>5. CASE commit_mvcc_versions(t)
  <2>1. /\ DOMAIN chains'[r] = DOMAIN chains[r]
        /\ \A i \in DOMAIN chains[r] :
              /\ chains'[r][i].txn_id = chains[r][i].txn_id
              /\ chains'[r][i].is_deleted = chains[r][i].is_deleted
              /\ VC!Uncommitted(chains'[r][i]) <=>
                    /\ VC!Uncommitted(chains[r][i])
                    /\ ~(r \in Written(t) /\ chains[r][i].txn_id = t)
    BY <1>5, CommitChains
  <2>2. ASSUME NEW i \in DOMAIN chains'[r], VC!Uncommitted(chains'[r][i])
        PROVE  /\ VC!Uncommitted(chains[r][i])
               /\ Owns(chains[r][i].txn_id, r)
               /\ chains[r][i].txn_id # t
    <3>1. VC!Uncommitted(chains[r][i]) /\ ~(r \in Written(t) /\ chains[r][i].txn_id = t)
      BY <2>1, <2>2
    <3>2. Owns(chains[r][i].txn_id, r)
      BY <1>1, <2>1, <2>2, <3>1 DEF Pending
    <3>3. pc[t] = "versions"
      BY <1>5 DEF commit_mvcc_versions
    <3> QED
      BY <3>1, <3>2, <3>3 DEF Owns
  <2>3. ASSUME NEW i \in DOMAIN chains'[r], VC!Uncommitted(chains'[r][i])
        PROVE  /\ Owns(chains[r][i].txn_id, r)'
               /\ \A j \in 1 .. i : VC!UncommittedOf(chains'[r][j], chains'[r][i].txn_id)
    <3>1. PICK u : /\ u # t /\ Owns(u, r) /\ VC!Uncommitted(chains[r][i])
                   /\ chains[r][i].txn_id = u /\ chains'[r][i].txn_id = u
      BY <2>1, <2>2, <2>3
    <3>2. Owns(u, r)'
      BY <1>3, <3>1
    <3>3. ASSUME NEW j \in 1 .. i
          PROVE  VC!UncommittedOf(chains'[r][j], u)
      <4>1. j \in DOMAIN chains[r] /\ VC!UncommittedOf(chains[r][j], u)
        BY <1>1, <1>2, <2>1, <2>3, <3>1 DEF Pending
      <4> QED
        BY <2>1, <3>1, <4>1 DEF VC!UncommittedOf
    <3> QED
      BY <3>1, <3>2, <3>3 DEF Owns
  <2>4. ASSUME NEW i \in DOMAIN chains'[r], NEW j \in DOMAIN chains'[r],
               i < j, VC!Uncommitted(chains'[r][j])
        PROVE  chains'[r][i].is_deleted
    BY <1>1, <2>1, <2>2, <2>4 DEF Pending
  <2> QED
    BY <2>3, <2>4 DEF Pending
<1>6. CASE abort(t)
  <2>1. pc[t] \in {"idle", "throw"} /\ Locked(t)
    BY <1>6 DEF abort, LocksHeld
  <2>2. CASE r \in Written(t)
    <3>1. PICK at \in [DOMAIN chains'[r] -> DOMAIN chains[r]] :
             \A i \in DOMAIN chains'[r] :
                /\ chains'[r][i] = chains[r][at[i]]
                /\ ~VC!UncommittedOf(chains'[r][i], t)
      BY <1>6, <2>2, RollbackChains
    <3>2. LockedX(t, r)
      BY <2>1, <2>2 DEF Locked, Unended, Active, Working
    <3>3. ASSUME NEW i \in DOMAIN chains'[r], VC!Uncommitted(chains'[r][i])
          PROVE  FALSE
      <4>1. at[i] \in DOMAIN chains[r] /\ VC!Uncommitted(chains[r][at[i]])
        BY <3>1, <3>3
      <4>2. VC!UncommittedOf(chains[r][at[i]], t)
        BY <1>1, <1>2, <3>2, <4>1, OnlyOwn
      <4> QED
        BY <3>1, <3>3, <4>2
    <3> QED
      BY <3>3 DEF Pending
  <2>3. CASE r \notin Written(t)
    <3>1. chains'[r] = chains[r]
      BY <1>6, <2>3, RollbackChains
    <3>2. ~Owns(t, r)
      BY <2>1, <2>3 DEF Owns
    <3> QED
      BY <1>1, <1>3, <3>1, <3>2 DEF Pending
  <2> QED
    BY <2>2, <2>3
<1>7. CASE update_version(t) /\ chains'[r] # chains[r]
  <2>1. VC!UpdateSucceeds(chains[cur[t]], read_ts[t], t)
    BY <1>7 DEF update_version
  <2>2. /\ \A s \in Rids : s # cur[t] => chains'[s] = chains[s]
        /\ 1 \in DOMAIN chains'[cur[t]]
        /\ VC!UncommittedOf(chains'[cur[t]][1], t)
        /\ \A i \in DOMAIN chains'[cur[t]] : i # 1 =>
              \E k \in DOMAIN chains[cur[t]] :
                 /\ chains'[cur[t]][i] = chains[cur[t]][k]
                 /\ k = IF VC!OwnHead(chains[cur[t]], t) THEN i ELSE i - 1
    BY <1>7, <2>1, UpdateChains
  <2>3. r = cur[t]
    BY <1>7, <2>2
  <2>4. LockedX(t, r)
    BY <1>7, <2>3 DEF update_version, LocksHeld, Locked, AtRecord, Writing
  <2>5. Owns(t, r)'
    BY <1>7, <2>1, <2>3 DEF update_version, GoTo, Owns, Active, Working, TypeInv, ThreadTypes
  <2>6. VC!OwnHead(chains[r], t) => ~chains[r][1].is_deleted
    BY <1>1, <2>1, <2>3 DEF VC!UpdateSucceeds, VC!OwnHead, Chain
  <2>7. ASSUME NEW i \in DOMAIN chains[r], VC!Uncommitted(chains[r][i])
        PROVE  VC!OwnHead(chains[r], t) /\ \A j \in 1 .. i : VC!UncommittedOf(chains[r][j], t)
    <3>1. \A j \in 1 .. i : VC!UncommittedOf(chains[r][j], t)
      BY <1>1, <2>4, <2>7, OnlyOwn
    <3>2. chains[r] # << >> /\ Head(chains[r]) = chains[r][1] /\ 1 \in 1 .. i
      BY <1>1, <1>2, <2>7 DEF Chain
    <3> QED
      BY <3>1, <3>2 DEF VC!OwnHead
  <2>8. ASSUME NEW i \in DOMAIN chains'[r], i # 1, VC!Uncommitted(chains'[r][i])
        PROVE  /\ VC!OwnHead(chains[r], t)
               /\ i \in DOMAIN chains[r] /\ chains'[r][i] = chains[r][i]
               /\ \A j \in 1 .. i : VC!UncommittedOf(chains'[r][j], t)
    <3>1. PICK k \in DOMAIN chains[r] :
             /\ chains'[r][i] = chains[r][k]
             /\ k = IF VC!OwnHead(chains[r], t) THEN i ELSE i - 1
      BY <2>2, <2>3, <2>8
    <3>2. VC!OwnHead(chains[r], t) /\ k = i
      BY <2>7, <2>8, <3>1
    <3>3. \A j \in 1 .. i : VC!UncommittedOf(chains[r][j], t)
      BY <2>7, <2>8, <3>1, <3>2
    <3>4. ASSUME NEW j \in 1 .. i
          PROVE  VC!UncommittedOf(chains'[r][j], t)
      <4>1. CASE j = 1
        BY <2>2, <2>3, <4>1
      <4>2. CASE j # 1
        <5>1. j \in DOMAIN chains'[r]
          BY <1>2, <2>8
        <5>2. chains'[r][j] = chains[r][j]
          BY <2>2, <2>3, <3>2, <4>2, <5>1
        <5> QED
          BY <3>3, <5>2
      <4> QED
        BY <4>1, <4>2
    <3> QED
      BY <3>1, <3>2, <3>4
  <2>9. ASSUME NEW i \in DOMAIN chains'[r], VC!Uncommitted(chains'[r][i])
        PROVE  /\ chains'[r][i].txn_id = t
               /\ \A j \in 1 .. i : VC!UncommittedOf(chains'[r][j], t)
    <3>1. VC!UncommittedOf(chains'[r][1], t)
      BY <2>2, <2>3
    <3>2. CASE i = 1
      BY <3>1, <3>2 DEF VC!UncommittedOf
    <3>3. CASE i # 1
      BY <1>2, <2>8, <2>9, <3>3 DEF VC!UncommittedOf
    <3> QED
      BY <3>2, <3>3
  <2>10. ASSUME NEW i \in DOMAIN chains'[r], NEW j \in DOMAIN chains'[r],
                i < j, VC!Uncommitted(chains'[r][j])
         PROVE  chains'[r][i].is_deleted
    <3>1. j # 1 /\ 1 < j
      BY <1>2, <2>10
    <3>2. /\ VC!OwnHead(chains[r], t) /\ j \in DOMAIN chains[r] /\ 1 \in DOMAIN chains[r]
          /\ VC!Uncommitted(chains[r][j])
      BY <1>2, <2>8, <2>10, <3>1
    <3>3. chains[r][1].is_deleted
      BY <1>1, <3>1, <3>2 DEF Pending
    <3> QED
      BY <2>6, <3>2, <3>3
  <2> QED
    BY <2>5, <2>9, <2>10 DEF Pending
<1>8. CASE delete_version(t) /\ chains'[r] # chains[r]
  <2>1. cur[t] \in Rids
    BY <1>8 DEF delete_version, TypeInv, ThreadTypes, OnRecord
  <2>2. CASE ~VC!DeleteSucceeds(Found(t), read_ts[t], t)
    <3>1. chains' = [chains EXCEPT ![cur[t]] = Found(t)]
      BY <1>8, <2>2 DEF delete_version, Found
    <3>2. r = cur[t] /\ chains'[r] = Found(t)
      BY <1>8, <2>1, <3>1 DEF TypeInv, SharedTypes
    <3>3. \A i \in DOMAIN chains'[r] : ~VC!Uncommitted(chains'[r][i])
      BY <1>8, <2>1, <3>2, FoundChain
    <3> QED
      BY <3>3 DEF Pending
  <2>3. CASE VC!DeleteSucceeds(Found(t), read_ts[t], t)
    <3>1. /\ \A s \in Rids : s # cur[t] => chains'[s] = chains[s]
          /\ 1 \in DOMAIN chains'[cur[t]]
          /\ VC!UncommittedOf(chains'[cur[t]][1], t)
          /\ chains'[cur[t]][1].is_deleted
          /\ \A i \in DOMAIN chains'[cur[t]] : i # 1 =>
                i - 1 \in DOMAIN Found(t) /\ chains'[cur[t]][i] = Found(t)[i - 1]
      BY <1>8, <2>3, DeleteChains
    <3>2. r = cur[t]
      BY <1>8, <3>1
    <3>3. LockedX(t, r)
      BY <1>8, <3>2 DEF delete_version, LocksHeld, Locked, AtRecord, Writing
    <3>4. Owns(t, r)'
      <4> DEFINE w == WriteRecord("DELETE", cur[t], rec[t])
      <4>1. w \in WriteRecords /\ w.type \in TupleWrites /\ w.rid = r
        BY <3>2 DEF WriteRecord, WriteRecords, TupleWrites, TypeInv, ThreadTypes
      <4>2. append_write_record(t, w) /\ RowDone(t)
        BY <1>8, <2>3 DEF delete_version, Found
      <4> HIDE DEF w
      <4>3. r \in Written(t)'
        BY <4>1, <4>2, WrittenGrows
      <4>4. pc'[t] \in {"idle", "row"}
        BY <4>2, RowEnds DEF TypeInv, ThreadTypes
      <4> QED
        BY <4>3, <4>4 DEF Owns, Active, Working
    <3>5. ASSUME NEW i \in DOMAIN Found(t), VC!Uncommitted(Found(t)[i])
          PROVE  Found(t) = chains[r] /\ \A j \in 1 .. i : VC!UncommittedOf(chains[r][j], t)
      <4>1. Found(t) = chains[r]
        BY <2>1, <3>2, <3>5, FoundChain
      <4> QED
        BY <1>1, <3>3, <3>5, <4>1, OnlyOwn
    <3>6. ASSUME NEW i \in DOMAIN chains'[r], i # 1, VC!Uncommitted(chains'[r][i])
          PROVE  /\ Found(t) = chains[r]
                 /\ i - 1 \in DOMAIN chains[r] /\ VC!Uncommitted(chains[r][i - 1])
                 /\ \A j \in 1 .. i : j # 1 => /\ chains'[r][j] = chains[r][j - 1]
                                               /\ VC!UncommittedOf(chains'[r][j], t)
      <4>1. i - 1 \in DOMAIN Found(t) /\ VC!Uncommitted(Found(t)[i - 1])
        BY <3>1, <3>2, <3>6
      <4>2. Found(t) = chains[r] /\ \A j \in 1 .. (i - 1) : VC!UncommittedOf(chains[r][j], t)
        BY <3>5, <4>1
      <4>3. ASSUME NEW j \in 1 .. i, j # 1
            PROVE  /\ chains'[r][j] = chains[r][j - 1]
                   /\ VC!UncommittedOf(chains'[r][j], t)
        <5>1. j \in DOMAIN chains'[r] /\ j - 1 \in 1 .. (i - 1)
          BY <1>2, <3>6, <4>3
        <5>2. chains'[r][j] = chains[r][j - 1]
          BY <3>1, <3>2, <4>2, <4>3, <5>1
        <5> QED
          BY <4>2, <5>1, <5>2
      <4> QED
        BY <4>1, <4>2, <4>3
    <3>7. ASSUME NEW i \in DOMAIN chains'[r], VC!Uncommitted(chains'[r][i])
          PROVE  /\ chains'[r][i].txn_id = t
                 /\ \A j \in 1 .. i : VC!UncommittedOf(chains'[r][j], t)
      <4>1. VC!UncommittedOf(chains'[r][1], t)
        BY <3>1, <3>2
      <4>2. CASE i = 1
        BY <4>1, <4>2 DEF VC!UncommittedOf
      <4>3. CASE i # 1
        <5>1. \A j \in 1 .. i : VC!UncommittedOf(chains'[r][j], t)
          BY <3>6, <3>7, <4>1, <4>3
        <5>2. i \in 1 .. i
          BY <1>2, <3>7
        <5> QED
          BY <5>1, <5>2 DEF VC!UncommittedOf
      <4> QED
        BY <4>2, <4>3
    <3>8. ASSUME NEW i \in DOMAIN chains'[r], NEW j \in DOMAIN chains'[r],
                 i < j, VC!Uncommitted(chains'[r][j])
          PROVE  chains'[r][i].is_deleted
      <4>1. CASE i = 1
        BY <3>1, <3>2, <4>1
      <4>2. CASE i # 1
        <5>1. j # 1 /\ i - 1 < j - 1 /\ i \in 1 .. j
          BY <1>2, <3>8, <4>2
        <5>2. /\ Found(t) = chains[r]
              /\ j - 1 \in DOMAIN chains[r] /\ VC!Uncommitted(chains[r][j - 1])
              /\ chains'[r][i] = chains[r][i - 1]
          BY <3>6, <3>8, <4>2, <5>1
        <5>3. i - 1 \in DOMAIN chains[r]
          BY <3>1, <3>2, <4>2, <5>2
        <5> QED
          BY <1>1, <5>1, <5>2, <5>3 DEF Pending
      <4> QED
        BY <4>1, <4>2
    <3> QED
      BY <3>4, <3>7, <3>8 DEF Pending
  <2> QED
    BY <2>2, <2>3
<1>9. chains' # chains =>
         commit_mvcc_versions(t) \/ abort(t) \/ update_version(t) \/ delete_version(t)
  BY ChainSteps
<1> QED
  BY <1>4, <1>5, <1>6, <1>7, <1>8, <1>9

(* The writers' invariant: types, locks and uncommitted versions *)
WriterInv ==
    /\ TypeInv
    /\ NoInserts
    /\ LocksHeld
    /\ \A r \in Rids : Pending(r)

(* It holds in every state when clients issue no INSERT. *)
LEMMA WriterInvHolds ==
    ASSUME "insert" \notin Kinds
    PROVE  Spec => []WriterInv
<1>1. Init => WriterInv
  BY InitTypes, InitNoInserts, InitLocksHeld, InitPending DEF WriterInv
<1>2. LM!LockInv /\ WriterInv /\ [Next]_vars => WriterInv'
  <2> SUFFICES ASSUME LM!LockInv, WriterInv, [Next]_vars PROVE WriterInv'
    OBVIOUS
  <2>1. CASE UNCHANGED vars
    <3>1. /\ UNCHANGED <<lock_table, write_set, chains, heap, pc, stmt, cur>>
          /\ \A t \in Txns : Written(t)' = Written(t)
          /\ \A t, r : LockedX(t, r)' <=> LockedX(t, r)
      BY <2>1 DEF vars, lockVars, data, local, Written, LockedX, LM!HoldsMode
    <3>2. TypeInv'
      BY NextTypes DEF WriterInv
    <3>3. NoInserts'
      BY <3>1 DEF WriterInv, NoInserts, Updating
    <3>4. LocksHeld'
      BY <3>1 DEF WriterInv, LocksHeld, Locked, AtRecord, Unended, Active, LockedX, LM!HoldsMode
    <3>5. \A r \in Rids : Pending(r)'
      BY <3>1 DEF WriterInv, Pending, Owns, Active
    <3> QED
      BY <3>2, <3>3, <3>4, <3>5 DEF WriterInv
  <2>2. CASE Next
    <3>1. PICK t \in Txns : Step(t)
      BY <2>2 DEF Next, Step
    <3>2. TypeInv'
      BY NextTypes DEF WriterInv
    <3>3. NoInserts'
      BY <3>1, NextNoInserts DEF WriterInv
    <3>4. LocksHeld'
      BY <3>1, NextLocksHeld DEF WriterInv
    <3>5. \A r \in Rids : Pending(r)'
      BY <3>1, <3>2, NextPending DEF WriterInv
    <3> QED
      BY <3>2, <3>3, <3>4, <3>5 DEF WriterInv
  <2> QED
    BY <2>1, <2>2
<1> QED
  BY <1>1, <1>2, ServerLockInv, PTL DEF Spec

(* Whatever updates and deletes run at once, an uncommitted version is the *)
(* head's and its transaction holds the exclusive lock of the record: the  *)
(* test of has_write_conflict is decided by the lock alone.                *)
THEOREM VersionsAreLocked ==
    ASSUME "insert" \notin Kinds
    PROVE  Spec => []UncommittedIsLocked
<1>1. WriterInv => UncommittedIsLocked
  BY OwnersLock DEF WriterInv, Pending, UncommittedIsLocked
<1> QED
  BY <1>1, WriterInvHolds, PTL

(* The visibility map's invariant holds in every state. *)
LEMMA EntriesHold == Spec => []EntriesHaveWriters
<1>1. TypeInv /\ EntriesHaveWriters /\ [Next]_vars => EntriesHaveWriters'
  <2> SUFFICES ASSUME TypeInv, EntriesHaveWriters, [Next]_vars PROVE EntriesHaveWriters'
    OBVIOUS
  <2>1. CASE UNCHANGED vars
    BY <2>1 DEF vars, data, EntriesHaveWriters, Written
  <2>2. CASE Next
    BY <2>2, NextEntries DEF Next, Step
  <2> QED
    BY <2>1, <2>2
<1> QED
  BY <1>1, InitEntries, TypesHold, PTL DEF Spec

(* When commit or abort has returned, the transaction has left no lock, no *)
(* uncommitted version and no entry of the visibility map behind: nothing  *)
(* that it did stops a later one.                                          *)
THEOREM EndedIsClean ==
    ASSUME "insert" \notin Kinds
    PROVE  Spec => []EndedLeavesNothing
<1>1. LM!LockInv /\ WriterInv /\ EntriesHaveWriters => EndedLeavesNothing
  <2> SUFFICES ASSUME LM!LockInv, WriterInv, EntriesHaveWriters,
                      NEW t \in Txns, Ended(t), NEW r \in Rids
               PROVE  /\ ~LM!Holds(t, r)
                      /\ \A i \in DOMAIN chains[r] : ~VC!UncommittedOf(chains[r][i], t)
                      /\ r \in DOMAIN mvcc_map => mvcc_map[r].t_xmin # -t
    BY DEF EndedLeavesNothing
  <2>1. ending[t] = "done"
    BY DEF ending, Phase, Ended
  <2>2. ~LM!Holds(t, r)
    BY <2>1 DEF LM!LockInv, LM!ReleaseCovers, LM!RecordLockInSet
  <2>3. ASSUME NEW i \in DOMAIN chains[r], VC!UncommittedOf(chains[r][i], t)
        PROVE  FALSE
    <3>1. Owns(t, r)
      BY <2>3 DEF WriterInv, Pending, VC!UncommittedOf
    <3> QED
      BY <3>1 DEF Owns, Active, Working, Ended
  <2>4. ASSUME r \in DOMAIN mvcc_map, mvcc_map[r].t_xmin = -t
        PROVE  FALSE
    <3>1. PICK u \in Txns : mvcc_map[r].t_xmin = -u /\ r \in Written(u)
      BY <2>4 DEF EntriesHaveWriters
    <3>2. u = t
      BY <2>4, <3>1, TxnIds
    <3>3. write_set[t] = << >>
      BY DEF EntriesHaveWriters, Ended
    <3> QED
      BY <3>1, <3>2, <3>3 DEF Written
  <2> QED
    BY <2>2, <2>3, <2>4
<1> QED
  BY <1>1, ServerLockInv, WriterInvHolds, EntriesHold, PTL

-----------------------------------------------------------------------------
(***************************************************************************)
(* No committed update is lost, and a writer reads committed records, for  *)
(* any number of transactions, records and statements.                     *)
(*                                                                         *)
(* Whoever writes a record holds its exclusive lock, as shown above; so    *)
(* between the read of the slot and the end of the transaction slot and    *)
(* chain of the record are the writer's alone.  Then the slot              *)
(* contains whatever a committed version contains, what was read is what   *)
(* is overwritten, and what abort puts back contains it too.               *)
(***************************************************************************)

(* Only the holder of a record's exclusive lock writes its chain ... *)
LEMMA ChainWritersLock ==
    ASSUME WriterInv, NEW t \in Txns, Step(t), NEW r \in Rids, chains'[r] # chains[r]
    PROVE  LockedX(t, r)
<1>1. TypeInv /\ Locked(t)
  BY DEF WriterInv, LocksHeld
<1>2. chains' # chains
  OBVIOUS
<1>3. CASE commit_mvcc_versions(t)
  <2>1. r \in Written(t)
    BY <1>1, <1>3, CommitChains
  <2> QED
    BY <1>1, <1>3, <2>1 DEF commit_mvcc_versions, Locked, Unended
<1>4. CASE abort(t)
  <2>1. r \in Written(t)
    BY <1>1, <1>4, RollbackChains
  <2> QED
    BY <1>1, <1>4, <2>1 DEF abort, Locked, Unended, Active, Working
<1>5. CASE update_version(t)
  <2>1. chains' = [chains EXCEPT ![cur[t]] = VC!update_version(@, t, Updated(t))]
    BY <1>2, <1>5 DEF update_version
  <2>2. r = cur[t]
    BY <1>1, <2>1 DEF TypeInv, SharedTypes
  <2> QED
    BY <1>1, <1>5, <2>2 DEF update_version, Locked, AtRecord, Writing
<1>6. CASE delete_version(t)
  <2>1. \E chain : chains' = [chains EXCEPT ![cur[t]] = chain]
    BY <1>6 DEF delete_version
  <2>2. r = cur[t]
    BY <1>1, <2>1 DEF TypeInv, SharedTypes
  <2> QED
    BY <1>1, <1>6, <2>2 DEF delete_version, Locked, AtRecord, Writing
<1> QED
  BY <1>2, <1>3, <1>4, <1>5, <1>6, ChainSteps

(* The steps that write slots, and what they write *)
LEMMA SlotSteps ==
    ASSUME WriterInv, NEW t \in Txns, Step(t), heap' # heap
    PROVE  \/ update_record(t) /\ heap' = [heap EXCEPT ![cur[t]].row = Updated(t)]
           \/ /\ rollback_single_operation(t)
              /\ pos[t] \in DOMAIN write_set[t]
              /\ write_set[t][pos[t]].type = "UPDATE"
              /\ heap' = [heap EXCEPT ![write_set[t][pos[t]].rid].row = write_set[t][pos[t]].row]
<1>1. update_record(t) \/ rollback_single_operation(t) \/ insert_record(t)
  BY Zenon
     DEF Step, Server, Client, begin, Statement, InsertStatement, SetTransaction, commit, abort,
         lock_record, scan_record, visit, get_record, delete_entry, check_head, update_version,
         delete_version, update_record_map, is_unique, insert_record_map, insert_entry,
         commit_mvcc_versions, erase_entry, finish_commit, unlock, undone, erased, finish_abort,
         data
<1>2. CASE update_record(t)
  BY <1>2 DEF update_record
<1>3. CASE rollback_single_operation(t)
  <2>1. pos[t] \in DOMAIN write_set[t]
    <3>1. /\ write_set[t] \in Seq(WriteRecords) /\ pos[t] \in Nat /\ pos[t] > 0
          /\ pos[t] <= Len(write_set[t])
      BY <1>3 DEF rollback_single_operation, WriterInv, TypeInv, ThreadTypes
    <3> QED
      BY <3>1
  <2>2. write_set[t][pos[t]].type # "INSERT"
    BY <2>1 DEF WriterInv, NoInserts, Updating
  <2> QED
    BY <1>3, <2>1, <2>2 DEF rollback_single_operation, Undo
<1>4. CASE insert_record(t)
  BY <1>4 DEF insert_record, WriterInv, NoInserts, Updating
<1> QED
  BY <1>1, <1>2, <1>3, <1>4

(* ... and only the holder writes its slot. *)
LEMMA SlotWritersLock ==
    ASSUME WriterInv, NEW t \in Txns, Step(t), NEW r \in Rids, heap'[r] # heap[r]
    PROVE  LockedX(t, r)
<1>1. Locked(t) /\ DOMAIN heap = Rids
  BY DEF WriterInv, LocksHeld, TypeInv, SharedTypes
<1>2. heap' # heap
  OBVIOUS
<1>3. CASE update_record(t) /\ heap' = [heap EXCEPT ![cur[t]].row = Updated(t)]
  <2>1. r = cur[t]
    BY <1>1, <1>3
  <2>2. stmt[t].kind # "read"
    BY <1>3 DEF update_record, WriterInv, NoInserts, Updating, Writing
  <2> QED
    BY <1>1, <1>3, <2>1, <2>2 DEF update_record, Locked, AtRecord, Writing
<1>4. CASE /\ rollback_single_operation(t)
           /\ pos[t] \in DOMAIN write_set[t]
           /\ write_set[t][pos[t]].type = "UPDATE"
           /\ heap' = [heap EXCEPT ![write_set[t][pos[t]].rid].row = write_set[t][pos[t]].row]
  <2>1. r = write_set[t][pos[t]].rid
    BY <1>1, <1>4
  <2>2. r \in Written(t)
    BY <1>4, <2>1 DEF Written
  <2> QED
    BY <1>1, <1>4, <2>2 DEF rollback_single_operation, Locked, Unended
<1> QED
  BY <1>2, <1>3, <1>4, SlotSteps

(* So what a transaction has locked stays as it is while others run. *)
LEMMA LockedStays ==
    ASSUME LM!LockInv, WriterInv, NEW t \in Txns, Step(t),
           NEW u \in Txns, u # t, NEW r \in Rids, LockedX(u, r)
    PROVE  chains'[r] = chains[r] /\ heap'[r] = heap[r]
  BY OneWriter, ChainWritersLock, SlotWritersLock

-----------------------------------------------------------------------------
(* Committed versions and what contains them *)

Covered(r, content) ==
    \A i \in DOMAIN chains[r] :
        ~VC!Uncommitted(chains[r][i]) => chains[r][i].data.content \subseteq content

(* No step but a commit makes a version of an existing chain committed. *)
LEMMA CoveredStays ==
    ASSUME WriterInv, NEW t \in Txns, Step(t), ~commit_mvcc_versions(t),
           NEW r \in Rids, chains[r] # << >>, NEW content, Covered(r, content)
    PROVE  Covered(r, content)'
<1>1. TypeInv
  BY DEF WriterInv
<1>2. CASE chains'[r] = chains[r]
  BY <1>2 DEF Covered
<1>3. CASE abort(t) /\ chains'[r] # chains[r]
  <2>1. r \in Written(t)
    BY <1>1, <1>3, RollbackChains
  <2>2. PICK at \in [DOMAIN chains'[r] -> DOMAIN chains[r]] :
           \A i \in DOMAIN chains'[r] : chains'[r][i] = chains[r][at[i]]
    BY <1>1, <1>3, <2>1, RollbackChains
  <2>3. \A i \in DOMAIN chains'[r] : at[i] \in DOMAIN chains[r]
    BY <2>2
  <2> QED
    BY <2>2, <2>3 DEF Covered
<1>4. CASE update_version(t) /\ chains'[r] # chains[r]
  <2>1. VC!UpdateSucceeds(chains[cur[t]], read_ts[t], t)
    BY <1>4 DEF update_version
  <2>2. /\ \A s \in Rids : s # cur[t] => chains'[s] = chains[s]
        /\ VC!UncommittedOf(chains'[cur[t]][1], t)
        /\ \A i \in DOMAIN chains'[cur[t]] : i # 1 =>
              \E k \in DOMAIN chains[cur[t]] : chains'[cur[t]][i] = chains[cur[t]][k]
    BY <1>1, <1>4, <2>1, UpdateChains
  <2>3. r = cur[t]
    BY <1>4, <2>2
  <2> QED
    BY <2>2, <2>3 DEF Covered, VC!UncommittedOf
<1>5. CASE delete_version(t) /\ chains'[r] # chains[r]
  <2>1. cur[t] \in Rids
    BY <1>1, <1>5 DEF delete_version, TypeInv, ThreadTypes, OnRecord
  <2>2. \E chain : chains' = [chains EXCEPT ![cur[t]] = chain]
    BY <1>5 DEF delete_version
  <2>3. r = cur[t] /\ Found(t) = chains[r]
    BY <1>1, <1>5, <2>1, <2>2, FoundChain DEF TypeInv, SharedTypes
  <2>4. VC!DeleteSucceeds(Found(t), read_ts[t], t)
    <3>1. ~VC!DeleteSucceeds(Found(t), read_ts[t], t) => chains' = [chains EXCEPT ![r] = Found(t)]
      BY <1>5, <2>3 DEF delete_version, Found
    <3> QED
      BY <1>1, <1>5, <2>3, <3>1 DEF TypeInv, SharedTypes
  <2>5. /\ VC!UncommittedOf(chains'[r][1], t)
        /\ \A i \in DOMAIN chains'[r] : i # 1 =>
              i - 1 \in DOMAIN chains[r] /\ chains'[r][i] = chains[r][i - 1]
    BY <1>1, <1>5, <2>3, <2>4, DeleteChains
  <2> QED
    BY <2>5 DEF Covered, VC!UncommittedOf
<1>6. chains'[r] = chains[r] \/ chains' # chains
  OBVIOUS
<1> QED
  BY <1>2, <1>3, <1>4, <1>5, <1>6, ChainSteps

(* Only a rollback empties a chain. *)
LEMMA ChainStays ==
    ASSUME WriterInv, NEW t \in Txns, Step(t), ~abort(t), NEW r \in Rids, chains[r] # << >>
    PROVE  chains'[r] # << >>
<1>1. TypeInv
  BY DEF WriterInv
<1>2. CASE chains'[r] = chains[r]
  BY <1>2
<1>3. CASE commit_mvcc_versions(t) /\ chains'[r] # chains[r]
  <2>1. DOMAIN chains'[r] = DOMAIN chains[r]
    BY <1>1, <1>3, CommitChains
  <2>2. chains[r] \in Chain
    BY <1>1 DEF TypeInv, SharedTypes
  <2>3. 1 \in DOMAIN chains[r]
    BY <2>2 DEF Chain
  <2> QED
    BY <2>1, <2>3
<1>4. CASE update_version(t) /\ chains'[r] # chains[r]
  <2>1. VC!UpdateSucceeds(chains[cur[t]], read_ts[t], t)
    BY <1>4 DEF update_version
  <2>2. (\A s \in Rids : s # cur[t] => chains'[s] = chains[s]) /\ 1 \in DOMAIN chains'[cur[t]]
    BY <1>1, <1>4, <2>1, UpdateChains
  <2> QED
    BY <1>4, <2>2
<1>5. CASE delete_version(t) /\ chains'[r] # chains[r]
  <2>1. cur[t] \in Rids
    BY <1>1, <1>5 DEF delete_version, TypeInv, ThreadTypes, OnRecord
  <2>2. \E chain : chains' = [chains EXCEPT ![cur[t]] = chain]
    BY <1>5 DEF delete_version
  <2>3. r = cur[t] /\ Found(t) = chains[r]
    BY <1>1, <1>5, <2>1, <2>2, FoundChain DEF TypeInv, SharedTypes
  <2>4. CASE VC!DeleteSucceeds(Found(t), read_ts[t], t)
    <3>1. 1 \in DOMAIN chains'[r]
      BY <1>1, <1>5, <2>3, <2>4, DeleteChains
    <3> QED
      BY <3>1
  <2>5. CASE ~VC!DeleteSucceeds(Found(t), read_ts[t], t)
    <3>1. chains' = [chains EXCEPT ![r] = Found(t)]
      BY <1>5, <2>3, <2>5 DEF delete_version, Found
    <3> QED
      BY <1>1, <1>5, <2>3, <3>1 DEF TypeInv, SharedTypes
  <2> QED
    BY <2>4, <2>5
<1>6. chains'[r] = chains[r] \/ chains' # chains
  OBVIOUS
<1> QED
  BY <1>2, <1>3, <1>4, <1>5, <1>6, ChainSteps

-----------------------------------------------------------------------------
(* What a writer has copied is still in the slot when it writes. *)

ReadIsCurrent(t) ==
    pc[t] \in {"index", "check", "version", "heap"} => rec[t] = heap[cur[t]].row

(* Every step preserves it: the record is locked. *)
LEMMA NextReadIsCurrent ==
    ASSUME LM!LockInv, WriterInv, \A u \in Txns : ReadIsCurrent(u),
           NEW t \in Txns, Step(t), NEW u \in Txns
    PROVE  ReadIsCurrent(u)'
<1>1. TypeInv /\ Locked(u) /\ Updating(u) /\ Updating(t) /\ ReadIsCurrent(u)
  BY DEF WriterInv, LocksHeld, NoInserts
<1>2. CASE u # t
  <2>1. Same(u)
    BY <1>1, <1>2, OthersStay
  <2>2. ASSUME pc[u] \in {"index", "check", "version", "heap"}
        PROVE  heap'[cur[u]] = heap[cur[u]]
    <3>1. LockedX(u, cur[u]) /\ cur[u] \in Rids
      BY <1>1, <2>2 DEF Locked, AtRecord, Updating, Writing, TypeInv, ThreadTypes, OnRecord
    <3> QED
      BY <1>2, <3>1, LockedStays
  <2> QED
    BY <1>1, <2>1, <2>2 DEF ReadIsCurrent, Same
<1>3. CASE u = t
  <2>1. pc \in [Txns -> Steps] /\ DOMAIN rec = Txns
    BY <1>1 DEF TypeInv, ThreadTypes
  <2>2. \A s \in Steps : GoTo(t, s) => pc'[t] = s
    BY <2>1 DEF GoTo
  <2>3. RowDone(t) \/ Fail(t) => pc'[t] \in {"idle", "row"}
    BY <1>1, <2>1, RowEnds
  <2>4. ASSUME pc'[t] \in {"index", "check", "version", "heap"},
               \/ get_record(t)
               \/ /\ UNCHANGED <<rec, cur, heap>>
                  /\ pc[t] \in {"index", "check", "version", "heap"}
        PROVE  rec'[t] = heap'[cur'[t]].row
    <3>1. CASE get_record(t)
      BY <2>1, <2>3, <2>4, <3>1 DEF get_record, data, Fail
    <3>2. CASE /\ UNCHANGED <<rec, cur, heap>>
               /\ pc[t] \in {"index", "check", "version", "heap"}
      BY <1>1, <1>3, <3>2 DEF ReadIsCurrent
    <3> QED
      BY <2>4, <3>1, <3>2
  <2> USE <1>1, <2>1, <2>2 DEF Steps, data, local
  <2>5. CASE Client(t) \/ commit(t) \/ abort(t)
    BY <1>3, <2>5
       DEF Client, begin, Statement, InsertStatement, SetTransaction, commit, abort, ReadIsCurrent
  <2>6. ASSUME NEW r \in Rids, lock_record(t, r) \/ scan_record(t, r)
        PROVE  pc'[t] \in {"visit", "throw"}
    BY <2>6 DEF lock_record, scan_record
  <2>7. ASSUME NEW r \in Rids, unlock(t, r)
        PROVE  pc'[t] \in {"unlock", "abort_unlock", "erase"}
    BY <2>7 DEF unlock
  <2>8. CASE visit(t)
    BY <1>3, <2>3, <2>8 DEF visit, ReadIsCurrent
  <2>9. CASE get_record(t)
    BY <1>3, <2>4, <2>9 DEF ReadIsCurrent
  <2>10. CASE delete_entry(t) \/ check_head(t) \/ update_version(t)
    BY <1>3, <2>4, <2>10 DEF delete_entry, check_head, update_version, ReadIsCurrent
  <2>11. CASE delete_version(t)
    BY <1>3, <2>3, <2>11 DEF delete_version, Throw, ReadIsCurrent
  <2>12. CASE update_record(t) \/ update_record_map(t)
    BY <1>3, <2>3, <2>12 DEF update_record, update_record_map, ReadIsCurrent
  <2>13. CASE is_unique(t) \/ insert_record(t) \/ insert_record_map(t) \/ insert_entry(t)
    BY <2>13 DEF is_unique, insert_record, insert_record_map, insert_entry, Updating
  <2>14. CASE commit_mvcc_versions(t) \/ finish_commit(t) \/ undone(t) \/ erased(t)
              \/ finish_abort(t)
    BY <1>3, <2>14
       DEF commit_mvcc_versions, finish_commit, undone, erased, finish_abort, ReadIsCurrent
  <2>15. CASE erase_entry(t) \/ rollback_single_operation(t)
    BY <1>3, <2>15 DEF erase_entry, rollback_single_operation, ReadIsCurrent
  <2>16. ASSUME NEW s, pc'[t] = s, s \notin {"index", "check", "version", "heap"}
         PROVE  ReadIsCurrent(u)'
    BY <1>3, <2>16 DEF ReadIsCurrent
  <2> QED
    BY <2>5, <2>6, <2>7, <2>8, <2>9, <2>10, <2>11, <2>12, <2>13, <2>14, <2>15, <2>16
       DEF Step, Server
<1> QED
  BY <1>2, <1>3

-----------------------------------------------------------------------------
(* What an update notes for its abort contains every committed version of  *)
(* the record.  While the transaction works the record has a chain, so     *)
(* that DeleteExecutor does not take the slot for a committed version.     *)

NotedCovers(t) ==
    /\ pc[t] = "map" => Covered(cur[t], rec[t].content)
    /\ pc[t] \in {"heap", "map"} => chains[cur[t]] # << >>
    /\ \A i \in DOMAIN write_set[t] : write_set[t][i].type = "UPDATE" =>
          /\ Active(t) => chains[write_set[t][i].rid] # << >>
          /\ Active(t) \/ pc[t] = "undo" =>
                Covered(write_set[t][i].rid, write_set[t][i].row.content)

(* The slot contains every version, but for the one that the writer of the *)
(* record has just made and has not yet copied to the slot.                *)
Ahead(r, i) ==
    LET v == chains[r][i]
    IN  /\ VC!Uncommitted(v)
        /\ pc[v.txn_id] = "heap" /\ cur[v.txn_id] = r
        /\ v.data.content = rec[v.txn_id].content \cup {v.txn_id}

HeapCovers(r) ==
    \A i \in DOMAIN chains[r] :
        chains[r][i].data.content \subseteq heap[r].row.content \/ Ahead(r, i)

CoverInv ==
    /\ \A t \in Txns : ReadIsCurrent(t) /\ NotedCovers(t)
    /\ \A r \in Rids : HeapCovers(r)

(* Every step preserves NotedCovers ... *)
LEMMA NextNotedCovers ==
    ASSUME LM!LockInv, WriterInv, CoverInv, NEW t \in Txns, Step(t), NEW u \in Txns
    PROVE  NotedCovers(u)'
<1>1. /\ TypeInv /\ Locked(u) /\ Updating(u) /\ Updating(t) /\ ReadIsCurrent(u) /\ NotedCovers(u)
      /\ \A r \in Rids : HeapCovers(r)
  BY DEF WriterInv, LocksHeld, NoInserts, CoverInv
<1>2. \A i \in DOMAIN write_set[u] :
         /\ write_set[u][i] \in WriteRecords /\ write_set[u][i].rid \in Rids
         /\ write_set[u][i].type = "UPDATE" => write_set[u][i].rid \in Written(u)
  <2>1. \A i \in DOMAIN write_set[u] : write_set[u][i] \in WriteRecords
    BY <1>1 DEF TypeInv, ThreadTypes
  <2> QED
    BY <2>1 DEF WriteRecords, Written
<1>3. CASE u # t
  <2>1. Same(u)
    BY <1>1, <1>3, OthersStay
  <2>2. ASSUME pc[u] \in {"heap", "map"}
        PROVE  chains'[cur[u]] = chains[cur[u]]
    <3>1. LockedX(u, cur[u]) /\ cur[u] \in Rids
      BY <1>1, <2>2 DEF Locked, AtRecord, Updating, Writing, TypeInv, ThreadTypes, OnRecord
    <3> QED
      BY <1>3, <3>1, LockedStays
  <2>3. ASSUME NEW i \in DOMAIN write_set[u], write_set[u][i].type = "UPDATE",
               Active(u) \/ pc[u] = "undo"
        PROVE  chains'[write_set[u][i].rid] = chains[write_set[u][i].rid]
    <3>1. LockedX(u, write_set[u][i].rid) /\ write_set[u][i].rid \in Rids
      BY <1>1, <1>2, <2>3 DEF Locked, Unended
    <3> QED
      BY <1>3, <3>1, LockedStays
  <2> QED
    BY <1>1, <2>1, <2>2, <2>3 DEF NotedCovers, Same, Covered, Active
<1>4. CASE u = t
  <2>1. pc \in [Txns -> Steps] /\ DOMAIN rec = Txns
    BY <1>1 DEF TypeInv, ThreadTypes
  <2>2. \A s \in Steps : GoTo(t, s) => pc'[t] = s
    BY <2>1 DEF GoTo
  <2>3. RowDone(t) \/ Fail(t) => pc'[t] \in {"idle", "row"}
    BY <1>1, <2>1, RowEnds
  (* What has been noted stays covered. *)
  <2>4. ASSUME NEW i \in DOMAIN write_set[t], write_set[t][i].type = "UPDATE", Active(t),
               ~commit_mvcc_versions(t), write_set'[t][i] = write_set[t][i]
        PROVE  /\ ~abort(t) => chains'[write_set'[t][i].rid] # << >>
               /\ Covered(write_set[t][i].rid, write_set[t][i].row.content)'
    <3>1. PICK r \in Rids : /\ r = write_set[t][i].rid
                            /\ chains[r] # << >>
                            /\ Covered(r, write_set[t][i].row.content)
      BY <1>1, <1>2, <1>4, <2>4 DEF NotedCovers
    <3>2. \A content : Covered(r, content) => Covered(r, content)'
      BY <2>4, <3>1, CoveredStays
    <3>3. PICK content : content = write_set[t][i].row.content
      OBVIOUS
    <3>4. Covered(r, content)'
      BY <3>1, <3>2, <3>3
    <3>5. Covered(write_set[t][i].rid, write_set[t][i].row.content)'
      BY <2>4, <3>1, <3>3, <3>4 DEF Covered
    <3> QED
      BY <2>4, <3>1, <3>5, ChainStays
  (* Steps of a working transaction but for the update of the slot *)
  <2>5. ASSUME Active(t), ~commit_mvcc_versions(t), ~abort(t), pc'[t] \notin {"heap", "map"},
               \A i \in DOMAIN write_set'[t] : write_set'[t][i].type = "UPDATE" =>
                  \/ i \in DOMAIN write_set[t] /\ write_set'[t][i] = write_set[t][i]
                  \/ /\ chains'[write_set'[t][i].rid] # << >>
                     /\ Covered(write_set[t][i].rid, write_set[t][i].row.content)'
        PROVE  NotedCovers(t)'
    BY <2>4, <2>5 DEF NotedCovers
  (* Steps after which there is nothing left to undo *)
  <2>6. ASSUME pc'[t] \in {"versions", "unlock", "erase", "committed", "abort_erase",
                           "abort_unlock", "aborted"}
        PROVE  NotedCovers(t)'
    BY <2>6 DEF NotedCovers, Active, Working
  <2> USE <1>1, <1>4, <2>1, <2>2, <2>3 DEF Steps, Working, Active, local, data
  <2>7. CASE Client(t)
    BY <2>5, <2>7
       DEF Client, begin, Statement, InsertStatement, SetTransaction, commit_mvcc_versions, abort
  <2>8. CASE commit(t)
    BY <2>6, <2>8 DEF commit
  <2>9. CASE abort(t)
    BY <2>4, <2>9 DEF abort, commit_mvcc_versions, NotedCovers
  <2>10. ASSUME NEW r \in Rids, lock_record(t, r) \/ scan_record(t, r)
         PROVE  NotedCovers(t)'
    BY <2>5, <2>10 DEF lock_record, scan_record, commit_mvcc_versions, abort
  <2>11. ASSUME NEW r \in Rids, unlock(t, r)
         PROVE  NotedCovers(t)'
    BY <2>6, <2>11 DEF unlock
  <2>12. CASE visit(t) \/ get_record(t) \/ check_head(t)
    BY <2>5, <2>12 DEF visit, get_record, check_head, Throw, commit_mvcc_versions, abort
  <2>13. CASE delete_entry(t)
    <3> DEFINE w == WriteRecord("IX_DELETE", cur[t], Row(rec[t].key, {}))
    <3>1. w \in WriteRecords /\ w.type # "UPDATE"
      BY <2>13 DEF delete_entry, WriteRecord, WriteRecords, Row, Rows, OnRecord, TypeInv, ThreadTypes
    <3>2. append_write_record(t, w) /\ pc[t] = "index" /\ pc'[t] = "check"
      BY <2>13 DEF delete_entry
    <3> HIDE DEF w
    <3>3. \A i \in DOMAIN write_set'[t] : write_set'[t][i].type = "UPDATE" =>
             i \in DOMAIN write_set[t] /\ write_set'[t][i] = write_set[t][i]
      BY <3>1, <3>2, Appended
    <3> QED
      BY <2>5, <3>2, <3>3 DEF commit_mvcc_versions, abort
  <2>14. CASE update_version(t)
    <3>1. CASE pc'[t] = "heap"
      <4>1. VC!UpdateSucceeds(chains[cur[t]], read_ts[t], t)
        BY <2>14, <3>1 DEF update_version, Throw
      <4>2. 1 \in DOMAIN chains'[cur[t]]
        BY <2>14, <4>1, UpdateChains
      <4>3. chains'[cur[t]] # << >> /\ cur' = cur
        BY <2>14, <4>2 DEF update_version
      <4> QED
        BY <2>4, <2>14, <3>1, <4>3 DEF update_version, commit_mvcc_versions, abort, NotedCovers
    <3>2. CASE pc'[t] # "heap"
      BY <2>5, <2>14, <3>2 DEF update_version, Throw, commit_mvcc_versions, abort
    <3> QED
      BY <3>1, <3>2
  <2>15. CASE delete_version(t)
    <3> DEFINE w == WriteRecord("DELETE", cur[t], rec[t])
    <3>1. w \in WriteRecords /\ w.type # "UPDATE"
      BY <2>15 DEF delete_version, WriteRecord, WriteRecords, OnRecord, TypeInv, ThreadTypes
    <3>2. /\ pc[t] = "version" /\ pc'[t] \in {"idle", "row", "throw"}
          /\ append_write_record(t, w) \/ write_set' = write_set
      BY <2>15 DEF delete_version, Throw
    <3> HIDE DEF w
    <3>3. \A i \in DOMAIN write_set'[t] : write_set'[t][i].type = "UPDATE" =>
             i \in DOMAIN write_set[t] /\ write_set'[t][i] = write_set[t][i]
      BY <3>1, <3>2, Appended
    <3> QED
      BY <2>5, <3>2, <3>3 DEF commit_mvcc_versions, abort
  <2>16. CASE update_record(t)
    <3>1. cur[t] \in Rids /\ heap[cur[t]].used
      BY <2>16 DEF update_record, TypeInv, ThreadTypes, OnRecord, Updating, WriterInv, NoInserts
    <3>2. /\ pc[t] = "heap" /\ pc'[t] = "map"
          /\ UNCHANGED <<chains, write_set, cur, rec>>
      BY <2>16, <3>1 DEF update_record
    <3>3. Covered(cur[t], rec[t].content)
      BY <3>1, <3>2 DEF ReadIsCurrent, HeapCovers, Ahead, Covered
    <3> QED
      BY <3>2, <3>3 DEF NotedCovers, Covered
  <2>17. CASE update_record_map(t)
    <3> DEFINE w == WriteRecord("UPDATE", cur[t], rec[t])
    <3>1. w \in WriteRecords /\ w.rid = cur[t] /\ w.row = rec[t]
      BY <2>17 DEF update_record_map, WriteRecord, WriteRecords, OnRecord, TypeInv, ThreadTypes
    <3>2. /\ pc[t] = "map" /\ pc'[t] \in {"idle", "row"}
          /\ append_write_record(t, w)
          /\ UNCHANGED <<chains, cur, rec>>
      BY <2>17 DEF update_record_map
    <3>3. Covered(cur[t], rec[t].content) /\ chains[cur[t]] # << >>
      BY <3>2 DEF NotedCovers
    <3> HIDE DEF w
    <3>4. \A i \in DOMAIN write_set'[t] :
             \/ i \in DOMAIN write_set[t] /\ write_set'[t][i] = write_set[t][i]
             \/ write_set'[t][i] = w
      BY <3>1, <3>2, Appended
    <3>5. ASSUME NEW i \in DOMAIN write_set'[t], write_set'[t][i] = w
          PROVE  /\ chains'[write_set'[t][i].rid] # << >>
                 /\ Covered(write_set[t][i].rid, write_set[t][i].row.content)'
      BY <3>1, <3>2, <3>3, <3>5 DEF Covered
    <3> QED
      BY <2>5, <3>2, <3>4, <3>5 DEF commit_mvcc_versions, abort
  <2>18. CASE is_unique(t) \/ insert_record(t) \/ insert_record_map(t) \/ insert_entry(t)
    BY <2>18 DEF is_unique, insert_record, insert_record_map, insert_entry, Updating
  <2>19. CASE commit_mvcc_versions(t) \/ finish_commit(t) \/ undone(t) \/ erased(t)
              \/ finish_abort(t)
    BY <2>6, <2>19 DEF commit_mvcc_versions, finish_commit, undone, erased, finish_abort
  <2>20. CASE erase_entry(t)
    BY <2>6, <2>20 DEF erase_entry
  <2>21. CASE rollback_single_operation(t)
    <3>1. UNCHANGED <<pc, write_set, chains, cur, rec>>
      BY <2>21 DEF rollback_single_operation
    <3>2. (Active(u)' <=> Active(u)) /\ \A r, content : Covered(r, content)' <=> Covered(r, content)
      BY <3>1 DEF Active, Covered
    <3> QED
      BY <1>1, <3>1, <3>2 DEF NotedCovers
  <2> QED
    BY <2>7, <2>8, <2>9, <2>10, <2>11, <2>12, <2>13, <2>14, <2>15, <2>16, <2>17, <2>18, <2>19,
       <2>20, <2>21, Zenon DEF Step, Server
<1> QED
  BY <1>3, <1>4

(* A thread that is about to write its slot does that next. *)
LEMMA AtHeap ==
    ASSUME NEW t \in Txns, Step(t), pc[t] = "heap"
    PROVE  update_record(t)
<1>1. ~Client(t) /\ ~commit(t) /\ ~abort(t)
  BY DEF Client, begin, Statement, InsertStatement, SetTransaction, commit, abort
<1>2. \A r \in Rids : ~lock_record(t, r) /\ ~scan_record(t, r) /\ ~unlock(t, r)
  BY DEF lock_record, scan_record, unlock
<1>3. /\ ~visit(t) /\ ~get_record(t) /\ ~delete_entry(t) /\ ~check_head(t)
      /\ ~update_version(t) /\ ~delete_version(t) /\ ~update_record_map(t)
  BY DEF visit, get_record, delete_entry, check_head, update_version, delete_version,
         update_record_map
<1>4. ~is_unique(t) /\ ~insert_record(t) /\ ~insert_record_map(t) /\ ~insert_entry(t)
  BY DEF is_unique, insert_record, insert_record_map, insert_entry
<1>5. /\ ~commit_mvcc_versions(t) /\ ~erase_entry(t) /\ ~finish_commit(t)
      /\ ~rollback_single_operation(t) /\ ~undone(t) /\ ~erased(t) /\ ~finish_abort(t)
  BY DEF commit_mvcc_versions, erase_entry, finish_commit, rollback_single_operation, undone,
         erased, finish_abort
<1> QED
  BY <1>1, <1>2, <1>3, <1>4, <1>5, Zenon DEF Step, Server

(* ... and HeapCovers. *)
LEMMA NextHeapCovers ==
    ASSUME LM!LockInv, WriterInv, CoverInv, NEW t \in Txns, Step(t), NEW r \in Rids
    PROVE  HeapCovers(r)'
<1>1. /\ TypeInv /\ NoInserts /\ LocksHeld /\ Pending(r) /\ HeapCovers(r)
      /\ Locked(t) /\ Updating(t) /\ ReadIsCurrent(t) /\ NotedCovers(t)
  BY DEF WriterInv, LocksHeld, NoInserts, CoverInv
<1>2. /\ chains \in [Rids -> Chain] /\ chains[r] \in Chain
      /\ Len(chains[r]) \in Nat /\ DOMAIN chains[r] = 1 .. Len(chains[r])
  <2>1. chains \in [Rids -> Chain] /\ chains[r] \in Chain
    BY <1>1 DEF TypeInv, SharedTypes
  <2>2. Len(chains[r]) \in Nat /\ DOMAIN chains[r] = 1 .. Len(chains[r])
    BY <2>1 DEF Chain
  <2> QED
    BY <2>1, <2>2
(* A version ahead of the slot stays so until the slot is written ... *)
<1>3. ASSUME NEW i \in DOMAIN chains[r], Ahead(r, i), NEW j, chains'[r][j] = chains[r][i]
      PROVE  Ahead(r, j)' \/ (update_record(t) /\ cur[t] = r)
  <2>1. PICK u \in Txns : u = chains[r][i].txn_id
    BY <1>1, <1>3 DEF Ahead, Pending, Owns
  <2>2. CASE u = t
    BY <1>3, <2>1, <2>2, AtHeap DEF Ahead
  <2>3. CASE u # t
    <3>1. Same(u)
      BY <1>1, <2>3, OthersStay
    <3> QED
      BY <1>3, <2>1, <3>1 DEF Ahead, Same
  <2> QED
    BY <2>2, <2>3
(* ... and is the work of the transaction that has locked the record. *)
<1>4. ASSUME LockedX(t, r), NEW i \in DOMAIN chains[r], VC!Uncommitted(chains[r][i])
      PROVE  VC!UncommittedOf(chains[r][i], t) /\ chains[r][i].txn_id = t
  <2>1. i \in 1 .. i
    BY <1>2
  <2>2. VC!UncommittedOf(chains[r][i], t)
    BY <1>1, <1>4, <2>1, OnlyOwn
  <2> QED
    BY <2>2 DEF VC!UncommittedOf
<1>5. CASE update_record(t) /\ cur[t] = r
  <2>1. heap[r].used /\ rec[t] = heap[r].row /\ rec[t] \in Rows /\ stmt[t].kind # "read"
    BY <1>1, <1>5
       DEF update_record, ReadIsCurrent, NoInserts, Updating, OnRecord, Writing, TypeInv, ThreadTypes
  <2>2. heap' = [heap EXCEPT ![r].row = Updated(t)] /\ chains' = chains
    BY <1>5, <2>1 DEF update_record
  <2>3. Updated(t).content = heap[r].row.content \cup {t}
    <3> DEFINE m == rec[t]
    <3>1. m \in Rows /\ m = heap[r].row
      BY <2>1
    <3> HIDE DEF m
    <3>2. [m EXCEPT !.content = m.content \cup {t}].content = m.content \cup {t}
      BY <3>1 DEF Rows
    <3> QED
      BY <3>1, <3>2 DEF Updated, m
  <2>4. heap'[r].row = Updated(t)
    <3> DEFINE slot == heap[r]
    <3>1. slot \in [used : BOOLEAN, row : Rows] /\ DOMAIN heap = Rids
      BY <1>1 DEF TypeInv, SharedTypes
    <3> HIDE DEF slot
    <3>2. [slot EXCEPT !.row = Updated(t)].row = Updated(t)
      BY <3>1
    <3> QED
      BY <2>2, <3>1, <3>2 DEF slot
  <2>5. LockedX(t, r)
    BY <1>1, <1>5, <2>1 DEF update_record, Locked, AtRecord, Writing
  <2>6. ASSUME NEW i \in DOMAIN chains[r], Ahead(r, i)
        PROVE  chains[r][i].data.content = heap[r].row.content \cup {t}
    BY <1>4, <2>1, <2>5, <2>6 DEF Ahead
  <2> QED
    BY <1>1, <2>2, <2>3, <2>4, <2>6 DEF HeapCovers
<1>6. CASE ~(update_record(t) /\ cur[t] = r) /\ heap'[r] # heap[r]
  <2> DEFINE w == write_set[t][pos[t]]
  <2>1. /\ rollback_single_operation(t)
        /\ pos[t] \in DOMAIN write_set[t]
        /\ w.type = "UPDATE"
        /\ heap' = [heap EXCEPT ![w.rid].row = w.row]
    BY <1>1, <1>6, SlotSteps DEF TypeInv, SharedTypes
  <2>2. w.rid = r /\ LockedX(t, r) /\ pc[t] = "undo" /\ chains' = chains
    BY <1>1, <1>6, <2>1, SlotWritersLock DEF rollback_single_operation, TypeInv, SharedTypes
  <2>3. Covered(r, w.row.content)
    BY <1>1, <2>1, <2>2 DEF NotedCovers
  <2>4. ASSUME NEW i \in DOMAIN chains[r]
        PROVE  ~VC!Uncommitted(chains[r][i])
    BY <1>1, <1>4, <2>2 DEF Pending, Owns, Active, Working
  <2> HIDE DEF w
  <2>5. heap'[r].row = w.row
    <3> DEFINE slot == heap[r]
    <3>1. slot \in [used : BOOLEAN, row : Rows] /\ DOMAIN heap = Rids
      BY <1>1 DEF TypeInv, SharedTypes
    <3> HIDE DEF slot
    <3>2. [slot EXCEPT !.row = w.row].row = w.row
      BY <3>1
    <3> QED
      BY <2>1, <2>2, <3>1, <3>2 DEF slot
  <2> QED
    BY <2>2, <2>3, <2>4, <2>5 DEF HeapCovers, Covered
<1>7. CASE ~(update_record(t) /\ cur[t] = r) /\ heap'[r] = heap[r]
  <2>1. ASSUME NEW i \in DOMAIN chains[r], NEW j, chains'[r][j] = chains[r][i]
        PROVE  chains'[r][j].data.content \subseteq heap'[r].row.content \/ Ahead(r, j)'
    BY <1>1, <1>3, <1>7, <2>1 DEF HeapCovers
  <2>2. CASE chains'[r] = chains[r]
    BY <2>1, <2>2 DEF HeapCovers
  <2>3. CASE commit_mvcc_versions(t)
    <3>1. /\ DOMAIN chains'[r] = DOMAIN chains[r]
          /\ \A i \in DOMAIN chains[r] :
                /\ chains'[r][i].txn_id = chains[r][i].txn_id
                /\ chains'[r][i].data = chains[r][i].data
                /\ VC!Uncommitted(chains'[r][i]) <=>
                      /\ VC!Uncommitted(chains[r][i])
                      /\ ~(r \in Written(t) /\ chains[r][i].txn_id = t)
      BY <1>1, <2>3, CommitChains
    <3>2. ASSUME NEW i \in DOMAIN chains[r], Ahead(r, i)
          PROVE  Ahead(r, i)'
      <4>1. PICK u \in Txns : u = chains[r][i].txn_id
        BY <1>1, <3>2 DEF Ahead, Pending, Owns
      <4>2. u # t
        BY <2>3, <3>2, <4>1 DEF Ahead, commit_mvcc_versions
      <4>3. Same(u)
        BY <1>1, <4>2, OthersStay
      <4> QED
        BY <3>1, <3>2, <4>1, <4>2, <4>3 DEF Ahead, Same
    <3> QED
      BY <1>1, <1>7, <3>1, <3>2 DEF HeapCovers
  <2>4. CASE abort(t) /\ chains'[r] # chains[r]
    <3>1. r \in Written(t)
      BY <1>1, <2>4, RollbackChains
    <3>2. PICK at \in [DOMAIN chains'[r] -> DOMAIN chains[r]] :
             \A i \in DOMAIN chains'[r] : chains'[r][i] = chains[r][at[i]]
      BY <1>1, <2>4, <3>1, RollbackChains
    <3>3. \A i \in DOMAIN chains'[r] : at[i] \in DOMAIN chains[r]
      BY <3>2
    <3> QED
      BY <2>1, <3>2, <3>3 DEF HeapCovers
  <2>5. CASE update_version(t) /\ chains'[r] # chains[r]
    <3>1. VC!UpdateSucceeds(chains[cur[t]], read_ts[t], t)
      BY <2>5 DEF update_version
    <3>2. /\ \A s \in Rids : s # cur[t] => chains'[s] = chains[s]
          /\ VC!UncommittedOf(chains'[cur[t]][1], t)
          /\ chains'[cur[t]][1].data = Updated(t)
          /\ \A i \in DOMAIN chains'[cur[t]] : i # 1 =>
                \E k \in DOMAIN chains[cur[t]] : chains'[cur[t]][i] = chains[cur[t]][k]
      BY <1>1, <2>5, <3>1, UpdateChains
    <3>3. r = cur[t]
      BY <2>5, <3>2
    <3>4. Ahead(r, 1)'
      <4>1. pc'[t] = "heap" /\ cur' = cur /\ rec' = rec
        BY <1>1, <2>5, <3>1 DEF update_version, GoTo, TypeInv, ThreadTypes
      <4>2. Updated(t).content = rec[t].content \cup {t}
        <5> DEFINE m == rec[t]
        <5>1. m \in Rows
          BY <1>1 DEF TypeInv, ThreadTypes
        <5> HIDE DEF m
        <5>2. [m EXCEPT !.content = m.content \cup {t}].content = m.content \cup {t}
          BY <5>1 DEF Rows
        <5> QED
          BY <5>2 DEF Updated, m
      <4> QED
        BY <3>2, <3>3, <4>1, <4>2 DEF Ahead, VC!UncommittedOf
    <3> QED
      BY <2>1, <3>2, <3>3, <3>4 DEF HeapCovers
  <2>6. CASE delete_version(t) /\ chains'[r] # chains[r]
    <3>1. cur[t] \in Rids /\ pc[t] = "version"
      BY <1>1, <2>6 DEF delete_version, TypeInv, ThreadTypes, OnRecord
    <3>2. \E chain : chains' = [chains EXCEPT ![cur[t]] = chain]
      BY <2>6 DEF delete_version
    <3>3. r = cur[t]
      BY <1>2, <2>6, <3>1, <3>2
    <3>4. LockedX(t, r)
      BY <1>1, <2>6, <3>3 DEF delete_version, Locked, AtRecord, Writing
    <3>5. ASSUME NEW k \in DOMAIN Found(t)
          PROVE  Found(t)[k].data.content \subseteq heap[r].row.content
      <4>1. CASE chains[r] = << >>
        BY <1>1, <3>1, <3>3, <3>5, <4>1, FoundChain
      <4>2. CASE chains[r] # << >>
        <5>1. Found(t) = chains[r]
          BY <1>1, <3>1, <3>3, <4>2, FoundChain
        <5>2. ~Ahead(r, k)
          BY <1>4, <3>1, <3>4, <3>5, <5>1 DEF Ahead
        <5> QED
          BY <1>1, <3>5, <5>1, <5>2 DEF HeapCovers
      <4> QED
        BY <4>1, <4>2
    <3>6. CASE VC!DeleteSucceeds(Found(t), read_ts[t], t)
      <4>1. /\ \E k \in DOMAIN Found(t) : chains'[r][1].data = Found(t)[k].data
            /\ \A i \in DOMAIN chains'[r] : i # 1 =>
                  i - 1 \in DOMAIN Found(t) /\ chains'[r][i] = Found(t)[i - 1]
        BY <1>1, <2>6, <3>3, <3>6, DeleteChains
      <4>2. \A i \in DOMAIN chains'[r] : chains'[r][i].data.content \subseteq heap[r].row.content
        BY <3>5, <4>1
      <4> QED
        BY <1>7, <4>2 DEF HeapCovers
    <3>7. CASE ~VC!DeleteSucceeds(Found(t), read_ts[t], t)
      <4>1. chains' = [chains EXCEPT ![r] = Found(t)]
        BY <2>6, <3>3, <3>7 DEF delete_version, Found
      <4>2. chains'[r] = Found(t)
        BY <1>2, <4>1
      <4> QED
        BY <1>7, <3>5, <4>2 DEF HeapCovers
    <3> QED
      BY <3>6, <3>7
  <2>7. chains'[r] = chains[r] \/ chains' # chains
    OBVIOUS
  <2> QED
    BY <2>2, <2>3, <2>4, <2>5, <2>6, <2>7, ChainSteps
<1> QED
  BY <1>5, <1>6, <1>7

-----------------------------------------------------------------------------
(* No update is lost. *)

(* Every step preserves NoLostUpdate: one case per action that writes      *)
(* chains.  A new version contains what the slot contains; a version that  *)
(* becomes committed has only deletions above it.                          *)
LEMMA NextNoLostUpdate ==
    ASSUME LM!LockInv, WriterInv, CoverInv, NoLostUpdate, NEW t \in Txns, Step(t)
    PROVE  NoLostUpdate'
<1> SUFFICES ASSUME NEW r \in Rids, NEW i \in DOMAIN chains'[r], NEW j \in DOMAIN chains'[r],
                    i < j, ~VC!Uncommitted(chains'[r][j]), ~chains'[r][i].is_deleted
             PROVE  chains'[r][j].data.content \subseteq chains'[r][i].data.content
  BY DEF NoLostUpdate
<1>1. /\ TypeInv /\ NoInserts /\ LocksHeld /\ Pending(r) /\ HeapCovers(r)
      /\ Locked(t) /\ ReadIsCurrent(t)
  BY DEF WriterInv, LocksHeld, CoverInv
<1>2. chains \in [Rids -> Chain] /\ TypeInv'
  <2>1. [Next]_vars
    BY DEF Next, Step
  <2> QED
    BY <1>1, <2>1, NextTypes DEF TypeInv, SharedTypes
<1>3. chains[r] \in Chain /\ chains'[r] \in Chain
  BY <1>2 DEF TypeInv, SharedTypes
<1>4. i \in Nat \ {0} /\ j \in Nat \ {0}
  BY <1>3 DEF Chain
<1>5. ASSUME NEW k \in DOMAIN chains[r], NEW l \in DOMAIN chains[r], k < l,
             ~VC!Uncommitted(chains[r][l]), ~chains[r][k].is_deleted
      PROVE  chains[r][l].data.content \subseteq chains[r][k].data.content
  BY <1>5 DEF NoLostUpdate
<1>6. CASE chains'[r] = chains[r]
  BY <1>5, <1>6
<1>7. CASE commit_mvcc_versions(t)
  <2>1. /\ DOMAIN chains'[r] = DOMAIN chains[r]
        /\ \A k \in DOMAIN chains[r] :
              /\ chains'[r][k].data = chains[r][k].data
              /\ chains'[r][k].is_deleted = chains[r][k].is_deleted
    BY <1>1, <1>7, CommitChains
  <2>2. ~VC!Uncommitted(chains[r][j])
    BY <1>1, <2>1 DEF Pending
  <2> QED
    BY <1>5, <2>1, <2>2
<1>8. CASE abort(t) /\ chains'[r] # chains[r]
  <2>1. r \in Written(t)
    BY <1>1, <1>8, RollbackChains
  <2>2. PICK at \in [DOMAIN chains'[r] -> DOMAIN chains[r]] :
           /\ \A k \in DOMAIN chains'[r] : chains'[r][k] = chains[r][at[k]]
           /\ \A k, l \in DOMAIN chains'[r] : k < l => at[k] < at[l]
    BY <1>1, <1>8, <2>1, RollbackChains
  <2>3. /\ at[i] \in DOMAIN chains[r] /\ at[j] \in DOMAIN chains[r] /\ at[i] < at[j]
        /\ chains'[r][i] = chains[r][at[i]] /\ chains'[r][j] = chains[r][at[j]]
    BY <2>2
  <2> QED
    BY <1>5, <2>3
<1>9. CASE update_version(t) /\ chains'[r] # chains[r]
  <2>1. VC!UpdateSucceeds(chains[cur[t]], read_ts[t], t)
    BY <1>9 DEF update_version
  <2>2. /\ \A s \in Rids : s # cur[t] => chains'[s] = chains[s]
        /\ chains'[cur[t]][1].data = Updated(t)
        /\ \A k \in DOMAIN chains'[cur[t]] : k # 1 =>
              \E l \in DOMAIN chains[cur[t]] :
                 /\ chains'[cur[t]][k] = chains[cur[t]][l]
                 /\ l = IF VC!OwnHead(chains[cur[t]], t) THEN k ELSE k - 1
    BY <1>1, <1>9, <2>1, UpdateChains
  <2>3. r = cur[t] /\ j # 1
    BY <1>4, <1>9, <2>2
  <2>4. PICK l \in DOMAIN chains[r] : /\ chains'[r][j] = chains[r][l]
                                      /\ l = IF VC!OwnHead(chains[r], t) THEN j ELSE j - 1
    BY <2>2, <2>3
  <2>5. CASE i = 1
    <3>1. rec[t] = heap[r].row /\ rec[t] \in Rows
      BY <1>1, <1>9, <2>3 DEF update_version, ReadIsCurrent, TypeInv, ThreadTypes
    <3>2. chains[r][l].data.content \subseteq heap[r].row.content
      BY <1>1, <2>4 DEF HeapCovers, Ahead
    <3>3. rec[t].content \subseteq Updated(t).content
      <4> DEFINE m == rec[t]
      <4>1. m \in Rows
        BY <3>1
      <4> HIDE DEF m
      <4>2. m.content \subseteq [m EXCEPT !.content = m.content \cup {t}].content
        BY <4>1 DEF Rows
      <4> QED
        BY <4>2 DEF Updated, m
    <3> QED
      BY <2>2, <2>3, <2>4, <2>5, <3>1, <3>2, <3>3
  <2>6. CASE i # 1
    <3>1. PICK k \in DOMAIN chains[r] : /\ chains'[r][i] = chains[r][k]
                                        /\ k = IF VC!OwnHead(chains[r], t) THEN i ELSE i - 1
      BY <2>2, <2>3, <2>6
    <3>2. k < l
      BY <1>4, <2>4, <3>1
    <3> QED
      BY <1>5, <2>4, <3>1, <3>2
  <2> QED
    BY <2>5, <2>6
<1>10. CASE delete_version(t) /\ chains'[r] # chains[r]
  <2>1. cur[t] \in Rids
    BY <1>1, <1>10 DEF delete_version, TypeInv, ThreadTypes, OnRecord
  <2>2. \E chain : chains' = [chains EXCEPT ![cur[t]] = chain]
    BY <1>10 DEF delete_version
  <2>3. r = cur[t]
    BY <1>2, <1>10, <2>1, <2>2
  <2>4. ASSUME NEW k \in DOMAIN Found(t), NEW l \in DOMAIN Found(t), k < l,
               ~VC!Uncommitted(Found(t)[l]), ~Found(t)[k].is_deleted
        PROVE  Found(t)[l].data.content \subseteq Found(t)[k].data.content
    <3>1. CASE chains[r] = << >>
      <4>1. k = 1 /\ l = 1
        BY <1>1, <2>1, <2>3, <3>1, FoundChain
      <4> QED
        BY <2>4, <4>1
    <3>2. CASE chains[r] # << >>
      <4>1. Found(t) = chains[r]
        BY <1>1, <2>1, <2>3, <3>2, FoundChain
      <4> QED
        BY <1>5, <2>4, <4>1
    <3> QED
      BY <3>1, <3>2
  <2>5. CASE VC!DeleteSucceeds(Found(t), read_ts[t], t)
    <3>1. /\ chains'[r][1].is_deleted
          /\ \A k \in DOMAIN chains'[r] : k # 1 =>
                k - 1 \in DOMAIN Found(t) /\ chains'[r][k] = Found(t)[k - 1]
      BY <1>1, <1>10, <2>3, <2>5, DeleteChains
    <3>2. i # 1 /\ j # 1 /\ i - 1 < j - 1
      BY <1>4, <3>1
    <3> QED
      BY <2>4, <3>1, <3>2
  <2>6. CASE ~VC!DeleteSucceeds(Found(t), read_ts[t], t)
    <3>1. chains' = [chains EXCEPT ![r] = Found(t)]
      BY <1>10, <2>3, <2>6 DEF delete_version, Found
    <3>2. chains'[r] = Found(t)
      BY <1>2, <3>1
    <3> QED
      BY <2>4, <3>2
  <2> QED
    BY <2>5, <2>6
<1>11. chains'[r] = chains[r] \/ chains' # chains
  OBVIOUS
<1> QED
  BY <1>6, <1>7, <1>8, <1>9, <1>10, <1>11, ChainSteps

(* CoverInv, and with it NoLostUpdate, holds in every state. *)
LEMMA CoverInvHolds ==
    ASSUME "insert" \notin Kinds
    PROVE  Spec => [](CoverInv /\ NoLostUpdate)
<1>1. Init => CoverInv /\ NoLostUpdate
  BY DEF Init, CoverInv, ReadIsCurrent, NotedCovers, HeapCovers, NoLostUpdate
<1>2. LM!LockInv /\ WriterInv /\ CoverInv /\ NoLostUpdate /\ [Next]_vars
        => CoverInv' /\ NoLostUpdate'
  <2> SUFFICES ASSUME LM!LockInv, WriterInv, CoverInv, NoLostUpdate, [Next]_vars
               PROVE  CoverInv' /\ NoLostUpdate'
    OBVIOUS
  <2>1. CASE UNCHANGED vars
    <3>1. UNCHANGED <<chains, heap, pc, cur, rec, write_set>>
      BY <2>1 DEF vars, data, local
    <3>2. NoLostUpdate'
      BY <3>1 DEF NoLostUpdate
    <3>3. \A t \in Txns : ReadIsCurrent(t)' /\ NotedCovers(t)'
      BY <3>1 DEF CoverInv, ReadIsCurrent, NotedCovers, Covered, Active
    <3>4. \A r \in Rids : HeapCovers(r)'
      BY <3>1 DEF CoverInv, HeapCovers, Ahead
    <3> QED
      BY <3>2, <3>3, <3>4 DEF CoverInv
  <2>2. CASE Next
    <3>1. PICK t \in Txns : Step(t)
      BY <2>2 DEF Next, Step
    <3>2. NoLostUpdate'
      BY <3>1, NextNoLostUpdate
    <3>3. \A u \in Txns : ReadIsCurrent(u)' /\ NotedCovers(u)'
      BY <3>1, NextReadIsCurrent, NextNotedCovers DEF CoverInv
    <3>4. \A r \in Rids : HeapCovers(r)'
      BY <3>1, NextHeapCovers
    <3> QED
      BY <3>2, <3>3, <3>4 DEF CoverInv
  <2> QED
    BY <2>1, <2>2
<1> QED
  BY <1>1, <1>2, ServerLockInv, WriterInvHolds, PTL DEF Spec

(* Whatever updates, deletes, commits and aborts run at once, what a       *)
(* committed version of a record contains is in every later live version:  *)
(* the slot is read under the exclusive lock, and commit gives the lock    *)
(* back only after the versions carry their timestamps.                    *)
THEOREM UpdatesAreKept ==
    ASSUME "insert" \notin Kinds
    PROVE  Spec => []NoLostUpdate
  BY CoverInvHolds, PTL

-----------------------------------------------------------------------------
(* Whose writes are in a slot: those of transactions that commit, and      *)
(* those of the one that has the record locked and can still undo them.    *)

UpdateAt(t, i, r) ==
    /\ i \in DOMAIN write_set[t]
    /\ write_set[t][i].type = "UPDATE" /\ write_set[t][i].rid = r

InFlight(t, r) ==
    /\ Active(t) \/ pc[t] = "undo"
    /\ \/ pc[t] = "map" /\ cur[t] = r
       \/ \E i \in DOMAIN write_set[t] : UpdateAt(t, i, r) /\ (pc[t] = "undo" => i <= pos[t])

SlotCommitted(r) ==
    \A u \in heap[r].row.content : Committing(u) \/ InFlight(u, r)

(* What an update notes for its abort is committed, or its own earlier     *)
(* update, which the abort undoes after this one.                          *)
NotedCommitted(t) ==
    /\ pc[t] = "map" => \A u \in rec[t].content :
          Committing(u) \/ (u = t /\ \E i \in DOMAIN write_set[t] : UpdateAt(t, i, cur[t]))
    /\ Active(t) \/ pc[t] = "undo" =>
          \A i \in DOMAIN write_set[t] : write_set[t][i].type = "UPDATE" =>
             \A u \in write_set[t][i].row.content :
                \/ Committing(u)
                \/ u = t /\ \E j \in 1 .. (i - 1) : UpdateAt(t, j, write_set[t][i].rid)

CommittedInv ==
    /\ \A t \in Txns : NotedCommitted(t)
    /\ \A r \in Rids : SlotCommitted(r)

(* A commit does not turn back. *)
LEMMA CommittingStays ==
    ASSUME TypeInv, NEW t \in Txns, Step(t), NEW u \in Txns, Committing(u)
    PROVE  Committing(u)'
<1>1. CASE u # t
  BY <1>1, OthersStay DEF Same, Committing
<1>2. CASE u = t
  <2>1. pc \in [Txns -> Steps] /\ pc[t] \in {"versions", "unlock", "erase", "committed"}
    BY <1>2 DEF Committing, TypeInv, ThreadTypes
  <2> USE <1>2, <2>1 DEF GoTo, Committing
  <2>2. CASE Client(t) \/ commit(t) \/ abort(t)
    BY <2>2 DEF Client, begin, Statement, InsertStatement, SetTransaction, commit, abort
  <2>3. ASSUME NEW r \in Rids, lock_record(t, r) \/ scan_record(t, r)
        PROVE  FALSE
    BY <2>3 DEF lock_record, scan_record
  <2>4. ASSUME NEW r \in Rids, unlock(t, r)
        PROVE  Committing(t)'
    BY <2>4 DEF unlock
  <2>5. CASE visit(t) \/ get_record(t) \/ delete_entry(t) \/ check_head(t)
    BY <2>5 DEF visit, get_record, delete_entry, check_head
  <2>6. CASE update_version(t) \/ delete_version(t) \/ update_record(t) \/ update_record_map(t)
    BY <2>6 DEF update_version, delete_version, update_record, update_record_map
  <2>7. CASE is_unique(t) \/ insert_record(t) \/ insert_record_map(t) \/ insert_entry(t)
    BY <2>7 DEF is_unique, insert_record, insert_record_map, insert_entry
  <2>8. CASE commit_mvcc_versions(t) \/ erase_entry(t) \/ finish_commit(t)
    BY <2>8 DEF commit_mvcc_versions, erase_entry, finish_commit
  <2>9. CASE rollback_single_operation(t) \/ undone(t) \/ erased(t) \/ finish_abort(t)
    BY <2>9 DEF rollback_single_operation, undone, erased, finish_abort
  <2> QED
    BY <2>2, <2>3, <2>4, <2>5, <2>6, <2>7, <2>8, <2>9, Zenon DEF Step, Server
<1> QED
  BY <1>1, <1>2

(* A transaction whose write can still be undone has the record locked. *)
LEMMA InFlightLocks ==
    ASSUME WriterInv, NEW t \in Txns, NEW r \in Rids, InFlight(t, r)
    PROVE  LockedX(t, r)
<1>1. Locked(t) /\ Updating(t)
  BY DEF WriterInv, LocksHeld, NoInserts
<1>2. CASE pc[t] = "map" /\ cur[t] = r
  BY <1>1, <1>2 DEF Locked, AtRecord, Writing, Updating
<1>3. CASE \E i \in DOMAIN write_set[t] : UpdateAt(t, i, r)
  <2>1. r \in Written(t)
    BY <1>3 DEF Written, UpdateAt
  <2> QED
    BY <1>1, <2>1 DEF Locked, Unended, InFlight
<1> QED
  BY <1>2, <1>3 DEF InFlight

(* So the holder of the lock finds committed writes and its own. *)
LEMMA HolderFinds ==
    ASSUME LM!LockInv, WriterInv, NEW t \in Txns, NEW r \in Rids, SlotCommitted(r), LockedX(t, r),
           NEW u \in heap[r].row.content
    PROVE  Committing(u) \/ (u = t /\ InFlight(t, r))
<1>1. u \in Txns
  <2>1. heap[r].row \in Rows
    BY DEF WriterInv, TypeInv, SharedTypes
  <2> QED
    BY <2>1 DEF Rows
<1>2. CASE InFlight(u, r)
  BY <1>1, <1>2, InFlightLocks, OneWriter
<1> QED
  BY <1>2 DEF SlotCommitted

(* A write in flight stays so until the transaction commits, or abort      *)
(* undoes it.                                                              *)
LEMMA InFlightStays ==
    ASSUME WriterInv, NEW t \in Txns, Step(t), NEW u \in Txns, NEW r \in Rids, InFlight(u, r)
    PROVE  \/ InFlight(u, r)' \/ Committing(u)'
           \/ u = t /\ rollback_single_operation(t) /\ UpdateAt(t, pos[t], r)
<1>1. TypeInv /\ Updating(t)
  BY DEF WriterInv, NoInserts
<1>2. CASE u # t
  BY <1>1, <1>2, OthersStay DEF Same, InFlight, Active, UpdateAt
<1>3. CASE u = t
  <2>1. /\ pc \in [Txns -> Steps] /\ pos \in [Txns -> Nat]
        /\ write_set[t] \in Seq(WriteRecords)
        /\ Active(t) \/ pc[t] = "undo"
    BY <1>1, <1>3 DEF InFlight, TypeInv, ThreadTypes
  <2>2. \A s \in Steps : GoTo(t, s) => pc'[t] = s
    BY <2>1 DEF GoTo
  <2>3. RowDone(t) \/ Fail(t) => pc'[t] \in {"idle", "row"}
    BY <1>1, <2>1, RowEnds
  (* Steps of a working transaction *)
  <2>4. ASSUME Active(t), Active(t)', pc[t] # "map",
               \A i \in DOMAIN write_set[t] :
                  i \in DOMAIN write_set'[t] /\ write_set'[t][i] = write_set[t][i]
        PROVE  InFlight(t, r)'
    BY <1>3, <2>4 DEF InFlight, Active, Working, UpdateAt
  <2> USE <1>1, <1>3, <2>1, <2>2, <2>3 DEF Steps, Working, Active, local, data
  <2>5. CASE Client(t)
    BY <2>4, <2>5 DEF Client, begin, Statement, InsertStatement, SetTransaction
  <2>6. CASE commit(t)
    BY <2>6 DEF commit, Committing
  <2>7. CASE abort(t)
    <3>1. /\ pc[t] \in {"idle", "throw"} /\ pc'[t] = "undo"
          /\ pos'[t] = Len(write_set[t]) /\ write_set' = write_set
      BY <2>7 DEF abort
    <3>2. PICK i \in DOMAIN write_set[t] : UpdateAt(t, i, r)
      BY <3>1 DEF InFlight
    <3>3. i <= Len(write_set[t])
      BY <3>2
    <3> QED
      BY <3>1, <3>2, <3>3 DEF InFlight, UpdateAt
  <2>8. ASSUME NEW s \in Rids, lock_record(t, s) \/ scan_record(t, s)
        PROVE  InFlight(t, r)'
    BY <2>4, <2>8 DEF lock_record, scan_record
  <2>9. ASSUME NEW s \in Rids, unlock(t, s)
        PROVE  FALSE
    BY <2>9 DEF unlock
  <2>10. CASE visit(t) \/ get_record(t) \/ check_head(t) \/ update_version(t)
    BY <2>4, <2>10 DEF visit, get_record, check_head, update_version, Throw
  <2>11. CASE delete_entry(t)
    <3> DEFINE w == WriteRecord("IX_DELETE", cur[t], Row(rec[t].key, {}))
    <3>1. w \in WriteRecords
      BY <2>11 DEF delete_entry, WriteRecord, WriteRecords, Row, Rows, OnRecord, TypeInv, ThreadTypes
    <3>2. append_write_record(t, w) /\ pc[t] = "index" /\ pc'[t] = "check"
      BY <2>11 DEF delete_entry
    <3> HIDE DEF w
    <3> QED
      BY <2>4, <3>1, <3>2, Appended
  <2>12. CASE delete_version(t)
    <3> DEFINE w == WriteRecord("DELETE", cur[t], rec[t])
    <3>1. w \in WriteRecords
      BY <2>12 DEF delete_version, WriteRecord, WriteRecords, OnRecord, TypeInv, ThreadTypes
    <3>2. /\ pc[t] = "version" /\ pc'[t] \in {"idle", "row", "throw"}
          /\ append_write_record(t, w) \/ write_set' = write_set
      BY <2>12 DEF delete_version, Throw
    <3> HIDE DEF w
    <3> QED
      BY <2>4, <3>1, <3>2, Appended
  <2>13. CASE update_record(t)
    BY <2>4, <2>13 DEF update_record
  <2>14. CASE update_record_map(t)
    <3> DEFINE w == WriteRecord("UPDATE", cur[t], rec[t])
    <3>1. w \in WriteRecords /\ w.rid = cur[t] /\ w.type = "UPDATE"
      BY <2>14 DEF update_record_map, WriteRecord, WriteRecords, OnRecord, TypeInv, ThreadTypes
    <3>2. pc[t] = "map" /\ pc'[t] \in {"idle", "row"} /\ append_write_record(t, w)
      BY <2>14 DEF update_record_map
    <3> HIDE DEF w
    <3>3. /\ \A i \in DOMAIN write_set[t] :
                i \in DOMAIN write_set'[t] /\ write_set'[t][i] = write_set[t][i]
          /\ Len(write_set[t]) + 1 \in DOMAIN write_set'[t]
          /\ write_set'[t][Len(write_set[t]) + 1] = w
      BY <3>1, <3>2, Appended
    <3> QED
      BY <3>1, <3>2, <3>3 DEF InFlight, UpdateAt
  <2>15. CASE is_unique(t) \/ insert_record(t) \/ insert_record_map(t) \/ insert_entry(t)
    BY <2>15 DEF is_unique, insert_record, insert_record_map, insert_entry, Updating
  <2>16. CASE commit_mvcc_versions(t) \/ erase_entry(t) \/ finish_commit(t) \/ erased(t)
              \/ finish_abort(t)
    BY <2>16 DEF commit_mvcc_versions, erase_entry, finish_commit, erased, finish_abort
  <2>17. CASE undone(t)
    <3>1. pc[t] = "undo" /\ pos[t] = 0
      BY <2>17 DEF undone
    <3>2. PICK i \in DOMAIN write_set[t] : i <= 0
      BY <3>1 DEF InFlight
    <3> QED
      BY <3>2
  <2>18. CASE rollback_single_operation(t)
    <3>1. /\ pc[t] = "undo" /\ pc' = pc /\ write_set' = write_set
          /\ pos[t] > 0 /\ pos'[t] = pos[t] - 1
      BY <2>18 DEF rollback_single_operation
    <3>2. PICK i \in DOMAIN write_set[t] : UpdateAt(t, i, r) /\ i <= pos[t]
      BY <3>1 DEF InFlight
    <3>3. CASE i = pos[t]
      BY <2>18, <3>2, <3>3
    <3>4. CASE i # pos[t]
      <4>1. i <= pos'[t]
        BY <3>1, <3>2, <3>4
      <4> QED
        BY <3>1, <3>2, <4>1 DEF InFlight, UpdateAt
    <3> QED
      BY <3>3, <3>4
  <2> QED
    BY <2>5, <2>6, <2>7, <2>8, <2>9, <2>10, <2>11, <2>12, <2>13, <2>14, <2>15, <2>16, <2>17,
       <2>18, Zenon DEF Step, Server
<1> QED
  BY <1>2, <1>3

(* Every step preserves SlotCommitted ... *)
LEMMA NextSlotCommitted ==
    ASSUME LM!LockInv, WriterInv, CoverInv, CommittedInv, NEW t \in Txns, Step(t), NEW r \in Rids
    PROVE  SlotCommitted(r)'
<1>1. /\ TypeInv /\ SlotCommitted(r) /\ NotedCommitted(t) /\ Updating(t) /\ ReadIsCurrent(t)
      /\ heap \in [Rids -> [used : BOOLEAN, row : Rows]] /\ pc \in [Txns -> Steps]
  BY DEF WriterInv, CommittedInv, CoverInv, NoInserts, TypeInv, SharedTypes, ThreadTypes
<1>2. \A u \in heap[r].row.content : u \in Txns
  BY <1>1 DEF Rows
<1>3. \A m \in [used : BOOLEAN, row : Rows] : \A row : [m EXCEPT !.row = row].row = row
  OBVIOUS
<1>4. CASE rollback_single_operation(t) /\ UpdateAt(t, pos[t], r)
  <2> DEFINE w == write_set[t][pos[t]]
  <2>1. w.type = "UPDATE" /\ w.rid = r /\ pos[t] \in DOMAIN write_set[t] /\ heap[r].used
    BY <1>1, <1>4 DEF UpdateAt, Updating, WriterInv, NoInserts
  <2>2. /\ heap' = [heap EXCEPT ![r].row = w.row]
        /\ pc[t] = "undo" /\ pc' = pc /\ write_set' = write_set
    BY <1>4, <2>1 DEF rollback_single_operation, Undo
  <2>3. pos[t] \in Nat /\ pos'[t] = pos[t] - 1
    BY <1>1, <1>4 DEF rollback_single_operation, TypeInv, ThreadTypes
  <2>4. \A u \in w.row.content :
           \/ Committing(u)
           \/ u = t /\ \E j \in 1 .. (pos[t] - 1) : UpdateAt(t, j, r)
    BY <1>1, <2>1, <2>2 DEF NotedCommitted
  <2>5. w.row.content \subseteq Txns
    <3>1. w \in WriteRecords
      BY <1>1, <2>1 DEF TypeInv, ThreadTypes
    <3> QED
      BY <3>1 DEF WriteRecords, Rows
  <2> HIDE DEF w
  <2>6. heap'[r].row = w.row
    BY <1>1, <1>3, <2>2
  <2>7. ASSUME NEW u \in w.row.content
        PROVE  Committing(u)' \/ InFlight(u, r)'
    <3>1. CASE Committing(u)
      BY <1>1, <2>5, <2>7, <3>1, CommittingStays
    <3>2. CASE u = t /\ \E j \in 1 .. (pos[t] - 1) : UpdateAt(t, j, r)
      BY <2>2, <2>3, <3>2 DEF InFlight, UpdateAt
    <3> QED
      BY <2>4, <3>1, <3>2
  <2> QED
    BY <2>6, <2>7 DEF SlotCommitted
<1>5. CASE ~(rollback_single_operation(t) /\ UpdateAt(t, pos[t], r))
  <2>1. ASSUME NEW u \in heap[r].row.content
        PROVE  Committing(u)' \/ InFlight(u, r)'
    BY <1>1, <1>2, <1>5, <2>1, CommittingStays, InFlightStays DEF SlotCommitted
  <2>2. CASE heap'[r] = heap[r]
    BY <2>1, <2>2 DEF SlotCommitted
  <2>3. CASE heap'[r] # heap[r]
    <3>1. /\ update_record(t) \/ rollback_single_operation(t)
          /\ rollback_single_operation(t) =>
                /\ pos[t] \in DOMAIN write_set[t] /\ write_set[t][pos[t]].type = "UPDATE"
                /\ heap' = [heap EXCEPT ![write_set[t][pos[t]].rid].row = write_set[t][pos[t]].row]
          /\ update_record(t) => heap' = [heap EXCEPT ![cur[t]].row = Updated(t)]
      <4>1. update_record(t) => ~rollback_single_operation(t)
        BY DEF update_record, rollback_single_operation
      <4> QED
        BY <2>3, <4>1, SlotSteps
    <3>2. CASE rollback_single_operation(t)
      BY <1>1, <1>5, <2>3, <3>1, <3>2 DEF UpdateAt
    <3>3. CASE update_record(t)
      <4>1. r = cur[t]
        BY <1>1, <2>3, <3>1, <3>3
      <4>2. heap'[r].row = Updated(t)
        BY <1>1, <1>3, <3>1, <3>3, <4>1
      <4>3. pc[t] = "heap" /\ heap[r].used /\ cur' = cur
        BY <1>1, <3>3, <4>1 DEF update_record, Updating, OnRecord, WriterInv, NoInserts
      <4>4. pc'[t] = "map" /\ cur'[t] = r
        BY <1>1, <3>3, <4>1, <4>3 DEF update_record, GoTo
      <4>5. Updated(t).content \subseteq heap[r].row.content \cup {t}
        <5> DEFINE m == rec[t]
        <5>1. m \in Rows /\ m = heap[r].row
          BY <1>1, <4>1, <4>3 DEF ReadIsCurrent, TypeInv, ThreadTypes
        <5> HIDE DEF m
        <5>2. [m EXCEPT !.content = m.content \cup {t}].content = m.content \cup {t}
          BY <5>1 DEF Rows
        <5> QED
          BY <5>1, <5>2 DEF Updated, m
      <4>6. InFlight(t, r)'
        BY <4>4 DEF InFlight, Active, Working
      <4> QED
        BY <2>1, <4>2, <4>5, <4>6 DEF SlotCommitted
    <3> QED
      BY <3>1, <3>2, <3>3
  <2> QED
    BY <2>2, <2>3
<1> QED
  BY <1>4, <1>5

(* ... and NotedCommitted. *)
LEMMA NextNotedCommitted ==
    ASSUME LM!LockInv, WriterInv, CoverInv, CommittedInv, NEW t \in Txns, Step(t), NEW u \in Txns
    PROVE  NotedCommitted(u)'
<1>1. /\ TypeInv /\ Updating(t) /\ NotedCommitted(u) /\ pc \in [Txns -> Steps]
      /\ write_set \in [Txns -> Seq(WriteRecords)]
  BY DEF WriterInv, CommittedInv, NoInserts, TypeInv, ThreadTypes
<1>2. \A v \in Txns : Committing(v) => Committing(v)'
  BY <1>1, CommittingStays
<1>3. rec[u].content \subseteq Txns
  <2>1. rec[u] \in Rows
    BY <1>1 DEF TypeInv, ThreadTypes
  <2> QED
    BY <2>1 DEF Rows
<1>4. \A i \in DOMAIN write_set[u] : write_set[u][i].row.content \subseteq Txns
  <2>1. \A i \in DOMAIN write_set[u] : write_set[u][i] \in WriteRecords
    BY <1>1
  <2> QED
    BY <2>1 DEF WriteRecords, Rows
<1>5. CASE u # t
  <2>1. Same(u)
    BY <1>1, <1>5, OthersStay
  <2> QED
    BY <1>1, <1>2, <1>3, <1>4, <2>1 DEF NotedCommitted, Same, UpdateAt, Active
<1>6. CASE u = t
  <2>1. \A s \in Steps : GoTo(t, s) => pc'[t] = s
    BY <1>1 DEF GoTo
  <2>2. RowDone(t) \/ Fail(t) => pc'[t] \in {"idle", "row"}
    BY <1>1, RowEnds
  (* What has been noted stays so. *)
  <2>3. ASSUME NEW i \in DOMAIN write_set[t], write_set[t][i].type = "UPDATE",
               Active(t) \/ pc[t] = "undo",
               \A j \in DOMAIN write_set[t] :
                  j \in DOMAIN write_set'[t] /\ write_set'[t][j] = write_set[t][j],
               NEW v \in write_set[t][i].row.content
        PROVE  \/ Committing(v)'
               \/ v = t /\ \E j \in 1 .. (i - 1) : UpdateAt(t, j, write_set[t][i].rid)'
    <3>1. CASE Committing(v)
      BY <1>2, <1>4, <1>6, <2>3, <3>1
    <3>2. CASE v = t /\ \E j \in 1 .. (i - 1) : UpdateAt(t, j, write_set[t][i].rid)
      BY <2>3, <3>2 DEF UpdateAt
    <3> QED
      BY <1>1, <1>6, <2>3, <3>1, <3>2 DEF NotedCommitted
  (* Steps that note no update *)
  <2>4. ASSUME Active(t) \/ pc[t] = "undo", pc'[t] # "map",
               \A j \in DOMAIN write_set[t] :
                  j \in DOMAIN write_set'[t] /\ write_set'[t][j] = write_set[t][j],
               \A i \in DOMAIN write_set'[t] : write_set'[t][i].type = "UPDATE" =>
                  i \in DOMAIN write_set[t]
        PROVE  NotedCommitted(t)'
    BY <2>3, <2>4 DEF NotedCommitted
  (* Steps after which there is nothing left to undo *)
  <2>5. ASSUME pc'[t] \in {"versions", "unlock", "erase", "committed", "abort_erase",
                           "abort_unlock", "aborted"}
        PROVE  NotedCommitted(t)'
    BY <2>5 DEF NotedCommitted, Active, Working
  <2> USE <1>1, <1>6, <2>1, <2>2 DEF Steps, Working, Active, local, data
  <2>6. CASE Client(t)
    BY <2>4, <2>6 DEF Client, begin, Statement, InsertStatement, SetTransaction
  <2>7. CASE commit(t)
    BY <2>5, <2>7 DEF commit
  <2>8. CASE abort(t)
    BY <2>4, <2>8 DEF abort
  <2>9. ASSUME NEW r \in Rids, lock_record(t, r) \/ scan_record(t, r)
        PROVE  NotedCommitted(t)'
    BY <2>4, <2>9 DEF lock_record, scan_record
  <2>10. ASSUME NEW r \in Rids, unlock(t, r)
         PROVE  NotedCommitted(t)'
    BY <2>5, <2>10 DEF unlock
  <2>11. CASE visit(t) \/ get_record(t) \/ check_head(t) \/ update_version(t)
    BY <2>4, <2>11 DEF visit, get_record, check_head, update_version, Throw
  <2>12. CASE delete_entry(t)
    <3> DEFINE w == WriteRecord("IX_DELETE", cur[t], Row(rec[t].key, {}))
    <3>1. w \in WriteRecords /\ w.type # "UPDATE"
      BY <2>12 DEF delete_entry, WriteRecord, WriteRecords, Row, Rows, OnRecord, TypeInv, ThreadTypes
    <3>2. append_write_record(t, w) /\ pc[t] = "index" /\ pc'[t] = "check"
      BY <2>12 DEF delete_entry
    <3> HIDE DEF w
    <3>3. /\ \A i \in DOMAIN write_set[t] :
                i \in DOMAIN write_set'[t] /\ write_set'[t][i] = write_set[t][i]
          /\ \A i \in DOMAIN write_set'[t] : write_set'[t][i].type = "UPDATE" =>
                i \in DOMAIN write_set[t]
      BY <3>1, <3>2, Appended
    <3> QED
      BY <2>4, <3>2, <3>3
  <2>13. CASE delete_version(t)
    <3> DEFINE w == WriteRecord("DELETE", cur[t], rec[t])
    <3>1. w \in WriteRecords /\ w.type # "UPDATE"
      BY <2>13 DEF delete_version, WriteRecord, WriteRecords, OnRecord, TypeInv, ThreadTypes
    <3>2. /\ pc[t] = "version" /\ pc'[t] \in {"idle", "row", "throw"}
          /\ append_write_record(t, w) \/ write_set' = write_set
      BY <2>13 DEF delete_version, Throw
    <3> HIDE DEF w
    <3>3. /\ \A i \in DOMAIN write_set[t] :
                i \in DOMAIN write_set'[t] /\ write_set'[t][i] = write_set[t][i]
          /\ \A i \in DOMAIN write_set'[t] : write_set'[t][i].type = "UPDATE" =>
                i \in DOMAIN write_set[t]
      BY <3>1, <3>2, Appended
    <3> QED
      BY <2>4, <3>2, <3>3
  <2>14. CASE update_record(t)
    <3>1. cur[t] \in Rids /\ heap[cur[t]].used /\ stmt[t].kind # "read" /\ Locked(t)
      BY <2>14
         DEF update_record, TypeInv, ThreadTypes, OnRecord, Updating, Writing, WriterInv, NoInserts,
             LocksHeld
    <3>2. /\ pc[t] = "heap" /\ pc'[t] = "map"
          /\ UNCHANGED <<write_set, cur, rec>>
      BY <2>14, <3>1 DEF update_record
    <3>3. LockedX(t, cur[t]) /\ SlotCommitted(cur[t]) /\ rec[t] = heap[cur[t]].row
      BY <3>1, <3>2 DEF Locked, AtRecord, Writing, CommittedInv, CoverInv, ReadIsCurrent
    <3>4. \A v \in rec[t].content : Committing(v) \/ (v = t /\ InFlight(t, cur[t]))
      BY <3>1, <3>3, HolderFinds
    <3>5. InFlight(t, cur[t]) => \E i \in DOMAIN write_set[t] : UpdateAt(t, i, cur[t])
      BY <3>2 DEF InFlight
    <3>6. \A v \in rec'[t].content :
             \/ Committing(v)'
             \/ v = t /\ \E i \in DOMAIN write_set'[t] : UpdateAt(t, i, cur[t])'
      BY <1>2, <1>3, <3>2, <3>4, <3>5 DEF UpdateAt
    <3> QED
      BY <2>3, <3>2, <3>6 DEF NotedCommitted
  <2>15. CASE update_record_map(t)
    <3> DEFINE w == WriteRecord("UPDATE", cur[t], rec[t])
    <3>1. w \in WriteRecords /\ w.rid = cur[t] /\ w.row = rec[t]
      BY <2>15 DEF update_record_map, WriteRecord, WriteRecords, OnRecord, TypeInv, ThreadTypes
    <3>2. pc[t] = "map" /\ pc'[t] \in {"idle", "row"} /\ append_write_record(t, w)
      BY <2>15 DEF update_record_map
    <3>3. \A v \in w.row.content :
             Committing(v) \/ (v = t /\ \E i \in DOMAIN write_set[t] : UpdateAt(t, i, w.rid))
      BY <3>1, <3>2 DEF NotedCommitted
    <3> HIDE DEF w
    <3>4. /\ DOMAIN write_set[t] = 1 .. Len(write_set[t]) /\ Len(write_set[t]) \in Nat
          /\ DOMAIN write_set'[t] = 1 .. (Len(write_set[t]) + 1)
          /\ \A i \in DOMAIN write_set[t] :
                i \in DOMAIN write_set'[t] /\ write_set'[t][i] = write_set[t][i]
          /\ write_set'[t][Len(write_set[t]) + 1] = w
      BY <3>1, <3>2, Appended
    <3>5. ASSUME NEW i \in DOMAIN write_set'[t], i \notin DOMAIN write_set[t],
                 NEW v \in write_set'[t][i].row.content
          PROVE  \/ Committing(v)'
                 \/ v = t /\ \E j \in 1 .. (i - 1) : UpdateAt(t, j, write_set[t][i].rid)'
      <4>1. i = Len(write_set[t]) + 1 /\ write_set'[t][i] = w /\ 1 .. (i - 1) = DOMAIN write_set[t]
        BY <3>4, <3>5
      <4>2. CASE Committing(v)
        BY <1>2, <1>3, <3>1, <3>5, <4>1, <4>2
      <4>3. CASE v = t /\ \E j \in DOMAIN write_set[t] : UpdateAt(t, j, w.rid)
        BY <3>4, <4>1, <4>3 DEF UpdateAt
      <4> QED
        BY <3>3, <3>5, <4>1, <4>2, <4>3
    <3> QED
      BY <2>3, <3>2, <3>4, <3>5 DEF NotedCommitted
  <2>16. CASE is_unique(t) \/ insert_record(t) \/ insert_record_map(t) \/ insert_entry(t)
    BY <2>16 DEF is_unique, insert_record, insert_record_map, insert_entry, Updating
  <2>17. CASE commit_mvcc_versions(t) \/ finish_commit(t) \/ undone(t) \/ erased(t)
              \/ finish_abort(t)
    BY <2>5, <2>17 DEF commit_mvcc_versions, finish_commit, undone, erased, finish_abort
  <2>18. CASE erase_entry(t)
    BY <2>5, <2>18 DEF erase_entry
  <2>19. CASE rollback_single_operation(t)
    BY <2>4, <2>19 DEF rollback_single_operation
  <2> QED
    BY <2>6, <2>7, <2>8, <2>9, <2>10, <2>11, <2>12, <2>13, <2>14, <2>15, <2>16, <2>17, <2>18,
       <2>19, Zenon DEF Step, Server
<1> QED
  BY <1>5, <1>6

(* CommittedInv holds in every state. *)
LEMMA CommittedInvHolds ==
    ASSUME "insert" \notin Kinds
    PROVE  Spec => []CommittedInv
<1>1. Init => CommittedInv
  <2> SUFFICES ASSUME Init PROVE CommittedInv
    OBVIOUS
  <2>1. \A r \in Rids : heap[r].row.content = {}
    BY DEF Init, Row, NoRow
  <2> QED
    BY <2>1 DEF Init, CommittedInv, NotedCommitted, SlotCommitted
<1>2. LM!LockInv /\ WriterInv /\ CoverInv /\ CommittedInv /\ [Next]_vars => CommittedInv'
  <2> SUFFICES ASSUME LM!LockInv, WriterInv, CoverInv, CommittedInv, [Next]_vars
               PROVE  CommittedInv'
    OBVIOUS
  <2>1. CASE UNCHANGED vars
    <3>1. UNCHANGED <<heap, pc, cur, rec, write_set, pos>>
      BY <2>1 DEF vars, data, local
    <3>2. \A t \in Txns : NotedCommitted(t)'
      BY <3>1 DEF CommittedInv, NotedCommitted, UpdateAt, Active, Committing
    <3>3. \A r \in Rids : SlotCommitted(r)'
      BY <3>1 DEF CommittedInv, SlotCommitted, InFlight, UpdateAt, Active, Committing
    <3> QED
      BY <3>2, <3>3 DEF CommittedInv
  <2>2. CASE Next
    <3>1. PICK t \in Txns : Step(t)
      BY <2>2 DEF Next, Step
    <3> QED
      BY <3>1, NextNotedCommitted, NextSlotCommitted DEF CommittedInv
  <2> QED
    BY <2>1, <2>2
<1>3. Spec => []CoverInv
  BY CoverInvHolds, PTL
<1> QED
  BY <1>1, <1>2, <1>3, ServerLockInv, WriterInvHolds, PTL DEF Spec

(* An update or delete that has locked its record and copies the slot      *)
(* reads committed content, or its own: no writer builds on a write that   *)
(* may still be undone.                                                    *)
THEOREM NoDirtyReadsByWriters ==
    ASSUME "insert" \notin Kinds
    PROVE  Spec => WritersReadCommitted
<1> DEFINE Reads(t) ==
       (pc[t] = "get" /\ stmt[t].kind # "read" /\ rec'[t] # rec[t]) =>
          \A u \in rec'[t].content \ {t} : Committing(u)
<1>1. LM!LockInv /\ WriterInv /\ CommittedInv /\ [Next]_vars => [\A t \in Txns : Reads(t)]_vars
  <2> SUFFICES ASSUME LM!LockInv, WriterInv, CommittedInv, Next,
                      NEW t \in Txns, pc[t] = "get", stmt[t].kind # "read", rec'[t] # rec[t],
                      NEW u \in rec'[t].content \ {t}
               PROVE  Committing(u)
    OBVIOUS
  <2>1. PICK s \in Txns : Step(s)
    BY DEF Next, Step
  <2>2. s = t
    BY <2>1, OthersStay DEF WriterInv, Same
  <2>3. rec' # rec /\ Step(t)
    BY <2>1, <2>2
  <2>4. get_record(t)
    BY <2>3, Zenon
       DEF Step, Server, Client, begin, Statement, InsertStatement, SetTransaction, commit, abort,
           lock_record, scan_record, visit, delete_entry, check_head, update_version,
           delete_version, update_record, update_record_map, is_unique, insert_record,
           insert_record_map, insert_entry, commit_mvcc_versions, erase_entry, finish_commit,
           unlock, undone, erased, finish_abort, rollback_single_operation, local
  <2>5. cur[t] \in Rids /\ Locked(t) /\ DOMAIN rec = Txns
    BY DEF WriterInv, TypeInv, ThreadTypes, OnRecord, LocksHeld
  <2>6. rec'[t] = heap[cur[t]].row
    BY <2>3, <2>4, <2>5 DEF get_record
  <2>7. LockedX(t, cur[t]) /\ SlotCommitted(cur[t])
    BY <2>5 DEF Locked, AtRecord, CommittedInv
  <2> QED
    BY <2>5, <2>6, <2>7, HolderFinds
<1>2. Spec => [][\A t \in Txns : Reads(t)]_vars
  BY <1>1, ServerLockInv, WriterInvHolds, CommittedInvHolds, PTL DEF Spec
<1> QED
  BY <1>2 DEF WritersReadCommitted

(* When an abort has returned, no slot contains what the transaction wrote *)
(* there: the undo loop meets every update, from the last to the first,    *)
(* and nobody else has been in between.                                    *)
THEOREM AbortsUndoUpdates ==
    ASSUME "insert" \notin Kinds
    PROVE  Spec => []AbortedIsUndone
<1>1. CommittedInv => AbortedIsUndone
  BY DEF CommittedInv, SlotCommitted, AbortedIsUndone, Committing, InFlight, Active, Working
<1> QED
  BY <1>1, CommittedInvHolds, PTL

-----------------------------------------------------------------------------
(* Timestamps along a chain.  A commit timestamp is drawn in one step and  *)
(* written in a later one; between the two the records are locked, so      *)
(* nothing younger can be written to their chains.                         *)

(* A chain whose timestamps are below limit: commit timestamps never rise  *)
(* along it, and a version expires when a version above it was committed.  *)
Stamped(chain, limit) ==
    /\ \A i \in DOMAIN chain : ~VC!Uncommitted(chain[i]) => chain[i].create_ts < limit
    /\ \A i, j \in DOMAIN chain :
          (i < j /\ ~VC!Uncommitted(chain[i]) /\ ~VC!Uncommitted(chain[j])) =>
              chain[j].create_ts <= chain[i].create_ts
    /\ \A j \in DOMAIN chain : chain[j].expire_ts # INT32_MAX =>
          /\ ~VC!Uncommitted(chain[j])
          /\ \E i \in DOMAIN chain :
                i < j /\ ~VC!Uncommitted(chain[i]) /\ chain[i].create_ts = chain[j].expire_ts

(* What t is about to stamp is younger than all that is committed. *)
StampsRise(t) ==
    pc[t] = "versions" =>
        \A r \in Written(t) : \A i \in DOMAIN chains[r] :
            ~VC!Uncommitted(chains[r][i]) => chains[r][i].create_ts <= commit_ts[t]

StampInv ==
    /\ \A r \in Rids : Stamped(chains[r], next_timestamp)
    /\ \A t \in Txns : commit_ts[t] < next_timestamp /\ StampsRise(t)
    /\ next_timestamp > 0

(* A version that is not committed goes on top, or over one that is not. *)
LEMMA StampedAtHead ==
    ASSUME NEW chain \in Chain, NEW new \in Chain, NEW limit \in Nat, Stamped(chain, limit),
           1 \in DOMAIN new, VC!Uncommitted(new[1]), new[1].expire_ts = INT32_MAX,
           NEW d \in {0, 1}, d = 0 => 1 \in DOMAIN chain /\ VC!Uncommitted(chain[1]),
           \A i \in DOMAIN new : i # 1 => i - d \in DOMAIN chain /\ new[i] = chain[i - d]
    PROVE  Stamped(new, limit)
<1>1. /\ Len(chain) \in Nat /\ DOMAIN chain = 1 .. Len(chain)
      /\ Len(new) \in Nat /\ DOMAIN new = 1 .. Len(new)
  BY DEF Chain
<1>2. \A i \in DOMAIN new : ~VC!Uncommitted(new[i]) => i # 1
  OBVIOUS
<1>3. ASSUME NEW i \in DOMAIN new, ~VC!Uncommitted(new[i])
      PROVE  new[i].create_ts < limit
  BY <1>2, <1>3 DEF Stamped
<1>4. ASSUME NEW i \in DOMAIN new, NEW j \in DOMAIN new, i < j,
             ~VC!Uncommitted(new[i]), ~VC!Uncommitted(new[j])
      PROVE  new[j].create_ts <= new[i].create_ts
  <2>1. /\ i - d \in DOMAIN chain /\ new[i] = chain[i - d]
        /\ j - d \in DOMAIN chain /\ new[j] = chain[j - d]
    BY <1>2, <1>4
  <2>2. i - d < j - d
    BY <1>1, <1>4
  <2> QED
    BY <1>4, <2>1, <2>2 DEF Stamped
<1>5. ASSUME NEW j \in DOMAIN new, new[j].expire_ts # INT32_MAX
      PROVE  /\ ~VC!Uncommitted(new[j])
             /\ \E i \in DOMAIN new :
                   i < j /\ ~VC!Uncommitted(new[i]) /\ new[i].create_ts = new[j].expire_ts
  <2>1. j # 1 /\ j - d \in DOMAIN chain /\ new[j] = chain[j - d]
    BY <1>5
  <2>2. /\ ~VC!Uncommitted(new[j])
        /\ \E k \in DOMAIN chain : /\ k < j - d /\ ~VC!Uncommitted(chain[k])
                                   /\ chain[k].create_ts = new[j].expire_ts
    BY <1>5, <2>1 DEF Stamped
  <2>3. PICK k \in DOMAIN chain : /\ k < j - d /\ ~VC!Uncommitted(chain[k])
                                  /\ chain[k].create_ts = new[j].expire_ts
    BY <2>2
  <2>4. k + d \in DOMAIN new /\ k + d < j /\ k + d # 1 /\ (k + d) - d = k
    BY <1>1, <2>3
  <2>5. new[k + d] = chain[k]
    BY <2>4
  <2> QED
    BY <2>2, <2>3, <2>4, <2>5
<1> QED
  BY <1>3, <1>4, <1>5 DEF Stamped

(* commit_chain_versions stamps the versions on top, and lets the one      *)
(* below them expire.                                                      *)
LEMMA StampedCommit ==
    ASSUME NEW chain \in Chain, NEW limit \in Nat, Stamped(chain, limit),
           NEW t, NEW ts \in Nat, ts < limit,
           \A i \in DOMAIN chain : VC!Uncommitted(chain[i]) =>
              \A j \in 1 .. i : VC!UncommittedOf(chain[j], t),
           \A i \in DOMAIN chain : ~VC!Uncommitted(chain[i]) => chain[i].create_ts <= ts
    PROVE  Stamped(VC!commit_chain_versions(chain, t, ts), limit)
<1> DEFINE done == VC!commit_chain_versions(chain, t, ts)
           e(i) == IF /\ i > 1
                      /\ VC!UncommittedOf(chain[i - 1], t)
                      /\ ~VC!Uncommitted(chain[i])
                      /\ chain[i].expire_ts = INT32_MAX
                     THEN ts ELSE chain[i].expire_ts
<1>1. Len(chain) \in Nat /\ DOMAIN chain = 1 .. Len(chain)
  BY DEF Chain
<1>2. DOMAIN done = DOMAIN chain
  BY DEF VC!commit_chain_versions
<1>3. ASSUME NEW i \in DOMAIN chain
      PROVE  /\ done[i].create_ts = IF VC!Uncommitted(chain[i]) THEN ts ELSE chain[i].create_ts
             /\ done[i].expire_ts = e(i)
             /\ ~VC!Uncommitted(done[i])
             /\ chain[i].create_ts \in Nat \cup {VC!INVALID_TIMESTAMP}
  <2> DEFINE c == IF VC!UncommittedOf(chain[i], t) THEN ts ELSE chain[i].create_ts
             v == chain[i]
  <2>1. done[i] = [v EXCEPT !.create_ts = c, !.expire_ts = e(i)]
    BY DEF VC!commit_chain_versions
  <2>2. v \in Versions(Txns \cup {0}, Rows)
    BY <1>1 DEF Chain
  <2>3. VC!Uncommitted(chain[i]) <=> VC!UncommittedOf(chain[i], t)
    BY <1>1 DEF VC!UncommittedOf
  <2>4. c = IF VC!Uncommitted(chain[i]) THEN ts ELSE chain[i].create_ts
    BY <2>3
  <2>5. c # VC!INVALID_TIMESTAMP
    BY <2>4 DEF VC!Uncommitted, VC!INVALID_TIMESTAMP
  <2>6. v.create_ts \in Nat \cup {VC!INVALID_TIMESTAMP}
    BY <2>2 DEF Versions
  <2> HIDE DEF c, e, v, done
  <2>7. done[i].create_ts = c /\ done[i].expire_ts = e(i)
    BY <2>1, <2>2 DEF Versions
  <2> QED
    BY <2>4, <2>5, <2>6, <2>7 DEF VC!Uncommitted, v
<1> HIDE DEF done
<1>4. \A i \in DOMAIN chain : ~VC!Uncommitted(chain[i]) => chain[i].create_ts \in Nat
  BY <1>3 DEF VC!Uncommitted
<1>5. ASSUME NEW i \in DOMAIN done, NEW j \in DOMAIN done, i < j
      PROVE  done[j].create_ts <= done[i].create_ts
  <2>1. VC!Uncommitted(chain[j]) => VC!Uncommitted(chain[i])
    BY <1>1, <1>2, <1>5 DEF VC!UncommittedOf
  <2>2. CASE VC!Uncommitted(chain[i])
    <3>1. done[i].create_ts = ts
      BY <1>2, <1>3, <2>2
    <3>2. done[j].create_ts <= ts
      BY <1>2, <1>3
    <3> QED
      BY <3>1, <3>2
  <2>3. CASE ~VC!Uncommitted(chain[i])
    <3>1. done[i].create_ts = chain[i].create_ts /\ done[j].create_ts = chain[j].create_ts
      BY <1>2, <1>3, <2>1, <2>3
    <3> QED
      BY <1>2, <1>5, <2>1, <2>3, <3>1 DEF Stamped
  <2> QED
    BY <2>2, <2>3
<1>6. ASSUME NEW j \in DOMAIN done, done[j].expire_ts # INT32_MAX
      PROVE  \E i \in DOMAIN done : i < j /\ done[i].create_ts = done[j].expire_ts
  <2>1. CASE chain[j].expire_ts = INT32_MAX
    <3>1. /\ j > 1 /\ VC!UncommittedOf(chain[j - 1], t) /\ done[j].expire_ts = ts
      BY <1>2, <1>3, <1>6, <2>1
    <3>2. j - 1 \in DOMAIN done /\ j - 1 < j
      BY <1>1, <1>2, <3>1
    <3>3. done[j - 1].create_ts = ts
      BY <1>2, <1>3, <3>1, <3>2 DEF VC!UncommittedOf
    <3> QED
      BY <3>1, <3>2, <3>3
  <2>2. CASE chain[j].expire_ts # INT32_MAX
    <3>1. done[j].expire_ts = chain[j].expire_ts
      BY <1>2, <1>3, <2>2
    <3>2. PICK i \in DOMAIN chain : /\ i < j /\ ~VC!Uncommitted(chain[i])
                                    /\ chain[i].create_ts = chain[j].expire_ts
      BY <1>2, <2>2 DEF Stamped
    <3>3. done[i].create_ts = chain[i].create_ts
      BY <1>3, <3>2
    <3> QED
      BY <1>2, <3>1, <3>2, <3>3
  <2> QED
    BY <2>1, <2>2
<1>7. \A i \in DOMAIN done : done[i].create_ts < limit /\ ~VC!Uncommitted(done[i])
  BY <1>2, <1>3 DEF Stamped
<1>8. Stamped(done, limit)
  BY <1>5, <1>6, <1>7 DEF Stamped
<1> QED
  BY <1>8 DEF done

(* A rollback takes versions out that are not committed. *)
LEMMA StampedRollback ==
    ASSUME NEW chain \in Chain, NEW rest \in Chain, NEW limit, Stamped(chain, limit),
           NEW t, NEW at \in [DOMAIN rest -> DOMAIN chain],
           \A i \in DOMAIN rest : rest[i] = chain[at[i]],
           \A i, j \in DOMAIN rest : i < j => at[i] < at[j],
           \A k \in DOMAIN chain : ~VC!UncommittedOf(chain[k], t) =>
              \E i \in DOMAIN rest : at[i] = k
    PROVE  Stamped(rest, limit)
<1>1. /\ Len(chain) \in Nat /\ DOMAIN chain = 1 .. Len(chain)
      /\ Len(rest) \in Nat /\ DOMAIN rest = 1 .. Len(rest)
  BY DEF Chain
<1>2. \A i \in DOMAIN rest : at[i] \in DOMAIN chain
  OBVIOUS
<1>3. ASSUME NEW j \in DOMAIN rest, rest[j].expire_ts # INT32_MAX
      PROVE  /\ ~VC!Uncommitted(rest[j])
             /\ \E i \in DOMAIN rest :
                   i < j /\ ~VC!Uncommitted(rest[i]) /\ rest[i].create_ts = rest[j].expire_ts
  <2>1. rest[j] = chain[at[j]] /\ at[j] \in DOMAIN chain
    BY <1>2
  <2>2. ~VC!Uncommitted(rest[j])
    BY <1>3, <2>1 DEF Stamped
  <2>3. PICK k \in DOMAIN chain : /\ k < at[j] /\ ~VC!Uncommitted(chain[k])
                                  /\ chain[k].create_ts = rest[j].expire_ts
    BY <1>3, <2>1 DEF Stamped
  <2>4. PICK i \in DOMAIN rest : at[i] = k
    BY <2>3 DEF VC!UncommittedOf
  <2>5. i < j
    BY <1>1, <2>1, <2>3, <2>4
  <2> QED
    BY <2>2, <2>3, <2>4, <2>5
<1>4. \A i \in DOMAIN rest : ~VC!Uncommitted(rest[i]) => rest[i].create_ts < limit
  BY <1>2 DEF Stamped
<1>5. ASSUME NEW i \in DOMAIN rest, NEW j \in DOMAIN rest, i < j,
             ~VC!Uncommitted(rest[i]), ~VC!Uncommitted(rest[j])
      PROVE  rest[j].create_ts <= rest[i].create_ts
  BY <1>2, <1>5 DEF Stamped
<1> QED
  BY <1>3, <1>4, <1>5 DEF Stamped

(* A limit may be raised. *)
LEMMA StampedLater ==
    ASSUME NEW chain \in Chain, NEW low \in Nat, NEW high \in Nat, low <= high,
           Stamped(chain, low)
    PROVE  Stamped(chain, high)
<1>1. ASSUME NEW i \in DOMAIN chain, ~VC!Uncommitted(chain[i])
      PROVE  chain[i].create_ts < high
  <2>1. chain[i] \in Versions(Txns \cup {0}, Rows)
    BY DEF Chain
  <2>2. chain[i].create_ts \in Nat
    BY <1>1, <2>1 DEF Versions, VC!Uncommitted
  <2> QED
    BY <1>1, <2>2 DEF Stamped
<1> QED
  BY <1>1 DEF Stamped

(* The clock never goes back, and only commit draws a commit timestamp. *)
LEMMA ClockSteps ==
    ASSUME TypeInv, NEW t \in Txns, Step(t)
    PROVE  /\ next_timestamp' \in {next_timestamp, next_timestamp + 1}
           /\ \/ commit_ts' = commit_ts
              \/ /\ commit(t) /\ next_timestamp' = next_timestamp + 1
                 /\ commit_ts' = [commit_ts EXCEPT ![t] = next_timestamp]
<1>1. CASE Client(t)
  BY <1>1 DEF Client, begin, Statement, InsertStatement, SetTransaction, NextTimestamp
<1>2. CASE commit(t)
  BY <1>2 DEF commit, NextTimestamp
<1>3. CASE abort(t) \/ Server(t)
  <2>1. UNCHANGED <<next_timestamp, commit_ts>>
    BY <1>3, Zenon
       DEF Server, abort, lock_record, scan_record, visit, get_record, delete_entry, check_head,
           update_version, delete_version, update_record, update_record_map, is_unique,
           insert_record, insert_record_map, insert_entry, commit_mvcc_versions, erase_entry,
           finish_commit, unlock, undone, erased, finish_abort, rollback_single_operation
  <2> QED
    BY <2>1
<1> QED
  BY <1>1, <1>2, <1>3 DEF Step

(* The executors' new version has no expire_ts. *)
LEMMA UpdateExpires ==
    ASSUME TypeInv, NEW t \in Txns, update_version(t),
           VC!UpdateSucceeds(chains[cur[t]], read_ts[t], t)
    PROVE  chains'[cur[t]][1].expire_ts =
             IF VC!OwnHead(chains[cur[t]], t) THEN chains[cur[t]][1].expire_ts ELSE INT32_MAX
<1> DEFINE r     == cur[t]
           chain == chains[r]
           v     == VC!TupleVersion(t, Updated(t), FALSE)
<1>1. r \in Rids /\ chain \in Chain /\ chains \in [Rids -> Chain]
  BY DEF update_version, TypeInv, SharedTypes, ThreadTypes, OnRecord
<1>2. chains'[r] = VC!update_version(chain, t, Updated(t))
  BY <1>1 DEF update_version
<1>3. Len(chain) \in Nat /\ DOMAIN chain = 1 .. Len(chain)
  BY <1>1 DEF Chain
<1>4. CASE VC!OwnHead(chain, t)
  <2> DEFINE w == chain[1]
  <2>1. 1 \in DOMAIN chain
    BY <1>1, <1>3, <1>4 DEF VC!OwnHead, Chain
  <2>2. w \in Versions(Txns \cup {0}, Rows)
    BY <1>1, <2>1 DEF Chain
  <2>3. chains'[r] = [chain EXCEPT ![1] = [w EXCEPT !.data = Updated(t)]]
    BY <1>2, <1>4 DEF VC!update_version
  <2> HIDE DEF w, chain
  <2>4. chains'[r][1] = [w EXCEPT !.data = Updated(t)]
    BY <2>1, <2>3
  <2>5. chains'[r][1].expire_ts = w.expire_ts
    BY <2>2, <2>4 DEF Versions
  <2> QED
    BY <1>4, <2>5 DEF w, chain
<1>5. CASE ~VC!OwnHead(chain, t)
  <2>1. chains'[r] = VC!add_version(chain, v)
    BY <1>2, <1>5 DEF VC!update_version
  <2>2. v \in Versions(Txns \cup {0}, Rows) /\ v.expire_ts = INT32_MAX
    BY UpdatedRow DEF VC!TupleVersion, Versions
  <2> DEFINE V == Versions(Txns \cup {0}, Rows)
  <2>3. v \in V /\ chain \in Seq(V)
    BY <1>1, <2>2 DEF Chain
  <2> HIDE DEF V, v, chain
  <2>4. VC!add_version(chain, v)[1] = v
    BY <2>3, AddedAtHead
  <2> QED
    BY <1>5, <2>1, <2>2, <2>4 DEF chain
<1> QED
  BY <1>4, <1>5

LEMMA DeleteExpires ==
    ASSUME TypeInv, NEW t \in Txns, delete_version(t),
           VC!DeleteSucceeds(Found(t), read_ts[t], t)
    PROVE  chains'[cur[t]][1].expire_ts = INT32_MAX
<1> DEFINE r     == cur[t]
           chain == Found(t)
           k     == VC!find_version_for_delete(chain, read_ts[t], t)
           v     == VC!TupleVersion(t, chain[k].data, TRUE)
<1>1. r \in Rids /\ chain \in Chain /\ chains \in [Rids -> Chain]
  BY FoundChain DEF delete_version, TypeInv, SharedTypes, ThreadTypes, OnRecord
<1>2. chains'[r] = VC!add_version(chain, v)
  BY <1>1 DEF delete_version, VC!delete_version, Found
<1>3. chains'[r] = <<v>> \o chain
  BY <1>2 DEF VC!add_version
<1>4. v.expire_ts = INT32_MAX
  BY DEF VC!TupleVersion
<1> HIDE DEF v, chain
<1>5. (<<v>> \o chain)[1] = v
  BY <1>1 DEF Chain
<1> QED
  BY <1>3, <1>4, <1>5

(* What FoundChain adds has timestamp 0 and does not expire. *)
LEMMA FoundStamped ==
    ASSUME TypeInv, NEW t \in Txns, cur[t] \in Rids, next_timestamp > 0,
           Stamped(chains[cur[t]], next_timestamp)
    PROVE  Stamped(Found(t), next_timestamp)
<1> DEFINE r == cur[t]
           v == [VC!TupleVersion(0, heap[r].row, FALSE) EXCEPT !.create_ts = 0]
<1>1. v.create_ts = 0 /\ v.expire_ts = INT32_MAX
  BY DEF VC!TupleVersion
<1>2. Found(t) = <<v>> \/ Found(t) = chains[r]
  BY DEF Found, VC!WithInitial
<1> HIDE DEF v
<1>3. Stamped(<<v>>, next_timestamp)
  BY <1>1 DEF Stamped, TypeInv, SharedTypes
<1> QED
  BY <1>2, <1>3

(* Every step keeps the chains in the order of the commit timestamps. *)
LEMMA NextStamped ==
    ASSUME LM!LockInv, WriterInv, StampInv, NEW t \in Txns, Step(t), TypeInv',
           NEW r \in Rids
    PROVE  Stamped(chains'[r], next_timestamp')
<1>1. /\ TypeInv /\ NoInserts /\ LocksHeld /\ Pending(r) /\ Locked(t)
      /\ chains[r] \in Chain /\ chains'[r] \in Chain
      /\ next_timestamp \in Nat /\ next_timestamp' \in Nat
  BY DEF WriterInv, TypeInv, SharedTypes, LocksHeld
<1>2. next_timestamp <= next_timestamp'
  BY <1>1, ClockSteps
<1>3. Stamped(chains[r], next_timestamp)
  BY DEF StampInv
<1>4. SUFFICES Stamped(chains'[r], next_timestamp)
  BY <1>1, <1>2, StampedLater
<1>5. CASE chains'[r] = chains[r]
  BY <1>3, <1>5
<1>6. CASE commit_mvcc_versions(t) /\ chains'[r] # chains[r]
  <2>1. r \in Written(t) /\ pc[t] = "versions"
    BY <1>1, <1>6, CommitChains DEF commit_mvcc_versions
  <2>2. chains'[r] = VC!commit_chain_versions(chains[r], t, commit_ts[t])
    BY <1>6, <2>1 DEF commit_mvcc_versions
  <2>3. LockedX(t, r)
    BY <1>1, <2>1 DEF Locked, Unended
  <2>4. \A i \in DOMAIN chains[r] : VC!Uncommitted(chains[r][i]) =>
           \A j \in 1 .. i : VC!UncommittedOf(chains[r][j], t)
    BY <1>1, <2>3, OnlyOwn
  <2>5. \A i \in DOMAIN chains[r] :
           ~VC!Uncommitted(chains[r][i]) => chains[r][i].create_ts <= commit_ts[t]
    BY <2>1 DEF StampInv, StampsRise
  <2>6. commit_ts[t] \in Nat /\ commit_ts[t] < next_timestamp
    BY <1>1 DEF TypeInv, ThreadTypes, StampInv
  <2> QED
    BY <1>1, <1>3, <2>2, <2>4, <2>5, <2>6, StampedCommit
<1>7. CASE abort(t) /\ chains'[r] # chains[r]
  <2>1. r \in Written(t)
    BY <1>1, <1>7, RollbackChains
  <2>2. PICK at \in [DOMAIN chains'[r] -> DOMAIN chains[r]] :
           /\ \A i \in DOMAIN chains'[r] : chains'[r][i] = chains[r][at[i]]
           /\ \A i, j \in DOMAIN chains'[r] : i < j => at[i] < at[j]
           /\ \A k \in DOMAIN chains[r] : ~VC!UncommittedOf(chains[r][k], t) =>
                 \E i \in DOMAIN chains'[r] : at[i] = k
    BY <1>1, <1>7, <2>1, RollbackChains
  <2> DEFINE chain == chains[r]
             rest  == chains'[r]
             limit == next_timestamp
  <2>3. /\ chain \in Chain /\ rest \in Chain /\ Stamped(chain, limit)
        /\ at \in [DOMAIN rest -> DOMAIN chain]
        /\ \A i \in DOMAIN rest : rest[i] = chain[at[i]]
        /\ \A i, j \in DOMAIN rest : i < j => at[i] < at[j]
        /\ \A k \in DOMAIN chain : ~VC!UncommittedOf(chain[k], t) =>
              \E i \in DOMAIN rest : at[i] = k
    BY <1>1, <1>3, <2>2
  <2> HIDE DEF chain, rest, limit
  <2>4. Stamped(rest, limit)
    BY <2>3, StampedRollback
  <2> QED
    BY <2>4 DEF rest, limit
<1>8. CASE update_version(t) /\ chains'[r] # chains[r]
  <2> DEFINE d == IF VC!OwnHead(chains[r], t) THEN 0 ELSE 1
  <2>1. VC!UpdateSucceeds(chains[cur[t]], read_ts[t], t)
    BY <1>8 DEF update_version
  <2>2. /\ \A s \in Rids : s # cur[t] => chains'[s] = chains[s]
        /\ 1 \in DOMAIN chains'[cur[t]]
        /\ VC!UncommittedOf(chains'[cur[t]][1], t)
        /\ \A i \in DOMAIN chains'[cur[t]] : i # 1 =>
              \E k \in DOMAIN chains[cur[t]] :
                 /\ chains'[cur[t]][i] = chains[cur[t]][k]
                 /\ k = IF VC!OwnHead(chains[cur[t]], t) THEN i ELSE i - 1
    BY <1>1, <1>8, <2>1, UpdateChains
  <2>3. r = cur[t]
    BY <1>8, <2>2
  <2>4. d = 0 => 1 \in DOMAIN chains[r] /\ VC!Uncommitted(chains[r][1])
    BY <1>1 DEF VC!OwnHead, VC!UncommittedOf, Chain
  <2>5. chains'[r][1].expire_ts = INT32_MAX
    <3>1. chains'[r][1].expire_ts = IF VC!OwnHead(chains[r], t) THEN chains[r][1].expire_ts ELSE INT32_MAX
      BY <1>1, <1>8, <2>1, <2>3, UpdateExpires
    <3> QED
      BY <1>3, <2>4, <3>1 DEF Stamped
  <2>6. \A i \in DOMAIN chains'[r] : i # 1 =>
           i - d \in DOMAIN chains[r] /\ chains'[r][i] = chains[r][i - d]
    <3>1. \A i \in DOMAIN chains'[r] : i \in Int
      BY <1>1 DEF Chain
    <3> QED
      BY <2>2, <2>3, <3>1
  <2>7. d \in {0, 1} /\ 1 \in DOMAIN chains'[r] /\ VC!Uncommitted(chains'[r][1])
    BY <2>2, <2>3 DEF VC!UncommittedOf
  <2> HIDE DEF d
  <2> QED
    BY <1>1, <1>3, <2>4, <2>5, <2>6, <2>7, StampedAtHead
<1>9. CASE delete_version(t) /\ chains'[r] # chains[r]
  <2>1. cur[t] \in Rids
    BY <1>1, <1>9 DEF delete_version, TypeInv, ThreadTypes, OnRecord
  <2>2. Found(t) \in Chain
    BY <1>1, <2>1, FoundChain
  <2>3. CASE ~VC!DeleteSucceeds(Found(t), read_ts[t], t)
    <3>1. chains' = [chains EXCEPT ![cur[t]] = Found(t)]
      BY <1>9, <2>3 DEF delete_version, Found
    <3>2. r = cur[t] /\ chains'[r] = Found(t)
      BY <1>1, <1>9, <2>1, <3>1 DEF TypeInv, SharedTypes
    <3> QED
      BY <1>1, <1>3, <3>2, FoundStamped DEF StampInv
  <2>4. CASE VC!DeleteSucceeds(Found(t), read_ts[t], t)
    <3>1. /\ \A s \in Rids : s # cur[t] => chains'[s] = chains[s]
          /\ 1 \in DOMAIN chains'[cur[t]]
          /\ VC!UncommittedOf(chains'[cur[t]][1], t)
          /\ \A i \in DOMAIN chains'[cur[t]] : i # 1 =>
                i - 1 \in DOMAIN Found(t) /\ chains'[cur[t]][i] = Found(t)[i - 1]
      BY <1>1, <1>9, <2>4, DeleteChains
    <3>2. r = cur[t]
      BY <1>9, <3>1
    <3>3. Stamped(Found(t), next_timestamp)
      BY <1>1, <1>3, <3>2, FoundStamped DEF StampInv
    <3>4. chains'[r][1].expire_ts = INT32_MAX
      BY <1>1, <1>9, <2>4, <3>2, DeleteExpires
    <3>5. VC!Uncommitted(chains'[r][1])
      BY <3>1, <3>2 DEF VC!UncommittedOf
    <3> DEFINE d == 1
    <3>6. \A i \in DOMAIN chains'[r] : i # 1 =>
             i - d \in DOMAIN Found(t) /\ chains'[r][i] = Found(t)[i - d]
      BY <3>1, <3>2
    <3>7. d \in {0, 1} /\ d # 0
      OBVIOUS
    <3> HIDE DEF d
    <3> QED
      BY <1>1, <2>2, <3>1, <3>2, <3>3, <3>4, <3>5, <3>6, <3>7, StampedAtHead
  <2> QED
    BY <2>3, <2>4
<1>10. chains'[r] = chains[r] \/ chains' # chains
  OBVIOUS
<1> QED
  BY <1>5, <1>6, <1>7, <1>8, <1>9, <1>10, ChainSteps

(* A thread comes to the stamping of its versions by commit only. *)
LEMMA OnlyCommitStamps ==
    ASSUME TypeInv, NoInserts, NEW t \in Txns, Step(t), pc'[t] = "versions"
    PROVE  commit(t)
<1>1. pc \in [Txns -> Steps] /\ Updating(t)
  BY DEF TypeInv, ThreadTypes, NoInserts
<1>2. \A s : GoTo(t, s) => pc'[t] = s
  BY <1>1 DEF GoTo
<1>3. ASSUME RowDone(t) \/ Fail(t)
      PROVE  pc'[t] \in {"idle", "row"}
  BY <1>1, <1>3, RowEnds
<1>4. CASE Client(t)
  BY <1>2, <1>4 DEF Client, begin, Statement, InsertStatement, SetTransaction
<1>5. CASE abort(t)
  BY <1>2, <1>5 DEF abort
<1>6. ASSUME NEW s \in Rids, lock_record(t, s) \/ scan_record(t, s)
      PROVE  FALSE
  BY <1>2, <1>6 DEF lock_record, scan_record
<1>7. ASSUME NEW s \in Rids, unlock(t, s)
      PROVE  FALSE
  BY <1>2, <1>7 DEF unlock
<1>8. CASE visit(t) \/ get_record(t) \/ check_head(t)
  BY <1>2, <1>3, <1>8 DEF visit, get_record, check_head, Throw
<1>9. CASE delete_entry(t)
  BY <1>2, <1>9 DEF delete_entry
<1>10. CASE update_version(t) \/ delete_version(t)
  BY <1>2, <1>3, <1>10 DEF update_version, delete_version, Throw
<1>11. CASE update_record(t) \/ update_record_map(t)
  BY <1>2, <1>3, <1>11 DEF update_record, update_record_map
<1>12. CASE is_unique(t) \/ insert_record(t) \/ insert_record_map(t) \/ insert_entry(t)
  BY <1>1, <1>12 DEF is_unique, insert_record, insert_record_map, insert_entry, Updating
<1>13. CASE commit_mvcc_versions(t)
  BY <1>2, <1>13 DEF commit_mvcc_versions
<1>14. CASE finish_commit(t) \/ undone(t) \/ erased(t) \/ finish_abort(t)
  BY <1>2, <1>14 DEF finish_commit, undone, erased, finish_abort
<1>15. CASE erase_entry(t) \/ rollback_single_operation(t)
  BY <1>15 DEF erase_entry, rollback_single_operation
<1> QED
  BY <1>4, <1>5, <1>6, <1>7, <1>8, <1>9, <1>10, <1>11, <1>12, <1>13, <1>14, <1>15, Zenon
     DEF Step, Server

(* Every step keeps the timestamps drawn and not yet written the youngest: *)
(* between the two the record is locked.                                   *)
LEMMA NextStampsRise ==
    ASSUME LM!LockInv, WriterInv, StampInv, NEW t \in Txns, Step(t), TypeInv',
           NEW u \in Txns
    PROVE  commit_ts'[u] < next_timestamp' /\ StampsRise(u)'
<1>1. /\ TypeInv /\ NoInserts /\ Locked(u) /\ StampsRise(u)
      /\ next_timestamp \in Nat /\ commit_ts \in [Txns -> Nat] /\ commit_ts[u] < next_timestamp
  BY DEF WriterInv, LocksHeld, TypeInv, SharedTypes, ThreadTypes, StampInv
<1>2. /\ next_timestamp' \in {next_timestamp, next_timestamp + 1}
      /\ \/ commit_ts' = commit_ts
         \/ /\ commit(t) /\ next_timestamp' = next_timestamp + 1
            /\ commit_ts' = [commit_ts EXCEPT ![t] = next_timestamp]
  BY <1>1, ClockSteps
<1>3. commit_ts'[u] < next_timestamp'
  BY <1>1, <1>2
<1>4. CASE u # t
  <2>1. Same(u) /\ commit_ts'[u] = commit_ts[u]
    BY <1>1, <1>2, <1>4, OthersStay
  <2>2. Written(u)' = Written(u) /\ pc'[u] = pc[u]
    BY <2>1 DEF Written, Same
  <2>3. ASSUME pc[u] = "versions", NEW r \in Written(u)
        PROVE  chains'[r] = chains[r]
    <3>1. LockedX(u, r) /\ r \in Rids
      BY <1>1, <2>3, WrittenAreRecords DEF Locked, Unended
    <3> QED
      BY <1>4, <3>1, LockedStays
  <2>4. StampsRise(u)'
    BY <1>1, <2>1, <2>2, <2>3 DEF StampsRise
  <2> QED
    BY <1>3, <2>4
<1>5. CASE u = t /\ pc'[t] = "versions"
  <2>1. commit(t)
    BY <1>1, <1>5, OnlyCommitStamps
  <2>2. UNCHANGED <<chains, write_set>> /\ commit_ts'[u] = next_timestamp
    BY <1>1, <1>5, <2>1 DEF commit, data, NextTimestamp
  <2>3. Written(u)' = Written(u) /\ Written(u) \subseteq Rids
    BY <1>1, <2>2, WrittenAreRecords DEF Written
  <2>4. ASSUME NEW r \in Rids, NEW i \in DOMAIN chains[r], ~VC!Uncommitted(chains[r][i])
        PROVE  chains[r][i].create_ts <= next_timestamp
    <3>1. chains[r] \in Chain
      BY <1>1 DEF TypeInv, SharedTypes
    <3>2. chains[r][i] \in Versions(Txns \cup {0}, Rows)
      BY <3>1 DEF Chain
    <3>3. chains[r][i].create_ts \in Nat
      BY <2>4, <3>2 DEF Versions, VC!Uncommitted
    <3>4. chains[r][i].create_ts < next_timestamp
      BY <2>4 DEF StampInv, Stamped
    <3> QED
      BY <1>1, <3>3, <3>4
  <2>5. StampsRise(u)'
    BY <2>2, <2>3, <2>4 DEF StampsRise
  <2> QED
    BY <1>3, <2>5
<1>6. CASE u = t /\ pc'[t] # "versions"
  BY <1>3, <1>6 DEF StampsRise
<1> QED
  BY <1>4, <1>5, <1>6

(* StampInv holds in every state when clients issue no INSERT. *)
LEMMA StampInvHolds ==
    ASSUME "insert" \notin Kinds
    PROVE  Spec => []StampInv
<1>1. Init => StampInv
  BY DEF Init, StampInv, Stamped, StampsRise
<1>2. LM!LockInv /\ WriterInv /\ WriterInv' /\ StampInv /\ [Next]_vars => StampInv'
  <2> SUFFICES ASSUME LM!LockInv, WriterInv, WriterInv', StampInv, [Next]_vars
               PROVE  StampInv'
    OBVIOUS
  <2>1. CASE UNCHANGED vars
    <3>1. /\ UNCHANGED <<next_timestamp, commit_ts, write_set, chains, pc>>
          /\ \A t \in Txns : Written(t)' = Written(t)
      BY <2>1 DEF vars, data, Written
    <3> QED
      BY <3>1 DEF StampInv, Stamped, StampsRise
  <2>2. CASE Next
    <3>1. PICK t \in Txns : Step(t)
      BY <2>2 DEF Next, Step
    <3>2. TypeInv /\ TypeInv' /\ next_timestamp \in Nat
      BY DEF WriterInv, TypeInv, SharedTypes
    <3>3. \A r \in Rids : Stamped(chains'[r], next_timestamp')
      BY <3>1, <3>2, NextStamped
    <3>4. \A u \in Txns : commit_ts'[u] < next_timestamp' /\ StampsRise(u)'
      BY <3>1, <3>2, NextStampsRise
    <3>5. next_timestamp' > 0
      BY <3>1, <3>2, ClockSteps DEF StampInv
    <3>6. (\A r \in Rids : Stamped(chains[r], next_timestamp))'
      BY <3>3 DEF Stamped
    <3> QED
      BY <3>4, <3>5, <3>6 DEF StampInv
  <2> QED
    BY <2>1, <2>2
<1> QED
  BY <1>1, <1>2, ServerLockInv, WriterInvHolds, PTL DEF Spec

(* The bounds of the code: timestamps are 32 bits wide, and a reader walks *)
(* down a chain for so many versions only.                                 *)
WithinBounds ==
    /\ next_timestamp <= INT32_MAX
    /\ \A r \in Rids : Len(chains[r]) <= MaxIterations

(* Whatever updates, deletes, commits and aborts run at once, as long as   *)
(* chains and timestamps are within the bounds of the code,                *)
(* find_visible_version returns what a snapshot should see: of the         *)
(* versions committed up to its timestamp the one committed last, and      *)
(* none if that is a deletion.                                             *)
THEOREM SnapshotsAreRight ==
    ASSUME "insert" \notin Kinds
    PROVE  Spec => [](WithinBounds => SnapshotIsNewestCommitted)
<1>1. WriterInv /\ StampInv => (WithinBounds => SnapshotIsNewestCommitted)
  <2> SUFFICES ASSUME WriterInv, StampInv, WithinBounds,
                      NEW r \in Rids, NEW ts \in 0 .. next_timestamp
               PROVE  LET chain  == chains[r]
                          inSnap == {i \in DOMAIN chain :
                                       ~VC!Uncommitted(chain[i]) /\ chain[i].create_ts <= ts}
                          newest == {i \in inSnap : \A j \in inSnap :
                                       \/ chain[i].create_ts > chain[j].create_ts
                                       \/ chain[i].create_ts = chain[j].create_ts /\ i <= j}
                          found  == VC!find_visible_version(chain, ts, INT32_MAX)
                      IN  IF found = 0
                            THEN \A i \in newest : chain[i].is_deleted
                            ELSE found \in newest /\ ~chain[found].is_deleted
    BY DEF SnapshotIsNewestCommitted
  <2> DEFINE chain  == chains[r]
             inSnap == {i \in DOMAIN chain : ~VC!Uncommitted(chain[i]) /\ chain[i].create_ts <= ts}
             newest == {i \in inSnap : \A j \in inSnap :
                           \/ chain[i].create_ts > chain[j].create_ts
                           \/ chain[i].create_ts = chain[j].create_ts /\ i <= j}
             found  == VC!find_visible_version(chain, ts, INT32_MAX)
             Settles(v) ==
                 \/ v.txn_id = INT32_MAX
                 \/ /\ v.is_deleted
                    /\ ~VC!Uncommitted(v)
                    /\ v.create_ts <= ts
                 \/ /\ ~v.is_deleted
                    /\ v.create_ts \notin {VC!INVALID_TIMESTAMP, INT32_MAX}
                    /\ v.create_ts <= ts
                    /\ v.expire_ts = INT32_MAX \/ v.expire_ts > ts
             stops == {j \in DOMAIN chain : Settles(chain[j])}
             least == VC!Walk(stops)
  <2>1. /\ chain \in Chain /\ Len(chain) \in Nat /\ DOMAIN chain = 1 .. Len(chain)
        /\ next_timestamp \in Nat /\ next_timestamp > 0
        /\ Len(chain) <= MaxIterations /\ Stamped(chain, next_timestamp)
    <3>1. chain \in Chain /\ next_timestamp \in Nat
      BY DEF WriterInv, TypeInv, SharedTypes
    <3>2. Len(chain) \in Nat /\ DOMAIN chain = 1 .. Len(chain)
      BY <3>1 DEF Chain
    <3>3. next_timestamp > 0 /\ Stamped(chain, next_timestamp)
      BY DEF StampInv
    <3>4. Len(chain) <= MaxIterations
      BY DEF WithinBounds
    <3> QED
      BY <3>1, <3>2, <3>3, <3>4
  <2>2. /\ INT32_MAX \in Nat /\ next_timestamp <= INT32_MAX /\ ts \in Nat
        /\ \A t \in Txns \cup {0} : t # INT32_MAX
    BY <2>1, IntegerRange, TxnIds DEF WithinBounds
  <2>3. ASSUME NEW i \in DOMAIN chain
        PROVE  /\ chain[i].txn_id \in Txns \cup {0}
               /\ chain[i].is_deleted \in BOOLEAN
               /\ ~VC!Uncommitted(chain[i]) => chain[i].create_ts \in Nat
               /\ chain[i].create_ts = VC!INVALID_TIMESTAMP <=> VC!Uncommitted(chain[i])
    <3>1. chain[i] \in Versions(Txns \cup {0}, Rows)
      BY <2>1 DEF Chain
    <3> QED
      BY <3>1 DEF Versions, VC!Uncommitted
  <2>4. found = IF least # 0 /\ chain[least].is_deleted THEN 0 ELSE least
    BY DEF VC!find_visible_version
  <2> HIDE DEF chain, found, least
  <2>5. stops \subseteq inSnap
    <3> SUFFICES ASSUME NEW j \in DOMAIN chain, Settles(chain[j])
                 PROVE  ~VC!Uncommitted(chain[j]) /\ chain[j].create_ts <= ts
      OBVIOUS
    <3>1. chain[j].txn_id # INT32_MAX
      BY <2>2, <2>3
    <3> QED
      BY <2>3, <3>1
  <2>6. ASSUME NEW m \in inSnap, \A i \in inSnap : m <= i
        PROVE  m \in stops
    <3>1. /\ m \in DOMAIN chain /\ ~VC!Uncommitted(chain[m]) /\ chain[m].create_ts <= ts
          /\ chain[m].create_ts \in Nat
      BY <2>3
    <3>2. chain[m].create_ts < next_timestamp
      BY <2>1, <3>1 DEF Stamped
    <3>3. chain[m].create_ts \notin {VC!INVALID_TIMESTAMP, INT32_MAX}
      BY <2>2, <2>1, <3>1, <3>2 DEF VC!INVALID_TIMESTAMP
    <3>4. chain[m].expire_ts = INT32_MAX \/ chain[m].expire_ts > ts
      <4> SUFFICES ASSUME chain[m].expire_ts # INT32_MAX
                   PROVE  chain[m].expire_ts > ts
        OBVIOUS
      <4>1. PICK i \in DOMAIN chain : /\ i < m /\ ~VC!Uncommitted(chain[i])
                                      /\ chain[i].create_ts = chain[m].expire_ts
        BY <2>1, <3>1 DEF Stamped
      <4>2. i \notin inSnap
        BY <2>1, <2>6, <4>1
      <4>3. ~(chain[i].create_ts <= ts) /\ chain[i].create_ts \in Nat
        BY <2>3, <4>1, <4>2
      <4> QED
        BY <2>2, <4>1, <4>3
    <3> QED
      BY <3>1, <3>3, <3>4
  <2>7. inSnap \subseteq DOMAIN chain /\ inSnap \in SUBSET Nat
    BY <2>1
  <2>8. ASSUME NEW m \in inSnap, \A i \in inSnap : m <= i
        PROVE  newest = {m}
    <3>1. \A i, j \in inSnap : i < j => chain[j].create_ts <= chain[i].create_ts
      BY <2>1, <2>7 DEF Stamped
    <3>2. \A i \in inSnap : chain[i].create_ts \in Nat /\ i \in Nat
      BY <2>3, <2>7
    <3>3. m \in newest
      <4> SUFFICES ASSUME NEW j \in inSnap
                   PROVE  \/ chain[m].create_ts > chain[j].create_ts
                          \/ chain[m].create_ts = chain[j].create_ts /\ m <= j
        OBVIOUS
      <4>1. m = j \/ m < j
        BY <2>8, <3>2
      <4> HIDE DEF inSnap
      <4> QED
        BY <2>8, <3>1, <3>2, <4>1
    <3>4. ASSUME NEW i \in newest
          PROVE  i = m
      <4>1. i \in inSnap
        OBVIOUS
      <4>2. \/ chain[i].create_ts > chain[m].create_ts
            \/ chain[i].create_ts = chain[m].create_ts /\ i <= m
        BY <3>4
      <4>3. m = i \/ m < i
        BY <2>8, <3>2, <4>1
      <4> HIDE DEF inSnap, newest
      <4> QED
        BY <3>1, <3>2, <4>1, <4>2, <4>3
    <3> QED
      BY <3>3, <3>4
  <2>9. CASE stops = {}
    <3>1. inSnap = {}
      BY <2>6, <2>7, <2>9, LeastMember
    <3>2. least = 0
      BY <2>9 DEF VC!Walk, least
    <3> QED
      BY <2>4, <3>1, <3>2 DEF chain, found
  <2>10. CASE stops # {}
    <3>1. inSnap # {}
      BY <2>5, <2>10
    <3>2. PICK m \in inSnap : \A i \in inSnap : m <= i
      BY <2>7, <3>1, LeastMember
    <3>3. m \in stops /\ newest = {m} /\ m \in DOMAIN chain /\ m # 0
      BY <2>1, <2>6, <2>7, <2>8, <3>2
    <3>4. \A i \in stops : m <= i
      BY <2>5, <3>2
    <3>5. \A i \in stops : i <= MaxIterations /\ i \in Nat
      <4>1. \A i \in stops : i \in 1 .. Len(chain)
        BY <2>1
      <4> HIDE DEF stops
      <4> QED
        BY <2>1, <4>1, IntegerRange
    <3>6. least = m
      <4> DEFINE reached == {i \in stops : i <= MaxIterations}
      <4> HIDE DEF stops
      <4>1. reached = stops
        BY <3>5
      <4>2. least = CHOOSE i \in reached : \A j \in reached : i <= j
        BY <3>3, <4>1 DEF VC!Walk, least
      <4> HIDE DEF reached
      <4>3. \E i \in reached : \A j \in reached : i <= j
        BY <3>3, <3>4, <4>1
      <4>4. least \in stops /\ \A j \in stops : least <= j
        BY <4>1, <4>2, <4>3
      <4> QED
        BY <3>3, <3>4, <3>5, <4>4
    <3>7. CASE chain[m].is_deleted
      BY <2>4, <3>3, <3>6, <3>7 DEF chain, found
    <3>8. CASE ~chain[m].is_deleted
      BY <2>4, <3>3, <3>6, <3>8 DEF chain, found
    <3> QED
      BY <3>7, <3>8
  <2> QED
    BY <2>9, <2>10
<1> QED
  BY <1>1, WriterInvHolds, StampInvHolds, PTL

-----------------------------------------------------------------------------
(* The slot and the chain.  An update writes the chain first and the slot  *)
(* in a later step; abort takes the versions out of all chains first and   *)
(* restores the slots one write record after the other.                    *)

(* The live versions that are committed *)
Settled(chain) == {i \in Live(chain) : ~VC!Uncommitted(chain[i])}

(* Write record k of t notes its first update of r. *)
FirstUpdate(t, r, k) ==
    UpdateAt(t, k, r) /\ \A j \in DOMAIN write_set[t] : j < k => ~UpdateAt(t, j, r)

Noted(t, r) == \E k \in DOMAIN write_set[t] : UpdateAt(t, k, r)

(* t has put a version on top of r and not yet written the slot ... *)
Overtaken(t, r) == pc[t] = "heap" /\ cur[t] = r

(* ... or has taken its versions out and not yet restored the slot. *)
Restores(t, r) ==
    pc[t] = "undo" /\ \E k \in DOMAIN write_set[t] : k <= pos[t] /\ UpdateAt(t, k, r)

(* The slot shows the newest live version, but for these. *)
SlotShows(r) ==
    \/ Shows(chains[r], Live(chains[r]), heap[r].row.content)
    \/ \E t \in Txns : Overtaken(t, r) \/ Restores(t, r)

(* What the slot will show next *)
NextShows(t, r) ==
    Overtaken(t, r) => Shows(chains[r], Live(chains[r]), Updated(t).content)

(* What t has noted, or is about to note, before its first update of r is  *)
(* what the committed versions show.                                       *)
NotedShows(t, r) ==
    /\ \A k \in DOMAIN write_set[t] :
          (FirstUpdate(t, r, k) /\ (Active(t) \/ (pc[t] = "undo" /\ k <= pos[t]))) =>
              Shows(chains[r], Settled(chains[r]), write_set[t][k].row.content)
    /\ (pc[t] \in {"heap", "map"} /\ cur[t] = r /\ ~Noted(t, r)) =>
          Shows(chains[r], Settled(chains[r]), rec[t].content)

(* A live version that is not committed has its update noted, or nearly. *)
LiveIsNoted(r) ==
    \A i \in Live(chains[r]) : VC!Uncommitted(chains[r][i]) =>
        LET t == chains[r][i].txn_id
        IN  Noted(t, r) \/ (pc[t] \in {"heap", "map"} /\ cur[t] = r)

SlotInv ==
    \A r \in Rids :
        /\ SlotShows(r) /\ LiveIsNoted(r)
        /\ \A t \in Txns : NextShows(t, r) /\ NotedShows(t, r)

(* Versions that keep their data and their order show the same. *)
LEMMA ShowsMoved ==
    ASSUME NEW chain, NEW P \in SUBSET Nat, NEW rest, NEW Q \in SUBSET Nat,
           NEW at \in [Q -> P],
           \A i \in Q : rest[i].data = chain[at[i]].data,
           \A i, j \in Q : i < j => at[i] < at[j],
           \A k \in P : \E i \in Q : at[i] = k,
           NEW content, Shows(chain, P, content)
    PROVE  Shows(rest, Q, content)
<1>1. CASE P = {}
  <2>1. Q = {}
    BY <1>1
  <2> QED
    BY <1>1, <2>1 DEF Shows
<1>2. CASE P # {}
  <2>1. PICK p \in P : (\A k \in P : p <= k) /\ content = chain[p].data.content
    BY <1>2 DEF Shows
  <2>2. PICK q \in Q : at[q] = p
    BY <2>1
  <2>3. ASSUME NEW i \in Q
        PROVE  q <= i
    <3>1. at[i] \in P /\ p <= at[i] /\ at[i] \in Nat /\ p \in Nat /\ i \in Nat /\ q \in Nat
      BY <2>1
    <3>2. i < q => at[i] < p
      BY <2>2
    <3> QED
      BY <3>1, <3>2
  <2>4. content = rest[q].data.content
    BY <2>1, <2>2
  <2> QED
    BY <2>3, <2>4 DEF Shows
<1> QED
  BY <1>1, <1>2

(* The positions of a chain are numbers. *)
LEMMA Positions ==
    ASSUME NEW chain \in Chain
    PROVE  /\ Len(chain) \in Nat /\ DOMAIN chain = 1 .. Len(chain)
           /\ Live(chain) \subseteq DOMAIN chain /\ Settled(chain) \subseteq Live(chain)
           /\ Live(chain) \in SUBSET Nat /\ Settled(chain) \in SUBSET Nat
           /\ \A i \in DOMAIN chain : i \in Live(chain) <=> ~chain[i].is_deleted
           /\ \A i \in DOMAIN chain :
                 i \in Settled(chain) <=> ~chain[i].is_deleted /\ ~VC!Uncommitted(chain[i])
<1>1. Len(chain) \in Nat /\ DOMAIN chain = 1 .. Len(chain)
  BY DEF Chain
<1> QED
  BY <1>1 DEF Live, Settled

(* A commit changes no data. *)
LEMMA CommitShows ==
    ASSUME TypeInv, TypeInv', NEW t \in Txns, commit_mvcc_versions(t), NEW r \in Rids, NEW content,
           Shows(chains[r], Live(chains[r]), content)
    PROVE  Shows(chains'[r], Live(chains'[r]), content)
<1> DEFINE chain == chains[r]
           rest  == chains'[r]
           at    == [i \in Live(rest) |-> i]
<1>1. chain \in Chain /\ rest \in Chain
  BY DEF TypeInv, SharedTypes
<1>2. /\ DOMAIN rest = DOMAIN chain
      /\ \A i \in DOMAIN chain : /\ rest[i].data = chain[i].data
                                 /\ rest[i].is_deleted = chain[i].is_deleted
  BY CommitChains
<1>3. Shows(chain, Live(chain), content)
  OBVIOUS
<1> HIDE DEF chain, rest
<1>4. Live(chain) \in SUBSET Nat /\ Live(rest) \in SUBSET Nat
  BY <1>1, Positions
<1>5. Live(rest) = Live(chain)
  BY <1>2 DEF Live
<1>6. \A i \in Live(rest) : rest[i].data = chain[i].data
  BY <1>2 DEF Live
<1>7. at \in [Live(rest) -> Live(chain)] /\ \A i \in Live(rest) : at[i] = i
  BY <1>5
<1> HIDE DEF at
<1>8. /\ \A i \in Live(rest) : rest[i].data = chain[at[i]].data
      /\ \A i, j \in Live(rest) : i < j => at[i] < at[j]
      /\ \A k \in Live(chain) : \E i \in Live(rest) : at[i] = k
  BY <1>5, <1>6, <1>7
<1>9. Shows(rest, Live(rest), content)
  BY <1>3, <1>4, <1>7, <1>8, ShowsMoved
<1> QED
  BY <1>9 DEF rest

(* A version on top, or over the one on top, that is not to be shown *)
LEMMA ShowsBelow ==
    ASSUME NEW chain \in Chain, NEW new \in Chain, NEW d \in {0, 1},
           DOMAIN new = 1 .. (Len(chain) + d),
           \A i \in DOMAIN new : i # 1 => i - d \in DOMAIN chain /\ new[i] = chain[i - d],
           NEW P \in SUBSET DOMAIN chain, NEW Q \in SUBSET DOMAIN new,
           \A i \in DOMAIN new : i \in Q <=> i # 1 /\ i - d \in P,
           d = 0 => 1 \notin P,
           NEW content, Shows(chain, P, content)
    PROVE  Shows(new, Q, content)
<1> DEFINE at == [i \in Q |-> i - d]
<1>1. Len(chain) \in Nat /\ DOMAIN chain = 1 .. Len(chain)
  BY Positions
<1>2. P \in SUBSET Nat /\ Q \in SUBSET Nat
  BY <1>1
<1>3. at \in [Q -> P] /\ \A i \in Q : at[i] = i - d /\ i # 1
  OBVIOUS
<1> HIDE DEF at
<1>4. \A i \in Q : new[i].data = chain[at[i]].data
  BY <1>3
<1>5. \A i, j \in Q : i < j => at[i] < at[j]
  BY <1>2, <1>3
<1>6. ASSUME NEW k \in P
      PROVE  \E i \in Q : at[i] = k
  <2>1. k + d \in DOMAIN new /\ (k + d) - d = k /\ k + d # 1
    BY <1>1
  <2>2. k + d \in Q
    BY <2>1
  <2> QED
    BY <1>3, <2>1, <2>2
<1> QED
  BY ONLY <1>2, <1>3, <1>4, <1>5, <1>6, Shows(chain, P, content), ShowsMoved

(* How many versions there are then *)
LEMMA UpdateCount ==
    ASSUME TypeInv, NEW t \in Txns, update_version(t),
           VC!UpdateSucceeds(chains[cur[t]], read_ts[t], t)
    PROVE  DOMAIN chains'[cur[t]] =
             1 .. (Len(chains[cur[t]]) + IF VC!OwnHead(chains[cur[t]], t) THEN 0 ELSE 1)
<1> DEFINE r     == cur[t]
           chain == chains[r]
           v     == VC!TupleVersion(t, Updated(t), FALSE)
<1>1. r \in Rids /\ chain \in Chain /\ chains \in [Rids -> Chain]
  BY DEF update_version, TypeInv, SharedTypes, ThreadTypes, OnRecord
<1>2. chains'[r] = VC!update_version(chain, t, Updated(t))
  BY <1>1 DEF update_version
<1>3. Len(chain) \in Nat /\ DOMAIN chain = 1 .. Len(chain)
  BY <1>1, Positions
<1>4. CASE VC!OwnHead(chain, t)
  <2>1. DOMAIN chains'[r] = DOMAIN chain
    BY <1>2, <1>4 DEF VC!update_version
  <2> QED
    BY <1>3, <1>4, <2>1
<1>5. CASE ~VC!OwnHead(chain, t)
  <2>1. chains'[r] = VC!add_version(chain, v)
    BY <1>2, <1>5 DEF VC!update_version
  <2> DEFINE V == Versions(Txns \cup {0}, Rows)
  <2>2. v \in V /\ chain \in Seq(V)
    BY <1>1, UpdatedRow DEF VC!TupleVersion, Versions, Chain
  <2> HIDE DEF V, v, chain
  <2>3. DOMAIN VC!add_version(chain, v) = 1 .. (Len(chain) + 1)
    BY <2>2, AddedAtHead
  <2> QED
    BY <1>5, <2>1, <2>3 DEF chain
<1> QED
  BY <1>4, <1>5

LEMMA DeleteCount ==
    ASSUME TypeInv, NEW t \in Txns, delete_version(t),
           VC!DeleteSucceeds(Found(t), read_ts[t], t)
    PROVE  DOMAIN chains'[cur[t]] = 1 .. (Len(Found(t)) + 1)
<1> DEFINE r     == cur[t]
           chain == Found(t)
           k     == VC!find_version_for_delete(chain, read_ts[t], t)
           v     == VC!TupleVersion(t, chain[k].data, TRUE)
<1>1. r \in Rids /\ chain \in Chain /\ chains \in [Rids -> Chain]
  BY FoundChain DEF delete_version, TypeInv, SharedTypes, ThreadTypes, OnRecord
<1>2. chains'[r] = VC!add_version(chain, v)
  BY <1>1 DEF delete_version, VC!delete_version, Found
<1>3. chains'[r] = <<v>> \o chain
  BY <1>2 DEF VC!add_version
<1> HIDE DEF v, chain
<1>4. Len(chain) \in Nat
  BY <1>1, Positions
<1>5. DOMAIN (<<v>> \o chain) = 1 .. (1 + Len(chain))
  BY <1>1, <1>4 DEF Chain
<1> QED
  BY <1>3, <1>4, <1>5 DEF chain

(* Whoever is between chain and slot of a record has it locked. *)
LEMMA BetweenLocks ==
    ASSUME WriterInv, NEW t \in Txns, NEW r \in Rids,
           \/ Overtaken(t, r) \/ Restores(t, r)
           \/ pc[t] \in {"heap", "map"} /\ cur[t] = r
           \/ Noted(t, r) /\ Unended(t)
    PROVE  LockedX(t, r)
<1>1. Locked(t) /\ Updating(t)
  BY DEF WriterInv, LocksHeld, NoInserts
<1>2. CASE pc[t] \in {"heap", "map"} /\ cur[t] = r
  BY <1>1, <1>2 DEF Locked, AtRecord, Writing, Updating
<1>3. CASE Noted(t, r) /\ Unended(t)
  <2>1. r \in Written(t)
    BY <1>3 DEF Noted, UpdateAt, Written
  <2> QED
    BY <1>1, <1>3, <2>1 DEF Locked
<1>4. Overtaken(t, r) => pc[t] \in {"heap", "map"} /\ cur[t] = r
  BY DEF Overtaken
<1>5. Restores(t, r) => Noted(t, r) /\ Unended(t)
  BY DEF Restores, Noted, Unended
<1> QED
  BY <1>2, <1>3, <1>4, <1>5

(* So for the holder of the lock the slot shows the chain, unless it is    *)
(* between the two itself.                                                 *)
LEMMA HolderSeesChain ==
    ASSUME LM!LockInv, WriterInv, NEW t \in Txns, NEW r \in Rids, LockedX(t, r), SlotShows(r),
           pc[t] \notin {"heap", "undo"}
    PROVE  Shows(chains[r], Live(chains[r]), heap[r].row.content)
<1>1. ASSUME NEW u \in Txns, Overtaken(u, r) \/ Restores(u, r)
      PROVE  FALSE
  <2>1. LockedX(u, r)
    BY <1>1, BetweenLocks
  <2>2. u = t
    BY <2>1, OneWriter
  <2> QED
    BY <1>1, <2>2 DEF Overtaken, Restores
<1> QED
  BY <1>1 DEF SlotShows

(* The initial version of a chain shows what the slot does. *)
LEMMA FoundShows ==
    ASSUME TypeInv, NEW t \in Txns, cur[t] \in Rids,
           Shows(chains[cur[t]], Live(chains[cur[t]]), heap[cur[t]].row.content),
           NEW content
    PROVE  /\ Shows(chains[cur[t]], Live(chains[cur[t]]), content) =>
                 Shows(Found(t), Live(Found(t)), content)
           /\ Shows(chains[cur[t]], Settled(chains[cur[t]]), content) =>
                 Shows(Found(t), Settled(Found(t)), content)
<1> DEFINE r == cur[t]
           v == [VC!TupleVersion(0, heap[r].row, FALSE) EXCEPT !.create_ts = 0]
<1>1. CASE Found(t) = chains[r]
  BY <1>1
<1>2. CASE Found(t) # chains[r]
  <2>1. chains[r] = << >> /\ Found(t) = <<v>>
    BY <1>2 DEF Found, VC!WithInitial
  <2>2. ~v.is_deleted /\ v.data = heap[r].row /\ ~VC!Uncommitted(v)
    BY DEF VC!TupleVersion, VC!Uncommitted, VC!INVALID_TIMESTAMP
  <2>3. Live(chains[r]) = {} /\ Settled(chains[r]) = {}
    BY <2>1 DEF Live, Settled
  <2>4. heap[r].row.content = {}
    BY <2>3 DEF Shows
  <2> HIDE DEF v
  <2>5. Live(Found(t)) = {1} /\ Settled(Found(t)) = {1} /\ Found(t)[1] = v
    BY <2>1, <2>2 DEF Live, Settled
  <2>6. content = {} => /\ Shows(Found(t), Live(Found(t)), content)
                        /\ Shows(Found(t), Settled(Found(t)), content)
    BY <2>2, <2>4, <2>5 DEF Shows
  <2> QED
    BY <2>3, <2>6 DEF Shows
<1> QED
  BY <1>1, <1>2

(* An update changes nothing of what is committed. *)
LEMMA UpdateShows ==
    ASSUME TypeInv, TypeInv', NEW t \in Txns, update_version(t),
           VC!UpdateSucceeds(chains[cur[t]], read_ts[t], t),
           NEW content, Shows(chains[cur[t]], Settled(chains[cur[t]]), content)
    PROVE  Shows(chains'[cur[t]], Settled(chains'[cur[t]]), content)
<1> DEFINE chain == chains[cur[t]]
           new   == chains'[cur[t]]
           d     == IF VC!OwnHead(chain, t) THEN 0 ELSE 1
<1>1. /\ cur[t] \in Rids /\ 1 \in DOMAIN new /\ VC!UncommittedOf(new[1], t)
      /\ \A i \in DOMAIN new : i # 1 =>
            \E k \in DOMAIN chain :
               /\ new[i] = chain[k]
               /\ k = IF VC!OwnHead(chain, t) THEN i ELSE i - 1
  BY UpdateChains
<1>2. chain \in Chain /\ new \in Chain
  BY <1>1 DEF TypeInv, SharedTypes
<1>3. DOMAIN new = 1 .. (Len(chain) + d)
  BY UpdateCount
<1>4. d = 0 => 1 \in DOMAIN chain /\ VC!Uncommitted(chain[1])
  BY <1>2 DEF VC!OwnHead, VC!UncommittedOf, Chain
<1>5. d \in {0, 1}
  OBVIOUS
<1>6. Shows(chain, Settled(chain), content)
  OBVIOUS
<1>7. ASSUME NEW i \in DOMAIN new, i # 1
      PROVE  i - d \in DOMAIN chain /\ new[i] = chain[i - d]
  <2>1. i \in Int
    BY <1>2 DEF Chain
  <2>2. PICK k \in DOMAIN chain :
           new[i] = chain[k] /\ k = IF VC!OwnHead(chain, t) THEN i ELSE i - 1
    BY <1>1, <1>7
  <2>3. k = i - d
    BY <2>1, <2>2
  <2> QED
    BY <2>2, <2>3
<1> HIDE DEF new
<1> HIDE DEF chain, d
<1>8. \A i \in DOMAIN new : i \in Settled(new) <=> i # 1 /\ i - d \in Settled(chain)
  BY <1>1, <1>2, <1>7, Positions DEF VC!UncommittedOf
<1>9. d = 0 => 1 \notin Settled(chain)
  BY <1>2, <1>4, Positions
<1>10. Settled(chain) \in SUBSET DOMAIN chain /\ Settled(new) \in SUBSET DOMAIN new
  BY <1>2, Positions
<1>11. Shows(new, Settled(new), content)
  BY <1>2, <1>3, <1>5, <1>6, <1>7, <1>8, <1>9, <1>10, ShowsBelow
<1> QED
  BY <1>11 DEF new

(* A deletion is never shown. *)
LEMMA DeleteShows ==
    ASSUME TypeInv, TypeInv', NEW t \in Txns, delete_version(t),
           Shows(chains[cur[t]], Live(chains[cur[t]]), heap[cur[t]].row.content),
           NEW content
    PROVE  /\ Shows(chains[cur[t]], Live(chains[cur[t]]), content) =>
                 Shows(chains'[cur[t]], Live(chains'[cur[t]]), content)
           /\ Shows(chains[cur[t]], Settled(chains[cur[t]]), content) =>
                 Shows(chains'[cur[t]], Settled(chains'[cur[t]]), content)
<1> DEFINE chain == Found(t)
           new   == chains'[cur[t]]
<1>1. cur[t] \in Rids /\ chains \in [Rids -> Chain]
  BY DEF delete_version, TypeInv, SharedTypes, ThreadTypes, OnRecord
<1>2. chain \in Chain /\ new \in Chain
  BY <1>1, FoundChain DEF TypeInv, SharedTypes
<1>3. /\ Shows(chains[cur[t]], Live(chains[cur[t]]), content) => Shows(chain, Live(chain), content)
      /\ Shows(chains[cur[t]], Settled(chains[cur[t]]), content) =>
            Shows(chain, Settled(chain), content)
  BY <1>1, FoundShows
<1>4. CASE ~VC!DeleteSucceeds(Found(t), read_ts[t], t)
  <2>1. chains' = [chains EXCEPT ![cur[t]] = Found(t)]
    BY <1>4 DEF delete_version, Found
  <2>2. new = chain
    BY <1>1, <2>1
  <2> QED
    BY <1>3, <2>2
<1>5. CASE VC!DeleteSucceeds(Found(t), read_ts[t], t)
  <2> DEFINE d == 1
  <2>1. /\ 1 \in DOMAIN new /\ new[1].is_deleted
        /\ \A i \in DOMAIN new : i # 1 => i - d \in DOMAIN chain /\ new[i] = chain[i - d]
    BY <1>5, DeleteChains
  <2>2. DOMAIN new = 1 .. (Len(chain) + d) /\ d \in {0, 1} /\ d # 0
    BY <1>5, DeleteCount
  <2> HIDE DEF chain, new, d
  <2>3. /\ \A i \in DOMAIN new : i \in Live(new) <=> i # 1 /\ i - d \in Live(chain)
        /\ \A i \in DOMAIN new : i \in Settled(new) <=> i # 1 /\ i - d \in Settled(chain)
    BY <1>2, <2>1, Positions
  <2>4. /\ Live(chain) \in SUBSET DOMAIN chain /\ Live(new) \in SUBSET DOMAIN new
        /\ Settled(chain) \in SUBSET DOMAIN chain /\ Settled(new) \in SUBSET DOMAIN new
    BY <1>2, Positions
  <2>5. Shows(chain, Live(chain), content) => Shows(new, Live(new), content)
    BY <1>2, <2>1, <2>2, <2>3, <2>4, ShowsBelow
  <2>6. Shows(chain, Settled(chain), content) => Shows(new, Settled(new), content)
    BY <1>2, <2>1, <2>2, <2>3, <2>4, ShowsBelow
  <2> QED
    BY <1>3, <2>5, <2>6 DEF new
<1> QED
  BY <1>4, <1>5

(* A rollback takes out what is not committed. *)
LEMMA RollbackShows ==
    ASSUME TypeInv, TypeInv', NEW t \in Txns, abort(t), NEW r \in Rids, NEW content
    PROVE  /\ Shows(chains[r], Settled(chains[r]), content) =>
                 Shows(chains'[r], Settled(chains'[r]), content)
           /\ (\A i \in Live(chains[r]) : ~VC!UncommittedOf(chains[r][i], t)) =>
                 (Shows(chains[r], Live(chains[r]), content) =>
                     Shows(chains'[r], Live(chains'[r]), content))
<1> DEFINE chain == chains[r]
           rest  == chains'[r]
<1>1. chain \in Chain /\ rest \in Chain
  BY DEF TypeInv, SharedTypes
<1>2. CASE r \notin Written(t)
  <2>1. rest = chain
    BY <1>2, RollbackChains
  <2> QED
    BY <2>1
<1>3. CASE r \in Written(t)
  <2>1. PICK at \in [DOMAIN rest -> DOMAIN chain] :
           /\ \A i \in DOMAIN rest : rest[i] = chain[at[i]] /\ ~VC!UncommittedOf(rest[i], t)
           /\ \A i, j \in DOMAIN rest : i < j => at[i] < at[j]
           /\ \A k \in DOMAIN chain : ~VC!UncommittedOf(chain[k], t) =>
                 \E i \in DOMAIN rest : at[i] = k
    BY <1>3, RollbackChains
  <2> HIDE DEF chain, rest
  <2>2. \A i \in DOMAIN rest : at[i] \in DOMAIN chain
    BY <2>1
  <2>3. ASSUME Shows(chain, Settled(chain), content)
        PROVE  Shows(rest, Settled(rest), content)
    <3> DEFINE P == Settled(chain)
               Q == Settled(rest)
               f == [i \in Q |-> at[i]]
    <3>1. P \in SUBSET Nat /\ Q \in SUBSET Nat /\ P \subseteq DOMAIN chain /\ Q \subseteq DOMAIN rest
      BY <1>1, Positions
    <3>2. \A i \in Q : at[i] \in P /\ rest[i] = chain[at[i]]
      BY <1>1, <2>1, <2>2, <3>1, Positions
    <3>3. f \in [Q -> P] /\ \A i \in Q : f[i] = at[i]
      BY <3>2
    <3>4. ASSUME NEW k \in P
          PROVE  \E i \in Q : f[i] = k
      <4>1. ~VC!Uncommitted(chain[k]) /\ ~chain[k].is_deleted /\ k \in DOMAIN chain
        BY <1>1, <3>1, <3>4, Positions
      <4>2. PICK i \in DOMAIN rest : at[i] = k
        BY <2>1, <4>1 DEF VC!UncommittedOf
      <4>3. i \in Q
        BY <1>1, <2>1, <4>1, <4>2, Positions
      <4> QED
        BY <3>3, <4>2, <4>3
    <3>5. \A i, j \in Q : i < j => f[i] < f[j]
      BY <2>1, <3>1, <3>3
    <3>6. \A i \in Q : rest[i].data = chain[f[i]].data
      BY <3>2, <3>3
    <3>7. Shows(chain, P, content)
      BY <2>3
    <3> HIDE DEF P, Q, f
    <3>8. Shows(rest, Q, content)
      BY <3>1, <3>3, <3>4, <3>5, <3>6, <3>7, ShowsMoved
    <3> QED
      BY <3>8 DEF Q
  <2>4. ASSUME \A i \in Live(chain) : ~VC!UncommittedOf(chain[i], t),
               Shows(chain, Live(chain), content)
        PROVE  Shows(rest, Live(rest), content)
    <3> DEFINE P == Live(chain)
               Q == Live(rest)
               f == [i \in Q |-> at[i]]
    <3>1. P \in SUBSET Nat /\ Q \in SUBSET Nat /\ P \subseteq DOMAIN chain /\ Q \subseteq DOMAIN rest
      BY <1>1, Positions
    <3>2. \A i \in Q : at[i] \in P /\ rest[i] = chain[at[i]]
      BY <1>1, <2>1, <2>2, <3>1, Positions
    <3>3. f \in [Q -> P] /\ \A i \in Q : f[i] = at[i]
      BY <3>2
    <3>4. ASSUME NEW k \in P
          PROVE  \E i \in Q : f[i] = k
      <4>1. ~VC!UncommittedOf(chain[k], t) /\ ~chain[k].is_deleted /\ k \in DOMAIN chain
        BY <1>1, <2>4, <3>1, <3>4, Positions
      <4>2. PICK i \in DOMAIN rest : at[i] = k
        BY <2>1, <4>1
      <4>3. i \in Q
        BY <1>1, <2>1, <4>1, <4>2, Positions
      <4> QED
        BY <3>3, <4>2, <4>3
    <3>5. \A i, j \in Q : i < j => f[i] < f[j]
      BY <2>1, <3>1, <3>3
    <3>6. \A i \in Q : rest[i].data = chain[f[i]].data
      BY <3>2, <3>3
    <3>7. Shows(chain, P, content)
      BY <2>4
    <3> HIDE DEF P, Q, f
    <3>8. Shows(rest, Q, content)
      BY <3>1, <3>3, <3>4, <3>5, <3>6, <3>7, ShowsMoved
    <3> QED
      BY <3>8 DEF Q
  <2> QED
    BY <2>3, <2>4 DEF chain, rest
<1> QED
  BY <1>2, <1>3

(* No step but a commit changes what the committed versions show. *)
LEMMA SettledStays ==
    ASSUME LM!LockInv, WriterInv, TypeInv', NEW r \in Rids, SlotShows(r),
           NEW t \in Txns, Step(t), ~commit_mvcc_versions(t),
           NEW content, Shows(chains[r], Settled(chains[r]), content)
    PROVE  Shows(chains'[r], Settled(chains'[r]), content)
<1>1. TypeInv
  BY DEF WriterInv
<1>2. CASE chains'[r] = chains[r]
  BY <1>2
<1>3. CASE abort(t)
  BY <1>1, <1>3, RollbackShows
<1>4. CASE update_version(t) /\ chains'[r] # chains[r]
  <2>1. VC!UpdateSucceeds(chains[cur[t]], read_ts[t], t)
    BY <1>4 DEF update_version
  <2>2. r = cur[t]
    BY <1>1, <1>4, <2>1, UpdateChains
  <2> QED
    BY <1>1, <1>4, <2>1, <2>2, UpdateShows
<1>5. CASE delete_version(t) /\ chains'[r] # chains[r]
  <2>1. \E chain : chains' = [chains EXCEPT ![cur[t]] = chain]
    BY <1>5 DEF delete_version
  <2>2. r = cur[t] /\ pc[t] = "version"
    BY <1>1, <1>5, <2>1 DEF TypeInv, SharedTypes, delete_version
  <2>3. LockedX(t, r)
    BY <1>5, ChainWritersLock
  <2>4. Shows(chains[r], Live(chains[r]), heap[r].row.content)
    BY <2>2, <2>3, HolderSeesChain
  <2> QED
    BY <1>1, <1>5, <2>2, <2>4, DeleteShows
<1>6. chains'[r] = chains[r] \/ chains' # chains
  OBVIOUS
<1> QED
  BY <1>2, <1>3, <1>4, <1>5, <1>6, ChainSteps

(* The updates in the write set of t stay as they are. *)
Kept(t) ==
    /\ \A k \in DOMAIN write_set[t] :
          k \in DOMAIN write_set'[t] /\ write_set'[t][k] = write_set[t][k]
    /\ \A k \in DOMAIN write_set'[t] :
          k \in DOMAIN write_set[t] \/ write_set'[t][k].type # "UPDATE"

(* A step between updates of t, or after the last *)
Aside(t) ==
    /\ pc[t] \notin {"heap", "map"} /\ pc'[t] \notin {"heap", "map", "undo"}
    /\ Active(t)' \/ pc'[t] = "versions" => Active(t) /\ Kept(t)

(* How a thread moves through its updates and their undoing. *)
LEMMA ThreadSteps ==
    ASSUME TypeInv, NoInserts, NEW t \in Txns, Step(t)
    PROVE  \/ update_version(t) /\ pc'[t] = "heap"
           \/ update_record(t) /\ pc'[t] = "map"
           \/ update_record_map(t) \/ abort(t) \/ rollback_single_operation(t)
           \/ Aside(t)
<1>1. /\ pc \in [Txns -> Steps] /\ Updating(t)
      /\ write_set[t] \in Seq(WriteRecords)
  BY DEF TypeInv, ThreadTypes, NoInserts
<1>2. \A s : GoTo(t, s) => pc'[t] = s
  BY <1>1 DEF GoTo
<1>3. RowDone(t) \/ Fail(t) => pc'[t] \in {"idle", "row"}
  BY <1>1, RowEnds
<1>4. write_set' = write_set => Kept(t)
  BY DEF Kept
<1>5. ASSUME NEW w \in WriteRecords, append_write_record(t, w), w.type # "UPDATE"
      PROVE  Kept(t)
  <2>1. /\ Len(write_set[t]) \in Nat
        /\ DOMAIN write_set'[t] = 1 .. (Len(write_set[t]) + 1)
        /\ DOMAIN write_set[t] = 1 .. Len(write_set[t])
        /\ \A i \in DOMAIN write_set[t] :
              i \in DOMAIN write_set'[t] /\ write_set'[t][i] = write_set[t][i]
        /\ write_set'[t][Len(write_set[t]) + 1] = w
    BY <1>5, Appended
  <2>2. \A k \in DOMAIN write_set'[t] : k \in DOMAIN write_set[t] \/ k = Len(write_set[t]) + 1
    BY <2>1
  <2> QED
    BY <1>5, <2>1, <2>2 DEF Kept
<1>6. CASE Client(t)
  BY <1>2, <1>4, <1>6
     DEF Client, begin, Statement, InsertStatement, SetTransaction, Aside, Active, Working
<1>7. CASE commit(t)
  BY <1>2, <1>4, <1>7 DEF commit, Aside, Active, Working
<1>8. ASSUME NEW s \in Rids, lock_record(t, s) \/ scan_record(t, s)
      PROVE  Aside(t)
  BY <1>2, <1>4, <1>8 DEF lock_record, scan_record, Aside, Active, Working
<1>9. ASSUME NEW s \in Rids, unlock(t, s)
      PROVE  Aside(t)
  BY <1>2, <1>9 DEF unlock, Aside, Active, Working
<1>10. CASE visit(t) \/ get_record(t) \/ check_head(t)
  BY <1>2, <1>3, <1>4, <1>10 DEF visit, get_record, check_head, Throw, Aside, Active, Working
<1>11. CASE delete_entry(t)
  <2> DEFINE w == WriteRecord("IX_DELETE", cur[t], Row(rec[t].key, {}))
  <2>1. w \in WriteRecords /\ w.type # "UPDATE"
    BY <1>11 DEF delete_entry, WriteRecord, WriteRecords, Row, Rows, OnRecord, TypeInv, ThreadTypes
  <2>2. append_write_record(t, w) /\ pc[t] = "index" /\ pc'[t] = "check"
    BY <1>2, <1>11 DEF delete_entry
  <2> HIDE DEF w
  <2>3. Kept(t)
    BY <1>5, <2>1, <2>2
  <2> QED
    BY <2>2, <2>3 DEF Aside, Active, Working
<1>12. CASE delete_version(t)
  <2> DEFINE w == WriteRecord("DELETE", cur[t], rec[t])
  <2>1. w \in WriteRecords /\ w.type # "UPDATE"
    BY <1>12 DEF delete_version, WriteRecord, WriteRecords, OnRecord, TypeInv, ThreadTypes
  <2>2. /\ pc[t] = "version" /\ pc'[t] \in {"idle", "row", "throw"}
        /\ append_write_record(t, w) \/ write_set' = write_set
    BY <1>2, <1>3, <1>12 DEF delete_version, Throw
  <2> HIDE DEF w
  <2>3. Kept(t)
    BY <1>4, <1>5, <2>1, <2>2
  <2> QED
    BY <2>2, <2>3 DEF Aside, Active, Working
<1>13. CASE update_version(t) /\ pc'[t] # "heap"
  BY <1>2, <1>4, <1>13 DEF update_version, Throw, Aside, Active, Working
<1>14. CASE update_record(t)
  <2>1. heap[cur[t]].used
    BY <1>1, <1>14 DEF update_record, Updating, OnRecord, NoInserts, TypeInv, ThreadTypes
  <2> QED
    BY <1>2, <1>14, <2>1 DEF update_record
<1>15. CASE is_unique(t) \/ insert_record(t) \/ insert_record_map(t) \/ insert_entry(t)
  BY <1>1, <1>15 DEF is_unique, insert_record, insert_record_map, insert_entry, Updating
<1>16. CASE commit_mvcc_versions(t)
  BY <1>2, <1>16 DEF commit_mvcc_versions, Aside, Active, Working
<1>17. CASE finish_commit(t) \/ undone(t) \/ erased(t) \/ finish_abort(t)
  BY <1>2, <1>17 DEF finish_commit, undone, erased, finish_abort, Aside, Active, Working
<1>18. CASE erase_entry(t)
  BY <1>18 DEF erase_entry, Aside, Active, Working
<1> QED
  BY <1>6, <1>7, <1>8, <1>9, <1>10, <1>11, <1>12, <1>13, <1>14, <1>15, <1>16, <1>17, <1>18, Zenon
     DEF Step, Server

(* An update: from the version to the slot, the map and the write set *)
LEMMA UpdateSteps ==
    ASSUME TypeInv, NEW t \in Txns
    PROVE  /\ update_version(t) /\ pc'[t] = "heap" =>
                 /\ pc[t] = "version" /\ Active(t)
                 /\ UNCHANGED <<write_set, heap, cur, rec, pos>>
                 /\ VC!UpdateSucceeds(chains[cur[t]], read_ts[t], t)
           /\ update_record(t) /\ pc'[t] = "map" =>
                 /\ pc[t] = "heap" /\ Active(t)
                 /\ UNCHANGED <<write_set, chains, cur, rec, pos>>
                 /\ cur[t] \in Rids /\ heap'[cur[t]].row = Updated(t)
                 /\ \A r \in Rids : r # cur[t] => heap'[r] = heap[r]
           /\ update_record_map(t) =>
                 /\ pc[t] = "map" /\ Active(t) /\ pc'[t] \in {"idle", "row"}
                 /\ UNCHANGED <<chains, heap, cur, rec, pos>>
                 /\ WriteRecord("UPDATE", cur[t], rec[t]) \in WriteRecords
                 /\ append_write_record(t, WriteRecord("UPDATE", cur[t], rec[t]))
<1>1. pc \in [Txns -> Steps] /\ heap \in [Rids -> [used : BOOLEAN, row : Rows]]
  BY DEF TypeInv, SharedTypes, ThreadTypes
<1>2. \A s : GoTo(t, s) => pc'[t] = s
  BY <1>1 DEF GoTo
<1>3. update_version(t) /\ pc'[t] = "heap" =>
          /\ pc[t] = "version" /\ Active(t)
          /\ UNCHANGED <<write_set, heap, cur, rec, pos>>
          /\ VC!UpdateSucceeds(chains[cur[t]], read_ts[t], t)
  BY <1>2 DEF update_version, Throw, Active, Working
<1>4. ASSUME update_record(t), pc'[t] = "map"
      PROVE  /\ pc[t] = "heap" /\ Active(t)
             /\ UNCHANGED <<write_set, chains, cur, rec, pos>>
             /\ cur[t] \in Rids /\ heap'[cur[t]].row = Updated(t)
             /\ \A r \in Rids : r # cur[t] => heap'[r] = heap[r]
  <2> DEFINE slot == heap[cur[t]]
             row  == Updated(t)
  <2>1. ~Fail(t)
    BY <1>2, <1>4 DEF Fail
  <2>2. cur[t] \in Rids /\ heap' = [heap EXCEPT ![cur[t]] = [slot EXCEPT !.row = row]]
    BY <1>4, <2>1 DEF update_record, TypeInv, ThreadTypes, OnRecord
  <2>3. slot \in [used : BOOLEAN, row : Rows]
    BY <1>1, <2>2
  <2> HIDE DEF slot, row
  <2>4. heap'[cur[t]].row = row /\ \A r \in Rids : r # cur[t] => heap'[r] = heap[r]
    BY <1>1, <2>2, <2>3
  <2>5. pc[t] = "heap" /\ UNCHANGED <<write_set, chains, cur, rec, pos>>
    BY <1>4 DEF update_record
  <2> QED
    BY <2>2, <2>4, <2>5 DEF Active, Working, row
<1>5. ASSUME update_record_map(t)
      PROVE  /\ pc[t] = "map" /\ Active(t) /\ pc'[t] \in {"idle", "row"}
             /\ UNCHANGED <<chains, heap, cur, rec, pos>>
             /\ WriteRecord("UPDATE", cur[t], rec[t]) \in WriteRecords
             /\ append_write_record(t, WriteRecord("UPDATE", cur[t], rec[t]))
  <2>1. pc'[t] \in {"idle", "row"}
    BY <1>1, <1>5, RowEnds DEF update_record_map
  <2>2. WriteRecord("UPDATE", cur[t], rec[t]) \in WriteRecords
    BY <1>5 DEF update_record_map, WriteRecord, WriteRecords, OnRecord, TypeInv, ThreadTypes
  <2> QED
    BY <1>5, <2>1, <2>2 DEF update_record_map, Active, Working
<1> QED
  BY <1>3, <1>4, <1>5

(* The undoing of the writes *)
LEMMA UndoSteps ==
    ASSUME WriterInv, NEW t \in Txns
    PROVE  /\ abort(t) =>
                 /\ pc[t] \in {"idle", "throw"} /\ Active(t) /\ pc'[t] = "undo"
                 /\ pos'[t] = Len(write_set[t])
                 /\ UNCHANGED <<write_set, heap, cur, rec>>
           /\ rollback_single_operation(t) =>
                 /\ pc[t] = "undo" /\ pc'[t] = "undo" /\ pos[t] \in DOMAIN write_set[t]
                 /\ pos[t] \in Nat /\ pos'[t] = pos[t] - 1
                 /\ UNCHANGED <<write_set, chains, cur, rec>>
                 /\ \A r \in Rids : UpdateAt(t, pos[t], r) =>
                       heap'[r].row = write_set[t][pos[t]].row
<1>1. /\ TypeInv /\ pc \in [Txns -> Steps] /\ pos \in [Txns -> Nat]
      /\ heap \in [Rids -> [used : BOOLEAN, row : Rows]]
      /\ write_set[t] \in Seq(WriteRecords)
  BY DEF WriterInv, TypeInv, SharedTypes, ThreadTypes
<1>2. ASSUME abort(t)
      PROVE  /\ pc[t] \in {"idle", "throw"} /\ Active(t) /\ pc'[t] = "undo"
             /\ pos'[t] = Len(write_set[t])
             /\ UNCHANGED <<write_set, heap, cur, rec>>
  BY <1>1, <1>2 DEF abort, GoTo, Active, Working
<1>3. ASSUME rollback_single_operation(t)
      PROVE  /\ pc[t] = "undo" /\ pc'[t] = "undo" /\ pos[t] \in DOMAIN write_set[t]
             /\ pos[t] \in Nat /\ pos'[t] = pos[t] - 1
             /\ UNCHANGED <<write_set, chains, cur, rec>>
             /\ \A r \in Rids : UpdateAt(t, pos[t], r) =>
                   heap'[r].row = write_set[t][pos[t]].row
  <2>1. pc[t] = "undo" /\ pos[t] > 0 /\ pos[t] <= Len(write_set[t])
    BY <1>1, <1>3 DEF rollback_single_operation, TypeInv, ThreadTypes
  <2>2. pos[t] \in DOMAIN write_set[t]
    BY <1>1, <2>1
  <2> DEFINE w == write_set[t][pos[t]]
  <2>3. w \in WriteRecords /\ Undo(w) /\ heap[w.rid].used
    <3>1. w \in WriteRecords
      BY <1>1, <2>2
    <3>2. w.rid \in Loaded /\ w.rid \in Rids
      BY <2>2, <3>1 DEF WriterInv, NoInserts, Updating, WriteRecords
    <3> QED
      BY <1>3, <3>1, <3>2 DEF rollback_single_operation, WriterInv, NoInserts
  <2>4. UNCHANGED <<pc, write_set, chains, cur, rec>> /\ pos'[t] = pos[t] - 1
    BY <1>1, <1>3 DEF rollback_single_operation
  <2>5. w.type = "UPDATE" => heap'[w.rid].row = w.row
    BY <1>1, <2>3, UndoTypes
  <2>6. ASSUME NEW r \in Rids, UpdateAt(t, pos[t], r)
        PROVE  heap'[r].row = w.row
    BY <2>5, <2>6 DEF UpdateAt
  <2> QED
    BY <1>1, <2>1, <2>2, <2>4, <2>6
<1> QED
  BY <1>2, <1>3

(* Where a live uncommitted version comes from: it was there, or t has     *)
(* just made it.                                                           *)
LEMMA LiveOrigin ==
    ASSUME TypeInv, TypeInv', NoInserts, NEW t \in Txns, Step(t), NEW r \in Rids,
           NEW i \in Live(chains'[r]), VC!Uncommitted(chains'[r][i])
    PROVE  \/ \E k \in Live(chains[r]) : /\ VC!Uncommitted(chains[r][k])
                                         /\ chains[r][k].txn_id = chains'[r][i].txn_id
           \/ /\ update_version(t) /\ pc'[t] = "heap" /\ cur[t] = r
              /\ chains'[r][i].txn_id = t
<1>1. /\ i \in DOMAIN chains'[r] /\ ~chains'[r][i].is_deleted
      /\ pc \in [Txns -> Steps] /\ chains \in [Rids -> Chain]
  BY DEF Live, TypeInv, SharedTypes, ThreadTypes
<1>2. ASSUME NEW k \in DOMAIN chains[r], chains[r][k] = chains'[r][i]
      PROVE  k \in Live(chains[r]) /\ VC!Uncommitted(chains[r][k])
  BY <1>1, <1>2 DEF Live
<1>3. CASE chains'[r] = chains[r]
  BY <1>1, <1>2, <1>3
<1>4. CASE commit_mvcc_versions(t)
  <2>1. /\ i \in DOMAIN chains[r] /\ VC!Uncommitted(chains[r][i])
        /\ chains[r][i].txn_id = chains'[r][i].txn_id
        /\ chains[r][i].is_deleted = chains'[r][i].is_deleted
    BY <1>1, <1>4, CommitChains
  <2> QED
    BY <1>1, <2>1 DEF Live
<1>5. CASE abort(t) /\ chains'[r] # chains[r]
  <2>1. r \in Written(t)
    BY <1>5, RollbackChains
  <2>2. PICK at \in [DOMAIN chains'[r] -> DOMAIN chains[r]] :
           \A j \in DOMAIN chains'[r] : chains'[r][j] = chains[r][at[j]]
    BY <1>5, <2>1, RollbackChains
  <2>3. at[i] \in DOMAIN chains[r] /\ chains[r][at[i]] = chains'[r][i]
    BY <1>1, <2>2
  <2> QED
    BY <1>2, <2>3
<1>6. CASE update_version(t) /\ chains'[r] # chains[r]
  <2>1. VC!UpdateSucceeds(chains[cur[t]], read_ts[t], t) /\ pc'[t] = "heap"
    BY <1>1, <1>6 DEF update_version, GoTo
  <2>2. /\ \A s \in Rids : s # cur[t] => chains'[s] = chains[s]
        /\ VC!UncommittedOf(chains'[cur[t]][1], t)
        /\ \A j \in DOMAIN chains'[cur[t]] : j # 1 =>
              \E k \in DOMAIN chains[cur[t]] : chains'[cur[t]][j] = chains[cur[t]][k]
    BY <1>6, <2>1, UpdateChains
  <2>3. r = cur[t]
    BY <1>6, <2>2
  <2>4. CASE i = 1
    BY <1>6, <2>1, <2>2, <2>3, <2>4 DEF VC!UncommittedOf
  <2>5. CASE i # 1
    BY <1>1, <1>2, <2>2, <2>3, <2>5
  <2> QED
    BY <2>4, <2>5
<1>7. CASE delete_version(t) /\ chains'[r] # chains[r]
  <2>1. cur[t] \in Rids /\ \E chain : chains' = [chains EXCEPT ![cur[t]] = chain]
    BY <1>7 DEF delete_version, TypeInv, ThreadTypes, OnRecord
  <2>2. r = cur[t]
    BY <1>1, <1>7, <2>1
  <2>3. PICK k \in DOMAIN Found(t) : chains'[r][i] = Found(t)[k]
    <3>1. CASE VC!DeleteSucceeds(Found(t), read_ts[t], t)
      <4>1. /\ chains'[r][1].is_deleted
            /\ \A j \in DOMAIN chains'[r] : j # 1 =>
                  j - 1 \in DOMAIN Found(t) /\ chains'[r][j] = Found(t)[j - 1]
        BY <1>7, <2>2, <3>1, DeleteChains
      <4> QED
        BY <1>1, <4>1
    <3>2. CASE ~VC!DeleteSucceeds(Found(t), read_ts[t], t)
      <4>1. chains' = [chains EXCEPT ![r] = Found(t)]
        BY <1>7, <2>2, <3>2 DEF delete_version, Found
      <4> QED
        BY <1>1, <4>1
    <3> QED
      BY <3>1, <3>2
  <2>4. chains[r] # << >>
    BY <2>1, <2>2, <2>3, FoundChain
  <2>5. Found(t) = chains[r]
    BY <2>1, <2>2, <2>4, FoundChain
  <2> QED
    BY <1>2, <2>3, <2>5
<1>8. chains'[r] = chains[r] \/ chains' # chains
  OBVIOUS
<1> QED
  BY <1>3, <1>4, <1>5, <1>6, <1>7, <1>8, ChainSteps

(* Every step preserves LiveIsNoted ... *)
LEMMA NextLiveIsNoted ==
    ASSUME WriterInv, WriterInv', NEW t \in Txns, Step(t), NEW r \in Rids, LiveIsNoted(r)
    PROVE  LiveIsNoted(r)'
<1> DEFINE Near(u) == Noted(u, r) \/ (pc[u] \in {"heap", "map"} /\ cur[u] = r)
<1>1. TypeInv /\ TypeInv' /\ NoInserts /\ Pending(r)' /\ pc \in [Txns -> Steps]
  BY DEF WriterInv, TypeInv, ThreadTypes
<1>2. ASSUME NEW i \in DOMAIN chains'[r], VC!Uncommitted(chains'[r][i])
      PROVE  /\ chains'[r][i].txn_id \in Txns
             /\ pc'[chains'[r][i].txn_id] \in Working \cup {"throw", "versions"}
  BY <1>1, <1>2 DEF Pending, Owns, Active
<1>3. ASSUME NEW i \in Live(chains'[r]), VC!Uncommitted(chains'[r][i]),
             NEW u \in Txns, chains'[r][i].txn_id = u
      PROVE  Near(u)'
  <2>2. Active(u)' \/ pc'[u] = "versions"
    BY <1>2, <1>3 DEF Live, Active
  <2>3. \/ \E k \in Live(chains[r]) : VC!Uncommitted(chains[r][k]) /\ chains[r][k].txn_id = u
        \/ update_version(t) /\ pc'[t] = "heap" /\ cur[t] = r /\ u = t
    BY <1>1, <1>3, LiveOrigin
  <2>4. \/ Near(u)
        \/ update_version(t) /\ pc'[t] = "heap" /\ cur[t] = r /\ u = t
    BY <2>3 DEF LiveIsNoted
  <2>5. CASE u # t
    <3>1. Same(u) /\ Near(u)
      BY <1>1, <2>2, <2>4, <2>5, OthersStay
    <3> QED
      BY <3>1 DEF Same, Noted, UpdateAt
  <2>6. CASE u = t
    <3>1. CASE update_version(t) /\ pc'[t] = "heap"
      <4>1. UNCHANGED <<write_set, cur>> /\ pc[t] = "version"
        BY <1>1, <3>1, UpdateSteps
      <4>2. cur[t] = r \/ Noted(t, r)
        BY <2>4, <2>6
      <4> QED
        BY <2>6, <3>1, <4>1, <4>2 DEF Noted, UpdateAt
    <3>2. CASE ~(update_version(t) /\ pc'[t] = "heap")
      <4>1. Near(t)
        BY <2>4, <2>6, <3>2
      <4>2. CASE update_record(t) /\ pc'[t] = "map"
        BY <1>1, <2>6, <4>1, <4>2, UpdateSteps DEF Noted, UpdateAt
      <4>3. CASE update_record_map(t)
        <5> DEFINE w == WriteRecord("UPDATE", cur[t], rec[t])
        <5>1. pc[t] = "map" /\ w \in WriteRecords /\ append_write_record(t, w)
          BY <1>1, <4>3, UpdateSteps
        <5>2. w.type = "UPDATE" /\ w.rid = cur[t]
          BY DEF WriteRecord
        <5> HIDE DEF w
        <5>3. /\ Len(write_set[t]) \in Nat
              /\ DOMAIN write_set'[t] = 1 .. (Len(write_set[t]) + 1)
              /\ \A k \in DOMAIN write_set[t] :
                    k \in DOMAIN write_set'[t] /\ write_set'[t][k] = write_set[t][k]
              /\ write_set'[t][Len(write_set[t]) + 1] = w
          BY <1>1, <5>1, Appended
        <5>4. Len(write_set[t]) + 1 \in DOMAIN write_set'[t]
          BY <5>3
        <5>5. CASE Noted(t, r)
          BY <2>6, <5>3, <5>5 DEF Noted, UpdateAt
        <5>6. CASE cur[t] = r
          BY <2>6, <5>2, <5>3, <5>4, <5>6 DEF Noted, UpdateAt
        <5> QED
          BY <4>1, <5>5, <5>6
      <4>4. CASE abort(t) \/ rollback_single_operation(t)
        BY <2>2, <2>6, <4>4, UndoSteps DEF Active, Working
      <4>5. CASE Aside(t)
        <5>1. Kept(t) /\ Noted(t, r)
          BY <2>2, <2>6, <4>1, <4>5 DEF Aside
        <5> QED
          BY <2>6, <5>1 DEF Kept, Noted, UpdateAt
      <4> QED
        BY <1>1, <3>2, <4>2, <4>3, <4>4, <4>5, ThreadSteps
    <3> QED
      BY <3>1, <3>2
  <2> QED
    BY <2>5, <2>6
<1>4. ASSUME NEW u \in Txns, Near(u)'
      PROVE  \/ \E k \in DOMAIN write_set'[u] : /\ write_set'[u][k].type = "UPDATE"
                                               /\ write_set'[u][k].rid = r
             \/ pc'[u] \in {"heap", "map"} /\ cur'[u] = r
  BY <1>4 DEF Noted, UpdateAt
<1>5. ASSUME NEW i \in Live(chains'[r]), VC!Uncommitted(chains'[r][i])
      PROVE  \E u \in Txns :
                /\ chains'[r][i].txn_id = u
                /\ \/ \E k \in DOMAIN write_set'[u] : /\ write_set'[u][k].type = "UPDATE"
                                                      /\ write_set'[u][k].rid = r
                   \/ pc'[u] \in {"heap", "map"} /\ cur'[u] = r
  <2>1. PICK u \in Txns : chains'[r][i].txn_id = u
    BY <1>2, <1>5 DEF Live
  <2> QED
    BY <1>3, <1>4, <1>5, <2>1
<1> QED
  BY <1>5 DEF LiveIsNoted, Noted, UpdateAt, Live

(* ... NextShows ... *)
LEMMA NextNextShows ==
    ASSUME LM!LockInv, WriterInv, TypeInv', NEW t \in Txns, Step(t), NEW r \in Rids,
           NEW u \in Txns, NextShows(u, r)
    PROVE  NextShows(u, r)'
<1>1. TypeInv /\ NoInserts /\ chains' \in [Rids -> Chain]
  BY DEF WriterInv, TypeInv, SharedTypes
<1> SUFFICES ASSUME Overtaken(u, r)'
             PROVE  Shows(chains'[r], Live(chains'[r]), Updated(u)'.content)
  BY DEF NextShows, Shows, Live
<1>2. CASE u # t
  <2>1. Same(u)
    BY <1>1, <1>2, OthersStay
  <2>2. Overtaken(u, r)
    BY <2>1 DEF Same, Overtaken
  <2>3. Updated(u)' = Updated(u)
    BY <2>1 DEF Same, Updated
  <2>4. chains'[r] = chains[r]
    BY <1>2, <2>2, BetweenLocks, LockedStays
  <2> QED
    BY <2>2, <2>3, <2>4 DEF NextShows
<1>3. CASE u = t
  <2>1. pc'[t] = "heap" /\ cur'[t] = r
    BY <1>3 DEF Overtaken
  <2>2. update_version(t)
    BY <1>1, <2>1, ThreadSteps, UpdateSteps, UndoSteps DEF Aside
  <2>3. /\ UNCHANGED <<cur, rec>>
        /\ VC!UpdateSucceeds(chains[cur[t]], read_ts[t], t)
    BY <1>1, <2>1, <2>2, UpdateSteps
  <2>4. cur[t] = r /\ Updated(t)' = Updated(t)
    BY <2>1, <2>3 DEF Updated
  <2>5. /\ 1 \in DOMAIN chains'[r] /\ ~chains'[r][1].is_deleted
        /\ chains'[r][1].data = Updated(t)
    BY <1>1, <2>2, <2>3, <2>4, UpdateChains
  <2>6. 1 \in Live(chains'[r]) /\ \A j \in Live(chains'[r]) : 1 <= j
    <3>1. chains'[r] \in Chain
      BY <1>1
    <3>2. Len(chains'[r]) \in Nat /\ DOMAIN chains'[r] = 1 .. Len(chains'[r])
      BY <3>1, Positions
    <3> QED
      BY <2>5, <3>2 DEF Live
  <2> QED
    BY <1>3, <2>4, <2>5, <2>6 DEF Shows
<1> QED
  BY <1>2, <1>3

(* While a transaction is undone, or before it notes its first update, its *)
(* record has no live version but committed ones.                          *)
LEMMA LiveIsSettled ==
    ASSUME LM!LockInv, WriterInv, NEW t \in Txns, NEW r \in Rids, LockedX(t, r), LiveIsNoted(r),
           pc[t] = "undo" \/ (pc[t] \notin {"heap", "map"} /\ ~Noted(t, r))
    PROVE  Settled(chains[r]) = Live(chains[r])
<1>1. TypeInv /\ NoInserts /\ LocksHeld /\ Pending(r) /\ chains[r] \in Chain
  BY DEF WriterInv, TypeInv, SharedTypes
<1>2. ASSUME NEW i \in Live(chains[r]), VC!Uncommitted(chains[r][i])
      PROVE  FALSE
  <2>1. i \in DOMAIN chains[r] /\ i \in 1 .. i
    BY <1>1, Positions DEF Live
  <2>2. chains[r][i].txn_id = t
    BY <1>1, <1>2, <2>1, OnlyOwn DEF VC!UncommittedOf
  <2>3. Owns(t, r)
    BY <1>1, <1>2, <2>1, <2>2 DEF Pending
  <2>4. pc[t] # "undo"
    BY <2>3 DEF Owns, Active, Working
  <2> QED
    BY <1>2, <2>2, <2>4 DEF LiveIsNoted
<1> QED
  BY <1>2 DEF Settled

(* Whoever undoes goes on undoing, or has undone everything. *)
LEMMA AtUndo ==
    ASSUME NEW t \in Txns, Step(t), pc[t] = "undo"
    PROVE  rollback_single_operation(t) \/ undone(t)
<1>1. ~Client(t) /\ ~commit(t) /\ ~abort(t)
  BY DEF Client, begin, Statement, InsertStatement, SetTransaction, commit, abort
<1>2. \A r \in Rids : ~lock_record(t, r) /\ ~scan_record(t, r) /\ ~unlock(t, r)
  BY DEF lock_record, scan_record, unlock
<1>3. /\ ~visit(t) /\ ~get_record(t) /\ ~delete_entry(t) /\ ~check_head(t)
      /\ ~update_version(t) /\ ~delete_version(t) /\ ~update_record(t) /\ ~update_record_map(t)
  BY DEF visit, get_record, delete_entry, check_head, update_version, delete_version,
         update_record, update_record_map
<1>4. ~is_unique(t) /\ ~insert_record(t) /\ ~insert_record_map(t) /\ ~insert_entry(t)
  BY DEF is_unique, insert_record, insert_record_map, insert_entry
<1>5. ~commit_mvcc_versions(t) /\ ~erase_entry(t) /\ ~finish_commit(t) /\ ~erased(t) /\ ~finish_abort(t)
  BY DEF commit_mvcc_versions, erase_entry, finish_commit, erased, finish_abort
<1> QED
  BY <1>1, <1>2, <1>3, <1>4, <1>5, Zenon DEF Step, Server

(* A step that does not write the slot keeps it agreeing with the chain,   *)
(* or comes between the two.                                               *)
LEMMA ChainStepShows ==
    ASSUME LM!LockInv, WriterInv, TypeInv', NEW t \in Txns, Step(t), NEW r \in Rids,
           LiveIsNoted(r), heap'[r] = heap[r],
           Shows(chains[r], Live(chains[r]), heap[r].row.content)
    PROVE  \/ Shows(chains'[r], Live(chains'[r]), heap'[r].row.content)
           \/ Overtaken(t, r)' \/ Restores(t, r)'
<1>1. TypeInv /\ NoInserts /\ pc \in [Txns -> Steps] /\ write_set[t] \in Seq(WriteRecords)
  BY DEF WriterInv, TypeInv, ThreadTypes
<1>2. CASE chains'[r] = chains[r]
  BY <1>2
<1>3. CASE commit_mvcc_versions(t)
  BY <1>1, <1>3, CommitShows
<1>4. CASE abort(t)
  <2>1. /\ pc[t] \in {"idle", "throw"} /\ pc'[t] = "undo" /\ pos'[t] = Len(write_set[t])
        /\ write_set' = write_set
    BY <1>4, UndoSteps
  <2>2. CASE Noted(t, r)
    <3>1. PICK k \in DOMAIN write_set[t] : UpdateAt(t, k, r)
      BY <2>2 DEF Noted
    <3>2. k <= Len(write_set[t])
      BY <1>1, <3>1
    <3> QED
      BY <2>1, <3>1, <3>2 DEF Restores, UpdateAt
  <2>3. CASE ~Noted(t, r)
    <3>1. \A i \in Live(chains[r]) : ~VC!UncommittedOf(chains[r][i], t)
      BY <2>1, <2>3 DEF LiveIsNoted, VC!UncommittedOf
    <3> QED
      BY <1>1, <1>4, <3>1, RollbackShows
  <2> QED
    BY <2>2, <2>3
<1>5. CASE update_version(t) /\ chains'[r] # chains[r]
  <2>1. /\ VC!UpdateSucceeds(chains[cur[t]], read_ts[t], t) /\ pc'[t] = "heap" /\ cur' = cur
    BY <1>1, <1>5 DEF update_version, GoTo
  <2>2. r = cur[t]
    BY <1>1, <1>5, <2>1, UpdateChains
  <2> QED
    BY <2>1, <2>2 DEF Overtaken
<1>6. CASE delete_version(t) /\ chains'[r] # chains[r]
  <2>1. \E chain : chains' = [chains EXCEPT ![cur[t]] = chain]
    BY <1>6 DEF delete_version
  <2>2. r = cur[t]
    BY <1>1, <1>6, <2>1 DEF TypeInv, SharedTypes
  <2> QED
    BY <1>1, <1>6, <2>2, DeleteShows
<1>7. chains'[r] = chains[r] \/ chains' # chains
  OBVIOUS
<1> QED
  BY <1>2, <1>3, <1>4, <1>5, <1>6, <1>7, ChainSteps

(* ... SlotShows ... *)
LEMMA NextSlotShows ==
    ASSUME LM!LockInv, WriterInv, TypeInv', SlotInv, NEW t \in Txns, Step(t), NEW r \in Rids
    PROVE  SlotShows(r)'
<1>1. /\ TypeInv /\ NoInserts /\ pc \in [Txns -> Steps]
      /\ SlotShows(r) /\ LiveIsNoted(r) /\ NextShows(t, r) /\ NotedShows(t, r)
      /\ heap \in [Rids -> [used : BOOLEAN, row : Rows]]
  BY DEF WriterInv, TypeInv, SharedTypes, ThreadTypes, SlotInv
<1> DEFINE Agrees == Shows(chains'[r], Live(chains'[r]), heap'[r].row.content)
<1>2. Agrees \/ (\E u \in Txns : Overtaken(u, r)' \/ Restores(u, r)') => SlotShows(r)'
  BY DEF SlotShows, Shows, Live
<1>3. CASE pc[t] = "heap" /\ cur[t] = r
  <2>1. update_record(t)
    BY <1>3, AtHeap
  <2>2. pc'[t] = "map"
    BY <1>1, <1>3, <2>1, ThreadSteps, UpdateSteps, UndoSteps DEF Aside
  <2>3. chains' = chains /\ heap'[r].row = Updated(t)
    BY <1>1, <1>3, <2>1, <2>2, UpdateSteps
  <2>4. Agrees
    BY <1>1, <1>3, <2>3 DEF NextShows, Overtaken
  <2> QED
    BY <1>2, <2>4
<1>4. CASE rollback_single_operation(t) /\ UpdateAt(t, pos[t], r)
  <2>1. /\ pc[t] = "undo" /\ pc'[t] = "undo" /\ pos[t] \in DOMAIN write_set[t]
        /\ pos[t] \in Nat /\ pos'[t] = pos[t] - 1
        /\ UNCHANGED <<write_set, chains>>
        /\ heap'[r].row = write_set[t][pos[t]].row
    BY <1>4, UndoSteps
  <2>2. CASE \E j \in DOMAIN write_set[t] : j < pos[t] /\ UpdateAt(t, j, r)
    <3>1. PICK j \in DOMAIN write_set[t] : j < pos[t] /\ UpdateAt(t, j, r)
      BY <2>2
    <3>2. j <= pos[t] - 1
      <4>1. j \in Nat
        <5>1. write_set[t] \in Seq(WriteRecords)
          BY <1>1 DEF TypeInv, ThreadTypes
        <5> QED
          BY <3>1, <5>1
      <4> QED
        BY <2>1, <3>1, <4>1
    <3>3. Restores(t, r)'
      BY <2>1, <3>1, <3>2 DEF Restores, UpdateAt
    <3> QED
      BY <1>2, <3>3
  <2>3. CASE ~\E j \in DOMAIN write_set[t] : j < pos[t] /\ UpdateAt(t, j, r)
    <3>1. FirstUpdate(t, r, pos[t])
      BY <1>4, <2>3 DEF FirstUpdate
    <3>2. Shows(chains[r], Settled(chains[r]), write_set[t][pos[t]].row.content)
      BY <1>1, <2>1, <3>1 DEF NotedShows
    <3>3. Restores(t, r)
      BY <1>4, <2>1 DEF Restores
    <3>4. LockedX(t, r)
      BY <3>3, BetweenLocks
    <3>5. Settled(chains[r]) = Live(chains[r])
      BY <1>1, <2>1, <3>4, LiveIsSettled
    <3>6. Agrees
      BY <2>1, <3>2, <3>5
    <3> QED
      BY <1>2, <3>6
  <2> QED
    BY <2>2, <2>3
<1>5. CASE ~(pc[t] = "heap" /\ cur[t] = r) /\ ~(rollback_single_operation(t) /\ UpdateAt(t, pos[t], r))
  <2>1. heap'[r] = heap[r]
    <3>1. CASE heap' = heap
      BY <3>1
    <3>2. CASE update_record(t) /\ heap' = [heap EXCEPT ![cur[t]].row = Updated(t)]
      BY <1>1, <1>5, <3>2 DEF update_record
    <3>3. CASE /\ rollback_single_operation(t)
               /\ pos[t] \in DOMAIN write_set[t]
               /\ write_set[t][pos[t]].type = "UPDATE"
               /\ heap' = [heap EXCEPT ![write_set[t][pos[t]].rid].row = write_set[t][pos[t]].row]
      BY <1>1, <1>5, <3>3 DEF UpdateAt
    <3> QED
      BY <3>1, <3>2, <3>3, SlotSteps
  <2>2. CASE Shows(chains[r], Live(chains[r]), heap[r].row.content)
    BY <1>1, <1>2, <2>1, <2>2, ChainStepShows
  <2>3. ASSUME NEW u \in Txns, Overtaken(u, r) \/ Restores(u, r)
        PROVE  Overtaken(u, r)' \/ Restores(u, r)'
    <3>1. CASE u # t
      <4>1. Same(u)
        BY <1>1, <3>1, OthersStay
      <4> QED
        BY <2>3, <4>1 DEF Same, Overtaken, Restores, UpdateAt
    <3>2. CASE u = t
      <4>1. Restores(t, r)
        BY <1>5, <2>3, <3>2 DEF Overtaken
      <4>2. PICK k \in DOMAIN write_set[t] : k <= pos[t] /\ UpdateAt(t, k, r)
        BY <4>1 DEF Restores
      <4>3. pc[t] = "undo" /\ k \in Nat /\ k > 0 /\ pos[t] \in Nat
        <5>1. write_set[t] \in Seq(WriteRecords) /\ pos[t] \in Nat
          BY <1>1 DEF TypeInv, ThreadTypes
        <5> QED
          BY <4>1, <4>2, <5>1 DEF Restores
      <4>4. CASE undone(t)
        BY <4>2, <4>3, <4>4 DEF undone
      <4>5. CASE rollback_single_operation(t)
        <5>1. k # pos[t]
          BY <1>5, <4>2, <4>5
        <5>2. pc'[t] = "undo" /\ pos'[t] = pos[t] - 1 /\ write_set' = write_set
          BY <4>5, UndoSteps
        <5>3. k <= pos'[t]
          BY <4>2, <4>3, <5>1, <5>2
        <5> QED
          BY <3>2, <4>2, <5>2, <5>3 DEF Restores, UpdateAt
      <4> QED
        BY <4>3, <4>4, <4>5, AtUndo
    <3> QED
      BY <3>1, <3>2
  <2> QED
    BY <1>1, <1>2, <2>2, <2>3 DEF SlotShows
<1> QED
  BY <1>3, <1>4, <1>5

(* ... what others have noted ... *)
LEMMA OthersNotedShows ==
    ASSUME LM!LockInv, WriterInv, NEW t \in Txns, Step(t), NEW r \in Rids,
           NEW u \in Txns, u # t, NotedShows(u, r)
    PROVE  NotedShows(u, r)'
<1>1. Same(u)
  BY OthersStay DEF WriterInv
<1>2. /\ Active(u)' <=> Active(u)
      /\ Noted(u, r)' <=> Noted(u, r)
      /\ \A k : FirstUpdate(u, r, k)' <=> FirstUpdate(u, r, k)
  BY <1>1 DEF Same, Active, Noted, FirstUpdate, UpdateAt
<1>3. CASE LockedX(u, r)
  <2>1. chains'[r] = chains[r]
    BY <1>3, LockedStays
  <2>2. Settled(chains[r])' = Settled(chains[r])
    BY <2>1 DEF Settled, Live
  <2>3. \A content : Shows(chains[r], Settled(chains[r]), content) =>
                        Shows(chains'[r], Settled(chains[r])', content)
    BY <2>1, <2>2
  <2> QED
    BY <1>1, <1>2, <2>1, <2>2 DEF NotedShows, Same, Shows
<1>4. CASE ~LockedX(u, r)
  <2>1. ~(pc[u] \in {"heap", "map"} /\ cur[u] = r) /\ ~(Noted(u, r) /\ Unended(u))
    BY <1>4, BetweenLocks
  <2>2. \A k \in DOMAIN write_set[u] : FirstUpdate(u, r, k) => Noted(u, r)
    BY DEF FirstUpdate, Noted
  <2>3. \A k \in DOMAIN write_set[u] :
           FirstUpdate(u, r, k) => ~Active(u) /\ pc[u] # "undo"
    BY <2>1, <2>2 DEF Unended
  <2> QED
    BY <1>1, <1>2, <2>1, <2>3 DEF NotedShows, Same
<1> QED
  BY <1>3, <1>4

(* ... and what t has noted. *)
LEMMA OwnNotedShows ==
    ASSUME LM!LockInv, WriterInv, TypeInv', CoverInv, SlotInv, NEW t \in Txns, Step(t),
           NEW r \in Rids
    PROVE  NotedShows(t, r)'
<1> DEFINE Seen(content)  == Shows(chains[r], Settled(chains[r]), content)
           SeenN(content) == Shows(chains'[r], Settled(chains'[r]), content)
<1>1. /\ TypeInv /\ NoInserts /\ SlotShows(r) /\ LiveIsNoted(r) /\ NotedShows(t, r)
      /\ ReadIsCurrent(t) /\ pc \in [Txns -> Steps] /\ write_set[t] \in Seq(WriteRecords)
  BY DEF WriterInv, TypeInv, ThreadTypes, SlotInv, CoverInv
<1>2. ASSUME ~commit_mvcc_versions(t), NEW content, Seen(content)
      PROVE  SeenN(content)
  BY <1>1, <1>2, SettledStays
<1>3. /\ \A k \in DOMAIN write_set[t] :
            (FirstUpdate(t, r, k) /\ (Active(t) \/ (pc[t] = "undo" /\ k <= pos[t]))) =>
                Seen(write_set[t][k].row.content)
      /\ (pc[t] \in {"heap", "map"} /\ cur[t] = r /\ ~Noted(t, r)) => Seen(rec[t].content)
  BY <1>1 DEF NotedShows
<1> SUFFICES /\ \A k \in DOMAIN write_set'[t] :
                   (FirstUpdate(t, r, k)' /\ (Active(t)' \/ (pc'[t] = "undo" /\ k <= pos'[t]))) =>
                       SeenN(write_set'[t][k].row.content)
             /\ (pc'[t] \in {"heap", "map"} /\ cur'[t] = r /\ ~Noted(t, r)') =>
                   SeenN(rec'[t].content)
  BY DEF NotedShows, Shows, Settled, Live
<1>4. ASSUME write_set' = write_set
      PROVE  /\ \A k : FirstUpdate(t, r, k)' <=> FirstUpdate(t, r, k)
             /\ Noted(t, r)' <=> Noted(t, r)
  BY <1>4 DEF FirstUpdate, Noted, UpdateAt
<1> HIDE DEF Seen, SeenN
<1>5. CASE update_version(t) /\ pc'[t] = "heap"
  <2>1. /\ pc[t] = "version" /\ Active(t) /\ UNCHANGED <<write_set, heap, cur, rec, pos>>
        /\ ~commit_mvcc_versions(t)
    BY <1>1, <1>5, UpdateSteps DEF commit_mvcc_versions
  <2>2. ASSUME cur[t] = r, ~Noted(t, r)
        PROVE  SeenN(rec[t].content)
    <3>1. LockedX(t, r)
      BY <1>1, <2>1, <2>2 DEF WriterInv, LocksHeld, Locked, AtRecord, Writing, NoInserts, Updating
    <3>2. Shows(chains[r], Live(chains[r]), heap[r].row.content)
      BY <1>1, <2>1, <3>1, HolderSeesChain
    <3>3. Settled(chains[r]) = Live(chains[r])
      BY <1>1, <2>1, <2>2, <3>1, LiveIsSettled
    <3>4. rec[t] = heap[r].row
      BY <1>1, <2>1, <2>2 DEF ReadIsCurrent
    <3>5. Seen(rec[t].content)
      BY <3>2, <3>3, <3>4 DEF Seen
    <3> QED
      BY <1>2, <2>1, <3>5
  <2> QED
    BY <1>2, <1>3, <1>4, <1>5, <2>1, <2>2
<1>6. CASE update_record(t) /\ pc'[t] = "map"
  <2>1. /\ pc[t] = "heap" /\ Active(t) /\ UNCHANGED <<write_set, chains, cur, rec, pos>>
        /\ ~commit_mvcc_versions(t)
    BY <1>1, <1>6, UpdateSteps DEF commit_mvcc_versions
  <2> QED
    BY <1>2, <1>3, <1>4, <1>6, <2>1
<1>7. CASE update_record_map(t)
  <2> DEFINE w == WriteRecord("UPDATE", cur[t], rec[t])
             n == Len(write_set[t]) + 1
  <2>1. /\ pc[t] = "map" /\ Active(t) /\ pc'[t] \in {"idle", "row"}
        /\ w \in WriteRecords /\ append_write_record(t, w) /\ ~commit_mvcc_versions(t)
    BY <1>1, <1>7, UpdateSteps DEF commit_mvcc_versions
  <2>2. w.type = "UPDATE" /\ w.rid = cur[t] /\ w.row = rec[t]
    BY DEF WriteRecord
  <2> HIDE DEF w
  <2>3. /\ Len(write_set[t]) \in Nat
        /\ DOMAIN write_set'[t] = 1 .. n /\ DOMAIN write_set[t] = 1 .. Len(write_set[t])
        /\ \A k \in DOMAIN write_set[t] :
              k \in DOMAIN write_set'[t] /\ write_set'[t][k] = write_set[t][k]
        /\ write_set'[t][n] = w
    BY <1>1, <2>1, Appended
  <2>4. \A k \in DOMAIN write_set[t] : UpdateAt(t, k, r)' <=> UpdateAt(t, k, r)
    BY <2>3 DEF UpdateAt
  <2>5. n \in Nat /\ \A k \in DOMAIN write_set[t] : k < n
    BY <2>3
  <2>6. ASSUME NEW k \in DOMAIN write_set'[t], FirstUpdate(t, r, k)'
        PROVE  SeenN(write_set'[t][k].row.content)
    <3>1. UpdateAt(t, k, r)' /\ \A j \in DOMAIN write_set'[t] : j < k => ~UpdateAt(t, j, r)'
      BY <2>6 DEF FirstUpdate
    <3>2. CASE k \in DOMAIN write_set[t]
      <4>1. FirstUpdate(t, r, k)
        BY <2>3, <2>4, <3>1, <3>2 DEF FirstUpdate
      <4> QED
        BY <1>2, <1>3, <2>1, <2>3, <3>2, <4>1
    <3>3. CASE k = n
      <4>1. ~Noted(t, r)
        BY <2>3, <2>4, <2>5, <3>1, <3>3 DEF Noted
      <4>2. cur[t] = r
        BY <2>2, <2>3, <3>1, <3>3 DEF UpdateAt
      <4> QED
        BY <1>2, <1>3, <2>1, <2>2, <2>3, <3>3, <4>1, <4>2
    <3>4. k \in DOMAIN write_set[t] \/ k = n
      BY <2>3
    <3> QED
      BY <3>2, <3>3, <3>4
  <2> QED
    BY <2>1, <2>6
<1>8. CASE abort(t)
  <2>1. /\ pc[t] \in {"idle", "throw"} /\ Active(t) /\ pc'[t] = "undo"
        /\ UNCHANGED <<write_set, cur, rec>> /\ ~commit_mvcc_versions(t)
    BY <1>8, UndoSteps DEF commit_mvcc_versions
  <2> QED
    BY <1>2, <1>3, <1>4, <2>1
<1>9. CASE rollback_single_operation(t)
  <2>1. /\ pc[t] = "undo" /\ pc'[t] = "undo" /\ pos[t] \in Nat /\ pos'[t] = pos[t] - 1
        /\ write_set' = write_set /\ ~commit_mvcc_versions(t)
    BY <1>9, UndoSteps DEF commit_mvcc_versions
  <2>2. ~Active(t)' /\ \A k \in DOMAIN write_set[t] : k <= pos'[t] => k <= pos[t]
    <3>1. \A k \in DOMAIN write_set[t] : k \in Nat
      BY <1>1
    <3> QED
      BY <2>1, <3>1 DEF Active, Working
  <2> QED
    BY <1>2, <1>3, <1>4, <2>1, <2>2
<1>10. CASE Aside(t)
  <2>1. pc'[t] \notin {"heap", "map", "undo"}
    BY <1>10 DEF Aside
  <2>2. ASSUME NEW k \in DOMAIN write_set'[t], FirstUpdate(t, r, k)', Active(t)'
        PROVE  SeenN(write_set'[t][k].row.content)
    <3>1. Active(t) /\ Kept(t) /\ ~commit_mvcc_versions(t)
      BY <1>10, <2>2 DEF Aside, commit_mvcc_versions, Active, Working
    <3>2. UpdateAt(t, k, r)' /\ \A j \in DOMAIN write_set'[t] : j < k => ~UpdateAt(t, j, r)'
      BY <2>2 DEF FirstUpdate
    <3>3. k \in DOMAIN write_set[t] /\ write_set'[t][k] = write_set[t][k]
      BY <3>1, <3>2 DEF Kept, UpdateAt
    <3>4. \A j \in DOMAIN write_set[t] : UpdateAt(t, j, r)' <=> UpdateAt(t, j, r)
      BY <3>1 DEF Kept, UpdateAt
    <3>5. FirstUpdate(t, r, k)
      BY <3>1, <3>2, <3>3, <3>4 DEF FirstUpdate, Kept
    <3> QED
      BY <1>2, <1>3, <3>1, <3>3, <3>5
  <2> QED
    BY <2>1, <2>2
<1> QED
  BY <1>1, <1>5, <1>6, <1>7, <1>8, <1>9, <1>10, ThreadSteps

(* SlotInv holds in every state when clients issue no INSERT. *)
LEMMA SlotInvHolds ==
    ASSUME "insert" \notin Kinds
    PROVE  Spec => []SlotInv
<1>1. Init => SlotInv
  <2> SUFFICES ASSUME Init PROVE SlotInv
    OBVIOUS
  <2>1. /\ \A r \in Rids : chains[r] = << >> /\ heap[r].row.content = {}
        /\ \A t \in Txns : pc[t] = "none" /\ write_set[t] = << >>
    BY DEF Init, Row, NoRow
  <2>2. \A r \in Rids : Live(chains[r]) = {} /\ Settled(chains[r]) = {}
    BY <2>1 DEF Live, Settled
  <2> QED
    BY <2>1, <2>2
       DEF SlotInv, SlotShows, LiveIsNoted, NextShows, NotedShows, Shows, Overtaken
<1>2. LM!LockInv /\ WriterInv /\ WriterInv' /\ CoverInv /\ SlotInv /\ [Next]_vars => SlotInv'
  <2> SUFFICES ASSUME LM!LockInv, WriterInv, WriterInv', CoverInv, SlotInv, [Next]_vars
               PROVE  SlotInv'
    OBVIOUS
  <2>1. CASE UNCHANGED vars
    BY <2>1 DEF vars, data, local, SlotInv, SlotShows, LiveIsNoted, NextShows, NotedShows, Shows,
                Live, Settled, Overtaken, Restores, Updated, FirstUpdate, Noted, UpdateAt, Active
  <2>2. CASE Next
    <3>1. PICK t \in Txns : Step(t)
      BY <2>2 DEF Next, Step
    <3>2. TypeInv'
      BY DEF WriterInv
    <3>3. \A r \in Rids : SlotShows(r)' /\ LiveIsNoted(r)'
      BY <3>1, <3>2, NextSlotShows, NextLiveIsNoted DEF SlotInv
    <3>4. \A r \in Rids, u \in Txns : NextShows(u, r)'
      BY <3>1, <3>2, NextNextShows DEF SlotInv
    <3>5. \A r \in Rids, u \in Txns : NotedShows(u, r)'
      BY <3>1, <3>2, OthersNotedShows, OwnNotedShows DEF SlotInv
    <3> QED
      BY <3>3, <3>4, <3>5 DEF SlotInv
  <2> QED
    BY <2>1, <2>2
<1> QED
  BY <1>1, <1>2, ServerLockInv, WriterInvHolds, CoverInvHolds, PTL DEF Spec

(* Whenever nobody holds a record, its slot shows the newest version of    *)
(* its chain that is not a deletion: commit and abort keep the lock until  *)
(* both are written, and abort undoes the slot in reverse order.           *)
THEOREM SlotsShowTheChain ==
    ASSUME "insert" \notin Kinds
    PROVE  Spec => []SlotAgreesWithChain
<1>1. WriterInv /\ SlotInv => SlotAgreesWithChain
  <2> SUFFICES ASSUME WriterInv, SlotInv, NEW r \in Rids, Unlocked(r)
               PROVE  Shows(chains[r], Live(chains[r]), heap[r].row.content)
    BY DEF SlotAgreesWithChain
  <2>1. ASSUME NEW t \in Txns, Overtaken(t, r) \/ Restores(t, r)
        PROVE  FALSE
    <3>1. LockedX(t, r)
      BY <2>1, BetweenLocks
    <3> QED
      BY <3>1 DEF LockedX, LM!HoldsMode, Unlocked
  <2> QED
    BY <2>1 DEF SlotInv, SlotShows
<1> QED
  BY <1>1, WriterInvHolds, SlotInvHolds, PTL

-----------------------------------------------------------------------------
(* Inserts.  They take no lock: a slot belongs to the transaction that has *)
(* found it free, until that transaction commits or takes its record out.  *)

(* t runs no statement but INSERT and SELECT. *)
InsertsOnly(t) ==
    /\ pc[t] \notin Writing
    /\ pc[t] \in {"row", "visit", "get"} => stmt[t].kind = "read"
    /\ \A j \in DOMAIN write_set[t] : write_set[t][j].type \in {"INSERT", "IX_INSERT"}

(* t has put a record into slot r and may still take it out: it is about   *)
(* to note it, or has noted it in write record j.                          *)
Placed(t, r) == pc[t] = "slot_map" /\ cur[t] = r

Inserted(t, r, j) ==
    /\ j \in DOMAIN write_set[t]
    /\ write_set[t][j].type = "INSERT" /\ write_set[t][j].rid = r
    /\ Active(t) \/ (pc[t] = "undo" /\ j <= pos[t])

Mine(t, r) == Placed(t, r) \/ \E j \in DOMAIN write_set[t] : Inserted(t, r, j)

(* Such a slot is in use, has one owner and is noted once. *)
OneOwner(r) ==
    /\ \A t \in Txns : Mine(t, r) => heap[r].used
    /\ \A t, u \in Txns : Mine(t, r) /\ Mine(u, r) => t = u
    /\ \A t \in Txns : \A j \in DOMAIN write_set[t] : Inserted(t, r, j) =>
          ~Placed(t, r) /\ \A k \in DOMAIN write_set[t] : Inserted(t, r, k) => j = k

(* Between slot and index entry t finds its own record. *)
AtEntry(t) ==
    /\ pc[t] \in {"slot_map", "entry"} => heap[cur[t]].row.key = stmt[t].key
    /\ pc[t] = "entry" => Mine(t, cur[t])

(* The index leads to a record that may be taken out only if its owner     *)
(* takes the entry out before.                                             *)
EntryGoesFirst(t, r) ==
    \A k \in Keys : index[k] = r =>
        /\ ~Placed(t, r)
        /\ \A j \in DOMAIN write_set[t] : Inserted(t, r, j) =>
              \E m \in DOMAIN write_set[t] :
                 /\ m > j /\ (pc[t] = "undo" => m <= pos[t])
                 /\ write_set[t][m].type = "IX_INSERT" /\ write_set[t][m].row.key = k

(* What a used slot contains is committed, or its owner's. *)
SlotOwned(r) ==
    \A t \in heap[r].row.content : heap[r].used => Committing(t) \/ Mine(t, r)

InsertInv ==
    /\ \A t \in Txns : InsertsOnly(t) /\ AtEntry(t)
    /\ \A r \in Rids : OneOwner(r) /\ SlotOwned(r) /\ \A t \in Txns : EntryGoesFirst(t, r)
    /\ IndexLeadsToRecords

(* A step that leaves slots and index alone *)
Beside(t) ==
    /\ UNCHANGED <<heap, index>>
    /\ pc[t] \notin {"slot_map", "entry"} /\ pc'[t] \notin {"slot_map", "entry", "undo"}
    /\ Active(t)' => Active(t) /\ write_set'[t] = write_set[t]
    /\ Active(t) => Active(t)' \/ Committing(t)'
    /\ pc[t] = "undo" => pos[t] = 0

(* How a thread moves through its inserts and their undoing. *)
LEMMA InsertSteps ==
    ASSUME TypeInv, NEW t \in Txns, InsertsOnly(t), Step(t)
    PROVE  \/ insert_record(t) \/ insert_record_map(t) \/ insert_entry(t)
           \/ abort(t) \/ rollback_single_operation(t)
           \/ Beside(t)
<1>1. pc \in [Txns -> Steps] /\ write_set \in [Txns -> Seq(WriteRecords)]
  BY DEF TypeInv, ThreadTypes
<1>2. \A s : GoTo(t, s) => pc'[t] = s
  BY <1>1 DEF GoTo
<1>3. RowDone(t) \/ Fail(t) => pc'[t] \in {"idle", "row"}
  BY <1>1, RowEnds
<1>4. ASSUME UNCHANGED <<heap, index, write_set>>, pc[t] \notin {"slot_map", "entry", "undo"},
             pc[t] \in Working \cup {"throw"},
             pc'[t] \in Working \cup {"throw", "versions"}, pc'[t] \notin {"slot_map", "entry"}
      PROVE  Beside(t)
  BY <1>4 DEF Beside, Active, Working, Committing
<1>5. ASSUME UNCHANGED <<heap, index>>, pc[t] \notin Working \cup {"throw"},
             pc[t] = "undo" => pos[t] = 0,
             pc'[t] \notin Working \cup {"throw", "undo"}
      PROVE  Beside(t)
  BY <1>5 DEF Beside, Active, Working
<1>6. CASE Client(t)
  BY <1>2, <1>4, <1>6 DEF Client, begin, Statement, InsertStatement, SetTransaction, data, Working
<1>7. CASE commit(t)
  BY <1>2, <1>4, <1>7 DEF commit, data, Working
<1>8. ASSUME NEW s \in Rids, lock_record(t, s)
      PROVE  FALSE
  BY <1>8 DEF lock_record, InsertsOnly
<1>9. ASSUME NEW s \in Rids, scan_record(t, s)
      PROVE  Beside(t)
  BY <1>2, <1>4, <1>9 DEF scan_record, data, Working
<1>10. ASSUME NEW s \in Rids, unlock(t, s)
      PROVE  Beside(t)
  BY <1>2, <1>5, <1>10 DEF unlock, data, Working
<1>11. CASE visit(t)
  BY <1>2, <1>3, <1>4, <1>11 DEF visit, data, Working
<1>12. CASE get_record(t)
  <2>1. stmt[t].kind = "read"
    BY <1>12 DEF get_record, InsertsOnly
  <2>2. RowDone(t) \/ Fail(t)
    BY <1>12, <2>1 DEF get_record
  <2> QED
    BY <1>3, <1>4, <1>12, <2>2 DEF get_record, data, Working
<1>13. CASE delete_entry(t) \/ check_head(t) \/ update_version(t) \/ delete_version(t)
            \/ update_record(t) \/ update_record_map(t)
  BY <1>13 DEF delete_entry, check_head, update_version, delete_version, update_record,
               update_record_map, InsertsOnly, Writing
<1>14. CASE is_unique(t)
  BY <1>2, <1>3, <1>4, <1>14 DEF is_unique, data, Working
<1>15. CASE commit_mvcc_versions(t)
  BY <1>2, <1>5, <1>15 DEF commit_mvcc_versions, Working
<1>16. CASE finish_commit(t) \/ undone(t) \/ erased(t) \/ finish_abort(t)
  BY <1>2, <1>5, <1>16 DEF finish_commit, undone, erased, finish_abort, data, Working
<1>17. CASE erase_entry(t)
  BY <1>5, <1>17 DEF erase_entry, Working
<1> QED
  BY <1>6, <1>7, <1>8, <1>9, <1>10, <1>11, <1>12, <1>13, <1>14, <1>15, <1>16, <1>17, Zenon
     DEF Step, Server

(* The three steps of an insert *)
LEMMA PlaceStep ==
    ASSUME TypeInv, NEW t \in Txns, insert_record(t)
    PROVE  /\ pc[t] = "slot" /\ pc'[t] = "slot_map" /\ Active(t) /\ Active(t)'
           /\ UNCHANGED <<write_set, index, stmt, pos>>
           /\ cur'[t] \in Rids /\ ~heap[cur'[t]].used
           /\ heap'[cur'[t]].used /\ heap'[cur'[t]].row = Row(stmt[t].key, {t})
           /\ \A r \in Rids : r # cur'[t] => heap'[r] = heap[r]
<1>1. PICK r \in Rids :
         /\ ~heap[r].used
         /\ heap' = [heap EXCEPT ![r] = [used |-> TRUE, row |-> Row(stmt[t].key, {t})]]
         /\ cur' = [cur EXCEPT ![t] = r]
  BY DEF insert_record
<1>2. DOMAIN heap = Rids /\ DOMAIN cur = Txns /\ DOMAIN pc = Txns
  BY DEF TypeInv, SharedTypes, ThreadTypes
<1>3. cur'[t] = r /\ pc[t] = "slot" /\ pc'[t] = "slot_map"
  BY <1>1, <1>2 DEF insert_record, GoTo
<1> DEFINE slot == [used |-> TRUE, row |-> Row(stmt[t].key, {t})]
<1>4. slot.used /\ slot.row = Row(stmt[t].key, {t})
  OBVIOUS
<1> HIDE DEF slot
<1>5. heap'[r] = slot /\ \A q \in Rids : q # r => heap'[q] = heap[q]
  BY <1>1, <1>2 DEF slot
<1>6. UNCHANGED <<write_set, index, stmt, pos>>
  BY DEF insert_record
<1> QED
  BY <1>1, <1>3, <1>4, <1>5, <1>6 DEF Active, Working

LEMMA NoteStep ==
    ASSUME TypeInv, NEW t \in Txns, insert_record_map(t)
    PROVE  /\ pc[t] = "slot_map" /\ pc'[t] = "entry" /\ Active(t) /\ Active(t)'
           /\ UNCHANGED <<heap, index, stmt, cur, pos>> /\ cur[t] \in Rids
           /\ Len(write_set[t]) \in Nat /\ DOMAIN write_set[t] = 1 .. Len(write_set[t])
           /\ DOMAIN write_set'[t] = 1 .. (Len(write_set[t]) + 1)
           /\ \A j \in DOMAIN write_set[t] :
                 j \in DOMAIN write_set'[t] /\ write_set'[t][j] = write_set[t][j]
           /\ write_set'[t][Len(write_set[t]) + 1].type = "INSERT"
           /\ write_set'[t][Len(write_set[t]) + 1].rid = cur[t]
<1> DEFINE w == WriteRecord("INSERT", cur[t], Row(stmt[t].key, {t}))
<1>1. /\ pc[t] = "slot_map" /\ cur[t] \in Rids /\ pc'[t] = "entry"
      /\ UNCHANGED <<heap, index, stmt, cur, pos>> /\ append_write_record(t, w)
  BY DEF insert_record_map, GoTo, local, TypeInv, ThreadTypes, OnRecord
<1>2. w \in WriteRecords /\ w.type = "INSERT" /\ w.rid = cur[t]
  <2>1. stmt[t].key \in Keys \cup {NoRid}
    BY DEF TypeInv, ThreadTypes, Statements
  <2> QED
    BY <1>1, <2>1 DEF WriteRecord, WriteRecords, Row, Rows
<1> HIDE DEF w
<1> QED
  BY <1>1, <1>2, Appended DEF Active, Working

LEMMA EntryStep ==
    ASSUME TypeInv, NEW t \in Txns, insert_entry(t)
    PROVE  /\ pc[t] = "entry" /\ pc'[t] = "idle" /\ Active(t) /\ Active(t)'
           /\ UNCHANGED <<heap, stmt, cur, pos>> /\ cur[t] \in Rids
           /\ \A k \in Keys : \/ index'[k] = index[k]
                              \/ k = stmt[t].key /\ index'[k] = cur[t]
           /\ Len(write_set[t]) \in Nat /\ DOMAIN write_set[t] = 1 .. Len(write_set[t])
           /\ DOMAIN write_set'[t] = 1 .. (Len(write_set[t]) + 1)
           /\ \A j \in DOMAIN write_set[t] :
                 j \in DOMAIN write_set'[t] /\ write_set'[t][j] = write_set[t][j]
           /\ write_set'[t][Len(write_set[t]) + 1].type = "IX_INSERT"
           /\ write_set'[t][Len(write_set[t]) + 1].row.key = stmt[t].key
<1> DEFINE w == WriteRecord("IX_INSERT", cur[t], Row(stmt[t].key, {}))
<1>1. /\ pc[t] = "entry" /\ cur[t] \in Rids /\ pc'[t] = "idle"
      /\ UNCHANGED <<heap, stmt, cur, pos>> /\ append_write_record(t, w)
  BY DEF insert_entry, GoTo, local, TypeInv, ThreadTypes, OnRecord
<1>2. w \in WriteRecords /\ w.type = "IX_INSERT" /\ w.row.key = stmt[t].key
  <2>1. stmt[t].key \in Keys \cup {NoRid}
    BY DEF TypeInv, ThreadTypes, Statements
  <2> QED
    BY <1>1, <2>1 DEF WriteRecord, WriteRecords, Row, Rows
<1>3. \A k \in Keys : \/ index'[k] = index[k]
                      \/ k = stmt[t].key /\ index'[k] = cur[t]
  BY DEF insert_entry, EntryInserted, TypeInv, SharedTypes
<1> HIDE DEF w
<1> QED
  BY <1>1, <1>2, <1>3, Appended DEF Active, Working

(* The undoing of the last write that is left *)
LEMMA TakeOutStep ==
    ASSUME TypeInv, NEW t \in Txns, InsertsOnly(t), rollback_single_operation(t)
    PROVE  /\ pc[t] = "undo" /\ pc'[t] = "undo" /\ pos[t] \in DOMAIN write_set[t]
           /\ pos[t] \in Nat /\ pos'[t] = pos[t] - 1
           /\ UNCHANGED <<write_set, stmt, cur>>
           /\ \/ /\ write_set[t][pos[t]].type = "INSERT" /\ index' = index
                 /\ write_set[t][pos[t]].rid \in Rids /\ ~heap'[write_set[t][pos[t]].rid].used
                 /\ \A r \in Rids : heap'[r].row = heap[r].row
                 /\ \A r \in Rids : r # write_set[t][pos[t]].rid => heap'[r] = heap[r]
              \/ /\ write_set[t][pos[t]].type = "IX_INSERT" /\ heap' = heap
                 /\ \A k \in Keys :
                       index'[k] = IF k = write_set[t][pos[t]].row.key THEN NoRid ELSE index[k]
<1>1. /\ pc \in [Txns -> Steps] /\ pos \in [Txns -> Nat] /\ write_set[t] \in Seq(WriteRecords)
      /\ heap \in [Rids -> [used : BOOLEAN, row : Rows]] /\ DOMAIN index = Keys
  BY DEF TypeInv, SharedTypes, ThreadTypes
<1>2. /\ pc[t] = "undo" /\ pos[t] > 0 /\ pos[t] <= Len(write_set[t])
      /\ UNCHANGED <<pc, write_set, stmt, cur>> /\ pos'[t] = pos[t] - 1
  BY <1>1 DEF rollback_single_operation, TypeInv, ThreadTypes
<1>3. pos[t] \in DOMAIN write_set[t]
  BY <1>1, <1>2
<1> DEFINE w == write_set[t][pos[t]]
<1>4. w \in WriteRecords /\ Undo(w) /\ w.type \in {"INSERT", "IX_INSERT"} /\ w.rid \in Rids
  <2>1. w \in WriteRecords
    BY <1>1, <1>3
  <2>2. Undo(w) /\ w.type \in {"INSERT", "IX_INSERT"}
    BY <1>3 DEF rollback_single_operation, InsertsOnly
  <2> QED
    BY <2>1, <2>2 DEF WriteRecords
<1> HIDE DEF w
<1>5. CASE w.type = "INSERT"
  <2> DEFINE slot == heap[w.rid]
  <2>1. heap' = [heap EXCEPT ![w.rid] = [slot EXCEPT !.used = FALSE]] /\ index' = index
    BY <1>5, <1>4 DEF Undo
  <2>2. slot \in [used : BOOLEAN, row : Rows]
    BY <1>1, <1>4
  <2> HIDE DEF slot
  <2>3. ~[slot EXCEPT !.used = FALSE].used /\ [slot EXCEPT !.used = FALSE].row = slot.row
    BY <2>2
  <2> QED
    BY <1>1, <1>2, <1>3, <1>4, <1>5, <2>1, <2>3 DEF w, slot
<1>6. CASE w.type = "IX_INSERT"
  <2>1. heap' = heap /\ index' = [index EXCEPT ![w.row.key] = NoRid]
    BY <1>6, <1>4 DEF Undo
  <2> QED
    BY <1>1, <1>2, <1>3, <1>6, <2>1 DEF w
<1> QED
  BY <1>4, <1>5, <1>6

LEMMA TurnBackStep ==
    ASSUME TypeInv, NEW t \in Txns, abort(t)
    PROVE  /\ pc[t] \in {"idle", "throw"} /\ pc'[t] = "undo" /\ Active(t)
           /\ pos'[t] = Len(write_set[t]) /\ UNCHANGED <<write_set, heap, index, stmt, cur>>
           /\ \A j \in DOMAIN write_set[t] : j <= pos'[t]
<1>1. write_set[t] \in Seq(WriteRecords) /\ DOMAIN pc = Txns /\ DOMAIN pos = Txns
  BY DEF TypeInv, ThreadTypes
<1>2. /\ pc[t] \in {"idle", "throw"} /\ pc'[t] = "undo" /\ Active(t)
      /\ pos'[t] = Len(write_set[t]) /\ UNCHANGED <<write_set, heap, index, stmt, cur>>
  BY <1>1 DEF abort, GoTo, Active, Working
<1> QED
  BY <1>1, <1>2

(* What the owner of a slot has done before *)
LEMMA InsertedBefore ==
    ASSUME TypeInv, NEW t \in Txns, InsertsOnly(t), Step(t),
           NEW u \in Txns, NEW r \in Rids, NEW j, Inserted(u, r, j)'
    PROVE  \/ Inserted(u, r, j) /\ write_set'[u][j] = write_set[u][j]
           \/ u = t /\ insert_record_map(t) /\ Placed(t, r) /\ j = Len(write_set[t]) + 1
<1>1. CASE u # t
  <2>1. Same(u)
    BY <1>1, OthersStay
  <2> QED
    BY <2>1 DEF Same, Inserted, Active
<1>2. CASE u = t
  <2>1. j \in DOMAIN write_set'[t]
    BY <1>2 DEF Inserted
  <2>2. CASE insert_record(t)
    BY <1>2, <2>2, PlaceStep DEF Inserted
  <2>3. CASE insert_record_map(t)
    <3>1. j \in DOMAIN write_set[t] \/ j = Len(write_set[t]) + 1
      BY <2>1, <2>3, NoteStep
    <3>2. j = Len(write_set[t]) + 1 => Placed(t, r)
      BY <1>2, <2>3, NoteStep DEF Inserted, Placed
    <3>3. j \in DOMAIN write_set[t] => Inserted(t, r, j) /\ write_set'[t][j] = write_set[t][j]
      BY <1>2, <2>3, NoteStep DEF Inserted
    <3> QED
      BY <1>2, <2>3, <3>1, <3>2, <3>3
  <2>4. CASE insert_entry(t)
    <3>1. j \in DOMAIN write_set[t] \/ j = Len(write_set[t]) + 1
      BY <2>1, <2>4, EntryStep
    <3>2. j # Len(write_set[t]) + 1
      BY <1>2, <2>4, EntryStep DEF Inserted
    <3> QED
      BY <1>2, <2>4, <3>1, <3>2, EntryStep DEF Inserted
  <2>5. CASE abort(t)
    BY <1>2, <2>5, TurnBackStep DEF Inserted
  <2>6. CASE rollback_single_operation(t)
    <3>1. pc[t] = "undo" /\ pc'[t] = "undo" /\ pos[t] \in Nat /\ pos'[t] = pos[t] - 1 /\ write_set' = write_set
      BY <2>6, TakeOutStep
    <3>2. j \in Nat /\ j <= pos'[t]
      <4>1. write_set[t] \in Seq(WriteRecords)
        BY DEF TypeInv, ThreadTypes
      <4> QED
        BY <1>2, <2>1, <3>1, <4>1 DEF Inserted, Active, Working
    <3>3. j <= pos[t]
      BY <3>1, <3>2
    <3> QED
      BY <1>2, <3>1, <3>3 DEF Inserted
  <2>7. CASE Beside(t)
    <3>1. Active(t)'
      BY <1>2, <2>7 DEF Inserted, Beside
    <3> QED
      BY <1>2, <2>7, <3>1 DEF Inserted, Beside
  <2> QED
    BY <2>2, <2>3, <2>4, <2>5, <2>6, <2>7, InsertSteps
<1> QED
  BY <1>1, <1>2

LEMMA PlacedBefore ==
    ASSUME TypeInv, NEW t \in Txns, InsertsOnly(t), Step(t),
           NEW u \in Txns, NEW r \in Rids, Placed(u, r)'
    PROVE  \/ Placed(u, r) /\ u # t
           \/ u = t /\ insert_record(t) /\ cur'[t] = r
<1>1. CASE u # t
  BY <1>1, OthersStay DEF Same, Placed
<1>2. CASE u = t
  <2>1. pc'[t] = "slot_map" /\ cur'[t] = r
    BY <1>2 DEF Placed
  <2>2. insert_record(t)
    BY <2>1, InsertSteps, NoteStep, EntryStep, TurnBackStep, TakeOutStep DEF Beside
  <2> QED
    BY <1>2, <2>1, <2>2
<1> QED
  BY <1>1, <1>2

LEMMA MineBefore ==
    ASSUME TypeInv, NEW t \in Txns, InsertsOnly(t), Step(t),
           NEW u \in Txns, NEW r \in Rids, Mine(u, r)'
    PROVE  Mine(u, r) \/ (u = t /\ insert_record(t) /\ cur'[t] = r)
<1>1. CASE Placed(u, r)'
  BY <1>1, PlacedBefore DEF Mine
<1>2. ASSUME NEW j, Inserted(u, r, j)'
      PROVE  Mine(u, r)
  <2>1. Inserted(u, r, j) \/ Placed(u, r)
    BY <1>2, InsertedBefore
  <2> QED
    BY <2>1 DEF Mine, Inserted
<1> QED
  BY <1>1, <1>2 DEF Mine

(* ... and what becomes of the slot: it is kept until its owner commits,   *)
(* or abort takes the record out.                                          *)
LEMMA MineAfter ==
    ASSUME TypeInv, NEW t \in Txns, InsertsOnly(t), Step(t),
           NEW u \in Txns, NEW r \in Rids, Mine(u, r)
    PROVE  \/ Mine(u, r)' \/ Committing(u)'
           \/ u = t /\ rollback_single_operation(t) /\ Inserted(t, r, pos[t])
<1>1. CASE u # t
  <2>1. Same(u)
    BY <1>1, OthersStay
  <2> QED
    BY <2>1 DEF Same, Mine, Placed, Inserted, Active
<1>2. CASE u = t /\ Placed(t, r)
  <2>1. pc[t] = "slot_map" /\ cur[t] = r
    BY <1>2 DEF Placed
  <2>2. insert_record_map(t)
    BY <2>1, InsertSteps, PlaceStep, EntryStep, TurnBackStep, TakeOutStep DEF Beside
  <2>3. Len(write_set[t]) + 1 \in DOMAIN write_set'[t]
    BY <2>2, NoteStep
  <2>4. PICK n \in DOMAIN write_set'[t] : n = Len(write_set[t]) + 1
    BY <2>3
  <2>5. Inserted(t, r, n)'
    BY <2>1, <2>2, <2>4, NoteStep DEF Inserted
  <2> QED
    BY <1>2, <2>4, <2>5 DEF Mine
<1>3. ASSUME u = t, NEW j \in DOMAIN write_set[t], Inserted(t, r, j)
      PROVE  \/ Mine(t, r)' \/ Committing(t)'
             \/ rollback_single_operation(t) /\ j = pos[t]
  <2>1. ASSUME j \in DOMAIN write_set'[t], write_set'[t][j] = write_set[t][j],
               Active(t)' \/ (pc'[t] = "undo" /\ j <= pos'[t])
        PROVE  Mine(t, r)'
    BY <1>3, <2>1 DEF Mine, Inserted
  <2>2. CASE insert_record(t)
    BY <2>1, <2>2, PlaceStep
  <2>3. CASE insert_record_map(t)
    BY <2>1, <2>3, NoteStep
  <2>4. CASE insert_entry(t)
    BY <2>1, <2>4, EntryStep
  <2>5. CASE abort(t)
    BY <2>1, <2>5, TurnBackStep
  <2>6. CASE rollback_single_operation(t)
    <3>1. pc[t] = "undo" /\ pc'[t] = "undo" /\ pos[t] \in Nat /\ pos'[t] = pos[t] - 1 /\ write_set' = write_set
      BY <2>6, TakeOutStep
    <3>2. j \in Nat /\ j <= pos[t]
      <4>1. write_set[t] \in Seq(WriteRecords)
        BY DEF TypeInv, ThreadTypes
      <4> QED
        BY <1>3, <3>1, <4>1 DEF Inserted, Active, Working
    <3>3. j # pos[t] => j <= pos'[t]
      BY <3>1, <3>2
    <3> QED
      BY <2>1, <2>6, <3>1, <3>3
  <2>7. CASE Beside(t)
    <3>1. Active(t)
      <4>1. write_set[t] \in Seq(WriteRecords)
        BY DEF TypeInv, ThreadTypes
      <4> QED
        BY <1>3, <2>7, <4>1 DEF Beside, Inserted
    <3> QED
      BY <2>1, <2>7, <3>1 DEF Beside
  <2> QED
    BY <2>2, <2>3, <2>4, <2>5, <2>6, <2>7, InsertSteps
<1> QED
  BY <1>1, <1>2, <1>3 DEF Mine

(* Every step preserves OneOwner: a record is put into a free slot only.   *)
LEMMA NextOneOwner ==
    ASSUME TypeInv, NEW t \in Txns, InsertsOnly(t), Step(t), NEW r \in Rids, OneOwner(r)
    PROVE  OneOwner(r)'
<1>1. ASSUME NEW u \in Txns, Mine(u, r)'
      PROVE  Mine(u, r) \/ (u = t /\ insert_record(t) /\ cur'[t] = r)
  BY <1>1, MineBefore
<1>2. insert_record(t) /\ cur'[t] = r => ~heap[r].used /\ heap'[r].used
  BY PlaceStep
<1>3. ASSUME NEW u \in Txns, NEW v \in Txns, Mine(u, r)', Mine(v, r)'
      PROVE  u = v
  BY <1>1, <1>2, <1>3 DEF OneOwner
<1>4. ASSUME NEW u \in Txns, NEW j \in DOMAIN write_set'[u], Inserted(u, r, j)'
      PROVE  /\ ~Placed(u, r)'
             /\ \A k \in DOMAIN write_set'[u] : Inserted(u, r, k)' => j = k
  <2>1. Inserted(u, r, j) => j \in DOMAIN write_set[u] /\ Mine(u, r)
    BY DEF Inserted, Mine
  <2>2. Placed(u, r) => Mine(u, r)
    BY DEF Mine
  <2>3. ~Placed(u, r)'
    <3> SUFFICES ASSUME Placed(u, r)' PROVE FALSE
      OBVIOUS
    <3>1. CASE Placed(u, r) /\ u # t
      <4>1. Inserted(u, r, j)
        BY <1>4, <3>1, InsertedBefore
      <4> QED
        BY <2>1, <3>1, <4>1 DEF OneOwner
    <3>2. CASE u = t /\ insert_record(t) /\ cur'[t] = r
      <4>1. ~insert_record_map(t)
        BY <3>2 DEF insert_record, insert_record_map
      <4>2. Inserted(u, r, j)
        BY <1>4, <4>1, InsertedBefore
      <4> QED
        BY <1>2, <2>1, <3>2, <4>2 DEF OneOwner
    <3> QED
      BY <3>1, <3>2, PlacedBefore
  <2>4. ASSUME NEW k \in DOMAIN write_set'[u], Inserted(u, r, k)'
        PROVE  j = k
    <3>1. \/ Inserted(u, r, j)
          \/ u = t /\ Placed(t, r) /\ j = Len(write_set[t]) + 1
      BY <1>4, InsertedBefore
    <3>2. \/ Inserted(u, r, k)
          \/ u = t /\ Placed(t, r) /\ k = Len(write_set[t]) + 1
      BY <2>4, InsertedBefore
    <3>3. Inserted(u, r, k) => k \in DOMAIN write_set[u]
      BY DEF Inserted
    <3> QED
      BY <2>1, <3>1, <3>2, <3>3 DEF OneOwner
  <2> QED
    BY <2>3, <2>4
<1>5. ASSUME NEW u \in Txns, Mine(u, r)'
      PROVE  heap'[r].used
  <2>1. CASE insert_record(t) /\ cur'[t] = r
    BY <1>2, <2>1
  <2>2. CASE ~(insert_record(t) /\ cur'[t] = r)
    <3>1. Mine(u, r) /\ heap[r].used
      BY <1>1, <1>5, <2>2 DEF OneOwner
    <3>2. CASE heap'[r] = heap[r]
      BY <3>1, <3>2
    <3>3. CASE heap'[r] # heap[r]
      <4>1. ~insert_record(t)
        BY <2>2, <3>3, PlaceStep
      <4>2. /\ rollback_single_operation(t)
            /\ write_set[t][pos[t]].type = "INSERT" /\ write_set[t][pos[t]].rid = r
        BY <3>3, <4>1, InsertSteps, NoteStep, EntryStep, TurnBackStep, TakeOutStep DEF Beside
      <4>3. /\ pc[t] = "undo" /\ pc'[t] = "undo" /\ pos[t] \in DOMAIN write_set[t]
            /\ pos[t] \in Nat /\ pos'[t] = pos[t] - 1
        BY <4>2, TakeOutStep
      <4>4. Inserted(t, r, pos[t])
        BY <4>2, <4>3 DEF Inserted
      <4>5. u = t
        BY <3>1, <4>3, <4>4 DEF OneOwner, Mine
      <4>6. PICK j \in DOMAIN write_set'[t] : Inserted(t, r, j)'
        BY <1>5, <4>3, <4>5 DEF Mine, Placed
      <4>7. Inserted(t, r, j) /\ j <= pos'[t]
        <5>1. ~insert_record_map(t)
          BY <4>3 DEF insert_record_map
        <5>2. Inserted(t, r, j)
          BY <4>6, <5>1, InsertedBefore
        <5> QED
          BY <4>3, <4>6, <5>2 DEF Inserted, Active, Working
      <4>8. j = pos[t]
        BY <4>3, <4>4, <4>7 DEF OneOwner, Inserted
      <4> QED
        BY <4>3, <4>7, <4>8
    <3> QED
      BY <3>2, <3>3
  <2> QED
    BY <2>1, <2>2
<1> QED
  BY <1>3, <1>4, <1>5 DEF OneOwner

(* Every step preserves AtEntry ... *)
LEMMA NextAtEntry ==
    ASSUME TypeInv, NEW t \in Txns, InsertsOnly(t), Step(t), NEW u \in Txns, AtEntry(u),
           \A r \in Rids : OneOwner(r)
    PROVE  AtEntry(u)'
<1>1. CASE u # t
  <2>1. Same(u)
    BY <1>1, OthersStay
  <2>2. Mine(u, cur[u])' <=> Mine(u, cur[u])
    BY <2>1 DEF Same, Mine, Placed, Inserted, Active
  <2>3. ASSUME pc[u] \in {"slot_map", "entry"}
        PROVE  heap'[cur[u]].row = heap[cur[u]].row
    <3>1. cur[u] \in Rids /\ Mine(u, cur[u])
      BY <2>3 DEF AtEntry, Mine, Placed, TypeInv, ThreadTypes, OnRecord
    <3>2. heap[cur[u]].used
      BY <3>1 DEF OneOwner
    <3> QED
      BY <3>1, <3>2, InsertSteps, PlaceStep, NoteStep, EntryStep, TurnBackStep, TakeOutStep
         DEF Beside
  <2> QED
    BY <2>1, <2>2, <2>3 DEF AtEntry, Same
<1>2. CASE u = t
  <2>1. CASE pc'[t] = "slot_map"
    <3>1. insert_record(t)
      BY <2>1, InsertSteps, NoteStep, EntryStep, TurnBackStep, TakeOutStep DEF Beside
    <3>2. heap'[cur'[t]].row = Row(stmt[t].key, {t}) /\ stmt' = stmt
      BY <3>1, PlaceStep
    <3> QED
      BY <1>2, <2>1, <3>2 DEF AtEntry, Row
  <2>2. CASE pc'[t] = "entry"
    <3>1. insert_record_map(t)
      BY <2>2, InsertSteps, PlaceStep, EntryStep, TurnBackStep, TakeOutStep DEF Beside
    <3>2. /\ pc[t] = "slot_map" /\ UNCHANGED <<heap, stmt, cur>> /\ cur[t] \in Rids
          /\ ~rollback_single_operation(t)
      BY <3>1, NoteStep DEF rollback_single_operation
    <3>3. Mine(t, cur[t])
      BY <3>2 DEF Mine, Placed
    <3>4. ASSUME NEW r \in Rids, r = cur[t]
          PROVE  Mine(t, r)'
      BY <2>2, <3>2, <3>3, <3>4, MineAfter DEF Committing
    <3>5. Mine(t, cur[t])'
      BY <3>2, <3>4
    <3> QED
      BY <1>2, <2>2, <3>2, <3>5 DEF AtEntry
  <2>3. CASE pc'[t] \notin {"slot_map", "entry"}
    BY <1>2, <2>3 DEF AtEntry
  <2> QED
    BY <2>1, <2>2, <2>3
<1> QED
  BY <1>1, <1>2

(* ... SlotOwned ... *)
LEMMA NextSlotOwned ==
    ASSUME TypeInv, NEW t \in Txns, InsertsOnly(t), Step(t), NEW r \in Rids, SlotOwned(r)
    PROVE  SlotOwned(r)'
<1>1. CASE insert_record(t) /\ cur'[t] = r
  <2>1. heap'[r].row = Row(stmt[t].key, {t}) /\ Placed(t, r)'
    BY <1>1, PlaceStep DEF Placed
  <2>2. \A u \in heap'[r].row.content : u = t
    BY <2>1 DEF Row
  <2> QED
    BY <2>1, <2>2 DEF SlotOwned, Mine
<1>2. CASE rollback_single_operation(t) /\ Inserted(t, r, pos[t])
  <2>1. ~heap'[r].used
    BY <1>2, TakeOutStep DEF Inserted
  <2> QED
    BY <2>1 DEF SlotOwned
<1>3. CASE /\ ~(insert_record(t) /\ cur'[t] = r)
           /\ ~(rollback_single_operation(t) /\ Inserted(t, r, pos[t]))
  <2>1. heap'[r] = heap[r]
    <3>1. CASE insert_record(t)
      BY <1>3, <3>1, PlaceStep
    <3>2. CASE rollback_single_operation(t)
      <4>1. ~(write_set[t][pos[t]].type = "INSERT" /\ write_set[t][pos[t]].rid = r)
        <5>1. pc[t] = "undo" /\ pos[t] \in DOMAIN write_set[t] /\ pos[t] \in Nat
          BY <3>2, TakeOutStep
        <5> QED
          BY <1>3, <3>2, <5>1 DEF Inserted
      <4> QED
        BY <3>2, <4>1, TakeOutStep
    <3> QED
      BY <3>1, <3>2, InsertSteps, NoteStep, EntryStep, TurnBackStep DEF Beside
  <2>2. \A u \in heap[r].row.content : u \in Txns
    BY DEF TypeInv, SharedTypes, Rows
  <2>3. ASSUME NEW u \in heap[r].row.content, heap[r].used
        PROVE  Committing(u)' \/ Mine(u, r)'
    <3>1. u \in Txns /\ (Committing(u) \/ Mine(u, r))
      BY <2>2, <2>3 DEF SlotOwned
    <3> QED
      BY <1>3, <3>1, CommittingStays, MineAfter
  <2> QED
    BY <2>1, <2>3 DEF SlotOwned
<1> QED
  BY <1>1, <1>2, <1>3

(* ... that the index leads to records ... *)
LEMMA NextLeads ==
    ASSUME TypeInv, InsertInv, NEW t \in Txns, Step(t)
    PROVE  IndexLeadsToRecords'
<1>1. InsertsOnly(t) /\ AtEntry(t) /\ index \in [Keys -> Rids \cup {NoRid}]
  BY DEF InsertInv, TypeInv, SharedTypes
<1>2. \A k \in Keys : index[k] # NoRid =>
         index[k] \in Rids /\ heap[index[k]].used /\ heap[index[k]].row.key = k
  BY <1>1 DEF InsertInv, IndexLeadsToRecords
<1> SUFFICES ASSUME NEW k \in Keys, index'[k] # NoRid
             PROVE  heap'[index'[k]].used /\ heap'[index'[k]].row.key = k
  BY DEF IndexLeadsToRecords
<1>3. CASE insert_record(t)
  <2>1. index' = index /\ index[k] # cur'[t]
    BY <1>2, <1>3, PlaceStep
  <2>2. index[k] \in Rids /\ heap[index[k]].used /\ heap[index[k]].row.key = k
    BY <1>2, <2>1
  <2>3. heap'[index[k]] = heap[index[k]]
    BY <1>3, <2>1, <2>2, PlaceStep
  <2> QED
    BY <2>1, <2>2, <2>3
<1>4. CASE insert_entry(t)
  <2>1. /\ heap' = heap /\ pc[t] = "entry" /\ cur[t] \in Rids
        /\ index'[k] = index[k] \/ (k = stmt[t].key /\ index'[k] = cur[t])
    BY <1>4, EntryStep
  <2>2. heap[cur[t]].used /\ heap[cur[t]].row.key = stmt[t].key
    BY <1>1, <2>1 DEF AtEntry, InsertInv, OneOwner
  <2> QED
    BY <1>2, <2>1, <2>2
<1>5. CASE rollback_single_operation(t) /\ write_set[t][pos[t]].type = "INSERT"
  <2> DEFINE r == write_set[t][pos[t]].rid
  <2>1. /\ pc[t] = "undo" /\ pos[t] \in DOMAIN write_set[t] /\ pos[t] \in Nat
        /\ index' = index /\ r \in Rids
        /\ \A q \in Rids : q # r => heap'[q] = heap[q]
    BY <1>1, <1>5, TakeOutStep
  <2>2. Inserted(t, r, pos[t])
    BY <1>5, <2>1 DEF Inserted
  <2> HIDE DEF r
  <2>3. index[k] # r
    <3> SUFFICES ASSUME index[k] = r PROVE FALSE
      OBVIOUS
    <3>1. PICK m \in DOMAIN write_set[t] : m > pos[t] /\ m <= pos[t]
      BY <2>1, <2>2 DEF InsertInv, EntryGoesFirst
    <3>2. m \in Nat
      <4>1. write_set[t] \in Seq(WriteRecords)
        BY DEF TypeInv, ThreadTypes
      <4> QED
        BY <3>1, <4>1
    <3> QED
      BY <2>1, <3>1, <3>2
  <2> QED
    BY <1>2, <2>1, <2>3
<1>6. CASE rollback_single_operation(t) /\ write_set[t][pos[t]].type # "INSERT"
  <2>1. heap' = heap /\ index'[k] = index[k]
    BY <1>1, <1>6, TakeOutStep
  <2> QED
    BY <1>2, <2>1
<1>7. CASE insert_record_map(t) \/ abort(t) \/ Beside(t)
  <2>1. UNCHANGED <<heap, index>>
    BY <1>7, NoteStep, TurnBackStep DEF Beside
  <2> QED
    BY <1>2, <2>1
<1> QED
  BY <1>1, <1>3, <1>4, <1>5, <1>6, <1>7, InsertSteps

(* ... that an entry goes before its record ... *)
LEMMA NextEntryGoesFirst ==
    ASSUME TypeInv, InsertInv, NEW t \in Txns, Step(t), NEW r \in Rids, NEW u \in Txns
    PROVE  EntryGoesFirst(u, r)'
<1>1. /\ InsertsOnly(t) /\ AtEntry(t) /\ OneOwner(r) /\ EntryGoesFirst(u, r)
      /\ index \in [Keys -> Rids \cup {NoRid}] /\ IndexLeadsToRecords
  BY DEF InsertInv, TypeInv, SharedTypes
<1> SUFFICES ASSUME NEW k \in Keys, index'[k] = r
             PROVE  /\ ~Placed(u, r)'
                    /\ \A j \in DOMAIN write_set'[u] : Inserted(u, r, j)' =>
                          \E m \in DOMAIN write_set'[u] :
                             /\ m > j /\ (pc'[u] = "undo" => m <= pos'[u])
                             /\ write_set'[u][m].type = "IX_INSERT"
                             /\ write_set'[u][m].row.key = k
  BY DEF EntryGoesFirst
<1>2. CASE index[k] # r
  <2>1. insert_entry(t) /\ k = stmt[t].key /\ cur[t] = r
    <3>1. index'[k] # index[k] /\ index'[k] # NoRid
      BY <1>2, NoRidIsNoRid
    <3>2. insert_entry(t)
      BY <1>1, <3>1, InsertSteps, PlaceStep, NoteStep, TurnBackStep, TakeOutStep DEF Beside
    <3> QED
      BY <3>1, <3>2, EntryStep
  <2>2. /\ pc[t] = "entry" /\ pc'[t] = "idle" /\ ~insert_record(t) /\ ~insert_record_map(t)
        /\ Len(write_set[t]) + 1 \in DOMAIN write_set'[t]
        /\ write_set'[t][Len(write_set[t]) + 1].type = "IX_INSERT"
        /\ write_set'[t][Len(write_set[t]) + 1].row.key = k
        /\ Len(write_set[t]) \in Nat /\ DOMAIN write_set[t] = 1 .. Len(write_set[t])
    BY <2>1, EntryStep DEF insert_record, insert_record_map
  <2>3. Mine(t, r)
    BY <1>1, <2>1, <2>2 DEF AtEntry
  <2>4. Mine(u, r)' => u = t
    BY <1>1, <2>2, <2>3, MineBefore DEF OneOwner
  <2>5. CASE u # t
    BY <2>4, <2>5 DEF Mine
  <2>6. CASE u = t
    <3>1. ~Placed(u, r)'
      BY <2>2, <2>6 DEF Placed
    <3>2. ASSUME NEW j \in DOMAIN write_set'[u], Inserted(u, r, j)'
          PROVE  Len(write_set[t]) + 1 > j
      <4>1. j \in DOMAIN write_set[t]
        BY <1>1, <2>2, <2>6, <3>2, InsertedBefore DEF Inserted
      <4> QED
        BY <2>2, <4>1
    <3> QED
      BY <2>2, <2>6, <3>1, <3>2
  <2> QED
    BY <2>5, <2>6
<1>3. CASE index[k] = r
  <2>1. heap[r].used
    BY <1>1, <1>3, NoRidIsNoRid DEF IndexLeadsToRecords
  <2>2. ~Placed(u, r)
    BY <1>1, <1>3 DEF EntryGoesFirst
  <2>3. ~Placed(u, r)'
    <3> SUFFICES ASSUME Placed(u, r)' PROVE FALSE
      OBVIOUS
    <3>1. insert_record(t) /\ cur'[t] = r
      BY <1>1, <2>2, PlacedBefore
    <3> QED
      BY <2>1, <3>1, PlaceStep
  <2>4. ASSUME NEW j \in DOMAIN write_set'[u], Inserted(u, r, j)'
        PROVE  \E m \in DOMAIN write_set'[u] :
                  /\ m > j /\ (pc'[u] = "undo" => m <= pos'[u])
                  /\ write_set'[u][m].type = "IX_INSERT"
                  /\ write_set'[u][m].row.key = k
    <3>1. Inserted(u, r, j) /\ j \in DOMAIN write_set[u]
      <4>1. Inserted(u, r, j)
        BY <1>1, <2>2, <2>4, InsertedBefore
      <4> QED
        BY <4>1 DEF Inserted
    <3>2. PICK m \in DOMAIN write_set[u] :
             /\ m > j /\ (pc[u] = "undo" => m <= pos[u])
             /\ write_set[u][m].type = "IX_INSERT" /\ write_set[u][m].row.key = k
      BY <1>1, <1>3, <3>1 DEF EntryGoesFirst
    <3>3. SUFFICES /\ m \in DOMAIN write_set'[u] /\ write_set'[u][m] = write_set[u][m]
                   /\ pc'[u] = "undo" => m <= pos'[u]
      BY <3>2
    <3>4. CASE u # t
      <4>1. Same(u)
        BY <3>4, OthersStay
      <4> QED
        BY <3>2, <4>1 DEF Same
    <3>5. CASE u = t
      <4>1. CASE insert_record(t)
        BY <3>2, <3>5, <4>1, PlaceStep
      <4>2. CASE insert_record_map(t)
        BY <3>2, <3>5, <4>2, NoteStep
      <4>3. CASE insert_entry(t)
        BY <3>2, <3>5, <4>3, EntryStep
      <4>4. CASE abort(t)
        BY <3>2, <3>5, <4>4, TurnBackStep
      <4>5. CASE rollback_single_operation(t)
        <5>1. /\ pc[t] = "undo" /\ pos[t] \in Nat /\ pos'[t] = pos[t] - 1
              /\ write_set' = write_set
          BY <1>1, <4>5, TakeOutStep
        <5>2. m # pos[t]
          <6> SUFFICES ASSUME m = pos[t] PROVE FALSE
            OBVIOUS
          <6>1. index'[k] = NoRid
            BY <1>1, <3>2, <3>5, <4>5, TakeOutStep
          <6> QED
            BY <6>1, NoRidIsNoRid
        <5>3. m \in Nat /\ m <= pos[t]
          <6>1. write_set[t] \in Seq(WriteRecords)
            BY DEF TypeInv, ThreadTypes
          <6> QED
            BY <3>2, <3>5, <5>1, <6>1
        <5>4. m <= pos'[t]
          BY <5>1, <5>2, <5>3
        <5> QED
          BY <3>2, <3>5, <5>1, <5>4
      <4>6. CASE Beside(t)
        <5>1. Active(t)' /\ pc'[t] # "undo"
          BY <2>4, <3>5, <4>6 DEF Inserted, Beside
        <5> QED
          BY <3>2, <3>5, <4>6, <5>1 DEF Beside
      <4> QED
        BY <1>1, <4>1, <4>2, <4>3, <4>4, <4>5, <4>6, InsertSteps
    <3> QED
      BY <3>4, <3>5
  <2> QED
    BY <2>3, <2>4
<1> QED
  BY <1>2, <1>3

(* ... and that clients do not update or delete. *)
LEMMA NextInsertsOnly ==
    ASSUME Kinds \subseteq {"insert", "read"}, TypeInv, NEW t \in Txns, InsertsOnly(t), Step(t)
    PROVE  InsertsOnly(t)'
<1>1. pc \in [Txns -> Steps] /\ stmt \in [Txns -> Statements] /\ write_set \in [Txns -> Seq(WriteRecords)]
  BY DEF TypeInv, ThreadTypes
<1>2. \A s : GoTo(t, s) => pc'[t] = s
  BY <1>1 DEF GoTo
<1>3. RowDone(t) \/ Fail(t) => pc'[t] \in {"idle", "row"} /\ stmt'[t].kind = stmt[t].kind
  BY <1>1, RowEnds
<1>4. ASSUME write_set'[t] = write_set[t], pc'[t] \notin Writing \cup {"row", "visit", "get"}
      PROVE  InsertsOnly(t)'
  BY <1>4 DEF InsertsOnly
<1>5. ASSUME write_set'[t] = write_set[t], pc'[t] \notin Writing, stmt'[t].kind = "read"
      PROVE  InsertsOnly(t)'
  BY <1>5 DEF InsertsOnly
<1> USE DEF Writing, local
<1>6. CASE begin(t) \/ InsertStatement(t)
  BY <1>2, <1>4, <1>6 DEF begin, InsertStatement, SetTransaction
<1>7. CASE Statement(t)
  <2>1. PICK kind \in Kinds \ {"insert"}, rids \in SUBSET {r \in Rids : heap[r].used} :
           stmt' = [stmt EXCEPT ![t] = [kind |-> kind, key |-> NoRid, rids |-> rids]]
    BY <1>7 DEF Statement
  <2>2. stmt'[t].kind = "read"
    BY <1>1, <2>1
  <2> QED
    BY <1>2, <1>5, <1>7, <2>2 DEF Statement, SetTransaction
<1>8. CASE commit(t) \/ abort(t) \/ commit_mvcc_versions(t)
  BY <1>2, <1>4, <1>8 DEF commit, abort, commit_mvcc_versions
<1>9. ASSUME NEW r \in Rids, lock_record(t, r) \/ scan_record(t, r)
      PROVE  InsertsOnly(t)'
  BY <1>2, <1>5, <1>9 DEF lock_record, scan_record, InsertsOnly
<1>10. ASSUME NEW r \in Rids, unlock(t, r)
       PROVE  InsertsOnly(t)'
  BY <1>2, <1>4, <1>10 DEF unlock
<1>11. CASE visit(t)
  <2>1. stmt[t].kind = "read" /\ write_set' = write_set
    BY <1>11 DEF visit, InsertsOnly
  <2>2. stmt'[t].kind = "read" /\ pc'[t] \in {"get", "idle", "row"}
    BY <1>2, <1>3, <1>11, <2>1 DEF visit
  <2> QED
    BY <1>5, <2>1, <2>2
<1>12. CASE get_record(t)
  <2>1. stmt[t].kind = "read" /\ write_set' = write_set
    BY <1>12 DEF get_record, InsertsOnly
  <2>2. RowDone(t) \/ Fail(t)
    BY <1>12, <2>1 DEF get_record
  <2> QED
    BY <1>3, <1>5, <2>1, <2>2
<1>13. CASE delete_entry(t) \/ check_head(t) \/ update_version(t) \/ delete_version(t)
            \/ update_record(t) \/ update_record_map(t)
  BY <1>13 DEF delete_entry, check_head, update_version, delete_version, update_record,
               update_record_map, InsertsOnly
<1>14. CASE is_unique(t)
  <2>1. write_set' = write_set /\ (GoTo(t, "slot") \/ Fail(t))
    BY <1>14 DEF is_unique
  <2>2. Fail(t) => pc'[t] = "idle"
    BY <1>2 DEF Fail
  <2> QED
    BY <1>2, <1>4, <2>1, <2>2
<1>15. CASE insert_record(t)
  BY <1>4, <1>15, PlaceStep
<1>16. CASE insert_record_map(t) \/ insert_entry(t)
  <2>1. /\ pc'[t] \in {"entry", "idle"}
        /\ DOMAIN write_set'[t] = 1 .. (Len(write_set[t]) + 1)
        /\ Len(write_set[t]) \in Nat /\ DOMAIN write_set[t] = 1 .. Len(write_set[t])
        /\ \A j \in DOMAIN write_set[t] : write_set'[t][j] = write_set[t][j]
        /\ write_set'[t][Len(write_set[t]) + 1].type \in {"INSERT", "IX_INSERT"}
    BY <1>16, NoteStep, EntryStep
  <2>2. \A j \in DOMAIN write_set'[t] : j \in DOMAIN write_set[t] \/ j = Len(write_set[t]) + 1
    BY <2>1
  <2> QED
    BY <2>1, <2>2 DEF InsertsOnly
<1>17. CASE erase_entry(t)
  <2>1. write_set[t] \in Seq(WriteRecords) /\ write_set[t] # << >>
    BY <1>1, <1>17 DEF erase_entry
  <2>2. write_set'[t] = Tail(write_set[t]) /\ pc'[t] = pc[t] /\ pc[t] \in {"erase", "abort_erase"}
    BY <1>1, <1>17 DEF erase_entry
  <2>3. \A j \in DOMAIN Tail(write_set[t]) :
           j + 1 \in DOMAIN write_set[t] /\ Tail(write_set[t])[j] = write_set[t][j + 1]
    BY <2>1
  <2> QED
    BY <2>2, <2>3 DEF InsertsOnly
<1>18. CASE finish_commit(t) \/ undone(t) \/ erased(t) \/ finish_abort(t)
  BY <1>2, <1>4, <1>18 DEF finish_commit, undone, erased, finish_abort
<1>19. CASE rollback_single_operation(t)
  BY <1>4, <1>19, TakeOutStep
<1> QED
  BY <1>6, <1>7, <1>8, <1>9, <1>10, <1>11, <1>12, <1>13, <1>14, <1>15, <1>16, <1>17, <1>18, <1>19,
     Zenon DEF Step, Client, Server

(* InsertInv holds in every state when clients insert and read. *)
LEMMA InsertInvHolds ==
    ASSUME Kinds \subseteq {"insert", "read"}
    PROVE  Spec => []InsertInv
<1>1. Init => InsertInv
  <2> SUFFICES ASSUME Init PROVE InsertInv
    OBVIOUS
  <2>1. \A t \in Txns : pc[t] = "none" /\ write_set[t] = << >>
    BY DEF Init
  <2>2. \A t \in Txns, r \in Rids : ~Mine(t, r) /\ ~Placed(t, r) /\ \A j : ~Inserted(t, r, j)
    BY <2>1 DEF Mine, Placed, Inserted
  <2>3. \A r \in Rids : heap[r].row.content = {}
    BY DEF Init, Row, NoRow
  <2>4. \A t \in Txns : InsertsOnly(t) /\ AtEntry(t)
    BY <2>1 DEF InsertsOnly, AtEntry, Writing
  <2>5. IndexLeadsToRecords
    <3> SUFFICES ASSUME NEW k \in Keys, index[k] # NoRid
                 PROVE  heap[index[k]].used /\ heap[index[k]].row.key = k
      BY DEF IndexLeadsToRecords
    <3>1. (\E r \in Loaded : KeyOf[r] = k) /\ index[k] = CHOOSE r \in Loaded : KeyOf[r] = k
      BY DEF Init
    <3>2. index[k] \in Loaded /\ KeyOf[index[k]] = k
      BY <3>1
    <3> DEFINE q == index[k]
    <3>3. q \in Loaded /\ q \in Rids /\ KeyOf[q] = k
      BY <3>2, LoadedRecords
    <3> HIDE DEF q
    <3>4. heap[q].used
      BY <3>3 DEF Init
    <3>5. heap[q].row.key = k
      BY <3>3 DEF Init, Row
    <3> QED
      BY <3>4, <3>5 DEF q
  <2> QED
    BY <2>2, <2>3, <2>4, <2>5 DEF InsertInv, OneOwner, SlotOwned, EntryGoesFirst
<1>2. TypeInv /\ InsertInv /\ [Next]_vars => InsertInv'
  <2> SUFFICES ASSUME TypeInv, InsertInv, [Next]_vars
               PROVE  InsertInv'
    OBVIOUS
  <2>1. CASE UNCHANGED vars
    BY <2>1 DEF vars, data, local, InsertInv, InsertsOnly, AtEntry, OneOwner, SlotOwned,
                EntryGoesFirst, IndexLeadsToRecords, Mine, Placed, Inserted, Active, Committing
  <2>2. CASE Next
    <3>1. PICK t \in Txns : Step(t)
      BY <2>2 DEF Next, Step
    <3>2. InsertsOnly(t)
      BY DEF InsertInv
    <3>3. ASSUME NEW u \in Txns
          PROVE  InsertsOnly(u)'
      <4>1. CASE u = t
        BY <3>1, <3>2, <4>1, NextInsertsOnly
      <4>2. CASE u # t
        BY <3>1, <4>2, OthersStay DEF InsertInv, InsertsOnly, Same
      <4> QED
        BY <4>1, <4>2
    <3>4. \A u \in Txns : AtEntry(u)'
      BY <3>1, <3>2, NextAtEntry DEF InsertInv
    <3>5. \A r \in Rids : OneOwner(r)' /\ SlotOwned(r)'
      BY <3>1, <3>2, NextOneOwner, NextSlotOwned DEF InsertInv
    <3>6. \A r \in Rids, u \in Txns : EntryGoesFirst(u, r)'
      BY <3>1, NextEntryGoesFirst
    <3>7. IndexLeadsToRecords'
      BY <3>1, NextLeads
    <3> QED
      BY <3>3, <3>4, <3>5, <3>6, <3>7 DEF InsertInv
  <2> QED
    BY <2>1, <2>2
<1> QED
  BY <1>1, <1>2, TypesHold, PTL DEF Spec

(* While clients insert and read, the index never leads to a slot that an  *)
(* abort has freed, although inserts take no lock and two of them may race *)
(* for one key: abort takes the entry out before it frees the slot.        *)
THEOREM InsertsLeadToRecords ==
    ASSUME Kinds \subseteq {"insert", "read"}
    PROVE  Spec => []IndexLeadsToRecords
<1>1. InsertInv => IndexLeadsToRecords
  BY DEF InsertInv
<1> QED
  BY <1>1, InsertInvHolds, PTL

(* ... and no record of an aborted transaction is left in a used slot.     *)
THEOREM AbortsUndoInserts ==
    ASSUME Kinds \subseteq {"insert", "read"}
    PROVE  Spec => []AbortedIsUndone
<1>1. InsertInv => AbortedIsUndone
  <2> SUFFICES ASSUME InsertInv, NEW t \in Txns, NEW r \in Rids, pc[t] = "aborted",
                      heap[r].used, t \in heap[r].row.content
               PROVE  FALSE
    BY DEF AbortedIsUndone
  <2>1. Committing(t) \/ Mine(t, r)
    BY DEF InsertInv, SlotOwned
  <2> QED
    BY <2>1 DEF Committing, Mine, Placed, Inserted, Active, Working
<1> QED
  BY <1>1, InsertInvHolds, PTL
=============================================================================
