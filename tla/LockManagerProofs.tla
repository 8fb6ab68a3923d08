------------------------- MODULE LockManagerProofs -------------------------
(***************************************************************************)
(* Proofs about LockManager for every set of transactions and items.  The  *)
(* lemmas describe what the two queue updates, Append and Without, do to   *)
(* the requests of a queue; the theorems follow from LockInv, which every  *)
(* operation of the lock manager and every step of its caller preserves.   *)
(***************************************************************************)
EXTENDS LockManager, TLAPS, WellFoundedInduction

(* A transaction with a request in a queue has a first one there, and      *)
(* FirstOf, the request that unlock erases, is such a position.            *)
LEMMA FirstOfIsAPosition ==
    ASSUME NEW q \in Seq(Request), NEW t, Positions(q, t) # {}
    PROVE  FirstOf(q, t) \in Positions(q, t)
<1> DEFINE P == Positions(q, t)
<1>1. P \subseteq Nat /\ P # {}
  BY DEF Positions
<1> DEFINE Less == {ss \in Nat \X Nat : ss[1] < ss[2]}
<1>2. OpToRel(<, Nat) = Less
  BY DEF OpToRel
<1>3. IsWellFoundedOn(Less, Nat)
  BY <1>2, NatLessThanWellFounded
<1> HIDE DEF P, Less
<1>4. \E i \in P : \A j \in P : ~(<<j, i>> \in Less)
  BY <1>1, <1>3, WFMin
<1>5. \A a, b \in Nat : a < b => <<a, b>> \in Less
  BY DEF Less
<1>6. \E i \in P : \A j \in P : i <= j
  <2>1. PICK i \in P : \A j \in P : ~(<<j, i>> \in Less)
    BY <1>4
  <2>2. \A j \in P : ~(j < i)
    BY <1>1, <1>5, <2>1
  <2> QED
    BY <1>1, <2>2
<1> QED
  BY <1>6 DEF FirstOf, P

(* Erasing position i of a queue keeps every other request, in order, and  *)
(* adds none: what std::list::erase does in unlock.                        *)
LEMMA WithoutProperties ==
    ASSUME NEW q \in Seq(Request), NEW i \in DOMAIN q
    PROVE  /\ Without(q, i) \in Seq(Request)
           /\ DOMAIN Without(q, i) = 1 .. (Len(q) - 1)
           /\ \A j \in DOMAIN Without(q, i) :
                 LET k == IF j < i THEN j ELSE j + 1
                 IN  k \in DOMAIN q /\ k # i /\ Without(q, i)[j] = q[k]
           /\ \A k \in DOMAIN q : k # i =>
                 \E j \in DOMAIN Without(q, i) : Without(q, i)[j] = q[k]
<1>1. Len(q) \in Nat /\ DOMAIN q = 1 .. Len(q) /\ Len(q) - 1 \in Nat
  OBVIOUS
<1>2. DOMAIN Without(q, i) = 1 .. (Len(q) - 1)
  BY DEF Without
<1>3. \A j \in 1 .. (Len(q) - 1) :
         LET k == IF j < i THEN j ELSE j + 1
         IN  k \in DOMAIN q /\ k # i /\ Without(q, i)[j] = q[k]
  BY <1>1 DEF Without
<1>4. Without(q, i) \in Seq(Request)
  <2>1. \A j \in 1 .. (Len(q) - 1) : Without(q, i)[j] \in Request
    BY <1>3
  <2>2. Without(q, i) \in [1 .. (Len(q) - 1) -> Request]
    BY <2>1 DEF Without
  <2> QED
    BY <1>1, <2>2
<1>5. ASSUME NEW k \in DOMAIN q, k # i
      PROVE  \E j \in DOMAIN Without(q, i) : Without(q, i)[j] = q[k]
  <2>1. CASE k < i
    BY <1>1, <1>2, <1>3, <2>1
  <2>2. CASE k > i
    <3>1. k - 1 \in 1 .. (Len(q) - 1) /\ ~(k - 1 < i) /\ (k - 1) + 1 = k
      BY <1>1, <2>2
    <3> QED
      BY <1>2, <1>3, <3>1
  <2> QED
    BY <1>1, <1>5, <2>1, <2>2
<1> QED
  BY <1>2, <1>3, <1>4, <1>5

-----------------------------------------------------------------------------
(* What the outcomes of an operation preserve *)

(* Refusing a request changes neither queue nor lock set. *)
LEMMA RefusePreserves ==
    ASSUME LockInv, NEW t \in Txns, Refuse(t), UNCHANGED <<to_release, ending>>
    PROVE  LockInv'
  BY DEF LockInv, TypeOK, Refuse, TxnStates, GrantsCompatible,
         RecordModes, OneRequestPerRecord, RecordLockInSet, LockSetBacked,
         ReleaseCovers,
         Holds, Positions

(* Appending a compatible request of a running transaction to a queue      *)
(* keeps LockInv; on a record the transaction must not hold the item yet.  *)
LEMMA GrantPreserves ==
    ASSUME LockInv, NEW t \in Txns, NEW d \in DataIds, NEW m \in LockModes,
           ending[t] = "no",
           d \in RecordIds => ~Holds(t, d) /\ m \in {"S", "X"},
           \A i \in DOMAIN lock_table[d] : lock_table[d][i].txn # t
               => Compatible(lock_table[d][i].mode, m),
           Grant(t, d, m), UNCHANGED <<to_release, ending>>
    PROVE  LockInv'
<1> DEFINE q == lock_table[d]
           r == [txn |-> t, mode |-> m]
<1>1. q \in Seq(Request) /\ r \in Request
  BY DEF LockInv, TypeOK, Request
<1>2. /\ Append(q, r) \in Seq(Request)
      /\ DOMAIN Append(q, r) = 1 .. (Len(q) + 1)
      /\ DOMAIN q = 1 .. Len(q) /\ Len(q) \in Nat
      /\ \A i \in DOMAIN q : Append(q, r)[i] = q[i]
      /\ Append(q, r)[Len(q) + 1] = r
  BY <1>1
<1>3. /\ lock_table' = [lock_table EXCEPT ![d] = Append(q, r)]
      /\ lock_table'[d] = Append(q, r)
      /\ \A e \in DataIds : e # d => lock_table'[e] = lock_table[e]
  BY DEF Grant, LockInv, TypeOK
<1>4. TypeOK'
  BY <1>2, <1>3 DEF Grant, LockInv, TypeOK
<1>5. GrantsCompatible'
  <2> SUFFICES ASSUME NEW e \in DataIds,
                      NEW i \in DOMAIN lock_table'[e],
                      NEW j \in DOMAIN lock_table'[e],
                      lock_table'[e][i].txn # lock_table'[e][j].txn
               PROVE  Compatible(lock_table'[e][i].mode, lock_table'[e][j].mode)
    BY DEF GrantsCompatible
  <2>1. CASE e # d
    BY <1>3, <2>1 DEF LockInv, GrantsCompatible
  <2>2. CASE e = d
    <3>1. CASE i \in DOMAIN q /\ j \in DOMAIN q
      BY <1>2, <1>3, <2>2, <3>1 DEF LockInv, GrantsCompatible
    <3>2. CASE i = Len(q) + 1 /\ j \in DOMAIN q
      BY <1>2, <1>3, <2>2, <3>2 DEF Compatible
    <3>3. CASE j = Len(q) + 1 /\ i \in DOMAIN q
      BY <1>2, <1>3, <2>2, <3>3 DEF Compatible
    <3> QED
      BY <1>2, <1>3, <2>2, <3>1, <3>2, <3>3
  <2> QED
    BY <2>1, <2>2
<1>10. RecordModes'
  <2> SUFFICES ASSUME NEW e \in RecordIds, NEW i \in DOMAIN lock_table'[e]
               PROVE  lock_table'[e][i].mode \in {"S", "X"}
    BY DEF RecordModes
  <2>1. CASE e # d
    BY <1>3, <2>1 DEF LockInv, RecordModes, DataIds
  <2>2. CASE e = d
    BY <1>2, <1>3, <2>2 DEF LockInv, RecordModes
  <2> QED
    BY <2>1, <2>2
<1>6. OneRequestPerRecord'
  <2> SUFFICES ASSUME NEW e \in RecordIds,
                      NEW i \in DOMAIN lock_table'[e],
                      NEW j \in DOMAIN lock_table'[e],
                      lock_table'[e][i].txn = lock_table'[e][j].txn
               PROVE  i = j
    BY DEF OneRequestPerRecord
  <2>1. CASE e # d
    BY <1>3, <2>1 DEF LockInv, OneRequestPerRecord, DataIds
  <2>2. CASE e = d
    <3>1. \A k \in DOMAIN q : q[k].txn # t
      BY <2>2 DEF Holds, Positions
    <3> QED
      BY <1>2, <1>3, <2>2, <3>1 DEF LockInv, OneRequestPerRecord
  <2> QED
    BY <2>1, <2>2
<1>7. /\ \A u \in Txns, e \in DataIds : Holds(u, e)' <=> Holds(u, e) \/ (u = t /\ e = d)
      /\ \A u \in Txns : lock_set'[u] = IF u = t THEN lock_set[u] \cup {d} ELSE lock_set[u]
  <2>1. \A u \in Txns, e \in DataIds : Holds(u, e)' <=> Holds(u, e) \/ (u = t /\ e = d)
    <3> SUFFICES ASSUME NEW u \in Txns, NEW e \in DataIds
                 PROVE  Holds(u, e)' <=> Holds(u, e) \/ (u = t /\ e = d)
      OBVIOUS
    <3>1. CASE e # d
      BY <1>3, <3>1 DEF Holds, Positions
    <3>2. CASE e = d
      <4>1. Holds(u, e)' <=> \E i \in 1 .. (Len(q) + 1) : Append(q, r)[i].txn = u
        BY <1>2, <1>3, <3>2 DEF Holds, Positions
      <4>2. Holds(u, e) <=> \E i \in 1 .. Len(q) : q[i].txn = u
        BY <1>2, <3>2 DEF Holds, Positions
      <4> QED
        BY <1>2, <3>2, <4>1, <4>2
    <3> QED
      BY <3>1, <3>2
  <2> QED
    BY <2>1 DEF Grant, LockInv, TypeOK
<1>8. RecordLockInSet' /\ LockSetBacked'
  BY <1>4, <1>7 DEF LockInv, RecordLockInSet, LockSetBacked, TypeOK, DataIds
<1>9. ReleaseCovers'
  BY <1>7 DEF LockInv, ReleaseCovers
<1> QED
  BY <1>4, <1>5, <1>6, <1>8, <1>9, <1>10 DEF LockInv

(* Unlocking an item of the own lock set keeps LockInv once the caller's   *)
(* remaining work still covers the lock set.                               *)
LEMMA UnlockPreserves ==
    ASSUME LockInv, NEW t \in Txns, NEW d \in DataIds,
           unlock(t, d),
           ending' = ending, to_release' \in [Txns -> SUBSET DataIds],
           \A u \in Txns : to_release[u] \ {d} \subseteq to_release'[u],
           \A u \in Txns : u # t => to_release'[u] = to_release[u]
    PROVE  LockInv'
<1> DEFINE q == lock_table[d]
           w == Without(q, FirstOf(q, t))
<1>1. q \in Seq(Request) /\ Len(q) \in Nat /\ DOMAIN q = 1 .. Len(q)
  BY DEF LockInv, TypeOK
<1>2. \A u \in Txns : \/ lock_set'[u] = lock_set[u]
                      \/ u = t /\ lock_set'[u] = lock_set[u] \ {d}
  BY DEF unlock, LockInv, TypeOK
<1>3. d \notin lock_set'[t]
  <2>1. CASE q = << >>
    <3>1. ~Holds(t, d)
      BY <2>1 DEF Holds, Positions
    <3> QED
      BY <2>1, <3>1 DEF unlock, LockInv, LockSetBacked
  <2>2. CASE q # << >>
    BY <2>2 DEF unlock, LockInv, TypeOK
  <2> QED
    BY <2>1, <2>2
<1>4. ReleaseCovers'
  BY <1>2, <1>3 DEF LockInv, ReleaseCovers
<1>5. state' \in [Txns -> TxnStates] /\ lock_set' \in [Txns -> SUBSET DataIds]
  BY DEF unlock, LockInv, TypeOK, TxnStates
<1>6. CASE ~Holds(t, d)
  <2>1. lock_table' = lock_table
    BY <1>6 DEF unlock
  <2>2. \A u \in Txns : lock_set'[u] = lock_set[u]
    <3>1. d \notin lock_set[t]
      BY <1>6 DEF LockInv, LockSetBacked
    <3> QED
      BY <1>2, <3>1
  <2>3. TypeOK'
    BY <1>5, <2>1 DEF LockInv, TypeOK
  <2>4. GrantsCompatible' /\ RecordModes' /\ OneRequestPerRecord'
    BY <2>1 DEF LockInv, GrantsCompatible, RecordModes, OneRequestPerRecord, Holds, Positions
  <2>5. RecordLockInSet' /\ LockSetBacked'
    BY <2>1, <2>2 DEF LockInv, RecordLockInSet, LockSetBacked, Holds, Positions
  <2> QED
    BY <1>4, <2>3, <2>4, <2>5 DEF LockInv
<1>7. CASE Holds(t, d)
  <2>1. FirstOf(q, t) \in Positions(q, t)
    BY <1>1, <1>7, FirstOfIsAPosition DEF Holds
  <2> DEFINE f == FirstOf(q, t)
  <2>2. f \in DOMAIN q /\ q[f].txn = t
    BY <2>1 DEF Positions
  <2> HIDE DEF f, w
  <2>3. /\ w \in Seq(Request)
        /\ DOMAIN w = 1 .. (Len(q) - 1)
        /\ \A j \in DOMAIN w :
              LET k == IF j < f THEN j ELSE j + 1
              IN  k \in DOMAIN q /\ k # f /\ w[j] = q[k]
        /\ \A k \in DOMAIN q : k # f => \E j \in DOMAIN w : w[j] = q[k]
    BY <1>1, <2>2, WithoutProperties DEF w, f
  <2>4. /\ lock_table' = [lock_table EXCEPT ![d] = w]
        /\ lock_table'[d] = w
        /\ \A e \in DataIds : e # d => lock_table'[e] = lock_table[e]
    BY <1>7 DEF unlock, w, LockInv, TypeOK
  <2>5. TypeOK'
    BY <1>5, <2>3, <2>4 DEF LockInv, TypeOK
  <2>6. GrantsCompatible'
    <3>1. GrantsCompatible
      BY DEF LockInv
    <3>2. \A j \in DOMAIN w : \E k \in DOMAIN q : w[j] = q[k]
      BY <2>3
    <3>3. \A i, j \in DOMAIN w :
             w[i].txn # w[j].txn => Compatible(w[i].mode, w[j].mode)
      BY <3>1, <3>2 DEF GrantsCompatible
    <3> QED
      BY <2>4, <3>1, <3>3 DEF GrantsCompatible
  <2>11. RecordModes'
    BY <2>3, <2>4 DEF LockInv, RecordModes, DataIds
  <2>7. OneRequestPerRecord'
    <3> SUFFICES ASSUME NEW e \in RecordIds,
                        NEW i \in DOMAIN lock_table'[e],
                        NEW j \in DOMAIN lock_table'[e],
                        lock_table'[e][i].txn = lock_table'[e][j].txn
                 PROVE  i = j
      BY DEF OneRequestPerRecord
    <3>1. CASE e # d
      BY <2>4, <3>1 DEF LockInv, OneRequestPerRecord, DataIds
    <3>2. CASE e = d
      <4>1. (IF i < f THEN i ELSE i + 1) = (IF j < f THEN j ELSE j + 1)
        BY <2>3, <2>4, <3>2 DEF LockInv, OneRequestPerRecord
      <4> QED
        BY <1>1, <2>2, <2>3, <2>4, <3>2, <4>1
    <3> QED
      BY <3>1, <3>2
  <2>8. ASSUME NEW u \in Txns, NEW e \in DataIds, u # t \/ e # d
        PROVE  Holds(u, e)' <=> Holds(u, e)
    <3>1. CASE e # d
      BY <2>4, <3>1 DEF Holds, Positions
    <3>2. CASE e = d
      <4>1. u # t
        BY <2>8, <3>2
      <4>2. Holds(u, e)' <=> \E j \in DOMAIN w : w[j].txn = u
        BY <2>4, <3>2 DEF Holds, Positions
      <4>3. Holds(u, e) <=> \E k \in DOMAIN q : q[k].txn = u
        BY <3>2 DEF Holds, Positions
      <4> QED
        BY <2>2, <2>3, <4>1, <4>2, <4>3
    <3> QED
      BY <3>1, <3>2
  <2>9. d \in RecordIds => ~Holds(t, d)'
    <3> SUFFICES ASSUME d \in RecordIds, NEW j \in DOMAIN w, w[j].txn = t
                 PROVE  FALSE
      BY <2>4 DEF Holds, Positions
    <3> QED
      BY <2>2, <2>3 DEF LockInv, OneRequestPerRecord
  <2>10. RecordLockInSet' /\ LockSetBacked'
    <3>1. RecordLockInSet'
      BY <1>2, <2>8, <2>9 DEF LockInv, RecordLockInSet, DataIds
    <3>2. LockSetBacked'
      BY <1>2, <1>3, <1>5, <2>8 DEF LockInv, LockSetBacked
    <3> QED
      BY <3>1, <3>2
  <2> QED
    BY <1>4, <2>5, <2>6, <2>7, <2>10, <2>11 DEF LockInv
<1> QED
  BY <1>6, <1>7

-----------------------------------------------------------------------------
(* The theorems *)

(* An empty lock table satisfies LockInv. *)
LEMMA InitLockInv == Init => LockInv
<1> SUFFICES ASSUME Init PROVE LockInv
  OBVIOUS
<1>1. << >> \in Seq(Request) /\ DOMAIN << >> = {}
  OBVIOUS
<1>2. \A d \in DataIds : DOMAIN lock_table[d] = {}
  BY <1>1 DEF Init
<1>3. TypeOK
  BY <1>1 DEF Init, TypeOK, TxnStates, Endings
<1>4. GrantsCompatible /\ RecordModes /\ OneRequestPerRecord
  BY <1>2 DEF GrantsCompatible, RecordModes, OneRequestPerRecord, DataIds
<1>5. RecordLockInSet
  BY <1>2 DEF RecordLockInSet, Holds, Positions, DataIds
<1>6. LockSetBacked /\ ReleaseCovers
  BY DEF Init, LockSetBacked, ReleaseCovers
<1> QED
  BY <1>3, <1>4, <1>5, <1>6 DEF LockInv

(* Every step preserves LockInv: one case per operation. *)
LEMMA NextLockInv == LockInv /\ [Next]_vars => LockInv'
<1> SUFFICES ASSUME LockInv, [Next]_vars PROVE LockInv'
  OBVIOUS
<1>1. ASSUME UNCHANGED <<lock_table, lock_set, to_release, ending>>,
             state' \in [Txns -> TxnStates]
      PROVE  LockInv'
  BY <1>1 DEF LockInv, TypeOK, GrantsCompatible, RecordModes,
     OneRequestPerRecord, RecordLockInSet, LockSetBacked, ReleaseCovers,
     Holds, Positions
<1>2. ASSUME NEW t \in Txns, NEW d \in RecordIds, LockRecord(t, d)
      PROVE  LockInv'
  <2>1. ending[t] = "no" /\ UNCHANGED <<to_release, ending>> /\ d \in DataIds
    BY <1>2 DEF LockRecord, Running, DataIds
  <2>2. /\ lock_table[d] \in Seq(Request)
        /\ \A i \in DOMAIN lock_table[d] : /\ lock_table[d][i] \in Request
                                           /\ lock_table[d][i].mode \in {"S", "X"}
    BY <2>1 DEF LockInv, TypeOK, RecordModes
  <2>3. CASE Refuse(t)
    BY <2>1, <2>3, RefusePreserves
  <2>4. CASE UNCHANGED lockVars
    BY <1>1, <2>1, <2>4 DEF lockVars, LockInv, TypeOK
  <2>5. CASE ~Holds(t, d) /\ ~OthersHold(t, d, {"X"}) /\ Grant(t, d, "S")
    <3>1. \A i \in DOMAIN lock_table[d] :
             lock_table[d][i].txn # t => Compatible(lock_table[d][i].mode, "S")
      BY <2>2, <2>5 DEF OthersHold, Compatible
    <3> QED
      BY <2>1, <2>5, <3>1, GrantPreserves DEF LockModes
  <2>6. CASE /\ ~HoldsMode(t, d, "X") /\ ~HoldsMode(t, d, "S")
             /\ ~OthersHold(t, d, LockModes) /\ Grant(t, d, "X")
    <3>1. \A i \in DOMAIN lock_table[d] : lock_table[d][i].txn = t
      BY <2>2, <2>6 DEF OthersHold, Request
    <3>2. ~Holds(t, d)
      BY <2>2, <2>6 DEF Holds, Positions, HoldsMode, Request
    <3> QED
      BY <2>1, <2>6, <3>1, <3>2, GrantPreserves DEF LockModes
  <2> QED
    BY <1>2, <2>3, <2>4, <2>5, <2>6
    DEF LockRecord, lock_shared_on_record, lock_exclusive_on_record
<1>3. ASSUME NEW t \in Txns, NEW d \in TableIds, NEW m \in LockModes,
             ending[t] = "no", LockTable(t, d, m), UNCHANGED <<to_release, ending>>
      PROVE  LockInv'
  <2>1. d \in DataIds /\ d \notin RecordIds
    BY LockIdsDisjoint DEF DataIds
  <2>2. CASE Refuse(t)
    BY <1>3, <2>2, RefusePreserves
  <2>3. CASE ~OthersHold(t, d, TableConflicts(m)) /\ Grant(t, d, m)
    <3>1. \A i \in DOMAIN lock_table[d] :
             lock_table[d][i].txn # t => Compatible(lock_table[d][i].mode, m)
      <4>1. \A i \in DOMAIN lock_table[d] : lock_table[d][i].mode \in LockModes
        <5>1. lock_table[d] \in Seq(Request)
          BY <2>1 DEF LockInv, TypeOK
        <5>2. \A i \in DOMAIN lock_table[d] : lock_table[d][i] \in Request
          BY <5>1
        <5> QED
          BY <5>2 DEF Request
      <4>2. \/ m = "S" /\ TableConflicts(m) = {"X", "IX"}
            \/ m = "X" /\ TableConflicts(m) = LockModes
            \/ m = "IS" /\ TableConflicts(m) = {"X"}
            \/ m = "IX" /\ TableConflicts(m) = {"X", "S"}
        BY <1>3 DEF TableConflicts, LockModes
      <4>3. \A i \in DOMAIN lock_table[d] :
               lock_table[d][i].txn # t => lock_table[d][i].mode \notin TableConflicts(m)
        BY <2>3 DEF OthersHold
      <4> QED
        BY <4>1, <4>2, <4>3 DEF Compatible, LockModes
    <3> QED
      BY <1>3, <2>1, <2>3, <3>1, GrantPreserves
  <2> QED
    BY <1>3, <2>2, <2>3 DEF LockTable
<1>4. ASSUME NEW t \in Txns, NEW d \in TableIds, LockTab(t, d)
      PROVE  LockInv'
  BY <1>3, <1>4 DEF LockTab, Running, LockModes, lock_shared_on_table,
     lock_exclusive_on_table, lock_IS_on_table, lock_IX_on_table
<1>5. ASSUME NEW t \in Txns, NEW d \in DataIds, UnlockEarly(t, d)
      PROVE  LockInv'
  BY <1>5, UnlockPreserves DEF UnlockEarly, LockInv, TypeOK
<1>6. ASSUME NEW t \in Txns, NEW d \in DataIds, Release(t, d)
      PROVE  LockInv'
  BY <1>6, UnlockPreserves DEF Release, LockInv, TypeOK
<1>7. ASSUME NEW t \in Txns, StartCommit(t) \/ StartAbort(t)
      PROVE  LockInv'
  <2>1. UNCHANGED <<lock_table, lock_set>> /\ state' \in [Txns -> TxnStates]
    BY <1>7 DEF StartCommit, StartAbort, lockVars, LockInv, TypeOK, TxnStates
  <2>2. ReleaseCovers'
    BY <1>7, <2>1 DEF StartCommit, StartAbort, LockInv, ReleaseCovers, TypeOK
  <2>3. TypeOK'
    BY <1>7, <2>1 DEF StartCommit, StartAbort, LockInv, TypeOK, Endings
  <2> QED
    BY <2>1, <2>2, <2>3 DEF LockInv, GrantsCompatible, RecordModes,
       OneRequestPerRecord, RecordLockInSet, LockSetBacked, Holds, Positions
<1>8. ASSUME NEW t \in Txns, Finish(t)
      PROVE  LockInv'
  <2>1. lock_set[t] = {}
    BY <1>8 DEF Finish, LockInv, ReleaseCovers
  <2>2. UNCHANGED <<lock_table, lock_set, to_release>>
    BY <1>8, <2>1 DEF Finish, LockInv, TypeOK
  <2>3. ReleaseCovers' /\ TypeOK'
    BY <1>8, <2>1, <2>2
    DEF Finish, LockInv, ReleaseCovers, TypeOK, Endings, TxnStates
  <2> QED
    BY <2>2, <2>3 DEF LockInv, GrantsCompatible, RecordModes,
       OneRequestPerRecord, RecordLockInSet, LockSetBacked, Holds, Positions
<1>9. CASE UNCHANGED vars
  BY <1>1, <1>9 DEF vars, LockInv, TypeOK
<1> QED
  BY <1>2, <1>4, <1>5, <1>6, <1>7, <1>8, <1>9 DEF Next

(* LockInv holds in every reachable state of the lock manager, for every   *)
(* set of transactions, records and tables.                                *)
THEOREM LockInvHolds == Spec => []LockInv
<1>1. Init => LockInv
  BY InitLockInv
<1>2. LockInv /\ [Next]_vars => LockInv'
  BY NextLockInv
<1> QED
  BY <1>1, <1>2, PTL DEF Spec

(* The state of the lock manager keeps its types. *)
THEOREM LockTypeCorrect == Spec => []TypeOK
<1>1. LockInv => TypeOK
  BY DEF LockInv
<1> QED
  BY <1>1, LockInvHolds, PTL

(* No two transactions ever hold incompatible locks on one item, however   *)
(* the six lock functions and unlock are interleaved.                      *)
THEOREM LocksExclude == Spec => []GrantsCompatible
<1>1. LockInv => GrantsCompatible
  BY DEF LockInv
<1> QED
  BY <1>1, LockInvHolds, PTL

(* The release loop of commit and abort gives back every record lock. *)
THEOREM RecordLocksGivenBack == Spec => []EndedHoldsNoRecordLock
<1>1. LockInv => EndedHoldsNoRecordLock
  BY DEF LockInv, ReleaseCovers, RecordLockInSet, EndedHoldsNoRecordLock
<1> QED
  BY <1>1, LockInvHolds, PTL

(* Two-phase locking: once SHRINKING, a transaction's lock set only        *)
(* shrinks.                                                                *)
THEOREM LocksAreTwoPhase == Spec => TwoPhase
<1>1. LockInv /\ [Next]_vars
        => [\A t \in Txns : state[t] = "SHRINKING" => lock_set'[t] \subseteq lock_set[t]]_vars
  <2> SUFFICES ASSUME LockInv, Next, NEW u \in Txns, state[u] = "SHRINKING"
               PROVE  lock_set'[u] \subseteq lock_set[u]
    OBVIOUS
  <2>1. ASSUME NEW t \in Txns, NEW d, Grant(t, d, "S") \/ Grant(t, d, "X")
                  \/ Grant(t, d, "IS") \/ Grant(t, d, "IX"), ~Shrinking(t)
        PROVE  lock_set'[u] \subseteq lock_set[u]
    BY <2>1 DEF Grant, Shrinking, LockInv, TypeOK
  <2>2. ASSUME NEW t \in Txns, NEW d, unlock(t, d)
        PROVE  lock_set'[u] \subseteq lock_set[u]
    BY <2>2 DEF unlock, LockInv, TypeOK
  <2>3. ASSUME NEW t \in Txns, NEW d \in RecordIds, LockRecord(t, d)
        PROVE  lock_set'[u] \subseteq lock_set[u]
    BY <2>1, <2>3 DEF LockRecord, lock_shared_on_record,
       lock_exclusive_on_record, Refuse, lockVars
  <2>4. ASSUME NEW t \in Txns, NEW d \in TableIds, LockTab(t, d)
        PROVE  lock_set'[u] \subseteq lock_set[u]
    BY <2>1, <2>4 DEF LockTab, lock_shared_on_table, lock_exclusive_on_table,
       lock_IS_on_table, lock_IX_on_table, LockTable, Refuse
  <2>5. ASSUME NEW t \in Txns, StartCommit(t) \/ StartAbort(t) \/ Finish(t)
        PROVE  lock_set'[u] \subseteq lock_set[u]
    BY <2>5 DEF StartCommit, StartAbort, Finish, lockVars, LockInv, TypeOK
  <2> QED
    BY <2>2, <2>3, <2>4, <2>5 DEF Next, UnlockEarly, Release
<1> QED
  BY <1>1, LockInvHolds, PTL DEF Spec, TwoPhase
=============================================================================
