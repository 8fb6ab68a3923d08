------------------------ MODULE MCTransactionManager ------------------------
(* Instances of TransactionManager for TLC *)
EXTENDS TransactionManager, TLC

CONSTANTS r1, r2, r3, k1, k2

NoneLoaded == [r \in {} |-> k1]
OneLoaded == (r1 :> k1)

(* With nothing loaded, slots and keys are interchangeable. *)
SlotsAndKeys == Permutations(Rids) \cup Permutations(Keys)
=============================================================================
