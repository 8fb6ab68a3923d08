---------------------------- MODULE VersionChain ----------------------------
(***************************************************************************)
(* The version chain of one record (src/transaction/mvcc_defs.h) and what  *)
(* MVCCManager (src/transaction/mvcc_manager.h) does to it.  Every method  *)
(* holds version_chains_mutex_ throughout, so each is an operator on       *)
(* chains.  A chain is the sequence of its versions, head_ first; an empty *)
(* sequence stands for a record that has no chain in version_chains_.      *)
(***************************************************************************)
EXTENDS Integers, Sequences, FiniteSets

CONSTANTS INT32_MAX,       \* expire_ts of a version that is not superseded
          MaxIterations    \* 1000: how far a reader walks down a chain

INVALID_TIMESTAMP == -1

TupleVersion(t, data, deleted) ==
    [txn_id |-> t, data |-> data, is_deleted |-> deleted,
     create_ts |-> INVALID_TIMESTAMP, expire_ts |-> INT32_MAX]

add_version(chain, v) == <<v>> \o chain

Uncommitted(v) == v.create_ts = INVALID_TIMESTAMP

UncommittedOf(v, t) == v.txn_id = t /\ Uncommitted(v)

(* The position at which a walk from the head stops first, if it gets that *)
(* far; 0 if it stops at none of them                                      *)
Walk(stops) ==
    LET reached == {i \in stops : i <= MaxIterations}
    IN  IF reached = {} THEN 0 ELSE CHOOSE i \in reached : \A j \in reached : i <= j

is_version_visible(v, t, read_ts) ==
    /\ ~v.is_deleted
    /\ \/ v.txn_id = t
       \/ /\ v.create_ts \notin {INVALID_TIMESTAMP, INT32_MAX}
          /\ v.create_ts <= read_ts
          /\ v.expire_ts \in {INT32_MAX, INVALID_TIMESTAMP} \/ v.expire_ts > read_ts

(* Mutant: a committed deletion hides the record from older snapshots too. *)
find_visible_version_AnyDeletion(chain, read_ts, t) ==
    LET Settles(v) ==
            \/ v.txn_id = t
            \/ v.is_deleted /\ ~Uncommitted(v)
            \/ /\ ~v.is_deleted
               /\ v.create_ts \notin {INVALID_TIMESTAMP, INT32_MAX}
               /\ v.create_ts <= read_ts
               /\ v.expire_ts = INT32_MAX \/ v.expire_ts > read_ts
        i == Walk({j \in DOMAIN chain : Settles(chain[j])})
    IN  IF i # 0 /\ chain[i].is_deleted THEN 0 ELSE i

(* The first version that settles the search: the transaction's own, a     *)
(* deletion of the snapshot, or a live version of the snapshot.  A         *)
(* deletion that settles it means that nothing is visible (0).             *)
find_visible_version(chain, read_ts, t) ==
    LET Settles(v) ==
            \/ v.txn_id = t
            \/ /\ v.is_deleted
               /\ ~Uncommitted(v)
               /\ v.create_ts <= read_ts
            \/ /\ ~v.is_deleted
               /\ v.create_ts \notin {INVALID_TIMESTAMP, INT32_MAX}
               /\ v.create_ts <= read_ts
               /\ v.expire_ts = INT32_MAX \/ v.expire_ts > read_ts
        i == Walk({j \in DOMAIN chain : Settles(chain[j])})
    IN  IF i # 0 /\ chain[i].is_deleted THEN 0 ELSE i

find_version_for_delete(chain, read_ts, t) ==
    Walk({i \in DOMAIN chain : is_version_visible(chain[i], t, read_ts)})

(* The head is another transaction's uncommitted version. *)
has_write_conflict(chain, t) ==
    /\ chain # << >>
    /\ Head(chain).txn_id # t
    /\ Uncommitted(Head(chain))

-----------------------------------------------------------------------------
(* MVCCManager::update_version: whether it returns true, and the chain then *)

OwnHead(chain, t) == chain # << >> /\ UncommittedOf(Head(chain), t)

UpdateSucceeds(chain, read_ts, t) ==
    /\ ~has_write_conflict(chain, t)
    /\ IF OwnHead(chain, t)
         THEN ~Head(chain).is_deleted
         ELSE chain = << >> \/ find_visible_version(chain, read_ts, t) # 0

update_version(chain, t, data) ==
    IF OwnHead(chain, t)
      THEN [chain EXCEPT ![1].data = data]
      ELSE add_version(chain, TupleVersion(t, data, FALSE))

(* MVCCManager::delete_version.  A record without a chain first gets one   *)
(* with an initial version of its stored data, owned by transaction 0.     *)
WithInitial(chain, stored) ==
    IF chain # << >> THEN chain
    ELSE << [TupleVersion(0, stored, FALSE) EXCEPT !.create_ts = 0] >>

DeleteSucceeds(chain, read_ts, t) ==
    /\ ~has_write_conflict(chain, t)
    /\ find_version_for_delete(chain, read_ts, t) # 0
    /\ \A i \in DOMAIN chain : ~(chain[i].txn_id = t /\ chain[i].is_deleted)

delete_version(chain, read_ts, t) ==
    LET deleted == chain[find_version_for_delete(chain, read_ts, t)]
    IN  add_version(chain, TupleVersion(t, deleted.data, TRUE))

-----------------------------------------------------------------------------
(* The walk sets create_ts of the transaction's uncommitted versions, and  *)
(* the expire_ts of the version below each one, unless that one is itself  *)
(* uncommitted when the walk looks at it.                                  *)
commit_chain_versions(chain, t, commit_ts) ==
    [i \in DOMAIN chain |->
        [chain[i] EXCEPT
            !.create_ts = IF UncommittedOf(chain[i], t) THEN commit_ts ELSE @,
            !.expire_ts = IF /\ i > 1
                             /\ UncommittedOf(chain[i - 1], t)
                             /\ ~Uncommitted(chain[i])
                             /\ @ = INT32_MAX
                            THEN commit_ts ELSE @]]

(* The versions that stay keep their order. *)
Ascending(positions) ==
    CHOOSE f \in [1 .. Cardinality(positions) -> positions] :
        /\ \A i, j \in DOMAIN f : i < j => f[i] < f[j]
        /\ \A p \in positions : \E i \in DOMAIN f : f[i] = p

rollback_chain_versions(chain, t) ==
    LET kept == Ascending({i \in DOMAIN chain : ~UncommittedOf(chain[i], t)})
    IN  [i \in DOMAIN kept |-> chain[kept[i]]]
=============================================================================
