------------------------------ MODULE MvccMap ------------------------------
(***************************************************************************)
(* The per-file visibility map of src/record/mvcc_map.h.  map_ holds an    *)
(* entry for a slot only while some transaction has an uncommitted write   *)
(* there: the entry's t_xmin is the negated id of the writer, and a commit *)
(* or rollback erases the entry.  Every method runs under the map's own    *)
(* latch, so each one is a function from map to map (or to a result code). *)
(***************************************************************************)
EXTENDS Integers

CONSTANT INT32_MAX     \* numeric_limits<int32_t>::max(), above every id

(* The keys of map_ are its domain. *)
EmptyMap == [s \in {} |-> [t_xmin |-> 0, t_xmax |-> 0]]

visit_record(map, slot, id, is_readonly) ==
    IF slot \notin DOMAIN map THEN "RC_SUCCESS"
    ELSE LET xmin == map[slot].t_xmin
             xmax == map[slot].t_xmax
         IN  CASE xmin > 0 /\ xmax > 0 ->
                    IF id >= xmin /\ id <= xmax THEN "RC_SUCCESS"
                                                ELSE "RC_RECORD_INVISIBLE"
               [] xmin < 0 ->
                    IF -xmin = id THEN "RC_SUCCESS" ELSE "RC_RECORD_INVISIBLE"
               [] xmin >= 0 /\ xmax < 0 ->
                    IF is_readonly
                      THEN IF -xmax = id THEN "RC_SUCCESS" ELSE "RC_RECORD_INVISIBLE"
                      ELSE IF -xmax # id THEN "RC_LOCKED_CONFLICT"
                                         ELSE "RC_RECORD_INVISIBLE"
               [] OTHER -> "RC_SUCCESS"

(* RmFileHandle::visit *)
visit(map, slot, id) == visit_record(map, slot, id, FALSE) = "RC_SUCCESS"

insert_record(map, slot, id) ==
    [s \in DOMAIN map \cup {slot} |->
        IF s = slot THEN [t_xmin |-> -id, t_xmax |-> INT32_MAX] ELSE map[s]]

(* RmFileHandle::commit_mvcc: commit_insert and commit_delete set a field  *)
(* of the entry, if there is one, and erase it under the same latch.  The  *)
(* id of the caller is not compared with the entry.                        *)
commit_mvcc(map, slot) == [s \in DOMAIN map \ {slot} |-> map[s]]
=============================================================================
