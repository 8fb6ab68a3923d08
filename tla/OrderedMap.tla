----------------------------- MODULE OrderedMap -----------------------------
(***************************************************************************)
(* What a unique index promises its callers: a map from keys to records    *)
(* that a key enters once and leaves once.                                 *)
(***************************************************************************)

CONSTANTS Keys, Rids

VARIABLE entries    \* pairs of a key and its record

Init == entries = {}

(* A key that is present keeps its record. *)
Put(k, r) ==
    /\ \A e \in entries : e[1] # k
    /\ entries' = entries \cup {<<k, r>>}

Remove(k) ==
    /\ \E e \in entries : e[1] = k
    /\ entries' = {e \in entries : e[1] # k}

Next ==
    /\ entries' # entries
    /\ \E k \in Keys : Remove(k) \/ \E r \in Rids : Put(k, r)

Spec == Init /\ [][Next]_entries
=============================================================================
