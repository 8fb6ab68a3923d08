----------------------------- MODULE BPlusTree ------------------------------
(***************************************************************************)
(* IxIndexHandle: a B+ tree of unique keys in the pages of an index file,  *)
(* and IxScan, which walks along its leaves.                               *)
(*                                                                         *)
(* Writers hold latch_ from their first access to the last, so one of them *)
(* is in the tree at a time.  Its steps are the change of the leaf, with   *)
(* the keys of the ancestors, and then every split, merge or shift.        *)
(* Readers take no latch: they descend from node to node and move from     *)
(* slot to slot between those steps.                                       *)
(*                                                                         *)
(* Positions count from 0, as in the code.  A key that is inserted twice   *)
(* or deleted without being there changes nothing.                         *)
(***************************************************************************)
EXTENDS Integers, Sequences, FiniteSets, SequencesExt

CONSTANTS Keys,      \* the keys, integers
          Rids,      \* what a key leads to
          Order,     \* btree_order_
          Readers,   \* threads that search or scan
          Ranges,    \* bound: the ranges they ask for, pairs of keys
          Files,     \* bound: what LOAD is given, sequences of keys
          LoadsAppend, \* bound: LOAD runs alone and brings keys above those of the index
          MaxPages,  \* bound: pages of the file
          MaxOverlap \* bound: writers that enter the tree during one search or scan

(* create_index asserts it *)
ASSUME OrderIsLargeEnough == Order > 2

ASSUME RangesAreNotEmpty == \A range \in Ranges : range[1] <= range[2]

NoPage     == -1
LeafHeader == 1    \* IX_LEAF_HEADER_PAGE
InitRoot   == 2    \* IX_INIT_ROOT_PAGE

max_size == Order + 1
min_size == max_size \div 2

VARIABLES
    page,        \* the nodes, by page number
    hdr,         \* IxFileHdr
    next_page,   \* fd2pageno_: the page new_page hands out next
    writer,      \* the writer in the tree
    load,        \* the keys that a LOAD has still to insert
    reader       \* where each reader is

vars == <<page, hdr, next_page, writer, load, reader>>

-----------------------------------------------------------------------------
(* IxNodeHandle: a node holds pairs of a key and, in a leaf, a record, in  *)
(* an inner node, a page.  prev_leaf and next_leaf are those of a leaf.    *)

Node(is_leaf, parent, prev, next, pairs) ==
    [is_leaf |-> is_leaf, parent |-> parent, prev_leaf |-> prev, next_leaf |-> next,
     pairs |-> pairs]

Size(node) == Len(node.pairs)

key(node, i) == node.pairs[i + 1][1]

value_at(node, i) == node.pairs[i + 1][2]

lower_bound(node, k) == Cardinality({i \in 1 .. Size(node) : node.pairs[i][1] < k})

upper_bound(node, k) == Cardinality({i \in 1 .. Size(node) : node.pairs[i][1] <= k})

(* leaf_lookup, and the tests of insert and remove *)
Has(node, k) ==
    LET pos == lower_bound(node, k) IN pos < Size(node) /\ key(node, pos) = k

(* Mutant: a key equal to a separator is looked for to the left of it *)
internal_lookup_Left(node, k) ==
    LET pos == lower_bound(node, k) IN value_at(node, IF pos = 0 THEN 0 ELSE pos - 1)

internal_lookup(node, k) ==
    LET pos == upper_bound(node, k) IN value_at(node, IF pos = 0 THEN 0 ELSE pos - 1)

(* Mutant: the pairs behind the position are not moved *)
insert_pair_Over(node, pos, k, v) ==
    [node EXCEPT !.pairs = SubSeq(@, 1, pos) \o << <<k, v>> >> \o SubSeq(@, pos + 2, Len(@))]

insert_pair(node, pos, k, v) == [node EXCEPT !.pairs = InsertAt(@, pos + 1, <<k, v>>)]

erase_pair(node, pos) == [node EXCEPT !.pairs = RemoveAt(@, pos + 1)]

set_key(node, pos, k) == [node EXCEPT !.pairs[pos + 1][1] = k]

is_root_page(node) == node.parent = NoPage

isFull(node) == Size(node) = max_size

(* the position of child c in node n *)
find_child(node, c) == CHOOSE i \in 0 .. Size(node) - 1 : value_at(node, i) = c

-----------------------------------------------------------------------------
(* Helpers on the nodes of a tree, from page to page *)

(* maintain_parent: the first key of node p is the key of its ancestors *)
RECURSIVE maintain_parent(_, _)
maintain_parent(pg, p) ==
    LET up   == pg[p].parent
        rank == find_child(pg[up], p)
    IN  IF Size(pg[p]) = 0 \/ up = NoPage THEN pg
        ELSE IF key(pg[up], rank) = key(pg[p], 0) THEN pg
        ELSE maintain_parent([pg EXCEPT ![up] = set_key(@, rank, key(pg[p], 0))], up)

(* Mutant: the children that moved keep their old parent *)
maintain_children_None(pg, p, ps) == pg

(* maintain_child for the children at the positions ps of node p *)

maintain_children(pg, p, ps) ==
    [c \in DOMAIN pg |->
        IF ~ pg[p].is_leaf /\ \E i \in ps : value_at(pg[p], i) = c
          THEN [pg[c] EXCEPT !.parent = p]
          ELSE pg[c]]

erase_leaf(pg, p) ==
    LET unlinked == [pg EXCEPT ![pg[p].prev_leaf].next_leaf = pg[p].next_leaf]
    IN  [unlinked EXCEPT ![pg[p].next_leaf].prev_leaf = pg[p].prev_leaf]

RECURSIVE find_leaf_page(_, _)
find_leaf_page(p, k) ==
    IF page[p].is_leaf THEN p ELSE find_leaf_page(internal_lookup(page[p], k), k)

(* The pages of the subtree of page p.  History and properties use it. *)
RECURSIVE Below(_, _)
Below(pg, p) ==
    {p} \cup IF pg[p].is_leaf THEN {}
             ELSE UNION {Below(pg, value_at(pg[p], i)) : i \in 0 .. Size(pg[p]) - 1}

(* What the leaves hold, along their chain from page p to its end *)
RECURSIVE ChainFrom(_)
ChainFrom(p) ==
    IF p \in {LeafHeader, NoPage} THEN << >>
    ELSE page[p].pairs \o ChainFrom(page[p].next_leaf)

Chain == ChainFrom(page[LeafHeader].next_leaf)

Present == {pair[1] : pair \in Range(Chain)}

-----------------------------------------------------------------------------
Idle == [at |-> "idle"]

Init ==
    /\ page = (LeafHeader :> Node(TRUE, NoPage, InitRoot, InitRoot, << >>)) @@
              (InitRoot   :> Node(TRUE, NoPage, LeafHeader, LeafHeader, << >>))
    /\ hdr = [root_page |-> InitRoot, first_leaf |-> InitRoot, last_leaf |-> InitRoot,
              num_pages |-> 3]
    /\ next_page = 3
    /\ writer = Idle
    /\ load = << >>
    /\ reader = [r \in Readers |-> Idle]

(* create_node takes the next page of the file, which should be none of the *)
(* tree's.                                                                 *)
create_node ==
    /\ next_page \notin Below(page, hdr.root_page)
    /\ next_page' = next_page + 1

NewNumPages == IF hdr.num_pages > next_page + 1 THEN hdr.num_pages ELSE next_page + 1

Reading == {r \in Readers : reader[r] # Idle}

NoReader == Reading = {}

(* A writer enters the tree: it takes latch_, and no reader notices. *)
Enter(k) ==
    /\ writer = Idle
    /\ \A r \in Reading : reader[r].overlaps < MaxOverlap
    /\ reader' = [r \in Readers |->
                    IF r \in Reading
                      THEN [reader[r] EXCEPT !.overlaps = @ + 1, !.gone = @ \cup ({k} \cap Present)]
                      ELSE reader[r]]
    /\ UNCHANGED <<hdr, next_page>>

insert_entry(k, r) ==
    LET p    == find_leaf_page(hdr.root_page, k)
        pos  == lower_bound(page[p], k)
        with == [page EXCEPT ![p] = insert_pair(@, pos, k, r)]
    IN  /\ Enter(k)
        /\ next_page + 2 <= MaxPages
        /\ ~ Has(page[p], k)
        /\ page' = IF pos = 0 THEN maintain_parent(with, p) ELSE with
        /\ writer' = IF isFull(with[p]) THEN [at |-> "split", node |-> p] ELSE Idle
        /\ UNCHANGED load

(* LoadExecutor inserts the keys of its file one after the other.  It does *)
(* not take latch_ but keeps root_latch_ and the leaf of the last key, and *)
(* puts the next key there too: can_insert_to_cached_node says yes to any  *)
(* key.  A key it finds in the leaf, and a split, make it give up both.    *)
optimized_insert_entry(file) ==
    LET k    == Head(file)
        p    == IF writer.at = "load" THEN writer.node ELSE find_leaf_page(hdr.root_page, k)
        pos  == lower_bound(page[p], k)
        keep == IF Len(file) = 1 THEN Idle ELSE [at |-> "load", node |-> p]
    IN  /\ LoadsAppend => NoReader /\ \A other \in Present : other < k
        /\ next_page + 2 <= MaxPages
        /\ \/ writer = Idle /\ Enter(k)
           \/ writer.at = "load" /\ UNCHANGED <<hdr, next_page, reader>>
        /\ load' = Tail(file)
        /\ IF Has(page[p], k)
             THEN writer' = Idle /\ UNCHANGED page
             ELSE \E r \in Rids :
                    LET with == [page EXCEPT ![p] = insert_pair(@, pos, k, r)]
                    IN  /\ page' = IF pos = 0 THEN maintain_parent(with, p) ELSE with
                        /\ writer' = IF isFull(with[p]) THEN [at |-> "split", node |-> p] ELSE keep

load_file == \E file \in IF load = << >> THEN Files ELSE {load} : optimized_insert_entry(file)

(* The upper part of a full node moves to a new node to the right of it.   *)
split ==
    LET p     == writer.node
        n     == page[p]
        new   == next_page
        right == Node(n.is_leaf, n.parent, p, n.next_leaf,
                      SubSeq(n.pairs, min_size + 1, Size(n)))
        left  == [n EXCEPT !.pairs = SubSeq(@, 1, min_size),
                           !.next_leaf = IF n.is_leaf THEN new ELSE @]
        both  == (new :> right) @@ [page EXCEPT ![p] = left]
    IN  /\ writer.at = "split"
        /\ create_node
        /\ page' = IF n.is_leaf
                     THEN [both EXCEPT ![n.next_leaf].prev_leaf = new]
                     ELSE maintain_children(both, new, 0 .. Size(right) - 1)
        /\ hdr' = [hdr EXCEPT !.num_pages = NewNumPages,
                              !.last_leaf = IF n.is_leaf /\ p = @ THEN new ELSE @]
        /\ writer' = [at |-> "parent", old |-> p, new |-> new]
        /\ UNCHANGED <<load, reader>>

(* The two halves of the root get a new root ...                           *)
insert_into_root ==
    LET old  == writer.old
        new  == writer.new
        root == next_page
        top  == Node(FALSE, NoPage, NoPage, NoPage,
                     << <<key(page[old], 0), old>>, <<key(page[new], 0), new>> >>)
    IN  /\ writer.at = "parent"
        /\ is_root_page(page[old])
        /\ create_node
        /\ page' = (root :> top) @@ [page EXCEPT ![old].parent = root, ![new].parent = root]
        /\ hdr' = [hdr EXCEPT !.root_page = root, !.num_pages = NewNumPages]
        /\ writer' = Idle
        /\ UNCHANGED <<load, reader>>

(* ... and in other nodes the new one comes after the old one, which may   *)
(* fill the parent in its turn.                                            *)
insert_into_parent ==
    LET up   == page[writer.old].parent
        with == insert_pair(page[up], find_child(page[up], writer.old) + 1,
                            key(page[writer.new], 0), writer.new)
    IN  /\ writer.at = "parent"
        /\ ~ is_root_page(page[writer.old])
        /\ page' = [page EXCEPT ![up] = with]
        /\ writer' = IF isFull(with) THEN [at |-> "split", node |-> up] ELSE Idle
        /\ UNCHANGED <<hdr, next_page, load, reader>>

delete_entry(k) ==
    LET p    == find_leaf_page(hdr.root_page, k)
        pos  == lower_bound(page[p], k)
        rest == [page EXCEPT ![p] = erase_pair(@, pos)]
    IN  /\ Enter(k)
        /\ Has(page[p], k)
        /\ page' = IF pos = 0 THEN maintain_parent(rest, p) ELSE rest
        /\ writer' = [at |-> "shrink", node |-> p]
        /\ UNCHANGED load

(* coalesce_or_redistribute and what it calls *)

(* adjust_root would also replace an inner root by its only child, but it   *)
(* is called for the node an entry was deleted from, and coalesce calls it  *)
(* only for a root without any child: an inner root stays.                  *)
adjust_root ==
    LET p == writer.node
    IN  /\ writer.at = "shrink"
        /\ is_root_page(page[p])
        /\ hdr' = IF page[p].is_leaf /\ Size(page[p]) = 0
                    THEN [hdr EXCEPT !.root_page = InitRoot,
                                     !.first_leaf = NoPage, !.last_leaf = NoPage]
                    ELSE hdr
        /\ writer' = Idle
        /\ UNCHANGED <<page, next_page, load, reader>>

(* The neighbour is the left one, if there is one. *)
Index(p) == find_child(page[page[p].parent], p)

NeighborIndex(p) == IF Index(p) = 0 THEN 1 ELSE Index(p) - 1

HasNeighbor(p) == NeighborIndex(p) < Size(page[page[p].parent])

Neighbor(p) == value_at(page[page[p].parent], NeighborIndex(p))

large_enough ==
    LET p == writer.node
    IN  /\ writer.at = "shrink"
        /\ ~ is_root_page(page[p])
        /\ Size(page[p]) >= min_size \/ ~ HasNeighbor(p)
        /\ writer' = Idle
        /\ UNCHANGED <<page, hdr, next_page, load, reader>>

TooSmall(p) ==
    /\ ~ is_root_page(page[p])
    /\ Size(page[p]) < min_size
    /\ HasNeighbor(p)

redistribute ==
    LET p     == writer.node
        n     == page[p]
        q     == Neighbor(p)
        nb    == page[q]
        up    == n.parent
        first == nb.pairs[1]
        last  == nb.pairs[Size(nb)]
    IN  /\ writer.at = "shrink"
        /\ TooSmall(p)
        /\ Size(n) + Size(nb) >= 2 * min_size
        /\ IF Index(p) = 0
             THEN LET moved == [page EXCEPT
                                  ![p].pairs = Append(@, first),
                                  ![q].pairs = Tail(@),
                                  ![up] = set_key(@, 1, nb.pairs[2][1])]
                  IN  page' = maintain_children(moved, p, {Size(n)})
             ELSE LET moved == [page EXCEPT
                                  ![p].pairs = << last >> \o @,
                                  ![q].pairs = Front(@),
                                  ![up] = set_key(@, Index(p), last[1])]
                  IN  page' = maintain_children(moved, p, {0})
        /\ writer' = Idle
        /\ UNCHANGED <<hdr, next_page, load, reader>>

(* A page that was released keeps its content, which only matters to the   *)
(* readers that are on the way to it.                                      *)
Forget(pg) ==
    LET tops == {LeafHeader, hdr.root_page} \cup IF writer.at = "parent" THEN {writer.new} ELSE {}
    IN  [p \in UNION {Below(pg, t) : t \in tops} |-> pg[p]]

(* The right one of the two is emptied into the left one.  Its page keeps  *)
(* its content but is no part of the tree any more.                        *)
coalesce ==
    LET p     == writer.node
        up    == page[p].parent
        index == IF Index(p) = 0 THEN 1 ELSE Index(p)
        left  == value_at(page[up], index - 1)
        right == value_at(page[up], index)
        moved == [page EXCEPT ![left].pairs = @ \o page[right].pairs,
                              ![up] = erase_pair(@, index)]
    IN  /\ writer.at = "shrink"
        /\ TooSmall(p)
        /\ Size(page[p]) + Size(page[Neighbor(p)]) < 2 * min_size
        /\ page' = LET merged == IF page[p].is_leaf
                                   THEN erase_leaf(moved, right)
                                   ELSE maintain_children(moved, left,
                                            Size(page[left]) .. Size(moved[left]) - 1)
                   IN  IF NoReader THEN Forget(merged) ELSE merged
        /\ hdr' = [hdr EXCEPT !.num_pages = @ - 1,
                              !.last_leaf = IF page[p].is_leaf /\ right = @ THEN left ELSE @]
        /\ writer' = IF Size(moved[up]) < min_size /\ ~ is_root_page(page[up])
                       THEN [at |-> "shrink", node |-> up]
                       ELSE Idle
        /\ UNCHANGED <<next_page, load, reader>>

(* create_node takes a page of the tree, and new_page clears it.  Nothing   *)
(* is said of what follows.                                                *)
overwrite ==
    /\ \/ writer.at = "split"
       \/ writer.at = "parent" /\ is_root_page(page[writer.old])
    /\ next_page \in Below(page, hdr.root_page)
    /\ writer' = [at |-> "lost"]
    /\ UNCHANGED <<page, hdr, next_page, load, reader>>

(* The server stops and starts: close_index and open_index. *)
open_index ==
    /\ writer = Idle
    /\ load = << >>
    /\ NoReader
    /\ next_page' = hdr.num_pages
    /\ UNCHANGED <<page, hdr, writer, load, reader>>

-----------------------------------------------------------------------------
(* Readers: find_leaf_page without a latch, then a look at the leaf.       *)

Reads ==
    /\ writer.at # "lost"
    /\ UNCHANGED <<page, hdr, next_page, writer, load>>

StartIn(r, goal, lo, hi) ==
    /\ reader[r] = Idle
    /\ LoadsAppend => load = << >>
    /\ reader' = [reader EXCEPT ![r] =
                    [at |-> "descend", goal |-> goal, lo |-> lo, hi |-> hi,
                     node |-> hdr.root_page, iid |-> << >>, end |-> << >>,
                     got |-> {}, gone |-> {},
                     overlaps |-> IF writer = Idle THEN 0 ELSE 1]]
    /\ Reads

(* also get_value, which returns the record of the key *)
is_unique(r, k) == StartIn(r, "get", k, k)

(* beginTuple of an index scan *)
scan_range(r, lo, hi) == StartIn(r, "lower", lo, hi)

descend(r) ==
    LET me == reader[r]
    IN  /\ me.at = "descend"
        /\ ~ page[me.node].is_leaf
        /\ reader' = [reader EXCEPT ![r].node =
                        internal_lookup(page[me.node], IF me.goal = "upper" THEN me.hi ELSE me.lo)]
        /\ Reads

(* leaf_lookup: the key or its absence *)
lookup(r) ==
    LET me == reader[r]
    IN  /\ me.at = "descend" /\ me.goal = "get"
        /\ page[me.node].is_leaf
        /\ reader' = [reader EXCEPT ![r].at = "done",
                                    ![r].node = NoPage,
                                    ![r].got = IF Has(page[me.node], me.lo) THEN {me.lo} ELSE {}]
        /\ Reads

(* An index slot: behind the last pair of a leaf, except the last leaf, it *)
(* is the first of the next one.                                           *)
Iid(p, pos) ==
    IF pos = Size(page[p]) /\ p # hdr.last_leaf THEN <<page[p].next_leaf, 0>> ELSE <<p, pos>>

bound(r) ==
    LET me   == reader[r]
        leaf == page[me.node]
    IN  /\ me.at = "descend"
        /\ leaf.is_leaf
        /\ \/ /\ me.goal = "lower"
              /\ reader' = [reader EXCEPT ![r].iid = Iid(me.node, lower_bound(leaf, me.lo)),
                                          ![r].goal = "upper", ![r].node = hdr.root_page]
           \/ /\ me.goal = "upper"
              /\ reader' = [reader EXCEPT ![r].end = Iid(me.node, upper_bound(leaf, me.hi)),
                                          ![r].at = "rid", ![r].node = NoPage]
        /\ Reads

(* Mutant: what the slot held before is returned *)
rid_Unchecked(r) ==
    LET me   == reader[r]
        leaf == page[me.iid[1]]
    IN  /\ me.at = "rid"
        /\ me.iid # me.end
        /\ reader' = [reader EXCEPT ![r].at = "next",
                        ![r].got = @ \cup {IF me.iid[2] < Size(leaf) THEN key(leaf, me.iid[2]) ELSE me.hi}]
        /\ Reads

(* IxScan::rid; a slot that is gone is skipped *)
rid(r) ==
    LET me   == reader[r]
        leaf == page[me.iid[1]]
    IN  /\ me.at = "rid"
        /\ me.iid # me.end
        /\ reader' = [reader EXCEPT ![r].at = "next",
                        ![r].got = IF me.iid[2] < Size(leaf) THEN @ \cup {key(leaf, me.iid[2])} ELSE @]
        /\ Reads

(* IxScan::next; the chain of leaves ends where it began, at its header *)
next(r) ==
    LET me   == reader[r]
        leaf == page[me.iid[1]]
        slot == me.iid[2] + 1
    IN  /\ me.at = "next"
        /\ reader' = [reader EXCEPT ![r].at = "rid",
                        ![r].iid = IF me.iid[2] < Size(leaf) /\ slot # Size(leaf) THEN <<@[1], slot>>
                                   ELSE IF leaf.next_leaf \in {NoPage, LeafHeader} THEN me.end
                                   ELSE <<leaf.next_leaf, 0>>]
        /\ Reads

scan_end(r) ==
    /\ reader[r].at = "rid"
    /\ reader[r].iid = reader[r].end
    /\ reader' = [reader EXCEPT ![r].at = "done", ![r].iid = << >>, ![r].end = << >>]
    /\ Reads

leave(r) ==
    /\ reader[r].at = "done"
    /\ reader' = [reader EXCEPT ![r] = Idle]
    /\ page' = IF \A s \in Readers \ {r} : reader[s] = Idle THEN Forget(page) ELSE page
    /\ UNCHANGED <<hdr, next_page, writer, load>>

-----------------------------------------------------------------------------
WriterStep ==
    \/ overwrite \/ split \/ insert_into_root \/ insert_into_parent
    \/ adjust_root \/ large_enough \/ redistribute \/ coalesce

ReaderStep(r) ==
    descend(r) \/ lookup(r) \/ bound(r) \/ rid(r) \/ next(r) \/ scan_end(r) \/ leave(r)

Next ==
    \/ \E k \in Keys : delete_entry(k) \/ \E v \in Rids : insert_entry(k, v)
    \/ load_file
    \/ WriterStep
    \/ open_index
    \/ \E r \in Readers :
          \/ \E range \in Ranges : is_unique(r, range[1]) \/ scan_range(r, range[1], range[2])
          \/ ReaderStep(r)

Spec == Init /\ [][Next]_vars

-----------------------------------------------------------------------------
(* Properties *)

Pages == NoPage .. MaxPages

(* Type invariant of the file: nodes of at most max_size pairs, page       *)
(* numbers of the file, and a writer or reader at a page that exists.      *)
TypeOK ==
    /\ \A p \in DOMAIN page :
         /\ Size(page[p]) <= max_size
         /\ \A i \in 0 .. Size(page[p]) - 1 :
              /\ key(page[p], i) \in Keys
              /\ value_at(page[p], i) \in IF page[p].is_leaf THEN Rids ELSE DOMAIN page
         /\ {page[p].parent, page[p].prev_leaf, page[p].next_leaf} \subseteq Pages
    /\ hdr.root_page \in DOMAIN page
    /\ next_page \in 3 .. MaxPages + 1
    /\ writer.at \in {"idle", "split", "parent", "shrink", "load", "lost"}
    /\ \A r \in Reading : reader[r].node \in DOMAIN page \cup {NoPage} /\ reader[r].overlaps <= MaxOverlap

(* Readers change nothing in the tree, so it is looked at when there are none. *)
AtRest == writer = Idle /\ NoReader

Tree == Below(page, hdr.root_page)

Children(p) == IF page[p].is_leaf THEN {} ELSE {value_at(page[p], i) : i \in 0 .. Size(page[p]) - 1}

RECURSIVE Depths(_)
Depths(p) ==
    IF page[p].is_leaf THEN {0} ELSE {d + 1 : d \in UNION {Depths(c) : c \in Children(p)}}

(* Between two writers the tree is balanced: its leaves are at one depth,  *)
(* no node is full, a node that has a sibling is at least half full, and   *)
(* the header's last leaf is the end of the chain unless the tree has been *)
(* empty.  The rebalancing of coalesce_or_redistribute and split is about  *)
(* this.                                                                   *)
TreeIsBalanced == AtRest =>
    /\ Cardinality(Depths(hdr.root_page)) = 1
    /\ \A p \in Tree :
         /\ Size(page[p]) < max_size
         /\ ~ is_root_page(page[p]) /\ Size(page[page[p].parent]) > 1 => Size(page[p]) >= min_size
    /\ hdr.last_leaf \in {NoPage, page[LeafHeader].prev_leaf}

(* Between two writers every node knows its parent, is filed there under   *)
(* its first key, and the leaves of the tree are the chain that scans walk *)
(* along: the upkeep of maintain_parent, maintain_child and erase_leaf.    *)
LinksAgree == AtRest =>
    /\ \A p \in Tree : \A i \in 0 .. Size(page[p]) - 1 :
         ~ page[p].is_leaf =>
            LET child == page[value_at(page[p], i)]
            IN  /\ child.parent = p
                /\ Size(child) > 0 => key(page[p], i) = key(child, 0)
    /\ LET leaves == {p \in Tree : page[p].is_leaf} \cup {LeafHeader}
       IN  \A p \in leaves :
             /\ page[p].next_leaf \in leaves
             /\ page[page[p].next_leaf].prev_leaf = p

(* The shape of the tree between two writers, which each split, merge and  *)
(* shift hands on to the next: no node has more pairs than its page has    *)
(* room for, not even within a writer.                                     *)
TreeInv == TypeOK /\ TreeIsBalanced /\ LinksAgree

(* A key is found from the root exactly when it is in the chain of leaves, *)
(* which holds every key once and in order: get_value, is_unique and the   *)
(* scans see the same index.                                               *)
SearchFindsChain == AtRest =>
    LET chain   == Chain
        present == Present
    IN  /\ \A i \in 1 .. Len(chain) - 1 : chain[i][1] < chain[i + 1][1]
        /\ \A k \in Keys : Has(page[find_leaf_page(hdr.root_page, k)], k) <=> k \in present

(* A search or scan during which no writer was in the tree returns exactly *)
(* the keys of its range.                                                  *)
UndisturbedReadIsExact ==
    \A r \in Readers :
        reader[r].at = "done" /\ reader[r].overlaps = 0 =>
            reader[r].got = {k \in Present : reader[r].lo <= k /\ k <= reader[r].hi}

(* Readers take no latch and may stand on a node that has been split or    *)
(* merged away; still they return no key that was not in the index at some *)
(* time since they began.                                                  *)
ReadWasThere ==
    \A r \in Readers :
        reader[r].at = "done" => reader[r].got \subseteq Present \cup reader[r].gone

(* What searches and scans return, beside writers and without them. *)
ReadsAreRight == UndisturbedReadIsExact /\ ReadWasThere

(* What the index holds changes in the first step of a writer, by the key  *)
(* it was called for; the splits, merges and shifts after it change where  *)
(* entries are and nothing else.                                           *)
Map == INSTANCE OrderedMap WITH entries <- Range(Chain)

MapSpec == Map!Spec

(* TLC refutes the two formulas below (README, "Known deviations").        *)

(* A scan returns keys of its range: the conditions that gave the range    *)
(* are not evaluated again (executor_index_scan.h).                        *)
ScanStaysInRange ==
    \A r \in Readers : reader[r].at = "done" =>
        \A k \in reader[r].got : reader[r].lo <= k /\ k <= reader[r].hi

(* new_page hands out a page that is not in the tree, also after a restart *)
(* (open_index goes on at num_pages, which coalesce has counted down).     *)
NeverOverwrites == writer.at # "lost"
=============================================================================
