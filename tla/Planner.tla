------------------------------- MODULE Planner -------------------------------
(***************************************************************************)
(* Planner: the steps from an analyzed query to a plan.  A plan is a tree  *)
(* of records, told apart by their field node:                             *)
(*   scan  tab, conds, index (<< >> for a SeqScan), proj (<< >> for all)   *)
(*   join  left, right, conds                                              *)
(*   sort  child, cols, desc, limit                                        *)
(*   group child, group, having       agg  child, sel       proj child, cols *)
(*                                                                         *)
(* Left out: EXPLAIN.                                                      *)
(***************************************************************************)
EXTENDS Analyzer

CONSTANTS Indexes,  \* for every table the set of its indexes, each a sequence of column names
          Preferred \* TPCCOptimizer: for a table it knows, the columns needs, and the index for them

INDEX_EQ_WEIGHT    == 20
INDEX_RANGE_WEIGHT == 6
INDEX_TPCC_BONUS   == 3

RangeOps == {"<", "<=", ">", ">="}
Ops      == RangeOps \union {"=", "<>"}

swap_op(op) == CASE op = "<" -> ">" [] op = ">" -> "<" [] op = "<=" -> ">=" [] op = ">=" -> "<="
                 [] OTHER -> op

Swapped(c) == [c EXCEPT !.lhs = c.rhs, !.rhs = c.lhs, !.op = swap_op(@)]

-----------------------------------------------------------------------------
(* propagate_equality_constants_in_place: a column equal to a column that  *)
(* is equal to a constant is equal to the constant.                        *)
EqualitiesOf(conds) == {conds[i] : i \in {j \in DOMAIN conds : conds[j].op = "="}}

EqualCols(conds) == {c.lhs : c \in EqualitiesOf(conds)}
                    \union {c.rhs : c \in {d \in EqualitiesOf(conds) : ~ d.is_val}}

(* the columns that the equalities between columns connect with col *)
Component(conds, col) ==
    LET Edges == {c \in EqualitiesOf(conds) : ~ c.is_val}
        Closed(S) == \A c \in Edges : c.lhs \in S <=> c.rhs \in S
    IN  {d \in EqualCols(conds) : \A S \in SUBSET EqualCols(conds) : col \in S /\ Closed(S) => d \in S}

same_value(v, w) == v.type = w.type /\ v.num = w.num

(* Of literals with the same value one is taken. *)
ConstantsOf(conds, cols) ==
    LET cs == {c \in EqualitiesOf(conds) : c.is_val /\ c.lhs \in cols}
    IN  {CHOOSE w \in {c.val : c \in cs} : same_value(v, w) : v \in {c.val : c \in cs}}

propagated(conds) ==
    LET New(col, v) == [lhs |-> col, op |-> "=", is_val |-> TRUE, val |-> v, rhs |-> <<"", "">>]
        Exists(c)   == \E d \in EqualitiesOf(conds) :
                          d.is_val /\ d.lhs = c.lhs /\ same_value(d.val, c.val)
    IN  {c \in UNION {{New(col, v) : v \in ConstantsOf(conds, Component(conds, col))} :
                      col \in EqualCols(conds)} : ~ Exists(c)}

need_agg_plan(q) == q.group # << >> \/ HasAggregation(q)

-----------------------------------------------------------------------------
(* pop_conds takes for a table its comparisons with values, and every      *)
(* comparison of two columns of one table, whichever that table is.        *)
PopsFor(tab, c) == (c.is_val /\ c.lhs[1] = tab) \/ c.lhs[1] = c.rhs[1]

pop_conds(conds, tab) == [taken |-> SelectSeq(conds, LAMBDA c : PopsFor(tab, c)),
                          left  |-> SelectSeq(conds, LAMBDA c : ~ PopsFor(tab, c))]

(* get_index_cols keeps pointers into a vector that it goes on appending   *)
(* to.  A pointer is good if the vector did not grow afterwards, that is,  *)
(* the capacity (1, 2, 4, ...) was already the last one.                   *)
Capacity(n) == CHOOSE c \in {1, 2, 4, 8, 16} : n <= c /\ (c = 1 \/ n > c \div 2)

ApplicableConds(conds, tab) == SelectSeq(conds, LAMBDA c : c.is_val /\ c.lhs[1] = tab)

Dangling(conds) == {i \in DOMAIN conds : Capacity(i) < Capacity(Len(conds))}

(* TPCCOptimizer: conditions of any kind on the columns needed, and the    *)
(* index exists                                                            *)
optimize_tpcc_index_selection(tab, mine) ==
    /\ tab \in DOMAIN Preferred
    /\ Preferred[tab].needs \subseteq {mine[i].lhs[2] : i \in DOMAIN mine}
    /\ Preferred[tab].index \in Indexes[tab]

is_tpcc_recommended_index(tab, ix) == tab \in DOMAIN Preferred /\ IsPrefix(Preferred[tab].index, ix)

(* The best index by the leftmost prefix rule, the indexes taken in the    *)
(* order of a hash table; one of TPC-C wins a tie, even a tie at 0.  stale *)
(* gives the operators that the dangling pointers read.                    *)
get_index_cols(tab, conds, stale) ==
    LET mine == ApplicableConds(conds, tab)
        OpAt(i) == IF i \in DOMAIN stale THEN stale[i] ELSE mine[i].op
        Has(name, ops) == \E i \in DOMAIN mine : mine[i].lhs[2] = name /\ OpAt(i) \in ops
        EqPrefix(ix) == CHOOSE k \in 0..Len(ix) :
                           /\ \A i \in 1..k : Has(ix[i], {"="})
                           /\ k < Len(ix) => ~ Has(ix[k + 1], {"="})
        Score(ix) == INDEX_EQ_WEIGHT * EqPrefix(ix)
                     + IF EqPrefix(ix) < Len(ix) /\ Has(ix[EqPrefix(ix) + 1], RangeOps)
                         THEN INDEX_RANGE_WEIGHT ELSE 0
        Better(best, ix) ==
            IF Score(ix) > best.score THEN [score |-> Score(ix), index |-> ix]
            ELSE IF Score(ix) = best.score /\ is_tpcc_recommended_index(tab, ix)
              THEN [score |-> Score(ix) + INDEX_TPCC_BONUS, index |-> ix]
            ELSE best
        Best(order) == FoldLeft(Better, [score |-> 0, index |-> << >>], order).index
    IN  IF optimize_tpcc_index_selection(tab, mine) THEN {Preferred[tab].index}
        ELSE IF mine = << >> THEN {<< >>}
        ELSE {Best(order) : order \in SetToSeqs(Indexes[tab])}

(* Mutant: the columns of comparisons are not passed up *)
col_usage_Select(q, tab) ==
    LET mine == SelectSeq(q.cols \o q.group, LAMBDA c : c[1] = tab)
    IN  FoldLeft(LAMBDA cols, c : IF Contains(cols, c) THEN cols ELSE Append(cols, c), << >>, mine)

(* col_usage_: the columns of a table that the plan above its scan sees,   *)
(* from the SELECT list, GROUP BY and the comparisons of two columns.      *)
col_usage(q, tab) ==
    LET cmps == SelectSeq(q.conds, LAMBDA c : ~ c.is_val)
        used == q.cols \o q.group \o FlattenSeq([i \in DOMAIN cmps |-> <<cmps[i].lhs, cmps[i].rhs>>])
        mine == SelectSeq(used, LAMBDA c : c[1] = tab /\ Contains(ColsOf(tab), c))
    IN  FoldLeft(LAMBDA cols, c : IF Contains(cols, c) THEN cols ELSE Append(cols, c), << >>, mine)

ScanPlan(tab, conds, index, proj) ==
    [node |-> "scan", tab |-> tab, conds |-> conds, index |-> index, proj |-> proj]

-----------------------------------------------------------------------------
(* make_one_rel *)
JoinPlan(left, right, conds) == [node |-> "join", left |-> left, right |-> right, conds |-> conds]

RECURSIVE TablesOf(_)
TablesOf(plan) == IF plan.node = "scan" THEN {plan.tab}
                  ELSE TablesOf(plan.left) \union TablesOf(plan.right)

pop_scan(scans, tab) == scans[CHOOSE i \in DOMAIN scans : scans[i].tab = tab]

(* push_conds: a comparison of columns that are already joined goes to the *)
(* join of the two subtrees they are in, the column of the left one first. *)
RECURSIVE push_conds_Unswapped(_, _)
(* Mutant: the sides are not exchanged *)
push_conds_Unswapped(c, plan) ==
    LET Both(p) == {c.lhs[1], c.rhs[1]} \subseteq TablesOf(p)
    IN  CASE Both(plan.left)  -> [plan EXCEPT !.left  = push_conds_Unswapped(c, @)]
          [] Both(plan.right) -> [plan EXCEPT !.right = push_conds_Unswapped(c, @)]
          [] OTHER            -> [plan EXCEPT !.conds = Append(@, c)]

RECURSIVE push_conds(_, _)
push_conds(c, plan) ==
    LET Both(p) == {c.lhs[1], c.rhs[1]} \subseteq TablesOf(p)
    IN  CASE Both(plan.left)  -> [plan EXCEPT !.left  = push_conds(c, @)]
          [] Both(plan.right) -> [plan EXCEPT !.right = push_conds(c, @)]
          [] OTHER -> [plan EXCEPT !.conds =
                          Append(@, IF c.lhs[1] \in TablesOf(plan.left) THEN c ELSE Swapped(c))]

(* the comparison that makes the first join *)
FirstJoin(scans, c) == JoinPlan(pop_scan(scans, c.lhs[1]), pop_scan(scans, c.rhs[1]), <<c>>)

(* a further one: it brings in two tables, one or none *)
NextJoin(scans, plan, c) ==
    LET newL == c.lhs[1] \notin TablesOf(plan)
        newR == c.rhs[1] \notin TablesOf(plan)
    IN  CASE newL /\ newR   -> JoinPlan(FirstJoin(scans, c), plan, << >>)
          [] newL /\ ~ newR -> JoinPlan(pop_scan(scans, c.lhs[1]), plan, <<c>>)
          [] ~ newL /\ newR -> JoinPlan(pop_scan(scans, c.rhs[1]), plan, <<Swapped(c)>>)
          [] OTHER          -> push_conds(c, plan)

(* the tables that no comparison mentions *)
Remaining(scans, plan) == {i \in DOMAIN scans : scans[i].tab \notin TablesOf(plan)}

CrossJoin(scans, plan) ==
    LET i == CHOOSE i \in Remaining(scans, plan) : \A j \in Remaining(scans, plan) : i <= j
    IN  JoinPlan(scans[i], plan, << >>)

-----------------------------------------------------------------------------
SortPlan(child, cols, desc, limit) ==
    [node |-> "sort", child |-> child, cols |-> cols, desc |-> desc, limit |-> limit]

GroupPlan(child, group, having) ==
    [node |-> "group", child |-> child, group |-> group, having |-> having]

AggPlan(child, sel) == [node |-> "agg", child |-> child, sel |-> sel]

ProjectionPlan(child, cols) == [node |-> "proj", child |-> child, cols |-> cols]

HasSort(q) == q.order # << >> \/ q.limit > 0

generate_sort_plan(q, plan) ==
    LET all == get_all_cols(q.tables)
        Col(c) == all[CHOOSE i \in Candidates(all, c) : \A j \in Candidates(all, c) : i <= j]
    IN  IF ~ HasSort(q) THEN plan
        ELSE SortPlan(plan, [i \in DOMAIN q.order |-> Col(q.order[i].col)],
                      [i \in DOMAIN q.order |-> q.order[i].desc], q.limit)

(* the sort is below grouping and aggregation *)
generate_select_plan(q, plan) ==
    LET grouped == IF q.group # << >> \/ (q.having # NoHaving /\ need_agg_plan(q))
                     THEN GroupPlan(plan, q.group, q.having) ELSE plan
        top     == IF need_agg_plan(q) THEN AggPlan(grouped, q.sel) ELSE plan
    IN  ProjectionPlan(top, q.cols)

(* UPDATE does not scan an index that holds a column it sets. *)
SetCols(set) == {set[i].lhs : i \in DOMAIN set}

update_scan(q, index) == IF ToSet(index) \cap SetCols(q.set) # {} THEN << >> ELSE index
=============================================================================
