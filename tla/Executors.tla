------------------------------ MODULE Executors ------------------------------
(***************************************************************************)
(* The executors that a plan is converted to.  What an executor yields is  *)
(* a record: cols, its columns; rows, a sequence of functions from columns *)
(* to numbers; shared, whether all its records point into one buffer that  *)
(* the next record overwrites; err, the error it raised: an "RMDBError" is *)
(* reported to the client, an exception of the C++ library and an assert   *)
(* that fails are "uncaught" and end the server.                           *)
(* The visibility of rows is the subject of TransactionManager; here every *)
(* row of a table is visible, and the positions of an index are those of   *)
(* the sorted rows (BPlusTree shows the tree keeps them).                  *)
(***************************************************************************)
EXTENDS Planner

(* the least and the greatest value of a type *)
AllMin(type) == IF type = "INT" THEN Unit * IntMin ELSE -100000
AllMax(type) == IF type = "INT" THEN Unit * IntMax ELSE 100000

Compares(x, op, y) == CASE op = "="  -> x = y  [] op = "<>" -> x # y
                        [] op = "<"  -> x < y  [] op = "<=" -> x <= y
                        [] op = ">"  -> x > y  [] op = ">=" -> x >= y

Lacks(cols, col) == ~ Contains(cols, col)

RhsType(c) == IF c.is_val THEN c.val.type ELSE TypeOf(c.rhs)

(* Fliter::compare: numbers of one type as they are, others as floats *)
compare(x, xtype, op, y, ytype) ==
    IF xtype = ytype THEN Compares(x, op, y) ELSE Compares(AsFloat(x, xtype), op, AsFloat(y, ytype))

(* eval_cond compares floats, INTs with INTs too; a literal is taken with  *)
(* its converted value.  A column the record does not have is an error.    *)
eval_cond(row, c) ==
    Compares(AsFloat(row[c.lhs], TypeOf(c.lhs)), c.op,
             AsFloat(IF c.is_val THEN c.val.num ELSE row[c.rhs], RhsType(c)))

eval_conds(row, conds) == \A i \in DOMAIN conds : eval_cond(row, conds[i])

Missing(cols, c) == Lacks(cols, c.lhs) \/ (~ c.is_val /\ Lacks(cols, c.rhs))

CannotEval(cols, conds) == \E i \in DOMAIN conds : Missing(cols, conds[i])

Filter(rows, conds) == SelectSeq(rows, LAMBDA row : eval_conds(row, conds))

(* the projection of a scan *)
Projected(tab, rows, proj) ==
    LET cols == IF proj = << >> THEN ColsOf(tab) ELSE proj
    IN  [cols |-> cols, shared |-> proj # << >>, err |-> "none",
         rows |-> [i \in DOMAIN rows |-> [c \in ToSet(cols) |-> rows[i][c]]]]

Raised(err) == [cols |-> << >>, rows |-> << >>, shared |-> FALSE, err |-> err]

Failed == Raised("RMDBError")

Raises(E) == E.err # "none"

(* The conditions of a row are evaluated in their order up to one that is  *)
(* false: one that cannot be evaluated may not be reached.                 *)
ReachesMissing(cols, conds, row) ==
    \E i \in DOMAIN conds :
        /\ Missing(cols, conds[i])
        /\ \A j \in 1 .. (i - 1) : ~ Missing(cols, conds[j]) /\ eval_cond(row, conds[j])

SeqScan(plan, rows) ==
    IF CannotEval(ColsOf(plan.tab), plan.conds)
      THEN IF \E i \in DOMAIN rows : ReachesMissing(ColsOf(plan.tab), plan.conds, rows[i])
             THEN Failed ELSE Projected(plan.tab, << >>, plan.proj)
    ELSE Projected(plan.tab, Filter(rows, plan.conds), plan.proj)

-----------------------------------------------------------------------------
(* IndexScan: the range of the scan is made from the bytes of the literals *)
(* and the conditions it stands for are not evaluated again.               *)
CondsOn(plan, i) ==
    SelectSeq(plan.conds, LAMBDA c : c.is_val /\ c.lhs[2] = plan.index[i])

HasOp(conds, ops) == \E j \in DOMAIN conds : conds[j].op \in ops

(* the bytes of the last condition with the operator *)
BytesOf(conds, op, type) ==
    Reads(conds[SelectLastInSeq(conds, LAMBDA c : c.op = op)].val.raw, type)

(* A strict bound of an INT is moved by one, but not beyond the last INT:  *)
(* there it is as if it were not strict.                                   *)
Above(n, type) == IF type = "INT" /\ n < Unit * IntMax THEN n + Unit ELSE n
Below(n, type) == IF type = "INT" /\ n > Unit * IntMin THEN n - Unit ELSE n

LowerAt(conds, type) ==
    CASE HasOp(conds, {"="})  -> BytesOf(conds, "=", type)
      [] HasOp(conds, {">="}) /\ ~ HasOp(conds, {"="}) -> BytesOf(conds, ">=", type)
      [] HasOp(conds, {">"}) /\ ~ HasOp(conds, {"=", ">="}) -> Above(BytesOf(conds, ">", type), type)
      [] OTHER -> AllMin(type)

UpperAt(conds, type) ==
    CASE HasOp(conds, {"="})  -> BytesOf(conds, "=", type)
      [] HasOp(conds, {"<="}) /\ ~ HasOp(conds, {"="}) -> BytesOf(conds, "<=", type)
      [] HasOp(conds, {"<"}) /\ ~ HasOp(conds, {"=", "<="}) -> Below(BytesOf(conds, "<", type), type)
      [] OTHER -> AllMax(type)

IndexKey(tab, index, row) == [i \in DOMAIN index |-> row[<<tab, index[i]>>]]

KeyOf(plan, row) == IndexKey(plan.tab, plan.index, row)

(* the columns up to the first one without a bound *)
BoundedCols(plan) ==
    {i \in DOMAIN plan.index : \A j \in 1..i : HasOp(CondsOn(plan, j), RangeOps \union {"="})}

TypeAt(plan, i) == TypeOf(<<plan.tab, plan.index[i]>>)

lower_key(plan) ==
    [i \in DOMAIN plan.index |-> IF i \in BoundedCols(plan) THEN LowerAt(CondsOn(plan, i), TypeAt(plan, i))
                                                             ELSE AllMin(TypeAt(plan, i))]

upper_key(plan) ==
    [i \in DOMAIN plan.index |-> IF i \in BoundedCols(plan) THEN UpperAt(CondsOn(plan, i), TypeAt(plan, i))
                                                             ELSE AllMax(TypeAt(plan, i))]

KeyLess(k, l) == \E i \in DOMAIN k : k[i] < l[i] /\ \A j \in 1..(i - 1) : k[j] = l[j]

(* the rows of the range in the order of the index; a range that ends      *)
(* before it starts runs to the end of the index                           *)
InRange(plan, rows) ==
    LET sorted == SortSeq(rows, LAMBDA r, s : KeyLess(KeyOf(plan, r), KeyOf(plan, s)))
        from == Cardinality({i \in DOMAIN sorted : KeyLess(KeyOf(plan, sorted[i]), lower_key(plan))})
        to   == Cardinality({i \in DOMAIN sorted : ~ KeyLess(upper_key(plan), KeyOf(plan, sorted[i]))})
    IN  SubSeq(sorted, from + 1, IF from <= to THEN to ELSE Len(sorted))

(* the columns with "=" and the next one, if there is any condition on it *)
covered_cols(plan) ==
    {plan.index[i] : i \in {j \in DOMAIN plan.index :
        CondsOn(plan, j) # << >> /\ \A k \in 1..(j - 1) : HasOp(CondsOn(plan, k), {"="})}}

fed_conds(plan) ==
    SelectSeq(plan.conds, LAMBDA c : ~ (c.is_val /\ c.lhs[2] \in covered_cols(plan)))

cmp_cond(row, c) ==
    compare(row[c.lhs], TypeOf(c.lhs), c.op,
            IF c.is_val THEN Reads(c.val.raw, c.val.type) ELSE row[c.rhs], RhsType(c))

FromIndex(plan, rows) ==
    SelectSeq(InRange(plan, rows),
              LAMBDA row : \A i \in DOMAIN fed_conds(plan) : cmp_cond(row, fed_conds(plan)[i]))

(* The constructor asserts that a comparison has a column of its table. *)
IndexScan(plan, rows) ==
    IF CannotEval(ColsOf(plan.tab), plan.conds) THEN Raised("uncaught")
    ELSE Projected(plan.tab, FromIndex(plan, rows), plan.proj)

-----------------------------------------------------------------------------
(* NestedLoopJoin: the right child is the outer one.  A join that is the   *)
(* left child has ended for good after its first pass.  A condition whose  *)
(* columns are not on its sides would be read at no defined place.  The    *)
(* scans are built before any of them is run.                              *)
do_predict(row, conds) ==
    \A i \in DOMAIN conds : compare(row[conds[i].lhs], TypeOf(conds[i].lhs), conds[i].op,
                                    row[conds[i].rhs], TypeOf(conds[i].rhs))

NestedLoopJoin(plan, L, R) ==
    LET outer == IF plan.left.node = "join" /\ R.rows # << >> THEN <<R.rows[1]>> ELSE R.rows
        pairs == FlattenSeq([i \in DOMAIN outer |->
                                [j \in DOMAIN L.rows |-> L.rows[j] @@ outer[i]]])
    IN  CASE "uncaught" \in {L.err, R.err} -> Raised("uncaught")
          [] "uncaught" \notin {L.err, R.err}
             /\ (Raises(L) \/ Raises(R) \/ \E i \in DOMAIN plan.conds :
                    Lacks(L.cols, plan.conds[i].lhs) \/ Lacks(R.cols, plan.conds[i].rhs)) -> Failed
          [] OTHER -> [cols |-> L.cols \o R.cols, shared |-> TRUE, err |-> "none",
                       rows |-> SelectSeq(pairs, LAMBDA row : do_predict(row, plan.conds))]

(* compare_tuples *)
SortsBefore(plan, r, s) ==
    \E i \in DOMAIN plan.cols :
        /\ IF plan.desc[i] THEN r[plan.cols[i]] > s[plan.cols[i]] ELSE r[plan.cols[i]] < s[plan.cols[i]]
        /\ \A j \in 1..(i - 1) : r[plan.cols[j]] = s[plan.cols[j]]

(* Sort keeps the records it is given: if they share a buffer, all are the *)
(* last one.                                                               *)
Sort(plan, C) ==
    LET kept   == IF C.shared THEN [i \in DOMAIN C.rows |-> Last(C.rows)] ELSE C.rows
        sorted == SortSeq(kept, LAMBDA r, s : SortsBefore(plan, r, s))
    IN  IF Raises(C) THEN C
        ELSE IF \E i \in DOMAIN plan.cols : Lacks(C.cols, plan.cols[i]) THEN Failed
        ELSE [C EXCEPT !.shared = FALSE,
                       !.rows = IF plan.limit > 0 /\ plan.limit < Len(sorted)
                                  THEN SubSeq(sorted, 1, plan.limit) ELSE sorted]

-----------------------------------------------------------------------------
(* get_col_idx: the first column of that name; 0 is an error *)
get_col_idx(cols, col) ==
    SelectInSeq(cols, LAMBDA c : c[2] = col[2] /\ (col[1] = "" \/ c[1] = col[1]))

ValueIn(cols, row, col) == row[cols[get_col_idx(cols, col)]]

Total(cols, rows, col) == FoldLeft(LAMBDA n, row : n + ValueIn(cols, row, col), 0, rows)

(* A sum of INTs is an INT. *)
SumOf(cols, rows, col) ==
    IF rows # << >> /\ TypeOf(cols[get_col_idx(cols, col)]) = "INT" THEN Wrapped(Total(cols, rows, col))
    ELSE Total(cols, rows, col)

ValuesOf(cols, rows, col) == {ValueIn(cols, rows[i], col) : i \in DOMAIN rows}

(* Mutant: MAX keeps the smaller value *)
compute_single_aggregation_Min(cols, rows, e) ==
    CASE e.agg \in {"COUNT", "COUNT(*)"} -> Unit * Len(rows)
      [] e.agg = "SUM" -> SumOf(cols, rows, e.col)
      [] e.agg = "AVG" -> IF rows = << >> THEN <<0, 1>> ELSE <<Total(cols, rows, e.col), Len(rows)>>
      [] e.agg \in {"MIN", "MAX"} -> IF rows = << >> THEN 0 ELSE Min(ValuesOf(cols, rows, e.col))
      [] OTHER -> IF rows = << >> THEN 0 ELSE ValueIn(cols, rows[1], e.col)

(* the value of a SELECT expression over the rows of a group; an average   *)
(* is the pair of a sum, a double here, and a count                        *)
compute_single_aggregation(cols, rows, e) ==
    CASE e.agg \in {"COUNT", "COUNT(*)"} -> Unit * Len(rows)
      [] e.agg = "SUM" -> SumOf(cols, rows, e.col)
      [] e.agg = "AVG" -> IF rows = << >> THEN <<0, 1>> ELSE <<Total(cols, rows, e.col), Len(rows)>>
      [] e.agg = "MIN" -> IF rows = << >> THEN 0 ELSE Min(ValuesOf(cols, rows, e.col))
      [] e.agg = "MAX" -> IF rows = << >> THEN 0 ELSE Max(ValuesOf(cols, rows, e.col))
      [] OTHER -> IF rows = << >> THEN 0 ELSE ValueIn(cols, rows[1], e.col)

extract_group_key(cols, group, row) == [i \in DOMAIN group |-> ValueIn(cols, row, group[i])]

(* the records by group; without GROUP BY there is always one group *)
GroupsOf(cols, group, rows) ==
    LET keys == {extract_group_key(cols, group, rows[i]) : i \in DOMAIN rows}
        Of(k) == SelectSeq(rows, LAMBDA row : extract_group_key(cols, group, row) = k)
        seq  == SetToSeq(keys)
    IN  IF group = << >> THEN <<rows>> ELSE [i \in DOMAIN seq |-> Of(seq[i])]

evaluate_having(cols, rows, having) ==
    having = NoHaving \/ Compares(compute_single_aggregation(cols, rows, having), having.op, having.val)

(* Group yields the groups that HAVING keeps. *)
Group(plan, C) ==
    LET Unknown == \/ \E i \in DOMAIN plan.group : get_col_idx(C.cols, plan.group[i]) = 0
                   \/ plan.having.agg \notin {"", "COUNT", "COUNT(*)"}
                      /\ get_col_idx(C.cols, plan.having.col) = 0
    IN  IF Raises(C) THEN C
        ELSE IF C.rows # << >> /\ Unknown THEN Raised("uncaught")
        ELSE [C EXCEPT !.shared = FALSE,
                       !.rows = SelectSeq(GroupsOf(C.cols, plan.group, C.rows),
                                          LAMBDA g : evaluate_having(C.cols, g, plan.having))]

-----------------------------------------------------------------------------
(* OptimizedAggregation.  An argument that the child's columns lack is an  *)
(* error, for SUM, MIN, MAX and a plain column when the executor is built, *)
(* for COUNT and AVG when a value is needed.                               *)
AggFails(plan, C, e) ==
    /\ e.agg # "COUNT(*)" /\ get_col_idx(C.cols, e.col) = 0
    /\ \/ e.agg \in {"", "SUM", "MIN", "MAX"}
       \/ C.rows # << >>
       \/ e.agg = "COUNT" /\ Len(plan.sel) = 1
       \/ e.agg = "AVG" /\ plan.child.node # "group"
          /\ \E i \in DOMAIN plan.sel : plan.sel[i].agg \in {"COUNT", "COUNT(*)"}

(* MIN or MAX of the last column of the index that is scanned *)
try_index_min_max(plan, C) ==
    /\ plan.child.node = "scan" /\ plan.child.index # << >> /\ C.rows # << >>
    /\ Len(plan.sel) = 1 /\ plan.sel[1].agg \in {"MIN", "MAX"}
    /\ plan.sel[1].col[2] = Last(plan.child.index)

AggCols(plan) == [i \in DOMAIN plan.sel |-> <<"", i>>]

(* Without GROUP BY the sum of an average is an INT, too, and then a float *)
compute_streaming_aggregation(plan, C) ==
    LET AvgOf(col) == <<AsFloat(SumOf(C.cols, C.rows, col), TypeOf(C.cols[get_col_idx(C.cols, col)])),
                        Len(C.rows)>>
        Value(e) == CASE e.agg = "" -> 0
                      [] e.agg = "AVG" /\ C.rows # << >> -> AvgOf(e.col)
                      [] OTHER -> compute_single_aggregation(C.cols, C.rows, e)
        first    == ValueIn(C.cols, C.rows[1], plan.sel[1].col)
        last     == ValueIn(C.cols, Last(C.rows), plan.sel[1].col)
    IN  CASE try_index_min_max(plan, C) -> <<[c \in {<<"", 1>>} |-> IF plan.sel[1].agg = "MIN" THEN first ELSE last]>>
          [] C.rows = << >> /\ ~ \E i \in DOMAIN plan.sel : plan.sel[i].agg \in {"COUNT", "COUNT(*)"} -> << >>
          [] OTHER -> <<[c \in ToSet(AggCols(plan)) |-> Value(plan.sel[c[2]])]>>

Aggregation(plan, C) ==
    LET OfGroup(g) == [c \in ToSet(AggCols(plan)) |->
                          compute_single_aggregation(C.cols, g, plan.sel[c[2]])]
    IN  IF Raises(C) THEN C
        ELSE IF \E i \in DOMAIN plan.sel : AggFails(plan, C, plan.sel[i]) THEN Raised("uncaught")
        ELSE [cols |-> AggCols(plan), shared |-> FALSE, err |-> "none",
              rows |-> IF plan.child.node = "group" THEN [i \in DOMAIN C.rows |-> OfGroup(C.rows[i])]
                       ELSE compute_streaming_aggregation(plan, C)]

(* Projection takes the columns of an aggregation in their order, others   *)
(* by name; its rows are the tuples of the answer.                         *)
Projection(plan, C) ==
    LET cols == IF plan.child.node = "agg" THEN C.cols ELSE plan.cols
    IN  IF Raises(C) THEN C
        ELSE IF \E i \in DOMAIN cols : Lacks(C.cols, cols[i]) THEN Failed
        ELSE [C EXCEPT !.rows = [i \in DOMAIN C.rows |-> [j \in DOMAIN cols |-> C.rows[i][cols[j]]]]]

(* convert_plan_executor and the loop over the root *)
RECURSIVE execute(_, _)
execute(plan, db) ==
    CASE plan.node = "scan" -> IF plan.index = << >> THEN SeqScan(plan, db[plan.tab])
                               ELSE IndexScan(plan, db[plan.tab])
      [] plan.node = "join"  -> NestedLoopJoin(plan, execute(plan.left, db), execute(plan.right, db))
      [] plan.node = "sort"  -> Sort(plan, execute(plan.child, db))
      [] plan.node = "group" -> Group(plan, execute(plan.child, db))
      [] plan.node = "agg"   -> Aggregation(plan, execute(plan.child, db))
      [] plan.node = "proj"  -> Projection(plan, execute(plan.child, db))
=============================================================================
