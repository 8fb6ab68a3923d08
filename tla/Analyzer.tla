------------------------------ MODULE Analyzer ------------------------------
(***************************************************************************)
(* Analyze: names are resolved and the rules of the SELECT statement       *)
(* checked.  A column is a pair of a table and a name; the parser leaves   *)
(* the table "" where the statement does not say it.  A literal is a       *)
(* number with its type; numbers count quarters, so that 4 is the INT 1.   *)
(* An INT has its width and a float the precision to which it keeps an     *)
(* INT; fractions are quarters and exact.  Columns of strings are left out. *)
(*                                                                         *)
(* A SELECT is a record:                                                   *)
(*   tabs    sequence of [table, alias]       semi   is it a SEMI JOIN?    *)
(*   sel     sequence of [agg, col]; agg is "" for a plain column          *)
(*   conds   sequence of [lhs, op, is_val, val, rhs], JOIN ... ON included *)
(*   group   sequence of columns              having [agg, col, op, val]   *)
(*   order   sequence of [col, desc]          limit  -1 if there is none   *)
(* An UPDATE or DELETE has one table and conds; an UPDATE has set, its     *)
(* sequence of clauses [lhs, expr]: the name of a column and an expression *)
(* (module Updates).                                                       *)
(***************************************************************************)
EXTENDS Integers, Sequences, FiniteSets, SequencesExt

CONSTANTS Schema,     \* for every table its sequence of columns [name, type]
          IntBits,    \* width of an INT: 32 in the code
          FloatBits   \* precision of a FLOAT: 24 in the code

ASSUME Widths == IntBits \in Nat /\ FloatBits \in 1 .. (IntBits - 2)

NoHaving == [agg |-> "", col |-> <<"", "">>, op |-> "=", val |-> 0]

Unit == 4

IntMin == -(2 ^ (IntBits - 1))
IntMax == 2 ^ (IntBits - 1) - 1

Abs(n) == IF n < 0 THEN -n ELSE n

Sign(n) == IF n < 0 THEN -1 ELSE 1

(* division toward zero *)
Quotient(n, d) == Sign(n) * Sign(d) * (Abs(n) \div Abs(d))

(* the distance of the floats around an integer beyond 2 ^ FloatBits *)
Step(n) == 2 ^ (CHOOSE k \in 1 .. IntBits : n \div (2 ^ k) \in 2 ^ (FloatBits - 1) .. (2 ^ FloatBits - 1))

(* the nearest multiple of step, of two the even one *)
Nearest(n, step) == step * ((n + (step \div 2) - 1 + ((n \div step) % 2)) \div step)

(* static_cast<float> of an INT *)
ToFloat(num) ==
    IF Abs(num) < Unit * 2 ^ FloatBits THEN num
    ELSE Sign(num) * Unit * Nearest(Abs(num) \div Unit, Step(Abs(num) \div Unit))

(* static_cast<int> of a FLOAT: toward zero; out of range, what x86 gives *)
ToInt(num) ==
    LET n == Quotient(num, Unit) IN Unit * IF n \in IntMin .. IntMax THEN n ELSE IntMin

AsFloat(num, type) == IF type = "INT" THEN ToFloat(num) ELSE num

Converted(num, from, to) ==
    IF from = to THEN num ELSE IF to = "INT" THEN ToInt(num) ELSE ToFloat(num)

(* INT arithmetic wraps around. *)
Wrapped(num) == Unit * ((((num \div Unit) - IntMin) % (2 ^ IntBits)) + IntMin)

(* the column list of a table, and get_all_cols of several *)
ColsOf(tab) == [i \in DOMAIN Schema[tab] |-> <<tab, Schema[tab][i].name>>]

get_all_cols(tabs) == FlattenSeq([i \in DOMAIN tabs |-> ColsOf(tabs[i])])

TypeOf(col) == LET i == CHOOSE i \in DOMAIN Schema[col[1]] : Schema[col[1]][i].name = col[2]
               IN  Schema[col[1]][i].type

(* extract_table_aliases: two tables may not have one alias *)
AliasesDiffer(tabs) ==
    \A i, j \in DOMAIN tabs : tabs[i].alias = tabs[j].alias /\ tabs[i].alias # "" => i = j

resolve_table_alias_name(tabs, col) ==
    LET named == {i \in DOMAIN tabs : tabs[i].alias = col[1] /\ col[1] # ""}
    IN  IF named = {} THEN col ELSE <<tabs[CHOOSE i \in named : TRUE].table, col[2]>>

resolve_aliases(q) ==
    LET Name(c) == resolve_table_alias_name(q.tabs, c)
    IN  [q EXCEPT !.sel   = [i \in DOMAIN @ |-> [@[i] EXCEPT !.col = Name(@)]],
                  !.conds = [i \in DOMAIN @ |-> [@[i] EXCEPT !.lhs = Name(@), !.rhs = Name(@)]],
                  !.group = [i \in DOMAIN @ |-> Name(@[i])],
                  !.having.col = Name(@),
                  !.order = [i \in DOMAIN @ |-> [@[i] EXCEPT !.col = Name(@)]]]

-----------------------------------------------------------------------------
(* check_column: a column without a table must be in one table only. *)
Candidates(all, col) ==
    {i \in DOMAIN all : all[i][2] = col[2] /\ (col[1] = "" \/ all[i][1] = col[1])}

Resolves(all, col) ==
    IF col[1] = "" THEN Cardinality(Candidates(all, col)) = 1 ELSE Candidates(all, col) # {}

check_column(all, col) == all[CHOOSE i \in Candidates(all, col) : TRUE]

(* the comparison of names that ignores a table that is not given *)
names_match(c, d) == c[2] = d[2] /\ (c[1] = "" \/ d[1] = "" \/ c[1] = d[1])

Grouped(q, col) == \E i \in DOMAIN q.group : names_match(col, q.group[i])

HasAggregation(q) == \E i \in DOMAIN q.sel : q.sel[i].agg # ""

(* Is the column of a SELECT looked up in the tables?  In a query with     *)
(* aggregates only a grouping column is, or, without GROUP BY, one that    *)
(* exists.                                                                 *)
IsTableCol(q, all, e) ==
    /\ e.agg = ""
    /\ HasAggregation(q) =>
         IF q.group # << >>
           THEN \E i \in DOMAIN q.group : q.group[i][2] = e.col[2]
           ELSE \E i \in DOMAIN all : all[i][2] = e.col[2]

check_agg_expr(all, e) == e.agg \in {"", "COUNT(*)"} \/ Candidates(all, e.col) # {}

(* A plain column of a query with GROUP BY is grouped by. *)
check_group_by_semantics(q) ==
    q.group # << >> => \A i \in DOMAIN q.sel : q.sel[i].agg = "" => Grouped(q, q.sel[i].col)

(* An ORDER BY column exists and, with GROUP BY, is grouped by or the      *)
(* argument of an aggregate.                                               *)
check_order_by_semantics(q, all) ==
    \A i \in DOMAIN q.order :
        /\ Resolves(all, q.order[i].col)
        /\ \/ q.group = << >>
           \/ Grouped(q, q.order[i].col)
           \/ \E j \in DOMAIN q.sel : q.sel[j].agg \notin {"", "COUNT(*)"}
                                      /\ names_match(q.order[i].col, q.sel[j].col)

-----------------------------------------------------------------------------
(* check_clause: the raw bytes of a literal are made from it as it was     *)
(* written; then its value is converted to the type of the column.         *)
check_clause(all, c) ==
    LET lhs == check_column(all, c.lhs)
        to  == TypeOf(lhs)
    IN  [c EXCEPT !.lhs = lhs,
                  !.rhs = IF c.is_val THEN @ ELSE check_column(all, @),
                  !.val = IF ~ c.is_val THEN @
                          ELSE [type |-> to, raw |-> [type |-> @.type, num |-> @.num],
                                num  |-> Converted(@.num, @.type, to)]]

ClauseIsLegal(all, c) == Resolves(all, c.lhs) /\ (c.is_val \/ Resolves(all, c.rhs))

(* A FLOAT read as an INT is a large number of its sign, an INT read as a  *)
(* FLOAT a tiny one; 0 is 0.  A negative INT would read as a NaN: the      *)
(* statements have none there.                                             *)
Huge == Unit * 2 ^ (IntBits - 2)
Tiny == 1

Reads(raw, type) ==
    CASE raw.type = type \/ raw.num = 0 -> raw.num
      [] raw.type # type /\ raw.num # 0 /\ type = "INT" -> IF raw.num < 0 THEN -Huge ELSE Huge
      [] OTHER -> Tiny

Tables(q) == [i \in DOMAIN q.tabs |-> q.tabs[i].table]

(* The columns SELECT can name: of a SEMI JOIN only those of the left one  *)
SelectCols(q) == IF q.semi THEN ColsOf(q.tabs[1].table) ELSE get_all_cols(Tables(q))

(* do_analyze rejects a query, with an error to the client, or ... *)
Accepted(query) ==
    /\ \A i \in DOMAIN query.tabs : query.tabs[i].table \in DOMAIN Schema
    /\ AliasesDiffer(query.tabs)
    /\ LET q   == resolve_aliases(query)
           all == SelectCols(q)
       IN  /\ \A i \in DOMAIN q.sel :
                 /\ IsTableCol(q, all, q.sel[i]) => Resolves(all, q.sel[i].col)
                 /\ q.sel[i].agg = "" /\ ~ HasAggregation(q) => Resolves(all, q.sel[i].col)
                 /\ check_agg_expr(all, q.sel[i])
           /\ check_group_by_semantics(q)
           /\ check_order_by_semantics(q, all)
           /\ \A i \in DOMAIN q.set : Resolves(all, <<q.tabs[1].table, q.set[i].lhs>>)
           /\ \A i \in DOMAIN q.conds : ClauseIsLegal(get_all_cols(Tables(q)), q.conds[i])

(* ... returns it with cols, the columns of the result, and its conditions *)
(* resolved.  GROUP BY, HAVING and ORDER BY stay as they were written.     *)
do_analyze(query) ==
    LET q   == resolve_aliases(query)
        all == SelectCols(q)
        Col(e) == IF e.agg # "" THEN <<"", e.agg>>
                  ELSE IF IsTableCol(q, all, e) THEN check_column(all, e.col) ELSE e.col
    IN  [kind |-> q.kind, tables |-> Tables(q), semi |-> q.semi, sel |-> q.sel, set |-> q.set,
         cols |-> IF q.sel = << >> THEN all ELSE [i \in DOMAIN q.sel |-> Col(q.sel[i])],
         conds |-> [i \in DOMAIN q.conds |-> check_clause(get_all_cols(Tables(q)), q.conds[i])],
         group |-> q.group, having |-> q.having, order |-> q.order, limit |-> q.limit]
=============================================================================
