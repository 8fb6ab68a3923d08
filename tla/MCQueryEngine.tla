---------------------------- MODULE MCQueryEngine ----------------------------
(***************************************************************************)
(* Five tables: t1 with two indexes on its two columns, t2 with an index   *)
(* on a FLOAT, t3 with a column named as one of t1, t4 with an index that  *)
(* TPCCOptimizer prefers, t5 with INTs at the ends of their range, -32 and *)
(* 31, of which a float keeps those up to 16 and the even ones up to 32.   *)
(* The queries cover every form of condition, join, grouping and           *)
(* aggregate.                                                              *)
(***************************************************************************)
EXTENDS QueryEngine

INT(name)   == [name |-> name, type |-> "INT"]
FLOAT(name) == [name |-> name, type |-> "FLOAT"]

MCSchema  == "t1" :> <<INT("a"), INT("b")>> @@ "t2" :> <<FLOAT("c")>>
             @@ "t3" :> <<INT("a"), INT("d")>> @@ "t4" :> <<INT("e"), INT("f")>>
             @@ "t5" :> <<INT("g"), INT("h")>>
MCIndexes == "t1" :> {<<"a", "b">>, <<"b", "a">>} @@ "t2" :> {<<"c">>} @@ "t3" :> {} @@ "t4" :> {<<"e">>, <<"e", "f">>}
             @@ "t5" :> {<<"g">>}
MCPreferred == "t4" :> [needs |-> {"e"}, index |-> <<"e", "f">>]

Row1(x, y) == <<"t1", "a">> :> Unit * x @@ <<"t1", "b">> :> Unit * y
Row4(x, y) == <<"t4", "e">> :> Unit * x @@ <<"t4", "f">> :> Unit * y
Row3(x, y) == <<"t3", "a">> :> Unit * x @@ <<"t3", "d">> :> Unit * y
Row5(x, y) == <<"t5", "g">> :> Unit * x @@ <<"t5", "h">> :> Unit * y

Rows1 == {<< >>, <<Row1(2, 1)>>, <<Row1(2, 2), Row1(1, 1)>>, <<Row1(1, 2), Row1(2, 1)>>,
          <<Row1(2, 1), Row1(1, 2), Row1(1, 1)>>, <<Row1(1, 2), Row1(2, 2), Row1(2, 1)>>,
          <<Row1(3, 1), Row1(1, 3), Row1(2, 2), Row1(1, 1), Row1(2, 1)>>}
Rows2 == {<< >>, <<<<"t2", "c">> :> 6, <<"t2", "c">> :> 4>>}
Rows3 == {<< >>, <<Row3(1, 1), Row3(2, 1), Row3(1, 1)>>}

MCDatabases == {"t1" :> r1 @@ "t2" :> r2 @@ "t3" :> r3 @@
                "t4" :> <<Row4(2, 1), Row4(1, 1)>> @@
                "t5" :> <<Row5(IntMax, 29), Row5(IntMin, 28), Row5(30, -1)>> : r1 \in Rows1, r2 \in Rows2, r3 \in Rows3}

-----------------------------------------------------------------------------
Lit(n)  == [type |-> "INT", num |-> Unit * n]
Real(n) == [type |-> "FLOAT", num |-> n]
Val(col, op, v) == [lhs |-> col, op |-> op, is_val |-> TRUE, val |-> v, rhs |-> <<"", "">>]
Cmp(c, op, d)   == [lhs |-> c, op |-> op, is_val |-> FALSE, val |-> Lit(0), rhs |-> d]

A == <<"", "a">>    B == <<"", "b">>    C == <<"", "c">>    D == <<"", "d">>    E == <<"", "e">>
F == <<"", "f">>    G == <<"", "g">>    H == <<"", "h">>
A1 == <<"t1", "a">> A3 == <<"t3", "a">> X == <<"x", "a">>   Y == <<"y", "a">>

Plain(col)   == [agg |-> "", col |-> col]
Agg(f, col)  == [agg |-> f, col |-> col]
CountAll     == [agg |-> "COUNT(*)", col |-> <<"", "">>]
Asc(col)     == [col |-> col, desc |-> FALSE]
Desc(col)    == [col |-> col, desc |-> TRUE]

From(tabs) == [i \in DOMAIN tabs |-> [table |-> tabs[i], alias |-> ""]]

Select(sel, tabs, where) ==
    [kind |-> "select", tabs |-> From(tabs), semi |-> FALSE, sel |-> sel, set |-> << >>, conds |-> where,
     group |-> << >>, having |-> NoHaving, order |-> << >>, limit |-> -1]

Update(tab, where, set) == [Select(<< >>, <<tab>>, where) EXCEPT !.kind = "update", !.set = set]
Delete(where) == [Select(<< >>, <<"t1">>, where) EXCEPT !.kind = "delete"]

One == <<"t1">>

(* SET clauses *)
Set(name, e)  == [lhs |-> name, expr |-> e]
ValE(v)       == [op |-> "lit", val |-> v]
ColE(name)    == [op |-> "col", name |-> name]
Op(l, op, r)  == [op |-> op, lhs |-> l, rhs |-> r]
Two           == ValE(Lit(2))

Sets1 == {<<Set("b", ValE(Lit(1)))>>,
          <<Set("b", Op(ColE("a"), "/", Two))>>, <<Set("b", Op(Two, "/", Op(ColE("b"), "-", Two)))>>,
          <<Set("a", Op(Op(ColE("b"), "*", Two), "+", ColE("a"))), Set("b", ValE(Real(-6)))>>,
          <<Set("a", ValE(Lit(5))), Set("b", Op(ColE("a"), "+", ColE("b")))>>,
          <<Set("b", ColE("e"))>>, <<Set("b", [op |-> "agg"])>>}

Sets4 == {<<Set("f", Op(ColE("e"), "*", Two))>>, <<Set("e", Op(ColE("e"), "+", ValE(Lit(1))))>>,
          <<Set("e", Op(ColE("e"), "-", ValE(Lit(1))))>>, <<Set("e", ValE(Lit(1))), Set("f", Two)>>,
          <<Set("e", Op(ValE(Lit(3)), "-", ColE("e")))>>, <<Set("e", ColE("e"))>>}

Updates2 == {Update("t2", << >>, <<Set("c", Op(ColE("c"), "/", Two))>>),
             Update("t2", <<Val(C, ">", Real(4))>>, <<Set("c", ValE(Lit(1)))>>),
             Update("t2", <<Val(C, ">", Real(4))>>, <<Set("c", Op(ColE("c"), "-", Two))>>),
             Update("t3", << >>, <<Set("d", Op(ColE("a"), "-", Two)), Set("a", Two)>>),
             Update("t1", << >>, <<Set("z", Two)>>)}

(* conditions on one table: equalities, ranges on one and two columns, strict and not *)
Conds1 ==
    {<< >>, <<Val(A, "=", Lit(1))>>, <<Val(A, ">=", Lit(2))>>, <<Val(A, ">", Lit(1)), Val(A, "<=", Lit(2))>>,
     <<Val(A, "=", Lit(2)), Val(B, "<", Lit(2))>>, <<Val(A, ">=", Lit(1)), Val(B, ">=", Lit(2))>>,
     <<Val(B, "<=", Lit(1)), Val(A, "<", Lit(3))>>, <<Val(A, "<>", Lit(1)), Val(B, "=", Lit(1))>>,
     <<Val(A, ">=", Lit(1)), Val(A, ">=", Lit(2))>>, <<Val(A, "=", Lit(1)), Val(B, "<>", Lit(1))>>,
     <<Val(A, ">", Lit(2)), Val(A, "<", Lit(2))>>, <<Val(A, ">", Real(6))>>, <<Val(A, ">=", Real(-6))>>,
     <<Val(A, ">=", Lit(1)), Val(B, ">", Lit(1)), Val(A, "<=", Lit(2))>>, <<Cmp(A, "=", B)>>}

Conds4 == {<<Val(E, "<>", Lit(1))>>, <<Val(F, "=", Lit(1))>>, <<Val(E, "=", Lit(2)), Val(F, "<", Lit(2))>>}

Conds2 == {<<Val(C, ">", Real(4))>>, <<Val(C, ">=", Real(6))>>, <<Val(C, "<=", Lit(1))>>}

Joins ==
    {Select(<<Plain(B), Plain(C)>>, <<"t1", "t2">>, <<Cmp(A, "=", C)>>),
     Select(<<Plain(B)>>, <<"t1", "t2">>, <<Cmp(C, "<", A), Val(B, "=", Lit(1))>>),
     Select(<<Plain(B)>>, <<"t1", "t2">>, <<Cmp(A, "=", C), Val(A, "=", Lit(1))>>),
     Select(<<Plain(C)>>, <<"t1", "t2">>, <<Cmp(A, "=", C), Val(C, "=", Real(4))>>),
     Select(<< >>, <<"t1", "t3">>, << >>), Select(<< >>, <<"t3">>, <<Val(D, "<", Real(6))>>),
     Select(<< >>, <<"t3">>, <<Val(D, ">", Real(-6))>>),
     Select(<<Plain(B), Plain(D)>>, <<"t3", "t1">>, <<Cmp(A1, "=", A3), Cmp(D, ">=", B)>>),
     Select(<<Plain(B)>>, <<"t1", "t3", "t4">>, <<Cmp(A1, "=", A3), Cmp(D, "=", E), Val(E, "=", Lit(1))>>),
     Select(<<Plain(B)>>, <<"t1", "t3", "t4">>, <<Cmp(A1, "<", E), Cmp(E, ">", A3), Cmp(A3, ">=", A1)>>),
     Select(<<Plain(B), Plain(C)>>, <<"t1", "t2", "t4">>, <<Cmp(E, "=", A)>>),
     Select(<<Plain(B)>>, <<"t1", "t4">>, <<Cmp(A, "<", E), Val(E, "=", Lit(2))>>),
     Select(<<Plain(B)>>, <<"t1", "t2", "t3", "t4">>, <<Cmp(A1, "=", C), Cmp(D, "=", E)>>),
     Select(<<Plain(B)>>, <<"t1", "t3">>, <<Cmp(A3, "=", D), Cmp(A1, "=", A3)>>),
     [Select(<<Plain(B)>>, <<"t1", "t3">>, <<Cmp(A1, "=", A3)>>) EXCEPT !.semi = TRUE],
     [Select(<<Plain(X), Plain(D)>>, <<"t1", "t3">>, <<Cmp(X, "<>", Y)>>)
        EXCEPT !.tabs = <<[table |-> "t1", alias |-> "x"], [table |-> "t3", alias |-> "y"]>>]}

Aggregates ==
    {Select(<<CountAll>>, One, <<Val(A, "=", Lit(1))>>),
     Select(<<Agg("COUNT", A)>>, One, << >>),
     Select(<<Agg("SUM", B), Agg("AVG", A), CountAll>>, One, << >>),
     Select(<<Agg("MIN", B), Agg("MAX", B)>>, One, << >>),
     Select(<<Agg("MAX", B)>>, One, <<Val(A, "=", Lit(2))>>),
     Select(<<Agg("MIN", B)>>, One, <<Val(A, ">=", Lit(1))>>),
     Select(<<Agg("MAX", C)>>, <<"t2">>, <<Val(C, ">=", Real(4))>>),
     Select(<<Plain(A), CountAll>>, One, << >>),
     [Select(<<Plain(A), CountAll, Agg("MAX", A)>>, One, << >>) EXCEPT !.group = <<A>>],
     [Select(<<Plain(A), CountAll>>, One, << >>) EXCEPT !.group = <<A1>>],
     [Select(<<Plain(A), Agg("SUM", B)>>, One, << >>) EXCEPT !.group = <<A>>],
     [Select(<<Plain(A), CountAll>>, One, << >>)
        EXCEPT !.group = <<A>>, !.having = [agg |-> "COUNT(*)", col |-> <<"", "">>, op |-> ">", val |-> Unit]],
     [Select(<<Agg("SUM", A)>>, One, << >>)
        EXCEPT !.having = [agg |-> "SUM", col |-> B, op |-> ">", val |-> 2 * Unit]],
     [Select(<<Plain(A), Agg("MIN", B), Plain(B)>>, One, << >>) EXCEPT !.group = <<A, B>>],
     [Select(<<Plain(D), CountAll>>, <<"t1", "t3">>, <<Cmp(A1, "=", A3)>>) EXCEPT !.group = <<D>>],
     [Select(<<Plain(B), CountAll>>, One, << >>) EXCEPT !.group = <<A>>]}

(* the ends of the range of an INT, and numbers that a float does not keep *)
Conds5 ==
    {<<Val(G, op, Lit(n))>> : op \in {">", ">=", "<", "<=", "="}, n \in {IntMin, 30, IntMax}}
    \union {<<Val(H, "=", Lit(29))>>, <<Val(H, "<", Lit(29))>>, <<Val(H, ">=", Lit(10))>>, <<Cmp(G, ">", H)>>,
            <<Val(G, "=", Lit(30)), Val(H, "<=", Lit(0))>>, <<Val(G, "<", Lit(31)), Val(H, "<", Lit(29))>>}

Edges ==
    {Select(<< >>, <<"t5">>, c) : c \in Conds5}
    \union {Select(<<Agg(f, col)>>, <<"t5">>, c) :
               f \in {"SUM", "AVG"}, col \in {G, H}, c \in {<< >>, <<Val(G, "<", Lit(IntMax))>>}}
    \union {[Select(<<Plain(G), Agg(f, H)>>, <<"t5">>, << >>) EXCEPT !.group = <<G>>] : f \in {"SUM", "AVG"}}
    \union {Update("t5", c, <<Set(name, e)>>) :
               c \in {<<Val(G, ">=", Lit(30))>>, <<Val(H, ">", Lit(0))>>}, name \in {"g", "h"},
               e \in {Op(ColE("g"), "+", ValE(Lit(1))), Op(ColE("h"), "+", ColE("h")),
                      Op(ColE("h"), "/", ValE(Lit(1))), Op(ColE("h"), "-", ValE(Real(2)))}}

(* a comparison within a table that another one gets, and one whose        *)
(* conditions before it hold for no row                                    *)
Misplaced ==
    {Select(<<Plain(D)>>, <<"t1", "t3">>, <<Cmp(A3, "=", D), Val(A1, "=", Lit(1))>>),
     Select(<<Plain(D)>>, <<"t3", "t1">>, <<Val(A3, "=", Lit(9)), Cmp(A1, "=", B)>>),
     Select(<<Plain(D)>>, <<"t3", "t1">>, <<Val(A3, "=", Lit(1)), Cmp(A1, "=", B)>>)}

Sorts ==
    {[Select(<<Plain(A), Plain(B)>>, One, << >>) EXCEPT !.order = <<Desc(B), Asc(A)>>],
     [Select(<<Plain(A)>>, One, << >>) EXCEPT !.order = <<Asc(B)>>],
     [Select(<< >>, One, << >>) EXCEPT !.limit = 1],
     [Select(<<Plain(A), CountAll>>, One, << >>) EXCEPT !.group = <<A>>, !.order = <<Asc(B)>>]}

Wrong == {Select(<<Plain(A)>>, <<"t1", "t3">>, << >>), Select(<<Plain(E)>>, One, << >>),
          Select(<<Plain(A)>>, <<"t9">>, << >>), Select(<<Plain(A)>>, One, <<Cmp(A, "=", E)>>)}

MCQueries ==
    {Select(<<Plain(A), Plain(B)>>, One, c) : c \in Conds1} \union {Select(<<Plain(B)>>, One, c) : c \in Conds1}
    \union {Select(<< >>, <<"t2">>, c) : c \in Conds2} \union {Select(<< >>, <<"t4">>, c) : c \in Conds4}
    \union Joins \union Aggregates \union Sorts \union Wrong \union Edges \union Misplaced
    \union {Update("t1", c, <<Set("b", Op(ColE("b"), "+", ValE(Lit(3))))>>) : c \in Conds1}
    \union {Update("t1", c, set) : c \in {<< >>, <<Val(A, ">=", Lit(2))>>}, set \in Sets1} \union Updates2
    \union {Update("t4", c, set) : c \in Conds4 \union {<<Val(E, op, Lit(1))>> : op \in {">", "<="}} \union {<< >>},
                                  set \in Sets4}
    \union {Delete(c) : c \in Conds1}
=============================================================================
