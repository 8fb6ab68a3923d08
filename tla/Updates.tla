------------------------------- MODULE Updates -------------------------------
(***************************************************************************)
(* UpdateExecutor: the records to update, the expressions of the SET       *)
(* clauses, the indexes, and the write set by which an abort takes the     *)
(* updates back.  A record of a table has its position as rid.  An index   *)
(* is a function from keys to rids; that the tree behaves like one is the  *)
(* subject of BPlusTree.                                                   *)
(*                                                                         *)
(* An expression is a record with field op: "lit" with val, a literal;     *)
(* "col" with name; "agg"; or "+", "-", "*", "/" with lhs and rhs.         *)
(* Quotients and products are cut off to quarters.                         *)
(***************************************************************************)
EXTENDS Executors

RidCol == <<"", "rid">>

(* Portal::start: the rids the scan yields, before any record is changed *)
rids(plan, rows) ==
    LET tagged   == [i \in DOMAIN rows |-> RidCol :> i @@ rows[i]]
        selected == IF plan.index = << >> THEN Filter(tagged, plan.conds) ELSE FromIndex(plan, tagged)
    IN  [i \in DOMAIN selected |-> selected[i][RidCol]]

-----------------------------------------------------------------------------
(* ExpressionEvaluator.  Its own errors are no RMDBErrors. *)
Number(type, num) == [type |-> type, num |-> num, err |-> "none"]

Uncaught == [type |-> "", num |-> 0, err |-> "uncaught"]

(* a column is found by its name alone *)
evaluate_column(name, tab, row) ==
    IF Lacks(ColsOf(tab), <<tab, name>>) THEN Uncaught
    ELSE Number(TypeOf(<<tab, name>>), row[<<tab, name>>])

(* An INT beside a FLOAT becomes a FLOAT. *)
convert_for_arithmetic(v, other) ==
    IF v.type = other.type THEN v ELSE Number("FLOAT", AsFloat(v.num, v.type))

(* INTs are divided as floats *)
divide_values(l, r) ==
    IF r.num = 0 THEN Uncaught
    ELSE Number("FLOAT", Quotient(Unit * AsFloat(l.num, l.type), AsFloat(r.num, r.type)))

Result(type, num) == Number(type, IF type = "INT" THEN Wrapped(num) ELSE num)

evaluate_arithmetic(op, left, right) ==
    LET l == convert_for_arithmetic(left, right)
        r == convert_for_arithmetic(right, left)
    IN  CASE Raises(left) -> left
          [] ~ Raises(left) /\ Raises(right) -> right
          [] OTHER -> CASE op = "+" -> Result(l.type, l.num + r.num)
                        [] op = "-" -> Result(l.type, l.num - r.num)
                        [] op = "*" -> Result(l.type, Quotient(l.num * r.num, Unit))
                        [] op = "/" -> divide_values(l, r)

RECURSIVE evaluate(_, _, _)
evaluate(e, tab, row) ==
    CASE e.op = "lit" -> Number(e.val.type, e.val.num)
      [] e.op = "col" -> evaluate_column(e.name, tab, row)
      [] e.op = "agg" -> Uncaught
      [] OTHER -> evaluate_arithmetic(e.op, evaluate(e.lhs, tab, row), evaluate(e.rhs, tab, row))

(* The value is converted to the type of the column. *)
evaluate_set_clause(clause, tab, row) ==
    LET v  == evaluate(clause.expr, tab, row)
        to == TypeOf(<<tab, clause.lhs>>)
    IN  IF Raises(v) THEN v ELSE Number(to, Converted(v.num, v.type, to))

(* The clauses are evaluated one after the other on the record that the    *)
(* ones before have changed.                                               *)
updated_record(tab, row, set) ==
    LET Apply(acc, clause) ==
            LET v == evaluate_set_clause(clause, tab, acc.row)
            IN  IF Raises(acc) THEN acc
                ELSE IF Raises(v) THEN [acc EXCEPT !.err = v.err]
                ELSE [acc EXCEPT !.row[<<tab, clause.lhs>>] = v.num]
    IN  FoldLeft(Apply, [row |-> row, err |-> "none"], set)

-----------------------------------------------------------------------------
(* The indexes of a table: a function from them to their entries. *)
IndexOf(tab, index, rows) ==
    LET Key(i) == IndexKey(tab, index, rows[i])
    IN  [k \in {Key(i) : i \in DOMAIN rows} |-> CHOOSE i \in DOMAIN rows : Key(i) = k]

is_unique(ih, key) == key \notin DOMAIN ih

insert_entry(ih, key, rid) == IF key \in DOMAIN ih THEN ih ELSE key :> rid @@ ih

delete_entry(ih, key) == Restrict(ih, DOMAIN ih \ {key})

need_update_index(tab, set) == \E index \in Indexes[tab] : ToSet(index) \cap SetCols(set) # {}

Write(type, index, rid, rec) == [type |-> type, index |-> index, rid |-> rid, rec |-> rec]

(* An index whose key changes: the new key may not be another record's,    *)
(* and the old one is removed; the new one comes after the record.         *)
replace_key(acc, index, rid, old, new) ==
    IF acc.dup \/ old = new THEN acc
    ELSE IF ~ is_unique(acc.ihs[index], new) /\ acc.ihs[index][new] # rid THEN [acc EXCEPT !.dup = TRUE]
    ELSE [acc EXCEPT !.ihs[index] = delete_entry(@, old), !.keys = Append(@, [index |-> index, key |-> new]),
                     !.writes = Append(@, Write("IX_DELETE_TUPLE", index, rid, old))]

(* the loop over tab_.indexes, in the order of that hash table *)
remove_keys(tab, order, ihs, rid, old, new) ==
    FoldLeft(LAMBDA acc, index : replace_key(acc, index, rid, IndexKey(tab, index, old), IndexKey(tab, index, new)),
             [ihs |-> ihs, keys |-> << >>, writes |-> << >>, dup |-> FALSE], order)

(* the loop over new_index_keys, after update_record_mvcc *)
insert_keys(acc, rid) ==
    FoldLeft(LAMBDA a, k : [a EXCEPT !.ihs[k.index] = insert_entry(@, k.key, rid),
                                     !.writes = Append(@, Write("IX_INSERT_TUPLE", k.index, rid, k.key))],
             acc, acc.keys)

-----------------------------------------------------------------------------
(* TransactionManager::abort on the rows and the indexes of a table *)
rollback_single_operation(t, w) ==
    CASE w.type = "UPDATE_TUPLE"    -> [t EXCEPT !.rows[w.rid] = w.rec]
      [] w.type = "IX_INSERT_TUPLE" -> [t EXCEPT !.ihs[w.index] = delete_entry(@, w.rec)]
      [] w.type = "IX_DELETE_TUPLE" -> [t EXCEPT !.ihs[w.index] = insert_entry(@, w.rec, w.rid)]

(* Mutant: the first write is undone first *)
rolled_back_Forward(t, writes) == FoldLeft(rollback_single_operation, t, writes)

rolled_back(t, writes) == FoldLeft(rollback_single_operation, t, Reverse(writes))
=============================================================================
