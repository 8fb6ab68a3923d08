----------------------------- MODULE QueryEngine -----------------------------
(***************************************************************************)
(* One session's statements on their way from the parser to the result:    *)
(* analyzed, planned step by step and executed.  An UPDATE is executed     *)
(* record by record.  It is either taken back, and the session goes on, or *)
(* committed, and then it is the last statement: so the tables a statement *)
(* finds are always those of the start.                                    *)
(***************************************************************************)
EXTENDS Updates

CONSTANTS Queries,      \* the statements the parser hands over
          Databases     \* contents of the tables: functions from tables to sequences of rows

VARIABLES start,    \* the tables as the session finds them
          db,       \* the tables now
          ihs,      \* for every table its indexes with their entries
          query, pc,
          q,        \* the Query of the analyzer
          conds,    \* its conditions that make_one_rel has not placed
          scans,    \* table_scan_executors
          plan,     \* the tree so far
          result,   \* what the executors yielded
          todo,     \* UPDATE: the rids it has not reached,
          order,    \*   the order of the hash table tab_.indexes
          writes    \*   and the write set of its transaction

tables == <<start, db, ihs>>
update == <<todo, order, writes>>
vars == <<tables, query, pc, q, conds, scans, plan, result, update>>

None == [node |-> "none"]

Init ==
    /\ db \in Databases
    /\ start = db
    /\ ihs = [tab \in DOMAIN db |-> [index \in Indexes[tab] |-> IndexOf(tab, index, db[tab])]]
    /\ pc = "idle"
    /\ todo = << >> /\ order = << >> /\ writes = << >>
    /\ query = None /\ q = None /\ conds = << >> /\ scans = << >> /\ plan = None
    /\ result = Failed

Receive(s) ==
    /\ pc = "idle"
    /\ query' = s
    /\ pc' = "parsed"
    /\ UNCHANGED <<tables, update, q, conds, scans, plan, result>>

Analyze ==
    /\ pc = "parsed"
    /\ Accepted(query)
    /\ q' = do_analyze(query)
    /\ conds' = q'.conds
    /\ pc' = IF query.kind = "select" THEN "optimize" ELSE "dml"
    /\ UNCHANGED <<tables, update, query, scans, plan, result>>

Reject ==
    /\ pc = "parsed"
    /\ ~ Accepted(query)
    /\ pc' = "rejected"
    /\ UNCHANGED <<tables, update, query, q, conds, scans, plan, result>>

(* logical_optimization: the new conditions come in the order of a hash table *)
LogicalOptimization ==
    /\ pc = "optimize"
    /\ \E new \in SetToSeqs(propagated(q.conds)) :
          /\ q' = [q EXCEPT !.conds = @ \o new]
          /\ conds' = conds \o new
    /\ pc' = "scan"
    /\ UNCHANGED <<tables, update, query, scans, plan, result>>

(* what a dangling pointer reads is an equality, a range or neither *)
StaleOps == {"=", "<", "<>"}

MakeScan ==
    /\ pc = "scan" /\ Len(scans) < Len(q.tables)
    /\ LET tab == q.tables[Len(scans) + 1]
           pop == pop_conds(conds, tab)
       IN  /\ \E stale \in [Dangling(ApplicableConds(pop.taken, tab)) -> StaleOps] :
                 \E index \in get_index_cols(tab, pop.taken, stale) :
                    scans' = Append(scans, ScanPlan(tab, pop.taken, index, col_usage(q, tab)))
           /\ conds' = pop.left
    /\ UNCHANGED <<tables, update, query, pc, q, plan, result>>

ScansMade == pc = "scan" /\ Len(scans) = Len(q.tables)

MakeFirstJoin ==
    /\ ScansMade /\ plan = None /\ conds # << >>
    /\ plan' = FirstJoin(scans, Head(conds))
    /\ conds' = Tail(conds)
    /\ UNCHANGED <<tables, update, query, pc, q, scans, result>>

MakeNextJoin ==
    /\ ScansMade /\ plan # None /\ conds # << >>
    /\ plan' = NextJoin(scans, plan, Head(conds))
    /\ conds' = Tail(conds)
    /\ UNCHANGED <<tables, update, query, pc, q, scans, result>>

StartFromScan ==
    /\ ScansMade /\ plan = None /\ conds = << >>
    /\ plan' = scans[1]
    /\ UNCHANGED <<tables, update, query, pc, q, conds, scans, result>>

MakeCrossJoin ==
    /\ ScansMade /\ plan # None /\ conds = << >> /\ Remaining(scans, plan) # {}
    /\ plan' = CrossJoin(scans, plan)
    /\ UNCHANGED <<tables, update, query, pc, q, conds, scans, result>>

GenerateSelectPlan ==
    /\ ScansMade /\ plan # None /\ conds = << >> /\ Remaining(scans, plan) = {}
    /\ plan' = generate_select_plan(q, generate_sort_plan(q, plan))
    /\ pc' = "run"
    /\ UNCHANGED <<tables, update, query, q, conds, scans, result>>

(* do_planner for UPDATE and DELETE *)
PlanDml ==
    /\ pc = "dml"
    /\ LET tab == q.tables[1]
       IN  \E stale \in [Dangling(ApplicableConds(conds, tab)) -> StaleOps] :
              \E index \in get_index_cols(tab, conds, stale) :
                 plan' = ScanPlan(tab, conds, update_scan(q, index), << >>)
    /\ scans' = <<plan'>>
    /\ pc' = "run"
    /\ UNCHANGED <<tables, update, query, q, conds, result>>

(* Portal: the executors are built and run.  An RMDBError ends the         *)
(* statement, another exception the server.                                *)
After(err) == CASE err = "none" -> "done" [] err = "RMDBError" -> "failed" [] err = "uncaught" -> "dead"

Execute ==
    /\ pc = "run" /\ query.kind # "update"
    /\ result' = execute(plan, db)
    /\ pc' = After(result'.err)
    /\ UNCHANGED <<tables, update, query, q, conds, scans, plan>>

(* Portal::start of an UPDATE scans first *)
StartUpdate ==
    /\ pc = "run" /\ query.kind = "update"
    /\ result' = execute(plan, db)
    /\ pc' = IF Raises(result') THEN After(result'.err) ELSE "update"
    /\ todo' = IF Raises(result') THEN << >> ELSE rids(plan, db[plan.tab])
    /\ order' \in SetToSeqs(Indexes[plan.tab])
    /\ UNCHANGED <<tables, writes, query, q, conds, scans, plan>>

UpdatedAt(rid) == updated_record(plan.tab, db[plan.tab][rid], q.set)

(* the keys the record loses, and that another record has the new one *)
RemovedAt(rid) ==
    remove_keys(plan.tab, IF need_update_index(plan.tab, q.set) THEN order ELSE << >>,
                ihs[plan.tab], rid, db[plan.tab][rid], UpdatedAt(rid).row)

(* UpdateExecutor::Next, one record *)
UpdateRow ==
    /\ pc = "update" /\ todo # << >>
    /\ LET tab     == plan.tab
           rid     == Head(todo)
           new     == UpdatedAt(rid)
           removed == RemovedAt(rid)
           done    == insert_keys(removed, rid)
       IN  /\ ~ Raises(new) /\ ~ removed.dup
           /\ db' = [db EXCEPT ![tab][rid] = new.row]
           /\ ihs' = [ihs EXCEPT ![tab] = done.ihs]
           /\ writes' = writes \o done.writes \o <<Write("UPDATE_TUPLE", << >>, rid, db[tab][rid])>>
    /\ todo' = Tail(todo)
    /\ UNCHANGED <<start, order, query, pc, q, conds, scans, plan, result>>

(* UniqueCheckError: the keys that were removed for this record stay       *)
(* removed, with their entries in the write set.                           *)
UpdateMeetsDuplicate ==
    /\ pc = "update" /\ todo # << >>
    /\ LET removed == RemovedAt(Head(todo))
       IN  /\ ~ Raises(UpdatedAt(Head(todo))) /\ removed.dup
           /\ ihs' = [ihs EXCEPT ![plan.tab] = removed.ihs]
           /\ writes' = writes \o removed.writes
    /\ pc' = After("RMDBError")
    /\ UNCHANGED <<start, db, todo, order, query, q, conds, scans, plan, result>>

UpdateCannotEvaluate ==
    /\ pc = "update" /\ todo # << >>
    /\ Raises(UpdatedAt(Head(todo)))
    /\ pc' = After(UpdatedAt(Head(todo)).err)
    /\ UNCHANGED <<tables, update, query, q, conds, scans, plan, result>>

FinishUpdate ==
    /\ pc = "update" /\ todo = << >>
    /\ pc' = "done"
    /\ UNCHANGED <<tables, update, query, q, conds, scans, plan, result>>

Reset ==
    /\ pc' = "idle"
    /\ query' = None /\ q' = None /\ conds' = << >> /\ scans' = << >> /\ plan' = None
    /\ result' = Failed
    /\ todo' = << >> /\ order' = << >> /\ writes' = << >>
    /\ UNCHANGED start

UpdateOver == pc \in {"done", "failed"} /\ query.kind = "update"

Reply ==
    /\ pc \in {"rejected", "failed", "done"} /\ ~ UpdateOver
    /\ Reset
    /\ UNCHANGED <<db, ihs>>

(* The end of the transaction an UPDATE is in.  After an RMDBError an      *)
(* implicit one is committed; in a block the client decides.               *)
Commit ==
    /\ UpdateOver
    /\ pc' = "closed"
    /\ UNCHANGED <<tables, update, query, q, conds, scans, plan, result>>

Abort ==
    /\ UpdateOver
    /\ LET tab == q.tables[1]
           t   == rolled_back([rows |-> db[tab], ihs |-> ihs[tab]], writes)
       IN  /\ db' = [db EXCEPT ![tab] = t.rows]
           /\ ihs' = [ihs EXCEPT ![tab] = t.ihs]
    /\ Reset

(* the session or the server is gone *)
Ended == pc \in {"closed", "dead"} /\ UNCHANGED vars

Next ==
    \/ \E s \in Queries : Receive(s)
    \/ Analyze \/ Reject \/ LogicalOptimization \/ MakeScan \/ MakeFirstJoin \/ MakeNextJoin
    \/ StartFromScan \/ MakeCrossJoin \/ GenerateSelectPlan \/ PlanDml \/ Execute \/ Reply
    \/ StartUpdate \/ UpdateRow \/ UpdateMeetsDuplicate \/ UpdateCannotEvaluate \/ FinishUpdate
    \/ Commit \/ Abort \/ Ended

Spec == Init /\ [][Next]_vars

-----------------------------------------------------------------------------
(* What SQL says.  The rows of the FROM clause, filtered, grouped, ... *)
Product(tabs) ==
    FoldLeft(LAMBDA rows, tab : FlattenSeq([i \in DOMAIN rows |->
                                   [j \in DOMAIN start[tab] |-> rows[i] @@ start[tab][j]]]),
             <<[c \in {} |-> 0]>>, tabs)

(* a condition as it is written: the columns resolved, the literal as it is *)
Holds(row, resolved, written) ==
    Compares(row[resolved.lhs], resolved.op,
             IF resolved.is_val THEN written.val.num ELSE row[resolved.rhs])

WhereRows(a) ==
    SelectSeq(Product(a.tables),
              LAMBDA row : \A i \in DOMAIN a.conds : Holds(row, a.conds[i], query.conds[i]))

TheCol(a, c) == LET all == get_all_cols(a.tables) IN all[CHOOSE i \in Candidates(all, c) : TRUE]

Measure(a, rows, e) ==
    LET V == {rows[i][TheCol(a, e.col)] : i \in DOMAIN rows}
        Count(v) == Cardinality({i \in DOMAIN rows : rows[i][TheCol(a, e.col)] = v})
        Sum == FoldSet(LAMBDA v, n : n + v * Count(v), 0, V)
    IN  CASE e.agg \in {"COUNT", "COUNT(*)"} -> Unit * Len(rows)
          [] e.agg = "SUM" -> Sum
          [] e.agg = "AVG" -> <<Sum, Len(rows)>>
          [] e.agg = "MIN" -> CHOOSE v \in V : \A w \in V : v <= w
          [] e.agg = "MAX" -> CHOOSE v \in V : \A w \in V : v >= w
          [] OTHER         -> CHOOSE v \in V : TRUE

(* the answer as a set of pairs of a tuple and how often it occurs *)
Occurrences(s) == {<<s[i], Cardinality({j \in DOMAIN s : s[j] = s[i]})>> : i \in DOMAIN s}

Answer(a) ==
    LET all   == WhereRows(a)
        Matched(row) == \E i \in DOMAIN all : \A c \in DOMAIN row : all[i][c] = row[c]
        rows  == IF a.semi THEN SelectSeq(start[a.tables[1]], Matched) ELSE all
        Key(row) == [i \in DOMAIN a.group |-> row[TheCol(a, a.group[i])]]
        keys  == SetToSeq({Key(rows[i]) : i \in DOMAIN rows})
        parts == IF a.group = << >> THEN <<rows>>
                 ELSE [i \in DOMAIN keys |-> SelectSeq(rows, LAMBDA row : Key(row) = keys[i])]
        kept  == SelectSeq(parts, LAMBDA p : a.having = NoHaving
                              \/ Compares(Measure(a, p, a.having), a.having.op, a.having.val))
    IN  IF need_agg_plan(a)
          THEN [i \in DOMAIN kept |-> [j \in DOMAIN a.sel |-> Measure(a, kept[i], a.sel[j])]]
          ELSE [i \in DOMAIN rows |-> [j \in DOMAIN a.cols |-> rows[i][a.cols[j]]]]

(* the table after an UPDATE: the expressions are about the old record *)
SetAll(tab, row) ==
    [c \in DOMAIN row |->
        LET set == {i \in DOMAIN query.set : query.set[i].lhs = c[2]}
        IN  IF set = {} THEN row[c]
            ELSE evaluate_set_clause(query.set[CHOOSE i \in set : \A j \in set : j <= i], tab, row).num]

UpdatedTable(a) ==
    LET tab == a.tables[1]
        hit == ToSet(WhereRows(a))
    IN  [i \in DOMAIN start[tab] |->
            IF start[tab][i] \in hit THEN SetAll(tab, start[tab][i]) ELSE start[tab][i]]

-----------------------------------------------------------------------------
(* The statements that get their answer.  What each part leaves out is a   *)
(* shortcoming of the code that the README describes.                      *)

IndexScans == {scans[i] : i \in {j \in DOMAIN scans : scans[j].index # << >>}}

(* The conditions an index stands for bound their column as they say: the  *)
(* literal has the column's type, "=" is alone, there is no "<>", at most  *)
(* one bound on a side, strict only for INT and not at the end of its      *)
(* range, and the bounds do not cross.                                     *)
PlainConditions(s) ==
    \A i \in {j \in DOMAIN s.index : s.index[j] \in covered_cols(s)} :
        LET cs   == CondsOn(s, i)
            type == TypeOf(<<s.tab, s.index[i]>>)
        IN  /\ \A j \in DOMAIN cs : /\ cs[j].val.raw.type = type /\ cs[j].op # "<>"
                                    /\ cs[j].op = "<" => type = "INT" /\ cs[j].val.num > Unit * IntMin
                                    /\ cs[j].op = ">" => type = "INT" /\ cs[j].val.num < Unit * IntMax
            /\ HasOp(cs, {"="}) => Len(cs) = 1
            /\ \A j, k \in DOMAIN cs : j # k =>
                  {cs[j].op, cs[k].op} \cap {"<", "<="} # {} /\ {cs[j].op, cs[k].op} \cap {">", ">="} # {}

BoundsDoNotCross(s) == ~ KeyLess(upper_key(s), lower_key(s))

(* A literal is of the type of its column, so its conversion loses nothing *)
LiteralsFit ==
    \A i \in DOMAIN query.conds :
        query.conds[i].is_val => query.conds[i].val.type = TypeOf(q.conds[i].lhs)

(* The conditions that compare floats: those of a sequential scan and those *)
(* between types.  A float must hold the numbers they compare exactly.     *)
ComparesFloats(c) ==
    \/ RhsType(c) # TypeOf(c.lhs)
    \/ \E i \in DOMAIN scans : scans[i].index = << >> /\ Contains(scans[i].conds, c)

FloatsHold(col) == \A i \in DOMAIN start[col[1]] :
                      LET n == start[col[1]][i][col] IN AsFloat(n, TypeOf(col)) = n

FloatsAreExact ==
    \A i \in DOMAIN q.conds : ComparesFloats(q.conds[i]) =>
        /\ FloatsHold(q.conds[i].lhs)
        /\ IF q.conds[i].is_val THEN AsFloat(q.conds[i].val.num, q.conds[i].val.type) = q.conds[i].val.num
                                ELSE FloatsHold(q.conds[i].rhs)

(* No join is the left child of a join. *)
RECURSIVE LeftDeep(_)
LeftDeep(p) ==
    CASE p.node = "scan" -> TRUE
      [] p.node = "join" -> p.left.node = "scan" /\ LeftDeep(p.right)
      [] OTHER -> LeftDeep(p.child)

(* An aggregate without GROUP BY has rows, or is a COUNT alone; there is   *)
(* no plain column beside it and it is not read off an index.              *)
PlainAggregate ==
    q.group = << >> /\ HasAggregation(q) =>
        /\ \A i \in DOMAIN q.sel : q.sel[i].agg # ""
        /\ WhereRows(q) # << >> \/ (q.having = NoHaving /\ Len(q.sel) = 1 /\ q.sel[1].agg \in {"COUNT", "COUNT(*)"})
        /\ Len(q.sel) = 1 /\ q.sel[1].agg \in {"MIN", "MAX"} =>
              \A s \in IndexScans : Last(s.index) # q.sel[1].col[2] \/ Len(s.index) = 1

(* No sum leaves the range of an INT, and a float keeps that of an average. *)
SumsFit ==
    \A e \in ToSet(q.sel) \union {q.having} : e.agg \in {"SUM", "AVG"} =>
        FoldLeft(LAMBDA n, row : n + Abs(row[TheCol(q, e.col)]), 0, WhereRows(q))
            <= Unit * IF e.agg = "SUM" THEN IntMax ELSE 2 ^ FloatBits

RECURSIVE ColumnsIn(_)
ColumnsIn(e) == CASE e.op = "col" -> {e.name} [] e.op \in {"lit", "agg"} -> {}
                  [] OTHER -> ColumnsIn(e.lhs) \union ColumnsIn(e.rhs)

(* No SET clause reads what one before it has set. *)
SetsAreIndependent ==
    \A i, j \in DOMAIN q.set : i < j => q.set[i].lhs \notin ColumnsIn(q.set[j].expr)

Supported ==
    /\ SetsAreIndependent
    /\ \A s \in IndexScans : PlainConditions(s) /\ BoundsDoNotCross(s)
    /\ LiteralsFit /\ FloatsAreExact
    /\ query.kind = "select" =>
         ~ query.semi /\ ~ HasSort(q) /\ LeftDeep(plan) /\ PlainAggregate /\ SumsFit

-----------------------------------------------------------------------------
(* The plan is built of scans over indexes and columns the tables have,    *)
(* and conditions name columns of the tables of the query.                 *)
TypeOK ==
    /\ pc \in {"idle", "parsed", "optimize", "dml", "scan", "run", "update",
              "rejected", "failed", "done", "closed", "dead"}
    /\ \A i \in DOMAIN scans :
          /\ scans[i].tab = q.tables[i]
          /\ scans[i].index \in Indexes[scans[i].tab] \union {<< >>}
          /\ ToSet(scans[i].proj) \subseteq ToSet(ColsOf(scans[i].tab))
    /\ q # None => \A i \in DOMAIN q.conds :
                      Contains(get_all_cols(q.tables), q.conds[i].lhs) /\ q.conds[i].op \in Ops

(* A statement outside the shortcomings of Supported gets exactly the rows *)
(* that SQL says, whatever index is chosen and in whatever order the       *)
(* conditions are propagated and joined; DELETE gets exactly the records   *)
(* that satisfy its conditions, and UPDATE changes exactly these, each     *)
(* once and from the values they had, by what its expressions evaluate to. *)
AnswerIsExact ==
    pc = "done" /\ Supported =>
        LET a == do_analyze(query)
        IN  CASE query.kind = "select" -> Occurrences(result.rows) = Occurrences(Answer(a))
              [] query.kind = "delete" -> Occurrences(result.rows) = Occurrences(WhereRows(a))
              [] query.kind = "update" -> db = [start EXCEPT ![q.tables[1]] = UpdatedTable(a)]

(* the conditions of a scan, with numbers compared as what they are *)
Satisfies(row, cs) ==
    \A i \in DOMAIN cs :
        Compares(row[cs[i].lhs], cs[i].op, IF cs[i].is_val THEN cs[i].val.num ELSE row[cs[i].rhs])

(* The range of an index scan holds every row that satisfies the           *)
(* conditions of the scan, also with bounds on several columns and at the  *)
(* ends of the range of an INT, if the literals have the types of the      *)
(* columns.                                                                *)
ScanKeepsRows ==
    \A s \in IndexScans :
        /\ \A i \in DOMAIN s.conds : s.conds[i].is_val => s.conds[i].val.raw.type = TypeOf(s.conds[i].lhs)
        /\ ~ CannotEval(ColsOf(s.tab), s.conds)
        => {row \in ToSet(start[s.tab]) : Satisfies(row, s.conds)} \subseteq ToSet(InRange(s, start[s.tab]))

(* Propagating constants changes no answer: a row of the product satisfies *)
(* the conditions of the analyzer if and only if it satisfies the new ones *)
PropagationIsSound ==
    pc = "scan" =>
        LET rows == Product(q.tables)
        IN  \A i \in DOMAIN rows :
                eval_conds(rows[i], do_analyze(query).conds) <=> eval_conds(rows[i], q.conds)

(* A comparison within a table is taken by the first table of the list. *)
NoComparisonWithinATable ==
    \A i \in DOMAIN q.conds : q.conds[i].is_val \/ q.conds[i].lhs[1] # q.conds[i].rhs[1]

(* A finished plan evaluates every condition at one place, where its       *)
(* columns are: in the scan of its table or in a join that has the one     *)
(* column on its left and the other on its right.                          *)
RECURSIVE Placed(_)
Placed(p) ==
    CASE p.node = "scan" -> ToSet(p.conds)
      [] p.node = "join" ->
            {c \in ToSet(p.conds) : c.lhs[1] \in TablesOf(p.left) /\ c.rhs[1] \in TablesOf(p.right)}
            \union Placed(p.left) \union Placed(p.right)
      [] OTHER -> Placed(p.child)

ConditionsPlaced ==
    pc = "run" /\ NoComparisonWithinATable =>
        \A i \in DOMAIN q.conds : Placed(plan) \cap {q.conds[i], Swapped(q.conds[i])} # {}

(* No condition is lost, invented or misplaced on its way from the         *)
(* analyzer into the scans and joins of the plan, for every statement, the *)
(* unsupported ones too.                                                   *)
PlanInv == TypeOK /\ PropagationIsSound /\ ConditionsPlaced /\ ScanKeepsRows

PassedUp(col) ==
    \E i \in DOMAIN scans :
        scans[i].tab = col[1] /\ (scans[i].proj = << >> \/ Contains(scans[i].proj, col))

(* the columns that aggregates, HAVING and GROUP BY read reach them *)
ArgumentsPassedUp ==
    /\ \A i \in DOMAIN q.sel : q.sel[i].agg \in {"", "COUNT(*)"} \/ PassedUp(TheCol(q, q.sel[i].col))
    /\ q.having.agg \in {"", "COUNT", "COUNT(*)"} \/ PassedUp(TheCol(q, q.having.col))
    /\ \A i \in DOMAIN q.group : PassedUp(TheCol(q, q.group[i]))

SortColumnsPassedUp ==
    \A i \in DOMAIN q.order : PassedUp(TheCol(q, q.order[i].col))

(* another record has a key that the record in work would get *)
KeyIsTaken ==
    /\ query.kind = "update" /\ todo # << >>
    /\ LET tab == plan.tab
           new == UpdatedAt(Head(todo)).row
       IN  \E index \in Indexes[tab] : \E i \in DOMAIN db[tab] \ {Head(todo)} :
              IndexKey(tab, index, db[tab][i]) = IndexKey(tab, index, new)

RECURSIVE OpsIn(_)
OpsIn(e) == {e.op} \union IF e.op \in {"lit", "col", "agg"} THEN {} ELSE OpsIn(e.lhs) \union OpsIn(e.rhs)

(* expressions of columns of the table, without division and aggregates *)
SafeExpressions ==
    \A i \in DOMAIN q.set :
        /\ \A name \in ColumnsIn(q.set[i].expr) : Contains(ColsOf(q.tables[1]), <<q.tables[1], name>>)
        /\ OpsIn(q.set[i].expr) \cap {"/", "agg"} = {}

(* a scan of an index is given a comparison within another table *)
IndexScanAsserts == \E s \in IndexScans : CannotEval(ColsOf(s.tab), s.conds)

(* A statement that was accepted is refused later only for a comparison    *)
(* within one table, a column that the scans do not pass up to ORDER BY,   *)
(* or a key that is taken at that moment; it ends the server only by a     *)
(* comparison within one table that the scan of another one's index gets,  *)
(* by a column that is not passed up to GROUP BY or an aggregate, or by an *)
(* expression that divides or that names what the table does not have.     *)
AcceptedQueriesRun ==
    /\ pc = "failed" => ~ NoComparisonWithinATable \/ ~ SortColumnsPassedUp \/ KeyIsTaken
    /\ pc = "dead" => IndexScanAsserts \/ ~ ArgumentsPassedUp \/ ~ SafeExpressions

-----------------------------------------------------------------------------
(* Every record is in every index under its key, no two have one key, and  *)
(* nothing else is there, also between two records of an UPDATE.  Only the *)
(* record at which an UPDATE has met a duplicate may be missing from an    *)
(* index.                                                                  *)
IndexesFollowRows ==
    \A tab \in DOMAIN db : \A index \in Indexes[tab] :
        LET want == IndexOf(tab, index, db[tab])
        IN  /\ Cardinality(DOMAIN want) = Len(db[tab])
            /\ \/ ihs[tab][index] = want
               \/ /\ pc \in {"failed", "closed"} /\ todo # << >>
                  /\ ihs[tab][index] = RestrictValues(want, LAMBDA rid : rid # Head(todo))

(* An UPDATE that is taken back leaves the tables as they were, also one   *)
(* that met a duplicate half way, whatever it had done by then.            *)
AbortRestores == pc = "idle" => db = start

TablesInv == IndexesFollowRows /\ AbortRestores

(* An UPDATE that failed has changed nothing.  TLC refutes it (README,     *)
(* "Known deviations").                                                    *)
FailedUpdateLeavesNothing ==
    pc = "closed" /\ todo # << >> =>
        /\ db = start
        /\ \A tab \in DOMAIN db : \A index \in Indexes[tab] : ihs[tab][index] = IndexOf(tab, index, db[tab])

(* ORDER BY and LIMIT return rows of the answer ("sorted_tuples: the       *)
(* tuples after sorting").  TLC refutes it (README, "Known deviations").   *)
SortedRowsAreTheRows ==
    pc = "done" /\ query.kind = "select" /\ ~ need_agg_plan(q) /\ HasSort(q) =>
        \A x \in Occurrences(result.rows) : \E y \in Occurrences(Answer(do_analyze(query))) : x[1] = y[1] /\ x[2] <= y[2]
=============================================================================
