------------------------------- MODULE Plans -------------------------------
(***************************************************************************)
(* Logical expressions and plans (logical/operator.rs, logical_*.rs,       *)
(* expr/mod.rs), what a plan answers, and the planning of a bound query    *)
(* (logical/planner).                                                      *)
(*                                                                         *)
(* An expression is a record with the operator and the children that       *)
(* for_each_child visits; a column is named by <<table ref, index>>.  A    *)
(* plan is a record with the name of the operator, the expressions that    *)
(* for_each_expr visits and the children.  The bind context holds the      *)
(* number of columns of every table ref, the materializations, and where a *)
(* CTE is materialized.  Values are naturals, NULL is -1, and Booleans are *)
(* 0 and 1.                                                                *)
(***************************************************************************)
EXTENDS Integers, FiniteSets, SequencesExt

CONSTANT
    Tables      \* the stored tables: name -> sequence of tuples

NULL == -1
Unresolved == -2        \* a reference that no input of the operator has

\* FoldLeft, with the value of every step known before the next one.
InTurn(op(_, _), base, seq) ==
    LET after[i \in 0..Len(seq)] ==
            IF i = 0 THEN base
            ELSE CHOOSE v \in {op(b, seq[i]) : b \in {after[i - 1]}} : TRUE
    IN  after[Len(seq)]

\* A sequence given by a function, written out.
Tuple(s) == SubSeq(s, 1, Len(s))

-----------------------------------------------------------------------------
(* Expressions *)

Column(t, c) == [op |-> "column", ref |-> <<t, c>>, args |-> <<>>]
Literal(v) == [op |-> "literal", val |-> v, args |-> <<>>]
Apply(op, args) == [op |-> op, args |-> args]
Compare(op, left, right) == Apply(op, <<left, right>>)
And(exprs) == Apply("and", exprs)
Or(exprs) == Apply("or", exprs)

Comparisons == {"=", "<>", "<", "<=", ">", ">=", "distinct", "not distinct"}
Aggregates == {"count", "sum", "min", "first"}

\* The operator of a comparison whose sides change places.
MutFlip(op) == op

Flip(op) ==
    CASE op = "<" -> ">"
      [] op = "<=" -> ">="
      [] op = ">" -> "<"
      [] op = ">=" -> "<="
      [] op = "not distinct" -> "distinct"
      [] OTHER -> op

FlipSides(cond) == Compare(Flip(cond.op), cond.args[2], cond.args[1])

\* The columns of an expression, in the order of a walk.
RECURSIVE ColumnRefs(_)
ColumnRefs(e) ==
    IF e.op = "column" THEN <<e.ref>>
    ELSE FlattenSeq([i \in DOMAIN e.args |-> ColumnRefs(e.args[i])])

TableRefs(e) == {ref[1] : ref \in Range(ColumnRefs(e))}

\* Replaces the columns in the domain of the mapping.
RECURSIVE ReplaceColumns(_, _)
ReplaceColumns(e, mapping) ==
    IF e.op = "column"
    THEN IF e.ref \in DOMAIN mapping THEN mapping[e.ref] ELSE e
    ELSE [e EXCEPT !.args =
            Tuple([i \in DOMAIN e.args |-> ReplaceColumns(e.args[i], mapping)])]

\* A NULL literal is never folded, nor is what holds a column or an aggregate.
RECURSIVE IsConstFoldable(_)
IsConstFoldable(e) ==
    CASE e.op = "literal" -> e.val # NULL
      [] e.op \in {"column", "subquery"} \cup Aggregates -> FALSE
      [] OTHER -> \A i \in DOMAIN e.args : IsConstFoldable(e.args[i])

-----------------------------------------------------------------------------
(* Plans *)

Scan(t, source, width) ==
    [node |-> "scan", table |-> t, source |-> source, filters |-> <<>>,
     projection |-> [i \in 1..width |-> i - 1], exprs |-> <<>>, children |-> <<>>]

Filter(e, child) == [node |-> "filter", exprs |-> <<e>>, children |-> <<child>>]

Project(t, exprs, child) ==
    [node |-> "project", table |-> t, exprs |-> exprs, children |-> <<child>>]

\* The aggregates come first, then the GROUP BY expressions; group = 0 and no
\* grouping sets without GROUP BY.
Aggregate(t, aggregates, group, groupExprs, sets, child) ==
    [node |-> "aggregate", table |-> t, aggregates |-> Len(aggregates),
     group |-> group, sets |-> sets, exprs |-> aggregates \o groupExprs,
     children |-> <<child>>]

Join(kind, type, exprs, left, right) ==
    [node |-> kind, type |-> type, exprs |-> exprs, children |-> <<left, right>>]
CrossJoin(left, right) == Join("cross", "inner", <<>>, left, right)

MarkJoin(kind, mark, exprs, left, right) ==
    [node |-> kind, type |-> "mark", mark |-> mark, exprs |-> exprs,
     children |-> <<left, right>>]

Distinct(child) == [node |-> "distinct", exprs |-> <<>>, children |-> <<child>>]

\* A key is [expr, desc, nulls_first].
Order(keys, child) ==
    [node |-> "order", exprs |-> Tuple([i \in DOMAIN keys |-> keys[i].expr]), by |-> keys,
     hint |-> <<>>, children |-> <<child>>]

Limit(limit, offset, child) ==
    [node |-> "limit", limit |-> limit, offset |-> offset, exprs |-> <<>>,
     children |-> <<child>>]

UnionOf(t, all, left, right) ==
    [node |-> "union", table |-> t, all |-> all, exprs |-> <<>>, children |-> <<left, right>>]

NoRows(tables) ==
    [node |-> "no rows", tables |-> tables, exprs |-> <<>>, children |-> <<>>]

\* VALUES: the expressions of all rows, one row after the other.
ExpressionList(t, width, exprs, child) ==
    [node |-> "list", table |-> t, width |-> width, exprs |-> exprs,
     children |-> <<child>>]

SingleRow == [node |-> "single row", exprs |-> <<>>, children |-> <<>>]

MaterializationScan(mat) ==
    [node |-> "mat scan", mat |-> mat, exprs |-> <<>>, children |-> <<>>]

MagicScan(mat, t, exprs) ==
    [node |-> "magic scan", mat |-> mat, table |-> t, exprs |-> exprs,
     children |-> <<>>]

\* A plan that could not be made: the query fails with an error.
Failed == [node |-> "failed", exprs |-> <<>>, children |-> <<>>]
IsFailed(r) == r.plan.node = "failed"

Joins == {"cross", "comparison", "arbitrary", "magic", "apply"}

\* get_output_table_refs.
RECURSIVE OutputTables(_, _)
OutputTables(p, ctx) ==
    CASE p.node \in {"filter", "order", "limit", "distinct"} ->
            OutputTables(p.children[1], ctx)
      [] p.node \in {"scan", "project", "union", "magic scan", "list"} -> <<p.table>>
      [] p.node = "aggregate" ->
            (IF p.group = 0 THEN <<>> ELSE <<p.group>>) \o <<p.table>>
      [] p.node = "mat scan" -> ctx.mats[p.mat].tables
      [] p.node = "no rows" -> p.tables
      [] p.node \in Joins ->
            OutputTables(p.children[1], ctx)
            \o (CASE p.type = "mark" -> <<p.mark>>
                  [] p.type = "semi" -> <<>>
                  [] OTHER -> OutputTables(p.children[2], ctx))
      [] OTHER -> <<>>

-----------------------------------------------------------------------------
(* Physical expressions.  A column is found by its position: the columns   *)
(* of the tables before its own are counted with the bind context's list   *)
(* of tables.                                                              *)

RECURSIVE TotalWidth(_, _)
TotalWidth(tables, ctx) ==
    IF tables = <<>> THEN 0
    ELSE ctx.widths[Head(tables)] + TotalWidth(Tail(tables), ctx)

Position(ref, tables, ctx) ==
    TotalWidth(SubSeq(tables, 1, SelectInSeq(tables, LAMBDA t : t = ref[1]) - 1), ctx)
    + ref[2] + 1

\* The tables whose columns the expressions of an operator may use.
InputTables(p, ctx) ==
    IF p.node = "magic scan" THEN ctx.mats[p.mat].tables
    ELSE FlattenSeq([i \in DOMAIN p.children |-> OutputTables(p.children[i], ctx)])

\* The number of columns that an operator really returns.
RECURSIVE Width(_, _)
Width(p, ctx) ==
    CASE p.node \in {"filter", "order", "limit", "distinct", "union"} ->
            Width(p.children[1], ctx)
      [] p.node = "scan" -> Len(p.projection)
      [] p.node \in {"project", "magic scan"} -> Len(p.exprs)
      [] p.node = "aggregate" -> Len(p.exprs)
      [] p.node = "list" -> p.width
      [] p.node = "mat scan" -> Width(ctx.mats[p.mat].plan, ctx)
      [] p.node = "no rows" -> TotalWidth(p.tables, ctx)
      [] p.node \in Joins ->
            Width(p.children[1], ctx)
            + (CASE p.type = "mark" -> 1
                 [] p.type = "semi" -> 0
                 [] OTHER -> Width(p.children[2], ctx))
      [] OTHER -> 0

\* An operator only references the tables of its children, and the tables'
\* columns are the columns the children return.
RECURSIVE Resolved(_, _)
Resolved(p, ctx) ==
    /\ p.node # "failed"
    /\ \A i \in DOMAIN p.exprs : TableRefs(p.exprs[i]) \subseteq Range(InputTables(p, ctx))
    /\ Width(p, ctx) = TotalWidth(OutputTables(p, ctx), ctx)
    /\ \A i \in DOMAIN p.children : Resolved(p.children[i], ctx)

-----------------------------------------------------------------------------
(* What expressions and plans mean. *)

Truth(b) == IF b THEN 1 ELSE 0

\* CASE: conditions and results in turn; a last one by itself is the ELSE.
CaseValue(v) ==
    LET true == {i \in 1..Len(v) - 1 : i % 2 = 1 /\ v[i] = 1}
    IN  CASE true # {} -> v[Min(true) + 1]
          [] true = {} /\ Len(v) % 2 = 1 -> Last(v)
          [] OTHER -> NULL

\* The functions of boolean.rs, is.rs, comparison.rs and add.rs.  AND and OR
\* are NULL if an argument is, whatever the others are, unlike those of SQL.
Value(op, v) ==
    CASE op = "is null" -> Truth(v[1] = NULL)
      [] op = "is not null" -> Truth(v[1] # NULL)
      [] op = "case" -> CaseValue(v)
      [] op = "distinct" -> Truth(v[1] # v[2])
      [] op = "not distinct" -> Truth(v[1] = v[2])
      [] NULL \in Range(v) -> NULL
      [] op = "and" -> Truth(Range(v) = {1})
      [] op = "or" -> Truth(1 \in Range(v))
      [] op = "not" -> 1 - v[1]
      [] op = "+" -> v[1] + v[2]
      [] op = "=" -> Truth(v[1] = v[2])
      [] op = "<>" -> Truth(v[1] # v[2])
      [] op = "<" -> Truth(v[1] < v[2])
      [] op = "<=" -> Truth(v[1] <= v[2])
      [] op = ">" -> Truth(v[1] > v[2])
      [] op = ">=" -> Truth(v[1] >= v[2])

\* The value of an expression without columns.
RECURSIVE ConstantValue(_)
ConstantValue(e) ==
    IF e.op = "literal" THEN e.val
    ELSE Value(e.op, [i \in DOMAIN e.args |-> ConstantValue(e.args[i])])

\* An aggregate of the values of its argument.
AggregateValue(op, vals) ==
    LET present == SelectSeq(vals, LAMBDA v : v # NULL)
    IN  CASE op = "count" -> Len(present)
          [] op = "first" -> IF vals = <<>> THEN NULL ELSE vals[1]
          [] present = <<>> -> NULL
          [] op = "sum" -> FoldLeft(LAMBDA a, b : a + b, 0, present)
          [] op = "min" -> CHOOSE v \in Range(present) :
                                \A w \in Range(present) : v <= w

RECURSIVE Eval(_, _, _, _, _)
RECURSIVE Rows(_, _, _)

\* The row of an outer query, by the columns a subquery knows it by.
OuterRow(row, tables, outer, ctx) ==
    [ref \in UNION {{<<t, c>> : c \in 0..ctx.widths[t] - 1} : t \in Range(tables)} |->
        row[Position(ref, tables, ctx)]] @@ outer

\* A comparison with some row of a subquery is a mark, which is never NULL; for
\* WHERE that is the same.  A comparison with every row may be NULL.
ForSome(v) == Truth(1 \in Range(v))
ForEvery(v) == IF 0 \in Range(v) THEN 0 ELSE IF NULL \in Range(v) THEN NULL ELSE 1

\* A subquery left in an expression is evaluated for each row.
SubqueryValue(e, left, rows) ==
    CASE e.kind = "exists" -> Truth(rows # <<>>)
      [] e.kind = "not exists" -> Truth(rows = <<>>)
      [] e.kind = "scalar" -> IF rows = <<>> THEN NULL ELSE rows[1][1]
      [] e.kind = "any" -> ForSome([i \in DOMAIN rows |-> Value(e.cmp, <<left[1], rows[i][1]>>)])

ColumnValue(row, position) ==
    IF position \in DOMAIN row THEN row[position] ELSE Unresolved

Eval(e, row, tables, outer, ctx) ==
    CASE e.op = "column" ->
            IF Contains(tables, e.ref[1])
            THEN ColumnValue(row, Position(e.ref, tables, ctx))
            ELSE IF e.ref \in DOMAIN outer THEN outer[e.ref] ELSE Unresolved
      [] e.op = "literal" -> e.val
      [] e.op = "subquery" ->
            SubqueryValue(e, [i \in DOMAIN e.args |-> Eval(e.args[i], row, tables, outer, ctx)],
                          Rows(e.plan, OuterRow(row, tables, outer, ctx), ctx))
      [] OTHER -> Value(e.op, [i \in DOMAIN e.args |->
                                  Eval(e.args[i], row, tables, outer, ctx)])

Evals(exprs, row, tables, outer, ctx) ==
    [i \in DOMAIN exprs |-> Eval(exprs[i], row, tables, outer, ctx)]
Holds(exprs, row, tables, outer, ctx) ==
    \A i \in DOMAIN exprs : Eval(exprs[i], row, tables, outer, ctx) = 1

\* Keeps the first of equal elements.
Dedup(s) ==
    FoldLeft(LAMBDA acc, x : IF x \in Range(acc) THEN acc ELSE Append(acc, x), <<>>, s)

Nulls(width) == [i \in 1..width |-> NULL]

\* What a join returns for a left row and the right rows it matches.
Joined(type, left, found, padding) ==
    CASE type = "semi" -> IF found = <<>> THEN <<>> ELSE <<left>>
      [] type = "mark" -> <<Append(left, Truth(found # <<>>))>>
      [] type = "left" /\ found = <<>> -> <<left \o padding>>
      [] OTHER -> [i \in DOMAIN found |-> left \o found[i]]

\* A join with an equality is planned as a hash join, whose conditions have a
\* side for each input; another one evaluates its condition on both rows.
IsHashJoin(p) == p.node \in {"comparison", "magic"} /\ \E i \in DOMAIN p.exprs : p.exprs[i].op = "="

Matches(p, left, right, outer, ctx) ==
    IF IsHashJoin(p)
    THEN \A i \in DOMAIN p.exprs :
            Value(p.exprs[i].op,
                  <<Eval(p.exprs[i].args[1], left, OutputTables(p.children[1], ctx), outer, ctx),
                    Eval(p.exprs[i].args[2], right, OutputTables(p.children[2], ctx), outer, ctx)>>)
            = 1
    ELSE Holds(p.exprs, left \o right, InputTables(p, ctx), outer, ctx)

JoinRows(p, lefts, outer, ctx) ==
    LET rights(l) == Rows(p.children[2],
                          IF p.node = "apply"     \* sees the row of the other side
                          THEN OuterRow(l, OutputTables(p.children[1], ctx), outer, ctx)
                          ELSE outer, ctx)
        matches(l) == SelectSeq(rights(l), LAMBDA r : Matches(p, l, r, outer, ctx))
        alone == SelectSeq(Rows(p.children[2], outer, ctx), LAMBDA r :
                    ~ \E i \in DOMAIN lefts : Matches(p, lefts[i], r, outer, ctx))
    IN  FlattenSeq([i \in DOMAIN lefts |->
            Joined(p.type, lefts[i], matches(lefts[i]), Nulls(Width(p.children[2], ctx)))])
        \o (IF p.type # "right" THEN <<>>
            ELSE [i \in DOMAIN alone |-> Nulls(Width(p.children[1], ctx)) \o alone[i]])

Grouped(p, keys, values, set) ==
    LET key(i) == [g \in DOMAIN keys[i] |-> IF g - 1 \in set THEN keys[i][g] ELSE NULL]
        of(k) == SelectSeq([i \in DOMAIN keys |-> i], LAMBDA i : key(i) = k)
    IN  LET distinct == Dedup([i \in DOMAIN keys |-> key(i)])
        IN  [d \in DOMAIN distinct |-> distinct[d] \o
                [a \in 1..p.aggregates |-> AggregateValue(p.exprs[a].op,
                    [i \in DOMAIN of(distinct[d]) |-> values[of(distinct[d])[i]][a]])]]

\* The rows come as the values of the arguments and of the group expressions.
AggregateRows(p, values, keys) ==
    IF p.group = 0
    THEN <<[a \in 1..p.aggregates |->
                AggregateValue(p.exprs[a].op, [i \in DOMAIN values |-> values[i][a]])]>>
    ELSE FlattenSeq([s \in DOMAIN p.sets |-> Grouped(p, keys, values, p.sets[s])])

Arguments(p) == [a \in 1..p.aggregates |-> p.exprs[a].args[1]]
GroupExprs(p) == SubSeq(p.exprs, p.aggregates + 1, Len(p.exprs))

KeyBefore(a, b, by) ==
    CASE a = b -> FALSE
      [] a # b /\ a = NULL -> by.nulls_first
      [] a # b /\ b = NULL -> ~ by.nulls_first
      [] OTHER -> IF by.desc THEN b < a ELSE a < b
Before(a, b, by) ==
    \E i \in DOMAIN a : KeyBefore(a[i], b[i], by[i]) /\ \A j \in 1..i - 1 : a[j] = b[j]

SortedRows(keyed, by, hint) ==
    LET sorted == SortSeq(keyed, LAMBDA a, b : Before(a[1], b[1], by))
        count == IF hint = <<>> \/ hint[1] > Len(sorted) THEN Len(sorted) ELSE hint[1]
    IN  [i \in 1..count |-> sorted[i][2]]

Limited(rows, offset, limit) ==
    SubSeq(rows, offset + 1,
           IF offset + limit < Len(rows) THEN offset + limit ELSE Len(rows))

FilterRows(p, rows, tables, outer, ctx) ==
    SelectSeq(rows, LAMBDA row : Holds(p.exprs, row, tables, outer, ctx))

ProjectRows(exprs, rows, tables, outer, ctx) ==
    [r \in DOMAIN rows |-> Evals(exprs, rows[r], tables, outer, ctx)]

\* The projections of a materialization, as a set.
MagicRows(p, rows, tables, outer, ctx) ==
    Dedup(ProjectRows(p.exprs, rows, tables, outer, ctx))

\* Sorts rows that come with their keys; the hint is how many are wanted.
SortRows(p, rows, tables, outer, ctx) ==
    SortedRows([r \in DOMAIN rows |->
        <<Evals(p.exprs, rows[r], tables, outer, ctx), rows[r]>>], p.by, p.hint)

GroupRows(p, rows, tables, outer, ctx) ==
    AggregateRows(p, ProjectRows(Arguments(p), rows, tables, outer, ctx),
                  ProjectRows(GroupExprs(p), rows, tables, outer, ctx))

\* VALUES: each row of the input with each row of expressions.
ValuesRows(p, rows, tables, outer, ctx) ==
    FlattenSeq([r \in DOMAIN rows |->
        [k \in 1..Len(p.exprs) \div p.width |->
            Evals(SubSeq(p.exprs, (k - 1) * p.width + 1, k * p.width),
                  rows[r], tables, outer, ctx)]])

\* The rows of an operator with one child, whose rows are given.
UnaryRows(p, rows, tables, outer, ctx) ==
    CASE p.node = "filter" -> FilterRows(p, rows, tables, outer, ctx)
      [] p.node = "project" -> ProjectRows(p.exprs, rows, tables, outer, ctx)
      [] p.node = "magic scan" -> MagicRows(p, rows, tables, outer, ctx)
      [] p.node = "distinct" -> Dedup(rows)
      [] p.node = "order" -> SortRows(p, rows, tables, outer, ctx)
      [] p.node = "limit" -> Limited(rows, p.offset, p.limit)
      [] p.node = "aggregate" -> GroupRows(p, rows, tables, outer, ctx)
      [] p.node = "list" -> ValuesRows(p, rows, tables, outer, ctx)

ScanRows(p, stored, ctx) ==
    SelectSeq([i \in DOMAIN stored |->
                    [c \in DOMAIN p.projection |-> stored[i][p.projection[c] + 1]]],
              LAMBDA row : Holds(p.filters, row, <<p.table>>, <<>>, ctx))

UnionRows(p, outer, ctx) ==
    LET rows == Rows(p.children[1], outer, ctx) \o Rows(p.children[2], outer, ctx)
    IN  IF p.all THEN rows ELSE Dedup(rows)

Rows(p, outer, ctx) ==
    CASE p.node = "scan" -> ScanRows(p, Tables[p.source], ctx)
      [] p.node = "mat scan" -> Rows(ctx.mats[p.mat].plan, outer, ctx)
      [] p.node = "single row" -> <<<<>>>>
      [] p.node \in {"no rows", "failed"} -> <<>>
      [] p.node = "union" -> UnionRows(p, outer, ctx)
      [] p.node \in Joins ->
            JoinRows(p, Rows(p.children[1], outer, ctx), outer, ctx)
      [] OTHER ->
            UnaryRows(p, Rows(IF p.node = "magic scan" THEN ctx.mats[p.mat].plan
                              ELSE p.children[1], outer, ctx),
                      InputTables(p, ctx), outer, ctx)

\* The tuples a plan returns to the client.
Answer(p, ctx) == Rows(p, <<>>, ctx)

-----------------------------------------------------------------------------
(* From a bound query to a logical plan (logical/planner): FROM, WHERE,    *)
(* GROUP BY and the select list in their order, subqueries as joins, and   *)
(* correlated subqueries decorrelated by a dependent join that is pushed   *)
(* down until the subtree below has no correlated column.                  *)
(*                                                                         *)
(* A bound query is a record (Select, Union, Values); its FROM is a tree   *)
(* of records (Table, Derived, Cte, Joined, Nothing).  A subquery in an    *)
(* expression carries the bound query and the columns of the outer query   *)
(* it uses.                                                                *)

(* A step of planning or of a rule returns a plan and the bind context; an *)
(* error gives the plan Failed.                                            *)
Result(plan, ctx) == [plan |-> plan, ctx |-> ctx]

-----------------------------------------------------------------------------
(* Join conditions: JoinConditionExtractor and plan_join_from_conditions. *)

RECURSIVE SplitConjunction(_)
SplitConjunction(e) ==
    IF e.op = "and"
    THEN FlattenSeq([i \in DOMAIN e.args |-> SplitConjunction(e.args[i])])
    ELSE <<e>>

\* The side of a join that the tables of an expression are on.
ExprJoinSide(tables, lefts, rights) ==
    CASE ~ tables \subseteq lefts \cup rights -> "error"
      [] tables = {} -> "none"
      [] tables \subseteq lefts -> "left"
      [] tables \cap lefts = {} -> "right"
      [] OTHER -> "both"

\* What becomes of an expression of a join of this type.
ConditionKind(e, lefts, rights, type) ==
    LET side(x) == ExprJoinSide(TableRefs(x), lefts, rights)
    IN  CASE side(e) = "error" -> "error"
          [] side(e) = "both" /\ e.op \in Comparisons ->
                IF side(e.args[1]) # "both" /\ side(e.args[2]) # "both"
                THEN "comparison" ELSE "dropped"
          [] side(e) = "right" /\ type \in {"left", "inner"} -> "right"
          [] side(e) = "left" /\ type \in {"right", "inner"} -> "left"
          [] OTHER -> "arbitrary"

\* The operand of the left side stands left.
Condition(e, lefts, rights) ==
    IF ExprJoinSide(TableRefs(e.args[1]), lefts, rights) = "right"
    THEN FlipSides(e) ELSE e

Extract(exprs, lefts, rights, type) ==
    LET split == FlattenSeq([i \in DOMAIN exprs |-> SplitConjunction(exprs[i])])
        of(kind) == SelectSeq(split, LAMBDA e :
                        ConditionKind(e, lefts, rights, type) = kind)
    IN  [comparisons |-> [i \in DOMAIN of("comparison") |->
                                Condition(of("comparison")[i], lefts, rights)],
         arbitrary |-> of("arbitrary"), left |-> of("left"), right |-> of("right"),
         error |-> of("error") # <<>>]

PlanJoinFromConditions(type, comparisons, arbitrary, left, right) ==
    LET exprs == arbitrary \o comparisons
        join == Join("comparison", type, comparisons, left, right)
    IN  CASE comparisons = <<>> \/ (type # "inner" /\ arbitrary # <<>>) ->
                Join("arbitrary", type,
                     <<And(IF exprs = <<>> THEN <<Literal(1)>> ELSE exprs)>>,
                     left, right)
          [] arbitrary # <<>> -> Filter(And(arbitrary), join)
          [] OTHER -> join

-----------------------------------------------------------------------------
(* Bound queries *)

Table(t, source, width) ==
    [from |-> "table", table |-> t, source |-> source, width |-> width]
Derived(t, query) == [from |-> "subquery", table |-> t, query |-> query]
Cte(t, cte) == [from |-> "cte", table |-> t, cte |-> cte]
JoinOf(type, on, lateral, left, right) ==
    [from |-> "join", type |-> type, on |-> on, lateral |-> lateral,
     left |-> left, right |-> right]
Nothing == [from |-> "empty"]

\* SELECT list FROM from; the other clauses are set with EXCEPT.
Select(t, list, from) ==
    [query |-> "select", table |-> t, list |-> list, from |-> from,
     where |-> <<>>, aggTable |-> 0, aggs |-> <<>>, group |-> 0, groups |-> <<>>,
     sets |-> <<>>, having |-> <<>>, distinct |-> FALSE, order |-> <<>>,
     limit |-> <<>>, output |-> <<>>]
Union(t, left, right) ==
    [query |-> "union", table |-> t, all |-> TRUE, left |-> left, right |-> right,
     order |-> <<>>, limit |-> <<>>]
Values(t, width, exprs) ==
    [query |-> "values", table |-> t, width |-> width, exprs |-> exprs]

Subquery(kind, query, outer) ==
    [op |-> "subquery", kind |-> kind, cmp |-> "=", args |-> <<>>,
     query |-> query, outer |-> outer]
AnyOf(cmp, left, query, outer) ==
    [Subquery("any", query, outer) EXCEPT !.cmp = cmp, !.args = <<left>>]

-----------------------------------------------------------------------------
(* The bind context *)

NextTable(ctx) == Cardinality(DOMAIN ctx.widths) + 1
NewTable(width, ctx) ==
    [ctx EXCEPT !.widths = @ @@ (NextTable(ctx) :> width)]
AddColumns(t, count, ctx) == [ctx EXCEPT !.widths[t] = @ + count]
NewMaterialization(p, ctx) ==
    [ctx EXCEPT !.mats = Append(@, [plan |-> p, tables |-> OutputTables(p, ctx)])]

\* All columns of a plan.
AllColumns(p, ctx) ==
    LET tables == OutputTables(p, ctx)
    IN  Tuple(FlattenSeq([i \in DOMAIN tables |->
            [c \in 1..ctx.widths[tables[i]] |-> Column(tables[i], c - 1)]]))

-----------------------------------------------------------------------------
(* DependentJoinPushdown.  The state [mat, columns, now, ctx] has the       *)
(* correlated columns, and where the plan below has each of them now.       *)

RECURSIVE HasCorrelation(_, _)
HasCorrelation(p, columns) ==
    /\ p.node \in {"project", "distinct", "filter", "aggregate", "cross", "arbitrary",
                   "comparison", "order", "list"}
    /\ \/ \E i \in DOMAIN p.exprs : Range(ColumnRefs(p.exprs[i])) \cap Range(columns) # {}
       \/ \E i \in DOMAIN p.children : HasCorrelation(p.children[i], columns)

IndexOf(column, s) == SelectInSeq(s.columns, LAMBDA k : k = column)
Rewrite(exprs, s) ==
    Tuple([i \in DOMAIN exprs |->
        ReplaceColumns(exprs[i], [c \in Range(s.columns) |->
            Column(s.now[IndexOf(c, s)][1], s.now[IndexOf(c, s)][2])])])

\* The correlated columns as they are now, and after they were appended to the
\* first offset columns of a table.
ColumnsAt(refs) == Tuple([i \in DOMAIN refs |-> Column(refs[i][1], refs[i][2])])
MapTo(t, offset, s) ==
    [s EXCEPT !.now = Tuple([i \in DOMAIN @ |-> <<t, offset + i - 1>>]),
              !.ctx = AddColumns(t, Len(s.columns), @)]

\* A subtree without correlated columns is joined with all their values.
CrossWithMaterialization(s, p) ==
    LET t == NextTable(s.ctx)
    IN  [plan |-> CrossJoin(p, MagicScan(s.mat, t, ColumnsAt(s.columns))),
         state |-> MapTo(t, 0, [s EXCEPT !.ctx = NewTable(0, @)])]

DependProject(p, s, child) ==
    [plan |-> [p EXCEPT !.exprs = Rewrite(@, s) \o ColumnsAt(s.now),
                        !.children = <<child>>],
     state |-> MapTo(p.table, Len(p.exprs), s)]

\* Each row of VALUES gets the correlated columns appended.
DependList(p, s, child) ==
    LET rows == [k \in 1..Len(p.exprs) \div p.width |->
                    SubSeq(p.exprs, (k - 1) * p.width + 1, k * p.width)]
    IN  [plan |-> [p EXCEPT !.exprs = FlattenSeq([k \in DOMAIN rows |->
                                            Rewrite(rows[k], s) \o ColumnsAt(s.now)]),
                            !.width = @ + Len(s.columns), !.children = <<child>>],
         state |-> MapTo(p.table, p.width, s)]

\* The correlated columns join the GROUP BY, and every grouping set.
MutCorrelatedSets(p, s) == IF p.group = 0 THEN <<{}>> ELSE p.sets

CorrelatedSets(p, s) ==
    LET sets == IF p.group = 0 THEN <<{}>> ELSE p.sets
        offset == Len(p.exprs) - p.aggregates
    IN  Tuple([i \in DOMAIN sets |-> sets[i] \cup (offset..offset + Len(s.columns) - 1)])

DependAggregate(p, s, child) ==
    LET group == IF p.group = 0 THEN NextTable(s.ctx) ELSE p.group
    IN  [plan |-> [p EXCEPT !.group = group, !.sets = CorrelatedSets(p, s),
                            !.exprs = Rewrite(@, s) \o ColumnsAt(s.now),
                            !.children = <<child>>],
         state |-> MapTo(group, Len(p.exprs) - p.aggregates,
                         IF p.group = 0 THEN [s EXCEPT !.ctx = NewTable(0, @)] ELSE s)]

RECURSIVE Depend(_, _)

\* The operator above a child that is done.
DependOperator(p, below) ==
    CASE p.node = "project" -> DependProject(p, below.state, below.plan)
      [] p.node = "list" -> DependList(p, below.state, below.plan)
      [] p.node = "aggregate" -> DependAggregate(p, below.state, below.plan)
      [] p.node \in {"filter", "distinct"} ->
            [below EXCEPT !.plan = [p EXCEPT !.exprs = Rewrite(@, below.state),
                                             !.children = <<below.plan>>]]
DependAbove(p, below) == IF IsFailed(below) THEN below ELSE DependOperator(p, below)

Depend(s, p) ==
    CASE ~ HasCorrelation(p, s.columns) -> CrossWithMaterialization(s, p)
      [] HasCorrelation(p, s.columns)
         /\ p.node \in {"project", "list", "aggregate", "filter", "distinct"} ->
            DependAbove(p, Depend(s, p.children[1]))
      [] OTHER -> [plan |-> Failed, state |-> s]

SortedColumns(columns) ==
    SetToSortSeq(columns, LAMBDA a, b : a[1] < b[1] \/ (a[1] = b[1] /\ a[2] < b[2]))

\* The plan on the left is materialized; the right side is decorrelated.
Decorrelate(left, right, columns, ctx) ==
    Depend([mat |-> Len(ctx.mats) + 1, columns |-> columns,
            now |-> columns,
            ctx |-> NewMaterialization(left, ctx)], right)

CorrelatedConditions(s) ==
    Tuple([i \in DOMAIN s.columns |->
            Compare("=", ColumnsAt(s.columns)[i], ColumnsAt(s.now)[i])])

MagicLeft(s) == MaterializationScan(s.mat)

-----------------------------------------------------------------------------
(* SubqueryPlanner: returns [expr, plan, ctx]. *)

RECURSIVE PlanQuery(_, _)
RECURSIVE PlanExpression(_, _, _)

Planned(e, p, ctx) == [expr |-> e, plan |-> p, ctx |-> ctx]

ExistsPlan(negated, t, column, sub) ==
    Project(t + 1, <<Compare(IF negated THEN "<>" ELSE "=", Column(t, 0), Literal(1))>>,
        Aggregate(t, <<Apply("count", <<column>>)>>, 0, <<>>, <<>>, Limit(1, 0, sub)))

\* t is the first new table ref, column the first column of the subquery.
PlanUncorrelated(e, p, sub, t, column) ==
    CASE e.kind = "scalar" ->
            Planned(Column(t, 0),
                    CrossJoin(p, Aggregate(t, <<Apply("first", <<column>>)>>,
                                           0, <<>>, <<>>, sub.plan)),
                    NewTable(1, sub.ctx))
      [] e.kind \in {"exists", "not exists"} ->
            Planned(Column(t + 1, 0),
                    CrossJoin(p, ExistsPlan(e.kind = "not exists", t, column, sub.plan)),
                    NewTable(1, NewTable(1, sub.ctx)))
      [] e.kind = "any" ->
            Planned(Column(t, 0),
                    MarkJoin("comparison", t, <<Compare(e.cmp, e.args[1], column)>>,
                             p, sub.plan),
                    NewTable(1, sub.ctx))

PlanCorrelated(e, right, s, t, column) ==
    CASE e.kind = "scalar" ->
            Planned(column, Join("magic", "left", CorrelatedConditions(s),
                                 MagicLeft(s), right), s.ctx)
      [] e.kind \in {"exists", "not exists"} ->
            Planned(IF e.kind = "exists" THEN Column(t, 0)
                    ELSE Apply("not", <<Column(t, 0)>>),
                    MarkJoin("magic", t, CorrelatedConditions(s), MagicLeft(s), right),
                    NewTable(1, s.ctx))
      [] e.kind = "any" ->
            Planned(Column(t, 0),
                    MarkJoin("magic", t,
                             Append(CorrelatedConditions(s), Compare(e.cmp, e.args[1], column)),
                             MagicLeft(s), right),
                    NewTable(1, s.ctx))

FirstColumn(p, ctx) == Column(OutputTables(p, ctx)[1], 0)

PlanDecorrelated(e, r) ==
    IF IsFailed(r) THEN Planned(e, Failed, r.state.ctx)
    ELSE PlanCorrelated(e, r.plan, r.state, NextTable(r.state.ctx),
                        FirstColumn(r.plan, r.state.ctx))

PlanSubquery(e, p, sub) ==
    CASE IsFailed(sub) -> Planned(e, Failed, sub.ctx)
      [] ~ IsFailed(sub) /\ e.outer = {} ->
            PlanUncorrelated(e, p, sub, NextTable(sub.ctx), FirstColumn(sub.plan, sub.ctx))
      [] OTHER -> PlanDecorrelated(e, Decorrelate(p, sub.plan,
            SortedColumns({c \in e.outer : Contains(OutputTables(p, sub.ctx), c[1])}),
            sub.ctx))

\* The expressions one after the other, each on the plan the last one left.
AddPlanned(exprs, r) == [exprs |-> Append(exprs, r.expr), plan |-> r.plan, ctx |-> r.ctx]
PlanExpressions(exprs, p, ctx) ==
    InTurn(LAMBDA done, e :
                AddPlanned(done.exprs, PlanExpression(e, done.plan, done.ctx)),
             [exprs |-> <<>>, plan |-> p, ctx |-> ctx], exprs)

WithArgs(e, r) == Planned([e EXCEPT !.args = r.exprs], r.plan, r.ctx)

PlanExpression(e, p, ctx) ==
    CASE e.op = "subquery" -> PlanSubquery(e, p, PlanQuery(e.query, ctx))
      [] e.op \in {"column", "literal"} -> Planned(e, p, ctx)
      [] OTHER -> WithArgs(e, PlanExpressions(e.args, p, ctx))

-----------------------------------------------------------------------------
(* FromPlanner *)

RECURSIVE PlanFrom(_, _)

FilterIf(exprs, p) == IF exprs = <<>> THEN p ELSE Filter(And(exprs), p)

PlanLateral(type, comparisons, r) ==
    Result(Join("magic", type, comparisons \o CorrelatedConditions(r.state),
                MagicLeft(r.state), r.plan), r.state.ctx)

PlanJoin(f, left, right, ctx, found) ==
    LET l == FilterIf(found.left, left)
        r == FilterIf(found.right, right)
    IN  CASE f.lateral = {} /\ f.on = <<>> -> Result(CrossJoin(left, right), ctx)
          [] found.error \/ (f.lateral # {} /\ found.arbitrary # <<>>) -> Result(Failed, ctx)
          [] f.lateral # {} /\ found.arbitrary = <<>> ->
                PlanLateral(f.type, found.comparisons,
                            Decorrelate(l, r, SortedColumns(f.lateral), ctx))
          [] OTHER -> Result(PlanJoinFromConditions(f.type, found.comparisons,
                                                    found.arbitrary, l, r), ctx)

PlanJoinSides(f, left, right) ==
    PlanJoin(f, left.plan, right.plan, right.ctx,
             Extract(f.on, Range(OutputTables(left.plan, right.ctx)),
                     Range(OutputTables(right.plan, right.ctx)), f.type))

PlanJoinRight(f, left) == PlanJoinSides(f, left, PlanFrom(f.right, left.ctx))

\* The columns of the plan, under the table ref of this scope.
InScope(t, r) == Result(Project(t, AllColumns(r.plan, r.ctx), r.plan), r.ctx)

Materialize(cte, r) ==
    [NewMaterialization(r.plan, r.ctx) EXCEPT !.ctes[cte].mat = Len(r.ctx.mats) + 1]

\* A CTE is planned the first time it is met.
PlanCte(f, ctx) == InScope(f.table, Result(MaterializationScan(ctx.ctes[f.cte].mat), ctx))

PlanFrom(f, ctx) ==
    CASE f.from = "table" -> Result(Scan(f.table, f.source, f.width), ctx)
      [] f.from = "subquery" -> InScope(f.table, PlanQuery(f.query, ctx))
      [] f.from = "cte" ->
            PlanCte(f, IF ctx.ctes[f.cte].mat # 0 THEN ctx
                       ELSE Materialize(f.cte, PlanQuery(ctx.ctes[f.cte].query, ctx)))
      [] f.from = "join" -> PlanJoinRight(f, PlanFrom(f.left, ctx))
      [] f.from = "empty" -> Result(SingleRow, ctx)

-----------------------------------------------------------------------------
(* SelectPlanner, SetOpPlanner, QueryPlanner *)

FilterWith(done) == Result(Filter(done.exprs[1], done.plan), done.ctx)
PlanFilter(exprs, r) ==
    IF exprs = <<>> THEN r ELSE FilterWith(PlanExpressions(exprs, r.plan, r.ctx))

\* The GROUP BY expressions are planned before the aggregates.
AggregateOf(q, groups, aggs) ==
    Result(Aggregate(q.aggTable, aggs.exprs, q.group, groups.exprs, q.sets, aggs.plan),
           aggs.ctx)
AggregateBy(q, groups) ==
    AggregateOf(q, groups, PlanExpressions(q.aggs, groups.plan, groups.ctx))
PlanAggregate(q, r) ==
    IF q.aggs = <<>> /\ q.group = 0 THEN r
    ELSE AggregateBy(q, PlanExpressions(q.groups, r.plan, r.ctx))

ProjectWith(q, done) == Result(Project(q.table, done.exprs, done.plan), done.ctx)
PlanProject(q, r) == ProjectWith(q, PlanExpressions(q.list, r.plan, r.ctx))

PlanDistinct(q, r) == IF q.distinct THEN Result(Distinct(r.plan), r.ctx) ELSE r
PlanOrder(q, r) == IF q.order = <<>> THEN r ELSE Result(Order(q.order, r.plan), r.ctx)
PlanLimit(q, r) ==
    IF q.limit = <<>> THEN r
    ELSE Result(Limit(q.limit[1], q.limit[2], r.plan), r.ctx)
PlanOutput(q, r) ==
    IF q.output = <<>> THEN r
    ELSE Result(Project(q.output[1], q.output[2], r.plan), r.ctx)

PlanGroups(q, r) ==
    IF IsFailed(r) THEN r ELSE PlanProject(q, PlanFilter(q.having, PlanAggregate(q, r)))

MutPlanRows(q, r) ==
    IF IsFailed(r) THEN r ELSE PlanOutput(q, PlanOrder(q, PlanLimit(q, PlanDistinct(q, r))))

PlanRows(q, r) ==
    IF IsFailed(r) THEN r ELSE PlanOutput(q, PlanLimit(q, PlanOrder(q, PlanDistinct(q, r))))

PlanSelect(q, ctx) ==
    PlanRows(q, PlanGroups(q, PlanFilter(q.where, PlanFrom(q.from, ctx))))

PlanUnionRight(q, left, right) ==
    PlanLimit(q, PlanOrder(q, Result(UnionOf(q.table, q.all, left.plan, right.plan), right.ctx)))
PlanUnion(q, left) == PlanUnionRight(q, left, PlanQuery(q.right, left.ctx))

PlanQuery(q, ctx) ==
    CASE q.query = "select" -> PlanSelect(q, ctx)
      [] q.query = "union" -> PlanUnion(q, PlanQuery(q.left, ctx))
      [] q.query = "values" ->
            Result(ExpressionList(q.table, q.width, q.exprs, SingleRow), ctx)
=============================================================================
