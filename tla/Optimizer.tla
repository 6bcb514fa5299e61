------------------------------ MODULE Optimizer ------------------------------
(***************************************************************************)
(* A query from its parsed form through the binder, the planner and the    *)
(* rules of the optimizer (optimizer/mod.rs), in their order.              *)
(*                                                                         *)
(* The join order is that of optimizer/join_reorder: filters and inner and *)
(* semi joins are taken apart into relations, edges and filters, connected *)
(* pairs of sets of relations are enumerated (DPHyp), the cheapest pair of *)
(* every set is kept, and the plan is built from the last one.  A graph is *)
(* [rels, edges, filters]; an edge is [semi, conds, left, right, hyper,    *)
(* cross].  Estimates are fractions <<n, d>>: the code's floating point    *)
(* numbers without their rounding.                                         *)
(***************************************************************************)
EXTENDS RewriteRules, Binder

CONSTANTS
    Estimates,          \* the cardinality a scan of each stored table announces
    UnknownEstimate,    \* the cardinality assumed for what announces none
    ParsedQueries,      \* parsed queries that have an answer
    WrongQueries,       \* parsed queries that have none
    BoundQueries        \* [query, widths, ctes], with the widths of the tables

-----------------------------------------------------------------------------
(* Join order: fractions *)

RECURSIVE Gcd(_, _)
Gcd(a, b) == IF b = 0 THEN a ELSE Gcd(b, a % b)
Reduced(n, d) == <<n \div Gcd(n, d), d \div Gcd(n, d)>>
Times(x, y) == Reduced(x[1] * y[1], x[2] * y[2])
Over(x, y) == Reduced(x[1] * y[2], x[2] * y[1])
Plus(x, y) == Reduced(x[1] * y[2] + y[1] * x[2], x[2] * y[2])
Less(x, y) == x[1] * y[2] < y[1] * x[2]
Smaller(x, y) == IF Less(x, y) THEN x ELSE y

\* Estimated cardinalities are whole numbers; a selectivity is one in five.
Selected(n) == n \div 5

\* -1 if unknown.
RECURSIVE Estimate(_)
Estimate(p) ==
    CASE p.node = "scan" -> Estimates[p.source]
      [] p.node = "project" -> Estimate(p.children[1])
      [] p.node = "filter" -> IF Estimate(p.children[1]) = -1 THEN -1
                              ELSE Selected(Estimate(p.children[1]))
      [] p.node = "aggregate" -> IF p.group = 0 THEN 1
                                 ELSE IF Estimate(p.children[1]) = -1 THEN -1
                                 ELSE Selected(Estimate(p.children[1]))
      [] p.node = "list" -> Len(p.exprs) \div p.width
      [] p.node = "single row" -> 1
      [] p.node = "comparison" /\ "estimate" \in DOMAIN p -> p.estimate
      [] OTHER -> -1

BaseCardinality(p) == IF Estimate(p) = -1 THEN <<UnknownEstimate, 1>> ELSE <<Estimate(p), 1>>

-----------------------------------------------------------------------------
(* Taking the plan apart: extract_filters_and_join_children. *)

Conditions(conds, semi) == [semi |-> semi, conds |-> conds]

MutReorderable(p) == p.node = "comparison"

Reorderable(p) == p.node = "comparison" /\ p.type = "inner"

RECURSIVE Gather(_, _)
GatherNext(queue, p, g) ==
    CASE p.node = "filter" \/ (p.node = "arbitrary" /\ p.type = "inner") ->
            Gather(queue \o p.children, [g EXCEPT !.filters = @ \o SplitConjunction(p.exprs[1])])
      [] p.node = "cross" -> Gather(queue \o p.children, g)
      [] Reorderable(p) ->
            Gather(queue \o p.children, [g EXCEPT !.conditions =
                        @ \o [i \in DOMAIN p.exprs |-> Conditions(<<p.exprs[i]>>, FALSE)]])
      [] p.node = "comparison" /\ p.type = "semi" ->
            Gather(queue \o p.children, [g EXCEPT !.conditions =
                        Append(@, Conditions(p.exprs, TRUE))])
      [] OTHER -> Gather(queue, [g EXCEPT !.rels = Append(@, p)])
Gather(queue, g) == IF queue = <<>> THEN g ELSE GatherNext(Tail(queue), Head(queue), g)

-----------------------------------------------------------------------------
(* The hyper graph: HyperEdges. *)

SideTables(c, side) == UNION {TableRefs(c.conds[i].args[side]) : i \in DOMAIN c.conds}
EdgeColumns(c) == UNION {Range(ColumnRefs(c.conds[i])) : i \in DOMAIN c.conds}

\* The relation that has the tables of a side; 0 if there is none.
RelationOf(tables, outputs) ==
    LET found == {r \in DOMAIN outputs : tables \subseteq outputs[r]}
    IN  IF found = {} THEN 0 ELSE CHOOSE r \in found : TRUE

\* An edge joins the first hyper edge that shares a column with it.
HyperEdgeOf(c, edges) ==
    LET sharing == {edges[i].hyper : i \in {j \in DOMAIN edges :
                        edges[j].columns \cap EdgeColumns(c) # {}}}
    IN  IF sharing # {} THEN CHOOSE h \in sharing : \A k \in sharing : h <= k
        ELSE Cardinality({edges[i].hyper : i \in DOMAIN edges}) + 1

AddEdge(edges, c, outputs) ==
    Append(edges, [semi |-> c.semi, conds |-> c.conds, cross |-> FALSE,
                   left |-> RelationOf(SideTables(c, 1), outputs),
                   right |-> RelationOf(SideTables(c, 2), outputs),
                   hyper |-> HyperEdgeOf(c, edges), columns |-> EdgeColumns(c)])

CrossEdge(l, r, hyper) ==
    [semi |-> FALSE, conds |-> <<>>, cross |-> TRUE, left |-> l, right |-> r,
     hyper |-> hyper, columns |-> {}]

Edges(conditions, outputs) ==
    InTurn(LAMBDA edges, c : AddEdge(edges, c, outputs), <<>>, conditions)

HyperEdges(edges) == Cardinality({edges[i].hyper : i \in DOMAIN edges})
OrderedPairs(n) == SetToSeq({<<i, j>> \in (1..n) \X (1..n) : i # j})
WithCrossEdges(edges, n) ==
    edges \o [k \in DOMAIN OrderedPairs(n) |->
                CrossEdge(OrderedPairs(n)[k][1], OrderedPairs(n)[k][2], HyperEdges(edges) + k)]

\* The smallest cardinality of the relations of a hyper edge.
MinNdv(g, edge) ==
    LET rels == UNION {{g.edges[i].left, g.edges[i].right} :
                        i \in {j \in DOMAIN g.edges : g.edges[j].hyper = edge.hyper}}
    IN  CHOOSE x \in {g.cards[r] : r \in rels} : \A r \in rels : ~ Less(g.cards[r], x)

MutBetween(g, l, r) == {i \in DOMAIN g.edges : g.edges[i].left \in l /\ g.edges[i].right \in r}

Between(g, l, r) ==
    {i \in DOMAIN g.edges : \/ g.edges[i].left \in l /\ g.edges[i].right \in r
                            \/ g.edges[i].left \in r /\ g.edges[i].right \in l}

Neighbors(g, set, exclude) ==
    {r \in DOMAIN g.rels \ exclude :
        \E i \in DOMAIN g.edges : \/ g.edges[i].left \in set /\ g.edges[i].right = r
                                  \/ g.edges[i].right \in set /\ g.edges[i].left = r}

-----------------------------------------------------------------------------
(* The best plans: a function from sets of relations to join nodes. *)

BaseNode(g, r) ==
    [left |-> {}, right |-> {}, cost |-> <<0, 1>>, num |-> g.cards[r], den |-> <<1, 1>>,
     edges |-> {}, leftFilters |-> {}, rightFilters |-> {}, used |-> {},
     tables |-> g.outputs[r]]

NodeEstimate(node) == Over(node.num, node.den)

\* The filters on the tables of a node that are not applied below it.
Usable(g, node) ==
    {f \in DOMAIN g.filters \ node.used : TableRefs(g.filters[f]) # {}
                              /\ TableRefs(g.filters[f]) \subseteq node.tables}

\* What a condition divides a product of cardinalities by.
Selectivity(g, edge) ==
    CASE edge.conds[1].op \in {"=", "not distinct"} -> MinNdv(g, edge)
      [] edge.conds[1].op \in {"<>", "distinct"} -> <<1, 10>>
      [] OTHER -> <<3, 1>>

\* The edge with the largest NDV decides.
MaxEdge(g, edges) ==
    g.edges[CHOOSE i \in edges : \A j \in edges :
        \/ Less(MinNdv(g, g.edges[j]), MinNdv(g, g.edges[i]))
        \/ MinNdv(g, g.edges[j]) = MinNdv(g, g.edges[i]) /\ j <= i]

Denominator(g, l, r, edge) ==
    IF edge.cross \/ edge.semi THEN l.den
    ELSE Times(Times(l.den, r.den), Selectivity(g, edge))

RECURSIVE Power(_, _)
Power(x, n) == IF n = 0 THEN <<1, 1>> ELSE Times(x, Power(x, n - 1))

Numerator(l, r, semi, filters) ==
    Times(IF semi THEN l.num ELSE Times(l.num, r.num), Power(<<1, 5>>, filters))

Node(left, right, l, r, num, den, edges, lf, rf) ==
    [left |-> left, right |-> right, num |-> num, den |-> den, edges |-> edges,
     cost |-> Plus(Over(num, den), Plus(l.cost, r.cost)),
     leftFilters |-> lf, rightFilters |-> rf, used |-> l.used \cup r.used \cup lf \cup rf,
     tables |-> l.tables \cup r.tables]

JoinNode(g, left, right, l, r, edges) ==
    Node(left, right, l, r,
         Numerator(l, r, \E i \in edges : g.edges[i].semi,
                   Cardinality(Usable(g, l)) + Cardinality(Usable(g, r))),
         Denominator(g, l, r, MaxEdge(g, edges)), edges, Usable(g, l), Usable(g, r))

\* A pair replaces the one kept so far unless that one is cheaper.
KeepBest(best, set, node) ==
    IF set \in DOMAIN best /\ Less(best[set].cost, node.cost) THEN best
    ELSE (set :> node) @@ best

EmitPair(g, left, right, best) ==
    IF Between(g, left, right) = {} THEN best
    ELSE KeepBest(best, left \cup right,
                  JoinNode(g, left, right, best[left], best[right], Between(g, left, right)))

-----------------------------------------------------------------------------
(* The enumeration.  Subsets of neighbors come smaller ones first. *)

Descending(set) == SetToSortSeq(set, LAMBDA a, b : a > b)
Earlier(a, b) ==
    \/ Cardinality(a) < Cardinality(b)
    \/ /\ Cardinality(a) = Cardinality(b) /\ a # b
       /\ (CHOOSE x \in (a \ b) \cup (b \ a) : \A y \in (a \ b) \cup (b \ a) : x <= y) \in a
NeighborSets(neighbors) == SetToSortSeq(SUBSET neighbors \ {{}}, Earlier)

RECURSIVE Complements(_, _, _, _, _)
ComplementPairs(g, left, right, sets, best) ==
    InTurn(LAMBDA b, set : IF right \cup set \in DOMAIN b
                             THEN EmitPair(g, left, right \cup set, b) ELSE b, best, sets)
Complements(g, left, right, exclude, best) ==
    LET neighbors == Neighbors(g, right, exclude)
    IN  InTurn(LAMBDA b, set :
                    Complements(g, left, right \cup set, exclude \cup neighbors, b),
                 ComplementPairs(g, left, right, NeighborSets(neighbors), best),
                 NeighborSets(neighbors))

\* All relations before the first of the set are excluded, and the neighbors
\* that are still to be visited.
FirstOf(set) == CHOOSE x \in set : \A y \in set : x <= y
EmitNeighbor(g, set, neighbor, exclude, best) ==
    Complements(g, set, {neighbor}, exclude, EmitPair(g, set, {neighbor}, best))
EmitSubgraphs(g, set, best) ==
    LET exclude == 1..FirstOf(set) - 1 \cup set
        neighbors == Neighbors(g, set, exclude)
    IN  InTurn(LAMBDA b, n :
                    EmitNeighbor(g, set, n, exclude \cup {m \in neighbors : m <= n}, b),
                 best, Descending(neighbors))

RECURSIVE Subgraphs(_, _, _, _)
SubgraphPairs(g, set, sets, best) ==
    InTurn(LAMBDA b, more : IF set \cup more \in DOMAIN b
                              THEN EmitSubgraphs(g, set \cup more, b) ELSE b, best, sets)
Subgraphs(g, set, exclude, best) ==
    LET neighbors == Neighbors(g, set, exclude)
    IN  InTurn(LAMBDA b, more :
                    Subgraphs(g, set \cup more, exclude \cup neighbors, b),
                 SubgraphPairs(g, set, NeighborSets(neighbors), best),
                 NeighborSets(neighbors))

Solve(g, best) ==
    InTurn(LAMBDA b, r : Subgraphs(g, {r}, 1..r - 1, EmitSubgraphs(g, {r}, b)),
             best, Descending(DOMAIN g.rels))

\* Without a plan for all relations, every two of them may be crossed.
SolveAgain(g, best) ==
    IF DOMAIN g.rels \in DOMAIN best THEN [graph |-> g, best |-> best]
    ELSE [graph |-> [g EXCEPT !.edges = WithCrossEdges(@, Len(g.rels))],
          best |-> Solve([g EXCEPT !.edges = WithCrossEdges(@, Len(g.rels))], best)]
SolveGraph(g) == SolveAgain(g, Solve(g, [set \in {{r} : r \in DOMAIN g.rels} |->
                                            BaseNode(g, CHOOSE r \in set : TRUE)]))

-----------------------------------------------------------------------------
(* Building the plan.  Returns [plan, edges, filters] with what was used; an *)
(* edge or a filter that is used twice is an error.                          *)

Built(plan, edges, filters) == [plan |-> plan, edges |-> edges, filters |-> filters]

\* Filters go into a filter, an inner join without equalities or a cross
\* join; above another plan they become a filter.
ApplyFilters(g, p, filters) ==
    LET exprs == [i \in DOMAIN SetToSeq(filters) |-> g.filters[SetToSeq(filters)[i]]]
    IN  CASE filters = {} -> p
          [] p.node = "filter" -> Filter(And(exprs \o p.exprs), p.children[1])
          [] p.node = "arbitrary" /\ p.type = "inner" /\ filters # {} ->
                [p EXCEPT !.exprs = <<And(exprs \o @)>>]
          [] p.node = "cross" /\ filters # {} ->
                Join("arbitrary", "inner", <<And(exprs)>>, p.children[1], p.children[2])
          [] OTHER -> Filter(And(exprs), p)

\* The sides change places if the left tables of a semi join are not left.
MutMisplaced(edge, left) == FALSE

Misplaced(edge, left) == edge.semi /\ ~ SideTables(edge, 1) \subseteq left.tables

Turned(g, node, l, r) ==
    InTurn(LAMBDA turned, i :
                IF Misplaced(g.edges[i], IF turned THEN r ELSE l) THEN ~ turned ELSE turned,
             FALSE, SetToSeq(node.edges))

FlipAll(conds, flip) ==
    IF flip THEN [i \in DOMAIN conds |-> FlipSides(conds[i])] ELSE conds

JoinConditions(g, edges, r) ==
    FlattenSeq([i \in DOMAIN edges |->
        FlipAll(g.edges[edges[i]].conds,
                /\ ~ g.edges[edges[i]].cross
                /\ SideTables(g.edges[edges[i]], 1) \subseteq r.tables)])

\* The smaller side is to be the left one, but for a semi join.
Swapped(semi, l, r) == ~ semi /\ Less(NodeEstimate(r), NodeEstimate(l))

BuildJoin(left, right, conds, semi, swap, estimate) ==
    IF conds = <<>>
    THEN IF swap THEN CrossJoin(right, left) ELSE CrossJoin(left, right)
    ELSE [estimate |-> estimate] @@
         (IF swap THEN Join("comparison", "inner", FlipAll(conds, TRUE), right, left)
          ELSE Join("comparison", IF semi THEN "semi" ELSE "inner", conds, left, right))

RECURSIVE BuildFrom(_, _, _)

\* lb and rb are the sides that were built, l and r their nodes.
BuildSides(g, node, l, r, lf, rf, lb, rb) ==
    LET semi == \E i \in node.edges : g.edges[i].semi
        again == \/ lb.edges \cap rb.edges # {}
                 \/ (lb.edges \cup rb.edges) \cap node.edges # {}
                 \/ lb.filters \cap rb.filters # {} \/ lf \cap rf # {}
                 \/ (lb.filters \cup rb.filters) \cap (lf \cup rf) # {}
    IN  Built(IF again THEN Failed
              ELSE BuildJoin(ApplyFilters(g, lb.plan, lf), ApplyFilters(g, rb.plan, rf),
                             JoinConditions(g, SetToSeq(node.edges), r), semi,
                             Swapped(semi, l, r),
                             NodeEstimate(node)[1] \div NodeEstimate(node)[2]),
              lb.edges \cup rb.edges \cup node.edges,
              lb.filters \cup rb.filters \cup lf \cup rf)

BuildNode(g, best, node) ==
    IF Turned(g, node, best[node.left], best[node.right])
    THEN BuildSides(g, node, best[node.right], best[node.left],
                    node.rightFilters, node.leftFilters,
                    BuildFrom(g, best, node.right), BuildFrom(g, best, node.left))
    ELSE BuildSides(g, node, best[node.left], best[node.right],
                    node.leftFilters, node.rightFilters,
                    BuildFrom(g, best, node.left), BuildFrom(g, best, node.right))

BuildFrom(g, best, set) ==
    IF Cardinality(set) = 1 THEN Built(g.rels[CHOOSE r \in set : TRUE], {}, {})
    ELSE BuildNode(g, best, best[set])

\* Every condition was used; the filters left go on top.
Finish(g, b) ==
    IF {i \in DOMAIN g.edges : ~ g.edges[i].cross} \subseteq b.edges
    THEN ApplyFilters(g, b.plan, DOMAIN g.filters \ b.filters) ELSE Failed

BuildSolved(s) ==
    IF DOMAIN s.graph.rels \in DOMAIN s.best
    THEN Finish(s.graph, BuildFrom(s.graph, s.best, DOMAIN s.graph.rels)) ELSE Failed

\* A side of a condition with no relation of its own is an error.
BuildGraph(g) ==
    IF \E i \in DOMAIN g.edges : 0 \in {g.edges[i].left, g.edges[i].right} THEN Failed
    ELSE BuildSolved(SolveGraph(g))

GraphOf(rels, outputs, conditions, filters) ==
    [rels |-> rels, outputs |-> outputs, edges |-> Edges(conditions, outputs),
     filters |-> filters, cards |-> [r \in DOMAIN rels |-> BaseCardinality(rels[r])]]

-----------------------------------------------------------------------------

RECURSIVE ReorderJoins(_, _)

AddReordered(r, i, reordered) ==
    Result([r.plan EXCEPT !.children[i] = reordered.plan], reordered.ctx)
ReorderChildren(p, ctx) ==
    InTurn(LAMBDA r, i : AddReordered(r, i, ReorderJoins(p.children[i], r.ctx)),
             Result(p, ctx), [i \in DOMAIN p.children |-> i])

\* The relations are reordered first; they stand as the children of a list.
ReorderGathered(g, r) ==
    Result(BuildGraph(GraphOf(r.plan.children,
                [i \in DOMAIN r.plan.children |->
                    Range(OutputTables(r.plan.children[i], r.ctx))],
                g.conditions, g.filters)), r.ctx)
ReorderGather(g, ctx) ==
    ReorderGathered(g, ReorderChildren([children |-> g.rels], ctx))

ReorderMaterialization(p, r) ==
    Result(p, SetMaterialization(p.mat, r.plan, r.ctx))

ReorderJoins(p, ctx) ==
    CASE p.node = "mat scan" ->
            ReorderMaterialization(p, ReorderJoins(ctx.mats[p.mat].plan, ctx))
      [] \/ p.node \in {"filter", "cross"}
         \/ p.node = "comparison" /\ p.type \in {"inner", "semi"}
         \/ p.node = "arbitrary" /\ p.type = "inner" ->
            ReorderGather(Gather(<<p>>, [rels |-> <<>>, conditions |-> <<>>, filters |-> <<>>]),
                          ctx)
      [] OTHER -> ReorderChildren(p, ctx)

-----------------------------------------------------------------------------
(* What a bound query must answer is given by a plan that keeps subqueries *)
(* in the expressions and evaluates them for every row.                    *)

RECURSIVE Meaning(_, _)
RECURSIVE ExprMeaning(_, _)

ExprsMeaning(exprs, c) == [i \in DOMAIN exprs |-> ExprMeaning(exprs[i], c)]
ExprMeaning(e, c) ==
    IF e.op = "subquery"
    THEN [plan |-> Meaning(e.query, c), args |-> ExprsMeaning(e.args, c)] @@ e
    ELSE [e EXCEPT !.args = ExprsMeaning(@, c)]

Rename(t, p, c) == Project(t, AllColumns(p, c), p)

RECURSIVE FromMeaning(_, _)
FromMeaning(f, c) ==
    CASE f.from = "table" -> Scan(f.table, f.source, f.width)
      [] f.from = "subquery" -> Rename(f.table, Meaning(f.query, c), c)
      [] f.from = "cte" -> Rename(f.table, Meaning(c.ctes[f.cte], c), c)
      [] f.from = "join" -> Join(IF f.lateral = {} THEN "arbitrary" ELSE "apply", f.type,
                                 f.on, FromMeaning(f.left, c), FromMeaning(f.right, c))
      [] f.from = "empty" -> SingleRow

Filtered(exprs, p, c) == IF exprs = <<>> THEN p ELSE Filter(ExprMeaning(exprs[1], c), p)
GroupedMeaning(q, p, c) ==
    IF q.aggs = <<>> /\ q.group = 0 THEN p
    ELSE Aggregate(q.aggTable, ExprsMeaning(q.aggs, c), q.group, ExprsMeaning(q.groups, c),
                   q.sets, p)
SelectMeaning(q, c) ==
    Project(q.table, ExprsMeaning(q.list, c),
        Filtered(q.having, GroupedMeaning(q, Filtered(q.where, FromMeaning(q.from, c), c), c), c))

OrderedMeaning(q, p) ==
    PlanLimit(q, PlanOrder(q, Result(p, <<>>))).plan
OutputMeaning(q, p) ==
    IF q.output = <<>> THEN p ELSE Project(q.output[1], q.output[2], p)

Meaning(q, c) ==
    CASE q.query = "select" ->
            OutputMeaning(q, OrderedMeaning(q,
                IF q.distinct THEN Distinct(SelectMeaning(q, c)) ELSE SelectMeaning(q, c)))
      [] q.query = "union" ->
            OrderedMeaning(q, UnionOf(q.table, q.all, Meaning(q.left, c), Meaning(q.right, c)))
      [] q.query = "values" -> ExpressionList(q.table, q.width, q.exprs, SingleRow)

BoundMeaning(i) == Answer(Meaning(i.query, i), i)

Expected(i) == IF i.form = "bound" THEN BoundMeaning(i) ELSE ParsedMeaning(i.query)

-----------------------------------------------------------------------------

VARIABLES
    input,      \* the parsed or bound query
    step,       \* what was done last
    plan, ctx   \* the bound query, then its plan, and the bind context

vars == <<input, step, plan, ctx>>

Unbound(form, queries) == {[form |-> form, query |-> q] : q \in queries}
Init ==
    \/ /\ input \in Unbound("parsed", ParsedQueries) \cup Unbound("wrong", WrongQueries)
       /\ step = "parsed" /\ plan = Failed /\ ctx = <<>>
    \/ /\ input \in BoundQueries
       /\ step = "bound" /\ plan = input.query
       /\ ctx = [widths |-> input.widths, mats |-> <<>>,
                 ctes |-> [i \in DOMAIN input.ctes |-> [query |-> input.ctes[i], mat |-> 0]]]

\* A step from one stage to the next, with the plan and context it leaves.
Becomes(from, to, r) ==
    /\ step = from
    /\ step' = to
    /\ plan' = r.plan
    /\ ctx' = r.ctx
    /\ UNCHANGED input

\* The rule is applied to the materialized plans as well.
OnMaterializations(mats) == [ctx EXCEPT !.mats = mats]

Bind ==
    /\ step = "parsed"
    /\ \E r \in {BindStatement(input.query)} :
          IF r.ctx.error THEN Becomes("parsed", "rejected", Result(Failed, ctx))
          ELSE Becomes("parsed", "bound", Result(r.query, PlannerContext(r.ctx)))

Plan == step = "bound" /\ \E r \in {PlanQuery(plan, ctx)} : Becomes("bound", "planned", r)

ExpressionRewrite ==
    Becomes("planned", "expression_rewrite", Result(RewriteExpressions(plan), ctx))

FilterPushdown1 ==
    /\ step = "expression_rewrite"
    /\ \E r \in {Pushdown(NoFilters, plan, ctx)} :
          Becomes("expression_rewrite", "filter_pushdown_1", r)

LimitPushdown == Becomes("filter_pushdown_1", "limit_pushdown", Result(PushLimits(plan), ctx))

ColumnPruning ==
    step = "limit_pushdown" /\ \E r \in {PruneColumns(plan, ctx)} : Becomes("limit_pushdown", "column_pruning", r)

ScanFilterPushdown ==
    Becomes("column_pruning", "scan_filter_pushdown",
        Result(PushScanFilters(plan), OnMaterializations([m \in DOMAIN ctx.mats |->
                [ctx.mats[m] EXCEPT !.plan = PushScanFilters(@)]])))

CommonSubExpression ==
    step = "scan_filter_pushdown" /\ \E r \in {ShareExpressions(plan, ctx)} : Becomes("scan_filter_pushdown", "cse", r)

JoinReordering ==
    step = "cse" /\ \E r \in {ReorderJoins(plan, ctx)} : Becomes("cse", "join_reorder", r)

SortLimitHint ==
    Becomes("join_reorder", "sort_limit_hint",
        Result(HintSorts(plan), OnMaterializations([m \in DOMAIN ctx.mats |->
                [ctx.mats[m] EXCEPT !.plan = HintSorts(@)]])))

SelectionReorder ==
    Becomes("sort_limit_hint", "selection_reorder",
        Result(ReorderSelections(plan), OnMaterializations([m \in DOMAIN ctx.mats |->
                [ctx.mats[m] EXCEPT !.plan = ReorderSelections(@)]])))

Next ==
    \/ Bind
    \/ Plan
    \/ ExpressionRewrite
    \/ FilterPushdown1
    \/ LimitPushdown
    \/ ColumnPruning
    \/ ScanFilterPushdown
    \/ CommonSubExpression
    \/ JoinReordering
    \/ SortLimitHint
    \/ SelectionReorder

Spec == Init /\ [][Next]_vars

-----------------------------------------------------------------------------
(* Properties *)

SameBag(a, b) ==
    /\ Len(a) = Len(b)
    /\ \A i \in DOMAIN a : Cardinality({j \in DOMAIN a : a[j] = a[i]})
                           = Cardinality({j \in DOMAIN b : b[j] = a[i]})

HasPlan == step \notin {"parsed", "rejected", "bound"}
IsOrdered(q) == "order" \in DOMAIN q /\ q.order # <<>>

\* The plan returns the rows of the query, after planning and after every rule
\* of the optimizer: binding names, pushing filters, narrowing scans,
\* decorrelating and reordering joins change no row, and the rows of ORDER BY
\* keep their order.
AnswerKept ==
    HasPlan => IF IsOrdered(input.query) THEN Answer(plan, ctx) = Expected(input)
               ELSE SameBag(Answer(plan, ctx), Expected(input))

\* A query is rejected exactly if its names have no meaning or two, or it asks
\* for what has none; a bound query is planned, and an operator references only
\* columns that its children return, at the position where the bind context
\* says they are (logical/operator.rs).
ReferencesResolve ==
    /\ step = "rejected" => input.form = "wrong"
    /\ step = "bound" => input.form # "wrong"
    /\ HasPlan => Resolved(plan, ctx)
=============================================================================
