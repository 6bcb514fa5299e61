---------------------------- MODULE RewriteRules ----------------------------
(***************************************************************************)
(* The rules of the optimizer: the pushdown of filters, the pruning of     *)
(* columns, the rewrites of expressions (optimizer/expr_rewrite), limits   *)
(* below projections, filters copied into scans, common subexpressions,    *)
(* the limit hint of a sort and the order of the conjuncts of a filter.    *)
(***************************************************************************)
EXTENDS Plans

(***************************************************************************)
(* optimizer/filter_pushdown: filters are gathered on the way down,        *)
(* equalities derive further equalities, and what reaches a join becomes   *)
(* its condition or goes on into one side.  The rule is a function of the  *)
(* filters gathered so far, the plan and the bind context: materialized    *)
(* plans are changed in place.                                             *)
(***************************************************************************)
(* The gathered filters: FilterGenerator. *)

NoFilters == [arbitrary |-> <<>>, equivalences |-> <<>>]

TryInsert(set, left, right) ==
    CASE Contains(set, left) /\ Contains(set, right) -> set
      [] Contains(set, left) -> Append(set, right)
      [] OTHER -> Append(set, left)

MutAddExpression(filters, e) ==
    IF e.op = "=" /\ filters.equivalences # <<>>
    THEN [filters EXCEPT !.equivalences[1] = @ \o e.args]
    ELSE IF e.op = "=" THEN [filters EXCEPT !.equivalences = <<e.args>>]
    ELSE [filters EXCEPT !.arbitrary = Append(@, e)]

AddExpression(filters, e) ==
    LET sets == filters.equivalences
        of == {k \in DOMAIN sets : \E i \in 1..2 : Contains(sets[k], e.args[i])}
    IN  CASE e.op # "=" -> [filters EXCEPT !.arbitrary = Append(@, e)]
          [] e.op = "=" /\ of = {} -> [filters EXCEPT !.equivalences = Append(@, e.args)]
          [] OTHER -> [filters EXCEPT !.equivalences[Min(of)] =
                            TryInsert(@, e.args[1], e.args[2])]

AddFilters(filters, exprs) ==
    InTurn(AddExpression, filters,
           FlattenSeq([i \in DOMAIN exprs |-> SplitConjunction(exprs[i])]))

\* Every pair of an equivalence set, the last element first.
DrainInto(set) ==
    FlattenSeq([i \in DOMAIN set |->
        LET k == Len(set) + 1 - i
        IN  [j \in 1..k - 1 |-> Compare("=", set[j], set[k])]])

DrainFilters(filters) ==
    filters.arbitrary
    \o FlattenSeq([i \in DOMAIN filters.equivalences |->
                        DrainInto(filters.equivalences[i])])

(* The pushdown. *)

RECURSIVE Pushdown(_, _, _)

\* Each child with the filters given for it.
WithChild(p, i, r) == Result([p EXCEPT !.children[i] = r.plan], r.ctx)
PushdownChild(given, i, r) ==
    WithChild(r.plan, i, Pushdown(given[i], r.plan.children[i], r.ctx))
PushdownChildren(given, p, ctx) ==
    CASE Len(p.children) = 0 -> Result(p, ctx)
      [] Len(p.children) = 1 -> PushdownChild(given, 1, Result(p, ctx))
      [] OTHER -> PushdownChild(given, 2, PushdownChild(given, 1, Result(p, ctx)))

StopPushdown(filters, p, ctx) ==
    LET pushed == PushdownChildren([i \in DOMAIN p.children |-> NoFilters], p, ctx)
        filter == And(DrainFilters(filters))
    IN  CASE filters = NoFilters -> pushed
          [] filters # NoFilters /\ IsConstFoldable(filter) ->
                IF ConstantValue(filter) = 1 THEN pushed
                ELSE Result(NoRows(OutputTables(pushed.plan, pushed.ctx)), pushed.ctx)
          [] OTHER -> Result(Filter(filter, pushed.plan), pushed.ctx)

\* The materialized plan is pushed into without the filters of this scan.

PushdownMaterializedScan(filters, p, ctx) ==
    LET pushed == Pushdown(NoFilters, ctx.mats[p.mat].plan, ctx)
    IN  StopPushdown(filters, p, [pushed.ctx EXCEPT !.mats[p.mat].plan = pushed.plan])

\* The columns of a table, as the expressions they stand for.
References(t, exprs) ==
    [ref \in {<<t, i - 1>> : i \in DOMAIN exprs} |-> exprs[ref[2] + 1]]

PushdownProject(filters, p, ctx) ==
    LET below == [i \in DOMAIN DrainFilters(filters) |->
                    ReplaceColumns(DrainFilters(filters)[i], References(p.table, p.exprs))]
    IN  PushdownChildren(<<AddFilters(NoFilters, below)>>, p, ctx)

\* A filter goes below an aggregate if all grouping sets hold its columns.
MutPassesAggregate(e, p) == p.table \notin TableRefs(e) /\ p.group # 0

PassesAggregate(e, p) ==
    /\ p.table \notin TableRefs(e)
    /\ p.group # 0
    /\ \A s \in Range(p.sets) : \A ref \in Range(ColumnRefs(e)) : ref[2] \in s

PushdownAggregate(filters, p, ctx) ==
    LET passing == SelectSeq(DrainFilters(filters), LAMBDA e : PassesAggregate(e, p))
        staying == SelectSeq(DrainFilters(filters), LAMBDA e : ~ PassesAggregate(e, p))
        groups == SubSeq(p.exprs, p.aggregates + 1, Len(p.exprs))
        below == [i \in DOMAIN passing |->
                    ReplaceColumns(passing[i], References(p.group, groups))]
        pushed == PushdownChildren(<<AddFilters(NoFilters, below)>>, p, ctx)
    IN  StopPushdown(AddFilters(NoFilters, staying), pushed.plan, pushed.ctx)

\* The tables of the two sides, as filters above the join see them.
LeftTables(p, ctx) == Range(OutputTables(p.children[1], ctx))
RightTables(p, ctx) ==
    IF p.type = "mark" THEN {p.mark} ELSE Range(OutputTables(p.children[2], ctx))

FiltersOn(side, filters, p, ctx) ==
    SelectSeq(DrainFilters(filters), LAMBDA e :
        ExprJoinSide(TableRefs(e), LeftTables(p, ctx), RightTables(p, ctx)) \in side)

\* The filters of the left side go into the materialization, which both sides
\* of a magic join read.
PushdownMagicJoin(filters, p, ctx) ==
    LET left == FiltersOn({"left"}, filters, p, ctx)
        staying == FiltersOn({"right", "both", "none"}, filters, p, ctx)
        mat == p.children[1].mat
        pushed == Pushdown(AddFilters(NoFilters, left), ctx.mats[mat].plan, ctx)
        right == Pushdown(NoFilters, p.children[2],
                          [pushed.ctx EXCEPT !.mats[mat].plan = pushed.plan])
    IN  CASE p.type \notin {"left", "mark"} -> StopPushdown(filters, p, ctx)
          [] FiltersOn({"error"}, filters, p, ctx) # <<>>
             \/ p.children[1].node # "mat scan" -> Result(Failed, ctx)
          [] OTHER -> StopPushdown(AddFilters(NoFilters, staying),
                                   [p EXCEPT !.children[2] = right.plan], right.ctx)

PushdownCrossJoin(filters, p, ctx) ==
    LET lefts == LeftTables(p, ctx)
        rights == RightTables(p, ctx)
        exprs == FiltersOn({"both", "none"}, filters, p, ctx)
        pushed == PushdownChildren(
                    <<AddFilters(NoFilters, FiltersOn({"left"}, filters, p, ctx)),
                      AddFilters(NoFilters, FiltersOn({"right"}, filters, p, ctx))>>,
                    CrossJoin(p.children[1], p.children[2]), ctx)
        found == Extract(exprs, lefts, rights, "inner")
    IN  CASE filters = NoFilters -> Result(CrossJoin(p.children[1], p.children[2]), ctx)
          [] FiltersOn({"error"}, filters, p, ctx) # <<>> -> Result(Failed, ctx)
          [] filters # NoFilters /\ exprs = <<>> -> pushed
          [] OTHER -> Result(PlanJoinFromConditions("inner", found.comparisons,
                                found.arbitrary, pushed.plan.children[1],
                                pushed.plan.children[2]), pushed.ctx)

\* A filter that is just the mark of the join.

IsMark(e, p) == p.type = "mark" /\ e.op = "column" /\ e.ref[1] = p.mark

\* The filters of the right side of a LEFT join stay above it.
MutPushableRight(p) == {"left", "right"}
PushableRight(p) == {"left"}

\* The first filter that is just the mark makes the join a semi join and goes.
PushdownOuterJoin(filters, p, ctx) ==
    LET other == FiltersOn({"left", "right", "both", "none"} \ PushableRight(p),
                           filters, p, ctx)
        mark == SelectInSeq(other, LAMBDA e : IsMark(e, p))
        staying == IF mark = 0 THEN other ELSE RemoveAt(other, mark)
        join == IF mark = 0 THEN p
                ELSE Join(p.node, "semi", p.exprs, p.children[1], p.children[2])
        pushed == PushdownChildren(
                    <<AddFilters(NoFilters, FiltersOn({"left"}, filters, p, ctx)),
                      IF "right" \in PushableRight(p)
                      THEN AddFilters(NoFilters, FiltersOn({"right"}, filters, p, ctx))
                      ELSE NoFilters>>, join, ctx)
    IN  IF FiltersOn({"error"}, filters, p, ctx) # <<>> THEN Result(Failed, ctx)
        ELSE StopPushdown(AddFilters(NoFilters, staying), pushed.plan, pushed.ctx)

Pushdown(filters, p, ctx) ==
    CASE p.node = "filter" -> Pushdown(AddFilters(filters, p.exprs), p.children[1], ctx)
      [] p.node = "cross" -> PushdownCrossJoin(filters, p, ctx)
      [] p.node \in {"arbitrary", "comparison"} /\ p.type = "inner" ->
            PushdownCrossJoin(AddFilters(filters, p.exprs), p, ctx)
      [] p.node = "comparison" /\ p.type \in {"left", "mark"} ->
            PushdownOuterJoin(filters, p, ctx)
      [] p.node = "magic" -> PushdownMagicJoin(filters, p, ctx)
      [] p.node = "project" -> PushdownProject(filters, p, ctx)
      [] p.node = "aggregate" -> PushdownAggregate(filters, p, ctx)
      [] p.node \in {"order", "distinct"} -> PushdownChildren(<<filters>>, p, ctx)
      [] p.node = "mat scan" -> PushdownMaterializedScan(filters, p, ctx)
      [] OTHER -> StopPushdown(filters, p, ctx)

(***************************************************************************)
(* optimizer/column_prune.rs: the columns in use are collected on the way  *)
(* down, scans and projections are narrowed, and the references to what    *)
(* was narrowed are replaced on the way up.  A prune state is [implicit,   *)
(* refs, updated]: whether all columns count as used, the columns used so  *)
(* far, and the columns that were replaced.  A walk returns [plan, ctx,    *)
(* state].                                                                 *)
(***************************************************************************)
ColumnsOf(exprs) == UNION {Range(ColumnRefs(exprs[i])) : i \in DOMAIN exprs}

Pruned(plan, ctx, state) == [plan |-> plan, ctx |-> ctx, state |-> state]
PruneState(implicit, refs) == [implicit |-> implicit, refs |-> refs, updated |-> <<>>]

\* extend of the map of updated expressions: the new entries win.
Updated(state, map) == [state EXCEPT !.updated = map @@ @]

Replaced(exprs, map) == [i \in DOMAIN exprs |-> ReplaceColumns(exprs[i], map)]
ApplyUpdated(p, state) == [p EXCEPT !.exprs = Replaced(@, state.updated)]

RECURSIVE WalkPlan(_, _, _)

\* The children one after the other, with the same state.
AddWalked(r, i, walked) ==
    Pruned([r.plan EXCEPT !.children[i] = walked.plan], walked.ctx, walked.state)
WalkChildren(state, p, ctx) ==
    InTurn(LAMBDA r, i : AddWalked(r, i, WalkPlan(r.state, p.children[i], r.ctx)),
             Pruned(p, ctx, state), [i \in DOMAIN p.children |-> i])

\* Through an operator that passes the columns of its children on.
WithUpdates(r) == [r EXCEPT !.plan = ApplyUpdated(@, r.state)]
PruneThrough(state, p, ctx) == WithUpdates(WalkChildren(state, p, ctx))

\* Below an operator that gives its columns a name of its own; the state of
\* the plan above stays.
KeepState(state, r) == [WithUpdates(r) EXCEPT !.state = state]
PruneBelow(implicit, state, p, ctx) ==
    KeepState(state, WalkChildren(PruneState(implicit, ColumnsOf(p.exprs)), p, ctx))

-----------------------------------------------------------------------------
(* handle_scan *)

UsedOf(t, refs) == {ref \in refs : ref[1] = t}

ScanColumns(p, state) ==
    SetToSortSeq({ref[2] : ref \in UsedOf(p.table, state.refs)}, LAMBDA a, b : a < b)

NarrowScan(p, columns, t, ctx, state) ==
    Pruned([p EXCEPT !.table = t, !.projection = columns],
           NewTable(Len(columns), ctx),
           Updated(state, [ref \in {<<p.table, c>> : c \in Range(columns)} |->
                    Column(t, SelectInSeq(columns, LAMBDA c : c = ref[2]) - 1)]))

PruneScan(state, p, ctx) ==
    IF state.implicit \/ Range(p.projection) \subseteq Range(ScanColumns(p, state))
    THEN Pruned(p, ctx, state)
    ELSE NarrowScan(p, ScanColumns(p, state), NextTable(ctx), ctx, state)

-----------------------------------------------------------------------------
(* Projections *)

\* A projection of a projection becomes one.
RECURSIVE FlattenProjection(_)
FlattenOnto(p, child) ==
    [p EXCEPT !.exprs = Replaced(@, References(child.table, child.exprs)),
              !.children = child.children]
FlattenProjection(p) ==
    IF p.children[1].node # "project" THEN p
    ELSE FlattenOnto(p, FlattenProjection(p.children[1]))

IsPassthrough(p, ctx) ==
    LET tables == OutputTables(p.children[1], ctx)
    IN  /\ tables # <<>>
        /\ \A i \in DOMAIN p.exprs : /\ p.exprs[i].op = "column"
                                     /\ p.exprs[i].ref = <<tables[1], i - 1>>

MutCanRemove(p, used, ctx) ==
    used = {} \/ \A i \in DOMAIN p.exprs : p.exprs[i].op = "column"

CanRemove(p, used, ctx) == used = {} \/ IsPassthrough(p, ctx)

\* A projection that can go is replaced by its child; its columns are the
\* columns of the child, which may have been replaced in turn.
TakeChild(state, p, used, r) ==
    Pruned(r.plan, r.ctx,
        Updated(state, [ref \in used |-> ReplaceColumns(p.exprs[ref[2] + 1], r.state.updated)]))
RemoveProject(state, p, used, ctx) ==
    TakeChild(state, p, used,
        WalkPlan(PruneState(FALSE, {p.exprs[ref[2] + 1].ref : ref \in used}),
                 p.children[1], ctx))

\* The columns in use, in their order, under a new table ref.
UsedColumns(used) ==
    SetToSortSeq({ref[2] : ref \in used}, LAMBDA a, b : a < b)

NarrowProject(p, columns, t) ==
    [p EXCEPT !.table = t, !.exprs = [i \in DOMAIN columns |-> p.exprs[columns[i] + 1]]]
Renamed(p, columns, t) ==
    [ref \in {<<p.table, c>> : c \in Range(columns)} |->
        Column(t, SelectInSeq(columns, LAMBDA c : c = ref[2]) - 1)]

PruneUsed(state, p, used, ctx) ==
    CASE ~ state.implicit /\ CanRemove(p, used, ctx) -> RemoveProject(state, p, used, ctx)
      [] ~ state.implicit /\ ~ CanRemove(p, used, ctx)
         /\ Cardinality(used) # Len(p.exprs) ->
            PruneBelow(FALSE, Updated(state, Renamed(p, UsedColumns(used), NextTable(ctx))),
                       NarrowProject(p, UsedColumns(used), NextTable(ctx)),
                       NewTable(Cardinality(used), ctx))
      [] OTHER -> PruneBelow(FALSE, state, p, ctx)

PruneProject(state, p, ctx) ==
    PruneUsed(state, FlattenProjection(p), UsedOf(p.table, state.refs), ctx)

-----------------------------------------------------------------------------
(* Magic joins *)

\* The columns of the materialization that the magic scans in a plan use.
RECURSIVE MagicColumns(_, _)
MagicColumns(mat, p) ==
    IF p.node = "magic scan" /\ p.mat = mat THEN ColumnsOf(p.exprs)
    ELSE UNION {MagicColumns(mat, p.children[i]) : i \in DOMAIN p.children}

RECURSIVE ReplaceMagic(_, _, _)
ReplaceMagic(mat, map, p) ==
    IF p.node = "magic scan" /\ p.mat = mat
    THEN [p EXCEPT !.exprs = Replaced(@, map)]
    ELSE [p EXCEPT !.children =
            [i \in DOMAIN @ |-> ReplaceMagic(mat, map, p.children[i])]]

SetMaterialization(mat, p, ctx) ==
    [ctx EXCEPT !.mats[mat] = [plan |-> p, tables |-> OutputTables(p, ctx)]]

\* The magic scans on the right use columns of the left side, too.
SeenByMagic(state, p) ==
    [state EXCEPT !.refs = @ \cup MagicColumns(p.children[1].mat, p.children[2])]

MagicRight(p, right) ==
    WithUpdates(Pruned([p EXCEPT !.children[2] = right.plan], right.ctx, right.state))
MagicSides(p, left) ==
    MagicRight(p, WalkPlan(left.state,
        ReplaceMagic(p.children[1].mat, left.state.updated, p.children[2]),
        SetMaterialization(p.children[1].mat, left.plan, left.ctx)))
PruneMagicJoin(state, p, ctx) ==
    IF p.children[1].node # "mat scan" THEN Pruned(Failed, ctx, state)
    ELSE MagicSides(p, WalkPlan(SeenByMagic(state, p),
                                ctx.mats[p.children[1].mat].plan, ctx))

-----------------------------------------------------------------------------

Walk(state, p, ctx) ==
    CASE p.node = "magic" -> PruneMagicJoin(state, p, ctx)
      [] p.node \in {"magic scan", "mat scan"} -> Pruned(p, ctx, state)
      [] p.node = "project" -> PruneProject(state, p, ctx)
      [] p.node = "scan" -> PruneScan(state, p, ctx)
      [] p.node = "aggregate" -> PruneBelow(FALSE, state, p, ctx)
      [] p.node \in {"filter", "order", "limit", "cross", "comparison", "arbitrary"} ->
            PruneThrough(state, p, ctx)
      [] OTHER -> PruneBelow(TRUE, state, p, ctx)

WalkPlan(state, p, ctx) ==
    Walk([state EXCEPT !.refs = @ \cup ColumnsOf(p.exprs)], p, ctx)

PruneColumns(p, ctx) == WalkPlan(PruneState(TRUE, {}), p, ctx)

(***************************************************************************)
(* The rewrites of expressions and the smaller rules.                      *)
(***************************************************************************)
RECURSIVE ConstFold(_)
ConstFold(e) ==
    CASE e.op = "literal" -> e
      [] e.op # "literal" /\ IsConstFoldable(e) -> Literal(ConstantValue(e))
      [] OTHER -> IF e.op = "case" THEN e
                  ELSE [e EXCEPT !.args = Tuple([i \in DOMAIN @ |-> ConstFold(e.args[i])])]

\* a AND (b AND c) is a AND b AND c; the same for OR.
RECURSIVE UnnestOp(_, _)
UnnestOp(e, op) ==
    IF e.op = op THEN FlattenSeq([i \in DOMAIN e.args |-> UnnestOp(e.args[i], op)])
    ELSE <<e>>

MutUnnested(e) ==
    IF e.op \in {"and", "or"}
    THEN FlattenSeq([i \in DOMAIN e.args |->
            IF e.args[i].op \in {"and", "or"} THEN e.args[i].args ELSE <<e.args[i]>>])
    ELSE e.args

Unnested(e) == IF e.op \in {"and", "or"} THEN UnnestOp(e, e.op) ELSE e.args

RECURSIVE UnnestConjunction(_)
UnnestArgs(args) == Tuple([i \in DOMAIN args |-> UnnestConjunction(args[i])])
UnnestConjunction(e) == [e EXCEPT !.args = UnnestArgs(Unnested(e))]

-----------------------------------------------------------------------------
(* (a AND b) OR (a AND c) is a AND (b OR c). *)

Conjuncts(e) == IF e.op = "and" THEN e.args ELSE <<e>>

CommonExprs(args) ==
    SelectSeq(Dedup(Conjuncts(args[1])), LAMBDA e :
        \A i \in DOMAIN args : Contains(Conjuncts(args[i]), e))

\* What is left of a disjunct: a conjunction, one expression, or nothing.
Remaining(e, common) ==
    LET left == SelectSeq(Conjuncts(e), LAMBDA x : ~ Contains(common, x))
    IN  CASE left = <<>> -> <<>>
          [] Len(left) = 1 -> left
          [] OTHER -> <<And(left)>>

LiftCommon(e, common, rest) ==
    CASE common = <<>> -> e
      [] common # <<>> /\ Len(rest) < 2 -> And(common \o rest)
      [] OTHER -> And(Append(common, Or(rest)))

MaybeRewriteOr(e, common) ==
    LiftCommon(e, common,
        FlattenSeq([i \in DOMAIN e.args |-> Remaining(e.args[i], common)]))

RECURSIVE DistributiveOr(_)
DistributeArgs(e) ==
    [e EXCEPT !.args = Tuple([i \in DOMAIN @ |-> DistributiveOr(e.args[i])])]
DistributiveOr(e) ==
    DistributeArgs(IF e.op = "or" THEN MaybeRewriteOr(e, CommonExprs(e.args)) ELSE e)

-----------------------------------------------------------------------------
(* A disjunction over several tables implies, for a table that all its     *)
(* disjuncts restrict, the disjunction of these restrictions.              *)

RECURSIVE SingleTable(_, _)
SingleTable(e, t) ==
    IF e.op = "and"
    THEN FlattenSeq([i \in DOMAIN e.args |-> SingleTable(e.args[i], t)])
    ELSE IF TableRefs(e) = {t} THEN <<e>> ELSE <<>>

RestrictsAll(e, t) == \A i \in DOMAIN e.args : SingleTable(e.args[i], t) # <<>>

CanRewriteOr(e) ==
    \E i \in DOMAIN e.args : e.args[i].op = "and" /\ Cardinality(TableRefs(e.args[i])) > 1

Implied(e, t) == Or(FlattenSeq([i \in DOMAIN e.args |-> SingleTable(e.args[i], t)]))
ImpliedAll(e, tables) == [i \in DOMAIN tables |-> Implied(e, tables[i])]

RECURSIVE JoinFilterOr(_)
JoinFilterOr(e) ==
    CASE e.op = "or" /\ CanRewriteOr(e) ->
            And(Append(ImpliedAll(e, SetToSeq({t \in TableRefs(e) : RestrictsAll(e, t)})), e))
      [] e.op # "or" -> [e EXCEPT !.args = [i \in DOMAIN @ |-> JoinFilterOr(e.args[i])]]
      [] OTHER -> e

ApplyRewrites(e) == DistributiveOr(UnnestConjunction(ConstFold(e)))

RewriteExpr(p, e) ==
    IF p.node \in {"filter", "arbitrary"} THEN JoinFilterOr(ApplyRewrites(e))
    ELSE ApplyRewrites(e)

RECURSIVE RewriteExpressions(_)
RewriteExpressions(p) ==
    [p EXCEPT !.exprs = [i \in DOMAIN @ |-> RewriteExpr(p, p.exprs[i])],
              !.children = [i \in DOMAIN @ |-> RewriteExpressions(p.children[i])]]

-----------------------------------------------------------------------------
(* LimitPushdown *)

MutPushesLimit(p) == p.node = "limit" /\ p.children[1].node \in {"project", "filter"}

PushesLimit(p) == p.node = "limit" /\ p.children[1].node = "project"

LimitBelow(p) ==
    IF PushesLimit(p)
    THEN [p.children[1] EXCEPT !.children = <<[p EXCEPT !.children = p.children[1].children]>>]
    ELSE p

RECURSIVE PushLimits(_)
PushLimitsBelow(p) == [p EXCEPT !.children = [i \in DOMAIN @ |-> PushLimits(p.children[i])]]
PushLimits(p) == PushLimitsBelow(LimitBelow(p))

-----------------------------------------------------------------------------
(* ScanFilterPushdown: the filter stays where it is. *)

IsScanFilter(e) ==
    /\ e.op = "=" /\ Len(ColumnRefs(e)) = 1
    /\ \E i \in 1..2 : e.args[i].op = "column" /\ IsConstFoldable(e.args[3 - i])

ScanFilters(e) == IF e.op = "and" THEN SelectSeq(e.args, IsScanFilter) ELSE <<e>>

RECURSIVE PushScanFilters(_)
WithScanFilters(p) ==
    IF p.node = "filter" /\ p.children[1].node = "scan"
    THEN [p EXCEPT !.children[1].filters = @ \o ScanFilters(p.exprs[1])] ELSE p
PushScanFiltersBelow(p) ==
    [p EXCEPT !.children = [i \in DOMAIN @ |-> PushScanFilters(p.children[i])]]
PushScanFilters(p) == PushScanFiltersBelow(WithScanFilters(p))

-----------------------------------------------------------------------------
(* CommonSubExpression *)

RECURSIVE Extracted(_)
ExtractedArgs(e) == FlattenSeq([i \in DOMAIN e.args |-> Extracted(e.args[i])])
Extracted(e) ==
    CASE e.op \in {"column", "literal", "and", "or", "case", "subquery"} -> <<>>
      [] e.op \in Aggregates -> ExtractedArgs(e)
      [] OTHER -> <<e>> \o ExtractedArgs(e)

CommonSubexprs(exprs) ==
    LET all == FlattenSeq([i \in DOMAIN exprs |-> Extracted(exprs[i])])
    IN  {e \in Range(all) : Cardinality({i \in DOMAIN all : all[i] = e}) > 1}

\* A common expression, and every column, moves to the new projection; s is
\* [exprs, projections].

Share(e, t, s) ==
    [exprs |-> Append(s.exprs, Column(t,
        IF Contains(s.projections, e) THEN SelectInSeq(s.projections, LAMBDA x : x = e) - 1
        ELSE Len(s.projections))),
     projections |-> IF Contains(s.projections, e) THEN s.projections
                     ELSE Append(s.projections, e)]

RECURSIVE ReplaceCommon(_, _, _, _)
ReplaceCommonAll(exprs, common, t, projections) ==
    InTurn(LAMBDA s, e : ReplaceCommon(e, common, t, s),
             [exprs |-> <<>>, projections |-> projections], exprs)
WithCommon(e, s, r) ==
    [exprs |-> Append(s.exprs, [e EXCEPT !.args = r.exprs]), projections |-> r.projections]
ReplaceCommon(e, common, t, s) ==
    IF e \in common \/ e.op = "column" THEN Share(e, t, s)
    ELSE WithCommon(e, s, ReplaceCommonAll(e.args, common, t, s.projections))

RECURSIVE ShareExpressions(_, _)
AddShared(r, i, shared) ==
    Result([r.plan EXCEPT !.children[i] = shared.plan], shared.ctx)
ShareBelow(p, ctx) ==
    InTurn(LAMBDA r, i : AddShared(r, i, ShareExpressions(p.children[i], r.ctx)),
             Result(p, ctx), [i \in DOMAIN p.children |-> i])

\* The columns were given to the new table before the child is visited.
OverProjection(p, t, s, child) ==
    Result([p EXCEPT !.exprs = s.exprs, !.children = <<Project(t, s.projections, child.plan)>>],
           child.ctx)
ShareInProjection(p, t, s, ctx) ==
    OverProjection(p, t, s, ShareExpressions(p.children[1], NewTable(Len(s.projections), ctx)))
ShareOperator(p, common, ctx) ==
    IF common = {} THEN ShareBelow(p, ctx)
    ELSE ShareInProjection(p, NextTable(ctx),
            ReplaceCommonAll(p.exprs, common, NextTable(ctx), <<>>), ctx)

ShareExpressions(p, ctx) ==
    IF p.node \in {"project", "aggregate"} THEN ShareOperator(p, CommonSubexprs(p.exprs), ctx)
    ELSE ShareBelow(p, ctx)

-----------------------------------------------------------------------------
(* SortLimitHint and SelectionReorder *)

LimitHint(p) == p.limit + p.offset

RECURSIVE HintSorts(_)
WithHint(p) ==
    IF p.node = "limit" /\ p.children[1].node = "order"
    THEN [p EXCEPT !.children[1].hint = <<LimitHint(p)>>] ELSE p
HintSortsBelow(p) == [p EXCEPT !.children = [i \in DOMAIN @ |-> HintSorts(p.children[i])]]
HintSorts(p) == HintSortsBelow(WithHint(p))

ExprCost(e) ==
    CASE e.op = "literal" -> 0
      [] e.op = "column" -> 1
      [] e.op = "is null" -> 2
      [] e.op \in {"=", "not distinct"} -> 5
      [] e.op \in {"<>", "distinct"} -> 6
      [] e.op \in {"<", "<=", ">", ">="} -> 7
      [] OTHER -> 50

ReorderConj(e) ==
    IF e.op \in {"and", "or"}
    THEN [e EXCEPT !.args = SortSeq(@, LAMBDA a, b : ExprCost(a) < ExprCost(b))] ELSE e

RECURSIVE ReorderSelections(_)
ReorderSelections(p) ==
    [p EXCEPT !.exprs = IF p.node = "filter" THEN <<ReorderConj(p.exprs[1])>> ELSE @,
              !.children = [i \in DOMAIN @ |-> ReorderSelections(p.children[i])]]
=============================================================================
