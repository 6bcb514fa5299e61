------------------------------- MODULE Binder -------------------------------
(***************************************************************************)
(* From a parsed query, whose tables and columns are names, to a bound     *)
(* query (Plans) in which a column is a table ref and an index: the        *)
(* resolver tells tables, views and CTEs apart (logical/resolver), the     *)
(* binder keeps a tree of scopes (logical/binder).                         *)
(*                                                                         *)
(* A parsed query is                                                       *)
(*   [ctes, body, order, limit, offset], where order is a sequence of      *)
(*     [expr, desc, nulls], and limit and offset are <<>> or <<n>>;        *)
(*   a body is a select, values, union or nested record;                   *)
(*   a FROM clause is a tree of named, derived and joined records.         *)
(* An expression is one of Plans, with names for columns and with the      *)
(* operators that the binder replaces by others.  An identifier keeps what *)
(* was written, its lower case form, and whether it was quoted.            *)
(*                                                                         *)
(* The binding context is [scopes, tables, ctes, error]; after an error    *)
(* the rest does not matter.                                               *)
(***************************************************************************)
EXTENDS Plans

CONSTANTS
    Schema,     \* the stored tables: name -> names of the columns
    Views       \* name -> [columns, query]

\* BinderIdent
Ident(raw, normalized, quoted) ==
    [raw |-> raw, normalized |-> normalized, quoted |-> quoted]
Same(a, b) == a.normalized = b.normalized
MutStrictEq(have, lookup) == Same(have, lookup)

StrictEq(have, lookup) ==
    IF lookup.quoted THEN have.raw = lookup.raw ELSE Same(have, lookup)
Generated(name) == Ident(name, name, FALSE)

-----------------------------------------------------------------------------
(* The resolver.  Its context is [depth, ctes, error]: CTEs stay in the    *)
(* list when the query that has them is left.                              *)

RECURSIVE FindResolved(_, _, _)
FindResolved(name, ctes, depth) ==
    /\ ctes # <<>>
    /\ Last(ctes).depth <= depth
    /\ \/ Last(ctes).name = name
       \/ FindResolved(name, Front(ctes), Last(ctes).depth)

\* Names of one part are those of CTEs, then those in the schema temp.temp.
Stored == DOMAIN Schema \cup DOMAIN Views
IsTemp(parts) == \A i \in DOMAIN parts : parts[i].normalized = "temp"

RECURSIVE ResolveQuery(_, _)
RECURSIVE ResolveExpr(_, _)
RECURSIVE ResolveFrom(_, _)

Res(node, rc) == [node |-> node, rc |-> rc]
AppendNode(done, r) == Res(Append(done.node, r.node), r.rc)
ResolveExprs(exprs, rc) ==
    InTurn(LAMBDA done, e : AppendNode(done, ResolveExpr(e, done.rc)), Res(<<>>, rc), exprs)

ResolveSubquery(e, r) == Res([e EXCEPT !.query = r.node], r.rc)
ResolveArgs(e, args) ==
    IF e.op = "query" THEN ResolveSubquery([e EXCEPT !.args = args.node], ResolveQuery(e.query, args.rc))
    ELSE Res([e EXCEPT !.args = args.node], args.rc)
ResolveExpr(e, rc) ==
    IF e.op \in {"name", "literal"} THEN Res(e, rc) ELSE ResolveArgs(e, ResolveExprs(e.args, rc))

\* A name is that of a CTE, a view, which becomes a subquery, or a table.
ResolveView(f, view, r) ==
    Res([from |-> "derived", query |-> r.node, view |-> <<view>>,
         alias |-> f.alias, columns |-> f.columns], r.rc)
ResolveNamed(f, name, rc) ==
    CASE Len(f.name) = 1 /\ FindResolved(name, rc.ctes, rc.depth) ->
            Res([f EXCEPT !.from = "cte name"], rc)
      [] ~ IsTemp(Front(f.name)) \/ name \notin Stored -> Res(f, [rc EXCEPT !.error = TRUE])
      [] name \in DOMAIN Views ->
            ResolveView(f, [name |-> Generated(name), columns |-> Views[name].columns],
                        ResolveQuery(Views[name].query, rc))
      [] OTHER -> Res(f, rc)

ResolveJoin(f, left, right, on) ==
    Res([f EXCEPT !.left = left.node, !.right = right.node, !.on = on.node], on.rc)
ResolveOn(f, left, right) == ResolveJoin(f, left, right, ResolveExprs(f.on, right.rc))
ResolveRight(f, left) == ResolveOn(f, left, ResolveFrom(f.right, left.rc))
ResolveFrom(f, rc) ==
    CASE f.from = "empty" -> Res(f, rc)
      [] f.from = "named" -> ResolveNamed(f, Last(f.name).normalized, rc)
      [] f.from = "derived" -> ResolveSubquery(f, ResolveQuery(f.query, rc))
      [] f.from = "joined" -> ResolveRight(f, ResolveFrom(f.left, rc))

ResolveItem(item, r) == Res([item EXCEPT !.exprs = r.node], r.rc)
ResolveItems(list, rc) ==
    InTurn(LAMBDA done, item : AppendNode(done, ResolveItem(item, ResolveExprs(item.exprs, done.rc))),
           Res(<<>>, rc), list)

\* The clauses in the order in which they are resolved.
ResolveClause(clause, b, rc) ==
    CASE clause = "from" -> ResolveFrom(b.from, rc)
      [] clause = "list" -> ResolveItems(b.list, rc)
      [] OTHER -> ResolveExprs(b[clause], rc)
ResolvedClause(done, clause, r) == Res([done.node EXCEPT ![clause] = r.node], r.rc)
ResolveSelect(b, rc) ==
    InTurn(LAMBDA done, clause : ResolvedClause(done, clause, ResolveClause(clause, b, done.rc)),
           Res(b, rc), <<"from", "where", "list", "groups", "having">>)

RECURSIVE ResolveBody(_, _)
ResolveRows(b, rows) == Res([b EXCEPT !.rows = rows.node], rows.rc)
ResolveUnion(b, left, right) == Res([b EXCEPT !.left = left.node, !.right = right.node], right.rc)
ResolveUnionOf(b, left) == ResolveUnion(b, left, ResolveBody(b.right, left.rc))
ResolveBody(b, rc) ==
    CASE b.body = "select" -> ResolveSelect(b, rc)
      [] b.body = "values" ->
            ResolveRows(b, InTurn(LAMBDA done, row : AppendNode(done, ResolveExprs(row, done.rc)),
                                  Res(<<>>, rc), b.rows))
      [] b.body = "union" -> ResolveUnionOf(b, ResolveBody(b.left, rc))
      [] b.body = "nested" -> ResolveSubquery(b, ResolveQuery(b.query, rc))

\* A CTE is known once its body is resolved.
KnownCte(cte, rc) == [rc EXCEPT !.ctes = Append(@, [name |-> cte.name.normalized, depth |-> rc.depth])]
ResolvedCte(done, cte, r) ==
    Res(Append(done.node, [cte EXCEPT !.query = r.node]), KnownCte(cte, r.rc))
ResolveCtes(ctes, rc) ==
    InTurn(LAMBDA done, cte : ResolvedCte(done, cte, ResolveQuery(cte.query, done.rc)), Res(<<>>, rc), ctes)
ResolveOrder(q, ctes, body, order) ==
    Res([q EXCEPT !.ctes = ctes.node, !.body = body.node,
                  !.order = [i \in DOMAIN @ |-> [@[i] EXCEPT !.expr = order.node[i]]]],
        [order.rc EXCEPT !.depth = @ - 1])
ResolveBodyOf(q, ctes, body) ==
    ResolveOrder(q, ctes, body, ResolveExprs([i \in DOMAIN q.order |-> q.order[i].expr], body.rc))
ResolveWith(q, ctes) == ResolveBodyOf(q, ctes, ResolveBody(q.body, ctes.rc))
ResolveQuery(q, rc) == ResolveWith(q, ResolveCtes(q.ctes, [rc EXCEPT !.depth = @ + 1]))

NoCtes == [depth |-> 0, ctes |-> <<>>, error |-> FALSE]

-----------------------------------------------------------------------------
(* The bind context.  A scope has the tables, USING columns, correlated    *)
(* columns and CTEs of one query or one side of a join; the scope 0 is the *)
(* parent of the outermost.  A table has an alias of up to three parts.    *)

\* After an error the rest is not bound.
Try(x, Rest(_)) == IF x.ctx.error THEN x ELSE Rest(x)
Error(ctx) == [ctx EXCEPT !.error = TRUE]
ErrorIf(failed, ctx) == [ctx EXCEPT !.error = @ \/ failed]

ScopeUnder(parent) ==
    [parent |-> parent, tables |-> <<>>, using |-> <<>>, correlated |-> <<>>, ctes |-> <<>>]
NewScope(parent, ctx) == [ctx EXCEPT !.scopes = Append(@, ScopeUnder(parent))]
EmptyContext == [scopes |-> <<ScopeUnder(0)>>, tables |-> <<>>, ctes |-> <<>>, error |-> FALSE]

\* TableAlias: the parts that both have agree, from the right; equal
\* aliases agree in all.
AliasMatches(have, alias) ==
    /\ have # <<>>
    /\ \A i \in 0..Len(alias) - 1 : i < Len(have) => Same(have[Len(have) - i], alias[Len(alias) - i])
AliasEquals(a, b) ==
    a # <<>> /\ Len(a) = Len(b) /\ \A i \in DOMAIN a : Same(a[i], b[i])

TablesOf(s, ctx) == ctx.scopes[s].tables
NamesOf(s, ctx) ==
    FlattenSeq([i \in DOMAIN TablesOf(s, ctx) |-> ctx.tables[TablesOf(s, ctx)[i]].names])

NewEphemeral(names, ctx) ==
    [ctx EXCEPT !.tables = Append(@, [alias |-> <<>>, names |-> names])]
AddColumn(t, name, ctx) == [ctx EXCEPT !.tables[t].names = Append(@, name)]
InScopeOf(s, t, ctx) == [ctx EXCEPT !.scopes[s].tables = Append(@, t)]

AliasTaken(s, alias, ctx) ==
    \E i \in DOMAIN TablesOf(s, ctx) : AliasEquals(ctx.tables[TablesOf(s, ctx)[i]].alias, alias)
PushTable(s, alias, names, ctx) ==
    InScopeOf(s, Len(ctx.tables) + 1,
        [ErrorIf(AliasTaken(s, alias, ctx), ctx) EXCEPT
            !.tables = Append(@, [alias |-> alias, names |-> names])])

\* The scope of a side of a join becomes part of the scope of the join.
AppendContext(s, other, ctx) ==
    LET o == ctx.scopes[other]
        taken == \E i \in DOMAIN o.tables : AliasTaken(s, ctx.tables[o.tables[i]].alias, ctx)
    IN  [ErrorIf(taken, ctx) EXCEPT
            !.scopes[s].tables = @ \o o.tables, !.scopes[s].using = @ \o o.using,
            !.scopes[s].correlated = @ \o o.correlated]
Correlate(s, columns, ctx) == [ctx EXCEPT !.scopes[s].correlated = @ \o columns]
AppendCorrelated(s, from, ctx) == Correlate(s, ctx.scopes[from].correlated, ctx)

RECURSIVE FindCte(_, _, _)
FindCte(s, name, ctx) ==
    IF s = 0 THEN 0
    ELSE LET here == SelectInSeq(ctx.scopes[s].ctes, LAMBDA c : Same(ctx.ctes[c].name, name))
         IN  IF here # 0 THEN ctx.scopes[s].ctes[here]
             ELSE FindCte(ctx.scopes[s].parent, name, ctx)

\* The columns of a scope that a name can mean: the first USING column of the
\* name, or those of all tables.
UsingFirst(alias, using) == IF alias = <<>> /\ using # <<>> THEN {using[1].ref} ELSE {}
FindColumns(s, alias, name, ctx) ==
    LET using == SelectSeq(ctx.scopes[s].using, LAMBDA u : StrictEq(u.name, name))
        tables == {t \in Range(TablesOf(s, ctx)) :
                      alias = <<>> \/ AliasMatches(ctx.tables[t].alias, alias)}
    IN  IF UsingFirst(alias, using) # {} THEN UsingFirst(alias, using)
        ELSE UNION {{<<t, c - 1>> : c \in {i \in DOMAIN ctx.tables[t].names :
                                              StrictEq(ctx.tables[t].names[i], name)}} : t \in tables}

\* The innermost scope that has the name; the scope is 0 if none has.
RECURSIVE Lookup(_, _, _, _)
Lookup(s, alias, name, ctx) ==
    IF s = 0 THEN [scope |-> 0, refs |-> {<<0, 0>>}]
    ELSE LET refs == FindColumns(s, alias, name, ctx)
         IN  IF refs # {} THEN [scope |-> s, refs |-> refs]
             ELSE Lookup(ctx.scopes[s].parent, alias, name, ctx)

-----------------------------------------------------------------------------
(* Expressions.  The column binder b of a select list knows the aliases and *)
(* the expressions before; that of GROUP BY and ORDER BY knows the select   *)
(* list.                                                                    *)

Bnd(expr, ctx) == [expr |-> expr, ctx |-> ctx]
InFrom == [binder |-> "default"]
InSelect(aliases, previous) == [binder |-> "select", aliases |-> aliases, previous |-> previous]
OnList(list) == [binder |-> "list", list |-> list]

\* alias_map has the last of equal aliases; 0 if there is none.
AliasIndex(aliases, name) ==
    LET found == {i \in DOMAIN aliases : aliases[i] # <<>> /\ Same(aliases[i][1], name)}
    IN  IF found = {} THEN 0 ELSE Max(found)

\* column_by_user_alias_or_name, column_by_ordinal
ListColumns(list, name, ctx) ==
    IF AliasIndex(list.aliases, name) # 0 THEN {AliasIndex(list.aliases, name)}
    ELSE {i \in DOMAIN list.exprs : Same(ctx.tables[list.table].names[i], name)}
InList(list, n) == n \in 1..Len(list.exprs)
BindOrdinal(list, n, ctx) == Bnd(Column(list.table, n - 1), ErrorIf(~ InList(list, n), ctx))

\* A column of an outer scope is noted in the scope of the expression.
MutCorrelations(s, found, ref) == <<>>

Correlations(s, found, ref) ==
    IF found = s THEN <<>> ELSE <<[outer |-> found, ref |-> ref]>>
BindFound(s, found, ctx) ==
    LET ref == CHOOSE r \in found.refs : TRUE
    IN  Bnd(Column(ref[1], ref[2]),
            Correlate(s, Correlations(s, found.scope, ref),
                      ErrorIf(Cardinality(found.refs) > 1, ctx)))

\* Aliases are only tried where no column has the name.
BeforeHere(i, b) == i \in DOMAIN b.previous
BindSelectAlias(i, b, ctx) ==
    IF BeforeHere(i, b) THEN Bnd(b.previous[i], ctx) ELSE Bnd(Literal(NULL), Error(ctx))
BindListColumn(found, list, ctx) ==
    IF found = {} THEN Bnd(Literal(NULL), Error(ctx))
    ELSE Bnd(Column(list.table, Min(found) - 1), ErrorIf(Cardinality(found) > 1, ctx))
BindAlias(name, b, root, ctx) ==
    CASE b.binder = "select" -> BindSelectAlias(AliasIndex(b.aliases, name), b, ctx)
      [] b.binder = "list" /\ root -> BindListColumn(ListColumns(b.list, name, ctx), b.list, ctx)
      [] OTHER -> Bnd(Literal(NULL), Error(ctx))
BindName(idents, s, b, root, ctx) ==
    LET found == Lookup(s, Front(idents), Last(idents), ctx)
    IN  CASE found.scope # 0 -> BindFound(s, found, ctx)
          [] found.scope = 0 /\ Len(idents) = 1 -> BindAlias(idents[1], b, root, ctx)
          [] OTHER -> Bnd(Literal(NULL), Error(ctx))

\* What the binder makes of an operator: one or several of another kind.
InRange(a) == And(<<Compare(">=", a[1], a[2]), Compare("<=", a[1], a[3])>>)
Operator(op, a) ==
    CASE op = "nested" -> a[1]
      [] op = "between" -> InRange(a)
      [] op = "not between" -> Or(<<Compare("<", a[1], a[2]), Compare(">", a[1], a[3])>>)
      [] op = "in" -> Or([i \in 1..Len(a) - 1 |-> Compare("=", a[1], a[i + 1])])
      [] op = "not in" -> And([i \in 1..Len(a) - 1 |-> Compare("<>", a[1], a[i + 1])])
      [] op = "case of" ->      \* the operand is compared with each WHEN
            Apply("case", [i \in 1..Len(a) - 1 |->
                IF i % 2 = 1 /\ i < Len(a) - 1 THEN Compare("=", a[1], a[i + 1]) ELSE a[i + 1]])
      [] op = "coalesce" ->
            Apply("case", FlattenSeq([i \in DOMAIN a |-> <<Apply("is not null", <<a[i]>>), a[i]>>]))
      [] op = "count" /\ a = <<>> -> Apply("count", <<Literal(1)>>)
      [] OTHER -> Apply(op, a)

MutNegate(cmp) == Flip(cmp)

Negate(cmp) ==
    CASE cmp = "=" -> "<>" [] cmp = "<>" -> "=" [] cmp = "<" -> ">="
      [] cmp = ">=" -> "<" [] cmp = ">" -> "<=" [] cmp = "<=" -> ">"

OutputTable(q) == IF q.query = "select" /\ q.output # <<>> THEN q.output[1] ELSE q.table

SubqueryExpr(e, left, query, outer) ==
    CASE e.kind = "any" -> AnyOf(e.cmp, left[1], query, outer)
      [] e.kind = "all" -> Apply("not", <<AnyOf(Negate(e.cmp), left[1], query, outer)>>)
      [] e.kind = "not in" -> Apply("not", <<AnyOf("=", left[1], query, outer)>>)
      [] OTHER -> Subquery(e.kind, query, outer)

RECURSIVE BindQuery(_, _, _)
RECURSIVE BindExpr(_, _, _, _, _)

\* Columns that are not of the scope s either are correlated in it too.
PassedOn(s, columns) == SelectSeq(columns, LAMBDA k : k.outer # s)
BindSubqueryIn(e, left, s, nested, q) ==
    LET columns == q.ctx.scopes[nested].correlated
        width == Len(q.ctx.tables[OutputTable(q.query)].names)
        wrong == width = 0 \/ (e.kind \notin {"exists", "not exists"} /\ width # 1)
    IN  Bnd(SubqueryExpr(e, left, q.query, {columns[i].ref : i \in DOMAIN columns}),
            Correlate(s, PassedOn(s, columns), ErrorIf(wrong, q.ctx)))

AppendExpr(done, r) == Try(r, LAMBDA x : [exprs |-> Append(done.exprs, x.expr), ctx |-> x.ctx])
BindExprs(exprs, s, b, root, ctx) ==
    InTurn(LAMBDA done, e :
              Try(done, LAMBDA before : AppendExpr(before, BindExpr(e, s, b, root, before.ctx))),
           [exprs |-> <<>>, ctx |-> ctx], exprs)
BindArgs(e, s, args) ==
    IF e.op # "query" THEN Bnd(Operator(e.op, args.exprs), args.ctx)
    ELSE LET nested == Len(args.ctx.scopes) + 1 IN
         Try(BindQuery(e.query, nested, NewScope(s, args.ctx)),
             LAMBDA q : BindSubqueryIn(e, args.exprs, s, nested, q))

BindExpr(e, s, b, root, ctx) ==
    CASE e.op = "column" -> Bnd(e, ctx)        \* from a wildcard
      [] e.op = "name" -> BindName(e.idents, s, b, root, ctx)
      [] e.op = "literal" ->
            IF b.binder = "list" /\ root THEN BindOrdinal(b.list, e.val, ctx) ELSE Bnd(e, ctx)
      [] OTHER -> Try(BindExprs(e.args, s, b, FALSE, ctx), LAMBDA args : BindArgs(e, s, args))

-----------------------------------------------------------------------------
(* FROM *)

Bound1(from, ctx) == [from |-> from, ctx |-> ctx]

\* The first names are replaced; there may be fewer aliases than columns.
WithAliases(names, aliases) ==
    [i \in DOMAIN names |-> IF i \in DOMAIN aliases THEN aliases[i] ELSE names[i]]
TooMany(aliases, names) == Len(aliases) > Len(names)
PushFrom(s, alias, names, f, ctx) ==
    IF f.alias = <<>> THEN PushTable(s, alias, names, ctx)
    ELSE PushTable(s, <<f.alias[1]>>, WithAliases(names, f.columns),
                   ErrorIf(TooMany(f.columns, names), ctx))

RECURSIVE BindFrom(_, _, _)

BindTable(f, s, ctx) ==
    LET name == Last(f.name).normalized
        after == PushFrom(s, <<Generated("temp"), Generated("temp"), Generated(name)>>,
                          Schema[name], f, ctx)
    IN  Bound1(Table(Len(after.tables), name, Len(Schema[name])), after)

BindCteName(f, s, found, ctx) ==
    IF found = 0 THEN Bound1(Nothing, Error(ctx))
    ELSE LET cte == ctx.ctes[found]
             after == PushFrom(s, <<cte.name>>, cte.names, f, ctx)
         IN  Bound1(IF cte.materialized THEN Cte(Len(after.tables), found)
                    ELSE Derived(Len(after.tables), cte.query), after)

\* A view is in a scope of its own.
BindDerivedIn(f, s, nested, q) ==
    LET names == NamesOf(nested, q.ctx)
        view == f.view # <<>>
        aliases == IF view THEN f.view[1].columns ELSE <<>>
        after == PushFrom(s, IF view THEN <<f.view[1].name>> ELSE <<>>,
                          WithAliases(names, aliases), f,
                          ErrorIf(TooMany(aliases, names), q.ctx))
    IN  Bound1(Derived(Len(after.tables), q.query), AppendCorrelated(s, nested, after))
ViewParent(f, s) == IF f.view = <<>> THEN s ELSE 0
BindDerived(f, s, nested, ctx) ==
    Try(BindQuery(f.query, nested, NewScope(ViewParent(f, s), ctx)),
        LAMBDA q : BindDerivedIn(f, s, nested, q))

\* Columns of the right side that name a column of the left one.
LateralColumns(l, r, ctx) ==
    {k.ref : k \in {c \in Range(ctx.scopes[r].correlated) : c.outer = l}}

Common(l, r, ctx) ==
    SelectSeq(NamesOf(r, ctx),
              LAMBDA name : \E i \in DOMAIN NamesOf(l, ctx) : Same(NamesOf(l, ctx)[i], name))
UsingNames(f, l, r, ctx) ==
    CASE f.cond = "using" -> f.using [] f.cond = "natural" -> Common(l, r, ctx) [] OTHER -> <<>>

\* The column that stands for both; a right join has all rows of the right.
UsingColumn(type, left, right) == IF type = "right" THEN right ELSE left
ColumnAt(ref) == Column(ref[1], ref[2])
AppendUsing(s, column, ctx) ==
    [ctx EXCEPT !.scopes[s].using =
        IF \E i \in DOMAIN @ : Same(@[i].name, column.name) THEN @ ELSE Append(@, column)]
UsingFound(done, name, type, s, left, right) ==
    IF Cardinality(left) # 1 \/ Cardinality(right) # 1 THEN [done EXCEPT !.ctx = Error(@)]
    ELSE LET l == CHOOSE ref \in left : TRUE
             r == CHOOSE ref \in right : TRUE
         IN  [exprs |-> Append(done.exprs, Compare("=", ColumnAt(l), ColumnAt(r))),
              ctx |-> AppendUsing(s, [name |-> name, ref |-> UsingColumn(type, l, r)], done.ctx)]
AddUsing(done, name, type, s, l, r) ==
    UsingFound(done, name, type, s, FindColumns(l, <<>>, name, done.ctx), FindColumns(r, <<>>, name, done.ctx))

WithoutRight(f, s, r, ctx) ==
    IF f.type # "semi" THEN ctx
    ELSE [ctx EXCEPT !.scopes[s].tables = SelectSeq(@, LAMBDA t : ~ Contains(TablesOf(r, ctx), t))]

JoinBound(f, s, l, r, left, right, on) ==
    Bound1(JoinOf(f.type, on.exprs, LateralColumns(l, r, right.ctx), left.from, right.from),
           WithoutRight(f, s, r, on.ctx))
BindCondition(f, s, l, r, ctx) ==
    InTurn(LAMBDA done, name : Try(done, LAMBDA before : AddUsing(before, name, f.type, s, l, r)),
           BindExprs(f.on, s, InFrom, TRUE, AppendContext(s, r, AppendContext(s, l, ctx))),
           UsingNames(f, l, r, ctx))
\* The scope of the right side is a child of that of the left side.
BindRight(f, s, l, r, left) ==
    Try(BindFrom(f.right, r, NewScope(l, left.ctx)), LAMBDA right :
        Try(BindCondition(f, s, l, r, right.ctx), LAMBDA on : JoinBound(f, s, l, r, left, right, on)))
BindJoin(f, s, l, ctx) ==
    Try(BindFrom(f.left, l, NewScope(s, ctx)),
        LAMBDA left : BindRight(f, s, l, Len(left.ctx.scopes) + 1, left))

BindFrom(f, s, ctx) ==
    CASE f.from = "empty" -> Bound1(Nothing, ctx)
      [] f.from = "named" -> BindTable(f, s, ctx)
      [] f.from = "cte name" ->
            BindCteName(f, s, FindCte(s, f.name[1], ctx), ctx)
      [] f.from = "derived" -> BindDerived(f, s, Len(ctx.scopes) + 1, ctx)
      [] f.from = "joined" -> BindJoin(f, s, Len(ctx.scopes) + 1, ctx)
-----------------------------------------------------------------------------
(* The select list.  An item is an expression with an alias, a wildcard or *)
(* COLUMNS; expanded, it is a sequence of [expr, alias, name], where the   *)
(* name is that of a column.                                               *)

ExpandedColumn(t, c, name) == [expr |-> Column(t, c), alias |-> <<>>, name |-> <<name>>]
ColumnsOfTable(t, ctx) ==
    [c \in DOMAIN ctx.tables[t].names |-> ExpandedColumn(t, c - 1, ctx.tables[t].names[c])]
ColumnsInScope(s, ctx) ==
    FlattenSeq([i \in DOMAIN TablesOf(s, ctx) |-> ColumnsOfTable(TablesOf(s, ctx)[i], ctx)])

\* USING columns come first, and only once.
MutNotUsing(s, ctx) == ColumnsInScope(s, ctx)

NotUsing(s, ctx) ==
    SelectSeq(ColumnsInScope(s, ctx), LAMBDA item :
        ~ \E i \in DOMAIN ctx.scopes[s].using : Same(ctx.scopes[s].using[i].name, item.name[1]))
Wildcard(s, ctx) ==
    LET using == ctx.scopes[s].using
    IN  [i \in DOMAIN using |-> ExpandedColumn(using[i].ref[1], using[i].ref[2], using[i].name)]
        \o NotUsing(s, ctx)
QualifiedWildcard(s, table, ctx) ==
    LET i == SelectInSeq(TablesOf(s, ctx), LAMBDA t : AliasMatches(ctx.tables[t].alias, <<table>>))
    IN  IF i = 0 THEN <<>> ELSE ColumnsOfTable(TablesOf(s, ctx)[i], ctx)

Named1(name, items) == \E i \in DOMAIN items : Same(items[i].name[1], name)
Exclude(items, names) ==
    SelectSeq(items, LAMBDA item : ~ \E i \in DOMAIN names : Same(names[i], item.name[1]))
Replace(items, names, exprs) ==
    [i \in DOMAIN items |->
        LET r == SelectInSeq(names, LAMBDA n : Same(n, items[i].name[1]))
        IN  IF r = 0 THEN items[i]
            ELSE [expr |-> exprs[r], alias |-> items[i].name, name |-> <<>>]]
\* Names of EXCLUDE and REPLACE that no column has are errors.
ExcludeAndReplace(item, items) ==
    LET kept == Exclude(items, item.exclude)
    IN  [items |-> Replace(kept, item.replace, item.exprs),
         error |-> \/ items = <<>> /\ item.table # <<>>
                   \/ \E i \in DOMAIN item.exclude : ~ Named1(item.exclude[i], items)
                   \/ \E i \in DOMAIN item.replace : ~ Named1(item.replace[i], kept)]

ExpandItem(item, s, ctx) ==
    CASE item.item = "expr" ->
            [items |-> <<[expr |-> item.exprs[1], alias |-> item.alias, name |-> <<>>]>>, error |-> FALSE]
      [] item.item = "star" ->
            ExcludeAndReplace(item, IF item.table = <<>> THEN Wildcard(s, ctx)
                                    ELSE QualifiedWildcard(s, item.table[1], ctx))
      [] item.item = "columns" ->
            [items |-> SelectSeq(ColumnsInScope(s, ctx), LAMBDA c : c.name[1].raw \in item.matching),
             error |-> FALSE]
AppendItems(done, r) == [items |-> done.items \o r.items, error |-> done.error \/ r.error]
ExpandAll(list, s, ctx) ==
    InTurn(LAMBDA done, item : AppendItems(done, ExpandItem(item, s, ctx)),
           [items |-> <<>>, error |-> FALSE], list)

\* generate_column_name
GeneratedName(e, ctx) ==
    CASE e.op = "column" -> Generated(ctx.tables[e.ref[1]].names[e.ref[2] + 1].raw)
      [] e.op \in Aggregates \cup {"is null", "is not null"} -> Generated(e.op)
      [] e.op = "subquery" /\ e.kind = "scalar" ->
            Generated(ctx.tables[OutputTable(e.query)].names[1].raw)
      [] OTHER -> Generated("?column?")

AppendItem(done, item, r) ==
    Try(r, LAMBDA x : [done EXCEPT !.exprs = Append(@, x.expr), !.ctx = x.ctx,
                          !.names = Append(@, IF item.name # <<>> THEN item.name[1]
                                              ELSE GeneratedName(x.expr, x.ctx))])
BindItem(done, item, s) ==
    Try(done, LAMBDA d : AppendItem(d, item,
        BindExpr(item.expr, s, InSelect(d.aliases, d.exprs), TRUE, d.ctx)))
BindItems(list, s, ctx) ==
    InTurn(LAMBDA done, item : BindItem(done, item, s),
           [aliases |-> [i \in DOMAIN list.items |-> list.items[i].alias], exprs |-> <<>>, names |-> <<>>,
            ctx |-> ErrorIf(list.error \/ list.items = <<>>, ctx)], list.items)

\* extract_aggregates: [exprs, aggs], with columns of the table t for aggregates.
RECURSIVE ExtractAggregate(_, _, _)
AppendExtracted(done, r) == [exprs |-> Append(done.exprs, r.expr), aggs |-> r.aggs]
ExtractAggregates(exprs, t, aggs) ==
    InTurn(LAMBDA done, e : AppendExtracted(done, ExtractAggregate(e, t, done.aggs)),
           [exprs |-> <<>>, aggs |-> aggs], exprs)
AggregatedArgs(e, r) == [expr |-> [e EXCEPT !.args = r.exprs], aggs |-> r.aggs]
ExtractAggregate(e, t, aggs) ==
    IF e.op \in Aggregates THEN [expr |-> Column(t, Len(aggs)), aggs |-> Append(aggs, e)]
    ELSE AggregatedArgs(e, ExtractAggregates(e.args, t, aggs))

\* SelectList: the expressions, those appended for ORDER BY, and the aggregates.
ListOf(t, aliases, r) ==
    [table |-> t, aliases |-> aliases, exprs |-> r.exprs, appended |-> <<>>, aggTable |-> t + 1, aggs |-> r.aggs]
SelectList(bound, t) == ListOf(t, bound.aliases, ExtractAggregates(bound.exprs, t + 1, <<>>))
ListTables(bound) == NewEphemeral(<<>>, NewEphemeral(bound.names, bound.ctx))

-----------------------------------------------------------------------------
(* ORDER BY, LIMIT, GROUP BY and HAVING *)

\* An expression that is no column of the select list is appended to it.

OnSelectList(e, list) == e.op = "column" /\ e.ref[1] = list.table
AppendProjection(list, r) == [list EXCEPT !.appended = Append(@, r.expr), !.aggs = r.aggs]

NullsFirst(by) == IF by.nulls = <<>> THEN by.desc ELSE by.nulls[1]
OrderKey(e, by) == [expr |-> e, desc |-> by.desc, nulls_first |-> NullsFirst(by)]
AppendKey(done, by, r) ==
    IF OnSelectList(r.expr, done.list)
    THEN [done EXCEPT !.ctx = r.ctx, !.keys = Append(@, OrderKey(r.expr, by))]
    ELSE [list |-> AppendProjection(done.list, ExtractAggregate(r.expr, done.list.aggTable, done.list.aggs)),
          ctx |-> AddColumn(done.list.table, Generated("__appended_proj"), r.ctx),
          keys |-> Append(done.keys, OrderKey(Column(done.list.table,
                                                Len(done.list.exprs) + Len(done.list.appended)), by))]
BindOrderKey(done, by, s) ==
    Try(BindExpr(by.expr, s, OnList(done.list), TRUE, done.ctx), LAMBDA r : AppendKey(done, by, r))
BindOrderBy(order, s, list, ctx) ==
    InTurn(LAMBDA done, by : Try(done, LAMBDA before : BindOrderKey(before, by, s)),
           [keys |-> <<>>, list |-> list, ctx |-> ctx], order)

BindLimit(q) ==
    IF q.limit = <<>> THEN <<>>
    ELSE <<q.limit[1], IF q.offset = <<>> THEN 0 ELSE q.offset[1]>>
LimitWrong(q) ==
    \/ q.limit = <<>> /\ q.offset # <<>>
    \/ q.limit # <<>> /\ q.limit[1] < 0
    \/ q.offset # <<>> /\ q.offset[1] < 0

MutGroupingSets(kind, n) == <<0..n - 1>>

GroupingSets(kind, n) ==
    CASE kind = "exprs" -> <<0..n - 1>>
      [] kind = "rollup" -> [i \in 1..n + 1 |-> 0..n - i]
      [] kind = "cube" -> [m \in 1..2 ^ n |-> {i \in 0..n - 1 : ((m - 1) \div 2 ^ i) % 2 = 1}]

\* update_group_by_dependencies: an expression grouped by its alias or ordinal
\* moves to the group, then group columns replace equal expressions.
SwapWithGroup(done, i, t, group) ==
    LET e == done.groups[i]
    IN  IF e.op = "column" /\ e.ref[1] = t
        THEN [groups |-> [done.groups EXCEPT ![i] = done.exprs[e.ref[2] + 1]],
              exprs |-> [done.exprs EXCEPT ![e.ref[2] + 1] = Column(group, i - 1)]]
        ELSE done
RECURSIVE ReplaceExpr(_, _, _)
ReplaceExpr(e, by, column) ==
    IF e = by THEN column
    ELSE [e EXCEPT !.args = [i \in DOMAIN @ |-> ReplaceExpr(@[i], by, column)]]
GroupColumns(exprs, groups, group) ==
    [k \in DOMAIN exprs |->
        InTurn(LAMBDA e, i : ReplaceExpr(e, groups[i], Column(group, i - 1)),
               exprs[k], [i \in DOMAIN groups |-> i])]

\* verify_column_references
MutUngrouped(exprs, tables) == FALSE

Ungrouped(exprs, tables) == \E i \in DOMAIN exprs : ~ TableRefs(exprs[i]) \subseteq tables

\* finalize: the columns have the aliases for names, and only the projections
\* that were asked for leave the query.
FinalNames(list, ctx) ==
    [i \in DOMAIN list.exprs |->
        LET alias == list.aliases[i]
        IN  IF alias # <<>> /\ AliasIndex(list.aliases, alias[1]) = i THEN alias[1]
            ELSE ctx.tables[list.table].names[i]]

-----------------------------------------------------------------------------
(* SELECT, set operations, VALUES and WITH *)

Bq(query, ctx) == [query |-> query, ctx |-> ctx]

SwapGroups(d) ==
    InTurn(LAMBDA done, i : SwapWithGroup(done, i, d.list.table, d.group),
           [groups |-> d.groups, exprs |-> d.list.exprs], [i \in DOMAIN d.groups |-> i])
\* The select list and HAVING refer to groups.
OnGroups(d, swapped) ==
    [d EXCEPT !.groups = swapped.groups, !.having = GroupColumns(@, swapped.groups, d.group),
              !.exprs = GroupColumns(swapped.exprs \o d.list.appended, swapped.groups, d.group)]
WronglyGrouped(d) ==
    \/ (d.aggs # <<>> \/ d.group # 0) /\ Ungrouped(d.exprs, {d.list.aggTable, d.group})
    \/ Ungrouped(d.having, {d.list.aggTable, d.group})

AppendedNames(d) == [i \in DOMAIN d.list.appended |-> Generated("__appended_proj")]
NameTables(d, names, ctx) ==
    [ErrorIf(WronglyGrouped(d), ctx) EXCEPT
        !.tables[d.list.table].names = names \o AppendedNames(d),
        !.tables[d.list.aggTable].names = [i \in DOMAIN d.aggs |-> Generated("agg")]]
PruneTable(d, names, ctx) == IF d.list.appended = <<>> THEN ctx ELSE NewEphemeral(names, ctx)
Output(d, t) ==
    IF d.list.appended = <<>> THEN <<>>
    ELSE <<t, [i \in DOMAIN d.list.exprs |-> Column(d.list.table, i - 1)]>>
SelectOf(d, output) ==
    [Select(d.list.table, d.exprs, d.from) EXCEPT
        !.where = d.where, !.aggTable = d.list.aggTable, !.aggs = d.aggs, !.group = d.group,
        !.groups = d.groups, !.sets = d.sets, !.having = d.having, !.distinct = d.distinct,
        !.order = d.keys, !.limit = d.limit, !.output = output]
SelectInScope(query, s, f, ctx) == Bq(query, AppendCorrelated(s, f, InScopeOf(s, OutputTable(query), ctx)))

FinishSelect(d, s, f, ctx) ==
    LET names == FinalNames(d.list, ctx)
        after == PruneTable(d, names, NameTables(d, names, ctx))
    IN  SelectInScope(SelectOf(d, Output(d, Len(after.tables))), s, f, after)

\* d has the parts of the query as they are bound, before they refer to groups.
BindGrouped(d, s, f, ctx) == FinishSelect(OnGroups(d, SwapGroups(d)), s, f, ctx)

BindGroups(b, s, list, ctx) ==
    IF b.group = "none" THEN [exprs |-> <<>>, ctx |-> ctx]
    ELSE BindExprs(b.groups, s, OnList(list), TRUE,
                   NewEphemeral([i \in DOMAIN b.groups |-> Generated("group")], ctx))

SelectParts(q, b, from, where, order, groups, having) ==
    [list |-> order.list, exprs |-> <<>>, from |-> from.from, where |-> where.exprs, keys |-> order.keys,
     aggs |-> having.aggs, having |-> having.exprs, groups |-> groups.exprs,
     group |-> IF b.group = "none" THEN 0 ELSE Len(order.ctx.tables) + 1,
     sets |-> IF b.group = "none" THEN <<>> ELSE GroupingSets(b.group, Len(b.groups)),
     distinct |-> b.distinct, limit |-> BindLimit(q)]

BindSelectIn(q, b, s, f, ctx) ==
    Try(BindFrom(b.from, f, ctx), LAMBDA from :
    Try(BindItems(ExpandAll(b.list, f, from.ctx), f, from.ctx), LAMBDA items :
    Try(BindExprs(b.where, f, InFrom, TRUE, ListTables(items)), LAMBDA where :
    Try(BindOrderBy(q.order, f, SelectList(items, Len(items.ctx.tables) + 1), where.ctx), LAMBDA order :
    Try(BindGroups(b, f, order.list, ErrorIf(LimitWrong(q), order.ctx)), LAMBDA groups :
    Try(BindExprs(b.having, f, InFrom, TRUE, groups.ctx), LAMBDA having :
        BindGrouped(SelectParts(q, b, from, where, order, groups,
                            ExtractAggregates(having.exprs, order.list.aggTable, order.list.aggs)),
                s, f, having.ctx)))))))
BindSelect(q, s, ctx) == BindSelectIn(q, q.body, s, Len(ctx.scopes) + 1, NewScope(s, ctx))

RECURSIVE BindBody(_, _, _)

Unmodified(body) == [body |-> body, order |-> <<>>, limit |-> <<>>, offset |-> <<>>]
BindUnionOf(q, s, l, r, left, right) ==
    LET names == NamesOf(l, right.ctx)
        wrong == TooMany(names, NamesOf(r, right.ctx)) \/ q.order # <<>> \/ LimitWrong(q)
        after == PushTable(s, <<>>, names, ErrorIf(wrong, right.ctx))
    IN  Bq([Union(Len(after.tables), left.query, right.query) EXCEPT
                !.all = q.body.all, !.limit = BindLimit(q)], after)
BindUnionRight(q, s, l, r, left) ==
    Try(BindBody(Unmodified(q.body.right), r, NewScope(s, left.ctx)),
        LAMBDA right : BindUnionOf(q, s, l, r, left, right))
BindUnion(q, s, l, ctx) ==
    Try(BindBody(Unmodified(q.body.left), l, NewScope(s, ctx)),
        LAMBDA left : BindUnionRight(q, s, l, Len(left.ctx.scopes) + 1, left))

ColumnName == <<Generated("column1"), Generated("column2"), Generated("column3")>>
ValuesBound(b, s, width, r) ==
    LET wrong == \E i \in DOMAIN b.rows : Len(b.rows[i]) # width
        after == PushTable(s, <<>>, [c \in 1..width |-> ColumnName[c]], ErrorIf(wrong, r.ctx))
    IN  Bq(Values(Len(after.tables), width, r.exprs), after)
BindValues(b, s, ctx) ==
    Try(BindExprs(FlattenSeq(b.rows), s, InFrom, TRUE, ctx), LAMBDA r : ValuesBound(b, s, Len(b.rows[1]), r))

BindBody(q, s, ctx) ==
    CASE q.body.body = "select" -> BindSelect(q, s, ctx)
      [] q.body.body = "union" -> BindUnion(q, s, Len(ctx.scopes) + 1, ctx)
      [] q.body.body = "values" -> BindValues(q.body, s, ctx)
      [] q.body.body = "nested" -> BindQuery(q.body.query, s, ctx)

\* A CTE is bound in a scope of its own and known in the scope of the query.
AddCte(cte, s, nested, q) ==
    LET names == NamesOf(nested, q.ctx)
        known == \E i \in DOMAIN q.ctx.scopes[s].ctes :
                    Same(q.ctx.ctes[q.ctx.scopes[s].ctes[i]].name, cte.name)
    IN  [ErrorIf(TooMany(cte.columns, names) \/ known, q.ctx) EXCEPT
            !.ctes = Append(@, [name |-> cte.name, names |-> WithAliases(names, cte.columns),
                                materialized |-> cte.materialized, query |-> q.query, mat |-> 0]),
            !.scopes[s].ctes = Append(@, Len(q.ctx.ctes) + 1)]
BindCte(cte, s, nested, done) ==
    Try(BindQuery(cte.query, nested, NewScope(s, done.ctx)), LAMBDA q : [ctx |-> AddCte(cte, s, nested, q)])

BindQuery(q, s, ctx) ==
    Try(InTurn(LAMBDA done, cte :
                  Try(done, LAMBDA before : BindCte(cte, s, Len(before.ctx.scopes) + 1, before)),
               [ctx |-> ctx], q.ctes),
        LAMBDA with : BindBody(q, s, with.ctx))

BindResolved(r) ==
    IF r.rc.error THEN Bq(Failed, Error(EmptyContext)) ELSE BindQuery(r.node, 1, EmptyContext)
\* A query that is resolved and bound; the context is that of the planner.
BindStatement(q) ==
    BindResolved(ResolveQuery(q, NoCtes))
PlannerContext(ctx) ==
    [widths |-> [t \in DOMAIN ctx.tables |-> Len(ctx.tables[t].names)], mats |-> <<>>,
     ctes |-> [i \in DOMAIN ctx.ctes |-> [query |-> ctx.ctes[i].query, mat |-> 0]]]

-----------------------------------------------------------------------------
(* What a parsed query means: names are looked up while it is evaluated.   *)
(* A relation is [cols, rows]; a column has the alias of its table, its    *)
(* name, and whether the name alone can mean it.  The environment has the  *)
(* row at hand and the rows of the outer queries.                          *)

Fits(have, wanted) ==
    IF wanted.quoted THEN have.raw = wanted.raw ELSE have.normalized = wanted.normalized
FitsAlias(have, wanted) ==
    /\ Len(wanted) <= Len(have)
    /\ \A i \in DOMAIN wanted : Fits(have[Len(have) - Len(wanted) + i], wanted[i])
Positions(cols, idents) ==
    {i \in DOMAIN cols : /\ Fits(cols[i].name, Last(idents))
                         /\ IF Len(idents) = 1 THEN cols[i].bare
                            ELSE FitsAlias(cols[i].alias, Front(idents))}
TheOnly(set) == CHOOSE i \in set : TRUE

RECURSIVE MeantValue(_, _)
RECURSIVE MeantQuery(_, _, _)

MeantSubquery(e, left, rows) ==
    LET each(cmp) == [i \in DOMAIN rows |-> Value(cmp, <<left[1], rows[i][1]>>)]
    IN  CASE e.kind = "exists" -> Truth(rows # <<>>)
          [] e.kind = "not exists" -> Truth(rows = <<>>)
          [] e.kind = "scalar" -> IF rows = <<>> THEN NULL ELSE rows[1][1]
          [] e.kind = "any" -> ForSome(each(e.cmp))
          [] e.kind = "all" -> ForEvery(each(e.cmp))
          [] e.kind = "not in" -> ForEvery(each("<>"))

\* Operators mean what the functions give that they stand for: with a NULL, IN
\* and BETWEEN are NULL (slt/standard/functions/operators/between.slt).
MeantOf(op, v) ==
    CASE op = "nested" -> v[1]
      [] op = "between" -> Value("and", <<Value("<=", <<v[2], v[1]>>), Value("<=", <<v[1], v[3]>>)>>)
      [] op = "not between" -> Value("or", <<Value("<", <<v[1], v[2]>>), Value("<", <<v[3], v[1]>>)>>)
      [] op = "in" -> Value("or", [i \in 1..Len(v) - 1 |-> Value("=", <<v[1], v[i + 1]>>)])
      [] op = "not in" -> Value("and", [i \in 1..Len(v) - 1 |-> Value("<>", <<v[1], v[i + 1]>>)])
      [] op = "case of" ->
            LET found == {i \in 2..Len(v) - 1 : i % 2 = 0 /\ v[i] = v[1] /\ v[i] # NULL}
            IN  CASE found # {} -> v[Min(found) + 1]
                  [] found = {} /\ Len(v) % 2 = 0 -> Last(v)
                  [] OTHER -> NULL
      [] op = "coalesce" -> IF Range(v) = {NULL} THEN NULL
                            ELSE v[Min({i \in DOMAIN v : v[i] # NULL})]
      [] OTHER -> Value(op, v)

\* The place of a column in the FROM clause; 0 for what is no column of it.
PlaceOf(e, cols) ==
    CASE e.op = "at" -> e.place
      [] e.op = "name" /\ Positions(cols, e.idents) # {} -> TheOnly(Positions(cols, e.idents))
      [] OTHER -> 0
KeyAt(e, x) ==
    IF x.group = <<>> THEN 0
    ELSE SelectInSeq(x.group[1].exprs, LAMBDA g :
            e = g \/ PlaceOf(e, x.env[1].cols) \in {PlaceOf(g, x.env[1].cols)} \ {0})

\* The last item of the alias.
ItemNamed(items, name) ==
    Max({i \in DOMAIN items : items[i].alias # <<>> /\ Fits(items[i].alias[1], name)})
MeantName(idents, x) ==
    LET k == SelectInSeq(x.env, LAMBDA frame : Positions(frame.cols, idents) # {})
    IN  IF k = 0 THEN MeantValue(x.items[ItemNamed(x.items, idents[1])].expr, x)
        ELSE x.env[k].row[TheOnly(Positions(x.env[k].cols, idents))]

MeantAggregate(op, arg, x) ==
    AggregateValue(op, [i \in DOMAIN x.group[1].rows |->
        MeantValue(arg, [x EXCEPT !.group = <<>>, !.env[1].row = x.group[1].rows[i]])])

MeantValue(e, x) ==
    IF KeyAt(e, x) # 0 THEN x.group[1].key[KeyAt(e, x)]
    ELSE CASE e.op = "at" -> x.env[1].row[e.place]
           [] e.op = "name" -> MeantName(e.idents, x)
           [] e.op = "literal" -> e.val
           [] e.op \in Aggregates ->
                MeantAggregate(e.op, IF e.args = <<>> THEN Literal(1) ELSE e.args[1], x)
           [] e.op = "query" ->
                MeantSubquery(e, [i \in DOMAIN e.args |-> MeantValue(e.args[i], x)],
                              MeantQuery(e.query, x.env, x.ctes).rows)
           [] OTHER -> MeantOf(e.op, [i \in DOMAIN e.args |-> MeantValue(e.args[i], x)])

\* FROM.  The right side of a join sees the row of the left side.
ColumnsNamed(alias, names) ==
    [i \in DOMAIN names |-> [alias |-> alias, name |-> names[i], bare |-> TRUE]]
Aliased(f, alias, names, rows) ==
    [cols |-> ColumnsNamed(IF f.alias = <<>> THEN alias ELSE f.alias,
                           [i \in DOMAIN names |-> IF i \in DOMAIN f.columns THEN f.columns[i]
                                                   ELSE names[i]]),
     rows |-> rows]
ColumnNames(rel) == [i \in DOMAIN rel.cols |-> rel.cols[i].name]

Retitled(f, alias, rel) == Aliased(f, alias, ColumnNames(rel), rel.rows)
Titled(columns, rel) == Retitled([alias |-> <<>>, columns |-> columns], <<>>, rel)

MeantNamed(f, name, ctes) ==
    LET found == {i \in DOMAIN ctes : Len(f.name) = 1 /\ ctes[i].name.normalized = name}
        temp == Generated("temp")
    IN  CASE found # {} -> Retitled(f, <<ctes[Max(found)].name>>, ctes[Max(found)].rel)
          [] found = {} /\ name \in DOMAIN Views ->
                Retitled(f, <<Generated(name)>>,
                        Titled(Views[name].columns, MeantQuery(Views[name].query, <<>>, <<>>)))
          [] OTHER -> Aliased(f, <<temp, temp, Generated(name)>>, Schema[name], Tables[name])

MergedNames(f, left, right) ==
    CASE f.cond = "using" -> f.using
      [] f.cond = "natural" ->
            SelectSeq(ColumnNames(right), LAMBDA n : \E c \in Range(left.cols) : Fits(c.name, n))
      [] OTHER -> <<>>
Hidden(cols, names) ==
    [i \in DOMAIN cols |-> [cols[i] EXCEPT !.bare = @ /\ ~ \E n \in Range(names) : Fits(cols[i].name, n)]]
At(rel, name) == TheOnly(Positions(rel.cols, <<name>>))
MergedRow(l, r, left, right, names) ==
    [i \in DOMAIN names |-> MeantOf("coalesce", <<l[At(left, names[i])], r[At(right, names[i])]>>)]
    \o l \o r

RECURSIVE MeantFrom(_, _, _)
\* Both rows have the same values in the columns called names, and meet ON.
MeantMatch(f, l, r, left, shape, names, x) ==
    /\ \A i \in DOMAIN names : Value("=", <<l[At(left, names[i])], r[At(shape, names[i])]>>) = 1
    /\ \A e \in Range(f.on) : MeantValue(e, x) = 1
\* joined has the rows of the right side that match each of the left side, alone those that match none.
MeantRows(f, left, shape, names, joined, alone) ==
    LET row(l, r) == MergedRow(l, r, left, shape, names)
    IN  FlattenSeq([i \in DOMAIN left.rows |->
            IF joined[i] = <<>> /\ f.type = "left" THEN <<row(left.rows[i], Nulls(Len(shape.cols)))>>
            ELSE [k \in DOMAIN joined[i] |-> row(left.rows[i], joined[i][k])]])
        \o (IF f.type # "right" THEN <<>>
            ELSE [k \in DOMAIN alone |-> row(Nulls(Len(left.cols)), alone[k])])
MeantJoinOf(f, left, shape, names, joined, alone) ==
    IF f.type = "semi"
    THEN [left EXCEPT !.rows = FlattenSeq([i \in DOMAIN left.rows |->
                                  IF joined[i] = <<>> THEN <<>> ELSE <<left.rows[i]>>])]
    ELSE [cols |-> ColumnsNamed(<<>>, names) \o Hidden(left.cols \o shape.cols, names),
          rows |-> MeantRows(f, left, shape, names, joined, alone)]
\* right(l) is the relation on the right for the row l of the left one.
MeantJoin(f, left, right(_), shape, names, env, ctes) ==
    LET fits(l, r) ==
            MeantMatch(f, l, r, left, shape, names,
                       [env |-> <<[cols |-> left.cols \o shape.cols, row |-> l \o r]>> \o env,
                        items |-> <<>>, group |-> <<>>, ctes |-> ctes])
    IN  MeantJoinOf(f, left, shape, names,
                    [i \in DOMAIN left.rows |->
                        SelectSeq(right(left.rows[i]).rows, LAMBDA r : fits(left.rows[i], r))],
                    SelectSeq(shape.rows, LAMBDA r : ~ \E l \in Range(left.rows) : fits(l, r)))
MeantSides(f, left, env, ctes) ==
    LET right(l) == MeantFrom(f.right, <<[cols |-> left.cols, row |-> l]>> \o env, ctes)
        joined(shape) == MeantJoin(f, left, right, shape, MergedNames(f, left, shape), env, ctes)
    IN  joined(right(Nulls(Len(left.cols))))

MeantFrom(f, env, ctes) ==
    CASE f.from = "empty" -> [cols |-> <<>>, rows |-> <<<<>>>>]
      [] f.from = "named" -> MeantNamed(f, Last(f.name).normalized, ctes)
      [] f.from = "derived" ->
            Retitled(f, <<>>, MeantQuery(f.query, env, ctes))
      [] f.from = "joined" -> MeantSides(f, MeantFrom(f.left, env, ctes), env, ctes)

\* SELECT.  An item is [expr, alias, name], with the name it has in the result.
MeantItem(expr, alias, name) == [expr |-> expr, alias |-> alias, name |-> name]
StarItems(item, cols) ==
    LET places == SelectSeq([i \in DOMAIN cols |-> i], LAMBDA i :
                    CASE item.item = "columns" -> cols[i].name.raw \in item.matching
                      [] item.table # <<>> -> FitsAlias(cols[i].alias, item.table)
                      [] OTHER -> cols[i].bare)
        kept == SelectSeq(places, LAMBDA i : ~ \E n \in Range(item.exclude) : Fits(cols[i].name, n))
    IN  [k \in DOMAIN kept |->
            LET r == SelectInSeq(item.replace, LAMBDA n : Fits(cols[kept[k]].name, n))
            IN  MeantItem(IF r = 0 THEN [op |-> "at", place |-> kept[k], args |-> <<>>]
                          ELSE item.exprs[r], <<>>, cols[kept[k]].name)]
NameOf(e) ==
    CASE e.op = "name" -> Generated(Last(e.idents).normalized)
      [] e.op \in Aggregates \cup {"is null", "is not null"} -> Generated(e.op)
      [] OTHER -> Generated("?column?")
MeantItems(list, cols) ==
    FlattenSeq([i \in DOMAIN list |->
        IF list[i].item # "expr" THEN StarItems(list[i], cols)
        ELSE <<MeantItem(list[i].exprs[1], list[i].alias,
                         IF list[i].alias = <<>> THEN NameOf(list[i].exprs[1]) ELSE list[i].alias[1])>>])

\* An ordinal or an alias stands for the item, unless a column has the name.
Standing(e, items, cols) ==
    CASE e.op = "literal" -> items[e.val].expr
      [] e.op = "name" /\ Positions(cols, e.idents) = {} /\ Len(e.idents) = 1 ->
            items[ItemNamed(items, e.idents[1])].expr
      [] OTHER -> e

RECURSIVE HasAggregate(_)
HasAggregate(e) == e.op \in Aggregates \/ \E i \in DOMAIN e.args : HasAggregate(e.args[i])

MeantSets(kind, n) ==
    CASE kind = "none" -> <<{}>>
      [] kind = "exprs" -> <<1..n>>
      [] kind = "rollup" -> [i \in 1..n + 1 |-> 1..i - 1]
      [] kind = "cube" -> SetToSeq(SUBSET (1..n))

\* at(row) is the context of a row.
MeantKey(exprs, set, x) == [g \in DOMAIN exprs |-> IF g \in set THEN MeantValue(exprs[g], x) ELSE NULL]
MeantGroup(exprs, key, rows, at(_), nothing) ==
    [at(IF rows = <<>> THEN nothing ELSE rows[1]) EXCEPT
        !.group = <<[exprs |-> exprs, key |-> key, rows |-> rows]>>]
\* keys has the key of each row.
MeantGroupsOf(b, exprs, rows, keys, at(_), nothing) ==
    LET groups == IF b.group = "none" THEN <<<<>>>> ELSE Dedup(keys)
        of(key) == SelectSeq([i \in DOMAIN rows |-> i], LAMBDA i : keys[i] = key)
    IN  [g \in DOMAIN groups |->
            MeantGroup(exprs, groups[g], [k \in DOMAIN of(groups[g]) |-> rows[of(groups[g])[k]]], at, nothing)]
MeantGroups(b, exprs, rows, at(_), nothing) ==
    LET sets == MeantSets(b.group, Len(exprs))
    IN  FlattenSeq([s \in DOMAIN sets |->
            MeantGroupsOf(b, exprs, rows, [i \in DOMAIN rows |-> MeantKey(exprs, sets[s], at(rows[i]))],
                          at, nothing)])

MeantOrder(q, contexts, items, cols) ==
    LET by == [i \in DOMAIN q.order |->
                [desc |-> q.order[i].desc,
                 nulls_first |-> q.order[i].nulls = <<TRUE>>
                                 \/ (q.order[i].nulls = <<>> /\ q.order[i].desc)]]
        keyed == [k \in DOMAIN contexts |->
                    <<[i \in DOMAIN by |-> MeantValue(Standing(q.order[i].expr, items, cols), contexts[k])],
                      [i \in DOMAIN items |-> MeantValue(items[i].expr, contexts[k])]>>]
    IN  SortedRows(keyed, by, <<>>)

MeantLimit(q, rows) ==
    IF q.limit = <<>> THEN rows
    ELSE Limited(rows, IF q.offset = <<>> THEN 0 ELSE q.offset[1], q.limit[1])

AllTrue(exprs, x) == \A e \in Range(exprs) : MeantValue(e, x) = 1
IsGrouped(q, items) ==
    \/ q.body.group # "none"
    \/ \E e \in {i.expr : i \in Range(items) \cup Range(q.order)} \cup Range(q.body.having) : HasAggregate(e)
MeantContexts(q, rel, items, rows, at(_)) ==
    IF ~ IsGrouped(q, items) THEN [i \in DOMAIN rows |-> at(rows[i])]
    ELSE SelectSeq(MeantGroups(q.body, [i \in DOMAIN q.body.groups |->
                                            Standing(q.body.groups[i], items, rel.cols)],
                               rows, at, Nulls(Len(rel.cols))),
                   LAMBDA x : AllTrue(q.body.having, x))
Deduped(distinct, rows) == IF distinct THEN Dedup(rows) ELSE rows
MeantSelect(q, rel, items, env, ctes) ==
    LET at(row) == [env |-> <<[cols |-> rel.cols, row |-> row]>> \o env, items |-> items,
                    group |-> <<>>, ctes |-> ctes]
        rows == SelectSeq(rel.rows, LAMBDA row : AllTrue(q.body.where, at(row)))
        ordered == MeantOrder(q, MeantContexts(q, rel, items, rows, at), items, rel.cols)
    IN  [cols |-> ColumnsNamed(<<>>, [i \in DOMAIN items |-> items[i].name]),
         rows |-> MeantLimit(q, Deduped(q.body.distinct, ordered))]
MeantSelectOf(q, rel, env, ctes) == MeantSelect(q, rel, MeantItems(q.body.list, rel.cols), env, ctes)

MeantUnion(q, left, right) ==
    [left EXCEPT !.rows = MeantLimit(q, Deduped(~ q.body.all, left.rows \o right.rows))]

RECURSIVE MeantBody(_, _, _)
MeantBody(q, env, ctes) ==
    CASE q.body.body = "select" ->
            MeantSelectOf(q, MeantFrom(q.body.from, env, ctes), env, ctes)
      [] q.body.body = "union" ->
            MeantUnion(q, MeantBody(Unmodified(q.body.left), env, ctes),
                       MeantBody(Unmodified(q.body.right), env, ctes))
      [] q.body.body = "values" ->
            [cols |-> ColumnsNamed(<<>>, SubSeq(ColumnName, 1, Len(q.body.rows[1]))),
             rows |-> [k \in DOMAIN q.body.rows |-> [c \in DOMAIN q.body.rows[k] |->
                        MeantValue(q.body.rows[k][c], [env |-> env, items |-> <<>>,
                                                       group |-> <<>>, ctes |-> ctes])]]]
      [] q.body.body = "nested" -> MeantQuery(q.body.query, env, ctes)

MeantQuery(q, env, ctes) ==
    LET with(done, cte) ==
            Append(done, [name |-> cte.name, rel |-> Titled(cte.columns, MeantQuery(cte.query, env, done))])
    IN  MeantBody(q, env, InTurn(with, ctes, q.ctes))

ParsedMeaning(q) == MeantQuery(q, <<>>, <<>>).rows
=============================================================================
