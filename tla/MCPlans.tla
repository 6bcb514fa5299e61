------------------------------ MODULE MCPlans ------------------------------
(***************************************************************************)
(* What a query means: its text, its names, its plan, and the scalar       *)
(* functions and casts in it, checked one at a time: a behaviour picks one *)
(* of them and runs it, the others rest.  The tables that are queried have *)
(* equal rows, NULLs and keys that meet no partner; the estimates differ   *)
(* from the sizes, so that joins are reordered.                            *)
(***************************************************************************)
EXTENDS Optimizer, TLC

CONSTANT Components     \* what to run

VARIABLES component,
          idx, delimiter, stmts, outcome,     \* of the parser
          call, stage, out,       \* of the functions
          buf,                    \* of the string functions
          inputs, chosen, result  \* of the other functions and of casts

MCTables ==
    [t |-> <<<<1, 2>>, <<1, 2>>, <<2, NULL>>, <<3, 1>>>>,
     u |-> <<<<1, 1>>, <<2, 3>>, <<2, 1>>, <<NULL, 2>>>>,
     v |-> <<<<2, 2>>, <<3, 1>>, <<1, 0>>>>]

MCEstimates == [t |-> 20, u |-> 5, v |-> 10]

\* The tables of a FROM clause are 1, 2 and 3.
A(c) == Column(1, c)
B(c) == Column(2, c)
C(c) == Column(3, c)
Eq(a, b) == Compare("=", a, b)
TableA == Table(1, "t", 2)
TableB == Table(2, "u", 2)
TableC == Table(3, "v", 2)
Where(q, e) == [q EXCEPT !.where = <<e>>]
Ascending(e) == [expr |-> e, desc |-> FALSE, nulls_first |-> FALSE]

\* The WITH clause of a query that has one.
V(c) == Column(1, c)
CteQuery == Where(Select(2, <<V(1), V(0)>>, Table(1, "u", 2)), Compare("<", V(1), Literal(3)))
Bound(query, widths) ==
    [form |-> "bound", query |-> query, widths |-> widths, ctes |-> <<CteQuery>>]

-----------------------------------------------------------------------------
(* SELECT a.1, b.1 FROM t a JOIN u b ON ... WHERE ... *)

OnConditions ==
    {<<Eq(A(0), B(0))>>,
     <<Compare(">", B(1), A(0)), Eq(B(0), A(0))>>,
     <<Eq(A(0), B(0)), Eq(A(1), Literal(2)), Compare("<", B(1), Literal(3))>>,
     <<Or(<<Eq(A(0), B(0)), Eq(A(1), B(1))>>)>>}

Predicates ==
    {Eq(A(0), Literal(1)),
     And(<<Eq(B(1), A(0)), Eq(A(0), Literal(2))>>),
     Apply("is null", <<B(0)>>),
     And(<<Compare("<", B(1), Literal(3)), And(<<Compare(">", A(1), Literal(0))>>)>>),
     Or(<<And(<<Eq(A(0), Literal(1)), Eq(B(1), Literal(1))>>),
          And(<<Eq(A(0), Literal(2)), Eq(B(1), Literal(3))>>)>>),
     Or(<<And(<<Eq(A(0), B(0)), Eq(A(1), Literal(2))>>),
          And(<<Eq(A(0), B(0)), Eq(B(1), Literal(1))>>)>>),
     Or(<<And(<<Eq(A(0), Literal(1)), Eq(B(1), Literal(1))>>), Eq(B(1), Literal(3))>>),
     Apply("not", <<And(<<Eq(A(1), Literal(1)), Eq(B(1), Literal(1))>>)>>),
     Compare("<", Apply("+", <<Literal(1), Literal(1)>>), Literal(1))}

PairList == <<Apply("+", <<A(1), B(1)>>), B(0)>>

Pair(type, on, e) ==
    Bound(Where(Select(3, PairList, JoinOf(type, on, {}, TableA, TableB)), e), <<2, 2, 2>>)

Pairs ==
    {Pair(type, on, e) : type \in {"inner", "left", "right"}, on \in OnConditions,
                         e \in Predicates}
    \cup {Pair(type, <<Compare("not distinct", A(1), B(1))>>, e) :
            type \in {"left", "right"}, e \in Predicates}

-----------------------------------------------------------------------------
(* SELECT a.1, b.1, c.1 FROM t a, u b, v c WHERE ... *)

Crossed == JoinOf("inner", <<>>, {}, JoinOf("inner", <<>>, {}, TableA, TableB), TableC)
Triples ==
    {Bound(Where(Select(4, <<A(1), B(1), C(1)>>, Crossed), And(e)), <<2, 2, 2, 3>>) :
        e \in {<<Eq(A(0), B(0)), Eq(C(1), B(1))>>,
               <<Eq(A(0), C(0)), Compare("<", C(1), B(1))>>,
               <<Eq(A(0), B(0)), Eq(B(0), C(0)), Compare("<=", A(1), C(0))>>,
               <<Eq(A(0), C(0)), Eq(A(1), C(1))>>,
               <<Eq(A(0), B(0)), Eq(Apply("+", <<A(0), A(1)>>), C(0)), Eq(B(1), C(1))>>}}

-----------------------------------------------------------------------------
(* Subqueries over u (table 2, select list 3) in a query over t. *)

Sub(list, e) == Where(Select(3, list, TableB), e)
MinOf(column, e) ==
    [Sub(<<Column(4, 0)>>, e) EXCEPT !.aggTable = 4, !.aggs = <<Apply("min", <<column>>)>>]

Matching == Eq(B(0), A(0))
Bigger == And(<<Matching, Compare(">=", B(1), A(0))>>)
Always == Compare("<", B(1), Literal(3))

Subqueries ==
    {Subquery(kind, Sub(<<B(1)>>, e), {<<1, 0>>}) :
        kind \in {"exists", "not exists"}, e \in {Matching, Bigger}}
    \cup {AnyOf(cmp, A(0), Sub(<<B(1)>>, e), {<<1, 0>>}) :
        cmp \in {"=", "<"}, e \in {Matching, Bigger}}
    \cup {Subquery("exists", Sub(<<B(1)>>, Always), {}),
          AnyOf("=", A(0), Sub(<<B(0)>>, Always), {}),
          AnyOf(">", A(1), Sub(<<B(1)>>, Always), {}),
          Compare("=", A(1), Subquery("scalar", MinOf(B(1), Matching), {<<1, 0>>})),
          Compare(">", A(0), Subquery("scalar", MinOf(B(0), Always), {}))}

Nested ==
    {Bound(Where(Select(5, <<A(1)>>, TableA), e), <<2, 2, 1, 1, 1>>) :
        e \in Subqueries \cup {Or(<<q, Eq(A(0), Literal(3))>>) : q \in Subqueries}
              \cup {And(<<Compare("<", A(0), Literal(3)), q>>) : q \in Subqueries}}
    \cup {Bound(Select(5, <<q, A(0)>>, TableA), <<2, 2, 1, 1, 2>>) :
            q \in {Subquery("exists", Sub(<<B(1)>>, Bigger), {<<1, 0>>}),
                   Subquery("scalar", MinOf(B(1), Matching), {<<1, 0>>}),
                   Subquery("scalar", MinOf(Apply("+", <<B(1), A(0)>>), Bigger), {<<1, 0>>})}}
    \cup {Bound(Select(4, <<A(1), B(1)>>,
                       JoinOf(type, on, {<<1, 0>>}, TableA,
                              Derived(2, Where(Select(3, <<Column(5, 0), Column(5, 1)>>, Table(5, "u", 2)),
                                               Eq(Column(5, 0), A(0)))))), <<2, 2, 2, 2, 2>>) :
            type \in {"inner", "left"}, on \in {<<>>}}

-----------------------------------------------------------------------------
(* Grouping, set operations, VALUES, CTEs, ORDER BY and LIMIT. *)

Sum == Apply("sum", <<A(1)>>)
GroupedBy(sets, having) ==
    [Select(4, <<Column(3, 1), Column(2, 0), Column(3, 0)>>, TableA) EXCEPT
        !.aggTable = 2, !.aggs = <<Sum>>, !.group = 3, !.groups = <<A(0), A(1)>>,
        !.sets = sets, !.having = <<having>>]
Groupings ==
    {Bound(GroupedBy(sets, having), <<2, 1, 2, 3>>) :
        sets \in {<<{0, 1}>>, <<{0, 1}, {0}>>, <<{1}, {}>>},
        having \in {Eq(Column(3, 0), Literal(1)), Compare(">", Column(2, 0), Literal(1)),
                    And(<<Compare("<", Column(3, 0), Literal(3)),
                          Compare("<", Column(3, 1), Column(2, 0))>>),
                    Apply("is null", <<Column(3, 1)>>)}}

\* SELECT ... FROM (query) WHERE ...; the outer tables are 6 and 7.
From(query, e) ==
    Where(Select(7, <<Apply("+", <<Column(6, 1), Column(6, 0)>>)>>, Derived(6, query)), e)
Distincts == [Select(3, <<A(0), A(1)>>, TableA) EXCEPT !.distinct = TRUE]
TopOf(q) == [q EXCEPT !.order = <<Ascending(Column(q.table, 0))>>, !.limit = <<2, 1>>]
Unions == Union(5, Where(Select(3, <<A(0), A(1)>>, TableA), Eq(A(0), Literal(1))),
                   Select(4, <<B(1), B(0)>>, TableB))
Derivations ==
    {Bound(From(q, e), <<2, 2, 2, 2, 2, 2, 1>>) :
        q \in {Distincts, Unions, TopOf(Distincts),
               Values(3, 2, <<Literal(1), Literal(2), Literal(3), Literal(1)>>),
               Where(Select(3, <<Apply("+", <<A(0), A(1)>>), A(0)>>,
                            JoinOf("left", <<Eq(A(0), B(1))>>, {}, TableA, TableB)),
                     Compare("<", A(0), Literal(3)))},
        e \in {Eq(Column(6, 1), Literal(2)), Compare("<", Column(6, 0), Column(6, 1)),
               Or(<<Eq(Column(6, 0), Literal(1)), Eq(Column(6, 1), Literal(1))>>)}}

\* SELECT ... FROM v ORDER BY ... LIMIT 2 OFFSET 1, and a sum used twice.
Top(list, limit, order, output, where) ==
    Bound([Select(2, list, Table(1, "v", 2)) EXCEPT
              !.where = where, !.order = order, !.limit = limit, !.output = output], <<2, Len(list), 1>>)
Tops ==
    {Top(list, limit, <<Ascending(Column(2, 0))>>, output, <<>>) :
        list \in {<<V(0), V(1)>>, <<Apply("+", <<V(0), V(0)>>),
                    Apply("+", <<Apply("+", <<V(0), V(0)>>), V(1)>>)>>},
        limit \in {<<>>, <<2, 1>>, <<1, 0>>}, output \in {<<>>, <<3, <<Column(2, 1)>>>>}}
    \cup {Top(<<V(1)>>, <<1, 0>>, <<>>, <<>>, <<e>>) :
            e \in {Compare("<", V(1), Literal(2)), Compare("<", V(0), Literal(2))}}

\* WITH c AS MATERIALIZED (...) SELECT ... FROM c JOIN ...
With(right, type, e) ==
    Bound(Where(Select(5, <<Column(3, 0), Column(4, 1)>>,
                       JoinOf(type, <<Eq(Column(3, 0), Column(4, 1))>>, {}, Cte(3, 1), right)),
                e), <<2, 2, 2, 2, 2, 2, 2>>)
CtePredicates ==
    {Eq(Column(3, 1), Literal(2)), Compare("<", Column(3, 0), Column(4, 0))}
Withs ==
    {With(right, type, e) : type \in {"inner", "left"}, e \in CtePredicates,
        right \in {Table(4, "v", 2), Derived(4, Select(6, <<Column(7, 1), Column(7, 0)>>, Cte(7, 1)))}}

\* Conditions that are not their own mirror image, on sides that are swapped.
FlipQueries == {Pair("inner", <<Compare("not distinct", A(1), B(1))>>, e) : e \in Predicates}

\* A CTE joined with itself.
CteQueries == {With(Cte(4, 1), type, e) : type \in {"inner", "left"}, e \in CtePredicates}

MCQueries == Pairs \cup Triples \cup Nested \cup Groupings \cup Derivations \cup Tops \cup Withs
NoQueries == {}

-----------------------------------------------------------------------------
(* Parsed queries over t(a, b), u(a, c) and v(b, "D").                     *)

Id(name) == Ident(name, name, FALSE)
Upper(raw, name, quoted) == Ident(raw, name, quoted)
MCSchema == [t |-> <<Id("a"), Id("b")>>, u |-> <<Id("a"), Id("c")>>,
             v |-> <<Id("b"), Upper("D", "d", TRUE)>>]

Name(idents) == [op |-> "name", idents |-> idents, args |-> <<>>]
N(name) == Name(<<Id(name)>>)
Q(table, name) == Name(<<Id(table), Id(name)>>)
Plus1(e) == Apply("+", <<e, Literal(1)>>)

Item(e) == [item |-> "expr", exprs |-> <<e>>, alias |-> <<>>, table |-> <<>>,
            exclude |-> <<>>, replace |-> <<>>, matching |-> {}]
As(e, alias) == [Item(e) EXCEPT !.alias = <<Id(alias)>>]
Items(exprs) == [i \in DOMAIN exprs |-> Item(exprs[i])]
Star == [Item(N("a")) EXCEPT !.item = "star", !.exprs = <<>>]
StarOf(table) == [Star EXCEPT !.table = <<Id(table)>>]
ColumnsLike(names) == [Star EXCEPT !.item = "columns", !.matching = names]

Named(table) == [from |-> "named", name |-> <<Id(table)>>, alias |-> <<>>, columns |-> <<>>]
NamedAs(table, alias, columns) ==
    [Named(table) EXCEPT !.alias = <<Id(alias)>>, !.columns = columns]
Inner(query, alias, columns) ==
    [from |-> "derived", query |-> query, view |-> <<>>, alias |-> <<Id(alias)>>,
     columns |-> columns]
JoinAs(type, cond, left, right) ==
    [from |-> "joined", type |-> type, cond |-> cond, on |-> <<>>, using |-> <<>>,
     left |-> left, right |-> right]
JoinOn(type, left, right, e) == [JoinAs(type, "on", left, right) EXCEPT !.on = <<e>>]
JoinUsing(type, left, right, name) ==
    [JoinAs(type, "using", left, right) EXCEPT !.using = <<Id(name)>>]

SelectBody(list, from) ==
    [body |-> "select", distinct |-> FALSE, list |-> list, from |-> from, where |-> <<>>,
     group |-> "none", groups |-> <<>>, having |-> <<>>]
QueryOf(body) == [ctes |-> <<>>, body |-> body, order |-> <<>>, limit |-> <<>>, offset |-> <<>>]
Parsed(list, from) == QueryOf(SelectBody(list, from))
ParsedWhere(list, from, e) == QueryOf([SelectBody(list, from) EXCEPT !.where = <<e>>])
By(e, desc, nulls) == [expr |-> e, desc |-> desc, nulls |-> nulls]
Asc(e) == By(e, FALSE, <<>>)
InQuery(kind, cmp, left, query) ==
    [op |-> "query", kind |-> kind, cmp |-> cmp, args |-> left, query |-> query]

\* Names, wildcards and joins.
JoinTypes == {"inner", "left", "right"}
TU == JoinOn("inner", Named("t"), Named("u"), Eq(Q("t", "a"), Q("u", "a")))
NameQueries ==
    {Parsed(Items(list), Named("t")) :
        list \in {<<N("a"), Q("t", "b")>>, <<Name(<<Id("temp"), Id("t"), Id("a")>>)>>,
                  <<Name(<<Upper("A", "a", FALSE)>>), Name(<<Upper("T", "t", FALSE), Id("b")>>)>>}}
    \cup {Parsed(Items(list), Named("v")) :
            list \in {<<N("d")>>, <<Name(<<Upper("D", "d", TRUE)>>), N("b")>>}}
    \cup {Parsed(Items(<<Q("x", "p"), N("b"), N("p")>>), NamedAs("t", "x", <<Id("p")>>)),
          Parsed(<<StarOf("y"), Item(Q("x", "b"))>>,
                 JoinAs("inner", "none", NamedAs("t", "x", <<>>), NamedAs("t", "y", <<>>))),
          Parsed(<<As(Plus1(N("a")), "x"), As(Plus1(N("x")), "y"), As(N("b"), "a"), Item(N("a"))>>,
                 Named("t"))}
    \cup {ParsedWhere(list, from, e) :
            list \in {<<Star>>, <<StarOf("u"), Item(N("b"))>>, Items(<<Q("t", "a"), Q("u", "a"), N("c")>>),
                      <<[Star EXCEPT !.exclude = <<Id("c")>>]>>,
                      <<[Star EXCEPT !.replace = <<Id("b")>>, !.exprs = <<Plus1(N("b"))>>]>>},
            from \in {TU, JoinAs("inner", "natural", Named("t"), Named("u"))}
                     \cup {JoinUsing(type, Named("t"), Named("u"), "a") : type \in JoinTypes},
            e \in {Compare(">", N("c"), Literal(0)), Apply("is null", <<Q("t", "b")>>)}}
    \cup {Parsed(Items(<<N("a"), N("b"), Q("v", "b"), N("c")>>),
                 JoinUsing(type, JoinUsing("left", Named("t"), Named("u"), "a"), Named("v"), "b")) :
            type \in {"inner", "left"}}
    \cup {Parsed(list, JoinUsing(type, Named("t"), Named("v"), "b")) :
            list \in {<<Star>>, Items(<<N("b"), Q("t", "b"), N("d")>>)}, type \in JoinTypes}
    \cup {Parsed(<<ColumnsLike({"b", "c"}), Star>>, TU),
          Parsed(<<Star>>, JoinOn("semi", Named("t"), Named("u"), Eq(Q("t", "a"), N("c"))))}

\* Subqueries, whose names may be those of the query around.
Exists(from, e) == InQuery("exists", "=", <<>>, ParsedWhere(<<Star>>, from, e))
ColumnOf(name, from, e) == ParsedWhere(<<Item(N(name))>>, from, e)
Minimum(name, from, e) == ParsedWhere(<<Item(Apply("min", <<N(name)>>))>>, from, e)
SubqueryQueries ==
    {ParsedWhere(Items(<<N("a"), N("b")>>), Named("t"), e) :
        e \in {Exists(Named("u"), Eq(N("a"), Q("t", "a"))),
               Exists(Named("v"), Eq(N("d"), N("a"))),
               Exists(NamedAs("t", "x", <<>>), And(<<Eq(Q("x", "a"), N("b")), Eq(Q("t", "b"), Q("x", "b"))>>)),
               InQuery("not exists", "=", <<>>, ParsedWhere(<<Star>>, Named("v"), Eq(N("d"), N("a")))),
               InQuery("any", "=", <<N("a")>>, ColumnOf("c", Named("u"), Compare("<", N("a"), Literal(3)))),
               InQuery("any", "<", <<N("b")>>, ColumnOf("c", Named("u"), Eq(N("a"), Q("t", "a")))),
               InQuery("all", ">=", <<N("a")>>, ColumnOf("d", Named("v"), Compare("<", N("d"), Literal(2)))),
               InQuery("not in", "=", <<N("a")>>, ColumnOf("d", Named("v"), Compare("<", N("b"), Literal(3)))),
               Eq(N("b"), InQuery("scalar", "=", <<>>, Minimum("c", Named("u"), Eq(N("a"), Q("t", "a"))))),
               Apply("between", <<N("a"), Literal(1), N("b")>>),
               Apply("not between", <<N("a"), N("b"), Literal(2)>>),
               Apply("in", <<N("a"), Literal(1), Literal(3)>>),
               Apply("not in", <<N("b"), Literal(1), Literal(3)>>),
               Eq(Apply("coalesce", <<N("b"), N("a")>>), Literal(2)),
               Eq(Apply("case of", <<N("a"), Literal(1), N("b"), Literal(2), Literal(5), N("a")>>), Literal(5))}}
    \cup {Parsed(<<Item(InQuery("scalar", "=", <<>>, Minimum("c", Named("u"), Eq(N("a"), Q("t", "a"))))),
                   As(N("a"), "k")>>, Named("t")),
          Parsed(<<Star>>, JoinAs("inner", "none", Named("t"),
                    Inner(ParsedWhere(Items(<<N("c"), Q("t", "a")>>), Named("u"), Eq(Q("u", "a"), Q("t", "a"))),
                          "x", <<Id("p"), Id("q")>>)))}

\* Groups, ORDER BY and LIMIT.
Grouping(list, kind, groups, having) ==
    QueryOf([SelectBody(list, Named("t")) EXCEPT !.group = kind, !.groups = groups, !.having = having])
SumB == Apply("sum", <<N("b")>>)
Ordered(q, keys) == [q EXCEPT !.order = keys]
Count == Apply("count", <<>>)
GroupQueries ==
    {Ordered(Grouping(list, "exprs", groups, having), order) :
        list \in {<<Item(N("b")), Item(Count), As(Apply("sum", <<N("a")>>), "s")>>},
        groups \in {<<N("b")>>, <<Q("t", "b")>>, <<Literal(1)>>},
        having \in {<<>>, <<Compare(">", Count, Literal(0))>>, <<Apply("is not null", <<N("b")>>)>>},
        order \in {<<>>, <<Asc(Apply("sum", <<N("a")>>)), Asc(N("b"))>>, <<By(Literal(1), TRUE, <<>>)>>,
                   <<Asc(N("s")), By(N("b"), FALSE, <<TRUE>>)>>}}
    \cup {Grouping(<<As(Plus1(N("a")), "z"), Item(SumB)>>, "exprs", groups, <<>>) :
            groups \in {<<N("z")>>, <<Plus1(N("a"))>>, <<Literal(1), N("b")>>}}
    \cup {Grouping(<<Item(N("b")), Item(SumB), As(N("a"), "k")>>, kind, <<N("a"), N("b")>>, <<>>) :
            kind \in {"exprs", "rollup", "cube"}}
    \cup {ParsedWhere(Items(<<SumB, Count>>), Named("t"), e) :
            e \in {Compare(">", N("a"), Literal(0)), Compare(">", N("a"), Literal(9))}}
    \cup {QueryOf([SelectBody(<<Star>>, Named("t")) EXCEPT !.distinct = TRUE]),
          Grouping(<<Star>>, "exprs", <<N("b"), N("a")>>, <<>>),
          Grouping(<<Item(Plus1(SumB))>>, "none", <<>>, <<Compare("<", Count, Literal(9))>>)}

Limits(q) == {q, [q EXCEPT !.limit = <<2>>], [q EXCEPT !.limit = <<1>>, !.offset = <<1>>]}
OrderQueries ==
    UNION {Limits(Ordered(Parsed(list, Named("v")), order)) :
        list \in {<<As(N("b"), "x")>>, <<As(N("b"), "x"), As(N("d"), "b")>>},
        order \in {<<Asc(N("x"))>>, <<By(Literal(1), TRUE, <<>>)>>, <<Asc(N("d"))>>,
                   <<By(Apply("+", <<N("d"), N("d")>>), TRUE, <<>>)>>}}
    \cup {Ordered(Parsed(Items(<<N("c")>>), Named("u")), <<By(N("a"), desc, nulls), Asc(N("c"))>>) :
            desc \in BOOLEAN, nulls \in {<<>>, <<TRUE>>, <<FALSE>>}}

\* WITH, views, set operations and VALUES.
Cte1(name, columns, materialized, query) ==
    [name |-> Id(name), columns |-> columns, materialized |-> materialized, query |-> query]
Withs1(ctes, q) == [q EXCEPT !.ctes = ctes]
Under(list, query) == Parsed(list, Inner(query, "x", <<>>))
CteParsed(m) ==
    {Withs1(<<Cte1("c", columns, m, Parsed(<<Star>>, Named("t")))>>, q) :
        columns \in {<<>>, <<Id("a")>>},
        q \in {Parsed(<<Star>>, Named("c")), Parsed(Items(<<Q("c", "b")>>), Named("c")),
               ParsedWhere(<<StarOf("y")>>, NamedAs("c", "y", <<Id("k")>>), Eq(N("k"), Literal(1))),
               ParsedWhere(Items(<<N("d")>>), Named("v"), Exists(Named("c"), Eq(N("a"), N("d"))))}}
    \cup {Withs1(<<Cte1("t", <<>>, m, Parsed(<<As(N("c"), "a")>>, Named("u")))>>, Parsed(<<Star>>, Named("t"))),
          Withs1(<<Cte1("c", <<>>, m, Parsed(<<Star>>, Named("t"))),
                   Cte1("e", <<Id("p")>>, m, ParsedWhere(<<Star>>, Named("c"), Eq(N("a"), Literal(1))))>>,
                 Parsed(Items(<<N("p"), N("b")>>), Named("e"))),
          Withs1(<<Cte1("c", <<>>, m, Parsed(<<Star>>, Named("t")))>>,
                 Under(<<Star>>, Withs1(<<Cte1("c", <<>>, m, Parsed(<<Star>>, Named("c")))>>,
                                        ParsedWhere(<<Star>>, Named("c"), Eq(N("a"), Literal(2))))))}

\* The view y was made when v had a column c.
MCViews == [w |-> [columns |-> <<Id("x")>>,
                   query |-> ParsedWhere(<<Star>>, Named("t"), Compare("<", N("a"), Literal(3)))],
            y |-> [columns |-> <<>>, query |-> ParsedWhere(<<Star>>, Named("v"), Eq(N("b"), N("c")))]]
SelectFrom(name, table) == SelectBody(Items(<<N(name)>>), Named(table))
Both(all, left, right) == [body |-> "union", all |-> all, left |-> left, right |-> right]
Rows2 == [body |-> "values", rows |-> <<<<Literal(1), Literal(2)>>, <<Literal(3), Plus1(Literal(3))>>>>]
OtherQueries ==
    {Parsed(<<Star>>, Named("w")), Parsed(Items(<<Q("w", "x"), N("b")>>), Named("w")),
     Parsed(Items(<<N("x"), N("c")>>), JoinOn("left", Named("w"), Named("u"), Eq(N("x"), Q("u", "a")))),
     QueryOf(Rows2), Parsed(<<Item(N("column2"))>>, Inner(QueryOf(Rows2), "x", <<>>)),
     Parsed(Items(<<N("q"), Q("x", "p")>>), Inner(QueryOf(Rows2), "x", <<Id("p"), Id("q")>>)),
     QueryOf([body |-> "nested", query |-> Parsed(<<Star>>, Named("v"))]),
     Parsed(<<As(Literal(1), "x"), Item(Plus1(Literal(1)))>>, Nothing)}
    \cup {QueryOf(Both(all, SelectFrom("a", "t"), SelectFrom("c", "u"))) : all \in BOOLEAN}
    \cup {QueryOf(Both(all, Both(~ all, SelectFrom("a", "t"), SelectFrom("b", "t")), SelectFrom("c", "u"))) :
            all \in BOOLEAN}
    \cup {ParsedWhere(Items(<<N("a")>>), Inner(QueryOf(Both(all, SelectFrom("a", "t"), SelectFrom("c", "u"))), "x", <<>>),
                      Compare("<", N("a"), Literal(3))) : all \in BOOLEAN}

MCParsedQueries ==
    NameQueries \cup SubqueryQueries \cup GroupQueries \cup OrderQueries \cup OtherQueries
    \cup CteParsed(FALSE) \cup CteParsed(TRUE)

\* Queries with names that mean nothing or two things, and other mistakes.
MCWrongQueries ==
    {Parsed(Items(<<N("a")>>), TU), Parsed(Items(<<N("p")>>), Named("t")),
     Parsed(<<Star>>, Named("x")), Parsed(<<Star>>, Nothing),
     Parsed(Items(<<Q("t", "a")>>), NamedAs("t", "x", <<>>)),
     Parsed(Items(<<Name(<<Upper("A", "a", TRUE)>>)>>), Named("t")),
     Parsed(Items(<<Name(<<Upper("d", "d", TRUE)>>)>>), Named("v")),
     Parsed(<<Item(Literal(1))>>, JoinAs("inner", "none", Named("t"), Named("t"))),
     Parsed(<<StarOf("u")>>, Named("t")), Parsed(<<[Star EXCEPT !.exclude = <<Id("c")>>]>>, Named("t")),
     Parsed(<<[Star EXCEPT !.replace = <<Id("c")>>, !.exprs = <<N("a")>>]>>, Named("t")),
     Parsed(<<As(Plus1(N("y")), "x"), As(N("a"), "y")>>, Named("t")),
     Parsed(Items(<<N("a")>>), NamedAs("t", "x", <<Id("p"), Id("q"), Id("r")>>)),
     Parsed(<<Star>>, JoinUsing("inner", Named("t"), Named("u"), "b")),
     Parsed(Items(<<Q("u", "c")>>), JoinOn("semi", Named("t"), Named("u"), Eq(Q("t", "a"), N("c")))),
     Grouping(Items(<<N("a"), SumB>>), "exprs", <<N("b")>>, <<>>),
     Grouping(Items(<<N("a"), SumB>>), "none", <<>>, <<>>),
     Grouping(Items(<<SumB>>), "exprs", <<N("b")>>, <<Eq(N("a"), Literal(1))>>),
     Grouping(Items(<<SumB>>), "exprs", <<Literal(2)>>, <<>>),
     Ordered(Parsed(Items(<<N("a")>>), Named("t")), <<Asc(Literal(0))>>),
     Ordered(Parsed(Items(<<N("a")>>), Named("t")), <<Asc(N("p"))>>),
     [Parsed(<<Star>>, Named("t")) EXCEPT !.limit = <<-1>>],
     [Parsed(<<Star>>, Named("t")) EXCEPT !.offset = <<1>>],
     ParsedWhere(<<Star>>, Named("t"), Eq(N("a"), InQuery("scalar", "=", <<>>, Parsed(<<Star>>, Named("u"))))),
     ParsedWhere(<<Star>>, Named("u"), InQuery("exists", "=", <<>>, Parsed(<<Star>>, Named("y")))),
     ParsedWhere(<<As(N("a"), "x")>>, Named("t"), Eq(N("x"), Literal(1))),
     ParsedWhere(<<Star>>, Named("t"), Eq(Q("u", "a"), Literal(1))),
     Withs1(<<Cte1("c", <<>>, FALSE, Parsed(<<Star>>, Named("t"))),
              Cte1("c", <<>>, FALSE, Parsed(<<Star>>, Named("u")))>>, Parsed(<<Star>>, Named("c"))),
     Withs1(<<Cte1("c", <<Id("p"), Id("q"), Id("r")>>, FALSE, Parsed(<<Star>>, Named("t")))>>,
            Parsed(<<Star>>, Named("c"))),
     ParsedWhere(<<Star>>, JoinAs("inner", "none", Named("t"), Named("c")),
                 InQuery("exists", "=", <<>>, Withs1(<<Cte1("c", <<>>, FALSE, Parsed(<<Star>>, Named("u")))>>,
                                                   Parsed(<<Star>>, Named("c"))))),
     QueryOf([Rows2 EXCEPT !.rows = Append(@, <<Literal(1)>>)]),
     QueryOf(Both(TRUE, SelectBody(<<Star>>, Named("t")), SelectFrom("c", "u")))}

-----------------------------------------------------------------------------
(* Texts of characters to be tokenized, and sentences to be parsed.        *)
MCTexts == [1 .. 4 -> {"a", "1", ".", "'", "\"", "-", "\n"}]
           \cup [1 .. 3 -> {"<", ">", "=", "!", "|", ":", "*", "/", "^", "@", "-"}]
Sql == INSTANCE SqlParser WITH Texts <- {}, Inputs <- {}
Parser == INSTANCE SqlParser WITH Texts <- MCTexts, Inputs <- Sql!Sentences

-----------------------------------------------------------------------------
(* String functions: letters of one and of two bytes, and the blank.       *)
Strings == INSTANCE StringFunctions WITH
    Letters <- {"a", "ee", " "}, MaxText <- 3, Counts <- {-2, 0, 2, 4}

(* Other functions and casts, of types whose widths are scaled down.       *)
Widths == [Int8 |-> 3, UInt8 |-> 3, Int16 |-> 6, UInt16 |-> 6, Int32 |-> 9, UInt32 |-> 9,
           Int64 |-> 14, UInt64 |-> 14, Int128 |-> 18, UInt128 |-> 18]
Mantissas == [Float16 |-> 4, Float32 |-> 8, Float64 |-> 12]
Precisions == [Decimal64 |-> 3, Decimal128 |-> 5]
Types == INSTANCE Casts WITH Bits <- Widths, Mantissa <- Mantissas, MaxPrecision <- Precisions

NumberTypes ==
    {Types!DataType(t) : t \in {"Int8", "Int16", "Int64", "UInt8", "UInt64", "Float32", "Float64"}}
    \cup {Types!DecimalType("Decimal64", 3, s) : s \in {0, 1}}
    \cup {Types!DecimalType("Decimal128", 5, 2)}
CastTypes == NumberTypes \cup {Types!DataType("Utf8")}

(* One cast, also to a scale whose power of ten is too large for Int32, or *)
(* two of which the first keeps every value or is not dropped when they    *)
(* are flattened.                                                          *)
Chains ==
    {<<a, b>> \in CastTypes \X CastTypes :
        a # b /\ ~(a.id \in Types!Floats /\ b.id = "Utf8")}
    \cup {<<a, Types!DecimalType("Decimal128", 5, 3)>> : a \in CastTypes}
    \cup {<<a, b, c>> \in NumberTypes \X NumberTypes \X NumberTypes :
        /\ a # b /\ b # c
        /\ a.id \in Types!SafeSources(b.id) \/ a.id \notin Types!SafeSources(c.id)}

Integers(t, some) ==
    {<<v>> : v \in ({Types!Lowest(t), Types!Highest(t)} \cup some) \cap Types!Lowest(t) .. Types!Highest(t)}
CastSamples ==
    [t \in {"Int8", "Int16", "Int64", "UInt8"} |-> Integers(t, {-3, 0, 7, 100})]
    @@ [UInt64 |-> {<<3>>, <<9999>>}, Float32 |-> {<<-10>>, <<2>>, <<7>>, <<402>>},
        Float64 |-> {<<-6>>, <<3>>, <<4090>>}, Decimal64 |-> {<<-25>>, <<4>>, <<15>>, <<995>>},
        Decimal128 |-> {<<-15>>, <<5>>, <<8190>>, <<99999>>},
        Utf8 |-> {<<<<"7">>>>, <<<<"-", "3">>>>, <<<<"1", ".", "2", "5">>>>, <<<<>>>>, <<<<"t">>>>}]

ArgSamples ==
    [Int8 |-> {<<-4>>, <<-1>>}, Int32 |-> {<<255>>}, Int64 |-> {<<-6>>}, UInt8 |-> {<<0>>, <<6>>},
     UInt64 |-> {<<9999>>}, Float32 |-> {<<-2>>, <<7>>}, Decimal64 |-> {<<-25>>, <<995>>},
     Decimal128 |-> {<<20000>>}, Boolean |-> {<<0>>, <<1>>}, Date32 |-> {<<100>>},
     Utf8 |-> {<<<<"3">>>>}, Null |-> {}]
ScalarArguments ==
    {Types!Column(Types!DataType(t)) : t \in DOMAIN ArgSamples \ Types!Decimals}
    \cup {Types!Column(t) : t \in {u \in NumberTypes : u.id \in Types!Decimals}}
    \cup {Types!Column(Types!DecimalType("Decimal128", 2, 0))}
    \cup {Types!Literal(Types!DataType("Int32"))}

Scalars == INSTANCE ScalarExpressions WITH
    Bits <- Widths, Mantissa <- Mantissas, MaxPrecision <- Precisions, CastChains <- Chains,
    Samples <- CastSamples, Args <- ScalarArguments,
    Calls <- {"+", "-", "*", "/", "%", "=", "<", ">=", "distinct", "not distinct", "negate", "not",
              "and", "or", "is null", "is not null", "is true", "is not true", "is false",
              "is not false", "gcd", "lcm", "factorial", "bit_and", "bit_or", "xor", "bit_not",
              "shl", "shr", "abs", "sign", "ceil", "floor", "trunc", "round"},
    type <- result

-----------------------------------------------------------------------------
functionVars == <<call, stage, out, buf, inputs, chosen, result>>
parserRest == <<idx, delimiter, stmts, outcome>>
MCvars == <<component, vars, parserRest, functionVars>>

MCInit ==
    /\ component \in Components
    /\ CASE component = "plans" -> Init
         [] component = "parser" -> Parser!Init /\ step = "parsed" /\ plan = Failed /\ ctx = <<>>
         [] OTHER -> input = <<>> /\ step = "parsed" /\ plan = Failed /\ ctx = <<>>
    /\ component = "parser" \/ (idx = 0 /\ delimiter = FALSE /\ stmts = <<>> /\ outcome = "ok")
    /\ CASE component = "strings" -> Strings!Init /\ inputs = <<>> /\ chosen = <<>> /\ result = <<>>
         [] component = "scalars" -> Scalars!Init /\ buf = <<>>
         [] OTHER -> /\ call = <<>> /\ stage = "done" /\ out = <<>> /\ buf = <<>>
                     /\ inputs = <<>> /\ chosen = <<>> /\ result = <<>>

RunParser == component = "parser" /\ Parser!Next /\ UNCHANGED <<component, step, plan, ctx, functionVars>>
RunPlans == component = "plans" /\ Next /\ UNCHANGED <<component, parserRest, functionVars>>
RunStrings == component = "strings" /\ Strings!Next
    /\ UNCHANGED <<component, vars, parserRest, inputs, chosen, result>>
RunScalars == component = "scalars" /\ Scalars!Next /\ UNCHANGED <<component, vars, parserRest, buf>>
MCNext == RunParser \/ RunPlans \/ RunStrings \/ RunScalars
MCSpec == MCInit /\ [][MCNext]_MCvars

-----------------------------------------------------------------------------
(* The state of the parser and of the functions is well formed.            *)
TypesOK ==
    CASE component = "parser" -> Parser!TypeOK
      [] component = "strings" -> Strings!TypeOK
      [] component = "scalars" -> Scalars!TypeOK
      [] OTHER -> TRUE

(* A scalar function gives what it means for the arguments of the row,     *)
(* whatever rows came before, whatever is constant and whatever types the  *)
(* arguments come in, and NULL for a NULL unless it asks for NULLs.  Casts *)
(* give what they give one after the other, each on its own.               *)
FunctionsAsMeant ==
    CASE component = "strings" -> Strings!RowsAsMeant
      [] component = "scalars" -> Scalars!NumbersAsMeant /\ Scalars!NullsAsMeant /\ Scalars!CastsAsMeant
      [] OTHER -> TRUE

(* A text is cut into the longest tokens, and statements are parsed into   *)
(* the trees they are meant to give, or refused.                           *)
StatementsAsMeant == component = "parser" => Parser!ParsedAsMeant

(* A cast put in to suit a signature loses no integer and no decimal.      *)
ImplicitCastsKeep == component = "scalars" => Scalars!ImplicitCastsKeep

(* The order of the arguments, and of equally good signatures, does not    *)
(* change the type of a sum, a product or a comparison.                    *)
ResolutionFixed == component = "scalars" => Scalars!ResolutionFixed
=============================================================================
