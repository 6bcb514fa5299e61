------------------------------ MODULE SqlParser ------------------------------
(***************************************************************************)
(* The tokenizer and the parser of SQL.  The tokenizer cuts a text into    *)
(* tokens.  The parser takes statements, separated by semicolons, apart by *)
(* recursive descent, expressions and set operations by precedence         *)
(* climbing; its tokens are words, and blanks and comments are tokens that *)
(* it skips.  A parser is an operator from the index of the next token to  *)
(* the index after what it took and the nodes it made of it.  A clause of  *)
(* which the code checks one token after the other is a sequence of items, *)
(* taken one by one without going back.                                    *)
(***************************************************************************)
EXTENDS Integers, Sequences, SequencesExt, FiniteSets

CONSTANTS Texts,        \* what is to be tokenized: sequences of characters
          Inputs        \* what is to be parsed: the tokens, and the trees they
                        \* mean if the tokens do not say it by themselves

VARIABLES input,        \* the text, or the statements and what they mean
          idx,          \* of the next character or token
          delimiter,    \* a semicolon must come next
          stmts,        \* the tokens or statements so far
          outcome

parserVars == <<input, idx, delimiter, stmts, outcome>>

-----------------------------------------------------------------------------
(* The tokenizer *)

Space == {" ", "\t", "\n", "\r"}
Digits == {"0", "1"}
Letters == {"a", "b"}
Doubles == {<<"*", "*">>, <<"/", "/">>, <<"^", "@">>, <<">", "=">>, <<">", ">">>, <<"<", "=">>, <<"<", ">">>,
            <<"<", "<">>, <<"!", "=">>, <<"|", "|">>, <<":", ":">>, <<"=", ">">>, <<"=", "=">>}
Singles == {";", "(", ")", "[", "]", ",", "*", "+", "-", "/", "%", "#", "^", ">", "<", "!", "|", "&", "~", ":", "="}

CharAt(text, i) == IF i <= Len(text) THEN text[i] ELSE "end"

\* The index of the first character from i on that is not among chars.
RECURSIVE take_while(_, _, _)
take_while(text, i, chars) == IF CharAt(text, i) \in chars THEN take_while(text, i + 1, chars) ELSE i

\* The index behind the quote that ends what begins at i, or behind the text.
take_quoted_string(text, i, quote) ==
    LET e == take_while(text, i, Range(text) \ {quote}) IN IF e > Len(text) THEN e ELSE e + 1

\* Digits with at most one period.
MutNumberEnd(text, i) == take_while(text, i, Digits \cup {"."})
NumberEnd(text, i) ==
    LET e == take_while(text, i, Digits)
    IN  IF CharAt(text, e) = "." THEN take_while(text, e + 1, Digits) ELSE e

\* The index behind the token at i, 0 if there is none.
next_token(text, i) ==
    LET c == text[i]
        d == CharAt(text, i + 1)
    IN  CASE c \in Space -> i + 1
          [] c = "-" /\ d = "-" -> take_while(text, i + 2, Range(text) \ {"\n"})
          [] c \in Singles /\ ~(c = "-" /\ d = "-") -> IF <<c, d>> \in Doubles THEN i + 2 ELSE i + 1
          [] c \in {"'", "\""} -> take_quoted_string(text, i + 1, c)
          [] c \in Digits \cup {"."} -> NumberEnd(text, i)
          [] c \in Letters \cup {"_"} -> take_while(text, i, Letters \cup Digits \cup {"_"})
          [] OTHER -> 0

Tokenize ==
    /\ outcome = "tokenizing"
    /\ IF idx > Len(input.text) THEN outcome' = "ok" /\ UNCHANGED <<stmts, idx>>
       ELSE LET e == next_token(input.text, idx) IN
            IF e = 0 THEN outcome' = "error" /\ UNCHANGED <<stmts, idx>>
            ELSE /\ stmts' = Append(stmts, [start |-> idx, chars |-> SubSeq(input.text, idx, e - 1)])
                 /\ idx' = e /\ UNCHANGED outcome
    /\ UNCHANGED <<input, delimiter>>

-----------------------------------------------------------------------------
(* Tokens *)

Blanks == {"_", "--"}
Symbols == {"=", "==", "!=", "<", ">", "<=", ">=", "+", "-", "*", "/", "//", "%", "^", "**", "<<",
            ">>", "|", "&", "#", "||", ",", "(", ")", ".", ":", "::", ";", "[", "]", "=>", "~", "^@"}
Names == {"a", "b", "c", "t", "u", "v", "f", "q"}
Numbers == {"1", "2", "3"}
Strings == {"'s'"}
End == "end"

IsWord(t) == t \notin Blanks \cup Symbols \cup Numbers \cup Strings \cup {End}
\* The word is not in quotes, and a keyword.
IsKeyword(t) == IsWord(t) /\ t \notin Names

toks == input.tokens

RECURSIVE Significant(_)
Significant(i) == IF i <= Len(toks) /\ toks[i] \in Blanks THEN Significant(i + 1) ELSE i

TokenAt(j) == IF j > Len(toks) THEN End ELSE toks[j]
peek(i) == TokenAt(Significant(i))
next(i) == Significant(i) + 1
peek_nth1(i) == peek(next(i))

RESERVED_FOR_BOTH ==
    {"WITH", "EXPLAIN", "ANALYZE", "SELECT", "WHERE", "GROUP", "SORT", "HAVING", "ORDER", "TOP",
     "LATERAL", "VIEW", "LIMIT", "OFFSET", "FETCH", "UNION", "EXCEPT", "INTERSECT", "CLUSTER",
     "DISTRIBUTE", "END"}
RESERVED_FOR_TABLE_ALIAS ==
    RESERVED_FOR_BOTH \cup
    {"PIVOT", "UNPIVOT", "ON", "JOIN", "INNER", "CROSS", "FULL", "LEFT", "RIGHT", "NATURAL", "SEMI",
     "USING", "OUTER", "SET", "QUALIFY", "WINDOW", "PARTITION"}
RESERVED_FOR_COLUMN_ALIAS == RESERVED_FOR_BOTH \cup {"FROM", "INTO"}

-----------------------------------------------------------------------------
(* Nodes, and the answers of parsers *)

Node(kind, parts) == [kind |-> kind, parts |-> parts]
Leaf(t) == Node(t, <<>>)

\* The set of what a parser took: the index after it and the nodes; empty for
\* an error.
Took(i, nodes) == {[i |-> i, nodes |-> nodes]}
Failed == {}
\* The nodes become the parts of one.
As(kind, found) == {[i |-> r.i, nodes |-> <<Node(kind, r.nodes)>>] : r \in found}

(* The items of a clause. *)
Is(ts) == [item |-> "is", on |-> ts]                \* expect_token, expect_keyword
Not(ts) == [item |-> "not", on |-> ts]
If(ts, yes, no) == [item |-> "if", on |-> ts, yes |-> yes, no |-> no]
\* Items for each keyword, which names the node made, and for other tokens.
Branch(table, no) == [item |-> "branch", on |-> table, no |-> no]
Phrase(kind, words, yes, no) ==
    [item |-> "phrase", kind |-> kind, on |-> words, yes |-> yes, no |-> no]
Of(name) == [item |-> "of", on |-> name]
List(name) == [item |-> "list", on |-> name]
Listed(name) == [item |-> "listed", on |-> name]    \* in parentheses, perhaps empty
Each(sep, name) == [item |-> "each", on |-> sep, yes |-> name]
Maybe(name) == [item |-> "maybe", on |-> name]
Alias(reserved) == [item |-> "alias", on |-> reserved]
SubExpr(precedence) == [item |-> "expr", on |-> precedence]
BodyOf(precedence) == [item |-> "body", on |-> precedence]

\* A keyword for the tree, which must be there or may be.
Keep(ts) == Branch([t \in ts |-> <<>>], <<Is({})>>)
Flag(ts) == Branch([t \in ts |-> <<>>], <<>>)
Clause(kind, words, yes) == Phrase(kind, words, yes, <<>>)
IfExists == Clause("exists", <<"IF", "EXISTS">>, <<>>)
IfNotExists == Clause("not exists", <<"IF", "NOT", "EXISTS">>, <<>>)

-----------------------------------------------------------------------------
(* Statements *)

AttachTypes == {"DATABASE", "TABLE"}
Option == <<Of("Ident"), Of("Expr")>>
Attach == <<Is({"ATTACH"}), Of("Ident"), Keep(AttachTypes), Is({"AS"}), Of("ObjectReference"),
            If({"("}, <<Each(",", "Option"), Is({")"})>>, <<>>)>>
Detach == <<Is({"DETACH"}), Keep(AttachTypes), Of("ObjectReference")>>
CopyTo == <<Is({"COPY"}), If({"("}, <<Of("QueryNode"), Is({")"})>>, <<Of("ObjectReference")>>),
            Is({"TO"}), Keep(Strings), If({"("}, <<List("Option"), Is({")"})>>, <<>>)>>
CreateSchema == <<Is({"CREATE"}), Is({"SCHEMA"}), IfNotExists, Of("ObjectReference")>>
OrReplaceTemp == <<Clause("replace", <<"OR", "REPLACE">>, <<>>), Flag({"TEMP", "TEMPORARY"})>>
ColumnDef == <<Of("Ident"), Of("DataType"), Clause("not null", <<"NOT", "NULL">>, <<>>), Flag({"NULL"})>>
CreateTable ==
    <<Is({"CREATE"})>> \o OrReplaceTemp \o
    <<Flag({"EXTERNAL"}), Is({"TABLE"}), IfNotExists, Of("ObjectReference"),
      If({"("}, <<List("ColumnDef"), Is({")"})>>, <<>>), If({"AS"}, <<Of("QueryNode")>>, <<>>)>>
CreateView ==
    <<Is({"CREATE"})>> \o OrReplaceTemp \o
    <<Is({"VIEW"}), Of("ObjectReference"), If({"AS"}, <<>>, <<Listed("Ident"), Is({"AS"})>>),
      Of("ViewQuery")>>
DropTypes == {"TABLE", "INDEX", "FUNCTION", "SCHEMA", "VIEW"}
DropStatement == <<Is({"DROP"}), Keep(DropTypes), IfExists, Of("ObjectReference"),
                   Flag({"CASCADE", "RESTRICT"})>>
SetVariable == <<Is({"SET"}), Of("ObjectReference"), Is({"TO", "="}), Of("Expr")>>
ResetVariable == <<Is({"RESET"}), Branch([ALL |-> <<>>], <<Of("ObjectReference")>>)>>
Show == <<Is({"SHOW"}), Branch([t \in {"DATABASES", "CATALOGS", "SCHEMAS", "TABLES"} |-> <<>>],
                               <<Of("ObjectReference")>>)>>
Insert == <<Is({"INSERT"}), Is({"INTO"}), Of("ObjectReference"),
            If({"("}, <<List("Ident"), Is({")"})>>, <<>>), Of("QueryNode")>>
ExplainNode == <<Is({"EXPLAIN"}), Flag({"ANALYZE"}), Flag({"VERBOSE"}),
                 If({"("}, <<Is({"FORMAT"}), Keep({"JSON", "TEXT"}), Is({")"})>>, <<>>),
                 Of("ExplainBody")>>
DiscardStatement == <<Is({"DISCARD"}), Keep({"ALL", "PLANS", "TEMP", "TEMPORARY", "METADATA"})>>

-----------------------------------------------------------------------------
(* Queries *)

QueryNode == <<Clause("with", <<"WITH">>, <<Flag({"RECURSIVE"}), List("CommonTableExpr")>>),
               Of("QueryNodeBody"), Clause("order by", <<"ORDER", "BY">>, <<List("OrderByNode")>>),
               Of("LimitModifier")>>
CommonTableExpr == <<Of("Ident"), If({"AS"}, <<>>, <<Listed("Ident"), Is({"AS"})>>),
                     Flag({"MATERIALIZED"}), Is({"("}), Of("QueryNode"), Is({")"})>>
OrderByNode == <<Of("Expr"), Flag({"ASC", "DESC"}),
                 Phrase("first", <<"NULLS", "FIRST">>, <<>>, <<Clause("last", <<"NULLS", "LAST">>, <<>>)>>)>>
LimitModifier == <<Clause("limit", <<"LIMIT">>, <<Of("Expr")>>), Clause("offset", <<"OFFSET">>, <<Of("Expr")>>),
                   Clause("limit", <<"LIMIT">>, <<Of("Expr")>>)>>
SelectNode ==
    <<Clause("all", <<"ALL">>, <<Not({"DISTINCT"})>>), Clause("distinct", <<"DISTINCT">>, <<Not({"ON"})>>),
      List("SelectExpr"), Clause("from", <<"FROM">>, <<Of("FromNode")>>),
      Clause("where", <<"WHERE">>, <<Of("Expr")>>),
      Clause("group by", <<"GROUP", "BY">>, <<Branch([ALL |-> <<>>], <<List("GroupByExpr")>>)>>),
      Clause("having", <<"HAVING">>, <<Of("Expr")>>)>>
GroupByExpr == <<Branch([CUBE |-> <<Listed("Expr")>>, ROLLUP |-> <<Listed("Expr")>>,
                         GROUPING |-> <<Is({"SETS"}), Listed("Expr")>>], <<List("Expr")>>)>>
WildcardModifier == <<If({"EXCEPT", "EXCLUDE"}, <<Listed("Ident")>>, <<>>),
                      Clause("replace", <<"REPLACE">>, <<Listed("ReplaceColumn")>>)>>
ReplaceColumn == <<Of("Expr"), Alias(RESERVED_FOR_COLUMN_ALIAS)>>
Values == <<List("ValuesRow")>>
ValuesRow == <<Is({"("}), List("Expr"), Is({")"})>>
Subselect == <<Is({"("}), Of("QueryNode"), Is({")"})>>

JoinOn == <<If({"("}, <<Of("Expr"), Is({")"})>>, <<Of("Expr")>>)>>

WindowDefinition ==
    <<Of("WindowName"), Clause("partition by", <<"PARTITION", "BY">>, <<List("Expr")>>),
      Clause("order by", <<"ORDER", "BY">>, <<List("OrderByNode")>>), Maybe("WindowFrame")>>
WindowFrame == <<Keep({"ROWS", "RANGE", "GROUPS"}),
                 If({"BETWEEN"}, <<Of("WindowFrameBound"), Is({"AND"}), Of("WindowFrameBound")>>,
                                 <<Of("WindowFrameBound")>>), Maybe("WindowFrameExclusion")>>
WindowFrameBound ==
    <<Phrase("all before", <<"UNBOUNDED", "PRECEDING">>, <<>>,
        <<Phrase("all after", <<"UNBOUNDED", "FOLLOWING">>, <<>>,
            <<Phrase("this row", <<"CURRENT", "ROW">>, <<>>,
                <<Of("Expr"), Keep({"PRECEDING", "FOLLOWING"})>>)>>)>>)>>
WindowFrameExclusion ==
    <<Is({"EXCLUDE"}), Branch([CURRENT |-> <<Is({"ROW"})>>, GROUP |-> <<>>, TIES |-> <<>>,
                               NO |-> <<Is({"OTHERS"})>>], <<Is({})>>)>>

-----------------------------------------------------------------------------
(* Expressions: what follows the keyword or the symbol they begin with. *)

PREC_OR == 10
PREC_AND == 20
PREC_NOT == 30
PREC_IS == 40
PREC_COMPARISON == 50
PREC_CONTAINMENT == 60
PREC_EVERYTHING_ELSE == 70
PREC_ADD_SUB == 80
PREC_MUL_DIV_MOD == 90
PREC_EXPONENTIATION == 100
PREC_UNARY_MINUS == 105
PREC_ARRAY_ELEM == 130
PREC_CAST == 140

Cast == <<Is({"("}), Of("Expr"), Is({"AS"}), Of("DataType"), Is({")"})>>
Case == <<If({"WHEN"}, <<>>, <<Of("Expr"), Is({"WHEN"})>>), Each("WHEN", "WhenThen"),
          Clause("else", <<"ELSE">>, <<Of("Expr")>>), Is({"END"})>>
WhenThen == <<Of("Expr"), Is({"THEN"}), Of("Expr")>>
Position == <<Is({"("}), SubExpr(PREC_CONTAINMENT), Is({"IN"}), Of("Expr"), Is({")"})>>
Substring == <<Is({"("}), Of("Expr"), Is({",", "FROM"}), Of("Expr"),
               If({",", "FOR"}, <<Of("Expr")>>, <<>>), Is({")"})>>
DateParts == {"CENTURY", "DAY", "DECADE", "DOW", "DOY", "EPOCH", "HOUR", "ISODOW", "ISOYEAR", "JULIAN",
              "MICROSECONDS", "MILLENIUM", "MILLISECONDS", "MINUTE", "MONTH", "QUARTER", "SECOND",
              "TIMEZONE", "TIMEZONE_HOUR", "TIMEZONE_MINUTE", "WEEK", "YEAR"}
Extract == <<Is({"("}), Keep(DateParts), Is({"FROM"}), Of("Expr"), Is({")"})>>
Columns == <<Is({"("}), Keep(Strings), Is({")"})>>
Array == <<If({"]"}, <<>>, <<List("Expr"), Is({"]"})>>)>>
Interval == <<SubExpr(PREC_CAST), Maybe("IntervalUnit")>>
Units == {"MILLENIUM", "CENTURY", "DECADE", "YEAR", "MONTH", "WEEK", "DAY", "HOUR", "MINUTE", "SECOND",
          "MILLISECOND", "MICROSECOND", "NANOSECOND", "MILLENIUMS", "CENTURIES", "DECADES", "YEARS", "MONTHS",
          "WEEKS", "DAYS", "HOURS", "MINUTES", "SECONDS", "MILLISECONDS", "MICROSECONDS", "NANOSECONDS"}
IntervalUnit == <<Keep(Units)>>
Precision == <<If({"("}, <<Of("Int64"), If({","}, <<Of("Int64")>>, <<>>), Is({")"})>>, <<>>)>>
Int64 == <<Phrase("-", <<"-">>, <<Keep(Numbers)>>, <<Keep(Numbers)>>)>>
Upper == <<If({"]"}, <<>>, <<Of("SliceEnd")>>)>>
ArraySubscript ==
    <<Phrase("slice", <<":">>, Upper,
             <<Of("Expr"), If({"]"}, <<>>, <<Phrase("slice", <<":">>, Upper, <<Is({})>>)>>)>>)>>
SliceEnd == <<Of("Expr"), If({"]"}, <<>>, <<Is({":"}), Of("Expr"), Is({"]"})>>)>>
FunctionCall ==
    <<Flag({"DISTINCT"}),
      If({")"}, <<>>, <<Phrase("star", <<"*">>, <<Is({")"})>>, <<List("FunctionArg"), Is({")"})>>)>>),
      Clause("filter", <<"FILTER">>, <<Is({"("}), Is({"WHERE"}), Of("Expr"), Is({")"})>>),
      Clause("over", <<"OVER">>,
             <<If({"("}, <<If({")"}, <<>>, <<Of("WindowDefinition"), Is({")"})>>)>>, <<Of("Ident")>>)>>)>>
NamedArg == <<Of("Ident"), Is({"=>", "="}), Of("Expr")>>

-----------------------------------------------------------------------------
(* The parser *)

Production ==
    [Option |-> Option, ColumnDef |-> ColumnDef, QueryNode |-> QueryNode,
     CommonTableExpr |-> CommonTableExpr, OrderByNode |-> OrderByNode, SelectNode |-> SelectNode,
     GroupByExpr |-> GroupByExpr, Values |-> Values, ValuesRow |-> ValuesRow,
     WindowDefinition |-> WindowDefinition, WindowFrame |-> WindowFrame,
     WindowFrameBound |-> WindowFrameBound, WindowFrameExclusion |-> WindowFrameExclusion,
     WhenThen |-> WhenThen, IntervalUnit |-> IntervalUnit, Int64 |-> Int64, SliceEnd |-> SliceEnd,
     ArraySubscript |-> ArraySubscript, Attach |-> Attach, Detach |-> Detach, CopyTo |-> CopyTo,
     CreateSchema |-> CreateSchema, CreateTable |-> CreateTable, CreateView |-> CreateView,
     Drop |-> DropStatement, SetVariable |-> SetVariable, ResetVariable |-> ResetVariable, Show |-> Show,
     Insert |-> Insert, Explain |-> ExplainNode, Discard |-> DiscardStatement]

Synonyms ==
    [TEMPORARY |-> "TEMP", CATALOGS |-> "DATABASES", SOME |-> "ANY", XOR |-> "#", MILLENIUMS |-> "MILLENIUM",
     CENTURIES |-> "CENTURY", DECADES |-> "DECADE", YEARS |-> "YEAR", MONTHS |-> "MONTH", WEEKS |-> "WEEK",
     DAYS |-> "DAY", HOURS |-> "HOUR", MINUTES |-> "MINUTE", SECONDS |-> "SECOND",
     MILLISECONDS |-> "MILLISECOND", MICROSECONDS |-> "MICROSECOND", NANOSECONDS |-> "NANOSECOND"]
Canonical(t) ==
    CASE t \in DOMAIN Synonyms -> Synonyms[t]
      [] t = "==" -> "="
      [] t = "**" -> "^"
      [] OTHER -> t

DataTypes ==
    [VARCHAR |-> "text", TEXT |-> "text", STRING |-> "text", BINARY |-> "binary", BLOB |-> "binary",
     TINYINT |-> "i8", INT1 |-> "i8", SMALLINT |-> "i16", INT2 |-> "i16", INT |-> "i32",
     INTEGER |-> "i32", INT4 |-> "i32", BIGINT |-> "i64", INT8 |-> "i64", UTINYINT |-> "u8",
     UINT1 |-> "u8", USMALLINT |-> "u16", UINT2 |-> "u16", UINT |-> "u32", UINT4 |-> "u32",
     UBIGINT |-> "u64", UINT8 |-> "u64", HALF |-> "f16", FLOAT2 |-> "f16", REAL |-> "f32",
     FLOAT |-> "f32", FLOAT4 |-> "f32", DOUBLE |-> "f64", FLOAT8 |-> "f64", DECIMAL |-> "decimal",
     NUMERIC |-> "decimal", BOOL |-> "bool", BOOLEAN |-> "bool", DATE |-> "date",
     TIMESTAMP |-> "timestamp", INTERVAL |-> "interval"]

BinaryOperators == (Symbols \ {",", "(", ")", ".", ":", "::", ";", "[", "]", "=>", "~"})
                   \cup {"AND", "OR", "XOR"}
Quantifiers == {"ALL", "ANY", "SOME"}
Likes == {"LIKE", "ILIKE", "RLIKE", "REGEXP", "SIMILAR"}

\* The parser knows braces, but the tokenizer makes none.
InfixPrecedence(t, i) ==
    CASE t = "OR" -> PREC_OR
      [] t = "AND" -> PREC_AND
      [] t = "NOT" -> IF peek_nth1(i) \in {"IN", "BETWEEN"} \cup Likes THEN PREC_CONTAINMENT ELSE 0
      [] t = "IS" -> IF IsKeyword(peek_nth1(i)) THEN PREC_IS ELSE 0
      [] t \in {"IN", "BETWEEN"} \cup Likes -> PREC_CONTAINMENT
      [] t \in {"=", "==", "!=", "<", "<=", ">", ">="} -> PREC_COMPARISON
      [] t \in {"+", "-"} -> PREC_ADD_SUB
      [] t \in {"*", "/", "//", "%"} -> PREC_MUL_DIV_MOD
      [] t \in {"^", "**"} -> PREC_EXPONENTIATION
      [] t \in {"<<", ">>", "|", "&", "#", "XOR", "||", "^@"} -> PREC_EVERYTHING_ELSE
      [] t = "::" -> PREC_CAST
      [] t \in {"{", "["} -> PREC_ARRAY_ELEM
      [] OTHER -> 0
get_infix_precedence(i) == InfixPrecedence(peek(i), i)

\* SELECT, WITH or VALUES comes next.
is_query_node_start(i) == peek(i) \in {"SELECT", "WITH", "VALUES"}

\* After a comma that no further item can follow, the list is at its end.
MutListEnds(i) == peek(i) \in {End, ")", ";", "}", "]"}
ListEnds(i) == peek(i) \in {End, ")", ";", "}", "]"} \cup RESERVED_FOR_COLUMN_ALIAS

\* What an item takes.  The parsers call each other through it.
RECURSIVE Step(_, _), Run(_, _, _), parse_comma_separated(_, _, _), EachOf(_, _, _, _),
          Climb(_, _, _), SetOps(_, _, _), FromJoins(_, _), Dotted(_, _)
Parse(name, i) == Step(Of(name), i)
parse_subexpr(i, precedence) == Step(SubExpr(precedence), i)

\* A word at i if the keywords are there.
Matches(words, i) ==
    IF Len(words) = 1 THEN peek(i) = words[1]
    ELSE /\ peek(i) = words[1] /\ peek_nth1(i) = words[2]
         /\ Len(words) = 3 => peek(next(next(i))) = words[3]
Skip(words, i) == IF Len(words) = 1 THEN next(i) ELSE IF Len(words) = 2 THEN next(next(i)) ELSE next(next(next(i)))

\* One item after the other.
Run(items, i, nodes) ==
    IF items = <<>> THEN Took(i, nodes)
    ELSE UNION {Run(Tail(items), r.i, nodes \o r.nodes) : r \in Step(Head(items), i)}

\* AS and a word, a word that is not reserved, or a string.  An AS at the end
\* of the statement is dropped.
AliasOf(t, i, has_as, reserved) ==
    IF t \in Strings \/ (IsWord(t) /\ (has_as \/ t \notin reserved))
    THEN Took(next(i), <<Node("as", <<Leaf(t)>>)>>)
    ELSE IF has_as /\ t # End /\ ~IsWord(t) THEN Failed ELSE Took(i, <<>>)
parse_alias(i, reserved) ==
    IF peek(i) = "AS" THEN AliasOf(peek_nth1(i), next(i), TRUE, reserved)
    ELSE AliasOf(peek(i), i, FALSE, reserved)

parse_comma_separated(name, i, nodes) ==
    UNION {IF peek(r.i) # "," THEN Took(r.i, nodes \o r.nodes)
           ELSE IF ListEnds(next(r.i)) THEN Took(next(r.i), nodes \o r.nodes)
           ELSE parse_comma_separated(name, next(r.i), nodes \o r.nodes) : r \in Parse(name, i)}

\* One after the other as long as the separator follows.
EachOf(sep, name, i, nodes) ==
    UNION {IF peek(r.i) # sep THEN Took(r.i, nodes \o r.nodes)
           ELSE EachOf(sep, name, next(r.i), nodes \o r.nodes) : r \in Parse(name, i)}

\* Words with periods between them; a period, or nothing, may be the last.
Dotted(i, nodes) ==
    CASE peek(i) = End -> Took(i, nodes)
      [] IsWord(peek(i)) -> IF peek_nth1(i) = "." THEN Dotted(next(next(i)), Append(nodes, Leaf(peek(i))))
                            ELSE Took(next(i), Append(nodes, Leaf(peek(i))))
      [] OTHER -> Failed

DataTypeAfter(dt, i) == As(dt, IF dt = "decimal" THEN Run(Precision, i, <<>>) ELSE Took(i, <<>>))
DataType(i) == IF peek(i) \in DOMAIN DataTypes THEN DataTypeAfter(DataTypes[peek(i)], next(i)) ELSE Failed

-----------------------------------------------------------------------------
(* Expressions *)

PrefixForms == [CAST |-> Cast, POSITION |-> Position, SUBSTRING |-> Substring,
                EXTRACT |-> Extract, COLUMNS |-> Columns]

\* The words, and perhaps a star, after the first word of a name.
RECURSIVE Compound(_, _)
Compound(i, nodes) ==
    IF peek(i) # "." THEN Took(i, nodes)
    ELSE LET t == peek_nth1(i) IN
         IF IsWord(t) \/ t = "*" THEN Compound(next(next(i)), Append(nodes, Leaf(t))) ELSE Failed

CompoundExpr(r, wildcard) ==
    IF peek(r.i) = "("
    THEN IF wildcard THEN Failed ELSE As("call", Run(FunctionCall, next(r.i), <<Node("ref", r.nodes)>>))
    ELSE IF Len(r.nodes) = 1 THEN {r}
    ELSE As(IF wildcard THEN "wildcard" ELSE "compound", {r})
parse_ident_expr(w, i) ==
    UNION {CompoundExpr(r, Leaf("*") \in Range(r.nodes)) : r \in Compound(i, <<Leaf(w)>>)}

FunctionArg(i) ==
    IF peek_nth1(i) \in {"=>", "="} THEN As("named", Run(NamedArg, i, <<>>)) ELSE Parse("Expr", i)

\* A value of a type that is written before it.
TypedString(dt) ==
    IF dt.nodes[1].kind = "interval" THEN As("interval", Run(Interval, dt.i, <<>>))
    ELSE IF peek(dt.i) \in Strings THEN Took(next(dt.i), <<Node("typed", Append(dt.nodes, Leaf(peek(dt.i))))>>)
    ELSE Failed

Parenthesized(i) ==
    IF is_query_node_start(i) THEN As("subquery", Run(<<Of("QueryNode"), Is({")"})>>, i, <<>>))
    ELSE UNION {As(IF Len(r.nodes) = 1 THEN "()" ELSE "tuple", {r}) :
                r \in Run(<<[item |-> "items", on |-> "Expr"], Is({")"})>>, i, <<>>)}

PrefixOf(t, j) ==
    CASE t \in {"TRUE", "FALSE", "NULL"} \cup Strings \cup Numbers -> Took(j, <<Leaf(t)>>)
      [] t = "EXISTS" -> As("exists", Run(Subselect, j, <<>>))
      [] t = "NOT" -> IF peek(j) = "EXISTS" THEN As("not exists", Run(Subselect, next(j), <<>>))
                      ELSE As("NOT", parse_subexpr(j, PREC_NOT))
      [] t \in DOMAIN PrefixForms -> As(t, Run(PrefixForms[t], j, <<>>))
      [] t = "CASE" -> As(t, Run(Case, j, <<>>))
      [] t = "[" -> As("array", Run(Array, j, <<>>))
      [] t = "(" -> Parenthesized(j)
      [] t \in {"-", "+", "~"} -> As(t, parse_subexpr(j, PREC_UNARY_MINUS))
      [] OTHER -> IF IsWord(t) THEN parse_ident_expr(t, j) ELSE Failed
\* A type that does not parse is a name.
TypedOrNot(dt, i) == IF dt = {} THEN PrefixOf(peek(i), next(i)) ELSE UNION {TypedString(d) : d \in dt}
parse_prefix(i) == TypedOrNot(DataType(i), i)

\* The node with what is on its left as its first part.
Infix(kind, left, found) == {[i |-> r.i, nodes |-> <<Node(kind, left \o r.nodes)>>] : r \in found}

\* After IS or IS NOT.
parse_is(kind, distinct, left, i) ==
    IF peek(i) \in {"NULL", "TRUE", "FALSE"} THEN Infix(kind, left, Took(next(i), <<Leaf(peek(i))>>))
    ELSE IF Matches(<<"DISTINCT", "FROM">>, i)
    THEN Infix(distinct, left, parse_subexpr(next(next(i)), PREC_CONTAINMENT))
    ELSE Failed

Plain == [IN |-> "in", LIKE |-> "like", ILIKE |-> "ilike", BETWEEN |-> "between"]
Negated == [IN |-> "not in", LIKE |-> "not like", ILIKE |-> "not ilike", BETWEEN |-> "not between"]

\* After IN, LIKE, ILIKE or BETWEEN, with or without a NOT before it.
parse_containment(kinds, t, left, i) ==
    CASE t \in {"LIKE", "ILIKE"} -> Infix(kinds[t], left, parse_subexpr(i, PREC_CONTAINMENT))
      [] t = "BETWEEN" -> Infix(kinds[t], left,
            Run(<<SubExpr(PREC_CONTAINMENT), Is({"AND"}), SubExpr(PREC_CONTAINMENT)>>, i, <<>>))
      [] t = "IN" -> Infix(kinds[t], left,
            IF peek(i) = "(" /\ is_query_node_start(next(i)) THEN Run(Subselect, i, <<>>)
            ELSE Run(<<Is({"("}), List("Expr"), Is({")"})>>, i, <<>>))
      [] OTHER -> Failed

InfixOf(t, j, prefix, precedence) ==
    CASE t \in BinaryOperators ->
            IF peek(j) \in Quantifiers
            THEN Infix(Canonical(peek(j)), <<prefix, Leaf(Canonical(t))>>, Run(Subselect, next(j), <<>>))
            ELSE Infix(Canonical(t), <<prefix>>, parse_subexpr(j, precedence))
      [] t = "IS" -> IF peek(j) = "NOT" THEN parse_is("is not", "not distinct", <<prefix>>, next(j))
                     ELSE parse_is("is", "distinct", <<prefix>>, j)
      [] t = "NOT" -> parse_containment(Negated, peek(j), <<prefix>>, next(j))
      [] t = "[" -> Infix("[]", <<prefix>>, Parse("ArraySubscript", j))
      [] t = "::" -> Infix("::", <<prefix>>, DataType(j))
      [] OTHER -> parse_containment(Plain, t, <<prefix>>, j)
parse_infix(i, prefix, precedence) == InfixOf(peek(i), next(i), prefix, precedence)

\* An operator no stronger than the one before it is left to it.
MutStopsAt(precedence, i) == precedence > get_infix_precedence(i)
StopsAt(precedence, i) == precedence >= get_infix_precedence(i)

Climb(i, left, precedence) ==
    IF StopsAt(precedence, i) THEN Took(i, <<left>>)
    ELSE UNION {Climb(r.i, r.nodes[1], precedence) : r \in parse_infix(i, left, get_infix_precedence(i))}

Expr(i, precedence) == UNION {Climb(r.i, r.nodes[1], precedence) : r \in parse_prefix(i)}

-----------------------------------------------------------------------------
(* The select list *)

\* `*`, or a name that ends in `.*`.
RECURSIVE WildcardName(_, _)
WildcardName(i, nodes) ==
    CASE peek(i) # "." -> Took(i, nodes)
      [] peek_nth1(i) = "*" -> Took(next(next(i)), Append(nodes, Leaf("*")))
      [] IsWord(peek_nth1(i)) \/ peek_nth1(i) \in Strings ->
            WildcardName(next(next(i)), Append(nodes, Leaf(peek_nth1(i))))
      [] OTHER -> Failed

Starred(i) ==
    CASE peek(i) = "*" -> Took(next(i), <<Leaf("*")>>)
      [] IsWord(peek(i)) \/ peek(i) \in Strings -> WildcardName(next(i), <<Leaf(peek(i))>>)
      [] OTHER -> Took(i, <<>>)
WildcardExpr(i) ==
    UNION {IF r.nodes # <<>> /\ Last(r.nodes) = Leaf("*") THEN As("*", {r}) ELSE Parse("Expr", i) : r \in Starred(i)}

SelectExpr(i) ==
    UNION {IF r.nodes[1].kind = "*" THEN As("wildcard", Run(WildcardModifier, r.i, r.nodes))
           ELSE As("SelectExpr", Run(<<Alias(RESERVED_FOR_COLUMN_ALIAS)>>, r.i, r.nodes)) : r \in WildcardExpr(i)}

ReplaceAs(i) == As("replace", {r \in Run(ReplaceColumn, i, <<>>) : Len(r.nodes) = 2})

-----------------------------------------------------------------------------
(* FROM *)

Sided == <<Branch([JOIN |-> <<>>, OUTER |-> <<Is({"JOIN"})>>, ANTI |-> <<Is({"JOIN"})>>,
                   SEMI |-> <<Is({"JOIN"})>>], <<Is({})>>)>>
JoinType == <<Branch([JOIN |-> <<>>, INNER |-> <<Is({"JOIN"})>>, LEFT |-> Sided, RIGHT |-> Sided,
                      FULL |-> <<If({"OUTER"}, <<>>, <<>>), Is({"JOIN"})>>, SEMI |-> <<Is({"JOIN"})>>],
                     <<Is({})>>)>>
JoinWords == {"JOIN", "INNER", "LEFT", "RIGHT", "FULL", "SEMI"}

\* LEFT JOIN and LEFT OUTER JOIN are the same.
JoinKind(n) ==
    CASE n.kind \in {"JOIN", "INNER"} -> "inner"
      [] n.kind = "FULL" -> "outer"
      [] n.kind = "SEMI" -> "left semi"
      [] n.kind = "LEFT" -> (CASE n.parts[1].kind = "ANTI" -> "left anti"
                               [] n.parts[1].kind = "SEMI" -> "left semi"
                               [] OTHER -> "left")
      [] n.kind = "RIGHT" -> (CASE n.parts[1].kind = "ANTI" -> "right anti"
                                [] n.parts[1].kind = "SEMI" -> "right semi"
                                [] OTHER -> "right")

AliasColumns(x, a) ==
    IF a.nodes = <<>> THEN Took(a.i, x.nodes)
    ELSE Run(<<If({"("}, <<List("Ident"), Is({")"})>>, <<>>)>>, a.i, x.nodes \o a.nodes)
maybe_parse_alias(found) ==
    UNION {UNION {AliasColumns(x, a) : a \in parse_alias(x.i, RESERVED_FOR_TABLE_ALIAS)} : x \in found}

TableOrFunction(r, flag) ==
    IF peek(r.i) = "("
    THEN As("TableFunction", maybe_parse_alias(Run(<<Listed("FunctionArg")>>, r.i, flag \o r.nodes)))
    ELSE IF flag # <<>> THEN Failed
    ELSE As("BaseTable", maybe_parse_alias({r}))

BaseFrom(i, flag) ==
    CASE peek(i) = "(" ->
            As("FromSubquery", maybe_parse_alias(Run(<<Of("QueryNode"), Is({")"})>>, next(i), flag)))
      [] peek(i) = "VALUES" -> As("FromSubquery", maybe_parse_alias(Run(<<Of("Values")>>, next(i), flag)))
      [] peek(i) \in Strings -> As("File", maybe_parse_alias(Took(next(i), <<Leaf(peek(i))>>)))
      [] OTHER -> UNION {TableOrFunction(r, flag) : r \in Parse("ObjectReference", i)}

parse_base_from(i) ==
    IF peek(i) = "LATERAL" THEN BaseFrom(next(i), <<Leaf("LATERAL")>>) ELSE BaseFrom(i, <<>>)

JoinCondition(i, natural) ==
    CASE peek(i) = "ON" -> As("on", Run(JoinOn, next(i), <<>>))
      [] peek(i) = "USING" -> As("using", Run(<<Listed("Ident")>>, next(i), <<>>))
      [] OTHER -> Took(i, IF natural THEN <<Leaf("natural")>> ELSE <<>>)

\* A join without ON or USING: the rest of the clause is its right side.
CrossJoin(i, left) ==
    UNION {FromJoins(r.i, Node("inner", left \o r.nodes)) : r \in maybe_parse_alias(Parse("FromNode", i))}

Join(i, node, natural) ==
    UNION {UNION {UNION {FromJoins(condition.i, Node(JoinKind(type.nodes[1]),
                                                     <<node>> \o right.nodes \o condition.nodes)) :
                         condition \in JoinCondition(right.i, natural)} :
                  right \in Parse("FromNode", type.i)} :
           type \in Run(JoinType, i, <<>>)}

FromJoins(i, node) ==
    CASE peek(i) = "CROSS" -> IF peek_nth1(i) = "JOIN" THEN CrossJoin(next(next(i)), <<node>>) ELSE Failed
      [] peek(i) = "," -> CrossJoin(next(i), <<node>>)
      [] peek(i) = "NATURAL" -> IF peek_nth1(i) \in JoinWords THEN Join(next(i), node, TRUE)
                                ELSE Took(next(i), <<node>>)
      [] peek(i) \in JoinWords -> Join(i, node, FALSE)
      [] OTHER -> Took(i, <<node>>)

-----------------------------------------------------------------------------
(* Set operations *)

SetPrecedence(t) ==
    CASE t \in {"UNION", "EXCEPT"} -> 10
      [] t = "INTERSECT" -> 20
      [] OTHER -> 0

SetOp(i, all, t, body, precedence) ==
    UNION {SetOps(right.i, Node(t, <<body>> \o (IF all THEN <<Leaf("ALL")>> ELSE <<>>) \o right.nodes), precedence) :
           right \in Step(BodyOf(SetPrecedence(t)), i)}

SetOps(i, body, precedence) ==
    IF precedence >= SetPrecedence(peek(i)) THEN Took(i, <<body>>)
    ELSE IF peek_nth1(i) = "ALL" THEN SetOp(next(next(i)), TRUE, peek(i), body, precedence)
    ELSE SetOp(next(i), FALSE, peek(i), body, precedence)

\* DESCRIBE of a query, or of what can stand in FROM.
Describe(i) == IF is_query_node_start(i) THEN Parse("QueryNode", i) ELSE parse_base_from(i)

InnerBody(i) ==
    CASE peek(i) = "SELECT" -> Parse("SelectNode", next(i))
      [] peek(i) = "VALUES" -> Parse("Values", next(i))
      [] peek(i) = "DESCRIBE" -> As("Describe", Describe(next(i)))
      [] peek(i) = "(" -> As("()", Run(Subselect, i, <<>>))
      [] OTHER -> Failed
parse_inner(i, precedence) == UNION {SetOps(body.i, body.nodes[1], precedence) : body \in InnerBody(i)}

\* LIMIT and OFFSET in either order; of two limits the last counts.
parse_limit(i) ==
    LET of(nodes, kind) == SelectSeq(nodes, LAMBDA n : n.kind = kind)
        last(s) == IF s = <<>> THEN s ELSE <<Last(s)>>
    IN  {[i |-> r.i, nodes |-> last(of(r.nodes, "limit")) \o of(r.nodes, "offset")] :
         r \in Run(LimitModifier, i, <<>>)}

-----------------------------------------------------------------------------
(* Statements *)

\* The text of a view: from the first token of the query to the token after it.
sql_slice_starting_at(start, end) == SubSeq(toks, Significant(start), Significant(end) - 1)

ViewQuery(i) ==
    LET Leaves(ts) == [n \in DOMAIN ts |-> Leaf(ts[n])] IN
    {[i |-> r.i, nodes |-> Append(r.nodes, Node("sql", Leaves(sql_slice_starting_at(i, r.i))))] :
     r \in Parse("QueryNode", i)}

ExplainBody(i) == {r \in Parse("Statement", i) : r.nodes[1].kind = "QueryNode"}

WindowName(i) == IF IsKeyword(peek(i)) THEN Took(i, <<>>) ELSE Parse("Ident", i)

\* What is created comes after OR REPLACE and TEMP; it is parsed from CREATE on.
Creations == [TABLE |-> "CreateTable", SCHEMA |-> "CreateSchema", VIEW |-> "CreateView"]
parse_create(i) ==
    UNION {IF peek(r.i) \in DOMAIN Creations THEN Parse(Creations[peek(r.i)], i) ELSE Failed :
           r \in Run(OrReplaceTemp, next(i), <<>>)}

Openings == [ATTACH |-> "Attach", DETACH |-> "Detach", COPY |-> "CopyTo", DROP |-> "Drop",
             SET |-> "SetVariable", RESET |-> "ResetVariable", SHOW |-> "Show",
             INSERT |-> "Insert", EXPLAIN |-> "Explain", DISCARD |-> "Discard"]

parse_statement(i) ==
    CASE peek(i) = "CREATE" -> parse_create(i)
      [] peek(i) \in {"SELECT", "WITH", "VALUES", "DESCRIBE"} -> Parse("QueryNode", i)
      [] peek(i) \in DOMAIN Openings -> Parse(Openings[peek(i)], i)
      [] OTHER -> Failed

ParserOf(name, i) ==
    CASE name = "Ident" -> IF IsWord(peek(i)) THEN Took(next(i), <<Leaf(peek(i))>>) ELSE Failed
      [] name = "ObjectReference" -> As("ref", Dotted(i, <<>>))
      [] name = "DataType" -> DataType(i)
      [] name = "Expr" -> Expr(i, 0)
      [] name = "FunctionArg" -> FunctionArg(i)
      [] name = "SelectExpr" -> SelectExpr(i)
      [] name = "ReplaceColumn" -> ReplaceAs(i)
      [] name = "FromNode" -> UNION {FromJoins(r.i, r.nodes[1]) : r \in parse_base_from(i)}
      [] name = "QueryNodeBody" -> parse_inner(i, 0)
      [] name = "LimitModifier" -> parse_limit(i)
      [] name = "ViewQuery" -> ViewQuery(i)
      [] name = "ExplainBody" -> ExplainBody(i)
      [] name = "WindowName" -> WindowName(i)
      [] name = "Statement" -> parse_statement(i)
      [] OTHER -> As(name, Run(Production[name], i, <<>>))

Step(it, i) ==
    CASE it.item = "of" -> ParserOf(it.on, i)
      [] it.item = "is" -> IF peek(i) \in it.on THEN Took(next(i), <<>>) ELSE Failed
      [] it.item = "not" -> IF peek(i) \in it.on THEN Failed ELSE Took(i, <<>>)
      [] it.item = "if" -> IF peek(i) \in it.on THEN Run(it.yes, next(i), <<>>) ELSE Run(it.no, i, <<>>)
      [] it.item = "branch" ->
            IF peek(i) \in DOMAIN it.on THEN As(Canonical(peek(i)), Run(it.on[peek(i)], next(i), <<>>))
            ELSE Run(it.no, i, <<>>)
      [] it.item = "phrase" ->
            IF Matches(it.on, i) THEN As(it.kind, Run(it.yes, Skip(it.on, i), <<>>)) ELSE Run(it.no, i, <<>>)
      [] it.item = "list" -> As("list", parse_comma_separated(it.on, i, <<>>))
      [] it.item = "listed" ->
            As("list", IF peek(i) = "(" /\ peek_nth1(i) = ")" THEN Took(next(next(i)), <<>>)
                       ELSE Run(<<Is({"("}), [item |-> "items", on |-> it.on], Is({")"})>>, i, <<>>))
      [] it.item = "items" -> parse_comma_separated(it.on, i, <<>>)
      [] it.item = "each" -> As("list", EachOf(it.on, it.yes, i, <<>>))
      [] it.item = "maybe" -> IF Parse(it.on, i) = {} THEN Took(i, <<>>) ELSE Parse(it.on, i)
      [] it.item = "alias" -> parse_alias(i, it.on)
      [] it.item = "expr" -> Expr(i, it.on)
      [] it.item = "body" -> parse_inner(i, it.on)

-----------------------------------------------------------------------------
(* parse_statements *)

Init ==
    /\ \/ input \in [text : Texts] /\ outcome = "tokenizing"
       \/ input \in Inputs /\ outcome = "parsing"
    /\ idx = 1 /\ delimiter = FALSE /\ stmts = <<>>

Semicolon ==
    /\ outcome = "parsing" /\ peek(idx) = ";"
    /\ idx' = next(idx) /\ delimiter' = FALSE
    /\ UNCHANGED <<input, stmts, outcome>>

Done ==
    /\ outcome = "parsing" /\ peek(idx) = End
    /\ outcome' = "ok"
    /\ UNCHANGED <<input, idx, delimiter, stmts>>

Statement ==
    /\ outcome = "parsing" /\ peek(idx) \notin {";", End}
    /\ LET found == IF delimiter THEN Failed ELSE Parse("Statement", idx) IN
       \/ /\ found = Failed
          /\ outcome' = "error" /\ UNCHANGED <<stmts, idx, delimiter>>
       \/ \E r \in found :
          /\ stmts' = stmts \o r.nodes /\ idx' = r.i /\ delimiter' = TRUE
          /\ UNCHANGED outcome
    /\ UNCHANGED input

Next == Tokenize \/ Semicolon \/ Done \/ Statement

-----------------------------------------------------------------------------
(* What a statement means: the operators in the order of their strength,   *)
(* and the words a node is written with.                                   *)

Ranking ==
    <<{"UNION", "EXCEPT"}, {"INTERSECT"}, {"OR"}, {"AND"}, {"NOT"}, {"is", "is not", "distinct", "not distinct"},
      {"=", "!=", "<", "<=", ">", ">="},
      {"in", "not in", "like", "not like", "ilike", "not ilike", "between", "not between"},
      {"<<", ">>", "|", "&", "#", "||", "^@"}, {"+", "-"}, {"*", "/", "//", "%"}, {"^"}, {"unary"},
      {"[]"}, {"::"}>>

Label(n) == IF Len(n.parts) = 1 /\ n.kind \in {"-", "+", "~"} THEN "unary" ELSE n.kind
IsOperator(n) == n.parts # <<>> /\ \E r \in DOMAIN Ranking : Label(n) \in Ranking[r]
Rank(n) == CHOOSE r \in DOMAIN Ranking : Label(n) \in Ranking[r]
\* The right side of IS DISTINCT FROM is delimited as that of LIKE is.
RightRank(n) == IF n.kind \in {"distinct", "not distinct"} THEN Rank([n EXCEPT !.kind = "like"]) ELSE Rank(n)

Words ==
    [distinct |-> <<"IS", "DISTINCT", "FROM">>, like |-> <<"LIKE">>, ilike |-> <<"ILIKE">>,
     between |-> <<"BETWEEN">>, is |-> <<"IS">>, in |-> <<"IN", "(">>, i32 |-> <<"INT">>]
Spelling(kind) ==
    CASE kind \in DOMAIN Words -> Words[kind]
      [] kind = "not distinct" -> <<"IS", "NOT", "DISTINCT", "FROM">>
      [] kind = "not like" -> <<"NOT", "LIKE">>
      [] kind = "not between" -> <<"NOT", "BETWEEN">>
      [] kind = "is not" -> <<"IS", "NOT">>
      [] kind = "not in" -> <<"NOT", "IN", "(">>
      [] kind = "[]" -> <<"[">>
      [] OTHER -> <<kind>>

\* What is written before the first part, between the parts and after the last.
Pieces(n) ==
    CASE n.parts = <<>> -> <<Spelling(n.kind)>>
      [] Label(n) \in {"unary", "NOT"} -> <<<<n.kind>>, <<>>>>
      [] n.kind = "()" -> <<<<"(">>, <<")">>>>
      [] n.kind \in {"in", "not in"} -> <<<<>>, Spelling(n.kind), <<")">>>>
      [] n.kind = "[]" -> <<<<>>, <<"[">>, <<"]">>>>
      [] n.kind \in {"between", "not between"} -> <<<<>>, Spelling(n.kind), <<"AND">>, <<>>>>
      [] n.kind = "list" -> [k \in 1 .. Len(n.parts) + 1 |-> IF k \in 2 .. Len(n.parts) THEN <<",">> ELSE <<>>]
      [] OTHER -> [k \in 1 .. Len(n.parts) + 1 |->
                     IF IsOperator(n) /\ k = 2 THEN Spelling(n.kind)
                     ELSE IF n.kind = "SelectNode" /\ k = 1 THEN <<"SELECT">> ELSE <<>>]

RECURSIVE Written(_), RightEdge(_), LeftEdge(_), Respects(_)
Written(n) ==
    Pieces(n)[1] \o FlattenSeq([k \in DOMAIN n.parts |-> Written(n.parts[k]) \o Pieces(n)[k + 1]])

\* An operator whose left, or right, operand is not delimited by a bracket.
OpenLeft(n) == IsOperator(n) /\ Pieces(n)[1] = <<>>
OpenRight(n) == IsOperator(n) /\ Last(Pieces(n)) = <<>> /\ n.kind \notin {"is", "is not", "::"}
LeftEdge(n) == IF OpenLeft(n) THEN {Rank(n)} \cup LeftEdge(Head(n.parts)) ELSE {}
RightEdge(n) == IF OpenRight(n) THEN {RightRank(n)} \cup RightEdge(Last(n.parts)) ELSE {}

Respects(n) ==
    /\ OpenLeft(n) => \A r \in RightEdge(Head(n.parts)) : r >= Rank(n)
    /\ OpenRight(n) => \A r \in LeftEdge(Last(n.parts)) : r > RightRank(n)
    /\ \A k \in DOMAIN n.parts : Respects(n.parts[k])

SyntaxError == <<Leaf("error")>>

-----------------------------------------------------------------------------
(* What a token may be. *)

AllIn(s, chars) == Range(s) \subseteq chars
IsNumber(s) ==
    /\ AllIn(s, Digits \cup {"."}) /\ Cardinality({n \in DOMAIN s : s[n] = "."}) <= 1
\* In quotes; at the end of the text the last one may be missing.
IsQuoted(s, quote, last) ==
    /\ s[1] = quote
    /\ \A n \in 2 .. Len(s) - 1 : s[n] # quote
    /\ (Len(s) > 1 /\ s[Len(s)] = quote) \/ last
IsToken(s, last) ==
    \/ Len(s) = 1 /\ s[1] \in Space \cup Singles
    \/ s \in Doubles
    \/ Len(s) > 1 /\ s[1] = "-" /\ s[2] = "-" /\ "\n" \notin Range(s)
    \/ IsNumber(s)
    \/ AllIn(s, Letters \cup Digits \cup {"_"}) /\ s[1] \notin Digits
    \/ IsQuoted(s, "'", last) \/ IsQuoted(s, "\"", last)

\* The tokens begin where the ones before them end, and none of them could have
\* been longer.
TokensFit ==
    \A k \in DOMAIN stmts :
        LET start == stmts[k].start
            after == IF k < Len(stmts) THEN stmts[k + 1].start ELSE idx
            Cut(e) == IsToken(SubSeq(input.text, start, e - 1), e > Len(input.text))
        IN  /\ (k = 1 => start = 1) /\ start < after
            /\ stmts[k].chars = SubSeq(input.text, start, after - 1)
            /\ Cut(after) /\ \A e \in after + 1 .. Len(input.text) + 1 : ~Cut(e)

-----------------------------------------------------------------------------
(* What statements mean: pairs of tokens and of the trees they stand for.  *)

Key(words) == {<<words, <<>>>>}
Word(t) == {<<<<t>>, <<Leaf(t)>>>>}
Hidden(t) == {<<<<>>, <<Leaf(t)>>>>}
Opt(A) == A \cup Key(<<>>)
Phrases(sets) ==
    FoldLeft(LAMBDA A, B : {<<a[1] \o b[1], a[2] \o b[2]>> : a \in A, b \in B}, Key(<<>>), sets)
Nest(kind, A) == {<<a[1], <<Node(kind, a[2])>>>> : a \in A}
Made(kind, sets) == Nest(kind, Phrases(sets))
Parens(A) == Phrases(<<Key(<<"(">>), A, Key(<<")">>)>>)
InParens(A) == Nest("list", Parens(A))
OneOrTwo(A, B) == Nest("list", A) \cup Made("list", <<A, Key(<<",">>), B>>)
Binary(op, A, B) == {<<a[1] \o <<op>> \o b[1], <<Node(op, a[2] \o b[2])>>>> : a \in A, b \in B}

Item(A) == Nest("SelectExpr", A)
Ref(t) == Nest("ref", Word(t))
Sum == Binary("+", Word("a"), Word("1"))
IsOne == Binary("=", Word("a"), Word("1"))
Qualified == Made("compound", <<Word("t"), Key(<<".">>), Word("a")>>)
SelectB == Nest("QueryNode", Made("SelectNode", <<Key(<<"SELECT">>), Nest("list", Item(Word("b")))>>))

\* Expressions with brackets.
Call(args) == Made("call", <<Ref("f"), Key(<<"(">>), args, Key(<<")">>)>>)
Ordered(A) == Made("order by", <<Key(<<"ORDER", "BY">>), Nest("list", Nest("OrderByNode", A))>>)
Frame ==
    Made("WindowFrame",
         <<Word("ROWS"), Key(<<"BETWEEN">>),
           Made("WindowFrameBound", <<Nest("all before", Key(<<"UNBOUNDED", "PRECEDING">>))>>), Key(<<"AND">>),
           Made("WindowFrameBound", <<Word("1"), Word("FOLLOWING")>>),
           Opt(Made("WindowFrameExclusion", <<Key(<<"EXCLUDE">>), Word("TIES")>>))>>)
Window ==
    Made("WindowDefinition",
         <<Opt(Word("v")), Opt(Made("partition by", <<Key(<<"PARTITION", "BY">>), OneOrTwo(Word("a"), Word("b"))>>)),
           Ordered(Word("c")), Opt(Frame)>>)
Filter == Made("filter", <<Key(<<"FILTER", "(", "WHERE">>), IsOne, Key(<<")">>)>>)
Over == Made("over", <<Key(<<"OVER">>), Parens(Window)>>)
Named == Made("named", <<Word("b"), Key(<<"=>">>), Word("1")>>)
Calls ==
    {<<x[1] \o y[1], <<[x[2][1] EXCEPT !.parts = @ \o y[2]]>>>> :
        x \in Call(Nest("star", Key(<<"*">>))) \cup Call(Key(<<>>))
              \cup Call(Phrases(<<Opt(Word("DISTINCT")), OneOrTwo(Qualified, Named)>>)),
        y \in Phrases(<<Opt(Filter), Opt(Over)>>)}
Choice == Made("WhenThen", <<IsOne, Key(<<"THEN">>), Sum>>)
Bracketed ==
    Calls \cup Nest("()", Parens(Sum)) \cup Nest("subquery", Parens(SelectB))
    \cup Nest("tuple", Parens(Phrases(<<Word("a"), Key(<<",">>), Word("1")>>)))
    \cup Made("exists", <<Key(<<"EXISTS">>), Parens(SelectB)>>)
    \cup Made("not exists", <<Key(<<"NOT", "EXISTS">>), Parens(SelectB)>>)
    \cup Made("in", <<Word("a"), Key(<<"IN">>), Parens(SelectB)>>)
    \cup Made("not in", <<Word("a"), Key(<<"NOT", "IN">>), Parens(OneOrTwo(Word("1"), Word("2")))>>)
    \cup Made("ANY", <<Word("a"), Word("="), Key(<<"SOME">>), Parens(SelectB)>>)
    \cup Made("CASE", <<Key(<<"CASE">>), Opt(Word("b")), Key(<<"WHEN">>),
                        Nest("list", Choice) \cup Made("list", <<Choice, Key(<<"WHEN">>), Choice>>),
                        Opt(Made("else", <<Key(<<"ELSE">>), Word("2")>>)), Key(<<"END">>)>>)
    \cup Made("CAST", <<Key(<<"CAST", "(">>), Sum, Key(<<"AS", "INTEGER", ")">>), Hidden("i32")>>)
    \cup Made("::", <<Word("a"), Key(<<"::", "NUMERIC">>),
                      Nest("decimal", Opt(Parens(Phrases(<<Nest("Int64", Word("3")), Key(<<",">>),
                                                           Nest("Int64", Word("1"))>>))))>>)
    \cup Made("POSITION", <<Key(<<"POSITION", "(">>), Sum, Key(<<"IN">>), Word("b"), Key(<<")">>)>>)
    \cup UNION {Made("SUBSTRING", <<Key(<<"SUBSTRING", "(">>), Word("a"), Key(<<x>>), Word("1"),
                                    Opt(Phrases(<<Key(<<y>>), Word("2")>>)), Key(<<")">>)>>) :
                x \in {"FROM", ","}, y \in {"FOR", ","}}
    \cup Made("EXTRACT", <<Key(<<"EXTRACT", "(">>), Word("YEAR"), Key(<<"FROM">>), Word("a"), Key(<<")">>)>>)
    \cup Made("array", <<Key(<<"[">>), OneOrTwo(Word("1"), Word("a")), Key(<<"]">>)>>)
    \cup Made("interval", <<Key(<<"INTERVAL">>), Word("'s'"),
                            Opt(Nest("IntervalUnit", Word("DAY") \cup Phrases(<<Key(<<"YEARS">>), Hidden("YEAR")>>)))>>)
    \cup Made("typed", <<Key(<<"DATE">>), Hidden("date"), Word("'s'")>>)

\* Select lists.
Replace == Made("replace", <<Sum, Key(<<"AS">>), Nest("as", Word("b"))>>)
Stars ==
    Made("wildcard",
         <<Nest("*", Word("*") \cup Phrases(<<Word("t"), Key(<<".">>), Word("*")>>)),
           Opt(Phrases(<<Key(<<"EXCLUDE">>), InParens(Word("a"))>>)),
           Opt(Made("replace", <<Key(<<"REPLACE">>), InParens(Replace)>>))>>)
Aliased ==
    Item(Phrases(<<Word("a") \cup Qualified,
                   Opt(Nest("as", Word("b")) \cup Made("as", <<Key(<<"AS">>), Word("LIMIT")>>))>>))
Lists ==
    OneOrTwo(Item(Bracketed) \cup Stars \cup Aliased, Item(Word("c"))) \cup OneOrTwo(Item(Word("c")), Stars)
    \cup Made("list", <<Item(Word("a")), Key(<<",">>)>>)

\* FROM.  CROSS JOIN and NATURAL JOIN come last.
Base(t) == Nest("BaseTable", Ref(t))
Table(t) == Made("BaseTable", <<Ref(t), Opt(Made("as", <<Key(<<"AS">>), Word("q")>>))>>)
On == Made("on", <<Key(<<"ON">>), Binary("=", Word("a"), Word("b"))>>)
Using == Made("using", <<Key(<<"USING">>), InParens(Word("a"))>>)
JoinKinds ==
    {<<<<"JOIN">>, "inner">>, <<<<"INNER", "JOIN">>, "inner">>, <<<<"LEFT", "JOIN">>, "left">>,
     <<<<"LEFT", "OUTER", "JOIN">>, "left">>, <<<<"RIGHT", "JOIN">>, "right">>, <<<<"FULL", "JOIN">>, "outer">>,
     <<<<"SEMI", "JOIN">>, "left semi">>, <<<<"LEFT", "ANTI", "JOIN">>, "left anti">>,
     <<<<"RIGHT", "SEMI", "JOIN">>, "right semi">>}
TwoKinds == {<<<<"JOIN">>, "inner">>, <<<<"LEFT", "OUTER", "JOIN">>, "left">>}
Joined(L, R, kinds) == UNION {Made(k[2], <<L, Key(k[1]), R, On \cup Using>>) : k \in kinds}
Natural(L, R, kinds) ==
    UNION {Made(k[2], <<L, Key(<<"NATURAL">> \o k[1]), R, Hidden("natural")>>) : k \in kinds}
Crossed(L, R) == Made("inner", <<L, Key(<<",">>) \cup Key(<<"CROSS", "JOIN">>), R>>)
TJoinU == Joined(Base("t"), Base("u"), TwoKinds)
Sources ==
    Table("t") \cup Joined(Table("t"), Table("u"), JoinKinds) \cup Natural(Table("t"), Table("u"), JoinKinds)
    \cup Crossed(Table("t"), Table("u")) \cup Joined(TJoinU, Base("v"), TwoKinds)
    \cup Natural(TJoinU, Base("v"), TwoKinds) \cup Crossed(TJoinU, Table("v"))
    \cup Made("inner", <<Table("v"), Key(<<",">>), TJoinU>>)
    \cup Made("inner", <<Base("v"), Key(<<"JOIN">>), TJoinU, On>>)
    \cup Made("FromSubquery", <<Opt(Word("LATERAL")), Parens(SelectB), Nest("as", Word("v")),
                                Opt(InParens(Word("c")))>>)
    \cup Made("TableFunction", <<Ref("f"), InParens(Word("1"))>>) \cup Nest("File", Word("'s'"))

\* Queries.
From(A) == Made("from", <<Key(<<"FROM">>), A>>)
Select(list, rest) == Made("SelectNode", <<Key(<<"SELECT">>), list, rest>>)
SetsOf(word, words) == Nest("GroupByExpr", Made(word, <<Key(words), InParens(Word("a"))>>))
Groups ==
    Made("group by",
         <<Key(<<"GROUP", "BY">>),
           Word("ALL") \cup Nest("list", SetsOf("ROLLUP", <<"ROLLUP">>) \cup SetsOf("CUBE", <<"CUBE">>)
               \cup SetsOf("GROUPING", <<"GROUPING", "SETS">>)
               \cup Nest("GroupByExpr", OneOrTwo(Word("a"), Word("b"))))>>)
Clauses ==
    Phrases(<<From(Base("t")), Opt(Made("where", <<Key(<<"WHERE">>), IsOne>>)), Opt(Groups),
              Opt(Made("having", <<Key(<<"HAVING">>), Qualified>>))>>)
Orders ==
    Ordered(Phrases(<<Word("a"), Opt(Word("DESC")), Opt(Nest("first", Key(<<"NULLS", "FIRST">>))
                                                        \cup Nest("last", Key(<<"NULLS", "LAST">>)))>>))
Limit == Made("limit", <<Key(<<"LIMIT">>), Word("1")>>)
Offset == Made("offset", <<Key(<<"OFFSET">>), Word("2")>>)
Limits == Opt(Limit \cup Offset \cup Phrases(<<Limit, Offset>>)
              \cup {<<x[1] \o y[1], y[2] \o x[2]>> : x \in Offset, y \in Limit})
With ==
    Made("with", <<Key(<<"WITH">>), Opt(Word("RECURSIVE")),
                   Nest("list", Made("CommonTableExpr",
                       <<Word("q"), Opt(InParens(Word("c"))), Key(<<"AS">>), Opt(Word("MATERIALIZED")),
                         Parens(SelectB)>>))>>)
AllOrDistinct == Opt(Nest("all", Key(<<"ALL">>)) \cup Nest("distinct", Key(<<"DISTINCT">>)))
ListA == Nest("list", Item(Word("a")))
Rows ==
    Nest("QueryNode",
         Made("Values", <<Key(<<"VALUES">>), OneOrTwo(Nest("ValuesRow", Parens(OneOrTwo(Word("1"), Word("2")))),
                                                      Nest("ValuesRow", Parens(Nest("list", Word("a")))))>>))
Queries ==
    Nest("QueryNode", Select(Lists, From(Base("t"))) \cup Select(ListA, From(Sources)) \cup Select(ListA, Clauses))
    \cup Made("QueryNode", <<Opt(With), Made("SelectNode", <<Key(<<"SELECT">>), AllOrDistinct, ListA,
                                                            From(Base("t"))>>), Opt(Orders), Limits>>)
    \cup Rows

\* The other statements.
IfNot == Opt(Nest("not exists", Key(<<"IF", "NOT", "EXISTS">>)))
Name == Ref("t") \cup Made("ref", <<Word("q"), Key(<<".">>), Word("t")>>)
Options == Opt(Parens(Nest("list", Made("Option", <<Word("a"), Word("1")>>))))
Create ==
    Phrases(<<Key(<<"CREATE">>), Opt(Nest("replace", Key(<<"OR", "REPLACE">>))),
              Opt(Word("TEMP") \cup Phrases(<<Key(<<"TEMPORARY">>), Hidden("TEMP")>>))>>)
Defined ==
    Made("ColumnDef", <<Word("a"), Key(<<"INT">>), Hidden("i32"), Opt(Nest("not null", Key(<<"NOT", "NULL">>)))>>)
\* The text of a view is kept with its blanks, from the first of its tokens on.
Spaced(ts) == FlattenSeq([n \in DOMAIN ts |-> <<"_", ts[n], "--">>])
Text(A) ==
    {<<Spaced(a[1]), Append(a[2], Node("sql", [n \in 1 .. 3 * Len(a[1]) - 1 |-> Leaf(Spaced(a[1])[n + 1])]))>> :
        a \in A}
Commands ==
    Made("CreateTable", <<Create, Key(<<"TABLE">>), IfNot, Name, Opt(Parens(OneOrTwo(Defined, Defined))),
                          Opt(Phrases(<<Key(<<"AS">>), SelectB>>))>>)
    \cup Made("CreateView", <<Create, Key(<<"VIEW">>), Name, Opt(InParens(Word("a"))), Key(<<"AS">>), Text(SelectB)>>)
    \cup Made("CreateSchema", <<Key(<<"CREATE", "SCHEMA">>), IfNot, Name>>)
    \cup Made("Drop", <<Key(<<"DROP">>), Word("TABLE") \cup Word("VIEW") \cup Word("SCHEMA"),
                        Opt(Nest("exists", Key(<<"IF", "EXISTS">>))), Name, Opt(Word("CASCADE"))>>)
    \cup Made("Insert", <<Key(<<"INSERT", "INTO">>), Name, Opt(Parens(OneOrTwo(Word("a"), Word("b")))),
                          Rows \cup SelectB>>)
    \cup Made("SetVariable", <<Key(<<"SET">>), Name, Key(<<"TO">>) \cup Key(<<"=">>), Sum>>)
    \cup Made("ResetVariable", <<Key(<<"RESET">>), Word("ALL") \cup Name>>)
    \cup Made("Show", <<Key(<<"SHOW">>), Word("TABLES") \cup Name>>)
    \cup Made("Explain", <<Key(<<"EXPLAIN">>), Opt(Word("ANALYZE")), Opt(Word("VERBOSE")),
                           Opt(Parens(Phrases(<<Key(<<"FORMAT">>), Word("JSON")>>))), SelectB>>)
    \cup Made("Discard", <<Key(<<"DISCARD">>), Word("PLANS")>>)
    \cup Made("CopyTo", <<Key(<<"COPY">>), Parens(SelectB) \cup Ref("t"), Key(<<"TO">>), Word("'s'"), Options>>)
    \cup Made("Attach", <<Key(<<"ATTACH">>), Word("q"), Word("DATABASE"), Key(<<"AS">>), Name, Options>>)
    \cup Made("Detach", <<Key(<<"DETACH">>), Word("TABLE"), Name>>)
    \cup Nest("QueryNode", Made("Describe", <<Key(<<"DESCRIBE">>), SelectB \cup Table("t")>>))
Several ==
    Phrases(<<Opt(Key(<<";">>)), SelectB \cup Made("Discard", <<Key(<<"DISCARD">>), Word("ALL")>>),
              Key(<<";">>) \cup Key(<<";", ";">>), SelectB, Opt(Key(<<";">>))>>)
Wrong ==
    {<<"SELECT", "a", "SELECT", "b">>, <<"SELECT">>, <<"SELECT", "(", "a">>, <<"DISCARD", "ALL", "DISCARD", "ALL">>,
     <<"EXPLAIN", "DISCARD", "ALL">>, <<"DROP", "t">>, <<"CREATE", "OR", "REPLACE", "SCHEMA", "t">>, <<"a">>,
     <<"SELECT", "a", ",", ",", "b">>, <<"SELECT", "a", "LIMIT">>, <<"SELECT", "a", "NOT", "b">>}

\* Expressions and set operations without brackets: the tokens say what they mean.
Operators ==
    {<<"OR">>, <<"AND">>, <<"IS", "DISTINCT", "FROM">>, <<"=">>, <<"LIKE">>, <<"NOT", "BETWEEN", "c", "AND">>,
     <<"||">>, <<"-">>, <<"*">>, <<"^">>}
Postfixes == {<<"IS", "NULL">>, <<"IS", "NOT", "TRUE">>, <<"::", "INT">>, <<"[", "1", "]">>,
              <<"IN", "(", "1", ",", "2", ")">>}
Operands(n) == {p \o <<n>> : p \in {<<>>, <<"NOT">>, <<"-">>}}
Tails(n) == Postfixes \cup {o \o x : o \in Operators, x \in Operands(n)}
Flat ==
    {<<"SELECT">> \o x \o y \o z : x \in Operands("a"), y \in Tails("b"),
                                    z \in Postfixes \cup {Append(o, "c") : o \in Operators}}
    \cup {<<"SELECT", "a", x, "SELECT", "b", y, "SELECT", "c", z, "SELECT", "t">> :
            x, y, z \in {"UNION", "EXCEPT", "INTERSECT"}}

Sentences ==
    {[tokens |-> a[1], meant |-> a[2]] : a \in Queries \cup Commands \cup Several}
    \cup {[tokens |-> t, meant |-> <<>>] : t \in Flat}
    \cup {[tokens |-> t, meant |-> SyntaxError] : t \in Wrong}

-----------------------------------------------------------------------------
(* The index and what was found belong to the input: a token takes at      *)
(* least a character, a statement at least a token.                        *)
TypeOK ==
    /\ delimiter \in BOOLEAN /\ outcome \in {"tokenizing", "parsing", "ok", "error"}
    /\ idx \in 1 .. Len(IF "text" \in DOMAIN input THEN input.text ELSE input.tokens) + 2
    /\ Len(stmts) < idx /\ (delimiter => stmts # <<>>)

(* A text is cut into the longest tokens, without a gap, and refused only  *)
(* at a character no token begins with (Tokenizer::next_token).  Statements*)
(* are taken apart as they are meant: the tree of an expression or of set  *)
(* operations has every token in its place and puts the stronger operator, *)
(* and of equal ones the left, deeper; the other statements give the tree  *)
(* they are meant to give, or an error (Parser::parse_statements).         *)
ParsedAsMeant ==
    IF "text" \in DOMAIN input
    THEN /\ TokensFit
         /\ outcome = "error" => \A e \in idx + 1 .. Len(input.text) + 1 :
                                    ~IsToken(SubSeq(input.text, idx, e - 1), e > Len(input.text))
         /\ outcome = "ok" => idx = Len(input.text) + 1
    ELSE /\ outcome = "error" => input.meant = SyntaxError
         /\ outcome = "ok" =>
              IF input.meant = <<>>
              THEN /\ FlattenSeq([k \in DOMAIN stmts |-> Written(stmts[k])]) = toks
                   /\ \A k \in DOMAIN stmts : Respects(stmts[k])
              ELSE stmts = input.meant
=============================================================================
