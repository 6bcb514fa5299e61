-------------------------- MODULE ScalarExpressions --------------------------
(***************************************************************************)
(* A call of a scalar function on one row: the casts the query asks for    *)
(* are bound first, then a signature is chosen and the casts it needs are  *)
(* put in, then the function binds its arguments (decimals are brought to  *)
(* one scale), and at last the row is evaluated.                           *)
(*                                                                         *)
(* A value of a row is <<v>>, or <<>> for NULL.  The outcome is <<>> until *)
(* the call is answered, then <<"row", value>>, or why there is none.      *)
(***************************************************************************)
EXTENDS Casts

CONSTANTS CastChains, \* sequences of types: a column and the casts of it
          Samples,    \* the values of such a column, by the id of its type
          Args,       \* the arguments of a function: a column or a literal
          ArgSamples, \* and their values
          Calls       \* the functions called

VARIABLES call,   \* the function, its arguments and their values
          inputs, \* the argument expressions as bound so far
          chosen, \* the signature chosen
          type,   \* the type of the result
          stage,
          out

vars == <<call, inputs, chosen, type, stage, out>>

-----------------------------------------------------------------------------
(* Signatures *)

Signature(args, ret) == [args |-> args, variadic |-> <<>>, ret |-> ret]
Same(ids) == {Signature(<<t, t>>, t) : t \in ids}
Unary(ids) == {Signature(<<t>>, t) : t \in ids}

Numbers == Ints \cup Floats

\* Decimals with one another and with the integers that fit into them.
D_SIGS ==
    Same(Decimals)
    \cup UNION {{Signature(<<"Decimal64", i>>, "Decimal64"), Signature(<<i, "Decimal64">>, "Decimal64")} :
                i \in {"Int8", "Int16", "Int32"}}
    \cup UNION {{Signature(<<"Decimal128", i>>, "Decimal128"), Signature(<<i, "Decimal128">>, "Decimal128")} :
                i \in {"Int8", "Int16", "Int32", "Int64"}}

FUNCTION_SET_ADD ==
    Same(Numbers) \cup D_SIGS
    \cup {Signature(<<"Date32", "Int32">>, "Date32"), Signature(<<"Int32", "Date32">>, "Date32")}
FUNCTION_SET_SUB == Same(Numbers) \cup D_SIGS \cup {Signature(<<"Date32", "Int32">>, "Date32")}
FUNCTION_SET_MUL == Same(Numbers) \cup D_SIGS
FUNCTION_SET_DIV == Same(Numbers) \cup {Signature(<<d, d>>, "Float64") : d \in Decimals}
FUNCTION_SET_REM == Same(Numbers)

Comparisons == {"=", "<>", "<", "<=", ">", ">=", "distinct", "not distinct"}
SIGS == Numbers \cup Decimals \cup {"Boolean", "Date32", "Utf8"}
FUNCTION_SET_COMPARE == {Signature(<<t, t>>, "Boolean") : t \in SIGS}

FUNCTION_SET_NEG == Unary(SignedInts \cup Floats)
FUNCTION_SET_NOT == Unary({"Boolean"})
FUNCTION_SET_AND_OR ==
    {[args |-> <<"Boolean">>, variadic |-> <<"Boolean">>, ret |-> "Boolean"]}
FUNCTION_SET_IS_NULL == {Signature(<<"Any">>, "Boolean")}
FUNCTION_SET_IS_BOOL == {Signature(<<"Boolean">>, "Boolean")}
FUNCTION_SET_GCD_LCM == Same(SignedInts)
FUNCTION_SET_FACTORIAL == {Signature(<<"Int64">>, "Int128")}
FUNCTION_SET_BITS == Same(Ints)
FUNCTION_SET_BITNOT == Unary(Ints)
FUNCTION_SET_SHIFT == {Signature(<<t, "Int32">>, t) : t \in Ints}
FUNCTION_SET_FLOATS == Unary(Floats)
FUNCTION_SET_ROUND ==
    Unary(Floats \cup Decimals) \cup {Signature(<<d, "Int64">>, d) : d \in Decimals}

Signatures(fn) ==
    CASE fn = "+" -> FUNCTION_SET_ADD [] fn = "-" -> FUNCTION_SET_SUB
      [] fn = "*" -> FUNCTION_SET_MUL [] fn = "/" -> FUNCTION_SET_DIV
      [] fn = "%" -> FUNCTION_SET_REM [] fn \in Comparisons -> FUNCTION_SET_COMPARE
      [] fn = "negate" -> FUNCTION_SET_NEG [] fn = "not" -> FUNCTION_SET_NOT
      [] fn \in {"and", "or"} -> FUNCTION_SET_AND_OR
      [] fn \in {"is null", "is not null"} -> FUNCTION_SET_IS_NULL
      [] fn \in {"is true", "is not true", "is false", "is not false"} -> FUNCTION_SET_IS_BOOL
      [] fn \in {"gcd", "lcm"} -> FUNCTION_SET_GCD_LCM
      [] fn = "factorial" -> FUNCTION_SET_FACTORIAL
      [] fn \in {"bit_and", "bit_or", "xor"} -> FUNCTION_SET_BITS
      [] fn = "bit_not" -> FUNCTION_SET_BITNOT [] fn \in {"shl", "shr"} -> FUNCTION_SET_SHIFT
      [] fn \in {"abs", "sign", "ceil", "floor", "trunc"} -> FUNCTION_SET_FLOATS
      [] fn = "round" -> FUNCTION_SET_ROUND

-----------------------------------------------------------------------------
(* The choice of a signature *)

\* The type a signature wants for argument i.
Wanted(sig, i) == IF i <= Len(sig.args) THEN sig.args[i] ELSE sig.variadic[1]

ArityFits(sig, n) == IF sig.variadic = <<>> THEN n = Len(sig.args) ELSE n >= Len(sig.args)

find_exact(fn, args) ==
    {sig \in Signatures(fn) :
        /\ ArityFits(sig, Len(args))
        /\ \A i \in 1..Len(args) : Wanted(sig, i) \in {"Any", TypeOf(args[i]).id}}

\* Whether a literal is small enough to be one of the wanted type.
try_refine_literal(arg, v, want) ==
    /\ arg.literal /\ arg.casts = <<>>
    /\ arg.type.id \in {"Int32", "Int64"}
    /\ want \in {"Int8", "Int16", "Int32", "Int64"} \ {arg.type.id}
    /\ InRange(want, v)

\* How well an argument suits; v is its value if it is a literal.
ArgScore(arg, v, want) ==
    CASE want \in {"Any", TypeOf(arg).id} -> <<800>>
      [] v # <<>> /\ arg.literal /\ try_refine_literal(arg, v[1], want) -> <<CastScore[want] + 100>>
      [] OTHER -> implicit_cast_score(TypeOf(arg).id, want)

MutFirstOnly(args, row, sig) == ArgScore(args[1], row[1], Wanted(sig, 1))[1]

TotalScore(args, row, sig) ==
    FoldSet(LAMBDA i, acc : acc + ArgScore(args[i], row[i], Wanted(sig, i))[1], 0, 1..Len(args))

compare_and_fill_types(args, row, sig) ==
    /\ ArityFits(sig, Len(args))
    /\ \A i \in 1..Len(args) : ArgScore(args[i], row[i], Wanted(sig, i)) # <<>>

\* The best candidates; their order is that of an unstable sort.
find_candidates(fn, args, row) ==
    LET fitting == {sig \in Signatures(fn) : compare_and_fill_types(args, row, sig)}
    IN  {sig \in fitting :
            \A other \in fitting : TotalScore(args, row, other) <= TotalScore(args, row, sig)}

\* The argument as the signature wants it, <<>> if that has no type.
ApplyCast(arg, v, want) ==
    CASE want \in {"Any", TypeOf(arg).id} -> <<arg>>
      [] v # <<>> /\ arg.literal /\ try_refine_literal(arg, v[1], want) -> <<Literal(DataType(want))>>
      [] OTHER -> LET to == try_generate_cast_datatype(TypeOf(arg), want)
                  IN  IF to = <<>> THEN <<>> ELSE new_using_default_casts(arg, to[1])

-----------------------------------------------------------------------------
(* How a function binds its arguments *)

decimal_meta(t) ==
    IF t.id \in Decimals THEN [precision |-> t.precision, scale |-> t.scale]
    ELSE new_for_datatype_id(t.id)

MutPrecisionUncut(d, l, r, extra) ==
    LET scale == Max({l.scale, r.scale})
    IN  [precision |-> Max({l.precision - l.scale, r.precision - r.scale}) + scale + extra, scale |-> scale]

\* Enough digits on both sides of the point for l and r, and "extra" ones.
CommonMeta(d, l, r, extra) ==
    LET scale == Max({l.scale, r.scale})
        digits == Max({l.precision - l.scale, r.precision - r.scale})
    IN  [precision |-> Min({digits + scale + extra, MaxPrecision[d]}), scale |-> scale]

MutLeftScale(d, l, r) == DecimalType(d, CommonMeta(d, l, r, 1).precision, l.scale)

common_add_sub_decimal_type_info(d, l, r) ==
    LET meta == CommonMeta(d, l, r, 1) IN DecimalType(d, meta.precision, meta.scale)

\* e as the decimal type, cast unless it has the type already.
CastUnless(e, to) ==
    IF TypeOf(e).id \in Decimals /\ decimal_meta(TypeOf(e)) = decimal_meta(to) THEN <<e>>
    ELSE new_using_default_casts(e, to)

Bound(l, r, ret) == IF l = <<>> \/ r = <<>> THEN <<>> ELSE <<[inputs |-> <<l[1], r[1]>>, type |-> ret]>>

DecimalAddSub(d, l, r) ==
    LET to == common_add_sub_decimal_type_info(d, decimal_meta(TypeOf(l)), decimal_meta(TypeOf(r)))
    IN  Bound(CastUnless(l, to), CastUnless(r, to), to)

\* An argument that is no decimal becomes one of the same value.
AsDecimal(d, e) ==
    IF TypeOf(e).id \in Decimals THEN <<e>>
    ELSE LET meta == decimal_meta(TypeOf(e))
         IN  new_using_default_casts(e, DecimalType(d, meta.precision, meta.scale))

MutScaleOfLeft(d, l, r) ==
    LET lm == decimal_meta(TypeOf(l))
    IN  Bound(AsDecimal(d, l), AsDecimal(d, r), DecimalType(d, MaxPrecision[d], lm.scale))

DecimalMul(d, l, r) ==
    LET lm == decimal_meta(TypeOf(l))
        rm == decimal_meta(TypeOf(r))
        scale == lm.scale + rm.scale
        precision == Min({lm.precision + rm.precision, MaxPrecision[d]})
    IN  IF scale > MaxPrecision[d] \/ scale > precision THEN <<>>
        ELSE Bound(AsDecimal(d, l), AsDecimal(d, r), DecimalType(d, precision, scale))

decimal_bind(d, l, r) ==
    LET lm == decimal_meta(TypeOf(l))
        rm == decimal_meta(TypeOf(r))
        meta == CommonMeta(d, lm, rm, 0)
        to == DecimalType(d, meta.precision, meta.scale)
    IN  IF lm = rm THEN <<[inputs |-> <<l, r>>, type |-> DataType("Boolean")]>>
        ELSE Bound(CastUnless(l, to), CastUnless(r, to), DataType("Boolean"))

DivDecimal(l, r) ==
    Bound(new_using_default_casts(l, DataType("Float64")),
          new_using_default_casts(r, DataType("Float64")), DataType("Float64"))

\* The scale of round is a constant; it never becomes larger.
RoundDecimal(d, args, row) ==
    LET t == TypeOf(args[1])
        scale == IF Len(args) = 1 THEN 0 ELSE row[2][1]
    IN  IF Len(args) = 2 /\ (~args[2].literal \/ ~InRange("Int8", row[2][1])) THEN <<>>
        ELSE <<[inputs |-> args, type |-> DecimalType(d, t.precision, Min({scale, t.scale}))]>>

BindFunction(fn, sig, args, row) ==
    LET d == sig.args[1]
        dec == IF d \in Decimals THEN d ELSE sig.args[2]
        plain == <<[inputs |-> args, type |-> DataType(sig.ret)]>>
    IN  CASE fn \in {"+", "-"} /\ sig.ret \in Decimals -> DecimalAddSub(dec, args[1], args[2])
          [] fn = "*" /\ sig.ret \in Decimals -> DecimalMul(dec, args[1], args[2])
          [] fn = "/" /\ d \in Decimals -> DivDecimal(args[1], args[2])
          [] fn \in Comparisons /\ d \in Decimals -> decimal_bind(d, args[1], args[2])
          [] fn = "round" /\ d \in Decimals -> RoundDecimal(d, args, row)
          [] OTHER -> plain

-----------------------------------------------------------------------------
(* Evaluation *)

\* A row's value through the casts of an expression; "error" if one fails.
EvalCasts(e, value) ==
    LET Types == <<e.type>> \o e.casts
        Step(acc, i) ==
            IF acc[1] # "value" \/ acc[2] = <<>> THEN acc
            ELSE LET r == CastValue(Types[i], Types[i + 1], acc[2][1])
                 IN  IF r = <<>> THEN <<"error", <<>>>> ELSE <<"value", r>>
    IN  FoldLeft(Step, <<"value", value>>, [i \in 1..Len(e.casts) |-> i])

Row(v) == <<"row", <<v>>>>
NullRow == <<"row", <<>>>>
Panic == <<"panic", <<>>>>
NotFinite == <<"not finite", <<>>>>
Bool(b) == Row(IF b THEN 1 ELSE 0)

\* a/b towards zero.
Quotient(a, b) == IF b < 0 THEN Truncated(-a, -b) ELSE Truncated(a, b)
Remainder(a, b) == a - b * Quotient(a, b)

\* What an integer division does not survive.
DivPanics(t, a, b) == b = 0 \/ (a = Lowest(t) /\ b = -1 /\ t \in SignedInts)

Add(t, a, b) == IF t \in Floats THEN NearestFloat(t, a + b, FloatUnit) ELSE Wrap(t, a + b)
Sub(t, a, b) == IF t \in Floats THEN NearestFloat(t, a - b, FloatUnit) ELSE Wrap(t, a - b)
Mul(t, a, b) ==
    IF t \in Floats THEN NearestFloat(t, a * b, FloatUnit * FloatUnit) ELSE Wrap(t, a * b)

Div(t, a, b) ==
    CASE t \in Floats /\ b = 0 -> NotFinite
      [] t \in Floats -> Row(NearestFloat(t, IF b < 0 THEN -a ELSE a, Abs(b)))
      [] OTHER -> IF DivPanics(t, a, b) THEN Panic ELSE Row(Quotient(a, b))

Rem(t, a, b) ==
    CASE t \in Floats /\ b = 0 -> NotFinite
      [] t \notin Floats /\ DivPanics(t, a, b) -> Panic
      [] OTHER -> Row(Remainder(a, b))

\* The order of texts is that of their bytes.
ByteOrder == <<"+", "-", ".", "0", "1", "2", "3", "4", "5", "6", "7", "8", "9", "t">>
TextLess(a, b) ==
    LET Byte(c) == CHOOSE i \in 1..Len(ByteOrder) : ByteOrder[i] = c
        same == Max({n \in 0..Min({Len(a), Len(b)}) : SubSeq(a, 1, n) = SubSeq(b, 1, n)})
    IN  /\ same < Len(b)
        /\ same = Len(a) \/ Byte(a[same + 1]) < Byte(b[same + 1])

Compare(fn, t, a, b) ==
    LET less == IF t = "Utf8" THEN TextLess(a, b) ELSE a < b
    IN  CASE fn = "=" -> Bool(a = b) [] fn = "<>" -> Bool(a # b)
          [] fn = "<" -> Bool(less) [] fn = "<=" -> Bool(less \/ a = b)
          [] fn = ">" -> Bool(~less /\ a # b) [] fn = ">=" -> Bool(~less)

\* The comparisons that see NULL.
DistinctCompare(fn, x, y) == Bool((x = y) <=> (fn = "not distinct"))

CheckNull(fn, x) == Bool((x = <<>>) <=> (fn = "is null"))

MutNullIsFalse(fn, x) ==
    LET is == x = <<IF fn \in {"is true", "is not true"} THEN 1 ELSE 0>>
    IN  IF x = <<>> THEN Bool(FALSE) ELSE Bool(is <=> fn \in {"is true", "is false"})

IsBool(fn, x) ==
    LET is == x = <<IF fn \in {"is true", "is not true"} THEN 1 ELSE 0>>
        not == fn \in {"is not true", "is not false"}
    IN  IF x = <<>> THEN Bool(not) ELSE Bool(is <=> ~not)

RECURSIVE Euclid(_, _)
Euclid(a, b) == IF b = 0 THEN a ELSE Euclid(b, Remainder(a, b))

\* abs() of the lowest integer is itself.
AbsOf(t, v) == Wrap(t, Abs(v))

Gcd(t, a, b) ==
    CASE a = 0 -> AbsOf(t, b) [] b = 0 -> AbsOf(t, a) [] OTHER -> Euclid(AbsOf(t, a), AbsOf(t, b))

Lcm(t, a, b) ==
    IF a = 0 \/ b = 0 THEN 0
    ELSE Wrap(t, Quotient(AbsOf(t, a), Gcd(t, a, b)) * AbsOf(t, b))

RECURSIVE FactorialFrom(_, _, _)
FactorialFrom(acc, i, n) ==
    IF i > n THEN Row(acc)
    ELSE IF ~InRange("Int128", acc * i) THEN NullRow ELSE FactorialFrom(acc * i, i + 1, n)

Factorial(n) == IF n < 0 THEN NullRow ELSE FactorialFrom(1, 2, n)

\* Bit i of the two's complement of v.
BitAt(v, i) == (v \div 2^i) % 2

BitAnd(t, a, b) ==
    Wrap(t, FoldSet(LAMBDA i, acc : acc + 2^i * (BitAt(a, i) * BitAt(b, i)), 0, 0..(Bits[t] - 1)))
BitOr(t, a, b) ==
    Wrap(t, FoldSet(LAMBDA i, acc : acc + 2^i * Max({BitAt(a, i), BitAt(b, i)}), 0, 0..(Bits[t] - 1)))
BitXor(t, a, b) ==
    Wrap(t, FoldSet(LAMBDA i, acc : acc + 2^i * ((BitAt(a, i) + BitAt(b, i)) % 2), 0, 0..(Bits[t] - 1)))
BitNot(t, a) == Wrap(t, -1 - a)

MutShiftMasked(t, a, b) == Wrap(t, a * 2^(b % Bits[t]))

\* A shift by less than zero or by the width or more gives zero.
Shl(t, a, b) == IF b < 0 \/ b >= Bits[t] THEN 0 ELSE Wrap(t, a * 2^b)
Shr(t, a, b) == IF b < 0 \/ b >= Bits[t] THEN 0 ELSE a \div 2^b

\* Functions of one float.
Floor(v) == FloatUnit * (v \div FloatUnit)
Ceil(v) == -Floor(-v)
Trunc(v) == IF v < 0 THEN Ceil(v) ELSE Floor(v)
Sgn(v) == IF v = 0 THEN 0 ELSE IF v > 0 THEN FloatUnit ELSE -FloatUnit
Round(v) == FloatUnit * HalfAway(v, FloatUnit)

OfOne(fn, t, a) ==
    CASE fn = "negate" -> Row(IF t \in Floats THEN -a ELSE Wrap(t, -a))
      [] fn = "not" -> Bool(a = 0)
      [] fn = "factorial" -> Factorial(a)
      [] fn = "bit_not" -> Row(BitNot(t, a))
      [] fn = "abs" -> Row(Abs(a)) [] fn = "sign" -> Row(Sgn(a))
      [] fn = "ceil" -> Row(Ceil(a)) [] fn = "floor" -> Row(Floor(a))
      [] fn = "trunc" -> Row(Trunc(a)) [] fn = "round" -> Row(Round(a))

OfTwo(fn, t, a, b) ==
    CASE fn = "+" -> Row(Add(t, a, b)) [] fn = "-" -> Row(Sub(t, a, b))
      [] fn = "*" -> Row(Mul(t, a, b))
      [] fn = "/" -> Div(t, a, b) [] fn = "%" -> Rem(t, a, b)
      [] fn \in Comparisons -> Compare(fn, t, a, b)
      [] fn = "gcd" -> Row(Gcd(t, a, b)) [] fn = "lcm" -> Row(Lcm(t, a, b))
      [] fn = "bit_and" -> Row(BitAnd(t, a, b)) [] fn = "bit_or" -> Row(BitOr(t, a, b))
      [] fn = "xor" -> Row(BitXor(t, a, b))
      [] fn = "shl" -> Row(Shl(t, a, b)) [] fn = "shr" -> Row(Shr(t, a, b))

And(bs) == Bool(\A i \in 1..Len(bs) : bs[i] = 1)
Or(bs) == Bool(\E i \in 1..Len(bs) : bs[i] = 1)

\* The executors give NULL as soon as one of the arguments is NULL.
NullIn(xs) == \E i \in 1..Len(xs) : xs[i] = <<>>

\* Round, for decimals, is a cast.
RoundCast(from, to, v) ==
    LET r == DecimalToDecimal(from, to, v) IN IF r = <<>> THEN <<"error", <<>>>> ELSE <<"row", r>>

\* The result type and the function applied to the values of the arguments.
Apply(fn, sig, exprs, ret, xs) ==
    LET t == IF fn = "/" /\ sig.args[1] \in Decimals THEN "Float64" ELSE sig.args[1]
        num == IF t \in {"Date32", "Int32"} /\ ret.id = "Date32" THEN "Date32"
               ELSE IF ret.id \in Decimals THEN ret.id ELSE t
        vals == [i \in 1..Len(xs) |-> xs[i][1]]
    IN  CASE fn \in {"is null", "is not null"} -> CheckNull(fn, xs[1])
          [] fn \in {"is true", "is not true", "is false", "is not false"} -> IsBool(fn, xs[1])
          [] fn \in {"distinct", "not distinct"} -> DistinctCompare(fn, xs[1], xs[2])
          [] fn = "round" /\ ret.id \in Decimals ->
                IF xs[1] = <<>> THEN NullRow ELSE RoundCast(TypeOf(exprs[1]), ret, xs[1][1])
          [] OTHER ->
                IF NullIn(xs) THEN NullRow
                ELSE IF fn = "and" THEN And(vals)
                ELSE IF fn = "or" THEN Or(vals)
                ELSE IF Len(xs) = 1 THEN OfOne(fn, num, vals[1])
                ELSE OfTwo(fn, num, vals[1], vals[2])

-----------------------------------------------------------------------------
(* The steps of a call; fn "cast" is the cast of one column and no more.   *)

\* The casts a query asks for, one around the other.
AskedFor(arg, asked) ==
    FoldLeft(LAMBDA e, to : IF e = <<>> THEN <<>> ELSE new_using_default_casts(e[1], to),
             <<arg>>, asked)

Takes(fn, n) == {sig \in Signatures(fn) : ArityFits(sig, n)} # {}

\* The values an argument may have: a decimal has no more digits than it says.
ValuesOf(t) ==
    {<<>>} \cup {v \in ArgSamples[t.id] : t.id \in Decimals => Abs(v[1]) < 10^t.precision}

Init ==
    /\ \/ \E chain \in CastChains : \E v \in Samples[Head(chain).id] \cup {<<>>} :
             call = [fn |-> "cast", args |-> <<Column(Head(chain))>>, asked |-> Tail(chain),
                     row |-> <<v>>]
       \/ \E fn \in Calls : \E a \in Args : \E v \in ValuesOf(a.type) :
             \/ Takes(fn, 1) /\ call = [fn |-> fn, args |-> <<a>>, asked |-> <<>>, row |-> <<v>>]
             \/ /\ Takes(fn, 2)
                /\ \E b \in Args : \E w \in ValuesOf(b.type) :
                      call = [fn |-> fn, args |-> <<a, b>>, asked |-> <<>>, row |-> <<v, w>>]
    /\ \A i \in 1..Len(call.args) : call.args[i].literal => call.row[i] # <<>>
    /\ inputs = call.args /\ chosen = <<>> /\ type = <<>> /\ stage = "parsed" /\ out = <<>>

Answer(outcome) ==
    stage' = "done" /\ out' = outcome /\ UNCHANGED <<call, inputs, chosen, type>>

BindError == <<"bind error", <<>>>>

BindCast ==
    /\ stage = "parsed" /\ call.fn = "cast"
    /\ LET e == AskedFor(call.args[1], call.asked)
       IN  IF e = <<>> THEN Answer(BindError)
           ELSE /\ inputs' = e /\ type' = <<TypeOf(e[1])>> /\ stage' = "bound"
                /\ UNCHANGED <<call, chosen, out>>

\* The signature, with the casts that it needs.
BindSignature ==
    /\ stage = "parsed" /\ call.fn # "cast"
    /\ LET exact == find_exact(call.fn, inputs)
           best == IF exact # {} THEN exact ELSE find_candidates(call.fn, inputs, call.row)
       IN  IF best = {} THEN Answer(BindError)
           ELSE \E sig \in best :
                LET cast == [i \in 1..Len(inputs) |->
                                ApplyCast(inputs[i], call.row[i], Wanted(sig, i))]
                IN  IF \E i \in 1..Len(inputs) : cast[i] = <<>> THEN Answer(BindError)
                    ELSE /\ chosen' = <<sig>> /\ stage' = "resolved"
                         /\ inputs' = [i \in 1..Len(inputs) |-> cast[i][1]]
                         /\ UNCHANGED <<call, type, out>>

FunctionBind ==
    /\ stage = "resolved"
    /\ LET b == BindFunction(call.fn, chosen[1], inputs, call.row)
       IN  IF b = <<>> THEN Answer(BindError)
           ELSE /\ inputs' = b[1].inputs /\ type' = <<b[1].type>> /\ stage' = "bound"
                /\ UNCHANGED <<call, chosen, out>>

Evaluate ==
    /\ stage = "bound"
    /\ LET xs == [i \in 1..Len(inputs) |-> EvalCasts(inputs[i], call.row[i])]
           values == [i \in 1..Len(inputs) |-> xs[i][2]]
       IN  IF \E i \in 1..Len(inputs) : xs[i][1] = "error" THEN Answer(<<"error", <<>>>>)
           ELSE IF call.fn = "cast" THEN Answer(<<"row", values[1]>>)
           ELSE Answer(Apply(call.fn, chosen[1], inputs, type[1], values))

Next == BindCast \/ BindSignature \/ FunctionBind \/ Evaluate

Spec == Init /\ [][Next]_vars

-----------------------------------------------------------------------------
(* What the results mean, in exact fractions <<n, d>>, d > 0               *)

Exact(t, v) ==
    CASE t.id \in Floats -> <<v, FloatUnit>>
      [] t.id \in Decimals -> IF t.scale < 0 THEN <<v * 10^(-t.scale), 1>> ELSE <<v, 10^t.scale>>
      [] OTHER -> <<v, 1>>

SameNumber(x, y) == x[1] * y[2] = y[1] * x[2]
Less(x, y) == x[1] * y[2] < y[1] * x[2]

\* The integers next to n/d.
Near(n, d) == {n \div d, (n \div d) + 1}

\* The float that is n/d, or the two next to it.
FloatsAt(id, n, d) ==
    LET e == Min({k \in 0..14 : (FloatUnit * Abs(n)) \div d < 2^(Mantissa[id] + k)})
        next == Near(FloatUnit * n, d * 2^e)
    IN  {w * 2^e : w \in IF (FloatUnit * n) % (d * 2^e) = 0 THEN {Min(next)} ELSE next}

\* n/d to the nearest integer, halves away from zero.
Nearest(n, d) ==
    LET close == {w \in Near(n, d) : 2 * Abs(w * d - n) <= d}
    IN  CHOOSE w \in close : \A u \in close : Abs(u) <= Abs(w)

\* The whole part of n/d.
Whole(n, d) == CHOOSE w \in Near(n, d) : Abs(w) * d <= Abs(n) /\ Abs(n) < (Abs(w) + 1) * d
                                          /\ (w < 0 => n < 0) /\ (w > 0 => n > 0)

FitsType(to, v) ==
    IF to.id \in Decimals THEN Abs(v) < 10^to.precision ELSE InRange(to.id, v)

Option(b, v) == IF b THEN <<v>> ELSE <<>>

\* The number a text stands for, <<>> if it is none; "point" says whether
\* it may have one.
NumberOf(text, point) ==
    LET body == IF text # <<>> /\ text[1] \in {"-", "+"} THEN Tail(text) ELSE text
        dots == {i \in 1..Len(body) : body[i] = "."}
        digits == SelectSeq(body, LAMBDA c : c # ".")
        value == FoldLeft(LAMBDA acc, c : 10 * acc + (CHOOSE i \in 0..9 : ToString(i) = c), 0, digits)
    IN  IF Cardinality(dots) > (IF point THEN 1 ELSE 0)
           \/ \E i \in 1..Len(digits) : ~\E k \in 0..9 : ToString(k) = digits[i] THEN <<>>
        ELSE <<<<IF text # <<>> /\ text[1] = "-" THEN -value ELSE value,
                 IF dots = {} THEN 1 ELSE 10^(Len(body) - Min(dots))>>>>

\* Whether the half that is added to round a decimal still fits its type.
HalfFits(from, to, v) ==
    from.scale > to.scale => InRange(to.id, Abs(v) + 10^(from.scale - to.scale) \div 2)

\* Whether the power of ten of every decimal that is cast to fits an i32.
PowersFit(casts) ==
    \A i \in DOMAIN casts : casts[i].id \in Decimals => InRange("Int32", 10^casts[i].scale)

\* The results one cast may have.
CastMeans(from, to, v) ==
    LET x == Exact(from, v)
        ten == 10^to.scale
    IN  CASE from.id = "Utf8" /\ to.id = "Boolean" ->
                {Option(v \in {<<"t">>, <<"f">>}, IF v = <<"t">> THEN 1 ELSE 0)}
          [] from.id = "Utf8" /\ to.id \in Decimals ->
                LET number == NumberOf(v, TRUE)
                IN  IF number = <<>> THEN {<<>>}
                    ELSE LET w == Whole(number[1][1] * ten, number[1][2])
                         IN  {Option(FitsType(to, w), w)}
          [] from.id = "Utf8" /\ to.id \in Floats ->
                LET number == NumberOf(v, TRUE)
                IN  IF number = <<>> \/ ~\E i \in 1..Len(v) : IsDigit(v[i]) THEN {<<>>}
                    ELSE {<<w>> : w \in FloatsAt(to.id, number[1][1], number[1][2])}
          [] from.id = "Utf8" ->
                LET number == NumberOf(v, FALSE)
                IN  {Option(/\ number # <<>> /\ v \notin {<<>>, <<"-">>, <<"+">>}
                            /\ InRange(to.id, number[1][1])
                            /\ ~(to.id \in UnsignedInts /\ v[1] = "-"), number[1][1])}
          [] to.id \in Ints -> LET w == Whole(x[1], x[2]) IN {Option(InRange(to.id, w), w)}
          [] to.id \in Floats ->
                {<<w>> : w \in UNION {FloatsAt(to.id, p, FloatUnit * x[2]) : p \in FloatsAt(to.id, x[1], 1)}}
          [] to.id \in Decimals /\ from.id \in Floats ->
                {LET w == Nearest(p, FloatUnit) IN Option(FitsType(to, w), w) :
                    p \in FloatsAt(from.id, x[1] * ten, x[2])}
          [] to.id \in Decimals ->
                LET w == Nearest(x[1] * ten, x[2])
                IN  IF from.id \in Decimals
                    THEN {Option(InRange(to.id, v) /\ InRange(to.id, w), w)}
                            \cup (IF HalfFits(from, to, v) THEN {} ELSE {<<>>})
                    ELSE {Option(FitsType(to, w), w)}

\* The results of casts one after the other, on the values of a set.
ChainMeans(from, casts, values) ==
    LET Types == <<from>> \o casts
    IN  FoldLeft(LAMBDA vs, i : UNION {IF v = <<>> THEN {<<>>} ELSE CastMeans(Types[i], Types[i + 1], v[1]) :
                                       v \in vs},
                 values, [i \in 1..Len(casts) |-> i])

\* A text says the number it was made of.
TextReads(from, v, text) ==
    LET number == NumberOf(text, TRUE)
    IN  /\ number # <<>> /\ SameNumber(number[1], Exact(from, v))
        /\ from.id \in Decimals /\ from.scale > 0 => number[1][2] = 10^from.scale
        /\ text[1] # "."

TypeOK ==
    /\ stage \in {"parsed", "resolved", "bound", "done"}
    /\ call.fn \in Calls \cup {"cast"}
    /\ Len(call.args) = Len(call.row) /\ Len(inputs) = Len(call.args)
    /\ stage = "done" <=> out # <<>>
    /\ out # <<>> => out[1] \in {"row", "error", "bind error", "panic", "not finite"}
    /\ \A t \in ToSet(type) \cup {TypeOf(inputs[i]) : i \in 1..Len(inputs)} :
          t.id \in Decimals => t.precision \in 1..MaxPrecision[t.id] /\ t.scale <= t.precision

\* A cast of a column, or of a cast of it, gives what the casts give one
\* after the other, each on its own: integers exactly or an error, floats the
\* nearest one, decimals rounded half away from zero and an error if there are
\* too many digits or no room for the rounding, texts the number that they stand
\* for.  Nothing is said of a scale whose power of ten does not fit an i32: the
\* casts to it multiply by what is left of it
\* (cast_expr.rs new_using_default_casts, to_decimal.rs, to_primitive.rs).
CastsAsMeant ==
    stage = "done" /\ call.fn = "cast" /\ out[1] \in {"row", "error"} /\ PowersFit(call.asked) =>
        LET from == call.args[1].type
            v == call.row[1]
        IN  CASE v = <<>> -> out = NullRow
              [] Last(call.asked).id = "Utf8" ->
                    out[1] = "row" /\ TextReads(from, v[1], out[2][1])
              [] OTHER ->
                    LET means == ChainMeans(from, call.asked, {v})
                    IN  IF out[1] = "error" THEN <<>> \in means ELSE out[2] \in means \ {<<>>}

\* The value each argument has once its casts are evaluated.
ArgValues == [i \in 1..Len(inputs) |-> EvalCasts(inputs[i], call.row[i])]

\* Every argument is a number, and the casts put in do not change it.
NumbersKept ==
    \A i \in 1..Len(inputs) :
        /\ call.row[i] # <<>>
        /\ call.args[i].type.id \in Numbers \cup Decimals
        /\ TypeOf(inputs[i]).id \in Numbers \cup Decimals
        /\ ArgValues[i][1] = "value"
        /\ SameNumber(Exact(TypeOf(inputs[i]), ArgValues[i][2][1]),
                      Exact(call.args[i].type, call.row[i][1]))

\* Whether v of type t is the number n/d, the nearest to it if t is a float,
\* or what is left of it if t is too narrow.
Stands(t, v, n, d) ==
    CASE t.id \in Floats -> v \in FloatsAt(t.id, n, d)
      [] t.id \in Decimals ->
            LET ten == 10^t.scale
            IN  IF d > ten THEN n % (d \div ten) = 0 /\ v = Wrap(t.id, n \div (d \div ten))
                ELSE v = Wrap(t.id, n * (ten \div d))
      [] OTHER -> n % d = 0 /\ v = Wrap(t.id, n \div d)

BitSet(v, w) == {i \in 0..(w - 1) : BitAt(v, i) = 1}

\* What a function of numbers is meant to give.
AsMeant(fn, t, v, x, y) ==
    LET w == Bits[Storage(t.id)]
    IN  CASE fn = "+" -> Stands(t, v, x[1] * y[2] + y[1] * x[2], x[2] * y[2])
          [] fn = "-" -> Stands(t, v, x[1] * y[2] - y[1] * x[2], x[2] * y[2])
          [] fn = "*" -> Stands(t, v, x[1] * y[1], x[2] * y[2])
          [] fn = "/" -> LET n == IF y[1] < 0 THEN -(x[1] * y[2]) ELSE x[1] * y[2]
                             d == Abs(y[1]) * x[2]
                         IN  IF t.id \in Floats THEN v \in FloatsAt(t.id, n, d) ELSE v = Whole(n, d)
          [] fn = "%" -> LET n == IF y[1] < 0 THEN -(x[1] * y[2]) ELSE x[1] * y[2]
                             q == Whole(n, Abs(y[1]) * x[2])
                         IN  Stands(t, v, x[1] * y[2] - q * y[1] * x[2], x[2] * y[2])
          [] fn \in {"=", "not distinct"} -> v = 1 <=> SameNumber(x, y)
          [] fn \in {"<>", "distinct"} -> v = 1 <=> ~SameNumber(x, y)
          [] fn = "<" -> v = 1 <=> Less(x, y)
          [] fn = ">" -> v = 1 <=> Less(y, x)
          [] fn = "<=" -> v = 1 <=> ~Less(y, x)
          [] fn = ">=" -> v = 1 <=> ~Less(x, y)
          [] fn = "gcd" -> /\ v # 0 => x[1] % Abs(v) = 0 /\ y[1] % Abs(v) = 0
                           /\ \A k \in 1..Max({Abs(x[1]), Abs(y[1])}) :
                                x[1] % k = 0 /\ y[1] % k = 0 /\ <<x[1], y[1]>> # <<0, 0>> => k <= Abs(v)
          [] fn = "lcm" -> LET both == {k \in 1..Abs(x[1] * y[1]) : k % Abs(x[1]) = 0 /\ k % Abs(y[1]) = 0}
                           IN  IF x[1] = 0 \/ y[1] = 0 THEN v = 0 ELSE v = Wrap(t.id, Min(both))
          [] fn = "bit_and" -> BitSet(v, w) = BitSet(x[1], w) \cap BitSet(y[1], w)
          [] fn = "bit_or" -> BitSet(v, w) = BitSet(x[1], w) \cup BitSet(y[1], w)
          [] fn = "xor" -> BitSet(v, w) = SymDiff(BitSet(x[1], w), BitSet(y[1], w))
          [] fn = "shl" -> BitSet(v, w) = {i \in 0..(w - 1) : y[1] >= 0 /\ i - y[1] \in BitSet(x[1], w)}
          [] OTHER -> TRUE

\* What a function of one number is meant to give.
OneAsMeant(fn, t, v, x) ==
    CASE fn = "negate" -> Stands(t, v, -x[1], x[2])
      [] fn = "bit_not" -> BitSet(v, Bits[t.id]) = (0..(Bits[t.id] - 1)) \ BitSet(x[1], Bits[t.id])
      [] fn = "factorial" -> \A k \in 1..x[1] : v % k = 0
      [] fn \in {"ceil", "floor", "trunc", "round"} ->
            LET r == Exact(t, v)
                off == IF Less(r, x) THEN <<x[1] * r[2] - r[1] * x[2], x[2] * r[2]>>
                       ELSE <<r[1] * x[2] - x[1] * r[2], x[2] * r[2]>>
            IN  /\ v % FloatUnit = 0 \/ t.id \in Decimals
                /\ Less(off, <<1, 1>>)
                /\ fn = "round" => ~Less(<<1, 2>>, off)
                /\ fn = "ceil" \/ (fn = "trunc" /\ x[1] < 0) => ~Less(r, x)
                /\ fn = "floor" \/ (fn = "trunc" /\ x[1] > 0) => ~Less(x, r)
      [] OTHER -> TRUE

\* A function of numbers answers what it means exactly, whatever types its
\* arguments come in, provided that the casts put in for its signature keep
\* the numbers: integers wrap at their width, floats are the nearest ones,
\* decimals come out in the scale of the result type, comparisons order the
\* numbers themselves.  Only a division by zero or of the lowest integer stops
\* it (expr/mod.rs bind_function_signature_from_expressions, arith, comparison.rs).
NumbersAsMeant ==
    stage = "done" /\ call.fn # "cast" /\ type # <<>> /\ NumbersKept =>
        LET X(i) == Exact(call.args[i].type, call.row[i][1])
        IN  CASE out[1] = "row" /\ out[2] # <<>> /\ Len(inputs) = 1 ->
                    OneAsMeant(call.fn, type[1], out[2][1], X(1))
              [] out[1] = "row" /\ out[2] # <<>> ->
                    AsMeant(call.fn, type[1], out[2][1], X(1), X(2))
              [] out[1] = "row" -> call.fn = "factorial"
              [] OTHER -> call.fn \in {"/", "%"}

\* Integers that are put into a wider type to suit a signature are never
\* lost: an integer or a decimal that is cast implicitly keeps its value unless
\* the signature is one of floats, and the cast fails only if the common type
\* was cut to the longest decimal there is (comparison.rs decimal_bind "Casting
\* may fail at runtime").
ImplicitCastsKeep ==
    stage = "bound" /\ call.fn # "cast" =>
        \A i \in 1..Len(inputs) :
            call.row[i] # <<>> /\ call.args[i].type.id \in Ints \cup Decimals
                /\ TypeOf(inputs[i]).id \notin Floats \cup {"Utf8"} =>
                \/ /\ ArgValues[i][1] = "value"
                   /\ SameNumber(Exact(TypeOf(inputs[i]), ArgValues[i][2][1]),
                                 Exact(call.args[i].type, call.row[i][1]))
                \/ /\ ArgValues[i][1] # "value"
                   /\ TypeOf(inputs[i]).id \in Decimals
                   /\ TypeOf(inputs[i]).precision = MaxPrecision[TypeOf(inputs[i]).id]

\* Which argument comes first does not matter to a sum, a product or a test
\* for equality, nor does the unstable sort of the candidates: every best
\* signature, for both orders, gives the same type (candidate.rs find_candidates).
ResolutionFixed ==
    stage = "resolved" /\ call.fn \in {"+", "*", "="} =>
        LET swapped == find_exact(call.fn, Reverse(call.args))
            best == IF swapped # {} THEN swapped
                    ELSE find_candidates(call.fn, Reverse(call.args), Reverse(call.row))
        IN  Len(call.args) = 2 => \A sig \in best : sig.ret = chosen[1].ret /\ sig.args = Reverse(chosen[1].args)

\* NULL in, NULL out, except for the functions that ask for it, which never
\* answer NULL (is.rs, comparison.rs, binary.rs).
NullsAsMeant ==
    stage = "done" /\ call.fn # "cast" /\ out[1] = "row" =>
        IF call.fn \in {"is null", "is not null", "is true", "is not true", "is false",
                        "is not false", "distinct", "not distinct"}
        THEN /\ out[2] # <<>>
             /\ call.row[1] = <<>> => (out[2] = <<1>> <=>
                    \/ call.fn \in {"is null", "is not true", "is not false"}
                    \/ call.fn = "distinct" /\ call.row[2] # <<>>
                    \/ call.fn = "not distinct" /\ call.row[2] = <<>>)
        ELSE (\E i \in 1..Len(call.row) : call.row[i] = <<>>) => out[2] = <<>>
=============================================================================
