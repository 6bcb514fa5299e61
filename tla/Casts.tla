------------------------------- MODULE Casts -------------------------------
(***************************************************************************)
(* The types of values and the casts between them: what a cast does to one *)
(* value, which casts there are, which of them may be put in implicitly    *)
(* and which of them replace a cast of a cast.                             *)
(*                                                                         *)
(* A value is an integer of the width of its type, a float a number of     *)
(* units of 1/4 with as many significant bits as its type has, a decimal   *)
(* its unscaled integer, a text the sequence of its characters and a       *)
(* boolean 0 or 1.  A cast gives <<v>>, or <<>> when it fails.             *)
(***************************************************************************)
EXTENDS Integers, Sequences, FiniteSets, SequencesExt, FiniteSetsExt

CONSTANTS Bits,         \* the width of each integer type
          Mantissa,     \* the significant bits of each float type
          MaxPrecision  \* the digits of the longest decimal of each type

-----------------------------------------------------------------------------
(* Types *)

SignedInts == {"Int8", "Int16", "Int32", "Int64", "Int128"}
UnsignedInts == {"UInt8", "UInt16", "UInt32", "UInt64", "UInt128"}
Ints == SignedInts \cup UnsignedInts
Floats == {"Float16", "Float32", "Float64"}
Decimals == {"Decimal64", "Decimal128"}

DataType(id) == [id |-> id, precision |-> 0, scale |-> 0]
DecimalType(id, p, s) == [id |-> id, precision |-> p, scale |-> s]

\* The integers that hold the values of a type.
Storage(id) ==
    CASE id = "Decimal64" -> "Int64" [] id = "Decimal128" -> "Int128"
      [] id = "Date32" -> "Int32" [] OTHER -> id

Lowest(id) == IF Storage(id) \in SignedInts THEN -(2^(Bits[Storage(id)] - 1)) ELSE 0
Highest(id) == Lowest(id) + 2^Bits[Storage(id)] - 1
InRange(id, v) == v >= Lowest(id) /\ v <= Highest(id)
Wrap(id, v) == Lowest(id) + ((v - Lowest(id)) % 2^Bits[Storage(id)])

Abs(v) == IF v < 0 THEN -v ELSE v
Digits(v) == Min({n \in 0..9 : Abs(v) < 10^n})

\* The decimal that is meant to hold every value of an integer type.
new_for_datatype_id(id) ==
    [precision |-> IF id = "Boolean" THEN 1
                   ELSE Min({Digits(2^(Bits[id] - 1) - 1), MaxPrecision["Decimal128"]}),
     scale |-> 0]

\* Whether v, of the decimal type, has no more digits than the precision.
validate_precision(id, v, precision) ==
    precision <= MaxPrecision[id] /\ (v = 0 \/ Digits(v) <= precision)

-----------------------------------------------------------------------------
(* Rounding n/d, d > 0 *)

Truncated(n, d) == IF n < 0 THEN -((-n) \div d) ELSE n \div d
HalfAway(n, d) == IF n < 0 THEN -((d - 2 * n) \div (2 * d)) ELSE (d + 2 * n) \div (2 * d)
HalfEven(n, d) ==
    LET q == n \div d
        r == 2 * (n % d)
    IN  IF r < d \/ (r = d /\ q % 2 = 0) THEN q ELSE q + 1

FloatUnit == 4

\* The float nearest to n/d.
NearestFloat(id, n, d) ==
    LET e == Min({k \in 0..14 : (FloatUnit * Abs(n)) \div d < 2^(Mantissa[id] + k)})
    IN  HalfEven(FloatUnit * n, d * 2^e) * 2^e

NumCast(from, to, v) ==
    CASE from \in Floats /\ to \in Floats -> <<NearestFloat(to, v, FloatUnit)>>
      [] from \in Floats ->
            LET w == Truncated(v, FloatUnit) IN IF InRange(to, w) THEN <<w>> ELSE <<>>
      [] to \in Floats -> <<NearestFloat(to, v, 1)>>
      [] OTHER -> IF InRange(to, v) THEN <<v>> ELSE <<>>

-----------------------------------------------------------------------------
(* To and from decimals *)

\* v if it fits into the decimal's storage.
Checked(id, v) == IF InRange(id, v) THEN <<v>> ELSE <<>>

Validated(to, v) == IF validate_precision(to.id, v, to.precision) THEN <<v>> ELSE <<>>

\* The power of ten is computed as a 32 bit integer.
ScaleAmount(scale) == Wrap("Int32", 10^scale)

IntToDecimal(to, v) ==
    LET scaled == IF to.scale > 0 THEN Checked(to.id, v * ScaleAmount(to.scale))
                  ELSE <<Truncated(v, ScaleAmount(to.scale))>>
    IN  IF Checked(to.id, v) = <<>> \/ scaled = <<>> THEN <<>> ELSE Validated(to, scaled[1])

FloatToDecimal(from, to, v) ==
    LET amount == NearestFloat(from.id, ScaleAmount(to.scale), 1)
        scaled == NearestFloat(from.id, v * amount, FloatUnit * FloatUnit)
        number == Checked(to.id, HalfAway(scaled, FloatUnit))
    IN  IF number = <<>> THEN <<>> ELSE Validated(to, number[1])

MutTruncating(from, to, v) ==
    LET diff == from.scale - to.scale
    IN  IF diff < 0 THEN Checked(to.id, v * 10^(-diff))
        ELSE IF Checked(to.id, v) = <<>> THEN <<>> ELSE <<Truncated(v, 10^diff)>>

\* The precision of the target is not looked at.
DecimalToDecimal(from, to, v) ==
    LET diff == from.scale - to.scale
        amount == Wrap(to.id, 10^Abs(diff))
        half == IF v >= 0 THEN amount \div 2 ELSE -(amount \div 2)
    IN  CASE Checked(to.id, v) = <<>> -> <<>>
          [] diff = 0 -> <<v>>
          [] diff < 0 -> Checked(to.id, v * amount)
          [] OTHER -> IF Checked(to.id, v + half) = <<>> THEN <<>>
                      ELSE <<Truncated(v + half, amount)>>

DecimalToFloat(from, to, v) ==
    <<NearestFloat(to.id, NumCast(from.id, to.id, v)[1], FloatUnit * 10^from.scale)>>

-----------------------------------------------------------------------------
(* Text *)

DigitNames == <<"0", "1", "2", "3", "4", "5", "6", "7", "8", "9">>
IsDigit(c) == \E i \in 1..10 : DigitNames[i] = c
DigitOf(c) == CHOOSE i \in 0..9 : DigitNames[i + 1] = c

\* The n lowest digits of v.
LowDigits(v, n) == [i \in 1..n |-> DigitNames[((v \div 10^(n - i)) % 10) + 1]]
Natural(v) == LowDigits(v, IF v = 0 THEN 1 ELSE Digits(v))
Sign(v) == IF v < 0 THEN <<"-">> ELSE <<>>

PrimToString(v) == Sign(v) \o Natural(Abs(v))

DecimalFormatter(from, v) ==
    Sign(v) \o Natural(Abs(v) \div 10^from.scale)
        \o IF from.scale <= 0 THEN <<>> ELSE <<".">> \o LowDigits(Abs(v) % 10^from.scale, from.scale)

\* The text without its sign.
Unsigned(text) == IF text # <<>> /\ Head(text) \in {"-", "+"} THEN Tail(text) ELSE text
IsNegative(text) == text # <<>> /\ Head(text) = "-"

ValueOf(digits) == FoldLeft(LAMBDA acc, c : 10 * acc + DigitOf(c), 0, digits)

\* str::parse of an integer.
Utf8ToPrim(id, text) ==
    LET digits == Unsigned(text)
        v == IF IsNegative(text) THEN -ValueOf(digits) ELSE ValueOf(digits)
    IN  IF digits = <<>> \/ (\E i \in 1..Len(digits) : ~IsDigit(digits[i]))
           \/ (IsNegative(text) /\ id \in UnsignedInts) THEN <<>>
        ELSE Checked(id, v)

\* str::parse of a float, without exponents, infinities and NaN.
Utf8ToFloat(id, text) ==
    LET body == Unsigned(text)
        digits == SelectSeq(body, IsDigit)
        point == SelectInSeq(body, LAMBDA c : c = ".")
        decimals == IF point = 0 THEN 0 ELSE Len(body) - point
        v == IF IsNegative(text) THEN -ValueOf(digits) ELSE ValueOf(digits)
    IN  IF digits = <<>> \/ Len(body) # Len(digits) + (IF point = 0 THEN 0 ELSE 1) THEN <<>>
        ELSE <<NearestFloat(id, v, 10^decimals)>>

\* One more character of a decimal; "point" is whether there was a point.
Put(id, st, c) ==
    [st EXCEPT !.value = Wrap(id, 10 * st.value + DigitOf(c)), !.digits = st.digits + 1,
               !.decimals = st.decimals + IF st.point THEN 1 ELSE 0]

ParseChar(to, st, c) ==
    CASE ~st.ok -> st
      [] IsDigit(c) ->
            IF ~st.point /\ st.digits = 0 /\ c = "0" THEN st
            ELSE IF st.point /\ st.decimals = to.scale THEN st ELSE Put(to.id, st, c)
      [] c = "." /\ ~st.point -> [st EXCEPT !.point = TRUE]
      [] OTHER -> [st EXCEPT !.ok = FALSE]

MutLateScale(to, text) ==
    LET st == FoldLeft(LAMBDA acc, c : ParseChar(to, acc, c),
                       [value |-> 0, digits |-> 0, decimals |-> 0, point |-> FALSE, ok |-> TRUE],
                       Unsigned(text))
    IN  IF ~st.ok \/ st.digits > to.precision THEN <<>>
        ELSE <<IF IsNegative(text) THEN -st.value ELSE st.value>>

DecimalParser(to, text) ==
    LET st == FoldLeft(LAMBDA acc, c : ParseChar(to, acc, c),
                       [value |-> 0, digits |-> 0, decimals |-> 0, point |-> FALSE, ok |-> TRUE],
                       Unsigned(text))
        value == Wrap(to.id, st.value * 10^(to.scale - st.decimals))
    IN  IF ~st.ok \/ st.digits > to.precision THEN <<>>
        ELSE <<IF IsNegative(text) THEN -value ELSE value>>

BoolParser(text) ==
    CASE text \in {<<"t">>, <<"t", "r", "u", "e">>, <<"T">>, <<"T", "R", "U", "E">>} -> <<1>>
      [] text \in {<<"f">>, <<"f", "a", "l", "s", "e">>, <<"F">>, <<"F", "A", "L", "S", "E">>} -> <<0>>
      [] OTHER -> <<>>

-----------------------------------------------------------------------------
(* One value through one cast; the text of dates and intervals, and that   *)
(* made of floats, is left out.                                            *)

CastValue(from, to, v) ==
    CASE to.id = "Boolean" -> BoolParser(v)
      [] to.id \in Decimals /\ from.id \in Ints -> IntToDecimal(to, v)
      [] to.id \in Decimals /\ from.id \in Floats -> FloatToDecimal(from, to, v)
      [] to.id \in Decimals /\ from.id \in Decimals -> DecimalToDecimal(from, to, v)
      [] to.id \in Decimals -> DecimalParser(to, v)
      [] to.id \in Floats /\ from.id \in Decimals -> DecimalToFloat(from, to, v)
      [] to.id = "Utf8" /\ from.id \in Decimals -> <<DecimalFormatter(from, v)>>
      [] to.id = "Utf8" -> <<PrimToString(v)>>
      [] from.id = "Utf8" /\ to.id \in Floats -> Utf8ToFloat(to.id, v)
      [] from.id = "Utf8" -> Utf8ToPrim(to.id, v)
      [] OTHER -> NumCast(from.id, to.id, v)

-----------------------------------------------------------------------------
(* The casts there are *)

\* Safe and implicit casts between primitive types.
SafeSources(to) ==
    CASE to = "Int8" -> {"Int8"}
      [] to = "Int16" -> {"Int8", "Int16", "UInt8"}
      [] to = "Int32" -> {"Int8", "Int16", "Int32", "UInt8", "UInt16"}
      [] to = "Int64" -> {"Int8", "Int16", "Int32", "Int64", "UInt8", "UInt16", "UInt32"}
      [] to = "UInt16" -> {"UInt8", "UInt16"}
      [] to = "UInt32" -> {"UInt8", "UInt16"}
      [] to = "UInt64" -> {"UInt8", "UInt16", "UInt32", "UInt64"}
      [] to = "Float16" -> {"Float16"}
      [] to = "Float32" -> {"Float16", "Float32"}
      [] to = "Float64" -> Floats
      [] OTHER -> {}

\* Implicit casts that must not replace another cast.
UnsafeSources(to) ==
    CASE to \in {"Int8", "Int16", "Int32", "Int64", "Boolean", "Date32"} -> {"Utf8"}
      [] to = "Float16" -> {"Int8", "Int16", "Int32", "UInt8", "UInt16", "Float32", "Float64"}
      [] to = "Float32" -> Ints \cup Decimals \cup {"Utf8", "Float64"}
      [] to = "Float64" -> Ints \cup Decimals \cup {"Utf8"}
      [] to = "Decimal64" -> {"Int8", "Int16", "Int32", "UInt8", "UInt16", "UInt32", "UInt64",
                              "Utf8", "Decimal64"} \cup Floats
      [] to = "Decimal128" -> (Ints \ {"Int128", "UInt128"}) \cup Floats \cup Decimals \cup {"Utf8"}
      [] to = "Utf8" -> Ints \cup Floats \cup Decimals
      [] OTHER -> {}

\* Casts that a query has to ask for.
ExplicitSources(to) ==
    CASE to \in Ints -> (Ints \cup Floats \cup {"Utf8"}) \ (SafeSources(to) \cup UnsafeSources(to))
      [] to = "Float16" -> {"Int64", "Int128", "UInt32", "UInt64", "UInt128", "Utf8"} \cup Decimals
      [] to = "Decimal64" -> {"Int64", "Int128", "UInt128", "Decimal128"}
      [] to = "Decimal128" -> {"Int128", "UInt128"}
      [] to = "Date32" -> Ints
      [] OTHER -> {}

\* Types that nothing is cast to implicitly, not even NULL.
NoImplicit == {"Int128", "UInt128"}

find_cast_function(from, to) ==
    from = "Null" \/ from \in SafeSources(to) \cup UnsafeSources(to) \cup ExplicitSources(to)

IsSafe(from, to) == from = "Null" \/ from \in SafeSources(to)

CastScore ==
    [Int32 |-> 191, Int64 |-> 190, Float64 |-> 181, Float32 |-> 180, Float16 |-> 179,
     Boolean |-> 162, Int16 |-> 161, Int8 |-> 160, UInt32 |-> 154, UInt64 |-> 153,
     UInt16 |-> 152, UInt8 |-> 151, Decimal64 |-> 141, Decimal128 |-> 140, Date32 |-> 131,
     Utf8 |-> 80]

\* The score of an implicit cast, <<>> if there is none.
implicit_cast_score(have, want) ==
    CASE want = "Any" -> <<10>>
      [] have = "Null" -> IF want \in NoImplicit THEN <<>>
                          ELSE <<CastScore[IF want = "UInt8" THEN "UInt16" ELSE want]>>
      [] have \in SafeSources(want) \cup UnsafeSources(want) -> <<CastScore[want]>>
      [] OTHER -> <<>>

-----------------------------------------------------------------------------
(* An expression is a column or a literal and the casts on it, innermost   *)
(* first.                                                                  *)

Column(type) == [type |-> type, casts |-> <<>>, literal |-> FALSE]
Literal(type) == [type |-> type, casts |-> <<>>, literal |-> TRUE]
TypeOf(e) == IF e.casts = <<>> THEN e.type ELSE Last(e.casts)
Inner(e) == [e EXCEPT !.casts = Front(e.casts)]

MutKeepInner(e, to) ==
    IF e.casts # <<>> /\ find_cast_function(TypeOf(Inner(e)).id, to.id)
    THEN <<[Inner(e) EXCEPT !.casts = Append(@, to)]>>
    ELSE <<[e EXCEPT !.casts = Append(@, to)]>>

\* The last cast is dropped if its operand can be cast to the target safely.
new_using_default_casts(e, to) ==
    IF e.casts # <<>> /\ find_cast_function(TypeOf(Inner(e)).id, to.id)
                      /\ IsSafe(TypeOf(Inner(e)).id, to.id)
    THEN <<[Inner(e) EXCEPT !.casts = Append(@, to)]>>
    ELSE IF find_cast_function(TypeOf(e).id, to.id) THEN <<[e EXCEPT !.casts = Append(@, to)]>>
    ELSE <<>>

\* A datatype for an implicit cast, <<>> if there is none.
try_generate_cast_datatype(from, to) ==
    CASE to \in Decimals /\ from.id \in {to, "Decimal64"} ->
            <<DecimalType(to, from.precision, from.scale)>>
      [] to \in Decimals ->
            IF from.id \notin Ints \cup {"Boolean"} THEN <<>>
            ELSE LET meta == new_for_datatype_id(from.id)
                 IN  IF validate_precision(to, 0, meta.precision)
                     THEN <<DecimalType(to, meta.precision, meta.scale)>> ELSE <<>>
      [] OTHER -> <<DataType(to)>>
=============================================================================
