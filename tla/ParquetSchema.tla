--------------------------- MODULE ParquetSchema ---------------------------
(***************************************************************************)
(* The schema of a Parquet file: the checks of its builders, its list of   *)
(* SchemaElements in the footer, its columns with their levels, its text   *)
(* form, and the engine's types its columns get.                           *)
(*                                                                         *)
(* A schema node is a record; a primitive has no fields, a group no        *)
(* physical type.  An absent option is <<>>, or "" for a name, and -1 for  *)
(* the lengths, as in the builders.  A logical type is a tuple: its name   *)
(* and its parameters.  Text is its tokens, after Tokenizer has split it.  *)
(***************************************************************************)
EXTENDS Integers, Sequences, FiniteSets, SequencesExt, TLC

CONSTANTS
  Repetitions,   \* the repetitions of nested samples, a subset of Repetition
  Nested         \* the primitives of nested samples, as <<physical, converted>>

VARIABLES
  schema,     \* the schema that is written
  elements,   \* its SchemaElements in the footer
  text,       \* its tokens, printed
  outcome     \* what the reader made of the footer or of the text

vars == <<schema, elements, text, outcome>>

(***************************************************************************)
(* basic.rs: the enumerations.                                             *)
(***************************************************************************)
Type == {"BOOLEAN", "INT32", "INT64", "INT96", "FLOAT", "DOUBLE", "BYTE_ARRAY",
         "FIXED_LEN_BYTE_ARRAY"}

ConvertedType ==
  {"NONE", "UTF8", "MAP", "MAP_KEY_VALUE", "LIST", "ENUM", "DECIMAL", "DATE", "TIME_MILLIS",
   "TIME_MICROS", "TIMESTAMP_MILLIS", "TIMESTAMP_MICROS", "UINT_8", "UINT_16", "UINT_32",
   "UINT_64", "INT_8", "INT_16", "INT_32", "INT_64", "JSON", "BSON", "INTERVAL"}

Repetition == {"REQUIRED", "OPTIONAL", "REPEATED"}

TimeUnit == {"MILLIS", "MICROS", "NANOS"}

LogicalType ==
  {<<n>> : n \in {"String", "Map", "List", "Enum", "Date", "Unknown", "Json", "Bson", "Uuid",
                  "Float16", "Variant", "Geometry", "Geography"}}
  \cup {<<"Decimal", sp[1], sp[2]>> : sp \in {<<2, 9>>, <<0, 9>>, <<0, 19>>, <<3, 2>>}}
  \cup {<<n, utc, unit>> : n \in {"Time", "Timestamp"}, utc \in BOOLEAN, unit \in TimeUnit}
  \cup {<<"Integer", width, signed>> : width \in {8, 16, 24, 32, 64}, signed \in BOOLEAN}

Is(logical, name) == logical # <<>> /\ logical[1] = name

\* A code of a newer writer: every enumeration refuses it.
Newer == "NEWER"

Known(code, names) == code \in names

IntName(width, signed) ==
  (IF signed THEN "INT_" ELSE "UINT_") \o ToString(width)

(***************************************************************************)
(* impl From<Option<LogicalType>> for ConvertedType; "panic" for a width   *)
(* that has no converted type.                                             *)
(***************************************************************************)
ConvertedOf(logical) ==
  CASE logical = <<>> -> "NONE"
    [] Is(logical, "String") -> "UTF8"
    [] Is(logical, "Map") -> "MAP"
    [] Is(logical, "List") -> "LIST"
    [] Is(logical, "Enum") -> "ENUM"
    [] Is(logical, "Decimal") -> "DECIMAL"
    [] Is(logical, "Date") -> "DATE"
    [] Is(logical, "Json") -> "JSON"
    [] Is(logical, "Bson") -> "BSON"
    [] Is(logical, "Time") -> IF logical[3] = "NANOS" THEN "NONE" ELSE "TIME_" \o logical[3]
    [] Is(logical, "Timestamp") ->
         IF logical[3] = "NANOS" THEN "NONE" ELSE "TIMESTAMP_" \o logical[3]
    [] Is(logical, "Integer") ->
         IF logical[2] \in {8, 16, 32, 64} THEN IntName(logical[2], logical[3]) ELSE "panic"
    [] OTHER -> "NONE"

(***************************************************************************)
(* ColumnOrder::get_sort_order and what it falls back to.                  *)
(***************************************************************************)
get_default_sort_order(physical) ==
  CASE physical \in {"BOOLEAN", "BYTE_ARRAY", "FIXED_LEN_BYTE_ARRAY"} -> "UNSIGNED"
    [] physical = "INT96" -> "UNDEFINED"
    [] OTHER -> "SIGNED"

MutUnsignedSigned(converted, physical) ==
  CASE converted \in {"UTF8", "JSON", "BSON", "ENUM"} -> "UNSIGNED"
    [] converted \in {"INTERVAL", "LIST", "MAP", "MAP_KEY_VALUE"} -> "UNDEFINED"
    [] converted = "NONE" -> get_default_sort_order(physical)
    [] OTHER -> "SIGNED"

get_converted_sort_order(converted, physical) ==
  CASE converted \in {"UTF8", "JSON", "BSON", "ENUM", "UINT_8", "UINT_16", "UINT_32",
                      "UINT_64"} -> "UNSIGNED"
    [] converted \in {"INTERVAL", "LIST", "MAP", "MAP_KEY_VALUE"} -> "UNDEFINED"
    [] converted = "NONE" -> get_default_sort_order(physical)
    [] OTHER -> "SIGNED"

get_sort_order(logical, converted, physical) ==
  CASE logical = <<>> -> get_converted_sort_order(converted, physical)
    [] logical[1] \in {"String", "Enum", "Json", "Bson", "Uuid"} -> "UNSIGNED"
    [] logical[1] = "Integer" -> IF logical[3] THEN "SIGNED" ELSE "UNSIGNED"
    [] logical[1] \in {"Map", "List", "Unknown", "Variant", "Geometry", "Geography"} ->
         "UNDEFINED"
    [] OTHER -> "SIGNED"

(***************************************************************************)
(* The nodes, and results.                                                 *)
(***************************************************************************)
Ok(v) == [tag |-> "ok", val |-> v]
Err == [tag |-> "error", val |-> <<>>]
Panic == [tag |-> "panic", val |-> <<>>]

PrimitiveType(name, rep, physical, converted, logical, length, precision, scale, id) ==
  [kind |-> "primitive", name |-> name, repetition |-> rep, physical |-> physical,
   converted |-> converted, logical |-> logical, length |-> length,
   precision |-> precision, scale |-> scale, id |-> id, fields |-> <<>>]

GroupType(name, rep, converted, logical, id, fields) ==
  [kind |-> "group", name |-> name, repetition |-> rep, physical |-> "",
   converted |-> converted, logical |-> logical, length |-> -1,
   precision |-> -1, scale |-> -1, id |-> id, fields |-> fields]

\* floor(log10(2^(8 * length - 1) - 1))
MaxPrecision(length) ==
  IF length = 0 THEN 0
  ELSE <<2, 4, 6, 9, 11, 14, 16, 18, 21, 23, 26, 28, 31, 33, 35, 38>>[length]

check_decimal_precision_scale(p) ==
  /\ p.physical \in {"INT32", "INT64", "BYTE_ARRAY", "FIXED_LEN_BYTE_ARRAY"}
  /\ p.precision >= 1 /\ p.scale >= 0 /\ p.scale <= p.precision
  /\ p.physical = "INT32" => p.precision <= 9
  /\ p.physical = "INT64" => p.precision <= 18
  /\ p.physical = "FIXED_LEN_BYTE_ARRAY" => p.precision <= MaxPrecision(p.length)

LogicalFits(p) ==
  LET l == p.logical
      physical == p.physical
  IN  CASE l[1] \in {"Enum", "String", "Json", "Bson"} -> physical = "BYTE_ARRAY"
        [] l[1] = "Decimal" ->
             l[2] = p.scale /\ l[3] = p.precision /\ check_decimal_precision_scale(p)
        [] l[1] \in {"Date", "Unknown"} -> physical = "INT32"
        [] l[1] = "Time" ->
             IF l[3] = "MILLIS" THEN physical = "INT32" ELSE physical = "INT64"
        [] l[1] = "Timestamp" -> physical = "INT64"
        [] l[1] = "Integer" ->
             (physical = "INT32" /\ l[2] <= 32) \/ (physical = "INT64" /\ l[2] = 64)
        [] l[1] = "Uuid" -> physical = "FIXED_LEN_BYTE_ARRAY" /\ p.length = 16
        [] l[1] = "Float16" -> physical = "FIXED_LEN_BYTE_ARRAY" /\ p.length = 2
        [] OTHER -> FALSE

ConvertedFits(p) ==
  CASE p.converted = "NONE" -> TRUE
    [] p.converted \in {"UTF8", "BSON", "JSON", "ENUM"} -> p.physical = "BYTE_ARRAY"
    [] p.converted = "DECIMAL" -> check_decimal_precision_scale(p)
    [] p.converted \in {"DATE", "TIME_MILLIS", "UINT_8", "UINT_16", "UINT_32", "INT_8",
                        "INT_16", "INT_32"} -> p.physical = "INT32"
    [] p.converted \in {"TIME_MICROS", "TIMESTAMP_MILLIS", "TIMESTAMP_MICROS", "UINT_64",
                        "INT_64"} -> p.physical = "INT64"
    [] p.converted = "INTERVAL" -> p.physical = "FIXED_LEN_BYTE_ARRAY" /\ p.length = 12
    [] OTHER -> FALSE

(***************************************************************************)
(* PrimitiveTypeBuilder::build and GroupTypeBuilder::build: the checks,    *)
(* then the converted type an annotation of version 2 stands for.          *)
(***************************************************************************)
Populated(n) ==
  IF n.logical # <<>> /\ n.converted = "NONE"
  THEN [n EXCEPT !.converted = ConvertedOf(n.logical)] ELSE n

BuildPrimitive(p) ==
  IF p.physical = "FIXED_LEN_BYTE_ARRAY" /\ p.length < 0 THEN Err
  ELSE IF p.logical # <<>> /\ ConvertedOf(p.logical) = "panic" THEN Panic
  ELSE IF \/ p.logical # <<>> /\ p.converted # "NONE" /\ ConvertedOf(p.logical) # p.converted
          \/ p.logical # <<>> /\ ~LogicalFits(p)
          \/ ~ConvertedFits(p)
  THEN Err
  ELSE Ok(Populated(p))

BuildGroup(g) ==
  IF g.logical # <<>> /\ g.converted = "NONE" /\ ConvertedOf(g.logical) = "panic" THEN Panic
  ELSE Ok(Populated(g))

(***************************************************************************)
(* SchemaDescriptor::new: the leaves, with their levels, their path and    *)
(* the top-level field they are under.                                     *)
(***************************************************************************)
MutOptionalOnly(rep, rep_level, def_level) ==
  CASE rep = "OPTIONAL" -> <<rep_level, def_level + 1>>
    [] rep = "REPEATED" -> <<rep_level + 1, def_level>>
    [] OTHER -> <<rep_level, def_level>>

Levels(rep, rep_level, def_level) ==
  CASE rep = "OPTIONAL" -> <<rep_level, def_level + 1>>
    [] rep = "REPEATED" -> <<rep_level + 1, def_level + 1>>
    [] OTHER -> <<rep_level, def_level>>

ColumnDescriptor(prim, levels, path, root_idx) ==
  [primitive |-> prim, max_rep_level |-> levels[1], max_def_level |-> levels[2],
   path |-> path, root |-> root_idx]

RECURSIVE build_tree(_, _, _, _, _)
build_tree(tp, root_idx, rep_level, def_level, path_so_far) ==
  LET path == Append(path_so_far, tp.name)
      levels == Levels(tp.repetition, rep_level, def_level)
  IN  IF tp.kind = "primitive" THEN <<ColumnDescriptor(tp, levels, path, root_idx)>>
      ELSE FlattenSeq([i \in 1..Len(tp.fields) |->
             build_tree(tp.fields[i], root_idx, levels[1], levels[2], path)])

SchemaDescriptor(tp) ==
  FlattenSeq([i \in 1..Len(tp.fields) |-> build_tree(tp.fields[i], i, 0, 0, <<>>)])

(***************************************************************************)
(* schema_to_thrift and schema_from_thrift.                                *)
(***************************************************************************)
Opt(n) == IF n >= 0 THEN <<n>> ELSE <<>>

unwrap_or(o, default) == IF o = <<>> THEN default ELSE o[1]

SchemaElement(tp, num_children) ==
  [type |-> tp.physical, type_length |-> Opt(tp.length), repetition_type |-> tp.repetition,
   name |-> tp.name, num_children |-> num_children, converted_type |-> tp.converted,
   scale |-> Opt(tp.scale), precision |-> Opt(tp.precision), field_id |-> tp.id,
   logical_type |-> tp.logical]

RECURSIVE type_to_thrift(_)
type_to_thrift(tp) ==
  IF tp.kind = "primitive" THEN <<SchemaElement(tp, <<>>)>>
  ELSE <<SchemaElement(tp, <<Len(tp.fields)>>)>>
       \o FlattenSeq([i \in 1..Len(tp.fields) |-> type_to_thrift(tp.fields[i])])

\* Primitive, or a group without fields.
LeafFromThrift(e, is_root_node) ==
  IF e.repetition_type = "" \/ ~Known(e.repetition_type, Repetition) THEN Err
  ELSE IF e.type = ""
  THEN BuildGroup(GroupType(e.name, IF is_root_node THEN "" ELSE e.repetition_type,
                            e.converted_type, e.logical_type, e.field_id, <<>>))
  ELSE IF ~Known(e.type, Type) THEN Err
  ELSE BuildPrimitive(PrimitiveType(e.name, e.repetition_type, e.type, e.converted_type,
         e.logical_type, unwrap_or(e.type_length, -1), unwrap_or(e.precision, -1),
         unwrap_or(e.scale, -1), e.field_id))

RECURSIVE from_thrift_helper(_, _), ChildrenFrom(_, _, _, _)
\* The result, and the index after the node.
from_thrift_helper(es, index) ==
  LET e == es[index]
      is_root_node == index = 1
  IN  IF index > Len(es) THEN <<Panic, index>>   \* the test is index > len, one too late
      ELSE IF ~Known(e.converted_type, ConvertedType) THEN <<Err, index>>
      ELSE IF e.num_children \in {<<>>, <<0>>}
      THEN <<LeafFromThrift(e, is_root_node), index + 1>>
      ELSE IF e.repetition_type # "" /\ ~Known(e.repetition_type, Repetition)
      THEN <<Err, index>>
      ELSE LET children == ChildrenFrom(es, index + 1, e.num_children[1], <<>>)
           IN  IF children[1].tag # "ok" THEN children
               ELSE <<BuildGroup(GroupType(e.name,
                        IF is_root_node THEN "" ELSE e.repetition_type,
                        e.converted_type, e.logical_type, e.field_id, children[1].val)),
                      children[2]>>

ChildrenFrom(es, index, n, fields) ==
  IF n = 0 THEN <<Ok(fields), index>>
  ELSE LET child == from_thrift_helper(es, index)
       IN  IF child[1].tag # "ok" THEN child
           ELSE ChildrenFrom(es, child[2], n - 1, Append(fields, child[1].val))

\* while index < elements.len(): exactly one root, and it is a group.
schema_from_thrift(es) ==
  LET root == from_thrift_helper(es, 1)
  IN  IF es = <<>> THEN Err
      ELSE IF root[1].tag # "ok" THEN root[1]
      ELSE IF root[2] <= Len(es)
      THEN LET second == from_thrift_helper(es, root[2])[1]
           IN  IF second.tag = "panic" THEN Panic ELSE Err
      ELSE IF root[1].val.kind # "group" THEN Err
      ELSE root[1]

(***************************************************************************)
(* printer.rs: the tokens of the text form.                                *)
(***************************************************************************)
BoolName(b) == IF b THEN "true" ELSE "false"

LogicalName(l) ==
  CASE l[1] = "String" -> "STRING" [] l[1] = "Map" -> "MAP" [] l[1] = "List" -> "LIST"
    [] l[1] = "Enum" -> "ENUM" [] l[1] = "Date" -> "DATE" [] l[1] = "Unknown" -> "UNKNOWN"
    [] l[1] = "Json" -> "JSON" [] l[1] = "Bson" -> "BSON" [] l[1] = "Uuid" -> "UUID"
    [] l[1] = "Float16" -> "FLOAT16" [] l[1] = "Variant" -> "VARIANT"
    [] l[1] = "Geometry" -> "GEOMETRY" [] l[1] = "Geography" -> "GEOGRAPHY"
    [] l[1] = "Decimal" -> "DECIMAL" [] l[1] = "Time" -> "TIME"
    [] l[1] = "Timestamp" -> "TIMESTAMP" [] l[1] = "Integer" -> "INTEGER"

Arguments(a, b) == <<"(", a, ",", b, ")">>

print_logical_and_converted(logical, converted, precision, scale) ==
  CASE logical # <<>> /\ logical[1] = "Integer" ->
         <<"INTEGER">> \o Arguments(ToString(logical[2]), BoolName(logical[3]))
    [] logical # <<>> /\ logical[1] = "Decimal" ->
         <<"DECIMAL">> \o Arguments(ToString(logical[3]), ToString(logical[2]))
    [] logical # <<>> /\ logical[1] \in {"Time", "Timestamp"} ->
         <<LogicalName(logical)>> \o Arguments(logical[3], BoolName(logical[2]))
    [] logical # <<>> -> <<LogicalName(logical)>>
    [] converted = "NONE" -> <<>>
    [] converted = "DECIMAL" ->
         <<"DECIMAL">> \o (IF precision > 0 /\ scale > 0
                           THEN Arguments(ToString(precision), ToString(scale))
                           ELSE IF precision > 0 /\ scale = 0
                           THEN <<"(", ToString(precision), ")">> ELSE <<>>)
    [] OTHER -> <<converted>>

Annotated(tokens) == IF tokens = <<>> THEN <<>> ELSE <<"(">> \o tokens \o <<")">>

print_primitive(p) ==
  <<p.repetition, p.physical>>
  \o (IF p.physical = "FIXED_LEN_BYTE_ARRAY" THEN <<"(", ToString(p.length), ")">> ELSE <<>>)
  \o <<p.name>>
  \o Annotated(print_logical_and_converted(p.logical, p.converted, p.precision, p.scale))
  \o <<";">>

RECURSIVE print_type(_)
print_type(tp) ==
  IF tp.kind = "primitive" THEN print_primitive(tp)
  ELSE (IF tp.repetition # ""
        THEN <<tp.repetition, "group", tp.name>>
             \o Annotated(print_logical_and_converted(tp.logical, tp.converted, 0, 0))
        ELSE <<"message", tp.name>>)
       \o <<"{">> \o FlattenSeq([i \in 1..Len(tp.fields) |-> print_type(tp.fields[i])])
       \o <<"}">>

(***************************************************************************)
(* parser.rs.  next() at the end does not move, but backtrack() does.      *)
(***************************************************************************)
Token(ts, i) == IF i <= Len(ts) THEN ts[i] ELSE ""

Backtracked(ts, i) == IF i <= Len(ts) THEN i ELSE i - 1

Numbers == 0..99
IsNumber(tok) == \E n \in Numbers : ToString(n) = tok
parse_i32(tok) == CHOOSE n \in Numbers : ToString(n) = tok

Parsed(at, v) == [tag |-> "ok", at |-> at, val |-> v]
ParseError == [tag |-> "error", at |-> 0, val |-> <<>>]

\* The ? of the source.
Then(p, Rest(_)) == IF p.tag # "ok" THEN p ELSE Rest(p)

\* impl FromStr for LogicalType: the type a bare word names.
LogicalOfWord(w) ==
  CASE w = "INTEGER" -> <<"Integer", 8, FALSE>>
    [] w = "DECIMAL" -> <<"Decimal", -1, -1>>
    [] w \in {"TIME"} -> <<"Time", FALSE, "MILLIS">>
    [] w \in {"TIMESTAMP"} -> <<"Timestamp", FALSE, "MILLIS">>
    [] w \in {"MAP", "LIST", "ENUM", "DATE", "STRING", "JSON", "BSON", "UUID", "UNKNOWN",
              "FLOAT16"} -> CHOOSE l \in {k \in LogicalType : Len(k) = 1} : LogicalName(l) = w
    [] OTHER -> <<>>

\* LogicalType first, ConvertedType when that fails.
AnnotationOf(w) ==
  IF LogicalOfWord(w) # <<>>
  THEN Parsed(0, [logical |-> LogicalOfWord(w), converted |-> ConvertedOf(LogicalOfWord(w)),
                  precision |-> -1, scale |-> -1])
  ELSE IF w \in ConvertedType
  THEN Parsed(0, [logical |-> <<>>, converted |-> w, precision |-> -1, scale |-> -1])
  ELSE ParseError

WithLogical(a, l) == [a EXCEPT !.logical = l, !.converted = ConvertedOf(l)]

MutScaleFirst(ts, i, a) ==
  IF ~IsNumber(Token(ts, i)) THEN ParseError
  ELSE LET n == parse_i32(Token(ts, i))
       IN  IF Token(ts, i + 1) = ","
           THEN Parsed(i + 4, [WithLogical(a, <<"Decimal", n, parse_i32(Token(ts, i + 2))>>)
                  EXCEPT !.precision = parse_i32(Token(ts, i + 2)), !.scale = n])
           ELSE Parsed(i + 2, [WithLogical(a, <<"Decimal", 0, n>>)
                  EXCEPT !.precision = n, !.scale = 0])

\* The arguments, from the token after "(".
DecimalArguments(ts, i, a) ==
  IF ~IsNumber(Token(ts, i)) THEN ParseError
  ELSE LET precision == parse_i32(Token(ts, i))
       IN  IF Token(ts, i + 1) # ","
           THEN Parsed(i + 2, [WithLogical(a, <<"Decimal", 0, precision>>)
                  EXCEPT !.precision = precision, !.scale = 0])
           ELSE IF ~IsNumber(Token(ts, i + 2)) \/ Token(ts, i + 3) # ")" THEN ParseError
           ELSE LET scale == parse_i32(Token(ts, i + 2))
                IN  Parsed(i + 4, [WithLogical(a, <<"Decimal", scale, precision>>)
                      EXCEPT !.precision = precision, !.scale = scale])

TimeArguments(ts, i, a) ==
  IF Token(ts, i) \notin TimeUnit THEN ParseError
  ELSE IF Token(ts, i + 1) # "," THEN Parsed(Backtracked(ts, i + 1), a)
  ELSE IF Token(ts, i + 2) \notin {"true", "false"} \/ Token(ts, i + 3) # ")"
  THEN ParseError
  ELSE Parsed(i + 4, WithLogical(a, <<a.logical[1], Token(ts, i + 2) = "true", Token(ts, i)>>))

WidthFits(width, physical) ==
  (physical = "INT32" /\ width \in {8, 16, 32}) \/ (physical = "INT64" /\ width = 64)

IntegerArguments(ts, i, a, physical) ==
  IF ~IsNumber(Token(ts, i)) \/ ~WidthFits(parse_i32(Token(ts, i)), physical) THEN ParseError
  ELSE IF Token(ts, i + 1) # "," THEN Parsed(Backtracked(ts, i + 1), a)
  ELSE IF Token(ts, i + 2) \notin {"true", "false"} \/ Token(ts, i + 3) # ")"
  THEN ParseError
  ELSE Parsed(i + 4, WithLogical(a,
         <<"Integer", parse_i32(Token(ts, i)), Token(ts, i + 2) = "true">>))

NoAnnotation == [logical |-> <<>>, converted |-> "NONE", precision |-> -1, scale |-> -1]

\* A word that may have arguments and has none has already taken the token
\* after it.
AnnotationArguments(ts, i, a, physical) ==
  LET name == a.logical[1]
  IN  IF a.logical = <<>> \/ name \notin {"Decimal", "Time", "Timestamp", "Integer"}
      THEN Parsed(i, a)
      ELSE IF Token(ts, i) # "(" THEN Parsed(i + 1, a)
      ELSE IF name = "Decimal" THEN DecimalArguments(ts, i + 1, a)
      ELSE IF name = "Integer" THEN IntegerArguments(ts, i + 1, a, physical)
      ELSE TimeArguments(ts, i + 1, a)

\* "(" word, its arguments, ")".
PrimitiveAnnotation(ts, i, physical) ==
  IF Token(ts, i) # "(" THEN Parsed(Backtracked(ts, i), NoAnnotation)
  ELSE Then(AnnotationOf(Token(ts, i + 1)), LAMBDA word :
         Then(AnnotationArguments(ts, i + 2, word.val, physical), LAMBDA a :
           IF Token(ts, a.at) # ")" THEN ParseError ELSE Parsed(a.at + 1, a.val)))

OptionalId(ts, i) ==
  IF Token(ts, i) = "="
  THEN Parsed(i + 2, IF IsNumber(Token(ts, i + 1)) THEN <<parse_i32(Token(ts, i + 1))>> ELSE <<>>)
  ELSE Parsed(Backtracked(ts, i), <<>>)

FromBuilder(built, at) ==
  IF built.tag = "ok" THEN Parsed(at, built.val) ELSE [ParseError EXCEPT !.tag = built.tag]

\* The name at i and what follows it.
PrimitiveField(ts, i, rep, physical, length) ==
  IF Token(ts, i) = "" THEN ParseError
  ELSE Then(PrimitiveAnnotation(ts, i + 1, physical), LAMBDA a :
         Then(OptionalId(ts, a.at), LAMBDA id :
           IF Token(ts, id.at) # ";" THEN ParseError
           ELSE FromBuilder(BuildPrimitive(PrimitiveType(Token(ts, i), rep, physical,
                  a.val.converted, a.val.logical, length, a.val.precision, a.val.scale,
                  id.val)), id.at + 1)))

add_primitive_type(ts, i, rep, physical) ==
  IF physical # "FIXED_LEN_BYTE_ARRAY" THEN PrimitiveField(ts, i, rep, physical, -1)
  ELSE IF Token(ts, i) # "(" \/ ~IsNumber(Token(ts, i + 1)) \/ Token(ts, i + 2) # ")"
  THEN ParseError
  ELSE PrimitiveField(ts, i + 3, rep, physical, parse_i32(Token(ts, i + 1)))

GroupAnnotation(ts, i) ==
  IF Token(ts, i) # "(" THEN Parsed(Backtracked(ts, i), NoAnnotation)
  ELSE Then(AnnotationOf(Token(ts, i + 1)), LAMBDA a :
         IF Token(ts, i + 2) # ")" THEN ParseError ELSE Parsed(i + 3, a.val))

RECURSIVE add_type(_, _), add_group_type(_, _, _), parse_child_types(_, _), FieldsFrom(_, _, _)
add_type(ts, i) ==
  IF Token(ts, i) \notin Repetition THEN ParseError
  ELSE IF Token(ts, i + 1) = "group" THEN add_group_type(ts, i + 2, Token(ts, i))
  ELSE IF Token(ts, i + 1) \notin Type THEN ParseError
  ELSE add_primitive_type(ts, i + 2, Token(ts, i), Token(ts, i + 1))

add_group_type(ts, i, rep) ==
  IF Token(ts, i) = "" THEN ParseError
  ELSE Then(GroupAnnotation(ts, i + 1), LAMBDA a :
         Then(OptionalId(ts, a.at), LAMBDA id :
           Then(parse_child_types(ts, id.at), LAMBDA children :
             FromBuilder(BuildGroup(GroupType(Token(ts, i), rep, a.val.converted,
               a.val.logical, id.val, children.val)), children.at))))

parse_child_types(ts, i) ==
  IF Token(ts, i) # "{" THEN ParseError ELSE FieldsFrom(ts, i + 1, <<>>)

\* Up to "}" or the end of the text.
FieldsFrom(ts, i, fields) ==
  IF Token(ts, i) = "}" THEN Parsed(i + 1, fields)
  ELSE IF i > Len(ts) THEN Parsed(i, fields)
  ELSE Then(add_type(ts, i), LAMBDA field :
         FieldsFrom(ts, field.at, Append(fields, field.val)))

parse_message_type(ts) ==
  IF Token(ts, 1) # "message" \/ Token(ts, 2) = "" THEN ParseError
  ELSE Then(parse_child_types(ts, 3), LAMBDA children :
         FromBuilder(BuildGroup(GroupType(Token(ts, 2), "", "NONE", <<>>, <<>>,
           children.val)), children.at))

(***************************************************************************)
(* convert.rs and visitor.rs: the engine's types.  A type is a tuple, its  *)
(* name and its parameters; <<>> stands for "Cannot handle".               *)
(***************************************************************************)
decimal_type_meta(precision, scale) ==
  IF precision < 0 \/ precision > 255 \/ scale > 127 THEN <<>>
  ELSE <<"decimal64", precision, scale>>

EngineInt(width, signed) == <<IF signed THEN "int" ELSE "uint", width>>

ConvertInt32(l, c, p) ==
  CASE l = <<>> /\ c = "NONE" -> EngineInt(32, TRUE)
    [] l = <<>> /\ c \in {"UINT_8", "UINT_16", "UINT_32", "INT_8", "INT_16", "INT_32"} ->
         LET w == CHOOSE w \in {8, 16, 32} : \E s \in BOOLEAN : IntName(w, s) = c
         IN  EngineInt(w, IntName(w, TRUE) = c)
    [] l = <<>> /\ c = "DATE" -> <<"date32">>
    [] l = <<>> /\ c = "DECIMAL" -> decimal_type_meta(p.precision, p.scale)
    [] l = <<>> /\ c = "TIME_MILLIS" -> <<"timestamp", "MILLIS">>
    [] Is(l, "Integer") -> IF l[2] \in {8, 16, 32} THEN EngineInt(l[2], l[3]) ELSE <<>>
    [] Is(l, "Decimal") -> decimal_type_meta(l[3], l[2])
    [] Is(l, "Date") -> <<"date32">>
    [] OTHER -> <<>>

ConvertInt64(l, c, p) ==
  CASE l = <<>> /\ c \in {"NONE", "INT_64"} -> EngineInt(64, TRUE)
    [] l = <<>> /\ c = "UINT_64" -> EngineInt(64, FALSE)
    [] l = <<>> /\ c = "DECIMAL" -> decimal_type_meta(p.precision, p.scale)
    [] Is(l, "Integer") -> IF l[2] \in {8, 16, 32, 64} THEN EngineInt(l[2], l[3]) ELSE <<>>
    [] Is(l, "Decimal") -> decimal_type_meta(l[3], l[2])
    [] Is(l, "Timestamp") -> <<"timestamp", l[3]>>
    [] Is(l, "Date") -> <<"date64">>
    [] OTHER -> <<>>

convert_primitive(p) ==
  CASE p.physical = "BOOLEAN" -> <<"boolean">>
    [] p.physical = "INT32" -> ConvertInt32(p.logical, p.converted, p)
    [] p.physical = "INT64" -> ConvertInt64(p.logical, p.converted, p)
    [] p.physical = "FLOAT" -> <<"float32">>
    [] p.physical = "DOUBLE" -> <<"float64">>
    [] p.physical = "INT96" -> <<"timestamp", "NANOS">>
    [] p.physical = "FIXED_LEN_BYTE_ARRAY" ->
         IF Is(p.logical, "Float16") THEN <<"float16">> ELSE <<>>
    [] p.physical = "BYTE_ARRAY" ->
         IF p.logical = <<>> /\ p.converted = "NONE" THEN <<"binary">>
         ELSE IF Is(p.logical, "String") \/ (p.logical = <<>> /\ p.converted = "UTF8")
         THEN <<"utf8">> ELSE <<>>

RECURSIVE visit_struct(_)
\* Lists and maps are not implemented; the root is always a struct.
dispatch(tp) ==
  IF tp.kind = "primitive" THEN convert_primitive(tp)
  ELSE IF tp.converted \in {"LIST", "MAP", "MAP_KEY_VALUE"} THEN <<>>
  ELSE visit_struct(tp)

visit_struct(tp) ==
  LET children == [i \in 1..Len(tp.fields) |-> <<tp.fields[i].name, dispatch(tp.fields[i])>>]
  IN  IF \E i \in DOMAIN children : children[i][2] = <<>> THEN <<>>
      ELSE <<"struct">> \o children

convert_schema(tp) == visit_struct(tp)

(***************************************************************************)
(* The schemas that are written.                                           *)
(***************************************************************************)
Primitives ==
  LET annotations ==
        {<<c, <<>>>> : c \in ConvertedType}
        \cup {<<c, l>> : c \in {"NONE", "UTF8"}, l \in LogicalType}
        \cup {<<ConvertedOf(l), l>> : l \in {k \in LogicalType : ConvertedOf(k) # "panic"}}
      lengths(physical) == IF physical = "FIXED_LEN_BYTE_ARRAY" THEN {-1, 2, 12, 16} ELSE {-1}
      decimals(a) ==
        IF a[1] = "DECIMAL" \/ Is(a[2], "Decimal")
        THEN {<<9, 2>>, <<9, 0>>, <<19, 0>>, <<-1, -1>>} ELSE {<<-1, -1>>}
  IN  UNION {{PrimitiveType("c", "OPTIONAL", physical, a[1], a[2], length, d[1], d[2], <<>>) :
                length \in lengths(physical), d \in decimals(a)} :
             physical \in Type, a \in annotations}

NestedPrimitives(name) ==
  {PrimitiveType(name, rep, n[1], n[2], <<>>, -1, -1, -1, <<>>) : rep \in Repetitions, n \in Nested}

Groups(name, fieldsets) ==
  {GroupType(name, rep, a[1], a[2], <<7>>, fields) :
     rep \in Repetitions, a \in {<<"NONE", <<>>>>, <<"MAP_KEY_VALUE", <<>>>>, <<"LIST", <<"List">>>>},
     fields \in fieldsets}

NestedSchemas ==
  LET inner == {<<p>> : p \in NestedPrimitives("a")} \cup {<<>>}
      pairs == {<<p, q>> : p \in NestedPrimitives("a"), q \in NestedPrimitives("b")}
      groups == Groups("g", inner \cup pairs)
      outer == Groups("h", {<<g>> : g \in Groups("g", inner)})
  IN  {<<g>> : g \in groups \cup outer}
      \cup {<<g, p>> : g \in Groups("g", inner), p \in NestedPrimitives("z")}

Root(fields) == GroupType("schema", "", "NONE", <<>>, <<>>, fields)

Init ==
  /\ \/ \E p \in Primitives :
          /\ BuildPrimitive(p).tag = "ok"
          /\ schema = Root(<<BuildPrimitive(p).val>>)
     \/ \E fields \in NestedSchemas : schema = Root(fields)
  /\ elements = <<>> /\ text = <<>> /\ outcome = <<>>

\* The writers leave things out that the reader fills in: parquet-cpp sets
\* num_children of a primitive to 0, others give the root a repetition.
Foreign(es) ==
  [i \in DOMAIN es |->
     [es[i] EXCEPT !.num_children = IF @ = <<>> THEN <<0>> ELSE @,
                   !.repetition_type = IF i = 1 THEN "REQUIRED" ELSE @]]

WriteFooter ==
  /\ elements = <<>> /\ text = <<>>
  /\ elements' \in {type_to_thrift(schema), Foreign(type_to_thrift(schema))}
  /\ UNCHANGED <<schema, text, outcome>>

Intact == elements \in {type_to_thrift(schema), Foreign(type_to_thrift(schema))}

\* Elements are lost, added, or of a newer writer.
Damage ==
  /\ elements # <<>> /\ outcome = <<>> /\ Intact
  /\ \/ elements' = Front(elements)
     \/ elements' = Append(elements, Last(elements))
     \/ \E i \in DOMAIN elements :
          \/ elements' = [elements EXCEPT ![i].converted_type = Newer]
          \/ elements[i].type # "" /\ elements' = [elements EXCEPT ![i].type = Newer]
          \/ elements[i].type # "" /\ elements' = [elements EXCEPT ![i].repetition_type = Newer]
  /\ UNCHANGED <<schema, text, outcome>>

ReadFooter ==
  /\ elements # <<>> /\ outcome = <<>>
  /\ outcome' = <<schema_from_thrift(elements)>>
  /\ UNCHANGED <<schema, elements, text>>

PrintSchema ==
  /\ elements = <<>> /\ text = <<>>
  /\ text' = print_type(schema)
  /\ UNCHANGED <<schema, elements, outcome>>

ParseText ==
  /\ text # <<>> /\ outcome = <<>>
  /\ outcome' = <<parse_message_type(text)>>
  /\ UNCHANGED <<schema, elements, text>>

Next == WriteFooter \/ Damage \/ ReadFooter \/ PrintSchema \/ ParseText

(***************************************************************************)
(* Properties.                                                             *)
(***************************************************************************)
\* The schema that is read from a footer has unique columns and is built.
TypeOK ==
  /\ schema.kind = "group"
  /\ outcome # <<>> => outcome[1].tag \in {"ok", "error", "panic"}
  /\ outcome # <<>> /\ outcome[1].tag = "ok" => outcome[1].val.kind = "group"

\* What a writer of this or of another library put in the footer is the schema
\* that is read, with every annotation, id and length.
FooterReadBack ==
  outcome # <<>> /\ elements # <<>> /\ Intact => outcome[1] = Ok(schema)

\* A list of elements that lost one, has one too many or a code of a newer
\* writer never becomes a schema.  It is an error, except that a list that lost
\* one panics: from_thrift_helper (types.rs) tests index > len, one too late, and
\* its "Index out of bound" is never returned.
DamageRefused ==
  outcome # <<>> /\ elements # <<>> /\ ~Intact =>
    outcome[1].tag = IF Len(elements) < Len(type_to_thrift(schema)) THEN "panic" ELSE "error"

\* The printed schema, parsed, has the same columns: names, levels, physical
\* types, sort orders, and types in the engine.
Meaning(tp) ==
  <<[i \in DOMAIN SchemaDescriptor(tp) |->
       LET c == SchemaDescriptor(tp)[i]
       IN  <<c.path, c.max_rep_level, c.max_def_level, c.primitive.physical, c.primitive.length,
             get_sort_order(c.primitive.logical, c.primitive.converted, c.primitive.physical)>>],
    convert_schema(tp)>>

TextKeepsMeaning ==
  outcome # <<>> /\ text # <<>> =>
    outcome[1].tag = "ok" /\ Meaning(outcome[1].val) = Meaning(schema)

\* The levels of a column are those its path gives: one definition level for
\* every ancestor that may be absent, one repetition level for every repeated one.
RECURSIVE NodesOn(_, _)
NodesOn(tp, path) ==
  IF path = <<>> THEN <<>>
  ELSE LET field == CHOOSE f \in Range(tp.fields) : f.name = Head(path)
       IN  <<field>> \o NodesOn(field, Tail(path))

LevelsOfPath ==
  \A c \in Range(SchemaDescriptor(schema)) :
    LET nodes == NodesOn(schema, c.path)
    IN  /\ Last(nodes) = c.primitive
        /\ c.max_def_level = Cardinality({i \in DOMAIN nodes : nodes[i].repetition # "REQUIRED"})
        /\ c.max_rep_level = Cardinality({i \in DOMAIN nodes : nodes[i].repetition = "REPEATED"})
        /\ schema.fields[c.root] = nodes[1]

\* A version 2 annotation and the converted type that older readers see say
\* the same: the statistics are ordered the same way, and where both give the
\* column a type in the engine it is the same type.
AnnotationsAgree ==
  \A c \in Range(SchemaDescriptor(schema)) :
    LET p == c.primitive
        old == [p EXCEPT !.logical = <<>>]
    IN  p.logical # <<>> /\ p.converted # "NONE" =>
          /\ get_sort_order(p.logical, p.converted, p.physical)
               = get_sort_order(<<>>, p.converted, p.physical)
          /\ convert_primitive(p) # <<>> /\ convert_primitive(old) # <<>> =>
               convert_primitive(p) = convert_primitive(old)
=============================================================================
