--------------------------- MODULE ParquetFormat ---------------------------
(***************************************************************************)
(* The Thrift structures of a Parquet file (format.rs) and the compact     *)
(* protocol they are read with (thrift.rs).  A structure is its table of   *)
(* fields; a value of it is a function from the ids of the fields that are *)
(* set.  One reader and one writer serve every table, as the generated     *)
(* code repeats the same loop for every structure.                         *)
(*                                                                         *)
(* The file comes from a writer of any version: it may write field ids as  *)
(* differences or in full, and may add fields this reader does not know.   *)
(* It may also be cut short.                                               *)
(***************************************************************************)
EXTENDS Integers, Sequences, FiniteSets, SequencesExt, FiniteSetsExt

CONSTANTS IntBits,  \* the widths of the integers i16, i32 and i64
          Seeds,    \* bound: the samples that are written
          Depth     \* bound: the nesting of their optional fields

VARIABLES input,    \* what was written: layout, value, form of the writer
          bytes,    \* the bytes in the file
          outcome   \* <<>> before the read, then what the read returned

vars == <<input, bytes, outcome>>

(***************************************************************************)
(* Kinds of fields.                                                        *)
(***************************************************************************)
Bool == <<"bool">>
I8 == <<"i8">>
I16 == <<"i16">>
I32 == <<"i32">>
I64 == <<"i64">>
Double == <<"double">>
Binary == <<"binary">>
String == <<"string">>
Enum(values) == <<"enum", values>>
List(kind) == <<"list", kind>>
Struct(layout) == <<"struct", layout>>

Required(id, kind) == [id |-> id, kind |-> kind, need |-> "required"]
Optional(id, kind) == [id |-> id, kind |-> kind, need |-> "optional"]
Variant(id, kind) == [id |-> id, kind |-> kind, need |-> "variant"]

(***************************************************************************)
(* The enumerations of format.rs are open: any i32 is kept, these are the  *)
(* values with a name.  Then the structures and unions, in its order.      *)
(***************************************************************************)
Type == 0..7
ConvertedType == 0..21
FieldRepetitionType == 0..2
EdgeInterpolationAlgorithm == 0..4
Encoding == {0, 2, 3, 4, 5, 6, 7, 8, 9}
CompressionCodec == 0..7
PageType == 0..3
BoundaryOrder == 0..2

SizeStatistics ==
  <<Optional(1, I64), Optional(2, List(I64)), Optional(3, List(I64))>>
BoundingBox ==
  <<Required(1, Double), Required(2, Double), Required(3, Double),
    Required(4, Double), Optional(5, Double), Optional(6, Double),
    Optional(7, Double), Optional(8, Double)>>
GeospatialStatistics ==
  <<Optional(1, Struct(BoundingBox)), Optional(2, List(I32))>>
Statistics ==
  <<Optional(1, Binary), Optional(2, Binary), Optional(3, I64),
    Optional(4, I64), Optional(5, Binary), Optional(6, Binary),
    Optional(7, Bool), Optional(8, Bool)>>
StringType == <<>>
UUIDType == <<>>
MapType == <<>>
ListType == <<>>
EnumType == <<>>
DateType == <<>>
Float16Type == <<>>
NullType == <<>>
DecimalType == <<Required(1, I32), Required(2, I32)>>
MilliSeconds == <<>>
MicroSeconds == <<>>
NanoSeconds == <<>>
TimeUnit ==
  <<Variant(1, Struct(MilliSeconds)), Variant(2, Struct(MicroSeconds)),
    Variant(3, Struct(NanoSeconds))>>
TimestampType == <<Required(1, Bool), Required(2, Struct(TimeUnit))>>
TimeType == <<Required(1, Bool), Required(2, Struct(TimeUnit))>>
IntType == <<Required(1, I8), Required(2, Bool)>>
JsonType == <<>>
BsonType == <<>>
VariantType == <<Optional(1, I8)>>
GeometryType == <<Optional(1, String)>>
GeographyType ==
  <<Optional(1, String), Optional(2, Enum(EdgeInterpolationAlgorithm))>>
LogicalType ==
  <<Variant(1, Struct(StringType)), Variant(2, Struct(MapType)),
    Variant(3, Struct(ListType)), Variant(4, Struct(EnumType)),
    Variant(5, Struct(DecimalType)), Variant(6, Struct(DateType)),
    Variant(7, Struct(TimeType)), Variant(8, Struct(TimestampType)),
    Variant(10, Struct(IntType)), Variant(11, Struct(NullType)),
    Variant(12, Struct(JsonType)), Variant(13, Struct(BsonType)),
    Variant(14, Struct(UUIDType)), Variant(15, Struct(Float16Type)),
    Variant(16, Struct(VariantType)), Variant(17, Struct(GeometryType)),
    Variant(18, Struct(GeographyType))>>
SchemaElement ==
  <<Optional(1, Enum(Type)), Optional(2, I32),
    Optional(3, Enum(FieldRepetitionType)), Required(4, String),
    Optional(5, I32), Optional(6, Enum(ConvertedType)), Optional(7, I32),
    Optional(8, I32), Optional(9, I32), Optional(10, Struct(LogicalType))>>
DataPageHeader ==
  <<Required(1, I32), Required(2, Enum(Encoding)),
    Required(3, Enum(Encoding)), Required(4, Enum(Encoding)),
    Optional(5, Struct(Statistics))>>
IndexPageHeader == <<>>
DictionaryPageHeader ==
  <<Required(1, I32), Required(2, Enum(Encoding)), Optional(3, Bool)>>
DataPageHeaderV2 ==
  <<Required(1, I32), Required(2, I32), Required(3, I32),
    Required(4, Enum(Encoding)), Required(5, I32), Required(6, I32),
    Optional(7, Bool), Optional(8, Struct(Statistics))>>
SplitBlockAlgorithm == <<>>
BloomFilterAlgorithm == <<Variant(1, Struct(SplitBlockAlgorithm))>>
XxHash == <<>>
BloomFilterHash == <<Variant(1, Struct(XxHash))>>
Uncompressed == <<>>
BloomFilterCompression == <<Variant(1, Struct(Uncompressed))>>
BloomFilterHeader ==
  <<Required(1, I32), Required(2, Struct(BloomFilterAlgorithm)),
    Required(3, Struct(BloomFilterHash)),
    Required(4, Struct(BloomFilterCompression))>>
PageHeader ==
  <<Required(1, Enum(PageType)), Required(2, I32), Required(3, I32),
    Optional(4, I32), Optional(5, Struct(DataPageHeader)),
    Optional(6, Struct(IndexPageHeader)),
    Optional(7, Struct(DictionaryPageHeader)),
    Optional(8, Struct(DataPageHeaderV2))>>
KeyValue == <<Required(1, String), Optional(2, String)>>
SortingColumn == <<Required(1, I32), Required(2, Bool), Required(3, Bool)>>
PageEncodingStats ==
  <<Required(1, Enum(PageType)), Required(2, Enum(Encoding)),
    Required(3, I32)>>
ColumnMetaData ==
  <<Required(1, Enum(Type)), Required(2, List(Enum(Encoding))),
    Required(3, List(String)), Required(4, Enum(CompressionCodec)),
    Required(5, I64), Required(6, I64), Required(7, I64),
    Optional(8, List(Struct(KeyValue))), Required(9, I64), Optional(10, I64),
    Optional(11, I64), Optional(12, Struct(Statistics)),
    Optional(13, List(Struct(PageEncodingStats))), Optional(14, I64),
    Optional(15, I32), Optional(16, Struct(SizeStatistics)),
    Optional(17, Struct(GeospatialStatistics))>>
EncryptionWithFooterKey == <<>>
EncryptionWithColumnKey == <<Required(1, List(String)), Optional(2, Binary)>>
ColumnCryptoMetaData ==
  <<Variant(1, Struct(EncryptionWithFooterKey)),
    Variant(2, Struct(EncryptionWithColumnKey))>>
ColumnChunk ==
  <<Optional(1, String), Required(2, I64),
    Optional(3, Struct(ColumnMetaData)), Optional(4, I64), Optional(5, I32),
    Optional(6, I64), Optional(7, I32),
    Optional(8, Struct(ColumnCryptoMetaData)), Optional(9, Binary)>>
RowGroup ==
  <<Required(1, List(Struct(ColumnChunk))), Required(2, I64),
    Required(3, I64), Optional(4, List(Struct(SortingColumn))),
    Optional(5, I64), Optional(6, I64), Optional(7, I16)>>
TypeDefinedOrder == <<>>
ColumnOrder == <<Variant(1, Struct(TypeDefinedOrder))>>
PageLocation == <<Required(1, I64), Required(2, I32), Required(3, I64)>>
OffsetIndex ==
  <<Required(1, List(Struct(PageLocation))), Optional(2, List(I64))>>
ColumnIndex ==
  <<Required(1, List(Bool)), Required(2, List(Binary)),
    Required(3, List(Binary)), Required(4, Enum(BoundaryOrder)),
    Optional(5, List(I64)), Optional(6, List(I64)), Optional(7, List(I64))>>
AesGcmV1 == <<Optional(1, Binary), Optional(2, Binary), Optional(3, Bool)>>
AesGcmCtrV1 == <<Optional(1, Binary), Optional(2, Binary), Optional(3, Bool)>>
EncryptionAlgorithm ==
  <<Variant(1, Struct(AesGcmV1)), Variant(2, Struct(AesGcmCtrV1))>>
FileMetaData ==
  <<Required(1, I32), Required(2, List(Struct(SchemaElement))),
    Required(3, I64), Required(4, List(Struct(RowGroup))),
    Optional(5, List(Struct(KeyValue))), Optional(6, String),
    Optional(7, List(Struct(ColumnOrder))),
    Optional(8, Struct(EncryptionAlgorithm)), Optional(9, Binary)>>
FileCryptoMetaData ==
  <<Required(1, Struct(EncryptionAlgorithm)), Optional(2, Binary)>>

Layouts ==
  {SizeStatistics, BoundingBox, GeospatialStatistics, Statistics, StringType,
   UUIDType, MapType, ListType, EnumType, DateType, Float16Type, NullType,
   DecimalType, MilliSeconds, MicroSeconds, NanoSeconds, TimeUnit,
   TimestampType, TimeType, IntType, JsonType, BsonType, VariantType,
   GeometryType, GeographyType, LogicalType, SchemaElement, DataPageHeader,
   IndexPageHeader, DictionaryPageHeader, DataPageHeaderV2,
   SplitBlockAlgorithm, BloomFilterAlgorithm, XxHash, BloomFilterHash,
   Uncompressed, BloomFilterCompression, BloomFilterHeader, PageHeader,
   KeyValue, SortingColumn, PageEncodingStats, ColumnMetaData,
   EncryptionWithFooterKey, EncryptionWithColumnKey, ColumnCryptoMetaData,
   ColumnChunk, RowGroup, TypeDefinedOrder, ColumnOrder, PageLocation,
   OffsetIndex, ColumnIndex, AesGcmV1, AesGcmCtrV1, EncryptionAlgorithm,
   FileMetaData, FileCryptoMetaData}

Fields(layout) == ToSet(layout)
Ids(layout) == {f.id : f \in Fields(layout)}
IsUnion(layout) == \E f \in Fields(layout) : f.need = "variant"
Kind(layout, id) == (CHOOSE f \in Fields(layout) : f.id = id).kind

(***************************************************************************)
(* The writer: TCompactOutputProtocol of the thrift crate, and the writers *)
(* of other implementations.                                               *)
(***************************************************************************)
RECURSIVE Vlq(_)
Vlq(n) == IF n < 128 THEN <<n>> ELSE <<128 + (n % 128)>> \o Vlq(n \div 128)

ZigZag(n) == Vlq(IF n >= 0 THEN 2 * n ELSE -2 * n - 1)

TypeCode(kind) ==
  CASE kind[1] = "bool" -> 1
    [] kind[1] = "i8" -> 3
    [] kind[1] = "i16" -> 4
    [] kind[1] \in {"i32", "enum"} -> 5
    [] kind[1] = "i64" -> 6
    [] kind[1] = "double" -> 7
    [] kind[1] \in {"binary", "string"} -> 8
    [] kind[1] = "list" -> 9
    [] kind[1] = "struct" -> 12

FieldHeader(last, id, code, form) ==
  IF id - last \in 1..form
  THEN <<16 * (id - last) + code>>
  ELSE <<code>> \o ZigZag(id)

ListHeader(kind, n) ==
  IF n < 15 THEN <<16 * n + TypeCode(kind)>>
            ELSE <<240 + TypeCode(kind)>> \o Vlq(n)

RECURSIVE Write(_, _, _), WriteFields(_, _, _, _, _)
Write(kind, v, form) ==
  CASE kind[1] = "bool" -> <<IF v THEN 1 ELSE 2>>
    [] kind[1] = "i8" -> <<v % 256>>
    [] kind[1] \in {"i16", "i32", "i64", "enum"} -> ZigZag(v)
    [] kind[1] = "double" -> v
    [] kind[1] \in {"binary", "string"} -> Vlq(Len(v)) \o v
    [] kind[1] = "list" ->
         ListHeader(kind[2], Len(v))
           \o FlattenSeq([i \in DOMAIN v |-> Write(kind[2], v[i], form)])
    [] kind[1] = "struct" -> WriteFields(kind[2], v, form, 1, 0) \o <<0>>

\* A field carries its Boolean in the header.
WriteField(kind, id, v, last, form) ==
  IF kind[1] = "bool"
  THEN FieldHeader(last, id, IF v THEN 1 ELSE 2, form)
  ELSE FieldHeader(last, id, TypeCode(kind), form) \o Write(kind, v, form)

WriteFields(layout, v, form, i, last) ==
  IF i > Len(layout) THEN <<>>
  ELSE IF layout[i].id \notin DOMAIN v THEN WriteFields(layout, v, form, i + 1, last)
  ELSE WriteField(layout[i].kind, layout[i].id, v[layout[i].id], last, form)
         \o WriteFields(layout, v, form, i + 1, layout[i].id)

(***************************************************************************)
(* The reader: TCompactSliceInputProtocol.  p is its state: the position   *)
(* in the slice, the id of the last field, those of the enclosing structs, *)
(* a Boolean read with a header and not yet taken, and the value the last  *)
(* call returned or the error that ended the read.                         *)
(***************************************************************************)
None == "none"

Protocol == [at |-> 1, last |-> 0, stack |-> <<>>, pending |-> <<>>,
             error |-> None, val |-> 0]

Failed(p) == p.error # None
Fail(p, e) == [p EXCEPT !.error = e]
Return(p, v) == [p EXCEPT !.val = v]

\* The ? of the source: an error ends the read.
Then(p, Rest(_)) == IF Failed(p) THEN p ELSE Rest(p)

MutReadByteZero(buf, p) ==
  IF p.at > Len(buf) THEN Return(p, 0)
  ELSE [p EXCEPT !.at = @ + 1, !.val = buf[p.at]]

read_byte(buf, p) ==
  IF p.at > Len(buf) THEN Fail(p, "EOF")
  ELSE [p EXCEPT !.at = @ + 1, !.val = buf[p.at]]

\* The lowest bits of v as a signed integer, an "as" of the source.
Truncate(v, bits) == ((v + 2^(bits - 1)) % 2^bits) - 2^(bits - 1)

RECURSIVE VlqFrom(_, _, _, _)
VlqFrom(buf, p, sofar, unit) ==
  Then(read_byte(buf, p), LAMBDA b :
    IF b.val < 128 THEN Return(b, (sofar + b.val * unit) % 2^IntBits["i64"])
    ELSE VlqFrom(buf, b, sofar + (b.val % 128) * unit, unit * 128))

read_vlq(buf, p) == VlqFrom(buf, p, 0, 1)

read_zig_zag(buf, p) ==
  Then(read_vlq(buf, p), LAMBDA q :
    Return(q, IF q.val % 2 = 0 THEN q.val \div 2 ELSE -(q.val \div 2) - 1))

read_int(buf, p, kind) ==
  Then(read_zig_zag(buf, p), LAMBDA q : Return(q, Truncate(q.val, IntBits[kind])))

read_struct_begin(p) == [p EXCEPT !.stack = Append(@, p.last), !.last = 0]

MutStructEnd(p) == [p EXCEPT !.stack = Front(@)]

read_struct_end(p) == [p EXCEPT !.last = Last(p.stack), !.stack = Front(@)]

Types == {0} \cup 3..12

\* A delta to the last id, or the id itself.
field_id(buf, p, delta) ==
  IF delta # 0 THEN Return(p, p.last + delta) ELSE read_int(buf, p, "i16")

\* The compact type of a field; a Boolean waits for read_bool.
read_field_begin(buf, p) ==
  Then(read_byte(buf, p), LAMBDA b :
    LET code == b.val % 16
        q == IF code \in {1, 2} THEN [b EXCEPT !.pending = <<code = 1>>] ELSE b
    IN  IF code \notin {1, 2} \cup Types THEN Fail(b, "type")
        ELSE IF code = 0 THEN Return(b, [type |-> 0, id |-> 0])
        ELSE Then(field_id(buf, q, b.val \div 16), LAMBDA f :
               [f EXCEPT !.last = f.val,
                         !.val = [type |-> IF code = 2 THEN 1 ELSE code, id |-> f.val]]))

MutBoolKept(buf, p) ==
  IF p.pending # <<>> THEN Return(p, p.pending[1])
  ELSE Then(read_byte(buf, p), LAMBDA b : Return(b, b.val = 1))

read_bool(buf, p) ==
  IF p.pending # <<>> THEN [p EXCEPT !.val = p.pending[1], !.pending = <<>>]
  ELSE Then(read_byte(buf, p), LAMBDA b :
         IF b.val \in {1, 2} THEN Return(b, b.val = 1) ELSE Fail(b, "bool"))

read_bytes(buf, p) ==
  Then(read_vlq(buf, p), LAMBDA n :
    IF n.at + n.val - 1 > Len(buf) THEN Fail(n, "EOF")
    ELSE [n EXCEPT !.at = n.at + n.val, !.val = SubSeq(buf, n.at, n.at + n.val - 1)])

\* The bytes that continue a letter that begins with the byte b, and those the
\* first of them is one of.
Continuation == 128..191
Follows(b) ==
  CASE b < 128 -> 0 [] b \in 194..223 -> 1 [] b \in 224..239 -> 2 [] b \in 240..244 -> 3
    [] OTHER -> -1
Second(b) ==
  CASE b = 224 -> 160..191 [] b = 237 -> 128..159 [] b = 240 -> 144..191 [] b = 244 -> 128..143
    [] OTHER -> Continuation

\* Whether the bytes are letters in UTF-8.
from_utf8(s) ==
  \A i \in DOMAIN s :
    IF s[i] \in Continuation
    THEN \E k \in 1..3 : i > k /\ Follows(s[i - k]) >= k /\ \A j \in (i - k + 1)..i : s[j] \in Continuation
    ELSE /\ Follows(s[i]) >= 0
         /\ i + Follows(s[i]) <= Len(s)
         /\ Follows(s[i]) > 0 => s[i + 1] \in Second(s[i])
         /\ \A k \in 1..Follows(s[i]) : s[i + k] \in Continuation

MutAnyText(buf, p) == read_bytes(buf, p)

read_string(buf, p) ==
  Then(read_bytes(buf, p), LAMBDA q : IF from_utf8(q.val) THEN q ELSE Fail(q, "utf8"))

read_i8(buf, p) ==
  Then(read_byte(buf, p), LAMBDA b :
    Return(b, IF b.val > 127 THEN b.val - 256 ELSE b.val))

\* Slicing eight bytes off a shorter slice panics.
read_double(buf, p) ==
  IF p.at + 7 > Len(buf) THEN Fail(p, "panic")
  ELSE [p EXCEPT !.at = @ + 8, !.val = SubSeq(buf, p.at, p.at + 7)]

MutListCount(buf, b) == Return(b, b.val \div 16)

list_count(buf, b) ==
  IF b.val \div 16 # 15 THEN Return(b, b.val \div 16)
  ELSE Then(read_vlq(buf, b), LAMBDA n : Return(n, Truncate(n.val, IntBits["i32"])))

\* Only 1 stands for Boolean elements here.
read_list_set_begin(buf, p) ==
  Then(read_byte(buf, p), LAMBDA b :
    IF b.val % 16 \notin {1} \cup Types THEN Fail(b, "type")
    ELSE Then(list_count(buf, b), LAMBDA n :
           Return(n, [type |-> b.val % 16, size |-> n.val])))

\* skip() of the thrift crate, by the type a header names; sets and maps are
\* unimplemented!() in the protocol.
RECURSIVE skip(_, _, _), SkipFields(_, _), SkipElements(_, _, _, _)
skip(buf, p, type) ==
  CASE type = 1 -> read_bool(buf, p)
    [] type = 3 -> read_i8(buf, p)
    [] type \in 4..6 -> read_zig_zag(buf, p)
    [] type = 7 -> read_double(buf, p)
    [] type = 8 -> read_string(buf, p)
    [] type = 9 -> Then(read_list_set_begin(buf, p), LAMBDA h :
                     SkipElements(buf, h, h.val.type, h.val.size))
    [] type = 12 -> Then(SkipFields(buf, read_struct_begin(p)), LAMBDA q : read_struct_end(q))
    [] OTHER -> Fail(p, "panic")
SkipFields(buf, p) ==
  Then(read_field_begin(buf, p), LAMBDA f :
    IF f.val.type = 0 THEN f
    ELSE Then(skip(buf, f, f.val.type), LAMBDA q : SkipFields(buf, q)))
SkipElements(buf, p, type, n) ==
  IF n <= 0 THEN p
  ELSE Then(skip(buf, p, type), LAMBDA q : SkipElements(buf, q, type, n - 1))

MutVerify(layout, got) == TRUE

verify_required_field_exists(layout, got) ==
  \A f \in Fields(layout) : f.need = "required" => f.id \in DOMAIN got

\* A union is rejected unless one field came, known or not, and it was known.
OneReceived(got, n) == n = 1 /\ DOMAIN got # {}

RECURSIVE Read(_, _, _), ReadElements(_, _, _, _, _), ReadFields(_, _, _, _, _)
Read(buf, p, kind) ==
  CASE kind[1] = "bool" -> read_bool(buf, p)
    [] kind[1] = "i8" -> read_i8(buf, p)
    [] kind[1] \in {"i16", "i32", "i64"} -> read_int(buf, p, kind[1])
    [] kind[1] = "enum" -> read_int(buf, p, "i32")
    [] kind[1] = "double" -> read_double(buf, p)
    [] kind[1] = "binary" -> read_bytes(buf, p)
    [] kind[1] = "string" -> read_string(buf, p)
    [] kind[1] = "list" ->
         Then(read_list_set_begin(buf, p), LAMBDA h :
           IF h.val.size < 0 THEN Fail(h, "panic")   \* Vec::with_capacity
           ELSE ReadElements(buf, h, kind[2], h.val.size, <<>>))
    [] kind[1] = "struct" ->
         Then(ReadFields(buf, read_struct_begin(p), kind[2], <<>>, 0), LAMBDA q :
           IF IsUnion(kind[2]) /\ ~OneReceived(q.val.got, q.val.count) THEN Fail(q, "union")
           ELSE IF ~verify_required_field_exists(kind[2], q.val.got) THEN Fail(q, "required")
           ELSE Return(read_struct_end(q), q.val.got))
ReadElements(buf, p, kind, n, list) ==
  IF n = 0 THEN Return(p, list)
  ELSE Then(Read(buf, p, kind), LAMBDA e :
         ReadElements(buf, e, kind, n - 1, Append(list, e.val)))
\* The loop of read_from_in_protocol: got are the fields so far; a union keeps
\* the first.
ReadFields(buf, p, layout, got, n) ==
  Then(read_field_begin(buf, p), LAMBDA f :
    LET id == f.val.id
        known == id \in Ids(layout)
    IN  IF f.val.type = 0 THEN Return(f, [got |-> got, count |-> n])
        ELSE Then(IF known THEN Read(buf, f, Kind(layout, id)) ELSE skip(buf, f, f.val.type),
               LAMBDA e :
                 ReadFields(buf, e, layout,
                   IF ~known \/ (IsUnion(layout) /\ DOMAIN got # {}) THEN got
                   ELSE [i \in DOMAIN got \cup {id} |-> IF i = id THEN e.val ELSE got[i]],
                   n + 1)))

read_from_in_protocol(buf, layout) == Read(buf, Protocol, Struct(layout))

(***************************************************************************)
(* What may be in the file.  The n-th sample of a kind: integers around    *)
(* the sizes of a byte of the variable length encoding, lists and strings  *)
(* around the sizes at which their header changes; depth bounds the        *)
(* nesting of optional fields.                                             *)
(***************************************************************************)
Ints == <<0, -1, 63, -64, 64, 300, -8193, 32767, -32768>>
Lengths == <<0, 1, 15, 16, 130>>
AtLeast(S, k) == Min({x \in S : x >= k % (Max(S) + 1)})

RECURSIVE Sample(_, _, _)
StructSample(layout, ids, n, depth) ==
  [i \in ids |-> Sample(Kind(layout, i), n + i, depth)]
RequiredIds(layout) == {f.id : f \in {g \in Fields(layout) : g.need = "required"}}
Sample(kind, n, depth) ==
  CASE kind[1] = "bool" -> n % 2 = 0
    [] kind[1] = "i8" -> ((37 * n) % 256) - 128
    [] kind[1] \in {"i16", "i32", "i64"} -> Ints[(n % 9) + 1]
    [] kind[1] = "enum" -> AtLeast(kind[2], n)
    [] kind[1] = "double" -> [i \in 1..8 |-> (n + 31 * i) % 256]
    [] kind[1] = "binary" -> [i \in 1..Lengths[(n % 5) + 1] |-> (n + i) % 256]
    [] kind[1] = "string" -> [i \in 1..Lengths[(n % 5) + 1] |-> (n + i) % 128]
    [] kind[1] = "list" ->
         [i \in 1..(IF kind[2][1] = "struct" THEN n % 3 ELSE Lengths[(n % 4) + 1])
            |-> Sample(kind[2], n + i, depth)]
    [] kind[1] = "struct" ->
         StructSample(kind[2],
                      IF IsUnion(kind[2]) THEN {AtLeast(Ids(kind[2]), n)}
                      ELSE IF depth > 0 THEN Ids(kind[2]) ELSE RequiredIds(kind[2]),
                      n, depth - 1)

\* Every field set, only the required ones, one more or one less; a union has
\* one.
Presences(layout) ==
  IF IsUnion(layout) THEN {{i} : i \in Ids(layout)}
  ELSE LET req == RequiredIds(layout)
           opt == Ids(layout) \ req
       IN  {req, Ids(layout)} \cup {req \cup {i} : i \in opt}
             \cup {Ids(layout) \ {i} : i \in opt}

\* A field of a newer version, before or after the known ones.
NewId == 100
NewFields ==
  <<<<Bool, TRUE>>, <<I8, -1>>, <<I64, 300>>, <<Double, Sample(Double, 0, 0)>>,
   <<Binary, Sample(Binary, 2, 0)>>, <<List(Bool), <<FALSE, TRUE>>>>,
   <<List(I32), Sample(List(I32), 3, 0)>>,
   <<Struct(SortingColumn), Sample(Struct(SortingColumn), 1, 0)>>,
   <<List(Struct(IntType)), <<Sample(Struct(IntType), 1, 0), Sample(Struct(IntType), 2, 0)>>>>>>

Forms == {0, 14, 15}

Written(in) ==
  LET end == Max(DOMAIN in.value \cup {0})
  IN  CASE in.extra = <<>> -> Write(Struct(in.layout), in.value, in.form)
        [] in.extra # <<>> /\ in.first ->
             WriteField(in.extra[1], NewId, in.extra[2], 0, in.form)
               \o WriteFields(in.layout, in.value, in.form, 1, NewId) \o <<0>>
        [] OTHER ->
             WriteFields(in.layout, in.value, in.form, 1, 0)
               \o WriteField(in.extra[1], NewId, in.extra[2], end, in.form) \o <<0>>

Put(layout, ids, n, depth, form, extra, first) ==
  input = [layout |-> layout, value |-> StructSample(layout, ids, n, depth),
           form |-> form, extra |-> extra, first |-> first]

(***************************************************************************)
(* A writer that leaves out a required field, sets none or two of a union, *)
(* or writes a text that is cut inside a letter.                           *)
(***************************************************************************)
Unfit(layout, ids) ==
  IF IsUnion(layout) THEN Cardinality(ids) # 1 ELSE ~(RequiredIds(layout) \subseteq ids)

CutLetter == <<97, 226, 130>>
StringIds(layout) == {f.id : f \in {g \in Fields(layout) : g.kind = String}}
Damaged(in) ==
  \/ Unfit(in.layout, DOMAIN in.value)
  \/ \E i \in StringIds(in.layout) \cap DOMAIN in.value : in.value[i] = CutLetter

UnfitPresences(layout) ==
  {ids \in {{}} \cup {Ids(layout) \ {i} : i \in Ids(layout)} \cup {Ids(layout)} :
     Unfit(layout, ids)}

Init ==
  /\ \E l \in Layouts :
       \/ \E ids \in Presences(l), n \in Seeds, form \in Forms :
            Put(l, ids, n, Depth, form, <<>>, FALSE)
       \/ \E ids \in UnfitPresences(l) : Put(l, ids, 1, 0, 15, <<>>, FALSE)
       \/ \E i \in StringIds(l), text \in {CutLetter, Append(CutLetter, 172)} :
            input = [layout |-> l, form |-> 15, extra |-> <<>>, first |-> FALSE,
                     value |-> [StructSample(l, Ids(l), 1, 0) EXCEPT ![i] = text]]
       \/ /\ ~IsUnion(l)
          /\ \E ids \in {Ids(l), RequiredIds(l)}, form \in {0, 15}, i \in DOMAIN NewFields,
                first \in BOOLEAN :
               Put(l, ids, 1, 0, form, NewFields[i], first)
  /\ bytes = Written(input)
  /\ outcome = <<>>

Whole == bytes = Written(input)

\* The file ends early.
Cut ==
  /\ outcome = <<>> /\ Whole
  /\ input.form = 15 /\ input.extra = <<>> /\ DOMAIN input.value = Ids(input.layout)
  /\ \E n \in 0..(Len(bytes) - 1) : bytes' = SubSeq(bytes, 1, n)
  /\ UNCHANGED <<input, outcome>>

ReadStruct ==
  /\ outcome = <<>>
  /\ outcome' = <<read_from_in_protocol(bytes, input.layout)>>
  /\ UNCHANGED <<input, bytes>>

Next == Cut \/ ReadStruct

(***************************************************************************)
(* Properties.                                                             *)
(***************************************************************************)
TypeOK ==
  /\ outcome # <<>> => outcome[1].at \in 1..(Len(bytes) + 1)
  /\ outcome # <<>> /\ ~Failed(outcome[1]) => outcome[1].stack = <<>>

\* What any writer wrote is read back, with its optional fields set or not,
\* whatever the form of its headers and whatever it adds that is not known
\* here; and the slice that is left begins after the structure, where the page
\* that follows a header begins.
ReadBack ==
  outcome # <<>> /\ Whole /\ ~Damaged(input) =>
    /\ ~Failed(outcome[1])
    /\ outcome[1].val = input.value
    /\ outcome[1].at = Len(bytes) + 1

\* The structures with a double precision number in them.
RECURSIVE HasDouble(_)
HasDouble(kind) ==
  CASE kind[1] = "double" -> TRUE
    [] kind[1] = "list" -> HasDouble(kind[2])
    [] kind[1] = "struct" -> \E f \in Fields(kind[2]) : HasDouble(f.kind)
    [] OTHER -> FALSE

\* A structure without a required field, a union without exactly one, a text
\* that is not UTF-8 and a file that ends early are never taken for a value.
\* They are reported by an error, with one exception: read_double slices eight
\* bytes off what is left without looking (thrift.rs), and panics if the file
\* ends inside a number of a bounding box.
DamageRefused ==
  outcome # <<>> /\ (~Whole \/ Damaged(input)) =>
    /\ Failed(outcome[1])
    /\ outcome[1].error = "panic" =>
         ~Whole /\ HasDouble(Struct(input.layout)) /\ outcome[1].at + 7 > Len(bytes)
=============================================================================
