------------------------------ MODULE RowStorage ------------------------------
(***************************************************************************)
(* Rows kept as bytes (arrays/row and arrays/sort): the row layout with    *)
(* its validity bits and its string pointers into heap blocks, the         *)
(* collections that joins and aggregates append to and scan, the matcher   *)
(* that compares stored rows with arrays, the layout of aggregate states,  *)
(* and the sort keys whose bytes are compared instead of the values, from  *)
(* the encoding to the sorted block and the comparison of the merge.       *)
(* A value is <<>> (NULL) or <<bytes>>: an integer or a float is given by  *)
(* its big-endian bytes, a string by its characters' codes.  A pointer is  *)
(* the number of a block and a position in it.  GlobalSort and BinaryMerge *)
(* model the partitions and the blocks of a merge, HashJoin and            *)
(* HashAggregate the tables above the collections.                         *)
(***************************************************************************)
EXTENDS Integers, Sequences, SequencesExt, FiniteSets, FiniteSetsExt

CONSTANTS
    Calls,    \* the uses to try, see Init
    MaxHeap   \* MAX_HEAP_SIZE

VARIABLES
    call,   \* the use of the rows being tried
    input,  \* the batches not yet appended
    store,  \* the collection
    heap,   \* the heap blocks allocated so far; a pointer's block is an index
    out,    \* what was returned
    stage

vars == <<call, input, store, heap, out, stage>>

MAX_INLINE_LEN == 12
Garbage == 170          \* a byte that was never written
Strings == {"Utf8", "Binary"}
SignedTypes == {"Int8", "Int16", "Int32", "Int64", "Int128"}
UnsignedTypes == {"UInt8", "UInt16", "UInt32", "UInt64", "UInt128"}
Floats == {"Float16", "Float32", "Float64"}

Size == [UntypedNull |-> 0, Boolean |-> 1, Int8 |-> 1, UInt8 |-> 1, Int16 |-> 2, UInt16 |-> 2,
         Float16 |-> 2, Int32 |-> 4, UInt32 |-> 4, Float32 |-> 4, Int64 |-> 8, UInt64 |-> 8,
         Float64 |-> 8, Int128 |-> 16, UInt128 |-> 16, Interval |-> 16]

Tuple(s) == s \o <<>>
Fill(n, byte) == Tuple([i \in 1 .. n |-> byte])
Put(row, offset, bytes) ==
    SubSeq(SubSeq(row, 1, offset) \o bytes \o SubSeq(row, offset + Len(bytes) + 1, Len(row)), 1, Len(row))
At(row, offset, width) == SubSeq(row, offset + 1, offset + width)

Total(widths) == FoldLeft(LAMBDA a, b : a + b, 0, widths)
Sums(widths) == [i \in DOMAIN widths |-> Total(SubSeq(widths, 1, i - 1))]

(* The order of slices of bytes.                                           *)
LexLess(a, b) ==
    \E n \in 0 .. Len(b) - 1 :
        /\ n <= Len(a)
        /\ SubSeq(a, 1, n) = SubSeq(b, 1, n)
        /\ n = Len(a) \/ a[n + 1] < b[n + 1]

-----------------------------------------------------------------------------
(* RowLayout: a bitmap of valid columns, then the values.                  *)
num_bytes_for_bitmap(n) == (n + 7) \div 8
row_encoding_requires_heap(type) == type \in Strings \cup {"List", "Struct"}
row_width_for_physical_type(type) ==
    IF type \in Strings THEN 16 ELSE IF type \in {"List", "Struct"} THEN 0 ELSE Size[type]

RowLayout(types) ==
    LET widths == [c \in DOMAIN types |-> row_width_for_physical_type(types[c])]
        validity == num_bytes_for_bitmap(Len(types))
    IN [types |-> types,
        offsets |-> [c \in DOMAIN types |-> validity + Sums(widths)[c]],
        row_width |-> validity + Total(widths),
        validity_width |-> validity,
        requires_heap |-> \E c \in DOMAIN types : row_encoding_requires_heap(types[c])]

(* Bit c of the bitmap, as BitmapView and the readers compute it.          *)
ValidBit(row, c) == (row[((c - 1) \div 8) + 1] \div 2 ^ ((c - 1) % 8)) % 2 = 1
Unset(row, c) == [row EXCEPT ![((c - 1) \div 8) + 1] = @ - 2 ^ ((c - 1) % 8)]

(* StringPtr, 16 bytes: the length and up to 12 bytes, or the length, a    *)
(* prefix and a pointer into a heap block.                                 *)
IsInline(len) == len <= MAX_INLINE_LEN
new_inline(bytes) == <<Len(bytes), 0, 0, 0>> \o bytes \o Fill(MAX_INLINE_LEN - Len(bytes), 0)
new_reference(bytes, pointer) ==
    <<Len(bytes), 0, 0, 0>> \o SubSeq(bytes, 1, 4) \o pointer \o Fill(6, 0)
StringPtrEmpty == Fill(16, 0)
(* The bytes behind a pointer; nothing of a block the collection does not  *)
(* own can be trusted.                                                     *)
as_bytes(ptr, owned, memory) ==
    IF IsInline(ptr[1]) THEN SubSeq(ptr, 5, 4 + ptr[1])
    ELSE IF ptr[9] \in owned THEN At(memory[ptr[9]], ptr[10], ptr[1])
    ELSE Fill(ptr[1], Garbage)

(* compute_heap_sizes for one row.                                         *)
compute_heap_sizes(types, row) ==
    Total([c \in DOMAIN types |->
              IF types[c] \in Strings /\ row[c] # <<>> /\ ~IsInline(Len(row[c][1])) THEN Len(row[c][1]) ELSE 0])

-----------------------------------------------------------------------------
(* Writing one row column by column: w holds the row, the place in the     *)
(* heap to write next, and the heap.                                       *)
write_scalar(layout, w, c, v) ==
    LET offset == layout.offsets[c]
    IN IF v = <<>>
       THEN [w EXCEPT !.row = Unset(Put(@, offset, Fill(Size[layout.types[c]], 0)), c)]
       ELSE [w EXCEPT !.row = Put(@, offset, v[1])]

MutSameSpot(layout, w, c, v) ==
    [w EXCEPT !.row = Put(@, layout.offsets[c], new_reference(v[1], <<w.block, w.at>>)),
              !.memory = [@ EXCEPT ![w.block] = Put(@, w.at, v[1])]]
WriteToHeap(layout, w, c, v) ==
    [w EXCEPT !.row = Put(@, layout.offsets[c], new_reference(v[1], <<w.block, w.at>>)),
              !.memory = [@ EXCEPT ![w.block] = Put(@, w.at, v[1])],
              !.at = @ + Len(v[1])]

write_binary(layout, w, c, v) ==
    IF v = <<>> THEN [w EXCEPT !.row = Unset(Put(@, layout.offsets[c], StringPtrEmpty), c)]
    ELSE IF IsInline(Len(v[1])) THEN [w EXCEPT !.row = Put(@, layout.offsets[c], new_inline(v[1]))]
    ELSE WriteToHeap(layout, w, c, v)

write_array(layout, w, c, v) ==
    IF layout.types[c] \in Strings THEN write_binary(layout, w, c, v) ELSE write_scalar(layout, w, c, v)

read_scalar(layout, row, c) ==
    IF ValidBit(row, c) THEN <<At(row, layout.offsets[c], Size[layout.types[c]])>> ELSE <<>>
read_binary(layout, row, c, owned, memory) ==
    IF ValidBit(row, c) THEN <<as_bytes(At(row, layout.offsets[c], 16), owned, memory)>> ELSE <<>>
read_array(layout, row, c, owned, memory) ==
    IF layout.types[c] \in Strings THEN read_binary(layout, row, c, owned, memory)
    ELSE read_scalar(layout, row, c)
read_arrays(layout, row, columns, owned, memory) ==
    [i \in DOMAIN columns |-> read_array(layout, row, columns[i], owned, memory)]

-----------------------------------------------------------------------------
(* RowBlocks: fixed-size blocks of `capacity` rows and heap blocks.        *)
NewBlocks(width, validity, capacity) ==
    [row_width |-> width, validity_width |-> validity, capacity |-> capacity,
     row_blocks |-> <<>>, heap_blocks |-> <<>>]

(* ValidityInitializer, or NopInitializer when there is no bitmap.         *)
initialize(b) == Fill(b.validity_width, 255) \o Fill(b.row_width - b.validity_width, Garbage)
allocate_and_init_fixed_size_block(b) ==
    [b EXCEPT !.row_blocks = Append(@, [data |-> Fill(b.capacity, initialize(b)), reserved |-> 0])]

(* The loop of prepare_append over the row blocks.                         *)
RECURSIVE reserve_rows(_, _, _)
reserve_rows(b, remaining, pointers) ==
    IF remaining = 0 THEN [blocks |-> b, pointers |-> pointers]
    ELSE LET last == Len(b.row_blocks)
             from == b.row_blocks[last].reserved
             count == Min({b.capacity - from, remaining})
             filled == [b EXCEPT !.row_blocks[last].reserved = from + count]
         IN reserve_rows(IF remaining > count THEN allocate_and_init_fixed_size_block(filled) ELSE filled,
                         remaining - count,
                         pointers \o [i \in 1 .. count |-> <<last, from + i>>])

reserve_heap(b, sizes, memory) ==
    [blocks |-> [b EXCEPT !.heap_blocks = Append(@, Len(memory) + 1)],
     memory |-> Append(memory, Fill(Total(sizes), Garbage)),
     pointers |-> [i \in DOMAIN sizes |-> <<Len(memory) + 1, Sums(sizes)[i]>>]]

(* sizes is <<>> when no column needs the heap.                            *)
prepare_append(b, count, sizes, memory) ==
    LET ready == IF b.row_blocks = <<>> THEN allocate_and_init_fixed_size_block(b) ELSE b
        reserved == reserve_rows(ready, count, <<>>)
    IN IF sizes = <<>>
       THEN [blocks |-> reserved.blocks, rows |-> reserved.pointers, memory |-> memory,
             heap |-> [i \in 1 .. count |-> <<0, 0>>], failed |-> FALSE]
       ELSE LET h == reserve_heap(reserved.blocks, sizes[1], memory)
            IN [blocks |-> h.blocks, rows |-> reserved.pointers, memory |-> h.memory,
                heap |-> h.pointers, failed |-> Total(sizes[1]) > MaxHeap]

RowAt(b, pointer) == b.row_blocks[pointer[1]].data[pointer[2]]
SetRow(b, pointer, row) == [b EXCEPT !.row_blocks[pointer[1]].data[pointer[2]] = row]

(* write_arrays: every row gets its columns.                               *)
WriteRow(layout, p, i, row) ==
    LET w == FoldLeft(LAMBDA acc, c : write_array(layout, acc, c, row[c]),
                      [row |-> RowAt(p.blocks, p.rows[i]), block |-> p.heap[i][1],
                       at |-> p.heap[i][2], memory |-> p.memory],
                      [c \in DOMAIN row |-> c])
    IN [p EXCEPT !.blocks = SetRow(@, p.rows[i], w.row), !.memory = w.memory]
write_arrays(layout, p, rows) ==
    IF p.failed THEN p
    ELSE FoldLeft(LAMBDA acc, i : WriteRow(layout, acc, i, rows[i]), p, [i \in DOMAIN rows |-> i])

(* append_arrays: of RowCollection, and of the groups of an                *)
(* AggregateCollection.                                                    *)
append_arrays(layout, b, rows, always_heap, memory) ==
    LET sizes == IF layout.requires_heap \/ always_heap
                 THEN <<[i \in DOMAIN rows |-> compute_heap_sizes(layout.types, rows[i])]>> ELSE <<>>
    IN write_arrays(layout, prepare_append(b, Len(rows), sizes, memory), rows)

Owned(b) == Range(b.heap_blocks)
(* Block::concat of the rows reserved in each block.                       *)
concat(b) == FlattenSeq([i \in DOMAIN b.row_blocks |->
                            SubSeq(b.row_blocks[i].data, 1, b.row_blocks[i].reserved)])
RowCount(b) == Len(concat(b))

MutHeapForgotten(b, other) == [b EXCEPT !.row_blocks = @ \o other.row_blocks]
merge_blocks_from(b, other) ==
    [b EXCEPT !.row_blocks = @ \o other.row_blocks, !.heap_blocks = @ \o other.heap_blocks]

-----------------------------------------------------------------------------
(* RowScanState: blocks to scan, the current one (0 is None) and the row.  *)
full_scan(b) == [todo |-> [i \in DOMAIN b.row_blocks |-> i], block |-> 0, row |-> 0, pointers |-> <<>>]

RECURSIVE scan_loop(_, _, _)
scan_loop(b, s, remaining) ==
    IF remaining = 0 \/ (s.block = 0 /\ s.todo = <<>>) THEN s
    ELSE IF s.block = 0
    THEN scan_loop(b, [s EXCEPT !.block = Head(s.todo), !.todo = Tail(@), !.row = 0], remaining)
    ELSE LET rows == b.row_blocks[s.block].reserved
             count == Min({remaining, rows - s.row})
         IN IF s.row >= rows THEN scan_loop(b, [s EXCEPT !.block = 0], remaining)
            ELSE scan_loop(b, [s EXCEPT !.row = @ + count,
                                        !.pointers = @ \o [i \in 1 .. count |-> <<s.block, s.row + i>>]],
                           remaining - count)
scan_subset(b, s, count) == scan_loop(b, [s EXCEPT !.pointers = <<>>], count)

-----------------------------------------------------------------------------
(* The orders of the types, as their values are compared.                  *)
Negative(bytes) == bytes[1] >= 128
SignedLess(a, b) == IF Negative(a) = Negative(b) THEN LexLess(a, b) ELSE Negative(a)
FloatLess(a, b) ==
    IF Negative(a) /\ Negative(b) THEN LexLess(b, a) ELSE SignedLess(a, b)
Fields(bytes) == <<SubSeq(bytes, 1, 4), SubSeq(bytes, 5, 8), SubSeq(bytes, 9, 16)>>
ValueLess(type, a, b) ==
    IF type \in SignedTypes THEN SignedLess(a, b)
    ELSE IF type \in Floats THEN FloatLess(a, b)
    ELSE IF type = "Interval"
    THEN \E f \in 1 .. 3 : SignedLess(Fields(a)[f], Fields(b)[f]) /\ \A g \in 1 .. f - 1 : Fields(a)[g] = Fields(b)[g]
    ELSE LexLess(a, b)

(* PredicateRowMatcher: stored rows on the left, arrays on the right.      *)
NullCoercedComparison(op, type, l, r) ==
    l # <<>> /\ r # <<>> /\ CASE op = "Eq" -> l = r
                              [] op = "NotEq" -> l # r
                              [] op = "Lt" -> ValueLess(type, l[1], r[1])
                              [] op = "LtEq" -> ~ValueLess(type, r[1], l[1])
                              [] op = "Gt" -> ValueLess(type, r[1], l[1])
                              [] op = "GtEq" -> ~ValueLess(type, l[1], r[1])
MutNullEqual(op, type, l, r) == l = r
compare_nullable(op, type, l, r) ==
    CASE op = "IsNotDistinctFrom" -> l = r
      [] op = "IsDistinctFrom" -> l # r
      [] OTHER -> NullCoercedComparison(op, type, l, r)

MutSelectionKept(m, kept) == [m EXCEPT !.not_matched = @ \o SelectSeq(m.selection, LAMBDA i : i \notin kept)]
(* The indices that match move to the front of the selection, which is cut *)
(* after them; the others are pushed to not_matched.                       *)
Compacted(m, kept) ==
    [selection |-> SelectSeq(m.selection, LAMBDA i : i \in kept),
     not_matched |-> m.not_matched \o SelectSeq(m.selection, LAMBDA i : i \notin kept)]
compute_matches(layout, b, pointers, c, op, rhs, m, memory) ==
    Compacted(m, {i \in Range(m.selection) :
                     compare_nullable(op, layout.types[c],
                                      read_array(layout, RowAt(b, pointers[i]), c, Owned(b), memory),
                                      rhs[i][c])})
find_matches(layout, b, pointers, ops, rhs, memory) ==
    FoldLeft(LAMBDA m, c : compute_matches(layout, b, pointers, c, ops[c], rhs, m, memory),
             [selection |-> [i \in DOMAIN pointers |-> i], not_matched |-> <<>>],
             [c \in DOMAIN ops |-> c])

-----------------------------------------------------------------------------
(* AggregateLayout: the groups' row layout, then the aggregate states, all *)
(* aligned to the largest alignment.  An aggregate is its state's size and *)
(* alignment and the number of its inputs.                                 *)
align_len(len, alignment) == ((len + alignment - 1) \div alignment) * alignment

AggregateLayout(types, aggregates) ==
    LET groups == RowLayout(types)
        base == Max({1} \cup {aggregates[a].align : a \in DOMAIN aggregates})
        sizes == [a \in DOMAIN aggregates |-> align_len(aggregates[a].size, base)]
        start == align_len(groups.row_width, base)
    IN [groups |-> groups, aggregates |-> aggregates, base_align |-> base,
        offsets |-> [a \in DOMAIN aggregates |-> start + Sums(sizes)[a]],
        row_width |-> align_len(start + Total(sizes), base)]

(* CompleteInputSelector: the inputs of each selected aggregate, skipping  *)
(* those of the aggregates in between.                                     *)
MutInputsUnskipped(layout, selection, inputs) ==
    [k \in DOMAIN selection |->
        [aggregate |-> selection[k], inputs |-> SubSeq(inputs, 1, layout.aggregates[selection[k]].inputs)]]
CompleteInputSelector(layout, selection, inputs) ==
    LET counts == [a \in DOMAIN layout.aggregates |-> layout.aggregates[a].inputs]
    IN [k \in DOMAIN selection |->
           [aggregate |-> selection[k],
            inputs |-> At(inputs, Sums(counts)[selection[k]], counts[selection[k]])]]

(* The pointers walk from state to state: rel_offset is added to where the *)
(* previous aggregate left them.                                           *)
StateOffset(layout, selection, k) ==
    LET previous == IF k = 1 THEN 0 ELSE layout.offsets[selection[k - 1]]
        rel == layout.offsets[selection[k]] - previous
    IN previous + rel

(* A state is what it was given so far, kept by the place of its bytes.    *)
NewGroups(s, p) ==
    LET places == Range(p.rows) \X Range(s.layout.offsets)
    IN [store |-> [s EXCEPT !.blocks = p.blocks, !.groups = @ \o p.rows,
                            !.states = [x \in places \cup DOMAIN @ |-> IF x \in places THEN <<>> ELSE @[x]]],
        memory |-> p.memory, failed |-> FALSE]
append_groups(s, rows, memory) == NewGroups(s, append_arrays(s.layout.groups, s.blocks, rows, FALSE, memory))

(* One row of update_states, for the group at `pointer`.                   *)
update_states(s, pointer, selection, inputs) ==
    LET selectors == CompleteInputSelector(s.layout, selection, inputs)
    IN [s EXCEPT !.states = [x \in DOMAIN @ |->
           @[x] \o FlattenSeq([k \in DOMAIN selection |->
                                  IF x = <<pointer, StateOffset(s.layout, selection, k)>>
                                  THEN <<selectors[k].inputs>> ELSE <<>>])]]
combine_states(s, selection, source, dest) ==
    [s EXCEPT !.states = [x \in DOMAIN @ |->
        @[x] \o FlattenSeq([k \in DOMAIN selection |->
                               LET offset == StateOffset(s.layout, selection, k)
                               IN IF x = <<dest, offset>> /\ <<source, offset>> \in DOMAIN @
                                  THEN @[<<source, offset>>] ELSE <<>>])]]
finalize_states(s, pointer) ==
    LET every == [a \in DOMAIN s.layout.aggregates |-> a]
    IN [a \in DOMAIN every |-> s.states[<<pointer, StateOffset(s.layout, every, a)>>]]

-----------------------------------------------------------------------------
(* Sort keys: the encoding of a value whose bytes compare as the values.   *)
BitsOf(bytes) ==
    [i \in 1 .. 8 * Len(bytes) |-> (bytes[((i - 1) \div 8) + 1] \div 2 ^ (7 - ((i - 1) % 8))) % 2]
BytesOf(bits) ==
    [k \in 1 .. Len(bits) \div 8 |->
        FoldLeft(LAMBDA acc, bit : 2 * acc + bit, 0, SubSeq(bits, 8 * k - 7, 8 * k))]

encode_unsigned(bytes) == bytes
encode_signed(bytes) == [bytes EXCEPT ![1] = (@ + 128) % 256]

(* bits ^ ((bits >> shift) as unsigned >> 1), on the bits.                 *)
FlippedBy(bytes, shift) ==
    LET bits == BitsOf(bytes)
        shifted == [i \in DOMAIN bits |-> IF i <= shift THEN bits[1] ELSE bits[i - shift]]
        mask == [i \in DOMAIN bits |-> IF i = 1 THEN 0 ELSE shifted[i - 1]]
    IN BytesOf(Tuple([i \in DOMAIN bits |-> (bits[i] + mask[i]) % 2]))
encode_f16(bytes) == encode_signed(FlippedBy(bytes, 15))
MutFloatAsInt(bytes) == encode_signed(bytes)
encode_f32(bytes) == encode_signed(FlippedBy(bytes, 31))
encode_f64(bytes) == encode_signed(FlippedBy(bytes, 31))
encode_interval(bytes) == FlattenSeq([f \in 1 .. 3 |-> encode_signed(Fields(bytes)[f])])
encode_bool(bytes) == <<1 - bytes[1]>>
StringPrefix(bytes) ==
    LET count == Min({Len(bytes), 12}) IN SubSeq(bytes, 1, count) \o Fill(12 - count, 0)

encode(type, bytes) ==
    CASE type = "UntypedNull" -> <<>>
      [] type = "Boolean" -> encode_bool(bytes)
      [] type \in UnsignedTypes -> encode_unsigned(bytes)
      [] type \in SignedTypes -> encode_signed(bytes)
      [] type = "Float16" -> encode_f16(bytes)
      [] type = "Float32" -> encode_f32(bytes)
      [] type = "Float64" -> encode_f64(bytes)
      [] type = "Interval" -> encode_interval(bytes)
      [] type \in Strings -> StringPrefix(bytes)

(* SortLayout: a column is its type, desc and nulls_first.                 *)
SortSupported(type) == type \in Strings \/ type \in DOMAIN Size
key_width_for_physical_type(type) == 1 + (IF type \in Strings THEN 12 ELSE Size[type])
SortLayout(columns) ==
    LET widths == [c \in DOMAIN columns |-> key_width_for_physical_type(columns[c].type)]
        heapkeys == SelectSeq([c \in DOMAIN columns |-> c], LAMBDA c : columns[c].type \in Strings)
    IN [columns |-> columns, widths |-> widths, offsets |-> Sums(widths),
        compare_width |-> Total(widths), row_width |-> Total(widths) + 4,
        heap_layout |-> RowLayout([h \in DOMAIN heapkeys |-> columns[heapkeys[h]].type]),
        heapkeys |-> heapkeys]
any_requires_heap(layout) == layout.heapkeys # <<>>
column_requires_heap(layout, c) == c \in Range(layout.heapkeys)
HeapColumn(layout, c) == CHOOSE h \in DOMAIN layout.heapkeys : layout.heapkeys[h] = c

invalid_byte(column) == IF column.nulls_first THEN 0 ELSE 255
valid_byte(column) == IF column.nulls_first THEN 255 ELSE 0
MutInvertNever(column, bytes) == bytes
invert_if_desc(column, bytes) ==
    IF column.desc THEN Tuple([i \in DOMAIN bytes |-> 255 - bytes[i]]) ELSE bytes

MutNullInverted(column, v) ==
    LET valid == IF v = <<>> THEN invalid_byte(column) ELSE valid_byte(column)
        bytes == IF v # <<>> THEN v[1] ELSE IF column.type \in Strings THEN <<>> ELSE Fill(Size[column.type], 0)
    IN invert_if_desc(column, <<valid>> \o encode(column.type, bytes))
(* write_scalar and write_binary_prefix of the sort layout.                *)
write_key(column, v) ==
    IF v # <<>>
    THEN <<valid_byte(column)>> \o invert_if_desc(column, encode(column.type, v[1]))
    ELSE <<invalid_byte(column)>> \o
         encode(column.type, IF column.type \in Strings THEN <<>> ELSE Fill(Size[column.type], 0))
write_key_arrays(layout, row, keys) ==
    FoldLeft(LAMBDA acc, c : Put(acc, layout.offsets[c], write_key(layout.columns[c], keys[c])),
             row, [c \in DOMAIN keys |-> c])

HeapKeys(layout, keys) == [h \in DOMAIN layout.heapkeys |-> keys[layout.heapkeys[h]]]

(* sort_key_encode: the fixed keys, and the strings again as rows.         *)
EncodeKeys(s, rows, p) ==
    FoldLeft(LAMBDA b, i : SetRow(b, p.rows[i], write_key_arrays(s.layout, RowAt(b, p.rows[i]), rows[i])),
             p.blocks, [i \in DOMAIN rows |-> i])
sort_key_encode(s, rows, memory) ==
    [s EXCEPT !.keys = EncodeKeys(s, rows, prepare_append(@, Len(rows), <<>>, memory))]

(* The error, or the store with its new blocks.                            *)
Appended(s, field, r) ==
    [store |-> IF r.failed THEN s ELSE [s EXCEPT ![field] = r.blocks], memory |-> r.memory, failed |-> r.failed]
AppendHeapKeys(s, rows, memory) ==
    append_arrays(s.layout.heap_layout, s.heap_keys, [i \in DOMAIN rows |-> HeapKeys(s.layout, rows[i])],
                  TRUE, memory)
AppendData(r, rows) ==
    IF r.failed THEN r
    ELSE Appended(r.store, "data", append_arrays(r.store.data_layout, r.store.data, rows, TRUE, r.memory))
append_unsorted_keys_and_data(s, rows, memory) ==
    AppendData(Appended(sort_key_encode(s, rows, memory), "heap_keys",
                        IF any_requires_heap(s.layout) THEN AppendHeapKeys(s, rows, memory)
                        ELSE [blocks |-> s.heap_keys, memory |-> memory, failed |-> FALSE]),
               rows)

-----------------------------------------------------------------------------
(* SortedBlock::sort_from_blocks.  An unstable sort may leave equal keys   *)
(* in either order: call.ties says which.                                  *)
SortedBy(rows, keys) ==
    LET before(i, j) == LexLess(keys[j], keys[i])
                        \/ (keys[j] = keys[i] /\ IF call.ties = "kept" THEN j < i ELSE j > i)
        places == Tuple([i \in DOMAIN rows |-> 1 + Cardinality({j \in DOMAIN rows : before(i, j)})])
    IN Tuple([n \in DOMAIN rows |-> rows[CHOOSE i \in DOMAIN rows : places[i] = n]])

(* Maximal runs of rows tied with the next: <<first, last>>.               *)
TiedRuns(ties) ==
    {r \in (1 .. Len(ties)) \X (2 .. Len(ties) + 1) :
        /\ r[1] < r[2] /\ \A i \in r[1] .. r[2] - 1 : ties[i]
        /\ r[1] > 1 => ~ties[r[1] - 1]
        /\ r[2] <= Len(ties) => ~ties[r[2]]}
RunOf(ties, i) == {r \in TiedRuns(ties) : r[1] <= i /\ i <= r[2]}

sort_keys_in_place(rows, offset, width) ==
    SortedBy(rows, Tuple([i \in DOMAIN rows |-> At(rows[i], offset, width)]))

(* Each run of ties is replaced by its rows in their new order.            *)
Rearranged(rows, ties, sorted) ==
    Tuple([i \in DOMAIN rows |-> IF RunOf(ties, i) = {} THEN rows[i]
                                 ELSE LET r == CHOOSE r \in RunOf(ties, i) : TRUE
                                      IN sorted[r][i - r[1] + 1]])
sort_tied_keys_in_place(rows, ties, offset, width) ==
    Rearranged(rows, ties,
               [r \in TiedRuns(ties) |-> sort_keys_in_place(SubSeq(rows, r[1], r[2]), offset, width)])

MutTiesForgotten(rows, ties, offset, width) ==
    Tuple([i \in DOMAIN ties |-> At(rows[i], offset, width) = At(rows[i + 1], offset, width)])
fill_ties(rows, ties, offset, width) ==
    Tuple([i \in DOMAIN ties |-> ties[i] /\ At(rows[i], offset, width) = At(rows[i + 1], offset, width)])

(* The row's number before sorting, at the end of its key.                 *)
read_inline_idx(layout, row) == row[layout.compare_width + 1]

(* The strings of column c; heap keys are not moved while keys are sorted. *)
HeapValues(layout, heapkeys, c, owned, memory) ==
    Tuple([i \in DOMAIN heapkeys |-> read_binary(layout.heap_layout, heapkeys[i], HeapColumn(layout, c), owned, memory)])

(* Descending order is the ascending one reversed: invert the bytes, and   *)
(* let a prefix come after its extensions.                                 *)
MutHeapAscending(column, bytes) == bytes
HeapOrder(column, bytes) ==
    IF column.desc THEN Tuple([i \in DOMAIN bytes |-> 255 - bytes[i]]) \o <<256>> ELSE bytes

sort_heap_keys(layout, rows, values, c) ==
    IF values[read_inline_idx(layout, rows[1])] = <<>> THEN rows
    ELSE SortedBy(rows, Tuple([i \in DOMAIN rows |->
             HeapOrder(layout.columns[c], values[read_inline_idx(layout, rows[i])][1])]))

sort_tied_heap_keys_in_place(layout, rows, heapkeys, ties, c, owned, memory) ==
    LET values == HeapValues(layout, heapkeys, c, owned, memory)
        moved == Rearranged(rows, ties,
                     [r \in TiedRuns(ties) |-> sort_heap_keys(layout, SubSeq(rows, r[1], r[2]), values, c)])
        valueOf(i) == values[read_inline_idx(layout, moved[i])]
    IN [rows |-> moved, ties |-> Tuple([i \in DOMAIN ties |-> ties[i] /\ valueOf(i) = valueOf(i + 1)])]

(* The loop over the columns; fixed columns are compared together.         *)
RECURSIVE sort_columns(_, _, _, _, _, _, _)
sort_columns(layout, s, heapkeys, c, first, owned, memory) ==
    LET last == Len(layout.columns)
        width == s.width + layout.widths[c]
        sorted == IF first THEN sort_keys_in_place(s.rows, s.offset, width)
                  ELSE sort_tied_keys_in_place(s.rows, s.ties, s.offset, width)
        ties == fill_ties(sorted, s.ties, s.offset, width)
        broken == IF column_requires_heap(layout, c)
                  THEN sort_tied_heap_keys_in_place(layout, sorted, heapkeys, ties, c, owned, memory)
                  ELSE [rows |-> sorted, ties |-> ties]
    IN IF c < last /\ ~column_requires_heap(layout, c)
       THEN sort_columns(layout, [s EXCEPT !.width = width], heapkeys, c + 1, first, owned, memory)
       ELSE IF (c = last /\ ~column_requires_heap(layout, c)) \/ \A i \in DOMAIN ties : ~ties[i] THEN sorted
       ELSE IF c = last \/ \A i \in DOMAIN ties : ~broken.ties[i] THEN broken.rows
       ELSE sort_columns(layout, [rows |-> broken.rows, ties |-> broken.ties, offset |-> s.offset + width, width |-> 0],
                         heapkeys, c + 1, FALSE, owned, memory)

(* The row's number is written behind its key.                             *)
WriteIndices(layout, rows) == Tuple([i \in DOMAIN rows |-> Put(rows[i], layout.compare_width, <<i, 0, 0, 0>>)])

apply_sort_indices(layout, rows, keys) == Tuple([i \in DOMAIN keys |-> rows[read_inline_idx(layout, keys[i])]])

SortedKeys(s, keys, heapkeys, memory) ==
    sort_columns(s.layout, [rows |-> keys, ties |-> [i \in 1 .. Len(keys) - 1 |-> TRUE], offset |-> 0, width |-> 0],
                 heapkeys, 1, TRUE, Owned(s.heap_keys), memory)
Hinted(rows) == IF call.hint # <<>> /\ call.hint[1] < Len(rows) THEN SubSeq(rows, 1, call.hint[1]) ELSE rows
SortedBlock(s, heapkeys, keys) ==
    [keys |-> keys,
     heap_keys |-> IF any_requires_heap(s.layout) THEN apply_sort_indices(s.layout, heapkeys, keys) ELSE <<>>,
     data |-> apply_sort_indices(s.layout, concat(s.data), keys),
     keys_heap |-> Owned(s.heap_keys), data_heap |-> Owned(s.data)]
sort_from_blocks(s, memory) ==
    LET heapkeys == concat(s.heap_keys)
    IN SortedBlock(s, heapkeys, Hinted(SortedKeys(s, WriteIndices(s.layout, concat(s.keys)), heapkeys, memory)))

take_blocks(b) == [b EXCEPT !.row_blocks = <<>>, !.heap_blocks = <<>>]
sort_unsorted(s, memory) ==
    IF RowCount(s.keys) = 0 THEN s
    ELSE [s EXCEPT !.sorted = Append(@, sort_from_blocks(s, memory)), !.keys = take_blocks(@),
                   !.heap_keys = take_blocks(@), !.data = take_blocks(@)]

-----------------------------------------------------------------------------
(* The comparison of the merge (find_merge_side): whole rows when there    *)
(* are no strings, else column by column with the strings behind ties.     *)
compare_heap_key(layout, l, i, r, j, c, memory) ==
    LET x == read_binary(layout.heap_layout, l.heap_keys[i], HeapColumn(layout, c), l.keys_heap, memory)
        y == read_binary(layout.heap_layout, r.heap_keys[j], HeapColumn(layout, c), r.keys_heap, memory)
    IN x # <<>> /\ y # <<>> /\ LexLess(HeapOrder(layout.columns[c], x[1]), HeapOrder(layout.columns[c], y[1]))

ColumnsEqual(layout, l, i, r, j, c, memory) ==
    /\ At(l.keys[i], layout.offsets[c], layout.widths[c]) = At(r.keys[j], layout.offsets[c], layout.widths[c])
    /\ column_requires_heap(layout, c) => ~compare_heap_key(layout, l, i, r, j, c, memory)
                                          /\ ~compare_heap_key(layout, r, j, l, i, c, memory)
LeftFirst(layout, l, i, r, j, memory) ==
    IF ~any_requires_heap(layout) THEN LexLess(l.keys[i], r.keys[j])
    ELSE \E c \in DOMAIN layout.columns :
            /\ \A d \in 1 .. c - 1 : ColumnsEqual(layout, l, i, r, j, d, memory)
            /\ LET x == At(l.keys[i], layout.offsets[c], layout.widths[c])
                   y == At(r.keys[j], layout.offsets[c], layout.widths[c])
               IN LexLess(x, y) \/ (x = y /\ column_requires_heap(layout, c)
                                    /\ compare_heap_key(layout, l, i, r, j, c, memory))

RECURSIVE Sides(_, _, _, _, _, _)
Sides(layout, l, i, r, j, memory) ==
    IF i > Len(l.keys) THEN [k \in 1 .. Len(r.keys) - j + 1 |-> <<"r", j + k - 1>>]
    ELSE IF j > Len(r.keys) THEN [k \in 1 .. Len(l.keys) - i + 1 |-> <<"l", i + k - 1>>]
    ELSE IF LeftFirst(layout, l, i, r, j, memory)
    THEN <<<<"l", i>>>> \o Sides(layout, l, i + 1, r, j, memory)
    ELSE <<<<"r", j>>>> \o Sides(layout, l, i, r, j + 1, memory)

merge(layout, l, r, memory) ==
    LET sides == Sides(layout, l, 1, r, 1, memory)
        pick(a, b) == [k \in DOMAIN sides |-> IF sides[k][1] = "l" THEN a[sides[k][2]] ELSE b[sides[k][2]]]
    IN [keys |-> pick(l.keys, r.keys),
        heap_keys |-> IF any_requires_heap(layout) THEN pick(l.heap_keys, r.heap_keys) ELSE <<>>,
        data |-> pick(l.data, r.data),
        keys_heap |-> l.keys_heap \cup r.keys_heap, data_heap |-> l.data_heap \cup r.data_heap]

-----------------------------------------------------------------------------
(* ORDER BY of batches of rows (kind "sort"), the rows of a join or an     *)
(* aggregate table (kind "collect", two collections merged into one), and  *)
(* aggregate states (kind "aggregate").                                    *)
NewSort(c) ==
    LET layout == SortLayout(c.columns)
        data == RowLayout([k \in DOMAIN c.columns |-> c.columns[k].type])
    IN [layout |-> layout, data_layout |-> data, sorted |-> <<>>,
        keys |-> NewBlocks(layout.row_width, 0, c.capacity),
        heap_keys |-> NewBlocks(layout.heap_layout.row_width, layout.heap_layout.validity_width, c.capacity),
        data |-> NewBlocks(data.row_width, data.validity_width, c.capacity)]
NewCollection(c) ==
    LET layout == RowLayout(c.types) blocks == NewBlocks(layout.row_width, layout.validity_width, c.capacity)
    IN [layout |-> layout, blocks |-> <<blocks, blocks>>, scan |-> full_scan(blocks), matches |-> <<>>]
NewAggregates(c) ==
    LET layout == AggregateLayout(c.types, c.aggregates)
    IN [layout |-> layout, groups |-> <<>>, states |-> <<>>,
        blocks |-> NewBlocks(layout.row_width, layout.groups.validity_width, c.capacity)]

Unsupported(c) == c.kind = "sort" /\ \E k \in DOMAIN c.columns : ~SortSupported(c.columns[k].type)

Init ==
    /\ call \in Calls
    /\ input = call.batches
    /\ heap = <<>> /\ out = <<>>
    /\ stage = IF Unsupported(call) THEN "failed" ELSE "open"
    /\ store = IF Unsupported(call) THEN <<>>
               ELSE CASE call.kind = "sort" -> NewSort(call)
                      [] call.kind = "collect" -> NewCollection(call)
                      [] OTHER -> NewAggregates(call)

(* The operator sorts what it holds when that exceeds the limit hint.      *)
Accept(r) ==
    IF r.failed THEN stage' = "failed" /\ UNCHANGED <<store, heap>>
    ELSE heap' = r.memory /\ store' = r.store /\ UNCHANGED stage
OverHint(s) == call.hint # <<>> /\ RowCount(s.keys) > call.hint[1]
Trimmed(r) == IF ~r.failed /\ OverHint(r.store) THEN [r EXCEPT !.store = sort_unsorted(@, r.memory)] ELSE r
AppendSort == Accept(Trimmed(append_unsorted_keys_and_data(store, Head(input).rows, heap)))
CollectedIn(to, p) ==
    [store |-> [store EXCEPT !.blocks[to] = p.blocks], memory |-> p.memory, failed |-> p.failed]
AppendCollection ==
    LET to == Head(input).to
    IN Accept(CollectedIn(to, append_arrays(store.layout, store.blocks[to], Head(input).rows, FALSE, heap)))
AppendGroups == Accept(append_groups(store, Head(input).rows, heap))

AppendBatch ==
    /\ stage = "open" /\ input # <<>>
    /\ input' = Tail(input)
    /\ CASE call.kind = "sort" -> AppendSort
         [] call.kind = "collect" -> AppendCollection
         [] OTHER -> AppendGroups
    /\ UNCHANGED <<call, out>>

merge_from(s) ==
    LET all == merge_blocks_from(s.blocks[1], s.blocks[2])
    IN [s EXCEPT !.blocks = <<all, take_blocks(s.blocks[2])>>, !.scan = full_scan(all)]

InputDone ==
    /\ stage = "open" /\ input = <<>>
    /\ CASE call.kind = "sort" -> stage' = "merge" /\ store' = sort_unsorted(store, heap) /\ UNCHANGED input
         [] call.kind = "collect" -> stage' = "scan" /\ store' = merge_from(store) /\ UNCHANGED input
         [] OTHER -> stage' = "update" /\ input' = call.updates /\ UNCHANGED store
    /\ UNCHANGED <<call, heap, out>>

MergeRuns ==
    /\ stage = "merge"
    /\ IF Len(store.sorted) < 2 THEN stage' = "scan" /\ UNCHANGED store
       ELSE /\ store' = [store EXCEPT !.sorted =
                            SubSeq(@, 3, Len(@)) \o <<merge(store.layout, @[1], @[2], heap)>>]
            /\ UNCHANGED stage
    /\ UNCHANGED <<call, input, heap, out>>

(* scan_data of the one run left, a batch at a time.                       *)
ScanSorted ==
    LET rows == IF store.sorted = <<>> THEN <<>> ELSE store.sorted[1].data
        count == Min({call.count, Len(rows) - Len(out)})
        every == [c \in DOMAIN call.columns |-> c]
    IN /\ stage = "scan" /\ call.kind = "sort"
       /\ IF count = 0 THEN stage' = "done" /\ UNCHANGED out
          ELSE /\ out' = out \o [i \in 1 .. count |->
                     read_arrays(store.data_layout, rows[Len(out) + i], every, store.sorted[1].data_heap, heap)]
               /\ UNCHANGED stage
       /\ UNCHANGED <<call, input, store, heap>>

ScanCollection ==
    LET b == store.blocks[1]
        s == scan_subset(b, store.scan, call.count)
    IN /\ stage = "scan" /\ call.kind = "collect"
       /\ store' = [store EXCEPT !.scan = s]
       /\ stage' = IF s.pointers = <<>> THEN "match" ELSE "scan"
       /\ out' = out \o [i \in DOMAIN s.pointers |->
                            read_arrays(store.layout, RowAt(b, s.pointers[i]), call.columns, Owned(b), heap)]
       /\ UNCHANGED <<call, input, heap>>

MatchRows ==
    LET b == store.blocks[1]
        pointers == scan_subset(b, full_scan(b), Len(call.probe)).pointers
    IN /\ stage = "match"
       /\ store' = [store EXCEPT !.matches =
                       <<find_matches(store.layout, b, pointers, call.ops, call.probe, heap)>>]
       /\ stage' = "done"
       /\ UNCHANGED <<call, input, heap, out>>

UpdateStates ==
    /\ stage = "update" /\ input # <<>>
    /\ store' = LET u == Head(input)
                IN IF u.from = 0 THEN update_states(store, store.groups[u.group], u.selection, u.inputs)
                   ELSE combine_states(store, u.selection, store.groups[u.from], store.groups[u.group])
    /\ input' = Tail(input)
    /\ UNCHANGED <<call, heap, out, stage>>

FinalizeGroups ==
    /\ stage = "update" /\ input = <<>>
    /\ out' = [g \in DOMAIN store.groups |->
                  read_arrays(store.layout.groups, RowAt(store.blocks, store.groups[g]),
                              [c \in DOMAIN call.types |-> c], Owned(store.blocks), heap)
                  \o finalize_states(store, store.groups[g])]
    /\ stage' = "done"
    /\ UNCHANGED <<call, input, store, heap>>

Next == AppendBatch \/ InputDone \/ MergeRuns \/ ScanSorted \/ ScanCollection \/ MatchRows
        \/ UpdateStates \/ FinalizeGroups
Spec == Init /\ [][Next]_vars

-----------------------------------------------------------------------------
AllRows == FlattenSeq([b \in DOMAIN call.batches |-> call.batches[b].rows])
AppendedTo(to) == FlattenSeq([b \in DOMAIN call.batches |->
                                 IF call.batches[b].to = to THEN call.batches[b].rows ELSE <<>>])

(* Reference: row x comes before row y in ORDER BY.                        *)
ColumnBefore(column, x, y) ==
    IF x = <<>> \/ y = <<>> THEN x # y /\ (x = <<>>) = column.nulls_first
    ELSE IF column.desc THEN ValueLess(column.type, y[1], x[1]) ELSE ValueLess(column.type, x[1], y[1])
Before(x, y) ==
    \E c \in DOMAIN call.columns :
        ColumnBefore(call.columns[c], x[c], y[c]) /\ \A d \in 1 .. c - 1 : x[d] = y[d]

TypeOK ==
    /\ stage \in {"open", "merge", "scan", "match", "update", "done", "failed"}
    /\ \A i \in DOMAIN heap : \A j \in DOMAIN heap[i] : heap[i][j] \in 0 .. 255

(* The bytes of the sort keys order rows as ORDER BY asks: the row         *)
(* returned at place i has fewer than i rows before it and at least i not  *)
(* after it, whatever the types, NULLS FIRST, DESC and ties, with strings  *)
(* longer than the prefix, in any number of blocks.  With a limit hint     *)
(* this holds for the rows the limit keeps.                                *)
OrderAsMeant ==
    stage = "done" /\ call.kind = "sort" =>
        LET total == Len(AllRows)
            wanted == IF call.hint = <<>> THEN total ELSE Min({call.hint[1], total})
        IN /\ Len(out) >= wanted /\ Len(out) <= total
           /\ \A i \in 1 .. wanted :
                 /\ out[i] \in Range(AllRows)
                 /\ Cardinality({j \in 1 .. total : Before(AllRows[j], out[i])}) < i
                 /\ i <= Cardinality({j \in 1 .. total : ~Before(out[i], AllRows[j])})

(* A collection returns the rows appended to it and merged into it, each   *)
(* once and in order; the matcher divides the probed rows into those for   *)
(* which every comparison holds and the others; an aggregate's state holds *)
(* what was given to that aggregate of that group and nothing else.        *)
GivenTo(group, a) ==
    LET updates == [u \in DOMAIN call.updates |-> call.updates[u]]
        counts == [k \in DOMAIN call.aggregates |-> call.aggregates[k].inputs]
        own(u) == IF updates[u].from = 0 /\ updates[u].group = group /\ a \in Range(updates[u].selection)
                  THEN <<SubSeq(updates[u].inputs, 1 + Total(SubSeq(counts, 1, a - 1)), Total(SubSeq(counts, 1, a)))>>
                  ELSE <<>>
    IN FlattenSeq([u \in DOMAIN updates |-> own(u)])
CombinedInto(group, a) ==
    FlattenSeq([u \in DOMAIN call.updates |->
        IF call.updates[u].from # 0 /\ call.updates[u].group = group /\ a \in Range(call.updates[u].selection)
        THEN GivenTo(call.updates[u].from, a) ELSE <<>>])
MatchMeant(i) ==
    \A c \in DOMAIN call.ops :
        LET l == (AppendedTo(1) \o AppendedTo(2))[i][c] r == call.probe[i][c]
        IN CASE call.ops[c] = "IsNotDistinctFrom" -> l = r
             [] call.ops[c] = "IsDistinctFrom" -> l # r
             [] call.ops[c] = "Eq" -> l = r /\ l # <<>>
             [] call.ops[c] = "NotEq" -> l # r /\ l # <<>> /\ r # <<>>
             [] OTHER -> /\ l # <<>> /\ r # <<>>
                         /\ \/ call.ops[c] \in {"LtEq", "GtEq"} /\ l = r
                            \/ call.ops[c] \in {"Lt", "LtEq"} /\ ValueLess(call.types[c], l[1], r[1])
                            \/ call.ops[c] \in {"Gt", "GtEq"} /\ ValueLess(call.types[c], r[1], l[1])
StorageAsMeant ==
    stage = "done" =>
        /\ call.kind = "collect" =>
              LET rows == AppendedTo(1) \o AppendedTo(2)
                  m == store.matches[1]
              IN /\ out = [i \in DOMAIN rows |-> [k \in DOMAIN call.columns |-> rows[i][call.columns[k]]]]
                 /\ Range(m.selection) = {i \in DOMAIN call.probe : MatchMeant(i)}
                 /\ Len(m.selection) + Len(m.not_matched) = Len(call.probe)
                 /\ Range(m.not_matched) = DOMAIN call.probe \ Range(m.selection)
        /\ call.kind = "aggregate" =>
              \A g \in DOMAIN out :
                  out[g] = AllRows[g] \o [a \in DOMAIN call.aggregates |-> GivenTo(g, a) \o CombinedInto(g, a)]
=============================================================================
