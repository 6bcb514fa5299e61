----------------------------- MODULE ParquetScan -----------------------------
(***************************************************************************)
(* read_parquet: the row groups of the first file and all other files are  *)
(* dealt out to the partitions.  A partition prunes row groups by their    *)
(* statistics, fetches the column chunks of the others in pieces, and      *)
(* decodes batches of at most OutCap rows, whose boundaries fall anywhere  *)
(* in the pages, the runs and the mini-blocks.                             *)
(*                                                                         *)
(* The bytes of a page are cells: an encoded integer, a packed value or a  *)
(* character each take one.  A chunk in a file is a sequence of pages.     *)
(***************************************************************************)
EXTENDS Integers, Sequences, FiniteSets, SequencesExt

CONSTANTS FileLists,     \* sequences of files, a file is a sequence of row groups
          Partitions,    \* number of partitions
          Filters,       \* constants column 1 is compared with; NoFilter is a member
          NoFilter, Null,
          OutCap,        \* rows of an output batch
          GroupSize,     \* values in a group of a literal run (8)
          MaxGroups,     \* MAX_GROUPS_PER_BIT_PACKED_RUN
          BlockSize,     \* deltas in a block
          MiniBlocks,    \* mini-blocks in a block
          HalfRange      \* integers are -HalfRange .. HalfRange - 1

VARIABLES files, filter, projection,
          bytes,         \* the pages of each file, as written
          partition,     \* the partition that is observed
          queue,         \* numbers of the files still to be opened
          state,         \* ReadState
          unit,          \* ScanUnit: file and row groups left
          group,         \* RowGroupState
          fetch,         \* FetchState
          position,      \* of the open file
          readers,       \* column readers, one for each projected column
          output         \* rows emitted
vars == <<files, filter, projection, bytes, partition, queue, state, unit, group, fetch, position,
          readers, output>>

Least(a, b) == IF a < b THEN a ELSE b
Wrap(n) == ((n + HalfRange) % (2 * HalfRange)) - HalfRange
From(s, i) == SubSeq(s, i, Len(s))
Valid(s) == SelectSeq(s, LAMBDA v : v # Null)
Total(s) == FoldLeft(LAMBDA a, b : a + b, 0, s)
PerMini == BlockSize \div MiniBlocks

-----------------------------------------------------------------------------
(* The encoders.  RleEncoder looks at a group of values: if it begins a    *)
(* run that fills the group, the packed groups so far and the run are      *)
(* written, otherwise it is packed, the last group with padding.  Values   *)
(* that are all the same are a run however few.                            *)
RunLength(s) == Max({n \in DOMAIN s : \A i \in 1 .. n : s[i] = s[1]})
BitPackedRun(packed) ==
    IF packed = <<>> THEN <<>> ELSE <<2 * (Len(packed) \div GroupSize) + 1>> \o packed
Padded(s) == [i \in 1 .. GroupSize |-> IF i \in DOMAIN s THEN s[i] ELSE 0]
RECURSIVE RlePut(_, _)
PutGroup(rest, packed) ==
    IF (Len(packed) \div GroupSize) + 1 >= MaxGroups
    THEN BitPackedRun(packed) \o RlePut(rest, <<>>) ELSE RlePut(rest, packed)
RlePut(s, packed) ==
    IF s = <<>> THEN BitPackedRun(packed)
    ELSE IF RunLength(s) >= GroupSize \/ (packed = <<>> /\ RunLength(s) = Len(s))
    THEN BitPackedRun(packed) \o <<2 * RunLength(s), s[1]>> \o RlePut(From(s, RunLength(s) + 1), <<>>)
    ELSE PutGroup(From(s, GroupSize + 1), packed \o Padded(s))
Rle(s) == RlePut(s, <<>>)

(* DeltaBitPackEncoder: the first value is in the header, and a block is   *)
(* written only for deltas.  A mini-block without deltas has width 0.      *)
Block(deltas) ==
    LET least == Min(Range(deltas))
        Over(m, i) == LET k == (m - 1) * PerMini + i
                      IN IF k \in DOMAIN deltas THEN deltas[k] - least ELSE 0
        Width(m) == IF \E i \in 1 .. PerMini : Over(m, i) # 0 THEN 1 ELSE 0
    IN <<least>> \o [m \in 1 .. MiniBlocks |-> Width(m)]
       \o FlattenSeq([m \in 1 .. MiniBlocks |->
              IF Width(m) = 0 THEN <<>> ELSE [i \in 1 .. PerMini |-> Over(m, i)]])
Delta(s) ==
    LET deltas == [i \in 1 .. Len(s) - 1 |-> Wrap(s[i + 1] - s[i])]
        blocks == (Len(deltas) + BlockSize - 1) \div BlockSize
    IN <<BlockSize, MiniBlocks, Len(s), IF s = <<>> THEN 0 ELSE s[1]>>
       \o FlattenSeq([b \in 1 .. blocks |->
              Block(SubSeq(deltas, (b - 1) * BlockSize + 1, Least(b * BlockSize, Len(deltas))))])
Lengths(s) == [i \in DOMAIN s |-> Len(s[i])]
SharedLengths(s) ==
    [i \in DOMAIN s |-> IF i = 1 THEN 0 ELSE
        Max({n \in 0 .. Least(Len(s[i - 1]), Len(s[i])) : IsPrefix(SubSeq(s[i], 1, n), s[i - 1])})]
Unshared(s) == [i \in DOMAIN s |-> From(s[i], SharedLengths(s)[i] + 1)]
LowByte(n) == (n + HalfRange) % 4
HighByte(n) == (n + HalfRange) \div 4

Body(encoding, s, dictionary) ==
    CASE encoding = "PLAIN" -> s
      [] encoding = "RLE" -> Rle(s)
      [] encoding = "DICTIONARY" -> Rle([i \in DOMAIN s |-> SelectInSeq(dictionary, LAMBDA v : v = s[i]) - 1])
      [] encoding = "DELTA_BINARY_PACKED" -> Delta(s)
      [] encoding = "DELTA_LENGTH_BYTE_ARRAY" -> Delta(Lengths(s)) \o FlattenSeq(s)
      [] encoding = "DELTA_BYTE_ARRAY" ->
            Delta(SharedLengths(s)) \o Delta(Lengths(Unshared(s))) \o FlattenSeq(Unshared(s))
      [] encoding = "BYTE_STREAM_SPLIT" ->
            [i \in DOMAIN s |-> LowByte(s[i])] \o [i \in DOMAIN s |-> HighByte(s[i])]

(* A column chunk is given as [optional, stats, pages], a page as          *)
(* [version, encoding, values].  Pages of version 2 have a stray byte of   *)
(* repetition levels.                                                      *)
ChunkValues(chunk) == FlattenSeq([i \in DOMAIN chunk.pages |-> chunk.pages[i].values])
DictionaryOf(chunk) == SetToSeq(Range(Valid(ChunkValues(chunk))))
Page(chunk, page) ==
    LET levels == Rle([i \in DOMAIN page.values |-> IF page.values[i] = Null THEN 0 ELSE 1])
        body == Body(page.encoding, Valid(page.values), DictionaryOf(chunk))
    IN [type |-> page.version, encoding |-> page.encoding, num_values |-> Len(page.values),
        def_len |-> IF chunk.optional THEN Len(levels) ELSE 0,
        cells |-> (CASE page.version = 2 -> <<0>> [] chunk.optional -> <<Len(levels)>> [] OTHER -> <<>>)
                  \o (IF chunk.optional THEN levels ELSE <<>>) \o body]
HasDictionary(chunk) == \E i \in DOMAIN chunk.pages : chunk.pages[i].encoding = "DICTIONARY"
Pages(chunk) ==
    (IF HasDictionary(chunk) THEN <<[type |-> 0, cells |-> DictionaryOf(chunk)]>> ELSE <<>>)
    \o [i \in DOMAIN chunk.pages |-> Page(chunk, chunk.pages[i])]
FilePages(file) ==
    FlattenSeq([g \in DOMAIN file |-> FlattenSeq([c \in DOMAIN file[g] |-> Pages(file[g][c])])])
NumRows(f, g) == Total([i \in DOMAIN files[f][g][1].pages |-> Len(files[f][g][1].pages[i].values)])

-----------------------------------------------------------------------------
(* RleBitPackedDecoder.  A cell past the end has any value (here 0);       *)
(* InBounds says that none is read.                                        *)
Cell(d) == IF d.at \in DOMAIN d.cells THEN d.cells[d.at] ELSE 0
Skip(d, n) == [d EXCEPT !.at = @ + n]
NewRle(cells) ==
    [cells |-> cells, at |-> 1, curr_val |-> 0, rle_left |-> 0, bit_packed_left |-> 0]
ReadNextRun(d) ==
    IF Cell(d) % 2 = 1 THEN [Skip(d, 1) EXCEPT !.bit_packed_left = (Cell(d) \div 2) * GroupSize]
    ELSE [Skip(d, 2) EXCEPT !.rle_left = Cell(d) \div 2, !.curr_val = Cell(Skip(d, 1))]
TakeOfRun(d) ==
    IF d.rle_left > 0 THEN [dec |-> [d EXCEPT !.rle_left = @ - 1], value |-> d.curr_val]
    ELSE [dec |-> [Skip(d, 1) EXCEPT !.bit_packed_left = @ - 1], value |-> Cell(d)]
RleNext(d) == TakeOfRun(IF d.rle_left + d.bit_packed_left = 0 THEN ReadNextRun(d) ELSE d)
Pushed(values, next) == [dec |-> next.dec, values |-> Append(values, next.value)]
RleRead(d, n) ==
    LET after[i \in 0 .. n] ==
            IF i = 0 THEN [dec |-> d, values |-> <<>>]
            ELSE LET before == after[i - 1] IN Pushed(before.values, RleNext(before.dec))
    IN after[n]

(* DeltaBinaryPackedValueDecoder.                                          *)
LoadNextBlock(d) ==
    [Skip(d, 1 + d.mini_block_count) EXCEPT
        !.min_delta = Cell(d),
        !.widths = [m \in DOMAIN @ |-> Cell(Skip(d, m))],
        !.mini_block_idx = 0, !.mini_block_value_idx = 0]
NewDelta(cells) ==
    LET d == [cells |-> cells, at |-> 5, mini_block_count |-> cells[2], total_values |-> cells[3],
              values_remaining |-> IF cells[3] = 0 THEN 0 ELSE cells[3] - 1,
              values_per_mini_block |-> cells[1] \div cells[2],
              widths |-> [m \in 1 .. cells[2] |-> 0], mini_block_idx |-> 0,
              mini_block_value_idx |-> 0, min_delta |-> 0, prev_value |-> cells[4]]
    IN IF d.total_values > 0 THEN LoadNextBlock(d) ELSE d
MutPacked(d) == Cell(d)
Packed(d) == IF d.widths[d.mini_block_idx + 1] = 0 THEN 0 ELSE Cell(d)
TakeDelta(d) ==
    LET end == d.mini_block_value_idx + 1 >= d.values_per_mini_block
    IN [Skip(d, IF d.widths[d.mini_block_idx + 1] = 0 THEN 0 ELSE 1) EXCEPT
            !.prev_value = Wrap(Wrap(Packed(d) + d.min_delta) + d.prev_value),
            !.values_remaining = @ - 1,
            !.mini_block_idx = IF end THEN @ + 1 ELSE @,
            !.mini_block_value_idx = IF end THEN 0 ELSE @ + 1]
DeltaNext(d) ==
    TakeDelta(IF \/ d.mini_block_value_idx >= d.values_per_mini_block
                 \/ d.mini_block_idx >= d.mini_block_count THEN LoadNextBlock(d) ELSE d)
PushedDelta(values, d) == [dec |-> d, values |-> Append(values, d.prev_value)]
DeltaRead(d, n) ==
    LET after[i \in 1 .. n] ==
            IF i = 1 THEN PushedDelta(<<>>, d)
            ELSE LET r == after[i - 1]
                 IN IF r.dec.values_remaining = 0 THEN [r EXCEPT !.values = Append(@, 0)]
                    ELSE PushedDelta(r.values, DeltaNext(r.dec))
    IN IF n = 0 THEN [dec |-> d, values |-> <<>>] ELSE after[n]
MutTryIntoCursor(d) == From(d.cells, d.at)
TryIntoCursor(d) ==
    From(d.cells, d.at + IF d.widths[d.mini_block_idx + 1] = 0 THEN 0
                         ELSE d.values_per_mini_block - d.mini_block_value_idx)
(* Reads all values; the width of a mini-block past the last is a panic.   *)
LengthsOf(r) ==
    [values |-> r.values, ok |-> r.dec.mini_block_idx < r.dec.mini_block_count,
     rest |-> IF r.dec.mini_block_idx < r.dec.mini_block_count THEN TryIntoCursor(r.dec) ELSE <<>>]
ReadAll(d) == DeltaRead(d, d.total_values)
ReadLengths(cells) == LengthsOf(ReadAll(NewDelta(cells)))

-----------------------------------------------------------------------------
(* PageReader::init_page_decoder.  "error" stands for an error or a panic. *)
NewBytes(cells) == [cells |-> cells, at |-> 1]
NewDeltaLength(l) ==
    IF l.ok /\ Total(l.values) = Len(l.rest)
    THEN NewBytes(l.rest) @@ [suffixes |-> l.values, idx |-> 1]
    ELSE NewBytes(<<>>) @@ [suffixes |-> "error"]
NewPrefixed(p, s) ==
    IF p.ok /\ s.ok /\ Len(p.values) = Len(s.values)
    THEN NewBytes(s.rest) @@ [prefixes |-> p.values, suffixes |-> s.values, idx |-> 1, val_buf |-> <<>>]
    ELSE NewBytes(<<>>) @@ [suffixes |-> "error"]
NewDeltaByteArray(p) == NewPrefixed(p, ReadLengths(p.rest))
InitPageDecoder(encoding, cells) ==
    [kind |-> encoding] @@
    CASE encoding = "PLAIN" -> NewBytes(cells)
      [] encoding \in {"RLE", "DICTIONARY"} -> NewRle(cells)
      [] encoding = "DELTA_BINARY_PACKED" -> NewDelta(cells)
      [] encoding = "DELTA_LENGTH_BYTE_ARRAY" ->
            NewDeltaLength(ReadLengths(cells))
      [] encoding = "DELTA_BYTE_ARRAY" -> NewDeltaByteArray(ReadLengths(cells))
      [] encoding = "BYTE_STREAM_SPLIT" -> NewBytes(cells)
IsError(d) == "suffixes" \in DOMAIN d /\ d.suffixes = "error"

(* The next value of the decoders that read them one by one.               *)
MutKept(d) == <<>>
Kept(d) == SubSeq(d.val_buf, 1, Least(d.prefixes[d.idx], Len(d.val_buf)))
NextValue(d) ==
    CASE d.kind = "PLAIN" -> [dec |-> Skip(d, 1), value |-> Cell(d)]
      [] d.kind = "DELTA_LENGTH_BYTE_ARRAY" ->
            [dec |-> [Skip(d, d.suffixes[d.idx]) EXCEPT !.idx = @ + 1],
             value |-> SubSeq(d.cells, d.at, d.at + d.suffixes[d.idx] - 1)]
      [] d.kind = "DELTA_BYTE_ARRAY" ->
            LET v == Kept(d) \o SubSeq(d.cells, d.at, d.at + d.suffixes[d.idx] - 1)
            IN [dec |-> [Skip(d, d.suffixes[d.idx]) EXCEPT !.idx = @ + 1, !.val_buf = v], value |-> v]
      [] d.kind = "BYTE_STREAM_SPLIT" ->
            [dec |-> Skip(d, 1),
             value |-> Cell(d) + 4 * Cell(Skip(d, Len(d.cells) \div 2)) - HalfRange]
ReadEach(d, n) ==
    LET after[i \in 0 .. n] ==
            IF i = 0 THEN [dec |-> d, values |-> <<>>]
            ELSE LET before == after[i - 1] IN Pushed(before.values, NextValue(before.dec))
    IN after[n]
Looked(r, dictionary) == [r EXCEPT !.values = [i \in DOMAIN @ |-> dictionary[r.values[i] + 1]]]
Decode(d, dictionary, n) ==
    CASE d.kind = "RLE" -> RleRead(d, n)
      [] d.kind = "DICTIONARY" -> Looked(RleRead(d, n), dictionary)
      [] d.kind = "DELTA_BINARY_PACKED" -> DeltaRead(d, n)
      [] OTHER -> ReadEach(d, n)

-----------------------------------------------------------------------------
(* PageReader and ValueColumnReader.                                       *)
NewReader ==
    [chunk |-> <<>>, chunk_offset |-> 0, optional |-> FALSE, remaining |-> 0,
     definitions |-> NewRle(<<>>), decoder |-> [kind |-> "none"], dictionary |-> <<>>,
     past |-> FALSE]   \* the cursor was moved past the end
MutPrepareForChunk(r) == [r EXCEPT !.chunk = <<>>]
PrepareForChunk(r) == [r EXCEPT !.chunk = <<>>, !.chunk_offset = 0]

PrepareDataPage(r, page) ==
    LET start == CASE page.type = 2 -> 2 [] r.optional -> 2 [] OTHER -> 1
        def_len == IF page.type = 2 \/ ~r.optional THEN page.def_len ELSE page.cells[1]
    IN [r EXCEPT
        !.remaining = page.num_values,
        !.definitions = NewRle(SubSeq(page.cells, start, start + def_len - 1)),
        !.decoder = InitPageDecoder(page.encoding, From(page.cells, start + def_len))]
MarkPast(r) == [r EXCEPT !.past = @ \/ r.decoder.at > Len(r.decoder.cells) + 1]
PrepareNext(r) ==
    LET page == r.chunk[r.chunk_offset + 1]
        next == [r EXCEPT !.chunk_offset = @ + 1]
    IN IF page.type = 0 THEN [next EXCEPT !.dictionary = page.cells]
       ELSE MarkPast(PrepareDataPage(next, page))

(* Puts the values read where the levels have no NULL.                     *)
Place(levels, values) ==
    [i \in DOMAIN levels |->
        IF levels[i] = 0 THEN Null ELSE values[Total(SubSeq(levels, 1, i))]]

Levels(r, count) ==
    IF r.optional THEN RleRead(r.definitions, count)
    ELSE [dec |-> r.definitions, values |-> [i \in 1 .. count |-> 1]]
ReadInto(r, defs, read) ==
    [reader |-> [r EXCEPT !.remaining = @ - Len(defs.values), !.definitions = defs.dec,
                          !.decoder = read.dec],
     values |-> Place(defs.values, read.values)]
ReadLevels(r, defs) == ReadInto(r, defs, Decode(r.decoder, r.dictionary, Total(defs.values)))

RECURSIVE ReadColumn(_, _, _)
ReadRest(r, n, out) == ReadColumn(r.reader, n - Len(r.values), out \o r.values)
ReadColumn(r, n, out) ==
    IF n = 0 THEN [reader |-> r, out |-> out, ok |-> TRUE]
    ELSE IF r.remaining = 0
    THEN IF r.chunk_offset >= Len(r.chunk) THEN [reader |-> r, out |-> out, ok |-> FALSE]
         ELSE ReadColumn(PrepareNext(r), n, out)
    ELSE IF IsError(r.decoder) THEN [reader |-> r, out |-> out, ok |-> FALSE]
    ELSE ReadRest(ReadLevels(r, Levels(r, Least(n, r.remaining))), n, out)

-----------------------------------------------------------------------------
(* create_pull_partition_states: the row groups of the first file, and the *)
(* other files, round robin.                                               *)
MutRowStart(f, g) == 0
RowStart(f, g) == Total([i \in 1 .. g - 1 |-> NumRows(f, i)])
ScanRowGroups(f) == [g \in DOMAIN files[f] |-> [idx |-> g, start |-> RowStart(f, g)]]
GroupsOf(p) == SelectSeq(ScanRowGroups(1), LAMBDA g : (g.idx - 1) % Partitions = p)
MutFilesOf(p) == SelectSeq([i \in 1 .. Len(files) |-> i], LAMBDA i : (i - 1) % Partitions = p)
FilesOf(p) == SelectSeq([i \in 1 .. Len(files) |-> i], LAMBDA i : i > 1 /\ (i - 2) % Partitions = p)

NoGroup == [idx |-> 1, remaining |-> 0, offset |-> 0]
Init ==
    /\ files \in FileLists
    /\ projection \in {<<c>> : c \in DOMAIN files[1][1]} \cup {<<>>, [c \in DOMAIN files[1][1] |-> c]}
    /\ filter \in IF 1 \in Range(projection) THEN Filters ELSE {NoFilter}
    /\ bytes = FoldLeft(LAMBDA b, file : Append(b, FilePages(file)), <<>>, files)
    /\ partition \in 0 .. Partitions - 1
    /\ queue = FilesOf(partition)
    /\ state = "opening"
    /\ unit = [file |-> 1, row_groups |-> GroupsOf(partition)]
    /\ group = NoGroup
    /\ fetch = [state |-> "needs", column_idx |-> 1]
    /\ position = 1
    /\ readers = [i \in DOMAIN projection |-> NewReader]
    /\ output = <<>>

Column(f, g, i) == files[f][g][projection[i]]

(* The open future is done: Reader::prepare.                               *)
Open ==
    /\ state = "opening"
    /\ state' = "scanning" /\ group' = NoGroup
    /\ fetch' = [state |-> "needs", column_idx |-> 1]
    /\ position' = 1
    /\ readers' = [i \in DOMAIN readers |->
                      [readers[i] EXCEPT !.optional = Column(unit.file, 1, i).optional]]
    /\ UNCHANGED <<files, filter, projection, bytes, partition, queue, unit, output>>

(* PrimitiveRowGroupPruner::should_prune, on the first column.             *)
Outside(least, most, constant) == least > constant \/ most < constant
ShouldPrune(g) ==
    /\ filter \notin {NoFilter, Null}
    /\ LET chunk == files[unit.file][g][1]
           values == Range(Valid(ChunkValues(chunk)))
       IN chunk.stats /\ values # {} /\ Outside(Min(values), Max(values), filter)

NextGroup ==
    /\ state = "scanning" /\ group.remaining = 0 /\ unit.row_groups # <<>>
    /\ unit' = [unit EXCEPT !.row_groups = Tail(@)]
    /\ LET next == Head(unit.row_groups)
       IN IF ShouldPrune(next.idx) THEN UNCHANGED <<group, fetch>>
          ELSE /\ group' = [idx |-> next.idx, remaining |-> NumRows(unit.file, next.idx),
                            offset |-> next.start]
               /\ fetch' = [state |-> "needs", column_idx |-> 1]
    /\ UNCHANGED <<files, filter, projection, bytes, partition, queue, state, position, readers, output>>
NextFile ==
    /\ state = "scanning" /\ group.remaining = 0 /\ unit.row_groups = <<>>
    /\ IF queue = <<>> THEN state' = "exhausted" /\ UNCHANGED <<queue, unit>>
       ELSE /\ state' = "opening" /\ queue' = Tail(queue)
            /\ unit' = [file |-> Head(queue), row_groups |-> ScanRowGroups(Head(queue))]
    /\ UNCHANGED <<files, filter, projection, bytes, partition, group, fetch, position, readers, output>>

(* poll_fetch: seek to the chunk of a column, then read it in pieces.      *)
ByteRange(f, g, c) ==
    LET Size(chunk) == Len(chunk.pages) + IF HasDictionary(chunk) THEN 1 ELSE 0
        before == Total([i \in 1 .. g - 1 |-> Total([k \in DOMAIN files[f][i] |-> Size(files[f][i][k])])])
                  + Total([k \in 1 .. c - 1 |-> Size(files[f][g][k])])
    IN [start |-> before + 1, len |-> Size(files[f][g][c])]
ChunkRange == ByteRange(unit.file, group.idx, projection[fetch.column_idx])
MutSeek == position
Seek == ChunkRange.start
NeedsFetch ==
    /\ state = "scanning" /\ group.remaining > 0 /\ fetch.state = "needs"
    /\ IF readers = <<>>
       THEN fetch' = [state |-> "fetched"] /\ UNCHANGED <<position, readers>>
       ELSE /\ readers' = [readers EXCEPT ![fetch.column_idx] = PrepareForChunk(@)]
            /\ position' = Seek
            /\ fetch' = [state |-> "fetching", column_idx |-> fetch.column_idx]
    /\ UNCHANGED <<files, filter, projection, bytes, partition, queue, state, unit, group, output>>
Fetching ==
    /\ state = "scanning" /\ fetch.state = "fetching"
    /\ LET c == fetch.column_idx
           left == ChunkRange.len - Len(readers[c].chunk)
       IN \E n \in 1 .. left :
            /\ readers' = [readers EXCEPT ![c].chunk =
                              @ \o SubSeq(bytes[unit.file], position, position + n - 1)]
            /\ position' = position + n
            /\ fetch' = CASE n < left -> fetch
                          [] c = Len(readers) -> [state |-> "fetched"]
                          [] OTHER -> [state |-> "needs", column_idx |-> c + 1]
    /\ UNCHANGED <<files, filter, projection, bytes, partition, queue, state, unit, group, output>>

(* Decodes the next rows of all columns, with _rowid and _filename.  What  *)
(* lies past the end of a page may be refused as a number that is too      *)
(* large; otherwise nothing uses it.                                       *)
Offset(count) == group.offset + count
Scan ==
    /\ state = "scanning" /\ group.remaining > 0 /\ fetch.state = "fetched"
    /\ \E count \in {Least(group.remaining, OutCap)} :
       \E read \in {[i \in DOMAIN readers |->
                       ReadColumn([readers[i] EXCEPT !.past = FALSE], count, <<>>)]} :
          \/ /\ \E i \in DOMAIN read : ~read[i].ok \/ read[i].reader.past
             /\ state' = "error" /\ UNCHANGED <<readers, group, output>>
          \/ /\ \A i \in DOMAIN read : read[i].ok
             /\ readers' = [i \in DOMAIN read |-> read[i].reader]
             /\ output' = output \o [k \in 1 .. count |->
                    [file |-> unit.file, rowid |-> group.offset + k - 1,
                     values |-> [i \in DOMAIN read |-> read[i].out[k]]]]
             /\ group' = [group EXCEPT !.remaining = @ - count, !.offset = Offset(count)]
             /\ UNCHANGED state
    /\ UNCHANGED <<files, filter, projection, bytes, partition, queue, unit, fetch, position>>

Done == state \in {"exhausted", "error"} /\ UNCHANGED vars

Next == Open \/ NextGroup \/ NextFile \/ NeedsFetch \/ Fetching \/ Scan \/ Done
Spec == Init /\ [][Next]_vars

-----------------------------------------------------------------------------
TypeOK ==
    /\ state \in {"opening", "scanning", "exhausted", "error"}
    /\ fetch.state \in {"needs", "fetching", "fetched"}
    /\ group.remaining \in Nat /\ group.offset \in Nat
    /\ \A i \in DOMAIN readers : readers[i].chunk_offset <= Len(readers[i].chunk)

(* Two pages at the boundary of a block.  If the lengths of strings fill   *)
(* their last block, try_into_cursor asks for the width of a mini-block    *)
(* past the last and panics.  A page with one value has no block, yet      *)
(* try_new loads one.                                                      *)
InGroup(encodings, Edge(_)) ==
    \E c \in Range(projection) : \E page \in Range(files[unit.file][group.idx][c].pages) :
        page.encoding \in encodings /\ Edge(Len(Valid(page.values)))
FillsBlocks ==
    InGroup({"DELTA_LENGTH_BYTE_ARRAY", "DELTA_BYTE_ARRAY"},
            LAMBDA n : n > 1 /\ (n - 1) % BlockSize = 0)
HasNoBlock == InGroup({"DELTA_BINARY_PACKED"}, LAMBDA n : n = 1)

(* No decoder's cursor is moved past the end of its buffer, which the      *)
(* unchecked reads of ReadCursor rely on, except by the header of the      *)
(* block a page with one value does not have.                              *)
InBounds ==
    \A i \in DOMAIN readers :
        LET d == readers[i].decoder
        IN /\ readers[i].definitions.at <= Len(readers[i].definitions.cells) + 1
           /\ d.kind # "none" /\ d.at > Len(d.cells) + 1 =>
                 d.kind = "DELTA_BINARY_PACKED" /\ d.total_values = 1
           /\ state = "scanning" /\ readers[i].past => HasNoBlock

(* The rows of the files of this partition, by file and row id.            *)
FileValues(f, c) == FlattenSeq([g \in DOMAIN files[f] |-> ChunkValues(files[f][g][c])])
StoredRow(f, i) == [file |-> f, rowid |-> i - 1,
                    values |-> [k \in DOMAIN projection |-> FileValues(f, projection[k])[i]]]
Mine(f, i) ==
    IF f > 1 THEN f \in Range(FilesOf(partition))
    ELSE \E g \in Range(GroupsOf(partition)) : i - 1 \in g.start .. g.start + NumRows(f, g.idx) - 1
Matches(f, i) == filter = NoFilter \/ (filter # Null /\ FileValues(f, 1)[i] = filter)

(* However pages, runs, blocks, reads and batches fall, every row emitted  *)
(* is the row stored under its row id ("relative to the entire file"), no  *)
(* row comes twice, every row that satisfies the filter comes, and every   *)
(* row group and file belongs to one partition.  Only a page at the        *)
(* boundary of a block makes a scan fail: always if lengths fill one, and  *)
(* perhaps if there is none.                                               *)
RowsAsStored ==
    /\ state = "error" => FillsBlocks \/ HasNoBlock
    /\ output # <<>> /\ Last(output).file = unit.file => ~FillsBlocks
    /\ state = "exhausted" =>
        /\ \A k \in DOMAIN output : output[k] = StoredRow(output[k].file, output[k].rowid + 1)
        /\ \A k \in 2 .. Len(output) :
               \/ output[k - 1].file < output[k].file
               \/ output[k - 1].file = output[k].file /\ output[k - 1].rowid < output[k].rowid
        /\ \A f \in DOMAIN files : \A i \in 1 .. Len(FileValues(f, 1)) :
               Mine(f, i) /\ Matches(f, i) =>
                   \E k \in DOMAIN output : output[k].file = f /\ output[k].rowid = i - 1
        /\ \A f \in DOMAIN files :
               Cardinality({p \in 0 .. Partitions - 1 : f \in Range(FilesOf(p))}) = IF f = 1 THEN 0 ELSE 1
=============================================================================
