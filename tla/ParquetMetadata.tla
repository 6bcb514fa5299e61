-------------------------- MODULE ParquetMetadata --------------------------
(***************************************************************************)
(* The footer of a Parquet file in memory, and the table functions that    *)
(* return it: file_metadata, rowgroup_metadata and column_metadata.        *)
(*                                                                         *)
(* MetaDataLoader turns the Thrift structures into row groups, chunks and  *)
(* statistics, and to_thrift turns them back.  A table function gives each *)
(* partition every n-th file; a partition opens its files one after the    *)
(* other, each with a fresh scan state, and fills batches from it.         *)
(*                                                                         *)
(* An option is <<>> or a tuple of one.  The sizes and offsets of a chunk, *)
(* which are only carried along, are one value.                            *)
(***************************************************************************)
EXTENDS Integers, Sequences, FiniteSets, SequencesExt

CONSTANTS
  Partitions,   \* partitions of the scan
  Capacity      \* rows of an output batch

VARIABLES
  files,    \* the footers, as Thrift structures
  table,    \* the table function that is called
  part,     \* per partition: the queue, the read state and the scan state
  rows      \* per partition: the rows it returned

vars == <<files, table, part, rows>>

Tables == {"file", "rowgroup", "column"}

Ok(v) == [tag |-> "ok", val |-> v]
Err == [tag |-> "error", val |-> <<>>]
Panic == [tag |-> "panic", val |-> <<>>]

\* The first failure of a sequence of results, or all their values.
Collected(results) ==
  LET failed == {i \in DOMAIN results : results[i].tag # "ok"}
  IN  IF failed = {} THEN Ok([i \in DOMAIN results |-> results[i].val])
      ELSE results[CHOOSE i \in failed : \A j \in failed : i <= j]

unwrap_or(o, default) == IF o = <<>> THEN default ELSE o[1]

(***************************************************************************)
(* statistics.rs                                                           *)
(***************************************************************************)
\* A min or max with fewer bytes than the physical type has.
Short == -1

FixedWidth == {"BOOLEAN", "INT32", "INT64", "INT96", "FLOAT", "DOUBLE"}

old_format(s) == s.min_value = <<>> /\ s.max_value = <<>>

StatisticsFromThrift(physical, s) ==
  LET min == IF old_format(s) THEN s.min ELSE s.min_value
      max == IF old_format(s) THEN s.max ELSE s.max_value
      fixed == physical \in FixedWidth
  IN  IF unwrap_or(s.null_count, 0) < 0 THEN Err
      ELSE IF fixed /\ Short \in Range(min \o max) THEN Panic
      ELSE Ok([physical |-> physical, min |-> min, max |-> max,
               distinct_count |-> s.distinct_count, null_count |-> unwrap_or(s.null_count, 0),
               is_min_value_exact |-> IF fixed THEN min # <<>>
                                      ELSE unwrap_or(s.is_min_value_exact, FALSE),
               is_max_value_exact |-> IF fixed THEN max # <<>>
                                      ELSE unwrap_or(s.is_max_value_exact, FALSE),
               is_min_max_deprecated |-> old_format(s)])

StatisticsToThrift(s) ==
  LET both == s.min # <<>> /\ s.max # <<>>
      min == IF both THEN s.min ELSE <<>>
      max == IF both THEN s.max ELSE <<>>
  IN  [null_count |-> IF s.null_count > 0 THEN <<s.null_count>> ELSE <<>>,
       distinct_count |-> s.distinct_count,
       min |-> IF s.is_min_max_deprecated THEN min ELSE <<>>,
       max |-> IF s.is_min_max_deprecated THEN max ELSE <<>>,
       min_value |-> IF s.is_min_max_deprecated THEN <<>> ELSE min,
       max_value |-> IF s.is_min_max_deprecated THEN <<>> ELSE max,
       is_min_value_exact |-> IF both THEN <<s.is_min_value_exact>> ELSE <<>>,
       is_max_value_exact |-> IF both THEN <<s.is_max_value_exact>> ELSE <<>>]

(***************************************************************************)
(* page_encoding_stats.rs and the column chunks.                           *)
(***************************************************************************)
PhysicalTypes == FixedWidth \cup {"BYTE_ARRAY", "FIXED_LEN_BYTE_ARRAY"}
Encodings == {"PLAIN", "RLE_DICTIONARY"}
Codecs == {"UNCOMPRESSED", "SNAPPY"}
PageTypes == {"DATA_PAGE", "DICTIONARY_PAGE"}

PageEncodingStats(e) ==
  IF e.page_type \in PageTypes /\ e.encoding \in Encodings THEN Ok(e) ELSE Err

OptionOf(o) == IF o.tag = "ok" THEN Ok(<<o.val>>) ELSE o

ChunkFromThrift(descr, c) ==
  LET stats == IF c.statistics = <<>> THEN Ok(<<>>)
               ELSE OptionOf(StatisticsFromThrift(c.type, c.statistics[1]))
      pages == IF c.encoding_stats = <<>> THEN Ok(<<>>)
               ELSE OptionOf(Collected([i \in DOMAIN c.encoding_stats[1] |->
                                          PageEncodingStats(c.encoding_stats[1][i])]))
  IN  IF ~c.meta_data \/ c.type \notin PhysicalTypes
         \/ ~(Range(c.encodings) \subseteq Encodings) \/ c.codec \notin Codecs
      THEN Err
      ELSE IF stats.tag # "ok" THEN stats
      ELSE IF pages.tag # "ok" THEN pages
      ELSE Ok([column_descr |-> descr, encodings |-> c.encodings, compression |-> c.codec,
               places |-> c.places, statistics |-> stats.val, encoding_stats |-> pages.val])

ChunkToThrift(c) ==
  [meta_data |-> TRUE, type |-> c.column_descr, encodings |-> c.encodings,
   codec |-> c.compression, places |-> c.places,
   statistics |-> IF c.statistics = <<>> THEN <<>> ELSE <<StatisticsToThrift(c.statistics[1])>>,
   encoding_stats |-> c.encoding_stats]

RowGroupFromThrift(schema, rg) ==
  LET columns == Collected([i \in DOMAIN rg.columns |->
                              ChunkFromThrift(schema[i], rg.columns[i])])
  IN  IF Len(schema) # Len(rg.columns) THEN Err
      ELSE IF columns.tag # "ok" THEN columns
      ELSE Ok([rg EXCEPT !.columns = columns.val])

RowGroupToThrift(rg) ==
  [rg EXCEPT !.columns = [i \in DOMAIN rg.columns |-> ChunkToThrift(rg.columns[i])]]

(***************************************************************************)
(* loader.rs.  The schema is its columns' physical types.                  *)
(***************************************************************************)
decode_metadata(f) ==
  LET groups == Collected([i \in DOMAIN f.row_groups |->
                             RowGroupFromThrift(f.schema, f.row_groups[i])])
  IN  IF groups.tag # "ok" THEN groups
      ELSE IF f.column_orders # <<>> /\ f.column_orders[1] # Len(f.schema) THEN Err
      ELSE Ok([schema |-> f.schema, row_groups |-> groups.val,
               column_orders |-> f.column_orders])

\* What the file holds around the metadata: its size, and the two halves of its
\* last eight bytes.
MetadataLength == 20

encode_metadata(m) ==
  [schema |-> m.schema, column_orders |-> m.column_orders,
   size |-> MetadataLength + 12, length |-> "all", magic |-> "PAR1",
   row_groups |-> [i \in DOMAIN m.row_groups |-> RowGroupToThrift(m.row_groups[i])]]

\* Without the magic at both ends and a length a file is too small.
FOOTER_SIZE == 8
MIN_FILE_SIZE == 12

\* The bytes that a length asks for.
Bytes(length) == IF length = "all" THEN MetadataLength ELSE 2 * MetadataLength

\* The last eight bytes are the length of the metadata and the magic.  The test
\* for an encrypted file looks for its magic where the length is, so that such
\* a file is reported as corrupt.  A length that reaches before the beginning
\* of the file cannot be sought to.
load_from_file(f) ==
  IF f.size < MIN_FILE_SIZE \/ f.length = "PARE" \/ f.magic # "PAR1" THEN Err
  ELSE IF Bytes(f.length) + FOOTER_SIZE > f.size THEN Err
  ELSE decode_metadata(f)

(***************************************************************************)
(* functions/metadata.rs: MetadataTable::scan.  The scan state of a file   *)
(* is its row group and column offsets; a scan returns the rows of one     *)
(* batch and the state after it.                                           *)
(***************************************************************************)
NewState == [row_group_offset |-> 0, column_offset |-> 0]

Row(f, rg, column) == <<f, rg, column>>

ScanFile(f, m, s) ==
  IF s.row_group_offset > 0 THEN [rows |-> <<>>, state |-> s]
  ELSE [rows |-> <<Row(f, Len(m.row_groups), 0)>>, state |-> [s EXCEPT !.row_group_offset = 1]]

Least(a, b) == IF a < b THEN a ELSE b

ScanRowGroups(f, m, s) ==
  LET count == Least(Capacity, Len(m.row_groups) - s.row_group_offset)
  IN  [rows |-> [i \in 1..count |-> Row(f, s.row_group_offset + i,
                                        Len(m.row_groups[s.row_group_offset + i].columns))],
       state |-> [s EXCEPT !.row_group_offset = @ + count]]

MutColumnKept(s) == [s EXCEPT !.row_group_offset = @ + 1]

NextRowGroup(s) == [s EXCEPT !.row_group_offset = @ + 1, !.column_offset = 0]

RECURSIVE ScanColumns(_, _, _, _)
ScanColumns(f, m, s, out) ==
  IF Len(out) = Capacity \/ s.row_group_offset >= Len(m.row_groups)
  THEN [rows |-> out, state |-> s]
  ELSE LET rg == m.row_groups[s.row_group_offset + 1]
           count == Least(Capacity - Len(out), Len(rg.columns) - s.column_offset)
       IN  IF s.column_offset >= Len(rg.columns) THEN ScanColumns(f, m, NextRowGroup(s), out)
           ELSE ScanColumns(f, m, [s EXCEPT !.column_offset = @ + count],
                  out \o [i \in 1..count |->
                            Row(f, s.row_group_offset + 1, s.column_offset + i)])

scan(f, m, s) ==
  CASE table = "file" -> ScanFile(f, m, s)
    [] table = "rowgroup" -> ScanRowGroups(f, m, s)
    [] table = "column" -> ScanColumns(f, m, s, <<>>)

(***************************************************************************)
(* The footers.                                                            *)
(***************************************************************************)
NoStats ==
  [null_count |-> <<>>, distinct_count |-> <<>>, min |-> <<>>, max |-> <<>>, min_value |-> <<>>,
   max_value |-> <<>>, is_min_value_exact |-> <<>>, is_max_value_exact |-> <<>>]

Bounds == {<<>>, <<3>>, <<Short>>}

AnyStats ==
  {[NoStats EXCEPT !.null_count = n, !.min = old[1], !.max = old[2], !.min_value = new[1],
                   !.max_value = new[2], !.is_min_value_exact = exact, !.distinct_count = d] :
     n \in {<<>>, <<0>>, <<2>>, <<-1>>}, old \in Bounds \X {<<>>, <<4>>},
     new \in {<<>>, <<3>>} \X {<<>>, <<4>>}, exact \in {<<>>, <<TRUE>>, <<FALSE>>},
     d \in {<<>>, <<1>>}}

\* Writers mark a bound as exact only when there is one.
SomeStats ==
  {s \in AnyStats : s.is_min_value_exact # <<>> => s.min_value # <<>> /\ s.max_value # <<>>}

Chunk(type) ==
  [meta_data |-> TRUE, type |-> type, encodings |-> <<"PLAIN">>, codec |-> "SNAPPY",
   places |-> "offsets", statistics |-> <<>>, encoding_stats |-> <<>>]

ChunkSamples(type) ==
  {[Chunk(type) EXCEPT !.statistics = <<s>>] : s \in SomeStats}
  \cup {[Chunk(type) EXCEPT !.meta_data = FALSE], [Chunk(type) EXCEPT !.encodings = <<"NEWER">>],
        [Chunk(type) EXCEPT !.codec = "NEWER"], [Chunk(type) EXCEPT !.type = "NEWER"]}
  \cup {[Chunk(type) EXCEPT !.encoding_stats =
           <<<<[page_type |-> t, encoding |-> "PLAIN", count |-> 1],
               [page_type |-> "DATA_PAGE", encoding |-> e, count |-> 2]>>>>] :
          t \in PageTypes \cup {"NEWER"}, e \in Encodings \cup {"NEWER"}}

Footer(schema, groups, orders) ==
  [schema |-> schema, column_orders |-> orders,
   size |-> MetadataLength + 12, length |-> "all", magic |-> "PAR1",
   row_groups |-> [i \in 1..Len(groups) |-> [columns |-> groups[i], ordinal |-> <<i - 1>>]]]

PlainFooter(columns, groups) ==
  Footer([i \in 1..columns |-> "INT32"],
         [g \in 1..groups |-> [i \in 1..columns |-> Chunk("INT32")]], <<columns>>)

ChunkFiles ==
  {<<Footer(<<type, "INT32">>, <<<<c, Chunk("INT32")>>>>, <<>>)>> :
     type \in {"INT32", "BYTE_ARRAY"}, c \in ChunkSamples("INT32") \cup ChunkSamples("BYTE_ARRAY")}

BadFiles ==
  {<<[PlainFooter(2, 1) EXCEPT !.size = 11]>>,
   <<[PlainFooter(2, 1) EXCEPT !.magic = "PARE"]>>,
   <<[PlainFooter(2, 1) EXCEPT !.length = "PARE"]>>,
   <<[PlainFooter(2, 1) EXCEPT !.length = "too long"]>>,
   <<[PlainFooter(2, 1) EXCEPT !.column_orders = <<1>>]>>,
   <<[PlainFooter(2, 1) EXCEPT !.row_groups[1].columns = <<Chunk("INT32")>>]>>}

ScanFiles == {<<>>} \cup {<<PlainFooter(s[1], s[2])>> : s \in (0..2) \X (0..2)}
             \cup {<<PlainFooter(2, a), PlainFooter(1, b), PlainFooter(2, c)>> :
                     a \in 0..2, b \in 0..2, c \in {0, 1}}

\* create_pull_partition_states: every n-th file.
QueueOf(p, fs) == SelectSeq([i \in 1..Len(fs) |-> i], LAMBDA i : (i - 1) % Partitions = p - 1)

Init ==
  /\ files \in ChunkFiles \cup BadFiles \cup ScanFiles
  /\ table \in (IF files \in ScanFiles THEN Tables ELSE {"column"})
  /\ part = [p \in 1..Partitions |->
               [queue |-> QueueOf(p, files), read |-> "init", file |-> 0, state |-> NewState]]
  /\ rows = [p \in 1..Partitions |-> <<>>]

Failed == \E p \in 1..Partitions : part[p].read = "failed"

\* poll_pull, ReadState::Init: the next file is opened, or there is none.
OpenNext(p) ==
  /\ ~Failed /\ part[p].read = "init"
  /\ part' = [part EXCEPT ![p] =
       IF @.queue = <<>> THEN [@ EXCEPT !.read = "exhausted"]
       ELSE [@ EXCEPT !.read = "opening", !.file = Head(part[p].queue), !.queue = Tail(@)]]
  /\ UNCHANGED <<files, table, rows>>

\* The file's future is ready.
Opened(p) ==
  /\ ~Failed /\ part[p].read = "opening"
  /\ part' = [part EXCEPT ![p] =
       IF load_from_file(files[@.file]).tag # "ok" THEN [@ EXCEPT !.read = "failed"]
       ELSE [@ EXCEPT !.read = "scanning", !.state = NewState]]
  /\ UNCHANGED <<files, table, rows>>

\* ReadState::Scanning: a batch, or no row and the next file.
ScanBatch(p) ==
  /\ ~Failed /\ part[p].read = "scanning"
  /\ LET f == part[p].file
         result == scan(f, load_from_file(files[f]).val, part[p].state)
     IN  /\ rows' = [rows EXCEPT ![p] = IF result.rows = <<>> THEN @ ELSE Append(@, result.rows)]
         /\ part' = [part EXCEPT ![p].state = result.state,
                                 ![p].read = IF result.rows = <<>> THEN "init" ELSE @]
  /\ UNCHANGED <<files, table>>

Next == \E p \in 1..Partitions : OpenNext(p) \/ Opened(p) \/ ScanBatch(p)

(***************************************************************************)
(* Properties.                                                             *)
(***************************************************************************)
\* Batches hold between one row and as many as fit.
TypeOK ==
  /\ \A p \in 1..Partitions : part[p].read \in {"init", "opening", "scanning", "exhausted", "failed"}
  /\ \A p \in 1..Partitions : \A b \in Range(rows[p]) : Len(b) \in 1..Capacity

\* The rows a file's metadata makes, in order.
RowsOfFile(f) ==
  LET groups == files[f].row_groups
  IN  CASE table = "file" -> <<Row(f, Len(groups), 0)>>
        [] table = "rowgroup" -> [g \in 1..Len(groups) |-> Row(f, g, Len(groups[g].columns))]
        [] table = "column" ->
             FlattenSeq([g \in 1..Len(groups) |->
                           [c \in 1..Len(groups[g].columns) |-> Row(f, g, c)]])

\* A partition returns the rows of its files, each once and in order, however
\* files, row groups and batches are divided.
MetadataRowsReturned ==
  \A p \in 1..Partitions :
    LET all == FlattenSeq([i \in 1..Len(QueueOf(p, files)) |-> RowsOfFile(QueueOf(p, files)[i])])
    IN  /\ IsPrefix(FlattenSeq(rows[p]), all)
        /\ part[p].read = "exhausted" => FlattenSeq(rows[p]) = all

WellTyped(f) ==
  \A g \in Range(f.row_groups) : \A i \in DOMAIN g.columns : g.columns[i].type = f.schema[i]

\* The writer drops a bound that has no partner.
BoundsPaired(m) ==
  \A g \in Range(m.row_groups) : \A c \in Range(g.columns) :
    c.statistics # <<>> => (c.statistics[1].min = <<>> <=> c.statistics[1].max = <<>>)

\* Metadata that was read, written and read again is the same, statistics of
\* the old and the new format included.
RewriteKeepsMetadata ==
  \A i \in DOMAIN files :
    LET m == load_from_file(files[i])
    IN  m.tag = "ok" /\ WellTyped(files[i]) /\ BoundsPaired(m.val) =>
          load_from_file(encode_metadata(m.val)) = m

\* A file that is scanned holds all of its metadata, and a chunk for every
\* column of its schema, of a type, encodings and a codec that are known; the
\* others end the scan with an error, or with a panic if a statistic has fewer
\* bytes than the numbers of its type.
LoadedIsWhole ==
  \A p \in 1..Partitions : part[p].read = "scanning" =>
    LET f == files[part[p].file]
        m == load_from_file(f).val
    IN  /\ f.length = "all" /\ f.magic = "PAR1" /\ f.size >= MetadataLength + FOOTER_SIZE
        /\ \A i \in DOMAIN m.row_groups :
             /\ Len(f.row_groups[i].columns) = Len(m.schema)
             /\ \A c \in Range(f.row_groups[i].columns) :
                  /\ c.meta_data /\ c.type \in PhysicalTypes /\ c.codec \in Codecs
                  /\ Range(c.encodings) \subseteq Encodings
=============================================================================
