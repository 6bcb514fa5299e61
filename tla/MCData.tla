------------------------------- MODULE MCData -------------------------------
(***************************************************************************)
(* Where data is kept and what becomes of values: the catalog and its      *)
(* tables, the scans of CSV and Parquet files, the metadata of Parquet     *)
(* files (its encoding, schemas and tables), the other table functions,    *)
(* the states of the aggregate functions and the rows in memory behind     *)
(* sorts, joins and aggregates, checked one at a time: a behaviour picks   *)
(* one and runs it, the others rest.                                       *)
(***************************************************************************)
EXTENDS Catalog, Integers, Sequences, TLC

CONSTANTS Components,    \* the components to run
          CsvTables,     \* the tables of the CSV files
          ParquetTables, \* the tables of the Parquet files
          RowCalls,      \* what is asked of the row storage
          Null, NoFilter

VARIABLES component,
          files, filter, projection, bytes, partition, queue, state, unit, group, fetch, position,
          readers, output,
          tables, written, cPartition, cSchema, cQueue, file, input, records, cState, cOutput,
          func, states, merged, seen,
          encoded, thrift, outcome,
          message, elements, text,
          footers, metadata,
          part, rows, call, stage, expand,
          rCall, rInput, store, heap, rOut, rStage

(* Parquet: pages of every encoding, some of which end inside a batch, a   *)
(* run or a mini-block; the small row group has the same columns.          *)
DataPage(v, e, s) == [version |-> v, encoding |-> e, values |-> s]
Optional(ps) == [optional |-> TRUE, stats |-> FALSE, pages |-> ps]
Required(ps) == [optional |-> FALSE, stats |-> FALSE, pages |-> ps]
WithStats(chunk) == [chunk EXCEPT !.stats = TRUE]
IntegerPages ==
    {<<DataPage(1, "PLAIN", <<3, Null, 1>>),
       DataPage(2, "DICTIONARY", <<Null, 1, 1, 2, 0, Null, 2, 2>>)>>,
     <<DataPage(2, "DICTIONARY", <<1, 1, 1, Null, 1, 2, 3, 0>>),
       DataPage(1, "BYTE_STREAM_SPLIT", <<-4, 3, Null>>)>>,
     <<DataPage(1, "DELTA_BINARY_PACKED", <<-4, 3, Null>>),
       DataPage(2, "DELTA_BINARY_PACKED", <<1, 2, 2>>),
       DataPage(1, "PLAIN", <<Null, 0, 0>>), DataPage(2, "BYTE_STREAM_SPLIT", <<0, 1>>)>>}
StringPages ==
    <<DataPage(1, "DELTA_LENGTH_BYTE_ARRAY", <<<<1, 2>>, Null, <<>>, <<3>>, <<3>>, <<3>>, <<4>>>>),
      DataPage(2, "DELTA_BYTE_ARRAY", <<<<1, 2>>, <<1, 2, 3>>, <<1, 4>>, <<1, 4>>>>)>>
BooleanPages ==
    <<DataPage(1, "RLE", <<0, 0, 1, 0, 1>>), DataPage(2, "RLE", <<1, 0, 1>>),
      DataPage(1, "PLAIN", <<1, 0, 0>>)>>
Large(ints) == <<WithStats(Optional(ints)), Optional(StringPages), Required(BooleanPages)>>
Small == <<WithStats(Optional(<<DataPage(1, "PLAIN", <<3>>)>>)),
           Optional(<<DataPage(2, "PLAIN", <<<<1>>>>)>>),
           Required(<<DataPage(1, "RLE", <<1>>)>>)>>
(* Delta encoded pages at the boundary of a block: with one value or none, *)
(* or with lengths that fill a mini-block or a block.                      *)
EdgeStrings ==
    {<<DataPage(1, "DELTA_LENGTH_BYTE_ARRAY", <<<<1>>, <<>>, <<2>>, <<2>>, <<1, 2>>>>)>>,
     <<DataPage(2, "DELTA_BYTE_ARRAY", <<<<1>>, <<1, 2>>, <<2>>, <<2>>, <<1, 2>>>>)>>,
     <<DataPage(1, "DELTA_LENGTH_BYTE_ARRAY", <<Null, Null>>),
       DataPage(2, "DELTA_BYTE_ARRAY", <<<<1, 2>>, <<1, 3>>, <<1, 3, 3>>>>)>>}
EdgeIntegers ==
    <<DataPage(2, "DELTA_BINARY_PACKED", <<3>>), DataPage(1, "DELTA_BINARY_PACKED", <<Null, Null>>),
      DataPage(1, "PLAIN", <<0, 1>>)>>
EdgeFiles ==
    {<<<<<<WithStats(Optional(EdgeIntegers)), Optional(strings)>>>>>> : strings \in EdgeStrings}

ParquetFiles ==
    EdgeFiles \cup
    UNION {{<<<<Large(ints), Small, Large(ints)>>>>,
            <<<<Small>>, <<Small, Large(ints)>>, <<Small>>, <<Small>>>>} : ints \in IntegerPages}

(* A delta encoded page that does not fit into one batch.                  *)
LongDeltaPage ==
    {<<<<<<WithStats(Optional(<<DataPage(1, "DELTA_BINARY_PACKED", <<1, 2, 3, 1>>)>>))>>>>>>}
Parquet == INSTANCE ParquetScan WITH
    FileLists <- ParquetTables, Partitions <- 2, Filters <- {NoFilter, Null, 3, 0}, OutCap <- 3,
    GroupSize <- 2, MaxGroups <- 3, BlockSize <- 4, MiniBlocks <- 2, HalfRange <- 4
parquetVars == <<files, filter, projection, bytes, partition, queue, state, unit, group, fetch,
                 position, readers, output>>

(* CSV: with and without a header, with quotes, line ends and delimiters   *)
(* in fields, empty fields, one file and several, one of them without rows.*)
Header == <<<<"x">>, <<"x", "x">>>>
CsvRecords ==
    {<<<<"1">>, <<>>>>, <<<<"1", ".">>, <<"t">>>>, <<<<"n", "x">>, <<"q">>>>,
     <<<<"1">>, <<"t">>>>, <<<<"x">>, <<"s", "n">>>>}
CsvFiles ==
    UNION {{<<<<Header, a, b>>>>, <<<<Header, a, b>>, <<Header>>, <<Header, a>>>>, <<<<a, b>>>>} :
              a, b \in CsvRecords}

(* A record whose first field is empty.                                    *)
LeadingEmptyField == {<<<<Header, a, <<<<>>, <<"x">>>>>>>> : a \in CsvRecords}
Csv == INSTANCE CsvScan WITH
    FileLists <- CsvTables, Dialects <- <<<<",", "q">>, <<"|", "q">>, <<",", "s">>, <<"|", "s">>>>,
    Partitions <- 2, ReadSize <- 3, OutCap <- 1, SampleSize <- 20,
    partition <- cPartition, schema <- cSchema, queue <- cQueue, state <- cState, output <- cOutput
csvVars == <<tables, written, cPartition, cSchema, cQueue, file, input, records, cState, cOutput>>

(* Aggregates: hashes in the same and in different registers; a digest of  *)
(* two centroids.                                                          *)
Aggregated == INSTANCE AggregateStates WITH
    Partitions <- {"a", "b", "c"},
    Aggregates <- {"sum", "avg", "count", "min", "max", "bit_and", "bit_or", "bool_and", "bool_or",
                   "first", "string_agg", "var_samp", "var_pop", "stddev_samp", "stddev_pop",
                   "approx_count_distinct", "approx_quantile", "covar_samp", "covar_pop", "corr",
                   "regr_r2", "regr_slope", "regr_count", "regr_avgx", "regr_avgy"},
    Rows <- {<<-1, 2>>, <<3, 3>>, <<Null, 2>>, <<1, Null>>},
    MaxRows <- 3, MaxSum <- 5, HashBits <- 6, P <- 2,
    Hash <- -1 :> 5 @@ 1 :> 33 @@ 3 :> 63,
    Compression <- 1, CentroidLimit <- 2
aggregateVars == <<func, states, merged, seen>>

(* Footers, schemas and the tables of their metadata.                      *)
Format == INSTANCE ParquetFormat WITH
    IntBits <- [i16 |-> 16, i32 |-> 22, i64 |-> 28], Seeds <- {3}, Depth <- 2,
    input <- encoded, bytes <- thrift
Schema == INSTANCE ParquetSchema WITH
    Repetitions <- {"REQUIRED", "OPTIONAL", "REPEATED"},
    Nested <- {<<"INT32", "NONE">>, <<"BYTE_ARRAY", "UTF8">>}, schema <- message
Metadata == INSTANCE ParquetMetadata WITH
    Partitions <- 2, Capacity <- 2, files <- footers, table <- metadata
parquetMetaVars == <<encoded, thrift, outcome, message, elements, text, footers, metadata>>

(* Table functions: databases with and without schemas and entries; more   *)
(* queries than profiles are retained; Iceberg tables without a snapshot   *)
(* and with manifests that cannot be read; a tree of directories.          *)
Entry(n, t) == [name |-> n, type |-> t, set |-> n, sigs |-> <<>>, docs |-> <<>>]
FunctionEntry(n, s, t, sigs, docs) == [name |-> n, type |-> t, set |-> s, sigs |-> sigs, docs |-> docs]
InSchema(n, es) == [name |-> n, entries |-> es]
Databases ==
    <<[name |-> "system", schemas |-> <<InSchema("builtin",
          <<FunctionEntry("abs", "abs", "ScalarFunction", <<1>>, <<1>>),
            FunctionEntry("ceiling", "ceil", "ScalarFunction", <<1, 2>>, <<1>>),
            FunctionEntry("sum", "sum", "AggregateFunction", <<1>>, <<>>),
            FunctionEntry("glob", "glob", "TableFunction", <<1>>, <<1>>), Entry("csv", "CopyToFunction")>>)>>],
      [name |-> "empty", schemas |-> <<>>],
      [name |-> "temp", schemas |->
          <<InSchema("s1", <<Entry("t1", "Table"), Entry("v1", "View"), Entry("t2", "Table"), Entry("t3", "Table")>>),
            InSchema("s2", <<>>),
            InSchema("s3", <<Entry("t1", "Table"), Entry("t4", "Table"), Entry("v2", "View")>>)>>]>>
CatalogCalls ==
    [fn : {"list_tables", "list_views", "list_functions", "list_databases", "list_schemas"},
     dbs : {SubSeq(Databases, 1, n) : n \in 0 .. 3}]

ProfileOf(planned, rules, pipelines) == [planned |-> planned, rules |-> rules, pipelines |-> pipelines]
Profiles ==
    <<ProfileOf(TRUE, <<"r1">>, <<<<"scan">>>>), ProfileOf(FALSE, <<>>, <<>>),
      ProfileOf(TRUE, <<"r1", "r2">>, <<<<"scan", "sort">>, <<"scan", "sort">>>>),
      ProfileOf(TRUE, <<"r1", "r2", "r3">>, <<<<"values">>>>)>>
ProfileCalls ==
    [fn : {"planning_profile", "optimizer_profile", "execution_profile", "query_info"},
     queries : {SubSeq(Profiles, 1, n) : n \in 0 .. 4},
     arg : [by : {"id"}, n : 1 .. 4] \cup [by : {"index"}, n : 0 .. 4] \cup {[by |-> "none", n |-> 0]}]

DataFile(f, s, c) == [path |-> f, status |-> s, content |-> c]
Snapshots ==
    <<[id |-> 7, list |-> <<<<<<DataFile("f1", 1, 0), DataFile("f2", 2, 0)>>, <<>>, <<DataFile("f3", 0, 2)>>>>>>],
      [id |-> 9, list |-> <<<<<<DataFile("f4", 1, 0), DataFile("f1", 0, 0)>>>>>>]>>
VersionOf(v, current, snapshots) == [version |-> v, current |-> current, snapshots |-> snapshots]
IcebergCalls ==
    [fn : {"metadata", "snapshots", "manifest_list", "data_files"},
     root : {{}, {VersionOf(<<0, 1>>, <<7>>, SubSeq(Snapshots, 1, 1))},
             {VersionOf(<<0, 9>>, <<7>>, SubSeq(Snapshots, 1, 1)), VersionOf(<<1, 0>>, <<9>>, Snapshots)},
             {VersionOf(<<0, 1>>, <<>>, <<>>)}, {VersionOf(<<0, 1>>, <<8>>, Snapshots)},
             {VersionOf(<<0, 1>>, <<7>>, <<[id |-> 7, list |-> <<>>]>>)},
             {VersionOf(<<0, 1>>, <<7>>, <<[id |-> 7, list |-> <<<<<<DataFile("f1", 3, 0)>>>>>>]>>)}}]

Tree == {<<"a">>, <<"b">>, <<"d", "a">>, <<"d", "c">>, <<"d", "e", "a">>, <<"d", "e", "b">>, <<"f", "e", "a">>}
Contents ==
    [f \in Tree |-> CASE f = <<"a">> -> <<1, 2, 3>> [] f = <<"b">> -> <<>> [] f = <<"d", "a">> -> <<4>>
                      [] OTHER -> <<5, 6>>]
Patterns ==
    {<<{"a"}>>, <<{"a", "b"}>>, <<{"d"}, {"a", "c"}>>, <<{"**"}>>, <<{"**"}, {"a"}>>,
     <<{"d", "f"}, {"e"}, {"a"}>>, <<{"d"}, {"**"}, {"a", "b"}>>, <<{"d"}, {"**"}>>, <<{}, {"a"}>>}
FileCalls ==
    [fn : {"glob"}, tree : {Tree}, pattern : Patterns, list : {<<>>, <<<<"b">>, <<"a">>>>}]
    \cup [fn : {"read_text"}, tree : {Tree}, pattern : Patterns, list : {<<>>}, content : {Contents},
          projected : BOOLEAN]
    \cup [fn : {"read_text"}, tree : {Tree}, pattern : {<<>>},
          list : {<<<<"b">>, <<"a">>, <<"d", "a">>, <<"d", "c">>>>,
                  <<<<"a">>, <<"d", "a">>, <<"b">>, <<"zz">>>>},
          content : {Contents}, projected : BOOLEAN]

TpchCalls == [fn : {"tpch"}, table : {"region", "lineitem"}, sf : {<<>>, <<1>>, <<2>>}, base : {1, 2, 4}]
Series == {<<1, 3>>, <<3, 1>>, <<1, 1>>, <<5, -1, -2>>, <<0, 3, 2>>, <<2, 2, -1>>, <<0, 1, 0>>}
SeriesCalls ==
    {[fn |-> "generate_series", batches |-> <<b, <<>>>>, projected |-> p] :
        b \in {<<<<x, y>>, <<z>>>> : x, y, z \in Series} \cup {<<>>, <<<<>>>>}, p \in BOOLEAN}

Functions == INSTANCE TableFunctions WITH
    Partitions <- 2, Capacity <- 2, Retained <- 2, ListChunk <- 2,
    Calls <- CatalogCalls \cup ProfileCalls \cup IcebergCalls \cup TpchCalls \cup FileCalls \cup SeriesCalls
functionVars == <<part, rows, call, stage, expand>>

(* The rows behind sorts, joins and aggregates.  Values around the limits  *)
(* of their types; strings that are inlined, that end with the prefix or   *)
(* go on, that extend one another; NULLs; ties.                            *)
RowStore == INSTANCE RowStorage WITH
    Calls <- RowCalls, MaxHeap <- 100, call <- rCall, input <- rInput, out <- rOut, stage <- rStage
rowVars == <<rCall, rInput, store, heap, rOut, rStage>>

Layout == INSTANCE RowStorage WITH
    Calls <- {}, MaxHeap <- 0, call <- rCall, input <- rInput, out <- rOut, stage <- rStage

Fill(n, b) == Layout!Fill(n, b)
Low(n, b) == Fill(n - 1, 0) \o <<b>>
High(n, b) == <<b>> \o Fill(n - 1, 0)
A12 == Fill(12, 97)
Samples(t) ==
    CASE t \in {"UntypedNull", "List"} -> <<>>
      [] t = "Boolean" -> <<<<1>>, <<0>>>>
      [] t \in Layout!Strings -> <<A12 \o <<98>>, <<97>>, <<>>, A12, <<97, 0>>, A12 \o <<98, 98>>,
                                   A12 \o <<97>>, <<98>>>>
      [] t = "Interval" -> <<Low(16, 1), Fill(3, 0) \o High(13, 1), Fill(16, 255), Fill(7, 0) \o High(9, 1),
                             Fill(4, 0) \o High(12, 255)>>
      [] OTHER -> LET n == Layout!Size[t]
                  IN IF t \in Layout!Floats
                     THEN <<High(n, 63), High(n, 191), Fill(n, 0), High(n, 128), Low(n, 1),
                            [High(n, 191) EXCEPT ![n] = 3]>>
                     ELSE <<Low(n, 2), Fill(n, 255), High(n, 128), Fill(n, 0), High(n, 127), Fill(n, 254)>>

Column(t, d, n) == [type |-> t, desc |-> d, nulls_first |-> n]
SortCall(columns, keys, split, capacity, limit, ties) ==
    [kind |-> "sort", columns |-> columns, capacity |-> capacity, hint |-> limit, ties |-> ties, count |-> 3,
     batches |-> <<[to |-> 1, rows |-> SubSeq(keys, 1, split)],
                   [to |-> 1, rows |-> SubSeq(keys, split + 1, Len(keys))]>>]
Ties == {"kept", "reversed"}
OneColumn(types) ==
    {LET v == Samples(t)
     IN SortCall(<<Column(t, d, n)>>, <<<<<<>>>>>> \o [i \in DOMAIN v |-> <<<<v[i]>>>>] \o <<<<<<>>>>>>, 2, 3, h, k) :
        t \in types, d \in BOOLEAN, n \in BOOLEAN, h \in {<<>>, <<2>>}, k \in Ties}
B(v) == <<<<v>>>>
Long(x) == <<A12 \o x>>
TwoKeys == <<<<Long(<<98>>), B(1)>>, <<Long(<<97>>), B(255)>>, <<<<>>, B(3)>>, <<Long(<<98>>), B(254)>>,
             <<<<>>, B(2)>>, <<<<A12>>, <<>>>>, <<Long(<<98>>), <<>>>>>>
ThreeKeys == <<<<Long(<<98>>), Long(<<1>>), B(1)>>, <<Long(<<98>>), Long(<<0>>), B(2)>>,
               <<Long(<<98>>), Long(<<1>>), B(0)>>, <<<<>>, Long(<<1>>), B(7)>>, <<<<>>, Long(<<0>>), B(9)>>,
               <<<<>>, <<>>, B(9)>>, <<B(97), <<>>, B(9)>>>>
Swapped(pairs) == [i \in DOMAIN pairs |-> <<pairs[i][2], pairs[i][1]>>]
ManyColumns ==
    UNION {{SortCall(<<Column("Utf8", d, n), Column("Int8", e, TRUE)>>, TwoKeys, s, 2, h, k),
            SortCall(<<Column("Int8", e, TRUE), Column("Utf8", d, n)>>, Swapped(TwoKeys), s, 2, h, k),
            SortCall(<<Column("Utf8", d, n), Column("Utf8", e, n), Column("UInt8", FALSE, TRUE)>>,
                     ThreeKeys, s, 4, h, k)} :
        d \in BOOLEAN, n \in BOOLEAN, e \in BOOLEAN, s \in {3, 7}, h \in {<<>>, <<3>>}, k \in Ties}

(* Rows of two collections that are merged, some columns of them scanned,  *)
(* and all compared with the rows of a probe.                              *)
Stored == <<<<B(1), Long(<<1>>)>>, <<<<>>, Long(<<1, 2>>)>>, <<B(2), <<>>>>, <<B(3), <<A12>>>>, <<B(200), <<<<>>>>>>>>
Probed == <<<<B(1), Long(<<1>>)>>, <<<<>>, Long(<<1, 3>>)>>, <<B(1), <<>>>>, <<B(4), Long(<<>>)>>, <<B(2), B(1)>>>>
Collect(types, keys, split, capacity, columns, n, ops, probe) ==
    [kind |-> "collect", types |-> types, capacity |-> capacity, columns |-> columns, count |-> n, ops |-> ops,
     probe |-> probe,
     batches |-> <<[to |-> 1, rows |-> SubSeq(keys, 1, split)],
                   [to |-> 2, rows |-> SubSeq(keys, split + 1, Len(keys) - 1)],
                   [to |-> 1, rows |-> <<>>], [to |-> 2, rows |-> SubSeq(keys, Len(keys), Len(keys))]>>]
Comparisons == {"Eq", "NotEq", "Lt", "LtEq", "Gt", "GtEq", "IsDistinctFrom", "IsNotDistinctFrom"}
Nine(v) == [c \in 1 .. 9 |-> IF (c + v) % 3 = 0 THEN <<>> ELSE B(c + v)]
Collections ==
    {Collect(<<"Int8", "Utf8">>, Stored, s, capacity, columns, n, <<o1, o2>>, Probed) :
        s \in {1, 3}, capacity \in {1, 2, 4}, columns \in {<<1, 2>>, <<2>>}, n \in 1 .. 3,
        o1 \in Comparisons, o2 \in Comparisons}
    \cup {Collect([c \in 1 .. 9 |-> "UInt8"], [i \in 1 .. 4 |-> Nine(i)], 2, 2, <<9, 1, 8>>, 3,
                  [c \in 1 .. 9 |-> "IsNotDistinctFrom"], <<Nine(1), Nine(3)>>),
          Collect(<<"Utf8", "Binary", "Int16">>,
                  [i \in 1 .. 4 |-> <<Long(<<i>>), Long(<<i, i>>), IF i = 2 THEN <<>> ELSE <<<<i, 1>>>>>>],
                  2, 3, <<2, 1, 3>>, 3, <<"Eq">>, <<<<Long(<<1>>)>>, <<Long(<<1>>)>>>>),
          Collect(<<"Utf8">>, <<<<Long(Fill(90, 1))>>, <<<<>>>>, <<<<>>>>>>, 1, 2, <<1>>, 2, <<"Eq">>, <<>>)}

Given(g, selection, n) ==
    [from |-> 0, group |-> g, selection |-> selection, inputs |-> [k \in 1 .. 3 |-> 10 * n + k]]
Combined(source, g, selection) ==
    [from |-> source, group |-> g, selection |-> selection, inputs |-> <<>>]
State(size, align, inputs) == [size |-> size, align |-> align, inputs |-> inputs]
AggregateLists ==
    {a \in [1 .. 3 -> {State(8, 8, 1), State(1, 1, 0), State(24, 8, 2), State(4, 4, 1)}] :
        a[1].inputs + a[2].inputs + a[3].inputs <= 3 /\ a[3].inputs < 2}
AggregateRows ==
    {[kind |-> "aggregate", types |-> <<"Int8", "Utf8">>, capacity |-> 2, aggregates |-> a,
      batches |-> <<[to |-> 1, rows |-> SubSeq(Stored, 1, 3)], [to |-> 1, rows |-> SubSeq(Stored, 4, 5)]>>,
      updates |-> <<Given(1, <<1, 2, 3>>, 1), Given(4, s, 2), Given(1, s, 3), Given(2, <<3>>, 4),
                    Combined(1, 4, s), Combined(2, 5, <<1, 2, 3>>)>>] :
        a \in AggregateLists, s \in {<<1, 3>>, <<2, 3>>, <<2>>, <<>>}}

SoundKeys == {"UntypedNull", "Utf8", "Binary", "Float16", "Float32", "Interval", "List"}
             \cup Layout!SignedTypes \cup Layout!UnsignedTypes
StoredRows == OneColumn(SoundKeys) \cup ManyColumns \cup Collections \cup AggregateRows
WrongKeys == OneColumn({"Boolean", "Float64"})

MCvars == <<component, vars, parquetVars, csvVars, aggregateVars, parquetMetaVars, functionVars,
            rowVars>>

MCInit ==
    /\ component \in Components
    /\ Init
    /\ component # "catalog" => \A s \in Statements : Kind(s) = "use"
    /\ IF component = "parquet" THEN Parquet!Init
       ELSE /\ files = <<>> /\ filter = NoFilter /\ projection = <<>> /\ bytes = <<>>
            /\ partition = 0 /\ queue = <<>> /\ state = "exhausted" /\ unit = <<>>
            /\ group = Parquet!NoGroup /\ fetch = [state |-> "needs"] /\ position = 1
            /\ readers = <<>> /\ output = <<>>
    /\ IF component = "csv" THEN Csv!Init
       ELSE /\ tables = <<>> /\ written = <<>> /\ cPartition = 0 /\ cSchema = Null
            /\ cQueue = <<>> /\ file = 0 /\ input = <<>> /\ records = Csv!NewDecoder
            /\ cState = [phase |-> "init"] /\ cOutput = <<>>
    /\ Aggregated!Init
    /\ component # "aggregates" => func = "count"
    /\ CASE component = "format" -> Format!Init /\ message = Null /\ elements = <<>> /\ text = <<>>
         [] component = "schema" -> Schema!Init /\ encoded = Null /\ thrift = <<>>
         [] OTHER -> /\ encoded = Null /\ thrift = <<>> /\ message = Null /\ elements = <<>>
                     /\ text = <<>> /\ outcome = <<>>
    /\ CASE component = "metadata" -> Metadata!Init /\ call = Null /\ stage = Null /\ expand = Null
         [] component = "functions" -> Functions!Init /\ footers = <<>> /\ metadata = Null
         [] OTHER -> /\ footers = <<>> /\ metadata = Null /\ part = <<>> /\ rows = <<>>
                     /\ call = Null /\ stage = Null /\ expand = Null
    /\ IF component = "rows" THEN RowStore!Init
       ELSE /\ rCall = Null /\ rInput = <<>> /\ store = Null /\ heap = <<>>
            /\ rOut = <<>> /\ rStage = "done"

RunCatalog == component = "catalog" /\ Next
    /\ UNCHANGED <<component, parquetVars, csvVars, aggregateVars, parquetMetaVars, functionVars, rowVars>>
StatementsDone == component = "catalog" /\ (\A s \in Statements : ~Unfinished(s))
    /\ UNCHANGED MCvars
RunParquet == component = "parquet" /\ Parquet!Next
    /\ UNCHANGED <<component, vars, csvVars, aggregateVars, parquetMetaVars, functionVars, rowVars>>
RunCsv == component = "csv" /\ Csv!Next
    /\ UNCHANGED <<component, vars, parquetVars, aggregateVars, parquetMetaVars, functionVars, rowVars>>
RunAggregates == component = "aggregates" /\ Aggregated!Next
    /\ UNCHANGED <<component, vars, parquetVars, csvVars, parquetMetaVars, functionVars, rowVars>>
RunFormat == component = "format" /\ Format!Next
    /\ UNCHANGED <<component, vars, parquetVars, csvVars, aggregateVars, message, elements, text,
                   footers, metadata, functionVars, rowVars>>
RunSchema == component = "schema" /\ Schema!Next
    /\ UNCHANGED <<component, vars, parquetVars, csvVars, aggregateVars, encoded, thrift,
                   footers, metadata, functionVars, rowVars>>
FooterRead == component \in {"format", "schema"} /\ outcome # <<>> /\ UNCHANGED MCvars
RunMetadata == component = "metadata" /\ Metadata!Next
    /\ UNCHANGED <<component, vars, parquetVars, csvVars, aggregateVars, encoded, thrift, outcome,
                   message, elements, text, call, stage, expand, rowVars>>
MetadataDone == component = "metadata"
    /\ (Metadata!Failed \/ \A p \in 1 .. 2 : part[p].read = "exhausted") /\ UNCHANGED MCvars
RunFunctions == component = "functions" /\ Functions!Next
    /\ UNCHANGED <<component, vars, parquetVars, csvVars, aggregateVars, parquetMetaVars, rowVars>>
RunRows == component = "rows" /\ RowStore!Next
    /\ UNCHANGED <<component, vars, parquetVars, csvVars, aggregateVars, parquetMetaVars, functionVars>>
RowsDone == component = "rows" /\ rStage \in {"done", "failed"} /\ UNCHANGED MCvars
MCNext ==
    \/ RunCatalog \/ StatementsDone \/ RunParquet \/ RunCsv \/ RunAggregates
    \/ RunFormat \/ RunSchema \/ FooterRead \/ RunMetadata \/ MetadataDone \/ RunFunctions
    \/ RunRows \/ RowsDone
MCSpec == MCInit /\ [][MCNext]_MCvars
-----------------------------------------------------------------------------
(* The state of every component is well formed.                            *)
TypesOK ==
    CASE component = "catalog" -> TypeOK
      [] component = "parquet" -> Parquet!TypeOK
      [] component = "csv" -> Csv!TypeOK
      [] component = "aggregates" -> Aggregated!TypeOK
      [] component = "format" -> Format!TypeOK
      [] component = "schema" -> Schema!TypeOK
      [] component = "metadata" -> Metadata!TypeOK
      [] component = "functions" -> Functions!TypeOK
      [] component = "rows" -> RowStore!TypeOK

(* A scan returns the rows that are in the files, or that its table        *)
(* function names, once and with their row ids, wherever reads, pages,     *)
(* batches and partitions split them, and no decoder reads past the end of *)
(* its buffer, save for the two pages at the boundary of a block that      *)
(* ParquetScan names, over which a scan fails; the rows and states of      *)
(* joins, sorts and aggregates are read back as they were written.         *)
ScansReturnRows ==
    CASE component = "parquet" -> Parquet!InBounds /\ Parquet!RowsAsStored
      [] component = "csv" -> Csv!RowsAsWritten
      [] component = "metadata" -> Metadata!MetadataRowsReturned
      [] component = "functions" -> Functions!RowsReturnedOnce
      [] component = "rows" -> RowStore!StorageAsMeant
      [] OTHER -> TRUE

(* Partial aggregates merged in any order give what the function is        *)
(* defined to be over all rows; a sum does while no partial sum overflows. *)
AggregatesAgree == component = "aggregates" => Aggregated!MergesAgree /\ Aggregated!DigestIsSound

(* What a writer put into the footer is what is read from it: structures   *)
(* with every optional field set or not and fields of newer versions, the  *)
(* schema from the footer and from its printed form, and the metadata that *)
(* is read, written and read again.                                        *)
MetadataReadBack ==
    CASE component = "format" -> Format!ReadBack
      [] component = "schema" -> Schema!FooterReadBack /\ Schema!TextKeepsMeaning
      [] component = "metadata" -> Metadata!RewriteKeepsMetadata
      [] OTHER -> TRUE

(* A footer that ends early, lacks a required field or an element of the   *)
(* schema, or has a code of a newer version where that matters is never    *)
(* taken for a value; what is scanned has all its columns.  An error says  *)
(* so, except where the code panics: a number cut short, a statistic with  *)
(* too few bytes, and an element of the schema that is missing.            *)
DamageRefused ==
    CASE component = "format" -> Format!DamageRefused
      [] component = "schema" -> Schema!DamageRefused
      [] component = "metadata" -> Metadata!LoadedIsWhole
      [] OTHER -> TRUE

(* The levels of a column are those its path gives, from which the reader  *)
(* tells NULLs and lists; and old and new annotations of a column order    *)
(* its statistics the same way and give it the same type.                  *)
SchemaFits == component = "schema" => Schema!LevelsOfPath /\ Schema!AnnotationsAgree

(* ORDER BY: the bytes of the sort keys order rows as their values, with   *)
(* NULLS FIRST and DESC, ties broken by the strings behind the prefix.     *)
OrderAsMeant == component = "rows" => RowStore!OrderAsMeant
=============================================================================
