------------------------------- MODULE CsvScan -------------------------------
(***************************************************************************)
(* read_csv: dialect, types and header are inferred from a sample of the   *)
(* first file; a partition then reads its files one after the other, in    *)
(* pieces of any size, through a decoder that keeps partial records, and   *)
(* emits batches of at most OutCap rows.                                   *)
(*                                                                         *)
(* A field is a sequence of characters.  The files are tables written by   *)
(* CsvEncoder, so what a scan should return is known.                      *)
(***************************************************************************)
EXTENDS Integers, Sequences, FiniteSets, SequencesExt

CONSTANTS FileLists,      \* sequences of tables, a table is a sequence of records
          Dialects,       \* the dialects tried, in order, as <<delimiter, quote>>
          Partitions,     \* number of partitions
          ReadSize,       \* bound: bytes read at once
          OutCap,         \* rows of an output batch
          SampleSize,     \* bytes read for the inference
          Null

VARIABLES tables,         \* the tables that were written
          written,        \* the dialect they were written in
          partition,      \* the partition that is observed
          schema,         \* result of the inference
          queue,          \* numbers of the files still to be opened
          file,           \* number of the open file, 0 if there is none
          input,          \* what is left of the open file
          records,        \* ByteRecords and the state of the decoder
          state,          \* ReaderState
          output          \* rows emitted, with file and row id
vars == <<tables, written, partition, schema, queue, file, input, records, state, output>>

-----------------------------------------------------------------------------
(* CsvEncoder::encode, and the rule of the csv writer for quotes.          *)
NeedsQuotes(dialect, field) == Range(field) \cap {dialect[1], dialect[2], "n"} # {}
Quoted(dialect, field) ==
    <<dialect[2]>>
    \o FlattenSeq([i \in DOMAIN field |-> IF field[i] = dialect[2] THEN <<dialect[2], dialect[2]>>
                                                                   ELSE <<field[i]>>])
    \o <<dialect[2]>>
FieldText(dialect, field) == IF NeedsQuotes(dialect, field) THEN Quoted(dialect, field) ELSE field
RecordText(dialect, record) ==
    FlattenSeq([i \in DOMAIN record |-> FieldText(dialect, record[i])
                                        \o <<IF i = Len(record) THEN "n" ELSE dialect[1]>>])
Encode(dialect, table) == FlattenSeq([i \in DOMAIN table |-> RecordText(dialect, table[i])])

-----------------------------------------------------------------------------
(* csv_core's reader: `pos` counts the bytes of the current record.        *)
NoRecords == [buf |-> <<>>, ends |-> <<>>, bounds |-> <<>>]
NewDecoder == NoRecords @@ [at |-> "record", pos |-> 0]

Put(r, c, at) == [r EXCEPT !.buf = Append(@, c), !.pos = @ + 1, !.at = at]
EndField(r) == [r EXCEPT !.ends = Append(@, r.pos), !.at = "field_start"]
EndRecord(r) ==
    [r EXCEPT !.ends = Append(@, r.pos), !.at = "record", !.pos = 0,
              !.bounds = Append(@, [end_idx |-> Len(r.ends) + 1, end_offset |-> Len(r.buf)])]
ReadByte(dialect, r, c) ==
    IF r.at = "quoted" THEN IF c = dialect[2] THEN [r EXCEPT !.at = "quote"] ELSE Put(r, c, "quoted")
    ELSE IF r.at = "quote" /\ c = dialect[2] THEN Put(r, c, "quoted")
    ELSE IF r.at = "record" /\ c = "n" THEN r
    ELSE IF c = dialect[1] THEN EndField(r)
    ELSE IF c = "n" THEN EndRecord(r)
    ELSE IF r.at \in {"record", "field_start"} /\ c = dialect[2] THEN [r EXCEPT !.at = "quoted"]
    ELSE Put(r, c, "field")

(* All bytes in order, by halves so that the evaluation stays shallow.     *)
RECURSIVE Decode(_, _, _)
Decode(dialect, r, bytes) ==
    LET half == Len(bytes) \div 2
        first == SubSeq(bytes, 1, half)
        second == SubSeq(bytes, half + 1, Len(bytes))
    IN CASE bytes = <<>> -> r
         [] Len(bytes) = 1 -> ReadByte(dialect, r, bytes[1])
         [] OTHER -> CHOOSE after \in {Decode(dialect, s, second) : s \in {Decode(dialect, r, first)}} : TRUE

-----------------------------------------------------------------------------
(* ByteRecords.                                                            *)
NumRecords(r) == Len(r.bounds)
RecordEnds(r, i) == SubSeq(r.ends, IF i = 1 THEN 1 ELSE r.bounds[i - 1].end_idx + 1, r.bounds[i].end_idx)
RecordBuf(r, i) == SubSeq(r.buf, IF i = 1 THEN 1 ELSE r.bounds[i - 1].end_offset + 1, r.bounds[i].end_offset)
GetRecord(r, i) ==
    LET ends == RecordEnds(r, i)
        buf == RecordBuf(r, i)
    IN [k \in DOMAIN ends |-> SubSeq(buf, IF k = 1 THEN 1 ELSE ends[k - 1] + 1, ends[k])]
Records(r) == [i \in 1 .. NumRecords(r) |-> GetRecord(r, i)]

ClearAll(r) == NoRecords @@ r
MutClearCompleted(r) == r
ClearCompleted(r) ==
    IF r.bounds = <<>> THEN r
    ELSE LET last == Last(r.bounds)
         IN IF last.end_offset = Len(r.buf) THEN ClearAll(r)
            ELSE [r EXCEPT !.buf = SubSeq(@, last.end_offset + 1, Len(@)),
                           !.ends = SubSeq(@, last.end_idx + 1, Len(@)),
                           !.bounds = <<>>]

-----------------------------------------------------------------------------
(* DialectOptions::infer_from_sample.                                      *)
Acceptable(recs) ==
    /\ Len(recs) >= 2
    /\ Len(recs[1]) >= 2
    /\ \A i \in DOMAIN recs : Len(recs[i]) = Len(recs[1])
InferDialect(sample) ==
    LET Sampled(d) == Records(Decode(d, NewDecoder, sample))
        Better(best, d) ==
            IF Acceptable(Sampled(d)) /\ Len(Sampled(d)[1]) > best.fields
            THEN [dialect |-> d, fields |-> Len(Sampled(d)[1])] ELSE best
    IN FoldLeft(Better, [dialect |-> Dialects[1], fields |-> 0], Dialects).dialect

(* CandidateType: a column has the first type that all its fields parse as *)
(* (nothing parses as a timestamp).                                        *)
Candidates == <<"Boolean", "Int64", "Float64", "Utf8">>
Parses(type, field) ==
    CASE type = "Boolean" -> field = <<"t">>
      [] type = "Int64" -> field # <<>> /\ Range(field) = {"1"}
      [] type = "Float64" -> "1" \in Range(field) /\ Range(field) \subseteq {"1", "."}
      [] type = "Utf8" -> TRUE
MutUpdateFromInput(type, field) ==
    IF field = <<>> \/ Parses(Candidates[type], field) \/ type = 4 THEN type ELSE type + 1
UpdateFromInput(type, field) ==
    IF field = <<>> THEN type
    ELSE CHOOSE t \in type .. 4 : /\ Parses(Candidates[t], field)
                                  /\ \A u \in type .. t - 1 : ~Parses(Candidates[u], field)
InferColumn(recs, k) ==
    FoldLeft(LAMBDA type, rec : IF k \in DOMAIN rec THEN UpdateFromInput(type, rec[k]) ELSE type,
             1, Tail(recs))
InferSchema(text) ==
    LET sample == SubSeq(text, 1, IF Len(text) < SampleSize THEN Len(text) ELSE SampleSize)
        dialect == InferDialect(sample)
        recs == Records(Decode(dialect, NewDecoder, sample))
        types == [k \in DOMAIN recs[1] |-> Candidates[InferColumn(recs, k)]]
    IN IF recs = <<>> THEN Null
       ELSE [dialect |-> dialect, types |-> types,
             has_header |-> \E k \in DOMAIN types : ~Parses(types[k], recs[1][k])]

-----------------------------------------------------------------------------
Text(f) == Encode(written, tables[f])
FilesOf(p, n) == SelectSeq([i \in 1 .. n |-> i], LAMBDA i : (i - 1) % Partitions = p)

Reading(skip) == [phase |-> "reading", skip_first |-> skip]
Flushing(offset, exhausted) ==
    [phase |-> "flushing", record_offset |-> offset, stream_exhausted |-> exhausted]

Init ==
    /\ tables \in FileLists
    /\ written \in Range(Dialects)
    /\ partition \in 0 .. Partitions - 1
    /\ schema = InferSchema(Text(1))
    /\ queue = FilesOf(partition, Len(tables))
    /\ file = 0 /\ input = <<>>
    /\ records = NewDecoder
    /\ state = IF schema = Null THEN [phase |-> "error"] ELSE [phase |-> "init"]
    /\ output = <<>>

(* ReadState::Init and Opening: the next file, and CsvReader::prepare.     *)
Open ==
    /\ state.phase = "init" /\ queue # <<>>
    /\ file' = Head(queue) /\ queue' = Tail(queue)
    /\ input' = Text(file')
    /\ records' = ClearAll(records)
    /\ state' = Reading(schema.has_header)
    /\ UNCHANGED <<tables, written, partition, schema, output>>

(* CsvReader::poll_pull.                                                   *)
SkipFirst == IF state.skip_first THEN 1 ELSE 0
ReadSome ==
    /\ state.phase = "reading"
    /\ \E n \in 1 .. ReadSize :
          /\ n <= Len(input)
          /\ records' = Decode(schema.dialect, records, SubSeq(input, 1, n))
          /\ input' = SubSeq(input, n + 1, Len(input))
    /\ state' = IF NumRecords(records') >= OutCap THEN Flushing(SkipFirst, FALSE) ELSE state
    /\ UNCHANGED <<tables, written, partition, schema, queue, file, output>>
ReadEnd ==
    /\ state.phase = "reading" /\ input = <<>>
    /\ state' = Flushing(SkipFirst, TRUE)
    /\ UNCHANGED <<tables, written, partition, schema, queue, file, input, records, output>>
MutFlushed == Reading(schema.has_header)
Flushed == Reading(FALSE)
FlushDone ==
    /\ state.phase = "flushing" /\ state.record_offset >= NumRecords(records)
    /\ IF state.stream_exhausted
       THEN state' = [phase |-> "init"] /\ UNCHANGED records
       ELSE state' = Flushed /\ records' = ClearCompleted(records)
    /\ UNCHANGED <<tables, written, partition, schema, queue, file, input, output>>

(* write_batch: empty fields are NULL; a record of another length or a     *)
(* field that does not parse fails the query.                              *)
Bad(rec) == \/ Len(rec) # Len(schema.types)
            \/ \E k \in DOMAIN rec : rec[k] # <<>> /\ ~Parses(schema.types[k], rec[k])
CurrentCount == Len(SelectSeq(output, LAMBDA row : row.file = file))
Row(rec, i) ==
    [file |-> file, rowid |-> CurrentCount + i - 1,
     fields |-> [k \in DOMAIN rec |-> IF rec[k] = <<>> THEN Null ELSE rec[k]]]
Flush ==
    /\ state.phase = "flushing" /\ state.record_offset < NumRecords(records)
    /\ LET left == NumRecords(records) - state.record_offset
           count == IF left < OutCap THEN left ELSE OutCap
           recs == [i \in 1 .. count |-> GetRecord(records, state.record_offset + i)]
       IN IF \E i \in DOMAIN recs : Bad(recs[i])
          THEN state' = [phase |-> "error"] /\ UNCHANGED output
          ELSE /\ output' = output \o [i \in 1 .. count |-> Row(recs[i], i)]
               /\ state' = [state EXCEPT !.record_offset = @ + count]
    /\ UNCHANGED <<tables, written, partition, schema, queue, file, input, records>>

Done == /\ state.phase = "error" \/ (state.phase = "init" /\ queue = <<>>)
        /\ UNCHANGED vars

Next == Open \/ ReadSome \/ ReadEnd \/ FlushDone \/ Flush \/ Done
Spec == Init /\ [][Next]_vars

-----------------------------------------------------------------------------
TypeOK ==
    /\ queue \in Seq(1 .. Len(tables)) /\ file \in 0 .. Len(tables)
    /\ state.phase \in {"init", "reading", "flushing", "error"}
    /\ records.at \in {"record", "field_start", "field", "quoted", "quote"}

(* The rows of a file as they were written, without the header.            *)
Expected(f) ==
    LET table == tables[f]
        skip == IF schema.has_header THEN 1 ELSE 0
    IN [i \in 1 .. Len(table) - skip |->
            [file |-> f, rowid |-> i - 1,
             fields |-> [k \in DOMAIN table[i + skip] |->
                            IF table[i + skip][k] = <<>> THEN Null ELSE table[i + skip][k]]]]

(* However a read splits the bytes (inside a field, between the quotes of  *)
(* one, right at a record's end) and however records fill batches, a scan  *)
(* emits the rows that were written, in order, once, with row ids relative *)
(* to the file, and every file is read by one partition ("Partially read   *)
(* records will be preserved").                                            *)
RowsAsWritten ==
    /\ state.phase # "error"
    /\ \A f \in DOMAIN tables :
          Cardinality({p \in 0 .. Partitions - 1 : f \in Range(FilesOf(p, Len(tables)))}) = 1
    /\ LET all == FlattenSeq([i \in 1 .. Len(FilesOf(partition, Len(tables))) |->
                                  Expected(FilesOf(partition, Len(tables))[i])])
       IN IF state.phase = "init" /\ queue = <<>> THEN output = all ELSE IsPrefix(output, all)
=============================================================================
