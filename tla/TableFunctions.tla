--------------------------- MODULE TableFunctions ---------------------------
(***************************************************************************)
(* The table functions that scan something other than a data file: the    *)
(* catalog listings, the query profiles, glob and read_text, the TPC-H     *)
(* generators, the Iceberg metadata tables, and generate_series under the  *)
(* operator that joins its output to the input row.  A call is bound once, *)
(* its work is split over the partitions, and every partition is polled    *)
(* until it reports Exhausted.                                             *)
(*                                                                         *)
(* A path is a sequence of names, a glob segment the set of names it       *)
(* matches ({"**"} for the recursive one), a file's content a sequence of  *)
(* symbols.                                                                *)
(***************************************************************************)
EXTENDS Integers, FiniteSets, Sequences, SequencesExt

CONSTANTS
  Partitions,   \* partitions of the pipeline
  Capacity,     \* rows of an output batch; also the configured batch_size
  Retained,     \* RETAINED_PROFILE_COUNT
  ListChunk,    \* most directory entries a poll_list delivers
  Calls         \* the calls of the instance

VARIABLES
  call,      \* the call being executed
  stage,     \* "binding", "pulling" or "failed"
  expand,    \* MultiFileProvider and GlobHandle: [stack, expanded, n]
  part,      \* partition -> its PartitionState
  rows       \* partition -> the rows it has returned

vars == <<call, stage, expand, part, rows>>

Parts == 1..Partitions

Lesser(a, b) == IF a <= b THEN a ELSE b

(***************************** catalog listings ****************************)

\* The entry types each listing keeps; COPY functions are not listed.
ListTables == {"Table"}

ListViews == {"View"}

ListFunctions == {"TableFunction", "ScalarFunction", "AggregateFunction"}

EntryTypes(fn) ==
  CASE fn = "list_tables"    -> ListTables
    [] fn = "list_views"     -> ListViews
    [] fn = "list_functions" -> ListFunctions

load_entries(dbs, types) ==
  FlattenSeq([i \in DOMAIN dbs |->
    FlattenSeq([j \in DOMAIN dbs[i].schemas |->
      LET kept == SelectSeq(dbs[i].schemas[j].entries, LAMBDA e : e.type \in types)
      IN  [k \in DOMAIN kept |-> <<dbs[i].name, dbs[i].schemas[j].name, kept[k]>>]])])

get_doc_for_arity(docs, arity) ==
  LET found == SelectSeq(docs, LAMBDA d : d = arity)
  IN  IF found = <<>> THEN <<>> ELSE <<found[1]>>

alias_of(e) == IF e.name = e.set THEN <<>> ELSE <<e.set>>

\* One row per signature of a function.
function_rows(ns) ==
  LET e == ns[3]
  IN  [k \in DOMAIN e.sigs |->
         <<ns[1], ns[2], e.name, alias_of(e), e.type,
           get_doc_for_arity(e.docs, e.sigs[k]), e.sigs[k]>>]

EntryRows(fn, ns) ==
  IF fn = "list_functions" THEN function_rows(ns) ELSE <<<<ns[1], ns[2], ns[3].name>>>>

\* The chunk with index i is added to partition i % states.len().
ChunkFor(i, p) == i % Partitions = p - 1

create_entry_states(fn, entries) ==
  LET Chunk(i) == SubSeq(entries, i * Capacity + 1, Lesser((i + 1) * Capacity, Len(entries)))
      Of(p) == FlattenSeq([i \in 1..((Len(entries) + Capacity - 1) \div Capacity) |->
                 IF ChunkFor(i - 1, p)
                 THEN FlattenSeq([k \in DOMAIN Chunk(i - 1) |-> EntryRows(fn, Chunk(i - 1)[k])])
                 ELSE <<>>])
  IN  [p \in Parts |-> [held |-> Of(p), offset |-> 0, done |-> FALSE]]

(***************************** query profiles ******************************)

MutRetainOne(profiles, id) == <<id>> \o SubSeq(profiles, 1, Lesser(Len(profiles), Retained - 1))

\* Profiles are dropped from the back while more than the limit are held, and
\* only then is the new one put in front.
push_profile(profiles, id) == <<id>> \o SubSeq(profiles, 1, Lesser(Len(profiles), Retained))

Collected(queries) ==
  FoldLeft(LAMBDA acc, q : push_profile(acc, q), <<>>, [i \in DOMAIN queries |-> i])

get_profile(profiles, n) == IF n < Len(profiles) THEN <<profiles[n + 1]>> ELSE <<>>

get_profile_by_id(profiles, id) ==
  LET found == SelectSeq(profiles, LAMBDA q : q = id)
  IN  IF found = <<>> THEN <<>> ELSE <<found[1]>>

ProfileFor(profiles, arg) ==
  CASE arg.by = "id"    -> get_profile_by_id(profiles, arg.n)
    [] arg.by = "index" -> get_profile(profiles, arg.n)
    [] arg.by = "none"  -> get_profile(profiles, 0)

PlanSteps == <<"resolve", "bind", "plan_logical", "plan_optimize", "plan_physical",
               "plan_executable">>

planning_rows(id, q) ==
  IF q.planned THEN [i \in DOMAIN PlanSteps |-> <<id, i, PlanSteps[i]>>] ELSE <<>>

optimizer_rows(id, q) ==
  IF q.planned THEN [i \in DOMAIN q.rules |-> <<id, i, q.rules[i]>>] ELSE <<>>

\* One row per operator of every partition pipeline.
execution_rows(id, q) ==
  FlattenSeq([i \in DOMAIN q.pipelines |->
    [k \in DOMAIN q.pipelines[i] |-> <<id, i, q.pipelines[i][k]>>]])

query_info_rows(id) == <<<<id>>>>

profile_as_rows(fn, id, q) ==
  CASE fn = "planning_profile"  -> planning_rows(id, q)
    [] fn = "optimizer_profile" -> optimizer_rows(id, q)
    [] fn = "execution_profile" -> execution_rows(id, q)
    [] fn = "query_info"        -> query_info_rows(id)

profile_bind(c) ==
  LET found == ProfileFor(Collected(c.queries), c.arg)
  IN  IF found = <<>> THEN <<>> ELSE profile_as_rows(c.fn, found[1], c.queries[found[1]])

(***************************** Iceberg metadata ****************************)

StatusName(i) == IF i \in 0..2 THEN <<(<<"EXISTING", "ADDED", "DELETED">>)[i + 1]>> ELSE <<>>

ContentName(i) ==
  IF i \in 0..2 THEN <<(<<"DATA", "POSITION DELETES", "EQUALITY DELETES">>)[i + 1]>> ELSE <<>>

\* A file name is compared character by character, as a string.
LexAtMost(a, b) ==
  \/ IsPrefix(a, b)
  \/ \E k \in 1..Lesser(Len(a), Len(b)) :
       SubSeq(a, 1, k - 1) = SubSeq(b, 1, k - 1) /\ a[k] < b[k]

MutOldest(root) == CHOOSE f \in root : \A g \in root : LexAtMost(f.version, g.version)

\* The lexicographically greatest metadata file is taken as the latest.
open_root(root) == CHOOSE f \in root : \A g \in root : LexAtMost(g.version, f.version)

current_snapshot(meta) == SelectSeq(meta.snapshots, LAMBDA s : meta.current = <<s.id>>)

\* The manifest list of the current snapshot, <<>> when a lookup fails.
load_manifest_list(meta) ==
  LET found == current_snapshot(meta)
  IN  IF found = <<>> THEN <<>> ELSE found[1].list

Readable(entry) == StatusName(entry.status) # <<>> /\ ContentName(entry.content) # <<>>

ManifestsReadable(manifests) ==
  \A m \in DOMAIN manifests : \A e \in DOMAIN manifests[m] : Readable(manifests[m][e])

EntryRow(entry) == <<entry.path, StatusName(entry.status)[1], ContentName(entry.content)[1]>>

\* Entries of every manifest, in the order of the manifest list.
data_file_rows(manifests) ==
  FlattenSeq([m \in DOMAIN manifests |->
    [e \in DOMAIN manifests[m] |-> EntryRow(manifests[m][e])]])

IcebergFns == {"metadata", "snapshots", "manifest_list", "data_files"}

\* How much of the table a function loads decides which failures it can meet.
LoadFails(fn, root) ==
  \/ root = {}
  \/ fn \in {"manifest_list", "data_files"} /\ load_manifest_list(open_root(root)) = <<>>
  \/ fn = "data_files" /\ ~ManifestsReadable(load_manifest_list(open_root(root))[1])

table_metadata_rows(meta) == <<<<meta.version>>>>

snapshot_rows(meta) == [i \in DOMAIN meta.snapshots |-> <<meta.snapshots[i].id>>]

manifest_list_rows(list) == [i \in DOMAIN list |-> <<i>>]

iceberg_rows(fn, root) ==
  LET meta == open_root(root)
  IN  CASE fn = "metadata"      -> table_metadata_rows(meta)
        [] fn = "snapshots"     -> snapshot_rows(meta)
        [] fn = "manifest_list" -> manifest_list_rows(load_manifest_list(meta)[1])
        [] fn = "data_files"    -> data_file_rows(load_manifest_list(meta)[1])

(******************************* TPC-H tables ******************************)

FixedTables == {"region", "nation"}

ScaledTables == {"lineitem", "orders"}

\* create_row_iter fails for a scaled table that is given no scale factor.
tpch_fails(c) == c.table \in ScaledTables /\ c.sf = <<>>

tpch_rows(c) ==
  [i \in 1..(IF c.table \in FixedTables THEN c.base ELSE c.base * c.sf[1]) |-> <<c.table, i>>]

(************************* rows held by a partition ************************)

ProfileFns == {"planning_profile", "optimizer_profile", "execution_profile", "query_info"}

EntryFns == {"list_tables", "list_views", "list_functions"}

HeldFns == EntryFns \cup ProfileFns \cup IcebergFns \cup {"list_databases", "tpch"}

\* All rows go to the first partition; the others start with none.
first_partition(all) ==
  [p \in Parts |-> [held |-> IF p = 1 THEN all ELSE <<>>, offset |-> 0, done |-> FALSE]]

database_rows(dbs) == [i \in DOMAIN dbs |-> <<dbs[i].name>>]

HeldStates(c) ==
  CASE c.fn \in EntryFns       -> create_entry_states(c.fn, load_entries(c.dbs, EntryTypes(c.fn)))
    [] c.fn = "list_databases" -> first_partition(database_rows(c.dbs))
    [] c.fn \in ProfileFns     -> first_partition(profile_bind(c))
    [] c.fn \in IcebergFns     -> first_partition(iceberg_rows(c.fn, c.root))
    [] c.fn = "tpch"           -> first_partition(tpch_rows(c))

\* When a poll that returned count rows, with rest still held, is Exhausted.
entries_exhausted(rest) == rest = 0

databases_exhausted(count) == count # Capacity

MutFullBatchEnds(count) == count <= Capacity

profile_exhausted(count) == count < Capacity

tpch_exhausted(count) == count < Capacity

metadata_exhausted(count) == count = 0

ExhaustedAfter(fn, count, rest) ==
  CASE fn \in EntryFns       -> entries_exhausted(rest)
    [] fn = "list_databases" -> databases_exhausted(count)
    [] fn \in ProfileFns     -> profile_exhausted(count)
    [] fn = "tpch"           -> tpch_exhausted(count)
    [] fn \in IcebergFns     -> metadata_exhausted(count)

poll_held(p) ==
  /\ stage = "pulling"
  /\ call.fn \in HeldFns
  /\ ~part[p].done
  /\ LET st    == part[p]
         count == Lesser(Capacity, Len(st.held) - st.offset)
     IN  /\ rows' = [rows EXCEPT ![p] = @ \o SubSeq(st.held, st.offset + 1, st.offset + count)]
         /\ part' = [part EXCEPT ![p] =
              [st EXCEPT !.offset = st.offset + count,
                         !.done = ExhaustedAfter(call.fn, count, Len(st.held) - st.offset - count)]]
  /\ UNCHANGED <<call, stage, expand>>

(******************************* list_schemas ******************************)

\* A memory catalog's stream yields all its schemas at once and then ends.
schema_stream(db) == <<[i \in DOMAIN db.schemas |-> db.schemas[i].name]>>

schema_states(c) ==
  [p \in Parts |-> [dbs |-> IF p = 1 THEN c.dbs ELSE <<>>, db |-> 1, stream |-> <<>>,
                    schemas |-> <<>>, offset |-> 0, done |-> FALSE]]

\* The stream ended: the next poll opens the stream of the next database.
next_database(st) == [st EXCEPT !.db = @ + 1, !.stream = <<>>]

\* The state with a stream open, or with the next non-empty list of schemas.
Streamed(st) ==
  LET open == IF st.stream = <<>> THEN schema_stream(st.dbs[st.db]) ELSE st.stream[1]
      some == SelectSeq(open, LAMBDA s : s # <<>>)
  IN  IF some = <<>> THEN next_database(st)
      ELSE [st EXCEPT !.stream = <<Tail(some)>>, !.schemas = some[1], !.offset = 0]

poll_list_schemas(p) ==
  /\ stage = "pulling"
  /\ call.fn = "list_schemas"
  /\ ~part[p].done
  /\ LET st    == part[p]
         dry   == st.offset >= Len(st.schemas)
         over  == dry /\ st.stream = <<>> /\ st.db > Len(st.dbs)
         ready == IF dry /\ ~over THEN Streamed(st) ELSE st
         count == Lesser(Capacity, Len(ready.schemas) - ready.offset)
     IN  /\ part' = [part EXCEPT ![p] = IF over THEN [st EXCEPT !.done = TRUE]
                                        ELSE [ready EXCEPT !.offset = ready.offset + count]]
         /\ rows' = [rows EXCEPT ![p] = @ \o
              (IF over THEN <<>>
               ELSE [i \in 1..count |-> <<ready.dbs[ready.db].name, ready.schemas[ready.offset + i]>>])]
  /\ UNCHANGED <<call, stage, expand>>

(**************************** expanding the paths **************************)

Recursive == {"**"}

is_glob(pattern) == \E i \in DOMAIN pattern : pattern[i] = Recursive \/ Cardinality(pattern[i]) # 1

\* The entries of a directory: a name, and whether it is a directory itself.
Listing(tree, dir) ==
  LET below == {f \in tree : Len(f) > Len(dir) /\ SubSeq(f, 1, Len(dir)) = dir}
      names == {f[Len(dir) + 1] : f \in below}
  IN  SetToSeq({[name |-> n, is_dir |-> Append(dir, n) \notin tree] : n \in names})

MutOnlyDeeper(h, ent, segments) == <<[dir |-> Append(h.dir, ent.name), seg |-> h.seg, at |-> 0]>>

\* "**" is kept for the child directory, and also left behind for it.
recursive_children(h, ent, segments) ==
  <<[dir |-> Append(h.dir, ent.name), seg |-> h.seg, at |-> 0]>>
    \o (IF h.seg < Len(segments)
        THEN <<[dir |-> Append(h.dir, ent.name), seg |-> h.seg + 1, at |-> 0]>>
        ELSE <<>>)

Children(h, ent, segments) ==
  CASE ~ent.is_dir                    -> <<>>
    [] segments[h.seg] = Recursive    -> recursive_children(h, ent, segments)
    [] /\ ent.name \in segments[h.seg]
       /\ h.seg < Len(segments)       -> <<[dir |-> Append(h.dir, ent.name), seg |-> h.seg + 1, at |-> 0]>>
    [] OTHER                          -> <<>>

Emits(h, ent, segments) ==
  /\ ~ent.is_dir
  /\ h.seg = Len(segments)
  /\ segments[h.seg] = Recursive \/ ent.name \in segments[h.seg]

\* One listing of the directory on top of the stack: an exhausted directory is
\* popped, otherwise matching files are appended and matching directories pushed.
poll_expand(tree, segments, ex) ==
  LET h    == Last(ex.stack)
      all  == Listing(tree, h.dir)
      got  == SubSeq(all, h.at + 1, Lesser(h.at + ListChunk, Len(all)))
      kids == FlattenSeq([i \in DOMAIN got |-> Children(h, got[i], segments)])
      hits == SelectSeq(got, LAMBDA e : Emits(h, e, segments))
  IN  IF got = <<>> THEN [ex EXCEPT !.stack = Front(@)]
      ELSE [ex EXCEPT !.stack = Append(Front(@), [h EXCEPT !.at = @ + Len(got)]) \o kids,
                      !.expanded = @ \o [i \in DOMAIN hits |-> Append(h.dir, hits[i].name)]]

\* A path without a glob is handed out as it is; a list of paths is not expanded.
StartExpand(c) ==
  IF c.fn \notin {"glob", "read_text"} THEN [stack |-> <<>>, expanded |-> <<>>, n |-> 0]
  ELSE IF c.list # <<>> THEN [stack |-> <<>>, expanded |-> c.list, n |-> 1]
  ELSE IF ~is_glob(c.pattern)
       THEN [stack |-> <<>>, n |-> 1,
             expanded |-> <<[i \in DOMAIN c.pattern |-> CHOOSE x \in c.pattern[i] : TRUE]>>]
  ELSE [stack |-> <<[dir |-> <<>>, seg |-> 1, at |-> 0]>>, expanded |-> <<>>, n |-> 1]

\* ExpandAll: asks for more paths than there are until the provider is empty.
ExpandAll ==
  /\ stage = "binding"
  /\ expand.stack # <<>>
  /\ expand' = IF expand.n < Len(expand.expanded) THEN [expand EXCEPT !.n = @ + 10]
               ELSE poll_expand(call.tree, call.pattern, expand)
  /\ UNCHANGED <<call, stage, part, rows>>

\* skip(partition_idx).step_by(partitions) of the expanded paths.
paths_of(p) ==
  LET all == expand.expanded
  IN  [i \in 1..((Len(all) - p + Partitions) \div Partitions) |-> all[p + (i - 1) * Partitions]]

(********************************** glob ***********************************)

glob_states == [p \in Parts |-> [paths |-> paths_of(p), done |-> FALSE]]

\* Paths are taken from the back.
truncate(paths, count) == SubSeq(paths, 1, Len(paths) - count)

poll_glob(p) ==
  /\ stage = "pulling"
  /\ call.fn = "glob"
  /\ ~part[p].done
  /\ LET paths == part[p].paths
         count == Lesser(Capacity, Len(paths))
     IN  IF count = 0 THEN part' = [part EXCEPT ![p].done = TRUE] /\ UNCHANGED rows
         ELSE /\ part' = [part EXCEPT ![p].paths = truncate(paths, count)]
              /\ rows' = [rows EXCEPT ![p] = @ \o SubSeq(Reverse(paths), 1, count)]
  /\ UNCHANGED <<call, stage, expand>>

(******************************** read_text ********************************)

text_states ==
  [p \in Parts |-> [queue |-> paths_of(p), read |-> "Init", file |-> <<>>, buf |-> <<>>,
                    offset |-> 0, done |-> FALSE]]

poll_text_open(p) ==
  /\ stage = "pulling"
  /\ call.fn = "read_text"
  /\ ~part[p].done /\ part[p].read = "Init"
  /\ part' = [part EXCEPT ![p] =
       IF @.queue = <<>> THEN [@ EXCEPT !.done = TRUE]
       ELSE [@ EXCEPT !.queue = Tail(@), !.file = Head(part[p].queue), !.read = "Opening"]]
  /\ UNCHANGED <<call, stage, expand, rows>>

\* The buffer of the previous file is reused at the size of this one.
resize(buf, size) == [i \in 1..size |-> IF i <= Len(buf) THEN buf[i] ELSE 0]

opened(st, content) ==
  [st EXCEPT !.read = "Scanning", !.offset = 0,
             !.buf = IF call.projected THEN resize(st.buf, Len(content)) ELSE st.buf]

\* The open completed, unless the file is missing.
poll_text_opened(p) ==
  /\ stage = "pulling"
  /\ call.fn = "read_text"
  /\ part[p].read = "Opening"
  /\ IF part[p].file \in call.tree
     THEN /\ part' = [part EXCEPT ![p] = opened(part[p], call.content[part[p].file])]
          /\ UNCHANGED stage
     ELSE stage' = "failed" /\ UNCHANGED part
  /\ UNCHANGED <<call, expand, rows>>

\* A read completes with some of the bytes that are left, into the rest of the
\* buffer.  A read of nothing ends the file and emits its row.
poll_text_read(p) ==
  /\ stage = "pulling"
  /\ call.fn = "read_text"
  /\ part[p].read = "Scanning"
  /\ LET st   == part[p]
         data == call.content[st.file]
         room == Lesser(Len(st.buf), Len(data)) - st.offset
     IN  \/ /\ room <= 0
            /\ part' = [part EXCEPT ![p].read = "Init"]
            /\ rows' = [rows EXCEPT ![p] =
                 Append(@, <<st.file, IF call.projected THEN <<st.buf>> ELSE <<>>>>)]
         \/ \E n \in 1..room :
              /\ part' = [part EXCEPT ![p].offset = @ + n,
                                      ![p].buf = [i \in DOMAIN @ |->
                                        IF i \in (st.offset + 1)..(st.offset + n) THEN data[i] ELSE @[i]]]
              /\ UNCHANGED rows
  /\ UNCHANGED <<call, stage, expand>>

(****************************** generate_series ****************************)

\* The input row [start, stop, step], or [start, stop] with step 1.
SeriesParams(r) == [curr |-> r[1], stop |-> r[2], step |-> IF Len(r) = 2 THEN 1 ELSE r[3]]

MutExclusive(par, k) ==
  LET v == par.curr + (k - 1) * par.step
  IN  IF par.step > 0 THEN v < par.stop ELSE v > par.stop

\* The k-th value from here is still inside the range.
within(par, k) ==
  LET v == par.curr + (k - 1) * par.step
  IN  IF par.step > 0 THEN v <= par.stop ELSE v >= par.stop

\* At most an output batch of values, and the parameters of the next call.
generate_next(par) ==
  LET count == Cardinality({k \in 1..Capacity : within(par, k)})
  IN  [values |-> [k \in 1..count |-> par.curr + (k - 1) * par.step],
       params |-> [par EXCEPT !.curr = @ + count * par.step]]

\* The first row from `row` on, of the input batch, that yields a value; the
\* parameters carry over when a series is longer than an output batch.
RECURSIVE series_execute(_, _, _)
series_execute(batch, row, params) ==
  IF params = <<>> /\ row > Len(batch)
  THEN [poll |-> "NeedsMore", row |-> 1, params |-> <<>>, values |-> <<>>]
  ELSE LET par == IF params = <<>> THEN SeriesParams(batch[row]) ELSE params[1]
           got == generate_next(par)
       IN  CASE par.step = 0       -> [poll |-> "Error", row |-> row, params |-> params, values |-> <<>>]
             [] got.values = <<>>  -> series_execute(batch, row + 1, <<>>)
             [] OTHER              -> [poll |-> "HasMore", row |-> row, params |-> <<got.params>>,
                                       values |-> got.values]

series_states(c) ==
  [p \in Parts |-> [batches |-> c.batches[p], row |-> 1, params |-> <<>>, curr |-> 0,
                    needs_next |-> TRUE, done |-> FALSE]]

\* The projected operator moves to the next input row before it calls the function.
takes_next_row(st) == st.needs_next

\* PhysicalTableExecute with additional projections: the function is called on
\* one input row at a time, and its values are joined to that row.
RECURSIVE projected_execute(_)
projected_execute(st) ==
  LET at  == IF takes_next_row(st) THEN st.curr + 1 ELSE st.curr
      got == series_execute(<<st.batches[1][at]>>, st.row, st.params)
  IN  IF takes_next_row(st) /\ at > Len(st.batches[1])
      THEN [poll |-> "NeedsMore", st |-> [st EXCEPT !.curr = 0], out |-> <<>>]
      ELSE LET next == [st EXCEPT !.curr = at, !.needs_next = got.poll = "NeedsMore",
                                  !.row = got.row, !.params = got.params]
           IN  IF got.poll = "NeedsMore" THEN projected_execute(next)
               ELSE [poll |-> got.poll, st |-> next,
                     out |-> [k \in DOMAIN got.values |-> <<at, got.values[k]>>]]

\* Without them the whole batch is handed to the function.
plain_execute(st) ==
  LET got == series_execute(st.batches[1], st.row, st.params)
  IN  [poll |-> got.poll, st |-> [st EXCEPT !.row = got.row, !.params = got.params],
       out |-> [k \in DOMAIN got.values |-> <<got.row, got.values[k]>>]]

poll_execute(p) ==
  /\ stage = "pulling"
  /\ call.fn = "generate_series"
  /\ ~part[p].done
  /\ IF part[p].batches = <<>>
     THEN part' = [part EXCEPT ![p].done = TRUE] /\ UNCHANGED <<rows, stage>>
     ELSE LET got   == IF call.projected THEN projected_execute(part[p]) ELSE plain_execute(part[p])
              batch == Len(call.batches[p]) - Len(part[p].batches) + 1
          IN  /\ part' = [part EXCEPT ![p] =
                   IF got.poll = "NeedsMore" THEN [got.st EXCEPT !.batches = Tail(@)] ELSE got.st]
              /\ rows' = [rows EXCEPT ![p] = @ \o
                   [k \in DOMAIN got.out |-> <<p, batch, got.out[k][1], got.out[k][2]>>]]
              /\ stage' = IF got.poll = "Error" THEN "failed" ELSE stage
  /\ UNCHANGED <<call, expand>>

(***************************** the specification ***************************)

BindFails(c) ==
  CASE c.fn \in IcebergFns -> LoadFails(c.fn, c.root)
    [] c.fn = "tpch"       -> tpch_fails(c)
    [] OTHER               -> FALSE

\* Binding ends once the paths are expanded; the partition states are created.
Bind ==
  /\ stage = "binding"
  /\ expand.stack = <<>>
  /\ IF BindFails(call) THEN stage' = "failed" /\ UNCHANGED part
     ELSE /\ stage' = "pulling"
          /\ part' = CASE call.fn \in HeldFns         -> HeldStates(call)
                       [] call.fn = "list_schemas"    -> schema_states(call)
                       [] call.fn = "glob"            -> glob_states
                       [] call.fn = "read_text"       -> text_states
                       [] call.fn = "generate_series" -> series_states(call)
  /\ UNCHANGED <<call, expand, rows>>

Init ==
  /\ call \in Calls
  /\ stage = "binding"
  /\ expand = StartExpand(call)
  /\ part = <<>>
  /\ rows = [p \in Parts |-> <<>>]

Poll(p) ==
  \/ poll_held(p)
  \/ poll_list_schemas(p)
  \/ poll_glob(p)
  \/ poll_text_open(p)
  \/ poll_text_opened(p)
  \/ poll_text_read(p)
  \/ poll_execute(p)

Exhausted == stage = "pulling" /\ \A p \in Parts : part[p].done

\* The query is over: nothing is polled any more.
Finished == (stage = "failed" \/ Exhausted) /\ UNCHANGED vars

Next == ExpandAll \/ Bind \/ (\E p \in Parts : Poll(p)) \/ Finished

Spec == Init /\ [][Next]_vars

(******************************** properties *******************************)

TypeOK ==
  /\ call \in Calls
  /\ stage \in {"binding", "pulling", "failed"}
  /\ \A p \in Parts : Len(rows[p]) <= 64

\* What a path matches, segment by segment: "**" stands for one directory or
\* more (the code does not try the following segment in the directory it is in).
RECURSIVE PathMatches(_, _)
PathMatches(path, segments) ==
  IF path = <<>> \/ segments = <<>> THEN path = <<>> /\ segments = <<>>
  ELSE IF Head(segments) = Recursive
       THEN \/ Len(segments) = 1
            \/ \E k \in 1..Len(path) : PathMatches(SubSeq(path, k + 1, Len(path)), Tail(segments))
       ELSE Head(path) \in Head(segments) /\ PathMatches(Tail(path), Tail(segments))

NamedFiles(c) ==
  IF c.list # <<>> THEN ToSet(c.list)
  ELSE IF is_glob(c.pattern) THEN {f \in c.tree : PathMatches(f, c.pattern)}
  ELSE {f \in {<<x>> : x \in c.pattern[1]} : Len(c.pattern) = 1}

\* The values start, start + step, ... up to and including stop.
SeriesValues(r) ==
  LET step == IF Len(r) = 2 THEN 1 ELSE r[3]
  IN  {v \in -20..20 : /\ (v - r[1]) * step >= 0
                       /\ (r[2] - v) * step >= 0
                       /\ \E k \in 0..40 : v = r[1] + k * step}

AskedProfile(c) ==
  LET n == Len(c.queries)
  IN  {q \in 1..n : /\ n - q <= Retained
                    /\ q = CASE c.arg.by = "id" -> c.arg.n
                             [] c.arg.by = "index" -> n - c.arg.n
                             [] OTHER -> n}

ExpectedProfile(c) ==
  UNION {LET s == c.queries[q]
         IN  CASE c.fn = "query_info" -> {<<q>>}
               [] c.fn = "planning_profile" ->
                    {<<q, i, PlanSteps[i]>> : i \in IF s.planned THEN 1..6 ELSE {}}
               [] c.fn = "optimizer_profile" ->
                    {<<q, i, s.rules[i]>> : i \in IF s.planned THEN DOMAIN s.rules ELSE {}}
               [] c.fn = "execution_profile" ->
                    UNION {{<<q, i, s.pipelines[i][k]>> : k \in DOMAIN s.pipelines[i]} :
                             i \in DOMAIN s.pipelines}
         : q \in AskedProfile(c)}

ExpectedEntries(c) ==
  UNION {UNION {UNION {IF e.type \notin EntryTypes(c.fn) THEN {}
                       ELSE ToSet(EntryRows(c.fn, <<db.name, s.name, e>>))
                       : e \in ToSet(s.entries)} : s \in ToSet(db.schemas)} : db \in ToSet(c.dbs)}

ExpectedIceberg(c) ==
  LET Number(f) == FoldLeft(LAMBDA acc, d : 10 * acc + d, 0, f.version)
      latest    == CHOOSE f \in c.root : \A g \in c.root : Number(g) <= Number(f)
      listed    == {s.list[1] : s \in {t \in ToSet(latest.snapshots) : latest.current = <<t.id>>}}
  IN  CASE c.fn = "metadata"      -> {<<latest.version>>}
        [] c.fn = "snapshots"     -> {<<s.id>> : s \in ToSet(latest.snapshots)}
        [] c.fn = "manifest_list" -> UNION {{<<i>> : i \in DOMAIN l} : l \in listed}
        [] c.fn = "data_files"    ->
             UNION {UNION {{EntryRow(m[e]) : e \in DOMAIN m} : m \in ToSet(l)} : l \in listed}

Expected(c) ==
  CASE c.fn \in EntryFns         -> ExpectedEntries(c)
    [] c.fn \in ProfileFns       -> ExpectedProfile(c)
    [] c.fn \in IcebergFns       -> ExpectedIceberg(c)
    [] c.fn = "list_databases"   -> {<<db.name>> : db \in ToSet(c.dbs)}
    [] c.fn = "list_schemas"     -> UNION {{<<db.name, s.name>> : s \in ToSet(db.schemas)} : db \in ToSet(c.dbs)}
    [] c.fn = "tpch"             -> {<<c.table, i>> : i \in 1..(IF c.table \in FixedTables THEN c.base
                                                                 ELSE c.base * c.sf[1])}
    [] c.fn = "glob"             -> NamedFiles(c)
    [] c.fn = "read_text"        -> {<<f, IF c.projected /\ f \in c.tree THEN <<c.content[f]>> ELSE <<>>>> : f \in NamedFiles(c)}
    [] c.fn = "generate_series"  ->
         UNION {UNION {UNION {{<<p, b, r, v>> : v \in SeriesValues(c.batches[p][b][r])} :
                  r \in DOMAIN c.batches[p][b]} : b \in DOMAIN c.batches[p]} : p \in DOMAIN c.batches}

\* A table function returns, over all its partitions and batches, each row of
\* what it lists exactly once: rows are split by chunk, by stride or to the first
\* partition, a batch may end exactly at the end of the rows, and a series may
\* span batches.
RowsReturnedOnce ==
  stage = "pulling" =>
    LET all == FlattenSeq([p \in Parts |-> rows[p]])
    IN  /\ IsInjective(all)
        /\ ToSet(all) \subseteq Expected(call)
        /\ Exhausted => ToSet(all) = Expected(call)

=============================================================================
