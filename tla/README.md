# GlareDB: a TLA+ model of the query engine

GlareDB parses a SQL statement, resolves and binds its names, plans and
optimizes it, cuts the plan into pipelines of operators and runs each pipeline
once per partition.  A partition
pipeline is a task: a thread pool polls it, it parks when it must wait, and
whoever ends the wait wakes it.  Partitions meet in shared operator state: the
table of a hash join, the merge queue of a sort, the slot of a union, the result
stream.  Operators read and write batches of rows; scans take them from memory
tables, CSV and Parquet files; expressions are evaluated on them row by row.
The models in this directory follow that structure.  Each module is written
from the source files named in `PROJECT.json` (`map` gives the lines of every
definition).

## The system and its inventory

| part | source | module | state |
|---|---|---|---|
| native scheduler | `glaredb_rt_native/src/threaded` | `TaskScheduler`, `WakeContract` | modelled, proved |
| cancel against the stream | `handle.rs`, `results/streaming.rs` | `QueryCancel` | modelled |
| execution stack | `execution/execution_stack.rs`, `partition_pipeline.rs` | `ExecutionStack` | modelled, proved |
| result stream, profiles | `results/streaming.rs`, `runtime/profile_buffer.rs` | `ResultStream` | modelled, proved |
| hash join | `operators/hash_join` | `HashJoin` | modelled, proved |
| join under LIMIT | `limit.rs`, `execution_stack.rs` | `HashJoin` (`LimitSpec`) | modelled, proved |
| nested loop join | `operators/nested_loop_join` | `NestedLoopJoin` | modelled, barriers proved |
| LIMIT, OFFSET | `operators/limit.rs` | `Limit` | modelled, proved |
| UNION ALL | `operators/union.rs` | `Union` | modelled, proved |
| materialization | `operators/materialize.rs` | `Materialize` | modelled, proved |
| concurrent collection | `arrays/collection` | `ColumnCollection` | modelled |
| INSERT, memory tables | `catalog/insert.rs`, `memory_scan.rs` | `TableInsert` | modelled |
| CREATE TABLE AS | `catalog/create_table_as.rs` | `CreateTableAs` | modelled, proved |
| sort | `operators/sort`, `arrays/sort` | `GlobalSort`, `BinaryMerge` | modelled, merge queue proved |
| rows and sort keys as bytes | `arrays/row`, `arrays/sort` | `RowStorage` | partly |
| GROUP BY | `operators/hash_aggregate` | `HashAggregate`, `PartitionedTable`, `AggregateTable` | modelled, barriers proved |
| aggregate without GROUP BY | `ungrouped_aggregate.rs` | `UngroupedAggregate` | modelled, barriers proved |
| aggregate functions | `functions/aggregate`, `statistics` | `AggregateStates` | modelled |
| catalog, storage manager | `catalog/memory.rs`, `storage` | `Catalog` | partly, proved |
| CSV reader | `glaredb_ext_csv` | `CsvScan` | modelled |
| Parquet pages and columns | `glaredb_ext_parquet/src/reader.rs`, `column` | `ParquetScan` | partly |
| Parquet footer | `format.rs`, `thrift.rs` | `ParquetFormat` | modelled |
| Parquet schema | `basic.rs`, `schema` | `ParquetSchema` | modelled |
| Parquet metadata | `metadata`, `functions/metadata.rs` | `ParquetMetadata` | partly |
| other table functions | `functions/table/builtin`, `glob.rs`, Iceberg metadata, TPC-H | `TableFunctions` | partly |
| tokenizer and parser | `glaredb_parser` | `SqlParser` | modelled |
| resolver and binder of queries | `logical/resolver`, `logical/binder` | `Binder` | partly |
| logical planner | `logical/planner` | `Plans` | partly |
| optimizer | `optimizer` | `Optimizer`, `RewriteRules` | partly |
| physical planner, stateless operators | `execution/planner`, `expr/physical` | `Plans` | partly |
| casts | `functions/cast`, `expr/cast_expr.rs` | `Casts` | partly |
| scalar functions | `functions/candidate.rs`, `functions/scalar/builtin` | `ScalarExpressions` | partly |
| string functions | `functions/scalar/builtin/string` | `StringFunctions` | partly |
| sessions | `engine` | | not modelled |
| HTTP, Delta, shell, WASM, bindings | `glaredb_http`, `glaredb_ext_delta`, `shell`, ... | | not modelled |

`PROJECT.json` lists the same parts with what each module leaves out, and the
hazards of the code, at the line where each bites.

## How the modules hang together

`WakeContract` says what an operator may assume of the scheduler: a task that
was woken is polled again, and a task is polled by one thread at a time.
`TaskScheduler` implements it (property `KeepsWakeContract`, theorem
`Refinement`).  The operator modules rest on the contract: a task whose waker
is stored is *parked*, takes no step, and becomes able to act when the waker is
taken.  A parked task is a member of a set such as `pullWaker` or `wakers`.
Weak fairness of a task that is not parked stands for the contract's promise.

`ColumnCollection` and `PartitionedTable` are libraries without a
specification of their own.  `Materialize`, `TableInsert` and `NestedLoopJoin`
extend the first, `HashAggregate` and `UngroupedAggregate` the second.
`HashJoin` has two more specifications: `LimitSpec`, with the limit operator
behind the join, and `ChainSpec`, the compare-and-swap inserts into the chains of
its table.  In `LimitSpec` a partition whose limit is reached drops the
instructions below the limit, so its join is `abandoned`: it is neither polled
nor finalized again.  In all three a block of the left side has one row; that a
drain stopped inside a block of several goes on behind the last row it returned
(`LoadRowPtrs`) is checked by itself, for small blocks and batches of every size
(`DrainInBlocks`).  `QueryCancel`
joins the scheduler's `schedule` and `cancel` with the stream's `poll_next` at
the granularity of their locks.  `RowStorage` lies below the sort, the joins and
the aggregates: what is one row in those modules is a string of bytes with
pointers into a heap here.

`Plans` says what a logical plan is and which rows it returns, and makes plans of
queries, with the decorrelation of subqueries.  `Binder` makes
those queries of syntax trees: it resolves tables, views and CTEs, keeps the bind
context with its scopes and table references, and looks names up in it.
`RewriteRules` (filter pushdown, column pruning, expression rewrites, limits,
common subexpressions) are rules of the optimizer; `Optimizer` has the join
reordering, composes binder, planner and rules in the order of
`Session::bind_prepared` and `Optimizer::optimize`, and compares the rows of the
plan after every rule with what the query means.  For a syntax tree the meaning
(`ParsedMeaning`) is an evaluation that looks every name up in the row at hand
and in the rows around it, without table references.

`SqlParser` is the tokenizer, the precedence climbing of `parse_subexpr` and the
grammar of every statement, over texts of letters and words.  A production of the
AST is a sequence of items, and `Step` does what the methods of `Parser` do with
one.  What a statement means is stated from the other side: statements are put
together with their trees, and an expression or a set operation without brackets
must have a tree that, written out, gives its tokens back and has the stronger
operators below the weaker ones.  The trees of `SqlParser` have every construct
of the grammar, those that `Binder` starts from only what queries need; the two
modules are not composed.

`ParquetFormat` reads the bytes of a footer, `ParquetSchema` makes a schema of
its elements, `ParquetMetadata` gives the three metadata tables, `ParquetScan`
scans the row groups.  `Casts` is the library of types and casts that
`ScalarExpressions` extends with the choice of a signature, the binding of
decimals and the functions.

An action is the part of a `poll_*` call, or of a loop body, that runs under
one lock; where the code gives the lock back, a new action begins.  A batch is
the number of its rows or a sequence of rows, a row is a model value or a short
tuple, and a hash is given by a constant function, so that collisions can be
chosen.  Integers, floats and decimals keep their ends, their rounding and their
overflow, but their widths are constants and small in the runs.  Sequential
code without shared state is a short behaviour: a call is chosen, its steps are
taken in the order of the code, and its answer is compared with a definition
of what it means that is written independently of the code.

Some definitions are written out a second time with one thing wrong (`Mut...`).
They are not part of any specification.  They stand before the definition they
vary, and show that a property depends on it.

## What is checked

A run checks a family of components, one at a time: the `MC...` module of the
family chooses the component in its initial state (`component`, `operator`),
takes only steps of that one, and states the properties of the family.  Where a
property of the family is proved as well, choice, steps and property stand in
`JoinProofs` and `QueryOperators`, which the `MC...` modules extend.  The
`.cfg` gives the constants; the ones that are functions or sequences are
defined in the `MC...` module.

| run | components | what it shows |
|---|---|---|
| `execution` | `TaskScheduler`, `ExecutionStack`, `ResultStream`, `QueryCancel` | no lost wake-up, cancels are reported, the contract is kept (`KeepsWakeContract`); batches are consumed before they are overwritten and operators are finalized (`PipelineInOrder`); batches arrive once and the end comes after the last (`StreamDelivers`); woken tasks are polled, pipelines and `collect` return (`QueriesReturn`); a query cancelled after its stream was dropped comes to rest |
| `joins` | `HashJoin` alone, under a LIMIT and its chains, `NestedLoopJoin` | every join type gives the SQL answer, also under a LIMIT and in the nested loop join (`JoinAnswers`, `OtherJoinsAnswer`); the table is written after all rows were collected and complete when it is read, and nobody waits for what has happened (`BarriersHold`); compare-and-swap inserts lose no row (`ChainsComplete`), chains grow only at the front and the nested loop join keeps its phases (`StepsAreOrdered`); the joins end (`JoinsEnd`) |
| `operators` | `Limit`, `GlobalSort`, `BinaryMerge`, `HashAggregate`, `UngroupedAggregate`, `AggregateTable`, `Union`, `Materialize`, `TableInsert`, `CreateTableAs` | the rows LIMIT returns (`RowsReturned`); sorted, stable and complete merges, right groups and exact counts (`AnswersAreRight`); order, completeness (`InOrder`, `EverythingArrives`); the code's assertions and phase barriers (`AssertionsHold`); nobody waits in vain (`NobodyStranded`) and everything ends (`OperatorsEnd`) |
| `data` | `Catalog`, `CsvScan`, `ParquetScan`, `AggregateStates`, `ParquetFormat`, `ParquetSchema`, `ParquetMetadata`, `TableFunctions`, `RowStorage` | entries have data, data no statement finds was lost by a CREATE that did not publish it or by a DROP SCHEMA and never by DROP TABLE (`OrphansAreKnown`), one creator wins; scans and table functions return every row once however files, pages, runs, partitions and batches cut them, and rows come back from their blocks (`ScansReturnRows`); the bytes of sort keys order as the values (`OrderAsMeant`); partial aggregates merge in any order (`AggregatesAgree`); a footer is read back whichever way it was written (`MetadataReadBack`), and a damaged one is never taken for a value, but refused with an error or, in the places below, with a panic (`DamageRefused`); levels and the two kinds of type annotations fit the schema (`SchemaFits`) |
| `plans` | `SqlParser`, `Binder` to `Optimizer`, `StringFunctions`, `ScalarExpressions` with `Casts` | a text is cut into the longest tokens, and statements are parsed into the trees they mean or refused (`StatementsAsMeant`); a query whose names mean nothing, or several things, is rejected, of the others every reference resolves, and the answer is kept by the binder, the planner and every rule (`ReferencesResolve`, `AnswerKept`); string and scalar functions give what they mean on every row of a batch, and casts are exact, rounded or an error, also when flattened (`FunctionsAsMeant`); casts the engine puts in by itself lose nothing (`ImplicitCastsKeep`); the signature does not depend on the order of arguments or candidates (`ResolutionFixed`) |

A property of a family is the conjunction of what its components promise; the
conjuncts are named invariants of the component modules.  `mutants` in
`PROJECT.json` gives, for the conjuncts, a variation of the code that breaks
them.

### Disagreements

Seven runs check what a comment of the repository says and find a behaviour of
the code that contradicts it.  `findings` in `PROJECT.json` quotes each line.

* `cancel_concurrent`: cancel while another thread polls the stream can
  deadlock; the two take the locks of the stream and of a task in opposite
  orders.
* `join_limit_left`: a LEFT join under a LIMIT may never end.
* `sort_keys`: the sort key of a boolean puts TRUE before FALSE, and that of a
  64 bit float misplaces negative numbers.  The passing run has all other types.
* `csv_partial`: a record of which only empty fields have been read is lost when
  the records before it are cleared.
* `parquet_delta`: a DELTA_BINARY_PACKED page that takes two batches repeats a
  value.  The passing run has such pages that fit into a batch.
* `plan_flip`: swapping the sides of a join turns IS NOT DISTINCT FROM into IS
  DISTINCT FROM.
* `plan_cte`: a materialized CTE joined with itself reads the columns of the
  other reference after column pruning.

The models are of the code as it is, so its other peculiarities are in them, as
outcomes the properties name or as inputs the runs do not have.  The ones a
reader of the code should know:

* Tables: `INSERT INTO t SELECT ... FROM t` can read what it inserted; CREATE IF
  NOT EXISTS fails when another statement creates the name between its check
  and its insert (`catalog/memory.rs`); the data of a table stays in the storage
  manager for good if its CREATE meets a conflict after it made the data, or if
  the schema of its entry is dropped.
* Parser: `/* */` comments are not tokenized, a string may lack its end, and two
  quotes in a string end one and begin another; IS DISTINCT FROM ends before a
  comparison that follows it; ON may not begin with a parenthesis that does not
  span it; CROSS JOIN and NATURAL JOIN take the rest of FROM as their right
  side, and a NATURAL without a join is dropped, as is an AS at the end; ROLLUP
  is one only at the beginning of GROUP BY; an argument `a = b` is a named one; a
  column with the name of a type needs quotes; DROP TABLE needs no name, and
  CREATE EXTERNAL TABLE is not reached.
* Names: the CTEs of one subquery hide those of the outer query from what
  follows it in the same FROM, are visible to its siblings, and those of the
  outer query are visible in a view; a USING column stays that of the left side
  after a later RIGHT JOIN; ORDER BY prefers a column of the input to an alias,
  and changes the answer of DISTINCT when it names another column; ORDER BY over
  a UNION does not bind, over VALUES is ignored with LIMIT, and outside of a
  parenthesised query is dropped; a UNION in a correlated subquery loses the
  correlation; a UNION whose right side is wider is accepted; aggregates are not
  rejected in WHERE, ON and GROUP BY; FILTER is ignored; a correlated subquery in
  the list of a grouped query refers to the column before grouping.
* Queries that `MCQueries` does not have because their plans return other rows
  or none: NOT IN with a NULL, NULL as a correlated value, a correlated COUNT
  (NULL where it should be 0), LIMIT in a correlated subquery (an error), a
  comparison one operand of which spans both sides of a join, an OR one branch
  of which implies the other, a LIKE with escapes.
* NULLs: AND and OR are NULL if an argument is, also FALSE AND NULL
  (`boolean.rs`), and with them IN lists and BETWEEN; a comparison with ANY row
  of a subquery is FALSE where SQL says NULL.  `Plans` evaluates expressions as
  the functions do, so that `AnswerKept` compares plans with that meaning.
* Sums: one that overflows starts again from zero (`sum.rs`), and which number
  comes out depends on the order of the merges.  `AggregatesAgree` claims the sum
  where no partial sum can overflow; the run has others too.
* Casts: a cast of a lossy cast is flattened to one cast if the outer one is
  safe from the inner operand (`cast_expr.rs:34`); 10^scale is an `i32` in
  casts of integers and floats to decimals; Decimal128 to Decimal64 checks the
  value before it is rescaled, and neither checks the precision; UInt64 takes 19
  digits where it needs 20, and UInt64 + Decimal64 does not bind.
* Comparisons: Int64 with UInt64 or Decimal64 goes through Float64, UInt8 with
  text through text; the properties of exactness except signatures of floats.
* Shifts: -1 >> width is 0.  Rounding: the scale must be a constant.
* Strings: substring counts to 2^64 from a position below 1; lpad cuts a
  string that is too long by bytes and panics inside a letter; a pattern that
  does not compile leaves the row as it was.  `StringFunctions` has these as the
  outcomes "loops", "panic" and "unset".
* Table functions: one more profile is retained than
  RETAINED_PROFILE_COUNT; `**` does not match zero directories; Iceberg takes
  the metadata file whose name is greatest as text, so that v9 comes after v10,
  and data_files lists deleted entries too.
* Parquet footers: the reader panics on fields it does not know if they are sets
  or maps, on a double that is cut short, on a list of schema elements that is
  shorter than num_children says (`types.rs` tests `index > len`), and on a
  minimum or maximum with too few bytes; the check for an encrypted file looks
  for its magic where the length is, so that such a file is refused as one that
  is no Parquet file; a lone bound of statistics is not written;
  TIMESTAMP_MILLIS and TIMESTAMP_MICROS columns have no type; printed VARIANT,
  GEOMETRY and GEOGRAPHY fields do not parse; signed minima and maxima are used
  for unsigned columns.
* Parquet pages: if the lengths of the strings of a delta page fill its last
  block, the reader panics; a DELTA_BINARY_PACKED page with one value has no
  block, yet the reader reads the header of one.  Both pages are in the run, as
  outcomes `ScansReturnRows` names.  Not in it are string delta pages with one
  value, whose lengths and strings would then be cut at an arbitrary place, and
  mini-blocks without values whose width is not 0.
* CSV: a last record without an end of line is dropped.
* Rows: the encoding of keys that are not strings ignores a row selection; ORDER
  BY a list or a struct panics.

Some comments say what the code does not do, or not yet.  The properties about
them state what the code does:

* `limit.rs:29`: "The provided `limit` and `offset` values work on a
  per-partition basis."  The two counters are shared by the partitions, so the
  limit is that of the query; `RowsReturned` and its theorem say so.
* `create.rs:13`: "Replace the original entry. CREATE OR REPLACE".  The entry is
  not dropped (`memory.rs` has a TODO there) and the name is refused as a
  duplicate; in `OneCreatorWins` CREATE OR REPLACE is among the statements that
  lose.
* `concat.rs:17`: "one that should omit null arguments when concatenating (the
  normal concat)".  There is one concat, and it is NULL if an argument is, which
  `string_concat.slt` expects for now.

### Bounds

Two partitions show a race between the last partition and another; three are
used where a barrier has partitions before, at and behind it (`GlobalSort`,
`HashAggregate`, `UngroupedAggregate`, `CreateTableAs`, `Limit`,
`AggregateStates`).  Inputs are chosen so that a batch ends exactly at, before
and after each boundary (chunk, segment, block, page, run, offset, limit,
capacity).  Pages of delta encoded strings end inside and with a mini-block and
a block, and hold nothing; such pages of integers are shorter than a batch,
because of what `parquet_delta` finds of the others.  Join inputs have a
duplicate key, a key without a partner and a NULL.  The hash functions of the
two aggregate tables send different keys to the same slot and to the last slot,
so that probing collides and wraps.
`Catalog` lets three statements of any kind work on one name, which is enough
for a creator, a competitor and a drop.

Files are small: CSV reads take 3 characters and Parquet batches 3 rows, so that
records, quotes, runs and pages lie across several of them.  Footers are cut
after every byte, come with field ids as differences or in full and with fields
of a later version.  Schemas nest three deep with every repetition.  Bound
queries come from seven families (joins of two and three tables, subqueries,
groups, derived tables, ORDER BY with LIMIT, WITH), over tables with a NULL and a
duplicate.  Syntax trees add names in two spellings, qualified and not, views,
nested CTEs, USING and NATURAL, wildcards with EXCLUDE and REPLACE, correlated
and lateral references, grouping sets, HAVING and UNION (`MCParsedQueries`), and
queries that are wrong in one way each (`MCWrongQueries`).  Texts
to tokenize have up to four characters; statements to parse are of every kind and
have every clause, two operators of any strength with prefixes and postfixes,
three set operators, or a mistake.  Integer types are scaled down to 3, 6, 9, 14
and 18 bits, floats to 4, 8 and 12 significant bits, decimals to 3 and 5 digits,
in the order of the real widths and such that sums, products and casts overflow
some of them; samples contain both ends of a type.  Strings have up to three
letters, one of them of two bytes.

### Fairness

Liveness is checked under weak fairness of each task (and, in the scheduler, of
each job).  The code justifies it: a job given to the rayon pool is run, a task
that was woken is polled (`NotifiedIsPolled`), and the operators never spin.
The client of a stream is assumed to keep polling where a property says that a
query ends.  The runs `data` and `plans` check safety only; `data` checks
deadlock too, so that a scan that could neither return nor end would be found.

## What is proved

The theorems hold for every value of the constants.  Each rests on an inductive
invariant, which says what the code keeps true between any two steps; it is
proved action by action, and the property follows from it.

* Hash join (`JoinProofs`): for any number of partitions and any inputs, the
  phases of the build and probe sides keep their barriers (`BarriersHold`); no
  row is returned that SQL does not define for the inner, left, right, semi or
  mark join, none twice, and when everybody is done all of them were
  (`JoinAnswers`).  The invariant `IInv` has these parts: the atomic counters
  count the partitions that are yet to come (`CountInv`); one partition at most
  prepares the directory, after all rows were collected, and nobody inserts
  before (`BuildInv`); nothing is probed before the last insert (`FreshInv`);
  `matches` marks exactly the left rows that met a right row the probers have
  been through (`ScanInv`); no block is drained before the last prober is done
  (`PhaseInv`); and what has been returned so far is given by the places the
  probers and drainers have reached (`OutInv`).  `BarriersHold` follows from the
  parts on counters and phases, `JoinAnswers` needs all of them.
* Chains of the hash table (`JoinProofs`): for any number of partitions, rows
  and positions, the pointers from a directory entry lead once through each row
  inserted at its position and nowhere else (`ChainsComplete`), and a step
  changes a chain only by putting a row before it (`GrowsAtFront`).  "Once
  through each" is said with sets of rows instead of walks, which need no
  induction: a set that has the first row and with a row its successor is the
  whole chain, and every set of rows of the chain has one that leads out of it.
  The run checks it together with the walk a scan takes (`ChainsHoldInserted`).
  Needed besides: a partition touches only its own rows, and a row about to be
  swapped in points at the entry the swap expects.
* Hash join under a LIMIT (`JoinProofs`): `LimitSpec` implements the join without
  a limit (`LimitIsAJoin`), because partitions the limit cuts off only stop to
  act; and a query that ends has returned as many rows of the join as the limit
  allows (`LimitedAnswers`).  Needed besides (`LimitInv`): the join has returned
  the rows that passed the limit and one for each partition that is held or
  abandoned, and nobody is abandoned before the limit is reached.
* Nested loop join (`JoinProofs`): it has all left rows before it forms the first
  pair, so that the position by which a row is marked does not move, and all
  marks before it drains; with the growth of chains at their front this is the
  action property `StepsAreOrdered`.  A parked partition has another one that
  will wake it (`LoopsAreWoken`).  The invariant `LoopInv`: the two counters
  count, whoever joins or drains is past the counter it waited for, and once the
  left rows are complete only drainers are parked.
* Scheduler (`ExecutionProofs`): type correctness, one job per task, no lost
  wake-up, no poll after Ok, cancels are reported, and the refinement of
  `WakeContract` (without its fairness).  The inductive invariant adds that a
  task has a job exactly while it is `running` and not `completed`, and that a
  profile was put exactly when a poll answered Ok.
* Result stream (`ExecutionProofs`): every batch is delivered once, the end
  comes after the last one, and nobody waits for what has happened
  (`StreamDelivers`), for any finite set of partitions and any number of
  batches.  Needed besides: `remaining_inputs` counts the partitions that have
  not finalized, and one that has finalized has nothing left to push.
* Execution stack (`ExecutionProofs`): in a pipeline of any length no operator
  overwrites a batch the next one has not consumed, and all operators are
  finalized in order (`PipelineInOrder`).  The invariant describes the stack of
  instructions: its bottom is the operator to finalize next or to start from
  (`BottomInv`), the instructions above it lie further and further down the
  pipeline, and exactly the operators before them hold a batch (`AboveInv`).
* `Limit` (`OperatorProofs`): the rows returned (`RowsReturned`), and that no
  partition stops early, for every limit, offset, number of partitions and size
  of batches.  Needed besides (`LimitInv`): the two counters are what the offset
  and the limit leave of the rows polled so far.
* `Union` (`OperatorProofs`): order, completeness and the absence of mutual
  waiting for any number of partitions and batches.  Needed besides (`UnionInv`):
  the slot holds the latest batch of the second input, and the first input is at
  its end before the second is drained.
* `GlobalSort` (`OperatorProofs`): however partitions take, merge and return runs,
  a run is taken as the result only when no merge is running and no other run is
  left, `take_sorted_run` finds one (`OneSortedRun`), and a parked merger has
  another partition that will wake it (`MergersAreWoken`).  Both rest on the
  counters of the merge queue (`SortInv`): `remaining` and `running` are the
  numbers of partitions that collect and that merge, and once a partition saw
  the merge complete it stays so.
* `CreateTableAs` (`OperatorProofs`): one table is created, everybody who waits for
  it waits for its creator, and at the end every batch is stored and counted.
  Needed besides (`CreateInv`): a batch is yet to come, in an append state or
  stored; and the flag `creating` is set exactly while there is one creator.
* `HashAggregate`, `UngroupedAggregate`: with and without DISTINCT, no phase
  starts on tables that another partition has yet to write, merge or scan, and a
  parked partition waits for a counter that a running one has yet to bring down.
  In the invariant `IInv` each counter counts the partitions before the phase it
  guards, nobody is parked at a counter that is zero, and a partition past a
  counter has handed its tables over; the last is what a merge looks for.  In
  `HashAggregate` a partition past its merge has also made its final tables
  (`MergesDone`), so that `prepare_scan`, which needs those of all, never fails.
* `Materialize`: every output gets each chunk once and all of them by its end
  (`OutputsGetAll`), scan states of one output share no segment
  (`SegmentsNotShared`), and a parked pull has an input that will wake it.  `IInv`
  says what an output has got: exactly the chunks behind its scan states
  (`GotInv`), where a segment below the shared counter is behind them unless one
  of them reads or reserves it (`ScanInv`); that it misses none at the end follows
  because a segment yet to be flushed is reserved by somebody (`ReservedAhead`).
* `QueryOperators` combines the last six into the properties of the run
  `operators`: `RowsReturned`, `InOrder`, `EverythingArrives`, `AssertionsHold`
  and `NobodyStranded`, for every number of partitions and every input.
* `CatalogProofs`: an entry has its data, data without an entry is on its way in
  or out or was lost in one of the two ways named above (`LeaksAreKnown`), and of
  concurrent CREATEs of one name exactly one publishes its entry, for any finite set of
  concurrent statements and any names.  Needed besides: an entry is in one
  place, no slot holds the entry of a statement that has yet to publish it or
  has unlinked it, and nobody else knows an unpublished one; without DROPs, a
  slot that is taken holds the entry of a creator, and a creator that is done
  leaves its slot taken.  The number of schemas is bounded by
  counting the statements that made one; for the leaks, nothing is
  outside of the first schema before a DROP SCHEMA has removed it (`SchemaInv`).

Assumptions: a hash join has at least one partition; inputs of a join are
sequences of keys; every row of the hash table has one inserter, and the null
pointer is no row; a pipeline has a source and a sink; limits, offsets, sizes and
numbers of batches are natural numbers; the sets of statements, of partitions
and of the stream's partitions are finite; the scan states of an output are
numbered from 0 on, as `create_partition_pull_states` does.  See the `ASSUME`s of
the modules.  `HashAggregate`, `UngroupedAggregate` and `Materialize` state theirs
as `Counted` and `Created`, in the theorems; `Counted` says of `Cardinality`
what is true of finite sets (`FiniteIsCounted` in `QueryOperators`).

Only model-checked are:

* liveness (`QueriesReturn`, `CanceledQueryRests`, `JoinsEnd`, `OperatorsEnd`): the
  prover does not handle fairness and ENABLED.  The theorems on parked partitions
  are the safety half of it: whoever waits, waits for one that can act;
* what recursive definitions compute (the parser, plans and their rows, casts,
  string functions, merges, page decoders): an induction over their arguments
  would be needed, which the installed provers cannot instantiate;
* for the same reason the rows that sorts, aggregates, materializations, inserts
  and the nested loop join return (`AnswersAreRight`, `OtherJoinsAnswer`): they
  are defined by flattening, sorting and counting sequences.  Of the hash join,
  the limit and the union the rows are proved;
* the walk along a chain (`ChainsHoldInserted`); `ChainsComplete` is its proved
  counterpart;
* `QueryCancel`, `TableInsert`, `AggregateTable`, `BinaryMerge`, whose properties
  are of the kinds above, and the type invariants of the families (`TypesOK`),
  though those of most components are theorems of their own.

## Not modelled

* Allocation failures, and errors inside operators other than those named in
  the modules; an error ends the query through the stream (`ResultStream`).
* FULL OUTER and LEFT ANTI joins, which the binder rejects.
* Sessions: their maps of prepared statements and portals are changed by one
  caller at a time.
* Of the binder: statements other than queries, table functions with arguments,
  window functions, GROUPING, DISTINCT in aggregates, EXCEPT and INTERSECT
  (which do not plan), and the types that set operations and VALUES cast to;
  the choice of a function and of its casts is in `ScalarExpressions`.
* Functions with irrational values (sin, ln, sqrt, power ...): TLC has no real
  numbers.  Dates, timestamps and intervals, lists and structs, md5,
  random, and unnest, which is not implemented.
* Containers of values (arrays, bitmaps, selections, the buffer manager): the
  models have sequences in their place.
* Decompression, bloom filters and page indexes of Parquet, the writers of
  files, HTTP requests and object stores, the Delta log, of which the code has
  no reader that a query can reach.
* The shell, the WASM and language bindings, the test and benchmark harnesses,
  the documentation generator and the Spark aliases.
