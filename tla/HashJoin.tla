------------------------------- MODULE HashJoin -------------------------------
(***************************************************************************)
(* The hash join operator (operators/hash_join): the push side of the left *)
(* child builds one table, the execute side of the right child probes it   *)
(* and, for the join types that answer from the left rows, drains it.      *)
(*                                                                         *)
(* Every partition has a build task and a probe task.  An action is one    *)
(* critical section of `shared`, one atomic counter step, or work on state *)
(* nobody else reads at the time.  A task whose waker is stored acts only  *)
(* after wake_all (WakeContract).  A batch is one row, a block of the row  *)
(* collection holds one row, and all rows share one chain of the           *)
(* directory: longer batches and more chains are independent per row.      *)
(* The chains themselves are modelled at the end.  FULL and LEFT ANTI      *)
(* joins are left out: the binder rejects the former and nothing plans the *)
(* latter.                                                                 *)
(***************************************************************************)
EXTENDS Naturals, Sequences, FiniteSets

CONSTANTS NumPartitions, \* partitions of both pipelines
          Keys,          \* join keys, NULL among them
          LeftInputs,    \* what a build partition may push: sequences of keys
          RightInputs,   \* what a probe partition may get
          JoinTypes,     \* the join types a run looks at
          Null           \* the SQL NULL key, and the NULL row of outer joins

Partitions == 0 .. NumPartitions - 1

ASSUME JoinAssumption ==
    /\ NumPartitions \in Nat \ {0}
    /\ LeftInputs \cup RightInputs \subseteq Seq(Keys)
    /\ JoinTypes \subseteq {"inner", "left", "right", "semi", "mark"}

VARIABLES
    joinType, left, right, \* the query: join type and rows of every partition
    build,                 \* phase of a build task
    collected,             \* number of rows in the collection of a partition
    builders,              \* `remaining` of the partitioned row collection
    blocks,                \* merged row collection
    table,                 \* left rows inserted into the directory
    insertsReady, scanReady, drainReady, \* flags of SharedState
    inserters, probers,                  \* remaining_hash_inserters, remaining_probers
    pendingInserters, pendingProbers, pendingDrainers, \* stored wakers
    probe,                 \* phase of a probe task
    rhs,                   \* number of right rows a partition is done with
    needsProbe,            \* rhs_needs_probe: partitions that probe when polled
    chain,                 \* left rows the current right row is yet to meet
    rightMatched,          \* partitions whose right row needs no NULL row
    matched,               \* 'matches' column: the left rows that met a right row
    drained,               \* blocks a partition is done draining
    out, emitted           \* rows the join returned, and how many

query == <<joinType, left, right>>
buildVars == <<build, collected, builders, blocks, table>>
scanVars == <<rhs, needsProbe, chain, rightMatched, matched>>
output == <<out, emitted>>
flags == <<insertsReady, scanReady, drainReady>>
counters == <<inserters, probers>>
wakers == <<pendingInserters, pendingProbers, pendingDrainers>>
vars == <<query, buildVars, probe, scanVars, drained, output, flags, counters, wakers>>

RowsOf(input) == UNION {{p} \X DOMAIN input[p] : p \in Partitions}
LeftRows == RowsOf(left)
RightRows == RowsOf(right)

TypeOK ==
    /\ build \in [Partitions -> {"collecting", "last", "announcing", "waiting",
                                 "inserting", "inserted", "finalized"}]
    /\ \A p \in Partitions : collected[p] \in 0 .. Len(left[p])
    /\ builders \in 0 .. NumPartitions
    /\ blocks \in Seq(LeftRows)
    /\ table \subseteq LeftRows
    /\ insertsReady \in BOOLEAN /\ scanReady \in BOOLEAN /\ drainReady \in BOOLEAN
    /\ inserters \in 0 .. NumPartitions /\ probers \in 0 .. NumPartitions
    /\ pendingInserters \subseteq Partitions
    /\ pendingProbers \subseteq Partitions
    /\ pendingDrainers \subseteq Partitions
    /\ probe \in [Partitions -> {"probing", "draining", "done"}]
    /\ \A p \in Partitions : rhs[p] \in 0 .. Len(right[p])
    /\ needsProbe \subseteq Partitions
    /\ chain \in [Partitions -> SUBSET LeftRows]
    /\ rightMatched \subseteq Partitions
    /\ matched \subseteq LeftRows
    /\ drained \in [Partitions -> SUBSET DOMAIN blocks]
    /\ emitted \in Nat

(* create_operator_state and the partition states of both sides.           *)
Init ==
    /\ joinType \in JoinTypes
    /\ left \in [Partitions -> LeftInputs]
    /\ right \in [Partitions -> RightInputs]
    /\ build = [p \in Partitions |-> "collecting"]
    /\ collected = [p \in Partitions |-> 0]
    /\ builders = NumPartitions
    /\ blocks = <<>> /\ table = {}
    /\ insertsReady = FALSE /\ scanReady = FALSE /\ drainReady = FALSE
    /\ inserters = NumPartitions /\ probers = NumPartitions
    /\ pendingInserters = {} /\ pendingProbers = {} /\ pendingDrainers = {}
    /\ probe = [p \in Partitions |-> "probing"]
    /\ rhs = [p \in Partitions |-> 0]
    /\ needsProbe = Partitions
    /\ chain = [p \in Partitions |-> {}]
    /\ rightMatched = {} /\ matched = {}
    /\ drained = [p \in Partitions |-> {}]
    /\ out = {} /\ emitted = 0

-----------------------------------------------------------------------------
(* The build side: poll_push (collect_build), then poll_finalize_push.     *)
MutBuildRuns(p, phase) == build[p] \in {phase, "finalized"} /\ p \notin pendingInserters
BuildRuns(p, phase) == build[p] = phase /\ p \notin pendingInserters

Push(p) ==
    /\ BuildRuns(p, "collecting")
    /\ collected[p] < Len(left[p])
    /\ collected' = [collected EXCEPT ![p] = @ + 1]
    /\ UNCHANGED <<query, build, builders, blocks, table, probe, scanVars, drained,
                   output, flags, counters, wakers>>

(* finish_build: fetch_sub on `remaining` tells the last builder.          *)
IsLast(n) == n = 1

FinishBuild(p) ==
    /\ BuildRuns(p, "collecting")
    /\ collected[p] = Len(left[p])
    /\ builders' = builders - 1
    /\ build' = [build EXCEPT ![p] = IF IsLast(builders) THEN "last" ELSE "waiting"]
    /\ UNCHANGED <<query, collected, blocks, table, probe, scanVars, drained, output,
                   flags, counters, wakers>>

(* init_directory: merges the collections in the order of the partitions.  *)
Collected == UNION {{p} \X (1 .. collected[p]) : p \in Partitions}
Precedes(k, l) == k[1] < l[1] \/ (k[1] = l[1] /\ k[2] < l[2])
Merged(rows) ==
    /\ {rows[i] : i \in DOMAIN rows} = Collected
    /\ \A i, j \in DOMAIN rows : i < j => Precedes(rows[i], rows[j])

InitDirectory(p) ==
    /\ BuildRuns(p, "last")
    /\ \E rows \in [1 .. Cardinality(Collected) -> Collected] :
          Merged(rows) /\ blocks' = rows
    /\ build' = [build EXCEPT ![p] = "announcing"]
    /\ UNCHANGED <<query, collected, builders, table, probe, scanVars, drained, output,
                   flags, counters, wakers>>

AnnounceDirectory(p) ==
    /\ BuildRuns(p, "announcing")
    /\ insertsReady' = TRUE
    /\ pendingInserters' = {}
    /\ build' = [build EXCEPT ![p] = "inserting"]
    /\ UNCHANGED <<query, collected, builders, blocks, table, probe, scanVars, drained,
                   output, scanReady, drainReady, counters, pendingProbers,
                   pendingDrainers>>

(* The others lock `shared` to see whether they raced with the last one.   *)
MutRaced == FALSE
Raced == insertsReady

AwaitDirectory(p) ==
    /\ BuildRuns(p, "waiting")
    /\ build' = IF Raced THEN [build EXCEPT ![p] = "inserting"] ELSE build
    /\ pendingInserters' = IF Raced THEN pendingInserters ELSE pendingInserters \cup {p}
    /\ UNCHANGED <<query, collected, builders, blocks, table, probe, scanVars, drained,
                   output, flags, counters, pendingProbers, pendingDrainers>>

(* process_hashes: the blocks p, p + partitions, p + 2 * partitions, ...   *)
OwnBlocks(p) == {i \in DOMAIN blocks : (i - 1) % NumPartitions = p}

ProcessHashes(p) ==
    /\ BuildRuns(p, "inserting")
    /\ table' = table \cup {blocks[i] : i \in OwnBlocks(p)}
    /\ build' = [build EXCEPT ![p] = "inserted"]
    /\ UNCHANGED <<query, collected, builders, blocks, probe, scanVars, drained, output,
                   flags, counters, wakers>>

MutAllInserted(n) == TRUE
AllInserted(n) == n = 0

(* The last inserter wakes the probers, and the drainers of partitions     *)
(* whose right side was done before the table was built.                   *)
WokenDrainers == pendingDrainers

InsertsDone(p) ==
    /\ BuildRuns(p, "inserted")
    /\ inserters' = inserters - 1
    /\ build' = [build EXCEPT ![p] = "finalized"]
    /\ IF AllInserted(inserters - 1)
       THEN /\ scanReady' = TRUE
            /\ pendingProbers' = {}
            /\ pendingDrainers' = pendingDrainers \ WokenDrainers
       ELSE UNCHANGED <<scanReady, pendingProbers, pendingDrainers>>
    /\ UNCHANGED <<query, collected, builders, blocks, table, probe, scanVars, drained,
                   output, insertsReady, drainReady, probers, pendingInserters>>

-----------------------------------------------------------------------------
(* The probe side: poll_execute in state Probing, called with a right row. *)
ProbeRuns(p, phase) ==
    probe[p] = phase /\ p \notin pendingProbers /\ p \notin pendingDrainers

HasInput(p) == rhs[p] < Len(right[p])
RightRow(p) == <<p, rhs[p] + 1>>

ProbePending(p) ==
    /\ ProbeRuns(p, "probing") /\ HasInput(p)
    /\ ~scanReady
    /\ pendingProbers' = pendingProbers \cup {p}
    /\ UNCHANGED <<query, buildVars, probe, scanVars, drained, output, flags, counters,
                   pendingInserters, pendingDrainers>>

(* The row matcher: NULL equals nothing.                                   *)
Matches(l, r) ==
    left[l[1]][l[2]] = right[r[1]][r[2]] /\ left[l[1]][l[2]] # Null

(* probe() restarts the chain and forgets the matches of the last batch.   *)
Chain(p) == IF p \in needsProbe THEN table ELSE chain[p]
RightMatched(p) == p \notin needsProbe /\ p \in rightMatched
Found(p) == {l \in Chain(p) : Matches(l, RightRow(p))}

(* needs_match_column, needs_drain, and the types that only mark.          *)
NeedsMatchColumn == joinType \in {"left", "semi", "mark"}
MarksOnly == joinType \in {"semi", "mark"}
NeedsDrain == joinType \in {"left", "semi", "mark"}

Probes(p) == ProbeRuns(p, "probing") /\ HasInput(p) /\ scanReady

Emit(row) == out' = out \cup {row} /\ emitted' = emitted + 1

NeedsMore(p) ==
    /\ rhs' = [rhs EXCEPT ![p] = @ + 1]
    /\ needsProbe' = needsProbe \cup {p}
    /\ UNCHANGED <<chain, rightMatched>>

(* scan_next_inner_join: one match, then on to the next row of the chain.  *)
ScanMatch(p) ==
    /\ Probes(p) /\ ~MarksOnly
    /\ \E l \in Found(p) :
          /\ chain' = [chain EXCEPT ![p] = Chain(p) \ {l}]
          /\ matched' = IF NeedsMatchColumn THEN matched \cup {l} ELSE matched
          /\ Emit(<<l, RightRow(p)>>)
    /\ rightMatched' = rightMatched \cup {p}
    /\ needsProbe' = needsProbe \ {p}
    /\ UNCHANGED <<query, buildVars, probe, rhs, drained, flags, counters, wakers>>

(* scan_next_right_join, once the chains are exhausted: right_matches is   *)
(* cleared so that the NULL row is returned once.                          *)
Unmatched(p) == joinType = "right" /\ ~RightMatched(p)

ScanUnmatched(p) ==
    /\ Probes(p) /\ Found(p) = {} /\ Unmatched(p)
    /\ Emit(<<Null, RightRow(p)>>)
    /\ chain' = [chain EXCEPT ![p] = {}]
    /\ rightMatched' = rightMatched \cup {p}
    /\ needsProbe' = needsProbe \ {p}
    /\ UNCHANGED <<query, buildVars, probe, rhs, matched, drained, flags, counters, wakers>>

ScanEnd(p) ==
    /\ Probes(p) /\ ~MarksOnly /\ Found(p) = {} /\ ~Unmatched(p)
    /\ NeedsMore(p)
    /\ UNCHANGED <<query, buildVars, probe, matched, drained, output, flags, counters, wakers>>

(* scan_next_aheadmark: marks all the matches and returns no row.          *)
ScanMark(p) ==
    /\ Probes(p) /\ MarksOnly
    /\ matched' = matched \cup Found(p)
    /\ NeedsMore(p)
    /\ UNCHANGED <<query, buildVars, probe, drained, output, flags, counters, wakers>>

-----------------------------------------------------------------------------
(* poll_finalize_execute.                                                  *)
AllProbed(n) == n = 0

FinalizeExecute(p) ==
    /\ ProbeRuns(p, "probing") /\ ~HasInput(p)
    /\ IF NeedsDrain
       THEN /\ probe' = [probe EXCEPT ![p] = "draining"]
            /\ probers' = probers - 1
            /\ IF AllProbed(probers - 1)
               THEN drainReady' = TRUE /\ pendingDrainers' = {}
               ELSE UNCHANGED <<drainReady, pendingDrainers>>
       ELSE /\ probe' = [probe EXCEPT ![p] = "done"]
            /\ UNCHANGED <<probers, drainReady, pendingDrainers>>
    /\ UNCHANGED <<query, buildVars, scanVars, drained, output, insertsReady, scanReady,
                   inserters, pendingInserters, pendingProbers>>

(* poll_execute in state Draining.                                         *)
MutMayDrain == drainReady
MayDrain == drainReady /\ scanReady

DrainPending(p) ==
    /\ ProbeRuns(p, "draining")
    /\ ~MayDrain
    /\ pendingDrainers' = pendingDrainers \cup {p}
    /\ UNCHANGED <<query, buildVars, probe, scanVars, drained, output, flags, counters,
                   pendingInserters, pendingProbers>>

(* load_row_ptrs: the own blocks in order, skipping what the type leaves   *)
(* (LoadRowPtrs below resumes inside a block of several rows).             *)
Drains(l) ==
    CASE joinType = "left" -> l \notin matched
      [] joinType = "semi" -> l \in matched
      [] OTHER -> TRUE
Left(p) == {i \in OwnBlocks(p) \ drained[p] : Drains(blocks[i])}
Drained(l) == <<l, IF joinType = "mark" THEN l \in matched ELSE Null>>

DrainNext(p) ==
    /\ ProbeRuns(p, "draining") /\ MayDrain
    /\ \/ \E i \in Left(p) :
             /\ \A j \in Left(p) : i <= j
             /\ Emit(Drained(blocks[i]))
             /\ drained' = [drained EXCEPT ![p] = @ \cup {j \in OwnBlocks(p) : j <= i}]
             /\ UNCHANGED probe
       \/ /\ Left(p) = {}
          /\ probe' = [probe EXCEPT ![p] = "done"]
          /\ UNCHANGED <<drained, output>>
    /\ UNCHANGED <<query, buildVars, scanVars, flags, counters, wakers>>

-----------------------------------------------------------------------------
Build(p) ==
    \/ Push(p) \/ FinishBuild(p) \/ InitDirectory(p) \/ AnnounceDirectory(p)
    \/ AwaitDirectory(p) \/ ProcessHashes(p) \/ InsertsDone(p)
Probe(p) ==
    \/ ProbePending(p) \/ ScanMatch(p) \/ ScanUnmatched(p) \/ ScanEnd(p) \/ ScanMark(p)
    \/ FinalizeExecute(p) \/ DrainPending(p) \/ DrainNext(p)

Next == \E p \in Partitions : Build(p) \/ Probe(p)

Spec == Init /\ [][Next]_vars

(* A task that is not parked is polled again (TaskScheduler).              *)
FairSpec == Spec /\ \A p \in Partitions : WF_vars(Build(p)) /\ WF_vars(Probe(p))
-----------------------------------------------------------------------------
(* What SQL says the join returns.                                         *)
Pairs == {x \in LeftRows \X RightRows : Matches(x[1], x[2])}
Met(l) == \E r \in RightRows : Matches(l, r)
Answer ==
    CASE joinType = "inner" -> Pairs
      [] joinType = "left" -> Pairs \cup {<<l, Null>> : l \in {k \in LeftRows : ~Met(k)}}
      [] joinType = "right" ->
            Pairs \cup {<<Null, r>> : r \in {s \in RightRows : \A l \in LeftRows : ~Matches(l, s)}}
      [] joinType = "semi" -> {<<l, Null>> : l \in {k \in LeftRows : Met(k)}}
      [] joinType = "mark" -> {<<l, Met(l)>> : l \in LeftRows}

(* At any time the join has returned only rows of the answer, each of them *)
(* once, and when every prober is done it has returned all of them:        *)
(* whichever side is first, and however the partitions interleave.         *)
JoinAnswers ==
    /\ out \subseteq Answer /\ Cardinality(out) = emitted
    /\ (\A p \in Partitions : probe[p] = "done") => out = Answer

(* The directory is read only once every left row is in it, and written    *)
(* only after the collections have been merged.                            *)
TableIsComplete ==
    /\ scanReady => table = LeftRows
    /\ (\E p \in Partitions : build[p] \in {"inserting", "inserted", "finalized"})
          => {blocks[i] : i \in DOMAIN blocks} = LeftRows
    /\ drainReady => \A p \in Partitions : rhs[p] = Len(right[p])

(* A stored waker is always waiting for something that is yet to happen:   *)
(* no task parks after the wake_all meant for it.                          *)
NoStrandedTask ==
    /\ pendingInserters # {} => ~insertsReady
    /\ pendingProbers # {} => ~scanReady
    /\ pendingDrainers # {} => ~(drainReady /\ scanReady)

(* The barriers of the join hold everybody back until what they guard is   *)
(* there, and nobody longer.                                               *)
BarriersHold == TableIsComplete /\ NoStrandedTask

-----------------------------------------------------------------------------
(* load_row_ptrs on blocks of several rows.  A row is its block and its    *)
(* place in it, `size` the number of rows of every block, and `at` is      *)
(* curr_block_idx and curr_row, where the next call of the partition goes  *)
(* on.  A call takes the first `cap` sought rows of the blocks `at`,       *)
(* `at` + parts, ...; when it fills the batch, the next one starts behind  *)
(* its last row, which may be the end of the block.                        *)
BlockRows(size) == UNION {{b} \X (0 .. size[b] - 1) : b \in DOMAIN size}
Ahead(size, parts, at) ==
    {x \in BlockRows(size) : /\ x[1] >= at[1] /\ (x[1] - at[1]) % parts = 0
                             /\ x[1] = at[1] => x[2] >= at[2]}

MutResumeAt(rows) == CHOOSE x \in rows : \A y \in rows : y = x \/ Precedes(y, x)
ResumeAt(rows) ==
    LET last == CHOOSE x \in rows : \A y \in rows : y = x \/ Precedes(y, x)
    IN <<last[1], last[2] + 1>>

LoadRowPtrs(size, parts, sought, cap, at) ==
    LET ahead == Ahead(size, parts, at) \cap sought
        rows == {x \in ahead : Cardinality({y \in ahead : Precedes(y, x)}) < cap}
        end == Cardinality(DOMAIN size)
    IN [rows |-> rows,
        at |-> IF Cardinality(rows) = cap THEN ResumeAt(rows)
               ELSE <<CHOOSE b \in end .. end + parts - 1 : (b - at[1]) % parts = 0, 0>>]

(* From wherever a partition resumes, a call returns the first sought rows *)
(* of its blocks and leaves exactly the others to the calls after it, and  *)
(* it returns no row, where poll_execute ends, only when none is left: for *)
(* blocks of any of the given sizes and batches of any of the capacities.  *)
DrainResumes(sizes, partitions, caps) ==
    \A size \in sizes, parts \in partitions, cap \in caps :
      \A sought \in SUBSET BlockRows(size), b \in DOMAIN size :
        \A r \in 0 .. size[b] :
          LET ahead == Ahead(size, parts, <<b, r>>) \cap sought
              call == LoadRowPtrs(size, parts, sought, cap, <<b, r>>)
              rest == Ahead(size, parts, call.at) \cap sought
          IN /\ rest = ahead \ call.rows
             /\ \A x \in call.rows, y \in rest : Precedes(x, y)
             /\ call.rows = {} => ahead = {}

-----------------------------------------------------------------------------
(* A hash join with a LIMIT above it in the probe pipeline.  Each row the  *)
(* join returns goes to the shared limit before the join is polled again;  *)
(* when the limit is exhausted, the pipeline of the partition drops every  *)
(* instruction of the operators below it (ExecutionStack, Exhausted): the  *)
(* join of that partition is neither polled nor finalized again.           *)

CONSTANT LimitCount
ASSUME JoinLimitAssumption == LimitCount \in Nat

VARIABLES
    held,      \* partitions whose join output is at the limit
    abandoned, \* partitions whose join is not polled again
    remaining, \* remaining_count
    returned   \* rows returned

limitVars == <<held, abandoned, remaining, returned>>

LimitInit ==
    Init /\ held = {} /\ abandoned = {} /\ remaining = LimitCount /\ returned = 0

(* A poll of the join; a row it returns is handed to the limit.            *)
PollJoin(p) ==
    /\ p \notin held \cup abandoned /\ Probe(p)
    /\ held' = IF emitted' # emitted THEN held \cup {p} ELSE held
    /\ UNCHANGED <<abandoned, remaining, returned>>

(* PhysicalLimit::poll_execute with a batch of one row.                    *)
MutAtLimit == remaining <= 1
AtLimit == remaining = 0

PassRow(p) ==
    /\ p \in held /\ ~AtLimit
    /\ remaining' = remaining - 1
    /\ returned' = returned + 1
    /\ held' = held \ {p}
    /\ UNCHANGED <<vars, abandoned>>

Exhaust(p) ==
    /\ p \in held /\ AtLimit
    /\ held' = held \ {p}
    /\ abandoned' = abandoned \cup {p}
    /\ UNCHANGED <<vars, remaining, returned>>

ProbePipeline(p) == PollJoin(p) \/ PassRow(p) \/ Exhaust(p)
LimitNext == \E p \in Partitions : (Build(p) /\ UNCHANGED limitVars) \/ ProbePipeline(p)

LimitSpec ==
    /\ LimitInit /\ [][LimitNext]_<<vars, limitVars>>
    /\ \A p \in Partitions :
          /\ WF_<<vars, limitVars>>(Build(p) /\ UNCHANGED limitVars)
          /\ WF_<<vars, limitVars>>(ProbePipeline(p))
-----------------------------------------------------------------------------
AllDone == \A p \in Partitions : p \in abandoned \/ (probe[p] = "done" /\ p \notin held)

(* The query returns as many rows of the join as the limit allows, and no  *)
(* row is lost to a partition that stopped early.                          *)
LimitedAnswer ==
    AllDone => returned = (IF Cardinality(Answer) < LimitCount THEN Cardinality(Answer)
                           ELSE LimitCount)

(* "The LIMIT clause restricts the number of rows returned by a query"     *)
(* (docs/sql/query-syntax/limit.md): a query with a LIMIT still returns.   *)
LimitedJoinEnds == <>AllDone

-----------------------------------------------------------------------------
(* Concurrent insertion of the build rows into the chained hash table of   *)
(* the hash join (hash_join/hash_table/mod.rs): every partition inserts    *)
(* its own rows with plain writes of the next pointer in the row and       *)
(* compare-and-swap on the directory entry.  An action is one atomic       *)
(* access; the write of a next pointer touches only the partition's own    *)
(* row and goes with the access before it.                                 *)
CONSTANTS Inserters, \* the partitions of the build side
          Rows,
          Owner,     \* partition that inserts a row: disjoint blocks
          Pos,       \* hash & capacity_mask: directory position of a row
          NullPtr,   \* null pointer
          Hash       \* the hash of a row, where the next pointer goes later

ASSUME ChainAssumption ==
    /\ Owner \in [Rows -> Inserters] /\ DOMAIN Pos = Rows
    /\ NullPtr \notin Rows /\ Hash \notin Rows \cup {NullPtr}

Positions == {Pos[r] : r \in Rows}
Pointer == Rows \cup {NullPtr}

VARIABLES
    entry, \* directory: row at the front of the chain of a position
    next,  \* hash/next_entry column of a row
    todo,  \* rows a partition has yet to insert
    pc,    \* where a partition is in insert_hashes
    row,   \* row a partition is inserting
    curr   \* curr_ent of insert_occupied

chainVars == <<entry, next, todo, pc, row, curr>>

ChainTypeOK ==
    /\ entry \in [Positions -> Pointer]
    /\ next \in [Rows -> Pointer \cup {Hash}]
    /\ todo \in [Inserters -> SUBSET Rows]
    /\ pc \in [Inserters -> {"next", "empty", "load", "occupied"}]
    /\ row \in [Inserters -> Pointer]
    /\ curr \in [Inserters -> Pointer]

(* The directory is initialized and the rows are collected.                *)
ChainInit ==
    /\ entry = [i \in Positions |-> NullPtr]
    /\ next = [r \in Rows |-> Hash]
    /\ todo = [p \in Inserters |-> {r \in Rows : Owner[r] = p}]
    /\ pc = [p \in Inserters |-> "next"]
    /\ row = [p \in Inserters |-> NullPtr]
    /\ curr = [p \in Inserters |-> NullPtr]

-----------------------------------------------------------------------------
(* insert_hashes: load the entry of the next row and choose how to insert. *)
LoadEntry(p, r) ==
    /\ pc[p] = "next" /\ r \in todo[p]
    /\ todo' = [todo EXCEPT ![p] = @ \ {r}]
    /\ row' = [row EXCEPT ![p] = r]
    /\ pc' = [pc EXCEPT ![p] = IF entry[Pos[r]] = NullPtr THEN "empty" ELSE "load"]
    /\ UNCHANGED <<entry, next, curr>>

(* insert_empty: write a null next pointer, then swap the empty entry.     *)
MutStillEmpty(i) == TRUE
StillEmpty(i) == entry[i] = NullPtr

InsertEmpty(p) ==
    /\ pc[p] = "empty"
    /\ next' = [next EXCEPT ![row[p]] = NullPtr]
    /\ IF StillEmpty(Pos[row[p]])
       THEN /\ entry' = [entry EXCEPT ![Pos[row[p]]] = row[p]]
            /\ pc' = [pc EXCEPT ![p] = "next"]
       ELSE /\ pc' = [pc EXCEPT ![p] = "load"]
            /\ UNCHANGED entry
    /\ UNCHANGED <<todo, row, curr>>

(* insert_occupied: load the entry and point the row at it, ...            *)
Loaded(p) == entry[Pos[row[p]]]

LoadCurrent(p) ==
    /\ pc[p] = "load"
    /\ curr' = [curr EXCEPT ![p] = Loaded(p)]
    /\ next' = [next EXCEPT ![row[p]] = Loaded(p)]
    /\ pc' = [pc EXCEPT ![p] = "occupied"]
    /\ UNCHANGED <<entry, todo, row>>

(* ... then swap the entry if it is still the same, ...                    *)
MutUnchanged(p) == entry[Pos[row[p]]] # NullPtr
Unchanged(p) == entry[Pos[row[p]]] = curr[p]

InsertOccupied(p) ==
    /\ pc[p] = "occupied" /\ Unchanged(p)
    /\ entry' = [entry EXCEPT ![Pos[row[p]]] = row[p]]
    /\ pc' = [pc EXCEPT ![p] = "next"]
    /\ UNCHANGED <<next, todo, row, curr>>

(* ... and point the row at what is there now if it is not, or if the weak *)
(* compare-and-swap fails spuriously.                                      *)
Existing(p) == entry[Pos[row[p]]]

Retry(p) ==
    /\ pc[p] = "occupied"
    /\ curr' = [curr EXCEPT ![p] = Existing(p)]
    /\ next' = [next EXCEPT ![row[p]] = Existing(p)]
    /\ UNCHANGED <<entry, todo, pc, row>>

-----------------------------------------------------------------------------
Insert(p) == InsertEmpty(p) \/ LoadCurrent(p) \/ InsertOccupied(p)
             \/ \E r \in Rows : LoadEntry(p, r)

ChainNext == \E p \in Inserters : Insert(p) \/ Retry(p)

ChainSpec == ChainInit /\ [][ChainNext]_chainVars

(* Every partition is run; a retry that finds the entry changed is part of *)
(* its steps, and the weak swap does not fail for ever.                    *)
ChainFairSpec ==
    ChainSpec /\ \A p \in Inserters :
        /\ WF_chainVars(Insert(p)) /\ SF_chainVars(InsertOccupied(p))
        /\ WF_chainVars(Retry(p) /\ ~Unchanged(p))
-----------------------------------------------------------------------------
(* The rows a scan meets from a pointer: follow_next_in_chain.             *)
Reach(ptr) ==
    LET from[n \in 0 .. Cardinality(Rows)] ==
            IF n = 0 THEN <<ptr>>
            ELSE LET last == from[n - 1][n]
                 IN Append(from[n - 1], IF last \in Rows THEN next[last] ELSE NullPtr)
    IN SelectSeq(from[Cardinality(Rows)], LAMBDA r : r # NullPtr)

Busy(p) == IF pc[p] = "next" THEN {} ELSE {row[p]}
Inserted == Rows \ UNION {todo[p] \cup Busy(p) : p \in Inserters}

(* Every chain ends (it holds no row twice), and the chain of a position   *)
(* holds exactly the rows of that position inserted so far: no insertion   *)
(* is lost, whatever partitions insert at the same position at once.       *)
ChainsHoldInserted ==
    \A i \in Positions :
        LET c == Reach(entry[i])
        IN /\ {c[k] : k \in DOMAIN c} = {r \in Inserted : Pos[r] = i}
           /\ Len(c) = Cardinality({r \in Inserted : Pos[r] = i})

(* The same of the pointers, for any number of rows: from a directory      *)
(* entry the next pointers lead through all rows inserted at its position, *)
(* through no others, and never back to one.                               *)
InsertedAt(i) == {r \in Inserted : Pos[r] = i}
LeadsOnlyTo(i) ==
    /\ entry[i] \in InsertedAt(i) \/ (entry[i] = NullPtr /\ InsertedAt(i) = {})
    /\ \A r \in InsertedAt(i) : next[r] \in InsertedAt(i) \cup {NullPtr}
LeadsToAll(i) ==
    \A S \in SUBSET InsertedAt(i) :
        entry[i] \in S /\ (\A r \in S : next[r] \in S \cup {NullPtr}) => S = InsertedAt(i)
LeadsToAnEnd(i) ==
    \A S \in SUBSET InsertedAt(i) : S # {} => \E r \in S : next[r] \notin S

ChainsComplete == \A i \in Positions : LeadsOnlyTo(i) /\ LeadsToAll(i) /\ LeadsToAnEnd(i)

(* A row that can be reached keeps its place: what is behind it in the     *)
(* chain never changes, so that a chain only grows at its front, by a row  *)
(* that points at the front before.                                        *)
GrowsAtFront ==
    /\ \A r \in Inserted : r \in Inserted' /\ next'[r] = next[r]
    /\ \A i \in Positions :
          \/ entry'[i] = entry[i] /\ InsertedAt(i)' = InsertedAt(i)
          \/ /\ entry'[i] \notin Inserted /\ InsertedAt(i)' = InsertedAt(i) \cup {entry'[i]}
             /\ next'[entry'[i]] = entry[i]
=============================================================================
