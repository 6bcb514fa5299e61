---------------------------- MODULE MCOperators -----------------------------
(***************************************************************************)
(* The operators through which pipelines and tables exchange rows, and     *)
(* limits, sorts and aggregates, whose partitions share state or meet at   *)
(* barriers, checked one at a time: a behaviour picks one and runs it, the *)
(* others rest in their initial state.                                     *)
(***************************************************************************)
EXTENDS QueryOperators

CONSTANTS
    MergeRuns, MergeHints,
    TableGroups, TableHash, InitialCapacity, TableBatch, TableRows

VARIABLES
    run, mHint, start, scan, sides, wanted, block, out, mPhase,
    entries, occupied, data, counts, batch, needsInsert, offsets, newGroups, needsCompare,
    ptrs, pc, inserted,
    tSegments, tPending, tNextSeg, tReserved, tCurrent, tChunkIdx, tBatch, tPhase, tCount, seen

(* Three partitions: rows in each, rows in one, rows in none.              *)
Three(x, y, z) == "p0" :> x @@ "p1" :> y @@ "p2" :> z
MCSortInputs ==
    {Three(<<<<5, 1>>, <<3>>>>, <<<<2, 6>>>>, <<<<4>>>>),
     Three(<<<<2, 1>>, <<4, 3>>>>, <<>>, <<<<>>>>),
     Three(<<>>, <<<<1>>>>, <<<<2>>, <<3>>>>),
     Three(<<>>, <<>>, <<>>)}

(* Runs of one block, as sorted by a partition, and runs of full blocks    *)
(* and a last one, as merged before; with ties within and across.          *)
MCMergeRuns ==
    {<<>>, <<<<>>>>, <<<<1>>>>, <<<<2, 2, 3>>>>, <<<<1, 2, 3, 4, 5>>>>, <<<<3, 3, 3, 3>>>>,
     <<<<1, 2>>, <<2, 4>>>>, <<<<1, 1>>, <<2, 3>>, <<5>>>>, <<<<3, 4>>, <<5>>>>,
     <<<<1, 1>>, <<1, 6>>>>}
Merge == INSTANCE BinaryMerge WITH
    Runs <- MergeRuns, Capacity <- BlockCapacity, LimitHints <- MergeHints, hint <- mHint,
    phase <- mPhase
mergeVars == <<run, mHint, start, scan, sides, wanted, block, out, mPhase>>

(* GROUP BY ROLLUP (g): one grouping set of the groups, one of all rows.   *)
(* One row in a block, so that the partitions share each final table.      *)
RollupKey(s, r) == IF s = "groups" THEN <<r.g>> ELSE <<>>
Row(g, v) == [g |-> g, v |-> v]
GroupKeys == {<<"g">>, <<"h">>, <<>>}
Bit(x) == IF x \in {"g", "v"} THEN 0 ELSE 1
MCGroupHash ==
    [key \in GroupKeys \cup (GroupKeys \X {"v", "w"}) |->
        CASE key = <<>> -> 3
          [] Len(key) = 1 -> 3 * Bit(key[1])
          [] OTHER -> 2 * Bit(key[2]) + Len(key[1])]
Tasks(in) == [p \in 0 .. 2 |-> in[p + 1]] \* sequences are numbered from 1
MCGroupInputs ==
    {Tasks(<<<<Row("g", "v"), Row("g", "v")>>, <<Row("g", "w"), Row("h", "v")>>, <<Row("h", "v")>>>>),
     Tasks(<<<<>>, <<Row("h", "w"), Row("h", "v")>>, <<>>>>),
     Tasks(<<<<Row("g", "v")>>, <<Row("g", "v"), Row("g", "w")>>, <<Row("g", "w")>>>>)}

(* Values repeated within and across partitions.                           *)
MCValueHash == "u" :> 0 @@ "v" :> 1 @@ "w" :> 3
MCValueInputs ==
    {Tasks(<<<<<<"u", "v">>, <<"u">>>>, <<<<"u", "w">>>>, <<<<>>>>>>),
     Tasks(<<<<<<"v">>>>, <<>>, <<<<"v", "u">>>>>>),
     Tasks(<<<<>>, <<>>, <<>>>>)}

(* Two groups with one hash, one with another hash but the same offset,    *)
(* and one whose offset the others run into.                               *)
MCTableHash == "g1" :> 3 @@ "g2" :> 3 @@ "g3" :> 7 @@ "g4" :> 0
Table == INSTANCE AggregateTable WITH
    Groups <- TableGroups, Hash <- TableHash, MaxBatch <- TableBatch, MaxRows <- TableRows
tableVars == <<entries, occupied, data, counts, batch, needsInsert, offsets, newGroups,
               needsCompare, ptrs, pc, inserted>>

(* Two push partitions, one output of two partitions and one of one.       *)
MCInput == "a" :> <<0, 2>> @@ "b" :> <<1>>
MCOutput == "s1" :> 1 @@ "s2" :> 1 @@ "t1" :> 2
MCFirstSegment == "s1" :> 0 @@ "s2" :> 1 @@ "t1" :> 0

(* Two partitions insert a table of two segments into itself.              *)
Insert == INSTANCE TableInsert WITH
    Appenders <- {"p", "q"}, Scanners <- {"p", "q"}, Outputs <- {1},
    Output <- "p" :> 1 @@ "q" :> 1, FirstSegment <- "p" :> 0 @@ "q" :> 1,
    ChunkCapacity <- 2, SegmentSize <- 2, MaxRows <- 14,
    Initial <- <<<<<<"a", "b">>, <<"c">>>>, <<<<"d">>>>>>,
    segments <- tSegments, pending <- tPending, nextSeg <- tNextSeg,
    reserved <- tReserved, current <- tCurrent, chunkIdx <- tChunkIdx,
    batch <- tBatch, phase <- tPhase, count <- tCount
insertVars == <<tSegments, tPending, tNextSeg, tReserved, tCurrent, tChunkIdx,
                tBatch, tPhase, tCount, seen>>

otherVars == <<mergeVars, tableVars, insertVars>>
MCvars == <<operatorVars, otherVars>>

MCInit ==
    /\ OperatorsInit
    /\ Merge!Init
    /\ operator # "merge" => run = [s \in DOMAIN run |-> <<>>] /\ mHint = 0
    /\ Table!Init
    /\ Insert!Init

RunMerge == operator = "merge" /\ Merge!Next
    /\ UNCHANGED <<operatorVars, tableVars, insertVars>>
RunTable == operator = "table" /\ Table!Next
    /\ UNCHANGED <<operatorVars, mergeVars, insertVars>>
RunInsert == operator = "insert" /\ Insert!Next
    /\ UNCHANGED <<operatorVars, mergeVars, tableVars>>
MCNext ==
    \/ OperatorsNext /\ UNCHANGED otherVars
    \/ RunMerge \/ RunTable \/ RunInsert

(* The fairness of each module, while it is the one that runs.             *)
SortFairness == \A p \in Partitions : WF_sortVars(operator = "sort" /\ Sort!Run(p))
MergeFairness == WF_mergeVars(operator = "merge" /\ Merge!Next)
AggregateFairness == \A p \in 0 .. N - 1 :
    /\ WF_groupedVars(operator = "grouped" /\ Grouped!Run(p))
    /\ WF_ungroupedVars(operator = "ungrouped" /\ Ungrouped!Run(p))
TableFairness == WF_tableVars(operator = "table" /\ Table!Call)
UnionFairness == \A p \in UnionPartitions :
    /\ WF_unionVars(operator = "union" /\ Unioned!First(p))
    /\ WF_unionVars(operator = "union" /\ Unioned!Second(p))
MaterializeFairness ==
    /\ \A a \in Appenders : WF_materializeVars(operator = "materialize" /\ Materialized!PushSide(a))
    /\ \A s \in Scanners :
          WF_materializeVars(operator = "materialize" /\ Materialized!PullSide(s))
CreateFairness ==
    \A p \in Partitions : WF_createVars(operator = "create" /\ Create!Run(p))

MCSpec ==
    MCInit /\ [][MCNext]_MCvars
    /\ SortFairness /\ MergeFairness /\ AggregateFairness /\ TableFairness
    /\ UnionFairness /\ MaterializeFairness /\ CreateFairness
-----------------------------------------------------------------------------
(* The state of every operator is well formed, and two scans of a table    *)
(* never hold the same segment of its collection.                          *)
TypesOK ==
    CASE operator = "limit" -> TypeOK
      [] operator = "sort" -> Sort!TypeOK
      [] operator = "merge" -> Merge!TypeOK
      [] operator = "grouped" -> Grouped!TypeOK
      [] operator = "ungrouped" -> Ungrouped!TypeOK
      [] operator = "table" -> Table!TypeOK
      [] operator = "union" -> Unioned!TypeOK
      [] operator = "materialize" -> Materialized!TypeOK
      [] operator = "insert" -> Insert!TypeOK /\ Insert!ReservationsDisjoint
      [] operator = "create" -> Create!TypeOK

(* Sorts return all rows in order, or the first of them under a hint; a    *)
(* merge is sorted, stable and complete, and its loops agree; aggregates   *)
(* return every group of every grouping set once with its counts; the hash *)
(* table has each group once, finds it by probing and is never full; a     *)
(* materialization keeps the rows that were pushed; an INSERT reads all    *)
(* rows that were there and reports what the table gained.                 *)
AnswersAreRight ==
    CASE operator = "limit" -> StopsAtLimit
      [] operator = "sort" -> Sort!SortedOutput
      [] operator = "merge" -> Merge!MergeIsCorrect /\ Merge!NoAssertFails /\ Merge!RoundsAgree
      [] operator = "grouped" -> Grouped!GroupsReturned
      [] operator = "ungrouped" -> Ungrouped!OneAnswer
      [] operator = "table" -> Table!CountsAreRight /\ Table!NoProbeGap /\ Table!NeverFull
      [] operator = "materialize" -> Materialized!RowsArePushed /\ Materialized!NoEmptyChunk
      [] operator = "insert" -> Insert!InitialRowsScanned /\ Insert!CountIsExact
      [] OTHER -> TRUE

(* Every operator ends, whoever waits for whom, and so does every call on  *)
(* the hash table: nobody is left parked.                                  *)
Ended ==
    CASE operator \in {"limit", "insert"} -> TRUE
      [] operator = "sort" -> Sort!AllFinished
      [] operator = "merge" -> mPhase = "done"
      [] operator = "grouped" -> Grouped!AllExhausted
      [] operator = "ungrouped" -> Ungrouped!AllFinished
      [] operator = "table" -> pc = "idle"
      [] operator = "union" -> exhausted = UnionPartitions /\ pushDone = UnionPartitions
      [] operator = "materialize" -> \A s \in DOMAIN pull : pull[s] = "done"
      [] operator = "create" -> Create!AllDone \/ Create!QueryFailed
OperatorsEnd == []<>Ended
=============================================================================
