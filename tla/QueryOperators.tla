---------------------------- MODULE QueryOperators ----------------------------
(***************************************************************************)
(* The operators whose partitions share state or meet at barriers: limits, *)
(* sorts and aggregates, and the ones through which pipelines exchange     *)
(* rows.  A behaviour picks one and runs it, the others rest in their      *)
(* initial state.  What is proved of each operator in its own module or in *)
(* OperatorProofs is combined here, for every number of partitions and     *)
(* every input; MCOperators adds the parts that run inside one task.       *)
(***************************************************************************)
EXTENDS OperatorProofs, FiniteSetTheorems

CONSTANTS
    Operators,                      \* the operators to run
    N, HashWidth, BlockRows, Sets, KeyOf(_, _), GroupHash, GroupInputs,
    ValueHash, ValueInputs,
    Appenders, Input, Scanners, Outputs, Output, FirstSegment, ChunkCapacity, SegmentSize

VARIABLES
    operator,
    distinct, hInput, phase, local, distinctLocal, flushed, distinctFlushed, final,
    distinctFinal, hRemaining, hWakers, toScan, hOutput, hAll,
    uDistinct, uInput, uPhase, count, uLocal, uFlushed, uFinal, values, normal, mergers,
    distincts, pendingMergers, pendingAggregators, uOutput, uAll,
    segments, pending, nextSeg, reserved, current, chunkIdx, mRemaining, mWakers, push, pushed,
    pull, got

Grouped == INSTANCE HashAggregate WITH
    Hash <- GroupHash, Inputs <- GroupInputs, input <- hInput, remaining <- hRemaining,
    wakers <- hWakers, output <- hOutput, all <- hAll
groupedVars == <<distinct, hInput, phase, local, distinctLocal, flushed, distinctFlushed,
                 final, distinctFinal, hRemaining, hWakers, toScan, hOutput, hAll>>

Ungrouped == INSTANCE UngroupedAggregate WITH
    Hash <- ValueHash, Inputs <- ValueInputs, distinct <- uDistinct, input <- uInput,
    phase <- uPhase, local <- uLocal, flushed <- uFlushed, final <- uFinal, output <- uOutput,
    all <- uAll
ungroupedVars == <<uDistinct, uInput, uPhase, count, uLocal, uFlushed, uFinal, values, normal,
                   mergers, distincts, pendingMergers, pendingAggregators, uOutput, uAll>>

Materialized == INSTANCE Materialize WITH remaining <- mRemaining, wakers <- mWakers
materializeVars == <<segments, pending, nextSeg, reserved, current, chunkIdx,
                     mRemaining, mWakers, push, pushed, pull, got>>

operatorVars ==
    <<operator, vars, sortVars, groupedVars, ungroupedVars, unionVars, materializeVars, createVars>>

ASSUME AggregatesAssumption == N \in Nat
ASSUME ScansAssumption == Materialized!Created

OperatorsInit ==
    /\ operator \in Operators
    /\ Init
    /\ Sort!Init
    /\ operator # "sort" => hint = 0 /\ \A p \in Partitions : sInput[p] = <<>>
    /\ Grouped!Init
    /\ operator # "grouped" => ~distinct /\ hInput[0] = <<>>
    /\ Ungrouped!Init
    /\ operator # "ungrouped" => ~uDistinct /\ \A p \in DOMAIN uInput : uInput[p] = <<>>
    /\ Unioned!Init /\ Materialized!Init /\ Create!Init
    /\ operator # "create" =>
          mode = "error" /\ entry = "none" /\ \A p \in DOMAIN cInput : cInput[p] = 0

RunLimit == operator = "limit" /\ Next
    /\ UNCHANGED <<operator, sortVars, groupedVars, ungroupedVars, unionVars,
                   materializeVars, createVars>>
RunSort == operator = "sort" /\ Sort!Next
    /\ UNCHANGED <<operator, vars, groupedVars, ungroupedVars, unionVars,
                   materializeVars, createVars>>
RunGrouped == operator = "grouped" /\ Grouped!Next
    /\ UNCHANGED <<operator, vars, sortVars, ungroupedVars, unionVars,
                   materializeVars, createVars>>
RunUngrouped == operator = "ungrouped" /\ Ungrouped!Next
    /\ UNCHANGED <<operator, vars, sortVars, groupedVars, unionVars,
                   materializeVars, createVars>>
RunUnion == operator = "union" /\ Unioned!Next
    /\ UNCHANGED <<operator, vars, sortVars, groupedVars, ungroupedVars,
                   materializeVars, createVars>>
RunMaterialize == operator = "materialize" /\ Materialized!Next
    /\ UNCHANGED <<operator, vars, sortVars, groupedVars, ungroupedVars,
                   unionVars, createVars>>
RunCreate == operator = "create" /\ Create!Next
    /\ UNCHANGED <<operator, vars, sortVars, groupedVars, ungroupedVars,
                   unionVars, materializeVars>>
OperatorsNext ==
    \/ RunLimit \/ RunSort \/ RunGrouped \/ RunUngrouped
    \/ RunUnion \/ RunMaterialize \/ RunCreate

OperatorsSpec == OperatorsInit /\ [][OperatorsNext]_operatorVars
-----------------------------------------------------------------------------
(* A union returns the batches of its two inputs in their order.           *)
InOrder == operator = "union" => Unioned!InOrder

(* Everything that goes in comes out: a union ends when both inputs have   *)
(* been returned, each output of a materialization gets each chunk once,   *)
(* CREATE TABLE AS makes one table and stores every batch.                 *)
EverythingArrives ==
    CASE operator = "union" -> Unioned!ExhaustedIsComplete
      [] operator = "materialize" ->
            Materialized!EveryOutputGetsAll /\ Materialized!ReservationsDisjoint
      [] operator = "create" -> Create!AllStored /\ Create!CreatedOnce
      [] OTHER -> TRUE

(* No "should not happen" of the phases happens: a run is taken as the     *)
(* result of a sort only when no merge is running, and no partition of an  *)
(* aggregate merges or scans tables that another has still to write.       *)
AssertionsHold ==
    CASE operator = "sort" -> Sort!OneResult
      [] operator = "grouped" -> Grouped!NoEarlyMerge
      [] operator = "ungrouped" -> Ungrouped!NoEarlyPhase
      [] OTHER -> TRUE

(* A parked task waits for something that is yet to happen, and for a task *)
(* that is not parked itself.                                              *)
NobodyStranded ==
    CASE operator = "sort" -> Sort!NoStrandedMerger
      [] operator = "grouped" -> Grouped!NoStrandedPartition
      [] operator = "ungrouped" -> Ungrouped!NoStrandedPartition
      [] operator = "union" -> Unioned!NoDeadlock
      [] operator = "materialize" -> Materialized!NoStrandedPull
      [] operator = "create" -> Create!NoStrandedPartition
      [] OTHER -> TRUE
-----------------------------------------------------------------------------
(* Cardinality counts whenever a set is finite, in every module.           *)
LEMMA FiniteIsCounted == ASSUME NEW S, IsFiniteSet(S) PROVE Counted(S)
<1> SUFFICES ASSUME NEW T \in SUBSET S
             PROVE  /\ Cardinality(T) \in 0 .. Cardinality(S) /\ (Cardinality(T) = 0 <=> T = {})
                    /\ \A x \in T : Cardinality(T \ {x}) = Cardinality(T) - 1
  BY Zenon DEF Counted
<1>1. IsFiniteSet(T) /\ Cardinality(T) <= Cardinality(S)
  BY FS_Subset, Zenon
<1>2. Cardinality(T) \in Nat /\ Cardinality(S) \in Nat /\ (Cardinality(T) = 0 <=> T = {})
  BY <1>1, FS_CardinalityType, FS_EmptySet, Zenon
<1>3. \A x \in T : Cardinality(T \ {x}) = Cardinality(T) - 1
  BY <1>1, FS_RemoveElement, Zenon
<1>4. Cardinality(T) \in 0 .. Cardinality(S)
  BY <1>1, <1>2, InInterval, Zenon
<1> QED
  BY <1>2, <1>3, <1>4, Zenon

LEMMA OneCardinality ==
    \A S : Grouped!Cardinality(S) = Cardinality(S) /\ Ungrouped!Cardinality(S) = Cardinality(S)
           /\ Materialized!Cardinality(S) = Cardinality(S)
  BY DEF Grouped!Cardinality, Ungrouped!Cardinality, Materialized!Cardinality, Cardinality

LEMMA AggregatesAreCounted == Grouped!Counted /\ Ungrouped!Counted
<1>1. IsFiniteSet(0 .. N - 1) /\ Cardinality(0 .. N - 1) = N
  <2>1. 0 \in Int /\ N - 1 \in Int
    BY AggregatesAssumption, CountOfInterval, Zenon
  <2>2. /\ IsFiniteSet(0 .. N - 1)
        /\ Cardinality(0 .. N - 1) = IF 0 > N - 1 THEN 0 ELSE (N - 1) - 0 + 1
    BY <2>1, FS_Interval, Zenon
  <2> QED
    BY <2>2, AggregatesAssumption, CountOfInterval, Zenon
<1>2. Counted(0 .. N - 1)
  BY <1>1, FiniteIsCounted, Zenon
<1>3. \A ps \in SUBSET (0 .. N - 1) :
          /\ Cardinality(ps) \in 0 .. N /\ (Cardinality(ps) = 0 <=> ps = {})
          /\ \A p \in ps : Cardinality(ps \ {p}) = Cardinality(ps) - 1
  BY <1>1, <1>2, Zenon DEF Counted
<1>4. Grouped!Counted
  BY <1>1, <1>3, AggregatesAssumption, OneCardinality, Zenon DEF Grouped!Counted, Grouped!Parts
<1>5. Ungrouped!Counted
  BY <1>1, <1>3, AggregatesAssumption, OneCardinality, Zenon DEF Ungrouped!Counted, Ungrouped!Parts
<1> QED
  BY <1>4, <1>5

(* One operator runs: each of them takes a step of its own or rests.       *)
OneStep ==
    /\ UNCHANGED operator
    /\ Next \/ UNCHANGED vars
    /\ Sort!Next \/ UNCHANGED sortVars
    /\ Grouped!Next \/ UNCHANGED groupedVars
    /\ Ungrouped!Next \/ UNCHANGED ungroupedVars
    /\ Unioned!Next \/ UNCHANGED unionVars
    /\ Materialized!Next \/ UNCHANGED materializeVars
    /\ Create!Next \/ UNCHANGED createVars

LEMMA OneRuns == [OperatorsNext]_operatorVars => OneStep
  BY Zenon DEF OperatorsNext, operatorVars, RunLimit, RunSort, RunGrouped, RunUngrouped, RunUnion,
               RunMaterialize, RunCreate, OneStep

LEMMA SortRuns == OperatorsSpec => Sort!Spec
<1>1. OperatorsInit => Sort!Init
  BY Zenon DEF OperatorsInit
<1>2. UNCHANGED sortVars => UNCHANGED Sort!vars
  BY Zenon DEF sortVars, Sort!vars, Sort!queue
<1>3. [OperatorsNext]_operatorVars => [Sort!Next]_(Sort!vars)
  BY <1>2, OneRuns, Zenon DEF OneStep
<1> QED
  BY <1>1, <1>3, PTL DEF OperatorsSpec, Sort!Spec

LEMMA UnionRuns == OperatorsSpec => Unioned!Spec
<1>1. OperatorsInit => Unioned!Init
  BY Zenon DEF OperatorsInit
<1>2. UNCHANGED unionVars => UNCHANGED Unioned!vars
  BY Zenon DEF unionVars, Unioned!vars, Unioned!slot
<1>3. [OperatorsNext]_operatorVars => [Unioned!Next]_(Unioned!vars)
  BY <1>2, OneRuns, Zenon DEF OneStep
<1> QED
  BY <1>1, <1>3, PTL DEF OperatorsSpec, Unioned!Spec

LEMMA MaterializeRuns == OperatorsSpec => Materialized!Spec
<1>1. OperatorsInit => Materialized!Init
  BY Zenon DEF OperatorsInit
<1>2. UNCHANGED materializeVars => UNCHANGED Materialized!vars
  BY Zenon DEF materializeVars, Materialized!vars, Materialized!collection
<1>3. [OperatorsNext]_operatorVars => [Materialized!Next]_(Materialized!vars)
  BY <1>2, OneRuns, Zenon DEF OneStep
<1> QED
  BY <1>1, <1>3, PTL DEF OperatorsSpec, Materialized!Spec

LEMMA GroupedRuns == OperatorsSpec => Grouped!Spec
<1>1. OperatorsInit => Grouped!Init
  BY Zenon DEF OperatorsInit
<1>2. UNCHANGED groupedVars => UNCHANGED Grouped!vars
  BY Zenon DEF groupedVars, Grouped!vars, Grouped!tables
<1>3. [OperatorsNext]_operatorVars => [Grouped!Next]_(Grouped!vars)
  BY <1>2, OneRuns, Zenon DEF OneStep
<1> QED
  BY <1>1, <1>3, PTL DEF OperatorsSpec, Grouped!Spec

LEMMA UngroupedRuns == OperatorsSpec => Ungrouped!Spec
<1>1. OperatorsInit => Ungrouped!Init
  BY Zenon DEF OperatorsInit
<1>2. UNCHANGED ungroupedVars => UNCHANGED Ungrouped!vars
  BY Zenon DEF ungroupedVars, Ungrouped!vars, Ungrouped!tables, Ungrouped!counters
<1>3. [OperatorsNext]_operatorVars => [Ungrouped!Next]_(Ungrouped!vars)
  BY <1>2, OneRuns, Zenon DEF OneStep
<1> QED
  BY <1>1, <1>3, PTL DEF OperatorsSpec, Ungrouped!Spec

LEMMA CreateRuns == OperatorsSpec => Create!Spec
<1>1. OperatorsInit => Create!Init
  BY Zenon DEF OperatorsInit
<1>2. UNCHANGED createVars => UNCHANGED Create!vars
  BY Zenon DEF createVars, Create!vars
<1>3. [OperatorsNext]_operatorVars => [Create!Next]_(Create!vars)
  BY <1>2, OneRuns, Zenon DEF OneStep
<1> QED
  BY <1>1, <1>3, PTL DEF OperatorsSpec, Create!Spec

LEMMA LimitRuns == OperatorsSpec => Spec
<1>1. OperatorsInit => Init
  BY Zenon DEF OperatorsInit
<1>2. [OperatorsNext]_operatorVars => [Next]_vars
  BY OneRuns, Zenon DEF OneStep
<1> QED
  BY <1>1, <1>2, PTL DEF OperatorsSpec, Spec
-----------------------------------------------------------------------------
(* A limit over several partitions returns the rows its counters leave,    *)
(* whatever runs beside it.                                                *)
THEOREM LimitReturnsRows == OperatorsSpec => []RowsReturned
  BY LimitRuns, ReturnsTheRows, PTL

(* UnionAll returns the batches of its inputs in their order, for any      *)
(* number of partitions and batches.                                       *)
THEOREM UnionsInOrder == OperatorsSpec => []InOrder
<1>1. Unioned!InOrder => InOrder
  BY DEF InOrder
<1> QED
  BY <1>1, UnionRuns, BatchesInOrder, PTL

(* No batch, chunk or table is lost or made twice by the operators through *)
(* which pipelines and tables exchange rows.                               *)
THEOREM NothingIsLost == OperatorsSpec => []EverythingArrives
<1>1. ASSUME Unioned!ExhaustedIsComplete, Materialized!EveryOutputGetsAll,
             Materialized!ReservationsDisjoint, Create!AllStored, Create!CreatedOnce
      PROVE  EverythingArrives
  BY <1>1 DEF EverythingArrives
<1>2. /\ OperatorsSpec => []Materialized!EveryOutputGetsAll
      /\ OperatorsSpec => []Materialized!ReservationsDisjoint
  BY MaterializeRuns, ScansAssumption, Materialized!OutputsGetAll, Materialized!SegmentsNotShared,
     PTL
<1> QED
  BY <1>1, <1>2, UnionRuns, CreateRuns, NothingIsLeft, EveryBatchIsStored, OneTableCreated, PTL

(* No phase of a sort or an aggregate starts before what it reads is       *)
(* complete: merge_global and scan never refuse, and the last run of a     *)
(* sort is taken once no merge is running.                                 *)
THEOREM PhasesAreOrdered == OperatorsSpec => []AssertionsHold
<1>1. ASSUME Sort!OneResult, Grouped!NoEarlyMerge, Ungrouped!NoEarlyPhase
      PROVE  AssertionsHold
  BY <1>1 DEF AssertionsHold
<1>2. OperatorsSpec => []Grouped!NoEarlyMerge
  BY GroupedRuns, AggregatesAreCounted, Grouped!MergesWait, PTL
<1>3. OperatorsSpec => []Ungrouped!NoEarlyPhase
  BY UngroupedRuns, AggregatesAreCounted, Ungrouped!PhasesWait, PTL
<1> QED
  BY <1>1, <1>2, <1>3, SortRuns, OneSortedRun, PTL

(* No operator whose partitions wait for each other can stop with all of   *)
(* them parked: whoever is parked waits for a step of someone who is not.  *)
THEOREM SomebodyWakesThem == OperatorsSpec => []NobodyStranded
<1>1. ASSUME Sort!NoStrandedMerger, Grouped!NoStrandedPartition, Ungrouped!NoStrandedPartition,
             Unioned!NoDeadlock, Materialized!NoStrandedPull, Create!NoStrandedPartition
      PROVE  NobodyStranded
  BY <1>1 DEF NobodyStranded
<1>2. OperatorsSpec => []Grouped!NoStrandedPartition
  BY GroupedRuns, AggregatesAreCounted, Grouped!NobodyWaitsForEver, PTL
<1>3. OperatorsSpec => []Ungrouped!NoStrandedPartition
  BY UngroupedRuns, AggregatesAreCounted, Ungrouped!NobodyWaitsForEver, PTL
<1>4. OperatorsSpec => []Materialized!NoStrandedPull
  BY MaterializeRuns, ScansAssumption, Materialized!NobodyWaitsForEver, PTL
<1> QED
  BY <1>1, <1>2, <1>3, <1>4, SortRuns, UnionRuns, CreateRuns, MergersAreWoken, NeverBothParked,
     WaitersHaveACreator, PTL

=============================================================================
