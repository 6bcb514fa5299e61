--------------------------- MODULE OperatorProofs ---------------------------
(***************************************************************************)
(* Limits, sorts, unions and CREATE TABLE AS, the operators whose          *)
(* partitions share nothing but the state behind the lock of the operator, *)
(* and proofs about them for every number of partitions and every input:   *)
(* whoever waits is woken, no result is taken early, and what goes into a  *)
(* limit, a union or a new table comes out.  Each operator has an          *)
(* inductive invariant of its own; QueryOperators combines the theorems.   *)
(***************************************************************************)
EXTENDS Limit, Sequences, TLC, TLAPS

CONSTANTS
    SortInputs, SortHints, BlockCapacity, BatchSize,
    UnionPartitions, Batches,
    MaxBatches

VARIABLES
    hint, sInput, unsorted, blocks, part, held, runs, remaining, running, wakers, output, all,
    first, second, draining, exhausted, pushDone, hasData, pushFinished, buffer, pullWaker,
    pushWaker, xOutput,
    mode, entry, creating, table, waiting, cPart, cInput, opened, counted, buffered, stored, total

(* There are finitely many partitions: Cardinality counts them.            *)
Counted(S) ==
    \A T \in SUBSET S :
        /\ Cardinality(T) \in 0 .. Cardinality(S) /\ (Cardinality(T) = 0 <=> T = {})
        /\ \A x \in T : Cardinality(T \ {x}) = Cardinality(T) - 1
ASSUME PartitionsAssumption == Counted(Partitions)
ASSUME SizesAssumption ==
    Batches \in Nat /\ MaxBatches \in Nat /\ BlockCapacity \in Nat \ {0} /\ BatchSize \in Nat \ {0}

Sort == INSTANCE GlobalSort WITH
    Inputs <- SortInputs, LimitHints <- SortHints, input <- sInput
sortVars == <<hint, sInput, unsorted, blocks, part, held, runs, remaining, running, wakers,
              output, all>>

Unioned == INSTANCE Union WITH Partitions <- UnionPartitions, output <- xOutput
unionVars == <<first, second, draining, exhausted, pushDone, hasData, pushFinished, buffer,
               pullWaker, pushWaker, xOutput>>

Create == INSTANCE CreateTableAs WITH
    slot <- entry, wakers <- waiting, part <- cPart, input <- cInput, count <- counted
createVars == <<mode, entry, creating, table, waiting, cPart, cInput, opened, counted,
                buffered, stored, total>>

-----------------------------------------------------------------------------
(* Parts of a bounded sum.                                                 *)
LEMMA ZeroAdds == \A n \in Nat : 0 + n = n /\ n + 0 = n
  OBVIOUS

LEMMA PartsBounded ==
    ASSUME NEW max \in Nat, NEW a \in Nat, NEW b \in Nat, a + b \in 0 .. max
    PROVE  a \in 0 .. max /\ b \in 0 .. max
  OBVIOUS

LEMMA InInterval == \A m, n \in Nat : m <= n => m \in 0 .. n
  OBVIOUS

LEMMA CountOfInterval ==
    \A n \in Nat : /\ 0 \in Int /\ n - 1 \in Int
                  /\ (IF 0 > n - 1 THEN 0 ELSE (n - 1) - 0 + 1) = n
  OBVIOUS

(* Sequences of whatever they are sequences of.                            *)
IsSeq(s) == \E S : s \in Seq(S)

LEMMA SeqLen == ASSUME NEW s, IsSeq(s) PROVE Len(s) \in Nat /\ (s = <<>> <=> Len(s) = 0)
<1>1. PICK S : s \in Seq(S)
  BY DEF IsSeq
<1> QED
  BY <1>1

LEMMA SeqAppend ==
    ASSUME NEW s, IsSeq(s), NEW e PROVE IsSeq(Append(s, e))
<1>1. PICK S : s \in Seq(S)
  BY DEF IsSeq
<1>2. s \in Seq(S \cup {e})
  BY <1>1
<1>3. Append(s, e) \in Seq(S \cup {e})
  BY <1>2
<1> QED
  BY <1>3 DEF IsSeq

LEMMA SeqConcat ==
    ASSUME NEW s, IsSeq(s), NEW t, IsSeq(t) PROVE IsSeq(s \o t)
<1>1. PICK S : s \in Seq(S)
  BY DEF IsSeq
<1>2. PICK T : t \in Seq(T)
  BY DEF IsSeq
<1>3. s \in Seq(S \cup T) /\ t \in Seq(S \cup T)
  BY <1>1, <1>2
<1>4. s \o t \in Seq(S \cup T)
  BY <1>3
<1> QED
  BY <1>4 DEF IsSeq

LEMMA SeqTail ==
    ASSUME NEW s, IsSeq(s), s # <<>> PROVE IsSeq(Tail(s)) /\ Len(Tail(s)) = Len(s) - 1
<1>1. PICK S : s \in Seq(S)
  BY DEF IsSeq
<1>2. Tail(s) \in Seq(S) /\ Len(Tail(s)) = Len(s) - 1
  BY <1>1
<1> QED
  BY <1>2 DEF IsSeq

LEMMA SeqFrom ==
    ASSUME NEW s, IsSeq(s), NEW n \in Nat \ {0} PROVE IsSeq(SubSeq(s, n, Len(s)))
<1>1. PICK S : s \in Seq(S)
  BY DEF IsSeq
<1>2. SubSeq(s, n, Len(s)) \in Seq(S)
  BY <1>1
<1> QED
  BY <1>2 DEF IsSeq

-----------------------------------------------------------------------------
(* Limits.  The counters are what the offset and the limit leave of the    *)
(* rows polled so far, whichever partition polled them, and a partition    *)
(* that stopped or dropped rows found no rows left.  RowsReturned says     *)
(* nothing of the counters the next batch is cut by, so it is not          *)
(* inductive alone.                                                        *)
LimitCounters ==
    /\ remainingOffset = (IF input >= Offset THEN 0 ELSE Offset - input)
    /\ remainingCount = LimitCount - passed
    /\ \A p \in Partitions : state[p] = "exhausted" => remainingCount = 0
    /\ discarded > 0 => remainingCount = 0

LimitInv == TypeOK /\ LimitCounters /\ RowsReturned

-----------------------------------------------------------------------------
LEMMA InitLimit == Init => LimitInv
  BY LimitAssumption DEF Init, LimitInv, TypeOK, LimitCounters, RowsReturned, Least

LEMMA PollLimit ==
    ASSUME LimitInv, NEW p \in Partitions, NEW n \in Nat, Poll(p, n)
    PROVE  LimitInv'
<1> USE LimitAssumption DEF LimitInv, TypeOK, LimitCounters, RowsReturned, Polls, Skipped, Least
<1>1. CASE Skip(p, n)
  BY <1>1 DEF Skip
<1>2. CASE Slice(p, n)
  BY <1>2 DEF Slice, SliceCount, Exhausts
<1>3. CASE Cut(p, n)
  BY <1>3 DEF Cut
<1>4. CASE Pass(p, n)
  BY <1>4 DEF Pass, Passed
<1> QED
  BY <1>1, <1>2, <1>3, <1>4 DEF Poll

LEMMA NextLimit == LimitInv /\ [Next]_vars => LimitInv'
<1> SUFFICES ASSUME LimitInv, [Next]_vars PROVE LimitInv'
  OBVIOUS
<1>1. CASE UNCHANGED vars
  BY <1>1 DEF LimitInv, TypeOK, LimitCounters, RowsReturned, vars
<1>2. ASSUME NEW p \in Partitions, End(p) PROVE LimitInv'
  BY <1>2 DEF End, LimitInv, TypeOK, LimitCounters, RowsReturned
<1>3. ASSUME NEW p \in Partitions, NEW n \in 0 .. MaxBatch, Poll(p, n) PROVE LimitInv'
  <2>1. n \in Nat
    OBVIOUS
  <2> QED
    BY <2>1, <1>3, PollLimit
<1> QED
  BY <1>1, <1>2, <1>3 DEF Next

LEMMA LimitInvariance == Spec => []LimitInv
  BY InitLimit, NextLimit, PTL DEF Spec

-----------------------------------------------------------------------------
(* The counters stay between 0 and what the query asked for: no            *)
(* subtraction of Limit::poll_execute underflows.                          *)
THEOREM TypeCorrect == Spec => []TypeOK
  BY LimitInvariance, PTL DEF LimitInv

(* Limit::poll_execute returns exactly the rows behind the offset, as many *)
(* as the limit allows, however the partitions share them out in batches.  *)
THEOREM ReturnsTheRows == Spec => []RowsReturned
  BY LimitInvariance, PTL DEF LimitInv

(* A partition returns Exhausted, and a row is cut off, only once          *)
(* LimitCount rows have been returned.                                     *)
THEOREM StopsOnlyAtLimit == Spec => []StopsAtLimit
<1>1. LimitInv => StopsAtLimit
  BY LimitAssumption DEF LimitInv, TypeOK, LimitCounters, RowsReturned, StopsAtLimit, Least
<1> QED
  BY <1>1, LimitInvariance, PTL

-----------------------------------------------------------------------------
(* Unions.                                                                 *)
UnionEntries == {"first", "second"} \X Nat

UnionTyped ==
    /\ Unioned!TypeOK
    /\ draining \subseteq UnionPartitions /\ pushDone \subseteq UnionPartitions
    /\ hasData \subseteq UnionPartitions
    /\ xOutput \in [UnionPartitions -> Seq(UnionEntries)]

(* Where the two tasks of partition p stand.  InOrder alone does not say   *)
(* that the slot holds the latest batch, nor that the first input is at    *)
(* its end before the second is drained.                                   *)
UnionPartition(p) ==
    /\ p \notin draining => Len(xOutput[p]) = first[p]
    /\ p \in draining => first[p] = Batches
    /\ p \in pushDone => second[p] = Batches
    /\ p \in hasData => buffer[p] = second[p] /\ second[p] > 0
    /\ p \in exhausted => p \in pushDone /\ p \notin hasData

(* InOrder for one partition.                                              *)
UnionReturned(p) == second[p] - (IF p \in hasData THEN 1 ELSE 0)
UnionOrder(p) ==
    /\ Len(xOutput[p]) = first[p] + UnionReturned(p)
    /\ \A i \in 1 .. Len(xOutput[p]) :
          xOutput[p][i] = IF i <= first[p] THEN <<"first", i>> ELSE <<"second", i - first[p]>>

UnionInv ==
    /\ UnionTyped /\ Unioned!NoDeadlock
    /\ \A p \in UnionPartitions : UnionPartition(p) /\ UnionOrder(p)

-----------------------------------------------------------------------------
(* What appending a batch does to the sequence of those returned.          *)
LEMMA AppendEntry ==
    ASSUME NEW s \in Seq(UnionEntries), NEW e \in UnionEntries
    PROVE  /\ Append(s, e) \in Seq(UnionEntries)
           /\ Len(Append(s, e)) = Len(s) + 1
           /\ \A i \in 1 .. Len(s) : Append(s, e)[i] = s[i]
           /\ Append(s, e)[Len(s) + 1] = e
  OBVIOUS

LEMMA InitUnion == Unioned!Init => UnionInv
<1> SUFFICES ASSUME Unioned!Init PROVE UnionInv
  OBVIOUS
<1>1. UnionTyped /\ Unioned!NoDeadlock
  BY DEF Unioned!Init, UnionTyped, Unioned!TypeOK, Unioned!NoDeadlock
<1>2. \A p \in UnionPartitions : UnionPartition(p) /\ UnionOrder(p)
  BY DEF Unioned!Init, UnionPartition, UnionOrder, UnionReturned
<1> QED
  BY <1>1, <1>2 DEF UnionInv

(* The types of what the two tasks of a partition share.                   *)
LEMMA UnionTypes ==
    ASSUME UnionInv
    PROVE  /\ first \in [UnionPartitions -> Nat] /\ second \in [UnionPartitions -> Nat]
           /\ buffer \in [UnionPartitions -> Nat]
           /\ xOutput \in [UnionPartitions -> Seq(UnionEntries)]
  BY Zenon DEF UnionInv, UnionTyped, Unioned!TypeOK

(* A step that returns no batch leaves the order alone.                    *)
Quiet ==
    /\ UnionTyped' /\ Unioned!NoDeadlock' /\ UNCHANGED <<xOutput, first>>
    /\ \A q \in UnionPartitions : UnionPartition(q)' /\ UnionReturned(q)' = UnionReturned(q)

LEMMA QuietUnion ==
    ASSUME UnionInv, Quiet
    PROVE  UnionInv'
<1> SUFFICES ASSUME NEW q \in UnionPartitions PROVE UnionOrder(q)'
  BY Zenon DEF UnionInv, Quiet
<1>1. UnionOrder(q) /\ UnionReturned(q)' = UnionReturned(q) /\ xOutput' = xOutput /\ first' = first
  BY Zenon DEF UnionInv, Quiet
<1> QED
  BY <1>1, Zenon DEF UnionOrder

LEMMA PushPendingUnion ==
    ASSUME UnionInv, NEW p \in UnionPartitions, Unioned!PushPending(p)
    PROVE  UnionInv'
<1>1. /\ p \notin pushDone /\ p \in hasData /\ pushWaker' = pushWaker \cup {p}
      /\ UNCHANGED <<first, second, draining, exhausted, pushDone, hasData, pushFinished, buffer,
                     pullWaker, xOutput>>
  BY Zenon DEF Unioned!PushPending, Unioned!Pushes, Unioned!SlotTaken
<1>2. UnionTyped' /\ Unioned!NoDeadlock'
  BY <1>1 DEF UnionInv, UnionTyped, Unioned!TypeOK, Unioned!NoDeadlock
<1>3. \A q \in UnionPartitions : UnionPartition(q)' /\ UnionReturned(q)' = UnionReturned(q)
  BY <1>1, Zenon DEF UnionInv, UnionPartition, UnionReturned
<1> QED
  BY <1>1, <1>2, <1>3, QuietUnion DEF Quiet

LEMMA PushUnion ==
    ASSUME UnionInv, NEW p \in UnionPartitions, Unioned!Push(p)
    PROVE  UnionInv'
<1>t. second \in [UnionPartitions -> Nat] /\ buffer \in [UnionPartitions -> Nat]
  BY UnionTypes
<1>1. /\ p \notin pushDone /\ p \notin hasData /\ second' = [second EXCEPT ![p] = second[p] + 1]
      /\ buffer' = [buffer EXCEPT ![p] = second'[p]]
      /\ hasData' = hasData \cup {p} /\ pullWaker' = pullWaker \ {p}
      /\ UNCHANGED <<first, draining, exhausted, pushDone, pushFinished, pushWaker, xOutput>>
  BY DEF Unioned!Push, Unioned!Pushes, Unioned!SlotTaken, Unioned!WokenByPush
<1>2. /\ second' \in [UnionPartitions -> Nat] /\ buffer' \in [UnionPartitions -> Nat]
      /\ second'[p] = second[p] + 1 /\ buffer'[p] = second[p] + 1 /\ second[p] \in Nat
      /\ \A q \in UnionPartitions : q # p => second'[q] = second[q] /\ buffer'[q] = buffer[q]
  BY <1>t, <1>1
<1>3. UnionTyped' /\ Unioned!NoDeadlock'
  BY <1>1, <1>2 DEF UnionInv, UnionTyped, Unioned!TypeOK, Unioned!NoDeadlock
<1>4. ASSUME NEW q \in UnionPartitions PROVE UnionPartition(q)' /\ UnionReturned(q)' = UnionReturned(q)
  <2>1. UnionPartition(q)
    BY DEF UnionInv
  <2>2. CASE q = p
    <3>1. /\ second'[q] = second[q] + 1 /\ buffer'[q] = second[q] + 1 /\ second[q] \in Nat
          /\ q \notin pushDone /\ q \notin hasData /\ q \in hasData'
      BY <1>1, <1>2, <2>2
    <3>2. UnionReturned(q)' = UnionReturned(q)
      BY <3>1 DEF UnionReturned
    <3> QED
      BY <1>1, <2>1, <3>1, <3>2 DEF UnionPartition
  <2>3. CASE q # p
    <3>1. second'[q] = second[q] /\ buffer'[q] = buffer[q] /\ (q \in hasData' <=> q \in hasData)
      BY <1>1, <1>2, <2>3
    <3>2. UnionReturned(q)' = UnionReturned(q)
      BY <3>1, Zenon DEF UnionReturned
    <3> QED
      BY <1>1, <2>1, <3>1, <3>2 DEF UnionPartition
  <2> QED
    BY <2>2, <2>3
<1> QED
  BY <1>1, <1>3, <1>4, QuietUnion DEF Quiet

LEMMA FinalizePushUnion ==
    ASSUME UnionInv, NEW p \in UnionPartitions, Unioned!FinalizePush(p)
    PROVE  UnionInv'
<1>1. /\ p \notin pushWaker /\ second[p] = Batches /\ pushFinished' = pushFinished \cup {p}
      /\ pushDone' = pushDone \cup {p} /\ pullWaker' = pullWaker \ {p}
      /\ UNCHANGED <<first, second, draining, exhausted, hasData, buffer, pushWaker, xOutput>>
  BY Zenon DEF Unioned!FinalizePush, Unioned!Pushes, Unioned!WokenByFinalize
<1>2. UnionTyped' /\ Unioned!NoDeadlock'
  BY <1>1 DEF UnionInv, UnionTyped, Unioned!TypeOK, Unioned!NoDeadlock
<1>3. \A q \in UnionPartitions : UnionPartition(q)'
  BY <1>1, Zenon DEF UnionInv, UnionPartition
<1>4. \A q \in UnionPartitions : UnionReturned(q)' = UnionReturned(q)
  BY <1>1 DEF UnionReturned
<1> QED
  BY <1>1, <1>2, <1>3, <1>4, QuietUnion DEF Quiet

LEMMA FinalizeExecuteUnion ==
    ASSUME UnionInv, NEW p \in UnionPartitions, Unioned!FinalizeExecute(p)
    PROVE  UnionInv'
<1>1. /\ p \notin draining /\ first[p] = Batches /\ draining' = draining \cup {p}
      /\ UNCHANGED <<first, second, exhausted, pushDone, hasData, pushFinished, buffer, pullWaker,
                     pushWaker, xOutput>>
  BY Zenon DEF Unioned!FinalizeExecute, Unioned!slot
<1>2. UnionTyped' /\ Unioned!NoDeadlock'
  BY <1>1 DEF UnionInv, UnionTyped, Unioned!TypeOK, Unioned!NoDeadlock
<1>3. \A q \in UnionPartitions : UnionPartition(q)'
  BY <1>1, Zenon DEF UnionInv, UnionPartition
<1>4. \A q \in UnionPartitions : UnionReturned(q)' = UnionReturned(q)
  BY <1>1 DEF UnionReturned
<1> QED
  BY <1>1, <1>2, <1>3, <1>4, QuietUnion DEF Quiet

LEMMA DrainEndUnion ==
    ASSUME UnionInv, NEW p \in UnionPartitions, Unioned!DrainEnd(p)
    PROVE  UnionInv'
<1>1. /\ p \in draining /\ p \notin pullWaker /\ p \in pushFinished /\ p \notin hasData
      /\ exhausted' = exhausted \cup {p}
      /\ UNCHANGED <<first, second, draining, pushDone, hasData, pushFinished, buffer, pullWaker,
                     pushWaker, xOutput>>
  BY Zenon DEF Unioned!DrainEnd, Unioned!Drains, Unioned!EndOfInput, Unioned!slot
<1>2. UnionTyped' /\ Unioned!NoDeadlock'
  BY <1>1 DEF UnionInv, UnionTyped, Unioned!TypeOK, Unioned!NoDeadlock
<1>3. \A q \in UnionPartitions : UnionPartition(q)'
  BY <1>1 DEF UnionInv, UnionTyped, Unioned!TypeOK, UnionPartition
<1>4. \A q \in UnionPartitions : UnionReturned(q)' = UnionReturned(q)
  BY <1>1 DEF UnionReturned
<1> QED
  BY <1>1, <1>2, <1>3, <1>4, QuietUnion DEF Quiet

LEMMA DrainPendingUnion ==
    ASSUME UnionInv, NEW p \in UnionPartitions, Unioned!DrainPending(p)
    PROVE  UnionInv'
<1>1. /\ p \in draining /\ p \notin exhausted /\ p \notin hasData /\ p \notin pushFinished
      /\ pullWaker' = pullWaker \cup {p} /\ pushWaker' = pushWaker \ {p}
      /\ UNCHANGED <<first, second, draining, exhausted, pushDone, hasData, pushFinished, buffer,
                     xOutput>>
  BY Zenon DEF Unioned!DrainPending, Unioned!Drains, Unioned!EndOfInput
<1>2. UnionTyped' /\ Unioned!NoDeadlock'
  BY <1>1 DEF UnionInv, UnionTyped, Unioned!TypeOK, Unioned!NoDeadlock
<1>3. \A q \in UnionPartitions : UnionPartition(q)' /\ UnionReturned(q)' = UnionReturned(q)
  BY <1>1, Zenon DEF UnionInv, UnionPartition, UnionReturned
<1> QED
  BY <1>1, <1>2, <1>3, QuietUnion DEF Quiet

LEMMA PassThroughUnion ==
    ASSUME UnionInv, NEW p \in UnionPartitions, Unioned!PassThrough(p)
    PROVE  UnionInv'
<1> DEFINE e == <<"first", first[p] + 1>>
<1>t. /\ first \in [UnionPartitions -> Nat] /\ second \in [UnionPartitions -> Nat]
      /\ xOutput \in [UnionPartitions -> Seq(UnionEntries)]
  BY UnionTypes
<1>1. p \notin draining /\ first' = [first EXCEPT ![p] = first[p] + 1]
  BY DEF Unioned!PassThrough
<1>2. first'[p] = first[p] + 1 /\ first' \in [UnionPartitions -> Nat] /\ e \in UnionEntries
  BY <1>t, <1>1 DEF UnionEntries
<1>3. /\ xOutput' = [xOutput EXCEPT ![p] = Append(xOutput[p], e)]
      /\ UNCHANGED <<second, draining, exhausted, pushDone, hasData, pushFinished, buffer,
                     pullWaker, pushWaker>>
  BY <1>2 DEF Unioned!PassThrough, Unioned!slot
<1> HIDE DEF e
<1>4. /\ xOutput' \in [UnionPartitions -> Seq(UnionEntries)] /\ xOutput'[p] = Append(xOutput[p], e)
      /\ \A q \in UnionPartitions : q # p => xOutput'[q] = xOutput[q] /\ first'[q] = first[q]
  <2>1. Append(xOutput[p], e) \in Seq(UnionEntries)
    BY <1>t, <1>2, AppendEntry
  <2> QED
    BY <1>t, <1>1, <1>3, <2>1
<1>5. UnionTyped' /\ Unioned!NoDeadlock'
  BY <1>2, <1>3, <1>4 DEF UnionInv, UnionTyped, Unioned!TypeOK, Unioned!NoDeadlock
<1>6. \A q \in UnionPartitions : UnionReturned(q)' = UnionReturned(q) /\ UnionReturned(q) \in Int
  BY <1>t, <1>3 DEF UnionReturned
<1>7. ASSUME NEW q \in UnionPartitions, q # p PROVE UnionPartition(q)' /\ UnionOrder(q)'
  <2>1. UnionPartition(q) /\ UnionOrder(q)
    BY DEF UnionInv
  <2>2. xOutput'[q] = xOutput[q] /\ first'[q] = first[q] /\ UnionReturned(q)' = UnionReturned(q)
    BY <1>4, <1>6, <1>7, Zenon
  <2>3. UnionPartition(q)'
    BY <1>3, <2>1, <2>2, Zenon DEF UnionPartition
  <2> QED
    BY <2>1, <2>2, <2>3, Zenon DEF UnionOrder
<1>8. UnionPartition(p)' /\ UnionOrder(p)'
  <2>1. UnionPartition(p) /\ UnionOrder(p) /\ xOutput[p] \in Seq(UnionEntries) /\ first[p] \in Nat
    BY <1>t DEF UnionInv
  <2>2. Len(xOutput[p]) = first[p]
    BY <1>1, <2>1 DEF UnionPartition
  <2>3. /\ Len(xOutput'[p]) = first'[p]
        /\ \A i \in 1 .. first[p] : xOutput'[p][i] = xOutput[p][i]
        /\ xOutput'[p][first[p] + 1] = e
    <3>1. /\ Len(xOutput'[p]) = Len(xOutput[p]) + 1
          /\ \A i \in 1 .. Len(xOutput[p]) : xOutput'[p][i] = xOutput[p][i]
          /\ xOutput'[p][Len(xOutput[p]) + 1] = e
      BY <1>2, <1>4, <2>1, AppendEntry
    <3> QED
      BY <1>2, <2>2, <3>1
  <2>4. UnionPartition(p)'
    BY <1>1, <1>3, <2>1, <2>3, ZenonT(30) DEF UnionPartition
  <2>5. ASSUME NEW i \in 1 .. first'[p] PROVE xOutput'[p][i] = <<"first", i>>
    <3>1. CASE i \in 1 .. first[p]
      <4>1. i <= first[p] /\ xOutput'[p][i] = xOutput[p][i]
        BY <2>1, <2>3, <3>1
      <4> QED
        BY <2>1, <2>2, <3>1, <4>1, ZenonT(30) DEF UnionOrder
    <3>2. CASE i = first[p] + 1
      BY <2>3, <3>2 DEF e
    <3> QED
      BY <1>2, <2>1, <3>1, <3>2
  <2>6. Len(xOutput'[p]) = first'[p] + UnionReturned(p)'
    <3>1. UnionReturned(p) = 0
      BY <1>6, <2>1, <2>2 DEF UnionOrder
    <3> QED
      BY <1>2, <1>6, <2>1, <2>3, <3>1
  <2>7. \A i \in 1 .. Len(xOutput'[p]) : i <= first'[p] /\ xOutput'[p][i] = <<"first", i>>
    BY <1>2, <2>1, <2>3, <2>5
  <2> QED
    BY <2>4, <2>6, <2>7, Zenon DEF UnionOrder
<1> QED
  BY <1>5, <1>7, <1>8, Zenon DEF UnionInv

LEMMA DrainBatchUnion ==
    ASSUME UnionInv, NEW p \in UnionPartitions, Unioned!DrainBatch(p)
    PROVE  UnionInv'
<1> DEFINE e == <<"second", buffer[p]>>
<1>t. /\ first \in [UnionPartitions -> Nat] /\ second \in [UnionPartitions -> Nat]
      /\ buffer \in [UnionPartitions -> Nat] /\ xOutput \in [UnionPartitions -> Seq(UnionEntries)]
  BY UnionTypes
<1>1. /\ p \in draining /\ p \in hasData /\ hasData' = hasData \ {p} /\ pushWaker' = pushWaker \ {p}
      /\ xOutput' = [xOutput EXCEPT ![p] = Append(xOutput[p], e)]
      /\ UNCHANGED <<first, second, draining, exhausted, pushDone, pushFinished, buffer, pullWaker>>
  BY DEF Unioned!DrainBatch, Unioned!Drains
<1>2. e \in UnionEntries
  BY <1>t DEF UnionEntries
<1> HIDE DEF e
<1>3. /\ xOutput' \in [UnionPartitions -> Seq(UnionEntries)] /\ xOutput'[p] = Append(xOutput[p], e)
      /\ \A q \in UnionPartitions : q # p => xOutput'[q] = xOutput[q]
  <2>1. Append(xOutput[p], e) \in Seq(UnionEntries)
    BY <1>t, <1>2, AppendEntry
  <2> QED
    BY <1>t, <1>1, <2>1
<1>4. UnionTyped' /\ Unioned!NoDeadlock'
  BY <1>1, <1>3 DEF UnionInv, UnionTyped, Unioned!TypeOK, Unioned!NoDeadlock
<1>5. ASSUME NEW q \in UnionPartitions, q # p PROVE UnionPartition(q)' /\ UnionOrder(q)'
  <2>1. UnionPartition(q) /\ UnionOrder(q)
    BY DEF UnionInv
  <2>2. xOutput'[q] = xOutput[q] /\ (q \in hasData' <=> q \in hasData)
    BY <1>1, <1>3, <1>5
  <2>3. UnionPartition(q)'
    BY <1>1, <2>1, <2>2, Zenon DEF UnionPartition
  <2>4. UnionReturned(q)' = UnionReturned(q)
    BY <1>1, <2>2 DEF UnionReturned
  <2> QED
    BY <1>1, <2>1, <2>2, <2>3, <2>4, ZenonT(30) DEF UnionOrder
<1>6. UnionPartition(p)' /\ UnionOrder(p)'
  <2>1. /\ UnionPartition(p) /\ UnionOrder(p) /\ xOutput[p] \in Seq(UnionEntries)
        /\ first[p] \in Nat /\ second[p] \in Nat
    BY <1>t DEF UnionInv
  <2>2. Len(xOutput[p]) = first[p] + (second[p] - 1) /\ buffer[p] = second[p] /\ second[p] > 0
    BY <1>1, <2>1, ZenonT(30) DEF UnionPartition, UnionOrder, UnionReturned
  <2>3. /\ Len(xOutput'[p]) = first[p] + second[p]
        /\ \A i \in 1 .. Len(xOutput[p]) : xOutput'[p][i] = xOutput[p][i]
        /\ xOutput'[p][first[p] + second[p]] = e
    <3>1. /\ Len(xOutput'[p]) = Len(xOutput[p]) + 1
          /\ \A i \in 1 .. Len(xOutput[p]) : xOutput'[p][i] = xOutput[p][i]
          /\ xOutput'[p][Len(xOutput[p]) + 1] = e
      BY <1>2, <1>3, <2>1, AppendEntry
    <3>2. Len(xOutput[p]) + 1 = first[p] + second[p]
      BY <2>1, <2>2
    <3> QED
      BY <3>1, <3>2
  <2>4. UnionPartition(p)'
    BY <1>1, <2>1, Zenon DEF UnionPartition
  <2>5. first' = first /\ UnionReturned(p)' = second[p]
    <3>1. first' = first /\ second' = second /\ p \notin hasData' /\ second[p] \in Nat
      BY <1>1, <2>1, ZenonT(30)
    <3> QED
      BY <3>1 DEF UnionReturned
  <2>6. ASSUME NEW i \in 1 .. Len(xOutput'[p])
        PROVE  xOutput'[p][i] = IF i <= first[p] THEN <<"first", i>>
                                ELSE <<"second", i - first[p]>>
    <3>1. CASE i \in 1 .. Len(xOutput[p])
      BY <2>1, <2>3, <3>1 DEF UnionOrder
    <3>2. CASE i = first[p] + second[p]
      <4>1. xOutput'[p][i] = <<"second", second[p]>>
        BY <2>2, <2>3, <3>2 DEF e
      <4>2. ~(i <= first[p]) /\ i - first[p] = second[p]
        BY <2>1, <2>2, <3>2
      <4> QED
        BY <4>1, <4>2
    <3>3. Len(xOutput[p]) + 1 = first[p] + second[p] /\ Len(xOutput[p]) \in Nat
      BY <2>1, <2>2
    <3>4. i \in 1 .. (Len(xOutput[p]) + 1) /\ Len(xOutput[p]) + 1 = first[p] + second[p]
      BY <2>3, <3>3, Zenon
    <3>5. i \in 1 .. Len(xOutput[p]) \/ i = first[p] + second[p]
      BY <3>3, <3>4
    <3> QED
      BY <3>1, <3>2, <3>5, ZenonT(30)
  <2>7. Len(xOutput'[p]) = first'[p] + UnionReturned(p)'
    BY <2>3, <2>5
  <2> QED
    BY <2>4, <2>5, <2>6, <2>7, Zenon DEF UnionOrder
<1> QED
  BY <1>4, <1>5, <1>6, Zenon DEF UnionInv

LEMMA NextUnion == UnionInv /\ [Unioned!Next]_(Unioned!vars) => UnionInv'
<1> SUFFICES ASSUME UnionInv, [Unioned!Next]_(Unioned!vars) PROVE UnionInv'
  OBVIOUS
<1>1. CASE UNCHANGED Unioned!vars
  <2>1. UNCHANGED <<first, second, draining, exhausted, pushDone, hasData, pushFinished, buffer,
                    pullWaker, pushWaker, xOutput>>
    BY <1>1, Zenon DEF Unioned!vars, Unioned!slot
  <2> QED
    BY <2>1, ZenonT(30) DEF UnionInv, UnionTyped, Unioned!TypeOK, Unioned!NoDeadlock, UnionPartition,
                       UnionOrder, UnionReturned
<1>2. ASSUME NEW p \in UnionPartitions, Unioned!First(p) PROVE UnionInv'
  BY <1>2, PassThroughUnion, FinalizeExecuteUnion, DrainBatchUnion, DrainEndUnion,
     DrainPendingUnion, Zenon DEF Unioned!First
<1>3. ASSUME NEW p \in UnionPartitions, Unioned!Second(p) PROVE UnionInv'
  BY <1>3, PushPendingUnion, PushUnion, FinalizePushUnion, ZenonT(30) DEF Unioned!Second
<1> QED
  BY <1>1, <1>2, <1>3, Zenon DEF Unioned!Next

LEMMA UnionInvariance == Unioned!Spec => []UnionInv
  BY InitUnion, NextUnion, PTL DEF Unioned!Spec

-----------------------------------------------------------------------------
(* UnionAll returns the batches of the first input and then those of the   *)
(* second, each once and in order: no batch in the slot is overwritten or  *)
(* returned twice.                                                         *)
THEOREM BatchesInOrder == Unioned!Spec => []Unioned!InOrder
<1>1. UnionInv => Unioned!InOrder
  <2> SUFFICES ASSUME UnionInv, NEW p \in UnionPartitions
               PROVE  /\ Len(xOutput[p]) - first[p] = UnionReturned(p)
                      /\ \A i \in DOMAIN xOutput[p] :
                            xOutput[p][i] = IF i <= first[p] THEN <<"first", i>>
                                           ELSE <<"second", i - first[p]>>
    BY DEF Unioned!InOrder, UnionReturned
  <2>1. xOutput[p] \in Seq(UnionEntries) /\ first[p] \in Nat /\ UnionReturned(p) \in Int
    BY DEF UnionInv, UnionTyped, Unioned!TypeOK, UnionReturned
  <2>2. DOMAIN xOutput[p] = 1 .. Len(xOutput[p])
    BY <2>1
  <2>3. Len(xOutput[p]) = first[p] + UnionReturned(p)
    BY Zenon DEF UnionInv, UnionOrder
  <2>4. Len(xOutput[p]) - first[p] = UnionReturned(p)
    BY <2>1, <2>3
  <2> QED
    BY <2>2, <2>4, Zenon DEF UnionInv, UnionOrder
<1> QED
  BY <1>1, UnionInvariance, PTL

(* poll_execute returns Exhausted only when every batch of both inputs has *)
(* been returned, also when poll_finalize_push left a batch in the slot.   *)
THEOREM NothingIsLeft == Unioned!Spec => []Unioned!ExhaustedIsComplete
<1>1. UnionInv => Unioned!ExhaustedIsComplete
  BY DEF UnionInv, UnionTyped, Unioned!TypeOK, UnionPartition, UnionOrder, UnionReturned,
         Unioned!ExhaustedIsComplete
<1> QED
  BY <1>1, UnionInvariance, PTL

(* The wakers that poll_push and poll_execute store are taken whenever     *)
(* what they wait for happens: the two tasks never wait for each other.    *)
THEOREM NeverBothParked == Unioned!Spec => []Unioned!NoDeadlock
  BY UnionInvariance, PTL DEF UnionInv
-----------------------------------------------------------------------------
(* Sorts.  The partitions in one of the phases.                            *)
SortIn(ph) == {p \in Partitions : part[p] \in ph}
SortCounters ==
    remaining = Cardinality(SortIn({"collecting"})) /\ running = Cardinality(SortIn({"busy"}))

(* The counters of the merge queue count; once a partition saw the merge   *)
(* complete it stays so, and whoever waits is behind a partition that is   *)
(* not waiting.  NoStrandedMerger and OneResult hold only because of the   *)
(* counters: a partition parks, or takes the result, by them.              *)
SortInv ==
    /\ part \in [Partitions -> Sort!Phases]
    /\ IsSeq(runs) /\ DOMAIN blocks = Partitions /\ \A p \in Partitions : IsSeq(blocks[p])
    /\ SortCounters
    /\ wakers \subseteq SortIn({"merging"})
    /\ SortIn({"error"}) = {}
    /\ SortIn({"complete", "draining", "finished"}) # {} => Sort!IsComplete
    /\ SortIn({"draining"}) # {} => runs = <<>>
    /\ wakers # {} => SortIn({"collecting", "merging", "busy", "complete"}) \ wakers # {}

LEMMA SortCardinality == \A S : Sort!Cardinality(S) = Cardinality(S)
  BY DEF Sort!Cardinality, Cardinality

LEMMA SortCount ==
    ASSUME NEW ph
    PROVE  /\ Cardinality(SortIn(ph)) \in 0 .. Cardinality(Partitions)
           /\ Cardinality(SortIn(ph)) = 0 <=> SortIn(ph) = {}
           /\ \A p \in SortIn(ph) : Cardinality(SortIn(ph) \ {p}) = Cardinality(SortIn(ph)) - 1
           /\ \A p \in Partitions \ SortIn(ph) :
                 Cardinality(SortIn(ph) \cup {p}) = Cardinality(SortIn(ph)) + 1
<1>1. SortIn(ph) \in SUBSET Partitions
  BY DEF SortIn
<1>2. ASSUME NEW p \in Partitions \ SortIn(ph)
      PROVE  Cardinality(SortIn(ph) \cup {p}) = Cardinality(SortIn(ph)) + 1
  <2>1. SortIn(ph) \cup {p} \in SUBSET Partitions /\ (SortIn(ph) \cup {p}) \ {p} = SortIn(ph)
    BY <1>1
  <2>2. /\ Cardinality(SortIn(ph) \cup {p}) \in 0 .. Cardinality(Partitions)
        /\ Cardinality((SortIn(ph) \cup {p}) \ {p}) = Cardinality(SortIn(ph) \cup {p}) - 1
    BY <2>1, PartitionsAssumption, Zenon DEF Counted
  <2> QED
    BY <2>1, <2>2
<1> QED
  BY <1>1, <1>2, PartitionsAssumption DEF Counted

(* A partition that moves on leaves some phases and enters others.         *)
SortMoved(p, to, ph) ==
    /\ to \notin ph => SortIn(ph)' = SortIn(ph) \ {p}
    /\ to \in ph => SortIn(ph)' = SortIn(ph) \cup {p}
    /\ (to \in ph <=> p \in SortIn(ph)) => SortIn(ph)' = SortIn(ph)
    /\ to \notin ph /\ p \in SortIn(ph) => Cardinality(SortIn(ph)') = Cardinality(SortIn(ph)) - 1
    /\ to \in ph /\ p \notin SortIn(ph) => Cardinality(SortIn(ph)') = Cardinality(SortIn(ph)) + 1

LEMMA SortMoves ==
    ASSUME NEW p \in Partitions, NEW to,
           part \in [Partitions -> Sort!Phases], part' = [part EXCEPT ![p] = to]
    PROVE  \A ph : SortMoved(p, to, ph)
<1> SUFFICES ASSUME NEW ph PROVE SortMoved(p, to, ph)
  OBVIOUS
<1>1. part'[p] = to /\ \A q \in Partitions : q # p => part'[q] = part[q]
  OBVIOUS
<1>2. to \notin ph => SortIn(ph)' = SortIn(ph) \ {p}
  BY <1>1 DEF SortIn
<1>3. to \in ph => SortIn(ph)' = SortIn(ph) \cup {p}
  BY <1>1 DEF SortIn
<1>4. (to \in ph <=> p \in SortIn(ph)) => SortIn(ph)' = SortIn(ph)
  BY <1>1 DEF SortIn
<1>5. to \notin ph /\ p \in SortIn(ph) => Cardinality(SortIn(ph)') = Cardinality(SortIn(ph)) - 1
  BY <1>2, SortCount
<1>6. to \in ph /\ p \notin SortIn(ph) => Cardinality(SortIn(ph)') = Cardinality(SortIn(ph)) + 1
  BY <1>3, SortCount
<1> QED
  BY <1>2, <1>3, <1>4, <1>5, <1>6, Zenon DEF SortMoved

LEMMA InitSort == Sort!Init => SortInv
<1> SUFFICES ASSUME Sort!Init PROVE SortInv
  OBVIOUS
<1>1. part = [p \in Partitions |-> "collecting"] /\ blocks = [p \in Partitions |-> <<>>]
  BY DEF Sort!Init
<1>i. runs = <<>> /\ remaining = Cardinality(Partitions) /\ running = 0 /\ wakers = {}
  BY SortCardinality DEF Sort!Init
<1>2. /\ part \in [Partitions -> Sort!Phases]
      /\ SortIn({"collecting"}) = Partitions /\ SortIn({"busy"}) = {}
      /\ SortIn({"error"}) = {} /\ SortIn({"complete", "draining", "finished"}) = {}
      /\ SortIn({"draining"}) = {}
  BY <1>1 DEF SortIn, Sort!Phases
<1>3. IsSeq(<<>>)
  BY DEF IsSeq
<1>4. SortCounters
  BY <1>i, <1>2, SortCount DEF SortCounters
<1> QED
  BY <1>1, <1>i, <1>2, <1>3, <1>4 DEF SortInv

(* What a step does to the sorted blocks.                                  *)
LEMMA SortedBlocks ==
    ASSUME SortInv, NEW p \in Partitions, NEW rows
    PROVE  IsSeq(Sort!SortUnsorted(p, rows))
  BY SeqAppend DEF SortInv, Sort!SortUnsorted

(* A step that leaves the phases and the queue alone.                      *)
LEMMA SortKept ==
    ASSUME SortInv, UNCHANGED <<part, runs, remaining, running, wakers>>,
           DOMAIN blocks' = Partitions, \A p \in Partitions : IsSeq(blocks'[p])
    PROVE  SortInv'
<1>1. \A ph : SortIn(ph)' = SortIn(ph)
  BY DEF SortIn
<1>2. SortCounters' /\ (Sort!IsComplete' <=> Sort!IsComplete)
  BY <1>1 DEF SortInv, SortCounters, Sort!IsComplete
<1> QED
  BY <1>1, <1>2, Zenon DEF SortInv

LEMMA CollectSort ==
    ASSUME SortInv, NEW p \in Partitions, Sort!Collect(p)
    PROVE  SortInv'
<1> DEFINE rows == unsorted[p] \o Head(sInput[p])
<1>1. /\ UNCHANGED <<part, runs, remaining, running, wakers>>
      /\ blocks' = [blocks EXCEPT ![p] = Sort!SortUnsorted(p, rows)] \/ blocks' = blocks
  BY Zenon DEF Sort!Collect, Sort!queue
<1>2. IsSeq(Sort!SortUnsorted(p, rows))
  BY SortedBlocks
<1>3. DOMAIN blocks' = Partitions /\ \A q \in Partitions : IsSeq(blocks'[q])
  <2> HIDE DEF rows
  <2> QED
    BY <1>1, <1>2 DEF SortInv
<1> QED
  BY <1>1, <1>3, SortKept

(* Nobody has seen the merge complete while a partition collects.          *)
LEMMA FinalizeSort ==
    ASSUME SortInv, NEW p \in Partitions, Sort!FinalizeExecute(p)
    PROVE  SortInv'
<1>1. /\ part[p] = "collecting" /\ part' = [part EXCEPT ![p] = "merging"]
      /\ runs' = runs \o Sort!SortUnsorted(p, unsorted[p])
      /\ remaining' = remaining - 1 /\ running' = running /\ wakers' = wakers
      /\ blocks' = [blocks EXCEPT ![p] = <<>>]
  BY DEF Sort!FinalizeExecute
<1>2. p \in SortIn({"collecting"}) /\ p \notin SortIn({"merging"})
  BY <1>1 DEF SortIn
<1>m. \A ph : SortMoved(p, "merging", ph)
  BY <1>1, SortMoves, Zenon DEF SortInv
<1>3. /\ Cardinality(SortIn({"collecting"})') = Cardinality(SortIn({"collecting"})) - 1
      /\ SortIn({"busy"})' = SortIn({"busy"}) /\ SortIn({"error"})' = SortIn({"error"})
      /\ SortIn({"merging"})' = SortIn({"merging"}) \cup {p}
      /\ SortIn({"complete", "draining", "finished"})' = SortIn({"complete", "draining", "finished"})
      /\ SortIn({"draining"})' = SortIn({"draining"})
      /\ p \in SortIn({"collecting", "merging", "busy", "complete"})'
  BY <1>1, <1>m, Zenon DEF SortMoved, SortIn
<1>4. SortCounters'
  BY <1>1, <1>3 DEF SortInv, SortCounters
<1>5. IsSeq(runs') /\ DOMAIN blocks' = Partitions /\ \A q \in Partitions : IsSeq(blocks'[q])
  <2>1. IsSeq(runs')
    BY <1>1, SortedBlocks, SeqConcat DEF SortInv
  <2>2. IsSeq(<<>>)
    BY DEF IsSeq
  <2> QED
    BY <1>1, <2>1, <2>2 DEF SortInv
<1>6. SortIn({"complete", "draining", "finished"}) = {} /\ SortIn({"draining"}) = {}
  <2>1. remaining # 0
    BY <1>2, SortCount DEF SortInv, SortCounters
  <2>2. SortIn({"complete", "draining", "finished"}) = {}
    BY <2>1 DEF SortInv, Sort!IsComplete
  <2> QED
    BY <2>2 DEF SortIn
<1>7. p \notin wakers' /\ part' \in [Partitions -> Sort!Phases]
  BY <1>1, <1>2 DEF SortInv, Sort!Phases
<1>8. wakers' \subseteq SortIn({"merging"})' /\ SortIn({"error"})' = {}
  BY <1>1, <1>3 DEF SortInv
<1> QED
  BY <1>3, <1>4, <1>5, <1>6, <1>7, <1>8 DEF SortInv

(* A partition parks only while another one collects or merges.            *)
LEMMA ParkSort ==
    ASSUME SortInv, NEW p \in Partitions, Sort!Park(p)
    PROVE  SortInv'
<1>1. /\ part[p] = "merging" /\ ~Sort!IsComplete /\ Len(runs) < 2
      /\ wakers' = wakers \cup {p} /\ UNCHANGED <<part, runs, remaining, running, blocks>>
  BY DEF Sort!Park, Sort!Polled
<1>2. \A ph : SortIn(ph)' = SortIn(ph)
  BY <1>1 DEF SortIn
<1>3. SortCounters' /\ (Sort!IsComplete' <=> Sort!IsComplete)
  BY <1>1, <1>2 DEF SortInv, SortCounters, Sort!IsComplete
<1>4. SortIn({"collecting"}) # {} \/ SortIn({"busy"}) # {}
  <2>1. Len(runs) \in Nat
    BY SeqLen DEF SortInv
  <2>2. remaining # 0 \/ running # 0
    BY <1>1, <2>1 DEF Sort!IsComplete
  <2> QED
    BY <2>2, SortCount DEF SortInv, SortCounters
<1>5. wakers' \subseteq SortIn({"merging"})
  BY <1>1 DEF SortInv, SortIn
<1>6. SortIn({"collecting", "merging", "busy", "complete"}) \ wakers' # {}
  <2>1. \A q \in wakers' : part[q] = "merging"
    BY <1>5 DEF SortIn
  <2> QED
    BY <1>4, <2>1 DEF SortIn
<1> QED
  BY <1>1, <1>2, <1>3, <1>5, <1>6, Zenon DEF SortInv

LEMMA TakeTwoSort ==
    ASSUME SortInv, NEW p \in Partitions, Sort!TakeTwo(p)
    PROVE  SortInv'
<1>1. /\ part[p] = "merging" /\ p \notin wakers /\ ~Sort!IsComplete
      /\ part' = [part EXCEPT ![p] = "busy"]
      /\ runs' = SubSeq(runs, 3, Len(runs)) /\ running' = running + 1
      /\ UNCHANGED <<remaining, wakers, blocks>>
  BY DEF Sort!TakeTwo, Sort!Polled
<1>2. p \in SortIn({"merging"}) /\ p \notin SortIn({"busy"})
  BY <1>1 DEF SortIn
<1>m. \A ph : SortMoved(p, "busy", ph)
  BY <1>1, SortMoves, Zenon DEF SortInv
<1>3. /\ SortIn({"collecting"})' = SortIn({"collecting"}) /\ SortIn({"error"})' = SortIn({"error"})
      /\ Cardinality(SortIn({"busy"})') = Cardinality(SortIn({"busy"})) + 1
      /\ SortIn({"merging"})' = SortIn({"merging"}) \ {p}
      /\ SortIn({"complete", "draining", "finished"})' = SortIn({"complete", "draining", "finished"})
      /\ SortIn({"draining"})' = SortIn({"draining"})
      /\ p \in SortIn({"collecting", "merging", "busy", "complete"})'
  BY <1>1, <1>2, <1>m, Zenon DEF SortMoved, SortIn
<1>4. SortCounters'
  BY <1>1, <1>3 DEF SortInv, SortCounters
<1>5. IsSeq(runs')
  BY <1>1, SeqFrom DEF SortInv
<1>6. SortIn({"complete", "draining", "finished"}) = {} /\ SortIn({"draining"}) = {}
  <2>1. SortIn({"complete", "draining", "finished"}) = {}
    BY <1>1 DEF SortInv
  <2> QED
    BY <2>1 DEF SortIn
<1>7. p \notin wakers' /\ part' \in [Partitions -> Sort!Phases]
  BY <1>1 DEF SortInv, Sort!Phases
<1>8. wakers' \subseteq SortIn({"merging"})' /\ SortIn({"error"})' = {}
  BY <1>1, <1>3 DEF SortInv
<1> QED
  BY <1>1, <1>3, <1>4, <1>5, <1>6, <1>7, <1>8 DEF SortInv

LEMMA PushMergedSort ==
    ASSUME SortInv, NEW p \in Partitions, Sort!PushMerged(p)
    PROVE  SortInv'
<1>1. /\ part[p] = "busy" /\ part' = [part EXCEPT ![p] = "merging"]
      /\ runs' = Append(runs, Sort!Merge(held[p][1], held[p][2])) /\ running' = running - 1
      /\ wakers' = {} /\ UNCHANGED <<remaining, blocks>>
  BY DEF Sort!PushMerged, Sort!WokenByMerge
<1>2. p \in SortIn({"busy"})
  BY <1>1 DEF SortIn
<1>m. \A ph : SortMoved(p, "merging", ph)
  BY <1>1, SortMoves, Zenon DEF SortInv
<1>3. /\ SortIn({"collecting"})' = SortIn({"collecting"}) /\ SortIn({"error"})' = SortIn({"error"})
      /\ Cardinality(SortIn({"busy"})') = Cardinality(SortIn({"busy"})) - 1
      /\ SortIn({"complete", "draining", "finished"})' = SortIn({"complete", "draining", "finished"})
      /\ SortIn({"draining"})' = SortIn({"draining"})
  BY <1>1, <1>2, <1>m, Zenon DEF SortMoved, SortIn
<1>4. SortCounters'
  BY <1>1, <1>3 DEF SortInv, SortCounters
<1>5. IsSeq(runs')
  BY <1>1, SeqAppend DEF SortInv
<1>6. SortIn({"complete", "draining", "finished"}) = {} /\ SortIn({"draining"}) = {}
  <2>1. running # 0
    BY <1>2, SortCount DEF SortInv, SortCounters
  <2>2. SortIn({"complete", "draining", "finished"}) = {}
    BY <2>1 DEF SortInv, Sort!IsComplete
  <2> QED
    BY <2>2 DEF SortIn
<1>7. part' \in [Partitions -> Sort!Phases]
  BY <1>1 DEF SortInv, Sort!Phases
<1> QED
  BY <1>1, <1>3, <1>4, <1>5, <1>6, <1>7 DEF SortInv

LEMMA FinishSort ==
    ASSUME SortInv, NEW p \in Partitions, Sort!Finish(p)
    PROVE  SortInv'
<1>1. /\ part[p] = "merging" /\ p \notin wakers /\ Sort!IsComplete
      /\ part' = [part EXCEPT ![p] = "complete"]
      /\ UNCHANGED <<runs, remaining, running, wakers, blocks>>
  BY DEF Sort!Finish, Sort!Polled, Sort!queue
<1>m. \A ph : SortMoved(p, "complete", ph)
  BY <1>1, SortMoves, Zenon DEF SortInv
<1>3. /\ SortIn({"collecting"})' = SortIn({"collecting"}) /\ SortIn({"error"})' = SortIn({"error"})
      /\ SortIn({"busy"})' = SortIn({"busy"}) /\ SortIn({"draining"})' = SortIn({"draining"})
      /\ SortIn({"merging"})' = SortIn({"merging"}) \ {p}
      /\ p \in SortIn({"collecting", "merging", "busy", "complete"})'
  BY <1>1, <1>m, Zenon DEF SortMoved, SortIn
<1>4. SortCounters' /\ Sort!IsComplete'
  BY <1>1, <1>3, Zenon DEF SortInv, SortCounters, Sort!IsComplete
<1>7. part' \in [Partitions -> Sort!Phases]
  BY <1>1 DEF SortInv, Sort!Phases
<1>8. wakers' \subseteq SortIn({"merging"})' /\ SortIn({"error"})' = {}
  BY <1>1, <1>3 DEF SortInv
<1> QED
  BY <1>1, <1>3, <1>4, <1>7, <1>8 DEF SortInv

(* The partition that takes the run takes the only one.                    *)
LEMMA TakeRunSort ==
    ASSUME SortInv, NEW p \in Partitions, Sort!TakeSortedRun(p)
    PROVE  SortInv'
<1>1. part[p] = "complete" /\ UNCHANGED <<remaining, running, blocks>>
  BY DEF Sort!TakeSortedRun
<1>2. p \in SortIn({"complete", "draining", "finished"}) /\ p \in SortIn({"complete"})
  BY <1>1 DEF SortIn
<1>3. Sort!IsComplete
  BY <1>2 DEF SortInv
<1>4. wakers' = {}
  BY <1>3 DEF Sort!TakeSortedRun, Sort!WokenByTake
<1>5. PICK to \in {"finished", "draining"} :
          /\ part' = [part EXCEPT ![p] = to]
          /\ to = "finished" => runs = <<>> /\ runs' = runs
          /\ to = "draining" => runs # <<>> /\ runs' = Tail(runs)
  BY <1>3 DEF Sort!TakeSortedRun
<1>m. \A ph : SortMoved(p, to, ph)
  BY <1>5, SortMoves, Zenon DEF SortInv
<1>6. /\ SortIn({"collecting"})' = SortIn({"collecting"}) /\ SortIn({"error"})' = SortIn({"error"})
      /\ SortIn({"busy"})' = SortIn({"busy"})
  BY <1>1, <1>m, Zenon DEF SortMoved, SortIn
<1>7. IsSeq(runs') /\ runs' = <<>> /\ Len(runs') <= 1
  <2>1. Len(runs) \in Nat /\ Len(runs) <= 1 /\ IsSeq(runs)
    BY <1>3, SeqLen DEF SortInv, Sort!IsComplete
  <2>2. CASE to = "finished"
    BY <1>5, <2>1, <2>2
  <2>3. CASE to = "draining"
    <3>1. runs # <<>> /\ runs' = Tail(runs)
      BY <1>5, <2>3
    <3>2. Len(runs) # 0
      BY <2>1, <3>1, SeqLen, Zenon
    <3>3. IsSeq(Tail(runs)) /\ Len(Tail(runs)) = Len(runs) - 1
      BY <2>1, <3>1, SeqTail, Zenon
    <3>4. IsSeq(runs') /\ Len(runs') = 0
      BY <2>1, <3>1, <3>2, <3>3
    <3> QED
      BY <3>4, SeqLen
  <2> QED
    BY <2>2, <2>3
<1>8. SortCounters' /\ Sort!IsComplete'
  BY <1>1, <1>3, <1>6, <1>7, Zenon DEF SortInv, SortCounters, Sort!IsComplete
<1>9. part' \in [Partitions -> Sort!Phases]
  BY <1>5 DEF SortInv, Sort!Phases
<1> QED
  BY <1>1, <1>4, <1>6, <1>7, <1>8, <1>9 DEF SortInv

LEMMA DrainSort ==
    ASSUME SortInv, NEW p \in Partitions, Sort!Drain(p)
    PROVE  SortInv'
<1>1. part[p] = "draining" /\ UNCHANGED <<runs, remaining, running, wakers, blocks>>
  BY DEF Sort!Drain, Sort!queue
<1>2. CASE held[p] # <<>>
  <2>1. part' = part
    BY <1>2 DEF Sort!Drain
  <2> QED
    BY <1>1, <2>1, SortKept DEF SortInv
<1>3. CASE held[p] = <<>>
  <2>1. part' = [part EXCEPT ![p] = "finished"]
    BY <1>3 DEF Sort!Drain
  <2>m. \A ph : SortMoved(p, "finished", ph)
    BY <2>1, SortMoves, Zenon DEF SortInv
  <2>2. /\ SortIn({"collecting"})' = SortIn({"collecting"}) /\ SortIn({"error"})' = SortIn({"error"})
        /\ SortIn({"busy"})' = SortIn({"busy"}) /\ SortIn({"merging"})' = SortIn({"merging"})
        /\ SortIn({"draining"})' \subseteq SortIn({"draining"})
        /\ SortIn({"collecting", "merging", "busy", "complete"})'
              = SortIn({"collecting", "merging", "busy", "complete"})
    BY <1>1, <2>m, ZenonT(30) DEF SortMoved, SortIn
  <2>3. Sort!IsComplete
    BY <1>1 DEF SortInv, SortIn
  <2>4. SortCounters' /\ Sort!IsComplete'
    BY <1>1, <2>2, <2>3 DEF SortInv, SortCounters, Sort!IsComplete
  <2>5. part' \in [Partitions -> Sort!Phases]
    BY <2>1 DEF SortInv, Sort!Phases
  <2>6. SortIn({"draining"})' # {} => runs' = <<>>
    BY <1>1, <2>2 DEF SortInv
  <2> QED
    BY <1>1, <2>2, <2>4, <2>5, <2>6, Zenon DEF SortInv
<1> QED
  BY <1>2, <1>3

LEMMA NextSort == SortInv /\ [Sort!Next]_(Sort!vars) => SortInv'
<1> SUFFICES ASSUME SortInv, [Sort!Next]_(Sort!vars) PROVE SortInv'
  OBVIOUS
<1>1. CASE UNCHANGED Sort!vars
  <2>1. UNCHANGED <<part, runs, remaining, running, wakers, blocks>>
    BY <1>1 DEF Sort!vars
  <2> QED
    BY <2>1, SortKept DEF SortInv
<1>2. ASSUME NEW p \in Partitions, Sort!Run(p) PROVE SortInv'
  BY <1>2, CollectSort, FinalizeSort, ParkSort, TakeTwoSort, PushMergedSort, FinishSort,
     TakeRunSort, DrainSort DEF Sort!Run
<1> QED
  BY <1>1, <1>2 DEF Sort!Next

LEMMA SortInvariance == Sort!Spec => []SortInv
  BY InitSort, NextSort, PTL DEF Sort!Spec

(* take_sorted_run never finds the merge incomplete, and the run that a    *)
(* partition drains is the only one: none is left in the queue, and none   *)
(* is still being merged.                                                  *)
THEOREM OneSortedRun == Sort!Spec => []Sort!OneResult
<1>1. ASSUME SortInv PROVE Sort!OneResult
  <2>1. \A p \in Partitions : part[p] # "error"
    BY <1>1 DEF SortInv, SortIn
  <2>2. ASSUME NEW p \in Partitions, part[p] = "draining" PROVE runs = <<>> /\ running = 0
    <3>1. p \in SortIn({"draining"}) /\ p \in SortIn({"complete", "draining", "finished"})
      BY <2>2 DEF SortIn
    <3> QED
      BY <1>1, <3>1 DEF SortInv, Sort!IsComplete
  <2> QED
    BY <2>1, <2>2 DEF Sort!OneResult
<1> QED
  BY <1>1, SortInvariance, PTL

(* A partition that parked in poll_merge_next is behind another that is    *)
(* neither parked nor finished, although adding runs wakes nobody.         *)
THEOREM MergersAreWoken == Sort!Spec => []Sort!NoStrandedMerger
<1>1. ASSUME SortInv PROVE Sort!NoStrandedMerger
  BY <1>1 DEF SortInv, SortIn, Sort!NoStrandedMerger
<1> QED
  BY <1>1, SortInvariance, PTL

(* running_merges is the number of partitions that merge, and neither      *)
(* counter of the merge queue underflows.                                  *)
THEOREM SortTypes == Sort!Spec => []Sort!TypeOK
<1>1. ASSUME SortInv PROVE Sort!TypeOK
  <2>1. remaining \in 0 .. Cardinality(Partitions)
    BY <1>1, SortCount DEF SortInv, SortCounters
  <2>2. SortIn({"busy"}) = {p \in Partitions : part[p] = "busy"}
        /\ SortIn({"merging"}) = {p \in Partitions : part[p] = "merging"}
    BY DEF SortIn
  <2> QED
    BY <1>1, <2>1, <2>2, SortCardinality, Zenon DEF SortInv, SortCounters, Sort!TypeOK
<1> QED
  BY <1>1, SortInvariance, PTL

-----------------------------------------------------------------------------
(* CREATE TABLE AS.  The partition that creates the table, or failed to.   *)
Creates(p) == cPart[p] \in {"creating", "failed"}

CreateTyped ==
    /\ mode \in {"error", "ignore"} /\ entry \in {"none", "own", "other"}
    /\ creating \in BOOLEAN /\ table \in BOOLEAN
    /\ waiting \subseteq Partitions /\ opened \subseteq Partitions
    /\ cPart \in [Partitions -> {"run", "creating", "done", "failed"}]
    /\ cInput \in [Partitions -> Nat] /\ counted \in [Partitions -> Nat]
    /\ buffered \in [Partitions -> Nat] /\ stored \in [Partitions -> Nat]
    /\ total \in [Partitions -> 0 .. MaxBatches]

(* A batch is yet to come, in the append state, or stored.                 *)
Batched(p) ==
    /\ cInput[p] + counted[p] = total[p]
    /\ counted[p] = stored[p] + buffered[p]
    /\ cPart[p] = "done" => cInput[p] = 0 /\ buffered[p] = 0
    /\ cPart[p] = "creating" => cInput[p] > 0

(* `creating` is set exactly while there is a creator, and nobody waits    *)
(* without one.                                                            *)
OneCreator ==
    /\ \A p \in Partitions : Creates(p) => creating
    /\ creating => \E p \in Partitions : Creates(p)
    /\ \A p, q \in Partitions : Creates(p) /\ Creates(q) => p = q
    /\ table => ~creating
    /\ waiting # {} => creating

CreateInv == CreateTyped /\ (\A p \in Partitions : Batched(p)) /\ OneCreator

LEMMA InitCreate == Create!Init => CreateInv
<1> SUFFICES ASSUME Create!Init PROVE CreateInv
  OBVIOUS
<1>1. CreateTyped
  <2>1. cInput \in [Partitions -> Nat] /\ total \in [Partitions -> 0 .. MaxBatches]
    BY SizesAssumption DEF Create!Init
  <2>2. /\ cPart \in [Partitions -> {"run", "creating", "done", "failed"}]
        /\ counted \in [Partitions -> Nat] /\ buffered \in [Partitions -> Nat]
        /\ stored \in [Partitions -> Nat]
    BY DEF Create!Init
  <2> QED
    BY <2>1, <2>2, Zenon DEF Create!Init, CreateTyped
<1>2. \A p \in Partitions : Batched(p)
  BY SizesAssumption DEF Create!Init, Batched
<1>3. OneCreator
  BY DEF Create!Init, OneCreator, Creates
<1> QED
  BY <1>1, <1>2, <1>3 DEF CreateInv

LEMMA WaitCreate ==
    ASSUME CreateInv, NEW p \in Partitions, Create!Wait(p)
    PROVE  CreateInv'
<1>1. /\ creating /\ waiting' = waiting \cup {p}
      /\ UNCHANGED <<mode, entry, creating, table, cPart, cInput, opened, counted, buffered, stored,
                     total>>
  BY DEF Create!Wait
<1>2. CreateTyped'
  BY <1>1 DEF CreateInv, CreateTyped
<1>3. \A q \in Partitions : Batched(q)'
  BY <1>1 DEF CreateInv, Batched
<1>4. OneCreator'
  BY <1>1 DEF CreateInv, OneCreator, Creates
<1> QED
  BY <1>2, <1>3, <1>4 DEF CreateInv

LEMMA BeginCreateCreate ==
    ASSUME CreateInv, NEW p \in Partitions, Create!BeginCreate(p)
    PROVE  CreateInv'
<1>1. /\ cInput[p] > 0 /\ ~creating /\ ~table
      /\ creating' = TRUE /\ cPart' = [cPart EXCEPT ![p] = "creating"]
      /\ UNCHANGED <<mode, entry, table, waiting, cInput, opened, counted, buffered, stored,
                     total>>
  BY DEF Create!BeginCreate, Create!Polled, Create!First
<1>2. CreateTyped'
  BY <1>1 DEF CreateInv, CreateTyped
<1>3. cPart'[p] = "creating" /\ \A q \in Partitions : q # p => cPart'[q] = cPart[q]
  BY <1>1 DEF CreateInv, CreateTyped
<1>4. \A q \in Partitions : Batched(q)'
  <2> SUFFICES ASSUME NEW q \in Partitions PROVE Batched(q)'
    OBVIOUS
  <2>1. Batched(q)
    BY DEF CreateInv
  <2> QED
    BY <1>1, <1>3, <2>1 DEF Batched
<1>5. \A q \in Partitions : Creates(q)' <=> q = p
  BY <1>1, <1>3 DEF CreateInv, OneCreator, Creates
<1>6. OneCreator'
  BY <1>1, <1>5 DEF CreateInv, OneCreator
<1> QED
  BY <1>2, <1>4, <1>6 DEF CreateInv

(* A batch moves from the input to the append state.                       *)
Appends(p) ==
    /\ Create!AppendInput(p) /\ cInput[p] > 0 /\ UNCHANGED <<stored, total>>
    /\ \A q \in Partitions : cPart'[q] = IF q = p THEN "run" ELSE cPart[q]

LEMMA AppendInputBatched ==
    ASSUME CreateInv, NEW p \in Partitions, Appends(p)
    PROVE  /\ \A q \in Partitions : Batched(q)'
           /\ cInput' \in [Partitions -> Nat] /\ counted' \in [Partitions -> Nat]
           /\ buffered' \in [Partitions -> Nat] /\ opened' = opened \cup {p}
<1>1. /\ cInput' = [cInput EXCEPT ![p] = cInput[p] - 1]
      /\ counted' = [counted EXCEPT ![p] = counted[p] + 1]
      /\ buffered' = [buffered EXCEPT ![p] = buffered[p] + 1] /\ opened' = opened \cup {p}
  BY DEF Appends, Create!AppendInput
<1>t. /\ cInput \in [Partitions -> Nat] /\ counted \in [Partitions -> Nat]
      /\ buffered \in [Partitions -> Nat] /\ stored \in [Partitions -> Nat]
  BY DEF CreateInv, CreateTyped
<1>2. ASSUME NEW q \in Partitions PROVE Batched(q)'
  <2>1. Batched(q)
    BY DEF CreateInv
  <2>2. CASE q = p
    <3>1. /\ cInput'[p] = cInput[p] - 1 /\ counted'[p] = counted[p] + 1 /\ buffered'[p] = buffered[p] + 1
      BY <1>1, <1>t
    <3>2. cPart'[p] = "run"
      BY DEF Appends
    <3>3. stored' = stored /\ total' = total /\ cInput[p] > 0
      BY DEF Appends
    <3> QED
      BY <1>t, <2>1, <2>2, <3>1, <3>2, <3>3 DEF Batched
  <2>3. CASE q # p
    <3>1. /\ cInput'[q] = cInput[q] /\ counted'[q] = counted[q] /\ buffered'[q] = buffered[q]
          /\ cPart'[q] = cPart[q]
      BY <1>1, <1>t, <2>3 DEF Appends
    <3> QED
      BY <2>1, <3>1 DEF Appends, Batched
  <2> QED
    BY <2>2, <2>3
<1>3. /\ cInput' \in [Partitions -> Nat] /\ counted' \in [Partitions -> Nat]
      /\ buffered' \in [Partitions -> Nat]
  BY <1>1, <1>t DEF Appends
<1> QED
  BY <1>1, <1>2, <1>3

LEMMA EndCreateCreate ==
    ASSUME CreateInv, NEW p \in Partitions, Create!EndCreate(p)
    PROVE  CreateInv'
<1>1. /\ cPart[p] = "creating" /\ entry' \in {"own", entry} /\ creating' = FALSE /\ table' = TRUE
      /\ waiting' = {} /\ cPart' = [cPart EXCEPT ![p] = "run"] /\ Create!AppendInput(p)
      /\ UNCHANGED <<mode, stored, total>>
  BY DEF Create!EndCreate, Create!Woken
<1>2. cPart' \in [Partitions -> {"run", "creating", "done", "failed"}]
      /\ \A q \in Partitions : cPart'[q] = IF q = p THEN "run" ELSE cPart[q]
  BY <1>1 DEF CreateInv, CreateTyped
<1>3. Appends(p)
  BY <1>1, <1>2 DEF CreateInv, Batched, Appends
<1>4. /\ \A q \in Partitions : Batched(q)'
      /\ cInput' \in [Partitions -> Nat] /\ counted' \in [Partitions -> Nat]
      /\ buffered' \in [Partitions -> Nat] /\ opened' = opened \cup {p}
  BY <1>3, AppendInputBatched
<1>5. CreateTyped'
  BY <1>1, <1>2, <1>4, Zenon DEF CreateInv, CreateTyped
<1>6. \A q \in Partitions : ~Creates(q)'
  BY <1>1, <1>2 DEF CreateInv, OneCreator, Creates
<1>7. OneCreator'
  BY <1>1, <1>6 DEF OneCreator
<1> QED
  BY <1>4, <1>5, <1>7 DEF CreateInv

LEMMA FailCreateCreate ==
    ASSUME CreateInv, NEW p \in Partitions, Create!FailCreate(p)
    PROVE  CreateInv'
<1>1. /\ cPart[p] = "creating" /\ cPart' = [cPart EXCEPT ![p] = "failed"]
      /\ UNCHANGED <<mode, entry, creating, table, waiting, cInput, opened, counted, buffered, stored,
                     total>>
  BY DEF Create!FailCreate
<1>2. cPart'[p] = "failed" /\ \A q \in Partitions : q # p => cPart'[q] = cPart[q]
  BY <1>1 DEF CreateInv, CreateTyped
<1>3. CreateTyped'
  BY <1>1 DEF CreateInv, CreateTyped
<1>4. \A q \in Partitions : Batched(q)'
  <2> SUFFICES ASSUME NEW q \in Partitions PROVE Batched(q)'
    OBVIOUS
  <2>1. Batched(q)
    BY DEF CreateInv
  <2> QED
    BY <1>1, <1>2, <2>1 DEF Batched
<1>5. \A q \in Partitions : Creates(q)' <=> Creates(q)
  BY <1>1, <1>2 DEF Creates
<1>6. OneCreator'
  BY <1>1, <1>5 DEF CreateInv, OneCreator
<1> QED
  BY <1>3, <1>4, <1>6 DEF CreateInv

LEMMA AppendBatchCreate ==
    ASSUME CreateInv, NEW p \in Partitions, Create!AppendBatch(p)
    PROVE  CreateInv'
<1>1. /\ cPart[p] = "run" /\ cInput[p] > 0 /\ Create!AppendInput(p)
      /\ UNCHANGED <<mode, entry, creating, table, waiting, cPart, stored, total>>
  BY DEF Create!AppendBatch, Create!Polled
<1>2. Appends(p)
  BY <1>1 DEF Appends
<1>3. /\ \A q \in Partitions : Batched(q)'
      /\ cInput' \in [Partitions -> Nat] /\ counted' \in [Partitions -> Nat]
      /\ buffered' \in [Partitions -> Nat] /\ opened' = opened \cup {p}
  BY <1>2, AppendInputBatched
<1>4. CreateTyped'
  BY <1>1, <1>3 DEF CreateInv, CreateTyped
<1>5. OneCreator'
  BY <1>1, Zenon DEF CreateInv, OneCreator, Creates
<1> QED
  BY <1>3, <1>4, <1>5 DEF CreateInv

LEMMA FinalizeCreate ==
    ASSUME CreateInv, NEW p \in Partitions, Create!FinalizeExecute(p)
    PROVE  CreateInv'
<1>1. /\ cPart[p] = "run" /\ cInput[p] = 0 /\ cPart' = [cPart EXCEPT ![p] = "done"]
      /\ stored' = [stored EXCEPT ![p] = stored[p] + buffered[p]]
      /\ buffered' = [buffered EXCEPT ![p] = 0]
      /\ UNCHANGED <<mode, entry, creating, table, waiting, cInput, opened, counted, total>>
  BY DEF Create!FinalizeExecute, Create!Flushed
<1>t. /\ cPart \in [Partitions -> {"run", "creating", "done", "failed"}]
      /\ cInput \in [Partitions -> Nat] /\ counted \in [Partitions -> Nat]
      /\ buffered \in [Partitions -> Nat] /\ stored \in [Partitions -> Nat]
  BY DEF CreateInv, CreateTyped
<1>2. /\ cPart'[p] = "done" /\ stored'[p] = stored[p] + buffered[p] /\ buffered'[p] = 0
      /\ \A q \in Partitions : q # p => /\ cPart'[q] = cPart[q] /\ stored'[q] = stored[q]
                                        /\ buffered'[q] = buffered[q]
  BY <1>1, <1>t
<1>3. CreateTyped'
  <2>1. stored' \in [Partitions -> Nat] /\ buffered' \in [Partitions -> Nat]
    BY <1>1, <1>t
  <2>2. cPart' \in [Partitions -> {"run", "creating", "done", "failed"}]
    BY <1>1, <1>t
  <2> QED
    BY <1>1, <2>1, <2>2 DEF CreateInv, CreateTyped
<1>4. ASSUME NEW q \in Partitions PROVE Batched(q)'
  <2>1. Batched(q) /\ stored[q] \in Nat /\ buffered[q] \in Nat /\ counted[q] \in Nat
    BY <1>t DEF CreateInv
  <2>2. CASE q = p
    <3>1. /\ cInput'[q] = 0 /\ cInput[q] = 0 /\ counted'[q] = counted[q] /\ total'[q] = total[q]
          /\ cPart'[q] = "done" /\ buffered'[q] = 0 /\ stored'[q] = stored[q] + buffered[q]
      BY <1>1, <1>2, <2>2
    <3>2. /\ cInput'[q] + counted'[q] = total'[q]
          /\ counted'[q] = stored'[q] + buffered'[q]
      BY <2>1, <3>1 DEF Batched
    <3> QED
      BY <3>1, <3>2 DEF Batched
  <2>3. CASE q # p
    <3>1. /\ cPart'[q] = cPart[q] /\ stored'[q] = stored[q] /\ buffered'[q] = buffered[q]
          /\ cInput'[q] = cInput[q] /\ counted'[q] = counted[q] /\ total'[q] = total[q]
      BY <1>1, <1>2, <2>3
    <3> QED
      BY <2>1, <3>1, SMTT(30) DEF Batched
  <2> QED
    BY <2>2, <2>3
<1>5. \A q \in Partitions : Creates(q)' <=> Creates(q)
  BY <1>1, <1>2 DEF Creates
<1>6. OneCreator'
  BY <1>1, <1>5, SMTT(30) DEF CreateInv, OneCreator
<1> QED
  BY <1>3, <1>4, <1>6, SMTT(30) DEF CreateInv

LEMMA NextCreate == CreateInv /\ [Create!Next]_(Create!vars) => CreateInv'
<1> SUFFICES ASSUME CreateInv, [Create!Next]_(Create!vars) PROVE CreateInv'
  OBVIOUS
<1>1. CASE UNCHANGED Create!vars
  BY <1>1 DEF Create!vars, CreateInv, CreateTyped, Batched, OneCreator, Creates
<1>2. ASSUME NEW p \in Partitions, Create!Run(p) PROVE CreateInv'
  BY <1>2, WaitCreate, BeginCreateCreate, EndCreateCreate, FailCreateCreate, AppendBatchCreate,
     FinalizeCreate DEF Create!Run
<1> QED
  BY <1>1, <1>2 DEF Create!Next

LEMMA CreateInvariance == Create!Spec => []CreateInv
  BY InitCreate, NextCreate, PTL DEF Create!Spec

LEMMA CreateCardinality == \A S : Create!Cardinality(S) = Cardinality(S)
  BY DEF Create!Cardinality, Cardinality

(* When all partitions are done, every batch is in the table and counted   *)
(* once, also the ones of a partition that waited for the table.           *)
THEOREM EveryBatchIsStored == Create!Spec => []Create!AllStored
<1>1. ASSUME CreateInv, Create!AllDone PROVE stored = total /\ counted = total
  <2>1. \A p \in Partitions : stored[p] = total[p] /\ counted[p] = total[p]
    <3> SUFFICES ASSUME NEW p \in Partitions PROVE stored[p] = total[p] /\ counted[p] = total[p]
      BY Zenon
    <3>1. Batched(p) /\ cPart[p] = "done"
      BY <1>1 DEF CreateInv, Create!AllDone
    <3>2. cInput[p] \in Nat /\ counted[p] \in Nat /\ stored[p] \in Nat /\ buffered[p] \in Nat
      BY <1>1 DEF CreateInv, CreateTyped
    <3>3. /\ cInput[p] = 0 /\ buffered[p] = 0 /\ cInput[p] + counted[p] = total[p]
          /\ counted[p] = stored[p] + buffered[p]
      BY <3>1, Zenon DEF Batched
    <3> QED
      BY <3>2, <3>3, ZeroAdds, Zenon
  <2>2. /\ stored \in [Partitions -> Nat] /\ counted \in [Partitions -> Nat]
        /\ total \in [Partitions -> 0 .. MaxBatches]
    BY <1>1 DEF CreateInv, CreateTyped
  <2> QED
    BY <2>1, <2>2
<1> QED
  BY <1>1, CreateInvariance, PTL DEF Create!AllStored

(* No two partitions call create_table, and none does once the table is    *)
(* there.                                                                  *)
THEOREM OneTableCreated == Create!Spec => []Create!CreatedOnce
<1>1. ASSUME CreateInv PROVE Create!CreatedOnce
  <2> DEFINE C == {p \in Partitions : cPart[p] \in {"creating", "failed"}}
  <2>1. Cardinality(C) <= 1
    <3>1. C \in SUBSET Partitions
      OBVIOUS
    <3>2. CASE C = {}
      BY <3>1, <3>2, PartitionsAssumption DEF Counted
    <3>3. CASE C # {}
      <4>1. PICK p \in C : TRUE
        BY <3>3
      <4>2. C \ {p} = {}
        BY <1>1, <4>1 DEF CreateInv, OneCreator, Creates
      <4>3. /\ Cardinality(C) \in 0 .. Cardinality(Partitions) /\ Cardinality({}) = 0
            /\ Cardinality(C \ {p}) = Cardinality(C) - 1
        BY <3>1, <4>1, PartitionsAssumption DEF Counted
      <4> QED
        BY <4>2, <4>3
    <3> QED
      BY <3>2, <3>3
  <2>2. table => \A p \in Partitions : cPart[p] \notin {"creating", "failed"}
    BY <1>1 DEF CreateInv, OneCreator, Creates
  <2> QED
    BY <2>1, <2>2, CreateCardinality DEF Create!CreatedOnce
<1> QED
  BY <1>1, CreateInvariance, PTL

(* A partition waits for a table only while one is being created, or after *)
(* creating it has failed the query.                                       *)
THEOREM WaitersHaveACreator == Create!Spec => []Create!NoStrandedPartition
<1>1. ASSUME CreateInv PROVE Create!NoStrandedPartition
  BY <1>1 DEF CreateInv, OneCreator, Creates, Create!NoStrandedPartition, Create!QueryFailed
<1> QED
  BY <1>1, CreateInvariance, PTL

(* A partition never appends a batch it does not have, and its counts stay *)
(* below the number of its batches.                                        *)
THEOREM CreateTypes == Create!Spec => []Create!TypeOK
<1>1. ASSUME CreateInv PROVE Create!TypeOK
  <2>1. \A p \in Partitions : cInput[p] \in 0 .. MaxBatches /\ counted[p] \in 0 .. MaxBatches
                              /\ buffered[p] \in 0 .. MaxBatches /\ stored[p] \in 0 .. MaxBatches
    <3> SUFFICES ASSUME NEW p \in Partitions
                 PROVE  cInput[p] \in 0 .. MaxBatches /\ counted[p] \in 0 .. MaxBatches
                        /\ buffered[p] \in 0 .. MaxBatches /\ stored[p] \in 0 .. MaxBatches
      OBVIOUS
    <3>1. Batched(p) /\ total[p] \in 0 .. MaxBatches /\ cInput[p] \in Nat /\ counted[p] \in Nat
          /\ stored[p] \in Nat /\ buffered[p] \in Nat
      BY <1>1 DEF CreateInv, CreateTyped
    <3> QED
      <4>1. cInput[p] + counted[p] \in 0 .. MaxBatches
        BY <3>1, Zenon DEF Batched
      <4>2. cInput[p] \in 0 .. MaxBatches /\ counted[p] \in 0 .. MaxBatches
        BY <3>1, <4>1, PartsBounded, SizesAssumption, Zenon
      <4>3. stored[p] + buffered[p] \in 0 .. MaxBatches
        BY <3>1, <4>2, Zenon DEF Batched
      <4> QED
        BY <3>1, <4>2, <4>3, PartsBounded, SizesAssumption, Zenon
  <2>2. /\ cInput \in [Partitions -> 0 .. MaxBatches] /\ counted \in [Partitions -> 0 .. MaxBatches]
        /\ buffered \in [Partitions -> 0 .. MaxBatches] /\ stored \in [Partitions -> 0 .. MaxBatches]
    BY <1>1, <2>1 DEF CreateInv, CreateTyped
  <2> QED
    BY <1>1, <2>2, Zenon DEF CreateInv, CreateTyped, Create!TypeOK
<1> QED
  BY <1>1, CreateInvariance, PTL

=============================================================================
