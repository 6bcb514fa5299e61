---------------------------- MODULE NestedLoopJoin ----------------------------
(***************************************************************************)
(* The nested loop join (operators/nested_loop_join): the build side       *)
(* collects the left rows; then every probe partition joins each of its    *)
(* right batches with all left rows, one left row at a time; for the left  *)
(* joins the probe partitions then share the collected rows and return     *)
(* those that matched (semi), did not match (left), or all with a mark.    *)
(* Matched left rows are kept by position in the collection.               *)
(*                                                                         *)
(* The collection is ColumnCollection's: build partitions are its append   *)
(* states, probe partitions its scan states.                               *)
(***************************************************************************)
EXTENDS ColumnCollection

CONSTANTS
    JoinTypes,   \* the join types to try
    BuildInput, ProbeInput, \* a sequence of batches for each partition
    On           \* the pairs of left and right rows for which the filter is true

VARIABLES
    join,
    build, probe,     \* batches not yet read
    done,             \* build partitions that have finished
    remainingBuild, remainingProbe, \* remaining_build_inputs, remaining_probe_inputs
    phase,            \* the state of a probe partition
    wakers,           \* probe_wakers
    at,               \* left rows joined with the current right batch
    leftMatches,      \* positions of matched left rows
    rightMatches,     \* matched rows of the current right batch
    output

counts == <<remainingBuild, remainingProbe>>
vars == <<join, build, probe, done, counts, phase, wakers, at, leftMatches, rightMatches,
          output, collection>>

NullRow == "null"
NeedsLeftDrain == join \in {"left", "semi", "mark"}

(* The elements of a sequence; a sequence of sequences put end to end.     *)
ToSet(s) == {s[i] : i \in DOMAIN s}
FlattenSeq(ss) ==
    LET upTo[n \in 0 .. Len(ss)] == IF n = 0 THEN <<>> ELSE upTo[n - 1] \o ss[n]
    IN upTo[Len(ss)]

RowsOf(segs) == FlattenSeq(FlattenSeq(segs))
Left == RowsOf(segments)

TypeOK ==
    /\ remainingBuild = Cardinality(Appenders \ done)
    /\ remainingProbe = Cardinality({p \in Scanners : phase[p] = "probing"})
    /\ wakers \subseteq {p \in Scanners : phase[p] # "finished"}
    /\ leftMatches \subseteq 0 .. Len(Left) - 1
    /\ \A p \in Scanners : at[p] \in 0 .. Len(Left)

Init ==
    /\ join \in JoinTypes
    /\ build = BuildInput /\ probe = ProbeInput
    /\ done = {}
    /\ remainingBuild = Cardinality(Appenders) /\ remainingProbe = Cardinality(Scanners)
    /\ phase = [p \in Scanners |-> "probing"]
    /\ wakers = {}
    /\ at = [p \in Scanners |-> 0]
    /\ leftMatches = {}
    /\ rightMatches = [p \in Scanners |-> {}]
    /\ output = <<>>
    /\ segments = <<>>
    /\ CollectionInit

-----------------------------------------------------------------------------
(* The build side.                                                         *)

Push(b) ==
    /\ b \notin done /\ build[b] # <<>>
    /\ AppendBatch(b, Head(build[b]), FALSE)
    /\ build' = [build EXCEPT ![b] = Tail(@)]
    /\ UNCHANGED <<join, probe, done, counts, phase, wakers, at, leftMatches, rightMatches,
                   output, scanState>>

MutWokenByBuild == {}
WokenByBuild == IF remainingBuild = 1 THEN wakers ELSE {}

FinalizePush(b) ==
    /\ b \notin done /\ build[b] = <<>>
    /\ Flush(b)
    /\ done' = done \cup {b}
    /\ remainingBuild' = remainingBuild - 1
    /\ wakers' = wakers \ WokenByBuild
    /\ UNCHANGED <<join, build, probe, remainingProbe, phase, at, leftMatches, rightMatches,
                   output, scanState>>

-----------------------------------------------------------------------------
(* The probe side: poll_execute is called with a batch, or to drain.       *)

BuildDone == remainingBuild = 0

Polled(p) ==
    /\ p \notin wakers
    /\ phase[p] = "draining" \/ (phase[p] = "probing" /\ probe[p] # <<>>)

AwaitBuild(p) ==
    /\ Polled(p) /\ ~BuildDone
    /\ wakers' = wakers \cup {p}
    /\ UNCHANGED <<join, build, probe, done, counts, phase, at, leftMatches, rightMatches,
                   output, collection>>

Pairs(l, rows) == [i \in DOMAIN rows |-> <<l, rows[i]>>]

MutMarked(p) == (at[p] % ChunkCapacity)
Marked(p) == at[p]

(* scan_next returns a left row; the filter selects from its pairs with    *)
(* the right batch.                                                        *)
JoinRow(p) ==
    LET l == Left[at[p] + 1]
        selected == SelectSeq(Head(probe[p]), LAMBDA r : <<l, r>> \in On)
    IN /\ Polled(p) /\ BuildDone /\ phase[p] = "probing" /\ at[p] < Len(Left)
       /\ at' = [at EXCEPT ![p] = @ + 1]
       /\ leftMatches' = IF NeedsLeftDrain /\ selected # <<>>
                         THEN leftMatches \cup {Marked(p)} ELSE leftMatches
       /\ rightMatches' = [rightMatches EXCEPT ![p] =
                              IF join = "right" THEN @ \cup ToSet(selected) ELSE @]
       /\ output' = IF join \in {"semi", "mark"} THEN output ELSE output \o Pairs(l, selected)
       /\ UNCHANGED <<join, build, probe, done, counts, phase, wakers, collection>>

(* No more left rows: RIGHT joins return what did not match, and the next  *)
(* batch starts from the first left row.                                   *)
Resets(p) == [rightMatches EXCEPT ![p] = {}]

EndBatch(p) ==
    /\ Polled(p) /\ BuildDone /\ phase[p] = "probing" /\ at[p] = Len(Left)
    /\ output' = IF join = "right"
                 THEN output \o Pairs(NullRow, SelectSeq(Head(probe[p]),
                                                      LAMBDA r : r \notin rightMatches[p]))
                 ELSE output
    /\ rightMatches' = Resets(p)
    /\ at' = [at EXCEPT ![p] = 0]
    /\ probe' = [probe EXCEPT ![p] = Tail(@)]
    /\ UNCHANGED <<join, build, done, counts, phase, wakers, leftMatches, collection>>

MutWokenByProbe == {}
WokenByProbe == IF NeedsLeftDrain /\ remainingProbe = 1 THEN wakers ELSE {}

(* Not held up by the build side when there was no batch to join.          *)
FinalizeExecute(p) ==
    /\ p \notin wakers /\ phase[p] = "probing" /\ probe[p] = <<>>
    /\ remainingProbe' = remainingProbe - 1
    /\ phase' = [phase EXCEPT ![p] = IF NeedsLeftDrain THEN "draining" ELSE "finished"]
    /\ wakers' = wakers \ WokenByProbe
    /\ UNCHANGED <<join, build, probe, done, remainingBuild, at, leftMatches, rightMatches,
                   output, collection>>

-----------------------------------------------------------------------------
MutMayDrain == TRUE
MayDrain == remainingProbe = 0

AwaitProbes(p) ==
    /\ Polled(p) /\ BuildDone /\ phase[p] = "draining" /\ ~MayDrain
    /\ wakers' = wakers \cup {p}
    /\ UNCHANGED <<join, build, probe, done, counts, phase, at, leftMatches, rightMatches,
                   output, collection>>

(* relative_offset: rows of the collection before the chunk.               *)
Offset(p) ==
    IF InSegment(p)
    THEN Len(RowsOf(SubSeq(segments, 1, current[p] - 1)))
         + Len(FlattenSeq(SubSeq(segments[current[p]], 1, chunkIdx[p] - 1)))
    ELSE Len(RowsOf(SubSeq(segments, 1, reserved[p] - 1)))

(* left_outer_result, left_semi_result and left_mark_result.               *)
Result(rows, offset) ==
    LET matched(i) == offset + i - 1 \in leftMatches
        chosen == SelectSeq([i \in DOMAIN rows |-> i],
                            LAMBDA i : join = "mark" \/ (matched(i) <=> join = "semi"))
    IN [i \in DOMAIN chosen |->
            <<rows[chosen[i]], IF join = "mark" THEN matched(chosen[i]) ELSE NullRow>>]

Drain(p) ==
    /\ Polled(p) /\ BuildDone /\ phase[p] = "draining" /\ MayDrain
    /\ \/ /\ Scan(p)
          /\ output' = output \o Result(Scanned(p), Offset(p))
          /\ UNCHANGED phase
       \/ /\ ScanNothing(p)
          /\ phase' = [phase EXCEPT ![p] = "finished"]
          /\ UNCHANGED output
    /\ UNCHANGED <<join, build, probe, done, counts, wakers, at, leftMatches, rightMatches,
                   segments, pending>>

-----------------------------------------------------------------------------
Build(b) == Push(b) \/ FinalizePush(b)
Probe(p) ==
    \/ AwaitBuild(p) \/ JoinRow(p) \/ EndBatch(p) \/ FinalizeExecute(p)
    \/ AwaitProbes(p) \/ Drain(p)

Next == (\E b \in Appenders : Build(b)) \/ (\E p \in Scanners : Probe(p))

(* A task that is not parked is polled again (TaskScheduler).              *)
FairSpec ==
    /\ Init /\ [][Next]_vars
    /\ \A b \in Appenders : WF_vars(Build(b))
    /\ \A p \in Scanners : WF_vars(Probe(p))
-----------------------------------------------------------------------------
RowsIn(input) == UNION {ToSet(FlattenSeq(input[p])) : p \in DOMAIN input}
L == RowsIn(BuildInput)
R == RowsIn(ProbeInput)
Matched(l) == \E r \in R : <<l, r>> \in On

Answer ==
    CASE join = "inner" -> On
      [] join = "right" -> On \cup {<<NullRow, r>> : r \in {x \in R : \A l \in L : <<l, x>> \notin On}}
      [] join = "left" -> On \cup {<<l, NullRow>> : l \in {x \in L : ~Matched(x)}}
      [] join = "semi" -> {<<l, NullRow>> : l \in {x \in L : Matched(x)}}
      [] join = "mark" -> {<<l, Matched(l)>> : l \in L}

Finished == \A p \in Scanners : phase[p] = "finished"

(* The join returns each row of the SQL join once, whichever probe         *)
(* partition meets the match and whichever drains the left row.            *)
JoinAnswers ==
    Finished => ToSet(output) = Answer /\ Len(output) = Cardinality(Answer)

(* The left rows are complete when the first pair is formed, and the marks *)
(* when the first left row is drained.                                     *)
KeepsPhases ==
    /\ (\E p \in Scanners : at[p] > 0) => segments' = segments
    /\ (\E p \in Scanners : current[p] # NoSegment) => leftMatches' = leftMatches

(* A probe partition waits only for a partition that is still going to     *)
(* wake it.                                                                *)
NoStrandedProbe ==
    wakers # {} => ~BuildDone \/ \E p \in Scanners : phase[p] = "probing" /\ p \notin wakers
=============================================================================
