----------------------------- MODULE BinaryMerge -----------------------------
(***************************************************************************)
(* BinaryMerger::merge (arrays/sort/binary_merge.rs): two sorted runs of   *)
(* blocks become one.  Each round makes one block: it first decides from   *)
(* which side every row comes, then copies the rows, moving two scan       *)
(* states over the blocks each time.  A step is one iteration of a loop.   *)
(* A row is its sort key and the run it comes from.                        *)
(***************************************************************************)
EXTENDS Naturals, Sequences, SequencesExt

CONSTANTS
    Runs,          \* the runs to merge: sequences of blocks of keys, sorted
    Capacity,      \* block_capacity
    LimitHints     \* limit hints to try; one above the number of rows is no hint

Sides == {"left", "right"}
Other(side) == IF side = "left" THEN "right" ELSE "left"

VARIABLES
    run,       \* the runs of the two sides
    hint,      \* limit_hint
    start,     \* the scan states a round starts from: block, row, remaining
    scan,      \* the scan states of the loop that is running
    sides,     \* scan_sides decided so far
    wanted,    \* scan_count
    block,     \* rows copied to the output block
    out,       \* output blocks
    phase      \* "round", "sides", "copy", "done", or "assert" for a failed assertion

vars == <<run, hint, start, scan, sides, wanted, block, out, phase>>

Rows(side) == FlattenSeq(run[side])
Least(a, b) == IF a <= b THEN a ELSE b
Count == Len(FlattenSeq(out))

TypeOK ==
    /\ phase \in {"round", "sides", "copy", "done"}
    /\ \A s \in Sides :
          /\ start[s].remaining \in 0 .. Len(Rows(s)) /\ scan[s].remaining \in 0 .. Len(Rows(s))
          /\ scan[s].block \in 1 .. Len(run[s]) + 1

Init ==
    /\ run \in [Sides -> Runs]
    /\ hint \in LimitHints
    /\ (\E s \in Sides : Rows(s) = <<>>) => hint = 0 \* only a limit of 0 leaves such runs
    /\ start = [s \in Sides |-> [block |-> 1, row |-> 0, remaining |-> Len(Rows(s))]]
    /\ scan = start
    /\ sides = <<>> /\ wanted = 0 /\ block = <<>> /\ out = <<>>
    /\ phase = "round"

-----------------------------------------------------------------------------
Remaining(scans) == scans["left"].remaining + scans["right"].remaining

(* A round starts while rows remain and the limit hint asks for more.      *)
Wanted == Least(Capacity, Remaining(start))

Round ==
    /\ phase = "round"
    /\ IF Remaining(start) = 0 \/ Count >= hint
       THEN phase' = "done" /\ UNCHANGED <<scan, sides, wanted, block>>
       ELSE /\ phase' = "sides" /\ wanted' = Wanted
            /\ scan' = start /\ sides' = <<>> /\ block' = <<>>
    /\ UNCHANGED <<run, hint, start, out>>

Ended(s) == scan[s].block > Len(run[s])
RowsInBlock(s) == run[s][scan[s].block]
AtBlockEnd(s) == ~Ended(s) /\ scan[s].row = Len(RowsInBlock(s))

(* Rows decided or copied in this round, and the loop over them.           *)
Done == IF phase = "sides" THEN Len(sides) ELSE Len(block)
Looping == phase \in {"sides", "copy"} /\ Done < wanted /\ \A s \in Sides : ~Ended(s)

Skipped(s) == [scan EXCEPT ![s].block = @ + 1, ![s].row = 0]
MutAdvanced(s) == [scan EXCEPT ![s].row = @ + 1]
Advanced(s) == [scan EXCEPT ![s].row = @ + 1, ![s].remaining = @ - 1]
Row(s) == <<RowsInBlock(s)[scan[s].row + 1], s>>

(* A block is used up: go to the next one, the left side first.            *)
NextBlock ==
    /\ Looping
    /\ \E s \in Sides :
          /\ AtBlockEnd(s) /\ (s = "right" => ~AtBlockEnd("left"))
          /\ scan' = Skipped(s)
    /\ UNCHANGED <<run, hint, start, sides, wanted, block, out, phase>>

Smaller == IF Row("left")[1] < Row("right")[1] THEN "left" ELSE "right"
Comparing == Looping /\ \A s \in Sides : ~AtBlockEnd(s)

Decide ==
    /\ Comparing /\ phase = "sides"
    /\ sides' = Append(sides, Smaller)
    /\ scan' = Advanced(Smaller)
    /\ UNCHANGED <<run, hint, start, wanted, block, out, phase>>

Copy ==
    /\ Comparing /\ phase = "copy"
    /\ LET side == sides[Len(block) + 1]
       IN block' = Append(block, Row(side)) /\ scan' = Advanced(side)
    /\ UNCHANGED <<run, hint, start, sides, wanted, out, phase>>

(* The loop ends early when one side is used up: "One side should have     *)
(* been exhuasted... And only one side."                                   *)
OneExhausted == \E s \in Sides : scan[s].remaining = 0 /\ scan[Other(s)].remaining > 0
Left(s) == scan[Other(s)].remaining = 0

SidesEnd ==
    /\ phase = "sides" /\ ~Looping
    /\ scan' = start
    /\ IF Done < wanted /\ ~OneExhausted
       THEN phase' = "assert" /\ UNCHANGED sides
       ELSE /\ phase' = "copy"
            /\ sides' = sides \o [i \in 1 .. wanted - Done |->
                                     CHOOSE s \in Sides : Left(s)]
    /\ UNCHANGED <<run, hint, start, wanted, block, out>>

(* bulk_copy takes the other rows from the side that is left, block after  *)
(* block.                                                                  *)
RowsBefore(s, at) == Len(FlattenSeq(SubSeq(run[s], 1, at.block - 1))) + at.row
Position(s) == RowsBefore(s, scan[s])
MutCopyFrom(s) == scan[s].row
CopyFrom(s) == Position(s)

(* Where a scan state is after `n` more rows: it stays at the end of a     *)
(* block it has used up.                                                   *)
After(s, n) ==
    LET at == Position(s) + n
        Before(b) == Len(FlattenSeq(SubSeq(run[s], 1, b - 1)))
        b == CHOOSE b \in scan[s].block .. Len(run[s]) :
                /\ at <= Before(b + 1) /\ (b = scan[s].block \/ Before(b) < at)
    IN [block |-> b, row |-> at - Before(b), remaining |-> scan[s].remaining - n]

CopyEnd ==
    /\ phase = "copy" /\ ~Looping
    /\ IF Done = wanted
       THEN out' = Append(out, block) /\ start' = scan /\ phase' = "round"
       ELSE IF ~OneExhausted
       THEN phase' = "assert" /\ UNCHANGED <<out, start>>
       ELSE LET s == CHOOSE s \in Sides : Left(s)
                n == wanted - Done
            IN /\ out' = Append(out, block \o [i \in 1 .. n |-> <<Rows(s)[CopyFrom(s) + i], s>>])
               /\ start' = [scan EXCEPT ![s] = After(s, n)]
               /\ phase' = "round"
    /\ UNCHANGED <<run, hint, scan, sides, wanted, block>>

Next == Round \/ NextBlock \/ Decide \/ Copy \/ SidesEnd \/ CopyEnd

FairSpec == Init /\ [][Next]_vars /\ WF_vars(Next)
-----------------------------------------------------------------------------
Tagged(s) == [i \in DOMAIN Rows(s) |-> <<Rows(s)[i], s>>]
From(s, rows) == SelectSeq(rows, LAMBDA row : row[2] = s)

(* The result is sorted, keeps the order of each run and loses no row:     *)
(* from each side it has a prefix, and every row left out is not smaller   *)
(* than the last row returned.  Without a limit hint nothing is left out.  *)
MergeIsCorrect ==
    phase = "done" =>
        LET rows == FlattenSeq(out)
        IN /\ \A i \in 1 .. Len(rows) - 1 : rows[i][1] <= rows[i + 1][1]
           /\ \A s \in Sides :
                 LET taken == From(s, rows)
                 IN /\ IsPrefix(taken, Tagged(s))
                    /\ \A i \in Len(taken) + 1 .. Len(Rows(s)), j \in DOMAIN rows :
                          rows[j][1] <= Rows(s)[i]
           /\ Len(rows) >= Least(hint, Len(Rows("left")) + Len(Rows("right")))

(* The assertions of the code hold, and a block never exceeds the          *)
(* capacity.                                                               *)
NoAssertFails ==
    /\ phase # "assert"
    /\ \A i \in DOMAIN out : Len(out[i]) \in 1 .. Capacity

(* Deciding and copying walk over the same rows, though each moves scan    *)
(* states of its own and those of the first are dropped: the rows of the   *)
(* last block come from the sides that were decided, and each side goes on *)
(* at the first row that is not yet in the output, with what is left of it *)
(* counted right.                                                          *)
RoundsAgree ==
    phase = "round" =>
        /\ out # <<>> => [i \in DOMAIN Last(out) |-> Last(out)[i][2]] = sides
        /\ \A s \in Sides :
              LET taken == Len(From(s, FlattenSeq(out)))
              IN /\ RowsBefore(s, start[s]) = taken
                 /\ start[s].remaining = Len(Rows(s)) - taken
=============================================================================
