------------------------------ MODULE GlobalSort ------------------------------
(***************************************************************************)
(* ORDER BY (operators/sort): every partition sorts its input into blocks, *)
(* adds them as runs to a shared merge queue, and then helps to merge runs *)
(* two at a time until one is left; the partition that takes it returns    *)
(* it.  With a LIMIT above, blocks and merged runs are cut to the rows     *)
(* that can still matter.  BinaryMerge models one merge block by block.    *)
(* A row is its sort key.                                                  *)
(***************************************************************************)
EXTENDS Naturals, FiniteSets, Sequences, TLC

CONSTANTS
    Partitions,
    Inputs,        \* the inputs to try: a sequence of batches for each partition
    LimitHints,    \* the limit hints to try; one above the number of rows is no hint
    BlockCapacity, \* rows in a block of a merged run
    BatchSize      \* rows in an output batch

VARIABLES
    hint,      \* limit_hint
    input,     \* batches a partition has yet to collect
    unsorted,  \* rows collected and not yet sorted
    blocks,    \* sorted blocks of a partition
    part,      \* the state of a partition
    held,      \* the two runs a partition is merging, or the one it drains
    runs, remaining, running, \* runs, remaining_collection_count, running_merges
    wakers,    \* partitions waiting for a merge
    output,    \* rows returned
    all        \* all rows collected, in order

vars == <<hint, input, unsorted, blocks, part, held, runs, remaining, running, wakers, output, all>>
queue == <<runs, remaining, running, wakers>>

Phases == {"collecting", "merging", "busy", "complete", "draining", "finished", "error"}

Sort(rows) == SortSeq(rows, <)
Take(rows, n) == SubSeq(rows, 1, IF n < Len(rows) THEN n ELSE Len(rows))

TypeOK ==
    /\ part \in [Partitions -> Phases]
    /\ remaining \in 0 .. Cardinality(Partitions)
    /\ running = Cardinality({p \in Partitions : part[p] = "busy"})
    /\ wakers \subseteq {p \in Partitions : part[p] = "merging"}

Init ==
    /\ hint \in LimitHints
    /\ input \in Inputs
    /\ unsorted = [p \in Partitions |-> <<>>]
    /\ blocks = [p \in Partitions |-> <<>>]
    /\ part = [p \in Partitions |-> "collecting"]
    /\ held = [p \in Partitions |-> <<>>]
    /\ runs = <<>> /\ remaining = Cardinality(Partitions) /\ running = 0 /\ wakers = {}
    /\ output = <<>>
    /\ all = <<>>

-----------------------------------------------------------------------------
(* sort_unsorted: one more sorted block, unless there are no rows.         *)
SortUnsorted(p, rows) ==
    IF rows = <<>> THEN blocks[p] ELSE Append(blocks[p], Take(Sort(rows), hint))

(* Collecting: with a limit hint, sort whenever more rows are waiting.     *)
Collect(p) ==
    LET rows == unsorted[p] \o Head(input[p])
    IN /\ part[p] = "collecting" /\ input[p] # <<>>
       /\ input' = [input EXCEPT ![p] = Tail(@)]
       /\ IF Len(rows) > hint
          THEN /\ blocks' = [blocks EXCEPT ![p] = SortUnsorted(p, rows)]
               /\ unsorted' = [unsorted EXCEPT ![p] = <<>>]
          ELSE /\ unsorted' = [unsorted EXCEPT ![p] = rows]
               /\ UNCHANGED blocks
       /\ all' = Sort(all \o Head(input[p]))
       /\ UNCHANGED <<hint, part, held, queue, output>>

(* poll_finalize_execute: every block becomes a run; nobody is woken, the  *)
(* partition goes on to merge.                                             *)
FinalizeExecute(p) ==
    /\ part[p] = "collecting" /\ input[p] = <<>>
    /\ runs' = runs \o SortUnsorted(p, unsorted[p])
    /\ remaining' = remaining - 1
    /\ unsorted' = [unsorted EXCEPT ![p] = <<>>]
    /\ blocks' = [blocks EXCEPT ![p] = <<>>]
    /\ part' = [part EXCEPT ![p] = "merging"]
    /\ UNCHANGED <<hint, input, held, running, wakers, output, all>>

-----------------------------------------------------------------------------
MutIsComplete == remaining = 0 /\ Len(runs) <= 1
IsComplete == remaining = 0 /\ running = 0 /\ Len(runs) <= 1
Polled(p) == part[p] = "merging" /\ p \notin wakers

(* The rows BinaryMerger::merge returns: whole blocks until there are at   *)
(* least `hint` rows.                                                      *)
MergedCount(n) ==
    LET needed == ((hint + BlockCapacity - 1) \div BlockCapacity) * BlockCapacity
    IN IF n < needed THEN n ELSE needed

MutMerge(l, r) == Take(Sort(l \o r), hint - 1)
Merge(l, r) == Take(Sort(l \o r), MergedCount(Len(l) + Len(r)))

Park(p) ==
    /\ Polled(p) /\ ~IsComplete /\ Len(runs) < 2
    /\ wakers' = wakers \cup {p}
    /\ UNCHANGED <<hint, input, unsorted, blocks, part, held, runs, remaining, running, output, all>>

TakeTwo(p) ==
    /\ Polled(p) /\ ~IsComplete /\ Len(runs) >= 2
    /\ held' = [held EXCEPT ![p] = <<runs[1], runs[2]>>]
    /\ runs' = SubSeq(runs, 3, Len(runs))
    /\ running' = running + 1
    /\ part' = [part EXCEPT ![p] = "busy"]
    /\ UNCHANGED <<hint, input, unsorted, blocks, remaining, wakers, output, all>>

WokenByMerge == wakers

(* The merge was done without the lock; the partition wakes itself too.    *)
PushMerged(p) ==
    /\ part[p] = "busy"
    /\ runs' = Append(runs, Merge(held[p][1], held[p][2]))
    /\ running' = running - 1
    /\ wakers' = wakers \ WokenByMerge
    /\ held' = [held EXCEPT ![p] = <<>>]
    /\ part' = [part EXCEPT ![p] = "merging"]
    /\ UNCHANGED <<hint, input, unsorted, blocks, remaining, output, all>>

(* poll_merge_next answers Finished; take_sorted_run locks again.          *)
Finish(p) ==
    /\ Polled(p) /\ IsComplete
    /\ part' = [part EXCEPT ![p] = "complete"]
    /\ UNCHANGED <<hint, input, unsorted, blocks, held, queue, output, all>>

MutWokenByTake == {}
WokenByTake == wakers

TakeSortedRun(p) ==
    /\ part[p] = "complete"
    /\ IF ~IsComplete
       THEN part' = [part EXCEPT ![p] = "error"] /\ UNCHANGED <<wakers, runs, held>>
       ELSE /\ wakers' = wakers \ WokenByTake
            /\ IF runs = <<>>
               THEN part' = [part EXCEPT ![p] = "finished"] /\ UNCHANGED <<runs, held>>
               ELSE /\ part' = [part EXCEPT ![p] = "draining"]
                    /\ held' = [held EXCEPT ![p] = Head(runs)]
                    /\ runs' = Tail(runs)
    /\ UNCHANGED <<hint, input, unsorted, blocks, remaining, running, output, all>>

(* drain_next: a batch of the run, nothing at its end.                     *)
Drain(p) ==
    /\ part[p] = "draining"
    /\ output' = output \o Take(held[p], BatchSize)
    /\ held' = [held EXCEPT ![p] = SubSeq(@, BatchSize + 1, Len(@))]
    /\ part' = IF held[p] = <<>> THEN [part EXCEPT ![p] = "finished"] ELSE part
    /\ UNCHANGED <<hint, input, unsorted, blocks, queue, all>>

-----------------------------------------------------------------------------
Run(p) ==
    \/ Collect(p) \/ FinalizeExecute(p) \/ Park(p) \/ TakeTwo(p) \/ PushMerged(p)
    \/ Finish(p) \/ TakeSortedRun(p) \/ Drain(p)

Next == \E p \in Partitions : Run(p)

Spec == Init /\ [][Next]_vars

(* A task that is not parked is polled again (TaskScheduler).              *)
FairSpec == Spec /\ \A p \in Partitions : WF_vars(Run(p))
-----------------------------------------------------------------------------
AllFinished == \A p \in Partitions : part[p] = "finished"

(* The query returns all rows in order, or with a limit hint at least the  *)
(* first ones in order: "The output segment will still represent the top   *)
(* rows according to the sort." (arrays/sort/binary_merge.rs)              *)
SortedOutput ==
    AllFinished =>
        /\ \A p \in Partitions : input[p] = <<>>
        /\ Take(output, hint) = Take(all, hint)
        /\ output = Sort(output)

(* A run taken as the result is the result: no merge runs beside it, and   *)
(* "Attempted to take final run from queue before merging complete" never  *)
(* happens.                                                                *)
OneResult ==
    /\ \A p \in Partitions : part[p] # "error"
    /\ (\E p \in Partitions : part[p] = "draining") => runs = <<>> /\ running = 0

(* A partition waits only while another one is still going to wake it,     *)
(* although adding runs wakes nobody.                                      *)
NoStrandedMerger ==
    wakers # {} => \E p \in Partitions : p \notin wakers /\ part[p] # "finished"
=============================================================================
