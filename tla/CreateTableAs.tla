---------------------------- MODULE CreateTableAs ----------------------------
(***************************************************************************)
(* CREATE TABLE ... AS (operators/catalog/create_table_as.rs): the first   *)
(* partition that gets a batch creates the table, the others wait for it,  *)
(* each appends its batches and flushes them at the end.  A partition may  *)
(* get no batch at all: an operator below it that answers NeedsMore to its *)
(* last input, as a hash join without a match does, passes nothing on.     *)
(***************************************************************************)
EXTENDS Naturals, FiniteSets

CONSTANTS Partitions,
          MaxBatches \* bound: batches a partition gets

VARIABLES
    mode,     \* OnConflict of the statement
    slot,     \* the entry of that name: "none", "own" or of an "other" statement
    creating, \* a partition is creating the table
    table,    \* has the operator state a table?
    wakers,   \* partitions waiting for it
    part,     \* where a partition is
    input,    \* batches a partition has yet to get
    opened,   \* partitions that have an append state
    count,    \* batches a partition counted
    buffered, \* batches in its append state
    stored,   \* batches it flushed to the table of the operator state
    total     \* batches the query gives it

vars == <<mode, slot, creating, table, wakers, part, input, opened, count, buffered, stored, total>>

TypeOK ==
    /\ mode \in {"error", "ignore"} /\ slot \in {"none", "own", "other"}
    /\ creating \in BOOLEAN /\ table \in BOOLEAN
    /\ wakers \subseteq Partitions /\ opened \subseteq Partitions
    /\ part \in [Partitions -> {"run", "creating", "done", "failed"}]
    /\ \A f \in {input, count, buffered, stored, total} : f \in [Partitions -> 0 .. MaxBatches]

Init ==
    /\ mode \in {"error", "ignore"} /\ slot \in {"none", "other"}
    /\ creating = FALSE /\ table = FALSE
    /\ wakers = {} /\ opened = {}
    /\ part = [p \in Partitions |-> "run"]
    /\ input \in [Partitions -> 0 .. MaxBatches]
    /\ count = [p \in Partitions |-> 0]
    /\ buffered = [p \in Partitions |-> 0]
    /\ stored = [p \in Partitions |-> 0]
    /\ total = input

-----------------------------------------------------------------------------
Polled(p) == part[p] = "run" /\ p \notin wakers /\ input[p] > 0

(* A batch is appended to the segment of the partition.                    *)
AppendInput(p) ==
    /\ opened' = opened \cup {p}
    /\ input' = [input EXCEPT ![p] = @ - 1]
    /\ count' = [count EXCEPT ![p] = @ + 1]
    /\ buffered' = [buffered EXCEPT ![p] = @ + 1]

Wait(p) ==
    /\ Polled(p) /\ p \notin opened /\ creating /\ ~table
    /\ wakers' = wakers \cup {p}
    /\ UNCHANGED <<mode, slot, creating, table, part, input, opened, count, buffered, stored, total>>

MutFirst == ~table
First == ~creating /\ ~table

BeginCreate(p) ==
    /\ Polled(p) /\ p \notin opened /\ First
    /\ creating' = TRUE
    /\ part' = [part EXCEPT ![p] = "creating"]
    /\ UNCHANGED <<mode, slot, table, wakers, input, opened, count, buffered, stored, total>>

(* create_table succeeds, or finds an entry that IF NOT EXISTS ignores;    *)
(* either way the operator keeps the table it has made.                    *)
MutWoken == {}
Woken == wakers

EndCreate(p) ==
    /\ part[p] = "creating"
    /\ slot = "none" \/ mode = "ignore"
    /\ slot' = IF slot = "none" THEN "own" ELSE slot
    /\ creating' = FALSE /\ table' = TRUE
    /\ wakers' = wakers \ Woken
    /\ part' = [part EXCEPT ![p] = "run"]
    /\ AppendInput(p)
    /\ UNCHANGED <<mode, stored, total>>

(* create_table fails: the error ends the query, `creating` stays set.     *)
FailCreate(p) ==
    /\ part[p] = "creating"
    /\ slot # "none" /\ mode = "error"
    /\ part' = [part EXCEPT ![p] = "failed"]
    /\ UNCHANGED <<mode, slot, creating, table, wakers, input, opened, count, buffered, stored, total>>

AppendBatch(p) ==
    /\ Polled(p) /\ (p \in opened \/ table)
    /\ AppendInput(p)
    /\ UNCHANGED <<mode, slot, creating, table, wakers, part, stored, total>>

(* poll_finalize_execute, then the drain that returns the count.           *)
MutFlushed(p) == 0
Flushed(p) == buffered[p]

FinalizeExecute(p) ==
    /\ part[p] = "run" /\ p \notin wakers /\ input[p] = 0
    /\ stored' = [stored EXCEPT ![p] = @ + Flushed(p)]
    /\ buffered' = [buffered EXCEPT ![p] = 0]
    /\ part' = [part EXCEPT ![p] = "done"]
    /\ UNCHANGED <<mode, slot, creating, table, wakers, input, opened, count, total>>

-----------------------------------------------------------------------------
Run(p) ==
    \/ Wait(p) \/ BeginCreate(p) \/ EndCreate(p) \/ FailCreate(p)
    \/ AppendBatch(p) \/ FinalizeExecute(p)

Next == \E p \in Partitions : Run(p)

Spec == Init /\ [][Next]_vars

(* A task that is not parked is polled again (TaskScheduler).              *)
FairSpec == Spec /\ \A p \in Partitions : WF_vars(Run(p))
-----------------------------------------------------------------------------
AllDone == \A p \in Partitions : part[p] = "done"
QueryFailed == \E p \in Partitions : part[p] = "failed"

(* Every batch of every partition reaches the one table the statement      *)
(* made, and is counted once.                                              *)
AllStored == AllDone => stored = total /\ count = total

(* One partition at a time creates the table, and none after it exists.    *)
CreatedOnce ==
    /\ Cardinality({p \in Partitions : part[p] \in {"creating", "failed"}}) <= 1
    /\ table => \A p \in Partitions : part[p] \notin {"creating", "failed"}

(* A partition waits only while another one is creating the table, or      *)
(* after the query has failed.                                             *)
NoStrandedPartition ==
    wakers # {} => QueryFailed \/ \E p \in Partitions : part[p] = "creating"
=============================================================================
