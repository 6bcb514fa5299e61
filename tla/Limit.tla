-------------------------------- MODULE Limit --------------------------------
(***************************************************************************)
(* LIMIT and OFFSET (operators/limit.rs): the partitions of one pipeline   *)
(* pass their batches through one shared pair of counters.  An action is   *)
(* one poll_execute, which holds the lock of the operator state.  A batch  *)
(* is the number of its rows.                                              *)
(*                                                                         *)
(* The comment of PhysicalLimit has it otherwise: "The provided `limit`    *)
(* and `offset` values work on a per-partition basis. A global             *)
(* limit/offset should be done by using a single partition."  But          *)
(* create_operator_state makes one pair of counters, and the partitions    *)
(* have no state.                                                          *)
(***************************************************************************)
EXTENDS Integers, FiniteSets

CONSTANTS Partitions,
          LimitCount, Offset, \* of the query; OFFSET defaults to 0
          MaxBatch,           \* bound: rows in a batch
          MaxRows             \* bound: rows the partitions get in all

ASSUME LimitAssumption ==
    LimitCount \in Nat /\ Offset \in Nat /\ MaxBatch \in Nat /\ MaxRows \in Nat

VARIABLES
    remainingOffset, \* rows yet to be skipped
    remainingCount,  \* rows yet to be returned
    state,           \* is a partition running, at the end of its input, or exhausted?
    input,           \* rows polled so far
    passed,          \* rows returned so far
    discarded        \* rows of a batch beyond the limit

vars == <<remainingOffset, remainingCount, state, input, passed, discarded>>

TypeOK ==
    /\ remainingOffset \in 0 .. Offset
    /\ remainingCount \in 0 .. LimitCount
    /\ state \in [Partitions -> {"running", "ended", "exhausted"}]
    /\ input \in Nat /\ passed \in Nat /\ discarded \in Nat

Init ==
    /\ remainingOffset = Offset
    /\ remainingCount = LimitCount
    /\ state = [p \in Partitions |-> "running"]
    /\ input = 0 /\ passed = 0 /\ discarded = 0

-----------------------------------------------------------------------------
Least(a, b) == IF a <= b THEN a ELSE b
Polls(p, n) == state[p] = "running" /\ input' = input + n

(* The whole batch lies before the offset: it is dropped.                  *)
Skipped(n) == remainingOffset >= n

Skip(p, n) ==
    /\ Polls(p, n) /\ remainingOffset > 0 /\ Skipped(n)
    /\ remainingOffset' = remainingOffset - n
    /\ UNCHANGED <<remainingCount, state, passed, discarded>>

(* The offset lies inside the batch: the rows behind it are returned, as   *)
(* far as the limit allows.                                                *)
SliceCount(n) == Least(n - remainingOffset, remainingCount)
MutExhausts(p, count) == state' = [state EXCEPT ![p] = "exhausted"]
Exhausts(p, count) ==
    state' = IF count = 0 THEN [state EXCEPT ![p] = "exhausted"] ELSE state

Slice(p, n) ==
    /\ Polls(p, n) /\ remainingOffset > 0 /\ ~Skipped(n)
    /\ remainingOffset' = 0
    /\ remainingCount' = remainingCount - SliceCount(n)
    /\ passed' = passed + SliceCount(n)
    /\ discarded' = discarded + (n - remainingOffset - SliceCount(n))
    /\ Exhausts(p, remainingCount - SliceCount(n))

(* More rows than the limit leaves: the batch is cut and ends the stream.  *)
Cut(p, n) ==
    /\ Polls(p, n) /\ remainingOffset = 0 /\ remainingCount < n
    /\ remainingCount' = 0
    /\ passed' = passed + remainingCount
    /\ discarded' = discarded + (n - remainingCount)
    /\ state' = [state EXCEPT ![p] = "exhausted"]
    /\ UNCHANGED remainingOffset

MutPassed(n) == 0
Passed(n) == n

Pass(p, n) ==
    /\ Polls(p, n) /\ remainingOffset = 0 /\ remainingCount >= n
    /\ remainingCount' = remainingCount - Passed(n)
    /\ passed' = passed + n
    /\ UNCHANGED <<remainingOffset, state, discarded>>

(* The input of the partition ends: poll_finalize_execute has nothing to do. *)
End(p) ==
    /\ state[p] = "running"
    /\ state' = [state EXCEPT ![p] = "ended"]
    /\ UNCHANGED <<remainingOffset, remainingCount, input, passed, discarded>>

-----------------------------------------------------------------------------
Poll(p, n) == Skip(p, n) \/ Slice(p, n) \/ Cut(p, n) \/ Pass(p, n)

Next ==
    \E p \in Partitions :
        \/ End(p)
        \/ \E n \in 0 .. MaxBatch : input + n <= MaxRows /\ Poll(p, n)

Spec == Init /\ [][Next]_vars
-----------------------------------------------------------------------------
(* However the batches of the partitions interleave, the query returns the *)
(* rows behind the first Offset ones, LimitCount of them at most: "Skip 5  *)
(* rows and return the next 10" (docs/sql/query-syntax/limit.md).  This is *)
(* the limit of the query and not, as PhysicalLimit's comment says, one    *)
(* for each partition.                                                     *)
RowsReturned ==
    passed = Least(LimitCount, IF input > Offset THEN input - Offset ELSE 0)

(* A partition stops reading its input only when the limit is reached, and *)
(* no row is dropped before that.                                          *)
StopsAtLimit ==
    (\E p \in Partitions : state[p] = "exhausted") \/ discarded > 0
        => passed = LimitCount
=============================================================================
