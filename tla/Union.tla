-------------------------------- MODULE Union --------------------------------
(***************************************************************************)
(* UNION ALL (operators/union.rs): a partition of the first input passes   *)
(* its batches through; when they are finished it drains the batches which *)
(* the same partition of the second input, a task of another pipeline,     *)
(* leaves one at a time in a slot shared by the two.                       *)
(***************************************************************************)
EXTENDS Integers, Sequences, FiniteSets

CONSTANTS
    Partitions,
    Batches    \* batches of each input of a partition, numbered from 1

VARIABLES
    first, second,         \* batches passed through, and batches pushed
    draining, exhausted,   \* partitions of the first input
    pushDone,              \* tasks of the second input that have ended
    hasData, pushFinished, \* has_data, push_finished of a slot
    buffer,                \* the batch in a slot
    pullWaker, pushWaker,  \* partitions whose waker is stored
    output                 \* batches returned by a partition

slot == <<hasData, pushFinished, buffer, pullWaker, pushWaker>>
vars == <<first, second, draining, exhausted, pushDone, slot, output>>

TypeOK ==
    /\ first \in [Partitions -> Nat] /\ second \in [Partitions -> Nat]
    /\ exhausted \subseteq draining /\ pushFinished = pushDone
    /\ buffer \in [Partitions -> Nat]
    /\ pullWaker \subseteq draining \ exhausted
    /\ pushWaker \subseteq Partitions \ pushDone

Init ==
    /\ first = [p \in Partitions |-> 0] /\ second = [p \in Partitions |-> 0]
    /\ draining = {} /\ exhausted = {} /\ pushDone = {}
    /\ hasData = {} /\ pushFinished = {}
    /\ buffer = [p \in Partitions |-> 0]
    /\ pullWaker = {} /\ pushWaker = {}
    /\ output = [p \in Partitions |-> <<>>]

-----------------------------------------------------------------------------
(* The second input.                                                       *)

Pushes(p) == p \notin pushDone /\ p \notin pushWaker

MutSlotTaken(p) == FALSE
SlotTaken(p) == p \in hasData

PushPending(p) ==
    /\ Pushes(p) /\ second[p] < Batches /\ SlotTaken(p)
    /\ pushWaker' = pushWaker \cup {p}
    /\ UNCHANGED <<first, second, draining, exhausted, pushDone, hasData, pushFinished,
                   buffer, pullWaker, output>>

MutWokenByPush(p) == IF pushWaker = {} THEN {p} ELSE {}
WokenByPush(p) == {p}

Push(p) ==
    /\ Pushes(p) /\ second[p] < Batches /\ ~SlotTaken(p)
    /\ second' = [second EXCEPT ![p] = @ + 1]
    /\ buffer' = [buffer EXCEPT ![p] = second'[p]]
    /\ hasData' = hasData \cup {p}
    /\ pullWaker' = pullWaker \ WokenByPush(p)
    /\ UNCHANGED <<first, draining, exhausted, pushDone, pushFinished, pushWaker, output>>

MutWokenByFinalize(p) == {}
WokenByFinalize(p) == {p}

(* The last batch may still be in the slot.                                *)
FinalizePush(p) ==
    /\ Pushes(p) /\ second[p] = Batches
    /\ pushFinished' = pushFinished \cup {p}
    /\ pushDone' = pushDone \cup {p}
    /\ pullWaker' = pullWaker \ WokenByFinalize(p)
    /\ UNCHANGED <<first, second, draining, exhausted, hasData, buffer, pushWaker, output>>

-----------------------------------------------------------------------------
(* The first input and the drain.                                          *)

PassThrough(p) ==
    /\ p \notin draining /\ first[p] < Batches
    /\ first' = [first EXCEPT ![p] = @ + 1]
    /\ output' = [output EXCEPT ![p] = Append(@, <<"first", first'[p]>>)]
    /\ UNCHANGED <<second, draining, exhausted, pushDone, slot>>

FinalizeExecute(p) ==
    /\ p \notin draining /\ first[p] = Batches
    /\ draining' = draining \cup {p}
    /\ UNCHANGED <<first, second, exhausted, pushDone, slot, output>>

Drains(p) == p \in draining /\ p \notin exhausted /\ p \notin pullWaker

DrainBatch(p) ==
    /\ Drains(p) /\ p \in hasData
    /\ hasData' = hasData \ {p}
    /\ output' = [output EXCEPT ![p] = Append(@, <<"second", buffer[p]>>)]
    /\ pushWaker' = pushWaker \ {p}
    /\ UNCHANGED <<first, second, draining, exhausted, pushDone, pushFinished, buffer, pullWaker>>

MutEndOfInput(p) == p \in pushFinished
EndOfInput(p) == p \in pushFinished /\ p \notin hasData

DrainEnd(p) ==
    /\ Drains(p) /\ EndOfInput(p)
    /\ exhausted' = exhausted \cup {p}
    /\ UNCHANGED <<first, second, draining, pushDone, slot, output>>

DrainPending(p) ==
    /\ Drains(p) /\ p \notin hasData /\ ~EndOfInput(p)
    /\ pullWaker' = pullWaker \cup {p}
    /\ pushWaker' = pushWaker \ {p}
    /\ UNCHANGED <<first, second, draining, exhausted, pushDone, hasData, pushFinished,
                   buffer, output>>

-----------------------------------------------------------------------------
Second(p) == PushPending(p) \/ Push(p) \/ FinalizePush(p)
First(p) ==
    \/ PassThrough(p) \/ FinalizeExecute(p)
    \/ DrainBatch(p) \/ DrainEnd(p) \/ DrainPending(p)

Next == \E p \in Partitions : First(p) \/ Second(p)
Spec == Init /\ [][Next]_vars

(* A task that is not parked is polled again (TaskScheduler).              *)
FairSpec == Spec /\ \A p \in Partitions : WF_vars(First(p)) /\ WF_vars(Second(p))
-----------------------------------------------------------------------------
(* Batch n of the second input is returned, in the slot, or yet to come,   *)
(* and the batches of both inputs are returned in their order.             *)
InOrder ==
    \A p \in Partitions :
        LET drained == Len(output[p]) - first[p]
        IN /\ drained = second[p] - (IF p \in hasData THEN 1 ELSE 0)
           /\ \A i \in DOMAIN output[p] :
                 output[p][i] = IF i <= first[p] THEN <<"first", i>>
                                ELSE <<"second", i - first[p]>>

(* A partition is exhausted only after everything was returned.            *)
ExhaustedIsComplete ==
    \A p \in exhausted : Len(output[p]) = 2 * Batches

(* The two tasks of a partition never wait for each other, and neither     *)
(* waits for what has already happened.                                    *)
NoDeadlock ==
    /\ pullWaker \cap (pushWaker \cup hasData \cup pushFinished) = {}
    /\ pushWaker \subseteq hasData
=============================================================================
