----------------------------- MODULE ResultStream -----------------------------
(***************************************************************************)
(* The end of a query: the StreamingResults sink of every partition        *)
(* pushes into one buffered slot (operators/results/streaming.rs), and     *)
(* StreamOutput::collect (engine/query_result.rs) pulls until the stream   *)
(* ends or fails, then takes the execution profiles                        *)
(* (runtime/profile_buffer.rs).                                            *)
(*                                                                         *)
(* Every action is one critical section of `inner` (or of the profile      *)
(* buffer).  Wakers follow WakeContract: a parked partition acts only      *)
(* after it has been woken, `runnable` holds the others.                   *)
(***************************************************************************)
EXTENDS Naturals, FiniteSets

CONSTANTS Partitions, \* partitions of the sink pipeline
          MaxBatches, \* bound: batches a partition pushes
          None        \* no batch

ASSUME StreamAssumption ==
    /\ IsFiniteSet(Partitions) /\ None \notin Partitions
    /\ MaxBatches \in Nat

VARIABLES
    buffered,   \* partition of the batch waiting to be sent, or None
    pullWaker,  \* is the waker of the pull side stored?
    pushWakers, \* partitions whose waker is stored
    error,      \* is a query error waiting to be sent?
    remaining,  \* remaining_inputs
    runnable,   \* partitions that run or have been woken
    todo,       \* batches a partition has yet to push
    task,       \* state of the pipeline of a partition
    accepted,   \* number of batches of a partition put in the slot
    received,   \* number of batches of a partition the stream returned
    consumer,   \* state of collect()
    taskProfiles, \* partitions whose profile is in the profile buffer
    consumed,   \* have the profiles been taken?
    taken       \* the profiles collect() got

inner == <<buffered, pullWaker, pushWakers, error, remaining>>
profileBuffer == <<taskProfiles, consumed, taken>>
streamVars == <<inner, runnable, todo, task, accepted, received, consumer, profileBuffer>>

StreamTypeOK ==
    /\ buffered \in Partitions \cup {None}
    /\ pullWaker \in BOOLEAN
    /\ pushWakers \subseteq Partitions
    /\ error \in BOOLEAN
    /\ remaining \in Nat
    /\ runnable \subseteq Partitions
    /\ todo \in [Partitions -> 0 .. MaxBatches]
    /\ task \in [Partitions -> {"pushing", "finalized", "completed", "failed"}]
    /\ accepted \in [Partitions -> Nat]
    /\ received \in [Partitions -> Nat]
    /\ consumer \in {"polling", "waiting", "ended", "failed", "profiled"}
    /\ taskProfiles \subseteq Partitions
    /\ consumed \in BOOLEAN
    /\ taken \subseteq Partitions

(* create_partition_push_states, before anything runs.                     *)
StreamInit ==
    /\ buffered = None /\ pullWaker = FALSE /\ pushWakers = {} /\ error = FALSE
    /\ remaining = Cardinality(Partitions)
    /\ runnable = Partitions
    /\ todo \in [Partitions -> 0 .. MaxBatches]
    /\ task = [p \in Partitions |-> "pushing"]
    /\ accepted = [p \in Partitions |-> 0]
    /\ received = [p \in Partitions |-> 0]
    /\ consumer = "polling"
    /\ taskProfiles = {} /\ consumed = FALSE /\ taken = {}

(* pull_waker.take() and wake(): collect() is polled again.                *)
MutWakePull == UNCHANGED <<pullWaker, consumer>>
WakePull ==
    /\ pullWaker' = FALSE
    /\ consumer' = IF pullWaker /\ consumer = "waiting" THEN "polling" ELSE consumer

Runs(p) == p \in runnable /\ task[p] = "pushing"

-----------------------------------------------------------------------------
(* poll_push.  A batch without rows is dropped before the lock is taken.   *)
PushEmpty(p) ==
    /\ Runs(p) /\ todo[p] > 0
    /\ todo' = [todo EXCEPT ![p] = @ - 1]
    /\ UNCHANGED <<inner, runnable, task, accepted, received, consumer, profileBuffer>>

MutSlotFree == TRUE
SlotFree == buffered = None

Push(p) ==
    /\ Runs(p) /\ todo[p] > 0
    /\ SlotFree
    /\ buffered' = p
    /\ accepted' = [accepted EXCEPT ![p] = @ + 1]
    /\ todo' = [todo EXCEPT ![p] = @ - 1]
    /\ WakePull
    /\ UNCHANGED <<pushWakers, error, remaining, runnable, task, received, profileBuffer>>

PushPending(p) ==
    /\ Runs(p) /\ todo[p] > 0
    /\ ~SlotFree
    /\ pushWakers' = pushWakers \cup {p}
    /\ runnable' = runnable \ {p}
    /\ WakePull
    /\ UNCHANGED <<buffered, error, remaining, todo, task, accepted, received, profileBuffer>>

(* poll_finalize_push; the pipeline returns Ok right after it and the task *)
(* puts its profile, which is dropped when the profiles are taken already. *)
MutFinalizeEarly(p) == Runs(p)
MayFinalize(p) == Runs(p) /\ todo[p] = 0

FinalizePush(p) ==
    /\ MayFinalize(p)
    /\ task' = [task EXCEPT ![p] = "finalized"]
    /\ remaining' = remaining - 1
    /\ WakePull
    /\ UNCHANGED <<buffered, pushWakers, error, runnable, todo, accepted, received,
                   profileBuffer>>

PutProfile(p) ==
    /\ task[p] = "finalized"
    /\ task' = [task EXCEPT ![p] = "completed"]
    /\ taskProfiles' = IF consumed THEN taskProfiles ELSE taskProfiles \cup {p}
    /\ UNCHANGED <<inner, runnable, todo, accepted, received, consumer, consumed, taken>>

(* The pipeline fails: TaskState::execute calls set_error.                 *)
SetError(p) ==
    /\ Runs(p)
    /\ task' = [task EXCEPT ![p] = "failed"]
    /\ error' = TRUE
    /\ WakePull
    /\ UNCHANGED <<buffered, pushWakers, remaining, runnable, todo, accepted, received,
                   profileBuffer>>

-----------------------------------------------------------------------------
(* ResultStream::poll_next, called by try_collect until the stream ends or *)
(* returns an error.                                                       *)
PollError ==
    /\ consumer = "polling" /\ error
    /\ error' = FALSE
    /\ consumer' = "failed"
    /\ UNCHANGED <<buffered, pullWaker, pushWakers, remaining, runnable, todo, task,
                   accepted, received, profileBuffer>>

MutWoken == {CHOOSE p \in pushWakers \cup {None} : p \in pushWakers \/ pushWakers = {}} \ {None}
Woken == pushWakers

PollBatch ==
    /\ consumer = "polling" /\ ~error /\ buffered # None
    /\ received' = [received EXCEPT ![buffered] = @ + 1]
    /\ buffered' = None
    /\ pushWakers' = {}
    /\ runnable' = runnable \cup Woken
    /\ UNCHANGED <<pullWaker, error, remaining, todo, task, accepted, consumer, profileBuffer>>

PollEnd ==
    /\ consumer = "polling" /\ ~error /\ buffered = None /\ remaining = 0
    /\ consumer' = "ended"
    /\ UNCHANGED <<inner, runnable, todo, task, accepted, received, profileBuffer>>

PollPending ==
    /\ consumer = "polling" /\ ~error /\ buffered = None /\ remaining > 0
    /\ pullWaker' = TRUE
    /\ consumer' = "waiting"
    /\ UNCHANGED <<buffered, pushWakers, error, remaining, runnable, todo, task, accepted,
                   received, profileBuffer>>

(* generate_final_execution_profile, called by collect() at the end.       *)
TakeProfiles ==
    /\ consumer = "ended"
    /\ consumer' = "profiled"
    /\ taken' = taskProfiles
    /\ taskProfiles' = {}
    /\ consumed' = TRUE
    /\ UNCHANGED <<inner, runnable, todo, task, accepted, received>>

-----------------------------------------------------------------------------
Work(p) ==
    PushEmpty(p) \/ Push(p) \/ PushPending(p) \/ FinalizePush(p) \/ PutProfile(p)
Poll == PollError \/ PollBatch \/ PollEnd \/ PollPending \/ TakeProfiles

StreamNext == Poll \/ \E p \in Partitions : Work(p) \/ SetError(p)

StreamSpec == StreamInit /\ [][StreamNext]_streamVars

(* Runnable pipelines are polled (TaskScheduler), and so is collect().     *)
StreamFairSpec ==
    StreamSpec /\ WF_streamVars(Poll) /\ \A p \in Partitions : WF_streamVars(Work(p))
-----------------------------------------------------------------------------
(* A batch put in the slot is returned exactly once: the slot is never     *)
(* overwritten, whoever pushes while the pull side is away.                *)
BatchesConserved ==
    \A p \in Partitions :
        accepted[p] = received[p] + (IF buffered = p THEN 1 ELSE 0)

(* The stream ends only when every partition has pushed and finalized, and *)
(* all that was pushed has been returned; a failed query never ends as a   *)
(* complete one.                                                           *)
EndIsComplete ==
    consumer \in {"ended", "profiled"} => \A p \in Partitions :
        /\ task[p] \in {"finalized", "completed"}
        /\ todo[p] = 0
        /\ accepted[p] = received[p]

(* Nobody sleeps without a cause: a parked partition has its waker stored  *)
(* while the slot is taken, a waiting collect() has its waker stored while *)
(* there is nothing to return.                                             *)
NoStrandedWaiter ==
    /\ \A p \in Partitions \ runnable : p \in pushWakers /\ buffered # None
    /\ consumer = "waiting" =>
          pullWaker /\ buffered = None /\ ~error /\ remaining > 0

(* The result stream (results/streaming.rs) returns a batch exactly once,  *)
(* ends only when every partition has pushed all it has, and lets nobody   *)
(* wait for what has already happened.                                     *)
StreamDelivers == BatchesConserved /\ EndIsComplete /\ NoStrandedWaiter
=============================================================================
