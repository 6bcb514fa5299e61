--------------------------- MODULE ExecutionProofs ---------------------------
(***************************************************************************)
(* The safety of execution, for every number of tasks, threads, partitions *)
(* and operators: the native scheduler (TaskScheduler), the stream that    *)
(* hands the results to the client (ResultStream) and the instruction      *)
(* stack that drives one pipeline (ExecutionStack).                        *)
(***************************************************************************)
EXTENDS TaskScheduler, ExecutionStack, ResultStream, FiniteSetTheorems, SequenceTheorems, TLAPS

(* A thread has a task exactly while it is not idle.                       *)
WorkerInv == \A w \in Workers : stage[w] = "idle" <=> job[w] = NoTask

(* How the flags, the jobs and the profiles of one task hang together: a   *)
(* job exists exactly while `running` and not `completed`, and the profile *)
(* count tells whether a poll returned Ok.                                 *)
JobInv(t) ==
    /\ queued[t] > 0 => t \in running \ completed /\ profiles[t] = 0
    /\ \A w \in Workers : job[w] = t =>
          /\ t \in running \ completed
          /\ profiles[t] = IF stage[w] = "ok" THEN 1 ELSE 0
    /\ t \in running \ completed =>
          queued[t] = 1 \/ \E w \in Workers : job[w] = t
    /\ t \in completed => profiles[t] = 1 /\ t \notin pending
    /\ (t \notin completed /\ \A w \in Workers : job[w] # t) => profiles[t] = 0

(* The inductive invariant.                                                *)
IInv ==
    /\ TypeOK
    /\ WorkerInv
    /\ AtMostOneJob
    /\ NoLostWake
    /\ \A t \in Tasks : JobInv(t)

-----------------------------------------------------------------------------
USE DEF Refuses, SpawnsJob, HasJob, PollsAgain

LEMMA InitIInv == Init => IInv
<1> SUFFICES ASSUME Init PROVE IInv
  OBVIOUS
<1> USE TaskAssumption DEF Init
<1>1. TypeOK
  <2>1. errors \in BOOLEAN
    BY Zenon
  <2> QED
    BY <2>1 DEF TypeOK, PollResult
<1>2. WorkerInv /\ AtMostOneJob /\ NoLostWake
  BY DEF WorkerInv, AtMostOneJob, NoLostWake
<1>3. \A t \in Tasks : JobInv(t)
  <2> SUFFICES ASSUME NEW t \in Tasks PROVE JobInv(t)
    BY Zenon
  <2>1. queued[t] = 0 /\ profiles[t] = 0 /\ \A w \in Workers : job[w] # t
    OBVIOUS
  <2> QED
    BY <2>1 DEF JobInv
<1> QED
  BY <1>1, <1>2, <1>3 DEF IInv

(* schedule() preserves the invariant, whoever calls it.                   *)
LEMMA ScheduleIInv ==
    ASSUME IInv, NEW t \in Tasks, schedule(t),
           UNCHANGED <<job, stage, profiles>>,
           cancelling' \in [Tasks -> {"no", "flagged", "done"}],
           phase' \in [Tasks -> {"new", "spawned", "polled"}],
           wakes' \in 0..MaxWakes
    PROVE  IInv'
<1> USE TaskAssumption DEF IInv
<1>1. TypeOK'
  <2>1. errors' \in BOOLEAN
    BY Zenon, ZenonT(20) DEF TypeOK, schedule
  <2>2. queued' \in [Tasks -> Nat]
    BY DEF TypeOK, schedule
  <2>3. running' \subseteq Tasks /\ pending' \subseteq Tasks
    BY DEF TypeOK, schedule, flags
  <2>4. completed' \subseteq Tasks /\ canceled' \subseteq Tasks
    BY DEF TypeOK, schedule, flags
  <2> QED
    BY <2>1, <2>2, <2>3, <2>4 DEF TypeOK
<1>2. WorkerInv' /\ NoLostWake'
  <2>1. WorkerInv'
    BY DEF WorkerInv
  <2>2. ASSUME NEW u \in pending'
        PROVE  u \in running' /\ (queued'[u] = 1 \/ \E w \in Workers : job'[w] = u)
    <3>1. CASE u \in pending
      BY <2>2, <3>1 DEF TypeOK, schedule, flags, NoLostWake
    <3>2. CASE u \notin pending
      BY <2>2, <3>2 DEF TypeOK, schedule, flags, JobInv
    <3> QED
      BY <3>1, <3>2
  <2> QED
    BY <2>1, <2>2 DEF NoLostWake
<1>3. AtMostOneJob'
  BY DEF TypeOK, schedule, flags, AtMostOneJob, JobInv
<1>4. ASSUME NEW u \in Tasks PROVE JobInv(u)'
  BY <1>4 DEF TypeOK, schedule, flags, AtMostOneJob, JobInv
<1> QED
  BY <1>1, <1>2, <1>3, <1>4

(* The job of a task preserves the invariant.                              *)
LEMMA BeginPollIInv ==
    ASSUME IInv, NEW w \in Workers, NEW t \in Tasks, BeginPoll(w, t)
    PROVE  IInv'
<1> USE TaskAssumption DEF IInv, BeginPoll, flags
<1>1. TypeOK'
  BY DEF TypeOK, AtMostOneJob
<1>2. WorkerInv' /\ AtMostOneJob' /\ NoLostWake'
  <2>1. WorkerInv'
    BY DEF TypeOK, WorkerInv
  <2>2. AtMostOneJob'
    BY DEF TypeOK, WorkerInv, AtMostOneJob
  <2>3. NoLostWake'
    BY DEF TypeOK, WorkerInv, NoLostWake, JobInv
  <2> QED
    BY <2>1, <2>2, <2>3
<1>3. ASSUME NEW u \in Tasks PROVE JobInv(u)'
  BY <1>3 DEF TypeOK, WorkerInv, AtMostOneJob, JobInv
<1> QED
  BY <1>1, <1>2, <1>3

LEMMA EndPollIInv ==
    ASSUME IInv, NEW w \in Workers, NEW r \in PollResult, EndPoll(w, r)
    PROVE  IInv'
<1> USE TaskAssumption DEF IInv, EndPoll, flags, PollResult
<1>1. job[w] \in Tasks
  BY DEF TypeOK, WorkerInv
<1>2. TypeOK'
  BY <1>1 DEF TypeOK
<1>3. WorkerInv' /\ AtMostOneJob' /\ NoLostWake'
  BY DEF TypeOK, WorkerInv, AtMostOneJob, NoLostWake
<1>4. ASSUME NEW u \in Tasks PROVE JobInv(u)'
  BY <1>1, <1>4 DEF TypeOK, WorkerInv, AtMostOneJob, JobInv
<1> QED
  BY <1>2, <1>3, <1>4

LEMMA SettleIInv ==
    ASSUME IInv, NEW w \in Workers, Settle(w)
    PROVE  IInv'
<1> USE TaskAssumption DEF IInv, Settle, SetCompleted, EndJob, PollResult
<1>1. job[w] \in Tasks
  BY DEF TypeOK, WorkerInv
<1>2. TypeOK'
  BY <1>1 DEF TypeOK
<1>3. WorkerInv' /\ AtMostOneJob' /\ NoLostWake'
  <2>1. WorkerInv'
    BY <1>1 DEF TypeOK, WorkerInv
  <2>2. AtMostOneJob'
    BY <1>1 DEF TypeOK, AtMostOneJob
  <2>3. NoLostWake'
    BY <1>1 DEF TypeOK, NoLostWake, AtMostOneJob
  <2> QED
    BY <2>1, <2>2, <2>3
<1>4. ASSUME NEW u \in Tasks PROVE JobInv(u)'
  BY <1>1, <1>4 DEF TypeOK, WorkerInv, AtMostOneJob, JobInv
<1> QED
  BY <1>2, <1>3, <1>4

LEMMA NextIInv == IInv /\ [Next]_vars => IInv'
<1> SUFFICES ASSUME IInv, [Next]_vars PROVE IInv'
  OBVIOUS
<1>1. ASSUME NEW t \in Tasks, Spawn(t) \/ Wake(t) \/ CancelSchedule(t) PROVE IInv'
  <2>1. schedule(t) /\ UNCHANGED <<job, stage, profiles>>
    BY <1>1 DEF Spawn, Wake, CancelSchedule
  <2>2. /\ cancelling' \in [Tasks -> {"no", "flagged", "done"}]
        /\ phase' \in [Tasks -> {"new", "spawned", "polled"}]
        /\ wakes' \in 0..MaxWakes
    BY <1>1, TaskAssumption DEF IInv, TypeOK, Spawn, Wake, CancelSchedule
  <2> QED
    BY <2>1, <2>2, ScheduleIInv
<1>2. ASSUME NEW t \in Tasks, Cancel(t) PROVE IInv'
  BY <1>2 DEF IInv, TypeOK, WorkerInv, AtMostOneJob, NoLostWake, JobInv, Cancel
<1>3. CASE UNCHANGED vars
  BY <1>3 DEF IInv, TypeOK, WorkerInv, AtMostOneJob, NoLostWake, JobInv, vars, flags
<1> QED
  BY <1>1, <1>2, <1>3, BeginPollIInv, EndPollIInv, SettleIInv DEF Next
-----------------------------------------------------------------------------
(* The state of the scheduler is well typed in every behaviour.            *)
THEOREM TypeCorrect == Spec => []TypeOK
<1>1. IInv => TypeOK
  BY DEF IInv
<1> QED
  BY <1>1, InitIInv, NextIInv, PTL DEF Spec

(* No interleaving of wakes, jobs and cancellation gives a pipeline two    *)
(* jobs (task.rs, schedule).                                               *)
THEOREM OneJob == Spec => []AtMostOneJob
<1>1. IInv => AtMostOneJob
  BY DEF IInv
<1> QED
  BY <1>1, InitIInv, NextIInv, PTL DEF Spec

(* No accepted wake is forgotten (task.rs, the job loop).                  *)
THEOREM WakesAreKept == Spec => []NoLostWake
<1>1. IInv => NoLostWake
  BY DEF IInv
<1> QED
  BY <1>1, InitIInv, NextIInv, PTL DEF Spec

(* A pipeline that returned Ok is never polled again (task.rs, execute).   *)
THEOREM OkIsLast == Spec => []NeverExecuteAgain
<1>1. IInv => NeverExecuteAgain
  <2> SUFFICES ASSUME IInv, NEW t \in Tasks
               PROVE  /\ profiles[t] <= 1
                      /\ queued[t] > 0 => profiles[t] = 0
                      /\ \A w \in Workers : (job[w] = t /\ stage[w] = "executing")
                            => profiles[t] = 0
    BY Zenon DEF NeverExecuteAgain
  <2>1. JobInv(t)
    BY DEF IInv
  <2> QED
    BY <2>1 DEF JobInv
<1> QED
  BY <1>1, InitIInv, NextIInv, PTL DEF Spec

(* cancel() is always answered (handle.rs, cancel; task.rs, schedule).     *)
THEOREM CancelIsReported == Spec => []CancelReported
<1> DEFINE CancelInv ==
      /\ CancelReported
      /\ \A t \in Tasks : cancelling[t] = "flagged" => t \in canceled
<1>1. Init => CancelInv
  BY DEF Init, CancelReported
<1>2. IInv /\ CancelInv /\ [Next]_vars => CancelInv'
  <2> SUFFICES ASSUME IInv, CancelInv, [Next]_vars PROVE CancelInv'
    BY SMTT(40)
  <2>1. ASSUME NEW t \in Tasks, Spawn(t) \/ Wake(t) PROVE CancelInv'
    BY <2>1 DEF IInv, TypeOK, CancelReported, Spawn, Wake, schedule, flags
  <2>2. ASSUME NEW t \in Tasks, CancelSchedule(t) PROVE CancelInv'
    BY <2>2 DEF IInv, TypeOK, CancelReported, CancelSchedule, schedule, flags
  <2>3. ASSUME NEW t \in Tasks, Cancel(t) PROVE CancelInv'
    BY <2>3 DEF IInv, TypeOK, CancelReported, Cancel
  <2>4. ASSUME NEW w \in Workers, NEW t \in Tasks, BeginPoll(w, t) PROVE CancelInv'
    BY <2>4 DEF CancelReported, BeginPoll, flags
  <2>5. ASSUME NEW w \in Workers, NEW r \in PollResult, EndPoll(w, r) PROVE CancelInv'
    BY Zenon, <2>5 DEF CancelReported, EndPoll, flags
  <2>6. ASSUME NEW w \in Workers, Settle(w) PROVE CancelInv'
    <3>1. completed \subseteq completed'
      BY <2>6 DEF IInv, TypeOK, WorkerInv, JobInv, Settle, SetCompleted, PollResult
    <3> QED
      BY <2>6, <3>1 DEF CancelReported, Settle
  <2>7. CASE UNCHANGED vars
    BY <2>7 DEF CancelReported, vars, flags
  <2> QED
    BY <2>1, <2>2, <2>3, <2>4, <2>5, <2>6, <2>7 DEF Next
<1>3. CancelInv => CancelReported
  OBVIOUS
<1> QED
  BY <1>1, <1>2, <1>3, InitIInv, NextIInv, PTL DEF Spec
-----------------------------------------------------------------------------
(* One step of the scheduler is one step of the contract, or invisible.    *)
LEMMA ScheduleIsWake ==
    ASSUME IInv, NEW t \in Tasks, schedule(t), UNCHANGED <<job, stage>>
    PROVE  [Contract!Next]_(Contract!vars)
<1> USE DEF Finished, Polling, Notified
<1>1. CASE t \in Finished \/ t \in canceled
  <2>1. UNCHANGED <<Polling, Finished, canceled>>
    BY Zenon DEF schedule, flags
  <2>2. CASE t \in completed \cup canceled
    <3>1. UNCHANGED <<queued, pending>>
      BY Zenon, <2>2 DEF schedule, flags
    <3> QED
      BY Zenon, <2>1, <3>1 DEF Contract!vars
  <2>3. CASE t \notin completed \cup canceled
    <3>1. t \in Finished /\ t \in running
      BY Zenon, <1>1, <2>3 DEF IInv, JobInv
    <3>2. UNCHANGED queued /\ pending' \in {pending, pending \cup {t}}
      BY Zenon, <2>3, <3>1 DEF schedule, flags
    <3>3. Notified' = Notified
      <4>1. \A s \in Tasks \ Finished : s \in pending' <=> s \in pending
        BY Zenon, <3>1, <3>2
      <4> QED
        BY Zenon, <2>1, <3>2, <4>1
    <3> QED
      BY Zenon, <2>1, <3>3 DEF Contract!vars
  <2> QED
    BY Zenon, <2>2, <2>3
<1>2. CASE t \notin Finished \cup canceled
  <2>1. Notified' = Notified \cup {t}
    BY SMTT(40), <1>2 DEF IInv, TypeOK, schedule, flags
  <2>2. UNCHANGED <<Polling, Finished, canceled>>
    BY DEF schedule, flags
  <2> QED
    BY SMTT(40), <1>2, <2>1, <2>2 DEF Contract!Next, Contract!Wake
<1> QED
  BY <1>1, <1>2

(* The scheduler implements the waker contract (task.rs, TaskState).       *)
THEOREM Refinement == Spec => KeepsWakeContract
<1>1. Init => Contract!Init
  BY SMTT(40), TaskAssumption
  DEF Init, Contract!Init, Finished, Polling, Notified
<1>2. IInv /\ [Next]_vars => [Contract!Next]_(Contract!vars)
  <2> SUFFICES ASSUME IInv, [Next]_vars PROVE [Contract!Next]_(Contract!vars)
    OBVIOUS
  <2>1. ASSUME NEW t \in Tasks, Spawn(t) \/ Wake(t) \/ CancelSchedule(t)
        PROVE  [Contract!Next]_(Contract!vars)
    BY <2>1, ScheduleIsWake DEF Spawn, Wake, CancelSchedule
  <2>2. ASSUME NEW t \in Tasks, Cancel(t) PROVE Contract!Cancel(t)
    BY <2>2 DEF Cancel, Contract!Cancel, Finished, Polling, Notified
  <2>3. ASSUME NEW w \in Workers, NEW t \in Tasks, BeginPoll(w, t)
        PROVE  Contract!Begin(t)
    <3>1. t \in Notified \ (Polling \cup Finished)
      BY <2>3 DEF IInv, TypeOK, AtMostOneJob, JobInv, BeginPoll, Finished, Polling, Notified
    <3>2. Polling' = Polling \cup {t}
      BY <2>3, TaskAssumption DEF IInv, TypeOK, BeginPoll, Polling
    <3>3. Finished' = Finished
      BY <2>3, TaskAssumption DEF IInv, TypeOK, WorkerInv, BeginPoll, Finished, flags
    <3>4. Notified' \in {Notified, Notified \ {t}}
      <4>1. /\ pending' = pending /\ ~(queued'[t] > 0)
            /\ \A s \in Tasks \ {t} : queued'[s] = queued[s]
        BY SMTT(40), <2>3 DEF IInv, TypeOK, AtMostOneJob, BeginPoll, flags
      <4>2. \A s \in Tasks \ {t} : s \in Notified' <=> s \in Notified
        BY Zenon, <3>3, <4>1 DEF Notified
      <4>3. t \in Notified /\ Notified \subseteq Tasks /\ Notified' \subseteq Tasks
        BY Zenon, <3>1 DEF Notified
      <4>4. CASE t \in Notified'
        <5>1. Notified' = Notified
          BY SMTT(40), <4>2, <4>3, <4>4
        <5> QED
          BY Zenon, <5>1
      <4>5. CASE t \notin Notified'
        <5>1. Notified' = Notified \ {t}
          BY Zenon, <4>2, <4>3, <4>5
        <5> QED
          BY Zenon, <5>1
      <4> QED
        BY Zenon, <4>4, <4>5
    <3> QED
      BY ZenonT(40), <2>3, <3>1, <3>2, <3>3, <3>4 DEF Contract!Begin, BeginPoll, flags
  <2>4. ASSUME NEW w \in Workers, NEW r \in PollResult, EndPoll(w, r)
        PROVE  Contract!Return(job[w]) \/ Contract!Finish(job[w])
    <3>1. job[w] \in Tasks /\ job[w] \in Polling
      BY <2>4 DEF IInv, TypeOK, WorkerInv, EndPoll, Polling
    <3>2. Polling' = Polling \ {job[w]}
      BY SMTT(40), <2>4, <3>1 DEF IInv, TypeOK, AtMostOneJob, EndPoll, Polling, PollResult
    <3>3. Finished' = IF r = "ok" THEN Finished \cup {job[w]} ELSE Finished
      BY <2>4, <3>1 DEF IInv, TypeOK, AtMostOneJob, EndPoll, Finished, PollResult, flags
    <3>4. Notified' = IF r = "ok" THEN Notified \ {job[w]} ELSE Notified
      BY SMTT(40), <2>4, <3>3 DEF IInv, TypeOK, EndPoll, Notified, flags
    <3> QED
      BY SMTT(40), <2>4, <3>1, <3>2, <3>3, <3>4
      DEF Contract!Return, Contract!Finish, EndPoll, flags
  <2>5. ASSUME NEW w \in Workers, Settle(w)
        PROVE  Contract!Begin(job[w]) \/ UNCHANGED <<Notified, Polling, Finished, canceled>>
    <3>1. job[w] \in Tasks
      BY <2>5 DEF IInv, TypeOK, WorkerInv, Settle, PollResult
    <3>2. /\ stage[w] \in PollResult /\ stage[w] # "executing" /\ queued[job[w]] = 0
          /\ \A v \in Workers \ {w} : job[v] # job[w]
          /\ job[w] \notin completed /\ NoTask \notin Tasks
      BY <2>5, <3>1, TaskAssumption
         DEF IInv, AtMostOneJob, JobInv, Settle, PollResult
    <3>3. /\ \A v \in Workers \ {w} : job'[v] = job[v] /\ stage'[v] = stage[v]
          /\ stage'[w] # "ok"
      BY <2>5 DEF IInv, TypeOK, Settle, EndJob, PollResult
    <3>4. Finished' = Finished
      <4>1. \A v \in Workers : v = w \/ (job'[v] = job[v] /\ stage'[v] = stage[v])
        BY Zenon, <3>3
      <4>2. CASE stage[w] = "ok"
        <5>1. completed' = completed \cup {job[w]}
          BY Zenon, <2>5, <4>2 DEF Settle, SetCompleted
        <5> QED
          BY Zenon, <3>1, <3>2, <3>3, <4>1, <4>2, <5>1 DEF Finished
      <4>3. CASE stage[w] # "ok"
        <5>1. completed' = completed
          BY Zenon, <2>5, <3>2, <4>3 DEF Settle, SetCompleted
        <5> QED
          BY Zenon, <3>3, <4>1, <4>3, <5>1 DEF Finished
      <4> QED
        BY Zenon, <4>2, <4>3
    <3>5. CASE job[w] \in pending /\ stage[w] # "ok"
      <4>1. job[w] \in Notified \ (Polling \cup Finished)
        BY Zenon, <3>2, <3>1, <3>5 DEF Finished, Polling, Notified
      <4>2. Polling' = Polling \cup {job[w]}
        <5>1. job' = job /\ stage'[w] = "executing"
          BY <2>5, <3>5 DEF IInv, TypeOK, Settle
        <5> QED
          BY Zenon, <3>2, <3>1, <3>3, <5>1 DEF Polling
      <4>3. Notified' = Notified \ {job[w]}
        <5>1. pending' = pending \ {job[w]} /\ queued' = queued /\ ~(queued[job[w]] > 0)
          BY <2>5, <3>2 DEF Settle
        <5> QED
          BY Zenon, <3>4, <5>1 DEF Notified
      <4> QED
        BY Zenon, <2>5, <3>4, <4>1, <4>2, <4>3 DEF Contract!Begin, Settle
    <3>6. CASE job[w] \notin pending \/ stage[w] = "ok"
      <4>1. Polling' = Polling
        <5>1. job'[w] = NoTask
          BY Zenon, <2>5, <3>6 DEF IInv, TypeOK, Settle, EndJob
        <5> QED
          BY Zenon, <3>2, <3>1, <3>3, <5>1 DEF Polling
      <4>2. Notified' = Notified
        <5>1. /\ pending' = pending \ {job[w]} /\ queued' = queued
              /\ stage[w] = "ok" => job[w] \in Finished
          BY Zenon, <2>5, <3>1 DEF Settle, Finished
        <5> QED
          BY Zenon, <3>4, <3>6, <5>1 DEF Notified
      <4> QED
        BY Zenon, <2>5, <3>4, <4>1, <4>2 DEF Settle
    <3> QED
      BY <3>5, <3>6
  <2>6. CASE UNCHANGED vars
    BY <2>6 DEF vars, flags, Contract!vars, Finished, Polling, Notified
  <2>7. \A w \in Workers : stage[w] # "idle" => job[w] \in Tasks
    BY DEF IInv, TypeOK, WorkerInv
  <2> QED
    BY SMTT(40), <2>1, <2>2, <2>3, <2>4, <2>5, <2>6, <2>7
    DEF Next, EndPoll, Settle, PollResult, Contract!Next, Contract!vars
<1> QED
  BY <1>1, <1>2, InitIInv, NextIInv, PTL DEF Spec, KeepsWakeContract, Contract!Spec

-----------------------------------------------------------------------------
(***************************************************************************)
(* The result stream, for any partitions.  remaining_inputs counts the     *)
(* partitions that have not finalized, a finalized partition has nothing   *)
(* left to push, and the stream has ended only with the slot empty and     *)
(* everybody finalized.                                                    *)
(***************************************************************************)
Unfinished == {p \in Partitions : task[p] \in {"pushing", "failed"}}
HasEnded == consumer \in {"ended", "profiled"}

StreamInv ==
    /\ StreamTypeOK
    /\ remaining = Cardinality(Unfinished)
    /\ \A p \in Partitions : p \in Unfinished \/ todo[p] = 0
    /\ HasEnded => buffered = None /\ remaining = 0
    /\ BatchesConserved /\ NoStrandedWaiter

(* The arithmetic of the counters.                                         *)
LEMMA OneLess ==
    \A n \in Nat : n + 0 = n /\ n + 1 = (n + 1) + 0 /\ (n > 0 => n - 1 \in Nat)
  OBVIOUS

(* remaining_inputs is zero only when every partition has finalized.       *)
LEMMA CountUnfinished ==
    /\ IsFiniteSet(Unfinished)
    /\ Cardinality(Unfinished) \in Nat
    /\ Cardinality(Unfinished) = 0 <=> Unfinished = {}
<1>1. IsFiniteSet(Unfinished)
  BY StreamAssumption, FS_Subset DEF Unfinished
<1> QED
  BY <1>1, FS_CardinalityType, FS_EmptySet

LEMMA StreamInitInv == StreamInit => StreamInv
<1> SUFFICES ASSUME StreamInit PROVE StreamInv
  OBVIOUS
<1>1. Unfinished = Partitions /\ remaining \in Nat
  BY StreamAssumption, FS_CardinalityType DEF StreamInit, Unfinished
<1>2. StreamTypeOK
  BY Zenon, <1>1, StreamAssumption DEF StreamInit, StreamTypeOK
<1>3. BatchesConserved /\ NoStrandedWaiter
  BY StreamAssumption DEF StreamInit, BatchesConserved, NoStrandedWaiter
<1> QED
  BY <1>1, <1>2, <1>3 DEF StreamInit, StreamInv, HasEnded

(* A step that no partition finalizes or fails with.                       *)
LEMMA SameUnfinished ==
    ASSUME StreamInv, UNCHANGED <<task, remaining>>
    PROVE  Unfinished' = Unfinished /\ remaining' = Cardinality(Unfinished')
  BY DEF StreamInv, Unfinished

(* A partition that runs keeps the stream from ending.                     *)
LEMMA RunsBeforeEnd ==
    ASSUME StreamInv, NEW p \in Partitions, task[p] \in {"pushing", "failed"}
    PROVE  p \in Unfinished /\ remaining > 0 /\ ~HasEnded
<1>1. p \in Unfinished
  BY DEF Unfinished
<1> QED
  BY <1>1, CountUnfinished DEF StreamInv

(* What WakePull does to collect(), and that it lets nobody sleep on.      *)
LEMMA Awake ==
    ASSUME StreamInv, WakePull
    PROVE  /\ pullWaker' = FALSE /\ consumer' # "waiting"
           /\ consumer' \in {"polling", "waiting", "ended", "failed", "profiled"}
           /\ HasEnded' <=> HasEnded
  BY ZenonT(40) DEF StreamInv, StreamTypeOK, NoStrandedWaiter, WakePull, HasEnded

LEMMA PushesInv ==
    ASSUME StreamInv, NEW p \in Partitions, PushEmpty(p) \/ Push(p) \/ PushPending(p)
    PROVE  StreamInv'
<1> USE DEF StreamInv
<1>1. /\ p \in runnable /\ task[p] = "pushing" /\ todo[p] > 0 /\ todo[p] \in 0 .. MaxBatches
      /\ UNCHANGED <<task, remaining, error, received, taskProfiles, consumed, taken>>
  BY ZenonT(40) DEF PushEmpty, Push, PushPending, Runs, inner, profileBuffer, StreamTypeOK
<1>2. p \in Unfinished /\ remaining > 0 /\ ~HasEnded
  BY ZenonT(40), <1>1, RunsBeforeEnd
<1>3. Unfinished' = Unfinished /\ remaining' = Cardinality(Unfinished')
  BY SMTT(40), <1>1, SameUnfinished
<1>4. todo[p] - 1 \in 0 .. MaxBatches
  BY SMTT(40), <1>1, StreamAssumption
<1>5. CASE PushEmpty(p)
  <2>1. /\ todo' = [todo EXCEPT ![p] = @ - 1]
        /\ UNCHANGED <<buffered, pullWaker, pushWakers, runnable, accepted, consumer>>
    BY ZenonT(40), <1>5 DEF PushEmpty, inner
  <2>2. StreamTypeOK'
    BY ZenonT(40), <1>1, <1>4, <2>1 DEF StreamTypeOK
  <2>3. BatchesConserved' /\ NoStrandedWaiter'
    BY SMTT(40), <1>1, <2>1 DEF BatchesConserved, NoStrandedWaiter
  <2> QED
    BY ZenonT(40), <1>1, <1>2, <1>3, <2>1, <2>2, <2>3 DEF HasEnded, StreamTypeOK
<1>6. CASE Push(p)
  <2>1. /\ buffered = None /\ buffered' = p
        /\ accepted' = [accepted EXCEPT ![p] = @ + 1] /\ todo' = [todo EXCEPT ![p] = @ - 1]
        /\ WakePull /\ UNCHANGED <<pushWakers, runnable>>
    BY <1>6 DEF Push, SlotFree
  <2>2. StreamTypeOK'
    <3>1. accepted' \in [Partitions -> Nat] /\ todo' \in [Partitions -> 0 .. MaxBatches]
      BY <1>4, <2>1 DEF StreamTypeOK
    <3>2. /\ pullWaker' \in BOOLEAN
          /\ consumer' \in {"polling", "waiting", "ended", "failed", "profiled"}
      BY Zenon, <2>1, Awake
    <3> QED
      BY ZenonT(40), <1>1, <2>1, <3>1, <3>2 DEF StreamTypeOK
  <2>3. BatchesConserved'
    <3>1. ASSUME NEW q \in Partitions
          PROVE  accepted'[q] = received'[q] + (IF buffered' = q THEN 1 ELSE 0)
      <4>1. accepted[q] \in Nat /\ received[q] \in Nat /\ accepted[q] = received[q]
        BY <2>1, StreamAssumption DEF StreamTypeOK, BatchesConserved
      <4>2. accepted'[q] = IF q = p THEN accepted[q] + 1 ELSE accepted[q]
        BY <2>1 DEF StreamTypeOK
      <4>3. CASE q = p
        BY Zenon, <1>1, <2>1, <4>1, <4>2, <4>3
      <4>4. CASE q # p
        BY Zenon, <1>1, <2>1, <4>1, <4>2, <4>4, OneLess
      <4> QED
        BY Zenon, <4>3, <4>4
    <3> QED
      BY ZenonT(40), <3>1 DEF BatchesConserved
  <2>4. NoStrandedWaiter'
    BY Zenon, <2>1, Awake DEF NoStrandedWaiter
  <2> QED
    BY Zenon, <1>1, <1>2, <1>3, <2>1, <2>2, <2>3, <2>4, Awake DEF StreamTypeOK
<1>7. CASE PushPending(p)
  <2>1. /\ buffered # None /\ pushWakers' = pushWakers \cup {p} /\ runnable' = runnable \ {p}
        /\ WakePull /\ UNCHANGED <<buffered, accepted, todo>>
    BY <1>7 DEF PushPending, SlotFree
  <2>2. StreamTypeOK'
    BY Zenon, <1>1, <2>1, Awake DEF StreamTypeOK
  <2>3. BatchesConserved' /\ NoStrandedWaiter'
    BY Zenon, <1>1, <2>1, Awake DEF BatchesConserved, NoStrandedWaiter
  <2> QED
    BY Zenon, <1>1, <1>2, <1>3, <2>1, <2>2, <2>3, Awake
<1> QED
  BY ZenonT(40), <1>5, <1>6, <1>7

LEMMA FinalizePushInv ==
    ASSUME StreamInv, NEW p \in Partitions, FinalizePush(p)
    PROVE  StreamInv'
<1> USE DEF StreamInv
<1>1. /\ task[p] = "pushing" /\ todo[p] = 0 /\ p \in runnable
      /\ task' = [task EXCEPT ![p] = "finalized"] /\ remaining' = remaining - 1 /\ WakePull
      /\ UNCHANGED <<buffered, pushWakers, error, runnable, todo, accepted, received,
                     taskProfiles, consumed, taken>>
  BY DEF FinalizePush, MayFinalize, Runs, profileBuffer
<1>2. p \in Unfinished /\ remaining > 0 /\ ~HasEnded
  BY <1>1, RunsBeforeEnd
<1>3. Unfinished' = Unfinished \ {p}
  BY ZenonT(40), <1>1 DEF Unfinished, StreamTypeOK
<1>4. remaining' = Cardinality(Unfinished') /\ remaining' \in Nat
  <2>1. Cardinality(Unfinished \ {p}) = Cardinality(Unfinished) - 1
    BY Zenon, <1>2, CountUnfinished, FS_RemoveElement
  <2>2. remaining \in Nat /\ remaining > 0 /\ remaining = Cardinality(Unfinished)
    BY ZenonT(40), <1>2 DEF StreamTypeOK
  <2> QED
    BY Zenon, <1>1, <1>3, <2>1, <2>2, OneLess
<1>5. StreamTypeOK'
  <2>1. task' \in [Partitions -> {"pushing", "finalized", "completed", "failed"}]
    BY <1>1 DEF StreamTypeOK
  <2>2. /\ pullWaker' \in BOOLEAN
        /\ consumer' \in {"polling", "waiting", "ended", "failed", "profiled"}
    BY Zenon, <1>1, Awake
  <2> QED
    BY ZenonT(40), <1>1, <1>4, <2>1, <2>2 DEF StreamTypeOK
<1>6. BatchesConserved' /\ NoStrandedWaiter'
  BY Zenon, <1>1, Awake DEF BatchesConserved, NoStrandedWaiter
<1> QED
  BY Zenon, <1>1, <1>2, <1>3, <1>4, <1>5, <1>6, Awake

LEMMA TaskEndsInv ==
    ASSUME StreamInv, NEW p \in Partitions, PutProfile(p) \/ SetError(p)
    PROVE  StreamInv'
<1> USE DEF StreamInv
<1>1. /\ UNCHANGED <<buffered, pushWakers, remaining, runnable, todo, accepted, received>>
      /\ UNCHANGED <<consumed, taken>>
      /\ taskProfiles' \subseteq Partitions
  BY DEF PutProfile, SetError, inner, profileBuffer, StreamTypeOK
<1>2. Unfinished' = Unfinished /\ task' \in [Partitions -> {"pushing", "finalized", "completed", "failed"}]
  BY ZenonT(40) DEF PutProfile, SetError, Runs, Unfinished, StreamTypeOK
<1>3. CASE PutProfile(p)
  <2>1. UNCHANGED <<error, pullWaker, consumer>>
    BY <1>3 DEF PutProfile, inner
  <2> QED
    BY SMTT(40), <1>1, <1>2, <2>1 DEF StreamTypeOK, BatchesConserved, NoStrandedWaiter, HasEnded
<1>4. CASE SetError(p)
  <2>1. error' = TRUE /\ WakePull
    BY <1>4 DEF SetError
  <2>2. StreamTypeOK'
    BY ZenonT(40), <1>1, <1>2, <2>1, Awake DEF StreamTypeOK
  <2>3. BatchesConserved' /\ NoStrandedWaiter'
    BY Zenon, <1>1, <2>1, Awake DEF BatchesConserved, NoStrandedWaiter
  <2> QED
    BY Zenon, <1>1, <1>2, <2>1, <2>2, <2>3, Awake
<1> QED
  BY Zenon, <1>3, <1>4

LEMMA PollInv ==
    ASSUME StreamInv, Poll
    PROVE  StreamInv'
<1> USE DEF StreamInv
<1>1. /\ UNCHANGED <<remaining, todo, task, accepted>>
      /\ Unfinished' = Unfinished /\ remaining' = Cardinality(Unfinished')
  BY DEF Poll, PollError, PollBatch, PollEnd, PollPending, TakeProfiles, inner, Unfinished
<1>2. CASE PollBatch
  <2>1. /\ consumer = "polling" /\ buffered \in Partitions /\ buffered # None /\ buffered' = None
        /\ received' = [received EXCEPT ![buffered] = @ + 1]
        /\ pushWakers' = {} /\ runnable' = runnable \cup pushWakers
        /\ UNCHANGED <<pullWaker, error, consumer, taskProfiles, consumed, taken>>
    BY ZenonT(40), <1>2 DEF PollBatch, Woken, profileBuffer, StreamTypeOK
  <2>2. StreamTypeOK'
    BY SMTT(40), <1>1, <2>1 DEF StreamTypeOK
  <2>3. BatchesConserved'
    <3>1. ASSUME NEW q \in Partitions
          PROVE  accepted'[q] = received'[q] + (IF buffered' = q THEN 1 ELSE 0)
      <4>1. accepted[q] \in Nat /\ received[q] \in Nat
            /\ accepted[q] = received[q] + (IF buffered = q THEN 1 ELSE 0)
        BY DEF StreamTypeOK, BatchesConserved
      <4>2. received'[q] = IF q = buffered THEN received[q] + 1 ELSE received[q]
        BY <2>1 DEF StreamTypeOK
      <4>3. q # None
        BY Zenon, StreamAssumption
      <4>4. CASE q = buffered
        <5>1. received'[q] = received[q] + 1 /\ accepted'[q] = received[q] + 1
          BY Zenon, <1>1, <4>1, <4>2, <4>4
        <5>2. received'[q] + 0 = received[q] + 1
          BY Zenon, <4>1, <5>1, OneLess
        <5>3. (IF buffered' = q THEN 1 ELSE 0) = 0
          BY Zenon, <2>1, <4>3
        <5> QED
          BY Zenon, <5>1, <5>2, <5>3
      <4>5. CASE q # buffered
        BY Zenon, <1>1, <2>1, <4>1, <4>2, <4>3, <4>5, OneLess
      <4> QED
        BY Zenon, <4>4, <4>5
    <3> QED
      BY ZenonT(40), <3>1 DEF BatchesConserved
  <2>4. NoStrandedWaiter'
    BY <2>1 DEF NoStrandedWaiter
  <2> QED
    BY ZenonT(40), <1>1, <2>1, <2>2, <2>3, <2>4 DEF HasEnded
<1>3. CASE ~PollBatch
  <2>1. /\ UNCHANGED <<buffered, pushWakers, runnable, received>>
        /\ error' \in BOOLEAN /\ pullWaker' \in BOOLEAN /\ consumed' \in BOOLEAN
        /\ taskProfiles' \subseteq Partitions /\ taken' \subseteq Partitions
        /\ consumer' \in {"polling", "waiting", "ended", "failed", "profiled"}
    BY Zenon, <1>3 DEF Poll, PollError, PollEnd, PollPending, TakeProfiles, inner, profileBuffer,
       StreamTypeOK
  <2>2. StreamTypeOK'
    BY <1>1, <2>1 DEF StreamTypeOK
  <2>3. BatchesConserved' /\ NoStrandedWaiter'
    BY Zenon, <1>1, <1>3, <2>1 DEF BatchesConserved, NoStrandedWaiter, Poll, PollError, PollEnd,
       PollPending, TakeProfiles
  <2>4. HasEnded' => buffered' = None /\ remaining' = 0
    BY <1>1, <1>3, <2>1 DEF HasEnded, Poll, PollError, PollEnd, PollPending, TakeProfiles
  <2> QED
    BY SMTT(40), <1>1, <2>2, <2>3, <2>4
<1> QED
  BY ZenonT(40), <1>2, <1>3

THEOREM StreamInvariance == StreamSpec => []StreamInv
<1>1. StreamInv /\ [StreamNext]_streamVars => StreamInv'
  <2> SUFFICES ASSUME StreamInv, [StreamNext]_streamVars PROVE StreamInv'
    OBVIOUS
  <2>1. CASE StreamNext
    BY ZenonT(40), <2>1, PollInv, PushesInv, FinalizePushInv, TaskEndsInv DEF StreamNext, Work
  <2>2. CASE UNCHANGED streamVars
    BY <2>2 DEF StreamInv, streamVars, inner, profileBuffer, StreamTypeOK, Unfinished, HasEnded,
       BatchesConserved, NoStrandedWaiter
  <2> QED
    BY <2>1, <2>2
<1> QED
  BY <1>1, StreamInitInv, PTL DEF StreamSpec

(* The result stream of any number of partitions returns every batch of    *)
(* the slot once (StreamingResults, ResultStream::poll_next), ends only    *)
(* when every partition has finalized and all batches are returned, and    *)
(* leaves neither a partition nor collect() asleep.                        *)
THEOREM StreamIsComplete == StreamSpec => []StreamDelivers
<1>1. StreamInv => StreamDelivers
  <2> SUFFICES ASSUME StreamInv, HasEnded, NEW p \in Partitions
               PROVE  /\ task[p] \in {"finalized", "completed"} /\ todo[p] = 0
                      /\ accepted[p] = received[p]
    BY Zenon DEF StreamInv, StreamDelivers, EndIsComplete, HasEnded
  <2>1. p \notin Unfinished
    BY CountUnfinished DEF StreamInv
  <2> QED
    BY SMTT(40), <2>1, StreamAssumption
       DEF StreamInv, StreamTypeOK, Unfinished, BatchesConserved
<1> QED
  BY <1>1, StreamInvariance, PTL

-----------------------------------------------------------------------------
(***************************************************************************)
(* The instruction stack of a pipeline of any length.  Its bottom is the   *)
(* operator to finalize next or to start from; above it are the operators  *)
(* that hold a batch for the next one, further and further down.           *)
(***************************************************************************)
(* Everything an operator below the bottom has to do is done.              *)
BottomInv ==
    LET b == stack[1]
    IN  /\ b.kind = "finalize" \/ b.start
        /\ exhausted < b.op
        /\ \A i \in finalized : i < b.op \/ (b.kind = "execute" /\ i = b.op)
        /\ \A i \in Ops \ {0} : exhausted < i /\ i < b.op => i \in finalized
        /\ b.kind = "execute" /\ b.op # 0 => b.op \in finalized

(* Exactly the operators below a waiting instruction hold a batch for it.  *)
AboveInv ==
    /\ \A k \in 2 .. Len(stack) :
          /\ stack[k].kind = "execute" /\ ~stack[k].start
          /\ stack[1].op < stack[k].op
               \/ (stack[1].kind = "finalize" /\ stack[1].op = stack[k].op)
    /\ \A j, k \in 2 .. Len(stack) : j < k => stack[j].op < stack[k].op
    /\ \A i \in Ops : i \in full <=> \E k \in 2 .. Len(stack) : stack[k].op = i + 1

DoneInv ==
    status = "ok" /\ full = {} /\ \A i \in Ops \ {0} : i > exhausted => i \in finalized

StackInv ==
    /\ StackTypeOK
    /\ \A k \in 1 .. Len(stack) :
          stack[k].kind = "finalize" => ~stack[k].start /\ stack[k].op # 0
    /\ status = "err" => failed
    /\ ~failed =>
          /\ stack = <<>> => DoneInv
          /\ stack # <<>> => status # "ok" /\ BottomInv /\ AboveInv

-----------------------------------------------------------------------------
(* A sequence without its last element.                                    *)
LEMMA WithoutLast ==
    ASSUME NEW S, NEW s \in Seq(S), s # <<>>
    PROVE  /\ Len(s) \in Nat \ {0} /\ (\A k \in 1 .. Len(s) : s[k] \in S)
           /\ SubSeq(s, 1, Len(s) - 1) \in Seq(S)
           /\ Len(SubSeq(s, 1, Len(s) - 1)) = Len(s) - 1
           /\ \A k \in 1 .. Len(s) - 1 : SubSeq(s, 1, Len(s) - 1)[k] = s[k]
<1>1. Len(s) \in Nat \ {0} /\ \A k \in 1 .. Len(s) : s[k] \in S
  BY EmptySeq, ElementOfSeq
<1>2. PICK n \in Nat : n = Len(s) - 1
  BY <1>1
<1>3. \A k \in 1 .. n : s[k] \in S
  BY <1>1, <1>2
<1>4. SubSeq(s, 1, n) \in Seq(S)
  BY <1>1, <1>2, <1>3, SubSeqProperties
<1>5. Len(SubSeq(s, 1, n)) = n
  BY SMTT(40), <1>1, <1>2, <1>3, SubSeqProperties
<1>6. \A k \in 1 .. n : SubSeq(s, 1, n)[k] = s[k]
  BY <1>1, <1>2, <1>3, SubSeqProperties
<1> QED
  BY <1>1, <1>2, <1>4, <1>5, <1>6

(* The instructions left after one is popped, and the stack after another  *)
(* is pushed in its place or on top of it.                                 *)
LEMMA TopOfStack ==
    ASSUME StackTypeOK, stack # <<>>
    PROVE  /\ Len(stack) \in Nat \ {0} /\ Top \in Instruction
           /\ \A k \in 1 .. Len(stack) : stack[k] \in Instruction
           /\ Rest \in Seq(Instruction) /\ Len(Rest) = Len(stack) - 1
           /\ \A k \in 1 .. Len(stack) - 1 : Rest[k] = stack[k]
<1>1. /\ Len(stack) \in Nat \ {0}
      /\ \A k \in 1 .. Len(stack) : stack[k] \in Instruction
      /\ Rest \in Seq(Instruction) /\ Len(Rest) = Len(stack) - 1
      /\ \A k \in 1 .. Len(stack) - 1 : Rest[k] = stack[k]
  BY WithoutLast, Zenon DEF StackTypeOK, Rest
<1>2. Len(stack) \in 1 .. Len(stack)
  BY <1>1
<1> QED
  BY <1>1, <1>2, Zenon DEF Top

LEMMA OpOfInstruction == \A x \in Instruction : x.op \in Ops
  BY DEF Instruction

LEMMA OpsAreOrdered ==
    \A i, j \in Ops : ~(i < i) /\ ~(i < j /\ (j < i \/ j = i))
  BY StackAssumption DEF Ops

LEMMA NextOperator == N \in Nat /\ \A i \in Ops : i # Sink => i + 1 \in Ops
  BY StackAssumption DEF Ops, Sink

LEMMA PushInstead ==
    ASSUME StackTypeOK, stack # <<>>, NEW x \in Instruction, NEW s, s = Rest \o <<x>>
    PROVE  /\ s \in Seq(Instruction) /\ Len(s) = Len(stack) /\ s # <<>>
           /\ \A k \in 1 .. Len(stack) - 1 : s[k] = stack[k]
           /\ s[Len(stack)] = x
<1>1. <<x>> \in Seq(Instruction) /\ Len(<<x>>) = 1 /\ <<x>>[1] = x
  OBVIOUS
<1>2. /\ s \in Seq(Instruction) /\ Len(s) = Len(Rest) + 1
      /\ \A k \in 1 .. Len(Rest) + 1 : s[k] = IF k <= Len(Rest) THEN Rest[k] ELSE <<x>>[k - Len(Rest)]
  BY <1>1, TopOfStack, ConcatProperties
<1>3. Len(stack) \in Nat \ {0} /\ Len(Rest) = Len(stack) - 1 /\ Len(stack) - Len(Rest) = 1
  BY TopOfStack
<1> QED
  BY SMTT(40), <1>1, <1>2, <1>3, TopOfStack, EmptySeq

LEMMA TwoPushes ==
    ASSUME StackTypeOK, stack # <<>>, NEW x \in Instruction
    PROVE  Rest \o <<Top>> \o <<x>> = Rest \o <<Top, x>>
<1>1. Rest \in Seq(Instruction) /\ Top \in Instruction
  BY TopOfStack
<1>2. <<Top>> \in Seq(Instruction) /\ <<x>> \in Seq(Instruction)
  BY <1>1
<1>3. <<Top>> \o <<x>> = <<Top, x>>
  <2> DEFINE w == <<Top>> \o <<x>>
  <2>1. w \in Seq(Instruction) /\ Len(w) = 2 /\ w[1] = Top /\ w[2] = x
    BY <1>1, <1>2, ConcatProperties
  <2>2. /\ <<Top, x>> \in Seq(Instruction) /\ Len(<<Top, x>>) = 2
        /\ <<Top, x>>[1] = Top /\ <<Top, x>>[2] = x
    BY <1>1
  <2>3. \A k \in 1 .. 2 : k = 1 \/ k = 2
    OBVIOUS
  <2> HIDE DEF w
  <2>4. \A k \in 1 .. Len(w) : w[k] = <<Top, x>>[k]
    BY Zenon, <2>1, <2>2, <2>3
  <2>5. w = <<Top, x>>
    BY Zenon, <2>1, <2>2, <2>4, SeqEqual
  <2> QED
    BY <2>5 DEF w
<1>4. (Rest \o <<Top>>) \o <<x>> = Rest \o (<<Top>> \o <<x>>)
  BY <1>1, <1>2, ConcatAssociative
<1> QED
  BY Zenon, <1>3, <1>4

LEMMA PushAbove ==
    ASSUME StackTypeOK, stack # <<>>, NEW x \in Instruction, NEW s, s = Rest \o <<Top, x>>
    PROVE  /\ s \in Seq(Instruction) /\ Len(s) = Len(stack) + 1 /\ s # <<>>
           /\ \A k \in 1 .. Len(stack) : s[k] = stack[k]
           /\ s[Len(stack) + 1] = x
<1>1. /\ Rest \in Seq(Instruction) /\ Top \in Instruction /\ Len(stack) \in Nat \ {0}
      /\ Len(Rest) = Len(stack) - 1 /\ \A k \in 1 .. Len(stack) - 1 : Rest[k] = stack[k]
  BY TopOfStack
<1>2. <<Top, x>> \in Seq(Instruction) /\ Len(<<Top, x>>) = 2
      /\ <<Top, x>>[1] = Top /\ <<Top, x>>[2] = x
  BY SMTT(40), <1>1
<1>3. /\ s \in Seq(Instruction) /\ Len(s) = Len(Rest) + 2
      /\ \A k \in 1 .. Len(Rest) + 2 :
            s[k] = IF k <= Len(Rest) THEN Rest[k] ELSE <<Top, x>>[k - Len(Rest)]
  BY <1>1, <1>2, ConcatProperties
<1>4. s[Len(stack)] = Top /\ s[Len(stack) + 1] = x
  <2>1. /\ Len(stack) \in 1 .. Len(Rest) + 2 /\ Len(stack) + 1 \in 1 .. Len(Rest) + 2
        /\ ~(Len(stack) <= Len(Rest)) /\ ~(Len(stack) + 1 <= Len(Rest))
        /\ Len(stack) - Len(Rest) = 1 /\ (Len(stack) + 1) - Len(Rest) = 2
    BY <1>1
  <2>2. ASSUME NEW k \in 1 .. Len(Rest) + 2, ~(k <= Len(Rest))
        PROVE  s[k] = <<Top, x>>[k - Len(Rest)]
    BY Zenon, <1>3, <2>2
  <2>3. s[Len(stack)] = Top
    BY Zenon, <1>2, <2>1, <2>2
  <2>4. s[Len(stack) + 1] = x
    BY Zenon, <1>2, <2>1, <2>2
  <2> QED
    BY Zenon, <2>3, <2>4
<1>5. Len(s) = Len(stack) + 1 /\ s # <<>>
  <2>1. \A n \in Nat \ {0} : n - 1 + 2 = n + 1 /\ n + 1 # 0
    OBVIOUS
  <2> QED
    BY Zenon, <1>1, <1>3, <2>1, EmptySeq
<1>6. \A k \in 1 .. Len(stack) : s[k] = stack[k]
  <2>1. \A n \in Nat \ {0} : \A k \in 1 .. n :
           k \in 1 .. n - 1 + 2 /\ (k = n \/ (k <= n - 1 /\ k \in 1 .. n - 1))
    OBVIOUS
  <2> QED
    BY Zenon, <1>1, <1>3, <1>4, <2>1 DEF Top
<1> QED
  BY Zenon, <1>3, <1>4, <1>5, <1>6

-----------------------------------------------------------------------------
(* What the constructors of an instruction hold.                           *)
LEMMA Fields ==
    ASSUME NEW i \in Ops, NEW b \in BOOLEAN
    PROVE  /\ Execute(i, b) \in Instruction /\ Finalize(i) \in Instruction
           /\ Execute(i, b).kind = "execute" /\ Execute(i, b).op = i /\ Execute(i, b).start = b
           /\ Finalize(i).kind = "finalize" /\ Finalize(i).op = i /\ Finalize(i).start = FALSE
  BY SMTT(40) DEF Execute, Finalize, Instruction

(* Without an error, the instruction on top belongs to the last operator   *)
(* that has anything to do: nobody waits for its batches, and the operator *)
(* before it has one for it unless the pipeline starts here.               *)
LEMMA TopIsLast ==
    ASSUME StackInv, ~failed, stack # <<>>
    PROVE  /\ Top.op \in Ops /\ stack[1].op <= Top.op
           /\ Top.kind = "finalize" \/ Top.start => Len(stack) = 1 /\ Top = stack[1] /\ full = {}
           /\ Top.kind = "execute" /\ ~Top.start =>
                 Len(stack) >= 2 /\ Top.op - 1 \in Ops /\ Top.op - 1 \in full
           /\ Top.op \notin full
           /\ \A k \in 2 .. Len(stack) - 1 : stack[k].op < Top.op
<1>1. /\ Len(stack) \in Nat \ {0} /\ Top \in Instruction
      /\ \A k \in 1 .. Len(stack) : stack[k] \in Instruction /\ stack[k].op \in Ops
      /\ Top.op \in Ops /\ Top.kind \in {"execute", "finalize"} /\ Top.start \in BOOLEAN
  BY TopOfStack DEF StackInv, Instruction
<1>2. BottomInv /\ AboveInv /\ N \in Nat
  BY ZenonT(40), StackAssumption DEF StackInv
<1>3. CASE Len(stack) = 1
  <2>1. Top = stack[1] /\ full = {}
    BY <1>1, <1>2, <1>3 DEF AboveInv, Top, StackInv, StackTypeOK
  <2> QED
    BY SMTT(40), <1>1, <1>2, <1>3, <2>1 DEF BottomInv, Ops
<1>4. CASE Len(stack) # 1
  <2>1. /\ Len(stack) \in 2 .. Len(stack)
        /\ \A k \in 2 .. Len(stack) - 1 : k \in 2 .. Len(stack) /\ k < Len(stack)
        /\ \A k \in 2 .. Len(stack) : k = Len(stack) \/ k \in 2 .. Len(stack) - 1
    <3>1. \A n \in Nat \ {0} : n # 1 =>
             /\ n \in 2 .. n
             /\ \A k \in 2 .. n - 1 : k \in 2 .. n /\ k < n
             /\ \A k \in 2 .. n : k = n \/ k \in 2 .. n - 1
      OBVIOUS
    <3> QED
      BY Zenon, <1>1, <1>4, <3>1
  <2>2. /\ Top.kind = "execute" /\ ~Top.start
        /\ stack[1].op < Top.op \/ stack[1].op = Top.op
    BY Zenon, <1>2, <2>1 DEF AboveInv, Top
  <2>3. \A k \in 2 .. Len(stack) - 1 : stack[k].op < Top.op
    BY ZenonT(40), <1>2, <2>1 DEF AboveInv, Top
  <2>4. Top.op - 1 \in Ops /\ Top.op - 1 \in full
    <3>1. stack[1].op = Top.op => stack[1].kind = "finalize" /\ stack[1].op # 0
      <4>1. stack[1].op = Top.op => stack[1].kind = "finalize"
        BY SMTT(40), <1>1, <1>2, <2>1 DEF AboveInv, Top, Ops
      <4> QED
        BY SMTT(40), <1>1, <4>1 DEF StackInv
    <3>2. Top.op - 1 \in Ops /\ Top.op = (Top.op - 1) + 1
      BY <1>1, <1>2, <2>2, <3>1 DEF Ops
    <3> QED
      BY ZenonT(40), <1>2, <2>1, <3>2 DEF AboveInv, Top
  <2>5. Top.op \notin full
    <3>1. ASSUME NEW k \in 2 .. Len(stack), stack[k].op = Top.op + 1
          PROVE  FALSE
      BY SMTT(40), <1>1, <2>1, <2>3, <3>1 DEF Top, Ops
    <3> QED
      BY ZenonT(40), <1>1, <1>2, <3>1 DEF AboveInv
  <2>6. stack[1].op <= Top.op /\ Len(stack) >= 2
    <3>1. stack[1].op \in Ops
      BY <1>1
    <3>2. Len(stack) >= 2
      <4>1. \A n \in Nat \ {0} : n # 1 => n >= 2
        OBVIOUS
      <4> QED
        BY Zenon, <1>1, <1>4, <4>1
    <3> QED
      BY SMTT(40), <1>1, <1>2, <2>2, <3>1, <3>2 DEF Ops
  <2> QED
    BY Zenon, <1>1, <1>4, <2>2, <2>3, <2>4, <2>5, <2>6
<1> QED
  BY ZenonT(40), <1>3, <1>4

(* An operator that has more runs again once the batch it wrote went down. *)
LEMMA PushAboveInv ==
    ASSUME StackInv, ~failed, stack # <<>>, Top.kind = "execute", Top.op # Sink,
           Len(stack') = Len(stack) + 1, \A k \in 1 .. Len(stack) : stack'[k] = stack[k],
           stack'[Len(stack) + 1] = Execute(Top.op + 1, FALSE),
           full' = full \cup {Top.op}, UNCHANGED <<exhausted, finalized>>
    PROVE  BottomInv' /\ AboveInv'
<1> DEFINE n == Len(stack)
<1>1. /\ n \in Nat \ {0} /\ N \in Nat /\ Top.op + 1 \in Ops /\ Top.op \in Ops
      /\ \A k \in 1 .. n : stack[k].op \in Ops
  <2>1. /\ n \in Nat \ {0} /\ Top \in Instruction
        /\ \A k \in 1 .. n : stack[k] \in Instruction
    BY Zenon, TopOfStack DEF StackInv
  <2>2. \A x \in Instruction : x.op \in Ops
    BY Zenon, OpOfInstruction
  <2>3. N \in Nat /\ \A i \in Ops : i # Sink => i + 1 \in Ops
    BY Zenon, NextOperator
  <2> QED
    BY Zenon, <2>1, <2>2, <2>3
<1>2. /\ stack'[n + 1].kind = "execute" /\ stack'[n + 1].op = Top.op + 1
      /\ ~stack'[n + 1].start
  <2>1. ASSUME NEW e, e = Execute(Top.op + 1, FALSE)
        PROVE  e.kind = "execute" /\ e.op = Top.op + 1 /\ ~e.start
    BY Zenon, <2>1 DEF Execute
  <2> QED
    BY Zenon, <2>1
<1>3. stack'[1] = stack[1] /\ BottomInv /\ AboveInv
  BY SMTT(40), <1>1 DEF StackInv
<1>4. BottomInv'
  BY <1>3 DEF BottomInv
<1>5. \A k \in 2 .. n + 1 : k = n + 1 \/ (k \in 2 .. n /\ stack'[k] = stack[k])
  BY <1>1
<1>6. \A k \in 2 .. n : stack[k].op < Top.op + 1
  <2>1. \A m \in Nat \ {0} : \A k \in 2 .. m : k \in 1 .. m /\ (k = m \/ k \in 2 .. m - 1)
    OBVIOUS
  <2>2. \A k \in 2 .. n : stack[k].op \in Ops /\ (stack[k].op = Top.op \/ stack[k].op < Top.op)
    BY Zenon, <1>1, <2>1, TopIsLast DEF Top
  <2>3. \A i \in Ops : i = Top.op \/ i < Top.op => i < Top.op + 1
    BY <1>1 DEF Ops
  <2> QED
    BY Zenon, <2>2, <2>3
<1>7. \A k \in 2 .. n + 1 :
          /\ stack'[k].kind = "execute" /\ ~stack'[k].start
          /\ stack'[1].op < stack'[k].op
               \/ (stack'[1].kind = "finalize" /\ stack'[1].op = stack'[k].op)
  <2>1. stack[1].op < Top.op + 1
    BY <1>1, TopIsLast DEF Ops
  <2> QED
    BY ZenonT(40), <1>2, <1>3, <1>5, <2>1 DEF AboveInv
<1>8. \A j, k \in 2 .. n + 1 : j < k => stack'[j].op < stack'[k].op
  <2> SUFFICES ASSUME NEW j \in 2 .. n + 1, NEW k \in 2 .. n + 1, j < k
               PROVE  stack'[j].op < stack'[k].op
    OBVIOUS
  <2>1. j \in 2 .. n /\ stack'[j] = stack[j]
    <3>1. j # n + 1
      BY <1>1
    <3> QED
      BY Zenon, <1>5, <3>1
  <2>2. CASE k = n + 1
    BY Zenon, <1>2, <1>6, <2>1, <2>2
  <2>3. CASE k \in 2 .. n /\ stack'[k] = stack[k]
    BY Zenon, <1>3, <2>1, <2>3 DEF AboveInv
  <2> QED
    BY Zenon, <1>5, <2>2, <2>3
<1>9. \A i \in Ops : i \in full' <=> \E k \in 2 .. n + 1 : stack'[k].op = i + 1
  <2>1. \A i \in Ops : Top.op + 1 = i + 1 <=> i = Top.op
    BY <1>1 DEF Ops
  <2>2. \A k \in 2 .. n : k \in 2 .. n + 1
    BY <1>1
  <2>3. n + 1 \in 2 .. n + 1
    BY SMTT(40), <1>1
  <2> SUFFICES ASSUME NEW i \in Ops
               PROVE  i \in full' <=> \E k \in 2 .. n + 1 : stack'[k].op = i + 1
    OBVIOUS
  <2>4. (\E k \in 2 .. n + 1 : stack'[k].op = i + 1)
          <=> i = Top.op \/ \E k \in 2 .. n : stack[k].op = i + 1
    <3>1. ASSUME NEW k \in 2 .. n + 1, stack'[k].op = i + 1
          PROVE  i = Top.op \/ \E l \in 2 .. n : stack[l].op = i + 1
      BY Zenon, <1>2, <1>5, <2>1, <3>1
    <3>2. ASSUME NEW l \in 2 .. n, stack[l].op = i + 1
          PROVE  \E k \in 2 .. n + 1 : stack'[k].op = i + 1
      <4>1. l \in 1 .. n
        BY <1>1
      <4> QED
        BY Zenon, <2>2, <3>2, <4>1
    <3>3. i = Top.op => \E k \in 2 .. n + 1 : stack'[k].op = i + 1
      BY Zenon, <1>2, <2>1, <2>3
    <3> QED
      BY Zenon, <3>1, <3>2, <3>3
  <2>5. i \in full <=> \E k \in 2 .. n : stack[k].op = i + 1
    BY Zenon, <1>3 DEF AboveInv
  <2> QED
    BY Zenon, <2>4, <2>5
<1> QED
  BY ZenonT(40), <1>4, <1>7, <1>8, <1>9 DEF AboveInv

(* The batches that wait for the operators below the one on top.           *)
LEMMA FullBelowTop ==
    ASSUME StackInv, ~failed, stack # <<>>, Top.kind = "execute", ~Top.start, NEW i \in Ops
    PROVE  i \in full \ {Top.op - 1} <=> \E k \in 2 .. Len(stack) - 1 : stack[k].op = i + 1
<1> DEFINE n == Len(stack)
<1>1. n \in Nat /\ n >= 2 /\ Top.op \in Ops /\ N \in Nat
  BY TopOfStack, TopIsLast, StackAssumption
<1>2. /\ \A k \in 2 .. n : k = n \/ k \in 2 .. n - 1
      /\ \A k \in 2 .. n - 1 : k \in 2 .. n
      /\ n \in 2 .. n
  BY <1>1
<1>3. i \in full <=> \E k \in 2 .. n : stack[k].op = i + 1
  BY Zenon DEF StackInv, AboveInv
<1>4. /\ i = Top.op - 1 <=> i + 1 = Top.op
      /\ ~(Top.op < Top.op)
  BY <1>1 DEF Ops
<1>5. \A k \in 2 .. n - 1 : stack[k].op < Top.op
  BY Zenon, TopIsLast
<1>6. ASSUME NEW k \in 2 .. n - 1, stack[k].op = i + 1
      PROVE  i \in full \ {Top.op - 1}
  <2>1. i \in full
    BY Zenon, <1>2, <1>3, <1>6
  <2>2. i # Top.op - 1
    BY Zenon, <1>4, <1>5, <1>6
  <2> QED
    BY Zenon, <2>1, <2>2
<1>7. ASSUME i \in full \ {Top.op - 1}
      PROVE  \E k \in 2 .. n - 1 : stack[k].op = i + 1
  <2>1. PICK k \in 2 .. n : stack[k].op = i + 1
    BY Zenon, <1>3, <1>7
  <2>2. k # n
    BY Zenon, <1>4, <1>7, <2>1 DEF Top
  <2> QED
    BY Zenon, <1>2, <2>1, <2>2
<1> QED
  BY ZenonT(40), <1>6, <1>7

(* An operator that needs more leaves the stack to the ones before it.     *)
LEMMA PopInv ==
    ASSUME StackInv, ~failed, stack # <<>>, Top.kind = "execute", ~Top.start,
           Len(stack') = Len(stack) - 1, \A k \in 1 .. Len(stack) - 1 : stack'[k] = stack[k],
           full' = full \ {Top.op - 1}, UNCHANGED <<exhausted, finalized>>
    PROVE  BottomInv' /\ AboveInv'
<1> DEFINE n == Len(stack)
<1>1. n \in Nat /\ n >= 2
  BY TopOfStack, TopIsLast
<1>2. /\ 1 \in 1 .. n - 1
      /\ \A k \in 2 .. n - 1 : k \in 2 .. n /\ k \in 1 .. n - 1
  BY <1>1
<1>3. stack'[1] = stack[1] /\ BottomInv /\ AboveInv /\ \A k \in 2 .. n - 1 : stack'[k] = stack[k]
  BY ZenonT(40), <1>2 DEF StackInv
<1>4. BottomInv'
  BY <1>3 DEF BottomInv
<1>5. \A i \in Ops : i \in full' <=> \E k \in 2 .. n - 1 : stack'[k].op = i + 1
  BY Zenon, <1>3, FullBelowTop
<1>6. \A k \in 2 .. n - 1 :
          /\ stack'[k].kind = "execute" /\ ~stack'[k].start
          /\ stack'[1].op < stack'[k].op
               \/ (stack'[1].kind = "finalize" /\ stack'[1].op = stack'[k].op)
  BY ZenonT(40), <1>2, <1>3 DEF AboveInv
<1>7. \A j, k \in 2 .. n - 1 : j < k => stack'[j].op < stack'[k].op
  BY Zenon, <1>2, <1>3 DEF AboveInv
<1> QED
  BY ZenonT(40), <1>4, <1>5, <1>6, <1>7 DEF AboveInv

(* An operator that is ready hands its batch to the next one.              *)
LEMMA PassOnInv ==
    ASSUME StackInv, ~failed, stack # <<>>, Top.kind = "execute", ~Top.start, Top.op # Sink,
           Len(stack') = Len(stack), \A k \in 1 .. Len(stack) - 1 : stack'[k] = stack[k],
           stack'[Len(stack)] = Execute(Top.op + 1, FALSE),
           full' = (full \ {Top.op - 1}) \cup {Top.op}, UNCHANGED <<exhausted, finalized>>
    PROVE  BottomInv' /\ AboveInv'
<1> DEFINE n == Len(stack)
<1>1. n \in Nat /\ n >= 2 /\ Top.op \in Ops /\ N \in Nat
  BY SMTT(40), TopOfStack, TopIsLast, StackAssumption
<1>2. /\ 1 \in 1 .. n - 1 /\ n \in 2 .. n
      /\ \A k \in 2 .. n - 1 : k \in 2 .. n /\ k \in 1 .. n - 1
      /\ \A k \in 2 .. n : k = n \/ k \in 2 .. n - 1
      /\ \A j, k \in 2 .. n : j < k => j \in 2 .. n - 1
  BY <1>1
<1>3. stack'[1] = stack[1] /\ BottomInv /\ AboveInv /\ \A k \in 2 .. n - 1 : stack'[k] = stack[k]
  BY ZenonT(40), <1>2 DEF StackInv
<1>4. BottomInv'
  BY <1>3 DEF BottomInv
<1>5. stack'[n].kind = "execute" /\ stack'[n].op = Top.op + 1 /\ ~stack'[n].start
  <2>1. ASSUME NEW e, e = Execute(Top.op + 1, FALSE)
        PROVE  e.kind = "execute" /\ e.op = Top.op + 1 /\ ~e.start
    BY <2>1 DEF Execute
  <2> QED
    BY ZenonT(40), <2>1
<1>6. /\ stack[1].op < Top.op + 1
      /\ \A k \in 2 .. n - 1 : stack[k].op < Top.op + 1
  <2>1. \A k \in 1 .. n : stack[k].op \in Ops
    BY SMTT(40), TopOfStack DEF StackInv, Instruction
  <2>2. 1 \in 1 .. n /\ \A k \in 2 .. n - 1 : k \in 1 .. n
    BY SMTT(40), <1>1
  <2>3. \A i \in Ops : i <= Top.op \/ i < Top.op => i < Top.op + 1
    BY <1>1 DEF Ops
  <2> QED
    BY ZenonT(40), <2>1, <2>2, <2>3, TopIsLast
<1>7. \A i \in Ops : i \in full' <=> \E k \in 2 .. n : stack'[k].op = i + 1
  <2> SUFFICES ASSUME NEW i \in Ops
               PROVE  i \in full' <=> \E k \in 2 .. n : stack'[k].op = i + 1
    BY SMTT(40)
  <2>1. Top.op + 1 = i + 1 <=> i = Top.op
    BY <1>1 DEF Ops
  <2>2. i \in full \ {Top.op - 1} <=> \E k \in 2 .. n - 1 : stack[k].op = i + 1
    BY Zenon, FullBelowTop
  <2>3. ASSUME i \in full'
        PROVE  \E k \in 2 .. n : stack'[k].op = i + 1
    BY Zenon, <1>2, <1>3, <1>5, <2>1, <2>2, <2>3
  <2>4. ASSUME NEW k \in 2 .. n, stack'[k].op = i + 1
        PROVE  i \in full'
    BY Zenon, <1>2, <1>3, <1>5, <2>1, <2>2, <2>4
  <2> QED
    BY ZenonT(40), <2>3, <2>4
<1>8. \A k \in 2 .. n :
          /\ stack'[k].kind = "execute" /\ ~stack'[k].start
          /\ stack'[1].op < stack'[k].op
               \/ (stack'[1].kind = "finalize" /\ stack'[1].op = stack'[k].op)
  BY ZenonT(40), <1>2, <1>3, <1>5, <1>6 DEF AboveInv
<1>9. ASSUME NEW j \in 2 .. n, NEW k \in 2 .. n, j < k
      PROVE  stack'[j].op < stack'[k].op
  <2>1. j \in 2 .. n - 1 /\ stack'[j] = stack[j]
    BY Zenon, <1>2, <1>3, <1>9
  <2>2. CASE k = n
    BY ZenonT(40), <1>5, <1>6, <2>1, <2>2
  <2>3. CASE k \in 2 .. n - 1
    BY ZenonT(40), <1>2, <1>3, <1>9, <2>1, <2>3 DEF AboveInv
  <2> QED
    BY Zenon, <1>2, <2>2, <2>3
<1> QED
  BY ZenonT(40), <1>4, <1>7, <1>8, <1>9 DEF AboveInv

(* An exhausted operator cuts off what came before it: the next operator   *)
(* takes its last batch and is finalized.                                  *)
LEMMA CutInv ==
    ASSUME StackInv, ~failed, stack # <<>>, Top.kind = "execute", Top.op # Sink,
           stack' = AfterExhausted(Top.op), full' = {Top.op}, exhausted' = Top.op,
           finalized' = finalized
    PROVE  BottomInv' /\ AboveInv'
<1>1. Top.op \in Ops /\ N \in Nat /\ Top.op + 1 \in Ops /\ exhausted \in Int /\ finalized \subseteq Ops
  BY SMTT(40), TopIsLast, StackAssumption DEF Ops, Sink, StackInv, StackTypeOK
<1>2. /\ stack[1].op \in Ops /\ stack[1].op <= Top.op
      /\ \A i \in finalized : i < stack[1].op \/ i = stack[1].op
  <2>1. Len(stack) \in Nat \ {0} /\ \A k \in 1 .. Len(stack) : stack[k] \in Instruction
    BY Zenon, TopOfStack DEF StackInv
  <2>2. 1 \in 1 .. Len(stack)
    BY <2>1
  <2>3. stack[1] \in Instruction
    BY Zenon, <2>1, <2>2
  <2>4. stack[1].op \in Ops
    BY <2>3 DEF Instruction
  <2> QED
    BY Zenon, <2>4, TopIsLast DEF StackInv, BottomInv
<1>3. /\ Len(stack') = 2 /\ stack'[1] = Finalize(Top.op + 1)
      /\ stack'[2] = Execute(Top.op + 1, FALSE)
  BY ZenonT(40) DEF AfterExhausted
<1>4. /\ stack'[1].kind = "finalize" /\ stack'[1].op = Top.op + 1
      /\ stack'[2].kind = "execute" /\ stack'[2].op = Top.op + 1 /\ ~stack'[2].start
  <2>1. ASSUME NEW e, NEW d, d = Finalize(Top.op + 1), e = Execute(Top.op + 1, FALSE)
        PROVE  /\ d.kind = "finalize" /\ d.op = Top.op + 1
               /\ e.kind = "execute" /\ e.op = Top.op + 1 /\ ~e.start
    BY Zenon, <2>1 DEF Execute, Finalize
  <2> QED
    BY Zenon, <1>3, <2>1
<1>5. BottomInv'
  <2>1. \A i \in finalized : i < Top.op + 1
    BY <1>1, <1>2 DEF Ops
  <2>2. /\ Top.op < Top.op + 1
        /\ \A i \in Ops : ~(Top.op < i /\ i < Top.op + 1)
    BY SMTT(40), <1>1 DEF Ops
  <2> QED
    BY <1>4, <2>1, <2>2 DEF BottomInv
<1>6. \A k \in 2 .. Len(stack') : k = 2
  BY <1>3
<1>7. 2 \in 2 .. Len(stack') /\ ~(2 < 2)
  BY <1>3
<1>8. \A i \in Ops : Top.op + 1 = i + 1 <=> i = Top.op
  BY <1>1 DEF Ops
<1>9. \A i \in Ops : i \in full' <=> \E k \in 2 .. Len(stack') : stack'[k].op = i + 1
  BY ZenonT(40), <1>4, <1>6, <1>7, <1>8
<1> QED
  BY ZenonT(40), <1>4, <1>5, <1>6, <1>7, <1>9 DEF AboveInv

(* Only the instruction at the bottom finalizes: pushing another instead   *)
(* of it leaves one instruction.                                           *)
LEMMA OnlyOne ==
    ASSUME StackInv, ~failed, stack # <<>>, Top.kind = "finalize",
           NEW x \in Instruction, stack' = Append(Rest, x)
    PROVE  stack' = <<x>>
<1>1. Len(stack) = 1 /\ Rest \in Seq(Instruction) /\ Len(Rest) = 0
  BY SMTT(40), TopOfStack, TopIsLast DEF StackInv
<1>2. Rest = <<>>
  BY SMTT(40), <1>1, EmptySeq
<1> QED
  BY <1>2

(* Finalizing an operator moves the bottom of the stack to the next one.   *)
LEMMA FinalizeInv ==
    ASSUME StackInv, ~failed, stack # <<>>, Top.kind = "finalize", Top.op # Sink,
           finalized' = finalized \cup {Top.op}, UNCHANGED <<full, exhausted>>,
           \/ stack' = <<Finalize(Top.op + 1)>>
           \/ stack' = <<Execute(Top.op, TRUE)>>
    PROVE  BottomInv' /\ AboveInv'
<1>1. /\ Top.op \in Ops /\ N \in Nat /\ Top.op + 1 \in Ops /\ exhausted \in Int
      /\ finalized \subseteq Ops /\ full = {} /\ Top = stack[1] /\ Top.op # 0
  <2>1. Top.op \in Ops /\ Len(stack) = 1 /\ full = {} /\ Top = stack[1]
    BY Zenon, TopIsLast
  <2>2. N \in Nat /\ Top.op + 1 \in Ops
    BY <2>1, StackAssumption DEF Ops, Sink
  <2>3. exhausted \in Int /\ finalized \subseteq Ops
    BY StackAssumption DEF StackInv, StackTypeOK
  <2>4. 1 \in 1 .. Len(stack)
    BY <2>1
  <2>5. Top.op # 0
    BY Zenon, <2>1, <2>4 DEF StackInv
  <2> QED
    BY Zenon, <2>1, <2>2, <2>3, <2>5
<1>2. /\ exhausted < Top.op
      /\ \A i \in finalized : i < Top.op
      /\ \A i \in Ops \ {0} : exhausted < i /\ i < Top.op => i \in finalized
  BY Zenon, <1>1 DEF StackInv, BottomInv
<1>3. Len(stack') = 1
  <2>1. \A e : Len(<<e>>) = 1
    OBVIOUS
  <2> QED
    BY Zenon, <2>1
<1>4. AboveInv'
  <2>1. 2 .. Len(stack') = {}
    BY <1>3
  <2> QED
    BY <1>1, <2>1 DEF AboveInv
<1>5. CASE stack' = <<Finalize(Top.op + 1)>>
  <2>1. stack'[1].kind = "finalize" /\ stack'[1].op = Top.op + 1
    BY SMTT(40), <1>5 DEF Finalize
  <2>2. /\ exhausted < Top.op + 1
        /\ \A i \in Ops : i < Top.op + 1 <=> i < Top.op \/ i = Top.op
    BY SMTT(40), <1>1, <1>2 DEF Ops
  <2> QED
    BY ZenonT(40), <1>1, <1>2, <1>4, <2>1, <2>2 DEF BottomInv
<1>6. CASE stack' = <<Execute(Top.op, TRUE)>>
  <2>1. stack'[1].kind = "execute" /\ stack'[1].op = Top.op /\ stack'[1].start
    BY <1>6 DEF Execute
  <2> QED
    BY Zenon, <1>1, <1>2, <1>4, <2>1 DEF BottomInv
<1> QED
  BY Zenon, <1>5, <1>6

(* Finalizing the sink is the end.                                         *)
LEMMA SinkInv ==
    ASSUME StackInv, ~failed, stack # <<>>, Top.kind = "finalize", Top.op = Sink,
           finalized' = finalized \cup {Top.op}, UNCHANGED <<full, exhausted>>,
           stack' = Rest, status' = "ok"
    PROVE  stack' = <<>> /\ DoneInv'
<1>1. /\ Len(stack) = 1 /\ Top = stack[1] /\ full = {}
      /\ Rest \in Seq(Instruction) /\ Len(Rest) = 0 /\ exhausted \in Int
  BY SMTT(40), TopOfStack, TopIsLast DEF StackInv, StackTypeOK
<1>2. Rest = <<>>
  BY <1>1, EmptySeq
<1>3. \A i \in Ops \ {0} : exhausted < i /\ i < Sink => i \in finalized
  BY Zenon, <1>1 DEF StackInv, BottomInv
<1>4. \A i \in Ops : (i < Sink \/ i = Sink) /\ (i > exhausted <=> exhausted < i)
  BY SMTT(40), <1>1, StackAssumption DEF Ops, Sink
<1> QED
  BY ZenonT(40), <1>1, <1>2, <1>3, <1>4 DEF DoneInv

-----------------------------------------------------------------------------
(* Types, after an error too: the first conjuncts of the invariant.        *)
StackTypes ==
    /\ StackTypeOK
    /\ \A k \in 1 .. Len(stack) :
          stack[k].kind = "finalize" => ~stack[k].start /\ stack[k].op # 0

(* Pushing an instruction that runs an operator, or that finalizes another *)
(* one than the source.                                                    *)
Pushable(x) == x \in Instruction /\ (x.kind = "finalize" => ~x.start /\ x.op # 0)

LEMMA PushableOnes ==
    ASSUME NEW i \in Ops
    PROVE  /\ Pushable(Execute(i, TRUE)) /\ Pushable(Execute(i, FALSE))
           /\ i # 0 => Pushable(Finalize(i))
  BY DEF Pushable, Execute, Finalize, Instruction

(* Each way a poll changes the stack keeps its instructions legal: one is  *)
(* popped, replaced, or has another pushed on top of it, or all are cut    *)
(* off in favour of two.                                                   *)
LegalStack ==
    /\ stack \in Seq(Instruction)
    /\ \A k \in 1 .. Len(stack) :
          stack[k].kind = "finalize" => ~stack[k].start /\ stack[k].op # 0

LEMMA LegalPop ==
    ASSUME StackTypes, stack # <<>>, stack' = Rest
    PROVE  LegalStack'
<1> DEFINE n == Len(stack)
<1>1. n \in Nat \ {0} /\ StackTypeOK
  BY TopOfStack DEF StackTypes
<1>2. /\ stack' \in Seq(Instruction) /\ Len(stack') = n - 1
      /\ \A k \in 1 .. n - 1 : stack'[k] = stack[k]
  BY Zenon, <1>1, TopOfStack
<1>3. \A k \in 1 .. n - 1 : k \in 1 .. n
  BY <1>1
<1> QED
  BY ZenonT(40), <1>2, <1>3 DEF StackTypes, LegalStack

LEMMA LegalReplace ==
    ASSUME StackTypes, stack # <<>>, NEW x, Pushable(x), stack' = Rest \o <<x>>
    PROVE  LegalStack'
<1> DEFINE n == Len(stack)
<1>1. n \in Nat \ {0} /\ StackTypeOK /\ x \in Instruction
  BY TopOfStack DEF StackTypes, Pushable
<1>2. /\ stack' \in Seq(Instruction) /\ Len(stack') = n
      /\ \A k \in 1 .. n - 1 : stack'[k] = stack[k]
      /\ stack'[n] = x
  <2>1. \A s : s = Rest \o <<x>> =>
           /\ s \in Seq(Instruction) /\ Len(s) = n
           /\ (\A k \in 1 .. n - 1 : s[k] = stack[k]) /\ s[n] = x
    BY Zenon, <1>1, PushInstead
  <2> QED
    BY Zenon, <2>1
<1>3. \A k \in 1 .. n : k = n \/ k \in 1 .. n - 1
  BY <1>1
<1>4. \A k \in 1 .. n - 1 : k \in 1 .. n
  BY <1>1
<1> QED
  BY ZenonT(40), <1>2, <1>3, <1>4 DEF StackTypes, LegalStack, Pushable

LEMMA LegalAbove ==
    ASSUME StackTypes, stack # <<>>, NEW x, Pushable(x),
           stack' = Rest \o <<Top, x>>
    PROVE  LegalStack'
<1> DEFINE n == Len(stack)
<1>1. n \in Nat \ {0} /\ StackTypeOK /\ x \in Instruction
  BY TopOfStack DEF StackTypes, Pushable
<1>2. /\ stack' \in Seq(Instruction) /\ Len(stack') = n + 1
      /\ \A k \in 1 .. n : stack'[k] = stack[k]
      /\ stack'[n + 1] = x
  <2>1. \A s : s = Rest \o <<Top, x>> =>
           /\ s \in Seq(Instruction) /\ Len(s) = n + 1
           /\ (\A k \in 1 .. n : s[k] = stack[k]) /\ s[n + 1] = x
    BY Zenon, <1>1, PushAbove
  <2> QED
    BY Zenon, <2>1
<1>3. \A k \in 1 .. n + 1 : k = n + 1 \/ k \in 1 .. n
  BY <1>1
<1> QED
  BY Zenon, <1>2, <1>3 DEF StackTypes, LegalStack, Pushable

LEMMA LegalTwo ==
    ASSUME NEW x, NEW y, Pushable(x), Pushable(y), stack' = <<x, y>>
    PROVE  LegalStack'
<1>1. x \in Instruction /\ y \in Instruction
  BY DEF Pushable
<1>2. /\ stack' \in Seq(Instruction) /\ Len(stack') = 2
      /\ stack'[1] = x /\ stack'[2] = y
  BY <1>1
<1>3. \A k \in 1 .. 2 : k = 1 \/ k = 2
  OBVIOUS
<1> QED
  BY Zenon, <1>2, <1>3 DEF LegalStack, Pushable

(* An instruction popped by a poll that goes on.                           *)
LEMMA PoppedOne ==
    ASSUME StackTypes, NEW r, Answer(r)
    PROVE  /\ stack # <<>> /\ status = "running" /\ Top.kind = r
           /\ Top \in Instruction /\ Top.op \in Ops /\ Top.start \in BOOLEAN
           /\ Top.kind = "finalize" => ~Top.start /\ Top.op # 0
           /\ Top.op # Sink => Top.op + 1 \in Ops /\ Top.op + 1 # 0 /\ Top.op \in 0 .. N - 2
           /\ Top.op \in Ops /\ Sink \in Ops /\ N \in Nat
<1>1. stack # <<>> /\ status = "running" /\ Top.kind = r /\ StackTypeOK
  BY DEF Answer, StackTypes
<1>2. Top \in Instruction /\ Len(stack) \in Nat \ {0}
  BY <1>1, TopOfStack
<1>3. Top.op \in Ops /\ Top.start \in BOOLEAN
  BY <1>2 DEF Instruction
<1>4. Len(stack) \in 1 .. Len(stack)
  BY <1>2
<1>5. Top.kind = "finalize" => ~Top.start /\ Top.op # 0
  BY Zenon, <1>4 DEF StackTypes, Top
<1>6. /\ Top.op # Sink => Top.op + 1 \in Ops /\ Top.op + 1 # 0 /\ Top.op \in 0 .. N - 2
      /\ Sink \in Ops /\ N \in Nat
  BY <1>3, StackAssumption DEF Ops, Sink
<1> QED
  BY ZenonT(40), <1>1, <1>2, <1>3, <1>5, <1>6

(* Pushing with Append is the same as pushing with a concatenation.        *)
LEMMA AppendIsPush ==
    ASSUME StackTypes, stack # <<>>, NEW x \in Instruction
    PROVE  Append(Rest, x) = Rest \o <<x>>
<1>1. Rest \in Seq(Instruction)
  BY TopOfStack DEF StackTypes
<1> QED
  BY SMTT(40), <1>1, AppendIsConcat

(* Every action of the pipeline keeps the types, after an error too.       *)
LEMMA TypesStep ==
    ASSUME StackTypes, [StackNext]_stackVars
    PROVE  StackTypes'
<1> SUFFICES LegalStack' /\ full' \subseteq Ops \ {Sink} /\ exhausted' \in -1 .. N - 2
             /\ status' \in {"running", "pending", "ok", "err"}
             /\ finalized' \subseteq Ops \ {0} /\ failed' \in BOOLEAN /\ outputs' \in 0 .. MaxOutputs
  BY Zenon DEF StackTypes, StackTypeOK, LegalStack
<1>1. /\ LegalStack /\ full \subseteq Ops \ {Sink} /\ exhausted \in -1 .. N - 2
      /\ status \in {"running", "pending", "ok", "err"}
      /\ finalized \subseteq Ops \ {0} /\ failed \in BOOLEAN /\ outputs \in 0 .. MaxOutputs
  BY Zenon DEF StackTypes, StackTypeOK, LegalStack
<1>2. Produce => outputs' \in 0 .. MaxOutputs
  BY <1>1, StackAssumption DEF Produce
<1>3. stack' = stack => LegalStack'
  BY Zenon, <1>1 DEF LegalStack
<1>4. CASE Ready
  <2>1. Answer("execute") /\ Top.op \notin {0, Sink}
    BY <1>4 DEF Ready
  <2>2. /\ stack # <<>> /\ Top.start \in BOOLEAN /\ Top.op \in Ops /\ Top.op + 1 \in Ops
        /\ Top \in Instruction
    BY Zenon, <2>1, PoppedOne
  <2>3. Pushable(Execute(Top.op + 1, FALSE)) /\ Execute(Top.op + 1, FALSE) \in Instruction
    BY Zenon, <2>2, PushableOnes DEF Pushable
  <2>4. LegalStack'
    <3>1. CASE Top.start
      <4>1. stack' = Rest \o <<Top>> \o <<Execute(Top.op + 1, FALSE)>>
        BY Zenon, <1>4, <3>1 DEF Ready, KeepStart
      <4>2. stack' = Rest \o <<Top, Execute(Top.op + 1, FALSE)>>
        BY ZenonT(40), <2>2, <2>3, <4>1, TwoPushes DEF StackTypes
      <4> QED
        BY Zenon, <2>2, <2>3, <4>2, LegalAbove
    <3>2. CASE ~Top.start
      <4>1. stack' = Rest \o <<>> \o <<Execute(Top.op + 1, FALSE)>>
        BY ZenonT(40), <1>4, <3>2 DEF Ready, KeepStart
      <4>2. Rest \o <<>> = Rest
        BY <2>2, TopOfStack, ConcatEmptySeq DEF StackTypes
      <4>3. stack' = Rest \o <<Execute(Top.op + 1, FALSE)>>
        BY Zenon, <4>1, <4>2
      <4> QED
        BY Zenon, <2>2, <2>3, <4>3, LegalReplace
    <3> QED
      BY Zenon, <3>1, <3>2
  <2>5. full' \subseteq Ops \ {Sink}
    BY <1>1, <1>4, <2>1, <2>2 DEF Ready, Consume
  <2>6. outputs' \in 0 .. MaxOutputs
    BY Zenon, <1>1, <1>2, <1>4 DEF Ready
  <2> QED
    BY ZenonT(40), <1>1, <1>4, <2>4, <2>5, <2>6 DEF Ready
<1>5. CASE ExecutePending
  BY Zenon, <1>1, <1>2, <1>3, <1>5 DEF ExecutePending
<1>6. CASE NeedsMore
  <2>1. Answer("execute") /\ stack' = Rest \o <<>> /\ full' = Consume(Top)
    BY <1>6 DEF NeedsMore, AfterNeedsMore
  <2>2. stack # <<>>
    BY ZenonT(40), <2>1, PoppedOne
  <2>3. stack' = Rest
    BY ZenonT(40), <2>1, <2>2, TopOfStack, ConcatEmptySeq DEF StackTypes
  <2>4. full' \subseteq Ops \ {Sink}
    BY <1>1, <2>1 DEF Consume
  <2>5. LegalStack'
    BY Zenon, <2>2, <2>3, LegalPop
  <2> QED
    BY Zenon, <1>1, <1>6, <2>4, <2>5 DEF NeedsMore
<1>7. CASE HasMore
  <2>1. /\ Answer("execute") /\ Top.op # Sink
        /\ stack' = Rest \o <<Top, Execute(Top.op + 1, FALSE)>> /\ full' = full \cup {Top.op}
    BY Zenon, <1>7 DEF HasMore, PushAgain
  <2>2. stack # <<>> /\ Top.op \in Ops /\ Top.op + 1 \in Ops
    BY Zenon, <2>1, PoppedOne
  <2>3. LegalStack'
    BY Zenon, <2>1, <2>2, PushableOnes, LegalAbove
  <2>4. full' \subseteq Ops \ {Sink}
    BY Zenon, <1>1, <2>1, <2>2
  <2> QED
    BY ZenonT(40), <1>1, <1>2, <1>7, <2>3, <2>4 DEF HasMore
<1>8. CASE Exhausted
  <2>1. /\ Answer("execute") /\ Top.op # Sink
        /\ stack' = <<Finalize(Top.op + 1), Execute(Top.op + 1, FALSE)>>
        /\ full' = {Top.op} /\ exhausted' = Top.op
    BY Zenon, <1>8 DEF Exhausted, AfterExhausted
  <2>2. /\ Top.op \in Ops /\ Top.op + 1 \in Ops /\ Top.op + 1 # 0 /\ Top.op \in 0 .. N - 2
        /\ N \in Nat
    BY Zenon, <2>1, PoppedOne
  <2>3. LegalStack'
    BY ZenonT(40), <2>1, <2>2, PushableOnes, LegalTwo
  <2>4. Top.op \in -1 .. N - 2
    BY <2>2
  <2>5. full' \subseteq Ops \ {Sink}
    BY Zenon, <2>1, <2>2
  <2> QED
    BY ZenonT(40), <1>1, <1>8, <2>1, <2>3, <2>4, <2>5 DEF Exhausted
<1>9. CASE FinalizeOk
  <2>1. /\ Answer("finalize") /\ finalized' = finalized \cup {Top.op}
        /\ Top.op = Sink => stack' = Rest
        /\ Top.op # Sink => stack' = Append(Rest, Finalize(Top.op + 1))
        /\ status' \in {status, "ok"}
    BY <1>9 DEF FinalizeOk
  <2>2. /\ stack # <<>> /\ Top.op \in Ops \ {0}
        /\ Top.op # Sink => Top.op + 1 \in Ops /\ Top.op + 1 # 0
    BY Zenon, <2>1, PoppedOne
  <2>3. LegalStack'
    <3>1. CASE Top.op = Sink
      BY Zenon, <2>1, <2>2, <3>1, LegalPop
    <3>2. CASE Top.op # Sink
      <4>1. Pushable(Finalize(Top.op + 1))
        BY Zenon, <2>2, <3>2, PushableOnes
      <4>2. stack' = Rest \o <<Finalize(Top.op + 1)>>
        BY Zenon, <2>1, <2>2, <3>2, <4>1, AppendIsPush DEF Pushable
      <4> QED
        BY Zenon, <2>2, <4>1, <4>2, LegalReplace
    <3> QED
      BY Zenon, <3>1, <3>2
  <2>4. finalized' \subseteq Ops \ {0}
    BY Zenon, <1>1, <2>1, <2>2
  <2>5. status' \in {"running", "pending", "ok", "err"}
    BY <1>1, <2>1
  <2> QED
    BY ZenonT(40), <1>1, <1>9, <2>3, <2>4, <2>5 DEF FinalizeOk
<1>10. CASE NeedsDrain
  <2>1. /\ Answer("finalize") /\ finalized' = finalized \cup {Top.op}
        /\ stack' = Append(Rest, Execute(Top.op, TRUE))
    BY Zenon, <1>10 DEF NeedsDrain
  <2>2. stack # <<>> /\ Top.op \in Ops \ {0}
    BY Zenon, <2>1, PoppedOne
  <2>3. Pushable(Execute(Top.op, TRUE))
    BY Zenon, <2>2, PushableOnes
  <2>4. stack' = Rest \o <<Execute(Top.op, TRUE)>>
    BY Zenon, <2>1, <2>2, <2>3, AppendIsPush DEF Pushable
  <2>5. LegalStack'
    BY Zenon, <2>2, <2>3, <2>4, LegalReplace
  <2>6. finalized' \subseteq Ops \ {0}
    BY Zenon, <1>1, <2>1, <2>2
  <2> QED
    BY Zenon, <1>1, <1>10, <2>5, <2>6 DEF NeedsDrain
<1>11. CASE FinalizePending
  BY Zenon, <1>1, <1>2, <1>3, <1>11 DEF FinalizePending
<1>12. CASE Empty
  BY Zenon, <1>1, <1>3, <1>12 DEF Empty
<1>13. CASE Fail
  <2>1. LegalStack'
    BY Zenon, <1>13, LegalPop DEF Fail
  <2> QED
    BY Zenon, <1>1, <1>13, <2>1 DEF Fail
<1>14. CASE Repoll
  <2>1. outputs' \in 0 .. MaxOutputs
    BY <1>1, <1>14, StackAssumption DEF Repoll
  <2> QED
    BY ZenonT(40), <1>1, <1>3, <1>14, <2>1 DEF Repoll
<1>15. CASE UNCHANGED stackVars
  BY Zenon, <1>1, <1>3, <1>15 DEF stackVars
<1> QED
  BY ZenonT(40), <1>4, <1>5, <1>6, <1>7, <1>8, <1>9, <1>10, <1>11, <1>12, <1>13, <1>14, <1>15
     DEF StackNext, Pop

-----------------------------------------------------------------------------
(* The next stack after an instruction is pushed instead of the one on top *)
(* or above it.                                                            *)
LEMMA NextReplaced ==
    ASSUME StackTypeOK, stack # <<>>, NEW x \in Instruction, stack' = Rest \o <<x>>
    PROVE  /\ Len(stack') = Len(stack) /\ stack' # <<>>
           /\ \A k \in 1 .. Len(stack) - 1 : stack'[k] = stack[k]
           /\ stack'[Len(stack)] = x
<1>1. \A s : s = Rest \o <<x>> =>
         /\ Len(s) = Len(stack) /\ s # <<>>
         /\ \A k \in 1 .. Len(stack) - 1 : s[k] = stack[k]
         /\ s[Len(stack)] = x
  BY ZenonT(40), PushInstead
<1> QED
  BY Zenon, <1>1

LEMMA NextPushed ==
    ASSUME StackTypeOK, stack # <<>>, NEW x \in Instruction, stack' = Rest \o <<Top, x>>
    PROVE  /\ Len(stack') = Len(stack) + 1 /\ stack' # <<>>
           /\ \A k \in 1 .. Len(stack) : stack'[k] = stack[k]
           /\ stack'[Len(stack) + 1] = x
<1>1. \A s : s = Rest \o <<Top, x>> =>
         /\ Len(s) = Len(stack) + 1 /\ s # <<>>
         /\ \A k \in 1 .. Len(stack) : s[k] = stack[k]
         /\ s[Len(stack) + 1] = x
  BY Zenon, PushAbove
<1> QED
  BY Zenon, <1>1

(* Every action keeps the order of the instructions and the batches that   *)
(* wait for them, as long as no operator fails.                            *)
LEMMA StackStep ==
    ASSUME StackInv, [StackNext]_stackVars
    PROVE  StackInv'
<1>1. StackTypes /\ StackTypes' /\ StackTypeOK
  BY Zenon, TypesStep DEF StackInv, StackTypes
<1>2. status' = "err" => failed'
  BY Zenon DEF StackInv, StackNext, Pop, Ready, ExecutePending, NeedsMore, HasMore, Exhausted,
         FinalizeOk, NeedsDrain, FinalizePending, Empty, Fail, Repoll, stackVars
<1>3. failed => failed'
  BY Zenon DEF StackInv, StackNext, Pop, Ready, ExecutePending, NeedsMore, HasMore, Exhausted,
         FinalizeOk, NeedsDrain, FinalizePending, Empty, Fail, Repoll, stackVars
<1> SUFFICES ASSUME ~failed, ~failed'
             PROVE  \/ stack' = <<>> /\ DoneInv'
                    \/ stack' # <<>> /\ status' # "ok" /\ BottomInv' /\ AboveInv'
  BY Zenon, <1>1, <1>2, <1>3 DEF StackInv, StackTypes
<1> DEFINE n == Len(stack)
           Goes == stack' # <<>> /\ status' # "ok" /\ BottomInv' /\ AboveInv'
<1>4. UNCHANGED <<stack, full, exhausted, finalized>> =>
         /\ BottomInv => BottomInv'
         /\ AboveInv => AboveInv'
  <2>1. ASSUME UNCHANGED <<stack, full, exhausted, finalized>>
        PROVE  (BottomInv => BottomInv') /\ (AboveInv => AboveInv')
    BY Zenon, <2>1 DEF BottomInv, AboveInv
  <2> QED
    BY ZenonT(40), <2>1
<1>5. stack = <<>> => status = "ok"
  BY Zenon DEF StackInv, DoneInv
<1>6. stack # <<>> => BottomInv /\ AboveInv /\ status # "ok"
  BY Zenon DEF StackInv
<1>7. ASSUME Answer("execute")
      PROVE  /\ stack # <<>> /\ status # "ok" /\ Top.kind = "execute" /\ Top.op \in Ops
             /\ Top.op # Sink => Top.op + 1 \in Ops /\ Execute(Top.op + 1, FALSE) \in Instruction
             /\ Top.start \in BOOLEAN
  <2>1. FALSE \in BOOLEAN
    OBVIOUS
  <2> QED
    BY ZenonT(40), <1>1, <1>6, <1>7, <2>1, PoppedOne, Fields
<1>8. ASSUME Answer("finalize")
      PROVE  /\ stack # <<>> /\ status # "ok" /\ Top.kind = "finalize" /\ Top.op \in Ops
             /\ Execute(Top.op, TRUE) \in Instruction
             /\ Top.op # Sink => Finalize(Top.op + 1) \in Instruction
  <2>1. TRUE \in BOOLEAN
    OBVIOUS
  <2> QED
    BY ZenonT(40), <1>1, <1>6, <1>8, <2>1, PoppedOne, Fields
<1>9. ASSUME Answer("execute"), Top.op # Sink, full' = full \cup {Top.op},
             stack' = Rest \o <<Top, Execute(Top.op + 1, FALSE)>>,
             UNCHANGED <<status, exhausted, finalized>>
      PROVE  Goes
  <2>1. /\ stack # <<>> /\ status # "ok" /\ Top.kind = "execute"
        /\ Execute(Top.op + 1, FALSE) \in Instruction
    BY Zenon, <1>7, <1>9
  <2>2. /\ Len(stack') = n + 1 /\ stack' # <<>>
        /\ \A k \in 1 .. n : stack'[k] = stack[k]
        /\ stack'[n + 1] = Execute(Top.op + 1, FALSE)
    BY Zenon, <1>1, <1>9, <2>1, NextPushed
  <2>3. UNCHANGED <<exhausted, finalized>> /\ status' = status
    BY Zenon, <1>9
  <2> QED
    BY Zenon, <1>9, <2>1, <2>2, <2>3, PushAboveInv
<1>10. CASE Ready
  <2>1. /\ Answer("execute") /\ Top.op # Sink
        /\ stack' = Rest \o KeepStart(Top) \o <<Execute(Top.op + 1, FALSE)>>
        /\ full' = Consume(Top) \cup {Top.op} /\ UNCHANGED <<status, exhausted, finalized>>
    BY Zenon, <1>10 DEF Ready
  <2>2. /\ stack # <<>> /\ status # "ok" /\ Top.kind = "execute"
        /\ Execute(Top.op + 1, FALSE) \in Instruction
    BY Zenon, <1>7, <2>1
  <2>3. CASE Top.start
    <3>1. stack' = Rest \o <<Top>> \o <<Execute(Top.op + 1, FALSE)>> /\ full' = full \cup {Top.op}
      BY Zenon, <2>1, <2>3 DEF KeepStart, Consume
    <3>2. stack' = Rest \o <<Top, Execute(Top.op + 1, FALSE)>>
      BY Zenon, <1>1, <2>2, <3>1, TwoPushes DEF StackTypes
    <3> QED
      BY Zenon, <1>9, <2>1, <3>1, <3>2
  <2>4. CASE ~Top.start
    <3>1. /\ stack' = Rest \o <<>> \o <<Execute(Top.op + 1, FALSE)>>
          /\ full' = (full \ {Top.op - 1}) \cup {Top.op}
      BY ZenonT(40), <2>1, <2>4 DEF KeepStart, Consume
    <3>2. Rest \o <<>> = Rest
      BY SMTT(40), <1>1, <2>2, TopOfStack, ConcatEmptySeq DEF StackTypes
    <3>3. stack' = Rest \o <<Execute(Top.op + 1, FALSE)>>
      BY Zenon, <3>1, <3>2
    <3>4. /\ Len(stack') = n /\ stack' # <<>>
          /\ \A k \in 1 .. n - 1 : stack'[k] = stack[k]
          /\ stack'[n] = Execute(Top.op + 1, FALSE)
      BY Zenon, <1>1, <2>2, <3>3, NextReplaced
    <3>5. UNCHANGED <<exhausted, finalized>> /\ status' = status
      BY Zenon, <2>1
    <3> QED
      BY ZenonT(40), <2>1, <2>2, <2>4, <3>1, <3>4, <3>5, PassOnInv
  <2> QED
    BY Zenon, <2>3, <2>4
<1>11. CASE NeedsMore
  <2>1. /\ Answer("execute") /\ ~Top.start /\ stack' = Rest \o <<>>
        /\ full' = full \ {Top.op - 1} /\ UNCHANGED <<exhausted, finalized>> /\ status' = status
    BY Zenon, <1>11 DEF NeedsMore, AfterNeedsMore, Consume
  <2>2. stack # <<>> /\ status # "ok" /\ Top.kind = "execute"
    BY ZenonT(40), <1>7, <2>1
  <2>3. stack' = Rest
    BY SMTT(40), <1>1, <2>1, <2>2, TopOfStack, ConcatEmptySeq DEF StackTypes
  <2>4. Len(stack') = n - 1 /\ \A k \in 1 .. n - 1 : stack'[k] = stack[k]
    BY Zenon, <1>1, <2>2, <2>3, TopOfStack DEF StackTypes
  <2>5. stack' # <<>>
    <3>1. n >= 2 /\ n \in Nat
      BY ZenonT(40), <1>1, <2>1, <2>2, TopIsLast, TopOfStack DEF StackTypes
    <3>2. n - 1 # 0
      <4>1. \A m \in Nat : m >= 2 => m - 1 # 0
        OBVIOUS
      <4> QED
        BY Zenon, <3>1, <4>1
    <3>3. Len(<<>>) = 0
      OBVIOUS
    <3> QED
      BY Zenon, <2>4, <3>2, <3>3
  <2> QED
    BY ZenonT(40), <2>1, <2>2, <2>4, <2>5, PopInv
<1>12. CASE HasMore
  BY Zenon, <1>9, <1>12 DEF HasMore, PushAgain
<1>13. CASE Exhausted
  <2>1. /\ Answer("execute") /\ Top.op # Sink /\ stack' = AfterExhausted(Top.op)
        /\ full' = {Top.op} /\ exhausted' = Top.op /\ finalized' = finalized /\ status' = status
    BY Zenon, <1>13 DEF Exhausted
  <2>2. stack # <<>> /\ status # "ok" /\ Top.kind = "execute"
    BY Zenon, <1>7, <2>1
  <2>3. stack' # <<>>
    BY <2>1 DEF AfterExhausted
  <2> QED
    BY Zenon, <2>1, <2>2, <2>3, CutInv
<1>14. CASE FinalizeOk
  <2>1. /\ Answer("finalize") /\ finalized' = finalized \cup {Top.op}
        /\ UNCHANGED <<full, exhausted>>
    BY Zenon, <1>14 DEF FinalizeOk
  <2>2. stack # <<>> /\ status # "ok" /\ Top.kind = "finalize"
    BY Zenon, <1>8, <2>1
  <2>3. CASE Top.op = Sink
    <3>1. stack' = Rest /\ status' = "ok"
      BY Zenon, <1>14, <2>3 DEF FinalizeOk
    <3> QED
      BY ZenonT(40), <2>1, <2>2, <2>3, <3>1, SinkInv
  <2>4. CASE Top.op # Sink
    <3>1. stack' = Append(Rest, Finalize(Top.op + 1)) /\ status' = status
      BY Zenon, <1>14, <2>4 DEF FinalizeOk
    <3>2. stack' = <<Finalize(Top.op + 1)>>
      BY Zenon, <1>8, <2>1, <2>2, <2>4, <3>1, OnlyOne
    <3>3. stack' # <<>>
      BY <3>2
    <3> QED
      BY ZenonT(40), <2>1, <2>2, <2>4, <3>1, <3>2, <3>3, FinalizeInv
  <2> QED
    BY Zenon, <2>3, <2>4
<1>15. CASE NeedsDrain
  <2>1. /\ Answer("finalize") /\ finalized' = finalized \cup {Top.op} /\ Top.op # Sink
        /\ UNCHANGED <<full, exhausted>> /\ status' = status
        /\ stack' = Append(Rest, Execute(Top.op, TRUE))
    BY Zenon, <1>15 DEF NeedsDrain
  <2>2. stack # <<>> /\ status # "ok" /\ Top.kind = "finalize"
    BY Zenon, <1>8, <2>1
  <2>3. stack' = <<Execute(Top.op, TRUE)>>
    BY Zenon, <1>8, <2>1, <2>2, OnlyOne
  <2>4. stack' # <<>>
    BY <2>3
  <2> QED
    BY ZenonT(40), <2>1, <2>2, <2>3, <2>4, FinalizeInv
<1>16. CASE ExecutePending \/ FinalizePending
  <2>1. /\ stack # <<>> /\ status' = "pending" /\ UNCHANGED <<stack, full, exhausted, finalized>>
    BY Zenon, <1>7, <1>8, <1>16 DEF ExecutePending, FinalizePending
  <2>2. status' # "ok"
    BY <2>1
  <2> QED
    BY Zenon, <1>4, <1>6, <2>1, <2>2
<1>17. CASE Empty
  <2>1. stack = <<>> /\ status = "running"
    BY Zenon, <1>17 DEF Empty
  <2> QED
    BY <1>5, <2>1
<1>18. CASE Fail
  BY Zenon, <1>18 DEF Fail
<1>19. CASE Repoll
  <2>1. /\ status \in {"pending", "err"} /\ status' = "running"
        /\ UNCHANGED <<stack, full, exhausted, finalized>>
    BY <1>19 DEF Repoll
  <2>2. status # "ok" /\ status' # "ok"
    BY <2>1
  <2> QED
    BY ZenonT(40), <1>4, <1>5, <1>6, <2>1, <2>2
<1>20. CASE UNCHANGED stackVars
  <2>1. UNCHANGED <<stack, full, exhausted, finalized>> /\ status' = status
    BY Zenon, <1>20 DEF stackVars
  <2>2. DoneInv => DoneInv'
    BY <2>1 DEF DoneInv
  <2> QED
    <3>1. stack = <<>> => stack' = <<>> /\ DoneInv'
      BY Zenon, <2>1, <2>2 DEF StackInv
    <3>2. stack # <<>> => Goes
      BY Zenon, <1>4, <1>6, <2>1
    <3> QED
      BY Zenon, <3>1, <3>2
<1> QED
  BY Zenon, <1>10, <1>11, <1>12, <1>13, <1>14, <1>15, <1>16, <1>17, <1>18, <1>19, <1>20
     DEF StackNext, Pop

-----------------------------------------------------------------------------
(* The state ExecutablePartitionPipeline::new leaves.                      *)
LEMMA StackStarts ==
    ASSUME StackInit
    PROVE  StackInv
<1>1. 0 \in Ops /\ N - 1 \in Ops /\ N \in Nat /\ N - 2 \in Nat /\ MaxOutputs \in Nat
  BY SMTT(40), StackAssumption DEF Ops
<1>2. /\ Execute(0, TRUE) \in Instruction /\ Execute(0, TRUE).kind = "execute"
      /\ Execute(0, TRUE).op = 0 /\ Execute(0, TRUE).start
  BY Zenon, <1>1, Fields
<1> DEFINE e == Execute(0, TRUE)
<1>3. stack = <<e>> /\ full = {} /\ status = "running" /\ exhausted = -1
      /\ finalized = {} /\ failed = FALSE /\ outputs = 0
  BY DEF StackInit
<1> HIDE DEF e
<1>4. stack \in Seq(Instruction) /\ Len(stack) = 1 /\ stack[1] = e /\ stack # <<>>
  <2>1. e \in Instruction
    BY Zenon, <1>2 DEF e
  <2> QED
    BY <1>3, <2>1
<1>5. 2 .. Len(stack) = {} /\ \A k \in 1 .. Len(stack) : k = 1
  BY <1>4
<1>6. e.kind = "execute" /\ e.op = 0 /\ e.start
  BY Zenon, <1>2 DEF e
<1>7. StackTypeOK
  <2>1. -1 \in -1 .. N - 2 /\ 0 \in 0 .. MaxOutputs
    BY <1>1
  <2> QED
    BY ZenonT(40), <1>3, <1>4, <2>1 DEF StackTypeOK
<1>8. BottomInv
  <2>1. -1 < 0 /\ \A i \in Ops : ~(i < 0)
    BY SMTT(40), <1>1 DEF Ops
  <2> QED
    BY <1>3, <1>4, <1>6, <2>1 DEF BottomInv
<1>9. AboveInv
  BY ZenonT(40), <1>3, <1>5 DEF AboveInv
<1>10. \A k \in 1 .. Len(stack) : stack[k].kind # "finalize"
  BY SMTT(40), <1>4, <1>5, <1>6
<1> QED
  BY ZenonT(40), <1>3, <1>4, <1>7, <1>8, <1>9, <1>10 DEF StackInv

(* The bottom of the stack starts or finalizes, the instructions above it  *)
(* run operators further and further down, and the batches that wait are   *)
(* theirs: the inductive invariant of the execution stack.                 *)
THEOREM StackInvariance == StackSpec => []StackInv
<1>1. StackInit => StackInv
  BY StackStarts
<1>2. StackInv /\ [StackNext]_stackVars => StackInv'
  BY StackStep
<1> QED
  BY <1>1, <1>2, PTL DEF StackSpec

(* What the invariant says of the instruction on top is the order promised.*)
LEMMA StackInvInOrder ==
    ASSUME StackInv
    PROVE  PipelineInOrder
<1> DEFINE n == Len(stack)
<1>1. StackShape
  <2> SUFFICES ASSUME ~failed, stack # <<>>
               PROVE  /\ stack[1].kind = "finalize" \/ stack[1].start
                      /\ stack[1].kind = "finalize" => stack[1].op # 0
                      /\ \A k \in 2 .. n :
                            /\ stack[k].kind = "execute" /\ ~stack[k].start
                            /\ \/ stack[k - 1].op < stack[k].op
                               \/ k = 2 /\ stack[1] = Finalize(stack[2].op)
    BY ZenonT(40) DEF StackShape
  <2>1. n \in Nat \ {0} /\ \A k \in 1 .. n : stack[k] \in Instruction
    BY TopOfStack DEF StackInv
  <2>2. BottomInv /\ AboveInv
    BY Zenon DEF StackInv
  <2>3. 1 \in 1 .. n
    BY SMTT(40), <2>1
  <2>4. /\ stack[1].kind = "finalize" \/ stack[1].start
        /\ stack[1].kind = "finalize" => stack[1].op # 0 /\ ~stack[1].start
    BY Zenon, <2>2, <2>3 DEF StackInv, BottomInv
  <2>5. ASSUME NEW k \in 2 .. n
        PROVE  /\ stack[k].kind = "execute" /\ ~stack[k].start
               /\ \/ stack[k - 1].op < stack[k].op
                  \/ k = 2 /\ stack[1] = Finalize(stack[2].op)
    <3>1. stack[k].kind = "execute" /\ ~stack[k].start
      BY Zenon, <2>2 DEF AboveInv
    <3>2. CASE k = 2
      <4>1. stack[1].kind = "finalize" /\ stack[1].op = stack[2].op =>
               stack[1] = Finalize(stack[2].op)
        <5>1. ASSUME NEW e \in Instruction, NEW i, e.kind = "finalize", e.op = i, ~e.start
              PROVE  e = Finalize(i)
          BY <5>1 DEF Instruction, Finalize
        <5> QED
          BY ZenonT(40), <2>1, <2>3, <2>4, <5>1
      <4>2. k - 1 = 1
        BY <3>2
      <4> QED
        BY Zenon, <2>2, <3>1, <3>2, <4>1, <4>2 DEF AboveInv
    <3>3. CASE k # 2
      <4>1. k - 1 \in 2 .. n /\ k - 1 < k
        BY <2>1, <3>3
      <4> QED
        BY Zenon, <2>2, <3>1, <4>1 DEF AboveInv
    <3> QED
      BY Zenon, <3>2, <3>3
  <2> QED
    BY Zenon, <2>4, <2>5
<1>2. BuffersRespected
  <2> SUFFICES ASSUME ~failed, stack # <<>>, Top.kind = "execute"
               PROVE  Top.op \notin full /\ (~Top.start => Top.op - 1 \in full)
    BY Zenon DEF BuffersRespected
  <2> QED
    BY Zenon, TopIsLast
<1>3. ExhaustedIsFinal
  <2> SUFFICES ASSUME ~failed, NEW k \in 1 .. n
               PROVE  /\ stack[k].op > exhausted
                      /\ stack[k].op \in finalized => stack[k] = Execute(stack[k].op, TRUE)
    BY Zenon DEF ExhaustedIsFinal
  <2>1. stack # <<>>
    BY SMTT(40)
  <2>2. n \in Nat \ {0} /\ (\A l \in 1 .. n : stack[l] \in Instruction /\ stack[l].op \in Ops)
        /\ exhausted \in Int /\ 1 \in 1 .. n /\ (k = 1 \/ k \in 2 .. n)
    <3>1. n \in Nat \ {0} /\ (\A l \in 1 .. n : stack[l] \in Instruction) /\ exhausted \in Int
      BY SMTT(40), <2>1, TopOfStack, StackAssumption DEF StackInv, StackTypeOK
    <3>2. 1 \in 1 .. n /\ (k = 1 \/ k \in 2 .. n)
      BY <3>1
    <3> QED
      BY ZenonT(40), <3>1, <3>2 DEF Instruction
  <2>3. BottomInv /\ AboveInv
    BY Zenon, <2>1 DEF StackInv
  <2>4. /\ exhausted < stack[1].op
        /\ \A i \in finalized : i < stack[1].op \/ (stack[1].kind = "execute" /\ i = stack[1].op)
        /\ stack[1].kind = "finalize" \/ stack[1].start
        /\ stack[1].op \in Ops /\ stack[k].op \in Ops /\ stack[1] \in Instruction
    BY Zenon, <2>2, <2>3 DEF BottomInv
  <2>5. CASE k = 1
    <3>1. stack[1].op \in finalized => stack[1].kind = "execute" /\ stack[1].start
      <4>1. ~(stack[1].op < stack[1].op)
        BY Zenon, <2>4, OpsAreOrdered
      <4>2. stack[1].kind = "execute" => stack[1].kind # "finalize"
        OBVIOUS
      <4> QED
        BY ZenonT(40), <2>4, <4>1, <4>2
    <3>2. ASSUME NEW e \in Instruction, e.kind = "execute", e.start
          PROVE  e = Execute(e.op, TRUE)
      BY ZenonT(40), <3>2 DEF Instruction, Execute
    <3>3. stack[1].op > exhausted
      BY <2>2, <2>4, StackAssumption DEF Ops
    <3> QED
      BY ZenonT(40), <2>4, <2>5, <3>1, <3>2, <3>3
  <2>6. CASE k \in 2 .. n
    <3>1. \/ stack[1].op < stack[k].op
          \/ stack[1].kind = "finalize" /\ stack[1].op = stack[k].op
      BY ZenonT(40), <2>3, <2>6 DEF AboveInv
    <3>2. stack[k].op > exhausted
      BY <2>2, <2>4, <3>1, StackAssumption DEF Ops
    <3>3. stack[k].op \notin finalized
      <4>1. ~(stack[1].op < stack[k].op /\ (stack[k].op < stack[1].op \/ stack[k].op = stack[1].op))
            /\ ~(stack[1].op < stack[1].op)
        BY Zenon, <2>4, OpsAreOrdered
      <4>2. stack[1].kind = "finalize" => stack[1].kind # "execute"
        OBVIOUS
      <4> QED
        BY ZenonT(40), <2>4, <3>1, <4>1, <4>2
    <3> QED
      BY Zenon, <3>2, <3>3
  <2> QED
    BY Zenon, <2>2, <2>5, <2>6
<1>4. OkMeansFinalized
  BY Zenon DEF StackInv, DoneInv, OkMeansFinalized
<1> QED
  BY Zenon, <1>1, <1>2, <1>3, <1>4 DEF PipelineInOrder

(* A pipeline of any length consumes a batch before its buffer is written  *)
(* again, never runs an operator that answered Exhausted or Finalized, and *)
(* is Ok only when it has finalized every operator it did not cut off      *)
(* (ExecutionStack and ExecutablePartitionPipeline::poll_execute).         *)
THEOREM PipelinesRunInOrder == StackSpec => []PipelineInOrder
<1>1. StackInv => PipelineInOrder
  BY StackInvInOrder
<1> QED
  BY <1>1, StackInvariance, PTL
=============================================================================
