---------------------------- MODULE TaskScheduler ----------------------------
(***************************************************************************)
(* The native scheduler of partition pipelines (glaredb_rt_native,         *)
(* threaded/).  Every partition pipeline of a query is one task.  A waker  *)
(* of the task is its `schedule` method: it either marks the task pending, *)
(* when a job of the task is in flight, or spawns a job on the thread pool *)
(* that polls the pipeline until nobody asked for another poll.            *)
(*                                                                         *)
(* The lock `sched_state` is never held across a poll, so a wake may fall  *)
(* anywhere between the start of a poll and the moment the job re-takes    *)
(* the lock.  The model keeps these three points apart: a job is picked up *)
(* (BeginPoll), its poll returns (EndPoll), it re-takes the lock (Settle). *)
(***************************************************************************)
EXTENDS Naturals

CONSTANTS Tasks,      \* partition pipelines of the query
          Workers,    \* threads of the rayon pool
          MaxWakes,   \* bound: wakes by operators and by the outside
          NoTask      \* what an idle thread runs

ASSUME TaskAssumption ==
    /\ NoTask \notin Tasks
    /\ MaxWakes \in Nat

VARIABLES
    running, pending, completed, canceled,
                \* ScheduleState: the tasks whose flag is set
    queued,     \* number of jobs of a task spawned and not yet picked up
    job,        \* the task whose job a pool thread runs
    stage,      \* where in that job it is
    cancelling, \* how far cancel() got with every task
    phase,      \* task not yet spawned, spawned, or polled at least once
    errors,     \* has ErrorSink::set_error been called?
    profiles,   \* number of profiles a task put in its profile sink
    wakes       \* wakes used, bounded by MaxWakes

flags == <<running, pending, completed, canceled>>
vars == <<flags, queued, job, stage, cancelling, phase, errors, profiles, wakes>>

PollResult == {"ok", "err", "pending"}

TypeOK ==
    /\ running \subseteq Tasks
    /\ pending \subseteq Tasks
    /\ completed \subseteq Tasks
    /\ canceled \subseteq Tasks
    /\ queued \in [Tasks -> Nat]
    /\ job \in [Workers -> Tasks \cup {NoTask}]
    /\ stage \in [Workers -> {"idle", "executing"} \cup PollResult]
    /\ cancelling \in [Tasks -> {"no", "flagged", "done"}]
    /\ phase \in [Tasks -> {"new", "spawned", "polled"}]
    /\ errors \in BOOLEAN
    /\ profiles \in [Tasks -> Nat]
    /\ wakes \in 0..MaxWakes

-----------------------------------------------------------------------------
(* The tests of schedule() that follow the one of `completed`.             *)
MutRefusesIdleOnly(t) == t \in canceled \ running
Refuses(t) == t \in canceled

MutSpawnsAlways(t) == TRUE
SpawnsJob(t) == t \notin running

(* TaskState::schedule, one critical section of sched_state.  spawn only   *)
(* queues the job.                                                         *)
schedule(t) ==
    \/ /\ t \in completed
       /\ UNCHANGED <<flags, queued, errors>>
    \/ /\ t \notin completed /\ Refuses(t)
       /\ errors' = TRUE
       /\ UNCHANGED <<flags, queued>>
    \/ /\ t \notin completed /\ ~Refuses(t) /\ ~SpawnsJob(t)
       /\ pending' = pending \cup {t}
       /\ UNCHANGED <<running, completed, canceled, queued, errors>>
    \/ /\ t \notin completed /\ ~Refuses(t) /\ SpawnsJob(t)
       /\ running' = running \cup {t}
       /\ queued' = [queued EXCEPT ![t] = @ + 1]
       /\ UNCHANGED <<pending, completed, canceled, errors>>

(* spawn_pipelines: fresh task states, then one schedule() per task.       *)
Init ==
    /\ running = {} /\ pending = {} /\ completed = {} /\ canceled = {}
    /\ queued = [t \in Tasks |-> 0]
    /\ job = [w \in Workers |-> NoTask]
    /\ stage = [w \in Workers |-> "idle"]
    /\ cancelling = [t \in Tasks |-> "no"]
    /\ phase = [t \in Tasks |-> "new"]
    /\ errors = FALSE
    /\ profiles = [t \in Tasks |-> 0]
    /\ wakes = 0

Spawn(t) ==
    /\ phase[t] = "new"
    /\ phase' = [phase EXCEPT ![t] = "spawned"]
    /\ schedule(t)
    /\ UNCHANGED <<job, stage, cancelling, profiles, wakes>>

(* A waker is a clone of the task made inside execute(), so a task can be  *)
(* woken by anybody at any time once it has been polled.                   *)
Wake(t) ==
    /\ phase[t] = "polled"
    /\ wakes < MaxWakes
    /\ wakes' = wakes + 1
    /\ schedule(t)
    /\ UNCHANGED <<job, stage, cancelling, phase, profiles>>

(* ThreadedQueryHandle::cancel walks the tasks one after the other: it     *)
(* sets `canceled` under the lock, releases it, then calls schedule().     *)
Cancel(t) ==
    /\ \A u \in Tasks : phase[u] # "new" /\ cancelling[u] # "flagged"
    /\ cancelling[t] = "no"
    /\ cancelling' = [cancelling EXCEPT ![t] = "flagged"]
    /\ canceled' = canceled \cup {t}
    /\ UNCHANGED <<running, pending, completed, queued, job, stage, phase,
                   errors, profiles, wakes>>

CancelSchedule(t) ==
    /\ cancelling[t] = "flagged"
    /\ cancelling' = [cancelling EXCEPT ![t] = "done"]
    /\ schedule(t)
    /\ UNCHANGED <<job, stage, phase, profiles, wakes>>

-----------------------------------------------------------------------------
MutHasJob(t) == t \in running
HasJob(t) == queued[t] > 0

(* The job.  A pool thread enters execute() and takes the pipeline lock.   *)
BeginPoll(w, t) ==
    /\ job[w] = NoTask
    /\ HasJob(t)
    /\ \A v \in Workers : ~(job[v] = t /\ stage[v] = "executing")
    /\ queued' = [queued EXCEPT ![t] = @ - 1]
    /\ job' = [job EXCEPT ![w] = t]
    /\ stage' = [stage EXCEPT ![w] = "executing"]
    /\ phase' = [phase EXCEPT ![t] = "polled"]
    /\ UNCHANGED <<flags, cancelling, errors, profiles, wakes>>

(* execute() returns: a finished pipeline puts its profile, a failed one   *)
(* sets the query error, a pending one stored its waker somewhere.         *)
EndPoll(w, r) ==
    /\ stage[w] = "executing"
    /\ stage' = [stage EXCEPT ![w] = r]
    /\ profiles' = IF r = "ok" THEN [profiles EXCEPT ![job[w]] = @ + 1] ELSE profiles
    /\ errors' = (errors \/ r = "err")
    /\ UNCHANGED <<flags, queued, job, cancelling, phase, wakes>>

(* The job re-takes sched_state and records whether the pipeline           *)
(* completed.  It polls again only when it is marked and not complete; a   *)
(* complete and marked task keeps `running`.                               *)
SetCompleted(w) ==
    completed' = IF stage[w] = "ok" THEN completed \cup {job[w]}
                                    ELSE completed \ {job[w]}

EndJob(w) ==
    /\ job' = [job EXCEPT ![w] = NoTask]
    /\ stage' = [stage EXCEPT ![w] = "idle"]

MutPollsAgainNever(w) == FALSE
MutPollsAgainCompleted(w) == job[w] \in pending
PollsAgain(w) == job[w] \in pending /\ stage[w] # "ok"

Settle(w) ==
    /\ stage[w] \in PollResult
    /\ SetCompleted(w)
    /\ pending' = pending \ {job[w]}
    /\ running' = IF job[w] \in pending THEN running ELSE running \ {job[w]}
    /\ \/ PollsAgain(w) /\ stage' = [stage EXCEPT ![w] = "executing"] /\ UNCHANGED job
       \/ ~PollsAgain(w) /\ EndJob(w)
    /\ UNCHANGED <<canceled, queued, cancelling, phase, errors, profiles, wakes>>

-----------------------------------------------------------------------------
Next ==
    \/ \E t \in Tasks : Spawn(t) \/ Wake(t) \/ Cancel(t) \/ CancelSchedule(t)
    \/ \E w \in Workers, t \in Tasks : BeginPoll(w, t)
    \/ \E w \in Workers, r \in PollResult : EndPoll(w, r)
    \/ \E w \in Workers : Settle(w)

Spec == Init /\ [][Next]_vars

(* The caller runs spawn_pipelines and cancel to their end, the pool runs  *)
(* every job it was given and every poll returns.                          *)
Fairness ==
    /\ \A t \in Tasks : WF_vars(Spawn(t)) /\ WF_vars(CancelSchedule(t))
    /\ \A t \in Tasks : WF_vars(\E w \in Workers : BeginPoll(w, t))
    /\ \A w \in Workers : WF_vars(\E r \in PollResult : EndPoll(w, r))
    /\ \A w \in Workers : WF_vars(Settle(w))

FairSpec == Spec /\ Fairness
-----------------------------------------------------------------------------
(* A task has at most one job, queued or on a thread: schedule() spawns    *)
(* only when `running` was clear and only the job itself clears it.        *)
AtMostOneJob ==
    \A t \in Tasks :
        /\ queued[t] \in {0, 1}
        /\ \A v, w \in Workers : job[v] = t =>
              queued[t] = 0 /\ (job[w] = t => v = w)

(* No wake is lost: a task marked pending is always in the hands of a job  *)
(* that has yet to look at the mark (task.rs, schedule and its job loop).  *)
NoLostWake ==
    \A t \in pending :
        t \in running /\ (queued[t] = 1 \/ \E w \in Workers : job[w] = t)

(* "We'll never execute again": once a poll of the pipeline returned Ok no *)
(* later wake, however it interleaves with the job, polls it again, and    *)
(* the task puts exactly one profile.                                      *)
NeverExecuteAgain ==
    \A t \in Tasks :
        /\ profiles[t] <= 1
        /\ queued[t] > 0 => profiles[t] = 0
        /\ \A w \in Workers : (job[w] = t /\ stage[w] = "executing")
              => profiles[t] = 0

(* Once cancel() returned from schedule(), the query has an error or the   *)
(* task really completed: a cancellation is never swallowed.               *)
CancelReported ==
    \A t \in Tasks : cancelling[t] = "done" => errors \/ t \in completed

-----------------------------------------------------------------------------
(* What the operators rely on, with the task states hidden.                *)
Finished ==
    completed \cup {t \in Tasks : \E w \in Workers : job[w] = t /\ stage[w] = "ok"}
Polling ==
    {t \in Tasks : \E w \in Workers : job[w] = t /\ stage[w] = "executing"}
Notified ==
    {t \in Tasks \ Finished : queued[t] > 0 \/ t \in pending}

Contract == INSTANCE WakeContract WITH
    notified <- Notified, polling <- Polling, finished <- Finished

(* schedule() and the job loop keep the contract of a waker: an accepted   *)
(* wake is followed by a poll that begins after it, polls of one task do   *)
(* not overlap, and a finished or canceled task takes no new wake.         *)
KeepsWakeContract == Contract!Spec

(* Every notified task is polled, or finishes, whatever the interleaving   *)
(* of wakes with the tail of its job.                                      *)
NotifiedIsPolled == Contract!NotifiedIsPolled
=============================================================================
