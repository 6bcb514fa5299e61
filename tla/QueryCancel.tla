----------------------------- MODULE QueryCancel -----------------------------
(***************************************************************************)
(* Cancelling a running query: the scheduler (TaskScheduler), the result   *)
(* stream (ResultStream) and QueryHandle::cancel, composed with their      *)
(* locks.  Two lock orders meet here.  schedule() of a canceled task holds *)
(* sched_state and takes the stream's `inner` in set_error; poll_next      *)
(* holds `inner` and takes the sched_state of every partition it wakes.    *)
(* Critical sections that take no second lock are single steps.            *)
(***************************************************************************)
EXTENDS Naturals, FiniteSets

CONSTANTS Tasks,            \* partitions of the sink pipeline
          MaxBatches,       \* bound: batches a partition pushes
          ConcurrentCancel, \* may cancel() run while collect() is in use?
          Consumer, Canceler, None

VARIABLES
    innerLock,   \* holder of the stream's lock across steps, or None
    schedLock,   \* holder of a task's sched_state across steps, or None
    pc,          \* where the thread in collect() and the one in cancel() are
    cur,         \* the task such a thread is scheduling
    toWake,      \* wakers poll_next took and has yet to wake
    toCancel,    \* tasks cancel() has yet to visit
    running, pending, completed, canceled, \* ScheduleState of the tasks
    job,         \* the job of a task on the thread pool
    buffered, pushWakers, pullWaker, error, remaining, \* ResultStreamInner
    todo         \* batches a task has yet to push

locks == <<innerLock, schedLock>>
threads == <<pc, cur, toWake, toCancel>>
flags == <<running, pending, completed, canceled>>
stream == <<buffered, pushWakers, pullWaker, error, remaining>>
vars == <<locks, threads, flags, job, stream, todo>>

Threads == {Consumer, Canceler}

TypeOK ==
    /\ innerLock \in Threads \cup {None}
    /\ schedLock \in [Tasks -> Threads \cup {None}]
    /\ pc[Consumer] \in {"poll", "waiting", "locking", "scheduling", "setting_error",
                         "failed", "ended", "dropped"}
    /\ pc[Canceler] \in {"off", "visiting", "locking", "scheduling", "setting_error", "done"}
    /\ cur \in [Threads -> Tasks \cup {None}]
    /\ toWake \subseteq Tasks /\ toCancel \subseteq Tasks
    /\ \A f \in {running, pending, completed, canceled} : f \subseteq Tasks
    /\ job \in [Tasks -> {"none", "polling", "returned", "returned_ok"}]
    /\ buffered \in BOOLEAN /\ pullWaker \in BOOLEAN /\ error \in BOOLEAN
    /\ pushWakers \subseteq Tasks
    /\ remaining \in 0 .. Cardinality(Tasks)
    /\ todo \in [Tasks -> 0 .. MaxBatches]
    /\ innerLock = Consumer => pc[Consumer] \in {"locking", "scheduling", "setting_error"}

(* spawn_pipelines has scheduled every task.                               *)
Init ==
    /\ innerLock = None /\ schedLock = [t \in Tasks |-> None]
    /\ pc = [th \in Threads |-> IF th = Consumer THEN "poll" ELSE "off"]
    /\ cur = [th \in Threads |-> None]
    /\ toWake = {} /\ toCancel = Tasks
    /\ running = Tasks /\ pending = {} /\ completed = {} /\ canceled = {}
    /\ job = [t \in Tasks |-> "polling"]
    /\ buffered = FALSE /\ pushWakers = {} /\ pullWaker = FALSE /\ error = FALSE
    /\ remaining = Cardinality(Tasks)
    /\ todo \in [Tasks -> 0 .. MaxBatches]

Goto(th, l) == pc' = [pc EXCEPT ![th] = l]

(* pull_waker.take() and wake() by a thread that goes to label l.          *)
PullWoken == pullWaker /\ pc[Consumer] = "waiting"
WakePullAndGoto(th, l) ==
    /\ pullWaker' = FALSE
    /\ pc' = [x \in Threads |-> IF x = th THEN l
                                ELSE IF x = Consumer /\ PullWoken THEN "poll" ELSE pc[x]]

-----------------------------------------------------------------------------
(* TaskState::schedule on behalf of th, in up to three steps: take         *)
(* sched_state, look at the flags, and for a canceled task take `inner`    *)
(* while sched_state is held.  poll_next goes on with its next waker and   *)
(* gives `inner` back after the last one; cancel() visits the next task.   *)
Resume(th) ==
    IF th = Canceler THEN (IF toCancel = {} THEN "done" ELSE "visiting")
    ELSE (IF toWake = {} THEN "poll" ELSE "locking")
NextTask(th) ==
    IF th = Consumer /\ toWake # {}
    THEN \E t \in toWake : /\ cur' = [cur EXCEPT ![th] = t]
                           /\ toWake' = toWake \ {t}
    ELSE cur' = [cur EXCEPT ![th] = None] /\ UNCHANGED toWake
MutReleaseInner(th) == UNCHANGED innerLock
ReleaseInner(th) ==
    innerLock' = IF th = Consumer /\ toWake = {} THEN None ELSE innerLock

LockSched(th) ==
    /\ pc[th] = "locking"
    /\ schedLock[cur[th]] = None
    /\ schedLock' = [schedLock EXCEPT ![cur[th]] = th]
    /\ Goto(th, "scheduling")
    /\ UNCHANGED <<innerLock, cur, toWake, toCancel, flags, job, stream, todo>>

ScheduleFlags(t) ==
    \/ t \in completed /\ UNCHANGED <<running, pending, job>>
    \/ /\ t \in running \ completed
       /\ pending' = pending \cup {t}
       /\ UNCHANGED <<running, job>>
    \/ /\ t \notin running \cup completed
       /\ running' = running \cup {t}
       /\ job' = [job EXCEPT ![t] = "polling"]
       /\ UNCHANGED pending

Schedule(th) ==
    LET t == cur[th] IN
    /\ pc[th] = "scheduling"
    /\ t \in completed \/ t \notin canceled
    /\ ScheduleFlags(t)
    /\ schedLock' = [schedLock EXCEPT ![t] = None]
    /\ ReleaseInner(th)
    /\ Goto(th, Resume(th))
    /\ NextTask(th)
    /\ UNCHANGED <<toCancel, completed, canceled, stream, todo>>

ScheduleCanceled(th) ==
    /\ pc[th] = "scheduling"
    /\ cur[th] \notin completed /\ cur[th] \in canceled
    /\ Goto(th, "setting_error")
    /\ UNCHANGED <<locks, cur, toWake, toCancel, flags, job, stream, todo>>

SetError(th) ==
    /\ pc[th] = "setting_error"
    /\ innerLock = None
    /\ error' = TRUE
    /\ schedLock' = [schedLock EXCEPT ![cur[th]] = None]
    /\ WakePullAndGoto(th, Resume(th))
    /\ NextTask(th)
    /\ UNCHANGED <<innerLock, toCancel, flags, job, buffered, pushWakers, remaining, todo>>

-----------------------------------------------------------------------------
(* ThreadedQueryHandle::cancel visits every task: it sets `canceled` under *)
(* the lock, gives the lock back and calls schedule().                     *)
MayCancel == ConcurrentCancel \/ pc[Consumer] = "dropped"

Visit(t) ==
    /\ pc[Canceler] = "visiting" \/ (pc[Canceler] = "off" /\ MayCancel)
    /\ t \in toCancel
    /\ schedLock[t] = None
    /\ canceled' = canceled \cup {t}
    /\ toCancel' = toCancel \ {t}
    /\ cur' = [cur EXCEPT ![Canceler] = t]
    /\ Goto(Canceler, "locking")
    /\ UNCHANGED <<locks, toWake, running, pending, completed, job, stream, todo>>

-----------------------------------------------------------------------------
(* ResultStream::poll_next.                                                *)
PollBatch ==
    /\ pc[Consumer] = "poll" /\ innerLock = None
    /\ ~error /\ buffered
    /\ buffered' = FALSE
    /\ pushWakers' = {}
    /\ \/ /\ pushWakers = {}
          /\ UNCHANGED <<innerLock, pc, cur, toWake>>
       \/ \E t \in pushWakers :
             /\ innerLock' = Consumer
             /\ cur' = [cur EXCEPT ![Consumer] = t]
             /\ toWake' = pushWakers \ {t}
             /\ Goto(Consumer, "locking")
    /\ UNCHANGED <<schedLock, toCancel, flags, job, pullWaker, error, remaining, todo>>

PollOther ==
    /\ pc[Consumer] = "poll" /\ innerLock = None
    /\ \/ error /\ error' = FALSE /\ Goto(Consumer, "failed") /\ UNCHANGED pullWaker
       \/ /\ ~error /\ ~buffered /\ remaining = 0
          /\ Goto(Consumer, "ended") /\ UNCHANGED <<error, pullWaker>>
       \/ /\ ~error /\ ~buffered /\ remaining > 0
          /\ pullWaker' = TRUE /\ Goto(Consumer, "waiting") /\ UNCHANGED error
    /\ UNCHANGED <<locks, cur, toWake, toCancel, flags, job, buffered, pushWakers,
                   remaining, todo>>

(* The future of collect() is dropped, as a select! on a timeout does.     *)
Drop ==
    /\ pc[Consumer] \in {"poll", "waiting"}
    /\ Goto(Consumer, "dropped")
    /\ UNCHANGED <<locks, cur, toWake, toCancel, flags, job, stream, todo>>

-----------------------------------------------------------------------------
(* The job of a task: poll_push and poll_finalize_push, one lock of inner  *)
(* each, until a push is pending or the pipeline is done.                  *)
PollPush(t) ==
    /\ job[t] = "polling" /\ innerLock = None
    /\ todo[t] > 0
    /\ \/ /\ ~buffered
          /\ buffered' = TRUE
          /\ todo' = [todo EXCEPT ![t] = @ - 1]
          /\ UNCHANGED <<pushWakers, job>>
       \/ /\ buffered
          /\ pushWakers' = pushWakers \cup {t}
          /\ job' = [job EXCEPT ![t] = "returned"]
          /\ UNCHANGED <<buffered, todo>>
    /\ WakePullAndGoto(None, None)
    /\ UNCHANGED <<locks, cur, toWake, toCancel, flags, error, remaining>>

PollFinalizePush(t) ==
    /\ job[t] = "polling" /\ innerLock = None
    /\ todo[t] = 0
    /\ remaining' = remaining - 1
    /\ job' = [job EXCEPT ![t] = "returned_ok"]
    /\ WakePullAndGoto(None, None)
    /\ UNCHANGED <<locks, cur, toWake, toCancel, flags, buffered, pushWakers, error, todo>>

PollsAgain(t) == t \in pending /\ job[t] = "returned"

(* The tail of the job loop, one lock of sched_state.                      *)
Settle(t) ==
    /\ job[t] \in {"returned", "returned_ok"} /\ schedLock[t] = None
    /\ completed' = IF job[t] = "returned_ok" THEN completed \cup {t} ELSE completed
    /\ pending' = pending \ {t}
    /\ running' = IF t \in pending THEN running ELSE running \ {t}
    /\ job' = [job EXCEPT ![t] = IF PollsAgain(t) THEN "polling" ELSE "none"]
    /\ UNCHANGED <<locks, threads, canceled, stream, todo>>

-----------------------------------------------------------------------------
Thread(th) == LockSched(th) \/ Schedule(th) \/ ScheduleCanceled(th) \/ SetError(th)
Collect == PollBatch \/ PollOther \/ Thread(Consumer)
Cancel == (\E t \in Tasks : Visit(t)) \/ Thread(Canceler)
Job(t) == PollPush(t) \/ PollFinalizePush(t) \/ Settle(t)

Next == Collect \/ Drop \/ Cancel \/ \E t \in Tasks : Job(t)

(* collect() is polled after a wake, the pool runs every job, and a call   *)
(* of cancel() keeps running.                                              *)
FairSpec ==
    /\ Init /\ [][Next]_vars
    /\ WF_vars(Collect)
    /\ WF_vars(pc[Canceler] # "off" /\ Cancel)
    /\ \A t \in Tasks : WF_vars(Job(t))
-----------------------------------------------------------------------------
(* "Re-execute the pipeline so it picks up the set bool. This lets us      *)
(* cancel the pipeline regardless of if it's pending." (handle.rs): after  *)
(* cancel() collect() gets the error, or had ended or gone before.         *)
CancelEndsQuery ==
    pc[Canceler] # "off" ~> pc[Consumer] \in {"failed", "ended", "dropped"}
=============================================================================
