---------------------------- MODULE MCExecution ----------------------------
(***************************************************************************)
(* The machinery under a query, checked part by part: a behaviour picks a  *)
(* component and runs that alone, the others rest in their initial state.  *)
(***************************************************************************)
EXTENDS TaskScheduler, ExecutionStack, ResultStream

CONSTANTS
    Components,        \* the components to run
    Consumer, Canceler \* of QueryCancel

VARIABLES
    component,
    innerLock, schedLock, pc, cur, toWake, toCancel, cRunning, cPending, cCompleted,
    cCanceled, cJob, cBuffered, cPushWakers, cPullWaker, cError, cRemaining, cTodo

Dropped == INSTANCE QueryCancel WITH
    ConcurrentCancel <- FALSE,
    running <- cRunning, pending <- cPending, completed <- cCompleted,
    canceled <- cCanceled, job <- cJob, buffered <- cBuffered,
    pushWakers <- cPushWakers, pullWaker <- cPullWaker, error <- cError,
    remaining <- cRemaining, todo <- cTodo

cancelVars == <<innerLock, schedLock, pc, cur, toWake, toCancel, cRunning, cPending,
                cCompleted, cCanceled, cJob, cBuffered, cPushWakers, cPullWaker, cError,
                cRemaining, cTodo>>

Idle(c, input, S) == component # c => \A x \in S : input[x] = 0

MCInit ==
    /\ component \in Components
    /\ Init /\ StackInit
    /\ StreamInit /\ Idle("stream", todo, Partitions)
    /\ Dropped!Init /\ Idle("cancel", cTodo, Tasks)

Scheduler == component = "scheduler" /\ Next
    /\ UNCHANGED <<component, stackVars, streamVars, cancelVars>>
RunStack == component = "stack" /\ StackNext
    /\ UNCHANGED <<component, vars, streamVars, cancelVars>>
RunStream == component = "stream" /\ StreamNext
    /\ UNCHANGED <<component, vars, stackVars, cancelVars>>
RunCancel == component = "cancel" /\ Dropped!Next
    /\ UNCHANGED <<component, vars, stackVars, streamVars>>

MCNext == Scheduler \/ RunStack \/ RunStream \/ RunCancel
MCvars == <<component, vars, stackVars, streamVars, cancelVars>>

(* The fairness of each module, while it is the one that runs.             *)
SchedulerFairness ==
    /\ \A t \in Tasks :
          /\ WF_vars(component = "scheduler" /\ Spawn(t))
          /\ WF_vars(component = "scheduler" /\ CancelSchedule(t))
          /\ WF_vars(component = "scheduler" /\ \E w \in Workers : BeginPoll(w, t))
    /\ \A w \in Workers :
          /\ WF_vars(component = "scheduler" /\ \E r \in PollResult : EndPoll(w, r))
          /\ WF_vars(component = "scheduler" /\ Settle(w))
StackFairness ==
    /\ WF_stackVars(component = "stack" /\ Pop)
    /\ WF_stackVars(component = "stack" /\ Repoll)
StreamFairness ==
    /\ WF_streamVars(component = "stream" /\ Poll)
    /\ \A p \in Partitions : WF_streamVars(component = "stream" /\ Work(p))
CancelFairness ==
    /\ WF_cancelVars(component = "cancel" /\ Dropped!Collect)
    /\ WF_cancelVars(component = "cancel" /\ pc[Canceler] # "off" /\ Dropped!Cancel)
    /\ \A t \in Tasks : WF_cancelVars(component = "cancel" /\ Dropped!Job(t))

MCSpec ==
    MCInit /\ [][MCNext]_MCvars
    /\ SchedulerFairness /\ StackFairness /\ StreamFairness /\ CancelFairness
-----------------------------------------------------------------------------
(* The state of every component is well formed.                            *)
TypesOK == TypeOK /\ StackTypeOK /\ StreamTypeOK /\ Dropped!TypeOK

(* Every notified task is polled or finishes, a pipeline returns when its  *)
(* operators do, and collect() returns.                                    *)
QueriesReturn ==
    /\ component = "scheduler" => NotifiedIsPolled
    /\ <>[]CASE component = "stack" -> status \in {"ok", "err"}
             [] component = "stream" -> consumer \in {"failed", "profiled"}
             [] OTHER -> TRUE

(* cancel() of a query whose stream was dropped (as glaredb_slt does)      *)
(* returns, and the query leaves the thread pool for good.                 *)
CanceledQueryRests ==
    pc[Canceler] # "off" ~>
        [](pc[Canceler] = "done" /\ \A t \in Tasks : cJob[t] = "none")
=============================================================================
