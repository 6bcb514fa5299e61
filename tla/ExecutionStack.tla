---------------------------- MODULE ExecutionStack ----------------------------
(***************************************************************************)
(* One partition pipeline (execution/partition_pipeline.rs) driven by its  *)
(* instruction stack (execution/execution_stack.rs).  Operator 0 is the    *)
(* source and operator N - 1 the sink.  An action pops one instruction and *)
(* calls one operator; what the operator answers is free within the        *)
(* contract of its kind.  Batches are abstracted to whether the output     *)
(* buffer of an operator holds a batch its consumer has yet to take.       *)
(***************************************************************************)
EXTENDS Integers, Sequences

CONSTANTS N,         \* number of operators
          MaxOutputs \* bound: Pending answers and batches produced

ASSUME StackAssumption == N \in Nat \ {0, 1} /\ MaxOutputs \in Nat

VARIABLES
    stack,      \* instructions, the top of the stack last
    full,       \* operators whose output buffer holds a batch not yet taken
    status,     \* where poll_execute is: running, or what it returned
    exhausted,  \* last operator that answered Exhausted, or -1
    finalized,  \* operators whose finalize answered Finalized or NeedsDrain
    failed,     \* ghost: some poll of this pipeline returned an error
    outputs     \* answers used, bounded by MaxOutputs

stackVars == <<stack, full, status, exhausted, finalized, failed, outputs>>

Ops == 0 .. N - 1
Sink == N - 1
Execute(i, start) == [kind |-> "execute", op |-> i, start |-> start]
Finalize(i) == [kind |-> "finalize", op |-> i, start |-> FALSE]
Instruction == [kind : {"execute", "finalize"}, op : Ops, start : BOOLEAN]

StackTypeOK ==
    /\ stack \in Seq(Instruction)
    /\ full \subseteq Ops \ {Sink}
    /\ status \in {"running", "pending", "ok", "err"}
    /\ exhausted \in -1 .. N - 2
    /\ finalized \subseteq Ops \ {0}
    /\ failed \in BOOLEAN
    /\ outputs \in 0 .. MaxOutputs

Top == stack[Len(stack)]
Rest == SubSeq(stack, 1, Len(stack) - 1)
Answer(r) == stack # <<>> /\ status = "running" /\ Top.kind = r

(* ExecutionStack::new and ExecutablePartitionPipeline::new.               *)
StackInit ==
    /\ stack = <<Execute(0, TRUE)>>
    /\ full = {}
    /\ status = "running"
    /\ exhausted = -1
    /\ finalized = {}
    /\ failed = FALSE
    /\ outputs = 0

Produce == outputs < MaxOutputs /\ outputs' = outputs + 1

-----------------------------------------------------------------------------
(* handle_execute for the operator on top of the stack.  The source pulls, *)
(* the sink pushes, an operator between them takes the batch of its child  *)
(* and writes its own; a draining operator (start, not 0) has no input.    *)
Consume(top) == IF top.start THEN full ELSE full \ {top.op - 1}

(* The operator took its input and wrote its output.                       *)
MutKeepStart(top) == <<>>
KeepStart(top) == IF top.start THEN <<top>> ELSE <<>>

Ready ==
    /\ Answer("execute") /\ Top.op \notin {0, Sink}
    /\ Top.start => Produce
    /\ ~Top.start => UNCHANGED outputs
    /\ stack' = Rest \o KeepStart(Top) \o <<Execute(Top.op + 1, FALSE)>>
    /\ full' = Consume(Top) \cup {Top.op}
    /\ UNCHANGED <<status, exhausted, finalized, failed>>

(* A waker is stored and the same instruction runs on the next poll.       *)
ExecutePending ==
    /\ Answer("execute")
    /\ Produce
    /\ status' = "pending"
    /\ UNCHANGED <<stack, full, exhausted, finalized, failed>>

(* The operator took its input and wrote nothing; for the sink this is a   *)
(* batch pushed.  It is not called again for this batch.                   *)
AfterNeedsMore(top) == <<>>

NeedsMore ==
    /\ Answer("execute") /\ Top.op # 0 /\ ~Top.start
    /\ stack' = Rest \o AfterNeedsMore(Top)
    /\ full' = Consume(Top)
    /\ UNCHANGED <<status, exhausted, finalized, failed, outputs>>

(* The operator wrote a batch and wants to be called again with the same   *)
(* input, once the batch went down the pipeline.                           *)
MutPushNextFirst(top) == <<Execute(top.op + 1, FALSE), top>>
PushAgain(top) == <<top, Execute(top.op + 1, FALSE)>>

HasMore ==
    /\ Answer("execute") /\ Top.op # Sink
    /\ Produce
    /\ stack' = Rest \o PushAgain(Top)
    /\ full' = full \cup {Top.op}
    /\ UNCHANGED <<status, exhausted, finalized, failed>>

(* The operator wrote its last batch.  Everything below it in the pipeline *)
(* is dropped from the stack; the next operator runs, then finalizes.      *)
MutAfterExhausted(i) == <<Execute(i + 1, FALSE), Finalize(i + 1)>>
MutAfterExhaustedKeeps(i) == Rest \o <<Finalize(i + 1), Execute(i + 1, FALSE)>>
AfterExhausted(i) == <<Finalize(i + 1), Execute(i + 1, FALSE)>>

Exhausted ==
    /\ Answer("execute") /\ Top.op # Sink
    /\ stack' = AfterExhausted(Top.op)
    /\ full' = {Top.op}
    /\ exhausted' = Top.op
    /\ UNCHANGED <<status, finalized, failed, outputs>>

-----------------------------------------------------------------------------
(* handle_finalize for the operator on top of the stack.                   *)
FinalizeOk ==
    /\ Answer("finalize")
    /\ finalized' = finalized \cup {Top.op}
    /\ stack' = IF Top.op = Sink THEN Rest ELSE Append(Rest, Finalize(Top.op + 1))
    /\ status' = IF Top.op = Sink THEN "ok" ELSE status
    /\ UNCHANGED <<full, exhausted, failed, outputs>>

NeedsDrain ==
    /\ Answer("finalize") /\ Top.op # Sink
    /\ finalized' = finalized \cup {Top.op}
    /\ stack' = Append(Rest, Execute(Top.op, TRUE))
    /\ UNCHANGED <<full, status, exhausted, failed, outputs>>

FinalizePending ==
    /\ Answer("finalize")
    /\ Produce
    /\ status' = "pending"
    /\ UNCHANGED <<stack, full, exhausted, finalized, failed>>

(* An operator fails: the popped instruction is not put back.              *)
Fail ==
    /\ status = "running" /\ stack # <<>>
    /\ stack' = Rest
    /\ status' = "err"
    /\ failed' = TRUE
    /\ UNCHANGED <<full, exhausted, finalized, outputs>>

(* Popping an empty stack.                                                 *)
Empty ==
    /\ status = "running" /\ stack = <<>>
    /\ status' = "ok"
    /\ UNCHANGED <<stack, full, exhausted, finalized, failed, outputs>>

(* The scheduler polls again.  It does so after an error too, when a wake  *)
(* is pending: only a poll that returned Ok is final (TaskScheduler).      *)
Repoll ==
    /\ status = "pending" \/ (status = "err" /\ outputs < MaxOutputs)
    /\ status' = "running"
    /\ outputs' = IF status = "err" THEN outputs + 1 ELSE outputs
    /\ UNCHANGED <<stack, full, exhausted, finalized, failed>>

-----------------------------------------------------------------------------
Pop ==
    \/ Ready \/ ExecutePending \/ NeedsMore \/ HasMore \/ Exhausted
    \/ FinalizeOk \/ NeedsDrain \/ FinalizePending
    \/ Empty

StackNext == Pop \/ Fail \/ Repoll

StackSpec == StackInit /\ [][StackNext]_stackVars

(* poll_execute loops until an operator is pending, and a pending pipeline *)
(* is woken: the wake contract of TaskScheduler.                           *)
StackFairSpec == StackSpec /\ WF_stackVars(Pop) /\ WF_stackVars(Repoll)
-----------------------------------------------------------------------------
(* Without an error, the bottom instruction finalizes an operator or runs  *)
(* the start of the pipeline, and the others run operators further and     *)
(* further down: pop_next never finalizes operator 0 and no operator has   *)
(* two instructions to execute.                                            *)
StackShape ==
    ~failed /\ stack # <<>> =>
        /\ stack[1].kind = "finalize" \/ stack[1].start
        /\ stack[1].kind = "finalize" => stack[1].op # 0
        /\ \A k \in 2 .. Len(stack) :
              /\ stack[k].kind = "execute" /\ ~stack[k].start
              /\ \/ stack[k - 1].op < stack[k].op
                 \/ k = 2 /\ stack[1] = Finalize(stack[2].op)

(* An operator never runs without a batch from its child and never writes  *)
(* over a batch the next operator has not taken, however Ready, NeedsMore, *)
(* HasMore and Pending alternate.                                          *)
BuffersRespected ==
    (~failed /\ stack # <<>> /\ Top.kind = "execute") =>
        /\ Top.op \notin full
        /\ ~Top.start => Top.op - 1 \in full

(* "prevent this operator and any child operators within that pipeline     *)
(* from being executed again" (PollExecute::Exhausted), and "poll_execute  *)
(* will not be called after this is returned" (PollFinalize::Finalized)    *)
(* except to drain.                                                        *)
ExhaustedIsFinal ==
    ~failed => \A k \in 1 .. Len(stack) :
        /\ stack[k].op > exhausted
        /\ stack[k].op \in finalized => stack[k] = Execute(stack[k].op, TRUE)

(* Without an error, a completed pipeline has taken every batch out of its *)
(* buffers and has finalized every operator that did not cut the pipeline  *)
(* short.                                                                  *)
OkMeansFinalized ==
    status = "ok" /\ ~failed =>
        full = {} /\ \A i \in Ops \ {0} : i > exhausted => i \in finalized

(* A pipeline (execution_stack.rs) consumes a batch before its buffer is   *)
(* written again, never runs an operator that answered Exhausted or        *)
(* Finalized, and is Ok only when it has finalized every operator it did   *)
(* not cut off.                                                            *)
PipelineInOrder == StackShape /\ BuffersRespected /\ ExhaustedIsFinal /\ OkMeansFinalized
=============================================================================
