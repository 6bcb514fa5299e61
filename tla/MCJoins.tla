------------------------------ MODULE MCJoins ------------------------------
(***************************************************************************)
(* The join operators, checked one at a time: a behaviour picks one and    *)
(* runs it, the others rest in their initial state.                        *)
(***************************************************************************)
EXTENDS JoinProofs, TLC

(* Two partitions of up to two left rows and up to two right rows, keys    *)
(* that match, that do not, and NULL.                                      *)
MCKeys == {"k1", "k2", Null}
MCLeftInputs == {<<>>, <<"k1">>, <<"k2", Null>>}
MCRightInputs == {<<>>, <<"k1">>, <<Null, "k1">>}

(* Three partitions of one and two rows, two directory positions, one of   *)
(* them wanted by all.                                                     *)
MCOwner == "a1" :> "p1" @@ "a2" :> "p1" @@ "b1" :> "p2" @@ "b2" :> "p2" @@ "c1" :> "p3"
MCRows == DOMAIN MCOwner
MCPos == [r \in MCRows |-> IF r = "b2" THEN 1 ELSE 0]

(* Four left rows in three batches from two build partitions, three right  *)
(* rows in three batches for two probe partitions.                         *)
MCBuildInput == "a" :> <<<<"l1">>, <<"l2", "l3">>>> @@ "b" :> <<<<"l4">>>>
MCProbeInput == "p" :> <<<<"r1">>, <<"r2">>>> @@ "q" :> <<<<"r3">>>>
MCOutput == [s \in {"p", "q"} |-> "drain"]
MCFirstSegment == "p" :> 0 @@ "q" :> 1
MCOn == {<<"l1", "r1">>, <<"l1", "r3">>, <<"l3", "r3">>}

(* The fairness of each module, while it is the one that runs.             *)
HashFairness == \A p \in Partitions :
    /\ WF_vars(operator = "hash" /\ Build(p))
    /\ WF_vars(operator = "hash" /\ Probe(p))
    /\ WF_<<vars, limitVars>>(operator = "limit" /\ Build(p) /\ UNCHANGED limitVars)
    /\ WF_<<vars, limitVars>>(operator = "limit" /\ ProbePipeline(p))
ChainFairness == \A p \in Inserters :
    /\ WF_chainVars(operator = "chains" /\ Insert(p))
    /\ SF_chainVars(operator = "chains" /\ InsertOccupied(p))
    /\ WF_chainVars(operator = "chains" /\ Retry(p) /\ ~Unchanged(p))
LoopFairness ==
    /\ \A b \in Appenders : WF_loopVars(operator = "loop" /\ Loops!Build(b))
    /\ \A p \in Scanners : WF_loopVars(operator = "loop" /\ Loops!Probe(p))

MCSpec == JoinsSpec /\ HashFairness /\ ChainFairness /\ LoopFairness
-----------------------------------------------------------------------------
(* The state of every join is well formed.                                 *)
TypesOK ==
    CASE operator \in {"hash", "limit"} -> TypeOK
      [] operator = "chains" -> ChainTypeOK
      [] operator = "loop" -> Loops!TypeOK

(* Up to three blocks of one or two rows, batches of one to three rows.    *)
BlockSizes == UNION {[0 .. n - 1 -> 1 .. 2] : n \in 1 .. 3}
DrainInBlocks == DrainResumes(BlockSizes, 1 .. 2, 1 .. 3)

(* The other joins: under a LIMIT a hash join returns as many rows as the  *)
(* limit allows, a nested loop join returns the rows of the SQL join, each *)
(* once, and waits only for what is yet to happen, and a row is in its     *)
(* chain of the hash table once it is inserted.  A drain that stops inside *)
(* a block of the hash join goes on behind the last row it returned; this  *)
(* depends on no state and is evaluated in one.                            *)
OtherJoinsAnswer ==
    CASE operator = "hash" -> TRUE
      [] operator = "limit" -> LimitedAnswer
      [] operator = "loop" -> Loops!JoinAnswers /\ Loops!NoStrandedProbe
      [] operator = "chains" -> ChainsHoldInserted /\ (ChainInit => DrainInBlocks)

(* "The LIMIT clause restricts the number of rows returned by a query"     *)
(* (docs/sql/query-syntax/limit.md): a join under a LIMIT still ends.      *)
LimitedJoinReturns == operator = "limit" => LimitedJoinEnds

(* Every join ends, and so does every concurrent insertion into the hash   *)
(* table: no partition is left waiting at a barrier.                       *)
Ended ==
    CASE operator = "hash" -> \A p \in Partitions : build[p] = "finalized" /\ probe[p] = "done"
      [] operator = "limit" -> AllDone
      [] operator = "chains" -> Inserted = Rows
      [] operator = "loop" -> Loops!Finished
JoinsEnd == <>Ended
=============================================================================
