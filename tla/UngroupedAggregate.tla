-------------------------- MODULE UngroupedAggregate --------------------------
(***************************************************************************)
(* Aggregates without GROUP BY (operators/ungrouped_aggregate.rs): every   *)
(* partition aggregates its input and combines the result into a global    *)
(* value, which the last one returns.  With DISTINCT aggregates the        *)
(* partitions merge the tables of distinct inputs before that, each its    *)
(* share, and aggregate them, each its share.                              *)
(*                                                                         *)
(* The query is count(v), and count(DISTINCT v) when `distinct`.  The      *)
(* tables are PartitionedTable's; a row is its value v.                    *)
(***************************************************************************)
EXTENDS PartitionedTable, TLAPS

CONSTANT Inputs  \* the inputs to try: a sequence of batches for each partition

VARIABLES
    distinct, input,
    phase,      \* the state of a partition
    count,      \* the non-distinct aggregate of a partition
    local,      \* the table of distinct inputs of a partition
    flushed, final,
    values,     \* the global values: <<count, distinct count>>
    normal, mergers, distincts, \* remaining_normal, _distinct_mergers, _distinct
    pendingMergers, pendingAggregators, \* the partitions whose waker is stored
    output,     \* rows returned
    all         \* the whole input

tables == <<local, flushed, final>>
counters == <<normal, mergers, distincts, pendingMergers, pendingAggregators>>
vars == <<distinct, input, phase, count, tables, values, counters, output, all>>

Phases ==
    {"aggregating", "merging_distinct", "aggregating_distinct", "draining", "finished", "error"}

TypeOK ==
    /\ phase \in [Parts -> Phases]
    /\ {normal, mergers, distincts} \subseteq 0 .. N
    /\ pendingMergers \subseteq {p \in Parts : phase[p] = "merging_distinct"}
    /\ pendingAggregators \subseteq {p \in Parts : phase[p] = "aggregating_distinct"}

Init ==
    /\ distinct \in BOOLEAN
    /\ input \in Inputs
    /\ phase = [p \in Parts |-> "aggregating"]
    /\ count = [p \in Parts |-> 0]
    /\ local = [p \in Parts |-> <<>>]
    /\ flushed = [q \in Parts |-> [p \in {} |-> <<>>]]
    /\ final = [q \in {} |-> <<>>]
    /\ values = <<0, 0>>
    /\ normal = N /\ mergers = N /\ distincts = N
    /\ pendingMergers = {} /\ pendingAggregators = {}
    /\ output = <<>>
    /\ all = input

Runs(p, ph) == phase[p] = ph /\ p \notin pendingMergers /\ p \notin pendingAggregators

-----------------------------------------------------------------------------
Entry(v) == [key |-> v, n |-> 0, d |-> 0]

Aggregate(p) ==
    /\ Runs(p, "aggregating") /\ input[p] # <<>>
    /\ LET batch == Head(input[p])
       IN /\ count' = [count EXCEPT ![p] = @ + Len(batch)]
          /\ local' = IF distinct
                      THEN [local EXCEPT ![p] = Insert(@, [i \in DOMAIN batch |-> Entry(batch[i])])]
                      ELSE local
    /\ input' = [input EXCEPT ![p] = Tail(@)]
    /\ UNCHANGED <<distinct, phase, flushed, final, values, counters, output, all>>

(* The last partition to finish drains; the others are done.               *)
MutAfterLast(remaining) == IF remaining <= 1 THEN "draining" ELSE "finished"
AfterLast(remaining) == IF remaining = 0 THEN "draining" ELSE "finished"

MutWokenMergers == IF normal = 1 THEN pendingMergers \ {0} ELSE {}
WokenMergers == IF normal = 1 THEN pendingMergers ELSE {}

FinalizeExecute(p) ==
    /\ Runs(p, "aggregating") /\ input[p] = <<>>
    /\ values' = [values EXCEPT ![1] = @ + count[p]]
    /\ normal' = normal - 1
    /\ IF distinct
       THEN /\ flushed' = [q \in Parts |-> Put(flushed[q], p, Flushed(local[p], q))]
            /\ phase' = [phase EXCEPT ![p] = "merging_distinct"]
            /\ pendingMergers' = pendingMergers \ WokenMergers
       ELSE /\ phase' = [phase EXCEPT ![p] = AfterLast(normal - 1)]
            /\ UNCHANGED <<flushed, pendingMergers>>
    /\ UNCHANGED <<distinct, input, count, local, final, mergers, distincts,
                   pendingAggregators, output, all>>

-----------------------------------------------------------------------------
AwaitNormal(p) ==
    /\ Runs(p, "merging_distinct") /\ normal # 0
    /\ pendingMergers' = pendingMergers \cup {p}
    /\ UNCHANGED <<distinct, input, phase, count, tables, values, normal, mergers, distincts,
                   pendingAggregators, output, all>>

(* merge_global refuses when a partition has not flushed.                  *)
MergeDistinct(p) ==
    /\ Runs(p, "merging_distinct") /\ normal = 0
    /\ IF DOMAIN flushed[p] = Parts
       THEN /\ final' = Put(final, p, MergeGlobal(flushed[p]))
            /\ phase' = [phase EXCEPT ![p] = "aggregating_distinct"]
            /\ mergers' = mergers - 1
            /\ pendingAggregators' = IF mergers = 1 THEN {} ELSE pendingAggregators
       ELSE /\ phase' = [phase EXCEPT ![p] = "error"]
            /\ UNCHANGED <<final, mergers, pendingAggregators>>
    /\ UNCHANGED <<distinct, input, count, local, flushed, values, normal, distincts,
                   pendingMergers, output, all>>

MutAllMerged == mergers <= 1
AllMerged == mergers = 0

AwaitMergers(p) ==
    /\ Runs(p, "aggregating_distinct") /\ ~AllMerged
    /\ pendingAggregators' = pendingAggregators \cup {p}
    /\ UNCHANGED <<distinct, input, phase, count, tables, values, normal, mergers, distincts,
                   pendingMergers, output, all>>

(* scan refuses when a table is not merged.                                *)
AggregateDistinct(p) ==
    /\ Runs(p, "aggregating_distinct") /\ AllMerged
    /\ IF DOMAIN final = Parts
       THEN /\ values' = [values EXCEPT ![2] = @ + Len(Scan(final, p))]
            /\ distincts' = distincts - 1
            /\ phase' = [phase EXCEPT ![p] = AfterLast(distincts - 1)]
       ELSE /\ phase' = [phase EXCEPT ![p] = "error"]
            /\ UNCHANGED <<values, distincts>>
    /\ UNCHANGED <<distinct, input, count, tables, normal, mergers, pendingMergers,
                   pendingAggregators, output, all>>

Drain(p) ==
    /\ Runs(p, "draining")
    /\ output' = Append(output, values)
    /\ phase' = [phase EXCEPT ![p] = "finished"]
    /\ UNCHANGED <<distinct, input, count, tables, values, counters, all>>

-----------------------------------------------------------------------------
Run(p) ==
    \/ Aggregate(p) \/ FinalizeExecute(p) \/ AwaitNormal(p) \/ MergeDistinct(p)
    \/ AwaitMergers(p) \/ AggregateDistinct(p) \/ Drain(p)

Next == \E p \in Parts : Run(p)

Spec == Init /\ [][Next]_vars

(* A task that is not parked is polled again (TaskScheduler).              *)
FairSpec == Init /\ [][Next]_vars /\ \A p \in Parts : WF_vars(Run(p))
-----------------------------------------------------------------------------
AllFinished == \A p \in Parts : phase[p] = "finished"

InputRows == UNION {UNION {{<<p, b>>} \X DOMAIN all[p][b] : b \in DOMAIN all[p]} : p \in Parts}
InputRow(i) == all[i[1][1]][i[1][2]][i[2]]

(* One row is returned, also for an empty input, by whichever partition    *)
(* finishes last, and it counts every row once and every distinct value    *)
(* once.                                                                   *)
OneAnswer ==
    AllFinished =>
        output = <<<<Cardinality(InputRows),
                     IF distinct THEN Cardinality({InputRow(i) : i \in InputRows}) ELSE 0>>>>

(* No partition merges before all have flushed, or scans before all have   *)
(* merged: merge_global and prepare_scan (hash_table/partitioned.rs) never *)
(* refuse.                                                                 *)
NoEarlyPhase == \A p \in Parts : phase[p] # "error"

(* A partition waits only while another one that will wake it is not       *)
(* waiting.                                                                *)
NoStrandedPartition ==
    /\ pendingMergers # {} => \E p \in Parts : phase[p] = "aggregating"
    /\ pendingAggregators # {} => \E p \in Parts : Runs(p, "merging_distinct")
-----------------------------------------------------------------------------
(* The partitions in one of the phases.                                    *)
InPhase(ph) == {p \in Parts : phase[p] \in ph}
Arriving == InPhase({"aggregating"})
Unmerged == InPhase({"aggregating", "merging_distinct"})
Unread == InPhase({"aggregating", "merging_distinct", "aggregating_distinct"})

(* The counters count; nobody waits for one that is at zero, or is past    *)
(* one that is not; and a partition past a counter has handed its tables   *)
(* over.                                                                   *)
IInv ==
    /\ distinct \in BOOLEAN
    /\ phase \in [Parts -> Phases]
    /\ pendingMergers \subseteq InPhase({"merging_distinct"})
    /\ pendingAggregators \subseteq InPhase({"aggregating_distinct"})
    /\ normal = Cardinality(Arriving)
    /\ distinct => mergers = Cardinality(Unmerged) /\ distincts = Cardinality(Unread)
    /\ ~distinct => mergers = N /\ distincts = N /\ InPhase({"merging_distinct", "aggregating_distinct"}) = {}
    /\ InPhase({"error"}) = {}
    /\ pendingMergers # {} => normal # 0
    /\ pendingAggregators # {} => mergers # 0
    /\ InPhase({"aggregating_distinct"}) # {} => normal = 0
    /\ distinct => /\ \A q \in Parts : Parts \ Arriving \subseteq DOMAIN flushed[q] /\ DOMAIN flushed[q] \subseteq Parts
                   /\ DOMAIN final = Parts \ Unmerged

LEMMA PhaseCount ==
    ASSUME Counted, NEW ph
    PROVE  /\ Cardinality(InPhase(ph)) \in 0 .. N
           /\ Cardinality(InPhase(ph)) = 0 <=> InPhase(ph) = {}
           /\ \A p \in InPhase(ph) : Cardinality(InPhase(ph) \ {p}) = Cardinality(InPhase(ph)) - 1
<1>1. InPhase(ph) \in SUBSET Parts
  BY DEF InPhase
<1> QED
  BY <1>1 DEF Counted

(* A partition that moves on leaves the phases before, and the number of   *)
(* partitions in them falls by one.                                        *)
Moved(p, to, ph) ==
    /\ to \notin ph => InPhase(ph)' = InPhase(ph) \ {p}
    /\ (to \in ph <=> p \in InPhase(ph)) => InPhase(ph)' = InPhase(ph)
    /\ to \in ph => InPhase(ph)' = InPhase(ph) \cup {p}
    /\ to \notin ph /\ p \in InPhase(ph) =>
          Cardinality(InPhase(ph)') = Cardinality(InPhase(ph)) - 1

LEMMA MoveOn ==
    ASSUME Counted, NEW p \in Parts, NEW to,
           phase \in [Parts -> Phases], phase' = [phase EXCEPT ![p] = to]
    PROVE  \A ph : Moved(p, to, ph)
<1> SUFFICES ASSUME NEW ph PROVE Moved(p, to, ph)
  OBVIOUS
<1>1. phase'[p] = to /\ \A q \in Parts : q # p => phase'[q] = phase[q]
  OBVIOUS
<1>2. to \notin ph => InPhase(ph)' = InPhase(ph) \ {p}
  BY <1>1 DEF InPhase
<1>3. (to \in ph <=> p \in InPhase(ph)) => InPhase(ph)' = InPhase(ph)
  BY <1>1 DEF InPhase
<1>4. to \in ph => InPhase(ph)' = InPhase(ph) \cup {p}
  BY <1>1 DEF InPhase
<1>5. to \notin ph /\ p \in InPhase(ph) =>
         Cardinality(InPhase(ph)') = Cardinality(InPhase(ph)) - 1
  BY <1>2, PhaseCount
<1> QED
  BY <1>2, <1>3, <1>4, <1>5, Zenon DEF Moved

LEMMA PutDomain == ASSUME NEW f, NEW x, NEW v PROVE DOMAIN Put(f, x, v) = DOMAIN f \cup {x}
  BY DEF Put

LEMMA InitIInv ==
    ASSUME Counted, Init
    PROVE  IInv
<1>1. phase = [p \in Parts |-> "aggregating"]
  BY Zenon DEF Init
<1>2. phase \in [Parts -> Phases] /\ Arriving = Parts /\ Unmerged = Parts /\ Unread = Parts
  BY <1>1 DEF Phases, InPhase, Arriving, Unmerged, Unread
<1>3. /\ InPhase({"merging_distinct", "aggregating_distinct"}) = {} /\ InPhase({"error"}) = {}
      /\ InPhase({"aggregating_distinct"}) = {}
  BY <1>1 DEF InPhase
<1>4. DOMAIN final = {} /\ \A q \in Parts : DOMAIN flushed[q] = {}
  BY DEF Init
<1>5. /\ distinct \in BOOLEAN /\ normal = N /\ mergers = N /\ distincts = N
      /\ pendingMergers = {} /\ pendingAggregators = {}
  BY Zenon DEF Init
<1>6. Cardinality(Parts) = N
  BY DEF Counted
<1> QED
  BY <1>2, <1>3, <1>4, <1>5, <1>6, Zenon DEF IInv

LEMMA NextIInv ==
    ASSUME Counted, IInv, [Next]_vars
    PROVE  IInv'
<1>t. phase \in [Parts -> Phases]
  BY DEF IInv
<1>n. \A ph : Cardinality(InPhase(ph)) \in Nat /\ (Cardinality(InPhase(ph)) = 0 <=> InPhase(ph) = {})
  BY PhaseCount
<1>q. ASSUME UNCHANGED <<distinct, phase, flushed, final, counters>> PROVE IInv'
  BY <1>q, Zenon DEF counters, IInv, InPhase, Arriving, Unmerged, Unread
<1>u. ASSUME UNCHANGED vars PROVE IInv'
  BY <1>q, <1>u, Zenon DEF vars, tables
<1>1. ASSUME NEW p \in Parts, Aggregate(p) PROVE IInv'
  BY <1>1, <1>q, Zenon DEF Aggregate
<1>2. ASSUME NEW p \in Parts, FinalizeExecute(p), distinct PROVE IInv'
  <2>1. /\ UNCHANGED <<distinct, final, mergers, distincts, pendingAggregators>>
        /\ flushed' = [q \in Parts |-> Put(flushed[q], p, Flushed(local[p], q))]
        /\ phase' = [phase EXCEPT ![p] = "merging_distinct"]
        /\ pendingMergers' = pendingMergers \ WokenMergers /\ normal' = normal - 1
        /\ phase[p] = "aggregating"
    BY <1>2, Zenon DEF FinalizeExecute, Runs
  <2>2. /\ p \in Arriving /\ p \in Unmerged /\ p \in Unread
        /\ p \notin InPhase({"merging_distinct"}) /\ p \notin InPhase({"aggregating_distinct"})
        /\ p \notin InPhase({"error"})
    BY <2>1 DEF InPhase, Arriving, Unmerged, Unread
  <2>m. \A ph : Moved(p, "merging_distinct", ph)
    BY <1>t, <2>1, MoveOn, Zenon
  <2>3. phase' \in [Parts -> Phases]
    BY <1>t, <2>1 DEF Phases
  <2>4. /\ Arriving' = Arriving \ {p} /\ Cardinality(Arriving') = Cardinality(Arriving) - 1
        /\ Unmerged' = Unmerged /\ Unread' = Unread
    <3>1. Arriving' = Arriving \ {p} /\ Cardinality(Arriving') = Cardinality(Arriving) - 1
      BY <2>m, <2>2 DEF Moved, Arriving
    <3>2. Unmerged' = Unmerged
      BY <2>m, <2>2 DEF Moved, Unmerged
    <3>3. Unread' = Unread
      BY <2>m, <2>2 DEF Moved, Unread
    <3> QED
      BY <3>1, <3>2, <3>3
  <2>5. /\ InPhase({"merging_distinct"})' = InPhase({"merging_distinct"}) \cup {p}
        /\ InPhase({"aggregating_distinct"})' = InPhase({"aggregating_distinct"})
        /\ InPhase({"error"})' = InPhase({"error"})
    <3>1. InPhase({"merging_distinct"})' = InPhase({"merging_distinct"}) \cup {p}
      BY <2>m DEF Moved
    <3>2. InPhase({"aggregating_distinct"})' = InPhase({"aggregating_distinct"})
      BY <2>m, <2>2 DEF Moved
    <3>3. InPhase({"error"})' = InPhase({"error"})
      BY <2>m, <2>2 DEF Moved
    <3> QED
      BY <3>1, <3>2, <3>3
  <2>6. normal \in Nat /\ normal # 0 /\ normal = Cardinality(Arriving)
    BY <1>n, <2>2 DEF IInv, Arriving
  <2>7. pendingMergers' \subseteq pendingMergers /\ (pendingMergers' # {} => normal' # 0)
    <3>1. normal = 1 => pendingMergers' = {}
      BY <2>1 DEF WokenMergers
    <3>2. normal # 1 => normal - 1 # 0
      BY <2>6
    <3> QED
      BY <2>1, <3>1, <3>2
  <2>8. \A q \in Parts : DOMAIN flushed'[q] = DOMAIN flushed[q] \cup {p}
    BY <2>1, PutDomain, Zenon
  <2>9. InPhase({"aggregating_distinct"}) = {}
    BY <2>6 DEF IInv
  <2>10. \A q \in Parts : Parts \ Arriving' \subseteq DOMAIN flushed'[q] /\ DOMAIN flushed'[q] \subseteq Parts
    BY <1>2, <2>4, <2>8 DEF IInv
  <2>11. normal' = Cardinality(Arriving')
    BY <2>1, <2>4, <2>6
  <2> QED
    BY <1>2, <2>1, <2>3, <2>4, <2>5, <2>7, <2>9, <2>10, <2>11, Zenon DEF IInv
<1>3. ASSUME NEW p \in Parts, FinalizeExecute(p), ~distinct PROVE IInv'
  <2>1. /\ UNCHANGED <<distinct, final, flushed, mergers, distincts, pendingMergers, pendingAggregators>>
        /\ phase' = [phase EXCEPT ![p] = AfterLast(normal - 1)]
        /\ normal' = normal - 1
        /\ phase[p] = "aggregating"
    BY <1>3, Zenon DEF FinalizeExecute, Runs
  <2> DEFINE to == AfterLast(normal - 1)
  <2>2. to \in {"draining", "finished"}
    BY DEF AfterLast
  <2>m. phase' = [phase EXCEPT ![p] = to] /\ \A ph : Moved(p, to, ph)
    BY <1>t, <2>1, MoveOn, Zenon
  <2> HIDE DEF to
  <2>3. phase' \in [Parts -> Phases]
    BY <1>t, <2>2, <2>m DEF Phases
  <2>4. Arriving' = Arriving \ {p} /\ Cardinality(Arriving') = Cardinality(Arriving) - 1
    <3>1. p \in Arriving /\ to \notin {"aggregating"}
      BY <2>1, <2>2 DEF InPhase, Arriving
    <3> QED
      BY <2>m, <3>1 DEF Moved, Arriving
  <2>5. \A ph : ("draining" \notin ph /\ "finished" \notin ph /\ InPhase(ph) = {}) => InPhase(ph)' = {}
    BY <2>2, <2>m DEF Moved
  <2>6. /\ InPhase({"merging_distinct", "aggregating_distinct"})' = {} /\ InPhase({"error"})' = {}
        /\ InPhase({"aggregating_distinct"})' = {} /\ InPhase({"merging_distinct"})' = {}
    <3>1. /\ InPhase({"merging_distinct", "aggregating_distinct"}) = {} /\ InPhase({"error"}) = {}
          /\ InPhase({"aggregating_distinct"}) = {} /\ InPhase({"merging_distinct"}) = {}
      BY <1>3 DEF IInv, InPhase
    <3> QED
      BY <3>1, <2>5
  <2>7. pendingMergers = {} /\ pendingAggregators = {}
    BY <1>3 DEF IInv, InPhase
  <2>8. normal' = Cardinality(Arriving')
    BY <2>1, <2>4 DEF IInv
  <2> QED
    BY <1>3, <2>1, <2>3, <2>6, <2>7, <2>8, Zenon DEF IInv
<1>4. ASSUME NEW p \in Parts, AwaitNormal(p) PROVE IInv'
  <2>1. /\ UNCHANGED <<distinct, phase, flushed, final, normal, mergers, distincts, pendingAggregators>>
        /\ pendingMergers' = pendingMergers \cup {p} /\ phase[p] = "merging_distinct" /\ normal # 0
    BY <1>4, Zenon DEF AwaitNormal, Runs, tables
  <2>2. p \in InPhase({"merging_distinct"})
    BY <2>1 DEF InPhase
  <2>3. \A ph : InPhase(ph)' = InPhase(ph)
    BY <2>1, Zenon DEF InPhase
  <2>4. pendingMergers' \subseteq InPhase({"merging_distinct"})
    BY <2>1, <2>2 DEF IInv
  <2>5. Arriving' = Arriving /\ Unmerged' = Unmerged /\ Unread' = Unread
    BY <2>3, Zenon DEF Arriving, Unmerged, Unread
  <2> QED
    BY <2>1, <2>3, <2>4, <2>5, Zenon DEF IInv
<1>5. ASSUME NEW p \in Parts, AwaitMergers(p) PROVE IInv'
  <2>1. /\ UNCHANGED <<distinct, phase, flushed, final, normal, mergers, distincts, pendingMergers>>
        /\ pendingAggregators' = pendingAggregators \cup {p} /\ phase[p] = "aggregating_distinct"
        /\ mergers # 0
    BY <1>5, Zenon DEF AwaitMergers, Runs, tables, AllMerged
  <2>2. p \in InPhase({"aggregating_distinct"})
    BY <2>1 DEF InPhase
  <2>3. \A ph : InPhase(ph)' = InPhase(ph)
    BY <2>1, Zenon DEF InPhase
  <2>4. pendingAggregators' \subseteq InPhase({"aggregating_distinct"})
    BY <2>1, <2>2 DEF IInv
  <2>5. Arriving' = Arriving /\ Unmerged' = Unmerged /\ Unread' = Unread
    BY <2>3, Zenon DEF Arriving, Unmerged, Unread
  <2> QED
    BY <2>1, <2>3, <2>4, <2>5, Zenon DEF IInv
<1>6. ASSUME NEW p \in Parts, MergeDistinct(p) PROVE IInv'
  <2>1. /\ UNCHANGED <<distinct, flushed, normal, distincts, pendingMergers>>
        /\ phase[p] = "merging_distinct" /\ normal = 0 /\ p \notin pendingMergers
    BY <1>6, Zenon DEF MergeDistinct, Runs
  <2>2. /\ p \in Unmerged /\ p \in Unread /\ p \notin Arriving
        /\ p \in InPhase({"merging_distinct", "aggregating_distinct"})
        /\ p \notin InPhase({"aggregating_distinct"}) /\ p \notin InPhase({"error"})
    BY <2>1 DEF InPhase, Arriving, Unmerged, Unread
  <2>3. distinct
    BY <2>2 DEF IInv
  <2>4. Arriving = {}
    BY <2>1, <1>n DEF IInv, Arriving
  <2>5. DOMAIN flushed[p] = Parts
    BY <2>3, <2>4 DEF IInv
  <2>6. /\ \E table : final' = Put(final, p, table)
        /\ phase' = [phase EXCEPT ![p] = "aggregating_distinct"]
        /\ mergers' = mergers - 1
        /\ pendingAggregators' = IF mergers = 1 THEN {} ELSE pendingAggregators
    BY <1>6, <2>5, Zenon DEF MergeDistinct
  <2>m. \A ph : Moved(p, "aggregating_distinct", ph)
    BY <1>t, <2>6, MoveOn, Zenon
  <2>7. phase' \in [Parts -> Phases]
    BY <1>t, <2>6 DEF Phases
  <2>8. /\ Unmerged' = Unmerged \ {p} /\ Cardinality(Unmerged') = Cardinality(Unmerged) - 1
        /\ Arriving' = Arriving /\ Unread' = Unread
    <3>1. Unmerged' = Unmerged \ {p} /\ Cardinality(Unmerged') = Cardinality(Unmerged) - 1
      BY <2>m, <2>2 DEF Moved, Unmerged
    <3>2. Arriving' = Arriving
      BY <2>m, <2>2 DEF Moved, Arriving
    <3>3. Unread' = Unread
      BY <2>m, <2>2 DEF Moved, Unread
    <3> QED
      BY <3>1, <3>2, <3>3
  <2>9. /\ InPhase({"merging_distinct"})' = InPhase({"merging_distinct"}) \ {p}
        /\ InPhase({"aggregating_distinct"})' = InPhase({"aggregating_distinct"}) \cup {p}
        /\ InPhase({"error"})' = InPhase({"error"})
    <3>1. InPhase({"merging_distinct"})' = InPhase({"merging_distinct"}) \ {p}
      BY <2>m DEF Moved
    <3>2. InPhase({"aggregating_distinct"})' = InPhase({"aggregating_distinct"}) \cup {p}
      BY <2>m, <2>2 DEF Moved
    <3>3. InPhase({"error"})' = InPhase({"error"})
      BY <2>m, <2>2 DEF Moved
    <3> QED
      BY <3>1, <3>2, <3>3
  <2>10. DOMAIN final' = Parts \ Unmerged'
    <3>1. DOMAIN final' = DOMAIN final \cup {p}
      BY <2>6, PutDomain
    <3> QED
      BY <2>3, <2>8, <3>1 DEF IInv
  <2>11. mergers \in Nat /\ mergers = Cardinality(Unmerged)
    BY <1>n, <2>3 DEF IInv, Unmerged
  <2>12. mergers' = Cardinality(Unmerged')
    BY <2>6, <2>8, <2>11
  <2>13. pendingAggregators' \subseteq pendingAggregators /\ (pendingAggregators' # {} => mergers' # 0)
    <3>1. mergers # 0
      BY <2>2, <2>11, <1>n DEF Unmerged
    <3>2. mergers # 1 => mergers - 1 # 0
      BY <2>11, <3>1
    <3> QED
      BY <2>6, <3>2
  <2>14. /\ pendingMergers' \subseteq InPhase({"merging_distinct"})'
         /\ pendingAggregators' \subseteq InPhase({"aggregating_distinct"})'
    BY <2>1, <2>9, <2>13 DEF IInv
  <2> QED
    BY <2>1, <2>3, <2>7, <2>8, <2>9, <2>10, <2>12, <2>13, <2>14, Zenon DEF IInv
<1>7. ASSUME NEW p \in Parts, AggregateDistinct(p) PROVE IInv'
  <2>1. /\ UNCHANGED <<distinct, flushed, final, normal, mergers, pendingMergers, pendingAggregators>>
        /\ phase[p] = "aggregating_distinct" /\ mergers = 0 /\ p \notin pendingAggregators
    BY <1>7, Zenon DEF AggregateDistinct, Runs, AllMerged, tables
  <2>2. /\ p \in Unread /\ p \notin Arriving /\ p \notin Unmerged
        /\ p \in InPhase({"merging_distinct", "aggregating_distinct"})
        /\ p \notin InPhase({"merging_distinct"}) /\ p \notin InPhase({"error"})
    BY <2>1 DEF InPhase, Arriving, Unmerged, Unread
  <2>3. distinct
    BY <2>2 DEF IInv
  <2>4. Unmerged = {}
    BY <2>1, <2>3, <1>n DEF IInv, Unmerged
  <2>5. DOMAIN final = Parts
    BY <2>3, <2>4 DEF IInv
  <2>6. phase' = [phase EXCEPT ![p] = AfterLast(distincts - 1)] /\ distincts' = distincts - 1
    BY <1>7, <2>5, Zenon DEF AggregateDistinct
  <2> DEFINE to == AfterLast(distincts - 1)
  <2>7. to \in {"draining", "finished"}
    BY DEF AfterLast
  <2>8. phase' = [phase EXCEPT ![p] = to]
    BY <2>6
  <2>m. \A ph : Moved(p, to, ph)
    BY <1>t, <2>8, MoveOn, Zenon
  <2> HIDE DEF to
  <2>9. phase' \in [Parts -> Phases]
    BY <1>t, <2>8, <2>7 DEF Phases
  <2>10. /\ Unread' = Unread \ {p} /\ Cardinality(Unread') = Cardinality(Unread) - 1
         /\ Arriving' = Arriving /\ Unmerged' = Unmerged
    <3>1. /\ to \notin {"aggregating", "merging_distinct", "aggregating_distinct"}
          /\ to \notin {"aggregating"} /\ to \notin {"aggregating", "merging_distinct"}
      BY <2>7
    <3>2. Unread' = Unread \ {p} /\ Cardinality(Unread') = Cardinality(Unread) - 1
      BY <2>m, <2>2, <3>1 DEF Moved, Unread
    <3>3. Arriving' = Arriving
      BY <2>m, <2>2, <3>1 DEF Moved, Arriving
    <3>4. Unmerged' = Unmerged
      BY <2>m, <2>2, <3>1 DEF Moved, Unmerged
    <3> QED
      BY <3>2, <3>3, <3>4
  <2>11. /\ InPhase({"merging_distinct"})' = InPhase({"merging_distinct"})
         /\ InPhase({"aggregating_distinct"})' = InPhase({"aggregating_distinct"}) \ {p}
         /\ InPhase({"error"})' = InPhase({"error"})
    <3>1. to \notin {"merging_distinct"} /\ to \notin {"aggregating_distinct"} /\ to \notin {"error"}
      BY <2>7
    <3> QED
      BY <2>2, <2>m, <3>1 DEF Moved
  <2>12. pendingAggregators' \subseteq InPhase({"aggregating_distinct"})'
    BY <2>1, <2>11 DEF IInv
  <2>13. distincts' = Cardinality(Unread')
    BY <2>3, <2>6, <2>10 DEF IInv
  <2> QED
    BY <2>1, <2>3, <2>9, <2>10, <2>11, <2>12, <2>13, Zenon DEF IInv
<1>8. ASSUME NEW p \in Parts, Drain(p) PROVE IInv'
  <2>1. /\ UNCHANGED <<distinct, flushed, final, counters>>
        /\ phase[p] = "draining" /\ phase' = [phase EXCEPT ![p] = "finished"]
    BY <1>8, Zenon DEF Drain, Runs, tables
  <2>2. phase' \in [Parts -> Phases]
    BY <1>t, <2>1 DEF Phases
  <2>3. \A ph : ("draining" \notin ph /\ "finished" \notin ph) => InPhase(ph)' = InPhase(ph)
    <3> SUFFICES ASSUME NEW ph, "draining" \notin ph, "finished" \notin ph
                 PROVE  InPhase(ph)' = InPhase(ph)
      OBVIOUS
    <3>1. p \notin InPhase(ph)
      BY <2>1 DEF InPhase
    <3> QED
      BY <1>t, <2>1, <3>1, MoveOn DEF Moved
  <2>4. /\ Arriving' = Arriving /\ Unmerged' = Unmerged /\ Unread' = Unread
        /\ InPhase({"merging_distinct"})' = InPhase({"merging_distinct"})
        /\ InPhase({"aggregating_distinct"})' = InPhase({"aggregating_distinct"})
        /\ InPhase({"merging_distinct", "aggregating_distinct"})' = InPhase({"merging_distinct", "aggregating_distinct"})
        /\ InPhase({"error"})' = InPhase({"error"})
    BY <2>3 DEF Arriving, Unmerged, Unread
  <2> QED
    BY <2>1, <2>2, <2>4, Zenon DEF IInv, counters
<1> QED
  BY <1>u, <1>1, <1>2, <1>3, <1>4, <1>5, <1>6, <1>7, <1>8, Zenon DEF Next, Run

LEMMA Invariance ==
    ASSUME Counted
    PROVE  Spec => []IInv
<1>1. Init => IInv
  BY InitIInv
<1>2. IInv /\ [Next]_vars => IInv'
  BY NextIInv
<1> QED
  BY <1>1, <1>2, PTL DEF Spec

(* merge_global and scan never refuse: the phases of an aggregate without  *)
(* groups start when the one before has ended everywhere, for any number   *)
(* of partitions.                                                          *)
THEOREM PhasesWait ==
    ASSUME Counted
    PROVE  Spec => []NoEarlyPhase
<1>1. IInv => NoEarlyPhase
  BY DEF IInv, InPhase, NoEarlyPhase
<1> QED
  BY <1>1, Invariance, PTL

(* No partition of an aggregate without groups waits for ever: for any     *)
(* number of partitions, one that will wake it is running.                 *)
THEOREM NobodyWaitsForEver ==
    ASSUME Counted
    PROVE  Spec => []NoStrandedPartition
<1>1. ASSUME IInv PROVE NoStrandedPartition
  <2>1. \A ph : Cardinality(InPhase(ph)) = 0 <=> InPhase(ph) = {}
    BY PhaseCount
  <2>2. ASSUME pendingMergers # {} PROVE \E p \in Parts : phase[p] = "aggregating"
    <3>1. Arriving # {}
      BY <1>1, <2>1, <2>2 DEF IInv, Arriving
    <3> QED
      BY <3>1 DEF Arriving, InPhase
  <2>3. ASSUME pendingAggregators # {} PROVE \E p \in Parts : Runs(p, "merging_distinct")
    <3>1. InPhase({"aggregating_distinct"}) # {} /\ distinct
      BY <1>1, <2>3 DEF IInv, InPhase
    <3>2. Unmerged # {} /\ normal = 0
      BY <1>1, <2>1, <2>3, <3>1 DEF IInv, Unmerged
    <3>3. Arriving = {} /\ pendingMergers = {}
      BY <1>1, <2>1, <3>2 DEF IInv, Arriving
    <3>4. PICK p \in Parts : phase[p] = "merging_distinct"
      BY <3>2, <3>3 DEF Arriving, Unmerged, InPhase
    <3>5. p \notin pendingAggregators
      BY <1>1, <3>4 DEF IInv, InPhase
    <3> QED
      BY <3>3, <3>4, <3>5 DEF Runs
  <2> QED
    BY <2>2, <2>3 DEF NoStrandedPartition
<1> QED
  BY <1>1, Invariance, PTL

(* The phases and counters of an aggregate without groups keep their types.*)
THEOREM TypesKept ==
    ASSUME Counted
    PROVE  Spec => []TypeOK
<1>1. ASSUME IInv PROVE TypeOK
  <2>1. \A ph : Cardinality(InPhase(ph)) \in 0 .. N
    BY PhaseCount
  <2>2. normal \in 0 .. N /\ mergers \in 0 .. N /\ distincts \in 0 .. N
    BY <1>1, <2>1 DEF IInv, Arriving, Unmerged, Unread, Counted
  <2>3. /\ pendingMergers \subseteq {p \in Parts : phase[p] = "merging_distinct"}
        /\ pendingAggregators \subseteq {p \in Parts : phase[p] = "aggregating_distinct"}
    BY <1>1 DEF IInv, InPhase
  <2> QED
    BY <1>1, <2>2, <2>3 DEF IInv, TypeOK
<1> QED
  BY <1>1, Invariance, PTL
=============================================================================
