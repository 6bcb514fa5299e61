---------------------------- MODULE HashAggregate ----------------------------
(***************************************************************************)
(* GROUP BY with several grouping sets (operators/hash_aggregate): the     *)
(* partitions aggregate their input into local tables; with DISTINCT       *)
(* aggregates they first merge the tables of distinct inputs, and add the  *)
(* merged inputs to their local tables; then they merge the aggregate      *)
(* tables and return them.  Each phase waits for the one before it.        *)
(*                                                                         *)
(* The query is count of the rows, and count of the distinct values v when *)
(* `distinct`.  What a partition does between two sections under the lock  *)
(* touches only its own tables, so a phase of a partition is one step.     *)
(***************************************************************************)
EXTENDS PartitionedTable, TLAPS

CONSTANTS
    Sets,       \* the grouping sets
    KeyOf(_, _),\* the group of a row in a grouping set
    Inputs      \* the inputs to try: a sequence of rows [g, v] for each partition

VARIABLES
    distinct, input,
    phase,      \* the state of a partition
    local, distinctLocal,     \* tables of a partition, for each grouping set
    flushed, distinctFlushed, \* tables handed over: output partition, task, set
    final, distinctFinal,     \* final tables: output partition, set
    remaining,  \* the counters of the operator state
    wakers,     \* partitions waiting in a phase
    toScan,     \* grouping sets a partition has yet to return
    output,     \* rows returned: <<set, row>>
    all         \* the whole input

tables == <<local, distinctLocal, flushed, distinctFlushed, final, distinctFinal>>
vars == <<distinct, input, phase, tables, remaining, wakers, toScan, output, all>>

Waits == {"merging_distinct", "aggregating_distinct", "merging", "scanning"}
Phases == {"aggregating"} \cup Waits \cup {"exhausted", "error"}
Counters == {"normal", "distinct_mergers", "distinct_aggregators", "mergers"}

TypeOK ==
    /\ phase \in [Parts -> Phases]
    /\ remaining \in [Counters -> 0 .. N]
    /\ wakers \in [Waits -> SUBSET Parts]
    /\ \A w \in Waits : \A p \in wakers[w] : phase[p] = w

Empty == [p \in Parts |-> [s \in Sets |-> <<>>]]

Init ==
    /\ distinct \in BOOLEAN
    /\ input \in Inputs
    /\ phase = [p \in Parts |-> "aggregating"]
    /\ local = Empty /\ distinctLocal = Empty
    /\ flushed = [q \in Parts |-> [s \in Sets |-> [p \in {} |-> <<>>]]]
    /\ distinctFlushed = flushed
    /\ final = [q \in {} |-> <<>>] /\ distinctFinal = final
    /\ remaining = [c \in Counters |-> N]
    /\ wakers = [w \in Waits |-> {}]
    /\ toScan = [p \in Parts |-> Sets]
    /\ output = <<>>
    /\ all = input

Runs(p, ph) == phase[p] = ph /\ \A w \in Waits : p \notin wakers[w]

-----------------------------------------------------------------------------
Aggregate(p) ==
    /\ Runs(p, "aggregating") /\ input[p] # <<>>
    /\ LET row == Head(input[p])
       IN /\ local' = [local EXCEPT ![p] = [s \in Sets |->
                Update(@[s], [key |-> KeyOf(s, row), n |-> 1, d |-> 0])]]
          /\ distinctLocal' = IF ~distinct THEN distinctLocal
                ELSE [distinctLocal EXCEPT ![p] = [s \in Sets |->
                        Update(@[s], [key |-> <<KeyOf(s, row), row.v>>, n |-> 0, d |-> 0])]]
    /\ input' = [input EXCEPT ![p] = Tail(@)]
    /\ UNCHANGED <<distinct, phase, flushed, distinctFlushed, final, distinctFinal,
                   remaining, wakers, toScan, output, all>>

FlushInto(target, p, mine) ==
    [q \in Parts |-> [s \in Sets |-> Put(target[q][s], p, Flushed(mine[s], q))]]

MutWake(w, done) == IF done THEN [wakers EXCEPT !["merging"] = {}] ELSE wakers
Wake(w, done) == IF done THEN [wakers EXCEPT ![w] = {}] ELSE wakers

MutArrive(c, w) ==
    /\ remaining' = [remaining EXCEPT !["normal"] = @ - 1]
    /\ wakers' = Wake(w, remaining["normal"] = 1)

(* dec_by_one, and wake_all when it was the last.                          *)
Arrive(c, w) ==
    /\ remaining' = [remaining EXCEPT ![c] = @ - 1]
    /\ wakers' = Wake(w, remaining[c] = 1)

FinalizeExecute(p) ==
    /\ Runs(p, "aggregating") /\ input[p] = <<>>
    /\ IF distinct
       THEN /\ distinctFlushed' = FlushInto(distinctFlushed, p, distinctLocal[p])
            /\ phase' = [phase EXCEPT ![p] = "merging_distinct"]
            /\ Arrive("normal", "merging_distinct")
            /\ UNCHANGED flushed
       ELSE /\ flushed' = FlushInto(flushed, p, local[p])
            /\ phase' = [phase EXCEPT ![p] = "merging"]
            /\ Arrive("normal", "merging")
            /\ UNCHANGED distinctFlushed
    /\ UNCHANGED <<distinct, input, local, distinctLocal, final, distinctFinal, toScan,
                   output, all>>

-----------------------------------------------------------------------------
(* The counter a phase waits for.                                          *)
MutReady(ph) ==
    CASE ph = "merging_distinct" -> remaining["normal"] = 0
      [] ph = "aggregating_distinct" -> remaining["distinct_mergers"] = 0
      [] ph = "merging" -> remaining["normal"] = 0
      [] ph = "scanning" -> remaining["mergers"] = 0
Ready(ph) ==
    CASE ph = "merging_distinct" -> remaining["normal"] = 0
      [] ph = "aggregating_distinct" -> remaining["distinct_mergers"] = 0
      [] ph = "merging" -> IF distinct THEN remaining["distinct_aggregators"] = 0
                                       ELSE remaining["normal"] = 0
      [] ph = "scanning" -> remaining["mergers"] = 0

(* scan_ready is kept in the partition; the counter never rises again.     *)
Park(p, ph) ==
    /\ Runs(p, ph) /\ ~Ready(ph)
    /\ wakers' = [wakers EXCEPT ![ph] = @ \cup {p}]
    /\ UNCHANGED <<distinct, input, phase, tables, remaining, toScan, output, all>>

(* merge_global refuses when a task has not flushed.                       *)
AllFlushed(target, p) == \A s \in Sets : DOMAIN target[p][s] = Parts

Merged(target, p) == [s \in Sets |-> MergeGlobal(target[p][s])]

MergeDistinct(p) ==
    /\ Runs(p, "merging_distinct") /\ Ready("merging_distinct")
    /\ IF AllFlushed(distinctFlushed, p)
       THEN /\ distinctFinal' = Put(distinctFinal, p, Merged(distinctFlushed, p))
            /\ phase' = [phase EXCEPT ![p] = "aggregating_distinct"]
            /\ Arrive("distinct_mergers", "aggregating_distinct")
       ELSE phase' = [phase EXCEPT ![p] = "error"]
            /\ UNCHANGED <<distinctFinal, remaining, wakers>>
    /\ UNCHANGED <<distinct, input, local, distinctLocal, flushed, distinctFlushed, final,
                   toScan, output, all>>

(* The distinct inputs that are p's to read, as rows of the aggregate.     *)
DistinctRows(p, s) ==
    LET scanned == Scan([q \in Parts |-> distinctFinal[q][s]], p)
    IN [i \in DOMAIN scanned |-> [key |-> scanned[i].key[1], n |-> 0, d |-> 1]]

(* prepare_scan refuses when a table is not merged.                        *)
AllMerged(finals) == DOMAIN finals = Parts

AggregateDistinct(p) ==
    /\ Runs(p, "aggregating_distinct") /\ Ready("aggregating_distinct")
    /\ IF AllMerged(distinctFinal)
       THEN /\ LET mine == [s \in Sets |-> Insert(local[p][s], DistinctRows(p, s))]
               IN /\ local' = [local EXCEPT ![p] = mine]
                  /\ flushed' = FlushInto(flushed, p, mine)
            /\ phase' = [phase EXCEPT ![p] = "merging"]
            /\ Arrive("distinct_aggregators", "merging")
       ELSE /\ phase' = [phase EXCEPT ![p] = "error"]
            /\ UNCHANGED <<local, flushed, remaining, wakers>>
    /\ UNCHANGED <<distinct, input, distinctLocal, distinctFlushed, final, distinctFinal,
                   toScan, output, all>>

Merge(p) ==
    /\ Runs(p, "merging") /\ Ready("merging")
    /\ IF AllFlushed(flushed, p)
       THEN /\ final' = Put(final, p, Merged(flushed, p))
            /\ phase' = [phase EXCEPT ![p] = "scanning"]
            /\ Arrive("mergers", "scanning")
       ELSE /\ phase' = [phase EXCEPT ![p] = "error"]
            /\ UNCHANGED <<final, remaining, wakers>>
    /\ UNCHANGED <<distinct, input, local, distinctLocal, flushed, distinctFlushed,
                   distinctFinal, toScan, output, all>>

Rows(p, s) == Scan([q \in Parts |-> final[q][s]], p)

(* A poll returns rows of one table; tables with none left are passed over.*)
ScanTable(p, s) ==
    /\ Runs(p, "scanning") /\ Ready("scanning")
    /\ s \in toScan[p]
    /\ IF AllMerged(final)
       THEN /\ Rows(p, s) # <<>>
            /\ LET rows == Rows(p, s)
               IN output' = output \o [i \in DOMAIN rows |-> <<s, rows[i]>>]
            /\ toScan' = [toScan EXCEPT ![p] = @ \ {s}]
            /\ UNCHANGED phase
       ELSE phase' = [phase EXCEPT ![p] = "error"] /\ UNCHANGED <<output, toScan>>
    /\ UNCHANGED <<distinct, input, tables, remaining, wakers, all>>

Exhausted(p) ==
    /\ Runs(p, "scanning") /\ Ready("scanning")
    /\ AllMerged(final) /\ \A s \in toScan[p] : Rows(p, s) = <<>>
    /\ phase' = [phase EXCEPT ![p] = "exhausted"]
    /\ UNCHANGED <<distinct, input, tables, remaining, wakers, toScan, output, all>>

-----------------------------------------------------------------------------
Run(p) ==
    \/ Aggregate(p) \/ FinalizeExecute(p)
    \/ \E w \in Waits : Park(p, w)
    \/ MergeDistinct(p) \/ AggregateDistinct(p) \/ Merge(p)
    \/ \E s \in Sets : ScanTable(p, s)
    \/ Exhausted(p)

Next == \E p \in Parts : Run(p)

Spec == Init /\ [][Next]_vars

(* A task that is not parked is polled again (TaskScheduler).              *)
FairSpec == Init /\ [][Next]_vars /\ \A p \in Parts : WF_vars(Run(p))
-----------------------------------------------------------------------------
AllExhausted == \A p \in Parts : phase[p] = "exhausted"

InputRows == UNION {{p} \X DOMAIN all[p] : p \in Parts}
InputRow(i) == all[i[1]][i[2]]
Members(s, key) == {i \in InputRows : KeyOf(s, InputRow(i)) = key}

Answer ==
    {<<s, [key |-> KeyOf(s, InputRow(i)),
           n |-> Cardinality(Members(s, KeyOf(s, InputRow(i)))),
           d |-> IF distinct
                 THEN Cardinality({InputRow(j).v : j \in Members(s, KeyOf(s, InputRow(i)))})
                 ELSE 0]>> : s \in Sets, i \in InputRows}

(* Every group of every grouping set is returned once, by one partition,   *)
(* with all its rows counted and every distinct value counted once, however *)
(* the rows were spread over partitions and blocks.                        *)
GroupsReturned ==
    AllExhausted => /\ {output[i] : i \in DOMAIN output} = Answer
                    /\ Len(output) = Cardinality(Answer)

(* "All partitions should have flushed their tables by this point."        *)
(* (partitioned.rs): no phase starts on tables another partition has still *)
(* to write, neither a merge nor a scan.                                   *)
NoEarlyMerge == \A p \in Parts : phase[p] # "error"

(* A partition waits only for a counter that another partition, which is   *)
(* not waiting, will bring to zero.                                        *)
NoStrandedPartition ==
    \A w \in Waits : wakers[w] # {} =>
        ~Ready(w) /\ \E p \in Parts : phase[p] # "exhausted" /\ p \notin UNION {wakers[x] : x \in Waits}
-----------------------------------------------------------------------------
(* The phases of a partition that has yet to count a counter down.         *)
Before(c) ==
    CASE c = "normal" -> {"aggregating"}
      [] c = "distinct_mergers" -> {"aggregating", "merging_distinct"}
      [] c = "distinct_aggregators" -> {"aggregating", "merging_distinct", "aggregating_distinct"}
      [] c = "mergers" -> {"aggregating", "merging_distinct", "aggregating_distinct", "merging"}
YetTo(c) == {p \in Parts : phase[p] \in Before(c)}
Used(c) == distinct \/ c \in {"normal", "mergers"}

(* The counter a phase waits for.                                          *)
Awaits(w) ==
    CASE w = "merging_distinct" -> "normal"
      [] w = "aggregating_distinct" -> "distinct_mergers"
      [] w = "merging" -> IF distinct THEN "distinct_aggregators" ELSE "normal"
      [] w = "scanning" -> "mergers"

(* The counters count, nobody waits for one that is at zero.               *)
Counting ==
    /\ distinct \in BOOLEAN
    /\ phase \in [Parts -> Phases]
    /\ remaining \in [Counters -> 0 .. N]
    /\ wakers \in [Waits -> SUBSET Parts]
    /\ \A w \in Waits : \A p \in wakers[w] : phase[p] = w
    /\ \A w \in Waits : wakers[w] # {} => remaining[Awaits(w)] # 0
    /\ \A p \in Parts : phase[p] # "error"
    /\ ~distinct => \A p \in Parts : phase[p] \notin {"merging_distinct", "aggregating_distinct"}
    /\ \A c \in Counters : Used(c) => remaining[c] = Cardinality(YetTo(c))

(* A partition past a counter has handed its tables over.                  *)
HandedOver ==
    \A q \in Parts, s \in Sets :
       /\ Parts \ YetTo(Awaits("merging")) \subseteq DOMAIN flushed[q][s]
       /\ DOMAIN flushed[q][s] \subseteq Parts
       /\ distinct => Parts \ YetTo("normal") \subseteq DOMAIN distinctFlushed[q][s]
       /\ DOMAIN distinctFlushed[q][s] \subseteq Parts

(* A partition past a merge has made its final tables.                     *)
MergesDone ==
    /\ Parts \ YetTo("mergers") \subseteq DOMAIN final /\ DOMAIN final \subseteq Parts
    /\ distinct => Parts \ YetTo("distinct_mergers") \subseteq DOMAIN distinctFinal
    /\ DOMAIN distinctFinal \subseteq Parts

IInv == Counting /\ HandedOver /\ MergesDone

LEMMA YetToCount ==
    ASSUME Counted, NEW c
    PROVE  /\ Cardinality(YetTo(c)) \in 0 .. N
           /\ Cardinality(YetTo(c)) = 0 <=> YetTo(c) = {}
           /\ \A p \in YetTo(c) : Cardinality(YetTo(c) \ {p}) = Cardinality(YetTo(c)) - 1
<1>1. YetTo(c) \in SUBSET Parts
  BY DEF YetTo
<1> QED
  BY <1>1 DEF Counted

(* A partition that arrives at a counter leaves those yet to come.         *)
LEMMA MoveOn ==
    ASSUME NEW p \in Parts, NEW to, NEW c,
           phase \in [Parts -> Phases], phase' = [phase EXCEPT ![p] = to]
    PROVE  /\ to \notin Before(c) => YetTo(c)' = YetTo(c) \ {p}
           /\ (to \in Before(c) <=> p \in YetTo(c)) => YetTo(c)' = YetTo(c)
<1>1. phase'[p] = to /\ \A q \in Parts : q # p => phase'[q] = phase[q]
  OBVIOUS
<1>2. to \notin Before(c) => YetTo(c)' = YetTo(c) \ {p}
  BY <1>1 DEF YetTo
<1>3. (to \in Before(c) <=> p \in YetTo(c)) => YetTo(c)' = YetTo(c)
  BY <1>1 DEF YetTo
<1> QED
  BY <1>2, <1>3

LEMMA CountDown ==
    ASSUME Counted, NEW p \in Parts, NEW to, NEW c,
           phase \in [Parts -> Phases], phase' = [phase EXCEPT ![p] = to],
           p \in YetTo(c), to \notin Before(c)
    PROVE  Cardinality(YetTo(c)') = Cardinality(YetTo(c)) - 1
<1>1. YetTo(c)' = YetTo(c) \ {p}
  BY MoveOn
<1> QED
  BY <1>1, YetToCount

LEMMA PutDomain == ASSUME NEW f, NEW x, NEW v PROVE DOMAIN Put(f, x, v) = DOMAIN f \cup {x}
  BY DEF Put

LEMMA InitIInv ==
    ASSUME Counted, Init
    PROVE  IInv
<1>1. phase = [p \in Parts |-> "aggregating"]
  BY Zenon DEF Init
<1>2. \A c \in Counters : YetTo(c) = Parts
  BY <1>1 DEF YetTo, Counters, Before
<1>3. /\ phase \in [Parts -> Phases] /\ \A p \in Parts : phase[p] = "aggregating"
      /\ wakers \in [Waits -> SUBSET Parts] /\ \A w \in Waits : wakers[w] = {}
  BY <1>1 DEF Init, Phases
<1>4. remaining \in [Counters -> 0 .. N] /\ \A c \in Counters : remaining[c] = Cardinality(YetTo(c))
  BY <1>2 DEF Init, Counted
<1>5. \A q \in Parts, s \in Sets : DOMAIN flushed[q][s] = {} /\ DOMAIN distinctFlushed[q][s] = {}
  BY DEF Init
<1>6. "normal" \in Counters /\ Awaits("merging") \in Counters
  BY DEF Counters, Awaits
<1>7. distinct \in BOOLEAN
  BY DEF Init
<1>8. Counting
  BY <1>2, <1>3, <1>4, <1>7, Zenon DEF Counting
<1>9. HandedOver
  BY <1>2, <1>5, <1>6, Zenon DEF HandedOver
<1>10. MergesDone
  <2>1. DOMAIN final = {} /\ DOMAIN distinctFinal = {}
    BY DEF Init
  <2>2. YetTo("mergers") = Parts /\ YetTo("distinct_mergers") = Parts
    BY <1>2 DEF Counters
  <2> QED
    BY <2>1, <2>2 DEF MergesDone
<1> QED
  BY <1>8, <1>9, <1>10 DEF IInv

LEMMA ReadyIsZero == \A w \in Waits : Ready(w) <=> remaining[Awaits(w)] = 0
  BY DEF Waits, Ready, Awaits

LEMMA AwaitsCounter ==
    ASSUME Counting, NEW w \in Waits
    PROVE  /\ Awaits(w) \in Counters
           /\ (\E p \in Parts : phase[p] = w) => Used(Awaits(w))
<1>1. Awaits(w) \in Counters
  BY DEF Waits, Awaits, Counters
<1>2. ASSUME NEW p \in Parts, phase[p] = w PROVE Used(Awaits(w))
  <2>1. CASE distinct
    BY <2>1 DEF Used
  <2>2. CASE ~distinct
    <3>1. w \in {"merging", "scanning"}
      BY <1>2, <2>2 DEF Counting, Waits
    <3> QED
      BY <2>2, <3>1 DEF Used, Awaits
  <2> QED
    BY <2>1, <2>2
<1> QED
  BY <1>1, <1>2

(* The step of a partition past a counter, into a phase that waits for it. *)
Passes(p, to, c, w) ==
    /\ to \in Phases /\ c \in Counters /\ w \in Waits
    /\ \A x \in Waits : p \notin wakers[x]
    /\ phase' = [phase EXCEPT ![p] = to] /\ Arrive(c, w) /\ distinct' = distinct
    /\ Used(c) /\ phase[p] \in Before(c) /\ to \notin Before(c) /\ to # "error"
    /\ ~distinct => to \notin {"merging_distinct", "aggregating_distinct"}
    /\ \A d \in Counters : Used(d) /\ d # c => (phase[p] \in Before(d) <=> to \in Before(d))
    /\ \A x \in Waits : x # w /\ wakers[x] # {} => Awaits(x) # c

(* A partition that arrives at a counter keeps the counters right, and     *)
(* leaves nobody waiting for it when it was the last.                      *)
LEMMA ArriveCounts ==
    ASSUME Counted, Counting, NEW p \in Parts, NEW to, NEW c, NEW w, Passes(p, to, c, w)
    PROVE  Counting'
<1>p. /\ to \in Phases /\ c \in Counters /\ w \in Waits
      /\ \A x \in Waits : p \notin wakers[x]
      /\ phase' = [phase EXCEPT ![p] = to] /\ Arrive(c, w) /\ distinct' = distinct
      /\ Used(c) /\ phase[p] \in Before(c) /\ to \notin Before(c) /\ to # "error"
      /\ ~distinct => to \notin {"merging_distinct", "aggregating_distinct"}
      /\ \A d \in Counters : Used(d) /\ d # c => (phase[p] \in Before(d) <=> to \in Before(d))
      /\ \A x \in Waits : x # w /\ wakers[x] # {} => Awaits(x) # c
  BY Zenon DEF Passes
<1> USE <1>p
<1>1. /\ phase \in [Parts -> Phases] /\ remaining \in [Counters -> 0 .. N]
      /\ wakers \in [Waits -> SUBSET Parts]
      /\ \A d \in Counters : Used(d) => remaining[d] = Cardinality(YetTo(d))
  BY Zenon DEF Counting
<1>2. p \in YetTo(c)
  BY DEF YetTo
<1>3. remaining[c] = Cardinality(YetTo(c)) /\ remaining[c] \in 1 .. N
  <2>1. remaining[c] = Cardinality(YetTo(c)) /\ remaining[c] # 0
    BY <1>1, <1>2, YetToCount
  <2> QED
    BY <1>1, <2>1
<1>4. /\ remaining' = [remaining EXCEPT ![c] = @ - 1]
      /\ wakers' = IF remaining[c] = 1 THEN [wakers EXCEPT ![w] = {}] ELSE wakers
  BY Zenon DEF Arrive, Wake
<1>5. remaining[c] - 1 \in 0 .. N /\ (remaining[c] # 1 => remaining[c] - 1 # 0)
  BY <1>3 DEF Counted
<1>6. /\ remaining' \in [Counters -> 0 .. N] /\ remaining'[c] = remaining[c] - 1
      /\ \A d \in Counters : d # c => remaining'[d] = remaining[d]
  BY <1>1, <1>4, <1>5, Zenon
<1>7. /\ wakers' \in [Waits -> SUBSET Parts]
      /\ \A x \in Waits : wakers'[x] \subseteq wakers[x]
      /\ remaining[c] = 1 => wakers'[w] = {}
  <2>1. CASE remaining[c] = 1
    BY <1>1, <1>4, <2>1
  <2>2. CASE remaining[c] # 1
    BY <1>1, <1>4, <2>2
  <2> QED
    BY <2>1, <2>2
<1>8. /\ phase' \in [Parts -> Phases] /\ phase'[p] = to
      /\ \A q \in Parts : q # p => phase'[q] = phase[q]
  BY <1>1, Zenon
<1>9. \A x \in Waits : \A q \in wakers'[x] : phase'[q] = x
  <2> SUFFICES ASSUME NEW x \in Waits, NEW q \in wakers'[x] PROVE phase'[q] = x
    OBVIOUS
  <2>1. q \in wakers[x] /\ q \in Parts /\ q # p
    BY <1>1, <1>7
  <2>2. phase[q] = x
    BY <2>1, Zenon DEF Counting
  <2> QED
    BY <1>8, <2>1, <2>2
<1>10. \A x : Awaits(x)' = Awaits(x) /\ (Used(x)' <=> Used(x))
  BY DEF Awaits, Used
<1>11. ASSUME NEW x \in Waits, wakers'[x] # {} PROVE remaining'[Awaits(x)] # 0
  <2>1. wakers[x] # {} /\ remaining[Awaits(x)] # 0
    BY <1>11, <1>7 DEF Counting
  <2>2. CASE Awaits(x) = c
    BY <2>1, <2>2, <1>5, <1>6, <1>7, <1>11, Zenon
  <2>3. CASE Awaits(x) # c
    BY <2>1, <2>3, <1>6, AwaitsCounter, Zenon
  <2> QED
    BY <2>2, <2>3
<1>12. ASSUME NEW d \in Counters, Used(d) PROVE remaining'[d] = Cardinality(YetTo(d)')
  <2>1. CASE d = c
    <3>1. Cardinality(YetTo(c)') = Cardinality(YetTo(c)) - 1
      BY <1>1, <1>2, CountDown, Zenon
    <3> QED
      BY <2>1, <3>1, <1>3, <1>6, Zenon
  <2>2. CASE d # c
    <3>1. YetTo(d)' = YetTo(d)
      BY <1>12, <2>2, <1>8 DEF YetTo
    <3> QED
      BY <1>12, <2>2, <3>1, <1>1, <1>6, Zenon
  <2> QED
    BY <2>1, <2>2
<1>13. /\ distinct' \in BOOLEAN
       /\ \A q \in Parts : phase'[q] # "error"
       /\ ~distinct' => \A q \in Parts : phase'[q] \notin {"merging_distinct", "aggregating_distinct"}
  BY <1>8, Zenon DEF Counting
<1> QED
  BY <1>6, <1>7, <1>8, <1>9, <1>10, <1>11, <1>12, <1>13, Zenon DEF Counting

(* The step of one partition, and what it hands over.                      *)
LEMMA FlushIntoDomain ==
    ASSUME NEW target, NEW p \in Parts, NEW mine, NEW q \in Parts, NEW s \in Sets
    PROVE  DOMAIN FlushInto(target, p, mine)[q][s] = DOMAIN target[q][s] \cup {p}
  BY PutDomain, Zenon DEF FlushInto

LEMMA FlushHandsOver ==
    ASSUME NEW target, NEW p \in Parts, NEW mine, NEW before,
           NEW q \in Parts, NEW s \in Sets,
           Parts \ before \subseteq DOMAIN target[q][s], DOMAIN target[q][s] \subseteq Parts
    PROVE  /\ Parts \ (before \ {p}) \subseteq DOMAIN FlushInto(target, p, mine)[q][s]
           /\ DOMAIN FlushInto(target, p, mine)[q][s] \subseteq Parts
  BY FlushIntoDomain

(* Steps that make no final table, and what a counter at zero says of      *)
(* those that are made.                                                    *)
LEMMA MergesKept ==
    ASSUME MergesDone, UNCHANGED <<distinct, final, distinctFinal>>,
           YetTo("mergers")' = YetTo("mergers"),
           distinct => YetTo("distinct_mergers")' = YetTo("distinct_mergers")
    PROVE  MergesDone'
  BY DEF MergesDone

LEMMA ZeroMergers ==
    ASSUME Counted, Counting, MergesDone
    PROVE  /\ remaining["mergers"] = 0 => AllMerged(final)
           /\ distinct /\ remaining["distinct_mergers"] = 0 => AllMerged(distinctFinal)
<1>1. /\ remaining["mergers"] = Cardinality(YetTo("mergers"))
      /\ distinct => remaining["distinct_mergers"] = Cardinality(YetTo("distinct_mergers"))
  BY DEF Counting, Used, Counters
<1>2. \A c : Cardinality(YetTo(c)) = 0 => YetTo(c) = {}
  BY YetToCount
<1> QED
  BY <1>1, <1>2 DEF MergesDone, AllMerged

LEMMA NextIInv ==
    ASSUME Counted, IInv, [Next]_vars
    PROVE  IInv'
<1>c. Counting /\ HandedOver /\ MergesDone
  BY DEF IInv
<1>t. phase \in [Parts -> Phases] /\ wakers \in [Waits -> SUBSET Parts]
  BY <1>c DEF Counting
<1>a. \A w \in Waits : Awaits(w) \in Counters
  BY <1>c, AwaitsCounter, Zenon
<1>u. ASSUME UNCHANGED vars PROVE IInv'
  BY <1>u, <1>c, Zenon DEF vars, tables, IInv, Counting, HandedOver, MergesDone, YetTo, Used, Awaits
<1>1. ASSUME NEW p \in Parts, Aggregate(p) PROVE IInv'
  <2>1. UNCHANGED <<distinct, phase, flushed, distinctFlushed, final, distinctFinal, remaining, wakers>>
    BY <1>1, Zenon DEF Aggregate
  <2> QED
    BY <2>1, <1>c, Zenon DEF IInv, Counting, HandedOver, MergesDone, YetTo, Used, Awaits
<1>2. ASSUME NEW p \in Parts, NEW w \in Waits, Park(p, w) PROVE IInv'
  <2>1. UNCHANGED <<distinct, phase, flushed, distinctFlushed, final, distinctFinal, remaining>>
    BY <1>2, Zenon DEF Park, tables
  <2>2. /\ phase[p] = w /\ ~Ready(w) /\ wakers' = [wakers EXCEPT ![w] = @ \cup {p}]
    BY <1>2, Zenon DEF Park, Runs
  <2>3. remaining[Awaits(w)] # 0
    BY <2>2, ReadyIsZero
  <2>4. /\ wakers' \in [Waits -> SUBSET Parts] /\ wakers'[w] = wakers[w] \cup {p}
        /\ \A x \in Waits : x # w => wakers'[x] = wakers[x]
    BY <1>t, <2>2
  <2>5. \A x \in Waits : wakers'[x] # {} => remaining[Awaits(x)] # 0
    BY <2>3, <2>4, <1>c, Zenon DEF Counting
  <2>6. \A x \in Waits : \A q \in wakers'[x] : phase[q] = x
    BY <2>2, <2>4, <1>c, Zenon DEF Counting
  <2>7. \A x : Awaits(x)' = Awaits(x) /\ (Used(x)' <=> Used(x)) /\ YetTo(x)' = YetTo(x)
    BY <2>1, Zenon DEF Awaits, Used, YetTo
  <2>8. Counting'
    BY <1>c, <2>1, <2>4, <2>5, <2>6, <2>7, Zenon DEF Counting
  <2>9. HandedOver'
    BY <1>c, <2>1, <2>7, Zenon DEF HandedOver
  <2> QED
    BY <1>c, <2>1, <2>7, <2>8, <2>9, MergesKept DEF IInv
<1>3. ASSUME NEW p \in Parts, NEW s \in Sets, ScanTable(p, s) PROVE IInv'
  <2>1. Ready("scanning")
    BY <1>3, Zenon DEF ScanTable
  <2>2. AllMerged(final)
    BY <1>c, <2>1, ZeroMergers DEF Ready
  <2>3. UNCHANGED <<distinct, phase, flushed, distinctFlushed, final, distinctFinal, remaining, wakers>>
    BY <1>3, <2>2, Zenon DEF ScanTable, tables
  <2> QED
    BY <2>3, <1>c, Zenon DEF IInv, Counting, HandedOver, MergesDone, YetTo, Used, Awaits
<1>4. ASSUME NEW p \in Parts, Exhausted(p) PROVE IInv'
  <2>1. UNCHANGED <<distinct, flushed, distinctFlushed, final, distinctFinal, remaining, wakers>>
    BY <1>4, Zenon DEF Exhausted, tables
  <2>2. /\ phase[p] = "scanning" /\ phase' = [phase EXCEPT ![p] = "exhausted"]
        /\ \A x \in Waits : p \notin wakers[x]
    BY <1>4, Zenon DEF Exhausted, Runs
  <2>3. /\ phase' \in [Parts -> Phases] /\ phase'[p] = "exhausted"
        /\ \A q \in Parts : q # p => phase'[q] = phase[q]
    BY <1>t, <2>2 DEF Phases
  <2>4. \A c \in Counters : YetTo(c)' = YetTo(c)
    BY <2>2, <2>3 DEF YetTo, Before, Counters
  <2>5. \A x : Awaits(x)' = Awaits(x) /\ (Used(x)' <=> Used(x))
    BY <2>1, Zenon DEF Awaits, Used
  <2>6. \A x \in Waits : \A q \in wakers'[x] : phase'[q] = x
    BY <1>c, <1>t, <2>1, <2>2, <2>3 DEF Counting
  <2>7. /\ \A q \in Parts : phase'[q] # "error"
        /\ ~distinct => \A q \in Parts : phase'[q] \notin {"merging_distinct", "aggregating_distinct"}
    BY <1>c, <2>3 DEF Counting
  <2>8. Counting'
    BY <1>c, <2>1, <2>3, <2>4, <2>5, <2>6, <2>7, <1>a, Zenon DEF Counting
  <2>9. HandedOver'
    <3>1. "normal" \in Counters /\ Awaits("merging") \in Counters
      BY <1>a DEF Counters, Waits
    <3> QED
      BY <1>c, <2>1, <2>4, <2>5, <3>1, Zenon DEF HandedOver
  <2>10. MergesDone'
    <3>1. "mergers" \in Counters /\ "distinct_mergers" \in Counters
      BY DEF Counters
    <3> QED
      BY <1>c, <2>1, <2>4, <3>1, MergesKept
  <2> QED
    BY <2>8, <2>9, <2>10 DEF IInv
<1>5. ASSUME NEW p \in Parts, FinalizeExecute(p), distinct PROVE IInv'
  <2>1. /\ UNCHANGED <<distinct, flushed, final, distinctFinal>>
        /\ distinctFlushed' = FlushInto(distinctFlushed, p, distinctLocal[p])
        /\ phase' = [phase EXCEPT ![p] = "merging_distinct"]
        /\ Arrive("normal", "merging_distinct")
        /\ phase[p] = "aggregating" /\ \A x \in Waits : p \notin wakers[x]
    BY <1>5, Zenon DEF FinalizeExecute, Runs
  <2>2. \A d \in Counters : d # "normal" => (phase[p] \in Before(d) <=> "merging_distinct" \in Before(d))
    BY <2>1 DEF Counters, Before
  <2>3. \A x \in Waits : x # "merging_distinct" /\ wakers[x] # {} => Awaits(x) # "normal"
    BY <1>5 DEF Waits, Awaits
  <2>4. /\ "normal" \in Counters /\ "merging_distinct" \in Waits /\ "merging_distinct" \in Phases
        /\ Used("normal") /\ phase[p] \in Before("normal") /\ "merging_distinct" \notin Before("normal")
    BY <2>1 DEF Counters, Waits, Phases, Used, Before
  <2>5. Counting'
    <3>1. Passes(p, "merging_distinct", "normal", "merging_distinct")
      BY <1>5, <1>c, <2>1, <2>2, <2>3, <2>4, Zenon DEF Passes
    <3> QED
      BY <1>c, <3>1, ArriveCounts
  <2>6. /\ YetTo("normal")' = YetTo("normal") \ {p}
        /\ YetTo("distinct_aggregators")' = YetTo("distinct_aggregators")
    <3>1. "merging_distinct" \in Before("distinct_aggregators") /\ p \in YetTo("distinct_aggregators")
      BY <2>1 DEF Before, YetTo
    <3> QED
      BY <1>t, <2>1, <2>4, <3>1, MoveOn
  <2>7. Awaits("merging") = "distinct_aggregators" /\ Awaits("merging")' = "distinct_aggregators"
    BY <1>5, <2>1 DEF Awaits
  <2>8. HandedOver'
    BY <1>c, <2>1, <2>6, <2>7, <1>5, FlushHandsOver, Zenon DEF HandedOver
  <2>9. MergesDone'
    <3>1. \A d \in {"mergers", "distinct_mergers"} : "merging_distinct" \in Before(d) /\ p \in YetTo(d)
      BY <2>1 DEF Before, YetTo
    <3>2. \A d \in {"mergers", "distinct_mergers"} : YetTo(d)' = YetTo(d)
      BY <1>t, <2>1, <3>1, MoveOn
    <3> QED
      BY <1>c, <2>1, <3>2, MergesKept
  <2> QED
    BY <2>5, <2>8, <2>9 DEF IInv
<1>6. ASSUME NEW p \in Parts, FinalizeExecute(p), ~distinct PROVE IInv'
  <2>1. /\ UNCHANGED <<distinct, distinctFlushed, final, distinctFinal>>
        /\ flushed' = FlushInto(flushed, p, local[p])
        /\ phase' = [phase EXCEPT ![p] = "merging"]
        /\ Arrive("normal", "merging")
        /\ phase[p] = "aggregating" /\ \A x \in Waits : p \notin wakers[x]
    BY <1>6, Zenon DEF FinalizeExecute, Runs
  <2>2. \A d \in Counters : Used(d) /\ d # "normal" => (phase[p] \in Before(d) <=> "merging" \in Before(d))
    BY <1>6, <2>1 DEF Counters, Before, Used
  <2>3. \A x \in Waits : x # "merging" /\ wakers[x] # {} => Awaits(x) # "normal"
    <3>1. wakers["merging_distinct"] = {}
      BY <1>6, <1>c, <1>t DEF Counting, Waits
    <3> QED
      BY <3>1 DEF Waits, Awaits
  <2>4. /\ "normal" \in Counters /\ "merging" \in Waits /\ "merging" \in Phases
        /\ Used("normal") /\ phase[p] \in Before("normal") /\ "merging" \notin Before("normal")
        /\ "merging" \notin {"merging_distinct", "aggregating_distinct"}
    BY <2>1 DEF Counters, Waits, Phases, Used, Before
  <2>5. Counting'
    <3>1. Passes(p, "merging", "normal", "merging")
      BY <1>6, <1>c, <2>1, <2>2, <2>3, <2>4, Zenon DEF Passes
    <3> QED
      BY <1>c, <3>1, ArriveCounts
  <2>6. YetTo("normal")' = YetTo("normal") \ {p}
    BY <1>t, <2>1, <2>4, MoveOn
  <2>7. Awaits("merging") = "normal" /\ Awaits("merging")' = "normal"
    BY <1>6, <2>1 DEF Awaits
  <2>8. HandedOver'
    BY <1>6, <1>c, <2>1, <2>6, <2>7, FlushHandsOver, Zenon DEF HandedOver
  <2>9. MergesDone'
    <3>1. "merging" \in Before("mergers") /\ p \in YetTo("mergers")
      BY <2>1 DEF Before, YetTo
    <3>2. YetTo("mergers")' = YetTo("mergers")
      BY <1>t, <2>1, <3>1, MoveOn
    <3> QED
      BY <1>6, <1>c, <2>1, <3>2, MergesKept
  <2> QED
    BY <2>5, <2>8, <2>9 DEF IInv
<1>7. ASSUME NEW p \in Parts, MergeDistinct(p) PROVE IInv'
  <2>1. /\ phase[p] = "merging_distinct" /\ (\A x \in Waits : p \notin wakers[x])
        /\ Ready("merging_distinct")
        /\ UNCHANGED <<distinct, flushed, distinctFlushed, final>>
    BY <1>7, Zenon DEF MergeDistinct, Runs
  <2>2. distinct
    BY <2>1, <1>c, Zenon DEF Counting
  <2>3. YetTo("normal") = {}
    <3>1. remaining["normal"] = 0
      BY <2>1, ReadyIsZero DEF Waits, Awaits
    <3>2. remaining["normal"] = Cardinality(YetTo("normal"))
      BY <1>c DEF Counting, Used, Counters
    <3> QED
      BY <3>1, <3>2, YetToCount
  <2>4. AllFlushed(distinctFlushed, p)
    BY <1>c, <2>2, <2>3 DEF HandedOver, AllFlushed
  <2>5. /\ phase' = [phase EXCEPT ![p] = "aggregating_distinct"]
        /\ Arrive("distinct_mergers", "aggregating_distinct")
        /\ \E made : distinctFinal' = Put(distinctFinal, p, made)
    BY <1>7, <2>4, Zenon DEF MergeDistinct
  <2>6. \A d \in Counters : d # "distinct_mergers" =>
            (phase[p] \in Before(d) <=> "aggregating_distinct" \in Before(d))
    BY <2>1 DEF Counters, Before
  <2>7. \A x \in Waits : x # "aggregating_distinct" /\ wakers[x] # {} => Awaits(x) # "distinct_mergers"
    BY <2>2 DEF Waits, Awaits
  <2>8. /\ "distinct_mergers" \in Counters /\ "aggregating_distinct" \in Waits
        /\ "aggregating_distinct" \in Phases /\ Used("distinct_mergers")
        /\ phase[p] \in Before("distinct_mergers")
        /\ "aggregating_distinct" \notin Before("distinct_mergers")
    BY <2>1, <2>2 DEF Counters, Waits, Phases, Used, Before
  <2>9. Counting'
    <3>1. Passes(p, "aggregating_distinct", "distinct_mergers", "aggregating_distinct")
      BY <1>c, <2>1, <2>2, <2>5, <2>6, <2>7, <2>8, Zenon DEF Passes
    <3> QED
      BY <1>c, <3>1, ArriveCounts
  <2>10. /\ YetTo("normal")' = YetTo("normal")
         /\ YetTo("distinct_aggregators")' = YetTo("distinct_aggregators")
    <3>1. /\ "aggregating_distinct" \in Before("distinct_aggregators")
          /\ "aggregating_distinct" \notin Before("normal")
          /\ p \in YetTo("distinct_aggregators") /\ p \notin YetTo("normal")
      BY <2>1 DEF Before, YetTo
    <3> QED
      BY <1>t, <2>5, <3>1, MoveOn
  <2>11. Awaits("merging") = "distinct_aggregators" /\ Awaits("merging")' = "distinct_aggregators"
    BY <2>1, <2>2 DEF Awaits
  <2>12. HandedOver'
    BY <1>c, <2>1, <2>10, <2>11, Zenon DEF HandedOver
  <2>13. MergesDone'
    <3>1. /\ "aggregating_distinct" \in Before("mergers") /\ p \in YetTo("mergers")
          /\ "aggregating_distinct" \notin Before("distinct_mergers")
      BY <2>1 DEF Before, YetTo
    <3>2. /\ YetTo("mergers")' = YetTo("mergers")
          /\ YetTo("distinct_mergers")' = YetTo("distinct_mergers") \ {p}
      BY <1>t, <2>5, <3>1, MoveOn
    <3>3. DOMAIN distinctFinal' = DOMAIN distinctFinal \cup {p}
      BY <2>5, PutDomain
    <3> QED
      BY <1>c, <2>1, <3>2, <3>3 DEF MergesDone
  <2> QED
    BY <2>9, <2>12, <2>13 DEF IInv
<1>8. ASSUME NEW p \in Parts, AggregateDistinct(p) PROVE IInv'
  <2>d. /\ phase[p] = "aggregating_distinct" /\ (\A x \in Waits : p \notin wakers[x])
        /\ Ready("aggregating_distinct")
        /\ UNCHANGED <<distinct, distinctFlushed, final, distinctFinal>>
    BY <1>8, Zenon DEF AggregateDistinct, Runs
  <2>2. distinct
    BY <2>d, <1>c, Zenon DEF Counting
  <2>3. AllMerged(distinctFinal)
    BY <1>c, <2>d, <2>2, ZeroMergers DEF Ready
  <2>4. /\ phase' = [phase EXCEPT ![p] = "merging"]
        /\ Arrive("distinct_aggregators", "merging")
        /\ \E mine : flushed' = FlushInto(flushed, p, mine)
    BY <1>8, <2>3, Zenon DEF AggregateDistinct
  <2>1. /\ phase[p] = "aggregating_distinct" /\ (\A x \in Waits : p \notin wakers[x])
        /\ UNCHANGED <<distinct, distinctFlushed, final, distinctFinal>>
        /\ phase' = [phase EXCEPT ![p] = "merging"]
        /\ Arrive("distinct_aggregators", "merging")
        /\ \E mine : flushed' = FlushInto(flushed, p, mine)
    BY <2>d, <2>4
  <2>6. \A d \in Counters : d # "distinct_aggregators" =>
            (phase[p] \in Before(d) <=> "merging" \in Before(d))
    BY <2>1 DEF Counters, Before
  <2>7. \A x \in Waits : x # "merging" /\ wakers[x] # {} => Awaits(x) # "distinct_aggregators"
    BY <2>2 DEF Waits, Awaits
  <2>8. /\ "distinct_aggregators" \in Counters /\ "merging" \in Waits
        /\ "merging" \in Phases /\ Used("distinct_aggregators")
        /\ phase[p] \in Before("distinct_aggregators")
        /\ "merging" \notin Before("distinct_aggregators")
    BY <2>1, <2>2 DEF Counters, Waits, Phases, Used, Before
  <2>9. Counting'
    <3>1. Passes(p, "merging", "distinct_aggregators", "merging")
      BY <1>c, <2>1, <2>2, <2>6, <2>7, <2>8, Zenon DEF Passes
    <3> QED
      BY <1>c, <3>1, ArriveCounts
  <2>10. /\ YetTo("normal")' = YetTo("normal")
         /\ YetTo("distinct_aggregators")' = YetTo("distinct_aggregators") \ {p}
    <3>1. "merging" \notin Before("normal") /\ p \notin YetTo("normal")
      BY <2>1 DEF Before, YetTo
    <3> QED
      BY <1>t, <2>1, <2>8, <3>1, MoveOn
  <2>11. Awaits("merging") = "distinct_aggregators" /\ Awaits("merging")' = "distinct_aggregators"
    BY <2>1, <2>2 DEF Awaits
  <2>12. HandedOver'
    <3>1. PICK mine : flushed' = FlushInto(flushed, p, mine)
      BY <2>1
    <3> QED
      BY <1>c, <2>1, <2>10, <2>11, <3>1, FlushHandsOver, Zenon DEF HandedOver
  <2>13. MergesDone'
    <3>1. /\ "merging" \in Before("mergers") /\ p \in YetTo("mergers")
          /\ "merging" \notin Before("distinct_mergers") /\ p \notin YetTo("distinct_mergers")
      BY <2>1 DEF Before, YetTo
    <3>2. YetTo("mergers")' = YetTo("mergers") /\ YetTo("distinct_mergers")' = YetTo("distinct_mergers")
      BY <1>t, <2>1, <3>1, MoveOn
    <3> QED
      BY <1>c, <2>1, <3>2, MergesKept
  <2> QED
    BY <2>9, <2>12, <2>13 DEF IInv
<1>9. ASSUME NEW p \in Parts, Merge(p) PROVE IInv'
  <2>1. /\ phase[p] = "merging" /\ (\A x \in Waits : p \notin wakers[x])
        /\ Ready("merging")
        /\ UNCHANGED <<distinct, flushed, distinctFlushed, distinctFinal>>
    BY <1>9, Zenon DEF Merge, Runs
  <2>2. "merging" \in Waits /\ Awaits("merging") \in Counters /\ Used(Awaits("merging"))
    BY <1>c, <2>1, AwaitsCounter DEF Waits
  <2>3. YetTo(Awaits("merging")) = {}
    <3>1. remaining[Awaits("merging")] = 0
      BY <2>1, <2>2, ReadyIsZero
    <3>2. remaining[Awaits("merging")] = Cardinality(YetTo(Awaits("merging")))
      BY <1>c, <2>2, Zenon DEF Counting
    <3> QED
      BY <3>1, <3>2, YetToCount
  <2>4. AllFlushed(flushed, p)
    BY <1>c, <2>3 DEF HandedOver, AllFlushed
  <2>5. /\ phase' = [phase EXCEPT ![p] = "scanning"] /\ Arrive("mergers", "scanning")
        /\ \E made : final' = Put(final, p, made)
    BY <1>9, <2>4, Zenon DEF Merge
  <2>6. \A d \in Counters : d # "mergers" => (phase[p] \in Before(d) <=> "scanning" \in Before(d))
    BY <2>1 DEF Counters, Before
  <2>7. \A x \in Waits : x # "scanning" /\ wakers[x] # {} => Awaits(x) # "mergers"
    BY DEF Waits, Awaits
  <2>8. /\ "mergers" \in Counters /\ "scanning" \in Waits
        /\ "scanning" \in Phases /\ Used("mergers")
        /\ phase[p] \in Before("mergers") /\ "scanning" \notin Before("mergers")
        /\ "scanning" \notin {"merging_distinct", "aggregating_distinct"}
    BY <2>1 DEF Counters, Waits, Phases, Used, Before
  <2>9. Counting'
    <3>1. Passes(p, "scanning", "mergers", "scanning")
      BY <1>c, <2>1, <2>5, <2>6, <2>7, <2>8, Zenon DEF Passes
    <3> QED
      BY <1>c, <3>1, ArriveCounts
  <2>10. YetTo("normal")' = YetTo("normal") /\ YetTo(Awaits("merging"))' = YetTo(Awaits("merging"))
    <3>1. \A d \in {"normal", "distinct_aggregators"} : YetTo(d)' = YetTo(d)
      <4> SUFFICES ASSUME NEW d \in {"normal", "distinct_aggregators"} PROVE YetTo(d)' = YetTo(d)
        OBVIOUS
      <4>1. "scanning" \notin Before(d) /\ p \notin YetTo(d)
        BY <2>1 DEF Before, YetTo
      <4> QED
        BY <1>t, <2>5, <4>1, MoveOn
    <3>2. Awaits("merging") \in {"normal", "distinct_aggregators"} /\ Awaits("merging")' = Awaits("merging")
      BY <2>1 DEF Awaits
    <3> QED
      BY <3>1, <3>2, Zenon
  <2>12. HandedOver'
    BY <1>c, <2>1, <2>10, Zenon DEF HandedOver
  <2>13. MergesDone'
    <3>1. /\ "scanning" \notin Before("mergers")
          /\ "scanning" \notin Before("distinct_mergers") /\ p \notin YetTo("distinct_mergers")
      BY <2>1 DEF Before, YetTo
    <3>2. /\ YetTo("mergers")' = YetTo("mergers") \ {p}
          /\ YetTo("distinct_mergers")' = YetTo("distinct_mergers")
      BY <1>t, <2>5, <3>1, MoveOn
    <3>3. DOMAIN final' = DOMAIN final \cup {p}
      BY <2>5, PutDomain
    <3> QED
      BY <1>c, <2>1, <3>2, <3>3 DEF MergesDone
  <2> QED
    BY <2>9, <2>12, <2>13 DEF IInv
<1> QED
  BY <1>u, <1>1, <1>2, <1>3, <1>4, <1>5, <1>6, <1>7, <1>8, <1>9, Zenon DEF Next, Run

LEMMA Invariance ==
    ASSUME Counted
    PROVE  Spec => []IInv
<1>1. Init => IInv
  BY InitIInv
<1>2. IInv /\ [Next]_vars => IInv'
  BY NextIInv
<1> QED
  BY <1>1, <1>2, PTL DEF Spec

(* Whatever a counter waits for, there is a partition that can go on.      *)
LEMMA SomeoneRuns ==
    ASSUME Counted, Counting, NEW w \in Waits, wakers[w] # {}
    PROVE  \E p \in Parts : phase[p] # "exhausted" /\ p \notin UNION {wakers[x] : x \in Waits}
<1> DEFINE Running(p) == phase[p] # "exhausted" /\ p \notin UNION {wakers[x] : x \in Waits}
<1>t. phase \in [Parts -> Phases] /\ wakers \in [Waits -> SUBSET Parts]
  BY DEF Counting
<1>1. ASSUME NEW x \in Waits, wakers[x] # {} PROVE YetTo(Awaits(x)) # {}
  <2>1. \E p \in Parts : phase[p] = x
    BY <1>1, <1>t DEF Counting
  <2>2. Awaits(x) \in Counters /\ Used(Awaits(x))
    BY <2>1, AwaitsCounter, Zenon
  <2>3. remaining[Awaits(x)] = Cardinality(YetTo(Awaits(x))) /\ remaining[Awaits(x)] # 0
    BY <1>1, <2>2, Zenon DEF Counting
  <2> QED
    BY <2>3, YetToCount
<1>2. ASSUME NEW p \in Parts, ~Running(p), phase[p] # "exhausted"
      PROVE phase[p] \in Waits /\ wakers[phase[p]] # {}
  <2>1. PICK x \in Waits : p \in wakers[x]
    BY <1>2
  <2>2. phase[p] = x
    BY <2>1 DEF Counting
  <2> QED
    BY <2>1, <2>2
<1>3. ASSUME YetTo("normal") # {} PROVE \E p \in Parts : Running(p)
  <2>1. PICK p \in Parts : phase[p] = "aggregating"
    BY <1>3 DEF YetTo, Before
  <2>2. phase[p] \notin Waits /\ phase[p] # "exhausted"
    BY <2>1 DEF Waits
  <2> QED
    BY <1>2, <2>2
<1>4. ASSUME YetTo("distinct_mergers") # {} PROVE \E p \in Parts : Running(p)
  <2>1. PICK p \in Parts : phase[p] \in {"aggregating", "merging_distinct"}
    BY <1>4 DEF YetTo, Before
  <2>2. CASE Running(p)
    BY <2>2
  <2>3. CASE ~Running(p)
    <3>1. phase[p] \in Waits /\ wakers[phase[p]] # {}
      BY <1>2, <2>1, <2>3
    <3>2. Awaits(phase[p]) = "normal"
      BY <2>1, <3>1 DEF Waits, Awaits
    <3> QED
      BY <1>1, <1>3, <3>1, <3>2
  <2> QED
    BY <2>2, <2>3
<1>5. ASSUME YetTo("distinct_aggregators") # {} PROVE \E p \in Parts : Running(p)
  <2>1. PICK p \in Parts : phase[p] \in {"aggregating", "merging_distinct", "aggregating_distinct"}
    BY <1>5 DEF YetTo, Before
  <2>2. CASE Running(p)
    BY <2>2
  <2>3. CASE ~Running(p)
    <3>1. phase[p] \in Waits /\ wakers[phase[p]] # {}
      BY <1>2, <2>1, <2>3
    <3>2. Awaits(phase[p]) \in {"normal", "distinct_mergers"}
      BY <2>1, <3>1 DEF Waits, Awaits
    <3> QED
      BY <1>1, <1>3, <1>4, <3>1, <3>2
  <2> QED
    BY <2>2, <2>3
<1>6. ASSUME YetTo("mergers") # {} PROVE \E p \in Parts : Running(p)
  <2>1. PICK p \in Parts : phase[p] \in {"aggregating", "merging_distinct", "aggregating_distinct", "merging"}
    BY <1>6 DEF YetTo, Before
  <2>2. CASE Running(p)
    BY <2>2
  <2>3. CASE ~Running(p)
    <3>1. phase[p] \in Waits /\ wakers[phase[p]] # {}
      BY <1>2, <2>1, <2>3
    <3>2. Awaits(phase[p]) \in {"normal", "distinct_mergers", "distinct_aggregators"}
      BY <2>1, <3>1 DEF Waits, Awaits
    <3> QED
      BY <1>1, <1>3, <1>4, <1>5, <3>1, <3>2
  <2> QED
    BY <2>2, <2>3
<1>7. Awaits(w) \in {"normal", "distinct_mergers", "distinct_aggregators", "mergers"}
  BY DEF Waits, Awaits
<1> QED
  BY <1>1, <1>3, <1>4, <1>5, <1>6, <1>7

(* merge_global and prepare_scan never refuse: every partition has flushed *)
(* or merged when a phase that reads its tables starts, for any number of  *)
(* partitions, rows and grouping sets.                                     *)
THEOREM MergesWait ==
    ASSUME Counted
    PROVE  Spec => []NoEarlyMerge
<1>1. IInv => NoEarlyMerge
  BY DEF IInv, Counting, NoEarlyMerge
<1> QED
  BY <1>1, Invariance, PTL

(* No partition of a GROUP BY waits for ever: for any number of partitions *)
(* one that is parked waits for a counter another one has yet to bring     *)
(* down, and someone is running.                                           *)
THEOREM NobodyWaitsForEver ==
    ASSUME Counted
    PROVE  Spec => []NoStrandedPartition
<1>1. IInv => NoStrandedPartition
  BY SomeoneRuns, ReadyIsZero DEF IInv, Counting, NoStrandedPartition
<1> QED
  BY <1>1, Invariance, PTL

(* The phases, counters and wakers of a GROUP BY keep their types.         *)
THEOREM TypesKept ==
    ASSUME Counted
    PROVE  Spec => []TypeOK
<1>1. IInv => TypeOK
  BY DEF IInv, Counting, TypeOK
<1> QED
  BY <1>1, Invariance, PTL
=============================================================================
