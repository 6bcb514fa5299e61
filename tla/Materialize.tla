----------------------------- MODULE Materialize -----------------------------
(***************************************************************************)
(* The Materialize operator (operators/materialize.rs): the partitions of  *)
(* one pipeline push into a column collection, the partitions of several   *)
(* output pipelines each read all of it while it is filled.                *)
(***************************************************************************)
EXTENDS ColumnCollection, TLAPS

CONSTANT Input \* the numbers of rows of the batches each partition pushes

VARIABLES
    remaining, \* remaining_input_partitions
    wakers,    \* pull partitions whose waker is stored
    push,      \* phase of a push partition
    pushed,    \* batches a partition has pushed
    pull,      \* phase of a pull partition
    got        \* the places of the chunks a pull partition got, in order

vars == <<collection, remaining, wakers, push, pushed, pull, got>>

(* The rows of the n-th batch of a partition.                              *)
Batch(a, n) == [i \in 1 .. Input[a][n] |-> <<<<a, n>>, i>>]

TypeOK ==
    /\ remaining \in 0 .. Cardinality(Appenders)
    /\ wakers \subseteq Scanners
    /\ push \in [Appenders -> {"pushing", "waking", "flushed", "done"}]
    /\ \A a \in Appenders : pushed[a] \in 0 .. Len(Input[a])
    /\ pull \in [Scanners -> {"scan", "empty", "last", "done"}]
    /\ \A a \in Appenders : pending[a] = <<>>

Init ==
    /\ CollectionInit /\ segments = <<>>
    /\ remaining = Cardinality(Appenders)
    /\ wakers = {}
    /\ push = [a \in Appenders |-> "pushing"]
    /\ pushed = [a \in Appenders |-> 0]
    /\ pull = [s \in Scanners |-> "scan"]
    /\ got = [s \in Scanners |-> <<>>]

-----------------------------------------------------------------------------
(* poll_push: append and flush, then wake every output.                    *)
MutPushFlushes == FALSE
PushFlushes == TRUE

Push(a) ==
    /\ push[a] = "pushing" /\ pushed[a] < Len(Input[a])
    /\ pushed' = [pushed EXCEPT ![a] = @ + 1]
    /\ AppendBatch(a, Batch(a, pushed[a] + 1), PushFlushes)
    /\ push' = [push EXCEPT ![a] = "waking"]
    /\ UNCHANGED <<scanState, remaining, wakers, pull, got>>

Wake(a) ==
    /\ push[a] = "waking"
    /\ wakers' = {}
    /\ push' = [push EXCEPT ![a] = "pushing"]
    /\ UNCHANGED <<collection, remaining, pushed, pull, got>>

(* poll_finalize_push: flush, then count down and wake.                    *)
FlushLast(a) ==
    /\ push[a] = "pushing" /\ pushed[a] = Len(Input[a])
    /\ Flush(a)
    /\ push' = [push EXCEPT ![a] = "flushed"]
    /\ UNCHANGED <<scanState, remaining, wakers, pushed, pull, got>>

MutWoken == {}
Woken == wakers

FinalizePush(a) ==
    /\ push[a] = "flushed"
    /\ remaining' = remaining - 1
    /\ wakers' = wakers \ Woken
    /\ push' = [push EXCEPT ![a] = "done"]
    /\ UNCHANGED <<collection, pushed, pull, got>>

-----------------------------------------------------------------------------
(* poll_pull: scan; when there is nothing, look whether the input is done, *)
(* and scan once more before giving up.                                    *)
Runs(s, phase) == pull[s] = phase /\ s \notin wakers

PullChunk(s) ==
    /\ Runs(s, "scan") \/ Runs(s, "last")
    /\ Scan(s)
    /\ got' = [got EXCEPT ![s] = Append(@, NextChunk(s))]
    /\ pull' = [pull EXCEPT ![s] = "scan"]
    /\ UNCHANGED <<segments, pending, remaining, wakers, push, pushed>>

PullNothing(s) ==
    /\ Runs(s, "scan")
    /\ ScanNothing(s)
    /\ pull' = [pull EXCEPT ![s] = "empty"]
    /\ UNCHANGED <<segments, pending, remaining, wakers, push, pushed, got>>

MutAfterEmpty == "done"
AfterEmpty == "last"

CheckInputs(s) ==
    /\ Runs(s, "empty")
    /\ IF remaining > 0
       THEN /\ wakers' = wakers \cup {s}
            /\ pull' = [pull EXCEPT ![s] = "scan"]
       ELSE /\ pull' = [pull EXCEPT ![s] = AfterEmpty]
            /\ UNCHANGED wakers
    /\ UNCHANGED <<collection, remaining, push, pushed, got>>

Exhausted(s) ==
    /\ Runs(s, "last")
    /\ ScanNothing(s)
    /\ pull' = [pull EXCEPT ![s] = "done"]
    /\ UNCHANGED <<segments, pending, remaining, wakers, push, pushed, got>>

-----------------------------------------------------------------------------
PushSide(a) == Push(a) \/ Wake(a) \/ FlushLast(a) \/ FinalizePush(a)
PullSide(s) == PullChunk(s) \/ PullNothing(s) \/ CheckInputs(s) \/ Exhausted(s)

Next == (\E a \in Appenders : PushSide(a)) \/ (\E s \in Scanners : PullSide(s))

Spec == Init /\ [][Next]_vars

(* A task that is not parked is polled again (TaskScheduler).              *)
FairSpec ==
    /\ Spec
    /\ \A a \in Appenders : WF_vars(PushSide(a))
    /\ \A s \in Scanners : WF_vars(PullSide(s))
-----------------------------------------------------------------------------
ScannersOf(o) == {s \in Scanners : Output[s] = o}

(* Every output gets each chunk once, and all that was pushed by the time  *)
(* it is exhausted: "ensuring we see the final set of rows".               *)
EveryOutputGetsAll ==
    \A o \in Outputs :
        /\ \A s, t \in ScannersOf(o) : \A i \in DOMAIN got[s], j \in DOMAIN got[t] :
              got[s][i] = got[t][j] => s = t /\ i = j
        /\ \A s \in ScannersOf(o) : \A i \in DOMAIN got[s] : got[s][i] \in Places
        /\ (\A s \in ScannersOf(o) : pull[s] = "done")
              => /\ \A c \in Places : \E s \in ScannersOf(o) : \E i \in DOMAIN got[s] : got[s][i] = c
                 /\ \A a \in Appenders : push[a] = "done"

(* The collection has the rows of the batches that were pushed, each once. *)
RowsArePushed ==
    LET places == UNION {{c} \X DOMAIN segments[c[1]][c[2]] : c \in Places}
        row(i) == segments[i[1][1]][i[1][2]][i[2]]
    IN /\ \A i, j \in places : row(i) = row(j) => i = j
       /\ {row(i) : i \in places} =
             UNION {{b} \X (1 .. Input[b[1]][b[2]]) :
                      b \in UNION {{a} \X (1 .. pushed[a]) : a \in Appenders}}

(* A pull partition sleeps only while some input partition will wake it.   *)
NoStrandedPull == wakers # {} => remaining > 0
-----------------------------------------------------------------------------
(* Cardinality counts the elements of a set, as it does whenever the set   *)
(* is finite.                                                              *)
Counted(S) ==
    \A T \in SUBSET S :
        /\ Cardinality(T) \in 0 .. Cardinality(S) /\ (Cardinality(T) = 0 <=> T = {})
        /\ \A x \in T : Cardinality(T \ {x}) = Cardinality(T) - 1

(* What is created: finitely many partitions; the partitions of an output  *)
(* are numbered from 0 (create_partition_pull_states).                     *)
Created ==
    /\ Counted(Appenders) /\ Counted(Scanners)
    /\ ChunkCapacity \in Nat \ {0}
    /\ Output \in [Scanners -> Outputs] /\ FirstSegment \in [Scanners -> Nat]
    /\ \A a \in Appenders : Input[a] \in Seq(Nat)
    /\ \A o \in Outputs :
          /\ ScannersOf(o) # {}
          /\ {FirstSegment[s] : s \in ScannersOf(o)} = 0 .. Width(o) - 1
          /\ \A s, t \in ScannersOf(o) : FirstSegment[s] = FirstSegment[t] => s = t

Unfinished == {a \in Appenders : push[a] # "done"}

PushInv ==
    /\ push \in [Appenders -> {"pushing", "waking", "flushed", "done"}]
    /\ pushed \in [Appenders -> Nat]
    /\ \A a \in Appenders : pushed[a] <= Len(Input[a])
    /\ pending = [a \in Appenders |-> <<>>]
    /\ remaining = Cardinality(Unfinished)
    /\ wakers \subseteq Scanners
    /\ wakers # {} => remaining > 0
    /\ pull \in [Scanners -> {"scan", "empty", "last", "done"}]
    /\ \A s \in Scanners : pull[s] \in {"last", "done"} => remaining = 0

IsSeq(s) == \E S : s \in Seq(S)
IsSegment(g) == IsSeq(g) /\ Len(g) >= 1

SegmentsInv ==
    /\ IsSeq(segments)
    /\ \A k \in 1 .. Len(segments) : IsSegment(segments[k])

(* Scan states of one output read or reserve different segments below its  *)
(* shared counter, and a segment yet to be flushed is reserved.            *)
ScanTypes ==
    /\ nextSeg \in [Outputs -> Nat] /\ reserved \in [Scanners -> Nat \ {0}]
    /\ current \in [Scanners -> Nat] /\ chunkIdx \in [Scanners -> Nat \ {0}]
Bounds ==
    \A s \in Scanners :
        /\ reserved[s] < nextSeg[Output[s]]
        /\ current[s] # 0 => /\ current[s] \in 1 .. Len(segments)
                             /\ current[s] < nextSeg[Output[s]]
                             /\ chunkIdx[s] <= Len(segments[current[s]]) + 1
        /\ pull[s] = "done" => current[s] = 0 /\ reserved[s] > Len(segments)
Disjoint ==
    \A s, t \in Scanners : Output[s] = Output[t] =>
        /\ current[s] # reserved[t]
        /\ s # t => reserved[s] # reserved[t]
        /\ s # t /\ current[s] # 0 => current[s] # current[t]
ReservedAhead ==
    \A o \in Outputs : \A k \in Nat : Len(segments) < k /\ k < nextSeg[o] =>
        \E s \in ScannersOf(o) : reserved[s] = k
ScanInv == ScanTypes /\ Bounds /\ Disjoint /\ ReservedAhead

IsPlace(k, j) == k \in 1 .. Len(segments) /\ j \in 1 .. Len(segments[k])

(* The chunk j of segment k lies behind the scan states of output o.       *)
Behind(o, k, j) ==
    /\ IsPlace(k, j) /\ k < nextSeg[o]
    /\ \A t \in ScannersOf(o) : reserved[t] # k /\ (current[t] = k => j < chunkIdx[t])

(* An output got the chunks behind its scan states, each once.             *)
GotOnlyBehind ==
    \A s \in Scanners : \A i \in DOMAIN got[s] : \A k, j \in Nat :
        got[s][i] = <<k, j>> => Behind(Output[s], k, j)
GotOnce ==
    \A s, t \in Scanners : \A i \in DOMAIN got[s] : \A j \in DOMAIN got[t] :
        Output[s] = Output[t] /\ got[s][i] = got[t][j] => s = t /\ i = j
GotAllBehind ==
    \A o \in Outputs : \A k, j \in Nat : Behind(o, k, j) =>
        \E s \in ScannersOf(o) : \E i \in DOMAIN got[s] : got[s][i] = <<k, j>>
GotInv ==
    got \in [Scanners -> Seq(Nat \X Nat)] /\ GotOnlyBehind /\ GotOnce /\ GotAllBehind

IInv == PushInv /\ SegmentsInv /\ ScanInv /\ GotInv

-----------------------------------------------------------------------------
LEMMA SeqFacts ==
    ASSUME NEW s, IsSeq(s)
    PROVE  Len(s) \in Nat /\ DOMAIN s = 1 .. Len(s) /\ (s = <<>> <=> Len(s) = 0)
<1>1. PICK S : s \in Seq(S)
  BY DEF IsSeq
<1> QED
  BY <1>1

LEMMA AppendFacts ==
    ASSUME NEW s, IsSeq(s), NEW e
    PROVE  /\ IsSeq(Append(s, e)) /\ Len(Append(s, e)) = Len(s) + 1
           /\ Append(s, e)[Len(s) + 1] = e
           /\ \A i \in 1 .. Len(s) : Append(s, e)[i] = s[i]
<1>1. PICK S : s \in Seq(S)
  BY DEF IsSeq
<1>2. s \in Seq(S \cup {e})
  BY <1>1
<1>3. Append(s, e) \in Seq(S \cup {e})
  BY <1>2
<1>4. /\ Len(Append(s, e)) = Len(s) + 1 /\ Append(s, e)[Len(s) + 1] = e
      /\ \A i \in 1 .. Len(s) : Append(s, e)[i] = s[i]
  BY <1>2
<1> QED
  BY <1>3, <1>4 DEF IsSeq

(* append_batch on an empty segment leaves at least one chunk.             *)
LEMMA ChunksSegment ==
    ASSUME NEW rows, IsSeq(rows), ChunkCapacity \in Nat \ {0}
    PROVE  IsSegment(Chunks(rows))
<1> DEFINE C == ChunkCapacity
           count == (Len(rows) + C - 1) \div C
<1>1. CASE rows = <<>>
  <2>1. Chunks(rows) = <<<<>>>>
    BY <1>1 DEF Chunks
  <2>2. <<<<>>>> \in Seq({<<>>}) /\ Len(<<<<>>>>) = 1
    OBVIOUS
  <2>3. IsSeq(Chunks(rows))
    BY <2>1, <2>2, Zenon DEF IsSeq
  <2> QED
    BY <2>1, <2>2, <2>3 DEF IsSegment
<1>2. CASE rows # <<>>
  <2>1. Len(rows) \in Nat /\ Len(rows) >= 1
    BY <1>2, SeqFacts
  <2>2. count \in Nat /\ count >= 1
    <3> DEFINE m == Len(rows) + C - 1
    <3>1. m \in Nat /\ m >= C
      BY <2>1
    <3> HIDE DEF m
    <3>2. m \div C \in Nat /\ m \div C >= 1
      BY <3>1
    <3> QED
      BY <3>2 DEF m
  <2> DEFINE chunk(i) == SubSeq(rows, (i - 1) * C + 1, IF i = count THEN Len(rows) ELSE i * C)
  <2>3. Chunks(rows) = [i \in 1 .. count |-> chunk(i)]
    BY <1>2 DEF Chunks
  <2> HIDE DEF count, chunk
  <2>4. [i \in 1 .. count |-> chunk(i)] \in Seq({chunk(i) : i \in 1 .. count})
    BY <2>2
  <2>5. Len([i \in 1 .. count |-> chunk(i)]) = count
    BY <2>2
  <2> QED
    BY <2>2, <2>3, <2>4, <2>5 DEF IsSegment, IsSeq
<1> QED
  BY <1>1, <1>2

LEMMA PlacesAre ==
    ASSUME SegmentsInv, NEW c
    PROVE  c \in Places <=> \E k, j \in Nat : IsPlace(k, j) /\ c = <<k, j>>
<1>1. DOMAIN segments = 1 .. Len(segments) /\ Len(segments) \in Nat
  BY SeqFacts DEF SegmentsInv
<1>2. \A k \in 1 .. Len(segments) : DOMAIN segments[k] = 1 .. Len(segments[k]) /\ Len(segments[k]) \in Nat
  BY SeqFacts, Zenon DEF SegmentsInv, IsSegment
<1>3. c \in Places <=> \E k \in 1 .. Len(segments) : c \in {k} \X (1 .. Len(segments[k]))
  BY <1>1, <1>2, Zenon DEF Places
<1>4. ASSUME NEW k \in 1 .. Len(segments), c \in {k} \X (1 .. Len(segments[k]))
      PROVE \E m, j \in Nat : IsPlace(m, j) /\ c = <<m, j>>
  <2>1. PICK j \in 1 .. Len(segments[k]) : c = <<k, j>>
    BY <1>4
  <2>2. k \in Nat /\ j \in Nat
    BY <1>1, <1>2
  <2> QED
    BY <2>1, <2>2, Zenon DEF IsPlace
<1>5. ASSUME NEW k \in Nat, NEW j \in Nat, IsPlace(k, j), c = <<k, j>>
      PROVE \E m \in 1 .. Len(segments) : c \in {m} \X (1 .. Len(segments[m]))
  BY <1>5 DEF IsPlace
<1> QED
  BY <1>3, <1>4, <1>5, Zenon

LEMMA InitIInv ==
    ASSUME Created, Init
    PROVE  IInv
<1>1. PushInv
  <2>1. Unfinished = Appenders
    BY DEF Init, Unfinished
  <2>2. \A a \in Appenders : Len(Input[a]) \in Nat
    BY DEF Created
  <2> QED
    BY <2>1, <2>2 DEF Init, CollectionInit, PushInv
<1>2. segments = <<>> /\ Len(segments) = 0
  BY DEF Init
<1>3. SegmentsInv
  <2>1. segments \in Seq({})
    BY <1>2
  <2> QED
    BY <1>2, <2>1 DEF SegmentsInv, IsSeq
<1>4. /\ nextSeg = [o \in Outputs |-> Width(o) + 1]
      /\ reserved = [s \in Scanners |-> FirstSegment[s] + 1]
      /\ current = [s \in Scanners |-> 0] /\ chunkIdx = [s \in Scanners |-> 1]
      /\ got = [s \in Scanners |-> <<>>] /\ \A s \in Scanners : pull[s] = "scan"
  BY DEF Init, CollectionInit, NoSegment
<1>5. \A o \in Outputs : Width(o) \in Nat
  <2> SUFFICES ASSUME NEW o \in Outputs PROVE Width(o) \in Nat
    OBVIOUS
  <2>1. {s \in Scanners : Output[s] = o} \in SUBSET Scanners
    OBVIOUS
  <2> QED
    BY <2>1 DEF Created, Counted, Width
<1>6. \A s \in Scanners : /\ Output[s] \in Outputs /\ s \in ScannersOf(Output[s])
                          /\ FirstSegment[s] \in Nat /\ FirstSegment[s] < Width(Output[s])
  <2> SUFFICES ASSUME NEW s \in Scanners
               PROVE  /\ Output[s] \in Outputs /\ s \in ScannersOf(Output[s])
                      /\ FirstSegment[s] \in Nat /\ FirstSegment[s] < Width(Output[s])
    OBVIOUS
  <2>1. Output[s] \in Outputs /\ FirstSegment[s] \in Nat
    BY DEF Created
  <2>2. s \in ScannersOf(Output[s])
    BY DEF ScannersOf
  <2>3. FirstSegment[s] \in 0 .. Width(Output[s]) - 1
    BY <2>1, <2>2 DEF Created
  <2> QED
    BY <2>1, <2>2, <2>3, <1>5
<1>7. \A s, t \in Scanners : Output[s] = Output[t] /\ FirstSegment[s] = FirstSegment[t] => s = t
  BY <1>6, Zenon DEF Created
<1>8. ASSUME NEW o \in Outputs, NEW k \in Nat, k # 0, k < nextSeg[o]
      PROVE \E s \in ScannersOf(o) : reserved[s] = k
  <2>1. k - 1 \in 0 .. Width(o) - 1
    BY <1>4, <1>5, <1>8
  <2>2. PICK s \in ScannersOf(o) : FirstSegment[s] = k - 1
    BY <2>1 DEF Created
  <2>3. s \in Scanners
    BY DEF ScannersOf
  <2> QED
    BY <1>4, <1>6, <2>2, <2>3
<1>9. ScanInv
  <2>1. /\ nextSeg \in [Outputs -> Nat] /\ reserved \in [Scanners -> Nat \ {0}]
        /\ current \in [Scanners -> Nat] /\ chunkIdx \in [Scanners -> Nat \ {0}]
    BY <1>4, <1>5, <1>6
  <2>2. \A s \in Scanners : /\ reserved[s] < nextSeg[Output[s]] /\ current[s] = 0
                            /\ pull[s] # "done"
    BY <1>4, <1>5, <1>6
  <2>3. \A s, t \in Scanners : Output[s] = Output[t] =>
           current[s] # reserved[t] /\ (s # t => reserved[s] # reserved[t])
    BY <1>4, <1>6, <1>7
  <2> QED
    BY <1>2, <1>8, <2>1, <2>2, <2>3 DEF ScanInv, ScanTypes, Bounds, Disjoint, ReservedAhead
<1>10. GotInv
  <2>1. got \in [Scanners -> Seq(Nat \X Nat)] /\ \A s \in Scanners : DOMAIN got[s] = {}
    BY <1>4
  <2>2. \A k, j \in Nat : ~IsPlace(k, j)
    BY <1>2 DEF IsPlace
  <2> QED
    BY <2>1, <2>2 DEF GotInv, GotOnlyBehind, GotOnce, GotAllBehind, Behind
<1> QED
  BY <1>1, <1>3, <1>9, <1>10 DEF IInv

LEMMA UnfinishedCount ==
    ASSUME Created
    PROVE  /\ Cardinality(Unfinished) \in 0 .. Cardinality(Appenders)
           /\ Cardinality(Unfinished) = 0 <=> Unfinished = {}
           /\ \A a \in Unfinished : Cardinality(Unfinished \ {a}) = Cardinality(Unfinished) - 1
<1>1. Unfinished \in SUBSET Appenders
  BY DEF Unfinished
<1> QED
  BY <1>1 DEF Created, Counted

LEMMA NextPushInv ==
    ASSUME Created, PushInv, [Next]_vars
    PROVE  PushInv'
<1>c. remaining \in Nat /\ (remaining = 0 <=> Unfinished = {})
  BY UnfinishedCount DEF PushInv
<1>q. ASSUME UNCHANGED <<pending, remaining, wakers, push, pushed, pull>> PROVE PushInv'
  BY <1>q, Zenon DEF PushInv, Unfinished
<1>u. ASSUME UNCHANGED vars PROVE PushInv'
  BY <1>u, <1>q, Zenon DEF vars, collection
<1>1. ASSUME NEW a \in Appenders, Push(a) PROVE PushInv'
  <2>1. /\ push[a] = "pushing" /\ pushed[a] < Len(Input[a])
        /\ pushed' = [pushed EXCEPT ![a] = @ + 1]
        /\ push' = [push EXCEPT ![a] = "waking"]
        /\ UNCHANGED <<remaining, wakers, pull>>
        /\ pending' = [pending EXCEPT ![a] = <<>>]
    BY <1>1 DEF Push, AppendBatch, PushFlushes
  <2>2. pending' = pending
    BY <2>1 DEF PushInv
  <2>3. push' \in [Appenders -> {"pushing", "waking", "flushed", "done"}] /\ Unfinished' = Unfinished
    BY <2>1 DEF PushInv, Unfinished
  <2>4. pushed' \in [Appenders -> Nat] /\ \A b \in Appenders : pushed'[b] <= Len(Input[b])
    <3>1. Len(Input[a]) \in Nat
      BY DEF Created
    <3> QED
      BY <2>1, <3>1 DEF PushInv
  <2> QED
    BY <2>1, <2>2, <2>3, <2>4, Zenon DEF PushInv
<1>2. ASSUME NEW a \in Appenders, Wake(a) PROVE PushInv'
  <2>1. /\ push[a] = "waking" /\ wakers' = {} /\ push' = [push EXCEPT ![a] = "pushing"]
        /\ UNCHANGED <<remaining, pushed, pull, pending>>
    BY <1>2, Zenon DEF Wake, collection
  <2>2. push' \in [Appenders -> {"pushing", "waking", "flushed", "done"}] /\ Unfinished' = Unfinished
    BY <2>1 DEF PushInv, Unfinished
  <2> QED
    BY <2>1, <2>2, Zenon DEF PushInv
<1>3. ASSUME NEW a \in Appenders, FlushLast(a) PROVE PushInv'
  <2>1. /\ push[a] = "pushing" /\ push' = [push EXCEPT ![a] = "flushed"]
        /\ UNCHANGED <<remaining, wakers, pushed, pull>>
        /\ pending' = [pending EXCEPT ![a] = <<>>]
    BY <1>3, Zenon DEF FlushLast, Flush
  <2>2. pending' = pending
    BY <2>1 DEF PushInv
  <2>3. push' \in [Appenders -> {"pushing", "waking", "flushed", "done"}] /\ Unfinished' = Unfinished
    BY <2>1 DEF PushInv, Unfinished
  <2> QED
    BY <2>1, <2>2, <2>3, Zenon DEF PushInv
<1>4. ASSUME NEW a \in Appenders, FinalizePush(a) PROVE PushInv'
  <2>1. /\ push[a] = "flushed" /\ push' = [push EXCEPT ![a] = "done"]
        /\ remaining' = remaining - 1 /\ wakers' = {}
        /\ UNCHANGED <<pushed, pull, pending>>
    BY <1>4 DEF FinalizePush, Woken, collection
  <2>2. push' \in [Appenders -> {"pushing", "waking", "flushed", "done"}] /\ Unfinished' = Unfinished \ {a}
    BY <2>1 DEF PushInv, Unfinished
  <2>3. a \in Unfinished
    BY <2>1 DEF Unfinished
  <2>4. remaining' = Cardinality(Unfinished')
    BY <2>1, <2>2, <2>3, UnfinishedCount DEF PushInv
  <2>5. \A s \in Scanners : pull[s] \notin {"last", "done"}
    BY <1>c, <2>3 DEF PushInv
  <2> QED
    BY <2>1, <2>2, <2>4, <2>5, Zenon DEF PushInv
<1>5. ASSUME NEW s \in Scanners, PullChunk(s) PROVE PushInv'
  <2>1. /\ pull' = [pull EXCEPT ![s] = "scan"]
        /\ UNCHANGED <<pending, remaining, wakers, push, pushed>>
    BY <1>5, Zenon DEF PullChunk
  <2>2. pull' \in [Scanners -> {"scan", "empty", "last", "done"}]
        /\ \A t \in Scanners : pull'[t] \in {"last", "done"} => pull[t] \in {"last", "done"}
    BY <2>1 DEF PushInv
  <2> QED
    BY <2>1, <2>2, Zenon DEF PushInv, Unfinished
<1>6. ASSUME NEW s \in Scanners, PullNothing(s) PROVE PushInv'
  <2>1. /\ pull' = [pull EXCEPT ![s] = "empty"]
        /\ UNCHANGED <<pending, remaining, wakers, push, pushed>>
    BY <1>6, Zenon DEF PullNothing
  <2>2. pull' \in [Scanners -> {"scan", "empty", "last", "done"}]
        /\ \A t \in Scanners : pull'[t] \in {"last", "done"} => pull[t] \in {"last", "done"}
    BY <2>1 DEF PushInv
  <2> QED
    BY <2>1, <2>2, Zenon DEF PushInv, Unfinished
<1>7. ASSUME NEW s \in Scanners, CheckInputs(s) PROVE PushInv'
  <2>1. UNCHANGED <<pending, remaining, push, pushed>>
    BY <1>7, Zenon DEF CheckInputs, collection
  <2>2. CASE remaining > 0
    <3>1. wakers' = wakers \cup {s} /\ pull' = [pull EXCEPT ![s] = "scan"]
      BY <1>7, <2>2, Zenon DEF CheckInputs
    <3>2. pull' \in [Scanners -> {"scan", "empty", "last", "done"}]
          /\ \A t \in Scanners : pull'[t] \in {"last", "done"} => pull[t] \in {"last", "done"}
      BY <3>1 DEF PushInv
    <3>3. wakers' \subseteq Scanners
      BY <3>1 DEF PushInv
    <3> QED
      BY <2>1, <2>2, <3>2, <3>3, Zenon DEF PushInv, Unfinished
  <2>3. CASE ~(remaining > 0)
    <3>1. wakers' = wakers /\ pull' = [pull EXCEPT ![s] = "last"]
      BY <1>7, <2>3, Zenon DEF CheckInputs, AfterEmpty
    <3>2. pull' \in [Scanners -> {"scan", "empty", "last", "done"}]
      BY <3>1 DEF PushInv
    <3>3. remaining = 0
      BY <1>c, <2>3
    <3> QED
      BY <2>1, <3>1, <3>2, <3>3, Zenon DEF PushInv, Unfinished
  <2> QED
    BY <2>2, <2>3
<1>8. ASSUME NEW s \in Scanners, Exhausted(s) PROVE PushInv'
  <2>1. /\ pull' = [pull EXCEPT ![s] = "done"] /\ pull[s] = "last"
        /\ UNCHANGED <<pending, remaining, wakers, push, pushed>>
    BY <1>8, Zenon DEF Exhausted, Runs
  <2>2. pull' \in [Scanners -> {"scan", "empty", "last", "done"}]
        /\ \A t \in Scanners : pull'[t] \in {"last", "done"} => pull[t] \in {"last", "done"}
    BY <2>1 DEF PushInv
  <2> QED
    BY <2>1, <2>2, Zenon DEF PushInv, Unfinished
<1> QED
  BY <1>u, <1>1, <1>2, <1>3, <1>4, <1>5, <1>6, <1>7, <1>8, Zenon DEF Next, PushSide, PullSide

-----------------------------------------------------------------------------
Held == SegmentsInv /\ ScanInv /\ GotInv

(* What an output got stays what lies behind its scan states, if that does *)
(* not change, or changes by the chunk it gets.                            *)
LEMMA GotKept ==
    ASSUME GotInv, got' = got, Created,
           \A o \in Outputs : \A k, j \in Nat : Behind(o, k, j)' <=> Behind(o, k, j)
    PROVE  GotInv'
<1>1. \A s \in Scanners : Output[s] \in Outputs
  BY DEF Created
<1>2. GotOnlyBehind'
  BY <1>1, Zenon DEF GotInv, GotOnlyBehind
<1>3. GotOnce'
  BY DEF GotInv, GotOnce
<1>4. GotAllBehind'
  BY Zenon DEF GotInv, GotAllBehind
<1> QED
  BY <1>2, <1>3, <1>4, Zenon DEF GotInv

Gets(s, k0, j0) ==
    /\ got' = [got EXCEPT ![s] = Append(@, <<k0, j0>>)]
    /\ ~Behind(Output[s], k0, j0) /\ Behind(Output[s], k0, j0)'
    /\ \A o \in Outputs : \A k, j \in Nat :
          (o = Output[s] /\ k = k0 /\ j = j0) \/ (Behind(o, k, j)' <=> Behind(o, k, j))

LEMMA GotOneMore ==
    ASSUME GotInv, Created, NEW s \in Scanners, NEW k0 \in Nat, NEW j0 \in Nat, Gets(s, k0, j0)
    PROVE  GotInv'
<1>g. /\ got' = [got EXCEPT ![s] = Append(@, <<k0, j0>>)]
      /\ ~Behind(Output[s], k0, j0) /\ Behind(Output[s], k0, j0)'
      /\ \A o \in Outputs : \A k, j \in Nat :
          (o = Output[s] /\ k = k0 /\ j = j0) \/ (Behind(o, k, j)' <=> Behind(o, k, j))
  BY Zenon DEF Gets
<1> USE <1>g
<1>1. \A t \in Scanners : Output[t] \in Outputs /\ t \in ScannersOf(Output[t])
  BY DEF Created, ScannersOf
<1>t. got \in [Scanners -> Seq(Nat \X Nat)] /\ GotOnlyBehind /\ GotOnce /\ GotAllBehind
  BY DEF GotInv
<1> DEFINE n == Len(got[s])
           c == <<k0, j0>>
<1>c. c = <<k0, j0>> /\ c \in Nat \X Nat
  OBVIOUS
<1> HIDE DEF c
<1>2. /\ got' \in [Scanners -> Seq(Nat \X Nat)] /\ got'[s] = Append(got[s], c)
      /\ \A t \in Scanners : t # s => got'[t] = got[t]
  <2>1. got' = [got EXCEPT ![s] = Append(@, c)]
    BY <1>c
  <2>2. got[s] \in Seq(Nat \X Nat)
    BY <1>t
  <2>3. Append(got[s], c) \in Seq(Nat \X Nat)
    BY <1>c, <2>2
  <2> QED
    BY <1>t, <2>1, <2>3
<1>3. /\ n \in Nat /\ DOMAIN got[s] = 1 .. n /\ DOMAIN got'[s] = (1 .. n) \cup {n + 1}
      /\ n + 1 \notin 1 .. n /\ got'[s][n + 1] = c
      /\ \A i \in 1 .. n : got'[s][i] = got[s][i]
  <2>1. got[s] \in Seq(Nat \X Nat)
    BY <1>t
  <2>2. n \in Nat /\ DOMAIN got[s] = 1 .. n
    BY <2>1
  <2>3. /\ DOMAIN Append(got[s], c) = 1 .. n + 1 /\ Append(got[s], c)[n + 1] = c
        /\ \A i \in 1 .. n : Append(got[s], c)[i] = got[s][i]
    BY <1>c, <2>1
  <2>4. 1 .. n + 1 = (1 .. n) \cup {n + 1} /\ n + 1 \notin 1 .. n
    BY <2>2
  <2> QED
    BY <1>2, <2>2, <2>3, <2>4, Zenon
<1> HIDE DEF n
<1>4. \A t \in Scanners : \A i \in DOMAIN got'[t] :
          \/ i \in DOMAIN got[t] /\ got'[t][i] = got[t][i]
          \/ t = s /\ i = n + 1 /\ got'[t][i] = c
  BY <1>2, <1>3, Zenon
<1>5. \A t \in Scanners : \A i \in DOMAIN got[t] : i \in DOMAIN got'[t] /\ got'[t][i] = got[t][i]
  BY <1>2, <1>3, Zenon
<1>6. \A t \in Scanners : \A i \in DOMAIN got[t] : Output[t] = Output[s] => got[t][i] # c
  BY <1>t, <1>c, Zenon DEF GotOnlyBehind
<1>7. \A k, j : <<k, j>> = c => k = k0 /\ j = j0
  BY <1>c
<1>8. GotOnlyBehind'
  <2> SUFFICES ASSUME NEW t \in Scanners, NEW i \in DOMAIN got'[t], NEW k \in Nat, NEW j \in Nat,
                      got'[t][i] = <<k, j>>
               PROVE  Behind(Output[t], k, j)'
    BY Zenon DEF GotOnlyBehind
  <2>1. CASE i \in DOMAIN got[t] /\ got'[t][i] = got[t][i]
    <3>1. Behind(Output[t], k, j)
      BY <1>t, <2>1, Zenon DEF GotOnlyBehind
    <3> QED
      BY <1>1, <3>1, Zenon
  <2>2. CASE t = s /\ got'[t][i] = c
    BY <1>7, <2>2, Zenon
  <2> QED
    BY <1>4, <2>1, <2>2, Zenon
<1>9. GotOnce'
  <2> SUFFICES ASSUME NEW t \in Scanners, NEW u \in Scanners,
                      NEW i \in DOMAIN got'[t], NEW j \in DOMAIN got'[u],
                      Output[t] = Output[u], got'[t][i] = got'[u][j]
               PROVE  t = u /\ i = j
    BY DEF GotOnce
  <2>1. CASE i \in DOMAIN got[t] /\ got'[t][i] = got[t][i] /\ j \in DOMAIN got[u] /\ got'[u][j] = got[u][j]
    <3>1. got[t][i] = got[u][j]
      BY <2>1
    <3>2. \A x, y \in Scanners : \A a \in DOMAIN got[x] : \A b \in DOMAIN got[y] :
              Output[x] = Output[y] /\ got[x][a] = got[y][b] => x = y /\ a = b
      BY <1>t DEF GotOnce
    <3> QED
      BY <2>1, <3>1, <3>2
  <2>2. CASE i \in DOMAIN got[t] /\ got'[t][i] = got[t][i] /\ u = s /\ j = n + 1 /\ got'[u][j] = c
    BY <1>6, <2>2, Zenon
  <2>3. CASE t = s /\ i = n + 1 /\ got'[t][i] = c /\ j \in DOMAIN got[u] /\ got'[u][j] = got[u][j]
    BY <1>6, <2>3, Zenon
  <2>4. CASE t = s /\ i = n + 1 /\ u = s /\ j = n + 1
    BY <2>4
  <2> QED
    BY <1>4, <2>1, <2>2, <2>3, <2>4, Zenon
<1>10. GotAllBehind'
  <2> SUFFICES ASSUME NEW o \in Outputs, NEW k \in Nat, NEW j \in Nat, Behind(o, k, j)'
               PROVE  \E t \in ScannersOf(o) : \E i \in DOMAIN got'[t] : got'[t][i] = <<k, j>>
    BY Zenon DEF GotAllBehind
  <2>1. CASE o = Output[s] /\ k = k0 /\ j = j0
    BY <1>1, <1>3, <1>c, <2>1
  <2>2. CASE ~(o = Output[s] /\ k = k0 /\ j = j0)
    <3>1. Behind(o, k, j)
      BY <2>2, Zenon
    <3>2. PICK t \in ScannersOf(o) : \E i \in DOMAIN got[t] : got[t][i] = <<k, j>>
      BY <1>t, <3>1, Zenon DEF GotAllBehind
    <3>3. t \in Scanners
      BY DEF ScannersOf
    <3> QED
      BY <1>5, <3>2, <3>3
  <2> QED
    BY <2>1, <2>2
<1> QED
  BY <1>2, <1>8, <1>9, <1>10 DEF GotInv

(* Steps that neither flush nor scan.                                      *)
LEMMA QuietHeld ==
    ASSUME Held, Created, UNCHANGED <<segments, scanState, got>>,
           \A s \in Scanners : pull'[s] = "done" => pull[s] = "done"
    PROVE  Held'
<1>1. UNCHANGED <<segments, nextSeg, reserved, current, chunkIdx, got>>
  BY DEF scanState
<1>2. SegmentsInv'
  BY <1>1, Zenon DEF Held, SegmentsInv
<1>3. ScanInv'
  BY <1>1, Zenon DEF Held, ScanInv, ScanTypes, Bounds, Disjoint, ReservedAhead
<1>4. \A o, k, j : Behind(o, k, j)' <=> Behind(o, k, j)
  BY <1>1, Zenon DEF Behind, IsPlace
<1>5. GotInv'
  BY <1>1, <1>4, GotKept DEF Held
<1> QED
  BY <1>2, <1>3, <1>5 DEF Held

(* A flush adds a segment somebody of every output has reserved, or will.  *)
LEMMA GrowHeld ==
    ASSUME Held, Created, NEW g, IsSegment(g), segments' = Append(segments, g),
           UNCHANGED <<scanState, got, pull>>,
           \A s \in Scanners : pull[s] # "done"
    PROVE  Held'
<1>1. UNCHANGED <<nextSeg, reserved, current, chunkIdx, got, pull>>
  BY DEF scanState
<1>2. IsSeq(segments) /\ Len(segments) \in Nat
  BY SeqFacts DEF Held, SegmentsInv
<1> DEFINE L == Len(segments)
<1>3. /\ IsSeq(segments') /\ Len(segments') = L + 1 /\ segments'[L + 1] = g
      /\ \A i \in 1 .. L : segments'[i] = segments[i]
  BY <1>2, AppendFacts
<1>4. 1 .. L + 1 = (1 .. L) \cup {L + 1} /\ L + 1 \notin 1 .. L
  BY <1>2
<1>l. L \in Nat /\ L = Len(segments)
  BY <1>2
<1> HIDE DEF L
<1>5. SegmentsInv'
  BY <1>3, <1>4, <1>l, Zenon DEF Held, SegmentsInv
<1>s. ScanInv
  BY DEF Held
<1>6. \A k \in 1 .. L : k \in 1 .. L + 1 /\ segments'[k] = segments[k]
  BY <1>3, <1>4
<1>7. ScanInv'
  <2>1. \A s \in Scanners : current[s] # 0 =>
            /\ current[s] \in 1 .. Len(segments') /\ current[s] < nextSeg[Output[s]]
            /\ chunkIdx[s] <= Len(segments'[current[s]]) + 1
    BY <1>s, <1>3, <1>6, <1>l, Zenon DEF ScanInv, ScanTypes, Bounds, Disjoint, ReservedAhead
  <2>2. \A o \in Outputs : \A k \in Nat : Len(segments') < k /\ k < nextSeg[o] =>
            \E s \in ScannersOf(o) : reserved[s] = k
    <3>1. \A k \in Nat : Len(segments') < k => L < k
      BY <1>3, <1>l
    <3> QED
      BY <1>s, <1>l, <3>1, Zenon DEF ScanInv, ScanTypes, Bounds, Disjoint, ReservedAhead
  <2> QED
    BY <1>s, <1>1, <2>1, <2>2, Zenon DEF ScanInv, ScanTypes, Bounds, Disjoint, ReservedAhead
<1>8. ASSUME NEW o \in Outputs, NEW k \in Nat, NEW j \in Nat
      PROVE  Behind(o, k, j)' <=> Behind(o, k, j)
  <2>1. CASE k = L + 1
    <3>1. ~IsPlace(k, j)
      BY <1>l, <2>1 DEF IsPlace
    <3>2. ASSUME k < nextSeg[o] PROVE \E s \in ScannersOf(o) : reserved[s] = k
      <4>1. L < k
        BY <1>l, <2>1
      <4> QED
        BY <1>s, <1>l, <3>2, <4>1, Zenon DEF ScanInv, ScanTypes, Bounds, Disjoint, ReservedAhead
    <3> QED
      BY <1>1, <3>1, <3>2, Zenon DEF Behind
  <2>2. CASE k # L + 1
    <3>1. k \in 1 .. Len(segments') <=> k \in 1 .. Len(segments)
      BY <1>3, <1>l, <2>2
    <3>2. IsPlace(k, j)' <=> IsPlace(k, j)
      BY <1>6, <1>l, <3>1, Zenon DEF IsPlace
    <3> QED
      BY <1>1, <3>2, Zenon DEF Behind
  <2> QED
    BY <2>1, <2>2
<1>9. GotInv'
  BY <1>1, <1>8, GotKept DEF Held
<1> QED
  BY <1>5, <1>7, <1>9 DEF Held

-----------------------------------------------------------------------------
(* A segment a scan state has no chunk left of lies behind it, whether the *)
(* state remembers it or not.                                              *)
LEMMA SegmentRead ==
    ASSUME Held, NEW s \in Scanners, ~InSegment(s), NEW j, IsPlace(current[s], j)
    PROVE  j < chunkIdx[s]
<1>1. current[s] \in 1 .. Len(segments) /\ j \in 1 .. Len(segments[current[s]])
  BY DEF IsPlace
<1>2. Len(segments) \in Nat /\ Len(segments[current[s]]) \in Nat
  BY <1>1, SeqFacts DEF Held, SegmentsInv, IsSegment
<1>3. current[s] # 0 /\ chunkIdx[s] \in Nat
  BY <1>1, <1>2 DEF Held, ScanInv, ScanTypes, Bounds, Disjoint, ReservedAhead
<1>4. ~(chunkIdx[s] <= Len(segments[current[s]]))
  BY <1>3 DEF InSegment, NoSegment
<1> QED
  BY <1>1, <1>2, <1>3, <1>4

(* A scan that finds nothing.                                              *)
LEMMA ForgetHeld ==
    ASSUME Held, Created, NEW s \in Scanners, ScanNothing(s), UNCHANGED <<segments, got>>,
           \A t \in Scanners : t # s => pull'[t] = pull[t]
    PROVE  Held'
<1>1. /\ UNCHANGED <<segments, got, nextSeg, reserved, chunkIdx>>
      /\ current' = [current EXCEPT ![s] = 0] /\ ~InSegment(s) /\ ~(reserved[s] <= Len(segments))
  BY DEF ScanNothing, HasNext, NoSegment
<1>s. ScanInv
  BY DEF Held
<1>2. /\ current' \in [Scanners -> Nat] /\ current'[s] = 0
      /\ \A t \in Scanners : t # s => current'[t] = current[t]
  BY <1>1, <1>s DEF ScanInv, ScanTypes, Bounds, Disjoint, ReservedAhead
<1>3. SegmentsInv'
  BY <1>1, Zenon DEF Held, SegmentsInv
<1>4. ScanInv'
  <2>1. reserved[s] > Len(segments)
    <3>1. Len(segments) \in Nat /\ reserved[s] \in Nat
      BY <1>s, SeqFacts DEF Held, SegmentsInv, ScanInv, ScanTypes, Bounds, Disjoint, ReservedAhead
    <3> QED
      BY <1>1, <3>1
  <2>2. \A t \in Scanners : /\ current'[t] # 0 => current'[t] = current[t]
                            /\ pull'[t] = "done" => current'[t] = 0 /\ reserved[t] > Len(segments)
    BY <1>s, <1>2, <2>1, Zenon DEF ScanInv, ScanTypes, Bounds, Disjoint, ReservedAhead
  <2>3. \A t \in Scanners : reserved[t] # 0
    BY <1>s DEF ScanInv, ScanTypes, Bounds, Disjoint, ReservedAhead
  <2>4. \A t, u \in Scanners : Output[t] = Output[u] =>
          /\ current'[t] # reserved[u]
          /\ t # u => reserved[t] # reserved[u]
          /\ t # u /\ current'[t] # 0 => current'[t] # current'[u]
    <3>1. \A t, u \in Scanners : Output[t] = Output[u] => current'[t] # reserved[u]
      BY <1>s, <1>2, <2>3, Zenon DEF ScanInv, Disjoint
    <3>2. \A t, u \in Scanners : Output[t] = Output[u] /\ t # u /\ current'[t] # 0 =>
             current'[t] # current'[u]
      BY <1>s, <1>2, Zenon DEF ScanInv, Disjoint
    <3> QED
      BY <1>s, <3>1, <3>2, Zenon DEF ScanInv, Disjoint
  <2>5. \A t \in Scanners :
          /\ reserved[t] < nextSeg[Output[t]]
          /\ current'[t] # 0 => /\ current'[t] \in 1 .. Len(segments)
                                /\ current'[t] < nextSeg[Output[t]]
                                /\ chunkIdx[t] <= Len(segments[current'[t]]) + 1
          /\ pull'[t] = "done" => current'[t] = 0 /\ reserved[t] > Len(segments)
    BY <1>s, <2>2, Zenon DEF ScanInv, ScanTypes, Bounds, Disjoint, ReservedAhead
  <2> QED
    <3>1. ScanTypes'
      BY <1>1, <1>s, <1>2, Zenon DEF ScanInv, ScanTypes
    <3>2. Bounds'
      BY <1>1, <2>5, Zenon DEF Bounds
    <3>3. Disjoint'
      <4>1. reserved' = reserved
        BY <1>1
      <4> QED
        BY <2>4, <4>1 DEF Disjoint
    <3>4. ReservedAhead'
      BY <1>1, <1>s, Zenon DEF ScanInv, ReservedAhead
    <3> QED
      BY <3>1, <3>2, <3>3, <3>4 DEF ScanInv
<1>5. ASSUME NEW o \in Outputs, NEW k \in Nat, NEW j \in Nat
      PROVE  Behind(o, k, j)' <=> Behind(o, k, j)
  <2>1. IsPlace(k, j)' <=> IsPlace(k, j)
    BY <1>1, Zenon DEF IsPlace
  <2>2. ASSUME IsPlace(k, j), NEW t \in ScannersOf(o)
        PROVE (current'[t] = k => j < chunkIdx[t]) <=> (current[t] = k => j < chunkIdx[t])
    <3>1. t \in Scanners
      BY DEF ScannersOf
    <3>2. CASE t # s
      BY <1>2, <3>1, <3>2, Zenon
    <3>3. CASE t = s
      <4>1. k # 0
        BY <2>2, SeqFacts DEF IsPlace, Held, SegmentsInv
      <4>2. current[s] = k => j < chunkIdx[s]
        BY <1>1, <2>2, SegmentRead
      <4> QED
        BY <1>2, <3>3, <4>1, <4>2, Zenon
    <3> QED
      BY <3>2, <3>3
  <2> QED
    BY <1>1, <2>1, <2>2, Zenon DEF Behind
<1>6. GotInv'
  BY <1>1, <1>5, GotKept DEF Held
<1> QED
  BY <1>3, <1>4, <1>6 DEF Held

(* A scan of the next chunk of the current segment.                        *)
LEMMA InSegmentHeld ==
    ASSUME Held, Created, NEW s \in Scanners, Scan(s), InSegment(s), segments' = segments,
           got' = [got EXCEPT ![s] = Append(@, NextChunk(s))],
           \A t \in Scanners : pull'[t] = "done" => pull[t] = "done"
    PROVE  Held'
<1>1. /\ UNCHANGED <<segments, nextSeg, reserved, current>>
      /\ chunkIdx' = [chunkIdx EXCEPT ![s] = @ + 1]
      /\ NextChunk(s) = <<current[s], chunkIdx[s]>>
      /\ current[s] # 0 /\ chunkIdx[s] <= Len(segments[current[s]])
  BY DEF Scan, NextChunk, InSegment, NoSegment
<1>s. ScanInv
  BY DEF Held
<1>n. Len(segments) \in Nat /\ \A k \in 1 .. Len(segments) : Len(segments[k]) \in Nat
  BY SeqFacts, Zenon DEF Held, SegmentsInv, IsSegment
<1>2. /\ chunkIdx' \in [Scanners -> Nat \ {0}] /\ chunkIdx'[s] = chunkIdx[s] + 1
      /\ \A t \in Scanners : t # s => chunkIdx'[t] = chunkIdx[t]
      /\ chunkIdx[s] \in Nat \ {0}
  BY <1>1, <1>s DEF ScanInv, ScanTypes, Bounds, Disjoint, ReservedAhead
<1>3. SegmentsInv'
  BY <1>1, Zenon DEF Held, SegmentsInv
<1>4. ScanInv'
  <2>1. current[s] \in 1 .. Len(segments)
    BY <1>1, <1>s DEF ScanInv, ScanTypes, Bounds, Disjoint, ReservedAhead
  <2>2. chunkIdx'[s] <= Len(segments[current[s]]) + 1
    BY <1>1, <1>2, <1>n, <2>1
  <2>3. \A t \in Scanners : current[t] # 0 => chunkIdx'[t] <= Len(segments[current[t]]) + 1
    BY <1>s, <1>2, <2>2, Zenon DEF ScanInv, ScanTypes, Bounds, Disjoint, ReservedAhead
  <2> QED
    <3>1. ScanTypes'
      BY <1>1, <1>s, <1>2, Zenon DEF ScanInv, ScanTypes
    <3>2. Bounds'
      BY <1>1, <1>s, <2>3, Zenon DEF ScanInv, Bounds
    <3>3. Disjoint'
      BY <1>1, <1>s, Zenon DEF ScanInv, Disjoint
    <3>4. ReservedAhead'
      BY <1>1, <1>s, Zenon DEF ScanInv, ReservedAhead
    <3> QED
      BY <3>1, <3>2, <3>3, <3>4 DEF ScanInv
<1>5. IsPlace(current[s], chunkIdx[s])
  <2>1. current[s] \in 1 .. Len(segments)
    BY <1>1, <1>s DEF ScanInv, ScanTypes, Bounds, Disjoint, ReservedAhead
  <2> QED
    BY <1>1, <1>2, <1>n, <2>1 DEF IsPlace
<1>6. ~Behind(Output[s], current[s], chunkIdx[s])
  <2>1. s \in ScannersOf(Output[s]) /\ ~(chunkIdx[s] < chunkIdx[s])
    BY <1>2 DEF ScannersOf
  <2> QED
    BY <2>1, Zenon DEF Behind
<1>7. \A o, k, j : IsPlace(k, j)' <=> IsPlace(k, j)
  BY <1>1, Zenon DEF IsPlace
<1>j. current[s] \in Nat /\ chunkIdx[s] \in Nat
  BY <1>s DEF ScanInv, ScanTypes
<1>k. PICK k0 \in Nat, j0 \in Nat : k0 = current[s] /\ j0 = chunkIdx[s]
  BY <1>j, Zenon
<1>8. ASSUME NEW o \in Outputs, NEW k \in Nat, NEW j \in Nat
      PROVE  (o = Output[s] /\ k = k0 /\ j = j0) \/ (Behind(o, k, j)' <=> Behind(o, k, j))
  <2>1. SUFFICES ASSUME ~(o = Output[s] /\ k = k0 /\ j = j0) PROVE Behind(o, k, j)' <=> Behind(o, k, j)
    OBVIOUS
  <2>2. ASSUME NEW t \in ScannersOf(o)
        PROVE (current[t] = k => j < chunkIdx'[t]) <=> (current[t] = k => j < chunkIdx[t])
    <3>1. t \in Scanners /\ Output[t] = o
      BY DEF ScannersOf
    <3>2. CASE t # s
      BY <1>2, <3>1, <3>2, Zenon
    <3>3. CASE t = s /\ k # k0
      BY <1>k, <3>3, Zenon
    <3>4. CASE t = s /\ k = k0
      <4>1. j # j0
        BY <2>1, <3>1, <3>4
      <4>2. j < j0 + 1 <=> j < j0
        BY <1>k, <4>1
      <4> QED
        BY <1>2, <1>k, <3>4, <4>2, Zenon
    <3> QED
      BY <3>2, <3>3, <3>4
  <2> QED
    BY <1>1, <1>7, <2>2, Zenon DEF Behind
<1>9. Behind(Output[s], k0, j0)'
  <2>1. k0 < nextSeg[Output[s]]
    BY <1>s, <1>1, <1>k, Zenon DEF ScanInv, ScanTypes, Bounds, Disjoint, ReservedAhead
  <2>2. ASSUME NEW t \in ScannersOf(Output[s])
        PROVE reserved[t] # k0 /\ (current[t] = k0 => j0 < chunkIdx'[t])
    <3>1. t \in Scanners /\ Output[t] = Output[s]
      BY DEF ScannersOf
    <3>2. reserved[t] # k0
      BY <1>s, <1>k, <3>1, Zenon DEF ScanInv, ScanTypes, Bounds, Disjoint, ReservedAhead
    <3>3. current[t] = k0 => t = s
      BY <1>s, <1>1, <1>k, <3>1, Zenon DEF ScanInv, ScanTypes, Bounds, Disjoint, ReservedAhead
    <3>4. j0 < chunkIdx'[s]
      BY <1>2, <1>k
    <3> QED
      BY <3>2, <3>3, <3>4, Zenon
  <2>3. IsPlace(k0, j0)'
    BY <1>5, <1>7, <1>k, Zenon
  <2> QED
    BY <1>1, <2>1, <2>2, <2>3, Zenon DEF Behind
<1>10. ~Behind(Output[s], k0, j0) /\ got' = [got EXCEPT ![s] = Append(@, <<k0, j0>>)]
  BY <1>1, <1>6, <1>k
<1>11. GotInv'
  <2>1. GotInv
    BY DEF Held
  <2> QED
    <3>1. Gets(s, k0, j0)
      BY <1>8, <1>9, <1>10, Zenon DEF Gets
    <3> QED
      BY <2>1, <3>1, GotOneMore
<1> QED
  BY <1>3, <1>4, <1>11 DEF Held

(* A scan of the first chunk of the reserved segment.                      *)
LEMMA ReservedHeld ==
    ASSUME Held, Created, NEW s \in Scanners, Scan(s), ~InSegment(s), segments' = segments,
           got' = [got EXCEPT ![s] = Append(@, NextChunk(s))],
           \A t \in Scanners : pull'[t] = "done" => t # s /\ pull[t] = "done"
    PROVE  Held'
<1>1. /\ reserved[s] <= Len(segments) /\ NextChunk(s) = <<reserved[s], 1>>
      /\ current' = [current EXCEPT ![s] = reserved[s]]
      /\ chunkIdx' = [chunkIdx EXCEPT ![s] = 2]
      /\ reserved' = [reserved EXCEPT ![s] = nextSeg[Output[s]]]
      /\ nextSeg' = [nextSeg EXCEPT ![Output[s]] = @ + 1]
  BY DEF Scan, NextChunk, HasNext, Reserve
<1>s. ScanInv
  BY DEF Held
<1>n. Len(segments) \in Nat /\ \A k \in 1 .. Len(segments) : Len(segments[k]) \in Nat /\ Len(segments[k]) >= 1
  BY SeqFacts, Zenon DEF Held, SegmentsInv, IsSegment
<1>j. /\ Output[s] \in Outputs /\ reserved[s] \in Nat \ {0} /\ nextSeg[Output[s]] \in Nat
      /\ reserved[s] < nextSeg[Output[s]]
  BY <1>s DEF ScanInv, ScanTypes, Bounds, Created
<1>i. PICK o0 \in Outputs, k0 \in Nat \ {0}, new \in Nat :
         o0 = Output[s] /\ k0 = reserved[s] /\ new = nextSeg[o0]
  BY <1>j, Zenon
<1>k. /\ o0 \in Outputs /\ k0 \in Nat \ {0} /\ new \in Nat \ {0} /\ k0 < new
      /\ o0 = Output[s] /\ k0 = reserved[s] /\ new = nextSeg[o0]
  BY <1>i, <1>j
<1>2. /\ current' \in [Scanners -> Nat] /\ current'[s] = k0
      /\ \A t \in Scanners : t # s => current'[t] = current[t]
      /\ chunkIdx' \in [Scanners -> Nat \ {0}] /\ chunkIdx'[s] = 2
      /\ \A t \in Scanners : t # s => chunkIdx'[t] = chunkIdx[t]
      /\ reserved' \in [Scanners -> Nat \ {0}] /\ reserved'[s] = new
      /\ \A t \in Scanners : t # s => reserved'[t] = reserved[t]
      /\ nextSeg' \in [Outputs -> Nat] /\ nextSeg'[o0] = new + 1
      /\ \A o \in Outputs : o # o0 => nextSeg'[o] = nextSeg[o]
  BY <1>1, <1>k, <1>s DEF ScanInv, ScanTypes, Bounds, Disjoint, ReservedAhead
<1>3. SegmentsInv'
  BY Zenon DEF Held, SegmentsInv
<1>p. k0 \in 1 .. Len(segments) /\ Len(segments[k0]) >= 1 /\ Len(segments[k0]) \in Nat
  BY <1>1, <1>k, <1>n
<1>o. \A t \in Scanners : Output[t] \in Outputs
  BY DEF Created
<1>b. \A t \in Scanners : Output[t] = o0 => reserved[t] < new /\ (current[t] # 0 => current[t] < new)
  BY <1>s, <1>k, Zenon DEF ScanInv, ScanTypes, Bounds, Disjoint, ReservedAhead
<1>d. \A t \in Scanners : Output[t] = o0 =>
          /\ reserved[t] # new /\ current[t] # new
          /\ current[t] # k0 /\ (t # s => reserved[t] # k0)
  <2>1. \A t \in Scanners : Output[t] = o0 => reserved[t] # new /\ current[t] # new
    BY <1>b, <1>k, <1>s DEF ScanInv, ScanTypes, Bounds, Disjoint, ReservedAhead
  <2> QED
    BY <2>1, <1>s, <1>k, Zenon DEF ScanInv, ScanTypes, Bounds, Disjoint, ReservedAhead
<1>e. \A m \in Nat : m < new => m < new + 1
  BY <1>k
<1>4. ScanInv'
  <2>1. ASSUME NEW t \in Scanners PROVE reserved'[t] < nextSeg'[Output[t]]
    <3>1. CASE t = s
      BY <1>2, <1>k, <3>1
    <3>2. CASE t # s /\ Output[t] = o0
      <4>1. reserved[t] \in Nat /\ reserved[t] < new
        BY <1>s, <1>b, <3>2 DEF ScanInv, ScanTypes, Bounds, Disjoint, ReservedAhead
      <4> QED
        BY <1>2, <1>e, <3>2, <4>1, Zenon
    <3>3. CASE t # s /\ Output[t] # o0
      BY <1>2, <1>s, <1>o, <3>3, Zenon DEF ScanInv, ScanTypes, Bounds, Disjoint, ReservedAhead
    <3> QED
      BY <3>1, <3>2, <3>3
  <2>2. ASSUME NEW t \in Scanners, current'[t] # 0
        PROVE  /\ current'[t] \in 1 .. Len(segments)
               /\ current'[t] < nextSeg'[Output[t]]
               /\ chunkIdx'[t] <= Len(segments[current'[t]]) + 1
    <3>1. CASE t = s
      <4>1. k0 < new + 1 /\ 2 <= Len(segments[k0]) + 1
        BY <1>k, <1>p
      <4> QED
        BY <1>2, <1>k, <1>p, <3>1, <4>1, Zenon
    <3>2. CASE t # s
      <4>1. /\ current[t] # 0 /\ current'[t] = current[t] /\ chunkIdx'[t] = chunkIdx[t]
            /\ current[t] \in 1 .. Len(segments) /\ chunkIdx[t] <= Len(segments[current[t]]) + 1
            /\ current[t] < nextSeg[Output[t]]
        BY <1>2, <1>s, <2>2, <3>2, Zenon DEF ScanInv, ScanTypes, Bounds, Disjoint, ReservedAhead
      <4>2. current[t] < nextSeg'[Output[t]]
        <5>1. CASE Output[t] = o0
          <6>1. current[t] \in Nat /\ current[t] < new
            BY <1>s, <1>b, <4>1, <5>1 DEF ScanInv, ScanTypes, Bounds, Disjoint, ReservedAhead
          <6> QED
            BY <1>2, <1>e, <5>1, <6>1, Zenon
        <5>2. CASE Output[t] # o0
          BY <1>2, <1>o, <4>1, <5>2, Zenon
        <5> QED
          BY <5>1, <5>2
      <4> QED
        BY <4>1, <4>2, Zenon
    <3> QED
      BY <3>1, <3>2
  <2>3. ASSUME NEW t \in Scanners, pull'[t] = "done" PROVE current'[t] = 0 /\ reserved'[t] > Len(segments)
    BY <1>s, <1>2, <2>3, Zenon DEF ScanInv, ScanTypes, Bounds, Disjoint, ReservedAhead
  <2>4. ASSUME NEW t \in Scanners, NEW u \in Scanners, Output[t] = Output[u]
        PROVE  /\ current'[t] # reserved'[u]
               /\ t # u => reserved'[t] # reserved'[u]
               /\ t # u /\ current'[t] # 0 => current'[t] # current'[u]
    <3>1. CASE t # s /\ u # s
      <4>1. /\ current'[t] = current[t] /\ current'[u] = current[u]
            /\ reserved'[t] = reserved[t] /\ reserved'[u] = reserved[u]
        BY <1>2, <3>1, Zenon
      <4>2. /\ current[t] # reserved[u]
            /\ t # u => reserved[t] # reserved[u]
            /\ t # u /\ current[t] # 0 => current[t] # current[u]
        BY <1>s, <2>4, Zenon DEF ScanInv, Disjoint
      <4> QED
        BY <4>1, <4>2, Zenon
    <3>2. CASE t = s
      <4>1. u # s => reserved[u] # k0 /\ reserved[u] # new /\ current[u] # k0
        BY <1>d, <1>k, <2>4, <3>2, Zenon
      <4>2. k0 # new
        BY <1>k
      <4> QED
        BY <1>2, <3>2, <4>1, <4>2, Zenon
    <3>3. CASE t # s /\ u = s
      <4>1. current[t] # new /\ reserved[t] # new /\ current[t] # k0
        BY <1>d, <1>k, <2>4, <3>3, Zenon
      <4> QED
        BY <1>2, <3>3, <4>1, Zenon
    <3> QED
      BY <3>1, <3>2, <3>3
  <2>5. ASSUME NEW o \in Outputs, NEW k \in Nat, Len(segments) < k, k < nextSeg'[o]
        PROVE  \E t \in ScannersOf(o) : reserved'[t] = k
    <3>1. CASE o = o0 /\ k = new
      <4>1. s \in ScannersOf(o)
        BY <1>k, <3>1 DEF ScannersOf
      <4> QED
        BY <1>2, <3>1, <4>1, Zenon
    <3>2. CASE ~(o = o0 /\ k = new)
      <4>1. k < nextSeg[o]
        <5>1. CASE o = o0
          BY <1>2, <1>k, <2>5, <3>2, <5>1
        <5>2. CASE o # o0
          BY <1>2, <2>5, <5>2, Zenon
        <5> QED
          BY <5>1, <5>2
      <4>2. PICK t \in ScannersOf(o) : reserved[t] = k
        BY <1>s, <2>5, <4>1, Zenon DEF ScanInv, ScanTypes, Bounds, Disjoint, ReservedAhead
      <4>3. t \in Scanners /\ t # s
        <5>1. k # k0
          BY <1>1, <1>k, <1>n, <2>5
        <5> QED
          BY <1>k, <4>2, <5>1 DEF ScannersOf
      <4> QED
        BY <1>2, <4>2, <4>3, Zenon
    <3> QED
      BY <3>1, <3>2
  <2> QED
    <3>1. ScanTypes'
      BY <1>2, Zenon DEF ScanTypes
    <3>2. Bounds'
      BY <2>1, <2>2, <2>3, Zenon DEF Bounds
    <3>3. Disjoint'
      BY <2>4, Zenon DEF Disjoint
    <3>4. ReservedAhead'
      BY <2>5, Zenon DEF ReservedAhead
    <3> QED
      BY <3>1, <3>2, <3>3, <3>4 DEF ScanInv
<1>7. \A k, j : IsPlace(k, j)' <=> IsPlace(k, j)
  BY Zenon DEF IsPlace
<1>8. ASSUME NEW o \in Outputs, NEW k \in Nat, NEW j \in Nat
      PROVE  (o = Output[s] /\ k = k0 /\ j = 1) \/ (Behind(o, k, j)' <=> Behind(o, k, j))
  <2>1. SUFFICES ASSUME ~(o = o0 /\ k = k0 /\ j = 1), IsPlace(k, j) PROVE Behind(o, k, j)' <=> Behind(o, k, j)
    BY <1>7, <1>k, Zenon DEF Behind
  <2>2. CASE o # o0
    <3>1. \A t \in ScannersOf(o) : t \in Scanners /\ t # s
      BY <1>k, <2>2 DEF ScannersOf
    <3> QED
      BY <1>2, <1>7, <2>2, <3>1, Zenon DEF Behind
  <2>3. CASE o = o0 /\ k = k0
    <3>1. ~Behind(o, k, j)
      <4>1. s \in ScannersOf(o)
        BY <1>k, <2>3 DEF ScannersOf
      <4> QED
        BY <1>k, <2>3, <4>1, Zenon DEF Behind
    <3>2. ~(j < 2)
      <4>1. j \in 1 .. Len(segments[k0])
        BY <2>1, <2>3 DEF IsPlace
      <4> QED
        BY <1>p, <2>1, <2>3, <4>1
    <3>3. ~Behind(o, k, j)'
      <4>1. s \in ScannersOf(o)
        BY <1>k, <2>3 DEF ScannersOf
      <4> QED
        BY <1>2, <2>3, <3>2, <4>1, Zenon DEF Behind
    <3> QED
      BY <3>1, <3>3
  <2>4. CASE o = o0 /\ k # k0
    <3>s. s \in ScannersOf(o) /\ \A t \in ScannersOf(o) : t \in Scanners
      BY <1>k, <2>4 DEF ScannersOf
    <3>1. ASSUME Behind(o, k, j) PROVE Behind(o, k, j)'
      <4>1. k < new /\ k # new
        BY <1>k, <2>4, <3>1 DEF Behind
      <4>2. k < nextSeg'[o]
        BY <1>2, <1>e, <2>4, <4>1, Zenon
      <4>3. \A t \in ScannersOf(o) : reserved'[t] # k /\ (current'[t] = k => j < chunkIdx'[t])
        BY <1>2, <2>4, <3>1, <3>s, <4>1, Zenon DEF Behind
      <4> QED
        BY <1>7, <2>1, <4>2, <4>3, Zenon DEF Behind
    <3>2. ASSUME Behind(o, k, j)' PROVE Behind(o, k, j)
      <4>1. k < nextSeg'[o] /\ \A t \in ScannersOf(o) : reserved'[t] # k /\ (current'[t] = k => j < chunkIdx'[t])
        BY <3>2, Zenon DEF Behind
      <4>2. k # new
        BY <1>2, <3>s, <4>1, Zenon
      <4>3. k < nextSeg[o]
        BY <1>2, <1>k, <2>4, <4>1, <4>2
      <4>4. \A t \in ScannersOf(o) : reserved[t] # k
        BY <1>2, <1>k, <2>4, <3>s, <4>1, Zenon
      <4>5. current[s] = k => j < chunkIdx[s]
        BY <2>1, SegmentRead
      <4>6. \A t \in ScannersOf(o) : current[t] = k => j < chunkIdx[t]
        BY <1>2, <3>s, <4>1, <4>5, Zenon
      <4> QED
        BY <2>1, <4>3, <4>4, <4>6, Zenon DEF Behind
    <3> QED
      BY <3>1, <3>2
  <2> QED
    BY <2>2, <2>3, <2>4
<1>9. Behind(Output[s], k0, 1)'
  <2>1. IsPlace(k0, 1)
    BY <1>p DEF IsPlace
  <2>2. k0 < nextSeg'[Output[s]]
    BY <1>2, <1>k, <1>e, Zenon
  <2>3. ASSUME NEW t \in ScannersOf(Output[s])
        PROVE  reserved'[t] # k0 /\ (current'[t] = k0 => 1 < chunkIdx'[t])
    <3>1. t \in Scanners /\ Output[t] = o0
      BY <1>k DEF ScannersOf
    <3>2. CASE t = s
      BY <1>2, <1>k, <3>2
    <3>3. CASE t # s
      BY <1>2, <1>d, <3>1, <3>3, Zenon
    <3> QED
      BY <3>2, <3>3
  <2> QED
    BY <1>7, <2>1, <2>2, <2>3, Zenon DEF Behind
<1>10. ~Behind(Output[s], k0, 1) /\ got' = [got EXCEPT ![s] = Append(@, <<k0, 1>>)]
  <2>1. s \in ScannersOf(Output[s]) /\ reserved[s] = k0
    BY <1>k DEF ScannersOf
  <2>2. ~Behind(Output[s], k0, 1)
    BY <2>1, Zenon DEF Behind
  <2> QED
    BY <1>1, <1>k, <2>2
<1>11. GotInv'
  <2>1. GotInv /\ k0 \in Nat /\ 1 \in Nat
    BY <1>k DEF Held
  <2> QED
    <3>1. Gets(s, k0, 1)
      BY <1>8, <1>9, <1>10, Zenon DEF Gets
    <3> QED
      BY <2>1, <3>1, GotOneMore
<1> QED
  BY <1>3, <1>4, <1>11 DEF Held

-----------------------------------------------------------------------------
(* poll_push: the batch becomes a segment of its own, or nothing.          *)
LEMMA PushGrows ==
    ASSUME Created, PushInv, NEW a \in Appenders, Push(a)
    PROVE  segments' = segments \/ \E g : IsSegment(g) /\ segments' = Append(segments, g)
<1> DEFINE n == pushed[a] + 1
<1>1. n \in 1 .. Len(Input[a]) /\ pending[a] = <<>>
  <2>1. pushed[a] \in Nat /\ pushed[a] < Len(Input[a]) /\ Len(Input[a]) \in Nat
    BY DEF Push, PushInv, Created
  <2> QED
    BY <2>1 DEF PushInv
<1>2. Input[a][n] \in Nat
  BY <1>1 DEF Created
<1> HIDE DEF n
<1>3. IsSeq(Batch(a, n))
  <2>1. Batch(a, n) \in Seq({<<<<a, n>>, i>> : i \in 1 .. Input[a][n]})
    BY <1>2 DEF Batch
  <2> QED
    BY <2>1, Zenon DEF IsSeq
<1>4. segments' = Flushed(AppendToSegment(pending[a], Batch(a, n)))
  BY DEF Push, AppendBatch, PushFlushes, n
<1>5. AppendToSegment(pending[a], Batch(a, n)) = Chunks(Batch(a, n))
  BY <1>1 DEF AppendToSegment
<1>6. IsSegment(Chunks(Batch(a, n)))
  BY <1>3, ChunksSegment DEF Created
<1> QED
  BY <1>4, <1>5, <1>6, Zenon DEF Flushed

LEMMA NextHeld ==
    ASSUME Created, PushInv, Held, [Next]_vars
    PROVE  Held'
<1>u. ASSUME UNCHANGED vars PROVE Held'
  BY <1>u, QuietHeld, Zenon DEF vars, collection, scanState
<1>r. \A a \in Appenders : push[a] # "done" => \A s \in Scanners : pull[s] # "done"
  BY UnfinishedCount DEF PushInv, Unfinished
<1>1. ASSUME NEW a \in Appenders, Push(a) PROVE Held'
  <2>1. UNCHANGED <<scanState, pull, got>> /\ push[a] # "done"
    BY <1>1 DEF Push
  <2>2. CASE segments' = segments
    BY <2>1, <2>2, QuietHeld, Zenon
  <2>3. ASSUME NEW g, IsSegment(g), segments' = Append(segments, g) PROVE Held'
    BY <1>r, <2>1, <2>3, GrowHeld
  <2> QED
    BY <1>1, <2>2, <2>3, PushGrows
<1>2. ASSUME NEW a \in Appenders, Wake(a) PROVE Held'
  BY <1>2, QuietHeld, Zenon DEF Wake, collection, scanState
<1>3. ASSUME NEW a \in Appenders, FlushLast(a) PROVE Held'
  <2>1. pending[a] = <<>> /\ segments' = Flushed(pending[a]) /\ UNCHANGED <<scanState, pull, got>>
    BY <1>3 DEF PushInv, FlushLast, Flush
  <2>2. segments' = segments
    BY <2>1 DEF Flushed
  <2> QED
    BY <2>1, <2>2, QuietHeld, Zenon
<1>4. ASSUME NEW a \in Appenders, FinalizePush(a) PROVE Held'
  BY <1>4, QuietHeld, Zenon DEF FinalizePush, collection, scanState
<1>5. ASSUME NEW s \in Scanners, PullChunk(s) PROVE Held'
  <2>1. /\ Scan(s) /\ got' = [got EXCEPT ![s] = Append(@, NextChunk(s))]
        /\ pull' = [pull EXCEPT ![s] = "scan"] /\ segments' = segments
    BY <1>5, Zenon DEF PullChunk
  <2>2. \A t \in Scanners : pull'[t] = "done" => t # s /\ pull[t] = "done"
    BY <2>1 DEF PushInv
  <2> QED
    BY <2>1, <2>2, InSegmentHeld, ReservedHeld
<1>6. ASSUME NEW s \in Scanners, PullNothing(s) PROVE Held'
  <2>1. /\ ScanNothing(s) /\ UNCHANGED <<segments, got>> /\ pull' = [pull EXCEPT ![s] = "empty"]
    BY <1>6, Zenon DEF PullNothing
  <2>2. \A t \in Scanners : t # s => pull'[t] = pull[t]
    BY <2>1 DEF PushInv
  <2> QED
    BY <2>1, <2>2, ForgetHeld
<1>7. ASSUME NEW s \in Scanners, CheckInputs(s) PROVE Held'
  <2>1. UNCHANGED <<segments, scanState, got>>
    BY <1>7, Zenon DEF CheckInputs, collection, scanState
  <2>2. pull' = [pull EXCEPT ![s] = "scan"] \/ pull' = [pull EXCEPT ![s] = "last"]
    BY <1>7, Zenon DEF CheckInputs, AfterEmpty
  <2>3. \A t \in Scanners : pull'[t] = "done" => pull[t] = "done"
    BY <2>2 DEF PushInv
  <2> QED
    BY <2>1, <2>3, QuietHeld
<1>8. ASSUME NEW s \in Scanners, Exhausted(s) PROVE Held'
  <2>1. /\ ScanNothing(s) /\ UNCHANGED <<segments, got>> /\ pull' = [pull EXCEPT ![s] = "done"]
    BY <1>8, Zenon DEF Exhausted
  <2>2. \A t \in Scanners : t # s => pull'[t] = pull[t]
    BY <2>1 DEF PushInv
  <2> QED
    BY <2>1, <2>2, ForgetHeld
<1> QED
  BY <1>u, <1>1, <1>2, <1>3, <1>4, <1>5, <1>6, <1>7, <1>8, Zenon DEF Next, PushSide, PullSide

LEMMA Invariance ==
    ASSUME Created
    PROVE  Spec => []IInv
<1>1. Init => IInv
  BY InitIInv
<1>2. IInv /\ [Next]_vars => IInv'
  BY NextPushInv, NextHeld DEF IInv, Held
<1> QED
  BY <1>1, <1>2, PTL DEF Spec

(* However the pushes and the pulls of several outputs interleave, every   *)
(* output of a materialization gets each chunk once, and all of them by    *)
(* the time its partitions are exhausted, for any number of partitions,    *)
(* outputs and batches.                                                    *)
THEOREM OutputsGetAll ==
    ASSUME Created
    PROVE  Spec => []EveryOutputGetsAll
<1>1. ASSUME IInv PROVE EveryOutputGetsAll
  <2>h. SegmentsInv /\ ScanInv /\ GotInv /\ PushInv
    BY <1>1 DEF IInv
  <2> SUFFICES ASSUME NEW o \in Outputs
               PROVE  /\ \A s, t \in ScannersOf(o) : \A i \in DOMAIN got[s], j \in DOMAIN got[t] :
                            got[s][i] = got[t][j] => s = t /\ i = j
                      /\ \A s \in ScannersOf(o) : \A i \in DOMAIN got[s] : got[s][i] \in Places
                      /\ (\A s \in ScannersOf(o) : pull[s] = "done")
                            => /\ \A c \in Places : \E s \in ScannersOf(o) : \E i \in DOMAIN got[s] : got[s][i] = c
                               /\ \A a \in Appenders : push[a] = "done"
    BY DEF EveryOutputGetsAll
  <2>s. \A s \in ScannersOf(o) : s \in Scanners /\ Output[s] = o
    BY DEF ScannersOf
  <2>1. \A s, t \in ScannersOf(o) : \A i \in DOMAIN got[s], j \in DOMAIN got[t] :
           got[s][i] = got[t][j] => s = t /\ i = j
    <3> SUFFICES ASSUME NEW s \in ScannersOf(o), NEW t \in ScannersOf(o),
                        NEW i \in DOMAIN got[s], NEW j \in DOMAIN got[t], got[s][i] = got[t][j]
                 PROVE  s = t /\ i = j
      OBVIOUS
    <3>1. GotOnce /\ s \in Scanners /\ t \in Scanners /\ Output[s] = Output[t]
      BY <2>h, <2>s, Zenon DEF GotInv
    <3> QED
      BY <3>1 DEF GotOnce
  <2>2. ASSUME NEW s \in ScannersOf(o), NEW i \in DOMAIN got[s] PROVE got[s][i] \in Places
    <3>1. got[s][i] \in Nat \X Nat
      BY <2>h, <2>s DEF GotInv
    <3>2. PICK k \in Nat, j \in Nat : got[s][i] = <<k, j>>
      BY <3>1
    <3>3. IsPlace(k, j)
      BY <2>h, <2>s, <3>2, Zenon DEF GotInv, GotOnlyBehind, Behind
    <3> QED
      BY <2>h, <3>2, <3>3, PlacesAre, Zenon
  <2>3. ASSUME \A s \in ScannersOf(o) : pull[s] = "done", NEW c \in Places
        PROVE  \E s \in ScannersOf(o) : \E i \in DOMAIN got[s] : got[s][i] = c
    <3>1. PICK k \in Nat, j \in Nat : IsPlace(k, j) /\ c = <<k, j>>
      BY <2>h, <2>3, PlacesAre, Zenon
    <3>n. Len(segments) \in Nat /\ k \in 1 .. Len(segments)
      BY <2>h, <3>1, SeqFacts DEF SegmentsInv, IsPlace
    <3>2. \A t \in ScannersOf(o) : current[t] = 0 /\ reserved[t] > Len(segments)
      BY <2>h, <2>3, <2>s DEF ScanInv, Bounds
    <3>3. \A t \in ScannersOf(o) : reserved[t] \in Nat /\ reserved[t] < nextSeg[o] /\ nextSeg[o] \in Nat
      BY <2>h, <2>s DEF ScanInv, ScanTypes, Bounds
    <3>4. PICK u \in ScannersOf(o) : TRUE
      BY DEF Created
    <3>5. k < nextSeg[o]
      BY <3>n, <3>2, <3>3, <3>4
    <3>6. \A t \in ScannersOf(o) : reserved[t] # k /\ current[t] # k
      BY <3>n, <3>2, <3>3
    <3>7. Behind(o, k, j)
      BY <3>1, <3>5, <3>6, Zenon DEF Behind
    <3> QED
      BY <2>h, <3>1, <3>7, Zenon DEF GotInv, GotAllBehind
  <2>4. ASSUME \A s \in ScannersOf(o) : pull[s] = "done", NEW a \in Appenders PROVE push[a] = "done"
    <3>1. remaining = 0
      <4>1. PICK u \in ScannersOf(o) : TRUE
        BY DEF Created
      <4> QED
        BY <2>h, <2>4, <2>s, <4>1 DEF PushInv
    <3>2. Unfinished = {}
      BY <2>h, <3>1, UnfinishedCount DEF PushInv
    <3> QED
      BY <3>2 DEF Unfinished
  <2> QED
    BY <2>1, <2>2, <2>3, <2>4
<1> QED
  BY <1>1, Invariance, PTL

(* Two scan states of an output never hold or reserve the same segment     *)
(* (ParallelColumnCollectionScanState).                                    *)
THEOREM SegmentsNotShared ==
    ASSUME Created
    PROVE  Spec => []ReservationsDisjoint
<1>1. IInv => ReservationsDisjoint
  BY DEF IInv, ScanInv, Disjoint, ReservationsDisjoint, NoSegment
<1> QED
  BY <1>1, Invariance, PTL

(* A pull partition that is parked has an input partition that will wake   *)
(* it: poll_finalize_push counts down and wakes under one lock.            *)
THEOREM NobodyWaitsForEver ==
    ASSUME Created
    PROVE  Spec => []NoStrandedPull
<1>1. IInv => NoStrandedPull
  BY DEF IInv, PushInv, NoStrandedPull
<1> QED
  BY <1>1, Invariance, PTL

(* The counters and phases of a materialization keep their types.          *)
THEOREM TypesKept ==
    ASSUME Created
    PROVE  Spec => []TypeOK
<1>1. ASSUME IInv PROVE TypeOK
  <2>1. remaining \in 0 .. Cardinality(Appenders)
    BY <1>1, UnfinishedCount DEF IInv, PushInv
  <2>2. \A a \in Appenders : pushed[a] \in 0 .. Len(Input[a])
    <3>1. \A a \in Appenders : Len(Input[a]) \in Nat
      BY DEF Created
    <3> QED
      BY <1>1, <3>1 DEF IInv, PushInv
  <2> QED
    BY <1>1, <2>1, <2>2 DEF IInv, PushInv, TypeOK
<1> QED
  BY <1>1, Invariance, PTL
=============================================================================
