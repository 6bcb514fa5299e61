------------------------------ MODULE JoinProofs ------------------------------
(***************************************************************************)
(* The hash join for any number of partitions, any left and right rows and *)
(* every join type: whatever the interleaving of build and probe tasks, it *)
(* returns the rows of the SQL join, each once; the chains of its hash     *)
(* table for any number of concurrent inserts; and the barriers of the     *)
(* nested loop join.                                                       *)
(***************************************************************************)
EXTENDS HashJoin, FiniteSetTheorems, TLAPS

(***************************************************************************)
(* The build side.                                                         *)
(***************************************************************************)
In(phases) == {p \in Partitions : build[p] \in phases}

TypeInv ==
    /\ TypeOK
    /\ joinType \in JoinTypes
    /\ left \in [Partitions -> Seq(Keys)] /\ right \in [Partitions -> Seq(Keys)]
    /\ collected \in [Partitions -> Nat] /\ rhs \in [Partitions -> Nat]

(* The counters count the partitions that are yet to come.                 *)
CountInv ==
    /\ builders = Cardinality(In({"collecting"}))
    /\ inserters = Cardinality(Partitions \ In({"finalized"}))

BlocksComplete ==
    /\ {blocks[i] : i \in DOMAIN blocks} = LeftRows
    /\ \A i, j \in DOMAIN blocks : i # j => blocks[i] # blocks[j]

(* One partition at most prepares the directory, after all have collected  *)
(* their rows, and nobody inserts before it is announced.                  *)
Leaders == In({"last", "announcing"})
BuildInv ==
    /\ \A p \in Partitions : build[p] # "collecting" => collected[p] = Len(left[p])
    /\ \A p, q \in Leaders : p = q
    /\ Leaders # {} => In({"collecting"}) = {} /\ ~insertsReady
    /\ ~insertsReady => In({"inserting", "inserted", "finalized"}) = {}
    /\ insertsReady => In({"collecting"}) = {} /\ BlocksComplete
    /\ In({"announcing"}) # {} => BlocksComplete
    /\ table \subseteq LeftRows
    /\ \A p \in In({"inserted", "finalized"}) : \A i \in OwnBlocks(p) : blocks[i] \in table
    /\ scanReady => In({"finalized"}) = Partitions
    /\ pendingInserters # {} => ~insertsReady

(***************************************************************************)
(* The probe side.                                                         *)
(***************************************************************************)
(* The pairs of rows the probers have been through.                        *)
Done(r) == r[2] <= rhs[r[1]]
Current(r) == r[2] = rhs[r[1]] + 1 /\ r[1] \notin needsProbe
Shown(l, r) == Done(r) \/ (Current(r) /\ l \notin chain[r[1]])

ShownPairs == {x \in Pairs : Shown(x[1], x[2])}
Unmet == {r \in RightRows : \A l \in LeftRows : ~Matches(l, r)}
ShownNulls == {<<Null, r>> : r \in {s \in Unmet : Done(s) \/ Current(s)}}
BlocksDrained ==
    {i \in DOMAIN blocks : Drains(blocks[i]) /\ \E p \in Partitions : i \in drained[p]}
ShownDrained == {Drained(blocks[i]) : i \in BlocksDrained}

(* What the join has returned so far.                                      *)
Returned ==
    CASE joinType = "inner" -> ShownPairs
      [] joinType = "left" -> ShownPairs \cup ShownDrained
      [] joinType = "right" -> ShownPairs \cup ShownNulls
      [] OTHER -> ShownDrained

OutInv == out = Returned /\ IsFiniteSet(out) /\ Cardinality(out) = emitted

(* Nothing is probed or drained before the table is complete.              *)
FreshInv ==
    ~scanReady =>
        /\ needsProbe = Partitions /\ matched = {} /\ out = {} /\ emitted = 0
        /\ \A p \in Partitions : rhs[p] = 0 /\ drained[p] = {}

ScanInv ==
    /\ \A p \in Partitions \ needsProbe : p \in rightMatched /\ HasInput(p)
    /\ MarksOnly => needsProbe = Partitions
    /\ NeedsMatchColumn =>
          matched = {l \in LeftRows : \E r \in RightRows : Matches(l, r) /\ Shown(l, r)}

Probing == {p \in Partitions : probe[p] = "probing"}
PhaseInv ==
    /\ \A p \in Partitions : probe[p] # "probing" => ~HasInput(p)
    /\ NeedsDrain => probers = Cardinality(Probing)
    /\ ~NeedsDrain => ~drainReady /\ \A p \in Partitions : probe[p] # "draining"
    /\ drainReady => Probing = {}
    /\ \A p \in Partitions : NeedsDrain /\ probe[p] = "done" => MayDrain /\ Left(p) = {}
    /\ \A p \in Partitions : drained[p] \subseteq OwnBlocks(p)
    /\ \A p \in Partitions : drained[p] # {} => MayDrain /\ NeedsDrain
    /\ pendingProbers # {} => ~scanReady
    /\ pendingDrainers # {} => ~MayDrain

IInv ==
    /\ TypeInv /\ CountInv /\ BuildInv
    /\ FreshInv /\ ScanInv /\ PhaseInv /\ OutInv

-----------------------------------------------------------------------------
(* The arithmetic of the counters and of the places in an input.           *)
LEMMA CountDown ==
    ASSUME NEW n \in Nat, NEW c \in 1 .. n
    PROVE  c - 1 \in 0 .. n /\ (c - 1 = 0 <=> c = 1)
  OBVIOUS

LEMMA CountUp ==
    ASSUME NEW n \in Nat, NEW c \in 0 .. n
    PROVE  /\ ~(c < n) => c = n
           /\ c < n => c + 1 \in 0 .. n /\ c + 1 \in Nat
  OBVIOUS

LEMMA NextPlace ==
    ASSUME NEW a \in Nat, NEW b \in Nat
    PROVE  /\ a <= b + 1 <=> a <= b \/ a = b + 1
           /\ a = b + 1 => ~(a <= b)
           /\ b + 1 \in Nat
  OBVIOUS

LEMMA OrderedPlaces ==
    /\ \A n \in Nat : \A i, j \in 1 .. n : i # j => i < j \/ j < i
    /\ \A i, j \in Nat : i <= j /\ j <= i => i = j
  OBVIOUS

LEMMA PairIs ==
    ASSUME NEW a, NEW b, NEW r, r = <<r[1], r[2]>> \/ r = <<a, b>>
    PROVE  r = <<a, b>> <=> r[1] = a /\ r[2] = b
  OBVIOUS

LEMMA ElementPlaces ==
    ASSUME NEW S, NEW s \in Seq(S)
    PROVE  \A j \in DOMAIN s : j \in Nat /\ s[j] \in S
  OBVIOUS

(* The rows of an input are the places of its partitions.                  *)
LEMMA RowsOfInput ==
    ASSUME NEW input \in [Partitions -> Seq(Keys)], NEW r
    PROVE  /\ r \in RowsOf(input) <=>
                 \E p \in Partitions : \E i \in 1 .. Len(input[p]) : r = <<p, i>>
           /\ r \in RowsOf(input) =>
                 /\ r = <<r[1], r[2]>> /\ r[1] \in Partitions
                 /\ r[2] \in 1 .. Len(input[r[1]]) /\ r[2] \in Nat
<1>1. \A p \in Partitions : input[p] \in Seq(Keys) /\ DOMAIN input[p] = 1 .. Len(input[p])
                              /\ Len(input[p]) \in Nat
  OBVIOUS
<1>2. r \in RowsOf(input) <=> \E p \in Partitions : r \in {p} \X DOMAIN input[p]
  BY DEF RowsOf
<1>3. ASSUME NEW p \in Partitions
      PROVE  r \in {p} \X DOMAIN input[p] <=> \E i \in 1 .. Len(input[p]) : r = <<p, i>>
  BY <1>1
<1> QED
  BY <1>1, <1>2, <1>3

LEMMA RowTypes ==
    ASSUME TypeInv
    PROVE  /\ \A r \in RightRows : /\ r = <<r[1], r[2]>> /\ r[1] \in Partitions
                                   /\ r[2] \in 1 .. Len(right[r[1]]) /\ r[2] \in Nat \ {0}
           /\ \A l \in LeftRows : /\ l = <<l[1], l[2]>> /\ l[1] \in Partitions
                                  /\ l[2] \in 1 .. Len(left[l[1]])
           /\ \A p \in Partitions : Len(left[p]) \in Nat /\ Len(right[p]) \in Nat
           /\ \A p \in Partitions : HasInput(p) => RightRow(p) \in RightRows
<1>1. left \in [Partitions -> Seq(Keys)] /\ right \in [Partitions -> Seq(Keys)]
  BY DEF TypeInv
<1>2. \A p \in Partitions : Len(left[p]) \in Nat /\ Len(right[p]) \in Nat /\ rhs[p] \in Nat
  BY <1>1 DEF TypeInv
<1>3. ASSUME NEW p \in Partitions, HasInput(p) PROVE RightRow(p) \in RightRows
  <2>1. rhs[p] + 1 \in 1 .. Len(right[p])
    BY <1>2, <1>3 DEF HasInput
  <2> QED
    BY Zenon, <1>1, <2>1, RowsOfInput DEF RightRow, RightRows
<1> QED
  BY <1>1, <1>2, <1>3, RowsOfInput DEF LeftRows, RightRows

LEMMA PartitionsFinite ==
    /\ IsFiniteSet(Partitions) /\ Cardinality(Partitions) = NumPartitions
    /\ NumPartitions \in Nat \ {0}
  BY JoinAssumption, FS_Interval DEF Partitions

LEMMA NumPartitionsNat == NumPartitions \in Nat /\ 0 \in Partitions
  BY JoinAssumption DEF Partitions

(* The size of a set of partitions, and of the set without one of them.    *)
LEMMA CountPartitions ==
    ASSUME NEW S \in SUBSET Partitions
    PROVE  /\ IsFiniteSet(S) /\ Cardinality(S) \in 0 .. NumPartitions
           /\ Cardinality(S) = 0 <=> S = {}
<1>1. IsFiniteSet(S) /\ Cardinality(S) <= Cardinality(Partitions)
  BY PartitionsFinite, FS_Subset
<1> QED
  BY <1>1, PartitionsFinite, FS_CardinalityType, FS_EmptySet

LEMMA CountWithout ==
    ASSUME NEW S \in SUBSET Partitions, NEW p \in S
    PROVE  /\ Cardinality(S \ {p}) = Cardinality(S) - 1
           /\ Cardinality(S) \in 1 .. NumPartitions
           /\ Cardinality(S) = 1 <=> S = {p}
<1>1. Cardinality(S \ {p}) = Cardinality(S) - 1
  BY CountPartitions, FS_RemoveElement
<1>2. Cardinality(S) \in 1 .. NumPartitions
  BY CountPartitions, PartitionsFinite
<1>3. Cardinality(S) = 1 => S = {p}
  <2>1. S \ {p} \in SUBSET Partitions
    OBVIOUS
  <2> QED
    BY <1>1, <2>1, CountPartitions
<1> QED
  BY Zenon, <1>1, <1>2, <1>3, FS_Singleton

LEMMA InitIInv == Init => IInv
<1> SUFFICES ASSUME Init PROVE IInv
  OBVIOUS
<1> USE PartitionsFinite
<1>1. TypeInv
  <2>1. /\ left \in [Partitions -> Seq(Keys)] /\ right \in [Partitions -> Seq(Keys)]
        /\ collected \in [Partitions -> Nat] /\ rhs \in [Partitions -> Nat]
        /\ joinType \in JoinTypes
    BY JoinAssumption DEF Init
  <2>2. \A p \in Partitions : collected[p] \in 0 .. Len(left[p]) /\ rhs[p] \in 0 .. Len(right[p])
    <3>1. \A p \in Partitions : Len(left[p]) \in Nat /\ Len(right[p]) \in Nat
      BY <2>1
    <3> QED
      BY <3>1 DEF Init
  <2>3. blocks \in Seq(LeftRows) /\ drained \in [Partitions -> SUBSET DOMAIN blocks]
    BY DEF Init
  <2>4. builders \in 0 .. NumPartitions /\ inserters \in 0 .. NumPartitions
        /\ probers \in 0 .. NumPartitions
    BY DEF Init
  <2> QED
    BY Zenon, <2>1, <2>2, <2>3, <2>4 DEF Init, TypeInv, TypeOK
<1>2. CountInv
  <2>1. In({"collecting"}) = Partitions /\ Partitions \ In({"finalized"}) = Partitions
    BY DEF Init, In
  <2> QED
    BY Zenon, <2>1 DEF Init, CountInv
<1>3. BuildInv
  BY DEF Init, BuildInv, In, Leaders
<1>4. FreshInv
  BY DEF Init, FreshInv
<1>5. ScanInv
  <2>1. ASSUME NEW l, NEW r \in RightRows PROVE ~Shown(l, r)
    BY <1>1, RowTypes DEF Init, Shown, Done, Current
  <2> QED
    BY <2>1 DEF Init, ScanInv
<1>6. PhaseInv
  <2>1. Probing = Partitions
    BY DEF Init, Probing
  <2> QED
    BY <2>1 DEF Init, PhaseInv, MayDrain
<1>7. OutInv
  <2>1. ShownPairs = {}
    <3>1. \A x \in Pairs : x[2] \in RightRows
      BY DEF Pairs
    <3> QED
      BY <1>1, <3>1, RowTypes DEF Init, ShownPairs, Shown, Done, Current
  <2>2. ShownNulls = {}
    BY <1>1, RowTypes DEF Init, ShownNulls, Unmet, Done, Current
  <2>3. ShownDrained = {}
    BY DEF Init, ShownDrained, BlocksDrained
  <2> QED
    BY <2>1, <2>2, <2>3, FS_EmptySet DEF Init, OutInv, Returned
<1> QED
  BY <1>1, <1>2, <1>3, <1>4, <1>5, <1>6, <1>7 DEF IInv

-----------------------------------------------------------------------------
(* A build task that still runs is one the probers wait for.               *)
LEMMA BuildBeforeScan ==
    ASSUME IInv, NEW p \in Partitions, Build(p)
    PROVE  ~scanReady /\ build[p] # "finalized"
<1>1. build[p] # "finalized"
  BY DEF Build, Push, FinishBuild, InitDirectory, AnnounceDirectory, AwaitDirectory,
     ProcessHashes, InsertsDone, BuildRuns
<1> QED
  BY <1>1 DEF IInv, BuildInv, In

(* The steps of a build task, by what they do to the phases.               *)
LEMMA PushBuild ==
    ASSUME IInv, NEW p \in Partitions, Push(p)
    PROVE  TypeInv' /\ CountInv' /\ BuildInv'
<1> USE DEF IInv
<1>1. /\ build[p] = "collecting" /\ collected[p] < Len(left[p])
      /\ collected' = [collected EXCEPT ![p] = @ + 1]
      /\ UNCHANGED <<joinType, left, right, build, builders, blocks, table, probe, rhs, needsProbe,
                     chain, rightMatched, matched, drained, out, emitted, insertsReady,
                     scanReady, drainReady, inserters, probers, pendingInserters,
                     pendingProbers, pendingDrainers>>
  BY DEF Push, BuildRuns, query, scanVars, output, flags, counters, wakers
<1>2. LeftRows' = LeftRows /\ \A S : In(S)' = In(S)
  BY <1>1 DEF LeftRows, In
<1>3. TypeInv'
  <2>1. \A q \in Partitions : collected'[q] \in 0 .. Len(left[q]) /\ collected'[q] \in Nat
    <3>1. \A q \in Partitions : /\ Len(left[q]) \in Nat /\ collected[q] \in 0 .. Len(left[q])
                                /\ collected'[q] = IF q = p THEN collected[q] + 1 ELSE collected[q]
      BY Zenon, <1>1, RowTypes DEF TypeInv, TypeOK
    <3> QED
      BY <1>1, <3>1
  <2>2. collected' \in [Partitions -> Nat]
    BY <1>1, <2>1 DEF TypeInv
  <2> QED
    BY Zenon, <1>1, <1>2, <2>1, <2>2 DEF TypeInv, TypeOK
<1>4. CountInv'
  BY Zenon, <1>1, <1>2 DEF CountInv
<1>5. BuildInv'
  <2>1. \A q \in Partitions : build[q] # "collecting" => collected'[q] = Len(left[q])
    BY <1>1 DEF BuildInv, TypeInv
  <2> QED
    BY <1>1, <1>2, <2>1 DEF BuildInv, Leaders, BlocksComplete, OwnBlocks
<1> QED
  BY <1>3, <1>4, <1>5

LEMMA FinishBuildBuild ==
    ASSUME IInv, NEW p \in Partitions, FinishBuild(p)
    PROVE  TypeInv' /\ CountInv' /\ BuildInv'
<1> USE DEF IInv
<1>1. /\ build[p] = "collecting" /\ collected[p] = Len(left[p])
      /\ builders' = builders - 1
      /\ build' = [build EXCEPT ![p] = IF builders = 1 THEN "last" ELSE "waiting"]
      /\ UNCHANGED <<joinType, left, right, collected, blocks, table, probe, rhs, needsProbe,
                     chain, rightMatched, matched, drained, out, emitted, insertsReady,
                     scanReady, drainReady, inserters, probers, pendingInserters,
                     pendingProbers, pendingDrainers>>
  BY DEF FinishBuild, BuildRuns, IsLast, query, scanVars, output, flags, counters, wakers
<1>2. /\ LeftRows' = LeftRows
      /\ build'[p] \in {"last", "waiting"} /\ \A q \in Partitions \ {p} : build'[q] = build[q]
  BY <1>1 DEF LeftRows, TypeInv, TypeOK
<1>3. /\ In({"collecting"})' = In({"collecting"}) \ {p}
      /\ In({"finalized"})' = In({"finalized"})
      /\ In({"announcing"})' = In({"announcing"})
      /\ In({"inserted", "finalized"})' = In({"inserted", "finalized"})
      /\ In({"inserting", "inserted", "finalized"})' = In({"inserting", "inserted", "finalized"})
  BY <1>1, <1>2 DEF In
<1>4. p \in In({"collecting"}) /\ In({"collecting"}) \in SUBSET Partitions
  BY <1>1 DEF In
<1>5. /\ builders' = Cardinality(In({"collecting"})') /\ builders \in 1 .. NumPartitions
      /\ builders = 1 => In({"collecting"}) = {p}
  BY <1>1, <1>3, <1>4, CountWithout DEF CountInv
<1>6. TypeInv'
  <2>1. builders' \in 0 .. NumPartitions
    BY <1>1, <1>5, PartitionsFinite
  <2> QED
    BY Zenon, <1>1, <1>2, <2>1 DEF TypeInv, TypeOK
<1>7. CountInv'
  BY Zenon, <1>1, <1>3, <1>5 DEF CountInv
<1>8. BuildInv'
  <2>1. Leaders = {} /\ ~insertsReady
    BY SMTT(40), <1>4 DEF BuildInv
  <2>2. Leaders' = IF builders = 1 THEN {p} ELSE {}
    BY SMTT(40), <1>1, <1>2, <2>1 DEF Leaders, In, TypeInv, TypeOK
  <2>3. Leaders' # {} => In({"collecting"})' = {}
    BY <1>3, <1>5, <2>2
  <2>4. \A q \in Partitions : build'[q] # "collecting" => collected[q] = Len(left[q])
    BY Zenon, <1>1, <1>2 DEF BuildInv
  <2> QED
    BY <1>1, <1>2, <1>3, <2>1, <2>2, <2>3, <2>4 DEF BuildInv, BlocksComplete, OwnBlocks, In
<1> QED
  BY <1>6, <1>7, <1>8

(* The rows of a merge are enumerated by naturals.                         *)
LEMMA CollectedFinite ==
    ASSUME TypeInv
    PROVE  IsFiniteSet(Collected) /\ Cardinality(Collected) \in Nat
<1> DEFINE part(q) == {q} \X (1 .. collected[q])
           parts == {part(q) : q \in Partitions}
           f == [q \in Partitions |-> part(q)]
<1>1. f \in Surjection(Partitions, parts)
  BY DEF Surjection
<1>2. IsFiniteSet(parts)
  BY <1>1, PartitionsFinite, FS_Surjection
<1>3. ASSUME NEW q \in Partitions PROVE IsFiniteSet(part(q))
  <2>1. IsFiniteSet({q})
    BY Zenon, FS_Singleton
  <2>2. collected[q] \in Int /\ 1 \in Int
    BY DEF TypeInv
  <2>3. IsFiniteSet(1 .. collected[q])
    BY <2>2, FS_Interval
  <2> QED
    BY Zenon, <2>1, <2>3, FS_Product
<1>4. IsFiniteSet(UNION parts)
  <2>1. \A T \in parts : IsFiniteSet(T)
    BY <1>3
  <2> HIDE DEF parts
  <2> QED
    BY <1>2, <2>1, FS_UNION
<1>5. Collected = UNION parts
  BY DEF Collected
<1> QED
  BY <1>4, <1>5, FS_CardinalityType

LEMMA CollectedAll ==
    ASSUME TypeInv, \A q \in Partitions : collected[q] = Len(left[q])
    PROVE  Collected = LeftRows
<1>1. \A q \in Partitions : DOMAIN left[q] = 1 .. collected[q]
  BY DEF TypeInv
<1>2. {{q} \X (1 .. collected[q]) : q \in Partitions} = {{q} \X DOMAIN left[q] : q \in Partitions}
  BY <1>1
<1> QED
  BY <1>2 DEF Collected, LeftRows, RowsOf

LEMMA InitDirectoryBuild ==
    ASSUME IInv, NEW p \in Partitions, InitDirectory(p)
    PROVE  TypeInv' /\ CountInv' /\ BuildInv'
<1> USE DEF IInv
<1>1. /\ build[p] = "last" /\ build' = [build EXCEPT ![p] = "announcing"]
      /\ UNCHANGED <<joinType, left, right, collected, builders, table, probe, rhs, needsProbe,
                     chain, rightMatched, matched, drained, out, emitted, insertsReady,
                     scanReady, drainReady, inserters, probers, pendingInserters,
                     pendingProbers, pendingDrainers>>
  BY DEF InitDirectory, BuildRuns, query, scanVars, output, flags, counters, wakers
<1>2. PICK rows \in [1 .. Cardinality(Collected) -> Collected] : Merged(rows) /\ blocks' = rows
  BY DEF InitDirectory
<1>3. /\ LeftRows' = LeftRows
      /\ build'[p] = "announcing" /\ \A q \in Partitions \ {p} : build'[q] = build[q]
  BY <1>1 DEF LeftRows, TypeInv, TypeOK
<1>4. /\ In({"collecting"})' = In({"collecting"})
      /\ In({"finalized"})' = In({"finalized"})
      /\ In({"inserted", "finalized"})' = In({"inserted", "finalized"})
      /\ In({"inserting", "inserted", "finalized"})' = In({"inserting", "inserted", "finalized"})
      /\ Leaders' = Leaders /\ p \in Leaders
  BY Zenon, <1>1, <1>3 DEF In, Leaders
<1>5. In({"collecting"}) = {} /\ ~insertsReady
      /\ In({"inserting", "inserted", "finalized"}) = {}
  BY Zenon, <1>4 DEF BuildInv
<1>6. Collected = LeftRows
  BY <1>5, CollectedAll DEF BuildInv, In
<1>7. blocks' \in Seq(LeftRows) /\ DOMAIN blocks' = 1 .. Cardinality(Collected)
  BY SMTT(40), <1>2, <1>6, CollectedFinite
<1>8. TypeInv'
  <2>1. drained \in [Partitions -> SUBSET DOMAIN blocks']
    <3>1. \A q \in Partitions : drained[q] = {}
      BY Zenon, BuildBeforeScan DEF FreshInv, Build
    <3> QED
      BY <3>1 DEF TypeInv, TypeOK
  <2> QED
    BY ZenonT(40), <1>1, <1>3, <1>7, <2>1 DEF TypeInv, TypeOK
<1>9. CountInv'
  BY Zenon, <1>1, <1>4 DEF CountInv
<1>10. BlocksComplete'
  <2>1. {rows[i] : i \in DOMAIN rows} = LeftRows
    BY <1>2, <1>6 DEF Merged
  <2>2. ASSUME NEW i \in DOMAIN rows, NEW j \in DOMAIN rows, i < j PROVE rows[i] # rows[j]
    <3>1. Precedes(rows[i], rows[j]) /\ rows[i] \in LeftRows
      BY <1>2, <1>6, <2>2 DEF Merged
    <3>2. rows[i][1] \in Nat /\ rows[i][2] \in Nat
      BY <3>1, RowTypes, PartitionsFinite DEF Partitions
    <3> QED
      BY <3>1, <3>2 DEF Precedes
  <2>3. DOMAIN rows = 1 .. Cardinality(Collected) /\ Cardinality(Collected) \in Nat
    BY <1>2, CollectedFinite
  <2>4. ASSUME NEW i \in DOMAIN rows, NEW j \in DOMAIN rows, i # j PROVE rows[i] # rows[j]
    <3>1. i < j \/ j < i
      BY Zenon, <2>3, <2>4, OrderedPlaces
    <3> QED
      BY <2>2, <3>1
  <2> QED
    BY <1>2, <1>3, <2>1, <2>4 DEF BlocksComplete
<1>11. BuildInv'
  <2>1. \A q \in Partitions : build'[q] # "collecting" => collected'[q] = Len(left'[q])
    BY <1>1, <1>3 DEF BuildInv
  <2>2. In({"inserted", "finalized"}) = {}
    BY <1>5 DEF In
  <2>3. Leaders' # {} => In({"collecting"})' = {} /\ ~insertsReady'
    BY Zenon, <1>1, <1>4, <1>5
  <2>4. scanReady' => In({"finalized"})' = Partitions
    BY Zenon, <1>1, <1>4 DEF BuildInv
  <2> QED
    BY Zenon, <1>1, <1>3, <1>4, <1>5, <1>10, <2>1, <2>2, <2>3, <2>4 DEF BuildInv
<1> QED
  BY <1>8, <1>9, <1>11

LEMMA AnnounceDirectoryBuild ==
    ASSUME IInv, NEW p \in Partitions, AnnounceDirectory(p)
    PROVE  TypeInv' /\ CountInv' /\ BuildInv'
<1> USE DEF IInv
<1>1. /\ build[p] = "announcing" /\ build' = [build EXCEPT ![p] = "inserting"]
      /\ insertsReady' = TRUE /\ pendingInserters' = {}
      /\ UNCHANGED <<joinType, left, right, collected, builders, blocks, table, probe, rhs,
                     needsProbe, chain, rightMatched, matched, drained, out, emitted,
                     scanReady, drainReady, inserters, probers, pendingProbers,
                     pendingDrainers>>
  BY Zenon DEF AnnounceDirectory, BuildRuns, query, scanVars, output, counters
<1>2. /\ LeftRows' = LeftRows
      /\ build'[p] = "inserting" /\ \A q \in Partitions \ {p} : build'[q] = build[q]
  BY <1>1 DEF LeftRows, TypeInv, TypeOK
<1>3. /\ In({"collecting"})' = In({"collecting"})
      /\ In({"finalized"})' = In({"finalized"})
      /\ In({"inserted", "finalized"})' = In({"inserted", "finalized"})
      /\ p \in Leaders /\ p \in In({"announcing"})
  BY Zenon, <1>1, <1>2 DEF In, Leaders
<1>4. Leaders' = {} /\ In({"announcing"})' = {}
  BY ZenonT(40), <1>2, <1>3 DEF BuildInv, Leaders, In
<1>5. In({"collecting"}) = {} /\ BlocksComplete /\ BlocksComplete'
  BY ZenonT(40), <1>1, <1>2, <1>3 DEF BuildInv, BlocksComplete
<1>6. TypeInv'
  BY Zenon, <1>1, <1>2 DEF TypeInv, TypeOK
<1>7. CountInv'
  BY Zenon, <1>1, <1>3 DEF CountInv
<1>8. BuildInv'
  <2>1. \A q \in Partitions : build'[q] # "collecting" => collected'[q] = Len(left'[q])
    BY <1>1, <1>2 DEF BuildInv
  <2> QED
    BY Zenon, <1>1, <1>2, <1>3, <1>4, <1>5, <2>1 DEF BuildInv, OwnBlocks
<1> QED
  BY <1>6, <1>7, <1>8

LEMMA AwaitDirectoryBuild ==
    ASSUME IInv, NEW p \in Partitions, AwaitDirectory(p)
    PROVE  TypeInv' /\ CountInv' /\ BuildInv'
<1> USE DEF IInv
<1>1. /\ build[p] = "waiting"
      /\ UNCHANGED <<joinType, left, right, collected, builders, blocks, table, probe, rhs,
                     needsProbe, chain, rightMatched, matched, drained, out, emitted,
                     insertsReady, scanReady, drainReady, inserters, probers, pendingProbers,
                     pendingDrainers>>
  BY Zenon DEF AwaitDirectory, BuildRuns, query, scanVars, output, flags, counters
<1>2. CASE insertsReady
  <2>1. build' = [build EXCEPT ![p] = "inserting"] /\ UNCHANGED pendingInserters
    BY Zenon, <1>2 DEF AwaitDirectory, Raced
  <2>2. /\ LeftRows' = LeftRows
        /\ build'[p] = "inserting" /\ \A q \in Partitions \ {p} : build'[q] = build[q]
    BY Zenon, <1>1, <2>1 DEF LeftRows, TypeInv, TypeOK
  <2>3. /\ In({"collecting"})' = In({"collecting"})
        /\ In({"finalized"})' = In({"finalized"})
        /\ In({"inserted", "finalized"})' = In({"inserted", "finalized"})
        /\ In({"announcing"})' = In({"announcing"}) /\ Leaders' = Leaders
    BY Zenon, <1>1, <2>2 DEF In, Leaders
  <2>4. TypeInv'
    BY Zenon, <1>1, <2>1, <2>2 DEF TypeInv, TypeOK
  <2>5. CountInv'
    BY <1>1, <2>3 DEF CountInv
  <2>6. \A q \in Partitions : build'[q] # "collecting" => collected'[q] = Len(left'[q])
    BY <1>1, <2>2 DEF BuildInv
  <2> QED
    BY ZenonT(40), <1>1, <1>2, <2>1, <2>2, <2>3, <2>4, <2>5, <2>6 DEF BuildInv, BlocksComplete, OwnBlocks
<1>3. CASE ~insertsReady
  <2>1. UNCHANGED build /\ pendingInserters' = pendingInserters \cup {p}
    BY <1>3 DEF AwaitDirectory, Raced
  <2>2. LeftRows' = LeftRows /\ \A S : In(S)' = In(S)
    BY Zenon, <1>1, <2>1 DEF LeftRows, In
  <2>3. TypeInv'
    BY Zenon, <1>1, <2>1, <2>2 DEF TypeInv, TypeOK
  <2> QED
    BY ZenonT(40), <1>1, <1>3, <2>1, <2>2, <2>3 DEF CountInv, BuildInv, Leaders, BlocksComplete, OwnBlocks
<1> QED
  BY Zenon, <1>2, <1>3

LEMMA ProcessHashesBuild ==
    ASSUME IInv, NEW p \in Partitions, ProcessHashes(p)
    PROVE  TypeInv' /\ CountInv' /\ BuildInv'
<1> USE DEF IInv
<1>1. /\ build[p] = "inserting" /\ build' = [build EXCEPT ![p] = "inserted"]
      /\ table' = table \cup {blocks[i] : i \in OwnBlocks(p)}
      /\ UNCHANGED <<joinType, left, right, collected, builders, blocks, probe, rhs,
                     needsProbe, chain, rightMatched, matched, drained, out, emitted,
                     insertsReady, scanReady, drainReady, inserters, probers,
                     pendingInserters, pendingProbers, pendingDrainers>>
  BY Zenon DEF ProcessHashes, BuildRuns, query, scanVars, output, flags, counters, wakers
<1>2. /\ LeftRows' = LeftRows
      /\ build'[p] = "inserted" /\ \A q \in Partitions \ {p} : build'[q] = build[q]
      /\ \A q : OwnBlocks(q)' = OwnBlocks(q)
  BY Zenon, <1>1 DEF LeftRows, TypeInv, TypeOK, OwnBlocks
<1>3. /\ In({"collecting"})' = In({"collecting"})
      /\ In({"finalized"})' = In({"finalized"})
      /\ In({"inserted", "finalized"})' = In({"inserted", "finalized"}) \cup {p}
      /\ In({"announcing"})' = In({"announcing"}) /\ Leaders' = Leaders
      /\ In({"inserting", "inserted", "finalized"})' = In({"inserting", "inserted", "finalized"})
  BY Zenon, <1>1, <1>2 DEF In, Leaders
<1>4. table' \subseteq LeftRows
  <2>1. \A i \in DOMAIN blocks : blocks[i] \in LeftRows
    BY DEF TypeInv, TypeOK
  <2> QED
    BY Zenon, <1>1, <2>1 DEF BuildInv, OwnBlocks
<1>5. TypeInv'
  BY Zenon, <1>1, <1>2, <1>4 DEF TypeInv, TypeOK
<1>6. CountInv'
  BY ZenonT(40), <1>1, <1>3 DEF CountInv
<1>7. BuildInv'
  <2>1. \A q \in Partitions : build'[q] # "collecting" => collected'[q] = Len(left'[q])
    BY ZenonT(40), <1>1, <1>2 DEF BuildInv
  <2>2. \A q \in In({"inserted", "finalized"})' : \A i \in OwnBlocks(q) : blocks[i] \in table'
    BY Zenon, <1>1, <1>3 DEF BuildInv
  <2>3. BlocksComplete' <=> BlocksComplete
    <3>1. blocks' = blocks /\ LeftRows' = LeftRows
      BY Zenon, <1>1, <1>2
    <3> QED
      BY ZenonT(40), <3>1 DEF BlocksComplete
  <2>4. \A q, r \in Leaders' : q = r
    BY <1>3 DEF BuildInv
  <2> QED
    BY Zenon, <1>1, <1>2, <1>3, <1>4, <2>1, <2>2, <2>3, <2>4 DEF BuildInv
<1> QED
  BY <1>5, <1>6, <1>7

LEMMA InsertsDoneBuild ==
    ASSUME IInv, NEW p \in Partitions, InsertsDone(p)
    PROVE  TypeInv' /\ CountInv' /\ BuildInv'
<1> USE DEF IInv
<1>1. /\ build[p] = "inserted" /\ build' = [build EXCEPT ![p] = "finalized"]
      /\ inserters' = inserters - 1
      /\ scanReady' \in {scanReady, TRUE}
      /\ pendingProbers' \subseteq pendingProbers /\ pendingDrainers' \subseteq pendingDrainers
      /\ UNCHANGED <<joinType, left, right, collected, builders, blocks, table, probe, rhs,
                     needsProbe, chain, rightMatched, matched, drained, out, emitted,
                     insertsReady, drainReady, probers, pendingInserters>>
  BY Zenon DEF InsertsDone, BuildRuns, query, scanVars, output
<1>2. /\ LeftRows' = LeftRows
      /\ build'[p] = "finalized" /\ \A q \in Partitions \ {p} : build'[q] = build[q]
      /\ \A q : OwnBlocks(q)' = OwnBlocks(q)
  BY Zenon, <1>1 DEF LeftRows, TypeInv, TypeOK, OwnBlocks
<1>3. /\ In({"collecting"})' = In({"collecting"})
      /\ In({"finalized"})' = In({"finalized"}) \cup {p}
      /\ In({"inserted", "finalized"})' = In({"inserted", "finalized"})
      /\ In({"announcing"})' = In({"announcing"}) /\ Leaders' = Leaders
      /\ In({"inserting", "inserted", "finalized"})' = In({"inserting", "inserted", "finalized"})
  BY Zenon, <1>1, <1>2 DEF In, Leaders
<1>4. /\ p \in Partitions \ In({"finalized"})
      /\ (Partitions \ In({"finalized"}))' = (Partitions \ In({"finalized"})) \ {p}
  BY <1>1, <1>3 DEF In
<1>5. /\ inserters' = Cardinality((Partitions \ In({"finalized"}))')
      /\ inserters \in 1 .. NumPartitions
      /\ inserters = 1 => Partitions \ In({"finalized"}) = {p}
  BY ZenonT(40), <1>1, <1>4, CountWithout DEF CountInv
<1>6. scanReady' => In({"finalized"})' = Partitions
  <2>1. CASE inserters = 1
    BY Zenon, <1>3, <1>5, <2>1 DEF In
  <2>2. CASE inserters # 1
    <3>1. inserters - 1 # 0
      BY Zenon, <1>5, <2>2, NumPartitionsNat, CountDown
    <3>2. scanReady' = scanReady
      BY <3>1 DEF InsertsDone, AllInserted
    <3> QED
      BY <1>3, <3>2 DEF BuildInv, In
  <2> QED
    BY <2>1, <2>2
<1>7. TypeInv'
  <2>1. inserters' \in 0 .. NumPartitions
    BY Zenon, <1>1, <1>5, NumPartitionsNat, CountDown
  <2> QED
    BY Zenon, <1>1, <1>2, <2>1 DEF TypeInv, TypeOK
<1>8. CountInv'
  BY Zenon, <1>1, <1>3, <1>5 DEF CountInv
<1>9. BuildInv'
  <2>1. \A q \in Partitions : build'[q] # "collecting" => collected'[q] = Len(left'[q])
    BY Zenon, <1>1, <1>2 DEF BuildInv
  <2>2. \A q \in In({"inserted", "finalized"})' : \A i \in OwnBlocks(q)' : blocks'[i] \in table'
    BY ZenonT(40), <1>1, <1>2, <1>3 DEF BuildInv
  <2>3. BlocksComplete' <=> BlocksComplete
    <3>1. blocks' = blocks /\ LeftRows' = LeftRows
      BY <1>1, <1>2
    <3> QED
      BY <3>1 DEF BlocksComplete
  <2>4. \A q, r \in Leaders' : q = r
    BY Zenon, <1>3 DEF BuildInv
  <2> QED
    BY Zenon, <1>1, <1>2, <1>3, <1>6, <2>1, <2>2, <2>3, <2>4 DEF BuildInv
<1> QED
  BY <1>7, <1>8, <1>9

(* What a build task leaves to the probers.                                *)
LEMMA BuildKeepsProbe ==
    ASSUME IInv, NEW p \in Partitions, Build(p)
    PROVE  FreshInv' /\ ScanInv' /\ PhaseInv' /\ OutInv'
<1> USE DEF IInv
<1>1. ~scanReady
  BY Zenon, BuildBeforeScan
<1>2. /\ UNCHANGED <<joinType, left, right, probe, rhs, needsProbe, chain, rightMatched,
                     matched, drained, out, emitted, drainReady, probers>>
      /\ pendingProbers' \subseteq pendingProbers /\ pendingDrainers' \subseteq pendingDrainers
      /\ scanReady' => pendingProbers' = {} /\ pendingDrainers' = {}
  <2>1. CASE InsertsDone(p)
    BY <1>1, <2>1 DEF InsertsDone, WokenDrainers, query, scanVars, output
  <2>2. CASE ~InsertsDone(p)
    <3>1. UNCHANGED <<query, probe, scanVars, drained, output, scanReady, drainReady, probers,
                      pendingProbers, pendingDrainers>>
      BY <2>2 DEF Build, Push, FinishBuild, InitDirectory, AnnounceDirectory, AwaitDirectory,
         ProcessHashes, flags, counters, wakers
    <3> QED
      BY Zenon, <1>1, <3>1 DEF query, scanVars, output
  <2> QED
    BY Zenon, <2>1, <2>2
<1>3. /\ LeftRows' = LeftRows /\ RightRows' = RightRows
      /\ \A l, r : (Matches(l, r)' <=> Matches(l, r)) /\ (Shown(l, r)' <=> Shown(l, r))
      /\ \A r : (Done(r)' <=> Done(r)) /\ (Current(r)' <=> Current(r))
      /\ \A q : HasInput(q)' <=> HasInput(q)
      /\ (NeedsDrain' <=> NeedsDrain) /\ (MarksOnly' <=> MarksOnly)
      /\ (NeedsMatchColumn' <=> NeedsMatchColumn)
  BY ZenonT(40), <1>2 DEF LeftRows, RightRows, Matches, Shown, Done, Current, HasInput, NeedsDrain,
     MarksOnly, NeedsMatchColumn
<1>4. FreshInv'
  BY Zenon, <1>1, <1>2 DEF FreshInv
<1>5. ScanInv'
  BY <1>2, <1>3 DEF ScanInv
<1>6. PhaseInv'
  <2>1. \A q \in Partitions : drained'[q] = {} /\ ~(NeedsDrain /\ probe[q] = "done")
    BY Zenon, <1>1, <1>2 DEF FreshInv, PhaseInv, MayDrain
  <2>2. Probing' = Probing
    BY <1>2 DEF Probing
  <2> QED
    BY ZenonT(40), <1>1, <1>2, <1>3, <2>1, <2>2 DEF PhaseInv, MayDrain
<1>7. OutInv'
  <2>1. ShownPairs' = ShownPairs /\ ShownNulls' = ShownNulls
    BY ZenonT(40), <1>3 DEF ShownPairs, Pairs, ShownNulls, Unmet
  <2>2. ShownDrained' = {} /\ ShownDrained = {}
    <3>1. \A q \in Partitions : drained[q] = {} /\ drained'[q] = {}
      BY Zenon, <1>1, <1>2 DEF FreshInv
    <3> QED
      BY Zenon, <3>1 DEF ShownDrained, BlocksDrained
  <2> QED
    BY <1>2, <2>1, <2>2 DEF OutInv, Returned
<1> QED
  BY <1>4, <1>5, <1>6, <1>7

LEMMA BuildIInv ==
    ASSUME IInv, NEW p \in Partitions, Build(p)
    PROVE  IInv'
<1>1. TypeInv' /\ CountInv' /\ BuildInv'
  BY Zenon, PushBuild, FinishBuildBuild, InitDirectoryBuild, AnnounceDirectoryBuild,
     AwaitDirectoryBuild, ProcessHashesBuild, InsertsDoneBuild DEF Build
<1> QED
  BY Zenon, <1>1, BuildKeepsProbe DEF IInv

-----------------------------------------------------------------------------
(* Every block belongs to one partition.                                   *)
LEMMA BlockOwner ==
    ASSUME TypeInv, NEW i \in DOMAIN blocks
    PROVE  /\ \E q \in Partitions : i \in OwnBlocks(q)
           /\ \A p, q \in Partitions : i \in OwnBlocks(p) /\ i \in OwnBlocks(q) => p = q
<1>1. i \in Nat \ {0}
  BY DEF TypeInv, TypeOK
<1>2. (i - 1) % NumPartitions \in Partitions
  BY <1>1, PartitionsFinite DEF Partitions
<1> QED
  BY <1>2 DEF OwnBlocks

LEMMA TableComplete ==
    ASSUME IInv, scanReady
    PROVE  table = LeftRows /\ BlocksComplete /\ insertsReady
<1> USE DEF IInv
<1>1. In({"finalized"}) = Partitions /\ 0 \in Partitions
  BY PartitionsFinite DEF BuildInv, Partitions
<1>2. insertsReady /\ BlocksComplete
  <2>1. 0 \in In({"inserting", "inserted", "finalized"})
    BY <1>1 DEF In
  <2> QED
    BY <2>1 DEF BuildInv
<1>3. ASSUME NEW i \in DOMAIN blocks PROVE blocks[i] \in table
  <2>1. PICK q \in Partitions : i \in OwnBlocks(q)
    BY BlockOwner
  <2>2. q \in In({"inserted", "finalized"})
    BY <1>1 DEF In
  <2> QED
    BY <2>1, <2>2 DEF BuildInv
<1> QED
  BY ZenonT(40), <1>2, <1>3 DEF BuildInv, BlocksComplete

(* Probing changes nothing of the build side.                              *)
LEMMA ProbeKeepsBuild ==
    ASSUME IInv, NEW p \in Partitions, Probe(p)
    PROVE  CountInv' /\ BuildInv'
<1>1. UNCHANGED <<joinType, left, right, build, collected, builders, blocks, table,
                  insertsReady, scanReady, inserters, pendingInserters>>
  BY Zenon DEF Probe, ProbePending, ScanMatch, ScanUnmatched, ScanEnd, ScanMark, FinalizeExecute,
     DrainPending, DrainNext, query, buildVars, flags, counters, wakers
<1>2. LeftRows' = LeftRows /\ \A S : In(S)' = In(S)
  BY Zenon, <1>1 DEF LeftRows, In
<1> QED
  BY Zenon, <1>1, <1>2 DEF IInv, CountInv, BuildInv, Leaders, BlocksComplete, OwnBlocks

(* The drain has not begun while somebody probes.                          *)
LEMMA NoDrainYet ==
    ASSUME IInv, NEW p \in Partitions, probe[p] = "probing"
    PROVE  /\ ~drainReady /\ ShownDrained = {}
           /\ \A q \in Partitions : drained[q] = {} /\ ~(NeedsDrain /\ probe[q] = "done")
<1>1. p \in Probing
  BY DEF Probing
<1>2. ~drainReady
  BY ZenonT(40), <1>1 DEF IInv, PhaseInv
<1>3. \A q \in Partitions : drained[q] = {} /\ ~(NeedsDrain /\ probe[q] = "done")
  BY Zenon, <1>2 DEF IInv, PhaseInv, MayDrain
<1> QED
  BY <1>2, <1>3 DEF ShownDrained, BlocksDrained

(* One more row, returned for the first time.                              *)
LEMMA EmitNew ==
    ASSUME IInv, NEW x, x \notin out, Emit(x)
    PROVE  /\ out' = out \cup {x} /\ IsFiniteSet(out') /\ Cardinality(out') = emitted'
           /\ emitted' \in Nat
<1>1. out' = out \cup {x} /\ emitted' = emitted + 1 /\ IsFiniteSet(out)
      /\ Cardinality(out) = emitted /\ emitted \in Nat
  BY DEF Emit, IInv, OutInv, TypeInv, TypeOK
<1> QED
  BY SMTT(40), <1>1, FS_AddElement

(* A partition that is not parked waits for nothing: its steps keep what   *)
(* is said of the stored wakers.                                           *)
LEMMA PendingIInv ==
    ASSUME IInv, NEW p \in Partitions, ProbePending(p) \/ DrainPending(p)
    PROVE  IInv'
<1> USE DEF IInv
<1>1. UNCHANGED <<joinType, left, right, build, collected, builders, blocks, table, probe, rhs,
                  needsProbe, chain, rightMatched, matched, drained, out, emitted,
                  insertsReady, scanReady, drainReady, inserters, probers, pendingInserters>>
  BY Zenon DEF ProbePending, DrainPending, query, buildVars, scanVars, output, flags, counters
<1>2. /\ pendingProbers' \subseteq Partitions /\ pendingDrainers' \subseteq Partitions
      /\ pendingProbers' # {} => ~scanReady
      /\ pendingDrainers' # {} => ~MayDrain
  BY DEF ProbePending, DrainPending, TypeInv, TypeOK, PhaseInv
<1>3. CountInv' /\ BuildInv'
  BY Zenon, ProbeKeepsBuild DEF Probe
<1>4. LeftRows' = LeftRows /\ RightRows' = RightRows
  BY Zenon, <1>1 DEF LeftRows, RightRows
<1>5. TypeInv'
  BY Zenon, <1>1, <1>2, <1>4 DEF TypeInv, TypeOK
<1>6. FreshInv' /\ ScanInv'
  BY <1>1, <1>4 DEF FreshInv, ScanInv, HasInput, MarksOnly, NeedsMatchColumn, Matches, Shown, Done,
     Current
<1>7. PhaseInv'
  BY <1>1, <1>2 DEF PhaseInv, HasInput, NeedsDrain, Probing, MayDrain, Left, OwnBlocks, Drains
<1>8. OutInv'
  BY Zenon, <1>1, <1>4 DEF OutInv, Returned, ShownPairs, Pairs, ShownNulls, Unmet, ShownDrained,
     BlocksDrained, Drains, Drained, Matches, Shown, Done, Current
<1> QED
  BY Zenon, <1>3, <1>5, <1>6, <1>7, <1>8

(* What a scan that stays at its right row has shown afterwards.           *)
LEMMA ScanShows ==
    ASSUME IInv, NEW p \in Partitions, Probes(p), NEW C \in SUBSET LeftRows,
           chain' = [chain EXCEPT ![p] = C], needsProbe' = needsProbe \ {p}, UNCHANGED rhs,
           NEW k \in LeftRows, NEW r \in RightRows
    PROVE  /\ Shown(k, r)' <=> IF r = RightRow(p) THEN k \notin C ELSE Shown(k, r)
           /\ Shown(k, RightRow(p)) <=> k \notin Chain(p)
           /\ (Done(r) \/ Current(r))' <=> Done(r) \/ Current(r) \/ r = RightRow(p)
<1> USE DEF IInv
<1>1. /\ r = <<r[1], r[2]>> /\ r[1] \in Partitions /\ r[2] \in Nat
      /\ rhs[p] \in Nat /\ rhs[r[1]] \in Nat /\ chain \in [Partitions -> SUBSET LeftRows]
  BY ZenonT(40), RowTypes DEF TypeInv, TypeOK
<1>2. table = LeftRows
  BY Zenon, TableComplete DEF Probes
<1>3. r = RightRow(p) <=> r[1] = p /\ r[2] = rhs[p] + 1
  BY Zenon, <1>1, PairIs DEF RightRow
<1>4. Shown(k, RightRow(p)) <=> k \notin Chain(p)
  <2>1. RightRow(p)[1] = p /\ RightRow(p)[2] = rhs[p] + 1
    BY Zenon, PairIs DEF RightRow
  <2>2. ~(rhs[p] + 1 <= rhs[p])
    BY Zenon, <1>1, NextPlace
  <2>3. ~Done(RightRow(p))
    BY Zenon, <2>1, <2>2 DEF Done
  <2>4. Current(RightRow(p)) <=> p \notin needsProbe
    BY Zenon, <2>1 DEF Current
  <2>5. chain[RightRow(p)[1]] = chain[p]
    BY Zenon, <2>1
  <2> QED
    BY Zenon, <1>2, <2>3, <2>4, <2>5 DEF Shown, Chain
<1>5. CASE r[1] = p
  <2>1. chain'[p] = C /\ p \notin needsProbe' /\ rhs'[p] = rhs[p]
    BY Zenon, <1>1
  <2>2. /\ Shown(k, r)' <=> r[2] <= rhs[p] \/ (r[2] = rhs[p] + 1 /\ k \notin C)
        /\ (Done(r) \/ Current(r))' <=> r[2] <= rhs[p] \/ r[2] = rhs[p] + 1
        /\ r[2] = rhs[p] + 1 => ~(r[2] <= rhs[p])
    BY Zenon, <1>1, <1>5, <2>1, NextPlace DEF Shown, Done, Current
  <2> QED
    BY Zenon, <1>3, <1>4, <1>5, <2>2 DEF Shown, Done, Current
<1>6. CASE r[1] # p
  BY Zenon, <1>1, <1>3, <1>4, <1>6 DEF Shown, Done, Current
<1> QED
  BY <1>5, <1>6

(* What a scan that is through with its right row has shown afterwards.    *)
LEMMA EndShows ==
    ASSUME IInv, NEW p \in Partitions, Probes(p), NeedsMore(p),
           NEW k \in LeftRows, NEW r \in RightRows
    PROVE  /\ Shown(k, r)' <=> Shown(k, r) \/ r = RightRow(p)
           /\ Shown(k, RightRow(p)) <=> k \notin Chain(p)
           /\ (Done(r) \/ Current(r))' <=> Done(r) \/ Current(r) \/ r = RightRow(p)
<1> USE DEF IInv
<1>1. /\ r = <<r[1], r[2]>> /\ r[1] \in Partitions /\ r[2] \in Nat
      /\ rhs[p] \in Nat /\ rhs[r[1]] \in Nat /\ rhs \in [Partitions -> Nat]
  BY Zenon, RowTypes DEF TypeInv, TypeOK
<1>2. table = LeftRows
  BY Zenon, TableComplete DEF Probes
<1>3. r = RightRow(p) <=> r[1] = p /\ r[2] = rhs[p] + 1
  BY Zenon, <1>1, PairIs DEF RightRow
<1>4. Shown(k, RightRow(p)) <=> k \notin Chain(p)
  <2>1. RightRow(p)[1] = p /\ RightRow(p)[2] = rhs[p] + 1
    BY Zenon, PairIs DEF RightRow
  <2>2. ~(rhs[p] + 1 <= rhs[p])
    BY Zenon, <1>1, NextPlace
  <2>3. ~Done(RightRow(p))
    BY Zenon, <2>1, <2>2 DEF Done
  <2>4. Current(RightRow(p)) <=> p \notin needsProbe
    BY Zenon, <2>1 DEF Current
  <2>5. chain[RightRow(p)[1]] = chain[p]
    BY Zenon, <2>1
  <2> QED
    BY Zenon, <1>2, <2>3, <2>4, <2>5 DEF Shown, Chain
<1>5. CASE r[1] = p
  <2>1. rhs'[p] = rhs[p] + 1 /\ p \in needsProbe'
    BY Zenon, <1>1 DEF NeedsMore
  <2>2. /\ Shown(k, r)' <=> r[2] <= rhs[p] \/ r[2] = rhs[p] + 1
        /\ (Done(r) \/ Current(r))' <=> r[2] <= rhs[p] \/ r[2] = rhs[p] + 1
    <3>1. Done(r)' <=> r[2] <= rhs[p] + 1
      BY Zenon, <1>5, <2>1 DEF Done
    <3>2. ~Current(r)'
      BY Zenon, <1>5, <2>1 DEF Current
    <3>3. r[2] <= rhs[p] + 1 <=> r[2] <= rhs[p] \/ r[2] = rhs[p] + 1
      BY Zenon, <1>1, NextPlace
    <3> QED
      BY Zenon, <3>1, <3>2, <3>3 DEF Shown
  <2> QED
    BY Zenon, <1>3, <1>4, <1>5, <2>2 DEF Shown, Done, Current
<1>6. CASE r[1] # p
  <2>1. rhs'[r[1]] = rhs[r[1]] /\ UNCHANGED chain /\ (r[1] \in needsProbe' <=> r[1] \in needsProbe)
    BY Zenon, <1>1, <1>6 DEF NeedsMore
  <2> QED
    BY Zenon, <1>1, <1>3, <1>4, <1>6, <2>1 DEF Shown, Done, Current
<1> QED
  BY <1>5, <1>6

(* What a scan leaves alone.                                               *)
LEMMA ScanKeeps ==
    ASSUME IInv, NEW p \in Partitions, Probes(p),
           UNCHANGED <<query, buildVars, probe, drained, flags, counters, wakers>>,
           chain' \in [Partitions -> SUBSET LeftRows], rightMatched' \subseteq Partitions,
           needsProbe' \subseteq Partitions, matched' \subseteq LeftRows, emitted' \in Nat,
           rhs' \in [Partitions -> Nat], \A q \in Partitions : rhs'[q] \in 0 .. Len(right[q]),
           \A q \in Partitions \ {p} : rhs'[q] = rhs[q]
    PROVE  /\ TypeInv' /\ FreshInv' /\ PhaseInv' /\ CountInv' /\ BuildInv'
           /\ LeftRows' = LeftRows /\ RightRows' = RightRows /\ Pairs' = Pairs
           /\ Unmet' = Unmet /\ \A l, r : Matches(l, r)' <=> Matches(l, r)
           /\ ShownDrained' = {}
<1> USE DEF IInv
<1>1. UNCHANGED <<joinType, left, right, build, collected, builders, blocks, table, probe,
                  drained, insertsReady, scanReady, drainReady, inserters, probers,
                  pendingInserters, pendingProbers, pendingDrainers>>
  BY SMTT(40) DEF query, buildVars, flags, counters, wakers
<1>2. /\ LeftRows' = LeftRows /\ RightRows' = RightRows
      /\ \A l, r : Matches(l, r)' <=> Matches(l, r)
  BY Zenon, <1>1 DEF LeftRows, RightRows, Matches
<1>3. Pairs' = Pairs /\ Unmet' = Unmet
  BY Zenon, <1>2 DEF Pairs, Unmet
<1>4. TypeInv'
  BY Zenon, <1>1, <1>2 DEF TypeInv, TypeOK
<1>5. FreshInv'
  BY ZenonT(40), <1>1 DEF FreshInv, Probes
<1>6. CountInv' /\ BuildInv'
  <2>1. \A S : In(S)' = In(S)
    BY Zenon, <1>1 DEF In
  <2> QED
    BY ZenonT(40), <1>1, <1>2, <2>1 DEF CountInv, BuildInv, Leaders, BlocksComplete, OwnBlocks
<1>7. probe[p] = "probing" /\ ~drainReady
      /\ \A q \in Partitions : drained[q] = {} /\ ~(NeedsDrain /\ probe[q] = "done")
  BY Zenon, NoDrainYet DEF Probes, ProbeRuns
<1>8. PhaseInv'
  <2>1. \A q \in Partitions : probe'[q] # "probing" => ~HasInput(q)'
    BY ZenonT(40), <1>1, <1>7 DEF PhaseInv, HasInput
  <2> QED
    BY ZenonT(40), <1>1, <1>7, <2>1 DEF PhaseInv, NeedsDrain, Probing, MayDrain, OwnBlocks
<1>9. ShownDrained' = {}
  BY Zenon, <1>1, <1>7 DEF ShownDrained, BlocksDrained
<1> QED
  BY Zenon, <1>2, <1>3, <1>4, <1>5, <1>6, <1>8, <1>9

(* The right row a task is at.                                             *)
LEMMA AtRightRow ==
    ASSUME IInv, NEW p \in Partitions, Probes(p)
    PROVE  /\ RightRow(p) \in RightRows /\ Chain(p) \in SUBSET LeftRows
           /\ Found(p) \subseteq LeftRows /\ HasInput(p) /\ scanReady
           /\ joinType \in {"inner", "left", "right", "semi", "mark"}
           /\ \A x \in Pairs : /\ x = <<x[1], x[2]>> /\ x[1] \in LeftRows
                               /\ x[2] \in RightRows /\ Matches(x[1], x[2])
           /\ ShownDrained = {} /\ probe[p] = "probing"
<1>1. HasInput(p) /\ scanReady /\ probe[p] = "probing" /\ TypeInv
  BY Zenon DEF Probes, ProbeRuns, IInv
<1>2. RightRow(p) \in RightRows
  BY Zenon, <1>1, RowTypes
<1>3. Chain(p) \in SUBSET LeftRows /\ Found(p) \subseteq LeftRows
  BY DEF IInv, TypeInv, TypeOK, Chain, Found
<1>4. joinType \in {"inner", "left", "right", "semi", "mark"}
  BY JoinAssumption DEF IInv, TypeInv
<1>5. \A x \in Pairs : /\ x = <<x[1], x[2]>> /\ x[1] \in LeftRows
                        /\ x[2] \in RightRows /\ Matches(x[1], x[2])
  BY DEF Pairs
<1>6. ShownDrained = {}
  BY Zenon, <1>1, NoDrainYet
<1> QED
  BY Zenon, <1>1, <1>2, <1>3, <1>4, <1>5, <1>6

LEMMA ScanMatchIInv ==
    ASSUME IInv, NEW p \in Partitions, ScanMatch(p)
    PROVE  IInv'
<1>1. Probes(p) /\ ~MarksOnly
  BY DEF ScanMatch
<1>2. PICK l \in Found(p) :
          /\ chain' = [chain EXCEPT ![p] = Chain(p) \ {l}]
          /\ matched' = IF NeedsMatchColumn THEN matched \cup {l} ELSE matched
          /\ Emit(<<l, RightRow(p)>>)
  BY ZenonT(40) DEF ScanMatch
<1>3. /\ rightMatched' = rightMatched \cup {p} /\ needsProbe' = needsProbe \ {p}
      /\ UNCHANGED <<query, buildVars, probe, rhs, drained, flags, counters, wakers>>
      /\ UNCHANGED rhs /\ UNCHANGED <<joinType, right>>
  BY Zenon DEF ScanMatch, query
<1> DEFINE r0 == RightRow(p)
<1>4. /\ r0 \in RightRows /\ l \in LeftRows /\ Matches(l, r0) /\ l \in Chain(p)
      /\ Chain(p) \ {l} \in SUBSET LeftRows /\ joinType \in {"inner", "left", "right"}
  BY Zenon, <1>1, AtRightRow DEF Found, MarksOnly
<1>5. ASSUME NEW k \in LeftRows, NEW r \in RightRows
      PROVE  /\ Shown(k, r)' <=> Shown(k, r) \/ (k = l /\ r = r0)
             /\ (Done(r) \/ Current(r))' <=> Done(r) \/ Current(r) \/ r = r0
             /\ ~Shown(l, r0)
  <2> DEFINE C == Chain(p) \ {l}
  <2>1. /\ Shown(k, r)' <=> IF r = r0 THEN k \notin C ELSE Shown(k, r)
        /\ Shown(k, r0) <=> k \notin Chain(p)
        /\ (Done(r) \/ Current(r))' <=> Done(r) \/ Current(r) \/ r = r0
    <3>1. C \in SUBSET LeftRows /\ chain' = [chain EXCEPT ![p] = C]
      BY <1>2, <1>4
    <3> HIDE DEF C
    <3> QED
      BY Zenon, <1>1, <1>3, <3>1, ScanShows
  <2>2. Shown(l, r0) <=> l \notin Chain(p)
    BY ZenonT(40), <1>1, <1>2, <1>3, <1>4, ScanShows
  <2> HIDE DEF r0
  <2> QED
    BY <1>4, <2>1, <2>2
<1>6. <<l, r0>> \notin out
  <2>1. <<l, r0>> \notin ShownPairs
    BY <1>4, <1>5 DEF ShownPairs
  <2>2. <<l, r0>> \notin ShownNulls
    BY Zenon, <1>4 DEF ShownNulls, Unmet
  <2> QED
    BY Zenon, <1>1, <1>4, <2>1, <2>2, AtRightRow DEF IInv, OutInv, Returned
<1>7. out' = out \cup {<<l, r0>>} /\ IsFiniteSet(out') /\ Cardinality(out') = emitted'
      /\ emitted' \in Nat
  BY Zenon, <1>2, <1>6, EmitNew
<1>8. /\ TypeInv' /\ FreshInv' /\ PhaseInv' /\ CountInv' /\ BuildInv'
      /\ LeftRows' = LeftRows /\ RightRows' = RightRows /\ Pairs' = Pairs
      /\ Unmet' = Unmet /\ (\A k, r : Matches(k, r)' <=> Matches(k, r))
      /\ ShownDrained' = {}
  <2>1. /\ chain' \in [Partitions -> SUBSET LeftRows] /\ rightMatched' \subseteq Partitions
        /\ needsProbe' \subseteq Partitions /\ matched' \subseteq LeftRows
        /\ rhs' \in [Partitions -> Nat] /\ \A q \in Partitions : rhs'[q] \in 0 .. Len(right[q])
    BY Zenon, <1>2, <1>3, <1>4 DEF IInv, TypeInv, TypeOK
  <2> QED
    BY Zenon, <1>1, <1>3, <1>7, <2>1, ScanKeeps
<1>9. ScanInv'
  <2>1. \A q \in Partitions \ needsProbe' : q \in rightMatched' /\ HasInput(q)'
    BY Zenon, <1>1, <1>3 DEF IInv, ScanInv, HasInput, Probes
  <2>2. ~MarksOnly' /\ (NeedsMatchColumn' <=> NeedsMatchColumn)
    BY Zenon, <1>1, <1>3 DEF MarksOnly, NeedsMatchColumn
  <2>3. ASSUME NeedsMatchColumn
        PROVE  matched' = {k \in LeftRows : \E r \in RightRows : Matches(k, r) /\ Shown(k, r)'}
    <3>1. matched = {k \in LeftRows : \E r \in RightRows : Matches(k, r) /\ Shown(k, r)}
      BY <2>3 DEF IInv, ScanInv
    <3>2. matched' = matched \cup {l}
      BY Zenon, <1>2, <2>3
    <3> HIDE DEF r0
    <3> QED
      BY Zenon, <1>4, <1>5, <3>1, <3>2
  <2> QED
    BY Zenon, <1>8, <2>1, <2>2, <2>3 DEF ScanInv
<1>10. OutInv'
  <2>1. ShownPairs' = ShownPairs \cup {<<l, r0>>}
    <3>1. <<l, r0>> \in Pairs
      BY Zenon, <1>4 DEF Pairs
    <3>2. \A x \in Pairs : Shown(x[1], x[2])' <=> Shown(x[1], x[2]) \/ x = <<l, r0>>
      BY <1>1, <1>5, AtRightRow
    <3> QED
      BY Zenon, <1>8, <3>1, <3>2 DEF ShownPairs
  <2>2. ShownNulls' = ShownNulls
    <3>1. \A s \in Unmet : (Done(s) \/ Current(s))' <=> Done(s) \/ Current(s)
      BY <1>4, <1>5 DEF Unmet
    <3> QED
      BY Zenon, <1>8, <3>1 DEF ShownNulls
  <2>3. out = Returned
    BY DEF IInv, OutInv
  <2>4. Returned' = Returned \cup {<<l, r0>>}
    BY Zenon, <1>1, <1>3, <1>4, <1>8, <2>1, <2>2, AtRightRow DEF Returned
  <2> QED
    BY Zenon, <1>7, <2>3, <2>4 DEF OutInv
<1> QED
  BY Zenon, <1>8, <1>9, <1>10 DEF IInv

LEMMA ScanUnmatchedIInv ==
    ASSUME IInv, NEW p \in Partitions, ScanUnmatched(p)
    PROVE  IInv'
<1>1. Probes(p) /\ Found(p) = {} /\ joinType = "right" /\ p \in needsProbe
  BY Zenon DEF ScanUnmatched, Unmatched, RightMatched, IInv, ScanInv
<1>2. /\ chain' = [chain EXCEPT ![p] = {}]
      /\ rightMatched' = rightMatched \cup {p} /\ needsProbe' = needsProbe \ {p}
      /\ Emit(<<Null, RightRow(p)>>)
      /\ UNCHANGED <<query, buildVars, probe, drained, flags, counters, wakers>>
      /\ UNCHANGED rhs /\ UNCHANGED <<joinType, right, matched>>
  BY Zenon DEF ScanUnmatched, query
<1> DEFINE r0 == RightRow(p)
<1>3. r0 \in Unmet /\ r0 \in RightRows
  <2>1. Chain(p) = LeftRows
    BY <1>1, AtRightRow, TableComplete DEF Chain
  <2> QED
    BY Zenon, <1>1, <2>1, AtRightRow DEF Found, Unmet
<1>4. ASSUME NEW k \in LeftRows, NEW r \in RightRows
      PROVE  /\ Shown(k, r)' <=> Shown(k, r) \/ r = r0
             /\ (Done(r) \/ Current(r))' <=> Done(r) \/ Current(r) \/ r = r0
  <2>1. {} \in SUBSET LeftRows
    BY Zenon
  <2> QED
    BY Zenon, <1>1, <1>2, <2>1, ScanShows
<1>5. ~Done(r0) /\ ~Current(r0)
  BY <1>1 DEF IInv, TypeInv, Done, Current, RightRow
<1>6. \A x \in Pairs : x[2] # r0
  BY <1>1, <1>3, AtRightRow DEF Unmet
<1>7. <<Null, r0>> \notin out
  <2>1. <<Null, r0>> \notin ShownPairs
    BY Zenon, <1>6 DEF ShownPairs
  <2>2. <<Null, r0>> \notin ShownNulls
    BY Zenon, <1>5 DEF ShownNulls
  <2> QED
    BY Zenon, <1>1, <2>1, <2>2 DEF IInv, OutInv, Returned
<1>8. out' = out \cup {<<Null, r0>>} /\ IsFiniteSet(out') /\ Cardinality(out') = emitted'
      /\ emitted' \in Nat
  BY Zenon, <1>2, <1>7, EmitNew
<1>9. /\ TypeInv' /\ FreshInv' /\ PhaseInv' /\ CountInv' /\ BuildInv'
      /\ LeftRows' = LeftRows /\ RightRows' = RightRows /\ Pairs' = Pairs
      /\ Unmet' = Unmet /\ (\A k, r : Matches(k, r)' <=> Matches(k, r))
  <2>1. /\ chain' \in [Partitions -> SUBSET LeftRows] /\ rightMatched' \subseteq Partitions
        /\ needsProbe' \subseteq Partitions /\ matched' \subseteq LeftRows
        /\ rhs' \in [Partitions -> Nat] /\ \A q \in Partitions : rhs'[q] \in 0 .. Len(right[q])
    BY Zenon, <1>2 DEF IInv, TypeInv, TypeOK
  <2> QED
    BY Zenon, <1>1, <1>2, <1>8, <2>1, ScanKeeps
<1>10. ScanInv'
  <2>1. \A q \in Partitions \ needsProbe' : q \in rightMatched' /\ HasInput(q)'
    BY Zenon, <1>1, <1>2 DEF IInv, ScanInv, HasInput, Probes
  <2> QED
    BY <1>1, <1>2, <2>1 DEF ScanInv, MarksOnly, NeedsMatchColumn
<1>11. OutInv'
  <2>1. ShownPairs' = ShownPairs
    <3>1. \A x \in Pairs : Shown(x[1], x[2])' <=> Shown(x[1], x[2])
      BY <1>1, <1>4, <1>6, AtRightRow
    <3> QED
      BY Zenon, <1>9, <3>1 DEF ShownPairs
  <2>2. ShownNulls' = ShownNulls \cup {<<Null, r0>>}
    <3>1. \A s \in Unmet : (Done(s) \/ Current(s))' <=> Done(s) \/ Current(s) \/ s = r0
      <4>1. \A s \in Unmet : s \in RightRows
        BY Zenon DEF Unmet
      <4>2. CASE LeftRows = {}
        BY SMTT(40), <1>1, <1>2, <1>3, <4>1, <4>2, AtRightRow
           DEF Done, Current, RightRow, RightRows, RowsOf
      <4>3. CASE LeftRows # {}
        BY <1>4, <4>1, <4>3
      <4> QED
        BY <4>2, <4>3
    <3> HIDE DEF r0
    <3> QED
      BY Zenon, <1>3, <1>9, <3>1 DEF ShownNulls
  <2>3. out = Returned
    BY DEF IInv, OutInv
  <2>4. Returned' = Returned \cup {<<Null, r0>>}
    BY Zenon, <1>1, <1>2, <2>1, <2>2 DEF Returned
  <2> QED
    BY Zenon, <1>8, <2>3, <2>4 DEF OutInv
<1> QED
  BY Zenon, <1>9, <1>10, <1>11 DEF IInv

(* A scan that is through with its right row has not shown more of it than *)
(* it found.                                                               *)
LEMMA EndKeeps ==
    ASSUME IInv, NEW p \in Partitions, Probes(p), NeedsMore(p),
           UNCHANGED <<query, buildVars, probe, drained, output, flags, counters, wakers>>,
           matched' \subseteq LeftRows
    PROVE  /\ TypeInv' /\ FreshInv' /\ PhaseInv' /\ CountInv' /\ BuildInv'
           /\ LeftRows' = LeftRows /\ RightRows' = RightRows /\ Pairs' = Pairs
           /\ Unmet' = Unmet /\ (\A k, r : Matches(k, r)' <=> Matches(k, r))
           /\ ShownDrained' = {}
           /\ \A q \in Partitions \ needsProbe' : q \in rightMatched' /\ HasInput(q)'
<1>1. /\ rhs' = [rhs EXCEPT ![p] = @ + 1] /\ needsProbe' = needsProbe \cup {p}
      /\ UNCHANGED <<chain, rightMatched>> /\ UNCHANGED <<right, emitted>>
  BY Zenon DEF NeedsMore, query, output
<1>2. \A q \in Partitions : /\ rhs[q] \in Nat /\ Len(right[q]) \in Nat
                            /\ rhs[q] \in 0 .. Len(right[q])
  BY Zenon, RowTypes DEF IInv, TypeInv, TypeOK
<1>3. HasInput(p) /\ rhs \in [Partitions -> Nat]
  BY Zenon DEF Probes, IInv, TypeInv
<1>4. /\ rhs' \in [Partitions -> Nat] /\ (\A q \in Partitions \ {p} : rhs'[q] = rhs[q])
      /\ \A q \in Partitions : rhs'[q] \in 0 .. Len(right[q])
  <2>1. \A q \in Partitions : rhs'[q] = IF q = p THEN rhs[p] + 1 ELSE rhs[q]
    BY Zenon, <1>1, <1>3
  <2>2. rhs[p] + 1 \in 0 .. Len(right[p]) /\ rhs[p] + 1 \in Nat
    BY Zenon, <1>2, <1>3, CountUp DEF HasInput
  <2>3. rhs' \in [Partitions -> Nat]
    BY <1>1, <1>3, <2>2
  <2> QED
    BY Zenon, <1>2, <2>1, <2>2, <2>3
<1>5. /\ chain' \in [Partitions -> SUBSET LeftRows] /\ rightMatched' \subseteq Partitions
      /\ needsProbe' \subseteq Partitions /\ emitted' \in Nat
  BY Zenon, <1>1 DEF IInv, TypeInv, TypeOK
<1>6. \A q \in Partitions \ needsProbe' : q \in rightMatched' /\ HasInput(q)'
  BY Zenon, <1>1, <1>4 DEF IInv, ScanInv, HasInput
<1> QED
  BY Zenon, <1>4, <1>5, <1>6, ScanKeeps

LEMMA ScanEndIInv ==
    ASSUME IInv, NEW p \in Partitions, ScanEnd(p)
    PROVE  IInv'
<1>1. /\ Probes(p) /\ ~MarksOnly /\ Found(p) = {} /\ ~Unmatched(p) /\ NeedsMore(p)
      /\ UNCHANGED <<query, buildVars, probe, drained, output, flags, counters, wakers>>
      /\ UNCHANGED <<joinType, matched, out, emitted>>
  BY Zenon DEF ScanEnd, query, output
<1> DEFINE r0 == RightRow(p)
<1>2. matched' \subseteq LeftRows
  BY Zenon, <1>1 DEF IInv, TypeInv, TypeOK
<1>3. /\ TypeInv' /\ FreshInv' /\ PhaseInv' /\ CountInv' /\ BuildInv'
      /\ LeftRows' = LeftRows /\ RightRows' = RightRows /\ Pairs' = Pairs
      /\ Unmet' = Unmet /\ (\A k, r : Matches(k, r)' <=> Matches(k, r))
      /\ ShownDrained' = {}
      /\ \A q \in Partitions \ needsProbe' : q \in rightMatched' /\ HasInput(q)'
  BY Zenon, <1>1, <1>2, EndKeeps
<1>4. ASSUME NEW k \in LeftRows, NEW r \in RightRows, Matches(k, r)
      PROVE  Shown(k, r)' <=> Shown(k, r)
  <2>1. (Shown(k, r)' <=> Shown(k, r) \/ r = r0) /\ (Shown(k, r0) <=> k \notin Chain(p))
    BY Zenon, <1>1, EndShows
  <2>2. r = r0 => k \notin Chain(p)
    BY Zenon, <1>1, <1>4 DEF Found
  <2> HIDE DEF r0
  <2> QED
    BY Zenon, <2>1, <2>2
<1>5. ScanInv'
  <2>1. ~MarksOnly' /\ (NeedsMatchColumn' <=> NeedsMatchColumn)
    BY Zenon, <1>1 DEF MarksOnly, NeedsMatchColumn
  <2>2. ASSUME NeedsMatchColumn
        PROVE  matched' = {k \in LeftRows : \E r \in RightRows : Matches(k, r) /\ Shown(k, r)'}
    <3>1. matched = {k \in LeftRows : \E r \in RightRows : Matches(k, r) /\ Shown(k, r)}
      BY Zenon, <2>2 DEF IInv, ScanInv
    <3> QED
      BY Zenon, <1>1, <1>4, <3>1
  <2> QED
    BY Zenon, <1>3, <2>1, <2>2 DEF ScanInv
<1>6. OutInv'
  <2>1. ShownPairs' = ShownPairs
    <3>1. \A x \in Pairs : Shown(x[1], x[2])' <=> Shown(x[1], x[2])
      BY <1>1, <1>4, AtRightRow
    <3> QED
      BY Zenon, <1>3, <3>1 DEF ShownPairs
  <2>2. joinType = "right" => ShownNulls' = ShownNulls
    <3> SUFFICES ASSUME joinType = "right" PROVE ShownNulls' = ShownNulls
      BY Zenon
    <3>1. p \notin needsProbe
      BY Zenon, <1>1 DEF Unmatched, RightMatched
    <3>2. ASSUME NEW s \in RightRows
          PROVE  (Done(s) \/ Current(s))' <=> Done(s) \/ Current(s)
      <4>1. /\ s[1] \in Partitions /\ s[2] \in Nat /\ rhs \in [Partitions -> Nat]
            /\ rhs' = [rhs EXCEPT ![p] = @ + 1] /\ needsProbe' = needsProbe \cup {p}
        BY Zenon, <1>1, RowTypes DEF IInv, TypeInv, NeedsMore
      <4>2. rhs'[s[1]] = (IF s[1] = p THEN rhs[p] + 1 ELSE rhs[s[1]]) /\ rhs[s[1]] \in Nat
        BY Zenon, <4>1
      <4>3. s[1] \in needsProbe' <=> s[1] \in needsProbe \/ s[1] = p
        BY Zenon, <4>1
      <4>4. CASE s[1] = p
        <5>1. (Done(s) \/ Current(s))' <=> s[2] <= rhs[p] + 1
          BY Zenon, <4>2, <4>3, <4>4 DEF Done, Current
        <5>2. Done(s) \/ Current(s) <=> s[2] <= rhs[p] \/ s[2] = rhs[p] + 1
          BY Zenon, <3>1, <4>4 DEF Done, Current
        <5> QED
          BY Zenon, <4>1, <4>2, <4>4, <5>1, <5>2, NextPlace
      <4>5. CASE s[1] # p
        BY Zenon, <4>2, <4>3, <4>5 DEF Done, Current
      <4> QED
        BY Zenon, <4>4, <4>5
    <3>3. Unmet \subseteq RightRows
      BY DEF Unmet
    <3> QED
      BY Zenon, <1>3, <3>2, <3>3 DEF ShownNulls
  <2>3. Returned' = Returned
    BY ZenonT(40), <1>1, <1>3, <2>1, <2>2, AtRightRow DEF Returned
  <2> QED
    BY Zenon, <1>1, <2>3 DEF IInv, OutInv
<1> QED
  BY Zenon, <1>3, <1>5, <1>6 DEF IInv

LEMMA ScanMarkIInv ==
    ASSUME IInv, NEW p \in Partitions, ScanMark(p)
    PROVE  IInv'
<1>1. /\ Probes(p) /\ MarksOnly /\ NeedsMore(p) /\ matched' = matched \cup Found(p)
      /\ UNCHANGED <<query, buildVars, probe, drained, output, flags, counters, wakers>>
      /\ UNCHANGED <<joinType, out, emitted>>
  BY DEF ScanMark, query, output
<1> DEFINE r0 == RightRow(p)
<1>2. matched' \subseteq LeftRows /\ r0 \in RightRows
  BY ZenonT(40), <1>1, AtRightRow DEF IInv, TypeInv, TypeOK
<1>3. /\ TypeInv' /\ FreshInv' /\ PhaseInv' /\ CountInv' /\ BuildInv'
      /\ LeftRows' = LeftRows /\ RightRows' = RightRows
      /\ (\A k, r : Matches(k, r)' <=> Matches(k, r)) /\ ShownDrained' = {}
      /\ \A q \in Partitions \ needsProbe' : q \in rightMatched' /\ HasInput(q)'
  BY Zenon, <1>1, <1>2, EndKeeps
<1>4. NeedsMatchColumn /\ (NeedsMatchColumn' <=> NeedsMatchColumn)
      /\ joinType \in {"semi", "mark"}
  BY Zenon, <1>1 DEF MarksOnly, NeedsMatchColumn
<1>5. ScanInv'
  <2>1. needsProbe' = Partitions
    BY Zenon, <1>1 DEF IInv, ScanInv, NeedsMore
  <2>2. matched = {k \in LeftRows : \E r \in RightRows : Matches(k, r) /\ Shown(k, r)}
    BY Zenon, <1>4 DEF IInv, ScanInv
  <2>3. ASSUME NEW k \in LeftRows
        PROVE  k \in matched' <=> \E r \in RightRows : Matches(k, r) /\ Shown(k, r)'
    <3>1. \A r \in RightRows : Shown(k, r)' <=> Shown(k, r) \/ r = r0
      BY Zenon, <1>1, EndShows
    <3>2. Shown(k, r0) <=> k \notin Chain(p)
      BY Zenon, <1>1, <1>2, EndShows
    <3>3. k \in Found(p) <=> k \in Chain(p) /\ Matches(k, r0)
      BY DEF Found
    <3> HIDE DEF r0
    <3> QED
      BY Zenon, <1>1, <1>2, <2>2, <3>1, <3>2, <3>3
  <2>4. matched' = {k \in LeftRows : \E r \in RightRows : Matches(k, r) /\ Shown(k, r)'}
    BY <1>2, <2>3
  <2> QED
    BY Zenon, <1>3, <2>1, <2>4 DEF ScanInv
<1>6. OutInv'
  BY Zenon, <1>1, <1>3, <1>4, AtRightRow DEF IInv, OutInv, Returned
<1> QED
  BY Zenon, <1>3, <1>5, <1>6 DEF IInv

LEMMA FinalizeExecuteIInv ==
    ASSUME IInv, NEW p \in Partitions, FinalizeExecute(p)
    PROVE  IInv'
<1> USE DEF IInv
<1>1. /\ probe[p] = "probing" /\ ~HasInput(p)
      /\ UNCHANGED <<joinType, left, right, build, collected, builders, blocks, table, rhs,
                     needsProbe, chain, rightMatched, matched, drained, out, emitted,
                     insertsReady, scanReady, inserters, pendingInserters, pendingProbers>>
  BY DEF FinalizeExecute, ProbeRuns, query, buildVars, scanVars, output
<1>2. CountInv' /\ BuildInv'
  BY Zenon, ProbeKeepsBuild DEF Probe
<1>3. LeftRows' = LeftRows /\ RightRows' = RightRows /\ (NeedsDrain' <=> NeedsDrain)
      /\ \A q : HasInput(q)' <=> HasInput(q)
  BY Zenon, <1>1 DEF LeftRows, RightRows, NeedsDrain, HasInput
<1>4. FreshInv' /\ ScanInv'
  BY ZenonT(40), <1>1, <1>3 DEF FreshInv, ScanInv, MarksOnly, NeedsMatchColumn, Matches, Shown, Done,
     Current
<1>5. OutInv'
  BY ZenonT(40), <1>1, <1>3 DEF OutInv, Returned, ShownPairs, Pairs, ShownNulls, Unmet, ShownDrained,
     BlocksDrained, Drains, Drained, Matches, Shown, Done, Current
<1>6. /\ ~drainReady
      /\ \A q \in Partitions : drained[q] = {} /\ ~(NeedsDrain /\ probe[q] = "done")
  BY Zenon, <1>1, NoDrainYet
<1>7. TypeInv' /\ PhaseInv'
  <2>1. CASE NeedsDrain
    <3>1. /\ probe' = [probe EXCEPT ![p] = "draining"] /\ probers' = probers - 1
          /\ IF probers - 1 = 0 THEN drainReady' = TRUE /\ pendingDrainers' = {}
             ELSE UNCHANGED <<drainReady, pendingDrainers>>
      BY Zenon, <2>1 DEF FinalizeExecute, AllProbed
    <3>2. p \in Probing /\ Probing' = Probing \ {p} /\ Probing \in SUBSET Partitions
      BY <1>1, <3>1 DEF Probing, TypeInv, TypeOK
    <3>3. /\ probers \in 1 .. NumPartitions /\ probers' = Cardinality(Probing')
          /\ probers = 1 => Probing' = {}
      BY ZenonT(40), <2>1, <3>1, <3>2, CountWithout DEF PhaseInv
    <3>4. probers' \in 0 .. NumPartitions /\ (drainReady' => Probing' = {})
      <4>1. probers - 1 \in 0 .. NumPartitions /\ (probers - 1 = 0 <=> probers = 1)
        BY Zenon, <3>3, NumPartitionsNat, CountDown
      <4>2. probers' \in 0 .. NumPartitions
        BY Zenon, <3>1, <4>1
      <4>3. drainReady' => probers = 1
        BY Zenon, <1>6, <3>1, <4>1
      <4> QED
        BY <3>3, <4>2, <4>3
    <3>5. TypeInv'
      BY ZenonT(40), <1>1, <1>3, <3>1, <3>4 DEF TypeInv, TypeOK
    <3>6. \A q \in Partitions : probe'[q] = IF q = p THEN "draining" ELSE probe[q]
      BY Zenon, <3>1 DEF TypeInv, TypeOK
    <3>7. pendingDrainers' # {} => ~MayDrain'
      BY Zenon, <1>6, <3>1 DEF MayDrain
    <3> QED
      BY ZenonT(40), <1>1, <1>3, <1>6, <2>1, <3>3, <3>4, <3>5, <3>6, <3>7 DEF PhaseInv, OwnBlocks
  <2>2. CASE ~NeedsDrain
    <3>1. /\ probe' = [probe EXCEPT ![p] = "done"]
          /\ UNCHANGED <<probers, drainReady, pendingDrainers>>
      BY Zenon, <2>2 DEF FinalizeExecute
    <3>2. \A q \in Partitions : probe'[q] = IF q = p THEN "done" ELSE probe[q]
      BY <3>1 DEF TypeInv, TypeOK
    <3>3. TypeInv'
      BY ZenonT(40), <1>1, <1>3, <3>1 DEF TypeInv, TypeOK
    <3>4. \A q \in Partitions :
             /\ probe'[q] # "draining"
             /\ probe'[q] # "probing" => ~HasInput(q)'
      BY ZenonT(40), <1>1, <1>3, <2>2, <3>2 DEF PhaseInv
    <3>5. ~drainReady' /\ ~NeedsDrain' /\ \A q \in Partitions : drained'[q] = {}
      BY Zenon, <1>1, <1>3, <1>6, <2>2, <3>1
    <3>6. pendingProbers' # {} => ~scanReady'
      BY Zenon, <1>1 DEF PhaseInv
    <3> QED
      BY Zenon, <3>3, <3>4, <3>5, <3>6 DEF PhaseInv, MayDrain
  <2> QED
    BY <2>1, <2>2
<1> QED
  BY Zenon, <1>2, <1>4, <1>5, <1>7

(* The row of a block that is yet to be drained is not among the rows the  *)
(* join has returned.                                                      *)
LEMMA LeftIsNew ==
    ASSUME IInv, NEW p \in Partitions, NeedsDrain, scanReady, NEW i \in Left(p)
    PROVE  /\ Drained(blocks[i]) \notin out
           /\ i \in DOMAIN blocks /\ i \in OwnBlocks(p) /\ i \notin drained[p]
           /\ Drains(blocks[i])
<1>1. i \in DOMAIN blocks /\ i \in OwnBlocks(p) /\ i \notin drained[p] /\ Drains(blocks[i])
  BY Zenon DEF Left, OwnBlocks
<1>2. \A j \in BlocksDrained : blocks[j] # blocks[i]
  <2> SUFFICES ASSUME NEW j \in BlocksDrained, blocks[j] = blocks[i] PROVE FALSE
    BY Zenon
  <2>1. PICK q \in Partitions : j \in drained[q] /\ j \in DOMAIN blocks
    BY Zenon DEF BlocksDrained
  <2>2. j = i
    BY <1>1, <2>1, TableComplete DEF BlocksComplete
  <2>3. q = p
    BY ZenonT(40), <1>1, <2>1, <2>2, BlockOwner DEF IInv, PhaseInv
  <2> QED
    BY Zenon, <1>1, <2>1, <2>2, <2>3
<1>3. Drained(blocks[i]) \notin ShownDrained
  BY Zenon, <1>2 DEF ShownDrained, Drained
<1>4. joinType = "left" => Drained(blocks[i]) \notin ShownPairs
  <2> SUFFICES ASSUME joinType = "left", Drained(blocks[i]) \in ShownPairs PROVE FALSE
    BY Zenon
  <2>1. PICK x \in Pairs : Shown(x[1], x[2]) /\ x = <<blocks[i], Null>>
    BY Zenon DEF ShownPairs, Drained
  <2>2. /\ x[1] = blocks[i] /\ x[1] \in LeftRows /\ x[2] \in RightRows
        /\ Matches(x[1], x[2])
    BY Zenon, <2>1 DEF Pairs
  <2>3. blocks[i] \in matched
    BY <2>1, <2>2 DEF IInv, ScanInv, NeedsMatchColumn
  <2> QED
    BY Zenon, <1>1, <2>3 DEF Drains
<1>5. joinType \in {"left", "semi", "mark"}
  BY Zenon DEF NeedsDrain
<1> QED
  BY Zenon, <1>1, <1>3, <1>4, <1>5 DEF IInv, OutInv, Returned

LEMMA DrainNextIInv ==
    ASSUME IInv, NEW p \in Partitions, DrainNext(p)
    PROVE  IInv'
<1> USE DEF IInv
<1>1. /\ probe[p] = "draining" /\ MayDrain /\ scanReady
      /\ UNCHANGED <<joinType, left, right, build, collected, builders, blocks, table, rhs,
                     needsProbe, chain, rightMatched, matched, insertsReady, scanReady,
                     drainReady, inserters, probers, pendingInserters, pendingProbers,
                     pendingDrainers>>
  BY DEF DrainNext, ProbeRuns, MayDrain, query, buildVars, scanVars, flags, counters, wakers
<1>2. NeedsDrain /\ joinType \in {"left", "semi", "mark"}
  BY Zenon, <1>1 DEF PhaseInv, NeedsDrain
<1>3. CountInv' /\ BuildInv'
  BY ProbeKeepsBuild DEF Probe
<1>4. /\ LeftRows' = LeftRows /\ RightRows' = RightRows /\ (NeedsDrain' <=> NeedsDrain)
      /\ (\A q : HasInput(q)' <=> HasInput(q)) /\ (\A q : OwnBlocks(q)' = OwnBlocks(q))
      /\ (\A l : Drains(l)' <=> Drains(l)) /\ (\A l : Drained(l)' = Drained(l))
      /\ MayDrain'
  BY <1>1 DEF LeftRows, RightRows, NeedsDrain, HasInput, OwnBlocks, Drains, Drained, MayDrain
<1>5. FreshInv' /\ ScanInv'
  BY ZenonT(40), <1>1, <1>4 DEF FreshInv, ScanInv, MarksOnly, NeedsMatchColumn, Matches, Shown, Done,
     Current
<1>6. ShownPairs' = ShownPairs
  BY Zenon, <1>1, <1>4 DEF ShownPairs, Pairs, Matches, Shown, Done, Current
<1>7. ASSUME NEW i \in Left(p), \A j \in Left(p) : i <= j, Emit(Drained(blocks[i])),
             drained' = [drained EXCEPT ![p] = @ \cup {j \in OwnBlocks(p) : j <= i}],
             UNCHANGED probe
      PROVE  TypeInv' /\ PhaseInv' /\ OutInv'
  <2>1. /\ Drained(blocks[i]) \notin out /\ i \in DOMAIN blocks /\ i \in OwnBlocks(p)
        /\ i \notin drained[p] /\ Drains(blocks[i])
    BY ZenonT(40), <1>1, <1>2, LeftIsNew
  <2>2. /\ out' = out \cup {Drained(blocks[i])} /\ IsFiniteSet(out')
        /\ Cardinality(out') = emitted' /\ emitted' \in Nat
    BY Zenon, <1>7, <2>1, EmitNew
  <2>3. /\ drained'[p] = drained[p] \cup {j \in OwnBlocks(p) : j <= i}
        /\ \A q \in Partitions \ {p} : drained'[q] = drained[q]
        /\ drained \in [Partitions -> SUBSET DOMAIN blocks]
    BY Zenon, <1>7 DEF TypeInv, TypeOK
  <2>4. drained' \in [Partitions -> SUBSET DOMAIN blocks]
    BY <1>7, <2>3 DEF OwnBlocks
  <2>5. TypeInv'
    BY ZenonT(40), <1>1, <1>4, <1>7, <2>2, <2>4 DEF TypeInv, TypeOK
  <2>6. PhaseInv'
    <3>1. \A q \in Partitions : probe'[q] = "done" => Left(q)' = {}
      BY ZenonT(40), <1>1, <1>2, <1>4, <1>7, <2>3 DEF PhaseInv, Left
    <3>2. \A q \in Partitions : drained'[q] \subseteq OwnBlocks(q)
      BY Zenon, <2>3 DEF PhaseInv
    <3>3. Probing' = Probing
      BY <1>7 DEF Probing
    <3> QED
      BY ZenonT(40), <1>1, <1>2, <1>4, <1>7, <3>1, <3>2, <3>3 DEF PhaseInv
  <2>7. BlocksDrained' = BlocksDrained \cup {i}
    <3>1. \A j \in DOMAIN blocks : j \in Nat
      <4>1. blocks \in Seq(LeftRows)
        BY Zenon DEF TypeInv, TypeOK
      <4> QED
        BY Zenon, <4>1, ElementPlaces
    <3>2. ASSUME NEW j \in OwnBlocks(p), j <= i, Drains(blocks[j]), j \notin drained[p]
          PROVE  j = i
      <4>1. j \in Left(p) /\ j \in DOMAIN blocks
        BY SMTT(40), <3>2 DEF Left, OwnBlocks
      <4> QED
        BY Zenon, <1>7, <2>1, <3>1, <3>2, <4>1, OrderedPlaces
    <3>3. i \in drained'[p]
      <4>1. i \in OwnBlocks(p) /\ i <= i
        BY <2>1, <3>1
      <4> QED
        BY Zenon, <2>3, <4>1
    <3>4. ASSUME NEW j \in DOMAIN blocks, Drains(blocks[j])
          PROVE  (\E q \in Partitions : j \in drained'[q])
                   <=> j = i \/ \E q \in Partitions : j \in drained[q]
      BY ZenonT(40), <2>3, <3>2, <3>3, <3>4
    <3> QED
      BY ZenonT(40), <1>1, <1>4, <2>1, <3>4 DEF BlocksDrained
  <2>8. ShownDrained' = ShownDrained \cup {Drained(blocks[i])}
    BY <1>1, <1>4, <2>7 DEF ShownDrained
  <2>9. Returned' = Returned \cup {Drained(blocks[i])}
    BY Zenon, <1>1, <1>2, <1>6, <2>8 DEF Returned
  <2>10. OutInv'
    BY Zenon, <2>2, <2>9 DEF OutInv
  <2> QED
    BY <2>5, <2>6, <2>10
<1>8. ASSUME Left(p) = {}, probe' = [probe EXCEPT ![p] = "done"], UNCHANGED <<drained, output>>
      PROVE  TypeInv' /\ PhaseInv' /\ OutInv'
  <2>1. UNCHANGED <<drained, out, emitted>>
    BY Zenon, <1>8 DEF output
  <2>2. \A q \in Partitions : probe'[q] = IF q = p THEN "done" ELSE probe[q]
    BY <1>8 DEF TypeInv, TypeOK
  <2>3. TypeInv'
    BY ZenonT(40), <1>1, <1>4, <1>8, <2>1 DEF TypeInv, TypeOK
  <2>4. PhaseInv'
    <3>1. Probing' = Probing
      BY ZenonT(40), <1>1, <2>2 DEF Probing
    <3>2. \A q \in Partitions : Left(q)' = Left(q)
      BY ZenonT(40), <1>1, <1>4, <2>1 DEF Left
    <3>3. \A q \in Partitions : probe'[q] = "done" => Left(q)' = {}
      BY ZenonT(40), <1>2, <1>8, <2>2, <3>2 DEF PhaseInv
    <3>4. \A q \in Partitions : probe'[q] # "probing" => ~HasInput(q)'
      BY Zenon, <1>1, <1>4, <2>2 DEF PhaseInv
    <3> QED
      BY ZenonT(40), <1>1, <1>2, <1>4, <2>1, <3>1, <3>3, <3>4 DEF PhaseInv
  <2>5. OutInv'
    <3>1. ShownDrained' = ShownDrained
      BY ZenonT(40), <1>1, <1>4, <2>1 DEF ShownDrained, BlocksDrained
    <3> QED
      BY Zenon, <1>1, <1>2, <1>6, <2>1, <3>1 DEF OutInv, Returned
  <2> QED
    BY Zenon, <2>3, <2>4, <2>5
<1>9. TypeInv' /\ PhaseInv' /\ OutInv'
  BY Zenon, <1>7, <1>8 DEF DrainNext
<1> QED
  BY Zenon, <1>3, <1>5, <1>9

-----------------------------------------------------------------------------
LEMMA ProbeIInv ==
    ASSUME IInv, NEW p \in Partitions, Probe(p)
    PROVE  IInv'
  BY Zenon, PendingIInv, ScanMatchIInv, ScanUnmatchedIInv, ScanEndIInv, ScanMarkIInv,
     FinalizeExecuteIInv, DrainNextIInv DEF Probe

LEMMA StutterIInv ==
    ASSUME IInv, UNCHANGED vars
    PROVE  IInv'
<1> USE DEF IInv
<1>1. UNCHANGED <<joinType, left, right, build, collected, builders, blocks, table, probe, rhs,
                  needsProbe, chain, rightMatched, matched, drained, out, emitted,
                  insertsReady, scanReady, drainReady, inserters, probers, pendingInserters,
                  pendingProbers, pendingDrainers>>
  BY Zenon DEF vars, query, buildVars, scanVars, output, flags, counters, wakers
<1>2. /\ LeftRows' = LeftRows /\ RightRows' = RightRows
      /\ \A S : In(S)' = In(S)
  BY Zenon, <1>1 DEF LeftRows, RightRows, In
<1>3. TypeInv'
  BY Zenon, <1>1, <1>2 DEF TypeInv, TypeOK
<1>4. CountInv' /\ BuildInv'
  BY ZenonT(40), <1>1, <1>2 DEF CountInv, BuildInv, Leaders, BlocksComplete, OwnBlocks
<1>5. FreshInv' /\ ScanInv'
  BY Zenon, <1>1, <1>2 DEF FreshInv, ScanInv, HasInput, MarksOnly, NeedsMatchColumn, Matches, Shown,
     Done, Current
<1>6. PhaseInv'
  BY <1>1 DEF PhaseInv, HasInput, NeedsDrain, Probing, MayDrain, Left, OwnBlocks, Drains
<1>7. OutInv'
  BY Zenon, <1>1, <1>2 DEF OutInv, Returned, ShownPairs, Pairs, ShownNulls, Unmet, ShownDrained,
     BlocksDrained, Drains, Drained, Matches, Shown, Done, Current
<1> QED
  BY Zenon, <1>3, <1>4, <1>5, <1>6, <1>7

(* The inductive invariant of the join: the counters of the barriers count *)
(* the partitions that are yet to come, and what the join has returned is  *)
(* exactly what its probers and drainers have been through.                *)
THEOREM Invariance == Spec => []IInv
<1>1. IInv /\ [Next]_vars => IInv'
  BY BuildIInv, ProbeIInv, StutterIInv DEF Next
<1> QED
  BY <1>1, InitIInv, PTL DEF Spec

(* Every variable of the join keeps its type; above all the counters of    *)
(* the barriers (remaining, remaining_hash_inserters, remaining_probers)   *)
(* never pass zero, for any number of partitions.                          *)
THEOREM TypeCorrect == Spec => []TypeOK
<1>1. IInv => TypeOK
  BY DEF IInv, TypeInv
<1> QED
  BY <1>1, Invariance, PTL

LEMMA NoInputLeft ==
    ASSUME IInv, \A p \in Partitions : ~HasInput(p)
    PROVE  /\ \A p \in Partitions : rhs[p] = Len(right[p])
           /\ \A r \in RightRows : Done(r)
           /\ NeedsMatchColumn => matched = {l \in LeftRows : Met(l)}
<1>1. ASSUME NEW p \in Partitions PROVE rhs[p] = Len(right[p]) /\ Len(right[p]) \in Nat
  <2>1. Len(right[p]) \in Nat /\ rhs[p] \in 0 .. Len(right[p])
    BY Zenon, RowTypes DEF IInv, TypeInv, TypeOK
  <2> QED
    BY Zenon, <2>1, CountUp DEF HasInput
<1>2. \A r \in RightRows : Done(r)
  BY <1>1, RowTypes DEF IInv, Done
<1> QED
  BY ZenonT(40), <1>1, <1>2 DEF IInv, ScanInv, Shown, Met

LEMMA DrainMeansProbed ==
    ASSUME IInv, drainReady
    PROVE  \A p \in Partitions : ~HasInput(p)
  BY Zenon DEF IInv, PhaseInv, Probing

(* The barriers of the join: the directory is probed only when every left  *)
(* row is in it, written only when the collections are merged, drained     *)
(* only when every right row has been probed; and no task sleeps on a      *)
(* barrier that is open (wake_all, SharedState).                           *)
THEOREM Barriers == Spec => []BarriersHold
<1>1. IInv => BarriersHold
  <2> SUFFICES ASSUME IInv PROVE BarriersHold
    OBVIOUS
  <2>1. scanReady => table = LeftRows
    BY TableComplete
  <2>2. (\E p \in Partitions : build[p] \in {"inserting", "inserted", "finalized"})
           => {blocks[i] : i \in DOMAIN blocks} = LeftRows
    BY Zenon DEF IInv, BuildInv, In, BlocksComplete
  <2>3. drainReady => \A p \in Partitions : rhs[p] = Len(right[p])
    BY DrainMeansProbed, NoInputLeft
  <2>4. NoStrandedTask
    BY Zenon DEF NoStrandedTask, IInv, BuildInv, PhaseInv, MayDrain
  <2> QED
    BY Zenon, <2>1, <2>2, <2>3, <2>4 DEF BarriersHold, TableIsComplete
<1> QED
  BY <1>1, Invariance, PTL

(* The mark of a row is the truth value of having met one.                 *)
LEMMA MarkIsMet ==
    ASSUME NEW l, l \in matched <=> Met(l)
    PROVE  (l \in matched) = Met(l)
<1>1. CASE l \in matched
  <2>1. (l \in matched) = TRUE
    BY <1>1
  <2>2. Met(l) = TRUE
    BY <1>1 DEF Met
  <2> QED
    BY Zenon, <2>1, <2>2
<1>2. CASE l \notin matched
  <2>1. (l \in matched) = FALSE
    BY <1>2
  <2>2. Met(l) = FALSE
    BY <1>2 DEF Met
  <2> QED
    BY Zenon, <2>1, <2>2
<1> QED
  BY <1>1, <1>2

(* What the join has returned belongs to the answer.                       *)
LEMMA ReturnedIsAnswer ==
    ASSUME IInv
    PROVE  out \subseteq Answer
<1>1. out = Returned /\ joinType \in {"inner", "left", "right", "semi", "mark"}
  BY JoinAssumption DEF IInv, OutInv, TypeInv
<1>2. ShownPairs \subseteq Pairs
  BY Zenon DEF ShownPairs
<1>3. ASSUME NEW i \in BlocksDrained
      PROVE  /\ blocks[i] \in LeftRows /\ Drains(blocks[i])
             /\ matched = {l \in LeftRows : Met(l)}
  <2>1. PICK p \in Partitions : i \in drained[p] /\ i \in DOMAIN blocks /\ Drains(blocks[i])
    BY DEF BlocksDrained
  <2>2. MayDrain /\ NeedsDrain
    BY Zenon, <2>1 DEF IInv, PhaseInv
  <2>3. matched = {l \in LeftRows : Met(l)}
    BY ZenonT(40), <2>2, DrainMeansProbed, NoInputLeft DEF MayDrain, NeedsDrain, NeedsMatchColumn
  <2>4. blocks[i] \in LeftRows
    BY <2>1 DEF IInv, TypeInv, TypeOK
  <2> QED
    BY Zenon, <2>1, <2>3, <2>4
<1>4. CASE joinType = "inner"
  BY <1>1, <1>2, <1>4 DEF Returned, Answer
<1>5. CASE joinType = "left"
  <2>1. ShownDrained \subseteq {<<l, Null>> : l \in {k \in LeftRows : ~Met(k)}}
    BY <1>3, <1>5 DEF ShownDrained, Drained, Drains
  <2> QED
    BY <1>1, <1>2, <1>5, <2>1 DEF Returned, Answer
<1>6. CASE joinType = "right"
  <2>1. ShownNulls \subseteq {<<Null, r>> : r \in Unmet}
    BY DEF ShownNulls
  <2> QED
    BY Zenon, <1>1, <1>2, <1>6, <2>1 DEF Returned, Answer, Unmet
<1>7. CASE joinType = "semi"
  <2>1. ShownDrained \subseteq {<<l, Null>> : l \in {k \in LeftRows : Met(k)}}
    BY <1>3, <1>7 DEF ShownDrained, Drained, Drains
  <2> QED
    BY <1>1, <1>7, <2>1 DEF Returned, Answer
<1>8. CASE joinType = "mark"
  <2>1. ShownDrained \subseteq {<<l, Met(l)>> : l \in LeftRows}
    <3>1. ASSUME NEW i \in BlocksDrained
          PROVE  Drained(blocks[i]) = <<blocks[i], Met(blocks[i])>> /\ blocks[i] \in LeftRows
      <4>1. Drained(blocks[i]) = <<blocks[i], blocks[i] \in matched>>
        BY <1>8 DEF Drained
      <4>2. (blocks[i] \in matched) = Met(blocks[i])
        BY <1>3, MarkIsMet
      <4> QED
        BY <1>3, <4>1, <4>2
    <3> QED
      BY Zenon, <3>1 DEF ShownDrained
  <2> QED
    BY <1>1, <1>8, <2>1 DEF Returned, Answer
<1> QED
  BY Zenon, <1>1, <1>4, <1>5, <1>6, <1>7, <1>8

(* When every prober is done, nothing of the answer is missing.            *)
LEMMA DoneIsComplete ==
    ASSUME IInv, \A p \in Partitions : probe[p] = "done"
    PROVE  Answer \subseteq out
<1>1. out = Returned /\ joinType \in {"inner", "left", "right", "semi", "mark"}
  BY JoinAssumption DEF IInv, OutInv, TypeInv
<1>2. \A p \in Partitions : ~HasInput(p)
  BY ZenonT(40) DEF IInv, PhaseInv
<1>3. /\ \A r \in RightRows : Done(r)
      /\ NeedsMatchColumn => matched = {l \in LeftRows : Met(l)}
  BY Zenon, <1>2, NoInputLeft
<1>4. Pairs \subseteq ShownPairs
  <2>1. \A x \in Pairs : x[2] \in RightRows
    BY DEF Pairs
  <2> QED
    BY <1>3, <2>1 DEF ShownPairs, Shown
<1>5. ASSUME NeedsDrain, NEW l \in LeftRows, Drains(l) PROVE Drained(l) \in ShownDrained
  <2>1. 0 \in Partitions
    BY Zenon, NumPartitionsNat
  <2>2. scanReady /\ \A q \in Partitions : Left(q) = {}
    BY Zenon, <1>5, <2>1 DEF IInv, PhaseInv, MayDrain
  <2>3. PICK i \in DOMAIN blocks : blocks[i] = l
    BY Zenon, <2>2, TableComplete DEF BlocksComplete
  <2>4. PICK q \in Partitions : i \in OwnBlocks(q)
    BY ZenonT(40), BlockOwner DEF IInv
  <2>5. i \in drained[q]
    BY <1>5, <2>2, <2>3, <2>4 DEF Left
  <2> QED
    BY Zenon, <1>5, <2>3, <2>5 DEF ShownDrained, BlocksDrained
<1>6. CASE joinType = "inner"
  BY <1>1, <1>4, <1>6 DEF Returned, Answer
<1>7. CASE joinType = "left"
  <2>1. \A l \in {k \in LeftRows : ~Met(k)} : <<l, Null>> \in ShownDrained
    BY <1>3, <1>5, <1>7 DEF Drained, Drains, NeedsDrain, NeedsMatchColumn
  <2> QED
    BY <1>1, <1>4, <1>7, <2>1 DEF Returned, Answer
<1>8. CASE joinType = "right"
  <2>1. {<<Null, r>> : r \in Unmet} \subseteq ShownNulls
    BY <1>3 DEF ShownNulls, Unmet
  <2> QED
    BY Zenon, <1>1, <1>4, <1>8, <2>1 DEF Returned, Answer, Unmet
<1>9. CASE joinType = "semi"
  <2>1. \A l \in {k \in LeftRows : Met(k)} : <<l, Null>> \in ShownDrained
    BY <1>3, <1>5, <1>9 DEF Drained, Drains, NeedsDrain, NeedsMatchColumn
  <2> QED
    BY <1>1, <1>9, <2>1 DEF Returned, Answer
<1>10. CASE joinType = "mark"
  <2>1. ASSUME NEW l \in LeftRows PROVE <<l, Met(l)>> \in ShownDrained
    <3>1. Drained(l) = <<l, l \in matched>> /\ Drains(l) /\ NeedsDrain /\ NeedsMatchColumn
      BY Zenon, <1>10 DEF Drained, Drains, NeedsDrain, NeedsMatchColumn
    <3>2. (l \in matched) = Met(l)
      BY Zenon, <1>3, <3>1, MarkIsMet
    <3> QED
      BY <1>5, <3>1, <3>2
  <2> QED
    BY Zenon, <1>1, <1>10, <2>1 DEF Returned, Answer
<1> QED
  BY Zenon, <1>1, <1>6, <1>7, <1>8, <1>9, <1>10

(* The hash join answers the query: for every join type, any number of     *)
(* partitions and any rows it returns only rows of the SQL join, each of   *)
(* them once, and all of them when poll_execute says Exhausted everywhere. *)
THEOREM Answers == Spec => []JoinAnswers
<1>1. IInv => JoinAnswers
  BY ReturnedIsAnswer, DoneIsComplete DEF JoinAnswers, IInv, OutInv
<1> QED
  BY <1>1, Invariance, PTL
-----------------------------------------------------------------------------
(***************************************************************************)
(* The join under a LIMIT.  Its steps are steps of the join, so all of the *)
(* above holds of it; and every row the join has returned is one the query *)
(* returned, or one at the limit, or the one with which a partition was    *)
(* stopped.                                                                *)
(***************************************************************************)
LimitInv ==
    /\ held \subseteq Partitions /\ abandoned \subseteq Partitions
    /\ held \cap abandoned = {}
    /\ remaining \in Nat /\ returned \in Nat /\ returned + remaining = LimitCount
    /\ emitted = returned + Cardinality(held \cup abandoned)
    /\ abandoned # {} => remaining = 0

(* A poll of the join returns one row or none.                             *)
LEMMA PollEmits ==
    ASSUME NEW p \in Partitions, Probe(p)
    PROVE  emitted' = emitted \/ emitted' = emitted + 1
  BY ZenonT(40) DEF Probe, ProbePending, ScanMatch, ScanUnmatched, ScanEnd, ScanMark,
    FinalizeExecute, DrainPending, DrainNext, Emit, output

LEMMA BuildEmits ==
    ASSUME NEW p \in Partitions, Build(p)
    PROVE  emitted' = emitted
  BY ZenonT(40) DEF Build, Push, FinishBuild, InitDirectory, AnnounceDirectory,
    AwaitDirectory, ProcessHashes, InsertsDone, output

(* The counters of a row that is returned, passed and dropped.             *)
LEMMA CountPassed ==
    /\ \A a, b, c \in Nat : a + b = c /\ b # 0 => b - 1 \in Nat /\ (a + 1) + (b - 1) = c
    /\ \A a, b \in Nat : (a + b) + 1 = a + (b + 1)
    /\ \A a, b \in Nat : b # 0 => a + b = (a + 1) + (b - 1)
  OBVIOUS

LEMMA LimitInitInv == LimitInit => LimitInv
<1> SUFFICES ASSUME LimitInit PROVE LimitInv
  OBVIOUS
<1>1. {} \cup {} = {} /\ Cardinality({}) = 0
  BY FS_EmptySet
<1>2. LimitCount \in Nat /\ 0 + LimitCount = LimitCount
  BY JoinLimitAssumption
<1>3. held = {} /\ abandoned = {} /\ remaining = LimitCount /\ returned = 0 /\ emitted = 0
  BY Zenon DEF LimitInit, Init
<1>4. emitted = returned + Cardinality(held \cup abandoned)
  BY <1>1, <1>3
<1> QED
  BY Zenon, <1>2, <1>3, <1>4, <1>1 DEF LimitInv

LEMMA PollJoinInv ==
    ASSUME LimitInv, NEW p \in Partitions, PollJoin(p)
    PROVE  LimitInv'
<1> DEFINE S == held \cup abandoned
<1>1. UNCHANGED <<abandoned, remaining, returned>> /\ p \notin S /\ Probe(p)
  BY Zenon DEF PollJoin
<1>2. IsFiniteSet(S) /\ Cardinality(S) \in Nat
  BY PartitionsFinite, FS_Subset, FS_CardinalityType DEF LimitInv
<1>3. CASE emitted' = emitted
  BY Zenon, <1>1, <1>3 DEF PollJoin, LimitInv
<1>4. CASE emitted' # emitted
  <2>1. emitted' = emitted + 1 /\ held' = held \cup {p}
    BY Zenon, <1>1, <1>4, PollEmits DEF PollJoin
  <2>2. held' \cup abandoned' = S \cup {p}
    BY Zenon, <1>1, <2>1
  <2>3. Cardinality(S \cup {p}) = Cardinality(S) + 1
    BY Zenon, <1>1, <1>2, FS_AddElement
  <2>4. emitted' = returned' + Cardinality(held' \cup abandoned')
    <3>1. emitted = returned + Cardinality(S) /\ returned \in Nat
      BY Zenon DEF LimitInv
    <3> HIDE DEF S
    <3> QED
      BY <1>1, <1>2, <2>1, <2>2, <2>3, <3>1, CountPassed
  <2>5. held' \subseteq Partitions /\ held' \cap abandoned' = {}
    BY Zenon, <1>1, <2>1 DEF LimitInv
  <2> QED
    BY Zenon, <1>1, <2>4, <2>5 DEF LimitInv
<1> QED
  BY <1>3, <1>4

LEMMA PassRowInv ==
    ASSUME LimitInv, NEW p \in Partitions, PassRow(p)
    PROVE  LimitInv'
<1> DEFINE S == held \cup abandoned
<1>1. IsFiniteSet(S) /\ Cardinality(S) \in Nat
  BY PartitionsFinite, FS_Subset, FS_CardinalityType DEF LimitInv
<1>2. /\ p \in held /\ remaining # 0
      /\ remaining' = remaining - 1 /\ returned' = returned + 1
      /\ held' = held \ {p} /\ abandoned' = abandoned
  BY Zenon DEF PassRow, AtLimit
<1>3. emitted' = emitted
  BY Zenon DEF PassRow, vars, output
<1>4. abandoned = {}
  BY Zenon, <1>2 DEF LimitInv
<1>5. Cardinality(S \ {p}) = Cardinality(S) - 1 /\ Cardinality(S) # 0
  BY Zenon, <1>1, <1>2, FS_RemoveElement, FS_EmptySet
<1>6. held' \cup abandoned' = S \ {p}
  BY Zenon, <1>2, <1>4
<1>7. emitted' = returned' + Cardinality(held' \cup abandoned')
  <2>1. emitted = returned + Cardinality(S) /\ returned \in Nat
    BY Zenon DEF LimitInv
  <2>2. returned + Cardinality(S) = (returned + 1) + (Cardinality(S) - 1)
    BY Zenon, <1>1, <1>5, <2>1, CountPassed
  <2> QED
    BY Zenon, <1>2, <1>3, <1>5, <1>6, <2>1, <2>2
<1>8. remaining' \in Nat /\ returned' \in Nat /\ returned' + remaining' = LimitCount
  BY <1>2, CountPassed, JoinLimitAssumption DEF LimitInv
<1> QED
  BY Zenon, <1>2, <1>4, <1>7, <1>8 DEF LimitInv

LEMMA ExhaustInv ==
    ASSUME LimitInv, NEW p \in Partitions, Exhaust(p)
    PROVE  LimitInv'
<1>1. /\ p \in held /\ remaining = 0
      /\ held' = held \ {p} /\ abandoned' = abandoned \cup {p}
      /\ remaining' = remaining /\ returned' = returned
  BY Zenon DEF Exhaust, AtLimit
<1>2. emitted' = emitted
  BY Zenon DEF Exhaust, vars, output
<1>3. held' \cup abandoned' = held \cup abandoned
  BY Zenon, <1>1
<1>4. /\ held' \subseteq Partitions /\ abandoned' \subseteq Partitions
      /\ held' \cap abandoned' = {}
  BY Zenon, <1>1 DEF LimitInv
<1> QED
  BY Zenon, <1>1, <1>2, <1>3, <1>4 DEF LimitInv

LEMMA LimitNextInv == LimitInv /\ [LimitNext]_<<vars, limitVars>> => LimitInv'
<1> SUFFICES ASSUME LimitInv, [LimitNext]_<<vars, limitVars>> PROVE LimitInv'
  OBVIOUS
<1>1. ASSUME NEW p \in Partitions, Build(p), UNCHANGED limitVars PROVE LimitInv'
  BY Zenon, <1>1, BuildEmits DEF limitVars, LimitInv
<1>2. CASE UNCHANGED <<vars, limitVars>>
  BY Zenon, <1>2 DEF vars, output, limitVars, LimitInv
<1> QED
  BY Zenon, <1>1, <1>2, PollJoinInv, PassRowInv, ExhaustInv DEF LimitNext, ProbePipeline

(* A join under a LIMIT behaves like the join without it, some partitions  *)
(* of which are never polled again: what dropping the instructions of a    *)
(* stack (ExecutionStack::pop_next, Exhausted) leaves behind is a state of *)
(* the join.                                                               *)
THEOREM LimitIsAJoin == LimitSpec => Spec
<1>1. LimitInit => Init
  BY Zenon DEF LimitInit
<1>2. [LimitNext]_<<vars, limitVars>> => [Next]_vars
  BY Zenon DEF LimitNext, ProbePipeline, PollJoin, PassRow, Exhaust, Next
<1> QED
  BY <1>1, <1>2, PTL DEF LimitSpec, Spec

LEMMA RowsFinite ==
    ASSUME NEW input \in [Partitions -> Seq(Keys)]
    PROVE  IsFiniteSet(RowsOf(input))
<1> DEFINE part(q) == {q} \X DOMAIN input[q]
           parts == {part(q) : q \in Partitions}
           f == [q \in Partitions |-> part(q)]
<1>1. f \in Surjection(Partitions, parts)
  BY DEF Surjection
<1>2. IsFiniteSet(parts)
  BY <1>1, PartitionsFinite, FS_Surjection
<1>3. ASSUME NEW q \in Partitions PROVE IsFiniteSet(part(q))
  <2>1. IsFiniteSet({q})
    BY Zenon, FS_Singleton
  <2>2. Len(input[q]) \in Int /\ 1 \in Int /\ DOMAIN input[q] = 1 .. Len(input[q])
    OBVIOUS
  <2>3. IsFiniteSet(1 .. Len(input[q]))
    BY <2>2, FS_Interval
  <2> QED
    BY Zenon, <2>1, <2>2, <2>3, FS_Product
<1>4. IsFiniteSet(UNION parts)
  <2>1. \A T \in parts : IsFiniteSet(T)
    BY <1>3
  <2> HIDE DEF parts
  <2> QED
    BY <1>2, <2>1, FS_UNION
<1> QED
  BY <1>4 DEF RowsOf

LEMMA AnswerFinite ==
    ASSUME IInv
    PROVE  IsFiniteSet(Answer) /\ Cardinality(Answer) \in Nat
<1> DEFINE L == LeftRows \cup {Null}
           R == ((RightRows \cup {Null}) \cup {TRUE}) \cup {FALSE}
<1>1. IsFiniteSet(LeftRows) /\ IsFiniteSet(RightRows)
  BY RowsFinite DEF IInv, TypeInv, LeftRows, RightRows
<1>2. IsFiniteSet(L) /\ IsFiniteSet(R)
  BY Zenon, <1>1, FS_AddElement
<1>3. IsFiniteSet(L \X R)
  BY Zenon, <1>2, FS_Product
<1>4. Pairs \subseteq L \X R
  BY DEF Pairs
<1>5. ASSUME NEW l \in LeftRows PROVE <<l, Null>> \in L \X R /\ <<l, Met(l)>> \in L \X R
  BY DEF Met
<1>6. ASSUME NEW r \in RightRows PROVE <<Null, r>> \in L \X R
  OBVIOUS
<1>7. Answer \subseteq L \X R
  <2> HIDE DEF L, R
  <2>1. joinType \in {"inner", "left", "right", "semi", "mark"}
    BY JoinAssumption DEF IInv, TypeInv
  <2> QED
    BY Zenon, <1>4, <1>5, <1>6, <2>1 DEF Answer
<1> QED
  BY <1>3, <1>7, FS_Subset, FS_CardinalityType

LEMMA LimitArithmetic ==
    /\ \A a, b, e, c \in Nat : e = a + c /\ c # 0 /\ e <= b => ~(b < a)
    /\ \A a, b, l \in Nat : a + b = l => ~(l < a)
    /\ \A a, l \in Nat : ~(l < a) => a = (IF a < l THEN a ELSE l)
  OBVIOUS

(* A query with a LIMIT above a hash join returns as many rows of the join *)
(* as the limit allows, for any number of partitions, rows and limit: the  *)
(* partitions the limit stops early lose no row it would have passed.      *)
THEOREM LimitedAnswers == LimitSpec => []LimitedAnswer
<1>1. ASSUME IInv, JoinAnswers, LimitInv PROVE LimitedAnswer
  <2> SUFFICES ASSUME AllDone
               PROVE  returned = (IF Cardinality(Answer) < LimitCount
                                  THEN Cardinality(Answer) ELSE LimitCount)
    BY Zenon DEF LimitedAnswer
  <2>1. IsFiniteSet(Answer) /\ Cardinality(Answer) \in Nat
    BY <1>1, AnswerFinite
  <2>2. /\ remaining \in Nat /\ returned \in Nat /\ returned + remaining = LimitCount
        /\ emitted = returned + Cardinality(held \cup abandoned) /\ LimitCount \in Nat
    BY Zenon, <1>1, JoinLimitAssumption DEF LimitInv
  <2>3. held \subseteq abandoned
    BY Zenon, <1>1 DEF AllDone, LimitInv
  <2>4. held \cup abandoned = abandoned
    BY Zenon, <2>3
  <2>5. CASE abandoned = {}
    <3>1. Cardinality(held \cup abandoned) = 0
      BY Zenon, <2>4, <2>5, FS_EmptySet
    <3>2. emitted = returned
      BY <2>2, <3>1
    <3>3. out = Answer
      BY Zenon, <1>1, <2>5 DEF AllDone, JoinAnswers
    <3>4. Cardinality(Answer) = returned
      BY Zenon, <1>1, <3>2, <3>3 DEF JoinAnswers
    <3> QED
      BY <2>2, <3>4, LimitArithmetic
  <2>6. CASE abandoned # {}
    <3>1. IsFiniteSet(abandoned)
      BY <1>1, PartitionsFinite, FS_Subset DEF LimitInv
    <3>2. Cardinality(abandoned) \in Nat /\ Cardinality(abandoned) # 0
      BY Zenon, <2>6, <3>1, FS_EmptySet, FS_CardinalityType
    <3>3. returned = LimitCount
      <4>1. remaining = 0
        BY Zenon, <1>1, <2>6 DEF LimitInv
      <4> QED
        BY <2>2, <4>1
    <3>4. Cardinality(out) = emitted /\ out \in SUBSET Answer
      BY Zenon, <1>1 DEF JoinAnswers
    <3>5. emitted <= Cardinality(Answer)
      BY Zenon, <2>1, <3>4, FS_Subset
    <3>6. emitted = returned + Cardinality(abandoned) /\ emitted \in Nat
      <4>1. emitted = returned + Cardinality(abandoned)
        BY Zenon, <2>2, <2>4
      <4> QED
        BY <2>2, <3>2, <4>1
    <3>7. ~(Cardinality(Answer) < returned)
      BY <2>1, <2>2, <3>2, <3>5, <3>6, LimitArithmetic
    <3> QED
      BY Zenon, <3>3, <3>7
  <2> QED
    BY Zenon, <2>5, <2>6
<1>2. LimitSpec => []LimitInv
  BY LimitInitInv, LimitNextInv, PTL DEF LimitSpec
<1> QED
  BY <1>1, <1>2, LimitIsAJoin, Invariance, Answers, PTL
-----------------------------------------------------------------------------
(***************************************************************************)
(* The chains of the hash table, for any partitions, rows and positions.   *)
(* A partition inserts only its own rows, and a row about to be swapped in *)
(* points at the entry the swap expects.                                   *)
(***************************************************************************)
PointersInv ==
    \A p \in Inserters :
        /\ \A r \in todo[p] : Owner[r] = p
        /\ pc[p] # "next" => row[p] \in Rows /\ Owner[row[p]] = p /\ row[p] \notin todo[p]
        /\ pc[p] = "occupied" => next[row[p]] = curr[p]

ChainInv == ChainTypeOK /\ PointersInv /\ ChainsComplete

(* A row is not inserted exactly while its owner has it.                   *)
LEMMA OwnerHasRow ==
    ASSUME ChainTypeOK, PointersInv, NEW r \in Rows
    PROVE  r \notin Inserted <=> r \in todo[Owner[r]] \cup Busy(Owner[r])
<1>1. Owner[r] \in Inserters
  BY ChainAssumption
<1>2. \A p \in Inserters : r \in todo[p] \cup Busy(p) => p = Owner[r]
  BY Zenon DEF PointersInv, Busy
<1> QED
  BY Zenon, <1>1, <1>2 DEF Inserted

LEMMA PositionOfRow == ASSUME NEW r \in Rows PROVE Pos[r] \in Positions
  BY Zenon DEF Positions

(* A step that inserts no row leaves the chains as they are.               *)
LEMMA KeepsChains ==
    ASSUME ChainsComplete, Inserted' = Inserted, entry' = entry,
           \A r \in Inserted : next'[r] = next[r]
    PROVE  ChainsComplete' /\ GrowsAtFront
<1>1. \A i \in Positions : InsertedAt(i)' = InsertedAt(i) /\ InsertedAt(i) \subseteq Inserted
  BY Zenon DEF InsertedAt
<1>2. GrowsAtFront
  BY Zenon, <1>1 DEF GrowsAtFront
<1>3. ASSUME NEW i \in Positions
      PROVE  LeadsOnlyTo(i)' /\ LeadsToAll(i)' /\ LeadsToAnEnd(i)'
  <2> DEFINE C == InsertedAt(i)
  <2>1. C' = C /\ \A r \in C : next'[r] = next[r]
    BY Zenon, <1>1
  <2>2. LeadsOnlyTo(i) /\ LeadsToAll(i) /\ LeadsToAnEnd(i)
    BY Zenon DEF ChainsComplete
  <2>3. LeadsOnlyTo(i)'
    BY Zenon, <2>1, <2>2 DEF LeadsOnlyTo
  <2>4. LeadsToAll(i)'
    <3> SUFFICES ASSUME NEW S \in SUBSET C, entry[i] \in S,
                        \A r \in S : next'[r] \in S \cup {NullPtr}
                 PROVE  S = C
      BY Zenon, <2>1 DEF LeadsToAll
    <3>1. \A r \in S : next[r] \in S \cup {NullPtr}
      BY Zenon, <2>1
    <3> QED
      BY Zenon, <2>2, <3>1 DEF LeadsToAll
  <2>5. LeadsToAnEnd(i)'
    BY Zenon, <2>1, <2>2 DEF LeadsToAnEnd
  <2> QED
    BY Zenon, <2>3, <2>4, <2>5
<1> QED
  BY Zenon, <1>2, <1>3 DEF ChainsComplete

(* A row that points at the front of its chain is put before it.           *)
LEMMA ExtendsChain ==
    ASSUME ChainTypeOK, ChainsComplete, NEW r \in Rows, r \notin Inserted,
           Inserted' = Inserted \cup {r}, entry' = [entry EXCEPT ![Pos[r]] = r],
           next'[r] = entry[Pos[r]], \A q \in Inserted : next'[q] = next[q]
    PROVE  ChainsComplete' /\ GrowsAtFront
<1> DEFINE j == Pos[r]
<1>1. j \in Positions /\ r # NullPtr
  BY Zenon, PositionOfRow, ChainAssumption
<1>2. /\ entry'[j] = r
      /\ \A i \in Positions \ {j} : entry'[i] = entry[i]
  BY Zenon, <1>1 DEF ChainTypeOK
<1>3. /\ InsertedAt(j)' = InsertedAt(j) \cup {r} /\ r \notin InsertedAt(j)
      /\ \A i \in Positions \ {j} : InsertedAt(i)' = InsertedAt(i)
      /\ \A i \in Positions : InsertedAt(i) \subseteq Inserted
  BY Zenon DEF InsertedAt
<1>4. GrowsAtFront
  <2>1. \A q \in Inserted : q \in Inserted' /\ next'[q] = next[q]
    BY Zenon
  <2> QED
    BY Zenon, <1>1, <1>2, <1>3, <2>1 DEF GrowsAtFront
<1>5. ASSUME NEW i \in Positions, i # j
      PROVE  LeadsOnlyTo(i)' /\ LeadsToAll(i)' /\ LeadsToAnEnd(i)'
  <2> DEFINE C == InsertedAt(i)
  <2>1. C' = C /\ (\A q \in C : next'[q] = next[q]) /\ entry'[i] = entry[i]
    BY Zenon, <1>2, <1>3, <1>5
  <2>2. LeadsOnlyTo(i) /\ LeadsToAll(i) /\ LeadsToAnEnd(i)
    BY Zenon DEF ChainsComplete
  <2>3. LeadsOnlyTo(i)'
    BY Zenon, <2>1, <2>2 DEF LeadsOnlyTo
  <2>4. LeadsToAll(i)'
    <3> SUFFICES ASSUME NEW S \in SUBSET C, entry[i] \in S,
                        \A q \in S : next'[q] \in S \cup {NullPtr}
                 PROVE  S = C
      BY Zenon, <2>1 DEF LeadsToAll
    <3>1. \A q \in S : next[q] \in S \cup {NullPtr}
      BY Zenon, <2>1
    <3> QED
      BY Zenon, <2>2, <3>1 DEF LeadsToAll
  <2>5. LeadsToAnEnd(i)'
    BY Zenon, <2>1, <2>2 DEF LeadsToAnEnd
  <2> QED
    BY Zenon, <2>3, <2>4, <2>5
<1>6. ASSUME NEW i \in Positions, i = j
      PROVE  LeadsOnlyTo(i)' /\ LeadsToAll(i)' /\ LeadsToAnEnd(i)'
  <2> DEFINE C == InsertedAt(i)
  <2>1. /\ C' = C \cup {r} /\ r \notin C /\ entry'[i] = r /\ next'[r] = entry[i]
        /\ \A q \in C : next'[q] = next[q]
    BY Zenon, <1>1, <1>2, <1>3, <1>6
  <2>2. LeadsOnlyTo(i) /\ LeadsToAll(i) /\ LeadsToAnEnd(i)
    BY Zenon, <1>1 DEF ChainsComplete
  <2>3. /\ entry[i] \in C \/ (entry[i] = NullPtr /\ C = {})
        /\ \A q \in C : next[q] \in C \cup {NullPtr}
        /\ r \notin C \cup {NullPtr} /\ NullPtr \notin C
    BY Zenon, <1>1, <2>1, <2>2, ChainAssumption DEF LeadsOnlyTo, InsertedAt, Inserted
  <2>4. LeadsOnlyTo(i)'
    BY Zenon, <2>1, <2>3 DEF LeadsOnlyTo
  <2>5. LeadsToAll(i)'
    <3> SUFFICES ASSUME NEW S \in SUBSET InsertedAt(i)', entry'[i] \in S,
                        \A q \in S : next'[q] \in S \cup {NullPtr}
                 PROVE  S = InsertedAt(i)'
      BY Zenon DEF LeadsToAll
    <3>1. S \subseteq C \cup {r} /\ r \in S
      BY Zenon, <2>1
    <3>2. CASE C = {}
      BY Zenon, <2>1, <3>1, <3>2
    <3>3. CASE C # {}
      <4> DEFINE T == S \ {r}
      <4>1. entry[i] \in T
        BY Zenon, <2>1, <2>3, <3>1, <3>3
      <4>2. \A q \in T : next[q] \in T \cup {NullPtr}
        BY Zenon, <2>1, <2>3, <3>1
      <4>3. T \in SUBSET C /\ S = T \cup {r}
        BY Zenon, <3>1
      <4> HIDE DEF T
      <4>4. T = C
        BY Zenon, <2>2, <4>1, <4>2, <4>3 DEF LeadsToAll
      <4> QED
        BY Zenon, <2>1, <4>3, <4>4
    <3> QED
      BY Zenon, <3>2, <3>3
  <2>6. LeadsToAnEnd(i)'
    <3> SUFFICES ASSUME NEW S \in SUBSET (C \cup {r}), S # {}
                 PROVE  \E q \in S : next'[q] \notin S
      BY Zenon, <2>1 DEF LeadsToAnEnd
    <3>1. CASE S \ {r} = {}
      <4>1. S = {r}
        BY Zenon, <3>1
      <4>2. entry[i] # r
        BY Zenon, <2>3
      <4> QED
        BY Zenon, <2>1, <4>1, <4>2
    <3>2. CASE S \ {r} # {}
      <4>1. PICK q \in S \ {r} : next[q] \notin S \ {r}
        BY Zenon, <2>2, <3>2 DEF LeadsToAnEnd
      <4>2. q \in C
        BY Zenon, <4>1
      <4>3. next[q] # r
        BY Zenon, <2>3, <4>2
      <4> QED
        BY Zenon, <2>1, <4>1, <4>2, <4>3
    <3> QED
      BY Zenon, <3>1, <3>2
  <2> QED
    BY Zenon, <2>4, <2>5, <2>6
<1> QED
  BY Zenon, <1>4, <1>5, <1>6 DEF ChainsComplete

LEMMA ChainInitInv == ChainInit => ChainInv
<1> SUFFICES ASSUME ChainInit PROVE ChainInv
  OBVIOUS
<1>1. ChainTypeOK /\ PointersInv
  BY ChainAssumption DEF ChainInit, ChainTypeOK, PointersInv, Pointer
<1>2. Inserted = {}
  <2>1. \A r \in Rows : r \in todo[Owner[r]]
    BY ChainAssumption DEF ChainInit
  <2> QED
    BY Zenon, <1>1, <2>1, OwnerHasRow DEF Inserted
<1>3. ChainsComplete
  BY <1>2 DEF ChainInit, ChainsComplete, LeadsOnlyTo, LeadsToAll, LeadsToAnEnd, InsertedAt
<1> QED
  BY Zenon, <1>1, <1>3 DEF ChainInv

(* What a partition does with its own row disturbs no other partition.     *)
LEMMA OwnStep ==
    ASSUME ChainTypeOK, PointersInv, NEW p \in Inserters, pc[p] # "next",
           pc' \in [Inserters -> {"next", "empty", "load", "occupied"}],
           next' \in [Rows -> Pointer \cup {Hash}], curr' \in [Inserters -> Pointer],
           \A q \in Inserters \ {p} : pc'[q] = pc[q] /\ curr'[q] = curr[q],
           \A r \in Rows \ {row[p]} : next'[r] = next[r],
           pc'[p] = "occupied" => next'[row[p]] = curr'[p],
           UNCHANGED <<todo, row>>
    PROVE  /\ PointersInv'
           /\ row[p] \in Rows \ Inserted /\ \A r \in Inserted : next'[r] = next[r]
           /\ Inserted' = IF pc'[p] = "next" THEN Inserted \cup {row[p]} ELSE Inserted
<1>1. row[p] \in Rows /\ Owner[row[p]] = p /\ row[p] \notin todo[p]
  BY Zenon DEF PointersInv
<1>2. PointersInv'
  <2> SUFFICES ASSUME NEW q \in Inserters
               PROVE  /\ \A r \in todo[q] : Owner[r] = q
                      /\ pc'[q] # "next" => row[q] \in Rows /\ Owner[row[q]] = q /\ row[q] \notin todo[q]
                      /\ pc'[q] = "occupied" => next'[row[q]] = curr'[q]
    BY Zenon DEF PointersInv
  <2>1. CASE q = p
    BY Zenon, <1>1, <2>1 DEF PointersInv
  <2>2. CASE q # p
    <3>1. pc'[q] = pc[q] /\ curr'[q] = curr[q]
      BY Zenon, <2>2
    <3>2. pc[q] = "occupied" => row[q] \in Rows \ {row[p]} /\ next[row[q]] = curr[q]
      BY Zenon, <1>1, <2>2 DEF PointersInv
    <3> QED
      BY Zenon, <3>1, <3>2 DEF PointersInv
  <2> QED
    BY Zenon, <2>1, <2>2
<1>3. row[p] \notin Inserted
  BY Zenon, <1>1, OwnerHasRow DEF Busy
<1>4. \A r \in Inserted : next'[r] = next[r]
  BY Zenon, <1>3 DEF Inserted
<1>5. \A q \in Inserters \ {p} : Busy(q)' = Busy(q)
  BY Zenon DEF Busy
<1>6. \A r \in Rows : r \in Inserted <=> \A q \in Inserters : r \notin todo[q] \cup Busy(q)
  BY Zenon DEF Inserted
<1>7. \A r \in Rows : r \in Inserted' <=> \A q \in Inserters : r \notin todo[q] \cup Busy(q)'
  BY Zenon DEF Inserted
<1>8. Inserted \subseteq Rows /\ Inserted' \subseteq Rows
  BY Zenon DEF Inserted
<1>9. CASE pc'[p] = "next"
  <2>1. Busy(p) = {row[p]} /\ Busy(p)' = {}
    BY Zenon, <1>9 DEF Busy
  <2>2. \A q \in Inserters : row[p] \notin todo[q] \cup Busy(q)'
    <3> SUFFICES ASSUME NEW q \in Inserters, q # p PROVE row[p] \notin todo[q] \cup Busy(q)
      BY Zenon, <1>1, <1>5, <2>1
    <3> QED
      BY Zenon, <1>1 DEF PointersInv, Busy
  <2>3. \A r \in Rows : r \in Inserted' <=> r \in Inserted \cup {row[p]}
    <3>1. row[p] \in Inserted'
      BY Zenon, <1>1, <1>7, <2>2
    <3>2. ASSUME NEW r \in Rows, r # row[p] PROVE r \in Inserted' <=> r \in Inserted
      <4>1. r \in todo[p] \cup Busy(p)' <=> r \in todo[p] \cup Busy(p)
        BY Zenon, <2>1, <3>2
      <4>2. \A q \in Inserters : r \in todo[q] \cup Busy(q)' <=> r \in todo[q] \cup Busy(q)
        BY Zenon, <1>5, <4>1
      <4> QED
        BY Zenon, <1>6, <1>7, <4>2
    <3> QED
      BY Zenon, <3>1, <3>2
  <2> QED
    BY Zenon, <1>1, <1>2, <1>3, <1>4, <1>9, <1>8, <2>3
<1>10. CASE pc'[p] # "next"
  <2>1. \A q \in Inserters : Busy(q)' = Busy(q)
    BY Zenon, <1>5, <1>10 DEF Busy
  <2>2. \A r \in Rows : r \in Inserted' <=> r \in Inserted
    BY Zenon, <1>6, <1>7, <2>1
  <2> QED
    BY Zenon, <1>1, <1>2, <1>3, <1>4, <1>10, <1>8, <2>2
<1> QED
  BY Zenon, <1>9, <1>10

(* Every step keeps the invariant, and lets the chains grow only in front. *)
LEMMA ChainStep ==
    ASSUME ChainInv, NEW p \in Inserters, Insert(p) \/ Retry(p)
    PROVE  ChainInv' /\ GrowsAtFront
<1> USE DEF ChainInv
<1>1. CASE \E r \in Rows : LoadEntry(p, r)
  <2> PICK r \in Rows : LoadEntry(p, r)
    BY Zenon, <1>1
  <2>1. ChainTypeOK'
    BY DEF LoadEntry, ChainTypeOK, Pointer
  <2>2. /\ pc[p] = "next" /\ r \in todo[p] /\ todo'[p] = todo[p] \ {r} /\ row'[p] = r
        /\ pc'[p] \in {"empty", "load"}
        /\ \A q \in Inserters \ {p} : todo'[q] = todo[q] /\ row'[q] = row[q] /\ pc'[q] = pc[q]
        /\ UNCHANGED <<entry, next, curr>>
    BY DEF LoadEntry, ChainTypeOK
  <2>3. PointersInv'
    <3> SUFFICES ASSUME NEW q \in Inserters
                 PROVE  /\ \A s \in todo'[q] : Owner[s] = q
                        /\ pc'[q] # "next" =>
                              row'[q] \in Rows /\ Owner[row'[q]] = q /\ row'[q] \notin todo'[q]
                        /\ pc'[q] = "occupied" => next'[row'[q]] = curr'[q]
      BY Zenon DEF PointersInv
    <3>1. CASE q = p
      <4>1. pc'[p] # "occupied"
        BY Zenon, <2>2
      <4> QED
        BY Zenon, <2>2, <3>1, <4>1 DEF PointersInv
    <3>2. CASE q # p
      BY Zenon, <2>2, <3>2 DEF PointersInv
    <3> QED
      BY Zenon, <3>1, <3>2
  <2>4. Inserted' = Inserted
    <3>1. Busy(p) = {} /\ Busy(p)' = {r}
      BY Zenon, <2>2 DEF Busy
    <3>2. todo'[p] \cup Busy(p)' = todo[p] \cup Busy(p)
      BY Zenon, <2>2, <3>1
    <3>3. \A q \in Inserters : todo'[q] \cup Busy(q)' = todo[q] \cup Busy(q)
      BY Zenon, <2>2, <3>2 DEF Busy
    <3> QED
      BY Zenon, <3>3 DEF Inserted
  <2> QED
    BY Zenon, <2>1, <2>2, <2>3, <2>4, KeepsChains
<1>2. CASE InsertEmpty(p) /\ StillEmpty(Pos[row[p]])
  <2>1. /\ pc[p] = "empty" /\ pc' = [pc EXCEPT ![p] = "next"] /\ row[p] \in Rows
        /\ next' = [next EXCEPT ![row[p]] = NullPtr] /\ entry[Pos[row[p]]] = NullPtr
        /\ entry' = [entry EXCEPT ![Pos[row[p]]] = row[p]] /\ UNCHANGED <<todo, row, curr>>
    BY Zenon, <1>2 DEF InsertEmpty, StillEmpty, PointersInv
  <2>2. ChainTypeOK' /\ next'[row[p]] = NullPtr
    BY <2>1 DEF ChainTypeOK, Pointer
  <2>3. /\ pc'[p] = "next" /\ \A q \in Inserters \ {p} : pc'[q] = pc[q]
        /\ \A r \in Rows \ {row[p]} : next'[r] = next[r]
    BY Zenon, <2>1 DEF ChainTypeOK
  <2>4. PointersInv' /\ row[p] \notin Inserted /\ Inserted' = Inserted \cup {row[p]}
        /\ \A r \in Inserted : next'[r] = next[r]
    BY Zenon, <2>1, <2>2, <2>3, OwnStep DEF ChainTypeOK
  <2> QED
    BY Zenon, <2>1, <2>2, <2>4, ExtendsChain
<1>3. CASE InsertEmpty(p) /\ ~StillEmpty(Pos[row[p]])
  <2>1. /\ pc[p] = "empty" /\ pc' = [pc EXCEPT ![p] = "load"] /\ row[p] \in Rows
        /\ next' = [next EXCEPT ![row[p]] = NullPtr] /\ UNCHANGED <<entry, todo, row, curr>>
    BY Zenon, <1>3 DEF InsertEmpty, PointersInv
  <2>2. ChainTypeOK'
    BY <2>1 DEF ChainTypeOK, Pointer
  <2>3. /\ pc'[p] = "load" /\ \A q \in Inserters \ {p} : pc'[q] = pc[q]
        /\ \A r \in Rows \ {row[p]} : next'[r] = next[r]
    BY Zenon, <2>1 DEF ChainTypeOK
  <2>4. PointersInv' /\ Inserted' = Inserted /\ \A r \in Inserted : next'[r] = next[r]
    BY Zenon, <2>1, <2>2, <2>3, OwnStep DEF ChainTypeOK
  <2> QED
    BY Zenon, <2>1, <2>2, <2>4, KeepsChains
<1>4. CASE LoadCurrent(p) \/ Retry(p)
  <2>1. /\ pc[p] # "next" /\ pc' = [pc EXCEPT ![p] = "occupied"] /\ row[p] \in Rows
        /\ next' = [next EXCEPT ![row[p]] = entry[Pos[row[p]]]]
        /\ curr' = [curr EXCEPT ![p] = entry[Pos[row[p]]]] /\ UNCHANGED <<entry, todo, row>>
    <3>1. CASE LoadCurrent(p)
      BY Zenon, <3>1 DEF LoadCurrent, Loaded, PointersInv
    <3>2. CASE Retry(p)
      <4>1. pc' = [pc EXCEPT ![p] = "occupied"]
        BY Zenon, <3>2 DEF Retry, ChainTypeOK
      <4> QED
        BY Zenon, <3>2, <4>1 DEF Retry, Existing, PointersInv
    <3> QED
      BY Zenon, <1>4, <3>1, <3>2
  <2>2. ChainTypeOK'
    BY <2>1, PositionOfRow DEF ChainTypeOK, Pointer
  <2>3. /\ pc'[p] = "occupied" /\ next'[row[p]] = curr'[p]
        /\ \A q \in Inserters \ {p} : pc'[q] = pc[q] /\ curr'[q] = curr[q]
        /\ \A r \in Rows \ {row[p]} : next'[r] = next[r]
    BY Zenon, <2>1 DEF ChainTypeOK
  <2>4. PointersInv' /\ Inserted' = Inserted /\ \A r \in Inserted : next'[r] = next[r]
    BY Zenon, <2>1, <2>2, <2>3, OwnStep DEF ChainTypeOK
  <2> QED
    BY Zenon, <2>1, <2>2, <2>4, KeepsChains
<1>5. CASE InsertOccupied(p)
  <2>1. /\ pc[p] = "occupied" /\ pc' = [pc EXCEPT ![p] = "next"] /\ row[p] \in Rows
        /\ next[row[p]] = entry[Pos[row[p]]]
        /\ entry' = [entry EXCEPT ![Pos[row[p]]] = row[p]] /\ UNCHANGED <<next, todo, row, curr>>
    BY Zenon, <1>5 DEF InsertOccupied, Unchanged, PointersInv
  <2>2. ChainTypeOK'
    BY <2>1 DEF ChainTypeOK, Pointer
  <2>3. pc'[p] = "next" /\ \A q \in Inserters \ {p} : pc'[q] = pc[q]
    BY Zenon, <2>1 DEF ChainTypeOK
  <2>4. PointersInv' /\ row[p] \notin Inserted /\ Inserted' = Inserted \cup {row[p]}
    BY Zenon, <2>1, <2>2, <2>3, OwnStep DEF ChainTypeOK
  <2> QED
    BY Zenon, <2>1, <2>2, <2>4, ExtendsChain
<1> QED
  BY Zenon, <1>1, <1>2, <1>3, <1>4, <1>5 DEF Insert

LEMMA ChainNextInv == ChainInv /\ [ChainNext]_chainVars => ChainInv' /\ [GrowsAtFront]_chainVars
<1> SUFFICES ASSUME ChainInv, [ChainNext]_chainVars PROVE ChainInv' /\ [GrowsAtFront]_chainVars
  OBVIOUS
<1>1. CASE ChainNext
  BY Zenon, <1>1, ChainStep DEF ChainNext
<1>2. CASE UNCHANGED chainVars
  <2>1. ChainTypeOK' /\ PointersInv'
    BY Zenon, <1>2 DEF ChainInv, chainVars, ChainTypeOK, PointersInv
  <2>2. Inserted' = Inserted
    BY Zenon, <1>2 DEF chainVars, Inserted, Busy
  <2>3. ChainsComplete'
    BY Zenon, <1>2, <2>2, KeepsChains DEF ChainInv, chainVars
  <2> QED
    BY Zenon, <1>2, <2>1, <2>3 DEF ChainInv
<1> QED
  BY Zenon, <1>1, <1>2

(* Concurrent compare-and-swap inserts lose no row and make no cycle: the  *)
(* pointers from an entry of the directory lead once through each row that *)
(* was inserted at its position (hash_table/mod.rs, insert_hashes), for    *)
(* any partitions, rows and hashes.                                        *)
THEOREM InsertsLoseNoRow == ChainSpec => []ChainsComplete
<1>1. ChainInv => ChainsComplete
  BY Zenon DEF ChainInv
<1> QED
  BY <1>1, ChainInitInv, ChainNextInv, PTL DEF ChainSpec

(* A row in a chain stays there with all that is behind it, so that a scan *)
(* that has reached it is not disturbed by inserts.                        *)
THEOREM ChainsGrowAtFront == ChainSpec => [][GrowsAtFront]_chainVars
  BY ChainInitInv, ChainNextInv, PTL DEF ChainSpec
-----------------------------------------------------------------------------
(* The nested loop join beside the hash join: a behaviour picks one of the *)
(* joins and runs it, the others rest in their initial state.              *)
CONSTANTS
    Operators,      \* the joins to run
    LimitJoinTypes, \* the join types to run under a LIMIT
    Appenders, Scanners, Outputs, Output, FirstSegment, ChunkCapacity, SegmentSize,
    BuildInput, ProbeInput, On

VARIABLES
    operator,
    join, nlBuild, nlProbe, done, remainingBuild, remainingProbe, phase, nlWakers, at,
    leftMatches, rightMatches, nlOutput,
    segments, pending, nextSeg, reserved, current, chunkIdx

ASSUME LoopAssumption == IsFiniteSet(Appenders) /\ IsFiniteSet(Scanners)

Loops == INSTANCE NestedLoopJoin WITH
    build <- nlBuild, probe <- nlProbe, wakers <- nlWakers, output <- nlOutput
loopVars == <<join, nlBuild, nlProbe, done, remainingBuild, remainingProbe, phase, nlWakers,
              at, leftMatches, rightMatches, nlOutput,
              segments, pending, nextSeg, reserved, current, chunkIdx>>
joinsVars == <<operator, vars, limitVars, chainVars, loopVars>>

JoinsInit ==
    /\ operator \in Operators
    /\ LimitInit
    /\ operator = "limit" => joinType \in LimitJoinTypes
    /\ operator \notin {"hash", "limit"} =>
          joinType = "inner" /\ \A p \in Partitions : left[p] = <<>> /\ right[p] = <<>>
    /\ ChainInit
    /\ Loops!Init /\ (operator # "loop" => join = "inner")

RunHash == operator = "hash" /\ Next /\ UNCHANGED <<operator, limitVars, chainVars, loopVars>>
RunLimited == operator = "limit" /\ LimitNext /\ UNCHANGED <<operator, chainVars, loopVars>>
RunChains == operator = "chains" /\ ChainNext
    /\ UNCHANGED <<operator, vars, limitVars, loopVars>>
RunLoop == operator = "loop" /\ Loops!Next /\ UNCHANGED <<operator, vars, limitVars, chainVars>>
JoinsNext == RunHash \/ RunLimited \/ RunChains \/ RunLoop

JoinsSpec == JoinsInit /\ [][JoinsNext]_joinsVars

(* A chain only grows at its front; and the nested loop join has all left  *)
(* rows when it forms the first pair, all marks when it drains.            *)
StepsAreOrdered ==
    [][/\ operator = "chains" => GrowsAtFront
       /\ operator = "loop" => Loops!KeepsPhases]_joinsVars

-----------------------------------------------------------------------------
LoopIn(ph) == {p \in Scanners : phase[p] = ph}

(* The counters count the build partitions that are yet to finish and the  *)
(* partitions that still probe.                                            *)
LoopCounters ==
    /\ done \subseteq Appenders /\ remainingBuild = Cardinality(Appenders \ done)
    /\ phase \in [Scanners -> {"probing", "draining", "finished"}]
    /\ remainingProbe = Cardinality(LoopIn("probing"))

(* A partition that joins or drains is past the counter it had to wait     *)
(* for.                                                                    *)
LoopBarriers ==
    /\ (\E p \in Scanners : at[p] > 0) => remainingBuild = 0
    /\ (\E p \in Scanners : current[p] # 0) => remainingProbe = 0

(* Nobody is parked while probing once the left rows are complete, and a   *)
(* partition drains only in a join that wakes the drainers.                *)
LoopWaits ==
    /\ nlWakers \subseteq Scanners
    /\ remainingBuild = 0 => nlWakers \subseteq LoopIn("draining")
    /\ LoopIn("draining") # {} => Loops!NeedsLeftDrain
    /\ Loops!NoStrandedProbe

LoopInv == LoopCounters /\ LoopBarriers /\ LoopWaits

LEMMA LoopCardinality == \A S : Loops!Cardinality(S) = Cardinality(S)
  BY DEF Loops!Cardinality, Cardinality

LEMMA OneLess ==
    ASSUME NEW S, IsFiniteSet(S)
    PROVE  /\ Cardinality(S) \in Nat /\ (Cardinality(S) = 0 <=> S = {})
           /\ \A x \in S : Cardinality(S \ {x}) = Cardinality(S) - 1
  BY FS_CardinalityType, FS_EmptySet, FS_RemoveElement, Zenon

LEMMA LoopCounts ==
    ASSUME LoopCounters
    PROVE  /\ remainingBuild \in Nat /\ (remainingBuild = 0 <=> Appenders \ done = {})
           /\ \A b \in Appenders \ done :
                 Cardinality((Appenders \ done) \ {b}) = remainingBuild - 1
           /\ remainingProbe \in Nat /\ (remainingProbe = 0 <=> LoopIn("probing") = {})
           /\ \A p \in LoopIn("probing") :
                 Cardinality(LoopIn("probing") \ {p}) = remainingProbe - 1
<1>1. IsFiniteSet(Appenders \ done) /\ IsFiniteSet(LoopIn("probing"))
  BY LoopAssumption, FS_Subset, Zenon DEF LoopIn
<1> QED
  BY <1>1, OneLess, Zenon DEF LoopCounters

LEMMA InitLoop == Loops!Init => LoopInv
<1> SUFFICES ASSUME Loops!Init PROVE LoopInv
  OBVIOUS
<1>1. /\ phase = [p \in Scanners |-> "probing"] /\ done = {} /\ nlWakers = {}
      /\ remainingBuild = Cardinality(Appenders) /\ remainingProbe = Cardinality(Scanners)
      /\ at = [p \in Scanners |-> 0] /\ current = [p \in Scanners |-> 0]
  BY LoopCardinality, Zenon DEF Loops!Init, Loops!CollectionInit, Loops!NoSegment
<1>2. LoopIn("probing") = Scanners /\ LoopIn("draining") = {} /\ Appenders \ done = Appenders
  BY <1>1 DEF LoopIn
<1>3. LoopCounters
  BY <1>1, <1>2 DEF LoopCounters
<1>4. LoopBarriers
  BY <1>1 DEF LoopBarriers
<1>5. LoopWaits
  BY <1>1, <1>2 DEF LoopWaits, Loops!NoStrandedProbe
<1> QED
  BY <1>3, <1>4, <1>5 DEF LoopInv

(* A step that leaves the counters, phases and wakers alone.               *)
LEMMA QuietLoop ==
    ASSUME LoopInv, UNCHANGED <<join, done, remainingBuild, remainingProbe, phase, nlWakers>>,
           LoopBarriers'
    PROVE  LoopInv'
<1>1. LoopIn("probing")' = LoopIn("probing") /\ LoopIn("draining")' = LoopIn("draining")
  BY Zenon DEF LoopIn
<1>2. LoopCounters' /\ LoopWaits'
  BY <1>1, Zenon DEF LoopInv, LoopCounters, LoopWaits, Loops!NeedsLeftDrain, Loops!NoStrandedProbe,
                     Loops!BuildDone
<1> QED
  BY <1>2, Zenon DEF LoopInv

LEMMA PushLoop ==
    ASSUME LoopInv, NEW b \in Appenders, Loops!Push(b)
    PROVE  LoopInv' /\ Loops!KeepsPhases
<1>1. /\ UNCHANGED <<join, done, remainingBuild, remainingProbe, phase, nlWakers, at, current,
                     leftMatches>>
      /\ b \notin done
  BY Zenon DEF Loops!Push, Loops!counts, Loops!scanState
<1>2. LoopBarriers' /\ ~(\E p \in Scanners : at[p] > 0)
  BY <1>1, LoopCounts, Zenon DEF LoopInv, LoopBarriers
<1> QED
  BY <1>1, <1>2, QuietLoop, Zenon DEF Loops!KeepsPhases

LEMMA FinalizePushLoop ==
    ASSUME LoopInv, NEW b \in Appenders, Loops!FinalizePush(b)
    PROVE  LoopInv' /\ Loops!KeepsPhases
<1>1. /\ UNCHANGED <<join, remainingProbe, phase, at, current, leftMatches>>
      /\ b \notin done /\ done' = done \cup {b} /\ remainingBuild' = remainingBuild - 1
      /\ nlWakers' = IF remainingBuild = 1 THEN {} ELSE nlWakers
  <2>1. nlWakers \ (IF remainingBuild = 1 THEN nlWakers ELSE {})
            = IF remainingBuild = 1 THEN {} ELSE nlWakers
    OBVIOUS
  <2> QED
    BY <2>1, Zenon DEF Loops!FinalizePush, Loops!WokenByBuild, Loops!scanState
<1>2. /\ remainingBuild \in Nat \ {0} /\ Cardinality((Appenders \ done) \ {b}) = remainingBuild - 1
  BY <1>1, LoopCounts DEF LoopInv
<1>3. ~(\E p \in Scanners : at[p] > 0)
  BY <1>2 DEF LoopInv, LoopBarriers
<1>4. /\ LoopIn("probing")' = LoopIn("probing") /\ LoopIn("draining")' = LoopIn("draining")
      /\ Appenders \ done' = (Appenders \ done) \ {b}
  BY <1>1 DEF LoopIn
<1>5. LoopCounters'
  BY <1>1, <1>2, <1>4 DEF LoopInv, LoopCounters
<1>6. LoopBarriers'
  BY <1>1, <1>3, Zenon DEF LoopInv, LoopBarriers
<1>7. nlWakers' # {} => nlWakers' = nlWakers /\ remainingBuild' # 0
  BY <1>1, <1>2
<1>8. LoopWaits'
  BY <1>1, <1>4, <1>7, Zenon DEF LoopInv, LoopWaits, Loops!NeedsLeftDrain, Loops!NoStrandedProbe,
                            Loops!BuildDone
<1> QED
  BY <1>1, <1>3, <1>5, <1>6, <1>8, Zenon DEF LoopInv, Loops!KeepsPhases

(* A partition parks because a counter is not at zero.                     *)
LEMMA ParkLoop ==
    ASSUME LoopInv, NEW p \in Scanners,
           Loops!AwaitBuild(p) \/ Loops!AwaitProbes(p)
    PROVE  LoopInv' /\ Loops!KeepsPhases
<1>1. /\ UNCHANGED <<join, done, remainingBuild, remainingProbe, phase, at, current, leftMatches,
                     segments>>
      /\ nlWakers' = nlWakers \cup {p}
      /\ remainingBuild = 0 => phase[p] = "draining" /\ remainingProbe # 0
  BY Zenon DEF Loops!AwaitBuild, Loops!AwaitProbes, Loops!BuildDone, Loops!MayDrain,
               Loops!counts, Loops!collection
<1>2. LoopIn("probing")' = LoopIn("probing") /\ LoopIn("draining")' = LoopIn("draining")
  BY <1>1, Zenon DEF LoopIn
<1>3. LoopCounters' /\ LoopBarriers'
  BY <1>1, <1>2, Zenon DEF LoopInv, LoopCounters, LoopBarriers
<1>4. remainingBuild = 0 => nlWakers' \subseteq LoopIn("draining")
  BY <1>1 DEF LoopInv, LoopWaits, LoopIn
<1>5. remainingBuild = 0 => \E q \in Scanners : phase[q] = "probing" /\ q \notin nlWakers'
  BY <1>1, <1>4, LoopCounts DEF LoopInv, LoopIn
<1>6. LoopWaits'
  BY <1>1, <1>2, <1>4, <1>5 DEF LoopInv, LoopWaits, Loops!NeedsLeftDrain, Loops!NoStrandedProbe,
                                Loops!BuildDone
<1> QED
  BY <1>1, <1>3, <1>6, Zenon DEF LoopInv, Loops!KeepsPhases

LEMMA JoinLoop ==
    ASSUME LoopInv, NEW p \in Scanners,
           Loops!JoinRow(p) \/ Loops!EndBatch(p)
    PROVE  LoopInv' /\ Loops!KeepsPhases
<1>1. /\ UNCHANGED <<join, done, remainingBuild, remainingProbe, phase, nlWakers, current, segments>>
      /\ remainingBuild = 0 /\ phase[p] = "probing"
  BY Zenon DEF Loops!JoinRow, Loops!EndBatch, Loops!BuildDone, Loops!counts, Loops!collection
<1>2. remainingProbe # 0
  BY <1>1, LoopCounts, Zenon DEF LoopInv, LoopIn
<1>3. LoopBarriers' /\ ~(\E q \in Scanners : current[q] # 0)
  BY <1>1, <1>2, Zenon DEF LoopInv, LoopBarriers
<1> QED
  BY <1>1, <1>3, QuietLoop, Zenon DEF Loops!KeepsPhases, Loops!NoSegment

LEMMA FinalizeExecuteLoop ==
    ASSUME LoopInv, NEW p \in Scanners, Loops!FinalizeExecute(p)
    PROVE  LoopInv' /\ Loops!KeepsPhases
<1>1. /\ UNCHANGED <<join, done, remainingBuild, at, current, leftMatches, segments>>
      /\ p \notin nlWakers /\ phase[p] = "probing" /\ remainingProbe' = remainingProbe - 1
      /\ phase' = [phase EXCEPT ![p] = IF Loops!NeedsLeftDrain THEN "draining" ELSE "finished"]
      /\ nlWakers' = IF Loops!NeedsLeftDrain /\ remainingProbe = 1 THEN {} ELSE nlWakers
  <2>1. nlWakers \ (IF Loops!NeedsLeftDrain /\ remainingProbe = 1 THEN nlWakers ELSE {})
            = IF Loops!NeedsLeftDrain /\ remainingProbe = 1 THEN {} ELSE nlWakers
    OBVIOUS
  <2> QED
    BY <2>1, Zenon DEF Loops!FinalizeExecute, Loops!WokenByProbe, Loops!collection
<1>2. /\ remainingProbe \in Nat \ {0} /\ Cardinality(LoopIn("probing") \ {p}) = remainingProbe - 1
  BY <1>1, LoopCounts DEF LoopInv, LoopIn
<1>3. /\ phase' \in [Scanners -> {"probing", "draining", "finished"}]
      /\ LoopIn("probing")' = LoopIn("probing") \ {p}
      /\ LoopIn("draining") \subseteq LoopIn("draining")'
      /\ ~Loops!NeedsLeftDrain => LoopIn("draining")' = LoopIn("draining")
  BY <1>1 DEF LoopInv, LoopCounters, LoopIn
<1>4. LoopCounters'
  BY <1>1, <1>2, <1>3, Zenon DEF LoopInv, LoopCounters
<1>5. LoopBarriers'
  BY <1>1, <1>2, Zenon DEF LoopInv, LoopBarriers
<1>6. Loops!NeedsLeftDrain' = Loops!NeedsLeftDrain
  BY <1>1, Zenon DEF Loops!NeedsLeftDrain
<1>7. ASSUME nlWakers' # {}, remainingBuild = 0
      PROVE  \E q \in Scanners : phase'[q] = "probing" /\ q \notin nlWakers'
  <2>1. nlWakers' = nlWakers /\ nlWakers \subseteq LoopIn("draining") /\ Loops!NeedsLeftDrain
    BY <1>1, <1>7 DEF LoopInv, LoopWaits
  <2>2. remainingProbe' # 0
    BY <1>1, <1>2, <1>7, <2>1
  <2>3. LoopIn("probing") \ {p} # {}
    BY <1>1, <1>2, <2>2, OneLess, LoopAssumption, FS_Subset, FS_EmptySet, Zenon
  <2> QED
    BY <1>3, <2>1, <2>3 DEF LoopIn
<1>8. LoopWaits'
  <2>1. nlWakers' \subseteq nlWakers
    BY <1>1, Zenon
  <2>2. nlWakers' \subseteq Scanners /\ (remainingBuild' = 0 => nlWakers' \subseteq LoopIn("draining")')
    BY <1>1, <1>3, <2>1 DEF LoopInv, LoopWaits
  <2>3. LoopIn("draining")' # {} => Loops!NeedsLeftDrain'
    BY <1>3, <1>6, Zenon DEF LoopInv, LoopWaits
  <2>4. Loops!NoStrandedProbe'
    BY <1>1, <1>7, Zenon DEF Loops!NoStrandedProbe, Loops!BuildDone
  <2> QED
    BY <2>2, <2>3, <2>4, Zenon DEF LoopWaits
<1> QED
  BY <1>1, <1>4, <1>5, <1>8, Zenon DEF LoopInv, Loops!KeepsPhases

LEMMA DrainLoop ==
    ASSUME LoopInv, NEW p \in Scanners, Loops!Drain(p)
    PROVE  LoopInv' /\ Loops!KeepsPhases
<1>1. /\ UNCHANGED <<join, done, remainingBuild, remainingProbe, nlWakers, at, leftMatches, segments>>
      /\ p \notin nlWakers /\ phase[p] = "draining" /\ remainingProbe = 0 /\ remainingBuild = 0
      /\ phase' = phase \/ phase' = [phase EXCEPT ![p] = "finished"]
  BY Zenon DEF Loops!Drain, Loops!Polled, Loops!BuildDone, Loops!MayDrain, Loops!counts
<1>2. /\ phase' \in [Scanners -> {"probing", "draining", "finished"}]
      /\ LoopIn("probing")' = LoopIn("probing")
      /\ LoopIn("draining") \ {p} \subseteq LoopIn("draining")'
      /\ LoopIn("draining")' \subseteq LoopIn("draining")
  BY <1>1 DEF LoopInv, LoopCounters, LoopIn
<1>3. nlWakers = {}
  BY <1>1, LoopCounts DEF LoopInv, LoopWaits, Loops!NoStrandedProbe, Loops!BuildDone, LoopIn
<1>4. LoopCounters'
  BY <1>1, <1>2, Zenon DEF LoopInv, LoopCounters
<1>5. LoopBarriers'
  BY <1>1, Zenon DEF LoopBarriers
<1>6. LoopWaits'
  BY <1>1, <1>2, <1>3 DEF LoopInv, LoopWaits, Loops!NeedsLeftDrain, Loops!NoStrandedProbe
<1> QED
  BY <1>1, <1>4, <1>5, <1>6, Zenon DEF LoopInv, Loops!KeepsPhases

LEMMA NextLoop == LoopInv /\ [Loops!Next]_loopVars => LoopInv' /\ [Loops!KeepsPhases]_loopVars
<1> SUFFICES ASSUME LoopInv, [Loops!Next]_loopVars PROVE LoopInv' /\ [Loops!KeepsPhases]_loopVars
  OBVIOUS
<1>1. CASE Loops!Next
  BY <1>1, PushLoop, FinalizePushLoop, ParkLoop, JoinLoop, FinalizeExecuteLoop, DrainLoop, Zenon
     DEF Loops!Next, Loops!Build, Loops!Probe
<1>2. CASE UNCHANGED loopVars
  <2>1. LoopBarriers'
    BY <1>2, Zenon DEF LoopInv, LoopBarriers, loopVars
  <2> QED
    BY <1>2, <2>1, QuietLoop, Zenon DEF loopVars
<1> QED
  BY <1>1, <1>2, Zenon

LEMMA JoinsStep ==
    ASSUME ChainInv, LoopInv, [JoinsNext]_joinsVars
    PROVE  /\ ChainInv' /\ LoopInv'
           /\ [/\ operator = "chains" => GrowsAtFront
               /\ operator = "loop" => Loops!KeepsPhases]_joinsVars
<1>1. /\ [ChainNext]_chainVars /\ [Loops!Next]_loopVars
      /\ [(operator = "chains" => ChainNext) /\ (operator = "loop" => Loops!Next)]_joinsVars
  BY Zenon DEF JoinsNext, joinsVars, RunHash, RunLimited, RunChains, RunLoop
<1>2. ChainInv' /\ LoopInv'
  BY <1>1, ChainNextInv, NextLoop, Zenon
<1>3. ASSUME ChainNext PROVE GrowsAtFront
  BY <1>3, ChainStep, Zenon DEF ChainNext
<1>4. ASSUME Loops!Next PROVE Loops!KeepsPhases
  BY <1>4, PushLoop, FinalizePushLoop, ParkLoop, JoinLoop, FinalizeExecuteLoop, DrainLoop, Zenon
     DEF Loops!Next, Loops!Build, Loops!Probe
<1> QED
  BY <1>1, <1>2, <1>3, <1>4, Zenon

LEMMA JoinsInvariance == JoinsSpec => [](ChainInv /\ LoopInv)
<1>1. JoinsInit => ChainInv /\ LoopInv
  BY ChainInitInv, InitLoop, Zenon DEF JoinsInit
<1> QED
  BY <1>1, JoinsStep, PTL DEF JoinsSpec

(* Inserts put rows only in front of a chain.  A nested loop join has all  *)
(* left rows before it forms a pair, so that the position of a row does    *)
(* not move while it is marked, and all marks before it drains: for any    *)
(* number of partitions and rows, whatever batches they come in.           *)
THEOREM JoinsStepInOrder == JoinsSpec => StepsAreOrdered
  BY JoinsInvariance, JoinsStep, PTL DEF JoinsSpec, StepsAreOrdered

(* A parked partition of a nested loop join waits for a build or a probe   *)
(* partition that is yet to arrive at the counter and wakes it.            *)
THEOREM LoopsAreWoken == JoinsSpec => []Loops!NoStrandedProbe
<1>1. LoopInv => Loops!NoStrandedProbe
  BY Zenon DEF LoopInv, LoopWaits
<1> QED
  BY <1>1, JoinsInvariance, PTL
=============================================================================
