--------------------------- MODULE AggregateStates ---------------------------
(***************************************************************************)
(* The states of the aggregate functions (functions/aggregate).  Every     *)
(* partition updates states of its own; the states of a group are then     *)
(* merged pairwise, in an order that depends on the scheduling of the      *)
(* partitions, and the last one is finalized.                              *)
(*                                                                         *)
(* A row is <<y, x>>, either may be Null; functions of one argument read   *)
(* y.  Floating point numbers are fractions, without rounding and NaN.     *)
(***************************************************************************)
EXTENDS Integers, Sequences, FiniteSets, SequencesExt, Bitwise

CONSTANTS Partitions, Aggregates, Rows,
          Null,
          MaxRows,        \* bound: rows of all partitions together
          MaxSum,         \* largest integer a sum can hold
          HashBits, P,    \* width of a hash, and of the part of it that picks a register
          Hash,           \* the hash of a value
          Compression,    \* of a t-digest
          CentroidLimit   \* centroids per unit of compression before it is compressed (20)

VARIABLES func,           \* the function computed
          states,         \* the state of each partition, those in `merged` are consumed
          merged,
          seen            \* history: the rows of each state
vars == <<func, states, merged, seen>>

-----------------------------------------------------------------------------
(* Fractions <<n, d>>, d > 0, in lowest terms.                             *)
Abs(n) == IF n < 0 THEN -n ELSE n
Gcd(n, d) == Max({k \in 1 .. d : d % k = 0 /\ Abs(n) % k = 0})
Frac(n, d) == <<n \div Gcd(n, d), d \div Gcd(n, d)>>
Whole(n) == <<n, 1>>
Plus(a, b) == Frac(a[1] * b[2] + b[1] * a[2], a[2] * b[2])
Times(a, b) == Frac(a[1] * b[1], a[2] * b[2])
Minus(a, b) == Plus(a, <<-b[1], b[2]>>)
Over(a, b) == IF b[1] < 0 THEN Frac((-a[1]) * b[2], a[2] * (-b[1])) ELSE Frac(a[1] * b[2], a[2] * b[1])
AtMost(a, b) == a[1] * b[2] <= b[1] * a[2]
Below(a, b) == a[1] * b[2] < b[1] * a[2]
Distance(a, b) == LET d == Minus(a, b) IN <<Abs(d[1]), d[2]>>

-----------------------------------------------------------------------------
(* sum: checked addition; a sum that does not fit starts again from zero.  *)
CheckedAdd(a, b) == IF a + b \in -MaxSum - 1 .. MaxSum THEN a + b ELSE 0
SumNew == [sum |-> 0, valid |-> FALSE]
SumMerge(s, o) == [sum |-> CheckedAdd(s.sum, o.sum), valid |-> s.valid \/ o.valid]
SumUpdate(s, v) == [sum |-> CheckedAdd(s.sum, v), valid |-> TRUE]
SumFinalize(s) == IF s.valid THEN s.sum ELSE Null

(* avg, and regr_avgx and regr_avgy, which read one of two arguments.      *)
AvgNew == [sum |-> 0, count |-> 0]
AvgMerge(s, o) == [sum |-> s.sum + o.sum, count |-> s.count + o.count]
AvgUpdate(s, v) == [sum |-> s.sum + v, count |-> s.count + 1]
AvgFinalize(s) == IF s.count = 0 THEN Null ELSE Frac(s.sum, s.count)
RegrAvgInput(f, row) == IF f = "regr_avgx" THEN row[2] ELSE row[1]

(* count and regr_count: the state is the number.                          *)
CountMerge(s, o) == s + o
CountUpdate(s) == s + 1

(* min, max, bit_and and bit_or keep a value once there is one.            *)
MinKeeps(a, b) == IF a > b THEN b ELSE a
MaxKeeps(a, b) == IF a < b THEN b ELSE a
BitAndKeeps(a, b) == a & b
BitOrKeeps(a, b) == a | b
Keep(f, a, b) ==
    CASE f = "min" -> MinKeeps(a, b) [] f = "max" -> MaxKeeps(a, b)
      [] f = "bit_and" -> BitAndKeeps(a, b) [] f = "bit_or" -> BitOrKeeps(a, b)
MutKeptMerge(f, s, o) ==
    IF ~s.valid THEN o ELSE [s EXCEPT !.value = Keep(f, s.value, o.value)]
KeptMerge(f, s, o) ==
    IF ~s.valid THEN o
    ELSE IF ~o.valid THEN s ELSE [s EXCEPT !.value = Keep(f, s.value, o.value)]
KeptUpdate(f, s, v) ==
    [value |-> IF s.valid THEN Keep(f, s.value, v) ELSE v, valid |-> TRUE]
KeptFinalize(s) == IF s.valid THEN s.value ELSE Null

BoolAndMerge(s, o) == [result |-> s.result /\ o.result, valid |-> s.valid \/ o.valid]
BoolAndUpdate(s, v) == [result |-> s.result /\ v, valid |-> TRUE]
BoolOrMerge(s, o) == [result |-> s.result \/ o.result, valid |-> s.valid \/ o.valid]
BoolOrUpdate(s, v) == [result |-> s.result \/ v, valid |-> TRUE]
BoolFinalize(s) == IF s.valid THEN s.result ELSE Null

FirstMerge(s, o) == IF s = Null THEN o ELSE s
FirstUpdate(s, v) == IF s = Null THEN v ELSE s

(* string_agg: a separator goes between two values, none at the ends.      *)
Sep == "sep"
StringAggMerge(s, o) == IF s = Null THEN o ELSE IF o = Null THEN s ELSE s \o <<Sep>> \o o
StringAggUpdate(s, v) == IF s = Null THEN <<v>> ELSE s \o <<Sep, v>>

-----------------------------------------------------------------------------
(* Variance and covariance by running means and (co)moments.               *)
VarianceNew == [count |-> 0, mean |-> Whole(0), m2 |-> Whole(0)]
WeightedMean(n, a, m, b) == Over(Plus(Times(Whole(n), a), Times(Whole(m), b)), Whole(n + m))
VarianceMerge(s, o) ==
    IF s.count = 0 THEN o
    ELSE LET delta == Minus(s.mean, o.mean)
             n == s.count + o.count
         IN [count |-> n,
             mean |-> WeightedMean(s.count, s.mean, o.count, o.mean),
             m2 |-> Plus(Plus(s.m2, o.m2),
                         Times(Times(delta, delta), Frac(s.count * o.count, n)))]
VarianceUpdate(s, v) ==
    LET n == s.count + 1
        delta == Minus(Whole(v), s.mean)
        mean == Plus(s.mean, Over(delta, Whole(n)))
    IN [count |-> n, mean |-> mean, m2 |-> Plus(s.m2, Times(delta, Minus(Whole(v), mean)))]

CovarNew == [count |-> 0, meanx |-> Whole(0), meany |-> Whole(0), co_moment |-> Whole(0)]
CovarMerge(s, o) ==
    IF s.count = 0 THEN o
    ELSE IF o.count = 0 THEN s
    ELSE LET n == s.count + o.count
             deltax == Minus(s.meanx, o.meanx)
             deltay == Minus(s.meany, o.meany)
         IN [count |-> n,
             meanx |-> WeightedMean(o.count, o.meanx, s.count, s.meanx),
             meany |-> WeightedMean(o.count, o.meany, s.count, s.meany),
             co_moment |-> Plus(Plus(o.co_moment, s.co_moment),
                                Times(Times(deltax, deltay), Frac(o.count * s.count, n)))]
CovarUpdate(s, y, x) ==
    LET n == s.count + 1
        dx == Minus(Whole(x), s.meanx)
        meany == Plus(s.meany, Over(Minus(Whole(y), s.meany), Whole(n)))
    IN [count |-> n, meanx |-> Plus(s.meanx, Over(dx, Whole(n))), meany |-> meany,
        co_moment |-> Plus(s.co_moment, Times(dx, Minus(Whole(y), meany)))]

(* The finalizers; a square root stays under its sign.                     *)
VarianceFinalize(f, count, m2) ==
    IF f \in {"var_samp", "stddev_samp"}
    THEN IF count <= 1 THEN Null ELSE Over(m2, Whole(count - 1))
    ELSE IF count = 0 THEN Null ELSE IF count = 1 THEN Whole(0) ELSE Over(m2, Whole(count))
Root(v) == IF v = Null THEN Null ELSE [sqrt |-> v]
CovarFinalize(f, count, co_moment) ==
    IF f = "covar_samp"
    THEN IF count <= 1 THEN Null ELSE Over(co_moment, Whole(count - 1))
    ELSE IF count = 0 THEN Null ELSE Over(co_moment, Whole(count))

(* corr, regr_r2 and regr_slope combine the states above.                  *)
CorrNew == [covar |-> CovarNew, x |-> VarianceNew, y |-> VarianceNew]
CorrMerge(s, o) ==
    [covar |-> CovarMerge(s.covar, o.covar), x |-> VarianceMerge(s.x, o.x),
     y |-> VarianceMerge(s.y, o.y)]
CorrUpdate(s, y, x) ==
    [covar |-> CovarUpdate(s.covar, y, x), x |-> VarianceUpdate(s.x, x),
     y |-> VarianceUpdate(s.y, y)]
CorrFinalize(s) ==
    LET cov == CovarFinalize("covar_pop", s.covar.count, s.covar.co_moment)
        var(v) == VarianceFinalize("stddev_pop", v.count, v.m2)
    IN IF cov = Null \/ Times(var(s.x), var(s.y)) = Whole(0) THEN Null
       ELSE [covar |-> cov, over |-> Root(Times(var(s.x), var(s.y)))]
R2Finalize(s) ==
    LET c == CorrFinalize(s)
    IN IF c = Null THEN Null ELSE Over(Times(c.covar, c.covar), c.over.sqrt)
SlopeNew == [cov |-> CovarNew, var |-> VarianceNew]
SlopeMerge(s, o) == [cov |-> CovarMerge(s.cov, o.cov), var |-> VarianceMerge(s.var, o.var)]
SlopeUpdate(s, y, x) == [cov |-> CovarUpdate(s.cov, y, x), var |-> VarianceUpdate(s.var, x)]
SlopeFinalize(s) ==
    LET cov == CovarFinalize("covar_pop", s.cov.count, s.cov.co_moment)
        var == VarianceFinalize("var_pop", s.var.count, s.var.m2)
    IN IF cov = Null \/ var = Null \/ var = Whole(0) THEN Null ELSE Over(cov, var)

-----------------------------------------------------------------------------
(* HyperLogLog: the first P bits of a hash pick a register, which keeps    *)
(* the largest rank (leading zeros plus one) of the other bits.  The       *)
(* estimate is a function of the registers.                                *)
Registers == 0 .. 2 ^ P - 1
HllNew == [r \in Registers |-> 0]
HllIndex(hash) == hash \div 2 ^ (HashBits - P)
HllRank(hash) ==
    LET w == ((hash * 2 ^ P) % 2 ^ HashBits) | 2 ^ (P - 1)
    IN HashBits - Max({b \in 0 .. HashBits - 1 : w >= 2 ^ b})
MutHllMerge(s, o) == IF s = HllNew THEN o ELSE s
HllMerge(s, o) == [r \in Registers |-> IF s[r] < o[r] THEN o[r] ELSE s[r]]
HllInsert(s, hash) ==
    IF s[HllIndex(hash)] < HllRank(hash) THEN [s EXCEPT ![HllIndex(hash)] = HllRank(hash)] ELSE s
ApproxDistinctUpdate(s, v) == HllInsert(s, Hash[v])

-----------------------------------------------------------------------------
(* T-digest: centroids by ascending mean.                                  *)
DigestNew == [centroids |-> <<>>, total |-> 0]
WeightBefore(cs, i) == FoldLeft(LAMBDA n, c : n + c.weight, 0, SubSeq(cs, 1, i - 1))

(* The weight centroid i may have, given its place among the quantiles.    *)
MaxWeight(before, weight, n) ==
    LET q == Frac(2 * before + weight, 2 * n)
    IN Times(Frac(4 * n, Compression), Times(q, Minus(Whole(1), q)))
Fits(before, weight, more, n) == AtMost(Whole(weight + more), MaxWeight(before, weight, n))
Joined(c, mean, weight) ==
    [mean |-> WeightedMean(c.weight, c.mean, weight, mean), weight |-> c.weight + weight]

CompressStep(acc, c, n) ==
    LET last == Len(acc)
    IN IF acc = <<>> THEN <<c>>
       ELSE IF Fits(WeightBefore(acc, last), acc[last].weight, c.weight, n)
       THEN [acc EXCEPT ![last] = Joined(@, c.mean, c.weight)]
       ELSE Append(acc, c)
Compress(cs, n) ==
    FoldLeft(LAMBDA acc, c : CompressStep(acc, c, n), <<>>,
             SortSeq(cs, LAMBDA a, b : Below(a.mean, b.mean)))

(* add: binary_search_by may return any of the centroids with the mean x.  *)
MutPlaces(cs, x) == {Max({1, Cardinality({j \in DOMAIN cs : Below(cs[j].mean, x)})})}
Places(cs, x) ==
    LET equal == {j \in DOMAIN cs : cs[j].mean = x}
    IN IF equal # {} THEN equal
       ELSE {Cardinality({j \in DOMAIN cs : Below(cs[j].mean, x)}) + 1}
Nearest(cs, at, x) ==
    IF at > 1 /\ (at > Len(cs) \/ AtMost(Distance(cs[at - 1].mean, x), Distance(cs[at].mean, x)))
    THEN at - 1 ELSE at
DigestUpdate(s, v, at) ==
    LET cs == s.centroids
        best == Nearest(cs, at, Whole(v))
        added == IF Fits(WeightBefore(cs, best), cs[best].weight, 1, s.total)
                 THEN [cs EXCEPT ![best] = Joined(@, Whole(v), 1)]
                 ELSE InsertAt(cs, at, [mean |-> Whole(v), weight |-> 1])
    IN IF cs = <<>> THEN [centroids |-> <<[mean |-> Whole(v), weight |-> 1]>>, total |-> 1]
       ELSE [centroids |-> IF Len(added) > Compression * CentroidLimit
                           THEN Compress(added, s.total + 1) ELSE added,
             total |-> s.total + 1]
MutDigestMerge(s, o) == [centroids |-> s.centroids \o o.centroids, total |-> s.total + o.total]
DigestMerge(s, o) ==
    [centroids |-> Compress(s.centroids \o o.centroids, s.total + o.total),
     total |-> s.total + o.total]

(* quantile: the mean of the centroid that holds the rank, moved towards   *)
(* that of the next one.                                                   *)
Quantile(s, q) ==
    LET cs == s.centroids
        target == Times(q, Whole(s.total))
        holds == {i \in DOMAIN cs : Below(target, Whole(WeightBefore(cs, i + 1)))}
        i == Min(holds)
        offset == Over(Minus(target, Whole(WeightBefore(cs, i))), Whole(cs[i].weight))
        next == IF i < Len(cs) THEN cs[i + 1].mean ELSE cs[i].mean
    IN IF cs = <<>> THEN Null
       ELSE IF holds = {} THEN Last(cs).mean
       ELSE Plus(cs[i].mean, Times(offset, Minus(next, cs[i].mean)))

(* approx_quantile: the quantile asked for, NULL if there are no rows.     *)
ApproxQuantileFinalize(s, quantile) == Quantile(s, quantile)

-----------------------------------------------------------------------------
Unary == {"sum", "avg", "count", "min", "max", "bit_and", "bit_or", "bool_and", "bool_or",
          "first", "string_agg", "var_samp", "var_pop", "stddev_samp", "stddev_pop",
          "approx_count_distinct", "approx_quantile"}
Kept == {"min", "max", "bit_and", "bit_or"}
Variances == {"var_samp", "var_pop", "stddev_samp", "stddev_pop"}
Covariances == {"covar_samp", "covar_pop"}

(* The arguments: a Boolean or a non-negative integer where one is needed. *)
Bits(y) == y % 4
Truth(y) == y > 0

New(f) ==
    CASE f = "sum" -> SumNew
      [] f \in {"avg", "regr_avgx", "regr_avgy"} -> AvgNew
      [] f \in {"count", "regr_count"} -> 0
      [] f \in Kept -> [value |-> 0, valid |-> FALSE]
      [] f = "bool_and" -> [result |-> TRUE, valid |-> FALSE]
      [] f = "bool_or" -> [result |-> FALSE, valid |-> FALSE]
      [] f \in {"first", "string_agg"} -> Null
      [] f \in Variances -> VarianceNew
      [] f \in Covariances -> CovarNew
      [] f \in {"corr", "regr_r2"} -> CorrNew
      [] f = "regr_slope" -> SlopeNew
      [] f = "approx_count_distinct" -> HllNew
      [] f = "approx_quantile" -> DigestNew

(* The states a row leads to: one, except where a t-digest has a choice.   *)
Updated(f, s, y, x) ==
    CASE f = "sum" -> {SumUpdate(s, y)}
      [] f = "avg" -> {AvgUpdate(s, y)}
      [] f \in {"regr_avgx", "regr_avgy"} -> {AvgUpdate(s, RegrAvgInput(f, <<y, x>>))}
      [] f \in {"count", "regr_count"} -> {CountUpdate(s)}
      [] f \in {"min", "max"} -> {KeptUpdate(f, s, y)}
      [] f \in {"bit_and", "bit_or"} -> {KeptUpdate(f, s, Bits(y))}
      [] f = "bool_and" -> {BoolAndUpdate(s, Truth(y))}
      [] f = "bool_or" -> {BoolOrUpdate(s, Truth(y))}
      [] f = "first" -> {FirstUpdate(s, y)}
      [] f = "string_agg" -> {StringAggUpdate(s, y)}
      [] f \in Variances -> {VarianceUpdate(s, y)}
      [] f \in Covariances -> {CovarUpdate(s, y, x)}
      [] f \in {"corr", "regr_r2"} -> {CorrUpdate(s, y, x)}
      [] f = "regr_slope" -> {SlopeUpdate(s, y, x)}
      [] f = "approx_count_distinct" -> {ApproxDistinctUpdate(s, y)}
      [] f = "approx_quantile" -> {DigestUpdate(s, y, at) : at \in Places(s.centroids, Whole(y))}

Combined(f, s, o) ==
    CASE f = "sum" -> SumMerge(s, o)
      [] f \in {"avg", "regr_avgx", "regr_avgy"} -> AvgMerge(s, o)
      [] f \in {"count", "regr_count"} -> CountMerge(s, o)
      [] f \in Kept -> KeptMerge(f, s, o)
      [] f = "bool_and" -> BoolAndMerge(s, o)
      [] f = "bool_or" -> BoolOrMerge(s, o)
      [] f = "first" -> FirstMerge(s, o)
      [] f = "string_agg" -> StringAggMerge(s, o)
      [] f \in Variances -> VarianceMerge(s, o)
      [] f \in Covariances -> CovarMerge(s, o)
      [] f \in {"corr", "regr_r2"} -> CorrMerge(s, o)
      [] f = "regr_slope" -> SlopeMerge(s, o)
      [] f = "approx_count_distinct" -> HllMerge(s, o)
      [] f = "approx_quantile" -> DigestMerge(s, o)

Finalized(f, s) ==
    CASE f = "sum" -> SumFinalize(s)
      [] f \in {"avg", "regr_avgx", "regr_avgy"} -> AvgFinalize(s)
      [] f \in Kept -> KeptFinalize(s)
      [] f \in {"bool_and", "bool_or"} -> BoolFinalize(s)
      [] f \in {"count", "regr_count", "first", "string_agg", "approx_count_distinct"} -> s
      [] f \in {"var_samp", "var_pop"} -> VarianceFinalize(f, s.count, s.m2)
      [] f \in {"stddev_samp", "stddev_pop"} -> Root(VarianceFinalize(f, s.count, s.m2))
      [] f \in Covariances -> CovarFinalize(f, s.count, s.co_moment)
      [] f = "corr" -> CorrFinalize(s)
      [] f = "regr_r2" -> R2Finalize(s)
      [] f = "regr_slope" -> SlopeFinalize(s)

-----------------------------------------------------------------------------
Counted(f, row) == row[1] # Null /\ (f \in Unary \/ row[2] # Null)

TypeOK == /\ func \in Aggregates
          /\ merged \subseteq Partitions
          /\ \A p \in Partitions : seen[p] \in Seq(Rows)

Init == /\ func \in Aggregates
        /\ states = [p \in Partitions |-> New(func)]
        /\ merged = {}
        /\ seen = [p \in Partitions |-> <<>>]

(* A partition updates its state by a row; a row with a NULL is skipped.   *)
Update(p, row) ==
    /\ merged = {}
    /\ FoldFunction(LAMBDA rows, n : Len(rows) + n, 0, seen) < MaxRows
    /\ seen' = [seen EXCEPT ![p] = Append(@, row)]
    /\ IF Counted(func, row)
       THEN \E s \in Updated(func, states[p], row[1], row[2]) : states' = [states EXCEPT ![p] = s]
       ELSE UNCHANGED states
    /\ UNCHANGED <<func, merged>>

(* combine: the state of q is merged into that of p.                       *)
Combine(p, q) ==
    /\ p # q
    /\ {p, q} \cap merged = {}
    /\ states' = [states EXCEPT ![p] = Combined(func, states[p], states[q])]
    /\ seen' = [seen EXCEPT ![p] = @ \o seen[q]]
    /\ merged' = merged \cup {q}
    /\ UNCHANGED func

Done == Cardinality(Partitions \ merged) = 1 /\ UNCHANGED vars

Next == \/ \E p \in Partitions, row \in Rows : Update(p, row)
        \/ \E p, q \in Partitions : Combine(p, q)
        \/ Done
Spec == Init /\ [][Next]_vars

-----------------------------------------------------------------------------
(* The functions as SQL defines them, over all rows of a state at once.    *)
Total(s) == FoldLeft(LAMBDA n, v : n + v, 0, s)
Reference(f, rows) ==
    LET used == SelectSeq(rows, LAMBDA row : Counted(f, row))
        n == Len(used)
        ys == [i \in DOMAIN used |-> used[i][1]]
        xs == [i \in DOMAIN used |-> used[i][2]]
        bits == {Bits(y) : y \in Range(ys)}
        (* n^2 times the covariance of two columns. *)
        Cov(a, b) == n * Total([i \in DOMAIN a |-> a[i] * b[i]]) - Total(a) * Total(b)
        Sample(v) == IF n <= 1 THEN Null ELSE Frac(v, n * (n - 1))
        Population(v) == IF n = 0 THEN Null ELSE Frac(v, n * n)
    IN CASE f \in {"count", "regr_count"} -> n
         [] f = "var_samp" -> Sample(Cov(ys, ys))
         [] f = "var_pop" -> Population(Cov(ys, ys))
         [] f = "stddev_samp" -> Root(Sample(Cov(ys, ys)))
         [] f = "stddev_pop" -> Root(Population(Cov(ys, ys)))
         [] f = "covar_samp" -> Sample(Cov(xs, ys))
         [] f = "covar_pop" -> Population(Cov(xs, ys))
         [] f = "corr" -> IF n = 0 \/ Cov(xs, xs) * Cov(ys, ys) = 0 THEN Null
                          ELSE [covar |-> Frac(Cov(xs, ys), n * n),
                                over |-> [sqrt |-> Frac(Cov(xs, xs) * Cov(ys, ys), n * n * n * n)]]
         [] f = "regr_r2" -> IF n = 0 \/ Cov(xs, xs) * Cov(ys, ys) = 0 THEN Null
                             ELSE Frac(Cov(xs, ys) * Cov(xs, ys), Cov(xs, xs) * Cov(ys, ys))
         [] f = "regr_slope" -> IF n = 0 \/ Cov(xs, xs) = 0 THEN Null
                                ELSE Frac(Cov(xs, ys), Cov(xs, xs))
         [] f = "approx_count_distinct" ->
              [r \in Registers |-> Max({0} \cup {HllRank(Hash[y]) : y \in {v \in Range(ys) : HllIndex(Hash[v]) = r}})]
         [] n = 0 -> Null
         [] f = "sum" -> Total(ys)
         [] f \in {"avg", "regr_avgy"} -> Frac(Total(ys), n)
         [] f = "regr_avgx" -> Frac(Total(xs), n)
         [] f = "min" -> Min(Range(ys))
         [] f = "max" -> Max(Range(ys))
         [] f = "bit_and" -> SumSet({b \in {1, 2} : \A v \in bits : (v \div b) % 2 = 1})
         [] f = "bit_or" -> SumSet({b \in {1, 2} : \E v \in bits : (v \div b) % 2 = 1})
         [] f = "bool_and" -> \A y \in Range(ys) : Truth(y)
         [] f = "bool_or" -> \E y \in Range(ys) : Truth(y)
         [] f = "first" -> ys[1]
         [] f = "string_agg" -> [i \in 1 .. 2 * n - 1 |-> IF i % 2 = 1 THEN ys[(i + 1) \div 2] ELSE Sep]

(* No sum of some of the rows overflows, however they are added up.        *)
SumsFit(rows) ==
    LET ys == [i \in DOMAIN rows |-> IF rows[i][1] = Null THEN 0 ELSE rows[i][1]]
    IN /\ Total(SelectSeq(ys, LAMBDA y : y > 0)) <= MaxSum
       /\ Total(SelectSeq(ys, LAMBDA y : y < 0)) >= -MaxSum - 1

(* However the rows are spread over partitions and in whatever order the   *)
(* partial states are merged (also empty ones), a function returns what it *)
(* is defined to be over the rows of the group.  A sum does so only while  *)
(* no partial sum can overflow: one that does starts again from zero       *)
(* (sum.rs unwrap_or_default, marked TODO), the rest is added to that, and *)
(* which number comes out depends on the order of the merges.              *)
MergesAgree ==
    func # "approx_quantile" =>
        \A p \in Partitions \ merged :
            IF func = "sum" /\ ~SumsFit(seen[p])
            THEN Finalized(func, states[p]) \in -MaxSum - 1 .. MaxSum
            ELSE Finalized(func, states[p]) = Reference(func, seen[p])

(* A t-digest keeps "Sorted list of centroids by ascending mean", the      *)
(* number of the rows and their mean; its quantiles do not decrease and    *)
(* stay between the smallest and the largest row.                          *)
DigestIsSound ==
    func = "approx_quantile" =>
        \A p \in Partitions \ merged :
            LET s == states[p]
                cs == s.centroids
                ys == LET used == SelectSeq(seen[p], LAMBDA row : Counted(func, row))
                      IN [i \in DOMAIN used |-> used[i][1]]
                quartiles == [k \in 1 .. 5 |-> ApproxQuantileFinalize(s, Frac(k - 1, 4))]
            IN /\ s.total = Len(ys)
               /\ WeightBefore(cs, Len(cs) + 1) = s.total
               /\ \A i \in 1 .. Len(cs) - 1 : AtMost(cs[i].mean, cs[i + 1].mean)
               /\ FoldLeft(LAMBDA t, c : Plus(t, Times(Whole(c.weight), c.mean)), Whole(0), cs) = Whole(Total(ys))
               /\ IF ys = <<>> THEN \A k \in 1 .. 5 : quartiles[k] = Null
                  ELSE /\ AtMost(Whole(Min(Range(ys))), quartiles[1])
                       /\ AtMost(quartiles[5], Whole(Max(Range(ys))))
                       /\ \A k \in 1 .. 4 : AtMost(quartiles[k], quartiles[k + 1])
=============================================================================
