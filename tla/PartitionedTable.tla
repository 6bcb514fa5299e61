--------------------------- MODULE PartitionedTable ---------------------------
(***************************************************************************)
(* The partitioned aggregate hash table (hash_aggregate/hash_table): every *)
(* task fills tables of its own, one for each output partition; flush      *)
(* hands them over; merge_global folds the tables of one output partition  *)
(* into its final table; and scan reads a disjoint set of the blocks of    *)
(* every final table.  A table is the sequence of its rows: a key, a       *)
(* count, and a count of distinct inputs.  AggregateTable models one table *)
(* with its directory.                                                     *)
(***************************************************************************)
EXTENDS Naturals, Sequences, FiniteSets

CONSTANTS
    N,         \* the number of partitions
    Hash,      \* the hash of a key, below 2^HashWidth
    HashWidth,
    BlockRows  \* rows in a block of a table

Parts == 0 .. N - 1

(* Cardinality counts partitions, as it does whenever N is a number.       *)
Counted ==
    /\ N \in Nat /\ Cardinality(Parts) = N
    /\ \A ps \in SUBSET Parts :
          /\ Cardinality(ps) \in 0 .. N /\ (Cardinality(ps) = 0 <=> ps = {})
          /\ \A p \in ps : Cardinality(ps \ {p}) = Cardinality(ps) - 1

Put(f, x, value) == [y \in DOMAIN f \cup {x} |-> IF y = x THEN value ELSE f[y]]

partition(key) == (Hash[key] * N) \div 2 ^ HashWidth

(* find_or_create_groups, then update_states or combine_states.            *)
Update(table, row) ==
    IF \A i \in DOMAIN table : table[i].key # row.key
    THEN Append(table, row)
    ELSE [i \in DOMAIN table |->
             IF table[i].key # row.key THEN table[i]
             ELSE [table[i] EXCEPT !.n = @ + row.n, !.d = @ + row.d]]

Insert(table, rows) ==
    LET inserted[i \in 0 .. Len(rows)] ==
            IF i = 0 THEN table ELSE Update(inserted[i - 1], rows[i])
    IN inserted[Len(rows)]

(* flush: the table of task p for the output partition q.                  *)
Flushed(table, q) == SelectSeq(table, LAMBDA r : partition(r.key) = q)

(* merge_global: all tables flushed for one output partition.              *)
MergeGlobal(flushed) ==
    LET merged[n \in 0 .. N] == IF n = 0 THEN <<>> ELSE Insert(merged[n - 1], flushed[n - 1])
    IN merged[N]

(* scan: the rows of the blocks of all final tables that are p's to read.  *)
MutMine(p, i) == (i - 1) \div BlockRows >= p
Mine(p, i) == ((i - 1) \div BlockRows) % N = p

Share(table, p) ==
    LET mine == SelectSeq([i \in DOMAIN table |-> i], LAMBDA i : Mine(p, i))
    IN [i \in DOMAIN mine |-> table[mine[i]]]

Scan(final, p) ==
    LET scanned[n \in 0 .. N] ==
            IF n = 0 THEN <<>> ELSE scanned[n - 1] \o Share(final[N - n], p)
    IN scanned[N]
=============================================================================
