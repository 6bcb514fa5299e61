----------------------------- MODULE TableInsert -----------------------------
(***************************************************************************)
(* INSERT INTO t SELECT ... FROM t: the partitions of one pipeline scan a  *)
(* table (functions/table/builtin/memory_scan.rs) and append to the same   *)
(* table (operators/catalog/insert.rs).  A partition has one scan state    *)
(* and one append state, so Appenders = Scanners.                          *)
(***************************************************************************)
EXTENDS ColumnCollection, SequencesExt

CONSTANTS Initial, \* flushed segments of the table before the statement
          MaxRows  \* bound: rows in the table, since a scan may follow its own inserts

VARIABLES
    batch, \* the chunk a partition has scanned and not yet appended
    phase, \* "scan", "insert", "finalize", "done"
    count, \* rows a partition inserted, its output
    seen   \* rows scanned, in order

vars == <<collection, batch, phase, count, seen>>

Parts == Scanners
TotalCount == FoldLeft(LAMBDA n, p : n + count[p], 0, SetToSeq(Parts))
RowsOf(segs) == FlattenSeq(FlattenSeq(segs))
RowsInTable == RowsOf(segments)
InitialRows == RowsOf(Initial)

TypeOK ==
    /\ phase \in [Parts -> {"scan", "insert", "finalize", "done"}]
    /\ count \in [Parts -> 0 .. MaxRows]
    /\ \A p \in Parts : Len(pending[p]) < SegmentSize

Init ==
    /\ CollectionInit /\ segments = Initial
    /\ batch = [p \in Parts |-> <<>>]
    /\ phase = [p \in Parts |-> "scan"]
    /\ count = [p \in Parts |-> 0]
    /\ seen = <<>>

(* MemoryScan::poll_pull: HasMore with rows, Exhausted without.            *)
Pull(p) ==
    /\ phase[p] = "scan"
    /\ Scan(p)
    /\ batch' = [batch EXCEPT ![p] = Scanned(p)]
    /\ seen' = seen \o Scanned(p)
    /\ phase' = [phase EXCEPT ![p] = "insert"]
    /\ UNCHANGED <<segments, pending, count>>

Exhausted(p) ==
    /\ phase[p] = "scan"
    /\ ScanNothing(p)
    /\ phase' = [phase EXCEPT ![p] = "finalize"]
    /\ UNCHANGED <<segments, pending, batch, count, seen>>

(* PhysicalInsert::poll_execute.                                           *)
Insert(p) ==
    /\ phase[p] = "insert"
    /\ TotalCount + Len(batch[p]) + Len(InitialRows) <= MaxRows
    /\ count' = [count EXCEPT ![p] = @ + Len(batch[p])]
    /\ AppendBatch(p, batch[p], FALSE)
    /\ phase' = [phase EXCEPT ![p] = "scan"]
    /\ UNCHANGED <<scanState, batch, seen>>

(* PhysicalInsert::poll_finalize_execute, then the drain that returns the  *)
(* count.                                                                  *)
MutFinalFlush(p) == UNCHANGED <<segments, pending>>
FinalFlush(p) == Flush(p)

FinalizeExecute(p) ==
    /\ phase[p] = "finalize"
    /\ FinalFlush(p)
    /\ phase' = [phase EXCEPT ![p] = "done"]
    /\ UNCHANGED <<scanState, batch, count, seen>>

Next == \E p \in Parts : Pull(p) \/ Exhausted(p) \/ Insert(p) \/ FinalizeExecute(p)

Spec == Init /\ [][Next]_vars
-----------------------------------------------------------------------------
AllDone == \A p \in Parts : phase[p] = "done"
Occurrences(row, rows) == Cardinality({i \in DOMAIN rows : rows[i] = row})

(* Every row that was in the table when the scan states were created is    *)
(* read by the query, whatever is flushed meanwhile.                       *)
InitialRowsScanned == AllDone => ToSet(InitialRows) \subseteq ToSet(seen)

(* The statement reports as many rows as the table gained.                 *)
CountIsExact == AllDone => Len(RowsInTable) = Len(InitialRows) + TotalCount

(* "query: A query that returns the data to insert" (docs/sql/commands/    *)
(* insert.md): the statement inserts the rows the query returns on the     *)
(* table it found, each once; inserting a table into itself doubles it.    *)
InsertsWhatItFound ==
    AllDone => \A row \in ToSet(InitialRows) :
                  Occurrences(row, RowsInTable) = 2 * Occurrences(row, InitialRows)
=============================================================================
