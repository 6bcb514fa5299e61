--------------------------- MODULE ColumnCollection ---------------------------
(***************************************************************************)
(* ConcurrentColumnCollection (arrays/collection): appenders fill segments *)
(* of their own and flush them to a shared list; the scan states of one    *)
(* output share a counter from which they reserve the next segment.        *)
(* Materialize and TableInsert are built from these steps.  Each step is   *)
(* one critical section of `flushed` and what its caller does on its own.  *)
(***************************************************************************)
EXTENDS Naturals, Sequences, FiniteSets

CONSTANTS
    Appenders,    \* append states
    Scanners,     \* scan states
    Outputs,      \* groups of scan states created together
    Output,       \* the group of a scan state
    FirstSegment, \* partition_idx of a scan state: the segment it reads first
    ChunkCapacity, SegmentSize \* rows in a chunk, chunks in a segment

(* The scan states of an output have the first segments 0 .. Width(o) - 1. *)
Width(o) == Cardinality({s \in Scanners : Output[s] = o})

VARIABLES
    segments, \* flushed segments: sequences of chunks, a chunk is a sequence of rows
    pending,  \* the segment an append state is filling
    nextSeg,  \* shared counter of an output
    reserved, \* next_segment_idx of a scan state
    current,  \* index of the segment a scan state is in, or NoSegment
    chunkIdx  \* index of the next chunk in it

NoSegment == 0
collection == <<segments, pending, nextSeg, reserved, current, chunkIdx>>
scanState == <<nextSeg, reserved, current, chunkIdx>>

(* Segments are numbered from 1; the code counts from 0.                   *)
CollectionInit ==
    /\ pending = [a \in Appenders |-> <<>>]
    /\ nextSeg = [o \in Outputs |-> Width(o) + 1]
    /\ reserved = [s \in Scanners |-> FirstSegment[s] + 1]
    /\ current = [s \in Scanners |-> NoSegment]
    /\ chunkIdx = [s \in Scanners |-> 1]

-----------------------------------------------------------------------------
(* ColumnCollectionSegment::append_batch fills the last chunk and opens    *)
(* new ones: all chunks but the last are full.  A first batch without rows *)
(* leaves one empty chunk.                                                 *)
Chunks(rows) ==
    LET count == (Len(rows) + ChunkCapacity - 1) \div ChunkCapacity
    IN IF rows = <<>> THEN <<<<>>>>
       ELSE [i \in 1 .. count |->
                SubSeq(rows, (i - 1) * ChunkCapacity + 1,
                       IF i = count THEN Len(rows) ELSE i * ChunkCapacity)]

AppendToSegment(segment, batch) ==
    IF segment = <<>> THEN Chunks(batch)
    ELSE SubSeq(segment, 1, Len(segment) - 1) \o Chunks(segment[Len(segment)] \o batch)

(* flush: a segment without rows is dropped, zero rows end a scan.         *)
MutFlushed(segment) == Append(segments, segment)
Flushed(segment) ==
    IF \A i \in DOMAIN segment : segment[i] = <<>> THEN segments ELSE Append(segments, segment)

SegmentFull(segment) == Len(segment) >= SegmentSize

(* append_batch, followed by a flush when the segment is full or `force`.  *)
AppendBatch(a, batch, force) ==
    LET segment == AppendToSegment(pending[a], batch)
    IN IF force \/ SegmentFull(segment)
       THEN /\ segments' = Flushed(segment)
            /\ pending' = [pending EXCEPT ![a] = <<>>]
       ELSE /\ pending' = [pending EXCEPT ![a] = segment]
            /\ UNCHANGED segments

Flush(a) ==
    /\ segments' = Flushed(pending[a])
    /\ pending' = [pending EXCEPT ![a] = <<>>]

-----------------------------------------------------------------------------
(* parallel_scan: the next chunk of the current segment, else the first    *)
(* chunk of the reserved one, else no rows; the reservation is kept.       *)
MutInSegment(s) == current[s] # NoSegment /\ chunkIdx[s] < Len(segments[current[s]])
InSegment(s) == current[s] # NoSegment /\ chunkIdx[s] <= Len(segments[current[s]])
HasNext(s) == InSegment(s) \/ reserved[s] <= Len(segments)

NextChunk(s) == IF InSegment(s) THEN <<current[s], chunkIdx[s]>> ELSE <<reserved[s], 1>>
Scanned(s) == segments[NextChunk(s)[1]][NextChunk(s)[2]]

MutReserve(s) == reserved[s] + 1
Reserve(s) == nextSeg[Output[s]]

Scan(s) ==
    /\ HasNext(s)
    /\ IF InSegment(s)
       THEN /\ chunkIdx' = [chunkIdx EXCEPT ![s] = @ + 1]
            /\ UNCHANGED <<nextSeg, reserved, current>>
       ELSE /\ current' = [current EXCEPT ![s] = reserved[s]]
            /\ chunkIdx' = [chunkIdx EXCEPT ![s] = 2]
            /\ reserved' = [reserved EXCEPT ![s] = Reserve(s)]
            /\ nextSeg' = [nextSeg EXCEPT ![Output[s]] = @ + 1]

(* No more segments: the state forgets the segment it has read.            *)
ScanNothing(s) ==
    /\ ~HasNext(s)
    /\ current' = [current EXCEPT ![s] = NoSegment]
    /\ UNCHANGED <<nextSeg, reserved, chunkIdx>>
-----------------------------------------------------------------------------
Places == UNION {{k} \X DOMAIN segments[k] : k \in DOMAIN segments}

(* A chunk without rows would end the scan that meets it.                  *)
NoEmptyChunk ==
    \A i \in DOMAIN segments :
        /\ segments[i] # <<>>
        /\ \A j \in DOMAIN segments[i] : segments[i][j] # <<>>

(* Within an output no segment is read, or reserved, by two scan states,   *)
(* and every segment below the shared counter belongs to one of them or    *)
(* has been read.                                                          *)
ReservationsDisjoint ==
    \A s, t \in Scanners : s # t /\ Output[s] = Output[t] =>
        /\ reserved[s] # reserved[t]
        /\ current[s] # reserved[t]
        /\ current[s] # NoSegment => current[s] # current[t]
=============================================================================
