--------------------------- MODULE AggregateTable ---------------------------
(***************************************************************************)
(* The hash table of a GROUP BY (hash_aggregate/hash_table: base.rs and    *)
(* directory.rs): a directory of entries with linear probing, a growing    *)
(* collection of groups, and find_or_create_groups, which handles a batch  *)
(* in rounds: probe every row that needs a group, append the groups of the *)
(* rows that claimed an entry, compare the rows that met their hash, and   *)
(* go on with those that met another group.  Rows are groups; the          *)
(* aggregate is a count.                                                   *)
(***************************************************************************)
EXTENDS Integers, Sequences, FiniteSets, FiniteSetsExt

CONSTANTS
    Groups,
    Hash,       \* the hash of a group
    InitialCapacity,
    MaxBatch,   \* rows in a batch
    MaxRows     \* bound on the rows inserted

VARIABLES
    entries,      \* the directory: [hash, ptr] for each offset
    occupied,     \* num_occupied
    data,         \* appended groups; a pointer is an index into it
    counts,       \* the aggregate states
    batch, needsInsert, offsets, newGroups, needsCompare, ptrs, \* the call in progress
    pc,
    inserted      \* all rows given to the table

table == <<entries, occupied, data, counts>>
call == <<batch, needsInsert, offsets, newGroups, needsCompare, ptrs>>
vars == <<table, call, pc, inserted>>

NoPtr == 0
Dangling == -1
Empty == [hash |-> 0, ptr |-> NoPtr]
LoadNum == 7
LoadDen == 10

capacity == Cardinality(DOMAIN entries)

TypeOK ==
    /\ entries \in [0 .. capacity - 1 -> [hash : Nat, ptr : -1 .. Len(data)]]
    /\ counts \in [DOMAIN data -> Nat]
    /\ pc \in {"idle", "probe", "append", "compare", "update", "full"}
    /\ pc = "idle" => occupied = Cardinality({o \in DOMAIN entries : entries[o].ptr # NoPtr})

Init ==
    /\ entries = [o \in 0 .. InitialCapacity - 1 |-> Empty]
    /\ occupied = 0
    /\ data = <<>> /\ counts = <<>>
    /\ batch = <<>> /\ needsInsert = <<>> /\ offsets = <<>>
    /\ newGroups = <<>> /\ needsCompare = <<>> /\ ptrs = <<>>
    /\ pc = "idle"
    /\ inserted = <<>>

-----------------------------------------------------------------------------
inc_and_wrap_offset(offset, cap) == (offset + 1) % cap
compute_offset(hash, cap) == hash % cap

MutNeedsResize(n) == occupied + n > capacity + 1
needs_resize(n) == (occupied + n) * LoadDen > capacity * LoadNum

NextPowerOfTwo(n) == Min({c \in {2 ^ i : i \in 0 .. n} : c >= n})

(* The first of the offsets `hits` on the way from `start`, or NoOffset.    *)
NoOffset == -1
Walk(start, cap) == [i \in 0 .. cap - 1 |-> (start + i) % cap]
FirstFrom(start, cap, hits) ==
    LET at == {i \in 0 .. cap - 1 : Walk(start, cap)[i] \in hits}
    IN IF at = {} THEN NoOffset ELSE Walk(start, cap)[Min(at)]

(* Directory::resize: entries are placed again, in their old order.        *)
Place(new, entry) ==
    LET cap == Cardinality(DOMAIN new)
        at == FirstFrom(compute_offset(entry.hash, cap), cap, {o \in DOMAIN new : new[o].ptr = NoPtr})
    IN [new EXCEPT ![at] = entry]

MutResize(cap) ==
    [o \in 0 .. cap - 1 |-> IF o < capacity THEN entries[o] ELSE Empty]
resize(cap) ==
    LET old == SelectSeq([i \in 1 .. capacity |-> entries[i - 1]], LAMBDA e : e.ptr # NoPtr)
        place[i \in 0 .. Len(old)] ==
            IF i = 0 THEN [o \in 0 .. cap - 1 |-> Empty] ELSE Place(place[i - 1], old[i])
    IN place[Len(old)]

(* insert_with_hashes, up to the first round.                              *)
Begin(rows) ==
    LET n == Len(rows)
        newCap == IF needs_resize(n)
                  THEN NextPowerOfTwo(Max({capacity * 2, n + capacity})) ELSE capacity
    IN /\ pc = "idle" /\ Len(inserted) + n <= MaxRows
       /\ entries' = IF needs_resize(n) THEN resize(newCap) ELSE entries
       /\ batch' = rows
       /\ offsets' = [i \in DOMAIN rows |-> compute_offset(Hash[rows[i]], newCap)]
       /\ needsInsert' = [i \in DOMAIN rows |-> i]
       /\ newGroups' = <<>> /\ needsCompare' = <<>>
       /\ ptrs' = [i \in DOMAIN rows |-> NoPtr]
       /\ pc' = "probe"
       /\ inserted' = inserted \o rows
       /\ UNCHANGED <<occupied, data, counts>>

(* Probe for the next row: claim an empty entry, or stop at its hash.      *)
ProbeRow ==
    LET row == Head(needsInsert)
        hash == Hash[batch[row]]
        at == FirstFrom(offsets[row], capacity,
                        {o \in DOMAIN entries : entries[o].ptr = NoPtr \/ entries[o].hash = hash})
    IN /\ pc = "probe" /\ needsInsert # <<>>
       /\ IF at = NoOffset
          THEN /\ pc' = "full"
               /\ UNCHANGED <<entries, offsets, newGroups, needsCompare, needsInsert>>
          ELSE /\ offsets' = [offsets EXCEPT ![row] = at]
               /\ IF entries[at].ptr = NoPtr
                  THEN /\ entries' = [entries EXCEPT ![at] = [hash |-> hash, ptr |-> Dangling]]
                       /\ newGroups' = Append(newGroups, row)
                       /\ UNCHANGED needsCompare
                  ELSE /\ needsCompare' = Append(needsCompare, row)
                       /\ UNCHANGED <<entries, newGroups>>
               /\ needsInsert' = Tail(needsInsert)
               /\ pc' = IF Tail(needsInsert) = <<>> THEN "append" ELSE "probe"
       /\ UNCHANGED <<occupied, data, counts, batch, ptrs, inserted>>

(* append_groups, and the real pointers.  The groups are counted here, and *)
(* by the code when the call ends; nothing reads the count in between.     *)
Counted(n) == occupied + n

AppendGroups ==
    LET n == Len(newGroups)
        claimed == {offsets[newGroups[i]] : i \in 1 .. n}
        index(o) == CHOOSE i \in 1 .. n : offsets[newGroups[i]] = o
    IN /\ pc = "append"
       /\ data' = data \o [i \in 1 .. n |-> batch[newGroups[i]]]
       /\ counts' = counts \o [i \in 1 .. n |-> 0]
       /\ entries' = [o \in DOMAIN entries |->
                        IF o \in claimed THEN [entries[o] EXCEPT !.ptr = Len(data) + index(o)]
                        ELSE entries[o]]
       /\ ptrs' = [r \in DOMAIN ptrs |->
                     IF \E i \in 1 .. n : newGroups[i] = r
                     THEN Len(data) + (CHOOSE i \in 1 .. n : newGroups[i] = r) ELSE ptrs[r]]
       /\ occupied' = Counted(n)
       /\ newGroups' = <<>>
       /\ pc' = "compare"
       /\ UNCHANGED <<batch, needsInsert, offsets, needsCompare, inserted>>

MutMatches(row) == Hash[data[entries[offsets[row]].ptr]] = Hash[batch[row]]
Matches(row) == data[entries[offsets[row]].ptr] = batch[row]

(* find_matches: rows that met another group go on at the next offset.     *)
Compare ==
    LET missed == SelectSeq(needsCompare, LAMBDA r : ~Matches(r))
        met == {needsCompare[i] : i \in DOMAIN needsCompare}
    IN /\ pc = "compare"
       /\ ptrs' = [r \in DOMAIN ptrs |-> IF r \in met THEN entries[offsets[r]].ptr ELSE ptrs[r]]
       /\ offsets' = [r \in DOMAIN offsets |->
                        IF r \in {missed[i] : i \in DOMAIN missed}
                        THEN inc_and_wrap_offset(offsets[r], capacity) ELSE offsets[r]]
       /\ needsInsert' = missed
       /\ needsCompare' = <<>>
       /\ pc' = IF missed = <<>> THEN "update" ELSE "probe"
       /\ UNCHANGED <<table, batch, newGroups, inserted>>

(* update_states through the row pointers.                                 *)
UpdateStates ==
    /\ pc = "update"
    /\ counts' = [i \in DOMAIN counts |->
                    counts[i] + Cardinality({r \in DOMAIN ptrs : ptrs[r] = i})]
    /\ batch' = <<>> /\ offsets' = <<>> /\ ptrs' = <<>>
    /\ pc' = "idle"
    /\ UNCHANGED <<entries, occupied, data, needsInsert, newGroups, needsCompare, inserted>>

-----------------------------------------------------------------------------
InputBatches == UNION {[1 .. n -> Groups] : n \in 1 .. MaxBatch}

Call == ProbeRow \/ AppendGroups \/ Compare \/ UpdateStates
Next == Call \/ \E rows \in InputBatches : Begin(rows)

FairSpec == Init /\ [][Next]_vars /\ WF_vars(Call)
-----------------------------------------------------------------------------
(* The table holds every group once and counts all its rows, whatever      *)
(* hashes collide and whenever the directory grew.                         *)
CountsAreRight ==
    pc = "idle" =>
        /\ \A i, j \in DOMAIN data : data[i] = data[j] => i = j
        /\ \A i \in DOMAIN data :
              counts[i] = Cardinality({r \in DOMAIN inserted : inserted[r] = data[i]})
        /\ \A r \in DOMAIN inserted : \E i \in DOMAIN data : data[i] = inserted[r]

(* Every entry can be found: no empty entry lies between the offset of its *)
(* hash and the entry, also across the end of the directory.               *)
NoProbeGap ==
    \A o \in DOMAIN entries : entries[o].ptr # NoPtr =>
        LET start == compute_offset(entries[o].hash, capacity)
            length == (o - start) % capacity
        IN \A i \in 0 .. length : entries[(start + i) % capacity].ptr # NoPtr

(* "We wrapped. This shouldn't happen during normal execution as the hash  *)
(* table should've been resized to fit everything."                        *)
NeverFull == pc # "full"
=============================================================================
