---------------------------- MODULE CatalogProofs ----------------------------
(***************************************************************************)
(* The catalog and the storage manager for any number of concurrent        *)
(* statements and names.                                                   *)
(***************************************************************************)
EXTENDS Catalog, FiniteSetTheorems, TLAPS

Linked(id) == \E g \in Schemas, n \in Names : entries[g][n] = id

(* Between insert_table and CatalogMap::create_entry.                      *)
Unpublished(s) == pc[s] \in {"lookup", "create"}

(* Each CREATE SCHEMA makes one schema at most.                            *)
SchemaMakers == {s \in Statements : pc[s] = "ok" /\ Kind(s) = "schema"}
SchemasInv == schemas <= 1 + Cardinality(SchemaMakers) /\ schema <= schemas

KindInv ==
    \A s \in Statements :
        /\ pc[s] \in {"build", "lookup", "create", "confirm"} => Kind(s) \in {"table", "view"}
        /\ pc[s] \in {"run", "free"} => Kind(s) \notin {"table", "view"}
        /\ pc[s] \in {"bind", "build", "run"} => entry[s] = NoEntry

(* An entry is in one place: no two slots hold it, no slot holds the one   *)
(* of a statement that has yet to publish it or has unlinked it, and       *)
(* nobody else knows an unpublished one.                                   *)
PlaceInv ==
    /\ storage \cap views = {}
    /\ \A g \in Schemas, n \in Names : entries[g][n] < nextId
    /\ \A g, h \in Schemas, n, m \in Names :
          entries[g][n] = entries[h][m] /\ entries[g][n] # NoEntry => g = h /\ n = m
    /\ \A s \in Statements : Unpublished(s) =>
          /\ entry[s] \in storage \cup views
          /\ ~Linked(entry[s])
          /\ \A t \in Statements \ {s} : entry[t] # entry[s]
    /\ \A s \in Statements : pc[s] = "free" => ~Linked(entry[s]) /\ entry[s] # NoEntry

(* OrphansAreKnown, one case at a time, but for the schema an entry is in. *)
Dropped(id) == \E s \in Statements : Kind(s) = "drop" /\ entry[s] = id
Unlinkable(s, id) ==
    /\ s \in Creators /\ entry[s] = id
    /\ pc[s] \in {"lookup", "create", "err"} \/ (pc[s] = "ok" /\ Mode(s) = "ignore")
Failed(id) == (\E s \in Statements : Unlinkable(s, id)) /\ ~Dropped(id)
Accounted == \A id \in storage : Linked(id) \/ BeingFreed(id) \/ Failed(id)

IInv ==
    /\ TypeOK /\ SchemasInv /\ KindInv /\ PlaceInv
    /\ EntryHasStorage /\ Accounted

-----------------------------------------------------------------------------
USE DEF Kind, Mode, At, Go, NoSchema, NoEntry

LEMMA OpTypes ==
    ASSUME NEW o \in Ops
    PROVE  o.name \in Names
  BY DEF Ops

LEMMA InitIInv == Init => IInv
<1> SUFFICES ASSUME Init PROVE IInv
  OBVIOUS
<1> USE StatementsAssumption, FS_CardinalityType
<1>1. TypeOK
  BY DEF Init, TypeOK, Schemas, Steps
<1>2. SchemasInv
  <2>1. SchemaMakers = {}
    BY DEF Init, SchemaMakers
  <2> QED
    BY <2>1, FS_EmptySet DEF Init, SchemasInv
<1>3. KindInv /\ PlaceInv
  BY DEF Init, KindInv, PlaceInv, Unpublished, Schemas
<1>4. EntryHasStorage /\ Accounted
  BY DEF Init, EntryHasStorage, Accounted
<1> QED
  BY <1>1, <1>2, <1>3, <1>4 DEF IInv

(* More statements at "ok" leave room for the schemas there are.           *)
LEMMA SchemasKept ==
    ASSUME IInv, NEW s \in Statements, pc[s] # "ok",
           pc' = [pc EXCEPT ![s] = pc'[s]], UNCHANGED <<op, schemas>>, schema' <= schemas
    PROVE  SchemasInv'
<1>1. SchemaMakers \subseteq SchemaMakers' /\ SchemaMakers' \subseteq Statements
  BY DEF SchemaMakers, IInv, TypeOK
<1>2. IsFiniteSet(SchemaMakers') /\ Cardinality(SchemaMakers) <= Cardinality(SchemaMakers')
  BY <1>1, StatementsAssumption, FS_Subset
<1>3. Cardinality(SchemaMakers) \in Nat /\ Cardinality(SchemaMakers') \in Nat /\ schemas \in Nat
  BY SMTT(40), <1>1, <1>2, FS_Subset, FS_CardinalityType DEF IInv, TypeOK, Schemas
<1> QED
  BY <1>2, <1>3 DEF IInv, SchemasInv

(* What Bind does to the statement, whatever its kind.                     *)
Bound(s, step, e, g) ==
    /\ pc[s] = "bind" /\ pc' = [pc EXCEPT ![s] = step]
    /\ entry' = [entry EXCEPT ![s] = e]
    /\ target' = [target EXCEPT ![s] = g]
    /\ step = "build" => Kind(s) \in {"table", "view"} /\ e = NoEntry
    /\ step = "run" => Kind(s) \notin {"table", "view"}
    /\ step = "run" \/ Kind(s) = "drop" => e = NoEntry
    /\ UNCHANGED <<op, schema, schemas, entries, views, storage, nextId>>

LEMMA BindBounds ==
    ASSUME IInv, NEW s \in Statements, Bind(s)
    PROVE  \E step \in {"err", "build", "open", "run"},
              e \in {NoEntry, entries[schema][op[s].name]}, g \in {target[s], schema} :
                 Bound(s, step, e, g)
<1>1. entry = [entry EXCEPT ![s] = NoEntry] /\ target = [target EXCEPT ![s] = target[s]]
  BY DEF IInv, TypeOK, KindInv, Bind
<1>2. CASE Kind(s) \in {"table", "view"}
  BY <1>1, <1>2 DEF Bind, Bound
<1>3. CASE Kind(s) = "use"
  BY SMTT(40), <1>3 DEF Bind, Bound
<1>4. CASE Kind(s) \notin {"table", "view", "use"}
  BY <1>1, <1>4 DEF Bind, Bound
<1> QED
  BY <1>2, <1>3, <1>4

LEMMA BindIInv ==
    ASSUME IInv, NEW s \in Statements, Bind(s)
    PROVE  IInv'
<1> USE DEF IInv
<1>0. op[s].name \in Names /\ schema \in Schemas /\ schema \in Nat
  BY OpTypes, StatementsAssumption, FS_CardinalityType DEF TypeOK, Schemas
<1>1. PICK step \in {"err", "build", "open", "run"},
           e \in {NoEntry, entries[schema][op[s].name]}, g \in {target[s], schema} :
              Bound(s, step, e, g)
  BY BindBounds
<1>2. e \in 0 .. nextId - 1 /\ g \in Schemas /\ (e = NoEntry \/ Linked(e))
  BY <1>0 DEF TypeOK, PlaceInv, Linked
<1>3. TypeOK'
  BY <1>1, <1>2 DEF Bound, TypeOK, Steps
<1>4. SchemasInv'
  <2>1. schema' <= schemas /\ UNCHANGED <<op, schemas>>
    BY <1>1 DEF SchemasInv, Bound
  <2>2. pc[s] # "ok" /\ pc' = [pc EXCEPT ![s] = pc'[s]]
    BY <1>1 DEF Bound, TypeOK
  <2> QED
    BY <2>1, <2>2, SchemasKept
<1>5. KindInv'
  BY <1>1 DEF KindInv, TypeOK, Bound
<1>6. PlaceInv'
  <2>1. ASSUME NEW t \in Statements, Unpublished(t) PROVE e # entry[t] /\ t # s
    BY <1>1, <1>2, <2>1 DEF PlaceInv, Unpublished, Bound, TypeOK
  <2>2. \A id : Linked(id)' <=> Linked(id)
    BY <1>1 DEF Linked, Bound
  <2> QED
    BY <1>1, <2>1, <2>2 DEF PlaceInv, Unpublished, TypeOK, Bound
<1>7. EntryHasStorage'
  BY <1>1 DEF EntryHasStorage, Bound
<1>8. Accounted'
  <2> SUFFICES ASSUME NEW id \in storage PROVE (Linked(id) \/ BeingFreed(id) \/ Failed(id))'
    BY <1>1 DEF Accounted, Bound
  <2>1. id # NoEntry /\ entry[s] = NoEntry
    BY <1>1 DEF TypeOK, KindInv, Bound
  <2>2. Linked(id) => Linked(id)'
    BY <1>1 DEF Linked, Bound
  <2>3. BeingFreed(id) => BeingFreed(id)'
    BY <1>1, <2>1 DEF BeingFreed, Bound, TypeOK
  <2>4. (\E t \in Statements : Unlinkable(t, id)) => (\E t \in Statements : Unlinkable(t, id))'
    BY <1>1, <2>1 DEF Unlinkable, Creators, Bound, TypeOK
  <2>5. Dropped(id)' => Dropped(id)
    BY <1>1, <2>1 DEF Dropped, Bound, TypeOK
  <2> QED
    BY <2>2, <2>3, <2>4, <2>5 DEF Accounted, Failed
<1> QED
  BY <1>3, <1>4, <1>5, <1>6, <1>7, <1>8

(* A step that changes no map.                                             *)
LEMMA QuietIInv ==
    ASSUME IInv, NEW s \in Statements, Open(s) \/ Lookup(s) \/ Confirm(s)
    PROVE  IInv'
<1> USE DEF IInv
<1>1. TypeOK'
  BY Zenon DEF Open, Lookup, Confirm, TypeOK, Steps
<1>2. SchemasInv'
  <2>1. schema <= schemas /\ UNCHANGED <<op, schemas, schema>>
    BY DEF SchemasInv, Open, Lookup, Confirm
  <2>2. pc[s] # "ok" /\ pc' = [pc EXCEPT ![s] = pc'[s]]
    BY DEF Open, Lookup, Confirm, TypeOK
  <2> QED
    BY <2>1, <2>2, SchemasKept
<1>3. KindInv'
  BY DEF KindInv, TypeOK, Open, Lookup, Confirm
<1>4. PlaceInv'
  <2>1. UNCHANGED <<entries, entry, storage, views, nextId>>
    BY DEF Open, Lookup, Confirm
  <2>2. ASSUME NEW t \in Statements
        PROVE  (Unpublished(t)' => Unpublished(t)) /\ (pc'[t] = "free" => pc[t] = "free")
    BY DEF Unpublished, Open, Lookup, Confirm, TypeOK
  <2>3. \A id : Linked(id)' <=> Linked(id)
    BY <2>1 DEF Linked
  <2> QED
    BY <2>1, <2>2, <2>3 DEF PlaceInv
<1>5. EntryHasStorage'
  BY DEF EntryHasStorage, Open, Lookup, Confirm
<1>6. Accounted'
  <2> SUFFICES ASSUME NEW id \in storage PROVE (Linked(id) \/ BeingFreed(id) \/ Failed(id))'
    BY DEF Accounted, Open, Lookup, Confirm
  <2>1. Linked(id) => Linked(id)'
    BY DEF Linked, Open, Lookup, Confirm
  <2>2. BeingFreed(id) => BeingFreed(id)'
    BY DEF BeingFreed, Open, Lookup, Confirm, TypeOK
  <2>3. ASSUME NEW t \in Statements, Unlinkable(t, id) PROVE Unlinkable(t, id)'
    BY <2>3 DEF Unlinkable, Creators, Open, Lookup, Confirm, TypeOK, KindInv
  <2>4. Dropped(id)' => Dropped(id)
    BY DEF Dropped, Open, Lookup, Confirm
  <2> QED
    BY <2>1, <2>2, <2>3, <2>4 DEF Accounted, Failed
<1> QED
  BY <1>1, <1>2, <1>3, <1>4, <1>5, <1>6

LEMMA BuildIInv ==
    ASSUME IInv, NEW s \in Statements, Build(s)
    PROVE  IInv'
<1> USE DEF IInv, NextId
<1>1. TypeOK'
  <2>1. nextId \in Nat \ {0} /\ nextId' = nextId + 1
    BY DEF Build, TypeOK
  <2>2. entry' \in [Statements -> 0 .. nextId' - 1]
    BY <2>1 DEF Build, TypeOK
  <2>3. views' \subseteq 1 .. nextId' - 1 /\ storage' \subseteq 1 .. nextId' - 1
    <3>1. 1 .. nextId - 1 \subseteq 1 .. nextId' - 1 /\ nextId \in 1 .. nextId' - 1
      BY <2>1
    <3>2. /\ views' \subseteq views \cup {nextId} /\ storage' \subseteq storage \cup {nextId}
          /\ views \subseteq 1 .. nextId - 1 /\ storage \subseteq 1 .. nextId - 1
      BY DEF Build, TypeOK
    <3> QED
      BY <3>1, <3>2
  <2> QED
    BY <2>1, <2>2, <2>3 DEF Build, TypeOK, Steps
<1>2. SchemasInv'
  <2>1. schema' <= schemas /\ UNCHANGED <<op, schemas>>
    BY DEF SchemasInv, Build
  <2>2. pc[s] # "ok" /\ pc' = [pc EXCEPT ![s] = pc'[s]]
    BY DEF Build, TypeOK
  <2> QED
    BY <2>1, <2>2, SchemasKept
<1>3. KindInv'
  BY DEF KindInv, TypeOK, Build
<1>0. ~Linked(nextId) /\ \A id : Linked(id)' <=> Linked(id)
  BY DEF Linked, Build, PlaceInv, TypeOK
<1>4. PlaceInv'
  <2>1. storage' \cap views' = {}
    <3>1. nextId \notin storage \cup views /\ storage \cap views = {}
      BY DEF PlaceInv, TypeOK
    <3>2. CASE Kind(s) = "view"
      BY <3>1, <3>2 DEF Build
    <3>3. CASE Kind(s) # "view"
      BY <3>1, <3>3 DEF Build
    <3> QED
      BY <3>2, <3>3
  <2>2. ASSUME NEW t \in Statements, Unpublished(t)'
        PROVE  (/\ entry[t] \in storage \cup views
                /\ ~Linked(entry[t])
                /\ \A u \in Statements \ {t} : entry[u] # entry[t])'
    BY <1>0, <2>2 DEF Build, PlaceInv, Unpublished, TypeOK
  <2>3. ASSUME NEW t \in Statements, pc'[t] = "free"
        PROVE  (~Linked(entry[t]) /\ entry[t] # NoEntry)'
    BY <1>0, <2>3 DEF Build, PlaceInv, TypeOK
  <2>4. \A g \in Schemas, n \in Names : entries'[g][n] < nextId'
    BY DEF Build, PlaceInv, TypeOK
  <2> QED
    BY <2>1, <2>2, <2>3, <2>4 DEF Build, PlaceInv
<1>5. EntryHasStorage'
  BY DEF EntryHasStorage, Build
<1>6. Accounted'
  <2> SUFFICES ASSUME NEW id \in storage' PROVE (Linked(id) \/ BeingFreed(id) \/ Failed(id))'
    BY DEF Accounted
  <2>1. CASE id = nextId
    <3>1. Unlinkable(s, id)' /\ ~Dropped(id)'
      BY <2>1 DEF Unlinkable, Creators, Dropped, Build, TypeOK, KindInv
    <3> QED
      BY <3>1 DEF Failed
  <2>2. CASE id # nextId
    <3>1. id \in storage /\ id # NoEntry /\ entry[s] = NoEntry
      BY <2>2 DEF Build, TypeOK, KindInv
    <3>2. BeingFreed(id) => BeingFreed(id)'
      BY <3>1 DEF BeingFreed, Build, TypeOK
    <3>3. ASSUME NEW t \in Statements, Unlinkable(t, id) PROVE Unlinkable(t, id)'
      BY <3>1, <3>3 DEF Unlinkable, Creators, Build, TypeOK
    <3>4. Dropped(id)' => Dropped(id)
      BY <2>2 DEF Dropped, Build, TypeOK
    <3> QED
      BY <1>0, <3>1, <3>2, <3>3, <3>4 DEF Accounted, Failed
  <2> QED
    BY <2>1, <2>2
<1> QED
  BY <1>1, <1>2, <1>3, <1>4, <1>5, <1>6

LEMMA CreateEntryIInv ==
    ASSUME IInv, NEW s \in Statements, CreateEntry(s)
    PROVE  IInv'
<1> USE DEF IInv, Vacant, SetSlot, Slot
<1>0. op[s].name \in Names /\ target[s] \in Schemas
  BY OpTypes DEF TypeOK
<1>01. entry[s] \in 1 .. nextId - 1 /\ entry[s] \in Nat
  BY DEF TypeOK, PlaceInv, Unpublished, CreateEntry
<1>1. TypeOK'
  <2>1. entries' \in [Schemas -> [Names -> Nat]]
    <3>1. entries \in [Schemas -> [Names -> Nat]]
      BY DEF TypeOK
    <3>2. entries' \in {entries, [entries EXCEPT ![target[s]][op[s].name] = entry[s]]}
      BY DEF CreateEntry
    <3> QED
      BY <3>1, <3>2, <1>0, <1>01
  <2> QED
    BY Zenon, <2>1 DEF CreateEntry, TypeOK, Steps
<1>2. SchemasInv'
  <2>1. schema' <= schemas /\ UNCHANGED <<op, schemas>>
    BY DEF SchemasInv, CreateEntry
  <2>2. pc[s] # "ok" /\ pc' = [pc EXCEPT ![s] = pc'[s]]
    BY DEF CreateEntry, TypeOK
  <2> QED
    BY <2>1, <2>2, SchemasKept
<1>3. KindInv'
  BY DEF KindInv, TypeOK, CreateEntry
<1>02. ASSUME NEW g \in Schemas, NEW n \in Names
       PROVE  \/ entries'[g][n] = entries[g][n]
              \/ /\ g = target[s] /\ n = op[s].name
                 /\ entries[g][n] = NoEntry /\ entries'[g][n] = entry[s]
  BY SMTT(40), <1>0 DEF CreateEntry, TypeOK
<1>03. \A id : (Linked(id) /\ id # NoEntry => Linked(id)') /\ (Linked(id)' => Linked(id) \/ id = entry[s])
  BY <1>02 DEF Linked
<1>4. PlaceInv'
  <2>1. ASSUME NEW t \in Statements, Unpublished(t)' PROVE Unpublished(t) /\ t # s
    BY <2>1 DEF CreateEntry, Unpublished, TypeOK
  <2>2. ASSUME NEW t \in Statements, pc'[t] = "free" PROVE pc[t] = "free" /\ t # s
    BY <2>2 DEF CreateEntry, TypeOK
  <2>3. ~Linked(entry[s]) /\ \A t \in Statements \ {s} : entry[t] # entry[s]
    BY DEF CreateEntry, PlaceInv, Unpublished
  <2>4. \A g, h \in Schemas, n, m \in Names :
          entries'[g][n] = entries'[h][m] /\ entries'[g][n] # NoEntry => g = h /\ n = m
    BY <1>02, <1>01, <2>3 DEF PlaceInv, Linked
  <2>5. \A g \in Schemas, n \in Names : entries'[g][n] < nextId'
    BY <1>02, <1>01 DEF PlaceInv, CreateEntry, TypeOK
  <2>6. ASSUME NEW t \in Statements, Unpublished(t)'
        PROVE  (/\ entry[t] \in storage \cup views
                /\ ~Linked(entry[t])
                /\ \A u \in Statements \ {t} : entry[u] # entry[t])'
    BY <1>03, <2>1, <2>3, <2>6 DEF CreateEntry, PlaceInv
  <2>7. ASSUME NEW t \in Statements, pc'[t] = "free"
        PROVE  (~Linked(entry[t]) /\ entry[t] # NoEntry)'
    BY <1>03, <2>2, <2>3, <2>7 DEF CreateEntry, PlaceInv
  <2> QED
    BY <2>4, <2>5, <2>6, <2>7 DEF CreateEntry, PlaceInv
<1>5. EntryHasStorage'
  BY <1>02 DEF EntryHasStorage, CreateEntry, PlaceInv, Unpublished
<1>6. Accounted'
  <2> SUFFICES ASSUME NEW id \in storage PROVE (Linked(id) \/ BeingFreed(id) \/ Failed(id))'
    BY DEF Accounted, CreateEntry
  <2>1. id # NoEntry
    BY DEF TypeOK
  <2>2. Linked(id) => Linked(id)'
    BY <1>03, <2>1
  <2>3. BeingFreed(id) => BeingFreed(id)'
    BY DEF BeingFreed, CreateEntry, TypeOK
  <2>4. ASSUME NEW t \in Statements, Unlinkable(t, id) PROVE Unlinkable(t, id)' \/ Linked(id)'
    <3>1. CASE Vacant(s) /\ t = s
      BY <2>4, <3>1, <1>0 DEF Unlinkable, Linked, CreateEntry, TypeOK
    <3>2. CASE ~Vacant(s) \/ t # s
      BY <2>4, <3>2 DEF Unlinkable, Creators, CreateEntry, TypeOK
    <3> QED
      BY <3>1, <3>2
  <2>5. Dropped(id)' => Dropped(id)
    BY DEF Dropped, CreateEntry
  <2> QED
    BY <2>2, <2>3, <2>4, <2>5 DEF Accounted, Failed
<1> QED
  BY <1>1, <1>2, <1>3, <1>4, <1>5, <1>6

(* A statement ends that changes no entry.                                 *)
LEMMA EndIInv ==
    ASSUME IInv, NEW s \in Statements, NEW step \in {"ok", "err"},
           pc[s] = "run", pc' = [pc EXCEPT ![s] = step],
           schema' \in {schema, NoSchema},
           UNCHANGED <<op, target, entry, schemas, entries, views, storage, nextId>>
    PROVE  IInv'
<1> USE DEF IInv
<1>1. TypeOK'
  <2>1. schema' \in Schemas
    BY StatementsAssumption, FS_CardinalityType DEF TypeOK, Schemas
  <2> QED
    BY <2>1 DEF TypeOK, Steps
<1>2. SchemasInv'
  <2>1. schema' <= schemas
    BY StatementsAssumption, FS_CardinalityType DEF TypeOK, Schemas, SchemasInv
  <2>2. pc[s] # "ok" /\ pc' = [pc EXCEPT ![s] = pc'[s]]
    BY DEF TypeOK
  <2> QED
    BY Zenon, <2>1, <2>2, SchemasKept
<1>3. KindInv'
  BY DEF KindInv, TypeOK
<1>0. \A id : Linked(id)' <=> Linked(id)
  BY DEF Linked
<1>4. PlaceInv'
  BY <1>0 DEF PlaceInv, Unpublished, TypeOK
<1>5. EntryHasStorage'
  BY DEF EntryHasStorage
<1>6. Accounted'
  <2> SUFFICES ASSUME NEW id \in storage PROVE (Linked(id) \/ BeingFreed(id) \/ Failed(id))'
    BY DEF Accounted
  <2>1. BeingFreed(id) => BeingFreed(id)'
    BY DEF BeingFreed, TypeOK
  <2>2. ASSUME NEW t \in Statements, Unlinkable(t, id) PROVE Unlinkable(t, id)'
    BY <2>2 DEF Unlinkable, Creators, TypeOK
  <2>3. Dropped(id)' => Dropped(id)
    BY DEF Dropped
  <2> QED
    BY <1>0, <2>1, <2>2, <2>3 DEF Accounted, Failed
<1> QED
  BY <1>1, <1>2, <1>3, <1>4, <1>5, <1>6

LEMMA DropIInv ==
    ASSUME IInv, NEW s \in Statements, Drop(s)
    PROVE  IInv'
<1> USE DEF IInv
<1> DEFINE found == entries[schema][op[s].name]
<1>a. CASE schema = NoSchema \/ found = NoEntry
  BY <1>a, EndIInv DEF Drop
<1>b. CASE schema # NoSchema /\ found # NoEntry
  <2>0. op[s].name \in Names /\ schema \in Schemas
    BY OpTypes DEF TypeOK
  <2>1. /\ pc[s] = "run" /\ Kind(s) = "drop" /\ entry[s] = NoEntry
        /\ pc' = [pc EXCEPT ![s] = IF found \in views THEN "ok" ELSE "free"]
        /\ target' = [target EXCEPT ![s] = schema]
        /\ entry' = [entry EXCEPT ![s] = found]
        /\ entries' = [entries EXCEPT ![schema][op[s].name] = NoEntry]
        /\ UNCHANGED <<op, schema, schemas, views, storage, nextId>>
    BY <1>b DEF Drop, Unlinked, KindInv
  <2>2. found \in 1 .. nextId - 1 /\ Linked(found)
    BY <2>0, <1>b DEF TypeOK, PlaceInv, Linked
  <2>3. ASSUME NEW g \in Schemas, NEW n \in Names
        PROVE  \/ entries'[g][n] = entries[g][n] /\ (entries[g][n] # found)
               \/ g = schema /\ n = op[s].name /\ entries'[g][n] = NoEntry
    BY <2>0, <2>1, <1>b DEF TypeOK, PlaceInv
  <2>4. \A id : id # NoEntry => (Linked(id)' <=> Linked(id) /\ id # found)
    BY <2>0, <2>3 DEF Linked
  <2>5. TypeOK'
    <3>1. entries' \in [Schemas -> [Names -> Nat]]
      BY <2>0, <2>1 DEF TypeOK
    <3> QED
      BY <3>1, <2>0, <2>1, <2>2 DEF TypeOK, Steps
  <2>6. SchemasInv'
    <3>1. schema' <= schemas /\ UNCHANGED <<op, schemas>>
      BY <2>1 DEF SchemasInv
    <3>2. pc[s] # "ok" /\ pc' = [pc EXCEPT ![s] = pc'[s]]
      BY <2>1 DEF TypeOK
    <3> QED
      BY <3>1, <3>2, SchemasKept
  <2>7. KindInv'
    BY SMTT(40), <2>1 DEF KindInv, TypeOK
  <2>8. PlaceInv'
    <3>1. ASSUME NEW t \in Statements, Unpublished(t)'
          PROVE  (/\ entry[t] \in storage \cup views
                  /\ ~Linked(entry[t])
                  /\ \A u \in Statements \ {t} : entry[u] # entry[t])'
      <4>1. t # s /\ Unpublished(t) /\ entry'[t] = entry[t]
        BY <3>1, <2>1 DEF Unpublished, TypeOK
      <4>2. entry[t] # found /\ entry[t] # NoEntry
        BY <4>1, <2>2 DEF PlaceInv, TypeOK
      <4> QED
        BY <4>1, <4>2, <2>1, <2>4 DEF PlaceInv, TypeOK
    <3>2. ASSUME NEW t \in Statements, pc'[t] = "free"
          PROVE  (~Linked(entry[t]) /\ entry[t] # NoEntry)'
      <4>1. CASE t = s
        BY <4>1, <2>1, <2>2, <2>4 DEF TypeOK
      <4>2. CASE t # s
        BY <3>2, <4>2, <2>1, <2>4 DEF PlaceInv, TypeOK
      <4> QED
        BY <4>1, <4>2
    <3>3. \A g, h \in Schemas, n, m \in Names :
            entries'[g][n] = entries'[h][m] /\ entries'[g][n] # NoEntry => g = h /\ n = m
      BY <2>3 DEF PlaceInv
    <3>4. \A g \in Schemas, n \in Names : entries'[g][n] < nextId'
      BY <2>1, <2>3 DEF PlaceInv, TypeOK
    <3> QED
      BY <2>1, <3>1, <3>2, <3>3, <3>4 DEF PlaceInv
  <2>9. EntryHasStorage'
    BY <2>1, <2>3 DEF EntryHasStorage
  <2>10. Accounted'
    <3> SUFFICES ASSUME NEW id \in storage PROVE (Linked(id) \/ BeingFreed(id) \/ Failed(id))'
      BY <2>1 DEF Accounted
    <3>1. id # NoEntry /\ id \notin views
      BY DEF TypeOK, PlaceInv
    <3>2. CASE id = found
      BY SMTT(40), <2>1, <3>1, <3>2 DEF BeingFreed, TypeOK
    <3>3. CASE id # found
      <4>1. BeingFreed(id) => BeingFreed(id)'
        BY <2>1, <3>1 DEF BeingFreed, TypeOK
      <4>2. ASSUME NEW t \in Statements, Unlinkable(t, id) PROVE Unlinkable(t, id)'
        BY <2>1, <3>1, <4>2 DEF Unlinkable, Creators, TypeOK
      <4>3. Dropped(id)' => Dropped(id)
        BY <2>1, <3>3 DEF Dropped, TypeOK
      <4> QED
        BY <2>4, <3>1, <3>3, <4>1, <4>2, <4>3 DEF Accounted, Failed
    <3> QED
      BY <3>2, <3>3
  <2> QED
    BY <2>5, <2>6, <2>7, <2>8, <2>9, <2>10
<1> QED
  BY <1>a, <1>b

LEMMA FreeIInv ==
    ASSUME IInv, NEW s \in Statements, Free(s)
    PROVE  IInv'
<1> USE DEF IInv, Freed
<1>1. TypeOK'
  BY Zenon DEF Free, TypeOK, Steps
<1>2. SchemasInv'
  <2>1. schema' <= schemas /\ UNCHANGED <<op, schemas>>
    BY DEF SchemasInv, Free
  <2>2. pc[s] # "ok" /\ pc' = [pc EXCEPT ![s] = pc'[s]]
    BY DEF Free, TypeOK
  <2> QED
    BY <2>1, <2>2, SchemasKept
<1>3. KindInv'
  BY DEF KindInv, TypeOK, Free
<1>0. \A id : Linked(id)' <=> Linked(id)
  BY DEF Linked, Free
<1>4. PlaceInv'
  <2>1. ASSUME NEW t \in Statements, Unpublished(t)'
        PROVE  (/\ entry[t] \in storage \cup views
                /\ ~Linked(entry[t])
                /\ \A u \in Statements \ {t} : entry[u] # entry[t])'
    <3>1. t # s /\ Unpublished(t)
      BY <2>1 DEF Free, Unpublished, TypeOK
    <3> QED
      BY <3>1, <1>0 DEF Free, PlaceInv
  <2>2. ASSUME NEW t \in Statements, pc'[t] = "free"
        PROVE  (~Linked(entry[t]) /\ entry[t] # NoEntry)'
    BY <1>0, <2>2 DEF Free, PlaceInv, TypeOK
  <2> QED
    BY <2>1, <2>2 DEF Free, PlaceInv
<1>5. EntryHasStorage'
  BY DEF EntryHasStorage, Free, PlaceInv, Linked
<1>6. Accounted'
  <2> SUFFICES ASSUME NEW id \in storage, id # entry[s]
               PROVE  (Linked(id) \/ BeingFreed(id) \/ Failed(id))'
    BY DEF Accounted, Free
  <2>1. BeingFreed(id) => BeingFreed(id)'
    BY DEF BeingFreed, Free, TypeOK
  <2>2. ASSUME NEW t \in Statements, Unlinkable(t, id) PROVE Unlinkable(t, id)'
    BY <2>2 DEF Unlinkable, Creators, Free, TypeOK
  <2>3. Dropped(id)' => Dropped(id)
    BY DEF Dropped, Free
  <2> QED
    BY <1>0, <2>1, <2>2, <2>3 DEF Accounted, Failed
<1> QED
  BY <1>1, <1>2, <1>3, <1>4, <1>5, <1>6

LEMMA CreateSchemaIInv ==
    ASSUME IInv, NEW s \in Statements, CreateSchema(s)
    PROVE  IInv'
<1>1. CASE schema # NoSchema
  BY <1>1, EndIInv DEF CreateSchema
<1>2. CASE schema = NoSchema
  <2> USE DEF IInv
  <2>1. /\ pc[s] = "run" /\ Kind(s) = "schema" /\ pc' = [pc EXCEPT ![s] = "ok"]
        /\ schema' = schemas + 1 /\ schemas' = schemas + 1
        /\ UNCHANGED <<op, target, entry, entries, views, storage, nextId>>
    BY <1>2 DEF CreateSchema
  <2>2. /\ SchemaMakers' = SchemaMakers \cup {s} /\ s \notin SchemaMakers
        /\ SchemaMakers' \subseteq Statements
    BY <2>1 DEF SchemaMakers, TypeOK
  <2>3. /\ IsFiniteSet(SchemaMakers) /\ IsFiniteSet(SchemaMakers')
        /\ Cardinality(SchemaMakers') <= Cardinality(Statements)
        /\ Cardinality(SchemaMakers') = Cardinality(SchemaMakers) + 1
    BY <2>2, StatementsAssumption, FS_Subset, FS_AddElement
  <2>4. /\ schemas \in Nat /\ Cardinality(SchemaMakers) \in Nat
        /\ Cardinality(Statements) \in Nat
    BY <2>3, StatementsAssumption, FS_CardinalityType DEF TypeOK, Schemas
  <2>5. SchemasInv' /\ schemas' \in Schemas
    BY <2>1, <2>3, <2>4 DEF SchemasInv, Schemas
  <2>6. TypeOK'
    BY <2>1, <2>5 DEF TypeOK, Steps
  <2>7. KindInv'
    BY <2>1 DEF KindInv, TypeOK
  <2>8. \A id : Linked(id)' <=> Linked(id)
    BY <2>1 DEF Linked
  <2>9. PlaceInv' /\ EntryHasStorage'
    BY <2>1, <2>8 DEF PlaceInv, Unpublished, TypeOK, EntryHasStorage
  <2>10. Accounted'
    <3> SUFFICES ASSUME NEW id \in storage PROVE (Linked(id) \/ BeingFreed(id) \/ Failed(id))'
      BY <2>1 DEF Accounted
    <3>1. BeingFreed(id) => BeingFreed(id)'
      BY <2>1 DEF BeingFreed, TypeOK
    <3>2. ASSUME NEW t \in Statements, Unlinkable(t, id) PROVE Unlinkable(t, id)'
      BY <2>1, <3>2 DEF Unlinkable, Creators, TypeOK
    <3>3. Dropped(id)' => Dropped(id)
      BY <2>1 DEF Dropped
    <3> QED
      BY <2>8, <3>1, <3>2, <3>3 DEF Accounted, Failed
  <2> QED
    BY <2>5, <2>6, <2>7, <2>9, <2>10
<1> QED
  BY <1>1, <1>2

LEMMA NextIInv == IInv /\ [Next]_vars => IInv'
<1> SUFFICES ASSUME IInv, [Next]_vars PROVE IInv'
  BY SMTT(40)
<1>1. CASE UNCHANGED vars
  BY <1>1 DEF vars, IInv, TypeOK, SchemasInv, SchemaMakers, KindInv, PlaceInv, Unpublished,
     Linked, EntryHasStorage, Accounted, BeingFreed, Failed, Unlinkable, Creators, Dropped
<1>2. ASSUME NEW s \in Statements, Step(s) PROVE IInv'
  <2>1. CASE DropSchema(s)
    BY Zenon, <2>1, EndIInv DEF DropSchema
  <2> QED
    BY ZenonT(40), <1>2, <2>1, BindIInv, QuietIInv, BuildIInv, CreateEntryIInv, DropIInv, FreeIInv,
       CreateSchemaIInv DEF Step
<1> QED
  BY <1>1, <1>2 DEF Next

LEMMA Invariance == Spec => []IInv
  BY InitIInv, NextIInv, PTL DEF Spec

-----------------------------------------------------------------------------
(* The ids of the storage manager are never reused, and each statement     *)
(* works on a schema that was created.                                     *)
THEOREM TypeCorrect == Spec => []TypeOK
  BY Invariance, PTL DEF IInv

(* However many statements create and drop concurrently, a table the       *)
(* catalog finds has its data in the storage manager: insert_table comes   *)
(* before the entry is published, drop_table after it is removed.          *)
THEOREM EntriesHaveStorage == Spec => []EntryHasStorage
  BY Invariance, PTL DEF IInv

(* The schema that a CREATE works on is one the catalog had, and only the  *)
(* first one is ever used before a DROP SCHEMA.                            *)
Creating(s) == pc[s] \in {"build", "lookup", "create", "confirm"}
PlaceOfSchema ==
    /\ \A s \in Statements : Creating(s) => target[s] # NoSchema
    /\ \A n \in Names : entries[NoSchema][n] = NoEntry
FirstSchemaOnly ==
    ~SchemaDropped =>
        /\ schema = 1
        /\ \A s \in Statements : Creating(s) => target[s] = 1
        /\ \A g \in Schemas \ {1}, n \in Names : entries[g][n] = NoEntry
SchemaInv == PlaceOfSchema /\ FirstSchemaOnly

(* No step takes a schema's removal back.                                  *)
LEMMA RemovalStays ==
    ASSUME IInv, NEW s \in Statements, Step(s), SchemaDropped
    PROVE  SchemaDropped'
<1>1. PICK t \in Statements : Kind(t) = "dropschema" /\ pc[t] = "ok"
  BY DEF SchemaDropped
<1>2. UNCHANGED op /\ pc' = [pc EXCEPT ![s] = pc'[s]] /\ pc[s] # "ok"
  BY DEF Step, Bind, Open, Build, Lookup, CreateEntry, Confirm, Drop, Free, CreateSchema,
     DropSchema, IInv, TypeOK
<1> QED
  BY <1>1, <1>2 DEF SchemaDropped, IInv, TypeOK

LEMMA StepSchemaInv ==
    ASSUME IInv, SchemaInv, NEW s \in Statements, Step(s)
    PROVE  SchemaInv'
<1>0. op[s].name \in Names /\ schema \in Schemas /\ NoSchema \in Schemas /\ target[s] \in Schemas
  BY OpTypes, StatementsAssumption, FS_CardinalityType DEF IInv, TypeOK, Schemas
<1>1. ASSUME UNCHANGED <<entries, target>>, \A t \in Statements : Creating(t)' => Creating(t),
             schema' = schema \/ SchemaDropped'
      PROVE  SchemaInv'
  BY <1>1, RemovalStays DEF SchemaInv, PlaceOfSchema, FirstSchemaOnly
<1>2. CASE Open(s) \/ Build(s) \/ Lookup(s) \/ Confirm(s) \/ Free(s)
  <2>1. UNCHANGED <<entries, target, schema>>
    BY <1>2 DEF Open, Build, Lookup, Confirm, Free
  <2>2. ASSUME NEW t \in Statements, Creating(t)' PROVE Creating(t)
    BY <1>2, <2>2 DEF Open, Build, Lookup, Confirm, Free, Creating, IInv, TypeOK
  <2> QED
    BY <1>1, <2>1, <2>2
<1>3. CASE DropSchema(s)
  <2>1. UNCHANGED <<entries, target>>
    BY <1>3 DEF DropSchema
  <2>2. ASSUME NEW t \in Statements, Creating(t)' PROVE Creating(t)
    BY <1>3, <2>2 DEF DropSchema, Creating, IInv, TypeOK
  <2>3. schema' = schema \/ SchemaDropped'
    BY <1>3 DEF DropSchema, SchemaDropped, IInv, TypeOK
  <2> QED
    BY <1>1, <2>1, <2>2, <2>3
<1>4. CASE CreateSchema(s)
  <2>1. UNCHANGED <<entries, target>>
    BY <1>4 DEF CreateSchema
  <2>2. ASSUME NEW t \in Statements, Creating(t)' PROVE Creating(t)
    BY <1>4, <2>2 DEF CreateSchema, Creating, IInv, TypeOK
  <2>3. schema = NoSchema => SchemaDropped
    BY DEF SchemaInv, FirstSchemaOnly
  <2> QED
    BY <1>1, <1>4, <2>1, <2>2, <2>3, RemovalStays DEF CreateSchema
<1>5. CASE Bind(s)
  <2>1. /\ UNCHANGED <<entries, schema>>
        /\ \A t \in Statements \ {s} : pc'[t] = pc[t] /\ target'[t] = target[t]
        /\ Creating(s)' => schema # NoSchema /\ target'[s] = schema
    <3>1. CASE Kind(s) \in {"table", "view"}
      BY <1>5, <3>1 DEF Bind, Creating, IInv, TypeOK
    <3>2. CASE Kind(s) = "use"
      BY <1>5, <3>2 DEF Bind, Creating, IInv, TypeOK
    <3>3. CASE Kind(s) \notin {"table", "view", "use"}
      BY <1>5, <3>3 DEF Bind, Creating, IInv, TypeOK
    <3> QED
      BY <3>1, <3>2, <3>3
  <2> QED
    BY <2>1, RemovalStays DEF SchemaInv, PlaceOfSchema, FirstSchemaOnly, Creating
<1>6. CASE CreateEntry(s)
  <2>1. Creating(s) /\ UNCHANGED <<schema, target>>
    BY <1>6 DEF CreateEntry, Creating
  <2>2. ASSUME NEW t \in Statements, Creating(t)' PROVE Creating(t)
    BY <1>6, <2>2 DEF CreateEntry, Creating, IInv, TypeOK
  <2>3. ASSUME NEW g \in Schemas, NEW n \in Names, g # target[s]
        PROVE  entries'[g][n] = entries[g][n]
    BY SMTT(40), <1>0, <1>6, <2>3 DEF CreateEntry, SetSlot, IInv, TypeOK
  <2> QED
    BY <1>0, <2>1, <2>2, <2>3, RemovalStays DEF SchemaInv, PlaceOfSchema, FirstSchemaOnly
<1>7. CASE Drop(s)
  <2>1. UNCHANGED schema
    BY <1>7 DEF Drop
  <2>2. ASSUME NEW t \in Statements, Creating(t)' PROVE Creating(t) /\ target'[t] = target[t]
    BY <1>7, <2>2 DEF Drop, Creating, IInv, TypeOK
  <2>3. ASSUME NEW g \in Schemas, NEW n \in Names
        PROVE  entries'[g][n] \in {NoEntry, entries[g][n]}
    BY SMTT(40), <1>0, <1>7 DEF Drop, Unlinked, IInv, TypeOK
  <2> QED
    BY <1>0, <2>1, <2>2, <2>3, RemovalStays DEF SchemaInv, PlaceOfSchema, FirstSchemaOnly
<1> QED
  BY <1>2, <1>3, <1>4, <1>5, <1>6, <1>7 DEF Step

(* However many statements create and drop concurrently, data that no      *)
(* statement can find is on its way in or out, or was lost by a CREATE     *)
(* that did not publish it or by a DROP SCHEMA.  Of two DROPs of one table *)
(* exactly one frees its data, and without DROP SCHEMA no DROP loses any.  *)
THEOREM LeaksAreKnown == Spec => []OrphansAreKnown
<1>1. Init => SchemaInv
  BY StatementsAssumption, FS_CardinalityType
     DEF Init, SchemaInv, PlaceOfSchema, FirstSchemaOnly, Creating, Schemas
<1>2. IInv /\ SchemaInv /\ [Next]_vars => SchemaInv'
  <2> SUFFICES ASSUME IInv, SchemaInv, [Next]_vars PROVE SchemaInv'
    OBVIOUS
  <2>1. CASE UNCHANGED vars
    BY <2>1 DEF vars, SchemaInv, PlaceOfSchema, FirstSchemaOnly, Creating, SchemaDropped
  <2>2. CASE Next
    BY <2>2, StepSchemaInv DEF Next
  <2> QED
    BY <2>1, <2>2
<1>3. IInv /\ SchemaInv => OrphansAreKnown
  <2> SUFFICES ASSUME IInv, SchemaInv, NEW id \in storage, ~BeingFreed(id)
               PROVE  \/ Reachable(id) \/ NotYetPublished(id)
                      \/ NeverPublished(id) \/ InDroppedSchema(id)
    BY DEF OrphansAreKnown
  <2>1. CASE Linked(id)
    <3>1. PICK g \in Schemas, n \in Names : entries[g][n] = id
      BY <2>1 DEF Linked
    <3>2. id # NoEntry /\ g # NoSchema
      BY <3>1 DEF IInv, TypeOK, SchemaInv, PlaceOfSchema
    <3>3. CASE g = schema
      BY <3>1, <3>2, <3>3 DEF Reachable
    <3>4. CASE g # schema
      <4>1. SchemaDropped
        BY <3>1, <3>2, <3>4 DEF SchemaInv, FirstSchemaOnly
      <4> QED
        BY <3>1, <3>4, <4>1 DEF InDroppedSchema
    <3> QED
      BY <3>3, <3>4
  <2>2. CASE ~Linked(id)
    <3>1. PICK s \in Statements : Unlinkable(s, id)
      BY <2>2 DEF IInv, Accounted, Failed
    <3>2. ~Dropped(id)
      BY <2>2 DEF IInv, Accounted, Failed
    <3> QED
      BY <2>2, <3>1, <3>2
         DEF Unlinkable, Dropped, Linked, NotYetPublished, NeverPublished
  <2> QED
    BY <2>1, <2>2
<1> QED
  BY <1>1, <1>2, <1>3, Invariance, PTL DEF Spec

-----------------------------------------------------------------------------
(* Without DROP the schema stays, a slot that is taken is taken by a       *)
(* CREATE that got past CatalogMap::create_entry, every CREATE that ended  *)
(* found its slot taken, and no two CREATEs made the same entry.           *)
TakenByCreator(n) ==
    entries[1][n] # NoEntry =>
        \E w \in Creators :
            op[w].name = n /\ pc[w] \in {"confirm", "ok"} /\ entries[1][n] = entry[w]
CreatorOK(s) ==
    /\ pc[s] \in {"bind", "build", "lookup", "create", "confirm", "ok", "err"}
    /\ pc[s] # "bind" => target[s] = 1
    /\ pc[s] \in {"confirm", "ok", "err"} => entries[1][op[s].name] # NoEntry
    /\ pc[s] = "confirm" \/ (pc[s] = "ok" /\ Mode(s) # "ignore") =>
          entries[1][op[s].name] = entry[s]
EntriesDiffer ==
    \A s, t \in Creators : entry[s] = entry[t] /\ entry[s] # NoEntry => s = t

CreatorInv ==
    NoDrops => /\ schema = 1
               /\ \A n \in Names : TakenByCreator(n)
               /\ \A s \in Creators : CreatorOK(s)
               /\ EntriesDiffer

(* The first schema is one of the schemas.                                 *)
LEMMA FirstSchema == 1 \in Schemas
  BY StatementsAssumption, FS_CardinalityType DEF Schemas

(* A statement that is no CREATE and drops nothing disturbs no CREATE.     *)
LEMMA OthersKeepCreators ==
    ASSUME IInv, CreatorInv, NEW s \in Statements, Step(s), s \notin Creators
    PROVE  CreatorInv'
<1> SUFFICES ASSUME NoDrops' PROVE CreatorInv'
  BY DEF CreatorInv
<1>1. UNCHANGED op
  BY DEF Step, Bind, Open, Build, Lookup, CreateEntry, Confirm, Drop, Free, CreateSchema,
     DropSchema
<1>2. NoDrops /\ Creators' = Creators
  BY <1>1 DEF NoDrops, Creators
<1>3. schema = 1 /\ Kind(s) \notin {"table", "view", "drop", "dropschema"}
  BY ZenonT(40), <1>2 DEF CreatorInv, NoDrops, Creators
<1>4. /\ UNCHANGED <<schema, entries>>
      /\ \A t \in Creators : pc'[t] = pc[t] /\ target'[t] = target[t] /\ entry'[t] = entry[t]
  <2>1. \A t \in Creators : t \in Statements /\ t # s
    BY DEF Creators
  <2>2. CASE Bind(s)
    BY <1>3, <2>1, <2>2 DEF Bind, IInv, TypeOK
  <2>3. CASE Open(s) \/ CreateSchema(s)
    BY <1>3, <2>1, <2>3 DEF Open, CreateSchema, IInv, TypeOK
  <2>4. CASE Free(s)
    BY SMTT(40), <1>3, <2>1, <2>4 DEF Free, IInv, TypeOK
  <2> QED
    BY Zenon, <1>3, <2>2, <2>3, <2>4
       DEF Step, Build, Lookup, CreateEntry, Confirm, Drop, DropSchema, IInv, KindInv
<1> QED
  BY <1>1, <1>2, <1>4 DEF CreatorInv, TakenByCreator, CreatorOK, EntriesDiffer

(* A step of a CREATE that changes no map.                                 *)
LEMMA QuietCreator ==
    ASSUME IInv, NoDrops, CreatorInv, NEW s \in Creators,
           NEW step \in {"build", "lookup", "create", "ok", "err"},
           pc[s] \in {"bind", "lookup", "create", "confirm"},
           pc' = [pc EXCEPT ![s] = step], target' = [target EXCEPT ![s] = 1],
           pc[s] = "confirm" => step = "ok",
           step \in {"ok", "err"} => entries[1][op[s].name] # NoEntry,
           step = "ok" /\ Mode(s) # "ignore" => entries[1][op[s].name] = entry[s],
           UNCHANGED <<op, entry, schema, entries>>
    PROVE  CreatorInv'
<1>1. /\ Creators' = Creators /\ Creators \subseteq Statements
      /\ \A t \in Statements \ {s} : pc'[t] = pc[t] /\ target'[t] = target[t]
      /\ pc'[s] = step /\ target'[s] = 1
  BY SMTT(40) DEF Creators, IInv, TypeOK
<1>2. ASSUME NEW n \in Names PROVE TakenByCreator(n)'
  <2> SUFFICES ASSUME entries[1][n] # NoEntry
               PROVE  \E w \in Creators : op[w].name = n /\ pc'[w] \in {"confirm", "ok"}
                                          /\ entries[1][n] = entry[w]
    BY SMTT(40), <1>1 DEF TakenByCreator
  <2>1. PICK w \in Creators :
           op[w].name = n /\ pc[w] \in {"confirm", "ok"} /\ entries[1][n] = entry[w]
    BY SMTT(40) DEF CreatorInv, TakenByCreator
  <2> QED
    BY <1>1, <2>1
<1>3. ASSUME NEW t \in Creators PROVE CreatorOK(t)'
  BY ZenonT(40), <1>1 DEF CreatorInv, CreatorOK
<1> QED
  BY <1>1, <1>2, <1>3 DEF CreatorInv, EntriesDiffer

(* A step of a CREATE.                                                     *)
LEMMA CreatorsKeepInv ==
    ASSUME IInv, CreatorInv, NEW s \in Creators, Step(s)
    PROVE  CreatorInv'
<1> SUFFICES ASSUME NoDrops' PROVE CreatorInv'
  BY DEF CreatorInv
<1>0. s \in Statements /\ Kind(s) \in {"table", "view"} /\ op[s].name \in Names
  BY OpTypes DEF Creators, IInv, TypeOK
<1>1. UNCHANGED op
  BY DEF Step, Bind, Open, Build, Lookup, CreateEntry, Confirm, Drop, Free, CreateSchema,
     DropSchema
<1>2. NoDrops /\ Creators' = Creators /\ Creators \subseteq Statements
  BY <1>1 DEF NoDrops, Creators
<1> USE FirstSchema
<1>3. /\ schema = 1 /\ CreatorOK(s) /\ EntriesDiffer
      /\ \A n \in Names : TakenByCreator(n)
      /\ \A t \in Creators : CreatorOK(t)
  BY <1>2 DEF CreatorInv
<1>4. pc[s] # "bind" => target = [target EXCEPT ![s] = 1]
  BY ZenonT(40), <1>0, <1>3 DEF CreatorOK, IInv, TypeOK
<1>5. CASE Bind(s)
  <2>1. /\ pc[s] = "bind" /\ pc' = [pc EXCEPT ![s] = "build"]
        /\ target' = [target EXCEPT ![s] = 1] /\ UNCHANGED <<op, entry, schema, entries>>
    BY <1>0, <1>3, <1>5 DEF Bind
  <2> QED
    BY Zenon, <1>2, <2>1, QuietCreator
<1>6. CASE Build(s)
  <2>1. /\ entry' = [entry EXCEPT ![s] = nextId] /\ pc' = [pc EXCEPT ![s] = "lookup"]
        /\ pc[s] = "build" /\ UNCHANGED <<op, target, schema, entries>>
    BY <1>6 DEF Build
  <2>2. \A t \in Creators : entry[t] # nextId
    BY <1>2 DEF IInv, TypeOK
  <2>3. /\ \A t \in Statements \ {s} : pc'[t] = pc[t] /\ entry'[t] = entry[t]
        /\ pc'[s] = "lookup" /\ entry'[s] = nextId
    BY SMTT(40), <1>0, <2>1 DEF IInv, TypeOK
  <2>4. EntriesDiffer'
    <3>1. \A t \in Creators : entry'[t] = IF t = s THEN nextId ELSE entry[t]
      BY Zenon, <2>3 DEF Creators
    <3> SUFFICES ASSUME NEW t \in Creators, NEW u \in Creators, t # u, entry'[t] = entry'[u]
                 PROVE  entry'[t] = NoEntry
      BY Zenon, <1>2 DEF EntriesDiffer
    <3>2. CASE t = s \/ u = s
      BY Zenon, <2>2, <3>1, <3>2
    <3>3. CASE t # s /\ u # s
      BY Zenon, <1>3, <3>1, <3>3 DEF EntriesDiffer
    <3> QED
      BY Zenon, <3>2, <3>3
  <2>5. ASSUME NEW t \in Creators PROVE CreatorOK(t)'
    BY <1>2, <1>3, <2>1, <2>3 DEF CreatorOK
  <2>6. ASSUME NEW n \in Names PROVE TakenByCreator(n)'
    BY SMTT(40), <1>2, <1>3, <2>1, <2>3 DEF TakenByCreator
  <2> QED
    BY <1>2, <1>3, <2>1, <2>4, <2>5, <2>6 DEF CreatorInv
<1>7. CASE Lookup(s)
  <2>1. target[s] = 1 /\ pc[s] = "lookup"
    BY <1>3, <1>7 DEF Lookup, CreatorOK
  <2>2. PICK step \in {"create", "ok", "err"} :
           /\ pc' = [pc EXCEPT ![s] = step]
           /\ step # "create" => entries[1][op[s].name] # NoEntry
           /\ step = "ok" => Mode(s) = "ignore"
    BY Zenon, <1>7, <2>1 DEF Lookup, Slot
  <2>3. UNCHANGED <<op, target, entry, schema, entries>>
    BY <1>7 DEF Lookup
  <2> QED
    BY Zenon, <1>2, <1>4, <2>1, <2>2, <2>3, QuietCreator
<1>8. CASE CreateEntry(s)
  <2>1. target[s] = 1 /\ pc[s] = "create" /\ entry[s] # NoEntry
    BY <1>0, <1>3, <1>8 DEF CreateEntry, CreatorOK, IInv, TypeOK, PlaceInv, Unpublished
  <2>2. CASE Vacant(s)
    <3>1. /\ pc' = [pc EXCEPT ![s] = "confirm"]
          /\ entries' = [entries EXCEPT ![1][op[s].name] = entry[s]]
          /\ entries[1][op[s].name] = NoEntry
          /\ UNCHANGED <<op, target, entry, schema>>
      BY <1>8, <2>1, <2>2 DEF CreateEntry, Vacant, Slot, SetSlot
    <3>2. \A n \in Names : entries'[1][n] = IF n = op[s].name THEN entry[s] ELSE entries[1][n]
      BY <1>0, <3>1 DEF IInv, TypeOK
    <3>3. /\ \A t \in Creators : t \in Statements /\ op[t].name \in Names
          /\ \A t \in Creators \ {s} : pc'[t] = pc[t]
          /\ pc'[s] = "confirm"
      BY <1>0, <3>1, OpTypes DEF Creators, IInv, TypeOK
    <3>4. ASSUME NEW t \in Creators PROVE CreatorOK(t)'
      <4>1. CASE t = s
        BY ZenonT(40), <1>0, <2>1, <3>1, <3>2, <3>3, <4>1 DEF CreatorOK
      <4>2. CASE t # s
        <5>1. pc[t] \in {"confirm", "ok", "err"} => op[t].name # op[s].name
          BY <1>3, <3>1 DEF CreatorOK
        <5> QED
          BY SMTT(40), <1>3, <3>1, <3>2, <3>3, <4>2, <5>1 DEF CreatorOK
      <4> QED
        BY <4>1, <4>2
    <3>5. ASSUME NEW n \in Names PROVE TakenByCreator(n)'
      <4>1. CASE n = op[s].name
        BY <1>2, <3>1, <3>2, <3>3, <4>1 DEF TakenByCreator
      <4>2. CASE n # op[s].name
        <5>1. entries'[1][n] = entries[1][n]
          BY <3>2, <4>2
        <5>2. entries[1][n] # NoEntry => \E w \in Creators \ {s} :
                 op[w].name = n /\ pc[w] \in {"confirm", "ok"} /\ entries[1][n] = entry[w]
          BY SMTT(40), <1>3, <4>2 DEF TakenByCreator
        <5> QED
          BY <1>2, <3>1, <3>3, <5>1, <5>2 DEF TakenByCreator
      <4> QED
        BY <4>1, <4>2
    <3> QED
      BY <1>2, <1>3, <3>1, <3>4, <3>5 DEF CreatorInv, EntriesDiffer
  <2>3. CASE ~Vacant(s)
    <3>1. /\ pc' = [pc EXCEPT ![s] = "err"] /\ entries[1][op[s].name] # NoEntry
          /\ UNCHANGED <<op, target, entry, schema, entries>>
      BY <1>8, <2>1, <2>3 DEF CreateEntry, Vacant, Slot
    <3> QED
      BY Zenon, <1>2, <1>4, <2>1, <3>1, QuietCreator
  <2> QED
    BY <2>2, <2>3
<1>9. CASE Confirm(s)
  <2>1. /\ pc[s] = "confirm" /\ target[s] = 1 /\ entries[1][op[s].name] # NoEntry
        /\ entries[1][op[s].name] = entry[s]
    BY ZenonT(30), <1>3, <1>9 DEF Confirm, CreatorOK
  <2>2. /\ pc' = [pc EXCEPT ![s] = "ok"]
        /\ UNCHANGED <<op, target, entry, schema, entries>>
    BY <1>9, <2>1 DEF Confirm, Slot
  <2> QED
    BY ZenonT(30), <1>2, <1>4, <2>1, <2>2, QuietCreator
<1> QED
  BY ZenonT(30), <1>0, <1>3, <1>5, <1>6, <1>7, <1>8, <1>9
     DEF Step, Open, Drop, Free, CreateSchema, DropSchema, CreatorOK

(* Concurrent CREATEs of one name, for any number of them: exactly one     *)
(* publishes its entry, the others fail or ignore the conflict.  The race  *)
(* between get_entry and CatalogMap::create_entry is closed by the second. *)
THEOREM OneCreatorIsPublished == Spec => []OneCreatorWins
<1>1. Init => CreatorInv
  BY OpTypes, FirstSchema DEF Init, CreatorInv, TakenByCreator, CreatorOK, EntriesDiffer,
     Creators, Schemas
<1>2. IInv /\ CreatorInv /\ [Next]_vars => CreatorInv'
  <2> SUFFICES ASSUME IInv, CreatorInv, [Next]_vars PROVE CreatorInv'
    BY SMTT(40)
  <2>1. CASE UNCHANGED vars
    BY <2>1 DEF vars, CreatorInv, TakenByCreator, CreatorOK, EntriesDiffer, NoDrops, Creators
  <2>2. CASE Next
    BY SMTT(40), <2>2, OthersKeepCreators, CreatorsKeepInv DEF Next
  <2> QED
    BY <2>1, <2>2
<1>3. IInv /\ CreatorInv => OneCreatorWins
  <2> SUFFICES ASSUME IInv, CreatorInv, NoDrops, \A s \in Statements : ~Unfinished(s),
                      NEW c \in Creators
               PROVE  \E w \in Creators :
                         /\ op[w].name = op[c].name /\ entries[1][op[c].name] = entry[w]
                         /\ \A s \in Creators \ {w} :
                               op[s].name = op[c].name => At(s, "err") \/ Mode(s) = "ignore"
    BY DEF OneCreatorWins
  <2>1. \A s \in Creators : pc[s] \in {"ok", "err"}
    BY DEF Unfinished, Creators
  <2>2. op[c].name \in Names /\ entries[1][op[c].name] # NoEntry
    BY <2>1, OpTypes DEF CreatorInv, CreatorOK, Creators, IInv, TypeOK
  <2>3. PICK w \in Creators : op[w].name = op[c].name /\ entries[1][op[c].name] = entry[w]
    BY <2>2 DEF CreatorInv, TakenByCreator
  <2>4. ASSUME NEW s \in Creators \ {w}, op[s].name = op[c].name, ~At(s, "err")
        PROVE  Mode(s) = "ignore"
    BY <2>1, <2>2, <2>3, <2>4 DEF CreatorInv, CreatorOK, EntriesDiffer
  <2> QED
    BY <2>3, <2>4
<1> QED
  BY <1>1, <1>2, <1>3, Invariance, PTL DEF Spec
=============================================================================
