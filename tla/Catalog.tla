------------------------------- MODULE Catalog -------------------------------
(***************************************************************************)
(* The memory catalog (catalog/memory.rs), the storage manager and the     *)
(* statements that change them: CREATE TABLE, VIEW and SCHEMA, DROP, and   *)
(* binding a table for a scan or an insert.  A statement is bound under    *)
(* the lock of the session; its operator runs later on the thread pool, so *)
(* the statements a session has started interleave.  A step is one access  *)
(* to a concurrent map.                                                    *)
(*                                                                         *)
(* A catalog entry is known by a number: the storage id of a table, or the *)
(* identity of a view.  Each CREATE SCHEMA that inserts makes a new        *)
(* schema; an operator planned on a dropped one keeps it (Arc).            *)
(***************************************************************************)
EXTENDS Naturals, FiniteSets

CONSTANTS Statements, Names

ASSUME StatementsAssumption == IsFiniteSet(Statements)

VARIABLES
    op,      \* what a statement is: kind, name, and conflict or IF EXISTS mode
    pc,      \* the step a statement is at
    target,  \* the schema a statement is planned on
    entry,   \* the entry it creates, drops or opens
    schema,  \* the schema of that name in the catalog, NoSchema if none
    schemas, \* schemas created so far
    entries, \* CatalogMap of each schema
    views,   \* entries that are views
    storage, \* ids of the tables in the storage manager
    nextId   \* next_id

vars == <<op, pc, target, entry, schema, schemas, entries, views, storage, nextId>>

NoSchema == 0
NoEntry == 0
Schemas == 0 .. Cardinality(Statements) + 1 \* each statement creates one at most

Ops ==
    [kind : {"table"}, name : Names, mode : {"error", "ignore", "replace"}]
    \cup [kind : {"view"}, name : Names, mode : {"error", "replace"}]
    \cup [kind : {"schema"}, name : Names, mode : {"error", "ignore"}]
    \cup [kind : {"drop", "dropschema"}, name : Names, mode : {"error", "ignore"}]
    \cup [kind : {"use"}, name : Names, mode : {"error"}]

Steps == {"bind", "build", "lookup", "create", "confirm", "run", "free", "open", "ok", "err"}

TypeOK ==
    /\ op \in [Statements -> Ops]
    /\ pc \in [Statements -> Steps]
    /\ target \in [Statements -> Schemas]
    /\ entry \in [Statements -> 0 .. nextId - 1]
    /\ schema \in Schemas /\ schemas \in Schemas
    /\ entries \in [Schemas -> [Names -> Nat]]
    /\ nextId \in Nat \ {0}
    /\ views \subseteq 1 .. nextId - 1 /\ storage \subseteq 1 .. nextId - 1

Init ==
    /\ op \in [Statements -> Ops]
    /\ pc = [s \in Statements |-> "bind"]
    /\ target = [s \in Statements |-> NoSchema]
    /\ entry = [s \in Statements |-> NoEntry]
    /\ schema = 1 /\ schemas = 1
    /\ entries = [g \in Schemas |-> [n \in Names |-> NoEntry]]
    /\ views = {} /\ storage = {} /\ nextId = 1

-----------------------------------------------------------------------------
Kind(s) == op[s].kind
Mode(s) == op[s].mode
At(s, step) == pc[s] = step
Go(s, step) == pc' = [pc EXCEPT ![s] = step]
Slot(s) == entries[target[s]][op[s].name]
SetSlot(s, e) == entries' = [entries EXCEPT ![target[s]][op[s].name] = e]

(* Binding and planning: require_get_schema, and the entry of a table used *)
(* by a scan or an insert.                                                 *)
Bind(s) ==
    /\ At(s, "bind")
    /\ CASE Kind(s) \in {"table", "view"} ->
              /\ Go(s, IF schema = NoSchema THEN "err" ELSE "build")
              /\ target' = [target EXCEPT ![s] = schema]
              /\ UNCHANGED entry
         [] Kind(s) = "use" ->
              LET found == IF schema = NoSchema THEN NoEntry ELSE entries[schema][op[s].name]
              IN /\ Go(s, IF found = NoEntry THEN "err" ELSE "open")
                 /\ target' = [target EXCEPT ![s] = schema]
                 /\ entry' = [entry EXCEPT ![s] = found]
         [] OTHER -> Go(s, "run") /\ UNCHANGED <<target, entry>>
    /\ UNCHANGED <<op, schema, schemas, entries, views, storage, nextId>>

(* StorageManager::get_table; a view is replaced by its query.             *)
Open(s) ==
    /\ At(s, "open")
    /\ Go(s, IF entry[s] \in storage \cup views THEN "ok" ELSE "err")
    /\ UNCHANGED <<op, target, entry, schema, schemas, entries, views, storage, nextId>>

(* The entry is made first: StorageManager::insert_table for a table.      *)
MutNextId == nextId
NextId == nextId + 1

Build(s) ==
    /\ At(s, "build")
    /\ Go(s, "lookup")
    /\ entry' = [entry EXCEPT ![s] = nextId]
    /\ nextId' = NextId
    /\ IF Kind(s) = "view" THEN views' = views \cup {nextId} /\ UNCHANGED storage
                           ELSE storage' = storage \cup {nextId} /\ UNCHANGED views
    /\ UNCHANGED <<op, target, schema, schemas, entries>>

(* MemorySchema::create_entry: the rules for conflicts, by what get_entry  *)
(* sees.                                                                   *)
Lookup(s) ==
    /\ At(s, "lookup")
    /\ Go(s, IF Mode(s) = "replace" \/ Slot(s) = NoEntry THEN "create"
             ELSE IF Mode(s) = "ignore" THEN "ok" ELSE "err")
    /\ UNCHANGED <<op, target, entry, schema, schemas, entries, views, storage, nextId>>

(* CatalogMap::create_entry: an occupied slot is an error, also after      *)
(* get_entry found it free.                                                *)
MutVacant(s) == TRUE
Vacant(s) == Slot(s) = NoEntry

CreateEntry(s) ==
    /\ At(s, "create")
    /\ IF Vacant(s) THEN Go(s, "confirm") /\ SetSlot(s, entry[s])
                    ELSE Go(s, "err") /\ UNCHANGED entries
    /\ UNCHANGED <<op, target, entry, schema, schemas, views, storage, nextId>>

(* "Missing entry after create".                                           *)
Confirm(s) ==
    /\ At(s, "confirm")
    /\ Go(s, IF Slot(s) = NoEntry THEN "err" ELSE "ok")
    /\ UNCHANGED <<op, target, entry, schema, schemas, entries, views, storage, nextId>>

-----------------------------------------------------------------------------
(* DROP TABLE and DROP VIEW: the guard of `schemas.get` is held while the  *)
(* entry is found and removed, so that two drops exclude each other.       *)
MutUnlinked(s) == UNCHANGED entries
Unlinked(s) == entries' = [entries EXCEPT ![schema][op[s].name] = NoEntry]

Drop(s) ==
    /\ At(s, "run") /\ Kind(s) = "drop"
    /\ IF schema = NoSchema
       THEN Go(s, "err") /\ UNCHANGED <<target, entry, entries>>
       ELSE LET found == entries[schema][op[s].name]
            IN IF found = NoEntry
               THEN /\ Go(s, IF Mode(s) = "ignore" THEN "ok" ELSE "err")
                    /\ UNCHANGED <<target, entry, entries>>
               ELSE /\ Go(s, IF found \in views THEN "ok" ELSE "free")
                    /\ target' = [target EXCEPT ![s] = schema]
                    /\ entry' = [entry EXCEPT ![s] = found]
                    /\ Unlinked(s)
    /\ UNCHANGED <<op, schema, schemas, views, storage, nextId>>

(* StorageManager::drop_table.                                             *)
MutFreed(s) == storage
Freed(s) == storage \ {entry[s]}

Free(s) ==
    /\ At(s, "free")
    /\ Go(s, IF entry[s] \in storage THEN "ok" ELSE "err")
    /\ storage' = Freed(s)
    /\ UNCHANGED <<op, target, entry, schema, schemas, entries, views, nextId>>

CreateSchema(s) ==
    /\ At(s, "run") /\ Kind(s) = "schema"
    /\ IF schema = NoSchema
       THEN schema' = schemas + 1 /\ schemas' = schemas + 1 /\ Go(s, "ok")
       ELSE Go(s, IF Mode(s) = "ignore" THEN "ok" ELSE "err") /\ UNCHANGED <<schema, schemas>>
    /\ UNCHANGED <<op, target, entry, entries, views, storage, nextId>>

(* DROP SCHEMA removes the schema with whatever it holds.                  *)
DropSchema(s) ==
    /\ At(s, "run") /\ Kind(s) = "dropschema"
    /\ Go(s, IF schema = NoSchema /\ Mode(s) # "ignore" THEN "err" ELSE "ok")
    /\ schema' = NoSchema
    /\ UNCHANGED <<op, target, entry, schemas, entries, views, storage, nextId>>

-----------------------------------------------------------------------------
Step(s) ==
    \/ Bind(s) \/ Open(s) \/ Build(s) \/ Lookup(s) \/ CreateEntry(s) \/ Confirm(s)
    \/ Drop(s) \/ Free(s) \/ CreateSchema(s) \/ DropSchema(s)

Next == \E s \in Statements : Step(s)

Spec == Init /\ [][Next]_vars
-----------------------------------------------------------------------------
Creators == {s \in Statements : Kind(s) \in {"table", "view"}}
Unfinished(s) == pc[s] \notin {"ok", "err"}
NoDrops == \A s \in Statements : Kind(s) \notin {"drop", "dropschema"}

(* Whatever runs concurrently, a table that can be found in a schema has   *)
(* its data: storage.get_table fails only for a table dropped after it was *)
(* found.                                                                  *)
EntryHasStorage ==
    \A g \in Schemas, n \in Names :
        entries[g][n] # NoEntry => entries[g][n] \in storage \cup views

(* DropInfo for a schema has been carried out.                             *)
SchemaDropped == \E s \in Statements : Kind(s) = "dropschema" /\ At(s, "ok")

Reachable(id) == schema # NoSchema /\ \E n \in Names : entries[schema][n] = id
BeingFreed(id) == \E s \in Statements : entry[s] = id /\ At(s, "free")
NotYetPublished(id) == \E s \in Creators : entry[s] = id /\ pc[s] \in {"lookup", "create"}
NeverPublished(id) ==
    /\ \E s \in Creators : entry[s] = id /\ (At(s, "err") \/ (At(s, "ok") /\ Mode(s) = "ignore"))
    /\ \A g \in Schemas, n \in Names : entries[g][n] # id
    /\ \A s \in Statements : Kind(s) = "drop" => entry[s] # id
InDroppedSchema(id) ==
    SchemaDropped /\ \E g \in Schemas \ {schema}, n \in Names : entries[g][n] = id

(* Data in the storage manager that no statement can find any more is on   *)
(* its way in or out, or was lost in one of two ways: its CREATE failed or *)
(* ignored the conflict after insert_table (create_table.rs), or its entry *)
(* went with, or into, a schema that DROP SCHEMA had removed, which frees  *)
(* no table (memory.rs, drop_entry, and drop.rs, which looks at tables     *)
(* only).  Nothing frees the data of the last two; DROP TABLE and DROP     *)
(* VIEW leave none behind.                                                 *)
OrphansAreKnown ==
    \A id \in storage :
        \/ Reachable(id) \/ BeingFreed(id) \/ NotYetPublished(id)
        \/ NeverPublished(id) \/ InDroppedSchema(id)

(* Concurrent CREATEs of one name with no DROP: one of them wins and the   *)
(* name is its entry; the others fail, but for those with IF NOT EXISTS.   *)
(* CREATE OR REPLACE is among those that fail: OnConflict::Replace is      *)
(* documented as "Replace the original entry." (create.rs:13), but         *)
(* MemorySchema::create_entry has a TODO in place of the drop, and         *)
(* CatalogMap::create_entry refuses the name that is taken.                *)
OneCreatorWins ==
    NoDrops /\ (\A s \in Statements : ~Unfinished(s))
        => \A n \in {op[s].name : s \in Creators} :
              \E w \in Creators :
                 /\ op[w].name = n /\ entries[1][n] = entry[w]
                 /\ \A s \in Creators \ {w} :
                       op[s].name = n => At(s, "err") \/ Mode(s) = "ignore"

(* OnConflict::Ignore, "Ignore and return ok." (catalog/create.rs): CREATE *)
(* IF NOT EXISTS does not fail because the table exists.                   *)
IgnoreReturnsOk == NoDrops => \A s \in Creators : Mode(s) = "ignore" => ~At(s, "err")
=============================================================================
