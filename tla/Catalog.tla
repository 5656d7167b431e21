------------------------------ MODULE Catalog ------------------------------
(***************************************************************************)
(* The table store of internal/catalog: the map of registered tables and   *)
(* the name index kept beside it.  Every operation below runs under        *)
(* Catalog.mu in the code and is therefore one atomic step here; a caller  *)
(* that makes two of them (ApplyIncoming, Rollback) takes two steps.       *)
(*                                                                         *)
(* A field list is the set of its column names: types, flags and order are *)
(* left out, no property tells them apart.                                 *)
(***************************************************************************)
EXTENDS Naturals

CONSTANTS
  TableId,      \* non-empty table ids
  Name,         \* table names
  Column,       \* column names
  NoId,         \* the empty id, and "no entry" in the name index
  NoTable       \* "no entry" in the table map

(* model.Table; an incoming table may still carry the empty id.            *)
Table == [id : TableId \cup {NoId}, name : Name,
          fields : SUBSET Column, revision : Nat]

ASSUME CatalogAssumption ==
  /\ NoId \notin TableId
  /\ NoTable \notin Table

VARIABLES
  tables,       \* Catalog.tables: [TableId -> Table or NoTable]
  byName        \* Catalog.byName: [Name -> TableId or NoId]

catalogVars == <<tables, byName>>

(* Every table is stored under its own id.                                 *)
TableMap ==
  {ts \in [TableId -> Table \cup {NoTable}] :
     \A id \in TableId : ts[id] # NoTable => ts[id].id = id}

NameIndex == [Name -> TableId \cup {NoId}]

CatalogTypeOK ==
  /\ tables \in TableMap
  /\ byName \in NameIndex

CatalogInit ==
  /\ tables = [id \in TableId |-> NoTable]
  /\ byName = [n \in Name |-> NoId]

-----------------------------------------------------------------------------
(* Pure helpers of internal/model and fields.go.                           *)

(* Table.WithSchema: a copy with other fields and the next revision.       *)
WithSchema(t, fields) ==
  [id |-> t.id, name |-> t.name, fields |-> fields,
   revision |-> t.revision + 1]

(* MergeFields: the incoming columns and those that exist only locally.    *)
MergeFields(local, incoming) == incoming \cup local

-----------------------------------------------------------------------------
HasTable(id) == id \in TableId /\ tables[id] # NoTable

(* A collision check that never finds a collision.                         *)
NameFreeUnchecked(t) == TRUE

(* The collision check that Register and Replace share.                    *)
NameFree(t) == byName[t.name] \in {NoId, t.id}

Registrable(t) == t.id # NoId /\ NameFree(t)

Register(t) ==
  /\ Registrable(t)
  /\ tables' = [tables EXCEPT ![t.id] = t]
  /\ byName' = [byName EXCEPT ![t.name] = t.id]

Replaceable(t) == HasTable(t.id) /\ NameFree(t)

(* The entry of the name the stored table had is deleted first.            *)
Replace(t) ==
  /\ Replaceable(t)
  /\ tables' = [tables EXCEPT ![t.id] = t]
  /\ byName' = [byName EXCEPT ![tables[t.id].name] = NoId, ![t.name] = t.id]

(* Never renames: the name branch of the code compares a clone's name.     *)
ApplySchemaAtomic(id, fields) ==
  /\ HasTable(id)
  /\ tables' = [tables EXCEPT ![id] = WithSchema(@, fields)]
  /\ UNCHANGED byName

Holders(ts, n) == {id \in TableId : ts[id] # NoTable /\ ts[id].name = n}

(* rebuildNames ranges over a Go map: among several tables with one name   *)
(* the last one visited wins, and the order is unspecified.                *)
RebuiltNames(ts) ==
  {index \in NameIndex : \A n \in Name :
     IF Holders(ts, n) = {} THEN index[n] = NoId
                            ELSE index[n] \in Holders(ts, n)}

(* Tables the snapshot names are overwritten, the others are kept.         *)
RestoreTables(snapshot) ==
  /\ tables' = [id \in TableId |->
                  IF snapshot[id] # NoTable THEN snapshot[id] ELSE tables[id]]
  /\ byName' \in RebuiltNames(tables')

(* A drop that leaves the name index as it is.                             *)
DropNotInKeepingNames(baseline) ==
  /\ tables' = [id \in TableId |->
                  IF baseline[id] # NoTable THEN tables[id] ELSE NoTable]
  /\ UNCHANGED byName

(* Every table absent from the baseline is deleted, whoever registered it. *)
DropNotIn(baseline) ==
  /\ tables' = [id \in TableId |->
                  IF baseline[id] # NoTable THEN tables[id] ELSE NoTable]
  /\ byName' \in RebuiltNames(tables')

-----------------------------------------------------------------------------
(* No entry of the name index points at a table that is gone: after a drop *)
(* the freed names can be registered again.                                *)
IndexNeverDangles ==
  \A n \in Name : byName[n] # NoId => HasTable(byName[n])

(* The name index is exactly the inverse of the table map.                 *)
IndexExact ==
  \A n \in Name, id \in TableId :
    byName[n] = id <=> HasTable(id) /\ tables[id].name = n
=============================================================================
