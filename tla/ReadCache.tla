------------------------------ MODULE ReadCache ----------------------------
(***************************************************************************)
(* The read-through cache in front of the catalog store, as the query      *)
(* service uses it: several GET requests at once, the catalog changing     *)
(* under them.                                                             *)
(*                                                                         *)
(* A read that misses takes three locks one after the other: the cache's   *)
(* for the lookup, the catalog's for the load, the cache's to store what   *)
(* it loaded.  Everything else may happen between any two of them.  The    *)
(* fingerprint kept with an entry is never read and is left out.           *)
(***************************************************************************)
EXTENDS Catalog

CONSTANTS
  Reader,       \* GET requests that may be going on at the same time
  Posted,       \* tables that clients register
  PutFields,    \* field lists that clients PUT
  MaxRevision   \* bound: revisions from which a table is still updated

ASSUME ReadCacheAssumption ==
  /\ Posted \subseteq Table
  /\ PutFields \subseteq SUBSET Column
  /\ MaxRevision \in Nat

VARIABLES
  entries,      \* Cache.entries; NoTable where the map has no entry
  read,         \* each reader's Service.GetTable
  refreshed,    \* history: what the catalog held of each table since the
                \* table's last RefreshCache
  quiet         \* history: the tables whose last RefreshCache found no load
                \* of theirs between its lookup and its store

vars == <<tables, byName, entries, read, refreshed, quiet>>

Held == Table \cup {NoTable}    \* what the catalog can hold under an id

GetTable ==
  [pc : {"idle", "load", "store", "done"},
   id : TableId \cup {NoId},
   table : Held,              \* what the read loaded or answers
   missed : BOOLEAN,          \* history: the lookup found no entry
   during : SUBSET Held,      \* history: what the catalog held meanwhile
   since : SUBSET Held,       \* history: and since the refresh before it,
   calm : BOOLEAN]            \* history: and whether that refresh was quiet

NoRead ==
  [pc |-> "idle", id |-> NoId, table |-> NoTable, missed |-> FALSE,
   during |-> {}, since |-> {}, calm |-> FALSE]

TypeOK ==
  /\ CatalogTypeOK
  /\ entries \in TableMap
  /\ read \in [Reader -> GetTable]
  /\ refreshed \in [TableId -> SUBSET Held]
  /\ \A id \in TableId : tables[id] \in refreshed[id]
  /\ quiet \subseteq TableId
  /\ \A r \in Reader :
       /\ read[r].pc = "idle" <=> read[r].id = NoId
       /\ read[r].pc = "store" => read[r].table # NoTable

Init ==
  /\ CatalogInit
  /\ entries = [id \in TableId |-> NoTable]
  /\ read = [r \in Reader |-> NoRead]
  /\ refreshed = [id \in TableId |-> {NoTable}]
  /\ quiet = TableId

-----------------------------------------------------------------------------
(* The catalog changes, and the cache is not told: PUT and POST handlers   *)
(* and the importer's rollback write the store only.                       *)

Going(r, id) == read[r].pc # "idle" /\ read[r].id = id

(* What the properties remember of a change.                               *)
NoteChange ==
  /\ refreshed' = [id \in TableId |-> refreshed[id] \cup {tables'[id]}]
  /\ read' = [r \in Reader |->
       IF read[r].pc = "idle" THEN read[r]
       ELSE [read[r] EXCEPT !.during = @ \cup {tables'[read[r].id]},
                            !.since = @ \cup {tables'[read[r].id]}]]
  /\ UNCHANGED <<entries, quiet>>

ClientRegister(t) == Register(t) /\ NoteChange

ClientApplySchema(id, fields) ==
  /\ HasTable(id) /\ tables[id].revision < MaxRevision
  /\ ApplySchemaAtomic(id, fields)
  /\ NoteChange

(* Importer.Rollback deletes a table that its baseline does not have.      *)
RollbackDrop(id) ==
  /\ HasTable(id)
  /\ DropNotIn([tables EXCEPT ![id] = NoTable])
  /\ NoteChange

-----------------------------------------------------------------------------
(* One GET request: Cache.Get with Catalog.Get as its loader.              *)

Proceed(r, next) ==
  /\ read' = [read EXCEPT ![r] = next]
  /\ UNCHANGED <<tables, byName, refreshed, quiet>>

(* Cache.Get: an entry is answered, whatever its age.                      *)
Lookup(r, id) ==
  LET begun == [pc |-> IF entries[id] = NoTable THEN "load" ELSE "done",
                id |-> id, table |-> entries[id],
                missed |-> entries[id] = NoTable,
                during |-> {tables[id]}, since |-> refreshed[id],
                calm |-> id \in quiet] IN
  /\ read[r].pc = "idle"
  /\ Proceed(r, begun)
  /\ UNCHANGED entries

(* A load that goes on without looking at the loader's error.              *)
LoadIgnoringError(r) ==
  /\ read[r].pc = "load"
  /\ Proceed(r, [read[r] EXCEPT !.pc = "store", !.table = tables[read[r].id]])
  /\ UNCHANGED entries

(* load, up to the loader's answer; an error is answered, not cached.      *)
Load(r) ==
  /\ read[r].pc = "load"
  /\ LET found == tables[read[r].id] IN
       Proceed(r, [read[r] EXCEPT !.pc = IF found = NoTable THEN "done" ELSE "store",
                                  !.table = found])
  /\ UNCHANGED entries

(* A store that finds an entry put there meanwhile and answers that.       *)
StoreUnlessThere(r) ==
  LET there == entries[read[r].id] IN
  /\ read[r].pc = "store"
  /\ \/ /\ there = NoTable
        /\ entries' = [entries EXCEPT ![read[r].id] = read[r].table]
        /\ Proceed(r, [read[r] EXCEPT !.pc = "done"])
     \/ /\ there # NoTable
        /\ Proceed(r, [read[r] EXCEPT !.pc = "done", !.table = there])
        /\ UNCHANGED entries

(* load, its second half: an entry put there meanwhile is overwritten, be  *)
(* it newer or not.                                                        *)
Store(r) ==
  /\ read[r].pc = "store"
  /\ entries' = [entries EXCEPT ![read[r].id] = read[r].table]
  /\ Proceed(r, [read[r] EXCEPT !.pc = "done"])

Answer(r) ==
  /\ read[r].pc = "done"
  /\ Proceed(r, NoRead)
  /\ UNCHANGED entries

Loading(id) == \E r \in Reader : Going(r, id) /\ read[r].pc \in {"load", "store"}

(* An Evict for registered tables only.                                    *)
EvictRegistered(id) ==
  entries' = [entries EXCEPT ![id] = IF HasTable(id) THEN NoTable ELSE @]

Evict(id) == entries' = [entries EXCEPT ![id] = NoTable]

(* Service.RefreshCache.                                                   *)
RefreshCache(id) ==
  /\ Evict(id)
  /\ refreshed' = [refreshed EXCEPT ![id] = {tables[id]}]
  /\ quiet' = IF Loading(id) THEN quiet \ {id} ELSE quiet \cup {id}
  /\ UNCHANGED <<tables, byName, read>>

Next ==
  \/ \E t \in Posted : ClientRegister(t)
  \/ \E id \in TableId, fields \in PutFields : ClientApplySchema(id, fields)
  \/ \E id \in TableId : RollbackDrop(id) \/ RefreshCache(id)
  \/ \E r \in Reader, id \in TableId : Lookup(r, id)
  \/ \E r \in Reader : Load(r) \/ Store(r) \/ Answer(r)

Spec == Init /\ [][Next]_vars

-----------------------------------------------------------------------------
(* A read that misses answers what the catalog held at some moment of the  *)
(* read, whatever other reads store and evict meanwhile.                   *)
MissesAreCurrent ==
  \A r \in Reader :
    read[r].pc = "done" /\ read[r].missed => read[r].table \in read[r].during

(* After a RefreshCache that met no load of the table half done, no read   *)
(* that begins before the next one answers what was out of date when the   *)
(* table was refreshed.                                                    *)
QuietRefreshHolds ==
  \A r \in Reader :
    read[r].pc = "done" /\ read[r].calm => read[r].table \in read[r].since

-----------------------------------------------------------------------------
(* A claim of a comment that the code does not meet.                       *)

(* query.go, GetTable: it returns the current registered table.            *)
GetsTheCurrent ==
  \A r \in Reader : read[r].pc = "done" => read[r].table \in read[r].during
=============================================================================
