-------------------------- MODULE ReadCacheProofs --------------------------
(***************************************************************************)
(* Proofs about the read-through cache, for any number of readers, tables  *)
(* and changes of the catalog under them.                                  *)
(***************************************************************************)
EXTENDS ReadCache, TLAPS

-----------------------------------------------------------------------------
(* The catalog under the cache keeps its types.                            *)

(* Registering a table keeps the store well-typed.                         *)
LEMMA RegisterTyped ==
  ASSUME NEW t \in Table, CatalogTypeOK, Register(t)
  PROVE  CatalogTypeOK' /\ t.id \in TableId
BY CatalogAssumption DEF CatalogTypeOK, Register, Registrable, Table, TableMap,
   NameIndex

(* A copy with other fields is a table with the same id and name.          *)
LEMMA WithSchemaTyped ==
  ASSUME NEW t \in Table, NEW fields \in SUBSET Column
  PROVE  /\ WithSchema(t, fields) \in Table
         /\ WithSchema(t, fields).id = t.id
         /\ WithSchema(t, fields).name = t.name
BY DEF WithSchema, Table

(* A schema swap keeps the store well-typed.                               *)
LEMMA ApplySchemaTyped ==
  ASSUME NEW id \in TableId, NEW fields \in SUBSET Column,
         CatalogTypeOK, ApplySchemaAtomic(id, fields)
  PROVE  CatalogTypeOK'
<1>1. tables[id] \in Table /\ tables[id].id = id
  BY DEF CatalogTypeOK, ApplySchemaAtomic, HasTable, TableMap
<1>2. /\ WithSchema(tables[id], fields) \in Table
      /\ WithSchema(tables[id], fields).id = id
  BY <1>1, WithSchemaTyped
<1> QED
  BY <1>1, <1>2 DEF CatalogTypeOK, ApplySchemaAtomic, TableMap

(* A drop keeps the store well-typed.                                      *)
LEMMA DropTyped ==
  ASSUME NEW base \in TableMap, CatalogTypeOK, DropNotIn(base)
  PROVE  CatalogTypeOK'
<1>1. tables' \in TableMap
  BY DEF CatalogTypeOK, DropNotIn, TableMap
<1> QED
  BY <1>1 DEF CatalogTypeOK, DropNotIn, RebuiltNames

-----------------------------------------------------------------------------
(* What a read knows of the catalog while it goes on: the table it asks    *)
(* for was held during the read, and what it loaded too.                   *)
ReadKnows(r) ==
  /\ read[r].pc # "idle" =>
       /\ read[r].id \in TableId
       /\ tables[read[r].id] \in read[r].during
       /\ tables[read[r].id] \in read[r].since
  /\ read[r].pc \in {"store", "done"} /\ read[r].missed =>
       read[r].table \in read[r].during
  /\ read[r].pc = "store" =>
       /\ read[r].table \in Table
       /\ read[r].table.id = read[r].id
       /\ read[r].missed
  /\ read[r].pc = "load" => read[r].missed
  /\ read[r].pc \in {"store", "done"} /\ read[r].calm =>
       read[r].table \in read[r].since

(* A table whose last refresh was quiet: neither its entry nor a load of   *)
(* it in flight is older than that refresh.                                *)
QuietIsFresh ==
  \A id \in quiet :
    /\ entries[id] # NoTable => entries[id] \in refreshed[id]
    /\ \A r \in Reader :
         Going(r, id) /\ read[r].pc = "store" => read[r].table \in refreshed[id]

CacheInv ==
  /\ TypeOK
  /\ \A r \in Reader : ReadKnows(r)
  /\ QuietIsFresh

LEMMA HeldIsHeld == CatalogTypeOK => \A id \in TableId : tables[id] \in Held
BY DEF CatalogTypeOK, TableMap, Held

LEMMA NoReadTyped ==
  NoRead \in GetTable /\ NoRead.pc = "idle" /\ NoRead.id = NoId
BY DEF NoRead, GetTable, Held

LEMMA InitCacheInv == Init => CacheInv
<1> SUFFICES ASSUME Init PROVE CacheInv
  OBVIOUS
<1>1. CatalogTypeOK /\ entries \in TableMap
  BY DEF Init, CatalogInit, CatalogTypeOK, TableMap, NameIndex
<1>2. \A r \in Reader : read[r] = NoRead
  BY DEF Init
<1>3. read \in [Reader -> GetTable]
  BY NoReadTyped DEF Init
<1>4. \A id \in TableId : tables[id] \in refreshed[id]
  BY DEF Init, CatalogInit
<1>5. TypeOK
  <2>1. refreshed \in [TableId -> SUBSET Held] /\ quiet \subseteq TableId
    BY DEF Init, Held
  <2>2. \A r \in Reader : (read[r].pc = "idle" <=> read[r].id = NoId)
                          /\ read[r].pc # "store"
    BY <1>2, NoReadTyped
  <2> QED
    BY <1>1, <1>3, <1>4, <2>1, <2>2 DEF TypeOK
<1>6. \A r \in Reader : ReadKnows(r)
  BY <1>2, NoReadTyped DEF ReadKnows
<1>7. QuietIsFresh
  BY <1>2, NoReadTyped DEF Init, QuietIsFresh
<1> QED
  BY <1>5, <1>6, <1>7 DEF CacheInv

-----------------------------------------------------------------------------
(* The catalog changes.                                                    *)

(* What every read remembers of a change of the catalog.                   *)
LEMMA ChangeSeen ==
  ASSUME CacheInv, CatalogTypeOK', NoteChange, NEW r \in Reader
  PROVE  /\ read'[r] \in GetTable
         /\ read'[r].pc = read[r].pc /\ read'[r].id = read[r].id
         /\ read'[r].table = read[r].table /\ read'[r].missed = read[r].missed
         /\ read'[r].calm = read[r].calm
         /\ read[r].during \subseteq read'[r].during
         /\ read[r].since \subseteq read'[r].since
         /\ read[r].pc # "idle" => /\ tables'[read[r].id] \in read'[r].during
                                   /\ tables'[read[r].id] \in read'[r].since
<1>1. read[r] \in GetTable
  BY DEF CacheInv, TypeOK
<1>2. CASE read[r].pc = "idle"
  BY <1>1, <1>2 DEF NoteChange
<1>3. CASE read[r].pc # "idle"
  <2> DEFINE now == tables'[read[r].id]
  <2>1. now \in Held
    <3>1. read[r].id \in TableId
      BY <1>3 DEF CacheInv, ReadKnows
    <3> QED
      BY <3>1 DEF CatalogTypeOK, TableMap, Held
  <2>2. read'[r] = [read[r] EXCEPT !.during = @ \cup {now}, !.since = @ \cup {now}]
    BY <1>3 DEF NoteChange
  <2> HIDE DEF now
  <2>3. /\ read'[r].during = read[r].during \cup {now}
        /\ read'[r].since = read[r].since \cup {now}
        /\ read'[r].pc = read[r].pc /\ read'[r].id = read[r].id
        /\ read'[r].table = read[r].table /\ read'[r].missed = read[r].missed
        /\ read'[r].calm = read[r].calm
    BY <1>1, <2>2 DEF GetTable
  <2>4. /\ read[r].during \cup {now} \in SUBSET Held
        /\ read[r].since \cup {now} \in SUBSET Held
    BY <1>1, <2>1 DEF GetTable
  <2>5. read'[r] \in GetTable
    BY <1>1, <2>2, <2>4 DEF GetTable
  <2> QED
    BY <2>3, <2>5 DEF now
<1> QED
  BY <1>2, <1>3

LEMMA ChangeKeeps ==
  ASSUME CacheInv, CatalogTypeOK', NoteChange
  PROVE  CacheInv'
<1>1. \A id \in TableId : tables'[id] \in refreshed'[id]
                          /\ refreshed[id] \subseteq refreshed'[id]
  BY DEF NoteChange
<1>2. entries' = entries /\ quiet' = quiet
  BY DEF NoteChange
<1>3. TypeOK'
  <2>1. read' \in [Reader -> GetTable]
    <3>1. \A r \in Reader : read'[r] \in GetTable
      BY ChangeSeen
    <3>2. read' = [r \in Reader |-> read'[r]]
      BY DEF NoteChange
    <3> QED
      BY <3>1, <3>2
  <2>2. \A r \in Reader :
          /\ read'[r].pc = "idle" <=> read'[r].id = NoId
          /\ read'[r].pc = "store" => read'[r].table # NoTable
    BY ChangeSeen DEF CacheInv, TypeOK
  <2>3. entries' \in TableMap /\ quiet' \subseteq TableId
    BY <1>2 DEF CacheInv, TypeOK
  <2>4. refreshed' \in [TableId -> SUBSET Held]
    <3>1. \A id \in TableId : tables'[id] \in Held
      BY DEF CatalogTypeOK, TableMap, Held
    <3>2. refreshed \in [TableId -> SUBSET Held]
      BY DEF CacheInv, TypeOK
    <3>3. \A id \in TableId : refreshed[id] \cup {tables'[id]} \in SUBSET Held
      BY <3>1, <3>2
    <3> QED
      BY <3>3 DEF NoteChange
  <2> QED
    BY <1>1, <2>1, <2>2, <2>3, <2>4 DEF TypeOK
<1>4. \A r \in Reader : ReadKnows(r)'
  <2> SUFFICES ASSUME NEW r \in Reader PROVE ReadKnows(r)'
    OBVIOUS
  <2>1. ReadKnows(r)
    BY DEF CacheInv
  <2> QED
    BY <2>1, ChangeSeen DEF ReadKnows
<1>5. QuietIsFresh'
  <2>1. QuietIsFresh /\ quiet \subseteq TableId
    BY DEF CacheInv, TypeOK
  <2> QED
    BY <1>1, <1>2, <2>1, ChangeSeen DEF QuietIsFresh, Going
<1> QED
  BY <1>3, <1>4, <1>5 DEF CacheInv

LEMMA CatalogStep ==
  ASSUME CacheInv,
         \/ \E t \in Posted : ClientRegister(t)
         \/ \E id \in TableId, fields \in PutFields : ClientApplySchema(id, fields)
         \/ \E id \in TableId : RollbackDrop(id)
  PROVE  CacheInv'
<1>1. CatalogTypeOK
  BY DEF CacheInv, TypeOK
<1>2. CASE \E t \in Posted : ClientRegister(t)
  <2>1. PICK t \in Posted : ClientRegister(t)
    BY <1>2
  <2>2. t \in Table
    BY ReadCacheAssumption
  <2> QED
    BY <1>1, <2>1, <2>2, RegisterTyped, ChangeKeeps DEF ClientRegister
<1>3. CASE \E id \in TableId, fields \in PutFields : ClientApplySchema(id, fields)
  <2>1. PICK id \in TableId, fields \in PutFields : ClientApplySchema(id, fields)
    BY <1>3
  <2>2. fields \in SUBSET Column
    BY ReadCacheAssumption
  <2> QED
    BY <1>1, <2>1, <2>2, ApplySchemaTyped, ChangeKeeps DEF ClientApplySchema
<1>4. CASE \E id \in TableId : RollbackDrop(id)
  <2>1. PICK id \in TableId : RollbackDrop(id)
    BY <1>4
  <2> DEFINE base == [tables EXCEPT ![id] = NoTable]
  <2>2. base \in TableMap
    BY <1>1 DEF CatalogTypeOK, TableMap
  <2>3. DropNotIn(base) /\ NoteChange
    BY <2>1 DEF RollbackDrop
  <2> HIDE DEF base
  <2>4. CatalogTypeOK'
    BY <1>1, <2>2, <2>3, DropTyped
  <2> QED
    BY <2>3, <2>4, ChangeKeeps
<1> QED
  BY <1>2, <1>3, <1>4

-----------------------------------------------------------------------------
(* One request proceeds; the others, the catalog and the history of its    *)
(* refreshes stay as they are.                                             *)

LEMMA ProceedKeeps ==
  ASSUME CacheInv, NEW r \in Reader, NEW next \in GetTable, Proceed(r, next),
         next.pc = "idle" <=> next.id = NoId,
         next.pc = "store" => next.table # NoTable,
         ReadKnows(r)',
         next.pc = "store" /\ next.id \in quiet => next.table \in refreshed[next.id],
         entries' \in TableMap,
         \A id \in quiet :
           entries'[id] = entries[id] \/ entries'[id] \in refreshed[id]
  PROVE  CacheInv'
<1>1. /\ read' = [read EXCEPT ![r] = next] /\ tables' = tables /\ byName' = byName
      /\ refreshed' = refreshed /\ quiet' = quiet
  BY DEF Proceed
<1>2. read \in [Reader -> GetTable]
  BY DEF CacheInv, TypeOK
<1>3. read'[r] = next /\ \A o \in Reader \ {r} : read'[o] = read[o]
  BY <1>1, <1>2
<1>4. TypeOK'
  <2>1. CatalogTypeOK'
    BY <1>1 DEF CacheInv, TypeOK, CatalogTypeOK
  <2>2. read' \in [Reader -> GetTable]
    BY <1>1, <1>2
  <2>3. \A o \in Reader :
          /\ read'[o].pc = "idle" <=> read'[o].id = NoId
          /\ read'[o].pc = "store" => read'[o].table # NoTable
    BY <1>3 DEF CacheInv, TypeOK
  <2>4. /\ refreshed' \in [TableId -> SUBSET Held]
        /\ \A id \in TableId : tables'[id] \in refreshed'[id]
    BY <1>1 DEF CacheInv, TypeOK
  <2>5. quiet' \subseteq TableId
    BY <1>1 DEF CacheInv, TypeOK
  <2> QED
    BY <2>1, <2>2, <2>3, <2>4, <2>5 DEF TypeOK
<1>5. \A o \in Reader : ReadKnows(o)'
  <2> SUFFICES ASSUME NEW o \in Reader \ {r} PROVE ReadKnows(o)'
    OBVIOUS
  <2>1. ReadKnows(o) /\ read'[o] = read[o]
    BY <1>3 DEF CacheInv
  <2> QED
    BY <1>1, <2>1 DEF ReadKnows
<1>6. QuietIsFresh'
  <2> SUFFICES ASSUME NEW id \in quiet
               PROVE  /\ entries'[id] # NoTable => entries'[id] \in refreshed[id]
                      /\ \A o \in Reader :
                           (Going(o, id))' /\ read'[o].pc = "store" =>
                             read'[o].table \in refreshed[id]
    BY <1>1 DEF QuietIsFresh
  <2>1. entries'[id] # NoTable => entries'[id] \in refreshed[id]
    BY DEF CacheInv, QuietIsFresh
  <2>2. ASSUME NEW o \in Reader, (Going(o, id))', read'[o].pc = "store"
        PROVE  read'[o].table \in refreshed[id]
    BY <1>3, <2>2 DEF CacheInv, QuietIsFresh, Going
  <2> QED
    BY <2>1, <2>2
<1> QED
  BY <1>4, <1>5, <1>6 DEF CacheInv

LEMMA LookupStep ==
  ASSUME CacheInv, NEW r \in Reader, NEW id \in TableId, Lookup(r, id)
  PROVE  CacheInv'
<1> DEFINE begun == [pc |-> IF entries[id] = NoTable THEN "load" ELSE "done",
                     id |-> id, table |-> entries[id],
                     missed |-> entries[id] = NoTable,
                     during |-> {tables[id]}, since |-> refreshed[id],
                     calm |-> id \in quiet]
<1>1. Proceed(r, begun) /\ entries' = entries
  BY DEF Lookup
<1>2. entries \in TableMap /\ entries[id] \in Held
  BY DEF CacheInv, TypeOK, TableMap, Held
<1>3. tables[id] \in Held /\ tables[id] \in refreshed[id]
      /\ refreshed[id] \in SUBSET Held
  BY HeldIsHeld DEF CacheInv, TypeOK
<1>4. begun \in GetTable
  BY <1>2, <1>3 DEF GetTable
<1>5. begun.pc # "idle" /\ begun.pc # "store" /\ begun.id # NoId
  BY CatalogAssumption
<1>6. read'[r] = begun /\ tables' = tables
  BY <1>1 DEF Proceed, CacheInv, TypeOK
<1>7. ReadKnows(r)'
  <2>1. id \in quiet /\ entries[id] # NoTable => entries[id] \in refreshed[id]
    BY DEF CacheInv, QuietIsFresh
  <2>2. /\ begun.id = id /\ begun.table = entries[id]
        /\ begun.during = {tables[id]} /\ begun.since = refreshed[id]
    OBVIOUS
  <2>3. begun.calm => id \in quiet
    OBVIOUS
  <2>4. CASE entries[id] = NoTable
    <3>1. begun.pc = "load" /\ begun.missed
      BY <2>4
    <3> HIDE DEF begun
    <3> QED
      BY <1>3, <1>6, <2>2, <3>1 DEF ReadKnows
  <2>5. CASE entries[id] # NoTable
    <3>1. begun.pc = "done" /\ ~begun.missed
      BY <2>5
    <3> HIDE DEF begun
    <3> QED
      BY <1>3, <1>6, <2>1, <2>2, <2>3, <2>5, <3>1 DEF ReadKnows
  <2> QED
    BY <2>4, <2>5
<1> HIDE DEF begun
<1> QED
  BY <1>1, <1>2, <1>4, <1>5, <1>7, ProceedKeeps DEF CacheInv, TypeOK

LEMMA LoadStep ==
  ASSUME CacheInv, NEW r \in Reader, Load(r)
  PROVE  CacheInv'
<1> DEFINE id == read[r].id
           next == [read[r] EXCEPT
                      !.pc = IF tables[id] = NoTable THEN "done" ELSE "store",
                      !.table = tables[id]]
<1>1. Proceed(r, next) /\ entries' = entries /\ read[r].pc = "load"
  BY DEF Load
<1>2. read[r] \in GetTable /\ ReadKnows(r) /\ read[r].id # NoId
  BY <1>1 DEF CacheInv, TypeOK
<1>3. id \in TableId /\ tables[id] \in read[r].during /\ tables[id] \in read[r].since
      /\ read[r].missed
  BY <1>1, <1>2 DEF ReadKnows
<1>4. tables[id] \in Held
  BY <1>3, HeldIsHeld DEF CacheInv, TypeOK
<1>5. /\ next \in GetTable /\ next.id = id /\ next.table = tables[id]
      /\ next.pc = IF tables[id] = NoTable THEN "done" ELSE "store"
      /\ next.during = read[r].during /\ next.since = read[r].since
      /\ next.missed = read[r].missed /\ next.calm = read[r].calm
  BY <1>2, <1>4 DEF GetTable
<1>6. read'[r] = next /\ tables' = tables
  BY <1>1 DEF Proceed, CacheInv, TypeOK
<1>7. tables[id] # NoTable => tables[id] \in Table /\ tables[id].id = id
  BY <1>3 DEF CacheInv, TypeOK, CatalogTypeOK, TableMap
<1>8. tables[id] \in refreshed[id] /\ entries \in TableMap
  BY <1>3 DEF CacheInv, TypeOK
<1> HIDE DEF next
<1>9. ReadKnows(r)'
  BY <1>3, <1>5, <1>6, <1>7 DEF ReadKnows
<1> HIDE DEF id
<1>10. next.pc # "idle" /\ next.id # NoId
       /\ (next.pc = "store" => next.table # NoTable)
  BY <1>3, <1>5, CatalogAssumption
<1>11. Proceed(r, next) /\ entries' \in TableMap /\ entries' = entries
  BY <1>1, <1>8
<1> QED
  BY <1>5, <1>8, <1>9, <1>10, <1>11, ProceedKeeps

LEMMA StoreStep ==
  ASSUME CacheInv, NEW r \in Reader, Store(r)
  PROVE  CacheInv'
<1> DEFINE id == read[r].id
           next == [read[r] EXCEPT !.pc = "done"]
<1>1. /\ Proceed(r, next) /\ read[r].pc = "store"
      /\ entries' = [entries EXCEPT ![id] = read[r].table]
  BY DEF Store
<1>2. read[r] \in GetTable /\ ReadKnows(r)
  BY DEF CacheInv, TypeOK
<1>3. id \in TableId /\ read[r].table \in Table /\ read[r].table.id = id
      /\ tables[id] \in read[r].during /\ tables[id] \in read[r].since
      /\ read[r].table \in read[r].during
      /\ (read[r].calm => read[r].table \in read[r].since)
  BY <1>1, <1>2 DEF ReadKnows
<1>4. /\ next \in GetTable /\ next.pc = "done" /\ next.id = id
      /\ next.table = read[r].table
      /\ next.during = read[r].during /\ next.since = read[r].since
      /\ next.missed = read[r].missed /\ next.calm = read[r].calm
  BY <1>2 DEF GetTable
<1>5. read'[r] = next /\ tables' = tables
  BY <1>1 DEF Proceed, CacheInv, TypeOK
<1>6. entries' \in TableMap
  BY <1>1, <1>3 DEF CacheInv, TypeOK, TableMap
<1>7. \A i \in quiet : entries'[i] = entries[i] \/ entries'[i] \in refreshed[i]
  <2> SUFFICES ASSUME NEW i \in quiet
               PROVE  entries'[i] = entries[i] \/ entries'[i] \in refreshed[i]
    OBVIOUS
  <2>1. i \in TableId /\ entries \in [TableId -> Table \cup {NoTable}]
    BY DEF CacheInv, TypeOK, TableMap
  <2>2. CASE i = id
    <3>1. Going(r, i)
      BY <1>1, <2>2 DEF Going
    <3>2. read[r].table \in refreshed[i]
      BY <1>1, <3>1 DEF CacheInv, QuietIsFresh
    <3> QED
      BY <1>1, <2>1, <2>2, <3>2
  <2>3. CASE i # id
    BY <1>1, <2>1, <2>3
  <2> QED
    BY <2>2, <2>3
<1> HIDE DEF next
<1>8. ReadKnows(r)'
  BY <1>3, <1>4, <1>5 DEF ReadKnows
<1> HIDE DEF id
<1>9. next.pc # "idle" /\ next.pc # "store" /\ next.id # NoId
  BY <1>3, <1>4, CatalogAssumption
<1>10. Proceed(r, next) /\ next \in GetTable
  BY <1>1, <1>4
<1> QED
  BY <1>6, <1>7, <1>8, <1>9, <1>10, ProceedKeeps

LEMMA AnswerStep ==
  ASSUME CacheInv, NEW r \in Reader, Answer(r)
  PROVE  CacheInv'
<1>1. Proceed(r, NoRead) /\ entries' = entries
  BY DEF Answer
<1>2. read'[r] = NoRead
  BY <1>1 DEF Proceed, CacheInv, TypeOK
<1>3. ReadKnows(r)'
  BY <1>2, NoReadTyped DEF ReadKnows
<1>4. entries' \in TableMap
  BY <1>1 DEF CacheInv, TypeOK
<1> QED
  BY <1>1, <1>3, <1>4, NoReadTyped, ProceedKeeps

-----------------------------------------------------------------------------
(* A refresh starts the history of its table again.                        *)
LEMMA RefreshStep ==
  ASSUME CacheInv, NEW id \in TableId, RefreshCache(id)
  PROVE  CacheInv'
<1>1. /\ entries' = [entries EXCEPT ![id] = NoTable]
      /\ refreshed' = [refreshed EXCEPT ![id] = {tables[id]}]
      /\ quiet' = IF Loading(id) THEN quiet \ {id} ELSE quiet \cup {id}
      /\ tables' = tables /\ byName' = byName /\ read' = read
  BY DEF RefreshCache, Evict
<1>2. TypeOK'
  <2>1. CatalogTypeOK' /\ read' \in [Reader -> GetTable] /\ quiet' \subseteq TableId
    BY <1>1 DEF CacheInv, TypeOK, CatalogTypeOK
  <2>2. entries' \in TableMap
    BY <1>1, CatalogAssumption DEF CacheInv, TypeOK, TableMap
  <2>3. /\ refreshed' \in [TableId -> SUBSET Held]
        /\ \A i \in TableId : tables'[i] \in refreshed'[i]
    BY <1>1, HeldIsHeld DEF CacheInv, TypeOK
  <2>4. \A r \in Reader : (read'[r].pc = "idle" <=> read'[r].id = NoId)
                          /\ (read'[r].pc = "store" => read'[r].table # NoTable)
    BY <1>1 DEF CacheInv, TypeOK
  <2> QED
    BY <2>1, <2>2, <2>3, <2>4 DEF TypeOK
<1>3. \A r \in Reader : ReadKnows(r)'
  BY <1>1 DEF CacheInv, ReadKnows
<1>4. QuietIsFresh'
  <2> SUFFICES ASSUME NEW i \in quiet'
               PROVE  /\ entries'[i] # NoTable => entries'[i] \in refreshed'[i]
                      /\ \A r \in Reader :
                           Going(r, i) /\ read[r].pc = "store" =>
                             read[r].table \in refreshed'[i]
    BY <1>1 DEF QuietIsFresh, Going
  <2>1. /\ i \in TableId /\ entries \in [TableId -> Table \cup {NoTable}]
        /\ refreshed \in [TableId -> SUBSET Held]
    BY <1>1 DEF CacheInv, TypeOK, TableMap
  <2>2. CASE i = id
    <3>1. ~Loading(id)
      BY <1>1, <2>2
    <3>2. \A r \in Reader : ~(Going(r, i) /\ read[r].pc = "store")
      BY <2>2, <3>1 DEF Loading
    <3> QED
      BY <1>1, <2>1, <2>2, <3>2
  <2>3. CASE i # id
    <3>1. i \in quiet /\ entries'[i] = entries[i] /\ refreshed'[i] = refreshed[i]
      BY <1>1, <2>1, <2>3
    <3> QED
      BY <3>1 DEF CacheInv, QuietIsFresh
  <2> QED
    BY <2>2, <2>3
<1> QED
  BY <1>2, <1>3, <1>4 DEF CacheInv

LEMMA CacheStep == CacheInv /\ [Next]_vars => CacheInv'
<1> SUFFICES ASSUME CacheInv, [Next]_vars PROVE CacheInv'
  OBVIOUS
<1>1. CASE Next
  <2>1. CASE \/ \E t \in Posted : ClientRegister(t)
             \/ \E id \in TableId, fields \in PutFields : ClientApplySchema(id, fields)
             \/ \E id \in TableId : RollbackDrop(id)
    BY <2>1, CatalogStep
  <2>2. CASE \E id \in TableId : RefreshCache(id)
    BY <2>2, RefreshStep
  <2>3. CASE \E r \in Reader, id \in TableId : Lookup(r, id)
    BY <2>3, LookupStep
  <2>4. CASE \E r \in Reader : Load(r) \/ Store(r) \/ Answer(r)
    BY <2>4, LoadStep, StoreStep, AnswerStep
  <2> QED
    BY <1>1, <2>1, <2>2, <2>3, <2>4 DEF Next
<1>2. CASE UNCHANGED vars
  BY <1>2 DEF vars, CacheInv, TypeOK, CatalogTypeOK, ReadKnows, QuietIsFresh, Going
<1> QED
  BY <1>1, <1>2

LEMMA CacheInvariant == Spec => []CacheInv
BY InitCacheInv, CacheStep, PTL DEF Spec

-----------------------------------------------------------------------------
(* An entry is a table stored under its own id, and every read is at a     *)
(* step of Cache.Get.                                                      *)
THEOREM CacheTypeCorrect == Spec => []TypeOK
<1>1. CacheInv => TypeOK
  BY DEF CacheInv
<1> QED
  BY <1>1, CacheInvariant, PTL

(* A read that missed answers what the catalog held while it went on, for  *)
(* any number of reads that store and evict meanwhile.                     *)
THEOREM CacheMissesCurrent == Spec => []MissesAreCurrent
<1>1. CacheInv => MissesAreCurrent
  BY DEF CacheInv, ReadKnows, MissesAreCurrent
<1> QED
  BY <1>1, CacheInvariant, PTL

(* After a refresh that met no load half done, no read answers what was    *)
(* out of date at that refresh.                                            *)
THEOREM CacheQuietRefreshHolds == Spec => []QuietRefreshHolds
<1>1. CacheInv => QuietRefreshHolds
  BY DEF CacheInv, ReadKnows, QuietRefreshHolds
<1> QED
  BY <1>1, CacheInvariant, PTL
=============================================================================
