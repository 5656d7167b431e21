--------------------------- MODULE IngestProofs ----------------------------
(***************************************************************************)
(* Proofs about the catalog store and the importer, for any tables,        *)
(* clients and segments.                                                   *)
(***************************************************************************)
EXTENDS Ingest, TLAPS

-----------------------------------------------------------------------------
(* The catalog store: the types of its two maps ...                        *)

(* Registering a table keeps the store well-typed.                         *)
LEMMA RegisterTyped ==
  ASSUME NEW t \in Table, CatalogTypeOK, Register(t)
  PROVE  CatalogTypeOK' /\ t.id \in TableId
BY CatalogAssumption DEF CatalogTypeOK, Register, Registrable, Table, TableMap,
   NameIndex

(* Replacing a registered table keeps the store well-typed.                *)
LEMMA ReplaceTyped ==
  ASSUME NEW t \in Table, CatalogTypeOK, Replace(t)
  PROVE  CatalogTypeOK' /\ t.id \in TableId
<1>1. t.id \in TableId /\ tables[t.id] \in Table
  BY CatalogAssumption
     DEF CatalogTypeOK, Replace, Replaceable, HasTable, TableMap
<1>2. tables[t.id].name \in Name /\ t.name \in Name
  BY <1>1 DEF Table
<1> QED
  BY <1>1, <1>2, CatalogAssumption
     DEF CatalogTypeOK, Replace, TableMap, NameIndex, Table

(* A copy with other fields is a table with the same id and name.          *)
LEMMA WithSchemaTyped ==
  ASSUME NEW t \in Table, NEW fields \in SUBSET Column
  PROVE  /\ WithSchema(t, fields) \in Table
         /\ WithSchema(t, fields).id = t.id
         /\ WithSchema(t, fields).name = t.name
BY DEF WithSchema, Table

(* A schema swap keeps the store well-typed.                               *)
LEMMA ApplySchemaTyped ==
  ASSUME NEW id \in TableId, NEW fields \in SUBSET Column,
         CatalogTypeOK, ApplySchemaAtomic(id, fields)
  PROVE  CatalogTypeOK'
<1>1. tables[id] \in Table /\ tables[id].id = id
  BY DEF CatalogTypeOK, ApplySchemaAtomic, HasTable, TableMap
<1>2. /\ WithSchema(tables[id], fields) \in Table
      /\ WithSchema(tables[id], fields).id = id
  BY <1>1, WithSchemaTyped
<1> QED
  BY <1>1, <1>2 DEF CatalogTypeOK, ApplySchemaAtomic, TableMap

(* A restore from a well-typed snapshot keeps the store well-typed.        *)
LEMMA RestoreTyped ==
  ASSUME NEW snapshot \in TableMap, CatalogTypeOK, RestoreTables(snapshot)
  PROVE  CatalogTypeOK'
<1>1. tables' \in TableMap
  BY DEF CatalogTypeOK, RestoreTables, TableMap
<1> QED
  BY <1>1 DEF CatalogTypeOK, RestoreTables, RebuiltNames

(* A drop keeps the store well-typed.                                      *)
LEMMA DropTyped ==
  ASSUME NEW base \in TableMap, CatalogTypeOK, DropNotIn(base)
  PROVE  CatalogTypeOK'
<1>1. tables' \in TableMap
  BY DEF CatalogTypeOK, DropNotIn, TableMap
<1> QED
  BY <1>1 DEF CatalogTypeOK, DropNotIn, RebuiltNames

-----------------------------------------------------------------------------
(* ... and the name index, which never points at a table that is gone.     *)

(* The four ways the index is written leave no dangling entry: a           *)
(* registration points the name at the table it stores;                    *)
LEMMA RegisterKeepsIndex ==
  ASSUME NEW t \in Table, CatalogTypeOK, IndexNeverDangles, Register(t)
  PROVE  IndexNeverDangles'
BY CatalogAssumption
   DEF CatalogTypeOK, IndexNeverDangles, Register, Registrable, HasTable,
       Table, TableMap, NameIndex

(* a replacement removes one entry and points another at a stored table;   *)
LEMMA ReplaceKeepsIndex ==
  ASSUME NEW t \in Table, CatalogTypeOK, IndexNeverDangles, Replace(t)
  PROVE  IndexNeverDangles'
<1>1. t.id \in TableId /\ t # NoTable /\ t.name \in Name
  BY CatalogAssumption DEF Replace, Replaceable, HasTable, Table
<1>2. tables[t.id].name \in Name
  BY <1>1 DEF CatalogTypeOK, TableMap, Table, Replace, Replaceable, HasTable
<1> QED
  BY <1>1, <1>2, CatalogAssumption
     DEF CatalogTypeOK, IndexNeverDangles, Replace, HasTable, TableMap,
         NameIndex

(* a rebuild takes its entries from the table map;                         *)
LEMMA RebuildKeepsIndex ==
  ASSUME byName' \in RebuiltNames(tables')
  PROVE  IndexNeverDangles'
BY DEF RebuiltNames, Holders, IndexNeverDangles, HasTable

(* a schema swap changes no entry and removes no table.                    *)
LEMMA ApplySchemaKeepsIndex ==
  ASSUME NEW id \in TableId, NEW fields \in SUBSET Column,
         CatalogTypeOK, IndexNeverDangles, ApplySchemaAtomic(id, fields)
  PROVE  IndexNeverDangles'
<1>1. WithSchema(tables[id], fields) # NoTable
  BY WithSchemaTyped, CatalogAssumption
     DEF CatalogTypeOK, TableMap, ApplySchemaAtomic, HasTable
<1> QED
  BY <1>1
     DEF CatalogTypeOK, TableMap, IndexNeverDangles, ApplySchemaAtomic,
         HasTable

-----------------------------------------------------------------------------
(* Type correctness.                                                       *)

(* While a known id is being replaced, the table that will be written is a *)
(* table under that id and the stored copy's name.                         *)
LEMMA MergedTyped ==
  ASSUME TypeOK, pc = "replace"
  PROVE  /\ Applying \in Table
         /\ Merged \in Table
         /\ Merged.id = Applying.id
         /\ Merged.name = cur.name
<1>1. seg \in Segment /\ next \in DOMAIN seg.tables /\ cur \in Table
      /\ cur.id = seg.tables[next].id
  BY DEF TypeOK, Segment
<1>2. Applying \in Table
  BY <1>1 DEF Applying, Segment
<1>3. MergeFields(cur.fields, Applying.fields) \in SUBSET Column
  BY <1>1, <1>2 DEF MergeFields, Table
<1> QED
  BY <1>1, <1>2, <1>3, WithSchemaTyped DEF Merged, Applying

(* While an unknown id is being registered, the table is a table.          *)
LEMMA ApplyingTyped ==
  ASSUME TypeOK, pc = "register"
  PROVE  Applying \in Table
<1>1. seg \in Segment /\ next \in DOMAIN seg.tables
  BY DEF TypeOK, Segment
<1> QED
  BY <1>1 DEF Applying, Segment

(* Clients' POST and PUT keep the types.                                   *)
LEMMA ClientStepTyped ==
  ASSUME TypeOK, ClientStep
  PROVE  TypeOK'
<1>1. CASE \E t \in Posted : ClientRegister(t)
  <2>1. PICK t \in Posted : ClientRegister(t)
    BY <1>1
  <2>2. CatalogTypeOK' /\ t.id \in TableId
    BY <2>1, RegisterTyped, IngestAssumption DEF TypeOK, ClientRegister
  <2> QED
    BY <2>1, <2>2 DEF TypeOK, ClientRegister, NoteClientWrite, importVars,
       requestVars
<1>2. CASE \E id \in TableId, fields \in PutFields :
             ClientApplySchema(id, fields)
  <2>1. PICK id \in TableId, fields \in PutFields :
          ClientApplySchema(id, fields)
    BY <1>2
  <2>2. CatalogTypeOK'
    BY <2>1, ApplySchemaTyped, IngestAssumption DEF TypeOK, ClientApplySchema
  <2> QED
    BY <2>1, <2>2 DEF TypeOK, ClientApplySchema, NoteClientWrite, importVars,
       requestVars
<1> QED
  BY <1>1, <1>2 DEF ClientStep

(* The snapshot a rollback restores from is well-typed.                    *)
LEMMA RestoredTyped ==
  ASSUME TypeOK, baseline # NoBaseline
  PROVE  RestoreSet \in TableMap
BY DEF TypeOK, TableMap, RestoreSet

(* Every import step keeps the types.                                      *)
LEMMA ImportStepTyped ==
  ASSUME TypeOK, ImportStep
  PROVE  TypeOK'
<1>1. CASE Begin
  BY <1>1 DEF TypeOK, Begin, Idle, catalogVars, requestVars, CatalogTypeOK
<1>2. CASE Fail
  BY <1>2 DEF TypeOK, Fail, catalogVars, requestVars, CatalogTypeOK
<1>3. CASE Commit
  <2>1. [inflight EXCEPT !.commit = TRUE] \in Segment
    BY <1>3 DEF TypeOK, Commit, Segment
  <2> QED
    BY <1>3, <2>1 DEF TypeOK, Commit, catalogVars, requestVars, CatalogTypeOK
<1>4. CASE \E s \in SegmentBodies : ApplyStart(s)
  BY <1>4, IngestAssumption
     DEF TypeOK, ApplyStart, catalogVars, importVars, CatalogTypeOK
<1>5. CASE ApplyGet
  <2>1. Applying.id \in TableId /\ tables[Applying.id] \in Table
        /\ tables[Applying.id].id = Applying.id
    BY <1>5 DEF TypeOK, ApplyGet, HasTable, CatalogTypeOK, TableMap
  <2>2. CatalogTypeOK'
    BY <1>5 DEF TypeOK, ApplyGet, catalogVars, CatalogTypeOK
  <2> QED
    BY <1>5, <2>1, <2>2, CatalogAssumption
       DEF TypeOK, ApplyGet, importVars, Applying
<1>6. CASE ApplyMiss
  BY <1>6 DEF TypeOK, ApplyMiss, catalogVars, importVars, CatalogTypeOK
<1>7. CASE ApplyReplace
  <2>1. Merged \in Table /\ Merged.id = Applying.id
    BY <1>7, MergedTyped DEF ApplyReplace
  <2>2. CASE Replace(Merged) /\ TableApplied
    <3>1. CatalogTypeOK' /\ Applying.id \in TableId
      BY <2>1, <2>2, ReplaceTyped DEF TypeOK
    <3> QED
      BY <1>7, <2>2, <3>1 DEF TypeOK, ApplyReplace, TableApplied
  <2>3. CASE ~Replaceable(Merged) /\ ApplyFails
    BY <1>7, <2>3 DEF TypeOK, ApplyReplace, ApplyFails, FinishRequest,
       catalogVars, CatalogTypeOK
  <2> QED
    BY <1>7, <2>2, <2>3 DEF ApplyReplace
<1>8. CASE ApplyRegister
  <2>1. Applying \in Table
    BY <1>8, ApplyingTyped DEF ApplyRegister
  <2>2. CASE Register(Applying) /\ TableApplied
    <3>1. CatalogTypeOK' /\ Applying.id \in TableId
      BY <2>1, <2>2, RegisterTyped DEF TypeOK
    <3> QED
      BY <1>8, <2>2, <3>1 DEF TypeOK, ApplyRegister, TableApplied
  <2>3. CASE ~Registrable(Applying) /\ ApplyFails
    BY <1>8, <2>3 DEF TypeOK, ApplyRegister, ApplyFails, FinishRequest,
       catalogVars, CatalogTypeOK
  <2> QED
    BY <1>8, <2>2, <2>3 DEF ApplyRegister
<1>9. CASE ApplyRecord
  BY <1>9 DEF TypeOK, ApplyRecord, FinishRequest, catalogVars, CatalogTypeOK
<1>10. CASE RollbackRestore
  <2>1. CatalogTypeOK'
    BY <1>10, RestoredTyped, RestoreTyped DEF TypeOK, RollbackRestore
  <2> QED
    BY <1>10, <2>1 DEF TypeOK, RollbackRestore, importVars
<1>11. CASE RollbackDrop
  <2>1. CatalogTypeOK'
    BY <1>11, DropTyped DEF TypeOK, RollbackDrop, Reset
  <2>2. <<>> \in Seq(Segment)
    OBVIOUS
  <2> QED
    BY <1>11, <2>1, <2>2 DEF TypeOK, RollbackDrop, Reset, FinishRequest
<1> QED
  BY <1>1, <1>2, <1>3, <1>4, <1>5, <1>6, <1>7, <1>8, <1>9, <1>10, <1>11
     DEF ImportStep

(* The initial state has the types.                                        *)
LEMMA InitTyped == Init => TypeOK
<1> SUFFICES ASSUME Init PROVE TypeOK
  OBVIOUS
<1>1. CatalogTypeOK
  BY DEF Init, CatalogInit, CatalogTypeOK, TableMap, NameIndex
<1>2. <<>> \in Seq(Segment)
  OBVIOUS
<1> QED
  BY <1>1, <1>2 DEF Init, TypeOK

(* Every variable keeps its type: in particular the table being applied    *)
(* exists at every call of applyTable, the copy that will be written back  *)
(* is stored under the id it was read from, and a rollback never loses its *)
(* baseline between its two catalog calls.                                 *)
THEOREM TypeCorrect == Spec => []TypeOK
<1>1. TypeOK /\ [Next]_vars => TypeOK'
  <2>1. CASE Next
    BY <2>1, ClientStepTyped, ImportStepTyped DEF Next
  <2>2. CASE UNCHANGED vars
    BY <2>2 DEF TypeOK, CatalogTypeOK, vars, catalogVars, importVars,
       requestVars
  <2> QED
    BY <2>1, <2>2
<1> QED
  BY InitTyped, <1>1, PTL DEF Spec

-----------------------------------------------------------------------------
(* The name index never points at a table that is gone.                    *)

(* Whatever clients and the importer do, and whatever a rollback drops, an *)
(* entry of the name index leads to a registered table, so no name is kept *)
(* from use by a table that no longer exists.                              *)
THEOREM IndexSafe == Spec => []IndexNeverDangles
<1>1. Init => IndexNeverDangles
  BY DEF Init, CatalogInit, IndexNeverDangles
<1>2. TypeOK /\ IndexNeverDangles /\ [Next]_vars => IndexNeverDangles'
  <2> SUFFICES ASSUME TypeOK, IndexNeverDangles, [Next]_vars
               PROVE  IndexNeverDangles'
    OBVIOUS
  <2>1. CASE UNCHANGED catalogVars
    BY <2>1 DEF IndexNeverDangles, HasTable, catalogVars
  <2>2. CASE ClientStep
    <3>1. ASSUME NEW t \in Posted, ClientRegister(t)
          PROVE  IndexNeverDangles'
      BY <3>1, RegisterKeepsIndex, IngestAssumption DEF TypeOK, ClientRegister
    <3>2. ASSUME NEW id \in TableId, NEW fields \in PutFields,
                 ClientApplySchema(id, fields)
          PROVE  IndexNeverDangles'
      BY <3>2, ApplySchemaKeepsIndex, IngestAssumption
         DEF TypeOK, ClientApplySchema
    <3> QED
      BY <2>2, <3>1, <3>2 DEF ClientStep
  <2>3. CASE ApplyReplace
    BY <2>1, <2>3, MergedTyped, ReplaceKeepsIndex
       DEF TypeOK, ApplyReplace, ApplyFails
  <2>4. CASE ApplyRegister
    BY <2>1, <2>4, ApplyingTyped, RegisterKeepsIndex
       DEF TypeOK, ApplyRegister, ApplyFails
  <2>5. CASE RollbackRestore
    BY <2>5, RebuildKeepsIndex DEF RollbackRestore, RestoreTables
  <2>6. CASE RollbackDrop
    BY <2>6, RebuildKeepsIndex DEF RollbackDrop, DropNotIn
  <2>7. CASE ImportStep
    BY <2>1, <2>3, <2>4, <2>5, <2>6, <2>7
       DEF ImportStep, Begin, Fail, Commit, ApplyStart, ApplyGet, ApplyMiss,
           ApplyRecord
  <2> QED
    BY <2>1, <2>2, <2>7 DEF Next, vars
<1> QED
  BY <1>1, <1>2, TypeCorrect, PTL DEF Spec

-----------------------------------------------------------------------------
(* A step that neither touches the catalog nor the importer's bookkeeping  *)
(* of it.                                                                  *)
QuietStep == UNCHANGED <<tables, baseline, written, outside>>

(* The client and import steps, by what they do to the catalog and to the  *)
(* bookkeeping.                                                            *)
LEMMA StepKinds ==
  ASSUME TypeOK, [Next]_vars
  PROVE  \/ QuietStep
         \/ ClientStep
         \/ Begin
         \/ pc = "replace" /\ Replace(Merged) /\ TableApplied /\ outside' = outside
         \/ pc = "register" /\ Register(Applying) /\ TableApplied
              /\ outside' = outside
         \/ RollbackRestore
         \/ RollbackDrop
<1>1. CASE UNCHANGED vars
  BY <1>1 DEF vars, QuietStep, catalogVars, importVars
<1>2. CASE ImportStep
  BY <1>2 DEF ImportStep, Fail, Commit, ApplyStart, ApplyGet, ApplyMiss,
     ApplyReplace, ApplyRegister, ApplyRecord, ApplyFails, QuietStep,
     catalogVars, importVars
<1> QED
  BY <1>1, <1>2 DEF Next

(* A client's request writes at most the table it names, which is then     *)
(* known to have been written from outside the import.                     *)
LEMMA ClientStepLocal ==
  ASSUME TypeOK, ClientStep, baseline # NoBaseline
  PROVE  \E id \in TableId :
           /\ outside' = outside \cup {id}
           /\ tables'[id] # NoTable
           /\ \A other \in TableId \ {id} : tables'[other] = tables[other]
<1>1. ASSUME NEW t \in Posted, ClientRegister(t)
      PROVE  /\ t.id \in TableId
             /\ outside' = outside \cup {t.id}
             /\ tables'[t.id] # NoTable
             /\ \A other \in TableId \ {t.id} : tables'[other] = tables[other]
  BY <1>1, CatalogAssumption, IngestAssumption
     DEF TypeOK, CatalogTypeOK, TableMap, ClientRegister, Register, Registrable,
         Table, NoteClientWrite
<1>2. ASSUME NEW id \in TableId, NEW fields \in PutFields,
             ClientApplySchema(id, fields)
      PROVE  /\ outside' = outside \cup {id}
             /\ tables'[id] # NoTable
             /\ \A other \in TableId \ {id} : tables'[other] = tables[other]
  <2>1. WithSchema(tables[id], fields) \in Table
    BY <1>2, WithSchemaTyped, IngestAssumption
       DEF TypeOK, CatalogTypeOK, TableMap, ClientApplySchema, HasTable
  <2> QED
    BY <1>2, <2>1, CatalogAssumption
       DEF TypeOK, CatalogTypeOK, TableMap, ClientApplySchema,
           ApplySchemaAtomic, NoteClientWrite
<1> QED
  BY <1>1, <1>2 DEF ClientStep

(* The import's own writes touch one table and note it.                    *)
LEMMA ImportWriteLocal ==
  ASSUME TypeOK,
         \/ pc = "replace" /\ Replace(Merged) /\ TableApplied
         \/ pc = "register" /\ Register(Applying) /\ TableApplied
  PROVE  /\ Applying.id \in TableId
         /\ written' = written \cup {Applying.id}
         /\ baseline' = baseline
         /\ pc' = "lookup"
         /\ tables'[Applying.id] # NoTable
         /\ \A other \in TableId \ {Applying.id} : tables'[other] = tables[other]
<1>1. CASE pc = "replace" /\ Replace(Merged) /\ TableApplied
  <2>1. Merged \in Table /\ Merged.id = Applying.id
    BY <1>1, MergedTyped
  <2>2. Applying.id \in TableId
    BY <1>1, <2>1 DEF Replace, Replaceable, HasTable
  <2> QED
    BY <1>1, <2>1, <2>2, CatalogAssumption
       DEF TypeOK, CatalogTypeOK, TableMap, Replace, TableApplied
<1>2. CASE pc = "register" /\ Register(Applying) /\ TableApplied
  <2>1. Applying \in Table
    BY <1>2, ApplyingTyped
  <2> QED
    BY <1>2, <2>1, CatalogAssumption
       DEF TypeOK, CatalogTypeOK, TableMap, Register, Registrable, Table,
           TableApplied
<1> QED
  BY <1>1, <1>2

-----------------------------------------------------------------------------
(* No table that existed at Begin is lost: the invariant is inductive with *)
(* the types alone, because registrations and replacements only add, a     *)
(* restore writes tables of the baseline and a drop spares them.           *)
BaselineThere ==
  baseline # NoBaseline =>
    \A id \in TableId : baseline[id] # NoTable => HasTable(id)

LEMMA BaselineStaysThere == Spec => []BaselineThere
<1>1. Init => BaselineThere
  BY DEF Init, BaselineThere
<1>2. TypeOK /\ BaselineThere /\ [Next]_vars => BaselineThere'
  <2> SUFFICES ASSUME TypeOK, BaselineThere, [Next]_vars
               PROVE  BaselineThere'
    OBVIOUS
  <2>1. CASE QuietStep
    BY <2>1 DEF QuietStep, BaselineThere, HasTable
  <2>2. CASE ClientStep
    <3>1. baseline' = baseline
      BY <2>2 DEF ClientStep, ClientRegister, ClientApplySchema, importVars
    <3> QED
      BY <2>2, <3>1, ClientStepLocal DEF BaselineThere, HasTable
  <2>3. CASE Begin
    BY <2>3 DEF Begin, catalogVars, BaselineThere, HasTable
  <2>4. CASE \/ pc = "replace" /\ Replace(Merged) /\ TableApplied
             \/ pc = "register" /\ Register(Applying) /\ TableApplied
    BY <2>4, ImportWriteLocal DEF BaselineThere, HasTable
  <2>5. CASE RollbackRestore
    BY <2>5 DEF RollbackRestore, RestoreTables, importVars, BaselineThere,
       RestoreSet, HasTable
  <2>6. CASE RollbackDrop
    BY <2>6 DEF RollbackDrop, Reset, BaselineThere
  <2> QED
    BY <2>1, <2>2, <2>3, <2>4, <2>5, <2>6, StepKinds
<1> QED
  BY <1>1, <1>2, TypeCorrect, PTL DEF Spec

(* So no step loses one, and a rollback's drop least of all: the baseline  *)
(* it clears in the same step is the one its tables are kept for.          *)
THEOREM BaselineSafe == Spec => BaselineTablesKept
<1>1. TypeOK /\ BaselineThere /\ BaselineThere' /\ [Next]_vars
        => [baseline # NoBaseline =>
              \A id \in TableId : baseline[id] # NoTable => HasTable(id)']_vars
  <2> SUFFICES ASSUME TypeOK, BaselineThere, BaselineThere', [Next]_vars,
                      baseline # NoBaseline,
                      NEW id \in TableId, baseline[id] # NoTable
               PROVE  HasTable(id)'
    OBVIOUS
  <2>1. CASE baseline' = baseline
    BY <2>1 DEF BaselineThere
  <2>2. CASE Begin
    BY <2>2 DEF Begin, catalogVars, BaselineThere, HasTable
  <2>3. CASE RollbackDrop
    BY <2>3 DEF RollbackDrop, DropNotIn, BaselineThere, HasTable
  <2> QED
    BY <2>1, <2>2, <2>3, StepKinds DEF QuietStep, ClientStep, ClientRegister,
       ClientApplySchema, importVars, TableApplied, RollbackRestore
<1> QED
  BY <1>1, TypeCorrect, BaselineStaysThere, PTL DEF Spec, BaselineTablesKept

-----------------------------------------------------------------------------
(* The import's bookkeeping and its rollback.                              *)

(* Between the two catalog calls of a rollback the tables of the baseline  *)
(* are back, those excepted that the rollback does not answer for.         *)
Restored ==
  pc = "drop" =>
    \A id \in TableId \ (outside \cup Unrecorded) :
      baseline[id] # NoTable => tables[id] = baseline[id]

RollbackInv == TypeOK /\ ChangedIsWritten /\ Restored

(* Every step keeps the written set complete.                              *)
LEMMA ChangedStep ==
  ASSUME TypeOK, ChangedIsWritten, [Next]_vars
  PROVE  ChangedIsWritten'
<1>1. CASE QuietStep
  BY <1>1 DEF QuietStep, ChangedIsWritten
<1>2. CASE ClientStep
  <2>1. baseline' = baseline /\ written' = written
    BY <1>2 DEF ClientStep, ClientRegister, ClientApplySchema, importVars
  <2> QED
    BY <1>2, <2>1, ClientStepLocal DEF ChangedIsWritten
<1>3. CASE Begin
  BY <1>3 DEF Begin, catalogVars, ChangedIsWritten
<1>4. CASE /\ \/ pc = "replace" /\ Replace(Merged) /\ TableApplied
              \/ pc = "register" /\ Register(Applying) /\ TableApplied
           /\ outside' = outside
  BY <1>4, ImportWriteLocal DEF ChangedIsWritten
<1>5. CASE RollbackRestore
  BY <1>5 DEF RollbackRestore, RestoreTables, RestoreSet, importVars,
     ChangedIsWritten
<1>6. CASE RollbackDrop
  BY <1>6 DEF RollbackDrop, Reset, ChangedIsWritten
<1> QED
  BY <1>1, <1>2, <1>3, <1>4, <1>5, <1>6, StepKinds

(* Every step keeps what the first half of a rollback has achieved.        *)
LEMMA RestoredStep ==
  ASSUME RollbackInv, [Next]_vars
  PROVE  Restored'
<1> USE DEF RollbackInv
<1>1. CASE RollbackRestore
  <2>1. UNCHANGED <<baseline, written, outside, Unrecorded>>
    BY <1>1 DEF RollbackRestore, importVars, Unrecorded, CommittedTables,
       InflightTables
  <2>2. ASSUME NEW id \in TableId \ (outside \cup Unrecorded),
               baseline[id] # NoTable
        PROVE  tables'[id] = baseline[id]
    BY <1>1, <2>2 DEF RollbackRestore, RestoreTables, RestoreSet, Unrecorded,
       AllWrittenTables, ChangedIsWritten
  <2> QED
    BY <2>1, <2>2 DEF Restored
<1>2. CASE ClientStep /\ pc = "drop"
  <2>1. UNCHANGED <<baseline, Unrecorded, pc>>
    BY <1>2 DEF ClientStep, ClientRegister, ClientApplySchema, importVars,
       requestVars, Unrecorded, CommittedTables, InflightTables
  <2>2. baseline # NoBaseline
    BY <1>2 DEF TypeOK
  <2> QED
    BY <1>2, <2>1, <2>2, ClientStepLocal DEF Restored
<1>3. CASE UNCHANGED vars
  BY <1>3 DEF vars, catalogVars, importVars, requestVars, Restored, Unrecorded,
     CommittedTables, InflightTables
<1>4. CASE ClientStep /\ pc # "drop"
  BY <1>4 DEF ClientStep, ClientRegister, ClientApplySchema, requestVars,
     Restored
<1>5. CASE ImportStep /\ ~RollbackRestore
  BY <1>5 DEF ImportStep, Begin, Fail, Commit, ApplyStart, ApplyGet, ApplyMiss,
     ApplyReplace, ApplyRegister, ApplyRecord, ApplyFails, TableApplied,
     FinishRequest, RollbackDrop, Reset, Idle, requestVars, Restored
<1> QED
  BY <1>1, <1>2, <1>3, <1>4, <1>5 DEF Next

(* The two facts hold together in every reachable state.                   *)
LEMMA RollbackInvariant == Spec => []RollbackInv
<1>1. Init => ChangedIsWritten /\ Restored
  BY DEF Init, ChangedIsWritten, Restored
<1>2. RollbackInv /\ TypeOK' /\ [Next]_vars => RollbackInv'
  BY ChangedStep, RestoredStep DEF RollbackInv
<1>3. Init => TypeOK
  BY InitTyped
<1>4. Init => RollbackInv
  BY <1>1, <1>3 DEF RollbackInv
<1> QED
  BY <1>2, <1>4, TypeCorrect, PTL DEF Spec

(* While a baseline is held, whatever differs from it was written by a     *)
(* client or is in Importer.written.                                       *)
THEOREM BookkeepingComplete == Spec => []ChangedIsWritten
<1>1. RollbackInv => ChangedIsWritten
  BY DEF RollbackInv
<1> QED
  BY <1>1, RollbackInvariant, PTL

(* A completed rollback undoes the import, up to the tables that clients   *)
(* wrote meanwhile and those the importer wrote without recording them.    *)
THEOREM RollbackCorrect == Spec => RollbackRepairs
<1> DEFINE Repaired ==
      pc = "drop" /\ pc' = "idle" =>
        \A id \in TableId :
          baseline[id] = NoTable \/ id \notin outside \cup Unrecorded
            => tables'[id] = baseline[id]
<1>1. RollbackInv /\ [Next]_vars => Repaired
  <2> SUFFICES ASSUME RollbackInv, [Next]_vars, pc = "drop", pc' = "idle",
                      NEW id \in TableId,
                      baseline[id] = NoTable \/ id \notin outside \cup Unrecorded
               PROVE  tables'[id] = baseline[id]
    BY Zenon
  <2>1. RollbackDrop
    BY DEF Next, ClientStep, ClientRegister, ClientApplySchema, ImportStep,
       Begin, Fail, Commit, ApplyStart, ApplyGet, ApplyMiss, ApplyReplace,
       ApplyRegister, ApplyRecord, RollbackRestore, Idle, requestVars, vars
  <2>2. tables'[id] = IF baseline[id] # NoTable THEN tables[id] ELSE NoTable
    BY <2>1 DEF RollbackDrop, DropNotIn
  <2> QED
    BY <2>2 DEF RollbackInv, Restored
<1>2. [Next]_vars /\ RollbackInv => [Repaired]_vars
  BY <1>1
<1> QED
  BY <1>2, RollbackInvariant, PTL DEF Spec, RollbackRepairs

-----------------------------------------------------------------------------
(* When a rollback is exact.                                               *)

(* What a feed must see to for the promise of Rollback's comment to hold:  *)
(* it commits the segment in flight before it sends another uncommitted    *)
(* one, and a segment it sends fails, if at all, with its first table.     *)
OrderlyStep ==
  /\ seg = NoSegment /\ seg' # NoSegment /\ ~seg'.commit => inflight = NoSegment
  /\ ~Idle /\ ~failed /\ failed' => next = 1

OrderlySpec == Init /\ [][Next /\ OrderlyStep]_vars

Busy == pc \in {"lookup", "replace", "register"}

(* The tables of the segment in progress that are applied already.         *)
AppliedSoFar ==
  IF Busy THEN {seg.tables[i].id : i \in {j \in DOMAIN seg.tables : j < next}}
          ELSE {}

(* Every table the import wrote is named by a segment it will restore or   *)
(* is about to record; nothing is in flight that could be displaced; and   *)
(* no import that has failed goes on applying.                             *)
Accounted ==
  /\ written \subseteq CommittedTables \cup InflightTables \cup AppliedSoFar
  /\ Busy /\ ~seg.commit => inflight = NoSegment
  /\ Busy => ~failed
  /\ ~Busy => seg = NoSegment

(* One more committed segment: its tables are committed, too.              *)
LEMMA CommittedAppend ==
  ASSUME NEW s \in Segment, segments \in Seq(Segment),
         segments' = Append(segments, s)
  PROVE  CommittedTables' = CommittedTables \cup TablesOf(s)
<1> DEFINE n == Len(segments)
<1>1. n \in Nat /\ DOMAIN segments = 1 .. n /\ DOMAIN segments' = 1 .. n + 1
  OBVIOUS
<1>2. /\ \A i \in 1 .. n : segments'[i] = segments[i]
      /\ segments'[n + 1] = s
  OBVIOUS
<1> HIDE DEF n
<1>3. \A i : i \in 1 .. n + 1 <=> i \in 1 .. n \/ i = n + 1
  BY <1>1
<1>4. \A x : x \in CommittedTables' <=> \E i \in 1 .. n + 1 : x \in TablesOf(segments'[i])
  BY <1>1 DEF CommittedTables
<1>5. \A x : x \in CommittedTables <=> \E i \in 1 .. n : x \in TablesOf(segments[i])
  BY <1>1 DEF CommittedTables
<1> QED
  BY <1>2, <1>3, <1>4, <1>5

(* A step of an orderly feed, or of a client, keeps the books.             *)
LEMMA AccountedStep ==
  ASSUME TypeOK, Accounted, [Next /\ OrderlyStep]_vars
  PROVE  Accounted'
<1>1. CASE UNCHANGED <<importVars, requestVars>>
  BY <1>1 DEF importVars, requestVars, Accounted, CommittedTables, InflightTables,
     AppliedSoFar, Busy
<1>2. CASE Begin
  BY <1>2 DEF Begin, requestVars, Accounted, Busy, Idle
<1>3. CASE Fail
  BY <1>3 DEF Fail, requestVars, Accounted, CommittedTables, InflightTables,
     AppliedSoFar, Busy, Idle
<1>4. CASE Commit
  <2> DEFINE s == [inflight EXCEPT !.commit = TRUE]
  <2>1. s \in Segment /\ TablesOf(s) = InflightTables
    BY <1>4 DEF Commit, TypeOK, Segment, TablesOf, InflightTables
  <2>2. segments' = Append(segments, s) /\ inflight' = NoSegment /\ written' = written
    BY <1>4 DEF Commit
  <2> HIDE DEF s
  <2>3. CommittedTables' = CommittedTables \cup InflightTables
    BY <2>1, <2>2, CommittedAppend DEF TypeOK
  <2>4. ~Busy /\ ~Busy' /\ seg' = seg
    BY <1>4 DEF Commit, requestVars, Busy, Idle
  <2> QED
    BY <2>2, <2>3, <2>4 DEF Accounted, AppliedSoFar
<1>5. CASE (\E s \in SegmentBodies : ApplyStart(s)) /\ OrderlyStep
  <2>1. PICK s \in SegmentBodies : ApplyStart(s)
    BY <1>5
  <2>2. /\ s \in Segment /\ s # NoSegment /\ ~Busy /\ seg = NoSegment
        /\ ~failed /\ seg' = s /\ Busy' /\ UNCHANGED importVars
    BY <2>1, IngestAssumption DEF ApplyStart, Idle, Busy, Accounted
  <2>3. ~seg'.commit => inflight' = NoSegment
    BY <1>5, <2>2 DEF OrderlyStep, importVars
  <2>4. written' \subseteq CommittedTables' \cup InflightTables'
    BY <2>2 DEF Accounted, AppliedSoFar, importVars, CommittedTables, InflightTables
  <2> QED
    BY <2>2, <2>3, <2>4 DEF Accounted, importVars
<1>6. CASE ApplyGet \/ ApplyMiss
  BY <1>6 DEF ApplyGet, ApplyMiss, importVars, Accounted, CommittedTables,
     InflightTables, AppliedSoFar, Busy
<1>7. CASE (pc = "replace" \/ pc = "register") /\ TableApplied
  <2>1. /\ written' = written \cup {Applying.id} /\ next' = next + 1
        /\ Busy /\ Busy' /\ UNCHANGED <<segments, inflight, failed, seg>>
    BY <1>7 DEF TableApplied, Busy
  <2>2. next \in DOMAIN seg.tables /\ next \in Nat /\ DOMAIN seg.tables \subseteq Nat
    BY <1>7 DEF TypeOK, Segment
  <2>3. Applying.id \in AppliedSoFar'
    BY <2>1, <2>2 DEF AppliedSoFar, Applying
  <2>4. AppliedSoFar \subseteq AppliedSoFar'
    BY <2>1, <2>2 DEF AppliedSoFar
  <2>5. CommittedTables' = CommittedTables /\ InflightTables' = InflightTables
    BY <2>1 DEF CommittedTables, InflightTables
  <2>6. written' \subseteq CommittedTables' \cup InflightTables' \cup AppliedSoFar'
    BY <2>1, <2>3, <2>4, <2>5 DEF Accounted
  <2> QED
    BY <2>1, <2>6 DEF Accounted
<1>8. CASE (pc = "replace" \/ pc = "register") /\ ApplyFails /\ OrderlyStep
  <2>1. /\ failed' /\ ~Busy' /\ seg' = NoSegment
        /\ UNCHANGED <<segments, inflight, written>>
    BY <1>8 DEF ApplyFails, FinishRequest, Busy
  <2>2. next = 1
    BY <1>8, <2>1 DEF OrderlyStep, Idle, Accounted, Busy
  <2>3. AppliedSoFar = {}
    BY <1>8, <2>2 DEF AppliedSoFar, TypeOK, Segment
  <2>4. CommittedTables' = CommittedTables /\ InflightTables' = InflightTables
    BY <2>1 DEF CommittedTables, InflightTables
  <2> QED
    BY <2>1, <2>3, <2>4 DEF Accounted
<1>9. CASE ApplyRecord
  <2>1. /\ seg \in Segment /\ seg # NoSegment /\ Busy /\ ~Busy'
        /\ seg' = NoSegment /\ written' = written
    BY <1>9 DEF ApplyRecord, FinishRequest, Busy, TypeOK
  <2>2. AppliedSoFar \subseteq TablesOf(seg)
    BY DEF AppliedSoFar, TablesOf
  <2>3. CommittedTables \cup InflightTables \cup TablesOf(seg)
          \subseteq CommittedTables' \cup InflightTables'
    <3>1. CASE seg.commit
      <4>1. segments' = Append(segments, seg) /\ inflight' = inflight
        BY <1>9, <3>1 DEF ApplyRecord
      <4>2. CommittedTables' = CommittedTables \cup TablesOf(seg)
        BY <2>1, <4>1, CommittedAppend DEF TypeOK
      <4> QED
        BY <4>1, <4>2 DEF InflightTables
    <3>2. CASE ~seg.commit
      <4>1. segments' = segments /\ inflight' = seg /\ inflight = NoSegment
        BY <1>9, <2>1, <3>2 DEF ApplyRecord, Accounted
      <4> QED
        BY <2>1, <4>1 DEF CommittedTables, InflightTables
    <3> QED
      BY <3>1, <3>2
  <2> QED
    BY <2>1, <2>2, <2>3 DEF Accounted
<1>10. CASE RollbackRestore
  BY <1>10 DEF RollbackRestore, importVars, Accounted, CommittedTables,
     InflightTables, AppliedSoFar, Busy, Idle
<1>11. CASE RollbackDrop
  BY <1>11 DEF RollbackDrop, Reset, FinishRequest, Accounted, Busy
<1>12. CASE ClientStep
  BY <1>1, <1>12 DEF ClientStep, ClientRegister, ClientApplySchema
<1>13. CASE UNCHANGED vars
  BY <1>1, <1>13 DEF vars
<1> QED
  BY <1>2, <1>3, <1>4, <1>5, <1>6, <1>7, <1>8, <1>9, <1>10, <1>11, <1>12, <1>13
     DEF Next, ImportStep, ApplyReplace, ApplyRegister

(* Under an orderly feed the promise of Rollback's comment holds: the      *)
(* catalog returns exactly to the pre-import baseline, unless clients      *)
(* wrote to it meanwhile.  Neither condition can be left out: the feed of  *)
(* the run that refutes RollbackExact meets neither.                       *)
THEOREM RollbackExactForOrderlyFeeds == OrderlySpec => RollbackExact
<1>1. Init => TypeOK /\ Accounted /\ RollbackInv
  <2> SUFFICES ASSUME Init PROVE TypeOK /\ Accounted /\ RollbackInv
    OBVIOUS
  <2>1. TypeOK
    BY InitTyped
  <2> QED
    BY <2>1 DEF Init, Accounted, Busy, RollbackInv, ChangedIsWritten, Restored
<1>2. OrderlySpec => Spec
  <2>1. [Next /\ OrderlyStep]_vars => [Next]_vars
    OBVIOUS
  <2> QED
    BY <2>1, PTL DEF OrderlySpec, Spec
<1>3. TypeOK /\ Accounted /\ [Next /\ OrderlyStep]_vars => Accounted'
  BY AccountedStep
<1>4. OrderlySpec => []Accounted
  BY <1>1, <1>2, <1>3, TypeCorrect, PTL DEF OrderlySpec
<1> DEFINE Exact == pc = "drop" /\ pc' = "idle" /\ outside = {} => tables' = baseline
<1>5. RollbackInv /\ Accounted /\ [Next]_vars => Exact
  <2> SUFFICES ASSUME RollbackInv, Accounted, [Next]_vars,
                      pc = "drop", pc' = "idle", outside = {}
               PROVE  tables' = baseline
    BY Zenon
  <2>1. RollbackDrop
    BY DEF Next, ClientStep, ClientRegister, ClientApplySchema, ImportStep,
       Begin, Fail, Commit, ApplyStart, ApplyGet, ApplyMiss, ApplyReplace,
       ApplyRegister, ApplyRecord, RollbackRestore, Idle, requestVars, vars
  <2>2. Unrecorded = {}
    BY DEF Accounted, Unrecorded, AppliedSoFar, Busy
  <2>3. tables' = [id \in TableId |->
                     IF baseline[id] # NoTable THEN tables[id] ELSE NoTable]
    BY <2>1 DEF RollbackDrop, DropNotIn
  <2>4. baseline \in [TableId -> Table \cup {NoTable}]
    BY DEF RollbackInv, TypeOK, TableMap
  <2>5. \A id \in TableId : baseline[id] # NoTable => tables[id] = baseline[id]
    BY <2>2 DEF RollbackInv, Restored
  <2> QED
    BY <2>3, <2>4, <2>5
<1>6. RollbackInv /\ Accounted /\ [Next]_vars => [Exact]_vars
  BY <1>5
<1>7. OrderlySpec => [][Exact]_vars
  BY <1>2, <1>4, <1>6, RollbackInvariant, PTL DEF Spec
<1> QED
  BY <1>7 DEF RollbackExact

-----------------------------------------------------------------------------
(* When columns survive an import.                                         *)

(* No client writes while an Apply is under way, as if Apply held a lock   *)
(* that handleTables and handleTable need, too.                            *)
UndisturbedSpec == Init /\ [][Next /\ (ClientStep => Idle)]_vars

(* Nothing has happened since the lookup: the copy about to be written     *)
(* back is the stored table, and the table about to be registered is new.  *)
LookupHolds ==
  /\ pc = "replace" => cur = tables[cur.id]
  /\ pc = "register" => ~HasTable(Applying.id)

LEMMA LookupHoldsStep ==
  ASSUME TypeOK, LookupHolds, [Next /\ (ClientStep => Idle)]_vars
  PROVE  LookupHolds'
<1>1. CASE pc' \notin {"replace", "register"}
  BY <1>1 DEF LookupHolds
<1>2. CASE ApplyGet
  <2>1. cur' = tables[Applying.id] /\ tables' = tables /\ HasTable(Applying.id)
        /\ pc' = "replace"
    BY <1>2 DEF ApplyGet, catalogVars
  <2>2. cur'.id = Applying.id
    BY <2>1 DEF TypeOK, CatalogTypeOK, TableMap, HasTable
  <2> QED
    BY <2>1, <2>2 DEF LookupHolds
<1>3. CASE ApplyMiss
  BY <1>3 DEF ApplyMiss, catalogVars, LookupHolds, HasTable, Applying
<1>4. CASE ClientStep /\ Idle
  BY <1>4 DEF ClientStep, ClientRegister, ClientApplySchema, requestVars, Idle,
     LookupHolds
<1>5. CASE UNCHANGED vars
  BY <1>5 DEF vars, catalogVars, requestVars, LookupHolds, HasTable, Applying
<1>6. CASE ImportStep /\ ~ApplyGet /\ ~ApplyMiss
  <2>1. pc' \notin {"replace", "register"}
    BY <1>6 DEF ImportStep, Begin, Fail, Commit, ApplyStart, ApplyReplace,
       ApplyRegister, ApplyRecord, ApplyFails, TableApplied, FinishRequest,
       RollbackRestore, RollbackDrop, Reset, Idle, requestVars
  <2> QED
    BY <1>1, <2>1
<1> QED
  BY <1>2, <1>3, <1>4, <1>5, <1>6 DEF Next

(* What the comments of applyTable and MergeFields claim holds if no       *)
(* client writes during an Apply: locally owned columns survive it.  So    *)
(* clients' writes between HasTable, Get and the write are all that the    *)
(* run refuting ImportKeepsColumns has to use.                             *)
THEOREM ColumnsKeptUndisturbed == UndisturbedSpec => ImportKeepsColumns
<1>1. UndisturbedSpec => Spec
  <2>1. [Next /\ (ClientStep => Idle)]_vars => [Next]_vars
    OBVIOUS
  <2> QED
    BY <2>1, PTL DEF UndisturbedSpec, Spec
<1>2. Init => LookupHolds
  BY DEF Init, LookupHolds
<1>3. TypeOK /\ LookupHolds /\ [Next /\ (ClientStep => Idle)]_vars => LookupHolds'
  BY LookupHoldsStep
<1>4. UndisturbedSpec => []LookupHolds
  BY <1>1, <1>2, <1>3, TypeCorrect, PTL DEF UndisturbedSpec
<1> DEFINE Kept ==
      (pc = "replace" \/ pc = "register") /\ pc' = "lookup" =>
        \A id \in TableId : HasTable(id) =>
          tables[id].fields \subseteq tables'[id].fields
<1>5. TypeOK /\ LookupHolds /\ [Next]_vars => Kept
  <2> SUFFICES ASSUME TypeOK, LookupHolds, [Next]_vars,
                      pc = "replace" \/ pc = "register", pc' = "lookup",
                      NEW id \in TableId, HasTable(id)
               PROVE  tables[id].fields \subseteq tables'[id].fields
    BY Zenon
  <2>1. \/ pc = "replace" /\ Replace(Merged)
        \/ pc = "register" /\ Register(Applying)
    BY DEF Next, ClientStep, ClientRegister, ClientApplySchema, ImportStep,
       Begin, Fail, Commit, ApplyStart, ApplyGet, ApplyMiss, ApplyReplace,
       ApplyRegister, ApplyRecord, ApplyFails, FinishRequest, RollbackRestore,
       RollbackDrop, Reset, Idle, requestVars, vars
  <2>2. CASE pc = "replace" /\ Replace(Merged)
    <3>1. tables' = [tables EXCEPT ![Merged.id] = Merged]
      BY <2>2 DEF Replace
    <3>2. CASE id # Merged.id
      BY <3>1, <3>2 DEF TypeOK, CatalogTypeOK, TableMap
    <3>3. CASE id = Merged.id
      <4>1. Merged.id = cur.id /\ cur = tables[cur.id]
        BY <2>2 DEF LookupHolds, Merged, WithSchema
      <4>2. Merged.fields = Applying.fields \cup cur.fields
        BY DEF Merged, WithSchema, MergeFields
      <4>3. tables'[id] = Merged
        BY <3>1, <3>3 DEF TypeOK, CatalogTypeOK, TableMap
      <4> QED
        BY <3>3, <4>1, <4>2, <4>3
    <3> QED
      BY <3>2, <3>3
  <2>3. CASE pc = "register" /\ Register(Applying)
    <3>1. tables' = [tables EXCEPT ![Applying.id] = Applying]
          /\ ~HasTable(Applying.id)
      BY <2>3 DEF Register, LookupHolds
    <3> QED
      BY <3>1 DEF TypeOK, CatalogTypeOK, TableMap
  <2> QED
    BY <2>1, <2>2, <2>3
<1>6. TypeOK /\ LookupHolds /\ [Next]_vars => [Kept]_vars
  BY <1>5
<1>7. UndisturbedSpec => [][Kept]_vars
  BY <1>1, <1>4, <1>6, TypeCorrect, PTL DEF Spec
<1> QED
  BY <1>7 DEF ImportKeepsColumns

-----------------------------------------------------------------------------
(* An importer that recorded a segment without a baseline can never begin  *)
(* or roll back again.                                                     *)
THEOREM WedgePermanent == Spec => WedgeIsForever
<1>1. TypeOK /\ Wedged /\ [Next]_vars => Wedged'
  <2> SUFFICES ASSUME TypeOK, Wedged, [Next]_vars PROVE Wedged'
    OBVIOUS
  <2>1. CASE UNCHANGED importVars
    BY <2>1 DEF importVars, Wedged
  <2>2. CASE ApplyRecord
    <3>1. seg # NoSegment /\ Append(segments, seg) # <<>>
      BY <2>2 DEF ApplyRecord, TypeOK
    <3> QED
      BY <2>2, <3>1 DEF ApplyRecord, Wedged
  <2>3. CASE Commit
    <3>1. Append(segments, [inflight EXCEPT !.commit = TRUE]) # <<>>
      BY <2>3 DEF Commit, TypeOK, Segment
    <3> QED
      BY <2>3, <3>1 DEF Commit, Wedged
  <2>4. CASE ImportStep
    BY <2>1, <2>2, <2>3, <2>4
       DEF ImportStep, Begin, Fail, ApplyStart, ApplyGet, ApplyMiss,
           ApplyReplace, ApplyRegister, ApplyFails, TableApplied,
           RollbackRestore, RollbackDrop, Reset, TypeOK, Wedged, importVars
  <2> QED
    BY <2>1, <2>4 DEF Next, ClientStep, ClientRegister, ClientApplySchema, vars,
       importVars
<1>2. TypeOK /\ [Next]_vars => [Wedged => Wedged']_vars
  BY <1>1
<1> QED
  BY <1>2, TypeCorrect, PTL DEF Spec, WedgeIsForever

-----------------------------------------------------------------------------
(* Callers that keep one name per id: then the index is exact.             *)

(* Clients and segments never give an id another name than own[id].        *)
NamesFixedAs(own) ==
  /\ \A t \in Posted : t.id \in TableId => t.name = own[t.id]
  /\ \A s \in SegmentBodies : \A i \in DOMAIN s.tables :
       s.tables[i].id \in TableId => s.tables[i].name = own[s.tables[i].id]

NamedAs(own, ts) == \A id \in TableId : ts[id] # NoTable => ts[id].name = own[id]

(* The stored tables, the baseline, the segment being applied and the copy *)
(* about to be written back all carry their id's own name.                 *)
AllNamedAs(own) ==
  /\ NamedAs(own, tables)
  /\ baseline # NoBaseline => NamedAs(own, baseline)
  /\ seg # NoSegment => seg \in SegmentBodies
  /\ pc = "replace" => cur.name = own[cur.id]

IndexInv(own) == TypeOK /\ BaselineThere /\ AllNamedAs(own) /\ IndexExact

(* Writing table t under its own name keeps the names.                     *)
LEMMA WriteKeepsNames ==
  ASSUME NEW own, NEW t \in Table, t.id \in TableId, t.name = own[t.id],
         CatalogTypeOK, NamedAs(own, tables),
         tables' = [tables EXCEPT ![t.id] = t]
  PROVE  NamedAs(own, tables')
BY DEF CatalogTypeOK, TableMap, NamedAs

(* Registering or replacing a table under its own name keeps the index     *)
(* exact: the name was free or the table's already.                        *)
LEMMA RegisterKeepsExact ==
  ASSUME NEW own, NEW t \in Table, t.name = own[t.id],
         CatalogTypeOK, NamedAs(own, tables), IndexExact, Register(t)
  PROVE  IndexExact'
BY CatalogAssumption
   DEF CatalogTypeOK, TableMap, NameIndex, Table, NamedAs, IndexExact, HasTable,
       Register, Registrable, NameFree

(* The same for a replacement, whose deleted entry is the one it rewrites. *)
LEMMA ReplaceKeepsExact ==
  ASSUME NEW own, NEW t \in Table, t.name = own[t.id],
         CatalogTypeOK, NamedAs(own, tables), IndexExact, Replace(t)
  PROVE  IndexExact'
<1>1. /\ t.id \in TableId /\ t.name \in Name /\ t # NoTable
      /\ tables[t.id] # NoTable /\ tables[t.id].name = t.name
  BY CatalogAssumption DEF NamedAs, Replace, Replaceable, HasTable, Table
<1>2. byName' = [byName EXCEPT ![t.name] = t.id]
  BY <1>1 DEF CatalogTypeOK, NameIndex, Replace
<1> QED
  BY <1>1, <1>2, CatalogAssumption
     DEF CatalogTypeOK, TableMap, NameIndex, NamedAs, IndexExact, HasTable,
         Replace, Replaceable, NameFree

(* A rebuild over a part of the registered tables, none of them renamed,   *)
(* leaves the index exact: no two of them can share a name.                *)
LEMMA RebuildKeepsExact ==
  ASSUME NEW own, CatalogTypeOK, CatalogTypeOK',
         NamedAs(own, tables), NamedAs(own, tables'), IndexExact,
         \A id \in TableId : tables'[id] # NoTable => tables[id] # NoTable,
         byName' \in RebuiltNames(tables')
  PROVE  IndexExact'
<1>1. ASSUME NEW n \in Name, NEW a \in Holders(tables', n),
             NEW b \in Holders(tables', n)
      PROVE  a = b
  <2>1. a \in TableId /\ tables[a] # NoTable /\ tables[a].name = n
    BY DEF Holders, NamedAs
  <2>2. b \in TableId /\ tables[b] # NoTable /\ tables[b].name = n
    BY DEF Holders, NamedAs
  <2> QED
    BY <2>1, <2>2 DEF IndexExact, HasTable
<1>2. ASSUME NEW n \in Name, NEW id \in TableId
      PROVE  byName'[n] = id <=> id \in Holders(tables', n)
  <2>1. CASE Holders(tables', n) = {}
    BY <2>1, CatalogAssumption DEF RebuiltNames
  <2>2. CASE Holders(tables', n) # {}
    BY <2>2, <1>1 DEF RebuiltNames
  <2> QED
    BY <2>1, <2>2
<1> QED
  BY <1>2 DEF Holders, IndexExact, HasTable

(* Merging a segment's fields into a stored copy keeps the copy's name,    *)
(* and a new table carries the name its segment gives it.                  *)
LEMMA AppliedNames ==
  ASSUME NEW own, NamesFixedAs(own), TypeOK, AllNamedAs(own)
  PROVE  /\ pc = "replace" => Merged.name = own[Merged.id]
         /\ pc = "register" /\ Applying.id \in TableId =>
              Applying.name = own[Applying.id]
<1>1. ASSUME pc = "replace" PROVE Merged.name = own[Merged.id]
  BY <1>1, MergedTyped DEF AllNamedAs, TypeOK, Applying
<1>2. ASSUME pc = "register", Applying.id \in TableId
      PROVE  Applying.name = own[Applying.id]
  <2>1. seg \in SegmentBodies /\ next \in DOMAIN seg.tables
    BY <1>2, IngestAssumption DEF TypeOK, AllNamedAs, Segment
  <2> QED
    BY <1>2, <2>1 DEF NamesFixedAs, Applying
<1> QED
  BY <1>1, <1>2

(* A client's request keeps the names and the exactness of the index.      *)
LEMMA ClientStepExact ==
  ASSUME NEW own, NamesFixedAs(own), IndexInv(own), ClientStep
  PROVE  AllNamedAs(own)' /\ IndexExact'
<1> USE DEF IndexInv
<1>1. UNCHANGED <<baseline, seg, pc, cur>>
  BY DEF ClientStep, ClientRegister, ClientApplySchema, importVars, requestVars
<1>2. ASSUME NEW t \in Posted, ClientRegister(t)
      PROVE  NamedAs(own, tables') /\ IndexExact'
  <2>1. t \in Table /\ t.id \in TableId /\ t.name = own[t.id]
    BY <1>2, IngestAssumption, RegisterTyped DEF NamesFixedAs, ClientRegister,
       TypeOK
  <2> QED
    BY <1>2, <2>1, WriteKeepsNames, RegisterKeepsExact
       DEF ClientRegister, Register, TypeOK, AllNamedAs
<1>3. ASSUME NEW id \in TableId, NEW fields \in PutFields,
             ClientApplySchema(id, fields)
      PROVE  NamedAs(own, tables') /\ IndexExact'
  <2> DEFINE t == WithSchema(tables[id], fields)
  <2>1. /\ tables[id] \in Table /\ tables[id] # NoTable /\ tables[id].id = id
        /\ tables' = [tables EXCEPT ![id] = t] /\ byName' = byName
    BY <1>3 DEF ClientApplySchema, ApplySchemaAtomic, HasTable, TypeOK,
       CatalogTypeOK, TableMap
  <2>2. t \in Table /\ t.id = id /\ t.name = tables[id].name
    BY <2>1, WithSchemaTyped, IngestAssumption
  <2>3. t # NoTable
    BY <2>2, CatalogAssumption
  <2> HIDE DEF t
  <2>4. NamedAs(own, tables')
    BY <2>1, <2>2 DEF NamedAs, AllNamedAs, TypeOK, CatalogTypeOK, TableMap
  <2>5. IndexExact'
    BY <2>1, <2>2, <2>3
       DEF IndexExact, HasTable, TypeOK, CatalogTypeOK, TableMap
  <2> QED
    BY <2>4, <2>5
<1> QED
  BY <1>1, <1>2, <1>3 DEF ClientStep, AllNamedAs

(* An import step keeps the names and the exactness of the index.          *)
LEMMA ImportStepExact ==
  ASSUME NEW own, NamesFixedAs(own), IndexInv(own), TypeOK', ImportStep
  PROVE  AllNamedAs(own)' /\ IndexExact'
<1> USE DEF IndexInv
<1>1. CASE UNCHANGED catalogVars /\ ~ApplyGet
  <2>1. IndexExact' /\ NamedAs(own, tables')
    BY <1>1 DEF catalogVars, IndexExact, HasTable, AllNamedAs
  <2>2. baseline' \in {baseline, tables, NoBaseline}
    BY <1>1 DEF ImportStep, Begin, Fail, Commit, ApplyStart, ApplyMiss,
       ApplyReplace, ApplyRegister, ApplyRecord, ApplyFails, TableApplied,
       RollbackRestore, RollbackDrop, Reset, importVars
  <2>3. /\ seg' # NoSegment => seg' = seg \/ seg' \in SegmentBodies
        /\ pc' = "replace" => pc = "replace" /\ cur' = cur
    BY <1>1 DEF ImportStep, Begin, Fail, Commit, ApplyStart, ApplyMiss,
       ApplyReplace, ApplyRegister, ApplyRecord, ApplyFails, TableApplied,
       RollbackRestore, RollbackDrop, Reset, FinishRequest, requestVars,
       importVars, Idle
  <2>4. baseline' # NoBaseline => NamedAs(own, baseline')
    BY <2>2 DEF AllNamedAs
  <2>5. seg' # NoSegment => seg' \in SegmentBodies
    BY <2>3 DEF AllNamedAs
  <2>6. pc' = "replace" => cur'.name = own[cur'.id]
    BY <2>3 DEF AllNamedAs
  <2> QED
    BY <2>1, <2>4, <2>5, <2>6 DEF AllNamedAs
<1>2. CASE ApplyGet
  <2>1. UNCHANGED <<tables, byName, baseline, seg>>
        /\ cur' = tables[Applying.id] /\ HasTable(Applying.id)
    BY <1>2 DEF ApplyGet, catalogVars, importVars
  <2>2. cur'.id = Applying.id /\ cur'.name = own[Applying.id]
    BY <2>1 DEF TypeOK, CatalogTypeOK, TableMap, HasTable, AllNamedAs, NamedAs
  <2> QED
    BY <2>1, <2>2 DEF AllNamedAs, NamedAs, IndexExact, HasTable
<1>3. CASE pc = "replace" /\ Replace(Merged) /\ TableApplied
  <2>1. Merged \in Table /\ Merged.id \in TableId
        /\ Merged.name = own[Merged.id]
    BY <1>3, MergedTyped, AppliedNames DEF Replace, Replaceable, HasTable
  <2>2. NamedAs(own, tables') /\ IndexExact'
    BY <1>3, <2>1, WriteKeepsNames, ReplaceKeepsExact
       DEF Replace, TypeOK, AllNamedAs
  <2> QED
    BY <1>3, <2>2 DEF TableApplied, AllNamedAs
<1>4. CASE pc = "register" /\ Register(Applying) /\ TableApplied
  <2>1. Applying \in Table /\ Applying.id \in TableId
        /\ Applying.name = own[Applying.id]
    BY <1>4, ApplyingTyped, AppliedNames, RegisterTyped DEF TypeOK
  <2>2. NamedAs(own, tables') /\ IndexExact'
    BY <1>4, <2>1, WriteKeepsNames, RegisterKeepsExact
       DEF Register, TypeOK, AllNamedAs
  <2> QED
    BY <1>4, <2>2 DEF TableApplied, AllNamedAs
<1>5. CASE RollbackRestore
  <2>1. UNCHANGED <<baseline, seg>> /\ pc' = "drop" /\ baseline # NoBaseline
    BY <1>5 DEF RollbackRestore, importVars
  <2>2. \A id \in TableId :
          tables'[id] = tables[id]
            \/ (tables'[id] = baseline[id] /\ baseline[id] # NoTable)
    BY <1>5 DEF RollbackRestore, RestoreTables, RestoreSet
  <2>3. NamedAs(own, tables')
    BY <2>1, <2>2 DEF AllNamedAs, NamedAs
  <2>4. \A id \in TableId : tables'[id] # NoTable => tables[id] # NoTable
    BY <2>1, <2>2 DEF BaselineThere, HasTable
  <2>5. byName' \in RebuiltNames(tables')
    BY <1>5 DEF RollbackRestore, RestoreTables
  <2>6. IndexExact'
    BY <2>3, <2>4, <2>5, RebuildKeepsExact DEF TypeOK, AllNamedAs
  <2> QED
    BY <2>1, <2>3, <2>6 DEF AllNamedAs
<1>6. CASE RollbackDrop
  <2>1. \A id \in TableId : tables'[id] \in {tables[id], NoTable}
    BY <1>6 DEF RollbackDrop, DropNotIn
  <2>2. byName' \in RebuiltNames(tables')
    BY <1>6 DEF RollbackDrop, DropNotIn
  <2>3. NamedAs(own, tables')
    BY <2>1 DEF AllNamedAs, NamedAs
  <2>4. \A id \in TableId : tables'[id] # NoTable => tables[id] # NoTable
    BY <2>1
  <2>5. IndexExact'
    BY <2>2, <2>3, <2>4, RebuildKeepsExact DEF TypeOK, AllNamedAs
  <2> QED
    BY <1>6, <2>3, <2>5 DEF RollbackDrop, Reset, FinishRequest, AllNamedAs
<1> QED
  BY <1>1, <1>2, <1>3, <1>4, <1>5, <1>6
     DEF ImportStep, Begin, Fail, Commit, ApplyStart, ApplyMiss, ApplyReplace,
         ApplyRegister, ApplyRecord, ApplyFails

(* If callers keep one name per id, the name index is the exact inverse of *)
(* the table map in every reachable state - also between the two catalog   *)
(* calls of a rollback and whatever order a rebuild visits the map in.     *)
THEOREM IndexExactForFixedNames ==
  ASSUME NEW own, NamesFixedAs(own)
  PROVE  Spec => []IndexExact
<1>1. Init => AllNamedAs(own) /\ IndexExact
  BY CatalogAssumption
     DEF Init, CatalogInit, AllNamedAs, NamedAs, IndexExact, HasTable
<1>2. IndexInv(own) /\ TypeOK' /\ BaselineThere' /\ [Next]_vars
        => IndexInv(own)'
  <2> SUFFICES ASSUME IndexInv(own), TypeOK', [Next]_vars
               PROVE  AllNamedAs(own)' /\ IndexExact'
    BY DEF IndexInv
  <2>1. CASE UNCHANGED vars
    BY <2>1 DEF vars, catalogVars, importVars, requestVars, IndexInv,
       AllNamedAs, NamedAs, IndexExact, HasTable
  <2> QED
    BY <2>1, ClientStepExact, ImportStepExact DEF Next
<1>3. Init => TypeOK /\ BaselineThere
  BY InitTyped DEF Init, BaselineThere
<1>4. Init => IndexInv(own)
  BY <1>1, <1>3 DEF IndexInv
<1>5. IndexInv(own) => IndexExact
  BY DEF IndexInv
<1> QED
  BY <1>2, <1>4, <1>5, TypeCorrect, BaselineStaysThere, PTL DEF Spec
=============================================================================
