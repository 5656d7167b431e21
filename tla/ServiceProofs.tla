---------------------------- MODULE ServiceProofs --------------------------
(***************************************************************************)
(* Proofs about Service, for any callers, tables and segments.  What is    *)
(* proved of the versions and of the importer alone carries over: every    *)
(* step of the service is a step of either or leaves it as it is.  What    *)
(* the components say of each other's tables is then inductive, since a    *)
(* call that has left one component and not reached the next is counted.   *)
(***************************************************************************)
EXTENDS Service, VersionsProofs, FiniteSetTheorems

(* Import with the lemmas proved about it.                                 *)
Importer == INSTANCE IngestProofs

-----------------------------------------------------------------------------
(* The definitions of Import are those of Importer.                        *)

LEMMA SameTypes ==
  (Import!TypeOK <=> Importer!TypeOK) /\ (Import!TypeOK' <=> Importer!TypeOK')
BY DEF Import!TypeOK, Importer!TypeOK, Import!CatalogTypeOK,
       Importer!CatalogTypeOK, Import!TableMap, Importer!TableMap,
       Import!NameIndex, Importer!NameIndex, Import!Table, Importer!Table,
       Import!Segment, Importer!Segment

LEMMA SameInit == Import!Init <=> Importer!Init
BY DEF Import!Init, Importer!Init, Import!CatalogInit, Importer!CatalogInit

LEMMA SameRegister ==
  ASSUME NEW t
  PROVE  Import!ClientRegister(t) <=> Importer!ClientRegister(t)
BY DEF Import!ClientRegister, Importer!ClientRegister, Import!Register,
       Importer!Register, Import!Registrable, Importer!Registrable,
       Import!NameFree, Importer!NameFree, Import!NoteClientWrite,
       Importer!NoteClientWrite, Import!importVars, Importer!importVars,
       Import!requestVars, Importer!requestVars

LEMMA SameApplySchema ==
  ASSUME NEW id, NEW fields
  PROVE  Import!ClientApplySchema(id, fields)
           <=> Importer!ClientApplySchema(id, fields)
BY DEF Import!ClientApplySchema, Importer!ClientApplySchema,
       Import!ApplySchemaAtomic, Importer!ApplySchemaAtomic,
       Import!WithSchema, Importer!WithSchema, Import!HasTable,
       Importer!HasTable, Import!NoteClientWrite, Importer!NoteClientWrite,
       Import!importVars, Importer!importVars, Import!requestVars,
       Importer!requestVars

LEMMA SameClientStep == Import!ClientStep <=> Importer!ClientStep
BY SameRegister, SameApplySchema DEF Import!ClientStep, Importer!ClientStep

LEMMA SameFeedControl ==
  /\ Import!Begin <=> Importer!Begin
  /\ Import!Fail <=> Importer!Fail
  /\ Import!Commit <=> Importer!Commit
  /\ Import!ApplyRecord <=> Importer!ApplyRecord
  /\ \A s : Import!ApplyStart(s) <=> Importer!ApplyStart(s)
BY DEF Import!Begin, Importer!Begin, Import!Fail, Importer!Fail,
       Import!Commit, Importer!Commit, Import!ApplyRecord,
       Importer!ApplyRecord, Import!ApplyStart, Importer!ApplyStart,
       Import!Idle, Importer!Idle, Import!FinishRequest,
       Importer!FinishRequest, Import!HasTable, Importer!HasTable,
       Import!catalogVars, Importer!catalogVars, Import!importVars,
       Importer!importVars, Import!requestVars, Importer!requestVars

LEMMA SameApply ==
  /\ Import!ApplyGet <=> Importer!ApplyGet
  /\ Import!ApplyMiss <=> Importer!ApplyMiss
  /\ Import!ApplyReplace <=> Importer!ApplyReplace
  /\ Import!ApplyRegister <=> Importer!ApplyRegister
BY DEF Import!ApplyGet, Importer!ApplyGet, Import!ApplyMiss,
       Importer!ApplyMiss, Import!ApplyReplace, Importer!ApplyReplace,
       Import!ApplyRegister, Importer!ApplyRegister, Import!Applying,
       Importer!Applying, Import!Merged, Importer!Merged,
       Import!MergeFields, Importer!MergeFields, Import!WithSchema,
       Importer!WithSchema, Import!TableApplied, Importer!TableApplied,
       Import!ApplyFails, Importer!ApplyFails, Import!FinishRequest,
       Importer!FinishRequest, Import!Replace, Importer!Replace,
       Import!Replaceable, Importer!Replaceable, Import!Register,
       Importer!Register, Import!Registrable, Importer!Registrable,
       Import!NameFree, Importer!NameFree, Import!HasTable,
       Importer!HasTable, Import!catalogVars, Importer!catalogVars,
       Import!importVars, Importer!importVars

LEMMA SameRollback ==
  /\ Import!RollbackRestore <=> Importer!RollbackRestore
  /\ Import!RollbackDrop <=> Importer!RollbackDrop
BY DEF Import!RollbackRestore, Importer!RollbackRestore,
       Import!RollbackDrop, Importer!RollbackDrop, Import!RestoreSet,
       Importer!RestoreSet, Import!Reset, Importer!Reset, Import!Idle,
       Importer!Idle, Import!FinishRequest, Importer!FinishRequest,
       Import!RestoreTables, Importer!RestoreTables, Import!DropNotIn,
       Importer!DropNotIn, Import!RebuiltNames, Importer!RebuiltNames,
       Import!NameIndex, Importer!NameIndex, Import!Holders,
       Importer!Holders, Import!AllWrittenTables, Importer!AllWrittenTables,
       Import!CommittedTables, Importer!CommittedTables,
       Import!InflightTables, Importer!InflightTables, Import!TablesOf,
       Importer!TablesOf, Import!importVars, Importer!importVars

LEMMA SameImportStep == Import!ImportStep <=> Importer!ImportStep
BY SameFeedControl, SameApply, SameRollback
   DEF Import!ImportStep, Importer!ImportStep

(* What Ingest assumes of its constants is what Service assumes.           *)
LEMMA ImporterAssumption ==
  /\ NoId \notin TableId
  /\ NoTable \notin Importer!Table
  /\ Posted \subseteq Importer!Table
  /\ PutFields \subseteq SUBSET Column
  /\ SegmentBodies \subseteq Importer!Segment
  /\ NoSegment \notin Importer!Segment
  /\ NoBaseline \notin Importer!TableMap
  /\ MaxSegments \in Nat
  /\ MaxRevision \in Nat
BY ServiceAssumption DEF Import!TableMap, Importer!TableMap, Import!Table,
   Importer!Table, Import!Segment, Importer!Segment

(* A step of the service as the importer and its catalog see it.           *)
ImporterSteps ==
  \/ Import!ImportStep
  \/ \E t \in Posted : Import!ClientRegister(t)
  \/ \E id \in TableId, fields \in PutFields : Import!ClientApplySchema(id, fields)
  \/ UNCHANGED importVars

LEMMA ImporterTyped ==
  ASSUME Import!TypeOK, ImporterSteps
  PROVE  Import!TypeOK'
<1>1. CASE Import!ImportStep
  BY <1>1, Importer!ImportStepTyped, ImporterAssumption, SameTypes, SameImportStep
<1>2. CASE \/ \E t \in Posted : Import!ClientRegister(t)
           \/ \E id \in TableId, fields \in PutFields :
                Import!ClientApplySchema(id, fields)
  <2>1. Import!ClientStep
    BY <1>2 DEF Import!ClientStep
  <2> QED
    BY <2>1, Importer!ClientStepTyped, ImporterAssumption, SameTypes, SameClientStep
<1>3. CASE UNCHANGED importVars
  BY <1>3 DEF importVars, Import!TypeOK, Import!CatalogTypeOK
<1> QED
  BY <1>1, <1>2, <1>3 DEF ImporterSteps

-----------------------------------------------------------------------------
(* Every step of the service, seen by each of its parts.                   *)

(* What a call carries, by where it stands.                                *)
LEMMA CallKinds ==
  /\ Idle \in Call /\ Idle.at = "idle"
  /\ \A id \in TableId :
       /\ [at |-> "add node", id |-> id] \in Call
       /\ [at |-> "append", id |-> id] \in Call
       /\ \A n \in Nat : [at |-> "build", id |-> id, number |-> n] \in Call
  /\ \A call \in Call :
       /\ call.at \in {"add node", "append"} => call.id \in TableId
       /\ call.at = "build" => call.id \in TableId /\ call.number \in Nat
<1>1. Idle \in Call /\ Idle.at = "idle"
  BY DEF Call, Idle
<1>2. ASSUME NEW id \in TableId
      PROVE  /\ [at |-> "add node", id |-> id] \in Call
             /\ [at |-> "append", id |-> id] \in Call
             /\ \A n \in Nat : [at |-> "build", id |-> id, number |-> n] \in Call
  BY DEF Call
<1>3. ASSUME NEW call \in Call
      PROVE  /\ call.at \in {"add node", "append"} => call.id \in TableId
             /\ call.at = "build" => call.id \in TableId /\ call.number \in Nat
  <2>1. CASE call = Idle
    BY <2>1 DEF Idle
  <2>2. CASE call \in [at : {"add node"}, id : TableId]
    BY <2>2
  <2>3. CASE call \in [at : {"append"}, id : TableId]
    BY <2>3
  <2>4. CASE call \in [at : {"build"}, id : TableId, number : Nat]
    BY <2>4
  <2> QED
    BY <2>1, <2>2, <2>3, <2>4 DEF Call
<1> QED
  BY <1>1, <1>2, <1>3

LEMMA StepOfImporter ==
  ASSUME [Next]_vars
  PROVE  ImporterSteps
<1>1. ASSUME NEW r \in Caller, CallStep(r) PROVE ImporterSteps
  BY <1>1 DEF CallStep, PostRegister, PostAddNode, DraftLookup, DraftAppend,
     SnapshotVersion, SnapshotBuild, ImporterSteps
<1>2. ASSUME NEW id \in TableId,
             \/ PostNode(id) \/ ChangeVersion(id)
             \/ \E fields \in PutFields : Put(id, fields)
      PROVE  ImporterSteps
  BY <1>2 DEF PostNode, ChangeVersion, Put, ImporterSteps
<1>3. CASE ImportStep
  BY <1>3 DEF ImportStep, ImporterSteps
<1>4. CASE ListenerFails \/ Signal \/ TimeIsUp \/ Exit \/ UNCHANGED vars
  BY <1>4 DEF ListenerFails, Signal, TimeIsUp, Exit, Drained, BecomeOf, vars, ImporterSteps
<1> QED
  BY <1>1, <1>2, <1>3, <1>4 DEF Next

LEMMA StepOfVersions ==
  ASSUME [Next]_vars, calls \in [Caller -> Call]
  PROVE  [VersionsNext]_versionVars
<1>1. ASSUME NEW r \in Caller, CallStep(r) PROVE [VersionsNext]_versionVars
  <2>1. CASE DraftAppend(r)
    <3>1. calls[r].id \in TableId
      BY <2>1, CallKinds DEF DraftAppend
    <3> QED
      BY <2>1, <3>1 DEF DraftAppend, VersionsNext
  <2> QED
    BY <1>1, <2>1 DEF CallStep, PostRegister, PostAddNode, DraftLookup,
       SnapshotVersion, SnapshotBuild
<1>2. ASSUME NEW id \in TableId,
             \/ PostNode(id) \/ ChangeVersion(id)
             \/ \E fields \in PutFields : Put(id, fields)
      PROVE  [VersionsNext]_versionVars
  BY <1>2 DEF PostNode, ChangeVersion, Put, VersionsNext
<1>3. CASE ImportStep \/ ListenerFails \/ Signal \/ TimeIsUp \/ Exit \/ UNCHANGED vars
  BY <1>3 DEF ImportStep, ListenerFails, Signal, TimeIsUp, Exit, Drained, BecomeOf, vars
<1> QED
  BY <1>1, <1>2, <1>3 DEF Next

(* What only Service has.                                                  *)
OwnTypeOK ==
  /\ nodes \subseteq TableId
  /\ calls \in [Caller -> Call]
  /\ process \in {"serving", "draining", "overdue", "exited"}
  /\ imported \subseteq TableId
  /\ leftover \in [TableId -> Nat]

LEMMA OneCall ==
  ASSUME calls \in [Caller -> Call], NEW r \in Caller, NEW call \in Call,
         Goto(r, call)
  PROVE  /\ calls' \in [Caller -> Call]
         /\ calls'[r] = call
         /\ \A q \in Caller : q # r => calls'[q] = calls[q]
BY DEF Goto

(* A POST names an id and stores its table under it.                       *)
LEMMA Posting ==
  ASSUME Import!TypeOK, NEW t \in Posted, Import!ClientRegister(t)
  PROVE  /\ t.id \in TableId
         /\ \A id \in TableId :
              Import!HasTable(id)' <=> Import!HasTable(id) \/ id = t.id
<1>1. t \in Import!Table /\ t.id \in TableId
  BY ServiceAssumption DEF Import!ClientRegister, Import!Register,
     Import!Registrable, Import!Table
<1>2. tables' = [tables EXCEPT ![t.id] = t]
  BY DEF Import!ClientRegister, Import!Register
<1>3. DOMAIN tables = TableId /\ t # NoTable
  BY <1>1, ServiceAssumption
     DEF Import!TypeOK, Import!CatalogTypeOK, Import!TableMap
<1>4. tables \in [TableId -> Import!Table \cup {NoTable}]
  BY DEF Import!TypeOK, Import!CatalogTypeOK, Import!TableMap
<1> QED
  BY <1>1, <1>2, <1>3, <1>4 DEF Import!HasTable

(* A PUT neither registers nor drops a table.                              *)
LEMMA Putting ==
  ASSUME Import!TypeOK, NEW id \in TableId, NEW fields \in PutFields,
         Import!ClientApplySchema(id, fields)
  PROVE  \A i \in TableId : Import!HasTable(i)' <=> Import!HasTable(i)
<1>1. tables \in [TableId -> Import!Table \cup {NoTable}]
  BY DEF Import!TypeOK, Import!CatalogTypeOK, Import!TableMap
<1>2. tables[id] \in Import!Table
  BY <1>1 DEF Import!ClientApplySchema, Import!HasTable
<1>3. Import!WithSchema(tables[id], fields) \in Import!Table
  BY <1>2, ServiceAssumption DEF Import!WithSchema, Import!Table
<1>4. tables' = [tables EXCEPT ![id] = Import!WithSchema(tables[id], fields)]
  BY DEF Import!ClientApplySchema, Import!ApplySchemaAtomic
<1>5. Import!WithSchema(tables[id], fields) # NoTable
  BY <1>3, ServiceAssumption
<1>6. Import!HasTable(id)
  BY DEF Import!ClientApplySchema
<1> QED
  BY <1>1, <1>4, <1>5, <1>6 DEF Import!HasTable

(* A table that is there after an import step was there before, or is      *)
(* remembered as imported.                                                 *)
LEMMA Importing ==
  ASSUME ImportStep
  PROVE  /\ imported \subseteq imported'
         /\ \A id \in TableId :
              Import!HasTable(id)' => Import!HasTable(id) \/ id \in imported'
BY DEF ImportStep, Import!HasTable

(* The Drafts of a table that are under way, without one of them.          *)
LEMMA DraftingCount ==
  ASSUME NEW id
  PROVE  /\ Cardinality(Drafting(id)) \in Nat
         /\ \A r \in Caller : Cardinality(Drafting(id) \ {r}) \in Nat
         /\ \A r \in Caller :
              Cardinality(Drafting(id) \ {r}) =
                IF r \in Drafting(id) THEN Cardinality(Drafting(id)) - 1
                                      ELSE Cardinality(Drafting(id))
<1>1. IsFiniteSet(Drafting(id))
  BY ServiceAssumption, FS_Subset DEF Drafting
<1> QED
  BY <1>1, FS_CardinalityType, FS_RemoveElement

(* A caller that moves on, but not to a Draft of the table, is none of its *)
(* Drafts any more, and the others stay what they are.                     *)
LEMMA DraftingMoved ==
  ASSUME calls \in [Caller -> Call], NEW r \in Caller, NEW call \in Call,
         Goto(r, call), NEW id, ~(call.at = "append" /\ call.id = id)
  PROVE  Drafting(id)' = Drafting(id) \ {r}
<1>1. /\ calls'[r] = call
      /\ \A q \in Caller : q # r => calls'[q] = calls[q]
  BY OneCall
<1>2. Drafting(id)' = {q \in Caller : calls'[q].at = "append" /\ calls'[q].id = id}
  BY DEF Drafting
<1> QED
  BY <1>1, <1>2 DEF Drafting

-----------------------------------------------------------------------------
(* The inductive invariant.                                                *)
ServiceInv ==
  /\ Inv
  /\ Import!TypeOK
  /\ OwnTypeOK
  /\ CreatedAreNodes
  /\ OrphansStopGrowing
  /\ SnapshotsAreReleased

LEMMA ServiceInitially ==
  ASSUME Init
  PROVE  ServiceInv
<1>1. Inv
  BY InvInitially DEF Init
<1>2. Import!TypeOK
  BY Importer!InitTyped, ImporterAssumption, SameInit, SameTypes DEF Init
<1>3. \A r \in Caller : calls[r] = Idle /\ calls[r].at = "idle"
  BY CallKinds DEF Init
<1>4. OwnTypeOK
  BY CallKinds DEF Init, OwnTypeOK
<1>5. \A id \in TableId : ~Import!HasTable(id) /\ versions[id] = <<>>
  BY DEF Init, Import!Init, Import!CatalogInit, Import!HasTable, VersionsInit
<1>6. OrphansStopGrowing
  <2>1. \A id : Drafting(id) = {}
    BY <1>3 DEF Drafting
  <2>2. \A id : Cardinality(Drafting(id)) = 0
    BY <2>1, FS_EmptySet
  <2>3. \A id \in TableId : leftover[id] = 0
    BY DEF Init
  <2>4. \A id \in TableId : Len(versions[id]) = 0
    BY <1>5, EmptySeq
  <2> QED
    BY <2>2, <2>3, <2>4 DEF OrphansStopGrowing
<1> QED
  BY <1>1, <1>2, <1>3, <1>4, <1>5, <1>6
     DEF ServiceInv, CreatedAreNodes, SnapshotsAreReleased, At

LEMMA OwnTyped ==
  ASSUME Import!TypeOK, OwnTypeOK, VersionsTypeOK, [Next]_vars
  PROVE  OwnTypeOK'
<1>1. calls \in [Caller -> Call]
  BY DEF OwnTypeOK
<1>2. ASSUME NEW r \in Caller, CallStep(r) PROVE OwnTypeOK'
  <2>1. ASSUME NEW t \in Posted, PostRegister(r, t) PROVE OwnTypeOK'
    <3>1. t.id \in TableId
      BY <2>1, Posting DEF PostRegister
    <3>2. [at |-> "add node", id |-> t.id] \in Call
      BY <3>1, CallKinds
    <3> QED
      BY <1>1, <2>1, <3>2, OneCall DEF PostRegister, OwnTypeOK
  <2>2. CASE PostAddNode(r)
    <3>1. calls[r].id \in TableId
      BY <1>1, <2>2, CallKinds DEF PostAddNode
    <3>2. calls' \in [Caller -> Call]
      BY <1>1, <2>2, CallKinds, OneCall DEF PostAddNode
    <3> QED
      BY <2>2, <3>1, <3>2 DEF PostAddNode, OwnTypeOK
  <2>3. ASSUME NEW id \in TableId, DraftLookup(r, id) PROVE OwnTypeOK'
    <3>1. [at |-> "append", id |-> id] \in Call
      BY CallKinds
    <3> QED
      BY <1>1, <2>3, <3>1, OneCall DEF DraftLookup, OwnTypeOK
  <2>4. CASE DraftAppend(r)
    BY <1>1, <2>4, CallKinds, OneCall DEF DraftAppend, OwnTypeOK
  <2>5. ASSUME NEW id \in TableId, NEW n \in DOMAIN versions[id],
               SnapshotVersion(r, id, n)
        PROVE  OwnTypeOK'
    <3>1. versions[id] \in Seq(VersionState)
      BY DEF VersionsTypeOK
    <3>2. n \in Nat
      BY <3>1
    <3>3. [at |-> "build", id |-> id, number |-> n] \in Call
      BY <3>2, CallKinds
    <3> QED
      BY <1>1, <2>5, <3>3, OneCall DEF SnapshotVersion, OwnTypeOK
  <2>6. CASE SnapshotBuild(r)
    BY <1>1, <2>6, CallKinds, OneCall DEF SnapshotBuild, OwnTypeOK
  <2> QED
    BY <1>2, <2>1, <2>2, <2>3, <2>4, <2>5, <2>6 DEF CallStep
<1>3. ASSUME NEW id \in TableId,
             \/ PostNode(id) \/ ChangeVersion(id)
             \/ \E fields \in PutFields : Put(id, fields)
      PROVE  OwnTypeOK'
  BY <1>3 DEF PostNode, ChangeVersion, Put, ownVars, OwnTypeOK
<1>4. CASE ImportStep
  <2>1. \A id \in TableId : Len(versions[id]) \in Nat
    BY DEF VersionsTypeOK
  <2>2. \A id \in TableId : Len(versions[id]) + Cardinality(Drafting(id)) \in Nat
    BY <2>1, DraftingCount
  <2>3. leftover' \in [TableId -> Nat]
    BY <1>4, <2>2 DEF ImportStep, OwnTypeOK
  <2> QED
    BY <1>4, <2>3 DEF ImportStep, OwnTypeOK
<1>5. CASE ListenerFails \/ Signal \/ TimeIsUp \/ Exit \/ UNCHANGED vars
  BY <1>5 DEF ListenerFails, Signal, TimeIsUp, Exit, Drained, BecomeOf, vars, ownVars, OwnTypeOK
<1> QED
  BY <1>2, <1>3, <1>4, <1>5 DEF Next

(* Only Draft makes the list of a table's versions longer.                 *)
LEMMA ChangeKeepsLength ==
  ASSUME Inv, NEW t \in TableId, ChangeVersion(t), NEW id \in TableId
  PROVE  Len(versions'[id]) = Len(versions[id])
<1>1. versions \in [TableId -> Seq(VersionState)]
  BY DEF Inv, VersionsTypeOK
<1>2. versions[t] \in Seq(VersionState)
      /\ DOMAIN versions[t] = 1 .. Len(versions[t]) /\ Len(versions[t]) \in Nat
  BY TableTypes
<1>3. ASSUME NEW n \in DOMAIN versions[t], NEW state \in VersionState,
             SetState(t, n, state)
      PROVE  Len(versions'[id]) = Len(versions[id])
  <2>1. versions' = [versions EXCEPT ![t] = [versions[t] EXCEPT ![n] = state]]
    BY <1>3 DEF SetState
  <2>2. Len([versions[t] EXCEPT ![n] = state]) = Len(versions[t])
    BY <1>2, StateReplaced
  <2> QED
    BY <1>1, <2>1, <2>2
<1>4. CASE RollBack(t)
  BY <1>3, <1>4 DEF RollBack, Exists, VersionState
<1>5. CASE Supersede(t)
  <2> DEFINE s == Superseded(versions[t], current[t])
  <2>1. s \in Seq(VersionState) /\ DOMAIN s = DOMAIN versions[t]
    BY <1>2, SupersededList
  <2>2. versions' = [versions EXCEPT ![t] = s]
    BY <1>5 DEF Supersede, Superseded, Inv, VersionsTypeOK
  <2> HIDE DEF s
  <2>3. DOMAIN s = 1 .. Len(s) /\ Len(s) \in Nat
    BY <2>1, Numbers
  <2>4. Len(s) = Len(versions[t])
    BY <1>2, <2>1, <2>3
  <2> QED
    BY <1>1, <2>2, <2>4
<1>6. CASE \E n \in DOMAIN versions[t] : PublishDraft(t, n) \/ SwitchTo(t, n)
  BY <1>3, <1>6 DEF PublishDraft, SwitchTo, VersionState
<1> QED
  BY <1>4, <1>5, <1>6 DEF ChangeVersion

(* Where callers stand after one of them moved on.                         *)
LEMMA Moved ==
  ASSUME calls \in [Caller -> Call], NEW r \in Caller, NEW call \in Call,
         Goto(r, call), NEW place, NEW id
  PROVE  /\ At(place, id)' => At(place, id) \/ (call.at = place /\ call.id = id)
         /\ call.at = place /\ call.id = id => At(place, id)'
         /\ At(place, id) =>
              At(place, id)' \/ (calls[r].at = place /\ calls[r].id = id)
<1>1. /\ calls'[r] = call
      /\ \A q \in Caller : q # r => calls'[q] = calls[q]
  BY OneCall
<1>2. At(place, id)' <=> \E q \in Caller : calls'[q].at = place /\ calls'[q].id = id
  BY DEF At
<1>3. At(place, id) <=> \E q \in Caller : calls[q].at = place /\ calls[q].id = id
  BY DEF At
<1> QED
  BY <1>1, <1>2, <1>3

(* A table a client created is on its way to the graph until it is there.  *)
LEMMA CreatedKept ==
  ASSUME ServiceInv, [Next]_vars
  PROVE  CreatedAreNodes'
<1> SUFFICES ASSUME NEW id \in TableId, Import!HasTable(id)'
             PROVE  (id \in nodes \cup imported \/ At("add node", id))'
  BY DEF CreatedAreNodes
<1>1. calls \in [Caller -> Call] /\ Import!TypeOK
  BY DEF ServiceInv, OwnTypeOK
<1>2. Import!HasTable(id) => id \in nodes \cup imported \/ At("add node", id)
  BY DEF ServiceInv, CreatedAreNodes
<1>3. CASE UNCHANGED <<tables, nodes, imported, calls>>
  BY <1>2, <1>3 DEF Import!HasTable, At
<1>4. ASSUME NEW r \in Caller, NEW t \in Posted, PostRegister(r, t)
      PROVE  (id \in nodes \cup imported \/ At("add node", id))'
  <2>1. /\ t.id \in TableId
        /\ Import!HasTable(id) \/ id = t.id
    BY <1>1, <1>4, Posting DEF PostRegister
  <2> DEFINE call == [at |-> "add node", id |-> t.id]
  <2>2. call \in Call /\ Goto(r, call) /\ calls[r].at = "idle"
    BY <1>4, <2>1, CallKinds DEF PostRegister, Free
  <2>3. call.at = "add node" /\ call.id = t.id
    OBVIOUS
  <2> HIDE DEF call
  <2>4. CASE id = t.id
    <3>1. call.at = "add node" /\ call.id = id => At("add node", id)'
      BY <1>1, <2>2, Moved
    <3> QED
      BY <2>3, <2>4, <3>1
  <2>5. CASE id # t.id
    <3>1. At("add node", id) => At("add node", id)'
      BY <1>1, <2>2, Moved
    <3> QED
      BY <1>2, <1>4, <2>1, <2>5, <3>1 DEF PostRegister
  <2> QED
    BY <2>4, <2>5
<1>5. ASSUME NEW r \in Caller, PostAddNode(r)
      PROVE  (id \in nodes \cup imported \/ At("add node", id))'
  <2>1. Goto(r, Idle) /\ Idle \in Call
    BY <1>5, CallKinds DEF PostAddNode
  <2>2. At("add node", id) => At("add node", id)' \/ calls[r].id = id
    BY <1>1, <2>1, Moved
  <2>3. Import!HasTable(id)
    BY <1>5 DEF PostAddNode, importVars, Import!HasTable
  <2> QED
    BY <1>2, <1>5, <2>2, <2>3 DEF PostAddNode
<1>6. ASSUME NEW r \in Caller, NEW call \in Call, Goto(r, call),
             calls[r].at # "add node", UNCHANGED <<tables, nodes, imported>>
      PROVE  (id \in nodes \cup imported \/ At("add node", id))'
  <2>1. At("add node", id) => At("add node", id)'
    BY <1>1, <1>6, Moved
  <2> QED
    BY <1>2, <1>6, <2>1 DEF Import!HasTable
<1>7. ASSUME NEW r \in Caller,
             \/ \E i \in TableId : DraftLookup(r, i)
             \/ DraftAppend(r)
             \/ \E i \in TableId : \E n \in DOMAIN versions[i] : SnapshotVersion(r, i, n)
             \/ SnapshotBuild(r)
      PROVE  (id \in nodes \cup imported \/ At("add node", id))'
  <2>1. \E call \in Call : Goto(r, call)
    BY <1>7, OwnTyped, OneCall DEF ServiceInv, Inv, Next, CallStep, DraftLookup,
       DraftAppend, SnapshotVersion, SnapshotBuild, Goto, OwnTypeOK
  <2>2. calls[r].at # "add node"
    BY <1>7, CallKinds DEF DraftLookup, DraftAppend, SnapshotVersion, SnapshotBuild, Free
  <2>3. UNCHANGED <<tables, nodes, imported>>
    BY <1>7 DEF DraftLookup, DraftAppend, SnapshotVersion, SnapshotBuild, importVars
  <2> QED
    BY <1>6, <2>1, <2>2, <2>3
<1>8. ASSUME NEW i \in TableId, PostNode(i)
      PROVE  (id \in nodes \cup imported \/ At("add node", id))'
  BY <1>2, <1>8 DEF PostNode, importVars, Import!HasTable, At
<1>9. ASSUME NEW i \in TableId, NEW fields \in PutFields, Put(i, fields)
      PROVE  (id \in nodes \cup imported \/ At("add node", id))'
  <2>1. Import!HasTable(id)
    BY <1>1, <1>9, Putting DEF Put
  <2> QED
    BY <1>2, <1>9, <2>1 DEF Put, ownVars, At
<1>10. CASE ImportStep
  BY <1>2, <1>10, Importing DEF ImportStep, At
<1>11. ASSUME NEW i \in TableId, ChangeVersion(i)
       PROVE  UNCHANGED <<tables, nodes, imported, calls>>
  BY <1>11 DEF ChangeVersion, importVars, ownVars
<1>12. CASE ListenerFails \/ Signal \/ TimeIsUp \/ Exit \/ UNCHANGED vars
  BY <1>3, <1>12 DEF ListenerFails, Signal, TimeIsUp, Exit, Drained, BecomeOf, vars,
     importVars, ownVars
<1> QED
  BY <1>3, <1>4, <1>5, <1>7, <1>8, <1>9, <1>10, <1>11, <1>12 DEF Next, CallStep

(* While a table is gone, its versions and the Drafts of it under way are  *)
(* together never more than they were when it went: a Draft that starts    *)
(* needs the table, and one that ends adds one version.                    *)
LEMMA OrphansKept ==
  ASSUME ServiceInv, [Next]_vars
  PROVE  OrphansStopGrowing'
<1> SUFFICES ASSUME NEW id \in TableId, ~Import!HasTable(id)'
             PROVE  (Len(versions[id]) + Cardinality(Drafting(id)) <= leftover[id])'
  BY DEF OrphansStopGrowing
<1> DEFINE Goal == (Len(versions[id]) + Cardinality(Drafting(id)) <= leftover[id])'
<1>1. /\ calls \in [Caller -> Call] /\ Import!TypeOK /\ Inv
      /\ leftover \in [TableId -> Nat]
  BY DEF ServiceInv, OwnTypeOK
<1>2. ~Import!HasTable(id) =>
        Len(versions[id]) + Cardinality(Drafting(id)) <= leftover[id]
  BY DEF ServiceInv, OrphansStopGrowing
<1>3. /\ Len(versions[id]) \in Nat /\ leftover[id] \in Nat
      /\ Cardinality(Drafting(id)) \in Nat
      /\ \A r \in Caller :
           /\ Cardinality(Drafting(id) \ {r}) \in Nat
           /\ r \in Drafting(id) =>
                Cardinality(Drafting(id) \ {r}) = Cardinality(Drafting(id)) - 1
           /\ Cardinality(Drafting(id) \ {r}) <= Cardinality(Drafting(id))
  BY <1>1, TableTypes, DraftingCount
<1>4. ASSUME ~Import!HasTable(id), leftover'[id] = leftover[id],
             Len(versions'[id]) = Len(versions[id]),
             \/ Drafting(id)' = Drafting(id)
             \/ \E r \in Caller : Drafting(id)' = Drafting(id) \ {r}
      PROVE  Goal
  <2>1. Cardinality(Drafting(id)') <= Cardinality(Drafting(id))
        /\ Cardinality(Drafting(id)') \in Nat
    <3>1. CASE Drafting(id)' = Drafting(id)
      BY <1>3, <3>1
    <3>2. ASSUME NEW r \in Caller, Drafting(id)' = Drafting(id) \ {r}
          PROVE  Cardinality(Drafting(id)') <= Cardinality(Drafting(id))
                 /\ Cardinality(Drafting(id)') \in Nat
      BY <1>3, <3>2
    <3> QED
      BY <1>4, <3>1, <3>2
  <2> QED
    BY <1>2, <1>3, <1>4, <2>1
<1>5. calls' = calls => Drafting(id)' = Drafting(id)
  BY DEF Drafting
<1>6. ASSUME NEW r \in Caller, NEW t \in Posted, PostRegister(r, t)
      PROVE  Goal
  <2>1. t.id \in TableId /\ id # t.id /\ ~Import!HasTable(id)
    BY <1>1, <1>6, Posting DEF PostRegister
  <2> DEFINE call == [at |-> "add node", id |-> t.id]
  <2>2. call \in Call /\ Goto(r, call) /\ call.at # "append"
    BY <1>6, <2>1, CallKinds DEF PostRegister
  <2> HIDE DEF call
  <2>3. Drafting(id)' = Drafting(id) \ {r}
    BY <1>1, <2>2, DraftingMoved
  <2>4. leftover'[id] = leftover[id] /\ versions' = versions
    BY <1>1, <1>6, <2>1 DEF PostRegister, versionVars
  <2> QED
    BY <1>4, <2>1, <2>3, <2>4
<1>7. ASSUME NEW r \in Caller, NEW i \in TableId, DraftLookup(r, i)
      PROVE  Goal
  <2>1. ~Import!HasTable(id) /\ id # i
    BY <1>7 DEF DraftLookup, importVars, Import!HasTable
  <2> DEFINE call == [at |-> "append", id |-> i]
  <2>2. call \in Call /\ Goto(r, call) /\ call.id = i
    BY <1>7, CallKinds DEF DraftLookup
  <2> HIDE DEF call
  <2>3. Drafting(id)' = Drafting(id) \ {r}
    BY <1>1, <2>1, <2>2, DraftingMoved
  <2> QED
    BY <1>4, <1>7, <2>1, <2>3 DEF DraftLookup, versionVars
<1>8. ASSUME NEW r \in Caller, DraftAppend(r)
      PROVE  Goal
  <2>1. Goto(r, Idle) /\ Idle \in Call /\ Idle.at # "append"
    BY <1>8, CallKinds DEF DraftAppend
  <2>2. Drafting(id)' = Drafting(id) \ {r}
    BY <1>1, <2>1, DraftingMoved
  <2>3. ~Import!HasTable(id) /\ leftover' = leftover
    BY <1>8 DEF DraftAppend, importVars, Import!HasTable
  <2>4. versions' = [versions EXCEPT ![calls[r].id] = Append(@, "draft")]
    BY <1>8 DEF DraftAppend, Draft
  <2>5. CASE calls[r].id = id
    <3>1. r \in Drafting(id)
      BY <1>8, <2>5 DEF DraftAppend, Drafting
    <3>2. Len(versions'[id]) = Len(versions[id]) + 1
      BY <1>1, <2>4, <2>5, DraftAppended DEF Inv, VersionsTypeOK
    <3>3. Cardinality(Drafting(id)') = Cardinality(Drafting(id)) - 1
      BY <1>3, <2>2, <3>1
    <3> QED
      BY <1>2, <1>3, <2>3, <3>2, <3>3
  <2>6. CASE calls[r].id # id
    <3>1. versions'[id] = versions[id]
      BY <1>1, <2>4, <2>6 DEF Inv, VersionsTypeOK
    <3> QED
      BY <1>4, <2>2, <2>3, <3>1
  <2> QED
    BY <2>5, <2>6
<1>9. ASSUME NEW r \in Caller, NEW i \in TableId, NEW n \in DOMAIN versions[i],
             SnapshotVersion(r, i, n)
      PROVE  Goal
  <2> DEFINE call == [at |-> "build", id |-> i, number |-> n]
  <2>1. n \in Nat
    BY <1>1, TableTypes
  <2>2. call \in Call /\ Goto(r, call) /\ call.at # "append"
    BY <1>9, <2>1, CallKinds DEF SnapshotVersion
  <2> HIDE DEF call
  <2>3. Drafting(id)' = Drafting(id) \ {r}
    BY <1>1, <2>2, DraftingMoved
  <2> QED
    BY <1>4, <1>9, <2>3 DEF SnapshotVersion, versionVars, importVars, Import!HasTable
<1>10. ASSUME NEW r \in Caller, PostAddNode(r) \/ SnapshotBuild(r)
       PROVE  Goal
  <2>1. Goto(r, Idle) /\ Idle \in Call /\ Idle.at # "append"
    BY <1>10, CallKinds DEF PostAddNode, SnapshotBuild
  <2>2. Drafting(id)' = Drafting(id) \ {r}
    BY <1>1, <2>1, DraftingMoved
  <2> QED
    BY <1>4, <1>10, <2>2 DEF PostAddNode, SnapshotBuild, versionVars, importVars,
       Import!HasTable
<1>11. ASSUME NEW i \in TableId, NEW fields \in PutFields, Put(i, fields)
       PROVE  Goal
  <2>1. ~Import!HasTable(id)
    BY <1>1, <1>11, Putting DEF Put
  <2> QED
    BY <1>4, <1>5, <1>11, <2>1 DEF Put, ownVars, versionVars
<1>12. CASE ImportStep
  <2>1. /\ tables'[id] = NoTable /\ versions' = versions
        /\ Drafting(id)' = Drafting(id)
    BY <1>5, <1>12 DEF ImportStep, versionVars, Import!HasTable
  <2>2. CASE Import!HasTable(id)
    <3>1. leftover'[id] = Len(versions[id]) + Cardinality(Drafting(id))
      BY <1>12, <2>1, <2>2 DEF ImportStep, Import!HasTable
    <3> QED
      BY <1>3, <2>1, <3>1
  <2>3. CASE ~Import!HasTable(id)
    <3>1. leftover'[id] = leftover[id]
      BY <1>12, <2>1, <2>3 DEF ImportStep, Import!HasTable
    <3> QED
      BY <1>4, <2>1, <2>3, <3>1
  <2> QED
    BY <2>2, <2>3
<1>13. ASSUME NEW i \in TableId, ChangeVersion(i)
       PROVE  Goal
  <2>1. Len(versions'[id]) = Len(versions[id])
    BY <1>1, <1>13, ChangeKeepsLength
  <2> QED
    BY <1>4, <1>5, <1>13, <2>1 DEF ChangeVersion, importVars, ownVars, Import!HasTable
<1>14. ASSUME NEW i \in TableId, PostNode(i)
       PROVE  Goal
  BY <1>4, <1>5, <1>14 DEF PostNode, versionVars, importVars, Import!HasTable
<1>15. CASE ListenerFails \/ Signal \/ TimeIsUp \/ Exit \/ UNCHANGED vars
  BY <1>4, <1>5, <1>15 DEF ListenerFails, Signal, TimeIsUp, Exit, Drained, BecomeOf,
     vars, versionVars, importVars, ownVars, Import!HasTable
<1> QED
  BY <1>6, <1>7, <1>8, <1>9, <1>10, <1>11, <1>12, <1>13, <1>14, <1>15
     DEF Next, CallStep

(* A released version that a snapshot has read stays one.                  *)
LEMMA ReleasedKept ==
  ASSUME ServiceInv, [Next]_vars
  PROVE  SnapshotsAreReleased'
<1>1. calls \in [Caller -> Call] /\ calls' \in [Caller -> Call] /\ Inv
  BY OwnTyped DEF ServiceInv, Inv, OwnTypeOK
<1>2. \A t \in TableId : Onward(versions[t], versions'[t])
  BY <1>1, StepOfVersions, StepOnward
<1> SUFFICES ASSUME NEW r \in Caller, calls'[r].at = "build"
             PROVE  /\ calls'[r].number \in DOMAIN versions'[calls'[r].id]
                    /\ versions'[calls'[r].id][calls'[r].number] # "draft"
  BY DEF SnapshotsAreReleased, Exists
<1>3. calls'[r].id \in TableId
  BY <1>1, CallKinds
<1>4. CASE calls'[r] = calls[r]
  <2>1. /\ calls[r].number \in DOMAIN versions[calls[r].id]
        /\ versions[calls[r].id][calls[r].number] # "draft"
    BY <1>4 DEF ServiceInv, SnapshotsAreReleased, Exists
  <2> QED
    BY <1>2, <1>3, <1>4, <2>1 DEF Onward
<1>5. ASSUME NEW id \in TableId, NEW n \in DOMAIN versions[id],
             SnapshotVersion(r, id, n)
      PROVE  /\ calls'[r].number \in DOMAIN versions'[calls'[r].id]
             /\ versions'[calls'[r].id][calls'[r].number] # "draft"
  <2>1. calls'[r] = [at |-> "build", id |-> id, number |-> n]
    BY <1>1, <1>5 DEF SnapshotVersion, Goto
  <2>2. calls'[r].id = id /\ calls'[r].number = n
    BY <2>1
  <2>3. versions' = versions /\ versions[id][n] # "draft"
    BY <1>5 DEF SnapshotVersion, Current, IsReadable, Readable, versionVars
  <2> QED
    BY <2>2, <2>3
<1>6. ASSUME NEW q \in Caller, CallStep(q),
             ~ \E id \in TableId : \E n \in DOMAIN versions[id] : SnapshotVersion(q, id, n)
      PROVE  calls'[r] = calls[r]
  <2>1. calls'[q].at # "build"
    <3>1. CASE PostAddNode(q) \/ DraftAppend(q) \/ SnapshotBuild(q)
      <4>1. calls'[q] = Idle
        BY <1>1, <3>1 DEF PostAddNode, DraftAppend, SnapshotBuild, Goto
      <4> QED
        BY <4>1, CallKinds
    <3>2. CASE \E t \in Posted : PostRegister(q, t)
      <4>1. PICK t \in Posted : PostRegister(q, t)
        BY <3>2
      <4> DEFINE call == [at |-> "add node", id |-> t.id]
      <4>2. calls'[q] = call
        BY <1>1, <4>1 DEF PostRegister, Goto
      <4>3. call.at = "add node"
        OBVIOUS
      <4> HIDE DEF call
      <4> QED
        BY <4>2, <4>3
    <3>3. CASE \E id \in TableId : DraftLookup(q, id)
      BY <1>1, <3>3 DEF DraftLookup, Goto
    <3> QED
      BY <1>6, <3>1, <3>2, <3>3 DEF CallStep
  <2>2. r # q
    BY <2>1
  <2> QED
    BY <1>1, <1>6, <2>2 DEF CallStep, PostRegister, PostAddNode, DraftLookup,
       DraftAppend, SnapshotBuild, Goto
<1>7. ASSUME NEW q \in Caller, q # r,
             \E id \in TableId : \E n \in DOMAIN versions[id] : SnapshotVersion(q, id, n)
      PROVE  calls'[r] = calls[r]
  BY <1>1, <1>7 DEF SnapshotVersion, Goto
<1>8. ASSUME NEW id \in TableId,
             \/ PostNode(id) \/ ChangeVersion(id)
             \/ \E fields \in PutFields : Put(id, fields)
      PROVE  calls' = calls
  BY <1>8 DEF PostNode, ChangeVersion, Put, ownVars
<1>9. CASE ImportStep \/ ListenerFails \/ Signal \/ TimeIsUp \/ Exit \/ UNCHANGED vars
  <2>1. calls' = calls
    BY <1>9 DEF ImportStep, ListenerFails, Signal, TimeIsUp, Exit, Drained, BecomeOf, vars, ownVars
  <2> QED
    BY <1>4, <2>1
<1> QED
  BY <1>4, <1>5, <1>6, <1>7, <1>8, <1>9 DEF Next

LEMMA ServiceInvKept ==
  ASSUME ServiceInv, [Next]_vars
  PROVE  ServiceInv'
<1>1. Inv /\ Import!TypeOK /\ OwnTypeOK /\ calls \in [Caller -> Call]
  BY DEF ServiceInv, OwnTypeOK
<1>2. Inv'
  BY <1>1, StepOfVersions, InvKept
<1>3. Import!TypeOK'
  BY <1>1, StepOfImporter, ImporterTyped
<1>4. OwnTypeOK'
  BY <1>1, OwnTyped DEF Inv
<1> QED
  BY <1>2, <1>3, <1>4, CreatedKept, OrphansKept, ReleasedKept DEF ServiceInv

LEMMA ServiceInvariant == Spec => []ServiceInv
BY ServiceInitially, ServiceInvKept, PTL DEF Spec

-----------------------------------------------------------------------------
(* The theorems.                                                           *)

(* Every component of the running service is well typed at every moment.   *)
THEOREM ServiceTypeCorrect == Spec => []TypeOK
<1>1. ServiceInv => TypeOK
  BY DEF ServiceInv, Inv, OwnTypeOK, TypeOK
<1> QED
  BY <1>1, ServiceInvariant, PTL

(* Whatever imports, rollbacks and other requests come between the two     *)
(* calls of a POST, only tables an import created are missing in the       *)
(* lineage graph.                                                          *)
THEOREM NodesFollow == Spec => []CreatedAreNodes
<1>1. ServiceInv => CreatedAreNodes
  BY DEF ServiceInv
<1> QED
  BY <1>1, ServiceInvariant, PTL

(* Draft asks the catalog before it takes its own lock; what that leaves   *)
(* behind when a rollback comes in between is one version for each Draft   *)
(* then under way, and nothing ever adds to it while the table is gone.    *)
THEOREM OrphansBounded == Spec => []OrphansStopGrowing
<1>1. ServiceInv => OrphansStopGrowing
  BY DEF ServiceInv
<1> QED
  BY <1>1, ServiceInvariant, PTL

(* The version a snapshot is answered with was released.                   *)
THEOREM SnapshotsReleased == Spec => []SnapshotsAreReleased
<1>1. ServiceInv => SnapshotsAreReleased
  BY DEF ServiceInv
<1> QED
  BY <1>1, ServiceInvariant, PTL

(* The running service does to the versions only what Versions allows and  *)
(* to the catalog and the importer only what Ingest allows: whatever is    *)
(* proved of those modules alone holds in the service.                     *)
THEOREM ServiceComposes == Spec => VersionsSpec /\ Import!Spec
<1>1. Init => VersionsInit /\ Import!Init
  BY DEF Init
<1>2. ServiceInv /\ [Next]_vars => [VersionsNext]_versionVars
  BY StepOfVersions DEF ServiceInv, OwnTypeOK
<1>3. [Next]_vars => [Import!Next]_(Import!vars)
  BY StepOfImporter DEF ImporterSteps, Import!Next, Import!ClientStep, Import!vars,
     importVars, Import!catalogVars, Import!importVars, Import!requestVars
<1> QED
  BY <1>1, <1>2, <1>3, ServiceInvariant, PTL DEF Spec, VersionsSpec, Import!Spec
=============================================================================
