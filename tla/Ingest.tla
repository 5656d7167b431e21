------------------------------ MODULE Ingest -------------------------------
(***************************************************************************)
(* The importer of internal/ingest over the catalog store, while HTTP      *)
(* clients register tables and replace schemas.                            *)
(*                                                                         *)
(* Each catalog call takes and releases Catalog.mu, so requests interleave *)
(* between the calls of one import request: pc names the call the import   *)
(* request in progress makes next.  The Importer itself has no lock; the   *)
(* model has one upstream feed that waits for each answer before its next  *)
(* import request, the only use in which the importer's fields are not a   *)
(* data race.                                                              *)
(***************************************************************************)
EXTENDS Catalog, Sequences

CONSTANTS
  Posted,        \* tables the clients POST to /api/tables (revision 1)
  PutFields,     \* field lists the clients PUT to /api/tables/{id}
  SegmentBodies, \* segments the upstream feed POSTs to /api/ingest/apply
  NoSegment,     \* a nil *Segment
  NoBaseline,    \* a nil baseline map
  MaxSegments,   \* bound: committed segments in one import
  MaxRevision    \* bound: revisions from which a table is still updated

(* ingest.Segment; its id is a label for reports and is left out.          *)
Segment == [tables : Seq(Table), commit : BOOLEAN]

ASSUME IngestAssumption ==
  /\ Posted \subseteq Table
  /\ PutFields \subseteq SUBSET Column
  /\ SegmentBodies \subseteq Segment
  /\ NoSegment \notin Segment
  /\ NoBaseline \notin TableMap
  /\ MaxSegments \in Nat
  /\ MaxRevision \in Nat

VARIABLES
  baseline,   \* Importer.baseline
  segments,   \* Importer.segments
  inflight,   \* Importer.inflight
  written,    \* Importer.written, the ids whose value is true
  failed,     \* Importer.failed (lastErr is non-nil exactly when it is set)
  pc,         \* next call of the import request in progress
  seg,        \* Apply: the segment
  next,       \* Apply: index of the segment's table being applied
  cur,        \* ApplyIncoming: the copy that Catalog.Get returned
  outside     \* history: ids that clients wrote since Begin

importVars == <<baseline, segments, inflight, written, failed>>
requestVars == <<pc, seg, next, cur>>
vars == <<catalogVars, importVars, requestVars, outside>>

TypeOK ==
  /\ CatalogTypeOK
  /\ baseline \in TableMap \cup {NoBaseline}
  /\ segments \in Seq(Segment)
  /\ inflight \in Segment \cup {NoSegment}
  /\ written \subseteq TableId
  /\ failed \in BOOLEAN
  /\ pc \in {"idle", "lookup", "replace", "register", "drop"}
  /\ seg \in Segment \cup {NoSegment}
  /\ next \in Nat
  /\ cur \in Table \cup {NoTable}
  /\ outside \subseteq TableId
  /\ pc \in {"lookup", "replace", "register"} => seg # NoSegment /\ next >= 1
  /\ pc \in {"replace", "register"} => next <= Len(seg.tables)
  /\ pc = "replace" => cur # NoTable /\ cur.id = seg.tables[next].id
  /\ pc = "replace" => cur.id \in TableId
  /\ pc = "drop" => baseline # NoBaseline

Init ==
  /\ CatalogInit
  /\ baseline = NoBaseline
  /\ segments = <<>>
  /\ inflight = NoSegment
  /\ written = {}
  /\ failed = FALSE
  /\ pc = "idle" /\ seg = NoSegment /\ next = 0 /\ cur = NoTable
  /\ outside = {}

-----------------------------------------------------------------------------
(* HTTP clients of the catalog.  A refused request changes nothing.        *)

(* Clients' writes are remembered while a baseline is held.                *)
NoteClientWrite(id) ==
  outside' = IF baseline = NoBaseline THEN outside ELSE outside \cup {id}

(* handleTables, POST.                                                     *)
ClientRegister(t) ==
  /\ Register(t)
  /\ NoteClientWrite(t.id)
  /\ UNCHANGED <<importVars, requestVars>>

(* handleTable, PUT, through Meta.ApplySchema.                             *)
ClientApplySchema(id, fields) ==
  /\ HasTable(id) /\ tables[id].revision < MaxRevision
  /\ ApplySchemaAtomic(id, fields)
  /\ NoteClientWrite(id)
  /\ UNCHANGED <<importVars, requestVars>>

-----------------------------------------------------------------------------
(* The upstream feed.                                                      *)

Idle == pc = "idle"

FinishRequest ==
  /\ pc' = "idle" /\ seg' = NoSegment /\ next' = 0 /\ cur' = NoTable

(* A Begin that does not look for recorded segments.                       *)
BeginUnguarded ==
  /\ Idle
  /\ baseline' = tables
  /\ written' = {}
  /\ failed' = FALSE
  /\ outside' = {}
  /\ UNCHANGED <<catalogVars, segments, inflight, requestVars>>

(* Importer.Begin.  A failed import that recorded no segment passes the    *)
(* guard, and its baseline and failure are overwritten.                    *)
Begin ==
  /\ Idle
  /\ segments = <<>> /\ inflight = NoSegment
  /\ baseline' = tables
  /\ written' = {}
  /\ failed' = FALSE
  /\ outside' = {}
  /\ UNCHANGED <<catalogVars, segments, inflight, requestVars>>

(* Importer.Fail.                                                          *)
Fail ==
  /\ Idle
  /\ failed' = TRUE
  /\ UNCHANGED <<catalogVars, baseline, segments, inflight, written,
                 requestVars, outside>>

(* Importer.Apply up to its loop.  The conjuncts on MaxSegments and        *)
(* MaxRevision bound what the feed sends.                                  *)
ApplyStart(s) ==
  /\ Idle
  /\ ~failed
  /\ s.commit => Len(segments) < MaxSegments
  /\ \A i \in DOMAIN s.tables :
       HasTable(s.tables[i].id) => tables[s.tables[i].id].revision < MaxRevision
  /\ pc' = "lookup" /\ seg' = s /\ next' = 1 /\ cur' = NoTable
  /\ UNCHANGED <<catalogVars, importVars, outside>>

Applying == seg.tables[next]

(* A lookup that goes on without keeping what Get returned.                *)
ApplyGetWithoutCopy ==
  /\ pc = "lookup" /\ next <= Len(seg.tables)
  /\ HasTable(Applying.id)
  /\ pc' = "replace"
  /\ UNCHANGED <<catalogVars, importVars, seg, next, cur, outside>>

(* applyTable on a known id: HasTable, then ApplyIncoming's Get.  One      *)
(* step, because tables are removed only by this feed's own Rollback: what *)
(* Get returns is what both calls would return at Get's time.              *)
ApplyGet ==
  /\ pc = "lookup" /\ next <= Len(seg.tables)
  /\ HasTable(Applying.id)
  /\ cur' = tables[Applying.id]
  /\ pc' = "replace"
  /\ UNCHANGED <<catalogVars, importVars, seg, next, outside>>

(* applyTable on an unknown id: HasTable said no, Register is next.        *)
ApplyMiss ==
  /\ pc = "lookup" /\ next <= Len(seg.tables)
  /\ ~HasTable(Applying.id)
  /\ pc' = "register"
  /\ UNCHANGED <<catalogVars, importVars, seg, next, cur, outside>>

(* A loop body that forgets to note the table in written.                  *)
TableAppliedUnnoted ==
  /\ next' = next + 1
  /\ pc' = "lookup" /\ cur' = NoTable
  /\ UNCHANGED <<baseline, segments, inflight, written, failed, seg>>

TableApplied ==
  /\ written' = written \cup {Applying.id}
  /\ next' = next + 1
  /\ pc' = "lookup" /\ cur' = NoTable
  /\ UNCHANGED <<baseline, segments, inflight, failed, seg>>

(* The first table that cannot be applied ends the request; the tables     *)
(* before it stay in the catalog and in written, the segment is dropped.   *)
ApplyFails ==
  /\ failed' = TRUE
  /\ FinishRequest
  /\ UNCHANGED <<catalogVars, baseline, segments, inflight, written>>

(* The table ApplyIncoming writes: the copy it read, with merged fields.   *)
Merged == WithSchema(cur, MergeFields(cur.fields, Applying.fields))

ApplyReplace ==
  /\ pc = "replace"
  /\ \/ Replace(Merged) /\ TableApplied
     \/ ~Replaceable(Merged) /\ ApplyFails
  /\ UNCHANGED outside

ApplyRegister ==
  /\ pc = "register"
  /\ \/ Register(Applying) /\ TableApplied
     \/ ~Registrable(Applying) /\ ApplyFails
  /\ UNCHANGED outside

(* Importer.Apply after its loop; a second in-flight segment takes the     *)
(* place of the first.                                                     *)
ApplyRecord ==
  /\ pc = "lookup" /\ next > Len(seg.tables)
  /\ \/ /\ seg.commit
        /\ segments' = Append(segments, seg)
        /\ UNCHANGED inflight
     \/ /\ ~seg.commit
        /\ inflight' = seg
        /\ UNCHANGED segments
  /\ FinishRequest
  /\ UNCHANGED <<catalogVars, baseline, written, failed, outside>>

(* Importer.Commit.                                                        *)
Commit ==
  /\ Idle
  /\ ~failed /\ inflight # NoSegment
  /\ Len(segments) < MaxSegments
  /\ segments' = Append(segments, [inflight EXCEPT !.commit = TRUE])
  /\ inflight' = NoSegment
  /\ UNCHANGED <<catalogVars, baseline, written, failed, requestVars, outside>>

TablesOf(s) == {s.tables[i].id : i \in DOMAIN s.tables}

CommittedTables == UNION {TablesOf(segments[i]) : i \in DOMAIN segments}

InflightTables == IF inflight = NoSegment THEN {} ELSE TablesOf(inflight)

(* A restore set without the segment in flight.                            *)
CommittedTablesOnly == CommittedTables

(* The ids whose baseline a rollback restores.                             *)
AllWrittenTables == CommittedTables \cup InflightTables

(* The part of the baseline that restoreFromBaseline hands to the catalog.  *)
RestoreSet ==
  [id \in TableId |-> IF id \in AllWrittenTables THEN baseline[id] ELSE NoTable]

(* Importer.Rollback, first catalog call.                                  *)
RollbackRestore ==
  /\ Idle
  /\ baseline # NoBaseline
  /\ RestoreTables(RestoreSet)
  /\ pc' = "drop"
  /\ UNCHANGED <<importVars, seg, next, cur, outside>>

(* Importer.reset.                                                         *)
Reset ==
  /\ baseline' = NoBaseline
  /\ segments' = <<>> /\ inflight' = NoSegment
  /\ written' = {} /\ failed' = FALSE

(* A rollback that drops what it did not restore.                          *)
RollbackDropUnrestored ==
  /\ pc = "drop"
  /\ DropNotIn(RestoreSet)
  /\ Reset
  /\ FinishRequest
  /\ outside' = {}

(* Importer.Rollback, second catalog call and reset.                       *)
RollbackDrop ==
  /\ pc = "drop"
  /\ DropNotIn(baseline)
  /\ Reset
  /\ FinishRequest
  /\ outside' = {}

ImportStep ==
  \/ Begin \/ Fail \/ Commit
  \/ \E s \in SegmentBodies : ApplyStart(s)
  \/ ApplyGet \/ ApplyMiss \/ ApplyReplace \/ ApplyRegister \/ ApplyRecord
  \/ RollbackRestore \/ RollbackDrop

ClientStep ==
  \/ \E t \in Posted : ClientRegister(t)
  \/ \E id \in TableId, fields \in PutFields : ClientApplySchema(id, fields)

Next == ImportStep \/ ClientStep

Spec == Init /\ [][Next]_vars

-----------------------------------------------------------------------------
(* What an import may and may not do.                                      *)

(* While a baseline is held, a table that differs from it was written by a *)
(* client since Begin or is in the importer's written set: nothing the     *)
(* import does to the catalog escapes its own bookkeeping.                 *)
ChangedIsWritten ==
  baseline # NoBaseline =>
    \A id \in TableId :
      tables[id] # baseline[id] => id \in written \cup outside

(* Ids the import wrote that no recorded segment names: those of a segment *)
(* that failed part-way and of an in-flight segment that was replaced.     *)
Unrecorded == written \ (CommittedTables \cup InflightTables)

(* Rollback undoes the import: when it completes, every table is as it was *)
(* at Begin, unless it existed then and a client wrote it since or it is   *)
(* Unrecorded; a table that did not exist at Begin is gone in every case.  *)
RollbackRepairs ==
  [][pc = "drop" /\ pc' = "idle" =>
       \A id \in TableId :
         baseline[id] = NoTable \/ id \notin outside \cup Unrecorded
           => tables'[id] = baseline[id]]_vars

(* No step of an import loses a table that was registered when it began:   *)
(* not a segment, not a second Begin, and neither of the two calls of its  *)
(* rollback, the one that drops tables included (ingest.go, Rollback;      *)
(* catalog.go, DropNotIn).                                                 *)
BaselineTablesKept ==
  [][baseline # NoBaseline =>
       \A id \in TableId : baseline[id] # NoTable => HasTable(id)']_vars

(* Segments were recorded without Begin: Begin answers "already in         *)
(* progress" and Rollback "no baseline captured".                          *)
Wedged == baseline = NoBaseline /\ (segments # <<>> \/ inflight # NoSegment)

(* No sequence of import requests leads out of that state again.           *)
WedgeIsForever == [][Wedged => Wedged']_vars

-----------------------------------------------------------------------------
(* Claims of the code's comments that its behaviour does not meet.         *)

(* ingest.go, Rollback: the catalog returns exactly to the pre-import      *)
(* baseline (claimed only of an import during which no client wrote).      *)
RollbackExact ==
  [][pc = "drop" /\ pc' = "idle" /\ outside = {} => tables' = baseline]_vars

(* merge.go, applyTable, and fields.go, MergeFields: locally owned columns *)
(* survive the import, that is, the write of an imported table keeps every *)
(* column there is.                                                        *)
ImportKeepsColumns ==
  [][(pc = "replace" \/ pc = "register") /\ pc' = "lookup" =>
       \A id \in TableId : HasTable(id) =>
         tables[id].fields \subseteq tables'[id].fields]_vars
=============================================================================
