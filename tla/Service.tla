------------------------------ MODULE Service ------------------------------
(***************************************************************************)
(* The service of cmd/catalogsvc as a whole: the requests that touch more  *)
(* than one component, and the life of the process.                        *)
(*                                                                         *)
(* The components share no lock, so a call that asks two of them leaves    *)
(* room between its sections for the others: calls[r] is where the call of *)
(* caller r stands.  A call of a single section is one action and needs no *)
(* caller; one that is refused, or only reads, changes nothing and is left *)
(* out.  The importer takes its steps as in Ingest.  Pushes are left to    *)
(* Publishing.                                                             *)
(*                                                                         *)
(* Of the lineage graph only the set of ids with a node is kept: no route  *)
(* of the service removes a node.                                          *)
(***************************************************************************)
EXTENDS Versions, FiniteSets

CONSTANTS
  Caller,        \* concurrent HTTP requests and library callers
  \* those of Ingest:
  Name, Column, NoId, NoTable, Posted, PutFields, SegmentBodies,
  NoSegment, NoBaseline, MaxSegments, MaxRevision

VARIABLES
  tables, byName,                                 \* catalog
  baseline, segments, inflight, written, failed,  \* importer
  pc, seg, next, cur, outside,                    \* its request in progress
  nodes,        \* Graph.nodes: the ids that have one
  calls,        \* the call of each caller
  process,      \* "serving", "draining", "overdue" (draining, and Shutdown's
                \*   three seconds are over) or "exited"
  imported,     \* history: tables that exist because a segment named them
  leftover      \* history: of a table that is gone, the versions it had when
                \*   it was dropped and the Drafts that had found it by then

Import == INSTANCE Ingest

ASSUME ServiceAssumption ==
  /\ NoId \notin TableId
  /\ NoTable \notin Import!Table
  /\ Posted \subseteq Import!Table
  /\ PutFields \subseteq SUBSET Column
  /\ SegmentBodies \subseteq Import!Segment
  /\ NoSegment \notin Import!Segment
  /\ NoBaseline \notin Import!TableMap
  /\ MaxSegments \in Nat
  /\ MaxRevision \in Nat
  /\ IsFiniteSet(Caller)

importVars == <<tables, byName, baseline, segments, inflight, written, failed,
                pc, seg, next, cur, outside>>
ownVars == <<nodes, calls, process, imported, leftover>>
vars == <<versionVars, importVars, ownVars>>

(* Where a call is between two sections, and what it carries along.        *)
Idle == [at |-> "idle"]
Call == {Idle}
  \cup [at : {"add node"}, id : TableId]
  \cup [at : {"append"}, id : TableId]
  \cup [at : {"build"}, id : TableId, number : Nat]

At(place, id) == \E r \in Caller : calls[r].at = place /\ calls[r].id = id

(* The Drafts of a table that have found it and not yet appended.          *)
Drafting(id) == {r \in Caller : calls[r].at = "append" /\ calls[r].id = id}

TypeOK ==
  /\ VersionsTypeOK
  /\ Import!TypeOK
  /\ nodes \subseteq TableId
  /\ calls \in [Caller -> Call]
  /\ process \in {"serving", "draining", "overdue", "exited"}
  /\ imported \subseteq TableId
  /\ leftover \in [TableId -> Nat]

Init ==
  /\ VersionsInit
  /\ Import!Init
  /\ nodes = {}
  /\ calls = [r \in Caller |-> Idle]
  /\ process = "serving"
  /\ imported = {}
  /\ leftover = [id \in TableId |-> 0]

(* Handlers run until the process exits: a connection that was accepted    *)
(* before Shutdown may still bring its request.                            *)
Up == process # "exited"

Goto(r, call) == calls' = [calls EXCEPT ![r] = call]

Free(r) == Up /\ calls[r] = Idle

-----------------------------------------------------------------------------
(* POST /api/tables: the catalog, then the graph, then the answer.         *)

(* A handler that asks for a node only for ids the catalog did not know.   *)
PostRegisterNewOnly(r, t) ==
  /\ Free(r)
  /\ Import!ClientRegister(t)
  /\ Goto(r, IF Import!HasTable(t.id) THEN Idle
             ELSE [at |-> "add node", id |-> t.id])
  /\ imported' = imported \ {t.id}
  /\ leftover' = [leftover EXCEPT ![t.id] = 0]
  /\ UNCHANGED <<versionVars, nodes, process>>

PostRegister(r, t) ==
  /\ Free(r)
  /\ Import!ClientRegister(t)
  /\ Goto(r, [at |-> "add node", id |-> t.id])
  /\ imported' = imported \ {t.id}
  /\ leftover' = [leftover EXCEPT ![t.id] = 0]
  /\ UNCHANGED <<versionVars, nodes, process>>

PostAddNode(r) ==
  /\ Up /\ calls[r].at = "add node"
  /\ nodes' = nodes \cup {calls[r].id}
  /\ Goto(r, Idle)
  /\ UNCHANGED <<versionVars, importVars, process, imported, leftover>>

(* POST /api/lineage/nodes: whether or not the catalog has the table.      *)
PostNode(id) ==
  /\ Up
  /\ nodes' = nodes \cup {id}
  /\ UNCHANGED <<versionVars, importVars, calls, process, imported, leftover>>

(* PUT /api/tables/{id}.                                                   *)
Put(id, fields) ==
  /\ Up
  /\ Import!ClientApplySchema(id, fields)
  /\ UNCHANGED <<versionVars, ownVars>>

-----------------------------------------------------------------------------
(* Meta.Draft: the catalog is asked before Meta.mu is taken.               *)

(* A Draft that does not ask.                                              *)
DraftUnasked(r, id) ==
  /\ Free(r)
  /\ Goto(r, [at |-> "append", id |-> id])
  /\ UNCHANGED <<versionVars, importVars, nodes, process, imported, leftover>>

DraftLookup(r, id) ==
  /\ Free(r)
  /\ Import!HasTable(id)
  /\ Goto(r, [at |-> "append", id |-> id])
  /\ UNCHANGED <<versionVars, importVars, nodes, process, imported, leftover>>

(* A Draft that is tried again after it has appended.                      *)
DraftAppendAgain(r) ==
  /\ Up /\ calls[r].at = "append"
  /\ Draft(calls[r].id)
  /\ UNCHANGED <<importVars, calls, nodes, process, imported, leftover>>

DraftAppend(r) ==
  /\ Up /\ calls[r].at = "append"
  /\ Draft(calls[r].id)
  /\ Goto(r, Idle)
  /\ UNCHANGED <<importVars, nodes, process, imported, leftover>>

(* Publish, Rollback, SwitchTo, Supersede.                                 *)
ChangeVersion(id) ==
  /\ Up
  /\ \/ RollBack(id) \/ Supersede(id)
     \/ \E n \in DOMAIN versions[id] : PublishDraft(id, n) \/ SwitchTo(id, n)
  /\ UNCHANGED <<importVars, ownVars>>

-----------------------------------------------------------------------------
(* GET /api/snapshots?table=id: Meta.Current, then SnapshotBuilder.Build.  *)

(* A Current that takes the latest version for the current one.            *)
LatestNumber(id, n) == Largest(DOMAIN versions[id], n)

(* Meta.Current.                                                           *)
Current(id, n) == n = current[id] /\ IsReadable(id, n)

SnapshotVersion(r, id, n) ==
  /\ Free(r)
  /\ Current(id, n)
  /\ Goto(r, [at |-> "build", id |-> id, number |-> n])
  /\ UNCHANGED <<versionVars, importVars, nodes, process, imported, leftover>>

(* The answer: the catalog's table with the number, or 404 when the table  *)
(* is gone.                                                                *)
SnapshotBuild(r) ==
  /\ Up /\ calls[r].at = "build"
  /\ Goto(r, Idle)
  /\ UNCHANGED <<versionVars, importVars, nodes, process, imported, leftover>>

-----------------------------------------------------------------------------
(* A step of the importer.  Its catalog calls bypass the graph.            *)
ImportStep ==
  /\ Up
  /\ Import!ImportStep
  /\ imported' = imported \cup
       {id \in TableId : tables[id] = NoTable /\ tables'[id] # NoTable}
  /\ leftover' = [id \in TableId |->
       CASE tables'[id] # NoTable -> 0
         [] tables[id] # NoTable /\ tables'[id] = NoTable ->
              Len(versions[id]) + Cardinality(Drafting(id))
         [] OTHER -> leftover[id]]
  /\ UNCHANGED <<versionVars, nodes, calls, process>>

-----------------------------------------------------------------------------
(* The process: main and Server.Shutdown.                                  *)

InFlight == pc # "idle" \/ \E r \in Caller : calls[r] # Idle

BecomeOf(state) ==
  /\ process' = state
  /\ UNCHANGED <<versionVars, importVars, nodes, calls, imported, leftover>>

(* ListenAndServe returned an error: log.Fatalf.                           *)
ListenerFails == process = "serving" /\ BecomeOf("exited")

Signal == process = "serving" /\ BecomeOf("draining")

(* The timer of Shutdown's context goes off.                               *)
TimeIsUp == process = "draining" /\ BecomeOf("overdue")

(* http.Server.Shutdown returns when no request is left.                   *)
Drained == process = "draining" /\ ~InFlight /\ BecomeOf("exited")

(* Shutdown with context.Background().                                     *)
ExitWhenDrained == Drained

(* Shutdown returns then, or when its context's time is up; main ends, and *)
(* with it every request that is left.                                     *)
Exit == Drained \/ (process = "overdue" /\ BecomeOf("exited"))

-----------------------------------------------------------------------------
CallStep(r) ==
  \/ \E t \in Posted : PostRegister(r, t)
  \/ PostAddNode(r)
  \/ \E id \in TableId : DraftLookup(r, id)
  \/ DraftAppend(r)
  \/ \E id \in TableId : \E n \in DOMAIN versions[id] : SnapshotVersion(r, id, n)
  \/ SnapshotBuild(r)

Next ==
  \/ \E r \in Caller : CallStep(r)
  \/ \E id \in TableId :
       PostNode(id) \/ ChangeVersion(id) \/ \E fields \in PutFields : Put(id, fields)
  \/ ImportStep
  \/ ListenerFails \/ Signal \/ TimeIsUp \/ Exit

(* Time passes, and main goes on once Shutdown has returned.  No step of a *)
(* request is fair: a handler may write to a slow client for longer than   *)
(* Shutdown waits.                                                         *)
Fairness == WF_process(TimeIsUp) /\ WF_process(Exit)

Spec == Init /\ [][Next]_vars /\ Fairness

-----------------------------------------------------------------------------
(* What the components may say of tables the others do not know.           *)

(* A table that a client created has a node in the lineage graph, or its   *)
(* POST has not been answered yet; only tables an import created may lack  *)
(* one (handlers.go, handleTables; merge.go, applyTable).                  *)
CreatedAreNodes ==
  \A id \in TableId :
    Import!HasTable(id) => id \in nodes \cup imported \/ At("add node", id)

(* Draft asks for the table in one section and appends in another, so a    *)
(* table may gain versions after a rollback dropped it - but no more than  *)
(* one from each Draft that had found it by then, whoever calls what       *)
(* afterwards; and a table that was never registered has none              *)
(* (versioner.go, Draft).                                                  *)
OrphansStopGrowing ==
  \A id \in TableId : ~Import!HasTable(id) =>
    Len(versions[id]) + Cardinality(Drafting(id)) <= leftover[id]

(* A snapshot is answered with a version that was released, whatever       *)
(* happens between the two reads: it may have been rolled back since, but  *)
(* never is it a draft or missing (handlers.go, handleSnapshots).          *)
SnapshotsAreReleased ==
  \A r \in Caller : calls[r].at = "build" =>
    /\ Exists(calls[r].id, calls[r].number)
    /\ versions[calls[r].id][calls[r].number] # "draft"

(* After a signal the process ends, even if a request never does: what     *)
(* Shutdown waits for is the requests or the timer (main.go, server.go).   *)
StopsOnSignal == process = "draining" ~> process = "exited"
=============================================================================
