# CatalogSvc in TLA+

This directory holds TLA+ models of CatalogSvc, a data-catalog service written in
Go: it registers tables, imports upstream metadata with rollback, keeps versions of
table schemas, records lineage between tables with a cycle check, walks that lineage
and notifies subscribers. The models are checked with TLC on small instances, and
the main results are proved with TLAPS for every value of the constants.

## 1. Inventory

`cmd/catalogsvc/server.go` builds one object of each component and wires them to
`net/http`, which runs every request on a goroutine of its own. The components share
no lock: each has its own mutex (or none), so whatever a request does with two calls
can be interleaved with other requests between them.

| component | state | operations that change it | lock |
|---|---|---|---|
| catalog store (`internal/catalog`) | `tables` by id, index `byName` | `Register`, `Replace`, `ApplySchemaAtomic`, `RestoreTables`, `DropNotIn`; `ApplyIncoming` is `Get` then `Replace` | `Catalog.mu` |
| importer (`internal/ingest`) | `baseline`, `segments`, `inflight`, `written`, `failed` | `Begin`, `Apply`, `Commit`, `Fail`, `Rollback` | none |
| lineage graph (`internal/lineage`) | `nodes`, `edges` by string key, indexes `out` and `in` | `AddNode`, `AddEdge`, `DeleteEdge`, `MarkUpdating`, `MarkActive`, `MarkRemoved` | `Graph.mu` |
| cycle search (`lineage/cycle.go`) | none (two local mark maps) | none: `HasCycle`, `WouldCreateCycle` | called under `Graph.mu` |
| lineage walk (`internal/walk`) | a cursor per request: `root`, `upstream`, `frontier`, `visited` | `newCursor`, `NextLevel` | takes `Graph.mu` once a level |
| versions (`internal/meta`) | `versions` and `current` by table | `Draft`, `Publish`, `Rollback`, `SwitchTo`, `Supersede` | `Meta.mu` |
| notifier (`internal/notify`) | `subscribers`, `attempts`, `lastErr` | `Subscribe`, `Unsubscribe`, `Push` (two tries per subscriber) | `Notifier.mu`, released during deliveries |
| read cache (`catalog/cache.go`, `internal/query`) | `entries` by table | `Get` (fills on a miss), `Put`, `Evict` | `Cache.mu`, released while loading |
| service (`cmd/catalogsvc`) | none but the components; the process serves, drains or is gone | the handlers; `Start`, `Shutdown` | none |

How they interact:

- `POST /api/tables` registers a table in the catalog and then a node in the graph;
  imports register and drop tables without telling the graph.
- `Meta.Draft` asks the catalog for the table, then takes `Meta.mu`;
  `GET /api/snapshots` asks the versions for a number, then the catalog for the table.
- `PUT /api/tables/{id}` replaces a table's fields; `GET` reads it through the cache.
- `POST /api/ingest/{begin,apply,commit,rollback}` drive the importer, which calls the
  catalog once or twice per table.
- `POST` and `DELETE /api/lineage/edges` change the graph and then push an event;
  `GET /api/lineage/{upstream,downstream}/{id}` walk it.
- `Meta.Publish` and `Meta.Rollback` change versions under `Meta.mu`, release it and
  push an event. These, `Draft`, `SwitchTo`, `Supersede`, `Importer.Fail`, the node
  life cycle (`MarkUpdating`, `MarkActive`, `MarkRemoved`) and `RefreshCache` are
  exported operations of their packages that tests call and no HTTP route does yet;
  they are modelled as calls any client may make.

What is hard here:

- *calls between which the lock is released*: `ApplyIncoming`, `applyTable`, the two
  catalog calls of a rollback, the levels of a walk, the lookup, load and store of a
  cache miss, the deliveries of a push, the two components a request asks in turn;
- *bookkeeping that must match what was done*: `written` and the recorded segments
  against the catalog, `byName` against `tables`, `out` and `in` against `edges`;
- *partial failure*: a segment that fails at its third table, a push in which one of
  several subscribers fails twice;
- *orders of legal calls*: an import without `Begin`, two in-flight segments, a
  rollback after a switch to an older version, an edge added again after a removal.

Nothing is persisted, so there is no crash recovery to model. The only timeout that
changes state is the three seconds that `Shutdown` waits for requests.

What makes each component correct:

- catalog: the name index and the table map describe the same tables;
- importer: whatever it changed it knows of, and a rollback takes back what it knows;
- graph: recorded edges run between live tables, form no cycle, and both indexes show
  exactly them; the check that `AddEdge` makes on the index decides the right question;
- search: finds a cycle if and only if there is one, never visits a table inside its own
  visit and looks at every target once;
- walk: each table once, nothing that lasted missed, nothing invented, an end;
- versions: the current version exists and is readable, nothing comes back;
- notifier: an event is delivered to everyone, or its caller learns that it was not;
- cache: an answer is something the catalog held when it should have;
- service: whatever one component knows of a table that another does not is explained
  by a call under way or by an import, and the process ends when it is told to.

## 2. Modules

| module | models | extends or uses |
|---|---|---|
| `Catalog` | the table store, one operator per critical section of `Catalog.mu` | |
| `Ingest` | the importer, cut at every catalog call, and clients that write meanwhile | `Catalog` |
| `Digraphs` | reference definitions: cycle, reachability, reversal | |
| `DependencyGraph` | abstract: an acyclic relation among tables with a life cycle | `Digraphs` |
| `Lineage` | the graph with its edge map and both indexes; implements `DependencyGraph` | `Digraphs` |
| `CycleSearch` | `HasCycle`, `visit`, `WouldCreateCycle`, one target a step | `Digraphs` |
| `Walk` | one walk over the changing graph, level by level and target by target | `Lineage` |
| `Versions` | the version state machine | |
| `Notifier` | pushes of several requests, cut where the lock is free | |
| `Publishing` | requests that change versions or edges and then push | `Versions`, `Notifier` |
| `ReadCache` | several cached reads over a changing catalog | `Catalog` |
| `Service` | the handlers that touch several components, and the life of the process | `Versions`, an instance of `Ingest` |
| `MC*` | instances for TLC | the module named |
| `IngestProofs`, `ReadCacheProofs`, `LineageProofs`, `VersionsProofs`, `CycleSearchProofs` | theorems | the module named |
| `WalkProofs` | theorems | `Walk`, `LineageProofs` |
| `PublishingProofs`, `ServiceProofs` | theorems | the module named, `VersionsProofs`; the latter an instance of `IngestProofs` |

Some modules hold, next to an operator, a faulty variant of it with a comment that
says what is wrong (`BeginUnguarded`, `DeleteEdgeOutOnly`, `LoadIgnoringError` ...).
Nothing uses them; put in the operator's place they make one property fail, and so
show that the property depends on that piece of the code. `PROJECT.json` lists the
pairs under `mutants`.

How state and actions correspond to the code:

- **Catalog.** `tables` and `byName` are the two Go maps as total functions with
  `NoTable` and `NoId` for "no entry". A field list is the set of its column names.
  `rebuildNames` ranges over a Go map, so among tables with one name any may win:
  `RebuiltNames` is the set of all outcomes.
- **Ingest.** `pc`, `seg`, `next`, `cur` are the point an `Apply` or `Rollback` request
  has reached. `HasTable` and the `Get` of `ApplyIncoming` are one action, since only
  this feed's own rollback removes tables; `HasTable` and `Register` are two. The
  importer has no lock, so two import requests at once are a data race on all its
  fields: the model has one feed that waits for each answer. `outside` remembers which
  tables clients wrote since `Begin`; the properties need it to say what a rollback
  answers for.
- **Lineage.** An index list is the number of times it holds an id. `removeValue`
  removes one occurrence, `MarkRemoved` deletes only the removed table's own lists.
  `KeyOf` is the string key of an edge as an arbitrary function of the two ids.
- **CycleSearch.** The recursion is a stack of frames, one for each `visit` under way,
  with the place it has reached in its list of targets; `visiting` and `visited` are the
  two maps of marks. A step comes to one key, one target or the end of a list. A cycle
  found ends all the calls at once, as the `return true` of each does. `Lineage` uses
  `Cyclic` where the code calls `HasCycle`; the run `cycle_search` and the theorems of
  `CycleSearchProofs` are what justifies that.
- **Walk.** A list is the number of times it holds each id, `result` and the lists of
  the graph included, so that a table returned twice shows. `NextLevel` reads the graph
  under its lock and lays out what `advance` will go through: every place of the target
  list of every table of the frontier. `Look` is one turn of `collectTargets`, with the
  test of `visited` and `seen`; `EndLevel` is the rest of `advance`, with `markSeen`.
  The graph may change between any two of these steps. Only the order of lists is left
  out. The history variables `level`, `always` and `ever` record what the properties
  look back on.
- **Versions.** A version's number is its place in the list; a schema is never changed
  and is left out. The exported operations are the actions, one critical section each.
- **Notifier, Publishing.** `push[r]` is the local state of one request's `Push`. A
  delivery succeeds or fails nondeterministically. The change of a version and the
  first step of the push are one action, because nothing that anyone else could see
  happens between them; copying the subscribers is a step of its own. The map
  `attempts` is overwritten by each delivery and only read by a getter; it is left out.
  The history `steady` and `told` is what a log of deliveries shows: who subscribed
  before anything was published and never left, and what became of each event there.
- **ReadCache.** `read[r]` is one reader's `GetTable`: lookup, load, store, answer. The
  catalog changes through a subset of `Ingest`'s client actions and the drop of a table.
- **Service.** `calls[r]` is a call that has finished its section in one component and
  not yet begun that in the next: a POST between catalog and graph, a `Draft` between
  catalog and versions, a snapshot between versions and catalog. Calls of one section
  are one action. The importer takes the steps of `Ingest`, of which `Service` holds an
  instance over its own variables. Only a set of ids is kept of the graph, since no
  route removes a node. `process` is the life of the program: `main` leaves its
  `select` when the listener fails (`log.Fatalf`) or a signal comes. `Shutdown` then
  drains; its context's timer is the action `TimeIsUp`, after which the process is
  `"overdue"`. `main` goes on (`Exit`) when no request is left or the process is
  overdue, and not before. The three seconds are no number: nothing else in the model
  takes time, so the timer may go off at any moment of the drain. `net/http` is
  external; handlers may run until the exit, which includes what connections accepted
  before `Shutdown` may still bring. `imported` and `leftover` are history: `leftover`
  is, for a table that is gone, how many versions it had when it was dropped and how
  many Drafts had found it by then; it starts again when the table does.

## 3. Runs

All bounds are constants of the configurations. State counts are distinct states.

| run | what it checks | instance |
|---|---|---|
| `ingest_fixed` | types; `IndexExact`; `BaselineTablesKept` | 3 tables, 2 names, each id always under one name, two ids competing for one; 306,903 states |
| `ingest_renames` | `IndexNeverDangles`, `ChangedIsWritten`, `RollbackRepairs`, `WedgeIsForever` | 2 tables, ids registered again under other names; a segment that fails half-way; 217,332 states |
| `lineage` | `EdgesOnlyLive`, `IndexesAgree`, `CycleCheckExact`, `EdgesAcyclic`; `KeepsPromise`, the refinement of `DependencyGraph` | 3 tables; an id at most twice in a list; 5,424 states |
| `cycle_search` | `SearchExact`, `ForecastExact`, `NeverReentered`, `LookedAtOnce` | every adjacency map of 3 tables with lists of up to 2 targets, every edge asked about; 119,291 states |
| `walk` | `ReturnedOnce`, `FindsWhatLasted`, `NearestFirst`, `WalksEnd`; `IndexAcyclic` | 3 tables, two arcs that may come or go during a walk, two edges that share a key, lists with a table up to twice; 203,427 states |
| `service` | `CurrentReadable`, `NoWayBack`, `CreatedAreNodes`, `OrphansStopGrowing`, `SnapshotsAreReleased`, `StopsOnSignal` | 2 callers, 1 table with 2 versions, a feed with one segment; 720,808 states |
| `publishing` | `NothingDroppedSilently`, `EventsPushedOnce`, `SteadyKnowsAll`, `RequestsEnd` | 2 requests, 2 subscribers, 1 table, 1 version; 365,904 states |
| `cache` | `MissesAreCurrent`, `QuietRefreshHolds` | 2 readers, 1 table, 3 revisions; 226,226 states up to the symmetry of the readers |
| `rollback_exact` | `RollbackExact`: **violated** | 2 tables, no client writes after `Begin` |
| `import_columns` | `ImportKeepsColumns`: **violated** | 3 tables |
| `removed_forgotten` | `RemovedForgotten`: **violated** | 3 tables |
| `cache_current` | `GetsTheCurrent`: **violated** | as `cache` |

Why these bounds are enough to meet the interesting cases:

- three tables give chains, diamonds without their tip, two-step cycles and self-loops;
  two arcs of churn let a walk meet an arc that is gone and one that is new at the next
  level, and `WalkProofs` shows the safety properties for any amount of it;
- a level that comes upon a table twice needs a diamond, which takes four tables, or a
  list that names a table twice, which the shared key of `walk` gives with three
  (`MaxCopies = 2`): there the test of `seen` decides, and without it `ReturnedOnce`
  fails. Four tables with churn are out of TLC's reach; `WalkReturnsOnce` covers them;
- `MaxUpdating = 0` keeps tables under update out of `walk`: an updating table takes
  edges as an active one does, so the indexes, which are all a walk reads, go through
  the same values;
- in `walk` the edge n2 to n1 has the key of n1 to n2, the worst of the collisions that
  ids with the separator allow: the second overwrites the first unchecked;
- `MaxCopies = 2` lets a stale index entry and a new one coexist, which happens when a
  neighbour of a removed table is considered; no reachable state needs more;
- two committed segments, one in flight and three revisions suffice for a segment to
  overwrite what an earlier one wrote and for a client to write in between;
- two versions allow a rollback to find none, a readable or a rolled-back one below,
  and a switch to the older; no operation touches two tables' versions, so one table
  does, and two callers are the shortest way for one call to come between the sections
  of another, next to the feed and to calls of a single section;
- two readers are one load half done and one that overtakes it.

Deadlock is checked except in `service`, whose process exits.

### What the violated runs show

Each quotes a comment of the code; `PROJECT.json` has the quotations under `findings`.

- `rollback_exact`: a rollback restores the tables of *recorded* segments. A segment
  that fails part-way is recorded nowhere, and a second in-flight segment replaces the
  first; what they changed survives the rollback. `RollbackRepairs` is the property
  that does hold, and is proved; so is that these two are the only ways
  (`RollbackExactForOrderlyFeeds`).
- `import_columns`: columns that a client adds between two catalog calls of an import
  are overwritten. Without such a client none is lost (`ColumnsKeptUndisturbed`, proved).
- `removed_forgotten`: a removed table stays in the index lists of its neighbours, so
  lookups and walks still name it. The cycle check is not misled by that:
  `CycleCheckExact` holds and is proved.
- `cache_current`: nothing evicts an entry when the catalog changes, so a table read
  once is answered unchanged, even after it was dropped.

### Noticed while modelling, without a run

These differ from a comment too, but have no run here; the models keep the behaviour
of the code.

- `Begin` after a segment that failed with nothing recorded takes the half-imported
  catalog as its baseline (`ingest.go:47`, against `:96`).
- A table registered again under another name keeps its old name's index entry
  (`catalog.go:43`); after a rollback, whose `RestoreTables` checks no names, two
  tables can end up with one name.
- Ids may contain `|`, the separator of `LineageEdge.Key`: two edges may share a key,
  and the second overwrites the first without a cycle check (`lineage.go:58`).
- `walk.DepthOf` answers 1 for every visited table but the root; `Cursor.Stale` does
  not notice a change that was undone; "upstream" and "depends on" are used in opposite
  directions in `walk.go:16` and `lineage.go:111`.
- `Supersede` marks newer published versions as well after a switch to an older one,
  and a superseded version can be rolled back, which `StateTransitionAllowed` forbids;
  `NoWayBack` shows that this is the only transition against it.
- `AddNode` on a node that was removed or is updating leaves it so, though its comment
  speaks of an active node (`nodes.go:13`); a table that an import creates gets no node.
- `SnapshotBuilder.Build` has its version "at delivery time" (`snapshot.go:21`) from a
  read before the table's, so the version may have been rolled back meanwhile; `BuildAll`
  puts the table's revision in the place of a version.
- Versions outlive their table: after a rollback drops it and a client registers the id
  again, snapshots name the old versions and the next draft continues their numbers.
- A subscriber may get the rollback of a version before its publication
  (`versioner.go:52`).
- `Server.Start` logs its address and then listens on the default one (`server.go:57`).
- `Publish` clones the version it returns after the push and without the lock, so it
  may return one that was rolled back meanwhile (`versioner.go:56`).
- `handleEdges` discards the error of `Push`; `Attempts` tells the attempts for the
  last subscriber only.
- A load that was under way during `RefreshCache` puts the older table back
  (`cache.go:50`); `QuietRefreshHolds` is what does hold.

## 4. Fairness

Safety properties assume none. The liveness properties assume weak fairness of the
steps of one actor and nothing of its environment:

- `WalksEnd`: weak fairness of `WalkStep`, that is, the walk's goroutine is
  scheduled and gets the read lock in the end, as Go's scheduler and `sync.RWMutex` see
  to. The graph may change for ever.
- `RequestsEnd`: weak fairness of each request's push steps: its goroutine goes on and
  `Deliver` returns, with or without an error. A subscriber whose `Deliver` never
  returns does hold a request up: the code has no timeout, and the model assumes none.
- `StopsOnSignal`: weak fairness of `TimeIsUp`, that is, time passes and the timer that
  `Shutdown` set goes off, and of `Exit`, that is, `main` goes on when `Shutdown` has
  returned. No request is assumed to finish: one that writes to a slow client may take
  ten seconds (`server.go:51`), one that pushes may hang. So it is the timer that the
  property rests on: when `Shutdown` waits for the requests alone (`ExitWhenDrained`),
  a request that hangs keeps the process for ever.

## 5. Proofs

Every theorem holds for all sets of tables, names, columns, segments, subscribers and
requests. The assumptions are those stated in the modules (`CatalogAssumption`,
`IngestAssumption`, `LineageAssumption`, `VersionsAssumption`, `NotifierAssumption`,
`PublishingAssumption`, `ServiceAssumption`, `CycleSearchAssumption`,
`WalkAssumption`, `ReadCacheAssumption`): markers such as `NoTable` are
not values of the type they mark, inputs are well typed, `Node`, `Id` and `Caller` are
finite.

**IngestProofs.** Types (`TypeCorrect`), `IndexSafe`, `BaselineSafe`,
`BookkeepingComplete`, `RollbackCorrect`, `WedgePermanent`, and
`IndexExactForFixedNames`. `BaselineSafe` is a statement about steps, so that it covers
the drop of a rollback, which clears the baseline in the same step; it rests on the
invariant `BaselineThere`. `ChangedIsWritten` is inductive with the types: every action
that writes the catalog either adds the id to `written` or is a client's. For
`RollbackRepairs` one must know what the first catalog call of a rollback has achieved
while the second is still to come, and that clients cannot undo it unnoticed: that is
`Restored`, and `RollbackInv` is the inductive invariant. `IndexExact` is false when ids
change names, so the theorem assumes `NamesFixedAs(own)`: clients and segments give each
id one name. The invariant then carries that fact through the baseline, the segment in
progress and the copy that `ApplyIncoming` holds.

Two theorems say under what the comments hold that the runs refute, which is also how
much the code lacks. `RollbackExactForOrderlyFeeds`: if the feed commits the segment in
flight before it sends another uncommitted one, and a segment fails only with its first
table, a rollback is exact unless clients wrote since `Begin`. The invariant `Accounted`
says where the id of every written table is kept: in a committed segment, in the one in
flight or in the part of the current one that is applied. Dropping either condition lets
TLC violate `RollbackExact` at once. `ColumnsKeptUndisturbed`: if no client writes while
an `Apply` is under way, no import loses a column; `LookupHolds` says that what the
lookup found is still so when the write comes. Both specifications restrict `Next` by a
condition on the step and keep every action possible.

**LineageProofs.** Types hold unconditionally. `LiveEdgesOnly`, `IndexesMirrorEdges`,
`CycleCheckCorrect`, `NoCycles` and `PromiseKept` assume `KeysDistinct`.
`NoIndexCycles` does not: every arc of the indexes was checked when it was appended,
and nothing but an append adds one. The inductive
invariant `LineageInv` strengthens `IndexesAgree` by `HomeKeys` (each edge is stored
under its own key) and `NoneToAbsent` (no index names a table that was never
registered, else registering it would make a stale entry count). The heart is a fact
about graphs, `DeadEndsHarmless`: arcs to vertices without successors close no cycle,
which is why stale entries for removed tables do not mislead the check. `PromiseKept`
is the refinement: initial states map to initial states and every action to an action
of `DependencyGraph` or a stutter.

**WalkProofs.** `WalkInv` says of a walk in progress that whatever it visited is
reachable along arcs the graph had at some time (`AllReached`), that every successor,
along arcs that lasted, of a table behind the frontier was visited (`NothingBehind`),
and inside a level that every such successor of the frontier is visited, found or still
to be looked at (`NothingMissed`). That no table is returned twice needs the lists to be
counted at three places: what a level has found it holds once, has `seen` and has not
visited (`FoundOnce`), the frontier holds every table once (`FrontierOnce`), and the
result holds what was visited once and the root not at all (`ResultIsVisited`).
`WalkReturnsOnce` and `WalkFindsWhatLasted` follow; the graph is any, its lists may hold
a table any number of times, and it changes as it likes between any two looks.
`NearestFirst` is inductive with `NothingBehind`: on a graph that did not change, the
tables within `k + 1` arcs are those within `k` and what an arc from there leads to
(`WithinStep`, shown on paths), and what leads there from behind the frontier was
visited. `LevelCounted` (no more levels than visited tables, and fewer while there is a
frontier) shows that the bound on `level` is never met and gives `WalkLevelsCount`: a
walk takes at most as many levels as there are tables, and inside a level every look
leaves one place fewer, which is `WalksEnd` up to fairness. `WalksLeaveGraph` says that
a walk implements the `Spec` of `Lineage`, so all theorems about the graph hold while it
is walked; `WalksSeeNoCycle` is one of them.

**CycleSearchProofs.** `HasCycleCorrect` and `WouldCreateCycleCorrect` hold for every
finite set of ids and lists of any length. The invariant `SearchInv` is that of
a depth-first search: the tables marked as being visited are those on the stack, each
once and each called from a target of the one below (`MarksAreStack`, `CalledFrom`); what
was marked as visited has all its targets visited and no cycle (`VisitedClosed`,
`VisitedAcyclic`); and whatever a frame has looked at is visited or is the frame above.
So a target that is being visited closes a cycle along the stack, and a search that has
come to its end has visited every key. `NoReentry` and `RecursionBounded` bound the
recursion by the number of tables. `SearchLinear` bounds the work: a place in a list
that was looked at belongs to a visited table or lies behind its frame's place
(`LookedBehind`).

**VersionsProofs.** `CurrentReadable` is inductive together with the types: no
operation changes the state of the current version into an unreadable one without
choosing another current version. `NeverBack` follows from a lemma per operation that
it moves a list of versions `Onward`, each version by an allowed transition.

**PublishingProofs.** `PublishingInv` adds two things to that invariant. `Accounted`
says of every push that each subscriber it copied is still to come, being served,
reached or missed, and that an error is kept if and only if one was missed; with it
`NothingDropped` is immediate. `Spent` ties an event to its version: while a
publication is pushed its version is no draft, while a rollback is pushed its version
is rolled back. Because versions move only onward, no second request can start to push
the same event: `PushedOnce`. `SteadyKnow` needs `TellInv`, which says of each push and
each steady subscriber whether it is still ahead of the push or has been told: at the
end of the push none is ahead, and an event has only one push.
`PublishingIsVersions` is the refinement to `VersionsSpec`; with it `CurrentReadable` and
`NoWayBack` hold while requests overlap. `PushesWindDown` is `RequestsEnd` up to fairness:
`StepsLeft` counts three steps for a subscriber still to come, every step of a push lowers
it, and nobody else's step changes it. It assumes that there are finitely many subscribers.

**ReadCacheProofs.** `CacheInv` adds to the types that a read which has loaded a table
knows it among those the catalog held while the read ran (`ReadKnows`), and that after a
refresh that met no load half done neither the cache nor a read that began later has
what was out of date (`QuietIsFresh`).

**ServiceProofs.** Every step of the service is a step of `Versions` or leaves the
versions alone, and the same for the importer with its catalog: `ServiceComposes`. So
the theorems of those modules hold in the service as well. The lemmas about `Ingest` are
used through an instance of `IngestProofs`; that its definitions are those of the
instance `Service` holds is shown one by one. What the components say of each other's
tables, `NodesFollow` and `OrphansBounded`, is inductive because a call between two
components is part of what the properties say: a `Draft` that has found its table is
counted until it appends, so its one version is paid for when the table is dropped.
`SnapshotsReleased` rests on the versions moving only onward while the snapshot is
built.

Only model-checked: the liveness properties `WalksEnd`, `RequestsEnd` and
`StopsOnSignal`, since fairness and `ENABLED` are out of the prover's reach - for the first
two the measure that falls is proved; and, as they are false, the violated claims. Every
other property of a run is stated by a theorem.

## 6. Not modelled

Routing and JSON, the static page, the vendored hash; the query helpers over field
lists, which are pure and covered by unit tests; the version queries of the query service
and of `Meta`, which only read; the fingerprints, which no request reads; the list of
`LogSubscriber` as a list (see `told`) and `Replay`, which only a test calls; the snapshot
of all tables; `Cache.Put`, which only a test calls; connections, which are `net/http`'s;
two import requests at the same time, a data race on every field of the importer whose
outcomes Go leaves open; the body of `Publish`'s answer, read without the lock. Edges
that are kept while their tables are dropped by a rollback are in no property: graph and
catalog are nowhere compared by the code.

## 7. Plan

Done, in this order: the catalog and its importer with their proofs; the graph, its
abstract specification and the refinement proof; the cycle search; the walk; the
versions and their proofs; the notifier and its composition with the versions, with
proofs; the read cache; the proofs about the walk and the cache; what a steady
subscriber knows, with its proof; the service as the composition of catalog, importer,
versions and nodes, with proofs; the proof of the cycle search; distance in walks; the
conditions under which the comments about imports hold.

To do:

1. An abstract specification of the importer, a catalog with one snapshot and its
   undo, and the refinement under the conditions of `RollbackExactForOrderlyFeeds`.
2. The graph's own index as the map the search is asked about, to join `CycleSearch` and
   `Lineage` more closely than by their common definition.
3. The counterpart of `cache_current`: what callers of the cache would have to do for
   `GetsTheCurrent` to hold.
