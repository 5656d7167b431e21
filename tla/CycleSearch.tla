----------------------------- MODULE CycleSearch ---------------------------
(***************************************************************************)
(* The depth-first search of internal/lineage/cycle.go that AddEdge        *)
(* decides with, step by step, against the meaning of a cycle in Digraphs. *)
(* Lineage uses Cyclic where the code calls HasCycle or WouldCreateCycle;  *)
(* here such a call is run on any adjacency map.                           *)
(*                                                                         *)
(* The calls of visit that are under way are a stack of frames; a step     *)
(* looks at one key or one target.  The maps a call makes are its own, so  *)
(* nothing else can interfere with it.                                     *)
(***************************************************************************)
EXTENDS Digraphs, Integers, Sequences, FiniteSets

CONSTANTS
  Id,         \* table ids; ids compare as numbers as they do as strings
  NoArc,      \* no edge is asked about
  MaxTargets  \* bound: length of a list of targets

ASSUME CycleSearchAssumption ==
  /\ Id \subseteq Int
  /\ IsFiniteSet(Id)
  /\ NoArc \notin Id \X Id
  /\ MaxTargets \in Nat

VARIABLES
  adj,        \* the adjacency map: a list of targets for each of its keys
  arc,        \* the edge WouldCreateCycle is asked about, NoArc for HasCycle
  verdict,    \* whether a call is under way, and what it returns
  todo,       \* the keys HasCycle's loop has not come to
  stack,      \* the calls of visit under way, the innermost last
  visiting,   \* visiting, the ids whose value is true
  visited,    \* visited, likewise
  looked      \* history: the targets looked at, by id and place in the list

argVars == <<adj, arc>>
searchVars == <<adj, arc, verdict, todo, stack, visiting, visited, looked>>

TargetLists == UNION {[1 .. n -> Id] : n \in 0 .. MaxTargets}

Adjacencies == UNION {[keys -> TargetLists] : keys \in SUBSET Id}

(* A nil list for a table that is not a key.                               *)
TargetsOf(a, id) == IF id \in DOMAIN a THEN a[id] ELSE <<>>

ArcsOf(a) == {p \in Id \X Id : \E i \in DOMAIN TargetsOf(a, p[1]) : TargetsOf(a, p[1])[i] = p[2]}

(* A copy whose list is replaced by the edge.                              *)
WithArcAlone(a, from, to) ==
  [id \in DOMAIN a \cup {from} |-> IF id = from THEN <<to>> ELSE a[id]]

(* WouldCreateCycle: the copy with the edge appended.                      *)
WithArc(a, from, to) ==
  [id \in DOMAIN a \cup {from} |->
     IF id = from THEN Append(TargetsOf(a, from), to) ELSE a[id]]

(* The map HasCycle is called with.                                        *)
MapFor(a, q) == IF q = NoArc THEN a ELSE WithArc(a, q[1], q[2])

Searched == MapFor(adj, arc)

Targets(id) == TargetsOf(Searched, id)

(* A call of visit: the table, and the place of the next of its targets.   *)
Frame == [id : Id, at : Nat \ {0}]

SearchTypeOK ==
  /\ adj \in Adjacencies
  /\ arc \in (Id \X Id) \cup {NoArc}
  /\ verdict \in {"none", "searching", "cycle", "acyclic"}
  /\ todo \subseteq Id
  /\ stack \in Seq(Frame)
  /\ visiting \subseteq Id
  /\ visited \subseteq Id
  /\ looked \subseteq Id \X Nat

EmptyMap == [id \in {} |-> <<>>]

(* No call is under way.                                                   *)
NoCall ==
  /\ adj = EmptyMap /\ arc = NoArc
  /\ verdict = "none"
  /\ todo = {} /\ stack = <<>>
  /\ visiting = {} /\ visited = {}
  /\ looked = {}

-----------------------------------------------------------------------------
Searching == verdict = "searching"

(* HasCycle(a), or WouldCreateCycle(a, q[1], q[2]), up to the loop.        *)
Ask ==
  /\ verdict = "none"
  /\ \E a \in Adjacencies, q \in (Id \X Id) \cup {NoArc} :
       adj' = a /\ arc' = q /\ todo' = DOMAIN MapFor(a, q)
  /\ verdict' = "searching"
  /\ UNCHANGED <<stack, visiting, visited, looked>>

(* A visit that only asks whether the search came back from the table.     *)
VisitUnguarded(id, callers) ==
  /\ IF id \in visited
     THEN stack' = callers /\ UNCHANGED visiting
     ELSE stack' = Append(callers, [id |-> id, at |-> 1]) /\ visiting' = visiting \cup {id}
  /\ UNCHANGED <<verdict, visited>>

(* A call of visit up to its loop, from the calls under way.  A table that *)
(* is being visited ends them all.                                         *)
Visit(id, callers) ==
  \/ /\ id \in visiting
     /\ verdict' = "cycle"
     /\ stack' = <<>>
     /\ UNCHANGED <<visiting, visited>>
  \/ /\ id \in visited \ visiting
     /\ stack' = callers
     /\ UNCHANGED <<verdict, visiting, visited>>
  \/ /\ id \notin visiting \cup visited
     /\ stack' = Append(callers, [id |-> id, at |-> 1])
     /\ visiting' = visiting \cup {id}
     /\ UNCHANGED <<verdict, visited>>

(* The next key in HasCycle's loop, in the order of sortStrings.           *)
NextKey ==
  /\ Searching /\ stack = <<>>
  /\ \E id \in todo :
       /\ \A other \in todo : id <= other
       /\ todo' = todo \ {id}
       /\ \/ id \in visited /\ UNCHANGED <<verdict, stack, visiting, visited>>
          \/ id \notin visited /\ Visit(id, <<>>)
  /\ UNCHANGED <<argVars, looked>>

Top == stack[Len(stack)]

(* The calls under way once the innermost has gone on to its next target.  *)
Advanced == [stack EXCEPT ![Len(stack)] = [id |-> Top.id, at |-> Top.at + 1]]

(* The next target in the innermost visit's loop.                          *)
NextTarget ==
  /\ Searching /\ stack # <<>>
  /\ Top.at <= Len(Targets(Top.id))
  /\ Visit(Targets(Top.id)[Top.at], Advanced)
  /\ looked' = looked \cup {<<Top.id, Top.at>>}
  /\ UNCHANGED <<argVars, todo>>

(* A visit that ends without a mark.                                       *)
UnmarkedVisit(id) == visiting' = visiting \ {id} /\ UNCHANGED visited

(* A visit that never takes its first mark back.                           *)
MarkKept(id) == visited' = visited \cup {id} /\ UNCHANGED visiting

(* The marks a visit leaves that found no cycle.                           *)
MarkVisited(id) ==
  /\ visiting' = visiting \ {id}
  /\ visited' = visited \cup {id}

(* The innermost visit returns to its caller.                              *)
EndVisit ==
  /\ Searching /\ stack # <<>>
  /\ Top.at > Len(Targets(Top.id))
  /\ stack' = SubSeq(stack, 1, Len(stack) - 1)
  /\ MarkVisited(Top.id)
  /\ UNCHANGED <<argVars, verdict, todo, looked>>

(* HasCycle's loop is through.                                             *)
EndKeys ==
  /\ Searching /\ stack = <<>> /\ todo = {}
  /\ verdict' = "acyclic"
  /\ UNCHANGED <<argVars, todo, stack, visiting, visited, looked>>

(* The caller has the verdict; the maps of the call are gone.              *)
Return ==
  /\ verdict \in {"cycle", "acyclic"}
  /\ adj' = EmptyMap /\ arc' = NoArc
  /\ verdict' = "none"
  /\ todo' = {} /\ stack' = <<>>
  /\ visiting' = {} /\ visited' = {}
  /\ looked' = {}

SearchNext ==
  Ask \/ NextKey \/ NextTarget \/ EndVisit \/ EndKeys \/ Return

SearchSpec == NoCall /\ [][SearchNext]_searchVars

-----------------------------------------------------------------------------
Answered == verdict \in {"cycle", "acyclic"}

(* HasCycle finds a cycle exactly where there is one: through tables that  *)
(* are only targets, through repeated targets, from every start.           *)
SearchExact ==
  Answered /\ arc = NoArc => (verdict = "cycle" <=> Cyclic(ArcsOf(adj)))

(* WouldCreateCycle answers whether the graph would be cyclic with the     *)
(* edge - of one that is cyclic already too.                               *)
ForecastExact ==
  Answered /\ arc # NoArc => (verdict = "cycle" <=> Cyclic(ArcsOf(adj) \cup {arc}))

(* No table is visited again while it is being visited: a cycle is noticed *)
(* before it is gone round a second time, ...                              *)
NeverReentered ==
  \A i, j \in DOMAIN stack : stack[i].id = stack[j].id => i = j

(* ... so the recursion is never deeper than there are tables.             *)
DepthBounded == Len(stack) <= Cardinality(Id)

(* Every target of every list is looked at no more than once, so AddEdge   *)
(* holds the graph's lock for a time linear in the size of the graph, and  *)
(* the search ends: diamonds are not gone through once for each path.      *)
LookedAtOnce ==
  [][NextTarget => <<Top.id, Top.at>> \notin looked]_searchVars
=============================================================================
