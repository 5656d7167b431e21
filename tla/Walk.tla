-------------------------------- MODULE Walk -------------------------------
(***************************************************************************)
(* A walk of internal/walk over the live lineage graph: one upstream or    *)
(* downstream request drains a cursor level by level while other requests  *)
(* change the graph between the levels.                                    *)
(*                                                                         *)
(* NextLevel takes the graph's lock once, in Adjacency, and advance then   *)
(* looks at the targets of the frontier one by one while the graph goes on *)
(* changing.  The adjacency read when the cursor is created is replaced    *)
(* before it is used and is left out, and so is the fingerprint, which     *)
(* only Stale reads and no request calls.                                  *)
(*                                                                         *)
(* A list of ids is the number of times it holds each of them, as the      *)
(* lists of the indexes are: what a list holds twice is walked twice.  Its *)
(* order is left out, and with it the order in which advance goes through  *)
(* the lists.                                                              *)
(***************************************************************************)
EXTENDS Lineage, Integers

CONSTANTS
  NoRoot,     \* no walk is going on
  MaxChurn,   \* bound: arcs that come or go during one walk
  MaxUpdating \* bound: tables being updated at one time, which walks cannot see

ASSUME WalkAssumption == NoRoot \notin Node /\ {MaxChurn, MaxUpdating} \subseteq Nat

VARIABLES
  root,       \* Cursor.root, NoRoot between requests
  upstream,   \* Cursor.upstream
  frontier,   \* Cursor.frontier, a list
  visited,    \* Cursor.visited
  advancing,  \* NextLevel is inside advance
  pending,    \* advance: pending[<<f, t>>] times t is still to be looked at
              \*   in the target list of f, for every time f is in frontier
  seen,       \* advance: seen
  next,       \* advance: next, a list
  result,     \* drain: result, a list
  \* what the properties look back on
  level,      \* levels taken so far, at most Cardinality(Node)
  always,     \* the arcs the graph had all the time since the cursor's start
  ever        \* the arcs it had at some time since then

cursorVars == <<root, upstream, frontier, visited>>
advanceVars == <<advancing, pending, seen, next>>
historyVars == <<level, always, ever>>
walkVars == <<nodes, edges, out, in, answer, cursorVars, advanceVars, result,
              historyVars>>

Empty == [n \in Node |-> 0]
NothingPending == [p \in Pair |-> 0]

Members(list) == {n \in Node : list[n] > 0}

Appended(list, more) == [n \in Node |-> list[n] + more[n]]

WalkTypeOK ==
  /\ root \in Node \cup {NoRoot}
  /\ upstream \in BOOLEAN
  /\ frontier \in [Node -> Nat] /\ next \in [Node -> Nat] /\ result \in [Node -> Nat]
  /\ pending \in [Pair -> Nat]
  /\ advancing \in BOOLEAN
  /\ Members(frontier) \subseteq visited
  /\ visited \subseteq Node /\ seen \subseteq Node
  /\ level \in 0 .. Cardinality(Node)
  /\ always \subseteq Pair /\ ever \subseteq Pair

Walking == root # NoRoot

WalkInit ==
  /\ Init
  /\ root = NoRoot /\ upstream = FALSE
  /\ frontier = Empty /\ visited = {}
  /\ advancing = FALSE /\ pending = NothingPending /\ seen = {} /\ next = Empty
  /\ result = Empty /\ level = 0
  /\ always = {} /\ ever = {}

(* The arcs in the direction of the walk: ReverseEdges for upstream.       *)
Directed(arcs) == IF upstream THEN Reversed(arcs) ELSE arcs

(* How often the target list of p[1] holds p[2].                           *)
Listed(p) == IF upstream THEN out[<<p[2], p[1]>>] ELSE out[p]

(* A walk that stops one table early.                                      *)
DoneEarly == Cardinality(Members(frontier)) <= 1

(* A walk that ends only when it has seen every table there is.            *)
DoneAllSeen == visited = Node

Done == Members(frontier) = {}

-----------------------------------------------------------------------------
(* newCursor, and drain's empty result; any id may be asked for,           *)
(* registered or not.                                                      *)
Start(id, up) ==
  /\ ~Walking
  /\ root' = id /\ upstream' = up
  /\ frontier' = AddValue(Empty, id)
  /\ visited' = {id}
  /\ always' = Arcs(out) /\ ever' = Arcs(out)
  /\ UNCHANGED <<nodes, edges, out, in, answer, advanceVars, result, level>>

(* NextLevel: Adjacency, and what advance will go through.                 *)
NextLevel ==
  /\ Walking /\ ~advancing /\ ~Done
  /\ advancing' = TRUE
  /\ pending' = [p \in Pair |-> frontier[p[1]] * Listed(p)]
  /\ UNCHANGED <<nodes, edges, out, in, answer, cursorVars, seen, next, result,
                 historyVars>>

(* A test that misses what the level itself has found.                     *)
FreshBefore(t) == t \notin visited

Fresh(t) == t \notin visited \cup seen

(* What is collected from one table taken for all that was.                *)
CollectAlone(t) ==
  /\ seen' = seen \cup {t}
  /\ next' = AddValue(Empty, t)

Collect(t) ==
  /\ seen' = seen \cup {t}
  /\ next' = AddValue(next, t)

(* collectTargets: one target of one table of the frontier.                *)
Look(f, t) ==
  /\ advancing /\ pending[<<f, t>>] > 0
  /\ pending' = RemoveValue(pending, <<f, t>>)
  /\ \/ Fresh(t) /\ Collect(t)
     \/ ~Fresh(t) /\ UNCHANGED <<seen, next>>
  /\ UNCHANGED <<nodes, edges, out, in, answer, cursorVars, advancing, result,
                 historyVars>>

(* Cursors that do not mark what they found as visited.                    *)
MarkNone(found) == UNCHANGED visited

(* markSeen on everything advance found.                                   *)
MarkFound(found) == visited' = visited \cup found

(* advance returns: what it found is the next frontier, visited, and       *)
(* appended to the result.                                                 *)
EndLevel ==
  /\ advancing /\ pending = NothingPending
  /\ frontier' = next
  /\ MarkFound(Members(next))
  /\ result' = Appended(result, next)
  /\ advancing' = FALSE /\ seen' = {} /\ next' = Empty
  /\ level' = IF level = Cardinality(Node) THEN level ELSE level + 1
  /\ UNCHANGED <<nodes, edges, out, in, answer, root, upstream, pending, always, ever>>

(* drain returns; the next request starts with a new cursor.               *)
Return ==
  /\ Walking /\ ~advancing /\ Done
  /\ root' = NoRoot /\ upstream' = FALSE
  /\ frontier' = Empty /\ visited' = {}
  /\ result' = Empty /\ level' = 0
  /\ always' = {} /\ ever' = {}
  /\ UNCHANGED <<nodes, edges, out, in, answer, advanceVars>>

(* Another request changes the graph (one that is refused is nothing a     *)
(* walk could notice).                                                     *)
GraphStep ==
  /\ Next
  /\ graphVars' # graphVars
  /\ always' = IF Walking THEN always \cap Arcs(out') ELSE {}
  /\ ever' = IF Walking THEN ever \cup Arcs(out') ELSE {}
  /\ Cardinality(ever' \ always') <= MaxChurn
  /\ Cardinality({n \in Node : nodes'[n] = "updating"}) <= MaxUpdating
  /\ UNCHANGED <<cursorVars, advanceVars, result, level>>

WalkStep ==
  \/ NextLevel
  \/ \E f, t \in Node : Look(f, t)
  \/ EndLevel
  \/ Return

WalkNext ==
  \/ \E id \in Node, up \in BOOLEAN : Start(id, up)
  \/ WalkStep
  \/ GraphStep

(* A request that was accepted goes on: its goroutine is scheduled and the *)
(* read lock it needs is eventually granted.                               *)
WalkFairness == WF_walkVars(WalkStep)

WalkSpec == WalkInit /\ [][WalkNext]_walkVars /\ WalkFairness

-----------------------------------------------------------------------------
(* However the graph changes between levels, and however often the lists   *)
(* of one level name a table - through several tables of the frontier, or  *)
(* twice in one list -, no table is returned twice and root is not         *)
(* returned at all (collectTargets, markSeen).                             *)
ReturnedOnce == \A n \in Node : result[n] <= IF n = root THEN 0 ELSE 1

(* A finished walk has found every table that was connected to root all    *)
(* the time, and none that arcs seen during the walk do not connect to it. *)
(* On a graph nobody changed, that is: exactly the tables reachable from   *)
(* root.                                                                   *)
FindsWhatLasted ==
  Walking /\ ~advancing /\ Done =>
    /\ ReachedFrom(root, Directed(always)) \ {root} \subseteq visited
    /\ visited \ {root} \subseteq ReachedFrom(root, Directed(ever))

(* The tables at most k arcs away from r.                                  *)
Within(r, arcs, k) ==
  {n \in Node : \E j \in 0 .. k : \E path \in [0 .. j -> Node] :
     /\ path[0] = r /\ path[j] = n
     /\ \A i \in 0 .. j - 1 : <<path[i], path[i + 1]>> \in arcs}

(* On a graph that nobody changes, tables are returned in the order of     *)
(* their distance from root: so many levels, all the tables that many arcs *)
(* or fewer away, and no others.                                           *)
NearestFirst ==
  Walking /\ always = ever => visited = Within(root, Directed(always), level)

(* Every walk ends, even if the graph never stops changing.                *)
WalksEnd == Walking ~> ~Walking
=============================================================================
