------------------------------ MODULE Lineage ------------------------------
(***************************************************************************)
(* The lineage graph of internal/lineage: nodes with a life cycle, edges   *)
(* under a string key, and the two adjacency indexes that lookups, walks   *)
(* and the cycle check read instead of the edges.  Every call runs under   *)
(* Graph.mu, so every action is one call.                                  *)
(*                                                                         *)
(* An index list is the number of times it holds each id: removeValue      *)
(* removes one occurrence, and no property depends on the order.  Edge     *)
(* reasons are left out.                                                   *)
(***************************************************************************)
EXTENDS Digraphs, Naturals, FiniteSets

CONSTANTS
  Node,       \* table ids
  EdgeKey,    \* keys of the edge map
  KeyOf,      \* LineageEdge.Key, a function of the two ids
  NoEdge,     \* no entry in the edge map
  MaxCopies   \* bound: occurrences of one id in one index list

Pair == Node \X Node

Edge == [from : Node, to : Node, state : {"active", "updating"}]

ASSUME LineageAssumption ==
  /\ IsFiniteSet(Node)
  /\ KeyOf \in [Pair -> EdgeKey]
  /\ NoEdge \notin Edge
  /\ MaxCopies \in Nat \ {0}

(* Keys tell edges apart.  That holds if no id has a "|", the separator    *)
(* Key puts between the two ids; nothing in the code sees to it.           *)
KeysDistinct ==
  \A p, q \in Pair : KeyOf[p] = KeyOf[q] => p = q

VARIABLES
  nodes,      \* Graph.nodes; "absent" where the map has no entry
  edges,      \* Graph.edges: [EdgeKey -> Edge or NoEdge]
  out,        \* Graph.out: out[<<f, t>>] occurrences of t in f's list
  in,         \* Graph.in: in[<<t, f>>] occurrences of f in t's list
  answer      \* the error the last call returned, "ok" for nil

graphVars == <<nodes, edges, out, in>>
lineageVars == <<nodes, edges, out, in, answer>>

NodeState == {"absent", "active", "updating", "removed"}

TypeOK ==
  /\ nodes \in [Node -> NodeState]
  /\ edges \in [EdgeKey -> Edge \cup {NoEdge}]
  /\ out \in [Pair -> Nat]
  /\ in \in [Pair -> Nat]
  /\ answer \in {"ok", "unknown node", "cycle", "bad transition"}

Init ==
  /\ nodes = [id \in Node |-> "absent"]
  /\ edges = [k \in EdgeKey |-> NoEdge]
  /\ out = [p \in Pair |-> 0]
  /\ in = [p \in Pair |-> 0]
  /\ answer = "ok"

Live(id) == nodes[id] \in {"active", "updating"}

(* The arcs of an index, and those of the recorded edges.                  *)
Arcs(index) == {p \in Pair : index[p] > 0}

PairsOf(es) ==
  {<<es[k].from, es[k].to>> : k \in {k \in EdgeKey : es[k] # NoEdge}}

EdgePairs == PairsOf(edges)

AddValue(index, p) == [index EXCEPT ![p] = @ + 1]

(* removeValue: the first occurrence, if there is one.                     *)
RemoveValue(index, p) == [index EXCEPT ![p] = IF @ = 0 THEN 0 ELSE @ - 1]

WithoutListOf(index, id) == [p \in Pair |-> IF p[1] = id THEN 0 ELSE index[p]]

ActiveEdge(from, to) == [from |-> from, to |-> to, state |-> "active"]

Incident(e, id) == e # NoEdge /\ id \in {e.from, e.to}

(* A removal that marks the edges but leaves them in the map.              *)
WithEdgesRemoved(es, id) ==
  [k \in EdgeKey |-> IF Incident(es[k], id)
                     THEN [es[k] EXCEPT !.state = "removed"] ELSE es[k]]

WithoutEdgesOf(es, id) ==
  [k \in EdgeKey |-> IF Incident(es[k], id) THEN NoEdge ELSE es[k]]

WithEdgesUpdating(es, id) ==
  [k \in EdgeKey |-> IF Incident(es[k], id)
                     THEN [es[k] EXCEPT !.state = "updating"] ELSE es[k]]

(* model.CanTransition                                                     *)
CanTransition(from, to) ==
  \/ from = "active" /\ to \in {"updating", "removed"}
  \/ from = "updating" /\ to \in {"active", "removed"}

Refuse(error) == answer' = error /\ UNCHANGED graphVars

-----------------------------------------------------------------------------
AddNode(id) ==
  /\ nodes' = [nodes EXCEPT ![id] = IF @ = "absent" THEN "active" ELSE @]
  /\ answer' = "ok"
  /\ UNCHANGED <<edges, out, in>>

(* A check of the index as it was before the edge.                         *)
InsertEdgeUnseen(from, to) ==
  \/ Cyclic(Arcs(out)) /\ Refuse("cycle")
  \/ /\ ~Cyclic(Arcs(out))
     /\ edges' = [edges EXCEPT ![KeyOf[<<from, to>>]] = ActiveEdge(from, to)]
     /\ out' = AddValue(out, <<from, to>>)
     /\ in' = AddValue(in, <<to, from>>)
     /\ answer' = "ok"
     /\ UNCHANGED nodes

(* The edge goes into the map and both indexes; if the out index now has a *)
(* cycle it is taken out again, which leaves all three as they were.       *)
InsertEdge(from, to) ==
  LET k == KeyOf[<<from, to>>]
      next == AddValue(out, <<from, to>>) IN
  \/ Cyclic(Arcs(next)) /\ Refuse("cycle")
  \/ /\ ~Cyclic(Arcs(next))
     /\ edges' = [edges EXCEPT ![k] = ActiveEdge(from, to)]
     /\ out' = next
     /\ in' = AddValue(in, <<to, from>>)
     /\ answer' = "ok"
     /\ UNCHANGED nodes

(* A key that is taken has its edge overwritten, and nothing else.         *)
OverwriteEdge(from, to) ==
  /\ edges' = [edges EXCEPT ![KeyOf[<<from, to>>]] = ActiveEdge(from, to)]
  /\ answer' = "ok"
  /\ UNCHANGED <<nodes, out, in>>

(* An AddEdge that does not look at the state of the second table.         *)
AddEdgeToAnything(from, to) ==
  LET taken == edges[KeyOf[<<from, to>>]] # NoEdge IN
  \/ ~Live(from) /\ Refuse("unknown node")
  \/ Live(from) /\ taken /\ OverwriteEdge(from, to)
  \/ Live(from) /\ ~taken /\ InsertEdge(from, to)

AddEdge(from, to) ==
  LET taken == edges[KeyOf[<<from, to>>]] # NoEdge IN
  \/ ~(Live(from) /\ Live(to)) /\ Refuse("unknown node")
  \/ Live(from) /\ Live(to) /\ taken /\ OverwriteEdge(from, to)
  \/ Live(from) /\ Live(to) /\ ~taken /\ InsertEdge(from, to)

(* A deletion that forgets the in index.                                   *)
DeleteEdgeOutOnly(from, to) ==
  LET k == KeyOf[<<from, to>>] IN
  /\ answer' = "ok"
  /\ UNCHANGED <<nodes, in>>
  /\ \/ edges[k] = NoEdge /\ UNCHANGED <<edges, out>>
     \/ /\ edges[k] # NoEdge
        /\ edges' = [edges EXCEPT ![k] = NoEdge]
        /\ out' = RemoveValue(out, <<from, to>>)

DeleteEdge(from, to) ==
  LET k == KeyOf[<<from, to>>] IN
  /\ answer' = "ok"
  /\ UNCHANGED nodes
  /\ \/ edges[k] = NoEdge /\ UNCHANGED <<edges, out, in>>
     \/ /\ edges[k] # NoEdge
        /\ edges' = [edges EXCEPT ![k] = NoEdge]
        /\ out' = RemoveValue(out, <<from, to>>)
        /\ in' = RemoveValue(in, <<to, from>>)

(* The node's edges become updating with it ...                            *)
MarkUpdating(id) ==
  \/ ~CanTransition(nodes[id], "updating") /\ Refuse("bad transition")
  \/ /\ CanTransition(nodes[id], "updating")
     /\ nodes' = [nodes EXCEPT ![id] = "updating"]
     /\ edges' = WithEdgesUpdating(edges, id)
     /\ answer' = "ok"
     /\ UNCHANGED <<out, in>>

(* ... and stay so when it is active again.                                *)
MarkActive(id) ==
  \/ ~CanTransition(nodes[id], "active") /\ Refuse("bad transition")
  \/ /\ CanTransition(nodes[id], "active")
     /\ nodes' = [nodes EXCEPT ![id] = "active"]
     /\ answer' = "ok"
     /\ UNCHANGED <<edges, out, in>>

(* A removal that leaves the node's own lists in the indexes.              *)
MarkRemovedKeepingLists(id) ==
  \/ ~CanTransition(nodes[id], "removed") /\ Refuse("bad transition")
  \/ /\ CanTransition(nodes[id], "removed")
     /\ nodes' = [nodes EXCEPT ![id] = "removed"]
     /\ edges' = WithoutEdgesOf(edges, id)
     /\ answer' = "ok"
     /\ UNCHANGED <<out, in>>

(* A removal that deletes only the edges leading from the node.            *)
MarkRemovedKeepingIncoming(id) ==
  \/ ~CanTransition(nodes[id], "removed") /\ Refuse("bad transition")
  \/ /\ CanTransition(nodes[id], "removed")
     /\ nodes' = [nodes EXCEPT ![id] = "removed"]
     /\ edges' = [k \in EdgeKey |->
                    IF edges[k] # NoEdge /\ edges[k].from = id THEN NoEdge
                                                             ELSE edges[k]]
     /\ out' = WithoutListOf(out, id)
     /\ in' = WithoutListOf(in, id)
     /\ answer' = "ok"

(* The node's own lists go with its edges; its id stays in the lists of    *)
(* its former neighbours.                                                  *)
MarkRemoved(id) ==
  \/ ~CanTransition(nodes[id], "removed") /\ Refuse("bad transition")
  \/ /\ CanTransition(nodes[id], "removed")
     /\ nodes' = [nodes EXCEPT ![id] = "removed"]
     /\ edges' = WithoutEdgesOf(edges, id)
     /\ out' = WithoutListOf(out, id)
     /\ in' = WithoutListOf(in, id)
     /\ answer' = "ok"

(* An edge is added only while its index entries stay within the bound.    *)
Bounded(from, to) == out[<<from, to>>] < MaxCopies /\ in[<<to, from>>] < MaxCopies

Next ==
  \/ \E id \in Node :
       AddNode(id) \/ MarkUpdating(id) \/ MarkActive(id) \/ MarkRemoved(id)
  \/ \E from, to \in Node :
       (Bounded(from, to) /\ AddEdge(from, to)) \/ DeleteEdge(from, to)

Spec == Init /\ [][Next]_lineageVars

-----------------------------------------------------------------------------
(* Edges run between tables that are registered and not removed.           *)
EdgesOnlyLive ==
  \A k \in EdgeKey : edges[k] # NoEdge => Live(edges[k].from) /\ Live(edges[k].to)

(* Between live tables both indexes hold exactly the recorded edges, once  *)
(* each; a removed table has no lists left, though others' lists may still *)
(* name it.                                                                *)
IndexesAgree ==
  \A f, t \in Node :
    /\ Live(f) /\ Live(t) =>
         out[<<f, t>>] = (IF <<f, t>> \in EdgePairs THEN 1 ELSE 0)
           /\ in[<<t, f>>] = out[<<f, t>>]
    /\ ~Live(f) => out[<<f, t>>] = 0 /\ in[<<f, t>>] = 0

(* The cycle check reads the out index, stale entries included, and still  *)
(* decides what the recorded edges say: AddEdge reports ErrCycle if and    *)
(* only if the new edge would close a cycle of recorded edges.             *)
CycleCheckExact ==
  \A f, t \in Node :
    Live(f) /\ Live(t) =>
      (Cyclic(Arcs(out) \cup {<<f, t>>}) <=> Cyclic(EdgePairs \cup {<<f, t>>}))

(* ErrCycle, AddEdge: no sequence of calls records a cycle.  This needs    *)
(* keys that tell edges apart; where two edges share a key it fails,       *)
(* because the second overwrites the first unchecked.                      *)
EdgesAcyclic == ~Cyclic(EdgePairs)

(* Walks and the cycle check follow the indexes, so these must never close *)
(* a cycle, whatever calls are made and even if edges share a key: there a *)
(* recorded edge can be overwritten by its own reverse and its arc stays   *)
(* in the indexes for good (AddEdge checks before it appends, an overwrite *)
(* appends nothing).                                                       *)
IndexAcyclic == ~Cyclic(Arcs(out))

(* The graph keeps the promises of DependencyGraph: the life cycle, the    *)
(* recorded dependencies and every answer are those of that specification. *)
Promise == INSTANCE DependencyGraph WITH deps <- EdgePairs
KeepsPromise == Promise!DepSpec

-----------------------------------------------------------------------------
(* A claim of a comment that the code does not meet.                       *)

(* nodes.go, MarkRemoved: all edges incident to a removed node are removed *)
(* - so no lookup of a live table's neighbours names a removed one.        *)
RemovedForgotten ==
  \A f, t \in Node : out[<<f, t>>] > 0 \/ in[<<f, t>>] > 0 => nodes[t] # "removed"
=============================================================================
