--------------------------- MODULE DependencyGraph -------------------------
(***************************************************************************)
(* What the lineage graph of internal/lineage promises its callers: an     *)
(* acyclic relation of dependencies among tables, each with a life cycle.  *)
(* No indexes, no edge keys, no edge states: those are Lineage's business. *)
(***************************************************************************)
EXTENDS Digraphs

CONSTANT Node

VARIABLES
  nodes,      \* the life cycle of each table
  deps,       \* the recorded dependencies, pairs <<from, to>>
  answer      \* what the last call returned

depVars == <<nodes, deps, answer>>

NodeState == {"absent", "active", "updating", "removed"}

Live(id) == nodes[id] \in {"active", "updating"}

(* model.CanTransition                                                     *)
CanTransition(from, to) ==
  \/ from = "active" /\ to \in {"updating", "removed"}
  \/ from = "updating" /\ to \in {"active", "removed"}

DepInit ==
  /\ nodes = [id \in Node |-> "absent"]
  /\ deps = {}
  /\ answer = "ok"

Introduce(id) ==
  /\ nodes' = [nodes EXCEPT ![id] = IF @ = "absent" THEN "active" ELSE @]
  /\ answer' = "ok"
  /\ UNCHANGED deps

(* A dependency is refused if a table is unknown or gone, and if it would  *)
(* close a cycle; recording it twice is no error.                          *)
Depend(from, to) ==
  LET arc == <<from, to>> IN
  /\ UNCHANGED nodes
  /\ \/ /\ ~(Live(from) /\ Live(to))
        /\ answer' = "unknown node"
        /\ UNCHANGED deps
     \/ /\ Live(from) /\ Live(to) /\ Cyclic(deps \cup {arc})
        /\ answer' = "cycle"
        /\ UNCHANGED deps
     \/ /\ Live(from) /\ Live(to) /\ ~Cyclic(deps \cup {arc})
        /\ answer' = "ok"
        /\ deps' = deps \cup {arc}

Undepend(from, to) ==
  /\ deps' = deps \ {<<from, to>>}
  /\ answer' = "ok"
  /\ UNCHANGED nodes

(* A table that is removed takes its dependencies with it and never        *)
(* comes back.                                                             *)
Move(id, to) ==
  \/ /\ CanTransition(nodes[id], to)
     /\ nodes' = [nodes EXCEPT ![id] = to]
     /\ deps' = IF to = "removed" THEN {a \in deps : id \notin {a[1], a[2]}}
                                  ELSE deps
     /\ answer' = "ok"
  \/ /\ ~CanTransition(nodes[id], to)
     /\ answer' = "bad transition"
     /\ UNCHANGED <<nodes, deps>>

DepNext ==
  \/ \E id \in Node : Introduce(id)
  \/ \E from, to \in Node : Depend(from, to) \/ Undepend(from, to)
  \/ \E id \in Node, to \in {"active", "updating", "removed"} : Move(id, to)

DepSpec == DepInit /\ [][DepNext]_depVars
=============================================================================
