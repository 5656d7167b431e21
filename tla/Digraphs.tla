------------------------------ MODULE Digraphs -----------------------------
(***************************************************************************)
(* What cycles and reachability mean in a directed graph, given as its set *)
(* of arcs <<from, to>>.  Reference definitions: they say what lineage's   *)
(* depth-first search and walk's breadth-first levels have to compute, not *)
(* how.                                                                    *)
(***************************************************************************)
Tails(arcs) == {a[1] : a \in arcs}
Heads(arcs) == {a[2] : a \in arcs}

(* A finite graph has a cycle exactly when some non-empty set of vertices  *)
(* can never be left for good: each of them has a successor in the set.    *)
Cyclic(arcs) ==
  \E S \in SUBSET Tails(arcs) :
    S # {} /\ \A n \in S : \E m \in S : <<n, m>> \in arcs

(* The vertices on a path of at least one arc from root: what every set    *)
(* has that holds root's successors and the successors of its members.     *)
ReachedFrom(root, arcs) ==
  LET closed == {S \in SUBSET Heads(arcs) :
                   \A a \in arcs : a[1] \in S \cup {root} => a[2] \in S}
  IN {n \in Heads(arcs) : \A S \in closed : n \in S}

Reversed(arcs) == {<<a[2], a[1]>> : a \in arcs}
=============================================================================
