--------------------------- MODULE LineageProofs ---------------------------
(***************************************************************************)
(* Proofs about the lineage graph, for any set of tables and, where it     *)
(* matters, under the assumption that edge keys tell edges apart.          *)
(***************************************************************************)
EXTENDS Lineage, TLAPS

-----------------------------------------------------------------------------
(* Cycles in sets of arcs.                                                 *)

(* More arcs do not open a cycle.                                          *)
LEMMA CyclicMonotone ==
  ASSUME NEW A, NEW B, A \subseteq B, Cyclic(A)
  PROVE  Cyclic(B)
<1>1. Tails(A) \subseteq Tails(B)
  BY DEF Tails
<1> QED
  BY <1>1 DEF Cyclic

(* Arcs that lead to vertices with no successor close no cycle.            *)
LEMMA DeadEndsHarmless ==
  ASSUME NEW A \in SUBSET Pair, NEW B \in SUBSET Pair,
         A \subseteq B,
         \A b \in B \ A : \A z \in Node : <<b[2], z>> \notin B,
         Cyclic(B)
  PROVE  Cyclic(A)
<1> USE DEF Pair
<1>1. PICK S \in SUBSET Tails(B) :
        S # {} /\ \A n \in S : \E m \in S : <<n, m>> \in B
  BY DEF Cyclic
<1>2. ASSUME NEW n \in S
      PROVE  \E m \in S : <<n, m>> \in A
  <2>1. PICK m \in S : <<n, m>> \in B
    BY <1>1, <1>2
  <2>2. PICK z \in S : <<m, z>> \in B
    BY <1>1
  <2>3. z \in Node /\ <<n, m>>[2] = m
    BY <2>2
  <2> QED
    BY <2>1, <2>2, <2>3
<1>3. S \subseteq Tails(A)
  <2> SUFFICES ASSUME NEW n \in S PROVE n \in Tails(A)
    OBVIOUS
  <2>1. PICK m \in S : <<n, m>> \in A
    BY <1>2
  <2>2. <<n, m>>[1] = n
    OBVIOUS
  <2> QED
    BY <2>1, <2>2 DEF Tails
<1> QED
  BY <1>1, <1>2, <1>3 DEF Cyclic

-----------------------------------------------------------------------------
(* The edge map.                                                           *)

EdgeMap == [EdgeKey -> Edge \cup {NoEdge}]

(* Every edge is stored under its own key.                                 *)
HomeKeys(es) ==
  \A k \in EdgeKey :
    es[k] # NoEdge => KeyOf[<<es[k].from, es[k].to>>] = k

(* With distinct keys, looking a pair's key up is looking the pair up.     *)
LEMMA PairsByKey ==
  ASSUME KeysDistinct, NEW es \in EdgeMap, HomeKeys(es)
  PROVE  PairsOf(es) = {p \in Pair : es[KeyOf[p]] # NoEdge}
<1>1. ASSUME NEW k \in EdgeKey, es[k] # NoEdge
      PROVE  /\ <<es[k].from, es[k].to>> \in Pair
             /\ KeyOf[<<es[k].from, es[k].to>>] = k
  <2>1. es[k] \in Edge
    BY <1>1 DEF EdgeMap
  <2> QED
    BY <1>1, <2>1 DEF HomeKeys, Edge, Pair
<1>2. ASSUME NEW p \in Pair, es[KeyOf[p]] # NoEdge
      PROVE  p \in PairsOf(es)
  <2> DEFINE k == KeyOf[p]
  <2>1. k \in EdgeKey
    BY LineageAssumption
  <2>2. <<es[k].from, es[k].to>> \in Pair
        /\ KeyOf[<<es[k].from, es[k].to>>] = k
    BY <1>1, <1>2, <2>1
  <2>3. <<es[k].from, es[k].to>> = p
    BY <2>2 DEF KeysDistinct
  <2> QED
    BY <1>2, <2>1, <2>3 DEF PairsOf
<1> QED
  BY <1>1, <1>2 DEF PairsOf

-----------------------------------------------------------------------------
(* Type correctness.                                                       *)

Index == [Pair -> Nat]

(* Adding or removing an entry and dropping a node's list keep an index an *)
(* index: no count goes below zero.                                        *)
LEMMA IndexTyped ==
  ASSUME NEW index \in Index
  PROVE  /\ \A p \in Pair : /\ AddValue(index, p) \in Index
                           /\ RemoveValue(index, p) \in Index
         /\ \A id : WithoutListOf(index, id) \in Index
<1>1. ASSUME NEW p \in Pair
      PROVE  AddValue(index, p) \in Index /\ RemoveValue(index, p) \in Index
  <2>1. index[p] \in Nat
    BY DEF Index
  <2>2. (IF index[p] = 0 THEN 0 ELSE index[p] - 1) \in Nat
    BY <2>1
  <2>3. RemoveValue(index, p) \in Index
    BY <2>2 DEF RemoveValue, Index
  <2>4. AddValue(index, p) \in Index
    BY DEF AddValue, Index
  <2> QED
    BY <2>3, <2>4
<1>2. ASSUME NEW id
      PROVE  WithoutListOf(index, id) \in Index
  BY DEF WithoutListOf, Index
<1> QED
  BY <1>1, <1>2

(* The edge map stays one under each way the calls rewrite it.             *)
LEMMA EdgesTyped ==
  ASSUME NEW es \in EdgeMap
  PROVE  /\ \A k \in EdgeKey : [es EXCEPT ![k] = NoEdge] \in EdgeMap
         /\ \A k \in EdgeKey, from, to \in Node :
              [es EXCEPT ![k] = ActiveEdge(from, to)] \in EdgeMap
         /\ \A id : /\ WithoutEdgesOf(es, id) \in EdgeMap
                    /\ WithEdgesUpdating(es, id) \in EdgeMap
<1>1. ASSUME NEW from \in Node, NEW to \in Node
      PROVE  ActiveEdge(from, to) \in Edge
  BY DEF Edge, ActiveEdge
<1>2. ASSUME NEW e \in Edge
      PROVE  [e EXCEPT !.state = "updating"] \in Edge
  BY DEF Edge
<1>3. ASSUME NEW k \in EdgeKey
      PROVE  [es EXCEPT ![k] = NoEdge] \in EdgeMap
  BY DEF EdgeMap
<1>4. ASSUME NEW k \in EdgeKey, NEW from \in Node, NEW to \in Node
      PROVE  [es EXCEPT ![k] = ActiveEdge(from, to)] \in EdgeMap
  BY <1>1 DEF EdgeMap
<1>5. ASSUME NEW id
      PROVE  /\ WithoutEdgesOf(es, id) \in EdgeMap
             /\ WithEdgesUpdating(es, id) \in EdgeMap
  <2>1. \A j \in EdgeKey : Incident(es[j], id) => es[j] \in Edge
    BY DEF EdgeMap, Incident
  <2>2. WithoutEdgesOf(es, id) \in EdgeMap
    BY DEF EdgeMap, WithoutEdgesOf
  <2>3. WithEdgesUpdating(es, id) \in EdgeMap
    BY <1>2, <2>1 DEF EdgeMap, WithEdgesUpdating
  <2> QED
    BY <2>2, <2>3
<1> QED
  BY <1>3, <1>4, <1>5

(* The type invariant over the sets the lemmas speak of.                   *)
LEMMA TypeOKFolded ==
  TypeOK <=> /\ nodes \in [Node -> NodeState]
             /\ edges \in EdgeMap
             /\ out \in Index /\ in \in Index
             /\ answer \in {"ok", "unknown node", "cycle", "bad transition"}
BY DEF TypeOK, EdgeMap, Index

(* The graph's maps, indexes and answers keep their types: no index count  *)
(* goes below zero, whichever keys collide.                                *)
THEOREM TypeCorrect == Spec => []TypeOK
<1>1. Init => TypeOK
  BY DEF Init, TypeOK, NodeState
<1>2. TypeOK /\ [Next]_lineageVars => TypeOK'
  <2> SUFFICES ASSUME TypeOK, Next PROVE TypeOK'
    BY DEF TypeOK, lineageVars
  <2> DEFINE Folded == /\ nodes \in [Node -> NodeState]
                       /\ edges \in EdgeMap
                       /\ out \in Index /\ in \in Index
                       /\ answer \in {"ok", "unknown node", "cycle",
                                      "bad transition"}
  <2> SUFFICES Folded'
    BY DEF TypeOK, EdgeMap, Index
  <2>a. Folded
    BY TypeOKFolded
  <2>b. \A from, to \in Node : <<from, to>> \in Pair /\ KeyOf[<<from, to>>] \in EdgeKey
    BY LineageAssumption DEF Pair
  <2>0. ASSUME NEW error \in {"unknown node", "cycle", "bad transition"},
               Refuse(error)
        PROVE  Folded'
    BY <2>0, <2>a DEF Refuse, graphVars
  <2>1. ASSUME NEW id \in Node, AddNode(id) PROVE Folded'
    <3>1. nodes' \in [Node -> NodeState]
      BY <2>1, <2>a DEF AddNode, NodeState
    <3> QED
      BY <2>1, <2>a, <3>1 DEF AddNode
  <2>2. ASSUME NEW id \in Node, MarkUpdating(id) PROVE Folded'
    <3>1. CASE Refuse("bad transition")
      BY <2>0, <3>1
    <3>2. CASE ~Refuse("bad transition")
      <4>1. edges' \in EdgeMap
        BY <2>2, <2>a, <2>b, <3>2, EdgesTyped DEF MarkUpdating
      <4>2. nodes' \in [Node -> NodeState]
        BY <2>2, <2>a, <3>2 DEF MarkUpdating, NodeState
      <4>3. out' = out /\ in' = in /\ answer' = "ok"
        BY <2>2, <3>2 DEF MarkUpdating
      <4> QED
        BY <2>a, <4>1, <4>2, <4>3
    <3> QED
      BY <3>1, <3>2
  <2>3. ASSUME NEW id \in Node, MarkActive(id) PROVE Folded'
    <3>1. CASE Refuse("bad transition")
      BY <2>0, <3>1
    <3>2. CASE ~Refuse("bad transition")
      <4>1. nodes' \in [Node -> NodeState]
        BY <2>3, <2>a, <3>2 DEF MarkActive, NodeState
      <4>2. UNCHANGED <<edges, out, in>> /\ answer' = "ok"
        BY <2>3, <3>2 DEF MarkActive
      <4> QED
        BY <2>a, <4>1, <4>2
    <3> QED
      BY <3>1, <3>2
  <2>4. ASSUME NEW id \in Node, MarkRemoved(id) PROVE Folded'
    <3>1. CASE Refuse("bad transition")
      BY <2>0, <3>1
    <3>2. CASE ~Refuse("bad transition")
      <4>1. edges' \in EdgeMap
        BY <2>4, <2>a, <2>b, <3>2, EdgesTyped DEF MarkRemoved
      <4>2. out' \in Index /\ in' \in Index
        BY <2>4, <2>a, <2>b, <3>2, IndexTyped DEF MarkRemoved
      <4>3. nodes' \in [Node -> NodeState] /\ answer' = "ok"
        BY <2>4, <2>a, <3>2 DEF MarkRemoved, NodeState
      <4> QED
        BY <4>1, <4>2, <4>3
    <3> QED
      BY <3>1, <3>2
  <2>5. ASSUME NEW from \in Node, NEW to \in Node, AddEdge(from, to)
        PROVE  Folded'
    <3>1. CASE Refuse("unknown node") \/ Refuse("cycle")
      BY <2>0, <3>1
    <3>2. CASE OverwriteEdge(from, to)
      <4>1. edges' \in EdgeMap
        BY <2>a, <2>b, <3>2, EdgesTyped DEF OverwriteEdge
      <4> QED
        BY <2>a, <3>2, <4>1 DEF OverwriteEdge
    <3>3. CASE InsertEdge(from, to) /\ ~Refuse("cycle")
      <4>1. /\ edges' = [edges EXCEPT ![KeyOf[<<from, to>>]] =
                                        ActiveEdge(from, to)]
            /\ out' = AddValue(out, <<from, to>>)
            /\ in' = AddValue(in, <<to, from>>)
            /\ answer' = "ok" /\ nodes' = nodes
        BY <3>3 DEF InsertEdge
      <4>2. edges' \in EdgeMap
        BY <2>a, <2>b, <4>1, EdgesTyped
      <4>3. out' \in Index /\ in' \in Index
        BY <2>a, <2>b, <4>1, IndexTyped
      <4> QED
        BY <2>a, <4>1, <4>2, <4>3
    <3> QED
      BY <2>5, <3>1, <3>2, <3>3 DEF AddEdge
  <2>6. ASSUME NEW from \in Node, NEW to \in Node, DeleteEdge(from, to)
        PROVE  Folded'
    <3>1. edges' \in EdgeMap
      BY <2>6, <2>a, <2>b, EdgesTyped DEF DeleteEdge
    <3>2. out' \in Index /\ in' \in Index
      BY <2>6, <2>a, <2>b, IndexTyped DEF DeleteEdge
    <3> QED
      BY <2>6, <2>a, <3>1, <3>2 DEF DeleteEdge
  <2> HIDE DEF Folded
  <2> QED
    BY <2>1, <2>2, <2>3, <2>4, <2>5, <2>6 DEF Next
<1> QED
  BY <1>1, <1>2, PTL DEF Spec

-----------------------------------------------------------------------------
(* What holds though keys may collide.                                     *)

(* Every call but an insertion of an edge leaves no arc in the out index   *)
(* that was not there, and an insertion closes no cycle.                   *)
LEMMA ArcsFewerOrChecked ==
  ASSUME TypeOK, TypeOK', Next
  PROVE  Arcs(out)' \subseteq Arcs(out) \/ ~Cyclic(Arcs(out)')
<1>1. \A p \in Pair : out[p] \in Nat
  BY DEF TypeOK
<1>2. ASSUME \A p \in Pair : out'[p] = out[p] \/ out'[p] = 0 \/ out'[p] = out[p] - 1
      PROVE  Arcs(out)' \subseteq Arcs(out)
  <2>1. \A p \in Pair : out'[p] > 0 => out[p] > 0
    BY <1>1, <1>2
  <2> QED
    BY <2>1 DEF Arcs
<1>3. CASE out' = out
  BY <1>3 DEF Arcs
<1>4. ASSUME NEW id \in Node, MarkRemoved(id)
      PROVE  Arcs(out)' \subseteq Arcs(out)
  <2>1. CASE out' = WithoutListOf(out, id)
    BY <1>2, <2>1 DEF WithoutListOf
  <2> QED
    BY <1>3, <1>4, <2>1 DEF MarkRemoved, Refuse, graphVars
<1>5. ASSUME NEW f \in Node, NEW t \in Node, DeleteEdge(f, t)
      PROVE  Arcs(out)' \subseteq Arcs(out)
  <2>1. CASE out' = RemoveValue(out, <<f, t>>)
    <3>1. \A p \in Pair : out'[p] = out[p] \/ out'[p] = 0 \/ out'[p] = out[p] - 1
      BY <1>1, <2>1 DEF RemoveValue, TypeOK
    <3> QED
      BY <1>2, <3>1
  <2> QED
    BY <1>3, <1>5, <2>1 DEF DeleteEdge
<1>6. ASSUME NEW f \in Node, NEW t \in Node, AddEdge(f, t)
      PROVE  Arcs(out)' \subseteq Arcs(out) \/ ~Cyclic(Arcs(out)')
  <2>1. CASE InsertEdge(f, t) /\ ~Refuse("cycle")
    <3>1. out' = AddValue(out, <<f, t>>) /\ ~Cyclic(Arcs(AddValue(out, <<f, t>>)))
      BY <2>1 DEF InsertEdge
    <3> QED
      BY <3>1 DEF Arcs
  <2>2. CASE ~(InsertEdge(f, t) /\ ~Refuse("cycle"))
    <3>1. out' = out
      BY <1>6, <2>2 DEF AddEdge, OverwriteEdge, Refuse, graphVars
    <3> QED
      BY <1>3, <3>1
  <2> QED
    BY <2>1, <2>2
<1>7. ASSUME NEW id \in Node, AddNode(id) \/ MarkUpdating(id) \/ MarkActive(id)
      PROVE  out' = out
  BY <1>7 DEF AddNode, MarkUpdating, MarkActive, Refuse, graphVars
<1> QED
  BY <1>3, <1>4, <1>5, <1>6, <1>7 DEF Next

(* No sequence of calls closes a cycle in the indexes, whichever edges     *)
(* share a key: walks and the cycle check always work on an acyclic graph. *)
THEOREM NoIndexCycles == Spec => []IndexAcyclic
<1>1. Init => IndexAcyclic
  <2>1. Init => Arcs(out) = {}
    BY DEF Init, Arcs
  <2> QED
    BY <2>1 DEF IndexAcyclic, Cyclic, Tails
<1>2. TypeOK /\ TypeOK' /\ IndexAcyclic /\ [Next]_lineageVars => IndexAcyclic'
  <2> SUFFICES ASSUME TypeOK, TypeOK', IndexAcyclic, [Next]_lineageVars
               PROVE  IndexAcyclic'
    OBVIOUS
  <2>1. CASE Next
    <3>1. Arcs(out)' \subseteq Arcs(out) => ~Cyclic(Arcs(out)')
      BY CyclicMonotone DEF IndexAcyclic
    <3> QED
      BY <2>1, <3>1, ArcsFewerOrChecked DEF IndexAcyclic
  <2>2. CASE UNCHANGED lineageVars
    BY <2>2 DEF lineageVars, IndexAcyclic, Arcs
  <2> QED
    BY <2>1, <2>2
<1> QED
  BY <1>1, <1>2, TypeCorrect, PTL DEF Spec

-----------------------------------------------------------------------------
(* What the calls do to the recorded pairs when keys tell edges apart.     *)

(* With distinct keys the edge under a pair's key joins that pair.         *)
LEMMA EdgeAtKey ==
  ASSUME KeysDistinct, NEW es \in EdgeMap, HomeKeys(es),
         NEW p \in Pair, es[KeyOf[p]] # NoEdge
  PROVE  /\ es[KeyOf[p]] \in Edge
         /\ <<es[KeyOf[p]].from, es[KeyOf[p]].to>> = p
<1> DEFINE e == es[KeyOf[p]]
<1>1. KeyOf[p] \in EdgeKey
  BY LineageAssumption
<1>2. e \in Edge
  BY <1>1 DEF EdgeMap
<1>3. <<e.from, e.to>> \in Pair
  BY <1>2 DEF Edge, Pair
<1>4. KeyOf[<<e.from, e.to>>] = KeyOf[p]
  BY <1>1 DEF HomeKeys
<1> QED
  BY <1>2, <1>3, <1>4 DEF KeysDistinct

(* The edge map after the edge of a pair is stored, and after it is        *)
(* deleted.                                                                *)
Stored(es, f, t) == [es EXCEPT ![KeyOf[<<f, t>>]] = ActiveEdge(f, t)]
Cleared(es, f, t) == [es EXCEPT ![KeyOf[<<f, t>>]] = NoEdge]

(* Storing an edge under its key records its pair.                         *)
LEMMA StoredPairs ==
  ASSUME KeysDistinct, NEW es \in EdgeMap, HomeKeys(es),
         NEW f \in Node, NEW t \in Node
  PROVE  /\ HomeKeys(Stored(es, f, t))
         /\ PairsOf(Stored(es, f, t)) = PairsOf(es) \cup {<<f, t>>}
<1> DEFINE p == <<f, t>>
           next == Stored(es, f, t)
<1>1. p \in Pair /\ KeyOf[p] \in EdgeKey
  BY LineageAssumption DEF Pair
<1>2. /\ ActiveEdge(f, t) \in Edge /\ ActiveEdge(f, t) # NoEdge
      /\ ActiveEdge(f, t).from = f /\ ActiveEdge(f, t).to = t
  BY LineageAssumption DEF ActiveEdge, Edge
<1>3. next \in EdgeMap
  BY <1>1, EdgesTyped DEF Stored
<1>4. \A k \in EdgeKey :
        next[k] = IF k = KeyOf[p] THEN ActiveEdge(f, t) ELSE es[k]
  BY <1>1 DEF EdgeMap, Stored
<1> HIDE DEF next
<1>5. HomeKeys(next)
  BY <1>2, <1>4 DEF HomeKeys
<1>6. \A q \in Pair : next[KeyOf[q]] # NoEdge <=> q = p \/ es[KeyOf[q]] # NoEdge
  BY <1>1, <1>2, <1>4, LineageAssumption DEF KeysDistinct
<1> QED
  BY <1>1, <1>3, <1>5, <1>6, PairsByKey DEF next

(* Clearing a key forgets its pair.                                        *)
LEMMA ClearedPairs ==
  ASSUME KeysDistinct, NEW es \in EdgeMap, HomeKeys(es),
         NEW f \in Node, NEW t \in Node
  PROVE  /\ HomeKeys(Cleared(es, f, t))
         /\ PairsOf(Cleared(es, f, t)) = PairsOf(es) \ {<<f, t>>}
<1> DEFINE p == <<f, t>>
           next == Cleared(es, f, t)
<1>1. p \in Pair /\ KeyOf[p] \in EdgeKey
  BY LineageAssumption DEF Pair
<1>2. next \in EdgeMap
  BY <1>1, EdgesTyped DEF Cleared
<1>3. \A k \in EdgeKey : next[k] = IF k = KeyOf[p] THEN NoEdge ELSE es[k]
  BY <1>1 DEF EdgeMap, Cleared
<1> HIDE DEF next
<1>4. HomeKeys(next)
  BY <1>3 DEF HomeKeys
<1>5. \A q \in Pair : next[KeyOf[q]] # NoEdge <=> q # p /\ es[KeyOf[q]] # NoEdge
  BY <1>1, <1>3, LineageAssumption DEF KeysDistinct
<1> QED
  BY <1>1, <1>2, <1>4, <1>5, PairsByKey DEF next

(* Removing a node's edges forgets the pairs it is in.                     *)
LEMMA RemovedPairs ==
  ASSUME KeysDistinct, NEW es \in EdgeMap, HomeKeys(es), NEW id
  PROVE  /\ HomeKeys(WithoutEdgesOf(es, id))
         /\ PairsOf(WithoutEdgesOf(es, id)) =
              {a \in PairsOf(es) : id \notin {a[1], a[2]}}
<1> DEFINE next == WithoutEdgesOf(es, id)
<1>1. next \in EdgeMap
  BY EdgesTyped
<1>2. \A k \in EdgeKey :
        next[k] = IF Incident(es[k], id) THEN NoEdge ELSE es[k]
  BY DEF WithoutEdgesOf
<1> HIDE DEF next
<1>3. HomeKeys(next)
  BY <1>2 DEF HomeKeys
<1>4. ASSUME NEW q \in Pair
      PROVE  next[KeyOf[q]] # NoEdge <=>
               es[KeyOf[q]] # NoEdge /\ id \notin {q[1], q[2]}
  <2>1. KeyOf[q] \in EdgeKey
    BY LineageAssumption
  <2>2. CASE es[KeyOf[q]] = NoEdge
    BY <1>2, <2>1, <2>2 DEF Incident
  <2>3. CASE es[KeyOf[q]] # NoEdge
    <3>1. q[1] = es[KeyOf[q]].from /\ q[2] = es[KeyOf[q]].to
      BY <2>3, EdgeAtKey
    <3> QED
      BY <1>2, <2>1, <2>3, <3>1 DEF Incident
  <2> QED
    BY <2>2, <2>3
<1>5. PairsOf(next) = {a \in PairsOf(es) : id \notin {a[1], a[2]}}
  BY <1>1, <1>3, <1>4, PairsByKey
<1> QED
  BY <1>3, <1>5 DEF next

(* Marking a node's edges as updating changes no pair.                     *)
LEMMA UpdatingPairs ==
  ASSUME KeysDistinct, NEW es \in EdgeMap, HomeKeys(es), NEW id
  PROVE  /\ HomeKeys(WithEdgesUpdating(es, id))
         /\ PairsOf(WithEdgesUpdating(es, id)) = PairsOf(es)
<1> DEFINE next == WithEdgesUpdating(es, id)
<1>1. next \in EdgeMap
  BY EdgesTyped
<1>2. ASSUME NEW k \in EdgeKey
      PROVE  /\ next[k] = NoEdge <=> es[k] = NoEdge
             /\ es[k] # NoEdge => next[k].from = es[k].from
                                   /\ next[k].to = es[k].to
  <2>1. CASE Incident(es[k], id)
    <3>1. es[k] \in Edge
      BY <2>1 DEF Incident, EdgeMap
    <3>2. /\ [es[k] EXCEPT !.state = "updating"] \in Edge
          /\ [es[k] EXCEPT !.state = "updating"].from = es[k].from
          /\ [es[k] EXCEPT !.state = "updating"].to = es[k].to
      BY <3>1 DEF Edge
    <3> QED
      BY <2>1, <3>1, <3>2, LineageAssumption DEF WithEdgesUpdating
  <2>2. CASE ~Incident(es[k], id)
    BY <2>2 DEF WithEdgesUpdating
  <2> QED
    BY <2>1, <2>2
<1> HIDE DEF next
<1>3. HomeKeys(next)
  BY <1>2 DEF HomeKeys
<1>4. PairsOf(next) = PairsOf(es)
  BY <1>1, <1>2, <1>3, PairsByKey, LineageAssumption
<1> QED
  BY <1>3, <1>4 DEF next

-----------------------------------------------------------------------------
(* The inductive invariant.                                                *)

(* No index entry leads to a table that was never registered: needed when  *)
(* such a table is, because live tables have no stale entries.             *)
NoneToAbsent ==
  \A f, t \in Node : nodes[t] = "absent" => out[<<f, t>>] = 0 /\ in[<<f, t>>] = 0

LineageInv ==
  /\ TypeOK
  /\ HomeKeys(edges)
  /\ EdgesOnlyLive
  /\ IndexesAgree
  /\ NoneToAbsent
  /\ EdgesAcyclic

(* What an index holds after each of its updates.                          *)
LEMMA IndexAt ==
  ASSUME NEW index \in Index, NEW f \in Node, NEW t \in Node, NEW p \in Pair
  PROVE  /\ <<f, t>> \in Pair /\ index[<<f, t>>] \in Nat
         /\ AddValue(index, p)[<<f, t>>] =
              IF <<f, t>> = p THEN index[<<f, t>>] + 1 ELSE index[<<f, t>>]
         /\ RemoveValue(index, p)[<<f, t>>] =
              IF <<f, t>> = p THEN (IF index[<<f, t>>] = 0 THEN 0 ELSE index[<<f, t>>] - 1)
                             ELSE index[<<f, t>>]
         /\ \A id : WithoutListOf(index, id)[<<f, t>>] =
                      IF f = id THEN 0 ELSE index[<<f, t>>]
<1>1. <<f, t>> \in Pair /\ <<f, t>>[1] = f
  BY DEF Pair
<1>2. index[<<f, t>>] \in Nat
  BY <1>1 DEF Index
<1>3. AddValue(index, p)[<<f, t>>] =
        IF <<f, t>> = p THEN index[<<f, t>>] + 1 ELSE index[<<f, t>>]
  BY <1>1 DEF AddValue, Index
<1>4. RemoveValue(index, p)[<<f, t>>] =
        IF <<f, t>> = p THEN (IF index[<<f, t>>] = 0 THEN 0 ELSE index[<<f, t>>] - 1)
                       ELSE index[<<f, t>>]
  BY <1>1 DEF RemoveValue, Index
<1>5. \A id : WithoutListOf(index, id)[<<f, t>>] = IF f = id THEN 0 ELSE index[<<f, t>>]
  BY <1>1 DEF WithoutListOf
<1> QED
  BY <1>1, <1>2, <1>3, <1>4, <1>5

(* Recorded pairs are pairs of live tables.                                *)
LEMMA LivePairs ==
  ASSUME LineageInv
  PROVE  /\ EdgePairs \subseteq Pair
         /\ \A f, t : <<f, t>> \in EdgePairs =>
              f \in Node /\ t \in Node /\ Live(f) /\ Live(t)
<1>1. ASSUME NEW k \in EdgeKey, edges[k] # NoEdge
      PROVE  /\ edges[k].from \in Node /\ edges[k].to \in Node
             /\ Live(edges[k].from) /\ Live(edges[k].to)
  BY <1>1 DEF LineageInv, TypeOK, Edge, EdgesOnlyLive
<1> QED
  BY <1>1 DEF EdgePairs, PairsOf, Pair

(* Conversely a map whose pairs are live has only live edges.              *)
LEMMA LiveEdges ==
  ASSUME NEW es, NEW k \in EdgeKey, es[k] # NoEdge
  PROVE  <<es[k].from, es[k].to>> \in PairsOf(es)
BY DEF PairsOf

(* The arcs of the out index are the recorded pairs and entries that lead  *)
(* to removed tables, from where no arc leads on.                          *)
LEMMA StaleArcs ==
  ASSUME LineageInv
  PROVE  /\ EdgePairs \subseteq Arcs(out)
         /\ Arcs(out) \subseteq Pair
         /\ \A b \in Arcs(out) \ EdgePairs :
              ~Live(b[2]) /\ \A z \in Node : <<b[2], z>> \notin Arcs(out)
<1>1. out \in Index /\ in \in Index
  BY TypeOKFolded DEF LineageInv
<1>2. ASSUME NEW f \in Node, NEW t \in Node
      PROVE  /\ <<f, t>> \in EdgePairs => <<f, t>> \in Arcs(out)
             /\ <<f, t>> \in Arcs(out) => Live(f)
             /\ <<f, t>> \in Arcs(out) /\ Live(t) => <<f, t>> \in EdgePairs
  <2>1. <<f, t>> \in Pair /\ out[<<f, t>>] \in Nat
    BY <1>1 DEF Index, Pair
  <2>2. /\ Live(f) /\ Live(t) =>
             out[<<f, t>>] = (IF <<f, t>> \in EdgePairs THEN 1 ELSE 0)
        /\ ~Live(f) => out[<<f, t>>] = 0
    BY DEF LineageInv, IndexesAgree
  <2>3. <<f, t>> \in EdgePairs => Live(f) /\ Live(t)
    BY LivePairs
  <2>4. <<f, t>> \in Arcs(out) <=> out[<<f, t>>] > 0
    BY <2>1 DEF Arcs
  <2> QED
    BY <2>1, <2>2, <2>3, <2>4
<1>3. Arcs(out) \subseteq Pair
  BY DEF Arcs
<1>4. ASSUME NEW b \in Pair
      PROVE  b = <<b[1], b[2]>> /\ b[1] \in Node /\ b[2] \in Node
  BY DEF Pair
<1>5. EdgePairs \subseteq Arcs(out)
  <2> SUFFICES ASSUME NEW b \in EdgePairs PROVE b \in Arcs(out)
    OBVIOUS
  <2>1. b \in Pair
    BY LivePairs
  <2> QED
    BY <1>2, <1>4, <2>1
<1>6. ASSUME NEW b \in Arcs(out) \ EdgePairs
      PROVE  ~Live(b[2]) /\ \A z \in Node : <<b[2], z>> \notin Arcs(out)
  BY <1>2, <1>3, <1>4
<1> QED
  BY <1>3, <1>5, <1>6

(* The cycle check on the out index decides about the recorded edges.      *)
LEMMA CheckDecides ==
  ASSUME LineageInv, NEW f \in Node, NEW t \in Node, Live(f), Live(t)
  PROVE  Cyclic(Arcs(out) \cup {<<f, t>>}) <=> Cyclic(EdgePairs \cup {<<f, t>>})
<1> DEFINE A == EdgePairs \cup {<<f, t>>}
           B == Arcs(out) \cup {<<f, t>>}
<1>1. A \subseteq B
  BY StaleArcs
<1>2. A \in SUBSET Pair /\ B \in SUBSET Pair
  BY StaleArcs, LivePairs DEF Pair
<1>3. ASSUME NEW b \in B \ A, NEW z \in Node
      PROVE  <<b[2], z>> \notin B
  <2>1. b \in Arcs(out) \ EdgePairs
    BY <1>3
  <2>2. ~Live(b[2]) /\ <<b[2], z>> \notin Arcs(out)
    BY <1>3, <2>1, StaleArcs
  <2> QED
    BY <2>2
<1> HIDE DEF A, B
<1>4. Cyclic(A) => Cyclic(B)
  BY <1>1, CyclicMonotone
<1>5. Cyclic(B) => Cyclic(A)
  BY <1>1, <1>2, <1>3, DeadEndsHarmless
<1> QED
  BY <1>4, <1>5 DEF A, B

-----------------------------------------------------------------------------
(* One lemma per call: it keeps the invariant, and its effect on the       *)
(* recorded pairs is the one DependencyGraph gives it.                     *)

(* The invariant in the next state, from facts about pairs of tables.      *)
LEMMA InvFromPairs ==
  ASSUME TypeOK', HomeKeys(edges'), ~Cyclic(EdgePairs'),
         \A f, t : <<f, t>> \in EdgePairs' => Live(f)' /\ Live(t)',
         \A f, t \in Node :
           /\ Live(f)' /\ Live(t)' =>
                /\ out'[<<f, t>>] = (IF <<f, t>> \in EdgePairs' THEN 1 ELSE 0)
                /\ in'[<<t, f>>] = out'[<<f, t>>]
           /\ ~Live(f)' => out'[<<f, t>>] = 0 /\ in'[<<f, t>>] = 0
           /\ nodes'[t] = "absent" => out'[<<f, t>>] = 0 /\ in'[<<f, t>>] = 0
  PROVE  LineageInv'
<1>1. EdgesOnlyLive'
  BY LiveEdges DEF EdgesOnlyLive, EdgePairs
<1>2. IndexesAgree'
  BY DEF IndexesAgree
<1>3. NoneToAbsent'
  BY DEF NoneToAbsent
<1> QED
  BY <1>1, <1>2, <1>3 DEF LineageInv, EdgesAcyclic

(* A refused call changes nothing but the answer.                          *)
LEMMA RefusedStep ==
  ASSUME LineageInv, TypeOK', NEW error, Refuse(error)
  PROVE  LineageInv' /\ nodes' = nodes /\ EdgePairs' = EdgePairs
BY DEF LineageInv, Refuse, graphVars, EdgesOnlyLive, IndexesAgree, NoneToAbsent,
   EdgesAcyclic, EdgePairs, Live

(* Registering a table: nothing led to it, and nothing leads from it yet.  *)
LEMMA AddNodeStep ==
  ASSUME LineageInv, TypeOK', NEW id \in Node, AddNode(id)
  PROVE  LineageInv' /\ EdgePairs' = EdgePairs
<1>1. UNCHANGED <<edges, out, in>> /\ EdgePairs' = EdgePairs
  BY DEF AddNode, EdgePairs
<1>2. \A n \in Node :
        nodes'[n] = IF n = id /\ nodes[n] = "absent" THEN "active" ELSE nodes[n]
  BY DEF AddNode, LineageInv, TypeOK
<1>3. \A n \in Node : Live(n) => Live(n)'
  BY <1>2 DEF Live
<1>4. \A f, t : <<f, t>> \in EdgePairs => Live(f)' /\ Live(t)'
  BY <1>3, LivePairs
<1>5. ASSUME NEW f \in Node, NEW t \in Node
      PROVE  /\ Live(f)' /\ Live(t)' =>
                  /\ out[<<f, t>>] = (IF <<f, t>> \in EdgePairs THEN 1 ELSE 0)
                  /\ in[<<t, f>>] = out[<<f, t>>]
             /\ ~Live(f)' => out[<<f, t>>] = 0 /\ in[<<f, t>>] = 0
             /\ nodes'[t] = "absent" => out[<<f, t>>] = 0 /\ in[<<f, t>>] = 0
  <2>1. <<f, t>> \in EdgePairs => Live(f) /\ Live(t)
    BY LivePairs
  <2>2. Live(f)' => Live(f) \/ nodes[f] = "absent"
    BY <1>2 DEF Live
  <2>3. Live(t)' => Live(t) \/ nodes[t] = "absent"
    BY <1>2 DEF Live
  <2>4. nodes[f] = "absent" => ~Live(f)
    BY DEF Live
  <2>5. nodes'[t] = "absent" => nodes[t] = "absent"
    BY <1>2
  <2> QED
    BY <1>3, <2>1, <2>2, <2>3, <2>4, <2>5
       DEF LineageInv, IndexesAgree, NoneToAbsent
<1> QED
  BY <1>1, <1>4, <1>5, InvFromPairs DEF LineageInv, EdgesAcyclic

(* A change of state between two live states disturbs no index.            *)
LEMMA MoveStep ==
  ASSUME KeysDistinct, LineageInv, TypeOK', NEW id \in Node, Live(id),
         NEW s \in {"active", "updating"}, nodes' = [nodes EXCEPT ![id] = s],
         edges' \in {edges, WithEdgesUpdating(edges, id)},
         UNCHANGED <<out, in>>
  PROVE  LineageInv' /\ EdgePairs' = EdgePairs
<1>1. edges \in EdgeMap /\ HomeKeys(edges)
  BY TypeOKFolded DEF LineageInv
<1>2. HomeKeys(edges') /\ EdgePairs' = EdgePairs
  BY <1>1, UpdatingPairs DEF EdgePairs
<1>3. \A n \in Node : Live(n)' <=> Live(n)
  BY DEF LineageInv, TypeOK, Live
<1>4. \A n \in Node : nodes'[n] = "absent" <=> nodes[n] = "absent"
  BY DEF LineageInv, TypeOK, Live
<1>5. \A f, t : <<f, t>> \in EdgePairs => Live(f)' /\ Live(t)'
  BY <1>3, LivePairs
<1> QED
  BY <1>2, <1>3, <1>4, <1>5, InvFromPairs
     DEF LineageInv, IndexesAgree, NoneToAbsent, EdgesAcyclic

(* A removal: the edges go, the node's own lists go, what others' lists    *)
(* still say about it concerns no live table.                              *)
LEMMA MarkRemovedStep ==
  ASSUME KeysDistinct, LineageInv, TypeOK', NEW id \in Node,
         CanTransition(nodes[id], "removed"), MarkRemoved(id)
  PROVE  /\ LineageInv'
         /\ nodes' = [nodes EXCEPT ![id] = "removed"]
         /\ EdgePairs' = {a \in EdgePairs : id \notin {a[1], a[2]}}
         /\ answer' = "ok"
<1>1. /\ nodes' = [nodes EXCEPT ![id] = "removed"]
      /\ edges' = WithoutEdgesOf(edges, id)
      /\ out' = WithoutListOf(out, id) /\ in' = WithoutListOf(in, id)
      /\ answer' = "ok"
  BY DEF MarkRemoved
<1>2. /\ edges \in EdgeMap /\ HomeKeys(edges)
      /\ out \in Index /\ in \in Index
  BY TypeOKFolded DEF LineageInv
<1>3. /\ HomeKeys(edges')
      /\ EdgePairs' = {a \in EdgePairs : id \notin {a[1], a[2]}}
  BY <1>1, <1>2, RemovedPairs DEF EdgePairs
<1>4. ~Cyclic(EdgePairs')
  BY <1>3, CyclicMonotone DEF LineageInv, EdgesAcyclic
<1>5. \A n \in Node : /\ Live(n)' <=> Live(n) /\ n # id
                      /\ nodes'[n] = "absent" => nodes[n] = "absent"
  BY <1>1 DEF LineageInv, TypeOK, Live
<1>6. \A f, t : <<f, t>> \in EdgePairs' =>
                  <<f, t>> \in EdgePairs /\ f # id /\ t # id
  BY <1>3
<1>7. \A f, t : <<f, t>> \in EdgePairs' => Live(f)' /\ Live(t)'
  BY <1>5, <1>6, LivePairs
<1>8. ASSUME NEW f \in Node, NEW t \in Node
      PROVE  /\ Live(f)' /\ Live(t)' =>
                  /\ out'[<<f, t>>] = (IF <<f, t>> \in EdgePairs' THEN 1 ELSE 0)
                  /\ in'[<<t, f>>] = out'[<<f, t>>]
             /\ ~Live(f)' => out'[<<f, t>>] = 0 /\ in'[<<f, t>>] = 0
             /\ nodes'[t] = "absent" => out'[<<f, t>>] = 0 /\ in'[<<f, t>>] = 0
  <2>1. <<f, t>> \in Pair /\ <<t, f>> \in Pair
    BY DEF Pair
  <2>2. /\ out'[<<f, t>>] = IF f = id THEN 0 ELSE out[<<f, t>>]
        /\ in'[<<f, t>>] = IF f = id THEN 0 ELSE in[<<f, t>>]
        /\ in'[<<t, f>>] = IF t = id THEN 0 ELSE in[<<t, f>>]
    BY <1>1, <1>2, <2>1, IndexAt
  <2>3. f # id /\ t # id =>
          (<<f, t>> \in EdgePairs' <=> <<f, t>> \in EdgePairs)
    BY <1>3
  <2> QED
    BY <1>5, <2>2, <2>3 DEF LineageInv, IndexesAgree, NoneToAbsent
<1> QED
  BY <1>1, <1>3, <1>4, <1>7, <1>8, InvFromPairs

(* Adding an edge: refused as a cycle exactly when the recorded pairs      *)
(* would have one; otherwise the pair is recorded.                         *)
LEMMA AddEdgeStep ==
  ASSUME KeysDistinct, LineageInv, TypeOK', NEW f \in Node, NEW t \in Node,
         Live(f), Live(t), AddEdge(f, t)
  PROVE  /\ LineageInv' /\ nodes' = nodes
         /\ \/ /\ Cyclic(EdgePairs \cup {<<f, t>>})
               /\ answer' = "cycle" /\ EdgePairs' = EdgePairs
            \/ /\ ~Cyclic(EdgePairs \cup {<<f, t>>})
               /\ answer' = "ok" /\ EdgePairs' = EdgePairs \cup {<<f, t>>}
<1> DEFINE p == <<f, t>>
           k == KeyOf[p]
<1>1. /\ edges \in EdgeMap /\ HomeKeys(edges)
      /\ out \in Index /\ in \in Index
  BY TypeOKFolded DEF LineageInv
<1>2. p \in Pair /\ <<t, f>> \in Pair
  BY DEF Pair
<1>3. PairsOf(edges) = {q \in Pair : edges[KeyOf[q]] # NoEdge}
  BY <1>1, PairsByKey
<1>4. CASE edges[k] # NoEdge
  <2>1. OverwriteEdge(f, t)
    BY <1>4 DEF AddEdge
  <2>2. /\ edges' = [edges EXCEPT ![KeyOf[<<f, t>>]] = ActiveEdge(f, t)]
        /\ answer' = "ok" /\ UNCHANGED <<nodes, out, in>>
    BY <2>1 DEF OverwriteEdge
  <2>3. HomeKeys(edges') /\ EdgePairs' = EdgePairs \cup {p}
    <3>1. HomeKeys(edges') /\ PairsOf(edges') = PairsOf(edges) \cup {<<f, t>>}
      BY <1>1, <2>2, StoredPairs DEF Stored
    <3> QED
      BY <3>1 DEF EdgePairs
  <2>4. p \in EdgePairs
    BY <1>2, <1>3, <1>4 DEF EdgePairs
  <2>5. EdgePairs' = EdgePairs
    BY <2>3, <2>4
  <2>6. EdgePairs \cup {p} = EdgePairs
    BY <2>4
  <2>7. ~Cyclic(EdgePairs)
    BY DEF LineageInv, EdgesAcyclic
  <2>8. \A x, y : <<x, y>> \in EdgePairs => Live(x)' /\ Live(y)'
    BY <2>2, LivePairs DEF Live
  <2>9. ASSUME NEW x \in Node, NEW y \in Node
        PROVE  /\ Live(x)' /\ Live(y)' =>
                    /\ out[<<x, y>>] = (IF <<x, y>> \in EdgePairs THEN 1 ELSE 0)
                    /\ in[<<y, x>>] = out[<<x, y>>]
               /\ ~Live(x)' => out[<<x, y>>] = 0 /\ in[<<x, y>>] = 0
               /\ nodes'[y] = "absent" => out[<<x, y>>] = 0 /\ in[<<x, y>>] = 0
    BY <2>2 DEF LineageInv, IndexesAgree, NoneToAbsent, Live
  <2>10. HomeKeys(edges') /\ ~Cyclic(EdgePairs')
    BY <2>3, <2>5, <2>7
  <2>11. \A x, y : <<x, y>> \in EdgePairs' => Live(x)' /\ Live(y)'
    BY <2>5, <2>8
  <2>12. ASSUME NEW x \in Node, NEW y \in Node
         PROVE  /\ Live(x)' /\ Live(y)' =>
                     /\ out'[<<x, y>>] = (IF <<x, y>> \in EdgePairs' THEN 1 ELSE 0)
                     /\ in'[<<y, x>>] = out'[<<x, y>>]
                /\ ~Live(x)' => out'[<<x, y>>] = 0 /\ in'[<<x, y>>] = 0
                /\ nodes'[y] = "absent" => out'[<<x, y>>] = 0 /\ in'[<<x, y>>] = 0
    <3>1. out' = out /\ in' = in
      BY <2>2
    <3> QED
      BY <2>5, <2>9, <3>1
  <2>13. LineageInv'
    BY <2>10, <2>11, <2>12, InvFromPairs
  <2> QED
    BY <2>2, <2>5, <2>6, <2>7, <2>13
<1>5. CASE edges[k] = NoEdge
  <2>1. InsertEdge(f, t)
    BY <1>5 DEF AddEdge
  <2>2. \A q \in Pair : AddValue(out, p)[q] = IF q = p THEN out[q] + 1 ELSE out[q]
    BY <1>1 DEF AddValue, Index
  <2>3. \A q \in Pair : out[q] \in Nat
    BY <1>1 DEF Index
  <2>4. Arcs(AddValue(out, p)) = Arcs(out) \cup {p}
    BY <1>2, <2>2, <2>3 DEF Arcs
  <2>5. Cyclic(Arcs(AddValue(out, p))) <=> Cyclic(EdgePairs \cup {p})
    BY <2>4, CheckDecides
  <2>6. CASE Cyclic(EdgePairs \cup {p})
    <3>1. Refuse("cycle")
      BY <2>1, <2>5, <2>6 DEF InsertEdge
    <3>2. answer' = "cycle"
      BY <3>1 DEF Refuse
    <3> QED
      BY <2>6, <3>1, <3>2, RefusedStep
  <2>7. CASE ~Cyclic(EdgePairs \cup {p})
    <3>1. /\ edges' = [edges EXCEPT ![KeyOf[<<f, t>>]] = ActiveEdge(f, t)]
          /\ out' = AddValue(out, <<f, t>>) /\ in' = AddValue(in, <<t, f>>)
          /\ answer' = "ok" /\ nodes' = nodes
      BY <2>1, <2>5, <2>7 DEF InsertEdge
    <3>2. HomeKeys(edges') /\ EdgePairs' = EdgePairs \cup {p}
      <4>1. HomeKeys(edges') /\ PairsOf(edges') = PairsOf(edges) \cup {<<f, t>>}
        BY <1>1, <3>1, StoredPairs DEF Stored
      <4> QED
        BY <4>1 DEF EdgePairs
    <3>3. p \notin EdgePairs
      BY <1>3, <1>5 DEF EdgePairs
    <3>4. \A x \in Node : (Live(x)' <=> Live(x))
      BY <3>1 DEF Live
    <3>5. \A x, y : <<x, y>> \in EdgePairs' => Live(x)' /\ Live(y)'
      BY <3>2, <3>4, LivePairs
    <3>6. ASSUME NEW x \in Node, NEW y \in Node
          PROVE  /\ Live(x)' /\ Live(y)' =>
                      /\ out'[<<x, y>>] = (IF <<x, y>> \in EdgePairs' THEN 1 ELSE 0)
                      /\ in'[<<y, x>>] = out'[<<x, y>>]
                 /\ ~Live(x)' => out'[<<x, y>>] = 0 /\ in'[<<x, y>>] = 0
                 /\ nodes'[y] = "absent" => out'[<<x, y>>] = 0 /\ in'[<<x, y>>] = 0
      <4>1. /\ out'[<<x, y>>] = IF <<x, y>> = <<f, t>> THEN out[<<x, y>>] + 1
                                                    ELSE out[<<x, y>>]
            /\ in'[<<x, y>>] = IF <<x, y>> = <<t, f>> THEN in[<<x, y>>] + 1
                                                   ELSE in[<<x, y>>]
            /\ in'[<<y, x>>] = IF <<y, x>> = <<t, f>> THEN in[<<y, x>>] + 1
                                                   ELSE in[<<y, x>>]
        BY <1>1, <1>2, <3>1, IndexAt
      <4>2. <<x, y>> = <<f, t>> <=> x = f /\ y = t
        OBVIOUS
      <4>3. <<x, y>> = <<t, f>> <=> x = t /\ y = f
        OBVIOUS
      <4>4. <<y, x>> = <<t, f>> <=> x = f /\ y = t
        OBVIOUS
      <4>5. <<x, y>> \in EdgePairs' <=> <<x, y>> \in EdgePairs \/ (x = f /\ y = t)
        BY <3>2, <4>2
      <4>6. nodes[f] # "absent" /\ nodes[t] # "absent"
        BY DEF Live
      <4>7. /\ Live(x) /\ Live(y) =>
                 /\ out[<<x, y>>] = (IF <<x, y>> \in EdgePairs THEN 1 ELSE 0)
                 /\ in[<<y, x>>] = out[<<x, y>>]
            /\ ~Live(x) => out[<<x, y>>] = 0 /\ in[<<x, y>>] = 0
            /\ nodes[y] = "absent" => out[<<x, y>>] = 0 /\ in[<<x, y>>] = 0
        BY DEF LineageInv, IndexesAgree, NoneToAbsent
      <4> QED
        BY <3>1, <3>3, <3>4, <4>1, <4>2, <4>3, <4>4, <4>5, <4>6, <4>7
    <3>7. LineageInv'
      BY <2>7, <3>2, <3>5, <3>6, InvFromPairs
    <3> QED
      BY <2>7, <3>1, <3>2, <3>7
  <2> QED
    BY <2>6, <2>7
<1> QED
  BY <1>4, <1>5

(* Deleting an edge forgets its pair, in both indexes.                     *)
LEMMA DeleteEdgeStep ==
  ASSUME KeysDistinct, LineageInv, TypeOK', NEW f \in Node, NEW t \in Node,
         DeleteEdge(f, t)
  PROVE  /\ LineageInv' /\ nodes' = nodes /\ answer' = "ok"
         /\ EdgePairs' = EdgePairs \ {<<f, t>>}
<1> DEFINE p == <<f, t>>
           k == KeyOf[p]
<1>1. /\ edges \in EdgeMap /\ HomeKeys(edges)
      /\ out \in Index /\ in \in Index
  BY TypeOKFolded DEF LineageInv
<1>2. p \in Pair /\ <<t, f>> \in Pair
  BY DEF Pair
<1>3. PairsOf(edges) = {q \in Pair : edges[KeyOf[q]] # NoEdge}
  BY <1>1, PairsByKey
<1>4. nodes' = nodes /\ answer' = "ok"
  BY DEF DeleteEdge
<1>5. CASE edges[k] = NoEdge
  <2>1. UNCHANGED <<edges, out, in>>
    BY <1>5 DEF DeleteEdge
  <2>2. EdgePairs' = EdgePairs /\ p \notin EdgePairs
    BY <1>3, <1>5, <2>1 DEF EdgePairs
  <2>3. \A x, y : <<x, y>> \in EdgePairs => Live(x)' /\ Live(y)'
    BY <1>4, LivePairs DEF Live
  <2>4. LineageInv'
    BY <1>1, <1>4, <2>1, <2>2, <2>3, InvFromPairs
       DEF LineageInv, IndexesAgree, NoneToAbsent, EdgesAcyclic, Live
  <2> QED
    BY <1>4, <2>2, <2>4
<1>6. CASE edges[k] # NoEdge
  <2>1. /\ edges' = [edges EXCEPT ![KeyOf[<<f, t>>]] = NoEdge]
        /\ out' = RemoveValue(out, <<f, t>>) /\ in' = RemoveValue(in, <<t, f>>)
    BY <1>6 DEF DeleteEdge
  <2>2. HomeKeys(edges') /\ EdgePairs' = EdgePairs \ {p}
    <3>1. HomeKeys(edges') /\ PairsOf(edges') = PairsOf(edges) \ {<<f, t>>}
      BY <1>1, <2>1, ClearedPairs DEF Cleared
    <3> QED
      BY <3>1 DEF EdgePairs
  <2>3. p \in EdgePairs
    BY <1>2, <1>3, <1>6 DEF EdgePairs
  <2>4. ~Cyclic(EdgePairs')
    BY <2>2, CyclicMonotone DEF LineageInv, EdgesAcyclic
  <2>5. \A x \in Node : (Live(x)' <=> Live(x))
    BY <1>4 DEF Live
  <2>6. \A x, y : <<x, y>> \in EdgePairs' => Live(x)' /\ Live(y)'
    BY <2>2, <2>5, LivePairs
  <2>7. Live(f) /\ Live(t)
    BY <2>3, LivePairs
  <2>8. ASSUME NEW x \in Node, NEW y \in Node
        PROVE  /\ Live(x)' /\ Live(y)' =>
                    /\ out'[<<x, y>>] = (IF <<x, y>> \in EdgePairs' THEN 1 ELSE 0)
                    /\ in'[<<y, x>>] = out'[<<x, y>>]
               /\ ~Live(x)' => out'[<<x, y>>] = 0 /\ in'[<<x, y>>] = 0
               /\ nodes'[y] = "absent" => out'[<<x, y>>] = 0 /\ in'[<<x, y>>] = 0
    <3>1. /\ out[<<x, y>>] \in Nat /\ in[<<x, y>>] \in Nat /\ in[<<y, x>>] \in Nat
          /\ out'[<<x, y>>] =
               IF <<x, y>> = <<f, t>>
               THEN (IF out[<<x, y>>] = 0 THEN 0 ELSE out[<<x, y>>] - 1)
               ELSE out[<<x, y>>]
          /\ in'[<<x, y>>] =
               IF <<x, y>> = <<t, f>>
               THEN (IF in[<<x, y>>] = 0 THEN 0 ELSE in[<<x, y>>] - 1)
               ELSE in[<<x, y>>]
          /\ in'[<<y, x>>] =
               IF <<y, x>> = <<t, f>>
               THEN (IF in[<<y, x>>] = 0 THEN 0 ELSE in[<<y, x>>] - 1)
               ELSE in[<<y, x>>]
      BY <1>1, <1>2, <2>1, IndexAt
    <3>2. <<x, y>> = <<f, t>> <=> x = f /\ y = t
      OBVIOUS
    <3>3. <<x, y>> = <<t, f>> <=> x = t /\ y = f
      OBVIOUS
    <3>4. <<y, x>> = <<t, f>> <=> x = f /\ y = t
      OBVIOUS
    <3>5. <<x, y>> \in EdgePairs' <=> <<x, y>> \in EdgePairs /\ ~(x = f /\ y = t)
      BY <2>2, <3>2
    <3>6. /\ Live(x) /\ Live(y) =>
               /\ out[<<x, y>>] = (IF <<x, y>> \in EdgePairs THEN 1 ELSE 0)
               /\ in[<<y, x>>] = out[<<x, y>>]
          /\ ~Live(x) => out[<<x, y>>] = 0 /\ in[<<x, y>>] = 0
          /\ nodes[y] = "absent" => out[<<x, y>>] = 0 /\ in[<<x, y>>] = 0
      BY DEF LineageInv, IndexesAgree, NoneToAbsent
    <3> QED
      BY <1>4, <2>3, <2>5, <2>7, <3>1, <3>2, <3>3, <3>4, <3>5, <3>6
  <2>9. LineageInv'
    BY <2>2, <2>4, <2>6, <2>8, InvFromPairs
  <2> QED
    BY <1>4, <2>2, <2>9
<1> QED
  BY <1>5, <1>6

-----------------------------------------------------------------------------
(* The theorems.                                                           *)

(* The calls of DependencyGraph that the calls of Lineage implement.       *)
PromisedStep == Promise!DepNext \/ UNCHANGED Promise!depVars

(* Both specifications mean the same by a cycle and a live table.          *)
LEMMA SameWords ==
  /\ \A A : Promise!Cyclic(A) <=> Cyclic(A)
  /\ \A id : Promise!Live(id) <=> Live(id)
  /\ \A from, to : Promise!CanTransition(from, to) <=> CanTransition(from, to)
<1>1. \A A : Promise!Cyclic(A) <=> Cyclic(A)
  BY DEF Cyclic, Tails, Promise!Cyclic, Promise!Tails
<1>2. \A id : Promise!Live(id) <=> Live(id)
  BY DEF Live, Promise!Live
<1>3. \A from, to : Promise!CanTransition(from, to) <=> CanTransition(from, to)
  BY DEF CanTransition, Promise!CanTransition
<1> QED
  BY <1>1, <1>2, <1>3

(* A change of state that is refused or that moves a table as promised.    *)
LEMMA MovePromised ==
  ASSUME NEW id \in Node, NEW to \in {"active", "updating", "removed"},
         \/ /\ CanTransition(nodes[id], to)
            /\ nodes' = [nodes EXCEPT ![id] = to]
            /\ EdgePairs' = IF to = "removed"
                            THEN {a \in EdgePairs : id \notin {a[1], a[2]}}
                            ELSE EdgePairs
            /\ answer' = "ok"
         \/ /\ ~CanTransition(nodes[id], to)
            /\ nodes' = nodes /\ EdgePairs' = EdgePairs
            /\ answer' = "bad transition"
  PROVE  PromisedStep
<1>1. Promise!Move(id, to)
  BY SameWords DEF Promise!Move
<1> QED
  BY <1>1 DEF PromisedStep, Promise!DepNext

(* Every call keeps the invariant and is a call of DependencyGraph.        *)
LEMMA EveryStep ==
  ASSUME KeysDistinct, LineageInv, TypeOK', Next
  PROVE  LineageInv' /\ PromisedStep
<1>1. ASSUME NEW id \in Node, AddNode(id)
      PROVE  LineageInv' /\ PromisedStep
  <2>1. LineageInv' /\ EdgePairs' = EdgePairs
    BY <1>1, AddNodeStep
  <2>2. Promise!Introduce(id)
    BY <1>1, <2>1 DEF AddNode, Promise!Introduce
  <2> QED
    BY <2>1, <2>2 DEF PromisedStep, Promise!DepNext
<1>2. ASSUME NEW id \in Node, MarkUpdating(id)
      PROVE  LineageInv' /\ PromisedStep
  <2>1. CASE CanTransition(nodes[id], "updating")
    <3>1. /\ nodes' = [nodes EXCEPT ![id] = "updating"]
          /\ edges' = WithEdgesUpdating(edges, id)
          /\ answer' = "ok" /\ UNCHANGED <<out, in>>
      BY <1>2, <2>1 DEF MarkUpdating
    <3>2. Live(id)
      BY <2>1 DEF CanTransition, Live
    <3>3. LineageInv' /\ EdgePairs' = EdgePairs
      BY <3>1, <3>2, MoveStep
    <3> QED
      BY <2>1, <3>1, <3>3, MovePromised
  <2>2. CASE ~CanTransition(nodes[id], "updating")
    <3>1. Refuse("bad transition")
      BY <1>2, <2>2 DEF MarkUpdating
    <3>2. answer' = "bad transition"
      BY <3>1 DEF Refuse
    <3> QED
      BY <2>2, <3>1, <3>2, RefusedStep, MovePromised
  <2> QED
    BY <2>1, <2>2
<1>3. ASSUME NEW id \in Node, MarkActive(id)
      PROVE  LineageInv' /\ PromisedStep
  <2>1. CASE CanTransition(nodes[id], "active")
    <3>1. /\ nodes' = [nodes EXCEPT ![id] = "active"]
          /\ edges' = edges
          /\ answer' = "ok" /\ UNCHANGED <<out, in>>
      BY <1>3, <2>1 DEF MarkActive
    <3>2. Live(id)
      BY <2>1 DEF CanTransition, Live
    <3>3. LineageInv' /\ EdgePairs' = EdgePairs
      BY <3>1, <3>2, MoveStep
    <3> QED
      BY <2>1, <3>1, <3>3, MovePromised
  <2>2. CASE ~CanTransition(nodes[id], "active")
    <3>1. Refuse("bad transition")
      BY <1>3, <2>2 DEF MarkActive
    <3>2. answer' = "bad transition"
      BY <3>1 DEF Refuse
    <3> QED
      BY <2>2, <3>1, <3>2, RefusedStep, MovePromised
  <2> QED
    BY <2>1, <2>2
<1>4. ASSUME NEW id \in Node, MarkRemoved(id)
      PROVE  LineageInv' /\ PromisedStep
  <2>1. CASE CanTransition(nodes[id], "removed")
    BY <1>4, <2>1, MarkRemovedStep, MovePromised
  <2>2. CASE ~CanTransition(nodes[id], "removed")
    <3>1. Refuse("bad transition")
      BY <1>4, <2>2 DEF MarkRemoved
    <3>2. answer' = "bad transition"
      BY <3>1 DEF Refuse
    <3> QED
      BY <2>2, <3>1, <3>2, RefusedStep, MovePromised
  <2> QED
    BY <2>1, <2>2
<1>5. ASSUME NEW f \in Node, NEW t \in Node, AddEdge(f, t)
      PROVE  LineageInv' /\ PromisedStep
  <2>1. CASE Live(f) /\ Live(t)
    <3>1. /\ LineageInv' /\ nodes' = nodes
          /\ \/ /\ Cyclic(EdgePairs \cup {<<f, t>>})
                /\ answer' = "cycle" /\ EdgePairs' = EdgePairs
             \/ /\ ~Cyclic(EdgePairs \cup {<<f, t>>})
                /\ answer' = "ok" /\ EdgePairs' = EdgePairs \cup {<<f, t>>}
      BY <1>5, <2>1, AddEdgeStep
    <3>2. Promise!Depend(f, t)
      BY <2>1, <3>1, SameWords DEF Promise!Depend
    <3> QED
      BY <3>1, <3>2 DEF PromisedStep, Promise!DepNext
  <2>2. CASE ~(Live(f) /\ Live(t))
    <3>1. Refuse("unknown node")
      BY <1>5, <2>2 DEF AddEdge
    <3>2. LineageInv' /\ nodes' = nodes /\ EdgePairs' = EdgePairs
      BY <3>1, RefusedStep
    <3>3. answer' = "unknown node"
      BY <3>1 DEF Refuse
    <3>4. Promise!Depend(f, t)
      BY <2>2, <3>2, <3>3, SameWords DEF Promise!Depend
    <3> QED
      BY <3>2, <3>4 DEF PromisedStep, Promise!DepNext
  <2> QED
    BY <2>1, <2>2
<1>6. ASSUME NEW f \in Node, NEW t \in Node, DeleteEdge(f, t)
      PROVE  LineageInv' /\ PromisedStep
  <2>1. /\ LineageInv' /\ nodes' = nodes /\ answer' = "ok"
        /\ EdgePairs' = EdgePairs \ {<<f, t>>}
    BY <1>6, DeleteEdgeStep
  <2>2. Promise!Undepend(f, t)
    BY <2>1 DEF Promise!Undepend
  <2> QED
    BY <2>1, <2>2 DEF PromisedStep, Promise!DepNext
<1> QED
  BY <1>1, <1>2, <1>3, <1>4, <1>5, <1>6 DEF Next

(* The invariant holds of the empty graph.                                 *)
LEMMA InitInv == Init => LineageInv /\ EdgePairs = {}
<1> SUFFICES ASSUME Init PROVE LineageInv /\ EdgePairs = {}
  OBVIOUS
<1>1. TypeOK
  BY DEF Init, TypeOK, NodeState
<1>2. EdgePairs = {} /\ HomeKeys(edges) /\ EdgesOnlyLive
  BY DEF Init, EdgePairs, PairsOf, HomeKeys, EdgesOnlyLive
<1>3. ~Cyclic(EdgePairs)
  BY <1>2 DEF Cyclic, Tails
<1>4. \A f, t \in Node : out[<<f, t>>] = 0 /\ in[<<f, t>>] = 0
  BY DEF Init, Pair
<1>5. IndexesAgree /\ NoneToAbsent
  BY <1>2, <1>4 DEF IndexesAgree, NoneToAbsent
<1> QED
  BY <1>1, <1>2, <1>3, <1>5 DEF LineageInv, EdgesAcyclic

(* The invariant always holds when keys tell edges apart.                  *)
LEMMA InvAlways ==
  ASSUME KeysDistinct
  PROVE  Spec => []LineageInv
<1>1. LineageInv /\ TypeOK' /\ [Next]_lineageVars => LineageInv'
  <2>1. CASE Next
    BY <2>1, EveryStep
  <2>2. CASE UNCHANGED lineageVars
    BY <2>2 DEF lineageVars, LineageInv, EdgesOnlyLive, IndexesAgree, NoneToAbsent,
                EdgesAcyclic, EdgePairs, Live
  <2> QED
    BY <2>1, <2>2
<1>2. Init => LineageInv
  BY InitInv
<1> QED
  BY <1>1, <1>2, TypeCorrect, PTL DEF Spec

(* No edge of the map joins a table that is unknown or removed.            *)
THEOREM LiveEdgesOnly ==
  ASSUME KeysDistinct
  PROVE  Spec => []EdgesOnlyLive
<1>1. LineageInv => EdgesOnlyLive
  BY DEF LineageInv
<1> QED
  BY <1>1, InvAlways, PTL

(* The two indexes mirror the edge map between live tables.                *)
THEOREM IndexesMirrorEdges ==
  ASSUME KeysDistinct
  PROVE  Spec => []IndexesAgree
<1>1. LineageInv => IndexesAgree
  BY DEF LineageInv
<1> QED
  BY <1>1, InvAlways, PTL

(* The stale entries a removal leaves behind never mislead the cycle check.*)
THEOREM CycleCheckCorrect ==
  ASSUME KeysDistinct
  PROVE  Spec => []CycleCheckExact
<1>1. LineageInv => CycleCheckExact
  BY CheckDecides DEF CycleCheckExact
<1> QED
  BY <1>1, InvAlways, PTL

(* With distinct keys the recorded edges never form a cycle.               *)
THEOREM NoCycles ==
  ASSUME KeysDistinct
  PROVE  Spec => []EdgesAcyclic
<1>1. LineageInv => EdgesAcyclic
  BY DEF LineageInv
<1> QED
  BY <1>1, InvAlways, PTL

(* The graph implements its abstract specification: every call records,    *)
(* forgets, moves and answers as DependencyGraph says.                     *)
THEOREM PromiseKept ==
  ASSUME KeysDistinct
  PROVE  Spec => KeepsPromise
<1>1. Init => Promise!DepInit
  BY InitInv DEF Init, Promise!DepInit
<1>2. LineageInv /\ TypeOK' /\ [Next]_lineageVars =>
        [Promise!DepNext]_(Promise!depVars)
  <2>1. CASE Next
    BY <2>1, EveryStep DEF PromisedStep
  <2>2. CASE UNCHANGED lineageVars
    BY <2>2 DEF lineageVars, Promise!depVars, EdgePairs
  <2> QED
    BY <2>1, <2>2
<1> QED
  BY <1>1, <1>2, InvAlways, TypeCorrect, PTL
     DEF Spec, KeepsPromise, Promise!DepSpec
=============================================================================
