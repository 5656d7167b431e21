----------------------------- MODULE WalkProofs ----------------------------
(***************************************************************************)
(* Proofs about a walk over a graph that changes under it, for any set of  *)
(* tables, any keys and any number of changes.                             *)
(***************************************************************************)
EXTENDS Walk, LineageProofs, FiniteSetTheorems, TLAPS

-----------------------------------------------------------------------------
(* Reachability.                                                           *)

(* Whatever holds root and is never left by an arc holds all that root     *)
(* reaches.                                                                *)
LEMMA ReachedWithin ==
  ASSUME NEW r, NEW A \in SUBSET Pair, NEW S, r \in S,
         \A a \in A : a[1] \in S => a[2] \in S
  PROVE  ReachedFrom(r, A) \subseteq S
<1> DEFINE T == S \cap Heads(A)
<1>1. \A a \in A : a[1] \in T \cup {r} => a[2] \in T
  BY DEF Heads
<1>2. T \in SUBSET Heads(A)
  OBVIOUS
<1> HIDE DEF T
<1>3. ReachedFrom(r, A) \subseteq T
  BY <1>1, <1>2 DEF ReachedFrom
<1> QED
  BY <1>3 DEF T

(* One more arc from root or from what it reaches reaches its end.         *)
LEMMA ReachedStep ==
  ASSUME NEW r, NEW A \in SUBSET Pair, NEW a \in A,
         a[1] = r \/ a[1] \in ReachedFrom(r, A)
  PROVE  a[2] \in ReachedFrom(r, A)
<1>1. a[2] \in Heads(A)
  BY DEF Heads
<1>2. ASSUME NEW S \in SUBSET Heads(A),
             \A b \in A : b[1] \in S \cup {r} => b[2] \in S
      PROVE  a[2] \in S
  BY <1>2 DEF ReachedFrom
<1> QED
  BY <1>1, <1>2 DEF ReachedFrom

(* More arcs reach no less.                                                *)
LEMMA ReachedMonotone ==
  ASSUME NEW r, NEW A \in SUBSET Pair, NEW B \in SUBSET Pair, A \subseteq B
  PROVE  ReachedFrom(r, A) \subseteq ReachedFrom(r, B)
<1> DEFINE S == ReachedFrom(r, B) \cup {r}
<1>1. \A a \in A : a[1] \in S => a[2] \in S
  BY ReachedStep
<1>2. ASSUME NEW n \in ReachedFrom(r, A)
      PROVE  n \in ReachedFrom(r, B)
  <2> DEFINE T == ReachedFrom(r, B) \cap Heads(A)
  <2>1. \A a \in A : a[1] \in T \cup {r} => a[2] \in T
    BY ReachedStep DEF Heads
  <2>2. T \in SUBSET Heads(A)
    OBVIOUS
  <2> HIDE DEF T
  <2>3. n \in T
    BY <1>2, <2>1, <2>2 DEF ReachedFrom
  <2> QED
    BY <2>3 DEF T
<1> QED
  BY <1>2

-----------------------------------------------------------------------------
(* The direction of a walk.                                                *)

LEMMA DirectedArcs ==
  ASSUME NEW A \in SUBSET Pair
  PROVE  /\ Directed(A) \in SUBSET Pair
         /\ \A f, t \in Node : <<f, t>> \in Directed(A) <=>
              IF upstream THEN <<t, f>> \in A ELSE <<f, t>> \in A
<1>1. \A a \in A : a[1] \in Node /\ a[2] \in Node /\ a = <<a[1], a[2]>>
  BY DEF Pair
<1>2. Reversed(A) \in SUBSET Pair
  BY <1>1 DEF Reversed, Pair
<1>3. ASSUME NEW f \in Node, NEW t \in Node
      PROVE  <<f, t>> \in Reversed(A) <=> <<t, f>> \in A
  <2>1. ASSUME <<f, t>> \in Reversed(A) PROVE <<t, f>> \in A
    <3>1. PICK a \in A : <<f, t>> = <<a[2], a[1]>>
      BY <2>1 DEF Reversed
    <3> QED
      BY <1>1, <3>1
  <2>2. ASSUME <<t, f>> \in A PROVE <<f, t>> \in Reversed(A)
    BY <2>2 DEF Reversed
  <2> QED
    BY <2>1, <2>2
<1> QED
  BY <1>2, <1>3 DEF Directed

LEMMA DirectedMonotone ==
  ASSUME NEW A \in SUBSET Pair, NEW B \in SUBSET Pair, A \subseteq B
  PROVE  Directed(A) \subseteq Directed(B)
BY DEF Directed, Reversed

-----------------------------------------------------------------------------
(* Distance from the root.                                                 *)

LEMMA WithinZero ==
  ASSUME NEW r \in Node, NEW A
  PROVE  Within(r, A, 0) = {r}
<1>1. ASSUME NEW n \in Within(r, A, 0)
      PROVE  n = r
  <2>1. PICK j \in 0 .. 0 : \E path \in [0 .. j -> Node] : path[0] = r /\ path[j] = n
    BY <1>1 DEF Within
  <2> QED
    BY <2>1
<1>2. r \in Within(r, A, 0)
  <2> DEFINE path == [i \in 0 .. 0 |-> r]
  <2>1. path \in [0 .. 0 -> Node] /\ path[0] = r /\ 0 \in 0 .. 0
    OBVIOUS
  <2>2. \A i \in 0 .. 0 - 1 : <<path[i], path[i + 1]>> \in A
    OBVIOUS
  <2> HIDE DEF path
  <2> QED
    BY <2>1, <2>2 DEF Within
<1> QED
  BY <1>1, <1>2

(* One arc more: what lies within k + 1 arcs lies within k of them, or is  *)
(* where an arc from there leads.                                          *)
LEMMA WithinStep ==
  ASSUME NEW r, NEW A \in SUBSET Pair, NEW k \in Nat
  PROVE  \A n : n \in Within(r, A, k + 1) <=>
                 \/ n \in Within(r, A, k)
                 \/ n \in Node /\ \E f \in Within(r, A, k) : <<f, n>> \in A
<1>1. ASSUME NEW n \in Within(r, A, k + 1), n \notin Within(r, A, k)
      PROVE  n \in Node /\ \E f \in Within(r, A, k) : <<f, n>> \in A
  <2>0. PICK j \in 0 .. k + 1 : \E path \in [0 .. j -> Node] :
          /\ path[0] = r /\ path[j] = n
          /\ \A i \in 0 .. j - 1 : <<path[i], path[i + 1]>> \in A
    BY <1>1 DEF Within
  <2>1. PICK path \in [0 .. j -> Node] :
          /\ path[0] = r /\ path[j] = n
          /\ \A i \in 0 .. j - 1 : <<path[i], path[i + 1]>> \in A
    BY <2>0
  <2>2. n \in Node
    BY <1>1 DEF Within
  <2>3. j = k + 1
    <3>1. SUFFICES ASSUME j \in 0 .. k PROVE FALSE
      BY <2>1
    <3> QED
      BY <1>1, <2>1, <2>2, <3>1 DEF Within
  <2> DEFINE short == [i \in 0 .. k |-> path[i]]
  <2>4. short \in [0 .. k -> Node] /\ short[0] = r /\ short[k] = path[k]
    BY <2>1, <2>3
  <2>5. \A i \in 0 .. k - 1 : <<short[i], short[i + 1]>> \in A
    BY <2>1, <2>3
  <2>6. path[k] \in Node /\ k \in 0 .. k
    BY <2>3
  <2> HIDE DEF short
  <2>7. path[k] \in Within(r, A, k)
    BY <2>4, <2>5, <2>6 DEF Within
  <2>8. <<path[k], n>> \in A
    BY <2>1, <2>3
  <2> QED
    BY <2>2, <2>7, <2>8
<1>2. ASSUME NEW n \in Within(r, A, k)
      PROVE  n \in Within(r, A, k + 1)
  <2>1. PICK j \in 0 .. k : \E path \in [0 .. j -> Node] :
          /\ path[0] = r /\ path[j] = n
          /\ \A i \in 0 .. j - 1 : <<path[i], path[i + 1]>> \in A
    BY <1>2 DEF Within
  <2>2. j \in 0 .. k + 1 /\ n \in Node
    BY <1>2 DEF Within
  <2> QED
    BY <2>1, <2>2 DEF Within
<1>3. ASSUME NEW n \in Node, NEW f \in Within(r, A, k), <<f, n>> \in A
      PROVE  n \in Within(r, A, k + 1)
  <2>0. PICK j \in 0 .. k : \E path \in [0 .. j -> Node] :
          /\ path[0] = r /\ path[j] = f
          /\ \A i \in 0 .. j - 1 : <<path[i], path[i + 1]>> \in A
    BY <1>3 DEF Within
  <2>1. PICK path \in [0 .. j -> Node] :
          /\ path[0] = r /\ path[j] = f
          /\ \A i \in 0 .. j - 1 : <<path[i], path[i + 1]>> \in A
    BY <2>0
  <2> DEFINE long == [i \in 0 .. j + 1 |-> IF i = j + 1 THEN n ELSE path[i]]
  <2>2. long \in [0 .. j + 1 -> Node] /\ long[0] = r /\ long[j + 1] = n
    BY <2>1
  <2>3. \A i \in 0 .. (j + 1) - 1 : <<long[i], long[i + 1]>> \in A
    BY <1>3, <2>1
  <2>4. j + 1 \in 0 .. k + 1
    OBVIOUS
  <2> HIDE DEF long
  <2> QED
    BY <2>2, <2>3, <2>4 DEF Within
<1> QED
  BY <1>1, <1>2, <1>3

(* A level that finds a table makes the visited ones more.                 *)
LEMMA VisitedCount ==
  ASSUME NEW S \in SUBSET Node, NEW more \in SUBSET Node, more \cap S = {}
  PROVE  /\ Cardinality(S) \in Nat /\ Cardinality(S \cup more) \in Nat
         /\ Cardinality(S) <= Cardinality(S \cup more)
         /\ more # {} => Cardinality(S) + 1 <= Cardinality(S \cup more)
         /\ Cardinality(S) <= Cardinality(Node) /\ Cardinality(Node) \in Nat
<1>1. IsFiniteSet(Node) /\ Cardinality(Node) \in Nat
  BY FS_CardinalityType, LineageAssumption
<1>2. IsFiniteSet(S) /\ IsFiniteSet(S \cup more) /\ Cardinality(S) <= Cardinality(Node)
  <2>1. S \cup more \in SUBSET Node
    OBVIOUS
  <2> QED
    BY <1>1, <2>1, FS_Subset
<1>3. Cardinality(S) \in Nat /\ Cardinality(S \cup more) \in Nat
  BY <1>2, FS_CardinalityType
<1>4. Cardinality(S) <= Cardinality(S \cup more)
  <2>1. S \in SUBSET (S \cup more)
    OBVIOUS
  <2> QED
    BY <1>2, <2>1, FS_Subset
<1>5. ASSUME more # {} PROVE Cardinality(S) + 1 <= Cardinality(S \cup more)
  <2>1. PICK t : t \in more
    BY <1>5
  <2>2. t \notin S
    BY <2>1
  <2>3. Cardinality(S \cup {t}) = Cardinality(S) + 1
    BY <1>2, <2>2, FS_AddElement
  <2>4. S \cup {t} \in SUBSET (S \cup more)
    BY <2>1
  <2>5. Cardinality(S \cup {t}) <= Cardinality(S \cup more)
    BY <1>2, <2>4, FS_Subset
  <2> QED
    BY <2>3, <2>5
<1> QED
  BY <1>1, <1>2, <1>3, <1>4, <1>5

-----------------------------------------------------------------------------
(* The invariant.  What was returned is what was visited, once each; an    *)
(* arc that lasted leaves no table behind the frontier, and everything     *)
(* visited was reached along arcs that were there.  Inside a level, what   *)
(* was found is new and was found once; an arc that lasts from the         *)
(* frontier is still to be looked at, or its end was found; and only arcs  *)
(* that were there are looked at.  Levels are never more than tables       *)
(* visited, and fewer while there is a frontier to go on from, so the      *)
(* bound on level is never met; and while no arc comes or goes, a level is *)
(* a distance.                                                             *)

ResultIsVisited ==
  \A n \in Node : result[n] = IF n \in visited \ {root} THEN 1 ELSE 0

FrontierOnce == \A n \in Node : frontier[n] \in {0, 1}

FoundOnce ==
  /\ seen \cap visited = {}
  /\ \A n \in Node : next[n] = IF n \in seen THEN 1 ELSE 0

Kept == Walking => root \in visited /\ always \subseteq Arcs(out) /\ Arcs(out) \subseteq ever

NothingBehind ==
  \A a \in Directed(always) : a[1] \in visited \ Members(frontier) => a[2] \in visited

NothingMissed ==
  advancing => \A a \in Directed(always) :
    a[1] \in Members(frontier) => pending[a] > 0 \/ a[2] \in visited \cup seen

LooksFollowArcs ==
  /\ \A p \in Pair : pending[p] > 0 => p[1] \in Members(frontier) /\ p \in Directed(ever)
  /\ \A t \in seen : \E f \in Members(frontier) : <<f, t>> \in Directed(ever)

AllReached == visited \ {root} \subseteq ReachedFrom(root, Directed(ever))

AdvanceAlone ==
  /\ advancing => Walking /\ Members(frontier) # {}
  /\ ~advancing => pending = NothingPending /\ seen = {} /\ next = Empty

IdleEmpty ==
  ~Walking =>
    visited = {} /\ frontier = Empty /\ result = Empty
      /\ always = {} /\ ever = {} /\ level = 0

LevelCounted ==
  /\ level <= Cardinality(visited)
  /\ Members(frontier) # {} => level + 1 <= Cardinality(visited)

WalkInv ==
  /\ WalkTypeOK
  /\ ResultIsVisited /\ FrontierOnce /\ FoundOnce
  /\ Kept
  /\ NothingBehind /\ NothingMissed /\ LooksFollowArcs /\ AllReached
  /\ AdvanceAlone /\ IdleEmpty
  /\ LevelCounted
  /\ NearestFirst

LEMMA ArcsArePairs == Arcs(out) \in SUBSET Pair /\ Arcs(out)' \in SUBSET Pair
BY DEF Arcs

LEMMA LevelZero == 0 \in 0 .. Cardinality(Node)
<1>1. Cardinality(Node) \in Nat
  BY FS_CardinalityType, LineageAssumption
<1> QED
  BY <1>1

LEMMA DirectedEmpty == Directed({}) = {}
BY DEF Directed, Reversed

(* Lists of which nothing is known but how often they hold each id.        *)
LEMMA EmptyList ==
  /\ Empty \in [Node -> Nat] /\ Members(Empty) = {}
  /\ \A n \in Node : Empty[n] = 0
  /\ NothingPending \in [Pair -> Nat]
  /\ \A p \in Pair : NothingPending[p] = 0
BY DEF Empty, NothingPending, Members

LEMMA OneMore ==
  ASSUME NEW S, NEW list \in [S -> Nat], NEW t \in S
  PROVE  /\ AddValue(list, t) \in [S -> Nat]
         /\ AddValue(list, t)[t] = list[t] + 1
         /\ \A n \in S : n # t => AddValue(list, t)[n] = list[n]
BY DEF AddValue

LEMMA OneLess ==
  ASSUME NEW S, NEW list \in [S -> Nat], NEW t \in S
  PROVE  /\ RemoveValue(list, t) \in [S -> Nat]
         /\ \A n \in S : n # t => RemoveValue(list, t)[n] = list[n]
         /\ \A n \in S : RemoveValue(list, t)[n] <= list[n]
BY DEF RemoveValue

(* A target list holds exactly the ends of the arcs in the walk's          *)
(* direction.                                                              *)
LEMMA ListedArcs ==
  ASSUME TypeOK, NEW p \in Pair
  PROVE  Listed(p) \in Nat /\ (Listed(p) > 0 <=> p \in Directed(Arcs(out)))
<1>1. p = <<p[1], p[2]>> /\ p[1] \in Node /\ p[2] \in Node /\ <<p[2], p[1]>> \in Pair
  BY DEF Pair
<1>2. out \in [Pair -> Nat]
  BY DEF TypeOK
<1>3. p \in Directed(Arcs(out)) <=>
        IF upstream THEN <<p[2], p[1]>> \in Arcs(out) ELSE <<p[1], p[2]>> \in Arcs(out)
  BY <1>1, ArcsArePairs, DirectedArcs
<1> QED
  BY <1>1, <1>2, <1>3 DEF Listed, Arcs

(* No walk is going on: the first state, and the state after a walk.       *)
NoWalk ==
  /\ root = NoRoot /\ upstream = FALSE /\ frontier = Empty /\ visited = {}
  /\ advancing = FALSE /\ pending = NothingPending /\ seen = {} /\ next = Empty
  /\ result = Empty /\ level = 0 /\ always = {} /\ ever = {}

LEMMA NoWalkInv == NoWalk => WalkInv
<1> SUFFICES ASSUME NoWalk PROVE WalkInv
  OBVIOUS
<1> USE DEF NoWalk
<1>1. WalkTypeOK
  BY LevelZero, EmptyList DEF WalkTypeOK
<1>2. ResultIsVisited /\ FrontierOnce /\ FoundOnce
  BY EmptyList DEF ResultIsVisited, FrontierOnce, FoundOnce
<1>3. NothingBehind /\ NothingMissed
  BY DirectedEmpty DEF NothingBehind, NothingMissed
<1>4. LooksFollowArcs
  BY EmptyList DEF LooksFollowArcs
<1>5. AllReached
  BY DEF AllReached
<1>6. LevelCounted
  BY FS_EmptySet, EmptyList DEF LevelCounted
<1>7. Kept /\ AdvanceAlone /\ IdleEmpty /\ NearestFirst
  BY DEF Kept, AdvanceAlone, IdleEmpty, NearestFirst, Walking
<1> QED
  BY <1>1, <1>2, <1>3, <1>4, <1>5, <1>6, <1>7 DEF WalkInv

LEMMA InitWalkInv == WalkInit => WalkInv
BY NoWalkInv DEF WalkInit, NoWalk

LEMMA StartStep ==
  ASSUME WalkInv, NEW id \in Node, NEW up \in BOOLEAN, Start(id, up)
  PROVE  WalkInv'
<1>1. /\ root' = id /\ upstream' = up /\ visited' = {id}
      /\ frontier' = AddValue(Empty, id)
      /\ always' = Arcs(out) /\ ever' = Arcs(out) /\ out' = out /\ level' = level
      /\ UNCHANGED <<advancing, pending, seen, next, result>>
  BY DEF Start, advanceVars
<1>2. /\ WalkTypeOK /\ level = 0 /\ result = Empty
      /\ advancing = FALSE /\ pending = NothingPending /\ seen = {} /\ next = Empty
  BY DEF WalkInv, IdleEmpty, AdvanceAlone, Start, WalkTypeOK
<1>3. /\ frontier' \in [Node -> Nat] /\ frontier'[id] = 1
      /\ \A n \in Node : n # id => frontier'[n] = 0
  BY <1>1, EmptyList, OneMore
<1>4. Members(frontier)' = {id}
  BY <1>3 DEF Members
<1>5. WalkTypeOK'
  <2>1. level' \in 0 .. Cardinality(Node)
    BY <1>1, <1>2, LevelZero
  <2> QED
    BY <1>1, <1>2, <1>3, <1>4, <2>1, EmptyList, ArcsArePairs DEF WalkTypeOK
<1>6. ResultIsVisited' /\ FrontierOnce' /\ FoundOnce'
  BY <1>1, <1>2, <1>3, EmptyList DEF ResultIsVisited, FrontierOnce, FoundOnce
<1>7. Kept'
  BY <1>1 DEF Kept, Arcs
<1>8. NothingBehind' /\ NothingMissed' /\ AllReached'
  BY <1>1, <1>2, <1>4 DEF NothingBehind, NothingMissed, AllReached
<1>9. LooksFollowArcs'
  BY <1>1, <1>2, EmptyList DEF LooksFollowArcs
<1>10. AdvanceAlone' /\ IdleEmpty'
  <2>1. ~advancing' /\ root' # NoRoot
    BY <1>1, <1>2, WalkAssumption
  <2>2. AdvanceAlone'
    BY <1>1, <1>2, <2>1 DEF AdvanceAlone
  <2>3. Walking'
    BY <2>1 DEF Walking
  <2>4. IdleEmpty'
    BY <2>3 DEF IdleEmpty
  <2> QED
    BY <2>2, <2>4
<1>11. LevelCounted'
  <2>1. Cardinality(visited)' = 1
    BY <1>1, FS_Singleton
  <2>2. level' = 0
    BY <1>1, <1>2
  <2> QED
    BY <2>1, <2>2 DEF LevelCounted
<1>12. NearestFirst'
  <2>1. Within(id, Directed(always)', 0) = {id}
    BY WithinZero
  <2> QED
    BY <1>1, <1>2, <2>1 DEF NearestFirst
<1> QED
  BY <1>5, <1>6, <1>7, <1>8, <1>9, <1>10, <1>11, <1>12 DEF WalkInv

(* What a level looks at are the arcs the graph has when the level begins. *)
LEMMA NextLevelStep ==
  ASSUME TypeOK, WalkInv, NextLevel
  PROVE  WalkInv'
<1>1. /\ Walking /\ Members(frontier) # {} /\ advancing' = TRUE
      /\ pending' = [p \in Pair |-> frontier[p[1]] * Listed(p)]
      /\ UNCHANGED <<out, root, upstream, frontier, visited, seen, next, result,
                     level, always, ever>>
  BY DEF NextLevel, cursorVars, historyVars, Done
<1>2. WalkTypeOK /\ seen = {} /\ next = Empty
  BY DEF WalkInv, AdvanceAlone, NextLevel
<1>3. always \subseteq Arcs(out) /\ Arcs(out) \subseteq ever
      /\ always \in SUBSET Pair /\ ever \in SUBSET Pair /\ Arcs(out) \in SUBSET Pair
  BY <1>1, <1>2, ArcsArePairs DEF WalkInv, Kept, WalkTypeOK
<1>4. ASSUME NEW p \in Pair
      PROVE  /\ pending'[p] \in Nat
             /\ pending'[p] > 0 <=> p[1] \in Members(frontier) /\ p \in Directed(Arcs(out))
  <2>1. p[1] \in Node /\ frontier[p[1]] \in {0, 1}
    BY DEF Pair, WalkInv, FrontierOnce
  <2>2. Listed(p) \in Nat /\ (Listed(p) > 0 <=> p \in Directed(Arcs(out)))
    BY ListedArcs
  <2>3. pending'[p] = frontier[p[1]] * Listed(p)
    BY <1>1
  <2>4. CASE frontier[p[1]] = 0
    <3>1. p[1] \notin Members(frontier)
      BY <2>4 DEF Members
    <3> QED
      BY <2>2, <2>3, <2>4, <3>1
  <2>5. CASE frontier[p[1]] = 1
    <3>1. p[1] \in Members(frontier)
      BY <2>1, <2>5 DEF Members
    <3> QED
      BY <2>2, <2>3, <2>5, <3>1
  <2> QED
    BY <2>1, <2>4, <2>5
<1>5. WalkTypeOK'
  <2>1. pending' \in [Pair -> Nat]
    BY <1>1, <1>4
  <2>2. Members(frontier)' = Members(frontier)
    BY <1>1 DEF Members
  <2> QED
    BY <1>1, <1>2, <2>1, <2>2 DEF WalkTypeOK
<1>6. ResultIsVisited' /\ FrontierOnce' /\ FoundOnce'
  BY <1>1 DEF WalkInv, ResultIsVisited, FrontierOnce, FoundOnce
<1>7. Kept'
  BY <1>1 DEF WalkInv, Kept, Walking, Arcs
<1>8. Directed(always)' = Directed(always) /\ Directed(ever)' = Directed(ever)
      /\ Members(frontier)' = Members(frontier)
  BY <1>1 DEF Directed, Members
<1>9. NothingBehind' /\ AllReached'
  BY <1>1, <1>8 DEF WalkInv, NothingBehind, AllReached
<1>10. NothingMissed'
  <2> SUFFICES ASSUME NEW a \in Directed(always), a[1] \in Members(frontier)
               PROVE  pending'[a] > 0
    BY <1>8 DEF NothingMissed
  <2>1. a \in Directed(Arcs(out)) /\ a \in Pair
    BY <1>3, DirectedMonotone, DirectedArcs
  <2> QED
    BY <1>4, <2>1
<1>11. LooksFollowArcs'
  <2>1. Directed(Arcs(out)) \subseteq Directed(ever)
    BY <1>3, DirectedMonotone
  <2> QED
    BY <1>1, <1>2, <1>4, <1>8, <2>1 DEF LooksFollowArcs
<1>12. AdvanceAlone' /\ IdleEmpty'
  BY <1>1, <1>8 DEF AdvanceAlone, IdleEmpty, Walking
<1>13. LevelCounted'
  BY <1>1, <1>8 DEF WalkInv, LevelCounted
<1>14. NearestFirst'
  BY <1>1 DEF WalkInv, NearestFirst, Walking, Within, Directed
<1> QED
  BY <1>5, <1>6, <1>7, <1>9, <1>10, <1>11, <1>12, <1>13, <1>14 DEF WalkInv

(* A target is collected at most once, whoever's list it is in.            *)
LEMMA LookStep ==
  ASSUME WalkInv, NEW f \in Node, NEW t \in Node, Look(f, t)
  PROVE  WalkInv'
<1> DEFINE arc == <<f, t>>
<1>1. /\ advancing /\ pending[arc] > 0 /\ pending' = RemoveValue(pending, arc)
      /\ UNCHANGED <<out, root, upstream, frontier, visited, advancing, result,
                     level, always, ever>>
  BY DEF Look, cursorVars, historyVars
<1>2. \/ t \notin visited \cup seen /\ seen' = seen \cup {t} /\ next' = AddValue(next, t)
      \/ t \in visited \cup seen /\ seen' = seen /\ next' = next
  BY DEF Look, Fresh, Collect
<1>3. WalkTypeOK /\ arc \in Pair
  BY DEF WalkInv, Pair
<1>4. /\ pending' \in [Pair -> Nat]
      /\ \A p \in Pair : pending'[p] <= pending[p]
      /\ \A p \in Pair : p # arc => pending'[p] = pending[p]
  <2>1. pending \in [Pair -> Nat]
    BY <1>3 DEF WalkTypeOK
  <2> HIDE DEF arc
  <2> QED
    BY <1>1, <1>3, <2>1, OneLess
<1>5. f \in Members(frontier) /\ arc \in Directed(ever)
  BY <1>1, <1>3 DEF WalkInv, LooksFollowArcs
<1>6. seen \subseteq seen' /\ seen' \subseteq Node /\ t \in visited \cup seen'
      /\ seen' \subseteq seen \cup {t}
  BY <1>2, <1>3 DEF WalkTypeOK
<1>7. next' \in [Node -> Nat] /\ FoundOnce'
  <2>1. next \in [Node -> Nat] /\ FoundOnce
    BY <1>3 DEF WalkInv, WalkTypeOK
  <2>2. CASE t \notin visited \cup seen /\ seen' = seen \cup {t} /\ next' = AddValue(next, t)
    <3>1. /\ next' \in [Node -> Nat] /\ next'[t] = next[t] + 1
          /\ \A n \in Node : n # t => next'[n] = next[n]
      BY <2>1, <2>2, OneMore
    <3> QED
      BY <1>1, <2>1, <2>2, <3>1 DEF FoundOnce
  <2>3. CASE seen' = seen /\ next' = next
    BY <1>1, <2>1, <2>3 DEF FoundOnce
  <2> QED
    BY <1>2, <2>2, <2>3
<1>8. Directed(always)' = Directed(always) /\ Directed(ever)' = Directed(ever)
      /\ Members(frontier)' = Members(frontier)
  BY <1>1 DEF Directed, Members
<1> HIDE DEF arc
<1>9. WalkTypeOK'
  BY <1>1, <1>3, <1>4, <1>6, <1>7, <1>8 DEF WalkTypeOK
<1>10. ResultIsVisited' /\ FrontierOnce'
  BY <1>1 DEF WalkInv, ResultIsVisited, FrontierOnce
<1>11. Kept'
  BY <1>1 DEF WalkInv, Kept, Walking, Arcs
<1>12. NothingBehind' /\ AllReached'
  BY <1>1, <1>8 DEF WalkInv, NothingBehind, AllReached
<1>13. NothingMissed'
  <2> SUFFICES ASSUME NEW a \in Directed(always), a[1] \in Members(frontier)
               PROVE  pending'[a] > 0 \/ a[2] \in visited \cup seen'
    BY <1>1, <1>8 DEF NothingMissed
  <2>1. a \in Pair
    BY <1>3, DirectedArcs DEF WalkTypeOK
  <2>2. pending[a] > 0 \/ a[2] \in visited \cup seen
    BY <1>1 DEF WalkInv, NothingMissed
  <2>3. CASE a = arc
    BY <1>6, <2>3 DEF arc
  <2>4. CASE a # arc
    BY <1>4, <1>6, <2>1, <2>2, <2>4
  <2> QED
    BY <2>3, <2>4
<1>14. LooksFollowArcs'
  <2>1. LooksFollowArcs /\ pending \in [Pair -> Nat]
    BY <1>3 DEF WalkInv, WalkTypeOK
  <2>2. \A p \in Pair : pending'[p] > 0 => pending[p] > 0
    BY <1>4, <2>1
  <2>3. \A n \in seen' : \E g \in Members(frontier) : <<g, n>> \in Directed(ever)
    <3>1. \A n \in seen : \E g \in Members(frontier) : <<g, n>> \in Directed(ever)
      BY <2>1 DEF LooksFollowArcs
    <3> QED
      BY <1>5, <1>6, <3>1 DEF arc
  <2> QED
    BY <1>8, <2>1, <2>2, <2>3 DEF LooksFollowArcs
<1>15. AdvanceAlone' /\ IdleEmpty'
  BY <1>1, <1>8 DEF WalkInv, AdvanceAlone, IdleEmpty, Walking
<1>16. LevelCounted'
  BY <1>1, <1>8 DEF WalkInv, LevelCounted
<1>17. NearestFirst'
  BY <1>1 DEF WalkInv, NearestFirst, Walking, Within, Directed
<1> QED
  BY <1>7, <1>9, <1>10, <1>11, <1>12, <1>13, <1>14, <1>15, <1>16, <1>17 DEF WalkInv

(* At the end of a level, the next frontier is what the level found.       *)
LEMMA EndLevelStep ==
  ASSUME WalkInv, EndLevel
  PROVE  /\ WalkInv'
         /\ level' = level + 1
<1>1. /\ advancing = TRUE /\ pending = NothingPending
      /\ frontier' = next /\ visited' = visited \cup Members(next)
      /\ result' = Appended(result, next)
      /\ advancing' = FALSE /\ seen' = {} /\ next' = Empty
      /\ level' = IF level = Cardinality(Node) THEN level ELSE level + 1
      /\ UNCHANGED <<out, root, upstream, pending, always, ever>>
  <2>1. advancing \in BOOLEAN
    BY DEF WalkInv, WalkTypeOK
  <2> QED
    BY <2>1 DEF EndLevel, MarkFound
<1>2. WalkTypeOK /\ FoundOnce /\ Walking /\ Members(frontier) # {} /\ root \in visited
  BY <1>1 DEF WalkInv, AdvanceAlone, Kept
<1>3. Members(next) = seen /\ Members(frontier)' = seen /\ visited' = visited \cup seen
  <2>1. Members(next) = seen
    BY <1>2 DEF FoundOnce, Members, WalkTypeOK
  <2> QED
    BY <1>1, <2>1 DEF Members
<1>4. seen \subseteq Node /\ visited \subseteq Node /\ seen \cap visited = {}
      /\ Members(frontier) \subseteq visited
  BY <1>2 DEF WalkTypeOK, FoundOnce
<1>5. ResultIsVisited'
  <2> SUFFICES ASSUME NEW n \in Node
               PROVE  result[n] + next[n] = IF n \in (visited \cup seen) \ {root} THEN 1 ELSE 0
    BY <1>1, <1>3 DEF ResultIsVisited, Appended
  <2>1. result[n] = IF n \in visited \ {root} THEN 1 ELSE 0
    BY DEF WalkInv, ResultIsVisited
  <2>2. next[n] = IF n \in seen THEN 1 ELSE 0
    BY <1>2 DEF FoundOnce
  <2>3. n \in seen => n \notin visited /\ n # root
    BY <1>2, <1>4
  <2> QED
    BY <2>1, <2>2, <2>3
<1>6. FrontierOnce' /\ FoundOnce'
  BY <1>1, <1>2, EmptyList DEF FrontierOnce, FoundOnce
<1>7. WalkTypeOK'
  <2>1. level' \in 0 .. Cardinality(Node)
    <3>1. Cardinality(Node) \in Nat
      BY FS_CardinalityType, LineageAssumption
    <3>2. level \in 0 .. Cardinality(Node)
      BY <1>2 DEF WalkTypeOK
    <3> QED
      BY <1>1, <3>1, <3>2
  <2>2. result' \in [Node -> Nat]
    BY <1>1, <1>2 DEF Appended, WalkTypeOK
  <2>3. Members(frontier)' \subseteq visited' /\ visited' \subseteq Node
    BY <1>3, <1>4
  <2> QED
    BY <1>1, <1>2, <2>1, <2>2, <2>3, EmptyList DEF WalkTypeOK
<1>8. Kept'
  BY <1>1, <1>3 DEF WalkInv, Kept, Walking, Arcs
<1>9. Directed(always)' = Directed(always) /\ Directed(ever)' = Directed(ever)
  BY <1>1 DEF Directed
<1>10. ASSUME NEW a \in Directed(always), a[1] \in visited
       PROVE  a[2] \in visited \cup seen
  <2>1. a \in Pair
    BY <1>2, DirectedArcs DEF WalkTypeOK
  <2>2. ~(pending[a] > 0)
    BY <1>1, <2>1, EmptyList
  <2>3. CASE a[1] \in Members(frontier)
    BY <1>1, <2>2, <2>3 DEF WalkInv, NothingMissed
  <2>4. CASE a[1] \notin Members(frontier)
    BY <1>10, <2>4 DEF WalkInv, NothingBehind
  <2> QED
    BY <2>3, <2>4
<1>11. NothingBehind' /\ NothingMissed'
  BY <1>1, <1>3, <1>9, <1>10 DEF NothingBehind, NothingMissed
<1>12. LooksFollowArcs'
  BY <1>1, EmptyList DEF LooksFollowArcs
<1>13. AllReached'
  <2>1. ReachedFrom(root, Directed(ever))' = ReachedFrom(root, Directed(ever))
    BY <1>1, <1>9
  <2>2. ASSUME NEW t \in seen
        PROVE  t \in ReachedFrom(root, Directed(ever))
    <3>1. PICK f \in Members(frontier) : <<f, t>> \in Directed(ever)
      BY DEF WalkInv, LooksFollowArcs
    <3>2. f = root \/ f \in ReachedFrom(root, Directed(ever))
      BY <1>4 DEF WalkInv, AllReached
    <3>3. Directed(ever) \in SUBSET Pair
      BY <1>2, DirectedArcs DEF WalkTypeOK
    <3> DEFINE a == <<f, t>>
    <3>4. a \in Directed(ever) /\ a[1] = f /\ a[2] = t
      BY <3>1
    <3> HIDE DEF a
    <3> QED
      BY <3>2, <3>3, <3>4, ReachedStep
  <2>3. visited \ {root} \subseteq ReachedFrom(root, Directed(ever))
    BY DEF WalkInv, AllReached
  <2> QED
    BY <1>1, <1>3, <2>1, <2>2, <2>3 DEF AllReached
<1>14. AdvanceAlone' /\ IdleEmpty'
  BY <1>1, <1>2 DEF WalkInv, AdvanceAlone, IdleEmpty, Walking
<1>15. level' = level + 1 /\ LevelCounted'
  <2> DEFINE before == Cardinality(visited)
             after == Cardinality(visited \cup seen)
             all == Cardinality(Node)
  <2>1. /\ before \in Nat /\ after \in Nat /\ all \in Nat
        /\ before <= after /\ before <= all
        /\ seen # {} => before + 1 <= after
    BY <1>4, VisitedCount
  <2>2. level + 1 <= before
    BY <1>2 DEF WalkInv, LevelCounted
  <2>3. level \in 0 .. all
    BY <1>2 DEF WalkTypeOK
  <2>4. Members(frontier)' = seen /\ Cardinality(visited)' = after
        /\ level' = IF level = all THEN level ELSE level + 1
    BY <1>1, <1>3
  <2> HIDE DEF before, after, all
  <2>5. level' = level + 1
    BY <2>1, <2>2, <2>3, <2>4
  <2>6. level + 1 <= after /\ (seen # {} => level + 1 + 1 <= after)
    BY <2>1, <2>2, <2>3
  <2> QED
    BY <2>4, <2>5, <2>6 DEF LevelCounted
<1>16. NearestFirst'
  <2> SUFFICES ASSUME always = ever
               PROVE  visited \cup seen = Within(root, Directed(always), level + 1)
    <3>1. Within(root, Directed(always), level)' = Within(root, Directed(always), level')
      BY <1>1 DEF Within, Directed
    <3> QED
      BY <1>1, <1>3, <1>15, <3>1 DEF NearestFirst
  <2> DEFINE D == Directed(always)
  <2>1. D \in SUBSET Pair /\ level \in Nat
    <3>1. Cardinality(Node) \in Nat
      BY FS_CardinalityType, LineageAssumption
    <3> QED
      BY <1>2, <3>1, DirectedArcs DEF WalkTypeOK
  <2>2. visited = Within(root, D, level)
    BY <1>2 DEF WalkInv, NearestFirst
  <2>3. \A t \in seen : \E f \in visited : <<f, t>> \in D
    BY <1>4 DEF WalkInv, LooksFollowArcs
  <2>4. \A f, t : <<f, t>> \in D /\ f \in visited => t \in visited \cup seen
    <3> SUFFICES ASSUME NEW f, NEW t, <<f, t>> \in D, f \in visited
                 PROVE  t \in visited \cup seen
      OBVIOUS
    <3> DEFINE a == <<f, t>>
    <3>1. a \in D /\ a[1] = f /\ a[2] = t
      OBVIOUS
    <3> HIDE DEF a
    <3> QED
      BY <1>10, <3>1
  <2> HIDE DEF D
  <2>5. \A n : n \in Within(root, D, level + 1) <=>
          n \in visited \/ (n \in Node /\ \E f \in visited : <<f, n>> \in D)
    BY <2>1, <2>2, WithinStep
  <2>6. \A n : n \in Within(root, D, level + 1) <=> n \in visited \cup seen
    BY <1>4, <2>3, <2>4, <2>5
  <2> QED
    BY <2>6 DEF D
<1> QED
  BY <1>5, <1>6, <1>7, <1>8, <1>11, <1>12, <1>13, <1>14, <1>15, <1>16 DEF WalkInv

LEMMA ReturnStep == WalkInv /\ Return => WalkInv'
<1>1. ASSUME WalkInv, Return PROVE NoWalk'
  <2>1. advancing \in BOOLEAN
    BY <1>1 DEF WalkInv, WalkTypeOK
  <2>2. advancing = FALSE /\ pending = NothingPending /\ seen = {} /\ next = Empty
    BY <1>1, <2>1 DEF Return, WalkInv, AdvanceAlone
  <2>3. /\ root' = NoRoot /\ upstream' = FALSE /\ frontier' = Empty /\ visited' = {}
        /\ result' = Empty /\ level' = 0 /\ always' = {} /\ ever' = {}
    BY <1>1 DEF Return
  <2>4. UNCHANGED advanceVars
    BY <1>1 DEF Return
  <2> QED
    BY <2>2, <2>3, <2>4 DEF advanceVars, NoWalk
<1> QED
  BY <1>1, NoWalkInv, PTL

LEMMA GraphStepStep ==
  ASSUME WalkInv, GraphStep
  PROVE  WalkInv'
<1>1. /\ UNCHANGED <<root, upstream, frontier, visited, advancing, pending, seen,
                     next, result, level>>
      /\ always' = IF Walking THEN always \cap Arcs(out)' ELSE {}
      /\ ever' = IF Walking THEN ever \cup Arcs(out)' ELSE {}
  BY DEF GraphStep, cursorVars, advanceVars, Arcs
<1>2. WalkTypeOK
  BY DEF WalkInv
<1>3. always \in SUBSET Pair /\ ever \in SUBSET Pair
  BY <1>2 DEF WalkTypeOK
<1>4. always' \in SUBSET Pair /\ ever' \in SUBSET Pair
      /\ always' \subseteq always /\ ever \subseteq ever'
  <2>1. CASE Walking
    BY <1>1, <1>3, <2>1, ArcsArePairs
  <2>2. CASE ~Walking
    BY <1>1, <1>3, <2>2 DEF WalkInv, IdleEmpty
  <2> QED
    BY <2>1, <2>2
<1>5. Members(frontier)' = Members(frontier)
  BY <1>1 DEF Members
<1>6. WalkTypeOK'
  BY <1>1, <1>2, <1>4, <1>5 DEF WalkTypeOK
<1>7. ResultIsVisited' /\ FrontierOnce' /\ FoundOnce'
  BY <1>1 DEF WalkInv, ResultIsVisited, FrontierOnce, FoundOnce
<1>8. Kept'
  BY <1>1 DEF WalkInv, Kept, Walking
<1>9. Directed(always)' \subseteq Directed(always)
  BY <1>1, <1>4 DEF Directed, Reversed
<1>10. NothingBehind' /\ NothingMissed'
  BY <1>1, <1>5, <1>9 DEF WalkInv, NothingBehind, NothingMissed
<1>11. Directed(ever) \in SUBSET Pair /\ Directed(ever') \in SUBSET Pair
       /\ Directed(ever) \subseteq Directed(ever') /\ Directed(ever)' = Directed(ever')
  BY <1>1, <1>3, <1>4, DirectedArcs, DirectedMonotone DEF Directed
<1>12. LooksFollowArcs'
  BY <1>1, <1>5, <1>11 DEF WalkInv, LooksFollowArcs
<1>13. AllReached'
  <2> DEFINE D == Directed(ever)
             E == Directed(ever')
  <2>1. D \in SUBSET Pair /\ E \in SUBSET Pair /\ D \subseteq E
    BY <1>11
  <2>2. visited \ {root} \subseteq ReachedFrom(root, D)
    BY DEF WalkInv, AllReached
  <2> HIDE DEF D, E
  <2>3. ReachedFrom(root, D) \subseteq ReachedFrom(root, E)
    BY <2>1, ReachedMonotone
  <2>4. visited' \ {root'} \subseteq ReachedFrom(root', E)
    BY <1>1, <2>2, <2>3
  <2> QED
    BY <1>11, <2>4 DEF AllReached, E
<1>14. AdvanceAlone' /\ IdleEmpty'
  BY <1>1, <1>5 DEF WalkInv, AdvanceAlone, IdleEmpty, Walking
<1>15. LevelCounted'
  BY <1>1, <1>5 DEF WalkInv, LevelCounted
<1>16. NearestFirst'
  <2> SUFFICES ASSUME Walking, always' = ever'
               PROVE  visited = Within(root, Directed(always), level)'
    BY <1>1 DEF NearestFirst, Walking
  <2>1. always = always' /\ always = ever
    BY <1>4 DEF WalkInv, Kept
  <2>2. Within(root, Directed(always), level)' = Within(root, Directed(always), level)
    BY <1>1, <2>1 DEF Within, Directed
  <2> QED
    BY <2>1, <2>2 DEF WalkInv, NearestFirst
<1> QED
  BY <1>6, <1>7, <1>8, <1>10, <1>12, <1>13, <1>14, <1>15, <1>16 DEF WalkInv

(* A step of a walk or beside it is a step of the graph, or none.          *)
LEMMA WalkStepsLeaveGraph == [WalkNext]_walkVars => [Next]_lineageVars
<1> SUFFICES ASSUME [WalkNext]_walkVars PROVE [Next]_lineageVars
  OBVIOUS
<1>1. CASE \E id \in Node, up \in BOOLEAN : Start(id, up)
  BY <1>1 DEF Start, lineageVars
<1>2. CASE WalkStep
  BY <1>2 DEF WalkStep, NextLevel, Look, EndLevel, Return, lineageVars
<1>3. CASE GraphStep
  BY <1>3 DEF GraphStep
<1>4. CASE UNCHANGED walkVars
  BY <1>4 DEF walkVars, lineageVars
<1> QED
  BY <1>1, <1>2, <1>3, <1>4 DEF WalkNext

(* A walk only reads: to the graph, a run with walks is one without, so    *)
(* what holds of the graph alone holds under walks (Adjacency takes the    *)
(* read lock and copies).                                                  *)
THEOREM WalksLeaveGraph == WalkSpec => Spec
<1>1. WalkInit => Init
  BY DEF WalkInit
<1> QED
  BY <1>1, WalkStepsLeaveGraph, PTL DEF WalkSpec, Spec

LEMMA WalkInvStep == TypeOK /\ WalkInv /\ [WalkNext]_walkVars => WalkInv'
<1> SUFFICES ASSUME TypeOK, WalkInv, [WalkNext]_walkVars PROVE WalkInv'
  OBVIOUS
<1>1. CASE \E id \in Node, up \in BOOLEAN : Start(id, up)
  BY <1>1, StartStep
<1>2. CASE NextLevel
  BY <1>2, NextLevelStep
<1>3. CASE \E f, t \in Node : Look(f, t)
  BY <1>3, LookStep
<1>4. CASE EndLevel
  BY <1>4, EndLevelStep
<1>5. CASE Return
  BY <1>5, ReturnStep
<1>6. CASE GraphStep
  BY <1>6, GraphStepStep
<1>7. CASE UNCHANGED walkVars
  <2>1. UNCHANGED <<out, root, upstream, frontier, visited, advancing, pending,
                    seen, next, result, level, always, ever>>
    BY <1>7 DEF walkVars, cursorVars, advanceVars, historyVars
  <2>2. WalkTypeOK' /\ ResultIsVisited' /\ FrontierOnce' /\ FoundOnce'
    BY <2>1 DEF WalkInv, WalkTypeOK, ResultIsVisited, FrontierOnce, FoundOnce, Members
  <2>3. Kept' /\ NothingBehind' /\ NothingMissed' /\ LooksFollowArcs' /\ AllReached'
    BY <2>1 DEF WalkInv, Kept, NothingBehind, NothingMissed, LooksFollowArcs,
       AllReached, Walking, Directed, Members, Arcs
  <2>4. AdvanceAlone' /\ IdleEmpty' /\ LevelCounted' /\ NearestFirst'
    BY <2>1 DEF WalkInv, AdvanceAlone, IdleEmpty, LevelCounted, NearestFirst,
       Walking, Members, Within, Directed
  <2> QED
    BY <2>2, <2>3, <2>4 DEF WalkInv
<1> QED
  BY <1>1, <1>2, <1>3, <1>4, <1>5, <1>6, <1>7 DEF WalkNext, WalkStep

LEMMA WalkInvariant == WalkSpec => []WalkInv
<1>1. WalkSpec => []TypeOK
  BY WalksLeaveGraph, TypeCorrect, PTL
<1> QED
  BY <1>1, InitWalkInv, WalkInvStep, PTL DEF WalkSpec

-----------------------------------------------------------------------------
(* The cursor stays inside the tables the graph can name, whatever other   *)
(* requests do to the graph (walk.Cursor).                                 *)
THEOREM WalkTypeCorrect == WalkSpec => []WalkTypeOK
<1>1. WalkInv => WalkTypeOK
  BY DEF WalkInv
<1> QED
  BY <1>1, WalkInvariant, PTL

(* No walk returns a table twice, or its root, whatever happens to the     *)
(* graph between its levels and however many lists of one level name the   *)
(* table (collectTargets, markSeen).                                       *)
THEOREM WalkReturnsOnce == WalkSpec => []ReturnedOnce
<1>1. WalkInv => ReturnedOnce
  BY DEF WalkInv, ResultIsVisited, ReturnedOnce
<1> QED
  BY <1>1, WalkInvariant, PTL

(* A walk that has ended found all that stayed connected to its root, and  *)
(* nothing that no arc of its time connects to it.                         *)
THEOREM WalkFindsWhatLasted == WalkSpec => []FindsWhatLasted
<1>1. WalkInv => FindsWhatLasted
  <2> SUFFICES ASSUME WalkInv, Walking, Done, ~advancing
               PROVE  /\ ReachedFrom(root, Directed(always)) \ {root} \subseteq visited
                      /\ visited \ {root} \subseteq ReachedFrom(root, Directed(ever))
    BY DEF FindsWhatLasted
  <2>1. root \in visited /\ always \in SUBSET Pair /\ Members(frontier) = {}
    BY DEF WalkInv, Kept, WalkTypeOK, Done
  <2>2. Directed(always) \in SUBSET Pair
    BY <2>1, DirectedArcs
  <2>3. \A a \in Directed(always) : a[1] \in visited => a[2] \in visited
    BY <2>1 DEF WalkInv, NothingBehind
  <2>4. ReachedFrom(root, Directed(always)) \subseteq visited
    BY <2>1, <2>2, <2>3, ReachedWithin
  <2> QED
    BY <2>4 DEF WalkInv, AllReached
<1> QED
  BY <1>1, WalkInvariant, PTL

(* While nobody changes the graph, a walk goes by distance: after so many  *)
(* levels it has returned what lies that many arcs away, and nothing that  *)
(* lies farther (advance, drain).                                          *)
THEOREM WalkNearestFirst == WalkSpec => []NearestFirst
<1>1. WalkInv => NearestFirst
  BY DEF WalkInv
<1> QED
  BY <1>1, WalkInvariant, PTL

(* No walk locks the graph more often than there are tables: every level   *)
(* counts, and the count stays within the number of tables.  Inside a      *)
(* level every look leaves one place fewer to look at, and nothing adds to *)
(* them.  So a walk does not go round, however the graph changes (the      *)
(* loops of drain and advance).                                            *)
THEOREM WalkLevelsCount ==
  WalkSpec =>
    /\ [](level \in 0 .. Cardinality(Node))
    /\ [][EndLevel => level' = level + 1]_walkVars
    /\ [][\A f, t \in Node : Look(f, t) =>
            /\ pending'[<<f, t>>] < pending[<<f, t>>]
            /\ \A p \in Pair : pending'[p] <= pending[p]]_walkVars
<1>1. WalkInv => level \in 0 .. Cardinality(Node)
  BY DEF WalkInv, WalkTypeOK
<1>2. WalkInv /\ [WalkNext]_walkVars => [EndLevel => level' = level + 1]_walkVars
  BY EndLevelStep
<1>3. ASSUME WalkInv, NEW f \in Node, NEW t \in Node, Look(f, t)
      PROVE  /\ pending'[<<f, t>>] < pending[<<f, t>>]
             /\ \A p \in Pair : pending'[p] <= pending[p]
  <2>1. pending \in [Pair -> Nat] /\ <<f, t>> \in Pair
    BY <1>3 DEF WalkInv, WalkTypeOK, Pair
  <2>2. pending[<<f, t>>] > 0 /\ pending' = RemoveValue(pending, <<f, t>>)
    BY <1>3 DEF Look
  <2> QED
    BY <2>1, <2>2 DEF RemoveValue
<1>4. WalkInv /\ [WalkNext]_walkVars =>
        [\A f, t \in Node : Look(f, t) =>
           /\ pending'[<<f, t>>] < pending[<<f, t>>]
           /\ \A p \in Pair : pending'[p] <= pending[p]]_walkVars
  BY <1>3
<1> QED
  BY <1>1, <1>2, <1>4, WalkInvariant, PTL DEF WalkSpec

(* No level of a walk reads adjacency with a cycle in it, whether or not   *)
(* keys tell edges apart (AddEdge, ErrCycle).                              *)
THEOREM WalksSeeNoCycle == WalkSpec => []IndexAcyclic
BY WalksLeaveGraph, NoIndexCycles
=============================================================================
