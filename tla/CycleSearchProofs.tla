------------------------- MODULE CycleSearchProofs -------------------------
(***************************************************************************)
(* Proofs about the depth-first search, for any finite set of tables and   *)
(* any adjacency map over it.                                              *)
(***************************************************************************)
EXTENDS CycleSearch, FiniteSetTheorems, SequenceTheorems, TLAPS

-----------------------------------------------------------------------------
(* Adjacency maps and their arcs.                                          *)

(* What the proofs need of a map: lists of ids under ids.                  *)
ListMap(a) == DOMAIN a \subseteq Id /\ \A id \in Id : TargetsOf(a, id) \in Seq(Id)

LEMMA AdjacencyIsListMap ==
  ASSUME NEW a \in Adjacencies
  PROVE  ListMap(a)
<1>1. PICK keys \in SUBSET Id : a \in [keys -> TargetLists]
  BY DEF Adjacencies
<1>2. \A l \in TargetLists : l \in Seq(Id)
  BY CycleSearchAssumption, IsASeq DEF TargetLists
<1> QED
  BY <1>1, <1>2 DEF ListMap, TargetsOf

(* The copy with the edge appended has the arcs of the map and the edge.   *)
LEMMA WithArcAdds ==
  ASSUME NEW a, ListMap(a), NEW from \in Id, NEW to \in Id
  PROVE  /\ ListMap(WithArc(a, from, to))
         /\ ArcsOf(WithArc(a, from, to)) = ArcsOf(a) \cup {<<from, to>>}
<1> DEFINE new == WithArc(a, from, to)
           old == TargetsOf(a, from)
<1>1. /\ old \in Seq(Id)
      /\ Append(old, to) \in Seq(Id)
      /\ DOMAIN old = 1 .. Len(old)
      /\ DOMAIN Append(old, to) = 1 .. Len(old) + 1
      /\ \A i \in 1 .. Len(old) : Append(old, to)[i] = old[i]
      /\ Append(old, to)[Len(old) + 1] = to
      /\ Len(old) \in Nat
  BY AppendProperties, LenProperties DEF ListMap
<1>2. TargetsOf(new, from) = Append(old, to)
  BY DEF WithArc, TargetsOf
<1>3. \A id \in Id \ {from} : TargetsOf(new, id) = TargetsOf(a, id)
  BY DEF WithArc, TargetsOf
<1>4. ListMap(new)
  BY <1>1, <1>2, <1>3 DEF ListMap, WithArc
<1> DEFINE Leads(m, p) == \E i \in DOMAIN TargetsOf(m, p[1]) : TargetsOf(m, p[1])[i] = p[2]
<1>5. ASSUME NEW p \in Id \X Id
      PROVE  Leads(new, p) <=> Leads(a, p) \/ p = <<from, to>>
  <2>1. CASE p[1] = from
    <3>1. p = <<from, p[2]>>
      BY <2>1
    <3>2. Leads(new, p) <=> \E i \in 1 .. Len(old) + 1 : Append(old, to)[i] = p[2]
      BY <1>1, <1>2, <2>1
    <3>3. Leads(a, p) <=> \E i \in 1 .. Len(old) : old[i] = p[2]
      BY <1>1, <2>1
    <3> HIDE DEF Leads, old
    <3>4. Leads(new, p) <=> Leads(a, p) \/ p[2] = to
      BY <1>1, <3>2, <3>3
    <3> QED
      BY <3>1, <3>4
  <2>2. CASE p[1] # from
    BY <1>3, <2>2
  <2> QED
    BY <2>1, <2>2
<1>6. ArcsOf(new) = ArcsOf(a) \cup {<<from, to>>}
  <2>1. \A p : p \in ArcsOf(new) <=> p \in Id \X Id /\ Leads(new, p)
    BY DEF ArcsOf
  <2>2. \A p : p \in ArcsOf(a) <=> p \in Id \X Id /\ Leads(a, p)
    BY DEF ArcsOf
  <2> HIDE DEF Leads, new
  <2> QED
    BY <1>5, <2>1, <2>2
<1> QED
  BY <1>4, <1>6

(* HasCycle is called with the map, or with the map and the edge.          *)
LEMMA MapForArcs ==
  ASSUME NEW a \in Adjacencies, NEW q \in (Id \X Id) \cup {NoArc}
  PROVE  /\ ListMap(MapFor(a, q))
         /\ q = NoArc => ArcsOf(MapFor(a, q)) = ArcsOf(a)
         /\ q # NoArc => ArcsOf(MapFor(a, q)) = ArcsOf(a) \cup {q}
<1>1. CASE q = NoArc
  BY <1>1, AdjacencyIsListMap DEF MapFor
<1>2. CASE q # NoArc
  <2>1. q[1] \in Id /\ q[2] \in Id /\ q = <<q[1], q[2]>>
    BY <1>2
  <2> QED
    BY <1>2, <2>1, AdjacencyIsListMap, WithArcAdds DEF MapFor
<1> QED
  BY <1>1, <1>2

-----------------------------------------------------------------------------
(* Where the search can go.                                                *)
Leads(n, m) == \E i \in DOMAIN Targets(n) : Targets(n)[i] = m

LEMMA LeadsIsArc ==
  ASSUME NEW n \in Id, NEW m \in Id
  PROVE  Leads(n, m) <=> <<n, m>> \in ArcsOf(Searched)
BY DEF Leads, Targets, ArcsOf

(* A set of tables that each lead to one of the set is a cycle.            *)
LEMMA CycleFromSet ==
  ASSUME NEW S \in SUBSET Id, S # {}, \A n \in S : \E m \in S : Leads(n, m)
  PROVE  Cyclic(ArcsOf(Searched))
<1>1. \A n \in S : \E m \in S : <<n, m>> \in ArcsOf(Searched)
  BY LeadsIsArc
<1>2. ASSUME NEW n \in S
      PROVE  n \in Tails(ArcsOf(Searched))
  <2>1. PICK m \in S : <<n, m>> \in ArcsOf(Searched)
    BY <1>1
  <2>2. <<n, m>>[1] = n
    OBVIOUS
  <2> QED
    BY <2>1, <2>2 DEF Tails
<1> QED
  BY <1>1, <1>2 DEF Cyclic

(* And a cycle is one.                                                     *)
LEMMA SetFromCycle ==
  ASSUME Cyclic(ArcsOf(Searched))
  PROVE  \E S \in SUBSET Id : S # {} /\ \A n \in S : \E m \in S : Leads(n, m)
<1>1. PICK S \in SUBSET Tails(ArcsOf(Searched)) :
        S # {} /\ \A n \in S : \E m \in S : <<n, m>> \in ArcsOf(Searched)
  BY DEF Cyclic
<1>2. S \subseteq Id
  BY DEF Tails, ArcsOf
<1> QED
  BY <1>1, <1>2, LeadsIsArc

-----------------------------------------------------------------------------
(* The invariant of a search: visiting marks the tables on the stack, each *)
(* frame was called from the one below it, ...                             *)
MarksAreStack == visiting = {stack[i].id : i \in DOMAIN stack}

CalledFrom ==
  \A i \in 1 .. Len(stack) - 1 :
    /\ stack[i].at - 1 \in DOMAIN Targets(stack[i].id)
    /\ Targets(stack[i].id)[stack[i].at - 1] = stack[i + 1].id

(* ... the targets a frame is through with are visited, but the one it has *)
(* called visit for, ...                                                   *)
BehindVisited ==
  \A i \in DOMAIN stack : \A j \in DOMAIN Targets(stack[i].id) :
    j < stack[i].at =>
      \/ Targets(stack[i].id)[j] \in visited
      \/ i < Len(stack) /\ j = stack[i].at - 1

(* ... visited tables lead to visited tables only, and to no cycle, ...    *)
VisitedClosed ==
  \A n \in visited : \A j \in DOMAIN Targets(n) : Targets(n)[j] \in visited

VisitedAcyclic ==
  \A S \in SUBSET visited : S # {} => \E n \in S : \A m \in S : ~Leads(n, m)

(* ... and no key and no target has been forgotten or looked at too soon.  *)
KeysKnown == DOMAIN Searched \subseteq todo \cup visiting \cup visited

LookedBehind ==
  \A l \in looked :
    \/ l[1] \in visited
    \/ \E i \in DOMAIN stack : l[1] = stack[i].id /\ l[2] < stack[i].at

StackInv ==
  /\ MarksAreStack
  /\ NeverReentered
  /\ CalledFrom
  /\ BehindVisited
  /\ Len(stack) = Cardinality(visiting)

VisitedInv ==
  /\ visiting \cap visited = {}
  /\ VisitedClosed
  /\ VisitedAcyclic
  /\ KeysKnown
  /\ LookedBehind

SearchInv ==
  /\ SearchTypeOK
  /\ verdict = "none" => NoCall
  /\ Searching => StackInv /\ VisitedInv
  /\ ~Searching => stack = <<>>
  /\ Answered => (verdict = "cycle" <=> Cyclic(ArcsOf(Searched)))

-----------------------------------------------------------------------------
(* The stack: pushing a frame, going on to the next target, returning.     *)
LEMMA PushFrame ==
  ASSUME NEW s \in Seq(Frame), NEW f \in Frame
  PROVE  /\ Append(s, f) \in Seq(Frame)
         /\ Len(s) \in Nat /\ Len(Append(s, f)) = Len(s) + 1
         /\ DOMAIN s = 1 .. Len(s)
         /\ DOMAIN Append(s, f) = 1 .. Len(s) + 1
         /\ \A i \in 1 .. Len(s) : Append(s, f)[i] = s[i]
         /\ Append(s, f)[Len(s) + 1] = f
BY AppendProperties, LenProperties

LEMMA AdvanceFrame ==
  ASSUME stack \in Seq(Frame), stack # <<>>
  PROVE  /\ Len(stack) \in Nat \ {0}
         /\ DOMAIN stack = 1 .. Len(stack)
         /\ Top \in Frame
         /\ Advanced \in Seq(Frame)
         /\ Len(Advanced) = Len(stack)
         /\ DOMAIN Advanced = 1 .. Len(stack)
         /\ \A i \in 1 .. Len(stack) - 1 : Advanced[i] = stack[i]
         /\ Advanced[Len(stack)] = [id |-> Top.id, at |-> Top.at + 1]
<1>0. Len(stack) \in Nat \ {0}
  BY EmptySeq
<1>1. DOMAIN stack = 1 .. Len(stack) /\ Len(stack) \in 1 .. Len(stack)
  BY <1>0, LenProperties
<1>2. Top \in Frame
  BY <1>1, ElementOfSeq DEF Top
<1>3. [id |-> Top.id, at |-> Top.at + 1] \in Frame
  BY <1>2 DEF Frame
<1>4. /\ Advanced \in Seq(Frame) /\ Len(Advanced) = Len(stack)
      /\ \A j \in 1 .. Len(stack) :
           Advanced[j] = IF j = Len(stack) THEN [id |-> Top.id, at |-> Top.at + 1] ELSE stack[j]
  BY <1>1, <1>3, ExceptSeq DEF Advanced
<1>5. DOMAIN Advanced = 1 .. Len(stack)
  BY <1>4, LenProperties
<1>6. \A i \in 1 .. Len(stack) - 1 : i \in 1 .. Len(stack) /\ i # Len(stack)
  BY <1>0
<1>7. \A i \in 1 .. Len(stack) - 1 : Advanced[i] = stack[i]
  BY <1>4, <1>6
<1>8. Advanced[Len(stack)] = [id |-> Top.id, at |-> Top.at + 1]
  BY <1>1, <1>4
<1> QED
  BY <1>0, <1>1, <1>2, <1>4, <1>5, <1>7, <1>8

LEMMA PopFrame ==
  ASSUME stack \in Seq(Frame), stack # <<>>
  PROVE  LET rest == SubSeq(stack, 1, Len(stack) - 1) IN
         /\ rest \in Seq(Frame)
         /\ Len(rest) = Len(stack) - 1
         /\ DOMAIN rest = 1 .. Len(stack) - 1
         /\ \A i \in 1 .. Len(stack) - 1 : rest[i] = stack[i]
<1> DEFINE rest == SubSeq(stack, 1, Len(stack) - 1)
<1>1. Len(stack) \in Nat \ {0}
  BY EmptySeq
<1>2. \A i \in 1 .. Len(stack) - 1 : stack[i] \in Frame
  BY <1>1, ElementOfSeq
<1>3. /\ rest \in Seq(Frame)
      /\ Len(rest) = IF 1 <= Len(stack) - 1 THEN Len(stack) - 1 - 1 + 1 ELSE 0
      /\ \A i \in 1 .. Len(stack) - 1 - 1 + 1 : rest[i] = stack[1 + i - 1]
  BY <1>1, <1>2, SubSeqProperties
<1> HIDE DEF rest
<1>4. Len(rest) = Len(stack) - 1
  <2> DEFINE n == Len(stack)
  <2>1. n \in Nat \ {0}
    BY <1>1
  <2>2. Len(rest) = IF 1 <= n - 1 THEN n - 1 - 1 + 1 ELSE 0
    BY <1>3
  <2> HIDE DEF n
  <2>3. (IF 1 <= n - 1 THEN n - 1 - 1 + 1 ELSE 0) = n - 1
    BY <2>1
  <2>4. Len(rest) = n - 1
    BY <2>2, <2>3
  <2> QED
    BY <2>4 DEF n
<1>5. DOMAIN rest = 1 .. Len(stack) - 1
  BY <1>3, <1>4, LenProperties
<1>6. \A i \in 1 .. Len(stack) - 1 : rest[i] = stack[i]
  BY <1>1, <1>3
<1> QED
  BY <1>3, <1>4, <1>5, <1>6 DEF rest

(* A table that is visited after all it leads to closes no cycle.          *)
LEMMA VisitedGrows ==
  ASSUME VisitedClosed, VisitedAcyclic, NEW id \in Id \ visited,
         \A j \in DOMAIN Targets(id) : Targets(id)[j] \in visited,
         visited' = visited \cup {id}, Targets(id)' = Targets(id),
         \A n \in visited : Targets(n)' = Targets(n)
  PROVE  VisitedClosed' /\ VisitedAcyclic'
<1>1. VisitedClosed'
  BY DEF VisitedClosed
<1>2. \A n \in visited' : \A m : Leads(n, m)' => m \in visited
  BY DEF Leads, VisitedClosed
<1>3. \A n \in visited : \A m : Leads(n, m)' <=> Leads(n, m)
  BY DEF Leads
<1>4. ASSUME NEW S \in SUBSET visited', S # {},
             \A n \in S : \E m \in S : Leads(n, m)'
      PROVE  FALSE
  <2> DEFINE T == S \ {id}
  <2>1. T # {} /\ T \subseteq visited
    BY <1>2, <1>4
  <2>2. \A n \in T : \E m \in T : Leads(n, m)
    BY <1>2, <1>3, <1>4, <2>1
  <2> QED
    BY <2>1, <2>2 DEF VisitedAcyclic
<1> QED
  BY <1>1, <1>4 DEF VisitedAcyclic

-----------------------------------------------------------------------------
(* Every step of a search preserves the invariant.                         *)

(* While a search goes on its map stays the same.                          *)
LEMMA SameTargets ==
  ASSUME UNCHANGED argVars
  PROVE  /\ Searched' = Searched
         /\ \A n : Targets(n)' = Targets(n)
         /\ \A n, m : Leads(n, m)' <=> Leads(n, m)
<1>1. Searched' = Searched
  BY DEF argVars, Searched
<1> QED
  BY <1>1 DEF Targets, Leads

LEMMA VisitedPartKept ==
  ASSUME UNCHANGED argVars, visited' = visited, VisitedClosed, VisitedAcyclic
  PROVE  VisitedClosed' /\ VisitedAcyclic'
<1>1. VisitedClosed'
  BY SameTargets DEF VisitedClosed
<1>2. VisitedAcyclic'
  BY SameTargets DEF VisitedAcyclic
<1> QED
  BY <1>1, <1>2

LEMMA InitSearchInv == NoCall => SearchInv
<1> SUFFICES ASSUME NoCall PROVE SearchInv
  OBVIOUS
<1>1. adj \in Adjacencies
  <2>1. adj \in [{} -> TargetLists]
    BY DEF NoCall, EmptyMap
  <2> QED
    BY <2>1 DEF Adjacencies
<1>2. stack \in Seq(Frame)
  BY EmptySeq DEF NoCall
<1>3. SearchTypeOK
  BY <1>1, <1>2 DEF NoCall, SearchTypeOK
<1> QED
  BY <1>3 DEF SearchInv, NoCall, Searching, Answered

LEMMA AskKeepsInv ==
  ASSUME SearchInv, Ask
  PROVE  SearchInv'
<1>1. PICK a \in Adjacencies, q \in (Id \X Id) \cup {NoArc} :
        adj' = a /\ arc' = q /\ todo' = DOMAIN MapFor(a, q)
  BY DEF Ask
<1>2. Searched' = MapFor(a, q)
  BY <1>1 DEF Searched
<1>3. stack = <<>> /\ visiting = {} /\ visited = {} /\ looked = {}
  BY DEF SearchInv, Ask, NoCall
<1>4. stack' = <<>> /\ visiting' = {} /\ visited' = {} /\ looked' = {}
  BY <1>3 DEF Ask
<1>5. SearchTypeOK'
  BY <1>1, <1>4, MapForArcs, EmptySeq DEF SearchTypeOK, Ask, ListMap
<1>6. StackInv'
  <2>1. Len(stack') = 0 /\ DOMAIN stack' = {}
    BY <1>4, EmptySeq
  <2>2. Cardinality(visiting') = 0
    BY <1>4, FS_EmptySet
  <2> QED
    BY <1>4, <2>1, <2>2
       DEF StackInv, MarksAreStack, NeverReentered, CalledFrom, BehindVisited
<1>7. VisitedInv'
  BY <1>1, <1>2, <1>4
     DEF VisitedInv, VisitedClosed, VisitedAcyclic, KeysKnown, LookedBehind
<1> QED
  BY <1>5, <1>6, <1>7 DEF SearchInv, Ask, Searching, Answered

LEMMA EndKeysKeepsInv ==
  ASSUME SearchInv, EndKeys
  PROVE  SearchInv'
<1>1. UNCHANGED argVars
  BY DEF EndKeys
<1>2. StackInv /\ VisitedInv
  BY DEF SearchInv, EndKeys
<1>3. visiting = {}
  BY <1>2, EmptySeq DEF StackInv, MarksAreStack, EndKeys
<1>4. DOMAIN Searched \subseteq visited
  BY <1>2, <1>3 DEF VisitedInv, KeysKnown, EndKeys
<1>5. ~Cyclic(ArcsOf(Searched))
  <2> SUFFICES ASSUME Cyclic(ArcsOf(Searched)) PROVE FALSE
    OBVIOUS
  <2>1. PICK S \in SUBSET Id : S # {} /\ \A n \in S : \E m \in S : Leads(n, m)
    BY SetFromCycle
  <2>2. ASSUME NEW n \in S PROVE n \in visited
    <3>1. Targets(n) # <<>>
      BY <2>1 DEF Leads
    <3> QED
      BY <1>4, <3>1 DEF Targets, TargetsOf
  <2> QED
    BY <1>2, <2>1, <2>2 DEF VisitedInv, VisitedAcyclic
<1>6. verdict' = "acyclic" /\ stack' = <<>>
  BY DEF EndKeys
<1>7. SearchTypeOK'
  BY DEF SearchInv, SearchTypeOK, EndKeys, argVars
<1>8. Searched' = Searched
  BY <1>1, SameTargets
<1> QED
  BY <1>5, <1>6, <1>7, <1>8 DEF SearchInv, Searching, Answered

LEMMA ReturnKeepsInv ==
  ASSUME SearchInv, Return
  PROVE  SearchInv'
<1>1. NoCall'
  BY DEF Return, NoCall, EmptyMap
<1>2. NoCall' => SearchInv'
  BY InitSearchInv, PTL
<1> QED
  BY <1>1, <1>2

(* The lists of the map that is searched.                                  *)
LEMMA TargetsTyped ==
  ASSUME SearchTypeOK, NEW id \in Id
  PROVE  /\ Targets(id) \in Seq(Id)
         /\ Len(Targets(id)) \in Nat
         /\ DOMAIN Targets(id) = 1 .. Len(Targets(id))
         /\ \A j \in DOMAIN Targets(id) : Targets(id)[j] \in Id
<1>1. Targets(id) \in Seq(Id)
  BY MapForArcs DEF SearchTypeOK, Targets, Searched, ListMap
<1> QED
  BY <1>1, LenProperties, ElementOfSeq

(* The frames: typed, and the innermost is the last.                       *)
LEMMA FramesTyped ==
  ASSUME SearchTypeOK, stack # <<>>
  PROVE  /\ Len(stack) \in Nat \ {0}
         /\ DOMAIN stack = 1 .. Len(stack)
         /\ \A i \in 1 .. Len(stack) : stack[i].id \in Id /\ stack[i].at \in Nat \ {0}
         /\ Top = stack[Len(stack)] /\ Len(stack) \in 1 .. Len(stack)
<1>1. stack \in Seq(Frame)
  BY DEF SearchTypeOK
<1>2. Len(stack) \in Nat \ {0}
  BY <1>1, EmptySeq
<1>3. DOMAIN stack = 1 .. Len(stack)
  BY <1>1, LenProperties
<1>4. \A i \in 1 .. Len(stack) : stack[i] \in Frame
  BY <1>1, ElementOfSeq
<1> QED
  BY <1>2, <1>3, <1>4 DEF Frame, Top

(* Before the innermost visit goes on, all behind its place is visited.    *)
LEMMA TopBehindVisited ==
  ASSUME SearchTypeOK, StackInv, stack # <<>>
  PROVE  \A j \in DOMAIN Targets(Top.id) : j < Top.at => Targets(Top.id)[j] \in visited
BY FramesTyped DEF StackInv, BehindVisited

(* A table on the stack is found again: the tables on the stack are a      *)
(* cycle.                                                                  *)
LEMMA StackIsCycle ==
  ASSUME SearchTypeOK, StackInv, stack # <<>>,
         Top.at \in DOMAIN Targets(Top.id), Targets(Top.id)[Top.at] \in visiting
  PROVE  Cyclic(ArcsOf(Searched))
<1>1. visiting \subseteq Id /\ visiting # {}
  BY DEF SearchTypeOK
<1>2. ASSUME NEW n \in visiting
      PROVE  \E m \in visiting : Leads(n, m)
  <2>1. PICK i \in 1 .. Len(stack) : n = stack[i].id
    BY FramesTyped DEF StackInv, MarksAreStack
  <2>2. CASE i = Len(stack)
    BY <2>1, <2>2, FramesTyped DEF Leads
  <2>3. CASE i # Len(stack)
    <3>0. Len(stack) \in Nat \ {0}
      BY FramesTyped
    <3>1. i \in 1 .. Len(stack) - 1 /\ i + 1 \in 1 .. Len(stack)
      BY <2>3, <3>0
    <3>2. Leads(n, stack[i + 1].id)
      BY <2>1, <3>1 DEF StackInv, CalledFrom, Leads
    <3>3. stack[i + 1].id \in visiting
      BY <3>1, FramesTyped DEF StackInv, MarksAreStack
    <3> QED
      BY <3>2, <3>3
  <2> QED
    BY <2>2, <2>3
<1> QED
  BY <1>1, <1>2, CycleFromSet

(* The innermost frame has gone on to its next target, which is visited or *)
(* will be on the stack.                                                   *)
LEMMA AdvancedFrames ==
  ASSUME SearchTypeOK, stack # <<>>
  PROVE  /\ Advanced \in Seq(Frame)
         /\ Len(Advanced) = Len(stack)
         /\ DOMAIN Advanced = 1 .. Len(stack)
         /\ \A i \in 1 .. Len(stack) : Advanced[i].id = stack[i].id
         /\ \A i \in 1 .. Len(stack) :
              Advanced[i].at = IF i = Len(stack) THEN stack[i].at + 1 ELSE stack[i].at
<1>1. stack \in Seq(Frame)
  BY DEF SearchTypeOK
<1>0. Len(stack) \in Nat \ {0}
  BY FramesTyped
<1>2. \A i \in 1 .. Len(stack) : i # Len(stack) => i \in 1 .. Len(stack) - 1
  BY <1>0
<1>3. \A i \in 1 .. Len(stack) : i # Len(stack) => Advanced[i] = stack[i]
  BY <1>1, <1>2, AdvanceFrame
<1>4. Advanced[Len(stack)].id = Top.id /\ Advanced[Len(stack)].at = Top.at + 1
  BY <1>1, AdvanceFrame
<1> QED
  BY <1>1, <1>3, <1>4, AdvanceFrame, FramesTyped

LEMMA NextTargetTyped ==
  ASSUME SearchTypeOK, NextTarget
  PROVE  /\ stack # <<>> /\ UNCHANGED argVars
         /\ Top.id \in Id /\ Top.at \in DOMAIN Targets(Top.id)
         /\ Targets(Top.id)[Top.at] \in Id
         /\ SearchTypeOK'
<1>1. stack # <<>> /\ UNCHANGED argVars
  BY DEF NextTarget
<1>2. Top.id \in Id /\ Top.at \in Nat \ {0}
  BY <1>1, FramesTyped
<1>3. Top.at \in DOMAIN Targets(Top.id)
  BY <1>2, TargetsTyped DEF NextTarget
<1>4. Targets(Top.id)[Top.at] \in Id
  BY <1>2, <1>3, TargetsTyped
<1>5. Advanced \in Seq(Frame)
  BY <1>1, AdvancedFrames
<1>6. [id |-> Targets(Top.id)[Top.at], at |-> 1] \in Frame
  BY <1>4 DEF Frame
<1> DEFINE target == Targets(Top.id)[Top.at]
           frame == [id |-> target, at |-> 1]
<1>7. stack' \in Seq(Frame)
  <2>1. Visit(target, Advanced)
    BY DEF NextTarget
  <2> HIDE DEF target
  <2>2. stack' \in {<<>>, Advanced, Append(Advanced, frame)}
    BY <2>1 DEF Visit
  <2>3. frame \in Frame
    BY <1>6 DEF target
  <2> HIDE DEF frame
  <2>4. Append(Advanced, frame) \in Seq(Frame) /\ <<>> \in Seq(Frame)
    BY <1>5, <2>3, PushFrame, EmptySeq
  <2> QED
    BY <1>5, <2>2, <2>4
<1>8. verdict' \in {"searching", "cycle"} /\ visiting' \subseteq Id /\ visited' = visited
  BY <1>4 DEF NextTarget, Visit, SearchTypeOK, Searching
<1>9. looked' \subseteq Id \X Nat
  BY <1>2 DEF NextTarget, SearchTypeOK
<1> QED
  BY <1>1, <1>2, <1>3, <1>4, <1>7, <1>8, <1>9 DEF SearchTypeOK, argVars, NextTarget

(* Whatever the target is, what was noted as looked at is behind.          *)
LEMMA LookedStaysBehind ==
  ASSUME SearchTypeOK, stack # <<>>, LookedBehind, visited' = visited,
         looked' = looked \cup {<<Top.id, Top.at>>},
         \A i \in 1 .. Len(stack) :
           i \in DOMAIN stack' /\ stack'[i].id = Advanced[i].id /\ stack'[i].at = Advanced[i].at
  PROVE  LookedBehind'
<1>1. \A i \in 1 .. Len(stack) : stack'[i].id = stack[i].id
  BY AdvancedFrames
<1>2. stack'[Len(stack)].at = Top.at + 1
  BY AdvancedFrames, FramesTyped
<1>3. ASSUME NEW i \in 1 .. Len(stack), NEW k \in Nat, k < stack[i].at
      PROVE  k < stack'[i].at
  <2>1. stack[i].at \in Nat
    BY FramesTyped
  <2>2. stack'[i].at = stack[i].at \/ stack'[i].at = stack[i].at + 1
    BY AdvancedFrames
  <2> QED
    BY <1>3, <2>1, <2>2
<1>4. ASSUME NEW l \in looked
      PROVE  \/ l[1] \in visited'
             \/ \E i \in DOMAIN stack' : l[1] = stack'[i].id /\ l[2] < stack'[i].at
  <2>1. l[2] \in Nat
    BY DEF SearchTypeOK
  <2>2. CASE l[1] \in visited
    BY <2>2
  <2>3. CASE \E i \in DOMAIN stack : l[1] = stack[i].id /\ l[2] < stack[i].at
    <3>1. PICK i \in 1 .. Len(stack) : l[1] = stack[i].id /\ l[2] < stack[i].at
      BY <2>3, FramesTyped
    <3> QED
      BY <1>1, <1>3, <2>1, <3>1
  <2> QED
    BY <2>2, <2>3 DEF LookedBehind
<1>5. /\ Len(stack) \in DOMAIN stack'
      /\ Top.id = stack'[Len(stack)].id
      /\ Top.at < stack'[Len(stack)].at
  BY <1>1, <1>2, FramesTyped
<1> QED
  BY <1>4, <1>5 DEF LookedBehind

(* The innermost visit comes to a table that is visited already.           *)
LEMMA SkipKeepsStack ==
  ASSUME SearchTypeOK, StackInv, stack # <<>>, UNCHANGED argVars,
         Targets(Top.id)[Top.at] \in visited,
         stack' = Advanced, visiting' = visiting, visited' = visited
  PROVE  StackInv'
<1> DEFINE n == Len(stack)
<1>1. n \in Nat \ {0}
  BY FramesTyped
<1>2. /\ DOMAIN stack = 1 .. n /\ DOMAIN stack' = 1 .. n /\ Len(stack') = n
      /\ \A i \in 1 .. n : stack'[i].id = stack[i].id
  BY AdvancedFrames, FramesTyped
<1>3. \A i \in 1 .. n : stack'[i].at = IF i = n THEN stack[i].at + 1 ELSE stack[i].at
  BY AdvancedFrames
<1>4. \A i \in 1 .. n : stack[i].at \in Nat \ {0}
  BY FramesTyped
<1>5. Top = stack[n] /\ n \in 1 .. n
  BY FramesTyped
<1> HIDE DEF n
<1>6. MarksAreStack'
  BY <1>2 DEF StackInv, MarksAreStack
<1>7. NeverReentered'
  BY <1>2 DEF StackInv, NeverReentered
<1>8. CalledFrom'
  <2>1. \A i \in 1 .. n - 1 : i \in 1 .. n /\ i + 1 \in 1 .. n /\ i # n
    BY <1>1
  <2>2. \A i \in 1 .. n - 1 : stack'[i].at = stack[i].at
    BY <1>3, <2>1
  <2>3. \A i \in 1 .. n - 1 : stack'[i].id = stack[i].id /\ stack'[i + 1].id = stack[i + 1].id
    BY <1>2, <2>1
  <2> QED
    BY <1>2, <2>2, <2>3, SameTargets DEF StackInv, CalledFrom, n
<1>9. BehindVisited'
  <2> SUFFICES ASSUME NEW i \in 1 .. n, NEW j \in DOMAIN Targets(stack[i].id), j < stack'[i].at
               PROVE  \/ Targets(stack[i].id)[j] \in visited
                      \/ i < n /\ j = stack'[i].at - 1
    BY <1>2, SameTargets DEF BehindVisited
  <2>1. j \in Nat
    BY FramesTyped, TargetsTyped DEF n
  <2>2. CASE i = n
    <3>1. j < stack[i].at \/ j = stack[i].at
      BY <1>3, <1>4, <2>1, <2>2
    <3> QED
      BY <1>5, <2>2, <3>1, TopBehindVisited
  <2>3. CASE i # n
    <3>1. stack'[i].at = stack[i].at
      BY <1>3, <2>3
    <3> QED
      BY <1>2, <3>1 DEF StackInv, BehindVisited, n
  <2> QED
    BY <2>2, <2>3
<1> QED
  BY <1>2, <1>6, <1>7, <1>8, <1>9 DEF StackInv, n

(* The innermost visit calls visit for a table without marks.              *)
LEMMA PushKeepsStack ==
  ASSUME SearchTypeOK, StackInv, stack # <<>>, UNCHANGED argVars,
         NEW t \in Id, t = Targets(Top.id)[Top.at], Top.at \in DOMAIN Targets(Top.id),
         t \notin visiting,
         stack' = Append(Advanced, [id |-> t, at |-> 1]),
         visiting' = visiting \cup {t}, visited' = visited
  PROVE  /\ StackInv'
         /\ \A i \in 1 .. Len(stack) :
              /\ i \in DOMAIN stack'
              /\ stack'[i].id = Advanced[i].id /\ stack'[i].at = Advanced[i].at
<1> DEFINE n == Len(stack)
           f == [id |-> t, at |-> 1]
<1>1. n \in Nat \ {0}
  BY FramesTyped
<1>2. /\ Advanced \in Seq(Frame) /\ Len(Advanced) = n
      /\ \A i \in 1 .. n : Advanced[i].id = stack[i].id
      /\ \A i \in 1 .. n :
           Advanced[i].at = IF i = n THEN stack[i].at + 1 ELSE stack[i].at
  BY AdvancedFrames
<1>3. f \in Frame
  BY DEF Frame
<1>4. /\ stack' \in Seq(Frame) /\ Len(stack') = n + 1 /\ DOMAIN stack' = 1 .. n + 1
      /\ \A i \in 1 .. n : stack'[i] = Advanced[i]
      /\ stack'[n + 1] = f
  BY <1>2, <1>3, PushFrame
<1>5. DOMAIN stack = 1 .. n /\ Top = stack[n] /\ n \in 1 .. n
      /\ \A i \in 1 .. n : stack[i].at \in Nat \ {0} /\ stack[i].id \in Id
  BY FramesTyped
<1>6. f.id = t /\ f.at = 1
  OBVIOUS
<1> HIDE DEF n, f
<1>7. \A i : i \in 1 .. n + 1 <=> i \in 1 .. n \/ i = n + 1
  BY <1>1
<1>8. ~(n + 1 \in 1 .. n)
  BY <1>1
<1>9. \A i \in 1 .. n : stack'[i].id = stack[i].id
  BY <1>2, <1>4
<1>10. \A i \in 1 .. n :
         stack'[i].at = IF i = n THEN stack[i].at + 1 ELSE stack[i].at
  BY <1>2, <1>4
<1>11. stack'[n + 1].id = t /\ stack'[n + 1].at = 1
  BY <1>4, <1>6
<1>12. visiting = {stack[i].id : i \in 1 .. n}
  BY <1>5 DEF StackInv, MarksAreStack
<1>13. MarksAreStack'
  <2>1. \A x : x \in {stack'[i].id : i \in DOMAIN stack'} <=> x \in visiting \/ x = t
    BY <1>4, <1>7, <1>9, <1>11, <1>12
  <2> QED
    BY <2>1 DEF MarksAreStack
<1>14. NeverReentered'
  <2> SUFFICES ASSUME NEW i \in 1 .. n + 1, NEW j \in 1 .. n + 1, stack'[i].id = stack'[j].id
               PROVE  i = j
    BY <1>4 DEF NeverReentered
  <2>1. \A k \in 1 .. n : stack'[k].id # t
    BY <1>9, <1>12
  <2>2. CASE i \in 1 .. n /\ j \in 1 .. n
    <3>1. stack[i].id = stack[j].id
      BY <1>9, <2>2
    <3>2. i \in DOMAIN stack /\ j \in DOMAIN stack
      BY <1>5, <2>2
    <3>3. NeverReentered
      BY DEF StackInv
    <3> QED
      BY <3>1, <3>2, <3>3 DEF NeverReentered
  <2>3. CASE i = n + 1
    <3>1. stack'[j].id = t
      BY <1>11, <2>3
    <3>2. j \notin 1 .. n
      BY <2>1, <3>1
    <3> QED
      BY <1>7, <2>3, <3>2
  <2>4. CASE j = n + 1
    <3>1. stack'[i].id = t
      BY <1>11, <2>4
    <3>2. i \notin 1 .. n
      BY <2>1, <3>1
    <3> QED
      BY <1>7, <2>4, <3>2
  <2> QED
    BY <1>7, <2>2, <2>3, <2>4
<1>15. CalledFrom'
  <2> SUFFICES ASSUME NEW i \in 1 .. n
               PROVE  /\ stack'[i].at - 1 \in DOMAIN Targets(stack'[i].id)
                      /\ Targets(stack'[i].id)[stack'[i].at - 1] = stack'[i + 1].id
    <3>1. Len(stack') - 1 = n
      BY <1>1, <1>4
    <3> QED
      BY <3>1, SameTargets DEF CalledFrom
  <2>1. CASE i = n
    <3>1. PICK k \in Nat : Top.at = k /\ stack'[i].at = k + 1
      BY <1>5, <1>10, <2>1
    <3> DEFINE at == stack'[i].at
    <3>2. at = k + 1
      BY <3>1
    <3> HIDE DEF at
    <3>3. at - 1 = k
      BY <3>2
    <3>4. stack'[i].at - 1 = Top.at
      BY <3>1, <3>3 DEF at
    <3> QED
      BY <1>5, <1>9, <1>11, <2>1, <3>4
  <2>2. CASE i # n
    <3>1. i \in 1 .. n - 1 /\ i + 1 \in 1 .. n
      BY <1>1, <2>2
    <3>2. stack'[i].at = stack[i].at /\ stack'[i].id = stack[i].id
          /\ stack'[i + 1].id = stack[i + 1].id
      BY <1>9, <1>10, <2>2, <3>1
    <3> QED
      BY <3>1, <3>2 DEF StackInv, CalledFrom, n
  <2> QED
    BY <2>1, <2>2
<1>16. BehindVisited'
  <2> SUFFICES ASSUME NEW i \in 1 .. n + 1, NEW j \in DOMAIN Targets(stack'[i].id),
                      j < stack'[i].at
               PROVE  \/ Targets(stack'[i].id)[j] \in visited
                      \/ i < n + 1 /\ j = stack'[i].at - 1
    BY <1>4, SameTargets DEF BehindVisited
  <2>1. CASE i = n + 1
    <3>1. j \in 1 .. Len(Targets(t)) /\ j < 1
      BY <1>11, <2>1, TargetsTyped
    <3> QED
      BY <3>1
  <2>2. CASE i \in 1 .. n
    <3>0. i < n + 1
      BY <1>1, <2>2
    <3>a. j \in DOMAIN Targets(stack[i].id)
      BY <1>9, <2>2
    <3>b. j \in Nat
      <4>1. stack[i].id \in Id
        BY <1>5, <2>2
      <4>2. DOMAIN Targets(stack[i].id) = 1 .. Len(Targets(stack[i].id))
        BY <4>1, TargetsTyped
      <4> QED
        BY <3>a, <4>2
    <3>1. j \in Nat /\ i < n + 1 /\ j \in DOMAIN Targets(stack[i].id)
      BY <3>0, <3>a, <3>b
    <3>2. CASE i = n
      <4>1. PICK k \in Nat : Top.at = k /\ stack'[i].at = k + 1
        BY <1>5, <1>10, <3>2
      <4> DEFINE at == stack'[i].at
      <4>2. at = k + 1 /\ j < at
        BY <4>1
      <4> HIDE DEF at
      <4>3. j < k \/ j = at - 1
        BY <3>b, <4>2
      <4>4. j < Top.at \/ j = stack'[i].at - 1
        BY <4>1, <4>3 DEF at
      <4> QED
        BY <1>5, <1>9, <3>1, <3>2, <4>4, TopBehindVisited
    <3>3. CASE i # n
      <4>1. stack'[i].at = stack[i].at /\ stack'[i].id = stack[i].id
        BY <1>9, <1>10, <2>2, <3>3
      <4> QED
        BY <1>5, <2>2, <3>1, <4>1 DEF StackInv, BehindVisited, n
    <3> QED
      BY <3>2, <3>3
  <2> QED
    BY <1>7, <2>1, <2>2
<1>17. Len(stack') = Cardinality(visiting')
  <2>1. IsFiniteSet(visiting)
    BY FS_Subset, CycleSearchAssumption DEF SearchTypeOK
  <2>2. Cardinality(visiting \cup {t}) = Cardinality(visiting) + 1
    BY <2>1, FS_AddElement
  <2> QED
    BY <1>4, <2>2 DEF StackInv, n
<1> QED
  BY <1>4, <1>7, <1>13, <1>14, <1>15, <1>16, <1>17 DEF StackInv, n

LEMMA NextTargetKeepsInv ==
  ASSUME SearchInv, NextTarget
  PROVE  SearchInv'
<1> DEFINE t == Targets(Top.id)[Top.at]
<1>1. SearchTypeOK /\ StackInv /\ VisitedInv
  BY DEF SearchInv, NextTarget
<1>2. /\ stack # <<>> /\ UNCHANGED argVars
      /\ Top.at \in DOMAIN Targets(Top.id) /\ t \in Id
      /\ SearchTypeOK'
  BY <1>1, NextTargetTyped
<1>3. Searched' = Searched
  BY <1>2, SameTargets
<1>4. Visit(t, Advanced) /\ todo' = todo
      /\ looked' = looked \cup {<<Top.id, Top.at>>}
      /\ verdict = "searching"
  BY DEF NextTarget, Searching
<1> HIDE DEF t
<1>5. CASE t \in visiting
  <2>1. verdict' = "cycle" /\ stack' = <<>>
    BY <1>4, <1>5 DEF Visit
  <2>2. Cyclic(ArcsOf(Searched))
    BY <1>1, <1>2, <1>5, StackIsCycle DEF t
  <2> QED
    BY <1>2, <1>3, <2>1, <2>2 DEF SearchInv, Searching, Answered
<1>6. CASE t \in visited \ visiting
  <2>1. UNCHANGED <<verdict, visiting, visited>> /\ stack' = Advanced
    BY <1>4, <1>6 DEF Visit
  <2>2. StackInv'
    BY <1>1, <1>2, <1>6, <2>1, SkipKeepsStack DEF t
  <2>3. LookedBehind'
    BY <1>1, <1>2, <1>4, <2>1, LookedStaysBehind, AdvancedFrames DEF VisitedInv
  <2>4. VisitedInv'
    BY <1>1, <1>2, <1>3, <1>4, <2>1, <2>3, VisitedPartKept DEF VisitedInv, KeysKnown
  <2> QED
    BY <1>2, <1>4, <2>1, <2>2, <2>4 DEF SearchInv, Searching, Answered
<1>7. CASE t \notin visiting \cup visited
  <2>1. /\ UNCHANGED <<verdict, visited>>
        /\ stack' = Append(Advanced, [id |-> t, at |-> 1])
        /\ visiting' = visiting \cup {t}
    BY <1>4, <1>7 DEF Visit
  <2>2. /\ StackInv'
        /\ \A i \in 1 .. Len(stack) :
             /\ i \in DOMAIN stack'
             /\ stack'[i].id = Advanced[i].id /\ stack'[i].at = Advanced[i].at
    BY <1>1, <1>2, <1>7, <2>1, PushKeepsStack DEF t
  <2>3. LookedBehind'
    BY <1>1, <1>2, <1>4, <2>1, <2>2, LookedStaysBehind DEF VisitedInv
  <2>4. VisitedInv'
    BY <1>1, <1>2, <1>3, <1>4, <1>7, <2>1, <2>3, VisitedPartKept
       DEF VisitedInv, KeysKnown
  <2> QED
    BY <1>2, <1>4, <2>1, <2>2, <2>4 DEF SearchInv, Searching, Answered
<1> QED
  BY <1>5, <1>6, <1>7

(* A key that is not visited is where a search of its own begins.          *)
LEMMA NextKeyKeepsInv ==
  ASSUME SearchInv, NextKey
  PROVE  SearchInv'
<1>1. SearchTypeOK /\ StackInv /\ VisitedInv /\ stack = <<>> /\ verdict = "searching"
  BY DEF SearchInv, NextKey, Searching
<1>2. PICK id \in todo :
        /\ todo' = todo \ {id}
        /\ \/ id \in visited /\ UNCHANGED <<verdict, stack, visiting, visited>>
           \/ id \notin visited /\ Visit(id, <<>>)
  BY DEF NextKey
<1>3. UNCHANGED argVars /\ looked' = looked /\ id \in Id
  BY <1>1 DEF NextKey, SearchTypeOK
<1>4. Searched' = Searched
  BY <1>3, SameTargets
<1>5. Len(stack) = 0 /\ DOMAIN stack = {} /\ visiting = {}
  BY <1>1, EmptySeq DEF StackInv, MarksAreStack
<1>6. visited' = visited
  BY <1>2 DEF Visit
<1>7. VisitedClosed' /\ VisitedAcyclic'
  BY <1>1, <1>3, <1>6, VisitedPartKept DEF VisitedInv
<1>8. \A l \in looked : l[1] \in visited
  BY <1>1, <1>5 DEF VisitedInv, LookedBehind
<1>9. LookedBehind'
  BY <1>3, <1>6, <1>8 DEF LookedBehind
<1>10. CASE id \in visited
  <2>1. UNCHANGED <<verdict, stack, visiting, visited>>
    BY <1>2, <1>10
  <2>2. StackInv'
    <3>1. stack' = <<>> /\ Len(stack') = 0 /\ DOMAIN stack' = {}
          /\ visiting' = {}
      BY <1>1, <1>5, <2>1
    <3>2. MarksAreStack'
      BY <3>1 DEF MarksAreStack
    <3>3. NeverReentered'
      BY <3>1 DEF NeverReentered
    <3>4. CalledFrom'
      BY <3>1 DEF CalledFrom
    <3>5. BehindVisited'
      BY <3>1 DEF BehindVisited
    <3>6. Len(stack') = Cardinality(visiting')
      BY <1>1, <2>1 DEF StackInv
    <3> QED
      BY <3>2, <3>3, <3>4, <3>5, <3>6 DEF StackInv
  <2>3. VisitedInv'
    BY <1>1, <1>2, <1>4, <1>7, <1>9, <1>10, <2>1 DEF VisitedInv, KeysKnown
  <2>4. SearchTypeOK'
    BY <1>1, <1>2, <1>3, <2>1 DEF SearchTypeOK, argVars
  <2> QED
    BY <1>1, <2>1, <2>2, <2>3, <2>4 DEF SearchInv, Searching, Answered
<1>11. CASE id \notin visited
  <2> DEFINE f == [id |-> id, at |-> 1]
  <2>1. /\ verdict' = "searching" /\ visiting' = {id}
        /\ stack' = Append(<<>>, f)
    BY <1>1, <1>2, <1>5, <1>11 DEF Visit
  <2>2. f \in Frame /\ <<>> \in Seq(Frame)
    BY <1>3, EmptySeq DEF Frame
  <2>3. /\ stack' \in Seq(Frame) /\ Len(stack') = 1 /\ DOMAIN stack' = {1}
        /\ stack'[1] = f
    <3>1. /\ Append(<<>>, f) \in Seq(Frame)
          /\ Len(Append(<<>>, f)) = Len(<<>>) + 1
          /\ DOMAIN Append(<<>>, f) = 1 .. Len(<<>>) + 1
          /\ Append(<<>>, f)[Len(<<>>) + 1] = f
      BY <2>2, PushFrame
    <3>2. Len(<<>>) = 0 /\ 1 .. 0 + 1 = {1} /\ 0 + 1 = 1
      OBVIOUS
    <3> HIDE DEF f
    <3> QED
      BY <2>1, <3>1, <3>2
  <2>4. stack'[1].id = id /\ stack'[1].at = 1
    BY <2>3
  <2> HIDE DEF f
  <2>5. MarksAreStack' /\ NeverReentered' /\ CalledFrom'
    <3>1. {stack'[i].id : i \in DOMAIN stack'} = {id}
      BY <2>3, <2>4
    <3>2. 1 .. Len(stack') - 1 = {}
      BY <2>3
    <3> QED
      BY <2>1, <2>3, <3>1, <3>2 DEF MarksAreStack, NeverReentered, CalledFrom
  <2>6. BehindVisited'
    <3>1. \A j \in DOMAIN Targets(id) : ~(j < 1)
      BY <1>1, <1>3, TargetsTyped
    <3> QED
      BY <1>3, <2>3, <2>4, <3>1, SameTargets DEF BehindVisited
  <2>7. Cardinality(visiting') = 1
    BY <2>1, FS_Singleton
  <2>8. StackInv'
    BY <2>3, <2>5, <2>6, <2>7 DEF StackInv
  <2>9. VisitedInv'
    BY <1>1, <1>2, <1>4, <1>5, <1>6, <1>7, <1>9, <1>11, <2>1 DEF VisitedInv, KeysKnown
  <2>10. SearchTypeOK'
    BY <1>1, <1>2, <1>3, <1>6, <2>1, <2>3 DEF SearchTypeOK, argVars
  <2> QED
    BY <2>1, <2>8, <2>9, <2>10 DEF SearchInv, Searching, Answered
<1> QED
  BY <1>10, <1>11

(* A visit that returns leaves its table visited.                          *)
LEMMA EndVisitKeepsInv ==
  ASSUME SearchInv, EndVisit
  PROVE  SearchInv'
<1> DEFINE n == Len(stack)
<1>1. SearchTypeOK /\ StackInv /\ VisitedInv /\ stack # <<>> /\ verdict = "searching"
  BY DEF SearchInv, EndVisit, Searching
<1>2. /\ UNCHANGED argVars /\ todo' = todo /\ looked' = looked /\ verdict' = verdict
      /\ visiting' = visiting \ {Top.id} /\ visited' = visited \cup {Top.id}
      /\ stack' = SubSeq(stack, 1, n - 1) /\ Top.at > Len(Targets(Top.id))
  BY DEF EndVisit, MarkVisited
<1>3. Searched' = Searched
  BY <1>2, SameTargets
<1>4. n \in Nat \ {0}
  BY <1>1, FramesTyped
<1>5. /\ DOMAIN stack = 1 .. n /\ Top = stack[n] /\ n \in 1 .. n
      /\ \A i \in 1 .. n : stack[i].id \in Id /\ stack[i].at \in Nat \ {0}
  BY <1>1, FramesTyped
<1>6. /\ stack' \in Seq(Frame) /\ Len(stack') = n - 1 /\ DOMAIN stack' = 1 .. n - 1
      /\ \A i \in 1 .. n - 1 : stack'[i] = stack[i]
  BY <1>1, <1>2, PopFrame DEF SearchTypeOK
<1>7. Top.id \in visiting
  BY <1>1, <1>5 DEF StackInv, MarksAreStack
<1>8. Top.id \in Id \ visited
  BY <1>1, <1>5, <1>7 DEF VisitedInv
<1>9. \A j \in DOMAIN Targets(Top.id) : Targets(Top.id)[j] \in visited
  <2>1. \A j \in DOMAIN Targets(Top.id) : j < Top.at
    <3>1. Top.at \in Nat /\ Len(Targets(Top.id)) \in Nat
          /\ DOMAIN Targets(Top.id) = 1 .. Len(Targets(Top.id))
      BY <1>1, <1>5, <1>8, TargetsTyped
    <3> QED
      BY <1>2, <3>1
  <2> QED
    BY <1>1, <2>1, TopBehindVisited
<1>10. VisitedClosed' /\ VisitedAcyclic'
  BY <1>1, <1>2, <1>8, <1>9, SameTargets, VisitedGrows DEF VisitedInv
<1> HIDE DEF n
<1>11. \A i : i \in 1 .. n <=> i \in 1 .. n - 1 \/ i = n
  BY <1>4
<1>12. \A i \in 1 .. n - 1 : i \in 1 .. n /\ i # n
  BY <1>4
<1>13. \A i \in 1 .. n - 1 : stack[i].id # Top.id
  BY <1>1, <1>5, <1>12 DEF StackInv, NeverReentered
<1>14. MarksAreStack'
  <2>1. visiting = {stack[i].id : i \in 1 .. n}
    BY <1>1, <1>5 DEF StackInv, MarksAreStack
  <2>2. \A x : x \in {stack[i].id : i \in 1 .. n - 1} <=> x \in visiting /\ x # Top.id
    BY <1>5, <1>11, <1>13, <2>1
  <2>3. {stack'[i].id : i \in DOMAIN stack'} = {stack[i].id : i \in 1 .. n - 1}
    BY <1>6
  <2> QED
    BY <1>2, <2>2, <2>3 DEF MarksAreStack
<1>15. NeverReentered'
  BY <1>1, <1>5, <1>6, <1>12 DEF StackInv, NeverReentered
<1>16. CalledFrom'
  <2>1. \A i \in 1 .. n - 1 - 1 : i \in 1 .. n - 1 /\ i + 1 \in 1 .. n - 1
    BY <1>4
  <2>2. \A i \in 1 .. n - 1 - 1 : stack'[i] = stack[i] /\ stack'[i + 1] = stack[i + 1]
    BY <1>6, <2>1
  <2> QED
    BY <1>1, <1>2, <1>6, <2>1, <2>2, SameTargets DEF StackInv, CalledFrom, n
<1>17. BehindVisited'
  <2> SUFFICES ASSUME NEW i \in 1 .. n - 1, NEW j \in DOMAIN Targets(stack[i].id),
                      j < stack[i].at
               PROVE  \/ Targets(stack[i].id)[j] \in visited'
                      \/ i < n - 1 /\ j = stack[i].at - 1
    BY <1>2, <1>6, SameTargets DEF BehindVisited
  <2>1. Targets(stack[i].id)[j] \in visited \/ j = stack[i].at - 1
    BY <1>1, <1>5, <1>12 DEF StackInv, BehindVisited
  <2>2. CASE i = n - 1
    <3>1. i + 1 = n
      BY <1>4, <2>2
    <3>2. Targets(stack[i].id)[stack[i].at - 1] = Top.id
      BY <1>1, <1>5, <3>1 DEF StackInv, CalledFrom, n
    <3> QED
      BY <1>2, <2>1, <3>2
  <2>3. CASE i # n - 1
    <3>1. i < n - 1
      BY <1>4, <2>3
    <3> QED
      BY <1>2, <2>1, <3>1
  <2> QED
    BY <2>2, <2>3
<1>18. Len(stack') = Cardinality(visiting')
  <2>1. IsFiniteSet(visiting)
    BY <1>1, FS_Subset, CycleSearchAssumption DEF SearchTypeOK
  <2>2. Cardinality(visiting \ {Top.id}) = Cardinality(visiting) - 1
    BY <1>7, <2>1, FS_RemoveElement
  <2> QED
    BY <1>1, <1>2, <1>6, <2>2 DEF StackInv, n
<1>19. StackInv'
  BY <1>14, <1>15, <1>16, <1>17, <1>18 DEF StackInv
<1>20. LookedBehind'
  <2> SUFFICES ASSUME NEW l \in looked
               PROVE  \/ l[1] \in visited'
                      \/ \E i \in DOMAIN stack' : l[1] = stack'[i].id /\ l[2] < stack'[i].at
    BY <1>2 DEF LookedBehind
  <2>1. CASE l[1] \in visited
    BY <1>2, <2>1
  <2>2. CASE \E i \in 1 .. n : l[1] = stack[i].id /\ l[2] < stack[i].at
    BY <1>2, <1>5, <1>6, <1>11, <2>2
  <2> QED
    BY <1>1, <1>5, <2>1, <2>2 DEF VisitedInv, LookedBehind
<1>21. VisitedInv'
  BY <1>1, <1>2, <1>3, <1>10, <1>20 DEF VisitedInv, KeysKnown
<1>22. SearchTypeOK'
  BY <1>1, <1>2, <1>6, <1>8 DEF SearchTypeOK, argVars
<1> QED
  BY <1>1, <1>2, <1>19, <1>21, <1>22 DEF SearchInv, Searching, Answered

LEMMA StepKeepsInv ==
  SearchInv /\ [SearchNext]_searchVars => SearchInv'
<1> SUFFICES ASSUME SearchInv, [SearchNext]_searchVars PROVE SearchInv'
  OBVIOUS
<1>1. CASE UNCHANGED searchVars
  <2>1. SearchTypeOK' /\ (verdict = "none" => NoCall)'
    BY <1>1 DEF SearchInv, SearchTypeOK, NoCall, searchVars
  <2>2. UNCHANGED argVars /\ Searched' = Searched
    BY <1>1, SameTargets DEF searchVars, argVars
  <2>3. StackInv' <=> StackInv
    BY <1>1, <2>2, SameTargets
       DEF StackInv, MarksAreStack, NeverReentered, CalledFrom, BehindVisited, searchVars
  <2>4. VisitedInv => VisitedInv'
    BY <1>1, <2>2, VisitedPartKept DEF VisitedInv, KeysKnown, LookedBehind, searchVars
  <2> QED
    BY <1>1, <2>1, <2>2, <2>3, <2>4 DEF SearchInv, Searching, Answered, searchVars
<1> QED
  BY <1>1, AskKeepsInv, NextKeyKeepsInv, NextTargetKeepsInv, EndVisitKeepsInv,
     EndKeysKeepsInv, ReturnKeepsInv DEF SearchNext

THEOREM SearchInvariant == SearchSpec => []SearchInv
BY InitSearchInv, StepKeepsInv, PTL DEF SearchSpec

-----------------------------------------------------------------------------
(* The variables of a search keep their types.                             *)
THEOREM SearchTypeCorrect == SearchSpec => []SearchTypeOK
<1>1. SearchInv => SearchTypeOK
  BY DEF SearchInv
<1> QED
  BY <1>1, SearchInvariant, PTL

(* HasCycle finds a cycle exactly where there is one, in every adjacency   *)
(* map over any finite set of tables.                                      *)
THEOREM HasCycleCorrect == SearchSpec => []SearchExact
<1>1. SearchInv => SearchExact
  BY MapForArcs DEF SearchInv, SearchTypeOK, SearchExact, Searched
<1> QED
  BY <1>1, SearchInvariant, PTL

(* WouldCreateCycle foresees exactly the cycles the edge would close.      *)
THEOREM WouldCreateCycleCorrect == SearchSpec => []ForecastExact
<1>1. SearchInv => ForecastExact
  BY MapForArcs DEF SearchInv, SearchTypeOK, ForecastExact, Searched
<1> QED
  BY <1>1, SearchInvariant, PTL

(* No table is visited again while it is being visited.                    *)
THEOREM NoReentry == SearchSpec => []NeverReentered
<1>1. SearchInv => NeverReentered
  BY EmptySeq DEF SearchInv, StackInv, NeverReentered
<1> QED
  BY <1>1, SearchInvariant, PTL

(* The recursion of visit is never deeper than there are tables.           *)
THEOREM RecursionBounded == SearchSpec => []DepthBounded
<1>1. SearchInv => DepthBounded
  <2> SUFFICES ASSUME SearchInv PROVE DepthBounded
    OBVIOUS
  <2>1. Cardinality(Id) \in Nat
    BY FS_CardinalityType, CycleSearchAssumption
  <2>2. CASE Searching
    <3>1. Len(stack) = Cardinality(visiting) /\ visiting \subseteq Id
      BY <2>2 DEF SearchInv, StackInv, SearchTypeOK
    <3> QED
      BY <3>1, FS_Subset, CycleSearchAssumption DEF DepthBounded
  <2>3. CASE ~Searching
    BY <2>1, <2>3, EmptySeq DEF SearchInv, DepthBounded
  <2> QED
    BY <2>2, <2>3
<1> QED
  BY <1>1, SearchInvariant, PTL

(* The search looks at every entry of every list at most once.             *)
THEOREM SearchLinear == SearchSpec => LookedAtOnce
<1>1. SearchInv /\ [SearchNext]_searchVars
        => [NextTarget => <<Top.id, Top.at>> \notin looked]_searchVars
  <2> SUFFICES ASSUME SearchInv, NextTarget, <<Top.id, Top.at>> \in looked PROVE FALSE
    OBVIOUS
  <2>1. SearchTypeOK /\ StackInv /\ VisitedInv /\ stack # <<>>
    BY DEF SearchInv, NextTarget
  <2>2. DOMAIN stack = 1 .. Len(stack) /\ Top = stack[Len(stack)]
        /\ Len(stack) \in 1 .. Len(stack) /\ Top.at \in Nat
    BY <2>1, FramesTyped
  <2>3. Top.id \notin visited
    BY <2>1, <2>2 DEF StackInv, MarksAreStack, VisitedInv
  <2>4. PICK i \in DOMAIN stack : Top.id = stack[i].id /\ Top.at < stack[i].at
    BY <2>1, <2>3 DEF VisitedInv, LookedBehind
  <2>5. i = Len(stack)
    BY <2>1, <2>2, <2>4 DEF StackInv, NeverReentered
  <2>6. Top.at < Top.at
    BY <2>2, <2>4, <2>5
  <2> QED
    BY <2>2, <2>6
<1> QED
  BY <1>1, SearchInvariant, PTL DEF SearchSpec, LookedAtOnce
=============================================================================
