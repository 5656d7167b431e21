---------------------------- MODULE VersionsProofs -------------------------
(***************************************************************************)
(* Proofs about Versions, for every set of tables and any bound on their   *)
(* versions.  That the current version is readable is inductive together   *)
(* with the types: the operations that change a version's state never      *)
(* touch the current one without giving the table another.                 *)
(***************************************************************************)
EXTENDS Versions, SequenceTheorems, TLAPS

(* A list of versions in which one has another state.                      *)
LEMMA StateReplaced ==
  ASSUME NEW s \in Seq(VersionState), NEW n \in DOMAIN s, NEW state \in VersionState
  PROVE  /\ [s EXCEPT ![n] = state] \in Seq(VersionState)
         /\ Len([s EXCEPT ![n] = state]) = Len(s)
         /\ DOMAIN [s EXCEPT ![n] = state] = DOMAIN s
         /\ [s EXCEPT ![n] = state][n] = state
         /\ \A m \in DOMAIN s : m # n => [s EXCEPT ![n] = state][m] = s[m]
  OBVIOUS

(* The numbers of a list's versions.                                       *)
LEMMA Numbers ==
  ASSUME NEW s \in Seq(VersionState)
  PROVE  DOMAIN s = 1 .. Len(s) /\ Len(s) \in Nat
  OBVIOUS

(* A list of versions with a draft at its end.                             *)
LEMMA DraftAppended ==
  ASSUME NEW s \in Seq(VersionState)
  PROVE  /\ Append(s, "draft") \in Seq(VersionState)
         /\ Len(Append(s, "draft")) = Len(s) + 1
         /\ DOMAIN Append(s, "draft") = 1 .. Len(s) + 1
         /\ \A m \in DOMAIN s : Append(s, "draft")[m] = s[m]
  BY DEF VersionState

Inv == VersionsTypeOK /\ CurrentReadable

(* A table that gets another list of versions, or another current one,     *)
(* that is readable in it: the invariant is kept, the other tables have    *)
(* what they had.                                                          *)
LEMMA OneTable ==
  ASSUME Inv, NEW t \in TableId,
         NEW s \in Seq(VersionState), NEW c \in Nat,
         c # 0 => c \in DOMAIN s /\ Readable(s[c]),
         versions' = [versions EXCEPT ![t] = s],
         current' = [current EXCEPT ![t] = c]
  PROVE  Inv'
<1>1. /\ versions \in [TableId -> Seq(VersionState)]
      /\ current \in [TableId -> Nat]
  BY DEF Inv, VersionsTypeOK
<1>2. /\ versions' \in [TableId -> Seq(VersionState)]
      /\ current' \in [TableId -> Nat]
      /\ versions'[t] = s /\ current'[t] = c
  BY <1>1
<1>3. c <= Len(s)
  <2>1. DOMAIN s = 1 .. Len(s) /\ Len(s) \in Nat
    BY Numbers
  <2> QED BY <2>1
<1>4. ASSUME NEW u \in TableId
      PROVE  /\ current'[u] <= Len(versions'[u])
             /\ current'[u] # 0 =>
                  current'[u] \in DOMAIN versions'[u] /\ Readable(versions'[u][current'[u]])
  <2>1. CASE u = t
    BY <2>1, <1>2, <1>3
  <2>2. CASE u # t
    <3>1. versions'[u] = versions[u] /\ current'[u] = current[u]
      BY <2>2, <1>1
    <3>2. current[u] <= Len(versions[u])
      BY DEF Inv, VersionsTypeOK
    <3>3. current[u] # 0 =>
            current[u] \in DOMAIN versions[u] /\ Readable(versions[u][current[u]])
      BY DEF Inv, CurrentReadable, IsReadable, Exists
    <3> QED BY <3>1, <3>2, <3>3
  <2> QED BY <2>1, <2>2
<1>5. VersionsTypeOK'
  BY <1>2, <1>4 DEF VersionsTypeOK
<1>6. CurrentReadable'
  BY <1>4 DEF CurrentReadable, IsReadable, Exists
<1> QED BY <1>5, <1>6 DEF Inv

(* What the invariant says of one table.                                   *)
LEMMA TableTypes ==
  ASSUME Inv, NEW t \in TableId
  PROVE  /\ versions[t] \in Seq(VersionState)
         /\ current[t] \in Nat
         /\ DOMAIN versions[t] = 1 .. Len(versions[t]) /\ Len(versions[t]) \in Nat
         /\ current[t] # 0 =>
              current[t] \in DOMAIN versions[t] /\ Readable(versions[t][current[t]])
<1>1. versions[t] \in Seq(VersionState) /\ current[t] \in Nat
  BY DEF Inv, VersionsTypeOK
<1>2. current[t] # 0 =>
        current[t] \in DOMAIN versions[t] /\ Readable(versions[t][current[t]])
  BY DEF Inv, CurrentReadable, IsReadable, Exists
<1> QED BY <1>1, <1>2, Numbers

(* Draft adds a version that is not current.                               *)
LEMMA DraftKeeps ==
  ASSUME Inv, NEW t \in TableId, Draft(t)
  PROVE  Inv'
<1> DEFINE s == Append(versions[t], "draft")
<1>1. /\ versions[t] \in Seq(VersionState) /\ current[t] \in Nat
      /\ DOMAIN versions[t] = 1 .. Len(versions[t]) /\ Len(versions[t]) \in Nat
      /\ current[t] # 0 =>
           current[t] \in DOMAIN versions[t] /\ Readable(versions[t][current[t]])
  BY TableTypes
<1>2. /\ s \in Seq(VersionState) /\ DOMAIN s = 1 .. Len(versions[t]) + 1
      /\ \A m \in DOMAIN versions[t] : s[m] = versions[t][m]
  BY <1>1, DraftAppended
<1>3. current[t] # 0 => current[t] \in DOMAIN s /\ Readable(s[current[t]])
  <2> HIDE DEF s
  <2> QED BY <1>1, <1>2
<1>4. versions' = [versions EXCEPT ![t] = s]
  BY DEF Draft
<1>5. current' = [current EXCEPT ![t] = current[t]]
  BY DEF Draft, Inv, VersionsTypeOK
<1> HIDE DEF s
<1> QED BY <1>1, <1>2, <1>3, <1>4, <1>5, OneTable

(* Publish makes the version current that it makes readable.               *)
LEMMA PublishKeeps ==
  ASSUME Inv, NEW t \in TableId, NEW n \in DOMAIN versions[t], PublishDraft(t, n)
  PROVE  Inv'
<1> DEFINE s == [versions[t] EXCEPT ![n] = "published"]
<1>1. /\ versions[t] \in Seq(VersionState)
      /\ DOMAIN versions[t] = 1 .. Len(versions[t]) /\ Len(versions[t]) \in Nat
  BY TableTypes
<1>2. "published" \in VersionState
  BY DEF VersionState
<1>3. s \in Seq(VersionState) /\ DOMAIN s = DOMAIN versions[t] /\ s[n] = "published"
  BY <1>1, <1>2, StateReplaced
<1>4. n \in Nat
  BY <1>1
<1>5. versions' = [versions EXCEPT ![t] = s]
  BY DEF PublishDraft, SetState
<1>6. current' = [current EXCEPT ![t] = n]
  BY DEF PublishDraft
<1>7. n \in DOMAIN s /\ Readable(s[n])
  BY <1>3 DEF Readable
<1> HIDE DEF s
<1> QED BY <1>3, <1>4, <1>5, <1>6, <1>7, OneTable

(* Rollback leaves no current version, or a readable one below the one it  *)
(* rolled back, whose state it did not touch.                              *)
LEMMA RollBackKeeps ==
  ASSUME Inv, NEW t \in TableId, RollBack(t)
  PROVE  Inv'
<1> DEFINE n == current[t]
<1> DEFINE s == [versions[t] EXCEPT ![n] = "rolled-back"]
<1>1. /\ versions[t] \in Seq(VersionState)
      /\ DOMAIN versions[t] = 1 .. Len(versions[t]) /\ Len(versions[t]) \in Nat
  BY TableTypes
<1>2. n \in DOMAIN versions[t]
  BY DEF RollBack, Exists
<1>3. "rolled-back" \in VersionState
  BY DEF VersionState
<1>4. /\ s \in Seq(VersionState) /\ DOMAIN s = DOMAIN versions[t]
      /\ \A m \in DOMAIN versions[t] : m # n => s[m] = versions[t][m]
  <2> HIDE DEF n
  <2> QED BY <1>1, <1>2, <1>3, StateReplaced
<1>5. versions' = [versions EXCEPT ![t] = s]
  BY DEF RollBack, SetState
<1>6. CASE current' = [current EXCEPT ![t] = 0]
  <2> HIDE DEF s
  <2> QED BY <1>4, <1>5, <1>6, OneTable
<1>7. ASSUME NEW m \in ReadableBelow(t, n),
             current' = [current EXCEPT ![t] = m]
      PROVE  Inv'
  <2>1. m \in DOMAIN versions[t] /\ m < n /\ Readable(versions[t][m])
    BY DEF ReadableBelow, IsReadable
  <2>2. m \in Nat /\ n \in Nat
    BY <2>1, <1>1, <1>2
  <2> HIDE DEF n
  <2>3. m # n
    BY <2>1, <2>2
  <2>4. m \in DOMAIN s /\ Readable(s[m])
    <3> HIDE DEF s
    <3> QED BY <1>4, <2>1, <2>3
  <2> HIDE DEF s
  <2> QED BY <1>4, <1>5, <1>7, <2>2, <2>4, OneTable
<1> QED BY <1>6, <1>7 DEF RollBack

(* SwitchTo asks whether the version is readable.                          *)
LEMMA SwitchKeeps ==
  ASSUME Inv, NEW t \in TableId, NEW n \in DOMAIN versions[t], SwitchTo(t, n)
  PROVE  Inv'
<1>1. /\ versions[t] \in Seq(VersionState)
      /\ DOMAIN versions[t] = 1 .. Len(versions[t]) /\ Len(versions[t]) \in Nat
  BY TableTypes
<1>2. n \in Nat
  BY <1>1
<1>3. Readable(versions[t][n])
  BY DEF SwitchTo, IsReadable
<1>4. versions' = [versions EXCEPT ![t] = versions[t]]
  BY DEF SwitchTo, Inv, VersionsTypeOK
<1>5. current' = [current EXCEPT ![t] = n]
  BY DEF SwitchTo
<1> QED BY <1>1, <1>2, <1>3, <1>4, <1>5, OneTable

(* The list after a Supersede.                                             *)
Superseded(s, c) ==
  [n \in DOMAIN s |-> IF s[n] = "published" /\ n # c THEN "superseded" ELSE s[n]]

(* It has the versions the list had, and the current one as it was.        *)
LEMMA SupersededList ==
  ASSUME NEW s \in Seq(VersionState), NEW c
  PROVE  /\ Superseded(s, c) \in Seq(VersionState)
         /\ DOMAIN Superseded(s, c) = DOMAIN s
         /\ c \in DOMAIN s => Superseded(s, c)[c] = s[c]
         /\ \A n \in DOMAIN s :
              Superseded(s, c)[n] = s[n]
                \/ (s[n] = "published" /\ Superseded(s, c)[n] = "superseded")
<1>1. DOMAIN s = 1 .. Len(s) /\ Len(s) \in Nat
  BY Numbers
<1>2. \A n \in 1 .. Len(s) : s[n] \in VersionState
  OBVIOUS
<1>3. Superseded(s, c) \in [1 .. Len(s) -> VersionState]
  BY <1>1, <1>2 DEF Superseded, VersionState
<1>4. Superseded(s, c) \in Seq(VersionState)
  <2> DEFINE list == Superseded(s, c)
             n == Len(s)
  <2>1. list \in [1 .. n -> VersionState] /\ n \in Nat
    BY <1>1, <1>3
  <2> HIDE DEF list, n
  <2>2. list \in UNION {[1 .. k -> VersionState] : k \in Nat}
    BY <2>1
  <2>3. list \in Seq(VersionState)
    BY <2>2, SeqDef, Zenon
  <2> QED BY <2>3 DEF list
<1>5. /\ DOMAIN Superseded(s, c) = DOMAIN s
      /\ c \in DOMAIN s => Superseded(s, c)[c] = s[c]
      /\ \A n \in DOMAIN s :
           Superseded(s, c)[n] = s[n]
             \/ (s[n] = "published" /\ Superseded(s, c)[n] = "superseded")
  BY DEF Superseded
<1> QED BY <1>4, <1>5

(* Supersede passes the current version over.                              *)
LEMMA SupersedeKeeps ==
  ASSUME Inv, NEW t \in TableId, Supersede(t)
  PROVE  Inv'
<1> DEFINE s == Superseded(versions[t], current[t])
<1>1. /\ versions[t] \in Seq(VersionState) /\ current[t] \in Nat
      /\ current[t] # 0 =>
           current[t] \in DOMAIN versions[t] /\ Readable(versions[t][current[t]])
  BY TableTypes
<1>2. /\ s \in Seq(VersionState) /\ DOMAIN s = DOMAIN versions[t]
      /\ current[t] \in DOMAIN versions[t] => s[current[t]] = versions[t][current[t]]
  BY <1>1, SupersededList
<1>3. versions' = [versions EXCEPT ![t] = s]
  BY DEF Supersede, Superseded, Inv, VersionsTypeOK
<1>4. current' = [current EXCEPT ![t] = current[t]]
  BY DEF Supersede, Inv, VersionsTypeOK
<1> HIDE DEF s
<1>5. current[t] # 0 => current[t] \in DOMAIN s /\ Readable(s[current[t]])
  BY <1>1, <1>2
<1> QED BY <1>1, <1>2, <1>3, <1>4, <1>5, OneTable

(* Every operation keeps the invariant.                                    *)
LEMMA InvKept ==
  ASSUME Inv, [VersionsNext]_versionVars
  PROVE  Inv'
<1>1. CASE UNCHANGED versionVars
  BY <1>1 DEF versionVars, Inv, VersionsTypeOK, CurrentReadable, IsReadable, Exists
<1>2. CASE VersionsNext
  BY <1>2, DraftKeeps, RollBackKeeps, SupersedeKeeps, PublishKeeps, SwitchKeeps
     DEF VersionsNext
<1> QED BY <1>1, <1>2

(* The invariant holds initially: there are no versions.                   *)
LEMMA InvInitially ==
  ASSUME VersionsInit
  PROVE  Inv
<1>1. <<>> \in Seq(VersionState) /\ Len(<<>>) = 0
  OBVIOUS
<1>2. versions \in [TableId -> Seq(VersionState)]
  BY <1>1 DEF VersionsInit
<1>3. \A t \in TableId : current[t] = 0 /\ versions[t] = <<>>
  BY DEF VersionsInit
<1>4. current \in [TableId -> Nat]
  BY DEF VersionsInit
<1> QED BY <1>1, <1>2, <1>3, <1>4 DEF Inv, VersionsTypeOK, CurrentReadable

(* Types, and that a current number belongs to a version.                  *)
THEOREM TypeCorrect == VersionsSpec => []VersionsTypeOK
<1>1. Inv => VersionsTypeOK
  BY DEF Inv
<1> QED BY <1>1, InvInitially, InvKept, PTL DEF VersionsSpec

(* What Parse and ResolveVersion hand out without asking is readable.      *)
THEOREM CurrentSafe == VersionsSpec => []CurrentReadable
<1>1. Inv => CurrentReadable
  BY DEF Inv
<1> QED BY <1>1, InvInitially, InvKept, PTL DEF VersionsSpec

(* How one operation changes the state of a version.                       *)
Moves(from, to) ==
  \/ to = from
  \/ StateTransitionAllowed(from, to)
  \/ from = "superseded" /\ to = "rolled-back"

(* How it changes the versions of a table: those it had keep their         *)
(* numbers, none becomes a draft again or leaves "rolled-back".            *)
Onward(old, new) ==
  \A n \in DOMAIN old :
    /\ n \in DOMAIN new
    /\ Moves(old[n], new[n])
    /\ new[n] = "draft" => old[n] = "draft"
    /\ old[n] = "rolled-back" => new[n] = "rolled-back"

(* Only one table's list changes, and onward.                              *)
LEMMA OneListOnward ==
  ASSUME Inv, NEW t \in TableId, NEW s,
         versions' = [versions EXCEPT ![t] = s], Onward(versions[t], s)
  PROVE  \A u \in TableId : Onward(versions[u], versions'[u])
<1>1. versions \in [TableId -> Seq(VersionState)]
  BY DEF Inv, VersionsTypeOK
<1>2. SUFFICES ASSUME NEW u \in TableId
               PROVE  Onward(versions[u], versions'[u])
  OBVIOUS
<1>3. CASE u = t
  BY <1>1, <1>3
<1>4. CASE u # t
  <2>1. versions'[u] = versions[u]
    BY <1>1, <1>4
  <2> QED BY <2>1 DEF Onward, Moves
<1> QED BY <1>3, <1>4

(* A version that is published was a draft.                                *)
LEMMA PublishOnward ==
  ASSUME Inv, NEW t \in TableId, NEW n \in DOMAIN versions[t], PublishDraft(t, n)
  PROVE  \A u \in TableId : Onward(versions[u], versions'[u])
<1> DEFINE s == [versions[t] EXCEPT ![n] = "published"]
<1>1. versions[t] \in Seq(VersionState)
  BY TableTypes
<1>2. "published" \in VersionState
  BY DEF VersionState
<1>3. versions[t][n] = "draft"
  BY DEF PublishDraft, Largest, Drafts
<1>4. /\ DOMAIN s = DOMAIN versions[t] /\ s[n] = "published"
      /\ \A m \in DOMAIN versions[t] : m # n => s[m] = versions[t][m]
  BY <1>1, <1>2, StateReplaced
<1>5. versions' = [versions EXCEPT ![t] = s]
  BY DEF PublishDraft, SetState
<1> HIDE DEF s
<1>6. Onward(versions[t], s)
  BY <1>3, <1>4 DEF Onward, Moves, StateTransitionAllowed
<1> QED BY <1>5, <1>6, OneListOnward

(* A version that is rolled back stays in the list.                        *)
LEMMA RollBackOnward ==
  ASSUME Inv, NEW t \in TableId, RollBack(t)
  PROVE  \A u \in TableId : Onward(versions[u], versions'[u])
<1> DEFINE n == current[t]
<1> DEFINE s == [versions[t] EXCEPT ![n] = "rolled-back"]
<1>1. /\ versions[t] \in Seq(VersionState) /\ n \in DOMAIN versions[t]
      /\ versions[t][n] \in {"published", "superseded"}
  <2>1. versions[t] \in Seq(VersionState) /\ n \in DOMAIN versions[t]
    BY TableTypes DEF RollBack, Exists
  <2>2. n # 0
    BY <2>1
  <2> QED BY <2>1, <2>2 DEF Inv, CurrentReadable, IsReadable, Readable
<1>2. "rolled-back" \in VersionState
  BY DEF VersionState
<1>3. versions' = [versions EXCEPT ![t] = s]
  BY DEF RollBack, SetState
<1> HIDE DEF n
<1>4. /\ DOMAIN s = DOMAIN versions[t] /\ s[n] = "rolled-back"
      /\ \A m \in DOMAIN versions[t] : m # n => s[m] = versions[t][m]
  BY <1>1, <1>2, StateReplaced
<1> HIDE DEF s
<1>5. Onward(versions[t], s)
  BY <1>1, <1>4 DEF Onward, Moves, StateTransitionAllowed
<1> QED BY <1>3, <1>5, OneListOnward

(* A version that is superseded was published.                             *)
LEMMA SupersedeOnward ==
  ASSUME Inv, NEW t \in TableId, Supersede(t)
  PROVE  \A u \in TableId : Onward(versions[u], versions'[u])
<1> DEFINE s == Superseded(versions[t], current[t])
<1>1. versions[t] \in Seq(VersionState)
  BY TableTypes
<1>2. /\ DOMAIN s = DOMAIN versions[t]
      /\ \A n \in DOMAIN versions[t] :
           s[n] = versions[t][n] \/ (versions[t][n] = "published" /\ s[n] = "superseded")
  BY <1>1, SupersededList
<1>3. versions' = [versions EXCEPT ![t] = s]
  BY DEF Supersede, Superseded, Inv, VersionsTypeOK
<1> HIDE DEF s
<1>4. Onward(versions[t], s)
  BY <1>2 DEF Onward, Moves, StateTransitionAllowed
<1> QED BY <1>3, <1>4, OneListOnward

(* A new version leaves those before it alone.                             *)
LEMMA DraftOnward ==
  ASSUME Inv, NEW t \in TableId, Draft(t)
  PROVE  \A u \in TableId : Onward(versions[u], versions'[u])
<1> DEFINE s == Append(versions[t], "draft")
<1>1. /\ versions[t] \in Seq(VersionState)
      /\ DOMAIN versions[t] = 1 .. Len(versions[t]) /\ Len(versions[t]) \in Nat
  BY TableTypes
<1>2. /\ DOMAIN s = 1 .. Len(versions[t]) + 1
      /\ \A m \in DOMAIN versions[t] : s[m] = versions[t][m]
  BY <1>1, DraftAppended
<1>3. versions' = [versions EXCEPT ![t] = s]
  BY DEF Draft
<1> HIDE DEF s
<1>4. DOMAIN versions[t] \subseteq DOMAIN s
  BY <1>1, <1>2
<1>5. Onward(versions[t], s)
  BY <1>2, <1>4 DEF Onward, Moves
<1> QED BY <1>3, <1>5, OneListOnward

(* Every operation moves every table's versions onward.                    *)
LEMMA StepOnward ==
  ASSUME Inv, [VersionsNext]_versionVars
  PROVE  \A t \in TableId : Onward(versions[t], versions'[t])
<1>1. CASE versions' = versions
  BY <1>1 DEF Onward, Moves
<1>2. CASE VersionsNext
  <2>1. PICK t \in TableId :
          \/ Draft(t) \/ RollBack(t) \/ Supersede(t)
          \/ \E n \in DOMAIN versions[t] : PublishDraft(t, n) \/ SwitchTo(t, n)
    BY <1>2 DEF VersionsNext
  <2>2. CASE \E n \in DOMAIN versions[t] : SwitchTo(t, n)
    BY <2>2, <1>1 DEF SwitchTo
  <2> QED BY <2>1, <2>2, DraftOnward, RollBackOnward, SupersedeOnward, PublishOnward
<1> QED BY <1>1, <1>2 DEF versionVars

(* No version is ever lost, renumbered, made a draft again or brought back *)
(* after a rollback, and none changes its state as the state machine does  *)
(* not allow, but for the rollback of a superseded one, for any number of  *)
(* tables and versions.                                                    *)
THEOREM NeverBack == VersionsSpec => NoWayBack
<1>1. ASSUME Inv, [VersionsNext]_versionVars
      PROVE  [\A t \in TableId : \A n \in DOMAIN versions[t] :
                /\ n \in DOMAIN versions'[t]
                /\ \/ versions'[t][n] = versions[t][n]
                   \/ StateTransitionAllowed(versions[t][n], versions'[t][n])
                   \/ versions[t][n] = "superseded" /\ versions'[t][n] = "rolled-back"]_versionVars
  BY <1>1, StepOnward DEF Onward, Moves
<1> QED BY <1>1, InvInitially, InvKept, PTL DEF VersionsSpec, NoWayBack
=============================================================================
