------------------------------ MODULE Versions -----------------------------
(***************************************************************************)
(* The version state machine of internal/meta: per table a list of         *)
(* versions and the number of the current one.  Every operator below is    *)
(* one critical section of Meta.mu.                                        *)
(*                                                                         *)
(* Numbers run from 1 without gaps, so a version's number is its place in  *)
(* the list.  Schemas are left out: they are cloned, never changed.        *)
(***************************************************************************)
EXTENDS Naturals, Sequences

CONSTANTS
  TableId,      \* table ids; whether the catalog has one is Service's concern
  MaxVersions   \* bound: versions of one table

VersionState == {"draft", "published", "superseded", "rolled-back"}

ASSUME VersionsAssumption == MaxVersions \in Nat

VARIABLES
  versions,     \* Meta.versions: [TableId -> Seq(VersionState)]
  current       \* Meta.current, 0 where the map has no entry

versionVars == <<versions, current>>

VersionsTypeOK ==
  /\ versions \in [TableId -> Seq(VersionState)]
  /\ current \in [TableId -> Nat]
  /\ \A t \in TableId : current[t] <= Len(versions[t])

VersionsInit ==
  /\ versions = [t \in TableId |-> <<>>]
  /\ current = [t \in TableId |-> 0]

(* find: a number that belongs to no version finds none.                   *)
Exists(t, n) == n \in DOMAIN versions[t]

(* Version.IsReadable                                                      *)
Readable(state) == state \in {"published", "superseded"}

IsReadable(t, n) == Exists(t, n) /\ Readable(versions[t][n])

SetState(t, n, state) ==
  versions' = [versions EXCEPT ![t] = [@ EXCEPT ![n] = state]]

(* The largest number in a set of version numbers.                         *)
Largest(S, n) == n \in S /\ \A m \in S : m <= n

-----------------------------------------------------------------------------
(* Draft: the next version, whichever versions the table has.              *)
Draft(t) ==
  /\ Len(versions[t]) < MaxVersions
  /\ versions' = [versions EXCEPT ![t] = Append(@, "draft")]
  /\ UNCHANGED current

Drafts(t) == {n \in DOMAIN versions[t] : versions[t][n] = "draft"}

(* A Publish of the latest version, whatever its state.                    *)
PublishLatest(t, n) ==
  /\ Largest(DOMAIN versions[t], n)
  /\ SetState(t, n, "published")
  /\ current' = [current EXCEPT ![t] = n]

(* Publish: the draft with the largest number, which may be smaller than   *)
(* the number of a version published before.                               *)
PublishDraft(t, n) ==
  /\ Largest(Drafts(t), n)
  /\ SetState(t, n, "published")
  /\ current' = [current EXCEPT ![t] = n]

(* A search for the previous version that does not ask for its state.      *)
AnyBelow(t, n) == {m \in DOMAIN versions[t] : m < n}

(* previousReadable                                                        *)
ReadableBelow(t, n) == {m \in DOMAIN versions[t] : m < n /\ IsReadable(t, m)}

(* Rollback: the previous version is the readable one with the largest     *)
(* number below, whichever was current before.                             *)
RollBack(t) ==
  LET n == current[t] IN
  /\ Exists(t, n)
  /\ SetState(t, n, "rolled-back")
  /\ \/ /\ ReadableBelow(t, n) = {}
        /\ current' = [current EXCEPT ![t] = 0]
     \/ \E m \in ReadableBelow(t, n) :
          /\ Largest(ReadableBelow(t, n), m)
          /\ current' = [current EXCEPT ![t] = m]

SwitchTo(t, n) ==
  /\ IsReadable(t, n)
  /\ current' = [current EXCEPT ![t] = n]
  /\ UNCHANGED versions

(* A Supersede that removes the older versions instead of marking them.    *)
SupersedePruning(t) ==
  /\ current[t] # 0
  /\ versions' = [versions EXCEPT ![t] = SubSeq(@, current[t], Len(@))]
  /\ UNCHANGED current

(* A Supersede that takes drafts and rolled-back versions along.           *)
SupersedeAll(t) ==
  /\ current[t] # 0
  /\ versions' = [versions EXCEPT ![t] =
       [n \in DOMAIN @ |-> IF n # current[t] THEN "superseded" ELSE @[n]]]
  /\ UNCHANGED current

(* Supersede: every published version but the current one, newer ones too. *)
Supersede(t) ==
  /\ current[t] # 0
  /\ versions' = [versions EXCEPT ![t] =
       [n \in DOMAIN @ |-> IF @[n] = "published" /\ n # current[t]
                           THEN "superseded" ELSE @[n]]]
  /\ UNCHANGED current

VersionsNext ==
  \E t \in TableId :
    \/ Draft(t) \/ RollBack(t) \/ Supersede(t)
    \/ \E n \in DOMAIN versions[t] : PublishDraft(t, n) \/ SwitchTo(t, n)

VersionsSpec == VersionsInit /\ [][VersionsNext]_versionVars

-----------------------------------------------------------------------------
(* The current version of a table exists and may be read: Parse and        *)
(* ResolveVersion hand it out without asking for its state.                *)
CurrentReadable ==
  \A t \in TableId : current[t] # 0 => IsReadable(t, current[t])

(* The version state machine as the model package declares it.             *)
StateTransitionAllowed(from, to) ==
  \/ from = "draft" /\ to \in {"published", "rolled-back"}
  \/ from = "published" /\ to \in {"superseded", "rolled-back"}

(* A version is never taken away or renumbered, and changes its state only *)
(* as StateTransitionAllowed lets it - no operation asks - or by a         *)
(* Rollback of a superseded version that SwitchTo made current: never does *)
(* it become a draft again, never does it come back from a rollback,       *)
(* however publishing, switching, superseding and rolling back alternate.  *)
NoWayBack ==
  [][\A t \in TableId : \A n \in DOMAIN versions[t] :
       /\ n \in DOMAIN versions'[t]
       /\ \/ versions'[t][n] = versions[t][n]
          \/ StateTransitionAllowed(versions[t][n], versions'[t][n])
          \/ versions[t][n] = "superseded" /\ versions'[t][n] = "rolled-back"]_versionVars
=============================================================================
