----------------------------- MODULE MCLineage -----------------------------
(* Instances of Lineage for TLC.                                           *)
EXTENDS Lineage

CONSTANTS n1, n2, n3

(* Ids without "|": the key of an edge is as good as the pair of ids.      *)
PlainKey == Pair
PlainKeyOf == [p \in Pair |-> p]
=============================================================================
