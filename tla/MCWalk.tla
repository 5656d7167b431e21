------------------------------- MODULE MCWalk ------------------------------
(* Instances of Walk for TLC.                                              *)
EXTENDS Walk

CONSTANTS n1, n2, n3

(* Ids like "a" and "a|a": the edges between the two, in either direction, *)
(* have the same key.                                                      *)
SharedKey == Pair
SharedKeyOf == [p \in Pair |-> IF p = <<n2, n1>> THEN <<n1, n2>> ELSE p]
=============================================================================
