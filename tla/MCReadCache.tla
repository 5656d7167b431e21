---------------------------- MODULE MCReadCache ----------------------------
(* Instances of ReadCache for TLC.  Tables are cached independently, so    *)
(* one id is enough; its two field lists and revisions tell apart what the *)
(* catalog held at different times.                                        *)
EXTENDS ReadCache, TLC

CONSTANTS a, n, c, d, r1, r2

OnePosted == {[id |-> a, name |-> n, fields |-> {c}, revision |-> 1]}

OtherFields == {{d}}

Interchangeable == Permutations(Reader)
=============================================================================
