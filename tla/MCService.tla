------------------------------ MODULE MCService ----------------------------
(* An instance of Service for TLC: one table that two callers post, draft  *)
(* and take snapshots of while the feed imports it and rolls back.         *)
EXTENDS Service

CONSTANTS t1, A, r1, r2

T(id, revision) ==
  [id |-> id, name |-> A, fields |-> {}, revision |-> revision]

OnePosted == {T(t1, 1), T(NoId, 1)}
OnePut == {{}}
OneBody == {[tables |-> <<T(t1, 0)>>, commit |-> FALSE]}
=============================================================================
