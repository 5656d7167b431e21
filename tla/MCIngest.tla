------------------------------ MODULE MCIngest -----------------------------
(* Instances of Ingest for TLC: two or three tables, two columns, a feed   *)
(* whose segments merge into known tables, create tables, collide with     *)
(* names and carry a table without an id.                                  *)
EXTENDS Ingest, TLC

CONSTANTS t1, t2, t3, A, B, x, y

T(id, name, fields, revision) ==
  [id |-> id, name |-> name, fields |-> fields, revision |-> revision]

Batch(ts, commit) == [tables |-> ts, commit |-> commit]

(* Each id under one name; t2 and t3 compete for name B.                   *)
FixedPosted == {T(t1, A, {x}, 1), T(t2, B, {x}, 1)}
FixedPut == {{y}}
FixedBodies ==
  {Batch(<<T(t1, A, {y}, 0)>>, TRUE),
   Batch(<<T(t3, B, {}, 0)>>, FALSE),
   Batch(<<T(t1, A, {}, 0), T(t2, B, {y}, 0)>>, FALSE)}

(* Clients may register an id again under another name.                    *)
RenamePosted == {T(t1, A, {x}, 1), T(t1, B, {x}, 1), T(t2, A, {}, 1)}
RenamePut == {{y}}
RenameBodies ==
  {Batch(<<T(t1, A, {y}, 0)>>, TRUE),
   Batch(<<T(t2, B, {y}, 0)>>, FALSE),
   Batch(<<T(t1, A, {}, 0), T(NoId, B, {}, 0)>>, TRUE)}

(* One client table; the feed alone extends it, adds another and fails.    *)
SoloPosted == {T(t1, A, {x}, 1)}
NoPut == {}
SoloBodies ==
  {Batch(<<T(t1, A, {y}, 0)>>, FALSE), Batch(<<T(t2, B, {y}, 0)>>, FALSE),
   Batch(<<T(t1, A, {y}, 0), T(NoId, B, {}, 0)>>, TRUE)}
=============================================================================
