--------------------------- MODULE MCCycleSearch ---------------------------
(* An instance of CycleSearch for TLC: three tables.                       *)
EXTENDS CycleSearch

ThreeIds == 1 .. 3
=============================================================================
