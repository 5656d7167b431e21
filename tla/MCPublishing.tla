---------------------------- MODULE MCPublishing ---------------------------
(* Instances of Publishing for TLC.                                        *)
EXTENDS Publishing

CONSTANTS t1, t2, r1, r2, s1, s2

AllEvents == VersionEvent \cup LineageEvent
=============================================================================
