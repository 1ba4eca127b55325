---------------------------- MODULE MCPoolHandle ----------------------------
(* Two pool objects that copy and move each other.                         *)
EXTENDS PoolHandle

MCTwoObjs == {"p1", "p2"}
=============================================================================
