------------------------------ MODULE MCReAsync ------------------------------
(***************************************************************************)
(* Instances of ReAsync for TLC.                                           *)
(***************************************************************************)
EXTENDS ReAsync

CONSTANTS w1, p1, p2, p3, p4, p5

OneWorker == {w1}
FivePosts == {p1, p2, p3, p4, p5}
=============================================================================
