------------------------------- MODULE MCLog --------------------------------
(* Instances of Log for TLC. *)
EXTENDS Log

CONSTANTS p1, p2, b1, b2, b3, v1, v2

TwoProcs == {p1, p2}
TwoBlocks == {b1, b2}
ThreeBlocks == {b1, b2, b3}
TwoVals == {v1, v2}
=============================================================================
