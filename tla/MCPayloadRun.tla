---------------------------- MODULE MCPayloadRun ----------------------------
(* Payload ids and symmetry for the runs of PayloadRun.                      *)
EXTENDS PayloadRun, TLC

CONSTANTS p1, p2

MCOne == {p1}
MCTwo == {p1, p2}
MCSymmetry == Permutations(MCTwo)
=============================================================================
