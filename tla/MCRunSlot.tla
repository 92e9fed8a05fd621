------------------------------ MODULE MCRunSlot ------------------------------
(* Two overlapping sends and a third one later.                            *)
EXTENDS RunSlot, TLC

CONSTANTS r1, r2, r3

TwoRuns   == {r1, r2}
ThreeRuns == {r1, r2, r3}
Symmetry  == Permutations(ThreeRuns)
=============================================================================
