------------------------------ MODULE MCHistory ------------------------------
(* Model values of the runs and conversations.                             *)
EXTENDS History, TLC

CONSTANTS r1, r2, r3, r4, s1, s2

FourRuns    == {r1, r2, r3, r4}
ThreeRuns   == {r1, r2, r3}
OneSession  == {s1}
TwoSessions == {s1, s2}
Symmetry    == Permutations(FourRuns) \union Permutations(TwoSessions)
=============================================================================
