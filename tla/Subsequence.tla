----------------------------- MODULE Subsequence -----------------------------
(***************************************************************************)
(* What is left of a list when a loop skips some of its elements, as       *)
(* entriesLocked does with the lines that do not parse and RepairPairing   *)
(* with the calls that have their result.  It is SelectSeq, with the set   *)
(* of what is kept in place of an operator.                                *)
(***************************************************************************)
EXTENDS SequencesExt

(* The elements of seq that are in S, in their order.                      *)
Only(seq, S) ==
    FlattenSeq([n \in DOMAIN seq |-> IF seq[n] \in S THEN <<seq[n]>> ELSE <<>>])
=============================================================================
