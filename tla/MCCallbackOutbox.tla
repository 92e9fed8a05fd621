-------------------------- MODULE MCCallbackOutbox --------------------------
(***************************************************************************)
(* Instances of CallbackOutbox for TLC.  The bounds are the constants.     *)
(***************************************************************************)
EXTENDS CallbackOutbox, TLC

Symmetry == Permutations(Runs) \union Permutations(Hashes)
              \union Permutations(Clients) \union Permutations(Tasks)
=============================================================================
