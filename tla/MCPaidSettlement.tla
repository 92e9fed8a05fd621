-------------------------- MODULE MCPaidSettlement --------------------------
(***************************************************************************)
(* Instances of PaidSettlement for TLC.  The bounds are the constants.     *)
(***************************************************************************)
EXTENDS PaidSettlement, TLC

Symmetry == Permutations(Tasks) \union Permutations(Hashes)
              \union Permutations(Runs \ SettlementRuns)
              \union Permutations(Endpoints)
=============================================================================
