----------------------------- MODULE MCWritePath -----------------------------
(* Three transactions: an EVM transfer to a listed account, one to a       *)
(* built-in recipient, and a Cosmos transfer.                              *)
EXTENDS WritePath

CONSTANTS pay, toll, send, alice, bridge

MCTxs       == {pay, toll, send}
MCAccounts  == {alice, bridge}
MCDefaults  == {bridge}
MCFamily    == [t \in MCTxs |-> IF t = send THEN "cosmos" ELSE "evm"]
MCRecipient == [t \in MCTxs |-> IF t = toll THEN bridge ELSE alice]
=============================================================================
