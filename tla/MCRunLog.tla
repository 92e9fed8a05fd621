-------------------------------- MODULE MCRunLog --------------------------------
(* Order 10, given as a number, and an EVM transfer to account 1.          *)
EXTENDS RunLog

CONSTANTS r1, v1, v2, t1, t2

OneRun     == {r1}
TwoViewers == {v1, v2}
TwoTxs     == {t1, t2}
Writes     == {[what |-> 10, text |-> FALSE, evm |-> FALSE],
               [what |-> 1, text |-> TRUE, evm |-> TRUE]}
=============================================================================
