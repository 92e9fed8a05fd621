------------------------------ MODULE MCRemotePool ------------------------------
(* Two runs at once; the second one is started under either key.           *)
EXTENDS RemotePool, TLC

CONSTANTS r1, r2, alice, bob, c1, c2, c3

TwoRuns      == {r1, r2}
TwoOwners    == {alice, bob}
OneSwitches  == r1 :> {alice} @@ r2 :> {alice, bob}
ThreeClients == {c1, c2, c3}
=============================================================================
