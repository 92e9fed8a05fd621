----------------------------- MODULE MCMarketLookup -----------------------------
(* Two pages of one record each, and three agents: a listing may be too    *)
(* long to be walked.  Agents are alike, so the first listing has them in  *)
(* one order, at the lower price.                                          *)
EXTENDS MarketLookup, TLC

CONSTANTS a1, a2, a3, e1, e2

ThreeAgents  == <<a1, a2, a3>>
AgentSet     == {a1, a2, a3}
TwoEndpoints == {e1, e2}

FirstListings ==
    UNION {{[i \in 1..n |-> [agent |-> ThreeAgents[i], endpoint |-> at[i], price |-> 5]] :
              at \in [1..n -> TwoEndpoints]} : n \in 0..3}
=============================================================================
