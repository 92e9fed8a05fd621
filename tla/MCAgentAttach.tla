----------------------------- MODULE MCAgentAttach -----------------------------
(* Two agents that may list a signing tool, another name that is taken, a  *)
(* builder the remote MCP server has as well, one of their own, with and   *)
(* without a handshake.                                                    *)
EXTENDS AgentAttach, TLC

CONSTANTS a1, a2

TwoAgents == {a1, a2}
Tools     == {"sign_tx", "http_fetch", "build", "quote", "auth"}
Own       == {"sign_tx", "http_fetch"}
Signs     == {"sign_tx"}
Remote    == {"build", "auth"}
Auth      == {"auth"}
Listings  == {{}, {"sign_tx", "http_fetch"}, {"build", "auth"}, {"build", "quote"}}
=============================================================================
