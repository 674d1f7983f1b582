--------------------------- MODULE MCAgentLoop ---------------------------
(* Instances of AgentLoop for TLC; the configurations give the bounds.     *)
EXTENDS AgentLoop
=============================================================================
