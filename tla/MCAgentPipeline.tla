--------------------------- MODULE MCAgentPipeline ---------------------------
(* Two responders, who may act at the same time.                           *)
EXTENDS AgentPipeline

CONSTANTS r1, r2
=============================================================================
