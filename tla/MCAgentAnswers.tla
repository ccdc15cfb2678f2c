--------------------------- MODULE MCAgentAnswers ---------------------------
(* All answers of up to four pieces.                                       *)
EXTENDS AgentAnswers
ASSUME MCPieces == MaxPieces >= 3
=============================================================================
