------------------------- MODULE MCForensicSynthesis -------------------------
(* Two artifacts stand for the five of the code.                           *)
EXTENDS ForensicSynthesis
=============================================================================
