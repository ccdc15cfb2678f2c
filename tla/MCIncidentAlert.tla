-------------------------- MODULE MCIncidentAlert --------------------------
(* Two responders and up to four clicks on an alert of three entries.      *)
EXTENDS IncidentAlert, TLC
CONSTANTS r1, r2
ASSUME MCResponders == r1 # r2
Symmetry == Permutations({r1, r2})
=============================================================================
