------------------------- MODULE MCIncidentRecords -------------------------
(* Two ids, two executions and a responder of the incident table, and      *)
(* limits of the size of the table; a day is of seconds, a week of days.    *)
EXTENDS IncidentRecords, TLC
CONSTANTS e1, e2, r1
ASSUME MCRecords == Cardinality({e1, e2, r1}) = 3
Actors == Permutations({e1, e2})
=============================================================================
