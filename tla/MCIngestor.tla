------------------------------ MODULE MCIngestor ------------------------------
(* Two events of one policy in one pod, one of which Tetragon has seen, and *)
(* a GuardDuty finding.                                                     *)
EXTENDS Ingestor

MCAlerts == {"a1", "a2", "g1"}
MCKind == [a \in MCAlerts |-> IF a = "g1" THEN "finding" ELSE "shell"]
=============================================================================
