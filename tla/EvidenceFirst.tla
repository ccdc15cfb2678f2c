---------------------------- MODULE EvidenceFirst ----------------------------
(***************************************************************************)
(* What the remediation guard promises for one task, with no agent, no     *)
(* connection and no server: forensic capture completes before the first   *)
(* destructive or network-isolating step.                                  *)
(***************************************************************************)
VARIABLES captured,  \* a required capture of the task is stored and listed
          damaged    \* a destructive step has reached the cluster

Init == captured = FALSE /\ damaged = FALSE

Capture == /\ captured' = TRUE
           /\ UNCHANGED damaged

Destroy == /\ captured
           /\ damaged' = TRUE
           /\ UNCHANGED captured

Next == Capture \/ Destroy

Spec == Init /\ [][Next]_<<captured, damaged>>
=============================================================================
