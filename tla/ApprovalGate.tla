----------------------------- MODULE ApprovalGate -----------------------------
(***************************************************************************)
(* What the pipeline promises about consent, with no state machine, no     *)
(* tokens and no Slack: an incident is decided once, by its severity, by a *)
(* responder or by the clock, and only a decision in favour is acted on.   *)
(***************************************************************************)
VARIABLES verdict,  \* the decision about the incident
          acted     \* the pipeline's remediation agent has been started

Init == verdict = "none" /\ acted = FALSE

Decide == /\ verdict = "none"
          /\ verdict' \in {"auto", "approved", "rejected"}
          /\ UNCHANGED acted

Act == /\ verdict \in {"auto", "approved"}
       /\ acted' = TRUE
       /\ UNCHANGED verdict

Next == Decide \/ Act

Spec == Init /\ [][Next]_<<verdict, acted>>
=============================================================================
