---------------------------- MODULE AgentPipeline ----------------------------
(***************************************************************************)
(* One execution of the agent pipeline (the state machine of               *)
(* terraform/modules/lambda/main.tf with the handlers of its tasks), the   *)
(* incident's record in DynamoDB, and the Slack bot's handlers             *)
(* (app/slack_bot) that write the same record and answer the same task     *)
(* token while the execution runs.                                         *)
(*                                                                         *)
(* What the models (LLM) answer is free.  Any call may fail, and a failed  *)
(* call may have done its work.  The Slack webhook is configured (without  *)
(* one every handler skips its message, slack_notifier.py:75).  The        *)
(* remediation agent's own run is the subject of RemediationAgent; here it *)
(* is begun and ends.                                                      *)
(***************************************************************************)
EXTENDS Integers, FiniteSets

CONSTANTS
    Responders,        \* those who use the Slack bot
    NotifierHasTable,  \* DYNAMODB_TABLE_NAME reaches the approval notifier
    MaxRequests,       \* bound: approvals, rejections and /atdr remediate
    None

ASSUME PipelineAssumption == /\ NotifierHasTable \in BOOLEAN
                             /\ MaxRequests \in Nat

Decisions  == {"approved", "rejected"}
(* "P1" stands for all that goes the default way; "none" for no severity *)
Severities == {"P1", "P3", "P4", "none"}
Statuses   == {"detected", "triaged", "pending_approval", "acknowledged", "investigating",
               "resolved", "remediation_approved", "remediation_triggered", "remediated"}
ASSUME PipelineNoneAssumption == None \notin Decisions \cup Statuses
Agents     == {"SummaryAgent", "TriageAgent", "SolutionAgent", "SolutionAgentWithApproval",
               "RemediationAgent", "ForensicSynthesisAgent"}
Ended      == {"LogOnly", "RejectedEnd", "Succeeded", "Failed"}
States     == Agents \cup Ended \cup {"CheckSeverity", "WaitForApproval", "CheckApproval",
                                      "ApprovalTimeout", "DegradedNotify"}

(* MaxAttempts of each task's Retry *)
MaxAttempts == [s \in Agents |->
    CASE s = "SummaryAgent" -> 3
      [] s \in {"SolutionAgent", "SolutionAgentWithApproval"} -> 3
      [] s \in {"TriageAgent", "ForensicSynthesisAgent"} -> 2
      [] s = "RemediationAgent" -> 1]

VARIABLES
    state,     \* the state the execution is in
    attempt,   \* retries of the current task
    begun,     \* how far the current task's handler is: its first write is done
    severity,  \* $.triage.body.severity
    named,     \* $.summary.body has an incident_id
    token,     \* the task token: "none", "open" until answered or timed out, "closed"
    decision,  \* $.approval.decision
    notifier,  \* how far the approval notifier is
    record,    \* the incident's item: status, a task_token, a synthesis
    buttons,   \* Slack shows the approval request with its buttons
    shown,     \* the decision Slack shows in their place
    hand,      \* per responder, the bot's handler at work
    requests,  \* how many handlers were started
    direct,    \* runs of the remediation agent the bot has asked for
    audit,     \* the decisions in the approval-audit table
    ordered,   \* history: /atdr remediate has answered the token
    reported,  \* history: a message about the detection has reached Slack
    runs       \* history: the pipeline has begun a remediation

sfnVars   == <<state, attempt, begun, severity, named, token, decision>>
slackVars == <<buttons, shown>>
botVars   == <<hand, requests, direct, audit, ordered>>
vars == <<sfnVars, notifier, record, slackVars, botVars, reported, runs>>

Handler == [step : {"idle", "post", "audit", "send", "order", "mark", "invoke", "trigger"},
            decision : Decisions]
Idle == [step |-> "idle", decision |-> "rejected"]

TypeOK ==
    /\ state \in States
    /\ attempt \in 0..3
    /\ begun \in BOOLEAN
    /\ severity \in Severities
    /\ named \in BOOLEAN
    /\ token \in {"none", "open", "closed"}
    /\ decision \in Decisions \cup {None}
    /\ notifier \in {"idle", "store", "ask"}
    /\ record \in [status : Statuses \cup {None}, token : BOOLEAN, synthesis : BOOLEAN]
    /\ buttons \in BOOLEAN
    /\ shown \in Decisions \cup {None}
    /\ hand \in [Responders -> Handler]
    /\ requests \in 0..MaxRequests
    /\ direct \in Nat
    /\ audit \subseteq Decisions
    /\ ordered \in BOOLEAN
    /\ reported \in BOOLEAN
    /\ runs \in BOOLEAN

Init ==
    /\ state = "SummaryAgent" /\ attempt = 0 /\ begun = FALSE
    /\ severity = "none" /\ named = FALSE
    /\ token = "none" /\ decision = None /\ notifier = "idle"
    /\ record = [status |-> None, token |-> FALSE, synthesis |-> FALSE]
    /\ buttons = FALSE /\ shown = None
    /\ hand = [r \in Responders |-> Idle]
    /\ requests = 0 /\ direct = 0 /\ audit = {} /\ ordered = FALSE
    /\ reported = FALSE /\ runs = FALSE

-----------------------------------------------------------------------------
(* The state machine *)
GoTo(next) == state' = next /\ attempt' = 0 /\ begun' = FALSE

SetStatus(s) == record' = [record EXCEPT !.status = s]

(* The incident's item as the current handler's write leaves it: put by the *)
(* summary agent over whatever there was, updated by the others if the      *)
(* summary has an incident_id.                                              *)
Written ==
    CASE state = "SummaryAgent" -> [status |-> "detected", token |-> FALSE, synthesis |-> FALSE]
      [] state = "TriageAgent" /\ ~begun /\ named -> [record EXCEPT !.status = "triaged"]
      [] state = "RemediationAgent" /\ begun /\ named -> [record EXCEPT !.status = "remediated"]
      [] state = "ForensicSynthesisAgent" /\ named -> [record EXCEPT !.synthesis = TRUE]
      [] OTHER -> record

(* A parse error, or an answer without one, leaves no incident_id.         *)
SummaryAgent ==
    /\ state = "SummaryAgent"
    /\ record' = Written
    /\ named' \in BOOLEAN
    /\ GoTo("TriageAgent")
    /\ UNCHANGED <<severity, token, decision, notifier, slackVars, botVars, reported, runs>>

(* update_incident first, then the alert with its buttons: a run that fails *)
(* in between is repeated from the start *)
TriageAgent ==
    /\ state = "TriageAgent" /\ ~begun
    /\ begun' = TRUE
    /\ record' = Written
    /\ UNCHANGED <<state, attempt, severity, named, token, decision, notifier, slackVars,
                   botVars, reported, runs>>

NotifySlack ==
    /\ state = "TriageAgent" /\ begun
    /\ reported' = TRUE
    /\ severity' \in Severities
    /\ GoTo("CheckSeverity")
    /\ UNCHANGED <<named, token, decision, notifier, record, slackVars, botVars, runs>>

(* A choice on a path the input does not have is a runtime error.          *)
CheckSeverity ==
    /\ state = "CheckSeverity"
    /\ GoTo(CASE severity = "P4" -> "LogOnly"
              [] severity = "P3" -> "SolutionAgent"
              [] severity = "P1" -> "SolutionAgentWithApproval"
              [] severity = "none" -> "Failed")
    /\ UNCHANGED <<severity, named, token, decision, notifier, record, slackVars, botVars,
                   reported, runs>>

SolutionAgent ==
    /\ state \in {"SolutionAgent", "SolutionAgentWithApproval"}
    /\ IF state = "SolutionAgent"
       THEN GoTo("RemediationAgent") /\ UNCHANGED <<token, notifier>>
       ELSE GoTo("WaitForApproval") /\ token' = "open" /\ notifier' = "store"
    /\ UNCHANGED <<severity, named, decision, record, slackVars, botVars, reported, runs>>

(* What a failing task may have done of its work.                          *)
DoneInVain ==
    /\ record' \in {record, Written}
    /\ reported' \in {reported, reported \/ (state = "TriageAgent" /\ begun)}
    /\ UNCHANGED <<severity, named, token, decision, notifier, slackVars, botVars, runs>>

Retry == /\ attempt < MaxAttempts[state]
         /\ attempt' = attempt + 1 /\ begun' = FALSE /\ UNCHANGED state

Catch == GoTo(IF state = "RemediationAgent" THEN "ForensicSynthesisAgent" ELSE "DegradedNotify")

(* mutant: a retry is not counted *)
AgentFails_Uncounted ==
    /\ state \in Agents
    /\ \/ begun' = FALSE /\ UNCHANGED <<state, attempt>>
       \/ Catch
    /\ DoneInVain

(* mutant: the summary agent has no Catch *)
AgentFails_SummaryUncaught ==
    /\ state \in Agents
    /\ \/ Retry
       \/ attempt = MaxAttempts[state] /\ state # "SummaryAgent" /\ Catch
       \/ state = "SummaryAgent" /\ GoTo("Failed")
    /\ DoneInVain

(* A task that fails is retried, then caught.  SummaryAgent retries some    *)
(* errors only.                                                             *)
AgentFails ==
    /\ state \in Agents
    /\ \/ Retry
       \/ (attempt = MaxAttempts[state] \/ state = "SummaryAgent") /\ Catch
    /\ DoneInVain

-----------------------------------------------------------------------------
(* WaitForApproval: the notifier is invoked with the token, and whoever     *)
(* answers the token ends the state.                                        *)

StoreTaskToken ==
    /\ notifier = "store"
    /\ notifier' = "ask"
    /\ record' = IF NotifierHasTable /\ named
                 THEN [record EXCEPT !.status = "pending_approval", !.token = TRUE]
                 ELSE record
    /\ UNCHANGED <<sfnVars, slackVars, botVars, reported, runs>>

SendApprovalRequest ==
    /\ notifier = "ask"
    /\ notifier' = "idle"
    /\ buttons' = TRUE
    /\ reported' = TRUE
    /\ UNCHANGED <<sfnVars, record, shown, botVars, runs>>

(* Its failure is not the States.Timeout that is caught; once the token is  *)
(* answered it no longer counts.  What it was about to do may be done.      *)
ApprovalNotifierFails ==
    /\ notifier # "idle"
    /\ notifier' = "idle"
    /\ buttons' \in {buttons, buttons \/ notifier = "ask"}
    /\ IF state = "WaitForApproval"
       THEN GoTo("Failed") /\ token' = "closed"
       ELSE UNCHANGED <<state, attempt, begun, token>>
    /\ UNCHANGED <<severity, named, decision, record, shown, botVars, reported, runs>>

(* mutant: the token of a wait that has timed out still takes an answer *)
ApprovalTimesOut_TokenStays ==
    /\ state = "WaitForApproval"
    /\ GoTo("ApprovalTimeout")
    /\ UNCHANGED <<severity, named, token, decision, notifier, record, slackVars, botVars,
                   reported, runs>>

ApprovalTimesOut ==
    /\ state = "WaitForApproval"
    /\ GoTo("ApprovalTimeout")
    /\ token' = "closed"
    /\ UNCHANGED <<severity, named, decision, notifier, record, slackVars, botVars, reported,
                   runs>>

SendTaskSuccess(d) ==
    /\ token = "open"
    /\ GoTo("CheckApproval")
    /\ token' = "closed"
    /\ decision' = d

(* mutant: any answer goes on *)
CheckApproval_AnyAnswer ==
    /\ state = "CheckApproval"
    /\ GoTo("RemediationAgent")
    /\ UNCHANGED <<severity, named, token, decision, notifier, record, slackVars, botVars,
                   reported, runs>>

CheckApproval ==
    /\ state = "CheckApproval"
    /\ GoTo(IF decision = "approved" THEN "RemediationAgent" ELSE "RejectedEnd")
    /\ UNCHANGED <<severity, named, token, decision, notifier, record, slackVars, botVars,
                   reported, runs>>

-----------------------------------------------------------------------------
BeginRemediation ==
    /\ state = "RemediationAgent" /\ ~begun
    /\ begun' = TRUE
    /\ runs' = TRUE
    /\ UNCHANGED <<state, attempt, severity, named, token, decision, notifier, record,
                   slackVars, botVars, reported>>

RemediationAgent ==
    /\ state = "RemediationAgent" /\ begun
    /\ record' = Written
    /\ GoTo("ForensicSynthesisAgent")
    /\ UNCHANGED <<severity, named, token, decision, notifier, slackVars, botVars, reported, runs>>

ForensicSynthesisAgent ==
    /\ state = "ForensicSynthesisAgent"
    /\ record' = Written
    /\ GoTo("Succeeded")
    /\ UNCHANGED <<severity, named, token, decision, notifier, slackVars, botVars, reported, runs>>

DegradedNotify ==
    /\ state \in {"DegradedNotify", "ApprovalTimeout"}
    /\ \/ GoTo("Succeeded") /\ reported' = TRUE
       \/ GoTo("Failed") /\ reported' \in {reported, TRUE}
    /\ UNCHANGED <<severity, named, token, decision, notifier, record, slackVars, botVars, runs>>

-----------------------------------------------------------------------------
(* The Slack bot: the buttons of the approval request (interactions.py) *)
Moves(r, step) == hand' = [hand EXCEPT ![r].step = step]

Click(r, d) ==
    /\ hand[r] = Idle /\ buttons
    /\ requests < MaxRequests
    /\ requests' = requests + 1
    /\ hand' = [hand EXCEPT ![r] = [step |-> "post", decision |-> d]]
    /\ UNCHANGED <<sfnVars, notifier, record, slackVars, direct, audit, ordered, reported, runs>>

(* a failed post is only logged *)
PostResponseUrl(r) ==
    /\ hand[r].step = "post"
    /\ \/ buttons' = FALSE /\ shown' = hand[r].decision
       \/ UNCHANGED slackVars
    /\ Moves(r, "audit")
    /\ UNCHANGED <<sfnVars, notifier, record, requests, direct, audit, ordered, reported, runs>>

(* mutant: the token is answered before the audit entry is written *)
AuditDecision_Later(r) ==
    /\ hand[r].step = "audit"
    /\ Moves(r, "send")
    /\ UNCHANGED <<sfnVars, notifier, record, slackVars, requests, direct, audit, ordered,
                   reported, runs>>

AuditDecision(r) ==
    /\ hand[r].step = "audit"
    /\ audit' = audit \cup {hand[r].decision}
    /\ Moves(r, "send")
    /\ UNCHANGED <<sfnVars, notifier, record, slackVars, requests, direct, ordered, reported, runs>>

SendDecision(r) ==
    /\ hand[r].step = "send"
    /\ SendTaskSuccess(hand[r].decision)
    /\ hand' = [hand EXCEPT ![r] = Idle]
    /\ UNCHANGED <<severity, named, notifier, record, slackVars, requests, direct, audit, ordered,
                   reported, runs>>

(* Every exception of _process_approval is logged and swallowed, and the    *)
(* Lambda may end before it: the rest is not done.                          *)
ApprovalBreaksOff(r) ==
    /\ hand[r].step \in {"post", "audit", "send"}
    /\ hand' = [hand EXCEPT ![r] = Idle]
    /\ UNCHANGED <<sfnVars, notifier, record, slackVars, requests, direct, audit, ordered,
                   reported, runs>>

(* /atdr ack, investigate, assign, escalate, resolve and their buttons: no   *)
(* look at the status they replace *)
Transition ==
    /\ record.status # None
    /\ \E s \in {"acknowledged", "investigating", "resolved"} : SetStatus(s)
    /\ UNCHANGED <<sfnVars, notifier, slackVars, botVars, reported, runs>>

-----------------------------------------------------------------------------
(* The Slack bot: /atdr remediate (commands.py) *)
RemediateCommand(r) ==
    /\ hand[r] = Idle /\ record.status # None
    /\ requests < MaxRequests
    /\ requests' = requests + 1
    /\ hand' = [hand EXCEPT ![r] = [step |-> IF record.token THEN "order" ELSE "invoke",
                                    decision |-> "approved"]]
    /\ UNCHANGED <<sfnVars, notifier, record, slackVars, direct, audit, ordered, reported, runs>>

(* mutant: the status is written before the token is answered *)
SendOrder_MarkFirst(r) ==
    /\ hand[r].step = "order"
    /\ SetStatus("remediation_approved")
    /\ Moves(r, "invoke")
    /\ UNCHANGED <<sfnVars, notifier, slackVars, requests, direct, audit, ordered, reported,
                   runs>>

(* an answer that is not taken, or gets lost, goes the other way *)
SendOrder(r) ==
    /\ hand[r].step = "order"
    /\ \/ /\ SendTaskSuccess("approved") /\ ordered' = TRUE
          /\ Moves(r, "mark") \/ Moves(r, "invoke")
       \/ /\ Moves(r, "invoke")
          /\ UNCHANGED <<state, attempt, begun, token, decision, ordered>>
    /\ UNCHANGED <<severity, named, notifier, record, slackVars, requests, direct, audit,
                   reported, runs>>

(* mutant: the decision is written for the status, which no view knows *)
MarkApproved_Decision(r) ==
    /\ hand[r].step = "mark"
    /\ SetStatus(hand[r].decision)
    /\ hand' = [hand EXCEPT ![r] = Idle]
    /\ UNCHANGED <<sfnVars, notifier, slackVars, requests, direct, audit, ordered, reported,
                   runs>>

(* ... and so does an approval whose status could not be written *)
MarkApproved(r) ==
    /\ hand[r].step = "mark"
    /\ \/ /\ SetStatus("remediation_approved")
          /\ hand' = [hand EXCEPT ![r] = Idle] \/ Moves(r, "invoke")
       \/ UNCHANGED record /\ Moves(r, "invoke")
    /\ UNCHANGED <<sfnVars, notifier, slackVars, requests, direct, audit, ordered, reported,
                   runs>>

(* the payload's summary has no "body": the run knows no incident_id and    *)
(* writes no record *)
InvokeRemediationDirectly(r) ==
    /\ hand[r].step = "invoke"
    /\ direct' = direct + 1
    /\ Moves(r, "trigger")
    /\ UNCHANGED <<sfnVars, notifier, record, slackVars, requests, audit, ordered, reported, runs>>

MarkTriggered(r) ==
    /\ hand[r].step = "trigger"
    /\ SetStatus("remediation_triggered")
    /\ hand' = [hand EXCEPT ![r] = Idle]
    /\ UNCHANGED <<sfnVars, notifier, slackVars, requests, direct, audit, ordered, reported,
                   runs>>

RemediateBreaksOff(r) ==
    /\ hand[r].step \in {"order", "mark", "invoke", "trigger"}
    /\ hand' = [hand EXCEPT ![r] = Idle]
    /\ UNCHANGED <<sfnVars, notifier, record, slackVars, requests, direct, audit, ordered,
                   reported, runs>>

-----------------------------------------------------------------------------
Execution ==
    \/ SummaryAgent \/ TriageAgent \/ NotifySlack \/ CheckSeverity \/ SolutionAgent \/ AgentFails
    \/ ApprovalTimesOut \/ CheckApproval \/ BeginRemediation \/ RemediationAgent
    \/ ForensicSynthesisAgent \/ DegradedNotify

Notifier == StoreTaskToken \/ SendApprovalRequest \/ ApprovalNotifierFails

BotStep(r) ==
    \/ PostResponseUrl(r) \/ AuditDecision(r) \/ SendDecision(r) \/ ApprovalBreaksOff(r)
    \/ SendOrder(r) \/ MarkApproved(r) \/ InvokeRemediationDirectly(r) \/ MarkTriggered(r)
    \/ RemediateBreaksOff(r)

Responder(r) == RemediateCommand(r) \/ (\E d \in Decisions : Click(r, d))

Next == \/ Execution \/ Notifier \/ Transition
        \/ \E r \in Responders : BotStep(r) \/ Responder(r)

Spec == Init /\ [][Next]_vars

(* Step Functions goes on, or a timeout ends the wait; a Lambda that was    *)
(* invoked ends.  No responder has to do anything.                          *)
Fairness == WF_vars(Execution) /\ WF_vars(Notifier) /\ \A r \in Responders : WF_vars(BotStep(r))
FairSpec == Spec /\ Fairness

-----------------------------------------------------------------------------
(* The decision the execution acts on; a severity of P3 is one.            *)
Verdict == IF decision # None THEN decision
           ELSE IF severity = "P3" THEN "auto" ELSE "none"

Gate == INSTANCE ApprovalGate WITH verdict <- Verdict, acted <- runs

(* The execution implements ApprovalGate: whatever clicks, commands,        *)
(* timeouts, retries and late notifiers race for it, an incident is decided *)
(* once, and the pipeline starts its remediation agent on a P3 or on an     *)
(* approval only (CheckSeverity, WaitForApproval, CheckApproval).           *)
ImplementsApprovalGate == Gate!Spec

(* A button's decision reaches the execution after its audit entry is       *)
(* written (_process_approval).  An approval without one is an order of     *)
(* /atdr remediate, which audits nothing.                                   *)
AuditedDecision ==
    decision # None => decision \in audit \/ (decision = "approved" /\ ordered)

(* Why the gate holds, however answers, timeouts and late handlers          *)
(* interleave: the token is open in WaitForApproval only, nothing is        *)
(* decided twice, and the remediation agent's task has a verdict behind it  *)
(* (the inductive invariant of AgentPipelineProofs).                        *)
Undecided == {"SummaryAgent", "TriageAgent", "CheckSeverity", "SolutionAgent",
              "SolutionAgentWithApproval", "WaitForApproval"}
GateInv ==
    /\ token = "open" <=> state = "WaitForApproval"
    /\ state \in Undecided => decision = None
    /\ state \in {"SummaryAgent", "TriageAgent"} => severity = "none"
    /\ state = "SolutionAgent" => severity = "P3"
    /\ state \in {"SolutionAgentWithApproval", "WaitForApproval"} => severity # "P3"
    /\ state = "RemediationAgent" => Verdict \in {"auto", "approved"}

(* The record's status, overwritten by tasks and by the bot with no look at *)
(* what it was, still tells something: what it names has happened.          *)
StatusTrue ==
    /\ record.status = "remediated" => runs
    /\ record.status = "remediation_approved" => decision = "approved" /\ ordered
    /\ record.status = "remediation_triggered" => direct > 0
    /\ record.token => token # "none"

(* No detection goes unreported as long as the degraded notifier does its   *)
(* work: every way an execution can end without a message in Slack leads    *)
(* through that notifier's failure.                                         *)
UnreportedOnlyByNotifier ==
    [][state' \in Ended /\ ~reported' => state = "DegradedNotify" \/ state \in Ended]_vars

(* Every execution ends, answered, timed out or failed (the Retry counts    *)
(* and TimeoutSeconds of the state machine).                                *)
ExecutionEnds == <>(state \in Ended)

-----------------------------------------------------------------------------
(* commands.py:286: the remediation agent is invoked directly because the   *)
(* task token has expired, so neither while an approval is pending nor      *)
(* after one was given.                                                     *)
DirectOnlyWhenExpired == [][direct' > direct => token # "open" /\ decision # "approved"]_vars
=============================================================================
