------------------------- MODULE AgentPipelineProofs -------------------------
(***************************************************************************)
(* The consent gate of the pipeline, for any number of responders and      *)
(* requests and with or without a table for the notifier.  The invariant   *)
(* is GateInv: the token is open in WaitForApproval only, so a decision is *)
(* made once, and RemediationAgent is entered with one in favour.          *)
(*                                                                         *)
(* Then what its agents make of an answer (AgentAnswers), for answers of   *)
(* any length and objects of any depth: the invariant is AnswerTypes, that *)
(* an answer is a text of tokens, and what is proved of the parsers is     *)
(* proved of every such text.                                              *)
(***************************************************************************)
EXTENDS AgentPipeline, AgentAnswers, SequenceTheorems, FiniteSetTheorems, TLAPS

(* The retry counts. *)
LEMMA Attempts == \A s \in Agents : MaxAttempts[s] \in 0..3
  BY DEF MaxAttempts, Agents

-----------------------------------------------------------------------------
(* Types *)

(* Every state there is. *)
LEMMA Listed ==
    /\ "SummaryAgent" \in States /\ "TriageAgent" \in States
    /\ "CheckSeverity" \in States /\ "SolutionAgent" \in States
    /\ "SolutionAgentWithApproval" \in States /\ "WaitForApproval" \in States
    /\ "CheckApproval" \in States /\ "RemediationAgent" \in States
    /\ "ForensicSynthesisAgent" \in States /\ "LogOnly" \in States
    /\ "RejectedEnd" \in States /\ "Succeeded" \in States /\ "Failed" \in States
    /\ "ApprovalTimeout" \in States /\ "DegradedNotify" \in States
  BY DEF States, Agents, Ended

(* A new state begins with its first attempt. *)
LEMMA GoesTo ==
    ASSUME NEW s \in States, GoTo(s)
    PROVE  state' \in States /\ attempt' \in 0..3 /\ begun' \in BOOLEAN
<1>1. state' \in States /\ attempt' \in 0..3
    BY DEF GoTo
<1>2. begun' \in BOOLEAN
    BY Zenon DEF GoTo
<1> QED BY <1>1, <1>2

Item == [status : Statuses \cup {None}, token : BOOLEAN, synthesis : BOOLEAN]
Where == /\ state' \in States /\ attempt' \in 0..3 /\ begun' \in BOOLEAN

LEMMA TypeExecution ==
    ASSUME TypeOK, Execution
    PROVE  TypeOK'
<1> USE DEF TypeOK, sfnVars, slackVars, botVars
<1>1. Written \in Item
    BY DEF Written, Statuses, Item
<1>2. ASSUME NEW s \in States, GoTo(s) PROVE Where
    BY ONLY <1>2, GoesTo DEF Where
<1>3. CASE SummaryAgent
    BY <1>1, <1>2, <1>3, Listed DEF SummaryAgent, Item, Where
<1>4. CASE TriageAgent
    BY <1>1, <1>4 DEF TriageAgent, Item
<1>5. CASE NotifySlack
    BY <1>2, <1>5, Listed DEF NotifySlack, Where
<1>6. CASE CheckSeverity
  <2>1. Where
      BY <1>2, <1>6, Listed DEF CheckSeverity, Severities
  <2> QED BY <1>6, <2>1 DEF CheckSeverity, Where
<1>7. CASE SolutionAgent
  <2>1. Where
      BY <1>2, <1>7, Listed DEF SolutionAgent
  <2> QED BY <1>7, <2>1 DEF SolutionAgent, Where
<1>8. CASE AgentFails
  <2>1. record' \in Item /\ reported' \in BOOLEAN
      BY <1>1, <1>8 DEF AgentFails, DoneInVain, Item
  <2>2. CASE Retry
    <3>1. state' \in States /\ attempt' \in 0..3
        BY <1>8, <2>2, Attempts DEF AgentFails, Retry
    <3>2. begun' \in BOOLEAN
        BY <2>2, Zenon DEF Retry
    <3> QED BY <1>8, <2>1, <3>1, <3>2 DEF AgentFails, DoneInVain, Item
  <2>3. CASE Catch
    <3>1. Where
        BY <1>2, <2>3, Listed DEF Catch
    <3> QED BY <1>8, <2>1, <3>1 DEF AgentFails, DoneInVain, Item, Where
  <2> QED BY <1>8, <2>2, <2>3 DEF AgentFails
<1>9. CASE ApprovalTimesOut
    BY <1>2, <1>9, Listed DEF ApprovalTimesOut, Where
<1>10. CASE CheckApproval
  <2>1. Where
      BY <1>2, <1>10, Listed DEF CheckApproval
  <2> QED BY <1>10, <2>1 DEF CheckApproval, Where
<1>11. CASE BeginRemediation
    BY <1>11 DEF BeginRemediation
<1>12. CASE RemediationAgent
    BY <1>1, <1>2, <1>12, Listed DEF RemediationAgent, Item, Where
<1>13. CASE ForensicSynthesisAgent
    BY <1>1, <1>2, <1>13, Listed DEF ForensicSynthesisAgent, Item, Where
<1>14. CASE DegradedNotify
  <2>1. Where
      BY <1>2, <1>14, Listed DEF DegradedNotify
  <2>2. reported' \in BOOLEAN
      BY <1>14 DEF DegradedNotify
  <2> QED BY <1>14, <2>1, <2>2 DEF DegradedNotify, Where
<1> QED
    BY <1>3, <1>4, <1>5, <1>6, <1>7, <1>8, <1>9, <1>10, <1>11, <1>12, <1>13, <1>14
    DEF Execution

LEMMA TypeNotifier ==
    ASSUME TypeOK, Notifier
    PROVE  TypeOK'
<1> USE DEF TypeOK, sfnVars, slackVars, botVars
<1>1. CASE StoreTaskToken
    BY <1>1 DEF StoreTaskToken, Statuses
<1>2. CASE SendApprovalRequest
    BY <1>2 DEF SendApprovalRequest
<1>3. CASE ApprovalNotifierFails
  <2>1. buttons' \in BOOLEAN
      BY <1>3 DEF ApprovalNotifierFails
  <2>2. Where /\ token' \in {"none", "open", "closed"}
      BY <1>3, GoesTo, Listed DEF ApprovalNotifierFails, Where
  <2> QED BY <1>3, <2>1, <2>2 DEF ApprovalNotifierFails, Where
<1> QED BY <1>1, <1>2, <1>3 DEF Notifier

LEMMA TypeTransition ==
    ASSUME TypeOK, Transition
    PROVE  TypeOK'
  BY DEF Transition, TypeOK, SetStatus, Statuses, sfnVars, slackVars, botVars

(* A responder's handler takes one step. *)
LEMMA HandMoves ==
    ASSUME TypeOK, NEW r \in Responders,
           NEW step \in {"idle", "post", "audit", "send", "order", "mark", "invoke", "trigger"},
           NEW d \in Decisions
    PROVE  /\ [hand EXCEPT ![r].step = step] \in [Responders -> Handler]
           /\ [hand EXCEPT ![r] = [step |-> step, decision |-> d]] \in [Responders -> Handler]
           /\ [hand EXCEPT ![r] = Idle] \in [Responders -> Handler]
           /\ hand[r].decision \in Decisions
<1>1. hand \in [Responders -> Handler] /\ hand[r] \in Handler
    BY DEF TypeOK
<1>2. [hand[r] EXCEPT !.step = step] \in Handler
    BY <1>1 DEF Handler
<1>3. Idle \in Handler /\ [step |-> step, decision |-> d] \in Handler
    BY DEF Idle, Handler, Decisions
<1>4. [hand EXCEPT ![r].step = step] = [hand EXCEPT ![r] = [hand[r] EXCEPT !.step = step]]
    BY <1>1
<1> QED BY <1>1, <1>2, <1>3, <1>4 DEF Handler

LEMMA TypeBot ==
    ASSUME TypeOK, NEW r \in Responders, BotStep(r) \/ Responder(r)
    PROVE  TypeOK'
<1>1. ASSUME NEW step \in {"idle", "post", "audit", "send", "order", "mark", "invoke", "trigger"},
             Moves(r, step)
      PROVE  hand' \in [Responders -> Handler]
    BY <1>1, HandMoves DEF Moves, Decisions
<1>2. ASSUME hand' = [hand EXCEPT ![r] = Idle] PROVE hand' \in [Responders -> Handler]
    BY <1>2, HandMoves DEF Decisions
<1>3. hand[r].decision \in Decisions
    BY HandMoves DEF Decisions
<1> USE PipelineAssumption DEF TypeOK, sfnVars, slackVars, botVars
<1>4. CASE PostResponseUrl(r)
  <2>1. buttons' \in BOOLEAN /\ shown' \in Decisions \cup {None}
      BY <1>3, <1>4 DEF PostResponseUrl
  <2> QED BY <1>1, <1>4, <2>1 DEF PostResponseUrl
<1>5. CASE AuditDecision(r)
    BY <1>1, <1>3, <1>5 DEF AuditDecision
<1>6. CASE SendDecision(r)
  <2>1. Where
      BY <1>6, GoesTo, Listed DEF SendDecision, SendTaskSuccess, Where
  <2> QED BY <1>2, <1>3, <1>6, <2>1 DEF SendDecision, SendTaskSuccess, Where
<1>7. CASE ApprovalBreaksOff(r)
    BY <1>2, <1>7 DEF ApprovalBreaksOff
<1>8. CASE SendOrder(r)
  <2>1. Where /\ ordered' \in BOOLEAN
      BY <1>8, GoesTo, Listed DEF SendOrder, SendTaskSuccess, Where
  <2>2. hand' \in [Responders -> Handler]
      BY <1>1, <1>8 DEF SendOrder
  <2> QED BY <1>8, <2>1, <2>2 DEF SendOrder, SendTaskSuccess, Where, Decisions
<1>9. CASE MarkApproved(r)
    BY <1>1, <1>2, <1>9 DEF MarkApproved, SetStatus, Statuses
<1>10. CASE InvokeRemediationDirectly(r)
    BY <1>1, <1>10 DEF InvokeRemediationDirectly
<1>11. CASE MarkTriggered(r)
    BY <1>2, <1>11 DEF MarkTriggered, SetStatus, Statuses
<1>12. CASE RemediateBreaksOff(r)
    BY <1>2, <1>12 DEF RemediateBreaksOff
<1>13. CASE RemediateCommand(r)
  <2>1. hand' \in [Responders -> Handler]
      BY <1>13, HandMoves DEF RemediateCommand, Decisions
  <2> QED BY <1>13, <2>1 DEF RemediateCommand
<1>14. ASSUME NEW d \in Decisions, Click(r, d) PROVE TypeOK'
  <2>1. hand' \in [Responders -> Handler]
      BY <1>14, HandMoves DEF Click
  <2> QED BY <1>14, <2>1 DEF Click
<1> QED
    BY <1>4, <1>5, <1>6, <1>7, <1>8, <1>9, <1>10, <1>11, <1>12, <1>13, <1>14
    DEF BotStep, Responder

(* The execution, the record and the handlers keep their types. *)
LEMMA TypeStep == TypeOK /\ [Next]_vars => TypeOK'
<1> SUFFICES ASSUME TypeOK, [Next]_vars PROVE TypeOK'
    OBVIOUS
<1>1. ASSUME UNCHANGED vars PROVE TypeOK'
    BY <1>1 DEF TypeOK, vars, sfnVars, slackVars, botVars
<1> QED BY <1>1, TypeExecution, TypeNotifier, TypeTransition, TypeBot DEF Next

(* Every variable keeps its type (TypeOK). *)
THEOREM PipelineTypes == Spec => []TypeOK
<1>1. Init => TypeOK
  <2> SUFFICES ASSUME Init PROVE TypeOK
      OBVIOUS
  <2>1. record \in Item /\ hand \in [Responders -> Handler] /\ requests \in 0..MaxRequests
      BY PipelineAssumption DEF Init, Item, Idle, Handler, Decisions
  <2>2. /\ begun \in BOOLEAN /\ named \in BOOLEAN /\ buttons \in BOOLEAN
        /\ ordered \in BOOLEAN /\ reported \in BOOLEAN /\ runs \in BOOLEAN
      BY Zenon DEF Init
  <2>3. state \in States /\ attempt \in 0..3 /\ severity \in Severities
      BY Listed DEF Init, Severities
  <2> QED BY <2>1, <2>2, <2>3 DEF Init, TypeOK, Item
<1>2. TypeOK /\ [Next]_vars => TypeOK'
    BY TypeStep
<1> QED BY <1>1, <1>2, PTL DEF Spec

-----------------------------------------------------------------------------
(* The gate *)

(* What the handlers of the bot and the notifier do to the execution: they  *)
(* answer the token, or close it, in WaitForApproval, or leave it alone.    *)
Untouched == UNCHANGED <<state, severity, token, decision>>

LEMMA BotTouches ==
    ASSUME NEW r \in Responders, BotStep(r) \/ Responder(r)
    PROVE  Untouched \/ (\E d \in {"approved", hand[r].decision} :
                            SendTaskSuccess(d) /\ UNCHANGED severity)
<1> USE DEF Untouched, sfnVars
<1>1. CASE PostResponseUrl(r) \/ AuditDecision(r) \/ ApprovalBreaksOff(r) \/ RemediateBreaksOff(r)
    BY <1>1 DEF PostResponseUrl, AuditDecision, ApprovalBreaksOff, RemediateBreaksOff
<1>2. CASE SendDecision(r)
    BY <1>2 DEF SendDecision
<1>3. CASE SendOrder(r)
    BY <1>3 DEF SendOrder
<1>4. CASE MarkApproved(r) \/ InvokeRemediationDirectly(r) \/ MarkTriggered(r)
    BY <1>4 DEF MarkApproved, InvokeRemediationDirectly, MarkTriggered
<1>5. CASE RemediateCommand(r) \/ (\E d \in Decisions : Click(r, d))
    BY <1>5 DEF RemediateCommand, Click
<1> QED BY <1>1, <1>2, <1>3, <1>4, <1>5 DEF BotStep, Responder

LEMMA GateAnswered ==
    ASSUME TypeOK, GateInv, NEW d \in Decisions, SendTaskSuccess(d), UNCHANGED severity
    PROVE  GateInv'
  BY DEF GateInv, SendTaskSuccess, GoTo, Undecided

LEMMA GateExecution ==
    ASSUME TypeOK, GateInv, Execution
    PROVE  GateInv'
<1> USE DEF GateInv, GoTo, Undecided, Verdict
<1>1. CASE SummaryAgent
    BY <1>1 DEF SummaryAgent
<1>2. CASE TriageAgent
    BY <1>2 DEF TriageAgent
<1>3. CASE NotifySlack
    BY <1>3 DEF NotifySlack
<1>4. CASE CheckSeverity
    BY <1>4 DEF CheckSeverity, TypeOK, Severities
<1>5. CASE SolutionAgent
    BY <1>5 DEF SolutionAgent
<1>6. CASE AgentFails
    BY <1>6 DEF AgentFails, DoneInVain, Retry, Catch, Agents
<1>7. CASE ApprovalTimesOut
    BY <1>7 DEF ApprovalTimesOut
<1>8. CASE CheckApproval
  <2>1. decision = "approved" => decision # None
      BY PipelineNoneAssumption DEF Decisions
  <2> QED BY <1>8, <2>1 DEF CheckApproval
<1>9. CASE BeginRemediation
    BY <1>9 DEF BeginRemediation
<1>10. CASE RemediationAgent
    BY <1>10 DEF RemediationAgent
<1>11. CASE ForensicSynthesisAgent
    BY <1>11 DEF ForensicSynthesisAgent
<1>12. CASE DegradedNotify
    BY <1>12 DEF DegradedNotify
<1> QED
    BY <1>1, <1>2, <1>3, <1>4, <1>5, <1>6, <1>7, <1>8, <1>9, <1>10, <1>11, <1>12 DEF Execution

LEMMA GateStep == TypeOK /\ GateInv /\ [Next]_vars => GateInv'
<1> SUFFICES ASSUME TypeOK, GateInv, [Next]_vars PROVE GateInv'
    OBVIOUS
<1>1. ASSUME Untouched PROVE GateInv'
    BY <1>1 DEF Untouched, GateInv, Verdict
<1>2. CASE Execution
    BY <1>2, GateExecution
<1>3. CASE Notifier
  <2>1. CASE StoreTaskToken \/ SendApprovalRequest
      BY <1>1, <2>1 DEF StoreTaskToken, SendApprovalRequest, Untouched, sfnVars
  <2>2. CASE ApprovalNotifierFails
    <3>1. CASE state = "WaitForApproval"
        BY <2>2, <3>1 DEF ApprovalNotifierFails, GateInv, GoTo, Undecided
    <3>2. CASE state # "WaitForApproval"
        BY <1>1, <2>2, <3>2 DEF ApprovalNotifierFails, Untouched
    <3> QED BY <3>1, <3>2
  <2> QED BY <1>3, <2>1, <2>2 DEF Notifier
<1>4. CASE Transition
    BY <1>1, <1>4 DEF Transition, Untouched, sfnVars
<1>5. ASSUME NEW r \in Responders, BotStep(r) \/ Responder(r) PROVE GateInv'
  <2>1. "approved" \in Decisions /\ hand[r].decision \in Decisions
      BY DEF TypeOK, Handler, Decisions
  <2> QED BY <1>1, <1>5, <2>1, BotTouches, GateAnswered
<1>6. CASE UNCHANGED vars
    BY <1>1, <1>6 DEF vars, sfnVars, Untouched
<1> QED BY <1>2, <1>3, <1>4, <1>5, <1>6 DEF Next

(* The token is open in WaitForApproval only, nothing is decided twice, and *)
(* the remediation agent's task has a verdict in favour behind it           *)
(* (GateInv), for any responders and requests.                              *)
THEOREM TheGateHolds == Spec => []GateInv
<1>1. Init => GateInv
    BY DEF Init, GateInv, Undecided
<1>2. TypeOK /\ GateInv /\ [Next]_vars => GateInv'
    BY GateStep
<1> QED BY <1>1, <1>2, PipelineTypes, PTL DEF Spec

-----------------------------------------------------------------------------
(* The abstract gate *)

LEMMA GateRefined ==
    ASSUME TypeOK, GateInv, [Next]_vars
    PROVE  [Gate!Next]_<<Verdict, runs>>
<1> DEFINE Still == UNCHANGED <<Verdict, runs>>
<1>1. ASSUME Untouched, UNCHANGED runs PROVE Still
    BY <1>1 DEF Untouched, Verdict
<1>2. ASSUME NEW d \in Decisions, SendTaskSuccess(d), UNCHANGED <<severity, runs>>
      PROVE  Gate!Next
  <2>1. Verdict = "none" /\ d # None
      BY <1>2, PipelineNoneAssumption
      DEF SendTaskSuccess, GateInv, Undecided, Verdict, Decisions
  <2>2. Verdict' = d
      BY <1>2, <2>1 DEF SendTaskSuccess, Verdict
  <2> QED BY <1>2, <2>1, <2>2 DEF Gate!Next, Gate!Decide, Decisions
<1>3. CASE NotifySlack
  <2>1. Verdict = "none" /\ Verdict' \in {"none", "auto"}
      BY <1>3 DEF NotifySlack, GateInv, Undecided, Verdict
  <2> QED BY <1>3, <2>1 DEF NotifySlack, Gate!Next, Gate!Decide
<1>4. CASE BeginRemediation
  <2>1. Verdict \in {"auto", "approved"} /\ UNCHANGED Verdict
      BY <1>4 DEF BeginRemediation, GateInv, Verdict
  <2> QED BY <1>4, <2>1 DEF BeginRemediation, Gate!Next, Gate!Act
<1>5. CASE Execution /\ ~NotifySlack /\ ~BeginRemediation
  <2>1. UNCHANGED <<severity, decision, runs>>
      BY <1>5 DEF Execution, SummaryAgent, TriageAgent, CheckSeverity, SolutionAgent, AgentFails,
                  DoneInVain, ApprovalTimesOut, CheckApproval, RemediationAgent,
                  ForensicSynthesisAgent, DegradedNotify
  <2> QED BY <2>1 DEF Verdict
<1>6. CASE Notifier
  <2>1. UNCHANGED <<severity, decision, runs>>
      BY <1>6 DEF Notifier, StoreTaskToken, SendApprovalRequest, ApprovalNotifierFails, sfnVars
  <2> QED BY <2>1 DEF Verdict
<1>7. CASE Transition
    BY <1>1, <1>7 DEF Transition, Untouched, sfnVars
<1>8. ASSUME NEW r \in Responders, BotStep(r) \/ Responder(r)
      PROVE  [Gate!Next]_<<Verdict, runs>>
  <2>1. "approved" \in Decisions /\ hand[r].decision \in Decisions
      BY DEF TypeOK, Handler, Decisions
  <2>2. UNCHANGED runs
      BY <1>8 DEF BotStep, Responder, PostResponseUrl, AuditDecision, SendDecision,
                  ApprovalBreaksOff, SendOrder, MarkApproved, InvokeRemediationDirectly,
                  MarkTriggered, RemediateBreaksOff, RemediateCommand, Click
  <2> QED BY <1>1, <1>2, <1>8, <2>1, <2>2, BotTouches
<1>9. CASE UNCHANGED vars
    BY <1>1, <1>9 DEF vars, sfnVars, Untouched
<1> QED BY <1>3, <1>4, <1>5, <1>6, <1>7, <1>8, <1>9 DEF Next

(* The execution, with its responders, its timeout and its notifier,        *)
(* implements ApprovalGate (ImplementsApprovalGate): an incident is decided *)
(* once, and its remediation starts on a decision in favour only.           *)
THEOREM RefinesApprovalGate == Spec => ImplementsApprovalGate
<1>1. Init => Gate!Init
    BY DEF Init, Gate!Init, Verdict
<1>2. TypeOK /\ GateInv /\ [Next]_vars => [Gate!Next]_<<Verdict, runs>>
    BY GateRefined
<1> QED BY <1>1, <1>2, PipelineTypes, TheGateHolds, PTL
    DEF Spec, ImplementsApprovalGate, Gate!Spec

-----------------------------------------------------------------------------
(* Decisions and their audit *)

(* A handler that is about to answer the token has written its entry.      *)
AuditInv == /\ AuditedDecision
            /\ \A r \in Responders : hand[r].step = "send" => hand[r].decision \in audit

LEMMA AuditStep == TypeOK /\ AuditInv /\ [Next]_vars => AuditInv'
<1> SUFFICES ASSUME TypeOK, AuditInv, [Next]_vars PROVE AuditInv'
    OBVIOUS
<1>1. hand \in [Responders -> Handler] /\ \A r \in Responders : hand[r] \in Handler
    BY DEF TypeOK
<1>2. ASSUME UNCHANGED <<decision, hand, audit, ordered>> PROVE AuditInv'
    BY <1>2 DEF AuditInv, AuditedDecision
<1>3. CASE Execution
    BY <1>2, <1>3 DEF Execution, SummaryAgent, TriageAgent, NotifySlack, CheckSeverity,
          SolutionAgent, AgentFails, DoneInVain, ApprovalTimesOut, CheckApproval, BeginRemediation,
          RemediationAgent, ForensicSynthesisAgent, DegradedNotify, botVars
<1>4. CASE Notifier \/ Transition
    BY <1>2, <1>4 DEF Notifier, StoreTaskToken, SendApprovalRequest, ApprovalNotifierFails,
          Transition, sfnVars, botVars
<1>5. ASSUME NEW r \in Responders, UNCHANGED <<decision, audit, ordered>>,
             NEW step \in {"idle", "audit", "mark", "invoke", "trigger"}, Moves(r, step)
      PROVE  AuditInv'
    BY <1>1, <1>5 DEF AuditInv, AuditedDecision, Moves, Handler
<1>6. ASSUME NEW r \in Responders, UNCHANGED <<decision, audit, ordered>>,
             NEW h \in Handler, h.step # "send", hand' = [hand EXCEPT ![r] = h]
      PROVE  AuditInv'
    BY <1>1, <1>6 DEF AuditInv, AuditedDecision
<1>7. Idle \in Handler /\ Idle.step # "send"
    BY DEF Idle, Handler, Decisions
<1>8. ASSUME NEW r \in Responders, BotStep(r) PROVE AuditInv'
  <2> USE DEF sfnVars
  <2>1. CASE PostResponseUrl(r)
      BY <1>5, <2>1 DEF PostResponseUrl
  <2>2. CASE AuditDecision(r)
      BY <1>1, <2>2 DEF AuditDecision, Moves, AuditInv, AuditedDecision, Handler
  <2>3. CASE SendDecision(r)
      BY <1>1, <1>7, <2>3 DEF SendDecision, SendTaskSuccess, AuditInv, AuditedDecision
  <2>4. CASE SendOrder(r)
    <3>1. CASE UNCHANGED <<decision, ordered>>
      <4>1. Moves(r, "mark") \/ Moves(r, "invoke")
          BY <2>4 DEF SendOrder
      <4> QED BY <1>5, <2>4, <3>1, <4>1 DEF SendOrder
    <3>2. CASE SendTaskSuccess("approved") /\ ordered' = TRUE
      <4>1. Moves(r, "mark") \/ Moves(r, "invoke")
          BY <2>4 DEF SendOrder
      <4>2. \A q \in Responders : hand'[q].step = "send" => hand'[q] = hand[q]
          BY <1>1, <4>1 DEF Moves, Handler
      <4> QED BY <2>4, <3>2, <4>2 DEF SendOrder, SendTaskSuccess, AuditInv, AuditedDecision
    <3> QED BY <2>4, <3>1, <3>2 DEF SendOrder
  <2>5. CASE MarkApproved(r)
      BY <1>5, <1>6, <1>7, <2>5 DEF MarkApproved
  <2>6. CASE InvokeRemediationDirectly(r)
      BY <1>5, <2>6 DEF InvokeRemediationDirectly
  <2>7. CASE ApprovalBreaksOff(r) \/ RemediateBreaksOff(r) \/ MarkTriggered(r)
      BY <1>6, <1>7, <2>7 DEF ApprovalBreaksOff, RemediateBreaksOff, MarkTriggered
  <2> QED BY <1>8, <2>1, <2>2, <2>3, <2>4, <2>5, <2>6, <2>7 DEF BotStep
<1>9. ASSUME NEW r \in Responders, Responder(r) PROVE AuditInv'
  <2>1. PICK d \in Decisions, step \in {"post", "order", "invoke"} :
             /\ hand' = [hand EXCEPT ![r] = [step |-> step, decision |-> d]]
             /\ UNCHANGED <<decision, audit, ordered>>
      BY <1>9 DEF Responder, RemediateCommand, Click, sfnVars, Decisions
  <2>2. [step |-> step, decision |-> d] \in Handler
      BY DEF Handler
  <2> QED BY <1>6, <2>1, <2>2
<1>10. CASE UNCHANGED vars
    BY <1>2, <1>10 DEF vars, sfnVars, botVars
<1> QED BY <1>3, <1>4, <1>8, <1>9, <1>10 DEF Next

(* A decision that reached the execution through a button has its audit     *)
(* entry (AuditedDecision), whichever handlers race and break off.          *)
THEOREM DecisionsAudited == Spec => []AuditedDecision
<1>1. Init => AuditInv
    BY DEF Init, AuditInv, AuditedDecision, Idle
<1>2. TypeOK /\ AuditInv /\ [Next]_vars => AuditInv'
    BY AuditStep
<1>3. AuditInv => AuditedDecision
    BY DEF AuditInv
<1> QED BY <1>1, <1>2, <1>3, PipelineTypes, PTL DEF Spec

-----------------------------------------------------------------------------
(* What the record says *)

(* Whoever is about to write a status has seen to what it names.           *)
StatusInv ==
    /\ StatusTrue
    /\ state = "RemediationAgent" /\ begun => runs
    /\ notifier # "idle" => token # "none"
    /\ \A r \in Responders :
         /\ hand[r].step = "mark" => decision = "approved" /\ ordered
         /\ hand[r].step = "trigger" => direct > 0

LEMMA StatusExecution ==
    ASSUME TypeOK, StatusInv, Execution
    PROVE  StatusInv'
<1> USE DEF StatusInv, StatusTrue, botVars, GoTo
<1>1. CASE SummaryAgent
    BY <1>1 DEF SummaryAgent, Written
<1>2. CASE TriageAgent
    BY <1>2 DEF TriageAgent, Written, TypeOK
<1>3. CASE NotifySlack
    BY <1>3 DEF NotifySlack
<1>4. CASE CheckSeverity
    BY <1>4 DEF CheckSeverity
<1>5. CASE SolutionAgent
    BY <1>5 DEF SolutionAgent
<1>6. CASE AgentFails
  <2>1. /\ ~begun' /\ UNCHANGED <<token, decision, notifier, botVars, runs>>
      BY <1>6 DEF AgentFails, DoneInVain, Retry, Catch
  <2>2. record' \in {record, Written}
      BY <1>6 DEF AgentFails, DoneInVain
  <2> QED BY <2>1, <2>2 DEF Written, TypeOK
<1>7. CASE ApprovalTimesOut \/ CheckApproval
    BY <1>7 DEF ApprovalTimesOut, CheckApproval
<1>8. CASE BeginRemediation
    BY <1>8 DEF BeginRemediation
<1>9. CASE RemediationAgent \/ ForensicSynthesisAgent
    BY <1>9 DEF RemediationAgent, ForensicSynthesisAgent, Written, TypeOK
<1>10. CASE DegradedNotify
    BY <1>10 DEF DegradedNotify
<1> QED BY <1>1, <1>2, <1>3, <1>4, <1>5, <1>6, <1>7, <1>8, <1>9, <1>10 DEF Execution

LEMMA StatusBot ==
    ASSUME TypeOK, GateInv, StatusInv, NEW r \in Responders, BotStep(r) \/ Responder(r)
    PROVE  StatusInv'
<1>1. hand \in [Responders -> Handler] /\ hand[r] \in Handler /\ direct \in Nat
    BY DEF TypeOK
<1>2. direct' \in {direct, direct + 1}
    BY DEF BotStep, Responder, PostResponseUrl, AuditDecision, SendDecision, ApprovalBreaksOff,
           SendOrder, MarkApproved, InvokeRemediationDirectly, MarkTriggered, RemediateBreaksOff,
           RemediateCommand, Click
<1>3. UNCHANGED <<notifier, runs>>
    BY DEF BotStep, Responder, PostResponseUrl, AuditDecision, SendDecision, ApprovalBreaksOff,
           SendOrder, MarkApproved, InvokeRemediationDirectly, MarkTriggered, RemediateBreaksOff,
           RemediateCommand, Click
<1>4. \/ UNCHANGED <<state, begun, token, decision>>
      \/ /\ decision = None /\ token = "open"
         /\ token' = "closed" /\ state' = "CheckApproval"
    BY DEF BotStep, Responder, PostResponseUrl, AuditDecision, SendDecision, ApprovalBreaksOff,
           SendOrder, SendTaskSuccess, GoTo, MarkApproved, InvokeRemediationDirectly,
           MarkTriggered, RemediateBreaksOff, RemediateCommand, Click, sfnVars,
           GateInv, Undecided
<1>5. decision = "approved" /\ ordered => decision' = "approved" /\ ordered'
  <2>1. None # "approved"
      BY PipelineNoneAssumption DEF Decisions
  <2>2. ordered => ordered'
      BY DEF BotStep, Responder, PostResponseUrl, AuditDecision, SendDecision, ApprovalBreaksOff,
             SendOrder, MarkApproved, InvokeRemediationDirectly, MarkTriggered,
             RemediateBreaksOff, RemediateCommand, Click
  <2> QED BY <1>4, <2>1, <2>2
<1>6. ASSUME NEW h \in Handler, hand' = [hand EXCEPT ![r] = h],
             h.step = "mark" => decision' = "approved" /\ ordered',
             h.step = "trigger" => direct' > 0,
             \/ UNCHANGED record
             \/ \E s \in {"remediation_approved", "remediation_triggered"} :
                  /\ SetStatus(s)
                  /\ s = "remediation_approved" => decision' = "approved" /\ ordered'
                  /\ s = "remediation_triggered" => direct' > 0
      PROVE  StatusInv'
  <2>1. ASSUME NEW q \in Responders
        PROVE  /\ hand'[q].step = "mark" => decision' = "approved" /\ ordered'
               /\ hand'[q].step = "trigger" => direct' > 0
      BY <1>1, <1>2, <1>5, <1>6, <2>1 DEF StatusInv
  <2>2. /\ state' = "RemediationAgent" /\ begun' => runs'
        /\ notifier' # "idle" => token' # "none"
      BY <1>3, <1>4 DEF StatusInv
  <2>3. StatusTrue'
      BY <1>1, <1>2, <1>3, <1>4, <1>5, <1>6 DEF StatusInv, StatusTrue, SetStatus, TypeOK
  <2> QED BY <2>1, <2>2, <2>3 DEF StatusInv
<1>7. Idle \in Handler /\ Idle.step = "idle"
    BY DEF Idle, Handler, Decisions
<1>8. ASSUME NEW step \in {"idle", "post", "audit", "send", "order", "mark", "invoke", "trigger"}
      PROVE  LET h == [hand[r] EXCEPT !.step = step]
             IN  h \in Handler /\ h.step = step /\ (Moves(r, step) => hand' = [hand EXCEPT ![r] = h])
    BY <1>1, <1>8 DEF Moves, Handler
<1> USE DEF sfnVars
<1>9. CASE PostResponseUrl(r) \/ AuditDecision(r)
    BY <1>6, <1>8, <1>9 DEF PostResponseUrl, AuditDecision
<1>10. CASE SendDecision(r) \/ ApprovalBreaksOff(r) \/ RemediateBreaksOff(r)
    BY <1>6, <1>7, <1>10 DEF SendDecision, ApprovalBreaksOff, RemediateBreaksOff
<1>11. CASE SendOrder(r)
    BY <1>6, <1>8, <1>11 DEF SendOrder, SendTaskSuccess
<1>12. CASE MarkApproved(r)
  <2>1. decision' = "approved" /\ ordered'
      BY <1>5, <1>12 DEF MarkApproved, StatusInv
  <2>2. CASE hand' = [hand EXCEPT ![r] = Idle]
      BY <1>6, <1>7, <1>12, <2>1, <2>2 DEF MarkApproved
  <2>3. CASE Moves(r, "invoke")
      BY <1>6, <1>8, <1>12, <2>1, <2>3 DEF MarkApproved
  <2> QED BY <1>12, <2>2, <2>3 DEF MarkApproved
<1>13. CASE InvokeRemediationDirectly(r)
  <2> DEFINE h == [hand[r] EXCEPT !.step = "trigger"]
  <2>1. h \in Handler /\ h.step = "trigger" /\ hand' = [hand EXCEPT ![r] = h]
      BY <1>8, <1>13 DEF InvokeRemediationDirectly
  <2>2. direct' > 0 /\ UNCHANGED record
      BY <1>1, <1>13 DEF InvokeRemediationDirectly
  <2> HIDE DEF h
  <2> QED BY <1>6, <2>1, <2>2
<1>14. CASE MarkTriggered(r)
    BY <1>6, <1>7, <1>14 DEF MarkTriggered, StatusInv
<1>15. CASE RemediateCommand(r) \/ (\E d \in Decisions : Click(r, d))
  <2>1. PICK d \in Decisions, step \in {"post", "order", "invoke"} :
             /\ hand' = [hand EXCEPT ![r] = [step |-> step, decision |-> d]]
             /\ UNCHANGED record
      BY <1>15 DEF RemediateCommand, Click, Decisions
  <2>2. [step |-> step, decision |-> d] \in Handler
      BY DEF Handler
  <2> QED BY <1>6, <2>1, <2>2
<1> QED BY <1>9, <1>10, <1>11, <1>12, <1>13, <1>14, <1>15 DEF BotStep, Responder

LEMMA StatusStep == TypeOK /\ GateInv /\ StatusInv /\ [Next]_vars => StatusInv'
<1> SUFFICES ASSUME TypeOK, GateInv, StatusInv, [Next]_vars PROVE StatusInv'
    OBVIOUS
<1>1. CASE Notifier
  <2> USE DEF StatusInv, StatusTrue, sfnVars, botVars
  <2>1. CASE StoreTaskToken
      BY <1>1, <2>1 DEF StoreTaskToken, TypeOK
  <2>2. CASE SendApprovalRequest
      BY <2>2 DEF SendApprovalRequest
  <2>3. CASE ApprovalNotifierFails
      BY <2>3 DEF ApprovalNotifierFails, GoTo
  <2> QED BY <1>1, <2>1, <2>2, <2>3 DEF Notifier
<1>2. CASE Transition
    BY <1>2 DEF Transition, SetStatus, StatusInv, StatusTrue, TypeOK, sfnVars, botVars
<1>3. CASE UNCHANGED vars
    BY <1>3 DEF vars, StatusInv, StatusTrue, sfnVars, botVars
<1> QED BY <1>1, <1>2, <1>3, StatusExecution, StatusBot DEF Next

(* What the record's status names has happened (StatusTrue), although every *)
(* writer of it overwrites whatever the others wrote.                       *)
THEOREM StatusNeverLies == Spec => []StatusTrue
<1>1. Init => StatusInv
    BY PipelineNoneAssumption DEF Init, StatusInv, StatusTrue, Statuses, Idle
<1>2. TypeOK /\ GateInv /\ StatusInv /\ [Next]_vars => StatusInv'
    BY StatusStep
<1>3. StatusInv => StatusTrue
    BY DEF StatusInv
<1> QED BY <1>1, <1>2, <1>3, PipelineTypes, TheGateHolds, PTL DEF Spec

-----------------------------------------------------------------------------
(* Who hears of a detection *)

(* Past the triage agent a message is in Slack, unless the degraded         *)
(* notifier is to send it, or has failed to.                                *)
ReportInv == state \notin {"SummaryAgent", "TriageAgent", "DegradedNotify"} \cup Ended => reported

LEMMA ReportStep ==
    ASSUME TypeOK, GateInv, ReportInv, [Next]_vars
    PROVE  /\ ReportInv'
           /\ state' \in Ended /\ ~reported' => state = "DegradedNotify" \/ state \in Ended
<1> DEFINE Goal == /\ ReportInv'
                   /\ state' \in Ended /\ ~reported' => state = "DegradedNotify" \/ state \in Ended
<1> USE DEF ReportInv, Ended, GoTo
<1>1. ASSUME UNCHANGED state, reported => reported' PROVE Goal
    BY <1>1
<1>2. ASSUME state \notin {"SummaryAgent", "TriageAgent", "DegradedNotify"} \cup Ended,
             reported => reported'
      PROVE  Goal
    BY <1>2
<1>3. CASE Execution
  <2>1. CASE SummaryAgent
      BY <2>1 DEF SummaryAgent
  <2>2. CASE TriageAgent
      BY <2>2 DEF TriageAgent
  <2>3. CASE NotifySlack
      BY <2>3 DEF NotifySlack
  <2>4. CASE CheckSeverity \/ SolutionAgent \/ ApprovalTimesOut \/ CheckApproval
             \/ BeginRemediation \/ RemediationAgent \/ ForensicSynthesisAgent
    <3>1. /\ state \notin {"SummaryAgent", "TriageAgent", "DegradedNotify"} \cup Ended
          /\ reported' = reported
        BY <2>4 DEF CheckSeverity, SolutionAgent, ApprovalTimesOut, CheckApproval, BeginRemediation,
           RemediationAgent, ForensicSynthesisAgent
    <3> QED BY <1>2, <3>1
  <2>5. CASE AgentFails
    <3>1. reported => reported'
        BY <2>5 DEF AgentFails, DoneInVain
    <3>2. state' \in {state, "ForensicSynthesisAgent", "DegradedNotify"}
        BY <2>5 DEF AgentFails, Retry, Catch
    <3>3. state' = "ForensicSynthesisAgent" /\ state # "ForensicSynthesisAgent" => state = "RemediationAgent"
        BY <2>5 DEF AgentFails, Retry, Catch
    <3>4. CASE state' = state
        BY <1>1, <3>1, <3>4
    <3>5. CASE state' # state
        BY <3>1, <3>2, <3>3, <3>5
    <3> QED BY <3>4, <3>5
  <2>6. CASE DegradedNotify
    <3>1. state \in {"DegradedNotify", "ApprovalTimeout"} /\ state' \in {"Succeeded", "Failed"}
        BY <2>6 DEF DegradedNotify
    <3>2. reported' = TRUE \/ reported' = reported
        BY <2>6 DEF DegradedNotify
    <3>3. state = "ApprovalTimeout" => reported
        OBVIOUS
    <3> QED BY <3>1, <3>2, <3>3
  <2> QED BY <1>3, <2>1, <2>2, <2>3, <2>4, <2>5, <2>6 DEF Execution
<1>4. CASE Notifier
  <2>1. reported => reported'
      BY <1>4 DEF Notifier, StoreTaskToken, SendApprovalRequest, ApprovalNotifierFails
  <2>2. UNCHANGED state \/ state = "WaitForApproval"
      BY <1>4 DEF Notifier, StoreTaskToken, SendApprovalRequest, ApprovalNotifierFails, sfnVars
  <2> QED BY <1>1, <1>2, <2>1, <2>2
<1>5. CASE Transition
    BY <1>1, <1>5 DEF Transition, sfnVars
<1>6. ASSUME NEW r \in Responders, BotStep(r) \/ Responder(r) PROVE Goal
  <2>1. reported' = reported
      BY <1>6 DEF BotStep, Responder, PostResponseUrl, AuditDecision, SendDecision,
         ApprovalBreaksOff, SendOrder, MarkApproved, InvokeRemediationDirectly, MarkTriggered,
         RemediateBreaksOff, RemediateCommand, Click
  <2>2. UNCHANGED state \/ state = "WaitForApproval"
      BY <1>6, BotTouches DEF Untouched, SendTaskSuccess, GateInv
  <2> QED BY <1>1, <1>2, <2>1, <2>2
<1>7. CASE UNCHANGED vars
    BY <1>1, <1>7 DEF vars, sfnVars
<1> QED BY <1>3, <1>4, <1>5, <1>6, <1>7 DEF Next

(* However retries, catches, timeouts and late notifiers interleave, an     *)
(* execution ends without a message in Slack only by a failure of the       *)
(* degraded notifier.                                                       *)
THEOREM NobodyLeftUnaware == Spec => UnreportedOnlyByNotifier
<1>1. Init => ReportInv
    BY DEF Init, ReportInv
<1>2. TypeOK /\ GateInv /\ ReportInv /\ [Next]_vars => ReportInv'
    BY ReportStep
<1>3. TypeOK /\ GateInv /\ ReportInv /\ [Next]_vars =>
        [state' \in Ended /\ ~reported' => state = "DegradedNotify" \/ state \in Ended]_vars
    BY ReportStep
<1> QED BY <1>1, <1>2, <1>3, PipelineTypes, TheGateHolds, PTL DEF Spec, UnreportedOnlyByNotifier

-----------------------------------------------------------------------------
(* How far an execution has to go.  That it gets there needs fairness; that *)
(* it does not go in circles is proved here.                                *)

(* A state's place: each state leads to lower ones only.                    *)
Stage(s) ==
    CASE s = "SummaryAgent"           -> 9
      [] s = "TriageAgent"            -> 8
      [] s = "CheckSeverity"          -> 7
      [] s \in {"SolutionAgent", "SolutionAgentWithApproval"} -> 6
      [] s = "WaitForApproval"        -> 5
      [] s = "CheckApproval"          -> 4
      [] s = "RemediationAgent"       -> 3
      [] s = "ForensicSynthesisAgent" -> 2
      [] s \in {"DegradedNotify", "ApprovalTimeout"} -> 1
      [] OTHER                        -> 0

(* The steps an execution can make at most: the places left, and in a task  *)
(* the attempts left and the write to be done.                              *)
StepsLeft == 8 * Stage(state) + 2 * (3 - attempt) + (IF begun THEN 0 ELSE 1)

Position == <<state, attempt, begun>>
(* Each step of the execution brings it nearer to its end, and none of the  *)
(* notifier or of the bot takes it further from it.                         *)
NeverGoesBack ==
    [][/\ UNCHANGED Position \/ StepsLeft' < StepsLeft
       /\ Execution => StepsLeft' < StepsLeft]_vars

LEMMA Stages ==
    /\ Stage("SummaryAgent") = 9 /\ Stage("TriageAgent") = 8 /\ Stage("CheckSeverity") = 7
    /\ Stage("SolutionAgent") = 6 /\ Stage("SolutionAgentWithApproval") = 6
    /\ Stage("WaitForApproval") = 5 /\ Stage("CheckApproval") = 4
    /\ Stage("RemediationAgent") = 3 /\ Stage("ForensicSynthesisAgent") = 2
    /\ Stage("DegradedNotify") = 1 /\ Stage("ApprovalTimeout") = 1
    /\ \A s \in Ended : Stage(s) = 0
    /\ \A s \in States : Stage(s) \in 0..9
<1>1. \A s \in Ended : Stage(s) = 0
    BY DEF Stage, Ended
<1> QED BY <1>1 DEF Stage, States, Agents

LEMMA StepsLeftIs ==
    ASSUME TypeOK
    PROVE  /\ attempt \in 0..3 /\ Stage(state) \in 0..9
           /\ \/ StepsLeft = 8 * Stage(state) + 2 * (3 - attempt)
              \/ StepsLeft = 8 * Stage(state) + 2 * (3 - attempt) + 1
<1>1. attempt \in 0..3 /\ Stage(state) \in 0..9
    BY Stages DEF TypeOK
<1>2. \/ StepsLeft = 8 * Stage(state) + 2 * (3 - attempt)
      \/ StepsLeft = 8 * Stage(state) + 2 * (3 - attempt) + 1
    BY <1>1 DEF StepsLeft
<1> QED BY <1>1, <1>2

(* A task or a choice goes on to a later place.                             *)
LEMMA Onward ==
    ASSUME TypeOK, NEW s \in States, GoTo(s), Stage(s) < Stage(state)
    PROVE  StepsLeft' < StepsLeft
<1>1. Stage(s) \in Int /\ Stage(state) \in Int /\ attempt \in 0..3
    BY Stages DEF TypeOK
<1>2. StepsLeft' = 8 * Stage(s) + 2 * (3 - 0) + 1
  <2>1. state' = s /\ attempt' = 0 /\ ~begun'
      BY Zenon DEF GoTo
  <2>2. Stage(state)' = Stage(s)
      BY ONLY <2>1 DEF Stage
  <2> QED BY ONLY <2>1, <2>2 DEF StepsLeft
<1>3. \/ StepsLeft = 8 * Stage(state) + 2 * (3 - attempt)
      \/ StepsLeft = 8 * Stage(state) + 2 * (3 - attempt) + 1
    BY StepsLeftIs
<1> QED BY ONLY <1>1, <1>2, <1>3, Stage(s) < Stage(state)

(* A retry uses one attempt up.                                             *)
LEMMA RetriedOnce ==
    ASSUME TypeOK, state \in Agents, Retry
    PROVE  StepsLeft' < StepsLeft
<1>1. attempt \in 0..3 /\ Stage(state) \in Int
    BY Stages DEF TypeOK
<1>2. state' = state /\ attempt' = attempt + 1 /\ ~begun'
    BY Zenon DEF Retry
<1>3. Stage(state)' = Stage(state)
    BY ONLY <1>2 DEF Stage
<1>4. StepsLeft' = 8 * Stage(state) + 2 * (3 - (attempt + 1)) + 1
    BY ONLY <1>2, <1>3 DEF StepsLeft
<1>5. \/ StepsLeft = 8 * Stage(state) + 2 * (3 - attempt)
      \/ StepsLeft = 8 * Stage(state) + 2 * (3 - attempt) + 1
    BY StepsLeftIs
<1> QED BY ONLY <1>1, <1>4, <1>5

(* A handler's first write is done once in an attempt.                      *)
LEMMA BegunOnce ==
    ASSUME TypeOK, ~begun, begun' = TRUE, UNCHANGED <<state, attempt>>
    PROVE  StepsLeft' < StepsLeft
<1>1. attempt \in 0..3 /\ Stage(state) \in Int
    BY Stages DEF TypeOK
<1>2. Stage(state)' = Stage(state)
    BY DEF Stage
<1>3. StepsLeft' = 8 * Stage(state) + 2 * (3 - attempt) + 0
    BY <1>2 DEF StepsLeft
<1>4. StepsLeft = 8 * Stage(state) + 2 * (3 - attempt) + 1
    BY DEF StepsLeft
<1> QED BY ONLY <1>1, <1>3, <1>4

LEMMA ExecutionGoesOn ==
    ASSUME TypeOK, GateInv, Execution
    PROVE  StepsLeft' < StepsLeft
<1>0. Stage("LogOnly") = 0 /\ Stage("RejectedEnd") = 0 /\ Stage("Succeeded") = 0
      /\ Stage("Failed") = 0
    BY Stages DEF Ended
<1>1. CASE SummaryAgent
    BY <1>1, Onward, Stages, Listed DEF SummaryAgent
<1>2. CASE TriageAgent
    BY <1>2, BegunOnce DEF TriageAgent
<1>3. CASE NotifySlack
    BY <1>3, Onward, Stages, Listed DEF NotifySlack
<1>4. CASE CheckSeverity
  <2>1. \/ GoTo("LogOnly") \/ GoTo("SolutionAgent") \/ GoTo("SolutionAgentWithApproval")
        \/ GoTo("Failed")
      BY <1>4 DEF CheckSeverity, TypeOK, Severities
  <2> QED BY <1>0, <1>4, <2>1, Onward, Stages, Listed DEF CheckSeverity
<1>5. CASE SolutionAgent
    BY <1>5, Onward, Stages, Listed DEF SolutionAgent
<1>6. CASE AgentFails
  <2>1. CASE Retry
      BY <1>6, <2>1, RetriedOnce DEF AgentFails
  <2>2. CASE Catch
    <3>1. CASE state = "RemediationAgent"
        BY <2>2, <3>1, Onward, Stages, Listed DEF Catch
    <3>2. CASE state # "RemediationAgent"
      <4>1. Stage(state) > 1
          BY <1>6, <3>2, Stages DEF AgentFails, Agents
      <4> QED BY <2>2, <3>2, <4>1, Onward, Stages, Listed DEF Catch
    <3> QED BY <3>1, <3>2
  <2> QED BY <1>6, <2>1, <2>2 DEF AgentFails
<1>7. CASE ApprovalTimesOut
    BY <1>7, Onward, Stages, Listed DEF ApprovalTimesOut
<1>8. CASE CheckApproval
  <2>1. GoTo("RemediationAgent") \/ GoTo("RejectedEnd")
      BY <1>8 DEF CheckApproval
  <2> QED BY <1>0, <1>8, <2>1, Onward, Stages, Listed DEF CheckApproval
<1>9. CASE BeginRemediation
    BY <1>9, BegunOnce DEF BeginRemediation
<1>10. CASE RemediationAgent
    BY <1>10, Onward, Stages, Listed DEF RemediationAgent
<1>11. CASE ForensicSynthesisAgent
    BY <1>0, <1>11, Onward, Stages, Listed DEF ForensicSynthesisAgent
<1>12. CASE DegradedNotify
  <2>1. GoTo("Succeeded") \/ GoTo("Failed")
      BY <1>12 DEF DegradedNotify
  <2>2. Stage(state) = 1
      BY <1>12, Stages DEF DegradedNotify
  <2> QED BY <1>0, <2>1, <2>2, Onward, Listed
<1> QED
    BY <1>1, <1>2, <1>3, <1>4, <1>5, <1>6, <1>7, <1>8, <1>9, <1>10, <1>11, <1>12
    DEF Execution

(* An answer to the token moves the execution from WaitForApproval on.      *)
LEMMA AnswerGoesOn ==
    ASSUME TypeOK, GateInv, NEW d, SendTaskSuccess(d)
    PROVE  StepsLeft' < StepsLeft
<1>1. state = "WaitForApproval" /\ GoTo("CheckApproval")
    BY DEF GateInv, SendTaskSuccess
<1> QED BY <1>1, Onward, Stages, Listed

(* The notifier, the record and the bot.                                    *)
LEMMA OthersDoNot ==
    ASSUME TypeOK, GateInv,
           \/ Notifier \/ Transition
           \/ \E r \in Responders : BotStep(r) \/ Responder(r)
    PROVE  UNCHANGED Position \/ StepsLeft' < StepsLeft
<1>1. CASE Notifier
  <2>1. CASE StoreTaskToken \/ SendApprovalRequest
      BY <2>1 DEF StoreTaskToken, SendApprovalRequest, sfnVars, Position
  <2>2. CASE ApprovalNotifierFails /\ state = "WaitForApproval"
    <3>1. GoTo("Failed") /\ Stage("Failed") = 0
        BY <2>2, Stages DEF ApprovalNotifierFails, Ended
    <3> QED BY <2>2, <3>1, Onward, Stages, Listed
  <2>3. CASE ApprovalNotifierFails /\ state # "WaitForApproval"
      BY <2>3 DEF ApprovalNotifierFails, Position
  <2> QED BY <1>1, <2>1, <2>2, <2>3 DEF Notifier
<1>2. CASE Transition
    BY <1>2 DEF Transition, sfnVars, Position
<1>3. ASSUME NEW r \in Responders, BotStep(r) \/ Responder(r)
      PROVE  UNCHANGED Position \/ StepsLeft' < StepsLeft
  <2>1. CASE SendDecision(r)
      BY <2>1, AnswerGoesOn DEF SendDecision
  <2>2. CASE SendOrder(r)
    <3>1. \/ SendTaskSuccess("approved")
          \/ UNCHANGED <<state, attempt, begun, token, decision, ordered>>
        BY <2>2 DEF SendOrder
    <3> QED BY <3>1, AnswerGoesOn DEF Position
  <2>3. CASE ~SendDecision(r) /\ ~SendOrder(r)
    <3>1. UNCHANGED sfnVars
        BY <1>3, <2>3 DEF BotStep, Responder, PostResponseUrl, AuditDecision, ApprovalBreaksOff,
           MarkApproved, InvokeRemediationDirectly, MarkTriggered, RemediateBreaksOff,
           RemediateCommand, Click
    <3> QED BY <3>1 DEF sfnVars, Position
  <2> QED BY <2>1, <2>2, <2>3
<1> QED BY <1>1, <1>2, <1>3

(* Every step of the execution, a retry or a failure too, brings it nearer  *)
(* to its end, and no click, command, late notifier or change of the record *)
(* brings it back (the Retry counts and the transitions of the state        *)
(* machine): from the start it has at most 79 steps.                        *)
THEOREM ExecutionNeverGoesBack == Spec => NeverGoesBack /\ [](StepsLeft \in 0..79)
<1>1. TypeOK /\ GateInv /\ [Next]_vars =>
        [/\ UNCHANGED Position \/ StepsLeft' < StepsLeft
         /\ Execution => StepsLeft' < StepsLeft]_vars
    BY ExecutionGoesOn, OthersDoNot DEF Next
<1>2. TypeOK => StepsLeft \in 0..79
    BY StepsLeftIs
<1> QED BY <1>1, <1>2, PipelineTypes, TheGateHolds, PTL DEF Spec, NeverGoesBack
-----------------------------------------------------------------------------
(* Answers: objects and lists *)
Tokens == Members \cup {"{", "}", "[", "]", "key", "word", "fence"}

LEMMA NestedAt ==
    ASSUME NEW depth \in Nat \ {0}, NEW m \in Members, NEW n \in 1..(3 * depth)
    PROVE  /\ n < 2 * depth /\ n % 2 = 1 => Nested(depth, m)[n] = "{"
           /\ n < 2 * depth /\ n % 2 = 0 => Nested(depth, m)[n] = "key"
           /\ n = 2 * depth => Nested(depth, m)[n] = m
           /\ n > 2 * depth => Nested(depth, m)[n] = "}"
<1>1. Nested(depth, m)[n] =
        CASE n < 2 * depth /\ n % 2 = 1 -> "{"
          [] n < 2 * depth /\ n % 2 = 0 -> "key"
          [] n = 2 * depth              -> m
          [] n > 2 * depth              -> "}"
  BY DEF Nested
<1> DEFINE A == n < 2 * depth /\ n % 2 = 1
           B == n < 2 * depth /\ n % 2 = 0
           C == n = 2 * depth
           D == n > 2 * depth
<1>2. /\ A => ~B /\ ~C /\ ~D
      /\ B => ~A /\ ~C /\ ~D
      /\ C => ~A /\ ~B /\ ~D
      /\ D => ~A /\ ~B /\ ~C
  OBVIOUS
<1>3. Nested(depth, m)[n] = CASE A -> "{" [] B -> "key" [] C -> m [] D -> "}"
  BY <1>1
<1> HIDE DEF A, B, C, D
<1>4. /\ A => Nested(depth, m)[n] = "{"
      /\ B => Nested(depth, m)[n] = "key"
      /\ C => Nested(depth, m)[n] = m
      /\ D => Nested(depth, m)[n] = "}"
  BY <1>2, <1>3
<1> QED
  BY <1>4 DEF A, B, C, D

LEMMA NestedShape ==
    ASSUME NEW depth \in Nat \ {0}, NEW m \in Members
    PROVE  /\ Nested(depth, m) \in Seq(Members \cup {"{", "key", "}"})
           /\ Len(Nested(depth, m)) = 3 * depth
           /\ Nested(depth, m)[1] = "{"
           /\ Nested(depth, m)[2] = (IF depth = 1 THEN m ELSE "key")
           /\ Nested(depth, m)[3 * depth] = "}"
<1> DEFINE v == Nested(depth, m)
           len == 3 * depth
<1>0. \A n \in 1..len : /\ n < 2 * depth /\ n % 2 = 1 => v[n] = "{"
                        /\ n < 2 * depth /\ n % 2 = 0 => v[n] = "key"
                        /\ n = 2 * depth => v[n] = m
                        /\ n > 2 * depth => v[n] = "}"
  BY NestedAt
<1>1. \A n \in 1..len : v[n] \in Members \cup {"{", "key", "}"}
  <2> SUFFICES ASSUME NEW n \in 1..len PROVE v[n] \in Members \cup {"{", "key", "}"}
    OBVIOUS
  <2>1. n % 2 \in {0, 1} /\ (n < 2 * depth \/ n = 2 * depth \/ n > 2 * depth)
    OBVIOUS
  <2> HIDE DEF v
  <2> QED
    BY <1>0, <2>1
<1>2. len \in Nat /\ v = [n \in 1..len |-> v[n]]
  <2> DEFINE F(n) == CASE n < 2 * depth /\ n % 2 = 1 -> "{"
                       [] n < 2 * depth /\ n % 2 = 0 -> "key"
                       [] n = 2 * depth              -> m
                       [] n > 2 * depth              -> "}"
  <2>1. v = [n \in 1..len |-> F(n)]
    BY Zenon DEF Nested
  <2> HIDE DEF F, v, len
  <2>2. v = [n \in 1..len |-> v[n]]
    BY <2>1
  <2> QED
    BY <2>2 DEF len
<1>3. 1 \in 1..len /\ 2 \in 1..len /\ len \in 1..len /\ 1 < 2 * depth /\ len > 2 * depth
  OBVIOUS
<1>4. 1 % 2 = 1 /\ 2 % 2 = 0
  OBVIOUS
<1> HIDE DEF len, v
<1>5. v[1] = "{" /\ v[len] = "}"
  BY <1>0, <1>3, <1>4
<1>6. v[2] = (IF depth = 1 THEN m ELSE "key")
  <2>1. depth = 1 => 2 = 2 * depth
    OBVIOUS
  <2>2. depth # 1 => 2 < 2 * depth
    OBVIOUS
  <2> QED
    BY <1>0, <1>3, <1>4, <2>1, <2>2
<1>7. v \in [1..len -> Members \cup {"{", "key", "}"}]
  BY <1>1, <1>2
<1>8. v \in Seq(Members \cup {"{", "key", "}"})
  BY <1>2, <1>7, SeqDef
<1>9. Len(v) = len
  <2>1. DOMAIN v = 1..len /\ DOMAIN v = 1..Len(v) /\ Len(v) \in Nat
    BY <1>7, <1>8, LenProperties
  <2> QED
    BY <1>2, <2>1
<1> QED
  BY <1>5, <1>6, <1>8, <1>9 DEF v, len

LEMMA ObjectShape ==
    ASSUME NEW v \in Object
    PROVE  /\ v \in Seq(Tokens) /\ Len(v) \in Nat /\ Len(v) >= 3
           /\ v[1] = "{" /\ v[Len(v)] = "}"
           /\ \A n \in 1..Len(v) : v[n] \in Members \cup {"{", "key", "}"}
<1>1. PICK depth \in 1..MaxDepth, m \in Members : v = Nested(depth, m)
  BY DEF Object
<1>2. depth \in Nat \ {0}
  BY AnswersAssumption
<1>3. v \in Seq(Members \cup {"{", "key", "}"}) /\ Len(v) = 3 * depth
  BY <1>1, <1>2, NestedShape
<1>4. v[1] = "{" /\ v[3 * depth] = "}"
  BY <1>1, <1>2, NestedShape
<1>5. \A n \in 1..Len(v) : v[n] \in Members \cup {"{", "key", "}"}
  BY <1>3, ElementOfSeq
<1>6. v \in Seq(Tokens)
  <2>1. Members \cup {"{", "key", "}"} \subseteq Tokens
    BY DEF Tokens
  <2> QED
    BY <1>3, <2>1, SeqMonotonic
<1>7. 3 * depth \in Nat /\ 3 * depth >= 3
  BY <1>2
<1> QED
  BY <1>3, <1>4, <1>5, <1>6, <1>7

LEMMA Around ==
    ASSUME NEW x \in Tokens, NEW y \in Tokens, NEW w \in Seq(Tokens)
    PROVE  /\ <<x>> \o w \o <<y>> \in Seq(Tokens)
           /\ Len(<<x>> \o w \o <<y>>) = Len(w) + 2
           /\ (<<x>> \o w \o <<y>>)[1] = x /\ (<<x>> \o w \o <<y>>)[Len(w) + 2] = y
           /\ \A n \in 1..Len(w) : (<<x>> \o w \o <<y>>)[n + 1] = w[n]
<1>1. /\ <<x>> \in Seq(Tokens) /\ <<y>> \in Seq(Tokens)
      /\ Len(<<x>>) = 1 /\ Len(<<y>>) = 1 /\ <<x>>[1] = x /\ <<y>>[1] = y
  OBVIOUS
<1>2. Len(w) \in Nat
  BY LenProperties
<1> DEFINE u == <<x>> \o w
<1>3. /\ u \in Seq(Tokens) /\ Len(u) = Len(w) + 1
      /\ \A i \in 1..(Len(w) + 1) : u[i] = IF i <= 1 THEN x ELSE w[i - 1]
  BY <1>1, <1>2, ConcatProperties
<1> HIDE DEF u
<1>4. /\ u \o <<y>> \in Seq(Tokens) /\ Len(u \o <<y>>) = Len(w) + 2
      /\ \A i \in 1..(Len(w) + 2) : (u \o <<y>>)[i] = IF i <= Len(w) + 1 THEN u[i] ELSE y
  BY <1>1, <1>2, <1>3, ConcatProperties
<1>5. /\ (u \o <<y>>)[1] = x /\ (u \o <<y>>)[Len(w) + 2] = y
      /\ \A n \in 1..Len(w) : (u \o <<y>>)[n + 1] = w[n]
  BY <1>2, <1>3, <1>4
<1> QED
  BY <1>4, <1>5 DEF u

LEMMA ListShape ==
    ASSUME NEW v \in List
    PROVE  v \in Seq(Tokens) /\ Len(v) = 5 /\ v[1] = "["
<1>1. PICK m \in Members : v = <<"[">> \o Nested(1, m) \o <<"]">>
  BY DEF List
<1>2. "[" \in Tokens /\ "]" \in Tokens /\ Members \cup {"{", "key", "}"} \subseteq Tokens
  BY DEF Tokens
<1> DEFINE w == Nested(1, m)
<1>3. w \in Seq(Members \cup {"{", "key", "}"}) /\ Len(w) = 3 * 1
  <2>1. 1 \in Nat \ {0}
    OBVIOUS
  <2> QED
    BY <2>1, NestedShape, Zenon
<1>4. w \in Seq(Tokens)
  BY <1>2, <1>3, SeqMonotonic
<1> HIDE DEF w
<1> DEFINE x == "["
           y == "]"
<1>5. v \in Seq(Tokens) /\ Len(v) = Len(w) + 2 /\ v[1] = x
  <2>1. v = <<x>> \o w \o <<y>> /\ x \in Tokens /\ y \in Tokens
    BY <1>1, <1>2 DEF w
  <2> HIDE DEF x, y
  <2> QED
    BY <2>1, <1>4, Around
<1>6. Len(w) = 3
  <2>1. 3 * 1 = 3
    OBVIOUS
  <2> QED
    BY <1>3, <2>1, Zenon
<1>7. Len(v) = 5
  BY <1>5, <1>6
<1> QED
  BY <1>5, <1>7

(* an answer is a text of these tokens *)
AnswerTypes == text \in Seq(Tokens)

LEMMA AnswersTyped == AnswerSpec => []AnswerTypes
<1>1. AnswerInit => AnswerTypes
  BY DEF AnswerInit, AnswerTypes
<1>2. ASSUME AnswerTypes, [AnswerNext]_answerVars PROVE AnswerTypes'
  <2>1. CASE UNCHANGED answerVars
    BY <1>2, <2>1 DEF AnswerTypes, answerVars
  <2>2. ASSUME NEW piece \in Pieces, Say(piece) PROVE AnswerTypes'
    <3>1. piece \in Seq(Tokens)
      <4>1. {<<"word">>, <<"fence">>, <<"{", "key">>, <<"}">>} \subseteq Seq(Tokens)
        BY DEF Tokens
      <4> QED
        BY <4>1, ObjectShape, ListShape DEF Pieces
    <3> QED
      BY <1>2, <2>2, <3>1, ConcatProperties DEF Say, AnswerTypes
  <2> QED
    BY <1>2, <2>1, <2>2 DEF AnswerNext
<1> QED
  BY <1>1, <1>2, PTL DEF AnswerSpec

-----------------------------------------------------------------------------
(* The least and the greatest *)
LEMMA LeastNumber ==
    ASSUME NEW T \in SUBSET Nat, T # {}
    PROVE  \E m \in T : \A k \in T : m <= k
<1> DEFINE Downs == {0..k : k \in T}
<1>1. Downs \subseteq FiniteSubsetsOf(Nat) /\ Downs # {}
  <2>1. \A k \in T : 0..k \in SUBSET Nat /\ IsFiniteSet(0..k)
    BY FS_Interval
  <2> QED
    BY <2>1 DEF FiniteSubsetsOf
<1>2. IsWellFoundedOn(StrictSubsetOrdering(Nat), FiniteSubsetsOf(Nat))
  BY FS_StrictSubsetOrderingWellFounded
<1>3. PICK down \in Downs : \A other \in Downs : <<other, down>> \notin StrictSubsetOrdering(Nat)
  <2> HIDE DEF Downs
  <2> QED
    BY <1>1, <1>2, WFMin, Zenon
<1>4. PICK m \in T : down = 0..m
  BY <1>3
<1>5. ASSUME NEW k \in T PROVE m <= k
  <2>1. <<0..k, 0..m>> \notin StrictSubsetOrdering(Nat)
    BY <1>3, <1>4
  <2>2. ~ (0..k \subseteq 0..m /\ 0..k # 0..m)
    BY <2>1 DEF StrictSubsetOrdering
  <2>3. k < m => 0..k \subseteq 0..m /\ m \in 0..m /\ m \notin 0..k
    OBVIOUS
  <2> QED
    BY <2>2, <2>3
<1> QED
  BY <1>4, <1>5

LEMMA MinOf ==
    ASSUME NEW T \in SUBSET Nat, T # {}
    PROVE  Min(T) \in T /\ \A k \in T : Min(T) <= k
BY LeastNumber DEF Min

LEMMA MaxOf ==
    ASSUME NEW k \in Nat, NEW T \in SUBSET 1..k, T # {}
    PROVE  Max(T) \in T /\ \A n \in T : n <= Max(T)
<1>1. PICK m \in {k - n : n \in T} : \A o \in {k - n : n \in T} : m <= o
  <2>1. \A n \in T : k - n \in Nat
    OBVIOUS
  <2>2. {k - n : n \in T} \in SUBSET Nat /\ {k - n : n \in T} # {}
    BY <2>1
  <2> QED
    BY <2>2, MinOf
<1>2. PICK n \in T : m = k - n
  BY <1>1
<1>3. \A o \in T : o <= n
  BY <1>1, <1>2
<1> QED
  BY <1>3 DEF Max

-----------------------------------------------------------------------------
(* The parts extract_json tries, and what it returns *)
LEMMA Piece ==
    ASSUME NEW s \in Seq(Tokens), NEW a \in 1..Len(s), NEW b \in 1..Len(s)
    PROVE  /\ SubSeq(s, a, b) \in Seq(Tokens)
           /\ Len(SubSeq(s, a, b)) = IF a <= b THEN b - a + 1 ELSE 0
           /\ \A n \in 1..(b - a + 1) : SubSeq(s, a, b)[n] = s[a + n - 1]
           /\ SubSeq(s, a, b) # <<>> => a \in Occurs(SubSeq(s, a, b), s)
<1>1. \A i \in a..b : s[i] \in Tokens
  BY ElementOfSeq
<1>2. /\ SubSeq(s, a, b) \in Seq(Tokens)
      /\ Len(SubSeq(s, a, b)) = IF a <= b THEN b - a + 1 ELSE 0
      /\ \A n \in 1..(b - a + 1) : SubSeq(s, a, b)[n] = s[a + n - 1]
  BY <1>1, SubSeqProperties
<1>3. SubSeq(s, a, b) # <<>> => a <= b
  BY SubSeqEmpty
<1>4. Len(s) \in Nat
  BY LenProperties
<1> QED
  BY <1>2, <1>3, <1>4 DEF Occurs

LEMMA LoadsIs ==
    ASSUME NEW s
    PROVE  /\ Loads(s) # JSONDecodeError <=> s \in Object \cup List
           /\ Loads(s) # JSONDecodeError => Loads(s) = s
<1>1. \A v \in Object \cup List : v # <<>>
  <2>1. ASSUME NEW v \in Object \cup List PROVE Len(v) >= 3
    <3>1. v \in Object => Len(v) >= 3
      BY ObjectShape
    <3>2. v \in List => Len(v) = 5
      BY ListShape
    <3> QED
      BY <3>1, <3>2
  <2>2. Len(<<>>) = 0
    BY EmptySeq
  <2> QED
    BY <2>1, <2>2
<1> QED
  BY <1>1 DEF Loads, JSONDecodeError

(* which of the parts extract_json returns *)
LEMMA ExtractIs ==
    ASSUME NEW s
    PROVE  /\ Loads(WholeObject(s)) # JSONDecodeError => extract_json(s) = WholeObject(s)
           /\ Loads(WholeObject(s)) = JSONDecodeError =>
                /\ Loads(FirstFenced(s)) # JSONDecodeError => extract_json(s) = FirstFenced(s)
                /\ Loads(FirstFenced(s)) = JSONDecodeError =>
                     /\ Loads(Braces(s)) # JSONDecodeError => extract_json(s) = Braces(s)
                     /\ Loads(Braces(s)) = JSONDecodeError => extract_json(s) = JSONDecodeError
<1> DEFINE w == WholeObject(s)
           f == FirstFenced(s)
           b == Braces(s)
           parts == <<w, f, b>>
           json == {n \in 1..3 : Loads(parts[n]) # JSONDecodeError}
<1>1. extract_json(s) = IF json = {} THEN JSONDecodeError ELSE parts[Min(json)]
  BY DEF extract_json, Parts
<1> HIDE DEF w, f, b
<1>2. parts[1] = w /\ parts[2] = f /\ parts[3] = b
  OBVIOUS
<1> HIDE DEF parts
<1>3. json # {} => Min(json) \in json /\ \A k \in json : Min(json) <= k
  <2>1. json \in SUBSET Nat
    OBVIOUS
  <2> HIDE DEF json
  <2> QED
    BY <2>1, MinOf
<1>4. \A n : n \in json <=> n \in {1, 2, 3} /\ Loads(parts[n]) # JSONDecodeError
  OBVIOUS
<1> HIDE DEF json
<1>5. Loads(w) # JSONDecodeError => extract_json(s) = w
  <2> SUFFICES ASSUME Loads(w) # JSONDecodeError PROVE extract_json(s) = w
    OBVIOUS
  <2>1. 1 \in json
    BY <1>2, <1>4
  <2>2. Min(json) = 1
    BY <1>3, <1>4, <2>1
  <2> QED
    BY <1>1, <1>2, <2>1, <2>2
<1>6. ASSUME Loads(w) = JSONDecodeError, Loads(f) # JSONDecodeError PROVE extract_json(s) = f
  <2>1. 2 \in json /\ 1 \notin json
    BY <1>2, <1>4, <1>6
  <2>2. Min(json) = 2
    BY <1>3, <1>4, <2>1
  <2> QED
    BY <1>1, <1>2, <2>1, <2>2
<1>7. ASSUME Loads(w) = JSONDecodeError, Loads(f) = JSONDecodeError
      PROVE  extract_json(s) = IF Loads(b) # JSONDecodeError THEN b ELSE JSONDecodeError
  <2>1. 2 \notin json /\ 1 \notin json /\ (3 \in json <=> Loads(b) # JSONDecodeError)
    BY <1>2, <1>4, <1>7
  <2>2. 3 \in json => Min(json) = 3
    BY <1>3, <1>4, <2>1
  <2>3. 3 \notin json => json = {}
    BY <1>4, <2>1
  <2> QED
    BY <1>1, <1>2, <2>1, <2>2, <2>3
<1> QED
  BY <1>5, <1>6, <1>7 DEF w, f, b

LEMMA WholePart ==
    ASSUME NEW s \in Seq(Tokens), WholeObject(s) # <<>>
    PROVE  /\ s[1] = "{"
           /\ \E b \in 1..Len(s) : /\ WholeObject(s) = SubSeq(s, 1, b) /\ s[b] = "}"
                                   /\ \A n \in 1..Len(s) : s[n] = "}" => n <= b
<1>1. s[1] = "{" /\ Places(s, "}") # {} /\ WholeObject(s) = SubSeq(s, 1, Max(Places(s, "}")))
  BY DEF WholeObject
<1>2. Len(s) \in Nat /\ Places(s, "}") \in SUBSET 1..Len(s)
  BY LenProperties DEF Places
<1>3. /\ Max(Places(s, "}")) \in Places(s, "}")
      /\ \A n \in Places(s, "}") : n <= Max(Places(s, "}"))
  BY <1>1, <1>2, MaxOf
<1> QED
  BY <1>1, <1>2, <1>3 DEF Places

LEMMA FencedPart ==
    ASSUME NEW s \in Seq(Tokens), FirstFenced(s) # <<>>
    PROVE  \E a, b \in 1..Len(s) :
              /\ FirstFenced(s) = SubSeq(s, a, b)
              /\ a > 1 /\ s[a - 1] = "fence"
<1> DEFINE fences == Places(s, "fence")
           later  == {n \in fences : \E k \in fences : k < n}
<1>1. later # {} /\ FirstFenced(s) = SubSeq(s, Min(fences) + 1, Min(later) - 1)
  BY DEF FirstFenced
<1>2. Len(s) \in Nat /\ fences \in SUBSET Nat /\ fences \in SUBSET 1..Len(s)
  BY LenProperties DEF Places
<1>3. later \in SUBSET fences
  OBVIOUS
<1>4. \A n \in later : \E k \in fences : k < n
  OBVIOUS
<1>5. \A n \in fences : s[n] = "fence"
  BY DEF Places
<1> HIDE DEF fences, later
<1>6. Min(fences) \in fences /\ \A k \in fences : Min(fences) <= k
  BY <1>1, <1>2, <1>3, MinOf
<1>7. Min(later) \in later
  BY <1>1, <1>2, <1>3, MinOf
<1>8. Min(fences) < Min(later)
  <2>1. PICK k \in fences : k < Min(later)
    BY <1>4, <1>7
  <2>2. Min(fences) <= k /\ Min(fences) \in Nat /\ Min(later) \in Nat /\ k \in Nat
    BY <1>2, <1>3, <1>6, <1>7
  <2> QED
    BY <2>1, <2>2
<1>9. Min(fences) \in 1..Len(s) /\ Min(later) \in 1..Len(s) /\ s[Min(fences)] = "fence"
  BY <1>2, <1>3, <1>5, <1>6, <1>7
<1> DEFINE a == Min(fences) + 1
           b == Min(later) - 1
<1>10. a \in 1..Len(s) /\ b \in 1..Len(s) /\ a > 1 /\ a - 1 = Min(fences)
  BY <1>2, <1>8, <1>9
<1> QED
  BY <1>1, <1>9, <1>10

LEMMA BracesPart ==
    ASSUME NEW s \in Seq(Tokens), Braces(s) # <<>>
    PROVE  \E a, b \in 1..Len(s) :
              /\ Braces(s) = SubSeq(s, a, b) /\ Closes(s, a, b)
              /\ \A i, j \in 1..Len(s) : Closes(s, i, j) => a <= i
<1> DEFINE starts == {i \in 1..Len(s) : \E j \in 1..Len(s) : Closes(s, i, j)}
           first == Min(starts)
           last == CHOOSE j \in 1..Len(s) : Closes(s, first, j)
<1>1. starts # {} /\ Braces(s) = SubSeq(s, first, last)
  BY DEF Braces
<1>2. first \in starts /\ \A i \in starts : first <= i
  <2>1. starts \in SUBSET Nat
    BY LenProperties
  <2> HIDE DEF starts
  <2> QED
    BY <1>1, <2>1, MinOf
<1>3. \E j \in 1..Len(s) : Closes(s, first, j)
  BY <1>2
<1>4. last \in 1..Len(s) /\ Closes(s, first, last)
  BY <1>3, Zenon
<1> HIDE DEF last
<1> QED
  BY <1>1, <1>2, <1>4

(* what is found stands in the answer *)
LEMMA FoundStands ==
    ASSUME NEW s \in Seq(Tokens), extract_json(s) # JSONDecodeError
    PROVE  /\ extract_json(s) \in Object \cup List
           /\ Occurs(extract_json(s), s) # {}
<1> DEFINE Stands(part) ==
              part \in Object \cup List => Occurs(part, s) # {}
<1>1. Stands(WholeObject(s)) /\ Stands(FirstFenced(s)) /\ Stands(Braces(s))
  <2>1. \A part \in Object \cup List : part # <<>>
    BY LoadsIs DEF JSONDecodeError
  <2>2. ASSUME NEW a \in 1..Len(s), NEW b \in 1..Len(s), SubSeq(s, a, b) # <<>>
        PROVE  Occurs(SubSeq(s, a, b), s) # {}
    BY <2>2, Piece
  <2>3. Len(s) \in Nat
    BY LenProperties
  <2>4. Stands(WholeObject(s))
    <3>1. SUFFICES ASSUME WholeObject(s) # <<>> PROVE Stands(WholeObject(s))
      BY <2>1
    <3>2. PICK b \in 1..Len(s) : WholeObject(s) = SubSeq(s, 1, b)
      BY <3>1, WholePart
    <3> QED
      BY <2>2, <2>3, <3>1, <3>2
  <2>5. Stands(FirstFenced(s))
    BY <2>1, <2>2, FencedPart
  <2>6. Stands(Braces(s))
    BY <2>1, <2>2, BracesPart
  <2> QED
    BY <2>4, <2>5, <2>6
<1>2. \A part : Loads(part) # JSONDecodeError <=> part \in Object \cup List
  BY LoadsIs
<1> QED
  BY <1>1, <1>2, ExtractIs

-----------------------------------------------------------------------------
(* What the triage agent says of it *)
LEMMA Different == \A v \in Object : v \notin List
<1> SUFFICES ASSUME NEW v \in Object, v \in List PROVE FALSE
  OBVIOUS
<1>1. v[1] = "{"
  BY ObjectShape
<1>2. v[1] = "["
  BY ListShape
<1> QED
  BY <1>1, <1>2

LEMMA TriagedIs ==
    ASSUME NEW s \in Seq(Tokens), Triaged(s) = "P3"
    PROVE  extract_json(s) \in Object /\ extract_json(s)[2] = "P3"
<1> DEFINE found == extract_json(s)
           error == found = JSONDecodeError
           list == found \in List
           object == found \in Object
<1>1. Triaged(s) = CASE error -> "P2" [] list -> "failed" [] object -> Severity(found)
  BY DEF Triaged
<1>2. error \/ list \/ object
  BY FoundStands
<1>3. /\ list => ~error /\ ~object
      /\ object => ~error /\ ~list
  BY Different, LoadsIs
<1> HIDE DEF error, list, object
<1>4. /\ error => Triaged(s) = "P2"
      /\ list => Triaged(s) = "failed"
      /\ object => Triaged(s) = Severity(found)
  BY <1>1, <1>3
<1>5. object /\ Severity(found) = "P3"
  BY <1>2, <1>4
<1>6. found[2] = "P3"
  BY <1>5 DEF Severity
<1> QED
  BY <1>5, <1>6 DEF object

LEMMA P3Object ==
    ASSUME NEW v \in Object, v[2] = "P3"
    PROVE  Len(v) = 3 /\ v[1] = "{" /\ v[3] = "}"
<1>1. PICK depth \in 1..MaxDepth, m \in Members : v = Nested(depth, m)
  BY DEF Object
<1>2. depth \in Nat \ {0}
  BY AnswersAssumption
<1>3. /\ Len(v) = 3 * depth /\ v[3 * depth] = "}" /\ v[1] = "{"
      /\ v[2] = (IF depth = 1 THEN m ELSE "key")
  BY <1>1, <1>2, NestedShape
<1>4. depth = 1
  BY <1>3
<1>5. 3 * depth = 3
  BY <1>4
<1> QED
  BY <1>3, <1>5, Zenon

LEMMA UnattendedStated == AnswerTypes => UnattendedOnlyIfStated
<1> SUFFICES ASSUME text \in Seq(Tokens), Route(text) = "SolutionAgent"
             PROVE  Occurs(<<"{", "P3", "}">>, text) # {}
  BY DEF AnswerTypes, UnattendedOnlyIfStated
<1>1. Triaged(text) = "P3"
  <2> DEFINE told == Triaged(text)
             A == told = "P3"
             B == told \in {"P1", "P2"}
             C == told = "none"
             D == told = "failed"
  <2>1. Route(text) = CASE A -> "SolutionAgent" [] B -> "SolutionAgentWithApproval"
                        [] C -> "Failed" [] D -> "DegradedNotify"
    BY DEF Route
  <2>2. A \/ B \/ C \/ D
    <3>1. extract_json(text) # JSONDecodeError => extract_json(text) \in Object \cup List
      BY FoundStands
    <3>2. Triaged(text) \in {"P1", "P2", "P3", "none", "failed"}
      BY <3>1, Different, LoadsIs, Zenon DEF Triaged, Severity
    <3> QED
      BY <3>2
  <2>3. /\ B => ~A /\ ~C /\ ~D
        /\ C => ~A /\ ~B /\ ~D
        /\ D => ~A /\ ~B /\ ~C
    OBVIOUS
  <2> HIDE DEF A, B, C, D
  <2>4. A
    BY <2>1, <2>2, <2>3
  <2> QED
    BY <2>4 DEF A
<1> DEFINE found == extract_json(text)
<1>2. found \in Object /\ found[2] = "P3"
  BY <1>1, TriagedIs
<1>3. Len(found) = 3 /\ found[1] = "{" /\ found[3] = "}"
  BY <1>2, P3Object
<1>4. found # JSONDecodeError
  BY <1>2, LoadsIs
<1>5. PICK i : i \in Occurs(found, text)
  BY <1>4, FoundStands
<1> DEFINE x == "{"
           y == "P3"
           z == "}"
<1> HIDE DEF found
<1>6. i \in Occurs(<<x, y, z>>, text)
  <2>1. found[1] = x /\ found[2] = y /\ found[3] = z
    BY <1>2, <1>3
  <2>2. x \in Tokens /\ y \in Tokens /\ z \in Tokens
    BY DEF Tokens, Members
  <2>3. found \in Seq(Tokens)
    BY <1>2, ObjectShape
  <2> HIDE DEF x, y, z
  <2>4. <<x, y, z>> \in Seq(Tokens) /\ Len(<<x, y, z>>) = 3
    BY <2>2
  <2>5. <<x, y, z>>[1] = x /\ <<x, y, z>>[2] = y /\ <<x, y, z>>[3] = z
    OBVIOUS
  <2>6. \A n \in 1..3 : found[n] = <<x, y, z>>[n]
    <3>1. \A n \in 1..3 : n = 1 \/ n = 2 \/ n = 3
      OBVIOUS
    <3> QED
      BY <2>1, <2>5, <3>1, Zenon
  <2>7. found = <<x, y, z>>
    BY <1>3, <2>3, <2>4, <2>6, SeqEqual
  <2> QED
    BY <1>5, <2>7
<1> QED
  BY <1>6

-----------------------------------------------------------------------------
(* The regular expression: where it matches *)

(* how many of the tokens from i to k are in T *)
Tally(s, T, i, k) == Cardinality({n \in i..k : s[n] \in T})

LEMMA CountStep ==
    ASSUME NEW s, NEW T, NEW i \in Nat, NEW k \in Nat, i <= k + 1
    PROVE  /\ Tally(s, T, i, k) \in Nat
           /\ Tally(s, T, i, k + 1) = Tally(s, T, i, k) + (IF s[k + 1] \in T THEN 1 ELSE 0)
<1> DEFINE C == {n \in i..k : s[n] \in T}
           D == {n \in i..(k + 1) : s[n] \in T}
<1>1. IsFiniteSet(C)
  <2>1. IsFiniteSet(i..k)
    BY FS_Interval
  <2> QED
    BY <2>1, FS_Subset
<1>2. k + 1 \notin C
  OBVIOUS
<1>3. D = IF s[k + 1] \in T THEN C \cup {k + 1} ELSE C
  <2>1. i..(k + 1) = (i..k) \cup {k + 1}
    OBVIOUS
  <2> QED
    BY <2>1
<1> HIDE DEF C, D
<1>4. Cardinality(C) \in Nat /\ Cardinality(C \cup {k + 1}) = Cardinality(C) + 1
  BY <1>1, <1>2, FS_AddElement, FS_CardinalityType
<1>5. Cardinality(D) = Cardinality(C) + (IF s[k + 1] \in T THEN 1 ELSE 0)
  BY <1>3, <1>4
<1> QED
  BY <1>4, <1>5 DEF C, D, Tally

LEMMA NestingStep ==
    ASSUME NEW s, NEW i \in Nat, NEW k \in Nat, i <= k + 1
    PROVE  /\ Nesting(s, i, k) \in Int
           /\ s[k + 1] \in {"{", "brace"} => Nesting(s, i, k + 1) = Nesting(s, i, k) + 1
           /\ s[k + 1] = "}" => Nesting(s, i, k + 1) = Nesting(s, i, k) - 1
           /\ s[k + 1] \notin {"{", "brace", "}"} => Nesting(s, i, k + 1) = Nesting(s, i, k)
<1> DEFINE O == {"{", "brace"}
           E == {"}"}
<1>1. /\ Nesting(s, i, k) = Tally(s, O, i, k) - Tally(s, E, i, k)
      /\ Nesting(s, i, k + 1) = Tally(s, O, i, k + 1) - Tally(s, E, i, k + 1)
  <2>1. \A j : {n \in i..j : s[n] = "}"} = {n \in i..j : s[n] \in E}
    OBVIOUS
  <2> QED
    BY <2>1 DEF Nesting, Tally
<1>2. \A x : /\ x \in O => x \notin E
             /\ x = "}" => x \in E
             /\ x \notin {"{", "brace", "}"} => x \notin O /\ x \notin E
             /\ x \in E => x \notin O
  OBVIOUS
<1>3. \A x : x \in {"{", "brace"} <=> x \in O
  OBVIOUS
<1> HIDE DEF O, E
<1> DEFINE x == s[k + 1]
           open == x \in {"{", "brace"}
           shut == x = "}"
           dull == x \notin {"{", "brace", "}"}
<1>5. /\ open => x \in O /\ x \notin E
      /\ shut => x \in E /\ x \notin O
      /\ dull => x \notin O /\ x \notin E
  BY <1>2, <1>3, Zenon
<1>6. /\ Tally(s, O, i, k) \in Nat
      /\ Tally(s, O, i, k + 1) = Tally(s, O, i, k) + (IF x \in O THEN 1 ELSE 0)
      /\ Tally(s, E, i, k) \in Nat
      /\ Tally(s, E, i, k + 1) = Tally(s, E, i, k) + (IF x \in E THEN 1 ELSE 0)
  BY CountStep
<1> HIDE DEF open, shut, dull, x
<1>7. /\ Nesting(s, i, k) \in Int
      /\ open => Nesting(s, i, k + 1) = Nesting(s, i, k) + 1
      /\ shut => Nesting(s, i, k + 1) = Nesting(s, i, k) - 1
      /\ dull => Nesting(s, i, k + 1) = Nesting(s, i, k)
  BY <1>1, <1>5, <1>6
<1> QED
  BY <1>7 DEF open, shut, dull, x

LEMMA NestingNone ==
    ASSUME NEW s, NEW i \in Nat, NEW k \in Nat, k < i
    PROVE  Nesting(s, i, k) = 0
<1>1. i..k = {}
  OBVIOUS
<1>2. /\ {n \in i..k : s[n] \in {"{", "brace"}} = {}
      /\ {n \in i..k : s[n] = "}"} = {}
  BY <1>1
<1>3. Cardinality({}) - Cardinality({}) = 0
  BY FS_EmptySet
<1> QED
  BY <1>2, <1>3, Zenon DEF Nesting

(* what the expression can follow is one member, or one in one *)
LEMMA Shallow ==
    ASSUME NEW v, Searchable(v)
    PROVE  \E m \in Members \ {"brace"} :
              \/ Len(v) = 3 /\ v[1] = "{" /\ v[2] = m /\ v[3] = "}"
              \/ /\ Len(v) = 6 /\ v[1] = "{" /\ v[2] = "key" /\ v[3] = "{"
                 /\ v[4] = m /\ v[5] = "}" /\ v[6] = "}"
<1>1. PICK depth \in 1..2, m \in Members \ {"brace"} : v = Nested(depth, m)
  BY DEF Searchable
<1>2. depth \in Nat \ {0} /\ m \in Members /\ (depth = 1 \/ depth = 2)
  OBVIOUS
<1>3. /\ Len(v) = 3 * depth
      /\ v[1] = "{" /\ v[2] = (IF depth = 1 THEN m ELSE "key") /\ v[3 * depth] = "}"
  BY <1>1, <1>2, NestedShape
<1>4. CASE depth = 1
  <2>1. 3 * depth = 3
    BY <1>4
  <2>2. Len(v) = 3 /\ v[3] = "}" /\ v[1] = "{" /\ v[2] = m
    BY <1>3, <1>4, <2>1, Zenon
  <2> QED
    BY <2>2
<1>5. CASE depth = 2
  <2>1. 3 * depth = 6 /\ depth # 1
    BY <1>5
  <2>2. Len(v) = 6 /\ v[6] = "}" /\ v[1] = "{" /\ v[2] = "key"
    BY <1>3, <2>1, Zenon
  <2> DEFINE len == 3 * depth
             two == 2 * depth
  <2>3. /\ 3 \in 1..len /\ 3 < two /\ 3 % 2 = 1
        /\ 4 \in 1..len /\ 4 = two
        /\ 5 \in 1..len /\ 5 > two
    BY <1>5
  <2>4. \A n \in 1..len : /\ n < two /\ n % 2 = 1 => v[n] = "{"
                          /\ n = two => v[n] = m
                          /\ n > two => v[n] = "}"
    <3>1. depth \in Nat \ {0} /\ m \in Members
      BY <1>2
    <3> QED
      BY <1>1, <3>1, NestedAt, Zenon
  <2> HIDE DEF len, two
  <2>5. v[3] = "{" /\ v[4] = m /\ v[5] = "}"
    BY <2>3, <2>4, Zenon
  <2> QED
    BY <2>2, <2>5
<1> QED
  BY <1>2, <1>4, <1>5

(* where such an object stands, the expression matches *)
LEMMA SearchableCloses ==
    ASSUME NEW s \in Seq(Tokens), NEW v, Searchable(v), NEW i \in Occurs(v, s)
    PROVE  /\ Len(v) \in Nat \ {0} /\ i \in Nat \ {0} /\ i + Len(v) - 1 \in i..Len(s)
           /\ Closes(s, i, i + Len(v) - 1)
<1> DEFINE N(k) == Nesting(s, i, k)
           Open(x) == x \in {"{", "brace"}
           Shut(x) == x = "}"
           Dull(x) == x \notin {"{", "brace", "}"}
           len == Len(v)
<1>1. \/ /\ len = 3
         /\ Open(v[1]) /\ Dull(v[2]) /\ Shut(v[3])
      \/ /\ len = 6
         /\ Open(v[1]) /\ Dull(v[2]) /\ Open(v[3]) /\ Dull(v[4]) /\ Shut(v[5]) /\ Shut(v[6])
  BY Shallow, Zenon DEF Members
<1>2. /\ i \in 1..(Len(s) - len + 1)
      /\ \A n \in 1..len : s[i + n - 1] = v[n]
      /\ Len(s) \in Nat
  BY LenProperties DEF Occurs
<1>3. \A k \in Nat : i <= k + 1 =>
           /\ N(k) \in Int
           /\ Open(s[k + 1]) => N(k + 1) = N(k) + 1
           /\ Shut(s[k + 1]) => N(k + 1) = N(k) - 1
           /\ Dull(s[k + 1]) => N(k + 1) = N(k)
  <2>1. i \in Nat
    BY <1>2
  <2> QED
    BY <2>1, NestingStep, Zenon
<1>4. i - 1 \in Nat => N(i - 1) = 0
  <2> SUFFICES ASSUME i - 1 \in Nat PROVE N(i - 1) = 0
    OBVIOUS
  <2>1. i \in Nat /\ i - 1 < i
    BY <1>2
  <2> QED
    BY <2>1, NestingNone, Zenon
<1>5. \A j : Closes(s, i, j) <=>
            /\ Open(s[i]) /\ i < j /\ Shut(s[j])
            /\ N(j) = 0
            /\ \A k \in i..(j - 1) : N(k) \in {1, 2}
  BY Zenon DEF Closes
<1> HIDE DEF N, Open, Shut, Dull, len
<1>6. len \in Nat \ {0} /\ i \in Nat \ {0} /\ i + len - 1 \in i..Len(s)
  BY <1>1, <1>2
<1>7. PICK h \in Nat : i = h + 1
  <2>1. i - 1 \in Nat /\ i = (i - 1) + 1
    BY <1>6
  <2> QED
    BY <2>1
<1>8. N(h) = 0
  BY <1>4, <1>7
<1>9. \A n \in 1..len : s[h + n] = v[n]
  <2> SUFFICES ASSUME NEW n \in 1..len PROVE s[h + n] = v[n]
    OBVIOUS
  <2>1. i + n - 1 = h + n
    BY <1>6, <1>7
  <2> QED
    BY <1>2, <2>1
<1>10. \A k \in Nat : h <= k =>
           /\ N(k) \in Int
           /\ Open(s[k + 1]) => N(k + 1) = N(k) + 1
           /\ Shut(s[k + 1]) => N(k + 1) = N(k) - 1
           /\ Dull(s[k + 1]) => N(k + 1) = N(k)
  BY <1>3, <1>7
<1>11. CASE len = 3
  <2>1. Open(s[h + 1]) /\ Dull(s[h + 2]) /\ Shut(s[h + 3])
    BY <1>1, <1>9, <1>11
  <2>2. N(h + 1) = 1
    BY <1>8, <1>10, <2>1
  <2>3. N(h + 2) = 1
    <3>1. h + 1 \in Nat /\ h <= h + 1 /\ h + 1 + 1 = h + 2
      OBVIOUS
    <3> QED
      BY <1>10, <2>1, <2>2, <3>1
  <2>4. N(h + 3) = 0
    <3>1. h + 2 \in Nat /\ h <= h + 2 /\ h + 2 + 1 = h + 3
      OBVIOUS
    <3> QED
      BY <1>10, <2>1, <2>3, <3>1
  <2>5. \A k \in i..(h + 3 - 1) : N(k) \in {1, 2}
    <3>1. \A k \in i..(h + 3 - 1) : k = h + 1 \/ k = h + 2
      BY <1>7
    <3> QED
      BY <2>2, <2>3, <3>1
  <2>6. Closes(s, i, h + 3)
    BY <1>5, <1>7, <2>1, <2>4, <2>5
  <2>7. i + len - 1 = h + 3
    BY <1>7, <1>11
  <2> QED
    BY <1>6, <2>6, <2>7 DEF len
<1>12. CASE len = 6
  <2>1. /\ Open(s[h + 1]) /\ Dull(s[h + 2]) /\ Open(s[h + 3])
        /\ Dull(s[h + 4]) /\ Shut(s[h + 5]) /\ Shut(s[h + 6])
    BY <1>1, <1>9, <1>12
  <2>2. N(h + 1) = 1
    BY <1>8, <1>10, <2>1
  <2>3. N(h + 2) = 1
    <3>1. h + 1 \in Nat /\ h <= h + 1 /\ h + 1 + 1 = h + 2
      OBVIOUS
    <3> QED
      BY <1>10, <2>1, <2>2, <3>1
  <2>4. N(h + 3) = 2
    <3>1. h + 2 \in Nat /\ h <= h + 2 /\ h + 2 + 1 = h + 3
      OBVIOUS
    <3> QED
      BY <1>10, <2>1, <2>3, <3>1
  <2>5. N(h + 4) = 2
    <3>1. h + 3 \in Nat /\ h <= h + 3 /\ h + 3 + 1 = h + 4
      OBVIOUS
    <3> QED
      BY <1>10, <2>1, <2>4, <3>1
  <2>6. N(h + 5) = 1
    <3>1. h + 4 \in Nat /\ h <= h + 4 /\ h + 4 + 1 = h + 5
      OBVIOUS
    <3> QED
      BY <1>10, <2>1, <2>5, <3>1
  <2>7. N(h + 6) = 0
    <3>1. h + 5 \in Nat /\ h <= h + 5 /\ h + 5 + 1 = h + 6
      OBVIOUS
    <3> QED
      BY <1>10, <2>1, <2>6, <3>1
  <2>8. \A k \in i..(h + 6 - 1) : N(k) \in {1, 2}
    <3>1. \A k \in i..(h + 6 - 1) : \/ k = h + 1 \/ k = h + 2 \/ k = h + 3
                                    \/ k = h + 4 \/ k = h + 5
      BY <1>7
    <3> QED
      BY <2>2, <2>3, <2>4, <2>5, <2>6, <3>1
  <2>9. Closes(s, i, h + 6)
    BY <1>5, <1>7, <2>1, <2>7, <2>8
  <2>10. i + len - 1 = h + 6
    BY <1>7, <1>12
  <2> QED
    BY <1>6, <2>9, <2>10 DEF len
<1> QED
  BY <1>1, <1>11, <1>12

(* the expression matches from a place to one other only *)
LEMMA ClosesOnce ==
    ASSUME NEW s, NEW i \in Nat, NEW j \in Nat, NEW k \in Nat, Closes(s, i, j), Closes(s, i, k)
    PROVE  j = k
<1>1. /\ i < j /\ Nesting(s, i, j) = 0 /\ \A n \in i..(j - 1) : Nesting(s, i, n) \in {1, 2}
      /\ i < k /\ Nesting(s, i, k) = 0 /\ \A n \in i..(k - 1) : Nesting(s, i, n) \in {1, 2}
  BY DEF Closes
<1>2. ~ j < k
  <2>1. j < k => j \in i..(k - 1)
    BY <1>1
  <2> QED
    BY <1>1, <2>1
<1>3. ~ k < j
  <2>1. k < j => k \in i..(j - 1)
    BY <1>1
  <2> QED
    BY <1>1, <2>1
<1> QED
  BY <1>2, <1>3

-----------------------------------------------------------------------------
(* What each part is, of a text known to have an object *)

(* no fence and no prose is part of an object *)
LEMMA NoFence == \A v \in Object : \A n \in 1..Len(v) : v[n] # "fence" /\ v[n] # "word"
<1> SUFFICES ASSUME NEW v \in Object, NEW n \in 1..Len(v)
             PROVE  v[n] # "fence" /\ v[n] # "word"
  OBVIOUS
<1>1. v[n] \in Members \cup {"{", "key", "}"}
  BY ObjectShape
<1> QED
  BY <1>1 DEF Members

LEMMA NotEmpty == \A s : Len(s) \in Nat \ {0} => s # <<>>
<1>1. Len(<<>>) = 0
  BY EmptySeq
<1> QED
  BY <1>1

(* A text up to its last "}". *)
LEMMA WholeUpTo ==
    ASSUME NEW s \in Seq(Tokens), NEW b \in 1..Len(s), s[1] = "{", s[b] = "}",
           \A n \in 1..Len(s) : n > b => s[n] # "}"
    PROVE  WholeObject(s) = SubSeq(s, 1, b)
<1>1. Len(s) \in Nat /\ s # <<>>
  <2>1. b \in 1..Len(s) /\ Len(s) \in Nat
    BY LenProperties
  <2>2. Len(s) \in Nat \ {0}
    BY ONLY <2>1
  <2> QED
    BY <2>2, NotEmpty, Zenon
<1>2. b \in Places(s, "}") /\ Places(s, "}") \in SUBSET 1..Len(s)
  BY DEF Places
<1> DEFINE last == Max(Places(s, "}"))
<1>3. last \in Places(s, "}") /\ b <= last
  BY <1>1, <1>2, MaxOf
<1>4. last \in 1..Len(s) /\ s[last] = "}"
  BY <1>3 DEF Places
<1> HIDE DEF last
<1>5. ~ last > b
  BY <1>4
<1>6. last = b
  <2>1. Len(s) \in Nat /\ b \in 1..Len(s) /\ last \in 1..Len(s) /\ b <= last
    BY <1>1, <1>3, <1>4, Zenon
  <2> QED
    BY ONLY <1>5, <2>1
<1>7. Places(s, "}") # {}
  BY <1>2
<1> QED
  BY <1>1, <1>6, <1>7, Zenon DEF WholeObject, last

LEMMA WholeNone ==
    ASSUME NEW s, s[1] # "{"
    PROVE  WholeObject(s) = <<>>
BY DEF WholeObject

(* between a fence and the next *)
LEMMA FencedIs ==
    ASSUME NEW s \in Seq(Tokens), NEW a \in 1..Len(s), NEW b \in 1..Len(s), a < b,
           s[a] = "fence", s[b] = "fence",
           \A n \in 1..(b - 1) : s[n] = "fence" => n = a
    PROVE  FirstFenced(s) = SubSeq(s, a + 1, b - 1)
<1> DEFINE fences == Places(s, "fence")
           later  == {n \in fences : \E k \in fences : k < n}
<1>1. FirstFenced(s) = IF later = {} THEN <<>> ELSE SubSeq(s, Min(fences) + 1, Min(later) - 1)
  BY DEF FirstFenced
<1>2. Len(s) \in Nat
  BY LenProperties
<1>3. \A n : n \in fences <=> n \in 1..Len(s) /\ s[n] = "fence"
  BY DEF Places
<1>4. \A n : n \in later <=> n \in fences /\ \E k \in fences : k < n
  OBVIOUS
<1> HIDE DEF fences, later
<1>5. a \in fences /\ b \in fences /\ b \in later
  BY <1>3, <1>4
<1>6. fences \in SUBSET Nat /\ later \in SUBSET Nat
  BY <1>2, <1>3, <1>4
<1>7. Min(fences) \in fences /\ Min(fences) <= a
  BY <1>5, <1>6, MinOf
<1>8. Min(fences) = a
  BY <1>2, <1>3, <1>7
<1>9. Min(later) \in later /\ Min(later) <= b
  BY <1>5, <1>6, MinOf
<1>10. a < Min(later)
  <2>1. PICK k \in fences : k < Min(later)
    BY <1>4, <1>9
  <2>2. a <= k
    BY <1>5, <1>6, <1>8, <2>1, MinOf
  <2>3. k \in Nat /\ Min(later) \in Nat
    BY <1>6, <1>9
  <2> QED
    BY <2>1, <2>2, <2>3
<1>11. Min(later) = b
  <2>1. Min(later) \in 1..Len(s) /\ s[Min(later)] = "fence"
    BY <1>3, <1>4, <1>9
  <2> QED
    BY <1>2, <1>9, <1>10, <2>1
<1> QED
  BY <1>1, <1>5, <1>8, <1>11

LEMMA FencedNone ==
    ASSUME NEW s, NEW a, \A n \in 1..Len(s) : s[n] = "fence" => n = a
    PROVE  FirstFenced(s) = <<>>
<1> DEFINE fences == Places(s, "fence")
           later  == {n \in fences : \E k \in fences : k < n}
<1>1. FirstFenced(s) = IF later = {} THEN <<>> ELSE SubSeq(s, Min(fences) + 1, Min(later) - 1)
  BY DEF FirstFenced
<1>2. \A n \in fences : n = a /\ n \in Int
  BY DEF Places
<1>3. later = {}
  BY <1>2
<1> QED
  BY <1>1, <1>3

(* where a sequence stands *)
LEMMA StandsAt ==
    ASSUME NEW s \in Seq(Tokens), NEW v \in Seq(Tokens), v # <<>>, NEW i \in Occurs(v, s)
    PROVE  /\ i \in 1..Len(s) /\ i + Len(v) - 1 \in i..Len(s)
           /\ SubSeq(s, i, i + Len(v) - 1) = v
<1>1. Len(v) \in Nat \ {0} /\ Len(s) \in Nat
  BY LenProperties, EmptySeq
<1>2. i \in 1..(Len(s) - Len(v) + 1) /\ \A n \in 1..Len(v) : s[i + n - 1] = v[n]
  BY DEF Occurs
<1>3. i \in 1..Len(s) /\ i + Len(v) - 1 \in i..Len(s) /\ i + Len(v) - 1 \in 1..Len(s)
  BY <1>1, <1>2
<1> DEFINE b == i + Len(v) - 1
<1>4. b - i + 1 = Len(v) /\ i <= b
  BY <1>1, <1>3
<1>5. /\ SubSeq(s, i, b) \in Seq(Tokens)
      /\ Len(SubSeq(s, i, b)) = IF i <= b THEN b - i + 1 ELSE 0
      /\ \A n \in 1..(b - i + 1) : SubSeq(s, i, b)[n] = s[i + n - 1]
  BY <1>3, Piece
<1> HIDE DEF b
<1>6. Len(SubSeq(s, i, b)) = Len(v) /\ \A n \in 1..Len(v) : SubSeq(s, i, b)[n] = v[n]
  BY <1>2, <1>4, <1>5
<1>7. SubSeq(s, i, b) = v
  BY <1>5, <1>6, SeqEqual
<1> QED
  BY <1>3, <1>7 DEF b

(* What the search finds: the first that it can follow. *)
LEMMA BracesFound ==
    ASSUME NEW s \in Seq(Tokens), NEW v \in Object, Searchable(v), NEW i \in Occurs(v, s),
           \A n \in 1..Len(s), j \in 1..Len(s) : Closes(s, n, j) => i <= n
    PROVE  Braces(s) = v
<1> DEFINE starts == {n \in 1..Len(s) : \E j \in 1..Len(s) : Closes(s, n, j)}
           first  == Min(starts)
           j0 == i + Len(v) - 1
<1>1. Braces(s) = IF starts = {} THEN <<>>
                  ELSE SubSeq(s, first, CHOOSE j \in 1..Len(s) : Closes(s, first, j))
  BY DEF Braces
<1>2. Len(v) \in Nat \ {0} /\ i \in Nat \ {0} /\ j0 \in i..Len(s) /\ Closes(s, i, j0)
  BY SearchableCloses
<1>3. Len(s) \in Nat
  BY LenProperties
<1>4. v \in Seq(Tokens) /\ v # <<>>
  BY <1>2, ObjectShape, NotEmpty
<1>5. i \in 1..Len(s) /\ SubSeq(s, i, j0) = v
  BY <1>4, StandsAt
<1> HIDE DEF j0
<1>6. j0 \in 1..Len(s)
  BY <1>2, <1>3
<1>7. i \in starts
  BY <1>2, <1>5, <1>6
<1>8. \A n \in starts : i <= n
  OBVIOUS
<1>9. starts \in SUBSET Nat
  BY <1>3
<1> HIDE DEF starts
<1>10. first \in starts /\ first <= i
  BY <1>7, <1>9, MinOf
<1>11. first = i
  <2>1. first \in Nat /\ i \in Nat /\ i <= first
    BY <1>2, <1>8, <1>9, <1>10
  <2> QED
    BY ONLY <1>10, <2>1
<1>12. (CHOOSE j \in 1..Len(s) : Closes(s, i, j)) = j0
  <2> DEFINE c == CHOOSE j \in 1..Len(s) : Closes(s, i, j)
  <2>1. c \in 1..Len(s) /\ Closes(s, i, c)
    BY <1>2, <1>6, Zenon
  <2> HIDE DEF c
  <2>2. c \in Nat /\ j0 \in Nat /\ i \in Nat
    BY <1>2, <1>6, <2>1
  <2>3. c = j0
    BY <1>2, <2>1, <2>2, ClosesOnce
  <2> QED
    BY <2>3 DEF c
<1>13. starts # {}
  BY <1>7
<1> QED
  BY <1>1, <1>5, <1>11, <1>12, <1>13, Zenon

(* an object, or a list, is no empty text *)
LEMMA Sizes ==
    \A v \in Object \cup List :
       v \in Seq(Tokens) /\ Len(v) \in Nat \ {0} /\ Len(v) >= 3 /\ v # <<>>
<1> SUFFICES ASSUME NEW v \in Object \cup List
             PROVE  v \in Seq(Tokens) /\ Len(v) \in Nat \ {0} /\ Len(v) >= 3 /\ v # <<>>
  OBVIOUS
<1>1. CASE v \in Object
  <2>1. v \in Seq(Tokens) /\ Len(v) \in Nat /\ Len(v) >= 3
    BY <1>1, ObjectShape, Zenon
  <2>2. Len(v) \in Nat \ {0}
    BY <2>1
  <2> QED
    BY <2>1, <2>2, NotEmpty
<1>2. CASE v \in List
  <2>1. v \in Seq(Tokens) /\ Len(v) = 5
    BY <1>2, ListShape, Zenon
  <2> QED
    BY <2>1, NotEmpty
<1> QED
  BY <1>1, <1>2

(* What is JSON as a whole, extract_json returns as it is. *)
LEMMA WholeIsIt ==
    ASSUME NEW v \in Object
    PROVE  WholeObject(v) = v
<1>0. v \in Seq(Tokens) /\ Len(v) \in Nat \ {0}
  BY Sizes
<1>1. v[1] = "{" /\ v[Len(v)] = "}"
  BY ObjectShape
<1>2. Len(v) \in 1..Len(v) /\ \A n \in 1..Len(v) : ~ n > Len(v)
  BY <1>0
<1>3. WholeObject(v) = SubSeq(v, 1, Len(v))
  BY <1>0, <1>1, <1>2, WholeUpTo
<1> QED
  BY <1>0, <1>3, SubSeqFull

LEMMA EmptyIsNone == Loads(<<>>) = JSONDecodeError
BY LoadsIs DEF JSONDecodeError

LEMMA TakesWhole ==
    ASSUME NEW s, NEW v \in Object, WholeObject(s) = v
    PROVE  extract_json(s) = v
BY LoadsIs, ExtractIs

LEMMA TakesFenced ==
    ASSUME NEW s, NEW v \in Object, WholeObject(s) = <<>>, FirstFenced(s) = v
    PROVE  extract_json(s) = v
BY LoadsIs, ExtractIs, EmptyIsNone

LEMMA TakesBraces ==
    ASSUME NEW s, NEW v \in Object, WholeObject(s) = <<>>, FirstFenced(s) = <<>>, Braces(s) = v
    PROVE  extract_json(s) = v
BY LoadsIs, ExtractIs, EmptyIsNone

-----------------------------------------------------------------------------
(* FoundIsOutermost *)

(* two of which the search can follow the longer do not begin at one place *)
LEMMA SamePlace ==
    ASSUME NEW s, NEW u \in Object \cup List, NEW v \in Object, Searchable(v),
           Len(v) > Len(u), NEW i \in Occurs(u, s), i \in Occurs(v, s)
    PROVE  FALSE
<1>1. Len(u) \in Nat /\ Len(u) >= 3 /\ Len(v) \in Nat /\ Len(v) > Len(u)
  BY Sizes
<1>2. u[1] = v[1] /\ u[2] = v[2]
  <2>1. 1 \in 1..Len(u) /\ 2 \in 1..Len(u) /\ 1 \in 1..Len(v) /\ 2 \in 1..Len(v)
    BY <1>1
  <2>2. /\ \A n \in 1..Len(u) : s[i + n - 1] = u[n]
        /\ \A n \in 1..Len(v) : s[i + n - 1] = v[n]
    BY DEF Occurs
  <2>3. \A n \in 1..Len(u) : n \in 1..Len(v) => u[n] = v[n]
    BY <2>2
  <2> QED
    BY <2>1, <2>3, Zenon
<1>3. u \in Object
  <2>1. v[1] = "{" /\ (u \in List => u[1] = "[")
    BY ObjectShape, ListShape
  <2> QED
    BY <1>2, <2>1
<1>4. Len(v) = 6 /\ v[2] = "key"
  <2>1. \/ Len(v) = 3
        \/ Len(v) = 6 /\ v[2] = "key"
    BY Shallow
  <2>2. \A j, k \in Nat : j >= 3 /\ k > j => k # 3
    OBVIOUS
  <2>3. Len(v) # 3
    BY <1>1, <2>2, Zenon
  <2> QED
    BY <2>1, <2>3, Zenon
<1>5. PICK depth \in 1..MaxDepth, m \in Members : u = Nested(depth, m)
  BY <1>3 DEF Object
<1>6. depth \in Nat \ {0}
  BY AnswersAssumption
<1>7. Len(u) = 3 * depth /\ u[2] = (IF depth = 1 THEN m ELSE "key")
  BY <1>5, <1>6, NestedShape
<1>8. depth = 1
  <2>1. 3 * depth < 6
    BY <1>1, <1>4, <1>7
  <2> QED
    BY <1>6, <2>1
<1>9. m = "key"
  BY <1>2, <1>4, <1>7, <1>8, Zenon
<1> QED
  BY <1>9 DEF Members

(* found by the first part: nothing is before it; by the second: a fence; *)
(* by the third: nothing the search can follow                            *)
LEMMA OutermostFound == AnswerTypes => FoundIsOutermost
<1> DEFINE found == extract_json(text)
<1> SUFFICES ASSUME text \in Seq(Tokens), found # JSONDecodeError
             PROVE  \E i \in Occurs(found, text) :
                       \A v \in Object : \A o \in Occurs(v, text) :
                          Searchable(v) /\ Len(v) > Len(found) => i \notin o..(o + Len(v) - 1)
  BY DEF AnswerTypes, FoundIsOutermost
<1>1. found \in Object \cup List
  BY FoundStands
<1>2. found # <<>>
  BY DEF JSONDecodeError
<1>3. found \in {WholeObject(text), FirstFenced(text), Braces(text)}
  BY ExtractIs
<1> HIDE DEF found
(* it begins at a, and nothing that the search could follow does earlier *)
<1>4. SUFFICES ASSUME NEW a \in Occurs(found, text),
                      \A v \in Object : \A o \in Occurs(v, text) :
                         Searchable(v) /\ a \in o..(o + Len(v) - 1) => a <= o
               PROVE  \E i \in Occurs(found, text) :
                       \A v \in Object : \A o \in Occurs(v, text) :
                          Searchable(v) /\ Len(v) > Len(found) => i \notin o..(o + Len(v) - 1)
  <2> DEFINE First(a) == \A v \in Object : \A o \in Occurs(v, text) :
                            Searchable(v) /\ a \in o..(o + Len(v) - 1) => a <= o
  <2>0. \A v \in Object : /\ v \in Seq(Tokens) /\ v # <<>> /\ Len(v) \in Nat
                          /\ \A o \in Occurs(v, text) : o \in Nat \ {0}
    BY Sizes DEF Occurs
  <2>1. CASE found = WholeObject(text)
    <3>1. PICK b \in 1..Len(text) : found = SubSeq(text, 1, b)
      BY <1>2, <2>1, WholePart
    <3>2. 1 \in 1..Len(text) /\ Len(text) \in Nat
      BY LenProperties
    <3>3. 1 \in Occurs(found, text)
      BY <1>2, <3>1, <3>2, Piece
    <3>4. First(1)
      BY <2>0
    <3> QED
      BY <3>3, <3>4, <1>4
  <2>2. CASE found = FirstFenced(text)
    <3>1. PICK a, b \in 1..Len(text) : found = SubSeq(text, a, b) /\ a > 1 /\ text[a - 1] = "fence"
      BY <1>2, <2>2, FencedPart
    <3>2. a \in Occurs(found, text)
      BY <1>2, <3>1, Piece
    <3>3. ASSUME NEW v \in Object, NEW o \in Occurs(v, text), a \in o..(o + Len(v) - 1)
          PROVE  a <= o
      <4>1. \A n \in 1..Len(v) : text[o + n - 1] = v[n]
        BY DEF Occurs
      <4>2. Len(v) \in Nat /\ o \in Nat
        BY <2>0
      <4> DEFINE n == a - o
      <4>3. o < a => n \in 1..Len(v) /\ o + n - 1 = a - 1
        BY <3>3, <4>2
      <4> HIDE DEF n
      <4>4. o < a => v[n] = "fence"
        BY <3>1, <4>1, <4>3, Zenon
      <4>5. ~ o < a
        BY <4>3, <4>4, NoFence, Zenon
      <4> QED
        BY <4>2, <4>5
    <3>4. First(a)
      BY <3>3
    <3> QED
      BY <3>2, <3>4, <1>4
  <2>3. CASE found = Braces(text)
    <3>1. PICK a, b \in 1..Len(text) : /\ found = SubSeq(text, a, b)
                                       /\ \A i, j \in 1..Len(text) : Closes(text, i, j) => a <= i
      BY <1>2, <2>3, BracesPart
    <3>2. a \in Occurs(found, text)
      BY <1>2, <3>1, Piece
    <3>3. ASSUME NEW v \in Object, NEW o \in Occurs(v, text), Searchable(v)
          PROVE  a <= o
      <4> DEFINE e == o + Len(v) - 1
      <4>1. o \in Nat \ {0} /\ e \in o..Len(text) /\ Closes(text, o, e)
        BY <3>3, SearchableCloses
      <4> HIDE DEF e
      <4>2. Len(text) \in Nat
        BY LenProperties
      <4>3. o \in 1..Len(text) /\ e \in 1..Len(text)
        BY <4>1, <4>2
      <4> QED
        BY <3>1, <4>1, <4>3
    <3>4. First(a)
      BY <3>3
    <3> QED
      BY <3>2, <3>4, <1>4
  <2> QED
    BY <1>3, <2>1, <2>2, <2>3
<1> WITNESS a \in Occurs(found, text)
<1> SUFFICES ASSUME NEW v \in Object, NEW o \in Occurs(v, text), Searchable(v),
                    Len(v) > Len(found), a \in o..(o + Len(v) - 1)
             PROVE  FALSE
  OBVIOUS
<1>5. a <= o
  BY <1>4
<1>6. a = o
  BY <1>5
<1> QED
  BY <1>1, <1>6, SamePlace

-----------------------------------------------------------------------------
(* OneObjectFound *)
LEMMA OneFound == AnswerTypes => OneObjectFound
<1> SUFFICES ASSUME text \in Seq(Tokens), NEW v \in Object,
                    Only(Fenced(v), text) \/ (Searchable(v) /\ Only(v, text))
             PROVE  extract_json(text) = v
  BY DEF AnswerTypes, OneObjectFound
<1>0. Len(text) \in Nat /\ v \in Seq(Tokens) /\ Len(v) \in Nat \ {0} /\ v # <<>>
  BY Sizes, LenProperties
<1> DEFINE fence == "fence"
           word == "word"
<1>1. CASE Only(Fenced(v), text)
  <2> DEFINE w == Fenced(v)
  <2>1. PICK i \in Occurs(w, text) :
           \A n \in (1..Len(text)) \ (i..(i + Len(w) - 1)) : text[n] = word
    BY <1>1 DEF Only
  <2>2. /\ w \in Seq(Tokens) /\ Len(w) = Len(v) + 2
        /\ w[1] = fence /\ w[Len(v) + 2] = fence
        /\ \A n \in 1..Len(v) : w[n + 1] = v[n]
    <3>1. fence \in Tokens /\ w = <<fence>> \o v \o <<fence>>
      BY DEF Tokens, Fenced
    <3> HIDE DEF fence, w
    <3> QED
      BY <1>0, <3>1, Around
  <2>3. i \in 1..(Len(text) - Len(w) + 1) /\ \A n \in 1..Len(w) : text[i + n - 1] = w[n]
    BY DEF Occurs
  <2> HIDE DEF w
  <2> DEFINE b == i + Len(v) + 1
  <2>4. i \in 1..Len(text) /\ b \in 1..Len(text) /\ i < b /\ i + Len(w) - 1 = b
    BY <1>0, <2>2, <2>3
  <2>5. \A n \in 1..Len(v) : text[i + n] = v[n]
    <3> SUFFICES ASSUME NEW n \in 1..Len(v) PROVE text[i + n] = v[n]
      OBVIOUS
    <3>1. n + 1 \in 1..Len(w) /\ i + (n + 1) - 1 = i + n
      BY <1>0, <2>2, <2>4
    <3> QED
      BY <2>2, <2>3, <3>1, Zenon
  <2>6. text[i] = fence /\ text[b] = fence
    <3>1. /\ 1 \in 1..Len(w) /\ i + 1 - 1 = i
          /\ Len(v) + 2 \in 1..Len(w) /\ i + (Len(v) + 2) - 1 = b
      BY <1>0, <2>2, <2>4
    <3> QED
      BY <2>2, <2>3, <3>1, Zenon
  <2>7. \A n \in 1..(b - 1) : text[n] = fence => n = i
    <3> SUFFICES ASSUME NEW n \in 1..(b - 1), n # i PROVE text[n] # fence
      OBVIOUS
    <3>1. CASE n < i
      <4>1. n \in (1..Len(text)) \ (i..(i + Len(w) - 1))
        BY <1>0, <2>4, <3>1
      <4> QED
        BY <2>1, <4>1
    <3>2. CASE n > i
      <4> DEFINE m == n - i
      <4>1. m \in 1..Len(v) /\ i + m = n
        BY <1>0, <2>4, <3>2
      <4> HIDE DEF m
      <4> QED
        BY <2>5, <4>1, NoFence
    <3> QED
      BY <2>4, <3>1, <3>2
  <2>8. FirstFenced(text) = SubSeq(text, i + 1, b - 1)
    <3> HIDE DEF b
    <3> QED
      BY <2>4, <2>6, <2>7, FencedIs
  <2>9. SubSeq(text, i + 1, b - 1) = v
    <3>1. i + 1 \in Occurs(v, text)
      <4>1. i + 1 \in 1..(Len(text) - Len(v) + 1)
        BY <1>0, <2>4
      <4>2. \A n \in 1..Len(v) : (i + 1) + n - 1 = i + n
        BY <1>0, <2>4
      <4> QED
        BY <2>5, <4>1, <4>2 DEF Occurs
    <3>2. (i + 1) + Len(v) - 1 = b - 1
      BY <1>0, <2>4
    <3>3. SubSeq(text, i + 1, (i + 1) + Len(v) - 1) = v
      BY <1>0, <3>1, StandsAt
    <3> QED
      BY <3>2, <3>3
  <2>10. WholeObject(text) = <<>>
    <3>1. text[1] = fence \/ text[1] = word
      <4>1. i # 1 => 1 \in (1..Len(text)) \ (i..(i + Len(w) - 1))
        BY <1>0, <2>4
      <4> QED
        BY <2>1, <2>6, <4>1
    <3>2. text[1] # "{"
      BY <3>1
    <3> QED
      BY <3>2, WholeNone
  <2> QED
    BY <2>8, <2>9, <2>10, TakesFenced
<1>2. CASE Searchable(v) /\ Only(v, text)
  <2>1. PICK i \in Occurs(v, text) :
           \A n \in (1..Len(text)) \ (i..(i + Len(v) - 1)) : text[n] = word
    BY <1>2 DEF Only
  <2> DEFINE b == i + Len(v) - 1
  <2>2. i \in 1..Len(text) /\ b \in i..Len(text) /\ SubSeq(text, i, b) = v
    BY <1>0, StandsAt
  <2>3. \A n \in 1..Len(v) : text[i + n - 1] = v[n]
    BY DEF Occurs
  <2>4. \A n \in 1..Len(text) : n < i \/ n > b => text[n] = word
    <3>1. \A n \in 1..Len(text) : n < i \/ n > b => n \in (1..Len(text)) \ (i..b)
      BY <2>2
    <3> QED
      BY <2>1, <3>1
  <2>5. CASE i = 1
    <3>1. v[1] = "{" /\ v[Len(v)] = "}"
      BY ObjectShape
    <3>2. /\ 1 \in 1..Len(v) /\ i + 1 - 1 = 1
          /\ Len(v) \in 1..Len(v) /\ b = Len(v) /\ b \in 1..Len(text) /\ i + Len(v) - 1 = b
      BY <1>0, <2>2, <2>5
    <3>3. text[1] = "{" /\ text[b] = "}"
      BY <2>3, <3>1, <3>2, Zenon
    <3>4. \A n \in 1..Len(text) : n > b => text[n] # "}"
      BY <2>4
    <3> HIDE DEF b
    <3>5. WholeObject(text) = SubSeq(text, 1, b)
      BY <3>2, <3>3, <3>4, WholeUpTo
    <3>6. WholeObject(text) = v
      BY <2>2, <2>5, <3>5
    <3> QED
      BY <3>6, TakesWhole
  <2>6. CASE i # 1
    <3>1. text[1] = word
      <4>1. 1 \in 1..Len(text) /\ 1 < i
        BY <1>0, <2>2, <2>6
      <4> QED
        BY <2>4, <4>1
    <3>2. WholeObject(text) = <<>>
      BY <3>1, WholeNone
    <3>3. FirstFenced(text) = <<>>
      <4>1. \A n \in 1..Len(text) : text[n] # fence
        <5> SUFFICES ASSUME NEW n \in 1..Len(text) PROVE text[n] # fence
          OBVIOUS
        <5>1. CASE n < i \/ n > b
          BY <2>4, <5>1
        <5>2. CASE ~ (n < i \/ n > b)
          <6> DEFINE m == n - i + 1
          <6>1. m \in 1..Len(v) /\ i + m - 1 = n
            BY <1>0, <2>2, <5>2
          <6> HIDE DEF m
          <6> QED
            BY <2>3, <6>1, NoFence
        <5> QED
          BY <5>1, <5>2
      <4> QED
        BY <4>1, FencedNone
    <3>4. Braces(text) = v
      <4>1. ASSUME NEW n \in 1..Len(text), NEW j \in 1..Len(text), Closes(text, n, j)
            PROVE  i <= n
        <5>1. text[n] \in {"{", "brace"}
          BY <4>1 DEF Closes
        <5>2. text[n] # word
          BY <5>1
        <5>3. ~ n < i
          BY <2>4, <5>2
        <5> QED
          BY <2>2, <5>3
      <4> QED
        BY <1>2, <4>1, BracesFound
    <3> QED
      BY <3>2, <3>3, <3>4, TakesBraces
  <2> QED
    BY <2>5, <2>6
<1> QED
  BY <1>1, <1>2

-----------------------------------------------------------------------------
(* ParsersAgree *)

(* an object between fences, or without either *)
LEMMA StrippedFound ==
    ASSUME NEW s \in Seq(Tokens), strip_json_fences(s) \in Object
    PROVE  \/ extract_json(s) = strip_json_fences(s)
           \/ s[1] = "fence" /\ s[Len(s)] # "fence" /\ ~Searchable(strip_json_fences(s))
<1> DEFINE v == strip_json_fences(s)
           fence == "fence"
           first == IF s # <<>> /\ s[1] = fence THEN 2 ELSE 1
           last == IF Len(s) >= first /\ s[Len(s)] = fence THEN Len(s) - 1 ELSE Len(s)
           len == Len(s)
<1>1. v = SubSeq(s, first, last)
  BY DEF strip_json_fences
<1>2. v \in Object /\ v \in Seq(Tokens) /\ Len(v) \in Nat \ {0} /\ Len(v) >= 3 /\ v # <<>>
  BY Sizes
<1>3. v[1] = "{" /\ v[Len(v)] = "}"
  BY <1>2, ObjectShape
<1>4. \A n \in 1..Len(v) : v[n] # fence
  BY <1>2, NoFence
<1>5. len \in Nat
  BY LenProperties
<1>6. /\ first \in {1, 2} /\ (first = 2 => s[1] = fence) /\ (first = 1 => s = <<>> \/ s[1] # fence)
      /\ last \in {len - 1, len}
      /\ last = len - 1 => s[len] = fence
      /\ last = len => ~ (len >= first /\ s[len] = fence)
  BY <1>5
<1> HIDE DEF v, first, last
<1>7. first <= last
  <2>1. first > last => v = <<>>
    BY <1>1, <1>5, <1>6, SubSeqEmpty
  <2> QED
    BY <1>2, <1>5, <1>6, <2>1
<1>8. first \in 1..len /\ last \in 1..len /\ 1 \in 1..len /\ len \in 1..len /\ s # <<>>
  <2>1. first \in 1..len /\ last \in 1..len /\ 1 \in 1..len /\ len \in 1..len
    BY <1>5, <1>6, <1>7
  <2> QED
    BY <1>5, <2>1, NotEmpty
<1>9. /\ Len(v) = last - first + 1
      /\ \A n \in 1..(last - first + 1) : v[n] = s[first + n - 1]
  BY <1>1, <1>7, <1>8, Piece
<1>10. s[first] = "{" /\ s[last] = "}"
  <2>1. 1 \in 1..(last - first + 1) /\ last - first + 1 \in 1..(last - first + 1)
    BY <1>5, <1>6, <1>7
  <2>2. first + 1 - 1 = first /\ first + (last - first + 1) - 1 = last
    BY <1>5, <1>6
  <2> QED
    BY <1>3, <1>9, <2>1, <2>2, Zenon
<1>11. \A n \in first..last : s[n] # fence
  <2> SUFFICES ASSUME NEW n \in first..last PROVE s[n] # fence
    OBVIOUS
  <2> DEFINE m == n - first + 1
  <2>1. m \in 1..(last - first + 1) /\ first + m - 1 = n
    BY <1>5, <1>6
  <2> HIDE DEF m
  <2> QED
    BY <1>4, <1>9, <2>1, Zenon
<1>12. CASE first = 1
  <2>1. \A n \in 1..len : n > last => s[n] # "}"
    <3>1. \A n \in 1..len : n > last => n = len /\ last = len - 1
      BY <1>5, <1>6
    <3> QED
      BY <1>6, <3>1
  <2>2. WholeObject(s) = SubSeq(s, 1, last)
    BY <1>8, <1>10, <1>12, <2>1, WholeUpTo
  <2>3. WholeObject(s) = v
    BY <1>1, <1>12, <2>2
  <2> QED
    BY <1>2, <2>3, TakesWhole DEF v
<1>13. CASE first = 2 /\ last = len - 1
  <2>1. s[1] = fence /\ s[len] = fence /\ WholeObject(s) = <<>>
    <3>1. s[1] # "{"
      BY <1>6, <1>13
    <3> QED
      BY <1>6, <1>13, <3>1, WholeNone
  <2>2. 1 < len /\ 1 + 1 = first
    BY <1>5, <1>7, <1>13
  <2>3. \A n \in 1..(len - 1) : s[n] = fence => n = 1
    <3>1. \A n \in 1..(len - 1) : n = 1 \/ n \in first..last
      BY <1>5, <1>13
    <3> QED
      BY <1>11, <3>1
  <2>4. FirstFenced(s) = SubSeq(s, 1 + 1, len - 1)
    BY <1>8, <2>1, <2>2, <2>3, FencedIs
  <2>5. FirstFenced(s) = v
    BY <1>1, <1>13, <2>2, <2>4
  <2> QED
    BY <1>2, <2>1, <2>5, TakesFenced DEF v
<1>14. CASE first = 2 /\ last = len
  <2>1. s[1] = fence /\ s[len] # fence /\ WholeObject(s) = <<>>
    <3>1. s[1] = fence /\ s[len] # fence
      BY <1>6, <1>7, <1>14
    <3>2. s[1] # "{"
      BY <3>1
    <3> QED
      BY <3>1, <3>2, WholeNone
  <2>2. SUFFICES ASSUME Searchable(v) PROVE extract_json(s) = v
    BY <2>1 DEF v
  <2>3. FirstFenced(s) = <<>>
    <3>1. \A n \in 1..len : n = 1 \/ n \in first..last
      BY <1>5, <1>14
    <3>2. \A n \in 1..len : s[n] = fence => n = 1
      BY <1>11, <3>1
    <3> QED
      BY <3>2, FencedNone
  <2>4. first \in Occurs(v, s)
    BY <1>1, <1>2, <1>8, Piece
  <2>5. ASSUME NEW n \in 1..Len(s), NEW j \in 1..Len(s), Closes(s, n, j)
        PROVE  first <= n
    <3>1. s[n] \in {"{", "brace"}
      BY <2>5 DEF Closes
    <3>2. n # 1
      BY <2>1, <3>1
    <3> QED
      BY <1>5, <1>14, <3>2
  <2>6. Braces(s) = v
    BY <1>2, <2>2, <2>4, <2>5, BracesFound
  <2> QED
    BY <1>2, <2>1, <2>3, <2>6, TakesBraces
<1> QED
  BY <1>6, <1>12, <1>13, <1>14

LEMMA ParsersMeet == AnswerTypes => ParsersAgree
<1> SUFFICES ASSUME text \in Seq(Tokens), NEW v \in {Recommended(text), Synthesized(text)},
                    v \in Object
             PROVE  \/ extract_json(text) = v
                    \/ text[1] = "fence" /\ text[Len(text)] # "fence" /\ ~Searchable(v)
  BY DEF AnswerTypes, ParsersAgree
<1>1. v # JSONDecodeError
  BY LoadsIs
<1>2. CASE v = Recommended(text)
  <2>1. v = text
    BY <1>1, <1>2, LoadsIs DEF Recommended
  <2> QED
    BY <2>1, WholeIsIt, TakesWhole
<1>3. CASE v = Synthesized(text)
  <2>1. v = strip_json_fences(text)
    BY <1>1, <1>3, LoadsIs DEF Synthesized
  <2> QED
    BY <2>1, StrippedFound
<1> QED
  BY <1>2, <1>3

-----------------------------------------------------------------------------
(* What extract_json returns stands in the answer, and within no larger      *)
(* object that its search for braces could have followed, whatever the       *)
(* answer.                                                                   *)
THEOREM FoundObjectIsOutermost == AnswerSpec => []FoundIsOutermost
BY AnswersTyped, OutermostFound, PTL

(* The one object of an answer is read: in a fence however deep it is, in    *)
(* prose as deep as the search for braces goes (extract_json).               *)
THEOREM OneObjectIsFound == AnswerSpec => []OneObjectFound
BY AnswersTyped, OneFound, PTL

(* What the plain json.loads or _strip_json_fences makes of an answer,       *)
(* extract_json makes of it too, but for a deep object after an open fence.  *)
THEOREM ParsersDoAgree == AnswerSpec => []ParsersAgree
BY AnswersTyped, ParsersMeet, PTL

(* An incident goes on without an approval only if the triage agent's        *)
(* answer has a whole object that says so itself (extract_json,              *)
(* CheckSeverity).                                                           *)
THEOREM UnattendedIsStated == AnswerSpec => []UnattendedOnlyIfStated
BY AnswersTyped, UnattendedStated, PTL
==============================================================================
