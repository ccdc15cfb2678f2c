--------------------------- MODULE RemediationAgent ---------------------------
(***************************************************************************)
(* One RemediationAgent task of the state machine: the Lambda's tool loop  *)
(* (app/agents/remediation/handler.py), the MCP client it calls through    *)
(* (tools.py, app/shared/mcp_client.py), Step Functions' retry of the      *)
(* task, and the cluster-side server of module McpServer.                  *)
(*                                                                         *)
(* The model (LLM) is free: any tool, on any target, in any order.  A      *)
(* connection may break or time out before or after the server ran the     *)
(* tool, and the Lambda may die anywhere.  The task may also lose the      *)
(* answer of a run that is still at work, and run the agent again beside   *)
(* it: what a run keeps is a function of the run.                          *)
(***************************************************************************)
EXTENDS McpServer, Sequences

CONSTANTS
    UnknownTool,      \* a tool name outside ALLOWED_TOOLS
    MaxIterations,    \* max_iterations of lambda_handler (10)
    MaxBlocks,        \* bound: tool_use blocks in one answer of the model
    MaxAttempts,      \* attempts of McpClient._post (3)
    MaxRequests,      \* bound: requests that reach the server; later connections fail
    MaxRuns,          \* runs of the Lambda: 1 + MaxAttempts of the task's Retry (2)
    MaxLost,          \* bound: answers the task loses
    EventIds          \* the incident ids the event may carry

ASSUME BoundsAssumption == /\ MaxIterations \in Nat
                           /\ MaxBlocks \in Nat \ {0}
                           /\ MaxAttempts \in Nat \ {0}
                           /\ MaxRequests \in Nat
                           /\ MaxRuns \in Nat \ {0}
                           /\ MaxLost \in Nat
ASSUME EventIdsAssumption == EventIds \subseteq IncidentIds
ASSUME UnknownToolAssumption == UnknownTool \notin TOOLS

ALLOWED_TOOLS == TOOLS
DESTRUCTIVE_TOOLS == {"delete_pod", "apply_cilium_network_policy", "cordon_node", "drain_node"}
REQUIRED_FORENSIC_TOOLS == {"checkpoint_pod"}

Runs == 1..MaxRuns

VARIABLES
    incident,   \* summary.body.incident_id of the event
    task,       \* the task: "running", "returned" or "caught"
    current,    \* the run the task has asked for last
    lost,       \* the runs whose answer the task has lost while they were at work
    phase,      \* per run, where its Lambda is
    iteration,  \* turns it has taken
    blocks,     \* blocks executed in this turn
    log,        \* its execution_log, while it is at work or the task has it
    call,       \* the tool call it is making
    attempt,    \* attempts made of it
    conn,       \* the request on the connection it holds; 0: it holds none
    sent,       \* requests posted so far; the last one's id
    record,     \* what DynamoDB holds of the remediation
    writer      \* history: the run that wrote it; 0: none has

taskVars  == <<task, current, lost>>
runVars   == <<phase, iteration, blocks, log, call, attempt, conn>>
recordVars == <<record, writer>>
agentVars == <<incident, taskVars, runVars, sent, recordVars>>
vars == <<serverVars, agentVars>>

Working == {"invoke", "turn", "post", "wait", "update", "return"}
Phase == Working \cup {"idle", "returned", "over"}
Entry == [tool : TOOLS \cup {UnknownTool, "completion"}, target : Targets \cup {None},
          status : Status, uri : EvidenceKey \cup {None}]
Record == [status : {"triaged", "remediated"}, actions_taken : Nat, evidence_uris : SUBSET EvidenceKey]

TypeOK ==
    /\ ServerTypeOK
    /\ incident \in EventIds
    /\ task \in {"running", "returned", "caught"}
    /\ current \in Runs
    /\ lost \subseteq Runs
    /\ phase \in [Runs -> Phase]
    /\ iteration \in [Runs -> 0..MaxIterations]
    /\ blocks \in [Runs -> 0..MaxBlocks]
    /\ log \in [Runs -> Seq(Entry)]
    /\ call \in [Runs -> Calls \cup {None}]
    /\ attempt \in [Runs -> 0..MaxAttempts]
    /\ conn \in [Runs -> Nat]
    /\ \A r \in Runs : /\ phase[r] \in {"post", "wait"} => call[r] \in Calls
                       /\ phase[r] = "post" => attempt[r] < MaxAttempts
    /\ sent \in Nat
    /\ record \in Record
    /\ writer \in {0} \cup Runs

Init ==
    /\ ServerInit
    /\ incident \in EventIds
    /\ task = "running" /\ current = 1 /\ lost = {}
    /\ phase = [r \in Runs |-> IF r = 1 THEN "invoke" ELSE "idle"]
    /\ iteration = [r \in Runs |-> 0] /\ blocks = [r \in Runs |-> 0]
    /\ log = [r \in Runs |-> <<>>]
    /\ call = [r \in Runs |-> None]
    /\ attempt = [r \in Runs |-> 0] /\ conn = [r \in Runs |-> 0]
    /\ sent = 0
    /\ record = [status |-> "triaged", actions_taken |-> 0, evidence_uris |-> {}]
    /\ writer = 0

-----------------------------------------------------------------------------
(* A run of the Lambda *)
IsDestructive(c) == \/ c.tool \in DESTRUCTIVE_TOOLS
                    \/ c.tool = "patch_deployment" /\ c.replicas = 0

(* mutant: the entry's status is not looked at *)
ForensicPreconditionMet_AnyStatus(r) ==
    \A t \in REQUIRED_FORENSIC_TOOLS : \E i \in DOMAIN log[r] : log[r][i].tool = t

(* every required tool has an entry that succeeded in this run's log *)
ForensicPreconditionMet(r) ==
    \A t \in REQUIRED_FORENSIC_TOOLS :
      \E i \in DOMAIN log[r] : log[r][i].tool = t /\ log[r][i].status = "success"

Goes(r, to) == phase' = [phase EXCEPT ![r] = to]

LogEntry(r, tool, target, status, uri) ==
    log' = [log EXCEPT ![r] =
              Append(@, [tool |-> tool, target |-> target, status |-> status, uri |-> uri])]

(* The entry of the call, and on to the next block of the turn. *)
Result(r, status, uri) ==
    /\ LogEntry(r, call[r].tool, call[r].target, status, uri)
    /\ Goes(r, "turn")
    /\ call' = [call EXCEPT ![r] = None]
    /\ attempt' = [attempt EXCEPT ![r] = 0]

(* The results of a turn's blocks go back to the model. *)
Asks(r) == phase[r] = "invoke" \/ (phase[r] = "turn" /\ blocks[r] > 0)

Turns(r) == /\ Goes(r, "turn")
            /\ iteration' = [iteration EXCEPT ![r] = @ + 1]
            /\ blocks' = [blocks EXCEPT ![r] = 0]
            /\ UNCHANGED <<serverVars, incident, taskVars, log, call, attempt, conn, sent, recordVars>>

(* mutant: one turn too many *)
ModelCallsTools_OneMore(r) ==
    Asks(r) /\ iteration[r] <= MaxIterations /\ Turns(r)

(* client.invoke_with_tools: stop_reason "tool_use" *)
ModelCallsTools(r) ==
    Asks(r) /\ iteration[r] < MaxIterations /\ Turns(r)

(* any other stop_reason ends the loop with a completion entry *)
ModelStops(r) ==
    /\ Asks(r) /\ iteration[r] < MaxIterations
    /\ LogEntry(r, "completion", None, "success", None)
    /\ Goes(r, "update")
    /\ UNCHANGED <<serverVars, incident, taskVars, iteration, blocks, call, attempt, conn, sent, recordVars>>

IterationsExhausted(r) ==
    /\ Asks(r) /\ iteration[r] = MaxIterations
    /\ Goes(r, "update")
    /\ UNCHANGED <<serverVars, incident, taskVars, iteration, blocks, log, call, attempt, conn, sent, recordVars>>

(* The blocks of an answer do not depend on each other's results, so each  *)
(* is chosen when its turn comes.                                          *)
NextBlock(r) == /\ phase[r] = "turn" /\ blocks[r] < MaxBlocks
                /\ blocks' = [blocks EXCEPT ![r] = @ + 1]

BlockTool(r) ==
    /\ NextBlock(r)
    /\ \E c \in Calls :
         /\ IsDestructive(c) /\ ~ForensicPreconditionMet(r)
         /\ LogEntry(r, c.tool, c.target, "blocked", None)
    /\ UNCHANGED <<serverVars, incident, taskVars, phase, iteration, call, attempt, conn, sent, recordVars>>

RefuseUnknownTool(r) ==
    /\ NextBlock(r)
    /\ LogEntry(r, UnknownTool, None, "failed", None)
    /\ UNCHANGED <<serverVars, incident, taskVars, phase, iteration, call, attempt, conn, sent, recordVars>>

Calling(r, c) ==
    /\ NextBlock(r)
    /\ call' = [call EXCEPT ![r] = c]
    /\ attempt' = [attempt EXCEPT ![r] = 0]
    /\ Goes(r, "post")
    /\ UNCHANGED <<serverVars, incident, taskVars, iteration, log, conn, sent, recordVars>>

(* mutant: the order is left to the system prompt *)
CallTool_PromptOnly(r) == \E c \in Calls : Calling(r, c)

CallTool(r) ==
    \E c \in Calls : (IsDestructive(c) => ForensicPreconditionMet(r)) /\ Calling(r, c)

-----------------------------------------------------------------------------
(* McpClient._post: up to MaxAttempts tries; any OSError, the ten-second   *)
(* timeout included, leads to the next one, whatever the server has done.  *)
CarriesIncident(c) == IF c.tool \in EvidenceTools THEN incident ELSE "none"  \* INCIDENT_AWARE_TOOLS

Post(r) ==
    /\ phase[r] = "post"
    /\ sent < MaxRequests
    /\ sent' = sent + 1
    /\ attempt' = [attempt EXCEPT ![r] = @ + 1]
    /\ conn' = [conn EXCEPT ![r] = sent']
    /\ Request(sent', call[r], CarriesIncident(call[r]))
    /\ Goes(r, "wait")
    /\ UNCHANGED <<clusterVars, storeVars, now, effects, replies,
                   incident, taskVars, iteration, blocks, log, call, recordVars>>

(* connection.close(): what the server answers from now on is not read *)
Hangup(r) ==
    /\ open' = open \ {conn[r]}
    /\ replies' = {reply \in replies : reply.id # conn[r]}
    /\ conn' = [conn EXCEPT ![r] = 0]
    /\ UNCHANGED <<clusterVars, storeVars, threads, now, effects>>

(* mutant: no answer is taken for success, as a missing status is *)
AttemptFailed_IsSuccess(r, n) ==
    IF n < MaxAttempts
    THEN Goes(r, "post") /\ attempt' = [attempt EXCEPT ![r] = n] /\ UNCHANGED <<log, call>>
    ELSE Result(r, "success", None)

AttemptFailed(r, n) ==
    IF n < MaxAttempts
    THEN Goes(r, "post") /\ attempt' = [attempt EXCEPT ![r] = n] /\ UNCHANGED <<log, call>>
    ELSE Result(r, "failed", None)

ConnectFails(r) ==
    /\ phase[r] = "post"
    /\ AttemptFailed(r, attempt[r] + 1)
    /\ UNCHANGED <<serverVars, incident, taskVars, iteration, blocks, conn, sent, recordVars>>

(* No token, HTTP 401 or another answer that says no tool ran: no retry. *)
CallRefused(r) ==
    /\ phase[r] = "post"
    /\ Result(r, "failed", None)
    /\ UNCHANGED <<serverVars, incident, taskVars, iteration, blocks, conn, sent, recordVars>>

TimesOut(r) ==
    /\ phase[r] = "wait"
    /\ Hangup(r)
    /\ AttemptFailed(r, attempt[r])
    /\ UNCHANGED <<incident, taskVars, iteration, blocks, sent, recordVars>>

ReadReply(r) ==
    /\ phase[r] = "wait"
    /\ \E reply \in replies : reply.id = conn[r] /\ Result(r, reply.status, reply.uri)
    /\ Hangup(r)
    /\ UNCHANGED <<incident, taskVars, iteration, blocks, sent, recordVars>>

-----------------------------------------------------------------------------
EvidenceUris(r) == {log[r][i].uri : i \in DOMAIN log[r]} \ {None}
ActionsTaken(r) == Cardinality({i \in DOMAIN log[r] : log[r][i].tool # "completion"})

(* what a run writes into the incident's record *)
Written(r) == [status |-> "remediated", actions_taken |-> ActionsTaken(r),
               evidence_uris |-> EvidenceUris(r)]

(* mutant: an incident that is remediated already is not written again *)
UpdateIncidentStatus_Once(r) ==
    /\ phase[r] = "update"
    /\ IF incident # "none" /\ record.status # "remediated"
       THEN record' = Written(r) /\ writer' = r
       ELSE UNCHANGED recordVars
    /\ Goes(r, "return")
    /\ UNCHANGED <<serverVars, incident, taskVars, iteration, blocks, log, call, attempt, conn, sent>>

(* Whatever the entries say, the incident becomes "remediated". *)
UpdateIncidentStatus(r) ==
    /\ phase[r] = "update"
    /\ IF incident # "none"
       THEN record' = Written(r) /\ writer' = r
       ELSE UNCHANGED recordVars
    /\ Goes(r, "return")
    /\ UNCHANGED <<serverVars, incident, taskVars, iteration, blocks, log, call, attempt, conn, sent>>

(* What a Lambda has in memory is gone with it. *)
Ends(r) == /\ Goes(r, "over")
           /\ iteration' = [iteration EXCEPT ![r] = 0]
           /\ blocks' = [blocks EXCEPT ![r] = 0]
           /\ log' = [log EXCEPT ![r] = <<>>]
           /\ call' = [call EXCEPT ![r] = None]
           /\ attempt' = [attempt EXCEPT ![r] = 0]

(* The webhook's failure is logged and ignored. *)
Return(r) ==
    /\ phase[r] = "return"
    /\ r = current /\ r \notin lost
    /\ Goes(r, "returned")
    /\ task' = "returned"
    /\ UNCHANGED <<serverVars, incident, current, lost, iteration, blocks, log, call, attempt, conn,
                   sent, recordVars>>

(* A result the task no longer waits for is dropped. *)
ReturnInVain(r) ==
    /\ phase[r] = "return"
    /\ r # current \/ r \in lost
    /\ Ends(r)
    /\ UNCHANGED <<serverVars, incident, taskVars, conn, sent, recordVars>>

(* A Bedrock error, an exception nothing catches, or the 180 s limit. *)
LambdaFails(r) ==
    /\ phase[r] \in Working
    /\ Ends(r)
    /\ Hangup(r)
    /\ UNCHANGED <<incident, taskVars, sent, recordVars>>

-----------------------------------------------------------------------------
(* The task *)

(* The invocation fails for the task although the run goes on. *)
LoseAnswer ==
    /\ task = "running" /\ phase[current] \in Working
    /\ current \notin lost /\ Cardinality(lost) < MaxLost
    /\ lost' = lost \cup {current}
    /\ UNCHANGED <<serverVars, incident, task, current, runVars, sent, recordVars>>

RunFailed == task = "running" /\ (phase[current] = "over" \/ current \in lost)

(* mutant: the retry is not counted *)
RetryTask_Uncounted ==
    /\ RunFailed
    /\ Goes(current, "invoke")
    /\ lost' = lost \ {current}
    /\ iteration' = [iteration EXCEPT ![current] = 0]
    /\ UNCHANGED <<serverVars, incident, task, current, blocks, log, call, attempt, conn, sent, recordVars>>

(* Retry runs the handler again from its start, with an empty log. *)
RetryTask ==
    /\ RunFailed /\ current < MaxRuns
    /\ current' = current + 1
    /\ Goes(current', "invoke")
    /\ UNCHANGED <<serverVars, incident, task, lost, iteration, blocks, log, call, attempt, conn, sent, recordVars>>

(* Catch: on to ForensicSynthesisAgent without a $.remediation. *)
CatchError ==
    /\ RunFailed /\ current = MaxRuns
    /\ task' = "caught"
    /\ UNCHANGED <<serverVars, incident, current, lost, runVars, sent, recordVars>>

RunStep(r) ==
    \/ ModelCallsTools(r) \/ ModelStops(r) \/ IterationsExhausted(r)
    \/ BlockTool(r) \/ RefuseUnknownTool(r) \/ CallTool(r)
    \/ Post(r) \/ ConnectFails(r) \/ CallRefused(r) \/ TimesOut(r) \/ ReadReply(r)
    \/ UpdateIncidentStatus(r) \/ Return(r) \/ ReturnInVain(r) \/ LambdaFails(r)

TaskGoesOn == RetryTask \/ CatchError
AgentStep  == LoseAnswer \/ TaskGoesOn \/ \E r \in Runs : RunStep(r)

Next == \/ AgentStep
        \/ ServerStep /\ UNCHANGED agentVars

Spec == Init /\ [][Next]_vars

Ended == task \in {"returned", "caught"}

(* The task goes on (Lambda and Step Functions run it, every call of it    *)
(* has a timeout); that an answer is lost is not owed to anyone.           *)
Fairness == WF_vars(TaskGoesOn) /\ \A r \in Runs : WF_vars(RunStep(r))
FairSpec == Spec /\ Fairness

-----------------------------------------------------------------------------
(* A required capture of this task is in the bucket and its manifest, under *)
(* the bundle the server has for the task's incident id: that of the        *)
(* incident, or "adhoc" where the id is none or does not fit.               *)
Captured ==
    \E m \in manifest : /\ m.id \in 1..sent
                        /\ m.key.tool \in REQUIRED_FORENSIC_TOOLS
                        /\ m.key.bundle = SanitizeIncidentId(incident)
                        /\ bucket[m.key] # 0

(* Nothing destructive reaches the cluster before a checkpoint_pod of this *)
(* task is stored and listed: not by a retried request, not by a thread    *)
(* whose client gave up, not by a run beside another one of the same task  *)
(* (_forensic_precondition_met, _execute_tool).                            *)
EvidenceBeforeDestruction ==
    (\E c \in effects : IsDestructive(c)) => Captured

(* Every evidence_uri in an execution_log or in the incident's record      *)
(* names an object that exists and that the manifest lists.                *)
ReportedEvidenceStored ==
    \A uri \in (UNION {EvidenceUris(r) : r \in Runs}) \cup record.evidence_uris :
      /\ bucket[uri] # 0
      /\ \E m \in manifest : m.key = uri

(* A "success" in an execution_log is the outcome of this call and not of  *)
(* an earlier one whose connection was given up, nor of the same call of   *)
(* another run: the cluster shows it.                                      *)
(* (A "failed" proves nothing: the lost request may have run.)             *)
SuccessIsReal ==
    \A r \in Runs : \A i \in DOMAIN log[r] : log[r][i].status = "success" =>
      /\ log[r][i].tool = "delete_pod" => log[r][i].target \notin pods
      /\ log[r][i].tool = "label_pod" => log[r][i].target \in labelled
      /\ log[r][i].tool = "apply_cilium_network_policy" => log[r][i].target \in policies
      /\ log[r][i].tool \in {"cordon_node", "drain_node"} => log[r][i].target \in cordoned
      /\ log[r][i].tool \in AlwaysStores => log[r][i].uri # None

(* When the task has returned, the record is what the run wrote whose      *)
(* result the state machine goes on with, unless a run the task lost the   *)
(* answer of has written last: it is never what a run left that died       *)
(* behind its write (_update_incident_status and the task's Retry).        *)
RecordMatchesResult ==
    (task = "returned" /\ incident # "none") =>
      record = Written(current) \/ writer \in lost

(* The task ends, returned or caught, whatever the connections do.         *)
TaskEnds == <>Ended

(***************************************************************************)
(* The inductive invariant behind EvidenceBeforeDestruction.  The guard    *)
(* reads a log, the log holds replies, a reply comes from a thread, and a  *)
(* thread outlives the run that posted it: the capture has to be carried   *)
(* along that chain.                                                       *)
(***************************************************************************)

(* an object is there before its manifest entry, and the entry before the uri *)
EvidenceInv ==
    /\ \A th \in threads : th.step = "manifest" =>
         /\ th.call.tool \in EvidenceTools
         /\ th.key # None
         /\ th.key.tool = th.call.tool
         /\ th.key.bundle = SanitizeIncidentId(th.incident)
         /\ bucket[th.key] # 0
    /\ \A m \in manifest : bucket[m.key] # 0

(* each call in hand has a connection of its own, whose thread serves it *)
ConnectionInv ==
    /\ \A r \in Runs : /\ conn[r] \in 0..sent
                       /\ phase[r] # "wait" => conn[r] = 0
                       /\ \A k \in Runs \ {r} : conn[k] = conn[r] => conn[r] = 0
    /\ \A id \in open : id # 0 /\ \E r \in Runs : id = conn[r]
    /\ \A reply \in replies : reply.id # 0 /\ \E r \in Runs : reply.id = conn[r]
    /\ \A th \in threads :
         /\ th.id \in 1..sent
         /\ th.incident = CarriesIncident(th.call)
         /\ \A r \in Runs : th.id = conn[r] => th.call = call[r]

IsCapture(c, status) == c.tool \in REQUIRED_FORENSIC_TOOLS /\ status = "success"

(* a capture reported, or a destructive call let through, means Captured *)
CaptureInv ==
    \/ Captured
    \/ /\ \A r \in Runs :
            /\ \A i \in DOMAIN log[r] : ~IsCapture(log[r][i], log[r][i].status)
            /\ \A reply \in replies : reply.id = conn[r] => ~IsCapture(call[r], reply.status)
            /\ phase[r] \in {"post", "wait"} => ~IsDestructive(call[r])
       /\ \A th \in threads : ~IsDestructive(th.call)
       /\ \A c \in effects : ~IsDestructive(c)

GuardInv == EvidenceInv /\ ConnectionInv /\ CaptureInv

(* The promise, apart from how it is kept: see module EvidenceFirst.       *)
Damaged == \E c \in effects : IsDestructive(c)
EF == INSTANCE EvidenceFirst WITH captured <- Captured, damaged <- Damaged

(* The whole of it, retries, overlapping runs and lost replies included,   *)
(* implements the promise of docs/04-remediation.md:90 that forensic       *)
(* capture completes before any destructive or network-isolating step.     *)
ImplementsEvidenceFirst == EF!Spec

===============================================================================
