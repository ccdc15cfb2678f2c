# Verification of the EKS threat detection and response pipeline

TLA+ models of the code under `src/`, checked with TLC on small instances and, for the safety
properties, proved with TLAPS for every value of the constants. Everything is translated
from the code (`app/`, `mcp_server/`, `terraform/`); `PROJECT.json` maps each definition to its
lines.

## The system

A detection (Falco or Tetragon through SNS and SQS, GuardDuty through EventBridge) reaches the
**ingestor** Lambda, which starts one execution of a Step Functions **pipeline**. The pipeline's
agents (Lambdas that ask a language model) summarise, triage and propose; a person approves in
Slack; the **remediation agent** lets the model call tools of an **MCP server** inside the cluster;
a **synthesis** of the evidence ends the run. One DynamoDB item per incident is written by the
agents and by the **Slack bot**, which also answers the pipeline's task token and shows what the
table holds.

| component | state it keeps | operations | interacts with |
|---|---|---|---|
| ingestor and queue (`app/ingestor`, `terraform/modules/sns-sqs`) | queue, DLQ, deduplication rows, Tetragon timeline | receive, retain, deduplicate, start, redeliver, dead-letter | starts executions |
| pipeline (`terraform/modules/lambda/main.tf`) | current state, attempts, task token, `$.triage`, `$.approval` | tasks, choices, retry, catch, timeout | invokes the Lambdas |
| summary, triage, solution agents (`app/agents`) | none; the incident's item | ask, parse the answer, put or update the item, post to Slack | model, DynamoDB, Slack |
| parsing of answers (`app/shared/json_extract.py`) | none | three searches for an object | the agents |
| approval notifier, degraded notifier | none; token in the item | store the token, post the request / the alarm | DynamoDB, Slack |
| remediation agent (`app/agents/remediation`, `app/shared/mcp_client.py`) | `execution_log`, the call in hand and its attempts | tool loop, forensic guard, status update | MCP server, DynamoDB, Slack |
| MCP server (`mcp_server/server.py`) | threads, cluster, forensics bucket and manifest | 12 tools | Kubernetes, S3, Hubble, CloudWatch |
| forensic synthesis agent (`app/agents/forensic_synthesis`) | none; five artifacts per report in S3 | ask, fall back, upload one by one, update | model, S3, DynamoDB |
| Slack bot (`app/slack_bot`) | none; audit table, the item, the alert's activity section | buttons, `/atdr` commands, Home tab, modals, weekly report | Step Functions, Lambda, DynamoDB |
| incident store (`app/shared/dynamodb.py`) | the item per incident | put, update, queries, statistics | everyone |

What is hard here: threads of the MCP server that outlive the client that posted them; posts that
are repeated although the first one worked; a Lambda that dies between two writes and is run again;
a queue that redelivers while a deduplication window turns; approvals, timeouts and commands that
race for one token; writers of one item, or of one Slack message, that look at nothing; views that
are built from two reads; answers of a model that break off anywhere. `PROJECT.json` lists these
places as hazards, with the properties that cover them or the reason why none does.

What makes each component correct:

* remediation agent: nothing destructive before stored evidence; a reported URI exists; a reported
  success happened; the record is the returned result, or that of a run the task had given up; the
  task ends.
* MCP server: evicting follows cordoning; what is answered is listed.
* ingestor: deduplication loses no alert; a storm stays limited; every alert is answered.
* pipeline and bot: one decision, acted on only if in favour and audited; the status does not lie;
  nobody is left without a message; the execution ends.
* forensic synthesis: what the record names is in the bucket, in full and of one run; a success has
  left a report; the task ends.
* incident store and views: a transition that is recorded stays; mean times are possible; the
  views agree with one another on what is active, what is a P1, and what is of the week.
* the alert's activity: entries in the order of the clicks, and none lost without an overlap.
* parsing: the outermost object is found; the agents' parsers agree; an unreadable triage never
  takes the branch without approval.

## Modules

| module | what it is | code |
|---|---|---|
| `McpServer` | the server: a set of threads (records that move from API call to API call), cluster, bucket, manifest | `mcp_server/server.py` |
| `RemediationAgent` | EXTENDS it with one RemediationAgent task: tool loop, guard, client, retries, runs beside each other | `handler.py`, `tools.py`, `mcp_client.py`, Retry and Catch of the task |
| `McpClients` | EXTENDS the server with arbitrary clients | `mcp_client.py` reduced to post and leave |
| `EvidenceFirst` | abstract: evidence before damage | implemented by `RemediationAgent` |
| `Ingestor` | queue, runs of the ingestor, rows and windows | `app/ingestor/handler.py`, sns-sqs, lambda, guardduty modules |
| `AgentPipeline` | one execution, its notifiers, the record, the bot's handlers | state machine, `app/agents`, notifiers, `app/slack_bot` |
| `ApprovalGate` | abstract: one decision, acted on only if in favour | implemented by `AgentPipeline` |
| `ForensicSynthesis` | the synthesis task: its runs, retries, artifacts and record | `forensic_synthesis/handler.py`, Retry and Catch of the task |
| `IncidentRecords` | the incident table under several executions and responders, and the views read from it | `dynamodb.py`, `oncall.py`, `home.py`, `reports.py`, `modals.py`, `commands.py`, the agents' writes |
| `IncidentAlert` | the buttons and the activity section of one alert | `interactions.py`, `oncall.py` |
| `AgentAnswers` | the parsers over a text that grows, and the severity they yield | `json_extract.py`, the agents' handlers, CheckSeverity |
| `MC...` | instances for TLC, one per module that is checked | |
| `McpServerProofs` | lemmas about the server, used by the next two | |
| `McpClientsProofs`, `RemediationProofs`, `IngestorProofs`, `ForensicSynthesisProofs`, `IncidentAlertProofs`, `IncidentRecordsProofs` | theorems | |
| `AgentPipelineProofs` | theorems about `AgentPipeline` and about what its agents make of an answer, `AgentAnswers` | |

How state and actions correspond to the code:

* **Interleaving.** An action is the code between two calls that another actor can see or that can
  fail by themselves. The server's thread has a `step` per API call; the ingestor's run one of
  `check`, `start`, `return`; a bot handler one of `post`, `audit`, `send`, `order`, `mark`,
  `invoke`, `trigger`; the pipeline's tasks have `begun` where a handler writes twice; a run of the
  synthesis agent one of `ask`, `put` (once per artifact), `update`, `return`; a button of an alert
  `transition` and `post`; a view of the table is `half` between its two reads.
* **Failure.** Every external call may fail before or after it had its effect (`ToolFails`,
  `AttemptFailed`, `Fails`, `DoneInVain`, `ApprovalBreaksOff`, `RemediateBreaksOff`, `RunFails`,
  `PostFails`, `TaskFails`), a Lambda may die at any point, the MCP server may restart
  (`ServerRestarts`), and a task may lose the answer of a run that is still at work (`LoseAnswer`).
* **Retries.** `RetryTask` runs the remediation handler from its start with an empty log, and the
  synthesis handler from its question to the model, after a run that died or beside one whose answer
  was lost; what a remediation run keeps (its phase, log, call, connection) is a function of the
  run, and its late `update_incident` lands in the record like any other. A post is repeated after any `OSError` and
  leaves its old thread running; SQS redelivers when the visibility timeout is over, or earlier
  (`ReceiveTwice`).
* **Language models** answer freely: any tool on any target in any order, any severity or none, an
  incident id of their own, another execution's, or none. To the MCP server an id is one that fits
  its pattern, one that does not, or none: the last two share the bundle `adhoc`
  (`SanitizeIncidentId`). `AgentAnswers` lets the text itself grow
  piece by piece (whole and broken objects, lists, fences, prose), so that it may end anywhere.
* **Time.** The ingestor has a clock within the deduplication window; visibility and the Lambda's
  limit count down with it. The server and the synthesis agent have clocks of whole seconds,
  because their keys do. `IncidentRecords` has one of which a day is `Day` steps: stamps are taken
  before the write that carries them, and windows are cut by seconds in one place and by dates in
  another, as in the code.
* **History variables** (`effects` in McpServer, `ordered`, `reported`, `runs` in AgentPipeline,
  `stands`, `echoed`, `burst` in Ingestor, `writer` in RemediationAgent, `lost` in ForensicSynthesis,
  `told`, `overlapped` in IncidentAlert, `touched` in IncidentRecords' view) record what properties
  speak of; but for the bound on `lost` they guard nothing. (`lost` in RemediationAgent is state:
  the task goes on without the run.)

Abstractions a reader should know:

* A run's deduplication key is taken to name the window its put falls in (the code computes it just
  before).
* A direct run started by `/atdr remediate` is only counted (its payload has no `summary.body`, so
  it knows no incident id and writes no record), and is outside what `ApprovalGate` promises, which
  speaks of the pipeline's own run.
* In `AgentPipeline` a task that fails is no longer at work, though what it did may stay; runs of
  one task beside each other are the subject of `RemediationAgent` and `ForensicSynthesis`.
* `Ingestor` begins the run at the receive of its message. With two reserved runs (main.tf:126, 219)
  a message may be hidden for a while before a run is free for it; 360 = 300 + 60 seconds leave no
  slack for that, so what is shown of duplicates holds as far as that wait is negligible.
* `IncidentAlert` takes a post that is given up after three seconds (interactions.py:176) for one
  that never lands. Slack may apply it later, after the next click's; `ActivityKept` and
  `ActivityInOrder` do not speak of that case.
* `IncidentRecords` keeps the two lists of active statuses that the Home tab reads by apart
  (home.py:13, dynamodb.py:75). The third list (blocks.py:327) counts only for a store without
  `get_stats` (reports.py:33), which `IncidentStore` never is.
* The Slack webhook is configured; without one every handler skips its message.
* The state of an execution stays under the 256 KB limit of Step Functions, whose violation no
  Catch sees, and the table fits one page of a scan (1 MB).
* The bodies of messages, evidence and reports are left out. `IncidentRecords` keeps the attributes
  its views select and count by (`created_at`, `status`, `severity`, two stamps); an incident id
  stands for its place in the scan's order.
* `AgentAnswers` has objects of one member at each depth, down to `MaxDepth`; a member `brace` has a
  brace in its text, which is what misleads a search for braces. The value that stands for a
  `JSONDecodeError` is the empty text, which is no JSON.

## Runs

| run | module, cfg | checks | result |
|---|---|---|---|
| `remediation_pod` | MCRemediation, RemediationPod | TypeOK, GuardInv, EvidenceBeforeDestruction, ReportedEvidenceStored, SuccessIsReal, TaskEnds | hold |
| `remediation_overlap` | MCRemediation, RemediationOverlap | RecordMatchesResult, ImplementsEvidenceFirst | hold |
| `mcp_clients` | MCMcpClients, McpClients | EvictionAfterCordon, AnsweredEvidenceListed | hold |
| `ingestor` | MCIngestor, Ingestor | TypeOK, RowInv, NoSilentLoss, StormLimited, EveryAlertAnswered | hold |
| `agent_pipeline` | MCAgentPipeline, AgentPipeline | TypeOK, AuditedDecision, GateInv, StatusTrue, ImplementsApprovalGate, UnreportedOnlyByNotifier, ExecutionEnds | hold |
| `forensic_synthesis` | MCForensicSynthesis, ForensicSynthesis | TypeOK, RecordedReportStored, RecordedReportOfOneRun, SuccessLeavesReport, TaskEnds | hold |
| `incident_records` | MCIncidentRecords, IncidentRecords | TypeOK, MeansWithinWindow, HomeAgrees, TrendWithinTotal, SeveritiesAgree, TransitionsKept | hold |
| `incident_alert` | MCIncidentAlert, IncidentAlert | ActivityKept, ActivityInOrder | hold |
| `agent_answers` | MCAgentAnswers, AgentAnswers | FoundIsOutermost, OneObjectFound, ParsersAgree, UnattendedOnlyIfStated | hold |
| `ingestor_finding` | MCIngestor, IngestorFinding | DetectionDelivered | violated |
| `pipeline_direct` | MCAgentPipeline, PipelineDirect | DirectOnlyWhenExpired | violated |
| `incidents_filter` | MCIncidentRecords, IncidentsFilter | NoMatchMeansNone | violated |

What the passing runs show, where it is not evident from the property's comment:

* `remediation_pod` and `remediation_overlap`: with every failure, late thread, retried run and run
  beside a run, the guard means what it says: a destructive call reaches the cluster only after a capture of this task that is in the
  bucket and in the manifest. It does not mean that the capture lies under the incident's own id:
  where that does not fit the server's pattern it lies under `adhoc` (see the divergences below).
  The record is the returned result but for one case, a run that was given up and writes last.
* `mcp_clients`: the same server under clients that do not behave like the agent.
* `forensic_synthesis`: the record is written last, and that is enough for its URIs to exist even
  when runs overlap; that the artifacts are of *one* run rests on the `IntervalSeconds` of the
  task's Retry, because keys have whole seconds.
* `incident_records`: the store has no condition on any write, so records of two executions, stamps
  from before an item's creation, and items that were never put do occur; statistics and views are
  still consistent, thanks to the guard `end >= start` in `_mean_transition`, and to two lists of
  active statuses, in home.py and in `get_stats`, that happen to be the same. Writes and midnights
  fall between the two reads of a view: what was written between them may be in one read and not in the other; the properties say that
  nothing else is.
* `agent_answers`: of all texts of up to four pieces, none is read as a P3 that has no object which
  says P3.

The three violated properties are sentences of the documentation or of the code's own messages that
the code does not keep; `PROJECT.json` quotes them under findings:

1. a GuardDuty finding is processed as an event with no records: nothing happens;
2. `/atdr remediate` calls a token expired that was never stored, and invokes the agent past a
   pending approval;
3. `/atdr incidents` with a filter says that no incident matches when those that do lie beyond the
   first ten items scanned: DynamoDB's `Limit` counts what is read, not what the filter lets through.

### Known divergences, not run

The models contain these behaviours, and no property claims their absence:

* Evidence of an incident whose id, free text of a model (app/agents/summary/handler.py:45, 63), does
  not fit the server's pattern is stored under `incidents/adhoc/` without an error (server.py:44),
  against docs/04-remediation.md:94 (all evidence lies under `incidents/{incident_id}/`). The guard
  accepts it.
* A remediation run that is retried starts with an empty log: it blocks what the run before it was
  allowed to do until it has captured again (docs/04-remediation.md:82 speaks of the incident's
  log), and its record replaces the first run's `execution_log` and `evidence_uris`.
* A remediation run whose answer the task has lost goes on beside its retry, and may write its own
  record over that of the run the state machine goes on with.
* An upload whose manifest entry fails stays in the bucket and is listed nowhere, against
  docs/04-remediation.md:104 (an entry for each upload).
* Two captures of one pod within one second write one key: the manifest's hash of the first does
  not fit the object.
* Slack shows "approved" or "rejected" before the decision is recorded and sent, and
  `_process_approval` swallows a failure of either.
* A model's answer that is empty or a JSON null gives a fallback report without `parse_error`, so
  the record calls it complete (docs/03-ai-agents.md:787 wants the cause recorded).

Other observations made while modelling: the Home tab's "Total open" counts the active incidents of
the last day only; no code writes the status `open`; `pending_approval`, `remediation_approved`,
`remediation_triggered` and `remediated` count neither as active nor as resolved; the alert's buttons do not look at what
`ack_response` and its siblings return; an update of an id that was never put creates an item with
no `created_at`, which every window then includes.

### Bounds, and why they are enough

* `RemediationPod`: one pod, two runs of the Lambda (the code's number) one after the other, two turns
  of one block, two attempts per post, three requests, an incident id that fits and one that does
  not: a destructive call, a capture, a retried post of either and a second run fit; the guard has
  no counter that more turns would reach. With fairness it also shows that the task ends; a lost
  answer is left to `RemediationOverlap`, whose properties are not about ends.
* `RemediationOverlap`: two runs, of which the first may be given up while it is at work, and three
  requests of one attempt each: a capture and a drain fit into either run, or one into each. The id
  is one that does not fit, for which the promise is the less evident.
* `McpClients`: two requests at once, of any two of ten calls, one for each way a tool of the server
  goes from API call to API call, on two nodes and over two seconds (so that keys
  collide and differ). The server's threads interact through the cluster, the bucket and nothing
  else, in pairs.
* `Ingestor`: two alerts of one kind and a GuardDuty finding; a window of 2, a Lambda's limit of
  1 and a visibility timeout of 3, the smallest numbers that stand to each other as 300, 60 and
  360 do (`TimingAssumption`, with equality); two receives instead of three; concurrency 2 as
  deployed. `ReceiveTwice` makes a third run of a message possible only within `MaxReceiveCount`.
* `AgentPipeline`: two responders and two handlers, so that any two of them race, for the same
  token and the same record, with the retry counts of the deployment. The notifier has a table, so
  that the token is in the record; `PipelineDirect` takes the deployment's notifier, which has none.
* `ForensicSynthesis`: all three runs the task can have, three artifacts instead of five (a first,
  a middle and a last one), a clock that may stay or tick so that two runs share a second or not,
  and one lost answer, so that two runs are at work at once.
* `IncidentRecords`: two ids and two executions, which may share an id or not, one late handler or
  retry, and P1s the model spells `p1`, which is what the code's own upper case is about (that a
  query by `P1` finds nothing the modal does not is then left to the theorem, `SeveritiesMeet`); a day of two seconds, a week of a day and a clock from 2 to 5,
  so that the edge of the window is passed and midnights are not that edge; limits of 2, which the
  table just fits (`IncidentsFilter`: 1, which it does not). An execution whose model's answer has no
  incident id is one that stops after its put.
* `IncidentAlert`: two responders, four clicks, three entries, so that the section overflows once.
* `AgentAnswers`: objects of depth 1 to 3, the last one too deep for the regular expression; four
  pieces, of which the opening of an object and a closing brace are pieces of
  their own: a fence, an object, a fence and one thing more.

`CHECK_DEADLOCK FALSE` stands in every configuration: a task, an execution and a bounded set of
requests, alerts, clicks or pieces do come to an end. Symmetry is used in `IncidentRecords` and
`IncidentAlert`, which have no liveness property.

### Fairness

* `RemediationAgent`: weak fairness of each run of the Lambda, and of the Retry and Catch of its task.
  Lambda runs a handler to its end or its limit, and every call of the client has a timeout; of the
  server nothing is assumed, and no answer has to be lost. Nothing is assumed of the model: it may go on calling
  tools, and `max_iterations` stops it.
* `Ingestor`: the event source mapping polls, Lambda runs, time passes. No alert has to arrive and
  no run has to succeed.
* `AgentPipeline`: Step Functions goes on or times out, invoked Lambdas end. No responder has to
  do anything: the approval timeout ends the wait.
* `ForensicSynthesis`: the task goes on, and each run makes its next step or fails (Lambda's limit).
* `McpClients`, `IncidentRecords`, `IncidentAlert`, `AgentAnswers`: none; they have safety properties only.

## Proofs

Each theorem holds for every value of the constants that satisfies the ASSUMEs of its module.

* **Remediation** (`RemediationProofs`). `TypeCorrect`; `GuardHolds`
  (`Spec => []GuardInv`), `EvidenceComesFirst` (`[]EvidenceBeforeDestruction`) and
  `RefinesEvidenceFirst`. EvidenceBeforeDestruction alone is not inductive: the guard reads a log,
  the log holds replies, a reply comes from a thread, and a thread outlives the run that posted it.
  `GuardInv` carries the capture along that chain: an object exists before its manifest entry and
  the entry before the reply (`EvidenceInv`), each run's connection is its own and serves the call
  that run has in hand (`ConnectionInv`), and a reported capture or an admitted destructive call means that the evidence
  is there, in the bundle the server has for the task's id (`CaptureInv`). None of it depends on how
  many runs are at work, or on what the id is. `ReportedIsStored` (`[]ReportedEvidenceStored`) follows the same chain
  for the URIs: listed by the thread, then in the log, then in the record (`UrisInv`).
  `RecordIsTheResult` (`[]RecordMatchesResult`): of the runs whose answer was not lost only the
  task's current one is at work, so a record that is not its own was written by a lost one.
  `SuccessesAreReal` (`[]SuccessIsReal`): a success in the log is the reply of a thread for that
  very call, the connection being this run's alone, and the thread's effects are in `effects` before it replies.
* **MCP server** (`McpServerProofs`, lemmas; `McpClientsProofs`). `ClientsTypes`,
  `EvictionsFollowCordons` (`[]EvictionAfterCordon`: a thread of a drain that is past its cordon has
  made its node unschedulable) and `AnswersAreListed` (`[]AnsweredEvidenceListed`, for any number of
  requests: the manifest only grows). The lemmas about a thread's steps are shared with the agent's
  proofs.
* **Ingestor** (`IngestorProofs`). `IngestorTypes`, `RowsHold` (`[]RowInv`), `NothingLost`
  (`[]NoSilentLoss`). The argument is `OwnRow`: the message of a run that has put the window's row
  stays hidden until the window is over, because `VisibilityTimeout >= Window + LambdaTimeout`; so a
  row met at the check is another alert's, and that alert has started, is dead-lettered or will be
  tried again. With a visibility timeout below 300 + 60 seconds the theorem would be false. Excepted
  are the alerts SQS delivered early or whose put the SDK repeated (`echoed`): the code does not
  guard them. `StormsAreLimited` (`[]StormLimited`): only the run that put a window's row starts an
  execution for it (`StormInv`), and a run that is at work when a window turns is gone before that
  one turns, because `LambdaTimeout <= Window`; hence two per window at most, for any number of
  alerts and deliveries.
* **Pipeline** (`AgentPipelineProofs`). `PipelineTypes`, `TheGateHolds` (`[]GateInv`),
  `RefinesApprovalGate`, `DecisionsAudited`, `StatusNeverLies`, `NobodyLeftUnaware`
  (`UnreportedOnlyByNotifier`). `GateInv` says that the token is open in WaitForApproval only and
  that every state before has no decision, so an answer decides once; a handler that is about to
  answer has its audit entry (`AuditInv`), one that is about to write a status has seen to what it
  names (`StatusInv`), and a state from which the execution can end quietly has told Slack
  (`ReportInv`).
* **Synthesis** (`ForensicSynthesisProofs`). `SynthesisTypes`, `ReportsAreStored`,
  `ReportsAreOfOneRun`, `SuccessesLeaveReports`. A run's objects may be overwritten but never go, so
  a run that has put all of them finds a full prefix when it updates the record. For one run alone,
  the invariant orders the prefixes: while no answer was lost, each run's second is later than every
  object of the runs before it, since `RetryInterval >= 1`.
* **Alert** (`IncidentAlertProofs`). `AlertTypes`, `ActivityIsInOrder`, `ActivityIsKept`. A
  handler's copy of the message is ordered and older than its own click; without an overlap it is
  still the message when it is posted.

* **Incident table** (`IncidentRecordsProofs`). `RecordTypes`, `TransitionsStay`,
  `MeansArePossible`, `HomeTabAgrees`, `TrendIsWithin`, `SeveritiesMeet`. Every step either puts an
  item anew, updates one, or leaves the table (`TableStep`), which is what the other proofs split
  on. `PastInv`: no stamp of an item, and none that a handler or an execution still carries, is
  of the future; with the guard of `_mean_transition` every duration is then between 0 and the
  window, and `SumBounds` carries that to sums and means of any number of items. `ViewInv`
  relates the two reads of a view: what the first one kept and no write touched between them is
  still in the table, and still counted, at the second; `ActiveLists` is the fact that home.py's list
  of active statuses is within that of `get_stats`. The library's induction theorems cannot be instantiated, so
  statements about sums over a finite set are proved of a least counterexample (`LeastNumber`,
  from the well-foundedness of finite sets). The constant `None` is assumed to be no number and no
  status or severity (`RecordsNoneAssumption`): it stands for an absent attribute.
* **Answers** (`AgentPipelineProofs`). `FoundObjectIsOutermost`, `OneObjectIsFound`,
  `ParsersDoAgree`, `UnattendedIsStated`, for answers of any number of pieces and objects of any
  depth. The invariant is only `AnswerTypes`, that the answer is a text of tokens: the work is in
  the lemmas about the parsers, which hold of every such text. What each of the three parts of
  `extract_json` is, is said by its ends (`WholePart`, `FencedPart`, `BracesPart`) and, for a text
  known to have an object, by that object (`WholeUpTo`, `FencedIs`, `BracesFound`).
  `SearchableCloses` counts through the objects the regular expression can follow and shows that
  it matches where one stands, `ClosesOnce` that it matches there in one way; two objects that
  begin at one place differ within two tokens (`SamePlace`).

* **Progress** (`RemediationNeverGoesBack`, `SynthesisNeverGoesBack`, `ExecutionNeverGoesBack`).
  What the ends of the three tasks rest on beside fairness: a measure of what is left, which each
  step of the task brings down (retries and failures too) and no other step brings up. For an
  execution it is a number, at most 79; for the synthesis task the sum over the task and its three
  runs, at most `3 * LastArtifact + 15`, where `OneRunInv` is needed to know that a retry starts a
  run that was not used; for the remediation task two tuples of natural numbers in lexicographic order,
  one of the task (runs left, state) and one of each run (phase, turns, blocks, attempts), since its
  limits are constants: a step brings one of them down and none up.

Every invariant and every action property that a passing run checks is thus the statement of a
theorem. Only model-checked are the liveness properties (`TaskEnds` of both tasks,
`EveryAlertAnswered`, `ExecutionEnds`), which the prover cannot treat under
fairness.

## Not modelled

* The layout and wording of Slack messages and views, the routing of events, and Slack's request
  signature (`blocks.py`, `handler.py`, most of `modals.py` and `slack_notifier.py`): they format
  what they are given and keep no state.
* The clients of the language model, the knowledge base, secrets and configuration (`bedrock.py`,
  `knowledge_base.py`, `secrets.py`, `config.py`) and the Hubble client: one call each, which
  yields something or raises; the caller's action has both outcomes.
* Prompts, what evidence contains, the count of MITRE techniques in the statistics.
* IAM, networks, cluster and other declarative configuration; dashboards, detection rules,
  scripts, tests.

## Plan

Done: `McpServer`, `RemediationAgent`, `EvidenceFirst`, `McpClients`, `Ingestor`, `AgentPipeline`,
`ApprovalGate`, `ForensicSynthesis`, `IncidentRecords`, `IncidentAlert`, `AgentAnswers`, and the
proofs of every safety property that the passing runs check.

Left: a composition of `Ingestor` and `AgentPipeline` through the incident's record, for two
executions that name one incident, in the detail `AgentPipeline` has (`IncidentRecords` has it in
that of the table).
