--------------------------- MODULE ForensicSynthesis ---------------------------
(***************************************************************************)
(* The ForensicSynthesisAgent task of the pipeline: its runs               *)
(* (app/agents/forensic_synthesis/handler.py) with the retries of the      *)
(* state machine (terraform/modules/lambda/main.tf), the artifacts they    *)
(* put into the forensics bucket, and the incident's record, updated last. *)
(*                                                                         *)
(* Any call may fail and a run may die anywhere.  The task may also lose   *)
(* the answer of a run that is still at work, and run the agent again      *)
(* beside it.  What the report says is abstracted to whether it is the     *)
(* model's or the fallback.                                                *)
(***************************************************************************)
EXTENDS Integers, FiniteSets

CONSTANTS
    LastArtifact,   \* artifacts are put in the order 1..LastArtifact: report,
                    \* synthesis, timeline, iocs, ttps
    RetryInterval,  \* IntervalSeconds, the shortest wait before a retry
    MaxSecond,      \* bound: the clock ticks by itself up to this second
    MaxLost,        \* bound: answers the task loses
    None

ASSUME SynthesisAssumption == /\ LastArtifact \in Nat \ {0}
                              /\ RetryInterval \in Nat \ {0}
                              /\ MaxSecond \in Nat
                              /\ MaxLost \in Nat

MaxAttempts == 2
Runs        == 1..(MaxAttempts + 1)
Artifacts   == 1..LastArtifact

(* What the model's answer can be to the handler: an exception of the call, *)
(* no text, a JSON null, no JSON, a report, JSON that is no object of the   *)
(* schema (the markdown cannot be rendered), a report whose                 *)
(* executive_summary is no text (it cannot be cut to 500 characters).       *)
Answers == {"raises", "empty", "null", "no json", "report", "not rendered", "no summary"}

VARIABLES
    named,     \* the summary has an incident_id: there is a record to update
    bucket,    \* FORENSICS_BUCKET is set
    task,      \* the task: "running", "waiting" for its retry, "succeeded", "caught"
    current,   \* the run the task has asked for last
    since,     \* when that run failed, while the task waits
    runs,      \* the runs
    objects,   \* the bucket under incidents/<incident_id>/ai
    record,    \* forensic_synthesis_* of the incident's item, and who wrote it
    now,       \* the clock, in seconds
    lost       \* answers lost: a run was retried although it was at work

vars == <<named, bucket, task, current, since, runs, objects, record, now, lost>>

Steps  == {"idle", "ask", "put", "update", "return", "returned", "failed"}
Active == {"ask", "put", "update", "return"}
Run    == [step : Steps, prefix : Nat \cup {None}, put : 0..LastArtifact,
           fallback : BOOLEAN, error : BOOLEAN, summary : BOOLEAN]
Object == [at : Nat, name : Artifacts, run : Runs, fallback : BOOLEAN]
Record == [prefix : Nat \cup {None}, error : BOOLEAN, run : Runs]
ASSUME SynthesisNoneAssumption == None \notin Nat \cup Record

NoRun(step) == [step |-> step, prefix |-> None, put |-> 0,
                fallback |-> FALSE, error |-> FALSE, summary |-> FALSE]

TypeOK ==
    /\ named \in BOOLEAN
    /\ bucket \in BOOLEAN
    /\ task \in {"running", "waiting", "succeeded", "caught"}
    /\ current \in Runs
    /\ since \in Nat
    /\ runs \in [Runs -> Run]
    /\ \A r \in Runs : runs[r].step = "put" => runs[r].prefix # None /\ runs[r].put < LastArtifact
    /\ objects \subseteq Object
    /\ record \in Record \cup {None}
    /\ now \in Nat
    /\ lost \in 0..MaxLost

Init ==
    /\ named \in BOOLEAN /\ bucket \in BOOLEAN
    /\ task = "running" /\ current = 1 /\ since = 0
    /\ runs = [r \in Runs |-> NoRun(IF r = 1 THEN "ask" ELSE "idle")]
    /\ objects = {} /\ record = None
    /\ now = 0 /\ lost = 0

-----------------------------------------------------------------------------
(* A run of the handler *)

(* The fallback takes the place of a report there is none of; the error is  *)
(* kept where something was raised.                                         *)
Fallback(answer)   == answer \in {"raises", "empty", "null", "no json"}
ParseError(answer) == answer \in {"raises", "no json"}

(* The answer is parsed, the report rendered, and its prefix is the second  *)
(* it is now.                                                               *)
ReceiveAnswer(r) ==
    /\ runs[r].step = "ask"
    /\ \E answer \in Answers :
         runs' = [runs EXCEPT ![r] =
             IF answer = "not rendered"
             THEN NoRun("failed")
             ELSE [step |-> IF bucket THEN "put" ELSE "update",
                   prefix |-> IF bucket THEN now ELSE None, put |-> 0,
                   fallback |-> Fallback(answer), error |-> ParseError(answer),
                   summary |-> answer # "no summary"]]
    /\ UNCHANGED <<named, bucket, task, current, since, objects, record, now, lost>>

(* mutant: a put that fails is passed over *)
PutArtifact_Swallowed(r) ==
    /\ runs[r].step = "put"
    /\ LET n == runs[r].put + 1
           o == [at |-> runs[r].prefix, name |-> n, run |-> r, fallback |-> runs[r].fallback]
       IN  /\ objects' \in {objects,
                            {p \in objects : p.at # o.at \/ p.name # n} \cup {o}}
           /\ runs' = [runs EXCEPT ![r].put = n,
                                   ![r].step = IF n = LastArtifact THEN "update" ELSE "put"]
    /\ UNCHANGED <<named, bucket, task, current, since, record, now, lost>>

(* put_object replaces what is under the key *)
PutArtifact(r) ==
    /\ runs[r].step = "put"
    /\ LET n == runs[r].put + 1
           o == [at |-> runs[r].prefix, name |-> n, run |-> r, fallback |-> runs[r].fallback]
       IN  /\ objects' = {p \in objects : p.at # o.at \/ p.name # n} \cup {o}
           /\ runs' = [runs EXCEPT ![r].put = n,
                                   ![r].step = IF n = LastArtifact THEN "update" ELSE "put"]
    /\ UNCHANGED <<named, bucket, task, current, since, record, now, lost>>

(* mutant: an update that cannot be made is passed over *)
UpdateIncident_Swallowed(r) ==
    /\ runs[r].step = "update"
    /\ runs' = [runs EXCEPT ![r].step = "return"]
    /\ record' = IF named /\ runs[r].summary
                 THEN [prefix |-> runs[r].prefix, error |-> runs[r].error, run |-> r]
                 ELSE record
    /\ UNCHANGED <<named, bucket, task, current, since, objects, now, lost>>

UpdateIncident(r) ==
    /\ runs[r].step = "update"
    /\ IF named /\ ~runs[r].summary
       THEN runs' = [runs EXCEPT ![r] = NoRun("failed")] /\ UNCHANGED record
       ELSE /\ runs' = [runs EXCEPT ![r].step = "return"]
            /\ record' = IF named
                         THEN [prefix |-> runs[r].prefix, error |-> runs[r].error, run |-> r]
                         ELSE record
    /\ UNCHANGED <<named, bucket, task, current, since, objects, now, lost>>

(* An answer the task no longer waits for is dropped.                       *)
Return(r) ==
    /\ runs[r].step = "return"
    /\ runs' = [runs EXCEPT ![r] = NoRun("returned")]
    /\ task' = IF r = current /\ task = "running" THEN "succeeded" ELSE task
    /\ UNCHANGED <<named, bucket, current, since, objects, record, now, lost>>

(* An exception that leaves the handler, a timeout, a crash.                *)
RunFails(r) ==
    /\ runs[r].step \in Active
    /\ runs' = [runs EXCEPT ![r] = NoRun("failed")]
    /\ UNCHANGED <<named, bucket, task, current, since, objects, record, now, lost>>

-----------------------------------------------------------------------------
(* The task *)
TaskFails ==
    /\ task = "running" /\ runs[current].step = "failed"
    /\ task' = "waiting" /\ since' = now
    /\ UNCHANGED <<named, bucket, current, runs, objects, record, now, lost>>

(* The invocation fails for the task although the run goes on.              *)
LoseAnswer ==
    /\ task = "running" /\ runs[current].step \in Active
    /\ lost < MaxLost
    /\ task' = "waiting" /\ since' = now
    /\ lost' = lost + 1
    /\ UNCHANGED <<named, bucket, current, runs, objects, record, now>>

(* mutant: one retry more than MaxAttempts *)
RetryTask_OneMore ==
    /\ task = "waiting"
    /\ current' = current + 1
    /\ task' = "running"
    /\ runs' = [runs EXCEPT ![current'] = NoRun("ask")]
    /\ now' = IF now < since + RetryInterval THEN since + RetryInterval ELSE now
    /\ since' = 0
    /\ UNCHANGED <<named, bucket, objects, record, lost>>

(* mutant: the retry does not wait *)
RetryTask_AtOnce ==
    /\ task = "waiting" /\ current <= MaxAttempts
    /\ current' = current + 1
    /\ task' = "running"
    /\ runs' = [runs EXCEPT ![current'] = NoRun("ask")]
    /\ since' = 0
    /\ UNCHANGED <<named, bucket, objects, record, now, lost>>

(* mutant: the retries are not counted *)
RetryTask_Uncounted ==
    /\ task = "waiting"
    /\ current' = IF current <= MaxAttempts THEN current + 1 ELSE current
    /\ task' = "running"
    /\ runs' = [runs EXCEPT ![current'] = NoRun("ask")]
    /\ now' = now
    /\ since' = 0
    /\ UNCHANGED <<named, bucket, objects, record, lost>>

(* The clock is at least RetryInterval further when the next run starts.    *)
RetryTask ==
    /\ task = "waiting" /\ current <= MaxAttempts
    /\ current' = current + 1
    /\ task' = "running"
    /\ runs' = [runs EXCEPT ![current'] = NoRun("ask")]
    /\ now' = IF now < since + RetryInterval THEN since + RetryInterval ELSE now
    /\ since' = 0
    /\ UNCHANGED <<named, bucket, objects, record, lost>>

CatchError ==
    /\ task = "waiting" /\ current > MaxAttempts
    /\ task' = "caught" /\ since' = 0
    /\ UNCHANGED <<named, bucket, current, runs, objects, record, now, lost>>

Tick ==
    /\ now < MaxSecond
    /\ now' = now + 1
    /\ UNCHANGED <<named, bucket, task, current, since, runs, objects, record, lost>>

-----------------------------------------------------------------------------
RunStep(r) == \/ ReceiveAnswer(r) \/ PutArtifact(r) \/ UpdateIncident(r) \/ Return(r)
              \/ RunFails(r)
TaskStep   == TaskFails \/ LoseAnswer \/ RetryTask \/ CatchError

Next == TaskStep \/ Tick \/ \E r \in Runs : RunStep(r)

Spec == Init /\ [][Next]_vars

(* A Lambda returns or times out; Step Functions goes on.                   *)
Fairness == WF_vars(TaskStep) /\ \A r \in Runs : WF_vars(RunStep(r))
FairSpec == Spec /\ Fairness

-----------------------------------------------------------------------------
Stored(at) == {o \in objects : o.at = at}

(* The record is updated last: whatever run dies at which upload, and       *)
(* whichever runs overlap, each URI of forensic_synthesis_uris is that of   *)
(* an object in the bucket (_persist_artifacts before _update_incident).    *)
RecordedReportStored ==
    record # None /\ record.prefix # None =>
        {o.name : o \in Stored(record.prefix)} = Artifacts

(* The keys have whole seconds only.  As long as no run was retried while   *)
(* it was at work, the wait of the task's Retry keeps the runs apart: all   *)
(* objects the record names are of the run that wrote the record, and a     *)
(* recorded error means that they are the fallback's.                       *)
RecordedReportOfOneRun ==
    record # None /\ record.prefix # None /\ lost = 0 =>
        \A o \in Stored(record.prefix) :
            o.run = record.run /\ (record.error => o.fallback)

(* A task that succeeds has left its report (lambda_handler): in the        *)
(* record, if there is one, and under some prefix in full, if there is a    *)
(* bucket.                                                                  *)
SuccessLeavesReport ==
    task = "succeeded" =>
        /\ named => record # None
        /\ bucket => \E o \in objects : {p.name : p \in Stored(o.at)} = Artifacts

(* The task ends, whatever fails (the Retry's MaxAttempts and the Catch).   *)
TaskEnds == <>(task \in {"succeeded", "caught"})
=============================================================================
