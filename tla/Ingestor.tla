------------------------------- MODULE Ingestor -------------------------------
(***************************************************************************)
(* How a detection becomes an execution of the state machine: the SQS      *)
(* queue behind the SNS topic (terraform/modules/sns-sqs), its event       *)
(* source mapping, and the ingestor Lambda (app/ingestor/handler.py) with  *)
(* its DynamoDB table of deduplication rows.                               *)
(*                                                                         *)
(* The handler writes the row before it starts the execution.  A run that  *)
(* dies in between is repeated when its message shows up again, and must   *)
(* not find the row it wrote itself: a row's key holds the number of a     *)
(* window of the clock, and the message stays hidden for longer.           *)
(***************************************************************************)
EXTENDS Integers, FiniteSets

CONSTANTS
    Alerts,             \* the detections
    Kind,               \* source, policy, namespace and pod of each alert
    GuardDuty,          \* the alerts EventBridge hands to the Lambda itself
    Tetragon,           \* the alerts kept in the timeline table
    Window,             \* DEDUP_WINDOW_SECONDS
    LambdaTimeout,      \* timeout of the ingestor
    VisibilityTimeout,  \* visibility_timeout_seconds of the queue
    MaxReceiveCount,    \* maxReceiveCount of the redrive policy
    Concurrency,        \* maximum_concurrency of the event source mapping
    None

ASSUME AlertsAssumption == /\ GuardDuty \subseteq Alerts
                           /\ Tetragon \subseteq Alerts \ GuardDuty
                           /\ None \notin Alerts
                           /\ DOMAIN Kind = Alerts
ASSUME NumbersAssumption == /\ Window \in Nat \ {0}
                            /\ LambdaTimeout \in Nat
                            /\ VisibilityTimeout \in Nat
                            /\ MaxReceiveCount \in Nat \ {0}
                            /\ Concurrency \in Nat \ {0}
(* 360 >= 300 + 60: what keeps a repeated run out of its own window *)
ASSUME TimingAssumption == /\ LambdaTimeout <= Window
                           /\ VisibilityTimeout >= Window + LambdaTimeout

Kinds == {Kind[a] : a \in Alerts}

VARIABLES
    clock,     \* the time within the current window
    where,     \* where each alert's message is
    receives,  \* how often it was received
    hidden,    \* how long it stays hidden
    lambdas,   \* the runs of the ingestor
    rows,      \* the current window's rows: who wrote the one of each kind
    timeline,  \* the alerts in the Tetragon timeline table
    starts,    \* executions started for each alert
    stands,    \* history: the alert whose row stands for this one
    echoed,    \* history: the alerts that may have met their own row
    burst      \* history: executions of each kind started in the window

vars == <<clock, where, receives, hidden, lambdas, rows, timeline, starts, stands, echoed, burst>>

Lambda == [alert : Alerts, receive : 1..MaxReceiveCount,
           step : {"check", "start", "return"}, left : 0..LambdaTimeout]

TypeOK ==
    /\ clock \in 0..(Window - 1)
    /\ where \in [Alerts -> {"new", "queue", "deleted", "dlq"}]
    /\ receives \in [Alerts -> 0..MaxReceiveCount]
    /\ hidden \in [Alerts -> 0..VisibilityTimeout]
    /\ lambdas \subseteq Lambda
    /\ rows \in [Kinds -> Alerts \cup {None}]
    /\ timeline \subseteq Tetragon
    /\ starts \in [Alerts -> Nat]
    /\ stands \in [Alerts -> Alerts]
    /\ echoed \subseteq Alerts
    /\ burst \in [Kinds -> Nat]

Init ==
    /\ clock \in 0..(Window - 1)
    /\ where = [a \in Alerts |-> "new"]
    /\ receives = [a \in Alerts |-> 0]
    /\ hidden = [a \in Alerts |-> 0]
    /\ lambdas = {}
    /\ rows = [k \in Kinds |-> None]
    /\ timeline = {}
    /\ starts = [a \in Alerts |-> 0]
    /\ stands = [a \in Alerts |-> a]
    /\ echoed = {}
    /\ burst = [k \in Kinds |-> 0]

-----------------------------------------------------------------------------
(* SNS puts a Falco or Tetragon event into the queue. *)
Publish(a) ==
    /\ where[a] = "new" /\ a \notin GuardDuty
    /\ where' = [where EXCEPT ![a] = "queue"]
    /\ UNCHANGED <<clock, receives, hidden, lambdas, rows, timeline, starts, stands, echoed, burst>>

(* EventBridge invokes the same handler with the finding, which has no     *)
(* "Records": nothing is processed and the run succeeds.                   *)
InvokeWithFinding(a) ==
    /\ where[a] = "new" /\ a \in GuardDuty
    /\ where' = [where EXCEPT ![a] = "deleted"]
    /\ UNCHANGED <<clock, receives, hidden, lambdas, rows, timeline, starts, stands, echoed, burst>>

-----------------------------------------------------------------------------
(* mutant: one delivery more than maxReceiveCount *)
Deliver_OneMore(a) ==
    /\ where[a] = "queue"
    /\ receives[a] <= MaxReceiveCount
    /\ Cardinality(lambdas) < Concurrency
    /\ receives' = [receives EXCEPT ![a] = @ + 1]
    /\ hidden' = [hidden EXCEPT ![a] = VisibilityTimeout]
    /\ lambdas' = lambdas \cup {[alert |-> a, receive |-> receives'[a],
                                 step |-> "check", left |-> LambdaTimeout]}

(* The run begins at the receive.  A poller that must wait for one of the   *)
(* two reserved runs to be free (main.tf:126, 219) spends of the message's  *)
(* visibility before its run does, for which 360 = 300 + 60 has no slack:   *)
(* that wait is not modelled.                                               *)
Deliver(a) ==
    /\ where[a] = "queue"
    /\ receives[a] < MaxReceiveCount
    /\ Cardinality(lambdas) < Concurrency
    /\ receives' = [receives EXCEPT ![a] = @ + 1]
    /\ hidden' = [hidden EXCEPT ![a] = VisibilityTimeout]
    /\ lambdas' = lambdas \cup {[alert |-> a, receive |-> receives'[a],
                                 step |-> "check", left |-> LambdaTimeout]}

(* mutant: the message shows up again as soon as its run has ended *)
Receive_AtOnce(a) ==
    /\ \A l \in lambdas : l.alert # a
    /\ Deliver(a)
    /\ UNCHANGED <<clock, where, rows, timeline, starts, stands, echoed, burst>>

Receive(a) ==
    /\ hidden[a] = 0
    /\ Deliver(a)
    /\ UNCHANGED <<clock, where, rows, timeline, starts, stands, echoed, burst>>

(* A standard queue may deliver a message that is still hidden. *)
ReceiveTwice(a) ==
    /\ hidden[a] > 0
    /\ Deliver(a)
    /\ echoed' = echoed \cup {a}
    /\ UNCHANGED <<clock, where, rows, timeline, starts, stands, burst>>

(* mutant: received once too often, a message is dropped *)
DeadLetter_Drops(a) ==
    /\ where[a] = "queue" /\ hidden[a] = 0
    /\ receives[a] = MaxReceiveCount
    /\ where' = [where EXCEPT ![a] = "deleted"]
    /\ UNCHANGED <<clock, receives, hidden, lambdas, rows, timeline, starts, stands, echoed, burst>>

DeadLetter(a) ==
    /\ where[a] = "queue" /\ hidden[a] = 0
    /\ receives[a] = MaxReceiveCount
    /\ where' = [where EXCEPT ![a] = "dlq"]
    /\ UNCHANGED <<clock, receives, hidden, lambdas, rows, timeline, starts, stands, echoed, burst>>

-----------------------------------------------------------------------------
(* lambda_handler, for the one record of a batch *)
GoesOn(l, step) == lambdas' = (lambdas \ {l}) \cup {[l EXCEPT !.step = step]}

(* a run that succeeds has its message deleted *)
Succeeds(l) ==
    /\ lambdas' = lambdas \ {l}
    /\ where' = [where EXCEPT ![l.alert] = IF @ = "queue" THEN "deleted" ELSE @]

(* a failed put into the timeline table is only logged *)
RetainTetragonEvent(a) ==
    timeline' \in {timeline, timeline \cup ({a} \cap Tetragon)}

(* mutant: the row is put without its condition *)
TakeRow_Unconditional(l) ==
    /\ l.step = "check"
    /\ RetainTetragonEvent(l.alert)
    /\ rows' = [rows EXCEPT ![Kind[l.alert]] = l.alert]
    /\ GoesOn(l, "start")
    /\ UNCHANGED <<clock, where, receives, hidden, starts, stands, echoed, burst>>

TakeRow(l) ==
    /\ l.step = "check"
    /\ RetainTetragonEvent(l.alert)
    /\ rows[Kind[l.alert]] = None
    /\ rows' = [rows EXCEPT ![Kind[l.alert]] = l.alert]
    /\ GoesOn(l, "start")
    /\ UNCHANGED <<clock, where, receives, hidden, starts, stands, echoed, burst>>

(* ConditionalCheckFailedException: the row of another alert of the kind   *)
(* stands for this one and for all it stood for.                           *)
Deduplicate(l) ==
    /\ l.step = "check"
    /\ RetainTetragonEvent(l.alert)
    /\ rows[Kind[l.alert]] # None
    /\ stands' = [a \in Alerts |-> IF stands[a] = l.alert THEN rows[Kind[l.alert]] ELSE stands[a]]
    /\ Succeeds(l)
    /\ UNCHANGED <<clock, receives, hidden, rows, starts, echoed, burst>>

(* The SDK repeats a put whose answer it did not get, and is told that the *)
(* row is there: the row this run has just put.                            *)
MeetOwnRow(l) ==
    /\ l.step = "check"
    /\ RetainTetragonEvent(l.alert)
    /\ rows[Kind[l.alert]] = None
    /\ rows' = [rows EXCEPT ![Kind[l.alert]] = l.alert]
    /\ echoed' = echoed \cup {l.alert}
    /\ Succeeds(l)
    /\ UNCHANGED <<clock, receives, hidden, starts, stands, burst>>

StartExecution(l) ==
    /\ l.step = "start"
    /\ starts' = [starts EXCEPT ![l.alert] = @ + 1]
    /\ burst' = [burst EXCEPT ![Kind[l.alert]] = @ + 1]
    /\ GoesOn(l, "return")
    /\ UNCHANGED <<clock, where, receives, hidden, rows, timeline, stands, echoed>>

Return(l) ==
    /\ l.step = "return"
    /\ Succeeds(l)
    /\ UNCHANGED <<clock, receives, hidden, rows, timeline, starts, stands, echoed, burst>>

(* Any other error, a crash or the time limit; a put whose error is raised *)
(* may have been made.                                                     *)
Fails(l) ==
    /\ lambdas' = lambdas \ {l}
    /\ \/ UNCHANGED <<rows, timeline>>
       \/ /\ l.step = "check"
          /\ RetainTetragonEvent(l.alert)
          /\ \/ UNCHANGED rows
             \/ /\ rows[Kind[l.alert]] = None
                /\ rows' = [rows EXCEPT ![Kind[l.alert]] = l.alert]
    /\ UNCHANGED <<clock, where, receives, hidden, starts, stands, echoed, burst>>

LambdaStep(l) == \/ TakeRow(l) \/ Deduplicate(l) \/ MeetOwnRow(l)
                 \/ StartExecution(l) \/ Return(l) \/ Fails(l)

(* Time passes, for no run beyond its limit.  The rows of a window that is *)
(* over match no key any more; their TTL of two windows keeps them longer. *)
Tick ==
    /\ \A l \in lambdas : l.left > 0
    /\ lambdas' = {[l EXCEPT !.left = @ - 1] : l \in lambdas}
    /\ hidden' = [a \in Alerts |-> IF hidden[a] > 0 THEN hidden[a] - 1 ELSE 0]
    /\ clock' = IF clock + 1 = Window THEN 0 ELSE clock + 1
    /\ rows' = IF clock' = 0 THEN [k \in Kinds |-> None] ELSE rows
    /\ burst' = IF clock' = 0 THEN [k \in Kinds |-> 0] ELSE burst
    /\ UNCHANGED <<where, receives, timeline, starts, stands, echoed>>

Arrive == \E a \in Alerts : Publish(a) \/ InvokeWithFinding(a)
Poll   == \E a \in Alerts : Receive(a) \/ DeadLetter(a)
Run    == \E l \in lambdas : LambdaStep(l)

Next == Arrive \/ Poll \/ (\E a \in Alerts : ReceiveTwice(a)) \/ Run \/ Tick

Spec == Init /\ [][Next]_vars

(* The event source mapping polls, Lambda runs what was delivered to its   *)
(* end or its limit, and time passes.  Nothing has to be detected.         *)
Fairness == WF_vars(Poll) /\ WF_vars(Run) /\ WF_vars(Tick)
FairSpec == Spec /\ Fairness

-----------------------------------------------------------------------------
Answered(a) == starts[a] > 0 \/ where[a] = "dlq"

(* Whom an alert may be left to: one that has started an execution, lies   *)
(* in the dead-letter queue, is still to be tried, or may have met its own *)
(* row.                                                                    *)
Vouches(a) == a \in echoed \/ Answered(a) \/ where[a] \in {"new", "queue"}

(* No queued alert is silently dropped: what deduplication takes out of    *)
(* the queue stands behind an alert that has started an execution, lies in *)
(* the dead-letter queue, or will be tried again -- also when the run that *)
(* wrote the row died before start_execution.  Except the alerts that may  *)
(* have met their own row.                                                 *)
NoSilentLoss == \A a \in Alerts \ GuardDuty : Vouches(stands[a])

(* Why it holds.  The message of a run that has put the window's row stays *)
(* hidden until the window is over: no run of it is still to check, or     *)
(* will be, while the row is there.                                        *)
OwnRow ==
    /\ \A l \in lambdas : l.alert \in echoed \/ hidden[l.alert] >= Window + l.left
    /\ \A l, m \in lambdas : l.alert = m.alert /\ l # m => l.alert \in echoed
    /\ \A l \in lambdas :
         rows[Kind[l.alert]] = l.alert /\ l.step = "check" => l.alert \in echoed
    /\ \A a \in Alerts : rows[Kind[a]] = a => a \in echoed \/ hidden[a] >= Window - clock

(* The inductive invariant behind NoSilentLoss: OwnRow, and whoever has a  *)
(* run or holds a row can be left the alerts the row takes from the queue. *)
RowInv ==
    /\ OwnRow
    /\ \A l \in lambdas :
         /\ l.alert \notin GuardDuty /\ Vouches(l.alert)
         /\ l.step = "return" => starts[l.alert] > 0
    /\ \A a \in Alerts : where[a] = "queue" => a \notin GuardDuty
    /\ \A k \in Kinds : rows[k] # None =>
         rows[k] \notin GuardDuty /\ Kind[rows[k]] = k /\ Vouches(rows[k])
    /\ \A a \in Alerts \ GuardDuty : stands[a] \notin GuardDuty /\ Vouches(stands[a])

(* A storm of alerts of one kind makes at most two executions a window,   *)
(* however often its messages are delivered: the one of the window's row,  *)
(* and one whose run took its row just before the window began             *)
(* (_is_duplicate, and a time limit no longer than a window).              *)
StormLimited == \A k \in Kinds : burst[k] <= 2

(* Every queued alert is answered in the end, by an execution or by the    *)
(* dead-letter queue and its alarm.                                        *)
EveryAlertAnswered ==
    \A a \in Alerts : where[a] = "queue" ~> (Answered(stands[a]) \/ stands[a] \in echoed)

-----------------------------------------------------------------------------
(* docs/11-operational-resilience.md:9: whatever else fails, a detection   *)
(* must be delivered.                                                      *)
DetectionDelivered ==
    \A a \in Alerts : where[a] = "deleted" =>
      Answered(stands[a]) \/ where[stands[a]] = "queue"
=============================================================================
