---------------------------- MODULE IngestorProofs ----------------------------
(***************************************************************************)
(* No queued alert is silently dropped, for any alerts, windows, limits    *)
(* and queues that satisfy the assumptions of Ingestor.  The invariant is  *)
(* RowInv: a message stays hidden until the window of the row its run put  *)
(* is over (OwnRow), so a row met at the check is another alert's.         *)
(***************************************************************************)
EXTENDS Ingestor, TLAPS

(* A run in hand. *)
LEMMA RunFields ==
    ASSUME TypeOK, NEW l \in lambdas
    PROVE  /\ l \in Lambda /\ l.alert \in Alerts /\ Kind[l.alert] \in Kinds
           /\ l.left \in 0..LambdaTimeout /\ l.left \in Nat
           /\ l.receive \in 1..MaxReceiveCount
           /\ l.step \in {"check", "start", "return"}
  BY NumbersAssumption DEF TypeOK, Lambda, Kinds

(* The messages, the runs and the rows keep their types. *)
LEMMA TypeStep == TypeOK /\ [Next]_vars => TypeOK'
<1> SUFFICES ASSUME TypeOK, [Next]_vars PROVE TypeOK'
    OBVIOUS
<1> USE NumbersAssumption, AlertsAssumption DEF TypeOK
<1>1. ASSUME NEW a \in Alerts, Publish(a) PROVE TypeOK'
    BY <1>1 DEF Publish
<1>2. ASSUME NEW a \in Alerts, InvokeWithFinding(a) PROVE TypeOK'
    BY <1>2 DEF InvokeWithFinding
<1>3. ASSUME NEW a \in Alerts, Deliver(a), UNCHANGED <<clock, where, rows, timeline, starts, stands, burst>>,
             echoed' \subseteq Alerts
      PROVE TypeOK'
  <2>1. receives' \in [Alerts -> 0..MaxReceiveCount] /\ receives'[a] \in 1..MaxReceiveCount
      BY <1>3 DEF Deliver
  <2>2. hidden' \in [Alerts -> 0..VisibilityTimeout]
      BY <1>3 DEF Deliver
  <2>3. lambdas' \subseteq Lambda
      BY <1>3, <2>1 DEF Deliver, Lambda
  <2> QED BY <1>3, <2>1, <2>2, <2>3
<1>4. ASSUME NEW a \in Alerts, Receive(a) PROVE TypeOK'
    BY <1>3, <1>4 DEF Receive
<1>5. ASSUME NEW a \in Alerts, ReceiveTwice(a) PROVE TypeOK'
    BY <1>3, <1>5 DEF ReceiveTwice
<1>6. ASSUME NEW a \in Alerts, DeadLetter(a) PROVE TypeOK'
    BY <1>6 DEF DeadLetter
<1>7. ASSUME NEW l \in lambdas, LambdaStep(l) PROVE TypeOK'
  <2>1. /\ l \in Lambda /\ l.alert \in Alerts /\ Kind[l.alert] \in Kinds
      BY RunFields
  <2>2. ASSUME NEW step \in {"start", "return"} PROVE [l EXCEPT !.step = step] \in Lambda
      BY <2>1 DEF Lambda
  <2>3. rows[Kind[l.alert]] # None => rows[Kind[l.alert]] \in Alerts
      BY <2>1
  <2>4. CASE TakeRow(l)
      BY <2>1, <2>2, <2>4 DEF TakeRow, GoesOn, RetainTetragonEvent
  <2>5. CASE Deduplicate(l)
      BY <2>1, <2>3, <2>5 DEF Deduplicate, Succeeds, RetainTetragonEvent
  <2>6. CASE MeetOwnRow(l)
      BY <2>1, <2>6 DEF MeetOwnRow, Succeeds, RetainTetragonEvent
  <2>7. CASE StartExecution(l)
      BY <2>1, <2>2, <2>7 DEF StartExecution, GoesOn
  <2>8. CASE Return(l)
      BY <2>1, <2>8 DEF Return, Succeeds
  <2>9. CASE Fails(l)
      BY <2>1, <2>9 DEF Fails, RetainTetragonEvent
  <2> QED BY <1>7, <2>4, <2>5, <2>6, <2>7, <2>8, <2>9 DEF LambdaStep
<1>8. ASSUME Tick PROVE TypeOK'
  <2>1. lambdas' \subseteq Lambda
    <3> SUFFICES ASSUME NEW l \in lambdas PROVE [l EXCEPT !.left = @ - 1] \in Lambda
        BY <1>8 DEF Tick
    <3> QED BY <1>8, RunFields DEF Tick, Lambda
  <2>2. clock' \in 0..(Window - 1)
      BY <1>8 DEF Tick
  <2>3. hidden' \in [Alerts -> 0..VisibilityTimeout]
      BY <1>8 DEF Tick
  <2> QED BY <1>8, <2>1, <2>2, <2>3 DEF Tick
<1>9. ASSUME UNCHANGED vars PROVE TypeOK'
    BY <1>9 DEF vars
<1> QED BY <1>1, <1>2, <1>4, <1>5, <1>6, <1>7, <1>8, <1>9 DEF Next, Arrive, Poll, Run

(* Every variable keeps its type (TypeOK). *)
THEOREM IngestorTypes == Spec => []TypeOK
<1>1. Init => TypeOK
    BY NumbersAssumption, AlertsAssumption DEF Init, TypeOK, Kinds
<1>2. TypeOK /\ [Next]_vars => TypeOK'
    BY TypeStep
<1> QED BY <1>1, <1>2, PTL DEF Spec

-----------------------------------------------------------------------------
(* Time, deliveries and runs: what OwnRow needs of each step.              *)

Typed == TypeOK /\ OwnRow

(* A message that is not hidden has no run, and no row in this window. *)
LEMMA NotHidden ==
    ASSUME Typed, NEW a \in Alerts, hidden[a] = 0, a \notin echoed
    PROVE  (\A l \in lambdas : l.alert # a) /\ rows[Kind[a]] # a
<1>1. Window \in Nat \ {0} /\ clock \in 0..(Window - 1)
    BY NumbersAssumption DEF Typed, TypeOK
<1>2. ASSUME NEW l \in lambdas, l.alert = a PROVE FALSE
    BY <1>1, <1>2, RunFields DEF Typed, OwnRow
<1>3. ASSUME rows[Kind[a]] = a PROVE FALSE
    BY <1>1, <1>3 DEF Typed, OwnRow
<1> QED BY <1>2, <1>3

(* A row taken by a run at its check is that run's own at no other check,   *)
(* and is gone before the message is back.                                  *)
LEMMA OwnRowTake ==
    ASSUME Typed, NEW l \in lambdas, l.step = "check",
           UNCHANGED <<clock, hidden>>, echoed \subseteq echoed',
           rows' = [rows EXCEPT ![Kind[l.alert]] = l.alert],
           lambdas' = lambdas \ {l} \/ GoesOn(l, "start")
    PROVE  OwnRow'
<1>1. /\ Window \in Nat \ {0} /\ clock \in 0..(Window - 1)
      /\ rows \in [Kinds -> Alerts \cup {None}]
      /\ hidden \in [Alerts -> 0..VisibilityTimeout]
    BY NumbersAssumption DEF Typed, TypeOK
<1>2. l \in Lambda /\ l.alert \in Alerts /\ Kind[l.alert] \in Kinds /\ l.left \in Nat
    BY RunFields DEF Typed
<1> DEFINE new == [l EXCEPT !.step = "start"]
<1>3. new.alert = l.alert /\ new.left = l.left /\ new.step = "start" /\ new # l
    BY <1>2 DEF Lambda
<1>4. \A m \in lambdas' : m \in lambdas \ {l} \/ m = new
    BY DEF GoesOn
<1>5. \A m \in lambdas' : m.alert \in echoed' \/ hidden'[m.alert] >= Window + m.left
    BY <1>3, <1>4 DEF Typed, OwnRow
<1>6. \A m, n \in lambdas' : m.alert = n.alert /\ m # n => m.alert \in echoed'
    BY <1>3, <1>4 DEF Typed, OwnRow
<1>7. ASSUME NEW m \in lambdas', rows'[Kind[m.alert]] = m.alert, m.step = "check"
      PROVE  m.alert \in echoed'
  <2>1. m \in lambdas \ {l}
      BY <1>3, <1>4, <1>7
  <2>2. CASE m.alert = l.alert
      BY <2>1, <2>2 DEF Typed, OwnRow
  <2>3. CASE m.alert # l.alert
    <3>1. rows[Kind[m.alert]] = m.alert
        BY <1>1, <1>2, <1>7, <2>1, <2>3, RunFields DEF Typed
    <3> QED BY <3>1, <1>7, <2>1 DEF Typed, OwnRow
  <2> QED BY <2>2, <2>3
<1>8. ASSUME NEW a \in Alerts, rows'[Kind[a]] = a
      PROVE  a \in echoed' \/ hidden'[a] >= Window - clock'
  <2>1. CASE a = l.alert
    <3>1. l.alert \in echoed \/ hidden[l.alert] >= Window + l.left
        BY DEF Typed, OwnRow
    <3> QED BY <1>1, <1>2, <2>1, <3>1
  <2>2. CASE a # l.alert
    <3>1. Kind[a] \in Kinds
        BY DEF Kinds
    <3>2. rows[Kind[a]] = a
        BY <1>1, <1>2, <1>8, <2>2, <3>1
    <3> QED BY <3>2 DEF Typed, OwnRow
  <2> QED BY <2>1, <2>2
<1> QED BY <1>5, <1>6, <1>7, <1>8 DEF OwnRow

(* A run that goes on to another step or ends leaves OwnRow alone. *)
LEMMA OwnRowGo ==
    ASSUME Typed, NEW l \in lambdas, UNCHANGED <<clock, hidden, rows>>, echoed \subseteq echoed',
           lambdas' = lambdas \ {l} \/ GoesOn(l, "return")
    PROVE  OwnRow'
<1>1. l \in Lambda
    BY RunFields DEF Typed
<1> DEFINE new == [l EXCEPT !.step = "return"]
<1>2. new.alert = l.alert /\ new.left = l.left /\ new.step = "return"
    BY <1>1 DEF Lambda
<1>3. \A m \in lambdas' : m \in lambdas \ {l} \/ m = new
    BY DEF GoesOn
<1> QED BY <1>2, <1>3 DEF Typed, OwnRow

(* A delivery: of a message that has no run and no row, or the alert counts *)
(* among the echoed ones.                                                   *)
LEMMA OwnRowDeliver ==
    ASSUME Typed, NEW a \in Alerts, Deliver(a), UNCHANGED <<clock, rows>>,
           \/ hidden[a] = 0 /\ echoed' = echoed
           \/ echoed' = echoed \cup {a}
    PROVE  OwnRow'
<1>1. /\ Window \in Nat \ {0} /\ clock \in 0..(Window - 1) /\ LambdaTimeout \in Nat
      /\ VisibilityTimeout \in Nat /\ VisibilityTimeout >= Window + LambdaTimeout
    BY NumbersAssumption, TimingAssumption DEF Typed, TypeOK
<1>2. /\ hidden \in [Alerts -> 0..VisibilityTimeout]
      /\ hidden' = [hidden EXCEPT ![a] = VisibilityTimeout]
    BY DEF Typed, TypeOK, Deliver
<1> DEFINE new == [alert |-> a, receive |-> receives'[a],
                   step |-> "check", left |-> LambdaTimeout]
<1>3. /\ lambdas' = lambdas \cup {new}
      /\ new.alert = a /\ new.step = "check" /\ new.left = LambdaTimeout
    BY DEF Deliver
<1> HIDE DEF new
<1>4. a \notin echoed' => (\A l \in lambdas : l.alert # a) /\ rows[Kind[a]] # a
    BY NotHidden
<1>5. \A m \in lambdas' : m.alert \in echoed' \/ hidden'[m.alert] >= Window + m.left
  <2> SUFFICES ASSUME NEW m \in lambdas', m.alert \notin echoed'
               PROVE  hidden'[m.alert] >= Window + m.left
      OBVIOUS
  <2>1. CASE m = new
      BY <1>1, <1>2, <1>3, <2>1
  <2>2. CASE m \in lambdas
      BY <1>2, <1>4, <2>2, RunFields DEF Typed, OwnRow
  <2> QED BY <1>3, <2>1, <2>2
<1>6. \A m, n \in lambdas' : m.alert = n.alert /\ m # n => m.alert \in echoed'
    BY <1>3, <1>4 DEF Typed, OwnRow
<1>7. \A m \in lambdas' :
        rows'[Kind[m.alert]] = m.alert /\ m.step = "check" => m.alert \in echoed'
    BY <1>3, <1>4 DEF Typed, OwnRow
<1>8. \A b \in Alerts : rows'[Kind[b]] = b => b \in echoed' \/ hidden'[b] >= Window - clock'
    BY <1>1, <1>2, <1>4 DEF Typed, OwnRow
<1> QED BY <1>5, <1>6, <1>7, <1>8 DEF OwnRow

(* Time: a message stays hidden as long as the window it was received in,   *)
(* and a new window has no rows.                                            *)
LEMMA OwnRowTick == Typed /\ Tick => OwnRow'
<1> SUFFICES ASSUME Typed, Tick PROVE OwnRow'
    OBVIOUS
<1>1. /\ Window \in Nat \ {0} /\ clock \in 0..(Window - 1)
      /\ hidden \in [Alerts -> 0..VisibilityTimeout] /\ VisibilityTimeout \in Nat
    BY NumbersAssumption DEF Typed, TypeOK
<1>2. ASSUME NEW m \in lambdas'
      PROVE  \E l \in lambdas : /\ m = [l EXCEPT !.left = @ - 1]
                                /\ m.alert = l.alert /\ m.step = l.step
                                /\ m.left = l.left - 1 /\ l.alert \in Alerts /\ l.left \in Nat
  <2>1. PICK l \in lambdas : m = [l EXCEPT !.left = @ - 1]
      BY <1>2 DEF Tick
  <2>2. l \in Lambda /\ l.alert \in Alerts /\ l.left \in Nat
      BY RunFields DEF Typed
  <2> QED BY <2>1, <2>2 DEF Lambda
<1>3. \A m \in lambdas' : m.alert \in echoed' \/ hidden'[m.alert] >= Window + m.left
  <2> SUFFICES ASSUME NEW m \in lambdas', m.alert \notin echoed'
               PROVE  hidden'[m.alert] >= Window + m.left
      OBVIOUS
  <2>1. PICK l \in lambdas : m.alert = l.alert /\ m.left = l.left - 1 /\ l.alert \in Alerts /\ l.left \in Nat
      BY <1>2
  <2>2. hidden[l.alert] >= Window + l.left
      BY <2>1 DEF Typed, OwnRow, Tick
  <2> QED BY <1>1, <2>1, <2>2 DEF Tick
<1>4. \A m, n \in lambdas' : m.alert = n.alert /\ m # n => m.alert \in echoed'
  <2> SUFFICES ASSUME NEW m \in lambdas', NEW n \in lambdas', m.alert = n.alert, m # n
               PROVE  m.alert \in echoed'
      OBVIOUS
  <2>1. PICK l \in lambdas : m = [l EXCEPT !.left = @ - 1] /\ m.alert = l.alert
      BY <1>2
  <2>2. PICK k \in lambdas : n = [k EXCEPT !.left = @ - 1] /\ n.alert = k.alert
      BY <1>2
  <2> QED BY <2>1, <2>2 DEF Typed, OwnRow, Tick
<1>5. \A m \in lambdas' :
        rows'[Kind[m.alert]] = m.alert /\ m.step = "check" => m.alert \in echoed'
  <2> SUFFICES ASSUME NEW m \in lambdas', rows'[Kind[m.alert]] = m.alert, m.step = "check"
               PROVE  m.alert \in echoed'
      OBVIOUS
  <2>1. PICK l \in lambdas : m.alert = l.alert /\ m.step = l.step /\ l.alert \in Alerts
      BY <1>2
  <2>2. Kind[l.alert] \in Kinds
      BY <2>1 DEF Kinds
  <2>3. rows' = rows
      BY <2>1, <2>2, AlertsAssumption DEF Tick
  <2> QED BY <2>1, <2>3 DEF Typed, OwnRow, Tick
<1>6. \A a \in Alerts : rows'[Kind[a]] = a => a \in echoed' \/ hidden'[a] >= Window - clock'
  <2> SUFFICES ASSUME NEW a \in Alerts, rows'[Kind[a]] = a, a \notin echoed'
               PROVE  hidden'[a] >= Window - clock'
      OBVIOUS
  <2>1. Kind[a] \in Kinds
      BY DEF Kinds
  <2>2. clock' # 0 /\ rows' = rows
      BY <2>1, AlertsAssumption DEF Tick
  <2>3. clock' = clock + 1
      BY <2>2 DEF Tick
  <2>4. hidden[a] >= Window - clock
      BY <2>2 DEF Typed, OwnRow, Tick
  <2> QED BY <1>1, <2>3, <2>4 DEF Tick
<1> QED BY <1>3, <1>4, <1>5, <1>6 DEF OwnRow

(* OwnRow is kept by every step. *)
LEMMA OwnRowStep == Typed /\ [Next]_vars => OwnRow'
<1> SUFFICES ASSUME Typed, [Next]_vars PROVE OwnRow'
    OBVIOUS
<1>1. ASSUME UNCHANGED <<clock, hidden, rows, lambdas, echoed>> PROVE OwnRow'
    BY <1>1 DEF Typed, OwnRow
<1>2. ASSUME NEW a \in Alerts, Publish(a) \/ InvokeWithFinding(a) \/ DeadLetter(a) PROVE OwnRow'
    BY <1>1, <1>2 DEF Publish, InvokeWithFinding, DeadLetter
<1>3. ASSUME NEW a \in Alerts, Receive(a) \/ ReceiveTwice(a) PROVE OwnRow'
    BY <1>3, OwnRowDeliver DEF Receive, ReceiveTwice
<1>4. ASSUME NEW l \in lambdas, LambdaStep(l) PROVE OwnRow'
  <2>1. CASE TakeRow(l) \/ MeetOwnRow(l)
      BY <2>1, OwnRowTake DEF TakeRow, MeetOwnRow, Succeeds
  <2>2. CASE Deduplicate(l) \/ StartExecution(l) \/ Return(l)
      BY <2>2, OwnRowGo DEF Deduplicate, StartExecution, Return, Succeeds
  <2>3. CASE Fails(l)
      BY <2>3, OwnRowTake, OwnRowGo DEF Fails
  <2> QED BY <1>4, <2>1, <2>2, <2>3 DEF LambdaStep
<1>5. ASSUME Tick PROVE OwnRow'
    BY <1>5, OwnRowTick
<1> QED BY <1>1, <1>2, <1>3, <1>4, <1>5 DEF Next, Arrive, Poll, Run, vars

-----------------------------------------------------------------------------
(* Whoever can be left an alert before a step can be left it after, unless *)
(* it is itself deduplicated.                                              *)
LEMMA StillVouches ==
    ASSUME TypeOK, RowInv, NEW a \in Alerts, a \notin GuardDuty, Vouches(a), [Next]_vars,
           \A l \in lambdas : Deduplicate(l) => l.alert # a
    PROVE  Vouches(a)'
<1> USE DEF TypeOK, Vouches, Answered
<1>1. ASSUME NEW b \in Alerts, Publish(b) \/ InvokeWithFinding(b) \/ DeadLetter(b) PROVE Vouches(a)'
    BY <1>1 DEF Publish, InvokeWithFinding, DeadLetter
<1>2. ASSUME NEW b \in Alerts, Receive(b) \/ ReceiveTwice(b) PROVE Vouches(a)'
    BY <1>2 DEF Receive, ReceiveTwice, Deliver
<1>3. ASSUME NEW l \in lambdas, LambdaStep(l) PROVE Vouches(a)'
  <2>1. l.alert \in Alerts
      BY RunFields
  <2>2. CASE TakeRow(l) \/ Fails(l)
      BY <2>2 DEF TakeRow, Fails
  <2>3. CASE Deduplicate(l)
      BY <2>1, <2>3 DEF Deduplicate, Succeeds
  <2>4. CASE MeetOwnRow(l)
      BY <2>1, <2>4 DEF MeetOwnRow, Succeeds
  <2>5. CASE StartExecution(l)
      BY <2>1, <2>5 DEF StartExecution
  <2>6. CASE Return(l)
      BY <2>1, <2>6 DEF Return, Succeeds, RowInv
  <2> QED BY <1>3, <2>2, <2>3, <2>4, <2>5, <2>6 DEF LambdaStep
<1>4. ASSUME Tick PROVE Vouches(a)'
    BY <1>4 DEF Tick
<1> QED BY <1>1, <1>2, <1>3, <1>4 DEF Next, Arrive, Poll, Run, vars

(* The row a deduplicated run meets is another alert's, or the run's own    *)
(* and the alert may have been echoed.                                      *)
LEMMA DeduplicateKeeps ==
    ASSUME TypeOK, RowInv, NEW l \in lambdas, Deduplicate(l), [Next]_vars
    PROVE  /\ \A k \in Kinds : rows[k] # None => Vouches(rows[k])'
           /\ \A a \in Alerts \ GuardDuty : (stands[a] \notin GuardDuty /\ Vouches(stands[a]))'
<1>1. l \in Lambda /\ l.alert \in Alerts /\ Kind[l.alert] \in Kinds
    BY RunFields
<1> PICK r : r = rows[Kind[l.alert]]
    OBVIOUS
<1>2. r \in Alerts \ GuardDuty /\ Kind[r] = Kind[l.alert] /\ Vouches(r)
    BY <1>1 DEF Deduplicate, RowInv, TypeOK
<1>3. ASSUME NEW a \in Alerts \ GuardDuty, Vouches(a), a # l.alert \/ a \in echoed
      PROVE  Vouches(a)'
    BY <1>1, <1>3 DEF Deduplicate, Succeeds, Vouches, Answered, TypeOK
<1>4. r = l.alert => r \in echoed
    BY <1>1 DEF Deduplicate, RowInv, OwnRow
<1>5. ASSUME NEW k \in Kinds, rows[k] # None PROVE Vouches(rows[k])'
  <2>1. rows[k] \in Alerts \ GuardDuty /\ Kind[rows[k]] = k /\ Vouches(rows[k])
      BY <1>5 DEF RowInv, TypeOK
  <2>2. rows[k] = l.alert => k = Kind[l.alert]
      BY <2>1
  <2>3. rows' = rows
      BY DEF Deduplicate
  <2>4. rows[k] # l.alert \/ rows[k] \in echoed
      BY <1>4, <2>2
  <2> QED BY <1>3, <2>1, <2>3, <2>4 DEF Vouches, Answered
<1>6. ASSUME NEW a \in Alerts \ GuardDuty 
      PROVE  (stands[a] \notin GuardDuty /\ Vouches(stands[a]))'
  <2>1. stands[a] \in Alerts \ GuardDuty /\ Vouches(stands[a])
      BY DEF RowInv, TypeOK
  <2>2. stands'[a] = IF stands[a] = l.alert THEN r ELSE stands[a]
      BY DEF Deduplicate, TypeOK
  <2>3. Vouches(r)'
      BY <1>2, <1>3, <1>4
  <2>4. CASE stands[a] = l.alert
      BY <1>2, <2>2, <2>3, <2>4
  <2>5. CASE stands[a] # l.alert
      BY <1>3, <2>1, <2>2, <2>5
  <2> QED BY <2>4, <2>5
<1> QED BY <1>5, <1>6

(* The runs and the queue hold no GuardDuty finding, and a run returns only *)
(* after its execution has started.                                         *)
LEMMA RunStep ==
    ASSUME TypeOK, RowInv, [Next]_vars
    PROVE  /\ \A l \in lambdas' :
                l.alert \notin GuardDuty /\ (l.step = "return" => starts'[l.alert] > 0)
           /\ \A a \in Alerts : where'[a] = "queue" => a \notin GuardDuty
<1> DEFINE Goal ==
      /\ \A l \in lambdas' :
           l.alert \notin GuardDuty /\ (l.step = "return" => starts'[l.alert] > 0)
      /\ \A a \in Alerts : where'[a] = "queue" => a \notin GuardDuty
<1> USE DEF RowInv, TypeOK
<1>1. ASSUME NEW a \in Alerts, Publish(a) \/ InvokeWithFinding(a) \/ DeadLetter(a) PROVE Goal
    BY <1>1 DEF Publish, InvokeWithFinding, DeadLetter
<1>2. ASSUME NEW a \in Alerts, Receive(a) \/ ReceiveTwice(a) PROVE Goal
    BY <1>2 DEF Receive, ReceiveTwice, Deliver
<1>3. ASSUME NEW l \in lambdas, LambdaStep(l) PROVE Goal
  <2>1. l \in Lambda /\ l.alert \in Alerts /\ l.alert \notin GuardDuty
      BY RunFields
  <2>2. \A step : [l EXCEPT !.step = step].alert = l.alert /\ [l EXCEPT !.step = step].step = step
      BY <2>1 DEF Lambda
  <2>3. CASE TakeRow(l)
      BY <2>1, <2>2, <2>3 DEF TakeRow, GoesOn
  <2>4. CASE Deduplicate(l) \/ MeetOwnRow(l) \/ Return(l)
      BY <2>1, <2>4 DEF Deduplicate, MeetOwnRow, Return, Succeeds
  <2>5. CASE StartExecution(l)
    <3>1. \A a \in Alerts : starts[a] > 0 => starts'[a] > 0
        BY <2>1, <2>5 DEF StartExecution
    <3>2. starts'[l.alert] > 0
        BY <2>1, <2>5 DEF StartExecution
    <3>3. \A m \in lambdas' : m \in lambdas \/ m.alert = l.alert
        BY <2>2, <2>5 DEF StartExecution, GoesOn
    <3> QED BY <2>1, <2>5, <3>1, <3>2, <3>3, RunFields DEF StartExecution
  <2>6. CASE Fails(l)
      BY <2>6 DEF Fails
  <2> QED BY <1>3, <2>3, <2>4, <2>5, <2>6 DEF LambdaStep
<1>4. ASSUME Tick PROVE Goal
  <2> SUFFICES ASSUME NEW m \in lambdas'
               PROVE  m.alert \notin GuardDuty /\ (m.step = "return" => starts'[m.alert] > 0)
      BY <1>4 DEF Tick
  <2>1. PICK l \in lambdas : m = [l EXCEPT !.left = @ - 1]
      BY <1>4 DEF Tick
  <2>2. m.alert = l.alert /\ m.step = l.step
      BY <2>1, RunFields DEF Lambda
  <2> QED BY <1>4, <2>2 DEF Tick
<1>5. CASE UNCHANGED vars
    BY <1>5 DEF vars
<1> QED BY <1>1, <1>2, <1>3, <1>4, <1>5 DEF Next, Arrive, Poll, Run

(* Whoever has a run can still be left an alert. *)
LEMMA RunsVouch ==
    ASSUME TypeOK, RowInv, [Next]_vars
    PROVE  \A l \in lambdas' : Vouches(l.alert)'
<1> SUFFICES ASSUME NEW m, m \in lambdas' PROVE Vouches(m.alert)'
    OBVIOUS
<1>1. CASE \E l \in lambdas : l.alert = m.alert
  <2>1. PICK l \in lambdas : l.alert = m.alert
      BY <1>1
  <2>2. l.alert \in Alerts /\ l.alert \notin GuardDuty /\ Vouches(l.alert)
      BY <2>1, RunFields DEF RowInv
  <2>3. CASE \A k \in lambdas : Deduplicate(k) => k.alert # m.alert
      BY <2>1, <2>2, <2>3, StillVouches
  <2>4. CASE \E k \in lambdas : Deduplicate(k) /\ k.alert = m.alert
    <3>1. PICK k \in lambdas : Deduplicate(k) /\ k.alert = m.alert
        BY <2>4
    <3>2. m \in lambdas \ {k} /\ echoed' = echoed
        BY <3>1 DEF Deduplicate, Succeeds
    <3>3. m.alert \in echoed
        BY <3>1, <3>2 DEF RowInv, OwnRow
    <3> QED BY <3>2, <3>3 DEF Vouches
  <2> QED BY <2>3, <2>4
<1>2. CASE \A l \in lambdas : l.alert # m.alert
  <2>1. ASSUME NEW a \in Alerts, Deliver(a), UNCHANGED where PROVE Vouches(m.alert)'
    <3>1. m.alert = a
        BY <1>2, <2>1 DEF Deliver
    <3> QED BY <2>1, <3>1 DEF Deliver, Vouches
  <2>2. ASSUME NEW l \in lambdas, LambdaStep(l) PROVE FALSE
    <3>1. \A step : [l EXCEPT !.step = step].alert = l.alert
        BY RunFields DEF Lambda
    <3> QED BY <1>2, <2>2, <3>1 DEF LambdaStep, TakeRow, Deduplicate, MeetOwnRow, StartExecution,
                                    Return, Fails, GoesOn, Succeeds
  <2>3. ASSUME Tick PROVE FALSE
    <3>1. PICK l \in lambdas : m = [l EXCEPT !.left = @ - 1]
        BY <2>3 DEF Tick
    <3>2. m.alert = l.alert
        BY <3>1, RunFields DEF Lambda
    <3> QED BY <1>2, <3>2
  <2>4. ASSUME UNCHANGED lambdas PROVE FALSE
      BY <1>2, <2>4
  <2> QED BY <2>1, <2>2, <2>3, <2>4 DEF Next, Arrive, Poll, Run, Publish, InvokeWithFinding,
                                        DeadLetter, Receive, ReceiveTwice, vars
<1> QED BY <1>1, <1>2

(* A step that deduplicates nothing moves no alert to another one, and puts *)
(* only rows of alerts that are still in the queue.                         *)
LEMMA OthersKeep ==
    ASSUME TypeOK, RowInv, [Next]_vars, \A l \in lambdas : ~Deduplicate(l)
    PROVE  /\ stands' = stands
           /\ \A k \in Kinds : rows'[k] \in {rows[k], None}
                \/ (\E l \in lambdas : /\ l.alert \in Alerts /\ k = Kind[l.alert] /\ rows'[k] = l.alert
                                       /\ Vouches(l.alert)')
<1> USE AlertsAssumption DEF TypeOK
<1> DEFINE Put(l, k) == /\ l.alert \in Alerts /\ k = Kind[l.alert] /\ rows'[k] = l.alert
                        /\ Vouches(l.alert)'
<1> DEFINE Goal == /\ stands' = stands
                   /\ \A k \in Kinds : rows'[k] \in {rows[k], None} \/ (\E l \in lambdas : Put(l, k))
<1>1. ASSUME UNCHANGED <<rows, stands>> PROVE Goal
    BY <1>1
<1>2. ASSUME NEW a \in Alerts, \/ Publish(a) \/ InvokeWithFinding(a) \/ DeadLetter(a)
                               \/ Receive(a) \/ ReceiveTwice(a)
      PROVE Goal
    BY <1>1, <1>2 DEF Publish, InvokeWithFinding, DeadLetter, Receive, ReceiveTwice
<1>3. ASSUME NEW l \in lambdas, LambdaStep(l) PROVE Goal
  <2>1. l.alert \in Alerts /\ Kind[l.alert] \in Kinds
      BY RunFields
  <2>2. CASE StartExecution(l) \/ Return(l)
      BY <1>1, <2>2 DEF StartExecution, Return
  <2>3. CASE TakeRow(l) \/ MeetOwnRow(l) \/ Fails(l)
    <3>1. \A k \in Kinds : rows'[k] = rows[k] \/ (k = Kind[l.alert] /\ rows'[k] = l.alert)
        BY <2>1, <2>3 DEF TakeRow, MeetOwnRow, Fails
    <3>2. stands' = stands
        BY <2>3 DEF TakeRow, MeetOwnRow, Fails
    <3>3. Vouches(l.alert)'
        BY <2>1, <2>3 DEF TakeRow, MeetOwnRow, Fails, Vouches, Answered, RowInv
    <3> QED BY <2>1, <3>1, <3>2, <3>3
  <2> QED BY <1>3, <2>2, <2>3 DEF LambdaStep
<1>4. ASSUME Tick PROVE Goal
    BY <1>4 DEF Tick
<1> QED BY <1>1, <1>2, <1>3, <1>4 DEF Next, Arrive, Poll, Run, vars

(* RowInv is inductive. *)
LEMMA RowStep == TypeOK /\ RowInv /\ [Next]_vars => RowInv'
<1> SUFFICES ASSUME TypeOK, RowInv, [Next]_vars PROVE RowInv'
    OBVIOUS
<1>1. OwnRow'
    BY OwnRowStep DEF Typed, RowInv
<1>2. CASE \E l \in lambdas : Deduplicate(l)
  <2>1. PICK l \in lambdas : Deduplicate(l)
      BY <1>2
  <2>2. rows' = rows
      BY <2>1 DEF Deduplicate
  <2> QED BY <1>1, <2>1, <2>2, DeduplicateKeeps, RunStep, RunsVouch DEF RowInv
<1>3. CASE \A l \in lambdas : ~Deduplicate(l)
  <2>1. \A a \in Alerts \ GuardDuty : Vouches(a) => Vouches(a)'
      BY <1>3, StillVouches
  <2>2. ASSUME NEW k \in Kinds, rows'[k] # None
        PROVE  (rows[k] \notin GuardDuty /\ Kind[rows[k]] = k /\ Vouches(rows[k]))'
    <3>1. CASE rows'[k] = rows[k]
      <4>1. rows[k] \in Alerts \ GuardDuty /\ Kind[rows[k]] = k /\ Vouches(rows[k])
          BY <2>2, <3>1 DEF TypeOK, RowInv
      <4> QED BY <2>1, <3>1, <4>1 DEF Vouches, Answered
    <3>2. CASE rows'[k] # rows[k]
      <4>1. PICK l \in lambdas : /\ l.alert \in Alerts /\ k = Kind[l.alert] /\ rows'[k] = l.alert
                                 /\ Vouches(l.alert)'
          BY <1>3, <2>2, <3>2, OthersKeep
      <4>2. l.alert \notin GuardDuty
          BY DEF RowInv
      <4> QED BY <4>1, <4>2 DEF Vouches, Answered
    <3> QED BY <3>1, <3>2
  <2>3. ASSUME NEW a \in Alerts \ GuardDuty PROVE (stands[a] \notin GuardDuty /\ Vouches(stands[a]))'
    <3>1. stands[a] \in Alerts \ GuardDuty /\ Vouches(stands[a]) /\ stands' = stands
        BY <1>3, OthersKeep DEF TypeOK, RowInv
    <3> QED BY <2>1, <3>1 DEF Vouches, Answered
  <2> QED BY <1>1, <2>2, <2>3, RunStep, RunsVouch DEF RowInv
<1> QED BY <1>2, <1>3

(* The invariant of the queue, its runs and its rows (RowInv). *)
THEOREM RowsHold == Spec => []RowInv
<1>1. Init => RowInv
    BY AlertsAssumption DEF Init, RowInv, OwnRow, Vouches, Answered, Kinds
<1>2. TypeOK /\ RowInv /\ [Next]_vars => RowInv'
    BY RowStep
<1> QED BY <1>1, <1>2, IngestorTypes, PTL DEF Spec

(* A queued alert that deduplication drops is one that is left to another   *)
(* that has started an execution, is in the dead-letter queue or is still   *)
(* to be tried, or one that may have met its own row (NoSilentLoss).        *)
THEOREM NothingLost == Spec => []NoSilentLoss
<1>1. RowInv => NoSilentLoss
    BY DEF RowInv, NoSilentLoss
<1> QED BY <1>1, RowsHold, PTL

-----------------------------------------------------------------------------
(* A storm.  The runs of a kind that are about to start an execution are at *)
(* most one that took the window's row (in F) and one that took its row     *)
(* before the window began (in O); such a run has been at work for as long  *)
(* as the window, so it is gone before the next one begins.                 *)
Waiting(k) == {l \in lambdas : l.step = "start" /\ Kind[l.alert] = k}
AtMostOne(X) == \A x, y \in X : x = y
Split(k, F, O) ==
    /\ Waiting(k) \subseteq F \cup O
    /\ AtMostOne(F) /\ AtMostOne(O)
    /\ \A l \in O : l.left + clock < LambdaTimeout
    /\ rows[k] = None => F = {}
    /\ \/ burst[k] = 0
       \/ burst[k] = 1 /\ (F = {} \/ O = {}) /\ (rows[k] = None => O = {})
       \/ burst[k] = 2 /\ F = {} /\ O = {} /\ rows[k] # None
StormInv == \A k \in Kinds : \E F, O \in SUBSET Lambda : Split(k, F, O)

(* Runs that go on to anything but an execution, or end, or begin: no run   *)
(* is about to start that was not; a row put without one changes nothing.   *)
LEMMA StormKept ==
    ASSUME StormInv, UNCHANGED <<clock, burst>>,
           \A l \in lambdas' : l \in lambdas \/ l.step # "start",
           \A k \in Kinds : rows'[k] = rows[k] \/ rows'[k] # None
    PROVE  StormInv'
<1> SUFFICES ASSUME NEW k \in Kinds PROVE \E F, O \in SUBSET Lambda : Split(k, F, O)'
    BY DEF StormInv
<1>1. PICK F \in SUBSET Lambda, O \in SUBSET Lambda : Split(k, F, O)
    BY DEF StormInv
<1>2. Waiting(k)' \subseteq Waiting(k)
    BY DEF Waiting
<1>3. Split(k, F, O)'
    BY <1>1, <1>2 DEF Split
<1> QED BY <1>3

LEMMA StormTake ==
    ASSUME TypeOK, StormInv, NEW l \in lambdas, TakeRow(l)
    PROVE  StormInv'
<1> SUFFICES ASSUME NEW k \in Kinds PROVE \E F, O \in SUBSET Lambda : Split(k, F, O)'
    BY DEF StormInv
<1>1. PICK F \in SUBSET Lambda, O \in SUBSET Lambda : Split(k, F, O)
    BY DEF StormInv
<1>2. PICK next \in Lambda : /\ next = [l EXCEPT !.step = "start"]
                             /\ next.alert = l.alert /\ next.step = "start"
  <2>1. /\ [l EXCEPT !.step = "start"] \in Lambda
        /\ [l EXCEPT !.step = "start"].alert = l.alert
        /\ [l EXCEPT !.step = "start"].step = "start"
      BY RunFields DEF Lambda
  <2> QED BY <2>1
<1>3. /\ lambdas' = (lambdas \ {l}) \cup {next} /\ UNCHANGED <<clock, burst>>
      /\ rows[Kind[l.alert]] = None /\ rows' = [rows EXCEPT ![Kind[l.alert]] = l.alert]
    BY <1>2 DEF TakeRow, GoesOn
<1>4. l.alert # None /\ Kind[l.alert] \in Kinds /\ rows \in [Kinds -> Alerts \cup {None}]
    BY RunFields, AlertsAssumption DEF TypeOK
<1>5. CASE k = Kind[l.alert]
  <2>1. Waiting(k)' \subseteq Waiting(k) \cup {next}
      BY <1>3 DEF Waiting
  <2>2. F = {} /\ rows'[k] # None
      BY <1>1, <1>3, <1>4, <1>5 DEF Split
  <2>3. Waiting(k)' \subseteq {next} \cup O
      BY <1>1, <2>1, <2>2 DEF Split
  <2>4. /\ AtMostOne({next}) /\ AtMostOne(O)
        /\ \A m \in O : m.left + clock' < LambdaTimeout
      BY <1>1, <1>3 DEF Split, AtMostOne
  <2>5. burst'[k] = 0 \/ (burst'[k] = 1 /\ O = {})
      BY <1>1, <1>3, <1>5 DEF Split
  <2>6. Split(k, {next}, O)'
      BY <2>2, <2>3, <2>4, <2>5 DEF Split, AtMostOne
  <2> QED BY <2>6
<1>6. CASE k # Kind[l.alert]
  <2>1. Waiting(k)' \subseteq Waiting(k) /\ rows'[k] = rows[k]
      BY <1>2, <1>3, <1>4, <1>6 DEF Waiting
  <2>2. Split(k, F, O)'
      BY <1>1, <1>3, <2>1 DEF Split
  <2> QED BY <2>2
<1> QED BY <1>5, <1>6

LEMMA StormStart ==
    ASSUME TypeOK, StormInv, NEW l \in lambdas, StartExecution(l)
    PROVE  StormInv'
<1> SUFFICES ASSUME NEW k \in Kinds PROVE \E F, O \in SUBSET Lambda : Split(k, F, O)'
    BY DEF StormInv
<1>1. PICK F \in SUBSET Lambda, O \in SUBSET Lambda : Split(k, F, O)
    BY DEF StormInv
<1>2. \A m \in lambdas' : (m \in lambdas /\ m # l) \/ m.step # "start"
    BY RunFields DEF StartExecution, GoesOn, Lambda
<1>3. /\ UNCHANGED <<clock, rows>> /\ l.step = "start"
      /\ burst' = [burst EXCEPT ![Kind[l.alert]] = @ + 1]
    BY DEF StartExecution
<1>4. Kind[l.alert] \in Kinds /\ burst \in [Kinds -> Nat]
    BY RunFields DEF TypeOK
<1>5. CASE k = Kind[l.alert]
  <2>1. Waiting(k)' \subseteq Waiting(k) \ {l} /\ l \in Waiting(k)
      BY <1>2, <1>3, <1>5 DEF Waiting
  <2>2. l \in F \/ l \in O
      BY <1>1, <2>1 DEF Split
  <2>3. (l \in F => F \ {l} = {}) /\ (l \in O => O \ {l} = {})
      BY <1>1 DEF Split, AtMostOne
  <2>4. burst'[k] = burst[k] + 1
      BY <1>3, <1>4, <1>5
  <2>5. Split(k, F \ {l}, O \ {l})'
    <3>1. /\ Waiting(k)' \subseteq (F \ {l}) \cup (O \ {l})
          /\ AtMostOne(F \ {l}) /\ AtMostOne(O \ {l})
          /\ \A m \in O \ {l} : m.left + clock' < LambdaTimeout
          /\ rows'[k] = None => F \ {l} = {}
        BY <1>1, <1>3, <2>1 DEF Split, AtMostOne
    <3>2. \/ burst'[k] = 0
          \/ burst'[k] = 1 /\ (F \ {l} = {} \/ O \ {l} = {}) /\ (rows'[k] = None => O \ {l} = {})
          \/ burst'[k] = 2 /\ F \ {l} = {} /\ O \ {l} = {} /\ rows'[k] # None
      <4>1. CASE burst[k] = 0
          BY <1>1, <1>3, <2>2, <2>3, <2>4, <4>1 DEF Split
      <4>2. CASE burst[k] = 1
          BY <1>1, <1>3, <2>2, <2>3, <2>4, <4>2 DEF Split
      <4> QED BY <1>1, <2>2, <4>1, <4>2 DEF Split
    <3> QED BY <3>1, <3>2 DEF Split, AtMostOne
  <2> QED BY <2>5
<1>6. CASE k # Kind[l.alert]
  <2>1. Waiting(k)' \subseteq Waiting(k) /\ burst'[k] = burst[k]
      BY <1>2, <1>3, <1>4, <1>6 DEF Waiting
  <2>2. Split(k, F, O)'
      BY <1>1, <1>3, <2>1 DEF Split
  <2> QED BY <2>2
<1> QED BY <1>5, <1>6

LEMMA StormTick ==
    ASSUME TypeOK, StormInv, Tick
    PROVE  StormInv'
<1> SUFFICES ASSUME NEW k \in Kinds PROVE \E F, O \in SUBSET Lambda : Split(k, F, O)'
    BY DEF StormInv
<1>1. PICK F \in SUBSET Lambda, O \in SUBSET Lambda : Split(k, F, O)
    BY DEF StormInv
<1> DEFINE Aged(l) == [l EXCEPT !.left = @ - 1]
           Age(X) == {Aged(l) : l \in X \cap lambdas}
<1>2. ASSUME NEW l \in lambdas
      PROVE  /\ Aged(l) \in Lambda /\ Aged(l).left = l.left - 1 /\ l.left \in 1..LambdaTimeout
             /\ Aged(l).step = l.step /\ Aged(l).alert = l.alert
  <2>1. l.left \in 1..LambdaTimeout
      BY RunFields DEF Tick
  <2> QED BY <2>1, RunFields, NumbersAssumption DEF Lambda
<1>3. lambdas' = {Aged(l) : l \in lambdas}
    BY DEF Tick
<1>4. Waiting(k)' \subseteq {Aged(l) : l \in Waiting(k)}
    BY <1>2, <1>3 DEF Waiting
<1>5. \A X : AtMostOne(X) => AtMostOne(Age(X)) /\ (X = {} => Age(X) = {}) /\ Age(X) \in SUBSET Lambda
    BY <1>2 DEF AtMostOne
<1>6. Waiting(k)' \subseteq Age(F) \cup Age(O)
    BY <1>1, <1>4 DEF Split, Waiting
<1>7. clock \in 0..(Window - 1) /\ LambdaTimeout \in Nat /\ Window \in Nat /\ LambdaTimeout <= Window
    BY NumbersAssumption, TimingAssumption DEF TypeOK
<1> HIDE DEF Aged
<1>8. CASE clock' # 0
  <2>1. clock' = clock + 1 /\ UNCHANGED <<rows, burst>>
      BY <1>8 DEF Tick
  <2>2. \A m \in Age(O) : m.left + clock' < LambdaTimeout
      BY <1>1, <1>2, <1>7, <2>1 DEF Split
  <2>3. AtMostOne(F) /\ AtMostOne(O)
      BY <1>1 DEF Split
  <2> HIDE DEF Age
  <2>4. PICK G \in SUBSET Lambda, P \in SUBSET Lambda : G = Age(F) /\ P = Age(O)
      BY <1>5, <2>3
  <2>5. Split(k, G, P)'
      BY <1>1, <1>5, <1>6, <2>1, <2>2, <2>3, <2>4 DEF Split, AtMostOne
  <2> QED BY <2>5
<1>9. CASE clock' = 0
  <2>1. clock = Window - 1 /\ rows'[k] = None /\ burst'[k] = 0
      BY <1>7, <1>9 DEF Tick
  <2>2. O \cap lambdas = {}
      BY <1>1, <1>2, <1>7, <2>1 DEF Split
  <2>3. Waiting(k)' \subseteq {} \cup Age(F) /\ AtMostOne(F)
      BY <1>1, <1>6, <2>2 DEF Split
  <2>4. \A m \in Age(F) : m.left + 0 < LambdaTimeout
      BY <1>2, <1>7
  <2> HIDE DEF Age
  <2>5. PICK P \in SUBSET Lambda : P = Age(F)
      BY <1>5, <2>3
  <2>6. AtMostOne(P)
      BY <1>5, <2>3, <2>5
  <2>7. Split(k, {}, P)'
      BY <1>9, <2>1, <2>3, <2>4, <2>5, <2>6 DEF Split, AtMostOne
  <2> QED BY <2>7
<1> QED BY <1>8, <1>9

LEMMA StormStep ==
    ASSUME TypeOK, StormInv, [Next]_vars
    PROVE  StormInv'
<1>1. ASSUME NEW a \in Alerts, \/ Publish(a) \/ InvokeWithFinding(a) \/ DeadLetter(a)
                               \/ Receive(a) \/ ReceiveTwice(a)
      PROVE  StormInv'
    BY <1>1, StormKept DEF Publish, InvokeWithFinding, DeadLetter, Receive, ReceiveTwice, Deliver
<1>2. ASSUME NEW l \in lambdas, LambdaStep(l) PROVE StormInv'
  <2>1. l.alert # None /\ Kind[l.alert] \in Kinds /\ rows \in [Kinds -> Alerts \cup {None}]
      BY RunFields, AlertsAssumption DEF TypeOK
  <2>2. CASE Deduplicate(l) \/ MeetOwnRow(l) \/ Fails(l)
      BY <2>1, <2>2, StormKept DEF Deduplicate, MeetOwnRow, Fails, Succeeds
  <2>3. CASE Return(l)
      BY <2>3, StormKept DEF Return, Succeeds
  <2> QED BY <1>2, <2>2, <2>3, StormTake, StormStart DEF LambdaStep
<1>3. ASSUME Tick PROVE StormInv'
    BY <1>3, StormTick
<1>4. CASE UNCHANGED vars
    BY <1>4, StormKept DEF vars
<1> QED BY <1>1, <1>2, <1>3, <1>4 DEF Next, Arrive, Poll, Run

(* A storm of one kind makes at most two executions a window, for every     *)
(* number of alerts and deliveries, because a run does not outlast a window.*)
THEOREM StormsAreLimited == Spec => []StormLimited
<1>1. Init => StormInv
  <2> SUFFICES ASSUME Init, NEW k \in Kinds PROVE \E F, O \in SUBSET Lambda : Split(k, F, O)
      BY DEF StormInv
  <2>1. Split(k, {}, {})
      BY DEF Init, Split, Waiting, AtMostOne
  <2> QED BY <2>1
<1>2. TypeOK /\ StormInv /\ [Next]_vars => StormInv'
    BY StormStep
<1>3. StormInv => StormLimited
    BY DEF StormInv, Split, StormLimited
<1> QED BY <1>1, <1>2, <1>3, IngestorTypes, PTL DEF Spec
=============================================================================
