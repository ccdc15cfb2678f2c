----------------------- MODULE IncidentRecordsProofs -----------------------
(***************************************************************************)
(* The theorems of IncidentRecords: its types, the transitions it keeps,   *)
(* the times its statistics give, and the agreement of the views.  All     *)
(* rest on TypeOK; the mean times also on PastInv (no stamp is of the      *)
(* future), the Home tab and the report on ViewInv (what the first read    *)
(* of a view still says at the second, of what was not written between).   *)
(***************************************************************************)
EXTENDS IncidentRecords, FiniteSetTheorems, TLAPS

-----------------------------------------------------------------------------
(* Types *)

LEMMA ConstantTypes ==
    /\ N \in Nat \ {0} /\ Day \in Nat \ {0} /\ Week \in Nat \ {0} /\ HomeList \in Nat \ {0}
    /\ QueryLimit \in Nat /\ HomeLimit \in Nat /\ ViewLimit \in Nat
    /\ MaxSecond \in Nat /\ MaxExtra \in Nat /\ Day <= MaxSecond
    /\ None \notin Nat /\ None \notin Statuses /\ None # "P1"
BY RecordsAssumption, RecordsNoneAssumption

LEMMA BareItem == /\ Bare \in Item
                  /\ \A t \in Seconds : [Bare EXCEPT !.created = t] \in Item
BY DEF Bare, Item, Time, Statuses

(* what an update finds is an item (Found) *)
LEMMA FoundItem ==
    ASSUME TypeOK, NEW i \in Ids
    PROVE  Found(i) \in Item
BY BareItem DEF TypeOK, Found

(* and what it makes of it is one (_transition_response, _update_incident) *)
LEMMA UpdatedItem ==
    ASSUME NEW item \in Item, NEW to \in Statuses, NEW at \in Seconds
    PROVE  /\ [item EXCEPT !.status = to] \in Item
           /\ \A s \in Severities : [item EXCEPT !.severity = s, !.status = to] \in Item
           /\ Stamped(item, to, at) \in Item
<1>1. /\ [item EXCEPT !.status = to] \in Item
      /\ \A s \in Severities : [item EXCEPT !.severity = s, !.status = to] \in Item
      /\ [item EXCEPT !.status = to, !.acknowledged_at = at] \in Item
      /\ [item EXCEPT !.status = to, !.resolved_at = at] \in Item
  BY DEF Item, Time
<1> QED
  BY <1>1 DEF Stamped

(* the subsets of the table are finite, and no larger than it *)
LEMMA IdsFinite ==
    ASSUME NEW S \in SUBSET Ids
    PROVE  IsFiniteSet(S) /\ Cardinality(S) \in 0..N
<1>1. IsFiniteSet(Ids) /\ Cardinality(Ids) = N
  BY ConstantTypes, FS_Interval DEF Ids
<1>2. IsFiniteSet(S) /\ Cardinality(S) <= N
  BY <1>1, FS_Subset
<1> QED
  BY <1>2, FS_CardinalityType, ConstantTypes

(* the numbers of the statistics are of ids *)
LEMMA StatsTypes ==
    ASSUME NEW days
    PROVE  /\ get_stats(days).total = Cardinality(Counted(days))
           /\ get_stats(days).active = Cardinality(StatsActive(Counted(days)))
           /\ get_stats(days).p1 = Cardinality(P1s(Counted(days)))
           /\ get_stats(days).mtta = MeanTransition(Counted(days), "acknowledged_at")
           /\ get_stats(days).mttr = MeanTransition(Counted(days), "resolved_at")
           /\ get_stats(days).total \in 0..N
           /\ get_stats(days).active \in 0..N
<1>1. Counted(days) \in SUBSET Ids /\ StatsActive(Counted(days)) \in SUBSET Ids
  BY DEF Counted, Existing, StatsActive
<1> QED
  BY <1>1, IdsFinite DEF get_stats

(* the views *)
View == [step : {"closed", "half", "shown"}, kind : {"home", "report"},
         listed : SUBSET Ids, number : 0..N, touched : SUBSET Ids]

LEMMA ClosedType == Closed \in View
BY ConstantTypes DEF Closed, View

LEMMA NotedType ==
    ASSUME TypeOK, NEW i \in Ids
    PROVE  Noted(i) \in View
<1>1. view \in View
  BY DEF TypeOK, View
<1>2. [view EXCEPT !.touched = @ \cup {i}] \in View
  BY <1>1 DEF View
<1> QED
  BY <1>2, ClosedType DEF Noted

LEMMA TableTypes ==
    ASSUME TypeOK, NEW i \in Ids, NEW item \in Item, Table(i, item)
    PROVE  /\ items' \in [Ids -> Item \cup {None}]
           /\ view' \in View
BY NotedType DEF TypeOK, Table

LEMMA InitTypes == Init => TypeOK
<1> SUFFICES ASSUME Init PROVE TypeOK
  OBVIOUS
<1>1. Day \in Seconds /\ 0 \in 0..MaxExtra
  BY ConstantTypes DEF Seconds
<1>2. 1 \in Ids
  BY ConstantTypes DEF Ids
<1> QED
  BY <1>1, <1>2, ClosedType DEF Init, TypeOK, Asking, Idle, View

LEMMA NextTypes == TypeOK /\ [Next]_vars => TypeOK'
<1> SUFFICES ASSUME TypeOK, [Next]_vars PROVE TypeOK'
  OBVIOUS
<1>1. CASE Tick
  BY <1>1, ClosedType, ConstantTypes DEF Tick, TypeOK, Seconds, View
<1>2. CASE OpenHome
  <2>1. Newest(HomeList, HomeActive(recent(HomeLimit))) \in SUBSET Ids
    BY DEF Newest, HomeActive, recent, Scan, Existing
  <2> QED
    BY <1>2, <2>1, ConstantTypes DEF OpenHome, Opened, TypeOK
<1>3. CASE HomeStats
  BY <1>3, StatsTypes DEF HomeStats, TypeOK
<1>4. CASE OpenReport
  BY <1>4, StatsTypes DEF OpenReport, Opened, TypeOK
<1>5. CASE ReportTrend
  <2>1. TrendIds(Scan(ViewLimit)) \in SUBSET Ids
    BY DEF TrendIds, Scan, Existing
  <2> QED
    BY <1>5, <2>1 DEF ReportTrend, TypeOK
<1>6. ASSUME NEW e \in Executions, Execution(e) PROVE TypeOK'
  <2>1. exec[e] \in [step : {"answer", "put", "triage", "triaged", "done"},
                     id : Ids, created : Seconds]
    BY DEF TypeOK
  <2>2. Asking \in [step : {"answer", "put", "triage", "triaged", "done"},
                    id : Ids, created : Seconds]
    BY ConstantTypes DEF Asking, Ids, Seconds
  <2>3. [Bare EXCEPT !.created = exec[e].created] \in Item
    BY <2>1, BareItem
  <2>4. CASE Summarize(e)
    <3>1. PICK i \in Ids :
              exec' = [exec EXCEPT ![e] = [exec[e] EXCEPT !.step = "put", !.id = i, !.created = clock]]
      BY <2>4 DEF Summarize
    <3>2. [exec[e] EXCEPT !.step = "put", !.id = i, !.created = clock]
            \in [step : {"answer", "put", "triage", "triaged", "done"},
                 id : Ids, created : Seconds]
      BY <2>1 DEF TypeOK
    <3> QED
      BY <3>1, <3>2, <2>4 DEF Summarize, TypeOK
  <2>5. CASE StoreIncident(e)
    <3>1. items' \in [Ids -> Item \cup {None}] /\ view' \in View
      BY <2>5, <2>1, <2>3, TableTypes DEF StoreIncident, put_incident
    <3>2. [exec[e] EXCEPT !.step = "triage", !.created = Day]
            \in [step : {"answer", "put", "triage", "triaged", "done"},
                 id : Ids, created : Seconds]
      <4>1. Day \in Seconds
        BY ConstantTypes DEF Seconds
      <4> QED
        BY <2>1, <4>1
    <3> QED
      BY <3>1, <3>2, <2>5 DEF StoreIncident, TypeOK, View
  <2>6. CASE TaskFails(e)
    <3>1. items' \in [Ids -> Item \cup {None}] /\ view' \in View
      BY <2>6, <2>1, <2>3, TableTypes DEF TaskFails, put_incident, TypeOK, View
    <3> QED
      BY <3>1, <2>6, <2>2, ConstantTypes DEF TaskFails, TypeOK, View
  <2>7. CASE TriageUpdate(e)
    <3>1. PICK s \in Severities : update_incident(exec[e].id,
                 [Found(exec[e].id) EXCEPT !.severity = s, !.status = "triaged"])
      BY <2>7 DEF TriageUpdate
    <3>2. [Found(exec[e].id) EXCEPT !.severity = s, !.status = "triaged"] \in Item
      BY <2>1, FoundItem, UpdatedItem DEF Statuses
    <3>3. items' \in [Ids -> Item \cup {None}] /\ view' \in View
      BY <3>1, <3>2, <2>1, TableTypes DEF update_incident
    <3> QED
      BY <3>3, <2>7, ConstantTypes DEF TriageUpdate, Goes, TypeOK, View
  <2>8. CASE LaterUpdate(e)
    <3>1. PICK s \in {"pending_approval", "remediated"} :
                 update_incident(exec[e].id, [Found(exec[e].id) EXCEPT !.status = s])
      BY <2>8 DEF LaterUpdate
    <3>2. [Found(exec[e].id) EXCEPT !.status = s] \in Item
      BY <2>1, FoundItem, UpdatedItem DEF Statuses
    <3>3. items' \in [Ids -> Item \cup {None}] /\ view' \in View
      BY <3>1, <3>2, <2>1, TableTypes DEF update_incident
    <3> QED
      BY <3>3, <2>8, <2>2 DEF LaterUpdate, Ends, TypeOK, View
  <2> QED
    BY <1>6, <2>4, <2>5, <2>6, <2>7, <2>8 DEF Execution
<1>7. ASSUME NEW r \in Responders, Responder(r) PROVE TypeOK'
  <2>1. CASE Command(r)
    BY <1>7, <2>1, ConstantTypes DEF Command, TypeOK, Statuses
  <2>2. CASE TransitionResponse(r)
    <3>1. hand[r] \in [step : {"update"}, id : Ids, to : Statuses, at : Seconds]
      BY <2>2 DEF TransitionResponse, TypeOK, Idle
    <3>2. Stamped(Found(hand[r].id), hand[r].to, hand[r].at) \in Item
      BY <3>1, FoundItem, UpdatedItem
    <3>3. items' \in [Ids -> Item \cup {None}] /\ view' \in View
      BY <3>1, <3>2, <2>2, TableTypes DEF TransitionResponse, update_incident, TypeOK, View
    <3> QED
      BY <3>3, <2>2 DEF TransitionResponse, TypeOK, View
  <2> QED
    BY <1>7, <2>1, <2>2 DEF Responder
<1>8. CASE UNCHANGED vars
  BY <1>8 DEF vars, TypeOK
<1> QED
  BY <1>1, <1>2, <1>3, <1>4, <1>5, <1>6, <1>7, <1>8 DEF Next, Viewer

(* Items, executions, handlers and views keep their types; what is put or   *)
(* updated is an item with all its attributes (put_incident,                *)
(* update_incident).                                                        *)
THEOREM RecordTypes == Spec => []TypeOK
BY InitTypes, NextTypes, PTL DEF Spec

-----------------------------------------------------------------------------
(* Transitions *)

(* what an update keeps of an item it finds *)
Kept(old, new) ==
    /\ old.acknowledged_at # None => new.acknowledged_at # None
    /\ old.resolved_at # None => new.resolved_at # None
    /\ new.created = old.created

LEMMA UpdateKept ==
    ASSUME NEW item \in Item, NEW to \in Statuses, NEW at \in Seconds
    PROVE  /\ Kept(item, [item EXCEPT !.status = to])
           /\ \A s \in Severities : Kept(item, [item EXCEPT !.severity = s, !.status = to])
           /\ Kept(item, Stamped(item, to, at))
<1>1. at # None
  BY ConstantTypes DEF Seconds
<1>2. /\ Kept(item, [item EXCEPT !.status = to])
      /\ \A s \in Severities : Kept(item, [item EXCEPT !.severity = s, !.status = to])
      /\ Kept(item, [item EXCEPT !.status = to, !.acknowledged_at = at])
      /\ Kept(item, [item EXCEPT !.status = to, !.resolved_at = at])
  BY <1>1 DEF Item, Time, Kept
<1> QED
  BY <1>2 DEF Stamped

(* What a step does to the table: nothing, a put by a summary agent, or an  *)
(* update that keeps what it found.  A stamp an update adds is of a command *)
(* that was given before.                                                   *)
Put(e) ==
    /\ exec[e].step = "put" /\ exec'[e] # exec[e]
    /\ items' = [items EXCEPT ![exec[e].id] = [Bare EXCEPT !.created = exec[e].created]]
    /\ view' = Noted(exec[e].id)

Update(i, new) ==
    /\ Kept(Found(i), new)
    /\ \/ /\ new.acknowledged_at = Found(i).acknowledged_at
          /\ new.resolved_at = Found(i).resolved_at
       \/ \E r \in Responders :
             /\ hand[r].step = "update"
             /\ new.acknowledged_at \in {Found(i).acknowledged_at, hand[r].at}
             /\ new.resolved_at \in {Found(i).resolved_at, hand[r].at}
    /\ items' = [items EXCEPT ![i] = new]
    /\ view' = Noted(i)

LEMMA TableStep ==
    ASSUME TypeOK, [Next]_vars
    PROVE  \/ UNCHANGED items
           \/ /\ UNCHANGED clock
              /\ \/ \E e \in Executions : Put(e)
                 \/ \E i \in Ids, new \in Item : Update(i, new)
<1> DEFINE Goal == \/ UNCHANGED items
                   \/ /\ UNCHANGED clock
                      /\ \/ \E e \in Executions : Put(e)
                         \/ \E i \in Ids, new \in Item : Update(i, new)
<1>1. CASE Tick \/ Viewer \/ UNCHANGED vars
  BY <1>1 DEF Tick, Viewer, OpenHome, HomeStats, OpenReport, ReportTrend, vars
<1>2. ASSUME NEW e \in Executions, Execution(e) PROVE Goal
  <2>1. /\ exec[e].id \in Ids /\ exec[e].created \in Seconds
        /\ exec[e] \in [step : {"answer", "put", "triage", "triaged", "done"},
                        id : Ids, created : Seconds]
    BY DEF TypeOK
  <2>2. CASE Summarize(e)
    BY <2>2 DEF Summarize
  <2>3. CASE StoreIncident(e)
    <3>1. exec'[e].step = "triage"
      BY <2>3, <2>1 DEF StoreIncident, TypeOK
    <3> QED
      BY <3>1, <2>3 DEF StoreIncident, put_incident, Table, Put
  <2>4. CASE TaskFails(e)
    <3>1. exec'[e].step = "answer"
      BY <2>4 DEF TaskFails, Asking, TypeOK
    <3> QED
      BY <3>1, <2>4 DEF TaskFails, put_incident, Table, Put
  <2>5. CASE TriageUpdate(e)
    <3>1. PICK s \in Severities : update_incident(exec[e].id,
                 [Found(exec[e].id) EXCEPT !.severity = s, !.status = "triaged"])
      BY <2>5 DEF TriageUpdate
    <3> DEFINE new == [Found(exec[e].id) EXCEPT !.severity = s, !.status = "triaged"]
    <3>2. new \in Item /\ Kept(Found(exec[e].id), new)
      BY <2>1, FoundItem, UpdatedItem, UpdateKept DEF Statuses
    <3>3. /\ new.acknowledged_at = Found(exec[e].id).acknowledged_at
          /\ new.resolved_at = Found(exec[e].id).resolved_at
      BY <2>1, FoundItem DEF Item
    <3>4. Update(exec[e].id, new)
      BY <3>1, <3>2, <3>3 DEF update_incident, Table, Update
    <3> QED
      BY <2>1, <2>5, <3>2, <3>4 DEF TriageUpdate
  <2>6. CASE LaterUpdate(e)
    <3>1. PICK s \in {"pending_approval", "remediated"} :
                 update_incident(exec[e].id, [Found(exec[e].id) EXCEPT !.status = s])
      BY <2>6 DEF LaterUpdate
    <3> DEFINE new == [Found(exec[e].id) EXCEPT !.status = s]
    <3>2. new \in Item /\ Kept(Found(exec[e].id), new)
      BY <2>1, FoundItem, UpdatedItem, UpdateKept DEF Statuses
    <3>3. /\ new.acknowledged_at = Found(exec[e].id).acknowledged_at
          /\ new.resolved_at = Found(exec[e].id).resolved_at
      BY <2>1, FoundItem DEF Item
    <3>4. Update(exec[e].id, new)
      BY <3>1, <3>2, <3>3 DEF update_incident, Table, Update
    <3> QED
      BY <2>1, <2>6, <3>2, <3>4 DEF LaterUpdate
  <2> QED
    BY <1>2, <2>2, <2>3, <2>4, <2>5, <2>6 DEF Execution
<1>3. ASSUME NEW r \in Responders, Responder(r) PROVE Goal
  <2>1. CASE Command(r)
    BY <2>1 DEF Command
  <2>2. CASE TransitionResponse(r) /\ UNCHANGED items
    BY <2>2
  <2>3. CASE TransitionResponse(r) /\ ~ UNCHANGED items
    <3> DEFINE i == hand[r].id
               new == Stamped(Found(i), hand[r].to, hand[r].at)
    <3>1. hand[r] \in [step : {"update"}, id : Ids, to : Statuses, at : Seconds]
      BY <2>3 DEF TransitionResponse, TypeOK, Idle
    <3>2. Found(i) \in Item
      BY <3>1, FoundItem
    <3>3. new \in Item /\ Kept(Found(i), new)
      BY <3>1, <3>2, UpdatedItem, UpdateKept
    <3>4. /\ new.acknowledged_at \in {Found(i).acknowledged_at, hand[r].at}
          /\ new.resolved_at \in {Found(i).resolved_at, hand[r].at}
      BY <3>1, <3>2 DEF Item, Stamped
    <3>5. items' = [items EXCEPT ![i] = new] /\ view' = Noted(i) /\ UNCHANGED clock
      BY <2>3 DEF TransitionResponse, update_incident, Table
    <3>6. Update(i, new)
      BY <3>1, <3>3, <3>4, <3>5 DEF Update
    <3> QED
      BY <3>1, <3>3, <3>5, <3>6
  <2> QED
    BY <1>3, <2>1, <2>2, <2>3 DEF Responder
<1> QED
  BY <1>1, <1>2, <1>3 DEF Next

LEMMA TransitionStep ==
    ASSUME TypeOK, [Next]_vars, NEW i \in Ids, items[i] # None
    PROVE  \/ \E e \in Executions : exec[e].step = "put" /\ exec[e].id = i /\ exec'[e] # exec[e]
           \/ Kept(items[i], items'[i])
<1> DEFINE Goal == \/ \E e \in Executions :
                        exec[e].step = "put" /\ exec[e].id = i /\ exec'[e] # exec[e]
                   \/ Kept(items[i], items'[i])
<1>1. Kept(items[i], items[i])
  BY DEF Kept
<1>2. CASE UNCHANGED items
  BY <1>1, <1>2
<1>3. ASSUME NEW e \in Executions, Put(e) PROVE Goal
  BY <1>1, <1>3 DEF Put, TypeOK
<1>4. ASSUME NEW j \in Ids, NEW new \in Item, Update(j, new) PROVE Goal
  BY <1>1, <1>4 DEF Update, Found, TypeOK
<1> QED
  BY <1>2, <1>3, <1>4, TableStep

(* An acknowledgement or a resolution, and the time of creation, stay in    *)
(* the record until a summary agent puts the item anew (update_incident).   *)
THEOREM TransitionsStay == Spec => TransitionsKept
<1>1. TypeOK /\ [Next]_vars =>
        [\A i \in Ids : items[i] # None =>
          \/ \E e \in Executions : exec[e].step = "put" /\ exec[e].id = i /\ exec'[e] # exec[e]
          \/ /\ items[i].acknowledged_at # None => items'[i].acknowledged_at # None
             /\ items[i].resolved_at # None => items'[i].resolved_at # None
             /\ items'[i].created = items[i].created]_vars
  BY TransitionStep DEF Kept
<1> QED
  BY <1>1, RecordTypes, PTL DEF Spec, TransitionsKept

-----------------------------------------------------------------------------
(* The past *)

NotAfter(second, t) == t = None \/ t <= second

StampsNotAfter(second, item) ==
    /\ NotAfter(second, item.created)
    /\ NotAfter(second, item.acknowledged_at)
    /\ NotAfter(second, item.resolved_at)

(* no stamp is of the future, in the table or on its way there *)
PastInv ==
    /\ \A i \in Ids : items[i] # None => StampsNotAfter(clock, items[i])
    /\ \A e \in Executions : exec[e].created <= clock
    /\ \A r \in Responders : hand[r].step = "update" => hand[r].at <= clock

LEMMA ClockStep ==
    ASSUME TypeOK, [Next]_vars
    PROVE  clock' \in Nat /\ clock \in Nat /\ clock <= clock'
<1>1. clock \in Nat
  BY ConstantTypes DEF TypeOK, Seconds
<1>2. CASE Tick
  BY <1>1, <1>2 DEF Tick
<1>3. CASE UNCHANGED clock
  BY <1>1, <1>3
<1>4. ASSUME NEW e \in Executions, Execution(e) PROVE UNCHANGED clock
  BY <1>4 DEF Execution, Summarize, StoreIncident, TaskFails, TriageUpdate, LaterUpdate
<1>5. ASSUME NEW r \in Responders, Responder(r) PROVE UNCHANGED clock
  BY <1>5 DEF Responder, Command, TransitionResponse
<1> QED
  BY <1>2, <1>3, <1>4, <1>5
     DEF Next, Viewer, OpenHome, HomeStats, OpenReport, ReportTrend, vars

LEMMA LaterSecond ==
    ASSUME NEW m \in Nat, NEW n \in Nat, m <= n, NEW item \in Item, StampsNotAfter(m, item)
    PROVE  StampsNotAfter(n, item)
BY ConstantTypes DEF StampsNotAfter, NotAfter, Item, Time, Seconds

LEMMA BareStamps ==
    ASSUME NEW t \in Seconds, t <= clock
    PROVE  StampsNotAfter(clock, Bare) /\ StampsNotAfter(clock, [Bare EXCEPT !.created = t])
BY DEF StampsNotAfter, NotAfter, Bare

LEMMA PastItems ==
    ASSUME TypeOK, PastInv, [Next]_vars, NEW i \in Ids, items'[i] # None
    PROVE  StampsNotAfter(clock', items'[i])
<1>1. clock' \in Nat /\ clock \in Nat /\ clock <= clock'
  BY ClockStep
<1>2. items[i] # None => items[i] \in Item /\ StampsNotAfter(clock', items[i])
  BY <1>1, LaterSecond DEF TypeOK, PastInv
<1>3. CASE UNCHANGED items
  BY <1>2, <1>3
<1>4. ASSUME NEW e \in Executions, Put(e), UNCHANGED clock
      PROVE  StampsNotAfter(clock', items'[i])
  <2>1. exec[e].created \in Seconds /\ exec[e].created <= clock /\ exec[e].id \in Ids
    BY DEF TypeOK, PastInv
  <2>2. StampsNotAfter(clock', [Bare EXCEPT !.created = exec[e].created])
    BY <1>4, <2>1, BareStamps
  <2> QED
    BY <1>2, <1>4, <2>2 DEF Put, TypeOK
<1>5. ASSUME NEW j \in Ids, NEW new \in Item, Update(j, new), UNCHANGED clock
      PROVE  StampsNotAfter(clock', items'[i])
  <2>1. Found(j) \in Item
    BY FoundItem
  <2>2. StampsNotAfter(clock, Found(j))
    BY DEF Found, PastInv, StampsNotAfter, NotAfter, Bare
  <2>3. StampsNotAfter(clock, new)
    BY <1>5, <2>1, <2>2 DEF Update, Kept, StampsNotAfter, NotAfter, PastInv
  <2> QED
    BY <1>2, <1>5, <2>3 DEF Update, TypeOK
<1> QED
  BY <1>3, <1>4, <1>5, TableStep

LEMMA PastStep ==
    ASSUME TypeOK, PastInv, [Next]_vars
    PROVE  PastInv'
<1>1. clock' \in Nat /\ clock \in Nat /\ clock <= clock'
  BY ClockStep
<1>2. ASSUME NEW e \in Executions PROVE exec'[e].created <= clock'
  <2>1. exec[e].created \in Seconds /\ exec[e].created \in Nat /\ exec[e].created <= clock
    BY ConstantTypes DEF TypeOK, PastInv, Seconds
  <2>2. exec[e] \in [step : {"answer", "put", "triage", "triaged", "done"},
                     id : Ids, created : Seconds]
    BY DEF TypeOK
  <2>3. Day <= clock
    BY ConstantTypes DEF TypeOK, Seconds
  <2>4. CASE exec'[e] = exec[e]
    BY <1>1, <2>1, <2>4
  <2>5. ASSUME NEW f \in Executions, Execution(f), exec'[e] # exec[e]
        PROVE  exec'[e].created \in {Day, clock, exec[e].created}
    <3>1. CASE Summarize(f)
      BY <2>2, <2>5, <3>1 DEF Summarize, TypeOK
    <3>2. Asking.created = Day /\ [Asking EXCEPT !.step = "done"].created = Day
      BY DEF Asking
    <3>3. CASE StoreIncident(f)
      <4>1. f = e /\ exec'[e] = [exec[e] EXCEPT !.step = "triage", !.created = Day]
        BY <2>5, <3>3 DEF StoreIncident, TypeOK
      <4> QED
        BY <2>2, <4>1
    <3>4. CASE Goes(f, "triaged")
      BY <2>2, <2>5, <3>4 DEF Goes, TypeOK
    <3>5. CASE Ends(f) \/ exec' = [exec EXCEPT ![f] = Asking]
      BY <2>5, <3>2, <3>5 DEF Ends, TypeOK
    <3> QED
      BY <2>5, <3>1, <3>3, <3>4, <3>5
         DEF Execution, TaskFails, TriageUpdate, LaterUpdate
  <2>6. exec'[e] = exec[e] \/ \E f \in Executions : Execution(f)
    BY DEF Next, Tick, Viewer, OpenHome, HomeStats, OpenReport, ReportTrend, Responder, Command,
           TransitionResponse, vars
  <2> QED
    BY <1>1, <2>1, <2>3, <2>4, <2>5, <2>6, ConstantTypes
<1>3. ASSUME NEW r \in Responders, hand'[r].step = "update" PROVE hand'[r].at <= clock'
  <2>1. hand[r].step = "update" => hand[r].at \in Nat /\ hand[r].at <= clock
    BY ConstantTypes DEF TypeOK, PastInv, Seconds, Idle
  <2>2. hand'[r] = hand[r] \/ hand'[r] = Idle \/ hand'[r].at = clock
    <3>1. ASSUME NEW e \in Executions, Execution(e) PROVE UNCHANGED hand
      BY <3>1 DEF Execution, Summarize, StoreIncident, TaskFails, TriageUpdate, LaterUpdate
    <3>2. ASSUME NEW q \in Responders, Command(q)
          PROVE  hand'[r] = hand[r] \/ hand'[r].at = clock
      BY <3>2 DEF Command, TypeOK
    <3>3. ASSUME NEW q \in Responders, TransitionResponse(q)
          PROVE  hand'[r] = hand[r] \/ hand'[r] = Idle
      BY <3>3 DEF TransitionResponse, TypeOK
    <3> QED
      BY <3>1, <3>2, <3>3 DEF Next, Tick, Viewer, OpenHome, HomeStats, OpenReport, ReportTrend,
                              Responder, vars
  <2> QED
    BY <1>1, <1>3, <2>1, <2>2 DEF Idle
<1> QED
  BY <1>2, <1>3, PastItems DEF PastInv

LEMMA PastHolds == Spec => [](TypeOK /\ PastInv)
<1>1. Init => PastInv
  BY ConstantTypes DEF Init, PastInv, Asking, Idle
<1> QED
  BY <1>1, InitTypes, NextTypes, PastStep, PTL DEF Spec

-----------------------------------------------------------------------------
(* Severities *)

LEMMA Fewer ==
    ASSUME NEW S \in SUBSET Ids, NEW i \in S, NEW T \in SUBSET S, i \notin T
    PROVE  Cardinality(T) < Cardinality(S)
<1>1. IsFiniteSet(S) /\ Cardinality(S) \in Nat /\ Cardinality(T) \in Nat
  BY IdsFinite
<1>2. Cardinality(T) <= Cardinality(S) /\ (Cardinality(S) = Cardinality(T) => S = T)
  BY <1>1, FS_Subset
<1> QED
  BY <1>1, <1>2

(* what a limit does not cut is read whole *)
LEMMA NewestAll ==
    ASSUME TypeOK, NEW S \in SUBSET Existing, NEW n \in Nat, Cardinality(S) <= n
    PROVE  Newest(n, S) = S
<1> SUFFICES ASSUME NEW i \in S PROVE Cardinality({j \in S : Newer(j, i)}) < n
  BY DEF Newest
<1>1. S \in SUBSET Ids
  BY DEF Existing
<1>2. ~ Newer(i, i)
  <2>1. i \in Nat
    BY <1>1 DEF Ids
  <2>2. items[i] \in Item
    BY <1>1 DEF TypeOK, Existing
  <2>3. items[i].created = None \/ items[i].created \in Nat
    BY <2>2, ConstantTypes DEF Item, Time, Seconds
  <2> QED
    BY <2>1, <2>3 DEF Newer
<1>3. Cardinality({j \in S : Newer(j, i)}) < Cardinality(S)
  <2> DEFINE T == {j \in S : Newer(j, i)}
  <2>1. T \in SUBSET S /\ i \notin T
    BY <1>2
  <2> HIDE DEF T
  <2> QED
    BY <1>1, <2>1, Fewer DEF T
<1>4. Cardinality(S) \in Nat /\ Cardinality({j \in S : Newer(j, i)}) \in Nat
  <2>1. {j \in S : Newer(j, i)} \in SUBSET Ids
    BY <1>1
  <2> QED
    BY <1>1, <2>1, IdsFinite
<1> QED
  BY <1>3, <1>4

LEMMA ScanAll ==
    ASSUME TypeOK, NEW n \in Nat, Cardinality(Existing) <= n
    PROVE  Scan(n) = Existing
<1> SUFFICES ASSUME NEW i \in Existing PROVE Cardinality({j \in Existing : j < i}) < n
  BY DEF Scan
<1>1. Existing \in SUBSET Ids /\ i \in Nat
  BY DEF Existing, Ids
<1> DEFINE T == {j \in Existing : j < i}
<1>2. T \in SUBSET Existing /\ i \notin T
  BY <1>1
<1> HIDE DEF T
<1>3. Cardinality(T) < Cardinality(Existing)
  BY <1>1, <1>2, Fewer
<1>4. Cardinality(T) \in Nat /\ Cardinality(Existing) \in Nat
  BY <1>1, <1>2, IdsFinite
<1> QED
  BY <1>3, <1>4 DEF T

LEMMA SeveritiesMatch == TypeOK => SeveritiesAgree
<1> SUFFICES ASSUME TypeOK, Cardinality(Existing) <= QueryLimit, QueryLimit <= ViewLimit
             PROVE  /\ get_stats(1).p1 = Cardinality({i \in Filtered("P1", None) : InWindow(i, 1)})
                    /\ BySeverity("P1") \subseteq Filtered("P1", None)
                    /\ \A s \in {items[i].status : i \in Existing} : ByStatus(s) = Filtered(None, s)
  BY Zenon DEF SeveritiesAgree
<1>1. Existing \in SUBSET Ids /\ Cardinality(Existing) \in Nat
  BY IdsFinite DEF Existing
<1>2. Scan(QueryLimit) = Existing /\ Scan(ViewLimit) = Existing
  BY <1>1, ScanAll, ConstantTypes
<1>3. ASSUME NEW S \in SUBSET Existing PROVE Newest(QueryLimit, S) = S
  <2>1. Cardinality(S) <= Cardinality(Existing) /\ Cardinality(S) \in Nat
    BY <1>1, IdsFinite, FS_Subset
  <2> QED
    BY <1>1, <2>1, NewestAll, ConstantTypes
<1>4. recent(ViewLimit) = Existing
  BY <1>1, <1>2, NewestAll, ConstantTypes DEF recent
<1>5. \A severity, status :
         Filtered(severity, status) = {i \in Existing : MatchesFilters(i, severity, status)}
  BY <1>3, <1>4 DEF Filtered
<1>6. \A key, value : ScanFilter(key, value, QueryLimit) = {i \in Existing : items[i][key] = value}
  BY <1>2, <1>3 DEF ScanFilter
<1>7. {i \in Filtered("P1", None) : InWindow(i, 1)} = P1s(Counted(1))
  <2>1. "P1" # None /\ Upper("P1") = "P1"
    BY ConstantTypes, Zenon DEF Upper
  <2>2. \A i : MatchesFilters(i, "P1", None) <=> Upper(items[i].severity) = "P1"
    BY <2>1, Zenon DEF MatchesFilters
  <2>3. Filtered("P1", None) = {i \in Existing : Upper(items[i].severity) = "P1"}
    BY <1>5, <2>2
  <2> QED
    BY <2>3 DEF P1s, Counted
<1>8. BySeverity("P1") \subseteq Filtered("P1", None)
  BY <1>5, <1>6 DEF BySeverity, MatchesFilters, Upper
<1>9. ASSUME NEW s \in {items[i].status : i \in Existing} PROVE ByStatus(s) = Filtered(None, s)
  <2>0. s \in Statuses
    BY DEF Existing, TypeOK, Item
  <2>1. s # None
    BY <2>0, ConstantTypes, Zenon
  <2>2. \A i : MatchesFilters(i, None, s) <=> items[i].status = s
    BY <2>1, Zenon DEF MatchesFilters
  <2>3. Filtered(None, s) = {i \in Existing : items[i].status = s}
    BY <1>5, <2>2
  <2>4. ByStatus(s) = {i \in Existing : items[i]["status"] = s}
    BY <1>6 DEF ByStatus
  <2> QED
    BY <2>3, <2>4
<1> QED
  BY <1>7, <1>8, <1>9, StatsTypes

(* As long as the table fits the limits, the Home tab's "P1 count" is of    *)
(* the last day's P1s that the modal finds, and the modal finds what /atdr  *)
(* incidents shows (get_stats, _filtered_incident_blocks,                   *)
(* _incidents_response).                                                    *)
THEOREM SeveritiesMeet == Spec => []SeveritiesAgree
BY SeveritiesMatch, RecordTypes, PTL

-----------------------------------------------------------------------------
(* Views *)

LEMMA FewerOrEqual ==
    ASSUME NEW S \in SUBSET Ids, NEW T \in SUBSET S
    PROVE  Cardinality(T) <= Cardinality(S)
BY IdsFinite, FS_Subset

(* what the first read of a view still says at the second, and the second   *)
(* after it, of what was not written between them *)
HomeInv ==
    view.kind = "home" =>
        /\ view.step # "closed" => view.listed \ view.touched \subseteq HomeActive(Existing)
        /\ view.step = "shown" => view.number = Cardinality(StatsActive(Counted(1)))

ReportInv ==
    view.kind = "report" =>
        /\ view.step # "closed" => Cardinality(Counted(Week) \ view.touched) <= view.number
        /\ view.step = "shown" => view.listed \subseteq Counted(Week)

ViewInv == HomeInv /\ ReportInv

(* the window of the statistics only moves on *)
LEMMA CountedShrinks ==
    ASSUME TypeOK, UNCHANGED items, NEW days \in Nat,
           clock \in Nat, clock' \in Nat, clock <= clock'
    PROVE  Counted(days)' \subseteq Counted(days)
<1> SUFFICES ASSUME NEW i \in Existing, InWindow(i, days)' PROVE InWindow(i, days)
  BY DEF Counted, Existing
<1>1. items[i].created = None \/ items[i].created \in Nat
  BY ConstantTypes DEF Existing, TypeOK, Item, Time, Seconds
<1>2. days * Day \in Nat
  BY ConstantTypes
<1> QED
  BY <1>1, <1>2 DEF InWindow

(* the dates of the trend's bars are within the statistics' seconds *)
LEMMA DatesWithin ==
    ASSUME NEW a \in Nat, NEW b \in Nat, Date(a) > Date(b) - Week
    PROVE  a >= b - Week * Day
<1> DEFINE p == b \div Day
           q == a \div Day
<1>1. p \in Nat /\ q \in Nat /\ q * Day <= a /\ b < p * Day + Day
  BY ConstantTypes
<1>2. q + Week - p >= 1
  BY <1>1, ConstantTypes DEF Date
<1> HIDE DEF p, q
<1>3. (q + Week - p) * Day >= Day
  BY <1>1, <1>2, ConstantTypes
<1>4. (q + Week - p) * Day = q * Day + Week * Day - p * Day
  BY <1>1, ConstantTypes
<1>5. q * Day \in Nat /\ p * Day \in Nat /\ Week * Day \in Nat
  BY <1>1, ConstantTypes
<1> QED
  BY <1>1, <1>3, <1>4, <1>5, ConstantTypes

LEMMA TrendCounted == TypeOK => TrendIds(Scan(ViewLimit)) \subseteq Counted(Week)
<1> SUFFICES ASSUME TypeOK, NEW i \in TrendIds(Scan(ViewLimit)) PROVE i \in Counted(Week)
  OBVIOUS
<1>1. i \in Existing /\ items[i].created # None /\ Date(items[i].created) > Date(clock) - Week
  BY DEF TrendIds, Scan
<1>2. items[i].created \in Nat /\ clock \in Nat
  BY <1>1, ConstantTypes DEF Existing, TypeOK, Item, Time, Seconds
<1> QED
  BY <1>1, <1>2, DatesWithin DEF Counted, InWindow

(* a write between the two reads *)
LEMMA ViewWritten ==
    ASSUME TypeOK, TypeOK', ViewInv, UNCHANGED clock, NEW i \in Ids, view' = Noted(i),
           \A j \in Ids : j # i => items'[j] = items[j]
    PROVE  ViewInv'
<1>1. CASE view.step # "half"
  <2>1. view' = Closed
    BY <1>1 DEF Noted
  <2> QED
    BY <2>1 DEF ViewInv, HomeInv, ReportInv, Closed
<1>2. CASE view.step = "half"
  <2>1. view' = [view EXCEPT !.touched = @ \cup {i}]
    BY <1>2 DEF Noted
  <2>2. /\ view'.step = "half" /\ view'.kind = view.kind /\ view'.listed = view.listed
        /\ view'.number = view.number /\ view'.touched = view.touched \cup {i}
    BY <1>2, <2>1 DEF TypeOK
  <2>3. ASSUME NEW j \in HomeActive(Existing), j # i PROVE j \in HomeActive(Existing)'
    BY <2>3 DEF HomeActive, Existing
  <2>4. HomeInv'
    BY <1>2, <2>2, <2>3 DEF ViewInv, HomeInv
  <2>5. Counted(Week)' \ view'.touched \subseteq Counted(Week) \ view.touched
    BY <2>2 DEF Counted, Existing, InWindow
  <2>6. Counted(Week) \ view.touched \in SUBSET Ids
    BY DEF Counted, Existing
  <2> DEFINE before == Counted(Week) \ view.touched
             after  == Counted(Week)' \ view'.touched
  <2>7. after \subseteq before /\ before \in SUBSET Ids
    BY <2>5, <2>6
  <2> HIDE DEF before, after
  <2>8. Cardinality(after) <= Cardinality(before)
    BY <2>7, FewerOrEqual
  <2>9. Cardinality(after) \in Nat /\ Cardinality(before) \in Nat
    BY <2>7, IdsFinite
  <2>10. view.number \in Nat
    BY DEF TypeOK
  <2>11. view.kind = "report" => Cardinality(before) <= view.number
    BY <1>2 DEF before, ViewInv, ReportInv
  <2>12. view.kind = "report" => Cardinality(after) <= view.number
    BY <2>8, <2>9, <2>10, <2>11
  <2>13. ReportInv'
    BY <2>2, <2>12 DEF after, ReportInv
  <2> QED
    BY <2>4, <2>13 DEF ViewInv
<1> QED
  BY <1>1, <1>2

LEMMA ViewStep ==
    ASSUME TypeOK, ViewInv, [Next]_vars
    PROVE  ViewInv'
<1>0. TypeOK'
  BY NextTypes
<1>1. CASE view' = Closed
  BY <1>1 DEF ViewInv, HomeInv, ReportInv, Closed
<1>2. CASE UNCHANGED <<items, clock, view>>
  BY <1>2 DEF ViewInv, HomeInv, ReportInv, HomeActive, StatsActive, Counted, Existing, InWindow
<1>3. CASE Tick /\ view.step = "half"
  <2>1. UNCHANGED <<items, view>>
    BY <1>3 DEF Tick
  <2>2. HomeInv'
    BY <1>3, <2>1 DEF ViewInv, HomeInv, HomeActive, Existing
  <2> DEFINE before == Counted(Week) \ view.touched
             after  == Counted(Week)' \ view'.touched
  <2>3. Counted(Week)' \subseteq Counted(Week) /\ Counted(Week) \in SUBSET Ids
    <3>1. Counted(Week)' \subseteq Counted(Week)
      BY <2>1, ClockStep, CountedShrinks, ConstantTypes
    <3> QED
      BY <3>1 DEF Counted, Existing
  <2>4. after \subseteq before /\ before \in SUBSET Ids
    BY <2>1, <2>3
  <2>5. view.kind = "report" => Cardinality(before) <= view.number
    BY <1>3 DEF ViewInv, ReportInv
  <2> HIDE DEF before, after
  <2>6. Cardinality(after) <= Cardinality(before)
    BY <2>4, FewerOrEqual
  <2>7. /\ Cardinality(after) \in Nat /\ Cardinality(before) \in Nat /\ view.number \in Nat
    BY <2>4, IdsFinite DEF TypeOK
  <2>8. view.kind = "report" => Cardinality(after) <= view.number
    BY <2>5, <2>6, <2>7
  <2>9. ReportInv'
    BY <1>3, <2>1, <2>8 DEF after, ReportInv
  <2> QED
    BY <2>2, <2>9 DEF ViewInv
<1>4. CASE Tick /\ view.step # "half"
  BY <1>1, <1>4 DEF Tick
<1>5. CASE OpenHome
  <2>1. Newest(HomeList, HomeActive(recent(HomeLimit))) \subseteq HomeActive(Existing)
    BY DEF Newest, HomeActive, recent, Scan
  <2>2. UNCHANGED items /\ HomeActive(Existing)' = HomeActive(Existing)
    BY <1>5 DEF OpenHome, HomeActive, Existing
  <2> QED
    BY <1>5, <2>1, <2>2 DEF OpenHome, Opened, ViewInv, HomeInv, ReportInv
<1>6. CASE HomeStats
  <2>1. /\ HomeActive(Existing)' = HomeActive(Existing)
        /\ Cardinality(StatsActive(Counted(1)))' = Cardinality(StatsActive(Counted(1)))
    BY <1>6 DEF HomeStats, HomeActive, StatsActive, Existing, Counted, InWindow
  <2>2. view' = [view EXCEPT !.step = "shown", !.number = Cardinality(StatsActive(Counted(1)))]
    BY <1>6, StatsTypes DEF HomeStats
  <2>3. /\ view.step = "half" /\ view.kind = "home" /\ view'.kind = "home"
        /\ view'.listed = view.listed /\ view'.touched = view.touched
        /\ view'.number = Cardinality(StatsActive(Counted(1)))
    BY <1>6, <2>2 DEF HomeStats, TypeOK
  <2>4. view.listed \ view.touched \subseteq HomeActive(Existing)
    BY <2>3 DEF ViewInv, HomeInv
  <2>5. HomeInv'
    BY <2>1, <2>3, <2>4 DEF HomeInv
  <2>6. ReportInv'
    BY <2>3 DEF ReportInv
  <2> QED
    BY <2>5, <2>6 DEF ViewInv
<1>7. CASE OpenReport
  <2>1. Cardinality(Counted(Week) \ {})' = Cardinality(Counted(Week))
    <3>1. Counted(Week)' = Counted(Week)
      BY <1>7 DEF OpenReport, Existing, Counted, InWindow
    <3>2. Counted(Week)' \ {} = Counted(Week)
      BY <3>1
    <3> QED
      BY <3>2
  <2>2. view' = [step |-> "half", kind |-> "report", listed |-> {},
                 number |-> Cardinality(Counted(Week)), touched |-> {}]
    BY <1>7, StatsTypes DEF OpenReport, Opened
  <2>3. Cardinality(Counted(Week)) \in Nat
    BY IdsFinite DEF Counted, Existing
  <2> QED
    BY <2>1, <2>2, <2>3 DEF ViewInv, HomeInv, ReportInv
<1>8. CASE ReportTrend
  <2>1. Counted(Week)' = Counted(Week)
    BY <1>8 DEF ReportTrend, Existing, Counted, InWindow
  <2> QED
    BY <1>8, <2>1, TrendCounted DEF ReportTrend, TypeOK, ViewInv, HomeInv, ReportInv
<1>9. CASE (\E e \in Executions : Execution(e)) \/ (\E r \in Responders : Responder(r))
  <2> DEFINE Written == \/ UNCHANGED <<items, clock, view>>
                        \/ /\ UNCHANGED clock
                           /\ \E i \in Ids : \E item : Table(i, item)
  <2>1. ASSUME NEW e \in Executions, Execution(e) PROVE Written
    <3>1. exec[e].id \in Ids
      BY DEF TypeOK
    <3> QED
      BY <2>1, <3>1 DEF Execution, Summarize, StoreIncident, TaskFails, TriageUpdate, LaterUpdate,
                        put_incident, update_incident
  <2>2. ASSUME NEW r \in Responders, Responder(r) PROVE Written
    <3>1. hand[r].step = "update" => hand[r].id \in Ids
      BY DEF TypeOK, Idle
    <3> QED
      BY <2>2, <3>1 DEF Responder, Command, TransitionResponse, update_incident
  <2>3. ASSUME UNCHANGED clock, NEW i \in Ids, NEW item, Table(i, item) PROVE ViewInv'
    <3>1. view' = Noted(i) /\ \A j \in Ids : j # i => items'[j] = items[j]
      BY <2>3 DEF Table, TypeOK
    <3> QED
      BY <1>0, <2>3, <3>1, ViewWritten
  <2> QED
    BY <1>2, <1>9, <2>1, <2>2, <2>3
<1> QED
  BY <1>2, <1>3, <1>4, <1>5, <1>6, <1>7, <1>8, <1>9 DEF Next, Viewer, vars

LEMMA ViewsHold == Spec => [](TypeOK /\ ViewInv)
<1>1. Init => ViewInv
  BY DEF Init, Closed, ViewInv, HomeInv, ReportInv
<1> QED
  BY <1>1, InitTypes, NextTypes, ViewStep, PTL DEF Spec

(* what home.py calls active, get_stats does *)
LEMMA ActiveLists == ACTIVE_STATUSES \subseteq active_statuses
BY DEF ACTIVE_STATUSES, active_statuses

LEMMA HomeOfView == TypeOK /\ ViewInv => HomeAgrees
<1> DEFINE day == {i \in view.listed \ view.touched : \/ items[i].created = None
                                                      \/ items[i].created >= clock - Day}
<1> SUFFICES ASSUME TypeOK, ViewInv, view.step = "shown", view.kind = "home"
             PROVE  Cardinality(day) <= view.number
  BY DEF HomeAgrees
<1>1. /\ view.listed \ view.touched \subseteq HomeActive(Existing)
      /\ view.number = Cardinality(StatsActive(Counted(1)))
  BY DEF ViewInv, HomeInv
<1>2. 1 * Day = Day
  BY ConstantTypes
<1>3. day \subseteq StatsActive(Counted(1))
  BY <1>1, <1>2, ActiveLists DEF HomeActive, StatsActive, Counted, InWindow
<1>4. StatsActive(Counted(1)) \in SUBSET Ids
  BY DEF StatsActive, Counted, Existing
<1> HIDE DEF day
<1> QED
  BY <1>1, <1>3, <1>4, FewerOrEqual

LEMMA TrendOfView == TypeOK /\ ViewInv => TrendWithinTotal
<1> DEFINE drawn == view.listed \ view.touched
           kept  == Counted(Week) \ view.touched
<1> SUFFICES ASSUME TypeOK, ViewInv, view.step = "shown", view.kind = "report"
             PROVE  Cardinality(drawn) <= view.number
  BY DEF TrendWithinTotal
<1>1. drawn \subseteq kept /\ Cardinality(kept) <= view.number
  BY DEF ViewInv, ReportInv
<1>2. kept \in SUBSET Ids
  BY DEF Counted, Existing
<1> HIDE DEF drawn, kept
<1>3. Cardinality(drawn) <= Cardinality(kept)
  BY <1>1, <1>2, FewerOrEqual
<1>4. Cardinality(drawn) \in Nat /\ Cardinality(kept) \in Nat /\ view.number \in Nat
  BY <1>1, <1>2, IdsFinite DEF TypeOK
<1> QED
  BY <1>1, <1>3, <1>4

(* A Home tab lists no more incidents of its day than its "Total open"      *)
(* says, those left aside that were written between its two reads: the list *)
(* of home.py has no active status that get_stats' own list lacks           *)
(* (_load_home_data).                                                       *)
THEOREM HomeTabAgrees == Spec => []HomeAgrees
BY ViewsHold, HomeOfView, PTL

(* A weekly report draws no more incidents than it counts, through any      *)
(* midnight, those left aside that were written between its two reads       *)
(* (build_report).                                                          *)
THEOREM TrendIsWithin == Spec => []TrendWithinTotal
BY ViewsHold, TrendOfView, PTL

-----------------------------------------------------------------------------
(* Sums.  The fold of the community modules is over a CHOOSEn recursive     *)
(* function of the subsets; that there is one, and what it is bounded by,   *)
(* follows from the least number, or the least set, that contradicts it.    *)

LEMMA LeastNumber ==
    ASSUME NEW T \in SUBSET Nat, T # {}
    PROVE  \E m \in T : \A k \in T : m <= k
<1> DEFINE Downs == {0..k : k \in T}
<1>1. Downs \subseteq FiniteSubsetsOf(Nat) /\ Downs # {}
  <2>1. \A k \in T : 0..k \in SUBSET Nat /\ IsFiniteSet(0..k)
    BY FS_Interval
  <2> QED
    BY <2>1 DEF FiniteSubsetsOf
<1>2. IsWellFoundedOn(StrictSubsetOrdering(Nat), FiniteSubsetsOf(Nat))
  BY FS_StrictSubsetOrderingWellFounded
<1>3. PICK down \in Downs : \A other \in Downs : <<other, down>> \notin StrictSubsetOrdering(Nat)
  <2> HIDE DEF Downs
  <2> QED
    BY <1>1, <1>2, WFMin, Zenon
<1>4. PICK m \in T : down = 0..m
  BY <1>3
<1>5. ASSUME NEW k \in T PROVE m <= k
  <2>1. <<0..k, 0..m>> \notin StrictSubsetOrdering(Nat)
    BY <1>3, <1>4
  <2>2. ~ (0..k \subseteq 0..m /\ 0..k # 0..m)
    BY <2>1 DEF StrictSubsetOrdering
  <2>3. k < m => 0..k \subseteq 0..m /\ m \in 0..m /\ m \notin 0..k
    OBVIOUS
  <2> QED
    BY <2>2, <2>3
<1> QED
  BY <1>4, <1>5

(* the summand of a set that comes first, and the sum of a set, given that  *)
(* of the others                                                            *)
First(s) == CHOOSE x \in s : TRUE

SumStep(f, h, s) == IF s = {} THEN 0 ELSE f[First(s)] + h[s \ {First(s)}]

SumRec(h, f, S) == h = [s \in SUBSET S |-> SumStep(f, h, s)]

LEMMA SumOfIsFold ==
    ASSUME NEW S, NEW f, DOMAIN f = S
    PROVE  \E h : h = (CHOOSE g : SumRec(g, f, S)) /\ SumOf(f) = h[S]
BY DEF SumOf, MapThenSumSet, MapThenFoldSet, SumRec, SumStep, First

(* the sums of the sets of up to n elements *)
Small(S, n) == {s \in SUBSET S : Cardinality(s) <= n}

SmallRec(h, f, S, n) == h = [s \in Small(S, n) |-> SumStep(f, h, s)]

LEMMA SmallSums ==
    ASSUME NEW S, IsFiniteSet(S), NEW f, NEW n \in Nat
    PROVE  \E h : SmallRec(h, f, S, n)
<1> DEFINE Without == {m \in Nat : ~ \E h : SmallRec(h, f, S, m)}
<1>0. \A s \in SUBSET S : IsFiniteSet(s) /\ Cardinality(s) \in Nat
  BY FS_Subset, FS_CardinalityType
<1>1. SUFFICES ASSUME Without # {} PROVE FALSE
  OBVIOUS
<1>2. PICK m \in Without : \A k \in Without : m <= k
  BY <1>1, LeastNumber
<1>3. CASE m = 0
  <2>1. \A s \in Small(S, 0) : s = {}
    BY <1>0, FS_EmptySet DEF Small
  <2> DEFINE h == [s \in Small(S, 0) |-> 0]
  <2>2. SmallRec(h, f, S, 0)
    BY <2>1 DEF SumStep, SmallRec
  <2> HIDE DEF h
  <2> QED
    BY <1>2, <1>3, <2>2
<1>4. CASE m # 0
  <2>1. m - 1 \in Nat /\ m - 1 \notin Without
    BY <1>2, <1>4
  <2>2. PICK h : SmallRec(h, f, S, m - 1)
    BY <2>1
  <2> DEFINE g == [s \in Small(S, m) |-> SumStep(f, h, s)]
  <2>3. ASSUME NEW s \in Small(S, m) PROVE g[s] = SumStep(f, g, s)
    <3>1. CASE s = {}
      BY <3>1 DEF SumStep
    <3>2. CASE s # {}
      <4> DEFINE t == s \ {First(s)}
      <4>1. First(s) \in s
        BY <3>2 DEF First
      <4>2. t \in SUBSET S /\ Cardinality(t) = Cardinality(s) - 1
        BY <4>1, <1>0, FS_RemoveElement DEF Small
      <4>3. t \in Small(S, m - 1) /\ t \in Small(S, m)
        BY <4>2, <1>0, <1>2 DEF Small
      <4> HIDE DEF t
      <4>4. h[t] = SumStep(f, h, t) /\ g[t] = SumStep(f, h, t)
        BY <4>3, <2>2 DEF SmallRec
      <4>5. g[s] = SumStep(f, h, s)
        OBVIOUS
      <4> HIDE DEF g
      <4> QED
        BY <3>2, <4>4, <4>5 DEF SumStep, t
    <3> QED
      BY <3>1, <3>2
  <2>4. SmallRec(g, f, S, m)
    <3>1. g = [s \in Small(S, m) |-> g[s]]
      OBVIOUS
    <3> HIDE DEF g
    <3> QED
      BY <2>3, <3>1 DEF SmallRec
  <2> HIDE DEF g
  <2> QED
    BY <1>2, <2>4
<1> QED
  BY <1>3, <1>4

LEMMA SumRecExists ==
    ASSUME NEW S, IsFiniteSet(S), NEW f
    PROVE  \E h : SumRec(h, f, S)
<1>1. Cardinality(S) \in Nat
  BY FS_CardinalityType
<1>2. Small(S, Cardinality(S)) = SUBSET S
  BY FS_Subset DEF Small
<1>3. \E h : SmallRec(h, f, S, Cardinality(S))
  BY <1>1, SmallSums
<1> QED
  BY <1>2, <1>3, Zenon DEF SmallRec, SumRec

(* a sum of numbers up to a bound *)
LEMMA SumBounds ==
    ASSUME NEW S, IsFiniteSet(S), NEW B \in Nat, NEW f \in [S -> 0..B]
    PROVE  SumOf(f) \in 0..(B * Cardinality(S))
<1>1. PICK h : SumRec(h, f, S) /\ SumOf(f) = h[S]
  <2>1. PICK h : h = (CHOOSE g : SumRec(g, f, S)) /\ SumOf(f) = h[S]
    BY SumOfIsFold
  <2>2. SumRec(CHOOSE g : SumRec(g, f, S), f, S)
    BY SumRecExists, Zenon
  <2> QED
    BY <2>1, <2>2, Zenon
<1>2. \A s \in SUBSET S : h[s] = SumStep(f, h, s)
  BY <1>1 DEF SumRec
<1>3. \A s \in SUBSET S : IsFiniteSet(s) /\ Cardinality(s) \in Nat
  BY FS_Subset, FS_CardinalityType
<1> DEFINE Beyond == {s \in SUBSET S : h[s] \notin 0..(B * Cardinality(s))}
<1>4. SUFFICES ASSUME Beyond # {} PROVE FALSE
  BY <1>1
<1>5. Beyond \subseteq FiniteSubsetsOf(S)
  BY <1>3 DEF FiniteSubsetsOf
<1>6. PICK s \in Beyond : \A t \in Beyond : <<t, s>> \notin StrictSubsetOrdering(S)
  <2> HIDE DEF Beyond
  <2> QED
    BY <1>4, <1>5, FS_StrictSubsetOrderingWellFounded, WFMin, Zenon
<1>7. s # {}
  <2>1. h[{}] = 0
    BY <1>2 DEF SumStep
  <2>2. Cardinality({}) = 0
    BY FS_EmptySet
  <2>3. B * 0 = 0
    OBVIOUS
  <2>4. h[{}] \in 0..(B * Cardinality({}))
    BY <2>1, <2>2, <2>3
  <2> QED
    BY <1>6, <2>4
<1> DEFINE t == s \ {First(s)}
<1>8. First(s) \in s
  BY <1>7 DEF First
<1>9. t \in SUBSET S /\ t # s /\ <<t, s>> \in StrictSubsetOrdering(S)
  BY <1>8 DEF StrictSubsetOrdering
<1>10. h[t] \in 0..(B * Cardinality(t))
  BY <1>6, <1>9
<1>11. Cardinality(t) = Cardinality(s) - 1 /\ Cardinality(s) \in Nat
  BY <1>3, <1>8, FS_RemoveElement
<1>12. h[s] = f[First(s)] + h[t] /\ f[First(s)] \in 0..B
  BY <1>2, <1>7, <1>8 DEF SumStep
<1>13. h[s] \notin 0..(B * Cardinality(s))
  BY <1>6
<1> HIDE DEF Beyond, t
<1>14. B * Cardinality(s) = B * (Cardinality(s) - 1) + B
  BY <1>11
<1>15. B * (Cardinality(s) - 1) \in Int /\ B * Cardinality(s) \in Int
  BY <1>11
<1> QED
  BY <1>10, <1>11, <1>12, <1>13, <1>14, <1>15

-----------------------------------------------------------------------------
(* Means *)

LEMMA MeanBound ==
    ASSUME NEW B \in Nat, NEW c \in Nat \ {0}, NEW sum \in 0..(B * c)
    PROVE  sum \div c \in 0..B
<1> DEFINE q == sum \div c
<1>1. B * c \in Nat
  OBVIOUS
<1>2. q \in Nat /\ q * c <= sum
  BY <1>1
<1> HIDE DEF q
<1>3. ASSUME q >= B + 1 PROVE FALSE
  <2>1. (q - B) * c >= c
    BY <1>2, <1>3
  <2>2. (q - B) * c = q * c - B * c
    BY <1>2
  <2>3. q * c \in Nat
    BY <1>2
  <2> QED
    BY <1>1, <1>2, <2>1, <2>2, <2>3
<1> QED
  BY <1>2, <1>3 DEF q

(* _mean_transition of any records that were made within a bound before the *)
(* stamps that end them *)
LEMMA MeanTransitionBound ==
    ASSUME NEW ids \in SUBSET Ids, NEW end, NEW B \in Nat,
           \A i \in Timed(ids, end) : items[i][end] - items[i].created \in 0..B
    PROVE  MeanTransition(ids, end) = None \/ MeanTransition(ids, end) \in 0..B
<1> DEFINE S == Timed(ids, end)
<1>1. S \in SUBSET Ids
  BY DEF Timed
<1>2. IsFiniteSet(S) /\ Cardinality(S) \in Nat
  BY <1>1, IdsFinite
<1>3. Durations(S, end) \in [S -> 0..B]
  BY DEF Durations
<1>4. S # {} => Cardinality(S) # 0
  BY <1>2, FS_EmptySet
<1>5. MeanTransition(ids, end) =
        IF S = {} THEN None ELSE SumOf(Durations(S, end)) \div Cardinality(S)
  BY DEF MeanTransition
<1> HIDE DEF S
<1>6. SumOf(Durations(S, end)) \in 0..(B * Cardinality(S))
  BY <1>2, <1>3, SumBounds
<1> QED
  BY <1>2, <1>4, <1>5, <1>6, MeanBound

LEMMA CountedDurations ==
    ASSUME TypeOK, PastInv, NEW days \in Nat, NEW end \in {"acknowledged_at", "resolved_at"},
           NEW i \in Timed(Counted(days), end)
    PROVE  items[i][end] - items[i].created \in 0..(days * Day)
<1>1. /\ i \in Ids /\ items[i] # None /\ InWindow(i, days) /\ items[i].created # None
      /\ items[i][end] # None /\ items[i][end] >= items[i].created
  BY DEF Timed, Counted, Existing
<1>2. items[i].created \in Nat /\ items[i][end] \in Nat /\ clock \in Nat
  BY <1>1, ConstantTypes DEF TypeOK, Item, Time, Seconds
<1>3. items[i][end] <= clock
  BY <1>1 DEF PastInv, StampsNotAfter, NotAfter
<1>4. days * Day \in Nat
  BY ConstantTypes
<1>5. items[i].created >= clock - days * Day
  BY <1>1 DEF InWindow
<1> QED
  BY <1>1, <1>2, <1>3, <1>4, <1>5

LEMMA MeansOfPast == TypeOK /\ PastInv => MeansWithinWindow
<1> SUFFICES ASSUME TypeOK, PastInv, NEW days \in {1, Week},
                    NEW mean \in {get_stats(days).mtta, get_stats(days).mttr}
             PROVE  mean = None \/ mean \in 0..(days * Day)
  BY DEF MeansWithinWindow
<1>1. days \in Nat /\ days * Day \in Nat
  BY ConstantTypes
<1>2. Counted(days) \in SUBSET Ids
  BY DEF Counted, Existing
<1>3. ASSUME NEW end \in {"acknowledged_at", "resolved_at"}
      PROVE  \/ MeanTransition(Counted(days), end) = None
             \/ MeanTransition(Counted(days), end) \in 0..(days * Day)
  BY <1>1, <1>2, CountedDurations, MeanTransitionBound
<1> QED
  BY <1>3, StatsTypes

(* The mean times of the statistics are times that can have passed within   *)
(* their window, however late a stamped write lands (_mean_transition).     *)
THEOREM MeansArePossible == Spec => []MeansWithinWindow
BY PastHolds, MeansOfPast, PTL
=============================================================================
