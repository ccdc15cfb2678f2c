-------------------------- MODULE IncidentRecords --------------------------
(***************************************************************************)
(* The incident table (app/shared/dynamodb.py) with several incidents in   *)
(* it: the executions that put and update its items, the Slack bot's       *)
(* handlers that update them (oncall.py, modals.py), and the views the bot *)
(* builds from it: /atdr incidents, the filter modal, the Home tab and the *)
(* weekly report.                                                          *)
(*                                                                         *)
(* An incident id stands for its place in the table's scan order.  A       *)
(* second is a step of the clock; a stamp is read before the write that    *)
(* carries it lands.  An attribute an item does not have is None.          *)
(***************************************************************************)
EXTENDS Integers, FiniteSetsExt

CONSTANTS
    N,            \* number of incident ids
    Executions,   \* executions of the pipeline
    Responders,   \* those who use the Slack bot
    Severities,   \* the severities the model answers
    Day,          \* seconds of a day
    Week,         \* days of the weekly report
    QueryLimit,   \* limit of /atdr incidents (10)
    HomeLimit,    \* limit of the Home tab's read (25), of which it
    HomeList,     \* lists so many (5)
    ViewLimit,    \* limit of the modal's and of the report's read (100)
    MaxSecond,    \* bound: the clock
    MaxExtra,     \* bound: the bot's handlers and the retries of tasks
    None

ASSUME RecordsAssumption ==
    /\ {N, Day, Week, HomeList} \subseteq Nat \ {0}
    /\ {QueryLimit, HomeLimit, ViewLimit, MaxSecond, MaxExtra} \subseteq Nat
    /\ Day <= MaxSecond

Ids == 1..N
(* never 0 (the epoch), which _mean_transition takes for missing *)
Seconds == Day..MaxSecond

Statuses == {"detected", "triaged", "pending_approval", "remediated", "acknowledged",
             "investigating", "resolved"}

(* the statuses that are active to the Home tab's list ... *)
ACTIVE_STATUSES == {"detected", "acknowledged", "investigating", "open", "triaged"}

(* mutant: a status the one list has and the other does not *)
active_statuses_NoTriaged == {"detected", "acknowledged", "investigating", "open"}

(* ... and, in a list of its own, to get_stats *)
active_statuses == {"detected", "acknowledged", "investigating", "open", "triaged"}

ASSUME RecordsNoneAssumption == None \notin Nat \cup Statuses \cup Severities \cup {"P1"}

VARIABLES
    clock,
    items,      \* the table
    exec,       \* per execution, how far it is with its incident's record
    hand,       \* per responder, the bot's handler at work
    extra,      \* how many handlers were started and tasks retried
    view        \* a Home tab or weekly report being built

vars == <<clock, items, exec, hand, extra, view>>

Time == Seconds \cup {None}
Item == [created : Time, status : Statuses, severity : Severities \cup {None},
         acknowledged_at : Time, resolved_at : Time]
Bare == [created |-> None, status |-> "detected", severity |-> None,
         acknowledged_at |-> None, resolved_at |-> None]

Asking == [step |-> "answer", id |-> 1, created |-> Day]
Idle   == [step |-> "idle"]
Closed == [step |-> "closed", kind |-> "home", listed |-> {}, number |-> 0, touched |-> {}]

TypeOK ==
    /\ clock \in Seconds
    /\ items \in [Ids -> Item \cup {None}]
    /\ exec \in [Executions -> [step : {"answer", "put", "triage", "triaged", "done"},
                                id : Ids, created : Seconds]]
    /\ hand \in [Responders ->
                 {Idle} \cup [step : {"update"}, id : Ids, to : Statuses, at : Seconds]]
    /\ extra \in 0..MaxExtra
    /\ view \in [step : {"closed", "half", "shown"}, kind : {"home", "report"},
                 listed : SUBSET Ids, number : 0..N, touched : SUBSET Ids]

Init ==
    /\ clock = Day
    /\ items = [i \in Ids |-> None]
    /\ exec = [e \in Executions |-> Asking]
    /\ hand = [r \in Responders |-> Idle]
    /\ extra = 0
    /\ view = Closed

-----------------------------------------------------------------------------
(* IncidentStore: the writes.  One that falls between the two reads of a    *)
(* view is noted there; a shown view is of the table it was shown of.       *)
Noted(i) == IF view.step = "half" THEN [view EXCEPT !.touched = @ \cup {i}] ELSE Closed

Table(i, item) ==
    /\ items' = [items EXCEPT ![i] = item]
    /\ view' = Noted(i)

(* the whole item is replaced *)
put_incident(i, created) == Table(i, [Bare EXCEPT !.created = created])

(* mutant: the update is a put, which drops what it does not name *)
Found_Put(i) == Bare

(* what an update finds, an upsert: an id the table does not have gets an   *)
(* item without created_at *)
Found(i) == IF items[i] = None THEN Bare ELSE items[i]

(* mutant: the item becomes what the update names *)
update_incident_Alone(i, new) == Table(i, [status |-> new.status, severity |-> new.severity])

(* new is Found(i) with the attributes the update names *)
update_incident(i, new) == Table(i, new)

-----------------------------------------------------------------------------
(* IncidentStore: the reads *)
Existing == {i \in Ids : items[i] # None}

(* the first so many of the table, or of a part of it, in the scan's order *)
Scan(limit) == {i \in Existing : Cardinality({j \in Existing : j < i}) < limit}

(* by created_at, newest first, those without one last; equals as scanned *)
Newer(i, j) ==
    LET created(k) == IF items[k].created = None THEN 0 ELSE items[k].created
    IN  created(i) > created(j) \/ (created(i) = created(j) /\ i < j)

(* the first n of these in that order, which only matters where it is cut *)
Newest(n, ids) == {i \in ids : Cardinality({j \in ids : Newer(j, i)}) < n}

recent(limit) == Newest(limit, Scan(limit))

(* the Limit is on the items scanned, not on those the filter lets through *)
ScanFilter(key, value, limit) == Newest(limit, {i \in Scan(limit) : items[i][key] = value})

Upper(severity) == IF severity = "p1" THEN "P1" ELSE severity

InWindow(i, days) == items[i].created = None \/ items[i].created >= clock - days * Day

SumOf(f) == MapThenSumSet(LAMBDA i : f[i], DOMAIN f)

Durations(timed, end) == [i \in timed |-> items[i][end] - items[i].created]

(* mutant: a stamp that was taken before the item was put counts as well *)
Timed_Unguarded(ids, end) == {i \in ids : items[i].created # None /\ items[i][end] # None}

Timed(ids, end) ==
    {i \in ids : /\ items[i].created # None /\ items[i][end] # None
                 /\ items[i][end] >= items[i].created}

MeanTransition(ids, end) ==
    LET timed == Timed(ids, end)
    IN  IF timed = {} THEN None ELSE SumOf(Durations(timed, end)) \div Cardinality(timed)

(* what the statistics of the last days are of *)
Counted(days) == {i \in Existing : InWindow(i, days)}

(* mutant: the severity is counted as it is stored *)
P1s_AsStored(ids) == {i \in ids : items[i].severity = "P1"}

P1s(ids)    == {i \in ids : Upper(items[i].severity) = "P1"}

(* what get_stats counts as active *)
StatsActive(ids) == {i \in ids : items[i].status \in active_statuses}

get_stats(days) ==
    LET counted == Counted(days)
    IN  [total  |-> Cardinality(counted),
         p1     |-> Cardinality(P1s(counted)),
         active |-> Cardinality(StatsActive(counted)),
         mtta   |-> MeanTransition(counted, "acknowledged_at"),
         mttr   |-> MeanTransition(counted, "resolved_at")]

-----------------------------------------------------------------------------
(* An execution of the pipeline (the handlers of its agents): the summary   *)
(* agent asks the model, which may name an id another execution has, and    *)
(* puts the item with the time it has taken.  An answer without an id is    *)
(* recorded under a default id no later agent knows: such an execution is   *)
(* one that takes no further step. *)
Goes(e, step) == exec' = [exec EXCEPT ![e].step = step]
Ends(e)       == exec' = [exec EXCEPT ![e] = [Asking EXCEPT !.step = "done"]]

Summarize(e) ==
    /\ exec[e].step = "answer"
    /\ \E i \in Ids :
          exec' = [exec EXCEPT ![e] = [@ EXCEPT !.step = "put", !.id = i, !.created = clock]]
    /\ UNCHANGED <<clock, items, hand, extra, view>>

StoreIncident(e) ==
    /\ exec[e].step = "put"
    /\ put_incident(exec[e].id, exec[e].created)
    /\ exec' = [exec EXCEPT ![e] = [@ EXCEPT !.step = "triage", !.created = Day]]
    /\ UNCHANGED <<clock, hand, extra>>

(* SummaryAgent's Retry asks the model again, TriageAgent's updates again;  *)
(* the put of a run that failed may have been done *)
TaskFails(e) ==
    /\ exec[e].step = "put" /\ extra < MaxExtra
    /\ extra' = extra + 1
    /\ exec' = [exec EXCEPT ![e] = Asking]
    /\ put_incident(exec[e].id, exec[e].created) \/ UNCHANGED <<items, view>>
    /\ UNCHANGED <<clock, hand>>

TriageUpdate(e) ==
    /\ exec[e].step = "triage"
    /\ \E s \in Severities :
          update_incident(exec[e].id, [Found(exec[e].id) EXCEPT !.severity = s, !.status = "triaged"])
    /\ \/ Goes(e, "triaged") /\ UNCHANGED extra
       \/ extra < MaxExtra /\ extra' = extra + 1 /\ UNCHANGED exec
    /\ UNCHANGED <<clock, hand>>

(* the approval notifier's or the remediation agent's update *)
LaterUpdate(e) ==
    /\ exec[e].step = "triaged"
    /\ \E s \in {"pending_approval", "remediated"} :
          update_incident(exec[e].id, [Found(exec[e].id) EXCEPT !.status = s])
    /\ Ends(e)
    /\ UNCHANGED <<clock, hand, extra>>

-----------------------------------------------------------------------------
(* The Slack bot: /atdr ack, assign, escalate, resolve, the ack modal and   *)
(* the alert's buttons.  The id is whatever the responder typed. *)
Stamped(item, to, at) ==
    CASE to = "acknowledged" -> [item EXCEPT !.status = to, !.acknowledged_at = at]
      [] to = "resolved"     -> [item EXCEPT !.status = to, !.resolved_at = at]
      [] OTHER               -> [item EXCEPT !.status = to]

Command(r) ==
    /\ hand[r] = Idle /\ extra < MaxExtra
    /\ extra' = extra + 1
    /\ \E i \in Ids, to \in {"acknowledged", "investigating", "resolved"} :
          hand' = [hand EXCEPT ![r] = [step |-> "update", id |-> i, to |-> to, at |-> clock]]
    /\ UNCHANGED <<clock, items, exec, view>>

(* ... whose failure is answered with an error *)
TransitionResponse(r) ==
    /\ hand[r].step = "update"
    /\ \/ update_incident(hand[r].id, Stamped(Found(hand[r].id), hand[r].to, hand[r].at))
       \/ UNCHANGED <<items, view>>
    /\ hand' = [hand EXCEPT ![r] = Idle]
    /\ UNCHANGED <<clock, exec, extra>>

-----------------------------------------------------------------------------
(* The Slack bot: views of the table, of two reads each.                    *)
Opened(kind, listed, number) ==
    /\ view.step # "half"
    /\ view' = [step |-> "half", kind |-> kind, listed |-> listed, number |-> number, touched |-> {}]

(* what the Home tab lists *)
HomeActive(ids) == {i \in ids : items[i].status \in ACTIVE_STATUSES}

(* publish_home: the list first ... *)
OpenHome ==
    /\ Opened("home", Newest(HomeList, HomeActive(recent(HomeLimit))), 0)
    /\ UNCHANGED <<clock, items, exec, hand, extra>>

(* ... then "Total open" *)
HomeStats ==
    /\ view.step = "half" /\ view.kind = "home"
    /\ view' = [view EXCEPT !.step = "shown", !.number = get_stats(1).active]
    /\ UNCHANGED <<clock, items, exec, hand, extra>>

(* build_report: the totals first ... *)
OpenReport ==
    /\ Opened("report", {}, get_stats(Week).total)
    /\ UNCHANGED <<clock, items, exec, hand, extra>>

Date(second) == second \div Day

(* mutant: the trend begins a day earlier *)
TrendIds_LongerWeek(ids) ==
    {i \in ids : items[i].created # None /\ Date(items[i].created) >= Date(clock) - Week}

(* those the trend's bars count, of the last so many dates *)
TrendIds(ids) ==
    {i \in ids : items[i].created # None /\ Date(items[i].created) > Date(clock) - Week}

(* ... then the trend *)
ReportTrend ==
    /\ view.step = "half" /\ view.kind = "report"
    /\ view' = [view EXCEPT !.step = "shown", !.listed = TrendIds(Scan(ViewLimit))]
    /\ UNCHANGED <<clock, items, exec, hand, extra>>

(* /atdr incidents with a severity or a status (_incidents_response) *)
BySeverity(s) == ScanFilter("severity", Upper(s), QueryLimit)
ByStatus(s)   == ScanFilter("status", s, QueryLimit)

MatchesFilters(i, severity, status) ==
    /\ severity # None => Upper(items[i].severity) = Upper(severity)
    /\ status # None => items[i].status = status

(* the modal shows 10 of what it found, as many as /atdr incidents *)
Filtered(severity, status) ==
    Newest(QueryLimit, {i \in recent(ViewLimit) : MatchesFilters(i, severity, status)})

-----------------------------------------------------------------------------
(* Time passes between a view's two reads; a view that is shown is of the   *)
(* second it is shown in. *)
Tick ==
    /\ clock < MaxSecond
    /\ clock' = clock + 1
    /\ view' = IF view.step = "half" THEN view ELSE Closed
    /\ UNCHANGED <<items, exec, hand, extra>>

Execution(e) ==
    Summarize(e) \/ StoreIncident(e) \/ TaskFails(e) \/ TriageUpdate(e) \/ LaterUpdate(e)

Responder(r) ==
    Command(r) \/ TransitionResponse(r)

Viewer == OpenHome \/ HomeStats \/ OpenReport \/ ReportTrend

Next == \/ Tick \/ Viewer
        \/ \E e \in Executions : Execution(e)
        \/ \E r \in Responders : Responder(r)

Spec == Init /\ [][Next]_vars

-----------------------------------------------------------------------------
(* However late a stamped write lands, and whatever it lands on (another    *)
(* run's item, a ghost), the mean times of the statistics are times that    *)
(* can have passed within the window: _mean_transition.                     *)
MeansWithinWindow ==
    \A days \in {1, Week} :
        LET stats == get_stats(days)
        IN  \A mean \in {stats.mtta, stats.mttr} : mean = None \/ mean \in 0..(days * Day)

(* A Home tab does not list more incidents of its last day (or without      *)
(* created_at) than its "Total open" says, those left aside that were       *)
(* written between its two reads: the list of home.py calls nothing active  *)
(* that the other list, of get_stats, does not (_load_home_data).           *)
HomeAgrees ==
    view.step = "shown" /\ view.kind = "home" =>
        Cardinality({i \in view.listed \ view.touched : \/ items[i].created = None
                                                        \/ items[i].created >= clock - Day})
          <= view.number

(* A weekly report does not draw more incidents in its trend than it counts *)
(* in total, though _trend_lines goes by dates and get_stats by seconds and *)
(* a midnight or a write may fall between the two reads: what is drawn      *)
(* beyond the total was written between them (build_report).                *)
TrendWithinTotal ==
    view.step = "shown" /\ view.kind = "report" =>
        Cardinality(view.listed \ view.touched) <= view.number

(* As long as the table fits the limits, whatever raced to write it, the    *)
(* Home tab's "P1 count" is of the last day's P1s that the modal finds, and *)
(* the modal finds what /atdr incidents shows for a severity or a status.   *)
SeveritiesAgree ==
    Cardinality(Existing) <= QueryLimit /\ QueryLimit <= ViewLimit =>
        /\ get_stats(1).p1 = Cardinality({i \in Filtered("P1", None) : InWindow(i, 1)})
        /\ BySeverity("P1") \subseteq Filtered("P1", None)
        /\ \A s \in {items[i].status : i \in Existing} : ByStatus(s) = Filtered(None, s)

(* An acknowledgement or a resolution stays in the record until a summary   *)
(* agent puts the item anew, under the same id (update_incident).           *)
TransitionsKept ==
    [][\A i \in Ids : items[i] # None =>
          \/ \E e \in Executions : exec[e].step = "put" /\ exec[e].id = i /\ exec'[e] # exec[e]
          \/ /\ items[i].acknowledged_at # None => items'[i].acknowledged_at # None
             /\ items[i].resolved_at # None => items'[i].resolved_at # None
             /\ items'[i].created = items[i].created]_vars

-----------------------------------------------------------------------------
(* blocks.py:66: a query that shows no incident says that none matches.     *)
NoMatchMeansNone ==
    \A s \in Statuses : ByStatus(s) = {} => \A i \in Existing : items[i].status # s
=============================================================================
