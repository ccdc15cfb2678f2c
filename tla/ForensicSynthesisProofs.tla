----------------------- MODULE ForensicSynthesisProofs -----------------------
(***************************************************************************)
(* For any number of artifacts, any wait before a retry and any number of  *)
(* lost answers: what the record names is stored (StoreInv), a success has *)
(* left its report, and without lost answers the stored report is that of  *)
(* one run (OneRunInv: the task's Retry keeps the seconds of the runs      *)
(* apart).                                                                 *)
(***************************************************************************)
EXTENDS ForensicSynthesis, TLAPS

(* The objects under a prefix of a bucket. *)
Has(os, at, n) == \E o \in os : o.at = at /\ o.name = n
Full(os, at)   == \A n \in Artifacts : Has(os, at, n)

(* What the uploads of a run have reached, at each of its steps. *)
StoreInv ==
    /\ \A r \in Runs :
         /\ runs[r].step = "put" => /\ bucket
                                    /\ \A n \in 1..runs[r].put : Has(objects, runs[r].prefix, n)
         /\ runs[r].step \in {"update", "return"} =>
              /\ bucket => runs[r].prefix # None
              /\ runs[r].prefix # None => Full(objects, runs[r].prefix)
         /\ runs[r].step = "return" /\ named => record # None
    /\ record # None /\ record.prefix # None => Full(objects, record.prefix)
    /\ task = "succeeded" => /\ named => record # None
                             /\ bucket => \E o \in objects : Full(objects, o.at)

(* Without lost answers one run is at work, and the objects of the runs     *)
(* before it are of earlier seconds.                                        *)
OneRunInv ==
    /\ \A o \in objects : o.at <= now
    /\ record # None => record.run <= current
    /\ task = "waiting" => since <= now
    /\ \A r \in Runs : /\ r > current => runs[r].step = "idle"
                       /\ runs[r].error => runs[r].fallback
                       /\ runs[r].prefix # None => runs[r].prefix <= now
    /\ lost = 0 =>
        /\ \A r \in Runs : runs[r].step \in Active => r = current /\ task = "running"
        /\ task = "waiting" => \A o \in objects : o.at <= since
        /\ runs[current].step \in {"ask", "put", "update"} /\ record # None =>
              record.run < current
        /\ runs[current].step = "ask" => \A o \in objects : o.at < now
        /\ \A o \in objects : runs[current].prefix = o.at =>
              o.run = current /\ o.fallback = runs[current].fallback
    /\ RecordedReportOfOneRun

-----------------------------------------------------------------------------
LEMMA NoRunTyped ==
    ASSUME NEW s \in Steps PROVE NoRun(s) \in Run
  BY SynthesisAssumption DEF NoRun, Run

LEMMA RunTyped ==
    ASSUME TypeOK, NEW r \in Runs
    PROVE  /\ runs[r] \in Run /\ runs[r].step \in Steps /\ runs[r].put \in 0..LastArtifact
           /\ runs[r].prefix \in Nat \cup {None} /\ runs[r].fallback \in BOOLEAN
           /\ runs[r].error \in BOOLEAN /\ runs[r].summary \in BOOLEAN
           /\ runs[r].step = "put" => runs[r].prefix \in Nat /\ runs[r].put + 1 \in Artifacts
  BY SynthesisAssumption DEF TypeOK, Run, Artifacts

LEMMA RunsAre == Runs = {1, 2, 3}
  BY DEF Runs, MaxAttempts

(* Every variable keeps its type. *)
LEMMA TypeStep == TypeOK /\ [Next]_vars => TypeOK'
<1> SUFFICES ASSUME TypeOK, [Next]_vars PROVE TypeOK'
    OBVIOUS
<1> USE SynthesisAssumption, SynthesisNoneAssumption
<1>1. ASSUME NEW r \in Runs, ReceiveAnswer(r) PROVE TypeOK'
  <2>1. PICK answer \in Answers :
          runs' = [runs EXCEPT ![r] =
             IF answer = "not rendered"
             THEN NoRun("failed")
             ELSE [step |-> IF bucket THEN "put" ELSE "update",
                   prefix |-> IF bucket THEN now ELSE None, put |-> 0,
                   fallback |-> Fallback(answer), error |-> ParseError(answer),
                   summary |-> answer # "no summary"]]
      BY <1>1 DEF ReceiveAnswer
  <2>2. [step |-> IF bucket THEN "put" ELSE "update",
                   prefix |-> IF bucket THEN now ELSE None, put |-> 0,
                   fallback |-> Fallback(answer), error |-> ParseError(answer),
                   summary |-> answer # "no summary"] \in Run
    <3>1. Fallback(answer) \in BOOLEAN /\ ParseError(answer) \in BOOLEAN
        BY DEF Fallback, ParseError
    <3>2. (IF bucket THEN now ELSE None) \in Nat \cup {None} /\ 0 \in 0..LastArtifact
        BY DEF TypeOK
    <3>3. (answer # "no summary") \in BOOLEAN /\ (IF bucket THEN "put" ELSE "update") \in Steps
        BY DEF Steps
    <3> QED BY <3>1, <3>2, <3>3, Zenon DEF Run
  <2>3. NoRun("failed") \in Run
      BY NoRunTyped DEF Steps
  <2>4. runs' \in [Runs -> Run]
      BY <2>1, <2>2, <2>3 DEF TypeOK
  <2>5. ASSUME NEW k \in Runs, runs'[k].step = "put"
        PROVE  runs'[k].prefix # None /\ runs'[k].put < LastArtifact
    <3>1. CASE k = r /\ answer = "not rendered"
      <4>1. runs'[k] = NoRun("failed")
          BY <2>1, <3>1 DEF TypeOK
      <4> QED BY <2>5, <4>1 DEF NoRun
    <3>2. CASE k = r /\ answer # "not rendered"
      <4>1. /\ runs'[k].step = IF bucket THEN "put" ELSE "update"
            /\ runs'[k].prefix = IF bucket THEN now ELSE None
            /\ runs'[k].put = 0
          BY <2>1, <3>2 DEF TypeOK
      <4> QED BY <2>5, <4>1 DEF TypeOK
    <3>3. CASE k # r
        BY <2>1, <2>5, <3>3 DEF TypeOK
    <3> QED BY <3>1, <3>2, <3>3
  <2> QED BY <1>1, <2>4, <2>5 DEF ReceiveAnswer, TypeOK
<1>2. ASSUME NEW r \in Runs, PutArtifact(r) PROVE TypeOK'
  <2> DEFINE n == runs[r].put + 1
             o == [at |-> runs[r].prefix, name |-> n, run |-> r, fallback |-> runs[r].fallback]
  <2>1. /\ n \in Artifacts /\ n \in 0..LastArtifact /\ runs[r].prefix \in Nat
        /\ runs[r].fallback \in BOOLEAN
      BY <1>2, RunTyped DEF PutArtifact, Artifacts
  <2>2. o \in Object
      BY <2>1, Zenon DEF Object
  <2>3. objects' \subseteq Object
      BY <1>2, <2>2 DEF PutArtifact, TypeOK
  <2>4. runs' \in [Runs -> Run]
    <3>1. [runs[r] EXCEPT !.put = n, !.step = IF n = LastArtifact THEN "update" ELSE "put"] \in Run
        BY <2>1, RunTyped DEF Run, Steps
    <3>2. runs' = [runs EXCEPT ![r] = [runs[r] EXCEPT
             !.put = n, !.step = IF n = LastArtifact THEN "update" ELSE "put"]]
        BY <1>2, RunTyped DEF PutArtifact, TypeOK, Run
    <3> QED BY <3>1, <3>2 DEF TypeOK
  <2>5. ASSUME NEW k \in Runs, runs'[k].step = "put"
        PROVE  runs'[k].prefix # None /\ runs'[k].put < LastArtifact
    <3>1. CASE k = r
        BY <1>2, <2>1, <2>5, <3>1 DEF PutArtifact, TypeOK, Run, Artifacts
    <3>2. CASE k # r
        BY <1>2, <2>5, <3>2 DEF PutArtifact, TypeOK
    <3> QED BY <3>1, <3>2
  <2> QED BY <1>2, <2>3, <2>4, <2>5 DEF PutArtifact, TypeOK
<1>3. ASSUME NEW r \in Runs, NEW s \in Steps \ {"put"}, runs' = [runs EXCEPT ![r] = NoRun(s)]
      PROVE  /\ runs' \in [Runs -> Run]
             /\ \A k \in Runs : runs'[k].step = "put" =>
                    runs'[k].prefix # None /\ runs'[k].put < LastArtifact
  <2>1. runs' \in [Runs -> Run] /\ NoRun(s).step # "put"
      BY <1>3, NoRunTyped DEF TypeOK, NoRun
  <2>2. \A k \in Runs : runs'[k] = runs[k] \/ runs'[k] = NoRun(s)
      BY <1>3 DEF TypeOK
  <2> QED BY <2>1, <2>2 DEF TypeOK
<1>4. ASSUME NEW r \in Runs, UpdateIncident(r) PROVE TypeOK'
  <2>1. CASE named /\ ~runs[r].summary
      BY <1>3, <1>4, <2>1 DEF UpdateIncident, TypeOK, Steps
  <2>2. CASE ~(named /\ ~runs[r].summary)
    <3>1. [runs[r] EXCEPT !.step = "return"] \in Run
        BY RunTyped DEF Run, Steps
    <3>2. /\ runs' = [runs EXCEPT ![r] = [runs[r] EXCEPT !.step = "return"]]
          /\ [runs[r] EXCEPT !.step = "return"].step = "return"
        BY <1>4, <2>2, RunTyped DEF UpdateIncident, TypeOK, Run
    <3>4. runs' \in [Runs -> Run]
        BY <3>1, <3>2 DEF TypeOK
    <3>5. \A k \in Runs : runs'[k].step = "put" => runs'[k] = runs[k]
        BY <3>2 DEF TypeOK
    <3>3. [prefix |-> runs[r].prefix, error |-> runs[r].error, run |-> r] \in Record
        BY RunTyped, Zenon DEF Record
    <3> QED BY <1>4, <2>2, <3>3, <3>4, <3>5 DEF UpdateIncident, TypeOK
  <2> QED BY <2>1, <2>2
<1>5. ASSUME NEW r \in Runs, Return(r) PROVE TypeOK'
    BY <1>3, <1>5 DEF Return, TypeOK, Steps
<1>6. ASSUME NEW r \in Runs, RunFails(r) PROVE TypeOK'
    BY <1>3, <1>6 DEF RunFails, TypeOK, Steps
<1>7. CASE TaskFails
    BY <1>7 DEF TaskFails, TypeOK
<1>8. CASE LoseAnswer
    BY <1>8 DEF LoseAnswer, TypeOK
<1>9. CASE RetryTask
  <2>1. current' \in Runs /\ "ask" \in Steps \ {"put"}
      BY <1>9, RunsAre DEF RetryTask, TypeOK, MaxAttempts, Steps
  <2>2. /\ runs' \in [Runs -> Run]
        /\ \A k \in Runs : runs'[k].step = "put" =>
                    runs'[k].prefix # None /\ runs'[k].put < LastArtifact
      BY <1>3, <1>9, <2>1 DEF RetryTask
  <2>3. now' \in Nat /\ since' \in Nat
      BY <1>9 DEF RetryTask, TypeOK
  <2> QED BY <1>9, <2>1, <2>2, <2>3 DEF RetryTask, TypeOK
<1>10. CASE CatchError
    BY <1>10 DEF CatchError, TypeOK
<1>11. CASE Tick
    BY <1>11 DEF Tick, TypeOK
<1>12. CASE UNCHANGED vars
    BY <1>12 DEF vars, TypeOK
<1> QED BY <1>1, <1>2, <1>4, <1>5, <1>6, <1>7, <1>8, <1>9, <1>10, <1>11, <1>12
        DEF Next, TaskStep, RunStep

(* The task, its runs, the bucket and the record keep their types (TypeOK). *)
THEOREM SynthesisTypes == Spec => []TypeOK
<1>1. Init => TypeOK
    BY NoRunTyped, RunsAre, SynthesisAssumption DEF Init, TypeOK, Steps, NoRun
<1> QED BY <1>1, TypeStep, PTL DEF Spec

-----------------------------------------------------------------------------
(* An upload takes nothing away. *)
LEMMA PutKeeps ==
    ASSUME TypeOK, NEW r \in Runs, PutArtifact(r)
    PROVE  /\ \A at : \A n : Has(objects, at, n) => Has(objects', at, n)
           /\ Has(objects', runs[r].prefix, runs[r].put + 1)
<1> DEFINE n == runs[r].put + 1
           o == [at |-> runs[r].prefix, name |-> n, run |-> r, fallback |-> runs[r].fallback]
<1>1. objects' = {p \in objects : p.at # o.at \/ p.name # n} \cup {o}
    BY DEF PutArtifact
<1>2. o.at = runs[r].prefix /\ o.name = n /\ o \in objects'
    BY <1>1
<1>3. ASSUME NEW at, NEW m, Has(objects, at, m) PROVE Has(objects', at, m)
  <2>1. PICK p \in objects : p.at = at /\ p.name = m
      BY <1>3 DEF Has
  <2>2. CASE p.at # o.at \/ p.name # n
      BY <1>1, <2>1, <2>2 DEF Has
  <2>3. CASE p.at = o.at /\ p.name = n
      BY <1>2, <2>1, <2>3 DEF Has
  <2> QED BY <2>2, <2>3
<1> QED BY <1>2, <1>3 DEF Has

LEMMA SameObjects ==
    ASSUME objects' = objects
    PROVE  \A at : /\ \A n : Has(objects, at, n) <=> Has(objects', at, n)
                   /\ Full(objects, at) <=> Full(objects', at)
  BY DEF Has, Full

(* What an answer makes of a run. *)
LEMMA AnswerMakes ==
    ASSUME TypeOK, NEW r \in Runs, ReceiveAnswer(r)
    PROVE  /\ runs'[r].error => runs'[r].fallback
           /\ \/ runs'[r] = NoRun("failed")
              \/ /\ bucket /\ runs'[r].step = "put" /\ runs'[r].put = 0
                 /\ runs'[r].prefix = now
              \/ ~bucket /\ runs'[r].step = "update" /\ runs'[r].prefix = None
<1>1. PICK answer \in Answers :
        runs' = [runs EXCEPT ![r] =
             IF answer = "not rendered"
             THEN NoRun("failed")
             ELSE [step |-> IF bucket THEN "put" ELSE "update",
                   prefix |-> IF bucket THEN now ELSE None, put |-> 0,
                   fallback |-> Fallback(answer), error |-> ParseError(answer),
                   summary |-> answer # "no summary"]]
    BY DEF ReceiveAnswer
<1>2. CASE answer = "not rendered"
    BY <1>1, <1>2 DEF TypeOK, NoRun
<1>3. CASE answer # "not rendered"
  <2>1. /\ runs'[r].step = IF bucket THEN "put" ELSE "update"
        /\ runs'[r].prefix = IF bucket THEN now ELSE None
        /\ runs'[r].put = 0
        /\ runs'[r].fallback = Fallback(answer) /\ runs'[r].error = ParseError(answer)
      BY <1>1, <1>3 DEF TypeOK
  <2>2. ParseError(answer) => Fallback(answer)
      BY DEF ParseError, Fallback
  <2>3. runs'[r].error => runs'[r].fallback
      BY <2>1, <2>2, Zenon
  <2> QED BY <2>1, <2>3 DEF TypeOK
<1> QED BY <1>2, <1>3

(* What the uploads of one run have reached. *)
Reached(r) ==
    /\ runs[r].step = "put" => /\ bucket
                               /\ \A n \in 1..runs[r].put : Has(objects, runs[r].prefix, n)
    /\ runs[r].step \in {"update", "return"} =>
         /\ bucket => runs[r].prefix # None
         /\ runs[r].prefix # None => Full(objects, runs[r].prefix)
    /\ runs[r].step = "return" /\ named => record # None

LEMMA OthersReached ==
    ASSUME TypeOK, StoreInv, NEW r \in Runs, NEW k \in Runs, runs'[k] = runs[k],
           objects' = objects \/ PutArtifact(r), record # None => record' # None,
           UNCHANGED <<named, bucket>>
    PROVE  Reached(k)'
<1>1. \A at : /\ \A n : Has(objects, at, n) => Has(objects', at, n)
              /\ Full(objects, at) => Full(objects', at)
    BY SameObjects, PutKeeps DEF Full
<1>2. Reached(k)
    BY DEF StoreInv, Reached
<1> QED BY <1>1, <1>2 DEF Reached

LEMMA StoreStep == TypeOK /\ StoreInv /\ [Next]_vars => StoreInv'
<1> SUFFICES ASSUME TypeOK, StoreInv, [Next]_vars PROVE StoreInv'
    OBVIOUS
<1> USE SynthesisAssumption, SynthesisNoneAssumption
<1>1. ASSUME \A r \in Runs : Reached(r)',
             record' # None /\ record'.prefix # None => Full(objects', record'.prefix),
             task' = "succeeded" => /\ named' => record' # None
                                    /\ bucket' => \E o \in objects' : Full(objects', o.at)
      PROVE  StoreInv'
    BY <1>1 DEF StoreInv, Reached
<1>2. ASSUME objects' = objects, record' = record, UNCHANGED <<named, bucket>>,
             \A r \in Runs : runs'[r] = runs[r] \/ runs'[r].step \in {"ask", "failed", "returned"},
             task' = "succeeded" => task = "succeeded"
      PROVE  StoreInv'
  <2>1. ASSUME NEW r \in Runs PROVE Reached(r)'
      BY <1>2, OthersReached DEF Reached
  <2>2. \A at : Full(objects, at) => Full(objects', at)
      BY <1>2, SameObjects
  <2> QED BY <1>1, <1>2, <2>1, <2>2 DEF StoreInv
<1>3. ASSUME NEW r \in Runs, ReceiveAnswer(r) PROVE StoreInv'
  <2>1. UNCHANGED <<named, bucket, task, objects, record>>
      BY <1>3 DEF ReceiveAnswer
  <2>2. \A k \in Runs : k # r => runs'[k] = runs[k]
      BY <1>3 DEF ReceiveAnswer, TypeOK
  <2>3. \/ runs'[r].step = "failed"
        \/ bucket /\ runs'[r].step = "put" /\ runs'[r].put = 0
        \/ ~bucket /\ runs'[r].step = "update" /\ runs'[r].prefix = None
      BY <1>3, AnswerMakes DEF NoRun
  <2>4. ASSUME NEW k \in Runs PROVE Reached(k)'
      BY <2>1, <2>2, <2>3, OthersReached DEF Reached
  <2>5. \A at : Full(objects, at) => Full(objects', at)
      BY <2>1, SameObjects
  <2> QED BY <1>1, <2>1, <2>4, <2>5 DEF StoreInv
<1>4. ASSUME NEW r \in Runs, PutArtifact(r) PROVE StoreInv'
  <2>1. UNCHANGED <<named, bucket, task, record>>
      BY <1>4 DEF PutArtifact
  <2>2. \A k \in Runs : k # r => runs'[k] = runs[k]
      BY <1>4 DEF PutArtifact, TypeOK
  <2>3. /\ runs[r].step = "put" /\ runs'[r].prefix = runs[r].prefix /\ runs'[r].put = runs[r].put + 1
        /\ runs'[r].step = IF runs'[r].put = LastArtifact THEN "update" ELSE "put"
      BY <1>4 DEF PutArtifact, TypeOK, Run
  <2>4. \A at : /\ \A n : Has(objects, at, n) => Has(objects', at, n)
                /\ Full(objects, at) => Full(objects', at)
      BY <1>4, PutKeeps DEF Full
  <2>5. \A n \in 1..runs'[r].put : Has(objects', runs'[r].prefix, n)
    <3>1. \A n \in 1..runs[r].put : Has(objects', runs[r].prefix, n)
        BY <2>3, <2>4 DEF StoreInv
    <3>2. runs[r].put \in Nat
        BY RunTyped
    <3>3. Has(objects', runs[r].prefix, runs[r].put + 1)
        BY <1>4, PutKeeps
    <3> QED BY <2>3, <3>1, <3>2, <3>3
  <2>6. runs'[r].prefix # None /\ bucket
      BY <2>3, RunTyped DEF StoreInv
  <2>7. Reached(r)'
    <3>1. runs'[r].put = LastArtifact => Full(objects', runs'[r].prefix)
        BY <2>5 DEF Full, Artifacts
    <3> QED BY <2>1, <2>3, <2>5, <2>6, <3>1 DEF Reached
  <2>8. ASSUME NEW k \in Runs PROVE Reached(k)'
      BY <1>4, <2>1, <2>2, <2>7, OthersReached
  <2>9. task' = "succeeded" /\ bucket' => \E o \in objects' : Full(objects', o.at)
    <3> SUFFICES ASSUME task' = "succeeded" /\ bucket' PROVE \E o \in objects' : Full(objects', o.at)
        OBVIOUS
    <3>1. PICK p \in objects : Full(objects, p.at)
        BY <2>1 DEF StoreInv
    <3>2. Has(objects', p.at, p.name)
        BY <2>4, <3>1 DEF Has
    <3> QED BY <2>4, <3>1, <3>2 DEF Has
  <2> QED BY <1>1, <2>1, <2>4, <2>8, <2>9 DEF StoreInv
<1>5. ASSUME NEW r \in Runs, UpdateIncident(r) PROVE StoreInv'
  <2>1. CASE named /\ ~runs[r].summary
      BY <1>2, <1>5, <2>1 DEF UpdateIncident, TypeOK, NoRun
  <2>2. CASE ~(named /\ ~runs[r].summary)
    <3>1. UNCHANGED <<named, bucket, task, objects>>
        BY <1>5 DEF UpdateIncident
    <3>2. /\ runs[r].step = "update" /\ runs'[r].step = "return"
          /\ runs'[r].prefix = runs[r].prefix
          /\ \A k \in Runs : k # r => runs'[k] = runs[k]
        BY <1>5, <2>2 DEF UpdateIncident, TypeOK, Run
    <3>3. record' = IF named
                    THEN [prefix |-> runs[r].prefix, error |-> runs[r].error, run |-> r]
                    ELSE record
        BY <1>5, <2>2 DEF UpdateIncident
    <3>4. named => record' # None /\ record'.prefix = runs[r].prefix
      <4>1. [prefix |-> runs[r].prefix, error |-> runs[r].error, run |-> r] \in Record
          BY RunTyped, Zenon DEF Record
      <4> QED BY <3>3, <4>1
    <3>5. \A at : Full(objects, at) <=> Full(objects', at)
        BY <3>1, SameObjects
    <3>6. Reached(r)'
        BY <3>1, <3>2, <3>4, <3>5 DEF Reached, StoreInv
    <3>7. ASSUME NEW k \in Runs PROVE Reached(k)'
        BY <3>1, <3>2, <3>3, <3>4, <3>6, OthersReached
    <3>8. record' # None /\ record'.prefix # None => Full(objects', record'.prefix)
        BY <3>2, <3>3, <3>4, <3>5 DEF StoreInv
    <3> QED BY <1>1, <3>1, <3>3, <3>4, <3>5, <3>7, <3>8 DEF StoreInv
  <2> QED BY <2>1, <2>2
<1>6. ASSUME NEW r \in Runs, Return(r) PROVE StoreInv'
  <2>1. UNCHANGED <<named, bucket, objects, record>> /\ runs[r].step = "return"
      BY <1>6 DEF Return
  <2>2. \A k \in Runs : runs'[k] = runs[k] \/ runs'[k].step = "returned"
      BY <1>6 DEF Return, TypeOK, NoRun
  <2>3. \A k \in Runs : Reached(k)'
      BY <2>1, <2>2, OthersReached DEF Reached
  <2>4. \A at : Full(objects, at) <=> Full(objects', at)
      BY <2>1, SameObjects
  <2>5. bucket => \E o \in objects : Full(objects, o.at)
    <3> SUFFICES ASSUME bucket PROVE \E o \in objects : Full(objects, o.at)
        OBVIOUS
    <3>1. Full(objects, runs[r].prefix)
        BY <2>1 DEF StoreInv
    <3>2. PICK o \in objects : o.at = runs[r].prefix
        BY <3>1 DEF Full, Has, Artifacts
    <3> QED BY <3>1, <3>2
  <2>6. named => record # None
      BY <2>1 DEF StoreInv
  <2> QED BY <1>1, <2>1, <2>3, <2>4, <2>5, <2>6 DEF StoreInv
<1>7. ASSUME NEW r \in Runs, RunFails(r) PROVE StoreInv'
    BY <1>2, <1>7 DEF RunFails, TypeOK, NoRun
<1>8. CASE TaskFails
    BY <1>2, <1>8 DEF TaskFails
<1>9. CASE LoseAnswer
    BY <1>2, <1>9 DEF LoseAnswer
<1>10. CASE RetryTask
  <2>1. \A k \in Runs : runs'[k] = runs[k] \/ runs'[k].step = "ask"
      BY <1>10 DEF RetryTask, TypeOK, NoRun
  <2> QED BY <1>2, <1>10, <2>1 DEF RetryTask
<1>11. CASE CatchError
    BY <1>2, <1>11 DEF CatchError
<1>12. CASE Tick
    BY <1>2, <1>12 DEF Tick
<1>13. CASE UNCHANGED vars
    BY <1>2, <1>13 DEF vars
<1> QED BY <1>3, <1>4, <1>5, <1>6, <1>7, <1>8, <1>9, <1>10, <1>11, <1>12, <1>13
        DEF Next, TaskStep, RunStep

-----------------------------------------------------------------------------
LEMMA OneRunStep == TypeOK /\ StoreInv /\ OneRunInv /\ [Next]_vars => OneRunInv'
<1> SUFFICES ASSUME TypeOK, StoreInv, OneRunInv, [Next]_vars PROVE OneRunInv'
    OBVIOUS
<1> USE SynthesisAssumption, SynthesisNoneAssumption
<1> DEFINE RunsOK == \A r \in Runs : /\ r > current => runs[r].step = "idle"
                                     /\ runs[r].error => runs[r].fallback
                                     /\ runs[r].prefix # None => runs[r].prefix <= now
           AloneOK == lost = 0 => \A r \in Runs : runs[r].step \in Active =>
                                                  r = current /\ task = "running"
           WaitOK == lost = 0 /\ task = "waiting" => \A o \in objects : o.at <= since
           LaterOK == lost = 0 /\ runs[current].step \in {"ask", "put", "update"}
                         /\ record # None => record.run < current
           FreshOK == lost = 0 /\ runs[current].step = "ask" => \A o \in objects : o.at < now
           OwnOK == lost = 0 => \A o \in objects : runs[current].prefix = o.at =>
                                    o.run = current /\ o.fallback = runs[current].fallback
           ClockOK == /\ \A o \in objects : o.at <= now
                      /\ record # None => record.run <= current
                      /\ task = "waiting" => since <= now
<1>0. /\ OneRunInv <=> ClockOK /\ RunsOK /\ AloneOK /\ WaitOK /\ LaterOK /\ FreshOK /\ OwnOK
                        /\ RecordedReportOfOneRun
      /\ OneRunInv' <=> ClockOK' /\ RunsOK' /\ AloneOK' /\ WaitOK' /\ LaterOK' /\ FreshOK'
                        /\ OwnOK' /\ RecordedReportOfOneRun'
    BY DEF OneRunInv
<1>1. \A o \in objects : o.at \in Nat
    BY DEF TypeOK, Object
(* a run ends *)
<1>2. ASSUME NEW r \in Runs, NEW s \in {"failed", "returned"}, runs' = [runs EXCEPT ![r] = NoRun(s)],
             runs[r].step \in Active, task' # task => task' = "succeeded",
             UNCHANGED <<current, since, objects, record, now, lost>>
      PROVE  OneRunInv'
  <2>1. /\ runs'[r] = NoRun(s) /\ NoRun(s).step = s /\ NoRun(s).prefix = None /\ ~NoRun(s).error
        /\ \A k \in Runs : k # r => runs'[k] = runs[k]
      BY <1>2 DEF TypeOK, NoRun
  <2>2. RunsOK' /\ ClockOK'
      BY <1>2, <2>1 DEF OneRunInv, Active
  <2>3. AloneOK' /\ WaitOK'
      BY <1>2, <2>1 DEF OneRunInv, Active
  <2>4. current \in Runs
      BY DEF TypeOK
  <2>5. LaterOK' /\ FreshOK' /\ OwnOK'
      BY <1>1, <1>2, <2>1, <2>4 DEF OneRunInv
  <2>6. RecordedReportOfOneRun'
      BY <1>2 DEF OneRunInv, RecordedReportOfOneRun, Stored
  <2> QED BY <1>0, <2>2, <2>3, <2>5, <2>6
<1>3. ASSUME NEW r \in Runs, ReceiveAnswer(r) PROVE OneRunInv'
  <2>1. /\ UNCHANGED <<task, current, since, objects, record, now, lost>> /\ runs[r].step = "ask"
        /\ \A k \in Runs : k # r => runs'[k] = runs[k]
      BY <1>3 DEF ReceiveAnswer, TypeOK
  <2>2. /\ runs'[r].error => runs'[r].fallback
        /\ runs'[r].step \in {"put", "update", "failed"}
        /\ runs'[r].prefix \in {now, None}
      BY <1>3, AnswerMakes DEF NoRun
  <2>3. current \in Runs /\ r <= current
      BY <2>1 DEF TypeOK, OneRunInv, Runs
  <2>4. RunsOK' /\ ClockOK'
    <3>1. r \in Nat /\ current \in Nat /\ now \in Nat
        BY <2>3 DEF Runs, TypeOK
    <3>2. runs'[r].prefix # None => runs'[r].prefix <= now
        BY <2>2, <3>1
    <3> QED BY <2>1, <2>2, <2>3, <3>1, <3>2 DEF OneRunInv
  <2>5. AloneOK' /\ WaitOK'
      BY <2>1, <2>2 DEF OneRunInv, Active
  <2>6. LaterOK' /\ FreshOK' /\ OwnOK'
      BY <1>1, <2>1, <2>2, <2>3 DEF OneRunInv, Active, TypeOK
  <2>7. RecordedReportOfOneRun'
      BY <2>1 DEF OneRunInv, RecordedReportOfOneRun, Stored
  <2> QED BY <1>0, <2>4, <2>5, <2>6, <2>7
<1>4. ASSUME NEW r \in Runs, PutArtifact(r) PROVE OneRunInv'
  <2> DEFINE o == [at |-> runs[r].prefix, name |-> runs[r].put + 1, run |-> r,
                   fallback |-> runs[r].fallback]
  <2>1. /\ UNCHANGED <<task, current, since, record, now, lost>>
        /\ runs[r].step = "put" /\ runs'[r].step \in {"put", "update"}
        /\ runs'[r].prefix = runs[r].prefix /\ runs'[r].fallback = runs[r].fallback
        /\ runs'[r].error = runs[r].error
        /\ \A k \in Runs : k # r => runs'[k] = runs[k]
      BY <1>4 DEF PutArtifact, TypeOK, Run
  <2>2. \A p \in objects' : p \in objects \/ p = o
      BY <1>4 DEF PutArtifact
  <2>3. o.at \in Nat /\ o.at = runs[r].prefix /\ o.run = r /\ o.fallback = runs[r].fallback
      BY <2>1, RunTyped
  <2>4. current \in Runs /\ now \in Nat /\ runs[r].prefix # None
      BY <2>1 DEF TypeOK
  <2>5. lost = 0 => r = current /\ task = "running"
      BY <2>1 DEF OneRunInv, Active
  <2>6. RunsOK' /\ ClockOK'
      BY <2>1, <2>2, <2>3, <2>4 DEF OneRunInv
  <2>7. AloneOK' /\ WaitOK'
      BY <2>1, <2>5 DEF OneRunInv, Active
  <2>8. LaterOK' /\ FreshOK' /\ OwnOK'
      BY <2>1, <2>2, <2>3, <2>4, <2>5 DEF OneRunInv
  <2>9. ASSUME lost = 0, record # None, record.prefix # None PROVE record.prefix # runs[r].prefix
    <3>1. PICK p \in objects : p.at = record.prefix
        BY <2>9 DEF StoreInv, Full, Has, Artifacts
    <3>2. p.run = record.run
        BY <2>9, <3>1 DEF OneRunInv, RecordedReportOfOneRun, Stored
    <3>3. record.run < current /\ record.run \in Nat
        BY <2>1, <2>5, <2>9 DEF OneRunInv, TypeOK, Record, Runs
    <3> QED BY <2>4, <2>5, <2>9, <3>1, <3>2, <3>3 DEF OneRunInv, Runs
  <2>10. RecordedReportOfOneRun'
      BY <2>1, <2>2, <2>3, <2>9 DEF OneRunInv, RecordedReportOfOneRun, Stored
  <2> QED BY <1>0, <2>6, <2>7, <2>8, <2>10
<1>5. ASSUME NEW r \in Runs, UpdateIncident(r) PROVE OneRunInv'
  <2>1. CASE named /\ ~runs[r].summary
      BY <1>2, <1>5, <2>1 DEF UpdateIncident, Active
  <2>2. CASE ~(named /\ ~runs[r].summary)
    <3>1. /\ UNCHANGED <<task, current, since, objects, now, lost>>
          /\ runs[r].step = "update" /\ runs'[r].step = "return"
          /\ runs'[r].prefix = runs[r].prefix /\ runs'[r].fallback = runs[r].fallback
          /\ runs'[r].error = runs[r].error
          /\ \A k \in Runs : k # r => runs'[k] = runs[k]
        BY <1>5, <2>2 DEF UpdateIncident, TypeOK, Run
    <3>2. \/ record' = record
          \/ record' = [prefix |-> runs[r].prefix, error |-> runs[r].error, run |-> r]
        BY <1>5, <2>2 DEF UpdateIncident
    <3>3. /\ current \in Nat /\ r \in Nat /\ current \in Runs
          /\ r <= current
          /\ lost = 0 => r = current /\ task = "running"
        BY <3>1 DEF OneRunInv, TypeOK, Runs, Active
    <3>4. RunsOK' /\ AloneOK' /\ WaitOK' /\ LaterOK' /\ FreshOK' /\ OwnOK'
        BY <3>1, <3>3 DEF OneRunInv, Active
    <3>5. ClockOK'
        BY <3>1, <3>2, <3>3 DEF OneRunInv
    <3>6. RecordedReportOfOneRun'
      <4>1. CASE record' = record
          BY <3>1, <4>1 DEF OneRunInv, RecordedReportOfOneRun, Stored
      <4>2. CASE record' = [prefix |-> runs[r].prefix, error |-> runs[r].error, run |-> r]
        <5>1. record'.prefix = runs[r].prefix /\ record'.error = runs[r].error /\ record'.run = r
            BY <4>2
        <5>2. ASSUME lost = 0, NEW p \in objects, p.at = runs[r].prefix
              PROVE  p.run = r /\ p.fallback = runs[r].fallback
            BY <3>3, <5>2 DEF OneRunInv
        <5>3. runs[r].error => runs[r].fallback
            BY DEF OneRunInv
        <5> QED BY <3>1, <5>1, <5>2, <5>3 DEF RecordedReportOfOneRun, Stored
      <4> QED BY <3>2, <4>1, <4>2
    <3> QED BY <1>0, <3>4, <3>5, <3>6
  <2> QED BY <2>1, <2>2
<1>6. ASSUME NEW r \in Runs, Return(r) PROVE OneRunInv'
    BY <1>2, <1>6 DEF Return, Active
<1>7. ASSUME NEW r \in Runs, RunFails(r) PROVE OneRunInv'
    BY <1>2, <1>7 DEF RunFails
<1>8. ASSUME UNCHANGED <<objects, record, lost>> PROVE RecordedReportOfOneRun'
    BY <1>8 DEF OneRunInv, RecordedReportOfOneRun, Stored
<1>9. CASE TaskFails
  <2>1. /\ UNCHANGED <<current, runs, objects, record, now, lost>> /\ since' = now
        /\ runs[current].step \notin Active
      BY <1>9 DEF TaskFails, Active
  <2>2. current \in Runs /\ now \in Nat
      BY DEF TypeOK
  <2> QED BY <1>0, <1>8, <2>1, <2>2 DEF OneRunInv
<1>10. CASE LoseAnswer
  <2>1. /\ UNCHANGED <<current, runs, objects, record, now>> /\ since' = now /\ lost' = lost + 1
        /\ lost \in Nat /\ now \in Nat
      BY <1>10 DEF LoseAnswer, TypeOK
  <2>2. lost' # 0
      BY <2>1
  <2>3. RunsOK' /\ ClockOK'
      BY <2>1 DEF OneRunInv
  <2> QED BY <1>0, <2>2, <2>3 DEF RecordedReportOfOneRun
<1>11. CASE RetryTask
  <2>1. /\ UNCHANGED <<objects, record, lost>>
        /\ task = "waiting" /\ task' = "running" /\ current' = current + 1 /\ current' \in Runs
        /\ current \in Nat /\ current \in Runs
        /\ runs'[current'] = NoRun("ask")
        /\ \A k \in Runs : k # current' => runs'[k] = runs[k]
        /\ now' \in Nat /\ now <= now' /\ since < now'
    <3>1. current' = current + 1 /\ current' \in Runs /\ current \in Nat /\ current \in Runs
        BY <1>11, RunsAre DEF RetryTask, TypeOK, MaxAttempts
    <3>2. now' \in Nat /\ now <= now' /\ since < now'
        BY <1>11 DEF RetryTask, TypeOK
    <3> QED BY <1>11, <3>1, <3>2 DEF RetryTask, TypeOK
  <2>2. /\ NoRun("ask").step = "ask" /\ NoRun("ask").prefix = None /\ ~NoRun("ask").error
        /\ "ask" # "idle"
      BY DEF NoRun
  <2>3. \A r \in Runs : r \in Nat
      BY DEF Runs
  <2>4. record # None => record.run \in Nat
      BY DEF TypeOK, Record, Runs
  <2>5. RunsOK'
    <3> SUFFICES ASSUME NEW r \in Runs
                 PROVE  /\ r > current' => runs'[r].step = "idle"
                        /\ runs'[r].error => runs'[r].fallback
                        /\ runs'[r].prefix # None => runs'[r].prefix <= now'
        OBVIOUS
    <3>1. CASE r = current'
        BY <2>1, <2>2, <2>3, <3>1
    <3>2. CASE r # current'
      <4>1. runs[r].prefix \in Nat \cup {None} /\ now \in Nat
          BY RunTyped DEF TypeOK
      <4> QED BY <2>1, <2>3, <3>2, <4>1 DEF OneRunInv
    <3> QED BY <3>1, <3>2
  <2>6. ClockOK' /\ WaitOK'
      BY <1>1, <2>1, <2>4 DEF OneRunInv, TypeOK
  <2>7. AloneOK'
      BY <2>1, <2>2 DEF OneRunInv
  <2>8. LaterOK' /\ FreshOK'
    <3>1. lost = 0 => \A o \in objects : o.at <= since
        BY <2>1 DEF OneRunInv
    <3> QED BY <1>1, <2>1, <2>4, <3>1 DEF OneRunInv, TypeOK
  <2>9. OwnOK'
      BY <1>1, <2>1, <2>2
  <2> QED BY <1>0, <1>8, <2>1, <2>5, <2>6, <2>7, <2>8, <2>9
<1>12. CASE CatchError
  <2>1. /\ UNCHANGED <<current, runs, objects, record, now, lost>> /\ task = "waiting" /\ task' = "caught"
      BY <1>12 DEF CatchError
  <2> QED BY <1>0, <1>8, <2>1 DEF OneRunInv
<1>13. CASE Tick
  <2>1. /\ UNCHANGED <<task, since, current, runs, objects, record, lost>> /\ now' = now + 1
        /\ now \in Nat /\ since \in Nat
      BY <1>13 DEF Tick, TypeOK
  <2>2. RunsOK'
    <3>1. \A r \in Runs : runs[r].prefix \in Nat \cup {None}
        BY RunTyped
    <3> QED BY <2>1, <3>1 DEF OneRunInv
  <2>3. ClockOK' /\ FreshOK'
      BY <1>1, <2>1 DEF OneRunInv
  <2>4. AloneOK' /\ WaitOK' /\ LaterOK' /\ OwnOK'
      BY <2>1 DEF OneRunInv
  <2> QED BY <1>0, <1>8, <2>1, <2>2, <2>3, <2>4
<1>14. CASE UNCHANGED vars
    BY <1>0, <1>8, <1>14 DEF vars, OneRunInv
<1> QED BY <1>3, <1>4, <1>5, <1>6, <1>7, <1>9, <1>10, <1>11, <1>12, <1>13, <1>14
        DEF Next, TaskStep, RunStep

-----------------------------------------------------------------------------
LEMMA Stores == Spec => []StoreInv
<1>1. Init => StoreInv
    BY DEF Init, StoreInv, NoRun
<1> QED BY <1>1, StoreStep, SynthesisTypes, PTL DEF Spec

(* Whatever dies, fails or overlaps, each URI the record holds is that of   *)
(* an object in the bucket (RecordedReportStored).                          *)
THEOREM ReportsAreStored == Spec => []RecordedReportStored
<1>1. TypeOK /\ StoreInv => RecordedReportStored
  <2> SUFFICES ASSUME TypeOK, StoreInv, record # None, record.prefix # None
               PROVE  {o.name : o \in Stored(record.prefix)} = Artifacts
      BY DEF RecordedReportStored
  <2>1. \A n \in Artifacts : \E o \in Stored(record.prefix) : o.name = n
      BY DEF StoreInv, Full, Has, Stored
  <2>2. \A o \in Stored(record.prefix) : o.name \in Artifacts
      BY DEF Stored, TypeOK, Object
  <2> QED BY <2>1, <2>2
<1> QED BY <1>1, Stores, SynthesisTypes, PTL

(* A task that succeeds has left its report in the record and in full in    *)
(* the bucket (SuccessLeavesReport).                                        *)
THEOREM SuccessesLeaveReports == Spec => []SuccessLeavesReport
<1>1. TypeOK /\ StoreInv => SuccessLeavesReport
  <2> SUFFICES ASSUME TypeOK, StoreInv, task = "succeeded", bucket
               PROVE  \E o \in objects : {p.name : p \in Stored(o.at)} = Artifacts
      BY DEF SuccessLeavesReport, StoreInv
  <2>1. PICK o \in objects : Full(objects, o.at)
      BY DEF StoreInv
  <2>2. \A n \in Artifacts : \E p \in Stored(o.at) : p.name = n
      BY <2>1 DEF Full, Has, Stored
  <2>3. \A p \in Stored(o.at) : p.name \in Artifacts
      BY DEF Stored, TypeOK, Object
  <2> QED BY <2>2, <2>3
<1> QED BY <1>1, Stores, SynthesisTypes, PTL

LEMMA OneRun == Spec => []OneRunInv
<1>1. Init => OneRunInv
  <2>1. ASSUME Init PROVE /\ objects = {} /\ record = None /\ task = "running" /\ current = 1
                          /\ \A r \in Runs : runs[r] = NoRun(IF r = 1 THEN "ask" ELSE "idle")
      BY <2>1 DEF Init
  <2> QED BY <2>1, RunsAre DEF OneRunInv, RecordedReportOfOneRun, NoRun, Active
<1> QED BY <1>1, OneRunStep, Stores, SynthesisTypes, PTL DEF Spec

(* As long as no answer is lost, the stored report the record names is      *)
(* entirely that of the run that wrote the record (RecordedReportOfOneRun). *)
THEOREM ReportsAreOfOneRun == Spec => []RecordedReportOfOneRun
<1>1. OneRunInv => RecordedReportOfOneRun
    BY DEF OneRunInv
<1> QED BY <1>1, OneRun, PTL

-----------------------------------------------------------------------------
(* How far the task and its runs have to go.  That they get there needs     *)
(* fairness; that they do not go in circles is proved here.                 *)

(* the steps of the task, and of a run, that are left at most *)
TaskLeft ==
    CASE task = "running" -> 2 * (MaxAttempts + 2 - current)
      [] task = "waiting" -> 2 * (MaxAttempts + 2 - current) - 1
      [] OTHER            -> 0

RunLeft(run) ==
    CASE run.step \in {"idle", "ask"} -> LastArtifact + 3
      [] run.step = "put"             -> LastArtifact - run.put + 2
      [] run.step = "update"          -> 2
      [] run.step = "return"          -> 1
      [] OTHER                        -> 0

StepsLeft == TaskLeft + RunLeft(runs[1]) + RunLeft(runs[2]) + RunLeft(runs[3])

(* Each step of the task and of a run brings the end nearer; the clock      *)
(* leaves it where it is.                                                   *)
NeverGoesBack ==
    [][StepsLeft' < StepsLeft \/ (Tick /\ StepsLeft' = StepsLeft)]_vars

LEMMA RunLeftIs ==
    ASSUME NEW run \in Run
    PROVE  /\ run.step \in {"idle", "ask"} => RunLeft(run) = LastArtifact + 3
           /\ run.step = "put"    => RunLeft(run) = LastArtifact - run.put + 2
           /\ run.step = "update" => RunLeft(run) = 2
           /\ run.step = "return" => RunLeft(run) = 1
           /\ run.step \in {"returned", "failed"} => RunLeft(run) = 0
           /\ run.put \in 0..LastArtifact /\ RunLeft(run) \in 0..(LastArtifact + 3)
<1>1. run.put \in 0..LastArtifact /\ run.step \in Steps
    BY DEF Run
<1>2. /\ run.step \in {"idle", "ask"} => RunLeft(run) = LastArtifact + 3
      /\ run.step = "put"    => RunLeft(run) = LastArtifact - run.put + 2
      /\ run.step = "update" => RunLeft(run) = 2
      /\ run.step = "return" => RunLeft(run) = 1
      /\ run.step \in {"returned", "failed"} => RunLeft(run) = 0
    BY DEF RunLeft
<1> QED BY <1>1, <1>2, SynthesisAssumption DEF Steps, Active

LEMMA NoRunLeft ==
    /\ RunLeft(NoRun("failed")) = 0 /\ RunLeft(NoRun("returned")) = 0
    /\ RunLeft(NoRun("ask")) = LastArtifact + 3
  BY DEF RunLeft, NoRun

(* One run goes on, or the task does, and the other runs stay where they    *)
(* are.                                                                     *)
OthersStay(r) == \A k \in Runs : k # r => runs'[k] = runs[k]
TakesOff(r)   == RunLeft(runs'[r]) + TaskLeft' < RunLeft(runs[r]) + TaskLeft

LEMMA LeftTyped ==
    ASSUME TypeOK
    PROVE  /\ TaskLeft \in 0..6
           /\ \A k \in Runs : /\ runs[k] \in Run /\ runs[k].put \in 0..LastArtifact
                              /\ RunLeft(runs[k]) \in 0..(LastArtifact + 3)
<1>1. TaskLeft \in 0..6
    BY DEF TaskLeft, TypeOK, Runs, MaxAttempts
<1> QED BY <1>1, RunTyped, RunLeftIs

LEMMA OneRunGoesOn ==
    ASSUME TypeOK, TypeOK', NEW r \in Runs, OthersStay(r), TakesOff(r)
    PROVE  StepsLeft' < StepsLeft
<1>1. /\ TaskLeft \in Int /\ RunLeft(runs[1]) \in Int /\ RunLeft(runs[2]) \in Int
      /\ RunLeft(runs[3]) \in Int
    BY LeftTyped, RunsAre, SynthesisAssumption
<1>2. TaskLeft' \in Int /\ RunLeft(runs'[r]) \in Int
  <2>1. TaskLeft' \in 0..6
      BY DEF TaskLeft, TypeOK, Runs, MaxAttempts
  <2>2. runs'[r] \in Run
      BY DEF TypeOK
  <2> QED BY <2>1, <2>2, RunLeftIs, SynthesisAssumption
<1>3. /\ StepsLeft' = TaskLeft' + RunLeft(runs'[1]) + RunLeft(runs'[2]) + RunLeft(runs'[3])
      /\ StepsLeft = TaskLeft + RunLeft(runs[1]) + RunLeft(runs[2]) + RunLeft(runs[3])
    BY DEF StepsLeft, RunLeft
<1>4. CASE r = 1
  <2>1. runs'[2] = runs[2] /\ runs'[3] = runs[3]
      BY <1>4, RunsAre DEF OthersStay
  <2> QED BY <1>1, <1>2, <1>3, <1>4, <2>1 DEF TakesOff
<1>5. CASE r = 2
  <2>1. runs'[1] = runs[1] /\ runs'[3] = runs[3]
      BY <1>5, RunsAre DEF OthersStay
  <2> QED BY <1>1, <1>2, <1>3, <1>5, <2>1 DEF TakesOff
<1>6. CASE r = 3
  <2>1. runs'[1] = runs[1] /\ runs'[2] = runs[2]
      BY <1>6, RunsAre DEF OthersStay
  <2> QED BY <1>1, <1>2, <1>3, <1>6, <2>1 DEF TakesOff
<1> QED BY <1>4, <1>5, <1>6, RunsAre

(* Each step of a run, its failure too.                                     *)
LEMMA RunStepGoesOn ==
    ASSUME TypeOK, TypeOK', NEW r \in Runs, RunStep(r)
    PROVE  OthersStay(r) /\ TakesOff(r)
<1> USE SynthesisAssumption
<1>1. runs[r] \in Run /\ runs[r].put \in 0..LastArtifact /\ TaskLeft \in Int
    BY LeftTyped
<1>2. ASSUME UNCHANGED <<task, current>>, RunLeft(runs'[r]) \in Int, RunLeft(runs[r]) \in Int,
             RunLeft(runs'[r]) < RunLeft(runs[r])
      PROVE  TakesOff(r)
  <2>1. TaskLeft' = TaskLeft
      BY <1>2 DEF TaskLeft
  <2> QED BY <1>1, <1>2, <2>1 DEF TakesOff
<1>3. CASE ReceiveAnswer(r)
  <2>1. RunLeft(runs[r]) = LastArtifact + 3
      BY <1>1, <1>3, RunLeftIs DEF ReceiveAnswer
  <2>2. OthersStay(r) /\ runs'[r].step \in {"failed", "put", "update"}
    <3>1. PICK answer \in Answers :
            runs' = [runs EXCEPT ![r] =
               IF answer = "not rendered"
               THEN NoRun("failed")
               ELSE [step |-> IF bucket THEN "put" ELSE "update",
                     prefix |-> IF bucket THEN now ELSE None, put |-> 0,
                     fallback |-> Fallback(answer), error |-> ParseError(answer),
                     summary |-> answer # "no summary"]]
        BY <1>3 DEF ReceiveAnswer
    <3>2. CASE answer = "not rendered"
        BY <3>1, <3>2 DEF OthersStay, TypeOK, NoRun
    <3>3. CASE answer # "not rendered"
        BY <3>1, <3>3 DEF OthersStay, TypeOK
    <3> QED BY <3>2, <3>3
  <2>3. runs'[r] \in Run /\ runs'[r].put \in 0..LastArtifact
      BY LeftTyped DEF TypeOK, Run
  <2>4. RunLeft(runs'[r]) \in Int /\ RunLeft(runs'[r]) < LastArtifact + 3
      BY <2>2, <2>3, RunLeftIs
  <2>5. UNCHANGED <<task, current>>
      BY <1>3 DEF ReceiveAnswer
  <2> QED BY ONLY <1>2, <2>1, <2>2, <2>4, <2>5, SynthesisAssumption
<1>4. CASE PutArtifact(r)
  <2>1. RunLeft(runs[r]) = LastArtifact - runs[r].put + 2 /\ runs[r].put < LastArtifact
      BY <1>1, <1>4, RunLeftIs DEF PutArtifact, TypeOK
  <2>2. /\ OthersStay(r)
        /\ runs'[r].put = runs[r].put + 1
        /\ runs'[r].step = IF runs[r].put + 1 = LastArtifact THEN "update" ELSE "put"
      BY <1>1, <1>4 DEF PutArtifact, OthersStay, TypeOK, Run
  <2>3. runs'[r] \in Run
      BY DEF TypeOK
  <2>4. RunLeft(runs'[r]) \in Int /\ RunLeft(runs'[r]) < RunLeft(runs[r])
      BY <1>1, <2>1, <2>2, <2>3, RunLeftIs
  <2> QED BY <1>1, <1>2, <1>4, <2>1, <2>2, <2>4 DEF PutArtifact
<1>5. CASE UpdateIncident(r)
  <2>1. RunLeft(runs[r]) = 2
      BY <1>1, <1>5, RunLeftIs DEF UpdateIncident
  <2>2. OthersStay(r) /\ runs'[r].step \in {"failed", "return"}
      BY <1>1, <1>5 DEF UpdateIncident, OthersStay, TypeOK, NoRun, Run
  <2>3. runs'[r] \in Run
      BY DEF TypeOK
  <2>4. RunLeft(runs'[r]) \in 0..1
      BY <2>2, <2>3, RunLeftIs
  <2> QED BY <1>2, <1>5, <2>1, <2>2, <2>4 DEF UpdateIncident
<1>6. CASE Return(r)
  <2>1. RunLeft(runs[r]) = 1
      BY <1>1, <1>6, RunLeftIs DEF Return
  <2>2. OthersStay(r) /\ RunLeft(runs'[r]) = 0
      BY <1>6, NoRunLeft DEF Return, OthersStay, TypeOK
  <2>3. TaskLeft' \in Int /\ TaskLeft' < TaskLeft + 1
    <3>1. CASE task' = "succeeded"
        BY <1>1, <3>1, LeftTyped DEF TaskLeft
    <3>2. CASE task' # "succeeded"
      <4>1. UNCHANGED <<task, current>>
          BY <1>6, <3>2 DEF Return
      <4> QED BY <1>1, <4>1 DEF TaskLeft
    <3> QED BY <3>1, <3>2
  <2>4. 0 + TaskLeft' < 1 + TaskLeft
      BY ONLY <1>1, <2>3
  <2>5. RunLeft(runs'[r]) + TaskLeft' < RunLeft(runs[r]) + TaskLeft
      BY ONLY <2>1, <2>2, <2>4
  <2> QED BY <2>2, <2>5 DEF TakesOff
<1>7. CASE RunFails(r)
  <2>1. runs[r].step = "put" => runs[r].put < LastArtifact
      BY DEF TypeOK
  <2>2. RunLeft(runs[r]) \in Int /\ RunLeft(runs[r]) > 0
      BY <1>1, <1>7, <2>1, RunLeftIs DEF RunFails, Active
  <2>3. OthersStay(r) /\ RunLeft(runs'[r]) = 0
      BY <1>7, NoRunLeft DEF RunFails, OthersStay, TypeOK
  <2> QED BY <1>2, <1>7, <2>2, <2>3 DEF RunFails
<1> QED BY <1>3, <1>4, <1>5, <1>6, <1>7 DEF RunStep

(* Each step of the task; a retry has a run to start that was never used.   *)
LEMMA TaskStepGoesOn ==
    ASSUME TypeOK, TypeOK', OneRunInv, TaskStep
    PROVE  \E r \in Runs : OthersStay(r) /\ TakesOff(r)
<1> USE SynthesisAssumption
<1>1. \A k \in Runs : RunLeft(runs[k]) \in Int
    BY LeftTyped
<1>2. CASE TaskFails \/ LoseAnswer \/ CatchError
  <2>1. TaskLeft' \in Int /\ TaskLeft \in Int /\ TaskLeft' < TaskLeft
      BY <1>2 DEF TaskFails, LoseAnswer, CatchError, TaskLeft, TypeOK, Runs, MaxAttempts
  <2>2. OthersStay(1) /\ runs'[1] = runs[1]
      BY <1>2 DEF TaskFails, LoseAnswer, CatchError, OthersStay
  <2>3. TakesOff(1)
      BY <1>1, <2>1, <2>2, RunsAre DEF TakesOff
  <2> QED BY <2>2, <2>3, RunsAre
<1>3. CASE RetryTask
  <2> DEFINE r == current + 1
  <2>1. r \in Runs
      BY <1>3 DEF RetryTask, TypeOK, Runs, MaxAttempts
  <2>2. TaskLeft' \in Int /\ TaskLeft \in Int /\ TaskLeft' < TaskLeft
      BY <1>3 DEF RetryTask, TaskLeft, TypeOK, Runs, MaxAttempts
  <2>3. OthersStay(r) /\ runs'[r] = NoRun("ask")
      BY <1>3, <2>1 DEF RetryTask, OthersStay, TypeOK
  <2>4. runs[r].step = "idle"
      BY <2>1 DEF OneRunInv, TypeOK, Runs
  <2> HIDE DEF r
  <2>5. RunLeft(runs[r]) = LastArtifact + 3 /\ RunLeft(runs'[r]) = LastArtifact + 3
      BY <2>1, <2>3, <2>4, LeftTyped, RunLeftIs, NoRunLeft
  <2> QED BY <2>1, <2>2, <2>3, <2>5 DEF TakesOff
<1> QED BY <1>2, <1>3 DEF TaskStep

LEMMA GoesOn ==
    ASSUME TypeOK, TypeOK', OneRunInv, Next
    PROVE  StepsLeft' < StepsLeft \/ (Tick /\ StepsLeft' = StepsLeft)
<1>1. Tick => StepsLeft' = StepsLeft
  <2>1. Tick => UNCHANGED <<task, current, runs>>
      BY DEF Tick
  <2> QED BY <2>1 DEF StepsLeft, TaskLeft, RunLeft
<1> QED BY <1>1, OneRunGoesOn, RunStepGoesOn, TaskStepGoesOn DEF Next

(* Every step of the task or of one of its runs, a failure, a retry or a    *)
(* lost answer too, brings the end of them all nearer (MaxAttempts, the     *)
(* artifacts in their order): from the start there are at most              *)
(* 3 * LastArtifact + 15 of them, for any number of artifacts.              *)
THEOREM SynthesisNeverGoesBack ==
    Spec => NeverGoesBack /\ [](StepsLeft \in 0..(3 * LastArtifact + 15))
<1>1. TypeOK /\ TypeOK' /\ OneRunInv /\ [Next]_vars =>
        [StepsLeft' < StepsLeft \/ (Tick /\ StepsLeft' = StepsLeft)]_vars
    BY GoesOn
<1>2. TypeOK => StepsLeft \in 0..(3 * LastArtifact + 15)
    BY LeftTyped, RunsAre, SynthesisAssumption DEF StepsLeft
<1> QED BY <1>1, <1>2, SynthesisTypes, OneRun, PTL DEF Spec, NeverGoesBack
=============================================================================
