-------------------------- MODULE RemediationProofs --------------------------
(***************************************************************************)
(* Theorems about RemediationAgent, for every cluster, every set of tool   *)
(* calls, every kind of incident id, any number of runs beside each other  *)
(* and every bound.                                                        *)
(***************************************************************************)
EXTENDS RemediationAgent, McpServerProofs, FiniteSetTheorems

USE CallsAssumption, ClusterAssumption, NoneAssumption,
    BoundsAssumption, EventIdsAssumption, UnknownToolAssumption

-----------------------------------------------------------------------------
LEMMA HangupType ==
    ASSUME ServerTypeOK, conn \in [Runs -> Nat], NEW r \in Runs, Hangup(r)
    PROVE  ServerTypeOK' /\ conn' \in [Runs -> Nat]
BY DEF ServerTypeOK, Hangup, clusterVars, storeVars

(* Appending an entry keeps an execution_log a log. *)
LEMMA LogEntryType ==
    ASSUME log \in [Runs -> Seq(Entry)], NEW r \in Runs,
           NEW tool \in TOOLS \cup {UnknownTool, "completion"},
           NEW target \in Targets \cup {None}, NEW s \in Status,
           NEW uri \in EvidenceKey \cup {None}, LogEntry(r, tool, target, s, uri)
    PROVE  log' \in [Runs -> Seq(Entry)]
<1> DEFINE entry == [tool |-> tool, target |-> target, status |-> s, uri |-> uri]
<1>1. entry \in Entry
  BY DEF Entry
<1>2. log' = [log EXCEPT ![r] = Append(@, entry)]
  BY DEF LogEntry
<1> HIDE DEF entry
<1> QED BY <1>1, <1>2

LEMMA ResultType ==
    ASSUME TypeOK, NEW r \in Runs, call[r] \in Calls, NEW s \in Status,
           NEW uri \in EvidenceKey \cup {None}, Result(r, s, uri)
    PROVE  /\ log' \in [Runs -> Seq(Entry)]
           /\ phase' = [phase EXCEPT ![r] = "turn"] /\ phase' \in [Runs -> Phase]
           /\ call' = [call EXCEPT ![r] = None] /\ call' \in [Runs -> Calls \cup {None}]
           /\ attempt' = [attempt EXCEPT ![r] = 0] /\ attempt' \in [Runs -> 0..MaxAttempts]
<1>1. log' \in [Runs -> Seq(Entry)]
  BY CallShape, LogEntryType DEF Result, TypeOK
<1>2. "turn" \in Phase
  BY DEF Phase, Working
<1>3. /\ phase' = [phase EXCEPT ![r] = "turn"] /\ call' = [call EXCEPT ![r] = None]
      /\ attempt' = [attempt EXCEPT ![r] = 0]
  BY DEF Result, Goes
<1>4. attempt' \in [Runs -> 0..MaxAttempts] /\ call' \in [Runs -> Calls \cup {None}]
  BY <1>3 DEF TypeOK
<1>5. phase' \in [Runs -> Phase]
  BY <1>2, <1>3 DEF TypeOK
<1> QED BY <1>1, <1>3, <1>4, <1>5

(* A call that another attempt or another entry follows. *)
LEMMA AttemptFailedType ==
    ASSUME TypeOK, NEW r \in Runs, call[r] \in Calls, NEW n \in Nat, AttemptFailed(r, n)
    PROVE  /\ log' \in [Runs -> Seq(Entry)] /\ phase' \in [Runs -> Phase]
           /\ call' \in [Runs -> Calls \cup {None}] /\ attempt' \in [Runs -> 0..MaxAttempts]
           /\ \/ /\ phase' = [phase EXCEPT ![r] = "post"] /\ call' = call
                 /\ attempt' = [attempt EXCEPT ![r] = n] /\ n < MaxAttempts
              \/ /\ phase' = [phase EXCEPT ![r] = "turn"]
                 /\ call' = [call EXCEPT ![r] = None]
                 /\ attempt' = [attempt EXCEPT ![r] = 0]
<1>1. "failed" \in Status /\ "post" \in Phase
  BY DEF Status, Phase, Working
<1>2. CASE n < MaxAttempts
  <2>1. /\ phase' = [phase EXCEPT ![r] = "post"] /\ attempt' = [attempt EXCEPT ![r] = n]
        /\ UNCHANGED <<log, call>>
    BY <1>2 DEF AttemptFailed, Goes
  <2> QED BY <1>1, <1>2, <2>1 DEF TypeOK
<1>3. CASE ~(n < MaxAttempts)
  <2>1. Result(r, "failed", None)
    BY <1>3 DEF AttemptFailed
  <2> QED BY <1>1, <2>1, ResultType
<1> QED BY <1>2, <1>3

(* What a run has in its hands is consistent if the call is. *)
InHand(k) == /\ phase[k] \in {"post", "wait"} => call[k] \in Calls
             /\ phase[k] = "post" => attempt[k] < MaxAttempts

(* A step of run r alone leaves the others what they had in their hands.   *)
LEMMA InHandKept ==
    ASSUME TypeOK, NEW r \in Runs, InHand(r)',
           \A k \in Runs \ {r} : /\ phase'[k] = phase[k]
                                 /\ call'[k] = call[k] /\ attempt'[k] = attempt[k]
    PROVE  \A k \in Runs : InHand(k)'
<1>1. \A k \in Runs : InHand(k)
  BY DEF TypeOK, InHand
<1>2. ASSUME NEW k \in Runs \ {r} PROVE InHand(k)'
  BY <1>1, <1>2 DEF InHand
<1> QED BY <1>2

(* The log is finite, so what is counted in it is a number. *)
LEMMA ActionsTakenType ==
    ASSUME NEW r \in Runs, log[r] \in Seq(Entry)
    PROVE  ActionsTaken(r) \in Nat
<1>1. IsFiniteSet(DOMAIN log[r])
  BY FS_Interval
<1>2. IsFiniteSet({i \in DOMAIN log[r] : log[r][i].tool # "completion"})
  BY <1>1, FS_Subset
<1> QED BY <1>2, FS_CardinalityType DEF ActionsTaken

LEMMA EvidenceUrisType ==
    ASSUME NEW r \in Runs, log[r] \in Seq(Entry)
    PROVE  EvidenceUris(r) \subseteq EvidenceKey
<1>1. \A i \in DOMAIN log[r] : log[r][i] \in Entry
  OBVIOUS
<1>2. \A i \in DOMAIN log[r] : log[r][i].uri \in EvidenceKey \cup {None}
  BY <1>1 DEF Entry
<1> QED BY <1>2 DEF EvidenceUris

LEMMA EndsType ==
    ASSUME TypeOK, NEW r \in Runs, Ends(r)
    PROVE  /\ phase' \in [Runs -> Phase] /\ phase'[r] = "over"
           /\ \A k \in Runs \ {r} : /\ phase'[k] = phase[k] /\ call'[k] = call[k]
                                    /\ attempt'[k] = attempt[k] /\ log'[k] = log[k]
           /\ iteration' \in [Runs -> 0..MaxIterations] /\ blocks' \in [Runs -> 0..MaxBlocks]
           /\ log' \in [Runs -> Seq(Entry)] /\ log'[r] = <<>>
           /\ call' \in [Runs -> Calls \cup {None}] /\ attempt' \in [Runs -> 0..MaxAttempts]
<1>1. "over" \in Phase /\ <<>> \in Seq(Entry)
  BY DEF Phase
<1> QED BY <1>1 DEF Ends, Goes, TypeOK

(* A step of a run keeps every type, and a call in hand where one is made. *)
LEMMA RunStepType ==
    ASSUME TypeOK, NEW r \in Runs, RunStep(r)
    PROVE  TypeOK'
<1> USE DEF TypeOK, Goes
<1>s. "success" \in Status /\ "failed" \in Status /\ "blocked" \in Status
  BY DEF Status
<1>p. /\ "turn" \in Phase /\ "post" \in Phase /\ "wait" \in Phase /\ "update" \in Phase
      /\ "return" \in Phase /\ "returned" \in Phase
  BY DEF Phase, Working
<1>h. (\A k \in Runs : InHand(k)') => \A k \in Runs :
         /\ phase'[k] \in {"post", "wait"} => call'[k] \in Calls
         /\ phase'[k] = "post" => attempt'[k] < MaxAttempts
  BY DEF InHand
<1>i. InHand(r)
  BY DEF InHand
<1>1. CASE ModelCallsTools(r)
  <2>1. \A k \in Runs : InHand(k)'
    BY <1>1, <1>i, InHandKept DEF ModelCallsTools, Turns, InHand
  <2> QED BY <1>1, <1>p, <1>h, <2>1, ServerUnchangedType DEF ModelCallsTools, Turns, taskVars, recordVars
<1>2. CASE ModelStops(r)
  <2>1. \A k \in Runs : InHand(k)'
    BY <1>2, InHandKept DEF ModelStops, InHand
  <2>2. log' \in [Runs -> Seq(Entry)]
    BY <1>2, <1>s, LogEntryType DEF ModelStops
  <2> QED BY <1>2, <1>p, <1>h, <2>1, <2>2, ServerUnchangedType DEF ModelStops, taskVars, recordVars
<1>3. CASE IterationsExhausted(r)
  <2>1. \A k \in Runs : InHand(k)'
    BY <1>3, InHandKept DEF IterationsExhausted, InHand
  <2> QED BY <1>3, <1>p, <1>h, <2>1, ServerUnchangedType DEF IterationsExhausted, taskVars, recordVars
<1>4. CASE BlockTool(r)
  <2>1. PICK c \in Calls : LogEntry(r, c.tool, c.target, "blocked", None)
    BY <1>4 DEF BlockTool
  <2>2. log' \in [Runs -> Seq(Entry)]
    BY <2>1, <1>s, CallShape, LogEntryType
  <2>3. blocks' \in [Runs -> 0..MaxBlocks] /\ UNCHANGED <<phase, call, attempt>>
    BY <1>4 DEF BlockTool, NextBlock
  <2> QED BY <1>4, <2>2, <2>3, ServerUnchangedType DEF BlockTool, taskVars, recordVars
<1>5. CASE RefuseUnknownTool(r)
  <2>1. log' \in [Runs -> Seq(Entry)]
    BY <1>5, <1>s, LogEntryType DEF RefuseUnknownTool
  <2>2. blocks' \in [Runs -> 0..MaxBlocks] /\ UNCHANGED <<phase, call, attempt>>
    BY <1>5 DEF RefuseUnknownTool, NextBlock
  <2> QED BY <1>5, <2>1, <2>2, ServerUnchangedType DEF RefuseUnknownTool, taskVars, recordVars
<1>6. CASE CallTool(r)
  <2>1. PICK c \in Calls : Calling(r, c)
    BY <1>6 DEF CallTool
  <2>2. \A k \in Runs : InHand(k)'
    BY <2>1, InHandKept DEF Calling, InHand
  <2> QED BY <2>1, <1>p, <1>h, <2>2, ServerUnchangedType DEF Calling, NextBlock, taskVars, recordVars
<1>7. CASE Post(r)
  <2>1. sent' \in Nat /\ call[r] \in Calls
    BY <1>7 DEF Post
  <2>2. ServerTypeOK'
    <3>1. CarriesIncident(call[r]) \in IncidentIds
      BY DEF CarriesIncident, IncidentIds
    <3>2. [id |-> sent', call |-> call[r], incident |-> CarriesIncident(call[r]), status |-> "success",
           step |-> "start", todo |-> {}, key |-> None] \in Thread
      BY <2>1, <1>s, <3>1 DEF Thread
    <3> QED BY <1>7, <2>1, <3>2 DEF Post, Request, ServerTypeOK, clusterVars, storeVars
  <2>3. attempt' \in [Runs -> 0..MaxAttempts] /\ conn' \in [Runs -> Nat]
    BY <1>7, <2>1 DEF Post
  <2>4. \A k \in Runs : InHand(k)'
    BY <1>7, <2>1, InHandKept DEF Post, InHand
  <2> QED BY <1>7, <1>p, <1>h, <2>1, <2>2, <2>3, <2>4 DEF Post, taskVars, recordVars
<1>8. ASSUME NEW n \in Nat, AttemptFailed(r, n), phase[r] \in {"post", "wait"}
      PROVE  \A k \in Runs : InHand(k)'
  <2>1. call[r] \in Calls
    BY <1>8
  <2>2. r \in DOMAIN phase /\ r \in DOMAIN call /\ r \in DOMAIN attempt
    OBVIOUS
  <2>3. /\ InHand(r)'
        /\ \A k \in Runs \ {r} : /\ phase'[k] = phase[k]
                                 /\ call'[k] = call[k] /\ attempt'[k] = attempt[k]
    <3>1. CASE /\ phase' = [phase EXCEPT ![r] = "post"] /\ call' = call
               /\ attempt' = [attempt EXCEPT ![r] = n] /\ n < MaxAttempts
      BY <2>1, <2>2, <3>1 DEF InHand
    <3>2. CASE /\ phase' = [phase EXCEPT ![r] = "turn"]
               /\ call' = [call EXCEPT ![r] = None]
               /\ attempt' = [attempt EXCEPT ![r] = 0]
      BY <2>2, <3>2 DEF InHand
    <3> QED BY <1>8, <2>1, <3>1, <3>2, AttemptFailedType
  <2> QED BY <2>3, InHandKept
<1>9. ASSUME NEW s \in Status, NEW uri \in EvidenceKey \cup {None}, Result(r, s, uri),
             phase[r] \in {"post", "wait"}
      PROVE  \A k \in Runs : InHand(k)'
  <2>1. call[r] \in Calls
    BY <1>9
  <2>2. /\ phase' = [phase EXCEPT ![r] = "turn"] /\ call' = [call EXCEPT ![r] = None]
        /\ attempt' = [attempt EXCEPT ![r] = 0]
    BY <1>9, <2>1, ResultType
  <2>3. InHand(r)'
    BY <2>2 DEF InHand
  <2>4. \A k \in Runs \ {r} : /\ phase'[k] = phase[k]
                              /\ call'[k] = call[k] /\ attempt'[k] = attempt[k]
    BY <2>2
  <2> QED BY <2>3, <2>4, InHandKept
<1>10. CASE ConnectFails(r)
  <2>1. AttemptFailed(r, attempt[r] + 1) /\ attempt[r] + 1 \in Nat /\ call[r] \in Calls
    BY <1>10 DEF ConnectFails
  <2>2. \A k \in Runs : InHand(k)'
    BY <1>8, <1>10, <2>1 DEF ConnectFails
  <2> QED BY <1>10, <1>h, <2>1, <2>2, ServerUnchangedType, AttemptFailedType
          DEF ConnectFails, taskVars, recordVars
<1>11. CASE CallRefused(r)
  <2>1. Result(r, "failed", None) /\ call[r] \in Calls
    BY <1>11 DEF CallRefused
  <2>2. \A k \in Runs : InHand(k)'
    BY <1>9, <1>11, <1>s, <2>1 DEF CallRefused
  <2> QED BY <1>11, <1>h, <1>s, <2>1, <2>2, ServerUnchangedType, ResultType
          DEF CallRefused, taskVars, recordVars
<1>12. CASE TimesOut(r)
  <2>1. AttemptFailed(r, attempt[r]) /\ attempt[r] \in Nat /\ call[r] \in Calls /\ Hangup(r)
    BY <1>12 DEF TimesOut
  <2>2. \A k \in Runs : InHand(k)'
    BY <1>8, <1>12, <2>1 DEF TimesOut
  <2> QED BY <1>12, <1>h, <2>1, <2>2, HangupType, AttemptFailedType
          DEF TimesOut, taskVars, recordVars
<1>13. CASE ReadReply(r)
  <2>1. PICK reply \in replies : Result(r, reply.status, reply.uri)
    BY <1>13 DEF ReadReply
  <2>2. reply.status \in Status /\ reply.uri \in EvidenceKey \cup {None} /\ call[r] \in Calls
    BY <1>13 DEF ServerTypeOK, Reply, ReadReply
  <2>3. \A k \in Runs : InHand(k)'
    BY <1>9, <1>13, <2>1, <2>2 DEF ReadReply
  <2>4. Hangup(r)
    BY <1>13 DEF ReadReply
  <2> QED BY <1>13, <1>h, <2>1, <2>2, <2>3, <2>4, HangupType, ResultType
          DEF ReadReply, taskVars, recordVars
<1>14. CASE UpdateIncidentStatus(r)
  <2>1. \A k \in Runs : InHand(k)'
    BY <1>14, InHandKept DEF UpdateIncidentStatus, InHand
  <2>2. Written(r) \in Record
    BY ActionsTakenType, EvidenceUrisType DEF Written, Record
  <2>3. record' \in Record /\ writer' \in {0} \cup Runs
    BY <1>14, <2>2 DEF UpdateIncidentStatus, recordVars
  <2> QED BY <1>14, <1>p, <1>h, <2>1, <2>3, ServerUnchangedType DEF UpdateIncidentStatus, taskVars
<1>15. CASE Return(r)
  <2>1. \A k \in Runs : InHand(k)'
    BY <1>15, InHandKept DEF Return, InHand
  <2> QED BY <1>15, <1>p, <1>h, <2>1, ServerUnchangedType DEF Return, recordVars
<1>16. CASE ReturnInVain(r)
  <2>1. Ends(r)
    BY <1>16 DEF ReturnInVain
  <2>2. \A k \in Runs : InHand(k)'
    BY <2>1, EndsType, InHandKept DEF InHand
  <2> QED BY <1>16, <1>h, <2>1, <2>2, EndsType, ServerUnchangedType
          DEF ReturnInVain, taskVars, recordVars
<1>17. CASE LambdaFails(r)
  <2>1. Ends(r) /\ Hangup(r)
    BY <1>17 DEF LambdaFails
  <2>2. \A k \in Runs : InHand(k)'
    BY <2>1, EndsType, InHandKept DEF InHand
  <2> QED BY <1>17, <1>h, <2>1, <2>2, EndsType, HangupType DEF LambdaFails, taskVars, recordVars
<1> QED
  BY <1>1, <1>2, <1>3, <1>4, <1>5, <1>6, <1>7, <1>10, <1>11, <1>12, <1>13, <1>14, <1>15, <1>16,
     <1>17, RunStep(r) DEF RunStep

LEMMA TypeStep ==
    ASSUME TypeOK, [Next]_vars
    PROVE  TypeOK'
<1> USE DEF TypeOK
<1>1. ASSUME NEW r \in Runs, RunStep(r) PROVE TypeOK'
  BY <1>1, RunStepType
<1>2. CASE LoseAnswer
  BY <1>2, ServerUnchangedType DEF LoseAnswer, runVars, recordVars
<1>3. CASE RetryTask
  <2>1. current' \in Runs
    BY <1>3 DEF RetryTask, Runs
  <2>2. phase' \in [Runs -> Phase] /\ \A k \in Runs : InHand(k)'
    <3>1. "invoke" \in Phase
      BY DEF Phase, Working
    <3>2. phase' = [phase EXCEPT ![current'] = "invoke"] /\ UNCHANGED <<call, attempt>>
      BY <1>3 DEF RetryTask, Goes
    <3> QED BY <2>1, <3>1, <3>2, InHandKept DEF InHand
  <2> QED BY <1>3, <2>1, <2>2, ServerUnchangedType DEF RetryTask, recordVars, InHand
<1>4. CASE CatchError
  BY <1>4, ServerUnchangedType DEF CatchError, runVars, recordVars
<1>5. CASE ServerStep /\ UNCHANGED agentVars
  BY <1>5, ServerStepType DEF agentVars, taskVars, runVars, recordVars
<1>6. CASE UNCHANGED vars
  BY <1>6, ServerUnchangedType DEF vars, agentVars, taskVars, runVars, recordVars
<1> QED BY <1>1, <1>2, <1>3, <1>4, <1>5, <1>6 DEF Next, AgentStep, TaskGoesOn

(* Every state variable keeps its type, and a call is in hand whenever one *)
(* is being made, for every cluster, set of calls and bound.               *)
THEOREM TypeCorrect == Spec => []TypeOK
<1>1. Init => TypeOK
  <2> SUFFICES ASSUME Init PROVE TypeOK
    OBVIOUS
  <2>1. ServerTypeOK
    BY ServerInitType DEF Init
  <2>2. 1 \in Runs
    BY DEF Runs
  <2>3. phase \in [Runs -> Phase] /\ log \in [Runs -> Seq(Entry)]
    BY DEF Init, Phase, Working
  <2>4. \A r \in Runs : phase[r] \in {"invoke", "idle"}
    BY DEF Init
  <2> QED BY <2>1, <2>2, <2>3, <2>4 DEF Init, TypeOK, Record
<1>2. TypeOK /\ [Next]_vars => TypeOK'
  BY TypeStep
<1> QED BY <1>1, <1>2, PTL DEF Spec

-----------------------------------------------------------------------------
(* What a step of the agent leaves of the server: the cluster, the bucket  *)
(* and its threads, but for the one it posts.                              *)
LEMMA AgentLeavesServer ==
    ASSUME TypeOK, AgentStep \/ UNCHANGED vars
    PROVE  /\ UNCHANGED <<clusterVars, storeVars, effects, incident>>
           /\ replies' \subseteq replies
           /\ \A t \in threads' : t \in threads \/ (t.id # 0 /\ t.step = "start")
<1>1. ASSUME NEW r \in Runs, Post(r)
      PROVE  /\ UNCHANGED <<clusterVars, storeVars, effects, incident>> /\ replies' \subseteq replies
             /\ \A t \in threads' : t \in threads \/ (t.id # 0 /\ t.step = "start")
  <2> DEFINE new == [id |-> sent', call |-> call[r], incident |-> CarriesIncident(call[r]),
                     status |-> "success", step |-> "start", todo |-> {}, key |-> None]
  <2>1. threads' = threads \cup {new} /\ UNCHANGED <<clusterVars, storeVars, effects, incident, replies>>
    BY <1>1 DEF Post, Request
  <2>2. new.id # 0 /\ new.step = "start"
    BY <1>1 DEF Post, TypeOK
  <2> HIDE DEF new
  <2> QED BY <2>1, <2>2
<1>2. ASSUME NEW r \in Runs, TimesOut(r) \/ ReadReply(r) \/ LambdaFails(r)
      PROVE  UNCHANGED <<clusterVars, storeVars, effects, incident, threads>> /\ replies' \subseteq replies
  BY <1>2 DEF TimesOut, ReadReply, LambdaFails, Hangup
<1>3. CASE UNCHANGED <<serverVars, incident>>
  BY <1>3 DEF serverVars, connVars
<1>4. ASSUME NEW r \in Runs, RunStep(r)
      PROVE  UNCHANGED <<serverVars, incident>> \/ Post(r) \/ TimesOut(r) \/ ReadReply(r) \/ LambdaFails(r)
  BY <1>4 DEF RunStep, ModelCallsTools, Turns, ModelStops, IterationsExhausted, BlockTool,
     RefuseUnknownTool, CallTool, Calling, ConnectFails, CallRefused, UpdateIncidentStatus,
     Return, ReturnInVain
<1>5. UNCHANGED vars \/ LoseAnswer \/ TaskGoesOn => UNCHANGED <<serverVars, incident>>
  BY DEF vars, agentVars, LoseAnswer, TaskGoesOn, RetryTask, CatchError
<1> QED BY <1>1, <1>2, <1>3, <1>4, <1>5 DEF AgentStep

(* A step of a run leaves the others where they are, ... *)
LEMMA OthersLeft ==
    ASSUME TypeOK, NEW r \in Runs, RunStep(r), NEW k \in Runs \ {r}
    PROVE  /\ phase'[k] = phase[k] /\ iteration'[k] = iteration[k] /\ blocks'[k] = blocks[k]
           /\ log'[k] = log[k] /\ call'[k] = call[k] /\ attempt'[k] = attempt[k]
           /\ conn'[k] = conn[k]
<1> USE DEF TypeOK, Goes, LogEntry
<1>1. CASE ModelCallsTools(r) \/ ModelStops(r) \/ IterationsExhausted(r) \/ BlockTool(r)
           \/ RefuseUnknownTool(r) \/ CallTool(r) \/ Post(r)
  BY <1>1 DEF ModelCallsTools, Turns, ModelStops, IterationsExhausted, BlockTool,
     RefuseUnknownTool, CallTool, Calling, NextBlock, Post
<1>2. CASE ConnectFails(r) \/ CallRefused(r)
  BY <1>2 DEF ConnectFails, AttemptFailed, CallRefused, Result
<1>3. CASE TimesOut(r) \/ ReadReply(r)
  BY <1>3 DEF TimesOut, ReadReply, AttemptFailed, Result, Hangup
<1>4. CASE UpdateIncidentStatus(r) \/ Return(r) \/ ReturnInVain(r)
  BY <1>4 DEF UpdateIncidentStatus, Return, ReturnInVain, Ends
<1>5. CASE LambdaFails(r)
  BY <1>5 DEF LambdaFails, Ends, Hangup
<1> QED BY <1>1, <1>2, <1>3, <1>4, <1>5, RunStep(r) DEF RunStep

(* ... and of a log: it is kept, dropped, or given one more entry, which   *)
(* names evidence, or reports a tool's success, only if a reply to this    *)
(* run did.                                                                *)
LEMMA LogEntryAdds ==
    ASSUME log \in [Runs -> Seq(Entry)], NEW r \in Runs,
           NEW tool, NEW target, NEW s, NEW uri, LogEntry(r, tool, target, s, uri)
    PROVE  \A i \in DOMAIN log'[r] : \/ i \in DOMAIN log[r] /\ log'[r][i] = log[r][i]
                                    \/ log'[r][i] = [tool |-> tool, target |-> target,
                                                     status |-> s, uri |-> uri]
<1> DEFINE entry == [tool |-> tool, target |-> target, status |-> s, uri |-> uri]
<1>1. log' = [log EXCEPT ![r] = Append(@, entry)]
  BY DEF LogEntry
<1> HIDE DEF entry
<1>2. log'[r] = Append(log[r], entry) /\ log[r] \in Seq(Entry)
  BY <1>1
<1>3. \A i \in DOMAIN log'[r] : (i \in DOMAIN log[r] /\ log'[r][i] = log[r][i]) \/ log'[r][i] = entry
  BY <1>2
<1> QED BY <1>3 DEF entry

Silent(e) == e.uri = None /\ (e.status = "success" => e.tool = "completion")
Reports(c, e, reply) == /\ e.tool = c.tool /\ e.target = c.target
                        /\ e.status = reply.status /\ e.uri = reply.uri

(* the log of run k after a step of the agent *)
LogSilent(k) == \A i \in DOMAIN log'[k] : \/ i \in DOMAIN log[k] /\ log'[k][i] = log[k][i]
                                         \/ Silent(log'[k][i])

LEMMA LogEntrySilent ==
    ASSUME log \in [Runs -> Seq(Entry)], NEW r \in Runs, NEW tool, NEW target, NEW s,
           LogEntry(r, tool, target, s, None), s = "success" => tool = "completion"
    PROVE  LogSilent(r)
<1> DEFINE entry == [tool |-> tool, target |-> target, status |-> s, uri |-> None]
<1>1. Silent(entry)
  BY DEF Silent
<1>2. \A i \in DOMAIN log'[r] : (i \in DOMAIN log[r] /\ log'[r][i] = log[r][i]) \/ log'[r][i] = entry
  BY LogEntryAdds
<1> HIDE DEF entry
<1> QED BY <1>1, <1>2 DEF LogSilent

LEMMA LogEntryFailed ==
    ASSUME TypeOK, NEW r \in Runs, NEW tool, NEW target, NEW s \in {"blocked", "failed"},
           LogEntry(r, tool, target, s, None)
    PROVE  LogSilent(r)
<1>1. s = "success" => tool = "completion"
  OBVIOUS
<1>2. log \in [Runs -> Seq(Entry)]
  BY DEF TypeOK
<1> QED BY <1>1, <1>2, LogEntrySilent

LogReports(k, reply) ==
    /\ phase[k] = "wait" /\ reply.id = conn[k]
    /\ \A i \in DOMAIN log'[k] : \/ i \in DOMAIN log[k] /\ log'[k][i] = log[k][i]
                                \/ Reports(call[k], log'[k][i], reply)

LEMMA RunLog ==
    ASSUME TypeOK, NEW r \in Runs, RunStep(r)
    PROVE  LogSilent(r) \/ \E reply \in replies : LogReports(r, reply)
<1> USE DEF TypeOK
<1>1. CASE ModelStops(r)
  BY <1>1, LogEntrySilent DEF ModelStops
<1>2. CASE BlockTool(r)
  <2>1. PICK c \in Calls : LogEntry(r, c.tool, c.target, "blocked", None)
    BY <1>2 DEF BlockTool
  <2> QED BY <2>1, LogEntryFailed
<1>3. CASE RefuseUnknownTool(r)
  BY <1>3, LogEntryFailed DEF RefuseUnknownTool
<1>4. CASE CallRefused(r)
  BY <1>4, LogEntryFailed DEF CallRefused, Result
<1>5. ASSUME NEW n, AttemptFailed(r, n) PROVE \/ log' = log
                                             \/ LogEntry(r, call[r].tool, call[r].target, "failed", None)
  BY <1>5 DEF AttemptFailed, Result
<1>6. CASE ConnectFails(r) \/ TimesOut(r)
  <2>1. log' = log \/ LogEntry(r, call[r].tool, call[r].target, "failed", None)
    BY <1>5, <1>6 DEF ConnectFails, TimesOut
  <2>2. CASE log' = log
    BY <2>2 DEF LogSilent
  <2>3. CASE LogEntry(r, call[r].tool, call[r].target, "failed", None)
    BY <2>3, LogEntryFailed
  <2> QED BY <2>1, <2>2, <2>3
<1>7. CASE ReadReply(r)
  <2>1. PICK reply \in replies : reply.id = conn[r] /\ Result(r, reply.status, reply.uri)
    BY <1>7 DEF ReadReply
  <2> DEFINE entry == [tool |-> call[r].tool, target |-> call[r].target,
                       status |-> reply.status, uri |-> reply.uri]
  <2>2. \A i \in DOMAIN log'[r] : (i \in DOMAIN log[r] /\ log'[r][i] = log[r][i]) \/ log'[r][i] = entry
    BY <2>1, LogEntryAdds DEF Result
  <2>3. Reports(call[r], entry, reply) /\ phase[r] = "wait"
    BY <1>7 DEF Reports, ReadReply
  <2> HIDE DEF entry
  <2>4. LogReports(r, reply)
    BY <2>1, <2>2, <2>3 DEF LogReports
  <2> QED BY <2>4
<1>8. CASE log' = log
  BY <1>8 DEF LogSilent
<1>9. CASE Ends(r)
  <2>1. log'[r] = <<>>
    BY <1>9, EndsType
  <2> QED BY <2>1 DEF LogSilent
<1> QED
  BY <1>1, <1>2, <1>3, <1>4, <1>6, <1>7, <1>8, <1>9, RunStep(r)
     DEF RunStep, ModelCallsTools, Turns, IterationsExhausted,
     CallTool, Calling, Post, UpdateIncidentStatus, Return, ReturnInVain, LambdaFails

LEMMA AgentLog ==
    ASSUME TypeOK, AgentStep \/ UNCHANGED vars, NEW k \in Runs
    PROVE  LogSilent(k) \/ \E reply \in replies : LogReports(k, reply)
<1>1. CASE log'[k] = log[k]
  BY <1>1 DEF LogSilent
<1>2. ASSUME NEW r \in Runs, RunStep(r) PROVE k = r \/ log'[k] = log[k]
  BY <1>2, OthersLeft
<1>3. UNCHANGED vars \/ LoseAnswer \/ TaskGoesOn => log' = log
  BY DEF vars, agentVars, runVars, LoseAnswer, TaskGoesOn, RetryTask, CatchError
<1> QED BY <1>1, <1>2, <1>3, RunLog DEF AgentStep

-----------------------------------------------------------------------------
(* The evidence the logs, the replies and the record name is listed.       *)
Listed(uri) == \E m \in manifest : m.key = uri
UrisInv == /\ StoredInv /\ ListedInv
           /\ \A r \in Runs : \A i \in DOMAIN log[r] : log[r][i].uri # None => Listed(log[r][i].uri)
           /\ \A uri \in record.evidence_uris : Listed(uri)

LEMMA UrisStep ==
    ASSUME TypeOK, UrisInv, [Next]_vars
    PROVE  UrisInv'
<1>t. ServerTypeOK
  BY DEF TypeOK
<1>1. CASE ServerStep /\ UNCHANGED agentVars
  <2>1. StoredInv' /\ ListedInv' /\ manifest \subseteq manifest'
    BY <1>1, <1>t, ServerStepStored, ManifestGrows DEF UrisInv
  <2>2. log' = log /\ record' = record
    BY <1>1 DEF agentVars, runVars, recordVars
  <2> QED BY <2>1, <2>2 DEF UrisInv, Listed
<1>2. CASE AgentStep \/ UNCHANGED vars
  <2>1. /\ UNCHANGED storeVars /\ manifest' = manifest /\ replies' \subseteq replies
        /\ \A t \in threads' : t \in threads \/ (t.id # 0 /\ t.step = "start")
    BY <1>2, AgentLeavesServer DEF storeVars
  <2>2. StoredInv' /\ ListedInv'
    BY <1>t, <2>1, NothingStored DEF UrisInv
  <2>3. ASSUME NEW k \in Runs, NEW i \in DOMAIN log'[k], log'[k][i].uri # None
        PROVE  Listed(log'[k][i].uri)
    <3>1. CASE i \in DOMAIN log[k] /\ log'[k][i] = log[k][i]
      BY <2>3, <3>1 DEF UrisInv
    <3>2. ASSUME NEW reply \in replies, Reports(call[k], log'[k][i], reply)
          PROVE  Listed(log'[k][i].uri)
      <4>1. reply.uri = log'[k][i].uri /\ [id |-> reply.id, key |-> reply.uri] \in manifest
        BY <2>3, <3>2 DEF Reports, UrisInv, ListedInv
      <4> QED BY <4>1 DEF Listed
    <3> QED BY <1>2, <2>3, <3>1, <3>2, AgentLog DEF Silent, LogSilent, LogReports
  <2>4. record' = record \/ \E r \in Runs : record' = Written(r)
    <3>1. ASSUME NEW r \in Runs, RunStep(r) PROVE record' = record \/ record' = Written(r)
      BY <3>1 DEF RunStep, ModelCallsTools, Turns, ModelStops, IterationsExhausted, BlockTool,
         RefuseUnknownTool, CallTool, Calling, Post, ConnectFails, CallRefused, TimesOut, ReadReply,
         UpdateIncidentStatus, Return, ReturnInVain, LambdaFails, recordVars
    <3> QED BY <1>2, <3>1 DEF AgentStep, LoseAnswer, TaskGoesOn, RetryTask, CatchError,
            vars, agentVars, recordVars
  <2>5. ASSUME NEW uri \in record'.evidence_uris PROVE Listed(uri)
    <3>1. CASE record' = record
      BY <2>5, <3>1 DEF UrisInv
    <3>2. ASSUME NEW r \in Runs, record' = Written(r) PROVE Listed(uri)
      BY <2>5, <3>2 DEF UrisInv, EvidenceUris, Written
    <3> QED BY <2>4, <3>1, <3>2
  <2>6. \A uri : Listed(uri) => Listed(uri)'
    BY <2>1 DEF Listed
  <2> QED BY <2>2, <2>3, <2>5, <2>6 DEF UrisInv
<1> QED BY <1>1, <1>2 DEF Next

(* The evidence of the logs, of the replies and of the record is listed,   *)
(* at every step.                                                          *)
THEOREM EvidenceIsListed == Spec => []UrisInv
<1>1. Init => UrisInv
  BY DEF Init, ServerInit, UrisInv, StoredInv, ListedInv
<1>2. TypeOK /\ UrisInv /\ [Next]_vars => UrisInv'
  BY UrisStep
<1> QED BY <1>1, <1>2, TypeCorrect, PTL DEF Spec

(* Every evidence_uri of an execution_log and of the incident's record is  *)
(* an object of the bucket that the manifest lists.                        *)
THEOREM ReportedIsStored == Spec => []ReportedEvidenceStored
<1>1. UrisInv => ReportedEvidenceStored
  <2> SUFFICES ASSUME UrisInv,
                      NEW uri \in (UNION {EvidenceUris(r) : r \in Runs}) \cup record.evidence_uris
               PROVE  bucket[uri] # 0 /\ \E m \in manifest : m.key = uri
    BY DEF ReportedEvidenceStored
  <2>1. ASSUME uri \in record.evidence_uris PROVE Listed(uri)
    BY <2>1 DEF UrisInv
  <2>2. ASSUME NEW r \in Runs, uri \in EvidenceUris(r) PROVE Listed(uri)
    BY <2>2 DEF UrisInv, EvidenceUris
  <2>3. Listed(uri)
    BY <2>1, <2>2
  <2> QED BY <2>3 DEF UrisInv, StoredInv, Listed
<1> QED BY <1>1, EvidenceIsListed, PTL

-----------------------------------------------------------------------------
(* The runs before the current one are over, or their answers lost; those  *)
(* after it have not begun.                                                *)
RunsInv == /\ \A r \in Runs : r > current => phase[r] = "idle"
           /\ \A r \in Runs : r < current => phase[r] = "over" \/ r \in lost
           /\ task = "returned" => phase[current] = "returned"

(* From the write of the current run on, the record is what its log says,  *)
(* or what a run wrote that the task has given up waiting for.             *)
WriteInv == (phase[current] \in {"return", "returned"} /\ incident # "none") =>
              record = Written(current) \/ writer \in lost

RecordInv == RunsInv /\ WriteInv

LEMMA RunsStep ==
    ASSUME TypeOK, RunsInv, [Next]_vars
    PROVE  RunsInv'
<1> USE DEF TypeOK
<1>1. ASSUME NEW r \in Runs, RunStep(r) PROVE RunsInv'
  <2>1. phase[r] \notin {"idle", "over", "returned"}
    BY <1>1 DEF RunStep, ModelCallsTools, ModelStops, IterationsExhausted, Asks, BlockTool,
       RefuseUnknownTool, CallTool, Calling, NextBlock, Post, ConnectFails, CallRefused, TimesOut,
       ReadReply, UpdateIncidentStatus, Return, ReturnInVain, LambdaFails, Working
  <2>2. \A k \in Runs \ {r} : phase'[k] = phase[k]
    BY <1>1, OthersLeft
  <2>3. current' = current /\ lost' = lost
    BY <1>1 DEF RunStep, ModelCallsTools, Turns, ModelStops, IterationsExhausted, BlockTool,
       RefuseUnknownTool, CallTool, Calling, Post, ConnectFails, CallRefused, TimesOut, ReadReply,
       UpdateIncidentStatus, Return, ReturnInVain, LambdaFails, taskVars
  <2>4. task' = task \/ (r = current /\ task' = "returned" /\ phase'[r] = "returned")
    BY <1>1 DEF RunStep, ModelCallsTools, Turns, ModelStops, IterationsExhausted, BlockTool,
       RefuseUnknownTool, CallTool, Calling, Post, ConnectFails, CallRefused, TimesOut, ReadReply,
       UpdateIncidentStatus, Return, ReturnInVain, LambdaFails, taskVars, Goes
  <2> QED BY <2>1, <2>2, <2>3, <2>4 DEF RunsInv
<1>2. CASE LoseAnswer
  BY <1>2 DEF LoseAnswer, RunsInv, runVars
<1>3. CASE RetryTask
  <2>1. /\ current' = current + 1 /\ current' \in Runs /\ task = "running"
        /\ phase[current] = "over" \/ current \in lost
        /\ phase' = [phase EXCEPT ![current'] = "invoke"] /\ UNCHANGED <<task, lost>>
    BY <1>3 DEF RetryTask, RunFailed, Goes, Runs
  <2>2. \A k \in Runs \ {current'} : phase'[k] = phase[k]
    BY <2>1
  <2>3. current \in Nat /\ \A k \in Runs : k \in Nat
    BY DEF Runs
  <2>4. \A k \in Runs : k > current' => phase'[k] = "idle"
    BY <2>1, <2>2, <2>3 DEF RunsInv
  <2>5. ASSUME NEW k \in Runs, k < current' PROVE phase'[k] = "over" \/ k \in lost'
    <3>1. k # current' /\ (k = current \/ k < current)
      BY <2>1, <2>3, <2>5
    <3>2. phase'[k] = phase[k] /\ lost' = lost
      BY <2>1, <2>2, <3>1
    <3>3. phase[k] = "over" \/ k \in lost
      BY <2>1, <3>1 DEF RunsInv
    <3> QED BY <3>2, <3>3
  <2> QED BY <2>1, <2>4, <2>5 DEF RunsInv
<1>4. CASE CatchError
  BY <1>4 DEF CatchError, RunsInv, runVars
<1>5. CASE UNCHANGED agentVars
  BY <1>5 DEF agentVars, taskVars, runVars, RunsInv
<1> QED BY <1>1, <1>2, <1>3, <1>4, <1>5 DEF Next, AgentStep, TaskGoesOn, vars

LEMMA WriteStep ==
    ASSUME TypeOK, RecordInv, [Next]_vars
    PROVE  WriteInv'
<1> USE DEF TypeOK
<1>0. \A k \in Runs : log'[k] = log[k] => Written(k)' = Written(k)
  BY DEF Written, ActionsTaken, EvidenceUris
<1>1. ASSUME NEW r \in Runs, RunStep(r) PROVE WriteInv'
  <2>1. current' = current /\ lost' = lost /\ incident' = incident
    BY <1>1 DEF RunStep, ModelCallsTools, Turns, ModelStops, IterationsExhausted, BlockTool,
       RefuseUnknownTool, CallTool, Calling, Post, ConnectFails, CallRefused, TimesOut, ReadReply,
       UpdateIncidentStatus, Return, ReturnInVain, LambdaFails, taskVars
  <2>2. CASE UpdateIncidentStatus(r)
    <3>1. /\ phase[r] = "update" /\ log' = log /\ phase' = [phase EXCEPT ![r] = "return"]
          /\ incident # "none" => record' = Written(r) /\ writer' = r
          /\ incident = "none" => UNCHANGED recordVars
      BY <2>2 DEF UpdateIncidentStatus, Goes
    <3>2. CASE r = current
      <4>1. incident' # "none" => record' = Written(current)'
        BY <1>0, <2>1, <3>1, <3>2
      <4> QED BY <4>1 DEF WriteInv
    <3>3. CASE r # current
      <4>1. r < current \/ r > current
        BY <3>3 DEF TypeOK, Runs
      <4>2. r \in lost
        BY <3>1, <4>1 DEF RecordInv, RunsInv
      <4> QED BY <2>1, <3>1, <4>2 DEF WriteInv
    <3> QED BY <3>2, <3>3
  <2>3. CASE ~UpdateIncidentStatus(r)
    <3>1. record' = record /\ writer' = writer
      BY <1>1, <2>3 DEF RunStep, ModelCallsTools, Turns, ModelStops, IterationsExhausted, BlockTool,
         RefuseUnknownTool, CallTool, Calling, Post, ConnectFails, CallRefused, TimesOut, ReadReply,
         Return, ReturnInVain, LambdaFails, recordVars
    <3>2. CASE r # current
      <4>1. phase'[current] = phase[current] /\ log'[current] = log[current]
        BY <1>1, <3>2, OthersLeft
      <4> QED BY <1>0, <2>1, <3>1, <4>1 DEF RecordInv, WriteInv
    <3>3. CASE r = current /\ Return(r)
      BY <1>0, <2>1, <3>1, <3>3 DEF RecordInv, WriteInv, Return, Goes
    <3>4. CASE r = current /\ ~Return(r)
      <4>1. phase'[r] \notin {"return", "returned"}
        <5>1. CASE BlockTool(r) \/ RefuseUnknownTool(r)
          BY <5>1 DEF BlockTool, RefuseUnknownTool, NextBlock
        <5>2. CASE ConnectFails(r) \/ CallRefused(r) \/ TimesOut(r) \/ ReadReply(r)
          BY <5>2 DEF ConnectFails, CallRefused, TimesOut, ReadReply, AttemptFailed, Result, Goes
        <5>3. CASE ReturnInVain(r) \/ LambdaFails(r)
          BY <5>3 DEF ReturnInVain, LambdaFails, Ends, Goes
        <5> QED BY <1>1, <2>3, <3>4, <5>1, <5>2, <5>3 DEF RunStep, ModelCallsTools, Turns, ModelStops,
                IterationsExhausted, CallTool, Calling, Post, Goes
      <4> QED BY <2>1, <3>4, <4>1 DEF WriteInv
    <3> QED BY <3>2, <3>3, <3>4
  <2> QED BY <2>2, <2>3
<1>2. CASE RetryTask
  <2>1. current' \in Runs /\ phase' = [phase EXCEPT ![current'] = "invoke"]
    BY <1>2 DEF RetryTask, Goes, Runs
  <2> QED BY <2>1 DEF WriteInv
<1>3. CASE LoseAnswer \/ CatchError \/ UNCHANGED agentVars
  <2>1. /\ UNCHANGED <<phase, log, record, writer, current, incident>> /\ lost \subseteq lost'
    BY <1>3 DEF LoseAnswer, CatchError, runVars, recordVars, agentVars, taskVars
  <2> QED BY <1>0, <2>1 DEF RecordInv, WriteInv
<1> QED BY <1>1, <1>2, <1>3 DEF Next, AgentStep, TaskGoesOn, vars

(* When the task has returned, the record is what the returned run wrote,  *)
(* unless a run whose answer was lost has written last: a run that died    *)
(* behind its write leaves nothing there.                                  *)
THEOREM RecordIsTheResult == Spec => []RecordMatchesResult
<1>1. Init => RecordInv
  <2>1. 1 \in Runs
    BY DEF Runs
  <2> QED BY <2>1 DEF Init, RecordInv, RunsInv, WriteInv, Runs
<1>2. TypeOK /\ RecordInv /\ [Next]_vars => RecordInv'
  BY RunsStep, WriteStep DEF RecordInv
<1>3. RecordInv => RecordMatchesResult
  BY DEF RecordInv, RunsInv, WriteInv, RecordMatchesResult
<1> QED BY <1>1, <1>2, <1>3, TypeCorrect, PTL DEF Spec

-----------------------------------------------------------------------------
(***************************************************************************)
(* The forensic guard, for every cluster, every set of calls and every     *)
(* bound: GuardInv is inductive, so nothing destructive reaches the        *)
(* cluster before the capture, and the agent with its client, its retries  *)
(* and its server implements EvidenceFirst.                                *)
(***************************************************************************)

(* Evidence is only ever added. *)
StoreGrows == /\ manifest \subseteq manifest'
              /\ \A k \in EvidenceKey : bucket[k] # 0 => bucket'[k] # 0

LEMMA CapturedStays ==
    ASSUME ServerTypeOK, StoreGrows, UNCHANGED incident, Captured,
           sent \in Nat, sent' \in Nat, sent <= sent'
    PROVE  Captured'
<1>1. PICK m \in manifest : /\ m.id \in 1..sent
                           /\ m.key.tool \in REQUIRED_FORENSIC_TOOLS
                           /\ m.key.bundle = SanitizeIncidentId(incident)
                           /\ bucket[m.key] # 0
  BY DEF Captured
<1>2. m \in manifest' /\ m.id \in 1..sent'
  BY <1>1 DEF StoreGrows
<1>3. bucket'[m.key] # 0
  BY <1>1 DEF StoreGrows, ServerTypeOK
<1> QED BY <1>1, <1>2, <1>3 DEF Captured

(* What any step of a thread leaves: its own request's identity, the other *)
(* threads, and no reply but to a connection that is open.                 *)
Follows(th) ==
    /\ open' = open
    /\ effects' \subseteq effects \cup {th.call}
    /\ \A t \in threads' : \/ t \in threads
                           \/ t.id = th.id /\ t.call = th.call /\ t.incident = th.incident
    /\ \A r \in replies' : r \in replies \/ (r.id = th.id /\ th.id \in open)

(* ... and, of a thread other than the three that deal with evidence, that *)
(* it neither reports a capture nor touches the store.                     *)
Ordinary(th) ==
    /\ UNCHANGED storeVars
    /\ \A t \in threads' : t \in threads \/ t.step # "manifest"
    /\ \A r \in replies' : r \in replies \/ ~IsCapture(th.call, r.status)

LEMMA RespondFollows ==
    ASSUME NEW th \in threads, NEW s, NEW uri, Respond(th, s, uri),
           effects' \subseteq effects \cup {th.call}
    PROVE  /\ Follows(th)
           /\ UNCHANGED storeVars /\ ~IsCapture(th.call, s) => Ordinary(th)
<1>1. /\ open' = open
      /\ \A t \in threads' : t \in threads
      /\ \A r \in replies' : r \in replies \/ (r.id = th.id /\ th.id \in open /\ r.status = s)
  BY DEF Respond
<1>2. Follows(th)
  BY <1>1 DEF Follows
<1>3. ASSUME UNCHANGED storeVars, ~IsCapture(th.call, s) PROVE Ordinary(th)
  BY <1>1, <1>3 DEF Ordinary
<1> QED BY <1>2, <1>3

LEMMA AnswerFollows ==
    ASSUME NEW th \in threads, NEW uri, Answer(th, uri),
           effects' \subseteq effects \cup {th.call}
    PROVE  /\ Follows(th)
           /\ UNCHANGED storeVars /\ th.call.tool \notin REQUIRED_FORENSIC_TOOLS => Ordinary(th)
<1>1. ASSUME NEW s, th.call.tool \notin REQUIRED_FORENSIC_TOOLS PROVE ~IsCapture(th.call, s)
  BY <1>1 DEF IsCapture
<1> QED BY <1>1, RespondFollows DEF Answer

LEMMA ContinueFollows ==
    ASSUME NEW th \in threads, NEW next, Continue(th, next),
           next.id = th.id, next.call = th.call, next.incident = th.incident,
           effects' \subseteq effects \cup {th.call}
    PROVE  /\ Follows(th)
           /\ UNCHANGED storeVars /\ next.step # "manifest" => Ordinary(th)
<1>1. /\ open' = open /\ replies' = replies
      /\ \A t \in threads' : t \in threads \/ t = next
  BY DEF Continue
<1>2. Follows(th)
  BY <1>1 DEF Follows
<1>3. ASSUME UNCHANGED storeVars, next.step # "manifest" PROVE Ordinary(th)
  BY <1>1, <1>3 DEF Ordinary
<1> QED BY <1>2, <1>3

LEMMA GatheredFollows ==
    ASSUME ServerTypeOK, NEW th \in threads, NEW s, Gathered(th, s),
           UNCHANGED <<storeVars, effects>>
    PROVE  Follows(th) /\ Ordinary(th)
<1>1. CASE Stores(th)
  <2> DEFINE next == [th EXCEPT !.step = "object", !.status = s]
  <2>1. Continue(th, next)
    BY <1>1 DEF Gathered
  <2>2. /\ next.id = th.id /\ next.call = th.call /\ next.incident = th.incident
        /\ next.step = "object"
    BY ThreadShape DEF Thread
  <2> QED BY <2>1, <2>2, ContinueFollows
<1>2. CASE ~Stores(th)
  <2>1. Respond(th, s, None)
    BY <1>2 DEF Gathered
  <2>2. ~IsCapture(th.call, s)
    BY <1>2 DEF Stores, AlwaysStores, IsCapture, REQUIRED_FORENSIC_TOOLS
  <2> QED BY <2>1, <2>2, RespondFollows
<1> QED BY <1>1, <1>2

LEMMA ServeFollows ==
    ASSUME ServerTypeOK, NEW th \in threads, Serve(th)
    PROVE  /\ Follows(th)
           /\ Ordinary(th) \/ PutForensicsObject(th) \/ AppendEvidenceManifest(th)
<1>c. ASSUME NEW s, s # "success" \/ th.call.tool # "checkpoint_pod" PROVE ~IsCapture(th.call, s)
  BY <1>c DEF IsCapture, REQUIRED_FORENSIC_TOOLS
<1>1. CASE LabelPod(th)
  <2>1. /\ Answer(th, None) /\ effects' = effects \cup {th.call}
        /\ UNCHANGED storeVars /\ th.call.tool = "label_pod"
    BY <1>1 DEF LabelPod, At, TakesEffect
  <2> QED BY <2>1, AnswerFollows DEF REQUIRED_FORENSIC_TOOLS
<1>2. CASE DeletePod(th)
  <2>1. /\ Answer(th, None) /\ effects' = effects \cup {th.call}
        /\ UNCHANGED storeVars /\ th.call.tool = "delete_pod"
    BY <1>2 DEF DeletePod, At, TakesEffect
  <2> QED BY <2>1, AnswerFollows DEF REQUIRED_FORENSIC_TOOLS
<1>3. CASE ApplyCiliumNetworkPolicy(th)
  <2>1. /\ Answer(th, None) /\ effects' = effects \cup {th.call}
        /\ UNCHANGED storeVars /\ th.call.tool = "apply_cilium_network_policy"
    BY <1>3 DEF ApplyCiliumNetworkPolicy, At, TakesEffect
  <2> QED BY <2>1, AnswerFollows DEF REQUIRED_FORENSIC_TOOLS
<1>4. CASE PatchDeployment(th)
  <2>1. /\ Answer(th, None) /\ effects' = effects \cup {th.call}
        /\ UNCHANGED storeVars /\ th.call.tool = "patch_deployment"
    BY <1>4 DEF PatchDeployment, At, TakesEffect
  <2> QED BY <2>1, AnswerFollows DEF REQUIRED_FORENSIC_TOOLS
<1>5. CASE CordonNode(th)
  <2> DEFINE next == [th EXCEPT !.step = "list"]
  <2>1. /\ Answer(th, None) \/ Continue(th, next) \/ Respond(th, "failed", None)
        /\ effects' = effects \cup {th.call} /\ UNCHANGED storeVars
        /\ th.call.tool \in {"cordon_node", "drain_node"}
    BY <1>5 DEF CordonNode, At, TakesEffect
  <2>2. /\ next.id = th.id /\ next.call = th.call /\ next.incident = th.incident
        /\ next.step = "list"
    BY ThreadShape DEF Thread
  <2>3. CASE Answer(th, None) \/ Respond(th, "failed", None)
    BY <2>1, <2>3, <1>c, AnswerFollows, RespondFollows DEF REQUIRED_FORENSIC_TOOLS
  <2>4. CASE Continue(th, next)
    BY <2>1, <2>2, <2>4, ContinueFollows
  <2> QED BY <2>1, <2>3, <2>4
<1>6. CASE DrainListPods(th)
  <2>1. PICK ignore \in BOOLEAN :
          Continue(th, [th EXCEPT !.step = "evict",
             !.todo = {p \in pods : /\ NodeOf[p] = th.call.target
                                    /\ ignore => p \notin DaemonSetPods}])
    BY <1>6 DEF DrainListPods
  <2> DEFINE next == [th EXCEPT !.step = "evict",
             !.todo = {p \in pods : /\ NodeOf[p] = th.call.target
                                    /\ ignore => p \notin DaemonSetPods}]
  <2>2. /\ next.id = th.id /\ next.call = th.call /\ next.incident = th.incident
        /\ next.step = "evict"
    BY ThreadShape DEF Thread
  <2>3. UNCHANGED <<storeVars, effects>>
    BY <1>6 DEF DrainListPods
  <2>4. Continue(th, next)
    BY <2>1
  <2> HIDE DEF next
  <2> QED BY <2>2, <2>3, <2>4, ContinueFollows
<1>7. CASE DrainEvict(th)
  <2>1. PICK p \in th.todo : Continue(th, [th EXCEPT !.todo = @ \ {p}])
    BY <1>7 DEF DrainEvict
  <2> DEFINE next == [th EXCEPT !.todo = @ \ {p}]
  <2>2. /\ next.id = th.id /\ next.call = th.call /\ next.incident = th.incident
        /\ next.step = "evict"
    BY <1>7, ThreadShape DEF Thread, DrainEvict, At
  <2>3. UNCHANGED <<storeVars, effects>>
    BY <1>7 DEF DrainEvict
  <2> QED BY <2>1, <2>2, <2>3, ContinueFollows
<1>8. CASE DrainDone(th)
  <2>1. /\ Respond(th, "success", None) /\ UNCHANGED <<storeVars, effects>>
        /\ th.call.tool = "drain_node"
    BY <1>8 DEF DrainDone, At
  <2> QED BY <2>1, <1>c, RespondFollows
<1>9. CASE CaptureEvidence(th) \/ CollectEvidence(th) \/ CheckpointContainerExperimental(th)
  BY <1>9, GatheredFollows DEF CaptureEvidence, CollectEvidence, CheckpointContainerExperimental
<1>10. CASE CollectLivePodForensics(th)
  BY <1>10, GatheredFollows DEF CollectLivePodForensics
<1>11. CASE PutForensicsObject(th)
  <2> DEFINE next == [th EXCEPT !.step = "manifest", !.key = ForensicsKey(th)]
  <2>1. (Continue(th, next) \/ Respond(th, "failed", None)) /\ UNCHANGED effects
    BY <1>11 DEF PutForensicsObject
  <2>2. next.id = th.id /\ next.call = th.call /\ next.incident = th.incident
    BY ThreadShape DEF Thread
  <2> QED BY <1>11, <2>1, <2>2, ContinueFollows, RespondFollows
<1>12. CASE AppendEvidenceManifest(th)
  <2>1. Answer(th, th.key) /\ UNCHANGED effects
    BY <1>12 DEF AppendEvidenceManifest
  <2> QED BY <1>12, <2>1, AnswerFollows
<1>13. CASE ToolFails(th)
  <2>1. Respond(th, "failed", None) /\ UNCHANGED <<storeVars, effects>>
    BY <1>13 DEF ToolFails
  <2> QED BY <2>1, <1>c, RespondFollows
<1> QED
  BY <1>1, <1>2, <1>3, <1>4, <1>5, <1>6, <1>7, <1>8, <1>9, <1>10, <1>11, <1>12, <1>13,
     Serve(th) DEF Serve

-----------------------------------------------------------------------------
(* The step of a thread, conjunct by conjunct. *)
LEMMA ServeStoreGrows ==
    ASSUME ServerTypeOK, ConnectionInv, NEW th \in threads, Serve(th)
    PROVE  StoreGrows
<1>1. th.id # 0
  BY DEF ConnectionInv
<1>2. CASE Ordinary(th)
  BY <1>2 DEF Ordinary, storeVars, StoreGrows
<1>3. CASE PutForensicsObject(th)
  <2>1. bucket \in [EvidenceKey -> Nat]
    BY DEF ServerTypeOK
  <2>2. manifest' = manifest /\ bucket' = [bucket EXCEPT ![ForensicsKey(th)] = th.id]
    BY <1>3 DEF PutForensicsObject
  <2> QED BY <1>1, <2>1, <2>2 DEF StoreGrows
<1>4. CASE AppendEvidenceManifest(th)
  BY <1>4 DEF AppendEvidenceManifest, StoreGrows
<1> QED BY <1>2, <1>3, <1>4, ServeFollows

LEMMA ServeEvidence ==
    ASSUME ServerTypeOK, EvidenceInv, ConnectionInv, NEW th \in threads, Serve(th)
    PROVE  EvidenceInv'
<1>1. StoreGrows
  BY ServeStoreGrows
<1> DEFINE Entered(t) == t.step = "manifest" =>
             /\ t.call.tool \in EvidenceTools
             /\ t.key # None
             /\ t.key.tool = t.call.tool
             /\ t.key.bundle = SanitizeIncidentId(t.incident)
<1>2. ASSUME NEW t \in threads PROVE Entered(t) /\ (t.step = "manifest" => bucket'[t.key] # 0)
  <2>1. t.step = "manifest" => t.key \in EvidenceKey
    BY ThreadShape
  <2> QED BY <1>1, <2>1 DEF EvidenceInv, StoreGrows
<1>3. ASSUME NEW m \in manifest PROVE bucket'[m.key] # 0
  <2>1. m.key \in EvidenceKey
    BY DEF ServerTypeOK
  <2> QED BY <1>1, <2>1 DEF EvidenceInv, StoreGrows
<1>4. CASE Ordinary(th)
  BY <1>2, <1>3, <1>4 DEF Ordinary, storeVars, EvidenceInv
<1>5. CASE PutForensicsObject(th)
  <2> DEFINE key == ForensicsKey(th)
             next == [th EXCEPT !.step = "manifest", !.key = key]
  <2>1. th.call.tool \in EvidenceTools
    BY <1>5 DEF PutForensicsObject, At
  <2>2. key \in EvidenceKey
    BY <2>1, ForensicsKeyType
  <2>3. /\ threads' \subseteq threads \cup {next} /\ manifest' = manifest
        /\ bucket' = [bucket EXCEPT ![key] = th.id]
    BY <1>5 DEF PutForensicsObject, Continue, Respond
  <2>4. key # None /\ key.tool = th.call.tool
        /\ key.bundle = SanitizeIncidentId(th.incident)
    <3>1. key # None
      BY <2>2, NoneAssumption
    <3>2. key.tool = th.call.tool /\ key.bundle = SanitizeIncidentId(th.incident)
      BY DEF ForensicsKey
    <3> QED BY <3>1, <3>2
  <2>5. bucket'[key] # 0
    BY <2>2, <2>3 DEF ServerTypeOK, ConnectionInv
  <2> HIDE DEF key
  <2>6. next.call = th.call /\ next.incident = th.incident /\ next.key = key
    BY ThreadShape DEF Thread
  <2>7. Entered(next) /\ bucket'[next.key] # 0
    BY <2>1, <2>4, <2>5, <2>6
  <2> HIDE DEF next
  <2> QED BY <1>2, <1>3, <2>3, <2>7 DEF EvidenceInv
<1>6. CASE AppendEvidenceManifest(th)
  <2> DEFINE m == [id |-> th.id, key |-> th.key]
  <2>1. /\ threads' \subseteq threads /\ manifest' = manifest \cup {m} /\ th.step = "manifest"
    BY <1>6 DEF AppendEvidenceManifest, Answer, Respond, At
  <2>2. bucket'[m.key] # 0
    BY <1>2, <2>1
  <2> QED BY <1>2, <1>3, <2>1, <2>2 DEF EvidenceInv
<1> QED BY <1>4, <1>5, <1>6, ServeFollows

LEMMA ServeConnection ==
    ASSUME ServerTypeOK, ConnectionInv, NEW th \in threads, Serve(th), UNCHANGED agentVars
    PROVE  ConnectionInv'
<1>1. Follows(th)
  BY ServeFollows
<1>2. UNCHANGED <<incident, phase, call, conn, sent>>
  BY DEF agentVars, runVars
<1>3. ASSUME NEW t \in threads'
      PROVE  /\ t.id \in 1..sent
             /\ t.incident = CarriesIncident(t.call)
             /\ \A r \in Runs : t.id = conn[r] => t.call = call[r]
  BY <1>1 DEF Follows, ConnectionInv
<1>4. ASSUME NEW reply \in replies' PROVE reply.id # 0 /\ \E r \in Runs : reply.id = conn[r]
  BY <1>1 DEF Follows, ConnectionInv
<1>5. open' = open
  BY <1>1 DEF Follows
<1>6. /\ \A r \in Runs : /\ conn[r] \in 0..sent
                         /\ phase[r] # "wait" => conn[r] = 0
                         /\ \A k \in Runs \ {r} : conn[k] = conn[r] => conn[r] = 0
      /\ \A id \in open : id # 0 /\ \E r \in Runs : id = conn[r]
  BY DEF ConnectionInv
<1> QED BY <1>2, <1>3, <1>4, <1>5, <1>6 DEF ConnectionInv, CarriesIncident

(* no capture is reported to run r, and it has nothing destructive in hand *)
Harmless(r) ==
    /\ \A i \in DOMAIN log[r] : ~IsCapture(log[r][i], log[r][i].status)
    /\ \A reply \in replies : reply.id = conn[r] => ~IsCapture(call[r], reply.status)
    /\ phase[r] \in {"post", "wait"} => ~IsDestructive(call[r])
ServerHarmless == /\ \A th \in threads : ~IsDestructive(th.call)
                  /\ \A c \in effects : ~IsDestructive(c)

LEMMA CaptureParts ==
    CaptureInv <=> Captured \/ ((\A r \in Runs : Harmless(r)) /\ ServerHarmless)
BY DEF CaptureInv, Harmless, ServerHarmless

LEMMA CapturePartsNext ==
    CaptureInv' <=> Captured' \/ ((\A r \in Runs : Harmless(r)') /\ ServerHarmless')
BY DEF CaptureInv, Harmless, ServerHarmless

LEMMA ServeCapture ==
    ASSUME TypeOK, GuardInv, NEW th \in threads, Serve(th), UNCHANGED agentVars
    PROVE  CaptureInv'
<1>t. ServerTypeOK
  BY DEF TypeOK
<1>u. UNCHANGED <<incident, phase, call, conn, log, sent>>
  BY DEF agentVars, runVars
<1>1. StoreGrows /\ Follows(th)
  BY <1>t, ServeStoreGrows, ServeFollows DEF GuardInv
<1>2. CASE Captured
  <2>1. Captured'
    BY <1>1, <1>2, <1>t, <1>u, CapturedStays DEF TypeOK
  <2> QED BY <2>1, CapturePartsNext
<1>3. CASE ~Captured
  <2>1. (\A r \in Runs : Harmless(r)) /\ ServerHarmless
    BY <1>3, CaptureParts DEF GuardInv
  <2>2. ServerHarmless'
    <3>1. ASSUME NEW t \in threads' PROVE ~IsDestructive(t.call)
      <4>1. t \in threads \/ t.call = th.call
        BY <1>1 DEF Follows
      <4> QED BY <2>1, <4>1 DEF IsDestructive, ServerHarmless
    <3>2. ASSUME NEW c \in effects' PROVE ~IsDestructive(c)
      BY <1>1, <2>1 DEF Follows, ServerHarmless
    <3> QED BY <3>1, <3>2 DEF ServerHarmless, IsDestructive
  <2>3. ASSUME NEW r \in Runs, NEW reply \in replies', reply.id = conn[r],
               IsCapture(call[r], reply.status)
        PROVE  Captured'
    <3>1. reply \notin replies /\ reply.id = th.id /\ th.id \in open
      BY <1>1, <2>1, <2>3 DEF Follows, Harmless
    <3>2. th.call = call[r]
      BY <2>3, <3>1 DEF ConnectionInv, GuardInv
    <3>3. ~Ordinary(th)
      BY <2>3, <3>1, <3>2 DEF Ordinary
    <3>4. ~PutForensicsObject(th)
      <4>1. replies' = replies \/ Respond(th, "failed", None) \/ ~PutForensicsObject(th)
        BY DEF PutForensicsObject, Continue
      <4>2. CASE Respond(th, "failed", None)
        BY <2>3, <3>1, <4>2 DEF Respond, IsCapture
      <4> QED BY <3>1, <4>1, <4>2
    <3>5. AppendEvidenceManifest(th)
      BY <1>t, <3>3, <3>4, ServeFollows
    <3> DEFINE m == [id |-> th.id, key |-> th.key]
    <3>6. m \in manifest' /\ bucket' = bucket /\ th.step = "manifest"
      BY <3>5 DEF AppendEvidenceManifest, At
    <3>7. /\ th.key.tool \in REQUIRED_FORENSIC_TOOLS
          /\ th.key.bundle = SanitizeIncidentId(incident)
          /\ bucket[th.key] # 0 /\ th.id \in 1..sent
      <4>1. /\ th.call.tool \in EvidenceTools /\ th.key.tool = th.call.tool
            /\ th.key.bundle = SanitizeIncidentId(th.incident) /\ bucket[th.key] # 0
        BY <3>6 DEF EvidenceInv, GuardInv
      <4>2. th.incident = CarriesIncident(th.call) /\ th.id \in 1..sent
        BY DEF ConnectionInv, GuardInv
      <4>3. th.incident = incident
        BY <4>1, <4>2 DEF CarriesIncident
      <4> QED BY <2>3, <3>2, <4>1, <4>2, <4>3 DEF IsCapture
    <3> QED BY <1>u, <3>6, <3>7 DEF Captured
  <2>4. ASSUME NEW r \in Runs, ~Captured' PROVE Harmless(r)'
    <3>1. Harmless(r)
      BY <2>1
    <3>2. \A i \in DOMAIN log'[r] : ~IsCapture(log'[r][i], log'[r][i].status)
      BY <1>u, <3>1 DEF Harmless, IsCapture
    <3>3. \A reply \in replies' : reply.id = conn'[r] => ~IsCapture(call'[r], reply.status)
      BY <1>u, <2>3, <2>4
    <3>4. phase'[r] \in {"post", "wait"} => ~IsDestructive(call'[r])
      BY <1>u, <3>1 DEF Harmless, IsDestructive
    <3> QED BY <3>2, <3>3, <3>4 DEF Harmless, IsCapture, IsDestructive
  <2> QED BY <2>2, <2>4, CapturePartsNext
<1> QED BY <1>2, <1>3

(* A step that leaves the store, the threads and the connections. *)
LEMMA GuardKept ==
    ASSUME GuardInv, UNCHANGED <<storeVars, connVars, effects, incident, sent, phase, log, call, conn>>
    PROVE  GuardInv'
BY DEF GuardInv, EvidenceInv, ConnectionInv, CaptureInv, Captured, CarriesIncident,
   storeVars, connVars, IsCapture, IsDestructive

(* The cluster and the clock alone decide nothing. *)
LEMMA ServerGuard ==
    ASSUME TypeOK, GuardInv, ServerStep, UNCHANGED agentVars
    PROVE  GuardInv'
<1>u. UNCHANGED <<incident, sent, phase, log, call, conn>>
  BY DEF agentVars, runVars
<1>1. CASE \E th \in threads : Serve(th)
  BY <1>1, ServeEvidence, ServeConnection, ServeCapture DEF GuardInv, TypeOK
<1>2. ASSUME NEW p \in pods, PodEnds(p) PROVE UNCHANGED <<storeVars, connVars, effects>>
  BY <1>2 DEF PodEnds
<1>3. ASSUME SecondPasses PROVE UNCHANGED <<storeVars, connVars, effects>>
  BY <1>3 DEF SecondPasses
<1>4. CASE ServerRestarts
  BY <1>4, <1>u DEF ServerRestarts, GuardInv, EvidenceInv, ConnectionInv, CaptureInv, Captured,
     CarriesIncident, storeVars, IsCapture, IsDestructive
<1> QED BY <1>1, <1>2, <1>3, <1>4, <1>u, GuardKept DEF ServerStep

-----------------------------------------------------------------------------
(* A step of run r that leaves the store, the threads and the other runs,  *)
(* and drops what is left of r's connection.                               *)
SameStore == UNCHANGED <<storeVars, threads, effects, incident, sent>>
Drops(r) == /\ phase'[r] # "wait" /\ conn'[r] = 0
            /\ open' = open \ {conn[r]}
            /\ replies' = {reply \in replies : reply.id # conn[r]}
OnlyRun(r) == \A k \in Runs \ {r} : /\ phase'[k] = phase[k] /\ log'[k] = log[k]
                                    /\ call'[k] = call[k] /\ conn'[k] = conn[k]

(* a run that holds no connection has none to drop *)
LEMMA NothingToDrop ==
    ASSUME ConnectionInv, NEW r \in Runs, phase[r] # "wait", phase'[r] # "wait",
           conn'[r] = conn[r], UNCHANGED <<open, replies>>
    PROVE  Drops(r)
<1>1. conn[r] = 0 /\ 0 \notin open /\ \A reply \in replies : reply.id # 0
  BY DEF ConnectionInv
<1> QED BY <1>1 DEF Drops

(* Without the capture, r may report none and hold nothing destructive.    *)
LEMMA AgentGuard ==
    ASSUME TypeOK, GuardInv, NEW r \in Runs, SameStore, Drops(r), OnlyRun(r),
           Captured \/ /\ \A i \in DOMAIN log'[r] : ~IsCapture(log'[r][i], log'[r][i].status)
                       /\ phase'[r] \in {"post", "wait"} => ~IsDestructive(call'[r])
    PROVE  GuardInv'
<1>1. EvidenceInv'
  BY DEF GuardInv, EvidenceInv, SameStore, storeVars
<1>2. ConnectionInv'
  <2>1. ConnectionInv /\ sent' = sent /\ sent \in Nat /\ threads' = threads /\ incident' = incident
    BY DEF GuardInv, SameStore, TypeOK
  <2>2. ASSUME NEW k \in Runs
        PROVE  /\ conn'[k] \in 0..sent
               /\ phase'[k] # "wait" => conn'[k] = 0
               /\ \A j \in Runs \ {k} : conn'[j] = conn'[k] => conn'[k] = 0
    BY <2>1 DEF Drops, OnlyRun, ConnectionInv
  <2>3. ASSUME NEW id, id # 0, id # conn[r], \E k \in Runs : id = conn[k]
        PROVE  \E k \in Runs : id = conn'[k]
    BY <2>3 DEF OnlyRun
  <2>4. \A id \in open' : id # 0 /\ \E k \in Runs : id = conn'[k]
    BY <2>1, <2>3 DEF Drops, ConnectionInv
  <2>5. \A reply \in replies' : reply.id # 0 /\ \E k \in Runs : reply.id = conn'[k]
    BY <2>1, <2>3 DEF Drops, ConnectionInv
  <2>6. ASSUME NEW th \in threads
        PROVE  /\ th.id \in 1..sent /\ th.incident = CarriesIncident(th.call)
               /\ \A k \in Runs : th.id = conn'[k] => th.call = call'[k]
    BY <2>1 DEF Drops, OnlyRun, ConnectionInv
  <2> QED BY <2>1, <2>2, <2>4, <2>5, <2>6 DEF ConnectionInv, CarriesIncident
<1>3. CaptureInv'
  <2>1. CASE Captured
    <3>1. Captured'
      BY <2>1 DEF Captured, SameStore, storeVars
    <3> QED BY <3>1, CapturePartsNext
  <2>2. CASE ~Captured
    <3>1. (\A k \in Runs : Harmless(k)) /\ ServerHarmless
      BY <2>2, CaptureParts DEF GuardInv
    <3>2. ServerHarmless'
      BY <3>1 DEF ServerHarmless, SameStore, IsDestructive
    <3>3. ASSUME NEW k \in Runs \ {r} PROVE Harmless(k)'
      <4>1. Harmless(k) /\ replies' \subseteq replies
        BY <3>1 DEF Drops
      <4>2. phase'[k] = phase[k] /\ log'[k] = log[k] /\ call'[k] = call[k] /\ conn'[k] = conn[k]
        BY DEF OnlyRun
      <4> QED BY <4>1, <4>2 DEF Harmless, IsCapture, IsDestructive
    <3>4. Harmless(r)'
      <4>1. \A reply \in replies' : reply.id # conn'[r]
        BY DEF Drops, GuardInv, ConnectionInv
      <4> QED BY <2>2, <4>1 DEF Harmless, IsCapture, IsDestructive
    <3> QED BY <3>2, <3>3, <3>4, CapturePartsNext
  <2> QED BY <2>1, <2>2
<1> QED BY <1>1, <1>2, <1>3 DEF GuardInv

(* An entry that reports a capture comes from a reply that did.            *)
LEMMA LogStaysHarmless ==
    ASSUME TypeOK, NEW r \in Runs, RunStep(r), Harmless(r)
    PROVE  \A i \in DOMAIN log'[r] : ~IsCapture(log'[r][i], log'[r][i].status)
<1>1. ASSUME NEW i \in DOMAIN log'[r], i \in DOMAIN log[r], log'[r][i] = log[r][i]
      PROVE  ~IsCapture(log'[r][i], log'[r][i].status)
  BY <1>1 DEF Harmless, IsCapture
<1>2. ASSUME NEW i \in DOMAIN log'[r], Silent(log'[r][i])
      PROVE  ~IsCapture(log'[r][i], log'[r][i].status)
  BY <1>2 DEF Silent, IsCapture, REQUIRED_FORENSIC_TOOLS
<1>3. ASSUME NEW i \in DOMAIN log'[r], NEW reply \in replies, reply.id = conn[r],
             Reports(call[r], log'[r][i], reply)
      PROVE  ~IsCapture(log'[r][i], log'[r][i].status)
  BY <1>3 DEF Harmless, Reports, IsCapture
<1> QED BY <1>1, <1>2, <1>3, RunLog DEF LogSilent, LogReports

(* A destructive call is taken in hand only behind a log that reports the  *)
(* capture (_execute_tool).                                                *)
LEMMA CallStaysHarmless ==
    ASSUME TypeOK, NEW r \in Runs, RunStep(r), Harmless(r), phase'[r] \in {"post", "wait"}
    PROVE  ~IsDestructive(call'[r])
<1> USE DEF TypeOK, Goes
<1>1. CASE CallTool(r)
  <2>1. PICK c \in Calls : (IsDestructive(c) => ForensicPreconditionMet(r)) /\ Calling(r, c)
    BY <1>1 DEF CallTool
  <2>2. call'[r] = c
    BY <2>1 DEF Calling
  <2>3. ~ForensicPreconditionMet(r)
    BY DEF Harmless, ForensicPreconditionMet, IsCapture, REQUIRED_FORENSIC_TOOLS
  <2> QED BY <2>1, <2>2, <2>3
<1>2. CASE call'[r] = call[r] /\ phase[r] \in {"post", "wait"}
  BY <1>2 DEF Harmless
<1>3. ASSUME NEW n \in Nat, AttemptFailed(r, n), phase[r] \in {"post", "wait"}
      PROVE  call'[r] = call[r]
  <2>1. call[r] \in Calls
    BY <1>3
  <2>2. phase' # [phase EXCEPT ![r] = "turn"]
    OBVIOUS
  <2> QED BY <1>3, <2>1, <2>2, AttemptFailedType
<1>4. CASE ConnectFails(r) \/ TimesOut(r)
  <2>1. \E n \in Nat : AttemptFailed(r, n)
    BY <1>4 DEF ConnectFails, TimesOut
  <2>2. phase[r] \in {"post", "wait"}
    BY <1>4 DEF ConnectFails, TimesOut
  <2> QED BY <1>2, <1>3, <2>1, <2>2
<1>5. CASE Post(r)
  BY <1>2, <1>5 DEF Post
<1>6. CASE BlockTool(r) \/ RefuseUnknownTool(r)
  BY <1>6 DEF BlockTool, RefuseUnknownTool, NextBlock
<1> QED
  BY <1>1, <1>4, <1>5, <1>6, RunStep(r)
     DEF RunStep, ModelCallsTools, Turns, ModelStops, IterationsExhausted, CallRefused, ReadReply,
     Result, UpdateIncidentStatus, Return, ReturnInVain, LambdaFails, Ends

(* What a run keeps of the server, but for a post; and its connection. *)
LEMMA RunDrops ==
    ASSUME TypeOK, ConnectionInv, NEW r \in Runs, RunStep(r), ~Post(r)
    PROVE  SameStore /\ Drops(r)
<1> USE DEF TypeOK
<1>1. CASE TimesOut(r) \/ ReadReply(r) \/ LambdaFails(r)
  <2>1. /\ UNCHANGED <<storeVars, threads, effects, incident, sent>>
        /\ open' = open \ {conn[r]} /\ replies' = {reply \in replies : reply.id # conn[r]}
        /\ conn' = [conn EXCEPT ![r] = 0]
    BY <1>1 DEF TimesOut, ReadReply, LambdaFails, Hangup
  <2>2. phase'[r] # "wait"
    BY <1>1 DEF TimesOut, ReadReply, LambdaFails, AttemptFailed, Result, Ends, Goes
  <2> QED BY <2>1, <2>2 DEF SameStore, Drops
<1>2. CASE ~(TimesOut(r) \/ ReadReply(r) \/ LambdaFails(r))
  <2>1. UNCHANGED <<serverVars, incident, sent, conn>>
    BY <1>2, RunStep(r) DEF RunStep, ModelCallsTools, Turns, ModelStops, IterationsExhausted, BlockTool,
       RefuseUnknownTool, CallTool, Calling, ConnectFails, CallRefused, UpdateIncidentStatus,
       Return, ReturnInVain
  <2>2. phase[r] # "wait"
    BY <1>2, RunStep(r) DEF RunStep, ModelCallsTools, ModelStops, IterationsExhausted, Asks, BlockTool,
       RefuseUnknownTool, CallTool, Calling, NextBlock, ConnectFails, CallRefused,
       UpdateIncidentStatus, Return, ReturnInVain
  <2>3. phase'[r] # "wait"
    <3>1. CASE BlockTool(r) \/ RefuseUnknownTool(r)
      BY <2>2, <3>1 DEF BlockTool, RefuseUnknownTool
    <3>2. CASE ConnectFails(r) \/ CallRefused(r)
      BY <3>2 DEF ConnectFails, AttemptFailed, CallRefused, Result, Goes
    <3> QED BY <1>2, <3>1, <3>2, RunStep(r) DEF RunStep, ModelCallsTools, Turns, ModelStops,
            IterationsExhausted, CallTool, Calling, UpdateIncidentStatus, Return, ReturnInVain,
            Ends, Goes
  <2> QED BY <2>1, <2>2, <2>3, NothingToDrop DEF SameStore, serverVars, connVars
<1> QED BY <1>1, <1>2

(* The post of a call that is let through opens a connection of its own.   *)
LEMMA PostGuard ==
    ASSUME TypeOK, GuardInv, NEW r \in Runs, Post(r)
    PROVE  GuardInv'
<1> DEFINE new == [id |-> sent', call |-> call[r], incident |-> CarriesIncident(call[r]),
                   status |-> "success", step |-> "start", todo |-> {}, key |-> None]
<1>1. /\ threads' = threads \cup {new} /\ open' = open \cup {sent'} /\ replies' = replies
      /\ sent \in Nat /\ sent' = sent + 1 /\ phase[r] = "post"
      /\ phase' = [phase EXCEPT ![r] = "wait"] /\ conn' = [conn EXCEPT ![r] = sent']
      /\ UNCHANGED <<storeVars, effects, incident, log, call>>
  BY DEF Post, Request, Goes, TypeOK
<1>2. /\ new.step = "start" /\ new.id = sent' /\ new.call = call[r]
      /\ new.incident = CarriesIncident(call[r])
  OBVIOUS
<1> HIDE DEF new
<1>3. EvidenceInv'
  BY <1>1, <1>2 DEF GuardInv, EvidenceInv, storeVars
<1>4. conn[r] = 0 /\ \A k \in Runs : conn[k] \in 0..sent
  BY <1>1 DEF GuardInv, ConnectionInv
<1>o. /\ conn'[r] = sent + 1 /\ phase'[r] = "wait"
      /\ \A k \in Runs \ {r} : conn'[k] = conn[k] /\ phase'[k] = phase[k]
  BY <1>1 DEF TypeOK
<1>5. ConnectionInv'
  <2>1. ConnectionInv
    BY DEF GuardInv
  <2>2. ASSUME NEW k \in Runs
        PROVE  /\ conn'[k] \in 0..sent'
               /\ phase'[k] # "wait" => conn'[k] = 0
               /\ \A j \in Runs \ {k} : conn'[j] = conn'[k] => conn'[k] = 0
    BY <1>1, <1>4, <1>o, <2>1 DEF ConnectionInv
  <2>3. ASSUME NEW id, id # 0, \E k \in Runs : id = conn[k] PROVE \E k \in Runs : id = conn'[k]
    BY <1>4, <1>o, <2>3
  <2>4. ASSUME NEW id \in open' PROVE id # 0 /\ \E k \in Runs : id = conn'[k]
    BY <1>1, <1>o, <2>1, <2>3, <2>4 DEF ConnectionInv
  <2>5. ASSUME NEW reply \in replies' PROVE reply.id # 0 /\ \E k \in Runs : reply.id = conn'[k]
    BY <1>1, <2>1, <2>3, <2>5 DEF ConnectionInv
  <2>6. ASSUME NEW th \in threads
        PROVE  /\ th.id \in 1..sent' /\ th.incident = CarriesIncident(th.call)
               /\ \A k \in Runs : th.id = conn'[k] => th.call = call[k]
    BY <1>1, <1>o, <2>1 DEF ConnectionInv
  <2>7. /\ new.id \in 1..sent' /\ new.incident = CarriesIncident(new.call)
        /\ \A k \in Runs : new.id = conn'[k] => new.call = call[k]
    BY <1>1, <1>2, <1>4, <1>o
  <2> QED BY <1>1, <2>2, <2>4, <2>5, <2>6, <2>7 DEF ConnectionInv, CarriesIncident
<1>6. CASE Captured
  <2>1. Captured'
    BY <1>1, <1>6 DEF Captured, storeVars
  <2> QED BY <1>3, <1>5, <2>1, CapturePartsNext DEF GuardInv
<1>7. CASE ~Captured
  <2>1. (\A k \in Runs : Harmless(k)) /\ ServerHarmless
    BY <1>7, CaptureParts DEF GuardInv
  <2>2. ServerHarmless'
    <3>1. ~IsDestructive(call[r])
      BY <1>1, <2>1 DEF Harmless
    <3> QED BY <1>1, <1>2, <2>1, <3>1 DEF ServerHarmless, IsDestructive
  <2>3. ASSUME NEW k \in Runs \ {r} PROVE Harmless(k)'
    BY <1>1, <1>o, <2>1 DEF Harmless, IsCapture, IsDestructive
  <2>4. Harmless(r)'
    <3>1. ASSUME NEW reply \in replies PROVE reply.id # sent + 1
      BY <1>1, <1>4, <3>1 DEF GuardInv, ConnectionInv
    <3>2. Harmless(r)
      BY <2>1
    <3> QED BY <1>1, <1>o, <3>1, <3>2 DEF Harmless, IsCapture, IsDestructive
  <2>5. CaptureInv'
    BY <2>2, <2>3, <2>4, CapturePartsNext
  <2> QED BY <1>3, <1>5, <2>5 DEF GuardInv
<1> QED BY <1>6, <1>7

(* The invariant behind the guard, one step at a time. *)
LEMMA GuardStep ==
    ASSUME TypeOK, RunsInv, GuardInv, [Next]_vars
    PROVE  GuardInv'
<1>c. ConnectionInv
  BY DEF GuardInv
<1>1. ASSUME NEW r \in Runs, RunStep(r), ~Post(r) PROVE GuardInv'
  <2>1. SameStore /\ Drops(r)
    BY <1>1, <1>c, RunDrops
  <2>2. OnlyRun(r)
    BY <1>1, OthersLeft DEF OnlyRun
  <2>3. Captured \/ Harmless(r)
    BY CaptureParts DEF GuardInv
  <2>4. Captured \/ /\ \A i \in DOMAIN log'[r] : ~IsCapture(log'[r][i], log'[r][i].status)
                    /\ phase'[r] \in {"post", "wait"} => ~IsDestructive(call'[r])
    BY <1>1, <2>3, LogStaysHarmless, CallStaysHarmless
  <2> QED BY <2>1, <2>2, <2>4, AgentGuard
<1>2. CASE RetryTask
  <2>1. /\ current' \in Runs /\ current' > current /\ phase' = [phase EXCEPT ![current'] = "invoke"]
        /\ UNCHANGED <<serverVars, incident, log, call, conn, sent>>
    BY <1>2 DEF RetryTask, Goes, Runs, TypeOK
  <2>2. PICK r \in Runs : r = current'
    BY <2>1
  <2>3. phase[r] = "idle" /\ phase'[r] = "invoke"
    BY <2>1, <2>2 DEF RunsInv, TypeOK
  <2>4. OnlyRun(r)
    BY <2>1, <2>2 DEF OnlyRun, TypeOK
  <2>5. SameStore /\ UNCHANGED <<open, replies>>
    BY <2>1 DEF SameStore, serverVars, connVars
  <2>6. Drops(r)
    BY <1>c, <2>1, <2>3, <2>5, NothingToDrop
  <2>7. Captured \/ \A i \in DOMAIN log'[r] : ~IsCapture(log'[r][i], log'[r][i].status)
    BY <2>1, CaptureParts DEF GuardInv, Harmless, IsCapture
  <2> QED BY <2>3, <2>4, <2>5, <2>6, <2>7, AgentGuard
<1>3. CASE LoseAnswer \/ CatchError \/ UNCHANGED vars
  <2>1. UNCHANGED <<serverVars, incident, sent, phase, log, call, conn>>
    BY <1>3 DEF LoseAnswer, CatchError, runVars, vars, agentVars
  <2> QED BY <2>1, GuardKept DEF serverVars
<1>4. CASE ServerStep /\ UNCHANGED agentVars
  BY <1>4, ServerGuard
<1> QED BY <1>1, <1>2, <1>3, <1>4, PostGuard DEF Next, AgentStep, TaskGoesOn

LEMMA GuardInit ==
    ASSUME Init
    PROVE  GuardInv /\ ~Captured /\ ~Damaged
<1>1. \A r \in Runs : phase[r] \in {"invoke", "idle"} /\ conn[r] = 0 /\ log[r] = <<>>
  BY DEF Init
<1> QED BY <1>1 DEF Init, ServerInit, GuardInv, EvidenceInv, ConnectionInv, CaptureInv, Captured,
        Damaged

(* A run the task starts holds nothing yet: with RunsInv, the guard holds  *)
(* along the whole chain: a log entry, the reply it came from, the thread  *)
(* that wrote the reply.                                                   *)
THEOREM GuardHolds == Spec => []GuardInv
<1>1. Init => RunsInv /\ GuardInv
  <2>1. Init => RunsInv
    BY DEF Init, RunsInv, Runs
  <2> QED BY <2>1, GuardInit
<1>2. TypeOK /\ RunsInv /\ GuardInv /\ [Next]_vars => RunsInv' /\ GuardInv'
  BY RunsStep, GuardStep
<1> QED BY <1>1, <1>2, TypeCorrect, PTL DEF Spec

(* Nothing destructive reaches the cluster before a checkpoint_pod of the  *)
(* task is stored, under the bundle its incident id leads to, and listed:  *)
(* however many requests are retried, given up or still running, and       *)
(* however many runs of the task are at work beside each other.            *)
THEOREM EvidenceComesFirst == Spec => []EvidenceBeforeDestruction
<1>1. GuardInv => EvidenceBeforeDestruction
  BY DEF GuardInv, CaptureInv, EvidenceBeforeDestruction
<1> QED BY <1>1, GuardHolds, PTL

-----------------------------------------------------------------------------
(* Captured and Damaged only ever become true, and Damaged only when       *)
(* Captured is.                                                            *)
LEMMA PromiseStep ==
    ASSUME TypeOK, GuardInv, [Next]_vars
    PROVE  /\ Captured => Captured'
           /\ Damaged => Damaged'
           /\ Damaged' => Damaged \/ Captured
<1>1. CASE ServerStep /\ UNCHANGED agentVars
  <2>u. UNCHANGED <<incident, sent>>
    BY <1>1 DEF agentVars
  <2>1. CASE \E th \in threads : Serve(th)
    <3>1. PICK th \in threads : Serve(th)
      BY <2>1
    <3>2. StoreGrows /\ Follows(th) /\ effects \subseteq effects'
      <4>1. effects \subseteq effects'
        BY <3>1 DEF Serve, LabelPod, DeletePod, ApplyCiliumNetworkPolicy, PatchDeployment,
           CordonNode, DrainListPods, DrainEvict, DrainDone, CaptureEvidence,
           CollectEvidence, CollectLivePodForensics, CheckpointContainerExperimental,
           PutForensicsObject, AppendEvidenceManifest, ToolFails,
           TakesEffect
      <4> QED BY <3>1, <4>1, ServeStoreGrows, ServeFollows DEF TypeOK, GuardInv
    <3>3. Captured => Captured'
      BY <2>u, <3>2, CapturedStays DEF TypeOK
    <3>4. Damaged => Damaged'
      BY <3>2 DEF Damaged, IsDestructive
    <3>5. Damaged' => Damaged \/ IsDestructive(th.call)
      BY <3>2 DEF Damaged, Follows, IsDestructive
    <3>6. IsDestructive(th.call) => Captured
      BY DEF GuardInv, CaptureInv
    <3> QED BY <3>3, <3>4, <3>5, <3>6
  <2>2. CASE SecondPasses \/ ServerRestarts \/ \E p \in pods : PodEnds(p)
    <3>1. UNCHANGED <<storeVars, effects, incident, sent>>
      BY <2>u, <2>2 DEF SecondPasses, ServerRestarts, PodEnds
    <3> QED BY <3>1 DEF Captured, Damaged, storeVars, IsDestructive
  <2> QED BY <1>1, <2>1, <2>2 DEF ServerStep
<1>2. CASE AgentStep \/ UNCHANGED vars
  <2>1. UNCHANGED <<storeVars, effects, incident>>
    BY <1>2, AgentLeavesServer
  <2>2. sent' = sent \/ sent' = sent + 1
    <3>1. ASSUME NEW r \in Runs, RunStep(r) PROVE sent' = sent \/ sent' = sent + 1
      BY <3>1 DEF RunStep, ModelCallsTools, Turns, ModelStops, IterationsExhausted, BlockTool,
         RefuseUnknownTool, CallTool, Calling, Post, ConnectFails, CallRefused, TimesOut, ReadReply,
         UpdateIncidentStatus, Return, ReturnInVain, LambdaFails
    <3> QED BY <1>2, <3>1 DEF AgentStep, LoseAnswer, TaskGoesOn, RetryTask, CatchError, vars, agentVars
  <2>3. Captured => Captured'
    <3>1. StoreGrows /\ ServerTypeOK /\ sent \in Nat
      BY <2>1 DEF StoreGrows, storeVars, TypeOK
    <3> QED BY <2>1, <2>2, <3>1, CapturedStays
  <2> QED BY <2>1, <2>3 DEF Damaged, IsDestructive
<1> QED BY <1>1, <1>2 DEF Next

(* The agent, its client and the server implement EvidenceFirst: every     *)
(* step of theirs is a Capture, a Destroy after it, or neither.            *)
THEOREM RefinesEvidenceFirst == Spec => ImplementsEvidenceFirst
<1>1. Init => EF!Init
  BY GuardInit DEF EF!Init
<1>2. TypeOK /\ GuardInv /\ [Next]_vars => [EF!Next]_<<Captured, Damaged>>
  BY PromiseStep DEF EF!Next, EF!Capture, EF!Destroy, Captured, Damaged
<1> QED BY <1>1, <1>2, TypeCorrect, GuardHolds, PTL DEF Spec, ImplementsEvidenceFirst, EF!Spec

-----------------------------------------------------------------------------
(* What a log, and a reply to the call in hand, report as done.            *)
LogDone(r) == \A i \in DOMAIN log[r] :
                log[r][i].status = "success" => Done(log[r][i].tool, log[r][i].target, log[r][i].uri)
ReplyDone(r) == \A reply \in replies : (reply.id = conn[r] /\ reply.status = "success") =>
                  Done(call[r].tool, call[r].target, reply.uri)
SuccessInv == \A r \in Runs : LogDone(r) /\ ReplyDone(r)

(* A new reply can only be to the call in hand: ConnectionInv.             *)
LEMMA ServerSuccess ==
    ASSUME ServerTypeOK, CordonInv, ConnectionInv, SuccessInv, ServerStep, UNCHANGED agentVars
    PROVE  SuccessInv'
<1>1. DoneGrows
  BY ServerStepDoneGrows
<1>u. UNCHANGED <<log, call, conn>>
  BY DEF agentVars, runVars
<1>2. ASSUME NEW r \in Runs PROVE LogDone(r)'
  BY <1>1, <1>u DEF SuccessInv, LogDone, Done, DoneGrows
<1>3. ASSUME NEW r \in Runs, NEW reply \in replies', reply.id = conn[r], reply.status = "success"
      PROVE  Done(call[r].tool, call[r].target, reply.uri)'
  <2>1. CASE reply \in replies
    BY <1>1, <1>3, <1>u, <2>1 DEF SuccessInv, ReplyDone, Done, DoneGrows
  <2>2. ASSUME NEW th \in threads, Serve(th), reply \notin replies
        PROVE  Done(call[r].tool, call[r].target, reply.uri)'
    <3>1. reply.id = th.id /\ th.id \in open /\ Done(th.call.tool, th.call.target, reply.uri)'
      BY <1>3, <2>2, ServeTruthful DEF Truthful
    <3>2. th.id = conn[r]
      BY <1>3, <3>1
    <3>3. th.call = call[r]
      BY <3>2 DEF ConnectionInv
    <3> QED BY <1>u, <3>1, <3>3 DEF Done
  <2>3. CASE SecondPasses \/ ServerRestarts \/ \E p \in pods : PodEnds(p)
    BY <1>3, <2>1, <2>3 DEF SecondPasses, ServerRestarts, PodEnds, connVars
  <2> QED BY <2>1, <2>2, <2>3 DEF ServerStep
<1>4. ASSUME NEW r \in Runs PROVE ReplyDone(r)'
  BY <1>3, <1>u DEF ReplyDone, Done
<1> QED BY <1>2, <1>4 DEF SuccessInv

(* While a run waits it has one call in hand; a connection it opens has no *)
(* reply yet.                                                              *)
LEMMA NoOldReply ==
    ASSUME TypeOK, ConnectionInv, NEW r \in Runs, RunStep(r), NEW reply \in replies',
           reply.id = conn'[r]
    PROVE  reply.id = conn[r] /\ call'[r] = call[r]
<1>1. CASE Post(r)
  <2>1. reply \in replies /\ reply.id = sent + 1 /\ sent \in Nat
    BY <1>1 DEF Post, Request, TypeOK
  <2>2. PICK k \in Runs : reply.id = conn[k]
    BY <2>1 DEF ConnectionInv
  <2> QED BY <2>1, <2>2 DEF ConnectionInv
<1>2. CASE ~Post(r)
  BY <1>2, RunDrops DEF Drops, ConnectionInv
<1> QED BY <1>1, <1>2

LEMMA AgentSuccess ==
    ASSUME TypeOK, ConnectionInv, SuccessInv, AgentStep \/ UNCHANGED vars
    PROVE  SuccessInv'
<1>1. UNCHANGED <<pods, labelled, policies, cordoned>> /\ replies' \subseteq replies
  BY AgentLeavesServer DEF clusterVars
<1>2. ASSUME NEW k \in Runs, NEW i \in DOMAIN log'[k], log'[k][i].status = "success"
      PROVE  Done(log'[k][i].tool, log'[k][i].target, log'[k][i].uri)
  <2>1. CASE i \in DOMAIN log[k] /\ log'[k][i] = log[k][i]
    BY <1>2, <2>1 DEF SuccessInv, LogDone
  <2>2. CASE Silent(log'[k][i])
    BY <1>2, <2>2 DEF Silent, Done, AlwaysStores
  <2>3. ASSUME NEW reply \in replies, reply.id = conn[k], Reports(call[k], log'[k][i], reply)
        PROVE  Done(log'[k][i].tool, log'[k][i].target, log'[k][i].uri)
    BY <1>2, <2>3 DEF Reports, SuccessInv, ReplyDone
  <2> QED BY <1>2, <2>1, <2>2, <2>3, AgentLog DEF LogSilent, LogReports
<1>3. ASSUME NEW k \in Runs PROVE LogDone(k)'
  BY <1>1, <1>2 DEF LogDone, Done
<1>4. ASSUME NEW k \in Runs, NEW reply \in replies', reply.id = conn'[k]
      PROVE  reply.id = conn[k] /\ call'[k] = call[k]
  <2>1. ASSUME NEW r \in Runs, RunStep(r) PROVE reply.id = conn[k] /\ call'[k] = call[k]
    BY <1>4, <2>1, NoOldReply, OthersLeft
  <2>2. CASE UNCHANGED <<call, conn>>
    BY <1>4, <2>2
  <2> QED BY <2>1, <2>2 DEF AgentStep, LoseAnswer, TaskGoesOn, RetryTask, CatchError,
          vars, agentVars, runVars
<1>5. ASSUME NEW k \in Runs PROVE ReplyDone(k)'
  BY <1>1, <1>4 DEF SuccessInv, ReplyDone, Done
<1> QED BY <1>3, <1>5 DEF SuccessInv

LEMMA CordonStep ==
    ASSUME TypeOK, CordonInv, [Next]_vars
    PROVE  CordonInv'
<1>1. CASE ServerStep /\ UNCHANGED agentVars
  BY <1>1, ServerStepCordon DEF TypeOK
<1>2. CASE AgentStep \/ UNCHANGED vars
  BY <1>2, AgentLeavesServer, CordonKept DEF clusterVars
<1> QED BY <1>1, <1>2 DEF Next

(* A "success" of an execution_log is the outcome of this very call: the   *)
(* cluster shows it, however many earlier posts were given up and whatever *)
(* another run of the task does.                                           *)
THEOREM SuccessesAreReal == Spec => []SuccessIsReal
<1>1. Init => CordonInv /\ SuccessInv
  BY DEF Init, ServerInit, CordonInv, SuccessInv, LogDone, ReplyDone
<1>2. TypeOK /\ GuardInv /\ CordonInv /\ SuccessInv /\ [Next]_vars => CordonInv' /\ SuccessInv'
  BY CordonStep, ServerSuccess, AgentSuccess DEF TypeOK, GuardInv, Next
<1>3. SuccessInv => SuccessIsReal
  BY DEF SuccessInv, LogDone, Done, SuccessIsReal
<1> QED BY <1>1, <1>2, <1>3, TypeCorrect, GuardHolds, PTL DEF Spec

-----------------------------------------------------------------------------
(* How far a run has to go: where it is, its turns, the blocks of a turn,   *)
(* the attempts of a call; and the task: its runs, and the answer it waits  *)
(* for.  That they get there needs fairness; that they do not go in circles *)
(* is proved here.                                                          *)
Stage(r) == CASE phase[r] = "idle"   -> 4
              [] phase[r] = "update" -> 2
              [] phase[r] = "return" -> 1
              [] phase[r] \in {"returned", "over"} -> 0
              [] OTHER -> 3
InCall(r) == IF phase[r] \in {"post", "wait"} THEN 1 ELSE 0
InWait(r) == IF phase[r] = "wait" THEN 1 ELSE 0

RunLeft(r) == <<Stage(r), MaxIterations - iteration[r], MaxBlocks - blocks[r],
                InCall(r), MaxAttempts - attempt[r], InWait(r)>>

Waits == IF task # "running" THEN 0 ELSE IF current \in lost THEN 1 ELSE 2
TaskLeft == <<MaxRuns - current, Waits>>

(* the lexicographic order of two of them *)
Nearer(u, v) == \E i \in DOMAIN v : u[i] < v[i] /\ \A j \in 1..(i - 1) : u[j] = v[j]

(* Each step of the runs and of the task brings one of them nearer to its   *)
(* end, and takes none away from it; the server's threads leave them.       *)
NeverGoesBack ==
    [][/\ AgentStep => /\ Nearer(TaskLeft', TaskLeft) \/ \E r \in Runs : Nearer(RunLeft(r)', RunLeft(r))
                       /\ Nearer(TaskLeft', TaskLeft) \/ TaskLeft' = TaskLeft
                       /\ \A r \in Runs : Nearer(RunLeft(r)', RunLeft(r)) \/ RunLeft(r)' = RunLeft(r)
       /\ ~AgentStep => TaskLeft' = TaskLeft /\ \A r \in Runs : RunLeft(r)' = RunLeft(r)]_vars

(* Where a run is decides Stage, InCall and InWait. *)
LEMMA StageListed ==
    ASSUME NEW r \in Runs
    PROVE  /\ Stage(r) \in 0..4 /\ InCall(r) \in 0..1 /\ InWait(r) \in 0..1
           /\ phase[r] = "idle" => Stage(r) = 4
           /\ phase[r] \in {"invoke", "turn", "post", "wait"} => Stage(r) = 3
           /\ phase[r] = "update" => Stage(r) = 2
           /\ phase[r] = "return" => Stage(r) = 1
           /\ phase[r] \in {"returned", "over"} => Stage(r) = 0
           /\ phase[r] \in {"invoke", "turn"} => InCall(r) = 0
           /\ phase[r] \in {"post", "wait"} => InCall(r) = 1
           /\ phase[r] = "post" => InWait(r) = 0
           /\ phase[r] = "wait" => InWait(r) = 1
BY DEF Stage, InCall, InWait

LEMMA StageListedNext ==
    ASSUME NEW r \in Runs
    PROVE  /\ Stage(r)' \in 0..4 /\ InCall(r)' \in 0..1 /\ InWait(r)' \in 0..1
           /\ phase'[r] \in {"invoke", "turn", "post", "wait"} => Stage(r)' = 3
           /\ phase'[r] = "update" => Stage(r)' = 2
           /\ phase'[r] = "return" => Stage(r)' = 1
           /\ phase'[r] \in {"returned", "over"} => Stage(r)' = 0
           /\ phase'[r] \in {"invoke", "turn"} => InCall(r)' = 0
           /\ phase'[r] \in {"post", "wait"} => InCall(r)' = 1
           /\ phase'[r] = "post" => InWait(r)' = 0
           /\ phase'[r] = "wait" => InWait(r)' = 1
BY DEF Stage, InCall, InWait

(* The first place in which the two differ decides. *)
LEMMA FirstDecides ==
    ASSUME NEW u, NEW v, DOMAIN v = 1..6,
           \/ u[1] < v[1]
           \/ u[2] < v[2] /\ u[1] = v[1]
           \/ u[3] < v[3] /\ u[1] = v[1] /\ u[2] = v[2]
           \/ u[4] < v[4] /\ u[1] = v[1] /\ u[2] = v[2] /\ u[3] = v[3]
           \/ u[5] < v[5] /\ u[1] = v[1] /\ u[2] = v[2] /\ u[3] = v[3] /\ u[4] = v[4]
           \/ /\ u[6] < v[6] /\ u[1] = v[1] /\ u[2] = v[2] /\ u[3] = v[3] /\ u[4] = v[4]
              /\ u[5] = v[5]
    PROVE  Nearer(u, v)
<1>1. ASSUME NEW i \in 1..6, u[i] < v[i], \A j \in 1..(i - 1) : u[j] = v[j]
      PROVE  Nearer(u, v)
  BY <1>1 DEF Nearer
<1>2. CASE u[1] < v[1]
  BY <1>1, <1>2
<1>3. CASE u[2] < v[2] /\ u[1] = v[1]
  BY <1>1, <1>3
<1>4. CASE u[3] < v[3] /\ u[1] = v[1] /\ u[2] = v[2]
  BY <1>1, <1>4
<1>5. CASE u[4] < v[4] /\ u[1] = v[1] /\ u[2] = v[2] /\ u[3] = v[3]
  BY <1>1, <1>5
<1>6. CASE u[5] < v[5] /\ u[1] = v[1] /\ u[2] = v[2] /\ u[3] = v[3] /\ u[4] = v[4]
  BY <1>1, <1>6
<1>7. CASE /\ u[6] < v[6] /\ u[1] = v[1] /\ u[2] = v[2] /\ u[3] = v[3] /\ u[4] = v[4]
           /\ u[5] = v[5]
  BY <1>1, <1>7
<1> QED BY <1>2, <1>3, <1>4, <1>5, <1>6, <1>7

LEMMA RunNearer ==
    ASSUME NEW r \in Runs, TypeOK, TypeOK',
           \/ Stage(r)' < Stage(r)
           \/ /\ Stage(r)' = Stage(r)
              /\ \/ iteration'[r] > iteration[r]
                 \/ /\ iteration'[r] = iteration[r]
                    /\ \/ blocks'[r] > blocks[r]
                       \/ blocks'[r] = blocks[r] /\ InCall(r)' < InCall(r)
                       \/ /\ blocks'[r] = blocks[r] /\ InCall(r)' = InCall(r)
                          /\ \/ attempt'[r] > attempt[r]
                             \/ attempt'[r] = attempt[r] /\ InWait(r)' < InWait(r)
    PROVE  Nearer(RunLeft(r)', RunLeft(r))
<1>1. /\ iteration'[r] \in Int /\ blocks'[r] \in Int /\ attempt'[r] \in Int
      /\ iteration[r] \in Int /\ blocks[r] \in Int /\ attempt[r] \in Int
      /\ MaxIterations \in Int /\ MaxBlocks \in Int /\ MaxAttempts \in Int
  BY DEF TypeOK
<1> DEFINE u == RunLeft(r)'
           v == RunLeft(r)
<1>2. /\ v[1] = Stage(r)                     /\ u[1] = Stage(r)'
      /\ v[2] = MaxIterations - iteration[r] /\ u[2] = MaxIterations - iteration'[r]
      /\ v[3] = MaxBlocks - blocks[r]        /\ u[3] = MaxBlocks - blocks'[r]
      /\ v[4] = InCall(r)                    /\ u[4] = InCall(r)'
      /\ v[5] = MaxAttempts - attempt[r]     /\ u[5] = MaxAttempts - attempt'[r]
      /\ v[6] = InWait(r)                    /\ u[6] = InWait(r)'
      /\ DOMAIN v = 1..6
  BY DEF RunLeft
<1> HIDE DEF u, v
<1>3. /\ Stage(r)' = Stage(r)            => u[1] = v[1]
      /\ iteration'[r] = iteration[r]    => u[2] = v[2]
      /\ blocks'[r] = blocks[r]          => u[3] = v[3]
      /\ InCall(r)' = InCall(r)          => u[4] = v[4]
      /\ attempt'[r] = attempt[r]        => u[5] = v[5]
  BY ONLY <1>2
<1>4. /\ Stage(r)' < Stage(r)            => u[1] < v[1]
      /\ iteration'[r] > iteration[r]    => u[2] < v[2]
      /\ blocks'[r] > blocks[r]          => u[3] < v[3]
      /\ InCall(r)' < InCall(r)          => u[4] < v[4]
      /\ attempt'[r] > attempt[r]        => u[5] < v[5]
      /\ InWait(r)' < InWait(r)          => u[6] < v[6]
  <2>1. \A m, a, b \in Int : b > a => m - b < m - a
    OBVIOUS
  <2>2. iteration'[r] > iteration[r] => MaxIterations - iteration'[r] < MaxIterations - iteration[r]
    BY ONLY <1>1, <2>1
  <2>3. blocks'[r] > blocks[r] => MaxBlocks - blocks'[r] < MaxBlocks - blocks[r]
    BY ONLY <1>1, <2>1
  <2>4. attempt'[r] > attempt[r] => MaxAttempts - attempt'[r] < MaxAttempts - attempt[r]
    BY ONLY <1>1, <2>1
  <2> QED BY <1>2, <2>2, <2>3, <2>4, Zenon
<1>5. Nearer(u, v)
  BY <1>2, <1>3, <1>4, FirstDecides
<1> QED BY <1>5 DEF u, v

(* A call that is over, in the turn it was made in. *)
LEMMA CallEnds ==
    ASSUME NEW r \in Runs, TypeOK, TypeOK', phase[r] \in {"post", "wait"}, phase'[r] = "turn",
           UNCHANGED <<iteration, blocks>>
    PROVE  Nearer(RunLeft(r)', RunLeft(r))
<1>1. Stage(r)' = 3 /\ Stage(r) = 3 /\ InCall(r)' = 0 /\ InCall(r) = 1
  BY StageListed, StageListedNext
<1> QED BY <1>1, RunNearer

(* A call goes on with its next attempt, or is over. *)
LEMMA AttemptGoesOn ==
    ASSUME NEW r \in Runs, TypeOK, TypeOK', NEW n \in Nat, AttemptFailed(r, n),
           UNCHANGED <<iteration, blocks>>,
           \/ phase[r] = "post" /\ n > attempt[r]
           \/ phase[r] = "wait" /\ n = attempt[r]
    PROVE  Nearer(RunLeft(r)', RunLeft(r))
<1>1. call[r] \in Calls /\ r \in DOMAIN phase /\ r \in DOMAIN attempt
  BY DEF TypeOK
<1>2. CASE phase' = [phase EXCEPT ![r] = "post"] /\ attempt' = [attempt EXCEPT ![r] = n]
  <2>1. phase'[r] = "post" /\ attempt'[r] = n
    BY <1>1, <1>2
  <2>2. Stage(r)' = 3 /\ Stage(r) = 3 /\ InCall(r)' = 1 /\ InCall(r) = 1 /\ InWait(r)' = 0
    BY <2>1, StageListed, StageListedNext
  <2>3. phase[r] = "wait" => InWait(r) = 1
    BY StageListed
  <2> QED BY <2>1, <2>2, <2>3, RunNearer
<1>3. CASE phase' = [phase EXCEPT ![r] = "turn"]
  <2>1. phase'[r] = "turn"
    BY <1>1, <1>3
  <2> QED BY <2>1, CallEnds
<1> QED BY <1>1, <1>2, <1>3, AttemptFailedType

(* Each step of a run. *)
LEMMA RunGoesOn ==
    ASSUME NEW r \in Runs, TypeOK, TypeOK', RunStep(r)
    PROVE  Nearer(RunLeft(r)', RunLeft(r))
<1>0. /\ iteration[r] \in Nat /\ blocks[r] \in Nat /\ attempt[r] \in Nat
      /\ r \in DOMAIN phase /\ r \in DOMAIN iteration /\ r \in DOMAIN blocks
      /\ r \in DOMAIN attempt
  BY DEF TypeOK
<1> USE DEF Goes
<1>1. ASSUME Stage(r)' < Stage(r) PROVE Nearer(RunLeft(r)', RunLeft(r))
  BY <1>1, RunNearer
<1>2. CASE ModelCallsTools(r)
  <2>1. /\ phase[r] \in {"invoke", "turn"} /\ phase'[r] = "turn"
        /\ iteration'[r] = iteration[r] + 1
    BY <1>0, <1>2 DEF ModelCallsTools, Asks, Turns
  <2>2. Stage(r)' = 3 /\ Stage(r) = 3 /\ iteration'[r] > iteration[r]
    BY <1>0, <2>1, StageListed, StageListedNext
  <2> QED BY <2>2, RunNearer
<1>3. CASE ModelStops(r) \/ IterationsExhausted(r)
  <2>1. phase[r] \in {"invoke", "turn"} /\ phase'[r] = "update"
    BY <1>0, <1>3 DEF ModelStops, IterationsExhausted, Asks
  <2>2. Stage(r)' = 2 /\ Stage(r) = 3
    BY <2>1, StageListed, StageListedNext
  <2> QED BY <1>1, <2>2
<1>4. CASE BlockTool(r) \/ RefuseUnknownTool(r) \/ CallTool(r)
  <2>1. /\ phase[r] = "turn" /\ phase'[r] \in {"turn", "post"}
        /\ iteration'[r] = iteration[r] /\ blocks'[r] = blocks[r] + 1
    BY <1>0, <1>4 DEF BlockTool, RefuseUnknownTool, CallTool, Calling, NextBlock
  <2>2. Stage(r)' = 3 /\ Stage(r) = 3 /\ blocks'[r] > blocks[r]
    BY <1>0, <2>1, StageListed, StageListedNext
  <2> QED BY <2>1, <2>2, RunNearer
<1>5. CASE Post(r)
  <2>1. /\ phase[r] = "post" /\ phase'[r] = "wait" /\ attempt'[r] = attempt[r] + 1
        /\ UNCHANGED <<iteration, blocks>>
    BY <1>0, <1>5 DEF Post
  <2>2. /\ Stage(r)' = 3 /\ Stage(r) = 3 /\ InCall(r)' = 1 /\ InCall(r) = 1
        /\ attempt'[r] > attempt[r]
    BY <1>0, <2>1, StageListed, StageListedNext
  <2> QED BY <2>1, <2>2, RunNearer
<1>6. CASE ConnectFails(r)
  <2>1. /\ phase[r] = "post" /\ AttemptFailed(r, attempt[r] + 1) /\ UNCHANGED <<iteration, blocks>>
        /\ attempt[r] + 1 \in Nat /\ attempt[r] + 1 > attempt[r]
    BY <1>0, <1>6 DEF ConnectFails
  <2> QED BY <2>1, AttemptGoesOn
<1>7. CASE TimesOut(r)
  <2>1. phase[r] = "wait" /\ AttemptFailed(r, attempt[r]) /\ UNCHANGED <<iteration, blocks>>
    BY <1>7 DEF TimesOut
  <2> QED BY <1>0, <2>1, AttemptGoesOn
<1>8. CASE CallRefused(r) \/ ReadReply(r)
  <2>1. phase[r] \in {"post", "wait"} /\ phase'[r] = "turn" /\ UNCHANGED <<iteration, blocks>>
    BY <1>0, <1>8 DEF CallRefused, ReadReply, Result
  <2> QED BY <2>1, CallEnds
<1>9. CASE UpdateIncidentStatus(r)
  <2>1. phase[r] = "update" /\ phase'[r] = "return"
    BY <1>0, <1>9 DEF UpdateIncidentStatus
  <2>2. Stage(r)' = 1 /\ Stage(r) = 2
    BY <2>1, StageListed, StageListedNext
  <2> QED BY <1>1, <2>2
<1>10. CASE Return(r) \/ ReturnInVain(r) \/ LambdaFails(r)
  <2>1. phase[r] \in Working /\ phase'[r] \in {"returned", "over"}
    BY <1>0, <1>10 DEF Return, ReturnInVain, LambdaFails, Ends, Working
  <2>2. Stage(r)' = 0 /\ Stage(r) \in {1, 2, 3}
    BY <2>1, StageListed, StageListedNext DEF Working
  <2> QED BY <1>1, <2>2
<1> QED
  BY <1>2, <1>3, <1>4, <1>5, <1>6, <1>7, <1>8, <1>9, <1>10, RunStep(r) DEF RunStep

(* The task asks for its next run, or waits for less. *)
LEMMA TaskNearer ==
    ASSUME TypeOK, TypeOK',
           current' > current \/ (current' = current /\ Waits' < Waits)
    PROVE  Nearer(TaskLeft', TaskLeft)
<1> DEFINE u == TaskLeft'
           v == TaskLeft
<1>1. /\ v[1] = MaxRuns - current  /\ u[1] = MaxRuns - current'
      /\ v[2] = Waits              /\ u[2] = Waits'
      /\ DOMAIN v = 1..2
  BY DEF TaskLeft
<1>2. current \in Int /\ current' \in Int /\ MaxRuns \in Int
  BY DEF TypeOK, Runs
<1> HIDE DEF u, v
<1>3. u[1] < v[1] \/ (u[1] = v[1] /\ u[2] < v[2])
  <2>1. CASE current' > current
    <3>1. \A m, a, b \in Int : b > a => m - b < m - a
      OBVIOUS
    <3>2. MaxRuns - current' < MaxRuns - current
      BY ONLY <1>2, <2>1, <3>1
    <3> QED BY <1>1, <3>2
  <2>2. CASE current' = current /\ Waits' < Waits
    BY ONLY <1>1, <2>2
  <2> QED BY <2>1, <2>2
<1>4. ASSUME NEW i \in 1..2, u[i] < v[i], \A j \in 1..(i - 1) : u[j] = v[j]
      PROVE  Nearer(u, v)
  BY <1>1, <1>4 DEF Nearer
<1>5. Nearer(u, v)
  <2>1. CASE u[1] < v[1]
    BY <1>4, <2>1
  <2>2. CASE u[1] = v[1] /\ u[2] < v[2]
    BY <1>4, <2>2
  <2> QED BY <1>3, <2>1, <2>2
<1> QED BY <1>5 DEF u, v

LEMMA AgentGoesOn ==
    ASSUME TypeOK, TypeOK', RunsInv, AgentStep
    PROVE  /\ Nearer(TaskLeft', TaskLeft) \/ \E r \in Runs : Nearer(RunLeft(r)', RunLeft(r))
           /\ Nearer(TaskLeft', TaskLeft) \/ TaskLeft' = TaskLeft
           /\ \A r \in Runs : Nearer(RunLeft(r)', RunLeft(r)) \/ RunLeft(r)' = RunLeft(r)
<1>1. ASSUME NEW k \in Runs, phase'[k] = phase[k], iteration'[k] = iteration[k],
             blocks'[k] = blocks[k], attempt'[k] = attempt[k]
      PROVE  RunLeft(k)' = RunLeft(k)
  BY <1>1 DEF RunLeft, Stage, InCall, InWait
<1>2. ASSUME UNCHANGED <<current, task, lost>> PROVE TaskLeft' = TaskLeft
  BY <1>2 DEF TaskLeft, Waits
<1>3. ASSUME NEW r \in Runs, RunStep(r)
      PROVE  /\ Nearer(RunLeft(r)', RunLeft(r))
             /\ Nearer(TaskLeft', TaskLeft) \/ TaskLeft' = TaskLeft
             /\ \A k \in Runs \ {r} : RunLeft(k)' = RunLeft(k)
  <2>1. Nearer(RunLeft(r)', RunLeft(r))
    BY <1>3, RunGoesOn
  <2>2. \A k \in Runs \ {r} : RunLeft(k)' = RunLeft(k)
    BY <1>1, <1>3, OthersLeft
  <2>3. UNCHANGED <<current, lost>> /\ task' \in {task, "returned"}
    BY <1>3 DEF RunStep, ModelCallsTools, Turns, ModelStops, IterationsExhausted, BlockTool,
       RefuseUnknownTool, CallTool, Calling, Post, ConnectFails, CallRefused, TimesOut, ReadReply,
       UpdateIncidentStatus, Return, ReturnInVain, LambdaFails, taskVars
  <2>4. CASE task = "running" /\ task' = "returned"
    <3>1. current' = current /\ Waits' = 0 /\ Waits \in {1, 2}
      BY <2>3, <2>4 DEF Waits
    <3>2. Waits' < Waits
      BY <3>1
    <3> QED BY <2>1, <2>2, <3>1, <3>2, TaskNearer
  <2>5. CASE ~(task = "running" /\ task' = "returned")
    <3>1. Waits' = Waits
      BY <2>3, <2>5 DEF Waits
    <3> QED BY <2>1, <2>2, <2>3, <3>1 DEF TaskLeft
  <2> QED BY <2>4, <2>5
<1>4. CASE LoseAnswer \/ CatchError
  <2>1. current' = current /\ UNCHANGED <<phase, iteration, blocks, attempt>>
    BY <1>4 DEF LoseAnswer, CatchError, runVars
  <2>2. Waits' < Waits
    <3>1. CASE LoseAnswer
      <4>1. Waits = 2 /\ Waits' = 1
        BY <3>1 DEF LoseAnswer, Waits
      <4> QED BY <4>1
    <3>2. CASE CatchError
      <4>1. Waits \in {1, 2} /\ Waits' = 0
        BY <3>2 DEF CatchError, RunFailed, Waits
      <4> QED BY <4>1
    <3> QED BY <1>4, <3>1, <3>2
  <2> QED BY <1>1, <2>1, <2>2, TaskNearer
<1>5. CASE RetryTask
  <2>1. /\ current' = current + 1 /\ current \in Nat /\ current' \in Runs
        /\ phase' = [phase EXCEPT ![current'] = "invoke"]
        /\ UNCHANGED <<iteration, blocks, attempt>>
    BY <1>5 DEF RetryTask, Goes, Runs, TypeOK
  <2>2. Nearer(TaskLeft', TaskLeft)
    BY <2>1, TaskNearer
  <2>3. PICK r \in Runs : r = current'
    BY <2>1
  <2>4. Nearer(RunLeft(r)', RunLeft(r))
    <3>1. phase[r] = "idle" /\ phase'[r] = "invoke"
      BY <2>1, <2>3 DEF RunsInv, TypeOK
    <3>2. Stage(r) = 4 /\ Stage(r)' = 3
      BY <3>1, StageListed, StageListedNext
    <3> QED BY <3>2, RunNearer
  <2>5. \A k \in Runs \ {r} : RunLeft(k)' = RunLeft(k)
    BY <1>1, <2>1, <2>3 DEF TypeOK
  <2> QED BY <2>2, <2>4, <2>5
<1> QED BY <1>3, <1>4, <1>5 DEF AgentStep, TaskGoesOn

(* However often the model calls tools, connections break, requests time    *)
(* out, Lambdas die or answers are lost, each step brings a run or the task *)
(* nearer to its end and takes none away from it, and less is left of       *)
(* natural numbers only: nothing is repeated without end (max_iterations,   *)
(* the attempts of McpClient._post, the Retry).                             *)
THEOREM RemediationNeverGoesBack ==
    Spec => /\ NeverGoesBack
            /\ [](/\ TaskLeft \in Seq(Nat) /\ Len(TaskLeft) = 2
                  /\ \A r \in Runs : RunLeft(r) \in Seq(Nat) /\ Len(RunLeft(r)) = 6)
<1>1. TypeOK /\ TypeOK' /\ RunsInv /\ [Next]_vars =>
        [/\ AgentStep => /\ Nearer(TaskLeft', TaskLeft) \/ \E r \in Runs : Nearer(RunLeft(r)', RunLeft(r))
                         /\ Nearer(TaskLeft', TaskLeft) \/ TaskLeft' = TaskLeft
                         /\ \A r \in Runs : Nearer(RunLeft(r)', RunLeft(r)) \/ RunLeft(r)' = RunLeft(r)
         /\ ~AgentStep => TaskLeft' = TaskLeft /\ \A r \in Runs : RunLeft(r)' = RunLeft(r)]_vars
  <2>1. UNCHANGED agentVars => TaskLeft' = TaskLeft /\ \A r \in Runs : RunLeft(r)' = RunLeft(r)
    BY DEF agentVars, taskVars, runVars, TaskLeft, Waits, RunLeft, Stage, InCall, InWait
  <2> QED BY <2>1, AgentGoesOn DEF Next
<1>2. TypeOK => /\ TaskLeft \in Seq(Nat) /\ Len(TaskLeft) = 2
                /\ \A r \in Runs : RunLeft(r) \in Seq(Nat) /\ Len(RunLeft(r)) = 6
  <2> SUFFICES ASSUME TypeOK
               PROVE  /\ TaskLeft \in Seq(Nat) /\ Len(TaskLeft) = 2
                      /\ \A r \in Runs : RunLeft(r) \in Seq(Nat) /\ Len(RunLeft(r)) = 6
    OBVIOUS
  <2>1. MaxRuns - current \in Nat /\ Waits \in Nat
    BY DEF TypeOK, Runs, Waits
  <2>2. ASSUME NEW r \in Runs PROVE RunLeft(r) \in Seq(Nat) /\ Len(RunLeft(r)) = 6
    <3>1. /\ MaxIterations - iteration[r] \in Nat /\ MaxBlocks - blocks[r] \in Nat
          /\ MaxAttempts - attempt[r] \in Nat
      BY DEF TypeOK
    <3> QED BY <3>1, StageListed DEF RunLeft
  <2> QED BY <2>1, <2>2 DEF TaskLeft
<1>3. Init => RunsInv
  BY DEF Init, RunsInv, Runs
<1>4. TypeOK /\ RunsInv /\ [Next]_vars => RunsInv'
  BY RunsStep
<1> QED BY <1>1, <1>2, <1>3, <1>4, TypeCorrect, PTL DEF Spec, NeverGoesBack
=============================================================================
