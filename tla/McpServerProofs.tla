---------------------------- MODULE McpServerProofs ----------------------------
(***************************************************************************)
(* What every step of the MCP server keeps, for every cluster and every    *)
(* set of calls, whoever posts the requests: its types, the order of       *)
(* cordoning and evicting, of object, manifest entry and answer, and that  *)
(* an answer "success" says what the cluster shows.  McpClientsProofs and  *)
(* the proofs about RemediationAgent rest on these lemmas.                 *)
(***************************************************************************)
EXTENDS McpServer, TLAPS

USE CallsAssumption, ClusterAssumption, NoneAssumption

-----------------------------------------------------------------------------
(* The shape of the pieces a server thread is made of. *)
LEMMA CallShape ==
    ASSUME NEW c \in Calls
    PROVE  c.tool \in TOOLS /\ c.target \in Targets /\ c.replicas \in Nat
BY DEF Call

LEMMA ThreadShape ==
    ASSUME ServerTypeOK, NEW th \in threads
    PROVE  /\ th \in Thread
           /\ th.id \in Nat /\ th.call \in Calls /\ th.incident \in IncidentIds
           /\ th.status \in Status /\ th.key \in EvidenceKey \cup {None}
           /\ th.step = "manifest" => th.key \in EvidenceKey
BY DEF ServerTypeOK, Thread

(* Answering and going on keep the connection variables well-typed. *)
LEMMA RespondType ==
    ASSUME ServerTypeOK, NEW th \in threads, NEW s \in Status,
           NEW uri \in EvidenceKey \cup {None}, Respond(th, s, uri)
    PROVE  threads' \subseteq Thread /\ open' \subseteq Nat /\ replies' \subseteq Reply
<1>1. [id |-> th.id, status |-> s, uri |-> uri] \in Reply
  BY ThreadShape DEF Reply
<1> QED BY <1>1 DEF Respond, ServerTypeOK

LEMMA ContinueType ==
    ASSUME ServerTypeOK, NEW th \in threads, NEW next \in Thread, Continue(th, next)
    PROVE  threads' \subseteq Thread /\ open' \subseteq Nat /\ replies' \subseteq Reply
BY DEF Continue, ServerTypeOK

LEMMA AnswerType ==
    ASSUME ServerTypeOK, NEW th \in threads, NEW uri \in EvidenceKey \cup {None}, Answer(th, uri)
    PROVE  threads' \subseteq Thread /\ open' \subseteq Nat /\ replies' \subseteq Reply
<1>1. th.status \in Status /\ "failed" \in Status
  BY ThreadShape DEF Status
<1> QED BY <1>1, RespondType DEF Answer

LEMMA ForensicsKeyType ==
    ASSUME ServerTypeOK, NEW th \in threads, th.call.tool \in EvidenceTools
    PROVE  ForensicsKey(th) \in EvidenceKey
BY ThreadShape, CallShape DEF ForensicsKey, SanitizeIncidentId, EvidenceKey, Bundles, ServerTypeOK

LEMMA GatheredType ==
    ASSUME ServerTypeOK, NEW th \in threads, NEW s \in Status, Gathered(th, s)
    PROVE  threads' \subseteq Thread /\ open' \subseteq Nat /\ replies' \subseteq Reply
<1>1. [th EXCEPT !.step = "object", !.status = s] \in Thread
  BY ThreadShape DEF Thread
<1> QED BY <1>1, RespondType, ContinueType DEF Gathered

(* A handler updates what its target names, with a value of the right kind. *)
LEMMA ServeType ==
    ASSUME ServerTypeOK, NEW th \in threads, Serve(th)
    PROVE  ServerTypeOK'
<1> USE ThreadShape DEF clusterVars, storeVars, At, TakesEffect
<1>s. "success" \in Status /\ "failed" \in Status /\ "unsupported" \in Status
  BY DEF Status
<1>1. CASE LabelPod(th)
  BY <1>1, <1>s, AnswerType DEF LabelPod, ServerTypeOK
<1>2. CASE DeletePod(th)
  BY <1>2, <1>s, AnswerType DEF DeletePod, ServerTypeOK
<1>3. CASE ApplyCiliumNetworkPolicy(th)
  BY <1>3, <1>s, AnswerType DEF ApplyCiliumNetworkPolicy, ServerTypeOK, Call
<1>4. CASE PatchDeployment(th)
  BY <1>4, <1>s, AnswerType, CallShape DEF PatchDeployment, ServerTypeOK
<1>5. CASE CordonNode(th)
  <2>1. [th EXCEPT !.step = "list"] \in Thread
    BY DEF Thread
  <2> QED BY <1>5, <1>s, <2>1, AnswerType, RespondType, ContinueType DEF CordonNode, ServerTypeOK, Call
<1>6. CASE DrainListPods(th)
  <2>1. PICK ignore \in BOOLEAN :
          Continue(th, [th EXCEPT !.step = "evict",
             !.todo = {p \in pods : /\ NodeOf[p] = th.call.target
                                    /\ ignore => p \notin DaemonSetPods}])
    BY <1>6 DEF DrainListPods
  <2>2. [th EXCEPT !.step = "evict",
             !.todo = {p \in pods : /\ NodeOf[p] = th.call.target
                                    /\ ignore => p \notin DaemonSetPods}] \in Thread
    BY DEF Thread, ServerTypeOK
  <2> QED BY <1>6, <2>1, <2>2, ContinueType DEF DrainListPods, ServerTypeOK
<1>7. CASE DrainEvict(th)
  <2>1. PICK p \in th.todo : /\ pods' \in {pods, pods \ {p}}
                             /\ Continue(th, [th EXCEPT !.todo = @ \ {p}])
    BY <1>7 DEF DrainEvict
  <2>2. [th EXCEPT !.todo = @ \ {p}] \in Thread
    BY DEF Thread
  <2> QED BY <1>7, <2>1, <2>2, ContinueType DEF DrainEvict, ServerTypeOK
<1>8. CASE DrainDone(th)
  BY <1>8, <1>s, RespondType DEF DrainDone, ServerTypeOK
<1>9. CASE CaptureEvidence(th) \/ CollectEvidence(th) \/ CheckpointContainerExperimental(th)
  BY <1>9, <1>s, GatheredType
     DEF CaptureEvidence, CollectEvidence, CheckpointContainerExperimental, ServerTypeOK
<1>10. CASE CollectLivePodForensics(th)
  BY <1>10, <1>s, GatheredType DEF CollectLivePodForensics, ServerTypeOK
<1>11. CASE PutForensicsObject(th)
  <2>1. ForensicsKey(th) \in EvidenceKey
    BY <1>11, ForensicsKeyType DEF PutForensicsObject
  <2>2. [th EXCEPT !.step = "manifest", !.key = ForensicsKey(th)] \in Thread
    BY <2>1 DEF Thread
  <2> QED BY <1>11, <1>s, <2>1, <2>2, RespondType, ContinueType DEF PutForensicsObject, ServerTypeOK
<1>12. CASE AppendEvidenceManifest(th)
  BY <1>12, AnswerType DEF AppendEvidenceManifest, ServerTypeOK
<1>13. CASE ToolFails(th)
  BY <1>13, <1>s, RespondType DEF ToolFails, ServerTypeOK
<1> QED
  BY <1>1, <1>2, <1>3, <1>4, <1>5, <1>6, <1>7, <1>8, <1>9, <1>10, <1>11, <1>12, <1>13,
     Serve(th) DEF Serve

LEMMA ServerStepType ==
    ASSUME ServerTypeOK, ServerStep
    PROVE  ServerTypeOK'
<1>1. CASE \E th \in threads : Serve(th)
  BY <1>1, ServeType
<1>2. ASSUME NEW p \in pods, PodEnds(p) PROVE ServerTypeOK'
  BY <1>2 DEF PodEnds, ServerTypeOK, storeVars, connVars
<1>3. CASE SecondPasses
  BY <1>3 DEF SecondPasses, ServerTypeOK, clusterVars, storeVars, connVars
<1>4. CASE ServerRestarts
  BY <1>4 DEF ServerRestarts, ServerTypeOK, clusterVars, storeVars
<1> QED BY <1>1, <1>2, <1>3, <1>4 DEF ServerStep

LEMMA ServerUnchangedType ==
    ASSUME ServerTypeOK, UNCHANGED serverVars
    PROVE  ServerTypeOK'
BY DEF ServerTypeOK, serverVars, clusterVars, storeVars, connVars

LEMMA ServerInitType ==
    ASSUME ServerInit
    PROVE  ServerTypeOK
BY DEF ServerInit, ServerTypeOK

-----------------------------------------------------------------------------
(* A thread that lists or evicts pods has made its node unschedulable, and  *)
(* evicts pods of that node only.                                           *)
Cordoned(t) == t.step \in {"list", "evict"} =>
                 /\ t.call.target \in cordoned
                 /\ t.step = "evict" => \A p \in t.todo : NodeOf[p] = t.call.target
CordonInv == \A t \in threads : Cordoned(t)

LEMMA CordonKept ==
    ASSUME CordonInv, cordoned \subseteq cordoned',
           \A t \in threads' : \/ t \in threads
                               \/ t.step \notin {"list", "evict"}
                               \/ /\ t.call.target \in cordoned'
                                  /\ t.step = "evict" => \A p \in t.todo : NodeOf[p] = t.call.target
    PROVE  CordonInv'
BY DEF CordonInv, Cordoned

LEMMA ServeCordon ==
    ASSUME ServerTypeOK, CordonInv, NEW th \in threads, Serve(th)
    PROVE  CordonInv'
<1> USE DEF At
<1>1. CASE LabelPod(th) \/ DeletePod(th) \/ ApplyCiliumNetworkPolicy(th) \/ PatchDeployment(th)
  BY <1>1, CordonKept DEF LabelPod, DeletePod, ApplyCiliumNetworkPolicy, PatchDeployment,
     Answer, Respond
<1>2. CASE CordonNode(th)
  <2>1. cordoned' = cordoned \cup {th.call.target}
    BY <1>2 DEF CordonNode
  <2>2. threads' \subseteq threads \cup {[th EXCEPT !.step = "list"]}
    BY <1>2 DEF CordonNode, Answer, Respond, Continue
  <2>3. [th EXCEPT !.step = "list"].call = th.call /\ [th EXCEPT !.step = "list"].step = "list"
    BY ThreadShape DEF Thread
  <2> QED BY <2>1, <2>2, <2>3, CordonKept
<1>3. CASE DrainListPods(th)
  <2>1. PICK ignore \in BOOLEAN :
          Continue(th, [th EXCEPT !.step = "evict",
             !.todo = {p \in pods : /\ NodeOf[p] = th.call.target
                                    /\ ignore => p \notin DaemonSetPods}])
    BY <1>3 DEF DrainListPods
  <2> DEFINE todo == {p \in pods : NodeOf[p] = th.call.target /\ (ignore => p \notin DaemonSetPods)}
             next == [th EXCEPT !.step = "evict", !.todo = todo]
  <2>2. threads' \subseteq threads \cup {next} /\ cordoned' = cordoned
    BY <1>3, <2>1 DEF DrainListPods, Continue, clusterVars
  <2>3. next.call = th.call /\ next.step = "evict" /\ next.todo = todo
    BY ThreadShape DEF Thread
  <2>4. \A p \in todo : NodeOf[p] = th.call.target
    OBVIOUS
  <2>5. th.call.target \in cordoned
    BY <1>3 DEF DrainListPods, CordonInv, Cordoned
  <2> HIDE DEF next, todo
  <2> QED BY <2>2, <2>3, <2>4, <2>5, CordonKept
<1>4. CASE DrainEvict(th)
  <2>1. PICK p \in th.todo : Continue(th, [th EXCEPT !.todo = @ \ {p}])
    BY <1>4 DEF DrainEvict
  <2> DEFINE next == [th EXCEPT !.todo = @ \ {p}]
  <2>2. threads' \subseteq threads \cup {next} /\ cordoned' = cordoned
    BY <1>4, <2>1 DEF DrainEvict, Continue
  <2>3. next.call = th.call /\ next.step = "evict" /\ next.todo \subseteq th.todo
    BY <1>4, ThreadShape DEF Thread, DrainEvict
  <2>4. th.call.target \in cordoned /\ \A q \in th.todo : NodeOf[q] = th.call.target
    BY <1>4 DEF DrainEvict, CordonInv, Cordoned
  <2> HIDE DEF next
  <2> QED BY <2>2, <2>3, <2>4, CordonKept
<1>5. CASE DrainDone(th) \/ ToolFails(th)
  BY <1>5, CordonKept DEF DrainDone, ToolFails, Respond, clusterVars
<1>6. CASE CaptureEvidence(th) \/ CollectEvidence(th) \/ CheckpointContainerExperimental(th)
            \/ CollectLivePodForensics(th)
  <2>1. PICK s \in {"success", "unsupported"} : Gathered(th, s)
    BY <1>6 DEF CaptureEvidence, CollectEvidence, CheckpointContainerExperimental,
       CollectLivePodForensics
  <2>2. cordoned' = cordoned
    BY <1>6 DEF CaptureEvidence, CollectEvidence, CheckpointContainerExperimental,
       CollectLivePodForensics, clusterVars
  <2>3. threads' \subseteq threads \cup {[th EXCEPT !.step = "object", !.status = s]}
    BY <2>1 DEF Gathered, Continue, Respond
  <2>4. [th EXCEPT !.step = "object", !.status = s].step = "object"
    BY ThreadShape DEF Thread
  <2> QED BY <2>2, <2>3, <2>4, CordonKept
<1>7. CASE PutForensicsObject(th)
  <2>1. threads' \subseteq threads \cup {[th EXCEPT !.step = "manifest", !.key = ForensicsKey(th)]}
    BY <1>7 DEF PutForensicsObject, Continue, Respond
  <2>2. [th EXCEPT !.step = "manifest", !.key = ForensicsKey(th)].step = "manifest"
    BY ThreadShape DEF Thread
  <2>3. cordoned' = cordoned
    BY <1>7 DEF PutForensicsObject, clusterVars
  <2> QED BY <2>1, <2>2, <2>3, CordonKept
<1>8. CASE AppendEvidenceManifest(th)
  BY <1>8, CordonKept DEF AppendEvidenceManifest, Answer, Respond, clusterVars
<1> QED BY <1>1, <1>2, <1>3, <1>4, <1>5, <1>6, <1>7, <1>8, Serve(th) DEF Serve

(* The cluster, the clock and a restart post no thread and cordon nothing.  *)
LEMMA ServerStepCordon ==
    ASSUME ServerTypeOK, CordonInv, ServerStep
    PROVE  CordonInv'
<1>1. CASE \E th \in threads : Serve(th)
  BY <1>1, ServeCordon
<1>2. ASSUME NEW p \in pods, PodEnds(p) PROVE CordonInv'
  BY <1>2, CordonKept DEF PodEnds, connVars
<1>3. CASE SecondPasses
  BY <1>3, CordonKept DEF SecondPasses, clusterVars, connVars
<1>4. CASE ServerRestarts
  BY <1>4, CordonKept DEF ServerRestarts, clusterVars
<1> QED BY <1>1, <1>2, <1>3, <1>4 DEF ServerStep

-----------------------------------------------------------------------------
(* Every request has an id, an object is there before its manifest entry,   *)
(* and the entry before an answer that names its key.                       *)
StoredInv == /\ \A t \in threads : t.id # 0 /\ (t.step = "manifest" => bucket[t.key] # 0)
             /\ \A m \in manifest : bucket[m.key] # 0
ListedInv == \A r \in replies : r.uri # None => [id |-> r.id, key |-> r.uri] \in manifest

LEMMA StoreKept ==
    ASSUME ServerTypeOK, StoredInv, ListedInv,
           manifest \subseteq manifest', \A k \in EvidenceKey : bucket[k] # 0 => bucket'[k] # 0,
           \A m \in manifest' : m \in manifest \/ bucket'[m.key] # 0,
           \A t \in threads' : t \in threads \/ (t.id # 0 /\ (t.step = "manifest" => bucket'[t.key] # 0)),
           \A r \in replies' : \/ r \in replies \/ r.uri = None
                                \/ [id |-> r.id, key |-> r.uri] \in manifest'
    PROVE  StoredInv' /\ ListedInv'
<1>1. \A m \in manifest : m.key \in EvidenceKey /\ bucket'[m.key] # 0
  BY DEF StoredInv, ServerTypeOK
<1>2. \A t \in threads : t.id # 0 /\ (t.step = "manifest" => bucket'[t.key] # 0)
  BY ThreadShape DEF StoredInv
<1>3. StoredInv'
  BY <1>1, <1>2 DEF StoredInv
<1>4. ListedInv'
  BY DEF ListedInv
<1> QED BY <1>3, <1>4

(* a thread that stores nothing and answers with no key *)
LEMMA NothingStored ==
    ASSUME ServerTypeOK, StoredInv, ListedInv, UNCHANGED storeVars,
           \A t \in threads' : t \in threads \/ (t.id # 0 /\ t.step # "manifest"),
           \A r \in replies' : r \in replies \/ r.uri = None
    PROVE  StoredInv' /\ ListedInv'
<1>1. manifest' = manifest /\ bucket' = bucket
  BY DEF storeVars
<1> QED BY <1>1, StoreKept

LEMMA RespondLeaves ==
    ASSUME NEW th \in threads, NEW s, NEW uri, Respond(th, s, uri)
    PROVE  /\ threads' \subseteq threads
           /\ \A r \in replies' : \/ r \in replies
                                  \/ /\ r.id = th.id /\ th.id \in open
                                     /\ r.status = s /\ r.uri = uri
BY DEF Respond

LEMMA GatheredStored ==
    ASSUME ServerTypeOK, StoredInv, ListedInv, NEW th \in threads, NEW s, Gathered(th, s),
           UNCHANGED storeVars
    PROVE  StoredInv' /\ ListedInv'
<1>1. CASE Stores(th)
  <2> DEFINE next == [th EXCEPT !.step = "object", !.status = s]
  <2>1. threads' \subseteq threads \cup {next} /\ replies' = replies
    BY <1>1 DEF Gathered, Continue
  <2>2. next.id = th.id /\ next.step = "object" /\ th.id # 0
    BY ThreadShape DEF Thread, StoredInv
  <2> HIDE DEF next
  <2> QED BY <2>1, <2>2, NothingStored
<1>2. CASE ~Stores(th)
  <2>1. Respond(th, s, None)
    BY <1>2 DEF Gathered
  <2> QED BY <2>1, RespondLeaves, NothingStored
<1> QED BY <1>1, <1>2

LEMMA ServeStored ==
    ASSUME ServerTypeOK, StoredInv, ListedInv, NEW th \in threads, Serve(th)
    PROVE  StoredInv' /\ ListedInv'
<1>i. th.id # 0
  BY DEF StoredInv
<1>1. CASE LabelPod(th) \/ DeletePod(th) \/ ApplyCiliumNetworkPolicy(th) \/ PatchDeployment(th)
  <2>1. Answer(th, None) /\ UNCHANGED storeVars
    BY <1>1 DEF LabelPod, DeletePod, ApplyCiliumNetworkPolicy, PatchDeployment
  <2>2. PICK s : Respond(th, s, None)
    BY <2>1 DEF Answer
  <2> QED BY <2>1, <2>2, RespondLeaves, NothingStored
<1>2. CASE CordonNode(th)
  <2> DEFINE next == [th EXCEPT !.step = "list"]
  <2>1. next.id = th.id /\ next.step = "list"
    BY ThreadShape DEF Thread
  <2>2. (Answer(th, None) \/ Continue(th, next) \/ Respond(th, "failed", None)) /\ UNCHANGED storeVars
    BY <1>2 DEF CordonNode
  <2> HIDE DEF next
  <2>3. CASE Continue(th, next)
    BY <1>i, <2>1, <2>2, <2>3, NothingStored DEF Continue
  <2>4. CASE Answer(th, None) \/ Respond(th, "failed", None)
    <3>1. PICK s : Respond(th, s, None)
      BY <2>4 DEF Answer
    <3> QED BY <2>2, <3>1, RespondLeaves, NothingStored
  <2> QED BY <2>2, <2>3, <2>4
<1>3. CASE DrainListPods(th)
  <2>1. PICK ignore \in BOOLEAN :
          Continue(th, [th EXCEPT !.step = "evict",
             !.todo = {p \in pods : /\ NodeOf[p] = th.call.target
                                    /\ ignore => p \notin DaemonSetPods}])
    BY <1>3 DEF DrainListPods
  <2> DEFINE todo == {p \in pods : NodeOf[p] = th.call.target /\ (ignore => p \notin DaemonSetPods)}
             next == [th EXCEPT !.step = "evict", !.todo = todo]
  <2>2. threads' \subseteq threads \cup {next} /\ replies' = replies /\ UNCHANGED storeVars
    BY <1>3, <2>1 DEF DrainListPods, Continue
  <2>3. next.id = th.id /\ next.step = "evict"
    BY ThreadShape DEF Thread
  <2> HIDE DEF next, todo
  <2> QED BY <1>i, <2>2, <2>3, NothingStored
<1>4. CASE DrainEvict(th)
  <2>1. PICK p \in th.todo : Continue(th, [th EXCEPT !.todo = @ \ {p}])
    BY <1>4 DEF DrainEvict
  <2> DEFINE next == [th EXCEPT !.todo = @ \ {p}]
  <2>2. threads' \subseteq threads \cup {next} /\ replies' = replies /\ UNCHANGED storeVars
    BY <1>4, <2>1 DEF DrainEvict, Continue
  <2>3. next.id = th.id /\ next.step = "evict"
    BY <1>4, ThreadShape DEF Thread, DrainEvict, At
  <2> HIDE DEF next
  <2> QED BY <1>i, <2>2, <2>3, NothingStored
<1>5. CASE DrainDone(th) \/ ToolFails(th)
  <2>1. PICK s : Respond(th, s, None)
    BY <1>5 DEF DrainDone, ToolFails
  <2>2. UNCHANGED storeVars
    BY <1>5 DEF DrainDone, ToolFails
  <2> QED BY <2>1, <2>2, RespondLeaves, NothingStored
<1>6. CASE CaptureEvidence(th) \/ CollectEvidence(th) \/ CheckpointContainerExperimental(th)
            \/ CollectLivePodForensics(th)
  <2>1. PICK s : Gathered(th, s)
    BY <1>6 DEF CaptureEvidence, CollectEvidence, CheckpointContainerExperimental,
       CollectLivePodForensics
  <2>2. UNCHANGED storeVars
    BY <1>6 DEF CaptureEvidence, CollectEvidence, CheckpointContainerExperimental,
       CollectLivePodForensics
  <2> QED BY <2>1, <2>2, GatheredStored
<1>7. CASE PutForensicsObject(th)
  <2> DEFINE key == ForensicsKey(th)
             next == [th EXCEPT !.step = "manifest", !.key = key]
  <2>1. key \in EvidenceKey
    BY <1>7, ForensicsKeyType DEF PutForensicsObject, At
  <2>2. /\ threads' \subseteq threads \cup {next} /\ manifest' = manifest
        /\ bucket' = [bucket EXCEPT ![key] = th.id]
        /\ \A r \in replies' : r \in replies \/ r.uri = None
    BY <1>7, RespondLeaves DEF PutForensicsObject, Continue
  <2> HIDE DEF key
  <2>3. next.id = th.id /\ next.key = key
    BY ThreadShape DEF Thread
  <2>4. bucket'[key] # 0 /\ \A k \in EvidenceKey : bucket[k] # 0 => bucket'[k] # 0
    BY <1>i, <2>1, <2>2 DEF ServerTypeOK
  <2> HIDE DEF next
  <2> QED BY <1>i, <2>2, <2>3, <2>4, StoreKept
<1>8. CASE AppendEvidenceManifest(th)
  <2> DEFINE m == [id |-> th.id, key |-> th.key]
  <2>1. /\ threads' \subseteq threads /\ manifest' = manifest \cup {m} /\ bucket' = bucket
        /\ \A r \in replies' : r \in replies \/ r.uri = None \/ (r.id = th.id /\ r.uri = th.key)
    BY <1>8, RespondLeaves DEF AppendEvidenceManifest, Answer
  <2>2. bucket'[m.key] # 0
    BY <1>8, <2>1 DEF AppendEvidenceManifest, At, StoredInv
  <2> QED BY <2>1, <2>2, StoreKept
<1> QED BY <1>1, <1>2, <1>3, <1>4, <1>5, <1>6, <1>7, <1>8, Serve(th) DEF Serve

LEMMA ServerStepStored ==
    ASSUME ServerTypeOK, StoredInv, ListedInv, ServerStep
    PROVE  StoredInv' /\ ListedInv'
<1>1. CASE \E th \in threads : Serve(th)
  BY <1>1, ServeStored
<1>2. ASSUME NEW p \in pods, PodEnds(p) PROVE StoredInv' /\ ListedInv'
  BY <1>2, NothingStored DEF PodEnds, connVars
<1>3. CASE SecondPasses
  BY <1>3, NothingStored DEF SecondPasses, connVars
<1>4. CASE ServerRestarts
  BY <1>4, NothingStored DEF ServerRestarts
<1> QED BY <1>1, <1>2, <1>3, <1>4 DEF ServerStep

(* What the manifest lists stays listed. *)
LEMMA ManifestGrows ==
    ASSUME ServerStep
    PROVE  manifest \subseteq manifest'
<1>1. ASSUME NEW th \in threads, Serve(th) PROVE manifest \subseteq manifest'
  BY <1>1 DEF Serve, LabelPod, DeletePod, ApplyCiliumNetworkPolicy, PatchDeployment,
     CordonNode, DrainListPods, DrainEvict, DrainDone, CaptureEvidence, CollectEvidence,
     CollectLivePodForensics, CheckpointContainerExperimental, PutForensicsObject,
     AppendEvidenceManifest, ToolFails, storeVars
<1>2. ASSUME SecondPasses \/ ServerRestarts \/ \E p \in pods : PodEnds(p)
      PROVE  manifest \subseteq manifest'
  BY <1>2 DEF SecondPasses, ServerRestarts, PodEnds, storeVars
<1> QED BY <1>1, <1>2 DEF ServerStep

-----------------------------------------------------------------------------
(* What a tool's success says of the cluster.  No step undoes it: a pod     *)
(* that ended does not come back, a label, a policy and a cordon stay.      *)
Done(tool, target, uri) ==
    /\ tool = "delete_pod" => target \notin pods
    /\ tool = "label_pod" => target \in labelled
    /\ tool = "apply_cilium_network_policy" => target \in policies
    /\ tool \in {"cordon_node", "drain_node"} => target \in cordoned
    /\ tool \in AlwaysStores => uri # None

DoneGrows == /\ pods' \subseteq pods /\ labelled \subseteq labelled'
             /\ policies \subseteq policies' /\ cordoned \subseteq cordoned'

LEMMA DoneStays ==
    ASSUME DoneGrows, NEW tool, NEW target, NEW uri, Done(tool, target, uri)
    PROVE  Done(tool, target, uri)'
BY DEF Done, DoneGrows

LEMMA ServeDoneGrows ==
    ASSUME NEW th \in threads, Serve(th)
    PROVE  DoneGrows
<1>1. CASE LabelPod(th) \/ DeletePod(th) \/ ApplyCiliumNetworkPolicy(th) \/ PatchDeployment(th)
            \/ CordonNode(th) \/ DrainEvict(th) \/ CollectLivePodForensics(th)
  BY <1>1 DEF LabelPod, DeletePod, ApplyCiliumNetworkPolicy, PatchDeployment, CordonNode,
     DrainEvict, CollectLivePodForensics, DoneGrows
<1>2. CASE UNCHANGED clusterVars
  BY <1>2 DEF DoneGrows, clusterVars
<1> QED
  BY <1>1, <1>2, Serve(th) DEF Serve, DrainListPods, DrainDone, CaptureEvidence, CollectEvidence,
     CheckpointContainerExperimental, PutForensicsObject, AppendEvidenceManifest, ToolFails

LEMMA ServerStepDoneGrows ==
    ASSUME ServerStep
    PROVE  DoneGrows
<1>1. CASE \E th \in threads : Serve(th)
  BY <1>1, ServeDoneGrows
<1>2. CASE SecondPasses \/ ServerRestarts \/ \E p \in pods : PodEnds(p)
  BY <1>2 DEF SecondPasses, ServerRestarts, PodEnds, DoneGrows, clusterVars
<1> QED BY <1>1, <1>2 DEF ServerStep

(* A reply a thread writes goes to its open connection and, if it says      *)
(* "success", the cluster shows what the call was to do.                    *)
Truthful(th) == \A r \in replies' : \/ r \in replies
                                    \/ /\ r.id = th.id /\ th.id \in open
                                       /\ r.status = "success" => Done(th.call.tool, th.call.target, r.uri)'

LEMMA RespondTruthful ==
    ASSUME NEW th \in threads, NEW s, NEW uri, Respond(th, s, uri),
           s = "success" => Done(th.call.tool, th.call.target, uri)'
    PROVE  Truthful(th)
BY RespondLeaves DEF Truthful

LEMMA AnswerTruthful ==
    ASSUME NEW th \in threads, NEW uri, Answer(th, uri), Done(th.call.tool, th.call.target, uri)'
    PROVE  Truthful(th)
BY RespondTruthful DEF Answer

LEMMA GatheredTruthful ==
    ASSUME NEW th \in threads, th.call.tool \in EvidenceTools, NEW s, Gathered(th, s)
    PROVE  Truthful(th)
<1>1. CASE Stores(th)
  BY <1>1 DEF Gathered, Continue, Truthful
<1>2. CASE ~Stores(th)
  <2>1. Respond(th, s, None) /\ th.call.tool \notin AlwaysStores
    BY <1>2 DEF Gathered, Stores
  <2>2. Done(th.call.tool, th.call.target, None)'
    BY <2>1 DEF Done, EvidenceTools, AlwaysStores, StoresWithIncident
  <2> QED BY <2>1, <2>2, RespondTruthful
<1> QED BY <1>1, <1>2

LEMMA ServeTruthful ==
    ASSUME ServerTypeOK, CordonInv, NEW th \in threads, Serve(th)
    PROVE  Truthful(th)
<1>1. CASE LabelPod(th) \/ DeletePod(th) \/ ApplyCiliumNetworkPolicy(th) \/ PatchDeployment(th)
  <2>1. Answer(th, None)
    BY <1>1 DEF LabelPod, DeletePod, ApplyCiliumNetworkPolicy, PatchDeployment
  <2>2. Done(th.call.tool, th.call.target, None)'
    BY <1>1 DEF LabelPod, DeletePod, ApplyCiliumNetworkPolicy, PatchDeployment, At, Done, AlwaysStores
  <2> QED BY <2>1, <2>2, AnswerTruthful
<1>2. CASE CordonNode(th)
  <2>1. CASE Answer(th, None)
    <3>1. Done(th.call.tool, th.call.target, None)'
      BY <1>2 DEF CordonNode, At, Done, AlwaysStores
    <3> QED BY <2>1, <3>1, AnswerTruthful
  <2>2. CASE Continue(th, [th EXCEPT !.step = "list"])
    BY <2>2 DEF Continue, Truthful
  <2>3. CASE Respond(th, "failed", None)
    BY <2>3, RespondTruthful
  <2> QED BY <1>2, <2>1, <2>2, <2>3 DEF CordonNode
<1>3. CASE DrainListPods(th) \/ DrainEvict(th)
  BY <1>3 DEF DrainListPods, DrainEvict, Continue, Truthful
<1>4. CASE DrainDone(th)
  <2>1. Respond(th, "success", None) /\ th.call.tool = "drain_node" /\ th.call.target \in cordoned'
    BY <1>4 DEF DrainDone, At, CordonInv, Cordoned, clusterVars
  <2>2. Done(th.call.tool, th.call.target, None)'
    BY <2>1 DEF Done, AlwaysStores
  <2> QED BY <2>1, <2>2, RespondTruthful
<1>5. CASE CaptureEvidence(th) \/ CollectEvidence(th) \/ CheckpointContainerExperimental(th)
            \/ CollectLivePodForensics(th)
  <2>1. PICK s : Gathered(th, s)
    BY <1>5 DEF CaptureEvidence, CollectEvidence, CheckpointContainerExperimental,
       CollectLivePodForensics
  <2>2. th.call.tool \in EvidenceTools
    BY <1>5 DEF CaptureEvidence, CollectEvidence, CheckpointContainerExperimental,
       CollectLivePodForensics, At, EvidenceTools, AlwaysStores, StoresWithIncident
  <2> QED BY <2>1, <2>2, GatheredTruthful
<1>6. CASE PutForensicsObject(th)
  <2>1. replies' = replies \/ Respond(th, "failed", None)
    BY <1>6 DEF PutForensicsObject, Continue
  <2> QED BY <2>1, RespondTruthful DEF Truthful
<1>7. CASE AppendEvidenceManifest(th)
  <2>1. Answer(th, th.key) /\ th.call.tool \in EvidenceTools /\ th.step = "manifest"
    BY <1>7 DEF AppendEvidenceManifest, At
  <2>2. th.key # None
    BY <2>1, ThreadShape
  <2>3. Done(th.call.tool, th.call.target, th.key)'
    BY <2>1, <2>2 DEF Done, EvidenceTools, AlwaysStores, StoresWithIncident
  <2> QED BY <2>1, <2>3, AnswerTruthful
<1>8. CASE ToolFails(th)
  BY <1>8, RespondTruthful DEF ToolFails
<1> QED BY <1>1, <1>2, <1>3, <1>4, <1>5, <1>6, <1>7, <1>8, Serve(th) DEF Serve
================================================================================
