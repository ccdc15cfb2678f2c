------------------------------ MODULE McpServer ------------------------------
(***************************************************************************)
(* The MCP server that runs inside the cluster (mcp_server/server.py).  It *)
(* is a ThreadingHTTPServer: every POST runs its tool in a thread of its   *)
(* own, no lock is shared, and a thread whose client has gone away runs to *)
(* the end all the same.  A thread is a record of `threads' that moves     *)
(* from one API call to the next; what it leaves behind is the cluster's   *)
(* state and the forensics bucket.                                         *)
(***************************************************************************)
EXTENDS Integers, FiniteSets

CONSTANTS
    Pods, Nodes, Deployments, Policies, \* names a tool call may carry
    NodeOf,         \* the node each pod is scheduled on
    DaemonSetPods,  \* the pods a DaemonSet owns
    Calls,          \* the tool calls a client may make
    MaxTime,        \* bound: seconds of the server's clock that are told apart
    None

Targets == Pods \cup Nodes \cup Deployments \cup Policies

(* these store their evidence whatever the request says ... *)
AlwaysStores == {"checkpoint_pod", "capture_hubble_flows"}
(* ... and these only when it carries an incident id *)
StoresWithIncident == {"collect_tetragon_timeline", "collect_audit_events",
                       "collect_live_pod_forensics", "checkpoint_container_experimental"}
EvidenceTools == AlwaysStores \cup StoresWithIncident

TOOLS == EvidenceTools \cup {"label_pod", "delete_pod", "apply_cilium_network_policy",
                             "patch_deployment", "cordon_node", "drain_node"}

(* what a call may name; an API call about a name of another kind is a 404 *)
Call == {c \in [tool : TOOLS, target : Targets, replicas : Nat] :
           /\ c.tool = "apply_cilium_network_policy" => c.target \in Policies
           /\ c.tool = "patch_deployment" => c.target \in Deployments
           /\ c.tool \in {"cordon_node", "drain_node"} => c.target \in Nodes}

(* The incident id of a request is text of the model that wrote the summary: *)
(* of the pattern _INCIDENT_ID_RE asks for, of another one, or none.         *)
IncidentIds == {"fit", "unfit", "none"}

(* An id that does not fit is not refused: its evidence goes to the bundle   *)
(* of the requests that carry none.                                          *)
SanitizeIncidentId(id) == IF id = "fit" THEN "incident" ELSE "adhoc"

(* incidents/<bundle>/<prefix>/<resource>/<timestamp, whole seconds> *)
Bundles == {"incident", "adhoc"}
EvidenceKey == [bundle : Bundles, tool : EvidenceTools, target : Targets, second : 0..MaxTime]

ASSUME CallsAssumption == Calls \subseteq Call
ASSUME ClusterAssumption == /\ NodeOf \in [Pods -> Nodes]
                            /\ DaemonSetPods \subseteq Pods
                            /\ MaxTime \in Nat
ASSUME NoneAssumption == None \notin EvidenceKey

VARIABLES
    pods,       \* the pods that exist and are not being deleted
    labelled,   \* the pods label_pod has marked
    policies,   \* the CiliumNetworkPolicies that exist
    replicas,   \* the replica count last patched on each deployment
    cordoned,   \* the nodes marked unschedulable
    debug,      \* how many debug containers were injected into each pod
    bucket,     \* per key, the request whose body the object holds; 0: no object
    manifest,   \* the manifest entries: which request stored which key
    now,        \* the server's clock, in seconds
    threads,    \* the requests being served
    open,       \* the requests whose client still holds the connection
    replies,    \* the responses written to an open connection, not yet read
    effects     \* history: the calls whose effect on the cluster took place

clusterVars == <<pods, labelled, policies, replicas, cordoned, debug>>
storeVars   == <<bucket, manifest>>
connVars    == <<threads, open, replies>>
serverVars  == <<clusterVars, storeVars, connVars, now, effects>>

Status == {"success", "failed", "unsupported", "blocked"}
Thread == {th \in [id : Nat, call : Calls, incident : IncidentIds, status : Status,
                   step : {"start", "list", "evict", "object", "manifest"},
                   todo : SUBSET Pods, key : EvidenceKey \cup {None}] :
             th.step = "manifest" => th.key # None}
Reply == [id : Nat, status : Status, uri : EvidenceKey \cup {None}]

ServerTypeOK ==
    /\ pods \subseteq Pods
    /\ labelled \subseteq Pods
    /\ policies \subseteq Policies
    /\ replicas \in [Deployments -> Nat]
    /\ cordoned \subseteq Nodes
    /\ debug \in [Pods -> Nat]
    /\ bucket \in [EvidenceKey -> Nat]
    /\ manifest \subseteq [id : Nat, key : EvidenceKey]
    /\ now \in 0..MaxTime
    /\ threads \subseteq Thread
    /\ open \subseteq Nat
    /\ replies \subseteq Reply
    /\ effects \subseteq Calls

ServerInit ==
    /\ pods = Pods
    /\ labelled = {}
    /\ policies = {}
    /\ replicas = [d \in Deployments |-> 1]
    /\ cordoned = {}
    /\ debug = [p \in Pods |-> 0]
    /\ bucket = [k \in EvidenceKey |-> 0]
    /\ manifest = {}
    /\ now = 0
    /\ threads = {} /\ open = {} /\ replies = {}
    /\ effects = {}

-----------------------------------------------------------------------------
(* do_POST starts a thread for the request; the client waits on `open'.    *)
Request(id, call, incident) ==
    /\ threads' = threads \cup {[id |-> id, call |-> call, incident |-> incident,
                                 status |-> "success", step |-> "start",
                                 todo |-> {}, key |-> None]}
    /\ open' = open \cup {id}

(* The response goes to the client only if it is still there to read it.   *)
Respond(th, status, uri) ==
    /\ threads' = threads \ {th}
    /\ replies' = IF th.id \in open
                  THEN replies \cup {[id |-> th.id, status |-> status, uri |-> uri]}
                  ELSE replies
    /\ UNCHANGED open

Continue(th, next) ==
    /\ threads' = (threads \ {th}) \cup {next}
    /\ UNCHANGED <<open, replies>>

(* An API call that made its change may still fail: its answer is lost.   *)
Answer(th, uri) == Respond(th, th.status, uri) \/ Respond(th, "failed", None)

TakesEffect(th) == effects' = effects \cup {th.call}

At(th, step, tools) == th.step = step /\ th.call.tool \in tools

LabelPod(th) ==
    /\ At(th, "start", {"label_pod"})
    /\ th.call.target \in pods
    /\ labelled' = labelled \cup {th.call.target}
    /\ TakesEffect(th)
    /\ Answer(th, None)
    /\ UNCHANGED <<pods, policies, replicas, cordoned, debug, storeVars, now>>

DeletePod(th) ==
    /\ At(th, "start", {"delete_pod"})
    /\ th.call.target \in pods
    /\ pods' = pods \ {th.call.target}
    /\ TakesEffect(th)
    /\ Answer(th, None)
    /\ UNCHANGED <<labelled, policies, replicas, cordoned, debug, storeVars, now>>

(* create, or on a 409 patch: both leave the policy in place *)
ApplyCiliumNetworkPolicy(th) ==
    /\ At(th, "start", {"apply_cilium_network_policy"})
    /\ policies' = policies \cup {th.call.target}
    /\ TakesEffect(th)
    /\ Answer(th, None)
    /\ UNCHANGED <<pods, labelled, replicas, cordoned, debug, storeVars, now>>

PatchDeployment(th) ==
    /\ At(th, "start", {"patch_deployment"})
    /\ replicas' = [replicas EXCEPT ![th.call.target] = th.call.replicas]
    /\ TakesEffect(th)
    /\ Answer(th, None)
    /\ UNCHANGED <<pods, labelled, policies, cordoned, debug, storeVars, now>>

(* mutant: the drain lists pods without having cordoned the node *)
CordonNode_DrainSkipsCordon(th) ==
    /\ At(th, "start", {"cordon_node", "drain_node"})
    /\ TakesEffect(th)
    /\ IF th.call.tool = "cordon_node"
       THEN /\ cordoned' = cordoned \cup {th.call.target} /\ Answer(th, None)
       ELSE /\ Continue(th, [th EXCEPT !.step = "list"]) /\ UNCHANGED cordoned
    /\ UNCHANGED <<pods, labelled, policies, replicas, debug, storeVars, now>>

CordonNode(th) ==
    /\ At(th, "start", {"cordon_node", "drain_node"})
    /\ cordoned' = cordoned \cup {th.call.target}
    /\ TakesEffect(th)
    /\ \/ Answer(th, None) /\ th.call.tool = "cordon_node"
       \/ Continue(th, [th EXCEPT !.step = "list"]) /\ th.call.tool = "drain_node"
       \/ Respond(th, "failed", None)
    /\ UNCHANGED <<pods, labelled, policies, replicas, debug, storeVars, now>>

DrainListPods(th) ==
    /\ At(th, "list", {"drain_node"})
    /\ \E ignore_daemonsets \in BOOLEAN :
         Continue(th, [th EXCEPT !.step = "evict",
             !.todo = {p \in pods : /\ NodeOf[p] = th.call.target
                                    /\ ignore_daemonsets => p \notin DaemonSetPods}])
    /\ UNCHANGED <<clusterVars, storeVars, now, effects>>

(* A refused eviction (a disruption budget, a pod already gone) is skipped. *)
DrainEvict(th) ==
    /\ At(th, "evict", {"drain_node"})
    /\ \E p \in th.todo :
         /\ pods' \in {pods, pods \ {p}}
         /\ Continue(th, [th EXCEPT !.todo = @ \ {p}])
    /\ UNCHANGED <<labelled, policies, replicas, cordoned, debug, storeVars, now, effects>>

DrainDone(th) ==
    /\ At(th, "evict", {"drain_node"})
    /\ th.todo = {}
    /\ Respond(th, "success", None)
    /\ UNCHANGED <<clusterVars, storeVars, now, effects>>

(***************************************************************************)
(* The evidence tools: read the source, put the object, put its manifest   *)
(* entry, answer.  Before the object is put, collect_live_pod_forensics    *)
(* has injected a debug container and waited for it (up to 30 seconds),    *)
(* and collect_audit_events has polled Logs Insights (up to 120): the time *)
(* between two steps of a thread is not bounded here.                      *)
(***************************************************************************)
Stores(th) == th.call.tool \in AlwaysStores \/ th.incident # "none"

Gathered(th, status) ==
    IF Stores(th)
    THEN Continue(th, [th EXCEPT !.step = "object", !.status = status])
    ELSE Respond(th, status, None)

(* checkpoint_pod, capture_hubble_flows: what cannot be read is noted in   *)
(* the evidence, which is stored all the same                              *)
CaptureEvidence(th) ==
    /\ At(th, "start", AlwaysStores)
    /\ th.call.target \in pods
    /\ Gathered(th, "success")
    /\ UNCHANGED <<clusterVars, storeVars, now, effects>>

(* collect_tetragon_timeline, collect_audit_events: of a pod that may be gone *)
CollectEvidence(th) ==
    /\ At(th, "start", {"collect_tetragon_timeline", "collect_audit_events"})
    /\ Gathered(th, "success")
    /\ UNCHANGED <<clusterVars, storeVars, now, effects>>

(* every call injects a debug container of its own, which stays in the pod *)
CollectLivePodForensics(th) ==
    /\ At(th, "start", {"collect_live_pod_forensics"})
    /\ th.call.target \in pods
    /\ debug' = [debug EXCEPT ![th.call.target] = @ + 1]
    /\ Gathered(th, "success")
    /\ UNCHANGED <<pods, labelled, policies, replicas, cordoned, storeVars, now, effects>>

(* a checkpoint the kubelet does not make is recorded as an attempt *)
CheckpointContainerExperimental(th) ==
    /\ At(th, "start", {"checkpoint_container_experimental"})
    /\ \/ th.call.target \in pods /\ Gathered(th, "success")
       \/ Gathered(th, "unsupported")
    /\ UNCHANGED <<clusterVars, storeVars, now, effects>>

(* mutant: the incident id is not handed on to the destination *)
ForensicsKey_NoIncident(th) ==
    [bundle |-> SanitizeIncidentId("none"),
     tool |-> th.call.tool, target |-> th.call.target, second |-> now]

ForensicsKey(th) ==
    [bundle |-> SanitizeIncidentId(th.incident),
     tool |-> th.call.tool, target |-> th.call.target, second |-> now]

PutForensicsObject(th) ==
    /\ At(th, "object", EvidenceTools)
    /\ bucket' = [bucket EXCEPT ![ForensicsKey(th)] = th.id]
    /\ \/ Continue(th, [th EXCEPT !.step = "manifest", !.key = ForensicsKey(th)])
       \/ Respond(th, "failed", None)
    /\ UNCHANGED <<clusterVars, manifest, now, effects>>

(* mutant: the answer does not wait for the manifest entry *)
AppendEvidenceManifest_Skipped(th) ==
    /\ At(th, "manifest", EvidenceTools)
    /\ Respond(th, th.status, th.key)
    /\ UNCHANGED <<clusterVars, storeVars, now, effects>>

AppendEvidenceManifest(th) ==
    /\ At(th, "manifest", EvidenceTools)
    /\ manifest' = manifest \cup {[id |-> th.id, key |-> th.key]}
    /\ Answer(th, th.key)
    /\ UNCHANGED <<clusterVars, bucket, now, effects>>

(* An API call that is refused, or breaks off, ends the tool as failed (a  *)
(* refused eviction alone is let pass); what the earlier calls did stays.  *)
ToolFails(th) ==
    /\ th.step = "evict" => th.todo # {}
    /\ Respond(th, "failed", None)
    /\ UNCHANGED <<clusterVars, storeVars, now, effects>>

Serve(th) ==
    \/ LabelPod(th) \/ DeletePod(th) \/ ApplyCiliumNetworkPolicy(th) \/ PatchDeployment(th)
    \/ CordonNode(th) \/ DrainListPods(th) \/ DrainEvict(th) \/ DrainDone(th)
    \/ CaptureEvidence(th) \/ CollectEvidence(th)
    \/ CollectLivePodForensics(th) \/ CheckpointContainerExperimental(th)
    \/ PutForensicsObject(th) \/ AppendEvidenceManifest(th)
    \/ ToolFails(th)

-----------------------------------------------------------------------------
(* The cluster moves on its own: a pod ends, for whatever reason of its    *)
(* own or because its deployment was scaled to zero.                       *)
PodEnds(p) ==
    /\ p \in pods
    /\ pods' = pods \ {p}
    /\ UNCHANGED <<labelled, policies, replicas, cordoned, debug, storeVars, connVars, now, effects>>

SecondPasses ==
    /\ now < MaxTime
    /\ now' = now + 1
    /\ UNCHANGED <<clusterVars, storeVars, connVars, effects>>

(* The server is a pod itself (kubernetes/mcp), of one replica: when it is *)
(* restarted its threads end where they are and every connection breaks.   *)
ServerRestarts ==
    /\ threads # {}
    /\ threads' = {} /\ open' = {} /\ replies' = {}
    /\ UNCHANGED <<clusterVars, storeVars, now, effects>>

ServerStep == \/ \E th \in threads : Serve(th)
              \/ \E p \in pods : PodEnds(p)
              \/ ServerRestarts
              \/ SecondPasses
=============================================================================
