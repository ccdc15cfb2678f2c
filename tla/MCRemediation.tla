---------------------------- MODULE MCRemediation ----------------------------
(* A cluster of one node and one pod, and the calls the model may make: a   *)
(* capture, and one that destroys.                                          *)
EXTENDS RemediationAgent

MCOnePod == {"p1"}
MCNodes == {"n1"}
MCDeployments == {}
MCPolicies == {}
MCOneNodeOf == [p \in MCOnePod |-> "n1"]

MCCall(tool, target) == [tool |-> tool, target |-> target, replicas |-> 0]

(* capture, then delete or drain *)
MCPodCalls == {MCCall("checkpoint_pod", "p1"), MCCall("delete_pod", "p1")}
MCNodeCalls == {MCCall("checkpoint_pod", "p1"), MCCall("drain_node", "n1")}
=============================================================================
