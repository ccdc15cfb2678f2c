---------------------------- MODULE MCMcpClients -----------------------------
(* Two nodes with a pod each, and a call of every kind of tool.            *)
EXTENDS McpClients

MCPods == {"p1", "p2"}
MCNodes == {"n1", "n2"}
MCDeployments == {"d1"}
MCPolicies == {"q1"}
MCNodeOf == [p \in MCPods |-> IF p = "p2" THEN "n2" ELSE "n1"]

MCCall(tool, target) == [tool |-> tool, target |-> target, replicas |-> 0]
MCCalls == {MCCall("drain_node", "n1"), MCCall("cordon_node", "n2"),
            MCCall("delete_pod", "p1"), MCCall("label_pod", "p1"),
            MCCall("apply_cilium_network_policy", "q1"),
            MCCall("patch_deployment", "d1"),
            MCCall("collect_live_pod_forensics", "p1"),
            MCCall("checkpoint_pod", "p1"), MCCall("collect_tetragon_timeline", "p1"),
            MCCall("checkpoint_container_experimental", "p1")}
=============================================================================
