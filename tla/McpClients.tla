------------------------------ MODULE McpClients ------------------------------
(***************************************************************************)
(* The MCP server under several clients at once: two remediation Lambdas,  *)
(* or one and the requests it has given up on.  A client posts any call,   *)
(* reads its reply, or leaves; the server never learns that it left.       *)
(***************************************************************************)
EXTENDS McpServer

CONSTANT MaxRequests   \* bound: requests posted in all
ASSUME MaxRequestsAssumption == MaxRequests \in Nat

VARIABLE sent          \* requests posted so far
vars == <<serverVars, sent>>

TypeOK == ServerTypeOK /\ sent \in 0..MaxRequests

Init == ServerInit /\ sent = 0

ClientPosts ==
    /\ sent < MaxRequests
    /\ sent' = sent + 1
    /\ \E c \in Calls, incident \in IncidentIds : Request(sent', c, incident)
    /\ UNCHANGED <<clusterVars, storeVars, replies, now, effects>>

ClientLeaves ==
    /\ \E id \in open : /\ open' = open \ {id}
                        /\ replies' = {r \in replies : r.id # id}
    /\ UNCHANGED <<clusterVars, storeVars, threads, now, effects, sent>>

Next == \/ ClientPosts
        \/ ClientLeaves
        \/ ServerStep /\ UNCHANGED sent

Spec == Init /\ [][Next]_vars

-----------------------------------------------------------------------------
(* A pod is evicted only from a node that is already unschedulable, so     *)
(* that it is not put back there, whatever other request runs beside the   *)
(* drain; and never a pod of another node (drain_node).                    *)
EvictionAfterCordon ==
    \A th \in threads : th.step = "evict" =>
      /\ th.call.target \in cordoned
      /\ \A p \in th.todo : NodeOf[p] = th.call.target

(* An evidence_uri a client can read is listed in the manifest, and what   *)
(* the manifest lists exists (_put_forensics_json).                        *)
AnsweredEvidenceListed ==
    /\ \A r \in replies : r.uri # None => [id |-> r.id, key |-> r.uri] \in manifest
    /\ \A m \in manifest : bucket[m.key] # 0
=============================================================================
