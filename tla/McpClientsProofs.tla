--------------------------- MODULE McpClientsProofs ---------------------------
(***************************************************************************)
(* Theorems about McpClients, for every cluster, every set of calls and    *)
(* any number of requests in flight at once.                               *)
(***************************************************************************)
EXTENDS McpClients, McpServerProofs

USE CallsAssumption, ClusterAssumption, NoneAssumption, MaxRequestsAssumption

-----------------------------------------------------------------------------
(* A posted request is a thread at its first step, with a fresh id. *)
LEMMA PostedThread ==
    ASSUME TypeOK, ClientPosts
    PROVE  \E t \in Thread : /\ threads' = threads \cup {t} /\ open' = open \cup {t.id}
                             /\ t.id = sent + 1 /\ t.step = "start"
<1>1. PICK c \in Calls, incident \in IncidentIds : Request(sent', c, incident)
  BY DEF ClientPosts
<1> DEFINE t == [id |-> sent', call |-> c, incident |-> incident, status |-> "success",
                 step |-> "start", todo |-> {}, key |-> None]
<1>2. sent' = sent + 1 /\ sent' \in Nat
  BY DEF ClientPosts, TypeOK
<1>3. t \in Thread
  BY <1>2 DEF Thread, Status
<1>4. threads' = threads \cup {t} /\ open' = open \cup {t.id}
  BY <1>1 DEF Request
<1>5. t.id = sent + 1 /\ t.step = "start"
  BY <1>2
<1> QED BY <1>3, <1>4, <1>5

LEMMA ClientsTypeStep ==
    ASSUME TypeOK, [Next]_vars
    PROVE  TypeOK'
<1> USE DEF TypeOK
<1>1. CASE ClientPosts
  <2>1. sent' \in 0..MaxRequests /\ UNCHANGED <<clusterVars, storeVars, replies, now, effects>>
    BY <1>1 DEF ClientPosts
  <2>2. PICK t \in Thread : threads' = threads \cup {t} /\ open' = open \cup {t.id}
    BY <1>1, PostedThread
  <2>3. t.id \in Nat
    BY DEF Thread
  <2> QED BY <2>1, <2>2, <2>3 DEF ServerTypeOK, clusterVars, storeVars
<1>2. CASE ClientLeaves
  BY <1>2 DEF ClientLeaves, ServerTypeOK, clusterVars, storeVars
<1>3. CASE ServerStep /\ UNCHANGED sent
  BY <1>3, ServerStepType
<1>4. CASE UNCHANGED vars
  BY <1>4, ServerUnchangedType DEF vars
<1> QED BY <1>1, <1>2, <1>3, <1>4 DEF Next

(* Every variable of the server keeps its type under any number of clients. *)
THEOREM ClientsTypes == Spec => []TypeOK
<1>1. Init => TypeOK
  BY ServerInitType DEF Init, TypeOK
<1>2. TypeOK /\ [Next]_vars => TypeOK'
  BY ClientsTypeStep
<1> QED BY <1>1, <1>2, PTL DEF Spec

-----------------------------------------------------------------------------
LEMMA ClientsCordonStep ==
    ASSUME TypeOK, CordonInv, [Next]_vars
    PROVE  CordonInv'
<1>1. CASE ClientPosts
  <2>1. PICK t \in Thread : threads' = threads \cup {t} /\ t.step = "start"
    BY <1>1, PostedThread
  <2>2. cordoned' = cordoned
    BY <1>1 DEF ClientPosts, clusterVars
  <2> QED BY <2>1, <2>2, CordonKept
<1>2. CASE ClientLeaves
  BY <1>2, CordonKept DEF ClientLeaves, clusterVars
<1>3. CASE ServerStep /\ UNCHANGED sent
  BY <1>3, ServerStepCordon DEF TypeOK
<1>4. CASE UNCHANGED vars
  BY <1>4, CordonKept DEF vars, serverVars, clusterVars, connVars
<1> QED BY <1>1, <1>2, <1>3, <1>4 DEF Next

(* A drain evicts a pod only from a node that was cordoned before, and     *)
(* only that node's pods, whatever the other requests do meanwhile.        *)
THEOREM EvictionsFollowCordons == Spec => []EvictionAfterCordon
<1>1. Init => CordonInv
  BY DEF Init, ServerInit, CordonInv
<1>2. TypeOK /\ CordonInv /\ [Next]_vars => CordonInv'
  BY ClientsCordonStep
<1>3. CordonInv => EvictionAfterCordon
  BY DEF CordonInv, Cordoned, EvictionAfterCordon
<1> QED BY <1>1, <1>2, <1>3, ClientsTypes, PTL DEF Spec

-----------------------------------------------------------------------------
LEMMA ClientsStoreStep ==
    ASSUME TypeOK, StoredInv, ListedInv, [Next]_vars
    PROVE  StoredInv' /\ ListedInv'
<1> USE DEF TypeOK
<1>1. CASE ClientPosts
  <2>1. PICK t \in Thread : /\ threads' = threads \cup {t}
                            /\ t.id = sent + 1 /\ t.step = "start"
    BY <1>1, PostedThread
  <2>2. t.id # 0 /\ UNCHANGED <<storeVars, replies>>
    BY <1>1, <2>1 DEF ClientPosts
  <2> QED BY <2>1, <2>2, NothingStored
<1>2. CASE ClientLeaves
  BY <1>2, NothingStored DEF ClientLeaves
<1>3. CASE ServerStep /\ UNCHANGED sent
  BY <1>3, ServerStepStored
<1>4. CASE UNCHANGED vars
  BY <1>4, NothingStored DEF vars, serverVars, connVars
<1> QED BY <1>1, <1>2, <1>3, <1>4 DEF Next

(* An evidence_uri that a client can read is in the manifest, and what the *)
(* manifest lists is an object of the bucket.                              *)
THEOREM AnswersAreListed == Spec => []AnsweredEvidenceListed
<1>1. Init => StoredInv /\ ListedInv
  BY DEF Init, ServerInit, StoredInv, ListedInv
<1>2. TypeOK /\ StoredInv /\ ListedInv /\ [Next]_vars => StoredInv' /\ ListedInv'
  BY ClientsStoreStep
<1>3. StoredInv /\ ListedInv => AnsweredEvidenceListed
  BY DEF StoredInv, ListedInv, AnsweredEvidenceListed
<1> QED BY <1>1, <1>2, <1>3, ClientsTypes, PTL DEF Spec
===============================================================================
