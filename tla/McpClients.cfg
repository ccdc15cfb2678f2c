SPECIFICATION Spec
CONSTANTS
    Pods <- MCPods
    Nodes <- MCNodes
    Deployments <- MCDeployments
    Policies <- MCPolicies
    NodeOf <- MCNodeOf
    DaemonSetPods = {}
    Calls <- MCCalls
    MaxTime = 1
    None = None
    MaxRequests = 2
INVARIANTS
    EvictionAfterCordon
    AnsweredEvidenceListed
CHECK_DEADLOCK FALSE
