SPECIFICATION Spec
CONSTANTS
    Pods <- MCOnePod
    Nodes <- MCNodes
    Deployments <- MCDeployments
    Policies <- MCPolicies
    NodeOf <- MCOneNodeOf
    DaemonSetPods = {}
    Calls <- MCNodeCalls
    MaxTime = 0
    None = None
    UnknownTool = UnknownTool
    MaxIterations = 2
    MaxBlocks = 1
    MaxAttempts = 1
    MaxRequests = 3
    MaxRuns = 2
    MaxLost = 1
    EventIds = {"unfit"}
INVARIANT
    RecordMatchesResult
PROPERTY
    ImplementsEvidenceFirst
CHECK_DEADLOCK FALSE
