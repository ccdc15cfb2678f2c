SPECIFICATION FairSpec
CONSTANTS
    Pods <- MCOnePod
    Nodes <- MCNodes
    Deployments <- MCDeployments
    Policies <- MCPolicies
    NodeOf <- MCOneNodeOf
    DaemonSetPods = {}
    Calls <- MCPodCalls
    MaxTime = 0
    None = None
    UnknownTool = UnknownTool
    MaxIterations = 2
    MaxBlocks = 1
    MaxAttempts = 2
    MaxRequests = 3
    MaxRuns = 2
    MaxLost = 0
    EventIds = {"fit", "unfit"}
INVARIANTS
    TypeOK
    GuardInv
    EvidenceBeforeDestruction
    ReportedEvidenceStored
    SuccessIsReal
PROPERTY
    TaskEnds
CHECK_DEADLOCK FALSE
