SPECIFICATION FairSpec
CONSTANTS
    r1 = r1
    r2 = r2
    Responders = {r1, r2}
    NotifierHasTable = TRUE
    MaxRequests = 2
    None = None
INVARIANTS
    TypeOK
    AuditedDecision
    GateInv
    StatusTrue
PROPERTIES
    ImplementsApprovalGate
    UnreportedOnlyByNotifier
    ExecutionEnds
CHECK_DEADLOCK FALSE
