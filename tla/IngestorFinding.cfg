SPECIFICATION Spec
CONSTANTS
    Alerts <- MCAlerts
    Kind <- MCKind
    GuardDuty = {"g1"}
    Tetragon = {"a1"}
    Window = 2
    LambdaTimeout = 1
    VisibilityTimeout = 3
    MaxReceiveCount = 2
    Concurrency = 2
    None = None
INVARIANTS
    DetectionDelivered
CHECK_DEADLOCK FALSE
