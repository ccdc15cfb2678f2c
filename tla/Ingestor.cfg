SPECIFICATION FairSpec
CONSTANTS
    Alerts <- MCAlerts
    Kind <- MCKind
    GuardDuty = {"g1"}
    Tetragon = {"a1"}
    Window = 2
    LambdaTimeout = 1
    VisibilityTimeout = 3
    MaxReceiveCount = 2
    Concurrency = 2
    None = None
INVARIANTS
    TypeOK
    RowInv
    NoSilentLoss
    StormLimited
PROPERTIES
    EveryAlertAnswered
CHECK_DEADLOCK FALSE
