SPECIFICATION FairSpec
CONSTANTS
    LastArtifact = 3
    RetryInterval = 1
    MaxSecond = 1
    MaxLost = 1
    None = None
INVARIANTS
    TypeOK
    RecordedReportStored
    RecordedReportOfOneRun
    SuccessLeavesReport
CHECK_DEADLOCK FALSE
PROPERTY TaskEnds
