SPECIFICATION Spec
CONSTANTS
    e1 = e1
    e2 = e2
    r1 = r1
    None = None
    N = 2
    Executions = {e1, e2}
    Responders = {r1}
    Severities = {"p1"}
    Day = 2
    Week = 1
    QueryLimit = 2
    HomeLimit = 2
    HomeList = 1
    ViewLimit = 2
    MaxSecond = 5
    MaxExtra = 1
SYMMETRY Actors
INVARIANTS TypeOK MeansWithinWindow HomeAgrees TrendWithinTotal SeveritiesAgree
PROPERTY TransitionsKept
CHECK_DEADLOCK FALSE
