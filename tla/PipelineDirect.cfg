SPECIFICATION Spec
CONSTANTS
    r1 = r1
    r2 = r2
    Responders = {r1, r2}
    NotifierHasTable = FALSE
    MaxRequests = 1
    None = None
PROPERTIES
    DirectOnlyWhenExpired
CHECK_DEADLOCK FALSE
