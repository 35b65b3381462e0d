SPECIFICATION FailoverSpec
CONSTANTS
    Endpoints = 4
    FailureThreshold = 3
    MaxRetries = 4
    Contracts = 2
    MaxReconnections = 2
    MaxDisturbances = 3
    MaxRejections = 1
INVARIANTS
    FailoverTypeOK
    OnlyOutagesStop
CHECK_DEADLOCK FALSE
