SPECIFICATION FairSpec
CONSTANTS
    Workers = {w1, w2, w3}
    Events = {e1}
    TableStatuses <- MCUnchecked
    Lease = 1
    Retention = 2
    WorkBound = 1
    MaxAge = 3
    MaxCount = 2
    MaxCrashes = 2
    MaxFaults = 1
INVARIANTS
    TypeOK
    ClaimsExclusive
PROPERTIES
    CompletedStays
    CompletedNotClaimed
    ClaimsEnd
