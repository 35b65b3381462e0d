SPECIFICATION FairSpec
CONSTANTS
    Instances = {i1, i2}
    Events = 1
    HasDeduplication = TRUE
    DryRun = {i2}
    BatchSize = 1
    MaxReconnectAttempts = 0
    MaxConcurrency = 1
    EventMaxRetries = 2
    RetryMaxRetries = 1
    PolicyMaxAttempts = NoCeiling
    NoCeiling = NoCeiling
    RetryableFailureTypes <- MCRetryable
    MaxCrashes = 0
    MaxFaults = 0
INVARIANTS
    SentRowsAreTrue
PROPERTIES
    SeenEventsResolve
CHECK_DEADLOCK FALSE
