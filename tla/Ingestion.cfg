SPECIFICATION Spec
CONSTANTS
    Instances = {i1}
    Events = 2
    HasDeduplication = TRUE
    DryRun = {}
    BatchSize = 1
    MaxReconnectAttempts = 0
    MaxConcurrency = 1
    EventMaxRetries = 1
    RetryMaxRetries = 1
    PolicyMaxAttempts = NoCeiling
    NoCeiling = NoCeiling
    RetryableFailureTypes <- MCRetryable
    MaxCrashes = 1
    MaxFaults = 1
INVARIANTS
    TypeOK
    OnlyCrashesLose
    RepeatsAreUnrecorded
CHECK_DEADLOCK FALSE
