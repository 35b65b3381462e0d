SPECIFICATION FairSpec
CONSTANTS
    Fingerprints = {n1, n2, n3}
    MaxRetries = 2
    PolicyMaxAttempts = NoCeiling
    NoCeiling = NoCeiling
    RetryableFailureTypes <- MCRetryable
    InitialDelay = 1
    Multiplier = 2
    MaxDelay = 1
    Jitter = TRUE
    PriorityWeights <- MCPriorityWeights
    AgeUnit = 2
    AgeCap = 2
    MaxEnqueued = 3
INVARIANTS
    TypeOK
    RetriesTracked
    BatchOrder
PROPERTIES
    ImplementsWorkPool
    EveryRetrySettles
