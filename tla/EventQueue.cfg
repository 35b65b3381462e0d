SPECIFICATION FairSpec
CONSTANTS
    Fingerprints = {e1, e2, e3}
    MaxConcurrency = 2
    MaxRetries = 3
    PolicyMaxAttempts = 2
    NoCeiling = NoCeiling
    RetryableFailureTypes <- MCRetryable
    BaseDelay = 1
    PriorityWeights <- MCPriorityWeights
    AgeUnit = 1
    AgeCap = 3
    MaxEnqueued = 3
INVARIANTS
    TypeOK
    FingerprintsTracked
    ConcurrencyBounded
    MetricsBalance
PROPERTIES
    ImplementsWorkPool
    OvertakingBounded
    EveryEventSettles
