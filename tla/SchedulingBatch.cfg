SPECIFICATION Spec
CONSTANTS
    Rows = {n1, n2}
    Recipient <- MCSharedRecipient
    Recurring = {n2}
    WithDeadline = {n2}
    Schedulers = {s}
    Retriers = {r}
    Process <- MCProcess
    None = None
    MaxRetries = 2
    BatchSize = 2
    RecoveryPolicies = {"EXECUTE", "EXPIRE", "REQUIRE_INTERVENTION"}
    MissedPolicies = {"execute", "expire", "intervene"}
    MaxRuns = 2
    MaxDisturbances = 0
    PolicyMaxAttempts = 2
    NoCeiling = NoCeiling
    RetryableFailureTypes <- MCRetryable
    someRow = n1
    listener = listener
INVARIANT
    DeadLettersExhausted
