SPECIFICATION FairSpec
CONSTANTS
    Rows = {n1, n2}
    Recipient <- MCRecipient
    Recurring = {n2}
    WithDeadline = {n2}
    Schedulers = {s}
    Retriers = {r}
    Process <- MCProcess
    None = None
    MaxRetries = 2
    BatchSize = 2
    RecoveryPolicies = {"EXECUTE", "EXPIRE", "REQUIRE_INTERVENTION"}
    MissedPolicies = {"execute", "expire", "intervene"}
    MaxRuns = 2
    MaxDisturbances = 1
    PolicyMaxAttempts = 2
    NoCeiling = NoCeiling
    RetryableFailureTypes <- MCRetryable
    someRow = n1
    listener = listener
INVARIANTS
    TypeOK
    OverlapsExplained
    RepeatsExplained
PROPERTIES
    DeadLettersListed
    TerminalExplained
    RowsSettle
