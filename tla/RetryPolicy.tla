---------------------------- MODULE RetryPolicy ----------------------------
(***************************************************************************)
(* The retry decision shared by every retry path of the listener           *)
(* (listener/src/services/retry-policy.ts): which failures are worth a     *)
(* further attempt, and how many attempts a piece of work may have.        *)
(* Delays that carry jitter are not computed here: the queues that use     *)
(* this module keep their own backoff curve.                               *)
(***************************************************************************)
EXTENDS Integers

CONSTANTS
    RetryableFailureTypes,  \* RetryPolicyConfig.retryableFailureTypes
    PolicyMaxAttempts,      \* RetryPolicyConfig.maxAttempts, or NoCeiling
    NoCeiling               \* maxAttempts: undefined

\* enum RetryFailureType
RetryFailureType ==
    {"network_error", "timeout", "rate_limited", "server_error", "client_error",
     "not_found", "auth_error", "configuration_error", "unknown"}

\* DEFAULT_RETRYABLE_FAILURE_TYPES
DefaultRetryableFailureTypes ==
    {"network_error", "timeout", "rate_limited", "server_error", "unknown"}

ASSUME RetryPolicyAssumption ==
    /\ RetryableFailureTypes \subseteq RetryFailureType
    /\ NoCeiling \notin Int
    /\ PolicyMaxAttempts \in Int \cup {NoCeiling}

AtLeastOne(n) == IF n < 1 THEN 1 ELSE n

\* resolveMaxAttempts: the caller's budget clamped to the policy's ceiling,
\* both of them at least one attempt.
resolveMaxAttempts(preferred) ==
    IF PolicyMaxAttempts = NoCeiling \/ AtLeastOne(preferred) <= AtLeastOne(PolicyMaxAttempts)
    THEN AtLeastOne(preferred)
    ELSE AtLeastOne(PolicyMaxAttempts)

isPermanent(failureType) == failureType \notin RetryableFailureTypes

\* Mutant: > for >=, one attempt too many.
evaluateOffByOne(failureType, attempt, preferred) ==
    IF isPermanent(failureType) THEN "permanent"
    ELSE IF attempt > resolveMaxAttempts(preferred) THEN "exhausted"
    ELSE "retryable"

\* evaluate: a permanent failure is rejected before the budget is consulted.
\* shouldRetry is the answer "retryable".
evaluate(failureType, attempt, preferred) ==
    IF isPermanent(failureType) THEN "permanent"
    ELSE IF attempt >= resolveMaxAttempts(preferred) THEN "exhausted"
    ELSE "retryable"
=============================================================================
