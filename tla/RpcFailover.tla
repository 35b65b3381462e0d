----------------------------- MODULE RpcFailover -----------------------------
(***************************************************************************)
(* Which RPC endpoint the event subscriber asks                            *)
(* (listener/src/services): StellarRpcManager.executeWithFallback and what *)
(* it keeps about each endpoint (stellar-rpc-manager.ts), called once per  *)
(* contract by the poll loop of event-subscriber.ts, which stops for good  *)
(* after maxReconnectAttempts.  One call is pending at a time.             *)
(*                                                                         *)
(* lastFailureTime is kept as an order, null as the time 0: `before` says  *)
(* whose last failure is older.  Failures above the threshold are not      *)
(* counted.  `steady` and `rejections` are history.                        *)
(***************************************************************************)
EXTENDS Integers, FiniteSets

CONSTANTS
    Endpoints,              \* the pool's size; the primary is endpoint 1
    FailureThreshold,       \* failureThreshold
    MaxRetries,             \* maxRetries, the pool's size if not given
    Contracts,              \* number of contractAddresses
    MaxReconnections,       \* maxReconnectAttempts
    MaxDisturbances,        \* bound: outages, recoveries and rejected requests
    MaxRejections           \* rejected requests that a pool with an endpoint that
                            \* answers survives between two polls that succeed

ASSUME RpcFailoverAssumption ==
    /\ {Endpoints, FailureThreshold, Contracts} \subseteq Nat \ {0}
    /\ {MaxRetries, MaxReconnections, MaxDisturbances, MaxRejections} \subseteq Nat

Pool == 1..Endpoints

VARIABLES
    status, consecutiveFailures,  \* of each endpoint
    before,          \* before[e]: the endpoints whose lastFailureTime is less than e's
    cooled,          \* those without a failure in the last cooldownMs
    activeIndex,
    attempt,         \* attempts made by the pending operation, and this one
    contract,        \* the contract whose events are asked for
    answered,        \* some contract's events came in this poll
    reconnectAttempts,
    isRunning,
    reachable,       \* the endpoints that answer within requestTimeoutMs
    disturbances,
    steady,          \* reachable since the last poll that succeeded
    rejections       \* operations rejected since then

health == <<status, consecutiveFailures, before, cooled, activeIndex>>
poll == <<attempt, contract, answered, reconnectAttempts, isRunning>>
failoverHistory == <<steady, rejections>>
failoverVars == <<health, poll, reachable, disturbances, failoverHistory>>

-----------------------------------------------------------------------------
FailoverInit ==
    /\ status = [e \in Pool |-> "healthy"]
    /\ consecutiveFailures = [e \in Pool |-> 0]
    /\ before = [e \in Pool |-> {}] /\ cooled = Pool
    /\ activeIndex = 1
    /\ attempt = 1 /\ contract = 1 /\ answered = FALSE
    /\ reconnectAttempts = 0 /\ isRunning = TRUE
    /\ reachable \in SUBSET Pool /\ steady = reachable
    /\ disturbances = 0 /\ rejections = 0

Lesser(m, n) == IF m < n THEN m ELSE n

totalAttemptsAllowed == IF MaxRetries = 0 THEN 1 ELSE Lesser(MaxRetries, Endpoints)

\* handleReconnection waits, or stops the subscriber.
reconnect ==
    IF reconnectAttempts >= MaxReconnections
    THEN isRunning' = FALSE /\ UNCHANGED reconnectAttempts
    ELSE reconnectAttempts' = reconnectAttempts + 1 /\ UNCHANGED isRunning

EndOfPoll(ok) ==
    IF ok THEN reconnectAttempts' = 0 /\ UNCHANGED isRunning ELSE reconnect

\* checkForEvents goes on with the next contract, and fails if no contract's
\* events came.
EndOfOperation(ok) ==
    /\ attempt' = 1
    /\ \/ /\ contract < Contracts
          /\ contract' = contract + 1
          /\ answered' = (answered \/ ok)
          /\ UNCHANGED <<reconnectAttempts, isRunning>>
       \/ /\ contract = Contracts
          /\ contract' = 1
          /\ answered' = FALSE
          /\ EndOfPoll(answered \/ ok)

\* Mutant: a success leaves the failures counted.
recordSuccessKeepsCount(e) ==
    /\ status' = [status EXCEPT ![e] = "healthy"]
    /\ UNCHANGED <<consecutiveFailures, before, cooled, activeIndex>>

recordSuccess(e) ==
    /\ status' = [status EXCEPT ![e] = "healthy"]
    /\ consecutiveFailures' = [consecutiveFailures EXCEPT ![e] = 0]
    /\ UNCHANGED <<before, cooled, activeIndex>>

checkCooldowns(st) ==
    [e \in Pool |-> IF st[e] = "unhealthy" /\ e \in cooled THEN "degraded" ELSE st[e]]

\* How many steps o is from e in ring order.
distance(e, o) == IF o >= e THEN o - e ELSE o - e + Endpoints

NextOf(e, S) == CHOOSE o \in S : \A x \in S : distance(e, o) <= distance(e, x)

Oldest(S, order) == CHOOSE o \in S : \A x \in S \ {o} : o \in order[x]

\* Mutant: of endpoints that are all unhealthy, the first is taken, and not the
\* one that has had the most time to recover.
nextInOrder(e, st, order) ==
    LET others(s) == {o \in Pool \ {e} : st[o] = s}
    IN IF others("healthy") # {} THEN NextOf(e, others("healthy"))
       ELSE IF others("degraded") # {} THEN NextOf(e, others("degraded"))
       ELSE IF e = 1 THEN 2 ELSE 1

\* The next healthy endpoint in ring order, else the next degraded one, else
\* the one whose last failure is the oldest. A primary that has cooled down is
\* degraded already, so the code's third priority never decides.
nextEndpoint(e, st, order) ==
    LET others(s) == {o \in Pool \ {e} : st[o] = s}
    IN IF others("healthy") # {} THEN NextOf(e, others("healthy"))
       ELSE IF others("degraded") # {} THEN NextOf(e, others("degraded"))
       ELSE Oldest(Pool \ {e}, order)

\* recordFailure on the active endpoint e, and the switch that follows it:
\* at the threshold, or if the operation is to be retried.
recordFailure(e, retry) ==
    LET count == Lesser(consecutiveFailures[e] + 1, FailureThreshold)
        st == [status EXCEPT ![e] = IF count = FailureThreshold THEN "unhealthy"
                                    ELSE "degraded"]
        order == [o \in Pool |-> IF o = e THEN Pool \ {e} ELSE before[o] \ {e}]
    IN /\ consecutiveFailures' = [consecutiveFailures EXCEPT ![e] = count]
       /\ before' = order
       /\ cooled' = cooled \ {e}
       /\ IF Endpoints > 1 /\ (st[e] = "unhealthy" \/ retry)
          THEN LET after == [o \in Pool |-> IF o = e THEN st[o] ELSE checkCooldowns(st)[o]]
               IN status' = after /\ activeIndex' = nextEndpoint(e, after, order)
          ELSE status' = st /\ UNCHANGED activeIndex

\* The history, when an operation ends: that of a poll that succeeds starts anew.
Remember(ok, rejected) ==
    IF contract = Contracts /\ (answered \/ ok)
    THEN steady' = reachable /\ rejections' = 0
    ELSE rejections' = rejections + rejected /\ UNCHANGED steady

-----------------------------------------------------------------------------
\* The active endpoint answers.
Answer ==
    /\ isRunning
    /\ activeIndex \in reachable
    /\ recordSuccess(activeIndex)
    /\ EndOfOperation(TRUE) /\ Remember(TRUE, 0)
    /\ UNCHANGED <<reachable, disturbances>>

\* What is thrown, by the classes isRpcFailureCondition tells apart.
Errors == {"timeout", "network", "5xx", "rate limit", "server RPC", "unsynced",
           "client RPC", "other"}

isRpcFailureCondition(err) == err \notin {"client RPC", "other"}

\* The active endpoint does not answer, or not with events.
Fail(err) ==
    LET retry == attempt < totalAttemptsAllowed /\ Endpoints > 1
    IN /\ isRunning
       /\ isRpcFailureCondition(err)
       /\ activeIndex \notin reachable
       /\ recordFailure(activeIndex, retry)
       /\ IF retry
          THEN /\ attempt' = attempt + 1
               /\ UNCHANGED <<contract, answered, reconnectAttempts, isRunning, failoverHistory>>
          ELSE EndOfOperation(FALSE) /\ Remember(FALSE, 0)
       /\ UNCHANGED <<reachable, disturbances>>

\* Another error is rethrown: nothing is recorded, nothing retried, and the
\* endpoint that gave it stays the active one.
Reject(err) ==
    /\ isRunning
    /\ ~isRpcFailureCondition(err)
    /\ disturbances < MaxDisturbances
    /\ disturbances' = disturbances + 1
    /\ EndOfOperation(FALSE) /\ Remember(FALSE, 1)
    /\ UNCHANGED <<health, reachable>>

\* Endpoints fail and recover.
Shift ==
    /\ disturbances < MaxDisturbances
    /\ disturbances' = disturbances + 1
    /\ reachable' \in SUBSET Pool \ {reachable}
    /\ steady' = steady \cap reachable'
    /\ UNCHANGED <<health, poll, rejections>>

\* Time passes until cooldownMs is over for another endpoint.
CoolDown ==
    /\ \E e \in Pool \ cooled : before[e] \subseteq cooled /\ cooled' = cooled \cup {e}
    /\ UNCHANGED <<status, consecutiveFailures, before, activeIndex, poll, reachable,
                   disturbances, failoverHistory>>

FailoverNext == Answer \/ (\E err \in Errors : Fail(err) \/ Reject(err)) \/ Shift \/ CoolDown

FailoverSpec == FailoverInit /\ [][FailoverNext]_failoverVars

-----------------------------------------------------------------------------
(***************************************************************************)
(* Properties.                                                             *)
(***************************************************************************)

\* Types; an endpoint that counts failures is not healthy, only one whose count
\* reached the threshold is unhealthy, and the last failures of any two that
\* are not healthy are in some order, in which they cool down.
FailoverTypeOK ==
    /\ status \in [Pool -> {"healthy", "degraded", "unhealthy"}]
    /\ consecutiveFailures \in [Pool -> 0..FailureThreshold]
    /\ \A e \in Pool :
         /\ consecutiveFailures[e] > 0 <=> status[e] # "healthy"
         /\ status[e] = "unhealthy" => consecutiveFailures[e] = FailureThreshold
    /\ before \in [Pool -> SUBSET Pool] /\ cooled \subseteq Pool
    /\ \A e, o \in Pool :
         /\ o \in before[e] => before[o] \subseteq before[e] \ {o}
         /\ o # e /\ "healthy" \notin {status[o], status[e]} => o \in before[e] \/ e \in before[o]
         /\ e \in cooled => before[e] \subseteq cooled
    /\ activeIndex \in Pool
    /\ attempt \in 1..totalAttemptsAllowed /\ contract \in 1..Contracts
    /\ answered \in BOOLEAN /\ isRunning \in BOOLEAN
    /\ reconnectAttempts \in 0..MaxReconnections
    /\ steady \subseteq reachable /\ reachable \subseteq Pool
    /\ disturbances \in 0..MaxDisturbances /\ rejections \in 0..disturbances

\* The subscriber does not stop for good while some endpoint of the pool has been
\* up since the last poll that succeeded: failover gets to that endpoint before the
\* reconnection attempts are used up, whatever was known of the endpoints when the
\* others failed, and with up to MaxRejections operations lost to errors that
\* failover does not react to.  With more of them it may stop although every
\* endpoint is up.
OnlyOutagesStop == isRunning \/ steady = {} \/ rejections > MaxRejections
==============================================================================
