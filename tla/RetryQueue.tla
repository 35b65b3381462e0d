----------------------------- MODULE RetryQueue -----------------------------
(***************************************************************************)
(* NotificationRetryQueue (listener/src/services/                          *)
(* notification-retry-queue.ts): the in-memory queue of notifications that *)
(* could not be delivered, and the backoff curve it uses                   *)
(* (listener/src/utils/retry-backoff-config.ts).                           *)
(*                                                                         *)
(* Each firing of the interval takes every due item out of the queue and   *)
(* works through that batch one item after the other.  The interval does   *)
(* not wait for a batch, so batches overlap: `batches` holds, for every    *)
(* call of processQueue still running, the items it has left, the first    *)
(* one being the item whose notificationFn call is pending.                *)
(*                                                                         *)
(* Time is relative, as in EventQueue.  A delay that jitter makes a        *)
(* fraction of a tick is rounded up.                                       *)
(***************************************************************************)
EXTENDS RetryPolicy, FiniteSets, Sequences

CONSTANTS
    Fingerprints,     \* the notifications that may be offered to the queue
    MaxRetries,       \* backoff.maxRetries
    InitialDelay,     \* backoff.initialDelayMs, in ticks
    Multiplier,       \* backoff.multiplier
    MaxDelay,         \* backoff.maxDelayMs, in ticks
    Jitter,           \* backoff.jitter
    PriorityWeights,  \* options.priorityWeights, by priority
    AgeUnit,          \* the ticks in the 60000 ms of one age bonus
    AgeCap,           \* bound: ages saturate here
    MaxEnqueued       \* bound: accepted calls of enqueue

\* enum Priority: Low, Medium, High
Priority == 0..2

\* validateRetryBackoffConfig, as far as it constrains integers.
ASSUME RetryQueueAssumption ==
    /\ IsFiniteSet(Fingerprints)
    /\ MaxRetries \in 0..1000
    /\ InitialDelay \in Nat
    /\ Multiplier \in 1..100
    /\ MaxDelay \in Nat
    /\ InitialDelay <= MaxDelay
    /\ Jitter \in BOOLEAN
    /\ PriorityWeights \in [Priority -> Nat]
    /\ AgeUnit \in Nat \ {0}
    /\ AgeCap \in Nat
    /\ MaxEnqueued \in Nat

VARIABLES
    queue,               \* items waiting, a set of Item
    batches,             \* the rests of the batches being worked through
    queuedFingerprints,
    timer,               \* whether the interval of start() is armed
    metrics

vars == <<queue, batches, queuedFingerprints, timer, metrics>>

Budget == resolveMaxAttempts(MaxRetries)

Item == [fp : Fingerprints, retryCount : 0..(Budget - 1), wait : Nat,
         priority : Priority, age : 0..AgeCap]

Metrics == [totalEnqueued : Nat, totalProcessed : Nat, totalSucceeded : Nat,
            totalFailed : Nat, totalSkippedPermanent : Nat]

ItemsOf(batch) == {batch[n] : n \in DOMAIN batch}

\* The items some batch has taken out of the queue.
Taken == UNION {ItemsOf(b) : b \in batches}

-----------------------------------------------------------------------------
\* The base delay of calculateBackoffDelay, before jitter.
BaseDelay(retryIndex) ==
    LET grown == InitialDelay * Multiplier ^ retryIndex
    IN IF grown <= MaxDelay THEN grown ELSE MaxDelay

\* A fact of arithmetic the provers lack: powers of whole numbers are whole.
ASSUME BackoffAssumption == \A n \in 0..Budget : BaseDelay(n) \in Nat

\* calculateBackoffDelay: the delays it may return.  Jitter scales the base by
\* a factor from 3/4 up to, and not including, 5/4.
calculateBackoffDelay(retryIndex) ==
    LET base == BaseDelay(retryIndex)
    IN IF Jitter
       THEN {d \in 0..(2 * base) : 3 * base <= 4 * d /\ 4 * (d - 1) < 5 * base}
       ELSE {base}

getWeightedPriority(item) ==
    item.priority + item.age \div AgeUnit + PriorityWeights[item.priority]

\* Mutant: the comparator without the age bonus.
SortedBeforeIgnoringAge(a, b) ==
    a.priority + PriorityWeights[a.priority] > b.priority + PriorityWeights[b.priority]

\* The comparator of processQueue.
SortedBefore(a, b) ==
    \/ getWeightedPriority(a) > getWeightedPriority(b)
    \/ getWeightedPriority(a) = getWeightedPriority(b) /\ a.age > b.age

due == {i \in queue : i.wait = 0}

\* The orders in which sort() may return the due items.
Sortings ==
    {s \in [1..Cardinality(due) -> due] :
        \A m, n \in DOMAIN s : m < n => s[m] # s[n] /\ ~SortedBefore(s[n], s[m])}

-----------------------------------------------------------------------------
Init ==
    /\ queue = {}
    /\ batches = {}
    /\ queuedFingerprints = {}
    /\ timer = FALSE
    /\ metrics = [totalEnqueued |-> 0, totalProcessed |-> 0, totalSucceeded |-> 0,
                  totalFailed |-> 0, totalSkippedPermanent |-> 0]

\* Mutant: enqueue looks for the fingerprint in the waiting items only.
acceptsUnlessWaiting(fp) == \A i \in queue : i.fp # fp

accepts(fp) == fp \notin queuedFingerprints

\* Mutant: the fingerprint of a settled notification is never released.
keep(fp) == UNCHANGED queuedFingerprints

release(fp) == queuedFingerprints' = queuedFingerprints \ {fp}

\* enqueue; a fingerprint already queued is refused and changes nothing.
enqueue(fp, priority) ==
    /\ metrics.totalEnqueued < MaxEnqueued
    /\ accepts(fp)
    /\ queuedFingerprints' = queuedFingerprints \cup {fp}
    /\ \E delay \in calculateBackoffDelay(0) :
         queue' = queue \cup {[fp |-> fp, retryCount |-> 0, wait |-> delay,
                               priority |-> priority, age |-> 0]}
    /\ metrics' = [metrics EXCEPT !.totalEnqueued = @ + 1]
    /\ UNCHANGED <<batches, timer>>

start ==
    /\ ~timer
    /\ timer' = TRUE
    /\ UNCHANGED <<queue, batches, queuedFingerprints, metrics>>

\* stop disarms the interval; batches already taken are worked through.
stop ==
    /\ timer
    /\ timer' = FALSE
    /\ UNCHANGED <<queue, batches, queuedFingerprints, metrics>>

\* processQueue up to its first await; with nothing due it changes nothing.
processQueue ==
    /\ timer
    /\ due # {}
    /\ \E batch \in Sortings : batches' = batches \cup {batch}
    /\ queue' = queue \ due
    /\ UNCHANGED <<queuedFingerprints, timer, metrics>>

\* The loop of processQueue goes on to the next item of the batch.
advance(batch) ==
    batches' = (batches \ {batch}) \cup (IF Len(batch) > 1 THEN {Tail(batch)} ELSE {})

\* retryItem, when tryNotify reports success.
retryItemSucceeds(batch) ==
    /\ advance(batch)
    /\ release(Head(batch).fp)
    /\ metrics' = [metrics EXCEPT !.totalProcessed = @ + 1, !.totalSucceeded = @ + 1]
    /\ UNCHANGED <<queue, timer>>

\* retryItem, when tryNotify reports an error of the given class ("unknown"
\* when notificationFn resolved to false).
retryItemFails(batch, failureType) ==
    LET item    == Head(batch)
        attempt == item.retryCount + 1
        reason  == evaluate(failureType, attempt, MaxRetries)
    IN /\ advance(batch)
       /\ \/ /\ reason = "retryable"
             /\ \E delay \in calculateBackoffDelay(attempt) :
                  queue' = queue \cup {[item EXCEPT !.retryCount = attempt, !.wait = delay]}
             /\ UNCHANGED <<queuedFingerprints, metrics>>
          \/ /\ reason # "retryable"
             /\ release(item.fp)
             /\ metrics' = [metrics EXCEPT
                   !.totalProcessed = @ + 1,
                   !.totalFailed = @ + 1,
                   !.totalSkippedPermanent = IF reason = "permanent" THEN @ + 1 ELSE @]
             /\ UNCHANGED queue
       /\ UNCHANGED timer

Aged(item) == [item EXCEPT !.wait = IF @ > 0 THEN @ - 1 ELSE 0,
                           !.age = IF @ < AgeCap THEN @ + 1 ELSE AgeCap]

\* One tick of the clock behind Date.now().
Tick ==
    /\ queue' = {Aged(i) : i \in queue}
    /\ batches' = {[n \in DOMAIN b |-> Aged(b[n])] : b \in batches}
    /\ UNCHANGED <<queuedFingerprints, timer, metrics>>

retryItemSettles(fp) ==
    \E batch \in batches :
        /\ Head(batch).fp = fp
        /\ \/ retryItemSucceeds(batch)
           \/ \E f \in RetryFailureType : retryItemFails(batch, f)

Next ==
    \/ \E fp \in Fingerprints, p \in Priority : enqueue(fp, p)
    \/ start
    \/ stop
    \/ processQueue
    \/ \E fp \in Fingerprints : retryItemSettles(fp)
    \/ Tick

Spec == Init /\ [][Next]_vars

\* The interval keeps firing while it is armed, the clock advances, and every
\* notificationFn call settles: its requests are aborted after a timeout.
FairSpec ==
    /\ Spec
    /\ WF_vars(processQueue)
    /\ WF_vars(Tick)
    /\ \A fp \in Fingerprints : WF_vars(retryItemSettles(fp))

-----------------------------------------------------------------------------
(***************************************************************************)
(* Properties                                                              *)
(***************************************************************************)

\* Types, with the attempt budget the retry policy grants (retryItem).
TypeOK ==
    /\ queue \subseteq Item
    /\ \A b \in batches : b \in Seq(Item) /\ b # <<>>
    /\ queuedFingerprints \subseteq Fingerprints
    /\ timer \in BOOLEAN
    /\ metrics \in Metrics

\* However many batches overlap, a notification is in exactly one place, the
\* queue or one position of one batch, from the enqueue that accepts it until
\* its fingerprint is released: it is never lost between the filter that takes
\* it out of the queue and the push that puts it back, and no two batches can
\* send it at the same time.
RetriesTracked ==
    /\ queuedFingerprints = {i.fp : i \in queue \cup Taken}
    /\ \A i \in queue, j \in Taken : i.fp # j.fp
    /\ \A i, j \in queue : i.fp = j.fp => i = j
    /\ \A b, c \in batches : \A m \in DOMAIN b, n \in DOMAIN c :
         b[m].fp = c[n].fp => b = c /\ m = n

\* Within a batch, an item enqueued earlier is never behind one of the same
\* priority enqueued later, however long the batch has been running and
\* however often either was attempted before.
BatchOrder ==
    \A b \in batches : \A m, n \in DOMAIN b :
        m < n /\ b[m].priority = b[n].priority => b[n].age <= b[m].age

PoolStatus ==
    [fp \in Fingerprints |->
        IF fp \in {i.fp : i \in Taken} THEN "running"
        ELSE IF fp \in queuedFingerprints THEN "pending" ELSE "idle"]

\* Attempts made for a notification; one that a batch has taken is counted as
\* begun.
AttemptsOf(fp) ==
    IF \E i \in Taken : i.fp = fp
    THEN (CHOOSE i \in Taken : i.fp = fp).retryCount + 1
    ELSE IF \E i \in queue : i.fp = fp
    THEN (CHOOSE i \in queue : i.fp = fp).retryCount
    ELSE 0

PoolAttempts == [fp \in Fingerprints |-> AttemptsOf(fp)]

\* Nothing limits how many batches run at a time but the notifications there
\* are.
Pool == INSTANCE WorkPool WITH
            Work <- Fingerprints, Capacity <- Cardinality(Fingerprints), Budget <- Budget,
            status <- PoolStatus, attempts <- PoolAttempts

\* The queue implements WorkPool: from the enqueue that accepts a notification
\* until its fingerprint is released, it is taken by one batch at a time and
\* attempted at most Budget times.
ImplementsWorkPool == Pool!PoolSpec

\* While the interval stays armed, every accepted notification is settled.
EveryRetrySettles ==
    <>[]timer => \A fp \in Fingerprints :
                    (fp \in queuedFingerprints) ~> (fp \notin queuedFingerprints)
=============================================================================
