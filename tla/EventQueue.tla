----------------------------- MODULE EventQueue -----------------------------
(***************************************************************************)
(* EventProcessingQueue (listener/src/services/event-processing-queue.ts): *)
(* the in-memory queue between the poll loop and processEvent.             *)
(*                                                                         *)
(* An event is its fingerprint (contract address and event id).  Time is   *)
(* relative: an item carries `wait`, the ticks until nextRetryAt, and      *)
(* `age`, the ticks since enqueuedAt, and Tick moves every item at once.   *)
(* processNext runs without an await up to the calls of the processor, so  *)
(* it is one action; the continuation of each processor call (processItem  *)
(* after its await) is one action too, and continuations interleave with   *)
(* everything else.  `inFlight` are the items held by those continuations. *)
(*                                                                         *)
(* The array order of `queue` only breaks ties between items of the same   *)
(* weighted priority and the same enqueuedAt; the queue is a set here and  *)
(* such ties are broken either way.  priorityCounters and processingTimes, *)
(* which nothing reads back, are left out.                                 *)
(***************************************************************************)
EXTENDS RetryPolicy, FiniteSets

CONSTANTS
    Fingerprints,     \* the events that may be offered to the queue
    MaxConcurrency,   \* options.maxConcurrency, at least 1
    MaxRetries,       \* options.maxRetries: the attempt budget
    BaseDelay,        \* options.baseDelayMs, in ticks
    PriorityWeights,  \* options.priorityWeights, by priority
    AgeUnit,          \* the ticks in the 60000 ms of one age bonus
    AgeCap,           \* bound: ages saturate here
    MaxEnqueued       \* bound: accepted calls of enqueue

\* enum Priority: Low, Medium, High
Priority == 0..2

ASSUME EventQueueAssumption ==
    /\ IsFiniteSet(Fingerprints)
    /\ MaxConcurrency \in Nat \ {0}
    /\ MaxRetries \in Nat
    /\ BaseDelay \in Nat
    /\ PriorityWeights \in [Priority -> Nat]
    /\ AgeUnit \in Nat \ {0}
    /\ AgeCap \in Nat
    /\ MaxEnqueued \in Nat

VARIABLES
    queue,               \* items waiting, a set of Item
    inFlight,            \* items whose processor call has not settled
    queuedFingerprints,
    activeFingerprints,
    timer,               \* whether the interval of start() is armed
    metrics

vars == <<queue, inFlight, queuedFingerprints, activeFingerprints, timer, metrics>>

Budget == resolveMaxAttempts(MaxRetries)

Item == [fp : Fingerprints, retryCount : 0..(Budget - 1), wait : Nat,
         priority : Priority, age : 0..AgeCap]

Metrics == [totalEnqueued : Nat, totalProcessed : Nat, totalSucceeded : Nat,
            totalFailed : Nat, totalSkippedPermanent : Nat]

FingerprintsOf(items) == {i.fp : i \in items}

-----------------------------------------------------------------------------
calculateDelay(retryCount) == BaseDelay * 2 ^ retryCount

\* The delays of the attempts there can be are numbers of ticks (exponentiation
\* is not among the operators the provers know).
ASSUME BackoffAssumption == \A n \in 0..Budget : calculateDelay(n) \in Nat

getWeightedPriority(item) ==
    item.priority + item.age \div AgeUnit + PriorityWeights[item.priority]

\* Mutant: the comparator without the age bonus.
SortedBeforeIgnoringAge(a, b) ==
    a.priority + PriorityWeights[a.priority] > b.priority + PriorityWeights[b.priority]

\* The comparator of processNext: higher weighted priority first, then the
\* earlier enqueuedAt.
SortedBefore(a, b) ==
    \/ getWeightedPriority(a) > getWeightedPriority(b)
    \/ getWeightedPriority(a) = getWeightedPriority(b) /\ a.age > b.age

\* Mutant: one slot too many.
availableOffByOne == MaxConcurrency - Cardinality(activeFingerprints) + 1

available == MaxConcurrency - Cardinality(activeFingerprints)

due == {i \in queue : i.wait = 0 /\ i.fp \notin activeFingerprints}

\* .sort(...).slice(0, available)
IsSelection(selected) ==
    /\ Cardinality(selected) =
         IF Cardinality(due) <= available THEN Cardinality(due) ELSE available
    /\ \A s \in selected, d \in due \ selected : ~SortedBefore(d, s)

-----------------------------------------------------------------------------
Init ==
    /\ queue = {}
    /\ inFlight = {}
    /\ queuedFingerprints = {}
    /\ activeFingerprints = {}
    /\ timer = FALSE
    /\ metrics = [totalEnqueued |-> 0, totalProcessed |-> 0, totalSucceeded |-> 0,
                  totalFailed |-> 0, totalSkippedPermanent |-> 0]

\* Mutant: enqueue without its duplicate check.
acceptsAny(fp) == TRUE

accepts(fp) == fp \notin queuedFingerprints

\* Mutant: the fingerprint of a settled event is never released.
keep(fp) == UNCHANGED queuedFingerprints

release(fp) == queuedFingerprints' = queuedFingerprints \ {fp}

\* enqueue; a fingerprint already queued is refused and changes nothing.
enqueue(fp, priority) ==
    /\ metrics.totalEnqueued < MaxEnqueued
    /\ accepts(fp)
    /\ queuedFingerprints' = queuedFingerprints \cup {fp}
    /\ queue' = queue \cup {[fp |-> fp, retryCount |-> 0, wait |-> calculateDelay(0),
                             priority |-> priority, age |-> 0]}
    /\ metrics' = [metrics EXCEPT !.totalEnqueued = @ + 1]
    /\ UNCHANGED <<inFlight, activeFingerprints, timer>>

start ==
    /\ ~timer
    /\ timer' = TRUE
    /\ UNCHANGED <<queue, inFlight, queuedFingerprints, activeFingerprints, metrics>>

\* stop only disarms the interval: calls of the processor that are running
\* go on, and what is queued stays queued.
stop ==
    /\ timer
    /\ timer' = FALSE
    /\ UNCHANGED <<queue, inFlight, queuedFingerprints, activeFingerprints, metrics>>

\* processNext, with the synchronous prefix of processItem for each item
\* selected.  When no slot is free or nothing is due it changes nothing.
processNext ==
    /\ timer
    /\ available > 0
    /\ due # {}
    /\ \E selected \in SUBSET due :
         /\ IsSelection(selected)
         /\ queue' = {i \in queue : \/ i.wait > 0
                                    \/ i.fp \in activeFingerprints
                                    \/ i.fp \notin FingerprintsOf(selected)}
         /\ inFlight' = inFlight \cup selected
         /\ activeFingerprints' = activeFingerprints \cup FingerprintsOf(selected)
    /\ UNCHANGED <<queuedFingerprints, timer, metrics>>

\* processItem, when the processor resolves to true.
processItemSucceeds(item) ==
    /\ inFlight' = inFlight \ {item}
    /\ release(item.fp)
    /\ activeFingerprints' = activeFingerprints \ {item.fp}
    /\ metrics' = [metrics EXCEPT !.totalProcessed = @ + 1, !.totalSucceeded = @ + 1]
    /\ UNCHANGED <<queue, timer>>

\* handleFailure: put the item back with a longer delay, or give it up.
handleFailure(item, failureType) ==
    LET attempt == item.retryCount + 1
        reason  == evaluate(failureType, attempt, MaxRetries)
    IN \/ /\ reason = "retryable"
          /\ queue' = queue \cup {[item EXCEPT !.retryCount = attempt,
                                               !.wait = calculateDelay(attempt)]}
          /\ UNCHANGED <<queuedFingerprints, metrics>>
       \/ /\ reason # "retryable"
          /\ release(item.fp)
          /\ metrics' = [metrics EXCEPT
                !.totalProcessed = @ + 1,
                !.totalFailed = @ + 1,
                !.totalSkippedPermanent = IF reason = "permanent" THEN @ + 1 ELSE @]
          /\ UNCHANGED queue

\* processItem, when the processor resolves to false (an "unknown" failure)
\* or rejects with an error of the given class.
processItemFails(item, failureType) ==
    /\ inFlight' = inFlight \ {item}
    /\ activeFingerprints' = activeFingerprints \ {item.fp}
    /\ handleFailure(item, failureType)
    /\ UNCHANGED timer

Aged(item) == [item EXCEPT !.wait = IF @ > 0 THEN @ - 1 ELSE 0,
                           !.age = IF @ < AgeCap THEN @ + 1 ELSE AgeCap]

\* One tick of the clock behind Date.now().
Tick ==
    /\ queue' = {Aged(i) : i \in queue}
    /\ inFlight' = {Aged(i) : i \in inFlight}
    /\ UNCHANGED <<queuedFingerprints, activeFingerprints, timer, metrics>>

processItemSettles(fp) ==
    \E item \in inFlight :
        /\ item.fp = fp
        /\ \/ processItemSucceeds(item)
           \/ \E f \in RetryFailureType : processItemFails(item, f)

Next ==
    \/ \E fp \in Fingerprints, p \in Priority : enqueue(fp, p)
    \/ start
    \/ stop
    \/ processNext
    \/ \E fp \in Fingerprints : processItemSettles(fp)
    \/ Tick

Spec == Init /\ [][Next]_vars

(***************************************************************************)
(* The interval keeps firing while it is armed, the clock keeps advancing, *)
(* and every call of the processor settles: its only waits are database    *)
(* statements and webhook requests, and each request is aborted after      *)
(* timeoutMs (webhook-sender.ts).                                          *)
(***************************************************************************)
FairSpec ==
    /\ Spec
    /\ WF_vars(processNext)
    /\ WF_vars(Tick)
    /\ \A fp \in Fingerprints : WF_vars(processItemSettles(fp))

-----------------------------------------------------------------------------
(***************************************************************************)
(* Properties                                                              *)
(***************************************************************************)

\* Types, with the attempt budget: no item is kept whose next attempt would
\* exceed the attempts the retry policy grants (handleFailure).
TypeOK ==
    /\ queue \subseteq Item
    /\ inFlight \subseteq Item
    /\ queuedFingerprints \subseteq Fingerprints
    /\ activeFingerprints \subseteq Fingerprints
    /\ timer \in BOOLEAN
    /\ metrics \in Metrics

\* No two of the items the queue knows about, waiting or in flight, are for
\* the same event.
OneItemPerEvent ==
    \A i, j \in queue \cup inFlight : i.fp = j.fp => i = j

\* The two fingerprint sets never drift from the items they stand for: an
\* event whose fingerprint is held is really waiting or being processed (so a
\* refused enqueue never loses an event), and it is never processed twice at
\* the same time, whatever the order in which processor calls settle.
FingerprintsTracked ==
    /\ OneItemPerEvent
    /\ queue \cap inFlight = {}
    /\ activeFingerprints = FingerprintsOf(inFlight)
    /\ queuedFingerprints = FingerprintsOf(queue) \cup FingerprintsOf(inFlight)

\* processNext fires again while earlier batches are still being processed;
\* together they never exceed maxConcurrency.
ConcurrencyBounded == Cardinality(inFlight) <= MaxConcurrency

\* The metrics account for every accepted event exactly once: it is still
\* held, or it succeeded, or it failed.
MetricsBalance ==
    /\ metrics.totalEnqueued = metrics.totalProcessed + Cardinality(queuedFingerprints)
    /\ metrics.totalProcessed = metrics.totalSucceeded + metrics.totalFailed
    /\ metrics.totalSkippedPermanent <= metrics.totalFailed

Score(p) == p + PriorityWeights[p]

\* An item started while another due item is left behind was not enqueued
\* later than that item by more than the minutes of age bonus that their
\* priorities differ by: a low priority event is overtaken only for a bounded
\* time, and events of one priority start in the order they were enqueued,
\* failed attempts included.
OvertakingBounded ==
    [][\A s \in queue \cap inFlight', d \in due \cap queue' :
         /\ d.age - s.age < (Score(s.priority) - Score(d.priority) + 1) * AgeUnit
         /\ s.priority = d.priority => d.age <= s.age]_vars

\* The abstract pool the queue implements.
PoolStatus ==
    [fp \in Fingerprints |->
        IF fp \in activeFingerprints THEN "running"
        ELSE IF fp \in queuedFingerprints THEN "pending" ELSE "idle"]

\* Attempts begun for an event, read off the item that stands for it.
AttemptsOf(waiting, running, fp) ==
    IF \E i \in running : i.fp = fp
    THEN (CHOOSE i \in running : i.fp = fp).retryCount + 1
    ELSE IF \E i \in waiting : i.fp = fp
    THEN (CHOOSE i \in waiting : i.fp = fp).retryCount
    ELSE 0

PoolAttempts == [fp \in Fingerprints |-> AttemptsOf(queue, inFlight, fp)]

Pool == INSTANCE WorkPool WITH
            Work <- Fingerprints, Capacity <- MaxConcurrency, Budget <- Budget,
            status <- PoolStatus, attempts <- PoolAttempts

\* The queue implements WorkPool: between acceptance and settlement an event
\* is offered to the processor at most Budget times, one call at a time.
ImplementsWorkPool == Pool!PoolSpec

\* While the interval stays armed, every accepted event is settled: it leaves
\* the queue by success, by exhausting its attempts or by a permanent failure.
EveryEventSettles ==
    <>[]timer => \A fp \in Fingerprints :
                    (fp \in queuedFingerprints) ~> (fp \notin queuedFingerprints)
=============================================================================
