-------------------------- MODULE EventQueueProofs --------------------------
(***************************************************************************)
(* Proofs about EventQueue for every set of events, every concurrency      *)
(* limit, attempt budget, backoff base and weighting of priorities.        *)
(***************************************************************************)
EXTENDS EventQueue, FiniteSetTheorems, TLAPS

(***************************************************************************)
(* The attempt budget and the retry decision                               *)
(***************************************************************************)

\* resolveMaxAttempts never grants less than one attempt.
LEMMA BudgetType == Budget \in Nat \ {0}
  BY RetryPolicyAssumption, EventQueueAssumption
     DEF Budget, resolveMaxAttempts, AtLeastOne

\* A failed attempt is followed by another one only while attempts remain.
LEMMA RetryableHasBudget ==
  ASSUME NEW attempt \in Nat, NEW f \in RetryFailureType,
         evaluate(f, attempt, MaxRetries) = "retryable"
  PROVE  attempt < Budget
  BY BudgetType DEF evaluate, Budget

(***************************************************************************)
(* What the operators on items return                                      *)
(***************************************************************************)

\* An item as enqueue builds it is an Item.
LEMMA NewItemType ==
  ASSUME NEW fp \in Fingerprints, NEW p \in Priority
  PROVE  [fp |-> fp, retryCount |-> 0, wait |-> calculateDelay(0),
          priority |-> p, age |-> 0] \in Item
  <1>1. calculateDelay(0) \in Nat
    BY BudgetType, BackoffAssumption
  <1> QED
    BY <1>1, BudgetType, EventQueueAssumption DEF Item

\* Ageing an item moves its two clocks and nothing else.
LEMMA OlderItem ==
  ASSUME NEW item \in Item, NEW w \in Nat, NEW a \in 0..AgeCap
  PROVE  /\ [item EXCEPT !.wait = w, !.age = a] \in Item
         /\ [item EXCEPT !.wait = w, !.age = a].fp = item.fp
         /\ [item EXCEPT !.wait = w, !.age = a].retryCount = item.retryCount
  BY DEF Item

\* An item that handleFailure puts back is an Item: it has attempts left.
LEMMA RequeuedItemType ==
  ASSUME NEW item \in Item, NEW f \in RetryFailureType,
         evaluate(f, item.retryCount + 1, MaxRetries) = "retryable"
  PROVE  LET new == [item EXCEPT !.retryCount = item.retryCount + 1,
                                 !.wait = calculateDelay(item.retryCount + 1)]
         IN  /\ new \in Item
             /\ new.fp = item.fp
             /\ new.retryCount = item.retryCount + 1
             /\ item.retryCount + 1 < Budget
  <1>1. item.retryCount \in Nat
    BY BudgetType DEF Item
  <1>2. item.retryCount + 1 < Budget
    BY <1>1, RetryableHasBudget
  <1>3. calculateDelay(item.retryCount + 1) \in Nat
    BY <1>1, <1>2, BudgetType, BackoffAssumption
  <1>4. item.retryCount + 1 \in 0..(Budget - 1)
    BY <1>1, <1>2, BudgetType
  <1> DEFINE n == item.retryCount + 1
             w == calculateDelay(n)
  <1>5. n \in 0..(Budget - 1) /\ w \in Nat
    BY <1>3, <1>4
  <1> HIDE DEF n, w
  <1>6. /\ [item EXCEPT !.retryCount = n, !.wait = w] \in Item
        /\ [item EXCEPT !.retryCount = n, !.wait = w].fp = item.fp
        /\ [item EXCEPT !.retryCount = n, !.wait = w].retryCount = n
    BY <1>5 DEF Item
  <1> QED
    BY <1>2, <1>6 DEF n, w

\* Time changes neither the event nor the attempts of an item.
LEMMA AgedType ==
  ASSUME NEW item \in Item
  PROVE  /\ Aged(item) \in Item
         /\ Aged(item).fp = item.fp
         /\ Aged(item).retryCount = item.retryCount
  <1>1. (IF item.wait > 0 THEN item.wait - 1 ELSE 0) \in Nat
    BY DEF Item
  <1>2. (IF item.age < AgeCap THEN item.age + 1 ELSE AgeCap) \in 0..AgeCap
    BY EventQueueAssumption DEF Item
  <1> DEFINE w == IF item.wait > 0 THEN item.wait - 1 ELSE 0
             a == IF item.age < AgeCap THEN item.age + 1 ELSE AgeCap
  <1>3. Aged(item) = [item EXCEPT !.wait = w, !.age = a]
    BY DEF Aged
  <1>4. w \in Nat /\ a \in 0..AgeCap
    BY <1>1, <1>2
  <1> HIDE DEF w, a
  <1>5. /\ [item EXCEPT !.wait = w, !.age = a] \in Item
        /\ [item EXCEPT !.wait = w, !.age = a].fp = item.fp
        /\ [item EXCEPT !.wait = w, !.age = a].retryCount = item.retryCount
    BY <1>4, OlderItem
  <1> QED
    BY <1>3, <1>5

(***************************************************************************)
(* What the updates of the metrics return                                  *)
(***************************************************************************)

\* The metrics after an accepted enqueue.
LEMMA EnqueuedMetrics ==
  ASSUME NEW m \in Metrics, NEW x \in Nat
  PROVE  LET new == [m EXCEPT !.totalEnqueued = x]
         IN  /\ new \in Metrics
             /\ new.totalEnqueued = x
             /\ new.totalProcessed = m.totalProcessed
             /\ new.totalSucceeded = m.totalSucceeded
             /\ new.totalFailed = m.totalFailed
             /\ new.totalSkippedPermanent = m.totalSkippedPermanent
  BY DEF Metrics

\* The metrics after a success.
LEMMA SucceededMetrics ==
  ASSUME NEW m \in Metrics, NEW x \in Nat, NEW y \in Nat
  PROVE  LET new == [m EXCEPT !.totalProcessed = x, !.totalSucceeded = y]
         IN  /\ new \in Metrics
             /\ new.totalEnqueued = m.totalEnqueued
             /\ new.totalProcessed = x
             /\ new.totalSucceeded = y
             /\ new.totalFailed = m.totalFailed
             /\ new.totalSkippedPermanent = m.totalSkippedPermanent
  BY DEF Metrics

\* The metrics after an event is given up.
LEMMA FailedMetrics ==
  ASSUME NEW m \in Metrics, NEW x \in Nat, NEW y \in Nat, NEW z \in Nat
  PROVE  LET new == [m EXCEPT !.totalProcessed = x, !.totalFailed = y,
                              !.totalSkippedPermanent = z]
         IN  /\ new \in Metrics
             /\ new.totalEnqueued = m.totalEnqueued
             /\ new.totalProcessed = x
             /\ new.totalSucceeded = m.totalSucceeded
             /\ new.totalFailed = y
             /\ new.totalSkippedPermanent = z
  BY DEF Metrics

(***************************************************************************)
(* Types                                                                   *)
(***************************************************************************)

\* TypeOK is inductive.
LEMMA TypeStep == TypeOK /\ [Next]_vars => TypeOK'
  <1> SUFFICES ASSUME TypeOK, [Next]_vars PROVE TypeOK'
    OBVIOUS
  <1> USE DEF TypeOK
  <1>1. ASSUME NEW fp \in Fingerprints, NEW p \in Priority, enqueue(fp, p)
        PROVE  TypeOK'
    <2>1. metrics.totalEnqueued + 1 \in Nat
      BY DEF Metrics
    <2>2. metrics' \in Metrics
      BY <1>1, <2>1, EnqueuedMetrics DEF enqueue
    <2> QED
      BY <1>1, <2>2, NewItemType DEF enqueue
  <1>2. CASE start
    BY <1>2 DEF start
  <1>3. CASE stop
    BY <1>3 DEF stop
  <1>4. CASE processNext
    BY <1>4 DEF processNext, due, FingerprintsOf, Item
  <1>5. ASSUME NEW item \in inFlight, processItemSucceeds(item)
        PROVE  TypeOK'
    <2>1. metrics.totalProcessed + 1 \in Nat /\ metrics.totalSucceeded + 1 \in Nat
      BY DEF Metrics
    <2>2. metrics' \in Metrics
      BY <1>5, <2>1, SucceededMetrics DEF processItemSucceeds
    <2> QED
      BY <1>5, <2>2 DEF processItemSucceeds, release
  <1>6. ASSUME NEW item \in inFlight, NEW f \in RetryFailureType,
               processItemFails(item, f)
        PROVE  TypeOK'
    <2>1. CASE evaluate(f, item.retryCount + 1, MaxRetries) = "retryable"
      BY <1>6, <2>1, RequeuedItemType DEF processItemFails, handleFailure
    <2>2. CASE evaluate(f, item.retryCount + 1, MaxRetries) # "retryable"
      <3> DEFINE skipped == IF evaluate(f, item.retryCount + 1, MaxRetries) = "permanent"
                            THEN metrics.totalSkippedPermanent + 1
                            ELSE metrics.totalSkippedPermanent
      <3>1. /\ metrics.totalProcessed + 1 \in Nat
            /\ metrics.totalFailed + 1 \in Nat
            /\ skipped \in Nat
        BY DEF Metrics
      <3>2. metrics' = [metrics EXCEPT !.totalProcessed = metrics.totalProcessed + 1,
                                       !.totalFailed = metrics.totalFailed + 1,
                                       !.totalSkippedPermanent = skipped]
        BY <1>6, <2>2 DEF processItemFails, handleFailure
      <3> HIDE DEF skipped
      <3>3. metrics' \in Metrics
        BY <3>1, <3>2, FailedMetrics
      <3> QED
        BY <1>6, <2>2, <3>3 DEF processItemFails, handleFailure, release
    <2> QED
      BY <2>1, <2>2
  <1>7. CASE Tick
    BY <1>7, AgedType DEF Tick
  <1>8. CASE UNCHANGED vars
    BY <1>8 DEF vars
  <1> QED
    BY <1>1, <1>2, <1>3, <1>4, <1>5, <1>6, <1>7, <1>8 DEF Next, processItemSettles

\* Every reachable state is well typed; in particular no item is kept beyond
\* the attempts the retry policy grants.
THEOREM TypeCorrect == Spec => []TypeOK
  <1>1. Init => TypeOK
    <2> SUFFICES ASSUME Init PROVE TypeOK
      OBVIOUS
    <2>1. metrics \in Metrics
      BY DEF Init, Metrics
    <2> QED
      BY <2>1 DEF Init, TypeOK
  <1> QED
    BY <1>1, TypeStep, PTL DEF Spec

(***************************************************************************)
(* Fingerprints                                                            *)
(***************************************************************************)

\* processNext removes exactly the items it starts: filtering by fingerprint
\* cannot drop another item, because no other item has that fingerprint.
LEMMA SelectionRemoved ==
  ASSUME FingerprintsTracked, NEW selected \in SUBSET due
  PROVE  {i \in queue : \/ i.wait > 0
                        \/ i.fp \in activeFingerprints
                        \/ i.fp \notin FingerprintsOf(selected)} = queue \ selected
  <1>1. ASSUME NEW i \in queue, NEW s \in selected, i.fp = s.fp
        PROVE  i = s
    BY <1>1 DEF FingerprintsTracked, OneItemPerEvent, due
  <1>2. \A s \in selected : ~(s.wait > 0) /\ s.fp \notin activeFingerprints /\ s \in queue
    BY DEF due
  <1> QED
    BY <1>1, <1>2 DEF FingerprintsOf

\* FingerprintsTracked is inductive relative to TypeOK.
LEMMA FingerprintsStep ==
  TypeOK /\ FingerprintsTracked /\ [Next]_vars => FingerprintsTracked'
  <1> SUFFICES ASSUME TypeOK, FingerprintsTracked, [Next]_vars
               PROVE  FingerprintsTracked'
    OBVIOUS
  <1> USE DEF FingerprintsTracked, OneItemPerEvent, FingerprintsOf
  <1>1. ASSUME NEW fp \in Fingerprints, NEW p \in Priority, enqueue(fp, p)
        PROVE  FingerprintsTracked'
    <2> DEFINE new == [fp |-> fp, retryCount |-> 0, wait |-> calculateDelay(0),
                       priority |-> p, age |-> 0]
    <2>1. new.fp = fp
      OBVIOUS
    <2>2. /\ queue' = queue \cup {new}
          /\ fp \notin queuedFingerprints
          /\ queuedFingerprints' = queuedFingerprints \cup {fp}
          /\ UNCHANGED <<inFlight, activeFingerprints>>
      BY <1>1 DEF enqueue, accepts
    <2> HIDE DEF new
    <2>3. \A i \in queue \cup inFlight : i.fp # fp
      BY <2>2
    <2> QED
      BY <2>1, <2>2, <2>3
  <1>2. CASE start
    BY <1>2 DEF start
  <1>3. CASE stop
    BY <1>3 DEF stop
  <1>4. CASE processNext
    <2>1. PICK selected \in SUBSET due :
            /\ queue' = queue \ selected
            /\ inFlight' = inFlight \cup selected
            /\ activeFingerprints' = activeFingerprints \cup FingerprintsOf(selected)
      BY <1>4, SelectionRemoved DEF processNext
    <2>2. selected \subseteq queue
      BY DEF due
    <2>3. queuedFingerprints' = queuedFingerprints
      BY <1>4 DEF processNext
    <2>4. queue' \cup inFlight' = queue \cup inFlight
      BY <2>1, <2>2
    <2>5. OneItemPerEvent'
      BY <2>4
    <2>6. queue' \cap inFlight' = {}
      BY <2>1
    <2>7. activeFingerprints' = FingerprintsOf(inFlight')
      BY <2>1
    <2>8. queuedFingerprints' = FingerprintsOf(queue') \cup FingerprintsOf(inFlight')
      BY <2>3, <2>4
    <2> QED
      BY <2>5, <2>6, <2>7, <2>8
  <1>5. ASSUME NEW item \in inFlight, processItemSucceeds(item)
        PROVE  FingerprintsTracked'
    <2>1. /\ queue' = queue
          /\ inFlight' = inFlight \ {item}
          /\ queuedFingerprints' = queuedFingerprints \ {item.fp}
          /\ activeFingerprints' = activeFingerprints \ {item.fp}
      BY <1>5 DEF processItemSucceeds, release
    <2>2. \A i \in queue \cup (inFlight \ {item}) : i.fp # item.fp
      OBVIOUS
    <2> QED
      BY <2>1, <2>2
  <1>6. ASSUME NEW item \in inFlight, NEW f \in RetryFailureType,
               processItemFails(item, f)
        PROVE  FingerprintsTracked'
    <2>1. /\ inFlight' = inFlight \ {item}
          /\ activeFingerprints' = activeFingerprints \ {item.fp}
      BY <1>6 DEF processItemFails
    <2>2. \A i \in queue \cup (inFlight \ {item}) : i.fp # item.fp
      OBVIOUS
    <2>3. CASE evaluate(f, item.retryCount + 1, MaxRetries) = "retryable"
      <3> DEFINE new == [item EXCEPT !.retryCount = item.retryCount + 1,
                                     !.wait = calculateDelay(item.retryCount + 1)]
      <3>1. new.fp = item.fp
        BY <2>3, RequeuedItemType DEF TypeOK
      <3>2. queue' = queue \cup {new} /\ queuedFingerprints' = queuedFingerprints
        BY <1>6, <2>3 DEF processItemFails, handleFailure
      <3> HIDE DEF new
      <3> QED
        BY <2>1, <2>2, <3>1, <3>2
    <2>4. CASE evaluate(f, item.retryCount + 1, MaxRetries) # "retryable"
      <3>1. queue' = queue /\ queuedFingerprints' = queuedFingerprints \ {item.fp}
        BY <1>6, <2>4 DEF processItemFails, handleFailure, release
      <3> QED
        BY <2>1, <2>2, <3>1
    <2> QED
      BY <2>3, <2>4
  <1>7. CASE Tick
    <2>1. /\ queue' = {Aged(i) : i \in queue}
          /\ inFlight' = {Aged(i) : i \in inFlight}
          /\ UNCHANGED <<queuedFingerprints, activeFingerprints>>
      BY <1>7 DEF Tick
    <2>2. \A i \in queue \cup inFlight : Aged(i).fp = i.fp
      BY AgedType DEF TypeOK
    <2>3. FingerprintsOf(queue') = FingerprintsOf(queue)
      BY <2>1, <2>2
    <2>4. FingerprintsOf(inFlight') = FingerprintsOf(inFlight)
      BY <2>1, <2>2
    <2>5. OneItemPerEvent'
      BY <2>1, <2>2
    <2>6. queue' \cap inFlight' = {}
      BY <2>1, <2>2
    <2> QED
      BY <2>1, <2>3, <2>4, <2>5, <2>6
  <1>8. CASE UNCHANGED vars
    BY <1>8 DEF vars
  <1> QED
    BY <1>1, <1>2, <1>3, <1>4, <1>5, <1>6, <1>7, <1>8 DEF Next, processItemSettles

\* No event is ever held twice, processed twice at a time, or remembered
\* without being held, in any interleaving of polls and settling calls.
THEOREM FingerprintsCorrect == Spec => []FingerprintsTracked
  <1>1. Init => FingerprintsTracked
    BY DEF Init, FingerprintsTracked, OneItemPerEvent, FingerprintsOf
  <1> QED
    BY <1>1, FingerprintsStep, TypeCorrect, PTL DEF Spec

(***************************************************************************)
(* Counting                                                                *)
(***************************************************************************)

\* Items for different events are as many as their fingerprints, and finitely
\* many.
LEMMA CountItems ==
  ASSUME NEW S \in SUBSET Item, \A i, j \in S : i.fp = j.fp => i = j
  PROVE  /\ IsFiniteSet(S)
         /\ IsFiniteSet(FingerprintsOf(S))
         /\ Cardinality(S) = Cardinality(FingerprintsOf(S))
  <1> DEFINE f == [i \in S |-> i.fp]
  <1>1. FingerprintsOf(S) \in SUBSET Fingerprints
    BY DEF FingerprintsOf, Item
  <1>2. IsFiniteSet(FingerprintsOf(S))
    BY <1>1, FS_Subset, EventQueueAssumption
  <1>3. f \in Injection(S, FingerprintsOf(S))
    BY DEF Injection, IsInjective, FingerprintsOf
  <1>4. f \in Surjection(S, FingerprintsOf(S))
    BY DEF Surjection, FingerprintsOf
  <1> QED
    BY <1>2, <1>3, <1>4, FS_Injection

\* Started together with the batches still running, the items a call of
\* processNext selects fill at most the free slots.
LEMMA SelectionFits ==
  ASSUME TypeOK, FingerprintsTracked, available > 0,
         NEW selected \in SUBSET due, IsSelection(selected)
  PROVE  Cardinality(inFlight \cup selected) <= MaxConcurrency
  <1>1. due \subseteq queue /\ queue \subseteq Item /\ inFlight \subseteq Item
    BY DEF due, TypeOK
  <1>2. \A i, j \in queue \cup inFlight : i.fp = j.fp => i = j
    BY DEF FingerprintsTracked, OneItemPerEvent
  <1>3. IsFiniteSet(selected) /\ IsFiniteSet(due)
    BY <1>1, <1>2, CountItems
  <1>4. /\ IsFiniteSet(inFlight)
        /\ Cardinality(inFlight) = Cardinality(activeFingerprints)
    BY <1>1, <1>2, CountItems DEF FingerprintsTracked
  <1>5. inFlight \cap selected = {}
    BY <1>1 DEF FingerprintsTracked
  <1>6. Cardinality(inFlight \cup selected) = Cardinality(inFlight) + Cardinality(selected)
    <2>1. Cardinality(inFlight \cap selected) = 0
      BY <1>5, FS_EmptySet
    <2>2. /\ Cardinality(inFlight) \in Nat
          /\ Cardinality(selected) \in Nat
      BY <1>3, <1>4, FS_CardinalityType
    <2>3. Cardinality(inFlight \cup selected)
            = Cardinality(inFlight) + Cardinality(selected) - Cardinality(inFlight \cap selected)
      BY <1>3, <1>4, FS_Union
    <2> QED
      BY <2>1, <2>2, <2>3
  <1>7. /\ Cardinality(selected) \in Nat /\ Cardinality(inFlight) \in Nat
        /\ Cardinality(due) \in Nat
    BY <1>3, <1>4, FS_CardinalityType
  <1>8. Cardinality(selected) <= available
    BY <1>7 DEF IsSelection, available
  <1> QED
    BY <1>4, <1>6, <1>7, <1>8, EventQueueAssumption DEF available

\* ConcurrencyBounded is inductive relative to FingerprintsTracked.
LEMMA ConcurrencyStep ==
  TypeOK /\ FingerprintsTracked /\ ConcurrencyBounded /\ [Next]_vars
    => ConcurrencyBounded'
  <1> SUFFICES ASSUME TypeOK, FingerprintsTracked, ConcurrencyBounded, [Next]_vars
               PROVE  ConcurrencyBounded'
    OBVIOUS
  <1>1. /\ IsFiniteSet(inFlight)
        /\ Cardinality(inFlight) \in Nat
        /\ Cardinality(inFlight) = Cardinality(FingerprintsOf(inFlight))
    BY CountItems, FS_CardinalityType DEF TypeOK, FingerprintsTracked, OneItemPerEvent
  <1>2. CASE processNext
    BY <1>2, SelectionFits DEF processNext, ConcurrencyBounded
  <1>3. ASSUME NEW item \in inFlight, inFlight' = inFlight \ {item}
        PROVE  ConcurrencyBounded'
    <2>1. Cardinality(inFlight \ {item}) = Cardinality(inFlight) - 1
      BY <1>1, FS_RemoveElement
    <2>2. Cardinality(inFlight \ {item}) \in Nat
      BY <1>1, FS_RemoveElement, FS_CardinalityType
    <2> QED
      BY <1>1, <1>3, <2>1, <2>2, EventQueueAssumption DEF ConcurrencyBounded
  <1>4. CASE Tick
    <2>1. TypeOK' /\ FingerprintsTracked'
      BY TypeStep, FingerprintsStep
    <2>2. Cardinality(inFlight') = Cardinality(FingerprintsOf(inFlight'))
      BY <2>1, CountItems DEF TypeOK, FingerprintsTracked, OneItemPerEvent
    <2>3. FingerprintsOf(inFlight') = FingerprintsOf(inFlight)
      BY <1>4, AgedType DEF Tick, FingerprintsOf, TypeOK
    <2> QED
      BY <1>1, <2>2, <2>3 DEF ConcurrencyBounded
  <1>5. CASE UNCHANGED inFlight
    BY <1>5 DEF ConcurrencyBounded
  <1> QED
    BY <1>2, <1>3, <1>4, <1>5
       DEF Next, processItemSettles, processItemSucceeds, processItemFails,
           enqueue, start, stop, vars

\* Overlapping runs of processNext never have more than maxConcurrency events
\* in processing.
THEOREM ConcurrencyCorrect == Spec => []ConcurrencyBounded
  <1>1. Init => ConcurrencyBounded
    BY FS_EmptySet, EventQueueAssumption DEF Init, ConcurrencyBounded
  <1> QED
    BY <1>1, ConcurrencyStep, TypeCorrect, FingerprintsCorrect, PTL DEF Spec

(***************************************************************************)
(* Metrics                                                                 *)
(***************************************************************************)

\* MetricsBalance is inductive relative to FingerprintsTracked: every event
\* that is settled gives up one fingerprint.
LEMMA MetricsStep ==
  TypeOK /\ FingerprintsTracked /\ MetricsBalance /\ [Next]_vars => MetricsBalance'
  <1> SUFFICES ASSUME TypeOK, FingerprintsTracked, MetricsBalance, [Next]_vars
               PROVE  MetricsBalance'
    OBVIOUS
  <1>1. metrics \in Metrics
    BY DEF TypeOK
  <1>2. /\ metrics.totalEnqueued \in Nat /\ metrics.totalProcessed \in Nat
        /\ metrics.totalSucceeded \in Nat /\ metrics.totalFailed \in Nat
        /\ metrics.totalSkippedPermanent \in Nat
    BY <1>1 DEF Metrics
  <1>3. IsFiniteSet(queuedFingerprints) /\ Cardinality(queuedFingerprints) \in Nat
    BY FS_Subset, FS_CardinalityType, EventQueueAssumption DEF TypeOK
  <1>4. ASSUME NEW fp \in Fingerprints, NEW p \in Priority, enqueue(fp, p)
        PROVE  MetricsBalance'
    <2>1. Cardinality(queuedFingerprints') = Cardinality(queuedFingerprints) + 1
      BY <1>3, <1>4, FS_AddElement DEF enqueue, accepts
    <2>2. metrics' = [metrics EXCEPT !.totalEnqueued = metrics.totalEnqueued + 1]
      BY <1>4 DEF enqueue
    <2> DEFINE x == metrics.totalEnqueued + 1
    <2>3. x \in Nat
      BY <1>2
    <2> HIDE DEF x
    <2>4. /\ metrics'.totalEnqueued = x
          /\ metrics'.totalProcessed = metrics.totalProcessed
          /\ metrics'.totalSucceeded = metrics.totalSucceeded
          /\ metrics'.totalFailed = metrics.totalFailed
          /\ metrics'.totalSkippedPermanent = metrics.totalSkippedPermanent
      BY <1>1, <2>2, <2>3, EnqueuedMetrics DEF x
    <2> QED
      BY <1>2, <1>3, <2>1, <2>4 DEF MetricsBalance, x
  <1>5. ASSUME NEW item \in inFlight,
               queuedFingerprints' = queuedFingerprints \ {item.fp}
        PROVE  Cardinality(queuedFingerprints') = Cardinality(queuedFingerprints) - 1
    <2>1. item.fp \in queuedFingerprints
      BY DEF FingerprintsTracked, FingerprintsOf
    <2> QED
      BY <1>3, <1>5, <2>1, FS_RemoveElement
  <1>6. ASSUME NEW item \in inFlight, processItemSucceeds(item)
        PROVE  MetricsBalance'
    <2>1. Cardinality(queuedFingerprints') = Cardinality(queuedFingerprints) - 1
      BY <1>5, <1>6 DEF processItemSucceeds, release
    <2> DEFINE x == metrics.totalProcessed + 1
               y == metrics.totalSucceeded + 1
    <2>2. metrics' = [metrics EXCEPT !.totalProcessed = x, !.totalSucceeded = y]
      BY <1>6 DEF processItemSucceeds
    <2>3. x \in Nat /\ y \in Nat
      BY <1>2
    <2> HIDE DEF x, y
    <2> DEFINE new == [metrics EXCEPT !.totalProcessed = x, !.totalSucceeded = y]
    <2>4. /\ new.totalEnqueued = metrics.totalEnqueued
          /\ new.totalProcessed = x
          /\ new.totalSucceeded = y
          /\ new.totalFailed = metrics.totalFailed
          /\ new.totalSkippedPermanent = metrics.totalSkippedPermanent
      BY <1>1, <2>3 DEF Metrics
    <2> HIDE DEF new
    <2>5. metrics' = new
      BY <2>2 DEF new
    <2> QED
      BY <1>2, <1>3, <2>1, <2>4, <2>5 DEF MetricsBalance, x, y
  <1>7. ASSUME NEW item \in inFlight, NEW f \in RetryFailureType,
               processItemFails(item, f),
               evaluate(f, item.retryCount + 1, MaxRetries) # "retryable"
        PROVE  MetricsBalance'
    <2>1. Cardinality(queuedFingerprints') = Cardinality(queuedFingerprints) - 1
      BY <1>5, <1>7 DEF processItemFails, handleFailure, release
    <2> DEFINE x == metrics.totalProcessed + 1
               y == metrics.totalFailed + 1
               z == IF evaluate(f, item.retryCount + 1, MaxRetries) = "permanent"
                    THEN metrics.totalSkippedPermanent + 1
                    ELSE metrics.totalSkippedPermanent
    <2>2. metrics' = [metrics EXCEPT !.totalProcessed = x, !.totalFailed = y,
                                     !.totalSkippedPermanent = z]
      BY <1>7 DEF processItemFails, handleFailure
    <2>3. x \in Nat /\ y \in Nat /\ z \in Nat /\ z <= metrics.totalSkippedPermanent + 1
      BY <1>2
    <2> HIDE DEF x, y, z
    <2> DEFINE new == [metrics EXCEPT !.totalProcessed = x, !.totalFailed = y,
                                      !.totalSkippedPermanent = z]
    <2>4. /\ new.totalEnqueued = metrics.totalEnqueued
          /\ new.totalProcessed = x
          /\ new.totalSucceeded = metrics.totalSucceeded
          /\ new.totalFailed = y
          /\ new.totalSkippedPermanent = z
      BY <1>1, <2>3 DEF Metrics
    <2> HIDE DEF new
    <2>5. metrics' = new
      BY <2>2 DEF new
    <2> QED
      BY <1>2, <1>3, <2>1, <2>3, <2>4, <2>5 DEF MetricsBalance, x, y
  <1>8. ASSUME NEW item \in inFlight, NEW f \in RetryFailureType,
               processItemFails(item, f),
               evaluate(f, item.retryCount + 1, MaxRetries) = "retryable"
        PROVE  MetricsBalance'
    BY <1>8 DEF processItemFails, handleFailure, MetricsBalance
  <1>9. CASE UNCHANGED <<queuedFingerprints, metrics>>
    BY <1>9 DEF MetricsBalance
  <1> QED
    BY <1>4, <1>6, <1>7, <1>8, <1>9
       DEF Next, processItemSettles, start, stop, processNext, Tick, vars

\* getMetrics() always accounts for every accepted event exactly once.
THEOREM MetricsCorrect == Spec => []MetricsBalance
  <1>1. Init => MetricsBalance
    BY FS_EmptySet DEF Init, MetricsBalance
  <1> QED
    BY <1>1, MetricsStep, TypeCorrect, FingerprintsCorrect, PTL DEF Spec

(***************************************************************************)
(* Overtaking                                                              *)
(***************************************************************************)

\* Integer division as the provers need it.
LEMMA AgeBonus ==
  ASSUME NEW a \in Nat
  PROVE  /\ a \div AgeUnit \in Nat
         /\ (a \div AgeUnit) * AgeUnit <= a
         /\ a < (a \div AgeUnit + 1) * AgeUnit
  BY EventQueueAssumption, Z3

\* The arithmetic of the weighted priorities: an item that is not sorted
\* before another one is older than it by less than the bonus that separates
\* their priorities.
LEMMA NotSortedBefore ==
  ASSUME NEW s \in Item, NEW d \in Item, ~SortedBefore(d, s)
  PROVE  /\ d.age - s.age < (Score(s.priority) - Score(d.priority) + 1) * AgeUnit
         /\ s.priority = d.priority => d.age <= s.age
  <1>1. /\ s.age \in Nat /\ d.age \in Nat
        /\ Score(s.priority) \in Nat /\ Score(d.priority) \in Nat
    BY EventQueueAssumption DEF Item, Score, Priority
  <1> DEFINE sb == s.age \div AgeUnit
             db == d.age \div AgeUnit
             gap == Score(s.priority) - Score(d.priority)
  <1>2. /\ getWeightedPriority(s) = Score(s.priority) + sb
        /\ getWeightedPriority(d) = Score(d.priority) + db
    <2>1. sb \in Nat /\ db \in Nat
      BY <1>1, AgeBonus
    <2> QED
      BY <1>1, <2>1, EventQueueAssumption DEF getWeightedPriority, Score, Item, Priority
  <1>3. /\ sb \in Nat /\ sb * AgeUnit <= s.age /\ s.age < (sb + 1) * AgeUnit
        /\ db \in Nat /\ db * AgeUnit <= d.age /\ d.age < (db + 1) * AgeUnit
    BY <1>1, AgeBonus
  <1>4. gap \in Int /\ AgeUnit \in Nat \ {0}
    BY <1>1, EventQueueAssumption
  <1> HIDE DEF sb, db
  <1>5. db <= sb + gap
    BY <1>1, <1>2, <1>3 DEF SortedBefore
  <1>6. d.age - s.age < (gap + 1) * AgeUnit
    <2> HIDE DEF gap
    <2>1. (db + 1) * AgeUnit <= (sb + gap + 1) * AgeUnit
      BY <1>3, <1>4, <1>5
    <2>2. (sb + gap + 1) * AgeUnit = sb * AgeUnit + (gap + 1) * AgeUnit
      BY <1>3, <1>4
    <2>3. sb * AgeUnit \in Int /\ (gap + 1) * AgeUnit \in Int /\ (db + 1) * AgeUnit \in Int
      BY <1>3, <1>4
    <2> QED
      BY <1>1, <1>3, <2>1, <2>2, <2>3
  <1>7. s.priority = d.priority => d.age <= s.age
    <2> SUFFICES ASSUME s.priority = d.priority, d.age > s.age PROVE FALSE
      BY <1>1
    <2>1. db <= sb
      BY <1>1, <1>3, <1>5
    <2>2. db # sb
      BY <1>1, <1>2, <1>3 DEF SortedBefore
    <2>3. db + 1 <= sb
      BY <1>3, <2>1, <2>2
    <2>4. (db + 1) * AgeUnit <= sb * AgeUnit
      BY <1>3, <1>4, <2>3
    <2>5. (db + 1) * AgeUnit \in Int /\ sb * AgeUnit \in Int
      BY <1>3, <1>4
    <2> QED
      BY <1>1, <1>3, <2>4, <2>5
  <1> QED
    BY <1>6, <1>7

\* A due event is overtaken only within the bounded head start that the
\* weights give to higher priorities, for every choice of weights.
THEOREM OvertakingCorrect == Spec => OvertakingBounded
  <1> DEFINE Bounded ==
        \A s \in queue \cap inFlight', d \in due \cap queue' :
           /\ d.age - s.age < (Score(s.priority) - Score(d.priority) + 1) * AgeUnit
           /\ s.priority = d.priority => d.age <= s.age
  <1>1. ASSUME TypeOK, FingerprintsTracked, FingerprintsTracked', [Next]_vars
        PROVE  [Bounded]_vars
    <2> SUFFICES ASSUME NEW s \in queue \cap inFlight', NEW d \in due \cap queue'
                 PROVE  /\ d.age - s.age < (Score(s.priority) - Score(d.priority) + 1) * AgeUnit
                        /\ s.priority = d.priority => d.age <= s.age
      OBVIOUS
    <2>1. CASE processNext
      <3>1. PICK selected \in SUBSET due :
              /\ IsSelection(selected)
              /\ queue' = queue \ selected
              /\ inFlight' = inFlight \cup selected
        BY <1>1, <2>1, SelectionRemoved DEF processNext
      <3>2. s \in selected /\ d \in due \ selected
        BY <1>1, <3>1 DEF FingerprintsTracked
      <3>3. ~SortedBefore(d, s)
        BY <3>1, <3>2 DEF IsSelection
      <3>4. s \in Item /\ d \in Item
        BY <1>1 DEF TypeOK, due
      <3> QED
        BY <3>3, <3>4, NotSortedBefore
    <2>2. CASE inFlight' \subseteq inFlight
      BY <1>1, <2>2 DEF FingerprintsTracked
    <2>3. CASE Tick
      <3>1. PICK i \in inFlight : s = Aged(i)
        BY <2>3 DEF Tick
      <3>2. s.fp = i.fp
        BY <1>1, <3>1, AgedType DEF TypeOK
      <3>3. s = i
        BY <1>1, <3>2 DEF FingerprintsTracked, OneItemPerEvent
      <3> QED
        BY <1>1, <3>3 DEF FingerprintsTracked
    <2> QED
      BY <1>1, <2>1, <2>2, <2>3
         DEF Next, processItemSettles, processItemSucceeds, processItemFails,
             enqueue, start, stop, vars
  <1> QED
    BY <1>1, TypeCorrect, FingerprintsCorrect, PTL DEF Spec, OvertakingBounded

(***************************************************************************)
(* Refinement of WorkPool                                                  *)
(***************************************************************************)

\* When no two items are for one event, the attempts of an event are those of
\* its item.
LEMMA AttemptsOfItem ==
  ASSUME NEW q, NEW r, \A i, j \in q \cup r : i.fp = j.fp => i = j, q \cap r = {}
  PROVE  /\ \A i \in r : AttemptsOf(q, r, i.fp) = i.retryCount + 1
         /\ \A i \in q : AttemptsOf(q, r, i.fp) = i.retryCount
         /\ \A fp : fp \notin FingerprintsOf(q) \cup FingerprintsOf(r) => AttemptsOf(q, r, fp) = 0
  <1>1. ASSUME NEW i \in r PROVE AttemptsOf(q, r, i.fp) = i.retryCount + 1
    <2>1. (CHOOSE j \in r : j.fp = i.fp) = i
      OBVIOUS
    <2> QED
      BY <2>1 DEF AttemptsOf
  <1>2. ASSUME NEW i \in q PROVE AttemptsOf(q, r, i.fp) = i.retryCount
    <2>1. (CHOOSE j \in q : j.fp = i.fp) = i
      OBVIOUS
    <2>2. ~ \E j \in r : j.fp = i.fp
      OBVIOUS
    <2> QED
      BY <2>1, <2>2 DEF AttemptsOf
  <1>3. ASSUME NEW fp, fp \notin FingerprintsOf(q) \cup FingerprintsOf(r)
        PROVE  AttemptsOf(q, r, fp) = 0
    BY <1>3 DEF AttemptsOf, FingerprintsOf
  <1> QED
    BY <1>1, <1>2, <1>3

\* Every step of the queue is a step of WorkPool, or leaves the pool as it is.
LEMMA PoolStep ==
  ASSUME TypeOK, TypeOK', FingerprintsTracked, FingerprintsTracked',
         ConcurrencyBounded', [Next]_vars
  PROVE  [Pool!PoolNext]_(Pool!poolVars)
  <1> USE DEF Pool!poolVars
  <1>a. /\ queue \in SUBSET Item /\ inFlight \in SUBSET Item
        /\ \A i, j \in queue \cup inFlight : i.fp = j.fp => i = j
        /\ queue \cap inFlight = {}
        /\ activeFingerprints = FingerprintsOf(inFlight)
        /\ queuedFingerprints = FingerprintsOf(queue) \cup FingerprintsOf(inFlight)
        /\ activeFingerprints \subseteq Fingerprints
    BY DEF TypeOK, FingerprintsTracked, OneItemPerEvent
  <1>b. /\ queue' \in SUBSET Item /\ inFlight' \in SUBSET Item
        /\ \A i, j \in queue' \cup inFlight' : i.fp = j.fp => i = j
        /\ queue' \cap inFlight' = {}
        /\ activeFingerprints' = FingerprintsOf(inFlight')
        /\ queuedFingerprints' = FingerprintsOf(queue') \cup FingerprintsOf(inFlight')
    BY DEF TypeOK, FingerprintsTracked, OneItemPerEvent
  <1>c. /\ \A i \in inFlight : AttemptsOf(queue, inFlight, i.fp) = i.retryCount + 1
        /\ \A i \in queue : AttemptsOf(queue, inFlight, i.fp) = i.retryCount
        /\ \A fp : fp \notin queuedFingerprints => AttemptsOf(queue, inFlight, fp) = 0
    BY <1>a, AttemptsOfItem
  <1>d. /\ \A i \in inFlight' : AttemptsOf(queue', inFlight', i.fp) = i.retryCount + 1
        /\ \A i \in queue' : AttemptsOf(queue', inFlight', i.fp) = i.retryCount
        /\ \A fp : fp \notin queuedFingerprints' => AttemptsOf(queue', inFlight', fp) = 0
    BY <1>b, AttemptsOfItem
  <1>e. /\ PoolStatus = [fp \in Fingerprints |->
                           IF fp \in activeFingerprints THEN "running"
                           ELSE IF fp \in queuedFingerprints THEN "pending" ELSE "idle"]
        /\ PoolAttempts = [fp \in Fingerprints |-> AttemptsOf(queue, inFlight, fp)]
        /\ PoolStatus' = [fp \in Fingerprints |->
                           IF fp \in activeFingerprints' THEN "running"
                           ELSE IF fp \in queuedFingerprints' THEN "pending" ELSE "idle"]
        /\ PoolAttempts' = [fp \in Fingerprints |-> AttemptsOf(queue', inFlight', fp)]
    BY DEF PoolStatus, PoolAttempts
  <1>f. \A i \in Item : i.fp \in Fingerprints /\ i.retryCount \in Nat /\ i.retryCount < Budget
    BY BudgetType DEF Item
  <1>1. ASSUME NEW fp \in Fingerprints, NEW p \in Priority, enqueue(fp, p)
        PROVE  Pool!Accept(fp)
    <2> DEFINE new == [fp |-> fp, retryCount |-> 0, wait |-> calculateDelay(0),
                       priority |-> p, age |-> 0]
    <2>1. /\ fp \notin queuedFingerprints
          /\ queuedFingerprints' = queuedFingerprints \cup {fp}
          /\ queue' = queue \cup {new}
          /\ UNCHANGED <<inFlight, activeFingerprints>>
      BY <1>1 DEF enqueue, accepts
    <2>2. new.fp = fp /\ new.retryCount = 0
      OBVIOUS
    <2> HIDE DEF new
    <2>3. fp \notin activeFingerprints
      BY <1>a, <2>1
    <2>4. PoolStatus[fp] = "idle" /\ PoolStatus' = [PoolStatus EXCEPT ![fp] = "pending"]
      BY <1>e, <2>1, <2>3
    <2>5. ASSUME NEW g \in Fingerprints
          PROVE  AttemptsOf(queue', inFlight', g) = AttemptsOf(queue, inFlight, g)
      <3>1. CASE g = fp
        BY <1>c, <1>d, <2>1, <2>2, <3>1
      <3>2. CASE g # fp /\ g \in queuedFingerprints
        <4>1. PICK i \in queue \cup inFlight : i.fp = g
          BY <1>a, <3>2 DEF FingerprintsOf
        <4> QED
          BY <1>c, <1>d, <2>1, <4>1
      <3>3. CASE g # fp /\ g \notin queuedFingerprints
        BY <1>c, <1>d, <2>1, <3>3
      <3> QED
        BY <3>1, <3>2, <3>3
    <2>6. PoolAttempts' = PoolAttempts
      BY <1>e, <2>5
    <2> QED
      BY <2>4, <2>6 DEF Pool!Accept
  <1>2. CASE start \/ stop \/ UNCHANGED vars
    BY <1>2 DEF start, stop, vars, PoolStatus, PoolAttempts
  <1>3. CASE processNext
    <2>1. PICK selected \in SUBSET due :
            /\ queue' = queue \ selected
            /\ inFlight' = inFlight \cup selected
            /\ activeFingerprints' = activeFingerprints \cup FingerprintsOf(selected)
      BY <1>3, SelectionRemoved DEF processNext
    <2> DEFINE S == FingerprintsOf(selected)
    <2>2. /\ queuedFingerprints' = queuedFingerprints
          /\ selected \subseteq queue
          /\ \A i \in selected : i.fp \notin activeFingerprints
      BY <1>3 DEF processNext, due
    <2>3. S \in SUBSET Fingerprints
      BY <1>a, <1>f, <2>2 DEF FingerprintsOf
    <2>4. \A g \in S : PoolStatus[g] = "pending" /\ PoolAttempts[g] < Budget
      BY <1>a, <1>c, <1>e, <1>f, <2>2, <2>3 DEF FingerprintsOf
    <2>5. PoolStatus' = [g \in Fingerprints |-> IF g \in S THEN "running" ELSE PoolStatus[g]]
      BY <1>e, <2>1, <2>2
    <2>6. ASSUME NEW g \in Fingerprints
          PROVE  AttemptsOf(queue', inFlight', g)
                   = IF g \in S THEN AttemptsOf(queue, inFlight, g) + 1
                                ELSE AttemptsOf(queue, inFlight, g)
      <3>1. CASE g \in S
        <4>1. PICK i \in selected : i.fp = g
          BY <3>1 DEF FingerprintsOf
        <4>2. i \in queue /\ i \in inFlight'
          BY <2>1, <2>2
        <4> QED
          BY <1>c, <1>d, <3>1, <4>1, <4>2
      <3>2. CASE g \notin S /\ g \in queuedFingerprints
        <4>1. PICK i \in queue \cup inFlight : i.fp = g
          BY <1>a, <3>2 DEF FingerprintsOf
        <4>2. i \notin selected
          BY <3>2, <4>1 DEF FingerprintsOf
        <4> QED
          BY <1>c, <1>d, <2>1, <3>2, <4>1, <4>2
      <3>3. CASE g \notin S /\ g \notin queuedFingerprints
        BY <1>c, <1>d, <2>2, <3>3
      <3> QED
        BY <3>1, <3>2, <3>3
    <2>7. PoolAttempts' = [g \in Fingerprints |-> IF g \in S THEN PoolAttempts[g] + 1
                                                              ELSE PoolAttempts[g]]
      BY <1>e, <2>6
    <2>8. Pool!Running = activeFingerprints
      BY <1>a, <1>e DEF Pool!Running
    <2>9. Cardinality(Pool!Running \cup S) <= MaxConcurrency
      <3>1. Cardinality(inFlight') = Cardinality(activeFingerprints')
        BY <1>b, CountItems
      <3> QED
        BY <2>1, <2>8, <3>1 DEF ConcurrencyBounded
    <2> HIDE DEF S
    <2>11. Pool!Cardinality(Pool!Running \cup S) = Cardinality(Pool!Running \cup S)
      BY DEF Pool!Cardinality, Cardinality
    <2>10. Pool!Begin(S)
      BY <2>4, <2>5, <2>7, <2>9, <2>11, Zenon DEF Pool!Begin
    <2> QED
      BY <2>3, <2>10 DEF Pool!PoolNext
  <1>4. ASSUME NEW item \in inFlight,
               queue' = queue, inFlight' = inFlight \ {item},
               queuedFingerprints' = queuedFingerprints \ {item.fp},
               activeFingerprints' = activeFingerprints \ {item.fp}
        PROVE  Pool!Settle(item.fp)
    <2>1. item.fp \in Fingerprints /\ item.fp \in activeFingerprints
      BY <1>a, <1>f DEF FingerprintsOf
    <2>2. PoolStatus[item.fp] = "running" /\ PoolStatus' = [PoolStatus EXCEPT ![item.fp] = "idle"]
      BY <1>4, <1>e, <2>1
    <2>3. ASSUME NEW g \in Fingerprints
          PROVE  AttemptsOf(queue', inFlight', g)
                   = IF g = item.fp THEN 0 ELSE AttemptsOf(queue, inFlight, g)
      <3>1. CASE g = item.fp
        BY <1>4, <1>d, <3>1
      <3>2. CASE g # item.fp /\ g \in queuedFingerprints
        <4>1. PICK i \in queue \cup inFlight : i.fp = g
          BY <1>a, <3>2 DEF FingerprintsOf
        <4>2. i # item
          BY <3>2, <4>1
        <4> QED
          BY <1>4, <1>c, <1>d, <3>2, <4>1, <4>2
      <3>3. CASE g # item.fp /\ g \notin queuedFingerprints
        BY <1>4, <1>c, <1>d, <3>3
      <3> QED
        BY <3>1, <3>2, <3>3
    <2>4. PoolAttempts' = [PoolAttempts EXCEPT ![item.fp] = 0]
      BY <1>e, <2>1, <2>3
    <2> QED
      BY <2>2, <2>4 DEF Pool!Settle
  <1>5. ASSUME NEW item \in inFlight, NEW f \in RetryFailureType,
               processItemFails(item, f),
               evaluate(f, item.retryCount + 1, MaxRetries) = "retryable"
        PROVE  Pool!Defer(item.fp)
    <2> DEFINE new == [item EXCEPT !.retryCount = item.retryCount + 1,
                                   !.wait = calculateDelay(item.retryCount + 1)]
    <2>1. /\ queue' = queue \cup {new}
          /\ inFlight' = inFlight \ {item}
          /\ queuedFingerprints' = queuedFingerprints
          /\ activeFingerprints' = activeFingerprints \ {item.fp}
      BY <1>5 DEF processItemFails, handleFailure
    <2>2. /\ new.fp = item.fp
          /\ new.retryCount = item.retryCount + 1
          /\ item.retryCount + 1 < Budget
      BY <1>5, <1>a, RequeuedItemType
    <2> HIDE DEF new
    <2>3. /\ item.fp \in Fingerprints
          /\ item.fp \in activeFingerprints
          /\ item.fp \in queuedFingerprints
      BY <1>a, <1>f DEF FingerprintsOf
    <2>4. PoolStatus[item.fp] = "running" /\ PoolStatus' = [PoolStatus EXCEPT ![item.fp] = "pending"]
      BY <1>e, <2>1, <2>3
    <2>5. ASSUME NEW g \in Fingerprints
          PROVE  AttemptsOf(queue', inFlight', g) = AttemptsOf(queue, inFlight, g)
      <3>1. CASE g = item.fp
        BY <1>c, <1>d, <2>1, <2>2, <3>1
      <3>2. CASE g # item.fp /\ g \in queuedFingerprints
        <4>1. PICK i \in queue \cup inFlight : i.fp = g
          BY <1>a, <3>2 DEF FingerprintsOf
        <4>2. i # item
          BY <3>2, <4>1
        <4> QED
          BY <1>c, <1>d, <2>1, <4>1, <4>2
      <3>3. CASE g # item.fp /\ g \notin queuedFingerprints
        BY <1>c, <1>d, <2>1, <3>3
      <3> QED
        BY <3>1, <3>2, <3>3
    <2>6. PoolAttempts' = PoolAttempts /\ PoolAttempts[item.fp] < Budget
      BY <1>c, <1>e, <2>2, <2>3, <2>5
    <2> QED
      BY <2>4, <2>6 DEF Pool!Defer
  <1>6. CASE Tick
    <2>1. /\ queue' = {Aged(i) : i \in queue}
          /\ inFlight' = {Aged(i) : i \in inFlight}
          /\ UNCHANGED <<queuedFingerprints, activeFingerprints>>
      BY <1>6 DEF Tick
    <2>2. \A i \in queue \cup inFlight : Aged(i).fp = i.fp /\ Aged(i).retryCount = i.retryCount
      BY <1>a, AgedType
    <2>3. ASSUME NEW g \in Fingerprints
          PROVE  AttemptsOf(queue', inFlight', g) = AttemptsOf(queue, inFlight, g)
      <3>1. CASE g \in FingerprintsOf(inFlight)
        <4>1. PICK i \in inFlight : i.fp = g
          BY <3>1 DEF FingerprintsOf
        <4>2. Aged(i) \in inFlight'
          BY <2>1
        <4> QED
          BY <1>c, <1>d, <2>2, <4>1, <4>2
      <3>2. CASE g \in FingerprintsOf(queue)
        <4>1. PICK i \in queue : i.fp = g
          BY <3>2 DEF FingerprintsOf
        <4>2. Aged(i) \in queue'
          BY <2>1
        <4> QED
          BY <1>c, <1>d, <2>2, <4>1, <4>2
      <3>3. CASE g \notin queuedFingerprints
        BY <1>c, <1>d, <2>1, <3>3
      <3> QED
        BY <1>a, <3>1, <3>2, <3>3
    <2>4. PoolAttempts' = PoolAttempts /\ PoolStatus' = PoolStatus
      BY <1>e, <2>1, <2>3
    <2> QED
      BY <2>4
  <1>7. ASSUME NEW item \in inFlight, processItemSucceeds(item)
        PROVE  Pool!Settle(item.fp)
    BY <1>4, <1>7 DEF processItemSucceeds, release
  <1>8. ASSUME NEW item \in inFlight, NEW f \in RetryFailureType,
               processItemFails(item, f),
               evaluate(f, item.retryCount + 1, MaxRetries) # "retryable"
        PROVE  Pool!Settle(item.fp)
    BY <1>4, <1>8 DEF processItemFails, handleFailure, release
  <1>9. \A item \in inFlight : item.fp \in Fingerprints
    BY <1>a, <1>f
  <1> QED
    BY <1>1, <1>2, <1>3, <1>5, <1>6, <1>7, <1>8, <1>9
       DEF Next, processItemSettles, Pool!PoolNext

\* The queue implements WorkPool for every number of events, slots and
\* attempts.
THEOREM Refinement == Spec => ImplementsWorkPool
  <1>1. Init => Pool!PoolInit
    BY DEF Init, Pool!PoolInit, PoolStatus, PoolAttempts, AttemptsOf
  <1>2. TypeOK /\ TypeOK' /\ FingerprintsTracked /\ FingerprintsTracked'
        /\ ConcurrencyBounded' /\ [Next]_vars => [Pool!PoolNext]_(Pool!poolVars)
    BY PoolStep
  <1> QED
    BY <1>1, <1>2, TypeCorrect, FingerprintsCorrect, ConcurrencyCorrect, PTL
       DEF Spec, ImplementsWorkPool, Pool!PoolSpec
=============================================================================
