-------------------------- MODULE RetryQueueProofs --------------------------
(***************************************************************************)
(* Proofs about RetryQueue for every set of notifications, every attempt   *)
(* budget, backoff curve and weighting of priorities, and any number of    *)
(* overlapping batches.                                                    *)
(***************************************************************************)
EXTENDS RetryQueue, FiniteSetTheorems, SequenceTheorems, TLAPS

(***************************************************************************)
(* The attempt budget and the delays                                       *)
(***************************************************************************)

\* resolveMaxAttempts never grants less than one attempt.
LEMMA BudgetType == Budget \in Nat \ {0}
  BY RetryPolicyAssumption, RetryQueueAssumption
     DEF Budget, resolveMaxAttempts, AtLeastOne

\* A failed attempt is followed by another one only while attempts remain.
LEMMA RetryableHasBudget ==
  ASSUME NEW attempt \in Nat, NEW f,
         evaluate(f, attempt, MaxRetries) = "retryable"
  PROVE  attempt < Budget
  BY BudgetType DEF evaluate, Budget

\* With or without jitter, a delay is a whole number of ticks.
LEMMA DelayType ==
  ASSUME NEW n \in 0..Budget, NEW d \in calculateBackoffDelay(n)
  PROVE  d \in Nat
  <1>1. BaseDelay(n) \in Nat
    BY BackoffAssumption
  <1> DEFINE base == BaseDelay(n)
  <1>2. d \in IF Jitter
              THEN {x \in 0..(2 * base) : 3 * base <= 4 * x /\ 4 * (x - 1) < 5 * base}
              ELSE {base}
    BY DEF calculateBackoffDelay
  <1> HIDE DEF base
  <1>3. base \in Nat => d \in Nat
    BY <1>2
  <1> QED
    BY <1>1, <1>3 DEF base

(***************************************************************************)
(* What the operators on items return                                      *)
(***************************************************************************)

LEMMA NewItemType ==
  ASSUME NEW fp \in Fingerprints, NEW p \in Priority, NEW d \in calculateBackoffDelay(0)
  PROVE  [fp |-> fp, retryCount |-> 0, wait |-> d, priority |-> p, age |-> 0] \in Item
  <1>1. d \in Nat
    BY DelayType, BudgetType
  <1> QED
    BY <1>1, BudgetType, RetryQueueAssumption DEF Item

\* Ageing an item moves its two clocks and nothing else.
LEMMA OlderItem ==
  ASSUME NEW item \in Item, NEW w \in Nat, NEW a \in 0..AgeCap
  PROVE  /\ [item EXCEPT !.wait = w, !.age = a] \in Item
         /\ [item EXCEPT !.wait = w, !.age = a].fp = item.fp
         /\ [item EXCEPT !.wait = w, !.age = a].retryCount = item.retryCount
         /\ [item EXCEPT !.wait = w, !.age = a].priority = item.priority
         /\ [item EXCEPT !.wait = w, !.age = a].age = a
  BY DEF Item

LEMMA ItemFields ==
  ASSUME NEW item \in Item
  PROVE  /\ item.fp \in Fingerprints /\ item.retryCount \in Nat /\ item.retryCount < Budget
         /\ item.wait \in Nat /\ item.priority \in Priority
         /\ item.age \in Nat /\ item.age <= AgeCap
  BY BudgetType, RetryQueueAssumption DEF Item

\* An item that retryItem puts back is an Item: it has attempts left.
LEMMA RequeuedItemType ==
  ASSUME NEW item \in Item, NEW f,
         evaluate(f, item.retryCount + 1, MaxRetries) = "retryable",
         NEW d \in calculateBackoffDelay(item.retryCount + 1)
  PROVE  LET new == [item EXCEPT !.retryCount = item.retryCount + 1, !.wait = d]
         IN  /\ new \in Item
             /\ new.fp = item.fp
             /\ new.retryCount = item.retryCount + 1
             /\ item.retryCount + 1 < Budget
  <1> DEFINE n == item.retryCount + 1
  <1>1. n \in Nat /\ n < Budget
    BY ItemFields, RetryableHasBudget
  <1>2. n \in 0..(Budget - 1) /\ n \in 0..Budget
    BY <1>1, BudgetType
  <1>3. d \in calculateBackoffDelay(n)
    OBVIOUS
  <1> HIDE DEF n
  <1>4. d \in Nat
    BY <1>2, <1>3, DelayType
  <1>5. /\ [item EXCEPT !.retryCount = n, !.wait = d] \in Item
        /\ [item EXCEPT !.retryCount = n, !.wait = d].fp = item.fp
        /\ [item EXCEPT !.retryCount = n, !.wait = d].retryCount = n
    <2>1. n \in 0..(Budget - 1)
      BY <1>2
    <2> QED
      BY <2>1, <1>4 DEF Item
  <1> QED
    BY <1>1, <1>5 DEF n

\* Time changes neither the notification nor the attempts of an item, and it
\* keeps the order of ages.
LEMMA AgedType ==
  ASSUME NEW item \in Item
  PROVE  /\ Aged(item) \in Item
         /\ Aged(item).fp = item.fp
         /\ Aged(item).retryCount = item.retryCount
         /\ Aged(item).priority = item.priority
         /\ Aged(item).age = IF item.age < AgeCap THEN item.age + 1 ELSE AgeCap
  <1> DEFINE w == IF item.wait > 0 THEN item.wait - 1 ELSE 0
             a == IF item.age < AgeCap THEN item.age + 1 ELSE AgeCap
  <1>1. w \in Nat
    BY ItemFields
  <1>2. a \in 0..AgeCap
    BY ItemFields, RetryQueueAssumption
  <1>3. Aged(item) = [item EXCEPT !.wait = w, !.age = a]
    BY DEF Aged
  <1> HIDE DEF w, a
  <1>4. /\ [item EXCEPT !.wait = w, !.age = a] \in Item
        /\ [item EXCEPT !.wait = w, !.age = a].fp = item.fp
        /\ [item EXCEPT !.wait = w, !.age = a].retryCount = item.retryCount
        /\ [item EXCEPT !.wait = w, !.age = a].priority = item.priority
        /\ [item EXCEPT !.wait = w, !.age = a].age = a
    BY <1>1, <1>2, OlderItem
  <1> QED
    BY <1>3, <1>4 DEF a

(***************************************************************************)
(* What the updates of the metrics return                                  *)
(***************************************************************************)

LEMMA EnqueuedMetrics ==
  ASSUME NEW m \in Metrics
  PROVE  [m EXCEPT !.totalEnqueued = @ + 1] \in Metrics
  <1> DEFINE x == m.totalEnqueued + 1
  <1>1. x \in Nat
    BY DEF Metrics
  <1> HIDE DEF x
  <1>2. [m EXCEPT !.totalEnqueued = x] \in Metrics
    BY <1>1 DEF Metrics
  <1> QED
    BY <1>2 DEF x

LEMMA SucceededMetrics ==
  ASSUME NEW m \in Metrics
  PROVE  [m EXCEPT !.totalProcessed = @ + 1, !.totalSucceeded = @ + 1] \in Metrics
  <1> DEFINE x == m.totalProcessed + 1
             y == m.totalSucceeded + 1
  <1>1. x \in Nat /\ y \in Nat
    BY DEF Metrics
  <1> HIDE DEF x, y
  <1>2. [m EXCEPT !.totalProcessed = x, !.totalSucceeded = y] \in Metrics
    BY <1>1 DEF Metrics
  <1> QED
    BY <1>2 DEF x, y

LEMMA GivenUpMetrics ==
  ASSUME NEW m \in Metrics, NEW z \in Nat
  PROVE  [m EXCEPT !.totalProcessed = @ + 1, !.totalFailed = @ + 1,
                   !.totalSkippedPermanent = z] \in Metrics
  <1> DEFINE x == m.totalProcessed + 1
             y == m.totalFailed + 1
  <1>1. x \in Nat /\ y \in Nat
    BY DEF Metrics
  <1> HIDE DEF x, y
  <1>2. [m EXCEPT !.totalProcessed = x, !.totalFailed = y, !.totalSkippedPermanent = z] \in Metrics
    BY <1>1 DEF Metrics
  <1> QED
    BY <1>2 DEF x, y

(***************************************************************************)
(* What the operators on batches return                                    *)
(***************************************************************************)

Batch == {b \in Seq(Item) : b # <<>>}

\* The rest of a batch holds its items from the second on.
LEMMA TailOfBatch ==
  ASSUME NEW b \in Batch
  PROVE  /\ Head(b) = b[1] /\ Head(b) \in Item /\ 1 \in DOMAIN b /\ Len(b) \in Nat \ {0}
         /\ Len(b) > 1 => /\ Tail(b) \in Batch
                          /\ \A n \in DOMAIN Tail(b) : n + 1 \in DOMAIN b /\ Tail(b)[n] = b[n + 1]
                          /\ \A n \in DOMAIN b : n # 1 => n - 1 \in DOMAIN Tail(b)
         /\ Len(b) <= 1 => DOMAIN b = {1}
  <1>1. Len(b) \in Nat \ {0} /\ DOMAIN b = 1..Len(b)
    BY EmptySeq, LenProperties DEF Batch
  <1>2. /\ Head(b) \in Item /\ Tail(b) \in Seq(Item) /\ Len(Tail(b)) = Len(b) - 1
        /\ \A n \in 1..Len(Tail(b)) : Tail(b)[n] = b[n + 1]
    BY HeadTailProperties DEF Batch
  <1>3. Len(b) > 1 => Tail(b) # <<>>
    BY <1>1, <1>2, EmptySeq
  <1>4. DOMAIN Tail(b) = 1..Len(Tail(b))
    BY <1>2, LenProperties
  <1> QED
    BY <1>1, <1>2, <1>3, <1>4 DEF Batch

AgedBatch(b) == [n \in DOMAIN b |-> Aged(b[n])]

LEMMA AgedBatchType ==
  ASSUME NEW b \in Batch
  PROVE  /\ AgedBatch(b) \in Batch /\ DOMAIN AgedBatch(b) = DOMAIN b
         /\ \A n \in DOMAIN b : b[n] \in Item /\ AgedBatch(b)[n] = Aged(b[n])
  <1>1. Len(b) \in Nat /\ DOMAIN b = 1..Len(b) /\ b \in [1..Len(b) -> Item]
    BY LenProperties DEF Batch
  <1>2. \A n \in DOMAIN b : b[n] \in Item
    BY <1>1
  <1>3. AgedBatch(b) \in [1..Len(b) -> Item]
    BY <1>1, <1>2, AgedType DEF AgedBatch
  <1>4. AgedBatch(b) \in Seq(Item)
    BY <1>1, <1>3, SeqDef
  <1>5. 1 \in DOMAIN b
    BY TailOfBatch
  <1>6. AgedBatch(b) # <<>>
    BY <1>5, <1>1, <1>3
  <1> QED
    BY <1>2, <1>4, <1>6 DEF Batch, AgedBatch

\* The due items in the order of sort(): every one of them at one position.
LEMMA SortingIsBatch ==
  ASSUME queue \subseteq Item, IsFiniteSet(queue), due # {}, NEW s \in Sortings
  PROVE  /\ s \in Batch /\ ItemsOf(s) = due
         /\ \A m, n \in DOMAIN s : s[m] = s[n] => m = n
         /\ \A m, n \in DOMAIN s : m < n => ~SortedBefore(s[n], s[m])
  <1> DEFINE k == Cardinality(due)
  <1>1. due \in SUBSET queue
    BY DEF due
  <1>2. IsFiniteSet(due) /\ k \in Nat
    BY <1>1, FS_Subset, FS_CardinalityType
  <1>3. k # 0
    BY <1>2, FS_EmptySet
  <1>4. /\ s \in [1..k -> due]
        /\ \A m, n \in 1..k : m < n => s[m] # s[n] /\ ~SortedBefore(s[n], s[m])
    BY DEF Sortings
  <1> HIDE DEF k
  <1>5. \A m, n \in 1..k : s[m] = s[n] => m = n
    BY <1>2, <1>4
  <1>6. s \in Seq(Item)
    <2>1. s \in [1..k -> Item]
      BY <1>1, <1>4
    <2> QED
      BY <2>1, <1>2, SeqDef
  <1>7. s # <<>>
    BY <1>2, <1>3, <1>4
  <1>8. ItemsOf(s) = due
    <2>1. s \in Injection(1..k, due)
      BY <1>4, <1>5 DEF Injection, IsInjective
    <2>2. Cardinality(1..k) = k
      BY <1>2, FS_Interval
    <2>3. s \in Surjection(1..k, due)
      BY <1>2, <2>1, <2>2, FS_Injection DEF k
    <2> QED
      BY <1>4, <2>3 DEF Surjection, ItemsOf
  <1> QED
    BY <1>4, <1>5, <1>6, <1>7, <1>8 DEF Batch

(***************************************************************************)
(* Types and the places of notifications                                   *)
(***************************************************************************)

IInv == TypeOK /\ RetriesTracked

LEMMA BatchesType == TypeOK => \A b \in batches : b \in Batch
  BY DEF TypeOK, Batch

\* Every item is that of another notification, and in one place only.
OneItemPerFingerprint == \A i, j \in queue \cup Taken : i.fp = j.fp => i = j

LEMMA TakenItems ==
  ASSUME IInv
  PROVE  /\ Taken \subseteq Item
         /\ OneItemPerFingerprint
         /\ queue \cap Taken = {}
         /\ \A i \in Taken : \E b \in batches : \E n \in DOMAIN b : i = b[n]
         /\ \A b \in batches : \A n \in DOMAIN b : b[n] \in Taken
  <1>1. \A i \in Taken : \E b \in batches : \E n \in DOMAIN b : i = b[n]
    BY DEF Taken, ItemsOf
  <1>2. \A b \in batches : \A n \in DOMAIN b : b[n] \in Taken
    BY DEF Taken, ItemsOf
  <1>3. \A b \in batches : \A n \in DOMAIN b : b[n] \in Item
    BY BatchesType, LenProperties DEF IInv, Batch
  <1>4. Taken \subseteq Item
    BY <1>1, <1>3
  <1>5. \A i, j \in Taken : i.fp = j.fp => i = j
    <2> SUFFICES ASSUME NEW i \in Taken, NEW j \in Taken, i.fp = j.fp PROVE i = j
      OBVIOUS
    <2>1. PICK b \in batches : \E n \in DOMAIN b : i = b[n]
      BY <1>1
    <2>2. PICK m \in DOMAIN b : i = b[m]
      BY <2>1
    <2>3. PICK c \in batches : \E n \in DOMAIN c : j = c[n]
      BY <1>1
    <2>4. PICK n \in DOMAIN c : j = c[n]
      BY <2>3
    <2> QED
      BY <2>2, <2>4 DEF IInv, RetriesTracked
  <1>6. OneItemPerFingerprint /\ queue \cap Taken = {}
    BY <1>5 DEF IInv, RetriesTracked, OneItemPerFingerprint
  <1> QED
    BY <1>1, <1>2, <1>4, <1>6

\* There are no more items waiting than notifications.
LEMMA QueueFinite == IInv => IsFiniteSet(queue)
  <1> SUFFICES ASSUME IInv PROVE IsFiniteSet(queue)
    OBVIOUS
  <1> DEFINE f == [i \in queue |-> i.fp]
  <1>1. f \in [queue -> Fingerprints]
    BY ItemFields DEF IInv, TypeOK
  <1>2. f \in Injection(queue, Fingerprints)
    BY <1>1 DEF Injection, IsInjective, IInv, RetriesTracked
  <1> HIDE DEF f
  <1> QED
    BY <1>2, FS_Injection, RetryQueueAssumption

\* Where the taken items are, and that no notification is in two places of them.
Placed(bs) ==
    /\ \A b \in bs : b \in Batch
    /\ \A b, c \in bs : \A m \in DOMAIN b, n \in DOMAIN c :
         b[m].fp = c[n].fp => b = c /\ m = n

LEMMA PlacedNow == IInv => Placed(batches)
  BY BatchesType DEF IInv, RetriesTracked, Placed

\* The loop of processQueue takes the first item off its batch, and nothing else.
LEMMA Advanced ==
  ASSUME IInv, NEW batch \in batches, advance(batch)
  PROVE  /\ Head(batch) \in Taken
         /\ Taken' = Taken \ {Head(batch)}
         /\ Placed(batches')
  <1> DEFINE rest == Tail(batch)
  <1>1. /\ batch \in Batch /\ Head(batch) = batch[1] /\ 1 \in DOMAIN batch
        /\ Len(batch) \in Nat
        /\ Len(batch) > 1 => /\ rest \in Batch
                             /\ \A n \in DOMAIN rest : n + 1 \in DOMAIN batch /\ rest[n] = batch[n + 1]
                             /\ \A n \in DOMAIN batch : n # 1 => n - 1 \in DOMAIN rest
        /\ Len(batch) <= 1 => DOMAIN batch = {1}
    BY BatchesType, TailOfBatch DEF IInv
  <1>2. /\ Len(batch) > 1 => batches' = (batches \ {batch}) \cup {rest}
        /\ Len(batch) <= 1 => batches' = batches \ {batch}
    BY <1>1 DEF advance
  <1>3. DOMAIN batch \subseteq Nat /\ (Len(batch) > 1 => DOMAIN rest \subseteq Nat \ {0})
    BY <1>1, LenProperties DEF Batch
  <1> HIDE DEF rest
  <1>4. Placed(batches)
    BY PlacedNow
  <1>5. Placed(batches')
    <2>1. CASE Len(batch) <= 1
      BY <1>2, <1>4, <2>1 DEF Placed
    <2>2. CASE Len(batch) > 1
      <3>1. batches' = (batches \ {batch}) \cup {rest} /\ \A b \in batches' : b \in Batch
        BY <1>1, <1>2, <1>4, <2>2 DEF Placed
      <3>2. ASSUME NEW c \in batches \ {batch}, NEW m \in DOMAIN rest, NEW n \in DOMAIN c
            PROVE  rest[m].fp # c[n].fp
        BY <1>1, <1>4, <2>2 DEF Placed
      <3>3. ASSUME NEW m \in DOMAIN rest, NEW n \in DOMAIN rest, rest[m].fp = rest[n].fp
            PROVE  m = n
        <4>1. m + 1 = n + 1
          BY <1>1, <1>4, <2>2, <3>3 DEF Placed
        <4> QED
          BY <1>3, <2>2, <4>1
      <3>4. ASSUME NEW b \in batches \ {batch}, NEW c \in batches \ {batch},
                   NEW m \in DOMAIN b, NEW n \in DOMAIN c, b[m].fp = c[n].fp
            PROVE  b = c /\ m = n
        BY <1>4, <3>4 DEF Placed
      <3>5. ASSUME NEW b \in batches', NEW c \in batches',
                   NEW m \in DOMAIN b, NEW n \in DOMAIN c, b[m].fp = c[n].fp
            PROVE  b = c /\ m = n
        <4>1. CASE b = rest /\ c = rest
          BY <3>3, <3>5, <4>1
        <4>2. CASE b = rest /\ c # rest
          <5>1. c \in batches \ {batch}
            BY <3>1, <4>2
          <5> QED
            BY <3>2, <3>5, <4>2, <5>1
        <4>3. CASE b # rest /\ c = rest
          <5>1. b \in batches \ {batch}
            BY <3>1, <4>3
          <5>2. c[n].fp # b[m].fp
            BY <3>2, <4>3, <5>1
          <5> QED
            BY <3>5, <5>2
        <4>4. CASE b # rest /\ c # rest
          <5>1. b \in batches \ {batch} /\ c \in batches \ {batch}
            BY <3>1, <4>4
          <5> QED
            BY <3>4, <3>5, <5>1
        <4> QED
          BY <4>1, <4>2, <4>3, <4>4
      <3> QED
        BY <3>1, <3>5 DEF Placed
    <2> QED
      BY <1>1, <2>1, <2>2
  <1>6. Head(batch) \in Taken
    BY <1>1, TakenItems
  <1>7. ASSUME NEW i \in Taken, i # Head(batch) PROVE i \in Taken'
    <2>1. PICK b \in batches : \E n \in DOMAIN b : i = b[n]
      BY TakenItems
    <2>2. PICK n \in DOMAIN b : i = b[n]
      BY <2>1
    <2>3. CASE b # batch
      <3>1. b \in batches'
        BY <1>1, <1>2, <2>3
      <3> QED
        BY <2>2, <3>1 DEF Taken, ItemsOf
    <2>4. CASE b = batch
      <3>1. n # 1 /\ n \in Nat
        BY <1>1, <1>3, <1>7, <2>2, <2>4
      <3>2. Len(batch) > 1
        BY <1>1, <2>2, <2>4, <3>1
      <3>3. n - 1 \in DOMAIN rest /\ rest[n - 1] = batch[n - 1 + 1] /\ n - 1 + 1 = n
        BY <1>1, <2>2, <2>4, <3>1, <3>2
      <3>4. rest \in batches' /\ i = rest[n - 1]
        BY <1>2, <2>2, <2>4, <3>2, <3>3
      <3> QED
        BY <3>3, <3>4 DEF Taken, ItemsOf
    <2> QED
      BY <2>3, <2>4
  <1>8. ASSUME NEW i \in Taken' PROVE i \in Taken /\ i # Head(batch)
    <2>1. PICK b \in batches' : \E n \in DOMAIN b : i = b[n]
      BY DEF Taken, ItemsOf
    <2>2. PICK n \in DOMAIN b : i = b[n]
      BY <2>1
    <2>3. CASE b \in batches \ {batch}
      <3>1. i \in Taken
        BY <2>2, <2>3, TakenItems
      <3>2. b[n].fp # batch[1].fp
        BY <1>1, <1>4, <2>3 DEF Placed
      <3> QED
        BY <1>1, <2>2, <3>1, <3>2
    <2>4. CASE b = rest /\ Len(batch) > 1
      <3>1. n + 1 \in DOMAIN batch /\ i = batch[n + 1] /\ n \in Nat \ {0}
        BY <1>1, <1>3, <2>2, <2>4
      <3>2. i \in Taken
        BY <3>1, TakenItems
      <3>3. batch[n + 1].fp = batch[1].fp => n + 1 = 1
        BY <1>1, <1>4, <3>1 DEF Placed
      <3> QED
        BY <1>1, <3>1, <3>2, <3>3
    <2> QED
      BY <1>1, <1>2, <2>3, <2>4
  <1> QED
    BY <1>5, <1>6, <1>7, <1>8

\* processQueue moves the due items into one new batch.
LEMMA BatchTaken ==
  ASSUME IInv, processQueue
  PROVE  /\ Taken' = Taken \cup due /\ queue' = queue \ due /\ due \subseteq queue
         /\ Placed(batches')
  <1>1. PICK s \in Sortings : batches' = batches \cup {s}
    BY DEF processQueue
  <1>2. /\ s \in Batch /\ ItemsOf(s) = due
        /\ \A m, n \in DOMAIN s : s[m] = s[n] => m = n
    BY SortingIsBatch, QueueFinite DEF processQueue, IInv, TypeOK
  <1>3. due \subseteq queue
    BY DEF due
  <1>4. Taken' = Taken \cup due
    BY <1>1, <1>2 DEF Taken
  <1>5. \A n \in DOMAIN s : s[n] \in queue
    BY <1>2, <1>3 DEF ItemsOf
  <1>6. Placed(batches)
    BY PlacedNow
  <1>7. ASSUME NEW b \in batches, NEW m \in DOMAIN b, NEW n \in DOMAIN s
        PROVE  b[m].fp # s[n].fp
    BY <1>5, TakenItems DEF IInv, RetriesTracked
  <1>8. ASSUME NEW m \in DOMAIN s, NEW n \in DOMAIN s, s[m].fp = s[n].fp PROVE m = n
    BY <1>2, <1>5, <1>8 DEF IInv, RetriesTracked
  <1>9. s \notin batches
    <2>1. 1 \in DOMAIN s
      BY <1>2, TailOfBatch
    <2> QED
      BY <1>7, <2>1
  <1>10. ASSUME NEW b \in batches', NEW c \in batches',
                NEW m \in DOMAIN b, NEW n \in DOMAIN c, b[m].fp = c[n].fp
         PROVE  b = c /\ m = n
    <2>1. CASE b \in batches /\ c \in batches
      BY <1>6, <1>10, <2>1 DEF Placed
    <2>2. CASE b = s /\ c = s
      BY <1>8, <1>10, <2>2
    <2>3. CASE b \in batches /\ c = s
      BY <1>7, <1>10, <2>3
    <2>4. CASE b = s /\ c \in batches
      <3>1. c[n].fp # b[m].fp
        BY <1>7, <2>4
      <3> QED
        BY <1>10, <3>1
    <2> QED
      BY <1>1, <2>1, <2>2, <2>3, <2>4
  <1>11. \A b \in batches' : b \in Batch
    BY <1>1, <1>2, <1>6 DEF Placed
  <1> QED
    BY <1>3, <1>4, <1>10, <1>11 DEF processQueue, Placed

\* A tick ages every item where it is.
LEMMA BatchesAged ==
  ASSUME IInv, Tick
  PROVE  /\ Taken' = {Aged(i) : i \in Taken} /\ queue' = {Aged(i) : i \in queue}
         /\ Placed(batches')
  <1>1. batches' = {AgedBatch(b) : b \in batches}
    BY DEF Tick, AgedBatch
  <1>2. Placed(batches)
    BY PlacedNow
  <1>3. \A b \in batches : /\ AgedBatch(b) \in Batch /\ DOMAIN AgedBatch(b) = DOMAIN b
                           /\ \A n \in DOMAIN b : /\ b[n] \in Item
                                                   /\ AgedBatch(b)[n] = Aged(b[n])
                                                   /\ AgedBatch(b)[n].fp = b[n].fp
    BY <1>2, AgedBatchType, AgedType DEF Placed
  <1>4. ASSUME NEW b \in batches, NEW c \in batches, NEW m \in DOMAIN AgedBatch(b),
               NEW n \in DOMAIN AgedBatch(c), AgedBatch(b)[m].fp = AgedBatch(c)[n].fp
        PROVE  b = c /\ m = n
    BY <1>2, <1>3, <1>4 DEF Placed
  <1>5. Placed(batches')
    <2>1. \A b \in batches' : b \in Batch
      BY <1>1, <1>3
    <2>2. ASSUME NEW b \in batches', NEW c \in batches',
                 NEW m \in DOMAIN b, NEW n \in DOMAIN c, b[m].fp = c[n].fp
          PROVE  b = c /\ m = n
      <3>1. PICK x \in batches : b = AgedBatch(x)
        BY <1>1
      <3>2. PICK y \in batches : c = AgedBatch(y)
        BY <1>1
      <3> QED
        BY <1>4, <2>2, <3>1, <3>2
    <2> QED
      BY <2>1, <2>2 DEF Placed
  <1>6. Taken' = UNION {ItemsOf(b) : b \in batches'}
    BY DEF Taken
  <1>7. ASSUME NEW i \in Taken PROVE Aged(i) \in Taken'
    <2>1. PICK b \in batches : \E n \in DOMAIN b : i = b[n]
      BY TakenItems
    <2>2. PICK n \in DOMAIN b : i = b[n]
      BY <2>1
    <2>3. Aged(i) \in ItemsOf(AgedBatch(b))
      BY <1>3, <2>2 DEF ItemsOf
    <2> QED
      BY <1>1, <1>6, <2>3
  <1>8. ASSUME NEW j \in Taken' PROVE j \in {Aged(i) : i \in Taken}
    <2>1. PICK b \in batches : j \in ItemsOf(AgedBatch(b))
      BY <1>1, <1>6
    <2>2. PICK n \in DOMAIN b : j = Aged(b[n])
      BY <1>3, <2>1 DEF ItemsOf
    <2>3. b[n] \in Taken
      BY TakenItems
    <2> QED
      BY <2>2, <2>3
  <1>9. queue' = {Aged(i) : i \in queue}
    BY DEF Tick
  <1> QED
    BY <1>5, <1>7, <1>8, <1>9

\* The fingerprints in use are those of the items, and no item waits that is
\* being retried.
Places(q, t, fps) ==
    /\ fps = {i.fp : i \in q \cup t}
    /\ \A i \in q, j \in t : i.fp # j.fp
    /\ \A i, j \in q : i.fp = j.fp => i = j

LEMMA PlacesNow == IInv => Places(queue, Taken, queuedFingerprints)
  BY DEF IInv, RetriesTracked, Places

LEMMA PlacesNext ==
  ASSUME Placed(batches'), Places(queue', Taken', queuedFingerprints')
  PROVE  RetriesTracked'
  BY DEF Placed, Places, RetriesTracked

\* What retryItem does with the item at the head of its batch: it is put back,
\* or it is settled.
PutBack(batch, f, d) ==
    LET item == Head(batch)
    IN /\ evaluate(f, item.retryCount + 1, MaxRetries) = "retryable"
       /\ d \in calculateBackoffDelay(item.retryCount + 1)
       /\ advance(batch)
       /\ queue' = queue \cup {[item EXCEPT !.retryCount = item.retryCount + 1, !.wait = d]}
       /\ UNCHANGED <<queuedFingerprints, timer, metrics>>

Settled(batch) ==
    /\ advance(batch)
    /\ release(Head(batch).fp)
    /\ UNCHANGED <<queue, timer>>
    /\ metrics \in Metrics => metrics' \in Metrics

LEMMA Settlements ==
  ASSUME NEW fp, retryItemSettles(fp)
  PROVE  \E batch \in batches :
           \/ Settled(batch)
           \/ \E f \in RetryFailureType, d \in calculateBackoffDelay(Head(batch).retryCount + 1) :
                PutBack(batch, f, d)
  <1>1. PICK batch \in batches :
          \/ retryItemSucceeds(batch)
          \/ \E f \in RetryFailureType : retryItemFails(batch, f)
    BY DEF retryItemSettles
  <1>2. CASE retryItemSucceeds(batch)
    BY <1>2, SucceededMetrics DEF retryItemSucceeds, Settled
  <1>3. ASSUME NEW f \in RetryFailureType, retryItemFails(batch, f)
        PROVE  \/ Settled(batch)
               \/ \E d \in calculateBackoffDelay(Head(batch).retryCount + 1) : PutBack(batch, f, d)
    <2> DEFINE reason == evaluate(f, Head(batch).retryCount + 1, MaxRetries)
    <2>1. CASE reason = "retryable"
      BY <1>3, <2>1 DEF retryItemFails, PutBack
    <2>2. CASE reason # "retryable"
      <3> DEFINE z == IF reason = "permanent" THEN metrics.totalSkippedPermanent + 1
                      ELSE metrics.totalSkippedPermanent
      <3>1. metrics' = [metrics EXCEPT !.totalProcessed = @ + 1, !.totalFailed = @ + 1,
                                       !.totalSkippedPermanent = z]
        BY <1>3, <2>2 DEF retryItemFails
      <3>2. metrics \in Metrics => z \in Nat
        BY DEF Metrics
      <3> HIDE DEF z
      <3>3. metrics \in Metrics => metrics' \in Metrics
        BY <3>1, <3>2, GivenUpMetrics
      <3> QED
        BY <1>3, <2>2, <3>3 DEF retryItemFails, Settled
    <2> QED
      BY <2>1, <2>2
  <1> QED
    BY <1>1, <1>2, <1>3

LEMMA Requeued ==
  ASSUME IInv, NEW batch \in batches, NEW f,
         NEW d \in calculateBackoffDelay(Head(batch).retryCount + 1), PutBack(batch, f, d)
  PROVE  \E new \in Item :
           /\ new.fp = Head(batch).fp /\ new.retryCount = Head(batch).retryCount + 1
           /\ new.retryCount < Budget
           /\ queue' = queue \cup {new}
  <1> DEFINE item == Head(batch)
             new == [item EXCEPT !.retryCount = item.retryCount + 1, !.wait = d]
  <1>1. item \in Item
    BY BatchesType, TailOfBatch DEF IInv
  <1>2. /\ evaluate(f, item.retryCount + 1, MaxRetries) = "retryable"
        /\ queue' = queue \cup {new}
        /\ d \in calculateBackoffDelay(item.retryCount + 1)
    BY DEF PutBack
  <1> HIDE DEF item
  <1>3. /\ new \in Item /\ new.fp = item.fp /\ new.retryCount = item.retryCount + 1
        /\ item.retryCount + 1 < Budget
    BY <1>1, <1>2, RequeuedItemType
  <1> QED
    BY <1>2, <1>3 DEF item

LEMMA Inductive == IInv /\ [Next]_vars => IInv'
  <1> SUFFICES ASSUME IInv, [Next]_vars PROVE IInv'
    OBVIOUS
  <1>a. /\ queue \subseteq Item /\ Taken \subseteq Item /\ queuedFingerprints \subseteq Fingerprints
        /\ Placed(batches) /\ Places(queue, Taken, queuedFingerprints)
        /\ timer \in BOOLEAN /\ metrics \in Metrics
    BY TakenItems, PlacedNow, PlacesNow DEF IInv, TypeOK
  <1>b. ASSUME queue' \subseteq Item, queuedFingerprints' \subseteq Fingerprints, Placed(batches'),
               Places(queue', Taken', queuedFingerprints'), timer' \in BOOLEAN, metrics' \in Metrics
        PROVE  IInv'
    <2>1. TypeOK'
      BY <1>b DEF TypeOK, Placed, Batch
    <2> QED
      BY <1>b, <2>1, PlacesNext DEF IInv
  <1>1. CASE start \/ stop \/ UNCHANGED vars
    <2>1. /\ UNCHANGED <<queue, batches, queuedFingerprints, metrics>> /\ timer' \in BOOLEAN
      BY <1>1, <1>a DEF start, stop, vars
    <2>2. UNCHANGED Taken
      BY <2>1 DEF Taken
    <2> QED
      BY <1>a, <1>b, <2>1, <2>2
  <1>2. ASSUME NEW fp \in Fingerprints, NEW p \in Priority, enqueue(fp, p)
        PROVE  IInv'
    <2>1. PICK d \in calculateBackoffDelay(0) :
            queue' = queue \cup {[fp |-> fp, retryCount |-> 0, wait |-> d,
                                  priority |-> p, age |-> 0]}
      BY <1>2 DEF enqueue
    <2> DEFINE new == [fp |-> fp, retryCount |-> 0, wait |-> d, priority |-> p, age |-> 0]
    <2>2. new \in Item /\ new.fp = fp /\ queue' = queue \cup {new}
      BY <2>1, NewItemType
    <2> HIDE DEF new
    <2>3. /\ fp \notin queuedFingerprints /\ queuedFingerprints' = queuedFingerprints \cup {fp}
          /\ UNCHANGED <<batches, timer>>
      BY <1>2 DEF enqueue, accepts
    <2>4. UNCHANGED Taken
      BY <2>3 DEF Taken
    <2>5. metrics' \in Metrics
      BY <1>2, <1>a, EnqueuedMetrics DEF enqueue
    <2>6. Places(queue', Taken', queuedFingerprints')
      BY <1>a, <2>2, <2>3, <2>4 DEF Places
    <2>7. queue' \subseteq Item /\ queuedFingerprints' \subseteq Fingerprints
      BY <1>a, <2>2, <2>3
    <2>8. Placed(batches') /\ timer' \in BOOLEAN
      BY <1>a, <2>3
    <2> QED
      BY <1>b, <2>5, <2>6, <2>7, <2>8
  <1>3. CASE processQueue
    <2>1. /\ Taken' = Taken \cup due /\ queue' = queue \ due /\ due \subseteq queue
          /\ Placed(batches') /\ UNCHANGED <<queuedFingerprints, timer, metrics>>
      BY <1>3, BatchTaken DEF processQueue
    <2>2. Places(queue', Taken', queuedFingerprints')
      <3>1. queue' \cup Taken' = queue \cup Taken
        BY <2>1
      <3> QED
        BY <1>a, <2>1, <3>1 DEF Places
    <2> QED
      BY <1>a, <1>b, <2>1, <2>2
  <1>4. ASSUME NEW batch \in batches, Settled(batch) PROVE IInv'
    <2>1. /\ Head(batch) \in Taken /\ Taken' = Taken \ {Head(batch)} /\ Placed(batches')
      BY <1>4, Advanced DEF Settled
    <2>2. /\ queuedFingerprints' = queuedFingerprints \ {Head(batch).fp}
          /\ UNCHANGED <<queue, timer>> /\ metrics' \in Metrics
      BY <1>4, <1>a DEF Settled, release
    <2>3. Places(queue', Taken', queuedFingerprints')
      <3>1. \A i \in queue \cup Taken : i.fp = Head(batch).fp => i = Head(batch)
        BY <2>1, TakenItems DEF OneItemPerFingerprint
      <3> QED
        BY <1>a, <2>1, <2>2, <3>1, TakenItems DEF Places
    <2> QED
      BY <1>a, <1>b, <2>1, <2>2, <2>3
  <1>5. ASSUME NEW batch \in batches, NEW f,
               NEW d \in calculateBackoffDelay(Head(batch).retryCount + 1), PutBack(batch, f, d)
        PROVE  IInv'
    <2>1. /\ Head(batch) \in Taken /\ Taken' = Taken \ {Head(batch)} /\ Placed(batches')
      BY <1>5, Advanced DEF PutBack
    <2>2. PICK new \in Item : new.fp = Head(batch).fp /\ queue' = queue \cup {new}
      BY <1>5, Requeued
    <2>3. UNCHANGED <<queuedFingerprints, timer, metrics>>
      BY <1>5 DEF PutBack
    <2>4. Places(queue', Taken', queuedFingerprints')
      <3>1. \A i \in queue \cup Taken : i.fp = Head(batch).fp => i = Head(batch)
        BY <2>1, TakenItems DEF OneItemPerFingerprint
      <3>2. Head(batch) \notin queue
        BY <2>1, TakenItems
      <3> QED
        BY <1>a, <2>1, <2>2, <2>3, <3>1, <3>2 DEF Places
    <2>5. queue' \subseteq Item
      BY <1>a, <2>2
    <2> QED
      BY <1>a, <1>b, <2>1, <2>3, <2>4, <2>5
  <1>6. CASE Tick
    <2>1. /\ Taken' = {Aged(i) : i \in Taken} /\ queue' = {Aged(i) : i \in queue}
          /\ Placed(batches') /\ UNCHANGED <<queuedFingerprints, timer, metrics>>
      BY <1>6, BatchesAged DEF Tick
    <2>2. \A i \in queue \cup Taken : Aged(i) \in Item /\ Aged(i).fp = i.fp
      BY <1>a, AgedType
    <2>3. Places(queue', Taken', queuedFingerprints')
      BY <1>a, <2>1, <2>2 DEF Places
    <2>4. queue' \subseteq Item
      BY <2>1, <2>2
    <2> QED
      BY <1>a, <1>b, <2>1, <2>3, <2>4
  <1>7. ASSUME NEW fp \in Fingerprints, retryItemSettles(fp) PROVE IInv'
    BY <1>4, <1>5, <1>7, Settlements
  <1> QED
    BY <1>1, <1>2, <1>3, <1>6, <1>7 DEF Next

LEMMA Invariance == Spec => []IInv
  <1>1. Init => IInv
    <2> SUFFICES ASSUME Init PROVE IInv
      OBVIOUS
    <2>1. Taken = {} /\ queue = {} /\ batches = {} /\ queuedFingerprints = {}
      BY DEF Init, Taken
    <2>2. metrics \in Metrics /\ timer \in BOOLEAN
      BY DEF Init, Metrics
    <2> QED
      BY <2>1, <2>2 DEF IInv, TypeOK, RetriesTracked
  <1> QED
    BY <1>1, Inductive, PTL DEF Spec

\* The items keep within the attempts the retry policy grants, and the rest of
\* the queue's state keeps its type.
THEOREM TypeCorrect == Spec => []TypeOK
  <1>1. IInv => TypeOK
    BY DEF IInv
  <1> QED
    BY <1>1, Invariance, PTL

\* However many batches overlap, an accepted notification is in exactly one
\* place until its fingerprint is released: never lost, never sent twice at once.
THEOREM RetriesCorrect == Spec => []RetriesTracked
  <1>1. IInv => RetriesTracked
    BY DEF IInv
  <1> QED
    BY <1>1, Invariance, PTL

(***************************************************************************)
(* The order within a batch                                                *)
(***************************************************************************)

\* The age bonus grows with age.
LEMMA AgeBonus ==
  ASSUME NEW a \in Nat
  PROVE  /\ a \div AgeUnit \in Nat
         /\ (a \div AgeUnit) * AgeUnit <= a
         /\ a < (a \div AgeUnit + 1) * AgeUnit
  BY RetryQueueAssumption, Z3

LEMMA AgeBonusMonotone ==
  ASSUME NEW a \in Nat, NEW b \in Nat, a <= b
  PROVE  a \div AgeUnit <= b \div AgeUnit
  <1> DEFINE x == a \div AgeUnit
             y == b \div AgeUnit
  <1>1. /\ x \in Nat /\ y \in Nat /\ x * AgeUnit <= a /\ b < (y + 1) * AgeUnit
        /\ AgeUnit \in Nat \ {0}
    BY AgeBonus, RetryQueueAssumption
  <1> HIDE DEF x, y
  <1>2. x * AgeUnit < (y + 1) * AgeUnit
    BY <1>1
  <1>3. ~ x > y
    <2> SUFFICES ASSUME x >= y + 1 PROVE FALSE
      BY <1>1
    <2>1. x * AgeUnit >= (y + 1) * AgeUnit
      BY <1>1
    <2> QED
      BY <1>1, <1>2, <2>1
  <1> QED
    BY <1>1, <1>3 DEF x, y

\* Of two items of one priority, sort() does not put the younger one first.
LEMMA YoungerNotFirst ==
  ASSUME NEW i \in Item, NEW j \in Item, i.priority = j.priority, ~SortedBefore(j, i)
  PROVE  j.age <= i.age
  <1>1. i.age \in Nat /\ j.age \in Nat /\ i.priority \in Nat /\ PriorityWeights[i.priority] \in Nat
    BY ItemFields, RetryQueueAssumption DEF Priority
  <1>2. i.age < j.age => i.age \div AgeUnit <= j.age \div AgeUnit
    BY <1>1, AgeBonusMonotone
  <1>3. i.age \div AgeUnit \in Nat /\ j.age \div AgeUnit \in Nat
    BY <1>1, AgeBonus
  <1> DEFINE x == i.age \div AgeUnit
             y == j.age \div AgeUnit
             w == PriorityWeights[i.priority]
  <1>4. /\ getWeightedPriority(i) = i.priority + x + w
        /\ getWeightedPriority(j) = i.priority + y + w
    BY DEF getWeightedPriority
  <1>5. x \in Nat /\ y \in Nat /\ w \in Nat /\ (i.age < j.age => x <= y)
    BY <1>1, <1>2, <1>3
  <1> HIDE DEF x, y, w
  <1> QED
    BY <1>1, <1>4, <1>5 DEF SortedBefore

InOrder(b) ==
    \A m, n \in DOMAIN b : m < n /\ b[m].priority = b[n].priority => b[n].age <= b[m].age

LEMMA OrderStep == IInv /\ BatchOrder /\ [Next]_vars => BatchOrder'
  <1> SUFFICES ASSUME IInv, BatchOrder, [Next]_vars PROVE BatchOrder'
    OBVIOUS
  <1>a. \A b \in batches : b \in Batch /\ InOrder(b)
    BY BatchesType DEF IInv, BatchOrder, InOrder
  <1>b. SUFFICES \A b \in batches' : InOrder(b)
    BY DEF BatchOrder, InOrder
  <1>1. CASE UNCHANGED batches
    BY <1>1, <1>a
  <1>2. CASE processQueue
    <2>1. PICK s \in Sortings : batches' = batches \cup {s}
      BY <1>2 DEF processQueue
    <2>2. /\ s \in Batch /\ \A m, n \in DOMAIN s : m < n => ~SortedBefore(s[n], s[m])
      BY <1>2, SortingIsBatch, QueueFinite DEF processQueue, IInv, TypeOK
    <2>3. \A n \in DOMAIN s : s[n] \in Item
      BY <2>2, LenProperties DEF Batch
    <2>4. InOrder(s)
      BY <2>2, <2>3, YoungerNotFirst DEF InOrder
    <2> QED
      BY <1>a, <2>1, <2>4
  <1>3. ASSUME NEW batch \in batches, advance(batch) PROVE \A b \in batches' : InOrder(b)
    <2>1. batch \in Batch /\ InOrder(batch)
      BY <1>a
    <2>2. ASSUME Len(batch) > 1 PROVE InOrder(Tail(batch))
      <3>1. /\ \A n \in DOMAIN Tail(batch) : n + 1 \in DOMAIN batch /\ Tail(batch)[n] = batch[n + 1]
            /\ Tail(batch) \in Batch
        BY <2>1, <2>2, TailOfBatch
      <3>2. DOMAIN Tail(batch) \subseteq Nat
        BY <3>1, LenProperties DEF Batch
      <3>3. \A m, n \in DOMAIN Tail(batch) : m < n => m + 1 < n + 1
        BY <3>2
      <3> QED
        BY <2>1, <3>1, <3>3 DEF InOrder
    <2> QED
      BY <1>3, <1>a, <2>2 DEF advance
  <1>4. CASE Tick
    <2>1. batches' = {AgedBatch(b) : b \in batches}
      BY <1>4 DEF Tick, AgedBatch
    <2>2. ASSUME NEW b \in batches PROVE InOrder(AgedBatch(b))
      <3>1. /\ DOMAIN AgedBatch(b) = DOMAIN b
            /\ \A n \in DOMAIN b : b[n] \in Item /\ AgedBatch(b)[n] = Aged(b[n])
        BY <1>a, AgedBatchType
      <3>2. ASSUME NEW i \in Item, NEW j \in Item,
                   i.priority = j.priority => j.age <= i.age,
                   Aged(i).priority = Aged(j).priority
            PROVE  Aged(j).age <= Aged(i).age
        BY <3>2, AgedType, ItemFields, RetryQueueAssumption
      <3> QED
        BY <1>a, <3>1, <3>2 DEF InOrder
    <2> QED
      BY <2>1, <2>2
  <1>5. ASSUME NEW fp \in Fingerprints, retryItemSettles(fp) PROVE \A b \in batches' : InOrder(b)
    <2>1. PICK batch \in batches : advance(batch)
      BY <1>5, Settlements DEF Settled, PutBack
    <2> QED
      BY <1>3, <2>1
  <1>6. (\E fp \in Fingerprints, p \in Priority : enqueue(fp, p)) \/ start \/ stop \/ UNCHANGED vars
        => UNCHANGED batches
    BY DEF enqueue, start, stop, vars
  <1> QED
    BY <1>1, <1>2, <1>4, <1>5, <1>6 DEF Next

\* Within a batch, of two items of one priority the earlier enqueued is retried
\* first, for any weights and age unit.
THEOREM OrderCorrect == Spec => []BatchOrder
  <1>1. Init => BatchOrder
    BY DEF Init, BatchOrder
  <1> QED
    BY <1>1, OrderStep, Invariance, PTL DEF Spec

(***************************************************************************)
(* The refinement of WorkPool                                              *)
(***************************************************************************)

\* AttemptsOf, as a function of the items waiting and taken.
AttemptsIn(q, t, fp) ==
    IF \E i \in t : i.fp = fp THEN (CHOOSE i \in t : i.fp = fp).retryCount + 1
    ELSE IF \E i \in q : i.fp = fp THEN (CHOOSE i \in q : i.fp = fp).retryCount
    ELSE 0

FingerprintsOf(S) == {i.fp : i \in S}

StatusIn(t, fps) ==
    [fp \in Fingerprints |-> IF fp \in FingerprintsOf(t) THEN "running"
                             ELSE IF fp \in fps THEN "pending" ELSE "idle"]

LEMMA PoolState ==
  /\ PoolStatus = StatusIn(Taken, queuedFingerprints)
  /\ PoolAttempts = [fp \in Fingerprints |-> AttemptsIn(queue, Taken, fp)]
  BY DEF PoolStatus, PoolAttempts, StatusIn, FingerprintsOf, AttemptsOf, AttemptsIn

LEMMA PoolStateNext ==
  /\ PoolStatus' = StatusIn(Taken', queuedFingerprints')
  /\ PoolAttempts' = [fp \in Fingerprints |-> AttemptsIn(queue', Taken', fp)]
  BY DEF PoolStatus, PoolAttempts, StatusIn, FingerprintsOf, AttemptsOf, AttemptsIn

\* The attempts of a fingerprint are those of its one item.
LEMMA AttemptsOfItem ==
  ASSUME NEW q, NEW t, \A i, j \in q \cup t : i.fp = j.fp => i = j, q \cap t = {}
  PROVE  /\ \A i \in t : AttemptsIn(q, t, i.fp) = i.retryCount + 1
         /\ \A i \in q : AttemptsIn(q, t, i.fp) = i.retryCount
         /\ \A fp : fp \notin FingerprintsOf(q \cup t) => AttemptsIn(q, t, fp) = 0
  <1>1. ASSUME NEW i \in t PROVE AttemptsIn(q, t, i.fp) = i.retryCount + 1
    <2>1. (CHOOSE j \in t : j.fp = i.fp) = i
      OBVIOUS
    <2> QED
      BY <2>1 DEF AttemptsIn
  <1>2. ASSUME NEW i \in q PROVE AttemptsIn(q, t, i.fp) = i.retryCount
    <2>1. (CHOOSE j \in q : j.fp = i.fp) = i
      OBVIOUS
    <2>2. ~ \E j \in t : j.fp = i.fp
      OBVIOUS
    <2> QED
      BY <2>1, <2>2 DEF AttemptsIn
  <1>3. ASSUME NEW fp, fp \notin FingerprintsOf(q \cup t) PROVE AttemptsIn(q, t, fp) = 0
    BY <1>3 DEF AttemptsIn, FingerprintsOf
  <1> QED
    BY <1>1, <1>2, <1>3

\* What the invariant says of the items and the pool they stand for.
InPool(q, t, fps) ==
    /\ q \subseteq Item /\ t \subseteq Item
    /\ \A i, j \in q \cup t : i.fp = j.fp => i = j
    /\ q \cap t = {}
    /\ fps = FingerprintsOf(q \cup t)

LEMMA InPoolNow == IInv => InPool(queue, Taken, queuedFingerprints)
  BY TakenItems DEF IInv, TypeOK, RetriesTracked, OneItemPerFingerprint, InPool, FingerprintsOf

\* The item of g, if it has one, is left where it was.
Stays(q, t, p, r, g) ==
    \A i \in q \cup t : i.fp = g => (i \in q /\ i \in p) \/ (i \in t /\ i \in r)

\* A step that leaves the item of g alone leaves its attempts alone.
LEMMA Untouched ==
  ASSUME NEW q, NEW t, NEW fps, NEW p, NEW r, NEW gps, NEW g,
         InPool(q, t, fps), InPool(p, r, gps), Stays(q, t, p, r, g), g \in gps => g \in fps
  PROVE  AttemptsIn(p, r, g) = AttemptsIn(q, t, g)
  <1>1. /\ \A i \in t : AttemptsIn(q, t, i.fp) = i.retryCount + 1
        /\ \A i \in q : AttemptsIn(q, t, i.fp) = i.retryCount
        /\ \A fp : fp \notin fps => AttemptsIn(q, t, fp) = 0
    BY AttemptsOfItem DEF InPool
  <1>2. /\ \A i \in r : AttemptsIn(p, r, i.fp) = i.retryCount + 1
        /\ \A i \in p : AttemptsIn(p, r, i.fp) = i.retryCount
        /\ \A fp : fp \notin gps => AttemptsIn(p, r, fp) = 0
    BY AttemptsOfItem DEF InPool
  <1>3. CASE g \in fps
    <2>1. PICK i \in q \cup t : i.fp = g
      BY <1>3 DEF InPool, FingerprintsOf
    <2>2. (i \in q /\ i \in p) \/ (i \in t /\ i \in r)
      BY <2>1 DEF Stays
    <2> QED
      BY <1>1, <1>2, <2>1, <2>2
  <1>4. CASE g \notin fps
    BY <1>1, <1>2, <1>4
  <1> QED
    BY <1>3, <1>4

LEMMA PoolStep == IInv /\ IInv' /\ [Next]_vars => [Pool!PoolNext]_(Pool!poolVars)
  <1> SUFFICES ASSUME IInv, IInv', [Next]_vars PROVE [Pool!PoolNext]_(Pool!poolVars)
    OBVIOUS
  <1> DEFINE q == queue
             t == Taken
             fps == queuedFingerprints
             r == Taken'
             p == queue'
             gps == queuedFingerprints'
  <1>a. InPool(q, t, fps)
    BY InPoolNow
  <1>b. InPool(p, r, gps)
    <2>1. IInv' => InPool(queue, Taken, queuedFingerprints)'
      BY InPoolNow, PTL
    <2> QED
      BY <2>1
  <1>c. /\ \A i \in t : AttemptsIn(q, t, i.fp) = i.retryCount + 1
        /\ \A i \in q : AttemptsIn(q, t, i.fp) = i.retryCount
        /\ \A fp : fp \notin fps => AttemptsIn(q, t, fp) = 0
    BY <1>a, AttemptsOfItem DEF InPool
  <1>d. /\ \A i \in r : AttemptsIn(p, r, i.fp) = i.retryCount + 1
        /\ \A i \in p : AttemptsIn(p, r, i.fp) = i.retryCount
        /\ \A fp : fp \notin gps => AttemptsIn(p, r, fp) = 0
    <2> HIDE DEF p, r, gps
    <2> QED
      BY <1>b, AttemptsOfItem DEF InPool
  <1>e. /\ PoolStatus = StatusIn(t, fps) /\ PoolStatus' = StatusIn(r, gps)
        /\ PoolAttempts = [fp \in Fingerprints |-> AttemptsIn(q, t, fp)]
        /\ PoolAttempts' = [fp \in Fingerprints |-> AttemptsIn(p, r, fp)]
    BY PoolState, PoolStateNext
  <1>f. \A i \in Item : i.fp \in Fingerprints /\ i.retryCount \in Nat /\ i.retryCount < Budget
    BY ItemFields
  <1>g. /\ q \subseteq Item /\ t \subseteq Item /\ q \cap t = {} /\ fps = FingerprintsOf(q \cup t)
        /\ \A i, j \in q \cup t : i.fp = j.fp => i = j
    BY <1>a DEF InPool
  <1>h. /\ p \subseteq Item /\ r \subseteq Item /\ p \cap r = {} /\ gps = FingerprintsOf(p \cup r)
        /\ \A i, j \in p \cup r : i.fp = j.fp => i = j
    BY <1>b DEF InPool
  <1> HIDE DEF q, t, fps, p, r, gps
  <1>1. ASSUME NEW fp \in Fingerprints, NEW pr \in Priority, enqueue(fp, pr)
        PROVE  Pool!Accept(fp)
    <2>1. PICK d \in calculateBackoffDelay(0) :
            queue' = queue \cup {[fp |-> fp, retryCount |-> 0, wait |-> d,
                                  priority |-> pr, age |-> 0]}
      BY <1>1 DEF enqueue
    <2> DEFINE new == [fp |-> fp, retryCount |-> 0, wait |-> d, priority |-> pr, age |-> 0]
    <2>2. new.fp = fp /\ new.retryCount = 0 /\ p = q \cup {new}
      BY <2>1 DEF p, q
    <2> HIDE DEF new
    <2>3. fp \notin fps /\ gps = fps \cup {fp} /\ r = t
      BY <1>1 DEF enqueue, accepts, Taken, fps, gps, r, t
    <2>4. /\ PoolStatus[fp] = "idle" /\ PoolStatus' = [PoolStatus EXCEPT ![fp] = "pending"]
      <3>1. fp \notin FingerprintsOf(t)
        BY <1>g, <2>3 DEF FingerprintsOf
      <3> QED
        BY <1>e, <2>3, <3>1 DEF StatusIn
    <2>5. ASSUME NEW g \in Fingerprints PROVE AttemptsIn(p, r, g) = AttemptsIn(q, t, g)
      <3>1. CASE g = fp
        BY <1>c, <1>d, <2>2, <2>3, <3>1
      <3>2. CASE g # fp
        <4>1. Stays(q, t, p, r, g)
          BY <2>2, <2>3, <3>2 DEF Stays
        <4> QED
          BY <1>a, <1>b, <2>3, <3>2, <4>1, Untouched
      <3> QED
        BY <3>1, <3>2
    <2>6. PoolAttempts' = PoolAttempts
      BY <1>e, <2>5
    <2> QED
      BY <2>4, <2>6 DEF Pool!Accept
  <1>2. CASE start \/ stop \/ UNCHANGED vars
    <2>1. p = q /\ r = t /\ gps = fps
      BY <1>2 DEF start, stop, vars, Taken, p, q, r, t, gps, fps
    <2> QED
      BY <1>e, <2>1 DEF Pool!poolVars
  <1>3. CASE processQueue
    <2> DEFINE S == FingerprintsOf(due)
    <2>1. r = t \cup due /\ p = q \ due /\ due \subseteq q /\ gps = fps
      BY <1>3, BatchTaken DEF processQueue, p, q, r, t, gps, fps
    <2>2. S \in SUBSET Fingerprints
      BY <1>f, <1>g, <2>1 DEF FingerprintsOf
    <2>3. ASSUME NEW g \in S
          PROVE  g \in Fingerprints /\ PoolStatus[g] = "pending" /\ PoolAttempts[g] < Budget
      <3>1. PICK i \in due : i.fp = g
        BY DEF FingerprintsOf
      <3>2. i \in q /\ i \in Item /\ i.fp \in fps /\ i.fp \notin FingerprintsOf(t)
        BY <1>g, <2>1, <3>1 DEF FingerprintsOf
      <3> QED
        BY <1>c, <1>e, <1>f, <3>1, <3>2 DEF StatusIn
    <2>4. FingerprintsOf(r) = FingerprintsOf(t) \cup S
      BY <2>1 DEF FingerprintsOf
    <2>5. PoolStatus' = [g \in Fingerprints |-> IF g \in S THEN "running" ELSE PoolStatus[g]]
      <3> HIDE DEF S
      <3> QED
        BY <1>e, <2>1, <2>4 DEF StatusIn
    <2>6. ASSUME NEW g \in Fingerprints
          PROVE  AttemptsIn(p, r, g) = IF g \in S THEN AttemptsIn(q, t, g) + 1 ELSE AttemptsIn(q, t, g)
      <3>1. CASE g \in S
        <4>1. PICK i \in due : i.fp = g
          BY <3>1 DEF FingerprintsOf
        <4> QED
          BY <1>c, <1>d, <2>1, <3>1, <4>1
      <3>2. CASE g \notin S
        <4>1. \A i \in due : i.fp # g
          BY <3>2 DEF FingerprintsOf
        <4>2. Stays(q, t, p, r, g)
          BY <2>1, <4>1 DEF Stays
        <4>3. g \in gps => g \in fps
          BY <2>1
        <4>4. AttemptsIn(p, r, g) = AttemptsIn(q, t, g)
          BY <1>a, <1>b, <4>2, <4>3, Untouched
        <4> QED
          BY <3>2, <4>4
      <3> QED
        BY <3>1, <3>2
    <2> HIDE DEF S
    <2>7. PoolAttempts' = [g \in Fingerprints |-> IF g \in S THEN PoolAttempts[g] + 1
                                                              ELSE PoolAttempts[g]]
      BY <1>e, <2>6
    <2>8. Cardinality(Pool!Running \cup S) <= Cardinality(Fingerprints)
      <3>1. Pool!Running \cup S \in SUBSET Fingerprints
        BY <2>2 DEF Pool!Running
      <3> QED
        BY <3>1, FS_Subset, RetryQueueAssumption
    <2>9. /\ Pool!Cardinality(Pool!Running \cup S) = Cardinality(Pool!Running \cup S)
      BY DEF Pool!Cardinality, Cardinality
    <2>10. \A g \in S : PoolStatus[g] = "pending" /\ PoolAttempts[g] < Budget
      BY <2>3
    <2>11. Pool!Begin(S)
      BY <2>5, <2>7, <2>8, <2>9, <2>10, Zenon DEF Pool!Begin
    <2> QED
      BY <2>2, <2>11 DEF Pool!PoolNext
  <1>4. ASSUME NEW batch \in batches, Settled(batch) PROVE Pool!PoolNext
    <2> DEFINE item == Head(batch)
    <2>1. item \in t /\ r = t \ {item} /\ p = q /\ gps = fps \ {item.fp}
      BY <1>4, Advanced DEF Settled, release, p, q, r, t, gps, fps
    <2> HIDE DEF item
    <2>2. item.fp \in Fingerprints /\ item.fp \in FingerprintsOf(t) /\ item.fp \notin FingerprintsOf(r)
      BY <1>f, <1>g, <2>1 DEF FingerprintsOf
    <2>3. \A g : g # item.fp => (g \in FingerprintsOf(r) <=> g \in FingerprintsOf(t))
      BY <2>1 DEF FingerprintsOf
    <2>4. /\ PoolStatus[item.fp] = "running" /\ PoolStatus' = [PoolStatus EXCEPT ![item.fp] = "idle"]
      BY <1>e, <2>1, <2>2, <2>3 DEF StatusIn
    <2>5. ASSUME NEW g \in Fingerprints
          PROVE  AttemptsIn(p, r, g) = IF g = item.fp THEN 0 ELSE AttemptsIn(q, t, g)
      <3>1. CASE g = item.fp
        BY <1>d, <2>1, <3>1
      <3>2. CASE g # item.fp
        <4>1. Stays(q, t, p, r, g)
          BY <2>1, <3>2 DEF Stays
        <4>2. g \in gps => g \in fps
          BY <2>1
        <4>3. AttemptsIn(p, r, g) = AttemptsIn(q, t, g)
          BY <1>a, <1>b, <4>1, <4>2, Untouched
        <4> QED
          BY <3>2, <4>3
      <3> QED
        BY <3>1, <3>2
    <2>6. PoolAttempts' = [PoolAttempts EXCEPT ![item.fp] = 0]
      BY <1>e, <2>2, <2>5
    <2> QED
      BY <2>2, <2>4, <2>6 DEF Pool!Settle, Pool!PoolNext
  <1>5. ASSUME NEW batch \in batches, NEW f,
               NEW d \in calculateBackoffDelay(Head(batch).retryCount + 1), PutBack(batch, f, d)
        PROVE  Pool!PoolNext
    <2> DEFINE item == Head(batch)
    <2>1. item \in t /\ r = t \ {item} /\ gps = fps
      BY <1>5, Advanced DEF PutBack, r, t, gps, fps
    <2>2. PICK new \in Item : /\ new.fp = item.fp /\ new.retryCount = item.retryCount + 1
                              /\ new.retryCount < Budget /\ p = q \cup {new}
      BY <1>5, Requeued DEF p, q
    <2> HIDE DEF item
    <2>3. /\ item.fp \in Fingerprints /\ item.fp \in fps
          /\ item.fp \in FingerprintsOf(t) /\ item.fp \notin FingerprintsOf(r)
      BY <1>f, <1>g, <2>1 DEF FingerprintsOf
    <2>4. \A g : g # item.fp => (g \in FingerprintsOf(r) <=> g \in FingerprintsOf(t))
      BY <2>1 DEF FingerprintsOf
    <2>5. /\ PoolStatus[item.fp] = "running" /\ PoolStatus' = [PoolStatus EXCEPT ![item.fp] = "pending"]
      BY <1>e, <2>1, <2>3, <2>4 DEF StatusIn
    <2>6. ASSUME NEW g \in Fingerprints PROVE AttemptsIn(p, r, g) = AttemptsIn(q, t, g)
      <3>1. CASE g = item.fp
        <4>1. AttemptsIn(q, t, g) = item.retryCount + 1 /\ AttemptsIn(p, r, g) = new.retryCount
          BY <1>c, <1>d, <2>1, <2>2, <3>1
        <4> QED
          BY <2>2, <4>1
      <3>2. CASE g # item.fp
        <4>1. Stays(q, t, p, r, g)
          BY <2>1, <2>2, <3>2 DEF Stays
        <4> QED
          BY <1>a, <1>b, <2>1, <4>1, Untouched
      <3> QED
        BY <3>1, <3>2
    <2>7. PoolAttempts' = PoolAttempts /\ PoolAttempts[item.fp] < Budget
      BY <1>c, <1>e, <2>1, <2>2, <2>3, <2>6
    <2> QED
      BY <2>3, <2>5, <2>7 DEF Pool!Defer, Pool!PoolNext
  <1>6. CASE Tick
    <2>1. r = {Aged(i) : i \in t} /\ p = {Aged(i) : i \in q} /\ gps = fps
      BY <1>6, BatchesAged DEF Tick, p, q, r, t, gps, fps
    <2>2. \A i \in q \cup t : Aged(i).fp = i.fp /\ Aged(i).retryCount = i.retryCount
      BY <1>g, AgedType
    <2>3. FingerprintsOf(r) = FingerprintsOf(t)
      BY <2>1, <2>2 DEF FingerprintsOf
    <2>4. ASSUME NEW g \in Fingerprints PROVE AttemptsIn(p, r, g) = AttemptsIn(q, t, g)
      <3>1. CASE g \notin fps
        BY <1>c, <1>d, <2>1, <3>1
      <3>2. CASE g \in fps
        <4>1. PICK i \in q \cup t : i.fp = g
          BY <1>g, <3>2 DEF FingerprintsOf
        <4>2. i \in q => Aged(i) \in p
          BY <2>1
        <4>3. i \in t => Aged(i) \in r
          BY <2>1
        <4>4. Aged(i).fp = g /\ Aged(i).retryCount = i.retryCount
          BY <2>2, <4>1
        <4>5. CASE i \in q
          BY <1>c, <1>d, <4>1, <4>2, <4>4, <4>5
        <4>6. CASE i \in t
          BY <1>c, <1>d, <4>1, <4>3, <4>4, <4>6
        <4> QED
          BY <4>1, <4>5, <4>6
      <3> QED
        BY <3>1, <3>2
    <2>5. PoolStatus' = PoolStatus /\ PoolAttempts' = PoolAttempts
      BY <1>e, <2>1, <2>3, <2>4 DEF StatusIn
    <2> QED
      BY <2>5 DEF Pool!poolVars
  <1>7. ASSUME NEW fp \in Fingerprints, retryItemSettles(fp) PROVE Pool!PoolNext
    BY <1>4, <1>5, <1>7, Settlements
  <1>8. ASSUME NEW fp \in Fingerprints, NEW pr \in Priority, enqueue(fp, pr)
        PROVE  Pool!PoolNext
    BY <1>1, <1>8 DEF Pool!PoolNext
  <1> QED
    BY <1>2, <1>3, <1>6, <1>7, <1>8 DEF Next

\* The queue implements WorkPool for every number of notifications and
\* attempts, and whatever batches overlap.
THEOREM Refinement == Spec => ImplementsWorkPool
  <1>1. Init => Pool!PoolInit
    <2> SUFFICES ASSUME Init PROVE Pool!PoolInit
      OBVIOUS
    <2>1. Taken = {} /\ queue = {} /\ queuedFingerprints = {}
      BY DEF Init, Taken
    <2>2. /\ StatusIn({}, {}) = [fp \in Fingerprints |-> "idle"]
          /\ \A fp : AttemptsIn({}, {}, fp) = 0
      BY DEF StatusIn, FingerprintsOf, AttemptsIn
    <2> QED
      BY <2>1, <2>2, PoolState DEF Pool!PoolInit
  <1>2. IInv /\ IInv' /\ [Next]_vars => [Pool!PoolNext]_(Pool!poolVars)
    BY PoolStep
  <1> QED
    BY <1>1, <1>2, Invariance, PTL DEF Spec, ImplementsWorkPool, Pool!PoolSpec
=============================================================================
