# NotifyChain: TLA+ specifications

NotifyChain turns events of Soroban contracts into notifications. A listener
(`listener/src`, TypeScript on Node) polls a Stellar RPC endpoint, filters the
events, queues them, asks a SQLite table whether each was handled before, and
sends what is left to a Discord webhook. Two Soroban contracts (Rust) are part
of the repository: AutoShare (`contract/contracts/hello-world`), which also
keeps scheduled notifications on chain, and TaskBounty (`Documents/Task Bounty`).
The dashboard and frontend only read the listener's API.

Notifications may also be scheduled: rows of a SQLite table that a scheduler and
a retry scheduler claim, deliver and write back.

This directory holds specifications of the parts where something can go wrong
between two steps: queues, claims, the path of an event through a process that
may die, scheduled rows under locks that run out, failover between RPC endpoints,
and contracts whose calls come in any order.

## 1. Inventory

| Component | State | Operations | Who it talks to | Hard behaviour |
|---|---|---|---|---|
| Retry policy | none | `evaluate`, `resolveMaxAttempts`, `classifyError` | asked by every retry path | off-by-one in budgets |
| Event processing queue | items, two fingerprint sets, timer, counters | `enqueue`, `start`, `stop`, `processNext`, `processItem`, `handleFailure` | filled by the subscriber, calls `processEvent` | interval firings overlap with pending calls; starvation |
| Notification retry queue | items, batches in progress, fingerprints, timer, counters | `enqueue`, `start`, `stop`, `processQueue`, `retryItem` | filled by the Discord service, calls it back | batches overlap; jittered backoff |
| Event deduplication service | tables `processed_events`, `polling_cursors`, `reorg_events` | `claimEvent`, `completeEvent`, `isDuplicate`, `recordRedetection`, `recordProcessedEvent`, `updatePollingCursor`, `detectReorg` | subscriber, backfill, the cleanup job, other instances on the same file | leases, crashes, check then act |
| Event subscriber | cursors, backfill start, reconnect counter, the queues | `start`, `poll`, `checkForEvents`, `processEvent`, `handleReconnection`, `stop` | all of the above | events in memory while the cursor is on disk |
| Discord service, webhook sender, deduplicator | recently sent fingerprints, circuit breaker | `sendEventNotification` | subscriber, retry queue, the network | timeouts, window end, retries |
| AutoShare: notifications | active storage, archive, audit log, delivery keys, pause flag | schedule, batch, expire, cancel, confirm, recall, revoke, extend, record | users, the admin, anyone (expiry) | any order of calls, id reuse |
| AutoShare: groups and administration | groups with usages and members, payment histories, balances, admin, pending owner, fee, tokens | create, top up, spend, cancel, set members, withdraw, pause, transfer, nominate, accept | users, the admin, a token | money and usages over cancellations and changing fees; two ways to hand over |
| AutoShare: channels, preferences, templates, reputation | keyed records | setters | users | little interaction |
| TaskBounty | tasks, submissions, disputes, escrow balance | create, submit, approve, reject, cancel, dispute | posters, contributors, a token | escrow shared by all tasks |
| RPC manager, RPC rate limiter | endpoint health, active endpoint, tokens | `executeWithFallback`, `recordFailure`, `switchToNextEndpoint`, `acquire` | asked by the subscriber for every contract in every poll | endpoints that fail in any order, against a budget of reconnections |
| Circuit breakers | state, counters | `execute` | nobody: neither class is constructed | |
| Notification scheduler, retry scheduler, claim lease, worker manager | table `scheduled_notifications`, `dead_letter_queue`, receipts | recover, claim, renew, deliver, complete, reschedule, dead-letter, requeue, hold, expire, shut down | Discord, the repository, the API | locks that run out, delivery before its record, stale owners |
| Idempotency keys | table `idempotency_keys` | lookup, store | API handlers | check then act |
| Batcher, digests | pending groups, timers | add, flush | notification senders | flush by size against flush by timer |
| Database, migrations | one connection | `run`, `transaction`, recovery | everything | transactions on a shared connection |
| Database cleanup job | one active run | `runOnce`, `deleteInBatches` | six tables, `processed_events` and `dead_letter_queue` among them | deletes by age what others still work with |
| Archiving, backpressure, metrics | jobs, counters | periodic jobs | tables | jobs that race with delivery |
| API, middleware, webhooks, templates, search, configuration | little or none | request handlers, conversions | users | replay cache bound |

What makes each correct, in a sentence: a queue loses nothing, does nothing twice at once and
lets everything settle; a claim excludes others for its lease, may be taken over after it, and
does not stay in the table for ever; only a crash loses an event and only a missing record sends
it twice; a notification on chain leaves active storage once, for a recorded reason; money
leaves an escrow once; a scheduled notification is delivered again or overwritten only after
something went wrong with it, and comes to an end; usages and money of a group are accounted
for; the subscriber gives up only when no endpoint has stayed up since its last good poll, or
when more operations than tolerated ended in an error that failover does not react to.

`PROJECT.json` lists the components with their sources and status, and the
hazards at the line where they bite.

## 2. Modules

```
RetryPolicy                              the decision to retry, shared
  EventQueue --------------------------- EventQueueProofs
  RetryQueue --------------------------- RetryQueueProofs
  Ingestion ---------------------------- SubscriberProofs
  Scheduling --------------------------- SchedulingProofs
WorkPool                                 what a queue promises: EventQueue and
                                         RetryQueue implement it, Ingestion
                                         relies on it
EventClaims ---------------------------- EventClaimsProofs
RpcFailover ---------------------------- SubscriberProofs
NotificationLifecycle ------------------ NotificationLifecycleProofs
AutoShareGroups ------------------------ AutoShareGroupsProofs
TaskBounty ----------------------------- TaskBountyProofs
MC<module> gives each its model values for TLC
```

**RetryPolicy** (`services/retry-policy.ts`). `evaluate` answers "permanent",
"exhausted" or "retryable"; the budget is the caller's, clamped by the policy's
ceiling. `classifyError` is not modelled: wherever an error is classified, the
specifications choose any failure class.

**WorkPool**. The abstract specification of an in-memory queue: work is
accepted at most once until it settles, at most `Capacity` pieces run, and a
piece is begun at most `Budget` times.

**EventQueue** (`services/event-processing-queue.ts`). An event is its
fingerprint. `queue` and `inFlight` hold the items that wait and those whose
processor call is pending; `processNext` is atomic, as it has no await before it
calls the processor; `processItemSucceeds` and `processItemFails` are the
continuations. Time is relative: `wait` and `age` of every item move with `Tick`.
Array order breaks ties only, so the queue is a set and ties fall either way.

**RetryQueue** (`services/notification-retry-queue.ts`,
`utils/retry-backoff-config.ts`). The interval does not wait for
`processQueue`, so `batches` holds the rests of all the calls still running,
each in the order it sorted. `calculateBackoffDelay` is the set of delays
that jitter may produce, in ticks, rounded up.

**EventClaims** (`services/event-deduplication-service.ts`, `database-cleanup-job.ts`,
`database/schema.sql`). Every statement is an action, since SQLite serialises writers;
`completeEvent` is two statements and therefore two actions. `claimEvent` answers a failing
statement with `claimed: true`; such a claim is marked `open`. The CHECK on column `status` is
the constant `TableStatuses`: `SchemaStatuses`, as `schema.sql` declares it, or all of them (the
table of `migrations/fixtures/pre-004.sql` has no CHECK). With the former every claim fails
open; the run takes a table without the CHECK, where claims mean something. The subscriber of
this commit calls `isDuplicate` and `completeEvent`, not `claimEvent`, which has no caller;
EventClaims is about the service, Ingestion about its use. What keeps the table small is the
cleanup job (`index.ts:90-92`), a DELETE by `processed_at` alone, in batches of any of the
expired rows (`deleteBatch`); the service's own `cleanupOldRecords`, which spares re-detected
rows, has no caller and is left out.

**Ingestion** (`services/event-subscriber.ts`, `discord-notification.ts`,
`notification-deduplicator.ts`, `index.ts`). One or two listener processes,
one contract, a shared database. An event that `checkForEvents` lets through
passes the stages `pending`, `checking`, `redetecting`, `sending`, `completing`,
`inserting`, which are the awaits of `processEvent`; the two queues are used
by what WorkPool promises. A crash clears all that is in memory at any of these
points; a database statement may fail; a response may carry no cursor. `DryRun` is
the set of the instances that validate without sending. Which
events pass filters, quarantine, expiration and consistency is a free choice
(`wanted`), and preferences may suppress any.

**Scheduling** (`services/notification-scheduler.ts`, `retry-scheduler.ts`,
`scheduled-notification-repository.ts`, `notification-claim-lease.ts`, `worker-manager.ts`,
`database-cleanup-job.ts`). A processor is one of the two poll loops. Each of its SQL statements
or transactions is an action; `job[p][n]` is what loop p remembers of row n and the stage its
work has reached, so that a lock that runs out, a failing statement, a crash, a shutdown or a
request of an operator falls between any two. Times are relations to now: due, late, in backoff,
parked in the year 9999. `sent` and `blame` are history: how often the provider took this run of
the notification, and which disturbances involved the row. "unlogged" is the one that a proof
attempt added: the retry scheduler completes a run of a recurring row, which makes it due again;
`logExecution` fails; and the `catch` around both (`retry-scheduler.ts`) calls the failure path,
which writes the row once more although the scheduler may have claimed its next run meanwhile.
The repository file holds two merged copies of the claiming query (lines 179-236); the model
takes both WHERE clauses. Worker concurrency is 1, the default. Some rules of the code show in
the model only: the opening recovery writes a timed-out row as an attempt; a rejected batch and
one that meets a shutdown go back one attempt poorer and without a delay; nothing calls
`scheduler.stop`, so during a shutdown the scheduler keeps claiming and releasing;
`markAsCompleted`, `markAsFailedOrRetry` and the requeue of a dead letter do not ask who owns
the row; and the cleanup job deletes entries of `dead_letter_queue` by the time of a row's first
isolation, without a look at the row (`deleteBatch`).

**RpcFailover** (`services/stellar-rpc-manager.ts`, the poll loop of `event-subscriber.ts`).
`executeWithFallback` is called once per contract and poll, one call at a time; `Answer`, `Fail`
and `Reject` are the three ways an attempt ends. Instead of times the model keeps the order of
last failures, as a relation (`before`), and the set of endpoints that have cooled down.
`EndOfOperation` is what the poll loop makes of the outcome, up to `handleReconnection`, which
stops the subscriber for good. `Reject` is an error that `isRpcFailureCondition` does not know:
it ends the operation, counts against no endpoint and leaves the active one active. `steady` and
`rejections` are history: the endpoints that have been up since the last poll that succeeded,
and the operations rejected since then. `setActiveEndpoint`, `reset` and `getEndpointStatuses`
have no caller.

**AutoShareGroups** (`autoshare_logic.rs`). An action is a call that succeeds. The
percentages add up to `Whole` (100 in the code). `used`, `forfeited`,
`withdrawn`, `nominator` and `handedOver` are history, which the books and the
nominations are compared with. `update_channel_metadata`, by which the creator replaces a
description and custom fields that no other call reads, is left out.

**NotificationLifecycle** (`autoshare_logic.rs`). Contract calls are atomic
and a rejected call changes nothing, so an action is a call that succeeds.
`KeyOf` stands for the XOR of an id and a sequence number, by the two facts about
XOR the proofs need; the model checker gets the real XOR of two-bit numbers.

**TaskBounty** (`Documents/Task Bounty/src`). All tasks pay in one token, so
they share the contract's balance; `payouts` and `refunds` are history.

## 3. What the runs show

Passing runs.

| Run | Instance | Properties | Distinct states |
|---|---|---|---|
| EventQueue | 3 events, 2 slots, budget 3 under a ceiling of 2, fair | TypeOK, FingerprintsTracked, ConcurrencyBounded, MetricsBalance, ImplementsWorkPool, OvertakingBounded, EveryEventSettles | 146 000 |
| RetryQueue | 3 notifications, budget 2, jitter, fair | TypeOK, RetriesTracked, BatchOrder, ImplementsWorkPool, EveryRetrySettles | 143 000 |
| EventClaims | 3 workers, 1 event, 2 crashes, 1 failing statement, no CHECK, fair | TypeOK, ClaimsExclusive, CompletedStays, CompletedNotClaimed, ClaimsEnd | 11 000 |
| Ingestion | 1 listener, 2 events, 1 crash, 1 failing statement | TypeOK, OnlyCrashesLose, RepeatsAreUnrecorded | 3.1 million |
| IngestionShared | a listener and a dry run on one database, 1 event, fair | SentRowsAreTrue, SeenEventsResolve | 138 000 |
| Scheduling | a scheduler and a retry scheduler in one process, 2 rows (one recurring, with a deadline), 1 disturbance, fair | TypeOK, OverlapsExplained, RepeatsExplained, DeadLettersListed, TerminalExplained, RowsSettle | 799 000 |
| RpcFailover | 4 endpoints, threshold 3, 2 contracts, 2 reconnections, 3 disturbances, 1 tolerated rejection | FailoverTypeOK, OnlyOutagesStop | 706 000 |
| NotificationLifecycle | 2 ids, 2 users, 3 audit records | TypeOK, AuditBalance, RevocationFinal, RemovalExplained | 734 000 |
| AutoShareGroups | 3 users, 1 group, 2 fees, 2 payments | TypeOK, PaymentsAccounted, NominationsExplained | 692 000 |
| TaskBounty | 3 users, 2 tasks, 3 submissions | TypeOK, PaymentsRecorded, NoRefundAfterPayout | 1.8 million |

What the newer properties say:

- CompletedStays says what the table forgets and when: a completed row goes only to the cleanup
  job, past the retention by its age, whether it was re-detected or not. ClaimsEnd says that
  the row of a claim does not stay for ever, though its worker died and nobody asks for the
  event again; it does not say that the event is handled, which nobody ensures: once the
  cursor is past an event, polls do not return it (Ingestion counts it as lost).
- OverlapsExplained, RepeatsExplained and TerminalExplained trace every overlap of
  deliveries, every repeated delivery and every overwritten final state to a
  disturbance of that very row; in a run without one there is none. DeadLettersListed
  says how a dead letter comes to be without an entry in `dead_letter_queue`, which is what a
  requeue needs: `recoverStaleLocks` retired the row, its worker died or failed before the
  second statement, or the cleanup job deleted the entry; requeues, repeated isolations and
  stale owners in between do not add a way. RowsSettle is the liveness
  of the whole: once disturbances end, each row is delivered, retired or
  waits for an operator, whatever was left locked.
- OnlyOutagesStop relates three parts of the code that were written apart: the order in which
  endpoints are tried, the attempts of one operation, and the reconnections of the poll loop. It
  holds with two reconnections and operations that may try the whole pool. With one reconnection
  and one contract it fails (three endpoints are enough), and with `RPC_MAX_RETRIES=1` even the
  default of five does not suffice. For n endpoints, threshold T, R reconnections, C contracts
  and r attempts per operation, section 4 proves it under (n - 1)T + 2n + Kr <= (R + 1)Cr, where
  K is the number of operations since the last good poll that may be rejected (`MaxRejections`).
  The defaults (T = 3, R = 5, r = n) meet the rule for every pool with K up to 6C - 5. Beyond K
  nothing is promised, and rightly: rejected operations alone stop the subscriber with every
  endpoint up, as they use up reconnections and never lead to another endpoint. The rule is
  sufficient, not necessary: the checker finds no failure for some smaller budgets (12 attempts
  in all for four endpoints).
- PaymentsAccounted closes the books of a group over top-ups, cancellations,
  reactivations and changes of the fee; NominationsExplained says when a nomination is
  not the owner's.

Runs that fail on purpose: each states what a doc, comment or test of the
repository says, and finds a behaviour of the code that does otherwise.

| Run | Property | The code |
|---|---|---|
| TaskBountyEscrow | FundsLocked | a refunded task is disputed, cancelled once more and refunded again, out of another task's escrow |
| SchedulingBatch | DeadLettersExhausted | a batch with one recipient twice is put back unsent until all of it is dead-lettered |

Other places where the code differs from what is written about it. The
models behave as the code does; no run is devoted to them.

- `utils/retry-backoff-config.ts:70-73` says that with `maxRetries = 0` nothing is
  retried; the resolved budget is at least one and `enqueue` does not look at it.
- `utils/retry-backoff-config.ts:63-67` promises that no delay exceeds `maxDelayMs`;
  `calculateBackoffDelay` applies jitter after the clamp.
- `schema.sql:255` rejects the status `PROCESSING`, so every `claimEvent` fails and is
  answered `claimed: true`, to any number of workers; `event-deduplication-service.ts:73-75`
  promises exactly one. (EventClaims with `TableStatuses <- SchemaStatuses` shows it.)
- `index.ts` declares `deduplicationService` (line 61), never constructs it and passes
  null on (line 206): nothing is recorded and a restart notifies again. (Ingestion with
  `HasDeduplication = FALSE`.)
- Two listeners on one database can both pass `isDuplicate` before either records
  the event (`event-subscriber.ts:519`); `concurrent-event-processing.test.ts:313` says that
  each event is notified exactly once. (Ingestion with two instances and no dry run.)
- An archived id can be scheduled again, and its next archive entry replaces the first
  (`autoshare_logic.rs:2566`); `base/types.rs:129-132` calls the copy immutable.
- `transfer_admin` leaves a nomination of the former owner pending, and the nominee
  can displace the new owner later, against "Until step 2 completes the current owner
  remains in control" (`autoshare_logic.rs`); NominationsExplained names it as the
  one exception.
- `add_group_member` validates the whole list after the addition, so it can add a member
  only to a list that the new percentage completes to 100: the first one with 100,
  later ones with 0.
- `recoverStaleLocks` dead-letters a row without an entry in `dead_letter_queue`, which
  `docs/NOTIFICATION-FLOW.md:144` promises.
- The cleanup job deletes entries of `dead_letter_queue` whose `created_at` is old
  (`database-cleanup-job.ts:45-50`); the upsert of a later isolation does not refresh it
  (`scheduled-notification-repository.ts:656-660`). The row stays DEAD_LETTERED, can no longer be
  requeued, and is not archived either (`archive-service.ts:203`).
  `docs/DATABASE_BACKUP_RESTORE.md:69` says that entries are deleted with their row.
- The cleanup job deletes re-detected rows of `processed_events` like any others;
  `cleanupOldRecords` (`event-deduplication-service.ts:493`), which would spare them, has no caller.
- `event-deduplication-service.ts:54-58` says that the lease keeps an event from being left
  un-notified after a crash between claim and completion. `claimEvent` has no caller, and
  polls do not return an event once the cursor is past it (`event-subscriber.ts:287-297`),
  so nobody would ask for it again.
- `executeWithFallback` reports "failed across N endpoint(s)" with the number of attempts;
  an operation may ask one endpoint twice and leave another out. Errors that
  `isRpcFailureCondition` does not know count against no endpoint, so one that keeps
  giving them (403, 404, answers that do not parse) is never left (`stellar-rpc-manager.ts:517-520`),
  and the subscriber stops after its reconnections (`event-subscriber.ts:652-655`) though the
  other endpoints are up.
- A crash between a delivery and `completeEvent` has the restarted listener send again
  (`RepeatsAreUnrecorded` allows for that; `REORG-DEDUPLICATION-MONITORING.md:340`
  does not).
- `completeEvent` also runs in a dry run, which logs "no persistence or delivery"
  (`event-subscriber.ts:608,635`). A listener that shares its database
  then takes the event for a duplicate and does not send it; `SeenEventsResolve`
  counts that as an end of the event.
- The delivery key on chain is the id XOR a sequence number, so the key of one
  notification may be taken by the delivery of another. Ids of a client that draws
  them at random meet only with negligible probability; those of one that counts
  meet at once.
- `confirm_notification_delivery` does not look at `recalled`, so a recalled
  notification can be delivered (`docs/contract-errors.md:301`).
- `WORKFLOWS.md:437-449` of TaskBounty calls Completed and Cancelled final; a dispute
  leads out of both. The FundsLocked counterexample takes it out of Cancelled and back. Another way,
  which needs a second submission: after the refund and the dispute, another pending submission
  is approved (`submission.rs:121`) and paid.

### Bounds, and why they are enough

- Queues: two slots and three events are the least with which a batch leaves an
  item behind, overlaps with another batch, and a third event is refused or
  accepted. An attempt budget of two has a first and a last attempt; in EventQueue
  the policy's ceiling is what makes it two. `MaxEnqueued` equals the number of
  items, so one item may also come back after it settled in the place of another.
  Ages saturate at `AgeCap`: three age bonuses in EventQueue and one in
  RetryQueue. The weighted priorities are 1, 3 and 7, so the low item catches up
  with the middle one and neither with the high one; OvertakingBounded is proved
  without a bound on the cap. Liveness needs no more: what arrives while an
  item waits is bounded by `MaxEnqueued`, and the retries are bounded by the budget.
- Claims: three workers are an owner, one that takes over, and one that takes over from that.
  `WorkBound` equals `Lease`, so a claim may run out before its work is done. `MaxAge` is above
  `Retention`, which is above `Lease`, so every comparison with a row's age goes both ways.
  `Lease <= Retention` is an assumption on the configuration: by default they are 300 seconds
  and 30 days, but `PROCESSED_EVENT_RETENTION_MS` may be set down to a minute, which the code
  does not compare with the lease. One failing statement lets one worker in besides the owner.
- Ingestion: two events make the cursor pass one that is still in memory; one crash
  and one failing statement at every point cover each single failure and the
  pair. Two instances are checked with one event: the properties are about
  single events, and the cursor's interplay is in the run with two. In
  IngestionShared one of the two is a dry run, which writes rows without sending.
- Scheduling: two rows in batches of two are the least with which one waits without a
  heartbeat, a batch is abandoned in the middle, and the two loops hold rows at
  once. A budget of two has a first and a last attempt, two runs a first and a last
  occurrence. The disturbance may be of any kind at any step, and all of the policies are
  chosen at each start or step, as they differ between deployments. SchedulingBatch gives both rows
  one recipient and needs no disturbance at all.
- RpcFailover: four endpoints leave three to choose from after a failure, in ring order or by
  age; the threshold of three is the default. Any set of endpoints may be up at first, so three
  disturbances let an outage begin with what an earlier one, its end and a rejected request leave
  of the endpoints' records. All three may be rejections, more than `MaxRejections` tolerates.
  `CHECK_DEADLOCK` is off since the subscriber may stop for good.
- AutoShareGroups: a whole of 2 in shares of 0, 1 and 2 has complete, incomplete and
  excessive lists; three users are an owner, a nominee and a third that is handed the
  contract; two payments at two fees tell amounts from usages.
- NotificationLifecycle: the maximal lifetime is two and extensions go to three,
  so that two legal extensions add up to an illegal one; two ids meet in
  a key after one delivery; three audit records let an id be created, removed and
  created again.
- TaskBounty: two tasks are the least that share an escrow, three submissions put
  two on one task. `CHECK_DEADLOCK` is off since the numbers of tasks and of
  submissions and the time are bounded and then no call is left.

Symmetry is used in AutoShareGroups, TaskBounty and TaskBountyEscrow, which have no
liveness properties; the sets it permutes are never compared or ordered by
the specifications. The Ingestion runs do not check for deadlock: after the last
reconnection attempt the subscriber stops for good.

### Fairness, and why the code justifies it

- EventQueue, RetryQueue: while the interval is armed it keeps firing (weak fairness of
  `processNext`, `processQueue`), the clock advances, and each processor call
  settles: its waits are database statements and webhook requests, which
  `webhook-sender.ts` aborts after `timeoutMs`. `EveryEventSettles` assumes that
  the interval eventually stays armed: nothing settles after `stop`.
- EventClaims: time passes, a worker completes what it claimed unless it dies (`WorkBound` is the
  number of seconds it may take), and the cleanup job, which is enabled by default and runs on
  an interval, gets to each expired row: a run deletes batches until none is left. Nobody has to
  claim an event again.
- Scheduling: the loops poll (their timers are armed again after every batch),
  deliveries and statements settle, heartbeats come, a process that ended is
  started again, locks run out, and schedules and backoffs fall due. No fairness of
  deadlines, disturbances, operators or the cleanup job.
- Ingestion: calls and statements settle, timers fire while the subscriber runs. Strong
  fairness of `processNext` for one event is what OvertakingBounded gives: an
  event that is due again and again is not passed over for ever. No fairness
  is assumed of polling, publishing or crashing.

The contracts have no fairness and no liveness properties: nobody has to call them.

## 4. What is proved

For all values of the constants that satisfy the named assumptions:

- `EventQueueProofs`: TypeOK, FingerprintsTracked, ConcurrencyBounded,
  MetricsBalance, OvertakingBounded, and that EventQueue implements WorkPool. TypeOK
  is inductive. FingerprintsTracked is inductive given TypeOK and is the hinge:
  with it, the cardinality of `activeFingerprints` is the number of calls
  in flight (`CountItems`), which bounds concurrency and gives each counter the item it
  counts; and each item is the only one of its event, so `PoolAttempts` is well
  defined. OvertakingBounded is an action property: it follows from the selection
  rule of `processNext` and arithmetic on the age bonus. Assumptions:
  `RetryPolicyAssumption`, `EventQueueAssumption` and `BackoffAssumption`, which
  says that delays are natural numbers (the provers do not know exponentiation).
- `RetryQueueProofs`: TypeOK, RetriesTracked, BatchOrder, and that RetryQueue implements
  WorkPool. TypeOK and RetriesTracked are inductive together: an item is in one place, in
  `queue`, in the rest of one batch or in flight, and no two items share a
  fingerprint. The places of an item are compared across batches, so the proof shows for each
  step which places it takes away and adds. BatchOrder follows from the sort
  (`YoungerNotFirst`: of two items of one priority it never puts the younger first, since the age
  bonus grows with age) and from all the ages in a batch growing alike. Assumptions:
  `RetryQueueAssumption`, `RetryPolicyAssumption`, `BackoffAssumption`.
- `EventClaimsProofs`: TypeOK, ClaimsExclusive, CompletedStays and CompletedNotClaimed, on any
  table. ClaimsExclusive is not inductive: it needs `Backed`, that a claim made in the
  table and within its lease has a row no older than the claim. A takeover needs a row
  older than the lease, hence no claim within the lease; the cleanup job
  removes only rows older than `Retention >= Lease`; and the statements that renew a
  row only make it younger. The two action properties are proved from TypeOK, one
  statement at a time; that an event has one row at most is what they need of it.
- `SubscriberProofs`, of Ingestion: TypeOK, SentRowsAreTrue, OnlyCrashesLose and
  RepeatsAreUnrecorded, for any number of listeners, events, crashes and failing statements. The
  invariants: `Truthful` (whoever believes that an event was sent, a row, the deduplicator or a
  call of `processEvent`, is right), `Accounted` (an event that has a row or is about to get one
  is resolved, lost or in the retry queue, so the event queue may let go of it) and `Recorded`
  (a request is made only for what was not delivered, and what was delivered has a row, or
  `completeEvent` is about to write it). The last theorem has the hypothesis `OneSender`: there
  is a deduplication service, and at most one of the instances on the database is not a dry run.
  Both runs are set up like that; without it the property is false, as section 3 says of two
  listeners, and the other three theorems need no such hypothesis.
- `SubscriberProofs`, of RpcFailover: FailoverTypeOK and OnlyOutagesStop. The first is inductive
  and contains the order of last failures: strict, total on the endpoints that are not healthy,
  and cooled down from its old end. The second is a bound on a search, shown by a potential.
  `Potential(e)` is at least the number of attempts that may still fail before e is the active
  endpoint: the failures the others may yet count (`Room`), and what goes before e in the choice
  of the next endpoint (`Detour`): its distance in ring order, the healthy ones if it is
  degraded, the older failures if it is unhealthy. `FailureApproaches` says that each attempt
  that fails elsewhere makes e active or lowers the potential. That is where the three
  priorities of `switchToNextEndpoint` and the threshold have to fit together: an endpoint whose
  count is at the threshold already leaves `Room` as it was, so the detour must get shorter,
  which takes two invariants more (`CooledFirst`, `ActiveOldest`). `InTime` then says that three
  numbers together stay below all attempts: the attempts made, where a rejected operation counts
  as all of its attempts, the potential of any endpoint that stayed up (`Cost`, 0 if it is
  active), and what the tolerated rejections still to come may take (`Spare`); it says so as
  long as no more than `MaxRejections` operations were rejected. The theorem has the hypothesis
  `EnoughAttempts`, the rule of section 3, and `DefaultsSuffice` shows that the defaults of
  `config.ts` imply it for up to 6C - 5 rejections. Assumption: `RpcFailoverAssumption`.
- `SchedulingProofs`: TypeOK, OverlapsExplained, RepeatsExplained, TerminalExplained and
  DeadLettersListed, for any rows, loops and processes. Three invariants carry them. `LockKept`:
  a loop that is to write a row which no lock, operator or log entry has disturbed still owns
  it. `OneInWork`: a loop works on one row at a time. `SentOnce`: what was delivered without a
  disturbance is completed or about to be. A step of the specification is one of five shapes
  (`QuietStep`, `CleanupStep`, `DropStep`, `ClaimStep`, `HandStep`: nobody's work changes,
  entries are deleted, work is dropped, a batch is claimed, one loop moves one row on), and the
  invariants are shown for the shapes. DeadLettersListed is an action property: `UnlistedStep`
  shows that of the five only `CleanupStep` makes a dead letter unlisted. Assumption:
  `SchedulingAssumption`.
- `AutoShareGroupsProofs`: TypeOK, UsagesAccounted, PaymentsAccounted and
  NominationsExplained. TypeOK contains that the members of each group
  share the whole: a list is only ever installed by `setMembers`, after
  `validate_members`. UsagesAccounted is inductive given TypeOK: each call changes the
  counts of one group (`UsagesOfOneGroup`), and what it takes from
  `usage_count` it adds to `used` or `forfeited`. PaymentsAccounted follows from it and
  `BooksClosed`: `UsagesPaid` (the payments of a group add up to the usages it bought, and a
  group that does not exist has none), `HistoriesAgree` (the histories of user and
  group list the same payments in the same order) and `MoneyBalances` (what the contract
  has and what was withdrawn is what was paid). Assumption: finitely many groups and
  tokens, over which the last one sums.
- `NotificationLifecycleProofs`: TypeOK with the bound on the total lifetime,
  AuditBalance, RevocationFinal and RemovalExplained. AuditBalance counts positions
  of a sequence; `AppendCount` and `BatchCount` say what one record and a
  batch of distinct ids add. The duplicate check of the batch is what the second
  needs. RevocationFinal and RemovalExplained are action properties proved from
  TypeOK, action by action.
- `TaskBountyProofs`: TypeOK, NoRefundAfterPayout and PaymentsRecorded. TypeOK contains that a
  task's `submission_count` is the number of its submissions, within `max_submissions`, no two
  of one contributor: `submit_work` adds exactly one to both, and every other call leaves them
  (`KeepingCounts`). NoRefundAfterPayout is an action property; its invariant is PaidApproved,
  that a payout leaves an approved submission behind, which no call takes back and which
  `cancel_task` looks for. PaymentsRecorded has three parts, each inductive given TypeOK: no
  disputed submission is approved, a task was paid as often as it has approved submissions, and
  the contract holds what was put in for each task less what was paid out and back. The last
  goes on as an equation when a refunded task is refunded again: the share of that task becomes
  negative, which is what FundsLocked shows.

Sums are where these proofs need induction. `MapThenSumSet` and `FoldSeq` choose a recursive
function on the subsets of a finite set, and the library's induction theorems cannot be
instantiated here. The proofs argue by a least counterexample instead: `Least`, from the
well-foundedness of < on the naturals, gives a smallest set for which a statement about sums
fails. `SumsExist` says that the function which the definition chooses exists, `SumWithout` that
any element may be the one taken out first, and `SumChanged` what changing one summand or adding
one does to the sum. The two modules that need these lemmas each hold them; `SubscriberProofs`
uses `Least` for the nearest endpoint and the oldest failure.

Only model-checked: all liveness properties (the proof system does not handle
fairness). The two properties that fail on purpose have counterexamples instead.
Exponentiation (`BackoffAssumption`) and the XOR of delivery keys enter
the proofs by assumptions, which TLC evaluates on the instances.

## 5. What is not modelled

- Configurations of the subscriber without a Discord service or without an event
  queue, a backfill limit (`maxLedgers` is 0, so `resolveBackfillStartLedger`
  answers 1), several contracts in one subscriber, `detectReorg` (it logs and records),
  quarantine and expiration beyond their verdict, the reclaim of queue items at
  `stop`.
- The attempts inside `sendEventNotification` and its circuit breaker; its outcome is
  what the rest depends on.
- Scheduling: audit rows and statistics, the horizon and priorities, the order inside a
  batch, `WORKER_CONCURRENCY` above 1, `deleteExpiredNotifications`, rows created after the
  start, receipts of the scheduler (`index.ts:153` passes a repository, which the constructor,
  `notification-scheduler.ts:41-57`, does not store),
  `enqueueNextLocalOccurrence` (never called), the signature of payloads
  (`PAYLOAD_INTEGRITY_SECRET` unset), and other users of one connection inside its
  transactions (`Database.transaction`). Starting both loops is one step.
- Archiving: `ArchiveService` moves rows that came to an end into a table of their own, and their
  entries in `dead_letter_queue` go with them; nothing reads those rows again. Of the cleanup
  job, the tables that decide nothing modelled.
- RpcFailover: `rpc-rate-limiter.ts` delays requests and `rpc-capability-checker.ts` warns at
  startup. Two failures never fall into one millisecond, and `cooldownMs` is positive.
- Both circuit breakers: nothing constructs them.
- Sources that do not compile as they stand: `scheduled-notification-repository.ts` (merged
  copies of code at 194-236, 403-418, 495-497), `notification-scheduler.ts` (names it
  does not import), the shutdown of `index.ts` (an undeclared `cleanupService`),
  TaskBounty's `types.rs` (a field declared twice, lines 81 and 84), `lib.rs` and `storage.rs`
  (repeated imports). Their logic is clear and is modelled.
- TaskBounty's `initialize` has no guard; it is taken as called once. Contract storage does not
  expire in the models, and authorisation (`require_auth`) is taken as given.
- API handlers, middleware, templates, search, statistics, configuration, dashboards and
  tools: conversions, validation and I/O. They are most of the repository's lines
  (`api/events-server.ts`, `config.ts`, the dashboard's pages), keep no state that two steps
  could disagree about, and are why the modelled share of all lines is small.
- Idempotency keys, batching and digests, transactions on the shared connection and the
  quarantine counter have real hazards (`PROJECT.json` lists them without a property) and are
  next in the plan.

## 6. Plan

Done, in this order: RetryPolicy and EventQueue, WorkPool, RetryQueue, EventClaims,
Ingestion, NotificationLifecycle, TaskBounty, their first proofs; Scheduling,
AutoShareGroups, RpcFailover, AutoShareGroupsProofs, TaskBountyProofs; RetryQueueProofs,
SchedulingProofs, the proofs about Ingestion, and the sums of PaymentsRecorded and
PaymentsAccounted; RpcFailover's order of failures as a relation, and the proofs about it.

Next modules: `IdempotencyKeys` (lookup, handler, store, by concurrent requests),
`EventBatcher` with digests (a batch is taken out before it is emitted),
`DatabaseTransactions` (statements of others on the shared connection), `Reorg`
(`detectReorg`, cursors with ledger 0, quarantine), `DiscordSender` (attempts, timeout,
deduplication window with its eviction order, shown to implement the outcomes Ingestion
uses), TaskBounty with a second `initialize` and with API keys.

Next theorems: a bound for OnlyOutagesStop that is met with equality, and WorkPool with a
restart and with work that is settled as soon as it begins. Ingestion's queues do both
(`Crash`, and an event that fails normalization), so they implement that and not the
WorkPool of today; what is proved of them is its bounds, in Ingestion's TypeOK.

## 7. Running

```
tlc -workers 2 -config EventQueue.cfg MCEventQueue.tla
tlapm EventQueueProofs.tla
```

Each run of `PROJECT.json` names its module and its cfg; every property of a passing run
has a mutant there, a definition with a plausible mistake (marked `Mutant:` in the
modules) under which the run must find the property violated.
