---------------------------- MODULE Scheduling ----------------------------
(***************************************************************************)
(* Scheduled notifications (listener/src/services):                        *)
(* scheduled-notification-repository.ts, and the loops that claim its rows *)
(* and deliver them, notification-scheduler.ts and retry-scheduler.ts, with*)
(* notification-claim-lease.ts and worker-manager.ts; and the cleanup job  *)
(* of the process, database-cleanup-job.ts, on dead_letter_queue.          *)
(*                                                                         *)
(* A processor is a poll loop of one of the two kinds.  It claims a batch  *)
(* of rows by one UPDATE and works them off one after the other            *)
(* (WORKER_CONCURRENCY is 1, its default); only the row in work has a      *)
(* heartbeat that renews its lock.  Every SQL statement or transaction is  *)
(* a step, and so are a lock that runs out, a statement that fails, and    *)
(* a process that dies or shuts down at any point.  Times are relations to *)
(* now: due, past its deadline, waiting for a retry.                       *)
(***************************************************************************)
EXTENDS FiniteSets, RetryPolicy

CONSTANTS
    Rows,               \* scheduled notifications
    Recipient,          \* Recipient[n]: target_recipient of n
    Recurring,          \* the rows with a recurrence_rule
    WithDeadline,       \* the rows with expires_at
    Schedulers,         \* NotificationScheduler instances
    Retriers,           \* RetryScheduler instances
    Process,            \* Process[p]: the process that runs p
    None,               \* processor_id IS NULL
    MaxRetries,         \* max_retries of every row
    BatchSize,          \* config.batchSize of every processor
    RecoveryPolicies,   \* values config.recoveryPolicy may have
    MissedPolicies,     \* values config.missedSchedulePolicy may have
    MaxRuns,            \* recurrence.count (bound)
    MaxDisturbances     \* late heartbeats, failing statements, lost answers,
                        \* crashes, shutdowns and requests, together (bound)

Processors == Schedulers \cup Retriers
Processes == {Process[p] : p \in Processors}
At(h) == {p \in Processors : Process[p] = h}

ASSUME SchedulingAssumption ==
    /\ IsFiniteSet(Rows) /\ None \notin Processors
    /\ Schedulers \cap Retriers = {}
    /\ DOMAIN Recipient = Rows /\ DOMAIN Process = Processors
    /\ Recurring \cup WithDeadline \subseteq Rows
    /\ MaxRetries \in Nat /\ BatchSize \in Nat \ {0} /\ MaxRuns \in Nat \ {0}
    /\ RecoveryPolicies \subseteq {"EXECUTE", "EXPIRE", "REQUIRE_INTERVENTION"}
    /\ MissedPolicies \subseteq {"execute", "expire", "intervene"}
    /\ MaxDisturbances \in Nat

\* enum NotificationStatus, less FAILED, which nothing writes any more.
NotificationStatus ==
    {"PENDING", "PROCESSING", "COMPLETED", "DEAD_LETTERED", "CANCELLED", "EXPIRED"}

\* Where the work of a processor on a row stands. In "completing" and
\* "logging" an error is caught and counts as a failed delivery; in
\* "releasing", "failing", "isolating" and "noting" it ends the batch.
Stages == {"none", "overdue", "waiting", "releasing", "delivering", "completing",
           "logging", "failing", "isolating", "noting"}

VARIABLES
    row,        \* table scheduled_notifications
    dlq,        \* rows with an entry in dead_letter_queue
    job,        \* job[p][n]: what p remembers of n, and what it is doing with it
    polling,    \* polling[p]: recoverStaleLocks is done, the claim is next
    process,    \* process[h]: "up", "closing" (isShuttingDown) or "down"
    disturbances,   \* how many of them there were
    sent,       \* history: deliveries the provider accepted, up to two
    blame       \* history: blame[n]: the disturbances that involved n

history == <<disturbances, sent, blame>>
vars == <<row, dlq, job, polling, process, history>>

\* The columns that decide something. lock: lock_expires_at is in the future.
\* retryAt: next_retry_at is past or NULL ("none"), in the future ("backoff"),
\* in the year 9999 ("parked"), or cleared by an operator ("released").
\* held: recovery_state = 'AWAITING_INTERVENTION'. error: last_error.
Row == [status: NotificationStatus, owner: Processors \cup {None}, lock: BOOLEAN,
        retries: 0 .. AtLeastOne(MaxRetries), retryAt: {"none", "backoff", "parked", "released"},
        due: BOOLEAN, late: BOOLEAN, held: BOOLEAN, runs: 0 .. MaxRuns,
        error: {"none", "lock expired", "released", "failed"}]

\* released: isInterventionReleased. fatal: a permanent failure.
NoJob == [at |-> "none", retries |-> 0, released |-> FALSE, fatal |-> FALSE]
Job == [at: Stages, retries: 0 .. AtLeastOne(MaxRetries), released: BOOLEAN, fatal: BOOLEAN]

Terminal == {"COMPLETED", "CANCELLED", "EXPIRED"}
InWork(p, n) == job[p][n].at \notin {"none", "overdue", "waiting", "releasing"}
Busy(p) == \E n \in Rows : InWork(p, n)
HasBatch(p) == \E n \in Rows : job[p][n].at # "none"
Running(p) == process[Process[p]] # "down"

Init ==
    /\ row = [n \in Rows |-> [status |-> "PENDING", owner |-> None, lock |-> FALSE,
                              retries |-> 0, retryAt |-> "none", due |-> FALSE, late |-> FALSE,
                              held |-> FALSE, runs |-> 0, error |-> "none"]]
    /\ dlq = {}
    /\ job = [p \in Processors |-> [n \in Rows |-> NoJob]]
    /\ polling = [p \in Processors |-> FALSE]
    /\ process = [h \in Processes |-> "down"]
    /\ disturbances = 0 /\ sent = [n \in Rows |-> 0] /\ blame = [n \in Rows |-> {}]

(***************************************************************************)
(* Statements of the repository, on one row.                               *)
(***************************************************************************)
Unlocked(r) == [r EXCEPT !.owner = None, !.lock = FALSE]

TimedOut(r) ==
    [Unlocked(r) EXCEPT
        !.status = IF r.retries + 1 >= MaxRetries THEN "DEAD_LETTERED" ELSE "PENDING",
        !.retries = @ + 1, !.error = "lock expired",
        !.retryAt = IF @ = "released" THEN "none" ELSE @]

\* Mutant: the lock's expiry is not looked at.
recoverAllLocks(r) == IF r.status = "PROCESSING" /\ r.owner # None THEN TimedOut(r) ELSE r

\* recoverStaleLocks: the time-out counts as an attempt; retry times and
\* dead_letter_queue are left alone.
recoverStaleLocks(r) ==
    IF r.status = "PROCESSING" /\ r.owner # None /\ ~r.lock THEN TimedOut(r) ELSE r

\* Mutant: the status is not looked at.
recoverAnyOverdue(r, policy) ==
    IF r.held \/ ~r.due THEN r
    ELSE IF policy = "EXPIRE" THEN [r EXCEPT !.status = "EXPIRED"] ELSE [r EXCEPT !.held = TRUE]

\* recoverOverdueSchedules
recoverOverdueSchedules(r, policy) ==
    IF ~(r.status = "PENDING" /\ ~r.held /\ r.due) THEN r
    ELSE CASE policy = "EXECUTE" -> r
           [] policy = "EXPIRE" -> [r EXCEPT !.status = "EXPIRED"]
           [] policy = "REQUIRE_INTERVENTION" -> [r EXCEPT !.held = TRUE]

\* markAsExpired, holdForIntervention: only while the row is being processed.
markAsExpired(r) ==
    IF r.status = "PROCESSING"
    THEN [Unlocked(r) EXCEPT !.status = "EXPIRED", !.retryAt = "none", !.error = "failed"] ELSE r

\* Mutant: the lock is released, the status forgotten.
holdProcessing(r) == IF r.status = "PROCESSING" THEN Unlocked(r) ELSE r

holdForIntervention(r) ==
    IF r.status = "PROCESSING"
    THEN [Unlocked(r) EXCEPT !.status = "PENDING", !.retryAt = "parked", !.error = "failed"] ELSE r

\* markAsCompleted: only a recurring row is asked for its status, none for its
\* owner. calculateNextRun gives the next run, or none after the last.
markAsCompleted(r, recurring) ==
    IF ~recurring THEN [Unlocked(r) EXCEPT !.status = "COMPLETED"]
    ELSE IF r.status # "PROCESSING" THEN r
    ELSE [Unlocked(r) EXCEPT
            !.status = IF r.runs + 1 < MaxRuns THEN "PENDING" ELSE "COMPLETED",
            !.runs = IF @ < MaxRuns THEN @ + 1 ELSE @, !.due = r.runs + 1 >= MaxRuns,
            !.retries = 0, !.retryAt = "none", !.error = "none"]

\* Mutant: the budget is not consulted.
retryForever(r, retries, budget, retryAt, error) ==
    [Unlocked(r) EXCEPT !.status = "PENDING", !.retries = retries + 1,
                        !.retryAt = retryAt, !.error = error]

\* markAsFailedOrRetry: writes the caller's count, whatever the row's status,
\* owner or count may be by now.
markAsFailedOrRetry(r, retries, budget, retryAt, error) ==
    IF retries + 1 >= budget
    THEN [Unlocked(r) EXCEPT !.status = "DEAD_LETTERED", !.retries = retries,
                             !.retryAt = "none", !.error = error]
    ELSE [Unlocked(r) EXCEPT !.status = "PENDING", !.retries = retries + 1,
                             !.retryAt = retryAt, !.error = error]

\* Mutant: a row in work can be claimed again.
claimableInWork(p, r) ==
    r.status \in {"PENDING", "PROCESSING"} /\ ~r.held /\ r.due

\* The WHERE clauses of the two claims.
Pending(r) == r.status = "PENDING" /\ ~r.held /\ r.retryAt \in {"none", "released"}
claimable(p, r) ==
    IF p \in Schedulers THEN Pending(r) /\ r.due ELSE Pending(r) /\ r.retries > 0

\* rejectIfInvalid, of all that BatchValidator checks: each recipient once.
DuplicateRecipient(S) == \E m, n \in S : m # n /\ Recipient[m] = Recipient[n]

(***************************************************************************)
(* Polling.                                                                *)
(***************************************************************************)
\* The opening transaction of processPendingNotifications and processDueRetries;
\* the timer is armed again only when the last batch is done.
poll(p) ==
    /\ Running(p) /\ ~polling[p] /\ ~HasBatch(p)
    /\ row' = [n \in Rows |-> recoverStaleLocks(row[n])]
    /\ polling' = [polling EXCEPT ![p] = TRUE]
    /\ UNCHANGED <<dlq, job, process, history>>

\* fetchAndLockPendingNotifications, fetchDueRetries. The scheduler goes on to
\* expire what is past its deadline and to have the whole batch validated.
fetchAndLock(p) ==
    LET Due == {n \in Rows : claimable(p, row[n])}
        Claimed(S, n) ==
            [NoJob EXCEPT !.retries = row[n].retries,
                          !.released = row[n].retryAt = "released",
                          !.at = IF p \in Schedulers /\ row[n].late THEN "overdue"
                                 ELSE IF p \in Schedulers /\ DuplicateRecipient(S) THEN "releasing"
                                 ELSE "waiting"]
    IN /\ Running(p) /\ polling[p]
       /\ polling' = [polling EXCEPT ![p] = FALSE]
       /\ \E S \in SUBSET Due :
            /\ Cardinality(S) = IF Cardinality(Due) < BatchSize THEN Cardinality(Due) ELSE BatchSize
            /\ row' = [n \in Rows |-> IF n \in S
                         THEN [row[n] EXCEPT !.status = "PROCESSING", !.owner = p, !.lock = TRUE]
                         ELSE row[n]]
            /\ job' = [job EXCEPT ![p] = [n \in Rows |-> IF n \in S THEN Claimed(S, n) ELSE NoJob]]
       /\ UNCHANGED <<dlq, process, history>>

(***************************************************************************)
(* Working a batch off.                                                    *)
(***************************************************************************)
SetJob(p, n, j) == job' = [job EXCEPT ![p][n] = j]
Advance(p, n, stage) == SetJob(p, n, [job[p][n] EXCEPT !.at = stage])
SetRow(n, r) == row' = [row EXCEPT ![n] = r]

\* The first call of expireIfPastDeadline, before the batch is worked off.
expireOverdue(p, n) ==
    /\ job[p][n].at = "overdue"
    /\ SetRow(n, markAsExpired(row[n])) /\ SetJob(p, n, NoJob)
    /\ UNCHANGED <<dlq, polling, process, history>>

\* A rejected batch, and one that meets a shutdown, goes back row by row.
Releases(p, n) ==
    /\ \/ job[p][n].at = "releasing"
       \/ job[p][n].at = "waiting" /\ process[Process[p]] = "closing"
    /\ ~Busy(p) /\ \A m \in Rows : job[p][m].at # "overdue"

\* A row goes back as if it had failed: without a delay, one attempt poorer.
release(p, n) ==
    /\ Releases(p, n)
    /\ SetRow(n, markAsFailedOrRetry(row[n], job[p][n].retries, MaxRetries, "none", "released"))
    /\ IF row'[n].status = "DEAD_LETTERED" THEN Advance(p, n, "isolating") ELSE SetJob(p, n, NoJob)
    /\ UNCHANGED <<dlq, polling, process, history>>

\* startJob accepts, the heartbeat starts, and processNotification or
\* processRetry decides what becomes of the row.
Starts(p, n) ==
    /\ job[p][n].at = "waiting" /\ process[Process[p]] = "up" /\ ~Busy(p)
    /\ \A m \in Rows : job[p][m].at # "overdue"

startExpired(p, n) ==
    /\ Starts(p, n)
    /\ \/ row[n].late
       \/ p \in Schedulers /\ "expire" \in MissedPolicies /\ ~job[p][n].released
    /\ SetRow(n, markAsExpired(row[n]))
    /\ Advance(p, n, IF p \in Schedulers THEN "logging" ELSE "noting")
    /\ UNCHANGED <<dlq, polling, process, history>>

startHeld(p, n) ==
    /\ Starts(p, n) /\ ~row[n].late
    /\ p \in Schedulers /\ "intervene" \in MissedPolicies /\ ~job[p][n].released
    /\ SetRow(n, holdForIntervention(row[n])) /\ Advance(p, n, "logging")
    /\ UNCHANGED <<dlq, polling, process, history>>

startDelivery(p, n) ==
    /\ Starts(p, n) /\ ~row[n].late
    /\ Advance(p, n, "delivering")
    /\ UNCHANGED <<row, dlq, polling, process, history>>

Accepted(n) == sent' = [sent EXCEPT ![n] = IF @ < 2 THEN @ + 1 ELSE @]

deliverySucceeds(p, n) ==
    /\ job[p][n].at = "delivering"
    /\ Accepted(n) /\ Advance(p, n, "completing")
    /\ UNCHANGED <<row, dlq, polling, process, disturbances, blame>>

\* Only the retry scheduler tells permanent failures (classifyError) apart.
deliveryFails(p, n) ==
    /\ job[p][n].at = "delivering"
    /\ \E fatal \in IF p \in Retriers THEN BOOLEAN ELSE {FALSE} :
         SetJob(p, n, [job[p][n] EXCEPT !.at = "failing", !.fatal = fatal])
    /\ UNCHANGED <<row, dlq, polling, process, history>>

\* The receipt is part of this step: if it fails, Caught applies.
complete(p, n) ==
    /\ job[p][n].at = "completing"
    /\ SetRow(n, markAsCompleted(row[n], n \in Recurring)) /\ Advance(p, n, "logging")
    /\ sent' = IF row'[n].runs # row[n].runs /\ row'[n].status = "PENDING"
               THEN [sent EXCEPT ![n] = 0] ELSE sent
    /\ UNCHANGED <<dlq, polling, process, disturbances, blame>>

\* logExecution, of a success (inside the try) or of a failure (outside).
logExecution(p, n) ==
    /\ job[p][n].at \in {"logging", "noting"} /\ SetJob(p, n, NoJob)
    /\ UNCHANGED <<row, dlq, polling, process, history>>

\* The catch clause. A permanent failure makes the attempt that just failed the budget.
budget(p, n) ==
    LET attempt == job[p][n].retries + 1
    IN CASE job[p][n].fatal -> attempt
         [] p \in Retriers -> resolveMaxAttempts(MaxRetries)
         [] OTHER -> MaxRetries

\* Mutant: a permanent failure is retired without an entry in the queue.
failUnlisted(p, n) ==
    /\ job[p][n].at = "failing"
    /\ SetRow(n, markAsFailedOrRetry(row[n], job[p][n].retries, budget(p, n), "backoff", "failed"))
    /\ Advance(p, n, IF row'[n].status = "DEAD_LETTERED" /\ ~job[p][n].fatal
                     THEN "isolating" ELSE "noting")
    /\ UNCHANGED <<dlq, polling, process, history>>

fail(p, n) ==
    /\ job[p][n].at = "failing"
    /\ SetRow(n, markAsFailedOrRetry(row[n], job[p][n].retries, budget(p, n), "backoff", "failed"))
    /\ Advance(p, n, IF row'[n].status = "DEAD_LETTERED" THEN "isolating" ELSE "noting")
    /\ UNCHANGED <<dlq, polling, process, history>>

\* moveToDeadLetterQueue is a statement of its own.
moveToDeadLetterQueue(p, n) ==
    /\ job[p][n].at = "isolating"
    /\ dlq' = dlq \cup {n} /\ Advance(p, n, "noting")
    /\ UNCHANGED <<row, polling, process, history>>

(***************************************************************************)
(* Disturbances.                                                           *)
(***************************************************************************)
Disturb == disturbances < MaxDisturbances /\ disturbances' = disturbances + 1

\* The lock window ends: of a row nobody works on, of one that waits in a
\* batch and has no heartbeat, or of one whose heartbeat is late.
lockExpires(n) ==
    LET p == row[n].owner IN
    /\ row[n].status = "PROCESSING" /\ row[n].lock
    /\ SetRow(n, [row[n] EXCEPT !.lock = FALSE])
    /\ IF job[p][n].at = "none" THEN UNCHANGED <<disturbances, blame>>
       ELSE Disturb /\ blame' = [blame EXCEPT ![n] = @ \cup {"lock expired"}]
    /\ UNCHANGED <<dlq, job, polling, process, sent>>

renewLock(p, n) ==
    /\ InWork(p, n)
    /\ row[n].owner = p /\ row[n].status = "PROCESSING" /\ ~row[n].lock
    /\ SetRow(n, [row[n] EXCEPT !.lock = TRUE])
    /\ UNCHANGED <<dlq, job, polling, process, history>>

Fault(n) == Disturb /\ blame' = [blame EXCEPT ![n] = @ \cup {"fault"}]

\* The provider accepts the message and the answer is lost.
acknowledgmentLost(p, n) ==
    /\ Fault(n) /\ job[p][n].at = "delivering"
    /\ Accepted(n) /\ Advance(p, n, "failing")
    /\ UNCHANGED <<row, dlq, polling, process>>

\* A statement after the delivery fails: the catch clause takes it for a failed
\* delivery. In "logging" the row is written already and may be another's by now.
Caught(p, n) ==
    /\ Disturb /\ job[p][n].at \in {"completing", "logging"}
    /\ blame' = [blame EXCEPT ![n] =
                    @ \cup {IF job[p][n].at = "logging" THEN "unlogged" ELSE "fault"}]
    /\ Advance(p, n, "failing")
    /\ UNCHANGED <<row, dlq, polling, process, sent>>

\* A statement outside the try fails: the rest of the batch is dropped as it is.
BatchAborts(p, n) ==
    /\ Fault(n)
    /\ Releases(p, n) \/ job[p][n].at \in {"overdue", "failing", "isolating", "noting"}
    /\ job' = [job EXCEPT ![p] = [m \in Rows |-> NoJob]]
    /\ UNCHANGED <<row, dlq, polling, process, sent>>

\* The process ends with whatever it was doing.
Ends(h) ==
    /\ process' = [process EXCEPT ![h] = "down"]
    /\ job' = [p \in Processors |-> IF p \in At(h) THEN [n \in Rows |-> NoJob] ELSE job[p]]
    /\ polling' = [p \in Processors |-> p \notin At(h) /\ polling[p]]
    /\ blame' = [n \in Rows |-> IF \E p \in At(h) : InWork(p, n)
                                THEN blame[n] \cup {"stop"} ELSE blame[n]]
    /\ UNCHANGED <<row, dlq, sent>>

Crash(h) == process[h] # "down" /\ Disturb /\ Ends(h)

\* initiateGracefulShutdown: no new jobs. Nothing stops the scheduler's poll loop.
shutdown(h) ==
    /\ process[h] = "up" /\ Disturb
    /\ process' = [process EXCEPT ![h] = "closing"]
    /\ UNCHANGED <<row, dlq, job, polling, sent, blame>>

\* process.exit, when the last job is done or after MAX_SHUTDOWN_WAIT_MS.
exit(h) == process[h] = "closing" /\ UNCHANGED disturbances /\ Ends(h)

\* The start methods of both loops.
start(h) ==
    /\ process[h] = "down"
    /\ process' = [process EXCEPT ![h] = "up"]
    /\ \E policy \in RecoveryPolicies :
         row' = [n \in Rows |-> recoverOverdueSchedules(recoverStaleLocks(row[n]), policy)]
    /\ UNCHANGED <<dlq, job, polling, history>>

(***************************************************************************)
(* Time, and the requests of users and operators (notification-api.ts).    *)
(***************************************************************************)
becomesDue(n) ==
    /\ row[n].status = "PENDING" /\ ~row[n].due
    /\ SetRow(n, [row[n] EXCEPT !.due = TRUE])
    /\ UNCHANGED <<dlq, job, polling, process, history>>

deadlinePasses(n) ==
    /\ n \in WithDeadline /\ ~row[n].late
    /\ SetRow(n, [row[n] EXCEPT !.late = TRUE])
    /\ UNCHANGED <<dlq, job, polling, process, history>>

backoffEnds(n) ==
    /\ row[n].retryAt = "backoff"
    /\ SetRow(n, [row[n] EXCEPT !.retryAt = "none"])
    /\ UNCHANGED <<dlq, job, polling, process, history>>

Request(n, r) ==
    /\ Disturb /\ SetRow(n, r)
    /\ UNCHANGED <<job, polling, process, sent>>

cancel(n) ==
    /\ row[n].status = "PENDING" /\ ~row[n].held
    /\ Request(n, [row[n] EXCEPT !.status = "CANCELLED"])
    /\ UNCHANGED <<dlq, blame>>

\* updatePending: execute_at moves to the future.
updatePending(n) ==
    /\ row[n].status = "PENDING" /\ row[n].due
    /\ Request(n, [row[n] EXCEPT !.due = FALSE])
    /\ UNCHANGED <<dlq, blame>>

\* releaseIntervention
releaseIntervention(n) ==
    /\ row[n].status = "PENDING" /\ row[n].retryAt = "parked"
    /\ Request(n, [row[n] EXCEPT !.retryAt = "released"])
    /\ UNCHANGED <<dlq, blame>>

resolveAwaitingIntervention(n) ==
    /\ row[n].status = "PENDING" /\ row[n].held
    /\ \E status \in {"PENDING", "EXPIRED"} :
         Request(n, [row[n] EXCEPT !.status = status, !.held = FALSE])
    /\ UNCHANGED <<dlq, blame>>

\* retryDeadLetterNotification: the entry stays, and neither the status of the
\* row nor its lock is looked at.
retryDeadLetterNotification(n) ==
    /\ n \in dlq
    /\ Request(n, [row[n] EXCEPT !.status = "PENDING", !.retries = 0, !.retryAt = "none",
                                 !.error = "none"])
    /\ blame' = [blame EXCEPT ![n] = @ \cup {"requeued"}]
    /\ UNCHANGED dlq

\* One transaction of the cleanup job: some of the entries made long enough ago.
\* created_at is that of the first isolation of a row, however often it was
\* requeued since, and the status of the row is not looked at.
deleteBatch(h, batch) ==
    /\ process[h] # "down"
    /\ dlq' = dlq \ batch
    /\ UNCHANGED <<row, job, polling, process, history>>

Work(p, n) ==
    \/ expireOverdue(p, n) \/ release(p, n)
    \/ startExpired(p, n) \/ startHeld(p, n) \/ startDelivery(p, n)
    \/ deliverySucceeds(p, n) \/ deliveryFails(p, n) \/ complete(p, n)
    \/ logExecution(p, n) \/ fail(p, n) \/ moveToDeadLetterQueue(p, n)

Next ==
    \/ \E p \in Processors : poll(p) \/ fetchAndLock(p)
    \/ \E p \in Processors, n \in Rows :
         \/ expireOverdue(p, n) \/ release(p, n)
         \/ startExpired(p, n) \/ startHeld(p, n) \/ startDelivery(p, n)
         \/ deliverySucceeds(p, n) \/ deliveryFails(p, n) \/ complete(p, n)
         \/ logExecution(p, n) \/ fail(p, n) \/ moveToDeadLetterQueue(p, n)
         \/ renewLock(p, n) \/ acknowledgmentLost(p, n) \/ Caught(p, n) \/ BatchAborts(p, n)
    \/ \E h \in Processes : Crash(h) \/ shutdown(h) \/ exit(h) \/ start(h)
    \/ \E n \in Rows :
         \/ lockExpires(n) \/ becomesDue(n) \/ deadlinePasses(n) \/ backoffEnds(n)
         \/ cancel(n) \/ updatePending(n) \/ releaseIntervention(n)
         \/ resolveAwaitingIntervention(n) \/ retryDeadLetterNotification(n)
    \/ \E h \in Processes, batch \in SUBSET dlq : deleteBatch(h, batch)

Spec == Init /\ [][Next]_vars

\* Loops poll, deliveries and statements settle, processes are restarted, and
\* time passes.
Fairness ==
    /\ \A p \in Processors : WF_vars(poll(p)) /\ WF_vars(fetchAndLock(p))
    /\ \A p \in Processors, n \in Rows : WF_vars(Work(p, n)) /\ WF_vars(renewLock(p, n))
    /\ \A h \in Processes : WF_vars(exit(h)) /\ WF_vars(start(h))
    /\ \A n \in Rows : WF_vars(lockExpires(n)) /\ WF_vars(becomesDue(n)) /\ WF_vars(backoffEnds(n))

FairSpec == Spec /\ Fairness

(***************************************************************************)
(* Properties.                                                             *)
(***************************************************************************)
\* Every variable keeps its type.
TypeOK ==
    /\ row \in [Rows -> Row]
    /\ dlq \subseteq Rows
    /\ job \in [Processors -> [Rows -> Job]]
    /\ polling \in [Processors -> BOOLEAN]
    /\ process \in [Processes -> {"up", "closing", "down"}]
    /\ disturbances \in 0 .. MaxDisturbances /\ sent \in [Rows -> 0 .. 2]
    /\ blame \in [Rows -> SUBSET {"lock expired", "fault", "unlogged", "stop", "requeued"}]

\* The lock keeps two processors from delivering one notification at the same
\* time (retry-scheduler.ts:115), unless it ran out under its owner, an operator
\* put the row back, or a run that was over was written once more as failed
\* because its log entry could not be.
OverlapsExplained ==
    \A n \in Rows, p, q \in Processors :
        p # q /\ job[p][n].at = "delivering" /\ job[q][n].at = "delivering"
        => blame[n] \cap {"lock expired", "requeued", "unlogged"} # {}

\* A provider gets a run of a notification a second time only after a
\* disturbance of that notification: nothing that goes well repeats a delivery.
RepeatsExplained == \A n \in Rows : sent[n] = 2 => blame[n] # {}

\* Completed, cancelled and expired are final (schedule-state-machine.ts:6-10)
\* unless a stale owner, a failing statement or an operator writes the row.
TerminalExplained ==
    [][\A n \in Rows : row[n].status \in Terminal /\ row'[n].status # row[n].status
                       => blame'[n] # {}]_vars

\* A dead letter without an entry in dead_letter_queue, which nobody can requeue,
\* although nobody is about to make one, recoverStaleLocks did not retire it and
\* no worker died or failed with it.
Unlisted(n) ==
    /\ row[n].status = "DEAD_LETTERED" /\ n \notin dlq
    /\ row[n].error # "lock expired" /\ blame[n] \cap {"fault", "stop"} = {}
    /\ \A p \in Processors : job[p][n].at # "isolating"

\* A dead letter becomes unlisted in one way only, the cleanup job deleting the
\* entry it had: no row is retired, requeued and retired again, or written by a
\* stale owner so that its entry is forgotten.
DeadLettersListed ==
    [][\A n \in Rows : Unlisted(n)' => Unlisted(n) \/ n \in dlq \ dlq']_vars

\* As long as disturbances end, every notification ends up delivered, retired,
\* or in the hands of an operator, and stays there.
RowsSettle ==
    \A n \in Rows : <>[](\/ row[n].status \in Terminal \cup {"DEAD_LETTERED"}
                         \/ row[n].status = "PENDING" /\ (row[n].held \/ row[n].retryAt = "parked"))

\* "Delivery failed after maximum retries" (docs/notifications/lifecycle.md:28):
\* a dead letter failed last, and was not put back by a loop that did not try it.
DeadLettersExhausted ==
    \A n \in Rows : row[n].status = "DEAD_LETTERED" => row[n].error # "released"
=============================================================================
