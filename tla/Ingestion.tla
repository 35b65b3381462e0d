----------------------------- MODULE Ingestion -----------------------------
(***************************************************************************)
(* EventSubscriber (listener/src/services/event-subscriber.ts) with the    *)
(* parts it drives: the poll loop, the event queue, processEvent, the      *)
(* Discord service, the retry queue, and the two tables that outlive the   *)
(* process.  Instances may crash and restart, and may share a database.    *)
(*                                                                         *)
(* The events of one contract are 1..Events, in ledger order; a cursor is  *)
(* the last event before it.  The two queues are used by what they         *)
(* promise (WorkPool, which EventQueue and RetryQueue implement): an event *)
(* is held at most once by each and attempted at most a given number of    *)
(* times.  A row of processed_events is used by what completeEvent,        *)
(* recordRedetection and isDuplicate do to it (EventClaims has the rest).  *)
(*                                                                         *)
(* `delivered` counts the notifications Discord acknowledged.  `seen`,     *)
(* `resolved`, `lost` and `unrecorded` are history the properties talk     *)
(* about; no action reads them.                                            *)
(***************************************************************************)
EXTENDS RetryPolicy, FiniteSets

CONSTANTS
    Instances,
    Events,                \* how many events the contract emits
    HasDeduplication,      \* whether a deduplicationService is passed in
    DryRun,                \* the instances with config.dryRun
    BatchSize,             \* config.eventBatchSize
    MaxReconnectAttempts,  \* config.maxReconnectAttempts
    MaxConcurrency,        \* config.eventQueue.maxConcurrency
    EventMaxRetries,       \* config.eventQueue.maxRetries
    RetryMaxRetries,       \* config.retryQueue.backoff.maxRetries
    MaxCrashes,            \* bound: crashes
    MaxFaults              \* bound: database statements that fail

Event == 1..Events

ASSUME IngestionAssumption ==
    /\ HasDeduplication \in BOOLEAN
    /\ DryRun \subseteq Instances
    /\ {Events, BatchSize, MaxConcurrency} \subseteq Nat \ {0}
    /\ {MaxReconnectAttempts, EventMaxRetries, RetryMaxRetries,
        MaxCrashes, MaxFaults} \subseteq Nat

VARIABLES
    published,     \* the events the contract has emitted: 1..published
    running,       \* isRunning, by instance; FALSE also while it is down
    up,            \* whether the process exists, by instance
    reconnects,    \* reconnectAttempts, by instance
    cursor,        \* lastCursors, by instance
    persisting,    \* whether checkForEvents waits for updatePollingCursor
    item,          \* the event queue and processEvent, by instance and event
    retry,         \* the retry queue, by instance and event
    marked,        \* NotificationDeduplicator.seen, by instance
    row,           \* processed_events, by event
    storedCursor,  \* polling_cursors
    delivered, seen, resolved, lost, unrecorded,
    crashes, faults

process == <<running, up, reconnects, cursor, persisting>>
history == <<delivered, seen, resolved, lost, unrecorded>>
vars == <<published, process, item, retry, marked, row, storedCursor, history, crashes, faults>>

NoCursor == -1
NoRow    == [status |-> "none", sent |-> FALSE, reorg |-> FALSE]

Outcome == {"none", "sent", "queued", "threw", "untried", "dry"}

\* Where an event is: not in the event queue; waiting in it; or in processEvent,
\* at the await of isDuplicate, recordRedetection, sendEventNotification, the
\* UPDATE of completeEvent or its INSERT.
Stage == {"idle", "pending", "checking", "redetecting", "sending", "completing", "inserting"}

Item  == [stage : Stage, outcome : Outcome, tries : 0..resolveMaxAttempts(EventMaxRetries) - 1]
Retry == [stage : {"idle", "pending", "taken", "sending"},
          tries : 0..resolveMaxAttempts(RetryMaxRetries) - 1]

Idle == [stage |-> "idle", outcome |-> "none", tries |-> 0]
NoRetry == [stage |-> "idle", tries |-> 0]

InFlight(i) == {e \in Event : item[i][e].stage \notin {"idle", "pending"}}

Held(i, e) == item[i][e].stage # "idle" \/ retry[i][e].stage # "idle"

Smaller(a, b) == IF a < b THEN a ELSE b

-----------------------------------------------------------------------------
Init ==
    /\ published = 0
    /\ running = [i \in Instances |-> FALSE]
    /\ up = [i \in Instances |-> FALSE]
    /\ reconnects = [i \in Instances |-> 0]
    /\ cursor = [i \in Instances |-> NoCursor]
    /\ persisting = [i \in Instances |-> FALSE]
    /\ item = [i \in Instances |-> [e \in Event |-> Idle]]
    /\ retry = [i \in Instances |-> [e \in Event |-> NoRetry]]
    /\ marked = [i \in Instances |-> {}]
    /\ row = [e \in Event |-> NoRow]
    /\ storedCursor = NoCursor
    /\ delivered = [e \in Event |-> 0]
    /\ seen = {} /\ resolved = {} /\ lost = {} /\ unrecorded = {}
    /\ crashes = 0
    /\ faults = 0

\* The contract emits an event.
publish ==
    /\ published < Events
    /\ published' = published + 1
    /\ UNCHANGED <<process, item, retry, marked, row, storedCursor, history, crashes, faults>>

\* One more database statement fails; the service logs it and goes on.
Fault == faults < MaxFaults /\ faults' = faults + 1

\* A process comes up: start, with restoreCheckpoints.
Start(i) ==
    /\ ~up[i]
    /\ up' = [up EXCEPT ![i] = TRUE]
    /\ running' = [running EXCEPT ![i] = TRUE]
    /\ \/ /\ HasDeduplication
          /\ cursor' = [cursor EXCEPT ![i] = storedCursor]
          /\ UNCHANGED faults
       \/ /\ HasDeduplication => Fault
          /\ ~HasDeduplication => UNCHANGED faults
          /\ UNCHANGED cursor
    /\ UNCHANGED <<published, reconnects, persisting, item, retry, marked, row,
                   storedCursor, history, crashes>>

\* The process dies: everything in memory is gone.
Crash(i) ==
    /\ up[i]
    /\ crashes < MaxCrashes
    /\ crashes' = crashes + 1
    /\ up' = [up EXCEPT ![i] = FALSE]
    /\ running' = [running EXCEPT ![i] = FALSE]
    /\ reconnects' = [reconnects EXCEPT ![i] = 0]
    /\ cursor' = [cursor EXCEPT ![i] = NoCursor]
    /\ persisting' = [persisting EXCEPT ![i] = FALSE]
    /\ item' = [item EXCEPT ![i] = [e \in Event |-> Idle]]
    /\ retry' = [retry EXCEPT ![i] = [e \in Event |-> NoRetry]]
    /\ marked' = [marked EXCEPT ![i] = {}]
    /\ lost' = lost \cup {e \in Event : Held(i, e)}
    /\ unrecorded' = unrecorded \cup {e \in Event : delivered[e] > 0 /\ row[e] = NoRow}
    /\ UNCHANGED <<published, row, storedCursor, delivered, seen, resolved, faults>>

-----------------------------------------------------------------------------
(* The poll loop: poll, checkForEvents, handleReconnection.                *)

polling(i) == running[i] /\ ~persisting[i]

\* getEvents fails: checkForEvents throws (the only contract failed) and
\* handleReconnection waits, or stops the subscriber and both its queues.
handleReconnection(i) ==
    /\ polling(i)
    /\ IF reconnects[i] >= MaxReconnectAttempts
       THEN /\ running' = [running EXCEPT ![i] = FALSE]
            /\ UNCHANGED reconnects
       ELSE /\ reconnects' = [reconnects EXCEPT ![i] = @ + 1]
            /\ UNCHANGED running
    /\ UNCHANGED <<published, up, cursor, persisting, item, retry, marked, row,
                   storedCursor, history, crashes, faults>>

\* The first event to ask for: without a cursor the oldest one, as
\* resolveBackfillStartLedger answers when backfill.maxLedgers is 0.
From(i) == IF cursor[i] = NoCursor THEN 1 ELSE cursor[i] + 1

\* EventProcessingQueue.enqueue refuses an event it holds already.
offered(i, e) == item[i][e].stage = "idle"

\* checkForEvents with a response: the events it lets through go into the
\* queue, the cursor moves on in memory, and the poll cycle ends at once or
\* after updatePollingCursor.  A response may carry no cursor.
checkForEvents(i) ==
    /\ polling(i)
    /\ LET last  == Smaller(From(i) + BatchSize - 1, published)
           batch == From(i)..last
       IN /\ \E wanted \in SUBSET batch :
               /\ item' = [item EXCEPT ![i] = [e \in Event |->
                      IF e \in wanted /\ offered(i, e)
                      THEN [Idle EXCEPT !.stage = "pending"] ELSE @[e]]]
               /\ seen' = seen \cup wanted
          /\ \/ /\ cursor' = [cursor EXCEPT ![i] = last]
                /\ persisting' = [persisting EXCEPT ![i] = HasDeduplication]
                /\ reconnects' = IF HasDeduplication THEN reconnects
                                 ELSE [reconnects EXCEPT ![i] = 0]
             \/ /\ reconnects' = [reconnects EXCEPT ![i] = 0]
                /\ UNCHANGED <<cursor, persisting>>
    /\ UNCHANGED <<published, running, up, retry, marked, row, storedCursor,
                   delivered, resolved, lost, unrecorded, crashes, faults>>

\* updatePollingCursor returns; its failure is only logged.
updatePollingCursor(i) ==
    /\ persisting[i]
    /\ persisting' = [persisting EXCEPT ![i] = FALSE]
    /\ reconnects' = [reconnects EXCEPT ![i] = 0]
    /\ \/ storedCursor' = cursor[i] /\ UNCHANGED faults
       \/ Fault /\ UNCHANGED storedCursor
    /\ UNCHANGED <<published, running, up, cursor, item, retry, marked, row,
                   history, crashes>>

-----------------------------------------------------------------------------
(* processEvent, as the event queue drives it.                             *)

SetItem(i, e, new) == item' = [item EXCEPT ![i][e] = new]

Advance(i, e, stage, outcome) ==
    SetItem(i, e, [item[i][e] EXCEPT !.stage = stage, !.outcome = outcome])

\* Mutant: an event whose notification threw keeps its slot.
KeptIfThrown(i, e, outcome) ==
    IF outcome = "threw" THEN [item[i][e] EXCEPT !.stage = "completing"] ELSE Idle

\* processEvent returns false only when it did not even try to send; the event
\* queue takes that for an "unknown" failure.  Otherwise the event is done.
AfterProcessEvent(i, e, outcome) ==
    LET tries == item[i][e].tries + 1
    IN IF outcome = "untried" /\ evaluate("unknown", tries, EventMaxRetries) = "retryable"
       THEN [stage |-> "pending", outcome |-> "none", tries |-> tries]
       ELSE Idle

\* What follows the attempt to send: completeEvent, if there is a service.
Finish(i, e, outcome) ==
    IF HasDeduplication
    THEN Advance(i, e, "completing", outcome)
    ELSE SetItem(i, e, AfterProcessEvent(i, e, outcome))

\* processEvent from the duplicate check to the next await: a dry run sends
\* nothing, the user's preferences may suppress the notification, and
\* sendEventNotification answers true for what it sent a moment ago.
Send(i, e) ==
    \/ i \in DryRun /\ Finish(i, e, "dry") /\ resolved' = resolved \cup {e}
    \/ i \notin DryRun /\ Finish(i, e, "untried") /\ resolved' = resolved \cup {e}
    \/ i \notin DryRun /\ e \in marked[i] /\ Finish(i, e, "sent") /\ resolved' = resolved \cup {e}
    \/ i \notin DryRun /\ e \notin marked[i] /\ Advance(i, e, "sending", "none") /\ UNCHANGED resolved

\* processNext starts the event: up to the await of isDuplicate, or beyond it
\* when there is nothing to ask.  An event that fails normalization is neither
\* sent nor recorded.
processNext(i, e) ==
    /\ running[i]
    /\ item[i][e].stage = "pending"
    /\ Cardinality(InFlight(i)) < MaxConcurrency
    /\ \/ /\ SetItem(i, e, AfterProcessEvent(i, e, "untried"))
          /\ resolved' = resolved \cup {e}
       \/ IF HasDeduplication /\ i \notin DryRun
          THEN Advance(i, e, "checking", "none") /\ UNCHANGED resolved
          ELSE Send(i, e)
    /\ UNCHANGED <<published, process, retry, marked, row, storedCursor,
                   delivered, seen, lost, unrecorded, crashes, faults>>

\* Mutant: only rows of notified events count as duplicates.
knownIfSent(e) == row[e].sent

\* isDuplicate: any row will do.
known(e) == row[e] # NoRow

\* isDuplicate returns; if the query failed it lets the event through.
isDuplicate(i, e) ==
    /\ item[i][e].stage = "checking"
    /\ \/ /\ known(e)
          /\ Advance(i, e, "redetecting", "none")
          /\ UNCHANGED <<resolved, unrecorded, faults>>
       \/ /\ ~known(e)
          /\ Send(i, e)
          /\ UNCHANGED <<unrecorded, faults>>
       \/ /\ Fault
          /\ Send(i, e)
          /\ unrecorded' = unrecorded \cup {e}
    /\ UNCHANGED <<published, process, retry, marked, row, storedCursor,
                   delivered, seen, lost, crashes>>

\* recordRedetection returns; the event is done.
recordRedetection(i, e) ==
    /\ item[i][e].stage = "redetecting"
    /\ \/ row' = [row EXCEPT ![e].reorg = TRUE] /\ UNCHANGED faults
       \/ Fault /\ UNCHANGED row
    /\ SetItem(i, e, Idle)
    /\ UNCHANGED <<published, process, retry, marked, storedCursor, history, crashes>>

\* Mutant: no retry queue is wired in.
Unqueued(i, e) == retry[i][e]

\* NotificationRetryQueue.enqueue, which refuses a notification it holds.
Queued(i, e) ==
    IF retry[i][e].stage = "idle" THEN [NoRetry EXCEPT !.stage = "pending"] ELSE retry[i][e]

\* sendEventNotification settles: Discord acknowledged it, all its attempts
\* failed and the event goes into the retry queue, or it threw, which nothing retries.
sendEventNotification(i, e) ==
    /\ item[i][e].stage = "sending"
    /\ \/ /\ delivered' = [delivered EXCEPT ![e] = @ + 1]
          /\ marked' = [marked EXCEPT ![i] = @ \cup {e}]
          /\ resolved' = resolved \cup {e}
          /\ Finish(i, e, "sent")
          /\ UNCHANGED retry
       \/ /\ retry' = [retry EXCEPT ![i][e] = Queued(i, e)]
          /\ Finish(i, e, "queued")
          /\ UNCHANGED <<delivered, marked, resolved>>
       \/ /\ resolved' = resolved \cup {e}
          /\ Finish(i, e, "threw")
          /\ UNCHANGED <<delivered, marked, retry>>
    /\ UNCHANGED <<published, process, row, storedCursor, seen, lost, unrecorded,
                   crashes, faults>>

\* Mutant: the row claims that the notification was sent.
SentRow(i, e) == [status |-> "PROCESSED", sent |-> TRUE, reorg |-> row[e].reorg]

\* The row completeEvent writes.
CompletedRow(i, e) ==
    [status |-> IF item[i][e].outcome \in {"queued", "threw"} THEN "ERROR" ELSE "PROCESSED",
     sent |-> item[i][e].outcome = "sent",
     reorg |-> row[e].reorg]

\* completeEvent: the UPDATE, which overwrites whatever row there is.
completeEvent(i, e) ==
    /\ item[i][e].stage = "completing"
    /\ \/ /\ row[e] # NoRow
          /\ row' = [row EXCEPT ![e] = CompletedRow(i, e)]
          /\ SetItem(i, e, AfterProcessEvent(i, e, item[i][e].outcome))
          /\ UNCHANGED <<unrecorded, faults>>
       \/ /\ row[e] = NoRow
          /\ Advance(i, e, "inserting", item[i][e].outcome)
          /\ UNCHANGED <<row, unrecorded, faults>>
       \/ /\ Fault
          /\ SetItem(i, e, AfterProcessEvent(i, e, item[i][e].outcome))
          /\ unrecorded' = unrecorded \cup {e}
          /\ UNCHANGED row
    /\ UNCHANGED <<published, process, retry, marked, storedCursor,
                   delivered, seen, resolved, lost, crashes>>

\* completeEvent: the INSERT, which leaves a row it conflicts with alone.
completeEventInserts(i, e) ==
    /\ item[i][e].stage = "inserting"
    /\ SetItem(i, e, AfterProcessEvent(i, e, item[i][e].outcome))
    /\ \/ /\ row' = IF row[e] = NoRow THEN [row EXCEPT ![e] = CompletedRow(i, e)] ELSE row
          /\ UNCHANGED <<unrecorded, faults>>
       \/ /\ Fault
          /\ unrecorded' = unrecorded \cup {e}
          /\ UNCHANGED row
    /\ UNCHANGED <<published, process, retry, marked, storedCursor,
                   delivered, seen, resolved, lost, crashes>>

-----------------------------------------------------------------------------
(* The retry queue.                                                        *)

\* processQueue takes the event into a batch.
processQueue(i, e) ==
    /\ running[i]
    /\ retry[i][e].stage = "pending"
    /\ retry' = [retry EXCEPT ![i][e].stage = "taken"]
    /\ UNCHANGED <<published, process, item, marked, row, storedCursor, history, crashes, faults>>

\* Its turn in the batch comes: retryItem calls sendEventNotification, which
\* answers true at once for what it sent a moment ago.
retryItem(i, e) ==
    /\ retry[i][e].stage = "taken"
    /\ IF e \in marked[i]
       THEN /\ retry' = [retry EXCEPT ![i][e] = NoRetry]
            /\ resolved' = resolved \cup {e}
       ELSE /\ retry' = [retry EXCEPT ![i][e].stage = "sending"]
            /\ UNCHANGED resolved
    /\ UNCHANGED <<published, process, item, marked, row, storedCursor,
                   delivered, seen, lost, unrecorded, crashes, faults>>

\* The call settles.  No row of the database is updated.
retryItemSettles(i, e) ==
    /\ retry[i][e].stage = "sending"
    /\ \/ /\ delivered' = [delivered EXCEPT ![e] = @ + 1]
          /\ marked' = [marked EXCEPT ![i] = @ \cup {e}]
          /\ retry' = [retry EXCEPT ![i][e] = NoRetry]
          /\ resolved' = resolved \cup {e}
       \/ \E f \in RetryFailureType :
            LET tries == retry[i][e].tries + 1
            IN IF evaluate(f, tries, RetryMaxRetries) = "retryable"
               THEN /\ retry' = [retry EXCEPT ![i][e] = [stage |-> "pending", tries |-> tries]]
                    /\ UNCHANGED <<delivered, marked, resolved>>
               ELSE /\ retry' = [retry EXCEPT ![i][e] = NoRetry]
                    /\ resolved' = resolved \cup {e}
                    /\ UNCHANGED <<delivered, marked>>
    /\ UNCHANGED <<published, process, item, row, storedCursor, seen, lost, unrecorded,
                   crashes, faults>>

\* The deduplication window of a sent notification ends.
pruneExpired(i, e) ==
    /\ e \in marked[i]
    /\ marked' = [marked EXCEPT ![i] = @ \ {e}]
    /\ UNCHANGED <<published, process, item, retry, row, storedCursor, history, crashes, faults>>

processEventSteps(i, e) ==
    \/ isDuplicate(i, e)
    \/ recordRedetection(i, e)
    \/ sendEventNotification(i, e)
    \/ completeEvent(i, e)
    \/ completeEventInserts(i, e)

retrySteps(i, e) == retryItem(i, e) \/ retryItemSettles(i, e)

Next ==
    \/ publish
    \/ \E i \in Instances :
         \/ Start(i)
         \/ Crash(i)
         \/ handleReconnection(i)
         \/ checkForEvents(i)
         \/ updatePollingCursor(i)
         \/ \E e \in Event :
              \/ processNext(i, e)
              \/ processEventSteps(i, e)
              \/ processQueue(i, e)
              \/ retrySteps(i, e)
              \/ pruneExpired(i, e)

Spec == Init /\ [][Next]_vars

\* The timers of both queues fire while the subscriber runs, and every database
\* statement and webhook request settles.  An event that waits is not overtaken
\* for ever by others (EventQueue: OvertakingBounded), hence SF.
FairSpec ==
    /\ Spec
    /\ \A i \in Instances, e \in Event :
         /\ SF_vars(processNext(i, e))
         /\ WF_vars(processEventSteps(i, e))
         /\ WF_vars(processQueue(i, e))
         /\ WF_vars(retrySteps(i, e))

-----------------------------------------------------------------------------
(***************************************************************************)
(* Properties                                                              *)
(***************************************************************************)

\* Types; at most MaxConcurrency events are in processEvent at a time, and both
\* queues stay within the attempts their retry policy grants.
TypeOK ==
    /\ published \in 0..Events
    /\ {running, up, persisting} \subseteq [Instances -> BOOLEAN]
    /\ reconnects \in [Instances -> 0..MaxReconnectAttempts]
    /\ cursor \in [Instances -> {NoCursor} \cup 0..Events]
    /\ item \in [Instances -> [Event -> Item]]
    /\ \A i \in Instances : Cardinality(InFlight(i)) <= MaxConcurrency
    /\ retry \in [Instances -> [Event -> Retry]]
    /\ marked \in [Instances -> SUBSET Event]
    /\ row \in [Event -> [status : {"none", "PROCESSED", "ERROR"}, sent : BOOLEAN, reorg : BOOLEAN]]
    /\ storedCursor \in {NoCursor} \cup 0..Events
    /\ delivered \in [Event -> Nat]
    /\ \A S \in {seen, resolved, lost, unrecorded} : S \subseteq Event

\* Nothing but a crash loses an event: one that checkForEvents let through is
\* still held by an instance, or its fate was decided (sent, suppressed, given
\* up), or a process died while it held it.
OnlyCrashesLose ==
    \A e \in seen : e \in resolved \cup lost \/ \E i \in Instances : Held(i, e)

\* A row that says the notification was sent is right, whoever wrote it and
\* however the writers interleaved.
SentRowsAreTrue == \A e \in Event : row[e].sent => delivered[e] > 0

\* With one listener a second notification for an event takes a failed
\* statement on its row, or a crash between the delivery and the record of it.
RepeatsAreUnrecorded == \A e \in Event : delivered[e] > 1 => e \in unrecorded

\* While the subscribers run, every event they let through comes to an end: its
\* fate is decided, and no queue holds on to it.
SeenEventsResolve ==
    (\A i \in Instances : <>[]running[i]) =>
        \A e \in Event :
            /\ (e \in seen) ~> (e \in resolved \cup lost)
            /\ \A i \in Instances : Held(i, e) ~> ~Held(i, e)
=============================================================================
