--------------------------- MODULE SubscriberProofs ---------------------------
(***************************************************************************)
(* Proofs about the event subscriber.  Of Ingestion, for any number of     *)
(* listeners, events, crashes and failing statements: the types, that a    *)
(* row which says "sent" tells the truth, that only a crash loses an       *)
(* event, and that one sending listener repeats only what a failure kept   *)
(* from being recorded.  Of RpcFailover, for any pool, thresholds and      *)
(* disturbances: the types, and that no outage stops the subscriber while  *)
(* an endpoint answers throughout.                                         *)
(***************************************************************************)
EXTENDS Ingestion, RpcFailover, FiniteSetTheorems, WellFoundedInduction, TLAPS

(***************************************************************************)
(* The attempt budgets                                                     *)
(***************************************************************************)

\* resolveMaxAttempts never grants less than one attempt.
LEMMA BudgetType ==
  ASSUME NEW n \in Nat
  PROVE  resolveMaxAttempts(n) \in Nat \ {0}
  BY RetryPolicyAssumption DEF resolveMaxAttempts, AtLeastOne

\* A failed attempt is followed by another one only while attempts remain.
LEMMA RetryableHasBudget ==
  ASSUME NEW tries \in Nat, NEW f, NEW n \in Nat,
         evaluate(f, tries, n) = "retryable"
  PROVE  tries < resolveMaxAttempts(n)
  BY BudgetType DEF evaluate

\* The bounds used as numbers.
LEMMA Bounds ==
  /\ EventMaxRetries \in Nat /\ RetryMaxRetries \in Nat /\ MaxReconnectAttempts \in Nat
  /\ Events \in Nat \ {0} /\ BatchSize \in Nat \ {0} /\ MaxConcurrency \in Nat \ {0}
  BY IngestionAssumption

LEMMA EventsFinite == IsFiniteSet(Event) /\ Event \subseteq Nat \ {0}
  BY Bounds, FS_Interval DEF Event

(***************************************************************************)
(* Items of the event queue                                                *)
(***************************************************************************)
LEMMA IdleType == Idle \in Item /\ NoRetry \in Retry
  <1>1. 0 \in 0 .. resolveMaxAttempts(EventMaxRetries) - 1
    BY Bounds, BudgetType
  <1>2. 0 \in 0 .. resolveMaxAttempts(RetryMaxRetries) - 1
    BY Bounds, BudgetType
  <1> QED
    BY <1>1, <1>2 DEF Idle, Item, Stage, Outcome, NoRetry, Retry

\* Where processEvent goes on.
LEMMA AdvancedItem ==
  ASSUME NEW it \in Item, NEW s \in Stage, NEW o \in Outcome
  PROVE  /\ [it EXCEPT !.stage = s, !.outcome = o] \in Item
         /\ [it EXCEPT !.stage = s, !.outcome = o].stage = s
         /\ [it EXCEPT !.stage = s, !.outcome = o].outcome = o
  BY DEF Item

\* An event newly accepted by the queue.
LEMMA OfferedItem ==
  /\ [Idle EXCEPT !.stage = "pending"] \in Item
  /\ [Idle EXCEPT !.stage = "pending"].stage = "pending"
  /\ [Idle EXCEPT !.stage = "pending"].outcome = "none"
  BY IdleType DEF Item, Idle, Stage

\* After processEvent an event waits for another attempt or is done with.
LEMMA AfterType ==
  ASSUME item \in [Instances -> [Event -> Item]],
         NEW i \in Instances, NEW e \in Event, NEW o
  PROVE  /\ AfterProcessEvent(i, e, o) \in Item
         /\ AfterProcessEvent(i, e, o).stage \in {"idle", "pending"}
         /\ AfterProcessEvent(i, e, o).outcome = "none"
  <1>1. item[i][e].tries \in Nat /\ item[i][e].tries + 1 \in Nat
    <2>1. item[i][e] \in Item
      OBVIOUS
    <2> QED
      BY <2>1, Bounds, BudgetType DEF Item
  <1> DEFINE tries == item[i][e].tries + 1
  <1>2. CASE o = "untried" /\ evaluate("unknown", tries, EventMaxRetries) = "retryable"
    <2>1. tries \in 0 .. resolveMaxAttempts(EventMaxRetries) - 1
      BY <1>1, <1>2, Bounds, BudgetType, RetryableHasBudget
    <2>2. AfterProcessEvent(i, e, o) = [stage |-> "pending", outcome |-> "none", tries |-> tries]
      BY <1>2 DEF AfterProcessEvent
    <2> HIDE DEF tries
    <2> QED
      BY <2>1, <2>2 DEF Item, Stage, Outcome
  <1>3. CASE ~(o = "untried" /\ evaluate("unknown", tries, EventMaxRetries) = "retryable")
    <2>1. AfterProcessEvent(i, e, o) = Idle
      BY <1>3 DEF AfterProcessEvent
    <2> QED
      BY <2>1, IdleType DEF Idle
  <1> QED
    BY <1>2, <1>3

\* Only the item of event e at instance i may have changed.
Touches(i, e) ==
  /\ item' \in [Instances -> [Event -> Item]]
  /\ \A j \in Instances, d \in Event : j # i \/ d # e => item'[j][d] = item[j][d]

LEMMA SetItemEffect ==
  ASSUME item \in [Instances -> [Event -> Item]],
         NEW i \in Instances, NEW e \in Event, NEW new \in Item, SetItem(i, e, new)
  PROVE  Touches(i, e) /\ item'[i][e] = new
  BY DEF SetItem, Touches

LEMMA AdvanceEffect ==
  ASSUME item \in [Instances -> [Event -> Item]],
         NEW i \in Instances, NEW e \in Event, NEW s \in Stage, NEW o \in Outcome,
         Advance(i, e, s, o)
  PROVE  Touches(i, e) /\ item'[i][e].stage = s /\ item'[i][e].outcome = o
  <1> DEFINE new == [item[i][e] EXCEPT !.stage = s, !.outcome = o]
  <1>1. item[i][e] \in Item
    OBVIOUS
  <1>2. \A x \in Item : /\ [x EXCEPT !.stage = s, !.outcome = o] \in Item
                        /\ [x EXCEPT !.stage = s, !.outcome = o].stage = s
                        /\ [x EXCEPT !.stage = s, !.outcome = o].outcome = o
    BY DEF Item
  <1>4. new \in Item /\ new.stage = s /\ new.outcome = o
    BY <1>1, <1>2, Zenon
  <1>3. SetItem(i, e, new)
    BY DEF Advance
  <1> HIDE DEF new
  <1> QED
    BY <1>3, <1>4, SetItemEffect

LEMMA FinishEffect ==
  ASSUME item \in [Instances -> [Event -> Item]],
         NEW i \in Instances, NEW e \in Event, NEW o \in Outcome, Finish(i, e, o)
  PROVE  /\ Touches(i, e)
         /\ item'[i][e].stage \in {"idle", "pending", "completing"}
         /\ item'[i][e].outcome \in {"none", o}
         /\ HasDeduplication => item'[i][e].stage = "completing"
  <1>1. CASE HasDeduplication
    <2>1. Advance(i, e, "completing", o) /\ "completing" \in Stage
      BY <1>1 DEF Finish, Stage
    <2> QED
      BY <2>1, AdvanceEffect
  <1>2. CASE ~HasDeduplication
    <2>1. SetItem(i, e, AfterProcessEvent(i, e, o))
      BY <1>2 DEF Finish
    <2> QED
      BY <1>2, <2>1, AfterType, SetItemEffect
  <1> QED
    BY <1>1, <1>2

\* What Send comes to: the event's fate is decided without a request, or a
\* request is under way.
Decides(i, e) ==
  /\ resolved' = resolved \cup {e}
  /\ item'[i][e].stage \in {"idle", "pending", "completing"}
  /\ item'[i][e].outcome = "sent" => e \in marked[i]
Requests(i, e) ==
  /\ UNCHANGED resolved
  /\ i \notin DryRun
  /\ item'[i][e].stage = "sending" /\ item'[i][e].outcome = "none"

LEMMA SendEffect ==
  ASSUME item \in [Instances -> [Event -> Item]],
         NEW i \in Instances, NEW e \in Event, Send(i, e)
  PROVE  /\ Touches(i, e)
         /\ \/ Decides(i, e) /\ (HasDeduplication => item'[i][e].stage = "completing")
            \/ Requests(i, e)
  <1> USE DEF Outcome, Stage
  <1>1. CASE Finish(i, e, "dry") /\ resolved' = resolved \cup {e}
    BY <1>1, FinishEffect DEF Decides
  <1>2. CASE Finish(i, e, "untried") /\ resolved' = resolved \cup {e}
    BY <1>2, FinishEffect DEF Decides
  <1>3. CASE e \in marked[i] /\ Finish(i, e, "sent") /\ resolved' = resolved \cup {e}
    BY <1>3, FinishEffect DEF Decides
  <1>4. CASE i \notin DryRun /\ Advance(i, e, "sending", "none") /\ UNCHANGED resolved
    BY <1>4, AdvanceEffect DEF Requests
  <1> QED
    BY <1>1, <1>2, <1>3, <1>4 DEF Send

\* An action on one event of the queue, as far as its item goes.
LEMMA ProcessNextEffect ==
  ASSUME item \in [Instances -> [Event -> Item]],
         NEW i \in Instances, NEW e \in Event, processNext(i, e)
  PROVE  /\ Touches(i, e)
         /\ item[i][e].stage = "pending" /\ Cardinality(InFlight(i)) < MaxConcurrency
         /\ \/ Decides(i, e)
            \/ Requests(i, e) /\ ~HasDeduplication
            \/ /\ item'[i][e].stage = "checking" /\ item'[i][e].outcome = "none"
               /\ UNCHANGED resolved
  <1>1. CASE SetItem(i, e, AfterProcessEvent(i, e, "untried")) /\ resolved' = resolved \cup {e}
    BY <1>1, AfterType, SetItemEffect DEF Decides, processNext
  <1>2. CASE /\ HasDeduplication /\ i \notin DryRun
             /\ Advance(i, e, "checking", "none") /\ UNCHANGED resolved
    BY <1>2, AdvanceEffect DEF Stage, Outcome, processNext
  <1>3. CASE ~(HasDeduplication /\ i \notin DryRun) /\ Send(i, e)
    BY <1>3, SendEffect DEF Requests, processNext
  <1> QED
    BY <1>1, <1>2, <1>3 DEF processNext

LEMMA IsDuplicateEffect ==
  ASSUME item \in [Instances -> [Event -> Item]],
         NEW i \in Instances, NEW e \in Event, isDuplicate(i, e)
  PROVE  /\ Touches(i, e)
         /\ item[i][e].stage = "checking"
         /\ \/ /\ row[e] # NoRow
               /\ item'[i][e].stage = "redetecting" /\ item'[i][e].outcome = "none"
               /\ UNCHANGED <<resolved, unrecorded>>
            \/ /\ \/ Decides(i, e) /\ (HasDeduplication => item'[i][e].stage = "completing")
                  \/ Requests(i, e)
               /\ \/ row[e] = NoRow /\ UNCHANGED unrecorded
                  \/ unrecorded' = unrecorded \cup {e}
  <1>1. CASE known(e) /\ Advance(i, e, "redetecting", "none") /\ UNCHANGED <<resolved, unrecorded>>
    BY <1>1, AdvanceEffect DEF Stage, Outcome, known, isDuplicate
  <1>2. CASE ~known(e) /\ Send(i, e) /\ UNCHANGED unrecorded
    BY <1>2, SendEffect DEF known, isDuplicate
  <1>3. CASE Send(i, e) /\ unrecorded' = unrecorded \cup {e}
    BY <1>3, SendEffect DEF isDuplicate
  <1> QED
    BY <1>1, <1>2, <1>3 DEF isDuplicate

\* What sendEventNotification may report.
Acknowledged(i, e) ==
  /\ delivered' = [delivered EXCEPT ![e] = @ + 1]
  /\ marked' = [marked EXCEPT ![i] = @ \cup {e}]
  /\ resolved' = resolved \cup {e}
Requeued(i, e) ==
  /\ retry' = [retry EXCEPT ![i][e] = Queued(i, e)]
  /\ UNCHANGED <<delivered, marked, resolved>>
Thrown(e) == resolved' = resolved \cup {e} /\ UNCHANGED <<delivered, marked, retry>>

LEMMA SendNotificationEffect ==
  ASSUME item \in [Instances -> [Event -> Item]],
         NEW i \in Instances, NEW e \in Event, sendEventNotification(i, e)
  PROVE  /\ Touches(i, e)
         /\ item[i][e].stage = "sending"
         /\ item'[i][e].stage \in {"idle", "pending", "completing"}
         /\ HasDeduplication => item'[i][e].stage = "completing"
         /\ \/ Acknowledged(i, e) /\ UNCHANGED retry
            \/ Requeued(i, e) /\ item'[i][e].outcome # "sent"
            \/ Thrown(e) /\ item'[i][e].outcome # "sent"
  <1> USE DEF Outcome
  <1>1. CASE Acknowledged(i, e) /\ Finish(i, e, "sent") /\ UNCHANGED retry
    BY <1>1, FinishEffect DEF sendEventNotification
  <1>2. CASE Requeued(i, e) /\ Finish(i, e, "queued")
    BY <1>2, FinishEffect DEF sendEventNotification
  <1>3. CASE Thrown(e) /\ Finish(i, e, "threw")
    BY <1>3, FinishEffect DEF sendEventNotification
  <1> QED
    BY <1>1, <1>2, <1>3 DEF sendEventNotification, Acknowledged, Requeued, Thrown

(***************************************************************************)
(* Rows of processed_events                                                *)
(***************************************************************************)
RowSet == [status : {"none", "PROCESSED", "ERROR"}, sent : BOOLEAN, reorg : BOOLEAN]

\* Only the row of event e may have changed.
Writes(e) ==
  /\ row' \in [Event -> RowSet]
  /\ \A d \in Event \ {e} : row'[d] = row[d]

LEMMA NoRowType == NoRow \in RowSet /\ NoRow.sent = FALSE
  BY DEF NoRow, RowSet

\* The row of a handled event says that it was sent exactly if it was.
LEMMA CompletedRowType ==
  ASSUME row \in [Event -> RowSet], NEW i \in Instances, NEW e \in Event
  PROVE  /\ CompletedRow(i, e) \in RowSet /\ CompletedRow(i, e) # NoRow
         /\ CompletedRow(i, e).sent = (item[i][e].outcome = "sent")
  <1>1. row[e] \in RowSet
    OBVIOUS
  <1>2. row[e].reorg \in BOOLEAN
    BY <1>1 DEF RowSet
  <1> DEFINE st == IF item[i][e].outcome \in {"queued", "threw"} THEN "ERROR" ELSE "PROCESSED"
             sent == item[i][e].outcome = "sent"
             reorg == row[e].reorg
  <1>3. st \in {"PROCESSED", "ERROR"} /\ sent \in BOOLEAN /\ reorg \in BOOLEAN
    BY <1>2
  <1>4. CompletedRow(i, e) = [status |-> st, sent |-> sent, reorg |-> reorg]
    BY DEF CompletedRow
  <1> HIDE DEF st, sent, reorg
  <1>5. /\ CompletedRow(i, e) \in RowSet
        /\ CompletedRow(i, e).status # "none"
        /\ CompletedRow(i, e).sent = sent
    BY <1>3, <1>4 DEF RowSet
  <1>6. CompletedRow(i, e) # NoRow
    BY <1>5 DEF NoRow
  <1> QED
    BY <1>5, <1>6 DEF sent

\* A row marked as found again is still a row.
LEMMA RedetectedRow ==
  ASSUME NEW r \in RowSet
  PROVE  /\ [r EXCEPT !.reorg = TRUE] \in RowSet
         /\ [r EXCEPT !.reorg = TRUE].sent = r.sent
         /\ [r EXCEPT !.reorg = TRUE] # NoRow
  <1>1. /\ [r EXCEPT !.reorg = TRUE] \in RowSet
        /\ [r EXCEPT !.reorg = TRUE].sent = r.sent
        /\ [r EXCEPT !.reorg = TRUE].reorg = TRUE
    BY DEF RowSet
  <1> QED
    BY <1>1 DEF NoRow

LEMMA RecordRedetectionEffect ==
  ASSUME item \in [Instances -> [Event -> Item]], row \in [Event -> RowSet],
         NEW i \in Instances, NEW e \in Event, recordRedetection(i, e)
  PROVE  /\ Touches(i, e) /\ Writes(e)
         /\ item[i][e].stage = "redetecting" /\ item'[i][e] = Idle
         /\ row'[e].sent = row[e].sent
         /\ row[e] # NoRow => row'[e] # NoRow
  <1>1. Touches(i, e) /\ item'[i][e] = Idle
    BY IdleType, SetItemEffect DEF recordRedetection
  <1>2. CASE row' = row
    BY <1>1, <1>2 DEF Writes, recordRedetection
  <1>3. CASE row' = [row EXCEPT ![e].reorg = TRUE]
    <2>1. row'[e] = [row[e] EXCEPT !.reorg = TRUE] /\ row[e] \in RowSet
      BY <1>3
    <2>2. row'[e] \in RowSet /\ row'[e].sent = row[e].sent /\ row'[e] # NoRow
      BY <2>1, RedetectedRow
    <2>3. row' = [d \in Event |-> IF d = e THEN row'[e] ELSE row[d]]
      BY <1>3
    <2>4. Writes(e)
      BY <2>2, <2>3 DEF Writes
    <2> QED
      BY <1>1, <2>2, <2>4 DEF recordRedetection
  <1> QED
    BY <1>2, <1>3 DEF recordRedetection

\* completeEvent records the event, or a failing statement keeps it from that.
Records(i, e) ==
  /\ row'[e] = CompletedRow(i, e) /\ UNCHANGED unrecorded
Misses(e) == UNCHANGED row /\ unrecorded' = unrecorded \cup {e}

LEMMA CompleteEventEffect ==
  ASSUME item \in [Instances -> [Event -> Item]], row \in [Event -> RowSet],
         NEW i \in Instances, NEW e \in Event, completeEvent(i, e)
  PROVE  /\ Touches(i, e) /\ Writes(e) /\ item[i][e].stage = "completing"
         /\ \/ /\ item'[i][e].stage \in {"idle", "pending"} /\ item'[i][e].outcome = "none"
               /\ Records(i, e) \/ Misses(e)
            \/ /\ item'[i][e].stage = "inserting" /\ item'[i][e].outcome = item[i][e].outcome
               /\ UNCHANGED <<row, unrecorded>>
  <1>0. item[i][e] \in Item /\ item[i][e].outcome \in Outcome
    BY DEF Item
  <1>1. CASE /\ row' = [row EXCEPT ![e] = CompletedRow(i, e)]
             /\ SetItem(i, e, AfterProcessEvent(i, e, item[i][e].outcome))
             /\ UNCHANGED unrecorded
    <2>1. Writes(e) /\ Records(i, e)
      BY <1>1, CompletedRowType DEF Writes, Records
    <2> QED
      BY <1>1, <2>1, AfterType, SetItemEffect DEF completeEvent
  <1>2. CASE Advance(i, e, "inserting", item[i][e].outcome) /\ UNCHANGED <<row, unrecorded>>
    <2>1. Writes(e) /\ "inserting" \in Stage
      BY <1>2 DEF Writes, Stage
    <2> QED
      BY <1>0, <1>2, <2>1, AdvanceEffect DEF completeEvent
  <1>3. CASE /\ SetItem(i, e, AfterProcessEvent(i, e, item[i][e].outcome))
             /\ unrecorded' = unrecorded \cup {e} /\ UNCHANGED row
    <2>1. Writes(e) /\ Misses(e)
      BY <1>3 DEF Writes, Misses
    <2> QED
      BY <1>3, <2>1, AfterType, SetItemEffect DEF completeEvent
  <1> QED
    BY <1>1, <1>2, <1>3 DEF completeEvent

LEMMA InsertEffect ==
  ASSUME item \in [Instances -> [Event -> Item]], row \in [Event -> RowSet],
         NEW i \in Instances, NEW e \in Event, completeEventInserts(i, e)
  PROVE  /\ Touches(i, e) /\ Writes(e) /\ item[i][e].stage = "inserting"
         /\ item'[i][e].stage \in {"idle", "pending"} /\ item'[i][e].outcome = "none"
         /\ \/ Records(i, e)
            \/ Misses(e)
            \/ row[e] # NoRow /\ UNCHANGED <<row, unrecorded>>
  <1>1. /\ Touches(i, e) /\ item[i][e].stage = "inserting"
        /\ item'[i][e].stage \in {"idle", "pending"} /\ item'[i][e].outcome = "none"
    BY AfterType, SetItemEffect DEF completeEventInserts
  <1>2. CASE row[e] = NoRow /\ row' = [row EXCEPT ![e] = CompletedRow(i, e)] /\ UNCHANGED unrecorded
    BY <1>1, <1>2, CompletedRowType DEF Writes, Records
  <1>3. CASE row[e] # NoRow /\ UNCHANGED <<row, unrecorded>>
    BY <1>1, <1>3 DEF Writes
  <1>4. CASE unrecorded' = unrecorded \cup {e} /\ UNCHANGED row
    BY <1>1, <1>4 DEF Writes, Misses
  <1> QED
    BY <1>2, <1>3, <1>4 DEF completeEventInserts

(***************************************************************************)
(* Entries of the retry queue                                              *)
(***************************************************************************)
\* Only the entry of event e at instance i may have changed.
Retries(i, e) ==
  /\ retry' \in [Instances -> [Event -> Retry]]
  /\ \A j \in Instances, d \in Event : j # i \/ d # e => retry'[j][d] = retry[j][d]

SetRetry(i, e, new) == retry' = [retry EXCEPT ![i][e] = new]

LEMMA SetRetryEffect ==
  ASSUME retry \in [Instances -> [Event -> Retry]],
         NEW i \in Instances, NEW e \in Event, NEW new \in Retry, SetRetry(i, e, new)
  PROVE  Retries(i, e) /\ retry'[i][e] = new
  BY DEF Retries, SetRetry

LEMMA StagedRetry ==
  ASSUME NEW r \in Retry, NEW s \in {"idle", "pending", "taken", "sending"}
  PROVE  [r EXCEPT !.stage = s] \in Retry /\ [r EXCEPT !.stage = s].stage = s
  BY DEF Retry

LEMMA SetRetryStageEffect ==
  ASSUME retry \in [Instances -> [Event -> Retry]],
         NEW i \in Instances, NEW e \in Event, NEW s \in {"pending", "taken", "sending"},
         retry' = [retry EXCEPT ![i][e].stage = s]
  PROVE  Retries(i, e) /\ retry'[i][e].stage = s
  <1> DEFINE new == [retry[i][e] EXCEPT !.stage = s]
  <1>1. retry[i][e] \in Retry
    OBVIOUS
  <1>2. \A r \in Retry : [r EXCEPT !.stage = s] \in Retry /\ [r EXCEPT !.stage = s].stage = s
    BY DEF Retry
  <1>3. new \in Retry /\ new.stage = s
    BY <1>1, <1>2, Zenon
  <1>4. SetRetry(i, e, new)
    BY DEF SetRetry
  <1> HIDE DEF new
  <1>5. Retries(i, e) /\ retry'[i][e] = new
    BY <1>3, <1>4, SetRetryEffect
  <1> QED
    BY <1>3, <1>5, Zenon

\* A notification that enqueue is offered is held afterwards.
LEMMA QueuedType ==
  ASSUME retry \in [Instances -> [Event -> Retry]], NEW i \in Instances, NEW e \in Event
  PROVE  Queued(i, e) \in Retry /\ Queued(i, e).stage # "idle"
  <1>1. retry[i][e] \in Retry
    OBVIOUS
  <1>2. [NoRetry EXCEPT !.stage = "pending"] \in Retry /\ [NoRetry EXCEPT !.stage = "pending"].stage = "pending"
    BY IdleType, StagedRetry
  <1> QED
    BY <1>1, <1>2 DEF Queued

LEMMA RequeuedEffect ==
  ASSUME retry \in [Instances -> [Event -> Retry]],
         NEW i \in Instances, NEW e \in Event, Requeued(i, e)
  PROVE  Retries(i, e) /\ retry'[i][e].stage # "idle"
  BY QueuedType, SetRetryEffect DEF Requeued, SetRetry

\* A notification that was given up or sent leaves the retry queue.
LEMMA ClearedRetryEffect ==
  ASSUME retry \in [Instances -> [Event -> Retry]],
         NEW i \in Instances, NEW e \in Event, retry' = [retry EXCEPT ![i][e] = NoRetry]
  PROVE  Retries(i, e) /\ retry'[i][e].stage = "idle"
  BY IdleType, SetRetryEffect DEF NoRetry, SetRetry

LEMMA RetryItemEffect ==
  ASSUME retry \in [Instances -> [Event -> Retry]],
         NEW i \in Instances, NEW e \in Event, retryItem(i, e)
  PROVE  /\ Retries(i, e) /\ retry[i][e].stage = "taken"
         /\ \/ retry'[i][e].stage = "sending" /\ UNCHANGED resolved
            \/ retry'[i][e].stage = "idle" /\ resolved' = resolved \cup {e}
  <1>1. CASE e \in marked[i]
    BY <1>1, ClearedRetryEffect DEF retryItem
  <1>2. CASE e \notin marked[i]
    BY <1>2, SetRetryStageEffect DEF retryItem
  <1> QED
    BY <1>1, <1>2

LEMMA RetrySettlesEffect ==
  ASSUME retry \in [Instances -> [Event -> Retry]],
         NEW i \in Instances, NEW e \in Event, retryItemSettles(i, e)
  PROVE  /\ Retries(i, e) /\ retry[i][e].stage = "sending"
         /\ \/ Acknowledged(i, e) /\ retry'[i][e].stage = "idle"
            \/ /\ retry'[i][e].stage = "pending" /\ UNCHANGED <<delivered, marked, resolved>>
            \/ /\ retry'[i][e].stage = "idle" /\ resolved' = resolved \cup {e}
               /\ UNCHANGED <<delivered, marked>>
  <1>1. CASE Acknowledged(i, e) /\ retry' = [retry EXCEPT ![i][e] = NoRetry]
    BY <1>1, ClearedRetryEffect DEF retryItemSettles
  <1>2. CASE /\ \E f \in RetryFailureType :
                  evaluate(f, retry[i][e].tries + 1, RetryMaxRetries) = "retryable"
             /\ retry' = [retry EXCEPT ![i][e] = [stage |-> "pending", tries |-> retry[i][e].tries + 1]]
             /\ UNCHANGED <<delivered, marked, resolved>>
    <2>1. retry[i][e] \in Retry
      OBVIOUS
    <2>2. retry[i][e].tries \in Nat /\ retry[i][e].tries + 1 \in Nat
      BY <2>1, Bounds, BudgetType DEF Retry
    <2> DEFINE n == retry[i][e].tries + 1
    <2>3. n \in 0 .. resolveMaxAttempts(RetryMaxRetries) - 1
      BY <1>2, <2>2, Bounds, BudgetType, RetryableHasBudget
    <2> HIDE DEF n
    <2>4. /\ [stage |-> "pending", tries |-> n] \in Retry
          /\ [stage |-> "pending", tries |-> n].stage = "pending"
      BY <2>3 DEF Retry
    <2>5. retry' = [retry EXCEPT ![i][e] = [stage |-> "pending", tries |-> n]]
      BY <1>2 DEF n
    <2> DEFINE new == [stage |-> "pending", tries |-> n]
    <2> HIDE DEF new
    <2>6. new \in Retry /\ new.stage = "pending" /\ SetRetry(i, e, new)
      BY <2>4, <2>5 DEF new, SetRetry
    <2>7. Retries(i, e) /\ retry'[i][e].stage = "pending"
      BY <2>6, SetRetryEffect
    <2> QED
      BY <1>2, <2>7 DEF retryItemSettles
  <1>3. CASE /\ retry' = [retry EXCEPT ![i][e] = NoRetry] /\ resolved' = resolved \cup {e}
             /\ UNCHANGED <<delivered, marked>>
    BY <1>3, ClearedRetryEffect DEF retryItemSettles
  <1> QED
    BY <1>1, <1>2, <1>3 DEF retryItemSettles, Acknowledged

(***************************************************************************)
(* Types                                                                   *)
(***************************************************************************)
LEMMA InFlightFinite ==
  ASSUME NEW i \in Instances
  PROVE  IsFiniteSet(InFlight(i)) /\ Cardinality(InFlight(i)) \in Nat
  <1>1. InFlight(i) \subseteq Event
    BY DEF InFlight
  <1> QED
    BY <1>1, EventsFinite, FS_Subset, FS_CardinalityType

Bounded == \A i \in Instances : Cardinality(InFlight(i)) <= MaxConcurrency

\* An event takes a slot of processEvent only while there is one.
LEMMA BoundedStep ==
  ASSUME item \in [Instances -> [Event -> Item]], Bounded,
         NEW i \in Instances, NEW e \in Event, Touches(i, e),
         \/ item'[i][e].stage \in {"idle", "pending"}
         \/ item[i][e].stage \notin {"idle", "pending"}
         \/ Cardinality(InFlight(i)) < MaxConcurrency
  PROVE  Bounded'
  <1> SUFFICES ASSUME NEW j \in Instances
               PROVE  Cardinality(InFlight(j)') <= MaxConcurrency
    BY DEF Bounded
  <1>1. Cardinality(InFlight(j)) <= MaxConcurrency
    BY DEF Bounded
  <1>2. IsFiniteSet(InFlight(j)) /\ Cardinality(InFlight(j)) \in Nat /\ MaxConcurrency \in Nat
    BY InFlightFinite, Bounds
  <1>3. CASE InFlight(j)' \subseteq InFlight(j)
    <2>1. Cardinality(InFlight(j)') <= Cardinality(InFlight(j)) /\ Cardinality(InFlight(j)') \in Nat
      BY <1>2, <1>3, FS_Subset, FS_CardinalityType
    <2> QED
      BY <1>1, <1>2, <2>1
  <1>4. CASE ~(InFlight(j)' \subseteq InFlight(j))
    <2>1. j = i /\ item'[i][e].stage \notin {"idle", "pending"} /\ item[i][e].stage \in {"idle", "pending"}
      BY <1>4 DEF InFlight, Touches
    <2>2. Cardinality(InFlight(i)) < MaxConcurrency
      BY <2>1
    <2>3. InFlight(i)' = InFlight(i) \cup {e} /\ e \notin InFlight(i)
      BY <2>1 DEF InFlight, Touches
    <2>4. Cardinality(InFlight(i) \cup {e}) = Cardinality(InFlight(i)) + 1
      BY <1>2, <2>1, <2>3, FS_AddElement
    <2> QED
      BY <1>2, <2>1, <2>2, <2>3, <2>4
  <1> QED
    BY <1>3, <1>4

\* Nothing gets into processEvent when items are only offered or dropped.
LEMMA BoundedOffer ==
  ASSUME Bounded,
         \A i \in Instances, e \in Event :
            item'[i][e].stage \in {"idle", "pending"} \/ item'[i][e] = item[i][e]
  PROVE  Bounded'
  <1> SUFFICES ASSUME NEW j \in Instances
               PROVE  Cardinality(InFlight(j)') <= MaxConcurrency
    BY DEF Bounded
  <1>1. Cardinality(InFlight(j)) <= MaxConcurrency
    BY DEF Bounded
  <1>2. IsFiniteSet(InFlight(j)) /\ Cardinality(InFlight(j)) \in Nat /\ MaxConcurrency \in Nat
    BY InFlightFinite, Bounds
  <1>3. InFlight(j)' \subseteq InFlight(j)
    BY DEF InFlight
  <1>4. Cardinality(InFlight(j)') <= Cardinality(InFlight(j)) /\ Cardinality(InFlight(j)') \in Nat
    BY <1>2, <1>3, FS_Subset, FS_CardinalityType
  <1> QED
    BY <1>1, <1>2, <1>4

LEMMA InitType == Init => TypeOK
  <1> SUFFICES ASSUME Init PROVE TypeOK
    OBVIOUS
  <1>1. item \in [Instances -> [Event -> Item]] /\ retry \in [Instances -> [Event -> Retry]]
    BY IdleType DEF Init
  <1>2. \A i \in Instances : Cardinality(InFlight(i)) <= MaxConcurrency
    <2> SUFFICES ASSUME NEW i \in Instances PROVE Cardinality(InFlight(i)) <= MaxConcurrency
      OBVIOUS
    <2>1. InFlight(i) = {}
      BY DEF Init, InFlight, Idle
    <2> QED
      BY <2>1, FS_EmptySet, Bounds
  <1>3. row \in [Event -> RowSet]
    BY NoRowType DEF Init
  <1> QED
    BY <1>1, <1>2, <1>3, Bounds DEF Init, TypeOK, NoCursor, RowSet

\* What the poll loop asks for lies among the events.
LEMMA BatchType ==
  ASSUME TypeOK, NEW i \in Instances
  PROVE  LET last == Smaller(From(i) + BatchSize - 1, published)
         IN  last \in 0 .. Events /\ From(i) .. last \subseteq Event
  <1>1. published \in Int /\ 0 <= published /\ published <= Events /\ Events \in Nat
    BY Bounds DEF TypeOK
  <1>2. cursor[i] = -1 \/ (cursor[i] \in Int /\ 0 <= cursor[i])
    BY Bounds DEF TypeOK, NoCursor
  <1>3. From(i) \in Int /\ From(i) >= 1
    BY <1>2 DEF From, NoCursor
  <1>4. BatchSize \in Int /\ BatchSize >= 1
    BY Bounds
  <1> DEFINE last == Smaller(From(i) + BatchSize - 1, published)
  <1>5. last \in Int /\ 0 <= last /\ last <= Events
    BY <1>1, <1>3, <1>4 DEF Smaller
  <1> HIDE DEF last
  <1>6. last \in 0 .. Events /\ From(i) .. last \subseteq Event
    BY <1>1, <1>3, <1>5 DEF Event
  <1> QED
    BY <1>6 DEF last

\* A poll offers events to the queue, and what it lets through the queue holds.
Offers(i) ==
  /\ item' \in [Instances -> [Event -> Item]]
  /\ \A j \in Instances, e \in Event :
       \/ item'[j][e] = item[j][e]
       \/ /\ j = i /\ item[j][e].stage = "idle"
          /\ item'[j][e].stage = "pending" /\ item'[j][e].outcome = "none"
  /\ seen' \subseteq Event /\ seen \subseteq seen'
  /\ \A e \in seen' \ seen : item'[i][e].stage # "idle"

LEMMA CheckForEventsEffect ==
  ASSUME TypeOK, NEW i \in Instances, checkForEvents(i)
  PROVE  /\ Offers(i)
         /\ cursor' \in [Instances -> {NoCursor} \cup 0..Events]
         /\ reconnects' \in [Instances -> 0..MaxReconnectAttempts]
         /\ persisting' \in [Instances -> BOOLEAN]
  <1> DEFINE last == Smaller(From(i) + BatchSize - 1, published)
             batch == From(i) .. last
  <1>1. last \in 0 .. Events /\ batch \subseteq Event
    BY BatchType
  <1>2. /\ item \in [Instances -> [Event -> Item]] /\ seen \subseteq Event
        /\ cursor \in [Instances -> {NoCursor} \cup 0..Events]
        /\ reconnects \in [Instances -> 0..MaxReconnectAttempts]
        /\ persisting \in [Instances -> BOOLEAN]
    BY DEF TypeOK
  <1>3. /\ \E wanted \in SUBSET batch :
             /\ item' = [item EXCEPT ![i] = [e \in Event |->
                    IF e \in wanted /\ offered(i, e)
                    THEN [Idle EXCEPT !.stage = "pending"] ELSE @[e]]]
             /\ seen' = seen \cup wanted
        /\ \/ /\ cursor' = [cursor EXCEPT ![i] = last]
              /\ persisting' = [persisting EXCEPT ![i] = HasDeduplication]
              /\ reconnects' = IF HasDeduplication THEN reconnects
                               ELSE [reconnects EXCEPT ![i] = 0]
           \/ /\ reconnects' = [reconnects EXCEPT ![i] = 0]
              /\ UNCHANGED <<cursor, persisting>>
    BY DEF checkForEvents
  <1> HIDE DEF last, batch
  <1>4. PICK wanted \in SUBSET batch :
             /\ item' = [item EXCEPT ![i] = [e \in Event |->
                    IF e \in wanted /\ offered(i, e)
                    THEN [Idle EXCEPT !.stage = "pending"] ELSE @[e]]]
             /\ seen' = seen \cup wanted
    BY <1>3
  <1>5. wanted \subseteq Event
    BY <1>1, <1>4
  <1> DEFINE new == [Idle EXCEPT !.stage = "pending"]
  <1>6. new \in Item /\ new.stage = "pending" /\ new.outcome = "none"
    BY OfferedItem
  <1>7. item' = [item EXCEPT ![i] = [e \in Event |->
                    IF e \in wanted /\ offered(i, e) THEN new ELSE item[i][e]]]
    BY <1>4
  <1> HIDE DEF new
  <1>8. /\ item' \in [Instances -> [Event -> Item]]
        /\ \A e \in Event : item'[i][e] = IF e \in wanted /\ offered(i, e) THEN new ELSE item[i][e]
        /\ \A j \in Instances \ {i}, e \in Event : item'[j][e] = item[j][e]
    BY <1>2, <1>6, <1>7
  <1>9. \A j \in Instances, e \in Event :
          \/ item'[j][e] = item[j][e]
          \/ /\ j = i /\ item[j][e].stage = "idle"
             /\ item'[j][e].stage = "pending" /\ item'[j][e].outcome = "none"
    BY <1>6, <1>8 DEF offered
  <1>10. \A e \in wanted : item'[i][e].stage # "idle"
    BY <1>5, <1>6, <1>8 DEF offered
  <1>11. Offers(i)
    BY <1>2, <1>4, <1>5, <1>8, <1>9, <1>10 DEF Offers
  <1>12. HasDeduplication \in BOOLEAN /\ 0 \in 0 .. MaxReconnectAttempts
    BY IngestionAssumption, Bounds
  <1>13. cursor' \in [Instances -> {NoCursor} \cup 0..Events]
    BY <1>1, <1>2, <1>3
  <1>14. reconnects' \in [Instances -> 0..MaxReconnectAttempts]
    BY <1>2, <1>3, <1>12
  <1>15. persisting' \in [Instances -> BOOLEAN]
    BY <1>2, <1>3, <1>12
  <1> QED
    BY <1>11, <1>13, <1>14, <1>15

\* A crash empties the memory of one instance.
LEMMA CrashEffect ==
  ASSUME item \in [Instances -> [Event -> Item]], retry \in [Instances -> [Event -> Retry]],
         NEW i \in Instances, Crash(i)
  PROVE  /\ item' \in [Instances -> [Event -> Item]] /\ retry' \in [Instances -> [Event -> Retry]]
         /\ \A e \in Event : item'[i][e] = Idle /\ retry'[i][e] = NoRetry
         /\ \A j \in Instances \ {i}, e \in Event :
              item'[j][e] = item[j][e] /\ retry'[j][e] = retry[j][e]
         /\ marked' = [marked EXCEPT ![i] = {}]
  BY IdleType DEF Crash

\* The parts of TypeOK.
ItemTypes == item \in [Instances -> [Event -> Item]] /\ Bounded
RetryTypes == retry \in [Instances -> [Event -> Retry]]
RowTypes == row \in [Event -> RowSet]
ProcessTypes ==
  /\ running \in [Instances -> BOOLEAN] /\ up \in [Instances -> BOOLEAN]
  /\ persisting \in [Instances -> BOOLEAN]
  /\ reconnects \in [Instances -> 0..MaxReconnectAttempts]
  /\ cursor \in [Instances -> {NoCursor} \cup 0..Events]
CursorTypes == published \in 0..Events /\ storedCursor \in {NoCursor} \cup 0..Events
SendTypes == marked \in [Instances -> SUBSET Event] /\ delivered \in [Event -> Nat]
HistoryTypes ==
  seen \subseteq Event /\ resolved \subseteq Event /\ lost \subseteq Event /\ unrecorded \subseteq Event
TypeInv ==
  /\ ItemTypes /\ RetryTypes /\ RowTypes /\ ProcessTypes /\ CursorTypes /\ SendTypes /\ HistoryTypes

LEMMA TypeParts == TypeOK <=> TypeInv
  BY DEF TypeOK, TypeInv, ItemTypes, RetryTypes, RowTypes, ProcessTypes, CursorTypes,
         SendTypes, HistoryTypes, Bounded, RowSet

LEMMA ItemTypeStep ==
  ASSUME ItemTypes, NEW i \in Instances, NEW e \in Event, Touches(i, e),
         \/ item'[i][e].stage \in {"idle", "pending"}
         \/ item[i][e].stage \notin {"idle", "pending"}
         \/ Cardinality(InFlight(i)) < MaxConcurrency
  PROVE  ItemTypes'
  BY BoundedStep DEF ItemTypes, Touches

LEMMA SameItemTypes ==
  ASSUME ItemTypes, UNCHANGED item
  PROVE  ItemTypes'
  BY DEF ItemTypes, Bounded, InFlight

\* An acknowledgement is counted and remembered.
LEMMA AcknowledgedTypes ==
  ASSUME SendTypes, resolved \subseteq Event,
         NEW i \in Instances, NEW e \in Event, Acknowledged(i, e)
  PROVE  SendTypes' /\ resolved' \subseteq Event
  BY DEF SendTypes, Acknowledged

LEMMA TypeInvStep == TypeInv /\ [Next]_vars => TypeInv'
  <1> SUFFICES ASSUME TypeInv, TypeOK, [Next]_vars
               PROVE  TypeInv'
    BY TypeParts
  <1> USE DEF TypeInv
  <1>t. /\ item \in [Instances -> [Event -> Item]] /\ retry \in [Instances -> [Event -> Retry]]
        /\ row \in [Event -> RowSet]
    BY DEF ItemTypes, RetryTypes, RowTypes
  <1>1. CASE publish
    BY <1>1, SameItemTypes, Bounds
       DEF publish, process, history, RetryTypes, RowTypes, ProcessTypes, CursorTypes,
           SendTypes, HistoryTypes
  <1>2. ASSUME NEW i \in Instances, Start(i) PROVE TypeInv'
    <2>1. ProcessTypes'
      BY <1>2 DEF Start, ProcessTypes, CursorTypes
    <2> QED
      BY <1>2, <2>1, SameItemTypes
         DEF Start, history, RetryTypes, RowTypes, CursorTypes, SendTypes, HistoryTypes
  <1>3. ASSUME NEW i \in Instances, Crash(i) PROVE TypeInv'
    <2>1. \A j \in Instances, e \in Event :
             item'[j][e].stage \in {"idle", "pending"} \/ item'[j][e] = item[j][e]
      BY <1>3, <1>t, CrashEffect DEF Idle
    <2>2. ItemTypes' /\ RetryTypes'
      BY <1>3, <1>t, <2>1, CrashEffect, BoundedOffer DEF ItemTypes, RetryTypes
    <2>3. ProcessTypes'
      BY <1>3, Bounds DEF Crash, ProcessTypes
    <2>4. SendTypes'
      BY <1>3 DEF Crash, SendTypes
    <2>5. HistoryTypes'
      BY <1>3 DEF Crash, HistoryTypes
    <2> QED
      BY <1>3, <2>2, <2>3, <2>4, <2>5 DEF Crash, RowTypes, CursorTypes
  <1>4. ASSUME NEW i \in Instances, handleReconnection(i) PROVE TypeInv'
    <2>1. reconnects' \in [Instances -> 0..MaxReconnectAttempts] /\ running' \in [Instances -> BOOLEAN]
      <3>1. reconnects[i] \in 0 .. MaxReconnectAttempts /\ MaxReconnectAttempts \in Nat
        BY Bounds DEF ProcessTypes
      <3>2. CASE reconnects[i] >= MaxReconnectAttempts
        BY <1>4, <3>2 DEF handleReconnection, ProcessTypes
      <3>3. CASE ~(reconnects[i] >= MaxReconnectAttempts)
        <4>1. reconnects[i] + 1 \in 0 .. MaxReconnectAttempts
          BY <3>1, <3>3
        <4> QED
          BY <1>4, <3>3, <4>1 DEF handleReconnection, ProcessTypes
      <3> QED
        BY <3>2, <3>3
    <2> QED
      BY <1>4, <2>1, SameItemTypes
         DEF handleReconnection, history, RetryTypes, RowTypes, ProcessTypes, CursorTypes,
             SendTypes, HistoryTypes
  <1>5. ASSUME NEW i \in Instances, checkForEvents(i) PROVE TypeInv'
    <2>1. /\ Offers(i)
          /\ cursor' \in [Instances -> {NoCursor} \cup 0..Events]
          /\ reconnects' \in [Instances -> 0..MaxReconnectAttempts]
          /\ persisting' \in [Instances -> BOOLEAN]
      BY <1>5, CheckForEventsEffect
    <2>2. ItemTypes'
      BY <2>1, BoundedOffer DEF Offers, ItemTypes
    <2> QED
      BY <1>5, <2>1, <2>2
         DEF checkForEvents, Offers, RetryTypes, RowTypes, ProcessTypes, CursorTypes,
             SendTypes, HistoryTypes
  <1>6. ASSUME NEW i \in Instances, updatePollingCursor(i) PROVE TypeInv'
    <2>1. ProcessTypes' /\ CursorTypes'
      BY <1>6, Bounds DEF updatePollingCursor, ProcessTypes, CursorTypes
    <2> QED
      BY <1>6, <2>1, SameItemTypes
         DEF updatePollingCursor, history, RetryTypes, RowTypes, SendTypes, HistoryTypes
  <1>7. ASSUME NEW i \in Instances, NEW e \in Event, processNext(i, e) PROVE TypeInv'
    <2>1. ItemTypes' /\ resolved' \subseteq Event
      BY <1>7, <1>t, ProcessNextEffect, ItemTypeStep DEF Decides, Requests, HistoryTypes
    <2> QED
      BY <1>7, <2>1
         DEF processNext, process, RetryTypes, RowTypes, ProcessTypes, CursorTypes,
             SendTypes, HistoryTypes
  <1>8. ASSUME NEW i \in Instances, NEW e \in Event, isDuplicate(i, e) PROVE TypeInv'
    <2>1. ItemTypes' /\ resolved' \subseteq Event /\ unrecorded' \subseteq Event
      BY <1>8, <1>t, IsDuplicateEffect, ItemTypeStep DEF Decides, Requests, HistoryTypes
    <2> QED
      BY <1>8, <2>1
         DEF isDuplicate, process, RetryTypes, RowTypes, ProcessTypes, CursorTypes,
             SendTypes, HistoryTypes
  <1>9. ASSUME NEW i \in Instances, NEW e \in Event, recordRedetection(i, e) PROVE TypeInv'
    <2>1. ItemTypes' /\ RowTypes'
      BY <1>9, <1>t, RecordRedetectionEffect, ItemTypeStep DEF Idle, Writes, RowTypes
    <2> QED
      BY <1>9, <2>1
         DEF recordRedetection, process, history, RetryTypes, ProcessTypes, CursorTypes,
             SendTypes, HistoryTypes
  <1>10. ASSUME NEW i \in Instances, NEW e \in Event, sendEventNotification(i, e) PROVE TypeInv'
    <2>1. ItemTypes'
      BY <1>10, <1>t, SendNotificationEffect, ItemTypeStep
    <2>2. RetryTypes' /\ SendTypes' /\ resolved' \subseteq Event
      <3>1. CASE Acknowledged(i, e) /\ UNCHANGED retry
        BY <3>1, AcknowledgedTypes DEF RetryTypes, HistoryTypes
      <3>2. CASE Requeued(i, e)
        BY <3>2, <1>t, RequeuedEffect DEF Requeued, Retries, RetryTypes, SendTypes, HistoryTypes
      <3>3. CASE Thrown(e)
        BY <3>3 DEF Thrown, RetryTypes, SendTypes, HistoryTypes
      <3> QED
        BY <1>10, <1>t, <3>1, <3>2, <3>3, SendNotificationEffect
    <2> QED
      BY <1>10, <2>1, <2>2
         DEF sendEventNotification, process, RowTypes, ProcessTypes, CursorTypes, HistoryTypes
  <1>11. ASSUME NEW i \in Instances, NEW e \in Event, completeEvent(i, e) PROVE TypeInv'
    <2>1. ItemTypes' /\ RowTypes' /\ unrecorded' \subseteq Event
      BY <1>11, <1>t, CompleteEventEffect, ItemTypeStep
         DEF Writes, RowTypes, Records, Misses, HistoryTypes
    <2> QED
      BY <1>11, <2>1
         DEF completeEvent, process, RetryTypes, ProcessTypes, CursorTypes, SendTypes, HistoryTypes
  <1>12. ASSUME NEW i \in Instances, NEW e \in Event, completeEventInserts(i, e) PROVE TypeInv'
    <2>1. ItemTypes' /\ RowTypes' /\ unrecorded' \subseteq Event
      BY <1>12, <1>t, InsertEffect, ItemTypeStep
         DEF Writes, RowTypes, Records, Misses, HistoryTypes
    <2> QED
      BY <1>12, <2>1
         DEF completeEventInserts, process, RetryTypes, ProcessTypes, CursorTypes,
             SendTypes, HistoryTypes
  <1>13. ASSUME NEW i \in Instances, NEW e \in Event, processQueue(i, e) PROVE TypeInv'
    <2>1. RetryTypes'
      BY <1>13, <1>t, SetRetryStageEffect DEF processQueue, Retries, RetryTypes
    <2> QED
      BY <1>13, <2>1, SameItemTypes
         DEF processQueue, process, history, RowTypes, ProcessTypes, CursorTypes,
             SendTypes, HistoryTypes
  <1>14. ASSUME NEW i \in Instances, NEW e \in Event, retryItem(i, e) PROVE TypeInv'
    <2>1. RetryTypes' /\ resolved' \subseteq Event
      BY <1>14, <1>t, RetryItemEffect DEF Retries, RetryTypes, HistoryTypes
    <2> QED
      BY <1>14, <2>1, SameItemTypes
         DEF retryItem, process, RowTypes, ProcessTypes, CursorTypes, SendTypes, HistoryTypes
  <1>15. ASSUME NEW i \in Instances, NEW e \in Event, retryItemSettles(i, e) PROVE TypeInv'
    <2>1. RetryTypes'
      BY <1>15, <1>t, RetrySettlesEffect DEF Retries, RetryTypes
    <2>2. SendTypes' /\ resolved' \subseteq Event
      BY <1>15, <1>t, RetrySettlesEffect, AcknowledgedTypes DEF SendTypes, HistoryTypes
    <2> QED
      BY <1>15, <2>1, <2>2, SameItemTypes
         DEF retryItemSettles, process, RowTypes, ProcessTypes, CursorTypes, HistoryTypes
  <1>16. ASSUME NEW i \in Instances, NEW e \in Event, pruneExpired(i, e) PROVE TypeInv'
    <2>1. SendTypes'
      <3>1. marked[i] \ {e} \in SUBSET Event
        BY DEF SendTypes
      <3>2. marked' = [marked EXCEPT ![i] = marked[i] \ {e}] /\ UNCHANGED delivered
        BY <1>16 DEF pruneExpired, history
      <3> QED
        BY <3>1, <3>2 DEF SendTypes
    <2> QED
      BY <1>16, <2>1, SameItemTypes
         DEF pruneExpired, process, history, RetryTypes, RowTypes, ProcessTypes, CursorTypes,
             HistoryTypes
  <1>17. CASE UNCHANGED vars
    BY <1>17, SameItemTypes
       DEF vars, process, history, RetryTypes, RowTypes, ProcessTypes, CursorTypes,
           SendTypes, HistoryTypes
  <1> QED
    BY <1>1, <1>2, <1>3, <1>4, <1>5, <1>6, <1>7, <1>8, <1>9, <1>10, <1>11, <1>12, <1>13,
       <1>14, <1>15, <1>16, <1>17 DEF Next, processEventSteps, retrySteps

\* Every variable keeps its type; at most MaxConcurrency events are in
\* processEvent, and both queues stay within the attempts the policy grants.
THEOREM TypeCorrect == Spec => []TypeOK
  BY InitType, TypeParts, TypeInvStep, PTL DEF Spec

(***************************************************************************)
(* A row that says "sent" tells the truth                                  *)
(***************************************************************************)

\* Whoever believes that an event was sent is right: its row, the window of
\* recently sent notifications, and the outcome completeEvent is about to write.
Truthful ==
  \A e \in Event :
    /\ row[e].sent => delivered[e] > 0
    /\ \A i \in Instances :
         e \in marked[i] \/ item[i][e].outcome = "sent" => delivered[e] > 0

\* What a step may do: believers either believed before or have reason to.
LEMMA TruthfulStep ==
  ASSUME Truthful,
         \A e \in Event : delivered[e] > 0 => delivered'[e] > 0,
         \A e \in Event : row'[e].sent => row[e].sent \/ delivered'[e] > 0,
         \A i \in Instances, e \in Event :
            e \in marked'[i] => e \in marked[i] \/ delivered'[e] > 0,
         \A i \in Instances, e \in Event :
            item'[i][e].outcome = "sent" => item[i][e].outcome = "sent" \/ delivered'[e] > 0
  PROVE  Truthful'
  BY DEF Truthful

\* Steps on one item that deliver nothing and leave rows and marks alone.
LEMMA TruthfulItemStep ==
  ASSUME Truthful, NEW i \in Instances, NEW e \in Event, Touches(i, e),
         UNCHANGED <<delivered, row, marked>>,
         item'[i][e].outcome = "sent" => item[i][e].outcome = "sent" \/ e \in marked[i]
  PROVE  Truthful'
  <1>1. \A j \in Instances, d \in Event :
           item'[j][d].outcome = "sent" => item[j][d].outcome = "sent" \/ delivered'[d] > 0
    BY DEF Touches, Truthful
  <1> QED
    BY <1>1, TruthfulStep

\* Steps that record the outcome of an event in its row.
LEMMA TruthfulRecordStep ==
  ASSUME Truthful, row \in [Event -> RowSet],
         NEW i \in Instances, NEW e \in Event, Touches(i, e), Writes(e),
         UNCHANGED <<delivered, marked>>,
         item'[i][e].outcome = "sent" => item[i][e].outcome = "sent",
         row'[e] = CompletedRow(i, e) \/ row'[e].sent = row[e].sent
  PROVE  Truthful'
  <1>1. \A j \in Instances, d \in Event :
           item'[j][d].outcome = "sent" => item[j][d].outcome = "sent" \/ delivered'[d] > 0
    BY DEF Touches
  <1>2. CompletedRow(i, e).sent = (item[i][e].outcome = "sent")
    BY CompletedRowType
  <1>3. \A d \in Event : row'[d].sent => row[d].sent \/ delivered'[d] > 0
    BY <1>2 DEF Writes, Truthful
  <1> QED
    BY <1>1, <1>3, TruthfulStep

\* An acknowledgement makes its event delivered.
LEMMA AcknowledgedEffect ==
  ASSUME SendTypes, NEW i \in Instances, NEW e \in Event, Acknowledged(i, e)
  PROVE  /\ \A d \in Event : delivered[d] > 0 => delivered'[d] > 0
         /\ delivered'[e] = delivered[e] + 1 /\ delivered'[e] > 0
         /\ \A d \in Event \ {e} : delivered'[d] = delivered[d]
         /\ \A j \in Instances, d \in Event :
              d \in marked'[j] => d \in marked[j] \/ delivered'[d] > 0
  BY DEF SendTypes, Acknowledged

LEMMA TruthfulInit == Init => Truthful
  BY DEF Init, Truthful, NoRow, Idle

LEMMA TruthfulNext == TypeInv /\ Truthful /\ [Next]_vars => Truthful'
  <1> SUFFICES ASSUME TypeInv, Truthful, [Next]_vars
               PROVE  Truthful'
    OBVIOUS
  <1>t. /\ item \in [Instances -> [Event -> Item]] /\ retry \in [Instances -> [Event -> Retry]]
        /\ row \in [Event -> RowSet] /\ SendTypes
    BY DEF TypeInv, ItemTypes, RetryTypes, RowTypes
  <1>0. CASE UNCHANGED <<item, marked, row, delivered>>
    BY <1>0, TruthfulStep
  <1>1. ASSUME NEW i \in Instances, Crash(i) PROVE Truthful'
    <2>1. UNCHANGED <<row, delivered>>
      BY <1>1 DEF Crash
    <2>2. \A j \in Instances, e \in Event :
             item'[j][e].outcome = "sent" => item[j][e].outcome = "sent"
      BY <1>1, <1>t, CrashEffect DEF Idle
    <2>3. \A j \in Instances, e \in Event : e \in marked'[j] => e \in marked[j]
      BY <1>1, <1>t, CrashEffect DEF SendTypes
    <2> QED
      BY <2>1, <2>2, <2>3, TruthfulStep
  <1>2. ASSUME NEW i \in Instances, checkForEvents(i) PROVE Truthful'
    <2>1. UNCHANGED <<row, delivered, marked>>
      BY <1>2 DEF checkForEvents
    <2>2. \A j \in Instances, e \in Event :
             item'[j][e].outcome = "sent" => item[j][e].outcome = "sent"
      BY <1>2, TypeParts, CheckForEventsEffect DEF Offers
    <2> QED
      BY <2>1, <2>2, TruthfulStep
  <1>3. ASSUME NEW i \in Instances, NEW e \in Event, processNext(i, e) PROVE Truthful'
    <2>1. UNCHANGED <<row, delivered, marked>>
      BY <1>3 DEF processNext
    <2>2. Touches(i, e) /\ (item'[i][e].outcome = "sent" => e \in marked[i])
      BY <1>3, <1>t, ProcessNextEffect DEF Decides, Requests
    <2> QED
      BY <2>1, <2>2, TruthfulItemStep
  <1>4. ASSUME NEW i \in Instances, NEW e \in Event, isDuplicate(i, e) PROVE Truthful'
    <2>1. UNCHANGED <<row, delivered, marked>>
      BY <1>4 DEF isDuplicate
    <2>2. Touches(i, e) /\ (item'[i][e].outcome = "sent" => e \in marked[i])
      BY <1>4, <1>t, IsDuplicateEffect DEF Decides, Requests
    <2> QED
      BY <2>1, <2>2, TruthfulItemStep
  <1>5. ASSUME NEW i \in Instances, NEW e \in Event, recordRedetection(i, e) PROVE Truthful'
    <2>1. UNCHANGED <<delivered, marked>>
      BY <1>5 DEF recordRedetection, history
    <2>2. item'[i][e].outcome # "sent" /\ Touches(i, e) /\ Writes(e) /\ row'[e].sent = row[e].sent
      BY <1>5, <1>t, RecordRedetectionEffect DEF Idle
    <2> QED
      BY <1>t, <2>1, <2>2, TruthfulRecordStep
  <1>6. ASSUME NEW i \in Instances, NEW e \in Event, sendEventNotification(i, e) PROVE Truthful'
    <2>1. UNCHANGED row /\ Touches(i, e)
      BY <1>6, <1>t, SendNotificationEffect DEF sendEventNotification
    <2>2. CASE Acknowledged(i, e)
      <3>1. \A j \in Instances, d \in Event :
               item'[j][d].outcome = "sent" => item[j][d].outcome = "sent" \/ delivered'[d] > 0
        BY <1>t, <2>1, <2>2, AcknowledgedEffect DEF Touches
      <3> QED
        BY <1>t, <2>1, <2>2, <3>1, AcknowledgedEffect, TruthfulStep
    <2>3. CASE UNCHANGED <<delivered, marked>> /\ item'[i][e].outcome # "sent"
      BY <2>1, <2>3, TruthfulItemStep
    <2> QED
      BY <1>6, <1>t, <2>2, <2>3, SendNotificationEffect DEF Requeued, Thrown
  <1>7. ASSUME NEW i \in Instances, NEW e \in Event, completeEvent(i, e) PROVE Truthful'
    <2>1. UNCHANGED <<delivered, marked>>
      BY <1>7 DEF completeEvent
    <2>2. /\ Touches(i, e) /\ Writes(e)
          /\ item'[i][e].outcome = "sent" => item[i][e].outcome = "sent"
          /\ row'[e] = CompletedRow(i, e) \/ row'[e].sent = row[e].sent
      BY <1>7, <1>t, CompleteEventEffect DEF Records, Misses
    <2> QED
      BY <1>t, <2>1, <2>2, TruthfulRecordStep
  <1>8. ASSUME NEW i \in Instances, NEW e \in Event, completeEventInserts(i, e) PROVE Truthful'
    <2>1. UNCHANGED <<delivered, marked>>
      BY <1>8 DEF completeEventInserts
    <2>2. /\ Touches(i, e) /\ Writes(e)
          /\ item'[i][e].outcome = "sent" => item[i][e].outcome = "sent"
          /\ row'[e] = CompletedRow(i, e) \/ row'[e].sent = row[e].sent
      BY <1>8, <1>t, InsertEffect DEF Records, Misses
    <2> QED
      BY <1>t, <2>1, <2>2, TruthfulRecordStep
  <1>9. ASSUME NEW i \in Instances, NEW e \in Event, retryItemSettles(i, e) PROVE Truthful'
    <2>1. UNCHANGED <<item, row>>
      BY <1>9 DEF retryItemSettles
    <2>2. CASE Acknowledged(i, e)
      BY <1>t, <2>1, <2>2, AcknowledgedEffect, TruthfulStep
    <2>3. CASE UNCHANGED <<delivered, marked>>
      BY <1>0, <2>1, <2>3
    <2> QED
      BY <1>9, <1>t, <2>2, <2>3, RetrySettlesEffect
  <1>10. ASSUME NEW i \in Instances, NEW e \in Event, pruneExpired(i, e) PROVE Truthful'
    <2>1. UNCHANGED <<item, row, delivered>>
      BY <1>10 DEF pruneExpired, history
    <2>2. \A j \in Instances, d \in Event : d \in marked'[j] => d \in marked[j]
      <3>1. marked' = [marked EXCEPT ![i] = marked[i] \ {e}] /\ marked \in [Instances -> SUBSET Event]
        BY <1>10, <1>t DEF pruneExpired, SendTypes
      <3> QED
        BY <3>1
    <2> QED
      BY <2>1, <2>2, TruthfulStep
  <1>11. CASE publish
    BY <1>0, <1>11 DEF publish, history
  <1>12. ASSUME NEW i \in Instances,
                Start(i) \/ handleReconnection(i) \/ updatePollingCursor(i)
         PROVE  Truthful'
    BY <1>0, <1>12 DEF Start, handleReconnection, updatePollingCursor, history
  <1>13. ASSUME NEW i \in Instances, NEW e \in Event, processQueue(i, e) \/ retryItem(i, e)
         PROVE  Truthful'
    BY <1>0, <1>13 DEF processQueue, retryItem, history
  <1>14. CASE UNCHANGED vars
    BY <1>0, <1>14 DEF vars, history
  <1> QED
    BY <1>1, <1>2, <1>3, <1>4, <1>5, <1>6, <1>7, <1>8, <1>9, <1>10, <1>11, <1>12, <1>13,
       <1>14 DEF Next, processEventSteps, retrySteps

\* A row that says the notification was sent is right, whoever wrote it, for
\* any number of listeners, crashes and failing statements.
THEOREM SentRowsCorrect == Spec => []SentRowsAreTrue
  <1> DEFINE Inv == TypeInv /\ Truthful
  <1>1. Init => Inv
    BY InitType, TypeParts, TruthfulInit
  <1>2. Inv /\ [Next]_vars => Inv'
    <2>1. TypeInv /\ [Next]_vars => TypeInv'
      BY TypeInvStep
    <2> QED
      BY <2>1, TruthfulNext
  <1>3. Inv => SentRowsAreTrue
    BY DEF Truthful, SentRowsAreTrue
  <1> QED
    BY <1>1, <1>2, <1>3, PTL DEF Spec

(***************************************************************************)
(* Nothing but a crash loses an event                                      *)
(***************************************************************************)

\* The fate of an event is decided, or in the hands of a retry queue.
Decided(e) ==
  e \in resolved \cup lost \/ \E i \in Instances : retry[i][e].stage # "idle"

\* An event that completeEvent is about to record, and one that has a row, is
\* decided: the event queue may let go of it.
Accounted ==
  \A e \in Event :
    /\ row[e] # NoRow => Decided(e)
    /\ \A i \in Instances :
         item[i][e].stage \in {"redetecting", "completing", "inserting"} => Decided(e)
    /\ e \in seen => Decided(e) \/ \E i \in Instances : item[i][e].stage # "idle"

\* What a step may do: no decision is forgotten, and what the event queue lets
\* go of is decided.
LEMMA AccountedStep ==
  ASSUME Accounted,
         \A e \in Event : Decided(e) => Decided(e)',
         \A e \in Event : row'[e] # NoRow => row[e] # NoRow \/ Decided(e)',
         \A i \in Instances, e \in Event :
            item'[i][e].stage \in {"redetecting", "completing", "inserting"} =>
            item[i][e].stage \in {"redetecting", "completing", "inserting"} \/ Decided(e)',
         \A i \in Instances, e \in Event :
            item[i][e].stage # "idle" => item'[i][e].stage # "idle" \/ Decided(e)',
         \A e \in Event :
            e \in seen' => e \in seen \/ \E i \in Instances : item'[i][e].stage # "idle"
  PROVE  Accounted'
  BY DEF Accounted

\* No decision is forgotten while the retry queues keep what they hold.
LEMMA DecidedStays ==
  ASSUME NEW e \in Event, Decided(e), resolved \subseteq resolved', lost \subseteq lost',
         \A i \in Instances : retry[i][e].stage # "idle" =>
                                 retry'[i][e].stage # "idle" \/ e \in resolved' \cup lost'
  PROVE  Decided(e)'
  BY DEF Decided

\* Steps on one item after which the event is decided, or still in work.
LEMMA AccountedItemStep ==
  ASSUME Accounted, NEW i \in Instances, NEW e \in Event, Touches(i, e),
         UNCHANGED <<row, seen>>,
         \A d \in Event : Decided(d) => Decided(d)',
         Decided(e)' \/ item'[i][e].stage \in {"checking", "sending"}
  PROVE  Accounted'
  <1>1. \A j \in Instances, d \in Event :
            item'[j][d].stage \in {"redetecting", "completing", "inserting"} =>
            item[j][d].stage \in {"redetecting", "completing", "inserting"} \/ Decided(d)'
    BY DEF Touches
  <1>2. \A j \in Instances, d \in Event :
            item[j][d].stage # "idle" => item'[j][d].stage # "idle" \/ Decided(d)'
    BY DEF Touches
  <1> QED
    BY <1>1, <1>2, AccountedStep

\* Steps that record an event, which is decided.
LEMMA AccountedRecordStep ==
  ASSUME Accounted, NEW i \in Instances, NEW e \in Event, Touches(i, e), Writes(e),
         UNCHANGED <<resolved, lost, retry, seen>>,
         item[i][e].stage \in {"redetecting", "completing", "inserting"}
  PROVE  Accounted'
  <1>1. \A d \in Event : Decided(d) => Decided(d)'
    BY DEF Decided
  <1>2. Decided(e)'
    BY <1>1 DEF Accounted
  <1>3. \A d \in Event : row'[d] # NoRow => row[d] # NoRow \/ Decided(d)'
    BY <1>2 DEF Writes
  <1>4. \A j \in Instances, d \in Event :
            item'[j][d].stage \in {"redetecting", "completing", "inserting"} =>
            item[j][d].stage \in {"redetecting", "completing", "inserting"} \/ Decided(d)'
    BY <1>2 DEF Touches
  <1>5. \A j \in Instances, d \in Event :
            item[j][d].stage # "idle" => item'[j][d].stage # "idle" \/ Decided(d)'
    BY <1>2 DEF Touches
  <1> QED
    BY <1>1, <1>3, <1>4, <1>5, AccountedStep

\* Steps of the retry queue: what it lets go of is resolved.
LEMMA AccountedRetryStep ==
  ASSUME Accounted, NEW i \in Instances, NEW e \in Event, Retries(i, e),
         UNCHANGED <<item, row, seen, lost>>,
         \/ retry'[i][e].stage # "idle" /\ UNCHANGED resolved
         \/ resolved' = resolved \cup {e}
  PROVE  Accounted'
  <1>1. ASSUME NEW d \in Event, Decided(d) PROVE Decided(d)'
    BY <1>1, DecidedStays DEF Retries
  <1> QED
    BY <1>1, AccountedStep

LEMMA AccountedInit == Init => Accounted
  BY DEF Init, Accounted, NoRow, Idle

LEMMA AccountedNext == TypeInv /\ Accounted /\ [Next]_vars => Accounted'
  <1> SUFFICES ASSUME TypeInv, Accounted, [Next]_vars
               PROVE  Accounted'
    OBVIOUS
  <1>t. /\ item \in [Instances -> [Event -> Item]] /\ retry \in [Instances -> [Event -> Retry]]
        /\ row \in [Event -> RowSet]
    BY DEF TypeInv, ItemTypes, RetryTypes, RowTypes
  <1>0. CASE UNCHANGED <<item, row, retry, seen, resolved, lost>>
    <2>1. \A e \in Event : Decided(e) => Decided(e)'
      BY <1>0 DEF Decided
    <2> QED
      BY <1>0, <2>1, AccountedStep
  <1>1. ASSUME NEW i \in Instances, Crash(i) PROVE Accounted'
    <2>1. /\ UNCHANGED <<row, seen, resolved>>
          /\ lost' = lost \cup {e \in Event : Held(i, e)}
      BY <1>1 DEF Crash
    <2>2. /\ \A e \in Event : item'[i][e].stage = "idle" /\ retry'[i][e].stage = "idle"
          /\ \A j \in Instances \ {i}, e \in Event :
               item'[j][e] = item[j][e] /\ retry'[j][e] = retry[j][e]
      BY <1>1, <1>t, CrashEffect DEF Idle, NoRetry
    <2>3. ASSUME NEW e \in Event, Held(i, e) PROVE Decided(e)'
      BY <2>1, <2>3 DEF Decided
    <2>4. ASSUME NEW e \in Event, Decided(e) PROVE Decided(e)'
      BY <2>1, <2>2, <2>4, DecidedStays DEF Held
    <2>5. \A j \in Instances, e \in Event :
             item[j][e].stage # "idle" => item'[j][e].stage # "idle" \/ Decided(e)'
      BY <2>2, <2>3 DEF Held
    <2>6. \A j \in Instances, e \in Event :
             item'[j][e].stage \in {"redetecting", "completing", "inserting"} =>
             item[j][e].stage \in {"redetecting", "completing", "inserting"}
      BY <2>2
    <2> QED
      BY <2>1, <2>4, <2>5, <2>6, AccountedStep
  <1>2. ASSUME NEW i \in Instances, checkForEvents(i) PROVE Accounted'
    <2>1. UNCHANGED <<row, retry, resolved, lost>>
      BY <1>2 DEF checkForEvents
    <2>2. Offers(i)
      BY <1>2, TypeParts, CheckForEventsEffect
    <2>3. \A e \in Event : Decided(e) => Decided(e)'
      BY <2>1 DEF Decided
    <2>4. \A j \in Instances, e \in Event :
             item'[j][e].stage \in {"redetecting", "completing", "inserting"} =>
             item[j][e].stage \in {"redetecting", "completing", "inserting"}
      BY <2>2 DEF Offers
    <2>5. \A j \in Instances, e \in Event :
             item[j][e].stage # "idle" => item'[j][e].stage # "idle"
      BY <2>2 DEF Offers
    <2>6. \A e \in Event :
             e \in seen' => e \in seen \/ \E j \in Instances : item'[j][e].stage # "idle"
      BY <2>2 DEF Offers
    <2> QED
      BY <2>1, <2>3, <2>4, <2>5, <2>6, AccountedStep
  <1>3. ASSUME NEW i \in Instances, NEW e \in Event, processNext(i, e) PROVE Accounted'
    <2>1. UNCHANGED <<row, retry, seen, lost>>
      BY <1>3 DEF processNext
    <2>2. /\ Touches(i, e)
          /\ \/ resolved' = resolved \cup {e}
             \/ item'[i][e].stage \in {"checking", "sending"} /\ UNCHANGED resolved
      BY <1>3, <1>t, ProcessNextEffect DEF Decides, Requests
    <2>3. /\ \A d \in Event : Decided(d) => Decided(d)'
          /\ Decided(e)' \/ item'[i][e].stage \in {"checking", "sending"}
      BY <2>1, <2>2 DEF Decided
    <2> QED
      BY <2>1, <2>2, <2>3, AccountedItemStep
  <1>4. ASSUME NEW i \in Instances, NEW e \in Event, isDuplicate(i, e) PROVE Accounted'
    <2>1. UNCHANGED <<row, retry, seen, lost>>
      BY <1>4 DEF isDuplicate
    <2>2. /\ Touches(i, e)
          /\ \/ row[e] # NoRow /\ UNCHANGED resolved
             \/ resolved' = resolved \cup {e}
             \/ item'[i][e].stage = "sending" /\ UNCHANGED resolved
      BY <1>4, <1>t, IsDuplicateEffect DEF Decides, Requests
    <2>3. \A d \in Event : Decided(d) => Decided(d)'
      BY <2>1, <2>2 DEF Decided
    <2>4. Decided(e)' \/ item'[i][e].stage = "sending"
      <3>1. CASE row[e] # NoRow
        BY <2>3, <3>1 DEF Accounted
      <3>2. CASE resolved' = resolved \cup {e}
        BY <3>2 DEF Decided
      <3> QED
        BY <2>2, <3>1, <3>2
    <2> QED
      BY <2>1, <2>2, <2>3, <2>4, AccountedItemStep
  <1>5. ASSUME NEW i \in Instances, NEW e \in Event, recordRedetection(i, e) PROVE Accounted'
    BY <1>5, <1>t, RecordRedetectionEffect, AccountedRecordStep DEF recordRedetection, history
  <1>6. ASSUME NEW i \in Instances, NEW e \in Event, sendEventNotification(i, e) PROVE Accounted'
    <2>1. UNCHANGED <<row, seen, lost>> /\ Touches(i, e)
      BY <1>6, <1>t, SendNotificationEffect DEF sendEventNotification
    <2>2. CASE resolved' = resolved \cup {e} /\ UNCHANGED retry
      <3>1. (\A d \in Event : Decided(d) => Decided(d)') /\ Decided(e)'
        BY <2>1, <2>2 DEF Decided
      <3> QED
        BY <2>1, <3>1, AccountedItemStep
    <2>3. CASE Requeued(i, e)
      <3>1. Retries(i, e) /\ retry'[i][e].stage # "idle" /\ UNCHANGED resolved
        BY <1>t, <2>3, RequeuedEffect DEF Requeued
      <3>2. ASSUME NEW d \in Event, Decided(d) PROVE Decided(d)'
        BY <2>1, <3>1, <3>2, DecidedStays DEF Retries
      <3>3. Decided(e)'
        BY <3>1 DEF Decided
      <3> QED
        BY <2>1, <3>2, <3>3, AccountedItemStep
    <2> QED
      BY <1>6, <1>t, <2>2, <2>3, SendNotificationEffect DEF Acknowledged, Thrown
  <1>7. ASSUME NEW i \in Instances, NEW e \in Event, completeEvent(i, e) PROVE Accounted'
    BY <1>7, <1>t, CompleteEventEffect, AccountedRecordStep DEF completeEvent
  <1>8. ASSUME NEW i \in Instances, NEW e \in Event, completeEventInserts(i, e) PROVE Accounted'
    BY <1>8, <1>t, InsertEffect, AccountedRecordStep DEF completeEventInserts
  <1>9. ASSUME NEW i \in Instances, NEW e \in Event, processQueue(i, e) PROVE Accounted'
    <2>1. Retries(i, e) /\ retry'[i][e].stage # "idle"
      BY <1>9, <1>t, SetRetryStageEffect DEF processQueue
    <2> QED
      BY <1>9, <2>1, AccountedRetryStep DEF processQueue, history
  <1>10. ASSUME NEW i \in Instances, NEW e \in Event, retryItem(i, e) PROVE Accounted'
    BY <1>10, <1>t, RetryItemEffect, AccountedRetryStep DEF retryItem
  <1>11. ASSUME NEW i \in Instances, NEW e \in Event, retryItemSettles(i, e) PROVE Accounted'
    BY <1>11, <1>t, RetrySettlesEffect, AccountedRetryStep DEF retryItemSettles, Acknowledged
  <1>12. CASE publish
    BY <1>0, <1>12 DEF publish, history
  <1>13. ASSUME NEW i \in Instances,
                Start(i) \/ handleReconnection(i) \/ updatePollingCursor(i)
         PROVE  Accounted'
    BY <1>0, <1>13 DEF Start, handleReconnection, updatePollingCursor, history
  <1>14. ASSUME NEW i \in Instances, NEW e \in Event, pruneExpired(i, e) PROVE Accounted'
    BY <1>0, <1>14 DEF pruneExpired, history
  <1>15. CASE UNCHANGED vars
    BY <1>0, <1>15 DEF vars, history
  <1> QED
    BY <1>1, <1>2, <1>3, <1>4, <1>5, <1>6, <1>7, <1>8, <1>9, <1>10, <1>11, <1>12, <1>13,
       <1>14, <1>15 DEF Next, processEventSteps, retrySteps

\* An event that checkForEvents let through is held by an instance, its fate was
\* decided, or a process died while it held it: with any number of listeners,
\* failing statements, overlapping polls and refused enqueues.
THEOREM OnlyCrashesLoseCorrect == Spec => []OnlyCrashesLose
  <1> DEFINE Inv == TypeInv /\ Accounted
  <1>1. Init => Inv
    BY InitType, TypeParts, AccountedInit
  <1>2. Inv /\ [Next]_vars => Inv'
    <2>1. TypeInv /\ [Next]_vars => TypeInv'
      BY TypeInvStep
    <2> QED
      BY <2>1, AccountedNext
  <1>3. Inv => OnlyCrashesLose
    <2>1. TypeInv => seen \subseteq Event
      BY DEF TypeInv, HistoryTypes
    <2> QED
      BY <2>1 DEF Accounted, Decided, OnlyCrashesLose, Held
  <1> QED
    BY <1>1, <1>2, <1>3, PTL DEF Spec

(***************************************************************************)
(* One sender repeats only what was not recorded                           *)
(***************************************************************************)
Senders == Instances \ DryRun

\* At most one of the listeners sends, and it has the table to ask.
OneSender == HasDeduplication /\ \A i, j \in Senders : i = j

\* No request for the event was acknowledged, and none is to be repeated.
Untried(i, e) == delivered[e] = 0 /\ retry[i][e].stage = "idle"

\* An event that failures did not keep from being recorded is sent at most
\* once: before it has a row nothing was sent, unless completeEvent is about to
\* write the row; a request is only made when nothing was sent; and so the
\* retry queue works on events that were not delivered.
Recorded ==
  /\ \A i \in DryRun, e \in Event : item[i][e].stage # "sending" /\ retry[i][e].stage = "idle"
  /\ \A e \in Event \ unrecorded :
       /\ delivered[e] <= 1
       /\ \A i \in Senders :
            /\ item[i][e].stage = "sending" => Untried(i, e)
            /\ row[e] = NoRow /\ item[i][e].stage \notin {"completing", "inserting"} => Untried(i, e)
            /\ retry[i][e].stage # "idle" => delivered[e] = 0

\* The two parts, for one instance and event each.
Silent(i, e) == item[i][e].stage # "sending" /\ retry[i][e].stage = "idle"
SentOnce(i, e) ==
  /\ item[i][e].stage = "sending" => Untried(i, e)
  /\ row[e] = NoRow /\ item[i][e].stage \notin {"completing", "inserting"} => Untried(i, e)
  /\ retry[i][e].stage # "idle" => delivered[e] = 0

LEMMA RecordedParts ==
  Recorded <=> /\ \A i \in DryRun, e \in Event : Silent(i, e)
               /\ \A e \in Event \ unrecorded :
                    delivered[e] <= 1 /\ \A i \in Senders : SentOnce(i, e)
  BY DEF Recorded, Silent, SentOnce

\* What is to be shown of a step.
LEMMA RecordedStep ==
  ASSUME \A i \in DryRun, e \in Event : Silent(i, e)',
         \A e \in Event : e \notin unrecorded' => delivered'[e] <= 1,
         \A i \in Senders, e \in Event : e \notin unrecorded' => SentOnce(i, e)'
  PROVE  Recorded'
  BY DEF Recorded, Silent, SentOnce, Untried

\* A pair of which nothing changed.
LEMMA SameSentOnce ==
  ASSUME NEW i \in Instances, NEW e \in Event, SentOnce(i, e),
         item'[i][e] = item[i][e], retry'[i][e] = retry[i][e],
         delivered'[e] = delivered[e], row'[e] = NoRow => row[e] = NoRow
  PROVE  SentOnce(i, e)'
  BY DEF SentOnce, Untried

LEMMA SameSilent ==
  ASSUME NEW i \in Instances, NEW e \in Event, Silent(i, e),
         item'[i][e] = item[i][e], retry'[i][e] = retry[i][e]
  PROVE  Silent(i, e)'
  BY DEF Silent

\* A step at one instance and event, judged there alone.
Elsewhere(i, e) ==
  /\ \A j \in Instances, d \in Event : j # i \/ d # e =>
        item'[j][d] = item[j][d] /\ retry'[j][d] = retry[j][d]
  /\ \A d \in Event \ {e} : delivered'[d] = delivered[d] /\ (row'[d] = NoRow => row[d] = NoRow)
  /\ row'[e] = NoRow => row[e] = NoRow
  /\ unrecorded \subseteq unrecorded'

LEMMA RecordedLocalStep ==
  ASSUME Recorded, OneSender,
         NEW i \in Instances, NEW e \in Event, Elsewhere(i, e),
         i \in DryRun => Silent(i, e)' /\ UNCHANGED delivered,
         e \notin unrecorded' => delivered'[e] <= 1,
         i \in Senders /\ e \notin unrecorded' => SentOnce(i, e)'
  PROVE  Recorded'
  <1>1. DryRun \subseteq Instances /\ Senders \subseteq Instances /\ Instances = DryRun \cup Senders
    BY IngestionAssumption DEF Senders
  <1>2. ASSUME NEW j \in DryRun, NEW d \in Event PROVE Silent(j, d)'
    <2>1. Silent(j, d) /\ j \in Instances
      BY <1>1, RecordedParts
    <2> QED
      BY <2>1, SameSilent DEF Elsewhere
  <1>3. ASSUME NEW d \in Event, d \notin unrecorded' PROVE delivered'[d] <= 1
    BY <1>3, RecordedParts DEF Elsewhere
  <1>4. ASSUME NEW j \in Senders, NEW d \in Event, d \notin unrecorded' PROVE SentOnce(j, d)'
    <2>1. SentOnce(j, d) /\ j \in Instances
      BY <1>1, <1>4, RecordedParts DEF Elsewhere
    <2>2. CASE j = i /\ d = e
      BY <1>4, <2>2
    <2>3. CASE ~(j = i /\ d = e)
      <3>1. delivered'[d] = delivered[d]
        <4>1. CASE d # e
          BY <4>1 DEF Elsewhere
        <4>2. CASE d = e
          <5>1. i \in DryRun
            BY <1>1, <2>3, <4>2 DEF OneSender
          <5> QED
            BY <5>1
        <4> QED
          BY <4>1, <4>2
      <3> QED
        BY <2>1, <2>3, <3>1, SameSentOnce DEF Elsewhere
    <2> QED
      BY <2>2, <2>3
  <1> QED
    BY <1>2, <1>3, <1>4, RecordedStep

\* What the invariant says of the pair a step is about.
LEMMA RecordedHere ==
  ASSUME Recorded, HistoryTypes, NEW i \in Instances, NEW e \in Event
  PROVE  /\ i \in DryRun => Silent(i, e)
         /\ e \notin unrecorded => delivered[e] <= 1
         /\ i \in Senders /\ e \notin unrecorded => SentOnce(i, e)
         /\ i \in DryRun \/ i \in Senders
  BY RecordedParts DEF Senders

LEMMA RecordedInit == Init => Recorded
  <1> SUFFICES ASSUME Init PROVE Recorded
    OBVIOUS
  <1>1. \A i \in Instances, e \in Event : item[i][e].stage = "idle" /\ retry[i][e].stage = "idle"
    BY DEF Init, Idle, NoRetry
  <1>2. \A e \in Event : delivered[e] = 0
    BY DEF Init
  <1> QED
    BY <1>1, <1>2, IngestionAssumption DEF Recorded, Senders, Untried

LEMMA RecordedNext == OneSender /\ TypeInv /\ Recorded /\ [Next]_vars => Recorded'
  <1> SUFFICES ASSUME OneSender, TypeInv, Recorded, [Next]_vars
               PROVE  Recorded'
    OBVIOUS
  <1>t. /\ item \in [Instances -> [Event -> Item]] /\ retry \in [Instances -> [Event -> Retry]]
        /\ row \in [Event -> RowSet] /\ delivered \in [Event -> Nat] /\ SendTypes /\ HistoryTypes
        /\ HasDeduplication
    BY DEF TypeInv, ItemTypes, RetryTypes, RowTypes, SendTypes, OneSender
  <1>0. CASE UNCHANGED <<item, row, retry, delivered, unrecorded>>
    BY <1>0 DEF Recorded, Untried
  <1>1. ASSUME NEW i \in Instances, Crash(i) PROVE Recorded'
    <2>1. /\ UNCHANGED <<row, delivered>>
          /\ unrecorded' = unrecorded \cup {e \in Event : delivered[e] > 0 /\ row[e] = NoRow}
      BY <1>1 DEF Crash
    <2>2. /\ \A e \in Event : item'[i][e].stage = "idle" /\ retry'[i][e].stage = "idle"
          /\ \A j \in Instances \ {i}, e \in Event :
               item'[j][e] = item[j][e] /\ retry'[j][e] = retry[j][e]
      BY <1>1, <1>t, CrashEffect DEF Idle, NoRetry
    <2>3. ASSUME NEW j \in DryRun, NEW e \in Event PROVE Silent(j, e)'
      <3>1. j \in Instances /\ Silent(j, e)
        BY RecordedParts, IngestionAssumption
      <3> QED
        BY <2>2, <3>1 DEF Silent
    <2>4. \A e \in Event : e \notin unrecorded' => delivered'[e] <= 1
      BY <2>1, RecordedParts
    <2>5. ASSUME NEW j \in Senders, NEW e \in Event, e \notin unrecorded' PROVE SentOnce(j, e)'
      <3>1. SentOnce(j, e) /\ j \in Instances /\ (row[e] = NoRow => delivered[e] = 0)
        BY <1>t, <2>1, <2>5, RecordedParts DEF Senders
      <3>2. CASE j = i
        BY <2>1, <2>2, <3>1, <3>2 DEF SentOnce, Untried
      <3>3. CASE j # i
        BY <2>1, <2>2, <3>1, <3>3, SameSentOnce
      <3> QED
        BY <3>2, <3>3
    <2> QED
      BY <2>3, <2>4, <2>5, RecordedStep
  <1>2. ASSUME NEW i \in Instances, checkForEvents(i) PROVE Recorded'
    <2>1. UNCHANGED <<row, delivered, unrecorded, retry>>
      BY <1>2 DEF checkForEvents
    <2>2. \A j \in Instances, e \in Event :
             \/ item'[j][e] = item[j][e]
             \/ item[j][e].stage = "idle" /\ item'[j][e].stage = "pending"
      BY <1>2, TypeParts, CheckForEventsEffect DEF Offers
    <2>3. ASSUME NEW j \in DryRun, NEW e \in Event PROVE Silent(j, e)'
      <3>1. j \in Instances /\ Silent(j, e)
        BY RecordedParts, IngestionAssumption
      <3> QED
        BY <2>1, <2>2, <3>1 DEF Silent
    <2>4. ASSUME NEW j \in Senders, NEW e \in Event, e \notin unrecorded' PROVE SentOnce(j, e)'
      <3>1. SentOnce(j, e) /\ j \in Instances
        BY <2>1, <2>4, RecordedParts DEF Senders
      <3> QED
        BY <2>1, <2>2, <3>1 DEF SentOnce, Untried
    <2>5. \A e \in Event : e \notin unrecorded' => delivered'[e] <= 1
      BY <2>1, RecordedParts
    <2> QED
      BY <2>3, <2>4, <2>5, RecordedStep
  <1>3. ASSUME NEW i \in Instances, NEW e \in Event, processNext(i, e) PROVE Recorded'
    <2>1. UNCHANGED <<row, retry, delivered, unrecorded>>
      BY <1>3 DEF processNext
    <2>2. /\ Touches(i, e) /\ item[i][e].stage = "pending"
          /\ item'[i][e].stage \in {"idle", "pending", "checking", "completing"}
      BY <1>3, <1>t, ProcessNextEffect DEF Decides, Requests
    <2>3. Elsewhere(i, e)
      BY <2>1, <2>2 DEF Elsewhere, Touches
    <2>4. Silent(i, e) => Silent(i, e)'
      BY <2>1, <2>2 DEF Silent
    <2>5. SentOnce(i, e) => SentOnce(i, e)'
      BY <2>1, <2>2 DEF SentOnce, Untried
    <2> QED
      BY <1>t, <2>1, <2>3, <2>4, <2>5, RecordedHere, RecordedLocalStep
  <1>4. ASSUME NEW i \in Instances, NEW e \in Event, isDuplicate(i, e) PROVE Recorded'
    <2>1. UNCHANGED <<row, retry, delivered>>
      BY <1>4 DEF isDuplicate
    <2>2. /\ Touches(i, e) /\ item[i][e].stage = "checking"
          /\ \/ item'[i][e].stage = "redetecting" /\ row[e] # NoRow /\ UNCHANGED unrecorded
             \/ /\ item'[i][e].stage = "completing" \/ (item'[i][e].stage = "sending" /\ i \notin DryRun)
                /\ \/ row[e] = NoRow /\ UNCHANGED unrecorded
                   \/ unrecorded' = unrecorded \cup {e}
      <3>1. /\ Touches(i, e) /\ item[i][e].stage = "checking"
            /\ \/ /\ row[e] # NoRow
                  /\ item'[i][e].stage = "redetecting" /\ UNCHANGED <<resolved, unrecorded>>
               \/ /\ item'[i][e].stage = "completing" \/ Requests(i, e)
                  /\ \/ row[e] = NoRow /\ UNCHANGED unrecorded
                     \/ unrecorded' = unrecorded \cup {e}
        BY <1>4, <1>t, IsDuplicateEffect
      <3>2. Requests(i, e) => item'[i][e].stage = "sending" /\ i \notin DryRun
        BY DEF Requests
      <3> QED
        BY <3>1, <3>2
    <2>3. Elsewhere(i, e)
      BY <2>1, <2>2 DEF Elsewhere, Touches
    <2>4. i \in DryRun /\ Silent(i, e) => Silent(i, e)'
      BY <2>1, <2>2 DEF Silent
    <2>5. e \notin unrecorded' /\ SentOnce(i, e) => SentOnce(i, e)'
      BY <2>1, <2>2 DEF SentOnce, Untried
    <2>6. e \notin unrecorded' => e \notin unrecorded
      BY <2>2
    <2> QED
      BY <1>t, <2>1, <2>3, <2>4, <2>5, <2>6, RecordedHere, RecordedLocalStep
  <1>5. ASSUME NEW i \in Instances, NEW e \in Event, recordRedetection(i, e) PROVE Recorded'
    <2>1. UNCHANGED <<retry, delivered, unrecorded>>
      BY <1>5 DEF recordRedetection, history
    <2>2. /\ Touches(i, e) /\ item[i][e].stage = "redetecting" /\ item'[i][e].stage = "idle"
          /\ Writes(e) /\ (row'[e] = NoRow => row[e] = NoRow)
      BY <1>5, <1>t, RecordRedetectionEffect DEF Idle
    <2>3. Elsewhere(i, e)
      BY <2>1, <2>2 DEF Elsewhere, Touches, Writes
    <2>4. Silent(i, e) => Silent(i, e)'
      BY <2>1, <2>2 DEF Silent
    <2>5. SentOnce(i, e) => SentOnce(i, e)'
      BY <2>1, <2>2 DEF SentOnce, Untried
    <2> QED
      BY <1>t, <2>1, <2>3, <2>4, <2>5, RecordedHere, RecordedLocalStep
  <1>6. ASSUME NEW i \in Instances, NEW e \in Event, sendEventNotification(i, e) PROVE Recorded'
    <2>1. UNCHANGED <<row, unrecorded>>
      BY <1>6 DEF sendEventNotification
    <2>2. /\ Touches(i, e) /\ item[i][e].stage = "sending" /\ item'[i][e].stage = "completing"
          /\ \/ Acknowledged(i, e) /\ UNCHANGED retry
             \/ Requeued(i, e)
             \/ Thrown(e)
      BY <1>6, <1>t, SendNotificationEffect
    <2>3. i \notin DryRun
      BY <1>t, <2>2, RecordedHere DEF Silent
    <2>4. CASE Acknowledged(i, e) /\ UNCHANGED retry
      <3>1. /\ delivered'[e] = delivered[e] + 1
            /\ \A d \in Event \ {e} : delivered'[d] = delivered[d]
        BY <1>t, <2>4, AcknowledgedEffect
      <3>2. Elsewhere(i, e)
        BY <2>1, <2>2, <2>4, <3>1 DEF Elsewhere, Touches
      <3>3. SentOnce(i, e) => SentOnce(i, e)' /\ delivered'[e] <= 1
        BY <2>2, <2>4, <3>1 DEF SentOnce, Untried
      <3> QED
        BY <1>t, <2>1, <2>3, <3>2, <3>3, RecordedHere, RecordedLocalStep
    <2>5. CASE Requeued(i, e)
      <3>1. Retries(i, e) /\ UNCHANGED delivered
        BY <1>t, <2>5, RequeuedEffect DEF Requeued
      <3>2. Elsewhere(i, e)
        BY <2>1, <2>2, <3>1 DEF Elsewhere, Touches, Retries
      <3>3. SentOnce(i, e) => SentOnce(i, e)'
        BY <2>2, <3>1 DEF SentOnce, Untried
      <3> QED
        BY <1>t, <2>1, <2>3, <3>1, <3>2, <3>3, RecordedHere, RecordedLocalStep
    <2>6. CASE Thrown(e)
      <3>1. UNCHANGED <<delivered, retry>>
        BY <2>6 DEF Thrown
      <3>2. Elsewhere(i, e)
        BY <2>1, <2>2, <3>1 DEF Elsewhere, Touches
      <3>3. SentOnce(i, e) => SentOnce(i, e)'
        BY <2>2, <3>1 DEF SentOnce, Untried
      <3> QED
        BY <1>t, <2>1, <2>3, <3>1, <3>2, <3>3, RecordedHere, RecordedLocalStep
    <2> QED
      BY <2>2, <2>4, <2>5, <2>6
  <1>7. ASSUME NEW i \in Instances, NEW e \in Event,
               completeEvent(i, e) \/ completeEventInserts(i, e)
        PROVE  Recorded'
    <2>1. UNCHANGED <<retry, delivered>>
      BY <1>7 DEF completeEvent, completeEventInserts
    <2>2. /\ Touches(i, e) /\ Writes(e) /\ item'[i][e].stage \in {"idle", "pending", "inserting"}
          /\ \/ row'[e] = CompletedRow(i, e) /\ UNCHANGED unrecorded
             \/ UNCHANGED row /\ unrecorded' = unrecorded \cup {e}
             \/ row[e] # NoRow /\ UNCHANGED <<row, unrecorded>>
             \/ item'[i][e].stage = "inserting" /\ UNCHANGED <<row, unrecorded>>
      BY <1>7, <1>t, CompleteEventEffect, InsertEffect DEF Records, Misses
    <2>3. CompletedRow(i, e) # NoRow
      BY <1>t, CompletedRowType
    <2>4. Elsewhere(i, e)
      BY <2>1, <2>2, <2>3 DEF Elsewhere, Touches, Writes
    <2>5. Silent(i, e) => Silent(i, e)'
      BY <2>1, <2>2 DEF Silent
    <2>6. e \notin unrecorded' /\ SentOnce(i, e) => SentOnce(i, e)'
      BY <2>1, <2>2, <2>3 DEF SentOnce, Untried
    <2>7. e \notin unrecorded' => e \notin unrecorded
      BY <2>2
    <2> QED
      BY <1>t, <2>1, <2>4, <2>5, <2>6, <2>7, RecordedHere, RecordedLocalStep
  <1>8. ASSUME NEW i \in Instances, NEW e \in Event, processQueue(i, e) \/ retryItem(i, e)
        PROVE  Recorded'
    <2>1. UNCHANGED <<item, row, delivered, unrecorded>>
      BY <1>8 DEF processQueue, retryItem, history
    <2>2. Retries(i, e) /\ retry[i][e].stage # "idle"
      <3>1. CASE processQueue(i, e)
        BY <1>t, <3>1, SetRetryStageEffect DEF processQueue
      <3>2. CASE retryItem(i, e)
        BY <1>t, <3>2, RetryItemEffect
      <3> QED
        BY <1>8, <3>1, <3>2
    <2>3. i \notin DryRun
      BY <1>t, <2>2, RecordedHere DEF Silent
    <2>4. Elsewhere(i, e)
      BY <2>1, <2>2 DEF Elsewhere, Retries
    <2>5. SentOnce(i, e) => SentOnce(i, e)'
      BY <2>1, <2>2 DEF SentOnce, Untried
    <2> QED
      BY <1>t, <2>1, <2>3, <2>4, <2>5, RecordedHere, RecordedLocalStep
  <1>9. ASSUME NEW i \in Instances, NEW e \in Event, retryItemSettles(i, e) PROVE Recorded'
    <2>1. UNCHANGED <<item, row, unrecorded>>
      BY <1>9 DEF retryItemSettles
    <2>2. /\ Retries(i, e) /\ retry[i][e].stage = "sending"
          /\ \/ Acknowledged(i, e) /\ retry'[i][e].stage = "idle"
             \/ UNCHANGED delivered
      BY <1>9, <1>t, RetrySettlesEffect
    <2>3. i \notin DryRun
      BY <1>t, <2>2, RecordedHere DEF Silent
    <2>4. CASE Acknowledged(i, e) /\ retry'[i][e].stage = "idle"
      <3>1. /\ delivered'[e] = delivered[e] + 1
            /\ \A d \in Event \ {e} : delivered'[d] = delivered[d]
        BY <1>t, <2>4, AcknowledgedEffect
      <3>2. Elsewhere(i, e)
        BY <2>1, <2>2, <3>1 DEF Elsewhere, Retries
      <3>3. SentOnce(i, e) => SentOnce(i, e)' /\ delivered'[e] <= 1
        BY <2>1, <2>2, <2>4, <3>1 DEF SentOnce, Untried
      <3> QED
        BY <1>t, <2>1, <2>3, <3>2, <3>3, RecordedHere, RecordedLocalStep
    <2>5. CASE UNCHANGED delivered
      <3>1. Elsewhere(i, e)
        BY <2>1, <2>2, <2>5 DEF Elsewhere, Retries
      <3>2. SentOnce(i, e) => SentOnce(i, e)'
        BY <2>1, <2>2, <2>5 DEF SentOnce, Untried
      <3> QED
        BY <1>t, <2>1, <2>3, <2>5, <3>1, <3>2, RecordedHere, RecordedLocalStep
    <2> QED
      BY <2>2, <2>4, <2>5
  <1>10. CASE publish
    BY <1>0, <1>10 DEF publish, history
  <1>11. ASSUME NEW i \in Instances,
                Start(i) \/ handleReconnection(i) \/ updatePollingCursor(i)
         PROVE  Recorded'
    BY <1>0, <1>11 DEF Start, handleReconnection, updatePollingCursor, history
  <1>12. ASSUME NEW i \in Instances, NEW e \in Event, pruneExpired(i, e) PROVE Recorded'
    BY <1>0, <1>12 DEF pruneExpired, history
  <1>13. CASE UNCHANGED vars
    BY <1>0, <1>13 DEF vars, history
  <1> QED
    BY <1>1, <1>2, <1>3, <1>4, <1>5, <1>6, <1>7, <1>8, <1>9, <1>10, <1>11, <1>12, <1>13
       DEF Next, processEventSteps, retrySteps

\* Where one listener sends, whatever number of dry runs share its database, a
\* second notification for an event takes a failed statement on its row, or a
\* crash between the delivery and the record of it.
THEOREM RepeatsCorrect == ASSUME OneSender PROVE Spec => []RepeatsAreUnrecorded
  <1> DEFINE Inv == TypeInv /\ Recorded
  <1>1. Init => Inv
    BY InitType, TypeParts, RecordedInit
  <1>2. Inv /\ [Next]_vars => Inv'
    <2>1. TypeInv /\ [Next]_vars => TypeInv'
      BY TypeInvStep
    <2> QED
      BY <2>1, RecordedNext
  <1>3. Inv => RepeatsAreUnrecorded
    <2>1. ASSUME Inv, NEW e \in Event, delivered[e] > 1 PROVE e \in unrecorded
      <3>1. delivered[e] \in Nat
        BY <2>1 DEF TypeInv, SendTypes
      <3> QED
        BY <2>1, <3>1, RecordedParts
    <2> QED
      BY <2>1 DEF RepeatsAreUnrecorded
  <1> QED
    BY <1>1, <1>2, <1>3, PTL DEF Spec

-----------------------------------------------------------------------------
(***************************************************************************)
(* RpcFailover: the choice of the next endpoint                            *)
(***************************************************************************)

\* Any set of natural numbers has a least one.
LEMMA Least ==
  ASSUME NEW T \in SUBSET Nat, T # {}
  PROVE  \E n \in T : \A m \in T : n <= m
  <1> DEFINE Less == {mn \in Nat \X Nat : mn[1] < mn[2]}
  <1>1. IsWellFoundedOn(Less, Nat)
    BY NatLessThanWellFounded DEF OpToRel
  <1>2. \E n \in T : \A m \in T : <<m, n>> \notin Less
    <2> HIDE DEF Less
    <2> QED
      BY <1>1, WFMin
  <1>3. \A m, n \in Nat : m < n => <<m, n>> \in Less
    OBVIOUS
  <1> HIDE DEF Less
  <1>4. PICK n \in T : \A m \in T : <<m, n>> \notin Less
    BY <1>2
  <1>5. \A m \in T : n <= m
    <2> SUFFICES ASSUME NEW m \in T, ~(n <= m) PROVE FALSE
      OBVIOUS
    <2>1. m \in Nat /\ n \in Nat /\ m < n
      OBVIOUS
    <2> QED
      BY <1>3, <1>4, <2>1
  <1> QED
    BY <1>4, <1>5

Statuses == {"healthy", "degraded", "unhealthy"}

\* The constants, and the endpoints as a finite set.
LEMMA PoolFacts ==
  /\ Endpoints \in Nat \ {0} /\ FailureThreshold \in Nat \ {0} /\ Contracts \in Nat \ {0}
  /\ MaxRetries \in Nat /\ MaxReconnections \in Nat /\ MaxDisturbances \in Nat
  /\ MaxRejections \in Nat
  /\ Pool \subseteq Nat /\ 1 \in Pool
  /\ IsFiniteSet(Pool) /\ Cardinality(Pool) = Endpoints
  <1>1. /\ Endpoints \in Nat \ {0} /\ FailureThreshold \in Nat \ {0} /\ Contracts \in Nat \ {0}
        /\ MaxRetries \in Nat /\ MaxReconnections \in Nat /\ MaxDisturbances \in Nat
        /\ MaxRejections \in Nat
    BY RpcFailoverAssumption
  <1>2. IsFiniteSet(Pool) /\ Cardinality(Pool) = Endpoints
    BY <1>1, FS_Interval DEF Pool
  <1> QED
    BY <1>1, <1>2 DEF Pool

\* executeOnce tries at least once, and just once without another endpoint.
LEMMA AttemptsType ==
  /\ totalAttemptsAllowed \in Nat \ {0}
  /\ Endpoints = 1 => totalAttemptsAllowed = 1
  BY PoolFacts DEF totalAttemptsAllowed, Lesser

\* Distances around the ring.
LEMMA DistanceType ==
  ASSUME NEW a \in Pool, NEW o \in Pool
  PROVE  /\ distance(a, o) \in 0 .. Endpoints - 1
         /\ a # o => distance(a, o) \in 1 .. Endpoints - 1
  BY PoolFacts DEF distance, Pool

\* From an endpoint b that lies on the way from a to e, e is nearer.
LEMMA NearerOnTheWay ==
  ASSUME NEW a \in Pool, NEW b \in Pool, NEW e \in Pool, a # b, b # e,
         distance(a, b) <= distance(a, e)
  PROVE  distance(b, e) < distance(a, e)
  BY PoolFacts DEF distance, Pool

\* NextOf is an element, and none of the set comes before it in ring order.
LEMMA NextOfNearest ==
  ASSUME NEW a \in Pool, NEW S \in SUBSET Pool, S # {}
  PROVE  /\ NextOf(a, S) \in S
         /\ \A x \in S : distance(a, NextOf(a, S)) <= distance(a, x)
  <1> DEFINE D == {distance(a, x) : x \in S}
  <1>0. \A x \in S : distance(a, x) \in Nat
    <2> TAKE x \in S
    <2>1. distance(a, x) \in 0 .. Endpoints - 1
      BY DistanceType
    <2> QED
      BY <2>1, PoolFacts
  <1>1. D \in SUBSET Nat /\ D # {}
    BY <1>0
  <1> HIDE DEF D
  <1>2. PICK d \in D : \A m \in D : d <= m
    BY <1>1, Least
  <1> USE DEF D
  <1>3. PICK o \in S : d = distance(a, o)
    BY <1>2
  <1>4. \A x \in S : distance(a, o) <= distance(a, x)
    BY <1>2, <1>3
  <1> QED
    BY <1>4 DEF NextOf

\* An order of last failures: a strict partial one.
IsOrder(order) ==
  /\ order \in [Pool -> SUBSET Pool]
  /\ \A e, o \in Pool : o \in order[e] => order[o] \subseteq order[e] \ {o}

\* One that is total on S.
TotalOn(S, order) == \A e, o \in S : o # e => o \in order[e] \/ e \in order[o]

\* Oldest is an element, and it failed before all the others of the set.
LEMMA OldestFirst ==
  ASSUME NEW order, IsOrder(order), NEW S \in SUBSET Pool, S # {}, TotalOn(S, order)
  PROVE  /\ Oldest(S, order) \in S
         /\ \A x \in S \ {Oldest(S, order)} : Oldest(S, order) \in order[x]
  <1> DEFINE size(x) == Cardinality(order[x])
             D == {size(x) : x \in S}
  <1>1. \A x \in Pool : order[x] \subseteq Pool /\ IsFiniteSet(order[x]) /\ size(x) \in Nat
    BY PoolFacts, FS_Subset, FS_CardinalityType DEF IsOrder
  <1>2. D \in SUBSET Nat /\ D # {}
    BY <1>1
  <1> HIDE DEF D
  <1>3. PICK d \in D : \A m \in D : d <= m
    BY <1>2, Least
  <1> USE DEF D
  <1>4. PICK o \in S : d = size(o)
    BY <1>3
  <1>5. \A x \in S : size(o) <= size(x)
    BY <1>3, <1>4
  <1>6. ASSUME NEW x \in S \ {o} PROVE o \in order[x]
    <2> SUFFICES ASSUME o \notin order[x] PROVE FALSE
      OBVIOUS
    <2>1. x \in order[o]
      BY DEF TotalOn
    <2>2. order[x] \subseteq order[o] \ {x}
      BY <2>1 DEF IsOrder
    <2>3. IsFiniteSet(order[o] \ {x}) /\ Cardinality(order[o] \ {x}) = size(o) - 1
      BY <1>1, <2>1, FS_RemoveElement
    <2>4. size(x) <= size(o) - 1
      BY <2>2, <2>3, FS_Subset
    <2> QED
      BY <1>1, <1>5, <2>4
  <1> HIDE DEF D
  <1>7. \A x \in S \ {o} : o \in order[x]
    BY <1>6
  <1> QED
    BY <1>7 DEF Oldest

(***************************************************************************)
(* What one failure does                                                   *)
(***************************************************************************)

\* switchToNextEndpoint goes from a to b.
Chosen(a, b, st, order) ==
  /\ b \in Pool \ {a}
  /\ (\E o \in Pool \ {a} : st[o] = "healthy") =>
        /\ st[b] = "healthy"
        /\ \A o \in Pool \ {a} : st[o] = "healthy" => distance(a, b) <= distance(a, o)
  /\ (\A o \in Pool \ {a} : st[o] # "healthy") =>
        \/ /\ st[b] = "degraded"
           /\ \A o \in Pool \ {a} : st[o] = "degraded" => distance(a, b) <= distance(a, o)
        \/ /\ \A o \in Pool \ {a} : st[o] = "unhealthy"
           /\ \A o \in Pool \ {a} : o # b => b \in order[o]

\* nextEndpoint keeps its three priorities: a healthy endpoint, then a degraded
\* one, each the nearest in ring order, then the one that failed first.
LEMMA NextEndpointChosen ==
  ASSUME NEW a \in Pool, Endpoints > 1,
         NEW st \in [Pool -> Statuses], NEW order, IsOrder(order),
         TotalOn({o \in Pool \ {a} : st[o] # "healthy"}, order)
  PROVE  Chosen(a, nextEndpoint(a, st, order), st, order)
  <1> DEFINE others(s) == {o \in Pool \ {a} : st[o] = s}
             b == nextEndpoint(a, st, order)
  <1>0. Pool \ {a} # {}
    <2>1. 1 \in Pool /\ 2 \in Pool /\ 1 # 2
      BY PoolFacts DEF Pool
    <2> QED
      BY <2>1
  <1>1. CASE others("healthy") # {}
    <2>1. b = NextOf(a, others("healthy"))
      BY <1>1 DEF nextEndpoint
    <2>2. b \in others("healthy") /\ \A x \in others("healthy") : distance(a, b) <= distance(a, x)
      BY <1>1, <2>1, NextOfNearest
    <2> HIDE DEF b
    <2>3. (\E o \in Pool \ {a} : st[o] = "healthy") /\ b \in Pool \ {a} /\ st[b] = "healthy"
      BY <1>1, <2>2
    <2>4. \A o \in Pool \ {a} : st[o] = "healthy" => distance(a, b) <= distance(a, o)
      BY <2>2
    <2>5. Chosen(a, b, st, order)
      BY <2>3, <2>4 DEF Chosen
    <2> QED
      BY <2>5 DEF b
  <1>2. CASE others("healthy") = {} /\ others("degraded") # {}
    <2>1. b = NextOf(a, others("degraded"))
      BY <1>2 DEF nextEndpoint
    <2>2. b \in others("degraded") /\ \A x \in others("degraded") : distance(a, b) <= distance(a, x)
      BY <1>2, <2>1, NextOfNearest
    <2> HIDE DEF b
    <2>3. b \in Pool \ {a} /\ st[b] = "degraded" /\ \A o \in Pool \ {a} : st[o] # "healthy"
      BY <1>2, <2>2
    <2>4. \A o \in Pool \ {a} : st[o] = "degraded" => distance(a, b) <= distance(a, o)
      BY <2>2
    <2>5. Chosen(a, b, st, order)
      BY <2>3, <2>4 DEF Chosen
    <2> QED
      BY <2>5 DEF b
  <1>3. CASE others("healthy") = {} /\ others("degraded") = {}
    <2>1. b = Oldest(Pool \ {a}, order)
      BY <1>3 DEF nextEndpoint
    <2>2. \A o \in Pool \ {a} : st[o] = "unhealthy"
      BY <1>3 DEF Statuses
    <2>3. {o \in Pool \ {a} : st[o] # "healthy"} = Pool \ {a}
      BY <2>2
    <2>4. TotalOn(Pool \ {a}, order)
      BY <2>3
    <2>a. Pool \ {a} \in SUBSET Pool
      OBVIOUS
    <2>b. /\ Oldest(Pool \ {a}, order) \in Pool \ {a}
          /\ \A x \in (Pool \ {a}) \ {Oldest(Pool \ {a}, order)} : Oldest(Pool \ {a}, order) \in order[x]
      <3> DEFINE S == Pool \ {a}
      <3> HIDE DEF S
      <3>1. S \in SUBSET Pool /\ S # {} /\ TotalOn(S, order)
        BY <1>0, <2>4, <2>a DEF S
      <3>2. /\ Oldest(S, order) \in S
            /\ \A x \in S \ {Oldest(S, order)} : Oldest(S, order) \in order[x]
        BY <3>1, OldestFirst
      <3> QED
        BY <3>2 DEF S
    <2> HIDE DEF b
    <2>5. b \in Pool \ {a} /\ \A x \in (Pool \ {a}) \ {b} : b \in order[x]
      BY <2>1, <2>b
    <2>6. \A o \in Pool \ {a} : o # b => b \in order[o]
      BY <2>5
    <2>7. Chosen(a, b, st, order)
      BY <1>0, <2>2, <2>5, <2>6 DEF Chosen
    <2> QED
      BY <2>7 DEF b
  <1> HIDE DEF others
  <1> QED
    BY <1>1, <1>2, <1>3

\* What recordFailure on the active endpoint a does to the records.
FailureShape(a) ==
  /\ consecutiveFailures' \in [Pool -> 0..FailureThreshold]
  /\ consecutiveFailures'[a] = Lesser(consecutiveFailures[a] + 1, FailureThreshold)
  /\ \A o \in Pool \ {a} : consecutiveFailures'[o] = consecutiveFailures[o]
  /\ before' \in [Pool -> SUBSET Pool]
  /\ before'[a] = Pool \ {a}
  /\ \A o \in Pool \ {a} : before'[o] = before[o] \ {a}
  /\ cooled' = cooled \ {a}
  /\ status' \in [Pool -> Statuses]
  /\ status'[a] = IF consecutiveFailures'[a] = FailureThreshold THEN "unhealthy" ELSE "degraded"
  /\ \A o \in Pool \ {a} :
       \/ status'[o] = status[o]
       \/ status[o] = "unhealthy" /\ status'[o] = "degraded" /\ o \in cooled
  /\ \/ /\ activeIndex' = a
        /\ Endpoints > 1 => consecutiveFailures'[a] < FailureThreshold
        /\ \A o \in Pool \ {a} : status'[o] = status[o]
     \/ /\ Endpoints > 1
        /\ Chosen(a, activeIndex', status', before')
        /\ \A o \in Pool \ {a} : status'[o] = "unhealthy" => o \notin cooled

\* recordFailure has that effect, with the cooldowns and the switch it leads to.
LEMMA FailureHasShape ==
  ASSUME FailoverTypeOK, NEW a \in Pool, NEW again \in BOOLEAN, recordFailure(a, again),
         a = activeIndex
  PROVE  FailureShape(a)
  <1> DEFINE count == Lesser(consecutiveFailures[a] + 1, FailureThreshold)
             new == IF count = FailureThreshold THEN "unhealthy" ELSE "degraded"
             st == [status EXCEPT ![a] = new]
             order == [o \in Pool |-> IF o = a THEN Pool \ {a} ELSE before[o] \ {a}]
             after == [o \in Pool |-> IF o = a THEN st[o] ELSE checkCooldowns(st)[o]]
  <1>0. /\ status \in [Pool -> Statuses]
        /\ consecutiveFailures \in [Pool -> 0..FailureThreshold]
        /\ before \in [Pool -> SUBSET Pool]
    BY DEF FailoverTypeOK, Statuses
  <1>1. /\ consecutiveFailures' = [consecutiveFailures EXCEPT ![a] = count]
        /\ before' = order
        /\ cooled' = cooled \ {a}
        /\ Endpoints > 1 /\ (st[a] = "unhealthy" \/ again) =>
              status' = after /\ activeIndex' = nextEndpoint(a, after, order)
        /\ ~(Endpoints > 1 /\ (st[a] = "unhealthy" \/ again)) =>
              status' = st /\ UNCHANGED activeIndex
    BY DEF recordFailure
  <1>2. count \in 0 .. FailureThreshold
    BY <1>0, PoolFacts DEF Lesser
  <1>3. new \in Statuses
    BY DEF Statuses
  <1> HIDE DEF count, new
  <1>4. st \in [Pool -> Statuses] /\ st[a] = new /\ \A o \in Pool \ {a} : st[o] = status[o]
    BY <1>0, <1>3
  <1>5. /\ order \in [Pool -> SUBSET Pool]
        /\ order[a] = Pool \ {a}
        /\ \A o \in Pool \ {a} : order[o] = before[o] \ {a}
    BY <1>0
  <1> HIDE DEF st, order
  <1>6. /\ after \in [Pool -> Statuses]
        /\ after[a] = new
        /\ \A o \in Pool \ {a} :
             after[o] = IF status[o] = "unhealthy" /\ o \in cooled THEN "degraded" ELSE status[o]
    BY <1>0, <1>4 DEF checkCooldowns, Statuses
  <1> HIDE DEF after
  <1>7. /\ consecutiveFailures' \in [Pool -> 0..FailureThreshold]
        /\ consecutiveFailures'[a] = count
        /\ \A o \in Pool \ {a} : consecutiveFailures'[o] = consecutiveFailures[o]
    BY <1>0, <1>1, <1>2
  <1>8. IsOrder(order)
    <2> SUFFICES ASSUME NEW e \in Pool, NEW o \in Pool, o \in order[e]
                 PROVE  order[o] \subseteq order[e] \ {o}
      BY <1>5 DEF IsOrder
    <2>1. /\ o \in before[e] => before[o] \subseteq before[e] \ {o}
      BY DEF FailoverTypeOK
    <2>2. CASE e = a
      <3>1. o # a
        BY <1>5, <2>2
      <3>2. before[o] \subseteq Pool /\ (o \in before[o] => before[o] \subseteq before[o] \ {o})
        BY <1>0 DEF FailoverTypeOK
      <3> QED
        BY <1>5, <2>2, <3>1, <3>2
    <2>3. CASE e # a
      <3>1. o # a /\ o \in before[e]
        BY <1>5, <2>3
      <3> QED
        BY <1>5, <2>1, <2>3, <3>1
    <2> QED
      BY <2>2, <2>3
  <1>9. TotalOn({o \in Pool \ {a} : after[o] # "healthy"}, order)
    <2> SUFFICES ASSUME NEW e \in Pool \ {a}, NEW o \in Pool \ {a}, o # e,
                        after[e] # "healthy", after[o] # "healthy"
                 PROVE  o \in order[e] \/ e \in order[o]
      BY DEF TotalOn
    <2>1. status[e] # "healthy" /\ status[o] # "healthy"
      BY <1>6
    <2>2. o \in before[e] \/ e \in before[o]
      BY <2>1 DEF FailoverTypeOK
    <2> QED
      BY <1>5, <2>2
  <1>10. new = IF count = FailureThreshold THEN "unhealthy" ELSE "degraded"
    BY DEF new
  <1>11. CASE Endpoints > 1 /\ (st[a] = "unhealthy" \/ again)
    <2>1. status' = after /\ activeIndex' = nextEndpoint(a, after, order) /\ before' = order
      BY <1>1, <1>11
    <2>2. Chosen(a, activeIndex', status', before')
      BY <1>6, <1>8, <1>9, <1>11, <2>1, NextEndpointChosen
    <2>3. \A o \in Pool \ {a} : status'[o] = "unhealthy" => o \notin cooled
      BY <1>6, <2>1
    <2>4. \A o \in Pool \ {a} :
             \/ status'[o] = status[o]
             \/ status[o] = "unhealthy" /\ status'[o] = "degraded" /\ o \in cooled
      BY <1>6, <2>1
    <2>5. status' \in [Pool -> Statuses] /\ status'[a] = new
      BY <1>6, <2>1
    <2> QED
      BY <1>1, <1>5, <1>7, <1>10, <1>11, <2>1, <2>2, <2>3, <2>4, <2>5 DEF FailureShape, count
  <1>12. CASE ~(Endpoints > 1 /\ (st[a] = "unhealthy" \/ again))
    <2>1. status' = st /\ activeIndex' = a /\ before' = order
      BY <1>1, <1>12
    <2>2. Endpoints > 1 => count < FailureThreshold
      BY <1>2, <1>4, <1>10, <1>12, PoolFacts
    <2>3. \A o \in Pool \ {a} : status'[o] = status[o]
      BY <1>4, <2>1
    <2>4. status' \in [Pool -> Statuses] /\ status'[a] = new
      BY <1>4, <2>1
    <2> QED
      BY <1>1, <1>5, <1>7, <1>10, <2>1, <2>2, <2>3, <2>4 DEF FailureShape, count
  <1> QED
    BY <1>11, <1>12

(***************************************************************************)
(* Types                                                                   *)
(***************************************************************************)

\* The conjuncts of FailoverTypeOK about the endpoints, and the others.
RecordsOK ==
  /\ status \in [Pool -> Statuses]
  /\ consecutiveFailures \in [Pool -> 0..FailureThreshold]
  /\ \A e \in Pool :
       /\ consecutiveFailures[e] > 0 <=> status[e] # "healthy"
       /\ status[e] = "unhealthy" => consecutiveFailures[e] = FailureThreshold
  /\ IsOrder(before) /\ cooled \subseteq Pool
  /\ TotalOn({o \in Pool : status[o] # "healthy"}, before)
  /\ \A e \in cooled : before[e] \subseteq cooled
  /\ activeIndex \in Pool

PollOK ==
  /\ attempt \in 1..totalAttemptsAllowed /\ contract \in 1..Contracts
  /\ answered \in BOOLEAN /\ isRunning \in BOOLEAN
  /\ reconnectAttempts \in 0..MaxReconnections
  /\ steady \subseteq reachable /\ reachable \subseteq Pool
  /\ disturbances \in 0..MaxDisturbances /\ rejections \in 0..disturbances

\* The type invariant, as what the records and what the poll loop satisfy.
LEMMA FailoverTypeParts == FailoverTypeOK <=> RecordsOK /\ PollOK
  <1>1. ASSUME FailoverTypeOK PROVE RecordsOK
    <2>1. IsOrder(before)
      BY <1>1 DEF FailoverTypeOK, IsOrder
    <2>2. TotalOn({o \in Pool : status[o] # "healthy"}, before)
      BY <1>1 DEF FailoverTypeOK, TotalOn
    <2>3. \A e \in cooled : before[e] \subseteq cooled
      BY <1>1 DEF FailoverTypeOK
    <2> QED
      BY <1>1, <2>1, <2>2, <2>3 DEF FailoverTypeOK, RecordsOK, Statuses
  <1>2. FailoverTypeOK => PollOK
    BY DEF FailoverTypeOK, PollOK
  <1>3. ASSUME RecordsOK, PollOK PROVE FailoverTypeOK
    <2>1. \A e, o \in Pool :
            /\ o \in before[e] => before[o] \subseteq before[e] \ {o}
            /\ o # e /\ "healthy" \notin {status[o], status[e]} => o \in before[e] \/ e \in before[o]
            /\ e \in cooled => before[e] \subseteq cooled
      BY <1>3 DEF RecordsOK, IsOrder, TotalOn
    <2>2. before \in [Pool -> SUBSET Pool]
      BY <1>3 DEF RecordsOK, IsOrder
    <2>3. /\ status \in [Pool -> {"healthy", "degraded", "unhealthy"}]
          /\ consecutiveFailures \in [Pool -> 0..FailureThreshold]
          /\ \A e \in Pool :
               /\ consecutiveFailures[e] > 0 <=> status[e] # "healthy"
               /\ status[e] = "unhealthy" => consecutiveFailures[e] = FailureThreshold
          /\ cooled \subseteq Pool /\ activeIndex \in Pool
      BY <1>3 DEF RecordsOK, Statuses
    <2> QED
      BY <1>3, <2>1, <2>2, <2>3 DEF FailoverTypeOK, PollOK
  <1> QED
    BY <1>1, <1>2, <1>3

\* The same in the next state, where each of the two is shown by itself.
LEMMA FailoverTypePartsNext == RecordsOK' /\ PollOK' => FailoverTypeOK'
  BY FailoverTypeParts, PTL

\* The endpoint that failed becomes the youngest of the order of last failures,
\* and what cooled down is still its old end.
LEMMA FailureKeepsRecords ==
  ASSUME FailoverTypeOK, NEW a \in Pool, FailureShape(a), a = activeIndex
  PROVE  RecordsOK'
  <1>0. RecordsOK
    BY FailoverTypeParts
  <1>1. status' \in [Pool -> Statuses] /\ consecutiveFailures' \in [Pool -> 0..FailureThreshold]
    BY DEF FailureShape
  <1>2. ASSUME NEW e \in Pool
        PROVE  /\ consecutiveFailures'[e] > 0 <=> status'[e] # "healthy"
               /\ status'[e] = "unhealthy" => consecutiveFailures'[e] = FailureThreshold
    <2>1. CASE e = a
      <3>1. consecutiveFailures[a] \in 0 .. FailureThreshold
        BY <1>0 DEF RecordsOK
      <3>2. consecutiveFailures'[a] > 0
        BY <3>1, PoolFacts DEF FailureShape, Lesser
      <3> QED
        BY <2>1, <3>2 DEF FailureShape
    <2>2. CASE e # a
      <3>1. consecutiveFailures'[e] = consecutiveFailures[e]
        BY <2>2 DEF FailureShape
      <3>2. \/ status'[e] = status[e]
            \/ status[e] = "unhealthy" /\ status'[e] = "degraded"
        BY <2>2 DEF FailureShape
      <3> QED
        BY <1>0, <3>1, <3>2 DEF RecordsOK
    <2> QED
      BY <2>1, <2>2
  <1>3. IsOrder(before')
    <2>1. before' \in [Pool -> SUBSET Pool]
      BY DEF FailureShape
    <2>2. ASSUME NEW e \in Pool, NEW o \in Pool, o \in before'[e]
          PROVE  before'[o] \subseteq before'[e] \ {o}
      <3>0. before[e] \subseteq Pool /\ before[o] \subseteq Pool
        BY <1>0 DEF RecordsOK, IsOrder
      <3>1. o # a
        BY <2>2 DEF FailureShape
      <3>2. before'[o] = before[o] \ {a}
        BY <3>1 DEF FailureShape
      <3>3. CASE e = a
        <4>1. o \notin before[o]
          BY <1>0 DEF RecordsOK, IsOrder
        <4> QED
          BY <3>0, <3>2, <3>3, <4>1 DEF FailureShape
      <3>4. CASE e # a
        <4>1. before'[e] = before[e] \ {a}
          BY <3>4 DEF FailureShape
        <4>2. before[o] \subseteq before[e] \ {o}
          BY <1>0, <2>2, <4>1 DEF RecordsOK, IsOrder
        <4> QED
          BY <3>2, <4>1, <4>2
      <3> QED
        BY <3>3, <3>4
    <2> QED
      BY <2>1, <2>2 DEF IsOrder
  <1>4. TotalOn({o \in Pool : status'[o] # "healthy"}, before')
    <2> SUFFICES ASSUME NEW e \in Pool, NEW o \in Pool, o # e,
                        status'[e] # "healthy", status'[o] # "healthy"
                 PROVE  o \in before'[e] \/ e \in before'[o]
      BY DEF TotalOn
    <2>1. CASE e = a \/ o = a
      BY <2>1 DEF FailureShape
    <2>2. CASE e # a /\ o # a
      <3>1. status[e] # "healthy" /\ status[o] # "healthy"
        BY <2>2 DEF FailureShape
      <3>2. o \in before[e] \/ e \in before[o]
        BY <1>0, <3>1 DEF RecordsOK, TotalOn
      <3> QED
        BY <2>2, <3>2 DEF FailureShape
    <2> QED
      BY <2>1, <2>2
  <1>5. cooled' \subseteq Pool /\ \A e \in cooled' : before'[e] \subseteq cooled'
    <2>1. cooled' = cooled \ {a}
      BY DEF FailureShape
    <2>2. ASSUME NEW e \in cooled' PROVE before'[e] \subseteq cooled'
      <3>1. e \in Pool \ {a} /\ before[e] \subseteq cooled
        BY <1>0, <2>1 DEF RecordsOK
      <3>2. before'[e] = before[e] \ {a}
        BY <3>1 DEF FailureShape
      <3> QED
        BY <2>1, <3>1, <3>2
    <2> QED
      BY <1>0, <2>1, <2>2 DEF RecordsOK
  <1>6. activeIndex' \in Pool
    BY DEF FailureShape, Chosen
  <1> QED
    BY <1>1, <1>2, <1>3, <1>4, <1>5, <1>6 DEF RecordsOK

\* A success clears the count and the status of the active endpoint together.
LEMMA SuccessKeepsRecords ==
  ASSUME RecordsOK, recordSuccess(activeIndex)
  PROVE  RecordsOK'
  <1>1. /\ status' = [status EXCEPT ![activeIndex] = "healthy"]
        /\ consecutiveFailures' = [consecutiveFailures EXCEPT ![activeIndex] = 0]
        /\ UNCHANGED <<before, cooled, activeIndex>>
    BY DEF recordSuccess
  <1>2. /\ status' \in [Pool -> Statuses] /\ consecutiveFailures' \in [Pool -> 0..FailureThreshold]
        /\ activeIndex \in Pool
        /\ status'[activeIndex] = "healthy" /\ consecutiveFailures'[activeIndex] = 0
        /\ \A e \in Pool : e # activeIndex =>
             status'[e] = status[e] /\ consecutiveFailures'[e] = consecutiveFailures[e]
    BY <1>1, PoolFacts DEF RecordsOK, Statuses
  <1>3. \A e \in Pool :
          /\ consecutiveFailures'[e] > 0 <=> status'[e] # "healthy"
          /\ status'[e] = "unhealthy" => consecutiveFailures'[e] = FailureThreshold
    BY <1>2 DEF RecordsOK
  <1>4. TotalOn({o \in Pool : status'[o] # "healthy"}, before')
    BY <1>1, <1>2 DEF RecordsOK, TotalOn
  <1> QED
    BY <1>1, <1>2, <1>3, <1>4 DEF RecordsOK

\* The attempt, the contract and the reconnections stay within their bounds.
LEMMA EndOfOperationType ==
  ASSUME PollOK, NEW ok \in BOOLEAN, EndOfOperation(ok)
  PROVE  /\ attempt' \in 1..totalAttemptsAllowed /\ contract' \in 1..Contracts
         /\ answered' \in BOOLEAN /\ isRunning' \in BOOLEAN
         /\ reconnectAttempts' \in 0..MaxReconnections
  <1>1. attempt' = 1 /\ 1 \in 1..totalAttemptsAllowed
    BY AttemptsType DEF EndOfOperation
  <1>2. CASE /\ contract < Contracts
             /\ contract' = contract + 1
             /\ answered' = (answered \/ ok)
             /\ UNCHANGED <<reconnectAttempts, isRunning>>
    <2>1. contract' \in 1..Contracts
      BY <1>2, PoolFacts DEF PollOK
    <2>2. answered' \in BOOLEAN
      BY <1>2 DEF PollOK
    <2> QED
      BY <1>1, <1>2, <2>1, <2>2 DEF PollOK
  <1>3. CASE /\ contract = Contracts
             /\ contract' = 1
             /\ answered' = FALSE
             /\ EndOfPoll(answered \/ ok)
    <2>1. contract' \in 1..Contracts
      BY <1>3, PoolFacts
    <2>2. \/ reconnectAttempts' = 0 /\ isRunning' = isRunning
          \/ isRunning' = FALSE /\ reconnectAttempts' = reconnectAttempts
          \/ /\ ~(reconnectAttempts >= MaxReconnections)
             /\ reconnectAttempts' = reconnectAttempts + 1 /\ isRunning' = isRunning
      BY <1>3 DEF EndOfPoll, reconnect
    <2>3. reconnectAttempts' \in 0..MaxReconnections
      BY <2>2, PoolFacts DEF PollOK
    <2>4. isRunning' \in BOOLEAN
      BY <2>2 DEF PollOK
    <2> QED
      BY <1>1, <1>3, <2>1, <2>3, <2>4
  <1> QED
    BY <1>2, <1>3 DEF EndOfOperation

\* Whether the failed attempt is to be followed by another one of its operation.
Retried == attempt < totalAttemptsAllowed /\ Endpoints > 1

\* What a failed attempt does, whatever its error.
LEMMA FailParts ==
  ASSUME NEW err \in Errors, Fail(err)
  PROVE  /\ Retried \in BOOLEAN
         /\ isRunning /\ activeIndex \notin reachable
         /\ recordFailure(activeIndex, Retried)
         /\ reachable' = reachable /\ disturbances' = disturbances
         /\ Retried => /\ attempt' = attempt + 1
                       /\ UNCHANGED <<contract, answered, reconnectAttempts, isRunning, steady, rejections>>
         /\ ~Retried => EndOfOperation(FALSE) /\ Remember(FALSE, 0)
  <1>1. Retried \in BOOLEAN
    BY DEF Retried
  <1> QED
    BY <1>1 DEF Fail, Retried, failoverHistory

\* The history, when an operation ends.
LEMMA Remembered ==
  ASSUME PollOK, NEW ok \in BOOLEAN, NEW n \in {0, 1}, Remember(ok, n)
  PROVE  /\ steady' = reachable \/ steady' = steady
         /\ rejections' \in 0 .. disturbances + n
         /\ contract = Contracts /\ (answered \/ ok) => rejections' = 0
         /\ ~(contract = Contracts /\ (answered \/ ok)) =>
               steady' = steady /\ rejections' = rejections + n
  <1>1. rejections \in Nat /\ disturbances \in Nat /\ rejections <= disturbances
    BY PoolFacts DEF PollOK
  <1>2. CASE contract = Contracts /\ (answered \/ ok)
    BY <1>1, <1>2 DEF Remember
  <1>3. CASE ~(contract = Contracts /\ (answered \/ ok))
    BY <1>1, <1>3 DEF Remember
  <1> QED
    BY <1>2, <1>3

\* A failed attempt changes the records as recordFailure of the active endpoint does.
LEMMA FailHasShape ==
  ASSUME FailoverTypeOK, NEW err \in Errors, Fail(err)
  PROVE  activeIndex \in Pool /\ FailureShape(activeIndex)
  <1>1. activeIndex \in Pool
    BY DEF FailoverTypeOK
  <1>2. Retried \in BOOLEAN /\ recordFailure(activeIndex, Retried)
    BY FailParts
  <1> DEFINE a == activeIndex
  <1> HIDE DEF a
  <1>3. a \in Pool /\ recordFailure(a, Retried) /\ a = activeIndex
    BY <1>1, <1>2 DEF a
  <1>4. FailureShape(a)
    BY <1>2, <1>3, FailureHasShape
  <1> QED
    BY <1>1, <1>4 DEF a

\* Nothing has failed at first.
LEMMA FailoverTypeInitial == FailoverInit => FailoverTypeOK
  <1> SUFFICES ASSUME FailoverInit PROVE FailoverTypeOK
    OBVIOUS
  <1>1. /\ status = [e \in Pool |-> "healthy"]
        /\ consecutiveFailures = [e \in Pool |-> 0]
        /\ before = [e \in Pool |-> {}] /\ cooled = Pool
        /\ activeIndex = 1
    BY DEF FailoverInit
  <1>2. /\ status \in [Pool -> Statuses] /\ consecutiveFailures \in [Pool -> 0..FailureThreshold]
        /\ \A e \in Pool : status[e] = "healthy" /\ consecutiveFailures[e] = 0 /\ before[e] = {}
    BY <1>1, PoolFacts DEF Statuses
  <1>3. IsOrder(before)
    BY <1>1 DEF IsOrder
  <1>4. TotalOn({o \in Pool : status[o] # "healthy"}, before)
    BY <1>2 DEF TotalOn
  <1>5. \A e \in Pool : /\ consecutiveFailures[e] > 0 <=> status[e] # "healthy"
                        /\ status[e] = "unhealthy" => consecutiveFailures[e] = FailureThreshold
    BY <1>2
  <1>a. cooled \subseteq Pool /\ (\A e \in cooled : before[e] \subseteq cooled) /\ activeIndex \in Pool
    <2>1. 1 \in Pool
      BY PoolFacts
    <2> QED
      BY <1>1, <2>1
  <1>b. status \in [Pool -> Statuses] /\ consecutiveFailures \in [Pool -> 0..FailureThreshold]
    BY <1>2
  <1>6. RecordsOK
    BY <1>3, <1>4, <1>5, <1>a, <1>b DEF RecordsOK
  <1>7. PollOK
    <2>1. /\ attempt = 1 /\ contract = 1 /\ answered = FALSE /\ isRunning = TRUE
          /\ reconnectAttempts = 0 /\ disturbances = 0
          /\ reachable \in SUBSET Pool /\ steady = reachable /\ rejections = 0
      BY DEF FailoverInit
    <2>2. 1 \in 1..totalAttemptsAllowed /\ 1 \in 1..Contracts
      BY PoolFacts, AttemptsType
    <2>3. 0 \in 0..MaxReconnections /\ 0 \in 0..MaxDisturbances /\ 0 \in 0..0
      BY PoolFacts
    <2> QED
      BY <2>1, <2>2, <2>3 DEF PollOK
  <1> QED
    BY <1>6, <1>7, FailoverTypeParts

\* FailoverTypeOK is inductive: one step for each action.
LEMMA FailoverTypePreserved ==
  ASSUME FailoverTypeOK, [FailoverNext]_failoverVars
  PROVE  FailoverTypeOK'
  <1>0. RecordsOK /\ PollOK
    BY FailoverTypeParts
  <1>1. ASSUME Answer PROVE FailoverTypeOK'
    <2>1. RecordsOK'
      BY <1>0, <1>1, SuccessKeepsRecords DEF Answer
    <2>2. EndOfOperation(TRUE)
      BY <1>1 DEF Answer
    <2>3. /\ attempt' \in 1..totalAttemptsAllowed /\ contract' \in 1..Contracts
          /\ answered' \in BOOLEAN /\ isRunning' \in BOOLEAN
          /\ reconnectAttempts' \in 0..MaxReconnections
      BY <1>0, <2>2, EndOfOperationType
    <2>4. /\ steady' \subseteq reachable' /\ reachable' \subseteq Pool
          /\ disturbances' \in 0..MaxDisturbances /\ rejections' \in 0..disturbances'
      <3>1. /\ steady' = reachable \/ steady' = steady
            /\ rejections' \in 0 .. disturbances + 0
            /\ reachable' = reachable /\ disturbances' = disturbances
        BY <1>0, <1>1, Remembered DEF Answer
      <3> QED
        BY <1>0, <3>1 DEF PollOK
    <2> QED
      BY <2>1, <2>3, <2>4, FailoverTypePartsNext DEF PollOK
  <1>2. ASSUME NEW err \in Errors, Fail(err) PROVE FailoverTypeOK'
    <2>1. RecordsOK'
      <3> DEFINE a == activeIndex
      <3>1. a \in Pool /\ FailureShape(a) /\ a = activeIndex
        BY <1>2, FailHasShape
      <3> HIDE DEF a
      <3> QED
        BY <3>1, FailureKeepsRecords
    <2>2. /\ attempt' \in 1..totalAttemptsAllowed /\ contract' \in 1..Contracts
          /\ answered' \in BOOLEAN /\ isRunning' \in BOOLEAN
          /\ reconnectAttempts' \in 0..MaxReconnections
      <3>1. CASE Retried
        <4>1. attempt' = attempt + 1 /\ attempt < totalAttemptsAllowed
          BY <1>2, <3>1, FailParts DEF Retried
        <4>2. attempt' \in 1..totalAttemptsAllowed
          BY <1>0, <4>1, AttemptsType DEF PollOK
        <4> QED
          BY <1>0, <1>2, <3>1, <4>2, FailParts DEF PollOK
      <3>2. CASE ~Retried
        <4>1. EndOfOperation(FALSE)
          BY <1>2, <3>2, FailParts
        <4> QED
          BY <1>0, <4>1, EndOfOperationType
      <3> QED
        BY <3>1, <3>2
    <2>3. /\ steady' \subseteq reachable' /\ reachable' \subseteq Pool
          /\ disturbances' \in 0..MaxDisturbances /\ rejections' \in 0..disturbances'
      <3>1. reachable' = reachable /\ disturbances' = disturbances
        BY <1>2, FailParts
      <3>2. \/ steady' = steady /\ rejections' = rejections
            \/ Remember(FALSE, 0)
        BY <1>2, FailParts
      <3>n. rejections \in 0 .. disturbances + 0
        BY <1>0, PoolFacts DEF PollOK
      <3>3. /\ steady' = reachable \/ steady' = steady
            /\ rejections' \in 0 .. disturbances + 0
        BY <1>0, <3>2, <3>n, Remembered
      <3> QED
        BY <1>0, <3>1, <3>3 DEF PollOK
    <2> QED
      BY <2>1, <2>2, <2>3, FailoverTypePartsNext DEF PollOK
  <1>3. ASSUME NEW err \in Errors, Reject(err) PROVE FailoverTypeOK'
    <2>1. RecordsOK'
      BY <1>0, <1>3 DEF Reject, health, RecordsOK
    <2>2. EndOfOperation(FALSE)
      BY <1>3 DEF Reject
    <2>3. /\ attempt' \in 1..totalAttemptsAllowed /\ contract' \in 1..Contracts
          /\ answered' \in BOOLEAN /\ isRunning' \in BOOLEAN
          /\ reconnectAttempts' \in 0..MaxReconnections
      BY <1>0, <2>2, EndOfOperationType
    <2>4. /\ steady' \subseteq reachable' /\ reachable' \subseteq Pool
          /\ disturbances' \in 0..MaxDisturbances /\ rejections' \in 0..disturbances'
      <3>1. /\ steady' = reachable \/ steady' = steady
            /\ rejections' \in 0 .. disturbances + 1
            /\ reachable' = reachable
            /\ disturbances < MaxDisturbances /\ disturbances' = disturbances + 1
        BY <1>0, <1>3, Remembered DEF Reject
      <3>2. disturbances' \in 0..MaxDisturbances /\ rejections' \in 0..disturbances'
        BY <1>0, <3>1, PoolFacts DEF PollOK
      <3>3. steady' \subseteq reachable' /\ reachable' \subseteq Pool
        BY <1>0, <3>1 DEF PollOK
      <3> QED
        BY <3>2, <3>3
    <2> QED
      BY <2>1, <2>3, <2>4, FailoverTypePartsNext DEF PollOK
  <1>4. ASSUME Shift PROVE FailoverTypeOK'
    <2>1. RecordsOK'
      BY <1>0, <1>4 DEF Shift, health, RecordsOK
    <2>2. /\ steady' \subseteq reachable' /\ reachable' \subseteq Pool
          /\ disturbances' \in 0..MaxDisturbances /\ rejections' \in 0..disturbances'
      BY <1>0, <1>4, PoolFacts DEF Shift, PollOK
    <2>3. PollOK'
      BY <1>0, <1>4, <2>2 DEF Shift, poll, PollOK
    <2> QED
      BY <2>1, <2>3, FailoverTypePartsNext
  <1>5. ASSUME CoolDown PROVE FailoverTypeOK'
    <2>1. PICK e \in Pool \ cooled : before[e] \subseteq cooled /\ cooled' = cooled \cup {e}
      BY <1>5 DEF CoolDown
    <2>2. UNCHANGED <<status, consecutiveFailures, before, activeIndex, poll, reachable,
                      disturbances, steady, rejections>>
      BY <1>5 DEF CoolDown, failoverHistory
    <2>3. cooled' \subseteq Pool /\ \A o \in cooled' : before'[o] \subseteq cooled'
      BY <1>0, <2>1, <2>2 DEF RecordsOK
    <2>4. RecordsOK'
      BY <1>0, <2>2, <2>3 DEF RecordsOK
    <2>5. PollOK'
      BY <1>0, <2>2 DEF PollOK, poll
    <2> QED
      BY <2>4, <2>5, FailoverTypePartsNext
  <1>6. ASSUME UNCHANGED failoverVars PROVE FailoverTypeOK'
    <2>1. RecordsOK'
      BY <1>0, <1>6 DEF failoverVars, health, RecordsOK
    <2>2. PollOK'
      BY <1>0, <1>6 DEF failoverVars, poll, failoverHistory, PollOK
    <2> QED
      BY <2>1, <2>2, FailoverTypePartsNext
  <1> QED
    BY <1>1, <1>2, <1>3, <1>4, <1>5, <1>6 DEF FailoverNext

\* Types of the records of endpoints and of the poll loop.
THEOREM FailoverTypeCorrect == FailoverSpec => []FailoverTypeOK
  BY FailoverTypeInitial, FailoverTypePreserved, PTL DEF FailoverSpec

(***************************************************************************)
(* The potential                                                           *)
(***************************************************************************)

\* The failures that endpoints other than e may still count.
Room(e) ==
  {p \in (Pool \ {e}) \X (1..FailureThreshold) : consecutiveFailures[p[1]] < p[2]}

\* An endpoint other than e is healthy.
Fresh(e) == \E o \in Pool \ {e} : status[o] = "healthy"

\* What keeps e from being chosen next: how far it is in ring order, the healthy
\* endpoints that go before a degraded one, and the older failures that go
\* before an unhealthy one.
Detour(e) ==
  IF status[e] = "healthy" THEN distance(activeIndex, e)
  ELSE IF status[e] = "degraded"
       THEN IF Fresh(e)
            THEN Endpoints - 1 + (IF consecutiveFailures[activeIndex] = FailureThreshold THEN 1 ELSE 0)
            ELSE distance(activeIndex, e)
       ELSE Endpoints + Cardinality(before[e])

\* No more than this many attempts fail before e is the active endpoint.
Potential(e) == Cardinality(Room(e)) + Detour(e)

\* Of the endpoints that reached the threshold those that cooled down failed
\* first.
CooledFirst ==
  \A e, o \in Pool :
    /\ o # e /\ status[e] = "unhealthy"
    /\ status[o] = "degraded" /\ consecutiveFailures[o] = FailureThreshold
    => o \in before[e]

\* An unhealthy endpoint is only asked if it is the one that failed first.
ActiveOldest ==
  \A e \in Pool \ {activeIndex} :
    status[e] = "unhealthy" /\ status[activeIndex] = "unhealthy" => activeIndex \in before[e]

\* A bound of the counts of others.
LEMMA RoomSize ==
  ASSUME FailoverTypeOK, NEW e \in Pool
  PROVE  /\ IsFiniteSet(Room(e))
         /\ Cardinality(Room(e)) \in 0 .. (Endpoints - 1) * FailureThreshold
  <1> DEFINE Others == Pool \ {e}
             Counts == 1..FailureThreshold
             P == Others \X Counts
  <1>1. IsFiniteSet(Others) /\ Cardinality(Others) = Endpoints - 1
    BY PoolFacts, FS_RemoveElement
  <1>2. IsFiniteSet(Counts) /\ Cardinality(Counts) = FailureThreshold
    BY PoolFacts, FS_Interval
  <1>4. Room(e) \in SUBSET P
    BY DEF Room
  <1> HIDE DEF Others, Counts
  <1>3. IsFiniteSet(P) /\ Cardinality(P) = (Endpoints - 1) * FailureThreshold
    <2>1. IsFiniteSet(P) /\ Cardinality(P) = Cardinality(Others) * Cardinality(Counts)
      BY <1>1, <1>2, FS_Product, Zenon
    <2> QED
      BY <1>1, <1>2, <2>1
  <1> HIDE DEF P
  <1>5. IsFiniteSet(Room(e)) /\ Cardinality(Room(e)) <= Cardinality(P)
    BY <1>3, <1>4, FS_Subset
  <1>6. Cardinality(Room(e)) \in Nat
    BY <1>5, FS_CardinalityType
  <1>7. Cardinality(P) \in Nat
    BY <1>3, FS_CardinalityType
  <1> QED
    BY <1>3, <1>5, <1>6, <1>7

\* A failure of another endpoint takes from the room, unless its count is at the
\* threshold already.
LEMMA RoomShrinks ==
  ASSUME FailoverTypeOK, NEW a \in Pool, FailureShape(a), NEW e \in Pool, e # a
  PROVE  /\ consecutiveFailures[a] < FailureThreshold =>
               Cardinality(Room(e)') = Cardinality(Room(e)) - 1
         /\ consecutiveFailures[a] = FailureThreshold => Room(e)' = Room(e)
  <1> DEFINE P == (Pool \ {e}) \X (1..FailureThreshold)
             m == consecutiveFailures[a]
  <1>1. /\ m \in 0..FailureThreshold
        /\ consecutiveFailures'[a] = Lesser(m + 1, FailureThreshold)
        /\ \A o \in Pool \ {a} : consecutiveFailures'[o] = consecutiveFailures[o]
    BY DEF FailoverTypeOK, FailureShape
  <1>2. Room(e) = {p \in P : consecutiveFailures[p[1]] < p[2]}
    BY DEF Room
  <1>3. Room(e)' = {p \in P : consecutiveFailures'[p[1]] < p[2]}
    BY DEF Room
  <1>4. CASE m < FailureThreshold
    <2>1. consecutiveFailures'[a] = m + 1
      BY <1>1, <1>4, PoolFacts DEF Lesser
    <2>2. <<a, m + 1>> \in Room(e)
      BY <1>1, <1>2, <1>4, PoolFacts
    <2>3. ASSUME NEW p \in P PROVE p \in Room(e)' <=> p \in Room(e) /\ p # <<a, m + 1>>
      <3>1. p[1] \in Pool \ {e} /\ p[2] \in 1..FailureThreshold /\ p = <<p[1], p[2]>>
        OBVIOUS
      <3>2. CASE p[1] # a
        BY <1>1, <1>2, <1>3, <3>1, <3>2
      <3>3. CASE p[1] = a
        <4>1. p \in Room(e)' <=> m + 1 < p[2]
          BY <1>3, <2>1, <3>3
        <4>2. p \in Room(e) <=> m < p[2]
          BY <1>2, <3>3
        <4>3. p = <<a, m + 1>> <=> p[2] = m + 1
          BY <3>1, <3>3
        <4> HIDE DEF P
        <4> QED
          BY <1>1, <3>1, <4>1, <4>2, <4>3, PoolFacts
      <3> QED
        BY <3>2, <3>3
    <2>4. Room(e)' = Room(e) \ {<<a, m + 1>>}
      BY <1>2, <1>3, <2>3
    <2>5. IsFiniteSet(Room(e))
      BY RoomSize
    <2> HIDE DEF P, m
    <2>6. Cardinality(Room(e)') = Cardinality(Room(e)) - 1
      BY <2>2, <2>4, <2>5, FS_RemoveElement
    <2> QED
      BY <1>4, <2>6, PoolFacts DEF m
  <1>5. CASE m = FailureThreshold
    <2>1. consecutiveFailures'[a] = m
      BY <1>1, <1>5, PoolFacts DEF Lesser
    <2>2. \A o \in Pool : consecutiveFailures'[o] = consecutiveFailures[o]
      BY <1>1, <2>1
    <2>3. Room(e)' = Room(e)
      BY <1>2, <1>3, <2>2
    <2> QED
      BY <1>5, <2>3, PoolFacts
  <1>6. m < FailureThreshold \/ m = FailureThreshold
    BY <1>1, PoolFacts
  <1> QED
    BY <1>4, <1>5, <1>6

\* No endpoint has more than all the others before it.
LEMMA OlderCount ==
  ASSUME FailoverTypeOK, NEW e \in Pool
  PROVE  IsFiniteSet(before[e]) /\ Cardinality(before[e]) \in 0 .. Endpoints - 1
  <1>1. IsFiniteSet(Pool \ {e}) /\ Cardinality(Pool \ {e}) = Endpoints - 1
    BY PoolFacts, FS_RemoveElement
  <1>2. before[e] \in SUBSET (Pool \ {e})
    BY DEF FailoverTypeOK
  <1>3. IsFiniteSet(before[e]) /\ Cardinality(before[e]) <= Endpoints - 1
    BY <1>1, <1>2, FS_Subset
  <1>4. Cardinality(before[e]) \in Nat
    BY <1>3, FS_CardinalityType
  <1> QED
    BY <1>3, <1>4, PoolFacts

\* An endpoint that is not active has something before it, and no more than two
\* rounds of the pool.
LEMMA DetourBounds ==
  ASSUME FailoverTypeOK, NEW e \in Pool, e # activeIndex
  PROVE  Detour(e) \in 1 .. 2 * Endpoints - 1
  <1>1. activeIndex \in Pool /\ status[e] \in Statuses
    BY DEF FailoverTypeOK, Statuses
  <1>2. distance(activeIndex, e) \in 1 .. Endpoints - 1
    BY <1>1, DistanceType
  <1>3. Cardinality(before[e]) \in 0 .. Endpoints - 1
    BY OlderCount
  <1> QED
    BY <1>2, <1>3, PoolFacts DEF Detour

\* The potential is positive until the endpoint is active, and has the bound that
\* EnoughAttempts is about.
LEMMA PotentialBounds ==
  ASSUME FailoverTypeOK, NEW e \in Pool, e # activeIndex
  PROVE  /\ Potential(e) \in Nat \ {0}
         /\ Potential(e) <= (Endpoints - 1) * FailureThreshold + 2 * Endpoints - 1
  <1> DEFINE most == (Endpoints - 1) * FailureThreshold
             room == Cardinality(Room(e))
  <1>1. most \in Nat
    BY PoolFacts
  <1>2. room \in 0 .. most
    BY RoomSize
  <1>3. Detour(e) \in 1 .. 2 * Endpoints - 1
    BY DetourBounds
  <1> HIDE DEF most, room
  <1>4. room + Detour(e) \in Nat \ {0} /\ room + Detour(e) <= most + 2 * Endpoints - 1
    BY <1>1, <1>2, <1>3, PoolFacts
  <1> QED
    BY <1>4 DEF Potential, room, most

(***************************************************************************)
(* Every failure of another endpoint brings an endpoint nearer             *)
(***************************************************************************)

\* The detour of e does not grow, and gets shorter if the failed endpoint a was
\* at the threshold: by the status of e.
LEMMA HealthyDetour ==
  ASSUME FailoverTypeOK, NEW a \in Pool, a = activeIndex, FailureShape(a),
         NEW e \in Pool, e # a, status[e] = "healthy", activeIndex' # e
  PROVE  /\ Detour(e)' <= Detour(e)
         /\ consecutiveFailures[a] = FailureThreshold => Detour(e)' < Detour(e)
  <1>1. status'[e] = "healthy"
    BY DEF FailureShape
  <1>2. Detour(e) = distance(a, e) /\ Detour(e)' = distance(activeIndex', e)
    BY <1>1 DEF Detour, distance
  <1>3. distance(a, e) \in Int
    BY DistanceType, PoolFacts
  <1>4. CASE activeIndex' = a /\ (Endpoints > 1 => consecutiveFailures'[a] < FailureThreshold)
    <2>1. Endpoints > 1
      BY PoolFacts DEF Pool
    <2>2. consecutiveFailures[a] \in 0..FailureThreshold
      BY DEF FailoverTypeOK
    <2>3. consecutiveFailures[a] # FailureThreshold
      BY <1>4, <2>1, <2>2, PoolFacts DEF FailureShape, Lesser
    <2> QED
      BY <1>2, <1>3, <1>4, <2>3
  <1>5. CASE Chosen(a, activeIndex', status', before')
    <2> DEFINE b == activeIndex'
    <2>1. b \in Pool \ {a} /\ distance(a, b) <= distance(a, e)
      BY <1>1, <1>5 DEF Chosen
    <2> HIDE DEF b
    <2>2. distance(b, e) < distance(a, e)
      <3>1. b # e
        BY DEF b
      <3> QED
        BY <2>1, <3>1, NearerOnTheWay
    <2>3. distance(b, e) \in Int
      BY <2>1, DistanceType, PoolFacts
    <2> QED
      BY <1>2, <1>3, <2>2, <2>3 DEF b
  <1> QED
    BY <1>4, <1>5 DEF FailureShape

\* For a degraded endpoint, which every healthy one goes before.
LEMMA DegradedDetour ==
  ASSUME FailoverTypeOK, NEW a \in Pool, a = activeIndex, FailureShape(a),
         NEW e \in Pool, e # a, status[e] = "degraded", activeIndex' # e
  PROVE  /\ Detour(e)' <= Detour(e)
         /\ consecutiveFailures[a] = FailureThreshold => Detour(e)' < Detour(e)
  <1> DEFINE b == activeIndex'
             d == distance(a, e)
             d2 == distance(b, e)
             bonus == IF consecutiveFailures[a] = FailureThreshold THEN 1 ELSE 0
  <1>0. Endpoints > 1 /\ Endpoints \in Nat
    BY PoolFacts DEF Pool
  <1>1. status'[e] = "degraded"
    BY DEF FailureShape
  <1>2. Detour(e) = IF Fresh(e) THEN Endpoints - 1 + bonus ELSE d
    BY DEF Detour
  <1>3. Detour(e)' = IF Fresh(e)'
                     THEN Endpoints - 1 + (IF consecutiveFailures'[b] = FailureThreshold THEN 1 ELSE 0)
                     ELSE d2
    BY <1>1 DEF Detour, distance
  <1>4. d \in 1 .. Endpoints - 1
    BY DistanceType
  <1>5. status'[a] # "healthy"
    BY DEF FailureShape
  <1>6. Fresh(e)' => Fresh(e)
    <2> SUFFICES ASSUME NEW o \in Pool \ {e}, status'[o] = "healthy" PROVE Fresh(e)
      BY DEF Fresh
    <2>1. o # a /\ status[o] = "healthy"
      BY <1>5 DEF FailureShape
    <2> QED
      BY <2>1 DEF Fresh
  <1>7. b \in Pool \ {e}
    BY DEF FailureShape, Chosen
  <1>8. d2 \in Int
    BY <1>7, DistanceType, PoolFacts
  <1>9. bonus \in {0, 1} /\ (bonus = 1 <=> consecutiveFailures[a] = FailureThreshold)
    OBVIOUS
  <1>10. CASE b = a /\ (Endpoints > 1 => consecutiveFailures'[a] < FailureThreshold)
    <2>1. consecutiveFailures[a] \in 0..FailureThreshold
      BY DEF FailoverTypeOK
    <2>2. consecutiveFailures[a] # FailureThreshold
      BY <1>0, <1>10, <2>1, PoolFacts DEF FailureShape, Lesser
    <2>3. consecutiveFailures'[b] # FailureThreshold
      BY <1>0, <1>10, <2>1, PoolFacts DEF FailureShape, Lesser
    <2>4. d2 = d
      BY <1>10
    <2> HIDE DEF b, d, d2, bonus
    <2> QED
      BY <1>0, <1>2, <1>3, <1>4, <1>6, <1>9, <2>2, <2>3, <2>4
  <1>11. CASE Chosen(a, b, status', before')
    <2>1. CASE Fresh(e)'
      <3>1. PICK o \in Pool \ {e} : status'[o] = "healthy"
        BY <2>1 DEF Fresh
      <3>2. o \in Pool \ {a}
        BY <1>5, <3>1
      <3>3. status'[b] = "healthy"
        BY <1>11, <3>1, <3>2 DEF Chosen
      <3>4. consecutiveFailures'[b] = 0
        <4>1. RecordsOK'
          BY FailureKeepsRecords
        <4> QED
          BY <1>7, <3>3, <4>1 DEF RecordsOK
      <3>5. Detour(e)' = Endpoints - 1
        BY <1>0, <1>3, <2>1, <3>4, PoolFacts
      <3>6. Detour(e) = Endpoints - 1 + bonus
        BY <1>2, <1>6, <2>1
      <3> HIDE DEF bonus
      <3> QED
        BY <1>0, <1>9, <3>5, <3>6
    <2>2. CASE ~Fresh(e)'
      <3>1. \A o \in Pool \ {a} : status'[o] # "healthy"
        BY <1>1, <2>2 DEF Fresh
      <3>2. b \in Pool \ {a} /\ distance(a, b) <= distance(a, e)
        BY <1>1, <1>11, <3>1 DEF Chosen
      <3>3. d2 < d
        <4> HIDE DEF b
        <4> QED
          BY <1>7, <3>2, NearerOnTheWay
      <3>4. Detour(e)' = d2
        BY <1>3, <2>2
      <3>5. d <= Detour(e)
        <4> HIDE DEF d, bonus
        <4> QED
          BY <1>0, <1>2, <1>4, <1>9
      <3>6. Detour(e) \in Int
        <4> HIDE DEF d, bonus
        <4> QED
          BY <1>0, <1>2, <1>4, <1>9
      <3> HIDE DEF b, d, d2, bonus
      <3> QED
        BY <1>4, <1>8, <3>3, <3>4, <3>5, <3>6
    <2> QED
      BY <2>1, <2>2
  <1> QED
    BY <1>10, <1>11 DEF FailureShape

\* For an unhealthy one: only those that failed before it are taken, and each that
\* fails again moves behind it.
LEMMA UnhealthyDetour ==
  ASSUME FailoverTypeOK, CooledFirst, ActiveOldest,
         NEW a \in Pool, a = activeIndex, FailureShape(a),
         NEW e \in Pool, e # a, status[e] = "unhealthy", activeIndex' # e
  PROVE  /\ Detour(e)' <= Detour(e)
         /\ consecutiveFailures[a] = FailureThreshold => Detour(e)' < Detour(e)
  <1> DEFINE b == activeIndex'
  <1>0. Endpoints > 1 /\ Endpoints \in Nat
    BY PoolFacts DEF Pool
  <1>1. Detour(e) = Endpoints + Cardinality(before[e])
    BY DEF Detour
  <1>2. IsFiniteSet(before[e]) /\ Cardinality(before[e]) \in Nat
    BY OlderCount, PoolFacts
  <1>3. CASE status'[e] = "unhealthy"
    <2>1. Detour(e)' = Endpoints + Cardinality(before[e] \ {a})
      BY <1>3 DEF Detour, FailureShape
    <2>2. Cardinality(before[e] \ {a}) =
            IF a \in before[e] THEN Cardinality(before[e]) - 1 ELSE Cardinality(before[e])
      BY <1>2, FS_RemoveElement
    <2>3. ASSUME consecutiveFailures[a] = FailureThreshold PROVE a \in before[e]
      <3>1. status[a] \in {"degraded", "unhealthy"}
        BY <2>3, PoolFacts DEF FailoverTypeOK
      <3>2. CASE status[a] = "degraded"
        BY <2>3, <3>2 DEF CooledFirst
      <3>3. CASE status[a] = "unhealthy"
        BY <3>3 DEF ActiveOldest
      <3> QED
        BY <3>1, <3>2, <3>3
    <2> QED
      BY <1>0, <1>1, <1>2, <2>1, <2>2, <2>3
  <1>4. CASE status'[e] # "unhealthy"
    <2>1. status'[e] = "degraded"
      BY <1>4 DEF FailureShape
    <2>2. Chosen(a, b, status', before')
      BY <2>1 DEF FailureShape
    <2>3. b \in Pool /\ b # e
      BY <2>2 DEF Chosen
    <2>4. distance(b, e) \in 1 .. Endpoints - 1
      <3> HIDE DEF b
      <3> QED
        BY <2>3, DistanceType
    <2>5. Detour(e)' = IF Fresh(e)'
                       THEN Endpoints - 1 + (IF consecutiveFailures'[b] = FailureThreshold THEN 1 ELSE 0)
                       ELSE distance(b, e)
      BY <2>1 DEF Detour, distance
    <2>6. Fresh(e)' => consecutiveFailures'[b] = 0
      <3> SUFFICES ASSUME NEW o \in Pool \ {e}, status'[o] = "healthy"
                   PROVE  consecutiveFailures'[b] = 0
        BY DEF Fresh
      <3>1. o \in Pool \ {a}
        BY DEF FailureShape
      <3>2. status'[b] = "healthy"
        BY <2>2, <3>1 DEF Chosen
      <3>3. RecordsOK'
        BY FailureKeepsRecords
      <3> QED
        BY <2>3, <3>2, <3>3 DEF RecordsOK
    <2>7. Detour(e)' <= Endpoints - 1 /\ Detour(e)' \in Int
      <3>1. CASE Fresh(e)'
        <4>1. Detour(e)' = Endpoints - 1
          BY <1>0, <2>5, <2>6, <3>1, PoolFacts
        <4> QED
          BY <1>0, <4>1
      <3>2. CASE ~Fresh(e)'
        <4>1. Detour(e)' = distance(b, e)
          BY <2>5, <3>2
        <4> QED
          BY <1>0, <2>4, <4>1
      <3> QED
        BY <3>1, <3>2
    <2> QED
      BY <1>0, <1>1, <1>2, <2>7
  <1> QED
    BY <1>3, <1>4

\* A failed attempt at another endpoint makes e the active one or takes from its
\* potential.
LEMMA FailureApproaches ==
  ASSUME FailoverTypeOK, CooledFirst, ActiveOldest,
         NEW a \in Pool, a = activeIndex, FailureShape(a), NEW e \in Pool, e # a
  PROVE  activeIndex' = e \/ (Potential(e)' \in Int /\ Potential(e)' <= Potential(e) - 1)
  <1> SUFFICES ASSUME activeIndex' # e PROVE Potential(e)' \in Int /\ Potential(e)' <= Potential(e) - 1
    OBVIOUS
  <1>1. status[e] = "healthy" \/ status[e] = "degraded" \/ status[e] = "unhealthy"
    BY DEF FailoverTypeOK
  <1>2. /\ Detour(e)' <= Detour(e)
        /\ consecutiveFailures[a] = FailureThreshold => Detour(e)' < Detour(e)
    BY <1>1, HealthyDetour, DegradedDetour, UnhealthyDetour
  <1>3. consecutiveFailures[a] \in 0..FailureThreshold
    BY DEF FailoverTypeOK
  <1>4. /\ consecutiveFailures[a] < FailureThreshold =>
              Cardinality(Room(e)') = Cardinality(Room(e)) - 1
        /\ consecutiveFailures[a] = FailureThreshold => Room(e)' = Room(e)
    BY RoomShrinks
  <1>5. Cardinality(Room(e)) \in Int
    BY RoomSize
  <1>6. Detour(e) \in Int
    BY DetourBounds
  <1>7. Detour(e)' \in Int
    <2> DEFINE b == activeIndex'
               o == before'[e]
    <2>1. b \in Pool /\ o \in SUBSET Pool
      BY DEF FailureShape, Chosen
    <2>2. Detour(e)' \in {distance(b, e), Endpoints - 1, Endpoints, Endpoints + Cardinality(o)}
      BY PoolFacts DEF Detour, distance
    <2> HIDE DEF b, o
    <2>3. distance(b, e) \in Int
      BY <2>1, DistanceType, PoolFacts
    <2>4. Cardinality(o) \in Int
      <3>1. IsFiniteSet(o)
        BY <2>1, PoolFacts, FS_Subset
      <3> QED
        BY <3>1, FS_CardinalityType
    <2> QED
      BY <2>2, <2>3, <2>4, PoolFacts
  <1> DEFINE r == Cardinality(Room(e))
             r2 == Cardinality(Room(e)')
             d == Detour(e)
             d2 == Detour(e)'
  <1>8. Potential(e) = r + d /\ Potential(e)' = r2 + d2
    BY DEF Potential
  <1>9. \/ r2 = r - 1 /\ d2 <= d
        \/ r2 = r /\ d2 < d
    BY <1>2, <1>3, <1>4, PoolFacts
  <1>10. r \in Int /\ d \in Int /\ d2 \in Int
    BY <1>5, <1>6, <1>7
  <1> HIDE DEF r, r2, d, d2
  <1> QED
    BY <1>8, <1>9, <1>10

(***************************************************************************)
(* OnlyOutagesStop                                                         *)
(***************************************************************************)

LEMMA FailureKeepsOrder ==
  ASSUME FailoverTypeOK, CooledFirst, ActiveOldest,
         NEW a \in Pool, a = activeIndex, FailureShape(a)
  PROVE  CooledFirst' /\ ActiveOldest'
  <1>1. CooledFirst'
    <2> SUFFICES ASSUME NEW e \in Pool, NEW o \in Pool, o # e, status'[e] = "unhealthy",
                        status'[o] = "degraded", consecutiveFailures'[o] = FailureThreshold
                 PROVE  o \in before'[e]
      BY DEF CooledFirst
    <2>1. o # a
      BY DEF FailureShape
    <2>2. CASE e = a
      BY <2>1, <2>2 DEF FailureShape
    <2>3. CASE e # a
      <3>1. status[e] = "unhealthy"
        BY <2>3 DEF FailureShape
      <3>2. consecutiveFailures[o] = FailureThreshold
        BY <2>1 DEF FailureShape
      <3>3. o \in before[e]
        <4>1. CASE status[o] = "degraded"
          BY <3>1, <3>2, <4>1 DEF CooledFirst
        <4>2. CASE status[o] # "degraded"
          <5>1. status[o] = "unhealthy" /\ o \in cooled
            BY <2>1, <4>2 DEF FailureShape
          <5>2. e \notin cooled
            BY <2>1, <2>3, <4>2 DEF FailureShape
          <5>3. before[o] \subseteq cooled
            BY <5>1 DEF FailoverTypeOK
          <5>4. o \in before[e] \/ e \in before[o]
            BY <3>1, <5>1 DEF FailoverTypeOK
          <5> QED
            BY <5>2, <5>3, <5>4
        <4> QED
          BY <4>1, <4>2
      <3> QED
        BY <2>1, <2>3, <3>3 DEF FailureShape
    <2> QED
      BY <2>2, <2>3
  <1>2. ActiveOldest'
    <2> DEFINE b == activeIndex'
    <2> SUFFICES ASSUME NEW e \in Pool \ {b}, status'[e] = "unhealthy", status'[b] = "unhealthy"
                 PROVE  b \in before'[e]
      BY DEF ActiveOldest
    <2>0. b \in Pool
      BY DEF FailureShape, Chosen
    <2>1. Endpoints > 1
      BY <2>0, PoolFacts DEF Pool
    <2>2. CASE b = a /\ (Endpoints > 1 => consecutiveFailures'[a] < FailureThreshold)
      <3>1. status'[a] # "unhealthy"
        BY <2>1, <2>2, PoolFacts DEF FailureShape
      <3> QED
        BY <2>2, <3>1
    <2>3. CASE Chosen(a, b, status', before')
      <3>1. \A o \in Pool \ {a} : o # b => b \in before'[o]
        BY <2>0, <2>3 DEF Chosen
      <3>2. b \in Pool \ {a}
        BY <2>3 DEF Chosen
      <3>3. CASE e = a
        BY <3>2, <3>3 DEF FailureShape
      <3>4. CASE e # a
        BY <3>1, <3>4
      <3> QED
        BY <3>3, <3>4
    <2> QED
      BY <2>2, <2>3 DEF FailureShape
  <1> QED
    BY <1>1, <1>2

\* Attempts made since the last poll that succeeded, if none of this one did,
\* and all of those before the subscriber stops.
made == (reconnectAttempts * Contracts + contract - 1) * totalAttemptsAllowed + attempt - 1
AllAttempts == (MaxReconnections + 1) * Contracts * totalAttemptsAllowed

\* The failed attempts until an endpoint is the active one, and those that the
\* operations may yet take that are rejected.
Cost(e) == IF e = activeIndex THEN 0 ELSE Potential(e)
Spare == (MaxRejections - rejections) * totalAttemptsAllowed

\* Every steady endpoint is reached in time, whatever else is rejected.
InTime ==
  isRunning /\ ~answered /\ rejections <= MaxRejections =>
    \A e \in steady : made + Cost(e) + Spare < AllAttempts

\* The subscriber has more attempts than the potential of any endpoint and the
\* rejected operations take together.  It takes no more than its constants to say
\* so, and the run's satisfy it.
EnoughAttempts ==
  (Endpoints - 1) * FailureThreshold + 2 * Endpoints + MaxRejections * totalAttemptsAllowed
    <= AllAttempts

FailoverInv == FailoverTypeOK /\ CooledFirst /\ ActiveOldest /\ InTime /\ OnlyOutagesStop

\* How the attempts made add up when an operation or a poll ends: the next one
\* starts with the count increased by one.
LEMMA AttemptsArithmetic ==
  ASSUME PollOK
  PROVE  /\ made \in Nat /\ AllAttempts \in Nat
         /\ contract < Contracts =>
              (reconnectAttempts * Contracts + (contract + 1) - 1) * totalAttemptsAllowed + 1 - 1
                <= made + totalAttemptsAllowed
         /\ contract = Contracts =>
              /\ ((reconnectAttempts + 1) * Contracts + 1 - 1) * totalAttemptsAllowed + 1 - 1
                   <= made + totalAttemptsAllowed
              /\ reconnectAttempts >= MaxReconnections => made + totalAttemptsAllowed >= AllAttempts
         /\ attempt = totalAttemptsAllowed /\ contract < Contracts =>
              (reconnectAttempts * Contracts + (contract + 1) - 1) * totalAttemptsAllowed + 1 - 1 = made + 1
         /\ attempt = totalAttemptsAllowed /\ contract = Contracts =>
              /\ ((reconnectAttempts + 1) * Contracts + 1 - 1) * totalAttemptsAllowed + 1 - 1 = made + 1
              /\ reconnectAttempts >= MaxReconnections => made + 1 = AllAttempts
  <1> DEFINE t == totalAttemptsAllowed
             q == reconnectAttempts * Contracts
             r == reconnectAttempts
             c == contract
  <1>1. t \in Nat \ {0} /\ Contracts \in Nat \ {0} /\ MaxReconnections \in Nat
    BY AttemptsType, PoolFacts
  <1>2. attempt \in 1..t /\ c \in 1..Contracts /\ r \in 0..MaxReconnections
    BY DEF PollOK
  <1>3. q \in Nat
    BY <1>1, <1>2
  <1>4. /\ made = (q + c - 1) * t + attempt - 1
        /\ AllAttempts = (MaxReconnections + 1) * Contracts * t
    BY DEF made, AllAttempts
  <1> HIDE DEF t, q, c
  <1>5. q + c - 1 \in Nat
    BY <1>1, <1>2, <1>3
  <1>6. (q + c - 1) * t \in Nat /\ (q + c) * t = (q + c - 1) * t + t
    <2> DEFINE p == q + c - 1
    <2>1. p \in Nat /\ q + c = p + 1
      BY <1>1, <1>2, <1>3, <1>5
    <2> HIDE DEF p
    <2>2. p * t \in Nat /\ (p + 1) * t = p * t + t
      BY <1>1, <2>1
    <2> QED
      BY <2>1, <2>2 DEF p
  <1>7. made \in Nat
    BY <1>1, <1>2, <1>4, <1>6
  <1>8. AllAttempts \in Nat
    <2>1. (MaxReconnections + 1) * Contracts \in Nat
      BY <1>1
    <2> QED
      BY <1>1, <1>4, <2>1
  <1>9. ASSUME attempt = t PROVE (q + c) * t = made + 1
    BY <1>1, <1>4, <1>6, <1>9
  <1>a. (q + c) * t <= made + t /\ (q + c) * t \in Nat
    BY <1>1, <1>2, <1>4, <1>6
  <1>10. (r + 1) * Contracts = q + Contracts
    BY <1>1, <1>2 DEF q
  <1>11. ASSUME attempt = t, c < Contracts
         PROVE  (q + (c + 1) - 1) * t + 1 - 1 = made + 1
    <2>1. q + (c + 1) - 1 = q + c
      BY <1>1, <1>2, <1>3
    <2> QED
      BY <1>7, <1>9, <1>11, <2>1
  <1>12. ASSUME attempt = t, c = Contracts
         PROVE  ((r + 1) * Contracts + 1 - 1) * t + 1 - 1 = made + 1
    <2>1. (r + 1) * Contracts + 1 - 1 = q + c
      BY <1>1, <1>2, <1>3, <1>10, <1>12
    <2> QED
      BY <1>7, <1>9, <1>12, <2>1
  <1>13. ASSUME attempt = t, c = Contracts, r >= MaxReconnections
         PROVE  made + 1 = AllAttempts
    <2>1. r = MaxReconnections
      BY <1>1, <1>2, <1>13
    <2>2. AllAttempts = (q + c) * t
      BY <1>4, <1>10, <1>13, <2>1
    <2> QED
      BY <1>9, <1>13, <2>2
  <1>14. ASSUME c < Contracts PROVE (q + (c + 1) - 1) * t + 1 - 1 <= made + t
    <2>1. q + (c + 1) - 1 = q + c
      BY <1>1, <1>2, <1>3
    <2> QED
      BY <1>1, <1>7, <1>a, <2>1
  <1>15. ASSUME c = Contracts PROVE ((r + 1) * Contracts + 1 - 1) * t + 1 - 1 <= made + t
    <2>1. (r + 1) * Contracts + 1 - 1 = q + c
      BY <1>1, <1>2, <1>3, <1>10, <1>15
    <2> QED
      BY <1>1, <1>7, <1>a, <2>1
  <1>16. ASSUME c = Contracts, r >= MaxReconnections PROVE made + t >= AllAttempts
    <2>1. r = MaxReconnections
      BY <1>1, <1>2, <1>16
    <2>2. AllAttempts = (q + c) * t
      BY <1>4, <1>10, <1>16, <2>1
    <2> QED
      BY <1>a, <2>2
  <1> QED
    BY <1>7, <1>8, <1>11, <1>12, <1>13, <1>14, <1>15, <1>16 DEF t, q, c

\* What an endpoint costs is bounded, and the active one costs nothing.
LEMMA CostBounds ==
  ASSUME FailoverTypeOK, NEW e \in Pool
  PROVE  /\ Cost(e) \in Nat
         /\ Cost(e) <= (Endpoints - 1) * FailureThreshold + 2 * Endpoints - 1
  <1>1. CASE e = activeIndex
    <2>1. (Endpoints - 1) * FailureThreshold \in Nat
      BY PoolFacts
    <2> DEFINE most == (Endpoints - 1) * FailureThreshold
    <2> HIDE DEF most
    <2>2. 0 <= most + 2 * Endpoints - 1
      BY <2>1, PoolFacts DEF most
    <2> QED
      BY <1>1, <2>2 DEF Cost, most
  <1>2. CASE e # activeIndex
    BY <1>2, PotentialBounds DEF Cost
  <1> QED
    BY <1>1, <1>2

CostsBounded ==
  \A e \in Pool : /\ Cost(e) \in Nat
                  /\ Cost(e) <= (Endpoints - 1) * FailureThreshold + 2 * Endpoints - 1

\* The bounds of the costs, as a state function.
LEMMA BoundedCosts == FailoverTypeOK => CostsBounded
  BY CostBounds DEF CostsBounded

\* The same in the next state.
LEMMA BoundedCostsNext == FailoverTypeOK' => CostsBounded'
  BY BoundedCosts, PTL

\* What is spared for rejections is an integer; it is that of all of them at first,
\* and each takes the attempts of one operation.
LEMMA SpareFacts ==
  ASSUME PollOK
  PROVE  /\ Spare \in Int /\ totalAttemptsAllowed \in Nat
         /\ MaxRejections * totalAttemptsAllowed \in Nat
         /\ rejections' = 0 => Spare' = MaxRejections * totalAttemptsAllowed
         /\ rejections' = rejections => Spare' = Spare
         /\ rejections' = rejections + 1 => Spare' = Spare - totalAttemptsAllowed
         /\ rejections + 1 <= MaxRejections => Spare >= totalAttemptsAllowed
  <1> DEFINE t == totalAttemptsAllowed
             m == MaxRejections - rejections
  <1>1. t \in Nat /\ MaxRejections \in Nat /\ rejections \in Nat /\ t' = t
    BY AttemptsType, PoolFacts DEF PollOK, totalAttemptsAllowed, Lesser
  <1>2. m \in Int
    BY <1>1
  <1>3. Spare = m * t /\ Spare' = (MaxRejections - rejections') * t
    BY <1>1 DEF Spare
  <1> HIDE DEF t
  <1>4. ASSUME rejections' = 0 PROVE Spare' = MaxRejections * t
    BY <1>1, <1>3, <1>4
  <1>5. ASSUME rejections' = rejections + 1 PROVE Spare' = Spare - t
    <2>1. Spare' = (m - 1) * t
      BY <1>1, <1>3, <1>5
    <2> HIDE DEF m
    <2> QED
      BY <1>1, <1>2, <1>3, <2>1
  <1>6. ASSUME rejections + 1 <= MaxRejections PROVE Spare >= t
    <2>1. m \in Nat /\ m - 1 \in Nat
      BY <1>1, <1>6
    <2> HIDE DEF m
    <2>2. m * t = (m - 1) * t + t /\ (m - 1) * t \in Nat
      BY <1>1, <2>1
    <2> QED
      BY <1>1, <1>3, <2>2
  <1>7. m * t \in Int /\ MaxRejections * t \in Nat
    BY <1>1, <1>2
  <1> QED
    BY <1>1, <1>3, <1>4, <1>5, <1>6, <1>7 DEF t

\* A poll starts anew after one that succeeded.
LEMMA FreshPoll ==
  ASSUME EnoughAttempts, FailoverTypeOK, FailoverTypeOK', made' = 0, rejections' = 0
  PROVE  InTime'
  <1> DEFINE most == (Endpoints - 1) * FailureThreshold
             spare == MaxRejections * totalAttemptsAllowed
  <1>0. PollOK
    BY FailoverTypeParts
  <1>1. AllAttempts \in Nat /\ AllAttempts' = AllAttempts
    BY <1>0, AttemptsArithmetic DEF AllAttempts, totalAttemptsAllowed, Lesser
  <1>2. most \in Nat
    BY PoolFacts
  <1>3. most + 2 * Endpoints + spare <= AllAttempts
    BY DEF EnoughAttempts
  <1>4. Spare' = spare /\ spare \in Nat
    BY <1>0, SpareFacts
  <1>5. ASSUME NEW e \in steady'
        PROVE  made' + Cost(e)' + Spare' < AllAttempts
    <2>1. e \in Pool
      BY DEF FailoverTypeOK
    <2>2. Cost(e)' \in Nat /\ Cost(e)' <= most + 2 * Endpoints - 1
      BY <2>1, BoundedCostsNext DEF CostsBounded
    <2> HIDE DEF most, spare
    <2> QED
      BY <1>1, <1>2, <1>3, <1>4, <2>2, PoolFacts
  <1> QED
    BY <1>1, <1>5 DEF InTime

\* An answer ends an operation; the last one of a poll starts the count anew.
LEMMA AnswerInTime ==
  ASSUME EnoughAttempts, FailoverInv, FailoverTypeOK', Answer
  PROVE  InTime' /\ OnlyOutagesStop'
  <1>1. EndOfOperation(TRUE) /\ isRunning /\ Remember(TRUE, 0) /\ PollOK /\ FailoverTypeOK
    BY FailoverTypeParts DEF Answer, FailoverInv
  <1>2. CASE contract < Contracts /\ answered' = TRUE /\ isRunning' = isRunning
    BY <1>1, <1>2 DEF InTime, OnlyOutagesStop
  <1>3. CASE /\ contract = Contracts /\ contract' = 1 /\ attempt' = 1
             /\ reconnectAttempts' = 0 /\ isRunning' = isRunning
    <2>1. made' = (0 * Contracts + 1 - 1) * totalAttemptsAllowed + 1 - 1
      BY <1>3 DEF made, totalAttemptsAllowed, Lesser
    <2>2. made' = 0
      BY <2>1, PoolFacts, AttemptsType
    <2>3. rejections' = 0
      BY <1>1, <1>3, Remembered
    <2> QED
      BY <1>1, <1>3, <2>2, <2>3, FreshPoll DEF OnlyOutagesStop
  <1>4. \/ contract < Contracts /\ answered' = (answered \/ TRUE) /\ isRunning' = isRunning
        \/ /\ contract = Contracts /\ contract' = 1 /\ attempt' = 1
           /\ reconnectAttempts' = 0 /\ isRunning' = isRunning
    BY <1>1 DEF EndOfOperation, EndOfPoll
  <1> QED
    BY <1>2, <1>3, <1>4

\* A failed attempt counts one, and takes one from the cost of each endpoint that
\* is up.
LEMMA OneAttemptLess ==
  ASSUME FailoverInv, FailoverTypeOK', NEW err \in Errors, Fail(err), made' = made + 1,
         answered' = answered, steady' = steady, rejections' = rejections
  PROVE  InTime'
  <1> SUFFICES ASSUME NEW e \in steady, ~answered, rejections <= MaxRejections
               PROVE  made' + Cost(e)' + Spare' < AllAttempts
    <2>1. AllAttempts' = AllAttempts
      BY DEF AllAttempts, totalAttemptsAllowed, Lesser
    <2> QED
      BY <2>1 DEF InTime
  <1> DEFINE a == activeIndex
  <1>1. FailoverTypeOK /\ CooledFirst /\ ActiveOldest /\ InTime /\ PollOK
    BY FailoverTypeParts DEF FailoverInv
  <1>2. isRunning /\ a \notin reachable
    BY FailParts
  <1>3. e \in Pool /\ e # a
    BY <1>1, <1>2 DEF FailoverTypeOK
  <1>4. made + Potential(e) + Spare < AllAttempts
    BY <1>1, <1>2, <1>3 DEF InTime, Cost
  <1>5. a \in Pool /\ FailureShape(a) /\ a = activeIndex
    BY <1>1, FailHasShape
  <1> HIDE DEF a
  <1>7. Potential(e) \in Nat \ {0}
    BY <1>1, <1>3, <1>5, PotentialBounds
  <1>6. Cost(e)' \in Int /\ Cost(e)' <= Potential(e) - 1
    <2>1. CASE activeIndex' = e
      BY <1>7, <2>1 DEF Cost
    <2>2. CASE activeIndex' # e
      BY <1>1, <1>3, <1>5, <2>2, FailureApproaches DEF Cost
    <2> QED
      BY <2>1, <2>2
  <1>8. made \in Nat /\ AllAttempts \in Nat /\ Spare \in Int /\ Spare' = Spare
    BY <1>1, AttemptsArithmetic, SpareFacts
  <1> QED
    BY <1>4, <1>6, <1>7, <1>8

\* A rejected operation takes its attempts from those spared for it.
LEMMA RejectInTime ==
  ASSUME EnoughAttempts, FailoverInv, FailoverTypeOK', NEW err \in Errors, Reject(err)
  PROVE  InTime' /\ OnlyOutagesStop'
  <1>0. /\ FailoverTypeOK /\ InTime /\ isRunning /\ PollOK /\ OnlyOutagesStop
        /\ EndOfOperation(FALSE) /\ Remember(FALSE, 1)
        /\ UNCHANGED <<status, consecutiveFailures, before, activeIndex>>
    BY FailoverTypeParts DEF FailoverInv, Reject, health
  <1>t. /\ totalAttemptsAllowed \in Nat /\ AllAttempts' = AllAttempts
        /\ made' = (reconnectAttempts' * Contracts + contract' - 1) * totalAttemptsAllowed + attempt' - 1
    BY AttemptsType DEF made, AllAttempts, totalAttemptsAllowed, Lesser
  <1>e. /\ attempt' = 1
        /\ \/ /\ contract < Contracts /\ contract' = contract + 1
              /\ answered' = (answered \/ FALSE)
              /\ reconnectAttempts' = reconnectAttempts /\ isRunning' = isRunning
           \/ contract = Contracts /\ contract' = 1 /\ EndOfPoll(answered \/ FALSE)
    BY <1>0 DEF EndOfOperation
  <1>c. contract < Contracts => contract # Contracts
    BY <1>0, PoolFacts DEF PollOK
  <1>l. contract < Contracts \/ contract = Contracts
    BY <1>0, PoolFacts DEF PollOK
  <1>1. CASE contract < Contracts /\ answered
    <2>1. answered' /\ isRunning' = isRunning
      BY <1>1, <1>c, <1>e
    <2> QED
      BY <1>0, <2>1 DEF InTime, OnlyOutagesStop
  <1>2. CASE contract = Contracts /\ answered
    <2>1. /\ contract' = 1 /\ attempt' = 1 /\ reconnectAttempts' = 0 /\ isRunning' = isRunning
      BY <1>2, <1>c, <1>e DEF EndOfPoll
    <2>2. made' = (0 * Contracts + 1 - 1) * totalAttemptsAllowed + 1 - 1
      BY <1>t, <2>1
    <2>3. made' = 0
      BY <2>2, PoolFacts, AttemptsType
    <2>4. rejections' = 0
      BY <1>0, <1>2, Remembered
    <2> QED
      BY <1>0, <2>1, <2>3, <2>4, FreshPoll DEF OnlyOutagesStop
  <1>3. CASE ~answered
    <2>1. steady' = steady /\ rejections' = rejections + 1
      BY <1>0, <1>3, Remembered
    <2>2. \/ isRunning' = isRunning /\ made' <= made + totalAttemptsAllowed
          \/ isRunning' = FALSE /\ made + totalAttemptsAllowed >= AllAttempts
      <3>1. CASE contract < Contracts
        <4>1. /\ contract' = contract + 1 /\ attempt' = 1
              /\ reconnectAttempts' = reconnectAttempts /\ isRunning' = isRunning
          BY <1>c, <1>e, <3>1
        <4>2. made' = (reconnectAttempts * Contracts + (contract + 1) - 1) * totalAttemptsAllowed + 1 - 1
          BY <1>t, <4>1
        <4>3. made' <= made + totalAttemptsAllowed
          BY <1>0, <3>1, <4>2, AttemptsArithmetic
        <4> QED
          BY <4>1, <4>3
      <3>2. CASE contract = Contracts
        <4>1. contract' = 1 /\ attempt' = 1 /\ reconnect
          BY <1>3, <1>c, <1>e, <3>2 DEF EndOfPoll
        <4>2. CASE reconnectAttempts >= MaxReconnections
          BY <1>0, <3>2, <4>1, <4>2, AttemptsArithmetic DEF reconnect
        <4>3. CASE ~(reconnectAttempts >= MaxReconnections)
          <5>1. reconnectAttempts' = reconnectAttempts + 1 /\ isRunning' = isRunning
            BY <4>1, <4>3 DEF reconnect
          <5>2. made' = ((reconnectAttempts + 1) * Contracts + 1 - 1) * totalAttemptsAllowed + 1 - 1
            BY <1>t, <4>1, <5>1
          <5>3. made' <= made + totalAttemptsAllowed
            BY <1>0, <3>2, <5>2, AttemptsArithmetic
          <5> QED
            BY <5>1, <5>3
        <4> QED
          BY <4>2, <4>3
      <3> QED
        BY <1>l, <3>1, <3>2
    <2>3. rejections \in Nat /\ MaxRejections \in Nat
      BY <1>0, PoolFacts DEF PollOK
    <2>4. ASSUME rejections' <= MaxRejections, NEW e \in steady
          PROVE  /\ made + Cost(e) + Spare < AllAttempts
                 /\ Spare' = Spare - totalAttemptsAllowed /\ Spare >= totalAttemptsAllowed
                 /\ Cost(e)' = Cost(e) /\ Cost(e) \in Nat
      <3>1. rejections <= MaxRejections /\ rejections + 1 <= MaxRejections
        BY <2>1, <2>3, <2>4
      <3>2. made + Cost(e) + Spare < AllAttempts
        BY <1>0, <1>3, <3>1 DEF InTime
      <3>3. Spare' = Spare - totalAttemptsAllowed /\ Spare >= totalAttemptsAllowed
        BY <1>0, <2>1, <3>1, SpareFacts
      <3>4. e \in Pool
        BY <1>0 DEF FailoverTypeOK
      <3>5. Cost(e)' = Cost(e)
        BY <1>0 DEF Cost, Potential, Room, Detour, Fresh, distance
      <3> QED
        BY <1>0, <3>2, <3>3, <3>4, <3>5, CostBounds
    <2>5. made \in Nat /\ made' \in Int /\ AllAttempts \in Nat /\ Spare \in Int
      <3>1. made \in Nat /\ AllAttempts \in Nat /\ Spare \in Int
        BY <1>0, AttemptsArithmetic, SpareFacts
      <3>2. /\ attempt' \in 1..totalAttemptsAllowed /\ contract' \in 1..Contracts
            /\ reconnectAttempts' \in 0..MaxReconnections
        BY <1>0, EndOfOperationType
      <3>3. /\ reconnectAttempts' \in Int /\ contract' \in Int /\ attempt' \in Int
            /\ Contracts \in Int
        BY <1>t, <3>2, PoolFacts
      <3>4. reconnectAttempts' * Contracts + contract' - 1 \in Int
        BY <3>3
      <3>5. (reconnectAttempts' * Contracts + contract' - 1) * totalAttemptsAllowed \in Int
        BY <1>t, <3>4
      <3> QED
        BY <1>t, <3>1, <3>3, <3>5
    <2>6. InTime'
      <3> SUFFICES ASSUME isRunning', rejections' <= MaxRejections, NEW e \in steady
                   PROVE  made' + Cost(e)' + Spare' < AllAttempts
        BY <1>t, <2>1 DEF InTime
      <3> QED
        BY <1>t, <2>2, <2>4, <2>5
    <2>7. OnlyOutagesStop'
      <3> SUFFICES ASSUME isRunning' = FALSE, ~(rejections' > MaxRejections), NEW e \in steady
                   PROVE  FALSE
        BY <1>0, <2>1, <2>2 DEF OnlyOutagesStop
      <3>1. rejections' <= MaxRejections
        BY <2>1, <2>3
      <3>2. made + totalAttemptsAllowed >= AllAttempts
        BY <1>0, <2>2
      <3> QED
        BY <1>t, <2>4, <2>5, <3>1, <3>2
    <2> QED
      BY <2>6, <2>7
  <1> QED
    BY <1>0, <1>1, <1>2, <1>3, <1>l DEF PollOK

\* A failed attempt adds one to the attempts made and takes one off the potential of
\* every endpoint that answered throughout, so the last one finds none left of them.
LEMMA FailInTime ==
  ASSUME EnoughAttempts, FailoverInv, FailoverTypeOK', NEW err \in Errors, Fail(err)
  PROVE  InTime' /\ OnlyOutagesStop'
  <1>0. FailoverTypeOK /\ InTime /\ isRunning /\ activeIndex \notin reachable /\ PollOK
    BY FailParts, FailoverTypeParts DEF FailoverInv
  <1>1. CASE Retried
    <2>1. /\ attempt' = attempt + 1
          /\ UNCHANGED <<contract, answered, reconnectAttempts, isRunning, steady, rejections>>
      BY <1>1, FailParts
    <2>2. made' = (reconnectAttempts * Contracts + contract - 1) * totalAttemptsAllowed + (attempt + 1) - 1
      <3>1. made' = (reconnectAttempts' * Contracts + contract' - 1) * totalAttemptsAllowed + attempt' - 1
        BY DEF made, totalAttemptsAllowed, Lesser
      <3> QED
        BY <2>1, <3>1, Zenon
    <2>3. made' = made + 1
      <3> DEFINE p == (reconnectAttempts * Contracts + contract - 1) * totalAttemptsAllowed
      <3>1. made = p + attempt - 1 /\ made' = p + (attempt + 1) - 1
        BY <2>2 DEF made
      <3>2. p \in Int /\ attempt \in Int
        <4>1. reconnectAttempts \in Int /\ contract \in Int /\ attempt \in Int
          BY <1>0, AttemptsType DEF PollOK
        <4>2. reconnectAttempts * Contracts \in Int
          BY <4>1, PoolFacts
        <4>3. reconnectAttempts * Contracts + contract - 1 \in Int
          BY <4>1, <4>2
        <4> QED
          BY <4>1, <4>3, AttemptsType
      <3> HIDE DEF p
      <3> QED
        BY <3>1, <3>2
    <2> QED
      BY <1>0, <2>1, <2>3, OneAttemptLess DEF OnlyOutagesStop
  <1>2. CASE ~Retried
    <2>0. attempt = totalAttemptsAllowed
      BY <1>0, <1>2, PoolFacts, AttemptsType DEF Retried, PollOK
    <2>1. EndOfOperation(FALSE) /\ Remember(FALSE, 0)
      BY <1>2, FailParts
    <2>r. /\ contract = Contracts /\ answered => rejections' = 0
          /\ ~(contract = Contracts /\ answered) => steady' = steady /\ rejections' = rejections + 0
      BY <1>0, <2>1, Remembered
    <2>n. rejections \in Nat /\ rejections + 0 = rejections
      BY <1>0, PoolFacts DEF PollOK
    <2>2. made' = (reconnectAttempts' * Contracts + contract' - 1) * totalAttemptsAllowed + attempt' - 1
      BY DEF made, totalAttemptsAllowed, Lesser
    <2>3. \/ /\ contract < Contracts /\ contract' = contract + 1 /\ attempt' = 1
             /\ answered' = (answered \/ FALSE)
             /\ reconnectAttempts' = reconnectAttempts /\ isRunning' = isRunning
          \/ contract = Contracts /\ contract' = 1 /\ attempt' = 1 /\ EndOfPoll(answered \/ FALSE)
             /\ answered' = FALSE
      BY <2>1 DEF EndOfOperation
    <2>4. CASE /\ contract < Contracts /\ contract' = contract + 1 /\ attempt' = 1
               /\ answered' = (answered \/ FALSE)
               /\ reconnectAttempts' = reconnectAttempts /\ isRunning' = isRunning
      <3>1. answered' = answered
        BY <1>0, <2>4 DEF PollOK
      <3>2. contract # Contracts
        BY <1>0, <2>4, PoolFacts DEF PollOK
      <3>3. steady' = steady /\ rejections' = rejections
        BY <2>r, <2>n, <3>2
      <3>4. made' = made + 1
        BY <1>0, <2>0, <2>2, <2>4, AttemptsArithmetic
      <3> QED
        BY <1>0, <2>4, <3>1, <3>3, <3>4, OneAttemptLess DEF OnlyOutagesStop
    <2>5. CASE /\ contract = Contracts /\ contract' = 1 /\ attempt' = 1
               /\ EndOfPoll(answered \/ FALSE) /\ answered' = FALSE
      <3>1. CASE answered
        <4>1. reconnectAttempts' = 0 /\ isRunning' = isRunning
          BY <2>5, <3>1 DEF EndOfPoll
        <4>2. made' = 0
          BY <2>2, <2>5, <4>1, PoolFacts, AttemptsType
        <4>3. rejections' = 0
          BY <2>5, <2>r, <3>1
        <4> QED
          BY <1>0, <4>1, <4>2, <4>3, FreshPoll DEF OnlyOutagesStop
      <3>2. CASE ~answered
        <4>1. steady' = steady /\ rejections' = rejections
          BY <2>r, <2>n, <3>2
        <4>2. reconnect
          BY <2>5, <3>2 DEF EndOfPoll
        <4>3. CASE ~(reconnectAttempts >= MaxReconnections)
          <5>1. reconnectAttempts' = reconnectAttempts + 1 /\ isRunning' = isRunning
            BY <4>2, <4>3 DEF reconnect
          <5>2. made' = made + 1
            BY <1>0, <2>0, <2>2, <2>5, <5>1, AttemptsArithmetic
          <5>3. answered' = answered
            BY <1>0, <2>5, <3>2 DEF PollOK
          <5> QED
            BY <1>0, <4>1, <5>1, <5>2, <5>3, OneAttemptLess DEF OnlyOutagesStop
        <4>4. CASE reconnectAttempts >= MaxReconnections
          <5>1. isRunning' = FALSE
            BY <4>2, <4>4 DEF reconnect
          <5>2. made + 1 = AllAttempts /\ made \in Nat
            BY <1>0, <2>0, <2>5, <4>4, AttemptsArithmetic
          <5>3. ASSUME NEW e \in steady, rejections <= MaxRejections PROVE FALSE
            <6>1. e \in Pool /\ e # activeIndex
              BY <1>0 DEF FailoverTypeOK
            <6>2. made + Potential(e) + Spare < AllAttempts
              BY <1>0, <3>2, <5>3, <6>1 DEF InTime, Cost
            <6>3. Potential(e) \in Nat \ {0}
              BY <1>0, <6>1, PotentialBounds
            <6>4. Spare \in Nat
              <7>1. MaxRejections - rejections \in Nat /\ totalAttemptsAllowed \in Nat
                BY <2>n, <5>3, PoolFacts, AttemptsType
              <7> QED
                BY <7>1 DEF Spare
            <6> QED
              BY <5>2, <6>2, <6>3, <6>4
          <5> QED
            BY <2>n, <4>1, <5>1, <5>3, PoolFacts DEF InTime, OnlyOutagesStop
        <4> QED
          BY <4>3, <4>4
      <3> QED
        BY <3>1, <3>2
    <2> QED
      BY <2>3, <2>4, <2>5
  <1> QED
    BY <1>1, <1>2

\* FailoverInv is inductive: one step for each action.
LEMMA FailoverInvPreserved ==
  ASSUME EnoughAttempts, FailoverInv, [FailoverNext]_failoverVars
  PROVE  FailoverInv'
  <1>0. FailoverTypeOK /\ CooledFirst /\ ActiveOldest /\ InTime /\ OnlyOutagesStop
    BY DEF FailoverInv
  <1>1. FailoverTypeOK'
    BY <1>0, FailoverTypePreserved
  <1>2. ASSUME Answer PROVE FailoverInv'
    <2>1. InTime' /\ OnlyOutagesStop'
      BY <1>1, <1>2, AnswerInTime
    <2>2. /\ status' = [status EXCEPT ![activeIndex] = "healthy"]
          /\ consecutiveFailures' = [consecutiveFailures EXCEPT ![activeIndex] = 0]
          /\ before' = before /\ activeIndex' = activeIndex
      BY <1>2 DEF Answer, recordSuccess
    <2>3. /\ status'[activeIndex] = "healthy"
          /\ \A e \in Pool : e # activeIndex =>
               status'[e] = status[e] /\ consecutiveFailures'[e] = consecutiveFailures[e]
      BY <1>0, <2>2 DEF FailoverTypeOK
    <2>4. CooledFirst'
      BY <1>0, <2>2, <2>3 DEF CooledFirst
    <2>5. ActiveOldest'
      BY <2>2, <2>3 DEF ActiveOldest
    <2> QED
      BY <1>1, <2>1, <2>4, <2>5 DEF FailoverInv
  <1>3. ASSUME NEW err \in Errors, Fail(err) PROVE FailoverInv'
    <2> DEFINE a == activeIndex
    <2>1. a \in Pool /\ FailureShape(a) /\ a = activeIndex
      BY <1>0, <1>3, FailHasShape
    <2> HIDE DEF a
    <2>2. CooledFirst' /\ ActiveOldest'
      BY <1>0, <2>1, FailureKeepsOrder
    <2>3. InTime' /\ OnlyOutagesStop'
      BY <1>1, <1>3, FailInTime
    <2> QED
      BY <1>1, <2>2, <2>3 DEF FailoverInv
  <1>4. ASSUME UNCHANGED <<status, consecutiveFailures, before, activeIndex>>
        PROVE  /\ CooledFirst' /\ ActiveOldest'
               /\ \A e \in Pool : Potential(e)' = Potential(e)
    <2>1. CooledFirst'
      BY <1>0, <1>4 DEF CooledFirst
    <2>2. ActiveOldest'
      BY <1>0, <1>4 DEF ActiveOldest
    <2>3. ASSUME NEW e \in Pool PROVE Potential(e)' = Potential(e)
      BY <1>4 DEF Potential, Room, Detour, Fresh, distance
    <2> QED
      BY <2>1, <2>2, <2>3
  <1>5. ASSUME NEW err \in Errors, Reject(err) PROVE FailoverInv'
    <2>1. UNCHANGED <<status, consecutiveFailures, before, activeIndex>>
      BY <1>5 DEF Reject, health
    <2>2. InTime' /\ OnlyOutagesStop'
      BY <1>1, <1>5, RejectInTime
    <2> QED
      BY <1>1, <1>4, <2>1, <2>2 DEF FailoverInv
  <1>6. ASSUME UNCHANGED <<status, consecutiveFailures, before, activeIndex, poll>>,
               steady' \subseteq steady, rejections' = rejections
        PROVE  FailoverInv'
    <2>1. UNCHANGED <<status, consecutiveFailures, before, activeIndex>>
      BY <1>6
    <2>2. /\ CooledFirst' /\ ActiveOldest'
          /\ \A e \in Pool : Potential(e)' = Potential(e)
      BY <1>4, <2>1
    <2>3. /\ isRunning' = isRunning /\ answered' = answered /\ activeIndex' = activeIndex
          /\ made' = made /\ AllAttempts' = AllAttempts
      BY <1>6 DEF poll, made, AllAttempts, totalAttemptsAllowed, Lesser
    <2>4. steady \subseteq Pool
      BY <1>0 DEF FailoverTypeOK
    <2>5. InTime'
      <3> SUFFICES ASSUME isRunning, ~answered, rejections <= MaxRejections, NEW e \in steady'
                   PROVE  made + Cost(e)' + Spare' < AllAttempts
        BY <1>6, <2>3 DEF InTime
      <3>1. e \in steady /\ Potential(e)' = Potential(e)
        BY <1>6, <2>2, <2>4
      <3>2. Cost(e)' = Cost(e) /\ Spare' = Spare
        BY <1>6, <3>1 DEF Cost, Spare, totalAttemptsAllowed, Lesser
      <3> QED
        BY <1>0, <3>1, <3>2 DEF InTime
    <2>6. OnlyOutagesStop'
      BY <1>0, <1>6, <2>3 DEF OnlyOutagesStop
    <2> QED
      BY <1>1, <2>2, <2>5, <2>6 DEF FailoverInv
  <1>7. ASSUME Shift PROVE FailoverInv'
    BY <1>6, <1>7 DEF Shift, health
  <1>8. ASSUME CoolDown PROVE FailoverInv'
    BY <1>6, <1>8 DEF CoolDown, failoverHistory
  <1>9. ASSUME UNCHANGED failoverVars PROVE FailoverInv'
    BY <1>6, <1>9 DEF failoverVars, health, failoverHistory
  <1> QED
    BY <1>2, <1>3, <1>5, <1>7, <1>8, <1>9 DEF FailoverNext

\* At first no attempt is made, and the potentials are below all attempts.
LEMMA FailoverInvInitial == EnoughAttempts /\ FailoverInit => FailoverInv
  <1> SUFFICES ASSUME EnoughAttempts, FailoverInit PROVE FailoverInv
    OBVIOUS
  <1>1. FailoverTypeOK
    BY FailoverTypeInitial
  <1>2. \A e \in Pool : status[e] = "healthy"
    BY DEF FailoverInit
  <1>3. CooledFirst /\ ActiveOldest
    <2>1. "healthy" # "unhealthy" /\ "healthy" # "degraded"
      OBVIOUS
    <2> QED
      BY <1>2, <2>1 DEF CooledFirst, ActiveOldest
  <1>4. made = 0
    <2>1. made = (0 * Contracts + 1 - 1) * totalAttemptsAllowed + 1 - 1
      BY DEF made, FailoverInit
    <2> QED
      BY <2>1, PoolFacts, AttemptsType
  <1>5. InTime
    <2> SUFFICES ASSUME NEW e \in steady
                 PROVE  made + Cost(e) + Spare < AllAttempts
      BY DEF InTime
    <2> DEFINE most == (Endpoints - 1) * FailureThreshold
               spare == MaxRejections * totalAttemptsAllowed
    <2>1. e \in Pool
      BY <1>1 DEF FailoverTypeOK
    <2>2. Cost(e) \in Nat /\ Cost(e) <= most + 2 * Endpoints - 1
      BY <1>1, <2>1, CostBounds
    <2>3. most + 2 * Endpoints + spare <= AllAttempts /\ most \in Nat
      BY PoolFacts DEF EnoughAttempts
    <2>4. AllAttempts \in Nat /\ spare \in Nat
      BY <1>1, FailoverTypeParts, AttemptsArithmetic, SpareFacts
    <2>5. Spare = spare
      BY PoolFacts DEF Spare, FailoverInit
    <2> HIDE DEF most, spare
    <2> QED
      BY <1>4, <2>2, <2>3, <2>4, <2>5, PoolFacts
  <1>6. OnlyOutagesStop
    BY DEF FailoverInit, OnlyOutagesStop
  <1> QED
    BY <1>1, <1>3, <1>5, <1>6 DEF FailoverInv

\* The subscriber does not stop for good while some endpoint of the pool has been
\* up since the last poll that succeeded and no more than MaxRejections operations
\* were rejected, if it has attempts enough to use up every potential and the
\* attempts of the rejected operations.
THEOREM OnlyOutagesStopCorrect ==
  ASSUME EnoughAttempts
  PROVE  FailoverSpec => []OnlyOutagesStop
  <1>1. FailoverInit => FailoverInv
    BY FailoverInvInitial
  <1>2. FailoverInv /\ [FailoverNext]_failoverVars => FailoverInv'
    BY FailoverInvPreserved
  <1>3. FailoverInv => OnlyOutagesStop
    BY DEF FailoverInv
  <1> QED
    BY <1>1, <1>2, <1>3, PTL DEF FailoverSpec

\* As config.ts sets things up (RPC_FAILURE_THRESHOLD 3, as many attempts as the
\* pool has endpoints, MAX_RECONNECT_ATTEMPTS 5), whatever the pool: for each of its
\* endpoints there are six attempts per contract, five are needed at most, and each
\* rejected operation takes one.
THEOREM DefaultsSuffice ==
  ASSUME FailureThreshold <= 3, MaxRetries >= Endpoints, MaxReconnections >= 5,
         MaxRejections <= 6 * Contracts - 5
  PROVE  FailoverSpec => []OnlyOutagesStop
  <1> DEFINE m == MaxReconnections
             k == (m + 1) * Contracts
  <1>1. Endpoints \in Nat \ {0} /\ FailureThreshold \in Nat \ {0}
        /\ Contracts \in Nat \ {0} /\ m \in Nat /\ m >= 5 /\ MaxRejections \in Nat
    BY PoolFacts
  <1>2. totalAttemptsAllowed = Endpoints
    BY <1>1, PoolFacts DEF totalAttemptsAllowed, Lesser
  <1>3. k \in Nat /\ k >= MaxRejections + 5
    <2> HIDE DEF m
    <2>1. (m + 1) * Contracts = (m - 5) * Contracts + 6 * Contracts
      BY <1>1
    <2>2. (m - 5) * Contracts \in Nat
      BY <1>1
    <2> QED
      BY <1>1, <2>1, <2>2
  <1>4. (Endpoints - 1) * FailureThreshold <= (Endpoints - 1) * 3
    BY <1>1
  <1>5. (Endpoints - 1) * FailureThreshold \in Nat
    BY <1>1
  <1> HIDE DEF k, m
  <1>6. MaxRejections * Endpoints + 5 * Endpoints <= k * Endpoints
    <2> DEFINE d == k - (MaxRejections + 5)
    <2>1. d \in Nat /\ k = d + (MaxRejections + 5)
      BY <1>1, <1>3
    <2> HIDE DEF d
    <2>2. k * Endpoints = d * Endpoints + MaxRejections * Endpoints + 5 * Endpoints
      BY <1>1, <2>1
    <2>3. d * Endpoints \in Nat /\ MaxRejections * Endpoints \in Nat
      BY <1>1, <2>1
    <2> QED
      BY <1>1, <2>2, <2>3
  <1>7. k * Endpoints \in Nat /\ MaxRejections * Endpoints \in Nat
    BY <1>1, <1>3
  <1>8. (Endpoints - 1) * FailureThreshold + 2 * Endpoints + MaxRejections * Endpoints
          <= k * Endpoints
    BY <1>1, <1>4, <1>5, <1>6, <1>7
  <1>9. EnoughAttempts
    BY <1>2, <1>8 DEF EnoughAttempts, AllAttempts, k, m
  <1> QED
    BY <1>9, OnlyOutagesStopCorrect
===============================================================================
