---------------------------- MODULE EventClaims ----------------------------
(***************************************************************************)
(* The table processed_events and the statements that run on it: those of  *)
(* EventDeduplicationService (listener/src/services/                       *)
(* event-deduplication-service.ts), and the DELETE of the job that keeps   *)
(* the table small, DatabaseCleanupJob (database-cleanup-job.ts).  The     *)
(* cleanupOldRecords of the service has no caller and is left out.         *)
(* Every statement is atomic: SQLite serialises writers, also those of     *)
(* several listener instances that share the database file.                *)
(*                                                                         *)
(* A worker is whatever calls claimEvent and then works on the event: an   *)
(* async task, a poll cycle, a listener instance.  The columns nobody      *)
(* decides on (ids, ledger, hash, reason) are left out, and processed_at   *)
(* is relative: `age` is the seconds since then.                           *)
(***************************************************************************)
EXTENDS Integers, FiniteSets

CONSTANTS
    Workers, Events,
    TableStatuses,  \* the values the CHECK on column status lets in
    Lease,          \* claimLeaseSeconds
    Retention,      \* the cleanup job's retention of processed_events, in seconds
    WorkBound,      \* seconds within which a worker completes or dies
    MaxAge,         \* bound: ages saturate here
    MaxCount,       \* bound: reorg_detection_count saturates here
    MaxCrashes,     \* bound: workers that lose a claim they were granted
    MaxFaults       \* bound: statements of claimEvent that fail

RowStatus == {"PROCESSING", "PROCESSED", "SKIPPED", "ERROR"}

\* The status column of schema.sql.
SchemaStatuses == {"PROCESSED", "SKIPPED", "ERROR"}

ASSUME EventClaimsAssumption ==
    /\ SchemaStatuses \subseteq TableStatuses
    /\ TableStatuses \subseteq RowStatus
    /\ Lease \in Nat
    /\ Retention \in Nat
    /\ WorkBound \in Nat
    /\ MaxAge \in Nat
    /\ MaxCount \in Nat
    /\ MaxCrashes \in Nat
    /\ MaxFaults \in Nat
    /\ Lease <= Retention
    /\ Retention < MaxAge

VARIABLES
    rows,     \* [Events -> sets of at most one row]: fingerprint is UNIQUE
    claims,   \* [Workers -> sets of at most one claim being worked on]
    crashes, faults

vars == <<rows, claims, crashes, faults>>

Row == [status : RowStatus, age : 0..MaxAge, sent : BOOLEAN,
        reorg : BOOLEAN, count : 0..MaxCount]

\* What a worker that was answered `claimed: true` has been doing for `age`
\* seconds: working on the event, or inserting its row because the UPDATE of
\* completeEvent found none.  `open` is history: the answer came from the catch
\* block of claimEvent.
Claim == [event : Events, age : 0..MaxAge, phase : {"working", "inserting"}, open : BOOLEAN]

Exists(e) == rows[e] # {}

NewRow(status, sent) ==
    [status |-> status, age |-> 0, sent |-> sent, reorg |-> FALSE, count |-> 0]

Store(e, row) == rows' = [rows EXCEPT ![e] = {row}]

Capped(n, cap) == IF n < cap THEN n + 1 ELSE cap

-----------------------------------------------------------------------------
Init ==
    /\ rows = [e \in Events |-> {}]
    /\ claims = [w \in Workers |-> {}]
    /\ crashes = 0
    /\ faults = 0

\* Mutant: a claim is taken over without looking at its lease.
staleIgnoringLease(row) == row.status = "PROCESSING"

\* Mutant: any old row is taken over, completed or not.
staleIgnoringStatus(row) == row.age > Lease

\* The WHERE clause of the upsert in claimEvent.
stale(row) == row.status = "PROCESSING" /\ row.age > Lease

\* The worker now owns the event, as far as it knows.
grant(w, e, open) ==
    claims' = [claims EXCEPT ![w] =
        {[event |-> e, age |-> 0, phase |-> "working", open |-> open]}]

\* claimEvent, when the upsert inserts a row or takes a stale one over.  A
\* refused claim changes nothing.
claimEvent(w, e) ==
    /\ claims[w] = {}
    /\ "PROCESSING" \in TableStatuses
    /\ \/ ~Exists(e) /\ Store(e, NewRow("PROCESSING", FALSE))
       \/ \E row \in rows[e] : stale(row) /\ Store(e, [row EXCEPT !.age = 0])
    /\ grant(w, e, FALSE)
    /\ UNCHANGED <<crashes, faults>>

\* claimEvent, when its statement fails, or the CHECK rejects the row of the
\* INSERT (SQLite checks the row before it looks for a conflict): the catch
\* block fails open.
claimEventFailsOpen(w, e) ==
    /\ claims[w] = {}
    /\ "PROCESSING" \in TableStatuses => faults < MaxFaults
    /\ faults' = IF "PROCESSING" \in TableStatuses THEN faults + 1 ELSE faults
    /\ grant(w, e, TRUE)
    /\ UNCHANGED <<rows, crashes>>

\* completeEvent: the UPDATE, by fingerprint, whoever owns the row by now.
completeEvent(w, e, status, sent) ==
    /\ \E c \in claims[w] :
         /\ c.event = e
         /\ c.phase = "working"
         /\ \/ /\ \E row \in rows[e] :
                    Store(e, [row EXCEPT !.status = status, !.sent = sent, !.age = 0])
               /\ claims' = [claims EXCEPT ![w] = {}]
            \/ /\ ~Exists(e)
               /\ claims' = [claims EXCEPT ![w] = {[c EXCEPT !.phase = "inserting"]}]
               /\ UNCHANGED rows
    /\ UNCHANGED <<crashes, faults>>

\* Mutant: the INSERT does not mind a row it conflicts with.
insertedBeside(e, new) == rows[e] \cup {new}

\* INSERT ... ON CONFLICT DO NOTHING.
inserted(e, new) == IF Exists(e) THEN rows[e] ELSE {new}

\* completeEvent: the INSERT after an UPDATE that
\* changed no row.
completeEventInserts(w, e, status, sent) ==
    /\ \E c \in claims[w] : c.event = e /\ c.phase = "inserting"
    /\ rows' = [rows EXCEPT ![e] = inserted(e, NewRow(status, sent))]
    /\ claims' = [claims EXCEPT ![w] = {}]
    /\ UNCHANGED <<crashes, faults>>

\* The counter is incremented by the statement itself.
redetected(row) == [row EXCEPT !.reorg = TRUE, !.count = Capped(@, MaxCount)]

\* recordRedetection, by anyone who finds the event in the table.
recordRedetection(e) ==
    /\ \E row \in rows[e] :
         /\ row.status # "PROCESSING"
         /\ Store(e, redetected(row))
    /\ UNCHANGED <<claims, crashes, faults>>

\* Mutant: INSERT OR REPLACE.
replaced(row, status) == NewRow(status, row.sent)

\* The row after the upsert of recordProcessedEvent found one.
upserted(row, status) == [redetected(row) EXCEPT !.status = status]

\* recordProcessedEvent, the upsert of the historical backfill.
recordProcessedEvent(e, status, sent) ==
    /\ \/ ~Exists(e) /\ Store(e, NewRow(status, sent))
       \/ \E row \in rows[e] : Store(e, upserted(row, status))
    /\ UNCHANGED <<claims, crashes, faults>>

\* Mutant: the job leaves alone the rows somebody works on.
expiredCompleted(row) == row.age > Retention /\ row.status # "PROCESSING"

\* The WHERE clause of the cleanup job, which looks at processed_at alone: not
\* at the status of a row, nor at whether it was redetected.
expired(row) == row.age > Retention

\* One transaction of the cleanup job, a DELETE with a LIMIT: any of the expired
\* rows.
deleteBatch(batch) ==
    /\ rows' = [e \in Events |->
         IF e \in batch THEN {row \in rows[e] : ~expired(row)} ELSE rows[e]]
    /\ UNCHANGED <<claims, crashes, faults>>

\* A worker dies without completing its claim, or a statement of completeEvent
\* fails, which it only logs.
Crash(w) ==
    /\ claims[w] # {}
    /\ crashes < MaxCrashes
    /\ crashes' = crashes + 1
    /\ claims' = [claims EXCEPT ![w] = {}]
    /\ UNCHANGED <<rows, faults>>

\* One second passes.  A worker's requests time out, so a claim at the
\* WorkBound is completed first; WorkBound >= MaxAge sets no such limit.
Tick ==
    /\ \A w \in Workers : \A c \in claims[w] : c.age <= WorkBound
    /\ rows' = [e \in Events |-> {[row EXCEPT !.age = Capped(@, MaxAge)] : row \in rows[e]}]
    /\ claims' = [w \in Workers |-> {[c EXCEPT !.age = Capped(@, MaxAge)] : c \in claims[w]}]
    /\ UNCHANGED <<crashes, faults>>

completes(w) ==
    \E e \in Events, status \in {"PROCESSED", "ERROR"}, sent \in BOOLEAN :
        completeEvent(w, e, status, sent) \/ completeEventInserts(w, e, status, sent)

Next ==
    \/ \E w \in Workers, e \in Events : claimEvent(w, e) \/ claimEventFailsOpen(w, e)
    \/ \E w \in Workers : completes(w) \/ Crash(w)
    \/ \E e \in Events : recordRedetection(e)
    \/ \E e \in Events, status \in SchemaStatuses, sent \in BOOLEAN :
         recordProcessedEvent(e, status, sent)
    \/ \E batch \in SUBSET Events : deleteBatch(batch)
    \/ Tick

Spec == Init /\ [][Next]_vars

\* Time passes, the interval of the cleanup job comes round and its run goes on
\* until it finds no more expired rows, and workers complete what they claimed
\* unless they die.  Nobody has to ask for an event again: polls do not return
\* one whose cursor was moved past it.
FairSpec ==
    /\ Spec
    /\ WF_vars(Tick)
    /\ \A e \in Events : WF_vars(deleteBatch({e}))
    /\ \A w \in Workers : WF_vars(completes(w))

-----------------------------------------------------------------------------
(***************************************************************************)
(* Properties                                                              *)
(***************************************************************************)

TypeOK ==
    /\ rows \in [Events -> SUBSET Row]
    /\ \A e \in Events : \A r, s \in rows[e] : r = s
    /\ claims \in [Workers -> SUBSET Claim]
    /\ \A w \in Workers : \A c, d \in claims[w] : c = d
    /\ crashes \in 0..MaxCrashes
    /\ faults \in 0..MaxFaults

\* Two workers that claimed one event in the table can both be at work on it
\* only when the lease of one of them has run out, whatever was completed,
\* redetected, backfilled or cleaned up since, and whatever workers do that were
\* let in by a failing statement.
ClaimsExclusive ==
    \A w, v \in Workers : w # v =>
        \A c \in claims[w], d \in claims[v] :
            c.event = d.event => c.open \/ d.open \/ c.age > Lease \/ d.age > Lease

\* A completed row never goes back to a claim and its redetection count never
\* falls: only the cleanup job removes it, and only once it is old enough.
\* processed_at is not refreshed when an event is redetected, so the age is that
\* of the completion, or of the row the backfill made.
CompletedStays ==
    [][\A e \in Events : \A row \in rows[e] :
         row.status # "PROCESSING" =>
            \/ row.age > Retention /\ ~Exists(e)'
            \/ \E later \in rows'[e] :
                 later.status # "PROCESSING" /\ later.count >= row.count]_vars

\* "completed rows (PROCESSED / SKIPPED / ERROR) never can" be re-claimed
\* (claimEvent), however old they are, except by failing open.
CompletedNotClaimed ==
    [][\A e \in Events, w \in Workers :
         (\E row \in rows[e] : row.status # "PROCESSING") /\ claims[w] = {}
            => \A c \in claims'[w] : c.event # e \/ c.open]_vars

\* The row of a claim does not stay in the table for ever, though its worker may
\* have died and nobody asks for the event again: a worker completes the row, its
\* own or a dead one's that it took over, or the cleanup job removes it by its
\* age, which leaves the event open to a new claim.
ClaimsEnd ==
    \A e \in Events :
        (\E row \in rows[e] : row.status = "PROCESSING")
            ~> (\A row \in rows[e] : row.status # "PROCESSING")
=============================================================================
