------------------------- MODULE EventClaimsProofs -------------------------
(***************************************************************************)
(* Proofs about EventClaims for every set of workers and events and every  *)
(* lease: a claim made in the table excludes others for as long as its     *)
(* lease.  The invariant behind it: such a claim, while it is within its   *)
(* lease, is backed by a row that is no older than the claim.              *)
(***************************************************************************)
EXTENDS EventClaims, TLAPS

\* A claim made in the table and within its lease is backed by a row that is no older.
Backed ==
    \A w \in Workers : \A c \in claims[w] :
        ~c.open /\ c.age <= Lease => \E row \in rows[c.event] : row.age <= c.age

IInv == TypeOK /\ Backed /\ ClaimsExclusive

(***************************************************************************)
(* What the operators on rows and claims return                            *)
(***************************************************************************)

\* Ages and counters saturate within their range.
LEMMA CappedType ==
  ASSUME NEW cap \in Nat, NEW n \in 0..cap
  PROVE  Capped(n, cap) \in 0..cap
  BY DEF Capped

\* A row as the INSERTs build it.
LEMMA NewRowType ==
  ASSUME NEW status \in RowStatus, NEW sent \in BOOLEAN
  PROVE  NewRow(status, sent) \in Row /\ NewRow(status, sent).age = 0
  BY EventClaimsAssumption DEF NewRow, Row

\* A row whose time is set.
LEMMA AgedRow ==
  ASSUME NEW row \in Row, NEW a \in 0..MaxAge
  PROVE  /\ [row EXCEPT !.age = a] \in Row
         /\ [row EXCEPT !.age = a].age = a
  BY DEF Row

\* A claim whose time is set.
LEMMA AgedClaim ==
  ASSUME NEW c \in Claim, NEW a \in 0..MaxAge
  PROVE  /\ [c EXCEPT !.age = a] \in Claim
         /\ [c EXCEPT !.age = a].age = a
         /\ [c EXCEPT !.age = a].event = c.event
         /\ [c EXCEPT !.age = a].open = c.open
  BY DEF Claim

\* A row that completeEvent updated.
LEMMA CompletedRow ==
  ASSUME NEW row \in Row, NEW status \in RowStatus, NEW sent \in BOOLEAN, NEW a \in 0..MaxAge
  PROVE  /\ [row EXCEPT !.status = status, !.sent = sent, !.age = a] \in Row
         /\ [row EXCEPT !.status = status, !.sent = sent, !.age = a].age = a
  BY DEF Row

\* A redetection does not touch the time of a row.
LEMMA RedetectedRow ==
  ASSUME NEW row \in Row
  PROVE  redetected(row) \in Row /\ redetected(row).age = row.age
  <1> DEFINE n == Capped(row.count, MaxCount)
  <1>1. n \in 0..MaxCount
    BY CappedType, EventClaimsAssumption DEF Row
  <1>2. redetected(row) = [row EXCEPT !.reorg = TRUE, !.count = n]
    BY DEF redetected
  <1> HIDE DEF n
  <1>3. /\ [row EXCEPT !.reorg = TRUE, !.count = n] \in Row
        /\ [row EXCEPT !.reorg = TRUE, !.count = n].age = row.age
    BY <1>1 DEF Row
  <1> QED
    BY <1>2, <1>3

\* Nor does the upsert of the backfill.
LEMMA UpsertedRow ==
  ASSUME NEW row \in Row, NEW status \in RowStatus
  PROVE  upserted(row, status) \in Row /\ upserted(row, status).age = row.age
  <1>1. redetected(row) \in Row /\ redetected(row).age = row.age
    BY RedetectedRow
  <1> QED
    BY <1>1 DEF upserted, Row

\* What a statement that writes the row of one event does to the table.
LEMMA Stored ==
  ASSUME TypeOK, NEW e \in Events, NEW row \in Row, Store(e, row)
  PROVE  /\ rows' \in [Events -> SUBSET Row]
         /\ \A f \in Events : \A r, s \in rows'[f] : r = s
         /\ rows'[e] = {row}
         /\ \A f \in Events : f # e => rows'[f] = rows[f]
  BY DEF TypeOK, Store

\* The invariants, taken over any two tables of rows and claims, so that they
\* can be cited for the next state.
RowsOK(r) == r \in [Events -> SUBSET Row] /\ \A e \in Events : \A x, y \in r[e] : x = y
ClaimsOK(c) == c \in [Workers -> SUBSET Claim] /\ \A w \in Workers : \A x, y \in c[w] : x = y

\* A statement that leaves the row of an event at its age, or makes it younger,
\* leaves every claim backed.
LEMMA YoungerBacks ==
  ASSUME TypeOK, Backed, UNCHANGED claims, rows' \in [Events -> SUBSET Row],
         \A e \in Events : \A r \in rows[e] :
            r.age <= Lease => \E s \in rows'[e] : s.age <= r.age
  PROVE  Backed'
  <1> SUFFICES ASSUME NEW w \in Workers, NEW c \in claims[w], ~c.open, c.age <= Lease
               PROVE  \E row \in rows'[c.event] : row.age <= c.age
    BY DEF Backed
  <1>1. c \in Claim /\ c.event \in Events /\ c.age \in 0..MaxAge
    BY DEF TypeOK, Claim
  <1>2. PICK r \in rows[c.event] : r.age <= c.age
    BY DEF Backed
  <1>3. r.age \in 0..MaxAge
    BY <1>1, <1>2 DEF TypeOK, Row
  <1>4. PICK s \in rows'[c.event] : s.age <= r.age
    BY <1>1, <1>2, <1>3, EventClaimsAssumption
  <1>5. s.age \in 0..MaxAge
    BY <1>1, <1>4 DEF Row
  <1> QED
    BY <1>1, <1>2, <1>3, <1>4, <1>5

(***************************************************************************)
(* The steps                                                               *)
(***************************************************************************)

FaultsOK(c, f) == c \in 0..MaxCrashes /\ f \in 0..MaxFaults

\* TypeOK is inductive: at most one row per event and one claim per worker.
LEMMA TypeStep ==
  ASSUME TypeOK, [Next]_vars
  PROVE  TypeOK'
  <1> USE EventClaimsAssumption
  <1>1. ASSUME NEW w \in Workers, NEW e \in Events, NEW open \in BOOLEAN, grant(w, e, open)
        PROVE  ClaimsOK(claims')
    <2>1. [event |-> e, age |-> 0, phase |-> "working", open |-> open] \in Claim
      BY DEF Claim
    <2> QED
      BY <1>1, <2>1 DEF TypeOK, ClaimsOK, grant
  <1>2. ASSUME NEW w \in Workers, claims' = [claims EXCEPT ![w] = {}]
        PROVE  ClaimsOK(claims')
    BY <1>2 DEF TypeOK, ClaimsOK
  <1>3. ASSUME UNCHANGED claims PROVE ClaimsOK(claims')
    BY <1>3 DEF TypeOK, ClaimsOK
  <1>4. ASSUME UNCHANGED rows PROVE RowsOK(rows')
    BY <1>4 DEF TypeOK, RowsOK
  <1>5. ASSUME NEW e \in Events, NEW row \in Row, Store(e, row) PROVE RowsOK(rows')
    BY <1>5, Stored DEF RowsOK
  <1>6. ASSUME UNCHANGED <<crashes, faults>> PROVE FaultsOK(crashes', faults')
    BY <1>6 DEF TypeOK, FaultsOK
  <1> SUFFICES RowsOK(rows') /\ ClaimsOK(claims') /\ FaultsOK(crashes', faults')
    BY DEF TypeOK, RowsOK, ClaimsOK, FaultsOK
  <1>7. CASE UNCHANGED vars
    BY <1>7, <1>3, <1>4, <1>6 DEF vars
  <1>8. ASSUME NEW w \in Workers, NEW e \in Events, claimEvent(w, e)
        PROVE  RowsOK(rows') /\ ClaimsOK(claims') /\ FaultsOK(crashes', faults')
    <2>1. ASSUME Store(e, NewRow("PROCESSING", FALSE)) PROVE RowsOK(rows')
      BY <2>1, <1>5, NewRowType DEF RowStatus
    <2>2. ASSUME NEW row \in rows[e], Store(e, [row EXCEPT !.age = 0])
          PROVE  RowsOK(rows')
      <3>1. row \in Row
        BY DEF TypeOK
      <3> QED
        BY <2>2, <3>1, <1>5, AgedRow
    <2>3. RowsOK(rows')
      BY <1>8, <2>1, <2>2 DEF claimEvent
    <2> QED
      BY <1>8, <1>1, <1>6, <2>3 DEF claimEvent
  <1>9. ASSUME NEW w \in Workers, NEW e \in Events, claimEventFailsOpen(w, e)
        PROVE  RowsOK(rows') /\ ClaimsOK(claims') /\ FaultsOK(crashes', faults')
    <2>1. FaultsOK(crashes', faults')
      BY <1>9 DEF claimEventFailsOpen, FaultsOK, TypeOK
    <2> QED
      BY <1>9, <2>1, <1>1, <1>4 DEF claimEventFailsOpen
  <1>10. ASSUME NEW w \in Workers, NEW e \in Events, NEW status \in RowStatus,
                NEW sent \in BOOLEAN, completeEvent(w, e, status, sent)
         PROVE  RowsOK(rows') /\ ClaimsOK(claims') /\ FaultsOK(crashes', faults')
    <2>1. PICK c \in claims[w] :
            \/ /\ \E row \in rows[e] :
                    Store(e, [row EXCEPT !.status = status, !.sent = sent, !.age = 0])
               /\ claims' = [claims EXCEPT ![w] = {}]
            \/ /\ claims' = [claims EXCEPT ![w] = {[c EXCEPT !.phase = "inserting"]}]
               /\ UNCHANGED rows
      BY <1>10 DEF completeEvent
    <2>2. ASSUME NEW row \in rows[e],
                 Store(e, [row EXCEPT !.status = status, !.sent = sent, !.age = 0])
          PROVE  RowsOK(rows')
      <3>1. row \in Row /\ 0 \in 0..MaxAge
        BY DEF TypeOK
      <3>2. [row EXCEPT !.status = status, !.sent = sent, !.age = 0] \in Row
        BY <3>1, CompletedRow
      <3> QED
        BY <2>2, <3>2, <1>5
    <2>3. ASSUME claims' = [claims EXCEPT ![w] = {[c EXCEPT !.phase = "inserting"]}]
          PROVE  ClaimsOK(claims')
      <3>1. [c EXCEPT !.phase = "inserting"] \in Claim
        BY DEF TypeOK, Claim
      <3> QED
        BY <2>3, <3>1 DEF TypeOK, ClaimsOK
    <2>4. UNCHANGED <<crashes, faults>>
      BY <1>10 DEF completeEvent
    <2> QED
      BY <2>1, <2>2, <2>3, <2>4, <1>2, <1>4, <1>6
  <1>11. ASSUME NEW w \in Workers, NEW e \in Events, NEW status \in RowStatus,
                NEW sent \in BOOLEAN, completeEventInserts(w, e, status, sent)
         PROVE  RowsOK(rows') /\ ClaimsOK(claims') /\ FaultsOK(crashes', faults')
    <2> DEFINE new == inserted(e, NewRow(status, sent))
    <2>1. NewRow(status, sent) \in Row
      BY NewRowType
    <2>2. new \in SUBSET Row /\ \A r, s \in new : r = s
      BY <2>1 DEF inserted, Exists, TypeOK
    <2>3. rows' = [rows EXCEPT ![e] = new]
      BY <1>11 DEF completeEventInserts
    <2> HIDE DEF new
    <2>4. RowsOK(rows')
      BY <2>2, <2>3 DEF TypeOK, RowsOK
    <2> QED
      BY <1>11, <2>4, <1>2, <1>6 DEF completeEventInserts
  <1>12. ASSUME NEW e \in Events, recordRedetection(e)
         PROVE  RowsOK(rows') /\ ClaimsOK(claims') /\ FaultsOK(crashes', faults')
    <2>1. PICK row \in rows[e] : Store(e, redetected(row))
      BY <1>12 DEF recordRedetection
    <2>2. row \in Row
      BY DEF TypeOK
    <2> QED
      BY <1>12, <2>1, <2>2, <1>3, <1>5, <1>6, RedetectedRow DEF recordRedetection
  <1>13. ASSUME NEW e \in Events, NEW status \in SchemaStatuses, NEW sent \in BOOLEAN,
                recordProcessedEvent(e, status, sent)
         PROVE  RowsOK(rows') /\ ClaimsOK(claims') /\ FaultsOK(crashes', faults')
    <2>1. status \in RowStatus
      BY DEF SchemaStatuses, RowStatus
    <2>2. ASSUME NEW row \in rows[e], Store(e, upserted(row, status))
          PROVE  RowsOK(rows')
      <3>1. row \in Row
        BY DEF TypeOK
      <3> QED
        BY <2>1, <2>2, <3>1, <1>5, UpsertedRow
    <2>3. ASSUME Store(e, NewRow(status, sent)) PROVE RowsOK(rows')
      BY <2>1, <2>3, <1>5, NewRowType
    <2> QED
      BY <1>13, <2>2, <2>3, <1>3, <1>6 DEF recordProcessedEvent
  <1>14. ASSUME NEW batch \in SUBSET Events, deleteBatch(batch)
         PROVE  RowsOK(rows') /\ ClaimsOK(claims') /\ FaultsOK(crashes', faults')
    <2>1. RowsOK(rows')
      BY <1>14 DEF deleteBatch, TypeOK, RowsOK
    <2> QED
      BY <1>14, <2>1, <1>3, <1>6 DEF deleteBatch
  <1>15. ASSUME NEW w \in Workers, Crash(w)
         PROVE  RowsOK(rows') /\ ClaimsOK(claims') /\ FaultsOK(crashes', faults')
    <2>1. FaultsOK(crashes', faults')
      BY <1>15 DEF Crash, TypeOK, FaultsOK
    <2> QED
      BY <1>15, <2>1, <1>2, <1>4 DEF Crash
  <1>16. CASE Tick
    <2>1. ASSUME NEW e \in Events, NEW row \in rows[e]
          PROVE  [row EXCEPT !.age = Capped(row.age, MaxAge)] \in Row
      BY AgedRow, CappedType DEF TypeOK, Row
    <2>2. ASSUME NEW w \in Workers, NEW c \in claims[w]
          PROVE  [c EXCEPT !.age = Capped(c.age, MaxAge)] \in Claim
      BY AgedClaim, CappedType DEF TypeOK, Claim
    <2>3. RowsOK(rows')
      BY <1>16, <2>1 DEF Tick, TypeOK, RowsOK
    <2>4. ClaimsOK(claims')
      BY <1>16, <2>2 DEF Tick, TypeOK, ClaimsOK
    <2> QED
      BY <1>16, <2>3, <2>4, <1>6 DEF Tick
  <1> QED
    BY <1>7, <1>8, <1>9, <1>10, <1>11, <1>12, <1>13, <1>14, <1>15, <1>16
       DEF Next, completes, RowStatus

\* Two claims that Backed does not tell apart.
SameClaim(c, d) == c.event = d.event /\ c.age = d.age /\ c.open = d.open

\* Backed is preserved: claims are granted with a row of their own age, and only
\* time makes a row older, or old enough to be deleted.
LEMMA BackedStep ==
  ASSUME TypeOK, Backed, [Next]_vars
  PROVE  Backed'
  <1> USE EventClaimsAssumption
  <1>1. TypeOK'
    BY TypeStep
  <1>2. rows' \in [Events -> SUBSET Row]
    BY <1>1 DEF TypeOK
  \* Whoever writes a row of age 0 backs every claim on its event.
  <1>3. ASSUME NEW e \in Events, NEW row \in Row, row.age = 0, Store(e, row),
               NEW w \in Workers,
               \A v \in Workers : \A c \in claims'[v] :
                   \/ v = w /\ c.event = e
                   \/ c \in claims[v]
        PROVE  Backed'
    <2> SUFFICES ASSUME NEW v \in Workers, NEW c \in claims'[v], ~c.open, c.age <= Lease
                 PROVE  \E r \in rows'[c.event] : r.age <= c.age
      BY DEF Backed
    <2>1. c \in Claim /\ c.event \in Events /\ c.age \in 0..MaxAge
      BY <1>1 DEF TypeOK, Claim
    <2>2. CASE c.event = e
      BY <1>3, <2>1, <2>2, Stored
    <2>3. CASE c.event # e /\ c \in claims[v]
      BY <1>3, <2>1, <2>3, Stored DEF Backed
    <2> QED
      BY <1>3, <2>2, <2>3
  <1>4. ASSUME UNCHANGED rows, \A v \in Workers : \A c \in claims'[v] :
                   \/ c.open
                   \/ \E d \in claims[v] : SameClaim(c, d)
        PROVE  Backed'
    BY <1>4 DEF Backed, SameClaim
  <1>5. CASE UNCHANGED vars
    BY <1>5, <1>4 DEF vars, SameClaim
  <1>6. ASSUME NEW w \in Workers, NEW e \in Events, claimEvent(w, e)
        PROVE  Backed'
    <2>1. PICK row \in Row : row.age = 0 /\ Store(e, row)
      <3>1. CASE Store(e, NewRow("PROCESSING", FALSE))
        BY <3>1, NewRowType DEF RowStatus
      <3>2. ASSUME NEW r \in rows[e], Store(e, [r EXCEPT !.age = 0])
            PROVE  \E row \in Row : row.age = 0 /\ Store(e, row)
        <4>1. r \in Row /\ 0 \in 0..MaxAge
          BY DEF TypeOK
        <4>2. PICK row \in Row : row = [r EXCEPT !.age = 0] /\ row.age = 0
          BY <4>1, AgedRow
        <4>3. Store(e, row)
          BY <3>2, <4>2
        <4> QED
          BY <4>2, <4>3
      <3> QED
        BY <1>6, <3>1, <3>2 DEF claimEvent
    <2>2. \A v \in Workers : \A c \in claims'[v] :
              (v = w /\ c.event = e) \/ c \in claims[v]
      BY <1>6 DEF claimEvent, grant, TypeOK
    <2> QED
      BY <2>1, <2>2, <1>3
  <1>7. ASSUME NEW w \in Workers, NEW e \in Events, NEW status \in RowStatus,
               NEW sent \in BOOLEAN, completeEvent(w, e, status, sent)
        PROVE  Backed'
    <2>1. PICK c \in claims[w] :
            \/ /\ \E row \in rows[e] :
                    Store(e, [row EXCEPT !.status = status, !.sent = sent, !.age = 0])
               /\ claims' = [claims EXCEPT ![w] = {}]
            \/ /\ claims' = [claims EXCEPT ![w] = {[c EXCEPT !.phase = "inserting"]}]
               /\ UNCHANGED rows
      BY <1>7 DEF completeEvent
    <2>2. ASSUME NEW r \in rows[e], claims' = [claims EXCEPT ![w] = {}],
                 Store(e, [r EXCEPT !.status = status, !.sent = sent, !.age = 0])
          PROVE  Backed'
      <3>1. r \in Row /\ 0 \in 0..MaxAge
        BY DEF TypeOK
      <3> DEFINE new == [r EXCEPT !.status = status, !.sent = sent, !.age = 0]
      <3>2. new \in Row
        BY <3>1, CompletedRow
      <3>3. new.age = 0
        BY <3>1 DEF Row
      <3>4. Store(e, new)
        BY <2>2
      <3> HIDE DEF new
      <3>5. \A v \in Workers : \A d \in claims'[v] : d \in claims[v]
        BY <2>2 DEF TypeOK
      <3> QED
        BY <3>2, <3>3, <3>4, <3>5, <1>3
    <2>3. ASSUME UNCHANGED rows,
                 claims' = [claims EXCEPT ![w] = {[c EXCEPT !.phase = "inserting"]}]
          PROVE  Backed'
      <3>1. SameClaim([c EXCEPT !.phase = "inserting"], c)
        BY DEF TypeOK, Claim, SameClaim
      <3>2. \A v \in Workers : v # w => claims'[v] = claims[v]
        BY <2>3 DEF TypeOK
      <3>3. claims'[w] = {[c EXCEPT !.phase = "inserting"]}
        BY <2>3 DEF TypeOK
      <3>4. \A v \in Workers : \A d \in claims'[v] : \E x \in claims[v] : SameClaim(d, x)
        <4>1. \A v \in Workers : \A d \in claims[v] : SameClaim(d, d)
          BY DEF SameClaim
        <4> QED
          BY <3>1, <3>2, <3>3, <4>1
      <3> QED
        BY <2>3, <3>4, <1>4
    <2> QED
      BY <2>1, <2>2, <2>3
  <1>8. ASSUME NEW w \in Workers, NEW e \in Events, NEW status \in RowStatus,
               NEW sent \in BOOLEAN, completeEventInserts(w, e, status, sent)
        PROVE  Backed'
    <2>1. \A v \in Workers : \A d \in claims'[v] : d \in claims[v]
      BY <1>8 DEF completeEventInserts, TypeOK
    <2>2. CASE Exists(e)
      <3>1. UNCHANGED rows
        BY <1>8, <2>2 DEF completeEventInserts, inserted, TypeOK
      <3> QED
        BY <3>1, <2>1, <1>4 DEF SameClaim
    <2>3. CASE ~Exists(e)
      <3>1. Store(e, NewRow(status, sent))
        BY <1>8, <2>3 DEF completeEventInserts, inserted, Store
      <3> QED
        BY <3>1, <2>1, <1>3, NewRowType
    <2> QED
      BY <2>2, <2>3
  <1>9. ASSUME NEW e \in Events, recordRedetection(e)
        PROVE  Backed'
    <2>1. PICK row \in rows[e] : Store(e, redetected(row))
      BY <1>9 DEF recordRedetection
    <2>2. redetected(row) \in Row /\ redetected(row).age = row.age /\ row.age \in Nat
      BY RedetectedRow DEF TypeOK, Row
    <2>3. \A f \in Events : \A r \in rows[f] :
            r.age <= Lease => \E s \in rows'[f] : s.age <= r.age
      BY <2>1, <2>2, Stored DEF TypeOK, Row
    <2> QED
      BY <1>9, <1>2, <2>3, YoungerBacks DEF recordRedetection
  <1>10. ASSUME NEW e \in Events, NEW status \in SchemaStatuses, NEW sent \in BOOLEAN,
                recordProcessedEvent(e, status, sent)
         PROVE  Backed'
    <2>1. status \in RowStatus
      BY DEF SchemaStatuses, RowStatus
    <2>2. UNCHANGED claims
      BY <1>10 DEF recordProcessedEvent
    <2>3. CASE ~Exists(e) /\ Store(e, NewRow(status, sent))
      <3>1. NewRow(status, sent) \in Row
        BY <2>1, NewRowType
      <3>2. \A f \in Events : \A r \in rows[f] :
              r.age <= Lease => \E s \in rows'[f] : s.age <= r.age
        BY <2>3, <3>1, Stored DEF Exists, TypeOK, Row
      <3> QED
        BY <1>2, <2>2, <3>2, YoungerBacks
    <2>4. ASSUME NEW row \in rows[e], Store(e, upserted(row, status))
          PROVE  Backed'
      <3>1. /\ upserted(row, status) \in Row
            /\ upserted(row, status).age = row.age
            /\ row.age \in Nat
        BY <2>1, UpsertedRow DEF TypeOK, Row
      <3>2. \A f \in Events : \A r \in rows[f] :
              r.age <= Lease => \E s \in rows'[f] : s.age <= r.age
        BY <2>4, <3>1, Stored DEF TypeOK, Row
      <3> QED
        BY <1>2, <2>2, <3>2, YoungerBacks
    <2> QED
      BY <1>10, <2>3, <2>4 DEF recordProcessedEvent
  <1>11. ASSUME NEW batch \in SUBSET Events, deleteBatch(batch)
         PROVE  Backed'
    <2>1. \A f \in Events : \A r \in rows[f] :
            r.age <= Lease => \E s \in rows'[f] : s.age <= r.age
      BY <1>11, EventClaimsAssumption DEF deleteBatch, expired, TypeOK, Row
    <2> QED
      BY <1>11, <1>2, <2>1, YoungerBacks DEF deleteBatch
  <1>12. ASSUME NEW w \in Workers, Crash(w)
         PROVE  Backed'
    BY <1>12, <1>4 DEF Crash, TypeOK, SameClaim
  <1>13. CASE Tick
    <2> SUFFICES ASSUME NEW w \in Workers, NEW new \in claims'[w], ~new.open,
                        new.age <= Lease
                 PROVE  \E r \in rows'[new.event] : r.age <= new.age
      BY DEF Backed
    <2>0. PICK c \in claims[w] : new = [c EXCEPT !.age = Capped(c.age, MaxAge)]
      BY <1>13 DEF Tick
    <2>1. c \in Claim /\ c.event \in Events /\ c.age \in 0..MaxAge
      BY DEF TypeOK, Claim
    <2>2. /\ new.age = Capped(c.age, MaxAge)
          /\ new.event = c.event
          /\ new.open = c.open
          /\ Capped(c.age, MaxAge) <= Lease
      BY <2>0, <2>1, AgedClaim, CappedType
    <2>3. c.age + 1 <= Lease /\ Capped(c.age, MaxAge) = c.age + 1
      BY <2>1, <2>2 DEF Capped
    <2>4. PICK r \in rows[c.event] : r.age <= c.age
      BY <2>1, <2>2, <2>3 DEF Backed
    <2>5. r \in Row /\ r.age \in 0..MaxAge
      BY <2>1 DEF TypeOK, Row
    <2>6. Capped(r.age, MaxAge) = r.age + 1 /\ r.age + 1 \in 0..MaxAge
      BY <2>1, <2>3, <2>4, <2>5 DEF Capped
    <2>7. [r EXCEPT !.age = Capped(r.age, MaxAge)] \in rows'[new.event]
      BY <1>13, <2>1, <2>2 DEF Tick
    <2>8. [r EXCEPT !.age = Capped(r.age, MaxAge)].age = Capped(r.age, MaxAge)
      BY <2>5, <2>6, AgedRow
    <2>9. [r EXCEPT !.age = Capped(r.age, MaxAge)].age <= new.age
      BY <2>1, <2>2, <2>3, <2>4, <2>5, <2>6, <2>8
    <2> WITNESS [r EXCEPT !.age = Capped(r.age, MaxAge)] \in rows'[new.event]
    <2> QED
      BY <2>9
  <1>14. ASSUME NEW w \in Workers, NEW e \in Events, claimEventFailsOpen(w, e)
         PROVE  Backed'
    <2>1. \A v \in Workers : \A c \in claims'[v] : c.open \/ c \in claims[v]
      BY <1>14 DEF claimEventFailsOpen, grant, TypeOK
    <2> QED
      BY <1>14, <2>1, <1>4 DEF claimEventFailsOpen, SameClaim
  <1> QED
    BY <1>5, <1>6, <1>7, <1>8, <1>9, <1>10, <1>11, <1>12, <1>13, <1>14
       DEF Next, completes, RowStatus


\* A claim is granted only when every claim on the event has outlived its lease.
LEMMA GrantStep ==
  ASSUME TypeOK, Backed,
         NEW w \in Workers, NEW e \in Events, claimEvent(w, e),
         NEW v \in Workers, NEW d \in claims[v], d.event = e, ~d.open
  PROVE  d.age > Lease
  <1>1. d.age \in 0..MaxAge
    BY DEF TypeOK, Claim
  <1>2. ~Exists(e) \/ \E row \in rows[e] : row.age > Lease
    BY DEF claimEvent, stale
  <1>3. \A r, s \in rows[e] : r = s
    BY DEF TypeOK
  <1>4. \A r \in rows[e] : r.age \in 0..MaxAge
    BY DEF TypeOK, Row
  <1>5. d.age <= Lease => \E row \in rows[e] : row.age <= d.age
    BY DEF Backed
  <1> QED
    BY <1>1, <1>2, <1>3, <1>4, <1>5, EventClaimsAssumption DEF Exists

\* d continues the claim c: the same event and way of being granted, and no
\* younger.
Older(c, d) == c.event = d.event /\ c.open = d.open /\ c.age <= d.age

Granted(w, e) == claims[w] = {} /\ e \in Events /\ claimEvent(w, e)

\* Claims only age, end, or move on from the UPDATE to the INSERT; a new one
\* starts at age 0 and is granted by claimEvent, or is open.
LEMMA ClaimOrigin ==
  ASSUME TypeOK, [Next]_vars,
         NEW v \in Workers, NEW d \in claims'[v]
  PROVE  \/ \E c \in claims[v] : Older(c, d)
         \/ Granted(v, d.event)
         \/ d.open
  <1> USE EventClaimsAssumption
  <1>1. \A c \in claims[v] : Older(c, c)
    BY DEF TypeOK, Claim, Older
  <1>2. ASSUME \A u \in Workers : claims'[u] \subseteq claims[u]
        PROVE  \E c \in claims[v] : Older(c, d)
    BY <1>1, <1>2
  <1>3. CASE UNCHANGED claims
    BY <1>2, <1>3
  <1>4. ASSUME NEW w \in Workers, claims' = [claims EXCEPT ![w] = {}]
        PROVE  \E c \in claims[v] : Older(c, d)
    BY <1>2, <1>4 DEF TypeOK
  <1>5. ASSUME NEW w \in Workers, NEW e \in Events, claimEvent(w, e)
        PROVE  \/ \E c \in claims[v] : Older(c, d)
               \/ Granted(v, d.event)
    <2>1. CASE v = w
      <3>1. d = [event |-> e, age |-> 0, phase |-> "working", open |-> FALSE]
        BY <1>5, <2>1 DEF claimEvent, grant, TypeOK
      <3>2. d.event = e
        BY <3>1
      <3> QED
        BY <1>5, <2>1, <3>2 DEF claimEvent, Granted
    <2>2. CASE v # w
      BY <1>1, <1>5, <2>2 DEF claimEvent, grant, TypeOK
    <2> QED
      BY <2>1, <2>2
  <1>6. ASSUME NEW w \in Workers, NEW c \in claims[w],
               claims' = [claims EXCEPT ![w] = {[c EXCEPT !.phase = "inserting"]}]
        PROVE  \E x \in claims[v] : Older(x, d)
    <2>1. Older(c, [c EXCEPT !.phase = "inserting"])
      BY DEF TypeOK, Claim, Older
    <2>2. CASE v = w
      BY <1>1, <1>6, <2>1, <2>2 DEF TypeOK
    <2>3. CASE v # w
      BY <1>1, <1>6, <2>3 DEF TypeOK
    <2> QED
      BY <2>2, <2>3
  <1>7. ASSUME NEW w \in Workers, NEW e \in Events, NEW status \in RowStatus,
               NEW sent \in BOOLEAN, completeEvent(w, e, status, sent)
        PROVE  \E c \in claims[v] : Older(c, d)
    <2>1. \/ claims' = [claims EXCEPT ![w] = {}]
          \/ \E c \in claims[w] :
                claims' = [claims EXCEPT ![w] = {[c EXCEPT !.phase = "inserting"]}]
      BY <1>7 DEF completeEvent
    <2> QED
      BY <2>1, <1>4, <1>6
  <1>8. CASE Tick
    <2>1. PICK c \in claims[v] : d = [c EXCEPT !.age = Capped(c.age, MaxAge)]
      BY <1>8 DEF Tick
    <2>2. c \in Claim /\ c.age \in 0..MaxAge
      BY DEF TypeOK, Claim
    <2>3. d.age = Capped(c.age, MaxAge) /\ d.event = c.event /\ d.open = c.open
      BY <2>1, <2>2, AgedClaim, CappedType
    <2>4. c.age <= Capped(c.age, MaxAge)
      BY <2>2 DEF Capped
    <2> QED
      BY <2>3, <2>4 DEF Older
  <1>9. ASSUME NEW w \in Workers, NEW e \in Events, claimEventFailsOpen(w, e)
        PROVE  (\E c \in claims[v] : Older(c, d)) \/ d.open
    BY <1>1, <1>9 DEF claimEventFailsOpen, grant, TypeOK
  <1> QED
    BY <1>3, <1>4, <1>5, <1>7, <1>8, <1>9
       DEF Next, vars, completes, RowStatus, completeEventInserts,
           recordRedetection, recordProcessedEvent, deleteBatch, Crash

\* ClaimsExclusive is preserved: claims only get older, and a new one is granted
\* when the others have outlived their leases.
LEMMA ExclusiveStep ==
  ASSUME TypeOK, Backed, ClaimsExclusive, [Next]_vars
  PROVE  ClaimsExclusive'
  <1> USE EventClaimsAssumption
  <1>1. TypeOK'
    BY TypeStep
  <1> SUFFICES ASSUME NEW w \in Workers, NEW v \in Workers, w # v,
                      NEW c \in claims'[w], NEW d \in claims'[v], c.event = d.event,
                      ~c.open, ~d.open
               PROVE  c.age > Lease \/ d.age > Lease
    BY DEF ClaimsExclusive
  <1>2. c.age \in Nat /\ d.age \in Nat
    BY <1>1 DEF TypeOK, Claim
  <1>3. ASSUME NEW x \in Workers, NEW y \in Workers, x # y,
               NEW a \in claims'[x], NEW b \in claims'[y], a.event = b.event,
               ~b.open, Granted(x, a.event)
        PROVE  b.age > Lease
    <2>1. b \in claims[y]
      BY <1>3 DEF Granted, claimEvent, grant, TypeOK
    <2> QED
      BY <1>3, <2>1, GrantStep DEF Granted
  <1>4. CASE Granted(w, c.event)
    BY <1>3, <1>4
  <1>5. CASE Granted(v, d.event)
    BY <1>3, <1>5
  <1>6. CASE (\E a \in claims[w] : Older(a, c)) /\ (\E b \in claims[v] : Older(b, d))
    <2>1. PICK a \in claims[w] : a.event = c.event /\ a.age <= c.age /\ ~a.open
      BY <1>6 DEF Older
    <2>2. PICK b \in claims[v] : b.event = d.event /\ b.age <= d.age /\ ~b.open
      BY <1>6 DEF Older
    <2>3. a.age \in Nat /\ b.age \in Nat
      BY DEF TypeOK, Claim
    <2>4. a.age > Lease \/ b.age > Lease
      BY <2>1, <2>2 DEF ClaimsExclusive
    <2> QED
      BY <1>2, <2>1, <2>2, <2>3, <2>4
  <1> QED
    BY <1>4, <1>5, <1>6, ClaimOrigin

(***************************************************************************)
(* The theorems                                                            *)
(***************************************************************************)

\* Every reachable table has at most one row per event, of the declared type,
\* and every worker at most one claim.
THEOREM TypeCorrect == Spec => []TypeOK
  <1>1. Init => TypeOK
    BY EventClaimsAssumption DEF Init, TypeOK
  <1> QED
    BY <1>1, TypeStep, PTL DEF Spec

\* Two workers that claimed one event in the table are at work on it only when
\* the lease of one of them has run out.
THEOREM ExclusiveCorrect == Spec => []ClaimsExclusive
  <1>1. Init => IInv
    BY EventClaimsAssumption DEF Init, TypeOK, Backed, ClaimsExclusive, IInv
  <1>2. IInv /\ [Next]_vars => IInv'
    BY TypeStep, BackedStep, ExclusiveStep DEF IInv
  <1>3. IInv => ClaimsExclusive
    BY DEF IInv
  <1> QED
    BY <1>1, <1>2, <1>3, PTL DEF Spec

(***************************************************************************)
(* What a step may do to completed rows                                    *)
(***************************************************************************)
Completed(row) == row.status # "PROCESSING"

\* later is what became of row: still completed, redetected no less often.
KeptAs(row, later) == Completed(later) /\ later.count >= row.count

\* What CompletedStays says of one event.
Stays(e) ==
  \A row \in rows[e] :
    Completed(row) =>
      \/ row.age > Retention /\ ~Exists(e)'
      \/ \E later \in rows'[e] : KeptAs(row, later)

\* The statements that write a completed status, or none.
LEMMA CompletedKept ==
  ASSUME NEW row \in Row, NEW status \in RowStatus, NEW sent \in BOOLEAN,
         status # "PROCESSING"
  PROVE  KeptAs(row, [row EXCEPT !.status = status, !.sent = sent, !.age = 0])
  <1>1. row.count \in Int /\ row.count >= row.count
    BY EventClaimsAssumption DEF Row
  <1>2. /\ [row EXCEPT !.status = status, !.sent = sent, !.age = 0].status = status
        /\ [row EXCEPT !.status = status, !.sent = sent, !.age = 0].count = row.count
    BY DEF Row
  <1> QED
    BY <1>1, <1>2 DEF KeptAs, Completed

LEMMA RedetectedKept ==
  ASSUME NEW row \in Row
  PROVE  redetected(row).status = row.status /\ redetected(row).count >= row.count
  <1> DEFINE n == Capped(row.count, MaxCount)
  <1>1. row.count \in 0..MaxCount /\ MaxCount \in Nat
    BY EventClaimsAssumption DEF Row
  <1>2. n >= row.count
    BY <1>1 DEF Capped
  <1>3. redetected(row) = [row EXCEPT !.reorg = TRUE, !.count = n]
    BY DEF redetected
  <1> HIDE DEF n
  <1>4. /\ [row EXCEPT !.reorg = TRUE, !.count = n].status = row.status
        /\ [row EXCEPT !.reorg = TRUE, !.count = n].count = n
    BY DEF Row
  <1> QED
    BY <1>2, <1>3, <1>4

LEMMA UpsertedKept ==
  ASSUME NEW row \in Row, NEW status \in SchemaStatuses
  PROVE  KeptAs(row, upserted(row, status))
  <1>1. redetected(row) \in Row /\ redetected(row).count >= row.count
    BY RedetectedRow, RedetectedKept
  <1>2. \A r \in Row : /\ [r EXCEPT !.status = status].status = status
                       /\ [r EXCEPT !.status = status].count = r.count
    BY DEF Row
  <1>3. upserted(row, status).status = status /\ upserted(row, status).count = redetected(row).count
    BY <1>1, <1>2 DEF upserted
  <1>4. status # "PROCESSING"
    BY DEF SchemaStatuses
  <1> QED
    BY <1>1, <1>3, <1>4 DEF KeptAs, Completed

LEMMA AgedKept ==
  ASSUME NEW row \in Row, NEW a, Completed(row)
  PROVE  KeptAs(row, [row EXCEPT !.age = a])
  <1>1. row.count \in Int /\ row.count >= row.count
    BY EventClaimsAssumption DEF Row
  <1>2. [row EXCEPT !.age = a].status = row.status /\ [row EXCEPT !.age = a].count = row.count
    BY DEF Row
  <1> QED
    BY <1>1, <1>2 DEF KeptAs, Completed

\* A row that nothing touches stays.
LEMMA SameKept ==
  ASSUME NEW row \in Row, Completed(row)
  PROVE  KeptAs(row, row)
  <1>1. row.count \in Int /\ row.count >= row.count
    BY EventClaimsAssumption DEF Row
  <1> QED
    BY <1>1 DEF KeptAs

LEMMA StaysStep ==
  ASSUME TypeOK, [Next]_vars, NEW e \in Events
  PROVE  Stays(e)
  <1> SUFFICES ASSUME NEW row \in rows[e], Completed(row)
               PROVE  \/ row.age > Retention /\ ~Exists(e)'
                      \/ \E later \in rows'[e] : KeptAs(row, later)
    BY DEF Stays
  <1>t. row \in Row /\ rows \in [Events -> SUBSET Row] /\ \A r \in rows[e] : r = row
    BY DEF TypeOK
  <1>0. CASE rows'[e] = rows[e]
    BY <1>0, <1>t, SameKept
  <1>1. ASSUME NEW d \in Events, NEW new, Store(d, new), d = e => KeptAs(row, new)
        PROVE  \E later \in rows'[e] : KeptAs(row, later)
    <2>1. CASE d = e
      <3>1. rows'[e] = {new}
        BY <1>1, <1>t, <2>1 DEF Store
      <3> QED
        BY <1>1, <2>1, <3>1
    <2>2. CASE d # e
      <3>1. rows'[e] = rows[e]
        BY <1>1, <1>t, <2>2 DEF Store
      <3> QED
        BY <1>t, <3>1, SameKept
    <2> QED
      BY <2>1, <2>2
  <1>2. ASSUME NEW w \in Workers, NEW d \in Events, claimEvent(w, d)
        PROVE  \E later \in rows'[e] : KeptAs(row, later)
    <2>1. d # e
      BY <1>2, <1>t DEF claimEvent, Exists, stale, Completed
    <2>2. rows'[e] = rows[e]
      BY <1>2, <1>t, <2>1 DEF claimEvent, Store
    <2> QED
      BY <1>t, <2>2, SameKept
  <1>3. ASSUME NEW w \in Workers, NEW d \in Events, NEW status \in {"PROCESSED", "ERROR"},
               NEW sent \in BOOLEAN, completeEvent(w, d, status, sent)
        PROVE  \E later \in rows'[e] : KeptAs(row, later)
    <2>1. ASSUME NEW r \in rows[d], Store(d, [r EXCEPT !.status = status, !.sent = sent, !.age = 0])
          PROVE  \E later \in rows'[e] : KeptAs(row, later)
      <3> DEFINE new == [r EXCEPT !.status = status, !.sent = sent, !.age = 0]
      <3>1. r \in Row /\ (d = e => r = row) /\ status \in RowStatus /\ status # "PROCESSING"
        BY <1>t DEF RowStatus
      <3>2. KeptAs(r, new)
        BY <3>1, CompletedKept
      <3>3. Store(d, new) /\ (d = e => KeptAs(row, new))
        BY <2>1, <3>1, <3>2
      <3> HIDE DEF new
      <3> QED
        BY <1>1, <3>3
    <2>2. CASE UNCHANGED rows
      BY <1>t, <2>2, SameKept
    <2> QED
      BY <1>3, <2>1, <2>2 DEF completeEvent
  <1>4. ASSUME NEW w \in Workers, NEW d \in Events, NEW status, NEW sent,
               completeEventInserts(w, d, status, sent)
        PROVE  \E later \in rows'[e] : KeptAs(row, later)
    <2>1. rows'[e] = rows[e]
      BY <1>4, <1>t DEF completeEventInserts, inserted, Exists
    <2> QED
      BY <1>t, <2>1, SameKept
  <1>5. ASSUME NEW d \in Events, recordRedetection(d)
        PROVE  \E later \in rows'[e] : KeptAs(row, later)
    <2>1. PICK r \in rows[d] : Store(d, redetected(r))
      BY <1>5 DEF recordRedetection
    <2>2. r \in Row /\ (d = e => r = row)
      BY <1>t
    <2>3. d = e => KeptAs(row, redetected(r))
      BY <2>2, RedetectedKept DEF KeptAs, Completed
    <2> QED
      BY <1>1, <2>1, <2>3
  <1>6. ASSUME NEW d \in Events, NEW status \in SchemaStatuses, NEW sent \in BOOLEAN,
               recordProcessedEvent(d, status, sent)
        PROVE  \E later \in rows'[e] : KeptAs(row, later)
    <2>1. CASE ~Exists(d) /\ Store(d, NewRow(status, sent))
      <3>1. d # e
        BY <2>1 DEF Exists
      <3> QED
        BY <1>1, <2>1, <3>1
    <2>2. ASSUME NEW r \in rows[d], Store(d, upserted(r, status))
          PROVE  \E later \in rows'[e] : KeptAs(row, later)
      <3>1. r \in Row /\ (d = e => r = row)
        BY <1>t
      <3>2. d = e => KeptAs(row, upserted(r, status))
        BY <3>1, UpsertedKept
      <3> QED
        BY <1>1, <2>2, <3>2
    <2> QED
      BY <1>6, <2>1, <2>2 DEF recordProcessedEvent
  <1>7. ASSUME NEW batch \in SUBSET Events, deleteBatch(batch)
        PROVE  \/ row.age > Retention /\ ~Exists(e)'
               \/ \E later \in rows'[e] : KeptAs(row, later)
    <2>1. rows'[e] = IF e \in batch THEN {r \in rows[e] : ~expired(r)} ELSE rows[e]
      BY <1>7 DEF deleteBatch
    <2>2. CASE rows'[e] = rows[e]
      BY <1>t, <2>2, SameKept
    <2>3. CASE rows'[e] = {r \in rows[e] : ~expired(r)} /\ ~expired(row)
      <3>1. row \in rows'[e]
        BY <2>3
      <3> QED
        BY <1>t, <3>1, SameKept
    <2>4. CASE rows'[e] = {r \in rows[e] : ~expired(r)} /\ expired(row)
      <3>1. rows'[e] = {}
        BY <1>t, <2>4
      <3> QED
        BY <2>4, <3>1 DEF Exists, expired
    <2> QED
      BY <2>1, <2>2, <2>3, <2>4
  <1>8. CASE Tick
    <2>1. [row EXCEPT !.age = Capped(row.age, MaxAge)] \in rows'[e]
      BY <1>8 DEF Tick
    <2>2. KeptAs(row, [row EXCEPT !.age = Capped(row.age, MaxAge)])
      BY <1>t, AgedKept
    <2> QED
      BY <2>1, <2>2
  <1>9. CASE UNCHANGED rows
    BY <1>0, <1>9
  <1>10. ASSUME NEW w \in Workers, NEW d \in Events, claimEventFailsOpen(w, d) \/ Crash(w)
         PROVE  rows'[e] = rows[e]
    BY <1>10 DEF claimEventFailsOpen, Crash
  <1> QED
    BY <1>0, <1>2, <1>3, <1>4, <1>5, <1>6, <1>7, <1>8, <1>9, <1>10 DEF Next, completes, vars, Crash

\* What CompletedNotClaimed says of one event and worker.
NotClaimed(e, w) ==
  (\E row \in rows[e] : Completed(row)) /\ claims[w] = {}
    => \A c \in claims'[w] : c.event # e \/ c.open

\* A claim comes from the upsert, which finds the only row completed.
LEMMA NotClaimedStep ==
  ASSUME TypeOK, [Next]_vars, NEW e \in Events, NEW w \in Workers
  PROVE  NotClaimed(e, w)
  <1> SUFFICES ASSUME NEW row \in rows[e], Completed(row), claims[w] = {},
                      NEW c \in claims'[w], c.event = e, ~c.open
               PROVE  FALSE
    BY DEF NotClaimed
  <1>1. claimEvent(w, e)
    BY ClaimOrigin DEF Granted
  <1>2. \A r \in rows[e] : r = row
    BY DEF TypeOK
  <1> QED
    BY <1>1, <1>2 DEF claimEvent, Exists, stale, Completed

\* A completed row never goes back to a claim and its redetection count never
\* falls, whatever workers, backfill and retention do in whatever order.
THEOREM CompletedStaysCorrect == Spec => CompletedStays
  <1>1. Spec => []TypeOK
    BY TypeCorrect
  <1>2. TypeOK /\ [Next]_vars => [\A e \in Events : Stays(e)]_vars
    BY StaysStep
  <1>3. [\A e \in Events : Stays(e)]_vars
        => [\A e \in Events : \A row \in rows[e] :
              row.status # "PROCESSING" =>
                \/ row.age > Retention /\ ~Exists(e)'
                \/ \E later \in rows'[e] :
                     later.status # "PROCESSING" /\ later.count >= row.count]_vars
    BY DEF Stays, Completed, KeptAs
  <1> QED
    BY <1>1, <1>2, <1>3, PTL DEF Spec, CompletedStays

\* Completed rows are never claimed again, however old they are, unless the
\* statement of the claim fails.
THEOREM NotClaimedCorrect == Spec => CompletedNotClaimed
  <1>1. Spec => []TypeOK
    BY TypeCorrect
  <1>2. TypeOK /\ [Next]_vars => [\A e \in Events, w \in Workers : NotClaimed(e, w)]_vars
    BY NotClaimedStep
  <1>3. [\A e \in Events, w \in Workers : NotClaimed(e, w)]_vars
        => [\A e \in Events, w \in Workers :
             (\E row \in rows[e] : row.status # "PROCESSING") /\ claims[w] = {}
                => \A c \in claims'[w] : c.event # e \/ c.open]_vars
    BY DEF NotClaimed, Completed
  <1> QED
    BY <1>1, <1>2, <1>3, PTL DEF Spec, CompletedNotClaimed
=============================================================================
