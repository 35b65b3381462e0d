-------------------- MODULE NotificationLifecycleProofs --------------------
(***************************************************************************)
(* Proofs about NotificationLifecycle for every set of ids and users,      *)
(* every lifetime limit and batch size, and any way to derive keys.        *)
(***************************************************************************)
EXTENDS NotificationLifecycle, FiniteSetTheorems, TLAPS

(***************************************************************************)
(* Counting the records of the audit log                                   *)
(***************************************************************************)

\* Where a log has an action for an id, and how often.
Positions(log, id, action) ==
    {k \in DOMAIN log : log[k].id = id /\ log[k].action = action}

Count(log, id, action) == Cardinality(Positions(log, id, action))

\* A log has finitely many records of a kind.
LEMMA PositionsFinite ==
  ASSUME NEW log \in Seq(AuditRecord), NEW id, NEW action
  PROVE  IsFiniteSet(Positions(log, id, action)) /\ Count(log, id, action) \in Nat
  <1>1. Positions(log, id, action) \subseteq 1..Len(log)
    BY DEF Positions
  <1>2. IsFiniteSet(1..Len(log))
    BY FS_Interval
  <1> QED
    BY <1>1, <1>2, FS_Subset, FS_CardinalityType DEF Count

\* A record appended to the log counts once for its own id and action, and not
\* for any other.
LEMMA AppendCount ==
  ASSUME NEW log \in Seq(AuditRecord), NEW rec \in AuditRecord, NEW id, NEW action
  PROVE  Count(Append(log, rec), id, action) =
            Count(log, id, action) + (IF rec.id = id /\ rec.action = action THEN 1 ELSE 0)
  <1> DEFINE last == Len(log) + 1
  <1>1. /\ Append(log, rec) \in Seq(AuditRecord)
        /\ DOMAIN Append(log, rec) = DOMAIN log \cup {last}
        /\ \A k \in DOMAIN log : Append(log, rec)[k] = log[k]
        /\ Append(log, rec)[last] = rec
        /\ last \notin DOMAIN log
    OBVIOUS
  <1>2. IsFiniteSet(Positions(log, id, action)) /\ Count(log, id, action) \in Nat
    BY PositionsFinite
  <1>3. last \notin Positions(log, id, action)
    BY <1>1 DEF Positions
  <1>4. CASE rec.id = id /\ rec.action = action
    <2>1. Positions(Append(log, rec), id, action) = Positions(log, id, action) \cup {last}
      BY <1>1, <1>4 DEF Positions
    <2>2. Cardinality(Positions(log, id, action) \cup {last})
            = Cardinality(Positions(log, id, action)) + 1
      BY <1>2, <1>3, FS_AddElement
    <2> QED
      BY <1>4, <2>1, <2>2 DEF Count
  <1>5. CASE ~(rec.id = id /\ rec.action = action)
    <2>1. Positions(Append(log, rec), id, action) = Positions(log, id, action)
      BY <1>1, <1>5 DEF Positions
    <2> QED
      BY <1>2, <1>5, <2>1 DEF Count
  <1> QED
    BY <1>4, <1>5

\* Where a concatenation of logs has the elements of its parts.
LEMMA Concatenation ==
  ASSUME NEW s \in Seq(AuditRecord), NEW t \in Seq(AuditRecord)
  PROVE  /\ s \o t \in Seq(AuditRecord)
         /\ DOMAIN (s \o t) = 1..(Len(s) + Len(t))
         /\ \A k \in 1..Len(s) : (s \o t)[k] = s[k]
         /\ \A k \in 1..Len(t) : (s \o t)[Len(s) + k] = t[k]
  OBVIOUS

\* `new` records the creation of the ids of a batch, in their order.
CreatedRecords(new, ids) ==
    /\ new \in Seq(AuditRecord)
    /\ Len(new) = Len(ids)
    /\ \A k \in 1..Len(ids) : new[k].id = ids[k] /\ new[k].action = "Created"

\* A batch of Created records, one per id, counts once for each of its ids.
LEMMA BatchCount ==
  ASSUME NEW log \in Seq(AuditRecord), NEW ids \in Seq(Ids), IsInjective(ids),
         NEW new, CreatedRecords(new, ids), NEW id \in Ids, NEW action \in AuditAction
  PROVE  /\ log \o new \in Seq(AuditRecord)
         /\ Count(log \o new, id, action) =
              Count(log, id, action) +
                (IF id \in Range(ids) /\ action = "Created" THEN 1 ELSE 0)
  <1> DEFINE n == Len(ids)
  <1>1. /\ log \o new \in Seq(AuditRecord)
        /\ DOMAIN (log \o new) = 1..(Len(log) + n)
        /\ \A k \in 1..Len(log) : (log \o new)[k] = log[k]
        /\ \A k \in 1..n : (log \o new)[Len(log) + k] = new[k]
    <2>1. new \in Seq(AuditRecord) /\ Len(new) = n
      BY DEF CreatedRecords
    <2>2. /\ log \o new \in Seq(AuditRecord)
          /\ DOMAIN (log \o new) = 1..(Len(log) + Len(new))
          /\ \A k \in 1..Len(log) : (log \o new)[k] = log[k]
          /\ \A k \in 1..Len(new) : (log \o new)[Len(log) + k] = new[k]
      BY <2>1, Concatenation
    <2> HIDE DEF n
    <2>3. 1..Len(new) = 1..n /\ 1..(Len(log) + Len(new)) = 1..(Len(log) + n)
      BY <2>1
    <2> QED
      BY <2>2, <2>3
  <1>2. IsFiniteSet(Positions(log, id, action)) /\ Count(log, id, action) \in Nat
    BY PositionsFinite
  <1>3. ASSUME NEW j \in DOMAIN (log \o new), j \notin 1..Len(log)
        PROVE  j - Len(log) \in 1..n /\ (log \o new)[j] = new[j - Len(log)]
    <2>1. j - Len(log) \in 1..n
      BY <1>1, <1>3
    <2>2. (log \o new)[Len(log) + (j - Len(log))] = new[j - Len(log)]
      BY <1>1, <2>1
    <2>3. Len(log) + (j - Len(log)) = j
      BY <1>1
    <2> QED
      BY <2>1, <2>2, <2>3
  <1>4. \A k \in 1..n : new[k].id = ids[k] /\ new[k].action = "Created"
    BY DEF CreatedRecords
  <1>5. CASE id \in Range(ids) /\ action = "Created"
    <2>1. PICK k \in 1..n : ids[k] = id
      BY <1>5 DEF Range
    <2>2. \A l \in 1..n : ids[l] = id => l = k
      BY <2>1 DEF IsInjective
    <2>3. Len(log) + k \in DOMAIN (log \o new)
      BY <1>1
    <2>4. Positions(log \o new, id, action) = Positions(log, id, action) \cup {Len(log) + k}
      <3>1. ASSUME NEW j \in Positions(log \o new, id, action), j \notin 1..Len(log)
            PROVE  j = Len(log) + k
        <4>1. j \in DOMAIN (log \o new) /\ (log \o new)[j].id = id
          BY DEF Positions
        <4>2. j - Len(log) \in 1..n /\ new[j - Len(log)].id = id
          BY <1>3, <3>1, <4>1
        <4>3. j - Len(log) = k
          BY <1>4, <2>2, <4>2
        <4>4. j \in Nat /\ Len(log) \in Nat
          BY <1>1, <4>1
        <4> QED
          BY <4>3, <4>4
      <3>2. ASSUME NEW j \in Positions(log \o new, id, action), j \in 1..Len(log)
            PROVE  j \in Positions(log, id, action)
        BY <1>1, <3>2 DEF Positions
      <3>3. Len(log) + k \in Positions(log \o new, id, action)
        BY <1>1, <1>5, <1>4, <2>1, <2>3 DEF Positions
      <3>4. Positions(log, id, action) \subseteq Positions(log \o new, id, action)
        BY <1>1 DEF Positions
      <3> QED
        BY <3>1, <3>2, <3>3, <3>4
    <2>5. Len(log) + k \notin Positions(log, id, action)
      BY DEF Positions
    <2>6. Cardinality(Positions(log, id, action) \cup {Len(log) + k})
            = Cardinality(Positions(log, id, action)) + 1
      BY <1>2, <2>5, FS_AddElement
    <2> QED
      BY <1>1, <1>5, <2>4, <2>6 DEF Count
  <1>6. CASE ~(id \in Range(ids) /\ action = "Created")
    <2>1. Positions(log \o new, id, action) = Positions(log, id, action)
      <3>1. ASSUME NEW j \in Positions(log \o new, id, action)
            PROVE  j \in Positions(log, id, action)
        <4>1. j \in 1..Len(log)
          BY <1>3, <1>6, <1>4 DEF Positions, Range
        <4> QED
          BY <1>1, <4>1 DEF Positions
      <3>2. Positions(log, id, action) \subseteq Positions(log \o new, id, action)
        BY <1>1 DEF Positions
      <3> QED
        BY <3>1, <3>2
    <2> QED
      BY <1>1, <1>2, <1>6, <2>1 DEF Count
  <1> QED
    BY <1>5, <1>6

(***************************************************************************)
(* The steps                                                               *)
(***************************************************************************)

\* A record within its lifetime limit.
Within(n) == /\ n \in Notification
             /\ n.created_at <= now
             /\ n.expires_at > n.created_at
             /\ n.expires_at - n.created_at <= MaxLifetime

\* A tracked notification is within its lifetime limit.
LEMMA TrackedWithin ==
  ASSUME TypeOK, NEW id \in Ids, tracked(id)
  PROVE  Within(notifications[id])
  BY DEF TypeOK, tracked, Within

\* A record as the calls that schedule build it.
LEMMA ScheduledType ==
  ASSUME TypeOK, NEW creator \in Users, NEW ttl \in Durations, validDuration(ttl)
  PROVE  Within(Scheduled(creator, ttl))
  BY LifecycleAssumption DEF TypeOK, Within, Scheduled, Notification, Durations, validDuration

\* The records that recall, revoke and extend put back.
LEMMA RewrittenType ==
  ASSUME NEW n, Within(n)
  PROVE  /\ Within([n EXCEPT !.recalled = TRUE])
         /\ Within([n EXCEPT !.revoked = TRUE])
  BY DEF Within, Notification

\* The record an extension puts back, when its total lifetime is allowed.
LEMMA ExtendedType ==
  ASSUME TypeOK, NEW n, Within(n), NEW extension \in Durations, 0 < extension,
         extensionAllowed(n, extension)
  PROVE  Within([n EXCEPT !.expires_at = @ + extension])
  <1> DEFINE later == n.expires_at + extension
  <1>1. /\ later \in 0..(MaxTime + MaxLifetime)
        /\ later > n.created_at
        /\ later - n.created_at <= MaxLifetime
    BY LifecycleAssumption DEF TypeOK, Within, Notification, Durations, extensionAllowed
  <1>2. [n EXCEPT !.expires_at = @ + extension] = [n EXCEPT !.expires_at = later]
    OBVIOUS
  <1> HIDE DEF later
  <1>3. Within([n EXCEPT !.expires_at = later])
    BY <1>1 DEF Within, Notification
  <1> QED
    BY <1>2, <1>3

\* TypeOK without the ledger time, over any active storage, archive and log.
StoresOK(n, a, log) ==
    /\ n \in [Ids -> Notification \cup {NotTracked}]
    /\ \A id \in Ids : n[id] # NotTracked => Within(n[id])
    /\ a \in [Ids -> Archived \cup {NotTracked}]
    /\ log \in Seq(AuditRecord)

\* Putting a record within its limit into active storage keeps it well-formed.
LEMMA PutType ==
  ASSUME TypeOK, NEW id \in Ids, NEW n, Within(n),
         notifications' = [notifications EXCEPT ![id] = n]
  PROVE  /\ notifications' \in [Ids -> Notification \cup {NotTracked}]
         /\ \A i \in Ids : notifications'[i] # NotTracked => Within(notifications'[i])
         /\ notifications'[id] # NotTracked
  BY LifecycleAssumption, TrackedWithin DEF TypeOK, tracked, Within

\* So does moving a record from there into the archive.
LEMMA RemoveType ==
  ASSUME TypeOK, NEW id \in Ids, tracked(id), remove(id),
         NEW reason \in {"expired", "cancelled", "delivered"}, archive_notification(id, reason)
  PROVE  /\ notifications' \in [Ids -> Notification \cup {NotTracked}]
         /\ \A i \in Ids : notifications'[i] # NotTracked => Within(notifications'[i])
         /\ archive' \in [Ids -> Archived \cup {NotTracked}]
  <1> DEFINE copy == [creator |-> notifications[id].creator,
                      created_at |-> notifications[id].created_at,
                      expires_at |-> notifications[id].expires_at, reason |-> reason]
  <1>1. notifications[id] \in Notification
    BY TrackedWithin DEF Within
  <1>2. copy \in Archived
    BY <1>1 DEF Notification, Archived
  <1>3. archive' = [archive EXCEPT ![id] = copy]
    BY DEF archive_notification
  <1> HIDE DEF copy
  <1>4. archive' \in [Ids -> Archived \cup {NotTracked}]
    BY <1>2, <1>3 DEF TypeOK
  <1> QED
    BY <1>4, TrackedWithin DEF TypeOK, remove, tracked

\* An appended record keeps the log a sequence of records.
LEMMA AppendType ==
  ASSUME TypeOK, NEW id \in Ids, NEW action \in AuditAction,
         NEW actor \in Users \cup {Contract}, append_audit_record(id, action, actor)
  PROVE  /\ [id |-> id, action |-> action, actor |-> actor] \in AuditRecord
         /\ auditLog' = Append(auditLog, [id |-> id, action |-> action, actor |-> actor])
         /\ auditLog' \in Seq(AuditRecord)
  <1> DEFINE rec == [id |-> id, action |-> action, actor |-> actor]
  <1>1. rec \in AuditRecord
    BY DEF AuditRecord
  <1>2. auditLog' = Append(auditLog, rec)
    BY DEF append_audit_record, append
  <1> HIDE DEF rec
  <1>3. auditLog' \in Seq(AuditRecord)
    BY <1>1, <1>2 DEF TypeOK
  <1> QED
    BY <1>1, <1>2, <1>3 DEF rec

\* TypeOK is inductive.
LEMMA TypeStep ==
  ASSUME TypeOK, [Next]_vars
  PROVE  TypeOK'
  <1> USE LifecycleAssumption
  <1>1. ASSUME UNCHANGED now, UNCHANGED admin, UNCHANGED delivery,
               StoresOK(notifications', archive', auditLog')
        PROVE  TypeOK'
    BY <1>1 DEF TypeOK, StoresOK, Within, tracked, admin, delivery
  <1>2. StoresOK(notifications, archive, auditLog)
    BY TrackedWithin DEF TypeOK, StoresOK, tracked
  <1>3. CASE UNCHANGED vars
    BY <1>1, <1>2, <1>3 DEF vars
  <1>4. CASE Tick
    BY <1>4 DEF Tick, TypeOK, tracked, admin, delivery, Notification
  <1>5. CASE register_category \/ pause \/ unpause
    BY <1>5 DEF register_category, pause, unpause, TypeOK, tracked, delivery
  <1>6. ASSUME NEW id \in Ids, NEW u \in Users, NEW d \in Durations,
               schedule_notification(id, u, d)
        PROVE  TypeOK'
    <2>1. Within(Scheduled(u, d))
      BY <1>6, ScheduledType DEF schedule_notification
    <2>2. auditLog' \in Seq(AuditRecord)
      BY <1>6, AppendType DEF schedule_notification, AuditAction
    <2>3. StoresOK(notifications', archive', auditLog')
      BY <1>2, <1>6, <2>1, <2>2, PutType DEF schedule_notification, StoresOK
    <2> QED
      BY <1>1, <1>6, <2>3 DEF schedule_notification
  <1>7. ASSUME NEW id \in Ids, NEW u \in Users, NEW new, Within(new), rewrite(id, u, new)
        PROVE  TypeOK'
    <2>1. StoresOK(notifications', archive', auditLog')
      BY <1>2, <1>7, PutType DEF rewrite, StoresOK
    <2> QED
      BY <1>1, <1>7, <2>1 DEF rewrite
  <1>8. ASSUME NEW id \in Ids, NEW u \in Users, recall_notification(id, u)
        PROVE  TypeOK'
    BY <1>7, <1>8, TrackedWithin, RewrittenType DEF recall_notification, rewrite
  <1>9. ASSUME NEW id \in Ids, NEW u \in Users, revoke_notification(id, u)
        PROVE  TypeOK'
    BY <1>7, <1>9, TrackedWithin, RewrittenType DEF revoke_notification, rewrite
  <1>10. ASSUME NEW id \in Ids, NEW u \in Users, NEW d \in Durations,
                extend_notification_expiry(id, u, d)
         PROVE  TypeOK'
    <2>1. Within(notifications[id])
      BY <1>10, TrackedWithin DEF extend_notification_expiry
    <2>2. Within([notifications[id] EXCEPT !.expires_at = @ + d])
      BY <1>10, <2>1, ExtendedType DEF extend_notification_expiry
    <2> QED
      BY <1>7, <1>10, <2>2 DEF extend_notification_expiry
  <1>11. ASSUME NEW id \in Ids, NEW u \in Users, cancel_notification(id, u)
         PROVE  TypeOK'
    <2>1. auditLog' \in Seq(AuditRecord)
      BY <1>11, AppendType DEF cancel_notification, AuditAction
    <2>2. CASE tracked(id)
      <3>1. remove(id) /\ archive_notification(id, "cancelled")
        BY <1>11, <2>2 DEF cancel_notification
      <3>2. StoresOK(notifications', archive', auditLog')
        BY <2>1, <2>2, <3>1, RemoveType DEF StoresOK
      <3> QED
        BY <1>1, <1>11, <3>2 DEF cancel_notification
    <2>3. CASE ~tracked(id)
      <3>1. StoresOK(notifications', archive', auditLog')
        BY <1>2, <1>11, <2>1, <2>3 DEF cancel_notification, StoresOK
      <3> QED
        BY <1>1, <1>11, <3>1 DEF cancel_notification
    <2> QED
      BY <2>2, <2>3
  <1>12. ASSUME NEW id \in Ids, expire_notification(id)
         PROVE  TypeOK'
    <2>1. auditLog' \in Seq(AuditRecord)
      BY <1>12, AppendType DEF expire_notification, AuditAction
    <2>2. StoresOK(notifications', archive', auditLog')
      BY <1>12, <2>1, RemoveType DEF expire_notification, StoresOK
    <2> QED
      BY <1>1, <1>12, <2>2 DEF expire_notification
  <1>13. ASSUME NEW id \in Ids, NEW u \in Users, confirm_notification_delivery(id, u)
         PROVE  TypeOK'
    <2>1. StoresOK(notifications', archive', auditLog')
      BY <1>2, <1>13, RemoveType DEF confirm_notification_delivery, StoresOK
    <2>2. deliverySeq' \in 0..MaxDeliveries /\ deliverySeq \in 0..MaxDeliveries
      BY <1>13 DEF confirm_notification_delivery, TypeOK
    <2>3. deliveryKeys' \subseteq Keys
      BY <1>13, <2>2 DEF confirm_notification_delivery, delivery_idempotency_key, TypeOK
    <2>4. deliveries' \in [Ids -> Nat]
      BY <1>13 DEF confirm_notification_delivery, TypeOK
    <2> QED
      BY <1>13, <2>1, <2>2, <2>3, <2>4
         DEF confirm_notification_delivery, TypeOK, StoresOK, Within, tracked, admin
  <1>14. ASSUME NEW id \in Ids, NEW u \in Users,
                NEW action \in {"DeliveryAttempt", "DeliveryFailed", "Acknowledged"},
                record(id, action, u)
         PROVE  TypeOK'
    <2>1. auditLog' \in Seq(AuditRecord)
      <3>1. append_audit_record(id, action, u)
        BY <1>14 DEF record
      <3>2. action \in AuditAction /\ u \in Users \cup {Contract}
        BY DEF AuditAction
      <3> QED
        BY <3>1, <3>2, AppendType
    <2>2. StoresOK(notifications', archive', auditLog')
      BY <1>2, <1>14, <2>1 DEF record, StoresOK
    <2> QED
      BY <1>1, <1>14, <2>2 DEF record
  <1>15. ASSUME NEW ids \in Batches, NEW u \in Users, batch_schedule_notifications(ids, u)
         PROVE  TypeOK'
    <2>1. PICK n \in Nat : ids \in [1..n -> Ids]
      BY DEF Batches
    <2>2. auditLog' \in Seq(AuditRecord)
      <3>1. \A k \in 1..n : [id |-> ids[k], action |-> "Created", actor |-> u] \in AuditRecord
        BY <2>1 DEF AuditRecord, AuditAction
      <3>2. [k \in DOMAIN ids |-> [id |-> ids[k], action |-> "Created", actor |-> u]]
               \in Seq(AuditRecord)
        BY <2>1, <3>1
      <3> QED
        BY <1>15, <3>2 DEF batch_schedule_notifications, TypeOK
    <2>3. PICK ttls \in [Range(ids) -> Durations] :
            /\ \A id \in Range(ids) : validDuration(ttls[id])
            /\ notifications' = [id \in Ids |->
                 IF id \in Range(ids) THEN Scheduled(u, ttls[id]) ELSE notifications[id]]
      BY <1>15 DEF batch_schedule_notifications
    <2>4. \A id \in Range(ids) : Within(Scheduled(u, ttls[id]))
      BY <2>3, ScheduledType
    <2>5. \A id \in Range(ids) : Scheduled(u, ttls[id]) \in Notification
      BY <2>4 DEF Within
    <2>6. notifications' \in [Ids -> Notification \cup {NotTracked}]
      BY <2>3, <2>5 DEF TypeOK
    <2>7. \A id \in Ids : notifications'[id] # NotTracked => Within(notifications'[id])
      BY <2>3, <2>4, TrackedWithin DEF tracked
    <2>8. StoresOK(notifications', archive', auditLog')
      BY <1>2, <1>15, <2>2, <2>6, <2>7 DEF batch_schedule_notifications, StoresOK
    <2> QED
      BY <1>1, <1>15, <2>8 DEF batch_schedule_notifications
  <1> QED
    BY <1>3, <1>4, <1>5, <1>6, <1>8, <1>9, <1>10, <1>11, <1>12, <1>13, <1>14, <1>15 DEF Next

\* TypeOK holds: in particular no extension takes a lifetime past the maximum.
THEOREM TypeCorrect == Spec => []TypeOK
  <1>1. Init => TypeOK
    <2>1. 0 \in 0..MaxTime /\ 0 \in 0..MaxDeliveries
      BY LifecycleAssumption
    <2>2. Init => /\ notifications \in [Ids -> Notification \cup {NotTracked}]
                  /\ archive \in [Ids -> Archived \cup {NotTracked}]
                  /\ \A id \in Ids : ~tracked(id)
      BY DEF Init, tracked
    <2>3. Init => auditLog \in Seq(AuditRecord) /\ deliveries \in [Ids -> Nat]
      BY DEF Init
    <2> QED
      BY <2>1, <2>2, <2>3 DEF Init, TypeOK
  <1>2. TypeOK /\ [Next]_vars => TypeOK'
    BY TypeStep
  <1> QED
    BY <1>1, <1>2, PTL DEF Spec

(***************************************************************************)
(* The audit log                                                           *)
(***************************************************************************)

\* AuditBalance for one id, of any log, active storage and delivery count.
Balanced(log, n, d, id) ==
    LET left == Count(log, id, "Created") - Count(log, id, "Expired") - d[id]
                    - (IF n[id] # NotTracked THEN 1 ELSE 0)
    IN 0 <= left /\ left <= Count(log, id, "Cancelled")

\* AuditBalance is Balanced for every id.
LEMMA BalanceOfIds ==
  AuditBalance <=> \A id \in Ids : Balanced(auditLog, notifications, deliveries, id)
  BY DEF AuditBalance, Balanced, Logged, Count, Positions, tracked

\* An appended record raises one count, that of its own id and action.
LEMMA AppendedCounts ==
  ASSUME TypeOK, NEW id \in Ids, NEW action \in AuditAction,
         NEW actor \in Users \cup {Contract}, append_audit_record(id, action, actor),
         NEW i \in Ids, NEW a \in AuditAction
  PROVE  /\ Count(auditLog, i, a) \in Nat
         /\ Count(auditLog', i, a) =
              Count(auditLog, i, a) + (IF i = id /\ a = action THEN 1 ELSE 0)
  <1> DEFINE rec == [id |-> id, action |-> action, actor |-> actor]
  <1>1. rec \in AuditRecord /\ auditLog' = Append(auditLog, rec)
    BY AppendType
  <1>2. rec.id = id /\ rec.action = action
    OBVIOUS
  <1> HIDE DEF rec
  <1>3. auditLog \in Seq(AuditRecord)
    BY DEF TypeOK
  <1>4. Count(Append(auditLog, rec), i, a) =
          Count(auditLog, i, a) + (IF rec.id = i /\ rec.action = a THEN 1 ELSE 0)
    BY <1>1, <1>3, AppendCount
  <1>5. Count(auditLog, i, a) \in Nat
    BY <1>3, PositionsFinite
  <1> QED
    BY <1>1, <1>2, <1>4, <1>5

\* The records a batch appends.
BatchRecords(ids, u) ==
    [k \in DOMAIN ids |-> [id |-> ids[k], action |-> "Created", actor |-> u]]

\* They are audit records that name the ids of the batch.
LEMMA BatchRecordsType ==
  ASSUME NEW ids \in Seq(Ids), NEW u \in Users
  PROVE  CreatedRecords(BatchRecords(ids, u), ids)
  <1>1. \A k \in 1..Len(ids) : [id |-> ids[k], action |-> "Created", actor |-> u] \in AuditRecord
    BY DEF AuditRecord, AuditAction
  <1> QED
    BY <1>1 DEF BatchRecords, CreatedRecords

\* AuditBalance is inductive relative to TypeOK.
LEMMA BalanceStep ==
  ASSUME TypeOK, AuditBalance, [Next]_vars, NEW i \in Ids
  PROVE  Balanced(auditLog', notifications', deliveries', i)
  <1> USE LifecycleAssumption
  <1> DEFINE count(a) == Count(auditLog, i, a)
  <1> DEFINE count2(a) == Count(auditLog', i, a)
  <1>1. Balanced(auditLog, notifications, deliveries, i)
    BY BalanceOfIds
  <1>2. /\ count("Created") \in Nat /\ count("Expired") \in Nat /\ count("Cancelled") \in Nat
        /\ deliveries[i] \in Nat
    BY PositionsFinite DEF TypeOK
  <1>3. {"Created", "Expired", "Cancelled"} \subseteq AuditAction
    BY DEF AuditAction
  <1>4. ASSUME auditLog' = auditLog, deliveries' = deliveries,
               notifications'[i] # NotTracked <=> notifications[i] # NotTracked
        PROVE  Balanced(auditLog', notifications', deliveries', i)
    BY <1>1, <1>4 DEF Balanced
  <1>5. CASE UNCHANGED vars \/ Tick \/ register_category \/ pause \/ unpause
    BY <1>4, <1>5 DEF vars, delivery, Tick, register_category, pause, unpause
  <1>6. ASSUME NEW id \in Ids, NEW u \in Users, NEW d \in Durations,
               schedule_notification(id, u, d)
        PROVE  Balanced(auditLog', notifications', deliveries', i)
    <2>1. \A a \in {"Created", "Expired", "Cancelled"} :
            count2(a) = count(a) + (IF i = id /\ a = "Created" THEN 1 ELSE 0)
      BY <1>3, <1>6, AppendedCounts DEF schedule_notification
    <2>2. Within(Scheduled(u, d))
      BY <1>6, ScheduledType DEF schedule_notification
    <2>3. notifications'[id] # NotTracked /\ notifications[id] = NotTracked
      BY <1>6, <2>2, PutType DEF schedule_notification, tracked
    <2>4. i # id => notifications'[i] = notifications[i]
      BY <1>6 DEF schedule_notification, TypeOK
    <2>5. deliveries' = deliveries
      BY <1>6 DEF schedule_notification, delivery
    <2> QED
      BY <1>1, <1>2, <2>1, <2>3, <2>4, <2>5 DEF Balanced
  <1>7. ASSUME NEW id \in Ids, NEW u \in Users, NEW new, Within(new), rewrite(id, u, new)
        PROVE  Balanced(auditLog', notifications', deliveries', i)
    <2>1. notifications'[id] # NotTracked /\ notifications[id] # NotTracked
      BY <1>7, PutType DEF rewrite, tracked
    <2>2. i # id => notifications'[i] = notifications[i]
      BY <1>7 DEF rewrite, TypeOK
    <2> QED
      BY <1>4, <1>7, <2>1, <2>2 DEF rewrite, delivery
  <1>8. ASSUME NEW id \in Ids, NEW u \in Users,
               recall_notification(id, u) \/ revoke_notification(id, u)
        PROVE  Balanced(auditLog', notifications', deliveries', i)
    BY <1>7, <1>8, TrackedWithin, RewrittenType
       DEF recall_notification, revoke_notification, rewrite
  <1>9. ASSUME NEW id \in Ids, NEW u \in Users, NEW d \in Durations,
               extend_notification_expiry(id, u, d)
        PROVE  Balanced(auditLog', notifications', deliveries', i)
    <2>1. Within([notifications[id] EXCEPT !.expires_at = @ + d])
      BY <1>9, TrackedWithin, ExtendedType DEF extend_notification_expiry
    <2> QED
      BY <1>7, <1>9, <2>1 DEF extend_notification_expiry
  <1>10. ASSUME NEW id \in Ids, NEW u \in Users, cancel_notification(id, u)
         PROVE  Balanced(auditLog', notifications', deliveries', i)
    <2>1. \A a \in {"Created", "Expired", "Cancelled"} :
            count2(a) = count(a) + (IF i = id /\ a = "Cancelled" THEN 1 ELSE 0)
      BY <1>3, <1>10, AppendedCounts DEF cancel_notification
    <2>2. i # id => notifications'[i] = notifications[i]
      BY <1>10 DEF cancel_notification, remove, TypeOK
    <2>3. notifications'[i] # NotTracked => notifications[i] # NotTracked
      BY <1>10 DEF cancel_notification, remove, TypeOK
    <2>4. deliveries' = deliveries
      BY <1>10 DEF cancel_notification, delivery
    <2> QED
      BY <1>1, <1>2, <2>1, <2>2, <2>3, <2>4 DEF Balanced
  <1>11. ASSUME NEW id \in Ids, expire_notification(id)
         PROVE  Balanced(auditLog', notifications', deliveries', i)
    <2>1. \A a \in {"Created", "Expired", "Cancelled"} :
            count2(a) = count(a) + (IF i = id /\ a = "Expired" THEN 1 ELSE 0)
      BY <1>3, <1>11, AppendedCounts DEF expire_notification
    <2>2. i # id => notifications'[i] = notifications[i]
      BY <1>11 DEF expire_notification, remove, TypeOK
    <2>3. notifications'[id] = NotTracked /\ notifications[id] # NotTracked
      BY <1>11 DEF expire_notification, remove, tracked, TypeOK
    <2>4. deliveries' = deliveries
      BY <1>11 DEF expire_notification, delivery
    <2> QED
      BY <1>1, <1>2, <2>1, <2>2, <2>3, <2>4 DEF Balanced
  <1>12. ASSUME NEW id \in Ids, NEW u \in Users, confirm_notification_delivery(id, u)
         PROVE  Balanced(auditLog', notifications', deliveries', i)
    <2>1. auditLog' = auditLog
      BY <1>12 DEF confirm_notification_delivery
    <2>2. /\ i # id => notifications'[i] = notifications[i]
          /\ notifications'[id] = NotTracked /\ notifications[id] # NotTracked
      BY <1>12 DEF confirm_notification_delivery, remove, tracked, TypeOK
    <2>3. deliveries'[i] = deliveries[i] + (IF i = id THEN 1 ELSE 0)
      BY <1>12, <1>2 DEF confirm_notification_delivery, TypeOK
    <2> QED
      BY <1>1, <1>2, <2>1, <2>2, <2>3 DEF Balanced
  <1>13. ASSUME NEW id \in Ids, NEW u \in Users,
                NEW action \in {"DeliveryAttempt", "DeliveryFailed", "Acknowledged"},
                record(id, action, u)
         PROVE  Balanced(auditLog', notifications', deliveries', i)
    <2>1. append_audit_record(id, action, u)
      BY <1>13 DEF record
    <2>2. action \in AuditAction /\ u \in Users \cup {Contract}
      BY DEF AuditAction
    <2>3. \A a \in {"Created", "Expired", "Cancelled"} : count2(a) = count(a)
      BY <1>3, <2>1, <2>2, AppendedCounts
    <2>4. notifications' = notifications /\ deliveries' = deliveries
      BY <1>13 DEF record, delivery
    <2> QED
      BY <1>1, <2>3, <2>4 DEF Balanced
  <1>14. ASSUME NEW ids \in Batches, NEW u \in Users, batch_schedule_notifications(ids, u)
         PROVE  Balanced(auditLog', notifications', deliveries', i)
    <2>1. ids \in Seq(Ids)
      BY DEF Batches
    <2>2. IsInjective(ids) /\ auditLog \in Seq(AuditRecord)
      BY <1>14 DEF batch_schedule_notifications, noDuplicates, TypeOK
    <2> DEFINE new == BatchRecords(ids, u)
    <2>3. auditLog' = auditLog \o new
      BY <1>14 DEF batch_schedule_notifications, BatchRecords
    <2>4. \A a \in {"Created", "Expired", "Cancelled"} :
            count2(a) = count(a) + (IF i \in Range(ids) /\ a = "Created" THEN 1 ELSE 0)
      <3>1. ASSUME NEW a \in {"Created", "Expired", "Cancelled"}
            PROVE  Count(auditLog \o new, i, a) = Count(auditLog, i, a)
                     + (IF i \in Range(ids) /\ a = "Created" THEN 1 ELSE 0)
        <4>1. CreatedRecords(new, ids)
          BY <2>1, BatchRecordsType
        <4> HIDE DEF new
        <4>2. a \in AuditAction
          BY <1>3
        <4> QED
          BY <2>1, <2>2, <4>1, <4>2, BatchCount
      <3> QED
        BY <2>3, <3>1
    <2>5. i \in Range(ids) => notifications[i] = NotTracked
      BY <1>14 DEF batch_schedule_notifications, Range, tracked
    <2>6. i \notin Range(ids) => notifications'[i] = notifications[i]
      BY <1>14 DEF batch_schedule_notifications
    <2>7. i \in Range(ids) => notifications'[i] # NotTracked
      <3>1. PICK ttls \in [Range(ids) -> Durations] :
              /\ \A id \in Range(ids) : validDuration(ttls[id])
              /\ notifications' = [id \in Ids |->
                   IF id \in Range(ids) THEN Scheduled(u, ttls[id]) ELSE notifications[id]]
        BY <1>14 DEF batch_schedule_notifications
      <3>2. ASSUME i \in Range(ids) PROVE Scheduled(u, ttls[i]) # NotTracked
        BY <3>1, <3>2, ScheduledType DEF Within
      <3> QED
        BY <3>1, <3>2
    <2>8. deliveries' = deliveries
      BY <1>14 DEF batch_schedule_notifications, delivery
    <2> QED
      BY <1>1, <1>2, <2>4, <2>5, <2>6, <2>7, <2>8 DEF Balanced
  <1> QED
    BY <1>5, <1>6, <1>8, <1>9, <1>10, <1>11, <1>12, <1>13, <1>14 DEF Next

\* The audit log accounts for every notification ever created.
THEOREM AuditCorrect == Spec => []AuditBalance
  <1>1. Init => AuditBalance
    <2>1. ASSUME Init, NEW id \in Ids
          PROVE  Balanced(auditLog, notifications, deliveries, id)
      <3>1. \A a : Positions(auditLog, id, a) = {}
        BY <2>1 DEF Init, Positions
      <3>2. \A a : Count(auditLog, id, a) = 0
        BY <3>1, FS_EmptySet DEF Count
      <3> QED
        BY <2>1, <3>2 DEF Init, Balanced
    <2> QED
      BY <2>1, BalanceOfIds
  <1>2. TypeOK /\ AuditBalance /\ [Next]_vars => AuditBalance'
    <2>1. ASSUME TypeOK, AuditBalance, [Next]_vars
          PROVE  \A i \in Ids : Balanced(auditLog', notifications', deliveries', i)
      BY <2>1, BalanceStep
    <2>2. ASSUME \A i \in Ids : Balanced(auditLog', notifications', deliveries', i)
          PROVE  AuditBalance'
      BY <2>2 DEF AuditBalance, Balanced, Logged, Count, Positions, tracked
    <2> QED
      BY <2>1, <2>2
  <1> QED
    BY <1>1, <1>2, TypeCorrect, PTL DEF Spec

(***************************************************************************)
(* What a call may not do                                                  *)
(***************************************************************************)

\* A step leaves a notification alone, its archive and its audit trail too.
Untouched(i) ==
    /\ notifications'[i] = notifications[i]
    /\ archive'[i] = archive[i]
    /\ \A k \in DOMAIN auditLog' \ DOMAIN auditLog : auditLog'[k].id # i

\* No call changes, archives or audits a revoked notification: each of them
\* refuses a revoked record, also the expiry that anyone may finalise.
THEOREM RevocationCorrect == Spec => RevocationFinal
  <1>1. ASSUME TypeOK, [Next]_vars PROVE [RevocationKept]_vars
    <2> SUFFICES ASSUME NEW i \in Ids, tracked(i), notifications[i].revoked
                 PROVE  Untouched(i)
      BY DEF RevocationKept, Untouched
    <2>1. ASSUME NEW id \in Ids, id # i, NEW action \in AuditAction,
                 NEW actor \in Users \cup {Contract}, append_audit_record(id, action, actor)
          PROVE  \A k \in DOMAIN auditLog' \ DOMAIN auditLog : auditLog'[k].id # i
      <3> DEFINE rec == [id |-> id, action |-> action, actor |-> actor]
      <3>1. rec \in AuditRecord /\ auditLog' = Append(auditLog, rec)
        BY <1>1, <2>1, AppendType
      <3>2. rec.id # i
        BY <2>1
      <3> HIDE DEF rec
      <3>3. auditLog \in Seq(AuditRecord)
        BY <1>1 DEF TypeOK
      <3> QED
        BY <3>1, <3>2, <3>3
    <2>2. CASE UNCHANGED vars \/ Tick \/ register_category \/ pause \/ unpause
      BY <2>2 DEF vars, Tick, register_category, pause, unpause, Untouched
    <2>3. ASSUME NEW id \in Ids, NEW u \in Users, NEW d \in Durations,
                 schedule_notification(id, u, d)
          PROVE  Untouched(i)
      <3>1. id # i
        BY <2>3 DEF schedule_notification
      <3>2. append_audit_record(id, "Created", u) /\ "Created" \in AuditAction
        BY <2>3 DEF schedule_notification, AuditAction
      <3> QED
        BY <1>1, <2>1, <2>3, <3>1, <3>2 DEF schedule_notification, TypeOK, Untouched
    <2>4. ASSUME NEW id \in Ids, NEW u \in Users, NEW new, rewrite(id, u, new)
          PROVE  Untouched(i)
      <3>1. id # i
        BY <2>4 DEF rewrite, live
      <3> QED
        BY <1>1, <2>4, <3>1 DEF rewrite, TypeOK, Untouched
    <2>5. ASSUME NEW id \in Ids, NEW u \in Users,
                 \/ recall_notification(id, u)
                 \/ revoke_notification(id, u)
                 \/ \E d \in Durations : extend_notification_expiry(id, u, d)
          PROVE  Untouched(i)
      BY <2>4, <2>5
         DEF recall_notification, revoke_notification, extend_notification_expiry
    <2>6. ASSUME NEW id \in Ids, NEW u \in Users, cancel_notification(id, u)
          PROVE  Untouched(i)
      <3>1. id # i
        BY <2>6 DEF cancel_notification, live
      <3>2. append_audit_record(id, "Cancelled", u) /\ "Cancelled" \in AuditAction
        BY <2>6 DEF cancel_notification, AuditAction
      <3>3. notifications'[i] = notifications[i] /\ archive'[i] = archive[i]
        BY <1>1, <2>6, <3>1 DEF cancel_notification, remove, archive_notification, TypeOK
      <3> QED
        BY <2>1, <3>1, <3>2, <3>3 DEF Untouched
    <2>7. ASSUME NEW id \in Ids, expire_notification(id)
          PROVE  Untouched(i)
      <3>1. id # i
        BY <2>7 DEF expire_notification
      <3>2. append_audit_record(id, "Expired", Contract) /\ "Expired" \in AuditAction
        BY <2>7 DEF expire_notification, AuditAction
      <3>3. notifications'[i] = notifications[i] /\ archive'[i] = archive[i]
        BY <1>1, <2>7, <3>1 DEF expire_notification, remove, archive_notification, TypeOK
      <3> QED
        BY <2>1, <3>1, <3>2, <3>3 DEF Untouched
    <2>8. ASSUME NEW id \in Ids, NEW u \in Users, confirm_notification_delivery(id, u)
          PROVE  Untouched(i)
      <3>1. id # i
        BY <2>8 DEF confirm_notification_delivery, live
      <3> QED
        BY <1>1, <2>8, <3>1
           DEF confirm_notification_delivery, remove, archive_notification, TypeOK, Untouched
    <2>9. ASSUME NEW id \in Ids, NEW u \in Users,
                 NEW action \in {"DeliveryAttempt", "DeliveryFailed", "Acknowledged"},
                 record(id, action, u)
          PROVE  Untouched(i)
      <3>1. id # i
        BY <2>9 DEF record, live
      <3>2. append_audit_record(id, action, u) /\ action \in AuditAction
        BY <2>9 DEF record, AuditAction
      <3> QED
        BY <2>1, <2>9, <3>1, <3>2 DEF record, Untouched
    <2>10. ASSUME NEW ids \in Batches, NEW u \in Users, batch_schedule_notifications(ids, u)
           PROVE  Untouched(i)
      <3> DEFINE n == Len(ids)
      <3>1. ids \in Seq(Ids)
        BY DEF Batches
      <3>2. \A k \in 1..n : ids[k] # i
        BY <2>10, <3>1 DEF batch_schedule_notifications
      <3>3. notifications'[i] = notifications[i] /\ archive'[i] = archive[i]
        BY <2>10, <3>1, <3>2 DEF batch_schedule_notifications, Range
      <3> DEFINE new == BatchRecords(ids, u)
      <3>4. auditLog' = auditLog \o new
        BY <2>10 DEF batch_schedule_notifications, BatchRecords
      <3>5. new \in Seq(AuditRecord) /\ Len(new) = n
        BY <3>1, BatchRecordsType DEF CreatedRecords
      <3>6. \A k \in 1..n : new[k].id # i
        BY <3>1, <3>2, BatchRecordsType DEF CreatedRecords
      <3> HIDE DEF new
      <3>7. auditLog \in Seq(AuditRecord)
        BY <1>1 DEF TypeOK
      <3>8. ASSUME NEW k \in DOMAIN auditLog' \ DOMAIN auditLog
            PROVE  auditLog'[k].id # i
        <4>1. k - Len(auditLog) \in 1..n /\ auditLog'[k] = new[k - Len(auditLog)]
          BY <3>4, <3>5, <3>7
        <4> QED
          BY <3>6, <4>1
      <3> QED
        BY <3>3, <3>8 DEF Untouched
    <2> QED
      BY <1>1, <2>2, <2>3, <2>5, <2>6, <2>7, <2>8, <2>9, <2>10 DEF Next
  <1> QED
    BY <1>1, TypeCorrect, PTL DEF Spec, RevocationFinal

\* What the archive must say of a notification that a step removes.
Explained(i) ==
    LET n == notifications[i]
        copy == archive'[i]
    IN /\ copy.creator = n.creator /\ copy.created_at = n.created_at
       /\ IF now >= n.expires_at
          THEN copy.reason = "expired"
          ELSE /\ ~paused
               /\ \/ copy.reason = "delivered" /\ deliveries'[i] = deliveries[i] + 1
                  \/ /\ copy.reason = "cancelled"
                     /\ auditLog'[Len(auditLog')].actor \in {n.creator, Admin}

\* The archive copy that the three removing calls share.
LEMMA ArchiveCopy ==
  ASSUME TypeOK, NEW id \in Ids, NEW reason, archive_notification(id, reason)
  PROVE  /\ archive'[id].creator = notifications[id].creator
         /\ archive'[id].created_at = notifications[id].created_at
         /\ archive'[id].reason = reason
  BY DEF archive_notification, TypeOK

\* An active notification is removed only into the archive, and the copy says
\* why: every other step leaves it in active storage.
THEOREM RemovalCorrect == Spec => RemovalExplained
  <1>1. ASSUME TypeOK, [Next]_vars PROVE [RemovalRecorded]_vars
    <2> SUFFICES ASSUME NEW i \in Ids, tracked(i), ~tracked(i)'
                 PROVE  Explained(i)
      BY DEF RemovalRecorded, Explained
    <2> USE LifecycleAssumption
    <2>1. notifications'[i] # notifications[i] /\ notifications'[i] = NotTracked
      BY DEF tracked
    <2>2. CASE UNCHANGED vars \/ Tick \/ register_category \/ pause \/ unpause
      BY <2>1, <2>2 DEF vars, Tick, register_category, pause, unpause
    <2>3. ASSUME NEW id \in Ids, NEW u \in Users, NEW d \in Durations,
                 schedule_notification(id, u, d)
          PROVE  Explained(i)
      <3>1. id # i
        BY <2>3 DEF schedule_notification
      <3> QED
        BY <1>1, <2>1, <2>3, <3>1 DEF schedule_notification, TypeOK
    <2>4. ASSUME NEW id \in Ids, NEW u \in Users, NEW new, Within(new), rewrite(id, u, new)
          PROVE  Explained(i)
      <3>1. notifications'[id] # NotTracked
        BY <1>1, <2>4, PutType DEF rewrite
      <3>2. id # i => notifications'[i] = notifications[i]
        BY <1>1, <2>4 DEF rewrite, TypeOK
      <3> QED
        BY <2>1, <3>1, <3>2
    <2>5. ASSUME NEW id \in Ids, NEW u \in Users,
                 recall_notification(id, u) \/ revoke_notification(id, u)
          PROVE  Explained(i)
      BY <1>1, <2>4, <2>5, TrackedWithin, RewrittenType
         DEF recall_notification, revoke_notification, rewrite
    <2>6. ASSUME NEW id \in Ids, NEW u \in Users, NEW d \in Durations,
                 extend_notification_expiry(id, u, d)
          PROVE  Explained(i)
      <3>1. Within([notifications[id] EXCEPT !.expires_at = @ + d])
        BY <1>1, <2>6, TrackedWithin, ExtendedType DEF extend_notification_expiry
      <3> QED
        BY <2>4, <2>6, <3>1 DEF extend_notification_expiry
    <2>7. ASSUME NEW id \in Ids, NEW u \in Users, cancel_notification(id, u)
          PROVE  Explained(i)
      <3>1. id = i
        BY <1>1, <2>1, <2>7 DEF cancel_notification, remove, TypeOK
      <3>2. /\ ~paused /\ archive_notification(i, "cancelled")
            /\ ~is_expired(notifications[i])
            /\ u \in {notifications[i].creator, Admin}
        BY <2>7, <3>1 DEF cancel_notification, live, authorized
      <3>3. auditLog'[Len(auditLog')].actor = u
        <4> DEFINE rec == [id |-> i, action |-> "Cancelled", actor |-> u]
        <4>1. "Cancelled" \in AuditAction /\ append_audit_record(i, "Cancelled", u)
          BY <2>7, <3>1 DEF cancel_notification, AuditAction
        <4>2. auditLog' = Append(auditLog, rec) /\ auditLog \in Seq(AuditRecord)
          BY <1>1, <4>1, AppendType DEF TypeOK
        <4>3. rec.actor = u
          OBVIOUS
        <4> HIDE DEF rec
        <4> QED
          BY <4>2, <4>3
      <3>4. notifications[i].expires_at \in Int /\ now \in Int
        BY <1>1, TrackedWithin DEF TypeOK, Within, Notification
      <3> QED
        BY <1>1, <3>2, <3>3, <3>4, ArchiveCopy DEF Explained, is_expired
    <2>8. ASSUME NEW id \in Ids, expire_notification(id)
          PROVE  Explained(i)
      <3>1. id = i
        BY <1>1, <2>1, <2>8 DEF expire_notification, remove, TypeOK
      <3>2. archive_notification(i, "expired") /\ is_expired(notifications[i])
        BY <2>8, <3>1 DEF expire_notification
      <3> QED
        BY <1>1, <3>2, ArchiveCopy DEF Explained, is_expired
    <2>9. ASSUME NEW id \in Ids, NEW u \in Users, confirm_notification_delivery(id, u)
          PROVE  Explained(i)
      <3>1. id = i
        BY <1>1, <2>1, <2>9 DEF confirm_notification_delivery, remove, TypeOK
      <3>2. /\ ~paused /\ archive_notification(i, "delivered")
            /\ ~is_expired(notifications[i])
            /\ deliveries'[i] = deliveries[i] + 1
        BY <1>1, <2>9, <3>1 DEF confirm_notification_delivery, live, TypeOK
      <3> QED
        BY <1>1, <3>2, ArchiveCopy DEF Explained, is_expired
    <2>10. ASSUME NEW id \in Ids, NEW u \in Users,
                  NEW action \in {"DeliveryAttempt", "DeliveryFailed", "Acknowledged"},
                  record(id, action, u)
           PROVE  Explained(i)
      BY <2>1, <2>10 DEF record
    <2>11. ASSUME NEW ids \in Batches, NEW u \in Users, batch_schedule_notifications(ids, u)
           PROVE  Explained(i)
      <3>1. i \notin Range(ids)
        BY <2>11 DEF batch_schedule_notifications, Range
      <3> QED
        BY <2>1, <2>11, <3>1 DEF batch_schedule_notifications
    <2> QED
      BY <1>1, <2>2, <2>3, <2>5, <2>6, <2>7, <2>8, <2>9, <2>10, <2>11 DEF Next
  <1> QED
    BY <1>1, TypeCorrect, PTL DEF Spec, RemovalExplained
=============================================================================
