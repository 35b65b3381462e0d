----------------------- MODULE NotificationLifecycle -----------------------
(***************************************************************************)
(* Scheduled notifications of the AutoShare contract                       *)
(* (contract/contracts/hello-world/src/autoshare_logic.rs): active         *)
(* storage, the archive, the audit log and the delivery idempotency keys.  *)
(* A contract call is atomic and a rejected one changes nothing, so an     *)
(* action is a call that succeeds.  `caller` has authorised the call.      *)
(*                                                                         *)
(* Left out: titles and priorities, fields that record who or when next to *)
(* the flag that is kept, the copies of sequence number and time in an     *)
(* audit record, and the field `delivered`, which is set only on a record  *)
(* that the same call removes.                                             *)
(***************************************************************************)
EXTENDS Integers, Sequences, FiniteSets, Functions

CONSTANTS
    Ids,              \* notification ids
    Users,            \* addresses that call the contract
    Admin,
    Contract,         \* the contract's own address, the actor of an expiry
    MaxLifetime,      \* MAX_NOTIFICATION_LIFETIME_SECONDS
    MaxBatch,         \* MAX_BATCH_SIZE
    Keys,
    KeyOf,            \* the bytes of an id XOR a sequence number, by both
    NotTracked,       \* what active storage and the archive hold for no record
    MaxTime,          \* bound: ledger time
    MaxAudit,         \* bound: length of the audit log
    MaxDeliveries     \* bound: confirmed deliveries

Notification == [creator : Users, created_at : 0..MaxTime,
                 expires_at : 0..(MaxTime + MaxLifetime),
                 revoked : BOOLEAN, recalled : BOOLEAN]

Archived == [creator : Users, created_at : 0..MaxTime,
             expires_at : 0..(MaxTime + MaxLifetime),
             reason : {"expired", "cancelled", "delivered"}]

AuditAction == {"Created", "DeliveryAttempt", "DeliveryFailed", "Acknowledged",
                "Cancelled", "Expired"}

AuditRecord == [id : Ids, action : AuditAction, actor : Users \cup {Contract}]

\* Distinct sequence numbers give an id distinct keys, and the other way round.
ASSUME LifecycleAssumption ==
    /\ Admin \in Users
    /\ Contract \notin Users
    /\ MaxLifetime \in Nat
    /\ MaxBatch \in Nat
    /\ MaxTime \in Nat
    /\ MaxAudit \in Nat
    /\ MaxDeliveries \in Nat
    /\ KeyOf \in [Ids \X (0..MaxDeliveries) -> Keys]
    /\ \A i, j \in Ids, n \in 0..MaxDeliveries : KeyOf[<<i, n>>] = KeyOf[<<j, n>>] => i = j
    /\ \A i \in Ids, n, m \in 0..MaxDeliveries : KeyOf[<<i, n>>] = KeyOf[<<i, m>>] => n = m
    /\ NotTracked \notin Notification
    /\ NotTracked \notin Archived

VARIABLES
    now,            \* ledger timestamp
    paused,         \* INSTANCE_PAUSED
    registered,     \* whether the category Notification is registered
    notifications,  \* ScheduledNotification, by id
    archive,        \* ArchivedNotification, by id
    auditLog,
    deliverySeq,    \* INSTANCE_DELIVERY_SEQ
    deliveryKeys,   \* DeliveryIdempotency
    deliveries      \* history: confirmed deliveries, by id; no action reads it

admin == <<paused, registered>>
delivery == <<deliverySeq, deliveryKeys, deliveries>>
vars == <<now, admin, notifications, archive, auditLog, delivery>>

tracked(id) == notifications[id] # NotTracked

-----------------------------------------------------------------------------
Init ==
    /\ now = 0
    /\ paused = FALSE
    /\ registered = FALSE
    /\ notifications = [id \in Ids |-> NotTracked]
    /\ archive = [id \in Ids |-> NotTracked]
    /\ auditLog = <<>>
    /\ deliverySeq = 0
    /\ deliveryKeys = {}
    /\ deliveries = [id \in Ids |-> 0]

\* The ledger closes.
Tick ==
    /\ now < MaxTime
    /\ now' = now + 1
    /\ UNCHANGED <<admin, notifications, archive, auditLog, delivery>>

\* register_category, pause and unpause, by the admin.
register_category ==
    /\ ~registered
    /\ registered' = TRUE
    /\ UNCHANGED <<now, paused, notifications, archive, auditLog, delivery>>

pause ==
    /\ ~paused
    /\ paused' = TRUE
    /\ UNCHANGED <<now, registered, notifications, archive, auditLog, delivery>>

unpause ==
    /\ paused
    /\ paused' = FALSE
    /\ UNCHANGED <<now, registered, notifications, archive, auditLog, delivery>>

is_expired(n) == now >= n.expires_at

\* Mutant: a call looks at the expiry only.
liveThoughRevoked(n) == ~is_expired(n)

\* What every call but expire_notification asks of the record it changes.
live(n) == ~n.revoked /\ ~is_expired(n)

\* Mutant: anyone may act on a notification.
anyone(caller, n) == TRUE

authorized(caller, n) == caller = n.creator \/ caller = Admin

append(id, action, actor) ==
    Append(auditLog, [id |-> id, action |-> action, actor |-> actor])

append_audit_record(id, action, actor) ==
    /\ Len(auditLog) < MaxAudit
    /\ auditLog' = append(id, action, actor)

Scheduled(creator, ttl) ==
    [creator |-> creator, created_at |-> now, expires_at |-> now + ttl,
     revoked |-> FALSE, recalled |-> FALSE]

validDuration(ttl) == 0 < ttl /\ ttl <= MaxLifetime

\* Inputs: durations, and batches of ids.
Durations == 0..(MaxLifetime + 1)

Batches == UNION {[1..n -> Ids] : n \in 0..(MaxBatch + 1)}

schedule_notification(id, creator, ttl) ==
    /\ ~paused
    /\ registered
    /\ validDuration(ttl)
    /\ ~tracked(id)
    /\ notifications' = [notifications EXCEPT ![id] = Scheduled(creator, ttl)]
    /\ append_audit_record(id, "Created", creator)
    /\ UNCHANGED <<now, admin, archive, delivery>>

\* Mutant: an id may come twice in a batch.
duplicatesAllowed(ids) == TRUE

noDuplicates(ids) == IsInjective(ids)

\* All or nothing: the batch is validated before any of it is stored.
batch_schedule_notifications(ids, creator) ==
    /\ ~paused
    /\ registered
    /\ Len(ids) \in 1..MaxBatch
    /\ \A k \in DOMAIN ids : ~tracked(ids[k])
    /\ noDuplicates(ids)
    /\ Len(auditLog) + Len(ids) <= MaxAudit
    /\ auditLog' = auditLog \o
            [k \in DOMAIN ids |-> [id |-> ids[k], action |-> "Created", actor |-> creator]]
    /\ \E ttls \in [Range(ids) -> Durations] :
         /\ \A id \in Range(ids) : validDuration(ttls[id])
         /\ notifications' = [id \in Ids |->
                IF id \in Range(ids) THEN Scheduled(creator, ttls[id]) ELSE notifications[id]]
    /\ UNCHANGED <<now, admin, archive, delivery>>

\* archive_notification: set() overwrites what the archive has for the id.
archive_notification(id, reason) ==
    archive' = [archive EXCEPT ![id] =
        [creator |-> notifications[id].creator, created_at |-> notifications[id].created_at,
         expires_at |-> notifications[id].expires_at, reason |-> reason]]

remove(id) == notifications' = [notifications EXCEPT ![id] = NotTracked]

\* Anyone may finalise an expiry, also while the contract is paused.
expire_notification(id) ==
    /\ tracked(id)
    /\ ~notifications[id].revoked
    /\ is_expired(notifications[id])
    /\ remove(id)
    /\ archive_notification(id, "expired")
    /\ append_audit_record(id, "Expired", Contract)
    /\ UNCHANGED <<now, admin, delivery>>

\* An id that is not tracked is accepted from anyone and only leaves a record.
cancel_notification(id, caller) ==
    /\ ~paused
    /\ \/ /\ tracked(id)
          /\ live(notifications[id])
          /\ authorized(caller, notifications[id])
          /\ remove(id)
          /\ archive_notification(id, "cancelled")
       \/ ~tracked(id) /\ UNCHANGED <<notifications, archive>>
    /\ append_audit_record(id, "Cancelled", caller)
    /\ UNCHANGED <<now, admin, delivery>>

delivery_idempotency_key(id) == KeyOf[<<id, deliverySeq>>]

\* A recalled notification is not told apart.
confirm_notification_delivery(id, caller) ==
    /\ ~paused
    /\ delivery_idempotency_key(id) \notin deliveryKeys
    /\ tracked(id)
    /\ live(notifications[id])
    /\ authorized(caller, notifications[id])
    /\ deliverySeq < MaxDeliveries
    /\ deliveryKeys' = deliveryKeys \cup {delivery_idempotency_key(id)}
    /\ deliverySeq' = deliverySeq + 1
    /\ deliveries' = [deliveries EXCEPT ![id] = @ + 1]
    /\ remove(id)
    /\ archive_notification(id, "delivered")
    /\ UNCHANGED <<now, admin, auditLog>>

\* recall_notification, revoke_notification and extend_notification_expiry
\* rewrite the record in active storage.
rewrite(id, caller, new) ==
    /\ ~paused
    /\ tracked(id)
    /\ live(notifications[id])
    /\ authorized(caller, notifications[id])
    /\ notifications' = [notifications EXCEPT ![id] = new]
    /\ UNCHANGED <<now, admin, archive, auditLog, delivery>>

recall_notification(id, caller) ==
    rewrite(id, caller, [notifications[id] EXCEPT !.recalled = TRUE])

revoke_notification(id, caller) ==
    rewrite(id, caller, [notifications[id] EXCEPT !.revoked = TRUE])

\* Mutant: each extension is held against the maximum, not their total.
extensionAllowedAlone(n, extension) == extension <= MaxLifetime

extensionAllowed(n, extension) == n.expires_at + extension - n.created_at <= MaxLifetime

extend_notification_expiry(id, caller, extension) ==
    /\ 0 < extension
    /\ tracked(id)
    /\ extensionAllowed(notifications[id], extension)
    /\ rewrite(id, caller, [notifications[id] EXCEPT !.expires_at = @ + extension])

\* record_delivery_attempt, record_delivery_failure, record_acknowledgment.
record(id, action, actor) ==
    /\ ~paused
    /\ tracked(id)
    /\ live(notifications[id])
    /\ append_audit_record(id, action, actor)
    /\ UNCHANGED <<now, admin, notifications, archive, delivery>>

Next ==
    \/ Tick
    \/ register_category
    \/ pause
    \/ unpause
    \/ \E id \in Ids, u \in Users :
         \/ \E d \in Durations :
              \/ schedule_notification(id, u, d)
              \/ extend_notification_expiry(id, u, d)
         \/ cancel_notification(id, u)
         \/ confirm_notification_delivery(id, u)
         \/ recall_notification(id, u)
         \/ revoke_notification(id, u)
         \/ \E action \in {"DeliveryAttempt", "DeliveryFailed", "Acknowledged"} :
              record(id, action, u)
    \/ \E ids \in Batches, u \in Users : batch_schedule_notifications(ids, u)
    \/ \E id \in Ids : expire_notification(id)

Spec == Init /\ [][Next]_vars

-----------------------------------------------------------------------------
(***************************************************************************)
(* Properties                                                              *)
(***************************************************************************)

\* Types; no sequence of extensions gives a notification a longer lifetime than
\* the maximum.
TypeOK ==
    /\ now \in 0..MaxTime
    /\ paused \in BOOLEAN
    /\ registered \in BOOLEAN
    /\ notifications \in [Ids -> Notification \cup {NotTracked}]
    /\ \A id \in Ids : tracked(id) =>
         /\ notifications[id].created_at <= now
         /\ notifications[id].expires_at > notifications[id].created_at
         /\ notifications[id].expires_at - notifications[id].created_at <= MaxLifetime
    /\ archive \in [Ids -> Archived \cup {NotTracked}]
    /\ auditLog \in Seq(AuditRecord)
    /\ deliverySeq \in 0..MaxDeliveries
    /\ deliveryKeys \subseteq Keys
    /\ deliveries \in [Ids -> Nat]

\* How often an action is in the log for an id.
Logged(id, action) ==
    Cardinality({k \in DOMAIN auditLog : auditLog[k].id = id /\ auditLog[k].action = action})

\* The audit log accounts for every notification ever created: it is active, it
\* expired, it was delivered, or a record says that it was cancelled (others
\* say so of an id that was not tracked).
AuditBalance ==
    \A id \in Ids :
        LET left == Logged(id, "Created") - Logged(id, "Expired") - deliveries[id]
                        - (IF tracked(id) THEN 1 ELSE 0)
        IN 0 <= left /\ left <= Logged(id, "Cancelled")

\* What a step leaves of a revoked notification: everything.
RevocationKept ==
    \A id \in Ids : tracked(id) /\ notifications[id].revoked =>
         /\ notifications'[id] = notifications[id]
         /\ archive'[id] = archive[id]
         /\ \A k \in DOMAIN auditLog' \ DOMAIN auditLog : auditLog'[k].id # id

\* "Revocation is a permanent, terminal state" (docs/contract-errors.md): no
\* call changes, archives or audits a revoked notification again.
RevocationFinal == [][RevocationKept]_vars

\* What a step that removes a notification leaves behind.
RemovalRecorded ==
    \A id \in Ids : tracked(id) /\ ~tracked(id)' =>
         LET n == notifications[id]
             copy == archive'[id]
         IN /\ copy.creator = n.creator /\ copy.created_at = n.created_at
            /\ IF now >= n.expires_at
               THEN copy.reason = "expired"
               ELSE /\ ~paused
                    /\ \/ copy.reason = "delivered" /\ deliveries'[id] = deliveries[id] + 1
                       \/ /\ copy.reason = "cancelled"
                          /\ auditLog'[Len(auditLog')].actor \in {n.creator, Admin}

\* An active notification is removed only into the archive: after its time as
\* expired, or before its time, with the contract running, as delivered or as
\* cancelled by its creator or the admin.
RemovalExplained == [][RemovalRecorded]_vars
=============================================================================
