------------------------- MODULE SchedulingProofs -------------------------
(***************************************************************************)
(* Proofs about Scheduling for every set of notifications, any number of   *)
(* schedulers, retry schedulers and processes, every attempt budget and    *)
(* policy, and any number of disturbances.                                 *)
(***************************************************************************)
EXTENDS Scheduling, TLAPS

(***************************************************************************)
(* Statements on one row                                                   *)
(***************************************************************************)

Attempts == AtLeastOne(MaxRetries)
Live == {"PENDING", "PROCESSING"}
RetryAt == {"none", "backoff", "parked", "released"}
Errors == {"none", "lock expired", "released", "failed"}

\* A row that may still be attempted has attempts left, and so has a job.
Sound == {r \in Row : r.status \in Live => r.retries < Attempts}
SoundJob == {j \in Job : j.retries < Attempts}

LEMMA AttemptsType == Attempts \in Nat \ {0} /\ MaxRetries <= Attempts
  BY SchedulingAssumption DEF Attempts, AtLeastOne

LEMMA RowFields ==
  ASSUME NEW r \in Row
  PROVE  /\ r.status \in NotificationStatus /\ r.owner \in Processors \cup {None}
         /\ r.lock \in BOOLEAN /\ r.retries \in Nat /\ r.retries <= Attempts
         /\ r.retryAt \in RetryAt /\ r.due \in BOOLEAN /\ r.late \in BOOLEAN
         /\ r.held \in BOOLEAN /\ r.runs \in 0 .. MaxRuns /\ r.error \in Errors
  <1>1. /\ r.status \in NotificationStatus /\ r.owner \in Processors \cup {None}
        /\ r.lock \in BOOLEAN /\ r.retries \in 0 .. AtLeastOne(MaxRetries)
        /\ r.retryAt \in RetryAt /\ r.due \in BOOLEAN /\ r.late \in BOOLEAN
        /\ r.held \in BOOLEAN /\ r.runs \in 0 .. MaxRuns /\ r.error \in Errors
    BY DEF Row, RetryAt, Errors
  <1> QED
    BY <1>1, AttemptsType DEF Attempts

LEMMA SoundRow ==
  ASSUME NEW r
  PROVE  r \in Sound <=> r \in Row /\ (r.status \in Live => r.retries < Attempts)
  BY DEF Sound

LEMMA UnlockedRow ==
  ASSUME NEW r \in Row
  PROVE  /\ Unlocked(r) \in Row /\ Unlocked(r).status = r.status
         /\ Unlocked(r).retries = r.retries /\ Unlocked(r).retryAt = r.retryAt
         /\ Unlocked(r).runs = r.runs
  BY DEF Unlocked, Row

\* A time-out uses up one of the attempts the row had left.
LEMMA TimedOutRow ==
  ASSUME NEW r \in Sound, r.status = "PROCESSING"
  PROVE  /\ TimedOut(r) \in Sound
         /\ TimedOut(r).status \in {"PENDING", "DEAD_LETTERED"}
         /\ TimedOut(r).error = "lock expired"
  <1> DEFINE q == Unlocked(r)
             s == IF r.retries + 1 >= MaxRetries THEN "DEAD_LETTERED" ELSE "PENDING"
             t == IF r.retryAt = "released" THEN "none" ELSE r.retryAt
             k == r.retries + 1
  <1>1. r \in Row /\ r.retries \in Nat /\ r.retries < Attempts /\ r.retryAt \in RetryAt
    BY SoundRow, RowFields DEF Live
  <1>2. /\ q \in Row /\ q.retries = r.retries /\ q.retryAt = r.retryAt
    BY <1>1, UnlockedRow
  <1>3. /\ s \in NotificationStatus /\ k \in 0 .. AtLeastOne(MaxRetries) /\ t \in RetryAt
    BY <1>1, AttemptsType DEF Attempts, NotificationStatus, RetryAt
  <1>4. TimedOut(r) = [q EXCEPT !.status = s, !.retries = k, !.error = "lock expired",
                                !.retryAt = t]
    <2> HIDE DEF q
    <2>1. TimedOut(r) = [q EXCEPT !.status = s, !.retries = @ + 1, !.error = "lock expired",
                                  !.retryAt = IF @ = "released" THEN "none" ELSE @]
      BY DEF TimedOut, q
    <2> QED
      BY <1>2, <2>1 DEF Row
  <1>5. s = "PENDING" => k < Attempts
    BY <1>1, SchedulingAssumption DEF Attempts, AtLeastOne
  <1> HIDE DEF q, s, t, k
  <1>6. /\ TimedOut(r) \in Row /\ TimedOut(r).status = s /\ TimedOut(r).retries = k
        /\ TimedOut(r).error = "lock expired"
    BY <1>2, <1>3, <1>4 DEF Row, RetryAt
  <1> QED
    BY <1>5, <1>6 DEF Sound, Live, s

LEMMA RecoveredRow ==
  ASSUME NEW r \in Sound
  PROVE  /\ recoverStaleLocks(r) \in Sound
         /\ \/ recoverStaleLocks(r) = r
            \/ /\ r.status = "PROCESSING" /\ ~r.lock
               /\ recoverStaleLocks(r).status \in {"PENDING", "DEAD_LETTERED"}
               /\ recoverStaleLocks(r).error = "lock expired"
  BY TimedOutRow DEF recoverStaleLocks

LEMMA OverdueRow ==
  ASSUME NEW r \in Sound, NEW policy \in RecoveryPolicies
  PROVE  /\ recoverOverdueSchedules(r, policy) \in Sound
         /\ \/ recoverOverdueSchedules(r, policy) = r
            \/ /\ r.status = "PENDING"
               /\ recoverOverdueSchedules(r, policy).status \in {"PENDING", "EXPIRED"}
  <1>1. r \in Row
    BY SoundRow
  <1>2. policy \in {"EXECUTE", "EXPIRE", "REQUIRE_INTERVENTION"}
    BY SchedulingAssumption
  <1>3. /\ [r EXCEPT !.status = "EXPIRED"] \in Sound
        /\ [r EXCEPT !.status = "EXPIRED"].status = "EXPIRED"
    BY <1>1 DEF Row, Sound, Live, NotificationStatus
  <1>4. /\ [r EXCEPT !.held = TRUE] \in Row
        /\ [r EXCEPT !.held = TRUE].status = r.status
        /\ [r EXCEPT !.held = TRUE].retries = r.retries
    BY <1>1 DEF Row
  <1>5. [r EXCEPT !.held = TRUE] \in Sound
    BY <1>4, SoundRow
  <1> QED
    BY <1>2, <1>3, <1>4, <1>5 DEF recoverOverdueSchedules

LEMMA ExpiredRow ==
  ASSUME NEW r \in Sound
  PROVE  /\ markAsExpired(r) \in Sound
         /\ markAsExpired(r) = r \/ markAsExpired(r).status = "EXPIRED"
  <1> DEFINE q == Unlocked(r)
  <1>1. r \in Row /\ q \in Row
    BY SoundRow, UnlockedRow
  <1> DEFINE e == [q EXCEPT !.status = "EXPIRED", !.retryAt = "none", !.error = "failed"]
  <1>2. markAsExpired(r) = IF r.status = "PROCESSING" THEN e ELSE r
    BY DEF markAsExpired
  <1> HIDE DEF q
  <1>3. e \in Row /\ e.status = "EXPIRED"
    BY <1>1 DEF Row, NotificationStatus
  <1> HIDE DEF e
  <1>4. e \in Sound
    BY <1>3, SoundRow DEF Live
  <1> QED
    BY <1>2, <1>3, <1>4

LEMMA HeldRow ==
  ASSUME NEW r \in Sound
  PROVE  /\ holdForIntervention(r) \in Sound
         /\ holdForIntervention(r) = r \/ holdForIntervention(r).status = "PENDING"
  <1> DEFINE q == Unlocked(r)
  <1>1. r \in Row /\ q \in Row /\ q.retries = r.retries
    BY SoundRow, UnlockedRow
  <1> DEFINE e == [q EXCEPT !.status = "PENDING", !.retryAt = "parked", !.error = "failed"]
  <1>2. holdForIntervention(r) = IF r.status = "PROCESSING" THEN e ELSE r
    BY DEF holdForIntervention
  <1> HIDE DEF q
  <1>3. e \in Row /\ e.status = "PENDING" /\ e.retries = r.retries
    BY <1>1 DEF Row, NotificationStatus
  <1> HIDE DEF e
  <1>4. r.status = "PROCESSING" => e \in Sound
    BY <1>3, SoundRow DEF Live
  <1> QED
    BY <1>2, <1>3, <1>4

\* A run that ends completes the row or counts the run.
LEMMA CompletedRow ==
  ASSUME NEW r \in Sound, NEW recurring \in BOOLEAN
  PROVE  /\ markAsCompleted(r, recurring) \in Sound
         /\ \/ markAsCompleted(r, recurring) = r /\ r.status # "PROCESSING"
            \/ markAsCompleted(r, recurring).status = "COMPLETED"
            \/ /\ markAsCompleted(r, recurring).status = "PENDING"
               /\ markAsCompleted(r, recurring).runs # r.runs
  <1> DEFINE q == Unlocked(r)
             c == [q EXCEPT !.status = "COMPLETED"]
             s == IF r.runs + 1 < MaxRuns THEN "PENDING" ELSE "COMPLETED"
             k == IF r.runs < MaxRuns THEN r.runs + 1 ELSE r.runs
             d == r.runs + 1 >= MaxRuns
             e == [q EXCEPT !.status = s, !.runs = k, !.due = d,
                            !.retries = 0, !.retryAt = "none", !.error = "none"]
  <1>1. r \in Row /\ q \in Row /\ q.runs = r.runs /\ r.runs \in 0 .. MaxRuns
    BY SoundRow, UnlockedRow, RowFields
  <1>2. MaxRuns \in Nat
    BY SchedulingAssumption
  <1>3. /\ s \in NotificationStatus /\ k \in 0 .. MaxRuns
        /\ s = "COMPLETED" \/ (s = "PENDING" /\ k # r.runs)
    <2>1. CASE r.runs + 1 < MaxRuns
      BY <1>1, <1>2, <2>1 DEF NotificationStatus
    <2>2. CASE ~(r.runs + 1 < MaxRuns)
      BY <1>1, <1>2, <2>2 DEF NotificationStatus
    <2> QED
      BY <2>1, <2>2
  <1>4. d \in BOOLEAN
    OBVIOUS
  <1>5. markAsCompleted(r, recurring) =
          IF ~recurring THEN c ELSE IF r.status # "PROCESSING" THEN r ELSE e
    <2> HIDE DEF q
    <2>1. markAsCompleted(r, recurring) =
          IF ~recurring THEN c ELSE IF r.status # "PROCESSING" THEN r
          ELSE [q EXCEPT !.status = s, !.runs = IF @ < MaxRuns THEN @ + 1 ELSE @, !.due = d,
                         !.retries = 0, !.retryAt = "none", !.error = "none"]
      BY DEF markAsCompleted, q
    <2>2. [q EXCEPT !.status = s, !.runs = IF @ < MaxRuns THEN @ + 1 ELSE @, !.due = d,
                    !.retries = 0, !.retryAt = "none", !.error = "none"] = e
      BY <1>1 DEF Row
    <2> QED
      BY <2>1, <2>2
  <1>6. 0 \in 0 .. AtLeastOne(MaxRetries)
    BY AttemptsType DEF Attempts
  <1> HIDE DEF q, s, k, d
  <1>7. c \in Row /\ c.status = "COMPLETED"
    BY <1>1 DEF Row, NotificationStatus
  <1>8. e \in Row /\ e.status = s /\ e.runs = k /\ e.retries = 0
    BY <1>1, <1>3, <1>4, <1>6 DEF Row
  <1> HIDE DEF c, e
  <1>9. c \in Sound /\ e \in Sound
    BY <1>7, <1>8, SoundRow, AttemptsType DEF Live
  <1> QED
    BY <1>3, <1>5, <1>7, <1>8, <1>9

\* A failed attempt leaves an attempt or retires the row.
LEMMA FailedRow ==
  ASSUME NEW r \in Sound, NEW retries \in Nat, retries < Attempts,
         NEW limit \in Nat, retries + 1 < limit => retries + 1 < Attempts,
         NEW t \in RetryAt, NEW e \in Errors
  PROVE  markAsFailedOrRetry(r, retries, limit, t, e) \in Sound
  <1> DEFINE q == Unlocked(r)
             n == retries + 1
             a == [q EXCEPT !.status = "DEAD_LETTERED", !.retries = retries,
                            !.retryAt = "none", !.error = e]
             b == [q EXCEPT !.status = "PENDING", !.retries = n, !.retryAt = t, !.error = e]
  <1>1. q \in Row
    BY SoundRow, UnlockedRow
  <1>2. /\ retries \in 0 .. AtLeastOne(MaxRetries)
        /\ n < limit => n \in 0 .. AtLeastOne(MaxRetries) /\ n < Attempts
        /\ n >= limit <=> ~(n < limit)
    BY AttemptsType DEF Attempts
  <1>3. markAsFailedOrRetry(r, retries, limit, t, e) = IF n >= limit THEN a ELSE b
    BY DEF markAsFailedOrRetry
  <1> HIDE DEF q, n
  <1>4. a \in Row /\ a.status = "DEAD_LETTERED"
    BY <1>1, <1>2 DEF Row, Errors, NotificationStatus
  <1>5. n < limit => b \in Row /\ b.status = "PENDING" /\ b.retries = n
    BY <1>1, <1>2 DEF Row, Errors, RetryAt, NotificationStatus
  <1> HIDE DEF a, b
  <1>6. a \in Sound /\ (n < limit => b \in Sound)
    BY <1>2, <1>4, <1>5, SoundRow DEF Live
  <1> QED
    BY <1>2, <1>3, <1>6

(***************************************************************************)
(* The inductive invariant                                                 *)
(***************************************************************************)

\* The stages from which a processor still writes the status of its row.
Writing == {"overdue", "waiting", "releasing", "delivering", "completing", "failing"}

\* What may part a row from the lock its owner counts on.
Excuses == {"lock expired", "requeued", "unlogged"}

\* The types, with the attempts that are left.
TypeInv ==
    /\ row \in [Rows -> Sound]
    /\ dlq \subseteq Rows
    /\ job \in [Processors -> [Rows -> SoundJob]]
    /\ polling \in [Processors -> BOOLEAN]
    /\ process \in [Processes -> {"up", "closing", "down"}]
    /\ disturbances \in 0 .. MaxDisturbances /\ sent \in [Rows -> 0 .. 2]
    /\ blame \in [Rows -> SUBSET {"lock expired", "fault", "unlogged", "stop", "requeued"}]

\* Until a processor writes its row, the row is locked in its name.
LockKept ==
    \A n \in Rows, p \in Processors :
        job[p][n].at \in Writing /\ blame[n] \cap Excuses = {}
        => row[n].status = "PROCESSING" /\ row[n].owner = p /\ row[n].lock

\* A loop that is about to claim has no batch, and works on one row at a time.
OneInWork ==
    \A p \in Processors :
        /\ polling[p] => \A n \in Rows : job[p][n].at = "none"
        /\ \A m, n \in Rows : m # n /\ InWork(p, m) =>
              job[p][n].at \in {"none", "waiting", "releasing"}

\* What was delivered without a disturbance is being written down or completed.
SentOnce ==
    \A n \in Rows : blame[n] = {} =>
        \/ sent[n] = 0
        \/ /\ sent[n] = 1
           /\ \/ row[n].status = "COMPLETED"
              \/ \E p \in Processors : job[p][n].at = "completing"

IInv == TypeInv /\ LockKept /\ OneInWork /\ SentOnce

LEMMA InvTypes == TypeInv => TypeOK
  <1>1. Sound \subseteq Row /\ SoundJob \subseteq Job
    BY DEF Sound, SoundJob
  <1>2. [Rows -> Sound] \subseteq [Rows -> Row] /\ [Rows -> SoundJob] \subseteq [Rows -> Job]
    BY <1>1
  <1>3. [Processors -> [Rows -> SoundJob]] \subseteq [Processors -> [Rows -> Job]]
    BY <1>2
  <1> QED
    BY <1>2, <1>3 DEF TypeInv, TypeOK

(***************************************************************************)
(* The shapes of a step                                                    *)
(***************************************************************************)

\* Nothing that is remembered of the rows is forgotten.
Remembered ==
    /\ dlq \subseteq dlq'
    /\ \A n \in Rows : blame[n] \subseteq blame'[n]

\* What happens to a row while no processor moves.
Quiet(n) ==
    \/ /\ row'[n].status = row[n].status /\ row'[n].error = row[n].error
       /\ row'[n].owner = row[n].owner /\ (row[n].lock => row'[n].lock)
    \/ /\ row[n].status = "PENDING"
       /\ row'[n].status \in {"PENDING", "CANCELLED", "EXPIRED"}
    \/ /\ row[n].status = "PROCESSING" /\ ~row[n].lock
       /\ row'[n].status \in {"PENDING", "EXPIRED", "DEAD_LETTERED"}
       /\ row'[n].status = "DEAD_LETTERED" => row'[n].error = "lock expired"
    \/ /\ row[n].status = "PROCESSING" /\ row'[n].status = "PROCESSING"
       /\ row'[n].owner = row[n].owner
       /\ "lock expired" \in blame'[n] \/ job[row[n].owner][n].at = "none"
    \/ "requeued" \in blame'[n] /\ row'[n].status = "PENDING"

QuietStep ==
    /\ job' = job /\ sent' = sent /\ Remembered
    /\ \A p \in Processors : polling'[p] => polling[p] \/ ~HasBatch(p)
    /\ \A n \in Rows : Quiet(n)

\* Processors lose what they were doing.
DropStep ==
    /\ row' = row /\ sent' = sent /\ Remembered
    /\ \A p \in Processors : polling'[p] => polling[p]
    /\ \A p \in Processors, n \in Rows :
          \/ job'[p][n] = job[p][n]
          \/ /\ job'[p][n].at = "none"
             /\ InWork(p, n) => blame'[n] \cap {"fault", "stop"} # {}

\* A processor claims a batch.
ClaimStep(p, S) ==
    /\ polling[p] /\ sent' = sent /\ dlq' = dlq /\ blame' = blame
    /\ \A q \in Processors : q # p => job'[q] = job[q] /\ polling'[q] = polling[q]
    /\ ~polling'[p]
    /\ \A n \in S : /\ row[n].status = "PENDING" /\ row'[n].status = "PROCESSING"
                    /\ row'[n].owner = p /\ row'[n].lock
                    /\ job'[p][n].at \in {"overdue", "releasing", "waiting"}
    /\ \A n \in Rows \ S : row'[n] = row[n] /\ job'[p][n].at = "none"

\* What a step of p on n may do to the count of deliveries.
Counted(p, n) ==
    \/ sent'[n] = sent[n] /\ job[p][n].at # "completing"
    \/ /\ job[p][n].at = "delivering" /\ job'[p][n].at = "completing"
       /\ sent[n] = 0 => sent'[n] = 1
    \/ /\ job[p][n].at = "completing"
       /\ row[n].status = "PROCESSING" =>
             sent'[n] = 0 \/ (sent'[n] = sent[n] /\ row'[n].status = "COMPLETED")
    \/ blame'[n] # {}

\* A step of p on the row n of its batch.
HandStep(p, n) ==
    /\ polling' = polling /\ Remembered
    /\ \A q \in Processors, m \in Rows : q # p \/ m # n => job'[q][m] = job[q][m]
    /\ \A m \in Rows : m # n => row'[m] = row[m] /\ sent'[m] = sent[m]
    /\ job[p][n].at # "none" /\ job'[p][n].at # "overdue"
    /\ job'[p][n].at \in {"none", "waiting", "releasing"} \/ InWork(p, n)
         \/ (~Busy(p) /\ \A m \in Rows : job[p][m].at # "overdue")
    /\ row'[n] = row[n] \/ (job[p][n].at \in Writing /\ job'[p][n].at \notin Writing)
    /\ job'[p][n].at \in Writing => job[p][n].at \in Writing \/ "unlogged" \in blame'[n]
    /\ \/ row'[n] = row[n] \/ row'[n].status # "DEAD_LETTERED"
       \/ job'[p][n].at = "isolating"
    /\ job[p][n].at = "isolating" => n \in dlq'
    /\ Counted(p, n)

\* The cleanup job deletes entries of dead_letter_queue, and nothing else.
CleanupStep == UNCHANGED <<row, job, polling, process, disturbances, sent, blame>>

LEMMA QuietKeeps ==
  ASSUME IInv, QuietStep PROVE LockKept' /\ OneInWork' /\ SentOnce'
  <1>1. LockKept'
    <2> SUFFICES ASSUME NEW n \in Rows, NEW p \in Processors,
                        job'[p][n].at \in Writing, blame'[n] \cap Excuses = {}
                 PROVE  row'[n].status = "PROCESSING" /\ row'[n].owner = p /\ row'[n].lock
      BY DEF LockKept
    <2>1. job[p][n].at \in Writing /\ blame[n] \subseteq blame'[n] /\ Quiet(n)
      BY DEF QuietStep, Remembered
    <2>2. blame[n] \cap Excuses = {}
      BY <2>1
    <2>3. row[n].status = "PROCESSING" /\ row[n].owner = p /\ row[n].lock
      BY <2>1, <2>2 DEF IInv, LockKept
    <2>4. "lock expired" \notin blame'[n] /\ "requeued" \notin blame'[n] /\ job[p][n].at # "none"
      BY <2>1 DEF Excuses, Writing
    <2> QED
      BY <2>1, <2>3, <2>4 DEF Quiet
  <1>2. OneInWork'
    BY DEF IInv, OneInWork, QuietStep, HasBatch, InWork
  <1>3. SentOnce'
    <2> SUFFICES ASSUME NEW n \in Rows, blame'[n] = {}
                 PROVE  \/ sent'[n] = 0
                        \/ /\ sent'[n] = 1
                           /\ \/ row'[n].status = "COMPLETED"
                              \/ \E p \in Processors : job'[p][n].at = "completing"
      BY DEF SentOnce
    <2>1. blame[n] = {} /\ job' = job /\ sent' = sent /\ Quiet(n)
      BY DEF QuietStep, Remembered
    <2>2. \/ sent[n] = 0
          \/ /\ sent[n] = 1
             /\ \/ row[n].status = "COMPLETED"
                \/ \E p \in Processors : job[p][n].at = "completing"
      BY <2>1 DEF IInv, SentOnce
    <2>3. row[n].status = "COMPLETED" => row'[n].status = "COMPLETED"
      BY <2>1 DEF Quiet
    <2> QED
      BY <2>1, <2>2, <2>3
  <1> QED
    BY <1>1, <1>2, <1>3

LEMMA DropKeeps ==
  ASSUME IInv, DropStep PROVE LockKept' /\ OneInWork' /\ SentOnce'
  <1>1. LockKept'
    <2> SUFFICES ASSUME NEW n \in Rows, NEW p \in Processors,
                        job'[p][n].at \in Writing, blame'[n] \cap Excuses = {}
                 PROVE  row'[n].status = "PROCESSING" /\ row'[n].owner = p /\ row'[n].lock
      BY DEF LockKept
    <2>1. job[p][n].at \in Writing /\ blame[n] \subseteq blame'[n] /\ row' = row
      BY DEF DropStep, Remembered, Writing
    <2>2. blame[n] \cap Excuses = {}
      BY <2>1
    <2> QED
      BY <2>1, <2>2 DEF IInv, LockKept
  <1>2. OneInWork'
    BY DEF IInv, OneInWork, DropStep, InWork
  <1>3. SentOnce'
    <2> SUFFICES ASSUME NEW n \in Rows, blame'[n] = {}
                 PROVE  \/ sent'[n] = 0
                        \/ /\ sent'[n] = 1
                           /\ \/ row'[n].status = "COMPLETED"
                              \/ \E p \in Processors : job'[p][n].at = "completing"
      BY DEF SentOnce
    <2>1. blame[n] = {} /\ row' = row /\ sent' = sent
      BY DEF DropStep, Remembered
    <2>2. \A p \in Processors : job[p][n].at = "completing" => job'[p][n].at = "completing"
      BY DEF DropStep, InWork
    <2> QED
      BY <2>1, <2>2 DEF IInv, SentOnce
  <1> QED
    BY <1>1, <1>2, <1>3

LEMMA ClaimKeeps ==
  ASSUME IInv, NEW p \in Processors, NEW S \in SUBSET Rows, ClaimStep(p, S)
  PROVE  LockKept' /\ OneInWork' /\ SentOnce'
  <1>1. LockKept'
    <2> SUFFICES ASSUME NEW n \in Rows, NEW q \in Processors,
                        job'[q][n].at \in Writing, blame'[n] \cap Excuses = {}
                 PROVE  row'[n].status = "PROCESSING" /\ row'[n].owner = q /\ row'[n].lock
      BY DEF LockKept
    <2>1. CASE q = p
      BY <2>1 DEF ClaimStep, Writing
    <2>2. CASE q # p
      <3>1. job[q][n].at \in Writing /\ blame[n] \cap Excuses = {}
        BY <2>2 DEF ClaimStep
      <3>2. row[n].status = "PROCESSING" /\ row[n].owner = q /\ row[n].lock
        BY <3>1 DEF IInv, LockKept
      <3> QED
        BY <3>2 DEF ClaimStep
    <2> QED
      BY <2>1, <2>2
  <1>2. OneInWork'
    <2>1. \A n \in Rows : job'[p][n].at \in {"none", "overdue", "releasing", "waiting"}
      BY DEF ClaimStep
    <2> QED
      BY <2>1 DEF IInv, OneInWork, ClaimStep, InWork
  <1>3. SentOnce'
    <2> SUFFICES ASSUME NEW n \in Rows, blame'[n] = {}
                 PROVE  \/ sent'[n] = 0
                        \/ /\ sent'[n] = 1
                           /\ \/ row'[n].status = "COMPLETED"
                              \/ \E q \in Processors : job'[q][n].at = "completing"
      BY DEF SentOnce
    <2>1. blame[n] = {} /\ sent' = sent
      BY DEF ClaimStep
    <2>2. row[n].status = "COMPLETED" => row'[n].status = "COMPLETED"
      BY DEF ClaimStep
    <2>3. \A q \in Processors : job[q][n].at = "completing" => job'[q][n].at = "completing"
      BY DEF ClaimStep, IInv, OneInWork
    <2> QED
      BY <2>1, <2>2, <2>3 DEF IInv, SentOnce
  <1> QED
    BY <1>1, <1>2, <1>3

\* While nothing came between, only the owner of a row writes it.
LEMMA WriterOwns ==
  ASSUME IInv, NEW p \in Processors, NEW n \in Rows, HandStep(p, n),
         row'[n] # row[n], blame'[n] \cap Excuses = {}
  PROVE  row[n].status = "PROCESSING" /\ row[n].owner = p
  <1>1. job[p][n].at \in Writing /\ blame[n] \subseteq blame'[n]
    BY DEF HandStep, Remembered
  <1>2. blame[n] \cap Excuses = {}
    BY <1>1
  <1> QED
    BY <1>1, <1>2 DEF IInv, LockKept

LEMMA HandKeeps ==
  ASSUME IInv, NEW p \in Processors, NEW n \in Rows, HandStep(p, n)
  PROVE  LockKept' /\ OneInWork' /\ SentOnce'
  <1>1. LockKept'
    <2> SUFFICES ASSUME NEW m \in Rows, NEW q \in Processors,
                        job'[q][m].at \in Writing, blame'[m] \cap Excuses = {}
                 PROVE  row'[m].status = "PROCESSING" /\ row'[m].owner = q /\ row'[m].lock
      BY DEF LockKept
    <2>1. blame[m] \subseteq blame'[m]
      BY DEF HandStep, Remembered
    <2>2. blame[m] \cap Excuses = {} /\ "unlogged" \notin blame'[m]
      BY <2>1 DEF Excuses
    <2>3. job[q][m].at \in Writing
      <3>1. CASE q = p /\ m = n
        BY <2>2, <3>1 DEF HandStep
      <3>2. CASE q # p \/ m # n
        BY <3>2 DEF HandStep
      <3> QED
        BY <3>1, <3>2
    <2>4. row[m].status = "PROCESSING" /\ row[m].owner = q /\ row[m].lock
      BY <2>2, <2>3 DEF IInv, LockKept
    <2>5. row'[m] = row[m]
      <3>1. CASE m # n
        BY <3>1 DEF HandStep
      <3>2. CASE m = n /\ q = p
        BY <3>2 DEF HandStep
      <3>3. CASE m = n /\ q # p
        BY <2>4, <3>3, WriterOwns
      <3> QED
        BY <3>1, <3>2, <3>3
    <2> QED
      BY <2>4, <2>5
  <1>2. OneInWork'
    <2>1. \A q \in Processors : polling'[q] => \A m \in Rows : job'[q][m].at = "none"
      <3> SUFFICES ASSUME NEW q \in Processors, polling'[q], NEW m \in Rows
                   PROVE  job'[q][m].at = "none"
        OBVIOUS
      <3>1. polling[q] /\ job[p][n].at # "none"
        BY DEF HandStep
      <3>2. \A l \in Rows : job[q][l].at = "none"
        BY <3>1 DEF IInv, OneInWork
      <3> QED
        BY <3>1, <3>2 DEF HandStep
    <2>2. ASSUME NEW q \in Processors, NEW l \in Rows, NEW m \in Rows, l # m, InWork(q, l)'
          PROVE  job'[q][m].at \in {"none", "waiting", "releasing"}
      <3>1. CASE q # p
        BY <2>2, <3>1 DEF IInv, OneInWork, HandStep, InWork
      <3>2. CASE q = p /\ l # n /\ m # n
        BY <2>2, <3>2 DEF IInv, OneInWork, HandStep, InWork
      <3>3. CASE q = p /\ l = n
        <4>1. job'[q][m] = job[q][m]
          BY <2>2, <3>3 DEF HandStep
        <4>2. InWork(p, n) \/ (~Busy(p) /\ \A k \in Rows : job[p][k].at # "overdue")
          BY <2>2, <3>3 DEF HandStep, InWork
        <4>3. CASE InWork(p, n)
          BY <2>2, <3>3, <4>1, <4>3 DEF IInv, OneInWork
        <4>4. CASE ~Busy(p) /\ \A k \in Rows : job[p][k].at # "overdue"
          BY <3>3, <4>1, <4>4 DEF Busy, InWork
        <4> QED
          BY <4>2, <4>3, <4>4
      <3>4. CASE q = p /\ m = n
        <4>1. InWork(p, l)
          BY <2>2, <3>4 DEF HandStep, InWork
        <4>2. job[p][n].at \in {"waiting", "releasing"} /\ Busy(p)
          BY <2>2, <3>4, <4>1 DEF IInv, OneInWork, HandStep, Busy
        <4> QED
          BY <3>4, <4>2 DEF HandStep, InWork
      <3> QED
        BY <3>1, <3>2, <3>3, <3>4
    <2> QED
      BY <2>1, <2>2 DEF OneInWork
  <1>3. SentOnce'
    <2> SUFFICES ASSUME NEW m \in Rows, blame'[m] = {}
                 PROVE  \/ sent'[m] = 0
                        \/ /\ sent'[m] = 1
                           /\ \/ row'[m].status = "COMPLETED"
                              \/ \E q \in Processors : job'[q][m].at = "completing"
      BY DEF SentOnce
    <2>1. blame[m] = {}
      BY DEF HandStep, Remembered
    <2>2. \/ sent[m] = 0
          \/ /\ sent[m] = 1
             /\ \/ row[m].status = "COMPLETED"
                \/ \E q \in Processors : job[q][m].at = "completing"
      BY <2>1 DEF IInv, SentOnce
    <2>3. CASE m # n
      BY <2>2, <2>3 DEF HandStep
    <2>4. CASE m = n
      <3>1. row[n].status = "COMPLETED" => row'[n].status = "COMPLETED"
        BY <2>4, WriterOwns
      <3>2. ASSUME job[p][n].at \in {"delivering", "completing"}
            PROVE  /\ row[n].status = "PROCESSING"
                   /\ \A q \in Processors : job[q][n].at = "completing" => q = p
        BY <2>1, <2>4, <3>2 DEF IInv, LockKept, Writing
      <3>3. CASE sent'[n] = sent[n] /\ job[p][n].at # "completing"
        <4>1. \A q \in Processors : job[q][n].at = "completing" => job'[q][n].at = "completing"
          BY <3>3 DEF HandStep
        <4> QED
          BY <2>2, <2>4, <3>1, <3>3, <4>1
      <3>4. CASE /\ job[p][n].at = "delivering" /\ job'[p][n].at = "completing"
                 /\ sent[n] = 0 => sent'[n] = 1
        BY <2>2, <2>4, <3>2, <3>4
      <3>5. CASE /\ job[p][n].at = "completing"
                 /\ row[n].status = "PROCESSING" =>
                      sent'[n] = 0 \/ (sent'[n] = sent[n] /\ row'[n].status = "COMPLETED")
        BY <2>2, <2>4, <3>2, <3>5
      <3> QED
        BY <2>4, <3>3, <3>4, <3>5 DEF HandStep, Counted
    <2> QED
      BY <2>3, <2>4
  <1> QED
    BY <1>1, <1>2, <1>3

(***************************************************************************)
(* Every work step has the shape of HandStep                               *)
(***************************************************************************)

LEMMA NoJobType == NoJob \in SoundJob /\ NoJob.at = "none"
  BY AttemptsType DEF NoJob, SoundJob, Job, Stages, Attempts

LEMMA JobFields ==
  ASSUME TypeInv, NEW p \in Processors, NEW n \in Rows
  PROVE  /\ job[p][n] \in SoundJob /\ job[p][n] \in Job /\ job[p][n].at \in Stages
         /\ job[p][n].retries \in Nat /\ job[p][n].retries < Attempts
         /\ job[p][n].fatal \in BOOLEAN
  <1>1. job[p][n] \in SoundJob
    <2>1. job \in [Processors -> [Rows -> SoundJob]]
      BY DEF TypeInv
    <2> QED
      BY <2>1
  <1>2. /\ job[p][n].at \in Stages /\ job[p][n].retries \in 0 .. AtLeastOne(MaxRetries)
        /\ job[p][n].fatal \in BOOLEAN /\ job[p][n] \in Job /\ job[p][n].retries < Attempts
    BY <1>1 DEF SoundJob, Job
  <1> QED
    BY <1>1, <1>2, AttemptsType DEF Attempts

LEMMA AdvancedJob ==
  ASSUME TypeInv, NEW p \in Processors, NEW n \in Rows, NEW stage \in Stages
  PROVE  /\ [job[p][n] EXCEPT !.at = stage] \in SoundJob
         /\ [job[p][n] EXCEPT !.at = stage].at = stage
  <1>1. job[p][n] \in Job /\ job[p][n].retries < Attempts
    BY JobFields
  <1> QED
    BY <1>1 DEF SoundJob, Job

LEMMA JobSet ==
  ASSUME TypeInv, NEW p \in Processors, NEW n \in Rows, NEW j \in SoundJob, SetJob(p, n, j)
  PROVE  /\ job' \in [Processors -> [Rows -> SoundJob]] /\ job'[p][n] = j
         /\ \A q \in Processors, m \in Rows : q # p \/ m # n => job'[q][m] = job[q][m]
  BY DEF TypeInv, SetJob

LEMMA Advanced ==
  ASSUME TypeInv, NEW p \in Processors, NEW n \in Rows, NEW stage \in Stages,
         Advance(p, n, stage)
  PROVE  /\ job' \in [Processors -> [Rows -> SoundJob]] /\ job'[p][n].at = stage
         /\ \A q \in Processors, m \in Rows : q # p \/ m # n => job'[q][m] = job[q][m]
  <1> DEFINE j == [job[p][n] EXCEPT !.at = stage]
  <1>1. SetJob(p, n, j)
    BY DEF Advance
  <1>2. j \in SoundJob /\ j.at = stage
    BY AdvancedJob
  <1> HIDE DEF j
  <1> QED
    BY <1>1, <1>2, JobSet

LEMMA Dropped ==
  ASSUME TypeInv, NEW p \in Processors, NEW n \in Rows, SetJob(p, n, NoJob)
  PROVE  /\ job' \in [Processors -> [Rows -> SoundJob]] /\ job'[p][n].at = "none"
         /\ \A q \in Processors, m \in Rows : q # p \/ m # n => job'[q][m] = job[q][m]
  BY NoJobType, JobSet

LEMMA RowSet ==
  ASSUME TypeInv, NEW n \in Rows, NEW r \in Sound, SetRow(n, r)
  PROVE  /\ row' \in [Rows -> Sound] /\ row'[n] = r
         /\ \A m \in Rows : m # n => row'[m] = row[m]
  BY DEF TypeInv, SetRow

LEMMA Blamed ==
  ASSUME TypeInv, NEW n \in Rows,
         NEW kind \in {"lock expired", "fault", "unlogged", "stop", "requeued"},
         blame' = [blame EXCEPT ![n] = @ \cup {kind}]
  PROVE  /\ blame' \in [Rows -> SUBSET {"lock expired", "fault", "unlogged", "stop", "requeued"}]
         /\ \A m \in Rows : blame[m] \subseteq blame'[m]
         /\ kind \in blame'[n]
  BY DEF TypeInv

LEMMA Disturbed == TypeInv /\ Disturb => disturbances' \in 0 .. MaxDisturbances
  <1>1. MaxDisturbances \in Nat
    BY SchedulingAssumption
  <1>2. TypeInv => disturbances \in 0 .. MaxDisturbances
    BY DEF TypeInv
  <1> QED
    BY <1>1, <1>2 DEF Disturb

LEMMA BudgetBounds ==
  ASSUME TypeInv, NEW p \in Processors, NEW n \in Rows
  PROVE  /\ budget(p, n) \in Nat
         /\ job[p][n].retries + 1 < budget(p, n) => job[p][n].retries + 1 < Attempts
  <1>1. /\ job[p][n].retries \in Nat /\ job[p][n].retries < Attempts
        /\ job[p][n].fatal \in BOOLEAN
    BY JobFields
  <1>2. resolveMaxAttempts(MaxRetries) \in Nat /\ resolveMaxAttempts(MaxRetries) <= Attempts
    BY SchedulingAssumption, RetryPolicyAssumption DEF resolveMaxAttempts, Attempts, AtLeastOne
  <1>3. budget(p, n) \in {job[p][n].retries + 1, resolveMaxAttempts(MaxRetries), MaxRetries}
    BY <1>1 DEF budget
  <1> QED
    BY <1>1, <1>2, <1>3, AttemptsType, SchedulingAssumption

LEMMA ExpireOverdueHand ==
  ASSUME TypeInv, NEW p \in Processors, NEW n \in Rows, expireOverdue(p, n)
  PROVE  TypeInv' /\ HandStep(p, n)
  <1>1. row[n] \in Sound
    BY DEF TypeInv
  <1>2. /\ row' \in [Rows -> Sound] /\ row'[n] = markAsExpired(row[n])
        /\ \A m \in Rows : m # n => row'[m] = row[m]
    BY <1>1, ExpiredRow, RowSet DEF expireOverdue
  <1>3. /\ job' \in [Processors -> [Rows -> SoundJob]] /\ job'[p][n].at = "none"
        /\ \A q \in Processors, m \in Rows : q # p \/ m # n => job'[q][m] = job[q][m]
    BY Dropped DEF expireOverdue
  <1>4. /\ job[p][n].at = "overdue"
        /\ UNCHANGED <<dlq, polling, process, disturbances, sent, blame>>
    BY DEF expireOverdue, history
  <1>5. row'[n] = row[n] \/ row'[n].status = "EXPIRED"
    BY <1>1, <1>2, ExpiredRow
  <1>6. TypeInv'
    BY <1>2, <1>3, <1>4 DEF TypeInv
  <1>7. HandStep(p, n)
    BY <1>2, <1>3, <1>4, <1>5 DEF HandStep, Counted, Remembered, Writing, InWork
  <1> QED
    BY <1>6, <1>7

LEMMA ReleaseHand ==
  ASSUME TypeInv, NEW p \in Processors, NEW n \in Rows, release(p, n)
  PROVE  TypeInv' /\ HandStep(p, n)
  <1> DEFINE r == markAsFailedOrRetry(row[n], job[p][n].retries, MaxRetries, "none", "released")
  <1>1. row[n] \in Sound /\ job[p][n].retries \in Nat /\ job[p][n].retries < Attempts
    BY JobFields DEF TypeInv
  <1>2. r \in Sound
    <2>1. MaxRetries \in Nat /\ job[p][n].retries + 1 < MaxRetries => job[p][n].retries + 1 < Attempts
      BY <1>1, AttemptsType, SchedulingAssumption
    <2>2. "none" \in RetryAt /\ "released" \in Errors
      BY DEF RetryAt, Errors
    <2>3. MaxRetries \in Nat
      BY SchedulingAssumption
    <2> QED
      BY <1>1, <2>1, <2>2, <2>3, FailedRow
  <1>3. /\ row' \in [Rows -> Sound] /\ \A m \in Rows : m # n => row'[m] = row[m]
    BY <1>2, RowSet DEF release
  <1>4. /\ job' \in [Processors -> [Rows -> SoundJob]]
        /\ \A q \in Processors, m \in Rows : q # p \/ m # n => job'[q][m] = job[q][m]
        /\ job'[p][n].at \in {"none", "isolating"}
        /\ row'[n].status = "DEAD_LETTERED" => job'[p][n].at = "isolating"
    BY Dropped, Advanced DEF release, Stages
  <1>5. /\ job[p][n].at \in {"releasing", "waiting"}
        /\ ~Busy(p) /\ \A m \in Rows : job[p][m].at # "overdue"
        /\ UNCHANGED <<dlq, polling, process, disturbances, sent, blame>>
    BY DEF release, Releases, history
  <1>6. TypeInv'
    BY <1>3, <1>4, <1>5 DEF TypeInv
  <1>7. HandStep(p, n)
    BY <1>3, <1>4, <1>5 DEF HandStep, Counted, Remembered, Writing, InWork
  <1> QED
    BY <1>6, <1>7

LEMMA StartExpiredHand ==
  ASSUME TypeInv, NEW p \in Processors, NEW n \in Rows, startExpired(p, n)
  PROVE  TypeInv' /\ HandStep(p, n)
  <1>1. row[n] \in Sound
    BY DEF TypeInv
  <1>2. /\ row' \in [Rows -> Sound] /\ row'[n] = markAsExpired(row[n])
        /\ \A m \in Rows : m # n => row'[m] = row[m]
    BY <1>1, ExpiredRow, RowSet DEF startExpired
  <1>3. /\ job' \in [Processors -> [Rows -> SoundJob]] /\ job'[p][n].at \in {"logging", "noting"}
        /\ \A q \in Processors, m \in Rows : q # p \/ m # n => job'[q][m] = job[q][m]
    BY Advanced DEF startExpired, Stages
  <1>4. /\ job[p][n].at = "waiting" /\ ~Busy(p) /\ \A m \in Rows : job[p][m].at # "overdue"
        /\ UNCHANGED <<dlq, polling, process, disturbances, sent, blame>>
    BY DEF startExpired, Starts, history
  <1>5. row'[n] = row[n] \/ row'[n].status = "EXPIRED"
    BY <1>1, <1>2, ExpiredRow
  <1>6. TypeInv'
    BY <1>2, <1>3, <1>4 DEF TypeInv
  <1>7. HandStep(p, n)
    BY <1>2, <1>3, <1>4, <1>5 DEF HandStep, Counted, Remembered, Writing, InWork
  <1> QED
    BY <1>6, <1>7

LEMMA StartHeldHand ==
  ASSUME TypeInv, NEW p \in Processors, NEW n \in Rows, startHeld(p, n)
  PROVE  TypeInv' /\ HandStep(p, n)
  <1>1. row[n] \in Sound
    BY DEF TypeInv
  <1>2. /\ row' \in [Rows -> Sound] /\ row'[n] = holdForIntervention(row[n])
        /\ \A m \in Rows : m # n => row'[m] = row[m]
    BY <1>1, HeldRow, RowSet DEF startHeld
  <1>3. /\ job' \in [Processors -> [Rows -> SoundJob]] /\ job'[p][n].at = "logging"
        /\ \A q \in Processors, m \in Rows : q # p \/ m # n => job'[q][m] = job[q][m]
    BY Advanced DEF startHeld, Stages
  <1>4. /\ job[p][n].at = "waiting" /\ ~Busy(p) /\ \A m \in Rows : job[p][m].at # "overdue"
        /\ UNCHANGED <<dlq, polling, process, disturbances, sent, blame>>
    BY DEF startHeld, Starts, history
  <1>5. row'[n] = row[n] \/ row'[n].status = "PENDING"
    BY <1>1, <1>2, HeldRow
  <1>6. TypeInv'
    BY <1>2, <1>3, <1>4 DEF TypeInv
  <1>7. HandStep(p, n)
    BY <1>2, <1>3, <1>4, <1>5 DEF HandStep, Counted, Remembered, Writing, InWork
  <1> QED
    BY <1>6, <1>7

LEMMA StartDeliveryHand ==
  ASSUME TypeInv, NEW p \in Processors, NEW n \in Rows, startDelivery(p, n)
  PROVE  TypeInv' /\ HandStep(p, n)
  <1>1. /\ job' \in [Processors -> [Rows -> SoundJob]] /\ job'[p][n].at = "delivering"
        /\ \A q \in Processors, m \in Rows : q # p \/ m # n => job'[q][m] = job[q][m]
    BY Advanced DEF startDelivery, Stages
  <1>2. /\ job[p][n].at = "waiting" /\ ~Busy(p) /\ \A m \in Rows : job[p][m].at # "overdue"
        /\ UNCHANGED <<row, dlq, polling, process, disturbances, sent, blame>>
    BY DEF startDelivery, Starts, history
  <1>3. TypeInv'
    BY <1>1, <1>2 DEF TypeInv
  <1>4. HandStep(p, n)
    BY <1>1, <1>2 DEF HandStep, Counted, Remembered, Writing, InWork
  <1> QED
    BY <1>3, <1>4

LEMMA AcceptedCount ==
  ASSUME TypeInv, NEW n \in Rows, Accepted(n)
  PROVE  /\ sent' \in [Rows -> 0 .. 2] /\ (sent[n] = 0 => sent'[n] = 1)
         /\ \A m \in Rows : m # n => sent'[m] = sent[m]
  <1>1. sent \in [Rows -> 0 .. 2]
    BY DEF TypeInv
  <1> DEFINE k == IF sent[n] < 2 THEN sent[n] + 1 ELSE sent[n]
  <1>2. k \in 0 .. 2 /\ (sent[n] = 0 => k = 1)
    BY <1>1
  <1>3. sent' = [sent EXCEPT ![n] = k]
    BY <1>1 DEF Accepted
  <1> HIDE DEF k
  <1> QED
    BY <1>1, <1>2, <1>3

LEMMA DeliverySucceedsHand ==
  ASSUME TypeInv, NEW p \in Processors, NEW n \in Rows, deliverySucceeds(p, n)
  PROVE  TypeInv' /\ HandStep(p, n)
  <1>1. /\ job' \in [Processors -> [Rows -> SoundJob]] /\ job'[p][n].at = "completing"
        /\ \A q \in Processors, m \in Rows : q # p \/ m # n => job'[q][m] = job[q][m]
    BY Advanced DEF deliverySucceeds, Stages
  <1>2. /\ job[p][n].at = "delivering"
        /\ UNCHANGED <<row, dlq, polling, process, disturbances, blame>>
    BY DEF deliverySucceeds
  <1>3. /\ sent' \in [Rows -> 0 .. 2] /\ (sent[n] = 0 => sent'[n] = 1)
        /\ \A m \in Rows : m # n => sent'[m] = sent[m]
    BY AcceptedCount DEF deliverySucceeds
  <1>4. TypeInv'
    BY <1>1, <1>2, <1>3 DEF TypeInv
  <1>5. HandStep(p, n)
    BY <1>1, <1>2, <1>3 DEF HandStep, Counted, Remembered, Writing, InWork
  <1> QED
    BY <1>4, <1>5

LEMMA DeliveryFailsHand ==
  ASSUME TypeInv, NEW p \in Processors, NEW n \in Rows, deliveryFails(p, n)
  PROVE  TypeInv' /\ HandStep(p, n)
  <1>1. PICK fatal \in BOOLEAN :
          SetJob(p, n, [job[p][n] EXCEPT !.at = "failing", !.fatal = fatal])
    BY DEF deliveryFails
  <1> DEFINE j == [job[p][n] EXCEPT !.at = "failing", !.fatal = fatal]
  <1>2. j \in SoundJob /\ j.at = "failing"
    <2>1. job[p][n] \in Job /\ job[p][n].retries < Attempts
      BY JobFields
    <2> QED
      BY <2>1 DEF SoundJob, Job, Stages
  <1>3. /\ job' \in [Processors -> [Rows -> SoundJob]] /\ job'[p][n].at = "failing"
        /\ \A q \in Processors, m \in Rows : q # p \/ m # n => job'[q][m] = job[q][m]
    <2>1. SetJob(p, n, j)
      BY <1>1
    <2> HIDE DEF j
    <2> QED
      BY <1>2, <2>1, JobSet
  <1>4. /\ job[p][n].at = "delivering"
        /\ UNCHANGED <<row, dlq, polling, process, disturbances, sent, blame>>
    BY DEF deliveryFails, history
  <1>5. TypeInv'
    BY <1>3, <1>4 DEF TypeInv
  <1>6. HandStep(p, n)
    BY <1>3, <1>4 DEF HandStep, Counted, Remembered, Writing, InWork
  <1> QED
    BY <1>5, <1>6

LEMMA CompleteHand ==
  ASSUME TypeInv, NEW p \in Processors, NEW n \in Rows, complete(p, n)
  PROVE  TypeInv' /\ HandStep(p, n)
  <1> DEFINE r == markAsCompleted(row[n], n \in Recurring)
  <1>1. row[n] \in Sound
    BY DEF TypeInv
  <1>2. /\ r \in Sound
        /\ \/ r = row[n] /\ row[n].status # "PROCESSING"
           \/ r.status = "COMPLETED"
           \/ r.status = "PENDING" /\ r.runs # row[n].runs
    <2>1. (n \in Recurring) \in BOOLEAN
      OBVIOUS
    <2> QED
      BY <1>1, <2>1, CompletedRow
  <1> HIDE DEF r
  <1>3. /\ row' \in [Rows -> Sound] /\ row'[n] = r
        /\ \A m \in Rows : m # n => row'[m] = row[m]
    BY <1>2, RowSet DEF complete, r
  <1>4. /\ job' \in [Processors -> [Rows -> SoundJob]] /\ job'[p][n].at = "logging"
        /\ \A q \in Processors, m \in Rows : q # p \/ m # n => job'[q][m] = job[q][m]
    BY Advanced DEF complete, Stages
  <1>5. /\ job[p][n].at = "completing"
        /\ UNCHANGED <<dlq, polling, process, disturbances, blame>>
        /\ sent' = IF row'[n].runs # row[n].runs /\ row'[n].status = "PENDING"
                   THEN [sent EXCEPT ![n] = 0] ELSE sent
    BY DEF complete
  <1>6. /\ sent' \in [Rows -> 0 .. 2] /\ \A m \in Rows : m # n => sent'[m] = sent[m]
        /\ row'[n].runs # row[n].runs /\ row'[n].status = "PENDING" => sent'[n] = 0
        /\ ~(row'[n].runs # row[n].runs /\ row'[n].status = "PENDING") => sent' = sent
    <2>1. sent \in [Rows -> 0 .. 2]
      BY DEF TypeInv
    <2>2. CASE row'[n].runs # row[n].runs /\ row'[n].status = "PENDING"
      BY <1>5, <2>1, <2>2
    <2>3. CASE ~(row'[n].runs # row[n].runs /\ row'[n].status = "PENDING")
      BY <1>5, <2>1, <2>3
    <2> QED
      BY <2>2, <2>3
  <1>7. TypeInv'
    BY <1>3, <1>4, <1>5, <1>6 DEF TypeInv
  <1>8. Counted(p, n)
    BY <1>2, <1>3, <1>5, <1>6 DEF Counted
  <1>9. HandStep(p, n)
    BY <1>2, <1>3, <1>4, <1>5, <1>6, <1>8 DEF HandStep, Remembered, Writing, InWork
  <1> QED
    BY <1>7, <1>9

LEMMA LogExecutionHand ==
  ASSUME TypeInv, NEW p \in Processors, NEW n \in Rows, logExecution(p, n)
  PROVE  TypeInv' /\ HandStep(p, n)
  <1>1. /\ job' \in [Processors -> [Rows -> SoundJob]] /\ job'[p][n].at = "none"
        /\ \A q \in Processors, m \in Rows : q # p \/ m # n => job'[q][m] = job[q][m]
    BY Dropped DEF logExecution
  <1>2. /\ job[p][n].at \in {"logging", "noting"}
        /\ UNCHANGED <<row, dlq, polling, process, disturbances, sent, blame>>
    BY DEF logExecution, history
  <1>3. TypeInv'
    BY <1>1, <1>2 DEF TypeInv
  <1>4. HandStep(p, n)
    BY <1>1, <1>2 DEF HandStep, Counted, Remembered, Writing, InWork
  <1> QED
    BY <1>3, <1>4

LEMMA FailHand ==
  ASSUME TypeInv, NEW p \in Processors, NEW n \in Rows, fail(p, n)
  PROVE  TypeInv' /\ HandStep(p, n)
  <1> DEFINE r == markAsFailedOrRetry(row[n], job[p][n].retries, budget(p, n), "backoff", "failed")
  <1>1. row[n] \in Sound /\ job[p][n].retries \in Nat /\ job[p][n].retries < Attempts
    BY JobFields DEF TypeInv
  <1>2. r \in Sound
    BY <1>1, FailedRow, BudgetBounds DEF RetryAt, Errors
  <1>3. /\ row' \in [Rows -> Sound] /\ \A m \in Rows : m # n => row'[m] = row[m]
    BY <1>2, RowSet DEF fail
  <1>4. /\ job' \in [Processors -> [Rows -> SoundJob]]
        /\ \A q \in Processors, m \in Rows : q # p \/ m # n => job'[q][m] = job[q][m]
        /\ job'[p][n].at \in {"noting", "isolating"}
        /\ row'[n].status = "DEAD_LETTERED" => job'[p][n].at = "isolating"
    BY Advanced DEF fail, Stages
  <1>5. /\ job[p][n].at = "failing"
        /\ UNCHANGED <<dlq, polling, process, disturbances, sent, blame>>
    BY DEF fail, history
  <1>6. TypeInv'
    BY <1>3, <1>4, <1>5 DEF TypeInv
  <1>7. HandStep(p, n)
    BY <1>3, <1>4, <1>5 DEF HandStep, Counted, Remembered, Writing, InWork
  <1> QED
    BY <1>6, <1>7

LEMMA MoveHand ==
  ASSUME TypeInv, NEW p \in Processors, NEW n \in Rows, moveToDeadLetterQueue(p, n)
  PROVE  TypeInv' /\ HandStep(p, n)
  <1>1. /\ job' \in [Processors -> [Rows -> SoundJob]] /\ job'[p][n].at = "noting"
        /\ \A q \in Processors, m \in Rows : q # p \/ m # n => job'[q][m] = job[q][m]
    BY Advanced DEF moveToDeadLetterQueue, Stages
  <1>2. /\ job[p][n].at = "isolating" /\ dlq' = dlq \cup {n}
        /\ UNCHANGED <<row, polling, process, disturbances, sent, blame>>
    BY DEF moveToDeadLetterQueue, history
  <1>3. TypeInv'
    BY <1>1, <1>2 DEF TypeInv
  <1>4. HandStep(p, n)
    BY <1>1, <1>2 DEF HandStep, Counted, Remembered, Writing, InWork
  <1> QED
    BY <1>3, <1>4

LEMMA AcknowledgmentLostHand ==
  ASSUME TypeInv, NEW p \in Processors, NEW n \in Rows, acknowledgmentLost(p, n)
  PROVE  TypeInv' /\ HandStep(p, n)
  <1>1. /\ job' \in [Processors -> [Rows -> SoundJob]] /\ job'[p][n].at = "failing"
        /\ \A q \in Processors, m \in Rows : q # p \/ m # n => job'[q][m] = job[q][m]
    BY Advanced DEF acknowledgmentLost, Stages
  <1>2. /\ job[p][n].at = "delivering" /\ disturbances' \in 0 .. MaxDisturbances
        /\ UNCHANGED <<row, dlq, polling, process>>
    BY Disturbed DEF acknowledgmentLost, Fault
  <1>3. /\ sent' \in [Rows -> 0 .. 2] /\ \A m \in Rows : m # n => sent'[m] = sent[m]
    BY AcceptedCount DEF acknowledgmentLost
  <1>4. /\ blame' \in [Rows -> SUBSET {"lock expired", "fault", "unlogged", "stop", "requeued"}]
        /\ \A m \in Rows : blame[m] \subseteq blame'[m]
        /\ "fault" \in blame'[n]
    BY Blamed DEF acknowledgmentLost, Fault
  <1>5. TypeInv'
    BY <1>1, <1>2, <1>3, <1>4 DEF TypeInv
  <1>6. HandStep(p, n)
    BY <1>1, <1>2, <1>3, <1>4 DEF HandStep, Counted, Remembered, Writing, InWork
  <1> QED
    BY <1>5, <1>6

LEMMA CaughtHand ==
  ASSUME TypeInv, NEW p \in Processors, NEW n \in Rows, Caught(p, n)
  PROVE  TypeInv' /\ HandStep(p, n)
  <1> DEFINE kind == IF job[p][n].at = "logging" THEN "unlogged" ELSE "fault"
  <1>1. /\ job' \in [Processors -> [Rows -> SoundJob]] /\ job'[p][n].at = "failing"
        /\ \A q \in Processors, m \in Rows : q # p \/ m # n => job'[q][m] = job[q][m]
    BY Advanced DEF Caught, Stages
  <1>2. /\ job[p][n].at \in {"completing", "logging"} /\ disturbances' \in 0 .. MaxDisturbances
        /\ UNCHANGED <<row, dlq, polling, process, sent>>
    BY Disturbed DEF Caught
  <1>3. /\ blame' \in [Rows -> SUBSET {"lock expired", "fault", "unlogged", "stop", "requeued"}]
        /\ \A m \in Rows : blame[m] \subseteq blame'[m]
        /\ kind \in blame'[n]
    <2>1. blame' = [blame EXCEPT ![n] = @ \cup {kind}]
      BY DEF Caught
    <2>2. kind \in {"lock expired", "fault", "unlogged", "stop", "requeued"}
      OBVIOUS
    <2> HIDE DEF kind
    <2> QED
      BY <2>1, <2>2, Blamed
  <1>4. job[p][n].at = "completing" \/ "unlogged" \in blame'[n]
    BY <1>2, <1>3
  <1> HIDE DEF kind
  <1>5. TypeInv'
    BY <1>1, <1>2, <1>3 DEF TypeInv
  <1>6. HandStep(p, n)
    BY <1>1, <1>2, <1>3, <1>4 DEF HandStep, Counted, Remembered, Writing, InWork
  <1> QED
    BY <1>5, <1>6

(***************************************************************************)
(* The steps that move no processor have the shape of QuietStep            *)
(***************************************************************************)

LEMMA LockedRow ==
  ASSUME NEW r \in Sound, NEW b \in BOOLEAN
  PROVE  /\ [r EXCEPT !.lock = b] \in Sound
         /\ [r EXCEPT !.lock = b].status = r.status /\ [r EXCEPT !.lock = b].error = r.error
         /\ [r EXCEPT !.lock = b].owner = r.owner
  <1> DEFINE e == [r EXCEPT !.lock = b]
  <1>1. r \in Row
    BY SoundRow
  <1>2. /\ e \in Row /\ e.status = r.status /\ e.error = r.error /\ e.owner = r.owner
        /\ e.retries = r.retries
    BY <1>1 DEF Row
  <1> QED
    BY <1>2, SoundRow

\* Columns that decide neither the status, the lock nor the attempts left.
Touches(r, e) ==
    \/ \E b \in BOOLEAN : e = [r EXCEPT !.due = b] \/ e = [r EXCEPT !.late = b]
    \/ \E t \in RetryAt : e = [r EXCEPT !.retryAt = t]

LEMMA TouchedRow ==
  ASSUME NEW r \in Sound, NEW e, Touches(r, e)
  PROVE  /\ e \in Sound /\ e.status = r.status /\ e.error = r.error
         /\ e.owner = r.owner /\ e.lock = r.lock
  <1>1. r \in Row
    BY SoundRow
  <1>2. /\ e \in Row /\ e.status = r.status /\ e.error = r.error /\ e.owner = r.owner
        /\ e.retries = r.retries /\ e.lock = r.lock
    <2>1. CASE \E b \in BOOLEAN : e = [r EXCEPT !.due = b]
      BY <1>1, <2>1 DEF Row
    <2>2. CASE \E b \in BOOLEAN : e = [r EXCEPT !.late = b]
      BY <1>1, <2>2 DEF Row
    <2>3. CASE \E t \in RetryAt : e = [r EXCEPT !.retryAt = t]
      BY <1>1, <2>3 DEF Row, RetryAt
    <2> QED
      BY <2>1, <2>2, <2>3 DEF Touches
  <1> QED
    BY <1>2, SoundRow

LEMMA CancelledRow ==
  ASSUME NEW r \in Sound
  PROVE  /\ [r EXCEPT !.status = "CANCELLED"] \in Sound
         /\ [r EXCEPT !.status = "CANCELLED"].status = "CANCELLED"
  <1>1. r \in Row
    BY SoundRow
  <1> QED
    BY <1>1 DEF Row, Sound, Live, NotificationStatus

LEMMA ResolvedRow ==
  ASSUME NEW r \in Sound, r.status = "PENDING", NEW s \in {"PENDING", "EXPIRED"}
  PROVE  /\ [r EXCEPT !.status = s, !.held = FALSE] \in Sound
         /\ [r EXCEPT !.status = s, !.held = FALSE].status = s
  <1> DEFINE e == [r EXCEPT !.status = s, !.held = FALSE]
  <1>1. r \in Row /\ r.retries < Attempts
    BY SoundRow DEF Live
  <1>2. e \in Row /\ e.status = s /\ e.retries = r.retries
    BY <1>1 DEF Row, NotificationStatus
  <1> HIDE DEF e
  <1>3. e \in Sound /\ e.status = s
    BY <1>1, <1>2, SoundRow
  <1> QED
    BY <1>3 DEF e

LEMMA RequeuedRow ==
  ASSUME NEW r \in Sound
  PROVE  /\ [r EXCEPT !.status = "PENDING", !.retries = 0, !.retryAt = "none",
                      !.error = "none"] \in Sound
         /\ [r EXCEPT !.status = "PENDING", !.retries = 0, !.retryAt = "none",
                      !.error = "none"].status = "PENDING"
  <1> DEFINE e == [r EXCEPT !.status = "PENDING", !.retries = 0, !.retryAt = "none",
                            !.error = "none"]
  <1>1. r \in Row /\ 0 \in 0 .. AtLeastOne(MaxRetries) /\ 0 < Attempts
    BY SoundRow, AttemptsType DEF Attempts
  <1>2. e \in Row /\ e.status = "PENDING" /\ e.retries = 0
    BY <1>1 DEF Row, NotificationStatus
  <1> HIDE DEF e
  <1>3. e \in Sound /\ e.status = "PENDING"
    BY <1>1, <1>2, SoundRow
  <1> QED
    BY <1>3 DEF e

\* One row changes, and no processor, process or dead letter with it.
LEMMA OneRowQuiet ==
  ASSUME TypeInv, NEW n \in Rows, NEW r \in Sound, SetRow(n, r),
         UNCHANGED <<dlq, job, polling, process, sent>>,
         disturbances' \in 0 .. MaxDisturbances,
         blame' \in [Rows -> SUBSET {"lock expired", "fault", "unlogged", "stop", "requeued"}],
         \A m \in Rows : blame[m] \subseteq blame'[m],
         row'[n] = r => Quiet(n)
  PROVE  TypeInv' /\ QuietStep
  <1>1. /\ row' \in [Rows -> Sound] /\ row'[n] = r
        /\ \A m \in Rows : m # n => row'[m] = row[m]
    BY RowSet
  <1>2. TypeInv'
    BY <1>1 DEF TypeInv
  <1>3. \A m \in Rows : Quiet(m)
    BY <1>1 DEF Quiet
  <1>4. QuietStep
    BY <1>3 DEF QuietStep, Remembered
  <1> QED
    BY <1>2, <1>4

LEMMA LockExpiresQuiet ==
  ASSUME TypeInv, NEW n \in Rows, lockExpires(n) PROVE TypeInv' /\ QuietStep
  <1> DEFINE r == [row[n] EXCEPT !.lock = FALSE]
  <1>1. row[n] \in Sound /\ row[n].status = "PROCESSING" /\ SetRow(n, r)
    BY DEF TypeInv, lockExpires
  <1>2. r \in Sound /\ r.status = row[n].status /\ r.error = row[n].error /\ r.owner = row[n].owner
    BY <1>1, LockedRow
  <1> HIDE DEF r
  <1>3. UNCHANGED <<dlq, job, polling, process, sent>>
    BY DEF lockExpires
  <1>4. /\ disturbances' \in 0 .. MaxDisturbances
        /\ blame' \in [Rows -> SUBSET {"lock expired", "fault", "unlogged", "stop", "requeued"}]
        /\ \A m \in Rows : blame[m] \subseteq blame'[m]
        /\ job[row[n].owner][n].at = "none" \/ "lock expired" \in blame'[n]
    <2>1. CASE UNCHANGED <<disturbances, blame>> /\ job[row[n].owner][n].at = "none"
      BY <2>1 DEF TypeInv
    <2>2. CASE Disturb /\ blame' = [blame EXCEPT ![n] = @ \cup {"lock expired"}]
      BY <2>2, Disturbed, Blamed
    <2> QED
      BY <2>1, <2>2 DEF lockExpires
  <1>5. row'[n] = r => Quiet(n)
    BY <1>1, <1>2, <1>4 DEF Quiet
  <1> QED
    BY <1>1, <1>2, <1>3, <1>4, <1>5, OneRowQuiet

LEMMA RenewLockQuiet ==
  ASSUME TypeInv, NEW p \in Processors, NEW n \in Rows, renewLock(p, n)
  PROVE  TypeInv' /\ QuietStep
  <1> DEFINE r == [row[n] EXCEPT !.lock = TRUE]
  <1>1. row[n] \in Sound /\ SetRow(n, r) /\ ~row[n].lock
        /\ UNCHANGED <<dlq, job, polling, process, disturbances, sent, blame>>
    BY DEF TypeInv, renewLock, history
  <1>2. r \in Sound /\ r.status = row[n].status /\ r.error = row[n].error /\ r.owner = row[n].owner
    BY <1>1, LockedRow
  <1> HIDE DEF r
  <1>3. row'[n] = r => Quiet(n)
    BY <1>1, <1>2 DEF Quiet
  <1>4. /\ disturbances' \in 0 .. MaxDisturbances
        /\ blame' \in [Rows -> SUBSET {"lock expired", "fault", "unlogged", "stop", "requeued"}]
        /\ \A m \in Rows : blame[m] \subseteq blame'[m]
    BY <1>1 DEF TypeInv
  <1> QED
    BY <1>1, <1>2, <1>3, <1>4, OneRowQuiet

LEMMA TimePassesQuiet ==
  ASSUME TypeInv, NEW n \in Rows, becomesDue(n) \/ deadlinePasses(n) \/ backoffEnds(n)
  PROVE  TypeInv' /\ QuietStep
  <1>1. UNCHANGED <<dlq, job, polling, process, disturbances, sent, blame>>
    BY DEF becomesDue, deadlinePasses, backoffEnds, history
  <1>2. PICK r \in {[row[n] EXCEPT !.due = TRUE], [row[n] EXCEPT !.late = TRUE],
                    [row[n] EXCEPT !.retryAt = "none"]} : SetRow(n, r)
    BY DEF becomesDue, deadlinePasses, backoffEnds
  <1>3. row[n] \in Sound
    BY DEF TypeInv
  <1>4. /\ r \in Sound /\ r.status = row[n].status /\ r.error = row[n].error
        /\ r.owner = row[n].owner /\ (row[n].lock => r.lock)
    <2>1. Touches(row[n], r)
      BY <1>2 DEF Touches, RetryAt
    <2> QED
      BY <1>3, <2>1, TouchedRow
  <1>5. row'[n] = r => Quiet(n)
    BY <1>4 DEF Quiet
  <1>6. /\ disturbances' \in 0 .. MaxDisturbances
        /\ blame' \in [Rows -> SUBSET {"lock expired", "fault", "unlogged", "stop", "requeued"}]
        /\ \A m \in Rows : blame[m] \subseteq blame'[m]
    BY <1>1 DEF TypeInv
  <1> QED
    BY <1>1, <1>2, <1>4, <1>5, <1>6, OneRowQuiet

\* The requests that touch only rows that are pending.
LEMMA RequestQuiet ==
  ASSUME TypeInv, NEW n \in Rows, NEW r \in Sound, Request(n, r), UNCHANGED <<dlq, blame>>,
         row[n].status = "PENDING", r.status \in {"PENDING", "CANCELLED", "EXPIRED"}
  PROVE  TypeInv' /\ QuietStep
  <1>1. SetRow(n, r) /\ UNCHANGED <<job, polling, process, sent>>
    BY DEF Request
  <1>2. disturbances' \in 0 .. MaxDisturbances
    BY Disturbed DEF Request
  <1>3. /\ blame' \in [Rows -> SUBSET {"lock expired", "fault", "unlogged", "stop", "requeued"}]
        /\ \A m \in Rows : blame[m] \subseteq blame'[m]
    BY DEF TypeInv
  <1>4. row'[n] = r => Quiet(n)
    BY DEF Quiet
  <1> QED
    BY <1>1, <1>2, <1>3, <1>4, OneRowQuiet

LEMMA PendingRequestsQuiet ==
  ASSUME TypeInv, NEW n \in Rows,
         cancel(n) \/ updatePending(n) \/ releaseIntervention(n) \/ resolveAwaitingIntervention(n)
  PROVE  TypeInv' /\ QuietStep
  <1>1. row[n] \in Sound /\ row[n].status = "PENDING" /\ UNCHANGED <<dlq, blame>>
    BY DEF TypeInv, cancel, updatePending, releaseIntervention, resolveAwaitingIntervention
  <1>2. CASE cancel(n)
    BY <1>1, <1>2, CancelledRow, RequestQuiet DEF cancel
  <1>3. CASE updatePending(n)
    <2> DEFINE r == [row[n] EXCEPT !.due = FALSE]
    <2>1. Touches(row[n], r)
      BY DEF Touches, RetryAt
    <2>2. Request(n, r)
      BY <1>3 DEF updatePending
    <2> HIDE DEF r
    <2>3. r \in Sound /\ r.status = row[n].status
      BY <1>1, <2>1, TouchedRow
    <2> QED
      BY <1>1, <2>2, <2>3, RequestQuiet
  <1>4. CASE releaseIntervention(n)
    <2> DEFINE r == [row[n] EXCEPT !.retryAt = "released"]
    <2>1. Touches(row[n], r)
      BY DEF Touches, RetryAt
    <2>2. Request(n, r)
      BY <1>4 DEF releaseIntervention
    <2> HIDE DEF r
    <2>3. r \in Sound /\ r.status = row[n].status
      BY <1>1, <2>1, TouchedRow
    <2> QED
      BY <1>1, <2>2, <2>3, RequestQuiet
  <1>5. CASE resolveAwaitingIntervention(n)
    <2>1. PICK s \in {"PENDING", "EXPIRED"} :
            Request(n, [row[n] EXCEPT !.status = s, !.held = FALSE])
      BY <1>5 DEF resolveAwaitingIntervention
    <2> DEFINE r == [row[n] EXCEPT !.status = s, !.held = FALSE]
    <2>2. r \in Sound /\ r.status = s
      BY <1>1, ResolvedRow
    <2>3. Request(n, r)
      BY <2>1
    <2> HIDE DEF r
    <2> QED
      BY <1>1, <2>2, <2>3, RequestQuiet
  <1> QED
    BY <1>2, <1>3, <1>4, <1>5

LEMMA RequeueQuiet ==
  ASSUME TypeInv, NEW n \in Rows, retryDeadLetterNotification(n)
  PROVE  TypeInv' /\ QuietStep
  <1> DEFINE r == [row[n] EXCEPT !.status = "PENDING", !.retries = 0, !.retryAt = "none",
                                 !.error = "none"]
  <1>1. row[n] \in Sound
    BY DEF TypeInv
  <1>2. r \in Sound /\ r.status = "PENDING"
    BY <1>1, RequeuedRow
  <1>3. /\ Request(n, r) /\ UNCHANGED dlq
        /\ blame' = [blame EXCEPT ![n] = @ \cup {"requeued"}]
    BY DEF retryDeadLetterNotification
  <1> HIDE DEF r
  <1>4. /\ SetRow(n, r) /\ UNCHANGED <<dlq, job, polling, process, sent>>
        /\ disturbances' \in 0 .. MaxDisturbances
    BY <1>3, Disturbed DEF Request
  <1>5. /\ blame' \in [Rows -> SUBSET {"lock expired", "fault", "unlogged", "stop", "requeued"}]
        /\ \A m \in Rows : blame[m] \subseteq blame'[m]
        /\ "requeued" \in blame'[n]
    BY <1>3, Blamed
  <1>6. row'[n] = r => Quiet(n)
    BY <1>2, <1>5 DEF Quiet
  <1> QED
    BY <1>2, <1>4, <1>5, <1>6, OneRowQuiet

LEMMA PollQuiet ==
  ASSUME TypeInv, NEW p \in Processors, poll(p) PROVE TypeInv' /\ QuietStep
  <1>1. /\ row' = [n \in Rows |-> recoverStaleLocks(row[n])]
        /\ polling' = [polling EXCEPT ![p] = TRUE] /\ ~HasBatch(p)
        /\ UNCHANGED <<dlq, job, process, disturbances, sent, blame>>
    BY DEF poll, history
  <1>2. \A n \in Rows : row[n] \in Sound
    BY DEF TypeInv
  <1>3. row' \in [Rows -> Sound]
    BY <1>1, <1>2, RecoveredRow
  <1>4. ASSUME NEW n \in Rows PROVE Quiet(n)
    <2>1. row'[n] = recoverStaleLocks(row[n])
      BY <1>1
    <2>2. \/ row'[n] = row[n]
          \/ /\ row[n].status = "PROCESSING" /\ ~row[n].lock
             /\ row'[n].status \in {"PENDING", "DEAD_LETTERED"}
             /\ row'[n].error = "lock expired"
      BY <1>2, <2>1, RecoveredRow
    <2> QED
      BY <2>2 DEF Quiet
  <1>5. TypeInv'
    BY <1>1, <1>3 DEF TypeInv
  <1>6. \A q \in Processors : polling'[q] => polling[q] \/ ~HasBatch(q)
    BY <1>1 DEF TypeInv
  <1>7. QuietStep
    BY <1>1, <1>4, <1>6 DEF QuietStep, Remembered
  <1> QED
    BY <1>5, <1>7

LEMMA StartQuiet ==
  ASSUME TypeInv, NEW h \in Processes, start(h) PROVE TypeInv' /\ QuietStep
  <1>1. PICK policy \in RecoveryPolicies :
          row' = [n \in Rows |-> recoverOverdueSchedules(recoverStaleLocks(row[n]), policy)]
    BY DEF start
  <1>2. /\ process' = [process EXCEPT ![h] = "up"]
        /\ UNCHANGED <<dlq, job, polling, disturbances, sent, blame>>
    BY DEF start, history
  <1>3. \A n \in Rows : row[n] \in Sound /\ recoverStaleLocks(row[n]) \in Sound
    BY RecoveredRow DEF TypeInv
  <1>4. row' \in [Rows -> Sound]
    BY <1>1, <1>3, OverdueRow
  <1>5. ASSUME NEW n \in Rows PROVE Quiet(n)
    <2> DEFINE r == recoverStaleLocks(row[n])
    <2>1. /\ \/ r = row[n]
             \/ /\ row[n].status = "PROCESSING" /\ ~row[n].lock
                /\ r.status \in {"PENDING", "DEAD_LETTERED"} /\ r.error = "lock expired"
      BY <1>3, RecoveredRow DEF TypeInv
    <2>2. \/ row'[n] = r
          \/ r.status = "PENDING" /\ row'[n].status \in {"PENDING", "EXPIRED"}
      BY <1>1, <1>3, OverdueRow
    <2> HIDE DEF r
    <2> QED
      BY <2>1, <2>2 DEF Quiet
  <1>6. TypeInv'
    BY <1>2, <1>4 DEF TypeInv
  <1>7. QuietStep
    BY <1>2, <1>5 DEF QuietStep, Remembered
  <1> QED
    BY <1>6, <1>7

LEMMA ShutdownQuiet ==
  ASSUME TypeInv, NEW h \in Processes, shutdown(h) PROVE TypeInv' /\ QuietStep
  <1>1. /\ process' = [process EXCEPT ![h] = "closing"]
        /\ UNCHANGED <<row, dlq, job, polling, sent, blame>>
        /\ disturbances' \in 0 .. MaxDisturbances
    BY Disturbed DEF shutdown
  <1>2. TypeInv'
    BY <1>1 DEF TypeInv
  <1>3. QuietStep
    BY <1>1 DEF QuietStep, Remembered, Quiet
  <1> QED
    BY <1>2, <1>3

(***************************************************************************)
(* Claims, and the steps in which processors lose their work               *)
(***************************************************************************)

\* A row that p claims, and the job p makes of it.
RowOf(r, p) == [r EXCEPT !.status = "PROCESSING", !.owner = p, !.lock = TRUE]
JobOf(k, b, stage) == [NoJob EXCEPT !.retries = k, !.released = b, !.at = stage]

LEMMA ClaimedRow ==
  ASSUME NEW r \in Sound, r.status = "PENDING", NEW p \in Processors
  PROVE  /\ RowOf(r, p) \in Sound /\ RowOf(r, p).status = "PROCESSING"
         /\ RowOf(r, p).owner = p /\ RowOf(r, p).lock
  <1>1. r \in Row /\ r.retries < Attempts
    BY SoundRow DEF Live
  <1>2. /\ RowOf(r, p) \in Row /\ RowOf(r, p).status = "PROCESSING"
        /\ RowOf(r, p).retries = r.retries /\ RowOf(r, p).owner = p /\ RowOf(r, p).lock
    BY <1>1 DEF RowOf, Row, NotificationStatus
  <1> QED
    BY <1>1, <1>2, SoundRow

LEMMA ClaimedJob ==
  ASSUME NEW k \in Nat, k < Attempts, NEW b \in BOOLEAN, NEW stage \in Stages
  PROVE  JobOf(k, b, stage) \in SoundJob /\ JobOf(k, b, stage).at = stage
  <1>1. NoJob \in Job /\ k \in 0 .. AtLeastOne(MaxRetries)
    BY NoJobType, AttemptsType DEF Attempts, SoundJob
  <1>2. /\ JobOf(k, b, stage) \in Job /\ JobOf(k, b, stage).at = stage
        /\ JobOf(k, b, stage).retries = k
    BY <1>1 DEF JobOf, Job
  <1> QED
    BY <1>2 DEF SoundJob

LEMMA FetchClaims ==
  ASSUME TypeInv, NEW p \in Processors, fetchAndLock(p)
  PROVE  TypeInv' /\ \E S \in SUBSET Rows : ClaimStep(p, S)
  <1> DEFINE Stage(S, n) == IF p \in Schedulers /\ row[n].late THEN "overdue"
                            ELSE IF p \in Schedulers /\ DuplicateRecipient(S) THEN "releasing"
                            ELSE "waiting"
             J(S, n) == JobOf(row[n].retries, row[n].retryAt = "released", Stage(S, n))
             R(n) == RowOf(row[n], p)
  <1>1. PICK S \in SUBSET {n \in Rows : claimable(p, row[n])} :
          /\ row' = [n \in Rows |-> IF n \in S THEN R(n) ELSE row[n]]
          /\ job' = [job EXCEPT ![p] = [n \in Rows |-> IF n \in S THEN J(S, n) ELSE NoJob]]
    BY DEF fetchAndLock, RowOf, JobOf
  <1>2. /\ polling[p] /\ polling' = [polling EXCEPT ![p] = FALSE]
        /\ UNCHANGED <<dlq, process, disturbances, sent, blame>>
    BY DEF fetchAndLock, history
  <1>3. ASSUME NEW n \in S
        PROVE  /\ n \in Rows /\ row[n] \in Sound /\ row[n].status = "PENDING"
               /\ row[n].retries \in Nat /\ row[n].retries < Attempts
    <2>1. n \in Rows /\ row[n] \in Sound /\ row[n].status = "PENDING"
      BY DEF TypeInv, claimable, Pending
    <2> QED
      BY <2>1, SoundRow, RowFields DEF Live
  <1>4. ASSUME NEW n \in S
        PROVE  /\ R(n) \in Sound /\ R(n).status = "PROCESSING" /\ R(n).owner = p /\ R(n).lock
    BY <1>3, ClaimedRow
  <1>5. ASSUME NEW n \in S
        PROVE  J(S, n) \in SoundJob /\ J(S, n).at \in {"overdue", "releasing", "waiting"}
    <2>1. Stage(S, n) \in {"overdue", "releasing", "waiting"}
      OBVIOUS
    <2>2. Stage(S, n) \in Stages
      BY <2>1 DEF Stages
    <2>3. (row[n].retryAt = "released") \in BOOLEAN
      OBVIOUS
    <2> HIDE DEF Stage
    <2>4. J(S, n) \in SoundJob /\ J(S, n).at = Stage(S, n)
      BY <1>3, <2>2, <2>3, ClaimedJob
    <2> QED
      BY <2>1, <2>4
  <1> HIDE DEF J, R
  <1>6. row' \in [Rows -> Sound]
    BY <1>1, <1>4 DEF TypeInv
  <1>7. job' \in [Processors -> [Rows -> SoundJob]]
    <2> DEFINE batch == [n \in Rows |-> IF n \in S THEN J(S, n) ELSE NoJob]
    <2>1. batch \in [Rows -> SoundJob]
      BY <1>5, NoJobType
    <2>2. job' = [job EXCEPT ![p] = batch]
      BY <1>1
    <2> HIDE DEF batch
    <2> QED
      BY <2>1, <2>2 DEF TypeInv
  <1>8. TypeInv'
    BY <1>2, <1>6, <1>7 DEF TypeInv
  <1>9. /\ \A q \in Processors : q # p => job'[q] = job[q] /\ polling'[q] = polling[q]
        /\ ~polling'[p]
        /\ \A n \in Rows : job'[p][n] = IF n \in S THEN J(S, n) ELSE NoJob
    BY <1>1, <1>2 DEF TypeInv
  <1>10. \A n \in S : /\ row[n].status = "PENDING" /\ row'[n].status = "PROCESSING"
                      /\ row'[n].owner = p /\ row'[n].lock
                      /\ job'[p][n].at \in {"overdue", "releasing", "waiting"}
    BY <1>1, <1>3, <1>4, <1>5, <1>9
  <1>11. \A n \in Rows \ S : row'[n] = row[n] /\ job'[p][n].at = "none"
    BY <1>1, <1>9, NoJobType
  <1>12. ClaimStep(p, S)
    BY <1>2, <1>9, <1>10, <1>11 DEF ClaimStep
  <1> QED
    BY <1>8, <1>12

LEMMA EndsDrops ==
  ASSUME TypeInv, NEW h \in Processes, Ends(h), disturbances' \in 0 .. MaxDisturbances
  PROVE  TypeInv' /\ DropStep
  <1>1. /\ process' = [process EXCEPT ![h] = "down"]
        /\ job' = [p \in Processors |-> IF p \in At(h) THEN [n \in Rows |-> NoJob] ELSE job[p]]
        /\ polling' = [p \in Processors |-> p \notin At(h) /\ polling[p]]
        /\ blame' = [n \in Rows |-> IF \E p \in At(h) : InWork(p, n)
                                    THEN blame[n] \cup {"stop"} ELSE blame[n]]
        /\ UNCHANGED <<row, dlq, sent>>
    BY DEF Ends
  <1>2. job' \in [Processors -> [Rows -> SoundJob]]
    BY <1>1, NoJobType DEF TypeInv
  <1>3. polling' \in [Processors -> BOOLEAN]
    BY <1>1 DEF TypeInv
  <1>4. /\ blame' \in [Rows -> SUBSET {"lock expired", "fault", "unlogged", "stop", "requeued"}]
        /\ \A n \in Rows : blame[n] \subseteq blame'[n]
    BY <1>1 DEF TypeInv
  <1>5. TypeInv'
    BY <1>1, <1>2, <1>3, <1>4 DEF TypeInv
  <1>6. ASSUME NEW p \in Processors, NEW n \in Rows
        PROVE  \/ job'[p][n] = job[p][n]
               \/ /\ job'[p][n].at = "none"
                  /\ InWork(p, n) => blame'[n] \cap {"fault", "stop"} # {}
    <2>1. CASE p \in At(h)
      BY <1>1, <2>1, NoJobType
    <2>2. CASE p \notin At(h)
      BY <1>1, <2>2
    <2> QED
      BY <2>1, <2>2
  <1>7. \A p \in Processors : polling'[p] => polling[p]
    BY <1>1
  <1>8. DropStep
    BY <1>1, <1>4, <1>6, <1>7 DEF DropStep, Remembered
  <1> QED
    BY <1>5, <1>8

\* Only the row at whose statement the batch ends is in work.
LEMMA AbortDrops ==
  ASSUME TypeInv, OneInWork, NEW p \in Processors, NEW n \in Rows, BatchAborts(p, n)
  PROVE  TypeInv' /\ DropStep
  <1>1. /\ job' = [job EXCEPT ![p] = [m \in Rows |-> NoJob]]
        /\ UNCHANGED <<row, dlq, polling, process, sent>>
        /\ disturbances' \in 0 .. MaxDisturbances
        /\ blame' = [blame EXCEPT ![n] = @ \cup {"fault"}]
    BY Disturbed DEF BatchAborts, Fault
  <1>2. /\ blame' \in [Rows -> SUBSET {"lock expired", "fault", "unlogged", "stop", "requeued"}]
        /\ \A m \in Rows : blame[m] \subseteq blame'[m]
        /\ "fault" \in blame'[n]
    BY <1>1, Blamed
  <1>3. job' \in [Processors -> [Rows -> SoundJob]]
    <2>1. [m \in Rows |-> NoJob] \in [Rows -> SoundJob]
      BY NoJobType
    <2> QED
      BY <1>1, <2>1 DEF TypeInv
  <1>4. TypeInv'
    BY <1>1, <1>2, <1>3 DEF TypeInv
  <1>5. ASSUME NEW m \in Rows, InWork(p, m) PROVE m = n
    <2>1. Busy(p)
      BY <1>5 DEF Busy
    <2>2. job[p][n].at \in {"overdue", "failing", "isolating", "noting"}
      BY <2>1 DEF BatchAborts, Releases
    <2> QED
      BY <1>5, <2>2 DEF OneInWork
  <1>6. ASSUME NEW q \in Processors, NEW m \in Rows
        PROVE  \/ job'[q][m] = job[q][m]
               \/ /\ job'[q][m].at = "none"
                  /\ InWork(q, m) => blame'[m] \cap {"fault", "stop"} # {}
    <2>1. CASE q = p
      <3>1. job'[q][m].at = "none"
        BY <1>1, <2>1, NoJobType DEF TypeInv
      <3> QED
        BY <1>2, <1>5, <2>1, <3>1
    <2>2. CASE q # p
      BY <1>1, <2>2 DEF TypeInv
    <2> QED
      BY <2>1, <2>2
  <1>7. DropStep
    BY <1>1, <1>2, <1>6 DEF DropStep, Remembered
  <1> QED
    BY <1>4, <1>7

(***************************************************************************)
(* Every step has one of the five shapes                                   *)
(***************************************************************************)

Shaped ==
    \/ QuietStep
    \/ DropStep
    \/ \E p \in Processors, S \in SUBSET Rows : ClaimStep(p, S)
    \/ \E p \in Processors, n \in Rows : HandStep(p, n)

LEMMA WorkShaped ==
  ASSUME IInv, NEW p \in Processors, NEW n \in Rows, Work(p, n)
  PROVE  TypeInv' /\ HandStep(p, n)
  <1> USE DEF IInv
  <1>1. CASE expireOverdue(p, n)
    BY <1>1, ExpireOverdueHand
  <1>2. CASE release(p, n)
    BY <1>2, ReleaseHand
  <1>3. CASE startExpired(p, n)
    BY <1>3, StartExpiredHand
  <1>4. CASE startHeld(p, n)
    BY <1>4, StartHeldHand
  <1>5. CASE startDelivery(p, n)
    BY <1>5, StartDeliveryHand
  <1>6. CASE deliverySucceeds(p, n)
    BY <1>6, DeliverySucceedsHand
  <1>7. CASE deliveryFails(p, n)
    BY <1>7, DeliveryFailsHand
  <1>8. CASE complete(p, n)
    BY <1>8, CompleteHand
  <1>9. CASE logExecution(p, n)
    BY <1>9, LogExecutionHand
  <1>10. CASE fail(p, n)
    BY <1>10, FailHand
  <1>11. CASE moveToDeadLetterQueue(p, n)
    BY <1>11, MoveHand
  <1> QED
    BY <1>1, <1>2, <1>3, <1>4, <1>5, <1>6, <1>7, <1>8, <1>9, <1>10, <1>11 DEF Work

\* The only steps that take entries out of dead_letter_queue.
LEMMA CleanupShaped ==
  ASSUME TypeInv, NEW h \in Processes, NEW batch \in SUBSET dlq, deleteBatch(h, batch)
  PROVE  TypeInv' /\ CleanupStep
  <1>1. CleanupStep /\ dlq' \subseteq dlq
    BY DEF deleteBatch, history, CleanupStep
  <1> QED
    BY <1>1 DEF TypeInv, CleanupStep

LEMMA StepShaped ==
  ASSUME IInv, Next PROVE TypeInv' /\ (Shaped \/ CleanupStep)
  <1> USE DEF IInv
  <1>1. ASSUME NEW p \in Processors, poll(p) PROVE TypeInv' /\ Shaped
    BY <1>1, PollQuiet DEF Shaped
  <1>2. ASSUME NEW p \in Processors, fetchAndLock(p) PROVE TypeInv' /\ Shaped
    BY <1>2, FetchClaims DEF Shaped
  <1>3. ASSUME NEW p \in Processors, NEW n \in Rows, Work(p, n) PROVE TypeInv' /\ Shaped
    BY <1>3, WorkShaped DEF Shaped
  <1>4. ASSUME NEW p \in Processors, NEW n \in Rows, renewLock(p, n) PROVE TypeInv' /\ Shaped
    BY <1>4, RenewLockQuiet DEF Shaped
  <1>5. ASSUME NEW p \in Processors, NEW n \in Rows, acknowledgmentLost(p, n)
        PROVE  TypeInv' /\ Shaped
    BY <1>5, AcknowledgmentLostHand DEF Shaped
  <1>6. ASSUME NEW p \in Processors, NEW n \in Rows, Caught(p, n) PROVE TypeInv' /\ Shaped
    BY <1>6, CaughtHand DEF Shaped
  <1>7. ASSUME NEW p \in Processors, NEW n \in Rows, BatchAborts(p, n) PROVE TypeInv' /\ Shaped
    BY <1>7, AbortDrops DEF Shaped
  <1>8. ASSUME NEW h \in Processes, Crash(h) \/ exit(h) PROVE TypeInv' /\ Shaped
    <2>1. Ends(h) /\ disturbances' \in 0 .. MaxDisturbances
      BY <1>8, Disturbed DEF Crash, exit, TypeInv
    <2> QED
      BY <2>1, EndsDrops DEF Shaped
  <1>9. ASSUME NEW h \in Processes, shutdown(h) \/ start(h) PROVE TypeInv' /\ Shaped
    BY <1>9, ShutdownQuiet, StartQuiet DEF Shaped
  <1>10. ASSUME NEW n \in Rows, lockExpires(n) PROVE TypeInv' /\ Shaped
    BY <1>10, LockExpiresQuiet DEF Shaped
  <1>11. ASSUME NEW n \in Rows, becomesDue(n) \/ deadlinePasses(n) \/ backoffEnds(n)
         PROVE  TypeInv' /\ Shaped
    BY <1>11, TimePassesQuiet DEF Shaped
  <1>12. ASSUME NEW n \in Rows, \/ cancel(n) \/ updatePending(n) \/ releaseIntervention(n)
                                \/ resolveAwaitingIntervention(n)
         PROVE  TypeInv' /\ Shaped
    BY <1>12, PendingRequestsQuiet DEF Shaped
  <1>13. ASSUME NEW n \in Rows, retryDeadLetterNotification(n) PROVE TypeInv' /\ Shaped
    BY <1>13, RequeueQuiet DEF Shaped
  <1>14. ASSUME NEW h \in Processes, NEW batch \in SUBSET dlq, deleteBatch(h, batch)
         PROVE  TypeInv' /\ CleanupStep
    BY <1>14, CleanupShaped
  <1> QED
    BY <1>1, <1>2, <1>3, <1>4, <1>5, <1>6, <1>7, <1>8, <1>9, <1>10, <1>11, <1>12, <1>13, <1>14
       DEF Next, Work

LEMMA Inductive == IInv /\ [Next]_vars => IInv'
  <1> SUFFICES ASSUME IInv, [Next]_vars PROVE IInv'
    OBVIOUS
  <1>1. CASE Next
    <2>1. TypeInv' /\ (Shaped \/ CleanupStep)
      BY <1>1, StepShaped
    <2>2. CASE Shaped
      BY <2>1, <2>2, QuietKeeps, DropKeeps, ClaimKeeps, HandKeeps DEF Shaped, IInv
    <2>3. CASE CleanupStep
      <3>1. LockKept'
        BY <2>3 DEF IInv, LockKept, CleanupStep
      <3>2. OneInWork'
        BY <2>3 DEF IInv, OneInWork, InWork, CleanupStep
      <3>3. SentOnce'
        BY <2>3 DEF IInv, SentOnce, CleanupStep
      <3> QED
        BY <2>1, <3>1, <3>2, <3>3 DEF IInv
    <2> QED
      BY <2>1, <2>2, <2>3
  <1>2. CASE UNCHANGED vars
    <2>1. UNCHANGED <<row, dlq, job, polling, process, disturbances, sent, blame>>
      BY <1>2 DEF vars, history
    <2>2. TypeInv'
      BY <2>1 DEF IInv, TypeInv
    <2>3. LockKept'
      BY <2>1 DEF IInv, LockKept
    <2>4. OneInWork'
      BY <2>1 DEF IInv, OneInWork, InWork
    <2>5. SentOnce'
      BY <2>1 DEF IInv, SentOnce
    <2> QED
      BY <2>2, <2>3, <2>4, <2>5 DEF IInv
  <1> QED
    BY <1>1, <1>2

LEMMA Initially == Init => IInv
  <1> SUFFICES ASSUME Init PROVE IInv
    OBVIOUS
  <1> DEFINE new == [status |-> "PENDING", owner |-> None, lock |-> FALSE,
                     retries |-> 0, retryAt |-> "none", due |-> FALSE, late |-> FALSE,
                     held |-> FALSE, runs |-> 0, error |-> "none"]
  <1>1. new \in Sound
    <2>1. 0 \in 0 .. AtLeastOne(MaxRetries) /\ 0 < Attempts /\ 0 \in 0 .. MaxRuns
      BY AttemptsType, SchedulingAssumption DEF Attempts
    <2>2. new \in Row
      BY <2>1 DEF Row, NotificationStatus
    <2>3. new.retries = 0
      OBVIOUS
    <2> HIDE DEF new
    <2> QED
      BY <2>1, <2>2, <2>3, SoundRow
  <1>2. row = [n \in Rows |-> new]
    BY DEF Init
  <1> HIDE DEF new
  <1>3. job \in [Processors -> [Rows -> SoundJob]]
    <2>1. [n \in Rows |-> NoJob] \in [Rows -> SoundJob]
      BY NoJobType
    <2> QED
      BY <2>1 DEF Init
  <1>4. TypeInv
    <2>1. row \in [Rows -> Sound]
      BY <1>1, <1>2
    <2>2. disturbances \in 0 .. MaxDisturbances
      BY SchedulingAssumption DEF Init
    <2>3. /\ dlq \subseteq Rows /\ polling \in [Processors -> BOOLEAN]
          /\ process \in [Processes -> {"up", "closing", "down"}]
          /\ sent \in [Rows -> 0 .. 2]
          /\ blame \in [Rows -> SUBSET {"lock expired", "fault", "unlogged", "stop", "requeued"}]
      BY DEF Init
    <2> QED
      BY <1>3, <2>1, <2>2, <2>3 DEF TypeInv
  <1>5. \A p \in Processors, n \in Rows : job[p][n].at = "none"
    BY NoJobType DEF Init
  <1>6. LockKept
    BY <1>5 DEF LockKept, Writing
  <1>7. OneInWork
    BY <1>5 DEF OneInWork, InWork
  <1>8. SentOnce
    BY DEF Init, SentOnce
  <1> QED
    BY <1>4, <1>6, <1>7, <1>8 DEF IInv

LEMMA Invariance == Spec => []IInv
  BY Initially, Inductive, PTL DEF Spec

(***************************************************************************)
(* Theorems                                                                *)
(***************************************************************************)

\* Types, with an attempt counter that never passes its budget, a budget of 0
\* attempts being one (recoverStaleLocks, markAsFailedOrRetry).
THEOREM TypeCorrect == Spec => []TypeOK
  <1>1. IInv => TypeOK
    BY InvTypes DEF IInv
  <1> QED
    BY <1>1, Invariance, PTL

\* Two processors deliver one notification at a time only after its lock ran
\* out, an operator put it back, or a finished run was written as failed.
THEOREM OverlapsCorrect == Spec => []OverlapsExplained
  <1>1. IInv => OverlapsExplained
    <2> SUFFICES ASSUME IInv, NEW n \in Rows, NEW p \in Processors, NEW q \in Processors,
                        p # q, job[p][n].at = "delivering", job[q][n].at = "delivering"
                 PROVE  blame[n] \cap Excuses # {}
      BY DEF OverlapsExplained, Excuses
    <2> QED
      BY DEF IInv, LockKept, Writing
  <1> QED
    BY <1>1, Invariance, PTL

\* The provider gets a run twice only after a disturbance of its notification.
THEOREM RepeatsCorrect == Spec => []RepeatsExplained
  <1>1. IInv => RepeatsExplained
    BY DEF IInv, SentOnce, RepeatsExplained
  <1> QED
    BY <1>1, Invariance, PTL

\* The body of TerminalExplained.
StaysTerminal(n) ==
    row[n].status \in Terminal /\ row'[n].status # row[n].status => blame'[n] # {}

LEMMA TerminalStep == IInv /\ [Next]_vars => [\A n \in Rows : StaysTerminal(n)]_vars
  <1> SUFFICES ASSUME IInv, Next PROVE \A n \in Rows : StaysTerminal(n)
    OBVIOUS
  <1> SUFFICES ASSUME NEW n \in Rows, row[n].status \in Terminal,
                      row'[n].status # row[n].status, blame'[n] = {}
               PROVE  FALSE
    BY DEF StaysTerminal
  <1>1. row[n].status \notin {"PENDING", "PROCESSING"}
    BY DEF Terminal
  <1>2. CASE QuietStep
    <2>1. Quiet(n)
      BY <1>2 DEF QuietStep
    <2> QED
      BY <1>1, <2>1 DEF Quiet
  <1>3. CASE DropStep
    BY <1>3 DEF DropStep
  <1>4. ASSUME NEW p \in Processors, NEW S \in SUBSET Rows, ClaimStep(p, S) PROVE FALSE
    BY <1>1, <1>4 DEF ClaimStep
  <1>5. ASSUME NEW p \in Processors, NEW m \in Rows, HandStep(p, m) PROVE FALSE
    <2>1. m = n /\ row'[n] # row[n]
      BY <1>5 DEF HandStep
    <2>2. blame'[n] \cap Excuses = {}
      OBVIOUS
    <2> QED
      BY <1>1, <1>5, <2>1, <2>2, WriterOwns
  <1>6. CASE CleanupStep
    BY <1>6 DEF CleanupStep
  <1> QED
    BY <1>2, <1>3, <1>4, <1>5, <1>6, StepShaped DEF Shaped

\* Completed, cancelled and expired are final unless the notification was
\* disturbed: only the owner of a row that is being processed writes it.
THEOREM TerminalCorrect == Spec => TerminalExplained
  <1>1. [\A n \in Rows : StaysTerminal(n)]_vars
        => [\A n \in Rows : row[n].status \in Terminal /\ row'[n].status # row[n].status
                            => blame'[n] # {}]_vars
    BY DEF StaysTerminal
  <1> QED
    BY <1>1, TerminalStep, Invariance, PTL DEF Spec, TerminalExplained

\* What DeadLettersListed keeps for one row.
Listed(n) ==
    row[n].status = "DEAD_LETTERED" =>
        \/ n \in dlq \/ row[n].error = "lock expired" \/ blame[n] \cap {"fault", "stop"} # {}
        \/ \E p \in Processors : job[p][n].at = "isolating"

LEMMA ListedStep ==
  ASSUME IInv, Shaped, NEW n \in Rows, Listed(n) PROVE Listed(n)'
  <1> SUFFICES ASSUME row'[n].status = "DEAD_LETTERED"
               PROVE  \/ n \in dlq' \/ row'[n].error = "lock expired"
                      \/ blame'[n] \cap {"fault", "stop"} # {}
                      \/ \E p \in Processors : job'[p][n].at = "isolating"
    BY DEF Listed
  <1>1. CASE QuietStep
    <2>1. Quiet(n) /\ job' = job /\ (n \in dlq => n \in dlq') /\ blame[n] \subseteq blame'[n]
      BY <1>1 DEF QuietStep, Remembered
    <2>2. \/ row[n].status = "DEAD_LETTERED" /\ row'[n].error = row[n].error
          \/ row'[n].error = "lock expired"
      BY <2>1 DEF Quiet
    <2> QED
      BY <2>1, <2>2 DEF Listed
  <1>2. CASE DropStep
    <2>1. row' = row /\ (n \in dlq => n \in dlq') /\ blame[n] \subseteq blame'[n]
      BY <1>2 DEF DropStep, Remembered
    <2>2. ASSUME NEW p \in Processors, job[p][n].at = "isolating"
          PROVE  job'[p][n].at = "isolating" \/ blame'[n] \cap {"fault", "stop"} # {}
      BY <1>2, <2>2 DEF DropStep, InWork
    <2> QED
      BY <2>1, <2>2 DEF Listed
  <1>3. CASE \E p \in Processors, S \in SUBSET Rows : ClaimStep(p, S)
    <2>1. PICK p \in Processors, S \in SUBSET Rows : ClaimStep(p, S)
      BY <1>3
    <2>2. row'[n] = row[n] /\ dlq' = dlq /\ blame' = blame
      BY <2>1 DEF ClaimStep
    <2>3. ASSUME NEW q \in Processors, job[q][n].at = "isolating"
          PROVE  job'[q][n].at = "isolating"
      BY <2>1, <2>3 DEF ClaimStep, IInv, OneInWork
    <2> QED
      BY <2>2, <2>3 DEF Listed
  <1>4. CASE \E p \in Processors, m \in Rows : HandStep(p, m)
    <2>1. PICK p \in Processors, m \in Rows : HandStep(p, m)
      BY <1>4
    <2>2. (n \in dlq => n \in dlq') /\ blame[n] \subseteq blame'[n]
      BY <2>1 DEF HandStep, Remembered
    <2>3. CASE m # n
      <3>1. row'[n] = row[n] /\ \A q \in Processors : job'[q][n] = job[q][n]
        BY <2>1, <2>3 DEF HandStep
      <3> QED
        BY <2>2, <3>1 DEF Listed
    <2>4. CASE m = n
      <3>1. row'[n] = row[n] \/ job'[p][n].at = "isolating"
        BY <2>1, <2>4 DEF HandStep
      <3>2. ASSUME NEW q \in Processors, job[q][n].at = "isolating"
            PROVE  job'[q][n].at = "isolating" \/ n \in dlq'
        BY <2>1, <2>4, <3>2 DEF HandStep
      <3> QED
        BY <2>2, <3>1, <3>2 DEF Listed
    <2> QED
      BY <2>3, <2>4
  <1> QED
    BY <1>1, <1>2, <1>3, <1>4 DEF Shaped

\* The body of DeadLettersListed.
UnlistedByCleanup(n) == Unlisted(n)' => Unlisted(n) \/ n \in dlq \ dlq'

LEMMA UnlistedStep == IInv /\ [Next]_vars => [\A n \in Rows : UnlistedByCleanup(n)]_vars
  <1> SUFFICES ASSUME IInv, Next PROVE \A n \in Rows : UnlistedByCleanup(n)
    OBVIOUS
  <1> SUFFICES ASSUME NEW n \in Rows, Unlisted(n)', ~Unlisted(n) PROVE n \in dlq \ dlq'
    BY DEF UnlistedByCleanup
  <1>1. Listed(n) /\ ~Listed(n)'
    BY DEF Listed, Unlisted
  <1>2. CASE Shaped
    BY <1>1, <1>2, ListedStep
  <1>3. CASE CleanupStep
    BY <1>1, <1>3 DEF Listed, CleanupStep
  <1> QED
    BY <1>2, <1>3, StepShaped

\* A dead letter is without its entry in dead_letter_queue, nobody being about to
\* make one, only after a time-out retired it, a disturbance ended its worker or
\* the cleanup job deleted the entry it had.
THEOREM DeadLettersCorrect == Spec => DeadLettersListed
  <1>1. [\A n \in Rows : UnlistedByCleanup(n)]_vars
        => [\A n \in Rows : Unlisted(n)' => Unlisted(n) \/ n \in dlq \ dlq']_vars
    BY DEF UnlistedByCleanup
  <1> QED
    BY <1>1, UnlistedStep, Invariance, PTL DEF Spec, DeadLettersListed
=============================================================================
