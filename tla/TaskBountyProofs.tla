-------------------------- MODULE TaskBountyProofs --------------------------
(***************************************************************************)
(* TypeOK, NoRefundAfterPayout and PaymentsRecorded, for any users and     *)
(* bounds.                                                                 *)
(***************************************************************************)
EXTENDS TaskBounty, FiniteSetTheorems, SequenceTheorems, WellFoundedInduction, TLAPS

\* Every step is one of these calls.
LEMMA StepCases ==
  ASSUME Next
  PROVE  \/ Tick
         \/ \E u \in Users, r \in 0..MaxReward, d \in 0..MaxTime, m \in 0..MaxPerTask :
               create_task(u, r, d, m)
         \/ \E t \in DOMAIN tasks, u \in Users : submit_work(t, u)
         \/ \E t \in DOMAIN tasks, u \in Users : cancel_task(t, u)
         \/ \E t \in DOMAIN tasks, s \in DOMAIN submissions, u \in Users :
               approve_submission(t, s, u)
         \/ \E t \in DOMAIN tasks, s \in DOMAIN submissions, u \in Users :
               reject_submission(t, s, u)
         \/ \E t \in DOMAIN tasks, s \in DOMAIN submissions, u \in Users :
               raise_dispute(t, s, u)
  BY DEF Next

-----------------------------------------------------------------------------
\* A submission belongs to a task there is.
Typed ==
    /\ now \in 0..MaxTime
    /\ tasks \in Seq(Task) /\ Len(tasks) <= MaxTasks
    /\ submissions \in Seq(Submission)
    /\ \A s \in DOMAIN submissions : submissions[s].task \in DOMAIN tasks
    /\ disputed \subseteq DOMAIN submissions
    /\ balance \in Nat
    /\ payouts \in Seq(Nat) /\ Len(payouts) = Len(tasks)
    /\ refunds \in Seq(Nat) /\ Len(refunds) = Len(tasks)

IInv == Typed /\ CountsRight

LEMMA Bounds ==
  /\ MinReward \in Nat /\ MaxReward \in Nat /\ MaxDeadline \in Nat /\ MaxPerTask \in Nat
  /\ MaxTasks \in Nat /\ MaxSubmissions \in Nat /\ MaxTime \in Nat
  BY TaskBountyAssumption

LEMMA NewTask ==
  ASSUME NEW u \in Users, NEW r \in MinReward..MaxReward, NEW d \in Nat, NEW m \in 1..MaxPerTask
  PROVE  [poster |-> u, reward |-> r, deadline |-> d, max_submissions |-> m,
          submission_count |-> 0, status |-> "Open"] \in Task
  BY Bounds DEF Task, TaskStatus

LEMMA TaskInStatus ==
  ASSUME NEW k \in Task, NEW st \in TaskStatus
  PROVE  /\ [k EXCEPT !.status = st] \in Task
         /\ [k EXCEPT !.status = st].submission_count = k.submission_count
         /\ [k EXCEPT !.status = st].max_submissions = k.max_submissions
         /\ [k EXCEPT !.status = st].reward = k.reward
  BY DEF Task

LEMMA TaskWithCount ==
  ASSUME NEW k \in Task, NEW n \in 0..MaxPerTask
  PROVE  /\ [k EXCEPT !.submission_count = n] \in Task
         /\ [k EXCEPT !.submission_count = n].submission_count = n
         /\ [k EXCEPT !.submission_count = n].max_submissions = k.max_submissions
         /\ [k EXCEPT !.submission_count = n].reward = k.reward
  BY DEF Task

LEMMA SubmissionInStatus ==
  ASSUME NEW k \in Submission, NEW st \in SubmissionStatus
  PROVE  /\ [k EXCEPT !.status = st] \in Submission
         /\ [k EXCEPT !.status = st].task = k.task
         /\ [k EXCEPT !.status = st].contributor = k.contributor
         /\ [k EXCEPT !.status = st].status = st
  BY DEF Submission

LEMMA Fields ==
  /\ \A k \in Task : /\ k.submission_count \in 0..MaxPerTask /\ k.max_submissions \in 1..MaxPerTask
                     /\ k.reward \in Nat
  /\ \A k \in Submission : k.task \in 1..MaxTasks /\ k.contributor \in Users
  BY Bounds DEF Task, Submission

\* The tasks after t changed its status.
StatusChanged(t, st) == tasks' = [tasks EXCEPT ![t].status = st]

LEMMA TasksInStatus ==
  ASSUME tasks \in Seq(Task), NEW t \in DOMAIN tasks, NEW st \in TaskStatus, StatusChanged(t, st)
  PROVE  /\ tasks' \in Seq(Task) /\ Len(tasks') = Len(tasks) /\ DOMAIN tasks' = DOMAIN tasks
         /\ \A q \in DOMAIN tasks : /\ tasks'[q].submission_count = tasks[q].submission_count
                                    /\ tasks'[q].max_submissions = tasks[q].max_submissions
                                    /\ tasks'[q].reward = tasks[q].reward
  <1> DEFINE k == [tasks[t] EXCEPT !.status = st]
  <1>1. t \in 1..Len(tasks) /\ tasks[t] \in Task
    OBVIOUS
  <1>2. k \in Task /\ k.submission_count = tasks[t].submission_count
                   /\ k.max_submissions = tasks[t].max_submissions
                   /\ k.reward = tasks[t].reward
    BY <1>1, TaskInStatus
  <1>3. tasks' = [tasks EXCEPT ![t] = k]
    BY DEF StatusChanged
  <1> HIDE DEF k
  <1>4. /\ tasks' \in Seq(Task) /\ Len(tasks') = Len(tasks)
        /\ \A j \in 1..Len(tasks) : tasks'[j] = IF j = t THEN k ELSE tasks[j]
    BY <1>1, <1>2, <1>3, ExceptSeq
  <1> QED
    BY <1>2, <1>4

\* The tasks after t counted one more submission.
LEMMA WorkCounted ==
  ASSUME tasks \in Seq(Task), NEW t \in DOMAIN tasks, NEW u, submit_work(t, u)
  PROVE  /\ tasks' \in Seq(Task) /\ Len(tasks') = Len(tasks) /\ DOMAIN tasks' = DOMAIN tasks
         /\ tasks'[t].submission_count = tasks[t].submission_count + 1
         /\ \A q \in DOMAIN tasks : /\ tasks'[q].max_submissions = tasks[q].max_submissions
                                    /\ tasks'[q].reward = tasks[q].reward
                                    /\ q # t => tasks'[q] = tasks[q]
  <1> DEFINE n == tasks[t].submission_count + 1
             k == [tasks[t] EXCEPT !.submission_count = n]
             l == [k EXCEPT !.status = "InProgress"]
  <1>1. t \in 1..Len(tasks) /\ tasks[t] \in Task
    OBVIOUS
  <1>2. n \in 0..MaxPerTask
    <2>1. /\ tasks[t].submission_count \in 0..MaxPerTask
          /\ tasks[t].max_submissions \in 1..MaxPerTask /\ MaxPerTask \in Nat
      BY <1>1, Fields, Bounds
    <2>2. tasks[t].submission_count < tasks[t].max_submissions
      BY DEF submit_work, hasRoom
    <2> QED
      BY <2>1, <2>2
  <1>3. k \in Task /\ k.submission_count = n /\ k.max_submissions = tasks[t].max_submissions
        /\ k.reward = tasks[t].reward
    <2> HIDE DEF n
    <2> QED
      BY <1>1, <1>2, TaskWithCount
  <1>4. tasks' = [tasks EXCEPT ![t] = l]
    BY DEF submit_work
  <1> HIDE DEF n, k
  <1>5. l \in Task /\ l.submission_count = n /\ l.max_submissions = tasks[t].max_submissions
        /\ l.reward = tasks[t].reward
    BY <1>3, TaskInStatus DEF TaskStatus
  <1> HIDE DEF l
  <1>6. /\ tasks' \in Seq(Task) /\ Len(tasks') = Len(tasks)
        /\ \A j \in 1..Len(tasks) : tasks'[j] = IF j = t THEN l ELSE tasks[j]
    BY <1>1, <1>4, <1>5, ExceptSeq
  <1> QED
    BY <1>5, <1>6 DEF n

\* The submissions after s changed its status.
Reviewed(s, st) == submissions' = [submissions EXCEPT ![s].status = st]

LEMMA SubmissionsReviewed ==
  ASSUME submissions \in Seq(Submission), NEW s \in DOMAIN submissions,
         NEW st \in SubmissionStatus, Reviewed(s, st)
  PROVE  /\ submissions' \in Seq(Submission) /\ Len(submissions') = Len(submissions)
         /\ DOMAIN submissions' = DOMAIN submissions
         /\ \A q \in DOMAIN submissions :
              /\ submissions'[q].task = submissions[q].task
              /\ submissions'[q].contributor = submissions[q].contributor
              /\ submissions'[q].status = IF q = s THEN st ELSE submissions[q].status
  <1> DEFINE k == [submissions[s] EXCEPT !.status = st]
  <1>1. s \in 1..Len(submissions) /\ submissions[s] \in Submission
    OBVIOUS
  <1>2. k \in Submission /\ k.task = submissions[s].task /\ k.status = st
                         /\ k.contributor = submissions[s].contributor
    BY <1>1, SubmissionInStatus
  <1>3. submissions' = [submissions EXCEPT ![s] = k]
    BY DEF Reviewed
  <1> HIDE DEF k
  <1>4. /\ submissions' \in Seq(Submission) /\ Len(submissions') = Len(submissions)
        /\ \A j \in 1..Len(submissions) : submissions'[j] = IF j = s THEN k ELSE submissions[j]
    BY <1>1, <1>2, <1>3, ExceptSeq
  <1> QED
    BY <1>2, <1>4

\* The submissions after one more was appended.
Submitted(t, u) ==
    submissions' = Append(submissions, [task |-> t, contributor |-> u, status |-> "Pending"])

LEMMA OneMoreSubmission ==
  ASSUME submissions \in Seq(Submission), NEW t \in 1..MaxTasks, NEW u \in Users, Submitted(t, u)
  PROVE  LET n == Len(submissions) + 1
         IN /\ submissions' \in Seq(Submission) /\ DOMAIN submissions' = DOMAIN submissions \cup {n}
            /\ n \notin DOMAIN submissions
            /\ \A q \in DOMAIN submissions : submissions'[q] = submissions[q]
            /\ submissions'[n].task = t /\ submissions'[n].contributor = u
            /\ submissions'[n].status = "Pending"
  <1> DEFINE k == [task |-> t, contributor |-> u, status |-> "Pending"]
  <1>1. k \in Submission /\ k.task = t /\ k.contributor = u /\ k.status = "Pending"
    BY Bounds DEF Submission, SubmissionStatus
  <1>2. submissions' = Append(submissions, k)
    BY DEF Submitted
  <1> HIDE DEF k
  <1>3. /\ submissions' \in Seq(Submission) /\ Len(submissions') = Len(submissions) + 1
        /\ \A i \in 1..Len(submissions) : submissions'[i] = submissions[i]
        /\ submissions'[Len(submissions) + 1] = k
    BY <1>1, <1>2, AppendProperties
  <1> QED
    BY <1>1, <1>3

-----------------------------------------------------------------------------
\* The types.

LEMMA TypedStep == IInv /\ [Next]_vars => Typed'
  <1> SUFFICES ASSUME IInv, [Next]_vars PROVE Typed'
    OBVIOUS
  <1> USE Bounds DEF Typed, IInv
  <1>1. CASE UNCHANGED vars
    BY <1>1 DEF vars
  <1>2. CASE Tick
    BY <1>2 DEF Tick
  <1>3. ASSUME NEW u \in Users, NEW r \in 0..MaxReward, NEW d \in 0..MaxTime,
               NEW m \in 0..MaxPerTask, create_task(u, r, d, m)
        PROVE  Typed'
    <2> DEFINE k == [poster |-> u, reward |-> r, deadline |-> d, max_submissions |-> m,
                     submission_count |-> 0, status |-> "Open"]
    <2>1. k \in Task /\ tasks' = Append(tasks, k) /\ Len(tasks) < MaxTasks
      <3>1. /\ r \in MinReward..MaxReward /\ d \in Nat /\ m \in 1..MaxPerTask
            /\ tasks' = Append(tasks, k) /\ Len(tasks) < MaxTasks
        BY <1>3 DEF create_task
      <3> QED
        BY <3>1, NewTask
    <2> HIDE DEF k
    <2>2. tasks' \in Seq(Task) /\ Len(tasks') = Len(tasks) + 1
      BY <2>1, AppendProperties
    <2>3. /\ payouts' \in Seq(Nat) /\ Len(payouts') = Len(payouts) + 1
          /\ refunds' \in Seq(Nat) /\ Len(refunds') = Len(refunds) + 1
      <3>1. payouts' = Append(payouts, 0) /\ refunds' = Append(refunds, 0) /\ 0 \in Nat
        BY <1>3 DEF create_task
      <3> QED
        BY <3>1, AppendProperties
    <2>4. UNCHANGED <<now, submissions, disputed>> /\ balance' = balance + r
      BY <1>3 DEF create_task
    <2> QED
      BY <2>1, <2>2, <2>3, <2>4
  <1>4. ASSUME NEW t \in DOMAIN tasks, NEW u \in Users, submit_work(t, u)
        PROVE  Typed'
    <2>1. /\ tasks' \in Seq(Task) /\ Len(tasks') = Len(tasks)
      BY <1>4, WorkCounted DEF submit_work
    <2>2. t \in 1..MaxTasks /\ Submitted(t, u)
      BY <1>4 DEF submit_work, Submitted
    <2>3. /\ submissions' \in Seq(Submission)
          /\ DOMAIN submissions' = DOMAIN submissions \cup {Len(submissions) + 1}
          /\ \A q \in DOMAIN submissions : submissions'[q] = submissions[q]
          /\ submissions'[Len(submissions) + 1].task = t
      BY <2>2, OneMoreSubmission
    <2>4. UNCHANGED <<now, disputed, balance, payouts, refunds>>
      BY <1>4 DEF submit_work
    <2>5. DOMAIN tasks' = DOMAIN tasks
      BY <2>1
    <2>6. \A q \in DOMAIN submissions' : submissions'[q].task \in DOMAIN tasks'
      BY <2>3, <2>5
    <2>7. disputed' \subseteq DOMAIN submissions'
      BY <2>3, <2>4
    <2> QED
      BY <2>1, <2>3, <2>4, <2>6, <2>7
  <1>5. ASSUME NEW t \in DOMAIN tasks, NEW u \in Users, cancel_task(t, u)
        PROVE  Typed'
    <2>1. StatusChanged(t, "Cancelled") /\ "Cancelled" \in TaskStatus
      BY <1>5 DEF cancel_task, StatusChanged, TaskStatus
    <2>2. tasks' \in Seq(Task) /\ Len(tasks') = Len(tasks)
      BY <2>1, TasksInStatus
    <2>3. balance' \in Nat
      <3>1. tasks[t].reward \in Nat
        BY Fields
      <3>2. balance >= tasks[t].reward /\ balance' = balance - tasks[t].reward
        BY <1>5 DEF cancel_task, transferReward
      <3>3. balance \in Nat
        OBVIOUS
      <3> HIDE DEF Typed, IInv
      <3> QED
        BY <3>1, <3>2, <3>3
    <2>4. refunds' \in Seq(Nat) /\ Len(refunds') = Len(refunds)
      <3> DEFINE n == refunds[t] + 1
      <3>0. refunds \in Seq(Nat) /\ t \in 1..Len(refunds)
        OBVIOUS
      <3>1. n \in Nat
        BY <3>0
      <3>2. refunds' = [refunds EXCEPT ![t] = n]
        BY <1>5 DEF cancel_task
      <3> HIDE DEF n
      <3> QED
        BY <3>0, <3>1, <3>2, ExceptSeq
    <2> QED
      BY <1>5, <2>2, <2>3, <2>4 DEF cancel_task
  <1>6. ASSUME NEW t \in DOMAIN tasks, NEW s \in DOMAIN submissions, NEW u \in Users,
               approve_submission(t, s, u)
        PROVE  Typed'
    <2>1. /\ StatusChanged(t, "Completed") /\ "Completed" \in TaskStatus
          /\ Reviewed(s, "Approved") /\ "Approved" \in SubmissionStatus
      BY <1>6 DEF approve_submission, StatusChanged, Reviewed, TaskStatus, SubmissionStatus
    <2>2. tasks' \in Seq(Task) /\ Len(tasks') = Len(tasks)
      BY <2>1, TasksInStatus
    <2>3. /\ submissions' \in Seq(Submission) /\ DOMAIN submissions' = DOMAIN submissions
          /\ \A q \in DOMAIN submissions : submissions'[q].task = submissions[q].task
      BY <2>1, SubmissionsReviewed
    <2>4. balance' \in Nat
      <3>1. tasks[t].reward \in Nat
        BY Fields
      <3>2. balance >= tasks[t].reward /\ balance' = balance - tasks[t].reward
        BY <1>6 DEF approve_submission, transferReward
      <3>3. balance \in Nat
        OBVIOUS
      <3> HIDE DEF Typed, IInv
      <3> QED
        BY <3>1, <3>2, <3>3
    <2>5. payouts' \in Seq(Nat) /\ Len(payouts') = Len(payouts)
      <3> DEFINE n == payouts[t] + 1
      <3>0. payouts \in Seq(Nat) /\ t \in 1..Len(payouts)
        OBVIOUS
      <3>1. n \in Nat
        BY <3>0
      <3>2. payouts' = [payouts EXCEPT ![t] = n]
        BY <1>6 DEF approve_submission
      <3> HIDE DEF n
      <3> QED
        BY <3>0, <3>1, <3>2, ExceptSeq
    <2> QED
      BY <1>6, <2>2, <2>3, <2>4, <2>5 DEF approve_submission
  <1>7. ASSUME NEW t \in DOMAIN tasks, NEW s \in DOMAIN submissions, NEW u \in Users,
               reject_submission(t, s, u)
        PROVE  Typed'
    <2>1. Reviewed(s, "Rejected") /\ "Rejected" \in SubmissionStatus
      BY <1>7 DEF reject_submission, Reviewed, SubmissionStatus
    <2>2. /\ submissions' \in Seq(Submission) /\ DOMAIN submissions' = DOMAIN submissions
          /\ \A q \in DOMAIN submissions : submissions'[q].task = submissions[q].task
      BY <2>1, SubmissionsReviewed
    <2> QED
      BY <1>7, <2>2 DEF reject_submission
  <1>8. ASSUME NEW t \in DOMAIN tasks, NEW s \in DOMAIN submissions, NEW u \in Users,
               raise_dispute(t, s, u)
        PROVE  Typed'
    <2>1. StatusChanged(t, "Disputed") /\ "Disputed" \in TaskStatus
      BY <1>8 DEF raise_dispute, StatusChanged, TaskStatus
    <2>2. tasks' \in Seq(Task) /\ Len(tasks') = Len(tasks)
      BY <2>1, TasksInStatus
    <2> QED
      BY <1>8, <2>2 DEF raise_dispute
  <1> QED
    BY <1>1, <1>2, <1>3, <1>4, <1>5, <1>6, <1>7, <1>8, StepCases

-----------------------------------------------------------------------------
\* The counts of one task.

CountRight(t) ==
    LET own == get_task_submissions(t)
    IN /\ tasks[t].submission_count = Cardinality(own)
       /\ tasks[t].submission_count <= tasks[t].max_submissions
       /\ \A r, s \in own : submissions[r].contributor = submissions[s].contributor => r = s

LEMMA CountsByTask == CountsRight <=> \A t \in DOMAIN tasks : CountRight(t)
  BY DEF CountsRight, CountRight

LEMMA OwnFinite ==
  ASSUME submissions \in Seq(Submission), NEW t
  PROVE  IsFiniteSet(get_task_submissions(t))
  <1>1. IsFiniteSet(1..Len(submissions))
    BY FS_Interval
  <1>2. get_task_submissions(t) \in SUBSET (1..Len(submissions))
    BY DEF get_task_submissions
  <1> QED
    BY <1>1, <1>2, FS_Subset

\* Calls that neither add a submission nor count one.
CountsKept ==
    /\ DOMAIN tasks' = DOMAIN tasks
    /\ \A t \in DOMAIN tasks : /\ tasks'[t].submission_count = tasks[t].submission_count
                               /\ tasks'[t].max_submissions = tasks[t].max_submissions
    /\ DOMAIN submissions' = DOMAIN submissions
    /\ \A s \in DOMAIN submissions : /\ submissions'[s].task = submissions[s].task
                                     /\ submissions'[s].contributor = submissions[s].contributor

LEMMA KeepingCounts == CountsRight /\ CountsKept => CountsRight'
  <1> SUFFICES ASSUME CountsRight, CountsKept, NEW t \in DOMAIN tasks
               PROVE  CountRight(t)'
    BY CountsByTask DEF CountsKept, CountsRight, CountRight
  <1>1. get_task_submissions(t)' = get_task_submissions(t)
    BY DEF get_task_submissions, CountsKept
  <1>2. get_task_submissions(t) \subseteq DOMAIN submissions
    BY DEF get_task_submissions
  <1> QED
    BY <1>1, <1>2 DEF CountsKept, CountsRight, CountRight

LEMMA CountsStep == IInv /\ [Next]_vars => CountsRight'
  <1> SUFFICES ASSUME IInv, [Next]_vars PROVE CountsRight'
    OBVIOUS
  <1> USE DEF Typed, IInv
  <1>1. CASE UNCHANGED vars
    BY <1>1, KeepingCounts DEF vars, CountsKept
  <1>2. CASE Tick
    BY <1>2, KeepingCounts DEF Tick, CountsKept
  <1>3. ASSUME NEW u \in Users, NEW r \in 0..MaxReward, NEW d \in 0..MaxTime,
               NEW m \in 0..MaxPerTask, create_task(u, r, d, m)
        PROVE  CountsRight'
    <2> DEFINE k == [poster |-> u, reward |-> r, deadline |-> d, max_submissions |-> m,
                     submission_count |-> 0, status |-> "Open"]
               n == Len(tasks) + 1
    <2>1. /\ k \in Task /\ k.submission_count = 0 /\ k.max_submissions \in Nat
          /\ tasks' = Append(tasks, k) /\ UNCHANGED submissions
      <3>1. /\ r \in MinReward..MaxReward /\ d \in Nat /\ m \in 1..MaxPerTask
            /\ tasks' = Append(tasks, k) /\ UNCHANGED submissions
        BY <1>3, Bounds DEF create_task
      <3>2. k \in Task
        BY <3>1, NewTask
      <3> QED
        BY <3>1, <3>2
    <2> HIDE DEF k
    <2>2. /\ DOMAIN tasks' = DOMAIN tasks \cup {n} /\ n \notin DOMAIN tasks
          /\ \A t \in DOMAIN tasks : tasks'[t] = tasks[t]
          /\ tasks'[n] = k
      <3>1. /\ Len(tasks') = n /\ tasks' \in Seq(Task) /\ tasks'[n] = k
            /\ \A t \in 1..Len(tasks) : tasks'[t] = tasks[t]
        BY <2>1, AppendProperties
      <3> QED
        BY <3>1
    <2>3. ASSUME NEW t \in DOMAIN tasks PROVE CountRight(t)'
      <3>1. CountRight(t) /\ tasks'[t] = tasks[t] /\ submissions' = submissions
        BY <2>1, <2>2, <2>3, CountsByTask
      <3> QED
        BY <3>1 DEF CountRight, get_task_submissions
    <2>4. ASSUME NEW q, q = n PROVE CountRight(q)'
      <3>1. get_task_submissions(q)' = {}
        BY <2>1, <2>2, <2>4 DEF get_task_submissions
      <3>2. Cardinality({}) = 0
        BY FS_EmptySet
      <3>3. tasks'[q].submission_count = 0 /\ 0 <= tasks'[q].max_submissions
        BY <2>1, <2>2, <2>4
      <3> QED
        BY <3>1, <3>2, <3>3 DEF CountRight
    <2>5. \A t \in DOMAIN tasks' : CountRight(t)'
      BY <2>2, <2>3, <2>4
    <2> QED
      BY <2>5, CountsByTask DEF CountsRight, CountRight
  <1>4. ASSUME NEW t \in DOMAIN tasks, NEW u \in Users, submit_work(t, u)
        PROVE  CountsRight'
    <2> DEFINE n == Len(submissions) + 1
    <2>1. t \in 1..MaxTasks /\ Submitted(t, u)
      BY <1>4, Bounds DEF submit_work, Submitted
    <2>2. /\ DOMAIN submissions' = DOMAIN submissions \cup {n}
          /\ n \notin DOMAIN submissions
          /\ \A q \in DOMAIN submissions : submissions'[q] = submissions[q]
          /\ submissions'[n].task = t /\ submissions'[n].contributor = u
      BY <2>1, OneMoreSubmission
    <2>3. /\ DOMAIN tasks' = DOMAIN tasks
          /\ tasks'[t].submission_count = tasks[t].submission_count + 1
          /\ \A q \in DOMAIN tasks : /\ tasks'[q].max_submissions = tasks[q].max_submissions
                                     /\ q # t => tasks'[q] = tasks[q]
      BY <1>4, WorkCounted DEF submit_work
    <2> HIDE DEF n
    <2>4. ASSUME NEW q \in DOMAIN tasks, q # t PROVE CountRight(q)'
      <3>1. get_task_submissions(q)' = get_task_submissions(q)
        BY <2>2, <2>4 DEF get_task_submissions
      <3>2. \A s \in get_task_submissions(q) : submissions'[s] = submissions[s]
        BY <2>2 DEF get_task_submissions
      <3>3. CountRight(q) /\ tasks'[q] = tasks[q]
        BY <2>3, <2>4, CountsByTask
      <3> QED
        BY <3>1, <3>2, <3>3 DEF CountRight
    <2>5. CountRight(t)'
      <3> DEFINE own == get_task_submissions(t)
      <3>1. own' = own \cup {n} /\ n \notin own
        BY <2>2 DEF get_task_submissions
      <3>2. /\ \A s \in own : submissions'[s] = submissions[s] /\ submissions[s].contributor # u
            /\ submissions'[n].contributor = u
        BY <1>4, <2>2 DEF submit_work, has_contributor_submitted, get_task_submissions
      <3>3. CountRight(t)
        BY CountsByTask
      <3>4. IsFiniteSet(own)
        BY OwnFinite
      <3>5. Cardinality(own \cup {n}) = Cardinality(own) + 1 /\ Cardinality(own) \in Nat
        BY <3>1, <3>4, FS_AddElement, FS_CardinalityType
      <3>6. tasks[t].submission_count < tasks[t].max_submissions
        BY <1>4 DEF submit_work, hasRoom
      <3>7. /\ tasks[t].submission_count = Cardinality(own)
            /\ \A r, s \in own : submissions[r].contributor = submissions[s].contributor => r = s
        BY <3>3 DEF CountRight
      <3>8. tasks[t].max_submissions \in Nat
        BY Fields, Bounds
      <3> HIDE DEF own
      <3>9. \A r, s \in own \cup {n} :
              submissions'[r].contributor = submissions'[s].contributor => r = s
        BY <3>2, <3>7
      <3>10. /\ tasks'[t].submission_count = Cardinality(own \cup {n})
             /\ tasks'[t].submission_count <= tasks'[t].max_submissions
        BY <2>3, <3>5, <3>6, <3>7, <3>8
      <3> QED
        BY <3>1, <3>9, <3>10 DEF CountRight, own
    <2>6. \A q \in DOMAIN tasks' : CountRight(q)'
      BY <2>3, <2>4, <2>5
    <2> QED
      BY <2>6, CountsByTask DEF CountsRight, CountRight
  <1>5. ASSUME NEW t \in DOMAIN tasks, NEW u \in Users, cancel_task(t, u)
        PROVE  CountsRight'
    <2>1. /\ StatusChanged(t, "Cancelled") /\ "Cancelled" \in TaskStatus
          /\ UNCHANGED submissions
      BY <1>5 DEF cancel_task, StatusChanged, TaskStatus
    <2> QED
      BY <2>1, TasksInStatus, KeepingCounts DEF CountsKept
  <1>6. ASSUME NEW t \in DOMAIN tasks, NEW s \in DOMAIN submissions, NEW u \in Users,
               approve_submission(t, s, u)
        PROVE  CountsRight'
    <2>1. /\ StatusChanged(t, "Completed") /\ "Completed" \in TaskStatus
          /\ Reviewed(s, "Approved") /\ "Approved" \in SubmissionStatus
      BY <1>6 DEF approve_submission, StatusChanged, Reviewed, TaskStatus, SubmissionStatus
    <2> QED
      BY <2>1, TasksInStatus, SubmissionsReviewed, KeepingCounts DEF CountsKept
  <1>7. ASSUME NEW t \in DOMAIN tasks, NEW s \in DOMAIN submissions, NEW u \in Users,
               reject_submission(t, s, u)
        PROVE  CountsRight'
    <2>1. /\ Reviewed(s, "Rejected") /\ "Rejected" \in SubmissionStatus
          /\ UNCHANGED tasks
      BY <1>7 DEF reject_submission, Reviewed, SubmissionStatus
    <2> QED
      BY <2>1, SubmissionsReviewed, KeepingCounts DEF CountsKept
  <1>8. ASSUME NEW t \in DOMAIN tasks, NEW s \in DOMAIN submissions, NEW u \in Users,
               raise_dispute(t, s, u)
        PROVE  CountsRight'
    <2>1. /\ StatusChanged(t, "Disputed") /\ "Disputed" \in TaskStatus
          /\ UNCHANGED submissions
      BY <1>8 DEF raise_dispute, StatusChanged, TaskStatus
    <2> QED
      BY <2>1, TasksInStatus, KeepingCounts DEF CountsKept
  <1> QED
    BY <1>1, <1>2, <1>3, <1>4, <1>5, <1>6, <1>7, <1>8, StepCases

LEMMA Invariance == Spec => []IInv
  <1>1. Init => IInv
    BY Bounds DEF Init, IInv, Typed, CountsRight
  <1>2. IInv /\ [Next]_vars => IInv'
    BY TypedStep, CountsStep DEF IInv
  <1> QED
    BY <1>1, <1>2, PTL DEF Spec

\* Types, and for every task: the submissions it counts are those there are, no
\* more than it allows, and no two from one contributor.
THEOREM TypeCorrect == Spec => []TypeOK
  <1>1. IInv => TypeOK
    BY DEF IInv, Typed, TypeOK
  <1> QED
    BY <1>1, Invariance, PTL

-----------------------------------------------------------------------------
\* A payout leaves an approved submission behind, which no call takes back.
PaidApproved == \A t \in DOMAIN tasks : payouts[t] > 0 => hasApproved(t)

LEMMA PaidApprovedStep == IInv /\ PaidApproved /\ [Next]_vars => PaidApproved'
  <1> SUFFICES ASSUME IInv, PaidApproved, [Next]_vars PROVE PaidApproved'
    OBVIOUS
  <1> USE DEF Typed, IInv, PaidApproved
  <1>1. CASE UNCHANGED <<tasks, submissions, payouts>>
    BY <1>1 DEF hasApproved, get_task_submissions
  <1>2. ASSUME NEW u \in Users, NEW r \in 0..MaxReward, NEW d \in 0..MaxTime,
               NEW m \in 0..MaxPerTask, create_task(u, r, d, m)
        PROVE  PaidApproved'
    <2>1. \A t \in DOMAIN tasks' : payouts'[t] > 0 => t \in DOMAIN tasks /\ payouts[t] > 0
      BY <1>2 DEF create_task
    <2>2. UNCHANGED submissions
      BY <1>2 DEF create_task
    <2> QED
      BY <2>1, <2>2 DEF hasApproved, get_task_submissions
  <1>3. ASSUME NEW t \in DOMAIN tasks, NEW u \in Users, submit_work(t, u)
        PROVE  PaidApproved'
    <2>1. Submitted(t, u) /\ t \in 1..MaxTasks
      BY <1>3, Bounds DEF submit_work, Submitted
    <2>2. \A q \in DOMAIN submissions : q \in DOMAIN submissions' /\ submissions'[q] = submissions[q]
      BY <2>1, OneMoreSubmission
    <2>3. DOMAIN tasks' = DOMAIN tasks /\ UNCHANGED payouts
      BY <1>3, WorkCounted DEF submit_work
    <2>4. \A q \in DOMAIN tasks : hasApproved(q) => hasApproved(q)'
      BY <2>2 DEF hasApproved, get_task_submissions
    <2> QED
      BY <2>3, <2>4
  <1>4. ASSUME NEW t \in DOMAIN tasks, NEW u \in Users, cancel_task(t, u)
        PROVE  PaidApproved'
    <2>1. DOMAIN tasks' = DOMAIN tasks /\ UNCHANGED <<submissions, payouts>>
      BY <1>4 DEF cancel_task
    <2> QED
      BY <2>1 DEF hasApproved, get_task_submissions
  <1>5. ASSUME NEW t \in DOMAIN tasks, NEW s \in DOMAIN submissions, NEW u \in Users,
               approve_submission(t, s, u)
        PROVE  PaidApproved'
    <2>1. Reviewed(s, "Approved") /\ "Approved" \in SubmissionStatus
      BY <1>5 DEF approve_submission, Reviewed, SubmissionStatus
    <2>2. /\ DOMAIN submissions' = DOMAIN submissions
          /\ \A q \in DOMAIN submissions :
               /\ submissions'[q].task = submissions[q].task
               /\ submissions'[q].status = IF q = s THEN "Approved" ELSE submissions[q].status
      BY <2>1, SubmissionsReviewed
    <2>3. /\ DOMAIN tasks' = DOMAIN tasks /\ submissions[s].task = t
          /\ \A q \in DOMAIN tasks : q # t => payouts'[q] = payouts[q]
      BY <1>5 DEF approve_submission
    <2>4. ASSUME NEW q \in DOMAIN tasks, hasApproved(q) \/ q = t PROVE hasApproved(q)'
      BY <2>2, <2>3, <2>4 DEF hasApproved, get_task_submissions
    <2> QED
      BY <2>3, <2>4
  <1>6. ASSUME NEW t \in DOMAIN tasks, NEW s \in DOMAIN submissions, NEW u \in Users,
               reject_submission(t, s, u)
        PROVE  PaidApproved'
    <2>1. Reviewed(s, "Rejected") /\ "Rejected" \in SubmissionStatus
      BY <1>6 DEF reject_submission, Reviewed, SubmissionStatus
    <2>2. /\ DOMAIN submissions' = DOMAIN submissions
          /\ \A q \in DOMAIN submissions :
               /\ submissions'[q].task = submissions[q].task
               /\ submissions'[q].status = IF q = s THEN "Rejected" ELSE submissions[q].status
      BY <2>1, SubmissionsReviewed
    <2>3. submissions[s].status = "Pending" /\ UNCHANGED <<tasks, payouts>>
      BY <1>6 DEF reject_submission, pending
    <2>4. ASSUME NEW q \in DOMAIN tasks, hasApproved(q) PROVE hasApproved(q)'
      BY <2>2, <2>3, <2>4 DEF hasApproved, get_task_submissions
    <2> QED
      BY <2>3, <2>4
  <1>7. ASSUME NEW t \in DOMAIN tasks, NEW s \in DOMAIN submissions, NEW u \in Users,
               raise_dispute(t, s, u)
        PROVE  PaidApproved'
    <2>1. DOMAIN tasks' = DOMAIN tasks /\ UNCHANGED <<submissions, payouts>>
      BY <1>7 DEF raise_dispute
    <2> QED
      BY <2>1 DEF hasApproved, get_task_submissions
  <1>8. UNCHANGED vars \/ Tick => UNCHANGED <<tasks, submissions, payouts>>
    BY DEF vars, Tick
  <1> QED
    BY <1>1, <1>2, <1>3, <1>4, <1>5, <1>6, <1>7, <1>8, StepCases

LEMMA RefundStep == IInv /\ PaidApproved /\ [Next]_vars => PaidOutKeepsRefunds
  <1> SUFFICES ASSUME IInv, PaidApproved, [Next]_vars, NEW t \in DOMAIN tasks, payouts[t] > 0
               PROVE  refunds'[t] = refunds[t]
    BY DEF PaidOutKeepsRefunds
  <1> USE DEF IInv, Typed
  <1>1. CASE UNCHANGED refunds
    BY <1>1
  <1>2. ASSUME NEW u \in Users, NEW r \in 0..MaxReward, NEW d \in 0..MaxTime,
               NEW m \in 0..MaxPerTask, create_task(u, r, d, m)
        PROVE  refunds'[t] = refunds[t]
    BY <1>2 DEF create_task
  <1>3. ASSUME NEW q \in DOMAIN tasks, NEW u \in Users, cancel_task(q, u)
        PROVE  refunds'[t] = refunds[t]
    <2>1. q # t
      BY <1>3 DEF PaidApproved, cancel_task
    <2> QED
      BY <1>3, <2>1 DEF cancel_task
  <1>4. \/ UNCHANGED vars \/ Tick
        \/ \E q \in DOMAIN tasks, u \in Users : submit_work(q, u)
        \/ \E q \in DOMAIN tasks, s \in DOMAIN submissions, u \in Users :
              approve_submission(q, s, u) \/ reject_submission(q, s, u) \/ raise_dispute(q, s, u)
        => UNCHANGED refunds
    BY DEF vars, Tick, submit_work, approve_submission, reject_submission, raise_dispute
  <1> QED
    BY <1>1, <1>2, <1>3, <1>4, StepCases

\* cancel_task never refunds a task that approve_submission paid out.
THEOREM NoRefundCorrect == Spec => NoRefundAfterPayout
  <1>1. Init => PaidApproved
    BY DEF Init, PaidApproved
  <1>2. Spec => []PaidApproved
    BY <1>1, Invariance, PaidApprovedStep, PTL DEF Spec
  <1>3. IInv /\ PaidApproved /\ [Next]_vars => [PaidOutKeepsRefunds]_vars
    BY RefundStep
  <1> QED
    BY <1>2, <1>3, Invariance, PTL DEF Spec, NoRefundAfterPayout

-----------------------------------------------------------------------------
\* Sums over finite sets.  The library defines them by a recursive function on the
\* subsets, so what they are is shown by induction on the number of elements: of
\* the sets for which it fails there would be one with the fewest.
\* A set of numbers that is not empty has a least one.
LEMMA Least ==
  ASSUME NEW T \in SUBSET Nat, T # {}
  PROVE  \E n \in T : \A m \in T : n <= m
  <1> DEFINE Less == {mn \in Nat \X Nat : mn[1] < mn[2]}
  <1>1. IsWellFoundedOn(Less, Nat)
    BY NatLessThanWellFounded DEF OpToRel
  <1>2. \E n \in T : \A m \in T : <<m, n>> \notin Less
    <2> HIDE DEF Less
    <2> QED
      BY <1>1, WFMin
  <1>3. \A m, n \in Nat : m < n => <<m, n>> \in Less
    OBVIOUS
  <1> HIDE DEF Less
  <1>4. PICK n \in T : \A m \in T : <<m, n>> \notin Less
    BY <1>2
  <1>5. \A m \in T : n <= m
    <2> SUFFICES ASSUME NEW m \in T, ~(n <= m) PROVE FALSE
      OBVIOUS
    <2>1. m \in Nat /\ n \in Nat /\ m < n
      OBVIOUS
    <2> QED
      BY <1>3, <1>4, <2>1
  <1> QED
    BY <1>4, <1>5

AnyOf(s) == CHOOSE x \in s : TRUE

\* What is to be added for s if h gives the sums of smaller sets.
SumStep(h, f, s) == IF s = {} THEN 0 ELSE f[AnyOf(s)] + h[s \ {AnyOf(s)}]

\* h sums f over the subsets of S.
Sums(h, f, S) == h = [s \in SUBSET S |-> SumStep(h, f, s)]

UpTo(S, n) == {s \in SUBSET S : Cardinality(s) <= n}

SumsUpTo(h, f, S, n) == h = [s \in UpTo(S, n) |-> SumStep(h, f, s)]

LEMMA Smaller ==
  ASSUME NEW S, IsFiniteSet(S), NEW s \in SUBSET S, s # {}
  PROVE  /\ AnyOf(s) \in s /\ s \ {AnyOf(s)} \in SUBSET S
         /\ IsFiniteSet(s) /\ Cardinality(s) \in Nat /\ Cardinality(s) > 0
         /\ \A x \in s : Cardinality(s \ {x}) = Cardinality(s) - 1
  <1>1. AnyOf(s) \in s
    BY DEF AnyOf
  <1>2. IsFiniteSet(s) /\ Cardinality(s) \in Nat
    BY FS_Subset, FS_CardinalityType
  <1>3. \A x \in s : Cardinality(s \ {x}) = Cardinality(s) - 1
    BY <1>2, FS_RemoveElement
  <1>4. Cardinality(s) # 0
    BY <1>2, FS_EmptySet
  <1> QED
    BY <1>1, <1>2, <1>3, <1>4

LEMMA SumsUpToExist ==
  ASSUME NEW S, IsFiniteSet(S), NEW f
  PROVE  \A n \in Nat : \E h : SumsUpTo(h, f, S, n)
  <1> DEFINE T == {n \in Nat : ~ \E h : SumsUpTo(h, f, S, n)}
  <1>1. SUFFICES ASSUME T # {} PROVE FALSE
    OBVIOUS
  <1>2. PICK n \in T : \A m \in T : n <= m
    BY <1>1, Least
  <1>3. CASE n = 0
    <2> DEFINE h == [s \in UpTo(S, 0) |-> 0]
    <2>1. \A s \in UpTo(S, 0) : s = {}
      <3>1. \A s \in SUBSET S : s # {} => Cardinality(s) > 0
        BY Smaller
      <3>2. \A s \in SUBSET S : Cardinality(s) \in Nat
        BY FS_Subset, FS_CardinalityType
      <3> QED
        BY <3>1, <3>2 DEF UpTo
    <2>2. SumsUpTo(h, f, S, 0)
      BY <2>1 DEF SumsUpTo, SumStep
    <2> QED
      BY <1>2, <1>3, <2>2
  <1>4. CASE n # 0
    <2>1. n - 1 \in Nat /\ n - 1 \notin T
      BY <1>2, <1>4
    <2>2. PICK h : SumsUpTo(h, f, S, n - 1)
      BY <2>1
    <2> DEFINE g == [s \in UpTo(S, n) |-> SumStep(h, f, s)]
    <2>3. \A s \in UpTo(S, n - 1) : s \in UpTo(S, n) /\ g[s] = h[s]
      <3>1. \A s \in UpTo(S, n - 1) : s \in UpTo(S, n)
        <4>1. \A s \in SUBSET S : Cardinality(s) \in Nat
          BY FS_Subset, FS_CardinalityType
        <4> QED
          BY <1>2, <4>1 DEF UpTo
      <3>2. \A s \in UpTo(S, n - 1) : h[s] = SumStep(h, f, s)
        BY <2>2 DEF SumsUpTo
      <3> QED
        BY <3>1, <3>2
    <2>4. \A s \in UpTo(S, n) : s # {} => s \ {AnyOf(s)} \in UpTo(S, n - 1)
      BY <1>2, Smaller DEF UpTo
    <2>5. \A s \in UpTo(S, n) : SumStep(h, f, s) = SumStep(g, f, s)
      BY <2>3, <2>4 DEF SumStep
    <2>6. g = [s \in UpTo(S, n) |-> SumStep(g, f, s)]
      BY <2>5
    <2> QED
      BY <1>2, <2>6 DEF SumsUpTo
  <1> QED
    BY <1>3, <1>4

LEMMA SumsExist ==
  ASSUME NEW S, IsFiniteSet(S), NEW f
  PROVE  \E h : Sums(h, f, S)
  <1>1. Cardinality(S) \in Nat
    BY FS_CardinalityType
  <1>2. UpTo(S, Cardinality(S)) = SUBSET S
    BY FS_Subset DEF UpTo
  <1>3. PICK h : SumsUpTo(h, f, S, Cardinality(S))
    BY <1>1, SumsUpToExist
  <1> QED
    BY <1>2, <1>3 DEF Sums, SumsUpTo

\* f has integers to add.
Summable(f, S) == \A x \in S : f[x] \in Int

LEMMA SumsAreInt ==
  ASSUME NEW S, IsFiniteSet(S), NEW f, Summable(f, S), NEW h, Sums(h, f, S)
  PROVE  \A s \in SUBSET S : h[s] \in Int
  <1> DEFINE T == {n \in Nat : \E s \in SUBSET S : Cardinality(s) = n /\ h[s] \notin Int}
  <1>0. \A s \in SUBSET S : h[s] = SumStep(h, f, s)
    BY DEF Sums
  <1>1. \A s \in SUBSET S : Cardinality(s) \in Nat
    BY FS_Subset, FS_CardinalityType
  <1>2. SUFFICES ASSUME T # {} PROVE FALSE
    BY <1>1
  <1>3. PICK n \in T : \A m \in T : n <= m
    BY <1>2, Least
  <1>4. PICK s \in SUBSET S : Cardinality(s) = n /\ h[s] \notin Int
    BY <1>3
  <1>5. s # {}
    <2>1. h[{}] = 0
      BY <1>0 DEF SumStep
    <2> QED
      BY <1>4, <2>1
  <1>6. h[s \ {AnyOf(s)}] \in Int
    BY <1>1, <1>3, <1>4, <1>5, Smaller
  <1>7. AnyOf(s) \in S
    BY <1>5, Smaller
  <1> QED
    BY <1>0, <1>4, <1>5, <1>6, <1>7 DEF SumStep, Summable

\* Any element may be the one to be added last.
LEMMA SumWithout ==
  ASSUME NEW S, IsFiniteSet(S), NEW f, Summable(f, S), NEW h, Sums(h, f, S)
  PROVE  \A s \in SUBSET S : \A x \in s : h[s] = f[x] + h[s \ {x}]
  <1> DEFINE Bad(s) == \E x \in s : h[s] # f[x] + h[s \ {x}]
             T == {n \in Nat : \E s \in SUBSET S : Cardinality(s) = n /\ Bad(s)}
  <1>0. \A s \in SUBSET S : h[s] = SumStep(h, f, s) /\ h[s] \in Int
    BY SumsAreInt DEF Sums
  <1>1. \A s \in SUBSET S : Cardinality(s) \in Nat
    BY FS_Subset, FS_CardinalityType
  <1>2. SUFFICES ASSUME T # {} PROVE FALSE
    BY <1>1
  <1>3. PICK n \in T : \A m \in T : n <= m
    BY <1>2, Least
  <1>4. PICK s \in SUBSET S, x \in S : Cardinality(s) = n /\ x \in s /\ h[s] # f[x] + h[s \ {x}]
    BY <1>3
  <1>5. \A r \in SUBSET S : \A y \in r : Cardinality(r) < n => h[r] = f[y] + h[r \ {y}]
    <2> SUFFICES ASSUME NEW r \in SUBSET S, NEW y \in r, Cardinality(r) < n,
                        h[r] # f[y] + h[r \ {y}]
                 PROVE  FALSE
      OBVIOUS
    <2>1. Cardinality(r) \in T
      BY <1>1
    <2> QED
      BY <1>1, <1>3, <2>1
  <1> DEFINE y == AnyOf(s)
  <1>6. /\ s # {} /\ y \in s /\ s \ {y} \in SUBSET S /\ s \ {x} \in SUBSET S
        /\ s \ {x, y} \in SUBSET S
        /\ Cardinality(s \ {x}) < n /\ Cardinality(s \ {y}) < n
    BY <1>1, <1>3, <1>4, Smaller
  <1>7. h[s] = f[y] + h[s \ {y}]
    BY <1>0, <1>6 DEF SumStep
  <1>8. x # y
    BY <1>4, <1>7
  <1> HIDE DEF y
  <1>9. h[s \ {y}] = f[x] + h[s \ {x, y}]
    <2>1. (s \ {y}) \ {x} = s \ {x, y} /\ x \in s \ {y}
      BY <1>4, <1>8
    <2> QED
      BY <1>5, <1>6, <2>1
  <1>10. h[s \ {x}] = f[y] + h[s \ {x, y}]
    <2>1. (s \ {x}) \ {y} = s \ {x, y} /\ y \in s \ {x}
      BY <1>6, <1>8
    <2> QED
      BY <1>5, <1>6, <2>1
  <1>11. f[x] \in Int /\ f[y] \in Int /\ h[s \ {x, y}] \in Int
    BY <1>0, <1>6 DEF Summable
  <1> QED
    BY <1>4, <1>7, <1>9, <1>10, <1>11

\* A sum depends on what is summed and on nothing else.
LEMMA SameSum ==
  ASSUME NEW S, IsFiniteSet(S), NEW f, NEW h, Sums(h, f, S),
         NEW R, IsFiniteSet(R), NEW e, NEW g, Sums(g, e, R),
         NEW U \in SUBSET S, U \in SUBSET R, \A x \in U : f[x] = e[x]
  PROVE  h[U] = g[U]
  <1> DEFINE T == {n \in Nat : \E s \in SUBSET U : Cardinality(s) = n /\ h[s] # g[s]}
  <1>0. \A s \in SUBSET U : h[s] = SumStep(h, f, s) /\ g[s] = SumStep(g, e, s)
    BY DEF Sums
  <1>1. \A s \in SUBSET U : Cardinality(s) \in Nat
    BY FS_Subset, FS_CardinalityType
  <1>2. SUFFICES ASSUME T # {} PROVE FALSE
    BY <1>1
  <1>3. PICK n \in T : \A m \in T : n <= m
    BY <1>2, Least
  <1>4. PICK s \in SUBSET U : Cardinality(s) = n /\ h[s] # g[s]
    BY <1>3
  <1>5. s # {}
    BY <1>0, <1>4 DEF SumStep
  <1>6. IsFiniteSet(U)
    BY FS_Subset
  <1>7. h[s \ {AnyOf(s)}] = g[s \ {AnyOf(s)}]
    <2> DEFINE r == s \ {AnyOf(s)}
    <2>1. r \in SUBSET U /\ Cardinality(r) \in Nat /\ Cardinality(r) < n
      BY <1>1, <1>3, <1>4, <1>5, <1>6, Smaller
    <2> HIDE DEF r
    <2>2. Cardinality(r) \notin T
      BY <1>3, <2>1
    <2>3. h[r] = g[r]
      BY <2>1, <2>2
    <2> QED
      BY <2>3 DEF r
  <1>8. f[AnyOf(s)] = e[AnyOf(s)]
    BY <1>5, <1>6, Smaller
  <1> QED
    BY <1>0, <1>4, <1>5, <1>7, <1>8 DEF SumStep

\* The sum of all changes by what one summand changes, or by a new one.
LEMMA SumChanged ==
  ASSUME NEW S, IsFiniteSet(S), NEW f, Summable(f, S), NEW h, Sums(h, f, S),
         NEW R, IsFiniteSet(R), NEW e, Summable(e, R), NEW g, Sums(g, e, R),
         NEW t \in R, S = R \/ S = R \ {t}, \A x \in R \ {t} : f[x] = e[x]
  PROVE  /\ h[S] \in Int
         /\ g[R] = h[S] + e[t] - (IF t \in S THEN f[t] ELSE 0)
  <1>1. \A U \in SUBSET S : h[U] \in Int
    BY SumsAreInt
  <1>2. h[R \ {t}] = g[R \ {t}]
    <2> DEFINE U == R \ {t}
    <2>1. U \in SUBSET S /\ U \in SUBSET R /\ \A x \in U : f[x] = e[x]
      OBVIOUS
    <2> HIDE DEF U
    <2>2. h[U] = g[U]
      BY <2>1, SameSum
    <2> QED
      BY <2>2 DEF U
  <1>3. g[R] = e[t] + g[R \ {t}]
    <2>1. R \in SUBSET R
      OBVIOUS
    <2> QED
      BY <2>1, SumWithout
  <1>4. CASE S = R
    <2>1. S \in SUBSET S /\ t \in S
      BY <1>4
    <2>2. h[S] = f[t] + h[S \ {t}]
      BY <2>1, SumWithout
    <2>3. h[S] \in Int /\ h[S \ {t}] \in Int /\ f[t] \in Int /\ e[t] \in Int
      BY <1>1, <1>4 DEF Summable
    <2> QED
      BY <1>2, <1>3, <1>4, <2>2, <2>3
  <1>5. CASE S = R \ {t}
    <2>1. h[S] \in Int /\ e[t] \in Int /\ t \notin S
      BY <1>1, <1>5 DEF Summable
    <2> QED
      BY <1>2, <1>3, <1>5, <2>1
  <1> QED
    BY <1>4, <1>5

-----------------------------------------------------------------------------
\* What the contract should hold for each task, and all of it.
KeptFor(ts, ps, rs) == [t \in DOMAIN ts |-> ts[t].reward * (1 - ps[t] - rs[t])]

KeptInAll(ts, ps, rs) ==
    MapThenSumSet(LAMBDA t : ts[t].reward * (1 - ps[t] - rs[t]), DOMAIN ts)

LEMMA KeptSum ==
  ASSUME NEW ts, NEW ps, NEW rs, IsFiniteSet(DOMAIN ts)
  PROVE  \E h : Sums(h, KeptFor(ts, ps, rs), DOMAIN ts) /\ KeptInAll(ts, ps, rs) = h[DOMAIN ts]
  <1> DEFINE D == DOMAIN ts
             f == KeptFor(ts, ps, rs)
             A(s) == CHOOSE x \in s : TRUE
             P(h) == h = [s \in SUBSET D |->
                             IF s = {} THEN 0
                             ELSE ts[A(s)].reward * (1 - ps[A(s)] - rs[A(s)]) + h[s \ {A(s)}]]
             H == CHOOSE h : P(h)
  <1>1. \A h : P(h) <=> Sums(h, f, D)
    <2>1. \A s \in SUBSET D : s # {} => A(s) \in D
      OBVIOUS
    <2>2. \A h : [s \in SUBSET D |->
                     IF s = {} THEN 0
                     ELSE ts[A(s)].reward * (1 - ps[A(s)] - rs[A(s)]) + h[s \ {A(s)}]]
                 = [s \in SUBSET D |-> SumStep(h, f, s)]
      BY <2>1 DEF SumStep, AnyOf, KeptFor
    <2> QED
      BY <2>2 DEF Sums
  <1>2. KeptInAll(ts, ps, rs) = H[D]
    BY DEF KeptInAll, MapThenSumSet, MapThenFoldSet
  <1> HIDE DEF P
  <1>3. P(H)
    BY <1>1, SumsExist
  <1> HIDE DEF H
  <1> QED
    BY <1>1, <1>2, <1>3

Matching(ts, ps, rs) ==
    /\ ts \in Seq(Task) /\ ps \in Seq(Nat) /\ rs \in Seq(Nat)
    /\ Len(ps) = Len(ts) /\ Len(rs) = Len(ts)

LEMMA KeptInt ==
  ASSUME NEW ts, NEW ps, NEW rs, Matching(ts, ps, rs)
  PROVE  Summable(KeptFor(ts, ps, rs), DOMAIN ts)
  <1> SUFFICES ASSUME NEW t \in DOMAIN ts PROVE KeptFor(ts, ps, rs)[t] \in Int
    BY DEF Summable
  <1>1. ts[t] \in Task /\ ps[t] \in Nat /\ rs[t] \in Nat
    BY DEF Matching
  <1>2. ts[t].reward \in Nat
    BY <1>1, Fields
  <1> QED
    BY <1>1, <1>2 DEF KeptFor

\* us has the tasks of ts and t, and keeps the same for all others.
KeptBesides(t, us, qs, ss, ts, ps, rs) ==
    /\ t \in DOMAIN us /\ DOMAIN us = DOMAIN ts \cup {t}
    /\ \A x \in DOMAIN us \ {t} : KeptFor(us, qs, ss)[x] = KeptFor(ts, ps, rs)[x]

\* All that is kept changes by what is kept for one task, or for a new one.
LEMMA KeptChanged ==
  ASSUME NEW ts, NEW ps, NEW rs, Matching(ts, ps, rs),
         NEW us, NEW qs, NEW ss, Matching(us, qs, ss),
         NEW t, KeptBesides(t, us, qs, ss, ts, ps, rs)
  PROVE  /\ KeptInAll(ts, ps, rs) \in Int
         /\ KeptInAll(us, qs, ss)
              = KeptInAll(ts, ps, rs) + KeptFor(us, qs, ss)[t]
                  - (IF t \in DOMAIN ts THEN KeptFor(ts, ps, rs)[t] ELSE 0)
  <1> DEFINE f == KeptFor(ts, ps, rs)
             e == KeptFor(us, qs, ss)
             D == DOMAIN ts
             E == DOMAIN us
  <1>1. IsFiniteSet(D) /\ IsFiniteSet(E)
    <2>1. D = 1..Len(ts) /\ E = 1..Len(us)
      BY DEF Matching
    <2> QED
      BY <2>1, FS_Interval
  <1>2. PICK h : Sums(h, f, D) /\ KeptInAll(ts, ps, rs) = h[D]
    BY <1>1, KeptSum
  <1>3. PICK g : Sums(g, e, E) /\ KeptInAll(us, qs, ss) = g[E]
    BY <1>1, KeptSum
  <1>4. Summable(f, D) /\ Summable(e, E)
    BY KeptInt
  <1> HIDE DEF f, e, D, E
  <1>5. t \in E /\ (D = E \/ D = E \ {t}) /\ \A x \in E \ {t} : f[x] = e[x]
    BY DEF f, e, D, E, KeptBesides
  <1>6. /\ h[D] \in Int
        /\ g[E] = h[D] + e[t] - (IF t \in D THEN f[t] ELSE 0)
    BY <1>1, <1>2, <1>3, <1>4, <1>5, SumChanged
  <1> QED
    BY <1>2, <1>3, <1>6 DEF f, e, D, E

-----------------------------------------------------------------------------
\* The parts of PaymentsRecorded.
approvedOf(t) == {s \in get_task_submissions(t) : submissions[s].status = "Approved"}

NoneDisputed == \A s \in disputed : submissions[s].status # "Approved"

PayoutsRight == \A t \in DOMAIN tasks : payouts[t] = Cardinality(approvedOf(t))

BalanceRight == balance = KeptInAll(tasks, payouts, refunds)

LEMMA PaymentParts == PaymentsRecorded <=> NoneDisputed /\ PayoutsRight /\ BalanceRight
  <1>1. BalanceRight <=>
          balance = MapThenSumSet(
                        LAMBDA t : tasks[t].reward * (1 - payouts[t] - refunds[t]), DOMAIN tasks)
    BY DEF BalanceRight, KeptInAll, MapThenSumSet, MapThenFoldSet
  <1> HIDE DEF BalanceRight
  <1> QED
    BY <1>1 DEF PaymentsRecorded, NoneDisputed, PayoutsRight, approvedOf, MapThenSumSet, MapThenFoldSet

LEMMA DisputedStep == IInv /\ NoneDisputed /\ [Next]_vars => NoneDisputed'
  <1> SUFFICES ASSUME IInv, NoneDisputed, [Next]_vars PROVE NoneDisputed'
    OBVIOUS
  <1> USE DEF Typed, IInv, NoneDisputed
  <1>1. CASE UNCHANGED <<submissions, disputed>>
    BY <1>1
  <1>2. ASSUME NEW t \in DOMAIN tasks, NEW u \in Users, submit_work(t, u)
        PROVE  NoneDisputed'
    <2>1. Submitted(t, u) /\ t \in 1..MaxTasks /\ UNCHANGED disputed
      BY <1>2, Bounds DEF submit_work, Submitted
    <2>2. \A q \in DOMAIN submissions : submissions'[q] = submissions[q]
      BY <2>1, OneMoreSubmission
    <2> QED
      BY <2>1, <2>2
  <1>3. ASSUME NEW t \in DOMAIN tasks, NEW s \in DOMAIN submissions, NEW u \in Users,
               approve_submission(t, s, u)
        PROVE  NoneDisputed'
    <2>1. /\ Reviewed(s, "Approved") /\ "Approved" \in SubmissionStatus
          /\ s \notin disputed /\ UNCHANGED disputed
      BY <1>3 DEF approve_submission, has_active_dispute, Reviewed, SubmissionStatus
    <2>2. \A q \in DOMAIN submissions :
             submissions'[q].status = IF q = s THEN "Approved" ELSE submissions[q].status
      BY <2>1, SubmissionsReviewed
    <2> QED
      BY <2>1, <2>2
  <1>4. ASSUME NEW t \in DOMAIN tasks, NEW s \in DOMAIN submissions, NEW u \in Users,
               reject_submission(t, s, u)
        PROVE  NoneDisputed'
    <2>1. Reviewed(s, "Rejected") /\ "Rejected" \in SubmissionStatus /\ UNCHANGED disputed
      BY <1>4 DEF reject_submission, Reviewed, SubmissionStatus
    <2>2. \A q \in DOMAIN submissions :
             submissions'[q].status = IF q = s THEN "Rejected" ELSE submissions[q].status
      BY <2>1, SubmissionsReviewed
    <2> QED
      BY <2>1, <2>2
  <1>5. ASSUME NEW t \in DOMAIN tasks, NEW s \in DOMAIN submissions, NEW u \in Users,
               raise_dispute(t, s, u)
        PROVE  NoneDisputed'
    BY <1>5 DEF raise_dispute
  <1>6. \/ UNCHANGED vars \/ Tick
        \/ \E u \in Users, r \in 0..MaxReward, d \in 0..MaxTime, m \in 0..MaxPerTask :
              create_task(u, r, d, m)
        \/ \E t \in DOMAIN tasks, u \in Users : cancel_task(t, u)
        => UNCHANGED <<submissions, disputed>>
    BY DEF vars, Tick, create_task, cancel_task
  <1> QED
    BY <1>1, <1>2, <1>3, <1>4, <1>5, <1>6, StepCases

\* Calls that approve nothing leave the approved submissions of a task.
LEMMA ApprovedKept ==
  ASSUME NEW t,
         \A q \in DOMAIN submissions :
           /\ q \in DOMAIN submissions'
           /\ submissions'[q].task = submissions[q].task
           /\ submissions'[q].status = "Approved" <=> submissions[q].status = "Approved",
         \A q \in DOMAIN submissions' \ DOMAIN submissions : submissions'[q].status # "Approved"
  PROVE  approvedOf(t)' = approvedOf(t)
  BY DEF approvedOf, get_task_submissions

LEMMA PayoutsStep == IInv /\ PayoutsRight /\ [Next]_vars => PayoutsRight'
  <1> SUFFICES ASSUME IInv, PayoutsRight, [Next]_vars PROVE PayoutsRight'
    OBVIOUS
  <1> USE DEF Typed, IInv
  <1>1. CASE UNCHANGED <<tasks, submissions, payouts>>
    BY <1>1 DEF PayoutsRight, approvedOf, get_task_submissions
  <1>2. ASSUME NEW u \in Users, NEW r \in 0..MaxReward, NEW d \in 0..MaxTime,
               NEW m \in 0..MaxPerTask, create_task(u, r, d, m)
        PROVE  PayoutsRight'
    <2> DEFINE n == Len(tasks) + 1
    <2>1. /\ Len(tasks') = n /\ tasks' \in Seq(Task) /\ UNCHANGED submissions
          /\ payouts' = Append(payouts, 0)
      <3>1. Typed'
        BY TypedStep
      <3>2. Len(payouts') = Len(payouts) + 1
        BY <1>2 DEF create_task
      <3> QED
        BY <1>2, <3>1, <3>2 DEF create_task
    <2>2. \A t \in 1..Len(tasks) : payouts'[t] = payouts[t]
      BY <2>1
    <2>3. payouts'[n] = 0
      BY <2>1
    <2>4. DOMAIN tasks' = 1..Len(tasks) \cup {n} /\ DOMAIN tasks = 1..Len(tasks)
      BY <2>1
    <2>5. n \notin DOMAIN tasks
      OBVIOUS
    <2> HIDE DEF n
    <2>6. ASSUME NEW t \in DOMAIN tasks PROVE payouts'[t] = Cardinality(approvedOf(t)')
      <3>1. approvedOf(t)' = approvedOf(t)
        BY <2>1 DEF approvedOf, get_task_submissions
      <3> QED
        BY <2>2, <2>4, <3>1 DEF PayoutsRight
    <2>7. ASSUME NEW t \in {n} PROVE payouts'[t] = Cardinality(approvedOf(t)')
      <3>1. approvedOf(t)' = {}
        BY <2>1, <2>5 DEF approvedOf, get_task_submissions
      <3> QED
        BY <2>3, <3>1, FS_EmptySet
    <2>8. DOMAIN tasks' = DOMAIN tasks \cup {n}
      BY <2>4
    <2> QED
      BY <2>6, <2>7, <2>8 DEF PayoutsRight
  <1>3. ASSUME NEW t \in DOMAIN tasks, NEW u \in Users, submit_work(t, u)
        PROVE  PayoutsRight'
    <2>1. /\ Submitted(t, u) /\ t \in 1..MaxTasks /\ UNCHANGED payouts
          /\ DOMAIN tasks' = DOMAIN tasks
      <3>1. DOMAIN tasks' = DOMAIN tasks
        BY <1>3, WorkCounted
      <3> QED
        BY <1>3, <3>1, Bounds DEF submit_work, Submitted
    <2>2. /\ DOMAIN submissions' = DOMAIN submissions \cup {Len(submissions) + 1}
          /\ \A q \in DOMAIN submissions : submissions'[q] = submissions[q]
          /\ submissions'[Len(submissions) + 1].status = "Pending"
      BY <2>1, OneMoreSubmission
    <2>3. \A q : approvedOf(q)' = approvedOf(q)
      BY <2>2, ApprovedKept
    <2> QED
      BY <2>1, <2>3 DEF PayoutsRight
  <1>4. ASSUME NEW t \in DOMAIN tasks, NEW s \in DOMAIN submissions, NEW u \in Users,
               approve_submission(t, s, u)
        PROVE  PayoutsRight'
    <2>1. /\ Reviewed(s, "Approved") /\ "Approved" \in SubmissionStatus
          /\ StatusChanged(t, "Completed") /\ "Completed" \in TaskStatus
          /\ submissions[s].task = t /\ submissions[s].status = "Pending"
          /\ payouts' = [payouts EXCEPT ![t] = @ + 1]
      BY <1>4 DEF approve_submission, pending, Reviewed, SubmissionStatus, StatusChanged, TaskStatus
    <2>2. /\ DOMAIN submissions' = DOMAIN submissions
          /\ \A q \in DOMAIN submissions :
               /\ submissions'[q].task = submissions[q].task
               /\ submissions'[q].status = IF q = s THEN "Approved" ELSE submissions[q].status
      BY <2>1, SubmissionsReviewed
    <2>3. DOMAIN tasks' = DOMAIN tasks
      BY <2>1, TasksInStatus
    <2>4. ASSUME NEW q \in DOMAIN tasks, q # t
          PROVE  payouts'[q] = Cardinality(approvedOf(q)')
      <3>1. approvedOf(q)' = approvedOf(q)
        BY <2>1, <2>2, <2>4 DEF approvedOf, get_task_submissions
      <3>2. payouts'[q] = payouts[q] /\ payouts[q] = Cardinality(approvedOf(q))
        BY <2>1, <2>4 DEF PayoutsRight
      <3> QED
        BY <3>1, <3>2
    <2>5. payouts'[t] = Cardinality(approvedOf(t)')
      <3>1. approvedOf(t)' = approvedOf(t) \cup {s} /\ s \notin approvedOf(t)
        BY <2>1, <2>2 DEF approvedOf, get_task_submissions
      <3>2. IsFiniteSet(approvedOf(t))
        <4>1. approvedOf(t) \in SUBSET get_task_submissions(t)
          BY DEF approvedOf
        <4> QED
          BY <4>1, OwnFinite, FS_Subset
      <3>3. Cardinality(approvedOf(t)') = Cardinality(approvedOf(t)) + 1
        BY <3>1, <3>2, FS_AddElement
      <3> QED
        BY <2>1, <3>3 DEF PayoutsRight
    <2> QED
      BY <2>3, <2>4, <2>5 DEF PayoutsRight
  <1>5. ASSUME NEW t \in DOMAIN tasks, NEW s \in DOMAIN submissions, NEW u \in Users,
               reject_submission(t, s, u)
        PROVE  PayoutsRight'
    <2>1. /\ Reviewed(s, "Rejected") /\ "Rejected" \in SubmissionStatus
          /\ submissions[s].status = "Pending" /\ UNCHANGED <<tasks, payouts>>
      BY <1>5 DEF reject_submission, pending, Reviewed, SubmissionStatus
    <2>2. /\ DOMAIN submissions' = DOMAIN submissions
          /\ \A q \in DOMAIN submissions :
               /\ submissions'[q].task = submissions[q].task
               /\ submissions'[q].status = IF q = s THEN "Rejected" ELSE submissions[q].status
      BY <2>1, SubmissionsReviewed
    <2>3. \A q : approvedOf(q)' = approvedOf(q)
      BY <2>1, <2>2, ApprovedKept
    <2> QED
      BY <2>1, <2>3 DEF PayoutsRight
  <1>6. ASSUME NEW t \in DOMAIN tasks, NEW st \in TaskStatus, StatusChanged(t, st),
               UNCHANGED <<submissions, payouts>>
        PROVE  PayoutsRight'
    <2>1. DOMAIN tasks' = DOMAIN tasks
      BY <1>6, TasksInStatus
    <2> QED
      BY <1>6, <2>1 DEF PayoutsRight, approvedOf, get_task_submissions
  <1>7. ASSUME NEW t \in DOMAIN tasks, NEW s \in DOMAIN submissions, NEW u \in Users,
               raise_dispute(t, s, u)
        PROVE  PayoutsRight'
    BY <1>6, <1>7 DEF raise_dispute, StatusChanged, TaskStatus
  <1>8. ASSUME NEW t \in DOMAIN tasks, NEW u \in Users, cancel_task(t, u)
        PROVE  PayoutsRight'
    BY <1>6, <1>8 DEF cancel_task, StatusChanged, TaskStatus
  <1>9. UNCHANGED vars \/ Tick => UNCHANGED <<tasks, submissions, payouts>>
    BY DEF vars, Tick
  <1> QED
    BY <1>1, <1>2, <1>3, <1>4, <1>5, <1>7, <1>8, <1>9, StepCases

-----------------------------------------------------------------------------
\* The numbers kept for a task.
LEMMA TaskNumbers ==
  ASSUME IInv, NEW t \in DOMAIN tasks
  PROVE  tasks[t].reward \in Nat /\ payouts[t] \in Nat /\ refunds[t] \in Nat
  <1>1. /\ tasks[t] \in Task /\ t \in 1..Len(payouts) /\ t \in 1..Len(refunds)
        /\ payouts \in Seq(Nat) /\ refunds \in Seq(Nat)
    BY DEF IInv, Typed
  <1>2. payouts[t] \in Nat /\ refunds[t] \in Nat
    BY <1>1
  <1> QED
    BY <1>1, <1>2, Fields

\* A call on one task keeps the rewards and changes the numbers of payouts and
\* refunds of that task only.
LEMMA KeptForOthers ==
  ASSUME IInv, IInv', NEW t \in DOMAIN tasks, DOMAIN tasks' = DOMAIN tasks,
         \A q \in DOMAIN tasks : tasks'[q].reward = tasks[q].reward,
         \A q \in DOMAIN tasks \ {t} : payouts'[q] = payouts[q] /\ refunds'[q] = refunds[q]
  PROVE  /\ KeptInAll(tasks', payouts', refunds') - KeptInAll(tasks, payouts, refunds)
              = tasks[t].reward * (payouts[t] + refunds[t] - payouts'[t] - refunds'[t])
         /\ KeptInAll(tasks, payouts, refunds) \in Int
         /\ KeptInAll(tasks', payouts', refunds') \in Int
  <1>1. Matching(tasks, payouts, refunds) /\ Matching(tasks', payouts', refunds')
    BY DEF IInv, Typed, Matching
  <1>2. KeptBesides(t, tasks', payouts', refunds', tasks, payouts, refunds)
    BY DEF KeptFor, KeptBesides
  <1>3. /\ KeptInAll(tasks, payouts, refunds) \in Int
        /\ KeptInAll(tasks', payouts', refunds')
             = KeptInAll(tasks, payouts, refunds) + KeptFor(tasks', payouts', refunds')[t]
                 - (IF t \in DOMAIN tasks THEN KeptFor(tasks, payouts, refunds)[t] ELSE 0)
    BY <1>1, <1>2, KeptChanged
  <1> DEFINE k == tasks[t].reward
             x == 1 - payouts'[t] - refunds'[t]
             y == 1 - payouts[t] - refunds[t]
  <1>4. KeptFor(tasks, payouts, refunds)[t] = k * y /\ KeptFor(tasks', payouts', refunds')[t] = k * x
    BY DEF KeptFor
  <1>5. /\ payouts[t] \in Int /\ refunds[t] \in Int /\ payouts'[t] \in Int /\ refunds'[t] \in Int
    <2>1. /\ t \in 1..Len(payouts') /\ t \in 1..Len(refunds')
          /\ payouts' \in Seq(Nat) /\ refunds' \in Seq(Nat)
      BY DEF IInv, Typed
    <2>2. payouts'[t] \in Nat /\ refunds'[t] \in Nat
      BY <2>1
    <2> QED
      BY <2>2, TaskNumbers
  <1>6. k \in Int /\ x \in Int /\ y \in Int
    BY <1>5, TaskNumbers
  <1>7. x - y = payouts[t] + refunds[t] - payouts'[t] - refunds'[t]
    BY <1>5
  <1> HIDE DEF k, x, y
  <1>8. k * x - k * y = k * (x - y) /\ k * x \in Int /\ k * y \in Int
    BY <1>6
  <1> QED
    BY <1>3, <1>4, <1>7, <1>8 DEF k

LEMMA BalanceStep == IInv /\ IInv' /\ BalanceRight /\ [Next]_vars => BalanceRight'
  <1> SUFFICES ASSUME IInv, IInv', BalanceRight, [Next]_vars PROVE BalanceRight'
    OBVIOUS
  <1> USE DEF BalanceRight
  <1>1. CASE UNCHANGED <<tasks, balance, payouts, refunds>>
    BY <1>1
  <1>2. ASSUME NEW u \in Users, NEW r \in 0..MaxReward, NEW d \in 0..MaxTime,
               NEW m \in 0..MaxPerTask, create_task(u, r, d, m)
        PROVE  BalanceRight'
    <2> DEFINE n == Len(tasks) + 1
               k == [poster |-> u, reward |-> r, deadline |-> d, max_submissions |-> m,
                     submission_count |-> 0, status |-> "Open"]
    <2>1. tasks' = Append(tasks, k) /\ k.reward = r /\ k \in Task
      BY <1>2, NewTask DEF create_task
    <2> HIDE DEF k
    <2>2. payouts' = Append(payouts, 0) /\ refunds' = Append(refunds, 0) /\ balance' = balance + r
      BY <1>2 DEF create_task
    <2>3. /\ DOMAIN tasks' = 1..n /\ DOMAIN tasks = DOMAIN tasks' \ {n} /\ n \in DOMAIN tasks'
          /\ \A q \in DOMAIN tasks : /\ tasks'[q] = tasks[q] /\ payouts'[q] = payouts[q]
                                     /\ refunds'[q] = refunds[q]
          /\ tasks'[n] = k /\ payouts'[n] = 0 /\ refunds'[n] = 0
      BY <2>1, <2>2 DEF IInv, Typed
    <2>4. \A q \in DOMAIN tasks' \ {n} :
             KeptFor(tasks', payouts', refunds')[q] = KeptFor(tasks, payouts, refunds)[q]
      BY <2>3 DEF KeptFor
    <2>5. KeptFor(tasks', payouts', refunds')[n] = r
      <3>1. KeptFor(tasks', payouts', refunds')[n] = r * (1 - 0 - 0)
        BY <2>1, <2>3 DEF KeptFor
      <3> QED
        BY <3>1, Bounds
    <2> HIDE DEF n
    <2>6. /\ KeptInAll(tasks, payouts, refunds) \in Int
          /\ KeptInAll(tasks', payouts', refunds')
               = KeptInAll(tasks, payouts, refunds) + KeptFor(tasks', payouts', refunds')[n] - 0
      <3>1. n \notin DOMAIN tasks
        BY <2>3
      <3>2. Matching(tasks, payouts, refunds) /\ Matching(tasks', payouts', refunds')
        BY DEF IInv, Typed, Matching
      <3>3. KeptBesides(n, tasks', payouts', refunds', tasks, payouts, refunds)
        BY <2>3, <2>4 DEF KeptBesides
      <3>4. KeptInAll(tasks', payouts', refunds')
              = KeptInAll(tasks, payouts, refunds) + KeptFor(tasks', payouts', refunds')[n]
                  - (IF n \in DOMAIN tasks THEN KeptFor(tasks, payouts, refunds)[n] ELSE 0)
        BY <3>2, <3>3, KeptChanged
      <3>5. KeptInAll(tasks, payouts, refunds) \in Int
        BY <3>2, <3>3, KeptChanged
      <3> QED
        BY <3>1, <3>4, <3>5
    <2> QED
      BY <2>2, <2>5, <2>6, Bounds
  <1>3. ASSUME NEW t \in DOMAIN tasks, DOMAIN tasks' = DOMAIN tasks,
               \A q \in DOMAIN tasks : tasks'[q].reward = tasks[q].reward,
               UNCHANGED <<balance, payouts, refunds>>
        PROVE  BalanceRight'
    <2>1. /\ KeptInAll(tasks', payouts', refunds') - KeptInAll(tasks, payouts, refunds)
               = tasks[t].reward * (payouts[t] + refunds[t] - payouts[t] - refunds[t])
          /\ KeptInAll(tasks, payouts, refunds) \in Int
          /\ KeptInAll(tasks', payouts', refunds') \in Int
      BY <1>3, KeptForOthers
    <2>2. tasks[t].reward \in Int /\ payouts[t] \in Int /\ refunds[t] \in Int
      BY TaskNumbers
    <2>3. tasks[t].reward * (payouts[t] + refunds[t] - payouts[t] - refunds[t]) = 0
      BY <2>2
    <2> QED
      BY <1>3, <2>1, <2>3
  <1>4. ASSUME NEW t \in DOMAIN tasks, NEW u \in Users, submit_work(t, u)
        PROVE  BalanceRight'
    BY <1>3, <1>4, WorkCounted DEF submit_work, IInv, Typed
  <1>5. ASSUME NEW t \in DOMAIN tasks, NEW s \in DOMAIN submissions, NEW u \in Users,
               raise_dispute(t, s, u)
        PROVE  BalanceRight'
    <2>1. /\ StatusChanged(t, "Disputed") /\ "Disputed" \in TaskStatus
          /\ UNCHANGED <<balance, payouts, refunds>>
      BY <1>5 DEF raise_dispute, StatusChanged, TaskStatus
    <2> QED
      BY <1>3, <2>1, TasksInStatus DEF IInv, Typed
  <1>6. ASSUME NEW t \in DOMAIN tasks, NEW st \in TaskStatus, StatusChanged(t, st),
               transferReward(t),
               \/ payouts' = [payouts EXCEPT ![t] = @ + 1] /\ UNCHANGED refunds
               \/ refunds' = [refunds EXCEPT ![t] = @ + 1] /\ UNCHANGED payouts
        PROVE  BalanceRight'
    <2>1. /\ DOMAIN tasks' = DOMAIN tasks
          /\ \A q \in DOMAIN tasks : tasks'[q].reward = tasks[q].reward
      BY <1>6, TasksInStatus DEF IInv, Typed
    <2>2. /\ \A q \in DOMAIN tasks \ {t} : payouts'[q] = payouts[q] /\ refunds'[q] = refunds[q]
          /\ payouts'[t] + refunds'[t] = payouts[t] + refunds[t] + 1
          /\ payouts'[t] \in Nat /\ refunds'[t] \in Nat
      <3>1. /\ t \in 1..Len(payouts) /\ t \in 1..Len(refunds)
            /\ payouts \in Seq(Nat) /\ refunds \in Seq(Nat)
        BY DEF IInv, Typed
      <3>2. CASE payouts' = [payouts EXCEPT ![t] = @ + 1] /\ UNCHANGED refunds
        <4>1. payouts'[t] = payouts[t] + 1 /\ payouts[t] \in Nat /\ refunds[t] \in Nat
          BY <3>1, <3>2
        <4> QED
          BY <3>2, <4>1
      <3>3. CASE refunds' = [refunds EXCEPT ![t] = @ + 1] /\ UNCHANGED payouts
        <4>1. refunds'[t] = refunds[t] + 1 /\ payouts[t] \in Nat /\ refunds[t] \in Nat
          BY <3>1, <3>3
        <4> QED
          BY <3>3, <4>1
      <3> QED
        BY <1>6, <3>2, <3>3
    <2>3. /\ KeptInAll(tasks', payouts', refunds') - KeptInAll(tasks, payouts, refunds)
               = tasks[t].reward * (payouts[t] + refunds[t] - payouts'[t] - refunds'[t])
          /\ KeptInAll(tasks, payouts, refunds) \in Int
          /\ KeptInAll(tasks', payouts', refunds') \in Int
      BY <2>1, <2>2, KeptForOthers
    <2>4. tasks[t].reward \in Int /\ payouts[t] \in Int /\ refunds[t] \in Int
      BY TaskNumbers
    <2>5. payouts[t] + refunds[t] - payouts'[t] - refunds'[t] = -1
      BY <2>2, <2>4
    <2>6. tasks[t].reward * (-1) = 0 - tasks[t].reward
      BY <2>4
    <2>7. balance' = balance - tasks[t].reward
      BY <1>6 DEF transferReward
    <2> QED
      BY <2>3, <2>4, <2>5, <2>6, <2>7
  <1>7. ASSUME NEW t \in DOMAIN tasks, NEW s \in DOMAIN submissions, NEW u \in Users,
               approve_submission(t, s, u)
        PROVE  BalanceRight'
    BY <1>6, <1>7 DEF approve_submission, StatusChanged, TaskStatus
  <1>8. ASSUME NEW t \in DOMAIN tasks, NEW u \in Users, cancel_task(t, u)
        PROVE  BalanceRight'
    BY <1>6, <1>8 DEF cancel_task, StatusChanged, TaskStatus
  <1>9. \/ UNCHANGED vars \/ Tick
        \/ \E t \in DOMAIN tasks, s \in DOMAIN submissions, u \in Users :
              reject_submission(t, s, u)
        => UNCHANGED <<tasks, balance, payouts, refunds>>
    BY DEF vars, Tick, reject_submission
  <1> QED
    BY <1>1, <1>2, <1>4, <1>5, <1>7, <1>8, <1>9, StepCases

\* A reward went out once per approved submission, none of which is under
\* dispute, and the balance is what create_task took in less what
\* approve_submission and cancel_task gave out.
THEOREM PaymentsCorrect == Spec => []PaymentsRecorded
  <1> DEFINE Parts == NoneDisputed /\ PayoutsRight /\ BalanceRight
  <1>1. Init => Parts
    <2> SUFFICES ASSUME Init PROVE Parts
      OBVIOUS
    <2>1. NoneDisputed /\ PayoutsRight
      BY DEF Init, NoneDisputed, PayoutsRight
    <2>2. DOMAIN tasks = {} /\ balance = 0
      BY DEF Init
    <2>3. IsFiniteSet(DOMAIN tasks)
      BY <2>2, FS_EmptySet
    <2>4. PICK h : /\ Sums(h, KeptFor(tasks, payouts, refunds), DOMAIN tasks)
                   /\ KeptInAll(tasks, payouts, refunds) = h[DOMAIN tasks]
      BY <2>3, KeptSum
    <2>5. h[{}] = 0
      BY <2>4 DEF Sums, SumStep
    <2> QED
      BY <2>1, <2>2, <2>4, <2>5 DEF BalanceRight
  <1>2. IInv /\ IInv' /\ Parts /\ [Next]_vars => Parts'
    BY DisputedStep, PayoutsStep, BalanceStep
  <1>3. Parts => PaymentsRecorded
    BY PaymentParts
  <1> HIDE DEF Parts
  <1> QED
    BY <1>1, <1>2, <1>3, Invariance, PTL DEF Spec

=============================================================================
