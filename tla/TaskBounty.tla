----------------------------- MODULE TaskBounty -----------------------------
(***************************************************************************)
(* The TaskBounty contract (Documents/Task Bounty/src): tasks with an      *)
(* escrowed reward, submissions and disputes.  A call is atomic and a      *)
(* rejected one changes nothing.  All rewards are in one token, so that    *)
(* the tasks share the contract's balance of it; `initialize` has been     *)
(* called once.                                                            *)
(*                                                                         *)
(* The ids are positions: task t is tasks[t], submission s submissions[s]. *)
(* The keys TASK_SUBS and HAS_SUB follow from the submissions, which no    *)
(* call removes.  `payouts` and `refunds` are history.                     *)
(***************************************************************************)
EXTENDS Integers, Sequences, FiniteSets, FiniteSetsExt

CONSTANTS
    Users,
    MinReward,       \* MIN_REWARD
    MaxReward,       \* bound: rewards
    MaxDeadline,     \* MAX_DEADLINE
    MaxPerTask,      \* bound: max_submissions
    MaxTasks,        \* bound: tasks
    MaxSubmissions,  \* bound: submissions
    MaxTime          \* bound: ledger time

ASSUME TaskBountyAssumption ==
    {MinReward, MaxReward, MaxDeadline, MaxPerTask, MaxTasks, MaxSubmissions, MaxTime}
        \subseteq Nat

TaskStatus == {"Open", "InProgress", "Completed", "Cancelled", "Disputed"}

SubmissionStatus == {"Pending", "Approved", "Rejected"}

Task == [poster : Users, reward : MinReward..MaxReward, deadline : Nat,
         max_submissions : 1..MaxPerTask, submission_count : 0..MaxPerTask,
         status : TaskStatus]

Submission == [task : 1..MaxTasks, contributor : Users, status : SubmissionStatus]

VARIABLES
    now, tasks, submissions,
    disputed,          \* the submissions with an active dispute
    balance,           \* the contract's balance of the token
    payouts, refunds   \* how often a task's reward went out, by task

vars == <<now, tasks, submissions, disputed, balance, payouts, refunds>>

get_task_submissions(t) == {s \in DOMAIN submissions : submissions[s].task = t}

-----------------------------------------------------------------------------
Init ==
    /\ now = 0
    /\ tasks = <<>>
    /\ submissions = <<>>
    /\ disputed = {}
    /\ balance = 0
    /\ payouts = <<>>
    /\ refunds = <<>>

Tick ==
    /\ now < MaxTime
    /\ now' = now + 1
    /\ UNCHANGED <<tasks, submissions, disputed, balance, payouts, refunds>>

create_task(poster, reward, deadline, max) ==
    /\ reward >= MinReward
    /\ now < deadline /\ deadline <= now + MaxDeadline
    /\ max > 0
    /\ Len(tasks) < MaxTasks
    /\ balance' = balance + reward
    /\ tasks' = Append(tasks, [poster |-> poster, reward |-> reward, deadline |-> deadline,
                               max_submissions |-> max, submission_count |-> 0,
                               status |-> "Open"])
    /\ payouts' = Append(payouts, 0)
    /\ refunds' = Append(refunds, 0)
    /\ UNCHANGED <<now, submissions, disputed>>

has_contributor_submitted(t, contributor) ==
    \E s \in get_task_submissions(t) : submissions[s].contributor = contributor

\* Mutant: off by one at the last submission.
hasRoomOffByOne(task) == task.submission_count <= task.max_submissions

hasRoom(task) == task.submission_count < task.max_submissions

submit_work(t, contributor) ==
    /\ tasks[t].status \in {"Open", "InProgress"}
    /\ now <= tasks[t].deadline
    /\ ~has_contributor_submitted(t, contributor)
    /\ hasRoom(tasks[t])
    /\ Len(submissions) < MaxSubmissions
    /\ submissions' = Append(submissions,
            [task |-> t, contributor |-> contributor, status |-> "Pending"])
    /\ tasks' = [tasks EXCEPT ![t].submission_count = @ + 1, ![t].status = "InProgress"]
    /\ UNCHANGED <<now, disputed, balance, payouts, refunds>>

\* The token refuses a transfer beyond the balance, and the call fails.
transferReward(t) ==
    /\ balance >= tasks[t].reward
    /\ balance' = balance - tasks[t].reward

has_active_dispute(s) == s \in disputed

\* Mutant: an approved submission may be reviewed again.
unrejected(s) == submissions[s].status # "Rejected"

pending(s) == submissions[s].status = "Pending"

\* A task that is over is neither paid nor refunded.
over(t) == tasks[t].status \in {"Completed", "Cancelled"}

approve_submission(t, s, poster) ==
    /\ tasks[t].poster = poster
    /\ submissions[s].task = t
    /\ pending(s)
    /\ ~over(t)
    /\ ~has_active_dispute(s)
    /\ submissions' = [submissions EXCEPT ![s].status = "Approved"]
    /\ tasks' = [tasks EXCEPT ![t].status = "Completed"]
    /\ transferReward(t)
    /\ payouts' = [payouts EXCEPT ![t] = @ + 1]
    /\ UNCHANGED <<now, disputed, refunds>>

\* The status of the task does not matter.
reject_submission(t, s, poster) ==
    /\ tasks[t].poster = poster
    /\ submissions[s].task = t
    /\ pending(s)
    /\ submissions' = [submissions EXCEPT ![s].status = "Rejected"]
    /\ UNCHANGED <<now, tasks, disputed, balance, payouts, refunds>>

\* Mutant: the loop over the submissions is left out.
approvedIgnored(t) == FALSE

hasApproved(t) == \E s \in get_task_submissions(t) : submissions[s].status = "Approved"

cancel_task(t, poster) ==
    /\ tasks[t].poster = poster
    /\ ~over(t)
    /\ ~hasApproved(t)
    /\ tasks' = [tasks EXCEPT ![t].status = "Cancelled"]
    /\ transferReward(t)
    /\ refunds' = [refunds EXCEPT ![t] = @ + 1]
    /\ UNCHANGED <<now, submissions, disputed, payouts>>

\* The status of the task does not matter.
raise_dispute(t, s, raiser) ==
    /\ submissions[s].task = t
    /\ raiser \in {tasks[t].poster, submissions[s].contributor}
    /\ submissions[s].status \in {"Pending", "Rejected"}
    /\ ~has_active_dispute(s)
    /\ disputed' = disputed \cup {s}
    /\ tasks' = [tasks EXCEPT ![t].status = "Disputed"]
    /\ UNCHANGED <<now, submissions, balance, payouts, refunds>>

Next ==
    \/ Tick
    \/ \E u \in Users, reward \in 0..MaxReward, deadline \in 0..MaxTime, max \in 0..MaxPerTask :
         create_task(u, reward, deadline, max)
    \/ \E t \in DOMAIN tasks, u \in Users :
         \/ submit_work(t, u)
         \/ cancel_task(t, u)
         \/ \E s \in DOMAIN submissions :
              \/ approve_submission(t, s, u)
              \/ reject_submission(t, s, u)
              \/ raise_dispute(t, s, u)

Spec == Init /\ [][Next]_vars

-----------------------------------------------------------------------------
(***************************************************************************)
(* Properties                                                              *)
(***************************************************************************)

\* A task counts its submissions, takes no more than it allows, and no two from
\* one contributor.
CountsRight ==
    \A t \in DOMAIN tasks :
      LET own == get_task_submissions(t)
      IN /\ tasks[t].submission_count = Cardinality(own)
         /\ tasks[t].submission_count <= tasks[t].max_submissions
         /\ \A r, s \in own : submissions[r].contributor = submissions[s].contributor => r = s

\* Types, and the counts of CountsRight.
TypeOK ==
    /\ now \in 0..MaxTime
    /\ tasks \in Seq(Task)
    /\ submissions \in Seq(Submission)
    /\ disputed \subseteq DOMAIN submissions
    /\ balance \in Nat
    /\ payouts \in Seq(Nat) /\ Len(payouts) = Len(tasks)
    /\ refunds \in Seq(Nat) /\ Len(refunds) = Len(tasks)
    /\ CountsRight

\* Money out follows the records: a reward went out once per approved
\* submission, none of which is under dispute, and the balance is what was paid
\* in less what went out.
PaymentsRecorded ==
    /\ \A s \in disputed : submissions[s].status # "Approved"
    /\ \A t \in DOMAIN tasks :
         payouts[t] = Cardinality({s \in get_task_submissions(t) :
                                     submissions[s].status = "Approved"})
    /\ balance = MapThenSumSet(
                     LAMBDA t : tasks[t].reward * (1 - payouts[t] - refunds[t]), DOMAIN tasks)

\* Once a contributor was paid, the poster never gets a refund, however the
\* task is disputed afterwards.
PaidOutKeepsRefunds == \A t \in DOMAIN tasks : payouts[t] > 0 => refunds'[t] = refunds[t]

NoRefundAfterPayout == [][PaidOutKeepsRefunds]_vars

\* "Escrow pattern ensures funds are locked until resolution" (SUMMARY.md): the
\* contract holds the reward of every task that nobody was paid or refunded for.
FundsLocked ==
    balance >= MapThenSumSet(
                   LAMBDA t : IF payouts[t] + refunds[t] = 0 THEN tasks[t].reward ELSE 0,
                   DOMAIN tasks)
=============================================================================
