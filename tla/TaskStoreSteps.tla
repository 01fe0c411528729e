--------------------------- MODULE TaskStoreSteps ---------------------------
(***************************************************************************)
(* What each transaction does to the task it is about, and what no         *)
(* transaction ever does.                                                  *)
(*                                                                         *)
(* An effect relates a task's row and steps before a transaction (row, st) *)
(* to those after it (new, st2) and to the events it appends (log).  In a  *)
(* state with IInv every step of Next has, on one task, one of the effects *)
(* below, and leaves the others alone (NextEffect); what follows from the  *)
(* effects needs no look at the actions any more.                          *)
(***************************************************************************)
EXTENDS TaskStoreProofs

\* The task's deadline has not passed.
InTime(row) == row.deadline_at = NULL \/ row.deadline_at > now

\* validateOwnership lets the owner of this row go on.
Active(row) ==
  /\ row.status = "RUNNING"
  /\ ~row.cancel_requested
  /\ row.lease_expires_at > now
  /\ InTime(row)

\* The columns that only CreateTask, only a claim, and only a success write.
KeepsOrder(row, new) ==
  new.run_at = row.run_at /\ new.task_timeout_seconds = row.task_timeout_seconds

KeepsClaim(row, new) ==
  new.lease_version = row.lease_version /\ new.deadline_at = row.deadline_at

KeepsCursor(row, new) ==
  new.current_step = row.current_step /\ new.checkpoint = row.checkpoint

KeepsCancel(row, new) == new.cancel_requested = row.cancel_requested

\* The current step is the only one that is written, and it keeps its definition.
WritesCurrent(row, st, st2) ==
  /\ DOMAIN st2 = DOMAIN st /\ Len(st2) = Len(st)
  /\ \A j \in DOMAIN st : j # row.current_step => st2[j] = st[j]
  /\ st2[row.current_step].type = st[row.current_step].type
  /\ st2[row.current_step].input = st[row.current_step].input
  /\ st2[row.current_step].max_attempts = st[row.current_step].max_attempts

\* What a step was started with, how often, and what was decided are kept.
KeepsFacts(old, s) ==
  /\ s.attempt = old.attempt
  /\ s.resolved_input = old.resolved_input
  /\ s.approval_decision = old.approval_decision

\* The input that step s is given, when its row was old.
Resolves(row, st, old, s) ==
  /\ s.resolved_input # NULL
  /\ old.resolved_input # NULL => s.resolved_input = old.resolved_input
  /\ old.resolved_input = NULL =>
       /\ old.input = "literal" => s.resolved_input = "literal"
       /\ old.input = "checkpoint" => s.resolved_input = row.checkpoint
       /\ old.input = "previous_output" =>
            row.current_step > 1 /\ s.resolved_input = st[row.current_step - 1].output

OwnerEvent(type, row, n) == Event(type, row.current_step, n, row.worker_id, row.lease_version)

-----------------------------------------------------------------------------
(* The effects. *)

CreateEffect(row, st, new, st2, log) ==
  /\ row.status = "NONE"
  /\ new.status \in {"SCHEDULED", "RUNNABLE"}
  /\ new.lease_version = 0 /\ new.deadline_at = NULL /\ ~new.cancel_requested
  /\ new.current_step = 1 /\ new.task_timeout_seconds > 0
  /\ new.status = "RUNNABLE" => new.run_at <= now
  /\ \E d \in Definitions :
       validateDefinition(d) /\ st2 = [i \in DOMAIN d.steps |-> NewStep(d.steps[i])]
  /\ Len(st2) \in 1..100
  /\ \A i \in DOMAIN st2 : Untouched(st2[i])
  /\ \/ log = <<TaskEvent("TASK_CREATED")>>
     \/ log = <<TaskEvent("TASK_CREATED"), TaskEvent("TASK_SCHEDULED")>>

\* RenewLease, and a cancellation that the owner is left to notice.
MarkEffect(row, st, new, st2, log) ==
  /\ row.status = "RUNNING" /\ new.status = "RUNNING" /\ new.worker_id = row.worker_id
  /\ KeepsOrder(row, new) /\ KeepsClaim(row, new) /\ KeepsCursor(row, new)
  /\ \/ Active(row) /\ KeepsCancel(row, new) /\ new.lease_expires_at = now + LeaseDuration
     \/ new.cancel_requested /\ new.lease_expires_at = row.lease_expires_at
  /\ st2 = st
  /\ log = <<>>

WakeEffect(row, st, new, st2, log) ==
  /\ row.status \in {"SCHEDULED", "RETRY_WAIT"} /\ new.status = "RUNNABLE"
  /\ InTime(row)
  /\ row.status = "RETRY_WAIT" => row.retry_at <= now
  /\ row.status = "SCHEDULED" => row.run_at <= now
  /\ KeepsOrder(row, new) /\ KeepsClaim(row, new) /\ KeepsCursor(row, new)
  /\ KeepsCancel(row, new)
  /\ st2 = st
  /\ log = <<TaskEvent("TASK_RETRY_READY")>> \/ log = <<TaskEvent("TASK_RUNNABLE")>>

\* What both kinds of claim write to the row.
Claims(row, new) ==
  /\ ~row.cancel_requested /\ InTime(row)
  /\ new.status = "RUNNING" /\ new.worker_id # NULL
  /\ new.lease_version = row.lease_version + 1
  /\ new.lease_expires_at = now + LeaseDuration
  /\ new.deadline_at = IF row.deadline_at = NULL THEN now + row.task_timeout_seconds
                                                 ELSE row.deadline_at
  /\ KeepsOrder(row, new) /\ KeepsCursor(row, new) /\ KeepsCancel(row, new)

ClaimEvent(new) == LeaseEvent("TASK_CLAIMED", new.worker_id, new.lease_version)

ClaimEffect(row, st, new, st2, log) ==
  /\ row.status = "RUNNABLE" /\ row.run_at <= now
  /\ Claims(row, new)
  /\ st2 = st
  /\ log = <<ClaimEvent(new)>>

\* The step that a lost owner leaves: failed with worker_lost if it was running.
LosesOwner(row, st, st2) ==
  LET old == st[row.current_step]
      s == st2[row.current_step]
  IN  /\ WritesCurrent(row, st, st2)
      /\ KeepsFacts(old, s)
      /\ s.status = IF old.status = "RUNNING" THEN "FAILED" ELSE old.status
      /\ s.error = IF old.status = "RUNNING" THEN "worker_lost" ELSE old.error

ExpiredEvent(row) == LeaseEvent("LEASE_EXPIRED", row.worker_id, row.lease_version)

RecoverEffect(row, st, new, st2, log) ==
  LET old == st[row.current_step]
      recovered == LeaseEvent("TASK_RECOVERED", new.worker_id, new.lease_version)
  IN  /\ row.status = "RUNNING" /\ row.lease_expires_at <= now
      /\ Claims(row, new)
      /\ LosesOwner(row, st, st2)
      /\ \/ /\ old.status # "RUNNING"
            /\ log = <<ExpiredEvent(row), recovered, ClaimEvent(new)>>
         \/ /\ old.status = "RUNNING"
            /\ log = <<ExpiredEvent(row), OwnerEvent("STEP_FAILED", row, old.attempt),
                       recovered, ClaimEvent(new)>>

\* The row has ended or waits; the deadline and a cancellation stay on it.
Leaves(row, new) ==
  /\ KeepsOrder(row, new) /\ KeepsClaim(row, new) /\ KeepsCancel(row, new)
  /\ new.worker_id = NULL /\ new.lease_expires_at = NULL

ConvergeEffect(row, st, new, st2, log) ==
  LET old == st[row.current_step]
  IN  /\ row.status = "RUNNING" /\ row.lease_expires_at <= now
      /\ ~row.cancel_requested /\ InTime(row)
      /\ new.status = "FAILED"
      /\ Leaves(row, new) /\ KeepsCursor(row, new)
      /\ old.status = "RUNNING" /\ LosesOwner(row, st, st2)
      /\ log = <<ExpiredEvent(row), OwnerEvent("STEP_FAILED", row, old.attempt),
                 OwnerEvent("TASK_FAILED", row, old.attempt)>>

StartEffect(row, st, new, st2, log) ==
  LET old == st[row.current_step]
      s == st2[row.current_step]
  IN  /\ Active(row)
      /\ new = row
      /\ WritesCurrent(row, st, st2)
      /\ old.type # "approval"
      /\ old.status \in {"PENDING", "FAILED"} /\ old.attempt < old.max_attempts
      /\ s.status = "RUNNING" /\ s.attempt = old.attempt + 1
      /\ s.approval_decision = old.approval_decision
      /\ Resolves(row, st, old, s)
      /\ log = <<OwnerEvent("STEP_STARTED", row, old.attempt + 1)>>

WaitEffect(row, st, new, st2, log) ==
  LET old == st[row.current_step]
      s == st2[row.current_step]
  IN  /\ Active(row)
      /\ new.status = "WAITING_APPROVAL"
      /\ Leaves(row, new) /\ KeepsCursor(row, new)
      /\ WritesCurrent(row, st, st2)
      /\ old.type = "approval" /\ old.status = "PENDING"
      /\ s.status = "WAITING_APPROVAL" /\ s.attempt = old.attempt
      /\ s.approval_decision = old.approval_decision
      /\ Resolves(row, st, old, s)
      /\ log = <<StepEvent("TASK_WAITING_APPROVAL", row.current_step, NULL)>>

\* FinishStep with an error: the attempt that runs has failed.
FailEffect(row, st, new, st2, log) ==
  LET old == st[row.current_step]
      s == st2[row.current_step]
      failed == OwnerEvent("STEP_FAILED", row, old.attempt)
  IN  /\ Active(row)
      /\ Leaves(row, new) /\ KeepsCursor(row, new)
      /\ WritesCurrent(row, st, st2)
      /\ old.status = "RUNNING" /\ s.status = "FAILED" /\ KeepsFacts(old, s)
      /\ \/ /\ new.status = "RETRY_WAIT" /\ new.retry_at = now + Backoff(old.attempt)
            /\ log = <<failed, StepEvent("TASK_RETRY_WAIT", row.current_step, old.attempt)>>
         \/ /\ new.status = "FAILED"
            /\ log = <<failed, OwnerEvent("TASK_FAILED", row, old.attempt)>>

SucceedEffect(row, st, new, st2, log) ==
  LET old == st[row.current_step]
      s == st2[row.current_step]
      succeeded == OwnerEvent("STEP_SUCCEEDED", row, old.attempt)
  IN  /\ Active(row)
      /\ KeepsOrder(row, new) /\ KeepsClaim(row, new) /\ KeepsCancel(row, new)
      /\ new.current_step = row.current_step + 1
      /\ WritesCurrent(row, st, st2)
      /\ old.status = "RUNNING" /\ s.status = "SUCCEEDED" /\ KeepsFacts(old, s)
      /\ \/ /\ row.current_step # Len(st)
            /\ new.status = "RUNNING" /\ new.worker_id = row.worker_id
            /\ new.lease_expires_at = row.lease_expires_at
            /\ log = <<succeeded>>
         \/ /\ row.current_step = Len(st)
            /\ new.status = "SUCCEEDED"
            /\ log = <<succeeded, OwnerEvent("TASK_SUCCEEDED", row, old.attempt)>>

\* finishControlledTask.
ControlEffect(row, st, new, st2, log) ==
  LET old == st[row.current_step]
      s == st2[row.current_step]
      failed == StepEvent("STEP_FAILED", row.current_step, old.attempt)
  IN  /\ row.status \in LiveStatus
      /\ Leaves(row, new) /\ KeepsCursor(row, new)
      /\ WritesCurrent(row, st, st2)
      /\ s.status = "FAILED" /\ KeepsFacts(old, s)
      /\ \/ /\ new.status = "CANCELLED"
            /\ row.status = "RUNNING" => row.cancel_requested
            /\ log = <<failed, StepEvent("TASK_CANCELLED", row.current_step, NULL)>>
         \/ /\ new.status = "TIMED_OUT"
            /\ ~row.cancel_requested /\ ~InTime(row)
            /\ log = <<failed, StepEvent("TASK_TIMED_OUT", row.current_step, NULL)>>

\* The approval step waits for a decision, in time.
Waiting(row, old) ==
  /\ row.status = "WAITING_APPROVAL" /\ ~row.cancel_requested /\ InTime(row)
  /\ old.type = "approval" /\ old.status = "WAITING_APPROVAL" /\ old.approval_decision = NULL

ApproveEffect(row, st, new, st2, log) ==
  LET old == st[row.current_step]
      s == st2[row.current_step]
      approved == StepEvent("TASK_APPROVED", row.current_step, NULL)
  IN  /\ Waiting(row, old)
      /\ Leaves(row, new)
      /\ new.current_step = row.current_step + 1 /\ new.checkpoint = row.checkpoint
      /\ WritesCurrent(row, st, st2)
      /\ s.status = "SUCCEEDED" /\ s.approval_decision = "approved"
      /\ s.attempt = old.attempt /\ s.resolved_input = old.resolved_input
      /\ \/ /\ row.current_step # Len(st)
            /\ new.status = "RUNNABLE"
            /\ log = <<approved>>
         \/ /\ row.current_step = Len(st)
            /\ new.status = "SUCCEEDED"
            /\ log = <<approved, StepEvent("TASK_SUCCEEDED", row.current_step, NULL)>>

RejectEffect(row, st, new, st2, log) ==
  LET old == st[row.current_step]
      s == st2[row.current_step]
  IN  /\ Waiting(row, old)
      /\ new.status = "FAILED"
      /\ Leaves(row, new) /\ KeepsCursor(row, new)
      /\ WritesCurrent(row, st, st2)
      /\ s.status = "FAILED" /\ s.approval_decision = "rejected"
      /\ s.attempt = old.attempt /\ s.resolved_input = old.resolved_input
      /\ log = <<StepEvent("TASK_REJECTED", row.current_step, NULL),
                 StepEvent("TASK_FAILED", row.current_step, NULL)>>

Effect(row, st, new, st2, log) ==
  \/ CreateEffect(row, st, new, st2, log)
  \/ MarkEffect(row, st, new, st2, log)
  \/ WakeEffect(row, st, new, st2, log)
  \/ ClaimEffect(row, st, new, st2, log)
  \/ RecoverEffect(row, st, new, st2, log)
  \/ ConvergeEffect(row, st, new, st2, log)
  \/ StartEffect(row, st, new, st2, log)
  \/ WaitEffect(row, st, new, st2, log)
  \/ FailEffect(row, st, new, st2, log)
  \/ SucceedEffect(row, st, new, st2, log)
  \/ ControlEffect(row, st, new, st2, log)
  \/ ApproveEffect(row, st, new, st2, log)
  \/ RejectEffect(row, st, new, st2, log)

\* Only task t is written.
OnlyTask(t) ==
  /\ now' = now
  /\ \A u \in Tasks \ {t} : tasks'[u] = tasks[u] /\ steps'[u] = steps[u] /\ events'[u] = events[u]

\* A transaction on t has one of the effects.
Transacts(t) ==
  /\ OnlyTask(t)
  /\ \E log \in Seq(EventRow) :
       /\ events'[t] = events[t] \o log
       /\ Effect(tasks[t], steps[t], tasks'[t], steps'[t], log)

-----------------------------------------------------------------------------

\* Where a transaction's writes go.
LEMMA CommitFrame ==
  ASSUME IInv, NEW t \in Tasks, NEW row, NEW st, NEW log, Commit(t, row, st, log)
  PROVE  /\ tasks'[t] = row /\ steps'[t] = st /\ events'[t] = events[t] \o log
         /\ OnlyTask(t)
BY DEF IInv, TypeOK, Commit, OnlyTask

\* A transaction with an effect.
LEMMA CommitEffect ==
  ASSUME IInv, NEW t \in Tasks, NEW row, NEW st, NEW log \in Seq(EventRow),
         Commit(t, row, st, log), Effect(tasks[t], steps[t], row, st, log)
  PROVE  Transacts(t)
<1>1. /\ tasks'[t] = row /\ steps'[t] = st /\ events'[t] = events[t] \o log
      /\ OnlyTask(t)
  BY CommitFrame
<1>. QED  BY <1>1 DEF Transacts

\* A deadline that has not passed.
LEMMA InTimeRow ==
  ASSUME IInv, NEW t \in Tasks
  PROVE  DeadlinePassed(t) <=> ~InTime(tasks[t])
<1>1. tasks[t].deadline_at \in Time /\ now \in Nat
  BY TaskFacts, RowFields
<1>. QED  BY <1>1, NullAssumption DEF DeadlinePassed, InTime, Time

\* A call that validateOwnership admits comes from an active owner.
LEMMA OwnerActive ==
  ASSUME IInv, NEW lease, lease.task \in Tasks, validateOwnership(lease) = "nil"
  PROVE  /\ Active(tasks[lease.task])
         /\ lease.worker = tasks[lease.task].worker_id
         /\ lease.version = tasks[lease.task].lease_version
<1>1. /\ ownsActiveLease(lease) /\ ~tasks[lease.task].cancel_requested
      /\ ~DeadlinePassed(lease.task)
  BY DEF validateOwnership
<1>. QED  BY <1>1, InTimeRow DEF ownsActiveLease, Active

\* A short sequence is the tuple of its elements.
LEMMA ShortSequences ==
  ASSUME NEW q \in Seq(EventRow)
  PROVE  /\ Len(q) = 2 => q = <<q[1], q[2]>>
         /\ Len(q) = 3 => q = <<q[1], q[2], q[3]>>
         /\ Len(q) = 4 => q = <<q[1], q[2], q[3], q[4]>>
OBVIOUS

\* The logs that transactions put together from parts.
LEMMA JoinedLogs ==
  ASSUME NEW a \in EventRow, NEW b \in EventRow, NEW c \in EventRow
  PROVE  /\ <<a>> \o <<>> = <<a>> /\ <<>> \o <<a>> = <<a>>
         /\ <<a>> \o <<b>> = <<a, b>>
         /\ <<a>> \o <<b, c>> = <<a, b, c>>
         /\ <<a, b>> \o <<c>> = <<a, b, c>>
         /\ <<a, b, c>> \in Seq(EventRow)
<1>1. <<a>> \in Seq(EventRow) /\ <<>> \in Seq(EventRow)
  OBVIOUS
<1>2. <<a>> \o <<>> = <<a>> /\ <<>> \o <<a>> = <<a>>
  BY <1>1, ConcatEmptySeq
<1>3. <<a>> \o <<b>> = <<a, b>>
  <2> DEFINE q == <<a>> \o <<b>>
  <2>1. q \in Seq(EventRow) /\ Len(q) = 2 /\ q[1] = a /\ q[2] = b
    OBVIOUS
  <2> HIDE DEF q
  <2>. QED  BY <2>1, ShortSequences DEF q
<1>4. <<a>> \o <<b, c>> = <<a, b, c>>
  <2> DEFINE q == <<a>> \o <<b, c>>
  <2>1. q \in Seq(EventRow) /\ Len(q) = 3 /\ q[1] = a /\ q[2] = b /\ q[3] = c
    OBVIOUS
  <2> HIDE DEF q
  <2>. QED  BY <2>1, ShortSequences DEF q
<1>5. <<a, b>> \o <<c>> = <<a, b, c>>
  <2> DEFINE q == <<a, b>> \o <<c>>
  <2>1. q \in Seq(EventRow) /\ Len(q) = 3 /\ q[1] = a /\ q[2] = b /\ q[3] = c
    OBVIOUS
  <2> HIDE DEF q
  <2>. QED  BY <2>1, ShortSequences DEF q
<1>6. <<a, b, c>> \in Seq(EventRow)
  OBVIOUS
<1>. QED  BY <1>2, <1>3, <1>4, <1>5, <1>6

\* The log of a takeover that finds an attempt running.
LEMMA JoinedPairs ==
  ASSUME NEW a \in EventRow, NEW b \in EventRow, NEW c \in EventRow, NEW d \in EventRow
  PROVE  <<a, b>> \o <<c, d>> = <<a, b, c, d>> /\ <<a, b, c, d>> \in Seq(EventRow)
<1> DEFINE q == <<a, b>> \o <<c, d>>
<1>1. q \in Seq(EventRow) /\ Len(q) = 4 /\ q[1] = a /\ q[2] = b /\ q[3] = c /\ q[4] = d
  OBVIOUS
<1> HIDE DEF q
<1>2. q = <<a, b, c, d>>
  BY <1>1, ShortSequences
<1>. QED  BY <1>1, <1>2 DEF q

\* Writing the current step of a live task.
LEMMA CurrentWritten ==
  ASSUME IInv, NEW t \in Tasks, tasks[t].status \in LiveStatus, NEW s \in StepRow,
         s.type = CurrentStep(t).type, s.input = CurrentStep(t).input,
         s.max_attempts = CurrentStep(t).max_attempts
  PROVE  LET st2 == [steps[t] EXCEPT ![tasks[t].current_step] = s]
         IN  WritesCurrent(tasks[t], steps[t], st2) /\ st2[tasks[t].current_step] = s
<1>1. tasks[t].current_step \in DOMAIN steps[t] /\ steps[t] \in Seq(StepRow)
  BY TaskFacts
<1>. QED  BY <1>1, StepUpdate DEF WritesCurrent, CurrentStep

\* Leaving the steps alone is a way of writing the current one.
LEMMA NothingWritten ==
  ASSUME NEW row, NEW st
  PROVE  WritesCurrent(row, st, st)
BY DEF WritesCurrent

-----------------------------------------------------------------------------
(* The effect of each action. *)

\* CreateTask.
LEMMA CreateHasEffect ==
  ASSUME IInv, NEW t \in Tasks, NEW d \in Definitions, CreateTask(t, d)
  PROVE  Transacts(t)
<1> DEFINE scheduled == d.run_at # NULL /\ d.run_at > now
           row == [NoTask EXCEPT !.status = IF scheduled THEN "SCHEDULED" ELSE "RUNNABLE",
                                 !.run_at = IF d.run_at = NULL THEN now ELSE d.run_at,
                                 !.task_timeout_seconds = d.task_timeout_seconds]
           ds == d.steps
           st == [i \in DOMAIN ds |-> NewStep(ds[i])]
           a == TaskEvent("TASK_CREATED")
           b == TaskEvent("TASK_SCHEDULED")
           log == <<a>> \o IF scheduled THEN <<b>> ELSE <<>>
<1>1. Commit(t, row, st, log) /\ tasks[t].status = "NONE"
  BY DEF CreateTask
<1>2. a \in EventRow /\ b \in EventRow
  BY TaskFacts, TaskEventType DEF EventTypes
<1>3. log \in Seq(EventRow) /\ (log = <<a>> \/ log = <<a, b>>)
  BY <1>2, LogType, JoinedLogs
<1>4. /\ row.status \in {"SCHEDULED", "RUNNABLE"} /\ row.lease_version = 0
      /\ row.deadline_at = NULL /\ ~row.cancel_requested /\ row.current_step = 1
      /\ row.task_timeout_seconds = d.task_timeout_seconds
      /\ row.status = "RUNNABLE" => row.run_at <= now
  <2>1. d.run_at \in Nat \cup {NULL} /\ now \in Nat
    BY TaskFacts, DefinitionsAssumption
  <2>. QED  BY <2>1, NullAssumption DEF NoTask
<1>5. /\ d.task_timeout_seconds \in Nat /\ d.task_timeout_seconds > 0
      /\ ds \in Seq(StepDefinition) /\ Len(ds) > 0 /\ Len(ds) <= 100
  BY DefinitionsAssumption DEF CreateTask, validateDefinition
<1> DEFINE posted == \E p \in Definitions :
                       validateDefinition(p) /\ st = [i \in DOMAIN p.steps |-> NewStep(p.steps[i])]
<1>11. posted
  BY DEF CreateTask
<1> HIDE DEF row, log, ds
<1> DEFINE n == Len(ds)
<1>6. n \in Nat /\ n > 0 /\ n <= 100 /\ DOMAIN ds = 1..n
  BY <1>5
<1> HIDE DEF n
<1>7. n \in 1..100
  BY <1>6
<1>8. DOMAIN st = 1..n /\ Len(st) = n
  BY <1>6
<1>9. \A i \in DOMAIN st : Untouched(st[i])
  BY <1>6, <1>8 DEF Untouched, NewStep
<1> HIDE DEF st
<1>10. CreateEffect(tasks[t], steps[t], row, st, log)
  BY <1>1, <1>3, <1>4, <1>5, <1>7, <1>8, <1>9, <1>11 DEF CreateEffect
<1>. QED  BY <1>1, <1>3, <1>10, CommitEffect DEF Effect

\* RenewLease.
LEMMA RenewHasEffect ==
  ASSUME IInv, NEW lease, lease.task \in Tasks, RenewLease(lease)
  PROVE  Transacts(lease.task)
<1> DEFINE t == lease.task
           row == [tasks[t] EXCEPT !.lease_expires_at = now + LeaseDuration]
<1>1. Active(tasks[t]) /\ Commit(t, row, steps[t], <<>>)
  BY OwnerActive DEF RenewLease
<1>2. tasks[t] \in TaskRow
  BY TaskFacts
<1>3. /\ row.status = tasks[t].status /\ row.worker_id = tasks[t].worker_id
      /\ KeepsOrder(tasks[t], row) /\ KeepsClaim(tasks[t], row) /\ KeepsCursor(tasks[t], row)
      /\ KeepsCancel(tasks[t], row) /\ row.lease_expires_at = now + LeaseDuration
  BY <1>2 DEF TaskRow, KeepsOrder, KeepsClaim, KeepsCursor, KeepsCancel
<1>4. <<>> \in Seq(EventRow)
  OBVIOUS
<1> HIDE DEF row
<1>5. MarkEffect(tasks[t], steps[t], row, steps[t], <<>>)
  BY <1>1, <1>3 DEF MarkEffect, Active
<1>. QED  BY <1>1, <1>4, <1>5, CommitEffect DEF Effect

\* CancelTask on a RUNNING task.
LEMMA RequestHasEffect ==
  ASSUME IInv, NEW t \in Tasks, RequestCancel(t)
  PROVE  Transacts(t)
<1> DEFINE row == [tasks[t] EXCEPT !.cancel_requested = TRUE]
<1>1. tasks[t].status = "RUNNING" /\ Commit(t, row, steps[t], <<>>)
  BY DEF RequestCancel
<1>2. tasks[t] \in TaskRow
  BY TaskFacts
<1>3. /\ row.status = tasks[t].status /\ row.worker_id = tasks[t].worker_id
      /\ row.cancel_requested /\ row.lease_expires_at = tasks[t].lease_expires_at
      /\ KeepsOrder(tasks[t], row) /\ KeepsClaim(tasks[t], row) /\ KeepsCursor(tasks[t], row)
  BY <1>2 DEF TaskRow, KeepsOrder, KeepsClaim, KeepsCursor
<1>4. <<>> \in Seq(EventRow)
  OBVIOUS
<1> HIDE DEF row
<1>5. MarkEffect(tasks[t], steps[t], row, steps[t], <<>>)
  BY <1>1, <1>3 DEF MarkEffect
<1>. QED  BY <1>1, <1>4, <1>5, CommitEffect DEF Effect

\* wakeRetryTask and wakeScheduledTask, from either caller.
LEMMA WakeHasEffect ==
  ASSUME IInv, NEW t \in Tasks, ~DeadlinePassed(t),
         \/ RetryDue(t) /\ wakeRetryTask(t)
         \/ ScheduleDue(t) /\ wakeScheduledTask(t)
  PROVE  Transacts(t)
<1>1. tasks[t] \in TaskRow /\ InTime(tasks[t])
  BY TaskFacts, InTimeRow
<1>2. ASSUME NEW row, row.status = "RUNNABLE", NEW e \in EventRow,
             e \in {TaskEvent("TASK_RETRY_READY"), TaskEvent("TASK_RUNNABLE")},
             KeepsOrder(tasks[t], row), KeepsClaim(tasks[t], row), KeepsCursor(tasks[t], row),
             KeepsCancel(tasks[t], row), RetryDue(t) \/ ScheduleDue(t),
             Commit(t, row, steps[t], <<e>>)
      PROVE  Transacts(t)
  <2>1. <<e>> \in Seq(EventRow)
    OBVIOUS
  <2>2. WakeEffect(tasks[t], steps[t], row, steps[t], <<e>>)
    BY <1>1, <1>2 DEF WakeEffect, RetryDue, ScheduleDue
  <2>. QED  BY <1>2, <2>1, <2>2, CommitEffect DEF Effect
<1>3. TaskEvent("TASK_RETRY_READY") \in EventRow /\ TaskEvent("TASK_RUNNABLE") \in EventRow
  BY TaskFacts, TaskEventType DEF EventTypes
<1>4. CASE RetryDue(t) /\ wakeRetryTask(t)
  <2> DEFINE row == [tasks[t] EXCEPT !.status = "RUNNABLE", !.retry_at = NULL]
  <2>1. /\ row.status = "RUNNABLE"
        /\ KeepsOrder(tasks[t], row) /\ KeepsClaim(tasks[t], row) /\ KeepsCursor(tasks[t], row)
        /\ KeepsCancel(tasks[t], row)
    BY <1>1 DEF TaskRow, KeepsOrder, KeepsClaim, KeepsCursor, KeepsCancel
  <2>2. Commit(t, row, steps[t], <<TaskEvent("TASK_RETRY_READY")>>)
    BY <1>4 DEF wakeRetryTask
  <2> HIDE DEF row
  <2>. QED  BY <1>2, <1>3, <1>4, <2>1, <2>2
<1>5. CASE ScheduleDue(t) /\ wakeScheduledTask(t)
  <2> DEFINE row == [tasks[t] EXCEPT !.status = "RUNNABLE"]
  <2>1. /\ row.status = "RUNNABLE"
        /\ KeepsOrder(tasks[t], row) /\ KeepsClaim(tasks[t], row) /\ KeepsCursor(tasks[t], row)
        /\ KeepsCancel(tasks[t], row)
    BY <1>1 DEF TaskRow, KeepsOrder, KeepsClaim, KeepsCursor, KeepsCancel
  <2>2. Commit(t, row, steps[t], <<TaskEvent("TASK_RUNNABLE")>>)
    BY <1>5 DEF wakeScheduledTask
  <2> HIDE DEF row
  <2>. QED  BY <1>2, <1>3, <1>5, <2>1, <2>2
<1>. QED  BY <1>4, <1>5

\* What a claim writes to the row.
LEMMA ClaimWrites ==
  ASSUME IInv, NEW t \in Tasks, NEW w \in Workers, Claimable(t)
  PROVE  /\ Claims(tasks[t], Leased(tasks[t], w))
         /\ Leased(tasks[t], w).worker_id = w
         /\ Leased(tasks[t], w).lease_version = tasks[t].lease_version + 1
         /\ LeaseEvent("TASK_CLAIMED", w, tasks[t].lease_version + 1) \in EventRow
         /\ LeaseEvent("TASK_RECOVERED", w, tasks[t].lease_version + 1) \in EventRow
<1> DEFINE row == tasks[t]
           v == row.lease_version + 1
           expiry == now + LeaseDuration
           deadline == IF row.deadline_at = NULL THEN now + row.task_timeout_seconds
                                                 ELSE row.deadline_at
           new == [row EXCEPT !.status = "RUNNING", !.worker_id = w, !.lease_version = v,
                              !.lease_expires_at = expiry, !.deadline_at = deadline]
<1>1. /\ row \in TaskRow /\ row.lease_version \in Nat /\ now \in Nat
      /\ ~row.cancel_requested /\ InTime(row) /\ w # NULL
  BY TaskFacts, RowFields, InTimeRow, NullAssumption DEF Claimable
<1>2. Leased(row, w) = new /\ v \in Nat
  BY <1>1 DEF Leased
<1> HIDE DEF v, expiry, deadline
<1>3. /\ new.status = "RUNNING" /\ new.worker_id = w /\ new.lease_version = v
      /\ new.deadline_at = deadline /\ new.lease_expires_at = expiry
      /\ KeepsOrder(row, new) /\ KeepsCursor(row, new) /\ KeepsCancel(row, new)
  BY <1>1 DEF TaskRow, KeepsOrder, KeepsCursor, KeepsCancel
<1>4. LeaseEvent("TASK_CLAIMED", w, v) \in EventRow /\ LeaseEvent("TASK_RECOVERED", w, v) \in EventRow
  BY <1>1, <1>2, LeaseEventType DEF EventTypes
<1> HIDE DEF new
<1>. QED  BY <1>1, <1>2, <1>3, <1>4 DEF Claims, v, deadline, expiry

\* ClaimTask on a RUNNABLE row.
LEMMA ClaimRunnableHasEffect ==
  ASSUME IInv, NEW t \in Tasks, NEW w \in Workers, ClaimRunnable(w, t)
  PROVE  Transacts(t)
<1> DEFINE row == Leased(tasks[t], w)
           e == LeaseEvent("TASK_CLAIMED", w, tasks[t].lease_version + 1)
<1>1. /\ Claimable(t) /\ tasks[t].status = "RUNNABLE" /\ tasks[t].run_at <= now
      /\ Commit(t, row, steps[t], <<e>>)
  BY DEF ClaimRunnable, Claimable
<1>2. Claims(tasks[t], row) /\ e = ClaimEvent(row) /\ e \in EventRow
  BY <1>1, ClaimWrites DEF ClaimEvent
<1>3. <<e>> \in Seq(EventRow)
  BY <1>2
<1> HIDE DEF row, e
<1>4. ClaimEffect(tasks[t], steps[t], row, steps[t], <<e>>)
  BY <1>1, <1>2 DEF ClaimEffect
<1>. QED  BY <1>1, <1>3, <1>4, CommitEffect DEF Effect

\* What recoverExpiredTask does to the step and to the log.
LEMMA RecoveryWrites ==
  ASSUME IInv, NEW t \in Tasks, tasks[t].status = "RUNNING"
  PROVE  LET failed == OwnerEvent("STEP_FAILED", tasks[t], CurrentStep(t).attempt)
             verdict == OwnerEvent("TASK_FAILED", tasks[t], CurrentStep(t).attempt)
         IN  /\ LosesOwner(tasks[t], steps[t], AbandonedSteps(t))
             /\ ExpiredEvent(tasks[t]) \in EventRow /\ failed \in EventRow /\ verdict \in EventRow
             /\ ~Abandoned(t) => RecoveryEvents(t) = <<ExpiredEvent(tasks[t])>>
             /\ Abandoned(t) => RecoveryEvents(t) = <<ExpiredEvent(tasks[t]), failed>>
             /\ Abandoned(t) <=> CurrentStep(t).status = "RUNNING"
<1> DEFINE c == tasks[t].current_step
           failed == OwnerEvent("STEP_FAILED", tasks[t], CurrentStep(t).attempt)
           verdict == OwnerEvent("TASK_FAILED", tasks[t], CurrentStep(t).attempt)
<1>1. /\ tasks[t] \in TaskRow /\ CurrentStep(t) \in StepRow /\ now \in Nat
      /\ c \in DOMAIN steps[t] /\ HasCurrentStep(t)
  BY TaskFacts DEF LiveStatus, HasCurrentStep
<1>2. Abandoned(t) <=> CurrentStep(t).status = "RUNNING"
  BY <1>1 DEF Abandoned
<1>3. /\ tasks[t].worker_id \in Workers \cup {NULL} /\ tasks[t].lease_version \in Nat
      /\ c \in Nat /\ CurrentStep(t).attempt \in Nat
  BY <1>1, RowFields, StepFields
<1>4. ExpiredEvent(tasks[t]) \in EventRow /\ failed \in EventRow /\ verdict \in EventRow
  BY <1>1, <1>3, EventType, LeaseEventType DEF EventTypes, ExpiredEvent, OwnerEvent
<1>5. LosesOwner(tasks[t], steps[t], AbandonedSteps(t))
  <2>1. CASE Abandoned(t)
    <3> DEFINE s == [CurrentStep(t) EXCEPT !.status = "FAILED", !.error = "worker_lost"]
    <3>1. s \in StepRow /\ AbandonedSteps(t) = [steps[t] EXCEPT ![c] = s]
      BY <2>1, AbandonedStep
    <3>2. /\ s.status = "FAILED" /\ s.error = "worker_lost" /\ KeepsFacts(CurrentStep(t), s)
          /\ s.type = CurrentStep(t).type /\ s.input = CurrentStep(t).input
          /\ s.max_attempts = CurrentStep(t).max_attempts
      BY <1>1 DEF StepRow, KeepsFacts
    <3> HIDE DEF s
    <3>3. WritesCurrent(tasks[t], steps[t], AbandonedSteps(t)) /\ AbandonedSteps(t)[c] = s
      BY <3>1, <3>2, CurrentWritten DEF LiveStatus
    <3>. QED  BY <1>2, <2>1, <3>2, <3>3 DEF LosesOwner, CurrentStep
  <2>2. CASE ~Abandoned(t)
    BY <1>2, <2>2, NothingWritten DEF AbandonedSteps, LosesOwner, KeepsFacts, CurrentStep
  <2>. QED  BY <2>1, <2>2
<1>6. CASE Abandoned(t)
  <2>1. RecoveryEvents(t) = <<ExpiredEvent(tasks[t])>> \o <<failed>>
    BY <1>6 DEF RecoveryEvents, ExpiredEvent, OwnerEvent
  <2>. QED  BY <1>2, <1>4, <1>5, <1>6, <2>1, JoinedLogs
<1>7. CASE ~Abandoned(t)
  <2>1. RecoveryEvents(t) = <<ExpiredEvent(tasks[t])>> \o <<>>
    BY <1>7 DEF RecoveryEvents, ExpiredEvent
  <2>. QED  BY <1>2, <1>4, <1>5, <1>7, <2>1, JoinedLogs
<1>. QED  BY <1>6, <1>7

\* ClaimTask on a row whose lease has expired.
LEMMA ClaimExpiredHasEffect ==
  ASSUME IInv, NEW t \in Tasks, NEW w \in Workers, ClaimExpired(w, t)
  PROVE  Transacts(t)
<1> DEFINE row == Leased(tasks[t], w)
           v == tasks[t].lease_version + 1
           a == ExpiredEvent(tasks[t])
           b == OwnerEvent("STEP_FAILED", tasks[t], CurrentStep(t).attempt)
           c == LeaseEvent("TASK_RECOVERED", w, v)
           d == LeaseEvent("TASK_CLAIMED", w, v)
           log == RecoveryEvents(t) \o <<c, d>>
<1>1. /\ Claimable(t) /\ tasks[t].status = "RUNNING" /\ tasks[t].lease_expires_at <= now
      /\ Commit(t, row, AbandonedSteps(t), log)
  BY DEF ClaimExpired, Claimable
<1>2. /\ Claims(tasks[t], row) /\ d = ClaimEvent(row)
      /\ c = LeaseEvent("TASK_RECOVERED", row.worker_id, row.lease_version)
      /\ c \in EventRow /\ d \in EventRow
  BY <1>1, ClaimWrites DEF ClaimEvent
<1>3. /\ LosesOwner(tasks[t], steps[t], AbandonedSteps(t)) /\ a \in EventRow /\ b \in EventRow
      /\ ~Abandoned(t) => RecoveryEvents(t) = <<a>>
      /\ Abandoned(t) => RecoveryEvents(t) = <<a, b>>
      /\ Abandoned(t) <=> CurrentStep(t).status = "RUNNING"
  BY <1>1, RecoveryWrites
<1>4. /\ log \in Seq(EventRow)
      /\ \/ CurrentStep(t).status # "RUNNING" /\ log = <<a, c, d>>
         \/ CurrentStep(t).status = "RUNNING" /\ log = <<a, b, c, d>>
  <2> HIDE DEF a, b, c, d
  <2>1. a \in EventRow /\ b \in EventRow /\ c \in EventRow /\ d \in EventRow
    BY <1>2, <1>3
  <2>2. <<a, b>> \o <<c, d>> = <<a, b, c, d>> /\ <<a, b, c, d>> \in Seq(EventRow)
    BY <2>1, JoinedPairs
  <2>3. <<a>> \o <<c, d>> = <<a, c, d>> /\ <<a, c, d>> \in Seq(EventRow)
    BY <2>1, JoinedLogs
  <2>4. CASE Abandoned(t)
    BY <1>3, <2>2, <2>4
  <2>5. CASE ~Abandoned(t)
    BY <1>3, <2>3, <2>5
  <2>. QED  BY <2>4, <2>5
<1> HIDE DEF row, log
<1>5. RecoverEffect(tasks[t], steps[t], row, AbandonedSteps(t), log)
  BY <1>1, <1>2, <1>3, <1>4 DEF RecoverEffect, CurrentStep
<1>. QED  BY <1>1, <1>4, <1>5, CommitEffect DEF Effect

\* ClaimTask on such a row when its budget is spent.
LEMMA ConvergeHasEffect ==
  ASSUME IInv, NEW t \in Tasks, ConvergeExpired(t)
  PROVE  Transacts(t)
<1> DEFINE row == Released(tasks[t], "FAILED")
           a == ExpiredEvent(tasks[t])
           b == OwnerEvent("STEP_FAILED", tasks[t], CurrentStep(t).attempt)
           c == OwnerEvent("TASK_FAILED", tasks[t], CurrentStep(t).attempt)
           log == RecoveryEvents(t) \o <<c>>
<1>1. /\ Claimable(t) /\ tasks[t].status = "RUNNING" /\ tasks[t].lease_expires_at <= now
      /\ ~tasks[t].cancel_requested /\ InTime(tasks[t])
  BY InTimeRow DEF ConvergeExpired, Claimable
<1>2. HasCurrentStep(t) /\ tasks[t] \in TaskRow
  BY <1>1, RecoveryFacts, TaskFacts
<1>3. Abandoned(t) /\ Commit(t, row, AbandonedSteps(t), log)
  BY <1>2 DEF ConvergeExpired, RecoveryExhausted, OwnerEvent
<1>4. /\ row.status = "FAILED" /\ Leaves(tasks[t], row) /\ KeepsCursor(tasks[t], row)
  BY <1>2 DEF TaskRow, Released, Leaves, KeepsOrder, KeepsClaim, KeepsCancel, KeepsCursor
<1>5. /\ LosesOwner(tasks[t], steps[t], AbandonedSteps(t))
      /\ a \in EventRow /\ b \in EventRow /\ c \in EventRow
      /\ RecoveryEvents(t) = <<a, b>> /\ CurrentStep(t).status = "RUNNING"
  BY <1>1, <1>3, RecoveryWrites
<1>6. log \in Seq(EventRow) /\ log = <<a, b, c>>
  <2> HIDE DEF a, b, c
  <2>1. <<a, b>> \o <<c>> = <<a, b, c>> /\ <<a, b, c>> \in Seq(EventRow)
    BY <1>5, JoinedLogs
  <2>. QED  BY <1>5, <2>1
<1> HIDE DEF row, log
<1>7. ConvergeEffect(tasks[t], steps[t], row, AbandonedSteps(t), log)
  BY <1>1, <1>4, <1>5, <1>6 DEF ConvergeEffect, CurrentStep
<1>. QED  BY <1>3, <1>6, <1>7, CommitEffect DEF Effect

\* The input that StartStep and WaitForApproval store.
LEMMA ResolvedInput ==
  ASSUME IInv, NEW t \in Tasks, tasks[t].status \in LiveStatus, NEW s,
         s.resolved_input = ResolveInput(t, tasks[t].current_step),
         ResolveInput(t, tasks[t].current_step) # NULL
  PROVE  Resolves(tasks[t], steps[t], CurrentStep(t), s)
<1> DEFINE c == tasks[t].current_step
<1>1. c \in Nat /\ c # 0
  BY TaskFacts, RowFields
<1>2. ResolveInput(t, c) = IF steps[t][c].resolved_input # NULL THEN steps[t][c].resolved_input
                           ELSE IF steps[t][c].input = "literal" THEN "literal"
                           ELSE IF steps[t][c].input = "checkpoint" THEN tasks[t].checkpoint
                           ELSE IF c > 1 THEN steps[t][c - 1].output ELSE NULL
  BY DEF ResolveInput, resolveValue
<1>. QED  BY <1>1, <1>2 DEF Resolves, CurrentStep

\* StartStep.
LEMMA StartHasEffect ==
  ASSUME IInv, NEW lease, lease.task \in Tasks, NEW i \in DOMAIN steps[lease.task],
         StartStep(lease, i)
  PROVE  Transacts(lease.task)
<1> DEFINE t == lease.task
           input == ResolveInput(t, i)
           old == steps[t][i]
           n == old.attempt + 1
           s == [old EXCEPT !.status = "RUNNING", !.attempt = n, !.resolved_input = input,
                            !.error = NULL]
           e == OwnerEvent("STEP_STARTED", tasks[t], n)
<1>1. /\ Active(tasks[t]) /\ i = tasks[t].current_step
      /\ lease.worker = tasks[t].worker_id /\ lease.version = tasks[t].lease_version
  BY OwnerActive DEF StartStep, StartAllowed
<1>2. /\ old.type # "approval" /\ old.attempt < old.max_attempts
      /\ old.status \in {"PENDING", "FAILED"} /\ input # NULL
      /\ Commit(t, tasks[t], [steps[t] EXCEPT ![i] = s], <<e>>)
  BY <1>1 DEF StartStep, StartAllowed, Started, OwnerEvent
<1>3. /\ tasks[t] \in TaskRow /\ now \in Nat /\ old \in StepRow /\ tasks[t].status \in LiveStatus
  BY <1>1, TaskFacts DEF Active, LiveStatus, CurrentStep
<1>4. n \in Nat /\ input \in Value
  BY <1>1, <1>2, <1>3, StepFields, ResolveType
<1>5. e \in EventRow
  BY <1>3, <1>4, RowFields, EventType DEF OwnerEvent, EventTypes
<1> HIDE DEF n, input
<1>6. s \in StepRow
  BY <1>3, <1>4 DEF StepRow, StepStatus
<1>7. /\ s.status = "RUNNING" /\ s.attempt = n /\ s.resolved_input = input
      /\ s.approval_decision = old.approval_decision
      /\ s.type = old.type /\ s.input = old.input /\ s.max_attempts = old.max_attempts
  BY <1>3 DEF StepRow
<1> HIDE DEF s
<1>8. Resolves(tasks[t], steps[t], old, s)
  BY <1>1, <1>2, <1>3, <1>7, ResolvedInput DEF CurrentStep, input
<1> DEFINE st == [steps[t] EXCEPT ![i] = s]
<1>9. WritesCurrent(tasks[t], steps[t], st) /\ st[i] = s
  BY <1>1, <1>3, <1>6, <1>7, CurrentWritten DEF CurrentStep
<1>10. <<e>> \in Seq(EventRow)
  BY <1>5
<1> HIDE DEF st, e
<1>11. StartEffect(tasks[t], steps[t], tasks[t], st, <<e>>)
  BY <1>1, <1>2, <1>7, <1>8, <1>9 DEF StartEffect, e, n
<1>. QED  BY <1>2, <1>10, <1>11, CommitEffect DEF Effect, st

\* A row that leaves RUNNING, with its retry time.
LEMMA LeavesRetry ==
  ASSUME NEW row \in TaskRow, NEW status, NEW at
  PROVE  LET new == [Released(row, status) EXCEPT !.retry_at = at]
         IN  /\ new.status = status /\ new.retry_at = at
             /\ Leaves(row, new) /\ KeepsCursor(row, new)
BY DEF TaskRow, Released, Leaves, KeepsOrder, KeepsClaim, KeepsCancel, KeepsCursor

\* WaitForApproval.
LEMMA WaitHasEffect ==
  ASSUME IInv, NEW lease, lease.task \in Tasks, NEW i \in DOMAIN steps[lease.task],
         WaitForApproval(lease, i)
  PROVE  Transacts(lease.task)
<1> DEFINE t == lease.task
           input == ResolveInput(t, i)
           old == steps[t][i]
           row == [Released(tasks[t], "WAITING_APPROVAL") EXCEPT !.retry_at = NULL]
           s == [old EXCEPT !.status = "WAITING_APPROVAL", !.resolved_input = input, !.error = NULL]
           e == StepEvent("TASK_WAITING_APPROVAL", tasks[t].current_step, NULL)
<1>1. Active(tasks[t]) /\ i = tasks[t].current_step
  BY OwnerActive DEF WaitForApproval
<1>2. /\ old.type = "approval" /\ old.status = "PENDING" /\ input # NULL
      /\ Commit(t, row, [steps[t] EXCEPT ![i] = s], <<e>>)
  BY <1>1 DEF WaitForApproval
<1>3. /\ tasks[t] \in TaskRow /\ now \in Nat /\ old \in StepRow /\ tasks[t].status \in LiveStatus
  BY <1>1, TaskFacts DEF Active, LiveStatus, CurrentStep
<1>4. input \in Value
  BY <1>1, <1>2, ResolveType
<1>5. e \in EventRow
  BY <1>3, RowFields, StepEventType DEF EventTypes
<1> HIDE DEF input
<1>6. s \in StepRow
  BY <1>3, <1>4 DEF StepRow, StepStatus
<1>7. /\ s.status = "WAITING_APPROVAL" /\ s.attempt = old.attempt /\ s.resolved_input = input
      /\ s.approval_decision = old.approval_decision
      /\ s.type = old.type /\ s.input = old.input /\ s.max_attempts = old.max_attempts
  BY <1>3 DEF StepRow
<1> HIDE DEF s
<1>8. Resolves(tasks[t], steps[t], old, s)
  BY <1>1, <1>2, <1>3, <1>7, ResolvedInput DEF CurrentStep, input
<1> DEFINE st == [steps[t] EXCEPT ![i] = s]
<1>9. WritesCurrent(tasks[t], steps[t], st) /\ st[i] = s
  BY <1>1, <1>3, <1>6, <1>7, CurrentWritten DEF CurrentStep
<1>10. row.status = "WAITING_APPROVAL" /\ Leaves(tasks[t], row) /\ KeepsCursor(tasks[t], row)
  BY <1>3, LeavesRetry
<1>11. <<e>> \in Seq(EventRow)
  BY <1>5
<1> HIDE DEF st, e, row
<1>12. WaitEffect(tasks[t], steps[t], row, st, <<e>>)
  BY <1>1, <1>2, <1>7, <1>8, <1>9, <1>10 DEF WaitEffect, e
<1>. QED  BY <1>2, <1>11, <1>12, CommitEffect DEF Effect, st

\* FinishStep of a failure.
LEMMA FinishFailedHasEffect ==
  ASSUME IInv, NEW lease, lease.task \in Tasks, NEW attempt, NEW outcome \in Outcomes,
         FinishStepFailed(lease, attempt, outcome)
  PROVE  Transacts(lease.task)
<1> DEFINE t == lease.task
           i == attempt.step
           n == attempt.attempt
           old == steps[t][i]
           error == Limited(outcome).error
           retrying == Limited(outcome).failure_class = "temporary" /\ n < old.max_attempts
           status == IF retrying THEN "RETRY_WAIT" ELSE "FAILED"
           at == IF retrying THEN now + Backoff(n) ELSE NULL
           row == [Released(tasks[t], status) EXCEPT !.retry_at = at]
           s == [old EXCEPT !.status = "FAILED", !.output = NULL, !.error = error]
           a == OwnerEvent("STEP_FAILED", tasks[t], n)
           b == StepEvent("TASK_RETRY_WAIT", tasks[t].current_step, n)
           c == OwnerEvent("TASK_FAILED", tasks[t], n)
           log == <<a, IF retrying THEN b ELSE c>>
<1>1. /\ Finishable(lease, attempt) /\ Active(tasks[t])
      /\ lease.worker = tasks[t].worker_id /\ lease.version = tasks[t].lease_version
      /\ i = tasks[t].current_step /\ old.status = "RUNNING" /\ n = old.attempt
  BY OwnerActive DEF FinishStepFailed, Finishable
<1>2. Commit(t, row, [steps[t] EXCEPT ![i] = s], log)
  BY <1>1 DEF FinishStepFailed, OwnerEvent
<1>3. /\ tasks[t] \in TaskRow /\ now \in Nat /\ old \in StepRow /\ tasks[t].status \in LiveStatus
      /\ n \in Nat /\ tasks[t].current_step \in Nat
      /\ tasks[t].worker_id \in Workers \cup {NULL} /\ tasks[t].lease_version \in Nat
  BY <1>1, FinishFacts, RowFields DEF Active, LiveStatus
<1>4. a \in EventRow /\ b \in EventRow /\ c \in EventRow
  BY <1>3, EventType, StepEventType DEF EventTypes, OwnerEvent
<1>5. error \in Errors \cup {NULL}
  BY LimitedType
<1>6. /\ log \in Seq(EventRow)
      /\ \/ status = "RETRY_WAIT" /\ at = now + Backoff(n) /\ log = <<a, b>>
         \/ status = "FAILED" /\ log = <<a, c>>
  <2> HIDE DEF a, b, c
  <2>. QED  BY <1>4, LogType
<1> HIDE DEF error, status, at, log
<1>7. s \in StepRow
  BY <1>3, <1>5 DEF StepRow, StepStatus
<1>8. /\ s.status = "FAILED" /\ KeepsFacts(old, s)
      /\ s.type = old.type /\ s.input = old.input /\ s.max_attempts = old.max_attempts
  BY <1>3 DEF StepRow, KeepsFacts
<1> HIDE DEF s
<1> DEFINE st == [steps[t] EXCEPT ![i] = s]
<1>9. WritesCurrent(tasks[t], steps[t], st) /\ st[i] = s
  BY <1>1, <1>3, <1>7, <1>8, CurrentWritten DEF CurrentStep
<1>10. /\ row.status = status /\ row.retry_at = at
       /\ Leaves(tasks[t], row) /\ KeepsCursor(tasks[t], row)
  BY <1>3, LeavesRetry
<1> HIDE DEF st, row, a, b, c
<1>11. FailEffect(tasks[t], steps[t], row, st, log)
  BY <1>1, <1>6, <1>8, <1>9, <1>10 DEF FailEffect, a, b, c
<1>. QED  BY <1>2, <1>6, <1>11, CommitEffect DEF Effect, st

\* FinishStep of a success.
LEMMA FinishSucceededHasEffect ==
  ASSUME IInv, NEW lease, lease.task \in Tasks, NEW attempt, NEW outcome \in Outcomes,
         FinishStepSucceeded(lease, attempt, outcome)
  PROVE  Transacts(lease.task)
<1> DEFINE t == lease.task
           i == attempt.step
           n == attempt.attempt
           old == steps[t][i]
           checkpoint == IF outcome.checkpoint = NULL THEN tasks[t].checkpoint
                                                      ELSE outcome.checkpoint
           advanced == [tasks[t] EXCEPT !.current_step = i + 1, !.checkpoint = checkpoint]
           row == IF IsLastStep(t, i) THEN Released(advanced, "SUCCEEDED") ELSE advanced
           s == [old EXCEPT !.status = "SUCCEEDED", !.output = outcome.output, !.error = NULL]
           a == OwnerEvent("STEP_SUCCEEDED", tasks[t], n)
           b == OwnerEvent("TASK_SUCCEEDED", tasks[t], n)
           log == <<a>> \o IF IsLastStep(t, i) THEN <<b>> ELSE <<>>
<1>1. /\ Finishable(lease, attempt) /\ Active(tasks[t]) /\ Limited(outcome).error = NULL
      /\ lease.worker = tasks[t].worker_id /\ lease.version = tasks[t].lease_version
      /\ i = tasks[t].current_step /\ old.status = "RUNNING" /\ n = old.attempt
  BY OwnerActive DEF FinishStepSucceeded, Finishable
<1>2. Commit(t, row, [steps[t] EXCEPT ![i] = s], log)
  BY <1>1 DEF FinishStepSucceeded, OwnerEvent
<1>3. /\ tasks[t] \in TaskRow /\ now \in Nat /\ old \in StepRow /\ tasks[t].status \in LiveStatus
      /\ n \in Nat /\ tasks[t].current_step \in Nat
      /\ tasks[t].worker_id \in Workers \cup {NULL} /\ tasks[t].lease_version \in Nat
  BY <1>1, FinishFacts, RowFields DEF Active, LiveStatus
<1>4. a \in EventRow /\ b \in EventRow
  BY <1>3, EventType DEF EventTypes, OwnerEvent
<1>5. outcome.output \in Outputs
  BY <1>1, LimitedType
<1>6. /\ log \in Seq(EventRow)
      /\ log = IF IsLastStep(t, i) THEN <<a, b>> ELSE <<a>>
  <2> HIDE DEF a, b
  <2>. QED  BY <1>4, LogType, JoinedLogs
<1> HIDE DEF log, checkpoint, a, b
<1>7. s \in StepRow
  BY <1>3, <1>5 DEF StepRow, StepStatus
<1>8. /\ s.status = "SUCCEEDED" /\ KeepsFacts(old, s)
      /\ s.type = old.type /\ s.input = old.input /\ s.max_attempts = old.max_attempts
  BY <1>3 DEF StepRow, KeepsFacts
<1> HIDE DEF s
<1> DEFINE st == [steps[t] EXCEPT ![i] = s]
<1>9. WritesCurrent(tasks[t], steps[t], st) /\ st[i] = s
  BY <1>1, <1>3, <1>7, <1>8, CurrentWritten DEF CurrentStep
<1>10. /\ row.status = IF IsLastStep(t, i) THEN "SUCCEEDED" ELSE "RUNNING"
       /\ ~IsLastStep(t, i) => /\ row.worker_id = tasks[t].worker_id
                               /\ row.lease_expires_at = tasks[t].lease_expires_at
       /\ row.current_step = i + 1
       /\ KeepsOrder(tasks[t], row) /\ KeepsClaim(tasks[t], row) /\ KeepsCancel(tasks[t], row)
  BY <1>1, <1>3 DEF TaskRow, Released, Active, KeepsOrder, KeepsClaim, KeepsCancel
<1> HIDE DEF st, row
<1>11. SucceedEffect(tasks[t], steps[t], row, st, log)
  BY <1>1, <1>6, <1>8, <1>9, <1>10 DEF SucceedEffect, IsLastStep, a, b
<1>. QED  BY <1>2, <1>6, <1>11, CommitEffect DEF Effect, st

\* finishControlledTask, by the owner, the scheduler or a client.
LEMMA ControlHasEffect ==
  ASSUME IInv, NEW t \in Tasks, tasks[t].status \in LiveStatus,
         NEW outcome \in {cancelledOutcome, timedOutOutcome},
         outcome = cancelledOutcome => (tasks[t].status = "RUNNING" => tasks[t].cancel_requested),
         outcome = timedOutOutcome => ~tasks[t].cancel_requested /\ DeadlinePassed(t),
         finishControlledTask(t, outcome)
  PROVE  Transacts(t)
<1> DEFINE i == tasks[t].current_step
           old == steps[t][i]
           row == [Released(tasks[t], outcome.status) EXCEPT !.retry_at = NULL]
           s == [old EXCEPT !.status = "FAILED", !.output = NULL, !.error = outcome.reason]
           a == StepEvent("STEP_FAILED", i, old.attempt)
           b == StepEvent(outcome.eventType, i, NULL)
<1>1. /\ tasks[t] \in TaskRow /\ now \in Nat /\ i \in DOMAIN steps[t] /\ old \in StepRow
      /\ CurrentStep(t) = old /\ Fits(old, tasks[t].status)
  BY TaskFacts DEF CurrentStep
<1>2. HasCurrentStep(t) /\ CurrentStep(t).status # "SUCCEEDED"
  BY <1>1 DEF HasCurrentStep, Fits, Startable, InFlight, LiveStatus
<1>3. Commit(t, row, [steps[t] EXCEPT ![i] = s], <<a>> \o <<b>>)
  BY <1>1, <1>2 DEF finishControlledTask
<1>4. \/ /\ outcome.status = "CANCELLED" /\ outcome.eventType = "TASK_CANCELLED"
         /\ outcome.reason = "user_cancelled"
         /\ tasks[t].status = "RUNNING" => tasks[t].cancel_requested
      \/ /\ outcome.status = "TIMED_OUT" /\ outcome.eventType = "TASK_TIMED_OUT"
         /\ outcome.reason = "task_timeout"
         /\ ~tasks[t].cancel_requested /\ ~InTime(tasks[t])
  BY InTimeRow DEF cancelledOutcome, timedOutOutcome
<1>5. a \in EventRow /\ b \in EventRow
  <2>1. outcome.eventType \in EventTypes
    BY <1>4 DEF EventTypes
  <2>. QED  BY <1>1, <2>1, RowFields, StepFields, StepEventType DEF EventTypes
<1>6. <<a>> \o <<b>> = <<a, b>> /\ <<a, b>> \in Seq(EventRow)
  <2> HIDE DEF a, b
  <2>. QED  BY <1>5, JoinedLogs, LogType
<1>7. s \in StepRow
  BY <1>1, <1>4 DEF StepRow, StepStatus, Errors
<1>8. /\ s.status = "FAILED" /\ KeepsFacts(old, s)
      /\ s.type = old.type /\ s.input = old.input /\ s.max_attempts = old.max_attempts
  BY <1>1 DEF StepRow, KeepsFacts
<1> HIDE DEF s
<1> DEFINE st == [steps[t] EXCEPT ![i] = s]
<1>9. WritesCurrent(tasks[t], steps[t], st) /\ st[i] = s
  BY <1>1, <1>7, <1>8, CurrentWritten
<1>10. row.status = outcome.status /\ Leaves(tasks[t], row) /\ KeepsCursor(tasks[t], row)
  <2>1. outcome.status \in LiveStatus \cup TerminalStatus /\ NULL \in Time
    BY <1>4 DEF TerminalStatus, Time
  <2>. QED  BY <1>1, <2>1, LeavesRetry
<1> HIDE DEF st, row
<1>11. ControlEffect(tasks[t], steps[t], row, st, <<a, b>>)
  BY <1>4, <1>8, <1>9, <1>10 DEF ControlEffect
<1>. QED  BY <1>3, <1>6, <1>11, CommitEffect DEF Effect, st

\* DecideApproval.
LEMMA DecideHasEffect ==
  ASSUME IInv, NEW t \in Tasks, NEW i \in DOMAIN steps[t], Approve(t, i) \/ Reject(t, i)
  PROVE  Transacts(t)
<1> DEFINE old == steps[t][i]
<1>1. i = tasks[t].current_step /\ Waiting(tasks[t], old)
  BY InTimeRow DEF Approve, Reject, Decidable, Waiting
<1>2. /\ tasks[t] \in TaskRow /\ now \in Nat /\ old \in StepRow /\ i \in Nat
      /\ tasks[t].status \in LiveStatus
  BY <1>1, TaskFacts, RowFields DEF LiveStatus, CurrentStep, Waiting
<1>3. CASE Approve(t, i)
  <2> DEFINE status == IF IsLastStep(t, i) THEN "SUCCEEDED" ELSE "RUNNABLE"
             row == [Released(tasks[t], status) EXCEPT !.current_step = i + 1, !.retry_at = NULL]
             s == [old EXCEPT !.approval_decision = "approved", !.status = "SUCCEEDED",
                              !.error = NULL]
             a == StepEvent("TASK_APPROVED", i, NULL)
             b == StepEvent("TASK_SUCCEEDED", i, NULL)
             log == <<a>> \o IF IsLastStep(t, i) THEN <<b>> ELSE <<>>
  <2>1. Commit(t, row, [steps[t] EXCEPT ![i] = s], log)
    BY <1>3 DEF Approve
  <2>2. a \in EventRow /\ b \in EventRow
    BY <1>2, StepEventType DEF EventTypes
  <2>3. log \in Seq(EventRow) /\ log = IF IsLastStep(t, i) THEN <<a, b>> ELSE <<a>>
    <3> HIDE DEF a, b
    <3>. QED  BY <2>2, LogType, JoinedLogs
  <2> HIDE DEF log, a, b
  <2>4. s \in StepRow
    BY <1>2 DEF StepRow, StepStatus
  <2>5. /\ s.status = "SUCCEEDED" /\ s.approval_decision = "approved"
        /\ s.attempt = old.attempt /\ s.resolved_input = old.resolved_input
        /\ s.type = old.type /\ s.input = old.input /\ s.max_attempts = old.max_attempts
    BY <1>2 DEF StepRow
  <2> HIDE DEF s
  <2> DEFINE st == [steps[t] EXCEPT ![i] = s]
  <2>6. WritesCurrent(tasks[t], steps[t], st) /\ st[i] = s
    BY <1>1, <1>2, <2>4, <2>5, CurrentWritten DEF CurrentStep
  <2>7. /\ row.status = IF IsLastStep(t, i) THEN "SUCCEEDED" ELSE "RUNNABLE"
        /\ Leaves(tasks[t], row)
        /\ row.current_step = i + 1 /\ row.checkpoint = tasks[t].checkpoint
    BY <1>2 DEF TaskRow, Released, Leaves, KeepsOrder, KeepsClaim, KeepsCancel
  <2> HIDE DEF st, row
  <2>8. ApproveEffect(tasks[t], steps[t], row, st, log)
    BY <1>1, <2>3, <2>5, <2>6, <2>7 DEF ApproveEffect, IsLastStep, a, b
  <2>. QED  BY <2>1, <2>3, <2>8, CommitEffect DEF Effect, st
<1>4. CASE Reject(t, i)
  <2> DEFINE row == [Released(tasks[t], "FAILED") EXCEPT !.retry_at = NULL]
             s == [old EXCEPT !.approval_decision = "rejected", !.status = "FAILED",
                              !.error = "approval_rejected"]
             a == StepEvent("TASK_REJECTED", i, NULL)
             b == StepEvent("TASK_FAILED", i, NULL)
  <2>1. Commit(t, row, [steps[t] EXCEPT ![i] = s], <<a, b>>)
    BY <1>4 DEF Reject
  <2>2. a \in EventRow /\ b \in EventRow
    BY <1>2, StepEventType DEF EventTypes
  <2>3. <<a, b>> \in Seq(EventRow)
    <3> HIDE DEF a, b
    <3>. QED  BY <2>2, LogType
  <2>4. s \in StepRow
    BY <1>2 DEF StepRow, StepStatus, Errors
  <2>5. /\ s.status = "FAILED" /\ s.approval_decision = "rejected"
        /\ s.attempt = old.attempt /\ s.resolved_input = old.resolved_input
        /\ s.type = old.type /\ s.input = old.input /\ s.max_attempts = old.max_attempts
    BY <1>2 DEF StepRow
  <2> HIDE DEF s
  <2> DEFINE st == [steps[t] EXCEPT ![i] = s]
  <2>6. WritesCurrent(tasks[t], steps[t], st) /\ st[i] = s
    BY <1>1, <1>2, <2>4, <2>5, CurrentWritten DEF CurrentStep
  <2>7. row.status = "FAILED" /\ Leaves(tasks[t], row) /\ KeepsCursor(tasks[t], row)
    BY <1>2, LeavesRetry
  <2> HIDE DEF st, row
  <2>8. RejectEffect(tasks[t], steps[t], row, st, <<a, b>>)
    BY <1>1, <2>5, <2>6, <2>7 DEF RejectEffect
  <2>. QED  BY <2>1, <2>3, <2>8, CommitEffect DEF Effect, st
<1>. QED  BY <1>3, <1>4

\* Every call that presents a lease token.
LEMMA OwnerStepHasEffect ==
  ASSUME IInv, NEW lease, lease.task \in Tasks, OwnerStep(lease)
  PROVE  Transacts(lease.task)
<1> DEFINE t == lease.task
<1>1. CASE RenewLease(lease)
  BY <1>1, RenewHasEffect
<1>2. CASE \E i \in DOMAIN steps[t] : StartStep(lease, i) \/ WaitForApproval(lease, i)
  BY <1>2, StartHasEffect, WaitHasEffect
<1>3. CASE \E attempt \in StartedAttempts(lease), outcome \in Outcomes :
             FinishStepFailed(lease, attempt, outcome) \/ FinishStepSucceeded(lease, attempt, outcome)
  BY <1>3, FinishFailedHasEffect, FinishSucceededHasEffect
<1>4. CASE TimeoutOwnedTask(lease)
  BY <1>4, ControlHasEffect DEF TimeoutOwnedTask, ownsActiveLease, LiveStatus, cancelledOutcome,
                                timedOutOutcome
<1>5. CASE CancelOwnedTask(lease)
  BY <1>5, ControlHasEffect DEF CancelOwnedTask, ownsActiveLease, LiveStatus, cancelledOutcome,
                                timedOutOutcome
<1>. QED  BY <1>1, <1>2, <1>3, <1>4, <1>5 DEF OwnerStep

\* Every call of a client.
LEMMA ClientStepHasEffect ==
  ASSUME IInv, NEW t \in Tasks, ClientStep(t)
  PROVE  Transacts(t)
<1>1. CASE \E d \in Definitions : CreateTask(t, d)
  BY <1>1, CreateHasEffect
<1>2. CASE RequestCancel(t)
  BY <1>2, RequestHasEffect
<1>3. CASE CancelSynchronously(t)
  <2>1. tasks[t] \in TaskRow
    BY TaskFacts
  <2>2. tasks[t].status \in LiveStatus /\ tasks[t].status # "RUNNING"
    BY <1>3, <2>1, RowFields DEF CancelSynchronously, isTerminalStatus
  <2>. QED  BY <1>3, <2>2, ControlHasEffect DEF CancelSynchronously, cancelledOutcome, timedOutOutcome
<1>4. CASE \E i \in DOMAIN steps[t] : Approve(t, i) \/ Reject(t, i)
  BY <1>4, DecideHasEffect
<1>. QED  BY <1>1, <1>2, <1>3, <1>4 DEF ClientStep

\* One pass of a scheduler.
LEMMA ProcessHasEffect ==
  ASSUME IInv, NEW t \in Tasks, ProcessDueControl(t)
  PROVE  Transacts(t)
<1>1. tasks[t].status \in LiveStatus
  BY DEF ProcessDueControl, Unfinished
<1>2. CASE tasks[t].cancel_requested /\ finishControlledTask(t, cancelledOutcome)
  BY <1>1, <1>2, ControlHasEffect DEF cancelledOutcome, timedOutOutcome
<1>3. CASE ~tasks[t].cancel_requested /\ DeadlinePassed(t) /\ finishControlledTask(t, timedOutOutcome)
  BY <1>1, <1>3, ControlHasEffect DEF cancelledOutcome, timedOutOutcome
<1>4. CASE ~ControlPending(t) /\ RetryDue(t) /\ wakeRetryTask(t)
  BY <1>4, WakeHasEffect DEF ControlPending
<1>5. CASE ~ControlPending(t) /\ ScheduleDue(t) /\ wakeScheduledTask(t)
  BY <1>5, WakeHasEffect DEF ControlPending
<1>. QED  BY <1>2, <1>3, <1>4, <1>5 DEF ProcessDueControl, CancelDue

\* The clock, or nothing, has moved.
ClockOnly == tasks' = tasks /\ steps' = steps /\ events' = events /\ now' \in {now, now + 1}

\* Every step of the store is a transaction with an effect, or the clock's.
LEMMA NextEffect ==
  ASSUME IInv, [Next]_vars
  PROVE  ClockOnly \/ \E t \in Tasks : Transacts(t)
<1>1. ASSUME NEW t \in Tasks, NEW w \in Workers, ClaimTask(w, t) PROVE Transacts(t)
  BY <1>1, ClaimRunnableHasEffect, ClaimExpiredHasEffect, ConvergeHasEffect DEF ClaimTask
<1>2. ASSUME NEW t \in Tasks, NEW lease \in IssuedLeases(t), OwnerStep(lease) PROVE Transacts(t)
  <2>1. lease.task = t
    BY DEF IssuedLeases
  <2>. QED  BY <1>2, <2>1, OwnerStepHasEffect
<1>3. ASSUME NEW t \in Tasks, WakeDueRetry(t) PROVE Transacts(t)
  BY <1>3, WakeHasEffect DEF WakeDueRetry
<1>4. CASE Tick
  BY <1>4 DEF Tick, ClockOnly
<1>5. CASE UNCHANGED vars
  BY <1>5 DEF vars, ClockOnly
<1>. QED  BY <1>1, <1>2, <1>3, <1>4, <1>5, ClientStepHasEffect, ProcessHasEffect DEF Next, Idle

-----------------------------------------------------------------------------
(* What a transaction never does. *)

\* A transaction is about one task; to each of the others nothing happens.
LEMMA TaskStep ==
  ASSUME IInv, [Next]_vars, NEW t \in Tasks
  PROVE  \/ tasks'[t] = tasks[t] /\ steps'[t] = steps[t] /\ events'[t] = events[t]
         \/ Transacts(t)
BY NextEffect DEF ClockOnly, Transacts, OnlyTask

\* A task that was never created has neither steps nor events.
Blank ==
  \A t \in Tasks : tasks[t].status = "NONE" =>
    tasks[t] = NoTask /\ steps[t] = <<>> /\ events[t] = <<>>

\* A transaction needs a task that has not ended, and creates it or finds it created.
LEMMA EffectStatus ==
  ASSUME NEW row, NEW st, NEW new, NEW st2, NEW log, Effect(row, st, new, st2, log)
  PROVE  /\ row.status \in LiveStatus \cup {"NONE"}
         /\ row.status = "NONE" <=> CreateEffect(row, st, new, st2, log)
         /\ new.status \in LiveStatus \cup TerminalStatus
BY DEF Effect, LiveStatus, TerminalStatus, CreateEffect, MarkEffect, WakeEffect, ClaimEffect,
       RecoverEffect, Claims, ConvergeEffect, StartEffect, WaitEffect, FailEffect, SucceedEffect,
       ControlEffect, ApproveEffect, RejectEffect, Active, Waiting

\* No row is deleted, so that only CreateTask finds a blank one.
LEMMA NextBlank == IInv /\ Blank /\ [Next]_vars => Blank'
<1> SUFFICES ASSUME IInv, Blank, [Next]_vars, NEW t \in Tasks, tasks'[t].status = "NONE"
             PROVE  tasks'[t] = NoTask /\ steps'[t] = <<>> /\ events'[t] = <<>>
  BY DEF Blank
<1>1. ~Transacts(t)
  BY EffectStatus DEF Transacts, LiveStatus, TerminalStatus
<1>. QED  BY <1>1, TaskStep DEF Blank

\* No task has a step yet.
LEMMA InitBlank == Init => Blank
BY DEF Init, Blank

\* Rows that were never created stay blank.
THEOREM BlankInvariance == Spec => []Blank
<1>. QED  BY InitBlank, NextBlank, Invariance, PTL DEF Spec

\* A task that has ended is never touched again, by a late owner, a late decision,
\* a repeated cancellation or the scheduler.
THEOREM TerminalIsFinalCorrect == Spec => TerminalIsFinal
<1>1. IInv /\ [Next]_vars =>
        [\A t \in Tasks :
           tasks[t].status \in TerminalStatus =>
             tasks'[t] = tasks[t] /\ steps'[t] = steps[t] /\ events'[t] = events[t]]_vars
  <2> SUFFICES ASSUME IInv, [Next]_vars, NEW t \in Tasks, tasks[t].status \in TerminalStatus
               PROVE  tasks'[t] = tasks[t] /\ steps'[t] = steps[t] /\ events'[t] = events[t]
    OBVIOUS
  <2>1. ~Transacts(t)
    BY EffectStatus DEF Transacts, LiveStatus, TerminalStatus
  <2>. QED  BY <2>1, TaskStep
<1>. QED  BY <1>1, Invariance, PTL DEF Spec, TerminalIsFinal

\* What a transaction does to the row of a task that runs and is to be cancelled.
LEMMA EffectCancelling ==
  ASSUME NEW row \in TaskRow, NEW st, NEW new, NEW st2, NEW log, Effect(row, st, new, st2, log),
         row.status = "RUNNING", row.cancel_requested
  PROVE  \/ MarkEffect(row, st, new, st2, log) /\ new.cancel_requested
         \/ ControlEffect(row, st, new, st2, log) /\ new.status = "CANCELLED"
BY DEF Effect, CreateEffect, MarkEffect, WakeEffect, ClaimEffect,
       RecoverEffect, Claims, ConvergeEffect, StartEffect, WaitEffect, FailEffect, SucceedEffect,
       ControlEffect, ApproveEffect, RejectEffect, Active, Waiting, KeepsCancel

\* A step that keeps its attempts keeps those of all steps.
LEMMA WritesCurrentAttempts ==
  ASSUME NEW row, NEW st, NEW st2, WritesCurrent(row, st, st2),
         KeepsFacts(st[row.current_step], st2[row.current_step])
  PROVE  \A i \in DOMAIN st : st2[i].attempt = st[i].attempt
BY DEF WritesCurrent, KeepsFacts

\* Once a cancellation is recorded on a running task, the owner, another worker's
\* claim and the scheduler can do nothing to it but cancel it.
THEOREM CancelSticksCorrect == Spec => CancelSticks
<1>1. IInv /\ [Next]_vars =>
        [\A t \in Tasks :
           tasks[t].status = "RUNNING" /\ tasks[t].cancel_requested =>
             /\ tasks'[t].status \in {"RUNNING", "CANCELLED"}
             /\ tasks'[t].cancel_requested
             /\ tasks'[t].current_step = tasks[t].current_step
             /\ tasks'[t].lease_version = tasks[t].lease_version
             /\ \A i \in DOMAIN steps[t] : steps'[t][i].attempt = steps[t][i].attempt]_vars
  <2> SUFFICES ASSUME IInv, [Next]_vars, NEW t \in Tasks,
                      tasks[t].status = "RUNNING", tasks[t].cancel_requested
               PROVE  /\ tasks'[t].status \in {"RUNNING", "CANCELLED"}
                      /\ tasks'[t].cancel_requested
                      /\ tasks'[t].current_step = tasks[t].current_step
                      /\ tasks'[t].lease_version = tasks[t].lease_version
                      /\ \A i \in DOMAIN steps[t] : steps'[t][i].attempt = steps[t][i].attempt
    OBVIOUS
  <2>1. CASE ~Transacts(t)
    BY <2>1, TaskStep
  <2>2. CASE Transacts(t)
    <3>1. PICK log \in Seq(EventRow) : Effect(tasks[t], steps[t], tasks'[t], steps'[t], log)
      BY <2>2 DEF Transacts
    <3>2. tasks[t] \in TaskRow
      BY TaskFacts
    <3>3. CASE MarkEffect(tasks[t], steps[t], tasks'[t], steps'[t], log)
               /\ tasks'[t].cancel_requested
      BY <3>3 DEF MarkEffect, KeepsCursor, KeepsClaim
    <3>4. CASE ControlEffect(tasks[t], steps[t], tasks'[t], steps'[t], log)
               /\ tasks'[t].status = "CANCELLED"
      BY <3>4, WritesCurrentAttempts
      DEF ControlEffect, Leaves, KeepsCursor, KeepsClaim, KeepsCancel
    <3>. QED  BY <3>1, <3>2, <3>3, <3>4, EffectCancelling
  <2>. QED  BY <2>1, <2>2
<1>. QED  BY <1>1, Invariance, PTL DEF Spec, CancelSticks

\* The deadline survives every transaction that finds one, and past it only the
\* two verdicts of finishControlledTask are left.
LEMMA EffectDeadline ==
  ASSUME NEW row, NEW st, NEW new, NEW st2, NEW log, Effect(row, st, new, st2, log),
         row.deadline_at # NULL, row.status # "NONE"
  PROVE  /\ new.deadline_at = row.deadline_at
         /\ ~InTime(row) => new.status \in {row.status, "TIMED_OUT", "CANCELLED"}
BY DEF Effect, CreateEffect, MarkEffect, WakeEffect, ClaimEffect,
       RecoverEffect, Claims, ConvergeEffect, StartEffect, WaitEffect, FailEffect, SucceedEffect,
       ControlEffect, ApproveEffect, RejectEffect, Active, Waiting, Leaves, KeepsClaim

\* The deadline is set by the first claim and never moves, and a live task whose
\* deadline has passed can only be timed out or cancelled.
THEOREM DeadlineHoldsCorrect == Spec => DeadlineHolds
<1>1. IInv /\ Blank /\ [Next]_vars =>
        [\A t \in Tasks :
           tasks[t].deadline_at # NULL =>
             /\ tasks'[t].deadline_at = tasks[t].deadline_at
             /\ DeadlinePassed(t) =>
                  tasks'[t].status \in {tasks[t].status, "TIMED_OUT", "CANCELLED"}]_vars
  <2> SUFFICES ASSUME IInv, Blank, [Next]_vars, NEW t \in Tasks, tasks[t].deadline_at # NULL
               PROVE  /\ tasks'[t].deadline_at = tasks[t].deadline_at
                      /\ DeadlinePassed(t) =>
                           tasks'[t].status \in {tasks[t].status, "TIMED_OUT", "CANCELLED"}
    OBVIOUS
  <2>1. tasks[t].status # "NONE"
    <3>1. NoTask.deadline_at = NULL
      BY DEF NoTask
    <3>. QED  BY <3>1 DEF Blank
  <2>. QED  BY <2>1, TaskStep, EffectDeadline, InTimeRow DEF Transacts
<1>. QED  BY <1>1, Invariance, BlankInvariance, PTL DEF Spec, DeadlineHolds

\* What a transaction leaves of a task whose lease has run out, unless it is a claim.
LEMMA EffectExpired ==
  ASSUME NEW row \in TaskRow, NEW st, NEW new, NEW st2, NEW log, Effect(row, st, new, st2, log),
         now \in Nat, row.status = "RUNNING", Ownership(row), row.lease_expires_at <= now,
         new.lease_version = row.lease_version
  PROVE  \/ /\ MarkEffect(row, st, new, st2, log)
            /\ new.lease_expires_at = row.lease_expires_at
         \/ ConvergeEffect(row, st, new, st2, log)
         \/ ControlEffect(row, st, new, st2, log)
<1>1. ~Active(row)
  <2>1. row.lease_expires_at \in Nat
    BY RowFields DEF Ownership, Time
  <2>. QED  BY <2>1 DEF Active
<1>2. ~Claims(row, new)
  <2>1. row.lease_version \in Nat
    BY RowFields
  <2>. QED  BY <2>1 DEF Claims
<1>. QED  BY <1>1, <1>2
          DEF Effect, CreateEffect, MarkEffect, WakeEffect, ClaimEffect, RecoverEffect,
              StartEffect, WaitEffect, FailEffect, SucceedEffect, ApproveEffect, RejectEffect,
              Waiting

\* An owner whose lease has run out, taken over or not, cannot renew it, start a
\* step or complete one.
THEOREM ExpiredLeaseIsDeadCorrect == Spec => ExpiredLeaseIsDead
<1>1. IInv /\ [Next]_vars =>
        [\A t \in Tasks :
           (/\ tasks[t].status = "RUNNING"
            /\ tasks[t].lease_expires_at <= now
            /\ tasks'[t].lease_version = tasks[t].lease_version) =>
              /\ tasks'[t].lease_expires_at \in {tasks[t].lease_expires_at, NULL}
              /\ tasks'[t].current_step = tasks[t].current_step
              /\ \A i \in DOMAIN steps[t] : steps'[t][i].attempt = steps[t][i].attempt]_vars
  <2> SUFFICES ASSUME IInv, [Next]_vars, NEW t \in Tasks, tasks[t].status = "RUNNING",
                      tasks[t].lease_expires_at <= now,
                      tasks'[t].lease_version = tasks[t].lease_version
               PROVE  /\ tasks'[t].lease_expires_at \in {tasks[t].lease_expires_at, NULL}
                      /\ tasks'[t].current_step = tasks[t].current_step
                      /\ \A i \in DOMAIN steps[t] : steps'[t][i].attempt = steps[t][i].attempt
    OBVIOUS
  <2>1. CASE ~Transacts(t)
    BY <2>1, TaskStep
  <2>2. CASE Transacts(t)
    <3>1. PICK log \in Seq(EventRow) : Effect(tasks[t], steps[t], tasks'[t], steps'[t], log)
      BY <2>2 DEF Transacts
    <3>2. tasks[t] \in TaskRow /\ now \in Nat /\ Ownership(tasks[t])
      BY TaskFacts DEF Coherent
    <3>3. CASE /\ MarkEffect(tasks[t], steps[t], tasks'[t], steps'[t], log)
               /\ tasks'[t].lease_expires_at = tasks[t].lease_expires_at
      BY <3>3 DEF MarkEffect, KeepsCursor
    <3>4. CASE ConvergeEffect(tasks[t], steps[t], tasks'[t], steps'[t], log)
      BY <3>4, WritesCurrentAttempts DEF ConvergeEffect, Leaves, LosesOwner, KeepsCursor
    <3>5. CASE ControlEffect(tasks[t], steps[t], tasks'[t], steps'[t], log)
      BY <3>5, WritesCurrentAttempts DEF ControlEffect, Leaves, KeepsCursor
    <3>. QED  BY <3>1, <3>2, <3>3, <3>4, <3>5, EffectExpired
  <2>. QED  BY <2>1, <2>2
<1>. QED  BY <1>1, Invariance, PTL DEF Spec, ExpiredLeaseIsDead

\* A sequence that is appended to keeps its elements, and gets those of the other.
LEMMA Appended ==
  ASSUME NEW q \in Seq(EventRow), NEW log \in Seq(EventRow)
  PROVE  /\ q \o log \in Seq(EventRow)
         /\ Len(q \o log) = Len(q) + Len(log)
         /\ \A k \in DOMAIN q : (q \o log)[k] = q[k]
         /\ \A k \in DOMAIN (q \o log) :
              k \notin DOMAIN q => k - Len(q) \in DOMAIN log /\ (q \o log)[k] = log[k - Len(q)]
         /\ \A k \in DOMAIN log : /\ Len(q) + k \in DOMAIN (q \o log)
                                  /\ (q \o log)[Len(q) + k] = log[k]
OBVIOUS

\* What a transaction writes to a step that is there.
LEMMA EffectSteps ==
  ASSUME NEW row \in TaskRow, NEW st \in Seq(StepRow), Coherent(row, st), row.status # "NONE",
         NEW new, NEW st2, NEW log, Effect(row, st, new, st2, log)
  PROVE  \/ st2 = st
         \/ LET old == st[row.current_step]
                s == st2[row.current_step]
            IN  /\ row.current_step \in DOMAIN st
                /\ WritesCurrent(row, st, st2)
                /\ old.status # "SUCCEEDED" /\ old.approval_decision = NULL
                /\ s.attempt \in {old.attempt, old.attempt + 1}
                /\ old.resolved_input # NULL => s.resolved_input = old.resolved_input
<1>1. row.status \in LiveStatus
  BY EffectStatus
<1>2. /\ row.current_step \in DOMAIN st /\ Fits(st[row.current_step], row.status)
  BY <1>1 DEF Coherent, CanGoOn
<1>3. st[row.current_step].status # "SUCCEEDED" /\ st[row.current_step].approval_decision = NULL
  BY <1>1, <1>2 DEF Fits, Startable, InFlight, LiveStatus
<1>. QED  BY <1>2, <1>3 DEF Effect, CreateEffect, MarkEffect, WakeEffect, ClaimEffect,
       RecoverEffect, ConvergeEffect, StartEffect, WaitEffect, FailEffect, SucceedEffect,
       ControlEffect, ApproveEffect, RejectEffect, LosesOwner, KeepsFacts, Resolves

\* Lease versions only grow.
LEMMA EffectVersion ==
  ASSUME NEW row \in TaskRow, row.status # "NONE", NEW st, NEW new, NEW st2, NEW log,
         Effect(row, st, new, st2, log)
  PROVE  new.lease_version \in {row.lease_version, row.lease_version + 1}
BY DEF Effect, CreateEffect, MarkEffect, WakeEffect, ClaimEffect, RecoverEffect, Claims,
       ConvergeEffect, StartEffect, WaitEffect, FailEffect, SucceedEffect, ControlEffect,
       ApproveEffect, RejectEffect, Leaves, KeepsClaim

\* Committed facts stay: a step that has succeeded is not run or written again, an
\* input once resolved and a decision once made are kept by every retry, attempts
\* and lease versions only grow, and events are only appended.
THEOREM FactsPersistCorrect == Spec => FactsPersist
<1> DEFINE Kept(old, new) ==
             /\ old.status = "SUCCEEDED" => new = old
             /\ old.resolved_input # NULL => new.resolved_input = old.resolved_input
             /\ old.approval_decision # NULL => new.approval_decision = old.approval_decision
             /\ new.attempt >= old.attempt
<1>1. IInv /\ Blank /\ [Next]_vars =>
        [\A t \in Tasks :
           /\ tasks'[t].lease_version >= tasks[t].lease_version
           /\ \A k \in DOMAIN events[t] : events'[t][k] = events[t][k]
           /\ \A i \in DOMAIN steps[t] : Kept(steps[t][i], steps'[t][i])]_vars
  <2> SUFFICES ASSUME IInv, Blank, [Next]_vars, NEW t \in Tasks
               PROVE  /\ tasks'[t].lease_version >= tasks[t].lease_version
                      /\ \A k \in DOMAIN events[t] : events'[t][k] = events[t][k]
                      /\ \A i \in DOMAIN steps[t] : Kept(steps[t][i], steps'[t][i])
    OBVIOUS
  <2>1. /\ tasks[t] \in TaskRow /\ steps[t] \in Seq(StepRow) /\ events[t] \in Seq(EventRow)
        /\ Coherent(tasks[t], steps[t]) /\ tasks[t].lease_version \in Nat
    BY TaskFacts, RowFields DEF IInv, TypeOK
  <2>2. ASSUME NEW s \in StepRow PROVE Kept(s, s)
    BY StepFields
  <2>3. CASE ~Transacts(t)
    <3>1. tasks'[t] = tasks[t] /\ steps'[t] = steps[t] /\ events'[t] = events[t]
      BY <2>3, TaskStep
    <3>2. \A i \in DOMAIN steps[t] : steps[t][i] \in StepRow
      BY <2>1
    <3> HIDE DEF Kept
    <3>. QED  BY <2>1, <2>2, <3>1, <3>2
  <2>4. CASE Transacts(t)
    <3>1. PICK log \in Seq(EventRow) :
            /\ events'[t] = events[t] \o log
            /\ Effect(tasks[t], steps[t], tasks'[t], steps'[t], log)
      BY <2>4 DEF Transacts
    <3>2. \A k \in DOMAIN events[t] : events'[t][k] = events[t][k]
      BY <2>1, <3>1, Appended
    <3>3. CASE tasks[t].status = "NONE"
      <4>1. NoTask.lease_version = 0
        BY DEF NoTask
      <4>2. steps[t] = <<>> /\ tasks[t].lease_version = 0
        BY <3>3, <4>1 DEF Blank
      <4>3. tasks'[t].lease_version = 0
        BY <3>1, <3>3, EffectStatus DEF CreateEffect
      <4>. QED  BY <3>2, <4>2, <4>3
    <3>4. CASE tasks[t].status # "NONE"
      <4>0. Effect(tasks[t], steps[t], tasks'[t], steps'[t], log)
        BY <3>1
      <4>1. tasks'[t].lease_version >= tasks[t].lease_version
        <5>1. tasks'[t].lease_version \in {tasks[t].lease_version, tasks[t].lease_version + 1}
          BY <2>1, <3>4, <4>0, EffectVersion
        <5>. QED  BY <2>1, <5>1
      <4>2. ASSUME NEW i \in DOMAIN steps[t] PROVE Kept(steps[t][i], steps'[t][i])
        <5>1. steps[t][i] \in StepRow /\ steps[t][i].attempt \in Nat
          BY <2>1, StepFields
        <5>2. CASE steps'[t][i] = steps[t][i]
          BY <2>2, <5>1, <5>2
        <5>3. CASE steps'[t][i] # steps[t][i]
          <6>1. steps'[t] # steps[t]
            BY <5>3
          <6>2. /\ WritesCurrent(tasks[t], steps[t], steps'[t])
                /\ LET old == steps[t][tasks[t].current_step]
                       s == steps'[t][tasks[t].current_step]
                   IN  /\ old.status # "SUCCEEDED" /\ old.approval_decision = NULL
                       /\ s.attempt \in {old.attempt, old.attempt + 1}
                       /\ old.resolved_input # NULL => s.resolved_input = old.resolved_input
            BY <2>1, <3>4, <4>0, <6>1, EffectSteps
          <6>3. i = tasks[t].current_step
            BY <5>3, <6>2 DEF WritesCurrent
          <6>. QED  BY <5>1, <6>2, <6>3
        <5>. QED  BY <5>2, <5>3
      <4>. QED  BY <3>2, <4>1, <4>2
    <3>. QED  BY <3>3, <3>4
  <2>. QED  BY <2>3, <2>4
<1>. QED  BY <1>1, Invariance, BlankInvariance, PTL DEF Spec, FactsPersist

-----------------------------------------------------------------------------
(* The store implements the transition table. *)

Life(status, done, total, epoch, cancelling) ==
  [status |-> status, done |-> done, total |-> total, epoch |-> epoch, cancelling |-> cancelling]

\* What the transition table tells of a row and its steps.
LifeRow(row, st) ==
  Life(row.status, row.current_step - 1, Len(st), row.lease_version, row.cancel_requested)

\* A transaction on t changes the life of t alone.
LEMMA LifeStep ==
  ASSUME NEW t \in Tasks, OnlyTask(t)
  PROVE  /\ life[t] = LifeRow(tasks[t], steps[t])
         /\ life' = [life EXCEPT ![t] = LifeRow(tasks'[t], steps'[t])]
BY DEF life, LifeRow, Life, OnlyTask

\* Every effect is a row of the transition table, or none.
LEMMA EffectLife ==
  ASSUME IInv, IInv', NEW t \in Tasks, Transacts(t)
  PROVE  [Lifecycle!Next]_life
<1> DEFINE row == tasks[t]
           st == steps[t]
           new == tasks'[t]
           st2 == steps'[t]
           l == LifeRow(row, st)
           m == LifeRow(new, st2)
           d == row.current_step - 1
           n == Len(st)
           e == row.lease_version
           c == row.cancel_requested
<1>1. PICK log \in Seq(EventRow) : Effect(row, st, new, st2, log)
  BY DEF Transacts
<1>2. life[t] = l /\ life' = [life EXCEPT ![t] = m]
  BY LifeStep DEF Transacts
<1>3. row \in TaskRow /\ row.current_step \in Nat /\ Clocks(row) /\ c \in BOOLEAN
  BY TaskFacts, RowFields DEF Coherent
<1>4. new.cancel_requested \in BOOLEAN
  <2>1. new \in TaskRow
    BY DEF IInv, TypeOK
  <2>. QED  BY <2>1, RowFields
<1> HIDE DEF row, st, new, st2
<1>5. /\ l.status = row.status /\ l.cancelling = c /\ l.epoch = e /\ l.done = d /\ l.total = n
      /\ l = Life(row.status, d, n, e, c)
  BY DEF LifeRow, Life
<1>6. m = Life(new.status, new.current_step - 1, Len(st2), new.lease_version, new.cancel_requested)
  BY DEF LifeRow
<1> HIDE DEF l, m, d, n, e, c
<1>7. CASE CreateEffect(row, st, new, st2, log)
  <2>1. /\ new.current_step - 1 = 0 /\ new.lease_version = 0 /\ new.cancel_requested = FALSE
        /\ Len(st2) \in 1..100 /\ new.status \in {"SCHEDULED", "RUNNABLE"} /\ row.status = "NONE"
    <3>1. /\ new.current_step = 1 /\ new.lease_version = 0 /\ ~new.cancel_requested
          /\ Len(st2) \in 1..100 /\ new.status \in {"SCHEDULED", "RUNNABLE"} /\ row.status = "NONE"
      BY <1>7, Zenon DEF CreateEffect
    <3>. QED  BY <1>4, <3>1
  <2>2. Lifecycle!Absent = Life("NONE", 0, 0, 0, FALSE)
    BY DEF Lifecycle!Absent, Life
  <2>3. m = [Lifecycle!Absent EXCEPT !.status = new.status, !.total = Len(st2)]
    <3> DEFINE a == Lifecycle!Absent
               no == FALSE
               k == Life(new.status, 0, 0, 0, no)
    <3>0. a = Life("NONE", 0, 0, 0, no) /\ m = Life(new.status, 0, Len(st2), 0, no)
      BY <1>6, <2>1, <2>2
    <3> HIDE DEF a, no
    <3>1. [a EXCEPT !.status = new.status] = k
      BY <3>0 DEF Life
    <3>2. m = [k EXCEPT !.total = Len(st2)]
      BY <3>0 DEF Life
    <3> HIDE DEF k
    <3>3. m = [[a EXCEPT !.status = new.status] EXCEPT !.total = Len(st2)]
      BY <3>1, <3>2
    <3>. QED  BY <3>3 DEF a
  <2>4. Lifecycle!Create(t)
    BY <1>2, <1>5, <2>1, <2>3 DEF Lifecycle!Create, Lifecycle!Set
  <2>. QED  BY <2>4 DEF Lifecycle!Next
<1>8. ASSUME KeepsCursor(row, new), KeepsClaim(row, new), KeepsCancel(row, new), Len(st2) = Len(st)
      PROVE  Lifecycle!Move(t, new.status)
  <2>1. m = Life(new.status, d, n, e, c)
    BY <1>6, <1>8 DEF KeepsCursor, KeepsClaim, KeepsCancel, d, n, e, c
  <2>2. m = [l EXCEPT !.status = new.status]
    BY <1>5, <2>1 DEF Life
  <2>. QED  BY <1>2, <2>2 DEF Lifecycle!Move, Lifecycle!Set
<1>9. CASE MarkEffect(row, st, new, st2, log)
  <2>1. CASE KeepsCancel(row, new)
    <3>1. m = l
      BY <1>5, <1>6, <1>9, <2>1 DEF MarkEffect, KeepsCursor, KeepsClaim, KeepsCancel, d, n, e, c
    <3>. QED  BY <1>2, <3>1 DEF life
  <2>2. CASE new.cancel_requested
    <3> DEFINE yes == TRUE
    <3>1. m = Life(row.status, d, n, e, yes)
      BY <1>4, <1>6, <1>9, <2>2 DEF MarkEffect, KeepsCursor, KeepsClaim, d, n, e
    <3> HIDE DEF yes
    <3>2. m = [l EXCEPT !.cancelling = yes]
      BY <1>5, <3>1 DEF Life
    <3>3. Lifecycle!RequestCancel(t)
      BY <1>2, <1>5, <1>9, <3>2 DEF MarkEffect, Lifecycle!RequestCancel, Lifecycle!Set, yes
    <3>. QED  BY <3>3 DEF Lifecycle!Next
  <2>. QED  BY <1>9, <2>1, <2>2 DEF MarkEffect
<1>10. CASE WakeEffect(row, st, new, st2, log)
  <2>1. Lifecycle!Wake(t)
    BY <1>2, <1>5, <1>8, <1>10 DEF WakeEffect, Lifecycle!Wake
  <2>. QED  BY <2>1 DEF Lifecycle!Next
<1>11. CASE ClaimEffect(row, st, new, st2, log) \/ RecoverEffect(row, st, new, st2, log)
  <2>1. /\ Claims(row, new) /\ Len(st2) = Len(st) /\ new.status = "RUNNING"
        /\ row.status = "RUNNABLE" \/ (row.status = "RUNNING" /\ ~c)
    BY <1>11 DEF ClaimEffect, RecoverEffect, Claims, LosesOwner, WritesCurrent, c
  <2>2. m = Life("RUNNING", d, n, e + 1, c)
    BY <1>6, <2>1 DEF Claims, KeepsCursor, KeepsCancel, d, n, e, c
  <2>3. m = [l EXCEPT !.status = "RUNNING", !.epoch = l.epoch + 1]
    <3> DEFINE k == Life("RUNNING", d, n, e, c)
    <3>1. [l EXCEPT !.status = "RUNNING"] = k
      BY <1>5 DEF Life
    <3>2. m = [k EXCEPT !.epoch = l.epoch + 1]
      BY <1>5, <2>2 DEF Life
    <3> HIDE DEF k
    <3>. QED  BY <3>1, <3>2
  <2>4. Lifecycle!Claim(t)
    BY <1>2, <1>5, <2>1, <2>3 DEF Lifecycle!Claim, Lifecycle!Owned, Lifecycle!Set
  <2>. QED  BY <2>4 DEF Lifecycle!Next
<1>12. CASE \/ ConvergeEffect(row, st, new, st2, log) \/ WaitEffect(row, st, new, st2, log)
            \/ FailEffect(row, st, new, st2, log) \/ RejectEffect(row, st, new, st2, log)
  <2>1. Lifecycle!Move(t, new.status)
    BY <1>8, <1>12 DEF ConvergeEffect, WaitEffect, FailEffect, RejectEffect, Leaves, LosesOwner,
                       WritesCurrent
  <2>2. \/ /\ row.status = "RUNNING" /\ ~c
           /\ new.status \in {"FAILED", "RETRY_WAIT", "WAITING_APPROVAL"}
        \/ row.status = "WAITING_APPROVAL" /\ new.status = "FAILED"
    BY <1>12 DEF ConvergeEffect, WaitEffect, FailEffect, RejectEffect, Active, Waiting, c
  <2>3. Lifecycle!Park(t) \/ Lifecycle!Fail(t)
    BY <1>2, <1>5, <2>1, <2>2 DEF Lifecycle!Park, Lifecycle!Fail, Lifecycle!Owned
  <2>. QED  BY <2>3 DEF Lifecycle!Next
<1>13. CASE SucceedEffect(row, st, new, st2, log) \/ ApproveEffect(row, st, new, st2, log)
  <2> DEFINE go == IF row.status = "RUNNING" THEN "RUNNING" ELSE "RUNNABLE"
             status == IF d + 1 = n THEN "SUCCEEDED" ELSE go
  <2>1. /\ KeepsClaim(row, new) /\ KeepsCancel(row, new) /\ Len(st2) = Len(st)
        /\ new.current_step = row.current_step + 1
        /\ (row.status = "RUNNING" /\ ~c) \/ row.status = "WAITING_APPROVAL"
        /\ new.status = IF row.current_step = Len(st) THEN "SUCCEEDED" ELSE go
    BY <1>13 DEF SucceedEffect, ApproveEffect, Active, Waiting, Leaves, WritesCurrent, c
  <2>2. new.status = status
    BY <1>3, <2>1 DEF d, n
  <2>3. m = Life(status, d + 1, n, e, c)
    BY <1>3, <1>6, <2>1, <2>2 DEF KeepsClaim, KeepsCancel, d, n, e, c
  <2>4. m = [l EXCEPT !.status = status, !.done = l.done + 1]
    <3> DEFINE k == Life(status, d, n, e, c)
    <3> HIDE DEF status
    <3>1. [l EXCEPT !.status = status] = k
      BY <1>5 DEF Life
    <3>2. m = [k EXCEPT !.done = l.done + 1]
      BY <1>5, <2>3 DEF Life
    <3> HIDE DEF k
    <3>. QED  BY <3>1, <3>2
  <2>5. Lifecycle!Complete(t, go)
    BY <1>2, <1>5, <2>4 DEF Lifecycle!Complete, Lifecycle!Set
  <2>6. Lifecycle!CompleteStep(t) \/ Lifecycle!Approve(t)
    BY <1>2, <1>5, <2>1, <2>5 DEF Lifecycle!CompleteStep, Lifecycle!Approve, Lifecycle!Owned
  <2>. QED  BY <2>6 DEF Lifecycle!Next
<1>14. CASE StartEffect(row, st, new, st2, log)
  <2>1. m = l
    BY <1>5, <1>6, <1>14 DEF StartEffect, WritesCurrent, d, n, e, c
  <2>. QED  BY <1>2, <2>1 DEF life
<1>15. CASE ControlEffect(row, st, new, st2, log)
  <2>1. Lifecycle!Move(t, new.status)
    BY <1>8, <1>15 DEF ControlEffect, Leaves, WritesCurrent
  <2>2. /\ row.status \in Lifecycle!Live
        /\ \/ new.status = "CANCELLED" /\ (row.status = "RUNNING" => c)
           \/ new.status = "TIMED_OUT" /\ ~c /\ row.deadline_at # NULL
    BY <1>15 DEF ControlEffect, LiveStatus, Lifecycle!Live, InTime, c
  <2>3. row.deadline_at # NULL => e > 0
    BY <1>3 DEF Clocks, e
  <2>4. Lifecycle!Cancel(t) \/ Lifecycle!TimeOut(t)
    BY <1>2, <1>5, <2>1, <2>2, <2>3 DEF Lifecycle!Cancel, Lifecycle!TimeOut
  <2>. QED  BY <2>4 DEF Lifecycle!Next
<1>. QED  BY <1>1, <1>7, <1>9, <1>10, <1>11, <1>12, <1>13, <1>14, <1>15 DEF Effect

\* Every transaction, whoever calls it and whenever, is a row of the transition
\* table of the design, section 49.2, or invisible there.
THEOREM LifecycleRefinement == Spec => ImplementsLifecycle
<1>1. Init => Lifecycle!Init
  <2> SUFFICES ASSUME Init PROVE life = [t \in Tasks |-> Lifecycle!Absent]
    BY DEF Lifecycle!Init
  <2>1. ASSUME NEW t \in Tasks PROVE LifeRow(tasks[t], steps[t]) = Lifecycle!Absent
    <3>1. tasks[t] = NoTask /\ steps[t] = <<>>
      BY DEF Init
    <3>2. /\ NoTask.status = "NONE" /\ NoTask.current_step - 1 = 0 /\ NoTask.lease_version = 0
          /\ NoTask.cancel_requested = FALSE
      BY DEF NoTask
    <3>3. LifeRow(tasks[t], steps[t]) = Life("NONE", 0, 0, 0, FALSE)
      BY <3>1, <3>2 DEF LifeRow
    <3>. QED  BY <3>3 DEF Life, Lifecycle!Absent
  <2>. QED  BY <2>1 DEF life, LifeRow, Life
<1>2. IInv /\ IInv' /\ [Next]_vars => [Lifecycle!Next]_life
  <2> SUFFICES ASSUME IInv, IInv', [Next]_vars PROVE [Lifecycle!Next]_life
    OBVIOUS
  <2>1. CASE ClockOnly
    BY <2>1 DEF ClockOnly, life
  <2>. QED  BY <2>1, NextEffect, EffectLife
<1>. QED  BY <1>1, <1>2, Invariance, PTL DEF Spec, ImplementsLifecycle, Lifecycle!Spec

-----------------------------------------------------------------------------
(* The inputs that steps were started with. *)

\* What step i of a task was started with comes from what was committed before.
Sourced(row, st, i) ==
  st[i].resolved_input # NULL =>
    /\ st[i].input = "literal" => st[i].resolved_input = "literal"
    /\ st[i].input = "previous_output" =>
         /\ i > 1
         /\ st[i - 1].status = "SUCCEEDED"
         /\ st[i].resolved_input = st[i - 1].output
    /\ (st[i].input = "checkpoint" /\ st[i].status # "SUCCEEDED") =>
         st[i].resolved_input = row.checkpoint

AllSourced == \A t \in Tasks : \A i \in DOMAIN steps[t] : Sourced(tasks[t], steps[t], i)

\* A transaction on the current step keeps the sources of all steps: those before it
\* have succeeded and are not written, those behind it have no input yet.
LEMMA CurrentSourced ==
  ASSUME NEW row \in TaskRow, NEW st \in Seq(StepRow), Coherent(row, st),
         row.current_step \in DOMAIN st,
         \A i \in DOMAIN st : Sourced(row, st, i),
         NEW new, NEW st2, WritesCurrent(row, st, st2),
         LET old == st[row.current_step]
             s == st2[row.current_step]
         IN  s.resolved_input = old.resolved_input \/ Resolves(row, st, old, s),
         st[row.current_step].status # "SUCCEEDED",
         new.checkpoint = row.checkpoint \/ st2[row.current_step].status = "SUCCEEDED",
         NEW i \in DOMAIN st2
  PROVE  Sourced(new, st2, i)
<1> DEFINE c == row.current_step
<1>1. /\ c \in Nat /\ i \in Nat /\ i \in DOMAIN st /\ i # 0
      /\ \A j \in DOMAIN st : j < c => st[j].status = "SUCCEEDED"
      /\ \A j \in DOMAIN st : j > c => st[j].resolved_input = NULL
      /\ \A j \in DOMAIN st : j # c => st2[j] = st[j]
      /\ i > 1 => i - 1 \in DOMAIN st
      /\ st2[c].input = st[c].input
  BY DEF WritesCurrent, Coherent, Cursor, Untouched
<1>2. Sourced(row, st, i)
  BY <1>1
<1>3. CASE i < c
  <2>1. st2[i] = st[i] /\ st[i].status = "SUCCEEDED" /\ (i > 1 => st2[i - 1] = st[i - 1])
    BY <1>1, <1>3
  <2>. QED  BY <1>2, <2>1 DEF Sourced
<1>4. CASE i > c
  BY <1>1, <1>4 DEF Sourced
<1>5. CASE i = c
  <2>1. i > 1 => st2[i - 1] = st[i - 1] /\ st[i - 1].status = "SUCCEEDED"
    BY <1>1, <1>5
  <2>2. CASE st2[c].resolved_input = st[c].resolved_input
    BY <1>1, <1>2, <1>5, <2>1, <2>2 DEF Sourced
  <2>3. CASE st2[c].resolved_input # st[c].resolved_input
    <3>1. Resolves(row, st, st[c], st2[c]) /\ st[c].resolved_input = NULL
      BY <2>3 DEF Resolves
    <3>. QED  BY <1>1, <1>5, <2>1, <3>1 DEF Sourced, Resolves
  <2>. QED  BY <2>2, <2>3
<1>. QED  BY <1>1, <1>3, <1>4, <1>5

\* Every transaction keeps the sources.
LEMMA EffectSourced ==
  ASSUME NEW row \in TaskRow, NEW st \in Seq(StepRow), Coherent(row, st),
         \A i \in DOMAIN st : Sourced(row, st, i),
         NEW new, NEW st2, NEW log, Effect(row, st, new, st2, log)
  PROVE  \A i \in DOMAIN st2 : Sourced(new, st2, i)
<1>1. CASE CreateEffect(row, st, new, st2, log)
  BY <1>1 DEF CreateEffect, Untouched, Sourced
<1>2. CASE ~CreateEffect(row, st, new, st2, log)
  <2>1. row.status \in LiveStatus
    BY <1>2, EffectStatus
  <2>2. row.current_step \in DOMAIN st /\ Fits(st[row.current_step], row.status)
    BY <2>1 DEF Coherent, CanGoOn
  <2>3. st[row.current_step].status # "SUCCEEDED"
    BY <2>1, <2>2 DEF Fits, Startable, InFlight, LiveStatus
  <2>4. CASE st2 = st /\ KeepsCursor(row, new)
    BY <2>4 DEF KeepsCursor, Sourced
  <2>5. CASE ~(st2 = st /\ KeepsCursor(row, new))
    <3>1. /\ WritesCurrent(row, st, st2)
          /\ LET old == st[row.current_step]
                 s == st2[row.current_step]
             IN  s.resolved_input = old.resolved_input \/ Resolves(row, st, old, s)
          /\ new.checkpoint = row.checkpoint \/ st2[row.current_step].status = "SUCCEEDED"
      BY <1>1, <1>2, <2>5
      DEF Effect, MarkEffect, WakeEffect, ClaimEffect, RecoverEffect, Claims, ConvergeEffect,
          StartEffect, WaitEffect, FailEffect, SucceedEffect, ControlEffect, ApproveEffect,
          RejectEffect, LosesOwner, KeepsFacts, KeepsCursor
    <3>. QED  BY <2>2, <2>3, <3>1, CurrentSourced
  <2>. QED  BY <2>4, <2>5
<1>. QED  BY <1>1, <1>2

\* Whatever was resolved stays what it was resolved from.
THEOREM SourcedInvariance == Spec => []AllSourced
<1>1. Init => AllSourced
  BY DEF Init, AllSourced
<1>2. IInv /\ AllSourced /\ [Next]_vars => AllSourced'
  <2> SUFFICES ASSUME IInv, AllSourced, [Next]_vars, NEW t \in Tasks
               PROVE  \A i \in DOMAIN steps'[t] : Sourced(tasks'[t], steps'[t], i)
    BY DEF AllSourced
  <2>1. /\ tasks[t] \in TaskRow /\ steps[t] \in Seq(StepRow) /\ Coherent(tasks[t], steps[t])
        /\ \A i \in DOMAIN steps[t] : Sourced(tasks[t], steps[t], i)
    BY TaskFacts DEF AllSourced
  <2>2. CASE ~Transacts(t)
    BY <2>1, <2>2, TaskStep
  <2>3. CASE Transacts(t)
    <3>1. PICK log \in Seq(EventRow) : Effect(tasks[t], steps[t], tasks'[t], steps'[t], log)
      BY <2>3 DEF Transacts
    <3>. QED  BY <2>1, <3>1, EffectSourced
  <2>. QED  BY <2>2, <2>3
<1>. QED  BY <1>1, <1>2, Invariance, PTL DEF Spec

\* What a step was started with comes from committed facts: the output of the
\* step before it, or the checkpoint as it was when the step became current.
THEOREM InputsCorrect == Spec => []InputsFromCommittedFacts
<1>1. AllSourced => InputsFromCommittedFacts
  BY DEF AllSourced, Sourced, InputsFromCommittedFacts
<1>. QED  BY <1>1, SourcedInvariance, PTL

\* What a transaction does to a row that one of the scans would select.
LEMMA EffectDue ==
  ASSUME NEW row \in TaskRow, Clocks(row), Ownership(row), now \in Nat,
         NEW st, NEW new, NEW st2, NEW log, Effect(row, st, new, st2, log)
  PROVE  /\ row.cancel_requested /\ row.status \in LiveStatus =>
              new.status \in TerminalStatus \/ (new.status \in LiveStatus /\ new.cancel_requested)
         /\ ~InTime(row) /\ row.status \in LiveStatus =>
              \/ new.status \in TerminalStatus
              \/ new.status \in LiveStatus /\ new.deadline_at = row.deadline_at
         /\ row.status \in {"RETRY_WAIT", "SCHEDULED"} =>
              new.status \in TerminalStatus \cup {"RUNNABLE"}
         /\ row.status = "RUNNABLE" =>
              new.status \in TerminalStatus \/ new.lease_version = row.lease_version + 1
         /\ row.status = "RUNNING" /\ row.lease_expires_at <= now =>
              \/ new.status \in TerminalStatus \/ new.lease_version = row.lease_version + 1
              \/ new.status = "RUNNING" /\ new.cancel_requested
<1>1. /\ row.status \in LiveStatus \cup {"NONE"} /\ new.status \in LiveStatus \cup TerminalStatus
      /\ row.status = "NONE" <=> CreateEffect(row, st, new, st2, log)
  BY EffectStatus
<1>2. ASSUME row.cancel_requested, row.status \in LiveStatus
      PROVE  new.status \in TerminalStatus \/ (new.status \in LiveStatus /\ new.cancel_requested)
  <2>1. row.status = "RUNNING"
    BY <1>2 DEF Clocks, LiveStatus
  <2>. QED  BY <1>2, <2>1, EffectCancelling DEF MarkEffect, LiveStatus, TerminalStatus
<1>3. ASSUME ~InTime(row), row.status \in LiveStatus
      PROVE  \/ new.status \in TerminalStatus
             \/ new.status \in LiveStatus /\ new.deadline_at = row.deadline_at
  <2>1. row.deadline_at # NULL /\ row.status # "NONE"
    BY <1>3 DEF InTime, LiveStatus
  <2>. QED  BY <1>1, <2>1, EffectDeadline
<1>4. ASSUME row.status \in {"RETRY_WAIT", "SCHEDULED"}
      PROVE  WakeEffect(row, st, new, st2, log) \/ ControlEffect(row, st, new, st2, log)
  BY <1>1, <1>4 DEF Effect, MarkEffect, ClaimEffect, RecoverEffect, ConvergeEffect, StartEffect,
                    WaitEffect, FailEffect, SucceedEffect, ApproveEffect, RejectEffect, Active, Waiting
<1>5. ASSUME row.status = "RUNNABLE"
      PROVE  ClaimEffect(row, st, new, st2, log) \/ ControlEffect(row, st, new, st2, log)
  BY <1>1, <1>5 DEF Effect, MarkEffect, WakeEffect, RecoverEffect, ConvergeEffect, StartEffect,
                    WaitEffect, FailEffect, SucceedEffect, ApproveEffect, RejectEffect, Active, Waiting
<1>6. ControlEffect(row, st, new, st2, log) => new.status \in TerminalStatus
  BY DEF ControlEffect, TerminalStatus
<1>7. ASSUME row.status = "RUNNING", row.lease_expires_at <= now
      PROVE  \/ new.status \in TerminalStatus \/ new.lease_version = row.lease_version + 1
             \/ new.status = "RUNNING" /\ new.cancel_requested
  <2>1. row.lease_expires_at \in Nat
    BY <1>7, RowFields DEF Ownership, Time
  <2>2. ~Active(row)
    BY <1>7, <2>1 DEF Active
  <2>3. new.lease_version \in {row.lease_version, row.lease_version + 1}
    BY <1>7, EffectVersion
  <2>4. CASE new.lease_version = row.lease_version
    <3>1. \/ MarkEffect(row, st, new, st2, log) \/ ConvergeEffect(row, st, new, st2, log)
          \/ ControlEffect(row, st, new, st2, log)
      BY <1>7, <2>4, EffectExpired
    <3>. QED  BY <1>6, <2>2, <3>1 DEF MarkEffect, ConvergeEffect, TerminalStatus
  <2>. QED  BY <2>3, <2>4
<1>. QED  BY <1>2, <1>3, <1>4, <1>5, <1>6, <1>7 DEF WakeEffect, ClaimEffect, Claims

\* Time does not go back.
LEMMA NextClock ==
  ASSUME IInv, [Next]_vars
  PROVE  now \in Nat /\ now' \in {now, now + 1}
<1>1. now \in Nat
  BY DEF IInv, TypeOK
<1>. QED  BY <1>1, NextEffect DEF ClockOnly, Transacts, OnlyTask

\* What the scans select stays selected until it is taken: nobody else's transaction and
\* no passing of time takes a task that is due, or that can be claimed, out of reach.
THEOREM DueUntilTakenCorrect == Spec => DueUntilTaken
<1>1. IInv /\ [Next]_vars =>
        [\A t \in Tasks :
           /\ DueControl(t) =>
                \/ DueControl(t)' \/ tasks'[t].status \in TerminalStatus
                \/ ~ControlPending(t) /\ tasks'[t].status = "RUNNABLE"
           /\ Claimable(t) =>
                \/ Claimable(t)' \/ DueControl(t)' \/ tasks'[t].status \in TerminalStatus
                \/ tasks'[t].lease_version > tasks[t].lease_version]_vars
  <2> SUFFICES ASSUME IInv, [Next]_vars, NEW t \in Tasks
               PROVE  /\ DueControl(t) =>
                           \/ DueControl(t)' \/ tasks'[t].status \in TerminalStatus
                           \/ ~ControlPending(t) /\ tasks'[t].status = "RUNNABLE"
                      /\ Claimable(t) =>
                           \/ Claimable(t)' \/ DueControl(t)' \/ tasks'[t].status \in TerminalStatus
                           \/ tasks'[t].lease_version > tasks[t].lease_version
    OBVIOUS
  <2> DEFINE row == tasks[t]
             new == tasks'[t]
             m == now'
             Due(r, n) ==
               /\ r.status \in LiveStatus
               /\ \/ r.cancel_requested \/ (r.deadline_at # NULL /\ r.deadline_at <= n)
                  \/ r.status = "RETRY_WAIT" /\ r.retry_at <= n
                  \/ r.status = "SCHEDULED" /\ r.run_at <= n
  <2>1. DueControl(t) <=> Due(row, now)
    BY DEF DueControl, Unfinished, ControlPending, CancelDue, DeadlinePassed, RetryDue, ScheduleDue
  <2>2. DueControl(t)' <=> Due(new, m)
    BY DEF DueControl, Unfinished, ControlPending, CancelDue, DeadlinePassed, RetryDue, ScheduleDue
  <2>3. ~InTime(row) <=> row.deadline_at # NULL /\ row.deadline_at <= now
    BY InTimeRow DEF DeadlinePassed
  <2>4. ControlPending(t) <=> row.cancel_requested \/ ~InTime(row)
    BY InTimeRow DEF ControlPending, CancelDue
  <2>5. now \in Nat /\ m \in {now, now + 1}
    BY NextClock
  <2>6. /\ row \in TaskRow /\ Clocks(row) /\ Ownership(row)
        /\ row.run_at \in Time /\ row.retry_at \in Time /\ row.deadline_at \in Time
        /\ row.lease_expires_at \in Time /\ row.lease_version \in Nat
    <3>1. row \in TaskRow /\ Clocks(row) /\ Ownership(row)
      BY TaskFacts DEF Coherent
    <3>. QED  BY <3>1 DEF TaskRow
  <2>7. CASE ~Transacts(t)
    <3>1. new = row
      BY <2>7, TaskStep
    <3> DEFINE Free(n) ==
                 /\ \/ row.status = "RUNNABLE" /\ row.run_at <= n
                    \/ row.status = "RUNNING" /\ row.lease_expires_at <= n
                 /\ ~row.cancel_requested
                 /\ ~(row.deadline_at # NULL /\ row.deadline_at <= n)
    <3>2. (Claimable(t) <=> Free(now)) /\ (Claimable(t)' <=> Free(m))
      BY <3>1 DEF Claimable, DeadlinePassed
    <3> HIDE DEF row, new, m
    <3>3. Due(row, now) => Due(new, m)
      BY <2>5, <2>6, <3>1 DEF Clocks, Time
    <3>4. Free(now) => Free(m) \/ Due(new, m)
      <4> SUFFICES ASSUME Free(now), ~(row.deadline_at # NULL /\ row.deadline_at <= m)
                   PROVE  Free(m)
        BY <3>1 DEF LiveStatus
      <4>1. CASE row.status = "RUNNABLE"
        BY <2>5, <2>6, <4>1 DEF Clocks, Time
      <4>2. CASE row.status = "RUNNING"
        BY <2>5, <2>6, <4>2 DEF Ownership, Time
      <4>. QED  BY <4>1, <4>2
    <3> HIDE DEF Due, Free
    <3>. QED  BY <2>1, <2>2, <3>2, <3>3, <3>4
  <2>8. CASE Transacts(t)
    <3>1. PICK log \in Seq(EventRow) : Effect(row, steps[t], new, steps'[t], log)
      BY <2>8 DEF Transacts
    <3>2. m = now
      BY <2>8 DEF Transacts, OnlyTask
    <3>3. /\ row.cancel_requested /\ row.status \in LiveStatus =>
               new.status \in TerminalStatus \/ (new.status \in LiveStatus /\ new.cancel_requested)
          /\ ~InTime(row) /\ row.status \in LiveStatus =>
               \/ new.status \in TerminalStatus
               \/ new.status \in LiveStatus /\ new.deadline_at = row.deadline_at
          /\ row.status \in {"RETRY_WAIT", "SCHEDULED"} =>
               new.status \in TerminalStatus \cup {"RUNNABLE"}
          /\ row.status = "RUNNABLE" =>
               new.status \in TerminalStatus \/ new.lease_version = row.lease_version + 1
          /\ row.status = "RUNNING" /\ row.lease_expires_at <= now =>
               \/ new.status \in TerminalStatus \/ new.lease_version = row.lease_version + 1
               \/ new.status = "RUNNING" /\ new.cancel_requested
      BY <2>5, <2>6, <3>1, EffectDue
    <3> HIDE DEF row, new, m
    <3>4. ASSUME Due(row, now)
          PROVE  \/ Due(new, m) \/ new.status \in TerminalStatus
                 \/ ~ControlPending(t) /\ new.status = "RUNNABLE"
      BY <2>3, <2>4, <3>2, <3>3, <3>4
    <3>5. ASSUME Claimable(t)
          PROVE  \/ Due(new, m) \/ new.status \in TerminalStatus
                 \/ new.lease_version > row.lease_version
      <4>1. row.status = "RUNNABLE" \/ (row.status = "RUNNING" /\ row.lease_expires_at <= now)
        BY <3>5 DEF Claimable, row
      <4>. QED  BY <2>6, <3>3, <4>1 DEF LiveStatus
    <3> HIDE DEF Due
    <3>. QED  BY <2>1, <2>2, <3>4, <3>5 DEF row, new
  <2>. QED  BY <2>7, <2>8
<1>. QED  BY <1>1, Invariance, PTL DEF Spec, DueUntilTaken

=============================================================================
