-------------------------- MODULE TaskStoreProofs --------------------------
(***************************************************************************)
(* Proofs about TaskStore for every set of tasks, workers and definitions. *)
(*                                                                         *)
(* Every action is a Commit on one task, so the argument is about the row  *)
(* and the steps that a transaction writes: TypeOK and Coherent, a         *)
(* predicate on one task's row and steps, are preserved by Commit whenever *)
(* what it writes has them (CommitPreserves), and each action writes only  *)
(* such values.                                                            *)
(***************************************************************************)
EXTENDS TaskStore, SequenceTheorems, TLAPS

Budgeted(st) == \A i \in DOMAIN st : st[i].max_attempts > 0

Coherent(row, st) ==
  /\ Ownership(row)
  /\ Clocks(row)
  /\ Cursor(row, st)
  /\ CanGoOn(row, st)
  /\ Budgeted(st)

IInv == TypeOK /\ \A t \in Tasks : Coherent(tasks[t], steps[t])

-----------------------------------------------------------------------------

\* What a transaction writes is all that the invariant depends on.
LEMMA CommitPreserves ==
  ASSUME IInv, NEW t \in Tasks, NEW row \in TaskRow, NEW st \in Seq(StepRow),
         NEW log \in Seq(EventRow), Coherent(row, st), Commit(t, row, st, log)
  PROVE  IInv'
<1>1. /\ tasks' \in [Tasks -> TaskRow]
      /\ steps' \in [Tasks -> Seq(StepRow)]
      /\ now' \in Nat
  BY DEF IInv, TypeOK, Commit
<1>2. events[t] \o log \in Seq(EventRow)
  BY DEF IInv, TypeOK
<1>3. events' \in [Tasks -> Seq(EventRow)]
  BY <1>2 DEF IInv, TypeOK, Commit
<1>4. ASSUME NEW u \in Tasks PROVE Coherent(tasks'[u], steps'[u])
  <2>1. CASE u = t
    BY <2>1 DEF IInv, TypeOK, Commit
  <2>2. CASE u # t
    <3>1. tasks'[u] = tasks[u] /\ steps'[u] = steps[u]
      BY <2>2 DEF IInv, TypeOK, Commit
    <3>. QED  BY <3>1 DEF IInv
  <2>. QED  BY <2>1, <2>2
<1>. QED  BY <1>1, <1>3, <1>4 DEF IInv, TypeOK

\* An event row has its type when its payload does.
LEMMA EventType ==
  ASSUME now \in Nat, NEW type \in EventTypes, NEW i \in Nat \cup {NULL},
         NEW n \in Nat \cup {NULL}, NEW w \in Workers \cup {NULL},
         NEW v \in Nat \cup {NULL}
  PROVE  Event(type, i, n, w, v) \in EventRow
BY DEF Event, EventRow

\* An event about a step, with its index and attempt, is a row of task_events.
LEMMA StepEventType ==
  ASSUME now \in Nat, NEW type \in EventTypes, NEW i \in Nat \cup {NULL},
         NEW n \in Nat \cup {NULL}
  PROVE  StepEvent(type, i, n) \in EventRow
BY DEF StepEvent, Event, EventRow

\* An event about a lease, with its worker and version, is a row of task_events.
LEMMA LeaseEventType ==
  ASSUME now \in Nat, NEW type \in EventTypes, NEW w \in Workers \cup {NULL},
         NEW v \in Nat \cup {NULL}
  PROVE  LeaseEvent(type, w, v) \in EventRow
BY DEF LeaseEvent, Event, EventRow

\* An event without a payload is a row of task_events.
LEMMA TaskEventType ==
  ASSUME now \in Nat, NEW type \in EventTypes
  PROVE  TaskEvent(type) \in EventRow
BY DEF TaskEvent, Event, EventRow

\* A transaction logs one event, then none, one or more.
LEMMA LogType ==
  ASSUME NEW a \in EventRow, NEW b \in EventRow, NEW c \in EventRow, NEW d \in EventRow
  PROVE  /\ <<a>> \in Seq(EventRow) /\ <<a, b>> \in Seq(EventRow)
         /\ <<a>> \o <<>> \in Seq(EventRow) /\ <<a>> \o <<b>> \in Seq(EventRow)
         /\ <<>> \o <<a>> \in Seq(EventRow)
         /\ <<a>> \o <<>> \o <<b, c>> \in Seq(EventRow)
         /\ <<a>> \o <<b>> \o <<c, d>> \in Seq(EventRow)
OBVIOUS

\* The empty tables satisfy the invariant.
LEMMA InitIInv == Init => IInv
<1> SUFFICES ASSUME Init PROVE IInv
  OBVIOUS
<1>1. NoTask \in TaskRow
  BY DEF NoTask, TaskRow, Time
<1>2. TypeOK
  BY <1>1 DEF Init, TypeOK
<1>3. ASSUME NEW t \in Tasks PROVE Coherent(tasks[t], steps[t])
  <2>1. tasks[t] = NoTask /\ steps[t] = <<>>
    BY DEF Init
  <2>2. Coherent(NoTask, <<>>)
    BY NullAssumption DEF NoTask, Coherent, Ownership, Clocks, Cursor, CanGoOn, Budgeted, LiveStatus
  <2>. QED  BY <2>1, <2>2
<1>. QED  BY <1>2, <1>3 DEF IInv

-----------------------------------------------------------------------------
(* Writing one step of a task. *)

\* Writing one step row leaves the sequence of steps its type, length and domain.
LEMMA StepUpdate ==
  ASSUME NEW st \in Seq(StepRow), NEW i \in DOMAIN st, NEW s \in StepRow
  PROVE  /\ [st EXCEPT ![i] = s] \in Seq(StepRow)
         /\ Len([st EXCEPT ![i] = s]) = Len(st)
         /\ DOMAIN [st EXCEPT ![i] = s] = DOMAIN st
         /\ [st EXCEPT ![i] = s][i] = s
         /\ \A j \in DOMAIN st : j # i => [st EXCEPT ![i] = s][j] = st[j]
BY ExceptSeq

\* The current step changes and the cursor stays.
LEMMA CoherentStay ==
  ASSUME NEW row \in TaskRow, NEW st \in Seq(StepRow), Coherent(row, st),
         row.status \in LiveStatus,
         NEW new \in TaskRow, Ownership(new), Clocks(new),
         new.current_step = row.current_step,
         new.status \notin {"NONE", "SUCCEEDED"},
         NEW s \in StepRow, s.max_attempts = st[row.current_step].max_attempts,
         new.status \in LiveStatus => Fits(s, new.status)
  PROVE  /\ [st EXCEPT ![row.current_step] = s] \in Seq(StepRow)
         /\ Coherent(new, [st EXCEPT ![row.current_step] = s])
<1> DEFINE i == row.current_step
           st2 == [st EXCEPT ![i] = s]
<1>0. i \in DOMAIN st
  BY DEF Coherent, CanGoOn
<1>1. i \in DOMAIN st /\ i \in 1..Len(st) /\ i \in Nat
  BY <1>0
<1>2. /\ st2 \in Seq(StepRow) /\ Len(st2) = Len(st) /\ DOMAIN st2 = DOMAIN st
      /\ st2[i] = s /\ \A j \in DOMAIN st : j # i => st2[j] = st[j]
  BY <1>1, StepUpdate
<1> HIDE DEF st2
<1>3. Cursor(new, st2)
  BY <1>1, <1>2 DEF Coherent, Cursor
<1>4. CanGoOn(new, st2)
  BY <1>1, <1>2 DEF CanGoOn
<1>5. Budgeted(st2)
  BY <1>1, <1>2 DEF Coherent, Budgeted
<1>6. st2 \in Seq(StepRow) /\ Coherent(new, st2)
  BY <1>2, <1>3, <1>4, <1>5 DEF Coherent
<1>. QED  BY <1>6 DEF st2

\* The current step succeeds and the cursor moves to the next step, if any.
LEMMA CoherentAdvance ==
  ASSUME NEW row \in TaskRow, NEW st \in Seq(StepRow), Coherent(row, st),
         row.status \in LiveStatus,
         NEW new \in TaskRow, Ownership(new), Clocks(new),
         new.current_step = row.current_step + 1,
         new.status \in {"RUNNING", "RUNNABLE", "SUCCEEDED"},
         new.status = "SUCCEEDED" <=> row.current_step = Len(st),
         NEW s \in StepRow, s.max_attempts = st[row.current_step].max_attempts,
         s.status = "SUCCEEDED"
  PROVE  /\ [st EXCEPT ![row.current_step] = s] \in Seq(StepRow)
         /\ Coherent(new, [st EXCEPT ![row.current_step] = s])
<1> DEFINE i == row.current_step
           st2 == [st EXCEPT ![i] = s]
<1>0. i \in DOMAIN st
  BY DEF Coherent, CanGoOn
<1>1. i \in DOMAIN st /\ i \in 1..Len(st) /\ i \in Nat /\ Len(st) \in Nat
  BY <1>0
<1>2. /\ st2 \in Seq(StepRow) /\ Len(st2) = Len(st) /\ DOMAIN st2 = DOMAIN st
      /\ st2[i] = s /\ \A j \in DOMAIN st : j # i => st2[j] = st[j]
  BY <1>1, StepUpdate
<1> HIDE DEF st2
<1>3. Cursor(new, st2)
  BY <1>1, <1>2 DEF Coherent, Cursor
<1>4. Budgeted(st2)
  BY <1>1, <1>2 DEF Coherent, Budgeted
<1>5. CanGoOn(new, st2)
  <2>1. CASE i = Len(st)
    BY <2>1 DEF CanGoOn, LiveStatus
  <2>2. CASE i # Len(st)
    <3>1. i + 1 \in DOMAIN st2 /\ i + 1 > i /\ st2[i + 1] = st[i + 1]
      BY <1>1, <1>2, <2>2
    <3>2. Untouched(st2[i + 1]) /\ st2[i + 1].max_attempts > 0
      BY <1>2, <1>4, <3>1 DEF Coherent, Cursor, Budgeted
    <3>. QED  BY <3>1, <3>2, <2>2 DEF CanGoOn, Fits, Untouched, Startable
  <2>. QED  BY <2>1, <2>2
<1>6. st2 \in Seq(StepRow) /\ Coherent(new, st2)
  BY <1>2, <1>3, <1>4, <1>5 DEF Coherent
<1>. QED  BY <1>6 DEF st2

\* Only the task's row changes, and its step still suits it.
LEMMA CoherentRow ==
  ASSUME NEW row \in TaskRow, NEW st \in Seq(StepRow), Coherent(row, st),
         row.status \in LiveStatus,
         NEW new \in TaskRow, Ownership(new), Clocks(new),
         new.current_step = row.current_step,
         new.status \in LiveStatus,
         Fits(st[row.current_step], row.status) => Fits(st[row.current_step], new.status)
  PROVE  Coherent(new, st)
<1>1. row.current_step \in DOMAIN st /\ Fits(st[row.current_step], row.status)
  BY DEF Coherent, CanGoOn
<1>2. Cursor(new, st)
  BY <1>1 DEF Coherent, Cursor, LiveStatus
<1>. QED  BY <1>1, <1>2 DEF Coherent, CanGoOn

-----------------------------------------------------------------------------
(* Writing the row of a task. *)

\* The columns of a task row, one by one.
LEMMA RowFields ==
  ASSUME NEW row \in TaskRow
  PROVE  /\ row.status \in LiveStatus \cup TerminalStatus \cup {"NONE"}
         /\ row.worker_id \in Workers \cup {NULL}
         /\ row.lease_version \in Nat
         /\ row.retry_at \in Time /\ row.deadline_at \in Time
         /\ row.lease_expires_at \in Time
         /\ row.cancel_requested \in BOOLEAN
         /\ row.current_step \in Nat /\ row.current_step # 0
         /\ row.checkpoint \in Outputs \cup {"{}"}
         /\ row.task_timeout_seconds \in Nat
BY DEF TaskRow, Time

\* new is row without its owner, in this status and at this step.
IsReleased(new, row, status, at, i) ==
  /\ new \in TaskRow
  /\ new.status = status /\ new.worker_id = NULL /\ new.lease_expires_at = NULL
  /\ new.retry_at = at /\ new.current_step = i /\ new.run_at = row.run_at
  /\ new.lease_version = row.lease_version /\ new.deadline_at = row.deadline_at
  /\ new.cancel_requested = row.cancel_requested

\* A row that gives up its lease is still a task row.
LEMMA ReleasedRow ==
  ASSUME NEW row \in TaskRow, NEW status \in LiveStatus \cup TerminalStatus
  PROVE  IsReleased(Released(row, status), row, status, row.retry_at, row.current_step)
BY DEF IsReleased, Released, TaskRow, Time

\* So it is when the retry time is written too, as FinishStep and finishControlledTask do.
LEMMA ReleasedRetry ==
  ASSUME NEW row \in TaskRow, NEW status \in LiveStatus \cup TerminalStatus, NEW at \in Time
  PROVE  IsReleased([Released(row, status) EXCEPT !.retry_at = at], row, status, at,
                    row.current_step)
BY DEF IsReleased, Released, TaskRow, Time

\* So it is when the cursor moves as well, as after a success or an approval.
LEMMA ReleasedAdvance ==
  ASSUME NEW row \in TaskRow, NEW status \in LiveStatus \cup TerminalStatus, NEW i \in Nat \ {0}
  PROVE  IsReleased([Released(row, status) EXCEPT !.current_step = i, !.retry_at = NULL], row,
                    status, NULL, i)
BY DEF IsReleased, Released, TaskRow, Time

\* Such a row is in order when its status is one that has no owner.
LEMMA ReleasedClocks ==
  ASSUME NEW row \in TaskRow, Clocks(row), row.status # "NONE", NEW status,
         status \notin {"NONE", "RUNNING"},
         NEW at, NEW i, NEW new, IsReleased(new, row, status, at, i),
         at # NULL <=> status = "RETRY_WAIT",
         status \in {"RETRY_WAIT", "WAITING_APPROVAL"} => row.lease_version > 0,
         row.cancel_requested => status = "CANCELLED"
  PROVE  Ownership(new) /\ Clocks(new)
BY DEF IsReleased, Ownership, Clocks

\* The columns of a step row, one by one.
LEMMA StepFields ==
  ASSUME NEW step \in StepRow
  PROVE  /\ step.attempt \in Nat /\ step.max_attempts \in Nat
         /\ step.type \in ExecutorTypes \cup {"approval"}
         /\ step.resolved_input \in Value \cup {NULL} /\ step.output \in Outputs \cup {NULL}
         /\ step.status \in StepStatus
BY DEF StepRow

-----------------------------------------------------------------------------
(* The actions. *)

\* What the invariant says of one task.
LEMMA TaskFacts ==
  ASSUME IInv, NEW t \in Tasks
  PROVE  /\ tasks[t] \in TaskRow /\ steps[t] \in Seq(StepRow) /\ now \in Nat
         /\ Coherent(tasks[t], steps[t])
         /\ tasks[t].status \in LiveStatus =>
              /\ tasks[t].current_step \in DOMAIN steps[t]
              /\ CurrentStep(t) \in StepRow
              /\ Fits(CurrentStep(t), tasks[t].status)
<1>1. /\ tasks[t] \in TaskRow /\ steps[t] \in Seq(StepRow) /\ now \in Nat
      /\ Coherent(tasks[t], steps[t])
  BY DEF IInv, TypeOK
<1>2. ASSUME tasks[t].status \in LiveStatus
      PROVE  /\ tasks[t].current_step \in DOMAIN steps[t]
             /\ Fits(CurrentStep(t), tasks[t].status)
  BY <1>1, <1>2 DEF Coherent, CanGoOn, CurrentStep
<1>3. ASSUME tasks[t].status \in LiveStatus PROVE CurrentStep(t) \in StepRow
  BY <1>1, <1>2, <1>3 DEF CurrentStep
<1>. QED  BY <1>1, <1>2, <1>3

\* CreateTask: a new task starts at its first step, untouched and unowned.
LEMMA CreatePreserves ==
  ASSUME IInv, NEW t \in Tasks, NEW d \in Definitions, CreateTask(t, d)
  PROVE  IInv'
<1> DEFINE scheduled == d.run_at # NULL /\ d.run_at > now
           row == [NoTask EXCEPT !.status = IF scheduled THEN "SCHEDULED" ELSE "RUNNABLE",
                                 !.run_at = IF d.run_at = NULL THEN now ELSE d.run_at,
                                 !.task_timeout_seconds = d.task_timeout_seconds]
           st == [i \in DOMAIN d.steps |-> NewStep(d.steps[i])]
           log == <<TaskEvent("TASK_CREATED")>> \o
                    IF scheduled THEN <<TaskEvent("TASK_SCHEDULED")>> ELSE <<>>
<1>1. Commit(t, row, st, log)
  BY DEF CreateTask
<1>2. now \in Nat
  BY TaskFacts
<1>3. row \in TaskRow
  <2>1. d.run_at \in Time /\ d.task_timeout_seconds \in Nat
    BY DefinitionsAssumption DEF Time
  <2>2. (IF d.run_at = NULL THEN now ELSE d.run_at) \in Time
    BY <1>2, <2>1 DEF Time
  <2>3. (IF scheduled THEN "SCHEDULED" ELSE "RUNNABLE") \in LiveStatus
    BY DEF LiveStatus
  <2>4. NoTask \in TaskRow
    BY DEF NoTask, TaskRow, Time
  <2> HIDE DEF scheduled
  <2>. QED  BY <2>1, <2>2, <2>3, <2>4 DEF TaskRow
<1> DEFINE ds == d.steps
           n == Len(ds)
<1>4. /\ ds \in Seq(StepDefinition) /\ n > 0
      /\ \A i \in DOMAIN ds : ds[i].max_attempts > 0
  BY DefinitionsAssumption DEF CreateTask, validateDefinition
<1>5. st = [i \in DOMAIN ds |-> NewStep(ds[i])]
  OBVIOUS
<1> HIDE DEF ds, st
<1>6. n \in Nat /\ n >= 1 /\ DOMAIN ds = 1..n
  BY <1>4
<1>7. ASSUME NEW i \in 1..n PROVE NewStep(ds[i]) \in StepRow
  <2>1. ds[i] \in StepDefinition
    BY <1>4
  <2>. QED  BY <2>1 DEF NewStep, StepRow, StepStatus, StepDefinition
<1>8. st \in Seq(StepRow) /\ Len(st) = n /\ DOMAIN st = 1..n
  <2>1. st \in [1..n -> StepRow]
    BY <1>5, <1>6, <1>7
  <2>. QED  BY <1>6, <2>1
<1>9. \A i \in DOMAIN st : Untouched(st[i]) /\ st[i].max_attempts > 0
  BY <1>4, <1>5, <1>6, <1>8 DEF NewStep, Untouched
<1>10. log \in Seq(EventRow)
  <2>1. TaskEvent("TASK_CREATED") \in EventRow /\ TaskEvent("TASK_SCHEDULED") \in EventRow
    BY <1>2, TaskEventType DEF EventTypes
  <2>. QED  BY <2>1, LogType
<1>11. /\ row.status \in {"SCHEDULED", "RUNNABLE"} /\ row.current_step = 1 /\ row.run_at # NULL
       /\ row.worker_id = NULL /\ row.lease_expires_at = NULL /\ row.lease_version = 0
       /\ row.retry_at = NULL /\ row.deadline_at = NULL /\ row.cancel_requested = FALSE
  BY <1>2, NullAssumption DEF NoTask
<1> HIDE DEF row, log
<1>12. Ownership(row) /\ Clocks(row)
  BY <1>11 DEF Ownership, Clocks
<1>13. 1 \in DOMAIN st
  BY <1>6, <1>8
<1>14. Cursor(row, st)
  BY <1>6, <1>8, <1>9, <1>11 DEF Cursor
<1>15. CanGoOn(row, st) /\ Budgeted(st)
  BY <1>9, <1>11, <1>13 DEF CanGoOn, Budgeted, Fits, Startable, Untouched
<1>. QED  BY <1>1, <1>3, <1>8, <1>10, <1>12, <1>14, <1>15, CommitPreserves DEF Coherent

\* What a claim writes to the row.
LEMMA LeasedRow ==
  ASSUME IInv, NEW t \in Tasks, NEW w \in Workers, Claimable(t)
  PROVE  /\ Leased(tasks[t], w) \in TaskRow
         /\ Ownership(Leased(tasks[t], w)) /\ Clocks(Leased(tasks[t], w))
         /\ Leased(tasks[t], w).current_step = tasks[t].current_step
         /\ Leased(tasks[t], w).status = "RUNNING"
         /\ tasks[t].status \in LiveStatus
<1> DEFINE row == tasks[t]
           v == row.lease_version + 1
           expiry == now + LeaseDuration
           deadline == IF row.deadline_at = NULL THEN now + row.task_timeout_seconds
                                                 ELSE row.deadline_at
           new == [row EXCEPT !.status = "RUNNING", !.worker_id = w, !.lease_version = v,
                              !.lease_expires_at = expiry, !.deadline_at = deadline]
<1>1. row \in TaskRow /\ now \in Nat /\ Clocks(row)
  BY TaskFacts DEF Coherent
<1>2. row.status \in {"RUNNABLE", "RUNNING"} /\ row.cancel_requested = FALSE
  BY <1>1, RowFields DEF Claimable
<1>3. row.lease_version \in Nat /\ row.task_timeout_seconds \in Nat /\ row.deadline_at \in Time
  BY <1>1, RowFields
<1>4. /\ v \in Nat /\ v > 0
      /\ expiry \in Nat /\ expiry # NULL
      /\ deadline \in Time /\ deadline # NULL
  <2>1. v \in Nat /\ v > 0
    BY <1>3
  <2>2. expiry \in Nat /\ expiry # NULL
    BY <1>1, LeaseAssumption, NullAssumption
  <2>3. now + row.task_timeout_seconds \in Nat
    BY <1>1, <1>3
  <2>4. deadline \in Time /\ deadline # NULL
    BY <1>3, <2>3, NullAssumption DEF Time
  <2>. QED  BY <2>1, <2>2, <2>4
<1>5. Leased(row, w) = new
  BY DEF Leased
<1> HIDE DEF v, expiry, deadline
<1>6. new \in TaskRow
  BY <1>1, <1>4 DEF TaskRow, Time, LiveStatus
<1>7. /\ new.status = "RUNNING" /\ new.worker_id = w /\ new.lease_version = v
      /\ new.lease_expires_at = expiry /\ new.deadline_at = deadline
      /\ new.current_step = row.current_step /\ new.retry_at = row.retry_at
      /\ new.run_at = row.run_at /\ new.cancel_requested = row.cancel_requested
  BY <1>1 DEF TaskRow
<1> HIDE DEF new
<1>8. Ownership(new)
  BY <1>4, <1>7, NullAssumption DEF Ownership
<1>9. Clocks(new)
  BY <1>1, <1>2, <1>4, <1>7 DEF Clocks
<1>. QED  BY <1>2, <1>5, <1>6, <1>7, <1>8, <1>9 DEF LiveStatus

\* ClaimTask on a RUNNABLE row: the step that could be started still can.
LEMMA ClaimRunnablePreserves ==
  ASSUME IInv, NEW t \in Tasks, NEW w \in Workers, ClaimRunnable(w, t)
  PROVE  IInv'
<1> DEFINE row == Leased(tasks[t], w)
           log == <<LeaseEvent("TASK_CLAIMED", w, tasks[t].lease_version + 1)>>
<1>1. Claimable(t) /\ tasks[t].status = "RUNNABLE" /\ Commit(t, row, steps[t], log)
  BY DEF ClaimRunnable
<1>2. /\ row \in TaskRow /\ Ownership(row) /\ Clocks(row)
      /\ row.current_step = tasks[t].current_step /\ row.status = "RUNNING"
  BY <1>1, LeasedRow
<1>3. tasks[t].lease_version \in Nat /\ now \in Nat
  BY TaskFacts, RowFields
<1>4. log \in Seq(EventRow)
  <2>1. tasks[t].lease_version + 1 \in Nat
    BY <1>3
  <2>2. LeaseEvent("TASK_CLAIMED", w, tasks[t].lease_version + 1) \in EventRow
    BY <1>3, <2>1, LeaseEventType DEF EventTypes
  <2>. QED  BY <2>2, LogType
<1>5. Coherent(row, steps[t])
  <2> HIDE DEF row
  <2>. QED  BY <1>1, <1>2, TaskFacts, CoherentRow DEF LiveStatus, Fits
<1>. QED  BY <1>1, <1>2, <1>4, <1>5, TaskFacts, CommitPreserves

\* What recoverExpiredTask finds: a row that is RUNNING, and the events it logs.
LEMMA RecoveryFacts ==
  ASSUME IInv, NEW t \in Tasks, tasks[t].status = "RUNNING"
  PROVE  /\ HasCurrentStep(t)
         /\ RecoveryEvents(t) \in Seq(EventRow)
         /\ Event("TASK_FAILED", tasks[t].current_step, CurrentStep(t).attempt,
                  tasks[t].worker_id, tasks[t].lease_version) \in EventRow
<1>1. /\ tasks[t] \in TaskRow /\ CurrentStep(t) \in StepRow /\ now \in Nat
      /\ tasks[t].current_step \in DOMAIN steps[t]
  BY TaskFacts DEF LiveStatus
<1>2. /\ tasks[t].worker_id \in Workers \cup {NULL} /\ tasks[t].lease_version \in Nat
      /\ tasks[t].current_step \in Nat /\ CurrentStep(t).attempt \in Nat
  BY <1>1, RowFields, StepFields
<1>3. LeaseEvent("LEASE_EXPIRED", tasks[t].worker_id, tasks[t].lease_version) \in EventRow
  BY <1>1, <1>2, LeaseEventType DEF EventTypes
<1>4. /\ Event("STEP_FAILED", tasks[t].current_step, CurrentStep(t).attempt,
               tasks[t].worker_id, tasks[t].lease_version) \in EventRow
      /\ Event("TASK_FAILED", tasks[t].current_step, CurrentStep(t).attempt,
               tasks[t].worker_id, tasks[t].lease_version) \in EventRow
  BY <1>1, <1>2, EventType DEF EventTypes
<1>. QED  BY <1>1, <1>3, <1>4, LogType DEF RecoveryEvents, HasCurrentStep

\* The step whose owner was lost, when it was running.
LEMMA AbandonedStep ==
  ASSUME IInv, NEW t \in Tasks, tasks[t].status = "RUNNING", Abandoned(t)
  PROVE  LET s == [CurrentStep(t) EXCEPT !.status = "FAILED", !.error = "worker_lost"]
         IN  /\ s \in StepRow
             /\ s.max_attempts = CurrentStep(t).max_attempts
             /\ AbandonedSteps(t) = [steps[t] EXCEPT ![tasks[t].current_step] = s]
             /\ ~RecoveryExhausted(t) => Fits(s, "RUNNING")
<1> DEFINE s == [CurrentStep(t) EXCEPT !.status = "FAILED", !.error = "worker_lost"]
<1>1. /\ CurrentStep(t) \in StepRow /\ Fits(CurrentStep(t), "RUNNING")
      /\ CurrentStep(t).status = "RUNNING"
  BY TaskFacts DEF LiveStatus, Abandoned
<1>2. s \in StepRow
  BY <1>1 DEF StepRow, StepStatus, Errors
<1>3. /\ s.max_attempts = CurrentStep(t).max_attempts /\ s.attempt = CurrentStep(t).attempt
      /\ s.status = "FAILED" /\ s.type = CurrentStep(t).type
      /\ s.approval_decision = CurrentStep(t).approval_decision
  BY <1>1 DEF StepRow
<1>4. AbandonedSteps(t) = [steps[t] EXCEPT ![tasks[t].current_step] = s]
  BY DEF AbandonedSteps, CurrentStep
<1>5. CurrentStep(t).attempt \in Nat /\ CurrentStep(t).max_attempts \in Nat
  BY <1>1, StepFields
<1> HIDE DEF s
<1>6. ASSUME ~RecoveryExhausted(t) PROVE Fits(s, "RUNNING")
  <2>1. CurrentStep(t).attempt < CurrentStep(t).max_attempts
    BY <1>5, <1>6 DEF RecoveryExhausted
  <2>2. CurrentStep(t).type # "approval" /\ CurrentStep(t).approval_decision = NULL
    BY <1>1 DEF Fits, Startable, InFlight
  <2>. QED  BY <1>3, <2>1, <2>2 DEF Fits, Startable
<1>. QED  BY <1>2, <1>3, <1>4, <1>6 DEF s

\* ClaimTask on an expired row: the attempt that was lost leaves budget for another.
LEMMA ClaimExpiredPreserves ==
  ASSUME IInv, NEW t \in Tasks, NEW w \in Workers, ClaimExpired(w, t)
  PROVE  IInv'
<1> DEFINE row == Leased(tasks[t], w)
           v == tasks[t].lease_version + 1
           log == RecoveryEvents(t) \o <<LeaseEvent("TASK_RECOVERED", w, v),
                                         LeaseEvent("TASK_CLAIMED", w, v)>>
<1>1. /\ Claimable(t) /\ tasks[t].status = "RUNNING" /\ ~RecoveryExhausted(t)
      /\ Commit(t, row, AbandonedSteps(t), log)
  BY DEF ClaimExpired
<1>2. /\ row \in TaskRow /\ Ownership(row) /\ Clocks(row)
      /\ row.current_step = tasks[t].current_step /\ row.status = "RUNNING"
  BY <1>1, LeasedRow
<1>3. /\ tasks[t] \in TaskRow /\ steps[t] \in Seq(StepRow) /\ now \in Nat
      /\ Coherent(tasks[t], steps[t])
  BY TaskFacts
<1>4. log \in Seq(EventRow)
  <2>1. tasks[t].lease_version \in Nat
    BY <1>3, RowFields
  <2>2. v \in Nat
    BY <2>1
  <2> HIDE DEF v
  <2>3. LeaseEvent("TASK_RECOVERED", w, v) \in EventRow /\ LeaseEvent("TASK_CLAIMED", w, v) \in EventRow
    BY <1>3, <2>2, LeaseEventType DEF EventTypes
  <2>4. RecoveryEvents(t) \in Seq(EventRow)
    BY <1>1, RecoveryFacts
  <2>. QED  BY <2>3, <2>4
<1> HIDE DEF row, log
<1>5. AbandonedSteps(t) \in Seq(StepRow) /\ Coherent(row, AbandonedSteps(t))
  <2>1. CASE Abandoned(t)
    <3> DEFINE s == [CurrentStep(t) EXCEPT !.status = "FAILED", !.error = "worker_lost"]
    <3>1. /\ s \in StepRow /\ s.max_attempts = CurrentStep(t).max_attempts
          /\ AbandonedSteps(t) = [steps[t] EXCEPT ![tasks[t].current_step] = s]
          /\ Fits(s, "RUNNING")
      BY <1>1, <2>1, AbandonedStep
    <3> HIDE DEF s
    <3>. QED  BY <1>1, <1>2, <1>3, <3>1, CoherentStay DEF CurrentStep, LiveStatus
  <2>2. CASE ~Abandoned(t)
    <3>1. AbandonedSteps(t) = steps[t]
      BY <2>2 DEF AbandonedSteps
    <3>. QED  BY <1>1, <1>2, <1>3, <3>1, CoherentRow DEF LiveStatus
  <2>. QED  BY <2>1, <2>2
<1>. QED  BY <1>1, <1>2, <1>4, <1>5, CommitPreserves

\* recoverExpiredTask with the budget spent: the task ends as FAILED.
LEMMA ConvergePreserves ==
  ASSUME IInv, NEW t \in Tasks, ConvergeExpired(t)
  PROVE  IInv'
<1> DEFINE row == Released(tasks[t], "FAILED")
           log == RecoveryEvents(t) \o
                    <<Event("TASK_FAILED", tasks[t].current_step, CurrentStep(t).attempt,
                            tasks[t].worker_id, tasks[t].lease_version)>>
           s == [CurrentStep(t) EXCEPT !.status = "FAILED", !.error = "worker_lost"]
<1>1. Claimable(t) /\ tasks[t].status = "RUNNING"
  BY DEF ConvergeExpired
<1>2. HasCurrentStep(t)
  BY <1>1, RecoveryFacts
<1>3. Abandoned(t) /\ Commit(t, row, AbandonedSteps(t), log)
  BY <1>2 DEF ConvergeExpired, RecoveryExhausted
<1>4. /\ tasks[t] \in TaskRow /\ steps[t] \in Seq(StepRow) /\ Coherent(tasks[t], steps[t])
      /\ tasks[t].current_step \in Nat \ {0}
  BY TaskFacts, RowFields
<1>5. tasks[t].retry_at = NULL
  BY <1>1, <1>4 DEF Coherent, Clocks
<1>6. IsReleased(row, tasks[t], "FAILED", NULL, tasks[t].current_step)
  BY <1>4, <1>5, ReleasedRow DEF TerminalStatus
<1>7. log \in Seq(EventRow)
  BY <1>1, RecoveryFacts
<1> HIDE DEF row, log
<1>8. Ownership(row) /\ Clocks(row)
  BY <1>1, <1>4, <1>6, ReleasedClocks DEF Coherent, Claimable
<1>9. /\ s \in StepRow /\ s.max_attempts = CurrentStep(t).max_attempts
      /\ AbandonedSteps(t) = [steps[t] EXCEPT ![tasks[t].current_step] = s]
  BY <1>1, <1>3, AbandonedStep
<1> HIDE DEF s
<1>10. AbandonedSteps(t) \in Seq(StepRow) /\ Coherent(row, AbandonedSteps(t))
  BY <1>1, <1>4, <1>6, <1>8, <1>9, CoherentStay DEF CurrentStep, LiveStatus, IsReleased
<1>. QED  BY <1>3, <1>6, <1>7, <1>10, CommitPreserves DEF IsReleased

\* A call that is not refused comes from the task's owner.
LEMMA OwnerFacts ==
  ASSUME NEW lease, validateOwnership(lease) = "nil"
  PROVE  /\ tasks[lease.task].status = "RUNNING"
         /\ ~tasks[lease.task].cancel_requested
         /\ lease.worker = tasks[lease.task].worker_id
         /\ lease.version = tasks[lease.task].lease_version
<1>1. ownsActiveLease(lease) /\ ~tasks[lease.task].cancel_requested
  BY DEF validateOwnership
<1>. QED  BY <1>1 DEF ownsActiveLease

\* RenewLease only moves the expiry of the lease.
LEMMA RenewPreserves ==
  ASSUME IInv, NEW lease, lease.task \in Tasks, RenewLease(lease)
  PROVE  IInv'
<1> DEFINE t == lease.task
           expiry == now + LeaseDuration
           row == [tasks[t] EXCEPT !.lease_expires_at = expiry]
<1>1. tasks[t].status = "RUNNING" /\ Commit(t, row, steps[t], <<>>)
  BY OwnerFacts DEF RenewLease
<1>2. /\ tasks[t] \in TaskRow /\ steps[t] \in Seq(StepRow) /\ now \in Nat
      /\ Coherent(tasks[t], steps[t])
  BY TaskFacts
<1>3. expiry \in Nat /\ expiry # NULL
  BY <1>2, LeaseAssumption, NullAssumption
<1> HIDE DEF expiry
<1>4. row \in TaskRow
  BY <1>2, <1>3 DEF TaskRow, Time
<1>5. /\ row.status = tasks[t].status /\ row.worker_id = tasks[t].worker_id
      /\ row.lease_expires_at = expiry /\ row.current_step = tasks[t].current_step
      /\ row.run_at = tasks[t].run_at /\ row.retry_at = tasks[t].retry_at
      /\ row.deadline_at = tasks[t].deadline_at /\ row.lease_version = tasks[t].lease_version
      /\ row.cancel_requested = tasks[t].cancel_requested
  BY <1>2 DEF TaskRow
<1> HIDE DEF row
<1>6. Ownership(row) /\ Clocks(row)
  BY <1>1, <1>2, <1>3, <1>5 DEF Coherent, Ownership, Clocks
<1>7. Coherent(row, steps[t])
  BY <1>1, <1>2, <1>4, <1>5, <1>6, CoherentRow DEF LiveStatus
<1>8. <<>> \in Seq(EventRow)
  OBVIOUS
<1>. QED  BY <1>1, <1>2, <1>4, <1>7, <1>8, CommitPreserves

\* A resolved input is a JSON value, or the error NULL.
LEMMA ResolveType ==
  ASSUME IInv, NEW t \in Tasks, tasks[t].current_step \in DOMAIN steps[t],
         ResolveInput(t, tasks[t].current_step) # NULL
  PROVE  ResolveInput(t, tasks[t].current_step) \in Value
<1> DEFINE i == tasks[t].current_step
<1>1. tasks[t] \in TaskRow /\ steps[t] \in Seq(StepRow)
  BY TaskFacts
<1>2. steps[t][i] \in StepRow
  BY <1>1
<1>3. i \in Nat /\ tasks[t].checkpoint \in Value
  BY <1>1, RowFields DEF Value
<1>4. steps[t][i].resolved_input \in Value \cup {NULL}
  BY <1>2, StepFields
<1>5. ASSUME i > 1 PROVE steps[t][i - 1].output \in Value \cup {NULL}
  <2>1. i \in 1..Len(steps[t]) /\ Len(steps[t]) \in Nat
    BY <1>1
  <2>2. i - 1 \in 1..Len(steps[t])
    BY <1>3, <1>5, <2>1
  <2>3. steps[t][i - 1] \in StepRow
    BY <1>1, <2>2
  <2>. QED  BY <2>3, StepFields DEF Value
<1>6. "literal" \in Value
  BY DEF Value
<1>. QED  BY <1>3, <1>4, <1>5, <1>6 DEF ResolveInput, resolveValue

\* StartStep: the attempt that starts is within the budget.
LEMMA StartPreserves ==
  ASSUME IInv, NEW lease, lease.task \in Tasks, NEW i \in DOMAIN steps[lease.task],
         StartStep(lease, i)
  PROVE  IInv'
<1> DEFINE t == lease.task
           input == ResolveInput(t, i)
           s == Started(steps[t][i], input)
           log == <<Event("STEP_STARTED", i, steps[t][i].attempt + 1, lease.worker, lease.version)>>
<1>1. /\ tasks[t].status = "RUNNING" /\ i = tasks[t].current_step
      /\ lease.worker = tasks[t].worker_id /\ lease.version = tasks[t].lease_version
  BY OwnerFacts DEF StartStep, StartAllowed
<1>2. /\ steps[t][i].type # "approval" /\ steps[t][i].attempt < steps[t][i].max_attempts
      /\ input # NULL
      /\ Commit(t, tasks[t], [steps[t] EXCEPT ![i] = s], log)
  BY DEF StartStep, StartAllowed
<1>3. /\ tasks[t] \in TaskRow /\ steps[t] \in Seq(StepRow) /\ now \in Nat
      /\ Coherent(tasks[t], steps[t]) /\ steps[t][i] \in StepRow
      /\ Fits(steps[t][i], "RUNNING")
  BY <1>1, TaskFacts DEF LiveStatus, CurrentStep
<1>4. /\ steps[t][i].attempt \in Nat /\ steps[t][i].max_attempts \in Nat
      /\ steps[t][i].type \in ExecutorTypes \cup {"approval"}
  BY <1>3, StepFields
<1> DEFINE n == steps[t][i].attempt + 1
<1>5. n \in Nat /\ n \in 1..steps[t][i].max_attempts
  BY <1>2, <1>4
<1>6. input \in Value
  BY <1>1, <1>2, ResolveType
<1>7. s = [steps[t][i] EXCEPT !.status = "RUNNING", !.attempt = n, !.resolved_input = input,
                              !.error = NULL]
  BY DEF Started
<1> HIDE DEF n, input
<1>8. s \in StepRow
  BY <1>3, <1>5, <1>6, <1>7 DEF StepRow, StepStatus
<1>9. /\ s.status = "RUNNING" /\ s.attempt = n /\ s.type = steps[t][i].type
      /\ s.max_attempts = steps[t][i].max_attempts
      /\ s.approval_decision = steps[t][i].approval_decision
  BY <1>3, <1>7 DEF StepRow
<1> HIDE DEF s
<1>10. Fits(s, "RUNNING")
  BY <1>2, <1>3, <1>4, <1>5, <1>9 DEF Fits, InFlight
<1>11. /\ [steps[t] EXCEPT ![i] = s] \in Seq(StepRow)
       /\ Coherent(tasks[t], [steps[t] EXCEPT ![i] = s])
  BY <1>1, <1>3, <1>8, <1>9, <1>10, CoherentStay DEF LiveStatus, Coherent
<1>12. log \in Seq(EventRow)
  <2>1. i \in Nat /\ lease.worker \in Workers \cup {NULL} /\ lease.version \in Nat
    BY <1>1, <1>3, RowFields
  <2>2. Event("STEP_STARTED", i, n, lease.worker, lease.version) \in EventRow
    BY <1>3, <1>5, <2>1, EventType DEF EventTypes
  <2>. QED  BY <2>2, LogType DEF n
<1>. QED  BY <1>2, <1>3, <1>11, <1>12, CommitPreserves

\* WaitForApproval: the task parks with its approval step and gives up its lease.
LEMMA WaitPreserves ==
  ASSUME IInv, NEW lease, lease.task \in Tasks, NEW i \in DOMAIN steps[lease.task],
         WaitForApproval(lease, i)
  PROVE  IInv'
<1> DEFINE t == lease.task
           input == ResolveInput(t, i)
           row == [Released(tasks[t], "WAITING_APPROVAL") EXCEPT !.retry_at = NULL]
           s == [steps[t][i] EXCEPT !.status = "WAITING_APPROVAL", !.resolved_input = input,
                                    !.error = NULL]
           log == <<StepEvent("TASK_WAITING_APPROVAL", i, NULL)>>
<1>1. tasks[t].status = "RUNNING" /\ i = tasks[t].current_step /\ ~tasks[t].cancel_requested
  BY OwnerFacts DEF WaitForApproval
<1>2. /\ steps[t][i].type = "approval" /\ steps[t][i].attempt = 0 /\ input # NULL
      /\ Commit(t, row, [steps[t] EXCEPT ![i] = s], log)
  BY DEF WaitForApproval
<1>3. /\ tasks[t] \in TaskRow /\ steps[t] \in Seq(StepRow) /\ now \in Nat
      /\ Coherent(tasks[t], steps[t]) /\ steps[t][i] \in StepRow
      /\ Fits(steps[t][i], "RUNNING")
  BY <1>1, TaskFacts DEF LiveStatus, CurrentStep
<1>4. input \in Value
  BY <1>1, <1>2, ResolveType
<1> HIDE DEF input
<1>5. s \in StepRow
  BY <1>3, <1>4 DEF StepRow, StepStatus
<1>6. /\ s.status = "WAITING_APPROVAL" /\ s.attempt = steps[t][i].attempt
      /\ s.type = steps[t][i].type /\ s.max_attempts = steps[t][i].max_attempts
      /\ s.approval_decision = steps[t][i].approval_decision
  BY <1>3 DEF StepRow
<1>7. IsReleased(row, tasks[t], "WAITING_APPROVAL", NULL, i)
  BY <1>1, <1>3, ReleasedRetry DEF LiveStatus, Time
<1> HIDE DEF s, row
<1>8. Ownership(row) /\ Clocks(row)
  <2>1. tasks[t].lease_version > 0
    BY <1>1, <1>3 DEF Coherent, Clocks
  <2>. QED  BY <1>1, <1>3, <1>7, <2>1, ReleasedClocks DEF Coherent
<1>9. Fits(s, "WAITING_APPROVAL")
  BY <1>2, <1>3, <1>6 DEF Fits
<1>10. /\ [steps[t] EXCEPT ![i] = s] \in Seq(StepRow)
       /\ Coherent(row, [steps[t] EXCEPT ![i] = s])
  BY <1>1, <1>3, <1>5, <1>6, <1>7, <1>8, <1>9, CoherentStay DEF LiveStatus, IsReleased
<1>11. log \in Seq(EventRow)
  <2>1. i \in Nat
    BY <1>1, <1>3, RowFields
  <2>2. StepEvent("TASK_WAITING_APPROVAL", i, NULL) \in EventRow
    BY <1>3, <2>1, StepEventType DEF EventTypes
  <2>. QED  BY <2>2, LogType
<1>. QED  BY <1>2, <1>7, <1>10, <1>11, CommitPreserves DEF IsReleased

\* The outcome that FinishStep acts on, once its size was checked.
LEMMA LimitedType ==
  ASSUME NEW outcome \in Outcomes
  PROVE  /\ Limited(outcome).error \in Errors \cup {NULL}
         /\ Limited(outcome).error = NULL =>
              /\ outcome.output \in Outputs
              /\ outcome.checkpoint \in Outputs \cup {NULL}
<1>1. CASE outcome \in [output : Outputs \cup {Oversized}, checkpoint : Outputs \cup {Oversized, NULL},
                        error : {NULL}, failure_class : {NULL}]
  <2>1. /\ outcome.output \in Outputs \cup {Oversized}
        /\ outcome.checkpoint \in Outputs \cup {Oversized, NULL} /\ outcome.error = NULL
    BY <1>1
  <2>2. CASE outcome.checkpoint = Oversized
    BY <1>1, <2>2, NullAssumption DEF Limited, Errors
  <2>3. CASE outcome.checkpoint # Oversized /\ outcome.output = Oversized
    BY <1>1, <2>3, NullAssumption DEF Limited, Errors
  <2>4. CASE outcome.checkpoint # Oversized /\ outcome.output # Oversized
    BY <2>1, <2>4 DEF Limited
  <2>. QED  BY <2>2, <2>3, <2>4
<1>2. CASE outcome \in [output : {NULL}, checkpoint : {NULL}, error : {"execution_failed"},
                        failure_class : {"temporary", "permanent"}]
  <2>1. outcome.output = NULL /\ outcome.checkpoint = NULL /\ outcome.error = "execution_failed"
    BY <1>2
  <2>2. Limited(outcome) = outcome
    BY <2>1, OversizedAssumption DEF Limited
  <2>. QED  BY <2>1, <2>2, NullAssumption DEF Errors
<1>. QED  BY <1>1, <1>2 DEF Outcomes

\* The delay before a retry is a number.
LEMMA BackoffType ==
  ASSUME NEW n \in Nat, n >= 1
  PROVE  Backoff(n) \in Nat
<1>1. CASE n > 7
  BY <1>1 DEF Backoff
<1>2. CASE n <= 7
  <2>1. n = 1 \/ n = 2 \/ n = 3 \/ n = 4 \/ n = 5 \/ n = 6 \/ n = 7
    BY <1>2
  <2>. QED  BY <2>1 DEF Backoff
<1>. QED  BY <1>1, <1>2

\* What FinishStep has checked when it writes.
LEMMA FinishFacts ==
  ASSUME IInv, NEW lease, lease.task \in Tasks, NEW attempt, Finishable(lease, attempt)
  PROVE  LET t == lease.task
             i == attempt.step
         IN  /\ tasks[t].status = "RUNNING" /\ ~tasks[t].cancel_requested
             /\ i = tasks[t].current_step /\ i \in DOMAIN steps[t] /\ i \in Nat /\ i # 0
             /\ lease.worker \in Workers \cup {NULL} /\ lease.version \in Nat
             /\ tasks[t] \in TaskRow /\ steps[t] \in Seq(StepRow) /\ now \in Nat
             /\ Coherent(tasks[t], steps[t])
             /\ steps[t][i] \in StepRow /\ InFlight(steps[t][i])
             /\ steps[t][i].approval_decision = NULL
             /\ attempt.attempt = steps[t][i].attempt
             /\ attempt.attempt \in Nat /\ attempt.attempt >= 1
<1> DEFINE t == lease.task
           i == attempt.step
<1>1. /\ tasks[t].status = "RUNNING" /\ ~tasks[t].cancel_requested
      /\ lease.worker = tasks[t].worker_id /\ lease.version = tasks[t].lease_version
      /\ i = tasks[t].current_step /\ steps[t][i].status = "RUNNING"
      /\ attempt.attempt = steps[t][i].attempt
  BY OwnerFacts DEF Finishable
<1>2. /\ tasks[t] \in TaskRow /\ steps[t] \in Seq(StepRow) /\ now \in Nat
      /\ Coherent(tasks[t], steps[t]) /\ steps[t][i] \in StepRow /\ i \in DOMAIN steps[t]
      /\ Fits(steps[t][i], "RUNNING")
  BY <1>1, TaskFacts DEF LiveStatus, CurrentStep
<1>3. InFlight(steps[t][i]) /\ steps[t][i].approval_decision = NULL
  BY <1>1, <1>2 DEF Fits, Startable
<1>4. /\ lease.worker \in Workers \cup {NULL} /\ lease.version \in Nat /\ i \in Nat /\ i # 0
  BY <1>1, <1>2, RowFields
<1>5. steps[t][i].attempt \in Nat /\ steps[t][i].max_attempts \in Nat
  BY <1>2, StepFields
<1>6. steps[t][i].attempt >= 1
  BY <1>3, <1>5 DEF InFlight
<1>. QED  BY <1>1, <1>2, <1>3, <1>4, <1>5, <1>6

\* FinishStep of a failure: a retry is left in the budget, or the task ends.
LEMMA FinishFailedPreserves ==
  ASSUME IInv, NEW lease, lease.task \in Tasks, NEW attempt, NEW outcome \in Outcomes,
         FinishStepFailed(lease, attempt, outcome)
  PROVE  IInv'
<1> DEFINE t == lease.task
           i == attempt.step
           n == attempt.attempt
           error == Limited(outcome).error
           retrying == /\ Limited(outcome).failure_class = "temporary"
                       /\ n < steps[t][i].max_attempts
           status == IF retrying THEN "RETRY_WAIT" ELSE "FAILED"
           at == IF retrying THEN now + Backoff(n) ELSE NULL
           row == [Released(tasks[t], status) EXCEPT !.retry_at = at]
           s == [steps[t][i] EXCEPT !.status = "FAILED", !.output = NULL, !.error = error]
           log == <<Event("STEP_FAILED", i, n, lease.worker, lease.version),
                    IF retrying THEN StepEvent("TASK_RETRY_WAIT", i, n)
                                ELSE Event("TASK_FAILED", i, n, lease.worker, lease.version)>>
<1>1. Finishable(lease, attempt) /\ Commit(t, row, [steps[t] EXCEPT ![i] = s], log)
  BY DEF FinishStepFailed
<1>2. /\ tasks[t].status = "RUNNING" /\ ~tasks[t].cancel_requested
      /\ i = tasks[t].current_step /\ i \in DOMAIN steps[t] /\ i \in Nat /\ i # 0
      /\ lease.worker \in Workers \cup {NULL} /\ lease.version \in Nat
      /\ tasks[t] \in TaskRow /\ steps[t] \in Seq(StepRow) /\ now \in Nat
      /\ Coherent(tasks[t], steps[t])
      /\ steps[t][i] \in StepRow /\ InFlight(steps[t][i])
      /\ steps[t][i].approval_decision = NULL
      /\ n = steps[t][i].attempt /\ n \in Nat /\ n >= 1
  BY <1>1, FinishFacts
<1>3. error \in Errors \cup {NULL}
  BY LimitedType
<1>4. at \in Time /\ (at # NULL <=> status = "RETRY_WAIT")
  <2>1. Backoff(n) \in Nat
    BY <1>2, BackoffType
  <2>2. now + Backoff(n) \in Nat
    BY <1>2, <2>1
  <2>. QED  BY <2>2, NullAssumption DEF Time
<1>5. status \in {"RETRY_WAIT", "FAILED"}
  OBVIOUS
<1>6. log \in Seq(EventRow)
  <2>1. /\ Event("STEP_FAILED", i, n, lease.worker, lease.version) \in EventRow
        /\ Event("TASK_FAILED", i, n, lease.worker, lease.version) \in EventRow
    BY <1>2, EventType DEF EventTypes
  <2>2. StepEvent("TASK_RETRY_WAIT", i, n) \in EventRow
    BY <1>2, StepEventType DEF EventTypes
  <2>. QED  BY <2>1, <2>2, LogType
<1>7. status = "RETRY_WAIT" => n < steps[t][i].max_attempts
  OBVIOUS
<1> HIDE DEF error, status, at, log
<1>8. s \in StepRow
  <2>1. steps[t][i] \in StepRow
    BY <1>2
  <2>. QED  BY <1>3, <2>1 DEF StepRow, StepStatus
<1>9. /\ s.status = "FAILED" /\ s.attempt = n /\ s.type = steps[t][i].type
      /\ s.max_attempts = steps[t][i].max_attempts
      /\ s.approval_decision = steps[t][i].approval_decision
  BY <1>2 DEF StepRow
<1>10. IsReleased(row, tasks[t], status, at, i)
  BY <1>2, <1>4, <1>5, ReleasedRetry DEF LiveStatus, TerminalStatus
<1> HIDE DEF s, row
<1>11. Ownership(row) /\ Clocks(row)
  <2>1. tasks[t].lease_version > 0
    BY <1>2 DEF Coherent, Clocks
  <2>. QED  BY <1>2, <1>4, <1>5, <1>10, <2>1, ReleasedClocks DEF Coherent
<1>12. status \in LiveStatus => Fits(s, status)
  BY <1>2, <1>5, <1>7, <1>9 DEF LiveStatus, Fits, Startable, InFlight
<1>13. /\ [steps[t] EXCEPT ![i] = s] \in Seq(StepRow)
       /\ Coherent(row, [steps[t] EXCEPT ![i] = s])
  BY <1>2, <1>5, <1>8, <1>9, <1>10, <1>11, <1>12, CoherentStay DEF LiveStatus, IsReleased
<1>. QED  BY <1>1, <1>6, <1>10, <1>13, CommitPreserves DEF IsReleased

\* FinishStep of a success: the cursor passes the step, and the end ends the task.
LEMMA FinishSucceededPreserves ==
  ASSUME IInv, NEW lease, lease.task \in Tasks, NEW attempt, NEW outcome \in Outcomes,
         FinishStepSucceeded(lease, attempt, outcome)
  PROVE  IInv'
<1> DEFINE t == lease.task
           i == attempt.step
           n == attempt.attempt
           terminal == IsLastStep(t, i)
           checkpoint == IF outcome.checkpoint = NULL THEN tasks[t].checkpoint
                                                      ELSE outcome.checkpoint
           advanced == [tasks[t] EXCEPT !.current_step = i + 1, !.checkpoint = checkpoint]
           row == IF terminal THEN Released(advanced, "SUCCEEDED") ELSE advanced
           s == [steps[t][i] EXCEPT !.status = "SUCCEEDED", !.output = outcome.output, !.error = NULL]
           log == <<Event("STEP_SUCCEEDED", i, n, lease.worker, lease.version)>> \o
                    IF terminal THEN <<Event("TASK_SUCCEEDED", i, n, lease.worker, lease.version)>>
                                ELSE <<>>
<1>1. /\ Finishable(lease, attempt) /\ Limited(outcome).error = NULL
      /\ Commit(t, row, [steps[t] EXCEPT ![i] = s], log)
  BY DEF FinishStepSucceeded
<1>2. /\ tasks[t].status = "RUNNING" /\ ~tasks[t].cancel_requested
      /\ i = tasks[t].current_step /\ i \in DOMAIN steps[t] /\ i \in Nat /\ i # 0
      /\ lease.worker \in Workers \cup {NULL} /\ lease.version \in Nat
      /\ tasks[t] \in TaskRow /\ steps[t] \in Seq(StepRow) /\ now \in Nat
      /\ Coherent(tasks[t], steps[t])
      /\ steps[t][i] \in StepRow /\ n \in Nat
  BY <1>1, FinishFacts
<1>3. outcome.output \in Outputs /\ checkpoint \in Outputs \cup {"{}"}
  BY <1>1, <1>2, LimitedType, RowFields
<1>4. i + 1 \in Nat /\ i + 1 # 0
  BY <1>2
<1> HIDE DEF checkpoint
<1>5. advanced \in TaskRow
  BY <1>2, <1>3, <1>4 DEF TaskRow
<1>6. /\ advanced.status = "RUNNING" /\ advanced.current_step = i + 1
      /\ advanced.worker_id = tasks[t].worker_id
      /\ advanced.lease_expires_at = tasks[t].lease_expires_at
      /\ advanced.run_at = tasks[t].run_at /\ advanced.retry_at = tasks[t].retry_at
      /\ advanced.lease_version = tasks[t].lease_version
      /\ advanced.deadline_at = tasks[t].deadline_at
      /\ advanced.cancel_requested = tasks[t].cancel_requested
  BY <1>2 DEF TaskRow
<1> HIDE DEF advanced
<1>7. Ownership(advanced) /\ Clocks(advanced)
  BY <1>2, <1>6 DEF Coherent, Ownership, Clocks
<1>8. /\ row \in TaskRow /\ Ownership(row) /\ Clocks(row) /\ row.current_step = i + 1
      /\ row.status = IF terminal THEN "SUCCEEDED" ELSE "RUNNING"
  <2>1. CASE terminal
    <3>1. advanced.retry_at = NULL
      BY <1>6, <1>7 DEF Clocks
    <3>2. IsReleased(row, advanced, "SUCCEEDED", NULL, i + 1)
      BY <1>5, <1>6, <2>1, <3>1, ReleasedRow DEF TerminalStatus
    <3>3. Ownership(row) /\ Clocks(row)
      BY <1>2, <1>5, <1>6, <1>7, <3>2, ReleasedClocks
    <3>. QED  BY <2>1, <3>2, <3>3 DEF IsReleased
  <2>2. CASE ~terminal
    BY <1>5, <1>6, <1>7, <2>2
  <2>. QED  BY <2>1, <2>2
<1>9. s \in StepRow /\ s.status = "SUCCEEDED" /\ s.max_attempts = steps[t][i].max_attempts
  BY <1>2, <1>3 DEF StepRow, StepStatus
<1>10. log \in Seq(EventRow)
  <2>1. /\ Event("STEP_SUCCEEDED", i, n, lease.worker, lease.version) \in EventRow
        /\ Event("TASK_SUCCEEDED", i, n, lease.worker, lease.version) \in EventRow
    BY <1>2, EventType DEF EventTypes
  <2>. QED  BY <2>1, LogType
<1> HIDE DEF row, s, log
<1>11. row.status \in {"RUNNING", "SUCCEEDED"} /\ (row.status = "SUCCEEDED" <=> i = Len(steps[t]))
  BY <1>8 DEF IsLastStep
<1>12. /\ [steps[t] EXCEPT ![i] = s] \in Seq(StepRow)
       /\ Coherent(row, [steps[t] EXCEPT ![i] = s])
  BY <1>2, <1>8, <1>9, <1>11, CoherentAdvance DEF LiveStatus
<1>. QED  BY <1>1, <1>8, <1>10, <1>12, CommitPreserves

\* finishControlledTask, from a cancellation or the deadline, on any live task.
LEMMA ControlPreserves ==
  ASSUME IInv, NEW t \in Tasks, tasks[t].status \in LiveStatus,
         NEW outcome \in {cancelledOutcome, timedOutOutcome},
         tasks[t].cancel_requested => outcome = cancelledOutcome,
         finishControlledTask(t, outcome)
  PROVE  IInv'
<1> DEFINE c == tasks[t].current_step
           row == [Released(tasks[t], outcome.status) EXCEPT !.retry_at = NULL]
           s == [steps[t][c] EXCEPT !.status = "FAILED", !.output = NULL, !.error = outcome.reason]
           log == <<StepEvent("STEP_FAILED", c, CurrentStep(t).attempt)>> \o
                  <<StepEvent(outcome.eventType, c, NULL)>>
<1>1. /\ tasks[t] \in TaskRow /\ steps[t] \in Seq(StepRow) /\ now \in Nat
      /\ Coherent(tasks[t], steps[t]) /\ c \in DOMAIN steps[t]
      /\ CurrentStep(t) \in StepRow /\ Fits(CurrentStep(t), tasks[t].status)
  BY TaskFacts
<1>2. HasCurrentStep(t) /\ CurrentStep(t).status # "SUCCEEDED"
  BY <1>1 DEF HasCurrentStep, Fits, Startable, InFlight, LiveStatus
<1>3. Commit(t, row, [steps[t] EXCEPT ![c] = s], log)
  BY <1>2 DEF finishControlledTask
<1>4. /\ outcome.status \in {"CANCELLED", "TIMED_OUT"}
      /\ outcome.reason \in {"user_cancelled", "task_timeout"}
      /\ outcome.eventType \in {"TASK_CANCELLED", "TASK_TIMED_OUT"}
      /\ tasks[t].cancel_requested => outcome.status = "CANCELLED"
  BY DEF cancelledOutcome, timedOutOutcome
<1>5. IsReleased(row, tasks[t], outcome.status, NULL, c)
  BY <1>1, <1>4, ReleasedRetry DEF TerminalStatus, Time
<1>6. /\ s \in StepRow /\ s.max_attempts = steps[t][c].max_attempts
  BY <1>1, <1>4 DEF StepRow, StepStatus, Errors, CurrentStep
<1>7. log \in Seq(EventRow)
  <2>1. c \in Nat /\ CurrentStep(t).attempt \in Nat
    BY <1>1, RowFields, StepFields
  <2>2. StepEvent("STEP_FAILED", c, CurrentStep(t).attempt) \in EventRow
    BY <1>1, <2>1, StepEventType DEF EventTypes
  <2>3. outcome.eventType \in EventTypes
    BY <1>4 DEF EventTypes
  <2>4. StepEvent(outcome.eventType, c, NULL) \in EventRow
    BY <1>1, <2>1, <2>3, StepEventType
  <2>. QED  BY <2>2, <2>4, LogType
<1> HIDE DEF row, s, log
<1>8. Ownership(row) /\ Clocks(row)
  BY <1>1, <1>4, <1>5, ReleasedClocks DEF Coherent, LiveStatus
<1>9. /\ [steps[t] EXCEPT ![c] = s] \in Seq(StepRow)
      /\ Coherent(row, [steps[t] EXCEPT ![c] = s])
  BY <1>1, <1>4, <1>5, <1>6, <1>8, CoherentStay DEF LiveStatus, IsReleased
<1>. QED  BY <1>3, <1>5, <1>7, <1>9, CommitPreserves DEF IsReleased

\* CancelTask on a RUNNING task only marks it.
LEMMA RequestCancelPreserves ==
  ASSUME IInv, NEW t \in Tasks, RequestCancel(t)
  PROVE  IInv'
<1> DEFINE row == [tasks[t] EXCEPT !.cancel_requested = TRUE]
<1>1. tasks[t].status = "RUNNING" /\ Commit(t, row, steps[t], <<>>)
  BY DEF RequestCancel
<1>2. /\ tasks[t] \in TaskRow /\ steps[t] \in Seq(StepRow) /\ Coherent(tasks[t], steps[t])
  BY TaskFacts
<1>3. row \in TaskRow
  BY <1>2 DEF TaskRow
<1>4. /\ row.status = tasks[t].status /\ row.worker_id = tasks[t].worker_id
      /\ row.lease_expires_at = tasks[t].lease_expires_at
      /\ row.current_step = tasks[t].current_step
      /\ row.run_at = tasks[t].run_at /\ row.retry_at = tasks[t].retry_at
      /\ row.deadline_at = tasks[t].deadline_at /\ row.lease_version = tasks[t].lease_version
  BY <1>2 DEF TaskRow
<1> HIDE DEF row
<1>5. Ownership(row) /\ Clocks(row)
  BY <1>1, <1>2, <1>4 DEF Coherent, Ownership, Clocks
<1>6. Coherent(row, steps[t])
  BY <1>1, <1>2, <1>3, <1>4, <1>5, CoherentRow DEF LiveStatus
<1>7. <<>> \in Seq(EventRow)
  OBVIOUS
<1>. QED  BY <1>1, <1>2, <1>3, <1>6, <1>7, CommitPreserves

\* A task in RETRY_WAIT or SCHEDULED becomes claimable.
LEMMA WakePreserves ==
  ASSUME IInv, NEW t \in Tasks,
         \/ tasks[t].status = "RETRY_WAIT" /\ wakeRetryTask(t)
         \/ tasks[t].status = "SCHEDULED" /\ wakeScheduledTask(t)
  PROVE  IInv'
<1> DEFINE row == [tasks[t] EXCEPT !.status = "RUNNABLE", !.retry_at = NULL]
<1>1. /\ tasks[t] \in TaskRow /\ steps[t] \in Seq(StepRow) /\ Coherent(tasks[t], steps[t])
      /\ now \in Nat /\ tasks[t].status \in {"RETRY_WAIT", "SCHEDULED"}
  BY TaskFacts
<1>2. row \in TaskRow
  BY <1>1 DEF TaskRow, Time, LiveStatus
<1>3. /\ row.status = "RUNNABLE" /\ row.worker_id = tasks[t].worker_id
      /\ row.lease_expires_at = tasks[t].lease_expires_at /\ row.retry_at = NULL
      /\ row.current_step = tasks[t].current_step /\ row.run_at = tasks[t].run_at
      /\ row.deadline_at = tasks[t].deadline_at /\ row.lease_version = tasks[t].lease_version
      /\ row.cancel_requested = tasks[t].cancel_requested
  BY <1>1 DEF TaskRow
<1>4. /\ TaskEvent("TASK_RETRY_READY") \in EventRow /\ TaskEvent("TASK_RUNNABLE") \in EventRow
  BY <1>1, TaskEventType DEF EventTypes
<1>5. \E e \in EventRow : Commit(t, row, steps[t], <<e>>)
  <2>1. CASE tasks[t].status = "RETRY_WAIT" /\ wakeRetryTask(t)
    BY <1>4, <2>1 DEF wakeRetryTask
  <2>2. CASE tasks[t].status = "SCHEDULED" /\ wakeScheduledTask(t)
    <3>1. tasks[t].retry_at = NULL
      BY <1>1, <2>2 DEF Coherent, Clocks
    <3>2. [tasks[t] EXCEPT !.status = "RUNNABLE"] = row
      BY <1>1, <3>1 DEF TaskRow
    <3>. QED  BY <1>4, <2>2, <3>2 DEF wakeScheduledTask
  <2>. QED  BY <2>1, <2>2
<1> HIDE DEF row
<1>6. Ownership(row) /\ Clocks(row)
  BY <1>1, <1>3 DEF Coherent, Ownership, Clocks
<1>7. Coherent(row, steps[t])
  BY <1>1, <1>2, <1>3, <1>6, CoherentRow DEF LiveStatus, Fits
<1>8. PICK e \in EventRow : Commit(t, row, steps[t], <<e>>)
  BY <1>5
<1>. QED  BY <1>1, <1>2, <1>7, <1>8, LogType, CommitPreserves

\* ProcessDueControl, in each of its four branches.
LEMMA ProcessPreserves ==
  ASSUME IInv, NEW t \in Tasks, ProcessDueControl(t)
  PROVE  IInv'
<1>1. tasks[t].status \in LiveStatus
  BY DEF ProcessDueControl, Unfinished
<1>2. CASE tasks[t].cancel_requested /\ finishControlledTask(t, cancelledOutcome)
  BY <1>1, <1>2, ControlPreserves
<1>3. CASE ~tasks[t].cancel_requested /\ finishControlledTask(t, timedOutOutcome)
  BY <1>1, <1>3, ControlPreserves
<1>4. CASE RetryDue(t) /\ wakeRetryTask(t)
  BY <1>4, WakePreserves DEF RetryDue
<1>5. CASE ScheduleDue(t) /\ wakeScheduledTask(t)
  BY <1>5, WakePreserves DEF ScheduleDue
<1>. QED  BY <1>2, <1>3, <1>4, <1>5 DEF ProcessDueControl, CancelDue

\* DecideApproval: approved, the cursor passes the step; rejected, the task ends.
LEMMA DecidePreserves ==
  ASSUME IInv, NEW t \in Tasks, NEW i \in DOMAIN steps[t], Approve(t, i) \/ Reject(t, i)
  PROVE  IInv'
<1>1. /\ tasks[t].status = "WAITING_APPROVAL" /\ i = tasks[t].current_step
      /\ ~tasks[t].cancel_requested
  BY DEF Approve, Reject, Decidable
<1>2. /\ tasks[t] \in TaskRow /\ steps[t] \in Seq(StepRow) /\ now \in Nat
      /\ Coherent(tasks[t], steps[t]) /\ steps[t][i] \in StepRow
      /\ i \in Nat /\ i # 0
  BY <1>1, TaskFacts, RowFields DEF LiveStatus, CurrentStep
<1>3. CASE Approve(t, i)
  <2> DEFINE status == IF IsLastStep(t, i) THEN "SUCCEEDED" ELSE "RUNNABLE"
             row == [Released(tasks[t], status) EXCEPT !.current_step = i + 1, !.retry_at = NULL]
             s == [steps[t][i] EXCEPT !.approval_decision = "approved", !.status = "SUCCEEDED",
                                      !.error = NULL]
             log == <<StepEvent("TASK_APPROVED", i, NULL)>> \o
                      IF IsLastStep(t, i) THEN <<StepEvent("TASK_SUCCEEDED", i, NULL)>> ELSE <<>>
  <2>1. Commit(t, row, [steps[t] EXCEPT ![i] = s], log)
    BY <1>3 DEF Approve
  <2>2. /\ status \in {"SUCCEEDED", "RUNNABLE"} /\ (status = "SUCCEEDED" <=> i = Len(steps[t]))
        /\ i + 1 \in Nat /\ i + 1 # 0
    BY <1>2 DEF IsLastStep
  <2>3. log \in Seq(EventRow)
    <3>1. /\ StepEvent("TASK_APPROVED", i, NULL) \in EventRow
          /\ StepEvent("TASK_SUCCEEDED", i, NULL) \in EventRow
      BY <1>2, StepEventType DEF EventTypes
    <3>. QED  BY <3>1, LogType
  <2> HIDE DEF status, log
  <2>4. IsReleased(row, tasks[t], status, NULL, i + 1)
    BY <1>2, <2>2, ReleasedAdvance DEF LiveStatus, TerminalStatus
  <2>5. s \in StepRow /\ s.status = "SUCCEEDED" /\ s.max_attempts = steps[t][i].max_attempts
    BY <1>2 DEF StepRow, StepStatus
  <2> HIDE DEF row, s
  <2>6. Ownership(row) /\ Clocks(row)
    BY <1>1, <1>2, <2>2, <2>4, ReleasedClocks DEF Coherent
  <2>7. /\ [steps[t] EXCEPT ![i] = s] \in Seq(StepRow)
        /\ Coherent(row, [steps[t] EXCEPT ![i] = s])
    BY <1>1, <1>2, <2>2, <2>4, <2>5, <2>6, CoherentAdvance DEF LiveStatus, IsReleased
  <2>. QED  BY <2>1, <2>3, <2>4, <2>7, CommitPreserves DEF IsReleased
<1>4. CASE Reject(t, i)
  <2> DEFINE row == [Released(tasks[t], "FAILED") EXCEPT !.retry_at = NULL]
             s == [steps[t][i] EXCEPT !.approval_decision = "rejected", !.status = "FAILED",
                                      !.error = "approval_rejected"]
             log == <<StepEvent("TASK_REJECTED", i, NULL), StepEvent("TASK_FAILED", i, NULL)>>
  <2>1. Commit(t, row, [steps[t] EXCEPT ![i] = s], log)
    BY <1>4 DEF Reject
  <2>2. log \in Seq(EventRow)
    <3>1. /\ StepEvent("TASK_REJECTED", i, NULL) \in EventRow
          /\ StepEvent("TASK_FAILED", i, NULL) \in EventRow
      BY <1>2, StepEventType DEF EventTypes
    <3>. QED  BY <3>1, LogType
  <2>3. IsReleased(row, tasks[t], "FAILED", NULL, i)
    BY <1>1, <1>2, ReleasedRetry DEF TerminalStatus, Time
  <2>4. s \in StepRow /\ s.max_attempts = steps[t][i].max_attempts
    BY <1>2 DEF StepRow, StepStatus, Errors
  <2> HIDE DEF row, s, log
  <2>5. Ownership(row) /\ Clocks(row)
    BY <1>1, <1>2, <2>3, ReleasedClocks DEF Coherent
  <2>6. /\ [steps[t] EXCEPT ![i] = s] \in Seq(StepRow)
        /\ Coherent(row, [steps[t] EXCEPT ![i] = s])
    BY <1>1, <1>2, <2>3, <2>4, <2>5, CoherentStay DEF LiveStatus, IsReleased
  <2>. QED  BY <2>1, <2>2, <2>3, <2>6, CommitPreserves DEF IsReleased
<1>. QED  BY <1>3, <1>4

-----------------------------------------------------------------------------
(* The theorems. *)

\* Every call that presents a lease token.
LEMMA OwnerStepPreserves ==
  ASSUME IInv, NEW lease, lease.task \in Tasks, OwnerStep(lease)
  PROVE  IInv'
<1> DEFINE t == lease.task
<1>1. CASE RenewLease(lease)
  BY <1>1, RenewPreserves
<1>2. CASE \E i \in DOMAIN steps[t] : StartStep(lease, i) \/ WaitForApproval(lease, i)
  BY <1>2, StartPreserves, WaitPreserves
<1>3. CASE \E attempt \in StartedAttempts(lease), outcome \in Outcomes :
             FinishStepFailed(lease, attempt, outcome) \/ FinishStepSucceeded(lease, attempt, outcome)
  BY <1>3, FinishFailedPreserves, FinishSucceededPreserves
<1>4. CASE TimeoutOwnedTask(lease)
  BY <1>4, ControlPreserves DEF TimeoutOwnedTask, ownsActiveLease, LiveStatus
<1>5. CASE CancelOwnedTask(lease)
  BY <1>5, ControlPreserves DEF CancelOwnedTask, ownsActiveLease, LiveStatus
<1>. QED  BY <1>1, <1>2, <1>3, <1>4, <1>5 DEF OwnerStep

\* The invariant is inductive: every transaction and the clock preserve it.
LEMMA NextIInv == IInv /\ [Next]_vars => IInv'
<1> SUFFICES ASSUME IInv, [Next]_vars PROVE IInv'
  OBVIOUS
<1>1. ASSUME NEW t \in Tasks, ClientStep(t) PROVE IInv'
  <2>1. CASE \E d \in Definitions : CreateTask(t, d)
    BY <2>1, CreatePreserves
  <2>2. CASE RequestCancel(t)
    BY <2>2, RequestCancelPreserves
  <2>3. CASE CancelSynchronously(t)
    <3>1. tasks[t] \in TaskRow
      BY TaskFacts
    <3>2. tasks[t].status \in LiveStatus
      BY <2>3, <3>1, RowFields DEF CancelSynchronously, isTerminalStatus
    <3>. QED  BY <2>3, <3>2, ControlPreserves DEF CancelSynchronously
  <2>4. CASE \E i \in DOMAIN steps[t] : Approve(t, i) \/ Reject(t, i)
    BY <2>4, DecidePreserves
  <2>. QED  BY <1>1, <2>1, <2>2, <2>3, <2>4 DEF ClientStep
<1>2. ASSUME NEW t \in Tasks, NEW w \in Workers, ClaimTask(w, t) PROVE IInv'
  BY <1>2, ClaimRunnablePreserves, ClaimExpiredPreserves, ConvergePreserves DEF ClaimTask
<1>3. ASSUME NEW t \in Tasks, NEW lease \in IssuedLeases(t), OwnerStep(lease) PROVE IInv'
  <2>1. lease.task = t
    BY DEF IssuedLeases
  <2>. QED  BY <1>3, <2>1, OwnerStepPreserves
<1>4. ASSUME NEW t \in Tasks, ProcessDueControl(t) PROVE IInv'
  BY <1>4, ProcessPreserves
<1>5. ASSUME NEW t \in Tasks, WakeDueRetry(t) PROVE IInv'
  BY <1>5, WakePreserves DEF WakeDueRetry, RetryDue
<1>6. CASE Tick
  BY <1>6 DEF Tick, IInv, TypeOK
<1>7. CASE UNCHANGED vars
  BY <1>7 DEF vars, IInv, TypeOK
<1>. QED  BY <1>1, <1>2, <1>3, <1>4, <1>5, <1>6, <1>7 DEF Next, Idle

\* IInv is an invariant: every reachable state is well typed and every task in it
\* is coherent.
THEOREM Invariance == Spec => []IInv
<1>. QED  BY InitIInv, NextIInv, PTL DEF Spec

\* Every transaction writes values that its columns admit.
THEOREM TypeCorrect == Spec => []TypeOK
<1>1. IInv => TypeOK
  BY DEF IInv
<1>. QED  BY <1>1, Invariance, PTL

\* The database never aborts a transaction for task_ownership_matches_status.
THEOREM OwnershipCorrect == Spec => []OwnershipMatchesStatus
<1>1. IInv => OwnershipMatchesStatus
  BY DEF IInv, Coherent, OwnershipMatchesStatus
<1>. QED  BY <1>1, Invariance, PTL

\* Retry time, deadline and cancellation request agree with the status.
THEOREM ClocksCorrect == Spec => []ClocksMatchStatus
<1>1. IInv => ClocksMatchStatus
  BY DEF IInv, Coherent, ClocksMatchStatus
<1>. QED  BY <1>1, Invariance, PTL

\* The cursor separates succeeded steps from untouched ones, and a task has
\* succeeded exactly when all its steps have.
THEOREM CursorCorrect == Spec => []StepsBehindCursor
<1>1. IInv => StepsBehindCursor
  BY DEF IInv, Coherent, StepsBehindCursor
<1>. QED  BY <1>1, Invariance, PTL

\* No takeover, retry or approval leaves a live task with a current step that
\* can never be started.
THEOREM NeverStuckCorrect == Spec => []NeverStuck
<1>1. IInv => NeverStuck
  BY DEF IInv, Coherent, NeverStuck
<1>. QED  BY <1>1, Invariance, PTL

=============================================================================
