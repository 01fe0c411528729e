------------------------------ MODULE TaskStore ------------------------------
(***************************************************************************)
(* The durable state of the runtime and every transaction on it: the       *)
(* tables tasks, task_steps and task_events, the database clock, and the   *)
(* methods of store.Store, which the API handlers, the workers and the     *)
(* scheduler call.                                                         *)
(*                                                                         *)
(* A method locks the task's row, reads the clock after it holds the lock, *)
(* and either commits all its writes or changes nothing; so each one is    *)
(* one atomic action, and a rejected call is a stuttering step.  Callers   *)
(* are not modelled here: a lease token that was ever issued may be used   *)
(* at any later time (a worker that is slow, paused, or one of several     *)
(* slots), or never again (a crash), and an API call may come at any time. *)
(*                                                                         *)
(* step_index counts from 0 in the code; steps[t] is a sequence, so the    *)
(* code's index i is the position i + 1, and current_step starts at 1.     *)
(***************************************************************************)
EXTENDS Integers, Sequences

CONSTANTS
  Tasks,          \* ids of the rows that may be created
  Workers,        \* worker ids
  Definitions,    \* bodies a client may post to /tasks
  Outputs,        \* JSON documents a step or a checkpoint may hold
  Oversized,      \* a JSON document of more than maxJSONBytes
  LeaseDuration,  \* store.Options.LeaseDuration
  NULL            \* the SQL NULL

\* What the error column may hold; the executor's own messages are one value.
Errors == {"execution_failed", "output_too_large", "checkpoint_too_large", "worker_lost",
           "approval_rejected", "user_cancelled", "task_timeout"}

ASSUME NullAssumption ==
  /\ NULL \notin Nat
  /\ NULL \notin Workers
  /\ NULL \notin Outputs
  /\ NULL \notin Errors

ASSUME OversizedAssumption == Oversized # NULL /\ Oversized \notin Outputs

ASSUME LeaseAssumption == LeaseDuration \in Nat \ {0}

\* The executors a worker has; "approval" is a control step that no executor runs.
ExecutorTypes == {"echo", "sleep", "flaky", "fake_tool"}

StepDefinition ==
  [type : ExecutorTypes \cup {"approval"}, max_attempts : Nat,
   input : {"literal", "previous_output", "checkpoint"}]

ASSUME DefinitionsAssumption ==
  \A d \in Definitions :
    /\ d.run_at \in Nat \cup {NULL}
    /\ d.task_timeout_seconds \in Nat
    /\ d.steps \in Seq(StepDefinition)

VARIABLES
  tasks,   \* tasks[t]: the row of task t (status "NONE" before it is created)
  steps,   \* steps[t]: the rows of task_steps in step_index order
  events,  \* events[t]: the rows of task_events in id order
  now      \* clock_timestamp() of the database

vars == <<tasks, steps, events, now>>

-----------------------------------------------------------------------------
(* The tables. *)

TerminalStatus == {"SUCCEEDED", "FAILED", "CANCELLED", "TIMED_OUT"}

LiveStatus == {"SCHEDULED", "RUNNABLE", "RUNNING", "RETRY_WAIT", "WAITING_APPROVAL"}

Time == Nat \cup {NULL}

TaskRow ==
  [status : LiveStatus \cup TerminalStatus \cup {"NONE"},
   run_at : Time,
   worker_id : Workers \cup {NULL},
   lease_version : Nat,
   lease_expires_at : Time,
   retry_at : Time,
   cancel_requested : BOOLEAN,
   current_step : Nat \ {0},
   checkpoint : Outputs \cup {"{}"},
   task_timeout_seconds : Nat,
   deadline_at : Time]

StepStatus == {"PENDING", "RUNNING", "WAITING_APPROVAL", "SUCCEEDED", "FAILED"}

Value == Outputs \cup {"{}", "literal"}

StepRow ==
  [type : ExecutorTypes \cup {"approval"},
   max_attempts : Nat,
   input : {"literal", "previous_output", "checkpoint"},
   status : StepStatus,
   attempt : Nat,
   resolved_input : Value \cup {NULL},
   output : Outputs \cup {NULL},
   error : Errors \cup {NULL},
   approval_decision : {"approved", "rejected", NULL}]

EventTypes ==
  {"TASK_CREATED", "TASK_SCHEDULED", "TASK_RUNNABLE", "TASK_CLAIMED", "LEASE_EXPIRED",
   "TASK_RECOVERED", "STEP_STARTED", "STEP_SUCCEEDED", "STEP_FAILED", "TASK_RETRY_WAIT",
   "TASK_RETRY_READY", "TASK_WAITING_APPROVAL", "TASK_APPROVED", "TASK_REJECTED",
   "TASK_SUCCEEDED", "TASK_FAILED", "TASK_CANCELLED", "TASK_TIMED_OUT"}

\* The payload fields that some writer stores; NULL where this event has none.
EventRow ==
  [type : EventTypes,
   step : Nat \cup {NULL},
   attempt : Nat \cup {NULL},
   worker : Workers \cup {NULL},
   lease_version : Nat \cup {NULL},
   created_at : Nat]

NoTask ==
  [status |-> "NONE", run_at |-> NULL, worker_id |-> NULL, lease_version |-> 0,
   lease_expires_at |-> NULL, retry_at |-> NULL, cancel_requested |-> FALSE,
   current_step |-> 1, checkpoint |-> "{}", task_timeout_seconds |-> 0,
   deadline_at |-> NULL]

NewStep(d) ==
  [type |-> d.type, max_attempts |-> d.max_attempts, input |-> d.input,
   status |-> "PENDING", attempt |-> 0, resolved_input |-> NULL, output |-> NULL,
   error |-> NULL, approval_decision |-> NULL]

Event(type, step, attempt, worker, version) ==
  [type |-> type, step |-> step, attempt |-> attempt, worker |-> worker,
   lease_version |-> version, created_at |-> now]

TaskEvent(type) == Event(type, NULL, NULL, NULL, NULL)
LeaseEvent(type, worker, version) == Event(type, NULL, NULL, worker, version)
StepEvent(type, i, n) == Event(type, i, n, NULL, NULL)

HasCurrentStep(t) == tasks[t].current_step \in DOMAIN steps[t]
CurrentStep(t) == steps[t][tasks[t].current_step]

\* Mutant: the index is compared with the count as if both counted from 0.
IsLastStep_OffByOne(t, i) == i = Len(steps[t]) + 1

IsLastStep(t, i) == i = Len(steps[t])

\* Mutant: a failed task counts as unfinished.
isTerminalStatus_ForgetsFailed(status) == status \in TerminalStatus \ {"FAILED"}

isTerminalStatus(status) == status \in TerminalStatus

DeadlinePassed(t) == tasks[t].deadline_at # NULL /\ tasks[t].deadline_at <= now

\* The writes of one transaction on task t.
Commit(t, row, stepRows, newEvents) ==
  /\ tasks' = [tasks EXCEPT ![t] = row]
  /\ steps' = [steps EXCEPT ![t] = stepRows]
  /\ events' = [events EXCEPT ![t] = @ \o newEvents]
  /\ UNCHANGED now

\* Mutant: the expiry of the lease is left behind.
Released_KeepsExpiry(row, status) == [row EXCEPT !.status = status, !.worker_id = NULL]

\* A row that leaves RUNNING, or stays without an owner.
Released(row, status) ==
  [row EXCEPT !.status = status, !.worker_id = NULL, !.lease_expires_at = NULL]

-----------------------------------------------------------------------------
(* Ownership: what a call that presents a lease token must satisfy. *)

\* The tokens that ClaimTask has returned for task t.
IssuedLeases(t) ==
  {[task |-> t, worker |-> e.worker, version |-> e.lease_version] :
     e \in {events[t][k] : k \in {j \in DOMAIN events[t] : events[t][j].type = "TASK_CLAIMED"}}}

\* The attempts that StartStep has returned to the holder of lease.
StartedAttempts(lease) ==
  LET log == events[lease.task]
  IN  {[step |-> log[k].step, attempt |-> log[k].attempt] :
         k \in {j \in DOMAIN log : /\ log[j].type = "STEP_STARTED"
                                   /\ log[j].worker = lease.worker
                                   /\ log[j].lease_version = lease.version}}

\* Mutant: only the worker's name fences, not the lease version.
ownsActiveLease_AnyVersion(lease) ==
  LET row == tasks[lease.task]
  IN  row.status = "RUNNING" /\ row.worker_id = lease.worker /\ row.lease_expires_at > now

\* Mutant: the lease still counts at the very moment it expires.
ownsActiveLease_Inclusive(lease) ==
  LET row == tasks[lease.task]
  IN  /\ row.status = "RUNNING" /\ row.worker_id = lease.worker
      /\ row.lease_version = lease.version /\ row.lease_expires_at >= now

ownsActiveLease(lease) ==
  LET row == tasks[lease.task]
  IN  /\ row.status = "RUNNING"
      /\ row.worker_id = lease.worker
      /\ row.lease_version = lease.version
      /\ row.lease_expires_at > now

\* Mutant: the owner may go on after a cancellation was requested.
validateOwnership_IgnoresCancel(lease) ==
  IF ~ownsActiveLease(lease) THEN "ErrLeaseLost"
  ELSE IF DeadlinePassed(lease.task) THEN "ErrDeadlineExceeded"
  ELSE "nil"

validateOwnership(lease) ==
  IF ~ownsActiveLease(lease) THEN "ErrLeaseLost"
  ELSE IF tasks[lease.task].cancel_requested THEN "ErrCancelled"
  ELSE IF DeadlinePassed(lease.task) THEN "ErrDeadlineExceeded"
  ELSE "nil"

-----------------------------------------------------------------------------
(* POST /tasks. *)

ValidateInputReferences(input, allowPrevious) == input = "previous_output" => allowPrevious

\* Mutant: a task without steps is accepted.
validateDefinition_AllowsEmpty(d) ==
  /\ Len(d.steps) <= 100
  /\ d.task_timeout_seconds > 0
  /\ \A i \in DOMAIN d.steps :
       /\ d.steps[i].max_attempts > 0
       /\ ValidateInputReferences(d.steps[i].input, i > 1)

validateDefinition(d) ==
  /\ Len(d.steps) > 0 /\ Len(d.steps) <= 100
  /\ d.task_timeout_seconds > 0
  /\ \A i \in DOMAIN d.steps :
       /\ d.steps[i].max_attempts > 0
       /\ ValidateInputReferences(d.steps[i].input, i > 1)

CreateTask(t, d) ==
  LET scheduled == d.run_at # NULL /\ d.run_at > now
  IN  /\ tasks[t].status = "NONE"
      /\ validateDefinition(d)
      /\ Commit(t,
                [NoTask EXCEPT !.status = IF scheduled THEN "SCHEDULED" ELSE "RUNNABLE",
                               !.run_at = IF d.run_at = NULL THEN now ELSE d.run_at,
                               !.task_timeout_seconds = d.task_timeout_seconds],
                [i \in DOMAIN d.steps |-> NewStep(d.steps[i])],
                <<TaskEvent("TASK_CREATED")>> \o
                  IF scheduled THEN <<TaskEvent("TASK_SCHEDULED")>> ELSE <<>>)

-----------------------------------------------------------------------------
(* ClaimTask: a worker leases a due task, or takes over one whose lease has *)
(* expired.  FOR UPDATE SKIP LOCKED passes over rows that other sessions    *)
(* hold, so any row that qualifies may be the one returned.                 *)

Claimable(t) ==
  /\ \/ tasks[t].status = "RUNNABLE" /\ tasks[t].run_at <= now
     \/ tasks[t].status = "RUNNING" /\ tasks[t].lease_expires_at <= now
  /\ ~tasks[t].cancel_requested
  /\ ~DeadlinePassed(t)

\* Mutant: every claim starts the task's time again.
Leased_RestartsDeadline(row, w) ==
  [row EXCEPT !.status = "RUNNING", !.worker_id = w, !.lease_version = @ + 1,
              !.lease_expires_at = now + LeaseDuration,
              !.deadline_at = now + row.task_timeout_seconds]

Leased(row, w) ==
  [row EXCEPT !.status = "RUNNING",
              !.worker_id = w,
              !.lease_version = @ + 1,
              !.lease_expires_at = now + LeaseDuration,
              !.deadline_at = IF @ = NULL THEN now + row.task_timeout_seconds ELSE @]

ClaimRunnable(w, t) ==
  /\ Claimable(t)
  /\ tasks[t].status = "RUNNABLE"
  /\ Commit(t, Leased(tasks[t], w), steps[t],
            <<LeaseEvent("TASK_CLAIMED", w, tasks[t].lease_version + 1)>>)

\* recoverExpiredTask: the attempt that the lost owner left running has failed.
Abandoned(t) == HasCurrentStep(t) /\ CurrentStep(t).status = "RUNNING"

\* Mutant: one attempt too many.
RecoveryExhausted_OffByOne(t) ==
  Abandoned(t) /\ CurrentStep(t).attempt > CurrentStep(t).max_attempts

RecoveryExhausted(t) == Abandoned(t) /\ CurrentStep(t).attempt >= CurrentStep(t).max_attempts

\* Mutant: a takeover gives the step its budget back.
AbandonedSteps_ResetsBudget(t) ==
  IF Abandoned(t)
  THEN [steps[t] EXCEPT ![tasks[t].current_step] =
          [@ EXCEPT !.status = "FAILED", !.error = "worker_lost", !.attempt = 0]]
  ELSE steps[t]

AbandonedSteps(t) ==
  IF Abandoned(t)
  THEN [steps[t] EXCEPT ![tasks[t].current_step] =
          [@ EXCEPT !.status = "FAILED", !.error = "worker_lost"]]
  ELSE steps[t]

RecoveryEvents(t) ==
  <<LeaseEvent("LEASE_EXPIRED", tasks[t].worker_id, tasks[t].lease_version)>> \o
  IF Abandoned(t)
  THEN <<Event("STEP_FAILED", tasks[t].current_step, CurrentStep(t).attempt,
               tasks[t].worker_id, tasks[t].lease_version)>>
  ELSE <<>>

ClaimExpired(w, t) ==
  /\ Claimable(t)
  /\ tasks[t].status = "RUNNING"
  /\ HasCurrentStep(t)
  /\ ~RecoveryExhausted(t)
  /\ Commit(t, Leased(tasks[t], w), AbandonedSteps(t),
            RecoveryEvents(t) \o
            <<LeaseEvent("TASK_RECOVERED", w, tasks[t].lease_version + 1),
              LeaseEvent("TASK_CLAIMED", w, tasks[t].lease_version + 1)>>)

\* A claim that finds nothing left to run: it ends the task and returns ErrNoTask.
ConvergeExpired(t) ==
  LET status == IF HasCurrentStep(t) THEN "FAILED" ELSE "SUCCEEDED"
  IN  /\ Claimable(t)
      /\ tasks[t].status = "RUNNING"
      /\ ~HasCurrentStep(t) \/ RecoveryExhausted(t)
      /\ Commit(t, Released(tasks[t], status), AbandonedSteps(t),
                RecoveryEvents(t) \o
                IF HasCurrentStep(t)
                THEN <<Event("TASK_FAILED", tasks[t].current_step, CurrentStep(t).attempt,
                             tasks[t].worker_id, tasks[t].lease_version)>>
                ELSE <<TaskEvent("TASK_SUCCEEDED")>>)

-----------------------------------------------------------------------------
(* The owner's calls. *)

RenewLease(lease) ==
  LET t == lease.task
  IN  /\ validateOwnership(lease) = "nil"
      /\ Commit(t, [tasks[t] EXCEPT !.lease_expires_at = now + LeaseDuration], steps[t], <<>>)

\* What the references in an input stand for; NULL is the error that it is unavailable.
resolveValue(input, previousOutput, checkpoint) ==
  IF input = "literal" THEN "literal"
  ELSE IF input = "checkpoint" THEN checkpoint
  ELSE previousOutput

\* Mutant: the reference reads the predecessor's input instead of its output.
ResolveInput_WrongColumn(t, i) ==
  LET step == steps[t][i]
      previous == IF i > 1 THEN steps[t][i - 1].resolved_input ELSE NULL
  IN  IF step.resolved_input # NULL THEN step.resolved_input
      ELSE resolveValue(step.input, previous, tasks[t].checkpoint)

\* The input that an earlier attempt persisted, or else task.ResolveInput of the
\* configured one.
ResolveInput(t, i) ==
  LET step == steps[t][i]
      previous == IF i > 1 THEN steps[t][i - 1].output ELSE NULL
  IN  IF step.resolved_input # NULL THEN step.resolved_input
      ELSE resolveValue(step.input, previous, tasks[t].checkpoint)

PredecessorsSucceeded(t, i) == \A j \in 1..(i - 1) : steps[t][j].status = "SUCCEEDED"

\* Mutant: the attempt counter is not advanced.
Started_KeepsAttempt(step, input) ==
  [step EXCEPT !.status = "RUNNING", !.resolved_input = input, !.error = NULL]

Started(step, input) ==
  [step EXCEPT !.status = "RUNNING", !.attempt = @ + 1, !.resolved_input = input,
               !.error = NULL]

StartAllowed(lease, i) ==
  LET t == lease.task
      step == steps[t][i]
  IN  /\ validateOwnership(lease) = "nil"
      /\ step.type # "approval"
      /\ i = tasks[t].current_step
      /\ step.status \in {"PENDING", "FAILED"}
      /\ step.attempt < step.max_attempts
      /\ PredecessorsSucceeded(t, i)
      /\ ResolveInput(t, i) # NULL

StartStep(lease, i) ==
  LET t == lease.task
  IN  /\ StartAllowed(lease, i)
      /\ Commit(t, tasks[t],
                [steps[t] EXCEPT ![i] = Started(@, ResolveInput(t, i))],
                <<Event("STEP_STARTED", i, steps[t][i].attempt + 1, lease.worker, lease.version)>>)

WaitForApproval(lease, i) ==
  LET t == lease.task
      step == steps[t][i]
  IN  /\ validateOwnership(lease) = "nil"
      /\ step.type = "approval"
      /\ i = tasks[t].current_step
      /\ step.status = "PENDING"
      /\ step.attempt = 0
      /\ PredecessorsSucceeded(t, i)
      /\ ResolveInput(t, i) # NULL
      /\ Commit(t, [Released(tasks[t], "WAITING_APPROVAL") EXCEPT !.retry_at = NULL],
                [steps[t] EXCEPT ![i] = [@ EXCEPT !.status = "WAITING_APPROVAL",
                                                  !.resolved_input = ResolveInput(t, i),
                                                  !.error = NULL]],
                <<StepEvent("TASK_WAITING_APPROVAL", i, NULL)>>)

\* What an executor reports: a result, or an error and its class.
Outcomes ==
  [output : Outputs \cup {Oversized}, checkpoint : Outputs \cup {Oversized, NULL},
   error : {NULL}, failure_class : {NULL}]
  \cup
  [output : {NULL}, checkpoint : {NULL},
   error : {"execution_failed"}, failure_class : {"temporary", "permanent"}]

\* A result past the size limit is an error, of the class the outcome came with.
Limited(outcome) ==
  IF outcome.checkpoint = Oversized
  THEN [outcome EXCEPT !.error = "checkpoint_too_large", !.output = NULL, !.checkpoint = NULL]
  ELSE IF outcome.output = Oversized
  THEN [outcome EXCEPT !.error = "output_too_large", !.output = NULL]
  ELSE outcome

\* Mutant: the delay never grows.
Backoff_Constant(attempt) == 1

\* 1 << min(attempt - 1, 6) seconds, at most a minute.
Backoff(attempt) ==
  LET shifted == <<1, 2, 4, 8, 16, 32, 64>>[IF attempt > 7 THEN 7 ELSE attempt]
  IN  IF shifted > 60 THEN 60 ELSE shifted

Finishable(lease, attempt) ==
  LET step == steps[lease.task][attempt.step]
  IN  /\ validateOwnership(lease) = "nil"
      /\ step.status = "RUNNING"
      /\ step.attempt = attempt.attempt
      /\ attempt.step = tasks[lease.task].current_step

FinishStepFailed(lease, attempt, outcome) ==
  LET t == lease.task
      i == attempt.step
      limited == Limited(outcome)
      retrying == /\ limited.failure_class = "temporary"
                  /\ attempt.attempt < steps[t][i].max_attempts
      Logged(type) == Event(type, i, attempt.attempt, lease.worker, lease.version)
  IN  /\ Finishable(lease, attempt)
      /\ limited.error # NULL
      /\ Commit(t,
                [Released(tasks[t], IF retrying THEN "RETRY_WAIT" ELSE "FAILED") EXCEPT
                   !.retry_at = IF retrying THEN now + Backoff(attempt.attempt) ELSE NULL],
                [steps[t] EXCEPT ![i] = [@ EXCEPT !.status = "FAILED",
                                                  !.output = NULL,
                                                  !.error = limited.error]],
                <<Logged("STEP_FAILED"),
                  IF retrying THEN StepEvent("TASK_RETRY_WAIT", i, attempt.attempt)
                              ELSE Logged("TASK_FAILED")>>)

FinishStepSucceeded(lease, attempt, outcome) ==
  LET t == lease.task
      i == attempt.step
      terminal == IsLastStep(t, i)
      advanced == [tasks[t] EXCEPT
                     !.current_step = i + 1,
                     !.checkpoint = IF outcome.checkpoint = NULL THEN @ ELSE outcome.checkpoint]
      Logged(type) == Event(type, i, attempt.attempt, lease.worker, lease.version)
  IN  /\ Finishable(lease, attempt)
      /\ Limited(outcome).error = NULL
      /\ Commit(t,
                IF terminal THEN Released(advanced, "SUCCEEDED") ELSE advanced,
                [steps[t] EXCEPT ![i] = [@ EXCEPT !.status = "SUCCEEDED",
                                                  !.output = outcome.output,
                                                  !.error = NULL]],
                <<Logged("STEP_SUCCEEDED")>> \o
                  IF terminal THEN <<Logged("TASK_SUCCEEDED")>> ELSE <<>>)

-----------------------------------------------------------------------------
(* What commitWithFactCheck reads, on another connection and without a lock, *)
(* after a COMMIT that returned an error: is what was written there?         *)

HasEvent(t, type, i, n) ==
  \E k \in DOMAIN events[t] : /\ events[t][k].type = type
                              /\ events[t][k].step = i
                              /\ events[t][k].attempt = n

stepStartPersisted(t, i, n, input) ==
  /\ steps[t][i].status = "RUNNING"
  /\ steps[t][i].attempt = n
  /\ steps[t][i].resolved_input = input
  /\ HasEvent(t, "STEP_STARTED", i, n)

\* The rows as the outcome of attempt n leaves them.
FinishWritten(t, i, n, outcome) ==
  LET step == steps[t][i]
      limited == Limited(outcome)
      retrying == limited.failure_class = "temporary" /\ n < step.max_attempts
  IN  \/ /\ limited.error = NULL
         /\ step.status = "SUCCEEDED"
         /\ step.output = limited.output
         /\ tasks[t].current_step > i
         /\ HasEvent(t, "STEP_SUCCEEDED", i, n)
      \/ /\ limited.error # NULL
         /\ step.status = "FAILED"
         /\ step.error = limited.error
         /\ tasks[t].status = IF retrying THEN "RETRY_WAIT" ELSE "FAILED"
         /\ HasEvent(t, "STEP_FAILED", i, n)

\* Mutant: the step's error is not compared, and worker_lost passes for the caller's.
stepFinishPersisted_AnyError(t, attempt, outcome) ==
  LET errors == IF outcome.error = NULL THEN {NULL} ELSE Errors
  IN  /\ steps[t][attempt.step].attempt = attempt.attempt
      /\ \E error \in errors :
           FinishWritten(t, attempt.step, attempt.attempt, [outcome EXCEPT !.error = error])

stepFinishPersisted(t, attempt, outcome) ==
  /\ steps[t][attempt.step].attempt = attempt.attempt
  /\ FinishWritten(t, attempt.step, attempt.attempt, outcome)

-----------------------------------------------------------------------------
(* Cancellation and the task deadline. *)

\* Mutant: a status the table does not know.
cancelledOutcome_Misspelt == [status |-> "CANCELED", reason |-> "user_cancelled",
                              eventType |-> "TASK_CANCELLED"]

cancelledOutcome == [status |-> "CANCELLED", reason |-> "user_cancelled",
                     eventType |-> "TASK_CANCELLED"]

timedOutOutcome == [status |-> "TIMED_OUT", reason |-> "task_timeout",
                    eventType |-> "TASK_TIMED_OUT"]

finishControlledTask(t, outcome) ==
  LET c == tasks[t].current_step
      open == HasCurrentStep(t) /\ CurrentStep(t).status # "SUCCEEDED"
  IN  Commit(t, [Released(tasks[t], outcome.status) EXCEPT !.retry_at = NULL],
             IF open
             THEN [steps[t] EXCEPT ![c] = [@ EXCEPT !.status = "FAILED",
                                                    !.output = NULL,
                                                    !.error = outcome.reason]]
             ELSE steps[t],
             (IF open THEN <<StepEvent("STEP_FAILED", c, CurrentStep(t).attempt)>> ELSE <<>>)
               \o <<StepEvent(outcome.eventType, c, NULL)>>)

TimeoutOwnedTask(lease) ==
  /\ ownsActiveLease(lease)
  /\ ~tasks[lease.task].cancel_requested
  /\ DeadlinePassed(lease.task)
  /\ finishControlledTask(lease.task, timedOutOutcome)

CancelOwnedTask(lease) ==
  /\ ownsActiveLease(lease)
  /\ tasks[lease.task].cancel_requested
  /\ finishControlledTask(lease.task, cancelledOutcome)

\* POST /tasks/{id}/cancel: a running task keeps its owner and is only marked.
RequestCancel(t) ==
  /\ tasks[t].status = "RUNNING"
  /\ Commit(t, [tasks[t] EXCEPT !.cancel_requested = TRUE], steps[t], <<>>)

CancelSynchronously(t) ==
  /\ tasks[t].status \notin {"NONE", "RUNNING"}
  /\ ~isTerminalStatus(tasks[t].status)
  /\ finishControlledTask(t, cancelledOutcome)

-----------------------------------------------------------------------------
(* POST /tasks/{id}/approve and /reject, which name the step. *)

\* Mutant: a decision may come after the task's deadline.
Decidable_AnyTime(t, i) ==
  /\ steps[t][i].approval_decision = NULL
  /\ tasks[t].status = "WAITING_APPROVAL"
  /\ steps[t][i].type = "approval"
  /\ steps[t][i].status = "WAITING_APPROVAL"
  /\ i = tasks[t].current_step
  /\ ~tasks[t].cancel_requested

Decidable(t, i) ==
  /\ steps[t][i].approval_decision = NULL
  /\ tasks[t].status = "WAITING_APPROVAL"
  /\ steps[t][i].type = "approval"
  /\ steps[t][i].status = "WAITING_APPROVAL"
  /\ i = tasks[t].current_step
  /\ ~tasks[t].cancel_requested
  /\ ~DeadlinePassed(t)

Approve(t, i) ==
  LET terminal == IsLastStep(t, i)
  IN  /\ Decidable(t, i)
      /\ Commit(t,
                [Released(tasks[t], IF terminal THEN "SUCCEEDED" ELSE "RUNNABLE") EXCEPT
                   !.current_step = i + 1, !.retry_at = NULL],
                [steps[t] EXCEPT ![i] = [@ EXCEPT !.approval_decision = "approved",
                                                  !.status = "SUCCEEDED",
                                                  !.error = NULL]],
                <<StepEvent("TASK_APPROVED", i, NULL)>> \o
                  IF terminal THEN <<StepEvent("TASK_SUCCEEDED", i, NULL)>> ELSE <<>>)

Reject(t, i) ==
  /\ Decidable(t, i)
  /\ Commit(t, [Released(tasks[t], "FAILED") EXCEPT !.retry_at = NULL],
            [steps[t] EXCEPT ![i] = [@ EXCEPT !.approval_decision = "rejected",
                                              !.status = "FAILED",
                                              !.error = "approval_rejected"]],
            <<StepEvent("TASK_REJECTED", i, NULL), StepEvent("TASK_FAILED", i, NULL)>>)

\* Mutant: whatever was decided counts as the decision that was asked for.
decisionPersisted_AnyDecision(t, i, decision) == steps[t][i].approval_decision # NULL

\* The fact check of a decision whose COMMIT returned an error.
decisionPersisted(t, i, decision) ==
  /\ steps[t][i].approval_decision = decision
  /\ \/ /\ decision = "approved"
        /\ steps[t][i].status = "SUCCEEDED"
        /\ tasks[t].current_step > i
        /\ HasEvent(t, "TASK_APPROVED", i, NULL)
     \/ /\ decision = "rejected"
        /\ steps[t][i].status = "FAILED"
        /\ tasks[t].status = "FAILED" /\ tasks[t].current_step = i
        /\ HasEvent(t, "TASK_REJECTED", i, NULL)

-----------------------------------------------------------------------------
(* ProcessDueControl: one pass of a scheduler takes one due row.  On a row  *)
(* a cancellation comes before the deadline, and the deadline before a     *)
(* wake-up.                                                                *)

wakeRetryTask(t) ==
  Commit(t, [tasks[t] EXCEPT !.status = "RUNNABLE", !.retry_at = NULL], steps[t],
         <<TaskEvent("TASK_RETRY_READY")>>)

wakeScheduledTask(t) ==
  Commit(t, [tasks[t] EXCEPT !.status = "RUNNABLE"], steps[t],
         <<TaskEvent("TASK_RUNNABLE")>>)

RetryDue(t) == tasks[t].status = "RETRY_WAIT" /\ tasks[t].retry_at <= now

\* Mutant: the wake-up of a scheduled task reads the retry's column.
ScheduleDue_WrongColumn(t) ==
  tasks[t].status = "SCHEDULED" /\ tasks[t].retry_at # NULL /\ tasks[t].retry_at <= now

ScheduleDue(t) == tasks[t].status = "SCHEDULED" /\ tasks[t].run_at <= now

\* Mutant: the deadline comes before the cancellation.
CancelDue_AfterDeadline(t) == tasks[t].cancel_requested /\ ~DeadlinePassed(t)

CancelDue(t) == tasks[t].cancel_requested

ControlPending(t) == CancelDue(t) \/ DeadlinePassed(t)

\* Mutant: the scan forgets that a succeeded task is over.
Unfinished_ForgetsSucceeded(t) == tasks[t].status \in LiveStatus \cup {"SUCCEEDED"}

Unfinished(t) == tasks[t].status \in LiveStatus

ProcessDueControl(t) ==
  /\ Unfinished(t)
  /\ \/ /\ CancelDue(t)
        /\ finishControlledTask(t, cancelledOutcome)
     \/ /\ ~CancelDue(t)
        /\ DeadlinePassed(t)
        /\ finishControlledTask(t, timedOutOutcome)
     \/ ~ControlPending(t) /\ RetryDue(t) /\ wakeRetryTask(t)
     \/ ~ControlPending(t) /\ ScheduleDue(t) /\ wakeScheduledTask(t)

\* WakeDueRetry: the wake-up alone, for a caller that has no deadline to enforce.
WakeDueRetry(t) ==
  /\ RetryDue(t)
  /\ ~tasks[t].cancel_requested
  /\ ~DeadlinePassed(t)
  /\ wakeRetryTask(t)

-----------------------------------------------------------------------------
(* Time.  The clock runs while some live row waits for it; between two     *)
(* such rows the moment at which anything happens cannot be told apart.    *)

Awaited(t) == {tasks[t].run_at, tasks[t].lease_expires_at, tasks[t].retry_at,
               tasks[t].deadline_at} \ {NULL}

Tick ==
  /\ \E t \in Tasks : tasks[t].status \in LiveStatus /\ \E at \in Awaited(t) : at > now
  /\ now' = now + 1
  /\ UNCHANGED <<tasks, steps, events>>

\* Every task has ended: the system is idle for good.
Idle ==
  /\ \A t \in Tasks : tasks[t].status \in TerminalStatus
  /\ UNCHANGED vars

Init ==
  /\ tasks = [t \in Tasks |-> NoTask]
  /\ steps = [t \in Tasks |-> <<>>]
  /\ events = [t \in Tasks |-> <<>>]
  /\ now = 0

ClientStep(t) ==
  \/ \E d \in Definitions : CreateTask(t, d)
  \/ RequestCancel(t)
  \/ CancelSynchronously(t)
  \/ \E i \in DOMAIN steps[t] : Approve(t, i) \/ Reject(t, i)

ClaimTask(w, t) == ClaimRunnable(w, t) \/ ClaimExpired(w, t) \/ ConvergeExpired(t)

OwnerStep(lease) ==
  \/ RenewLease(lease)
  \/ \E i \in DOMAIN steps[lease.task] : StartStep(lease, i) \/ WaitForApproval(lease, i)
  \/ \E attempt \in StartedAttempts(lease), outcome \in Outcomes :
       FinishStepFailed(lease, attempt, outcome) \/ FinishStepSucceeded(lease, attempt, outcome)
  \/ TimeoutOwnedTask(lease)
  \/ CancelOwnedTask(lease)

Next ==
  \/ \E t \in Tasks : \/ ClientStep(t)
                      \/ \E w \in Workers : ClaimTask(w, t)
                      \/ \E lease \in IssuedLeases(t) : OwnerStep(lease)
                      \/ ProcessDueControl(t)
                      \/ WakeDueRetry(t)
  \/ Tick
  \/ Idle

Spec == Init /\ [][Next]_vars

\* The scheduler polls until it stops, a worker slot polls for claims, and time
\* passes.  Nothing is assumed of what a worker does with a claim: it may crash.
Fairness ==
  /\ \A t \in Tasks : WF_vars(ProcessDueControl(t))
  /\ \A t \in Tasks : WF_vars(\E w \in Workers : ClaimTask(w, t))
  /\ WF_vars(Tick)

FairSpec == Spec /\ Fairness

\* Schedulers and the clock only; no worker is ever up.
SchedulerSpec == Spec /\ (\A t \in Tasks : WF_vars(ProcessDueControl(t))) /\ WF_vars(Tick)

-----------------------------------------------------------------------------
(* Invariants of the rows. *)

\* Every row holds values its columns admit.
TypeOK ==
  /\ tasks \in [Tasks -> TaskRow]
  /\ steps \in [Tasks -> Seq(StepRow)]
  /\ events \in [Tasks -> Seq(EventRow)]
  /\ now \in Nat

Ownership(row) ==
  IF row.status = "RUNNING"
  THEN row.worker_id # NULL /\ row.lease_expires_at # NULL
  ELSE row.worker_id = NULL /\ row.lease_expires_at = NULL

\* The constraint task_ownership_matches_status of 001_init.sql: no sequence of
\* transactions is aborted by it.
OwnershipMatchesStatus == \A t \in Tasks : Ownership(tasks[t])

Clocks(row) ==
  /\ row.status # "NONE" => row.run_at # NULL
  /\ row.retry_at # NULL <=> row.status = "RETRY_WAIT"
  /\ row.deadline_at # NULL <=> row.lease_version > 0
  /\ row.status \in {"RUNNING", "RETRY_WAIT", "WAITING_APPROVAL"} => row.lease_version > 0
  /\ row.cancel_requested => row.status \in {"RUNNING", "CANCELLED"}

\* The columns that claims and the scheduler scan agree with the status: a retry
\* time exactly in RETRY_WAIT, a deadline exactly since the first claim, and a
\* cancellation pending only on a task that runs or was cancelled.
ClocksMatchStatus == \A t \in Tasks : Clocks(tasks[t])

Untouched(step) ==
  /\ step.status = "PENDING"
  /\ step.attempt = 0
  /\ step.resolved_input = NULL
  /\ step.approval_decision = NULL

Cursor(row, st) ==
  /\ \A i \in DOMAIN st : i < row.current_step => st[i].status = "SUCCEEDED"
  /\ \A i \in DOMAIN st : i > row.current_step => Untouched(st[i])
  /\ row.current_step <= Len(st) + 1
  /\ row.status # "NONE" => (row.status = "SUCCEEDED" <=> row.current_step = Len(st) + 1)

\* current_step separates the steps that have succeeded from those that were
\* never touched, and a task is SUCCEEDED exactly when it has no step left;
\* recoverExpiredTask and StartStep rely on it.
StepsBehindCursor == \A t \in Tasks : Cursor(tasks[t], steps[t])

Startable(step) == step.status \in {"PENDING", "FAILED"} /\ step.attempt < step.max_attempts

InFlight(step) ==
  step.type # "approval" /\ step.status = "RUNNING" /\ step.attempt \in 1..step.max_attempts

Fits(step, status) ==
  /\ step.approval_decision = NULL
  /\ status \in {"SCHEDULED", "RUNNABLE"} => Startable(step)
  /\ status = "RUNNING" => Startable(step) \/ InFlight(step)
  /\ status = "RETRY_WAIT" => step.type # "approval" /\ step.status = "FAILED" /\ Startable(step)
  /\ status = "WAITING_APPROVAL" => step.type = "approval" /\ step.status = "WAITING_APPROVAL"
  /\ step.type = "approval" =>
       step.status \in {"PENDING", "WAITING_APPROVAL"} /\ step.attempt = 0

CanGoOn(row, st) ==
  row.status \in LiveStatus =>
    row.current_step \in DOMAIN st /\ Fits(st[row.current_step], row.status)

\* A live task can always be carried on: its current step can be started within
\* its budget, is running, or waits for a decision.  If a takeover or a retry
\* left a step with its budget spent, StartStep would refuse it at every claim.
NeverStuck == \A t \in Tasks : CanGoOn(tasks[t], steps[t])

\* What the next pass of a scheduler finds.
DueControl(t) == Unfinished(t) /\ (ControlPending(t) \/ RetryDue(t) \/ ScheduleDue(t))

\* Nothing is due yet: the moment that a row of this status waits for is still to come.
Waits(row) ==
  \/ row.status = "SCHEDULED" /\ row.run_at > now
  \/ row.status = "RUNNING" /\ row.lease_expires_at > now
  \/ row.status = "RETRY_WAIT" /\ row.retry_at > now
  \/ row.status = "WAITING_APPROVAL" /\ row.deadline_at > now

\* No live task falls between the scans: the scheduler's selects it, or that of
\* ClaimTask, or one of them will at a moment that is still to come, also if its owner
\* is gone and no client ever asks for it again.
Attended ==
  \A t \in Tasks :
    tasks[t].status \in LiveStatus =>
      DueControl(t) \/ Claimable(t) \/ Waits(tasks[t])

\* What a step was started with comes from committed facts: the output of the
\* step before it, or the checkpoint as it was when the step became current.
InputsFromCommittedFacts ==
  \A t \in Tasks : \A i \in DOMAIN steps[t] :
    LET step == steps[t][i]
    IN  step.resolved_input # NULL =>
          /\ step.input = "literal" => step.resolved_input = "literal"
          /\ step.input = "previous_output" =>
               /\ steps[t][i - 1].status = "SUCCEEDED"
               /\ step.resolved_input = steps[t][i - 1].output
          /\ (step.input = "checkpoint" /\ step.status # "SUCCEEDED") =>
               step.resolved_input = tasks[t].checkpoint

-----------------------------------------------------------------------------
(* Invariants of the event log. *)

\* An event that an owner wrote carries the token of the latest claim before
\* it: no attempt is started or finished under a lease that was superseded.
FencedWrites ==
  \A t \in Tasks : \A k \in DOMAIN events[t] :
    LET log == events[t]
    IN  (log[k].lease_version # NULL /\ log[k].step # NULL) =>
          \E j \in 1..(k - 1) :
            /\ log[j].type = "TASK_CLAIMED"
            /\ log[j].worker = log[k].worker
            /\ log[j].lease_version = log[k].lease_version
            /\ \A m \in (j + 1)..(k - 1) : log[m].type # "TASK_CLAIMED"

IsStepEvent(e, type, i, n) == e.type = type /\ e.step = i /\ e.attempt = n

\* An attempt is started once; the one before it has failed, and so has the step
\* before it succeeded or been approved.
AttemptsInOrder ==
  \A t \in Tasks : \A k \in DOMAIN events[t] :
    LET log == events[t]
        i == log[k].step
        n == log[k].attempt
    IN  log[k].type = "STEP_STARTED" =>
          /\ \A j \in 1..(k - 1) : ~\E type \in {"STEP_STARTED", "STEP_FAILED", "STEP_SUCCEEDED"} :
               IsStepEvent(log[j], type, i, n)
          /\ n > 1 => \E j \in 1..(k - 1) : IsStepEvent(log[j], "STEP_FAILED", i, n - 1)
          /\ i > 1 => \E j \in 1..(k - 1) : /\ log[j].type \in {"STEP_SUCCEEDED", "TASK_APPROVED"}
                                            /\ log[j].step = i - 1

IsEnd(e, i, n) == IsStepEvent(e, "STEP_SUCCEEDED", i, n) \/ IsStepEvent(e, "STEP_FAILED", i, n)

\* An attempt that an owner ends, or that a takeover ends in its place, was started
\* under the lease in whose name it ends, and has not ended before: whoever else
\* executes it by mistake, what is recorded is what its starter reported.
EndsAsItBegan ==
  \A t \in Tasks : \A k \in DOMAIN events[t] :
    LET log == events[t]
        i == log[k].step
        n == log[k].attempt
    IN  IsEnd(log[k], i, n) /\ log[k].lease_version # NULL =>
          /\ \E j \in 1..(k - 1) : /\ IsStepEvent(log[j], "STEP_STARTED", i, n)
                                  /\ log[j].worker = log[k].worker
                                  /\ log[j].lease_version = log[k].lease_version
          /\ \A j \in 1..(k - 1) : ~IsEnd(log[j], i, n)

TerminalEvent == [SUCCEEDED |-> "TASK_SUCCEEDED", FAILED |-> "TASK_FAILED",
                  CANCELLED |-> "TASK_CANCELLED", TIMED_OUT |-> "TASK_TIMED_OUT"]

\* A task has a terminal event exactly when its status is terminal; it is the one
\* of that status, and the last: of a success, a failure, a cancellation and a
\* timeout that race, one is recorded and nothing after it.
OneVerdict ==
  \A t \in Tasks :
    /\ \A k \in DOMAIN events[t] :
         (\E status \in TerminalStatus : events[t][k].type = TerminalEvent[status])
           => k = Len(events[t])
    /\ tasks[t].status \in TerminalStatus =>
         /\ events[t] # <<>>
         /\ events[t][Len(events[t])].type = TerminalEvent[tasks[t].status]

\* The seconds that a task is to wait after its n-th failed attempt at a step.
Delay(n) == IF n > 6 THEN 60 ELSE <<1, 2, 4, 8, 16, 32>>[n]

\* Nothing comes before its time: a task is not claimed before its run_at, the attempt
\* after a temporary failure does not start before the exponential delay is over, and
\* a task is not taken over before the lease duration has passed since every claim.
NeverEarly ==
  \A t \in Tasks : \A k \in DOMAIN events[t] :
    LET e == events[t][k]
    IN  /\ e.type = "TASK_CLAIMED" => e.created_at >= tasks[t].run_at
        /\ e.type = "STEP_STARTED" =>
             \A j \in 1..(k - 1) :
               events[t][j].type = "TASK_RETRY_WAIT" /\ events[t][j].step = e.step =>
                 e.created_at >= events[t][j].created_at + Delay(events[t][j].attempt)
        /\ e.type = "LEASE_EXPIRED" =>
             \A j \in 1..(k - 1) :
               events[t][j].type = "TASK_CLAIMED" =>
                 e.created_at >= events[t][j].created_at + LeaseDuration

\* From its deadline on, nothing but the verdict happens to a task: it is not
\* claimed, no attempt starts or ends, no approval is asked for or decided.
NothingAfterDeadline ==
  \A t \in Tasks : \A k \in DOMAIN events[t] :
    LET e == events[t][k]
    IN  (tasks[t].deadline_at # NULL /\ e.created_at >= tasks[t].deadline_at) =>
          \/ e.type \in {"TASK_TIMED_OUT", "TASK_CANCELLED"}
          \/ e.type = "STEP_FAILED" /\ e.lease_version = NULL

-----------------------------------------------------------------------------
(* What a step may never do. *)

\* A task that has ended is never touched again, by a late owner, a late decision,
\* a repeated cancellation or the scheduler.
TerminalIsFinal ==
  [][\A t \in Tasks :
       tasks[t].status \in TerminalStatus =>
         tasks'[t] = tasks[t] /\ steps'[t] = steps[t] /\ events'[t] = events[t]]_vars

\* Once a cancellation is recorded the task makes no progress, changes no owner,
\* and can only become CANCELLED.
CancelSticks ==
  [][\A t \in Tasks :
       tasks[t].status = "RUNNING" /\ tasks[t].cancel_requested =>
         /\ tasks'[t].status \in {"RUNNING", "CANCELLED"}
         /\ tasks'[t].cancel_requested
         /\ tasks'[t].current_step = tasks[t].current_step
         /\ tasks'[t].lease_version = tasks[t].lease_version
         /\ \A i \in DOMAIN steps[t] : steps'[t][i].attempt = steps[t][i].attempt]_vars

\* The deadline is set by the first claim and never moves, and a live task whose
\* deadline has passed can only be timed out or cancelled.
DeadlineHolds ==
  [][\A t \in Tasks :
       tasks[t].deadline_at # NULL =>
         /\ tasks'[t].deadline_at = tasks[t].deadline_at
         /\ DeadlinePassed(t) =>
              tasks'[t].status \in {tasks[t].status, "TIMED_OUT", "CANCELLED"}]_vars

\* An owner whose lease has run out, taken over or not, cannot renew it, start a
\* step or complete one.
ExpiredLeaseIsDead ==
  [][\A t \in Tasks :
       (/\ tasks[t].status = "RUNNING"
        /\ tasks[t].lease_expires_at <= now
        /\ tasks'[t].lease_version = tasks[t].lease_version) =>
          /\ tasks'[t].lease_expires_at \in {tasks[t].lease_expires_at, NULL}
          /\ tasks'[t].current_step = tasks[t].current_step
          /\ \A i \in DOMAIN steps[t] : steps'[t][i].attempt = steps[t][i].attempt]_vars

\* Committed facts stay: a step that has succeeded is not run or written again, an
\* input once resolved and a decision once made are kept by every retry, attempts
\* and lease versions only grow, and events are only appended.
FactsPersist ==
  [][\A t \in Tasks :
       /\ tasks'[t].lease_version >= tasks[t].lease_version
       /\ \A k \in DOMAIN events[t] : events'[t][k] = events[t][k]
       /\ \A i \in DOMAIN steps[t] :
            LET old == steps[t][i]
                new == steps'[t][i]
            IN  /\ old.status = "SUCCEEDED" => new = old
                /\ old.resolved_input # NULL => new.resolved_input = old.resolved_input
                /\ old.approval_decision # NULL => new.approval_decision = old.approval_decision
                /\ new.attempt >= old.attempt]_vars

\* What a scan would select is there until someone has taken it: a task that is due
\* stays due until it is woken or ended, and one with a cancellation or a deadline to
\* enforce until it is ended; a task that can be claimed can be until it is claimed,
\* ended or due.  So a poll that comes late still finds it, and polling is enough.
DueUntilTaken ==
  [][\A t \in Tasks :
       /\ DueControl(t) =>
            \/ DueControl(t)' \/ tasks'[t].status \in TerminalStatus
            \/ ~ControlPending(t) /\ tasks'[t].status = "RUNNABLE"
       /\ Claimable(t) =>
            \/ Claimable(t)' \/ DueControl(t)' \/ tasks'[t].status \in TerminalStatus
            \/ tasks'[t].lease_version > tasks[t].lease_version]_vars

-----------------------------------------------------------------------------
(* What must eventually happen. *)

\* Every accepted task reaches a verdict, whatever its workers do: its deadline
\* starts with the first claim, and the scheduler enforces it in every state.
EveryTaskEnds ==
  \A t \in Tasks : tasks[t].status # "NONE" ~> tasks[t].status \in TerminalStatus

\* A recorded cancellation takes effect even when no worker is left to notice it,
\* and is not overtaken by the deadline.
CancelTakesEffect ==
  \A t \in Tasks : tasks[t].cancel_requested ~> tasks[t].status = "CANCELLED"

-----------------------------------------------------------------------------
(* The store implements the transition table. *)

\* What the transition table tells of a task.
life == [t \in Tasks |-> [status |-> tasks[t].status,
                          done |-> tasks[t].current_step - 1,
                          total |-> Len(steps[t]),
                          epoch |-> tasks[t].lease_version,
                          cancelling |-> tasks[t].cancel_requested]]

Lifecycle == INSTANCE TaskLifecycle WITH MaxSteps <- 100

\* Every transaction, whoever calls it and whenever, is a row of the transition
\* table of the design, section 49.2, or invisible there.
ImplementsLifecycle == Lifecycle!Spec

-----------------------------------------------------------------------------
(* What the documents say of an accepted definition. *)

\* Input errors are found when a task is posted, not during execution: the input
\* of a step that is up for execution can be resolved.
AcceptedInputResolves ==
  \A t \in Tasks :
    tasks[t].status = "RUNNING" /\ HasCurrentStep(t) =>
      ResolveInput(t, tasks[t].current_step) # NULL

=============================================================================
