--------------------------- MODULE TaskLifecycle ---------------------------
(***************************************************************************)
(* What the runtime promises of one task, without leases, attempts, time   *)
(* or logs: the state transition table of docs/mvp-technical-design.md,    *)
(* section 49.2.  A task has a fixed number of steps, completes them one by *)
(* one under a succession of owners (epochs), and gets one verdict.        *)
(***************************************************************************)
EXTENDS Integers

CONSTANTS Tasks, MaxSteps

VARIABLE life   \* life[t]: what a client can tell of task t

Verdicts == {"SUCCEEDED", "FAILED", "CANCELLED", "TIMED_OUT"}

Live == {"SCHEDULED", "RUNNABLE", "RUNNING", "RETRY_WAIT", "WAITING_APPROVAL"}

Absent == [status |-> "NONE", done |-> 0, total |-> 0, epoch |-> 0, cancelling |-> FALSE]

Set(t, row) == life' = [life EXCEPT ![t] = row]

Move(t, status) == Set(t, [life[t] EXCEPT !.status = status])

Owned(t) == life[t].status = "RUNNING" /\ ~life[t].cancelling

Create(t) ==
  /\ life[t].status = "NONE"
  /\ \E n \in 1..MaxSteps, status \in {"SCHEDULED", "RUNNABLE"} :
       Set(t, [Absent EXCEPT !.status = status, !.total = n])

Wake(t) == life[t].status \in {"SCHEDULED", "RETRY_WAIT"} /\ Move(t, "RUNNABLE")

\* A first owner, or the next one in the place of an owner that is lost.
Claim(t) ==
  /\ life[t].status = "RUNNABLE" \/ Owned(t)
  /\ Set(t, [life[t] EXCEPT !.status = "RUNNING", !.epoch = @ + 1])

\* The task goes on as status unless this was its last step.
Complete(t, status) ==
  LET last == life[t].done + 1 = life[t].total
  IN  Set(t, [life[t] EXCEPT !.status = IF last THEN "SUCCEEDED" ELSE status, !.done = @ + 1])

CompleteStep(t) == Owned(t) /\ Complete(t, "RUNNING")

Park(t) == Owned(t) /\ (Move(t, "RETRY_WAIT") \/ Move(t, "WAITING_APPROVAL"))

Approve(t) == life[t].status = "WAITING_APPROVAL" /\ Complete(t, "RUNNABLE")

Fail(t) == (Owned(t) \/ life[t].status = "WAITING_APPROVAL") /\ Move(t, "FAILED")

RequestCancel(t) ==
  life[t].status = "RUNNING" /\ Set(t, [life[t] EXCEPT !.cancelling = TRUE])

Cancel(t) ==
  /\ life[t].status \in Live
  /\ life[t].status = "RUNNING" => life[t].cancelling
  /\ Move(t, "CANCELLED")

\* Only a task that was claimed has a deadline; a cancellation comes first.
TimeOut(t) ==
  /\ life[t].status \in Live
  /\ life[t].epoch > 0
  /\ ~life[t].cancelling
  /\ Move(t, "TIMED_OUT")

Init == life = [t \in Tasks |-> Absent]

Next ==
  \E t \in Tasks :
    \/ Create(t) \/ Wake(t) \/ Claim(t) \/ CompleteStep(t) \/ Park(t) \/ Approve(t)
    \/ Fail(t) \/ RequestCancel(t) \/ Cancel(t) \/ TimeOut(t)

Spec == Init /\ [][Next]_life

=============================================================================
