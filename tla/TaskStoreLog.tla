---------------------------- MODULE TaskStoreLog ----------------------------
(***************************************************************************)
(* What the event log of a task tells, at every moment, of what was done   *)
(* to the task.  Every part below relates a row, its steps and its log;    *)
(* each is kept by every effect, and together they imply the invariants of *)
(* the log.                                                                *)
(***************************************************************************)
EXTENDS TaskStoreSteps

\* No event is from the future.
Past(q, at) == \A k \in DOMAIN q : q[k].created_at <= at

\* A task has time to run in, and was due when it was made runnable or first claimed.
Dated(row, at) ==
  /\ row.status # "NONE" => row.task_timeout_seconds > 0
  /\ row.lease_version > 0 \/ row.status = "RUNNABLE" => row.run_at <= at

VerdictTypes == {"TASK_SUCCEEDED", "TASK_FAILED", "TASK_CANCELLED", "TASK_TIMED_OUT"}

\* A verdict is the last event, and there is one exactly when the task has ended.
Verdict(row, q) ==
  /\ \A k \in DOMAIN q : q[k].type \in VerdictTypes => k = Len(q)
  /\ row.status \in TerminalStatus =>
       Len(q) > 0 /\ q[Len(q)].type = TerminalEvent[row.status]
  /\ row.status \notin TerminalStatus => \A k \in DOMAIN q : q[k].type \notin VerdictTypes

\* An event of a task whose deadline has passed only ends it.
Timely(row, e) ==
  row.deadline_at # NULL /\ e.created_at >= row.deadline_at =>
    \/ e.type \in {"TASK_TIMED_OUT", "TASK_CANCELLED"}
    \/ e.type = "STEP_FAILED" /\ e.lease_version = NULL

\* The last claim in the first n events is the one of this worker and version.
LastClaim(q, n, worker, version) ==
  \E j \in 1..n : /\ q[j].type = "TASK_CLAIMED"
                  /\ q[j].worker = worker
                  /\ q[j].lease_version = version
                  /\ \A m \in (j + 1)..n : q[m].type # "TASK_CLAIMED"

\* The owner of a task that runs is the one of the last claim in its log.
Held(row, q) == row.status = "RUNNING" => LastClaim(q, Len(q), row.worker_id, row.lease_version)

Fenced(q, k) ==
  q[k].lease_version # NULL /\ q[k].step # NULL =>
    LastClaim(q, k - 1, q[k].worker, q[k].lease_version)

AttemptTypes == {"STEP_STARTED", "STEP_FAILED", "STEP_SUCCEEDED"}

\* The step's success or approval is among the first n events.
DoneIn(q, n, i) ==
  \E j \in 1..n : q[j].type \in {"STEP_SUCCEEDED", "TASK_APPROVED"} /\ q[j].step = i

FailedIn(q, n, i, a) == \E j \in 1..n : IsStepEvent(q[j], "STEP_FAILED", i, a)

\* The log has no attempt that the steps do not count, and the steps no success or
\* failure, of a task that goes on, that the log does not have.
Counted(row, st, q) ==
  /\ \A k \in DOMAIN q : q[k].type \in AttemptTypes =>
       /\ q[k].step \in DOMAIN st
       /\ q[k].attempt \in Nat
       /\ q[k].attempt <= st[q[k].step].attempt
  /\ \A i \in DOMAIN st :
       /\ st[i].status = "PENDING" => st[i].attempt = 0
       /\ st[i].status = "SUCCEEDED" => DoneIn(q, Len(q), i)
       /\ st[i].status = "FAILED" /\ row.status \in LiveStatus =>
            FailedIn(q, Len(q), i, st[i].attempt)

InOrder(q, k) ==
  q[k].type = "STEP_STARTED" =>
    /\ \A j \in 1..(k - 1) : ~\E type \in AttemptTypes :
         IsStepEvent(q[j], type, q[k].step, q[k].attempt)
    /\ q[k].attempt > 1 => FailedIn(q, k - 1, q[k].step, q[k].attempt - 1)
    /\ q[k].step > 1 => DoneIn(q, k - 1, q[k].step - 1)

\* The delay after a temporary failure is over, or the task still waits for it, or
\* it has ended.
Waited(row, e, at) ==
  e.type = "TASK_RETRY_WAIT" =>
    /\ e.attempt \in Nat \ {0}
    /\ \/ e.created_at + Delay(e.attempt) <= at
       \/ row.status = "RETRY_WAIT" /\ e.created_at + Delay(e.attempt) <= row.retry_at
       \/ row.status \in TerminalStatus

\* No claim before run_at, no start before the delay is over.
Due(row, q, k) ==
  /\ q[k].type = "TASK_CLAIMED" => q[k].created_at >= row.run_at
  /\ q[k].type = "STEP_STARTED" =>
       \A j \in 1..(k - 1) :
         q[j].type = "TASK_RETRY_WAIT" => q[k].created_at >= q[j].created_at + Delay(q[j].attempt)

\* The lease of a task that runs lasts for its duration from every claim so far.
Lasting(row, q) ==
  row.status = "RUNNING" =>
    \A k \in DOMAIN q :
      q[k].type = "TASK_CLAIMED" => q[k].created_at + LeaseDuration <= row.lease_expires_at

Lapsed(q, k) ==
  q[k].type = "LEASE_EXPIRED" =>
    \A j \in 1..(k - 1) :
      q[j].type = "TASK_CLAIMED" => q[k].created_at >= q[j].created_at + LeaseDuration

\* A lease that the log tells has expired is not the one of a task that goes on.
Superseded(row, e) ==
  e.type = "LEASE_EXPIRED" =>
    /\ e.lease_version \in Nat
    /\ e.lease_version < row.lease_version \/ row.status \in TerminalStatus

\* Attempt a of step i was started, in the first n events, under this lease.
StartedIn(q, n, i, a, worker, version) ==
  \E j \in 1..n : /\ IsStepEvent(q[j], "STEP_STARTED", i, a)
                  /\ q[j].worker = worker
                  /\ q[j].lease_version = version

\* The attempt that runs was started under the lease that is current, and has no end.
Begun(row, st, q) ==
  LET c == row.current_step
  IN  row.status = "RUNNING" /\ st[c].status = "RUNNING" =>
        /\ StartedIn(q, Len(q), c, st[c].attempt, row.worker_id, row.lease_version)
        /\ \A k \in DOMAIN q : ~IsEnd(q[k], c, st[c].attempt)

EndsOnce(q, k) ==
  IsEnd(q[k], q[k].step, q[k].attempt) /\ q[k].lease_version # NULL =>
    /\ StartedIn(q, k - 1, q[k].step, q[k].attempt, q[k].worker, q[k].lease_version)
    /\ \A j \in 1..(k - 1) : ~IsEnd(q[j], q[k].step, q[k].attempt)

Logged(row, st, q, at) ==
  /\ Past(q, at)
  /\ Dated(row, at)
  /\ Verdict(row, q)
  /\ \A k \in DOMAIN q : Timely(row, q[k])
  /\ Held(row, q)
  /\ \A k \in DOMAIN q : Fenced(q, k)
  /\ Counted(row, st, q)
  /\ \A k \in DOMAIN q : InOrder(q, k)
  /\ \A k \in DOMAIN q : Waited(row, q[k], at)
  /\ \A k \in DOMAIN q : Due(row, q, k)
  /\ Lasting(row, q)
  /\ \A k \in DOMAIN q : Lapsed(q, k)
  /\ \A k \in DOMAIN q : Superseded(row, q[k])
  /\ Begun(row, st, q)
  /\ \A k \in DOMAIN q : EndsOnce(q, k)

LogInv == \A t \in Tasks : Logged(tasks[t], steps[t], events[t], now)

-----------------------------------------------------------------------------
(* The events of one transaction. *)

\* The elements of a log that was appended to.
LEMMA AppendedAt ==
  ASSUME NEW q \in Seq(EventRow), NEW log \in Seq(EventRow), NEW k \in DOMAIN (q \o log)
  PROVE  \/ k \in DOMAIN q /\ (q \o log)[k] = q[k]
         \/ \E p \in DOMAIN log : k = Len(q) + p /\ (q \o log)[k] = log[p]
<1>1. CASE k \in DOMAIN q
  BY <1>1, Appended
<1>2. CASE k \notin DOMAIN q
  <2>1. k - Len(q) \in DOMAIN log /\ (q \o log)[k] = log[k - Len(q)]
    BY <1>2, Appended
  <2>2. k = Len(q) + (k - Len(q))
    OBVIOUS
  <2>. QED  BY <2>1, <2>2
<1>. QED  BY <1>1, <1>2

\* What the events of a transaction tell: they carry its time, past the deadline they
\* only end the task, and what an owner writes, under the lease
\* that the row has, comes before a claim.
Tells(row, new, log) ==
  /\ \A p \in DOMAIN log :
       /\ log[p].created_at = now
       /\ \/ row.status = "NONE"
          \/ InTime(row)
          \/ log[p].type \in {"TASK_TIMED_OUT", "TASK_CANCELLED"}
          \/ log[p].type = "STEP_FAILED" /\ log[p].lease_version = NULL
  /\ \A p \in DOMAIN log :
       log[p].lease_version # NULL /\ log[p].step # NULL =>
         /\ row.status = "RUNNING"
         /\ log[p].worker = row.worker_id
         /\ log[p].lease_version = row.lease_version
         /\ \A m \in 1..(p - 1) : log[m].type # "TASK_CLAIMED"
  /\ \A p \in DOMAIN log :
       log[p].type = "TASK_CLAIMED" =>
         /\ p = Len(log)
         /\ (row.status = "RUNNABLE" /\ row.run_at <= now) \/ row.status = "RUNNING"
         /\ new.run_at = row.run_at
  /\ new.status = "RUNNING" =>
       \/ /\ row.status = "RUNNING"
          /\ new.worker_id = row.worker_id /\ new.lease_version = row.lease_version
          /\ \A p \in DOMAIN log : log[p].type # "TASK_CLAIMED"
       \/ /\ Len(log) > 0
          /\ log[Len(log)].type = "TASK_CLAIMED"
          /\ log[Len(log)].worker = new.worker_id
          /\ log[Len(log)].lease_version = new.lease_version

\* Every effect writes only events of these kinds, with the token and the attempt it holds.
LEMMA EffectTells ==
  ASSUME NEW row, NEW st, NEW new, NEW st2, NEW log, Effect(row, st, new, st2, log)
  PROVE  Tells(row, new, log)
<1> USE DEF Event, TaskEvent, LeaseEvent, StepEvent, OwnerEvent, ClaimEvent, ExpiredEvent, Tells
<1>1. CASE CreateEffect(row, st, new, st2, log)
  <2>1. /\ row.status = "NONE" /\ new.status \in {"SCHEDULED", "RUNNABLE"}
        /\ \/ log = <<TaskEvent("TASK_CREATED")>>
           \/ log = <<TaskEvent("TASK_CREATED"), TaskEvent("TASK_SCHEDULED")>>
    BY <1>1, Zenon DEF CreateEffect
  <2>. QED  BY <2>1
<1>2. CASE MarkEffect(row, st, new, st2, log)
  BY <1>2 DEF MarkEffect, KeepsClaim
<1>3. CASE WakeEffect(row, st, new, st2, log)
  BY <1>3 DEF WakeEffect
<1>4. CASE ClaimEffect(row, st, new, st2, log)
  BY <1>4 DEF ClaimEffect, Claims, KeepsOrder
<1>5. CASE RecoverEffect(row, st, new, st2, log)
  <2> DEFINE old == st[row.current_step]
             recovered == LeaseEvent("TASK_RECOVERED", new.worker_id, new.lease_version)
  <2>1. /\ row.status = "RUNNING" /\ new.status = "RUNNING" /\ InTime(row)
        /\ new.run_at = row.run_at
    BY <1>5 DEF RecoverEffect, Claims, KeepsOrder
  <2>2. CASE log = <<ExpiredEvent(row), recovered, ClaimEvent(new)>>
    BY <2>1, <2>2
  <2>3. CASE log = <<ExpiredEvent(row), OwnerEvent("STEP_FAILED", row, old.attempt),
                     recovered, ClaimEvent(new)>>
    BY <2>1, <2>3
  <2>. QED  BY <1>5, <2>2, <2>3 DEF RecoverEffect
<1>6. CASE ConvergeEffect(row, st, new, st2, log)
  BY <1>6 DEF ConvergeEffect
<1>7. CASE StartEffect(row, st, new, st2, log)
  BY <1>7 DEF StartEffect, Active
<1>8. CASE WaitEffect(row, st, new, st2, log)
  BY <1>8 DEF WaitEffect, Active
<1>9. CASE FailEffect(row, st, new, st2, log)
  BY <1>9 DEF FailEffect, Active
<1>10. CASE SucceedEffect(row, st, new, st2, log)
  BY <1>10 DEF SucceedEffect, Active, KeepsClaim
<1>11. CASE ControlEffect(row, st, new, st2, log)
  BY <1>11 DEF ControlEffect
<1>12. CASE ApproveEffect(row, st, new, st2, log)
  BY <1>12 DEF ApproveEffect, Waiting
<1>13. CASE RejectEffect(row, st, new, st2, log)
  BY <1>13 DEF RejectEffect, Waiting
<1>. QED  BY <1>1, <1>2, <1>3, <1>4, <1>5, <1>6, <1>7, <1>8, <1>9, <1>10, <1>11, <1>12, <1>13
          DEF Effect

\* The event of each verdict.
LEMMA TerminalEvents ==
  /\ TerminalEvent["SUCCEEDED"] = "TASK_SUCCEEDED" /\ TerminalEvent["FAILED"] = "TASK_FAILED"
  /\ TerminalEvent["CANCELLED"] = "TASK_CANCELLED" /\ TerminalEvent["TIMED_OUT"] = "TASK_TIMED_OUT"
BY DEF TerminalEvent

\* The shapes of a transaction's log.
LEMMA VerdictLogs ==
  ASSUME NEW new, NEW a, NEW b, a.type \notin VerdictTypes
  PROVE  /\ new.status \notin TerminalStatus => Verdict(new, <<a>>)
         /\ new.status \notin TerminalStatus /\ b.type \notin VerdictTypes => Verdict(new, <<a, b>>)
         /\ new.status \in TerminalStatus /\ b.type = TerminalEvent[new.status]
              => Verdict(new, <<a, b>>)
BY DEF Verdict

\* A transaction logs a verdict, last, exactly when it ends the task.
LEMMA EffectVerdict ==
  ASSUME NEW row, NEW st, NEW new, NEW st2, NEW log, Effect(row, st, new, st2, log)
  PROVE  Verdict(new, log)
<1> USE TerminalEvents
    DEF Event, TaskEvent, LeaseEvent, StepEvent, OwnerEvent, ClaimEvent, ExpiredEvent,
        Verdict, VerdictTypes, TerminalStatus
<1>1. CASE CreateEffect(row, st, new, st2, log)
  <2>1. /\ row.status = "NONE" /\ new.status \in {"SCHEDULED", "RUNNABLE"}
        /\ \/ log = <<TaskEvent("TASK_CREATED")>>
           \/ log = <<TaskEvent("TASK_CREATED"), TaskEvent("TASK_SCHEDULED")>>
    BY <1>1, Zenon DEF CreateEffect
  <2>. QED  BY <2>1
<1>2. CASE MarkEffect(row, st, new, st2, log)
  BY <1>2 DEF MarkEffect
<1>3. CASE WakeEffect(row, st, new, st2, log)
  BY <1>3 DEF WakeEffect
<1>4. CASE ClaimEffect(row, st, new, st2, log)
  BY <1>4 DEF ClaimEffect, Claims
<1>5. CASE RecoverEffect(row, st, new, st2, log)
  BY <1>5 DEF RecoverEffect, Claims
<1>6. CASE ConvergeEffect(row, st, new, st2, log)
  BY <1>6 DEF ConvergeEffect
<1>7. CASE StartEffect(row, st, new, st2, log)
  BY <1>7 DEF StartEffect, Active
<1>8. CASE WaitEffect(row, st, new, st2, log)
  BY <1>8 DEF WaitEffect
<1>9. CASE FailEffect(row, st, new, st2, log)
  <2> DEFINE a == OwnerEvent("STEP_FAILED", row, st[row.current_step].attempt)
             b == StepEvent("TASK_RETRY_WAIT", row.current_step, st[row.current_step].attempt)
             c == OwnerEvent("TASK_FAILED", row, st[row.current_step].attempt)
  <2>1. a.type \notin VerdictTypes /\ b.type \notin VerdictTypes /\ c.type = "TASK_FAILED"
    OBVIOUS
  <2>2. \/ new.status = "RETRY_WAIT" /\ log = <<a, b>>
        \/ new.status = "FAILED" /\ log = <<a, c>>
    BY <1>9 DEF FailEffect
  <2> HIDE DEF a, b, c, Verdict, VerdictTypes
  <2>. QED  BY <2>1, <2>2, VerdictLogs
<1>10. CASE SucceedEffect(row, st, new, st2, log)
  <2> DEFINE a == OwnerEvent("STEP_SUCCEEDED", row, st[row.current_step].attempt)
             b == OwnerEvent("TASK_SUCCEEDED", row, st[row.current_step].attempt)
  <2>1. a.type \notin VerdictTypes /\ b.type = "TASK_SUCCEEDED"
    OBVIOUS
  <2>2. \/ new.status = "RUNNING" /\ log = <<a>>
        \/ new.status = "SUCCEEDED" /\ log = <<a, b>>
    BY <1>10 DEF SucceedEffect
  <2> HIDE DEF a, b, Verdict, VerdictTypes
  <2>. QED  BY <2>1, <2>2, VerdictLogs
<1>11. CASE ControlEffect(row, st, new, st2, log)
  <2> DEFINE a == StepEvent("STEP_FAILED", row.current_step, st[row.current_step].attempt)
             b == StepEvent("TASK_CANCELLED", row.current_step, NULL)
             c == StepEvent("TASK_TIMED_OUT", row.current_step, NULL)
  <2>1. a.type \notin VerdictTypes /\ b.type = "TASK_CANCELLED" /\ c.type = "TASK_TIMED_OUT"
    OBVIOUS
  <2>2. \/ new.status = "CANCELLED" /\ log = <<a, b>>
        \/ new.status = "TIMED_OUT" /\ log = <<a, c>>
    BY <1>11 DEF ControlEffect
  <2> HIDE DEF a, b, c, Verdict, VerdictTypes
  <2>. QED  BY <2>1, <2>2, VerdictLogs
<1>12. CASE ApproveEffect(row, st, new, st2, log)
  <2> DEFINE a == StepEvent("TASK_APPROVED", row.current_step, NULL)
             b == StepEvent("TASK_SUCCEEDED", row.current_step, NULL)
  <2>1. a.type \notin VerdictTypes /\ b.type = "TASK_SUCCEEDED"
    OBVIOUS
  <2>2. \/ new.status = "RUNNABLE" /\ log = <<a>>
        \/ new.status = "SUCCEEDED" /\ log = <<a, b>>
    BY <1>12 DEF ApproveEffect
  <2> HIDE DEF a, b, Verdict, VerdictTypes
  <2>. QED  BY <2>1, <2>2, VerdictLogs
<1>13. CASE RejectEffect(row, st, new, st2, log)
  BY <1>13 DEF RejectEffect
<1>. QED  BY <1>1, <1>2, <1>3, <1>4, <1>5, <1>6, <1>7, <1>8, <1>9, <1>10, <1>11, <1>12, <1>13
          DEF Effect

-----------------------------------------------------------------------------
(* Every transaction keeps the parts of the invariant. *)

\* The clock was read under the lock, after every earlier transaction's.
LEMMA PastKept ==
  ASSUME NEW q \in Seq(EventRow), NEW log \in Seq(EventRow), now \in Nat,
         NEW row, NEW new, Tells(row, new, log), Past(q, now)
  PROVE  Past(q \o log, now)
<1> SUFFICES ASSUME NEW k \in DOMAIN (q \o log) PROVE (q \o log)[k].created_at <= now
  BY DEF Past
<1>1. CASE k \in DOMAIN q /\ (q \o log)[k] = q[k]
  BY <1>1 DEF Past
<1>2. CASE \E p \in DOMAIN log : k = Len(q) + p /\ (q \o log)[k] = log[p]
  BY <1>2 DEF Tells
<1>. QED  BY <1>1, <1>2, AppendedAt

\* run_at and the timeout stay as they were posted, and the first claim is due.
LEMMA DatedKept ==
  ASSUME NEW row \in TaskRow, NEW st, NEW new, NEW st2, NEW log, Effect(row, st, new, st2, log),
         Clocks(row), Dated(row, now)
  PROVE  Dated(new, now)
<1>1. CASE CreateEffect(row, st, new, st2, log)
  BY <1>1 DEF CreateEffect, Dated
<1>2. CASE /\ KeepsOrder(row, new) /\ new.lease_version = row.lease_version /\ row.status # "NONE"
           /\ new.status # "RUNNABLE" \/ row.lease_version > 0
  BY <1>2 DEF Dated, KeepsOrder
<1>3. CASE ClaimEffect(row, st, new, st2, log)
  BY <1>3 DEF ClaimEffect, Claims, Dated, KeepsOrder
<1>4. CASE RecoverEffect(row, st, new, st2, log)
  BY <1>4 DEF RecoverEffect, Claims, Dated, KeepsOrder, Clocks
<1>5. CASE WakeEffect(row, st, new, st2, log)
  BY <1>5 DEF WakeEffect, Dated, KeepsOrder, KeepsClaim, Clocks
<1>6. CASE ApproveEffect(row, st, new, st2, log)
  BY <1>2, <1>6 DEF ApproveEffect, Waiting, Leaves, KeepsClaim, Clocks
<1>. QED
  BY <1>1, <1>2, <1>3, <1>4, <1>5, <1>6, EffectStatus
  DEF Effect, MarkEffect, ConvergeEffect, Active, StartEffect, WaitEffect, FailEffect,
      SucceedEffect, ControlEffect, RejectEffect, Leaves, KeepsClaim, KeepsOrder

\* A task that goes on has no verdict in its log, so that the one it gets is the only one.
LEMMA VerdictKept ==
  ASSUME NEW row, NEW new, NEW q \in Seq(EventRow), NEW log \in Seq(EventRow),
         row.status \notin TerminalStatus, Verdict(row, q), Verdict(new, log)
  PROVE  Verdict(new, q \o log)
<1> DEFINE all == q \o log
<1>1. /\ Len(all) = Len(q) + Len(log) /\ Len(log) \in Nat /\ Len(q) \in Nat
      /\ \A k \in DOMAIN log : Len(q) + k \in DOMAIN all /\ all[Len(q) + k] = log[k]
      /\ Len(log) > 0 => Len(log) \in DOMAIN log
  BY Appended
<1>2. ASSUME NEW k \in DOMAIN all, all[k].type \in VerdictTypes
      PROVE  \E p \in DOMAIN log : k = Len(q) + p /\ all[k] = log[p]
  <2>1. CASE k \in DOMAIN q /\ all[k] = q[k]
    BY <1>2, <2>1 DEF Verdict
  <2>. QED  BY <2>1, AppendedAt
<1> HIDE DEF all
<1>3. ASSUME NEW k \in DOMAIN all, all[k].type \in VerdictTypes
      PROVE  k = Len(all) /\ new.status \in TerminalStatus
  BY <1>1, <1>2, <1>3 DEF Verdict
<1>4. ASSUME new.status \in TerminalStatus
      PROVE  Len(all) > 0 /\ all[Len(all)].type = TerminalEvent[new.status]
  <2>1. Len(log) > 0 /\ log[Len(log)].type = TerminalEvent[new.status]
    BY <1>4 DEF Verdict
  <2>2. all[Len(all)] = log[Len(log)]
    BY <1>1, <2>1
  <2>. QED  BY <1>1, <2>1, <2>2
<1>5. Verdict(new, all)
  BY <1>3, <1>4 DEF Verdict
<1>. QED  BY <1>5 DEF all

\* The deadline, when it is set, is later than every event so far; afterwards only a
\* transaction that ends the task writes past it.
LEMMA TimelyKept ==
  ASSUME NEW row \in TaskRow, NEW st, NEW new, NEW st2, NEW q \in Seq(EventRow),
         NEW log \in Seq(EventRow), now \in Nat, Effect(row, st, new, st2, log),
         Past(q, now), Dated(row, now), \A k \in DOMAIN q : Timely(row, q[k])
  PROVE  \A k \in DOMAIN (q \o log) : Timely(new, (q \o log)[k])
<1> SUFFICES ASSUME NEW k \in DOMAIN (q \o log) PROVE Timely(new, (q \o log)[k])
  OBVIOUS
<1> DEFINE e == (q \o log)[k]
<1>1. \/ new.deadline_at = NULL
      \/ row.status # "NONE" /\ new.deadline_at = row.deadline_at
      \/ /\ row.status # "NONE" /\ row.deadline_at = NULL
         /\ new.deadline_at = now + row.task_timeout_seconds
  <2>1. CASE row.status = "NONE"
    BY <2>1, EffectStatus DEF CreateEffect
  <2>2. CASE row.status # "NONE"
    <3>1. \/ new.deadline_at = row.deadline_at
          \/ row.deadline_at = NULL /\ new.deadline_at = now + row.task_timeout_seconds
      BY <2>2
      DEF Effect, CreateEffect, MarkEffect, WakeEffect, ClaimEffect, RecoverEffect, Claims,
          ConvergeEffect, StartEffect, WaitEffect, FailEffect, SucceedEffect, ControlEffect,
          ApproveEffect, RejectEffect, Leaves, KeepsClaim
    <3>. QED  BY <2>2, <3>1
  <2>. QED  BY <2>1, <2>2
<1>2. e \in EventRow /\ e.created_at \in Nat /\ row.task_timeout_seconds \in Nat
  <2>1. e \in EventRow
    BY Appended
  <2>. QED  BY <2>1, RowFields DEF EventRow
<1>3. e.created_at <= now
  BY PastKept, EffectTells DEF Past
<1>4. CASE row.status # "NONE" /\ row.deadline_at = NULL
           /\ new.deadline_at = now + row.task_timeout_seconds
  <2>1. row.task_timeout_seconds > 0
    BY <1>4 DEF Dated
  <2>. QED  BY <1>2, <1>3, <1>4, <2>1 DEF Timely
<1>5. CASE row.status # "NONE" /\ new.deadline_at = row.deadline_at
  <2>1. CASE k \in DOMAIN q /\ e = q[k]
    BY <1>5, <2>1 DEF Timely
  <2>2. CASE \E p \in DOMAIN log : k = Len(q) + p /\ e = log[p]
    <3>1. \/ InTime(row)
          \/ e.type \in {"TASK_TIMED_OUT", "TASK_CANCELLED"}
          \/ e.type = "STEP_FAILED" /\ e.lease_version = NULL
      BY <1>5, <2>2, EffectTells DEF Tells
    <3>2. e.created_at = now
      BY <2>2, EffectTells DEF Tells
    <3>3. row.deadline_at # NULL => row.deadline_at \in Nat
      BY RowFields DEF Time
    <3>. QED  BY <1>5, <3>1, <3>2, <3>3 DEF Timely, InTime
  <2>. QED  BY <2>1, <2>2, AppendedAt
<1>6. CASE new.deadline_at = NULL
  BY <1>6 DEF Timely
<1>. QED  BY <1>1, <1>4, <1>5, <1>6

\* What is appended later does not change the last claim before an event.
LEMMA LastClaimPrefix ==
  ASSUME NEW q \in Seq(EventRow), NEW log \in Seq(EventRow), NEW n \in 0..Len(q), NEW w, NEW v,
         LastClaim(q, n, w, v)
  PROVE  LastClaim(q \o log, n, w, v)
<1> DEFINE all == q \o log
<1>1. \A j \in 1..n : all[j] = q[j]
  BY Appended
<1> HIDE DEF all
<1>2. LastClaim(all, n, w, v)
  BY <1>1 DEF LastClaim
<1>. QED  BY <1>2 DEF all

\* The last claim stays the last while no other is appended.
LEMMA LastClaimExtends ==
  ASSUME NEW q \in Seq(EventRow), NEW log \in Seq(EventRow), NEW p \in 0..Len(log), NEW w, NEW v,
         LastClaim(q, Len(q), w, v), \A m \in 1..p : log[m].type # "TASK_CLAIMED"
  PROVE  LastClaim(q \o log, Len(q) + p, w, v)
<1> DEFINE all == q \o log
<1>1. PICK j \in 1..Len(q) : /\ q[j].type = "TASK_CLAIMED" /\ q[j].worker = w
                             /\ q[j].lease_version = v
                             /\ \A m \in (j + 1)..Len(q) : q[m].type # "TASK_CLAIMED"
  BY DEF LastClaim
<1>2. /\ \A k \in 1..Len(q) : all[k] = q[k]
      /\ \A m \in 1..p : all[Len(q) + m] = log[m]
      /\ Len(q) \in Nat
  BY Appended
<1> HIDE DEF all
<1>3. ASSUME NEW m \in (j + 1)..(Len(q) + p) PROVE all[m].type # "TASK_CLAIMED"
  <2>1. CASE m <= Len(q)
    BY <1>1, <1>2, <2>1
  <2>2. CASE m > Len(q)
    <3>1. m - Len(q) \in 1..p /\ m = Len(q) + (m - Len(q))
      BY <1>2, <2>2
    <3>. QED  BY <1>2, <3>1
  <2>. QED  BY <1>2, <2>1, <2>2
<1>4. j \in 1..(Len(q) + p)
  BY <1>2
<1>5. LastClaim(all, Len(q) + p, w, v)
  BY <1>1, <1>2, <1>3, <1>4 DEF LastClaim
<1>. QED  BY <1>5 DEF all

\* The owner is the one of the last claim: a claim is logged with the owner it sets,
\* and nothing else sets one.
LEMMA HeldKept ==
  ASSUME NEW row, NEW new, NEW q \in Seq(EventRow), NEW log \in Seq(EventRow),
         Tells(row, new, log), Held(row, q)
  PROVE  Held(new, q \o log)
<1> SUFFICES ASSUME new.status = "RUNNING"
             PROVE  LastClaim(q \o log, Len(q \o log), new.worker_id, new.lease_version)
  BY DEF Held
<1>1. /\ Len(q \o log) = Len(q) + Len(log) /\ Len(q) \in Nat /\ Len(log) \in Nat
      /\ \A k \in DOMAIN log : (q \o log)[Len(q) + k] = log[k]
      /\ DOMAIN log = 1..Len(log)
  BY Appended
<1>2. CASE /\ row.status = "RUNNING"
           /\ new.worker_id = row.worker_id /\ new.lease_version = row.lease_version
           /\ \A p \in DOMAIN log : log[p].type # "TASK_CLAIMED"
  <2>1. LastClaim(q, Len(q), new.worker_id, new.lease_version)
    BY <1>2 DEF Held
  <2>2. Len(log) \in 0..Len(log) /\ \A m \in 1..Len(log) : log[m].type # "TASK_CLAIMED"
    BY <1>1, <1>2
  <2>. QED  BY <1>1, <2>1, <2>2, LastClaimExtends
<1>3. CASE /\ Len(log) > 0
           /\ log[Len(log)].type = "TASK_CLAIMED"
           /\ log[Len(log)].worker = new.worker_id
           /\ log[Len(log)].lease_version = new.lease_version
  <2> DEFINE all == q \o log
             n == Len(q) + Len(log)
  <2>1. n \in 1..n /\ all[n] = log[Len(log)] /\ n \in Nat
    BY <1>1, <1>3
  <2>2. Len(all) = n
    BY <1>1
  <2> HIDE DEF all, n
  <2>3. LastClaim(all, n, new.worker_id, new.lease_version)
    BY <1>3, <2>1 DEF LastClaim
  <2>. QED  BY <2>2, <2>3 DEF all
<1>. QED  BY <1>2, <1>3 DEF Tells

\* What an owner writes carries the token of the last claim before it.
LEMMA FencedKept ==
  ASSUME NEW row, NEW new, NEW q \in Seq(EventRow), NEW log \in Seq(EventRow),
         Tells(row, new, log), Held(row, q), \A k \in DOMAIN q : Fenced(q, k)
  PROVE  \A k \in DOMAIN (q \o log) : Fenced(q \o log, k)
<1> DEFINE all == q \o log
<1> SUFFICES ASSUME NEW k \in DOMAIN all, all[k].lease_version # NULL, all[k].step # NULL
             PROVE  LastClaim(all, k - 1, all[k].worker, all[k].lease_version)
  BY DEF Fenced
<1>1. CASE k \in DOMAIN q /\ all[k] = q[k]
  <2>1. LastClaim(q, k - 1, q[k].worker, q[k].lease_version) /\ k - 1 \in 0..Len(q)
    BY <1>1 DEF Fenced
  <2>2. LastClaim(all, k - 1, q[k].worker, q[k].lease_version)
    BY <2>1, LastClaimPrefix
  <2>. QED  BY <1>1, <2>2
<1>2. CASE \E p \in DOMAIN log : k = Len(q) + p /\ all[k] = log[p]
  <2>1. PICK p \in DOMAIN log : k = Len(q) + p /\ all[k] = log[p]
    BY <1>2
  <2>2. p \in Nat /\ p - 1 \in 0..Len(log) /\ k - 1 = Len(q) + (p - 1)
    BY <2>1
  <2>3. /\ row.status = "RUNNING"
        /\ log[p].worker = row.worker_id
        /\ log[p].lease_version = row.lease_version
        /\ \A m \in 1..(p - 1) : log[m].type # "TASK_CLAIMED"
    BY <2>1 DEF Tells
  <2>4. LastClaim(q, Len(q), log[p].worker, log[p].lease_version)
    BY <2>3 DEF Held
  <2>5. LastClaim(all, Len(q) + (p - 1), log[p].worker, log[p].lease_version)
    BY <2>2, <2>3, <2>4, LastClaimExtends
  <2>. QED  BY <2>1, <2>2, <2>5
<1>. QED  BY <1>1, <1>2, AppendedAt

\* What the events of a transaction on a task that is there tell of its current step:
\* an attempt that is logged is the one that the step counts, and a step that has
\* succeeded or failed has its event.
Counts(row, st, new, st2, log) ==
  LET c == row.current_step
      old == st[c]
      s == st2[c]
  IN  /\ \A p \in DOMAIN log : log[p].type \in AttemptTypes =>
           log[p].step = c /\ log[p].attempt = s.attempt
      /\ \A p \in DOMAIN log : log[p].type = "STEP_STARTED" =>
           /\ p = 1
           /\ row.status = "RUNNING"
           /\ old.status \in {"PENDING", "FAILED"}
           /\ s.attempt = old.attempt + 1
      /\ s.status = "PENDING" => old.status = "PENDING" /\ s.attempt = old.attempt
      /\ s.status = "SUCCEEDED" =>
           \/ old.status = "SUCCEEDED"
           \/ DoneIn(log, Len(log), c)
      /\ s.status = "FAILED" /\ new.status \in LiveStatus =>
           \/ old.status = "FAILED" /\ s.attempt = old.attempt
           \/ FailedIn(log, Len(log), c, s.attempt)

\* Every effect keeps the attempts that are counted in step with those that are logged.
LEMMA EffectCounts ==
  ASSUME NEW row, NEW st, NEW new, NEW st2, NEW log, Effect(row, st, new, st2, log),
         row.status # "NONE"
  PROVE  Counts(row, st, new, st2, log)
<1> USE DEF Event, TaskEvent, LeaseEvent, StepEvent, OwnerEvent, ClaimEvent, ExpiredEvent,
            Counts, AttemptTypes, DoneIn, FailedIn, IsStepEvent, LiveStatus
<1>1. CASE MarkEffect(row, st, new, st2, log)
  BY <1>1 DEF MarkEffect
<1>2. CASE WakeEffect(row, st, new, st2, log)
  BY <1>2 DEF WakeEffect
<1>3. CASE ClaimEffect(row, st, new, st2, log)
  BY <1>3 DEF ClaimEffect
<1>4. CASE RecoverEffect(row, st, new, st2, log)
  <2> DEFINE old == st[row.current_step]
             recovered == LeaseEvent("TASK_RECOVERED", new.worker_id, new.lease_version)
  <2>1. KeepsFacts(old, st2[row.current_step])
    BY <1>4 DEF RecoverEffect, LosesOwner
  <2>2. CASE /\ st2[row.current_step].status = old.status
             /\ log = <<ExpiredEvent(row), recovered, ClaimEvent(new)>>
    BY <2>1, <2>2 DEF KeepsFacts
  <2>3. CASE /\ st2[row.current_step].status = "FAILED"
             /\ log = <<ExpiredEvent(row), OwnerEvent("STEP_FAILED", row, old.attempt),
                        recovered, ClaimEvent(new)>>
    <3>1. /\ Len(log) = 4 /\ IsStepEvent(log[2], "STEP_FAILED", row.current_step, old.attempt)
          /\ \A p \in DOMAIN log : log[p].type \in AttemptTypes => p = 2
      BY <2>3
    <3>2. 2 \in 1..Len(log)
      BY <3>1
    <3>. QED  BY <2>1, <2>3, <3>1, <3>2 DEF KeepsFacts
  <2>. QED  BY <1>4, <2>2, <2>3 DEF RecoverEffect, LosesOwner
<1>5. CASE ConvergeEffect(row, st, new, st2, log)
  BY <1>5 DEF ConvergeEffect, LosesOwner, KeepsFacts
<1>6. CASE StartEffect(row, st, new, st2, log)
  BY <1>6 DEF StartEffect, Active
<1>7. CASE WaitEffect(row, st, new, st2, log)
  BY <1>7 DEF WaitEffect
<1>8. CASE FailEffect(row, st, new, st2, log)
  BY <1>8 DEF FailEffect, KeepsFacts
<1>9. CASE SucceedEffect(row, st, new, st2, log)
  <2> DEFINE succeeded == OwnerEvent("STEP_SUCCEEDED", row, st[row.current_step].attempt)
  <2>1. /\ st2[row.current_step].status = "SUCCEEDED"
        /\ st2[row.current_step].attempt = st[row.current_step].attempt
        /\ \/ log = <<succeeded>>
           \/ log = <<succeeded, OwnerEvent("TASK_SUCCEEDED", row, st[row.current_step].attempt)>>
    BY <1>9 DEF SucceedEffect, KeepsFacts
  <2>. QED  BY <2>1
<1>10. CASE ControlEffect(row, st, new, st2, log)
  BY <1>10 DEF ControlEffect, KeepsFacts
<1>11. CASE ApproveEffect(row, st, new, st2, log)
  BY <1>11 DEF ApproveEffect
<1>12. CASE RejectEffect(row, st, new, st2, log)
  BY <1>12 DEF RejectEffect
<1>. QED  BY <1>1, <1>2, <1>3, <1>4, <1>5, <1>6, <1>7, <1>8, <1>9, <1>10, <1>11, <1>12
          DEF Effect, CreateEffect

\* An event that was found among the first n is still there.
LEMMA FoundPrefix ==
  ASSUME NEW q \in Seq(EventRow), NEW log \in Seq(EventRow), NEW n \in 0..Len(q), NEW i, NEW a
  PROVE  /\ DoneIn(q, n, i) => DoneIn(q \o log, n, i)
         /\ FailedIn(q, n, i, a) => FailedIn(q \o log, n, i, a)
<1> DEFINE all == q \o log
<1>1. \A j \in 1..n : all[j] = q[j]
  BY Appended
<1> HIDE DEF all
<1>2. /\ DoneIn(q, n, i) => DoneIn(all, n, i)
      /\ FailedIn(q, n, i, a) => FailedIn(all, n, i, a)
  BY <1>1 DEF DoneIn, FailedIn
<1>. QED  BY <1>2 DEF all

\* An event that was found, in the log or among what is appended, is in the new log.
LEMMA FoundExtends ==
  ASSUME NEW q \in Seq(EventRow), NEW log \in Seq(EventRow), NEW i, NEW a
  PROVE  /\ DoneIn(q, Len(q), i) \/ DoneIn(log, Len(log), i)
              => DoneIn(q \o log, Len(q \o log), i)
         /\ FailedIn(q, Len(q), i, a) \/ FailedIn(log, Len(log), i, a)
              => FailedIn(q \o log, Len(q \o log), i, a)
<1> DEFINE all == q \o log
<1>1. /\ Len(all) = Len(q) + Len(log) /\ Len(q) \in Nat /\ Len(log) \in Nat
      /\ \A j \in 1..Len(q) : all[j] = q[j]
      /\ \A j \in 1..Len(log) : all[Len(q) + j] = log[j]
  BY Appended
<1> HIDE DEF all
<1>2. /\ \A j \in 1..Len(q) : j \in 1..Len(all)
      /\ \A j \in 1..Len(log) : Len(q) + j \in 1..Len(all)
  BY <1>1
<1>3. DoneIn(q, Len(q), i) \/ DoneIn(log, Len(log), i) => DoneIn(all, Len(all), i)
  BY <1>1, <1>2 DEF DoneIn
<1>4. FailedIn(q, Len(q), i, a) \/ FailedIn(log, Len(log), i, a) => FailedIn(all, Len(all), i, a)
  BY <1>1, <1>2 DEF FailedIn
<1>. QED  BY <1>3, <1>4 DEF all

\* The steps count what the log has.
LEMMA CountedKept ==
  ASSUME NEW row \in TaskRow, NEW st \in Seq(StepRow), Coherent(row, st),
         NEW new, NEW st2 \in Seq(StepRow), NEW q \in Seq(EventRow), NEW log \in Seq(EventRow),
         Effect(row, st, new, st2, log), row.status # "NONE", Counted(row, st, q)
  PROVE  Counted(new, st2, q \o log)
<1> DEFINE c == row.current_step
           all == q \o log
<1>1. /\ row.status \in LiveStatus
      /\ c \in DOMAIN st
  BY EffectStatus DEF Coherent, CanGoOn
<1>2. Counts(row, st, new, st2, log)
  BY EffectCounts
<1>3. /\ DOMAIN st2 = DOMAIN st
      /\ \A i \in DOMAIN st : i # c => st2[i] = st[i]
      /\ st2[c].attempt \in {st[c].attempt, st[c].attempt + 1}
  BY EffectSteps DEF WritesCurrent
<1>4. ASSUME NEW i \in DOMAIN st
      PROVE  st[i].attempt \in Nat /\ st2[i].attempt \in Nat /\ st[i].attempt <= st2[i].attempt
  <2>1. st[i] \in StepRow /\ st2[i] \in StepRow
    BY <1>3
  <2>2. st[i].attempt \in Nat /\ st2[i].attempt \in Nat
    BY <2>1, StepFields
  <2>3. i # c => st2[i] = st[i]
    BY <1>3
  <2>. QED  BY <1>3, <2>2, <2>3
<1>5. ASSUME NEW k \in DOMAIN all, all[k].type \in AttemptTypes
      PROVE  /\ all[k].step \in DOMAIN st2
             /\ all[k].attempt \in Nat
             /\ all[k].attempt <= st2[all[k].step].attempt
  <2>1. CASE k \in DOMAIN q /\ all[k] = q[k]
    <3>1. q[k].step \in DOMAIN st /\ q[k].attempt \in Nat /\ q[k].attempt <= st[q[k].step].attempt
      BY <1>5, <2>1 DEF Counted
    <3>2. /\ st[q[k].step].attempt \in Nat /\ st2[q[k].step].attempt \in Nat
          /\ st[q[k].step].attempt <= st2[q[k].step].attempt
      BY <1>4, <3>1
    <3>3. q[k].attempt <= st2[q[k].step].attempt
      BY <3>1, <3>2
    <3>. QED  BY <1>3, <2>1, <3>1, <3>3
  <2>2. CASE \E p \in DOMAIN log : k = Len(q) + p /\ all[k] = log[p]
    <3>1. all[k].step = c /\ all[k].attempt = st2[c].attempt
      BY <1>2, <1>5, <2>2 DEF Counts
    <3>2. st2[c].attempt \in Nat
      BY <1>1, <1>4
    <3>. QED  BY <1>1, <1>3, <3>1, <3>2
  <2>. QED  BY <2>1, <2>2, AppendedAt
<1>6. ASSUME NEW i \in DOMAIN st2
      PROVE  /\ st2[i].status = "PENDING" => st2[i].attempt = 0
             /\ st2[i].status = "SUCCEEDED" => DoneIn(all, Len(all), i)
             /\ st2[i].status = "FAILED" /\ new.status \in LiveStatus =>
                  FailedIn(all, Len(all), i, st2[i].attempt)
  <2>1. /\ i \in DOMAIN st
        /\ st[i].status = "PENDING" => st[i].attempt = 0
        /\ st[i].status = "SUCCEEDED" => DoneIn(q, Len(q), i)
        /\ st[i].status = "FAILED" => FailedIn(q, Len(q), i, st[i].attempt)
    BY <1>1, <1>3 DEF Counted
  <2>2. /\ st2[i].status = "PENDING" => st[i].status = "PENDING" /\ st2[i].attempt = st[i].attempt
        /\ st2[i].status = "SUCCEEDED" => st[i].status = "SUCCEEDED" \/ DoneIn(log, Len(log), i)
        /\ st2[i].status = "FAILED" /\ new.status \in LiveStatus =>
             \/ st[i].status = "FAILED" /\ st2[i].attempt = st[i].attempt
             \/ FailedIn(log, Len(log), i, st2[i].attempt)
    <3>1. CASE i # c
      BY <1>3, <2>1, <3>1
    <3>2. CASE i = c
      BY <1>2, <3>2 DEF Counts
    <3>. QED  BY <3>1, <3>2
  <2>. QED  BY <2>1, <2>2, FoundExtends
<1> HIDE DEF all
<1>7. Counted(new, st2, all)
  BY <1>5, <1>6 DEF Counted
<1>. QED  BY <1>7 DEF all

\* An attempt is started after the one before it has failed and the step before has
\* succeeded, and none of its events is there yet.
LEMMA InOrderKept ==
  ASSUME NEW row \in TaskRow, NEW st \in Seq(StepRow), Coherent(row, st),
         NEW new, NEW st2, NEW q \in Seq(EventRow), NEW log \in Seq(EventRow),
         Effect(row, st, new, st2, log), row.status # "NONE",
         Counted(row, st, q), \A k \in DOMAIN q : InOrder(q, k)
  PROVE  \A k \in DOMAIN (q \o log) : InOrder(q \o log, k)
<1> DEFINE all == q \o log
           c == row.current_step
<1> SUFFICES ASSUME NEW k \in DOMAIN all, all[k].type = "STEP_STARTED" PROVE InOrder(all, k)
  BY DEF InOrder
<1>1. \A j \in DOMAIN q : all[j] = q[j]
  BY Appended
<1>2. CASE k \in DOMAIN q /\ all[k] = q[k]
  <2>1. InOrder(q, k) /\ q[k].type = "STEP_STARTED" /\ k - 1 \in 0..Len(q)
        /\ \A j \in 1..(k - 1) : all[j] = q[j]
    BY <1>1, <1>2
  <2>2. /\ q[k].attempt > 1 => FailedIn(all, k - 1, q[k].step, q[k].attempt - 1)
        /\ q[k].step > 1 => DoneIn(all, k - 1, q[k].step - 1)
    BY <2>1, FoundPrefix DEF InOrder
  <2>. QED  BY <1>2, <2>1, <2>2 DEF InOrder
<1>3. CASE \E p \in DOMAIN log : k = Len(q) + p /\ all[k] = log[p]
  <2>1. PICK p \in DOMAIN log : k = Len(q) + p /\ all[k] = log[p]
    BY <1>3
  <2> DEFINE n == st[c].attempt + 1
  <2>2. /\ p = 1 /\ row.status = "RUNNING" /\ st[c].status \in {"PENDING", "FAILED"}
        /\ all[k].step = c /\ all[k].attempt = n
    BY <2>1, EffectCounts DEF Counts, AttemptTypes
  <2>3. c \in DOMAIN st /\ st[c].attempt \in Nat /\ c \in Nat
    BY <2>2, StepFields DEF Coherent, CanGoOn, LiveStatus
  <2>4. k - 1 = Len(q) /\ Len(q) \in 0..Len(q)
    BY <2>1, <2>2
  <2>5. ASSUME NEW j \in 1..Len(q), NEW type \in AttemptTypes, IsStepEvent(all[j], type, c, n)
        PROVE  FALSE
    <3>1. q[j].type \in AttemptTypes /\ q[j].step = c /\ q[j].attempt = n
      BY <1>1, <2>5 DEF IsStepEvent
    <3>2. q[j].attempt <= st[c].attempt
      BY <3>1 DEF Counted
    <3>. QED  BY <2>3, <3>1, <3>2
  <2>6. n > 1 => FailedIn(all, Len(q), c, n - 1)
    <3>1. n > 1 => FailedIn(q, Len(q), c, st[c].attempt)
      BY <2>2, <2>3 DEF Counted, LiveStatus
    <3>2. n - 1 = st[c].attempt
      BY <2>3
    <3>. QED  BY <2>4, <3>1, <3>2, FoundPrefix
  <2>7. c > 1 => DoneIn(all, Len(q), c - 1)
    <3>1. c > 1 => c - 1 \in DOMAIN st /\ st[c - 1].status = "SUCCEEDED"
      <4>1. \A i \in DOMAIN st : i < c => st[i].status = "SUCCEEDED"
        BY DEF Coherent, Cursor
      <4>2. c > 1 => c - 1 \in DOMAIN st /\ c - 1 < c
        <5> HIDE DEF c
        <5>. QED  BY <2>3
      <4>. QED  BY <4>1, <4>2
    <3>2. c > 1 => DoneIn(q, Len(q), c - 1)
      BY <3>1 DEF Counted
    <3>. QED  BY <2>4, <3>2, FoundPrefix
  <2> HIDE DEF all, n, c
  <2>. QED  BY <2>2, <2>4, <2>5, <2>6, <2>7 DEF InOrder
<1>. QED  BY <1>2, <1>3, AppendedAt

\* The shifts of Backoff are the doubling delay.
LEMMA BackoffIsDelay ==
  ASSUME NEW n \in Nat, n >= 1
  PROVE  Backoff(n) = Delay(n) /\ Delay(n) \in Nat
<1>1. CASE n <= 6
  <2>1. n = 1 \/ n = 2 \/ n = 3 \/ n = 4 \/ n = 5 \/ n = 6
    BY <1>1
  <2>. QED  BY <2>1 DEF Backoff, Delay
<1>2. CASE n = 7
  BY <1>2 DEF Backoff, Delay
<1>3. CASE n > 7
  BY <1>3 DEF Backoff, Delay
<1>. QED  BY <1>1, <1>2, <1>3

\* A delay is logged with the retry time that the row then has.
Delays(row, st, new, log) ==
  \A p \in DOMAIN log : log[p].type = "TASK_RETRY_WAIT" =>
    /\ row.status = "RUNNING" /\ st[row.current_step].status = "RUNNING"
    /\ log[p].attempt = st[row.current_step].attempt
    /\ new.status = "RETRY_WAIT"
    /\ new.retry_at = now + Backoff(st[row.current_step].attempt)

\* Every effect that announces a retry leaves the task waiting for that delay, at the current step.
LEMMA EffectDelays ==
  ASSUME NEW row, NEW st, NEW new, NEW st2, NEW log, Effect(row, st, new, st2, log)
  PROVE  Delays(row, st, new, log)
<1> USE DEF Event, TaskEvent, LeaseEvent, StepEvent, OwnerEvent, ClaimEvent, ExpiredEvent, Delays
<1>1. CASE FailEffect(row, st, new, st2, log)
  BY <1>1 DEF FailEffect, Active
<1>2. CASE RecoverEffect(row, st, new, st2, log)
  BY <1>2 DEF RecoverEffect
<1>3. CASE ConvergeEffect(row, st, new, st2, log)
  BY <1>3 DEF ConvergeEffect
<1>4. CASE CreateEffect(row, st, new, st2, log) \/ MarkEffect(row, st, new, st2, log)
  BY <1>4 DEF CreateEffect, MarkEffect
<1>5. CASE WakeEffect(row, st, new, st2, log) \/ ClaimEffect(row, st, new, st2, log)
  BY <1>5 DEF WakeEffect, ClaimEffect
<1>6. CASE StartEffect(row, st, new, st2, log) \/ WaitEffect(row, st, new, st2, log)
  BY <1>6 DEF StartEffect, WaitEffect
<1>7. CASE SucceedEffect(row, st, new, st2, log) \/ ControlEffect(row, st, new, st2, log)
  BY <1>7 DEF SucceedEffect, ControlEffect
<1>8. CASE ApproveEffect(row, st, new, st2, log) \/ RejectEffect(row, st, new, st2, log)
  BY <1>8 DEF ApproveEffect, RejectEffect
<1>. QED  BY <1>1, <1>2, <1>3, <1>4, <1>5, <1>6, <1>7, <1>8 DEF Effect

\* Only the scheduler, when the delay is over, or a verdict takes a task out of RETRY_WAIT.
LEMMA EffectWaiting ==
  ASSUME NEW row, NEW st, NEW new, NEW st2, NEW log, Effect(row, st, new, st2, log),
         row.status = "RETRY_WAIT"
  PROVE  row.retry_at <= now \/ new.status \in TerminalStatus
BY DEF Effect, CreateEffect, MarkEffect, WakeEffect, ClaimEffect, RecoverEffect, ConvergeEffect,
       StartEffect, WaitEffect, FailEffect, SucceedEffect, ControlEffect, ApproveEffect,
       RejectEffect, Active, Waiting, TerminalStatus

\* A task that goes on has waited for every delay in its log.
LEMMA WaitedKept ==
  ASSUME NEW row \in TaskRow, NEW st \in Seq(StepRow), Coherent(row, st), now \in Nat,
         NEW new, NEW st2, NEW q \in Seq(EventRow), NEW log \in Seq(EventRow),
         Effect(row, st, new, st2, log), \A k \in DOMAIN q : Waited(row, q[k], now)
  PROVE  \A k \in DOMAIN (q \o log) : Waited(new, (q \o log)[k], now)
<1> SUFFICES ASSUME NEW k \in DOMAIN (q \o log), (q \o log)[k].type = "TASK_RETRY_WAIT"
             PROVE  Waited(new, (q \o log)[k], now)
  BY DEF Waited
<1> DEFINE e == (q \o log)[k]
           c == row.current_step
<1>1. CASE k \in DOMAIN q /\ e = q[k]
  <2>1. Waited(row, e, now) /\ row.status \notin TerminalStatus
    BY <1>1, EffectStatus DEF LiveStatus, TerminalStatus
  <2>2. e.attempt \in Nat /\ e.attempt >= 1 /\ e.created_at \in Nat
    <3>1. e \in EventRow
      BY Appended
    <3>. QED  BY <2>1, <3>1 DEF Waited, EventRow
  <2>3. CASE e.created_at + Delay(e.attempt) <= now
    BY <2>1, <2>3 DEF Waited
  <2>4. CASE row.status = "RETRY_WAIT" /\ e.created_at + Delay(e.attempt) <= row.retry_at
    <3>1. row.retry_at \in Nat
      BY <2>4, RowFields DEF Coherent, Clocks, Time
    <3>2. Delay(e.attempt) \in Nat
      BY <2>2, BackoffIsDelay
    <3>3. e.created_at + Delay(e.attempt) <= now \/ new.status \in TerminalStatus
      <4>1. row.retry_at <= now \/ new.status \in TerminalStatus
        BY <2>4, EffectWaiting
      <4>. QED  BY <2>2, <2>4, <3>1, <3>2, <4>1
    <3>. QED  BY <2>1, <3>3 DEF Waited
  <2>. QED  BY <2>1, <2>3, <2>4 DEF Waited
<1>2. CASE \E p \in DOMAIN log : k = Len(q) + p /\ e = log[p]
  <2>1. /\ row.status = "RUNNING" /\ st[c].status = "RUNNING" /\ e.attempt = st[c].attempt
        /\ new.status = "RETRY_WAIT" /\ new.retry_at = now + Backoff(e.attempt)
        /\ e.created_at = now
    BY <1>2, EffectDelays, EffectTells DEF Delays, Tells
  <2>2. c \in DOMAIN st /\ Fits(st[c], "RUNNING") /\ st[c].attempt \in Nat
    BY <2>1, StepFields DEF Coherent, CanGoOn, LiveStatus
  <2>3. st[c].attempt >= 1
    <3>1. InFlight(st[c])
      BY <2>1, <2>2 DEF Fits, Startable
    <3>. QED  BY <2>2, <3>1 DEF InFlight
  <2>4. Backoff(e.attempt) = Delay(e.attempt) /\ Delay(e.attempt) \in Nat
    BY <2>1, <2>2, <2>3, BackoffIsDelay
  <2> HIDE DEF e
  <2>5. Waited(new, e, now)
    BY <2>1, <2>2, <2>3, <2>4 DEF Waited
  <2>. QED  BY <2>5 DEF e
<1>. QED  BY <1>1, <1>2, AppendedAt

\* A claim is due, and so is an attempt after a delay.
LEMMA DueKept ==
  ASSUME NEW row \in TaskRow, NEW st, Clocks(row), now \in Nat,
         NEW new, NEW st2, NEW q \in Seq(EventRow), NEW log \in Seq(EventRow),
         Effect(row, st, new, st2, log), row.status # "NONE", Dated(row, now),
         \A k \in DOMAIN q : Waited(row, q[k], now), \A k \in DOMAIN q : Due(row, q, k)
  PROVE  \A k \in DOMAIN (q \o log) : Due(new, q \o log, k)
<1> SUFFICES ASSUME NEW k \in DOMAIN (q \o log) PROVE Due(new, q \o log, k)
  OBVIOUS
<1> DEFINE all == q \o log
<1>1. new.run_at = row.run_at
  BY DEF Effect, CreateEffect, MarkEffect, WakeEffect, ClaimEffect, RecoverEffect, Claims,
         ConvergeEffect, StartEffect, WaitEffect, FailEffect, SucceedEffect, ControlEffect,
         ApproveEffect, RejectEffect, Leaves, KeepsOrder
<1>2. \A j \in DOMAIN q : all[j] = q[j]
  BY Appended
<1>3. CASE k \in DOMAIN q /\ all[k] = q[k]
  <2>1. Due(row, q, k) /\ \A j \in 1..(k - 1) : all[j] = q[j]
    BY <1>2, <1>3
  <2> HIDE DEF all
  <2>2. Due(new, all, k)
    BY <1>1, <1>3, <2>1 DEF Due
  <2>. QED  BY <2>2 DEF all
<1>4. CASE \E p \in DOMAIN log : k = Len(q) + p /\ all[k] = log[p]
  <2>1. PICK p \in DOMAIN log : k = Len(q) + p /\ all[k] = log[p]
    BY <1>4
  <2>2. all[k].created_at = now
    BY <2>1, EffectTells DEF Tells
  <2>3. all[k].type = "TASK_CLAIMED" => row.run_at <= now
    BY <2>1, EffectTells DEF Tells, Dated, Clocks
  <2>4. row.run_at \in Nat
    BY DEF TaskRow, Clocks, Time
  <2>5. ASSUME all[k].type = "STEP_STARTED", NEW j \in 1..(k - 1), all[j].type = "TASK_RETRY_WAIT"
        PROVE  now >= all[j].created_at + Delay(all[j].attempt)
    <3>1. p = 1 /\ row.status = "RUNNING"
      <4>1. log[p].type = "STEP_STARTED" /\ Counts(row, st, new, st2, log)
        BY <2>1, <2>5, EffectCounts
      <4>. QED  BY <4>1 DEF Counts
    <3>2. j \in DOMAIN q
      BY <2>1, <3>1
    <3>3. all[j] = q[j] /\ Waited(row, q[j], now)
      BY <1>2, <3>2
    <3>4. q[j].attempt \in Nat /\ q[j].attempt >= 1 /\ q[j].created_at \in Nat
      <4>1. q[j] \in EventRow /\ q[j].type = "TASK_RETRY_WAIT"
        BY <2>5, <3>2, <3>3
      <4>. QED  BY <3>3, <4>1 DEF Waited, EventRow
    <3>5. Delay(q[j].attempt) \in Nat
      BY <3>4, BackoffIsDelay
    <3>6. q[j].created_at + Delay(q[j].attempt) <= now
      BY <2>5, <3>1, <3>3 DEF Waited, TerminalStatus
    <3>. QED  BY <3>3, <3>4, <3>5, <3>6
  <2> HIDE DEF all
  <2>6. Due(new, all, k)
    BY <1>1, <2>2, <2>3, <2>4, <2>5 DEF Due
  <2>. QED  BY <2>6 DEF all
<1>. QED  BY <1>3, <1>4, AppendedAt

\* What the events of a transaction tell of the lease: it had run out when they say so and
\* is the task's no more, and the one that a claim or a renewal gives lasts for the
\* duration from now.
Leases(row, new, log) ==
  /\ \A p \in DOMAIN log : log[p].type = "LEASE_EXPIRED" =>
       /\ p = 1 /\ row.status = "RUNNING" /\ row.lease_expires_at <= now
       /\ log[p].lease_version = row.lease_version
       /\ new.lease_version = row.lease_version + 1 \/ new.status = "FAILED"
  /\ new.status = "RUNNING" =>
       \/ new.lease_expires_at = now + LeaseDuration
       \/ /\ row.status = "RUNNING" /\ new.lease_expires_at = row.lease_expires_at
          /\ \A p \in DOMAIN log : log[p].type # "TASK_CLAIMED"

\* Every effect treats the lease so.
LEMMA EffectLeases ==
  ASSUME NEW row, NEW st, NEW new, NEW st2, NEW log, Effect(row, st, new, st2, log)
  PROVE  Leases(row, new, log)
<1> USE DEF Event, TaskEvent, LeaseEvent, StepEvent, OwnerEvent, ClaimEvent, ExpiredEvent, Leases
<1>1. CASE CreateEffect(row, st, new, st2, log) \/ MarkEffect(row, st, new, st2, log)
  BY <1>1 DEF CreateEffect, MarkEffect
<1>2. CASE WakeEffect(row, st, new, st2, log) \/ ClaimEffect(row, st, new, st2, log)
  BY <1>2 DEF WakeEffect, ClaimEffect, Claims
<1>3. CASE RecoverEffect(row, st, new, st2, log)
  BY <1>3 DEF RecoverEffect, Claims
<1>4. CASE ConvergeEffect(row, st, new, st2, log)
  BY <1>4 DEF ConvergeEffect
<1>5. CASE StartEffect(row, st, new, st2, log) \/ WaitEffect(row, st, new, st2, log)
  BY <1>5 DEF StartEffect, WaitEffect, Active
<1>6. CASE FailEffect(row, st, new, st2, log)
  BY <1>6 DEF FailEffect
<1>7. CASE SucceedEffect(row, st, new, st2, log)
  BY <1>7 DEF SucceedEffect, Active
<1>8. CASE ControlEffect(row, st, new, st2, log)
  BY <1>8 DEF ControlEffect
<1>9. CASE ApproveEffect(row, st, new, st2, log) \/ RejectEffect(row, st, new, st2, log)
  BY <1>9 DEF ApproveEffect, RejectEffect
<1>. QED  BY <1>1, <1>2, <1>3, <1>4, <1>5, <1>6, <1>7, <1>8, <1>9 DEF Effect

\* No claim so far is as much as its duration older than the end of the lease.
LEMMA LastingKept ==
  ASSUME NEW row, NEW new, NEW q \in Seq(EventRow), NEW log \in Seq(EventRow), now \in Nat,
         Leases(row, new, log), Past(q \o log, now), Lasting(row, q)
  PROVE  Lasting(new, q \o log)
<1> DEFINE all == q \o log
<1> SUFFICES ASSUME new.status = "RUNNING", NEW k \in DOMAIN all, all[k].type = "TASK_CLAIMED"
             PROVE  all[k].created_at + LeaseDuration <= new.lease_expires_at
  BY DEF Lasting
<1>1. CASE new.lease_expires_at = now + LeaseDuration
  <2>1. all[k] \in EventRow
    BY Appended
  <2>2. all[k].created_at \in Nat /\ all[k].created_at <= now
    BY <2>1 DEF EventRow, Past
  <2>. QED  BY <1>1, <2>2, LeaseAssumption
<1>2. CASE /\ row.status = "RUNNING" /\ new.lease_expires_at = row.lease_expires_at
           /\ \A p \in DOMAIN log : log[p].type # "TASK_CLAIMED"
  <2>1. k \in DOMAIN q /\ all[k] = q[k]
    BY <1>2, AppendedAt
  <2>. QED  BY <1>2, <2>1 DEF Lasting
<1>. QED  BY <1>1, <1>2 DEF Leases

\* A lease that a takeover finds expired was claimed its duration ago.
LEMMA LapsedKept ==
  ASSUME NEW row \in TaskRow, NEW new, NEW q \in Seq(EventRow), NEW log \in Seq(EventRow),
         now \in Nat, Ownership(row), Leases(row, new, log), Tells(row, new, log),
         Lasting(row, q), \A k \in DOMAIN q : Lapsed(q, k)
  PROVE  \A k \in DOMAIN (q \o log) : Lapsed(q \o log, k)
<1> DEFINE all == q \o log
<1> SUFFICES ASSUME NEW k \in DOMAIN all, all[k].type = "LEASE_EXPIRED",
                    NEW j \in 1..(k - 1), all[j].type = "TASK_CLAIMED"
             PROVE  all[k].created_at >= all[j].created_at + LeaseDuration
  BY DEF Lapsed
<1>1. \A m \in DOMAIN q : all[m] = q[m]
  BY Appended
<1>2. CASE k \in DOMAIN q /\ all[k] = q[k]
  <2>1. j \in DOMAIN q /\ all[j] = q[j]
    BY <1>1, <1>2
  <2>. QED  BY <1>2, <2>1 DEF Lapsed
<1>3. CASE \E p \in DOMAIN log : k = Len(q) + p /\ all[k] = log[p]
  <2>1. /\ k = Len(q) + 1 /\ row.status = "RUNNING" /\ row.lease_expires_at <= now
        /\ all[k].created_at = now
    BY <1>3 DEF Leases, Tells
  <2>2. j \in DOMAIN q /\ all[j] = q[j] /\ q[j] \in EventRow
    BY <1>1, <2>1
  <2>3. q[j].created_at + LeaseDuration <= row.lease_expires_at /\ q[j].created_at \in Nat
    BY <2>1, <2>2 DEF Lasting, EventRow
  <2>4. row.lease_expires_at \in Nat
    BY <2>1, RowFields DEF Ownership, Time
  <2> HIDE DEF all
  <2>. QED  BY <2>1, <2>2, <2>3, <2>4, LeaseAssumption
<1>. QED  BY <1>2, <1>3, AppendedAt

\* An effect that leaves an attempt running either found it running, under the same
\* lease, or has started it.
LEMMA EffectRunning ==
  ASSUME NEW row \in TaskRow, NEW st \in Seq(StepRow), Coherent(row, st), NEW new, NEW st2, NEW log,
         Effect(row, st, new, st2, log), new.status = "RUNNING",
         st2[new.current_step].status = "RUNNING"
  PROVE  /\ row.status = "RUNNING" /\ new.current_step = row.current_step
         /\ new.worker_id = row.worker_id /\ new.lease_version = row.lease_version
         /\ \/ st2 = st /\ log = <<>>
            \/ /\ st2[row.current_step].attempt = st[row.current_step].attempt + 1
               /\ log = <<OwnerEvent("STEP_STARTED", row, st2[row.current_step].attempt)>>
<1>1. row.status # "NONE" => row.status \in LiveStatus
  BY EffectStatus
<1>2. row.status \in LiveStatus =>
        row.current_step \in DOMAIN st /\ Fits(st[row.current_step], row.status)
  BY DEF Coherent, CanGoOn
<1>3. row.status = "RUNNABLE" => st[row.current_step].status # "RUNNING"
  BY <1>2 DEF Fits, Startable, LiveStatus
<1>4. ~CreateEffect(row, st, new, st2, log) /\ ~WakeEffect(row, st, new, st2, log)
  BY DEF CreateEffect, WakeEffect
<1>5. ~ClaimEffect(row, st, new, st2, log)
  BY <1>3 DEF ClaimEffect, Claims, KeepsCursor
<1>6. ~RecoverEffect(row, st, new, st2, log)
  BY DEF RecoverEffect, Claims, KeepsCursor, LosesOwner
<1>7. ~SucceedEffect(row, st, new, st2, log)
  <2> SUFFICES ASSUME SucceedEffect(row, st, new, st2, log) PROVE FALSE
    OBVIOUS
  <2>1. row.status = "RUNNING" /\ row.current_step # Len(st) /\ new.current_step = row.current_step + 1
        /\ WritesCurrent(row, st, st2)
    BY DEF SucceedEffect, Active
  <2>2. row.current_step \in 1..Len(st) /\ row.current_step \in Nat
    BY <1>2, <2>1 DEF LiveStatus
  <2>3. new.current_step \in DOMAIN st /\ new.current_step > row.current_step
    BY <2>1, <2>2
  <2>4. st2[new.current_step] = st[new.current_step]
    BY <2>1, <2>2, <2>3 DEF WritesCurrent
  <2>5. st[new.current_step].status = "PENDING"
    BY <2>3 DEF Coherent, Cursor, Untouched
  <2>. QED  BY <2>4, <2>5
<1>8. CASE MarkEffect(row, st, new, st2, log)
  BY <1>8 DEF MarkEffect, KeepsCursor, KeepsClaim
<1>9. CASE StartEffect(row, st, new, st2, log)
  BY <1>9 DEF StartEffect, Active
<1>. QED  BY <1>4, <1>5, <1>6, <1>7, <1>8, <1>9
          DEF Effect, ConvergeEffect, WaitEffect, FailEffect, ControlEffect, ApproveEffect, RejectEffect

\* A start that was found, among the first events or among what is appended, is there.
LEMMA StartedExtends ==
  ASSUME NEW q \in Seq(EventRow), NEW log \in Seq(EventRow), NEW n \in 0..Len(q),
         NEW m \in Nat, n <= m, NEW i, NEW a, NEW w, NEW v, StartedIn(q, n, i, a, w, v)
  PROVE  StartedIn(q \o log, m, i, a, w, v)
<1> DEFINE all == q \o log
<1>1. \A j \in 1..n : all[j] = q[j] /\ j \in 1..m
  BY Appended
<1> HIDE DEF all
<1>2. StartedIn(all, m, i, a, w, v)
  BY <1>1 DEF StartedIn
<1>. QED  BY <1>2 DEF all

\* The attempt that runs is the one its owner has started, and has not ended.
LEMMA BegunKept ==
  ASSUME NEW row \in TaskRow, NEW st \in Seq(StepRow), Coherent(row, st),
         NEW new, NEW st2, NEW q \in Seq(EventRow), NEW log \in Seq(EventRow),
         Effect(row, st, new, st2, log), Counted(row, st, q), Begun(row, st, q)
  PROVE  Begun(new, st2, q \o log)
<1> DEFINE c == row.current_step
           a == st2[c].attempt
           all == q \o log
<1> SUFFICES ASSUME new.status = "RUNNING", st2[new.current_step].status = "RUNNING"
             PROVE  Begun(new, st2, all)
  BY DEF Begun
<1>1. /\ row.status = "RUNNING" /\ new.current_step = c
      /\ new.worker_id = row.worker_id /\ new.lease_version = row.lease_version
      /\ \/ st2 = st /\ log = <<>>
         \/ a = st[c].attempt + 1 /\ log = <<OwnerEvent("STEP_STARTED", row, a)>>
  BY EffectRunning
<1>2. CASE st2 = st /\ log = <<>>
  <2>1. all = q
    BY <1>2
  <2>. QED  BY <1>1, <1>2, <2>1 DEF Begun
<1>3. CASE a = st[c].attempt + 1 /\ log = <<OwnerEvent("STEP_STARTED", row, a)>>
  <2>1. c \in DOMAIN st /\ st[c].attempt \in Nat
    BY <1>1, StepFields DEF Coherent, CanGoOn, LiveStatus
  <2>2. ASSUME NEW k \in DOMAIN q, q[k].type \in AttemptTypes, q[k].step = c, q[k].attempt = a
        PROVE  FALSE
    BY <1>3, <2>1, <2>2 DEF Counted
  <2>3. 1 \in DOMAIN log /\ log[1] = OwnerEvent("STEP_STARTED", row, a) /\ DOMAIN log = {1}
    BY <1>3
  <2>4. /\ IsStepEvent(log[1], "STEP_STARTED", c, a) /\ log[1].worker = row.worker_id
        /\ log[1].lease_version = row.lease_version /\ log[1].type = "STEP_STARTED"
    BY <2>3 DEF OwnerEvent, Event, IsStepEvent
  <2>5. Len(q) + 1 \in DOMAIN all /\ all[Len(q) + 1] = log[1]
    BY <2>3, Appended
  <2>6. ASSUME NEW k \in DOMAIN all PROVE ~IsEnd(all[k], c, a)
    <3>1. CASE k \in DOMAIN q /\ all[k] = q[k]
      BY <2>2, <3>1 DEF IsEnd, IsStepEvent, AttemptTypes
    <3>2. CASE \E p \in DOMAIN log : k = Len(q) + p /\ all[k] = log[p]
      BY <2>3, <2>4, <3>2 DEF IsEnd, IsStepEvent
    <3>. QED  BY <3>1, <3>2, AppendedAt
  <2>7. DOMAIN all = 1..Len(all)
    BY Appended
  <2> HIDE DEF all, a, c
  <2>8. StartedIn(all, Len(all), c, a, row.worker_id, row.lease_version)
    BY <2>4, <2>5, <2>7 DEF StartedIn
  <2>. QED  BY <1>1, <2>6, <2>8 DEF Begun, a, c
<1>. QED  BY <1>1, <1>2, <1>3

\* An end that carries a lease is of the attempt that runs, under the lease of the row,
\* and the only one in its transaction.
Ends(row, st, log) ==
  LET c == row.current_step
  IN  \A p \in DOMAIN log :
        log[p].type \in {"STEP_SUCCEEDED", "STEP_FAILED"} /\ log[p].lease_version # NULL =>
          /\ row.status = "RUNNING" /\ st[c].status = "RUNNING"
          /\ log[p].step = c /\ log[p].attempt = st[c].attempt
          /\ log[p].worker = row.worker_id /\ log[p].lease_version = row.lease_version
          /\ \A m \in 1..(p - 1) : log[m].type \notin {"STEP_SUCCEEDED", "STEP_FAILED"}

\* Every effect ends attempts so.
LEMMA EffectEnds ==
  ASSUME NEW row, NEW st, NEW new, NEW st2, NEW log, Effect(row, st, new, st2, log)
  PROVE  Ends(row, st, log)
<1> USE DEF Event, TaskEvent, LeaseEvent, StepEvent, OwnerEvent, ClaimEvent, ExpiredEvent, Ends
<1>1. CASE CreateEffect(row, st, new, st2, log) \/ MarkEffect(row, st, new, st2, log)
  BY <1>1 DEF CreateEffect, MarkEffect
<1>2. CASE WakeEffect(row, st, new, st2, log) \/ ClaimEffect(row, st, new, st2, log)
  BY <1>2 DEF WakeEffect, ClaimEffect
<1>3. CASE RecoverEffect(row, st, new, st2, log)
  BY <1>3 DEF RecoverEffect
<1>4. CASE ConvergeEffect(row, st, new, st2, log)
  BY <1>4 DEF ConvergeEffect
<1>5. CASE StartEffect(row, st, new, st2, log) \/ WaitEffect(row, st, new, st2, log)
  BY <1>5 DEF StartEffect, WaitEffect
<1>6. CASE FailEffect(row, st, new, st2, log)
  BY <1>6 DEF FailEffect, Active
<1>7. CASE SucceedEffect(row, st, new, st2, log)
  BY <1>7 DEF SucceedEffect, Active
<1>8. CASE ControlEffect(row, st, new, st2, log)
  BY <1>8 DEF ControlEffect
<1>9. CASE ApproveEffect(row, st, new, st2, log) \/ RejectEffect(row, st, new, st2, log)
  BY <1>9 DEF ApproveEffect, RejectEffect
<1>. QED  BY <1>1, <1>2, <1>3, <1>4, <1>5, <1>6, <1>7, <1>8, <1>9 DEF Effect

\* An attempt that ends under a lease was started under it and has not ended before.
LEMMA EndedKept ==
  ASSUME NEW row, NEW st, NEW q \in Seq(EventRow), NEW log \in Seq(EventRow),
         Ends(row, st, log), Begun(row, st, q), \A k \in DOMAIN q : EndsOnce(q, k)
  PROVE  \A k \in DOMAIN (q \o log) : EndsOnce(q \o log, k)
<1> DEFINE all == q \o log
           c == row.current_step
<1> SUFFICES ASSUME NEW k \in DOMAIN all, IsEnd(all[k], all[k].step, all[k].attempt),
                    all[k].lease_version # NULL
             PROVE  EndsOnce(all, k)
  BY DEF EndsOnce
<1>1. \A m \in DOMAIN q : all[m] = q[m]
  BY Appended
<1>2. CASE k \in DOMAIN q /\ all[k] = q[k]
  <2>1. /\ StartedIn(q, k - 1, q[k].step, q[k].attempt, q[k].worker, q[k].lease_version)
        /\ \A j \in 1..(k - 1) : ~IsEnd(q[j], q[k].step, q[k].attempt)
    BY <1>2 DEF EndsOnce
  <2>2. k - 1 \in 0..Len(q) /\ k - 1 \in Nat /\ k - 1 <= k - 1
        /\ \A j \in 1..(k - 1) : all[j] = q[j]
    BY <1>1, <1>2
  <2>3. StartedIn(all, k - 1, q[k].step, q[k].attempt, q[k].worker, q[k].lease_version)
    BY <2>1, <2>2, StartedExtends
  <2> HIDE DEF all
  <2>. QED  BY <1>2, <2>1, <2>2, <2>3 DEF EndsOnce
<1>3. CASE \E p \in DOMAIN log : k = Len(q) + p /\ all[k] = log[p]
  <2>1. PICK p \in DOMAIN log : k = Len(q) + p /\ all[k] = log[p]
    BY <1>3
  <2>2. log[p].type \in {"STEP_SUCCEEDED", "STEP_FAILED"} /\ log[p].lease_version # NULL
    BY <2>1 DEF IsEnd, IsStepEvent
  <2>3. /\ row.status = "RUNNING" /\ st[c].status = "RUNNING"
        /\ log[p].step = c /\ log[p].attempt = st[c].attempt
        /\ log[p].worker = row.worker_id /\ log[p].lease_version = row.lease_version
        /\ \A m \in 1..(p - 1) : log[m].type \notin {"STEP_SUCCEEDED", "STEP_FAILED"}
    BY <2>2 DEF Ends
  <2>4. /\ StartedIn(q, Len(q), c, st[c].attempt, row.worker_id, row.lease_version)
        /\ \A m \in DOMAIN q : ~IsEnd(q[m], c, st[c].attempt)
    BY <2>3 DEF Begun
  <2>5. Len(q) \in 0..Len(q) /\ k - 1 \in Nat /\ Len(q) <= k - 1
    BY <2>1
  <2>6. StartedIn(all, k - 1, c, st[c].attempt, row.worker_id, row.lease_version)
    BY <2>4, <2>5, StartedExtends
  <2>7. ASSUME NEW j \in 1..(k - 1) PROVE ~IsEnd(all[j], c, st[c].attempt)
    <3>1. j \in DOMAIN all
      BY <2>1
    <3>2. CASE j \in DOMAIN q /\ all[j] = q[j]
      BY <2>4, <3>2
    <3>3. CASE \E m \in DOMAIN log : j = Len(q) + m /\ all[j] = log[m]
      <4>1. PICK m \in DOMAIN log : j = Len(q) + m /\ all[j] = log[m]
        BY <3>3
      <4>2. m \in 1..(p - 1)
        BY <2>1, <4>1
      <4>. QED  BY <2>3, <4>1, <4>2 DEF IsEnd, IsStepEvent
    <3>. QED  BY <3>1, <3>2, <3>3, AppendedAt
  <2> HIDE DEF all
  <2>. QED  BY <2>1, <2>3, <2>6, <2>7 DEF EndsOnce
<1>. QED  BY <1>2, <1>3, AppendedAt

\* A takeover leaves the expired lease behind, and no transaction goes back to it.
LEMMA SupersededKept ==
  ASSUME NEW row \in TaskRow, row.status \notin TerminalStatus, NEW new,
         NEW q \in Seq(EventRow), NEW log \in Seq(EventRow), Leases(row, new, log),
         new.lease_version \in {row.lease_version, row.lease_version + 1},
         \A k \in DOMAIN q : Superseded(row, q[k])
  PROVE  \A k \in DOMAIN (q \o log) : Superseded(new, (q \o log)[k])
<1>1. /\ row.lease_version \in Nat /\ new.lease_version \in Nat
      /\ row.lease_version <= new.lease_version
  <2>1. row.lease_version \in Nat
    BY DEF TaskRow
  <2>. QED  BY <2>1
<1>2. ASSUME NEW k \in DOMAIN q PROVE Superseded(new, q[k])
  BY <1>1, <1>2 DEF Superseded
<1>3. ASSUME NEW p \in DOMAIN log PROVE Superseded(new, log[p])
  BY <1>1, <1>3 DEF Superseded, Leases, TerminalStatus
<1>. QED  BY <1>2, <1>3, AppendedAt

-----------------------------------------------------------------------------
(* The invariant. *)

\* The log of a task that has just been created.
LEMMA CreateLogged ==
  ASSUME NEW row \in TaskRow, NEW st, NEW new, NEW st2 \in Seq(StepRow),
         NEW log \in Seq(EventRow), now \in Nat, CreateEffect(row, st, new, st2, log),
         Past(log, now), Dated(new, now), Verdict(new, log)
  PROVE  Logged(new, st2, log, now)
<1>1. \A k \in DOMAIN log : /\ log[k].type \in {"TASK_CREATED", "TASK_SCHEDULED"}
                            /\ log[k].lease_version = NULL
  BY DEF CreateEffect, TaskEvent, Event
<1>2. new.deadline_at = NULL /\ new.status \in {"SCHEDULED", "RUNNABLE"}
      /\ \A i \in DOMAIN st2 : st2[i].status = "PENDING" /\ st2[i].attempt = 0
  BY DEF CreateEffect, Untouched
<1>3. \A k \in DOMAIN log : Timely(new, log[k]) /\ Fenced(log, k) /\ InOrder(log, k)
                            /\ Waited(new, log[k], now) /\ Due(new, log, k)
                            /\ Lapsed(log, k) /\ Superseded(new, log[k]) /\ EndsOnce(log, k)
  BY <1>1, <1>2 DEF Timely, Fenced, InOrder, Waited, Due, Lapsed, Superseded, EndsOnce
<1>4. Held(new, log) /\ Counted(new, st2, log) /\ Lasting(new, log) /\ Begun(new, st2, log)
  BY <1>1, <1>2 DEF Held, Counted, AttemptTypes, Lasting, Begun
<1>. QED  BY <1>3, <1>4 DEF Logged

\* Every transaction keeps the invariant of its task.
LEMMA EffectLogged ==
  ASSUME NEW row \in TaskRow, NEW st \in Seq(StepRow), Coherent(row, st), now \in Nat,
         NEW new, NEW st2 \in Seq(StepRow), NEW q \in Seq(EventRow), NEW log \in Seq(EventRow),
         Effect(row, st, new, st2, log), row.status = "NONE" => q = <<>>,
         Logged(row, st, q, now)
  PROVE  Logged(new, st2, q \o log, now)
<1>1. /\ Past(q, now) /\ Dated(row, now) /\ Verdict(row, q) /\ Held(row, q) /\ Counted(row, st, q)
      /\ \A k \in DOMAIN q : Timely(row, q[k])
      /\ \A k \in DOMAIN q : Fenced(q, k)
      /\ \A k \in DOMAIN q : InOrder(q, k)
      /\ \A k \in DOMAIN q : Waited(row, q[k], now)
      /\ \A k \in DOMAIN q : Due(row, q, k)
      /\ Lasting(row, q) /\ Begun(row, st, q)
      /\ \A k \in DOMAIN q : Lapsed(q, k)
      /\ \A k \in DOMAIN q : Superseded(row, q[k])
      /\ \A k \in DOMAIN q : EndsOnce(q, k)
  BY DEF Logged
<1>2. Tells(row, new, log) /\ Clocks(row) /\ row.status \notin TerminalStatus
  BY EffectTells, EffectStatus DEF Coherent, LiveStatus, TerminalStatus
<1>3. Past(q \o log, now) /\ Dated(new, now) /\ Verdict(new, q \o log)
  BY <1>1, <1>2, PastKept, DatedKept, VerdictKept, EffectVerdict
<1>4. CASE row.status = "NONE"
  <2>1. q \o log = log
    BY <1>4
  <2>2. CreateEffect(row, st, new, st2, log)
    BY <1>4, EffectStatus
  <2>. QED  BY <1>3, <2>1, <2>2, CreateLogged
<1>5. CASE row.status # "NONE"
  <2>1. \A k \in DOMAIN (q \o log) : Timely(new, (q \o log)[k])
    BY <1>1, TimelyKept
  <2>2. Held(new, q \o log) /\ \A k \in DOMAIN (q \o log) : Fenced(q \o log, k)
    BY <1>1, <1>2, HeldKept, FencedKept
  <2>3. Counted(new, st2, q \o log)
    BY <1>1, <1>5, CountedKept
  <2>4. \A k \in DOMAIN (q \o log) : InOrder(q \o log, k)
    BY <1>1, <1>5, InOrderKept
  <2>5. \A k \in DOMAIN (q \o log) : Waited(new, (q \o log)[k], now)
    BY <1>1, WaitedKept
  <2>6. \A k \in DOMAIN (q \o log) : Due(new, q \o log, k)
    BY <1>1, <1>2, <1>5, DueKept
  <2>7. Lasting(new, q \o log) /\ \A k \in DOMAIN (q \o log) : Lapsed(q \o log, k)
    <3>1. Leases(row, new, log) /\ Ownership(row)
      BY EffectLeases DEF Coherent
    <3>. QED  BY <1>1, <1>2, <1>3, <3>1, LastingKept, LapsedKept
  <2>8. Begun(new, st2, q \o log)
    BY <1>1, BegunKept
  <2>9. \A k \in DOMAIN (q \o log) : EndsOnce(q \o log, k)
    BY <1>1, EffectEnds, EndedKept
  <2>10. \A k \in DOMAIN (q \o log) : Superseded(new, (q \o log)[k])
    BY <1>1, <1>2, <1>5, EffectLeases, EffectVersion, SupersededKept
  <2>. QED  BY <1>3, <2>1, <2>2, <2>3, <2>4, <2>5, <2>6, <2>7, <2>8, <2>9, <2>10 DEF Logged
<1>. QED  BY <1>4, <1>5

\* Time that passes does not harm.
LEMMA LaterLogged ==
  ASSUME NEW row \in TaskRow, Clocks(row), NEW st, NEW q \in Seq(EventRow), now \in Nat,
         row.status = "NONE" => row.lease_version = 0, Logged(row, st, q, now)
  PROVE  Logged(row, st, q, now + 1)
<1>1. \A k \in DOMAIN q : q[k].created_at \in Nat
  <2>1. \A k \in DOMAIN q : q[k] \in EventRow
    OBVIOUS
  <2>. QED  BY <2>1 DEF EventRow
<1>2. Past(q, now + 1)
  <2>1. ASSUME NEW k \in DOMAIN q PROVE q[k].created_at <= now + 1
    BY <1>1 DEF Logged, Past
  <2>. QED  BY <2>1 DEF Past
<1>3. Dated(row, now + 1)
  <2>1. row.lease_version > 0 \/ row.status = "RUNNABLE" => row.run_at \in Nat /\ row.run_at <= now
    <3>1. row.lease_version > 0 \/ row.status = "RUNNABLE" => row.run_at <= now
      BY DEF Logged, Dated
    <3>2. row.status # "NONE" => row.run_at \in Nat
      BY DEF TaskRow, Clocks, Time
    <3>. QED  BY <3>1, <3>2
  <2>. QED  BY <2>1 DEF Logged, Dated
<1>4. ASSUME NEW k \in DOMAIN q PROVE Waited(row, q[k], now + 1)
  <2> SUFFICES ASSUME q[k].type = "TASK_RETRY_WAIT" PROVE Waited(row, q[k], now + 1)
    BY DEF Waited
  <2>1. Waited(row, q[k], now) /\ q[k].created_at \in Nat
    BY <1>1 DEF Logged
  <2>2. q[k].attempt \in Nat /\ q[k].attempt >= 1
    BY <2>1 DEF Waited
  <2>3. Delay(q[k].attempt) \in Nat
    BY <2>2, BackoffIsDelay
  <2>. QED  BY <2>1, <2>2, <2>3 DEF Waited
<1>. QED  BY <1>2, <1>3, <1>4 DEF Logged

\* Every step of the store keeps the invariant of the logs.
LEMMA NextLogInv == IInv /\ Blank /\ LogInv /\ [Next]_vars => LogInv'
<1> SUFFICES ASSUME IInv, Blank, LogInv, [Next]_vars, NEW t \in Tasks
             PROVE  Logged(tasks'[t], steps'[t], events'[t], now')
  BY DEF LogInv
<1>1. /\ tasks[t] \in TaskRow /\ steps[t] \in Seq(StepRow) /\ events[t] \in Seq(EventRow)
      /\ Coherent(tasks[t], steps[t]) /\ Clocks(tasks[t]) /\ now \in Nat
      /\ Logged(tasks[t], steps[t], events[t], now)
  BY TaskFacts DEF IInv, TypeOK, Coherent, LogInv
<1>2. tasks[t].status = "NONE" => events[t] = <<>> /\ tasks[t].lease_version = 0
  <2>1. NoTask.lease_version = 0
    BY DEF NoTask
  <2>. QED  BY <2>1 DEF Blank
<1>3. steps'[t] \in Seq(StepRow)
  BY NextIInv DEF IInv, TypeOK
<1>4. CASE ClockOnly
  BY <1>1, <1>2, <1>4, LaterLogged DEF ClockOnly
<1>5. CASE Transacts(t)
  <2>1. PICK log \in Seq(EventRow) :
          /\ events'[t] = events[t] \o log
          /\ Effect(tasks[t], steps[t], tasks'[t], steps'[t], log)
    BY <1>5 DEF Transacts
  <2>2. Effect(tasks[t], steps[t], tasks'[t], steps'[t], log)
    BY <2>1
  <2>3. Logged(tasks'[t], steps'[t], events[t] \o log, now)
    BY <1>1, <1>2, <1>3, <2>2, EffectLogged
  <2>. QED  BY <1>5, <2>1, <2>3 DEF Transacts, OnlyTask
<1>6. CASE \E u \in Tasks \ {t} : Transacts(u)
  BY <1>1, <1>6 DEF Transacts, OnlyTask
<1>. QED  BY <1>4, <1>5, <1>6, NextEffect

\* No task has a log yet.
LEMMA InitLogInv == Init => LogInv
<1> SUFFICES ASSUME Init, NEW t \in Tasks PROVE Logged(NoTask, <<>>, <<>>, now)
  BY DEF Init, LogInv
<1>1. NoTask.status = "NONE" /\ NoTask.lease_version = 0
  BY DEF NoTask
<1>. QED  BY <1>1 DEF Logged, Past, Dated, Verdict, Held, Counted, TerminalStatus, Lasting, Begun

\* The logs tell the truth: the strengthening behind the theorems below.
THEOREM LogInvariance == Spec => []LogInv
<1>. QED  BY InitLogInv, NextLogInv, Invariance, BlankInvariance, PTL DEF Spec

-----------------------------------------------------------------------------
(* What the logs show. *)

\* A task has a terminal event exactly when its status is terminal; it is the one
\* of that status, and the last: of a success, a failure, a cancellation and a
\* timeout that race, one is recorded and nothing after it.
THEOREM OneVerdictCorrect == Spec => []OneVerdict
<1>1. LogInv => OneVerdict
  <2> SUFFICES ASSUME LogInv, NEW t \in Tasks
               PROVE  /\ \A k \in DOMAIN events[t] :
                           (\E status \in TerminalStatus : events[t][k].type = TerminalEvent[status])
                             => k = Len(events[t])
                      /\ tasks[t].status \in TerminalStatus =>
                           /\ events[t] # <<>>
                           /\ events[t][Len(events[t])].type = TerminalEvent[tasks[t].status]
    BY DEF OneVerdict
  <2>1. Verdict(tasks[t], events[t])
    BY DEF LogInv, Logged
  <2>2. \A status \in TerminalStatus : TerminalEvent[status] \in VerdictTypes
    BY TerminalEvents DEF TerminalStatus, VerdictTypes
  <2>. QED  BY <2>1, <2>2 DEF Verdict
<1>. QED  BY <1>1, LogInvariance, PTL

\* From its deadline on, nothing but the verdict happens to a task: it is not
\* claimed, no attempt starts or ends, no approval is asked for or decided.
THEOREM NothingAfterDeadlineCorrect == Spec => []NothingAfterDeadline
<1>1. LogInv => NothingAfterDeadline
  BY DEF LogInv, Logged, Timely, NothingAfterDeadline
<1>. QED  BY <1>1, LogInvariance, PTL

\* An event that an owner wrote carries the token of the latest claim before
\* it: no attempt is started or finished under a lease that was superseded.
THEOREM FencedWritesCorrect == Spec => []FencedWrites
<1>1. LogInv => FencedWrites
  BY DEF LogInv, Logged, Fenced, LastClaim, FencedWrites
<1>. QED  BY <1>1, LogInvariance, PTL

\* An attempt is started once; the one before it has failed, and so has the step
\* before it succeeded or been approved.
THEOREM AttemptsInOrderCorrect == Spec => []AttemptsInOrder
<1>1. LogInv => AttemptsInOrder
  BY DEF LogInv, Logged, InOrder, FailedIn, DoneIn, AttemptTypes, AttemptsInOrder
<1>. QED  BY <1>1, LogInvariance, PTL

\* A task is not claimed before its run_at, the attempt after a temporary failure does
\* not start before the exponential delay is over, and a task is not taken over before
\* the lease duration has passed since every claim before.
THEOREM NeverEarlyCorrect == Spec => []NeverEarly
<1>1. LogInv => NeverEarly
  BY DEF LogInv, Logged, Due, Lapsed, NeverEarly
<1>. QED  BY <1>1, LogInvariance, PTL

\* An attempt that an owner ends, or that a takeover ends in its place, was started
\* under the lease in whose name it ends, and has not ended before.
THEOREM EndsAsItBeganCorrect == Spec => []EndsAsItBegan
<1>1. LogInv => EndsAsItBegan
  BY DEF LogInv, Logged, EndsOnce, StartedIn, EndsAsItBegan
<1>. QED  BY <1>1, LogInvariance, PTL

\* No live task falls between the scans: the scheduler's selects it, or that of
\* ClaimTask, or one of them will at a moment that is still to come.
THEOREM AttendedCorrect == Spec => []Attended
<1>1. IInv /\ LogInv => Attended
  <2> SUFFICES ASSUME IInv, LogInv, NEW t \in Tasks, tasks[t].status \in LiveStatus
               PROVE  DueControl(t) \/ Claimable(t) \/ Waits(tasks[t])
    BY DEF Attended
  <2> DEFINE row == tasks[t]
  <2>1. row \in TaskRow /\ Clocks(row) /\ Ownership(row) /\ Dated(row, now) /\ now \in Nat
    BY TaskFacts DEF IInv, TypeOK, Coherent, LogInv, Logged
  <2>2. /\ row.run_at \in Time /\ row.retry_at \in Time /\ row.lease_expires_at \in Time
        /\ row.deadline_at \in Time
    BY <2>1 DEF TaskRow
  <2>3. CASE row.cancel_requested \/ DeadlinePassed(t)
    BY <2>3 DEF DueControl, Unfinished, ControlPending, CancelDue
  <2>4. CASE ~row.cancel_requested /\ ~DeadlinePassed(t)
    <3>1. CASE row.status = "SCHEDULED"
      BY <2>1, <2>2, <2>4, <3>1 DEF DueControl, Unfinished, ScheduleDue, Waits, Clocks, Time
    <3>2. CASE row.status = "RUNNABLE"
      BY <2>1, <2>4, <3>2 DEF Claimable, Dated
    <3>3. CASE row.status = "RUNNING"
      BY <2>1, <2>2, <2>4, <3>3 DEF Claimable, Ownership, Waits, Time
    <3>4. CASE row.status = "RETRY_WAIT"
      BY <2>1, <2>2, <2>4, <3>4 DEF DueControl, Unfinished, RetryDue, Waits, Clocks, Time
    <3>5. CASE row.status = "WAITING_APPROVAL"
      BY <2>1, <2>2, <2>4, <3>5 DEF DeadlinePassed, Waits, Clocks, Time
    <3>. QED  BY <3>1, <3>2, <3>3, <3>4, <3>5 DEF LiveStatus
  <2>. QED  BY <2>3, <2>4
<1>. QED  BY <1>1, LogInvariance, Invariance, PTL

=============================================================================
