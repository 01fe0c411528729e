----------------------------- MODULE WorkerProofs -----------------------------
(***************************************************************************)
(* Why the workers are safe.  What a slot knows of its claim is stated for *)
(* each place of executeClaim; it stays true whatever the other slots, the *)
(* monitors, the faults, the clients and the schedulers do, because only   *)
(* the holder of the lease makes progress with a task and no two slots     *)
(* hold the same lease.                                                    *)
(***************************************************************************)
EXTENDS Worker, TaskStoreLog

-----------------------------------------------------------------------------
(* What the store keeps besides. *)

\* A task has as many steps as a definition may have.
StoreInv == \A t \in Tasks : Len(steps[t]) <= 100

-----------------------------------------------------------------------------
(* What a slot knows, at each place of executeClaim. *)

Holder(lease, row) ==
  row.status = "RUNNING" /\ row.worker_id = lease.worker /\ row.lease_version = lease.version

Typed(slot) ==
  /\ slot \in Slot
  /\ slot.pc # "idle" => slot.lease \in Lease
  /\ slot.pc = "idle" => slot.monitor = "done"
  /\ slot.pc \in {"finish", "confirmFinish"} => slot.outcome \in Outcomes

\* The step that the slot has read is there, and what it executes was started.
HasStep(slot, st) ==
  /\ slot.pc \in {"act", "confirmStart", "execute", "await", "finish", "confirmFinish"} =>
       slot.step \in DOMAIN st
  /\ slot.pc \in {"confirmStart", "execute", "await"} =>
       /\ st[slot.step].type # "approval" /\ slot.attempt > 0
       /\ slot.input \in Value /\ slot.input # NULL
  /\ slot.pc \in {"execute", "await"} =>
       st[slot.step].resolved_input = slot.input /\ st[slot.step].attempt > 0

\* The attempt of the slot is the one that runs.
Runs(slot, row, st) ==
  /\ slot.step = row.current_step
  /\ st[row.current_step].status = "RUNNING"
  /\ st[row.current_step].attempt = slot.attempt

\* What a slot that holds the lease finds at the cursor.
Owns(slot, row, st) ==
  /\ slot.pc = "load" => st[row.current_step].status # "RUNNING"
  /\ slot.pc = "act" => slot.step = row.current_step /\ st[row.current_step].status # "RUNNING"
  /\ slot.pc \in {"execute", "await", "finish"} => Runs(slot, row, st)
  /\ slot.pc = "confirmFinish" =>
       \/ Runs(slot, row, st)
       \/ slot.step # row.current_step /\ st[row.current_step].status # "RUNNING"

\* A later attempt of the step has been started.
Later(slot, st) == slot.attempt \in Nat /\ st[slot.step].attempt > slot.attempt

\* The attempt of the slot has failed.
Failed(slot, st) == st[slot.step].attempt = slot.attempt /\ st[slot.step].status = "FAILED"

\* What may have become of an attempt whose FinishStep was not answered: it runs; or the
\* slot's own transaction has committed its success, or its failure; or a takeover, a
\* cancellation or the deadline has failed it.  Of a failure, a later attempt may have
\* been started.
FinishSeen(slot, row, st, q) ==
  \/ Holder(slot.lease, row) /\ Runs(slot, row, st)
  \/ FinishLogged(slot, q, "STEP_SUCCEEDED") /\ st[slot.step].status = "SUCCEEDED"
  \/ FinishLogged(slot, q, "STEP_FAILED") /\ Failed(slot, st)
  \/ /\ Failed(slot, st)
     /\ st[slot.step].error = "worker_lost" \/ row.status \in {"CANCELLED", "TIMED_OUT"}
  \/ Later(slot, st)

Finishes(slot, row, st, q) == slot.pc = "confirmFinish" => FinishSeen(slot, row, st, q)

Knows(slot, row, st, q) ==
  /\ slot.lease.version <= row.lease_version
  /\ HasStep(slot, st)
  /\ Holder(slot.lease, row) => Owns(slot, row, st)
  /\ Finishes(slot, row, st, q)

SlotOK(slot, ts, ss, es) ==
  /\ Typed(slot)
  /\ slot.pc # "idle" =>
       LET t == slot.lease.task IN Knows(slot, ts[t], ss[t], es[t])

\* No two slots hold the same lease.
Distinct(a, b) ==
  a.pc # "idle" /\ b.pc # "idle" /\ a.lease.task = b.lease.task => a.lease.version # b.lease.version

\* A request and its response.
RequestOK(r) ==
  /\ r = [client |-> r.client, key |-> r.key, payload |-> r.payload, connected |-> r.connected,
          response |-> r.response]
  /\ r.client \in Slots /\ r.key \in Keys /\ r.payload \in Value /\ r.connected \in BOOLEAN
  /\ r.response # NULL /\ r.response.status = 200 => r.response.body = Wrap(r.payload)

EffectRowOK(row) == row.key \in Keys /\ row.payload \in Value /\ row.result = Wrap(row.payload)

SlotsOK ==
  /\ slots = [s \in Slots |-> slots[s]]
  /\ \A s \in Slots : SlotOK(slots[s], tasks, steps, events)
  /\ \A s1, s2 \in Slots : s1 # s2 => Distinct(slots[s1], slots[s2])

ToolOK == (\A r \in requests : RequestOK(r)) /\ (\A row \in effects : EffectRowOK(row))

WorkerInv == SlotsOK /\ stopping \in [Workers -> BOOLEAN] /\ ToolOK

-----------------------------------------------------------------------------
(* The store keeps what it keeps. *)

\* What is in the log stays there, and what a transaction appends is there too.
LEMMA InLog ==
  ASSUME NEW q \in Seq(EventRow), NEW log \in Seq(EventRow)
  PROVE  /\ \A k \in DOMAIN q : k \in DOMAIN (q \o log) /\ (q \o log)[k] = q[k]
         /\ \A p \in DOMAIN log : \E k \in DOMAIN (q \o log) : (q \o log)[k] = log[p]
<1>1. /\ Len(q \o log) = Len(q) + Len(log) /\ q \o log \in Seq(EventRow)
      /\ \A k \in DOMAIN q : (q \o log)[k] = q[k]
      /\ \A k \in DOMAIN log : /\ Len(q) + k \in DOMAIN (q \o log)
                               /\ (q \o log)[Len(q) + k] = log[k]
  BY Appended
<1> DEFINE all == q \o log
<1> HIDE DEF all
<1>2. \A k \in DOMAIN q : k \in DOMAIN all
  BY <1>1 DEF all
<1>. QED  BY <1>1, <1>2 DEF all

\* No transaction adds a step to a task.
LEMMA NextStoreInv == IInv /\ StoreInv /\ [Next]_vars => StoreInv'
<1> SUFFICES ASSUME IInv, StoreInv, [Next]_vars, NEW t \in Tasks PROVE Len(steps'[t]) <= 100
  BY DEF StoreInv
<1>1. /\ tasks[t] \in TaskRow /\ steps[t] \in Seq(StepRow) /\ Coherent(tasks[t], steps[t])
      /\ Len(steps[t]) <= 100
  BY TaskFacts DEF IInv, TypeOK, StoreInv
<1>2. CASE ~Transacts(t)
  BY <1>1, <1>2, TaskStep
<1>3. CASE Transacts(t)
  <2> DEFINE row == tasks[t]
             new == tasks'[t]
             st == steps[t]
             st2 == steps'[t]
  <2>1. PICK log \in Seq(EventRow) : Effect(row, st, new, st2, log)
    BY <1>3 DEF Transacts
  <2>2. CASE row.status = "NONE"
    <3>1. CreateEffect(row, st, new, st2, log)
      BY <2>1, <2>2, EffectStatus
    <3>2. Len(st2) \in 1..100
      BY <3>1 DEF CreateEffect
    <3>3. \A n \in 1..100 : n <= 100
      OBVIOUS
    <3>. QED  BY <3>2, <3>3
  <2>3. CASE row.status # "NONE"
    <3>1. st2 = st \/ WritesCurrent(row, st, st2)
      BY <1>1, <2>1, <2>3, EffectSteps
    <3>. QED  BY <1>1, <3>1 DEF WritesCurrent
  <2>. QED  BY <2>2, <2>3
<1>. QED  BY <1>2, <1>3

\* No task has a step yet.
LEMMA InitStoreInv == Init => StoreInv
<1>1. Len(<<>>) <= 100
  OBVIOUS
<1>. QED  BY <1>1 DEF Init, StoreInv

-----------------------------------------------------------------------------
(* The calls of a slot are calls that the store expects of a lease holder. *)

\* The lease of a task that runs was issued by the claim that the log tells of last.
LEMMA HolderIssued ==
  ASSUME IInv, LogInv, NEW lease \in Lease, Holder(lease, tasks[lease.task])
  PROVE  lease \in IssuedLeases(lease.task)
<1> DEFINE t == lease.task
           q == events[t]
<1>1. /\ lease = [task |-> t, worker |-> lease.worker, version |-> lease.version]
      /\ t \in Tasks
  BY DEF Lease
<1>2. q \in Seq(EventRow) /\ LastClaim(q, Len(q), lease.worker, lease.version)
  BY <1>1 DEF LogInv, Logged, Held, Holder, IInv, TypeOK
<1>3. PICK j \in DOMAIN q : /\ q[j].type = "TASK_CLAIMED"
                            /\ q[j].worker = lease.worker
                            /\ q[j].lease_version = lease.version
  <2> HIDE DEF q
  <2>1. DOMAIN q = 1..Len(q)
    BY <1>2
  <2>. QED  BY <1>2, <2>1 DEF LastClaim
<1>. QED  BY <1>1, <1>3 DEF IssuedLeases

\* An attempt that its holder may finish was started by it.
LEMMA FinishStarted ==
  ASSUME IInv, LogInv, NEW lease \in Lease, NEW i, NEW n,
         Finishable(lease, [step |-> i, attempt |-> n])
  PROVE  [step |-> i, attempt |-> n] \in StartedAttempts(lease)
<1> DEFINE t == lease.task
           row == tasks[t]
           q == events[t]
           a == [step |-> i, attempt |-> n]
<1>1. t \in Tasks
  BY DEF Lease
<1>2. a.step = i /\ a.attempt = n
  OBVIOUS
<1>3. /\ validateOwnership(lease) = "nil" /\ i = row.current_step
      /\ steps[t][i].status = "RUNNING" /\ steps[t][i].attempt = n
  BY <1>2 DEF Finishable
<1>4. row.status = "RUNNING" /\ row.worker_id = lease.worker /\ row.lease_version = lease.version
  BY <1>1, <1>3, OwnerActive DEF Active
<1>5. PICK k \in DOMAIN q : /\ IsStepEvent(q[k], "STEP_STARTED", i, n)
                            /\ q[k].worker = lease.worker
                            /\ q[k].lease_version = lease.version
  <2>1. q \in Seq(EventRow) /\ Begun(row, steps[t], q)
    BY <1>1 DEF LogInv, Logged, IInv, TypeOK
  <2>2. StartedIn(q, Len(q), i, n, lease.worker, lease.version)
    BY <1>3, <1>4, <2>1 DEF Begun
  <2> HIDE DEF q
  <2>3. DOMAIN q = 1..Len(q)
    BY <2>1
  <2>. QED  BY <2>2, <2>3 DEF StartedIn
<1>. QED  BY <1>5 DEF StartedAttempts, IsStepEvent

\* What a slot may ask of the store with its lease.
OwnerCall(lease, i, n, outcome) ==
  \/ RenewLease(lease)
  \/ StartStep(lease, i)
  \/ WaitForApproval(lease, i)
  \/ outcome \in Outcomes /\ FinishStepFailed(lease, [step |-> i, attempt |-> n], outcome)
  \/ outcome \in Outcomes /\ FinishStepSucceeded(lease, [step |-> i, attempt |-> n], outcome)
  \/ TimeoutOwnedTask(lease)
  \/ CancelOwnedTask(lease)

\* Such a call comes from the holder, and is a step of the store.
LEMMA OwnerCallIsNext ==
  ASSUME IInv, LogInv, StoreInv, NEW lease \in Lease, NEW i, NEW n, NEW outcome,
         OwnerCall(lease, i, n, outcome)
  PROVE  Next /\ Holder(lease, tasks[lease.task]) /\ Transacts(lease.task)
<1> DEFINE t == lease.task
           a == [step |-> i, attempt |-> n]
<1>1. t \in Tasks
  BY DEF Lease
<1>2. ASSUME validateOwnership(lease) = "nil" PROVE Holder(lease, tasks[t])
  BY <1>1, <1>2, OwnerActive DEF Active, Holder
<1>3. ASSUME OwnerStep(lease), Holder(lease, tasks[t])
      PROVE  Next /\ Holder(lease, tasks[t]) /\ Transacts(t)
  BY <1>1, <1>3, HolderIssued, OwnerStepHasEffect DEF Next
<1>4. CASE RenewLease(lease)
  BY <1>2, <1>3, <1>4 DEF RenewLease, OwnerStep
<1>5. CASE StartStep(lease, i) \/ WaitForApproval(lease, i)
  <2>1. validateOwnership(lease) = "nil" /\ i = tasks[t].current_step
    BY <1>5 DEF StartStep, StartAllowed, WaitForApproval
  <2>2. i \in DOMAIN steps[t]
    BY <1>1, <1>2, <2>1, TaskFacts DEF Holder, LiveStatus
  <2>. QED  BY <1>2, <1>3, <1>5, <2>1, <2>2 DEF OwnerStep
<1>6. CASE /\ outcome \in Outcomes
           /\ FinishStepFailed(lease, a, outcome) \/ FinishStepSucceeded(lease, a, outcome)
  <2>1. Finishable(lease, a)
    BY <1>6 DEF FinishStepFailed, FinishStepSucceeded
  <2>2. a \in StartedAttempts(lease) /\ validateOwnership(lease) = "nil"
    BY <2>1, FinishStarted DEF Finishable
  <2>. QED  BY <1>2, <1>3, <1>6, <2>2 DEF OwnerStep
<1>7. CASE TimeoutOwnedTask(lease) \/ CancelOwnedTask(lease)
  <2>1. Holder(lease, tasks[t])
    BY <1>7 DEF TimeoutOwnedTask, CancelOwnedTask, ownsActiveLease, Holder
  <2>. QED  BY <1>3, <1>7, <2>1 DEF OwnerStep
<1>. QED  BY <1>4, <1>5, <1>6, <1>7 DEF OwnerCall

-----------------------------------------------------------------------------
(* What others do to the task of a slot. *)

\* A task goes on under the lease that it has: a step or the cursor is written.
SameClaim(t) ==
  /\ tasks[t].status = "RUNNING" /\ tasks'[t].status = "RUNNING"
  /\ tasks'[t].lease_version = tasks[t].lease_version

Advances(t) ==
  SameClaim(t) /\ (steps'[t] # steps[t] \/ tasks'[t].current_step # tasks[t].current_step)

\* Or else the lease is renewed.
Renews(t) == SameClaim(t) /\ tasks'[t].lease_expires_at # tasks[t].lease_expires_at

\* A task that runs under the same version as before ran before, for the same worker.
LEMMA EffectHolder ==
  ASSUME NEW row \in TaskRow, NEW st, NEW new, NEW st2, NEW log, Effect(row, st, new, st2, log),
         new.status = "RUNNING", new.lease_version = row.lease_version
  PROVE  row.status = "RUNNING" /\ new.worker_id = row.worker_id
<1> DEFINE v == row.lease_version
<1>1. v \in Nat
  BY DEF TaskRow
<1> HIDE DEF v
<1>2. v + 1 # v
  BY <1>1
<1>3. row.lease_version + 1 # row.lease_version
  BY <1>2 DEF v
<1>. QED  BY <1>3 DEF Effect, CreateEffect, MarkEffect, WakeEffect, ClaimEffect, RecoverEffect,
       Claims, ConvergeEffect, StartEffect, WaitEffect, FailEffect, SucceedEffect, ControlEffect,
       ApproveEffect, RejectEffect, Active

\* What becomes of an attempt that runs: it goes on; or its owner ends it, which the first
\* event tells; or it fails without its owner.
LEMMA EffectOnAttempt ==
  ASSUME NEW row \in TaskRow, NEW st, NEW new, NEW st2, NEW log, Effect(row, st, new, st2, log),
         row.status = "RUNNING", st[row.current_step].status = "RUNNING"
  PROVE  LET old == st[row.current_step]
             s == st2[row.current_step]
         IN  \/ /\ new.status = "RUNNING" /\ new.worker_id = row.worker_id
                /\ new.lease_version = row.lease_version /\ new.current_step = row.current_step
                /\ st2 = st
             \/ /\ 1 \in DOMAIN log /\ log[1] = OwnerEvent("STEP_SUCCEEDED", row, old.attempt)
                /\ s.status = "SUCCEEDED"
             \/ /\ 1 \in DOMAIN log /\ log[1] = OwnerEvent("STEP_FAILED", row, old.attempt)
                /\ s.status = "FAILED" /\ s.attempt = old.attempt
             \/ /\ s.status = "FAILED" /\ s.attempt = old.attempt
                /\ s.error = "worker_lost" \/ new.status \in {"CANCELLED", "TIMED_OUT"}
<1> DEFINE failed == OwnerEvent("STEP_FAILED", row, st[row.current_step].attempt)
           succeeded == OwnerEvent("STEP_SUCCEEDED", row, st[row.current_step].attempt)
<1> HIDE DEF failed, succeeded
<1>1. ASSUME NEW a, NEW b
      PROVE  /\ 1 \in DOMAIN <<a>> /\ <<a>>[1] = a
             /\ 1 \in DOMAIN <<a, b>> /\ <<a, b>>[1] = a
  OBVIOUS
<1>2. CASE MarkEffect(row, st, new, st2, log)
  BY <1>2 DEF MarkEffect, KeepsClaim, KeepsCursor
<1>3. CASE RecoverEffect(row, st, new, st2, log) \/ ConvergeEffect(row, st, new, st2, log)
  BY <1>3 DEF RecoverEffect, ConvergeEffect, LosesOwner, KeepsFacts
<1>4. CASE FailEffect(row, st, new, st2, log)
  <2>1. /\ \E b : log = <<failed, b>>
        /\ st2[row.current_step].status = "FAILED"
        /\ st2[row.current_step].attempt = st[row.current_step].attempt
    BY <1>4 DEF FailEffect, KeepsFacts, failed
  <2>. QED  BY <1>1, <2>1 DEF failed
<1>5. CASE SucceedEffect(row, st, new, st2, log)
  <2>1. /\ log = <<succeeded>> \/ \E b : log = <<succeeded, b>>
        /\ st2[row.current_step].status = "SUCCEEDED"
    BY <1>5 DEF SucceedEffect, succeeded
  <2>. QED  BY <1>1, <2>1 DEF succeeded
<1>6. CASE ControlEffect(row, st, new, st2, log)
  BY <1>6 DEF ControlEffect, KeepsFacts
<1>. QED  BY <1>2, <1>3, <1>4, <1>5, <1>6 DEF Effect, CreateEffect, WakeEffect, ClaimEffect,
       StartEffect, WaitEffect, ApproveEffect, RejectEffect, Waiting

\* What becomes of an attempt that has failed: it stays so, and keeps its error unless the
\* task ends; or the next one is started.
LEMMA EffectOnFailed ==
  ASSUME NEW row \in TaskRow, NEW st, NEW new, NEW st2, NEW log, Effect(row, st, new, st2, log),
         row.status # "NONE", st[row.current_step].status = "FAILED"
  PROVE  LET old == st[row.current_step]
             s == st2[row.current_step]
         IN  \/ s.attempt = old.attempt + 1
             \/ /\ s.status = "FAILED" /\ s.attempt = old.attempt
                /\ s.error = old.error \/ new.status \in {"CANCELLED", "TIMED_OUT"}
<1>1. CASE MarkEffect(row, st, new, st2, log) \/ WakeEffect(row, st, new, st2, log)
           \/ ClaimEffect(row, st, new, st2, log)
  BY <1>1 DEF MarkEffect, WakeEffect, ClaimEffect
<1>2. CASE RecoverEffect(row, st, new, st2, log)
  BY <1>2 DEF RecoverEffect, LosesOwner, KeepsFacts
<1>3. CASE StartEffect(row, st, new, st2, log)
  BY <1>3 DEF StartEffect
<1>4. CASE ControlEffect(row, st, new, st2, log)
  BY <1>4 DEF ControlEffect, KeepsFacts
<1>. QED  BY <1>1, <1>2, <1>3, <1>4 DEF Effect, CreateEffect, ConvergeEffect, WaitEffect, FailEffect,
       SucceedEffect, ApproveEffect, RejectEffect, Waiting

\* A finish that is in the log stays there.
LEMMA FinishLoggedKept ==
  ASSUME NEW slot, NEW type, NEW q \in Seq(EventRow), NEW log \in Seq(EventRow),
         FinishLogged(slot, q, type)
  PROVE  FinishLogged(slot, q \o log, type)
<1> DEFINE all == q \o log
<1>1. \A k \in DOMAIN q : k \in DOMAIN all /\ all[k] = q[k]
  BY InLog
<1>2. DOMAIN q = 1..Len(q) /\ Len(q) \in Nat
  OBVIOUS
<1> HIDE DEF all
<1>3. PICK k \in DOMAIN q :
        /\ q[k].type = type
        /\ q[k].step = slot.step /\ q[k].attempt = slot.attempt
        /\ q[k].worker = slot.lease.worker /\ q[k].lease_version = slot.lease.version
        /\ \A j \in 1..(k - 1) :
             ~(q[j].type = "LEASE_EXPIRED" /\ q[j].lease_version = slot.lease.version)
  BY DEF FinishLogged
<1>4. \A j \in 1..(k - 1) : j \in DOMAIN q
  BY <1>2
<1>5. k \in DOMAIN all /\ all[k] = q[k]
  BY <1>1
<1>6. \A j \in 1..(k - 1) : all[j] = q[j]
  BY <1>1, <1>4
<1>7. FinishLogged(slot, all, type)
  BY <1>3, <1>5, <1>6 DEF FinishLogged
<1>. QED  BY <1>7 DEF all

\* What the holder of the lease writes of its attempt follows no LEASE_EXPIRED of the lease.
LEMMA OwnFinishLogged ==
  ASSUME NEW slot, NEW type, NEW row \in TaskRow, NEW q \in Seq(EventRow),
         NEW log \in Seq(EventRow), Holder(slot.lease, row), slot.step = row.current_step,
         \A k \in DOMAIN q : Superseded(row, q[k]),
         1 \in DOMAIN log, log[1] = OwnerEvent(type, row, slot.attempt)
  PROVE  FinishLogged(slot, q \o log, type)
<1> DEFINE all == q \o log
           k == Len(q) + 1
<1>1. /\ \A j \in DOMAIN q : all[j] = q[j]
      /\ k \in DOMAIN all /\ all[k] = log[1]
  BY Appended
<1>2. DOMAIN q = 1..(k - 1) /\ k \in Nat
  OBVIOUS
<1> HIDE DEF all, k
<1>3. /\ all[k].type = type
      /\ all[k].step = slot.step /\ all[k].attempt = slot.attempt
      /\ all[k].worker = slot.lease.worker /\ all[k].lease_version = slot.lease.version
  BY <1>1 DEF Holder, OwnerEvent, Event
<1>4. ASSUME NEW j \in 1..(k - 1), all[j].type = "LEASE_EXPIRED",
             all[j].lease_version = slot.lease.version
      PROVE  FALSE
  <2>1. Superseded(row, all[j]) /\ row.status = "RUNNING"
        /\ row.lease_version = slot.lease.version
    BY <1>1, <1>2 DEF Holder
  <2>2. all[j].lease_version \in Nat /\ all[j].lease_version < row.lease_version
    BY <1>4, <2>1 DEF Superseded, TerminalStatus
  <2>. QED  BY <1>4, <2>1, <2>2
<1>5. FinishLogged(slot, all, type)
  BY <1>1, <1>3, <1>4 DEF FinishLogged
<1>. QED  BY <1>5 DEF all

\* No transaction makes a failure of another look like the slot's own finish.
LEMMA FinishSeenKept ==
  ASSUME NEW slot, NEW row \in TaskRow, NEW st \in Seq(StepRow), Coherent(row, st),
         row.status # "NONE", NEW new, NEW st2, NEW q \in Seq(EventRow),
         NEW log \in Seq(EventRow), Effect(row, st, new, st2, log),
         \A k \in DOMAIN q : Superseded(row, q[k]), slot.step \in DOMAIN st,
         FinishSeen(slot, row, st, q)
  PROVE  FinishSeen(slot, new, st2, q \o log)
<1> DEFINE c == row.current_step
           i == slot.step
           q2 == q \o log
<1> SUFFICES FinishSeen(slot, new, st2, q2)
  OBVIOUS
<1>1. st[i].attempt \in Nat
  <2>1. st[i] \in StepRow
    OBVIOUS
  <2>. QED  BY <2>1 DEF StepRow
<1>2. \/ i # c /\ st2[i] = st[i]
      \/ i = c /\ \/ st2[i] = st[i]
                  \/ /\ st[i].status # "SUCCEEDED"
                     /\ st2[i].attempt \in {st[i].attempt, st[i].attempt + 1}
  BY EffectSteps DEF WritesCurrent
<1>3. /\ \A type : FinishLogged(slot, q, type) => FinishLogged(slot, q2, type)
      /\ row.status \notin {"CANCELLED", "TIMED_OUT"}
  BY FinishLoggedKept, EffectStatus DEF LiveStatus
<1> HIDE DEF q2
<1>4. CASE Holder(slot.lease, row) /\ Runs(slot, row, st)
  <2>1. /\ row.status = "RUNNING" /\ st[c].status = "RUNNING" /\ i = c
        /\ st[c].attempt = slot.attempt
    BY <1>4 DEF Holder, Runs
  <2>2. CASE /\ new.status = "RUNNING" /\ new.worker_id = row.worker_id
             /\ new.lease_version = row.lease_version /\ new.current_step = c
             /\ st2 = st
    BY <1>4, <2>2 DEF Holder, Runs, FinishSeen
  <2>3. CASE /\ 1 \in DOMAIN log /\ log[1] = OwnerEvent("STEP_SUCCEEDED", row, st[c].attempt)
             /\ st2[c].status = "SUCCEEDED"
    <3>1. FinishLogged(slot, q2, "STEP_SUCCEEDED")
      BY <1>4, <2>1, <2>3, OwnFinishLogged DEF q2
    <3>. QED  BY <2>1, <2>3, <3>1 DEF FinishSeen
  <2>4. CASE /\ 1 \in DOMAIN log /\ log[1] = OwnerEvent("STEP_FAILED", row, st[c].attempt)
             /\ st2[c].status = "FAILED" /\ st2[c].attempt = st[c].attempt
    <3>1. FinishLogged(slot, q2, "STEP_FAILED")
      BY <1>4, <2>1, <2>4, OwnFinishLogged DEF q2
    <3>. QED  BY <2>1, <2>4, <3>1 DEF FinishSeen, Failed
  <2>5. CASE /\ st2[c].status = "FAILED" /\ st2[c].attempt = st[c].attempt
             /\ st2[c].error = "worker_lost" \/ new.status \in {"CANCELLED", "TIMED_OUT"}
    BY <2>1, <2>5 DEF FinishSeen, Failed
  <2>. QED  BY <2>1, <2>2, <2>3, <2>4, <2>5, EffectOnAttempt
<1>5. CASE FinishLogged(slot, q, "STEP_SUCCEEDED") /\ st[i].status = "SUCCEEDED"
  BY <1>2, <1>3, <1>5 DEF FinishSeen
<1>6. CASE Failed(slot, st)
  <2>1. \/ st2[i].attempt = st[i].attempt + 1
        \/ /\ st2[i].status = "FAILED" /\ st2[i].attempt = st[i].attempt
           /\ st2[i].error = st[i].error \/ new.status \in {"CANCELLED", "TIMED_OUT"}
    <3>1. CASE i = c
      <4>1. row.status # "NONE" /\ st[c].status = "FAILED" /\ row \in TaskRow
        BY <1>6, <3>1 DEF Failed
      <4>. QED  BY <3>1, <4>1, EffectOnFailed
    <3>. QED  BY <1>2, <1>6, <3>1 DEF Failed
  <2>2. CASE st2[i].attempt = st[i].attempt + 1
    BY <1>1, <1>6, <2>2 DEF Failed, Later, FinishSeen
  <2>3. CASE /\ st2[i].status = "FAILED" /\ st2[i].attempt = st[i].attempt
             /\ st2[i].error = st[i].error \/ new.status \in {"CANCELLED", "TIMED_OUT"}
    <3>1. Failed(slot, st2)
      BY <1>6, <2>3 DEF Failed
    <3>2. \/ FinishLogged(slot, q, "STEP_FAILED")
          \/ st[i].error = "worker_lost"
      <4>1. st[i].status = "FAILED" /\ st[i].attempt = slot.attempt
        BY <1>6 DEF Failed
      <4>2. ~Runs(slot, row, st) /\ ~Later(slot, st)
        BY <1>1, <4>1 DEF Runs, Later
      <4>. QED  BY <1>3, <4>1, <4>2 DEF FinishSeen
    <3>. QED  BY <1>3, <2>3, <3>1, <3>2 DEF FinishSeen
  <2>. QED  BY <2>1, <2>2, <2>3
<1>7. CASE Later(slot, st)
  <2>1. st2[i].attempt \in {st[i].attempt, st[i].attempt + 1}
    BY <1>2
  <2>2. Later(slot, st2)
    BY <1>1, <1>7, <2>1 DEF Later
  <2>. QED  BY <2>2 DEF FinishSeen
<1>. QED  BY <1>4, <1>5, <1>6, <1>7 DEF FinishSeen, Failed

\* What every step of the store keeps of the steps.
LEMMA StepsKept ==
  ASSUME IInv, Blank, [Next]_vars, NEW t \in Tasks, NEW i \in DOMAIN steps[t]
  PROVE  /\ i \in DOMAIN steps'[t]
         /\ steps'[t][i].type = steps[t][i].type
         /\ steps[t][i].attempt > 0 => steps'[t][i].attempt > 0
         /\ steps[t][i].resolved_input # NULL =>
              steps'[t][i].resolved_input = steps[t][i].resolved_input
<1>1. /\ tasks[t] \in TaskRow /\ steps[t] \in Seq(StepRow) /\ Coherent(tasks[t], steps[t])
      /\ steps[t][i].attempt \in Nat
  BY TaskFacts, StepFields DEF IInv, TypeOK
<1>2. CASE ~Transacts(t)
  BY <1>2, TaskStep
<1>3. CASE Transacts(t)
  <2>1. PICK log \in Seq(EventRow) : Effect(tasks[t], steps[t], tasks'[t], steps'[t], log)
    BY <1>3 DEF Transacts
  <2>2. tasks[t].status # "NONE"
    BY DEF Blank
  <2>3. Effect(tasks[t], steps[t], tasks'[t], steps'[t], log)
    BY <2>1
  <2>4. CASE i # tasks[t].current_step
    BY <1>1, <2>2, <2>3, <2>4, EffectSteps DEF WritesCurrent
  <2>5. CASE i = tasks[t].current_step
    <3>1. steps'[t] = steps[t] \/ WritesCurrent(tasks[t], steps[t], steps'[t])
      BY <1>1, <2>2, <2>3, EffectSteps
    <3>2. i \in DOMAIN steps'[t] /\ steps'[t][i].type = steps[t][i].type
      BY <2>5, <3>1 DEF WritesCurrent
    <3>3. /\ steps'[t][i].attempt \in {steps[t][i].attempt, steps[t][i].attempt + 1}
          /\ steps[t][i].resolved_input # NULL =>
               steps'[t][i].resolved_input = steps[t][i].resolved_input
      BY <1>1, <2>2, <2>3, <2>5, EffectSteps
    <3>. QED  BY <1>1, <3>2, <3>3
  <2>. QED  BY <2>4, <2>5
<1>. QED  BY <1>2, <1>3

\* What a slot knows of the past stays true whatever the store does.
LEMMA ClaimPastKept ==
  ASSUME IInv, Blank, LogInv, [Next]_vars, NEW slot, NEW t \in Tasks, slot.lease.version \in Nat,
         slot.lease.version <= tasks[t].lease_version, HasStep(slot, steps[t]),
         Finishes(slot, tasks[t], steps[t], events[t])
  PROVE  /\ slot.lease.version <= tasks'[t].lease_version
         /\ HasStep(slot, steps'[t])
         /\ Finishes(slot, tasks'[t], steps'[t], events'[t])
         /\ tasks[t].lease_version <= tasks'[t].lease_version
         /\ Holder(slot.lease, tasks'[t]) => Holder(slot.lease, tasks[t])
<1> DEFINE row == tasks[t]
           new == tasks'[t]
           st == steps[t]
           st2 == steps'[t]
           q == events[t]
           q2 == events'[t]
<1>1. /\ row \in TaskRow /\ st \in Seq(StepRow) /\ Coherent(row, st) /\ q \in Seq(EventRow)
      /\ row.lease_version \in Nat
  BY TaskFacts, RowFields DEF IInv, TypeOK
<1>2. CASE ~Transacts(t)
  <2>1. new = row /\ st2 = st /\ q2 = q
    BY <1>2, TaskStep
  <2>. QED  BY <1>1, <2>1
<1>3. CASE Transacts(t)
  <2>1. PICK log \in Seq(EventRow) : q2 = q \o log /\ Effect(row, st, new, st2, log)
    BY <1>3 DEF Transacts
  <2>2. Effect(row, st, new, st2, log)
    BY <2>1
  <2>3. row.lease_version <= new.lease_version /\ new.lease_version \in Nat
    <3>1. CASE row.status = "NONE"
      <4>1. CreateEffect(row, st, new, st2, log)
        BY <2>2, <3>1, EffectStatus
      <4>2. new.lease_version = 0
        BY <4>1 DEF CreateEffect
      <4>3. row = NoTask
        BY <3>1 DEF Blank
      <4>4. NoTask.lease_version = 0
        BY DEF NoTask
      <4>. QED  BY <4>2, <4>3, <4>4
    <3>2. CASE row.status # "NONE"
      <4>1. new.lease_version \in {row.lease_version, row.lease_version + 1}
        BY <1>1, <2>2, <3>2, EffectVersion
      <4>. QED  BY <1>1, <4>1
    <3>. QED  BY <3>1, <3>2
  <2>4. slot.lease.version <= row.lease_version
    OBVIOUS
  <2>5. slot.lease.version <= new.lease_version
    BY <1>1, <2>3, <2>4
  <2>6. HasStep(slot, st2)
    BY StepsKept DEF HasStep
  <2>7. ASSUME Holder(slot.lease, new)
        PROVE  Holder(slot.lease, row)
    <3>1. new.status = "RUNNING" /\ new.lease_version = row.lease_version
      BY <1>1, <2>3, <2>4, <2>7 DEF Holder
    <3>2. row.status = "RUNNING" /\ new.worker_id = row.worker_id
      BY <1>1, <2>2, <3>1, EffectHolder
    <3>. QED  BY <2>7, <3>1, <3>2 DEF Holder
  <2>8. ASSUME slot.pc = "confirmFinish" PROVE FinishSeen(slot, new, st2, q2)
    <3>1. FinishSeen(slot, row, st, q) /\ slot.step \in DOMAIN st
      BY <2>8 DEF Finishes, HasStep
    <3>2. row.status # "NONE"
      BY <3>1 DEF Blank
    <3>3. \A k \in DOMAIN q : Superseded(row, q[k])
      BY DEF LogInv, Logged
    <3>. QED  BY <1>1, <2>1, <2>2, <3>1, <3>2, <3>3, FinishSeenKept
  <2>. QED  BY <2>3, <2>5, <2>6, <2>7, <2>8 DEF Finishes
<1>. QED  BY <1>2, <1>3

\* And all that it knows, as long as nobody advances the task under its lease.
LEMMA KnowsKept ==
  ASSUME IInv, Blank, LogInv, [Next]_vars, NEW slot, NEW t \in Tasks, slot.lease.version \in Nat,
         Knows(slot, tasks[t], steps[t], events[t]), Holder(slot.lease, tasks[t]) => ~Advances(t)
  PROVE  Knows(slot, tasks'[t], steps'[t], events'[t])
<1>1. /\ slot.lease.version <= tasks[t].lease_version /\ HasStep(slot, steps[t])
      /\ Finishes(slot, tasks[t], steps[t], events[t])
  BY DEF Knows
<1>2. /\ slot.lease.version <= tasks'[t].lease_version
      /\ HasStep(slot, steps'[t])
      /\ Finishes(slot, tasks'[t], steps'[t], events'[t])
      /\ Holder(slot.lease, tasks'[t]) => Holder(slot.lease, tasks[t])
  BY <1>1, ClaimPastKept
<1>3. ASSUME Holder(slot.lease, tasks'[t])
      PROVE  Owns(slot, tasks'[t], steps'[t])
  <2>1. Holder(slot.lease, tasks[t]) /\ SameClaim(t)
    BY <1>2, <1>3 DEF Holder, SameClaim
  <2>2. steps'[t] = steps[t] /\ tasks'[t].current_step = tasks[t].current_step
    BY <2>1 DEF Advances
  <2>. QED  BY <2>1, <2>2 DEF Knows, Owns, Runs
<1>. QED  BY <1>2, <1>3 DEF Knows

-----------------------------------------------------------------------------
(* Who advances a task or renews its lease. *)

\* A transaction that leaves the claim in another state does neither.
LEMMA OtherClaim ==
  ASSUME IInv, NEW t \in Tasks, NEW row, NEW st, NEW log, Commit(t, row, st, log),
         \/ tasks[t].status # "RUNNING" \/ row.status # "RUNNING"
         \/ row.lease_version # tasks[t].lease_version
         \/ /\ st = steps[t] /\ row.current_step = tasks[t].current_step
            /\ row.lease_expires_at = tasks[t].lease_expires_at
  PROVE  \A u \in Tasks : ~Advances(u) /\ ~Renews(u)
<1>1. /\ tasks'[t] = row /\ steps'[t] = st
      /\ \A u \in Tasks : u # t => tasks'[u] = tasks[u] /\ steps'[u] = steps[u]
  BY CommitFrame DEF OnlyTask
<1>. QED  BY <1>1 DEF Advances, Renews, SameClaim

\* The status that Released writes, with the columns written after it.
LEMMA ReleasedStatus ==
  ASSUME NEW row \in TaskRow, NEW status, NEW at, NEW c
  PROVE  /\ Released(row, status).status = status
         /\ [Released(row, status) EXCEPT !.retry_at = at].status = status
         /\ [Released(row, status) EXCEPT !.current_step = c, !.retry_at = at].status = status
BY DEF TaskRow, Released

\* finishControlledTask ends the task.
LEMMA ControlIsQuiet ==
  ASSUME IInv, NEW t \in Tasks, NEW outcome \in {cancelledOutcome, timedOutOutcome},
         finishControlledTask(t, outcome)
  PROVE  \A u \in Tasks : ~Advances(u) /\ ~Renews(u)
<1> DEFINE row == [Released(tasks[t], outcome.status) EXCEPT !.retry_at = NULL]
<1>1. PICK st, log : Commit(t, row, st, log)
  BY DEF finishControlledTask
<1>2. outcome.status # "RUNNING"
  BY DEF cancelledOutcome, timedOutOutcome
<1>3. row.status # "RUNNING"
  BY <1>2, TaskFacts, ReleasedStatus
<1> HIDE DEF row
<1>4. Commit(t, row, st, log)
  BY <1>1
<1>. QED  BY <1>3, <1>4, OtherClaim

\* Clients and schedulers never do.
LEMMA EnvironmentIsQuiet ==
  ASSUME IInv, NEW t \in Tasks, ClientStep(t) \/ ProcessDueControl(t)
  PROVE  Next /\ \A u \in Tasks : ~Advances(u) /\ ~Renews(u)
<1>1. Next
  BY DEF Next
<1>2. tasks[t] \in TaskRow
  BY TaskFacts
<1>3. ASSUME NEW d \in Definitions, CreateTask(t, d)
      PROVE  \A u \in Tasks : ~Advances(u) /\ ~Renews(u)
  <2>1. tasks[t].status # "RUNNING" /\ \E row, st, log : Commit(t, row, st, log)
    BY <1>3 DEF CreateTask
  <2>. QED  BY <2>1, OtherClaim
<1>4. ASSUME RequestCancel(t)
      PROVE  \A u \in Tasks : ~Advances(u) /\ ~Renews(u)
  <2> DEFINE row == [tasks[t] EXCEPT !.cancel_requested = TRUE]
  <2>1. Commit(t, row, steps[t], <<>>)
    BY <1>4 DEF RequestCancel
  <2>2. /\ row.current_step = tasks[t].current_step
        /\ row.lease_expires_at = tasks[t].lease_expires_at
    BY <1>2 DEF TaskRow
  <2> HIDE DEF row
  <2>. QED  BY <2>1, <2>2, OtherClaim
<1>5. ASSUME CancelSynchronously(t)
      PROVE  \A u \in Tasks : ~Advances(u) /\ ~Renews(u)
  BY <1>5, ControlIsQuiet DEF CancelSynchronously
<1>6. ASSUME NEW i \in DOMAIN steps[t], Approve(t, i) \/ Reject(t, i)
      PROVE  \A u \in Tasks : ~Advances(u) /\ ~Renews(u)
  <2>1. tasks[t].status # "RUNNING" /\ \E row, st, log : Commit(t, row, st, log)
    BY <1>6 DEF Approve, Reject, Decidable
  <2>. QED  BY <2>1, OtherClaim
<1>7. ASSUME ProcessDueControl(t)
      PROVE  \A u \in Tasks : ~Advances(u) /\ ~Renews(u)
  <2>1. CASE finishControlledTask(t, cancelledOutcome) \/ finishControlledTask(t, timedOutOutcome)
    BY <2>1, ControlIsQuiet
  <2>2. CASE \/ RetryDue(t) /\ wakeRetryTask(t)
             \/ ScheduleDue(t) /\ wakeScheduledTask(t)
    <3>1. tasks[t].status # "RUNNING" /\ \E row, st, log : Commit(t, row, st, log)
      BY <2>2 DEF RetryDue, wakeRetryTask, ScheduleDue, wakeScheduledTask
    <3>. QED  BY <3>1, OtherClaim
  <2>. QED  BY <1>7, <2>1, <2>2 DEF ProcessDueControl
<1>. QED  BY <1>1, <1>3, <1>4, <1>5, <1>6, <1>7 DEF ClientStep

\* Nor does a claim: it takes the task away from its owner, or ends it.
LEMMA ClaimIsQuiet ==
  ASSUME IInv, NEW t \in Tasks, NEW w \in Workers, ClaimTask(w, t)
  PROVE  Next /\ \A u \in Tasks : ~Advances(u) /\ ~Renews(u)
<1>1. Next
  BY DEF Next
<1>2. tasks[t] \in TaskRow
  BY TaskFacts
<1>3. CASE ClaimRunnable(w, t)
  <2>1. tasks[t].status # "RUNNING" /\ \E row, st, log : Commit(t, row, st, log)
    BY <1>3 DEF ClaimRunnable
  <2>. QED  BY <1>1, <2>1, OtherClaim
<1>4. CASE ClaimExpired(w, t)
  <2> DEFINE row == Leased(tasks[t], w)
  <2>1. Claimable(t) /\ \E st, log : Commit(t, row, st, log)
    BY <1>4 DEF ClaimExpired
  <2>2. row.lease_version = tasks[t].lease_version + 1 /\ tasks[t].lease_version \in Nat
    BY <1>2, <2>1, ClaimWrites, RowFields
  <2> HIDE DEF row
  <2>3. row.lease_version # tasks[t].lease_version
    BY <2>2
  <2>. QED  BY <1>1, <2>1, <2>3, OtherClaim
<1>5. CASE ConvergeExpired(t)
  <2> DEFINE status == IF HasCurrentStep(t) THEN "FAILED" ELSE "SUCCEEDED"
             row == Released(tasks[t], status)
  <2>1. \E st, log : Commit(t, row, st, log)
    BY <1>5 DEF ConvergeExpired
  <2>2. row.status = status
    BY <1>2, ReleasedStatus
  <2>3. row.status # "RUNNING"
    BY <2>2
  <2> HIDE DEF row
  <2>. QED  BY <1>1, <2>1, <2>3, OtherClaim
<1>. QED  BY <1>3, <1>4, <1>5 DEF ClaimTask

-----------------------------------------------------------------------------
(* What a step of one slot does to all of them. *)

\* The slot holds the lease of the task.
OwnedBy(s, t) ==
  slots[s].pc # "idle" /\ slots[s].lease.task = t /\ Holder(slots[s].lease, tasks[t])

\* What slot s does to the store: nothing, or what it may do with its lease.
Calls(s) == [Next]_vars /\ \A t \in Tasks : Advances(t) \/ Renews(t) => OwnedBy(s, t)

\* Nothing.
LEMMA LocalCalls ==
  ASSUME NEW s, UNCHANGED vars
  PROVE  Calls(s)
BY DEF Calls, vars, Advances, Renews, SameClaim

\* A claim, which is nobody's progress.
LEMMA ClaimCalls ==
  ASSUME IInv, NEW s \in Slots, NEW t \in Tasks, ClaimTask(WorkerId(s), t)
  PROVE  Calls(s)
<1>1. WorkerId(s) \in Workers
  BY DEF Slots, WorkerId
<1>. QED  BY <1>1, ClaimIsQuiet DEF Calls

\* A call with its lease.
LEMMA OwnerCalls ==
  ASSUME IInv, LogInv, StoreInv, NEW s, slots[s].pc # "idle", slots[s].lease \in Lease,
         NEW i, NEW n, NEW outcome, OwnerCall(slots[s].lease, i, n, outcome)
  PROVE  Calls(s) /\ Holder(slots[s].lease, tasks[slots[s].lease.task])
<1> DEFINE t == slots[s].lease.task
<1>1. Next /\ Holder(slots[s].lease, tasks[t]) /\ Transacts(t)
  BY OwnerCallIsNext
<1>2. \A u \in Tasks : u # t => tasks'[u] = tasks[u] /\ steps'[u] = steps[u]
  BY <1>1 DEF Transacts, OnlyTask
<1>. QED  BY <1>1, <1>2 DEF Calls, OwnedBy, Advances, Renews, SameClaim

\* If a slot does what it may and comes to know what it should, with the lease it had
\* or with a new one, then all slots are as they should be.
LEMMA OneSlot ==
  ASSUME IInv, Blank, LogInv, SlotsOK, NEW s \in Slots, Calls(s), NEW new, Become(s, new),
         SlotOK(new, tasks', steps', events'),
         new.pc # "idle" => \/ slots[s].pc # "idle" /\ new.lease = slots[s].lease
                            \/ /\ new.lease.task \in Tasks /\ new.lease.version \in Nat
                               /\ new.lease.version > tasks[new.lease.task].lease_version
  PROVE  SlotsOK'
<1>1. slots' = [r \in Slots |-> slots'[r]] /\ slots'[s] = new
      /\ \A r \in Slots : r # s => slots'[r] = slots[r]
  BY DEF SlotsOK, Become
<1>2. [Next]_vars /\ \A t \in Tasks : Advances(t) => OwnedBy(s, t)
  BY DEF Calls
<1>3. ASSUME NEW r \in Slots, slots[r].pc # "idle"
      PROVE  /\ slots[r].lease.task \in Tasks /\ slots[r].lease.version \in Nat
             /\ LET t == slots[r].lease.task
                IN  /\ Knows(slots[r], tasks[t], steps[t], events[t])
                    /\ slots[r].lease.version <= tasks[t].lease_version
                    /\ tasks[t].lease_version \in Nat
  <2>1. SlotOK(slots[r], tasks, steps, events)
    BY DEF SlotsOK
  <2>2. slots[r].lease.task \in Tasks /\ slots[r].lease.version \in Nat
    BY <1>3, <2>1 DEF SlotOK, Typed, Lease
  <2>. QED  BY <1>3, <2>1, <2>2, TaskFacts, RowFields DEF SlotOK, Knows
<1>4. ASSUME NEW r \in Slots PROVE SlotOK(slots'[r], tasks', steps', events')
  <2>1. CASE r = s
    BY <1>1, <2>1
  <2>2. CASE r # s
    <3>1. slots'[r] = slots[r] /\ SlotOK(slots[r], tasks, steps, events)
      BY <1>1, <2>2 DEF SlotsOK
    <3>2. ASSUME slots[r].pc # "idle"
          PROVE  LET t == slots[r].lease.task IN Knows(slots[r], tasks'[t], steps'[t], events'[t])
      <4> DEFINE t == slots[r].lease.task
      <4>1. /\ t \in Tasks /\ slots[r].lease.version \in Nat
            /\ Knows(slots[r], tasks[t], steps[t], events[t])
        BY <1>3, <3>2
      <4>2. ASSUME Holder(slots[r].lease, tasks[t]), Advances(t) PROVE FALSE
        <5>1. slots[s].pc # "idle" /\ slots[s].lease.task = t /\ Holder(slots[s].lease, tasks[t])
          BY <1>2, <4>1, <4>2 DEF OwnedBy
        <5>2. Distinct(slots[s], slots[r])
          BY <2>2 DEF SlotsOK
        <5>. QED  BY <3>2, <4>2, <5>1, <5>2 DEF Distinct, Holder
      <4>. QED  BY <1>2, <4>1, <4>2, KnowsKept
    <3>. QED  BY <3>1, <3>2 DEF SlotOK
  <2>. QED  BY <2>1, <2>2
<1>5. ASSUME NEW r \in Slots, r # s PROVE Distinct(new, slots[r])
  <2> SUFFICES ASSUME new.pc # "idle", slots[r].pc # "idle", new.lease.task = slots[r].lease.task
               PROVE  new.lease.version # slots[r].lease.version
    BY DEF Distinct
  <2>1. CASE slots[s].pc # "idle" /\ new.lease = slots[s].lease
    BY <1>5, <2>1 DEF SlotsOK, Distinct
  <2>2. CASE /\ new.lease.task \in Tasks /\ new.lease.version \in Nat
             /\ new.lease.version > tasks[new.lease.task].lease_version
    BY <1>3, <2>2
  <2>. QED  BY <2>1, <2>2
<1>6. ASSUME NEW r1 \in Slots, NEW r2 \in Slots, r1 # r2 PROVE Distinct(slots'[r1], slots'[r2])
  <2>1. CASE r1 # s /\ r2 # s
    BY <1>1, <1>6, <2>1 DEF SlotsOK
  <2>2. CASE r1 = s
    BY <1>1, <1>5, <1>6, <2>2
  <2>3. CASE r2 = s
    BY <1>1, <1>5, <1>6, <2>3 DEF Distinct
  <2>. QED  BY <2>1, <2>2, <2>3
<1>. QED  BY <1>1, <1>4, <1>6 DEF SlotsOK

\* A slot that is giving up its claim needs to know nothing but its lease.
LEMMA SlotDrops ==
  ASSUME IInv, Blank, LogInv, [Next]_vars, NEW old, SlotOK(old, tasks, steps, events),
         old.pc # "idle", NEW new, Typed(new), new.lease = old.lease, new.pc \in {"return", "timeout", "cancel"}
  PROVE  SlotOK(new, tasks', steps', events')
<1> DEFINE t == old.lease.task
<1>1. t \in Tasks /\ old.lease.version \in Nat /\ Knows(old, tasks[t], steps[t], events[t])
  BY DEF SlotOK, Typed, Lease
<1>2. old.lease.version <= tasks'[t].lease_version
  BY <1>1, ClaimPastKept DEF Knows
<1>3. Knows(new, tasks'[t], steps'[t], events'[t])
  BY <1>2 DEF Knows, HasStep, Owns, Finishes
<1>. QED  BY <1>3 DEF SlotOK

\* A slot that stays where it is knows what it knew.
LEMMA SlotRests ==
  ASSUME IInv, Blank, LogInv, [Next]_vars, NEW old, SlotOK(old, tasks, steps, events),
         NEW new, Typed(new), new.lease = old.lease, new.pc = old.pc, new.step = old.step,
         new.attempt = old.attempt, new.input = old.input, new.outcome = old.outcome,
         old.pc # "idle" => ~Advances(old.lease.task)
  PROVE  SlotOK(new, tasks', steps', events')
<1> SUFFICES ASSUME new.pc # "idle"
             PROVE  LET t == new.lease.task IN Knows(new, tasks'[t], steps'[t], events'[t])
  BY DEF SlotOK
<1> DEFINE t == old.lease.task
<1>1. t \in Tasks /\ old.lease.version \in Nat /\ Knows(old, tasks[t], steps[t], events[t])
  BY DEF SlotOK, Typed, Lease
<1>2. Knows(old, tasks'[t], steps'[t], events'[t])
  BY <1>1, KnowsKept
<1>3. ASSUME NEW row, NEW st, NEW q, FinishSeen(old, row, st, q)
      PROVE  FinishSeen(new, row, st, q)
  <2>1. \A type : FinishLogged(old, q, type) => FinishLogged(new, q, type)
    BY DEF FinishLogged
  <2>2. /\ Runs(old, row, st) => Runs(new, row, st)
        /\ Failed(old, st) => Failed(new, st)
        /\ Later(old, st) => Later(new, st)
    BY DEF Runs, Failed, Later
  <2>. QED  BY <1>3, <2>1, <2>2, Zenon DEF FinishSeen
<1>. QED  BY <1>2, <1>3 DEF Knows, HasStep, Owns, Runs, Finishes

-----------------------------------------------------------------------------
(* The steps of a slot. *)

\* What is known of the store.
Safe == IInv /\ Blank /\ LogInv /\ StoreInv

\* What is known of a slot that has a claim.
LEMMA SlotFacts ==
  ASSUME IInv, SlotsOK, NEW s \in Slots, slots[s].pc # "idle"
  PROVE  /\ SlotOK(slots[s], tasks, steps, events) /\ Typed(slots[s]) /\ slots[s] \in Slot
         /\ slots[s].lease \in Lease /\ slots[s].lease.task \in Tasks
         /\ slots[s].lease.version \in Nat
         /\ LET t == slots[s].lease.task IN Knows(slots[s], tasks[t], steps[t], events[t])
<1>1. SlotOK(slots[s], tasks, steps, events)
  BY DEF SlotsOK
<1>. QED  BY <1>1 DEF SlotOK, Typed, Lease

\* Giving up a claim.
LEMMA AtFields ==
  ASSUME NEW slot, Typed(slot), slot.pc # "idle", NEW pc \in {"return", "timeout", "cancel"}
  PROVE  Typed(At(slot, pc)) /\ At(slot, pc).pc = pc /\ At(slot, pc).lease = slot.lease
<1>1. slot \in Slot /\ slot.lease \in Lease
  BY DEF Typed
<1>2. /\ Cancelled(slot.ctx) \in {"live", "cancelled", "expired"}
  BY <1>1 DEF Slot, Cancelled
<1>3. CASE pc = "return"
  <2>1. /\ Returning(slot) \in Slot /\ Returning(slot).pc = "return"
        /\ Returning(slot).lease = slot.lease
    BY <1>1, <1>2 DEF Returning, Slot
  <2>. QED  BY <1>1, <1>3, <2>1 DEF At, Typed
<1>4. CASE pc # "return"
  <2>1. [slot EXCEPT !.pc = pc] \in Slot /\ [slot EXCEPT !.pc = pc].pc = pc
        /\ [slot EXCEPT !.pc = pc].lease = slot.lease
    BY <1>1, <1>4 DEF Slot
  <2>. QED  BY <1>1, <1>4, <2>1 DEF At, Typed
<1>. QED  BY <1>3, <1>4

LEMMA GivesUp ==
  ASSUME Safe, SlotsOK, NEW s \in Slots, slots[s].pc # "idle", Calls(s),
         NEW pc \in {"return", "timeout", "cancel"}, Become(s, At(slots[s], pc))
  PROVE  SlotsOK'
<1> DEFINE new == At(slots[s], pc)
<1>1. IInv /\ Blank /\ LogInv /\ [Next]_vars
  BY DEF Safe, Calls
<1>2. SlotOK(slots[s], tasks, steps, events) /\ Typed(slots[s])
  BY <1>1, SlotFacts
<1>3. Typed(new) /\ new.pc = pc /\ new.lease = slots[s].lease
  BY <1>2, AtFields
<1> HIDE DEF new
<1>4. SlotOK(new, tasks', steps', events')
  BY <1>1, <1>2, <1>3, SlotDrops
<1>5. Become(s, new)
  BY DEF new
<1>. QED  BY <1>1, <1>3, <1>4, <1>5, OneSlot

LEMMA Returns ==
  ASSUME Safe, SlotsOK, NEW s \in Slots, slots[s].pc # "idle", Calls(s),
         Become(s, Returning(slots[s]))
  PROVE  SlotsOK'
<1>1. Become(s, At(slots[s], "return"))
  BY DEF At
<1>. QED  BY <1>1, GivesUp

\* Going on without a call on the store.
LEMMA LocalMove ==
  ASSUME Safe, SlotsOK, NEW s \in Slots, slots[s].pc # "idle", UNCHANGED vars,
         NEW new, Become(s, new), Typed(new), new.lease = slots[s].lease,
         LET t == slots[s].lease.task IN Knows(new, tasks[t], steps[t], events[t])
  PROVE  SlotsOK'
<1>1. tasks' = tasks /\ steps' = steps /\ events' = events
  BY DEF vars
<1>2. SlotOK(new, tasks', steps', events')
  BY <1>1 DEF SlotOK
<1>3. IInv /\ Blank /\ LogInv /\ Calls(s)
  BY LocalCalls DEF Safe
<1>. QED  BY <1>2, <1>3, OneSlot

\* The claim of a task.
LEMMA ClaimOK ==
  ASSUME Safe, SlotsOK, NEW s \in Slots, Claim(s)
  PROVE  Calls(s) /\ SlotsOK'
<1>1. PICK t \in Tasks :
        /\ slots[s].pc = "idle"
        /\ \/ /\ ClaimRunnable(WorkerId(s), t) \/ ClaimExpired(WorkerId(s), t)
              /\ StoreStep(s, Claimed(s, t)) \/ StoreStep(s, slots[s])
           \/ ConvergeExpired(t) /\ StoreStep(s, slots[s])
  BY DEF Claim
<1>2. IInv /\ Blank /\ LogInv
  BY DEF Safe
<1>3. ClaimTask(WorkerId(s), t) /\ WorkerId(s) \in Workers
  BY <1>1 DEF ClaimTask, Slots, WorkerId
<1>4. Calls(s) /\ [Next]_vars
  BY <1>2, <1>3, ClaimCalls DEF Calls
<1>5. CASE StoreStep(s, slots[s])
  <2>1. SlotOK(slots[s], tasks', steps', events')
    BY <1>1 DEF SlotsOK, SlotOK
  <2>2. Become(s, slots[s])
    BY <1>5 DEF StoreStep
  <2>. QED  BY <1>1, <1>2, <1>4, <2>1, <2>2, OneSlot
<1>6. CASE /\ ClaimRunnable(WorkerId(s), t) \/ ClaimExpired(WorkerId(s), t)
           /\ StoreStep(s, Claimed(s, t))
  <2> DEFINE row == tasks[t]
             leased == Leased(row, WorkerId(s))
             new == Claimed(s, t)
  <2>1. Claimable(t) /\ \E st, log : Commit(t, leased, st, log)
    BY <1>6 DEF ClaimRunnable, ClaimExpired
  <2>2. tasks'[t] = leased
    BY <1>2, <2>1, CommitFrame
  <2>3. leased.lease_version = row.lease_version + 1
    BY <1>2, <1>3, <2>1, ClaimWrites
  <2>4. row \in TaskRow /\ row.lease_version \in Nat /\ Coherent(row, steps[t])
        /\ steps[t] \in Seq(StepRow)
    BY <1>2, TaskFacts, RowFields
  <2>5. tasks'[t].lease_version = row.lease_version + 1 /\ row.lease_version + 1 # row.lease_version
        /\ row.lease_version + 1 \in Nat /\ row.lease_version + 1 > row.lease_version
    BY <2>2, <2>3, <2>4
  <2>6. PICK log \in Seq(EventRow) : Effect(row, steps[t], tasks'[t], steps'[t], log)
    <3>1. Transacts(t)
      BY <1>2, <1>3, <1>6, ClaimRunnableHasEffect, ClaimExpiredHasEffect
    <3>. QED  BY <3>1 DEF Transacts
  <2>7. Effect(row, steps[t], tasks'[t], steps'[t], log)
    BY <2>6
  <2>8. tasks'[t].status = "RUNNING" => steps'[t][tasks'[t].current_step].status # "RUNNING"
    BY <2>4, <2>5, <2>7, EffectRunning
  <2> DEFINE lease == [task |-> t, worker |-> WorkerId(s), version |-> row.lease_version + 1]
  <2>9. lease \in Lease
    BY <1>3, <2>5 DEF Lease
  <2>10. /\ new.pc = "load" /\ new.lease = lease /\ new \in Slot
    BY <2>9 DEF Claimed, IdleSlot, Slot
  <2>11. Typed(new)
    BY <2>9, <2>10 DEF Typed
  <2>12. Knows(new, tasks'[t], steps'[t], events'[t])
    BY <2>5, <2>8, <2>10 DEF Knows, HasStep, Holder, Owns, Finishes
  <2> HIDE DEF new
  <2>13. SlotOK(new, tasks', steps', events')
    BY <2>10, <2>11, <2>12 DEF SlotOK
  <2>14. Become(s, new)
    BY <1>6 DEF StoreStep, new
  <2>. QED  BY <1>2, <1>4, <2>5, <2>10, <2>13, <2>14, OneSlot
<1>. QED  BY <1>1, <1>5, <1>6

\* Reading the task.
LEMMA LoadOK ==
  ASSUME Safe, SlotsOK, NEW s \in Slots, Load(s)
  PROVE  Calls(s) /\ SlotsOK'
<1> DEFINE slot == slots[s]
           t == slot.lease.task
           row == tasks[t]
           new == [slot EXCEPT !.pc = "act", !.step = row.current_step]
<1>1. slot.pc = "load" /\ UNCHANGED vars
  BY DEF Load, LocalStep
<1>2. Calls(s) /\ IInv
  BY <1>1, LocalCalls DEF Safe
<1>3. CASE LocalStep(s, Returning(slot))
  BY <1>1, <1>2, <1>3, Returns DEF LocalStep
<1>4. CASE /\ row.status = "RUNNING" /\ row.current_step \in DOMAIN steps[t]
           /\ LocalStep(s, new)
  <2>1. Typed(slot) /\ t \in Tasks /\ Knows(slot, tasks[t], steps[t], events[t])
    BY <1>1, <1>2, SlotFacts
  <2>2. row.current_step \in Nat
    BY <1>2, <2>1, TaskFacts, RowFields
  <2>3. /\ new \in Slot /\ new.pc = "act" /\ new.step = row.current_step
        /\ new.lease = slot.lease
    BY <2>1, <2>2 DEF Typed, Slot
  <2>4. Typed(new)
    BY <1>1, <2>1, <2>3 DEF Typed
  <2>5. Knows(new, tasks[t], steps[t], events[t])
    BY <1>1, <1>4, <2>1, <2>3 DEF Knows, HasStep, Owns, Finishes
  <2> HIDE DEF new
  <2>6. Become(s, new)
    BY <1>4 DEF LocalStep
  <2>. QED  BY <1>1, <1>2, <2>3, <2>4, <2>5, <2>6, LocalMove
<1>. QED  BY <1>3, <1>4 DEF Load

\* An approval step, which ends the claim.
LEMMA AskApprovalOK ==
  ASSUME Safe, SlotsOK, NEW s \in Slots, AskApproval(s)
  PROVE  Calls(s) /\ SlotsOK'
<1> DEFINE slot == slots[s]
           next == IF slot.ctx = "expired" THEN "timeout" ELSE "return"
<1>1. slot.pc = "act"
  BY DEF AskApproval
<1>2. IInv /\ LogInv /\ StoreInv
  BY DEF Safe
<1>3. slot.lease \in Lease
  BY <1>1, <1>2, SlotFacts
<1>4. next \in {"return", "timeout", "cancel"}
  OBVIOUS
<1>5. AfterWait(slot) \in {"return", "timeout", "cancel"}
  BY DEF AfterWait
<1>6. CASE WaitForApproval(slot.lease, slot.step) /\ StoreStep(s, At(slot, next))
  <2>1. OwnerCall(slot.lease, slot.step, 0, NULL)
    BY <1>6 DEF OwnerCall
  <2>2. Calls(s)
    BY <1>1, <1>2, <1>3, <2>1, OwnerCalls
  <2>3. Become(s, At(slot, next))
    BY <1>6 DEF StoreStep
  <2>. QED  BY <1>1, <1>4, <2>2, <2>3, GivesUp
<1>7. CASE LocalStep(s, At(slot, AfterWait(slot))) \/ LocalStep(s, At(slot, next))
  <2>1. Calls(s) /\ (Become(s, At(slot, AfterWait(slot))) \/ Become(s, At(slot, next)))
    BY <1>7, LocalCalls DEF LocalStep
  <2>. QED  BY <1>1, <1>4, <1>5, <2>1, GivesUp
<1>. QED  BY <1>6, <1>7 DEF AskApproval

\* The input that a step is started with.
LEMMA ResolvedValue ==
  ASSUME IInv, NEW t \in Tasks, NEW i \in DOMAIN steps[t], ResolveInput(t, i) # NULL
  PROVE  ResolveInput(t, i) \in Value
<1> DEFINE st == steps[t]
<1>1. /\ st[i] \in StepRow /\ tasks[t].checkpoint \in Outputs \cup {"{}"}
      /\ i \in Nat
  <2>1. st \in Seq(StepRow) /\ tasks[t] \in TaskRow /\ i \in DOMAIN st
    BY TaskFacts
  <2> HIDE DEF st
  <2>2. st[i] \in StepRow /\ i \in Nat
    BY <2>1
  <2>. QED  BY <2>1, <2>2, RowFields
<1>2. steps[t][i].resolved_input \in Value \cup {NULL}
  BY <1>1, StepFields
<1>3. i > 1 => steps[t][i - 1] \in StepRow
  BY TaskFacts
<1>4. i > 1 => steps[t][i - 1].output \in Outputs \cup {NULL}
  BY <1>3, StepFields
<1>. QED  BY <1>1, <1>2, <1>4 DEF ResolveInput, resolveValue, Value

\* What StartStep has written.
LEMMA StartWrites ==
  ASSUME IInv, NEW lease, lease.task \in Tasks, NEW i \in DOMAIN steps[lease.task],
         StartStep(lease, i)
  PROVE  LET t == lease.task
         IN  /\ i = tasks[t].current_step /\ tasks'[t] = tasks[t] /\ i \in DOMAIN steps'[t]
             /\ steps'[t][i].status = "RUNNING" /\ steps'[t][i].type = steps[t][i].type
             /\ steps'[t][i].attempt = steps[t][i].attempt + 1
             /\ steps'[t][i].resolved_input = ResolveInput(t, i)
<1> DEFINE t == lease.task
           old == steps[t][i]
<1>1. /\ i = tasks[t].current_step
      /\ \E log : Commit(t, tasks[t], [steps[t] EXCEPT ![i] = Started(@, ResolveInput(t, i))], log)
  BY DEF StartStep, StartAllowed
<1>2. tasks'[t] = tasks[t] /\ steps'[t] = [steps[t] EXCEPT ![i] = Started(@, ResolveInput(t, i))]
  BY <1>1, CommitFrame
<1>3. old \in StepRow /\ steps[t] \in Seq(StepRow)
  BY TaskFacts
<1>4. steps'[t][i] = Started(old, ResolveInput(t, i)) /\ i \in DOMAIN steps'[t]
  BY <1>2, <1>3
<1>5. /\ Started(old, ResolveInput(t, i)).status = "RUNNING"
      /\ Started(old, ResolveInput(t, i)).type = old.type
      /\ Started(old, ResolveInput(t, i)).attempt = old.attempt + 1
      /\ Started(old, ResolveInput(t, i)).resolved_input = ResolveInput(t, i)
  BY <1>3 DEF Started, StepRow
<1>. QED  BY <1>1, <1>2, <1>4, <1>5

\* Starting a step.
LEMMA StartOK ==
  ASSUME Safe, SlotsOK, NEW s \in Slots, Start(s)
  PROVE  Calls(s) /\ SlotsOK'
<1> DEFINE slot == slots[s]
           t == slot.lease.task
           i == slot.step
           input == ResolveInput(t, i)
           n == steps[t][i].attempt + 1
           Holding(pc) == [slot EXCEPT !.pc = pc, !.attempt = n, !.input = input]
<1>1. slot.pc = "act" /\ ~IsApproval(slot)
  BY DEF Start
<1>2. IInv /\ Blank /\ LogInv /\ StoreInv
  BY DEF Safe
<1>3. /\ Typed(slot) /\ slot.lease \in Lease /\ t \in Tasks /\ slot.lease.version \in Nat
      /\ Knows(slot, tasks[t], steps[t], events[t]) /\ slot \in Slot
  BY <1>1, <1>2, SlotFacts
<1>4. i \in DOMAIN steps[t] /\ steps[t][i].type # "approval"
  BY <1>1, <1>3 DEF Knows, HasStep, IsApproval
<1>5. n \in Nat /\ n > 0
  <2>1. steps[t] \in Seq(StepRow)
    BY <1>2, <1>3, TaskFacts
  <2>2. steps[t][i] \in StepRow
    BY <1>4, <2>1
  <2>3. steps[t][i].attempt \in Nat
    BY <2>2, StepFields
  <2>. QED  BY <2>3
<1>6. ASSUME input # NULL, NEW pc \in {"execute", "confirmStart"}
      PROVE  /\ Typed(Holding(pc)) /\ Holding(pc).pc = pc /\ Holding(pc).lease = slot.lease
             /\ Holding(pc).step = i /\ Holding(pc).attempt = n /\ Holding(pc).input = input
             /\ input \in Value
  <2>1. input \in Value
    BY <1>2, <1>3, <1>4, <1>6, ResolvedValue
  <2> HIDE DEF input, n
  <2>2. /\ Holding(pc) \in Slot /\ Holding(pc).pc = pc /\ Holding(pc).lease = slot.lease
        /\ Holding(pc).step = i /\ Holding(pc).attempt = n /\ Holding(pc).input = input
    BY <1>3, <1>5, <1>6, <2>1 DEF Slot
  <2>. QED  BY <1>3, <2>1, <2>2 DEF Typed
<1> HIDE DEF input, n, Holding
<1>7. CASE LocalStep(s, Returning(slot))
  BY <1>1, <1>7, LocalCalls, Returns DEF LocalStep
<1>8. CASE StartAllowed(slot.lease, i) /\ LocalStep(s, Holding("confirmStart"))
  <2>1. input # NULL
    BY <1>8 DEF StartAllowed, input
  <2> DEFINE new == Holding("confirmStart")
  <2>2. Typed(new) /\ new.pc = "confirmStart" /\ new.lease = slot.lease /\ new.step = i
        /\ new.attempt = n /\ new.input = input /\ input \in Value
    BY <1>6, <2>1
  <2> HIDE DEF new
  <2>3. Knows(new, tasks[t], steps[t], events[t])
    BY <1>3, <1>4, <1>5, <2>1, <2>2 DEF Knows, HasStep, Owns, Finishes
  <2>4. Become(s, new) /\ UNCHANGED vars
    BY <1>8 DEF LocalStep, new
  <2>. QED  BY <1>1, <2>2, <2>3, <2>4, LocalCalls, LocalMove
<1>9. ASSUME NEW pc \in {"execute", "confirmStart"}, StartStep(slot.lease, i),
             StoreStep(s, Holding(pc))
      PROVE  Calls(s) /\ SlotsOK'
  <2>1. input # NULL
    BY <1>9 DEF StartStep, StartAllowed, input
  <2> DEFINE new == Holding(pc)
  <2>2. Typed(new) /\ new.pc = pc /\ new.lease = slot.lease /\ new.step = i
        /\ new.attempt = n /\ new.input = input /\ input \in Value
    BY <1>6, <1>9, <2>1
  <2> HIDE DEF new
  <2>3. OwnerCall(slot.lease, i, 0, NULL)
    BY <1>9 DEF OwnerCall
  <2>4. Calls(s)
    BY <1>1, <1>2, <1>3, <2>3, OwnerCalls
  <2>5. /\ i = tasks[t].current_step /\ tasks'[t] = tasks[t] /\ i \in DOMAIN steps'[t]
        /\ steps'[t][i].status = "RUNNING" /\ steps'[t][i].type = steps[t][i].type
        /\ steps'[t][i].attempt = n /\ steps'[t][i].resolved_input = input
    BY <1>2, <1>3, <1>4, <1>9, StartWrites DEF input, n
  <2>6. slot.lease.version <= tasks'[t].lease_version
    BY <1>3, <2>5 DEF Knows
  <2>7. Knows(new, tasks'[t], steps'[t], events'[t])
    BY <1>4, <1>5, <1>9, <2>1, <2>2, <2>5, <2>6 DEF Knows, HasStep, Owns, Runs, Finishes
  <2>8. SlotOK(new, tasks', steps', events')
    BY <2>2, <2>7 DEF SlotOK
  <2>9. Become(s, new)
    BY <1>9 DEF StoreStep, new
  <2>. QED  BY <1>1, <1>2, <2>2, <2>4, <2>8, <2>9, OneSlot
<1>. QED  BY <1>7, <1>8, <1>9 DEF Start, Holding, input, n

\* A start that was not answered and is found in the store.
LEMMA ConfirmStartOK ==
  ASSUME Safe, SlotsOK, NEW s \in Slots, ConfirmStart(s)
  PROVE  Calls(s) /\ SlotsOK'
<1> DEFINE slot == slots[s]
           t == slot.lease.task
           i == slot.step
           new == [slot EXCEPT !.pc = "execute"]
<1>1. slot.pc = "confirmStart" /\ UNCHANGED vars
  BY DEF ConfirmStart, LocalStep
<1>2. Calls(s) /\ IInv
  BY <1>1, LocalCalls DEF Safe
<1>3. CASE LocalStep(s, Returning(slot))
  BY <1>1, <1>2, <1>3, Returns DEF LocalStep
<1>4. CASE /\ stepStartPersisted(t, i, slot.attempt, slot.input)
           /\ LocalStep(s, At(slot, "execute"))
  <2>1. Typed(slot) /\ t \in Tasks /\ Knows(slot, tasks[t], steps[t], events[t]) /\ slot \in Slot
    BY <1>1, <1>2, SlotFacts
  <2>2. /\ steps[t][i].status = "RUNNING" /\ steps[t][i].attempt = slot.attempt
        /\ steps[t][i].resolved_input = slot.input
    BY <1>4 DEF stepStartPersisted
  <2>3. i \in DOMAIN steps[t] /\ slot.attempt > 0
    BY <1>1, <2>1 DEF Knows, HasStep
  <2>4. i = tasks[t].current_step
    <3>1. Cursor(tasks[t], steps[t]) /\ tasks[t].current_step \in Nat /\ i \in Nat
      BY <1>2, <2>1, TaskFacts, RowFields DEF Coherent, Slot
    <3>2. ~(i < tasks[t].current_step) /\ ~(i > tasks[t].current_step)
      BY <2>2, <2>3, <3>1 DEF Cursor, Untouched
    <3>3. \A a, b \in Nat : ~(a < b) /\ ~(a > b) => a = b
      OBVIOUS
    <3>. QED  BY <3>1, <3>2, <3>3
  <2>5. /\ new \in Slot /\ new.pc = "execute" /\ new.step = slot.step /\ new.lease = slot.lease
        /\ new.attempt = slot.attempt /\ new.input = slot.input
    BY <2>1 DEF Slot
  <2>6. Typed(new)
    BY <1>1, <2>1, <2>5 DEF Typed
  <2>7. Knows(new, tasks[t], steps[t], events[t])
    BY <1>1, <2>1, <2>2, <2>3, <2>4, <2>5 DEF Knows, HasStep, Owns, Runs, Finishes
  <2>8. Become(s, new)
    BY <1>4 DEF LocalStep, At
  <2> HIDE DEF new
  <2>. QED  BY <1>1, <1>2, <2>5, <2>6, <2>7, <2>8, LocalMove
<1>. QED  BY <1>3, <1>4 DEF ConfirmStart

-----------------------------------------------------------------------------
(* The execution of a step. *)

\* What an executor returns.
IsResult(result) ==
  \/ \E o \in Outputs : result = Exec!Ok(o)
  \/ \E class \in {"temporary", "permanent", NULL}, cause \in Exec!Causes :
       result = Exec!Fails(class, cause)

LEMMA Results ==
  /\ \A o \in Outputs : IsResult(Exec!Ok(o))
  /\ \A class \in {"temporary", "permanent", NULL}, cause \in Exec!Causes :
       IsResult(Exec!Fails(class, cause))
BY DEF IsResult

\* The outcome that is reported is one that FinishStep expects.
LEMMA ReportedOutcome ==
  ASSUME NEW result, IsResult(result)
  PROVE  OutcomeOf(result) \in Outcomes
<1>1. ASSUME NEW o \in Outputs, result = Exec!Ok(o) PROVE OutcomeOf(result) \in Outcomes
  <2>1. result.err = NULL /\ result.output = o
    BY <1>1 DEF Exec!Ok
  <2>. QED  BY <2>1 DEF OutcomeOf, Outcomes
<1>2. ASSUME NEW class \in {"temporary", "permanent", NULL}, NEW cause \in Exec!Causes,
             result = Exec!Fails(class, cause)
      PROVE  OutcomeOf(result) \in Outcomes
  <2> DEFINE err == [class |-> class, cause |-> cause]
  <2>1. err \in Exec!Failure
    BY <1>2 DEF Exec!Failure
  <2>2. err # NULL
    BY <2>1, NilAssumption
  <2>3. result.err = err
    BY <1>2 DEF Exec!Fails
  <2>4. Exec!Classify(err) \in {"temporary", "permanent"}
    BY DEF Exec!Classify
  <2> HIDE DEF err
  <2>. QED  BY <2>2, <2>3, <2>4 DEF OutcomeOf, Outcomes
<1>. QED  BY <1>1, <1>2 DEF IsResult

\* The slot reports, or finds that its context has ended.
LEMMA ExecutedOK ==
  ASSUME Safe, SlotsOK, NEW s \in Slots, slots[s].pc \in {"execute", "await"}, UNCHANGED vars,
         NEW result, IsResult(result), Become(s, Executed(slots[s], result))
  PROVE  Calls(s) /\ SlotsOK'
<1> DEFINE slot == slots[s]
           t == slot.lease.task
           outcome == OutcomeOf(result)
           new == [slot EXCEPT !.pc = "finish", !.input = NULL, !.outcome = outcome]
<1>1. Calls(s) /\ IInv
  BY LocalCalls DEF Safe
<1>2. CASE slot.ctx = "expired"
  <2>1. Become(s, At(slot, "timeout"))
    BY <1>2 DEF Executed
  <2>. QED  BY <1>1, <2>1, GivesUp
<1>3. CASE slot.ctx # "expired" /\ slot.ctx = "cancelled"
  <2>1. Become(s, Returning(slot))
    BY <1>3 DEF Executed
  <2>. QED  BY <1>1, <2>1, Returns
<1>4. CASE slot.ctx # "expired" /\ slot.ctx # "cancelled"
  <2>1. Typed(slot) /\ t \in Tasks /\ Knows(slot, tasks[t], steps[t], events[t]) /\ slot \in Slot
    BY <1>1, SlotFacts
  <2>2. outcome \in Outcomes
    BY ReportedOutcome
  <2> HIDE DEF outcome
  <2>3. /\ new \in Slot /\ new.pc = "finish" /\ new.step = slot.step /\ new.lease = slot.lease
        /\ new.attempt = slot.attempt /\ new.outcome = outcome
    BY <2>1, <2>2 DEF Slot
  <2>4. Typed(new)
    BY <2>1, <2>2, <2>3 DEF Typed
  <2>5. Knows(new, tasks[t], steps[t], events[t])
    BY <2>1, <2>3 DEF Knows, HasStep, Owns, Runs, Finishes
  <2>6. Become(s, new)
    BY <1>4 DEF Executed, outcome
  <2> HIDE DEF new
  <2>. QED  BY <1>1, <2>3, <2>4, <2>5, <2>6, LocalMove
<1>. QED  BY <1>2, <1>3, <1>4

\* The executors that run in the worker.
LEMMA LocalResult ==
  ASSUME IInv, SlotsOK, NEW s \in Slots, slots[s].pc = "execute", StepType(slots[s]) # "fake_tool",
         NEW ctxErr \in {NULL} \cup ContextErrors(slots[s])
  PROVE  IsResult(Exec!Execute(StepType(slots[s]), slots[s].attempt, DecodedInput(slots[s]), NULL,
                               ctxErr))
<1> DEFINE slot == slots[s]
           t == slot.lease.task
           type == StepType(slot)
           input == DecodedInput(slot)
<1>1. t \in Tasks /\ Knows(slot, tasks[t], steps[t], events[t])
  BY SlotFacts
<1>2. slot.step \in DOMAIN steps[t] /\ type # "approval" /\ slot.input \in Value
  BY <1>1 DEF Knows, HasStep, StepType
<1>3. type \in {"echo", "sleep", "flaky"}
  <2>1. steps[t] \in Seq(StepRow)
    BY <1>1, TaskFacts
  <2>2. steps[t][slot.step] \in StepRow
    BY <1>2, <2>1
  <2>. QED  BY <1>2, <2>2, StepFields DEF StepType, ExecutorTypes
<1>4. ctxErr # NULL => ctxErr \in Exec!Causes
  BY DEF ContextErrors, Exec!Causes
<1>5. /\ \A v \in Value : Wrap(v) \in Outputs
      /\ FlakyInput.value \in Value \cup {NULL} /\ "literal" \in Value
  BY WorkerAssumption DEF Value
<1>6. CASE type = "echo"
  <2>1. input.value = slot.input
    BY <1>6 DEF DecodedInput, Exec!Input
  <2>2. IsResult(Exec!executeEcho(input))
    BY <1>2, <1>5, <2>1, Results DEF Exec!Causes, Exec!executeEcho
  <2>. QED  BY <1>6, <2>2 DEF Exec!Execute
<1>7. CASE type = "sleep"
  <2>1. IsResult(Exec!executeSleep(input, ctxErr))
    BY <1>4, <1>5, Results DEF Exec!Causes, Exec!executeSleep
  <2>. QED  BY <1>7, <2>1 DEF Exec!Execute
<1>8. CASE type = "flaky"
  <2>1. input = FlakyInput
    BY <1>8 DEF DecodedInput
  <2>2. IsResult(Exec!executeFlaky(input, slot.attempt))
    BY <1>5, <2>1, Results DEF Exec!Causes, Exec!executeFlaky
  <2>. QED  BY <1>8, <2>2 DEF Exec!Execute
<1>. QED  BY <1>3, <1>6, <1>7, <1>8

LEMMA ExecuteLocallyOK ==
  ASSUME Safe, SlotsOK, NEW s \in Slots, NEW ctxErr \in {NULL} \cup ContextErrors(slots[s]),
         ExecuteLocally(s, ctxErr)
  PROVE  Calls(s) /\ SlotsOK'
<1> DEFINE result == Exec!Execute(StepType(slots[s]), slots[s].attempt, DecodedInput(slots[s]), NULL,
                                  ctxErr)
<1>1. /\ slots[s].pc = "execute" /\ StepType(slots[s]) # "fake_tool" /\ UNCHANGED vars
      /\ Become(s, Executed(slots[s], result))
  BY DEF ExecuteLocally, LocalStep
<1>2. IsResult(result)
  BY <1>1, LocalResult DEF Safe
<1> HIDE DEF result
<1>. QED  BY <1>1, <1>2, ExecutedOK

\* The call of the tool.
LEMMA CallToolOK ==
  ASSUME Safe, SlotsOK, NEW s \in Slots, CallTool(s)
  PROVE  Calls(s) /\ SlotsOK'
<1> DEFINE slot == slots[s]
           t == slot.lease.task
           new == [slot EXCEPT !.pc = "await"]
<1>1. slot.pc = "execute" /\ UNCHANGED vars /\ Become(s, new)
  BY DEF CallTool, At
<1>2. Calls(s) /\ IInv
  BY <1>1, LocalCalls DEF Safe
<1>3. Typed(slot) /\ t \in Tasks /\ Knows(slot, tasks[t], steps[t], events[t]) /\ slot \in Slot
  BY <1>1, <1>2, SlotFacts
<1>4. /\ new \in Slot /\ new.pc = "await" /\ new.step = slot.step /\ new.lease = slot.lease
      /\ new.attempt = slot.attempt /\ new.input = slot.input
  BY <1>3 DEF Slot
<1>5. Typed(new)
  BY <1>1, <1>3, <1>4 DEF Typed
<1>6. Knows(new, tasks[t], steps[t], events[t])
  BY <1>1, <1>3, <1>4 DEF Knows, HasStep, Owns, Runs, Finishes
<1> HIDE DEF new
<1>. QED  BY <1>1, <1>2, <1>4, <1>5, <1>6, LocalMove

\* A response of the tool, or none.
LEMMA ToolResult ==
  ASSUME NEW response, NEW err, response = NULL => err \in Exec!Causes,
         response # NULL /\ response.status = 200 => response.body \in Outputs \cup {NULL},
         NEW n, NEW input
  PROVE  IsResult(Exec!Execute("fake_tool", n, input, response, err))
<1> DEFINE cause == IF response.status = 409 THEN "idempotency conflict" ELSE "status"
<1>1. /\ "invalid result" \in Exec!Causes /\ "status" \in Exec!Causes /\ cause \in Exec!Causes
  BY DEF Exec!Causes
<1>2. IsResult(Exec!executeFakeTool(response, err))
  <2> DEFINE result == Exec!executeFakeTool(response, err)
  <2>1. CASE response = NULL
    <3>1. result = Exec!Fails("temporary", err)
      BY <2>1 DEF Exec!executeFakeTool
    <3>. QED  BY <2>1, <3>1, Results
  <2>2. CASE response # NULL /\ response.status = 200
    <3>1. CASE response.body = NULL
      <4>1. result = Exec!Fails("permanent", "invalid result")
        BY <2>2, <3>1 DEF Exec!executeFakeTool
      <4>. QED  BY <1>1, <4>1, Results
    <3>2. CASE response.body # NULL
      <4>1. result = Exec!Ok(response.body)
        BY <2>2, <3>2 DEF Exec!executeFakeTool
      <4>. QED  BY <2>2, <3>2, <4>1, Results
    <3>. QED  BY <3>1, <3>2
  <2>3. CASE response # NULL /\ response.status # 200
    <3>1. result = Exec!Fails("temporary", "status") \/ result = Exec!Fails("permanent", cause)
      BY <2>3 DEF Exec!executeFakeTool
    <3> HIDE DEF cause
    <3>. QED  BY <1>1, <3>1, Results
  <2>. QED  BY <2>1, <2>2, <2>3
<1>. QED  BY <1>2 DEF Exec!Execute

LEMMA ToolAnswersOK ==
  ASSUME Safe, SlotsOK, ToolOK, NEW s \in Slots, ToolAnswers(s)
  PROVE  Calls(s) /\ SlotsOK'
<1>1. PICK response \in Tool!ResponsesTo(s) :
        /\ slots[s].pc = "await" /\ UNCHANGED vars
        /\ Become(s, Executed(slots[s], Exec!Execute("fake_tool", slots[s].attempt,
                                                     DecodedInput(slots[s]), response, NULL)))
  BY DEF ToolAnswers
<1>2. PICK r \in requests : response = r.response /\ response # NULL
  BY DEF Tool!ResponsesTo
<1>3. RequestOK(r)
  BY DEF ToolOK
<1>4. /\ response # NULL
      /\ response.status = 200 => response.body \in Outputs \cup {NULL}
  BY <1>2, <1>3, WorkerAssumption DEF RequestOK
<1> DEFINE result == Exec!Execute("fake_tool", slots[s].attempt, DecodedInput(slots[s]), response, NULL)
<1>5. IsResult(result)
  BY <1>4, ToolResult
<1> HIDE DEF result
<1>6. Become(s, Executed(slots[s], result))
  BY <1>1 DEF result
<1>. QED  BY <1>1, <1>5, <1>6, ExecutedOK

LEMMA GiveUpToolOK ==
  ASSUME Safe, SlotsOK, NEW s \in Slots, NEW err \in {"request failed"} \cup ContextErrors(slots[s]),
         GiveUpTool(s, err)
  PROVE  Calls(s) /\ SlotsOK'
<1> DEFINE result == Exec!Execute("fake_tool", slots[s].attempt, DecodedInput(slots[s]), NULL, err)
<1>1. slots[s].pc = "await" /\ UNCHANGED vars /\ Become(s, Executed(slots[s], result))
  BY DEF GiveUpTool
<1>2. err \in Exec!Causes
  BY DEF ContextErrors, Exec!Causes
<1>3. IsResult(result)
  BY <1>2, ToolResult
<1> HIDE DEF result
<1>. QED  BY <1>1, <1>3, ExecutedOK

-----------------------------------------------------------------------------
(* The end of an attempt. *)

\* FinishStep leaves the task without an owner, or at the next step.
LEMMA FinishWrites ==
  ASSUME IInv, NEW lease, lease.task \in Tasks, NEW i, NEW n, NEW outcome,
         \/ FinishStepFailed(lease, [step |-> i, attempt |-> n], outcome)
         \/ FinishStepSucceeded(lease, [step |-> i, attempt |-> n], outcome)
  PROVE  LET t == lease.task
         IN  \/ tasks'[t].status # "RUNNING"
             \/ i = tasks[t].current_step /\ tasks'[t].current_step = i + 1
<1> DEFINE t == lease.task
           row == tasks[t]
           a == [step |-> i, attempt |-> n]
<1>1. row \in TaskRow
  BY TaskFacts
<1>2. a.step = i /\ a.attempt = n
  OBVIOUS
<1> HIDE DEF a
<1>3. CASE FinishStepFailed(lease, a, outcome)
  <2> DEFINE retrying == /\ Limited(outcome).failure_class = "temporary"
                         /\ a.attempt < steps[t][a.step].max_attempts
             status == IF retrying THEN "RETRY_WAIT" ELSE "FAILED"
             at == IF retrying THEN now + Backoff(a.attempt) ELSE NULL
             new == [Released(row, status) EXCEPT !.retry_at = at]
  <2>1. \E st, log : Commit(t, new, st, log)
    BY <1>3 DEF FinishStepFailed
  <2>2. status # "RUNNING"
    OBVIOUS
  <2> HIDE DEF status, at
  <2>3. new.status # "RUNNING"
    BY <1>1, <2>2, ReleasedStatus
  <2> HIDE DEF new
  <2>4. tasks'[t] = new
    BY <2>1, CommitFrame
  <2>. QED  BY <2>3, <2>4
<1>4. CASE FinishStepSucceeded(lease, a, outcome)
  <2> DEFINE checkpoint == IF outcome.checkpoint = NULL THEN row.checkpoint ELSE outcome.checkpoint
             advanced == [row EXCEPT !.current_step = i + 1, !.checkpoint = checkpoint]
             new == IF IsLastStep(t, i) THEN Released(advanced, "SUCCEEDED") ELSE advanced
  <2>1. i = row.current_step /\ \E st, log : Commit(t, new, st, log)
    BY <1>2, <1>4 DEF FinishStepSucceeded, Finishable
  <2>2. new.status # "RUNNING" \/ new.current_step = i + 1
    <3>1. advanced.current_step = i + 1
      BY <1>1 DEF TaskRow
    <3>2. DOMAIN advanced = DOMAIN row /\ "status" \in DOMAIN row
      BY <1>1 DEF TaskRow
    <3> HIDE DEF advanced
    <3>3. Released(advanced, "SUCCEEDED").status = "SUCCEEDED"
      BY <3>2 DEF Released
    <3>. QED  BY <3>1, <3>3
  <2> HIDE DEF new
  <2>3. tasks'[t] = new
    BY <2>1, CommitFrame
  <2>. QED  BY <2>1, <2>2, <2>3
<1>. QED  BY <1>3, <1>4 DEF a

\* The claim goes on with the next step.
LEMMA AgainFields ==
  ASSUME NEW slot, Typed(slot), slot.pc # "idle"
  PROVE  Typed(Again(slot)) /\ Again(slot).pc = "load" /\ Again(slot).lease = slot.lease
<1>1. slot \in Slot /\ slot.lease \in Lease
  BY DEF Typed
<1>2. Again(slot) \in Slot /\ Again(slot).pc = "load" /\ Again(slot).lease = slot.lease
  BY <1>1 DEF Again, Slot
<1>. QED  BY <1>1, <1>2 DEF Typed

LEMMA FinishOK ==
  ASSUME Safe, SlotsOK, NEW s \in Slots, Finish(s)
  PROVE  Calls(s) /\ SlotsOK'
<1> DEFINE slot == slots[s]
           t == slot.lease.task
           row == tasks[t]
           st == steps[t]
           a == [step |-> slot.step, attempt |-> slot.attempt]
           confirm == [slot EXCEPT !.pc = "confirmFinish"]
<1>1. slot.pc = "finish"
  BY DEF Finish
<1>2. IInv /\ Blank /\ LogInv /\ StoreInv
  BY DEF Safe
<1>3. /\ Typed(slot) /\ slot.lease \in Lease /\ t \in Tasks /\ slot.lease.version \in Nat
      /\ Knows(slot, row, st, events[t]) /\ slot \in Slot /\ slot.outcome \in Outcomes
  BY <1>1, <1>2, SlotFacts DEF Typed
<1>4. /\ confirm \in Slot /\ confirm.pc = "confirmFinish" /\ confirm.step = slot.step
      /\ confirm.lease = slot.lease /\ confirm.attempt = slot.attempt
      /\ confirm.outcome = slot.outcome
  BY <1>3 DEF Slot
<1>5. Typed(confirm)
  BY <1>1, <1>3, <1>4 DEF Typed
<1>6. At(slot, "confirmFinish") = confirm
  BY DEF At
<1> HIDE DEF confirm
<1>7. slot.lease.version <= row.lease_version /\ HasStep(slot, st) /\ HasStep(confirm, st)
  BY <1>1, <1>3, <1>4 DEF Knows, HasStep
<1>8. ASSUME Holder(slot.lease, row)
      PROVE  Runs(slot, row, st) /\ Runs(confirm, row, st) /\ Holder(confirm.lease, row)
             /\ Finishes(confirm, row, st, events[t])
  BY <1>1, <1>3, <1>4, <1>8 DEF Knows, Owns, Runs, Finishes, FinishSeen
<1>9. CASE LocalStep(s, Returning(slot))
  BY <1>1, <1>9, LocalCalls, Returns DEF LocalStep
<1>10. CASE LocalStep(s, At(slot, "timeout"))
  BY <1>1, <1>10, LocalCalls, GivesUp DEF LocalStep
<1>11. CASE Finishable(slot.lease, a) /\ LocalStep(s, At(slot, "confirmFinish"))
  <2>1. validateOwnership(slot.lease) = "nil"
    BY <1>11 DEF Finishable
  <2>2. Holder(slot.lease, row)
    BY <1>2, <1>3, <2>1, OwnerActive DEF Active, Holder
  <2>3. Knows(confirm, row, st, events[t])
    BY <1>4, <1>7, <1>8, <2>2 DEF Knows, Owns
  <2>4. Become(s, confirm) /\ UNCHANGED vars
    BY <1>6, <1>11 DEF LocalStep
  <2>. QED  BY <1>1, <1>4, <1>5, <2>3, <2>4, LocalCalls, LocalMove
<1>12. CASE /\ \/ FinishStepFailed(slot.lease, a, slot.outcome)
               \/ FinishStepSucceeded(slot.lease, a, slot.outcome)
            /\ StoreStep(s, AfterFinish(slot)) \/ StoreStep(s, At(slot, "confirmFinish"))
  <2>1. OwnerCall(slot.lease, slot.step, slot.attempt, slot.outcome)
    BY <1>3, <1>12 DEF OwnerCall
  <2>2. Calls(s) /\ Holder(slot.lease, row) /\ [Next]_vars
    BY <1>1, <1>2, <1>3, <2>1, OwnerCalls DEF Calls
  <2>3. \/ tasks'[t].status # "RUNNING"
        \/ slot.step = row.current_step /\ tasks'[t].current_step = slot.step + 1
    BY <1>2, <1>3, <1>12, FinishWrites
  <2>4. slot.step \in Nat /\ slot.step # slot.step + 1
    BY <1>3 DEF Slot
  <2>5. tasks'[t].status = "RUNNING" => steps'[t][tasks'[t].current_step].status # "RUNNING"
    <3> SUFFICES ASSUME tasks'[t].status = "RUNNING",
                        steps'[t][tasks'[t].current_step].status = "RUNNING"
                 PROVE  FALSE
      OBVIOUS
    <3>1. Transacts(t)
      BY <1>2, <1>3, <2>1, OwnerCallIsNext
    <3>2. PICK log \in Seq(EventRow) : Effect(row, st, tasks'[t], steps'[t], log)
      BY <3>1 DEF Transacts
    <3>3. Effect(row, st, tasks'[t], steps'[t], log)
      BY <3>2
    <3>4. row \in TaskRow /\ st \in Seq(StepRow) /\ Coherent(row, st)
      BY <1>2, <1>3, TaskFacts
    <3>5. tasks'[t].current_step = row.current_step
      BY <3>3, <3>4, EffectRunning
    <3>. QED  BY <2>3, <2>4, <3>5
  <2>6. CASE StoreStep(s, At(slot, "confirmFinish"))
    <3>1. /\ confirm.lease.version <= tasks'[t].lease_version /\ HasStep(confirm, steps'[t])
          /\ Finishes(confirm, tasks'[t], steps'[t], events'[t])
      BY <1>2, <1>3, <1>4, <1>7, <1>8, <2>2, ClaimPastKept
    <3>2. Holder(confirm.lease, tasks'[t]) => Owns(confirm, tasks'[t], steps'[t])
      BY <1>4, <2>3, <2>4, <2>5 DEF Holder, Owns
    <3>3. SlotOK(confirm, tasks', steps', events')
      BY <1>4, <1>5, <3>1, <3>2 DEF SlotOK, Knows
    <3>4. Become(s, confirm)
      BY <1>6, <2>6 DEF StoreStep
    <3>. QED  BY <1>1, <1>2, <1>4, <2>2, <3>3, <3>4, OneSlot
  <2>7. CASE StoreStep(s, AfterFinish(slot))
    <3>1. CASE slot.outcome.error # NULL
      BY <1>1, <2>2, <2>7, <3>1, Returns DEF StoreStep, AfterFinish
    <3>2. CASE slot.outcome.error = NULL
      <4> DEFINE new == Again(slot)
      <4>1. Typed(new) /\ new.pc = "load" /\ new.lease = slot.lease
        BY <1>1, <1>3, AgainFields
      <4>2. Become(s, new)
        BY <2>7, <3>2 DEF StoreStep, AfterFinish
      <4> HIDE DEF new
      <4>3. slot.lease.version <= tasks'[t].lease_version
        BY <1>2, <1>3, <2>2, ClaimPastKept DEF Knows
      <4>4. Knows(new, tasks'[t], steps'[t], events'[t])
        BY <2>5, <4>1, <4>3 DEF Knows, HasStep, Holder, Owns, Finishes
      <4>5. SlotOK(new, tasks', steps', events')
        BY <4>1, <4>4 DEF SlotOK
      <4>. QED  BY <1>1, <1>2, <2>2, <4>1, <4>2, <4>5, OneSlot
    <3>. QED  BY <3>1, <3>2
  <2>. QED  BY <1>12, <2>6, <2>7
<1>. QED  BY <1>9, <1>10, <1>11, <1>12 DEF Finish

\* No executor reports worker_lost, which only a takeover writes.
LEMMA LimitedError ==
  ASSUME NEW outcome \in Outcomes
  PROVE  Limited(outcome).error \in
           {NULL, "execution_failed", "checkpoint_too_large", "output_too_large"}
BY DEF Limited, Outcomes

\* A finish that was not answered and is found in the store.
LEMMA ConfirmFinishOK ==
  ASSUME Safe, SlotsOK, NEW s \in Slots, ConfirmFinish(s)
  PROVE  Calls(s) /\ SlotsOK'
<1> DEFINE slot == slots[s]
           t == slot.lease.task
           i == slot.step
           a == [step |-> i, attempt |-> slot.attempt]
<1>1. slot.pc = "confirmFinish" /\ UNCHANGED vars
  BY DEF ConfirmFinish, LocalStep
<1>2. Calls(s) /\ IInv
  BY <1>1, LocalCalls DEF Safe
<1>3. CASE LocalStep(s, Returning(slot))
  BY <1>1, <1>2, <1>3, Returns DEF LocalStep
<1>4. CASE /\ stepFinishPersisted(t, a, slot.outcome)
           /\ LocalStep(s, AfterFinish(slot))
  <2>1. Typed(slot) /\ t \in Tasks /\ Knows(slot, tasks[t], steps[t], events[t])
    BY <1>1, <1>2, SlotFacts
  <2>2. steps[t][i].status \in {"SUCCEEDED", "FAILED"}
    <3>1. a.step = i
      OBVIOUS
    <3>. QED  BY <1>4, <3>1 DEF stepFinishPersisted, FinishWritten
  <2>3. CASE slot.outcome.error # NULL
    BY <1>1, <1>2, <1>4, <2>3, Returns DEF LocalStep, AfterFinish
  <2>4. CASE slot.outcome.error = NULL
    <3> DEFINE new == Again(slot)
    <3>1. Typed(new) /\ new.pc = "load" /\ new.lease = slot.lease
      BY <1>1, <2>1, AgainFields
    <3>2. Become(s, new)
      BY <1>4, <2>4 DEF LocalStep, AfterFinish
    <3> HIDE DEF new
    <3>3. Knows(new, tasks[t], steps[t], events[t])
      BY <1>1, <2>1, <2>2, <3>1 DEF Knows, HasStep, Owns, Runs, Finishes
    <3>. QED  BY <1>1, <1>2, <3>1, <3>2, <3>3, LocalMove
  <2>. QED  BY <2>3, <2>4
<1>. QED  BY <1>3, <1>4 DEF ConfirmFinish

\* timeoutClaim and cancelClaim.
LEMMA ControlClaimOK ==
  ASSUME Safe, SlotsOK, NEW s \in Slots, timeoutClaim(s) \/ cancelClaim(s)
  PROVE  Calls(s) /\ SlotsOK'
<1> DEFINE slot == slots[s]
<1>1. slot.pc \in {"timeout", "cancel"}
  BY DEF timeoutClaim, cancelClaim
<1>2. IInv /\ LogInv /\ StoreInv
  BY DEF Safe
<1>3. slot.lease \in Lease /\ slot.pc # "idle"
  BY <1>1, <1>2, SlotFacts
<1>4. CASE /\ TimeoutOwnedTask(slot.lease) \/ CancelOwnedTask(slot.lease)
           /\ StoreStep(s, Returning(slot))
  <2>1. OwnerCall(slot.lease, 0, 0, NULL)
    BY <1>4 DEF OwnerCall
  <2>2. Calls(s)
    BY <1>2, <1>3, <2>1, OwnerCalls
  <2>. QED  BY <1>3, <1>4, <2>2, Returns DEF StoreStep
<1>5. CASE LocalStep(s, At(slot, "cancel"))
  BY <1>3, <1>5, LocalCalls, GivesUp DEF LocalStep
<1>6. CASE LocalStep(s, Returning(slot))
  BY <1>3, <1>6, LocalCalls, Returns DEF LocalStep
<1>. QED  BY <1>4, <1>5, <1>6 DEF timeoutClaim, cancelClaim

\* The end of a claim.
LEMMA IdleTyped == Typed(IdleSlot) /\ IdleSlot.pc = "idle"
<1>1. NULL \in Value \cup {NULL} /\ NULL \in Outcomes \cup {NULL} /\ NULL \in Lease \cup {NULL}
  OBVIOUS
<1>2. IdleSlot \in Slot /\ IdleSlot.pc = "idle" /\ IdleSlot.monitor = "done"
  BY <1>1 DEF IdleSlot, Slot
<1>. QED  BY <1>2 DEF Typed

LEMMA ReturnOK ==
  ASSUME Safe, SlotsOK, NEW s \in Slots, Return(s)
  PROVE  Calls(s) /\ SlotsOK'
<1>1. UNCHANGED vars /\ Become(s, IdleSlot)
  BY DEF Return, LocalStep
<1>2. Calls(s) /\ IInv /\ Blank /\ LogInv
  BY <1>1, LocalCalls DEF Safe
<1> DEFINE new == IdleSlot
<1> HIDE DEF new
<1>3. Typed(new) /\ new.pc = "idle" /\ Become(s, new)
  BY <1>1, IdleTyped DEF new
<1>4. SlotOK(new, tasks', steps', events')
  BY <1>3 DEF SlotOK
<1>. QED  BY <1>2, <1>3, <1>4, OneSlot

-----------------------------------------------------------------------------
(* Monitors and contexts. *)

\* What a monitor and a context change of a slot is nothing that it knows of the task.
LEMMA StaysBeside ==
  ASSUME Safe, SlotsOK, NEW s \in Slots, slots[s].pc # "idle", Calls(s),
         ~Advances(slots[s].lease.task), NEW new \in Slot, Become(s, new),
         new.lease = slots[s].lease, new.pc = slots[s].pc, new.step = slots[s].step,
         new.attempt = slots[s].attempt, new.input = slots[s].input, new.outcome = slots[s].outcome
  PROVE  SlotsOK'
<1>1. IInv /\ Blank /\ LogInv /\ [Next]_vars
  BY DEF Safe, Calls
<1>2. SlotOK(slots[s], tasks, steps, events) /\ Typed(slots[s])
  BY <1>1, SlotFacts
<1>3. Typed(new)
  BY <1>2 DEF Typed
<1>4. SlotOK(new, tasks', steps', events')
  BY <1>1, <1>2, <1>3, SlotRests
<1>. QED  BY <1>1, <1>4, OneSlot

\* A monitor, or a context that ends, without a call on the store.
LEMMA LocalBeside ==
  ASSUME Safe, SlotsOK, NEW s \in Slots, slots[s].pc # "idle", NEW new \in Slot, LocalStep(s, new),
         new.lease = slots[s].lease, new.pc = slots[s].pc, new.step = slots[s].step,
         new.attempt = slots[s].attempt, new.input = slots[s].input, new.outcome = slots[s].outcome
  PROVE  Calls(s) /\ SlotsOK'
<1>1. Calls(s) /\ Become(s, new)
  BY LocalCalls DEF LocalStep
<1>2. ~Advances(slots[s].lease.task)
  BY DEF LocalStep, vars, Advances
<1>. QED  BY <1>1, <1>2, StaysBeside

\* Where a monitor runs there is a claim.
LEMMA MonitorFacts ==
  ASSUME Safe, SlotsOK, NEW s \in Slots, slots[s].monitor # "done"
  PROVE  /\ slots[s].pc # "idle" /\ slots[s] \in Slot /\ slots[s].lease \in Lease
         /\ slots[s].lease.task \in Tasks
<1>1. SlotOK(slots[s], tasks, steps, events)
  BY DEF SlotsOK
<1>2. slots[s].pc # "idle"
  BY <1>1 DEF SlotOK, Typed
<1>. QED  BY <1>2, SlotFacts DEF Safe

LEMMA StoppedFields ==
  ASSUME NEW slot \in Slot
  PROVE  /\ Stopped(slot) \in Slot /\ Stopped(slot).lease = slot.lease
         /\ Stopped(slot).pc = slot.pc /\ Stopped(slot).step = slot.step
         /\ Stopped(slot).attempt = slot.attempt /\ Stopped(slot).input = slot.input
         /\ Stopped(slot).outcome = slot.outcome
<1>1. Cancelled(slot.ctx) \in {"live", "cancelled", "expired"}
  BY DEF Slot, Cancelled
<1>. QED  BY <1>1 DEF Slot, Stopped

\* The monitor renews the lease, and may not hear of it.
LEMMA HeartbeatOK ==
  ASSUME Safe, SlotsOK, NEW s \in Slots, Heartbeat(s)
  PROVE  Calls(s) /\ SlotsOK'
<1> DEFINE slot == slots[s]
           t == slot.lease.task
           row == [tasks[t] EXCEPT !.lease_expires_at = now + LeaseDuration]
<1>1. /\ slot.monitor = "on" /\ RenewLease(slot.lease)
      /\ Become(s, slot) \/ Become(s, Stopped(slot))
  BY DEF Heartbeat, StoreStep
<1>2. slot.pc # "idle" /\ slot \in Slot /\ slot.lease \in Lease /\ t \in Tasks
  BY <1>1, MonitorFacts
<1>3. OwnerCall(slot.lease, 0, 0, NULL)
  BY <1>1 DEF OwnerCall
<1>4. Calls(s) /\ IInv
  BY <1>2, <1>3, OwnerCalls DEF Safe
<1>5. ~Advances(t)
  <2>1. Commit(t, row, steps[t], <<>>)
    BY <1>1 DEF RenewLease
  <2>2. row.current_step = tasks[t].current_step
    BY <1>2, <1>4, TaskFacts DEF TaskRow
  <2> HIDE DEF row
  <2>3. tasks'[t] = row /\ steps'[t] = steps[t]
    BY <1>2, <1>4, <2>1, CommitFrame
  <2>. QED  BY <2>2, <2>3 DEF Advances
<1>6. CASE Become(s, slot)
  BY <1>2, <1>4, <1>5, <1>6, StaysBeside
<1>7. CASE Become(s, Stopped(slot))
  BY <1>2, <1>4, <1>5, <1>7, StoppedFields, StaysBeside
<1>. QED  BY <1>1, <1>4, <1>6, <1>7

\* The monitor finds that the claim is over, fails, or ends with the context.
LEMMA MonitorStops ==
  ASSUME Safe, SlotsOK, NEW s \in Slots, MonitorNotices(s) \/ MonitorFails(s) \/ MonitorEnds(s)
  PROVE  Calls(s) /\ SlotsOK'
<1> DEFINE slot == slots[s]
           noticing == [slot EXCEPT !.monitor = "cancelling"]
           ended == [slot EXCEPT !.monitor = "done"]
<1>1. slot.monitor = "on"
  BY DEF MonitorNotices, MonitorFails, MonitorEnds
<1>2. slot.pc # "idle" /\ slot \in Slot
  BY <1>1, MonitorFacts
<1>3. LocalStep(s, Stopped(slot)) \/ LocalStep(s, noticing) \/ LocalStep(s, ended)
  BY DEF MonitorNotices, Noticed, MonitorFails, MonitorEnds
<1>4. CASE LocalStep(s, Stopped(slot))
  BY <1>2, <1>4, StoppedFields, LocalBeside
<1>5. CASE LocalStep(s, noticing)
  <2>1. /\ noticing \in Slot /\ noticing.lease = slot.lease /\ noticing.pc = slot.pc
        /\ noticing.step = slot.step /\ noticing.attempt = slot.attempt
        /\ noticing.input = slot.input /\ noticing.outcome = slot.outcome
    BY <1>2 DEF Slot
  <2> HIDE DEF noticing
  <2>. QED  BY <1>2, <1>5, <2>1, LocalBeside
<1>6. CASE LocalStep(s, ended)
  <2>1. /\ ended \in Slot /\ ended.lease = slot.lease /\ ended.pc = slot.pc
        /\ ended.step = slot.step /\ ended.attempt = slot.attempt
        /\ ended.input = slot.input /\ ended.outcome = slot.outcome
    BY <1>2 DEF Slot
  <2> HIDE DEF ended
  <2>. QED  BY <1>2, <1>6, <2>1, LocalBeside
<1>. QED  BY <1>3, <1>4, <1>5, <1>6

\* The monitor carries out a cancellation while the execution may still go on.
LEMMA MonitorCancelsOK ==
  ASSUME Safe, SlotsOK, NEW s \in Slots, MonitorCancels(s)
  PROVE  Calls(s) /\ SlotsOK'
<1> DEFINE slot == slots[s]
           t == slot.lease.task
<1>1. slot.monitor = "cancelling"
  BY DEF MonitorCancels
<1>2. slot.pc # "idle" /\ slot \in Slot /\ slot.lease \in Lease /\ t \in Tasks
  BY <1>1, MonitorFacts
<1>3. CASE LocalStep(s, Stopped(slot))
  BY <1>2, <1>3, StoppedFields, LocalBeside
<1>4. CASE CancelOwnedTask(slot.lease) /\ Become(s, Stopped(slot))
  <2>1. OwnerCall(slot.lease, 0, 0, NULL)
    BY <1>4 DEF OwnerCall
  <2>2. Calls(s) /\ IInv
    BY <1>2, <2>1, OwnerCalls DEF Safe
  <2>3. ~Advances(t)
    BY <1>2, <1>4, <2>2, ControlIsQuiet DEF CancelOwnedTask
  <2>. QED  BY <1>2, <1>4, <2>2, <2>3, StoppedFields, StaysBeside
<1>. QED  BY <1>3, <1>4 DEF MonitorCancels, StoreStep

\* A context that ends at the deadline.
LEMMA ContextExpiresOK ==
  ASSUME Safe, SlotsOK, NEW s \in Slots, ContextExpires(s)
  PROVE  Calls(s) /\ SlotsOK'
<1> DEFINE slot == slots[s]
           new == [slot EXCEPT !.ctx = "expired"]
<1>1. slot.pc # "idle" /\ LocalStep(s, new)
  BY DEF ContextExpires
<1>2. slot \in Slot
  BY <1>1, SlotFacts DEF Safe
<1>3. /\ new \in Slot /\ new.lease = slot.lease /\ new.pc = slot.pc
      /\ new.step = slot.step /\ new.attempt = slot.attempt
      /\ new.input = slot.input /\ new.outcome = slot.outcome
  BY <1>2 DEF Slot
<1> HIDE DEF new
<1>. QED  BY <1>1, <1>3, LocalBeside

-----------------------------------------------------------------------------
(* Processes, and the rest of the system. *)

\* A step that advances nothing, and of every slot leaves what it knows or makes it idle.
LEMMA AllSlots ==
  ASSUME Safe, SlotsOK, [Next]_vars, \A t \in Tasks : ~Advances(t),
         slots' = [s \in Slots |-> slots'[s]],
         \A s \in Slots :
           \/ Typed(slots'[s]) /\ slots'[s].pc = "idle"
           \/ /\ slots[s].pc # "idle" /\ slots'[s] \in Slot
              /\ slots'[s].lease = slots[s].lease /\ slots'[s].pc = slots[s].pc
              /\ slots'[s].step = slots[s].step /\ slots'[s].attempt = slots[s].attempt
              /\ slots'[s].input = slots[s].input /\ slots'[s].outcome = slots[s].outcome
  PROVE  SlotsOK'
<1>1. IInv /\ Blank /\ LogInv
  BY DEF Safe
<1>2. ASSUME NEW s \in Slots PROVE SlotOK(slots'[s], tasks', steps', events')
  <2>1. CASE Typed(slots'[s]) /\ slots'[s].pc = "idle"
    BY <2>1 DEF SlotOK
  <2>2. CASE /\ slots[s].pc # "idle" /\ slots'[s] \in Slot
             /\ slots'[s].lease = slots[s].lease /\ slots'[s].pc = slots[s].pc
             /\ slots'[s].step = slots[s].step /\ slots'[s].attempt = slots[s].attempt
             /\ slots'[s].input = slots[s].input /\ slots'[s].outcome = slots[s].outcome
    <3>1. /\ SlotOK(slots[s], tasks, steps, events) /\ Typed(slots[s])
          /\ slots[s].lease.task \in Tasks
      BY <1>1, <2>2, SlotFacts
    <3>2. Typed(slots'[s])
      BY <2>2, <3>1 DEF Typed
    <3>. QED  BY <1>1, <2>2, <3>1, <3>2, SlotRests
  <2>. QED  BY <2>1, <2>2
<1>3. ASSUME NEW s1 \in Slots, NEW s2 \in Slots, s1 # s2 PROVE Distinct(slots'[s1], slots'[s2])
  <2>1. Distinct(slots[s1], slots[s2])
    BY <1>3 DEF SlotsOK
  <2>. QED  BY <2>1 DEF Distinct
<1>. QED  BY <1>2, <1>3 DEF SlotsOK

\* The slots, when none of them takes a step.
LEMMA SlotsRest ==
  ASSUME Safe, SlotsOK, [Next]_vars, \A t \in Tasks : ~Advances(t), UNCHANGED slots
  PROVE  SlotsOK'
<1>1. slots' = [s \in Slots |-> slots'[s]]
  BY DEF SlotsOK
<1>2. ASSUME NEW s \in Slots PROVE Typed(slots[s]) /\ slots[s] \in Slot
  BY DEF SlotsOK, SlotOK, Typed
<1>. QED  BY <1>1, <1>2, AllSlots

\* A process that is told to stop, one that starts again, and one that is killed.
LEMMA ProcessOK ==
  ASSUME Safe, SlotsOK, stopping \in [Workers -> BOOLEAN], NEW w \in Workers,
         Shutdown(w) \/ Restart(w) \/ Crash(w)
  PROVE  UNCHANGED vars /\ SlotsOK' /\ stopping' \in [Workers -> BOOLEAN]
<1>1. UNCHANGED vars /\ stopping' \in [Workers -> BOOLEAN]
  BY DEF Shutdown, Restart, Crash
<1>2. [Next]_vars /\ \A t \in Tasks : ~Advances(t)
  BY <1>1 DEF vars, Advances
<1>3. ASSUME NEW s \in Slots PROVE Typed(slots[s]) /\ slots[s] \in Slot
  BY DEF SlotsOK, SlotOK, Typed
<1>4. CASE Restart(w)
  BY <1>1, <1>2, <1>4, SlotsRest DEF Restart
<1>5. CASE Shutdown(w)
  <2>1. slots' = [s \in Slots |-> IF WorkerId(s) = w THEN Interrupted(slots[s]) ELSE slots[s]]
    BY <1>5 DEF Shutdown
  <2>2. slots' = [s \in Slots |-> slots'[s]]
    BY <2>1
  <2>3. ASSUME NEW s \in Slots, slots[s].pc # "idle"
        PROVE  /\ slots'[s] \in Slot
               /\ slots'[s].lease = slots[s].lease /\ slots'[s].pc = slots[s].pc
               /\ slots'[s].step = slots[s].step /\ slots'[s].attempt = slots[s].attempt
               /\ slots'[s].input = slots[s].input /\ slots'[s].outcome = slots[s].outcome
    <3> DEFINE slot == slots[s]
               ctx == Cancelled(slot.ctx)
               new == [slot EXCEPT !.ctx = ctx]
    <3>1. slots'[s] = new \/ slots'[s] = slot
      BY <2>1, <2>3 DEF Interrupted
    <3>2. slot \in Slot /\ ctx \in {"live", "cancelled", "expired"}
      BY <1>3 DEF Slot, Cancelled
    <3> HIDE DEF ctx
    <3>3. /\ new \in Slot /\ new.lease = slot.lease /\ new.pc = slot.pc
          /\ new.step = slot.step /\ new.attempt = slot.attempt
          /\ new.input = slot.input /\ new.outcome = slot.outcome
      BY <3>2 DEF Slot
    <3> HIDE DEF new
    <3>. QED  BY <3>1, <3>2, <3>3
  <2>4. ASSUME NEW s \in Slots, slots[s].pc = "idle" PROVE slots'[s] = slots[s]
    BY <2>1, <2>4 DEF Interrupted
  <2>. QED  BY <1>1, <1>2, <1>3, <2>2, <2>3, <2>4, AllSlots
<1>6. CASE Crash(w)
  <2>1. slots' = [s \in Slots |-> IF s \in {r \in Slots : WorkerId(r) = w} THEN IdleSlot ELSE slots[s]]
    BY <1>6 DEF Crash
  <2>2. slots' = [s \in Slots |-> slots'[s]]
    BY <2>1
  <2>3. ASSUME NEW s \in Slots PROVE slots'[s] = IdleSlot \/ slots'[s] = slots[s]
    BY <2>1
  <2>. QED  BY <1>1, <1>2, <1>3, <2>2, <2>3, IdleTyped, AllSlots
<1>. QED  BY <1>4, <1>5, <1>6

\* Clients, schedulers and the clock.
LEMMA EnvironmentOK ==
  ASSUME Safe, SlotsOK, Environment
  PROVE  /\ [Next]_vars /\ SlotsOK' /\ (\A t \in Tasks : ~Renews(t))
         /\ UNCHANGED <<slots, stopping, toolVars>>
<1>1. UNCHANGED <<slots, stopping, toolVars>>
  BY DEF Environment
<1>2. [Next]_vars /\ \A t \in Tasks : ~Advances(t) /\ ~Renews(t)
  <2>1. CASE \E t \in Tasks : ClientStep(t) \/ ProcessDueControl(t)
    BY <2>1, EnvironmentIsQuiet DEF Safe
  <2>2. CASE Tick \/ Idle
    BY <2>2 DEF Tick, Idle, Next, vars, Advances, Renews
  <2>. QED  BY <2>1, <2>2 DEF Environment
<1>. QED  BY <1>1, <1>2, SlotsRest

-----------------------------------------------------------------------------
(* The tool. *)

\* Clients that give up change no request but in that.
LEMMA DisconnectedOK ==
  ASSUME ToolOK, NEW C
  PROVE  \A r \in Tool!Disconnected(C) : RequestOK(r)
<1> SUFFICES ASSUME NEW q \in requests PROVE RequestOK([q EXCEPT !.connected = FALSE]) /\ RequestOK(q)
  BY DEF Tool!Disconnected
<1> DEFINE no == FALSE
           r == [q EXCEPT !.connected = no]
<1>1. RequestOK(q) /\ no \in BOOLEAN
  BY DEF ToolOK
<1> HIDE DEF no
<1>2. q = [client |-> q.client, key |-> q.key, payload |-> q.payload, connected |-> q.connected,
           response |-> q.response]
  BY <1>1 DEF RequestOK
<1>3. r = [client |-> q.client, key |-> q.key, payload |-> q.payload, connected |-> no,
           response |-> q.response]
  BY <1>2
<1>4. /\ r.client = q.client /\ r.key = q.key /\ r.payload = q.payload /\ r.connected = no
      /\ r.response = q.response
  BY <1>3
<1> HIDE DEF r
<1>5. RequestOK(r)
  BY <1>1, <1>3, <1>4 DEF RequestOK
<1>. QED  BY <1>1, <1>5 DEF r, no

\* A request that is answered, with a result that is its payload's.
LEMMA AnsweredOK ==
  ASSUME ToolOK, NEW r \in requests, NEW response, Tool!Answered(r, response),
         response # NULL /\ response.status = 200 => response.body = Wrap(r.payload)
  PROVE  \A q \in requests' : RequestOK(q)
<1> DEFINE new == [r EXCEPT !.response = response]
<1>1. RequestOK(r)
  BY DEF ToolOK
<1>2. r = [client |-> r.client, key |-> r.key, payload |-> r.payload, connected |-> r.connected,
           response |-> r.response]
  BY <1>1 DEF RequestOK
<1>3. new = [client |-> r.client, key |-> r.key, payload |-> r.payload, connected |-> r.connected,
             response |-> response]
  BY <1>2
<1>4. /\ new.client = r.client /\ new.key = r.key /\ new.payload = r.payload
      /\ new.connected = r.connected /\ new.response = response
  BY <1>3
<1>5. \A q \in requests' : q = new \/ q \in requests
  BY DEF Tool!Answered
<1> HIDE DEF new
<1>6. RequestOK(new)
  BY <1>1, <1>3, <1>4 DEF RequestOK
<1>. QED  BY <1>5, <1>6 DEF ToolOK

\* The row that the ledger has for the key of a request.
LEMMA RecordedOK ==
  ASSUME ToolOK, NEW r \in requests
  PROVE  /\ \A row \in Tool!Recorded(r) : EffectRowOK(row)
         /\ \E row \in Tool!Recorded(r) : row.key = r.key
<1> DEFINE new == [key |-> r.key, payload |-> r.payload, result |-> Wrap(r.payload)]
<1>1. new.key = r.key /\ new.payload = r.payload /\ new.result = Wrap(r.payload)
  OBVIOUS
<1>2. RequestOK(r)
  BY DEF ToolOK
<1>3. EffectRowOK(new)
  BY <1>1, <1>2 DEF RequestOK, EffectRowOK
<1>4. Tool!Recorded(r) = IF \E row \in effects : row.key = r.key THEN effects ELSE effects \cup {new}
  BY DEF Tool!Recorded
<1> HIDE DEF new
<1>. QED  BY <1>1, <1>3, <1>4 DEF ToolOK

LEMMA ToolStepOK ==
  ASSUME ToolOK, NEW r \in requests, Tool!record(r) \/ Tool!recordFails(r)
  PROVE  ToolOK'
<1>1. /\ \A row \in Tool!Recorded(r) : EffectRowOK(row)
      /\ \E row \in Tool!Recorded(r) : row.key = r.key
  BY RecordedOK
<1>2. effects' = effects \/ effects' = Tool!Recorded(r)
  BY DEF Tool!record, Tool!recordFails
<1>3. \A row \in effects' : EffectRowOK(row)
  BY <1>1, <1>2 DEF ToolOK
<1>4. PICK response : /\ Tool!Answered(r, response)
                      /\ response.status = 200 => response.body = Wrap(r.payload)
  <2>1. ASSUME NEW status, NEW body
        PROVE  Tool!Response(status, body).status = status /\ Tool!Response(status, body).body = body
    BY DEF Tool!Response
  <2>2. CASE Tool!recordFails(r)
    BY <2>1, <2>2 DEF Tool!recordFails
  <2>3. CASE Tool!record(r)
    <3> DEFINE row == CHOOSE row \in Tool!Recorded(r) : row.key = r.key
    <3>1. row \in Tool!Recorded(r)
      BY <1>1
    <3>2. row.result = Wrap(row.payload)
      BY <1>1, <3>1 DEF EffectRowOK
    <3> HIDE DEF row
    <3>3. \/ Tool!Answered(r, Tool!Response(409, NULL))
          \/ row.payload = r.payload /\ Tool!Answered(r, Tool!Blocked)
          \/ row.payload = r.payload /\ Tool!Answered(r, Tool!Response(200, row.result))
      BY <2>3 DEF Tool!record, row
    <3>. QED  BY <2>1, <3>2, <3>3 DEF Tool!Blocked
  <2>. QED  BY <2>2, <2>3
<1>5. \A q \in requests' : RequestOK(q)
  BY <1>4, AnsweredOK
<1>. QED  BY <1>3, <1>5 DEF ToolOK

\* A key and a payload that the tool expects.
LEMMA CallToolRequest ==
  ASSUME Safe, SlotsOK, ToolOK, NEW s \in Slots, CallTool(s)
  PROVE  ToolOK'
<1> DEFINE slot == slots[s]
           t == slot.lease.task
           key == <<t, slot.step>>
           new == [client |-> s, key |-> key, payload |-> slot.input, connected |-> TRUE,
                   response |-> NULL]
<1>1. slot.pc = "execute" /\ requests' = requests \cup {new} /\ effects' = effects
  BY DEF CallTool, Tool!Post, IdempotencyKey
<1>2. t \in Tasks /\ Knows(slot, tasks[t], steps[t], events[t]) /\ IInv /\ StoreInv
  BY <1>1, SlotFacts DEF Safe
<1>3. slot.step \in DOMAIN steps[t] /\ slot.input \in Value
  BY <1>1, <1>2 DEF Knows, HasStep
<1>4. key \in Keys
  <2> DEFINE st == steps[t]
             i == slot.step
  <2>1. st \in Seq(StepRow) /\ Len(st) <= 100 /\ i \in DOMAIN st
    BY <1>2, <1>3, TaskFacts DEF StoreInv
  <2> HIDE DEF st, i
  <2>2. DOMAIN st = 1..Len(st) /\ Len(st) \in Nat
    BY <2>1
  <2>3. i \in 1..Len(st)
    BY <2>1, <2>2
  <2>4. \A m \in Nat : m <= 100 => \A k \in 1..m : k \in 1..100
    OBVIOUS
  <2>5. i \in 1..100
    BY <2>1, <2>2, <2>3, <2>4
  <2>. QED  BY <1>2, <2>5 DEF Keys, i
<1> HIDE DEF key
<1>5. /\ new.client = s /\ new.key = key /\ new.payload = slot.input /\ new.response = NULL
      /\ new = [client |-> new.client, key |-> new.key, payload |-> new.payload,
                connected |-> new.connected, response |-> new.response]
  OBVIOUS
<1>6. new.connected \in BOOLEAN
  BY Zenon
<1> HIDE DEF new
<1>7. RequestOK(new)
  BY <1>3, <1>4, <1>5, <1>6 DEF RequestOK
<1>. QED  BY <1>1, <1>7 DEF ToolOK

-----------------------------------------------------------------------------
(* The invariant. *)

\* What every step of the workers does: to the store what TaskStore allows, to the
\* slots and the tool what keeps them as they should be, and a lease is renewed for the
\* slot that holds it.
LEMMA WorkerStep ==
  ASSUME Safe, WorkerInv, [WorkerNext]_workerVars
  PROVE  /\ [Next]_vars /\ WorkerInv'
         /\ \A t \in Tasks : Renews(t) => \E s \in Slots : OwnedBy(s, t)
<1>1. SlotsOK /\ stopping \in [Workers -> BOOLEAN] /\ ToolOK
  BY DEF WorkerInv
<1>2. ASSUME NEW s \in Slots, Calls(s), SlotsOK', stopping' = stopping, ToolOK'
      PROVE  /\ [Next]_vars /\ WorkerInv'
             /\ \A t \in Tasks : Renews(t) => \E r \in Slots : OwnedBy(r, t)
  BY <1>1, <1>2 DEF Calls, WorkerInv
<1>3. ASSUME UNCHANGED toolVars PROVE ToolOK'
  BY <1>1, <1>3 DEF ToolOK, toolVars
<1>4. ASSUME NEW s \in Slots, Claim(s)
      PROVE  Calls(s) /\ SlotsOK' /\ stopping' = stopping /\ UNCHANGED toolVars
  BY <1>1, <1>4, ClaimOK DEF Claim, StoreStep
<1>5. ASSUME NEW s \in Slots, Load(s) \/ ConfirmStart(s) \/ ConfirmFinish(s) \/ Return(s)
      PROVE  Calls(s) /\ SlotsOK' /\ stopping' = stopping /\ UNCHANGED toolVars
  <2>1. stopping' = stopping /\ UNCHANGED toolVars
    BY <1>5 DEF Load, ConfirmStart, ConfirmFinish, Return, LocalStep
  <2>. QED  BY <1>1, <1>5, <2>1, LoadOK, ConfirmStartOK, ConfirmFinishOK, ReturnOK
<1>6. ASSUME NEW s \in Slots, AskApproval(s) \/ Start(s)
      PROVE  Calls(s) /\ SlotsOK' /\ stopping' = stopping /\ UNCHANGED toolVars
  <2>1. stopping' = stopping /\ UNCHANGED toolVars
    BY <1>6 DEF AskApproval, Start, LocalStep, StoreStep
  <2>. QED  BY <1>1, <1>6, <2>1, AskApprovalOK, StartOK
<1>7. ASSUME NEW s \in Slots, Finish(s) \/ timeoutClaim(s) \/ cancelClaim(s)
      PROVE  Calls(s) /\ SlotsOK' /\ stopping' = stopping /\ UNCHANGED toolVars
  <2>1. stopping' = stopping /\ UNCHANGED toolVars
    BY <1>7 DEF Finish, timeoutClaim, cancelClaim, LocalStep, StoreStep
  <2>. QED  BY <1>1, <1>7, <2>1, FinishOK, ControlClaimOK
<1>8. ASSUME NEW s \in Slots, MonitorStep(s) \/ ContextExpires(s)
      PROVE  Calls(s) /\ SlotsOK' /\ stopping' = stopping /\ UNCHANGED toolVars
  <2>1. stopping' = stopping /\ UNCHANGED toolVars
    BY <1>8 DEF MonitorStep, Heartbeat, MonitorNotices, MonitorFails, MonitorCancels, MonitorEnds,
                ContextExpires, LocalStep, StoreStep
  <2>. QED  BY <1>1, <1>8, <2>1, HeartbeatOK, MonitorStops, MonitorCancelsOK, ContextExpiresOK
            DEF MonitorStep
<1>9. ASSUME NEW s \in Slots, CallTool(s)
      PROVE  Calls(s) /\ SlotsOK' /\ stopping' = stopping /\ ToolOK'
  BY <1>1, <1>9, CallToolOK, CallToolRequest DEF CallTool
<1>10. ASSUME NEW s \in Slots, ExecutionEnds(s)
       PROVE  Calls(s) /\ SlotsOK' /\ stopping' = stopping /\ ToolOK'
  <2>1. ASSUME NEW ctxErr \in {NULL} \cup ContextErrors(slots[s]), ExecuteLocally(s, ctxErr)
        PROVE  Calls(s) /\ SlotsOK' /\ stopping' = stopping /\ ToolOK'
    <3>1. stopping' = stopping /\ UNCHANGED toolVars
      BY <2>1 DEF ExecuteLocally, LocalStep
    <3>. QED  BY <1>1, <1>3, <2>1, <3>1, ExecuteLocallyOK
  <2>2. ASSUME ToolAnswers(s)
        PROVE  Calls(s) /\ SlotsOK' /\ stopping' = stopping /\ ToolOK'
    <3>1. stopping' = stopping /\ effects' = effects /\ \A r \in requests' : r \in requests
      BY <2>2 DEF ToolAnswers, Tool!Received
    <3>. QED  BY <1>1, <2>2, <3>1, ToolAnswersOK DEF ToolOK
  <2>3. ASSUME NEW err \in {"request failed"} \cup ContextErrors(slots[s]), GiveUpTool(s, err)
        PROVE  Calls(s) /\ SlotsOK' /\ stopping' = stopping /\ ToolOK'
    <3>1. stopping' = stopping /\ effects' = effects /\ requests' = Tool!Disconnected({s})
      BY <2>3 DEF GiveUpTool
    <3>2. ToolOK'
      BY <1>1, <3>1, DisconnectedOK DEF ToolOK
    <3>. QED  BY <1>1, <2>3, <3>1, <3>2, GiveUpToolOK
  <2>. QED  BY <1>10, <2>1, <2>2, <2>3 DEF ExecutionEnds
<1>11. CASE \E s \in Slots : \/ Claim(s) \/ SlotStep(s) \/ ExecutionEnds(s) \/ MonitorStep(s)
                             \/ ContextExpires(s)
  BY <1>2, <1>3, <1>4, <1>5, <1>6, <1>7, <1>8, <1>9, <1>10, <1>11 DEF SlotStep
<1>12. ASSUME UNCHANGED vars PROVE [Next]_vars /\ \A t \in Tasks : ~Renews(t) /\ ~Advances(t)
  BY <1>12 DEF vars, Renews, Advances
<1>13. CASE \E w \in Workers : Shutdown(w) \/ Restart(w) \/ Crash(w)
  <2>1. UNCHANGED vars /\ SlotsOK' /\ stopping' \in [Workers -> BOOLEAN]
    BY <1>1, <1>13, ProcessOK
  <2>2. ToolOK'
    <3>1. \/ UNCHANGED toolVars
          \/ effects' = effects /\ \E C : requests' = Tool!Disconnected(C)
      BY <1>13 DEF Shutdown, Restart, Crash
    <3>. QED  BY <1>1, <1>3, <3>1, DisconnectedOK DEF ToolOK
  <2>. QED  BY <1>12, <2>1, <2>2 DEF WorkerInv
<1>14. CASE ToolStep
  <2>1. ToolOK' /\ UNCHANGED <<vars, slots, stopping>>
    BY <1>1, <1>14, ToolStepOK DEF ToolStep
  <2>2. SlotsOK'
    BY <1>1, <1>12, <2>1, SlotsRest
  <2>. QED  BY <1>1, <1>12, <2>1, <2>2 DEF WorkerInv
<1>15. CASE Environment
  <2>1. /\ [Next]_vars /\ SlotsOK' /\ (\A t \in Tasks : ~Renews(t))
        /\ UNCHANGED <<slots, stopping, toolVars>>
    BY <1>1, <1>15, EnvironmentOK
  <2>. QED  BY <1>1, <1>3, <2>1 DEF WorkerInv
<1>16. CASE UNCHANGED workerVars
  <2>1. UNCHANGED vars /\ UNCHANGED slots /\ stopping' = stopping /\ UNCHANGED toolVars
    BY <1>16 DEF workerVars, vars, toolVars
  <2>2. SlotsOK'
    BY <1>1, <1>12, <2>1, SlotsRest
  <2>. QED  BY <1>1, <1>3, <1>12, <2>1, <2>2 DEF WorkerInv
<1>. QED  BY <1>11, <1>13, <1>14, <1>15, <1>16 DEF WorkerNext

\* What is known of the store stays known.
LEMMA NextSafe == Safe /\ [Next]_vars => Safe'
BY NextIInv, NextBlank, NextLogInv, NextStoreInv DEF Safe

\* The slots are idle, and the tool knows nothing.
LEMMA WorkerInitInv == WorkerInit => Safe /\ WorkerInv
<1> SUFFICES ASSUME WorkerInit PROVE Safe /\ WorkerInv
  OBVIOUS
<1>1. Init /\ slots = [s \in Slots |-> IdleSlot] /\ stopping = [w \in Workers |-> FALSE]
      /\ effects = {} /\ requests = {}
  BY DEF WorkerInit, Tool!ToolInit
<1>2. Safe
  BY <1>1, InitIInv, InitBlank, InitLogInv, InitStoreInv DEF Safe
<1>3. SlotsOK
  BY <1>1, IdleTyped DEF SlotsOK, SlotOK, Distinct
<1>4. ToolOK
  BY <1>1 DEF ToolOK
<1>5. stopping \in [Workers -> BOOLEAN]
  BY <1>1, Zenon
<1>. QED  BY <1>2, <1>3, <1>4, <1>5 DEF WorkerInv

\* What runSlot, executeClaim and monitorControl rely on holds in every state, whatever
\* fails, crashes or is taken over: a slot that still has its lease finds the task where
\* it left it, and no two slots have the same lease.
THEOREM WorkerInvariance == WorkerSpec => [](Safe /\ WorkerInv)
<1>1. Safe /\ WorkerInv /\ [WorkerNext]_workerVars => (Safe /\ WorkerInv)'
  BY WorkerStep, NextSafe
<1>. QED  BY <1>1, WorkerInitInv, PTL DEF WorkerSpec

\* Whatever the slots, their monitors and the faults do, they ask of the store nothing
\* that TaskStore does not allow the holder of a lease, so that every theorem about the
\* store holds for the store these workers use.
THEOREM WorkerImplementsStore == WorkerSpec => ImplementsStore
<1>1. WorkerInit => Init
  BY DEF WorkerInit
<1>2. Safe /\ WorkerInv /\ [WorkerNext]_workerVars => [Next]_vars
  BY WorkerStep
<1>. QED  BY <1>1, <1>2, WorkerInvariance, PTL DEF WorkerSpec, ImplementsStore, Spec

\* Slots, requests and effects are of their types, and an idle slot has no monitor.
THEOREM WorkerTypeCorrect == WorkerSpec => []WorkerTypeOK
<1>1. WorkerInv => WorkerTypeOK
  <2> SUFFICES ASSUME WorkerInv PROVE WorkerTypeOK
    OBVIOUS
  <2>1. slots \in [Slots -> Slot]
    BY DEF WorkerInv, SlotsOK, SlotOK, Typed
  <2>2. ASSUME NEW r \in requests
        PROVE  [client |-> r.client, key |-> r.key, payload |-> r.payload,
                connected |-> r.connected] \in Tool!Request
    <3>1. r.client \in Slots /\ r.key \in Keys /\ r.payload \in Value /\ r.connected \in BOOLEAN
      BY <2>2 DEF WorkerInv, ToolOK, RequestOK
    <3>. QED  BY <3>1, Zenon DEF Tool!Request
  <2>3. \A s \in Slots : slots[s].pc = "idle" => slots[s].monitor = "done"
    BY DEF WorkerInv, SlotsOK, SlotOK, Typed
  <2>. QED  BY <2>1, <2>2, <2>3 DEF WorkerInv, ToolOK, EffectRowOK, WorkerTypeOK, Tool!ToolTypeOK
<1>. QED  BY <1>1, WorkerInvariance, PTL

\* StartStep, WaitForApproval and FinishStep never answer ErrConflict to a worker whose
\* lease is still good: the step that LoadTask read is current and can be started, and
\* the attempt that was executed is the one that runs.
THEOREM OwnerMeetsNoConflictCorrect == WorkerSpec => []OwnerMeetsNoConflict
<1>1. Safe /\ WorkerInv => OwnerMeetsNoConflict
  <2> SUFFICES ASSUME Safe, WorkerInv, NEW s \in Slots, slots[s].pc \in {"act", "finish"},
                      validateOwnership(slots[s].lease) = "nil"
               PROVE  LET slot == slots[s]
                          t == slot.lease.task
                      IN  /\ slot.step = tasks[t].current_step
                          /\ slot.pc = "act" =>
                               /\ Startable(steps[t][slot.step])
                               /\ PredecessorsSucceeded(t, slot.step)
                          /\ slot.pc = "finish" =>
                               /\ steps[t][slot.step].status = "RUNNING"
                               /\ steps[t][slot.step].attempt = slot.attempt
    BY DEF OwnerMeetsNoConflict
  <2> DEFINE slot == slots[s]
             t == slot.lease.task
             row == tasks[t]
             st == steps[t]
             i == row.current_step
  <2>1. t \in Tasks /\ IInv /\ Knows(slot, row, st, events[t])
    BY SlotFacts DEF Safe, WorkerInv
  <2>2. Holder(slot.lease, row)
    BY <2>1, OwnerActive DEF Active, Holder
  <2>3. Owns(slot, row, st)
    BY <2>1, <2>2 DEF Knows
  <2>4. st \in Seq(StepRow) /\ Cursor(row, st) /\ i \in DOMAIN st /\ Fits(st[i], "RUNNING")
    BY <2>1, <2>2, TaskFacts DEF Holder, Coherent, CanGoOn, LiveStatus
  <2>5. slot.step = i
    BY <2>3 DEF Owns, Runs
  <2>6. CASE slot.pc = "act"
    <3>1. Startable(st[i])
      BY <2>3, <2>4, <2>6 DEF Owns, Fits, InFlight
    <3>2. PredecessorsSucceeded(t, i)
      <4>1. ASSUME NEW j \in 1..(i - 1) PROVE st[j].status = "SUCCEEDED"
        <5>1. i \in Nat /\ DOMAIN st = 1..Len(st) /\ Len(st) \in Nat
          BY <2>4
        <5> HIDE DEF i, st
        <5>2. j \in DOMAIN st /\ j < i
          BY <2>4, <5>1
        <5>. QED  BY <2>4, <5>2 DEF Cursor, i
      <4>. QED  BY <4>1 DEF PredecessorsSucceeded
    <3>. QED  BY <2>5, <2>6, <3>1, <3>2
  <2>7. CASE slot.pc = "finish"
    BY <2>3, <2>5, <2>7 DEF Owns, Runs
  <2>. QED  BY <2>6, <2>7
<1>. QED  BY <1>1, WorkerInvariance, PTL

\* commitWithFactCheck does not take another's write for its own: when it finds its finish
\* persisted, the log has the success or the failure that the slot reports, for its attempt
\* and under its lease, before any LEASE_EXPIRED of that lease.  So it is the slot's own
\* transaction that has committed, and not a takeover that failed the attempt in the slot's
\* name, a later attempt or the end of the task.
THEOREM ConfirmedFinishIsOwnCorrect == WorkerSpec => []ConfirmedFinishIsOwn
<1>1. Safe /\ WorkerInv => ConfirmedFinishIsOwn
  <2> SUFFICES ASSUME Safe, WorkerInv, NEW s \in Slots, slots[s].pc = "confirmFinish",
                      stepFinishPersisted(slots[s].lease.task,
                        [step |-> slots[s].step, attempt |-> slots[s].attempt], slots[s].outcome)
               PROVE  FinishLogged(slots[s], events[slots[s].lease.task],
                        IF Limited(slots[s].outcome).error = NULL THEN "STEP_SUCCEEDED"
                                                                  ELSE "STEP_FAILED")
    BY DEF ConfirmedFinishIsOwn
  <2> DEFINE slot == slots[s]
             t == slot.lease.task
             row == tasks[t]
             st == steps[t]
             i == slot.step
             a == [step |-> i, attempt |-> slot.attempt]
             limited == Limited(slot.outcome)
  <2>1. /\ t \in Tasks /\ FinishSeen(slot, row, st, events[t])
        /\ slot.outcome \in Outcomes /\ i \in DOMAIN st /\ st[i].attempt \in Nat
    <3>1. Typed(slot) /\ t \in Tasks /\ Knows(slot, row, st, events[t])
      BY SlotFacts DEF Safe, WorkerInv
    <3>2. slot.outcome \in Outcomes /\ i \in DOMAIN st /\ FinishSeen(slot, row, st, events[t])
      BY <3>1 DEF Typed, Knows, HasStep, Finishes
    <3>3. st \in Seq(StepRow)
      BY <3>1 DEF Safe, IInv, TypeOK
    <3>4. st[i] \in StepRow
      BY <3>2, <3>3
    <3>. QED  BY <3>1, <3>2, <3>4 DEF StepRow
  <2>2. /\ st[i].attempt = slot.attempt
        /\ \/ limited.error = NULL /\ st[i].status = "SUCCEEDED"
           \/ /\ limited.error # NULL
              /\ st[i].status = "FAILED" /\ st[i].error = limited.error
              /\ row.status \in {"RETRY_WAIT", "FAILED"}
    <3>1. a.step = i /\ a.attempt = slot.attempt
      OBVIOUS
    <3>. QED  BY <3>1 DEF stepFinishPersisted, FinishWritten
  <2>3. limited.error # NULL => limited.error # "worker_lost"
    BY <2>1, LimitedError
  <2>4. ~Runs(slot, row, st) /\ ~Later(slot, st)
    BY <2>1, <2>2 DEF Runs, Later
  <2> HIDE DEF limited
  <2>5. CASE limited.error = NULL
    BY <2>1, <2>2, <2>4, <2>5 DEF FinishSeen, Failed, limited
  <2>6. CASE limited.error # NULL
    BY <2>1, <2>2, <2>3, <2>4, <2>6 DEF FinishSeen, Failed, limited
  <2>. QED  BY <2>5, <2>6
<1>. QED  BY <1>1, WorkerInvariance, PTL

\* A lease is renewed only for a slot that works on the claim.  monitorControl ends
\* before executeClaim returns, and a lost or superseded lease cannot be renewed, so that
\* a task that nobody works on can be taken over once its lease has expired.
THEOREM OnlyHeldClaimsAreRenewedCorrect == WorkerSpec => OnlyHeldClaimsAreRenewed
<1>1. Safe /\ WorkerInv /\ [WorkerNext]_workerVars =>
        [\A t \in Tasks :
           (/\ tasks[t].status = "RUNNING" /\ tasks'[t].status = "RUNNING"
            /\ tasks'[t].lease_version = tasks[t].lease_version
            /\ tasks'[t].lease_expires_at # tasks[t].lease_expires_at) =>
              \E s \in Slots :
                /\ slots[s].pc # "idle"
                /\ slots[s].lease = [task |-> t, worker |-> tasks[t].worker_id,
                                     version |-> tasks[t].lease_version]]_workerVars
  <2> SUFFICES ASSUME Safe, WorkerInv, [WorkerNext]_workerVars, NEW t \in Tasks, Renews(t)
               PROVE  \E s \in Slots :
                        /\ slots[s].pc # "idle"
                        /\ slots[s].lease = [task |-> t, worker |-> tasks[t].worker_id,
                                             version |-> tasks[t].lease_version]
    BY DEF Renews, SameClaim
  <2>1. PICK s \in Slots : OwnedBy(s, t)
    BY WorkerStep
  <2>2. slots[s].pc # "idle" /\ slots[s].lease.task = t /\ Holder(slots[s].lease, tasks[t])
    BY <2>1 DEF OwnedBy
  <2>3. slots[s].lease \in Lease
    BY <2>2, SlotFacts DEF Safe, WorkerInv
  <2>. QED  BY <2>2, <2>3 DEF Lease, Holder
<1>. QED  BY <1>1, WorkerInvariance, PTL DEF WorkerSpec, OnlyHeldClaimsAreRenewed

=============================================================================
