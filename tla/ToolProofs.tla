------------------------------ MODULE ToolProofs ------------------------------
(***************************************************************************)
(* Why executing a step at least once has one effect.  Whatever is on its  *)
(* way to the fake tool, or in its ledger, carries the input that the step *)
(* of its key persisted when it was started; that input never changes, so  *)
(* that every attempt, of every owner, sends the same payload under the    *)
(* same key.  A response of 200 follows its row in the ledger, and only a  *)
(* slot that has read one reports a tool step as succeeded.                *)
(***************************************************************************)
EXTENDS WorkerProofs, FiniteSetTheorems

\* The step that a key names was started with this payload.
Backed(key, payload, ss) ==
  LET st == ss[key[1]]
      i == key[2]
  IN  /\ key[1] \in Tasks /\ i \in DOMAIN st
      /\ st[i].type = "fake_tool" /\ st[i].attempt > 0
      /\ payload # NULL /\ st[i].resolved_input = payload

\* The ledger has a result for a key.
HasRow(key, result, fx) == \E row \in fx : row.key = key /\ row.result = result

\* The slot that waits for a response waits for that of its own step.
Awaits(slot, r) ==
  slot.pc = "await" /\ r.key = <<slot.lease.task, slot.step>> /\ r.payload = slot.input

\* A request is for a step that was started, and a response is the ledger's.
Justified(r, ts, ss, fx) ==
  /\ Backed(r.key, r.payload, ss)
  /\ r.connected => Awaits(ts[r.client], r)
  /\ r.response # NULL /\ r.response.status = 200 => HasRow(r.key, r.response.body, fx)

\* What a slot is about to report of a tool step is what the ledger has.
Reported(slot, ss, fx) ==
  LET t == slot.lease.task
      i == slot.step
  IN  /\ slot.pc \in {"finish", "confirmFinish"}
      /\ ss[t][i].type = "fake_tool" /\ slot.outcome.error = NULL
      => HasRow(<<t, i>>, slot.outcome.output, fx)

Ledger ==
  /\ \A row \in effects : Backed(row.key, row.payload, steps)
  /\ \A a, b \in effects : a.key = b.key => a = b

Requested == \A r \in requests : Justified(r, slots, steps, effects)

Told == \A s \in Slots : Reported(slots[s], steps, effects)

\* What succeeded is in the ledger.
Earned ==
  \A t \in Tasks : \A i \in DOMAIN steps[t] :
    steps[t][i].type = "fake_tool" /\ steps[t][i].status = "SUCCEEDED" =>
      HasRow(<<t, i>>, steps[t][i].output, effects)

ToolInv == Ledger /\ Requested /\ Told /\ Earned

-----------------------------------------------------------------------------
(* Only FinishStep lets a tool step succeed. *)

NoSuccess ==
  \A t \in Tasks : \A i \in DOMAIN steps'[t] :
    steps'[t][i].type = "fake_tool" /\ steps'[t][i].status = "SUCCEEDED" =>
      i \in DOMAIN steps[t] /\ steps'[t][i] = steps[t][i]

\* A transaction that writes one step, and not as a tool's success.
LEMMA WritesNoSuccess ==
  ASSUME IInv, NEW t \in Tasks, NEW row, NEW st, NEW log, Commit(t, row, st, log),
         \/ st = steps[t]
         \/ \E i \in DOMAIN steps[t] : \E s :
              /\ st = [steps[t] EXCEPT ![i] = s]
              /\ s.status # "SUCCEEDED" \/ s.type # "fake_tool"
         \/ \A i \in DOMAIN st : st[i].status # "SUCCEEDED"
  PROVE  NoSuccess
<1>1. steps'[t] = st /\ \A u \in Tasks : u # t => steps'[u] = steps[u]
  BY CommitFrame DEF OnlyTask
<1>2. steps[t] \in Seq(StepRow)
  BY TaskFacts
<1>3. ASSUME NEW i \in DOMAIN steps[t], NEW s, st = [steps[t] EXCEPT ![i] = s]
      PROVE  /\ DOMAIN st = DOMAIN steps[t] /\ st[i] = s
             /\ \A j \in DOMAIN st : j # i => st[j] = steps[t][j]
  BY <1>2, <1>3
<1>4. ASSUME NEW i \in DOMAIN st, st[i].type = "fake_tool", st[i].status = "SUCCEEDED"
      PROVE  i \in DOMAIN steps[t] /\ st[i] = steps[t][i]
  BY <1>3, <1>4
<1>. QED  BY <1>1, <1>4 DEF NoSuccess

\* Nothing is written.
LEMMA RestNoSuccess == steps' = steps => NoSuccess
BY DEF NoSuccess

\* finishControlledTask fails the step.
LEMMA ControlNoSuccess ==
  ASSUME IInv, NEW t \in Tasks, NEW outcome, finishControlledTask(t, outcome)
  PROVE  NoSuccess
<1> DEFINE c == tasks[t].current_step
           s == [steps[t][c] EXCEPT !.status = "FAILED", !.output = NULL, !.error = outcome.reason]
           row == [Released(tasks[t], outcome.status) EXCEPT !.retry_at = NULL]
<1>1. PICK st, log : /\ Commit(t, row, st, log)
                     /\ \/ st = steps[t]
                        \/ HasCurrentStep(t) /\ st = [steps[t] EXCEPT ![c] = s]
  BY DEF finishControlledTask
<1>2. ASSUME HasCurrentStep(t)
      PROVE  c \in DOMAIN steps[t] /\ s.status # "SUCCEEDED"
  <2>1. c \in DOMAIN steps[t] /\ steps[t] \in Seq(StepRow)
    BY <1>2, TaskFacts DEF HasCurrentStep
  <2>2. steps[t][c] \in StepRow
    BY <2>1
  <2>. QED  BY <2>1, <2>2 DEF StepRow
<1> HIDE DEF s, row, c
<1>3. \/ st = steps[t]
      \/ \E i \in DOMAIN steps[t] : \E new :
           /\ st = [steps[t] EXCEPT ![i] = new]
           /\ new.status # "SUCCEEDED" \/ new.type # "fake_tool"
  BY <1>1, <1>2
<1>4. Commit(t, row, st, log)
  BY <1>1
<1>. QED  BY <1>3, <1>4, WritesNoSuccess

\* A claim fails the step that it finds running.
LEMMA ClaimNoSuccess ==
  ASSUME IInv, NEW t \in Tasks, NEW w \in Workers, ClaimTask(w, t)
  PROVE  NoSuccess
<1> DEFINE c == tasks[t].current_step
           s == [steps[t][c] EXCEPT !.status = "FAILED", !.error = "worker_lost"]
<1>1. PICK row, st, log : /\ Commit(t, row, st, log)
                          /\ st = steps[t] \/ st = AbandonedSteps(t)
  BY DEF ClaimTask, ClaimRunnable, ClaimExpired, ConvergeExpired
<1>2. st = steps[t] \/ (HasCurrentStep(t) /\ st = [steps[t] EXCEPT ![c] = s])
  BY <1>1 DEF AbandonedSteps, Abandoned
<1>3. ASSUME HasCurrentStep(t)
      PROVE  c \in DOMAIN steps[t] /\ s.status # "SUCCEEDED"
  <2>1. c \in DOMAIN steps[t] /\ steps[t] \in Seq(StepRow)
    BY <1>3, TaskFacts DEF HasCurrentStep
  <2>2. steps[t][c] \in StepRow
    BY <2>1
  <2>. QED  BY <2>1, <2>2 DEF StepRow
<1> HIDE DEF s, c
<1>4. \/ st = steps[t]
      \/ \E i \in DOMAIN steps[t] : \E new :
           /\ st = [steps[t] EXCEPT ![i] = new]
           /\ new.status # "SUCCEEDED" \/ new.type # "fake_tool"
  BY <1>2, <1>3
<1>5. Commit(t, row, st, log)
  BY <1>1
<1>. QED  BY <1>4, <1>5, WritesNoSuccess

\* An approval step is no tool step.
LEMMA DecideNoSuccess ==
  ASSUME IInv, NEW t \in Tasks, NEW i \in DOMAIN steps[t], Approve(t, i) \/ Reject(t, i)
  PROVE  NoSuccess
<1> DEFINE a == [steps[t][i] EXCEPT !.approval_decision = "approved", !.status = "SUCCEEDED",
                                    !.error = NULL]
           b == [steps[t][i] EXCEPT !.approval_decision = "rejected", !.status = "FAILED",
                                    !.error = "approval_rejected"]
<1>1. PICK row, st, log :
        /\ Commit(t, row, st, log)
        /\ st = [steps[t] EXCEPT ![i] = a] \/ st = [steps[t] EXCEPT ![i] = b]
  BY DEF Approve, Reject
<1>2. steps[t][i].type = "approval" /\ steps[t][i] \in StepRow
  BY TaskFacts DEF Approve, Reject, Decidable
<1>3. a.type # "fake_tool" /\ b.type # "fake_tool"
  BY <1>2 DEF StepRow
<1> HIDE DEF a, b
<1>4. \E s : st = [steps[t] EXCEPT ![i] = s] /\ (s.status # "SUCCEEDED" \/ s.type # "fake_tool")
  BY <1>1, <1>3
<1>5. Commit(t, row, st, log)
  BY <1>1
<1>. QED  BY <1>4, <1>5, WritesNoSuccess

\* Clients and schedulers.
LEMMA EnvironmentNoSuccess ==
  ASSUME IInv, NEW t \in Tasks, ClientStep(t) \/ ProcessDueControl(t)
  PROVE  NoSuccess
<1>1. ASSUME NEW d \in Definitions, CreateTask(t, d) PROVE NoSuccess
  <2>1. PICK row, log : Commit(t, row, [i \in DOMAIN d.steps |-> NewStep(d.steps[i])], log)
    BY <1>1 DEF CreateTask
  <2> DEFINE st == [i \in DOMAIN d.steps |-> NewStep(d.steps[i])]
  <2>2. \A i \in DOMAIN st : st[i].status # "SUCCEEDED"
    BY DEF NewStep
  <2> HIDE DEF st
  <2>3. Commit(t, row, st, log)
    BY <2>1 DEF st
  <2>. QED  BY <2>2, <2>3, WritesNoSuccess
<1>2. ASSUME RequestCancel(t) PROVE NoSuccess
  <2>1. \E row, log : Commit(t, row, steps[t], log)
    BY <1>2 DEF RequestCancel
  <2>. QED  BY <2>1, WritesNoSuccess
<1>3. ASSUME CancelSynchronously(t) PROVE NoSuccess
  BY <1>3, ControlNoSuccess DEF CancelSynchronously
<1>4. ASSUME ProcessDueControl(t) PROVE NoSuccess
  <2>1. CASE finishControlledTask(t, cancelledOutcome) \/ finishControlledTask(t, timedOutOutcome)
    BY <2>1, ControlNoSuccess
  <2>2. CASE wakeRetryTask(t) \/ wakeScheduledTask(t)
    <3>1. \E row, log : Commit(t, row, steps[t], log)
      BY <2>2 DEF wakeRetryTask, wakeScheduledTask
    <3>. QED  BY <3>1, WritesNoSuccess
  <2>. QED  BY <1>4, <2>1, <2>2 DEF ProcessDueControl
<1>. QED  BY <1>1, <1>2, <1>3, <1>4, DecideNoSuccess DEF ClientStep

\* An owner's calls, but for a FinishStep that succeeds.
LEMMA OwnerNoSuccess ==
  ASSUME IInv, NEW lease, lease.task \in Tasks, NEW i, NEW n, NEW outcome,
         \/ RenewLease(lease) \/ StartStep(lease, i) \/ WaitForApproval(lease, i)
         \/ FinishStepFailed(lease, [step |-> i, attempt |-> n], outcome)
         \/ TimeoutOwnedTask(lease) \/ CancelOwnedTask(lease)
  PROVE  NoSuccess
<1> DEFINE t == lease.task
           Writes(s) == \E row, log : Commit(t, row, [steps[t] EXCEPT ![i] = s], log)
<1>1. CASE RenewLease(lease)
  <2>1. \E row, log : Commit(t, row, steps[t], log)
    BY <1>1 DEF RenewLease
  <2>. QED  BY <2>1, WritesNoSuccess
<1>2. CASE TimeoutOwnedTask(lease) \/ CancelOwnedTask(lease)
  BY <1>2, ControlNoSuccess DEF TimeoutOwnedTask, CancelOwnedTask
<1>3. ASSUME validateOwnership(lease) = "nil", i = tasks[t].current_step
      PROVE  i \in DOMAIN steps[t] /\ steps[t][i] \in StepRow
  BY <1>3, OwnerActive, TaskFacts DEF Active, LiveStatus, CurrentStep
<1>4. ASSUME i \in DOMAIN steps[t], NEW s, Writes(s), s.status # "SUCCEEDED" PROVE NoSuccess
  <2>1. PICK row, log : Commit(t, row, [steps[t] EXCEPT ![i] = s], log)
    BY <1>4
  <2> DEFINE st == [steps[t] EXCEPT ![i] = s]
  <2>2. \E j \in DOMAIN steps[t] : \E r :
          st = [steps[t] EXCEPT ![j] = r] /\ (r.status # "SUCCEEDED" \/ r.type # "fake_tool")
    BY <1>4
  <2>3. Commit(t, row, st, log)
    BY <2>1
  <2> HIDE DEF st
  <2>. QED  BY <2>2, <2>3, WritesNoSuccess
<1>5. CASE StartStep(lease, i)
  <2> DEFINE s == Started(steps[t][i], ResolveInput(t, i))
  <2>1. i \in DOMAIN steps[t] /\ steps[t][i] \in StepRow /\ Writes(s)
    BY <1>3, <1>5 DEF StartStep, StartAllowed
  <2>2. s.status # "SUCCEEDED"
    BY <2>1 DEF Started, StepRow
  <2> HIDE DEF s, Writes
  <2>. QED  BY <1>4, <2>1, <2>2
<1>6. CASE WaitForApproval(lease, i)
  <2> DEFINE s == [steps[t][i] EXCEPT !.status = "WAITING_APPROVAL",
                                      !.resolved_input = ResolveInput(t, i), !.error = NULL]
  <2>1. i \in DOMAIN steps[t] /\ steps[t][i] \in StepRow /\ Writes(s)
    BY <1>3, <1>6 DEF WaitForApproval
  <2>2. s.status # "SUCCEEDED"
    BY <2>1 DEF StepRow
  <2> HIDE DEF s, Writes
  <2>. QED  BY <1>4, <2>1, <2>2
<1>7. CASE FinishStepFailed(lease, [step |-> i, attempt |-> n], outcome)
  <2> DEFINE s == [steps[t][i] EXCEPT !.status = "FAILED", !.output = NULL,
                                      !.error = Limited(outcome).error]
             a == [step |-> i, attempt |-> n]
  <2>1. a.step = i
    OBVIOUS
  <2>2. Finishable(lease, a) /\ Writes(s)
    BY <1>7, <2>1 DEF FinishStepFailed
  <2>3. i \in DOMAIN steps[t] /\ steps[t][i] \in StepRow
    BY <1>3, <2>1, <2>2 DEF Finishable
  <2>4. s.status # "SUCCEEDED"
    BY <2>3 DEF StepRow
  <2> HIDE DEF s, Writes
  <2>. QED  BY <1>4, <2>2, <2>3, <2>4
<1>. QED  BY <1>1, <1>2, <1>5, <1>6, <1>7

-----------------------------------------------------------------------------
(* What is kept. *)

\* A step that was started keeps its input.
LEMMA BackedKept ==
  ASSUME Safe, [Next]_vars, NEW key, NEW payload, Backed(key, payload, steps)
  PROVE  Backed(key, payload, steps')
<1> DEFINE t == key[1]
           i == key[2]
<1>1. /\ t \in Tasks /\ i \in DOMAIN steps[t] /\ payload # NULL
      /\ steps[t][i].type = "fake_tool" /\ steps[t][i].attempt > 0
      /\ steps[t][i].resolved_input = payload
  BY DEF Backed
<1>2. IInv /\ Blank
  BY DEF Safe
<1>3. /\ i \in DOMAIN steps'[t] /\ steps'[t][i].type = "fake_tool" /\ steps'[t][i].attempt > 0
      /\ steps'[t][i].resolved_input = payload
  BY <1>1, <1>2, StepsKept
<1>. QED  BY <1>1, <1>3 DEF Backed

LEMMA LedgerKept ==
  ASSUME Safe, [Next]_vars, Ledger, effects' = effects
  PROVE  Ledger'
BY BackedKept DEF Ledger

LEMMA EarnedKept ==
  ASSUME Earned, NoSuccess, \A row \in effects : row \in effects'
  PROVE  Earned'
BY DEF Earned, NoSuccess, HasRow

\* The request of a slot that goes on waiting, and a request that nobody waits for.
LEMMA JustifiedKept ==
  ASSUME Safe, [Next]_vars, NEW r, Justified(r, slots, steps, effects),
         \A row \in effects : row \in effects',
         r.connected => Awaits(slots'[r.client], r)
  PROVE  Justified(r, slots', steps', effects')
<1>1. Backed(r.key, r.payload, steps')
  BY BackedKept DEF Justified
<1>. QED  BY <1>1 DEF Justified, HasRow

\* What a slot is about to report stays true.
LEMMA ReportKept ==
  ASSUME Safe, [Next]_vars, NEW slot, SlotOK(slot, tasks, steps, events),
         Reported(slot, steps, effects), \A row \in effects : row \in effects',
         NEW new, new.lease = slot.lease, new.step = slot.step, new.outcome = slot.outcome,
         new.pc \in {"finish", "confirmFinish"} => slot.pc \in {"finish", "confirmFinish"}
  PROVE  Reported(new, steps', effects')
<1> DEFINE t == slot.lease.task
           i == slot.step
<1> SUFFICES ASSUME slot.pc \in {"finish", "confirmFinish"}, steps'[t][i].type = "fake_tool",
                    slot.outcome.error = NULL
             PROVE  HasRow(<<t, i>>, slot.outcome.output, effects')
  BY DEF Reported
<1>1. t \in Tasks /\ i \in DOMAIN steps[t]
  BY DEF SlotOK, Typed, Lease, Knows, HasStep
<1>2. steps'[t][i].type = steps[t][i].type
  BY <1>1, StepsKept DEF Safe
<1>3. HasRow(<<t, i>>, slot.outcome.output, effects)
  BY <1>2 DEF Reported
<1>. QED  BY <1>3 DEF HasRow

\* The slots say the truth if the one that moves does.
LEMMA ToldKept ==
  ASSUME Safe, SlotsOK, Told, [Next]_vars, \A row \in effects : row \in effects',
         NEW s \in Slots, NEW new, Become(s, new), Reported(new, steps', effects')
  PROVE  Told'
<1>1. slots'[s] = new /\ \A r \in Slots : r # s => slots'[r] = slots[r]
  BY DEF SlotsOK, Become
<1>2. ASSUME NEW r \in Slots, r # s PROVE Reported(slots[r], steps', effects')
  <2>1. SlotOK(slots[r], tasks, steps, events) /\ Reported(slots[r], steps, effects)
    BY DEF SlotsOK, Told
  <2>. QED  BY <2>1, ReportKept
<1>. QED  BY <1>1, <1>2 DEF Told

-----------------------------------------------------------------------------
(* The steps that leave the tool alone. *)

\* A slot goes on without the tool: it neither waits nor reports, or does both as before.
GoesOn(old, new) ==
  \/ old.pc # "await" /\ new.pc \notin {"await", "finish", "confirmFinish"}
  \/ /\ new.lease = old.lease /\ new.step = old.step
     /\ new.input = old.input /\ new.outcome = old.outcome
     /\ new.pc = old.pc \/ (old.pc = "finish" /\ new.pc = "confirmFinish")

LEMMA MovesKeep ==
  ASSUME Safe, SlotsOK, ToolOK, ToolInv, [Next]_vars, Earned', UNCHANGED toolVars,
         \A s \in Slots : GoesOn(slots[s], slots'[s])
  PROVE  ToolInv'
<1>1. effects' = effects /\ requests' = requests
  BY DEF toolVars
<1>2. Ledger'
  BY <1>1, LedgerKept DEF ToolInv
<1>3. Told'
  <2> SUFFICES ASSUME NEW s \in Slots PROVE Reported(slots'[s], steps', effects')
    BY DEF Told
  <2>1. SlotOK(slots[s], tasks, steps, events) /\ Reported(slots[s], steps, effects)
    BY DEF SlotsOK, ToolInv, Told
  <2>2. CASE slots'[s].pc \notin {"finish", "confirmFinish"}
    BY <2>2 DEF Reported
  <2>3. CASE slots'[s].pc \in {"finish", "confirmFinish"}
    <3>1. GoesOn(slots[s], slots'[s])
      OBVIOUS
    <3>2. /\ slots'[s].lease = slots[s].lease /\ slots'[s].step = slots[s].step
          /\ slots'[s].outcome = slots[s].outcome /\ slots[s].pc \in {"finish", "confirmFinish"}
      BY <2>3, <3>1 DEF GoesOn
    <3>. QED  BY <1>1, <2>1, <3>2, ReportKept
  <2>. QED  BY <2>2, <2>3
<1>4. Requested'
  <2> SUFFICES ASSUME NEW r \in requests PROVE Justified(r, slots', steps', effects')
    BY <1>1 DEF Requested
  <2>1. Justified(r, slots, steps, effects) /\ r.client \in Slots
    BY DEF ToolInv, Requested, ToolOK, RequestOK
  <2>2. GoesOn(slots[r.client], slots'[r.client])
    BY <2>1
  <2>3. r.connected => Awaits(slots'[r.client], r)
    BY <2>1, <2>2 DEF GoesOn, Awaits, Justified
  <2>. QED  BY <1>1, <2>1, <2>3, JustifiedKept
<1>. QED  BY <1>2, <1>3, <1>4 DEF ToolInv

\* A step of a slot that has nothing to do with the tool.
Moves(s) ==
  NoSuccess /\ UNCHANGED toolVars /\ \E new : Become(s, new) /\ GoesOn(slots[s], new)

LEMMA BecomeGoesOn ==
  ASSUME SlotsOK, NEW s \in Slots, NEW new, Become(s, new), GoesOn(slots[s], new)
  PROVE  \A r \in Slots : GoesOn(slots[r], slots'[r])
<1>1. slots'[s] = new /\ \A r \in Slots : r # s => slots'[r] = slots[r]
  BY DEF SlotsOK, Become
<1>2. ASSUME NEW slot PROVE GoesOn(slot, slot)
  BY DEF GoesOn
<1>. QED  BY <1>1, <1>2

LEMMA MovesOK ==
  ASSUME Safe, SlotsOK, ToolOK, ToolInv, [Next]_vars, NEW s \in Slots, Moves(s)
  PROVE  ToolInv'
<1>1. Earned'
  BY EarnedKept DEF Moves, ToolInv, toolVars
<1>2. \A r \in Slots : GoesOn(slots[r], slots'[r])
  BY BecomeGoesOn DEF Moves
<1>. QED  BY <1>1, <1>2, MovesKeep DEF Moves

\* Without a call on the store.
LEMMA LocalMoves ==
  ASSUME NEW s, NEW new, LocalStep(s, new), GoesOn(slots[s], new)
  PROVE  Moves(s)
BY RestNoSuccess DEF LocalStep, vars, Moves

\* With one.
LEMMA StoreMoves ==
  ASSUME NEW s, NEW new, StoreStep(s, new), NoSuccess, GoesOn(slots[s], new)
  PROVE  Moves(s)
BY DEF StoreStep, Moves

\* Giving up, and going on with the next step.
LEMMA EndingsGoOn ==
  ASSUME NEW slot, Typed(slot), slot.pc # "idle", slot.pc # "await"
  PROVE  /\ GoesOn(slot, Returning(slot)) /\ GoesOn(slot, Again(slot))
         /\ \A pc \in {"return", "timeout", "cancel"} : GoesOn(slot, At(slot, pc))
<1>1. ASSUME NEW pc \in {"return", "timeout", "cancel"} PROVE GoesOn(slot, At(slot, pc))
  <2>1. At(slot, pc).pc = pc
    BY AtFields
  <2>. QED  BY <2>1 DEF GoesOn
<1>2. At(slot, "return") = Returning(slot)
  BY DEF At
<1>3. GoesOn(slot, Returning(slot))
  BY <1>1, <1>2
<1>4. Again(slot).pc = "load"
  BY AgainFields
<1>5. GoesOn(slot, Again(slot))
  BY <1>4 DEF GoesOn
<1>. QED  BY <1>1, <1>3, <1>5

-----------------------------------------------------------------------------
(* The steps of a slot, its monitor and its context. *)

LEMMA ClaimMoves ==
  ASSUME Safe, NEW s \in Slots, Claim(s)
  PROVE  Moves(s)
<1>1. PICK t \in Tasks :
        /\ slots[s].pc = "idle" /\ ClaimTask(WorkerId(s), t)
        /\ StoreStep(s, Claimed(s, t)) \/ StoreStep(s, slots[s])
  BY DEF Claim, ClaimTask
<1>2. NoSuccess
  BY <1>1, ClaimNoSuccess DEF Safe, Slots, WorkerId
<1>3. Claimed(s, t).pc = "load"
  BY DEF Claimed, IdleSlot
<1>4. GoesOn(slots[s], Claimed(s, t)) /\ GoesOn(slots[s], slots[s])
  BY <1>1, <1>3 DEF GoesOn
<1>. QED  BY <1>1, <1>2, <1>4, StoreMoves

LEMMA ReadMoves ==
  ASSUME Safe, SlotsOK, NEW s \in Slots, Load(s) \/ ConfirmStart(s) \/ Return(s)
  PROVE  Moves(s)
<1> DEFINE slot == slots[s]
           i == tasks[slot.lease.task].current_step
           acting == [slot EXCEPT !.pc = "act", !.step = i]
           starting == At(slot, "execute")
<1>1. slot.pc \in {"load", "confirmStart", "return"}
  BY DEF Load, ConfirmStart, Return
<1>2. Typed(slot) /\ slot \in Slot
  BY <1>1, SlotFacts DEF Safe
<1>3. acting.pc = "act" /\ starting.pc = "execute" /\ IdleSlot.pc = "idle"
  BY <1>2 DEF Slot, At, IdleSlot
<1>4. \/ LocalStep(s, Returning(slot)) \/ LocalStep(s, acting) \/ LocalStep(s, starting)
      \/ LocalStep(s, IdleSlot)
  BY DEF Load, ConfirmStart, Return
<1> HIDE DEF acting, starting
<1>5. /\ GoesOn(slot, acting) /\ GoesOn(slot, starting) /\ GoesOn(slot, IdleSlot)
      /\ GoesOn(slot, Returning(slot))
  BY <1>1, <1>2, <1>3, EndingsGoOn DEF GoesOn
<1>. QED  BY <1>4, <1>5, LocalMoves

LEMMA AskApprovalMoves ==
  ASSUME Safe, SlotsOK, NEW s \in Slots, AskApproval(s)
  PROVE  Moves(s)
<1> DEFINE slot == slots[s]
           next == IF slot.ctx = "expired" THEN "timeout" ELSE "return"
<1>1. /\ slot.pc = "act"
      /\ \/ WaitForApproval(slot.lease, slot.step) /\ StoreStep(s, At(slot, next))
         \/ LocalStep(s, At(slot, AfterWait(slot)))
         \/ LocalStep(s, At(slot, next))
  BY DEF AskApproval
<1>2. Typed(slot) /\ slot.lease.task \in Tasks
  BY <1>1, SlotFacts DEF Safe
<1>3. next \in {"return", "timeout", "cancel"}
  OBVIOUS
<1>4. AfterWait(slot) \in {"return", "timeout", "cancel"}
  BY Zenon DEF AfterWait
<1> HIDE DEF next
<1>5. GoesOn(slot, At(slot, next)) /\ GoesOn(slot, At(slot, AfterWait(slot)))
  BY <1>1, <1>2, <1>3, <1>4, EndingsGoOn
<1>6. ASSUME WaitForApproval(slot.lease, slot.step) PROVE NoSuccess
  BY <1>2, <1>6, OwnerNoSuccess DEF Safe
<1>. QED  BY <1>1, <1>5, <1>6, LocalMoves, StoreMoves

LEMMA StartMoves ==
  ASSUME Safe, SlotsOK, NEW s \in Slots, Start(s)
  PROVE  Moves(s)
<1> DEFINE slot == slots[s]
           t == slot.lease.task
           n == steps[t][slot.step].attempt + 1
           input == ResolveInput(t, slot.step)
           Holding(pc) == [slot EXCEPT !.pc = pc, !.attempt = n, !.input = input]
           a == Holding("execute")
           b == Holding("confirmStart")
<1>1. /\ slot.pc = "act"
      /\ \/ StartStep(slot.lease, slot.step) /\ (StoreStep(s, a) \/ StoreStep(s, b))
         \/ LocalStep(s, b)
         \/ LocalStep(s, Returning(slot))
  BY DEF Start
<1>2. Typed(slot) /\ slot.lease.task \in Tasks /\ slot \in Slot
  BY <1>1, SlotFacts DEF Safe
<1>3. a.pc = "execute" /\ b.pc = "confirmStart"
  BY <1>2 DEF Slot
<1> HIDE DEF a, b
<1>4. GoesOn(slot, a) /\ GoesOn(slot, b) /\ GoesOn(slot, Returning(slot))
  BY <1>1, <1>2, <1>3, EndingsGoOn DEF GoesOn
<1>5. ASSUME StartStep(slot.lease, slot.step) PROVE NoSuccess
  BY <1>2, <1>5, OwnerNoSuccess DEF Safe
<1>. QED  BY <1>1, <1>4, <1>5, LocalMoves, StoreMoves

LEMMA ControlMoves ==
  ASSUME Safe, SlotsOK, NEW s \in Slots, timeoutClaim(s) \/ cancelClaim(s) \/ ConfirmFinish(s)
  PROVE  Moves(s)
<1> DEFINE slot == slots[s]
<1>1. /\ slot.pc \in {"timeout", "cancel", "confirmFinish"}
      /\ \/ /\ TimeoutOwnedTask(slot.lease) \/ CancelOwnedTask(slot.lease)
            /\ StoreStep(s, Returning(slot))
         \/ LocalStep(s, At(slot, "cancel")) \/ LocalStep(s, Returning(slot))
         \/ LocalStep(s, Again(slot))
  BY DEF timeoutClaim, cancelClaim, ConfirmFinish, AfterFinish
<1>2. Typed(slot) /\ slot.lease.task \in Tasks
  BY <1>1, SlotFacts DEF Safe
<1>3. /\ GoesOn(slot, At(slot, "cancel")) /\ GoesOn(slot, Returning(slot))
      /\ GoesOn(slot, Again(slot))
  BY <1>1, <1>2, EndingsGoOn
<1>4. ASSUME TimeoutOwnedTask(slot.lease) \/ CancelOwnedTask(slot.lease) PROVE NoSuccess
  BY <1>2, <1>4, OwnerNoSuccess DEF Safe
<1>. QED  BY <1>1, <1>3, <1>4, LocalMoves, StoreMoves

LEMMA MonitorMoves ==
  ASSUME Safe, SlotsOK, NEW s \in Slots, MonitorStep(s) \/ ContextExpires(s)
  PROVE  Moves(s)
<1> DEFINE slot == slots[s]
           noticing == [slot EXCEPT !.monitor = "cancelling"]
           ended == [slot EXCEPT !.monitor = "done"]
           expired == [slot EXCEPT !.ctx = "expired"]
<1>1. slot.pc # "idle" /\ slot \in Slot /\ slot.lease.task \in Tasks
  <2>1. CASE slot.monitor # "done"
    BY <2>1, MonitorFacts
  <2>2. CASE slot.pc # "idle"
    BY <2>2, SlotFacts DEF Safe
  <2>. QED  BY <2>1, <2>2 DEF MonitorStep, Heartbeat, MonitorNotices, MonitorFails, MonitorCancels,
                              MonitorEnds, ContextExpires
<1>2. \/ RenewLease(slot.lease) /\ (StoreStep(s, slot) \/ StoreStep(s, Stopped(slot)))
      \/ CancelOwnedTask(slot.lease) /\ StoreStep(s, Stopped(slot))
      \/ LocalStep(s, Stopped(slot)) \/ LocalStep(s, noticing) \/ LocalStep(s, ended)
      \/ LocalStep(s, expired)
  BY DEF MonitorStep, Heartbeat, MonitorNotices, Noticed, MonitorFails, MonitorCancels, MonitorEnds,
         ContextExpires
<1>3. /\ noticing.lease = slot.lease /\ noticing.pc = slot.pc /\ noticing.step = slot.step
      /\ noticing.input = slot.input /\ noticing.outcome = slot.outcome
      /\ ended.lease = slot.lease /\ ended.pc = slot.pc /\ ended.step = slot.step
      /\ ended.input = slot.input /\ ended.outcome = slot.outcome
      /\ expired.lease = slot.lease /\ expired.pc = slot.pc /\ expired.step = slot.step
      /\ expired.input = slot.input /\ expired.outcome = slot.outcome
  BY <1>1 DEF Slot
<1> HIDE DEF noticing, ended, expired
<1>4. /\ GoesOn(slot, noticing) /\ GoesOn(slot, ended) /\ GoesOn(slot, expired)
      /\ GoesOn(slot, slot) /\ GoesOn(slot, Stopped(slot))
  BY <1>1, <1>3, StoppedFields DEF GoesOn
<1>5. ASSUME RenewLease(slot.lease) \/ CancelOwnedTask(slot.lease) PROVE NoSuccess
  BY <1>1, <1>5, OwnerNoSuccess DEF Safe
<1>. QED  BY <1>2, <1>4, <1>5, LocalMoves, StoreMoves

\* What ExecuteLocally reports is not about a tool step.
LEMMA ExecuteLocallyMoves ==
  ASSUME Safe, SlotsOK, ToolOK, ToolInv, [Next]_vars, NEW s \in Slots, NEW ctxErr,
         ExecuteLocally(s, ctxErr)
  PROVE  ToolInv'
<1> DEFINE slot == slots[s]
           result == Exec!Execute(StepType(slot), slot.attempt, DecodedInput(slot), NULL, ctxErr)
           outcome == OutcomeOf(result)
           new == [slot EXCEPT !.pc = "finish", !.input = NULL, !.outcome = outcome]
<1>1. /\ slot.pc = "execute" /\ StepType(slot) # "fake_tool"
      /\ LocalStep(s, Executed(slot, result))
  BY DEF ExecuteLocally
<1>2. Typed(slot) /\ slot \in Slot
  BY <1>1, SlotFacts DEF Safe
<1>3. LocalStep(s, At(slot, "timeout")) \/ LocalStep(s, Returning(slot)) \/ LocalStep(s, new)
  BY <1>1 DEF Executed
<1>4. CASE LocalStep(s, At(slot, "timeout")) \/ LocalStep(s, Returning(slot))
  <2>1. Moves(s)
    BY <1>1, <1>2, <1>4, EndingsGoOn, LocalMoves
  <2>. QED  BY <2>1, MovesOK
<1>5. CASE LocalStep(s, new)
  <2>1. steps' = steps /\ effects' = effects /\ requests' = requests /\ Become(s, new)
    BY <1>5 DEF LocalStep, vars, toolVars
  <2>2. new.pc = "finish" /\ new.lease = slot.lease /\ new.step = slot.step
    BY <1>2 DEF Slot
  <2> HIDE DEF new
  <2>3. Reported(new, steps', effects')
    BY <1>1, <2>1, <2>2 DEF Reported, StepType
  <2>4. Told' /\ Ledger' /\ Earned'
    BY <2>1, <2>3, ToldKept, LedgerKept, EarnedKept, RestNoSuccess DEF ToolInv
  <2>5. ASSUME NEW r \in requests PROVE Justified(r, slots', steps', effects')
    <3>1. Justified(r, slots, steps, effects) /\ r.client \in Slots
      BY DEF ToolInv, Requested, ToolOK, RequestOK
    <3>2. r.connected => r.client # s
      BY <1>1, <3>1 DEF Justified, Awaits
    <3>3. r.connected => slots'[r.client] = slots[r.client]
      BY <2>1, <3>1, <3>2 DEF Become, SlotsOK
    <3>. QED  BY <2>1, <3>1, <3>3, JustifiedKept DEF Justified
  <2>. QED  BY <2>1, <2>4, <2>5 DEF ToolInv, Requested
<1>. QED  BY <1>3, <1>4, <1>5

-----------------------------------------------------------------------------
(* The end of an attempt. *)

\* A result within the limits is a result.
LEMMA WithinLimits ==
  ASSUME NEW outcome \in Outcomes, Limited(outcome).error = NULL
  PROVE  outcome.error = NULL
<1>1. outcome.output \in Outputs
  BY LimitedType
<1>. QED  BY <1>1, NullAssumption DEF Outcomes

\* The step that succeeds has the output that the slot reports.
LEMMA FinishEarns ==
  ASSUME Safe, SlotsOK, ToolInv, NEW s \in Slots, slots[s].pc = "finish", effects' = effects,
         LET slot == slots[s]
         IN  FinishStepSucceeded(slot.lease, [step |-> slot.step, attempt |-> slot.attempt],
                                 slot.outcome)
  PROVE  Earned'
<1> DEFINE slot == slots[s]
           t == slot.lease.task
           i == slot.step
           a == [step |-> i, attempt |-> slot.attempt]
           outcome == slot.outcome
           done == [steps[t][i] EXCEPT !.status = "SUCCEEDED", !.output = outcome.output,
                                       !.error = NULL]
<1>1. t \in Tasks /\ Typed(slot) /\ Knows(slot, tasks[t], steps[t], events[t]) /\ IInv
  BY SlotFacts DEF Safe
<1>2. i \in DOMAIN steps[t] /\ outcome \in Outcomes
  BY <1>1 DEF Knows, HasStep, Typed
<1>3. a.step = i
  OBVIOUS
<1>4. /\ Limited(outcome).error = NULL
      /\ \E row, log : Commit(t, row, [steps[t] EXCEPT ![i] = done], log)
  BY <1>3 DEF FinishStepSucceeded
<1>5. steps[t] \in Seq(StepRow) /\ steps[t][i] \in StepRow
  BY <1>1, <1>2, TaskFacts
<1>6. done.type = steps[t][i].type /\ done.output = outcome.output
  BY <1>5 DEF StepRow
<1> HIDE DEF done
<1>7. /\ steps'[t] = [steps[t] EXCEPT ![i] = done]
      /\ \A u \in Tasks : u # t => steps'[u] = steps[u]
  BY <1>1, <1>4, CommitFrame DEF OnlyTask
<1>8. /\ DOMAIN steps'[t] = DOMAIN steps[t] /\ steps'[t][i] = done
      /\ \A j \in DOMAIN steps[t] : j # i => steps'[t][j] = steps[t][j]
  BY <1>2, <1>5, <1>7
<1>9. steps[t][i].type = "fake_tool" => HasRow(<<t, i>>, outcome.output, effects)
  BY <1>2, <1>4, WithinLimits DEF ToolInv, Told, Reported
<1>. QED  BY <1>6, <1>7, <1>8, <1>9 DEF Earned, ToolInv

LEMMA FinishKeeps ==
  ASSUME Safe, SlotsOK, ToolOK, ToolInv, [Next]_vars, NEW s \in Slots, Finish(s)
  PROVE  ToolInv'
<1> DEFINE slot == slots[s]
           a == [step |-> slot.step, attempt |-> slot.attempt]
           asking == At(slot, "confirmFinish")
<1>1. /\ slot.pc = "finish"
      /\ \/ /\ \/ FinishStepFailed(slot.lease, a, slot.outcome)
               \/ FinishStepSucceeded(slot.lease, a, slot.outcome)
            /\ StoreStep(s, AfterFinish(slot)) \/ StoreStep(s, asking)
         \/ LocalStep(s, asking) \/ LocalStep(s, At(slot, "timeout"))
         \/ LocalStep(s, Returning(slot))
  BY DEF Finish
<1>2. Typed(slot) /\ slot \in Slot /\ slot.lease.task \in Tasks
  BY <1>1, SlotFacts DEF Safe
<1>3. /\ asking.pc = "confirmFinish" /\ asking.lease = slot.lease /\ asking.step = slot.step
      /\ asking.input = slot.input /\ asking.outcome = slot.outcome
  BY <1>2 DEF At, Slot
<1> HIDE DEF asking
<1>4. /\ GoesOn(slot, asking) /\ GoesOn(slot, AfterFinish(slot))
      /\ GoesOn(slot, At(slot, "timeout")) /\ GoesOn(slot, Returning(slot))
  BY <1>1, <1>2, <1>3, EndingsGoOn DEF GoesOn, AfterFinish
<1>5. CASE FinishStepFailed(slot.lease, a, slot.outcome)
  <2>1. NoSuccess
    BY <1>2, <1>5, OwnerNoSuccess DEF Safe
  <2>2. Moves(s)
    BY <1>1, <1>4, <2>1, LocalMoves, StoreMoves
  <2>. QED  BY <2>2, MovesOK
<1>6. CASE LocalStep(s, asking) \/ LocalStep(s, At(slot, "timeout")) \/ LocalStep(s, Returning(slot))
  <2>1. Moves(s)
    BY <1>4, <1>6, LocalMoves
  <2>. QED  BY <2>1, MovesOK
<1>7. CASE /\ FinishStepSucceeded(slot.lease, a, slot.outcome)
           /\ StoreStep(s, AfterFinish(slot)) \/ StoreStep(s, asking)
  <2>1. UNCHANGED toolVars /\ (Become(s, AfterFinish(slot)) \/ Become(s, asking))
    BY <1>7 DEF StoreStep
  <2>2. Earned'
    BY <1>1, <1>7, <2>1, FinishEarns DEF toolVars
  <2>3. \A r \in Slots : GoesOn(slots[r], slots'[r])
    BY <1>4, <2>1, BecomeGoesOn
  <2>. QED  BY <2>1, <2>2, <2>3, MovesKeep
<1>. QED  BY <1>1, <1>5, <1>6, <1>7

-----------------------------------------------------------------------------
(* Calls of the tool. *)

\* The request of an attempt carries the input that the attempt was started with.
LEMMA CallToolKeeps ==
  ASSUME Safe, SlotsOK, ToolOK, ToolInv, [Next]_vars, NEW s \in Slots, CallTool(s)
  PROVE  ToolInv'
<1> DEFINE slot == slots[s]
           t == slot.lease.task
           i == slot.step
           key == <<t, i>>
           new == [client |-> s, key |-> key, payload |-> slot.input, connected |-> TRUE,
                   response |-> NULL]
           waiting == At(slot, "await")
<1>1. /\ slot.pc = "execute" /\ StepType(slot) = "fake_tool"
      /\ requests' = requests \cup {new} /\ effects' = effects
      /\ Become(s, waiting) /\ UNCHANGED vars
  BY DEF CallTool, Tool!Post, IdempotencyKey
<1>2. t \in Tasks /\ slot \in Slot /\ Knows(slot, tasks[t], steps[t], events[t])
  BY <1>1, SlotFacts DEF Safe
<1>3. /\ i \in DOMAIN steps[t] /\ slot.input # NULL /\ steps[t][i].type = "fake_tool"
      /\ steps[t][i].resolved_input = slot.input /\ steps[t][i].attempt > 0
  BY <1>1, <1>2 DEF Knows, HasStep, StepType
<1>4. /\ waiting.pc = "await" /\ waiting.lease = slot.lease /\ waiting.step = i
      /\ waiting.input = slot.input
  BY <1>2 DEF At, Slot
<1> HIDE DEF waiting
<1>5. steps' = steps
  BY <1>1 DEF vars
<1>6. key[1] = t /\ key[2] = i
  OBVIOUS
<1>7. Backed(key, slot.input, steps)
  BY <1>2, <1>3, <1>6 DEF Backed
<1>8. /\ new.client = s /\ new.key = key /\ new.payload = slot.input /\ new.response = NULL
  OBVIOUS
<1> HIDE DEF new
<1>9. slots'[s] = waiting /\ \A r \in Slots : r # s => slots'[r] = slots[r]
  BY <1>1 DEF SlotsOK, Become
<1>10. Justified(new, slots', steps', effects')
  BY <1>4, <1>5, <1>7, <1>8, <1>9 DEF Justified, Awaits
<1>11. ASSUME NEW r \in requests PROVE Justified(r, slots', steps', effects')
  <2>1. Justified(r, slots, steps, effects) /\ r.client \in Slots
    BY DEF ToolInv, Requested, ToolOK, RequestOK
  <2>2. r.connected => r.client # s
    BY <1>1, <2>1 DEF Justified, Awaits
  <2>3. r.connected => slots'[r.client] = slots[r.client]
    BY <1>9, <2>1, <2>2
  <2>. QED  BY <1>1, <2>1, <2>3, JustifiedKept DEF Justified
<1>12. Reported(waiting, steps', effects')
  BY <1>4 DEF Reported
<1>13. Told' /\ Ledger' /\ Earned'
  BY <1>1, <1>5, <1>12, ToldKept, LedgerKept, EarnedKept, RestNoSuccess DEF ToolInv
<1>. QED  BY <1>1, <1>10, <1>11, <1>13 DEF ToolInv, Requested

\* A failure is reported as one.
LEMMA FailureReported ==
  ASSUME NEW class \in {"temporary", "permanent", NULL}, NEW cause \in Exec!Causes
  PROVE  OutcomeOf(Exec!Fails(class, cause)).error # NULL
<1> DEFINE failure == [class |-> class, cause |-> cause]
           result == Exec!Fails(class, cause)
<1>1. failure \in Exec!Failure /\ result.err = failure
  BY DEF Exec!Failure, Exec!Fails
<1>2. failure # NULL
  BY <1>1, NilAssumption
<1>3. "execution_failed" # NULL
  BY NullAssumption DEF Errors
<1> HIDE DEF failure, result
<1>4. OutcomeOf(result).error = "execution_failed"
  BY <1>1, <1>2 DEF OutcomeOf
<1>. QED  BY <1>3, <1>4 DEF result

\* A request that has no response has failed.
LEMMA NoResponseFails ==
  ASSUME NEW err \in Exec!Causes, NEW n, NEW input
  PROVE  OutcomeOf(Exec!Execute("fake_tool", n, input, NULL, err)).error # NULL
<1>1. Exec!Execute("fake_tool", n, input, NULL, err) = Exec!Fails("temporary", err)
  BY DEF Exec!Execute, Exec!executeFakeTool
<1>. QED  BY <1>1, FailureReported

\* An execution of a tool step that has a result has read a response of 200.
LEMMA ToolSucceeds ==
  ASSUME NEW response, response # NULL, NEW err, NEW n, NEW input,
         LET result == Exec!Execute("fake_tool", n, input, response, err)
         IN  OutcomeOf(result).error = NULL
  PROVE  /\ response.status = 200
         /\ LET result == Exec!Execute("fake_tool", n, input, response, err)
            IN  OutcomeOf(result).output = response.body
<1> DEFINE result == Exec!Execute("fake_tool", n, input, response, err)
           cause == IF response.status = 409 THEN "idempotency conflict" ELSE "status"
<1>1. result = Exec!executeFakeTool(response, err)
  BY DEF Exec!Execute
<1>2. /\ "invalid result" \in Exec!Causes /\ "status" \in Exec!Causes /\ cause \in Exec!Causes
  BY DEF Exec!Causes
<1>3. OutcomeOf(result).error = NULL
  OBVIOUS
<1>4. CASE response.status # 200
  <2>1. result = Exec!Fails("temporary", "status") \/ result = Exec!Fails("permanent", cause)
    BY <1>1, <1>4 DEF Exec!executeFakeTool
  <2> HIDE DEF cause, result
  <2>. QED  BY <1>2, <1>3, <2>1, FailureReported
<1>5. CASE response.status = 200
  <2>1. \/ result = Exec!Fails("permanent", "invalid result")
        \/ result = Exec!Ok(response.body)
    BY <1>1, <1>5 DEF Exec!executeFakeTool
  <2> HIDE DEF result
  <2>2. result = Exec!Ok(response.body)
    BY <1>2, <1>3, <2>1, FailureReported
  <2>3. result.err = NULL /\ result.output = response.body
    BY <2>2 DEF Exec!Ok
  <2>4. OutcomeOf(result).output = response.body
    BY <2>3 DEF OutcomeOf
  <2>. QED  BY <1>5, <2>4 DEF result
<1>. QED  BY <1>4, <1>5

\* The slot stops waiting, and reports what it has read.
LEMMA ToolEnds ==
  ASSUME Safe, SlotsOK, ToolOK, ToolInv, [Next]_vars, NEW s \in Slots, slots[s].pc = "await",
         UNCHANGED vars, effects' = effects, NEW result, Become(s, Executed(slots[s], result)),
         LET slot == slots[s]
         IN  OutcomeOf(result).error = NULL =>
               HasRow(<<slot.lease.task, slot.step>>, OutcomeOf(result).output, effects),
         \A q \in requests' : \E r \in requests :
           /\ q.key = r.key /\ q.payload = r.payload /\ q.response = r.response
           /\ q.connected => r.connected /\ q.client = r.client /\ r.client # s
  PROVE  ToolInv'
<1> DEFINE slot == slots[s]
           outcome == OutcomeOf(result)
           reporting == [slot EXCEPT !.pc = "finish", !.input = NULL, !.outcome = outcome]
           new == Executed(slot, result)
<1>1. Typed(slot) /\ slot \in Slot
  BY SlotFacts DEF Safe
<1>2. At(slot, "timeout").pc = "timeout" /\ At(slot, "return").pc = "return"
  BY <1>1, AtFields
<1>3. /\ reporting.pc = "finish" /\ reporting.lease = slot.lease /\ reporting.step = slot.step
      /\ reporting.outcome = outcome
  BY <1>1 DEF Slot
<1>4. new = At(slot, "timeout") \/ new = At(slot, "return") \/ new = reporting
  BY DEF Executed, At
<1> HIDE DEF outcome, reporting
<1>5. Reported(new, steps', effects')
  BY <1>2, <1>3, <1>4 DEF Reported, outcome
<1> HIDE DEF new
<1>6. Become(s, new) /\ steps' = steps
  BY DEF new, vars
<1>7. Told' /\ Ledger' /\ Earned'
  BY <1>5, <1>6, ToldKept, LedgerKept, EarnedKept, RestNoSuccess DEF ToolInv
<1>8. \A r \in Slots : r # s => slots'[r] = slots[r]
  BY <1>6 DEF SlotsOK, Become
<1>9. ASSUME NEW q \in requests' PROVE Justified(q, slots', steps', effects')
  <2>1. PICK r \in requests :
          /\ q.key = r.key /\ q.payload = r.payload /\ q.response = r.response
          /\ q.connected => r.connected /\ q.client = r.client /\ r.client # s
    OBVIOUS
  <2>2. Justified(r, slots, steps, effects) /\ r.client \in Slots
    BY DEF ToolInv, Requested, ToolOK, RequestOK
  <2>. QED  BY <1>6, <1>8, <2>1, <2>2 DEF Justified, Awaits
<1>. QED  BY <1>7, <1>9 DEF ToolInv, Requested

\* What a client that gives up leaves behind.
LEMMA DisconnectedFields ==
  ASSUME ToolOK, NEW C, NEW q \in Tool!Disconnected(C)
  PROVE  \E r \in requests :
           /\ q.key = r.key /\ q.payload = r.payload /\ q.response = r.response
           /\ q.connected => r.connected /\ q.client = r.client /\ r.client \notin C
<1> DEFINE no == FALSE
<1>1. ~no
  OBVIOUS
<1>2. PICK r \in requests : IF r.client \in C THEN q = [r EXCEPT !.connected = no] ELSE q = r
  BY DEF Tool!Disconnected
<1> HIDE DEF no
<1>3. r = [client |-> r.client, key |-> r.key, payload |-> r.payload, connected |-> r.connected,
           response |-> r.response]
  BY DEF ToolOK, RequestOK
<1>4. CASE r.client \in C
  <2>1. q = [client |-> r.client, key |-> r.key, payload |-> r.payload, connected |-> no,
             response |-> r.response]
    BY <1>2, <1>3, <1>4
  <2>. QED  BY <1>1, <2>1
<1>5. CASE r.client \notin C
  BY <1>2, <1>5
<1>. QED  BY <1>4, <1>5

LEMMA GiveUpToolKeeps ==
  ASSUME Safe, SlotsOK, ToolOK, ToolInv, [Next]_vars, NEW s \in Slots,
         NEW err \in {"request failed"} \cup ContextErrors(slots[s]), GiveUpTool(s, err)
  PROVE  ToolInv'
<1> DEFINE slot == slots[s]
           result == Exec!Execute("fake_tool", slot.attempt, DecodedInput(slot), NULL, err)
<1>1. /\ slot.pc = "await" /\ UNCHANGED vars /\ effects' = effects
      /\ Become(s, Executed(slot, result)) /\ requests' = Tool!Disconnected({s})
  BY DEF GiveUpTool
<1>2. err \in Exec!Causes
  BY DEF ContextErrors, Exec!Causes
<1>3. OutcomeOf(result).error # NULL
  BY <1>2, NoResponseFails
<1> HIDE DEF result
<1>4. ASSUME NEW q \in requests'
      PROVE  \E r \in requests :
               /\ q.key = r.key /\ q.payload = r.payload /\ q.response = r.response
               /\ q.connected => r.connected /\ q.client = r.client /\ r.client # s
  <2>1. q \in Tool!Disconnected({s})
    BY <1>1
  <2>2. \E r \in requests :
          /\ q.key = r.key /\ q.payload = r.payload /\ q.response = r.response
          /\ q.connected => r.connected /\ q.client = r.client /\ r.client \notin {s}
    BY <2>1, DisconnectedFields
  <2>. QED  BY <2>2
<1>. QED  BY <1>1, <1>3, <1>4, ToolEnds

LEMMA ToolAnswersKeeps ==
  ASSUME Safe, SlotsOK, ToolOK, ToolInv, [Next]_vars, NEW s \in Slots, ToolAnswers(s)
  PROVE  ToolInv'
<1>1. PICK response \in Tool!ResponsesTo(s) :
        /\ slots[s].pc = "await" /\ UNCHANGED vars
        /\ Become(s, Executed(slots[s], Exec!Execute("fake_tool", slots[s].attempt,
                                                     DecodedInput(slots[s]), response, NULL)))
        /\ Tool!Received(s)
  BY DEF ToolAnswers
<1> DEFINE slot == slots[s]
           result == Exec!Execute("fake_tool", slot.attempt, DecodedInput(slot), response, NULL)
<1>2. PICK r \in requests : response = r.response /\ response # NULL /\ r.client = s /\ r.connected
  BY DEF Tool!ResponsesTo
<1>3. Justified(r, slots, steps, effects)
  BY DEF ToolInv, Requested
<1>4. OutcomeOf(result).error = NULL =>
        response.status = 200 /\ OutcomeOf(result).output = response.body
  BY <1>2, ToolSucceeds
<1> HIDE DEF result
<1>5. OutcomeOf(result).error = NULL =>
        HasRow(<<slot.lease.task, slot.step>>, OutcomeOf(result).output, effects)
  BY <1>2, <1>3, <1>4 DEF Justified, Awaits
<1>6. /\ effects' = effects
      /\ \A q \in requests' : q \in requests /\ (q.connected => q.client # s)
  BY <1>1 DEF Tool!Received
<1>7. Become(s, Executed(slot, result))
  BY <1>1 DEF result
<1>. QED  BY <1>1, <1>5, <1>6, <1>7, ToolEnds

-----------------------------------------------------------------------------
(* Processes, the tool, and the rest of the system. *)

LEMMA ShutdownKeeps ==
  ASSUME Safe, SlotsOK, ToolOK, ToolInv, [Next]_vars, NEW w \in Workers, Shutdown(w) \/ Restart(w)
  PROVE  ToolInv'
<1>1. UNCHANGED toolVars /\ steps' = steps
  BY DEF Shutdown, Restart, vars
<1>2. ASSUME NEW s \in Slots PROVE GoesOn(slots[s], slots'[s])
  <2> DEFINE slot == slots[s]
             ctx == Cancelled(slot.ctx)
             new == [slot EXCEPT !.ctx = ctx]
  <2>1. slots'[s] = new \/ slots'[s] = slot
    BY DEF Shutdown, Restart, Interrupted
  <2>2. slot \in Slot
    BY DEF SlotsOK, SlotOK, Typed
  <2> HIDE DEF ctx
  <2>3. /\ new.lease = slot.lease /\ new.pc = slot.pc /\ new.step = slot.step
        /\ new.input = slot.input /\ new.outcome = slot.outcome
    BY <2>2 DEF Slot
  <2> HIDE DEF new
  <2>. QED  BY <2>1, <2>3 DEF GoesOn
<1>3. Earned'
  BY <1>1, EarnedKept, RestNoSuccess DEF ToolInv, toolVars
<1>. QED  BY <1>1, <1>2, <1>3, MovesKeep

\* A process that dies leaves its requests on their way.
LEMMA CrashKeeps ==
  ASSUME Safe, SlotsOK, ToolOK, ToolInv, [Next]_vars, NEW w \in Workers, Crash(w)
  PROVE  ToolInv'
<1> DEFINE dead == {s \in Slots : WorkerId(s) = w}
<1>1. /\ slots' = [s \in Slots |-> IF s \in dead THEN IdleSlot ELSE slots[s]]
      /\ requests' = Tool!Disconnected(dead) /\ effects' = effects /\ steps' = steps
  BY DEF Crash, vars
<1> HIDE DEF dead
<1>2. IdleSlot.pc = "idle"
  BY DEF IdleSlot
<1>3. ASSUME NEW s \in Slots PROVE Reported(slots'[s], steps', effects')
  <2>1. slots'[s] = IdleSlot \/ slots'[s] = slots[s]
    BY <1>1
  <2>. QED  BY <1>1, <1>2, <2>1 DEF Reported, ToolInv, Told
<1>4. ASSUME NEW q \in requests' PROVE Justified(q, slots', steps', effects')
  <2>1. PICK r \in requests :
          /\ q.key = r.key /\ q.payload = r.payload /\ q.response = r.response
          /\ q.connected => r.connected /\ q.client = r.client /\ r.client \notin dead
    BY <1>1, DisconnectedFields
  <2>2. Justified(r, slots, steps, effects) /\ r.client \in Slots
    BY DEF ToolInv, Requested, ToolOK, RequestOK
  <2>3. q.connected => slots'[q.client] = slots[r.client]
    BY <1>1, <2>1, <2>2
  <2>. QED  BY <1>1, <2>1, <2>2, <2>3 DEF Justified, Awaits
<1>5. Ledger' /\ Earned'
  BY <1>1, LedgerKept, EarnedKept, RestNoSuccess DEF ToolInv
<1>. QED  BY <1>3, <1>4, <1>5 DEF ToolInv, Told, Requested

\* record: INSERT ... ON CONFLICT DO NOTHING keeps one row for a key, and the response
\* comes from the row.
LEMMA ToolStepKeeps ==
  ASSUME Safe, SlotsOK, ToolOK, ToolInv, [Next]_vars, UNCHANGED <<vars, slots, stopping>>,
         NEW r \in requests, Tool!record(r) \/ Tool!recordFails(r)
  PROVE  ToolInv'
<1> DEFINE new == [key |-> r.key, payload |-> r.payload, result |-> Wrap(r.payload)]
<1>1. steps' = steps /\ slots' = slots
  BY DEF vars
<1>2. Justified(r, slots, steps, effects) /\ RequestOK(r)
  BY DEF ToolInv, Requested, ToolOK
<1>3. new.key = r.key /\ new.payload = r.payload
  OBVIOUS
<1>4. Tool!Recorded(r) = IF \E row \in effects : row.key = r.key THEN effects ELSE effects \cup {new}
  BY DEF Tool!Recorded
<1>5. effects' = effects \/ effects' = Tool!Recorded(r)
  BY DEF Tool!record, Tool!recordFails
<1> HIDE DEF new
<1>6. \A row \in effects : row \in effects'
  BY <1>4, <1>5
<1>7. \A row \in effects' :
        row \in effects \/ (row = new /\ \A old \in effects : old.key # r.key)
  BY <1>4, <1>5
<1>8. Ledger'
  <2>1. Backed(r.key, r.payload, steps)
    BY <1>2 DEF Justified
  <2>2. \A row \in effects' : Backed(row.key, row.payload, steps')
    BY <1>1, <1>3, <1>7, <2>1 DEF ToolInv, Ledger
  <2>3. \A a, b \in effects' : a.key = b.key => a = b
    BY <1>3, <1>7 DEF ToolInv, Ledger
  <2>. QED  BY <2>2, <2>3 DEF Ledger
<1>9. Earned'
  BY <1>1, <1>6, EarnedKept, RestNoSuccess DEF ToolInv
<1>10. Told'
  BY <1>1, <1>6 DEF ToolInv, Told, Reported, HasRow
<1>11. PICK response : /\ Tool!Answered(r, response)
                       /\ response.status = 200 => HasRow(r.key, response.body, effects')
  <2>1. ASSUME NEW status, NEW body
        PROVE  Tool!Response(status, body).status = status /\ Tool!Response(status, body).body = body
    BY DEF Tool!Response
  <2>2. CASE Tool!recordFails(r)
    BY <2>1, <2>2 DEF Tool!recordFails
  <2>3. CASE Tool!record(r)
    <3> DEFINE row == CHOOSE row \in Tool!Recorded(r) : row.key = r.key
    <3>1. \E x \in Tool!Recorded(r) : x.key = r.key
      BY <1>3, <1>4
    <3>2. row \in Tool!Recorded(r) /\ row.key = r.key
      BY <3>1
    <3> HIDE DEF row
    <3>3. \/ Tool!Answered(r, Tool!Response(409, NULL))
          \/ Tool!Answered(r, Tool!Blocked)
          \/ /\ effects' = Tool!Recorded(r)
             /\ Tool!Answered(r, Tool!Response(200, row.result))
      BY <2>3 DEF Tool!record, row
    <3>. QED  BY <2>1, <3>2, <3>3 DEF Tool!Blocked, HasRow
  <2>. QED  BY <2>2, <2>3
<1>12. Requested'
  <2> DEFINE told == [r EXCEPT !.response = response]
  <2>1. /\ told.client = r.client /\ told.key = r.key /\ told.payload = r.payload
        /\ told.connected = r.connected /\ told.response = response
    <3>1. r = [client |-> r.client, key |-> r.key, payload |-> r.payload,
               connected |-> r.connected, response |-> r.response]
      BY <1>2 DEF RequestOK
    <3>2. told = [client |-> r.client, key |-> r.key, payload |-> r.payload,
                  connected |-> r.connected, response |-> response]
      BY <3>1
    <3> HIDE DEF told
    <3>. QED  BY <3>2
  <2>2. \A q \in requests' : q \in requests \/ q = told
    BY <1>11 DEF Tool!Answered
  <2> HIDE DEF told
  <2>3. Justified(told, slots', steps', effects')
    BY <1>1, <1>2, <1>11, <2>1 DEF Justified, Awaits
  <2>4. ASSUME NEW q \in requests PROVE Justified(q, slots', steps', effects')
    <3>1. Justified(q, slots, steps, effects)
      BY DEF ToolInv, Requested
    <3>. QED  BY <1>1, <1>6, <3>1, JustifiedKept DEF Justified
  <2>. QED  BY <2>2, <2>3, <2>4 DEF Requested
<1>. QED  BY <1>8, <1>9, <1>10, <1>12 DEF ToolInv

LEMMA EnvironmentKeeps ==
  ASSUME Safe, SlotsOK, ToolOK, ToolInv, [Next]_vars, Environment
  PROVE  ToolInv'
<1>1. UNCHANGED toolVars /\ slots' = slots
  BY DEF Environment
<1>2. NoSuccess
  <2>1. CASE Tick \/ Idle
    BY <2>1, RestNoSuccess DEF Tick, Idle, vars
  <2>2. CASE \E t \in Tasks : ClientStep(t) \/ ProcessDueControl(t)
    BY <2>2, EnvironmentNoSuccess DEF Safe
  <2>. QED  BY <2>1, <2>2 DEF Environment
<1>3. Earned'
  BY <1>1, <1>2, EarnedKept DEF ToolInv, toolVars
<1>4. \A s \in Slots : GoesOn(slots[s], slots'[s])
  BY <1>1 DEF GoesOn
<1>. QED  BY <1>1, <1>3, <1>4, MovesKeep

-----------------------------------------------------------------------------
(* The invariant. *)

LEMMA ToolInvNext == Safe /\ WorkerInv /\ ToolInv /\ [WorkerNext]_workerVars => ToolInv'
<1> SUFFICES ASSUME Safe, WorkerInv, ToolInv, [WorkerNext]_workerVars PROVE ToolInv'
  OBVIOUS
<1>1. SlotsOK /\ ToolOK /\ [Next]_vars
  BY WorkerStep DEF WorkerInv
<1>2. ASSUME NEW s \in Slots, SlotStep(s) PROVE ToolInv'
  <2>1. CASE Load(s) \/ ConfirmStart(s) \/ Return(s) \/ AskApproval(s) \/ Start(s)
             \/ timeoutClaim(s) \/ cancelClaim(s) \/ ConfirmFinish(s)
    <3>1. Moves(s)
      BY <1>1, <2>1, ReadMoves, AskApprovalMoves, StartMoves, ControlMoves
    <3>. QED  BY <1>1, <3>1, MovesOK
  <2>2. CASE Finish(s) \/ CallTool(s)
    BY <1>1, <2>2, FinishKeeps, CallToolKeeps
  <2>. QED  BY <1>2, <2>1, <2>2 DEF SlotStep
<1>3. ASSUME NEW s \in Slots, Claim(s) \/ MonitorStep(s) \/ ContextExpires(s) PROVE ToolInv'
  <2>1. Moves(s)
    BY <1>1, <1>3, ClaimMoves, MonitorMoves
  <2>. QED  BY <1>1, <2>1, MovesOK
<1>4. ASSUME NEW s \in Slots, ExecutionEnds(s) PROVE ToolInv'
  BY <1>1, <1>4, ExecuteLocallyMoves, ToolAnswersKeeps, GiveUpToolKeeps DEF ExecutionEnds
<1>5. CASE \E w \in Workers : Shutdown(w) \/ Restart(w) \/ Crash(w)
  BY <1>1, <1>5, ShutdownKeeps, CrashKeeps
<1>6. CASE ToolStep
  BY <1>1, <1>6, ToolStepKeeps DEF ToolStep
<1>7. CASE Environment
  BY <1>1, <1>7, EnvironmentKeeps
<1>8. CASE UNCHANGED workerVars
  <2>1. UNCHANGED toolVars /\ slots' = slots /\ steps' = steps
    BY <1>8 DEF workerVars, toolVars
  <2>2. Earned'
    BY <2>1, EarnedKept, RestNoSuccess DEF ToolInv, toolVars
  <2>3. \A s \in Slots : GoesOn(slots[s], slots'[s])
    BY <2>1 DEF GoesOn
  <2>. QED  BY <1>1, <2>1, <2>2, <2>3, MovesKeep
<1>. QED  BY <1>2, <1>3, <1>4, <1>5, <1>6, <1>7, <1>8 DEF WorkerNext

\* Whatever is on its way to the tool or in its ledger carries the persisted input of the
\* step of its key, and what slots and steps report as a result is in the ledger.
THEOREM ToolInvariance == WorkerSpec => []ToolInv
<1>1. WorkerInit => ToolInv
  <2> SUFFICES ASSUME WorkerInit PROVE ToolInv
    OBVIOUS
  <2>1. /\ effects = {} /\ requests = {} /\ slots = [s \in Slots |-> IdleSlot]
        /\ steps = [t \in Tasks |-> <<>>]
    BY DEF WorkerInit, Tool!ToolInit, Init
  <2>2. IdleSlot.pc = "idle"
    BY DEF IdleSlot
  <2>. QED  BY <2>1, <2>2 DEF ToolInv, Ledger, Requested, Told, Reported, Earned
<1>. QED  BY <1>1, ToolInvNext, WorkerInvariance, PTL DEF WorkerSpec

\* At least once and yet one effect: under crashes, takeovers, lost responses, retries
\* and requests that arrive late, the ledger has no more rows for a task than the task has
\* tool steps that were started.
THEOREM OneEffectPerStepCorrect == WorkerSpec => []OneEffectPerStep
<1>1. Safe /\ WorkerInv /\ ToolInv => OneEffectPerStep
  <2> SUFFICES ASSUME Safe, WorkerInv, ToolInv, NEW t \in Tasks
               PROVE  Cardinality({row \in effects : row.key[1] = t})
                        <= Cardinality({i \in DOMAIN steps[t] : steps[t][i].type = "fake_tool"
                                                                /\ steps[t][i].attempt > 0})
    BY DEF OneEffectPerStep
  <2> DEFINE R == {row \in effects : row.key[1] = t}
             I == {i \in DOMAIN steps[t] : steps[t][i].type = "fake_tool" /\ steps[t][i].attempt > 0}
             f == [row \in R |-> row.key[2]]
  <2>1. IsFiniteSet(I)
    <3>1. steps[t] \in Seq(StepRow)
      BY TaskFacts DEF Safe
    <3>2. DOMAIN steps[t] = 1..Len(steps[t]) /\ Len(steps[t]) \in Nat
      BY <3>1
    <3>3. \A n \in Nat : IsFiniteSet(1..n)
      <4> TAKE n \in Nat
      <4>1. 1 \in Int /\ n \in Int
        OBVIOUS
      <4>. QED  BY <4>1, FS_Interval, Zenon
    <3>4. IsFiniteSet(DOMAIN steps[t])
      BY <3>2, <3>3, Zenon
    <3>. QED  BY <3>4, FS_Subset
  <2>2. \A row \in R : row.key \in Keys /\ row.key[2] \in I
    BY DEF ToolInv, Ledger, Backed, WorkerInv, ToolOK, EffectRowOK
  <2>3. \A a, b \in R : a.key[2] = b.key[2] => a = b
    <3> SUFFICES ASSUME NEW a \in R, NEW b \in R, a.key[2] = b.key[2] PROVE a.key = b.key
      BY DEF ToolInv, Ledger
    <3>1. a.key = <<a.key[1], a.key[2]>> /\ b.key = <<b.key[1], b.key[2]>>
      BY <2>2 DEF Keys
    <3>. QED  BY <3>1
  <2> HIDE DEF R, I
  <2>4. f \in Injection(R, I)
    BY <2>2, <2>3 DEF Injection, IsInjective
  <2> HIDE DEF f
  <2>5. Cardinality(R) <= Cardinality(I)
    BY <2>1, <2>4, FS_Injection
  <2>. QED  BY <2>5 DEF R, I
<1>. QED  BY <1>1, WorkerInvariance, ToolInvariance, PTL

\* A tool step that FinishStep committed as succeeded had its effect, and its output is
\* the result that the ledger keeps for the step's key, also when an earlier attempt or
\* an earlier owner caused it.
THEOREM SuccessHasItsEffectCorrect == WorkerSpec => []SuccessHasItsEffect
<1>1. ToolInv => SuccessHasItsEffect
  <2> SUFFICES ASSUME ToolInv, NEW t \in Tasks, NEW i \in DOMAIN steps[t],
                      steps[t][i].type = "fake_tool", steps[t][i].status = "SUCCEEDED"
               PROVE  \E row \in effects : /\ row.key = <<t, i>>
                                           /\ row.payload = steps[t][i].resolved_input
                                           /\ row.result = steps[t][i].output
    BY DEF SuccessHasItsEffect
  <2>1. PICK row \in effects : row.key = <<t, i>> /\ row.result = steps[t][i].output
    BY DEF ToolInv, Earned, HasRow
  <2>2. Backed(row.key, row.payload, steps)
    BY DEF ToolInv, Ledger
  <2>3. row.key[1] = t /\ row.key[2] = i
    BY <2>1
  <2>4. steps[t][i].resolved_input = row.payload
    BY <2>2, <2>3 DEF Backed
  <2>. QED  BY <2>1, <2>4
<1>. QED  BY <1>1, ToolInvariance, PTL

\* Every slot that executes a step, owner or not, in whatever attempt, has the input that
\* the first attempt persisted, and invoke never has a reason to answer 409.
THEOREM ExecutionsAgreeCorrect == WorkerSpec => []ExecutionsAgree
<1>1. Safe /\ WorkerInv /\ ToolInv => ExecutionsAgree
  <2> SUFFICES ASSUME Safe, WorkerInv, ToolInv PROVE ExecutionsAgree
    OBVIOUS
  <2>1. ASSUME NEW s \in Slots, slots[s].pc \in {"execute", "await"}
        PROVE  slots[s].input = steps[slots[s].lease.task][slots[s].step].resolved_input
    <3>1. HasStep(slots[s], steps[slots[s].lease.task])
      BY <2>1, SlotFacts DEF Safe, WorkerInv, Knows
    <3>. QED  BY <2>1, <3>1 DEF HasStep
  <2>2. ASSUME NEW r \in requests, NEW row \in effects, row.key = r.key
        PROVE  row.payload = r.payload
    BY <2>2 DEF ToolInv, Ledger, Requested, Justified, Backed
  <2>. QED  BY <2>1, <2>2 DEF ExecutionsAgree
<1>. QED  BY <1>1, WorkerInvariance, ToolInvariance, PTL

=============================================================================
