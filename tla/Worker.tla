-------------------------------- MODULE Worker --------------------------------
(***************************************************************************)
(* Worker processes on the store: every slot's loop (runSlot and           *)
(* executeClaim), the monitor that runs beside each claim, the executors   *)
(* and the fake tool they call, and the faults the code provides for.      *)
(* Clients and schedulers act on the store as in TaskStore.                *)
(*                                                                         *)
(* A call on the store commits and returns; or it fails and changes        *)
(* nothing; or the response to its COMMIT is lost.  Any call may fail at   *)
(* any time, so a context that ends in the middle of a call needs no       *)
(* modelling of its own.  Where the code does the same whatever the error, *)
(* all its errors are one.                                                 *)
(***************************************************************************)
EXTENDS TaskStore, FiniteSets

CONSTANTS
  Concurrency,  \* worker.Options.Concurrency: slots of a worker process
  ClockSkew,    \* how far a worker's clock may be ahead of the database's
  FlakyInput,   \* the decoded input of flaky steps
  Blocking,     \* resolved inputs with block_first_response
  Wrap(_)       \* the JSON document {"value": v}

ASSUME WorkerAssumption ==
  /\ Concurrency \in Nat \ {0}
  /\ ClockSkew \in Nat
  /\ \A v \in Value : Wrap(v) \in Outputs
  /\ FlakyInput.value \in Value \cup {NULL}

Slots == Workers \X (1..Concurrency)

VARIABLES
  slots,     \* the state of every slot and of the monitor beside it
  stopping,  \* stopping[w]: the process of w has been told to stop
  effects,   \* the ledger of the fake tool
  requests   \* calls of the fake tool in flight

toolVars == <<effects, requests>>

workerVars == <<tasks, steps, events, now, slots, stopping, effects, requests>>

Keys == Tasks \X (1..100)

Exec == INSTANCE Executor WITH Slept <- Wrap("literal")

\* nil is no error.
ASSUME NilAssumption == NULL \notin Exec!Failure

Tool == INSTANCE FakeTool WITH Clients <- Slots, Payloads <- Value, ResultOf <- Wrap

-----------------------------------------------------------------------------
(* A slot.  pc is where executeClaim is; ctx is taskContext, which ends    *)
(* once, by a cancellation or at the task's deadline; monitor is the       *)
(* goroutine of monitorControl.                                            *)

WorkerId(s) == s[1]

Lease == [task : Tasks, worker : Workers, version : Nat]

IdleSlot ==
  [pc |-> "idle", lease |-> NULL, ctx |-> "live", monitor |-> "done",
   step |-> 0, attempt |-> 0, input |-> NULL, outcome |-> NULL]

Slot ==
  [pc : {"idle", "load", "act", "confirmStart", "execute", "await", "finish", "confirmFinish",
         "timeout", "cancel", "return"},
   lease : Lease \cup {NULL},
   ctx : {"live", "cancelled", "expired"},
   monitor : {"on", "cancelling", "done"},
   step : Nat, attempt : Nat,
   input : Value \cup {NULL},
   outcome : Outcomes \cup {NULL}]

\* A context that has ended stays as it is.
Cancelled(ctx) == IF ctx = "live" THEN "cancelled" ELSE ctx

\* Mutant: the deferred function waits for the monitor before it cancels.
Returning_WaitsFirst(slot) ==
  [slot EXCEPT !.pc = "return", !.step = 0, !.attempt = 0, !.input = NULL, !.outcome = NULL]

\* executeClaim returns: cancelTask, and then it waits for the monitor.
Returning(slot) ==
  [slot EXCEPT !.pc = "return", !.ctx = Cancelled(@),
               !.step = 0, !.attempt = 0, !.input = NULL, !.outcome = NULL]

\* The slot goes on at pc with what it has read.
At(slot, pc) == IF pc = "return" THEN Returning(slot) ELSE [slot EXCEPT !.pc = pc]

\* The loop starts over and reads the task again.
Again(slot) ==
  [slot EXCEPT !.pc = "load", !.step = 0, !.attempt = 0, !.input = NULL, !.outcome = NULL]

Become(s, slot) == slots' = [slots EXCEPT ![s] = slot]

LocalStep(s, slot) == Become(s, slot) /\ UNCHANGED <<vars, stopping, toolVars>>

\* The call returns what the store did, or nobody reads its answer.
StoreStep(s, slot) == Become(s, slot) /\ UNCHANGED <<stopping, toolVars>>

-----------------------------------------------------------------------------
(* runSlot and executeClaim. *)

Claimed(s, t) ==
  [IdleSlot EXCEPT !.pc = "load", !.monitor = "on",
                   !.lease = [task |-> t, worker |-> WorkerId(s),
                              version |-> tasks[t].lease_version + 1]]

\* A claim whose COMMIT is applied and whose response is lost leaves the task
\* leased and the slot idle.
Claim(s) ==
  \E t \in Tasks :
    /\ slots[s].pc = "idle"
    /\ ~stopping[WorkerId(s)]
    /\ \/ /\ ClaimRunnable(WorkerId(s), t) \/ ClaimExpired(WorkerId(s), t)
          /\ StoreStep(s, Claimed(s, t)) \/ StoreStep(s, slots[s])
       \/ ConvergeExpired(t) /\ StoreStep(s, slots[s])

\* Mutant: a step that was loaded once is acted on for the whole claim.
Load_KeepsStep(s) ==
  LET slot == slots[s]
      row == tasks[slot.lease.task]
  IN  /\ slot.pc = "load"
      /\ \/ LocalStep(s, Returning(slot))
         \/ /\ slot.ctx = "live" /\ row.status = "RUNNING"
            /\ row.current_step \in DOMAIN steps[slot.lease.task]
            /\ LocalStep(s, [slot EXCEPT !.pc = "act", !.step = 1])

\* LoadTask.  What it reads of the steps (their number and types) never changes, so
\* that its second statement adds nothing to the first.
Load(s) ==
  LET slot == slots[s]
      row == tasks[slot.lease.task]
  IN  /\ slot.pc = "load"
      /\ \/ LocalStep(s, Returning(slot))
         \/ /\ slot.ctx = "live"
            /\ row.status = "RUNNING"
            /\ row.current_step \in DOMAIN steps[slot.lease.task]
            /\ LocalStep(s, [slot EXCEPT !.pc = "act", !.step = row.current_step])

IsApproval(slot) == steps[slot.lease.task][slot.step].type = "approval"

\* Where an approval step ends: the owner carries out a cancellation or a timeout it
\* is told of, and in every other case returns, whether or not the COMMIT is known.
AfterWait(slot) ==
  CASE validateOwnership(slot.lease) = "ErrCancelled" -> "cancel"
    [] validateOwnership(slot.lease) = "ErrDeadlineExceeded" \/ slot.ctx = "expired" -> "timeout"
    [] OTHER -> "return"

AskApproval(s) ==
  LET slot == slots[s]
  IN  /\ slot.pc = "act"
      /\ IsApproval(slot)
      /\ \/ /\ WaitForApproval(slot.lease, slot.step)
            /\ StoreStep(s, At(slot, IF slot.ctx = "expired" THEN "timeout" ELSE "return"))
         \/ LocalStep(s, At(slot, AfterWait(slot)))
         \/ LocalStep(s, At(slot, IF slot.ctx = "expired" THEN "timeout" ELSE "return"))

\* StartStep: committed and answered, committed or not and the answer lost, refused
\* or failed.
Start(s) ==
  LET slot == slots[s]
      t == slot.lease.task
      Holding(pc) == [slot EXCEPT !.pc = pc, !.attempt = steps[t][slot.step].attempt + 1,
                                   !.input = ResolveInput(t, slot.step)]
  IN  /\ slot.pc = "act"
      /\ ~IsApproval(slot)
      /\ \/ /\ StartStep(slot.lease, slot.step)
            /\ StoreStep(s, Holding("execute")) \/ StoreStep(s, Holding("confirmStart"))
         \/ /\ StartAllowed(slot.lease, slot.step)
            /\ LocalStep(s, Holding("confirmStart"))
         \/ LocalStep(s, Returning(slot))

\* commitWithFactCheck: the query may itself fail, or run ahead of the COMMIT.
ConfirmStart(s) ==
  LET slot == slots[s]
  IN  /\ slot.pc = "confirmStart"
      /\ \/ /\ stepStartPersisted(slot.lease.task, slot.step, slot.attempt, slot.input)
            /\ LocalStep(s, At(slot, "execute"))
         \/ LocalStep(s, Returning(slot))

-----------------------------------------------------------------------------
(* executor.Execute, under a context with the step's timeout. *)

StepType(slot) == steps[slot.lease.task][slot.step].type

DecodedInput(slot) ==
  IF StepType(slot) = "flaky" THEN FlakyInput ELSE Exec!Input(slot.input, 1, NULL, FALSE)

\* The errors of the step's context: its own timeout may come at any moment.
ContextErrors(slot) ==
  IF slot.ctx = "cancelled" THEN {"Canceled"} ELSE {"DeadlineExceeded"}

\* Mutant: Execute's first two results are taken in the wrong order.
OutcomeOf_Swapped(result) ==
  IF result.err = NULL
  THEN [output |-> NULL, checkpoint |-> result.output, error |-> NULL, failure_class |-> NULL]
  ELSE [output |-> NULL, checkpoint |-> NULL, error |-> "execution_failed",
        failure_class |-> Exec!Classify(result.err)]

\* What is reported to FinishStep; the wording of an error is not kept.
OutcomeOf(result) ==
  IF result.err = NULL
  THEN [output |-> result.output, checkpoint |-> NULL, error |-> NULL, failure_class |-> NULL]
  ELSE [output |-> NULL, checkpoint |-> NULL, error |-> "execution_failed",
        failure_class |-> Exec!Classify(result.err)]

\* After Execute: the task's deadline and a cancellation come before the result.
Executed(slot, result) ==
  IF slot.ctx = "expired" THEN At(slot, "timeout")
  ELSE IF slot.ctx = "cancelled" THEN Returning(slot)
  ELSE [slot EXCEPT !.pc = "finish", !.input = NULL, !.outcome = OutcomeOf(result)]

\* echo and flaky do not look at the context; sleep ends by its timer or by the context.
ExecuteLocally(s, ctxErr) ==
  LET slot == slots[s]
      result == Exec!Execute(StepType(slot), slot.attempt, DecodedInput(slot), NULL, ctxErr)
  IN  /\ slot.pc = "execute"
      /\ StepType(slot) # "fake_tool"
      /\ LocalStep(s, Executed(slot, result))

\* Mutant: each attempt has a key of its own.
IdempotencyKey_PerAttempt(t, i, n) == <<t, 10 * i + n>>

\* Mutant: all the steps of a task share one key.
IdempotencyKey_PerTask(t, i, n) == <<t, 1>>

IdempotencyKey(t, i, n) == <<t, i>>

CallTool(s) ==
  LET slot == slots[s]
  IN  /\ slot.pc = "execute"
      /\ StepType(slot) = "fake_tool"
      /\ Tool!Post(s, IdempotencyKey(slot.lease.task, slot.step, slot.attempt), slot.input)
      /\ Become(s, At(slot, "await"))
      /\ UNCHANGED <<vars, stopping>>

ToolAnswers(s) ==
  \E response \in Tool!ResponsesTo(s) :
    LET slot == slots[s]
    IN  /\ slot.pc = "await"
        /\ Become(s, Executed(slot, Exec!Execute("fake_tool", slot.attempt, DecodedInput(slot),
                                                  response, NULL)))
        /\ Tool!Received(s)
        /\ UNCHANGED <<vars, stopping>>

\* The request fails on its own, or because the context has ended.
GiveUpTool(s, err) ==
  LET slot == slots[s]
  IN  /\ slot.pc = "await"
      /\ Become(s, Executed(slot, Exec!Execute("fake_tool", slot.attempt, DecodedInput(slot),
                                                NULL, err)))
      /\ requests' = Tool!Disconnected({s})
      /\ UNCHANGED <<vars, stopping, effects>>

-----------------------------------------------------------------------------
(* FinishStep, timeoutClaim and cancelClaim. *)

AfterFinish(slot) == IF slot.outcome.error # NULL THEN Returning(slot) ELSE Again(slot)

Finish(s) ==
  LET slot == slots[s]
      attempt == [step |-> slot.step, attempt |-> slot.attempt]
  IN  /\ slot.pc = "finish"
      /\ \/ /\ \/ FinishStepFailed(slot.lease, attempt, slot.outcome)
               \/ FinishStepSucceeded(slot.lease, attempt, slot.outcome)
            /\ StoreStep(s, AfterFinish(slot)) \/ StoreStep(s, At(slot, "confirmFinish"))
         \/ /\ Finishable(slot.lease, attempt)
            /\ LocalStep(s, At(slot, "confirmFinish"))
         \/ /\ validateOwnership(slot.lease) = "ErrDeadlineExceeded"
            /\ LocalStep(s, At(slot, "timeout"))
         \/ LocalStep(s, Returning(slot))

ConfirmFinish(s) ==
  LET slot == slots[s]
      attempt == [step |-> slot.step, attempt |-> slot.attempt]
  IN  /\ slot.pc = "confirmFinish"
      /\ \/ /\ stepFinishPersisted(slot.lease.task, attempt, slot.outcome)
            /\ LocalStep(s, AfterFinish(slot))
         \/ LocalStep(s, Returning(slot))

timeoutClaim(s) ==
  LET slot == slots[s]
  IN  /\ slot.pc = "timeout"
      /\ \/ TimeoutOwnedTask(slot.lease) /\ StoreStep(s, Returning(slot))
         \/ /\ ownsActiveLease(slot.lease) /\ tasks[slot.lease.task].cancel_requested
            /\ LocalStep(s, At(slot, "cancel"))
         \/ LocalStep(s, Returning(slot))

cancelClaim(s) ==
  LET slot == slots[s]
  IN  /\ slot.pc = "cancel"
      /\ \/ CancelOwnedTask(slot.lease) /\ StoreStep(s, Returning(slot))
         \/ LocalStep(s, Returning(slot))

\* Mutant: the slot does not wait, and the monitor goes on.
Return_LeavesMonitor(s) ==
  /\ slots[s].pc = "return"
  /\ LocalStep(s, [IdleSlot EXCEPT !.lease = slots[s].lease, !.monitor = slots[s].monitor])

\* The deferred wait for the monitor is over.
Return(s) ==
  /\ slots[s].pc = "return"
  /\ slots[s].monitor = "done"
  /\ LocalStep(s, IdleSlot)

-----------------------------------------------------------------------------
(* monitorControl, which runs until the context ends or a call says stop. *)

\* Mutant: the monitor returns and lets the execution run on.
Stopped_NoCancel(slot) == [slot EXCEPT !.monitor = "done"]

\* cancel() and then done.
Stopped(slot) == [slot EXCEPT !.monitor = "done", !.ctx = Cancelled(@)]

\* RenewLease succeeds, and its response may be lost.
Heartbeat(s) ==
  LET slot == slots[s]
  IN  /\ slot.monitor = "on"
      /\ RenewLease(slot.lease)
      /\ StoreStep(s, slot) \/ StoreStep(s, Stopped(slot))

\* RenewLease or CancellationRequested says that the claim is over.
Noticed(slot) ==
  IF validateOwnership(slot.lease) = "ErrCancelled"
  THEN [slot EXCEPT !.monitor = "cancelling"]
  ELSE Stopped(slot)

MonitorNotices(s) ==
  LET slot == slots[s]
  IN  /\ slot.monitor = "on"
      /\ validateOwnership(slot.lease) # "nil"
      /\ LocalStep(s, Noticed(slot))

\* A call of the monitor fails: ownership is uncertain.
MonitorFails(s) ==
  /\ slots[s].monitor = "on"
  /\ LocalStep(s, Stopped(slots[s]))

MonitorCancels(s) ==
  LET slot == slots[s]
  IN  /\ slot.monitor = "cancelling"
      /\ \/ CancelOwnedTask(slot.lease) /\ StoreStep(s, Stopped(slot))
         \/ LocalStep(s, Stopped(slot))

MonitorEnds(s) ==
  /\ slots[s].monitor = "on"
  /\ slots[s].ctx # "live"
  /\ LocalStep(s, [slots[s] EXCEPT !.monitor = "done"])

-----------------------------------------------------------------------------
(* Contexts, processes, and the rest of the system. *)

\* taskContext ends at the task's deadline, by the worker's clock.
ContextExpires(s) ==
  LET slot == slots[s]
  IN  /\ slot.pc # "idle"
      /\ slot.ctx = "live"
      /\ tasks[slot.lease.task].deadline_at <= now + ClockSkew
      /\ LocalStep(s, [slot EXCEPT !.ctx = "expired"])

\* Mutant: the contexts of the claims are not told.
Interrupted_IdleOnly(slot) == slot

Interrupted(slot) == IF slot.pc = "idle" THEN slot ELSE [slot EXCEPT !.ctx = Cancelled(@)]

\* SIGTERM: the parent context ends, and with it every claim's.
Shutdown(w) ==
  /\ ~stopping[w]
  /\ stopping' = [stopping EXCEPT ![w] = TRUE]
  /\ slots' = [s \in Slots |-> IF WorkerId(s) = w THEN Interrupted(slots[s]) ELSE slots[s]]
  /\ UNCHANGED <<vars, toolVars>>

\* Run has returned, and the process is started again.
Restart(w) ==
  /\ stopping[w]
  /\ \A s \in Slots : WorkerId(s) = w => slots[s].pc = "idle"
  /\ stopping' = [stopping EXCEPT ![w] = FALSE]
  /\ UNCHANGED <<vars, slots, toolVars>>

\* The process is killed and started again; what it asked of the tool is on its way.
Crash(w) ==
  LET dead == {s \in Slots : WorkerId(s) = w}
  IN  /\ \E s \in dead : slots[s] # IdleSlot
      /\ slots' = [s \in Slots |-> IF s \in dead THEN IdleSlot ELSE slots[s]]
      /\ stopping' = [stopping EXCEPT ![w] = FALSE]
      /\ requests' = Tool!Disconnected(dead)
      /\ UNCHANGED <<vars, effects>>

ToolStep ==
  /\ \E r \in requests : Tool!record(r) \/ Tool!recordFails(r)
  /\ UNCHANGED <<vars, slots, stopping>>

\* Clients, schedulers and the clock.
Environment ==
  /\ \/ \E t \in Tasks : ClientStep(t) \/ ProcessDueControl(t)
     \/ Tick
     \/ Idle
  /\ UNCHANGED <<slots, stopping, toolVars>>

SlotStep(s) ==
  \/ Load(s) \/ AskApproval(s) \/ Start(s) \/ ConfirmStart(s) \/ CallTool(s)
  \/ Finish(s) \/ ConfirmFinish(s) \/ timeoutClaim(s) \/ cancelClaim(s) \/ Return(s)

\* The execution ends: it is done, the tool answers, or the context has ended.
ExecutionEnds(s) ==
  \/ \E ctxErr \in {NULL} \cup ContextErrors(slots[s]) : ExecuteLocally(s, ctxErr)
  \/ ToolAnswers(s)
  \/ \E err \in {"request failed"} \cup ContextErrors(slots[s]) : GiveUpTool(s, err)

MonitorStep(s) ==
  \/ Heartbeat(s) \/ MonitorNotices(s) \/ MonitorFails(s) \/ MonitorCancels(s) \/ MonitorEnds(s)

WorkerInit ==
  /\ Init
  /\ slots = [s \in Slots |-> IdleSlot]
  /\ stopping = [w \in Workers |-> FALSE]
  /\ Tool!ToolInit

WorkerNext ==
  \/ \E s \in Slots : \/ Claim(s) \/ SlotStep(s) \/ ExecutionEnds(s) \/ MonitorStep(s)
                      \/ ContextExpires(s)
  \/ \E w \in Workers : Shutdown(w) \/ Restart(w) \/ Crash(w)
  \/ ToolStep
  \/ Environment

WorkerSpec == WorkerInit /\ [][WorkerNext]_workerVars

\* A call on the store returns within its context's limit, a monitor's ticker fires,
\* and an execution returns once its context has ended.  Nothing is assumed of an
\* execution whose context is live, of the clocks, or of the other processes.
ContextEndsExecution(s) ==
  slots[s].ctx # "live" /\ ExecutionEnds(s)

WorkerFairness ==
  \A s \in Slots :
    /\ WF_workerVars(SlotStep(s))
    /\ WF_workerVars(ContextEndsExecution(s))
    /\ WF_workerVars(MonitorNotices(s))
    /\ WF_workerVars(MonitorCancels(s))
    /\ WF_workerVars(MonitorEnds(s))

FairWorkerSpec == WorkerSpec /\ WorkerFairness

-----------------------------------------------------------------------------
(* Safety of workers. *)

\* Every slot, request and effect is of its type, and an idle slot has no monitor.
WorkerTypeOK ==
  /\ slots \in [Slots -> Slot]
  /\ \A s \in Slots : slots[s].pc = "idle" => slots[s].monitor = "done"
  /\ stopping \in [Workers -> BOOLEAN]
  /\ Tool!ToolTypeOK

\* As long as a slot owns its claim, nobody else moves the task: the step it has read
\* is the one that is current and can be started, and the attempt it has executed is
\* the one that runs.  StartStep, WaitForApproval and FinishStep answer an owner with
\* ErrConflict never (an input that does not resolve is a different error).
OwnerMeetsNoConflict ==
  \A s \in Slots :
    LET slot == slots[s]
        t == slot.lease.task
    IN  slot.pc \in {"act", "finish"} /\ validateOwnership(slot.lease) = "nil" =>
          /\ slot.step = tasks[t].current_step
          /\ slot.pc = "act" =>
               /\ Startable(steps[t][slot.step])
               /\ PredecessorsSucceeded(t, slot.step)
          /\ slot.pc = "finish" =>
               /\ steps[t][slot.step].status = "RUNNING"
               /\ steps[t][slot.step].attempt = slot.attempt

\* FinishStep of the slot's attempt has committed, with an end of this type, under the
\* slot's lease.  The end that a takeover writes in the name of the lost owner has the
\* same columns, and follows the LEASE_EXPIRED of that lease.
FinishLogged(slot, log, type) ==
  \E k \in DOMAIN log :
    /\ log[k].type = type
    /\ log[k].step = slot.step /\ log[k].attempt = slot.attempt
    /\ log[k].worker = slot.lease.worker /\ log[k].lease_version = slot.lease.version
    /\ \A j \in 1..(k - 1) :
         ~(log[j].type = "LEASE_EXPIRED" /\ log[j].lease_version = slot.lease.version)

\* The fact check of FinishStep does not mistake another's write for its own: when it
\* finds the finish persisted, the slot's own transaction has committed it, as the success
\* or failure that the slot reports, and neither a takeover that failed the attempt, nor a
\* later attempt with the same outcome, nor a cancellation.
ConfirmedFinishIsOwn ==
  \A s \in Slots :
    LET slot == slots[s]
        attempt == [step |-> slot.step, attempt |-> slot.attempt]
    IN  slot.pc = "confirmFinish" /\ stepFinishPersisted(slot.lease.task, attempt, slot.outcome) =>
          FinishLogged(slot, events[slot.lease.task],
                       IF Limited(slot.outcome).error = NULL THEN "STEP_SUCCEEDED"
                                                             ELSE "STEP_FAILED")

\* A lease is renewed only on behalf of a slot that works on the claim: once
\* executeClaim has returned, nothing keeps the task from being taken over.
OnlyHeldClaimsAreRenewed ==
  [][\A t \in Tasks :
       (/\ tasks[t].status = "RUNNING" /\ tasks'[t].status = "RUNNING"
        /\ tasks'[t].lease_version = tasks[t].lease_version
        /\ tasks'[t].lease_expires_at # tasks[t].lease_expires_at) =>
          \E s \in Slots :
            /\ slots[s].pc # "idle"
            /\ slots[s].lease = [task |-> t, worker |-> tasks[t].worker_id,
                                 version |-> tasks[t].lease_version]]_workerVars

\* Whatever the slots, their monitors and the faults do, they do nothing to the store
\* that TaskStore does not allow a holder of a lease: tokens are those that were
\* issued, attempts those that were started under them, outcomes those it expects.  So
\* what is shown of TaskStore holds for the store these workers use.
ImplementsStore == Spec

-----------------------------------------------------------------------------
(* Workers and the fake tool. *)

\* Whatever is lost, retried, taken over or still on its way, a step has at most one
\* effect in the ledger: there are no more than steps that were started.
OneEffectPerStep ==
  \A t \in Tasks :
    Cardinality({row \in effects : row.key[1] = t})
      <= Cardinality({i \in DOMAIN steps[t] : steps[t][i].type = "fake_tool"
                                               /\ steps[t][i].attempt > 0})

\* A step that succeeded had its effect, and the output that was committed is the
\* result the ledger holds for the key: also when the response of the attempt that
\* caused it was lost and a later attempt, or a later owner, got the saved result.
SuccessHasItsEffect ==
  \A t \in Tasks : \A i \in DOMAIN steps[t] :
    steps[t][i].type = "fake_tool" /\ steps[t][i].status = "SUCCEEDED" =>
      \E row \in effects : /\ row.key = <<t, i>>
                           /\ row.payload = steps[t][i].resolved_input
                           /\ row.result = steps[t][i].output

\* All executions of a step agree on its input.  Whoever executes it, in whatever attempt
\* and under whatever lease, the owner or one that takes itself for it, has the input that
\* is persisted; and no key is reused with another payload, so that the tool has no reason
\* to answer 409: every request in flight agrees with the ledger.
ExecutionsAgree ==
  /\ \A s \in Slots :
       slots[s].pc \in {"execute", "await"} =>
         slots[s].input = steps[slots[s].lease.task][slots[s].step].resolved_input
  /\ \A r \in requests : \A row \in effects : row.key = r.key => row.payload = r.payload

\* What the pipeline tells of a task: what its steps are, what they have committed, and
\* what the ledger has of them.
Plan(st) == [i \in DOMAIN st |-> [tool |-> st[i].type = "fake_tool", input |-> st[i].input]]

work ==
  [t \in Tasks |->
     [plan |-> Plan(steps[t]),
      outputs |-> [i \in 1..(tasks[t].current_step - 1) |-> steps[t][i].output],
      ledger |-> {[step |-> row.key[2], payload |-> row.payload, result |-> row.result] :
                    row \in {effect \in effects : effect.key[1] = t}}]]

Promise ==
  INSTANCE Pipeline WITH
    Plans <- {Plan(d.steps) : d \in {def \in Definitions : validateDefinition(def)}},
    Documents <- Value \cup {NULL}, ResultOf <- Wrap

\* Crashes, takeovers, retries, lost responses and late requests together show nothing
\* but a task whose tool steps have their effects one after another, once each, each
\* with the output that the step before it has committed.
ImplementsPipeline == Promise!Spec

-----------------------------------------------------------------------------
(* What must eventually happen to a claim. *)

Executing(s) == slots[s].pc \in {"execute", "await"}

\* A worker that has lost its lease, or whose task is to be cancelled or has passed its
\* deadline, stops executing, even if the execution would go on for ever.
StaleOwnerStops ==
  \A s \in Slots :
    Executing(s) /\ validateOwnership(slots[s].lease) # "nil" ~> ~Executing(s)

\* A slot that gives its claim up becomes free: it does not wait for a monitor that
\* waits for the claim's context.
ReturnCompletes ==
  \A s \in Slots : slots[s].pc = "return" ~> slots[s].pc = "idle"

\* A process that is told to stop comes to the end of Run.
ShutdownCompletes ==
  \A w \in Workers :
    stopping[w] ~> \A s \in Slots : WorkerId(s) = w => slots[s].pc = "idle"

-----------------------------------------------------------------------------
(* What the documents say of StartStep. *)

\* StartStep persists the attempt before the tool is executed: an attempt that a slot
\* executes was started under that slot's lease.
ExecutesWhatItStarted ==
  \A s \in Slots :
    Executing(s) => [step |-> slots[s].step, attempt |-> slots[s].attempt]
                      \in StartedAttempts(slots[s].lease)
=============================================================================
