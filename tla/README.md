# A verification of the durable task runtime

The repository is a task runtime on PostgreSQL. A client posts a task, a list of
steps; workers lease tasks and run the steps one after another; a scheduler
enforces cancellations, deadlines, retries and start times. Processes may crash
at any point, and all that survives is in three tables. This directory holds a
TLA+ model of those tables and of every transaction on them, models of the workers,
of the tool they call and of the clients of the API composed with it, the
configurations that model-check them, two abstract specifications, one that the store
refines and one that store, workers and tool refine together, and proofs.

## Inventory

| component | state | operations | what makes it hard |
|---|---|---|---|
| store (`internal/store`) | `tasks`, `task_steps`, `task_events` | create, claim and take over, renew, start, wait for approval, decide, finish, time out, cancel, due control; reads; confirmation of a lost COMMIT | every caller is concurrent; an owner may be stale; expiry, deadline, retry and schedule are clock readings |
| schema (`migrations/sql`) | columns, defaults, checks, a trigger | | a row the constraint refuses aborts a transition for good |
| api (`internal/api`) | none | create, cancel, approve, reject, get | a request may come late, twice, or in any status |
| scheduler (`internal/scheduler`) | none | `ProcessDueControl` until nothing is due, then wait | several instances; the only one that ends a task nobody holds |
| worker (`internal/worker`) | slots, a claim and two contexts per slot | slot loop, `executeClaim`, heartbeat and cancellation monitor | a monitor races the execution; contexts end by the local clock; crashes |
| executor (`internal/executor`) | none | echo, sleep, flaky, fake_tool; `Classify` | which errors are temporary |
| fake tool (`internal/faketool`) | `fake_tool_effects` | invoke, look up | the effect commits and the response is lost |
| task (`internal/task`) | none | statuses, `ResolveInput`, `ValidateInputReferences` | what is accepted must resolve later |
| config, id, migrations runner, commands | none | parsing, random ids, start-up | not modelled |

The components meet in the store only. Workers, schedulers and API servers hold
no connection to each other: each calls the store, and the row lock of the task
decides who is first. The worker also calls the fake tool over HTTP, with the
step's idempotency key.

What makes each correct:

* store: a lease that was superseded or ran out writes nothing; a live task can
  always go on; committed steps, inputs and decisions stay; attempts are numbered
  in order within the budget; of the verdicts that race one is recorded; a
  cancellation beats success and deadline; the deadline is set once and holds.
* scheduler: whatever is due is eventually done, in the order cancellation,
  deadline, wake-up.
* api and task: what is accepted can be executed.
* worker: it starts and reports steps only as an owner, stops when it is not, and
  leaves the task where the store can recover it.
* fake tool: one effect per key, and the same answer to each repetition.

`PROJECT.json` lists the hazards of the code at their lines, with the properties
that would show them.

## Modules

| module | what it is |
|---|---|
| `TaskStore` | the tables, the clock and every transaction; invariants, action and liveness properties; mutated forms of definitions (each named `<definition>_<fault>`), which no behaviour uses; the other modules have some too |
| `TaskLifecycle` | the abstract specification: the transition table of `docs/mvp-technical-design.md`, section 49.2 |
| `Pipeline` | the abstract specification of what a task's client can rely on: steps that are committed one after another, each call of the tool with one effect, in its turn |
| `TaskStoreProofs` | the inductive invariant of the rows, and the row invariants |
| `TaskStoreSteps` | what each transaction does; the action properties, the refinement of `TaskLifecycle`, the inputs |
| `TaskStoreLog` | the inductive invariant of the event log, and the log invariants |
| `Executor` | the registry of executors: validation, execution and classification of errors, as operators |
| `FakeTool` | the external tool: requests in flight and the ledger of effects |
| `Worker` | slots, monitors, contexts, shutdown and crash, over `TaskStore`, `Executor` and `FakeTool` |
| `Api` | clients of the HTTP API and what they are told, over `TaskStore` |
| `ApiProofs` | the invariants of the clients, over `TaskStoreLog` |
| `WorkerProofs` | the refinement of `TaskStore` and the invariants of the slots, over `TaskStoreLog` |
| `ToolProofs` | the invariants of the tool, over `WorkerProofs` |
| `PipelineProofs` | the refinement of `Pipeline`, over `ToolProofs` |
| `Inputs` | a step's input from POST to execution, on nested JSON documents; extends `Executor`, recursive, for TLC only |
| `MCTaskStore`, `MCWorker`, `MCApi`, `MCInputs` | task definitions and documents for the small instances |

### How the model corresponds to the code

`tasks[t]` is the row of a task, `steps[t]` its step rows, `events[t]` its event
rows, `now` the database clock. Fields have the names of the columns. Left out are
the columns nothing reads back (`tenant_id`, `created_at`, `updated_at`,
`started_at`, `finished_at`), `first_started_at` (written together with
`deadline_at`, which is its only use), and the step timeout, which only the worker
uses. `step_index` counts from 0 in the code and from 1 here. A row that does not
exist has status `"NONE"`.

Every method of `store.Store` that writes is an action, or two or three when its
branches differ (`ClaimTask` is `ClaimRunnable`, `ClaimExpired` and
`ConvergeExpired`). A call that is refused changes nothing, hence is a stuttering
step. JSON documents are members of `Outputs`, with one value `Oversized` past the
size limit. Of an input only the reference it contains matters: none
(`"literal"`), `previous_output` or `checkpoint`; `Inputs` has the rest.

* **One transaction, one action.** Each method takes `FOR UPDATE` on the task's row
  before it decides anything, and reads `clock_timestamp()` after that. Every other
  writer of the task, its steps or its events takes the same lock. So transactions
  on one task are serial, and each reads one instant. Between that reading and the last
  write of the same transaction there are several round trips to the database, which
  are not modelled: section 49.1 of the design makes the check the point at which a
  transaction takes effect, and `created_at` of an event is that instant here, while
  the column's may be slightly later.
* **Candidate scans.** `FOR UPDATE SKIP LOCKED` passes over rows other sessions
  hold, so `ClaimTask` and `ProcessDueControl` may take any row that qualifies, not
  only the first in their order. On one row the order of `ProcessDueControl` is kept.
* **Callers.** A lease token that was ever issued (`IssuedLeases`) may be presented
  at any later time, with any step, any attempt that `StartStep` returned to it
  (`StartedAttempts`) and any outcome; or never again. That covers slow, paused,
  partitioned and crashed workers, several slots under one worker id, heartbeats
  that race with completion, and steps picked from a stale read. It allows more
  than the worker's loop does; `ImplementsStore` checks that it allows no less.
* **Outcomes.** `FinishStep` may be given a checkpoint. The executors of this
  repository return none, but the store's tests do, and the store accepts it.
* **Fact checks.** `stepStartPersisted`, `stepFinishPersisted` and
  `decisionPersisted` are the queries that `commitWithFactCheck` runs after a COMMIT
  that returned an error, as predicates on the tables; `Worker` and `Api` use them.
* **Time** is discrete, and runs only while a live row has a timestamp ahead. When
  none has, no comparison with the clock can change its result.

#### Workers

A slot is a record: `pc` is where `executeClaim` is, `ctx` its `taskContext`,
`monitor` the goroutine of `monitorControl`, and the rest what the slot has read.
Slots of one worker share its id, as in the code.

* **Calls.** A call on the store commits and answers; or it fails and changes
  nothing; or the response of its COMMIT is lost, with or without effect. After a
  lost response `StartStep` and `FinishStep` look for their facts (`ConfirmStart`,
  `ConfirmFinish`), as a step of its own, so that anything may happen in between.
  The look may fail too. A lost response of `ClaimTask` leaves a lease that no slot
  knows of. `WaitForApproval` has a fact check as well, but `executeClaim` returns
  whatever it says, so that it would decide a log line only.
* **LoadTask** is one read in `Worker`: of the steps the worker takes the number, the
  type and the id, which never change. `Api` splits it into its two statements.
* **The monitor** is concurrent with its slot. A tick may come at any time, or never.
  `MonitorNotices` is a `RenewLease` or `CancellationRequested` that says the claim is
  over; `MonitorFails` any other error, which stops the claim too.
* **Contexts.** `taskContext` ends once: cancelled, or past its deadline by the
  worker's clock, which may be `ClockSkew` ahead. The step's own timeout may fire at
  any moment of an execution. An `echo` ignores contexts; a `sleep` and a call of the
  tool may last for ever while theirs is live.
* **The tool.** `Post` puts a request on its way; `record` or `recordFails` handles it,
  at any time, also after its client has given up, crashed, or tried again;
  the response is read by a client that still waits. The first response to a
  `block_first_response` payload never comes. `request_count` is left out.
* **Processes.** `Shutdown` is the end of the parent context, `Restart` the start
  after `Run` has returned, `Crash` a kill at any moment, which loses the slots and
  nothing else.

#### Clients

A client has one request at a time. A decision, a cancellation or a creation may be
committed and answered 500; a decision is looked up first. It then may repeat the
request or send another. A GET of a task and of its events reads the three tables
one after another, with any transactions in between. `applied` is the only
variable the code does not have: the decisions of a client that were committed,
whatever it was told.

#### Inputs

A document is a record of its kind and content. `validateReferences` and
`resolveValue` are the recursions of `resolve.go`; that Go walks a map in any order
matters only for which of several errors is returned. The reference
definition, `Substituted`, knows a document as the set of its positions and does not
recurse over references.

`json.Unmarshal` is modelled twice, as `executor.go` uses it. The validators of echo and
sleep decode a map and look a key up as it is written (`decodeMap`); everything else
decodes a struct, where a key stands for a field in any case of its letters, each
spelling is decoded in the order of the document, and one of the wrong type makes the
document undecodable (`decodeStruct`). A validator sees the keys in the order in which the
client wrote them, any order; an executor sees them sorted, as `json.Marshal` and `jsonb`
leave them, capitals before small letters. Of a field there is one spelling besides the
exact one; the same key written twice, which `jsonb` removes, and the folding of
letters outside ASCII are left out. A reference to a checkpoint that is absent or `null` does
not resolve; no executor of the repository reports a checkpoint, so the column holds its
default or what a caller of `FinishStep` may put there.

## Runs

| run | bounds | shows |
|---|---|---|
| `core` | 1 task, 2 workers, 2 documents, lease of 2 | the row and log invariants, the action properties, and that `TaskStore` refines `TaskLifecycle` |
| `pair` | 2 tasks, 1 worker | tasks do not disturb each other once they have ended |
| `ends` | 1 task, 1 worker, `FairSpec` | every accepted task gets a verdict |
| `cancel` | 1 task, 1 worker, `SchedulerSpec` | a recorded cancellation takes effect |
| `approval_output` | approval, then `previous_output` | violated; see below |
| `worker` | 1 task, 2 workers with 1 slot, lease of 1, clock 1 ahead | ownership, fact checks and the tool, under every fault |
| `pipeline` | 1 task, 1 worker, lease of 1, clock 1 ahead | store, worker and tool refine `Pipeline` |
| `worker_live` | 1 task, 1 worker with 2 slots, lease of 2, clock 1 ahead, `FairWorkerSpec` | slots stop, return and shut down; leases are renewed for held claims only; refinement of `TaskStore` |
| `worker_confirm` | 1 task of one tool step, 2 workers | violated; see below |
| `api` | 1 task, 1 worker, 2 clients | answers hold, views are consistent |
| `inputs` | 126 documents of depth up to 4, 6 step types, first or later step, 4 outputs, 4 checkpoints | validation, resolution and execution agree, but for a second spelling of a sleep's duration |
| `inputs_spelling` | the same | violated; see below |

The task definitions of `core` are a retried step followed by one
that refers to its output; a scheduled task with a checkpoint reference, an
approval in the middle and a step after it; an approval alone; and a scheduled step
of three attempts, whose delays are 1 and 2; besides two
bodies that the API refuses. The task timeout of 3, 4 or 5 leaves room for a takeover,
for the retries with their delays, and for both before the deadline; leases and
deadlines bound `now`, so the state spaces are finite without any constraint on
states. Two workers are enough for a stale owner beside a new one; the same worker
may also claim twice, so that its name does not tell its leases apart. One task is
enough for most properties because no transaction touches two; `pair` checks that.
The delay's cap of 60 seconds, which takes seven attempts, is beyond these bounds.

The definitions of `worker` are two tool steps, the first retried and the second fed
with the first one's result; a flaky step before an approval; and a sleep with a single attempt, which a takeover fails as `worker_lost`. A timeout of
2 and a lease of 1 let a lease run out, with a takeover and a second attempt, before
the deadline. The tool's first response blocks for a literal payload, so that the
retry finds the effect recorded. Its two workers are interchangeable
(`SYMMETRY`), and only invariants are checked in that run. `pipeline` has the two tool
steps again, and an approval between two tool steps; one worker is enough there, since a
worker that has crashed, or lost its lease, takes its own task over while its old
requests are still on their way. `worker_live` has two slots
of the same worker, so that a worker's old and new claims share its id, and a lease of 2,
so that a renewal can prolong it; a sleep with a timeout of 3 can lose its lease, be
cancelled, or pass its deadline, by its worker's clock before the database's. In `api`, two clients suffice for opposite
decisions and for a cancellation beside a decision; they are interchangeable too.

What the properties say:

* Rows: `OwnershipMatchesStatus` is the table's check constraint. `StepsBehindCursor` ties `current_step` to the steps' statuses.
  `NeverStuck` says that the current step of a live task can be started within its
  budget, is running, or awaits a decision. `Attended` says that no live task falls
  between the scans of the scheduler and of `ClaimTask`: one of them selects it, or will
  at a moment still to come. `InputsFromCommittedFacts` says where a persisted input came
  from.
* Log: `FencedWrites`, `AttemptsInOrder`, `OneVerdict`, `NeverEarly` and
  `NothingAfterDeadline` speak of the order, the leases and the times in the events.
  `NeverEarly` is about starts, retries and takeovers: a lease lasts its whole duration.
  `EndsAsItBegan` says that an attempt ends once, under the lease that started it.
* Steps: `TerminalIsFinal`, `CancelSticks`, `DeadlineHolds`, `ExpiredLeaseIsDead` and
  `FactsPersist` say what no transaction may do. `DueUntilTaken` says that what a scan
  would select now is still there for a poll that comes late, unless it was taken.

* Workers: `OwnerMeetsNoConflict` says that while a slot owns its claim nobody else
  moves the task, so that the store never answers an owner with a conflict.
  `ConfirmedFinishIsOwn` says that the fact check of `FinishStep` is not deceived: when
  it says yes, the log has the success or the failure that the slot reports, of its
  attempt and under its lease, and no `LEASE_EXPIRED` of that lease before it. The last part
  matters: a takeover that finds the budget spent writes a `STEP_FAILED` with the lost
  lease, which only the error `worker_lost` tells from one that the slot has written.
  `OnlyHeldClaimsAreRenewed` says that no monitor outlives its claim. `ExecutionsAgree`
  says that whoever executes a step, also by mistake, does so with the persisted input,
  and that the tool never has a reason to answer 409.
  `ImplementsStore` says that all this is a behaviour of `TaskStore`.
* Tool: `OneEffectPerStep` and `SuccessHasItsEffect` are what the
  idempotency key is for: at-least-once execution with one effect, whose
  result is what the step committed. `ImplementsPipeline` adds the order: each call takes
  effect in its step's turn, after the step before has committed the output that it is
  fed with, and before its own step is committed.
* Claims: `StaleOwnerStops`, `ReturnCompletes` and `ShutdownCompletes`.
* Clients: `DecisionAnswersHold`, `CommittedDecisionNotRefused`, `CancelAnswersHold`
  and `ViewsAreConsistent`, the last of which rests on the order of `LoadTask`'s
  statements: the task first.
* Inputs: `AcceptedInputsResolve` and `ReplacesReferencesOnly` compare validation and
  resolution with the definition by positions. `OnlyASecondSpellingFails` compares the
  two decoders: what was checked on the configured input holds for the resolved one that
  the executor decodes, with the exception that the last finding is about.

**Fairness.** A scheduler polls until it is stopped, so `ProcessDueControl(t)` is
weakly fair: what is due stays due until it is taken, and the rows ahead of it in
the scan's order are finitely many. A slot polls for claims whenever it holds none,
so claiming is weakly fair, under the deployment's assumption that some slot is
free again and again. Nothing is assumed of a worker after its claim: it may crash
each time. `SchedulerSpec` drops the workers. A client owes nothing: an approval
may never come, and `EveryTaskEnds` then rests on the deadline.

In `FairWorkerSpec` a slot takes its next step, since every call of the store is
bounded by a context or by the database's lock and statement timeouts; an execution
returns once its context has ended, since each executor watches it or is short; and
the tickers of a monitor fire. An execution whose context is live may go on for ever,
the tool may never answer, and no process is assumed to do anything else.

### The findings

The API lets a step refer to `previous_output` when it is not the first
(`internal/api/handler.go:208`). An approved step has no output, so a reference to
it cannot be resolved, and `StartStep` returns an error at every claim
(`store.go:482`, `task/resolve.go`). The worker logs the error and lets the lease
run out, and the task is claimed again and again until its deadline. The
specification (`.scratch/mvp/spec.md:22`) wants such requests refused when posted,
and `README.md:85` excludes the first step only. Run `approval_output` reaches the
state; run `ends`, which contains this definition, shows that the task still ends.

`StartStep`, when its COMMIT returns an error, asks `stepStartPersisted` (`store.go:1210`)
whether the start is there. The query compares the step's status, attempt and input,
and step and attempt of the event; it does not compare the worker and the lease version,
which the event has too. In run `worker_confirm` a worker's COMMIT has no effect, its
lease runs out, another worker takes the task over, no attempt having been consumed,
and starts the same attempt with the same input. The first worker's check says yes
and it executes an attempt that was started under another lease. `README.md:133`
wants success only if the persisted facts match completely. The harm is
bounded, as runs `worker` and `core` show with the same fault and the proofs in general:
the late worker executes the step with the same input (`ExecutionsAgree`), the tool has
one effect (`OneEffectPerStep`), and its `FinishStep` takes no effect, since what takes
effect is of an attempt that was started under the caller's lease (`ImplementsStore`,
`EndsAsItBegan`); a step without an idempotent tool would be
executed twice at the same time. `stepFinishPersisted` has the same gap but is not
deceived (`ConfirmedFinishIsOwn`): a takeover consumes the attempt, so that the next one has
another number, and if none is left the step fails with an error that no slot reports.

`validateSleep` reads the key `duration` of a map (`executor.go:158`), and `executeSleep`
decodes a struct (`executor.go:175`), whose field `encoding/json` fills from `DURATION`
too. So `{"duration":"1s","DURATION":5}` is accepted, and the step fails with "invalid
sleep input" when it is executed: run `inputs_spelling`. The design
(`docs/mvp-technical-design.md:2324`) wants an invalid input refused on creation.
It goes no further, as run `inputs` shows: a string in the other spelling does not take
the place of the duration that was checked, since the executor reads the keys sorted and the
exact one comes last; and the other executors accept what their validators do.

## Proofs

Every safety property that the runs check, except those of `Inputs`, is a theorem, and so is
`ClocksMatchStatus` (retry time, deadline and cancellation mark agree with the status), for
any sets of tasks, workers, clients, documents and definitions, any number of slots and
any positive lease duration:

| module | proves |
|---|---|
| `TaskStoreProofs` | `TypeOK`, `OwnershipMatchesStatus`, `ClocksMatchStatus`, `StepsBehindCursor`, `NeverStuck` |
| `TaskStoreSteps` | `TerminalIsFinal`, `CancelSticks`, `DeadlineHolds`, `ExpiredLeaseIsDead`, `FactsPersist`, `DueUntilTaken`, `ImplementsLifecycle`, `InputsFromCommittedFacts` |
| `TaskStoreLog` | `OneVerdict`, `NothingAfterDeadline`, `FencedWrites`, `AttemptsInOrder`, `NeverEarly`, `EndsAsItBegan`, `Attended` |
| `ApiProofs` | `ApiSpec => Spec`; `DecisionAnswersHold`, `CommittedDecisionNotRefused`, `CancelAnswersHold`, `ViewsAreConsistent` |
| `WorkerProofs` | `ImplementsStore`, `WorkerTypeOK`, `OwnerMeetsNoConflict`, `ConfirmedFinishIsOwn`, `OnlyHeldClaimsAreRenewed` |
| `ToolProofs` | `OneEffectPerStep`, `SuccessHasItsEffect`, `ExecutionsAgree` |
| `PipelineProofs` | `ImplementsPipeline` |

The assumptions are those the modules state of their constants. `TaskStore`: `NULL` is
none of the values, `Oversized` is not an acceptable document, the lease duration is
positive, definitions are well-formed records. `Worker`: there is a slot, a result of
the tool is an acceptable document, the value of a flaky input is a document or absent,
and `NULL` is no error (`NilAssumption`). `Api`: `NULL` is no decision
(`DecisionAssumption`). Whether a definition is acceptable is decided by
`validateDefinition`, not assumed.

**Rows.** None of the five row invariants is inductive. That a takeover leaves the step
startable (`NeverStuck`) needs that a running step is the current one
(`StepsBehindCursor`) and that its attempt is within the budget; that the cursor stays
within the steps needs that a live task's current step exists; that a success or a
takeover leaves no retry time behind, which neither of them clears, needs that a running
task has none (`ClocksMatchStatus`). The inductive invariant `IInv` is the type
invariant and, of every task, all of them together with the bound on attempts
(`Coherent`). It speaks of one task at a time, and so does a transaction:
`CommitPreserves` reduces each action to the new row, steps and events of its task. Then
there is one lemma for each action, over lemmas on what the current step's change does
to coherence: it stays the current step (`CoherentStay`), it is passed
(`CoherentAdvance`), or only the row changes (`CoherentRow`).

**Transactions.** `TaskStoreSteps` shows once (`NextEffect`) that a step of the store
moves the clock or has one of thirteen effects on one task (`Effect`): which columns it
writes, which it keeps, what it appends to the log. Two actions with the same effect,
such as a cancellation and a deadline that end a task, are one case from there on. The
action properties and the step of the refinement are then read off the effects; they
need `IInv`, for what an effect finds in the row, and for `FactsPersist` also that a
task not yet created has neither steps nor events (`Blank`), since a creation would
otherwise overwrite them. `DueUntilTaken` is read off them too (`EffectDue`): an expired
lease can only be marked, taken over or ended, because every write of its owner requires
one that has not expired. `InputsFromCommittedFacts` is inductive once it is stated of
the step at its own position (`Sourced`), with `IInv`: the step before a current one has
succeeded, and what has succeeded is not written again.

**Log.** The log invariants compare events with each other, while a transaction sees
only the row. `LogInv` ties the two together: `Past`, no event is later than the clock;
`Dated`, the deadline and `run_at` against the clock; `Verdict`, there is a terminal
event exactly when the status is terminal; `Held`, the last claim in the log is the
lease of a running row, without which an event that carries the row's token could not
be said to carry the latest one (`Fenced`); `Counted`, an attempt in the log is one that
the step's counter has reached, and each success and each failure of a task that goes on
is in the log (`InOrder`); `Waited`, the delay of each temporary failure is over, or
the row still has its retry time (`Due`). For the newer ones: `Lasting`, the lease of a
running row ends no sooner than the lease duration after every claim in the log, which is
what a takeover (`Lapsed`) finds over; `Begun`, the attempt that runs was started under
the row's lease, so that what ends it, in that lease's name, ends what it began
(`EndsOnce`); `Superseded`, the lease of each `LEASE_EXPIRED` is no longer the lease of a
live row. `Attended` needs of the log only `Dated`: a RUNNABLE row is due to run, or
`ClaimTask` would pass over it and the scheduler too. One lemma for each part
(`PastKept` to `DueKept`) says that a log with the events of any effect appended keeps it.

**Clients.** `ApiSpec => Spec`: a client does to the store what `TaskStore` lets it do.
So the store's invariants and action properties hold beside clients. `Honest` says what
a client knows at each point: an answer agrees with the tables and, the tables' facts
being persistent (`FactsPersist`, `CancelSticks`, `TerminalIsFinal`), continues to; the
decisions of `applied` are those that were saved; a row that a load has read is not
ahead of the one there now (`NotAhead`). `EndsFailed`, that a task which ended without
success has failed at its cursor, is what a view of such a task needs.

**Workers.** `Knows` says, for each program point of `executeClaim`, what a slot that
holds the lease finds in the tables: the step it has read is current and startable, the
attempt it executes is the one that runs, an unanswered `FinishStep` left no trace or
its own. The invariants of `Worker` are consequences of it and none is inductive:
`OwnerMeetsNoConflict` speaks of the points before a call, but it is the load and the
start, several steps earlier, that establish it. It is preserved because no two slots
hold one lease (`Distinct`) and only the holder of a lease advances its task
(`Advances`, `Calls`): a step of another slot, of the scheduler or of a client either
leaves the slot's task where it was, or ends the lease. What the
fact check of `FinishStep` may find is `FinishSeen`: the attempt still runs; or the slot's
own event, success or failure, is in the log, before any `LEASE_EXPIRED` of its lease;
or the attempt has failed with `worker_lost`, or its task was cancelled or timed out; or a
later attempt was started. Only the second can pass the check. It rests on `Begun` and on
`Superseded` of the log, that a lease is superseded, or its task ended, as soon
as its `LEASE_EXPIRED` is written; the fact check of `StartStep` has nothing of the kind. `WorkerInv` is proved together with
`IInv`, `Blank`, `LogInv` and `StoreInv`, since the refinement of `TaskStore` needs that
a slot's token was issued and its attempt started, which is a fact of the log.

**Tool.** `ToolInv` has four parts. `Ledger`: one row for each key, and each row is
`Backed`, its payload is the persisted input of a tool step that was started, which
never changes. `Requested`: so is each request in flight, whoever has sent it, and a
response of 200 follows its row. `Told`: what a slot is about to report as success is
that response. `Earned`: what succeeded is in the ledger; only `FinishStep` makes a tool
step succeed (`NoSuccess`). `SuccessHasItsEffect` follows at once, `ExecutionsAgree`
with what `WorkerInv` says of an executing slot, and `OneEffectPerStep` by an injection of the rows of a task into its started tool
steps.

**Pipeline.** The mapping `work` shows of a task its definitions, the outputs before the
cursor and its rows in the ledger. Three kinds of steps are seen. `CreateTask` is
`Accept`: a blank task has no rows, as every row is `Backed` by a step. A first record of
a key is `Affect` (`RecordAffects`): its request is `Backed` by a step that was started;
a step before the cursor has succeeded and so has its row (`Earned`), and one behind it
is untouched, hence the step is the current one (`RecordsCurrent`), and its payload comes
from the output before the cursor (`Sourced`). A transaction that moves the cursor is
`Advance` (`CommitAdvances`), and `Earned` of the state after it gives the row. Every
other step is a stutter (`StoreWorks`). `Earned`, `Backed` and the cursor are invariants
of different modules, and none alone orders the effects.

TLC had checked these invariants on the instances of the runs `api` (`IInv`, `LogInv`,
`ApiInv`) and `worker` (`WorkerInv`, `StoreInv`, `ToolInv`) before they were proved.

**Only model-checked.** The liveness properties (`EveryTaskEnds`, `CancelTakesEffect`,
`StaleOwnerStops`, `ReturnCompletes`, `ShutdownCompletes`): they rest on fairness, which
these provers do not handle. The properties of `Inputs`: its functions recurse over
documents, and an induction over data is out of the provers' reach. And the three
properties that are violated.

## Not modelled

* The fact check of `WaitForApproval`, which decides a log line only.
* `request_count` of the fake tool and `GET /effects`, which only report; requests that
  the tool or the API refuse for their text.
* The limits on sizes outside `FinishStep`: a body, a payload or a response too large
  is one more refused request or permanent failure.
* A POST /tasks that is repeated after a 500: nothing tells the second task from a
  new one, and nothing promises to.
* The trigger on step definitions: no transaction writes those columns. Lock and
  statement timeouts: they make a call fail without effect.
* Configuration, ids, the migrations runner and the commands: parsing, random
  numbers and wiring.

## Plan

1. Done: `TaskStore`, `TaskLifecycle`, their runs, the row invariants proved.
2. Done: `Worker` with `Executor` and `FakeTool`, the fact checks, `Api`, `Inputs`.
3. Done: the action properties, the refinement of `TaskLifecycle`, the log invariants.
4. Done: `Api`, `Worker` and the tool: their refinement of `TaskStore` and invariants.
5. Done: `Pipeline` and its refinement; what liveness needs that is not temporal
   (`Attended`, `DueUntilTaken`); that a start confirmed by mistake does no harm beyond
   its execution (`EndsAsItBegan`, `ExecutionsAgree`).
6. Left: the temporal part of the liveness properties, for a prover that handles fairness,
   and the inductions over documents of `Inputs`.
