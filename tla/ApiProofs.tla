------------------------------ MODULE ApiProofs ------------------------------
(***************************************************************************)
(* Why the answers of the API hold.  Every step of a client is a           *)
(* transaction of the store or leaves it alone, so that all that is proved *)
(* of the store holds here; what a client knows is kept by the store's     *)
(* steps because decisions persist, verdicts are final, a cancellation     *)
(* sticks and the cursor only advances.                                    *)
(***************************************************************************)
EXTENDS Api, TaskStoreLog

\* Every step of the composition is a step of the store, or leaves it alone.
LEMMA ApiStoreStep == [ApiNext]_apiVars => [Next]_vars
<1>1. ASSUME NEW c \in Clients, ClientRequest(c) PROVE [Next]_vars
  <2>1. ASSUME NEW t \in Tasks, NEW d \in Definitions, createTask(c, t, d) PROVE Next
    BY <2>1 DEF createTask, Next, ClientStep
  <2>2. ASSUME NEW t \in Tasks, getTask(c, t) PROVE UNCHANGED vars
    BY <2>2 DEF getTask
  <2>3. ASSUME NEW t \in Tasks, cancelTask(c, t) PROVE [Next]_vars
    BY <2>3 DEF cancelTask, Reply, Next, ClientStep
  <2>4. ASSUME NEW t \in Tasks, NEW i \in DOMAIN steps[t], NEW decision \in {"approved", "rejected"},
               decideApproval(c, t, i, decision)
        PROVE  [Next]_vars
    BY <2>4 DEF decideApproval, Decide, Reply, Next, ClientStep
  <2>5. ASSUME confirmDecision(c) \/ LoadNext(c) PROVE UNCHANGED vars
    BY <2>5 DEF confirmDecision, LoadNext, Reply
  <2>. QED  BY <1>1, <2>1, <2>2, <2>3, <2>4, <2>5 DEF ClientRequest
<1>2. CASE Others
  BY <1>2 DEF Others, Next
<1>3. CASE UNCHANGED apiVars
  BY <1>3 DEF apiVars, vars
<1>. QED  BY <1>1, <1>2, <1>3 DEF ApiNext

\* The store that the clients of the API see behaves as TaskStore says.
THEOREM ApiImplementsStore == ApiSpec => Spec
<1>1. ApiInit => Init
  BY DEF ApiInit
<1>. QED  BY <1>1, ApiStoreStep, PTL DEF ApiSpec, Spec

-----------------------------------------------------------------------------
(* What the store's steps do to the facts that an answer rests on. *)

\* A task that did not succeed shows the step that it failed at.
EndsFailed ==
  \A t \in Tasks :
    tasks[t].status \in TerminalStatus \ {"SUCCEEDED"} =>
      steps[t][tasks[t].current_step].status = "FAILED"

\* The cursor advances by at most one step, and a verdict other than success fails the
\* current one.
LEMMA EffectCursor ==
  ASSUME NEW row, NEW st, NEW new, NEW st2, NEW log, Effect(row, st, new, st2, log),
         row.status # "NONE"
  PROVE  /\ new.current_step \in {row.current_step, row.current_step + 1}
         /\ new.status \in TerminalStatus \ {"SUCCEEDED"} =>
              st2[new.current_step].status = "FAILED"
BY DEF Effect, CreateEffect, MarkEffect, WakeEffect, ClaimEffect, RecoverEffect, Claims,
       ConvergeEffect, StartEffect, WaitEffect, FailEffect, SucceedEffect, ControlEffect,
       ApproveEffect, RejectEffect, KeepsCursor, LosesOwner, Active, TerminalStatus

\* Every step of the store leaves an ended task with its failed step.
LEMMA NextEndsFailed == IInv /\ Blank /\ EndsFailed /\ [Next]_vars => EndsFailed'
<1> SUFFICES ASSUME IInv, Blank, EndsFailed, [Next]_vars, NEW t \in Tasks,
                    tasks'[t].status \in TerminalStatus \ {"SUCCEEDED"}
             PROVE  steps'[t][tasks'[t].current_step].status = "FAILED"
  BY DEF EndsFailed
<1>1. CASE ~Transacts(t)
  BY <1>1, TaskStep DEF EndsFailed
<1>2. CASE Transacts(t)
  <2>1. PICK log \in Seq(EventRow) : Effect(tasks[t], steps[t], tasks'[t], steps'[t], log)
    BY <1>2 DEF Transacts
  <2>2. CASE tasks[t].status = "NONE"
    BY <2>1, <2>2, EffectStatus DEF CreateEffect, TerminalStatus
  <2>3. CASE tasks[t].status # "NONE"
    BY <2>1, <2>3, EffectCursor
  <2>. QED  BY <2>2, <2>3
<1>. QED  BY <1>1, <1>2

\* What every step of the store keeps of a task.
LEMMA StoreKeeps ==
  ASSUME IInv, Blank, [Next]_vars, NEW t \in Tasks
  PROVE  /\ tasks'[t].current_step >= tasks[t].current_step
         /\ tasks[t].status \in TerminalStatus => tasks'[t] = tasks[t]
         /\ tasks[t].status = "RUNNING" /\ tasks[t].cancel_requested =>
              tasks'[t].status \in {"RUNNING", "CANCELLED"} /\ tasks'[t].cancel_requested
         /\ \A i \in DOMAIN steps[t] :
              /\ i \in DOMAIN steps'[t]
              /\ steps[t][i].approval_decision # NULL =>
                   steps'[t][i].approval_decision = steps[t][i].approval_decision
<1>1. /\ tasks[t] \in TaskRow /\ steps[t] \in Seq(StepRow) /\ Coherent(tasks[t], steps[t])
      /\ tasks[t].current_step \in Nat
  BY TaskFacts, RowFields DEF IInv, TypeOK
<1>2. CASE ~Transacts(t)
  <2>1. tasks'[t] = tasks[t] /\ steps'[t] = steps[t]
    BY <1>2, TaskStep
  <2>. QED  BY <1>1, <2>1
<1>3. CASE Transacts(t)
  <2>1. PICK log \in Seq(EventRow) : Effect(tasks[t], steps[t], tasks'[t], steps'[t], log)
    BY <1>3 DEF Transacts
  <2>2. CASE tasks[t].status = "NONE"
    <3>1. NoTask.current_step = 1
      BY DEF NoTask
    <3>2. steps[t] = <<>> /\ tasks[t].current_step = 1
      BY <2>2, <3>1 DEF Blank
    <3>3. tasks'[t].current_step = 1
      BY <2>1, <2>2, EffectStatus DEF CreateEffect
    <3>. QED  BY <2>2, <3>2, <3>3 DEF TerminalStatus
  <2>3. CASE tasks[t].status # "NONE"
    <3>1. tasks'[t].current_step \in {tasks[t].current_step, tasks[t].current_step + 1}
      BY <2>1, <2>3, EffectCursor
    <3>2. tasks[t].status \notin TerminalStatus
      BY <2>1, EffectStatus DEF LiveStatus, TerminalStatus
    <3>3. tasks[t].status = "RUNNING" /\ tasks[t].cancel_requested =>
            tasks'[t].status \in {"RUNNING", "CANCELLED"} /\ tasks'[t].cancel_requested
      BY <1>1, <2>1, EffectCancelling DEF MarkEffect, ControlEffect, Leaves, KeepsCancel
    <3>4. ASSUME NEW i \in DOMAIN steps[t]
          PROVE  /\ i \in DOMAIN steps'[t]
                 /\ steps[t][i].approval_decision # NULL =>
                      steps'[t][i].approval_decision = steps[t][i].approval_decision
      BY <1>1, <2>1, <2>3, EffectSteps DEF WritesCurrent
    <3>. QED  BY <1>1, <3>1, <3>2, <3>3, <3>4
  <2>. QED  BY <2>2, <2>3
<1>. QED  BY <1>2, <1>3

-----------------------------------------------------------------------------
(* What a client knows, against the tables ts and ss. *)

\* The decision that r asks for is the one that was saved.
Decided(r, ss) ==
  /\ r.step \in DOMAIN ss[r.task]
  /\ r.decision # NULL
  /\ ss[r.task][r.step].approval_decision = r.decision

\* What an answer to POST /cancel says of the task's row.
CancelHolds(answer, row) ==
  /\ answer = 200 => row.status = "CANCELLED"
  /\ answer = 202 => row.cancel_requested /\ row.status \in {"RUNNING", "CANCELLED"}
  /\ answer = 409 => row.status \in TerminalStatus \ {"CANCELLED"}

\* The decisions of a client that were committed are the ones that were saved.
AppliedHold(applied, ss) == \A r \in applied : r.op = "decide" /\ r.task \in Tasks /\ Decided(r, ss)

\* What the client was told of request r, having these decisions behind it.
AnswerHolds(r, answer, applied, ts, ss) ==
  /\ r # NULL => r.task \in Tasks
  /\ r # NULL /\ r.op = "decide" /\ answer = 200 => Decided(r, ss)
  /\ r # NULL /\ r.op = "cancel" => CancelHolds(answer, ts[r.task])
  /\ r \in applied => answer # 409

\* A client that waits for the fact check, or for the rest of a load, has sent this.
Asks(pc, r, ss) ==
  /\ pc = "confirm" => /\ r.op = "decide" /\ r.task \in Tasks /\ r.decision # NULL
                       /\ r.step \in DOMAIN ss[r.task]
  /\ pc = "read" => r.op \in {"create", "get"} /\ r.task \in Tasks

\* The row that was read first is not ahead of the one that is there now.
NotAhead(seen, row) ==
  /\ seen.current_step \in Nat
  /\ seen.current_step <= row.current_step
  /\ seen.status \in TerminalStatus =>
       row.status = seen.status /\ row.current_step = seen.current_step

\* How far a load has come.
Loading(client, ts) ==
  /\ client.read \in 0..2
  /\ client.read = 0 => client.view.task = NULL
  /\ client.read # 0 => NotAhead(client.view.task, ts[client.request.task])
  /\ client.read # 2 => client.view.steps = NULL
  /\ client.view.events = NULL

\* The steps shown agree with the task shown before them.
StepsAgree(seen, shown) ==
  /\ \A i \in DOMAIN shown : i < seen.current_step => shown[i] = "SUCCEEDED"
  /\ seen.status = "SUCCEEDED" => \A i \in DOMAIN shown : shown[i] = "SUCCEEDED"
  /\ seen.status \in TerminalStatus \ {"SUCCEEDED"} => shown[seen.current_step] = "FAILED"

ViewHolds(view) ==
  view.task # NULL =>
    /\ view.steps # NULL => StepsAgree(view.task, view.steps)
    /\ view.events # NULL /\ view.task.status \in TerminalStatus =>
         view.events = TerminalEvent[view.task.status]

\* The record of a client, field by field.
Client(pc, r, answer, applied, read, view) ==
  [pc |-> pc, request |-> r, answer |-> answer, applied |-> applied, read |-> read, view |-> view]

View(seen, shown, last) == [task |-> seen, steps |-> shown, events |-> last]

Shaped(client) ==
  /\ client = Client(client.pc, client.request, client.answer, client.applied, client.read,
                     client.view)
  /\ client.view = View(client.view.task, client.view.steps, client.view.events)

Honest(client, ts, ss) ==
  /\ Shaped(client)
  /\ AppliedHold(client.applied, ss)
  /\ AnswerHolds(client.request, client.answer, client.applied, ts, ss)
  /\ Asks(client.pc, client.request, ss)
  /\ ViewHolds(client.view)
  /\ client.pc = "read" => Loading(client, ts)

ApiInv ==
  /\ clients = [c \in Clients |-> clients[c]]
  /\ \A c \in Clients : Honest(clients[c], tasks, steps)

\* What a client knows stays true whatever happens to the store.
LEMMA HonestKept ==
  ASSUME IInv, Blank, [Next]_vars, NEW client, Honest(client, tasks, steps)
  PROVE  Honest(client, tasks', steps')
<1> DEFINE r == client.request
<1>1. ASSUME NEW q, q.task \in Tasks, Decided(q, steps) PROVE Decided(q, steps')
  BY <1>1, StoreKeeps DEF Decided
<1>2. AppliedHold(client.applied, steps')
  BY <1>1 DEF Honest, AppliedHold
<1>3. ASSUME NEW t \in Tasks, NEW answer, CancelHolds(answer, tasks[t])
      PROVE  CancelHolds(answer, tasks'[t])
  <2>1. answer = 200 => tasks'[t].status = "CANCELLED"
    BY <1>3, StoreKeeps DEF CancelHolds, TerminalStatus
  <2>2. answer = 409 => tasks'[t].status \in TerminalStatus \ {"CANCELLED"}
    BY <1>3, StoreKeeps DEF CancelHolds
  <2>3. answer = 202 => tasks'[t].cancel_requested /\ tasks'[t].status \in {"RUNNING", "CANCELLED"}
    <3>1. CASE tasks[t].status = "CANCELLED"
      BY <1>3, <3>1, StoreKeeps DEF CancelHolds, TerminalStatus
    <3>2. CASE tasks[t].status # "CANCELLED"
      BY <1>3, <3>2, StoreKeeps DEF CancelHolds
    <3>. QED  BY <3>1, <3>2
  <2>. QED  BY <2>1, <2>2, <2>3 DEF CancelHolds
<1>4. AnswerHolds(r, client.answer, client.applied, tasks', steps')
  BY <1>1, <1>3 DEF Honest, AnswerHolds
<1>5. Asks(client.pc, r, steps')
  BY StoreKeeps DEF Honest, Asks
<1>6. ASSUME NEW t \in Tasks, NEW seen, NotAhead(seen, tasks[t]) PROVE NotAhead(seen, tasks'[t])
  <2>1. tasks[t] \in TaskRow /\ tasks[t].current_step \in Nat
    BY TaskFacts, RowFields
  <2>2. tasks'[t] \in TaskRow /\ tasks'[t].current_step \in Nat
    BY NextIInv, RowFields DEF IInv, TypeOK
  <2>. QED  BY <1>6, <2>1, <2>2, StoreKeeps DEF NotAhead
<1>7. client.pc = "read" => Loading(client, tasks')
  BY <1>6 DEF Honest, Asks, Loading
<1>. QED  BY <1>2, <1>4, <1>5, <1>7 DEF Honest

-----------------------------------------------------------------------------
(* The steps of the clients. *)

NoView == View(NULL, NULL, NULL)

\* What the handlers leave the client with, field by field.
LEMMA Answers ==
  ASSUME NEW client, NEW r, NEW answer
  PROVE  /\ Answered(client, r, answer) = Client("ready", r, answer, client.applied, 0, NoView)
         /\ Confirming(client, r) = Client("confirm", r, NULL, client.applied, 0, NoView)
         /\ Reading(client, r) = Client("read", r, NULL, client.applied, 0, NoView)
<1>1. NewClient = Client("ready", NULL, NULL, {}, 0, NoView)
  BY DEF NewClient, Client, NoView, View
<1>2. ASSUME NEW a
      PROVE  Answered(client, r, a) = Client("ready", r, a, client.applied, 0, NoView)
  <2> DEFINE applied == client.applied
  <2> HIDE DEF applied
  <2>1. Answered(client, r, a) =
          [[[NewClient EXCEPT !.request = r] EXCEPT !.answer = a] EXCEPT !.applied = applied]
    BY DEF Answered, applied
  <2>2. [NewClient EXCEPT !.request = r] = Client("ready", r, NULL, {}, 0, NoView)
    BY <1>1 DEF Client
  <2>3. [Client("ready", r, NULL, {}, 0, NoView) EXCEPT !.answer = a]
          = Client("ready", r, a, {}, 0, NoView)
    BY DEF Client
  <2>4. [Client("ready", r, a, {}, 0, NoView) EXCEPT !.applied = applied]
          = Client("ready", r, a, applied, 0, NoView)
    BY DEF Client
  <2>. QED  BY <2>1, <2>2, <2>3, <2>4 DEF applied
<1>3. ASSUME NEW pc, NEW a, NEW applied
      PROVE  [Client("ready", r, a, applied, 0, NoView) EXCEPT !.pc = pc]
               = Client(pc, r, a, applied, 0, NoView)
  BY DEF Client
<1>. QED  BY <1>2, <1>3 DEF Confirming, Reading

\* A client that has just been answered, or whose request is under way, and has read
\* nothing knows the truth if its answer is true.
LEMMA FreshHonest ==
  ASSUME NEW pc, NEW r, NEW answer, NEW applied, NEW ts, NEW ss,
         AppliedHold(applied, ss), AnswerHolds(r, answer, applied, ts, ss), Asks(pc, r, ss)
  PROVE  Honest(Client(pc, r, answer, applied, 0, NoView), ts, ss)
<1> DEFINE client == Client(pc, r, answer, applied, 0, NoView)
<1>1. /\ client.pc = pc /\ client.request = r /\ client.answer = answer
      /\ client.applied = applied /\ client.read = 0 /\ client.view = NoView
  BY DEF Client
<1>2. /\ NoView.task = NULL /\ NoView.steps = NULL /\ NoView.events = NULL
      /\ NoView = View(NoView.task, NoView.steps, NoView.events)
  BY DEF NoView, View
<1> HIDE DEF client
<1>3. Shaped(client)
  BY <1>1, <1>2 DEF Shaped, client
<1>4. ViewHolds(client.view) /\ Loading(client, ts)
  BY <1>1, <1>2 DEF ViewHolds, Loading
<1>5. Honest(client, ts, ss)
  BY <1>1, <1>3, <1>4 DEF Honest
<1>. QED  BY <1>5 DEF client

\* Only client c has moved, to the record that it has become.
Moves(c, client) ==
  clients' = [clients EXCEPT ![c] = client] /\ Honest(client, tasks', steps')

\* No answer is NULL or one of the others.
LEMMA AnswerCodes == NULL # 200 /\ NULL # 202 /\ NULL # 409
BY NullAssumption

\* 500, or no answer yet, claims nothing.
LEMMA NoClaim ==
  ASSUME NEW r, r.task \in Tasks, NEW answer \in {NULL, 500}, NEW applied, NEW ts, NEW ss
  PROVE  AnswerHolds(r, answer, applied, ts, ss)
BY AnswerCodes DEF AnswerHolds, CancelHolds

\* POST /tasks and GET /tasks/{id} begin by reading, or fail.
LEMMA LoadBegins ==
  ASSUME IInv, Blank, NEW c \in Clients, Honest(clients[c], tasks, steps), NEW t \in Tasks,
         getTask(c, t) \/ \E d \in Definitions : createTask(c, t, d),
         [Next]_vars
  PROVE  \E client : Moves(c, client)
<1> DEFINE applied == clients[c].applied
<1>1. AppliedHold(applied, steps')
  BY HonestKept DEF Honest
<1>2. ASSUME NEW op \in {"create", "get"}
      PROVE  /\ Honest(Reading(clients[c], Sent(op, t)), tasks', steps')
             /\ Honest(Answered(clients[c], Sent(op, t), 500), tasks', steps')
  <2>1. Sent(op, t).op = op /\ Sent(op, t).task = t
    BY DEF Sent
  <2>2. /\ AnswerHolds(Sent(op, t), NULL, applied, tasks', steps')
        /\ AnswerHolds(Sent(op, t), 500, applied, tasks', steps')
    BY <2>1, NoClaim
  <2>3. Asks("read", Sent(op, t), steps') /\ Asks("ready", Sent(op, t), steps')
    BY <1>2, <2>1 DEF Asks
  <2>. QED  BY <1>1, <2>2, <2>3, Answers, FreshHonest
<1>. QED  BY <1>2 DEF getTask, createTask, Become, Moves

\* POST /tasks/{id}/cancel answers what it did or found.
LEMMA CancelMoves ==
  ASSUME IInv, Blank, NEW c \in Clients, Honest(clients[c], tasks, steps), NEW t \in Tasks,
         cancelTask(c, t), [Next]_vars
  PROVE  \E client : Moves(c, client)
<1> DEFINE applied == clients[c].applied
           r == Sent("cancel", t)
<1>1. AppliedHold(applied, steps')
  BY HonestKept DEF Honest
<1>2. r.op = "cancel" /\ r.task = t /\ tasks[t] \in TaskRow
  BY TaskFacts DEF Sent
<1>3. r \notin applied
  BY <1>1, <1>2 DEF AppliedHold
<1> HIDE DEF r
<1>4. ASSUME NEW answer, CancelHolds(answer, tasks'[t])
      PROVE  Honest(Answered(clients[c], r, answer), tasks', steps')
  <2>1. AnswerHolds(r, answer, applied, tasks', steps')
    BY <1>2, <1>3, <1>4 DEF AnswerHolds
  <2>2. Asks("ready", r, steps')
    BY DEF Asks
  <2>. QED  BY <1>1, <2>1, <2>2, Answers, FreshHonest
<1>5. CancelHolds(500, tasks'[t])
  BY DEF CancelHolds
<1>6. ASSUME NEW code, Reply(c, r, code), CancelHolds(code, tasks[t])
      PROVE  \E client : Moves(c, client)
  BY <1>4, <1>6 DEF Reply, Become, Moves, vars
<1>7. ASSUME RequestCancel(t) PROVE CancelHolds(202, tasks'[t])
  <2>1. tasks'[t] = [tasks[t] EXCEPT !.cancel_requested = TRUE]
    BY <1>7 DEF RequestCancel, Commit, IInv, TypeOK
  <2>2. tasks'[t].cancel_requested /\ tasks'[t].status = "RUNNING"
    BY <1>2, <1>7, <2>1 DEF RequestCancel, TaskRow
  <2>. QED  BY <2>2 DEF CancelHolds
<1>8. ASSUME CancelSynchronously(t) PROVE CancelHolds(200, tasks'[t])
  <2>1. tasks'[t] = [Released(tasks[t], "CANCELLED") EXCEPT !.retry_at = NULL]
    BY <1>8 DEF CancelSynchronously, finishControlledTask, cancelledOutcome, Commit, IInv, TypeOK
  <2>2. tasks'[t].status = "CANCELLED"
    BY <1>2, <2>1 DEF Released, TaskRow
  <2>. QED  BY <2>2 DEF CancelHolds
<1>9. CASE tasks[t].status = "CANCELLED" /\ Reply(c, r, 200)
  BY <1>6, <1>9 DEF CancelHolds
<1>10. CASE /\ tasks[t].status # "CANCELLED" /\ isTerminalStatus(tasks[t].status)
            /\ Reply(c, r, 409)
  BY <1>6, <1>10 DEF CancelHolds, isTerminalStatus
<1>11. CASE Reply(c, r, 500)
  BY <1>6, <1>11 DEF CancelHolds
<1>12. CASE /\ RequestCancel(t)
            /\ \/ Become(c, Answered(clients[c], r, 202))
               \/ Become(c, Answered(clients[c], r, 500))
  BY <1>4, <1>5, <1>7, <1>12 DEF Become, Moves
<1>13. CASE /\ CancelSynchronously(t)
            /\ \/ Become(c, Answered(clients[c], r, 200))
               \/ Become(c, Answered(clients[c], r, 500))
  BY <1>4, <1>5, <1>8, <1>13 DEF Become, Moves
<1>. QED  BY <1>9, <1>10, <1>11, <1>12, <1>13 DEF cancelTask, r

\* POST /tasks/{id}/approve and /reject answer what was saved, by them or before.
LEMMA DecideMoves ==
  ASSUME IInv, Blank, NEW c \in Clients, Honest(clients[c], tasks, steps), NEW t \in Tasks,
         NEW i \in DOMAIN steps[t], NEW decision \in {"approved", "rejected"},
         decideApproval(c, t, i, decision), [Next]_vars
  PROVE  \E client : Moves(c, client)
<1> DEFINE applied == clients[c].applied
           r == [op |-> "decide", task |-> t, step |-> i, decision |-> decision]
           done == [clients[c] EXCEPT !.applied = @ \cup {r}]
           saved == steps[t][i].approval_decision
<1>1. AppliedHold(applied, steps) /\ AppliedHold(applied, steps')
  BY HonestKept DEF Honest
<1>2. r.op = "decide" /\ r.task = t /\ r.step = i /\ r.decision = decision /\ decision # NULL
  BY DecisionAssumption
<1>3. /\ tasks[t] \in TaskRow /\ steps[t] \in Seq(StepRow)
  BY TaskFacts DEF IInv, TypeOK
<1>4. done.applied = applied \cup {r}
  BY DEF Honest, Shaped, Client
<1> HIDE DEF r, done
<1>5. ASSUME NEW code, AnswerHolds(r, code, applied, tasks', steps')
      PROVE  Honest(Answered(clients[c], r, code), tasks', steps')
  <2>1. Asks("ready", r, steps')
    BY DEF Asks
  <2>. QED  BY <1>1, <1>5, <2>1, Answers, FreshHonest
<1>6. Asks("confirm", r, steps')
  BY <1>2, StoreKeeps DEF Asks
<1>7. CASE saved # NULL /\ Reply(c, r, Replayed(t, i, decision))
  <2>1. steps' = steps
    BY <1>7 DEF Reply, vars
  <2>2. CASE saved = decision
    <3>1. AnswerHolds(r, 200, applied, tasks', steps')
      BY <1>2, <2>1, <2>2 DEF AnswerHolds, Decided
    <3>. QED  BY <1>5, <1>7, <2>2, <3>1 DEF Replayed, Reply, Become, Moves
  <2>3. CASE saved # decision
    <3>1. r \notin applied
      BY <1>1, <1>2, <2>3 DEF AppliedHold, Decided
    <3>2. AnswerHolds(r, 409, applied, tasks', steps')
      BY <1>2, <3>1 DEF AnswerHolds
    <3>. QED  BY <1>5, <1>7, <2>3, <3>2 DEF Replayed, Reply, Become, Moves
  <2>. QED  BY <2>2, <2>3
<1>8. CASE saved = NULL /\ Reply(c, r, 409)
  <2>1. r \notin applied
    BY <1>1, <1>2, <1>8 DEF AppliedHold, Decided
  <2>2. AnswerHolds(r, 409, applied, tasks', steps')
    BY <1>2, <2>1 DEF AnswerHolds
  <2>. QED  BY <1>5, <1>8, <2>2 DEF Reply, Become, Moves
<1>9. CASE /\ Decide(t, i, decision)
           /\ Become(c, Answered(done, r, 200)) \/ Become(c, Confirming(done, r))
  <2>1. steps'[t][i].approval_decision = decision
    <3>1. CASE Approve(t, i) /\ decision = "approved"
      <4>1. steps'[t] = [steps[t] EXCEPT ![i] = [@ EXCEPT !.approval_decision = "approved",
                                                          !.status = "SUCCEEDED",
                                                          !.error = NULL]]
        BY <3>1 DEF Approve, Commit, IInv, TypeOK
      <4>. QED  BY <1>3, <3>1, <4>1 DEF StepRow
    <3>2. CASE Reject(t, i) /\ decision = "rejected"
      <4>1. steps'[t] = [steps[t] EXCEPT ![i] = [@ EXCEPT !.approval_decision = "rejected",
                                                          !.status = "FAILED",
                                                          !.error = "approval_rejected"]]
        BY <3>2 DEF Reject, Commit, IInv, TypeOK
      <4>. QED  BY <1>3, <3>2, <4>1 DEF StepRow
    <3>. QED  BY <1>9, <3>1, <3>2 DEF Decide
  <2>2. Decided(r, steps')
    BY <1>2, <2>1, StoreKeeps DEF Decided
  <2>3. AppliedHold(done.applied, steps')
    BY <1>1, <1>2, <1>4, <2>2 DEF AppliedHold
  <2>4. /\ AnswerHolds(r, 200, done.applied, tasks', steps')
        /\ AnswerHolds(r, NULL, done.applied, tasks', steps')
    BY <1>2, <2>2, NoClaim DEF AnswerHolds
  <2>5. Asks("ready", r, steps')
    BY DEF Asks
  <2>6. /\ Honest(Answered(done, r, 200), tasks', steps')
        /\ Honest(Confirming(done, r), tasks', steps')
    BY <1>6, <2>3, <2>4, <2>5, Answers, FreshHonest
  <2>. QED  BY <1>9, <2>6 DEF Become, Moves
<1>10. CASE Become(c, Confirming(clients[c], r))
  <2>1. AnswerHolds(r, NULL, applied, tasks', steps')
    BY <1>2, NoClaim
  <2>2. Honest(Confirming(clients[c], r), tasks', steps')
    BY <1>1, <1>6, <2>1, Answers, FreshHonest
  <2>. QED  BY <1>10, <2>2 DEF Become, Moves
<1>11. CASE Reply(c, r, 500)
  <2>1. AnswerHolds(r, 500, applied, tasks', steps')
    BY <1>2, NoClaim
  <2>. QED  BY <1>5, <1>11, <2>1 DEF Reply, Become, Moves
<1>. QED  BY <1>7, <1>8, <1>9, <1>10, <1>11 DEF decideApproval, r, done

\* The fact check confirms a decision that is there, and no other.
LEMMA ConfirmMoves ==
  ASSUME IInv, Blank, NEW c \in Clients, Honest(clients[c], tasks, steps),
         confirmDecision(c), [Next]_vars
  PROVE  \E client : Moves(c, client)
<1> DEFINE applied == clients[c].applied
           r == clients[c].request
<1>1. AppliedHold(applied, steps')
  BY HonestKept DEF Honest
<1>2. r.op = "decide" /\ r.task \in Tasks /\ r.decision # NULL /\ r.step \in DOMAIN steps[r.task]
  BY DEF confirmDecision, Honest, Asks
<1> HIDE DEF r
<1>3. ASSUME NEW code, AnswerHolds(r, code, applied, tasks', steps'), Reply(c, r, code)
      PROVE  \E client : Moves(c, client)
  <2>1. Asks("ready", r, steps')
    BY DEF Asks
  <2>2. Honest(Answered(clients[c], r, code), tasks', steps')
    BY <1>1, <1>3, <2>1, Answers, FreshHonest
  <2>. QED  BY <1>3, <2>2 DEF Reply, Become, Moves
<1>4. CASE decisionPersisted(r.task, r.step, r.decision) /\ Reply(c, r, 200)
  <2>1. Decided(r, steps')
    BY <1>2, <1>4 DEF Decided, decisionPersisted, Reply, vars
  <2>2. AnswerHolds(r, 200, applied, tasks', steps')
    BY <1>2, <2>1 DEF AnswerHolds
  <2>. QED  BY <1>3, <1>4, <2>2
<1>5. CASE Reply(c, r, 500)
  BY <1>2, <1>3, <1>5, NoClaim
<1>. QED  BY <1>4, <1>5 DEF confirmDecision, r

\* The steps that are read now agree with a row that was read before.
LEMMA StepsRead ==
  ASSUME IInv, EndsFailed, NEW t \in Tasks, NEW seen, NotAhead(seen, tasks[t])
  PROVE  StepsAgree(seen, [i \in DOMAIN steps[t] |-> steps[t][i].status])
<1> DEFINE shown == [i \in DOMAIN steps[t] |-> steps[t][i].status]
<1>1. /\ steps[t] \in Seq(StepRow) /\ Cursor(tasks[t], steps[t])
      /\ tasks[t].current_step \in Nat \ {0}
  BY TaskFacts, RowFields DEF IInv, TypeOK, Coherent
<1>2. DOMAIN steps[t] = 1..Len(steps[t]) /\ Len(steps[t]) \in Nat
  BY <1>1
<1>3. \A i \in DOMAIN shown : i < seen.current_step => shown[i] = "SUCCEEDED"
  BY <1>1, <1>2 DEF Cursor, NotAhead
<1>4. seen.status = "SUCCEEDED" => \A i \in DOMAIN shown : shown[i] = "SUCCEEDED"
  <2> SUFFICES ASSUME seen.status = "SUCCEEDED", NEW i \in DOMAIN shown
               PROVE  shown[i] = "SUCCEEDED"
    OBVIOUS
  <2>1. tasks[t].status = "SUCCEEDED"
    BY DEF NotAhead, TerminalStatus
  <2>2. tasks[t].current_step = Len(steps[t]) + 1
    BY <1>1, <2>1 DEF Cursor
  <2>3. i < tasks[t].current_step
    BY <1>2, <2>2
  <2>. QED  BY <1>1, <2>3 DEF Cursor
<1>5. seen.status \in TerminalStatus \ {"SUCCEEDED"} => shown[seen.current_step] = "FAILED"
  <2> SUFFICES ASSUME seen.status \in TerminalStatus \ {"SUCCEEDED"}
               PROVE  shown[seen.current_step] = "FAILED"
    OBVIOUS
  <2>1. tasks[t].status = seen.status /\ tasks[t].current_step = seen.current_step
    BY DEF NotAhead
  <2>2. tasks[t].status # "NONE" /\ tasks[t].status # "SUCCEEDED"
    BY <2>1 DEF TerminalStatus
  <2>3. tasks[t].current_step \in DOMAIN steps[t]
    BY <1>1, <1>2, <2>2 DEF Cursor
  <2>. QED  BY <2>1, <2>3 DEF EndsFailed
<1>. QED  BY <1>3, <1>4, <1>5 DEF StepsAgree

\* The statements of a load, one at a time: what is read last agrees with what was
\* read first, although the store has moved on.
LEMMA LoadMoves ==
  ASSUME IInv, EndsFailed, LogInv, NEW c \in Clients, Honest(clients[c], tasks, steps), LoadNext(c)
  PROVE  \E client : Moves(c, client)
<1> DEFINE old == clients[c]
           r == old.request
           n == old.read + 1
           rows == Rows(r.task, ReadOrder[n])
           loaded == [old EXCEPT !.read = n, !.view[ReadOrder[n]] = rows]
           ended == [loaded EXCEPT !.pc = "ready", !.answer = 200]
           Read(view) == Client("read", r, old.answer, old.applied, n, view)
           Ended(view) == Client("ready", r, 200, old.applied, n, view)
<1>1. /\ old.pc = "read" /\ tasks' = tasks /\ steps' = steps
      /\ \/ n < Len(ReadOrder) /\ Become(c, loaded)
         \/ n = Len(ReadOrder) /\ Become(c, ended)
         \/ Become(c, Answered(old, r, 500))
  BY DEF LoadNext, vars
<1>2. /\ r.op \in {"create", "get"} /\ r.task \in Tasks /\ Loading(old, tasks)
      /\ Shaped(old) /\ ViewHolds(old.view) /\ AppliedHold(old.applied, steps)
      /\ AnswerHolds(r, old.answer, old.applied, tasks, steps)
  BY <1>1 DEF Honest, Asks
<1>3. r \notin old.applied
  BY <1>2 DEF AppliedHold
<1>4. /\ Len(ReadOrder) = 3
      /\ ReadOrder[1] = "task" /\ ReadOrder[2] = "steps" /\ ReadOrder[3] = "events"
  BY DEF ReadOrder
<1>5. /\ n = 1 => loaded = Read(View(rows, old.view.steps, old.view.events))
      /\ n = 2 => loaded = Read(View(old.view.task, rows, old.view.events))
      /\ n = 3 => loaded = Read(View(old.view.task, old.view.steps, rows))
  <2> DEFINE table == ReadOrder[n]
  <2>1. /\ n = 1 => table = "task"
        /\ n = 2 => table = "steps"
        /\ n = 3 => table = "events"
    BY <1>4
  <2>2. Shaped(old) /\ old.pc = "read"
    BY <1>1, <1>2
  <2> DEFINE view == old.view
  <2> HIDE DEF old, n, table, rows
  <2>3. [old EXCEPT !.read = n] = Read(view)
    BY <2>2 DEF Shaped, Client
  <2>4. /\ [view EXCEPT !["task"] = rows] = View(rows, view.steps, view.events)
        /\ [view EXCEPT !["steps"] = rows] = View(view.task, rows, view.events)
        /\ [view EXCEPT !["events"] = rows] = View(view.task, view.steps, rows)
    BY <2>2 DEF Shaped, View
  <2> HIDE DEF view
  <2>5. loaded = [[old EXCEPT !.read = n] EXCEPT !.view[table] = rows]
    BY DEF table
  <2>6. Read(view).view = view
    BY DEF Client
  <2>7. [Read(view) EXCEPT !.view[table] = rows]
          = [Read(view) EXCEPT !.view = [Read(view).view EXCEPT ![table] = rows]]
    OBVIOUS
  <2>8. loaded = [Read(view) EXCEPT !.view = [view EXCEPT ![table] = rows]]
    BY <2>3, <2>5, <2>6, <2>7
  <2>9. ASSUME NEW x PROVE [Read(view) EXCEPT !.view = x] = Read(x)
    BY DEF Client
  <2>10. loaded = Read([view EXCEPT ![table] = rows])
    BY <2>8, <2>9
  <2> HIDE DEF loaded, Read
  <2>. QED  BY <2>1, <2>4, <2>10 DEF view
<1>6. ASSUME NEW seen, NEW shown, NEW last, ViewHolds(View(seen, shown, last)),
             loaded = Read(View(seen, shown, last))
      PROVE  /\ Honest(ended, tasks', steps')
             /\ Loading(loaded, tasks) => Honest(loaded, tasks', steps')
  <2> DEFINE view == View(seen, shown, last)
  <2>1. view = View(view.task, view.steps, view.events)
    BY DEF View
  <2> HIDE DEF view
  <2>2. ended = Ended(view)
    <3> HIDE DEF loaded
    <3>1. ended = [[loaded EXCEPT !.pc = "ready"] EXCEPT !.answer = 200]
      OBVIOUS
    <3>2. [Read(view) EXCEPT !.pc = "ready"] = Client("ready", r, old.answer, old.applied, n, view)
      BY DEF Client
    <3>3. [Client("ready", r, old.answer, old.applied, n, view) EXCEPT !.answer = 200] = Ended(view)
      BY DEF Client
    <3>. QED  BY <1>6, <3>1, <3>2, <3>3 DEF view
  <2>3. Shaped(Ended(view)) /\ Shaped(Read(view))
    <3>1. ASSUME NEW pc, NEW answer PROVE Shaped(Client(pc, r, answer, old.applied, n, view))
      <4> DEFINE x == Client(pc, r, answer, old.applied, n, view)
      <4>1. /\ x.pc = pc /\ x.request = r /\ x.answer = answer /\ x.applied = old.applied
            /\ x.read = n /\ x.view = view
        BY DEF Client
      <4> HIDE DEF x
      <4>2. Shaped(x)
        BY <2>1, <4>1 DEF Shaped, x
      <4>. QED  BY <4>2 DEF x
    <3>. QED  BY <3>1
  <2>4. /\ Ended(view).pc = "ready" /\ Ended(view).request = r /\ Ended(view).answer = 200
        /\ Ended(view).applied = old.applied /\ Ended(view).view = view
        /\ Read(view).pc = "read" /\ Read(view).request = r /\ Read(view).answer = old.answer
        /\ Read(view).applied = old.applied /\ Read(view).view = view
    BY DEF Client
  <2>5. AnswerHolds(r, 200, old.applied, tasks, steps)
    BY <1>2, <1>3 DEF AnswerHolds
  <2>6. Asks("ready", r, steps) /\ Asks("read", r, steps)
    BY <1>2 DEF Asks
  <2>7. ViewHolds(view) /\ loaded = Read(view)
    BY <1>6 DEF view
  <2> HIDE DEF loaded, ended, Read, Ended, r
  <2>8. Honest(Ended(view), tasks, steps)
    BY <1>2, <2>3, <2>4, <2>5, <2>6, <2>7 DEF Honest
  <2>9. Loading(loaded, tasks) => Honest(Read(view), tasks, steps)
    BY <1>2, <2>3, <2>4, <2>6, <2>7 DEF Honest
  <2>. QED  BY <1>1, <2>2, <2>7, <2>8, <2>9
<1>7. ASSUME NEW seen, NEW shown, NEW last, loaded = Read(View(seen, shown, last)),
             n \in {1, 2}, NotAhead(seen, tasks[r.task]), n # 2 => shown = NULL, last = NULL
      PROVE  Loading(loaded, tasks)
  <2> HIDE DEF loaded, n, r
  <2>1. /\ loaded.read = n /\ loaded.request = r /\ loaded.view.task = seen
        /\ loaded.view.steps = shown /\ loaded.view.events = last
    BY <1>7 DEF Client, View
  <2>. QED  BY <1>7, <2>1 DEF Loading
<1>8. ASSUME n = 1 PROVE Honest(loaded, tasks', steps')
  <2> DEFINE seen == [status |-> tasks[r.task].status, current_step |-> tasks[r.task].current_step]
  <2>1. rows = seen
    BY <1>4, <1>8 DEF Rows
  <2>2. old.view.steps = NULL /\ old.view.events = NULL
    BY <1>2, <1>8 DEF Loading
  <2>3. loaded = Read(View(seen, NULL, NULL))
    BY <1>5, <1>8, <2>1, <2>2
  <2>4. ViewHolds(View(seen, NULL, NULL))
    BY DEF ViewHolds, View
  <2>5. NotAhead(seen, tasks[r.task])
    <3>1. tasks[r.task].current_step \in Nat
      BY <1>2, TaskFacts, RowFields
    <3>. QED  BY <3>1 DEF NotAhead
  <2> HIDE DEF seen
  <2>6. Loading(loaded, tasks)
    BY <1>7, <1>8, <2>3, <2>5
  <2>. QED  BY <1>6, <2>3, <2>4, <2>6
<1>9. ASSUME n = 2 PROVE Honest(loaded, tasks', steps')
  <2> DEFINE seen == old.view.task
             shown == [i \in DOMAIN steps[r.task] |-> steps[r.task][i].status]
  <2>1. rows = shown
    BY <1>4, <1>9 DEF Rows
  <2>2. NotAhead(seen, tasks[r.task]) /\ old.view.events = NULL
    BY <1>2, <1>9 DEF Loading
  <2>3. loaded = Read(View(seen, shown, NULL))
    BY <1>5, <1>9, <2>1, <2>2
  <2>4. StepsAgree(seen, shown)
    BY <1>2, <2>2, StepsRead
  <2> HIDE DEF seen, shown
  <2>5. ViewHolds(View(seen, shown, NULL))
    BY <2>4 DEF ViewHolds, View
  <2>6. Loading(loaded, tasks)
    BY <1>7, <1>9, <2>2, <2>3
  <2>. QED  BY <1>6, <2>3, <2>5, <2>6
<1>10. ASSUME n = 3 PROVE Honest(ended, tasks', steps')
  <2> DEFINE seen == old.view.task
             shown == old.view.steps
             last == events[r.task][Len(events[r.task])].type
  <2>1. rows = last
    BY <1>4, <1>10 DEF Rows
  <2>2. NotAhead(seen, tasks[r.task])
    BY <1>2, <1>10 DEF Loading
  <2>3. loaded = Read(View(seen, shown, last))
    BY <1>5, <1>10, <2>1
  <2>4. Verdict(tasks[r.task], events[r.task])
    BY <1>2 DEF LogInv, Logged
  <2>5. seen.status \in TerminalStatus => last = TerminalEvent[seen.status]
    BY <2>2, <2>4 DEF NotAhead, Verdict
  <2>6. seen # NULL /\ shown # NULL => StepsAgree(seen, shown)
    BY <1>2 DEF ViewHolds
  <2> HIDE DEF seen, shown, last
  <2>7. ViewHolds(View(seen, shown, last))
    BY <2>5, <2>6 DEF ViewHolds, View
  <2>. QED  BY <1>6, <2>3, <2>7
<1>11. Honest(Answered(old, r, 500), tasks', steps')
  <2>1. Asks("ready", r, steps')
    BY DEF Asks
  <2>. QED  BY <1>1, <1>2, <2>1, NoClaim, Answers, FreshHonest
<1>12. n \in {1, 2, 3}
  BY <1>2 DEF Loading
<1> HIDE DEF n, loaded, ended, old, r
<1>13. \/ Become(c, loaded) /\ Honest(loaded, tasks', steps')
       \/ Become(c, ended) /\ Honest(ended, tasks', steps')
       \/ Become(c, Answered(old, r, 500)) /\ Honest(Answered(old, r, 500), tasks', steps')
  BY <1>1, <1>4, <1>8, <1>9, <1>10, <1>11, <1>12
<1>. QED  BY <1>13 DEF Become, Moves

\* Whatever a client does, what it knows afterwards is true.
LEMMA ClientMoves ==
  ASSUME IInv, Blank, EndsFailed, LogInv, NEW c \in Clients, Honest(clients[c], tasks, steps),
         ClientRequest(c), [Next]_vars
  PROVE  \E client : Moves(c, client)
<1>1. ASSUME NEW t \in Tasks, getTask(c, t) \/ \E d \in Definitions : createTask(c, t, d)
      PROVE  \E client : Moves(c, client)
  BY <1>1, LoadBegins
<1>2. ASSUME NEW t \in Tasks, cancelTask(c, t) PROVE \E client : Moves(c, client)
  BY <1>2, CancelMoves
<1>3. ASSUME NEW t \in Tasks, NEW i \in DOMAIN steps[t], NEW decision \in {"approved", "rejected"},
             decideApproval(c, t, i, decision)
      PROVE  \E client : Moves(c, client)
  BY <1>3, DecideMoves
<1>4. CASE confirmDecision(c)
  BY <1>4, ConfirmMoves
<1>5. CASE LoadNext(c)
  BY <1>5, LoadMoves
<1>. QED  BY <1>1, <1>2, <1>3, <1>4, <1>5 DEF ClientRequest

\* Every step keeps what the clients know true.
LEMMA NextApiInv ==
  IInv /\ Blank /\ EndsFailed /\ LogInv /\ ApiInv /\ [ApiNext]_apiVars => ApiInv'
<1> SUFFICES ASSUME IInv, Blank, EndsFailed, LogInv, ApiInv, [ApiNext]_apiVars
             PROVE  ApiInv'
  OBVIOUS
<1>1. [Next]_vars
  BY ApiStoreStep
<1>2. ASSUME clients' = clients PROVE ApiInv'
  BY <1>1, <1>2, HonestKept DEF ApiInv
<1>3. ASSUME NEW c \in Clients, ClientRequest(c) PROVE ApiInv'
  <2>1. PICK client : Moves(c, client)
    BY <1>1, <1>3, ClientMoves DEF ApiInv
  <2>2. clients' = [clients EXCEPT ![c] = client] /\ Honest(client, tasks', steps')
    BY <2>1 DEF Moves
  <2>3. clients = [d \in Clients |-> clients[d]]
    BY DEF ApiInv
  <2>4. clients' = [d \in Clients |-> clients'[d]] /\ clients'[c] = client
    BY <2>2, <2>3
  <2>5. \A d \in Clients : d # c => clients'[d] = clients[d]
    BY <2>2, <2>3
  <2>6. \A d \in Clients : Honest(clients[d], tasks', steps')
    BY <1>1, HonestKept DEF ApiInv
  <2>. QED  BY <2>2, <2>4, <2>5, <2>6 DEF ApiInv
<1>4. CASE Others \/ UNCHANGED apiVars
  BY <1>2, <1>4 DEF Others, apiVars
<1>. QED  BY <1>3, <1>4 DEF ApiNext

-----------------------------------------------------------------------------
(* What an answer is worth. *)

\* What every client knows is true: the strengthening behind the theorems below.
THEOREM ApiInvariance == ApiSpec => []ApiInv
<1>1. ApiInit => ApiInv
  <2> SUFFICES ASSUME ApiInit, NEW c \in Clients PROVE Honest(NewClient, tasks, steps)
    BY DEF ApiInit, ApiInv
  <2>1. NewClient = Client("ready", NULL, NULL, {}, 0, NoView)
    BY DEF NewClient, Client, NoView, View
  <2>2. AppliedHold({}, steps) /\ AnswerHolds(NULL, NULL, {}, tasks, steps)
    BY DEF AppliedHold, AnswerHolds
  <2>3. Asks("ready", NULL, steps)
    BY DEF Asks
  <2>. QED  BY <2>1, <2>2, <2>3, FreshHonest
<1>2. Init => EndsFailed
  <2>1. NoTask.status = "NONE"
    BY DEF NoTask
  <2>. QED  BY <2>1 DEF Init, EndsFailed, TerminalStatus
<1>3. Spec => []EndsFailed
  BY <1>2, NextEndsFailed, Invariance, BlankInvariance, PTL DEF Spec
<1>. QED  BY <1>1, <1>3, NextApiInv, ApiImplementsStore, Invariance, BlankInvariance, LogInvariance,
             PTL DEF ApiSpec

\* A client that was told that its decision counts has decided: the saved decision is
\* its own and stays, whoever decides, cancels or times out before, meanwhile or later,
\* and also when the answer rests on the fact check after a lost COMMIT response.
THEOREM DecisionAnswersCorrect == ApiSpec => []DecisionAnswersHold
<1>1. ApiInv => DecisionAnswersHold
  BY DEF ApiInv, Honest, AnswerHolds, Decided, DecisionAnswersHold
<1>. QED  BY <1>1, ApiInvariance, PTL

\* A client whose decision was committed is never refused when it repeats the request
\* because it was left in the dark, however far the task has come in the meantime.
THEOREM CommittedDecisionCorrect == ApiSpec => []CommittedDecisionNotRefused
<1>1. ApiInv => CommittedDecisionNotRefused
  BY DEF ApiInv, Honest, AnswerHolds, CommittedDecisionNotRefused
<1>. QED  BY <1>1, ApiInvariance, PTL

\* What POST /cancel answers stays true: cancelled is cancelled; a request that was
\* accepted ends in CANCELLED and in nothing else; and a refusal means that there is
\* another verdict.
THEOREM CancelAnswersCorrect == ApiSpec => []CancelAnswersHold
<1>1. ApiInv => CancelAnswersHold
  BY DEF ApiInv, Honest, AnswerHolds, CancelHolds, CancelAnswersHold
<1>. QED  BY <1>1, ApiInvariance, PTL

\* A client that reads a task, its steps and its log by statements that no transaction
\* holds together is not shown a contradiction.
THEOREM ViewsCorrect == ApiSpec => []ViewsAreConsistent
<1>1. ApiInv => ViewsAreConsistent
  BY DEF ApiInv, Honest, ViewHolds, StepsAgree, ViewsAreConsistent
<1>. QED  BY <1>1, ApiInvariance, PTL

=============================================================================
