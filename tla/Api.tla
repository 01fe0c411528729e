---------------------------------- MODULE Api ----------------------------------
(***************************************************************************)
(* Clients of the HTTP API: what they are told, against what the store     *)
(* holds.  A client sends one request at a time and remembers the answer   *)
(* until it sends the next.  Any database error is answered 500, and the   *)
(* client is left in the dark: the transaction may have been committed.    *)
(* Workers, schedulers and the clock act on the store as in TaskStore.     *)
(*                                                                         *)
(* Answers that depend on the text of a request alone (400), or on an id   *)
(* nobody has (404), change nothing and are left out.                      *)
(***************************************************************************)
EXTENDS TaskStore

CONSTANTS
  Clients   \* callers of the API

ASSUME DecisionAssumption == NULL \notin {"approved", "rejected"}

VARIABLES
  clients   \* clients[c]: the request c has sent last and what it knows of it

apiVars == <<tasks, steps, events, now, clients>>

\* pc: "ready" for the next request, "confirm" while commitWithFactCheck asks, "read"
\* while a task is being loaded; read is the number of statements it has executed.
\* applied: the decisions of this client that were committed, whatever it was told.
NewClient ==
  [pc |-> "ready", request |-> NULL, answer |-> NULL, applied |-> {}, read |-> 0,
   view |-> [task |-> NULL, steps |-> NULL, events |-> NULL]]

Sent(op, t) == [op |-> op, task |-> t, step |-> NULL, decision |-> NULL]

\* The handler has answered c's request.
Answered(client, request, answer) ==
  [NewClient EXCEPT !.request = request, !.answer = answer, !.applied = client.applied]

Become(c, client) == clients' = [clients EXCEPT ![c] = client]

\* The store is left as it is.
Reply(c, request, answer) == Become(c, Answered(clients[c], request, answer)) /\ UNCHANGED vars

-----------------------------------------------------------------------------
(* POST /tasks/{id}/approve and /reject. *)

Decide(t, i, decision) == IF decision = "approved" THEN Approve(t, i) ELSE Reject(t, i)

\* Mutant: a saved decision refuses every later request.
Replayed_Refused(t, i, decision) == 409

\* A saved decision answers a matching replay, whatever the task's state is by now.
Replayed(t, i, decision) == IF steps[t][i].approval_decision = decision THEN 200 ELSE 409

Confirming(client, request) == [Answered(client, request, NULL) EXCEPT !.pc = "confirm"]

decideApproval(c, t, i, decision) ==
  LET client == clients[c]
      request == [op |-> "decide", task |-> t, step |-> i, decision |-> decision]
      done == [client EXCEPT !.applied = @ \cup {request}]
  IN  /\ client.pc = "ready"
      /\ i \in DOMAIN steps[t]
      /\ \/ /\ steps[t][i].approval_decision # NULL
            /\ Reply(c, request, Replayed(t, i, decision))
         \/ /\ steps[t][i].approval_decision = NULL
            /\ ~Decidable(t, i)
            /\ Reply(c, request, 409)
         \/ /\ Decide(t, i, decision)
            /\ Become(c, Answered(done, request, 200)) \/ Become(c, Confirming(done, request))
         \/ /\ Decidable(t, i)
            /\ Become(c, Confirming(client, request))
            /\ UNCHANGED vars
         \/ Reply(c, request, 500)

\* The decision is looked up after a COMMIT that returned an error.
confirmDecision(c) ==
  LET request == clients[c].request
  IN  /\ clients[c].pc = "confirm"
      /\ \/ /\ decisionPersisted(request.task, request.step, request.decision)
            /\ Reply(c, request, 200)
         \/ Reply(c, request, 500)

-----------------------------------------------------------------------------
(* POST /tasks/{id}/cancel, which does not look after a lost response. *)

cancelTask(c, t) ==
  LET request == Sent("cancel", t)
      Answer(code) == Become(c, Answered(clients[c], request, code))
  IN  /\ clients[c].pc = "ready"
      /\ tasks[t].status # "NONE"
      /\ \/ tasks[t].status = "CANCELLED" /\ Reply(c, request, 200)
         \/ /\ tasks[t].status # "CANCELLED"
            /\ isTerminalStatus(tasks[t].status)
            /\ Reply(c, request, 409)
         \/ RequestCancel(t) /\ (Answer(202) \/ Answer(500))
         \/ CancelSynchronously(t) /\ (Answer(200) \/ Answer(500))
         \/ Reply(c, request, 500)

-----------------------------------------------------------------------------
(* POST /tasks, GET /tasks/{id}, and GET /tasks/{id}/events asked for next. *)

\* Mutant: the steps are read before the task.
ReadOrder_StepsFirst == <<"steps", "task", "events">>

\* LoadTask's two statements, and that of LoadEvents: no transaction holds them together.
ReadOrder == <<"task", "steps", "events">>

\* What a statement returns: status and cursor, the steps' statuses, the last event.
Rows(t, table) ==
  CASE table = "task" -> [status |-> tasks[t].status, current_step |-> tasks[t].current_step]
    [] table = "steps" -> [i \in DOMAIN steps[t] |-> steps[t][i].status]
    [] table = "events" -> events[t][Len(events[t])].type

Reading(client, request) == [Answered(client, request, NULL) EXCEPT !.pc = "read"]

\* The task is created and then loaded for the answer; if either fails it is 500.
createTask(c, t, d) ==
  LET request == Sent("create", t)
  IN  /\ clients[c].pc = "ready"
      /\ CreateTask(t, d)
      /\ \/ Become(c, Reading(clients[c], request))
         \/ Become(c, Answered(clients[c], request, 500))

getTask(c, t) ==
  /\ clients[c].pc = "ready"
  /\ tasks[t].status # "NONE"
  /\ Become(c, Reading(clients[c], Sent("get", t)))
  /\ UNCHANGED vars

LoadNext(c) ==
  LET client == clients[c]
      n == client.read + 1
      loaded == [client EXCEPT !.read = n,
                               !.view[ReadOrder[n]] = Rows(client.request.task, ReadOrder[n])]
  IN  /\ client.pc = "read"
      /\ UNCHANGED vars
      /\ \/ n < Len(ReadOrder) /\ Become(c, loaded)
         \/ n = Len(ReadOrder) /\ Become(c, [loaded EXCEPT !.pc = "ready", !.answer = 200])
         \/ Become(c, Answered(client, client.request, 500))

-----------------------------------------------------------------------------

ClientRequest(c) ==
  \/ \E t \in Tasks :
       \/ \E d \in Definitions : createTask(c, t, d)
       \/ getTask(c, t)
       \/ cancelTask(c, t)
       \/ \E i \in DOMAIN steps[t], decision \in {"approved", "rejected"} :
            decideApproval(c, t, i, decision)
  \/ confirmDecision(c)
  \/ LoadNext(c)

\* Everything else that happens to the store.
Others ==
  /\ \/ \E t \in Tasks :
          \/ \E w \in Workers : ClaimTask(w, t)
          \/ \E lease \in IssuedLeases(t) : OwnerStep(lease)
          \/ ProcessDueControl(t)
     \/ Tick
     \/ Idle
  /\ UNCHANGED clients

ApiInit == Init /\ clients = [c \in Clients |-> NewClient]

ApiNext == (\E c \in Clients : ClientRequest(c)) \/ Others

ApiSpec == ApiInit /\ [][ApiNext]_apiVars

-----------------------------------------------------------------------------
(* What an answer is worth. *)

\* A client that was told that its decision counts has decided: the saved decision is
\* its own and stays, whoever decides, cancels or times out before, meanwhile or later,
\* and also when the answer rests on the fact check after a lost COMMIT response.
DecisionAnswersHold ==
  \A c \in Clients :
    LET request == clients[c].request
    IN  request # NULL /\ request.op = "decide" /\ clients[c].answer = 200 =>
          steps[request.task][request.step].approval_decision = request.decision

\* A client whose decision was committed is never refused when it repeats the request
\* because it was left in the dark, however far the task has come in the meantime.
CommittedDecisionNotRefused ==
  \A c \in Clients : clients[c].request \in clients[c].applied => clients[c].answer # 409

\* What POST /cancel answers stays true: cancelled is cancelled; a request that was
\* accepted ends in CANCELLED and in nothing else, even past the deadline or against a
\* step that succeeds; and a refusal means that there is another verdict.
CancelAnswersHold ==
  \A c \in Clients :
    clients[c].request # NULL /\ clients[c].request.op = "cancel" =>
      LET row == tasks[clients[c].request.task]
      IN  /\ clients[c].answer = 200 => row.status = "CANCELLED"
          /\ clients[c].answer = 202 => row.cancel_requested /\ row.status \in {"RUNNING", "CANCELLED"}
          /\ clients[c].answer = 409 => row.status \in TerminalStatus \ {"CANCELLED"}

\* Although a task and its steps are read by two statements, with any number of
\* transactions between them, a client is not shown a contradiction: the steps behind
\* the cursor it reads have succeeded; a task that has succeeded has no open step, one
\* that has failed, was cancelled or timed out shows a failed step; and the log that it
\* asks for next ends with the verdict it was shown.
ViewsAreConsistent ==
  \A c \in Clients :
    LET view == clients[c].view
    IN  view.task # NULL =>
          /\ view.steps # NULL =>
               /\ \A i \in DOMAIN view.steps : i < view.task.current_step => view.steps[i] = "SUCCEEDED"
               /\ view.task.status = "SUCCEEDED" =>
                    \A i \in DOMAIN view.steps : view.steps[i] = "SUCCEEDED"
               /\ view.task.status \in TerminalStatus \ {"SUCCEEDED"} =>
                    view.steps[view.task.current_step] = "FAILED"
          /\ view.events # NULL /\ view.task.status \in TerminalStatus =>
               view.events = TerminalEvent[view.task.status]
=============================================================================
