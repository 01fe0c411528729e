------------------------------- MODULE FakeTool -------------------------------
(***************************************************************************)
(* The fake tool: an HTTP service with a durable ledger of effects, one    *)
(* row for an idempotency key.  A request that its client has given up may *)
(* still take effect; the ledger outlives every worker.                    *)
(*                                                                         *)
(* Left out: request_count, which nothing but GET /effects reads, and the  *)
(* bodies that invoke refuses before it reaches the ledger.                *)
(***************************************************************************)
CONSTANTS
  Clients,       \* who posts to /invoke, one request at a time
  Keys,          \* idempotency keys
  Payloads,      \* request payloads
  ResultOf(_),   \* the result of a payload: the JSON document {"value": payload.value}
  Blocking,      \* payloads with block_first_response
  NULL

VARIABLES
  effects,   \* the rows of fake_tool_effects
  requests   \* POST /invoke requests in flight

toolVars == <<effects, requests>>

Request == [client : Clients, key : Keys, payload : Payloads, connected : BOOLEAN]

ToolTypeOK ==
  /\ \A row \in effects :
       row.key \in Keys /\ row.payload \in Payloads /\ row.result = ResultOf(row.payload)
  /\ \A r \in requests :
       [client |-> r.client, key |-> r.key, payload |-> r.payload, connected |-> r.connected]
         \in Request

Response(status, body) == [status |-> status, body |-> body]

\* No response is written while the client waits.
Blocked == Response(0, NULL)

ToolInit == effects = {} /\ requests = {}

\* The client posts; nothing has reached the ledger yet.
Post(c, key, payload) ==
  /\ requests' = requests \cup
       {[client |-> c, key |-> key, payload |-> payload, connected |-> TRUE, response |-> NULL]}
  /\ UNCHANGED effects

\* INSERT ... ON CONFLICT (idempotency_key) DO NOTHING.
Recorded(r) ==
  IF \E row \in effects : row.key = r.key THEN effects
  ELSE effects \cup {[key |-> r.key, payload |-> r.payload, result |-> ResultOf(r.payload)]}

Unanswered(r) == r \in requests /\ r.response = NULL

Answered(r, response) ==
  requests' = (requests \ {r}) \cup
    IF r.connected THEN {[r EXCEPT !.response = response]} ELSE {}

\* invoke: the effect is recorded, or the recorded one is compared with the payload.
\* The first response of a blocking payload is held until the client gives up.
record(r) ==
  LET row == CHOOSE row \in Recorded(r) : row.key = r.key
      created == ~\E old \in effects : old.key = r.key
  IN  /\ Unanswered(r)
      /\ \/ /\ row.payload # r.payload
            /\ Answered(r, Response(409, NULL))
            /\ UNCHANGED effects
         \/ /\ row.payload = r.payload
            /\ effects' = Recorded(r)
            /\ Answered(r, IF created /\ r.payload \in Blocking
                           THEN Blocked
                           ELSE Response(200, row.result))

\* Mutant: the error of COMMIT is ignored.
recordFails_IgnoresCommitError(r) ==
  /\ Unanswered(r)
  /\ UNCHANGED effects
  /\ Answered(r, Response(200, ResultOf(r.payload)))

\* The transaction fails, is rolled back when the client disconnects, or is
\* committed although the COMMIT returned an error.
recordFails(r) ==
  /\ Unanswered(r)
  /\ \/ UNCHANGED effects
     \/ /\ ~\E old \in effects : old.key = r.key /\ old.payload # r.payload
        /\ effects' = Recorded(r)
  /\ Answered(r, Response(500, NULL))

\* The client has read its response.
Received(c) ==
  /\ requests' = {r \in requests : r.client # c \/ ~r.connected}
  /\ UNCHANGED effects

\* The client gives up; what the ledger has not seen is still on its way.
Disconnected(clients) ==
  {IF r.client \in clients THEN [r EXCEPT !.connected = FALSE] ELSE r :
     r \in {q \in requests : q.client \notin clients \/ q.response = NULL}}

\* What the client can read: no more than one response.
ResponsesTo(c) ==
  {r.response : r \in {q \in requests : q.client = c /\ q.connected
                                        /\ q.response \notin {NULL, Blocked}}}
=============================================================================
