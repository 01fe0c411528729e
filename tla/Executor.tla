------------------------------- MODULE Executor -------------------------------
(***************************************************************************)
(* The registry of executors: what Execute makes of a resolved input, of   *)
(* the attempt's number and of what happened while it ran.  An input is    *)
(* the record of the fields that the executors decode, NULL where a field  *)
(* is absent or does not decode; a failed execution is an error that may   *)
(* carry a class (a *Failure) and may be a context's deadline.             *)
(***************************************************************************)
EXTENDS Integers

CONSTANTS
  Wrap(_),  \* the JSON document {"value": v}
  Slept,    \* the JSON document {"slept": duration}
  NULL      \* nil

Input(value, duration, temporary_failures, permanent) ==
  [value |-> value, duration |-> duration, temporary_failures |-> temporary_failures,
   permanent |-> permanent]

-----------------------------------------------------------------------------
(* Results and errors. *)

\* What went wrong: the statuses that are not told apart are one cause, and a request
\* fails with its context's error or with one of its own.
Causes ==
  {"invalid input", "controlled_permanent_failure", "controlled_temporary_failure",
   "invalid result", "idempotency conflict", "status", "request failed", "Canceled",
   "DeadlineExceeded"}

\* An error, with the class that a *Failure has.
Failure == [class : {"temporary", "permanent", NULL}, cause : Causes]

Ok(output) == [output |-> output, err |-> NULL]
Fails(class, cause) == [output |-> NULL, err |-> [class |-> class, cause |-> cause]]

\* Mutant: an error that is not a *Failure keeps no class.
Classify_Unclassified(err) == err.class

\* An error without a class is permanent, unless it is a deadline.
Classify(err) ==
  IF err.class # NULL THEN err.class
  ELSE IF err.cause = "DeadlineExceeded" THEN "temporary"
  ELSE "permanent"

-----------------------------------------------------------------------------
(* The executors.  ctxErr is the error of the step's context when it ended *)
(* before the execution did, and NULL otherwise.                           *)

executeEcho(input) ==
  IF input.value = NULL THEN Fails(NULL, "invalid input") ELSE Ok(Wrap(input.value))

executeSleep(input, ctxErr) ==
  IF input.duration = NULL \/ input.duration <= 0 THEN Fails(NULL, "invalid input")
  ELSE IF ctxErr # NULL THEN Fails(NULL, ctxErr)
  ELSE Ok(Slept)

executeFlaky(input, n) ==
  IF input.value = NULL THEN Fails("permanent", "invalid input")
  ELSE IF input.permanent = TRUE THEN Fails("permanent", "controlled_permanent_failure")
  ELSE IF input.temporary_failures # NULL /\ n <= input.temporary_failures
  THEN Fails("temporary", "controlled_temporary_failure")
  ELSE Ok(Wrap(input.value))

\* A response is a status and a body; no response is the error of the request,
\* which wraps the context's error when that ended it.
executeFakeTool(response, ctxErr) ==
  IF response = NULL THEN Fails("temporary", ctxErr)
  ELSE IF response.status = 200
  THEN IF response.body = NULL THEN Fails("permanent", "invalid result") ELSE Ok(response.body)
  ELSE IF response.status \in {408, 429} \/ response.status >= 500
  THEN Fails("temporary", "status")
  ELSE Fails("permanent", IF response.status = 409 THEN "idempotency conflict" ELSE "status")

Execute(type, n, input, response, ctxErr) ==
  CASE type = "echo" -> executeEcho(input)
    [] type = "sleep" -> executeSleep(input, ctxErr)
    [] type = "flaky" -> executeFlaky(input, n)
    [] type = "fake_tool" -> executeFakeTool(response, ctxErr)

-----------------------------------------------------------------------------
(* ValidateDefinition: what POST /tasks asks of the configured input.  A    *)
(* value may be a reference that stands for something else at run time.     *)

validateEcho(input) == input.value # NULL

\* Mutant: any string passes for a duration.
validateSleep_AnyDuration(input) == input.duration # NULL

validateSleep(input) == input.duration # NULL /\ input.duration > 0

validateFlaky(input) ==
  /\ input.temporary_failures # NULL => input.temporary_failures >= 0
  /\ ~(input.permanent = TRUE /\ input.temporary_failures \notin {NULL, 0})
  /\ input.value # NULL

validateFakeTool(input) == input.value # NULL

ValidateDefinition(type, input) ==
  CASE type = "echo" -> validateEcho(input)
    [] type = "sleep" -> validateSleep(input)
    [] type = "flaky" -> validateFlaky(input)
    [] type = "fake_tool" -> validateFakeTool(input)
    [] OTHER -> FALSE
=============================================================================
