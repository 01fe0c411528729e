------------------------------- MODULE MCWorker -------------------------------
(***************************************************************************)
(* Small instances of Worker.                                              *)
(***************************************************************************)
EXTENDS Worker, TLC

Step(type, n, input) == [type |-> type, max_attempts |-> n, input |-> input]
Body(timeout, s) == [run_at |-> NULL, task_timeout_seconds |-> timeout, steps |-> s]

CONSTANTS o1, o2

\* The result of a literal, and that of the result.
MCWrap(v) == IF v = "literal" THEN o1 ELSE o2
MCBlocking == {"literal"}
MCFlaky == Exec!Input("literal", NULL, 1, FALSE)

Symmetry == Permutations(Workers)

\* Two tool steps with a retry; a flaky step before an approval; a sleep that may be taken
\* over with its only attempt spent.
MCDefinitions ==
  {Body(2, <<Step("fake_tool", 2, "literal"), Step("fake_tool", 1, "previous_output")>>),
   Body(2, <<Step("flaky", 2, "literal"), Step("approval", 1, "literal")>>),
   Body(2, <<Step("sleep", 1, "literal")>>)}

\* For the temporal properties, a step whose execution may never end.
MCLiveDefinitions ==
  {Body(3, <<Step("sleep", 1, "literal")>>),
   Body(1, <<Step("echo", 1, "literal"), Step("approval", 1, "literal")>>)}

\* Calls of the tool, a retry, and an approval in between.
MCPipelineDefinitions ==
  {Body(2, <<Step("fake_tool", 2, "literal"), Step("fake_tool", 1, "previous_output")>>),
   Body(2, <<Step("fake_tool", 1, "literal"), Step("approval", 1, "literal"),
             Step("fake_tool", 1, "checkpoint")>>)}

\* One step, started by one worker and taken over by another.
MCConfirmDefinitions == {Body(2, <<Step("fake_tool", 1, "literal")>>)}
=============================================================================
