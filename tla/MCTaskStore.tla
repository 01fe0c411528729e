----------------------------- MODULE MCTaskStore -----------------------------
(***************************************************************************)
(* Small instances of TaskStore.  The definitions cover a retry, a last    *)
(* attempt that is lost, a reference to the previous output and to the     *)
(* checkpoint, an approval in the middle and at the end of a task, a task  *)
(* that is scheduled, and bodies the API refuses.                          *)
(***************************************************************************)
EXTENDS TaskStore, TLC

Tool(n, input) == [type |-> "fake_tool", max_attempts |-> n, input |-> input]
Approval == [type |-> "approval", max_attempts |-> 1, input |-> "literal"]
Body(at, timeout, s) == [run_at |-> at, task_timeout_seconds |-> timeout, steps |-> s]

RefusedBodies ==
  {Body(NULL, 3, <<>>), Body(NULL, 3, <<Tool(1, "previous_output")>>)}

\* One task with every feature: time for a takeover and for one retry, and three attempts
\* of a task that starts later, so that the delay doubles.
MCDefinitions ==
  RefusedBodies \cup
  {Body(NULL, 4, <<Tool(2, "literal"), Tool(1, "previous_output")>>),
   Body(1, 3, <<Tool(1, "checkpoint"), Approval, Tool(1, "checkpoint")>>),
   Body(0, 3, <<Approval>>),
   Body(1, 5, <<Tool(3, "literal")>>)}

\* Two tasks that share the workers and the clock.
MCPairDefinitions ==
  {Body(NULL, 2, <<Tool(1, "literal")>>), Body(1, 1, <<Approval>>)}

\* For the temporal properties: a retry, an approval, a scheduled start, and the
\* accepted body whose second step can never be started.
MCLivenessDefinitions ==
  {Body(1, 3, <<Tool(2, "literal"), Approval>>),
   Body(NULL, 3, <<Approval, Tool(1, "previous_output")>>)}

\* A tool step that refers to the output of an approval.
MCApprovalOutputDefinitions ==
  {Body(NULL, 3, <<Approval, Tool(1, "previous_output")>>)}
=============================================================================
