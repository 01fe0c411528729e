--------------------------------- MODULE MCApi ---------------------------------
(***************************************************************************)
(* A small instance of Api: an approval that ends the task, and one after  *)
(* a tool step.                                                            *)
(***************************************************************************)
EXTENDS Api, TLC

Tool == [type |-> "fake_tool", max_attempts |-> 1, input |-> "literal"]
Approval == [type |-> "approval", max_attempts |-> 1, input |-> "literal"]

Body(timeout, s) == [run_at |-> NULL, task_timeout_seconds |-> timeout, steps |-> s]

\* The first leaves time for a lease to run out before the deadline.
MCDefinitions == {Body(2, <<Tool, Approval>>), Body(1, <<Approval, Tool>>)}

Symmetry == Permutations(Clients)
=============================================================================
