------------------------------ MODULE Pipeline ------------------------------
(***************************************************************************)
(* What the runtime and the tool together promise of a task, without       *)
(* workers, leases, attempts, requests or time: its steps complete one     *)
(* after another, and each step that calls the tool has its effect once,   *)
(* after the steps before it are committed and before it is committed      *)
(* itself.  A task may stop after any step, also between a step's effect   *)
(* and its commit.                                                         *)
(***************************************************************************)
EXTENDS Integers, Sequences

CONSTANTS
  Tasks,
  Plans,        \* the lists of steps that a task may have
  Documents,    \* what a step may be given and may commit
  ResultOf(_)   \* the tool's result for a payload

VARIABLE work   \* work[t]: the plan of task t, its committed outputs, and its effects

Nothing == [plan |-> <<>>, outputs |-> <<>>, ledger |-> {}]

\* The step that is up, if any is left.
Position(t) == Len(work[t].outputs) + 1
Current(t) == work[t].plan[Position(t)]

Set(t, row) == work' = [work EXCEPT ![t] = row]

\* A client posts a task with this plan.
Accept(t, plan) ==
  /\ work[t] = Nothing
  /\ Set(t, [Nothing EXCEPT !.plan = plan])

\* What a step is called with; the checkpoint is not a matter of this specification.
Fed(t, payload) ==
  /\ Current(t).input = "literal" => payload = "literal"
  /\ Current(t).input = "previous_output" =>
       Position(t) > 1 /\ payload = work[t].outputs[Position(t) - 1]

\* The effect of the step that is up.
Affect(t, payload) ==
  /\ Position(t) \in DOMAIN work[t].plan
  /\ Current(t).tool
  /\ ~\E effect \in work[t].ledger : effect.step = Position(t)
  /\ Fed(t, payload)
  /\ Set(t, [work[t] EXCEPT !.ledger = @ \cup {[step |-> Position(t), payload |-> payload,
                                                result |-> ResultOf(payload)]}])

\* The step that is up is committed, a call of the tool with the result of its effect.
Advance(t, output) ==
  /\ Position(t) \in DOMAIN work[t].plan
  /\ Current(t).tool =>
       \E effect \in work[t].ledger : effect.step = Position(t) /\ effect.result = output
  /\ Set(t, [work[t] EXCEPT !.outputs = Append(@, output)])

Init == work = [t \in Tasks |-> Nothing]

Next ==
  \E t \in Tasks :
    \/ \E plan \in Plans : Accept(t, plan)
    \/ \E document \in Documents : Affect(t, document) \/ Advance(t, document)

Spec == Init /\ [][Next]_work

=============================================================================
