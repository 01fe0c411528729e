---------------------------- MODULE PipelineProofs ----------------------------
(***************************************************************************)
(* Workers, store and tool together implement Pipeline.  A step of theirs  *)
(* that is seen there is a task's creation, the first record of a call in  *)
(* the ledger, or the commit of a step.  The ledger's invariants and the   *)
(* cursor's place each new row at the current step: a row for a step that  *)
(* has succeeded is there already, and for one that is still to come there *)
(* is no request.                                                          *)
(***************************************************************************)
EXTENDS ToolProofs

\* What Pipeline keeps of a task.
Seen(plan, outputs, ledger) == [plan |-> plan, outputs |-> outputs, ledger |-> ledger]

Committed(row, st) == [i \in 1..(row.current_step - 1) |-> st[i].output]

Entry(i, payload, result) == [step |-> i, payload |-> payload, result |-> result]

Entries(t, fx) ==
  {Entry(row.key[2], row.payload, row.result) : row \in {effect \in fx : effect.key[1] = t}}

\* The mapping, task by task.
LEMMA WorkAt ==
  ASSUME NEW t \in Tasks
  PROVE  /\ work[t] = Seen(Plan(steps[t]), Committed(tasks[t], steps[t]), Entries(t, effects))
         /\ work'[t] = Seen(Plan(steps'[t]), Committed(tasks'[t], steps'[t]), Entries(t, effects'))
BY DEF work, Seen, Committed, Entries, Entry

\* A step that changes one task is an assignment to that task.
LEMMA WorkSet ==
  ASSUME NEW t \in Tasks, NEW new, work'[t] = new, \A u \in Tasks \ {t} : work'[u] = work[u]
  PROVE  Promise!Set(t, new)
<1>1. work = [u \in Tasks |-> work[u]] /\ work' = [u \in Tasks |-> work'[u]]
  BY DEF work
<1> DEFINE a == work
           b == work'
<1>2. a = [u \in Tasks |-> a[u]] /\ b = [u \in Tasks |-> b[u]] /\ b[t] = new
      /\ \A u \in Tasks \ {t} : b[u] = a[u]
  BY <1>1
<1> HIDE DEF a, b
<1>3. b = [a EXCEPT ![t] = new]
  BY <1>2
<1>. QED  BY <1>3 DEF Promise!Set, a, b

\* Nothing that Pipeline sees has changed.
LEMMA WorkRests ==
  ASSUME \A t \in Tasks : work'[t] = work[t]
  PROVE  work' = work
<1> DEFINE a == work
           b == work'
<1>1. a = [u \in Tasks |-> a[u]] /\ b = [u \in Tasks |-> b[u]] /\ \A u \in Tasks : b[u] = a[u]
  BY DEF work
<1> HIDE DEF a, b
<1>2. b = a
  BY <1>1
<1>. QED  BY <1>2 DEF a, b

\* The parts of what is seen of a task.
LEMMA SeenParts ==
  ASSUME NEW p, NEW o, NEW l, NEW x
  PROVE  /\ Seen(p, o, l).plan = p /\ Seen(p, o, l).outputs = o /\ Seen(p, o, l).ledger = l
         /\ [Seen(p, o, l) EXCEPT !.plan = x] = Seen(x, o, l)
         /\ [Seen(p, o, l) EXCEPT !.outputs = x] = Seen(p, x, l)
         /\ [Seen(p, o, l) EXCEPT !.ledger = x] = Seen(p, o, x)
BY DEF Seen

\* The position is the cursor, and the outputs before it are those of the steps.
LEMMA CommittedAt ==
  ASSUME NEW row \in TaskRow, NEW st \in Seq(StepRow), Cursor(row, st)
  PROVE  /\ Committed(row, st) \in Seq(Outputs \cup {NULL})
         /\ Len(Committed(row, st)) + 1 = row.current_step
         /\ \A i \in 1..(row.current_step - 1) : Committed(row, st)[i] = st[i].output
<1> DEFINE n == row.current_step - 1
<1>1. n \in Nat /\ n <= Len(st) /\ row.current_step = n + 1 /\ Len(st) \in Nat
  <2>1. row.current_step <= Len(st) + 1 /\ Len(st) \in Nat
    BY DEF Cursor
  <2>2. row.current_step \in Nat /\ row.current_step # 0
    BY RowFields
  <2>. QED  BY <2>1, <2>2
<1> HIDE DEF n
<1>2. \A i \in 1..n : i \in DOMAIN st /\ st[i] \in StepRow
  BY <1>1
<1>3. \A i \in 1..n : st[i].output \in Outputs \cup {NULL}
  BY <1>2, StepFields
<1> DEFINE f == [i \in 1..n |-> st[i].output]
<1>4. f \in Seq(Outputs \cup {NULL}) /\ Len(f) = n
  BY <1>1, <1>3
<1>5. Committed(row, st) = f /\ \A i \in 1..n : f[i] = st[i].output
  BY DEF Committed, n
<1> HIDE DEF f
<1>. QED  BY <1>1, <1>4, <1>5 DEF n

\* What Pipeline sees at its position is the current step.
LEMMA PositionIsCursor ==
  ASSUME IInv, NEW t \in Tasks
  PROVE  /\ Promise!Position(t) = tasks[t].current_step
         /\ DOMAIN work[t].plan = DOMAIN steps[t]
         /\ \A i \in DOMAIN steps[t] : /\ work[t].plan[i].tool <=> steps[t][i].type = "fake_tool"
                                       /\ work[t].plan[i].input = steps[t][i].input
         /\ work[t].outputs = Committed(tasks[t], steps[t])
         /\ work[t].ledger = Entries(t, effects)
<1>1. work[t] = Seen(Plan(steps[t]), Committed(tasks[t], steps[t]), Entries(t, effects))
  BY WorkAt
<1>2. /\ work[t].plan = Plan(steps[t]) /\ work[t].outputs = Committed(tasks[t], steps[t])
      /\ work[t].ledger = Entries(t, effects)
  BY <1>1, SeenParts
<1>3. tasks[t] \in TaskRow /\ steps[t] \in Seq(StepRow) /\ Cursor(tasks[t], steps[t])
  BY TaskFacts DEF Coherent
<1>4. Len(Committed(tasks[t], steps[t])) + 1 = tasks[t].current_step
  BY <1>3, CommittedAt
<1>5. Promise!Position(t) = tasks[t].current_step
  BY <1>2, <1>4 DEF Promise!Position
<1>6. /\ DOMAIN Plan(steps[t]) = DOMAIN steps[t]
      /\ \A i \in DOMAIN steps[t] :
           /\ Plan(steps[t])[i].tool <=> steps[t][i].type = "fake_tool"
           /\ Plan(steps[t])[i].input = steps[t][i].input
  BY Zenon DEF Plan
<1>. QED  BY <1>2, <1>5, <1>6

-----------------------------------------------------------------------------
(* The tool. *)

\* The ledger is written by the tool alone, and the tool writes nothing else.
LEMMA EffectsBy ==
  ASSUME [WorkerNext]_workerVars
  PROVE  \/ effects' = effects
         \/ /\ UNCHANGED vars
            /\ \E r \in requests : /\ effects' = Tool!Recorded(r)
                                   /\ ~\E old \in effects : old.key = r.key
<1>1. CASE ToolStep
  <2>1. PICK r \in requests : Tool!record(r) \/ Tool!recordFails(r)
    BY <1>1 DEF ToolStep
  <2>2. effects' = effects \/ effects' = Tool!Recorded(r)
    BY <2>1 DEF Tool!record, Tool!recordFails
  <2>. QED  BY <1>1, <2>2 DEF ToolStep, Tool!Recorded
<1>2. ASSUME NEW s \in Slots, Claim(s) \/ MonitorStep(s) \/ ContextExpires(s) PROVE effects' = effects
  BY <1>2 DEF Claim, MonitorStep, ContextExpires, Heartbeat, MonitorNotices, MonitorFails,
              MonitorCancels, MonitorEnds, StoreStep, LocalStep, toolVars
<1>3. ASSUME NEW s \in Slots, SlotStep(s) PROVE effects' = effects
  BY <1>3 DEF SlotStep, Load, AskApproval, Start, ConfirmStart, CallTool, Finish, ConfirmFinish,
              timeoutClaim, cancelClaim, Return, StoreStep, LocalStep, toolVars, Tool!Post
<1>4. ASSUME NEW s \in Slots, ExecutionEnds(s) PROVE effects' = effects
  BY <1>4 DEF ExecutionEnds, ExecuteLocally, ToolAnswers, GiveUpTool, LocalStep, toolVars,
              Tool!Received
<1>5. ASSUME NEW w \in Workers, Shutdown(w) \/ Restart(w) \/ Crash(w) PROVE effects' = effects
  BY <1>5 DEF Shutdown, Restart, Crash, toolVars
<1>6. CASE Environment
  BY <1>6 DEF Environment, toolVars
<1>7. CASE UNCHANGED workerVars
  BY <1>7 DEF workerVars
<1>. QED  BY <1>1, <1>2, <1>3, <1>4, <1>5, <1>6, <1>7 DEF WorkerNext

\* A call that is recorded for the first time is one of the current step: the steps
\* before it have their rows, and those behind it were never started.
LEMMA RecordsCurrent ==
  ASSUME IInv, ToolOK, ToolInv, NEW r \in requests, ~\E old \in effects : old.key = r.key
  PROVE  LET t == r.key[1]
             i == r.key[2]
         IN  /\ t \in Tasks /\ i = tasks[t].current_step /\ i \in DOMAIN steps[t]
             /\ steps[t][i].type = "fake_tool" /\ steps[t][i].resolved_input = r.payload
             /\ r.payload # NULL
<1> DEFINE t == r.key[1]
           i == r.key[2]
           c == tasks[t].current_step
<1>1. /\ t \in Tasks /\ i \in DOMAIN steps[t] /\ steps[t][i].type = "fake_tool"
      /\ steps[t][i].attempt > 0 /\ r.payload # NULL /\ steps[t][i].resolved_input = r.payload
  BY DEF ToolInv, Requested, Justified, Backed
<1>2. tasks[t] \in TaskRow /\ steps[t] \in Seq(StepRow) /\ Cursor(tasks[t], steps[t])
  BY <1>1, TaskFacts DEF Coherent
<1>3. i \in Nat /\ c \in Nat /\ r.key = <<t, i>>
  <2>1. r.key \in Keys
    BY DEF ToolOK, RequestOK
  <2>2. tasks[t].current_step \in Nat
    BY <1>2, RowFields
  <2>. QED  BY <2>1, <2>2 DEF Keys
<1>4. ~(i > c)
  <2>1. i > c => steps[t][i].attempt = 0
    BY <1>1, <1>2 DEF Cursor, Untouched
  <2>. QED  BY <1>1, <2>1
<1>5. ~(i < c)
  <2> SUFFICES ASSUME i < c PROVE FALSE
    OBVIOUS
  <2>1. steps[t][i].status = "SUCCEEDED"
    BY <1>1, <1>2 DEF Cursor
  <2>2. \E row \in effects : row.key = <<t, i>>
    BY <1>1, <2>1 DEF ToolInv, Earned, HasRow
  <2>. QED  BY <1>3, <2>2
<1>6. i = c
  BY <1>3, <1>4, <1>5
<1>. QED  BY <1>1, <1>6

\* What a new row adds to the ledger of its task.
LEMMA EntriesGrow ==
  ASSUME NEW fx, NEW new, NEW t, new.key[1] = t
  PROVE  Entries(t, fx \cup {new}) =
           Entries(t, fx) \cup {Entry(new.key[2], new.payload, new.result)}
BY DEF Entries

\* It adds nothing to the others.
LEMMA EntriesOfOthers ==
  ASSUME NEW fx, NEW new, NEW u, new.key[1] # u
  PROVE  Entries(u, fx \cup {new}) = Entries(u, fx)
<1>1. {effect \in fx \cup {new} : effect.key[1] = u} = {effect \in fx : effect.key[1] = u}
  OBVIOUS
<1>. QED  BY <1>1 DEF Entries

\* The tool records a call: Affect.
LEMMA RecordAffects ==
  ASSUME IInv, AllSourced, ToolOK, ToolInv, UNCHANGED vars, NEW r \in requests,
         effects' = Tool!Recorded(r), ~\E old \in effects : old.key = r.key
  PROVE  Promise!Next
<1> DEFINE t == r.key[1]
           i == r.key[2]
           p == r.payload
           st == steps[t]
           new == [key |-> r.key, payload |-> p, result |-> Wrap(p)]
<1>1. /\ t \in Tasks /\ i = tasks[t].current_step /\ i \in DOMAIN st
      /\ st[i].type = "fake_tool" /\ st[i].resolved_input = p /\ p # NULL
  BY RecordsCurrent
<1>2. p \in Value /\ r.key = <<t, i>>
  <2>1. r.key \in Keys /\ r.payload \in Value
    BY DEF ToolOK, RequestOK
  <2>. QED  BY <2>1 DEF Keys
<1>3. tasks' = tasks /\ steps' = steps /\ effects' = effects \cup {new}
  BY DEF vars, Tool!Recorded
<1>4. new.key[1] = t /\ new.key[2] = i /\ new.payload = p /\ new.result = Wrap(p)
  BY <1>2
<1> HIDE DEF new
<1>5. /\ Promise!Position(t) = i /\ i \in DOMAIN work[t].plan
      /\ work[t].plan[i].tool /\ work[t].plan[i].input = st[i].input
      /\ work[t].outputs = Committed(tasks[t], st) /\ work[t].ledger = Entries(t, effects)
  BY <1>1, PositionIsCursor
<1>6. ~\E effect \in work[t].ledger : effect.step = i
  <2> SUFFICES ASSUME NEW old \in effects, old.key[1] = t,
                      Entry(old.key[2], old.payload, old.result).step = i
               PROVE  FALSE
    BY <1>5 DEF Entries
  <2>1. old.key[2] = i
    BY DEF Entry
  <2>2. old.key \in Tasks \X (DOMAIN st)
    <3>1. old.key \in Keys
      BY DEF ToolOK, EffectRowOK
    <3>. QED  BY <1>1, <2>1, <3>1 DEF Keys
  <2>. QED  BY <1>2, <2>1, <2>2
<1>7. Promise!Fed(t, p)
  <2>1. Sourced(tasks[t], st, i)
    BY <1>1 DEF AllSourced
  <2>2. /\ st[i].input = "literal" => p = "literal"
        /\ st[i].input = "previous_output" => i > 1 /\ p = st[i - 1].output
    BY <1>1, <2>1 DEF Sourced
  <2>3. i > 1 => work[t].outputs[i - 1] = st[i - 1].output
    <3>1. tasks[t] \in TaskRow /\ st \in Seq(StepRow) /\ Cursor(tasks[t], st)
      BY <1>1, TaskFacts DEF Coherent
    <3>2. \A j \in 1..(i - 1) : Committed(tasks[t], st)[j] = st[j].output
      BY <1>1, <3>1, CommittedAt
    <3>3. i \in Nat
      BY <1>1, <3>1
    <3>. QED  BY <1>5, <3>2, <3>3
  <2>. QED  BY <1>5, <2>2, <2>3 DEF Promise!Fed, Promise!Current
<1> DEFINE l == Entries(t, effects) \cup {Entry(i, p, Wrap(p))}
           o == Committed(tasks[t], st)
<1>8. work'[t] = Seen(Plan(st), o, l)
  <2>1. work'[t] = Seen(Plan(steps'[t]), Committed(tasks'[t], steps'[t]), Entries(t, effects'))
    BY <1>1, WorkAt
  <2>2. Entries(t, effects \cup {new}) = l
    <3>1. Entries(t, effects \cup {new}) =
            Entries(t, effects) \cup {Entry(new.key[2], new.payload, new.result)}
      BY <1>4, EntriesGrow
    <3>. QED  BY <1>4, <3>1
  <2>. QED  BY <1>3, <2>1, <2>2
<1>9. work[t] = Seen(Plan(st), o, Entries(t, effects))
  BY <1>1, WorkAt
<1>10. work'[t] = [work[t] EXCEPT !.ledger = l]
  <2> HIDE DEF l, o
  <2>1. [Seen(Plan(st), o, Entries(t, effects)) EXCEPT !.ledger = l] = Seen(Plan(st), o, l)
    BY SeenParts
  <2>. QED  BY <1>8, <1>9, <2>1
<1>11. ASSUME NEW u \in Tasks \ {t} PROVE work'[u] = work[u]
  <2>1. Entries(u, effects \cup {new}) = Entries(u, effects)
    <3>1. new.key[1] # u
      BY <1>4
    <3>. QED  BY <3>1, EntriesOfOthers
  <2>2. /\ work[u] = Seen(Plan(steps[u]), Committed(tasks[u], steps[u]), Entries(u, effects))
        /\ work'[u] = Seen(Plan(steps'[u]), Committed(tasks'[u], steps'[u]), Entries(u, effects'))
    BY WorkAt
  <2>. QED  BY <1>3, <2>1, <2>2
<1>12. Promise!Set(t, [work[t] EXCEPT !.ledger = l])
  BY <1>1, <1>10, <1>11, WorkSet
<1>13. l = work[t].ledger \cup {[step |-> i, payload |-> p, result |-> Wrap(p)]}
  BY <1>5 DEF Entry
<1> HIDE DEF l, i, p
<1>14. Promise!Affect(t, p)
  BY <1>5, <1>6, <1>7, <1>12, <1>13 DEF Promise!Affect, Promise!Current
<1>. QED  BY <1>1, <1>2, <1>14 DEF Promise!Next

-----------------------------------------------------------------------------
(* The store. *)

\* Where a transaction leaves the cursor of a task.
LEMMA EffectCursor ==
  ASSUME NEW row \in TaskRow, row.status # "NONE", NEW st, NEW new, NEW st2, NEW log,
         Effect(row, st, new, st2, log)
  PROVE  \/ new.current_step = row.current_step
         \/ /\ new.current_step = row.current_step + 1
            /\ st2[row.current_step].status = "SUCCEEDED"
BY DEF Effect, CreateEffect, MarkEffect, WakeEffect, ClaimEffect, RecoverEffect, Claims,
       ConvergeEffect, StartEffect, WaitEffect, FailEffect, SucceedEffect, ControlEffect,
       ApproveEffect, RejectEffect, KeepsCursor

\* A transaction leaves the definitions of the steps.
LEMMA PlanKept ==
  ASSUME NEW row, NEW st, NEW st2, st2 = st \/ WritesCurrent(row, st, st2)
  PROVE  Plan(st2) = Plan(st)
<1>1. DOMAIN st2 = DOMAIN st /\ \A i \in DOMAIN st : st2[i].type = st[i].type /\ st2[i].input = st[i].input
  BY DEF WritesCurrent
<1>. QED  BY <1>1, Zenon DEF Plan

\* The outputs of the steps before the cursor are kept.
LEMMA OutputsKept ==
  ASSUME NEW row \in TaskRow, NEW st \in Seq(StepRow), Cursor(row, st), NEW new, NEW st2,
         st2 = st \/ WritesCurrent(row, st, st2)
  PROVE  /\ new.current_step = row.current_step => Committed(new, st2) = Committed(row, st)
         /\ new.current_step = row.current_step + 1 =>
              Committed(new, st2) = Append(Committed(row, st), st2[row.current_step].output)
<1> DEFINE c == row.current_step
           n == c - 1
           f == Committed(row, st)
           out == st2[c].output
<1>1. c \in Nat /\ c # 0 /\ c <= Len(st) + 1 /\ Len(st) \in Nat /\ DOMAIN st = 1..Len(st)
  <2>1. c \in Nat /\ c # 0
    BY RowFields
  <2>2. c <= Len(st) + 1 /\ Len(st) \in Nat /\ DOMAIN st = 1..Len(st)
    BY DEF Cursor
  <2>. QED  BY <2>1, <2>2
<1>2. n \in Nat /\ c = n + 1 /\ n <= Len(st)
  BY <1>1
<1>3. \A i \in 1..n : st2[i] = st[i]
  <2> TAKE i \in 1..n
  <2>1. i \in DOMAIN st /\ i # c
    BY <1>1, <1>2
  <2>. QED  BY <2>1 DEF WritesCurrent
<1>4. f \in Seq(Outputs \cup {NULL}) /\ Len(f) + 1 = c /\ \A i \in 1..n : f[i] = st[i].output
  BY CommittedAt
<1>5. f = [i \in 1..n |-> st[i].output]
  BY DEF Committed
<1>6. Committed(new, st2) = [i \in 1..(new.current_step - 1) |-> st2[i].output]
  BY DEF Committed
<1> HIDE DEF f, c, n
<1>7. ASSUME new.current_step = c PROVE Committed(new, st2) = f
  BY <1>3, <1>5, <1>6, <1>7 DEF n
<1>8. ASSUME new.current_step = c + 1 PROVE Committed(new, st2) = Append(f, out)
  <2>1. new.current_step - 1 = n + 1
    BY <1>2, <1>8
  <2>2. Committed(new, st2) = [i \in 1..(n + 1) |-> st2[i].output]
    BY <1>6, <2>1
  <2>3. out = st2[n + 1].output
    BY <1>2 DEF c
  <2> HIDE DEF out
  <2>4. Len(f) = n /\ DOMAIN f = 1..n
    BY <1>2, <1>4
  <2> DEFINE g == Append(f, out)
  <2>5. g \in Seq(Outputs \cup {NULL, out}) /\ Len(g) = n + 1
    <3>1. f \in Seq(Outputs \cup {NULL, out}) /\ out \in Outputs \cup {NULL, out}
      BY <1>4
    <3>. QED  BY <2>4, <3>1
  <2>6. g[n + 1] = out /\ \A i \in 1..n : g[i] = f[i]
    BY <1>2, <1>4, <2>4
  <2> HIDE DEF g
  <2>7. g = [i \in 1..(n + 1) |-> g[i]]
    BY <2>5
  <2>8. ASSUME NEW i \in 1..(n + 1) PROVE st2[i].output = g[i]
    <3>1. CASE i = n + 1
      BY <2>3, <2>6, <3>1
    <3>2. CASE i # n + 1
      <4>1. i \in 1..n
        BY <1>2, <3>2
      <4>. QED  BY <1>3, <1>4, <2>6, <4>1
    <3>. QED  BY <3>1, <3>2
  <2>9. Committed(new, st2) = g
    BY <2>2, <2>7, <2>8, Zenon
  <2>. QED  BY <2>9 DEF g
<1>. QED  BY <1>7, <1>8 DEF f, c

\* A transaction is seen of its own task only.
LEMMA OthersRest ==
  ASSUME NEW t \in Tasks, OnlyTask(t), effects' = effects
  PROVE  \A u \in Tasks \ {t} : work'[u] = work[u]
<1> TAKE u \in Tasks \ {t}
<1>1. tasks'[u] = tasks[u] /\ steps'[u] = steps[u]
  BY DEF OnlyTask
<1>2. /\ work[u] = Seen(Plan(steps[u]), Committed(tasks[u], steps[u]), Entries(u, effects))
      /\ work'[u] = Seen(Plan(steps'[u]), Committed(tasks'[u], steps'[u]), Entries(u, effects'))
  BY WorkAt
<1>. QED  BY <1>1, <1>2

\* CreateTask: Accept.
LEMMA CreateAccepts ==
  ASSUME Blank, Ledger, effects' = effects, NEW t \in Tasks, OnlyTask(t), NEW log,
         CreateEffect(tasks[t], steps[t], tasks'[t], steps'[t], log)
  PROVE  Promise!Next
<1> DEFINE st2 == steps'[t]
           none == Committed(NoTask, <<>>)
<1>1. tasks[t] = NoTask /\ steps[t] = <<>> /\ tasks'[t].current_step = 1
  BY Zenon DEF CreateEffect, Blank
<1>2. PICK d \in Definitions :
        validateDefinition(d) /\ st2 = [i \in DOMAIN d.steps |-> NewStep(d.steps[i])]
  BY Zenon DEF CreateEffect
<1>3. Plan(st2) = Plan(d.steps)
  <2>1. DOMAIN st2 = DOMAIN d.steps
    BY <1>2
  <2>2. ASSUME NEW i \in DOMAIN d.steps
        PROVE  st2[i].type = d.steps[i].type /\ st2[i].input = d.steps[i].input
    BY <1>2 DEF NewStep
  <2>. QED  BY <2>1, <2>2, Zenon DEF Plan
<1>4. Entries(t, effects) = {}
  <2>1. ~\E row \in effects : row.key[1] = t
    BY <1>1 DEF Ledger, Backed
  <2>. QED  BY <2>1 DEF Entries
<1>5. Plan(<<>>) = <<>>
  BY DEF Plan
<1>6. none = <<>> /\ Committed(tasks'[t], st2) = <<>>
  <2>1. NoTask.current_step = 1
    BY DEF NoTask
  <2>2. \A q : q.current_step = 1 => \A x : Committed(q, x) = <<>>
    BY DEF Committed
  <2>. QED  BY <1>1, <2>1, <2>2, Zenon
<1>7. Promise!Nothing = Seen(<<>>, <<>>, {})
  BY DEF Promise!Nothing, Seen
<1>8. /\ work[t] = Seen(Plan(steps[t]), Committed(tasks[t], steps[t]), Entries(t, effects))
      /\ work'[t] = Seen(Plan(st2), Committed(tasks'[t], st2), Entries(t, effects'))
  BY WorkAt
<1>9. work[t] = Promise!Nothing
  BY <1>1, <1>4, <1>5, <1>6, <1>7, <1>8
<1> DEFINE p == Plan(d.steps)
<1>10. work'[t] = Seen(p, <<>>, {})
  BY <1>3, <1>4, <1>6, <1>8
<1> HIDE DEF p
<1>11. work'[t] = [Promise!Nothing EXCEPT !.plan = p]
  BY <1>7, <1>10, SeenParts
<1>12. Promise!Set(t, [Promise!Nothing EXCEPT !.plan = p])
  BY <1>11, OthersRest, WorkSet
<1>13. Promise!Accept(t, p)
  BY <1>9, <1>12 DEF Promise!Accept
<1>. QED  BY <1>2, <1>13 DEF Promise!Next, p

\* FinishStep of a success and an approval: Advance.
LEMMA CommitAdvances ==
  ASSUME IInv, IInv', Earned', effects' = effects, NEW t \in Tasks, OnlyTask(t),
         WritesCurrent(tasks[t], steps[t], steps'[t]),
         tasks[t].current_step \in DOMAIN steps[t],
         tasks'[t].current_step = tasks[t].current_step + 1,
         steps'[t][tasks[t].current_step].status = "SUCCEEDED"
  PROVE  Promise!Next
<1> DEFINE row == tasks[t]
           st == steps[t]
           new == tasks'[t]
           st2 == steps'[t]
           c == row.current_step
           out == st2[c].output
           o == Committed(row, st)
           l == Entries(t, effects)
<1>1. row \in TaskRow /\ st \in Seq(StepRow) /\ Cursor(row, st)
  BY TaskFacts DEF Coherent
<1>2. Committed(new, st2) = Append(o, out) /\ Plan(st2) = Plan(st)
  BY <1>1, OutputsKept, PlanKept
<1>3. /\ Promise!Position(t) = c /\ c \in DOMAIN work[t].plan
      /\ work[t].plan[c].tool <=> st[c].type = "fake_tool"
      /\ work[t].outputs = o /\ work[t].ledger = l
  BY PositionIsCursor
<1>4. work[t] = Seen(Plan(st), o, l)
  BY WorkAt
<1>5. work'[t] = Seen(Plan(st), Append(o, out), l)
  BY <1>2, WorkAt
<1>6. work'[t] = [work[t] EXCEPT !.outputs = Append(work[t].outputs, out)]
  <2> HIDE DEF o, l, out
  <2> DEFINE more == Append(o, out)
             p == Plan(st)
  <2>1. work[t] = Seen(p, o, l) /\ work'[t] = Seen(p, more, l) /\ more = Append(work[t].outputs, out)
    BY <1>3, <1>4, <1>5
  <2> HIDE DEF more, p
  <2>2. [Seen(p, o, l) EXCEPT !.outputs = more] = Seen(p, more, l)
    BY SeenParts
  <2>. QED  BY <2>1, <2>2
<1>7. Promise!Set(t, [work[t] EXCEPT !.outputs = Append(work[t].outputs, out)])
  BY <1>6, OthersRest, WorkSet
<1>8. c \in DOMAIN st2 /\ st2[c].type = st[c].type
  BY DEF WritesCurrent
<1>9. out \in Value \cup {NULL}
  <2>1. st2 \in Seq(StepRow)
    BY DEF IInv, TypeOK
  <2>2. st2[c] \in StepRow
    BY <1>8, <2>1
  <2>. QED  BY <2>2, StepFields DEF Value
<1>10. ASSUME work[t].plan[c].tool
       PROVE  \E effect \in work[t].ledger : effect.step = c /\ effect.result = out
  <2>1. HasRow(<<t, c>>, out, effects)
    BY <1>3, <1>8, <1>10 DEF Earned
  <2>2. PICK e \in effects : e.key = <<t, c>> /\ e.result = out
    BY <2>1 DEF HasRow
  <2> DEFINE x == Entry(e.key[2], e.payload, e.result)
  <2>3. x \in l
    BY <2>2 DEF Entries
  <2>4. x.step = c /\ x.result = out
    BY <2>2 DEF Entry
  <2>. QED  BY <1>3, <2>3, <2>4
<1> HIDE DEF out, c
<1>11. Promise!Advance(t, out)
  BY <1>3, <1>7, <1>10 DEF Promise!Advance, Promise!Current
<1>. QED  BY <1>9, <1>11 DEF Promise!Next

\* Every step of the store is a step of the pipeline's, or is not seen there.
LEMMA StoreWorks ==
  ASSUME IInv, IInv', Blank, Ledger, Earned', effects' = effects, [Next]_vars
  PROVE  [Promise!Next]_work
<1>1. CASE ClockOnly
  <2>1. \A t \in Tasks : work'[t] = work[t]
    BY <1>1, WorkAt DEF ClockOnly
  <2>. QED  BY <2>1, WorkRests
<1>2. ASSUME NEW t \in Tasks, Transacts(t) PROVE [Promise!Next]_work
  <2> DEFINE row == tasks[t]
             st == steps[t]
             new == tasks'[t]
             st2 == steps'[t]
  <2>1. PICK log \in Seq(EventRow) : Effect(row, st, new, st2, log)
    BY <1>2 DEF Transacts
  <2>2. row \in TaskRow /\ st \in Seq(StepRow) /\ Coherent(row, st) /\ Cursor(row, st)
    BY TaskFacts DEF Coherent
  <2>3. OnlyTask(t)
    BY <1>2 DEF Transacts
  <2>4. CASE row.status = "NONE"
    <3>1. CreateEffect(row, st, new, st2, log)
      BY <2>1, <2>4, EffectStatus
    <3>. QED  BY <2>3, <3>1, CreateAccepts
  <2>5. CASE row.status # "NONE"
    <3>1. \/ st2 = st
          \/ row.current_step \in DOMAIN st /\ WritesCurrent(row, st, st2)
      BY <2>1, <2>2, <2>5, EffectSteps
    <3>2. CASE new.current_step = row.current_step
      <4>1. Plan(st2) = Plan(st) /\ Committed(new, st2) = Committed(row, st)
        BY <2>2, <3>1, <3>2, PlanKept, OutputsKept
      <4>2. work'[t] = work[t]
        BY <4>1, WorkAt
      <4>3. \A u \in Tasks : work'[u] = work[u]
        BY <2>3, <4>2, OthersRest
      <4>. QED  BY <4>3, WorkRests
    <3>3. CASE /\ new.current_step = row.current_step + 1
               /\ st2[row.current_step].status = "SUCCEEDED"
      <4>1. row.current_step \in DOMAIN st /\ st[row.current_step].status # "SUCCEEDED"
        <5>1. row.status \in LiveStatus
          BY <2>1, <2>5, EffectStatus
        <5>2. row.current_step \in DOMAIN st /\ Fits(st[row.current_step], row.status)
          BY <2>2, <5>1 DEF Coherent, CanGoOn
        <5>. QED  BY <5>1, <5>2 DEF Fits, Startable, InFlight, LiveStatus
      <4>2. WritesCurrent(row, st, st2)
        BY <3>1, <3>3, <4>1
      <4>. QED  BY <2>3, <3>3, <4>1, <4>2, CommitAdvances
    <3>4. \/ new.current_step = row.current_step
          \/ new.current_step = row.current_step + 1 /\ st2[row.current_step].status = "SUCCEEDED"
      BY <2>1, <2>2, <2>5, EffectCursor
    <3>. QED  BY <3>2, <3>3, <3>4
  <2>. QED  BY <2>4, <2>5
<1>. QED  BY <1>1, <1>2, NextEffect

\* Crashes, takeovers, retries, lost responses and late requests together show nothing
\* but tasks whose steps are committed one after another, and whose calls of the tool take
\* effect once each, in the order of the steps, each with the output that the step before
\* it has committed, and before the step's own output is committed.
THEOREM PipelineRefinement == WorkerSpec => ImplementsPipeline
<1>1. WorkerInit => Promise!Init
  <2> SUFFICES ASSUME WorkerInit PROVE \A t \in Tasks : work[t] = Promise!Nothing
    BY DEF Promise!Init, work
  <2> TAKE t \in Tasks
  <2>1. tasks[t] = NoTask /\ steps[t] = <<>> /\ effects = {}
    BY DEF WorkerInit, Init, Tool!ToolInit
  <2>2. Plan(<<>>) = <<>> /\ Committed(NoTask, <<>>) = <<>> /\ Entries(t, {}) = {}
    BY DEF Plan, Committed, NoTask, Entries
  <2>3. work[t] = Seen(Plan(steps[t]), Committed(tasks[t], steps[t]), Entries(t, effects))
    BY WorkAt
  <2>. QED  BY <2>1, <2>2, <2>3 DEF Promise!Nothing, Seen
<1>2. /\ Safe /\ WorkerInv /\ ToolInv /\ AllSourced
      /\ Safe' /\ ToolInv' /\ [WorkerNext]_workerVars
      => [Promise!Next]_work
  <2> SUFFICES ASSUME Safe, WorkerInv, ToolInv, AllSourced, Safe', ToolInv',
                      [WorkerNext]_workerVars
               PROVE  [Promise!Next]_work
    OBVIOUS
  <2>1. IInv /\ IInv' /\ Blank /\ ToolOK /\ [Next]_vars
    BY WorkerStep DEF Safe, WorkerInv
  <2>2. CASE effects' = effects
    BY <2>1, <2>2, StoreWorks DEF ToolInv
  <2>3. CASE /\ UNCHANGED vars
             /\ \E r \in requests : /\ effects' = Tool!Recorded(r)
                                    /\ ~\E old \in effects : old.key = r.key
    BY <2>1, <2>3, RecordAffects
  <2>. QED  BY <2>2, <2>3, EffectsBy
<1>3. WorkerSpec => []AllSourced
  BY WorkerImplementsStore, SourcedInvariance DEF ImplementsStore
<1>. QED  BY <1>1, <1>2, <1>3, WorkerInvariance, ToolInvariance, PTL
          DEF WorkerSpec, ImplementsPipeline, Promise!Spec

=============================================================================
