-------------------------------- MODULE Inputs --------------------------------
(***************************************************************************)
(* The input of a step from POST /tasks to its execution: the two checks   *)
(* of validateDefinition, ResolveInput when the step is started, and the   *)
(* executor that decodes the result.  The two recursive functions of       *)
(* resolve.go are translated as such, on decoded JSON documents, and       *)
(* compared with a definition by paths.                                    *)
(*                                                                         *)
(* A JSON document is a record with its kind; numbers are integers, and no *)
(* key is written twice in the same object.                                *)
(***************************************************************************)
EXTENDS Executor, SequencesExt

CONSTANTS
  Posted,      \* documents a client may configure as input
  Results,     \* what the column output of the step before may hold, NULL included
  Checkpoints  \* what the column checkpoint may hold

VARIABLES
  step         \* the step: its definition, the facts it is resolved from, the result

Null == [kind |-> "null"]
String(s) == [kind |-> "string", s |-> s]
Number(n) == [kind |-> "number", n |-> n]
Bool(b) == [kind |-> "bool", b |-> b]
Array(items) == [kind |-> "array", items |-> items]
Object(fields) == [kind |-> "object", fields |-> fields]

referenceKey == "$ref"
Ref(name) == Object([k \in {referenceKey} |-> name])

\* An error, which is no document.
Error(cause) == [kind |-> "error", cause |-> cause]

IsArray(v) == v.kind = "array"
IsObject(v) == v.kind = "object"

-----------------------------------------------------------------------------
(* resolve.go *)

IsReference(v) == IsObject(v) /\ referenceKey \in DOMAIN v.fields

WellFormed(v) == DOMAIN v.fields = {referenceKey} /\ v.fields[referenceKey].kind = "string"

RECURSIVE validateReferences_SkipsArrays(_, _)
\* Mutant: the items of an array are not looked at.
validateReferences_SkipsArrays(value, allowPrevious) ==
  IF IsReference(value)
  THEN /\ WellFormed(value)
       /\ value.fields[referenceKey].s \in
            {"checkpoint"} \cup IF allowPrevious THEN {"previous_output"} ELSE {}
  ELSE IsObject(value) => \A k \in DOMAIN value.fields :
         validateReferences_SkipsArrays(value.fields[k], allowPrevious)

RECURSIVE validateReferences(_, _)
validateReferences(value, allowPrevious) ==
  IF IsReference(value)
  THEN /\ WellFormed(value)
       /\ value.fields[referenceKey].s \in
            {"checkpoint"} \cup IF allowPrevious THEN {"previous_output"} ELSE {}
  ELSE /\ IsArray(value) => \A k \in DOMAIN value.items :
            validateReferences(value.items[k], allowPrevious)
       /\ IsObject(value) => \A k \in DOMAIN value.fields :
            validateReferences(value.fields[k], allowPrevious)

\* The referenced document; a Go nil is the error that there is none.
Referenced(v, previousOutput, checkpoint) ==
  IF ~WellFormed(v) THEN Error("malformed")
  ELSE IF v.fields[referenceKey].s = "previous_output"
  THEN IF previousOutput = NULL THEN Error("previous_output is unavailable") ELSE previousOutput
  ELSE IF v.fields[referenceKey].s = "checkpoint"
  THEN IF checkpoint = NULL THEN Error("checkpoint is unavailable") ELSE checkpoint
  ELSE Error("unknown")

\* The parts of a container, or the error of one of them.
FirstError(parts) ==
  LET failed == {k \in DOMAIN parts : parts[k].kind = "error"}
  IN  IF failed = {} THEN NULL ELSE parts[CHOOSE k \in failed : TRUE]

RECURSIVE resolveValue_Again(_, _, _)
\* Mutant: what a reference stands for is resolved in its turn.
resolveValue_Again(value, previousOutput, checkpoint) ==
  LET Resolve(parts) == [k \in DOMAIN parts |-> resolveValue_Again(parts[k], previousOutput, checkpoint)]
      Of(parts, whole) == IF FirstError(parts) = NULL THEN whole ELSE FirstError(parts)
  IN  IF IsReference(value)
      THEN IF Referenced(value, previousOutput, checkpoint).kind = "error"
           THEN Referenced(value, previousOutput, checkpoint)
           ELSE resolveValue_Again(Referenced(value, previousOutput, checkpoint), NULL, checkpoint)
      ELSE IF IsArray(value) THEN Of(Resolve(value.items), Array(Resolve(value.items)))
      ELSE IF IsObject(value) THEN Of(Resolve(value.fields), Object(Resolve(value.fields)))
      ELSE value

RECURSIVE resolveValue(_, _, _)
resolveValue(value, previousOutput, checkpoint) ==
  LET Resolve(parts) == [k \in DOMAIN parts |-> resolveValue(parts[k], previousOutput, checkpoint)]
      Of(parts, whole) == IF FirstError(parts) = NULL THEN whole ELSE FirstError(parts)
  IN  IF IsReference(value) THEN Referenced(value, previousOutput, checkpoint)
      ELSE IF IsArray(value) THEN Of(Resolve(value.items), Array(Resolve(value.items)))
      ELSE IF IsObject(value) THEN Of(Resolve(value.fields), Object(Resolve(value.fields)))
      ELSE value

\* An absent column and the document null are both nil.
decodeOptionalJSON(column) == IF column = Null THEN NULL ELSE column

ResolveInput(configured, previousOutput, checkpoint) ==
  resolveValue(configured, decodeOptionalJSON(previousOutput), decodeOptionalJSON(checkpoint))

-----------------------------------------------------------------------------
(* json.Unmarshal as executor.go uses it.  validateEcho and validateSleep    *)
(* decode a map and look a key up as it is written.  All others decode a     *)
(* struct, and a key stands for a field whatever the case of its letters:    *)
(* every spelling is decoded, in the order of the document, and one of the   *)
(* wrong type makes the whole document undecodable.                          *)

\* The fields of the structs, each with the other spelling in use.
OtherCase ==
  [value |-> "VALUE", duration |-> "DURATION", temporary_failures |-> "TEMPORARY_FAILURES",
   permanent |-> "PERMANENT", block_first_response |-> "BLOCK_FIRST_RESPONSE"]

\* The fields for which an object has both spellings.
SpeltTwice(v) ==
  {k \in DOMAIN OtherCase : IsObject(v) /\ {k, OtherCase[k]} \subseteq DOMAIN v.fields}

Undecodable == Input(NULL, NULL, NULL, FALSE)

\* A field in a map.
ByKey(v, k) == IF k \in DOMAIN v.fields THEN v.fields[k] ELSE NULL

\* What an object has for a field of a struct, in the order of the document: exactLast are
\* the fields whose exact spelling comes after the other.
Spelt(v, k, exactLast) ==
  LET spellings == IF k \in exactLast THEN <<OtherCase[k], k>> ELSE <<k, OtherCase[k]>>
      written == SelectSeq(spellings, LAMBDA key : key \in DOMAIN v.fields)
  IN  [n \in DOMAIN written |-> v.fields[written[n]]]

LastOf(parts) == IF parts = <<>> THEN NULL ELSE Last(parts)

\* A json.RawMessage takes null as it takes any document; a pointer is set to nil by null; a
\* string or a bool keeps what it has.
RawField(v, k, exactLast) == LastOf(Spelt(v, k, exactLast))

PointerField(v, k, exactLast) ==
  IF RawField(v, k, exactLast) = Null THEN NULL ELSE RawField(v, k, exactLast)

PlainField(v, k, exactLast) ==
  LastOf(SelectSeq(Spelt(v, k, exactLast), LAMBDA part : part # Null))

Has(v, k, kind) ==
  \A key \in {k, OtherCase[k]} \cap DOMAIN v.fields : v.fields[key].kind \in {kind, "null"}

\* time.ParseDuration of the strings in use, in seconds; NULL if it does not parse.
ParseDuration == [s \in {"1s", "0s", "-1s", "soon"} |->
                    CASE s = "1s" -> 1 [] s = "0s" -> 0 [] s = "-1s" -> -1 [] OTHER -> NULL]

Duration(d) == IF d # NULL /\ d.kind = "string" THEN ParseDuration[d.s] ELSE NULL

decodeMap(type, v) ==
  IF ~IsObject(v) THEN Undecodable
  ELSE IF type = "sleep" THEN Input(NULL, Duration(ByKey(v, "duration")), NULL, FALSE)
  ELSE Input(ByKey(v, "value"), NULL, NULL, FALSE)

flakyInput(v, exactLast) ==
  LET failures == PointerField(v, "temporary_failures", exactLast)
  IN  IF Has(v, "temporary_failures", "number") /\ Has(v, "permanent", "bool")
      THEN Input(RawField(v, "value", exactLast), NULL,
                 IF failures = NULL THEN NULL ELSE failures.n,
                 PlainField(v, "permanent", exactLast) = Bool(TRUE))
      ELSE Undecodable

\* fake_tool's struct is the one of its validation: its executor decodes nothing.
decodeStruct(type, v, exactLast) ==
  IF ~IsObject(v) THEN Undecodable
  ELSE CASE type = "echo" -> Input(RawField(v, "value", exactLast), NULL, NULL, FALSE)
         [] type = "sleep" /\ Has(v, "duration", "string") ->
              Input(NULL, Duration(PlainField(v, "duration", exactLast)), NULL, FALSE)
         [] type = "flaky" -> flakyInput(v, exactLast)
         [] type = "fake_tool" /\ Has(v, "block_first_response", "bool") ->
              Input(RawField(v, "value", exactLast), NULL, NULL, FALSE)
         [] OTHER -> Undecodable

DecodeDefinition(type, v, exactLast) ==
  IF type \in {"echo", "sleep"} THEN decodeMap(type, v) ELSE decodeStruct(type, v, exactLast)

\* ResolveInput's json.Marshal sorts the keys, and so does jsonb: capitals come first.
DecodeInput(type, v) == decodeStruct(type, v, DOMAIN OtherCase)

-----------------------------------------------------------------------------
(* A step's life.  index counts from 0; the tool answers with a result. *)

Types == {"echo", "sleep", "flaky", "fake_tool", "approval", "unknown"}

validateDefinition(type, index, input, exactLast) ==
  /\ type # "approval" => ValidateDefinition(type, DecodeDefinition(type, input, exactLast))
  /\ validateReferences(input, index > 0)

\* The client writes the keys of its document in any order.
Post(type, index, input) ==
  /\ step.state = "new"
  /\ \E exactLast \in SUBSET SpeltTwice(input) :
       step' = [step EXCEPT !.state = IF validateDefinition(type, index, input, exactLast)
                                      THEN "accepted" ELSE "refused",
                            !.type = type, !.index = index, !.input = input]

\* StartStep or WaitForApproval; the first step has no step before it.
Start(previousOutput, checkpoint) ==
  LET resolved == ResolveInput(step.input, previousOutput, checkpoint)
  IN  /\ step.state = "accepted"
      /\ step.index = 0 => previousOutput = NULL
      /\ step' = [step EXCEPT !.state = IF resolved.kind = "error" THEN "unresolved" ELSE "started",
                              !.previous = previousOutput, !.checkpoint = checkpoint,
                              !.resolved = resolved]

Run ==
  /\ step.state = "started"
  /\ step.type # "approval"
  /\ \E n \in 1..2 :
       step' = [step EXCEPT !.state = "executed",
                            !.result = Execute(step.type, n, DecodeInput(step.type, step.resolved),
                                               [status |-> 200, body |-> Slept], NULL)]

\* Nothing is left to do with this step.
Done ==
  /\ \/ step.state \in {"refused", "unresolved", "executed"}
     \/ step.state = "started" /\ step.type = "approval"
  /\ UNCHANGED step

InputsInit ==
  step = [state |-> "new", type |-> "unknown", index |-> 0, input |-> NULL, previous |-> NULL,
          checkpoint |-> NULL, resolved |-> NULL, result |-> NULL]

InputsNext ==
  \/ \E type \in Types, index \in {0, 1}, input \in Posted : Post(type, index, input)
  \/ \E previousOutput \in Results, checkpoint \in Checkpoints : Start(previousOutput, checkpoint)
  \/ Run
  \/ Done

InputsSpec == InputsInit /\ [][InputsNext]_step

-----------------------------------------------------------------------------
(* The reference definition: a document is the set of its positions. *)

\* The place of an item or a field.
Places(v) ==
  IF IsArray(v) THEN {<<"item", k>> : k \in DOMAIN v.items}
  ELSE IF IsObject(v) THEN {<<"field", k>> : k \in DOMAIN v.fields}
  ELSE {}

Part(v, place) == IF place[1] = "item" THEN v.items[place[2]] ELSE v.fields[place[2]]

\* <<path, document>> for every position of v, the root first.
RECURSIVE Positions(_)
Positions(v) ==
  {<< <<>>, v>>} \cup
  UNION {{<< <<place>> \o p[1], p[2]>> : p \in Positions(Part(v, place))} : place \in Places(v)}

Under(path, prefix) ==
  Len(path) >= Len(prefix) /\ SubSeq(path, 1, Len(prefix)) = prefix

\* What a position shows, without its parts.
Shape(v) ==
  IF IsArray(v) THEN [kind |-> "array", places |-> Places(v)]
  ELSE IF IsObject(v) THEN [kind |-> "object", places |-> Places(v)]
  ELSE v

Shapes(v) == {<<p[1], Shape(p[2])>> : p \in Positions(v)}

References(v) == {p \in Positions(v) : IsReference(p[2])}

\* The shapes of v with every reference replaced by the positions of its document.
Substituted(v, previousOutput, checkpoint) ==
  {<<p[1], Shape(p[2])>> :
     p \in {q \in Positions(v) : \A r \in References(v) : ~Under(q[1], r[1])}}
  \cup
  UNION {{<<r[1] \o q[1], q[2]>> :
            q \in Shapes(IF r[2] = Ref(String("checkpoint")) THEN checkpoint ELSE previousOutput)} :
         r \in References(v)}

-----------------------------------------------------------------------------

Nil(column) == column \in {NULL, Null}

\* An input that POST /tasks accepts can be resolved, however deep its references are:
\* StartStep fails on it only if it refers to the output of a step that has none (an
\* approval, or a null result), or to a checkpoint that is null; never on a reference that
\* is malformed or unknown.
AcceptedInputsResolve ==
  step.state = "unresolved" =>
    \E r \in References(step.input) :
      \/ /\ step.resolved = Error("previous_output is unavailable")
         /\ r[2] = Ref(String("previous_output")) /\ Nil(step.previous)
      \/ /\ step.resolved = Error("checkpoint is unavailable")
         /\ r[2] = Ref(String("checkpoint")) /\ Nil(step.checkpoint)

\* ResolveInput replaces the references and changes nothing else, at any depth, in
\* arrays and in objects; a document that stands for a reference is not read for
\* references again, even if it is made of them.
ReplacesReferencesOnly ==
  step.state \in {"started", "executed"} =>
    Shapes(step.resolved) = Substituted(step.input, step.previous, step.checkpoint)

\* What validateDefinition has checked on the configured input holds for the resolved one,
\* although the executor may decode it in another way: an accepted step fails because of
\* its input only if that is a sleep's and has, besides the duration that was checked, one
\* in another spelling that is no string.  A string there does not take the place of the
\* one that was checked.
OnlyASecondSpellingFails ==
  step.state = "executed" =>
    \/ step.result.err = NULL
    \/ step.result.err.cause # "invalid input"
    \/ /\ step.type = "sleep" /\ "duration" \in SpeltTwice(step.resolved)
       /\ step.resolved.fields["DURATION"].kind \notin {"string", "null"}

-----------------------------------------------------------------------------
(* What the documents say of POST /tasks. *)

\* An invalid input is refused on creation: no accepted step fails in its executor because
\* of its input.
AcceptedInputsExecute ==
  step.state = "executed" =>
    step.result.err = NULL \/ step.result.err.cause # "invalid input"
=============================================================================
