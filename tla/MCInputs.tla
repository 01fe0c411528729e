------------------------------- MODULE MCInputs -------------------------------
(***************************************************************************)
(* Documents of depth three and less: every reference, well formed or not, *)
(* alone, as a field, as an item, and as a field of an item.               *)
(***************************************************************************)
EXTENDS Inputs, TLC

Leaves == {Null, String("1s")}

Names == {String("previous_output"), String("checkpoint"), String("secret"), Number(1)}

Refs == {Ref(name) : name \in Names}
        \cup {Object([k \in {referenceKey, "value"} |-> String("checkpoint")])}

Of(k, v) == Object([key \in {k} |-> v])

Nested == Refs \cup Leaves
          \cup {Array(<<v>>) : v \in Refs \cup Leaves}
          \cup {Array(<<String("1s"), Of("a", r)>>) : r \in Refs}
          \cup {Of("a", r) : r \in Refs}

Durations == {Of("duration", d) : d \in {String("1s"), String("0s"), String("-1s"), String("soon"),
                                         Number(1), Null, Ref(String("checkpoint"))}}

Flaky == {Object([value |-> v, temporary_failures |-> n, permanent |-> b]) :
            v \in {Null, Ref(String("previous_output"))},
            n \in {Number(-1), Number(0), Number(1), Null, Ref(String("previous_output"))},
            b \in {Bool(TRUE), Bool(FALSE), String("1s")}}

\* Fields in another spelling, alone and beside the exact one.
OtherSpelling ==
  {Of("VALUE", Null), Of("DURATION", String("1s"))}
  \cup {Object([value |-> String("1s"), VALUE |-> v]) : v \in Leaves \cup {Ref(String("checkpoint"))}}
  \cup {Object([duration |-> String("1s"), DURATION |-> d]) :
           d \in {String("soon"), Number(1), Null, Ref(String("checkpoint"))}}
  \cup {Object([value |-> Null, temporary_failures |-> n, TEMPORARY_FAILURES |-> m,
                permanent |-> Bool(b)]) :
           n, m \in {Number(-1), Number(0), Number(1), Null}, b \in BOOLEAN}

MCPosted ==
  Nested \cup {Of("value", v) : v \in Nested} \cup Durations \cup Flaky \cup OtherSpelling

\* A reference that a tool has returned is data.
MCResults == {NULL, Null, Of("value", String("1s")), Ref(String("checkpoint"))}

\* No executor reports a checkpoint; the column may hold any document.
MCCheckpoints == {Object(<<>>), Of("value", Number(1)), String("1s"), Null}

MCWrap(v) == Of("value", v)
MCSlept == Of("slept", String("1s"))
=============================================================================
