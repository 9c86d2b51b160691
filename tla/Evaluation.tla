----------------------------- MODULE Evaluation -----------------------------
(***************************************************************************)
(* app/core/eval.py: the schema check, the reading of the judge's reply    *)
(* and the row made of both.  A reply is the sequence of the lines of its  *)
(* stripped text, a JSON document counting as one line; a call that raises *)
(* ends like an empty reply.                                               *)
(***************************************************************************)
EXTENDS Integers, SequencesExt

CONSTANTS
    Fences,         \* lines that start with ```
    Verdicts        \* lines that are an object whose judge_score is a number
                    \* or absent, with that number or Absent

ASSUME EvaluationAssumption == Fences \cap DOMAIN Verdicts = {}

Absent == 0
DefaultScore == 5

\* "overlong json" opens like JSON and is nested too deep for json.loads, or has
\* an integer of too many digits: a RecursionError or a plain ValueError.
Responses == {"blank", "text", "json", "broken json", "overlong json"}
Schemas == {"none", "accepts", "rejects", "malformed"}

\* validate_schema; what overlong JSON and a malformed schema raise, it does not
\* catch.
validate_schema(response, schema) ==
    CASE response = "blank" -> "invalid"
      [] response = "overlong json" -> "raises"
      [] response \notin {"blank", "overlong json"} /\ schema = "none" ->
            IF response = "broken json" THEN "invalid" ELSE "valid"
      [] response \notin {"blank", "overlong json"} /\ schema # "none" ->
            IF response # "json" \/ schema = "rejects" THEN "invalid"
            ELSE IF schema = "accepts" THEN "valid" ELSE "raises"

\* Mutants, here and below: a bug that the definition after it could have.
Unfenced_LastKept(lines) ==     \* only the opening fence is taken off
    IF lines # <<>> /\ Head(lines) \in Fences THEN Tail(lines) ELSE lines

Unfenced(lines) ==
    IF lines = <<>> \/ Head(lines) \notin Fences THEN lines
    ELSE IF Len(lines) > 1 /\ Last(lines) \in Fences THEN Front(Tail(lines)) ELSE Tail(lines)

IsVerdict(lines) == Len(lines) = 1 /\ lines[1] \in DOMAIN Verdicts

\* judge_score and judge_rationale, or the fallback.
JudgeResult(reply) ==
    LET lines == Unfenced(reply)
        given == Verdicts[lines[1]]
    IN  IF IsVerdict(lines)
        THEN [score |-> IF given = Absent THEN DefaultScore ELSE given, rationale |-> "judge"]
        ELSE [score |-> DefaultScore, rationale |-> "fallback"]

\* record_eval_result: the rows that the table may get.  A failed insert, which
\* a trace id that is no UUID causes as well, is logged and forgotten.
record_eval_result(row) == {{}, {row}}

\* evaluate_and_record_response: the outcomes it may have.  What validate_schema
\* raises ends it without a row, and is logged.
evaluate_and_record_response(response, schema, reply) ==
    LET valid == validate_schema(response, schema)
    IN  IF valid = "raises" THEN {{}}
        ELSE record_eval_result([schema_valid |-> valid, judge |-> JudgeResult(reply)])
=============================================================================
