-------------------------- MODULE EvaluationRules --------------------------
(***************************************************************************)
(* The deterministic half of the evaluation prototype: the thirteen rules  *)
(* an ExecutionRecord is held against (rules.py), the verdict of the       *)
(* evaluator (evaluator.py) and the failure the attribution layer makes of *)
(* it (failure_attribution.py).  There is no state here: a record is       *)
(* written by the runtime and read by everything below.                    *)
(*                                                                         *)
(* A record is                                                             *)
(*   outcome    the turn's end reason, "absent" when the field is missing  *)
(*   hasTools   whether the record has the field tools at all              *)
(*   hasResults whether it has the field tool_results at all               *)
(*   calls      the calls in order, each with the tool's name and what the *)
(*              results say of it                                          *)
(*   attempts   the attempts in order, by the way each ended               *)
(*   refs       which of the references a record may lack it has           *)
(*   context    the provenance of the context                              *)
(*   lossy      whether the lossiness container has a LOSSY entry          *)
(*   steps      the worst outcome of a step                                *)
(* and what the judges read (JudgeContract): texts and effects.            *)
(***************************************************************************)
EXTENDS Verdicts, Naturals, Sequences, FiniteSets, SequencesExt

CONSTANTS Tool      \* the names of tools

\* How a call came back: no result, a result, an error, an error whose code
\* says TIMEOUT, or a result the mapping marks LOSSY.
Answer  == {"none", "ok", "error", "timeout", "lossy"}
Errors  == {"error", "timeout"}

\* How an attempt ended: ABORTED with one of three reasons, FAILED with one of
\* three errors, or COMPLETED.
Aborted == {"interrupted", "UNSAFE_RETRY_BLOCKED", "aborted"}
EndKind == Aborted \cup {"completed", "MODEL_ERROR", "CONTEXT_WINDOW_EXCEEDED", "TIMEOUT"}

Outcome == {"absent", "completed", "error", "interrupted", "max-tokens"}

Call  == [tool: Tool, answer: Answer]
Named(r, t)   == {i \in DOMAIN r.calls : r.calls[i].tool = t}
Called(r)     == {r.calls[i].tool : i \in DOMAIN r.calls}
Answers(r)    == {r.calls[i].answer : i \in DOMAIN r.calls}
Ended(r)      == {r.attempts[i] : i \in DOMAIN r.attempts}

\* The position of the first call of a tool; 0 when it was never called.
FirstCall(r, t) == IF Named(r, t) = {} THEN 0 ELSE Min(Named(r, t))

\* An absent tools field reads as no call, an absent tool_results field does
\* not read as no result (_tools, _results).
NoCallSeen(r) == r.calls = <<>> /\ ~r.hasTools

-----------------------------------------------------------------------------
(* The rules.  Each is FAIL, INCONCLUSIVE or PASS, tried in the code's order. *)

TurnCompleted(r, task) == Graded(r.outcome \notin {"absent", "completed"}, r.outcome = "absent")

NoUnresolvedTool(r, task) == Graded(r.hasResults /\ "none" \in Answers(r), ~r.hasResults)

NoUnsafeRetry(r, task) == Graded("UNSAFE_RETRY_BLOCKED" \in Ended(r), r.attempts = <<>>)

RequiredToolsCalled(r, task) ==
  LET required == {task.required[i] : i \in DOMAIN task.required}
      unknown  == required # {} /\ NoCallSeen(r)
  IN  Graded(~unknown /\ ~(required \subseteq Called(r)), unknown)

NoForbiddenTool(r, task) ==
  LET unknown == task.forbidden # {} /\ NoCallSeen(r)
  IN  Graded(Called(r) \cap task.forbidden # {}, unknown)

\* rule_06 returns at the first required tool whose first call settles it, so
\* an INCONCLUSIVE one hides the FAIL of a later one.
RequiredToolSucceeded(r, task) ==
  LET settles(t) == LET first == FirstCall(r, t)
                    IN  IF first = 0 THEN PASS
                        ELSE Graded(r.calls[first].answer \in Errors,
                                    r.calls[first].answer \in {"none", "lossy"})
      decisive   == {i \in DOMAIN task.required : settles(task.required[i]) # PASS}
  IN  IF task.required # <<>> /\ ~r.hasResults THEN INCONCLUSIVE
      ELSE IF decisive = {} THEN PASS ELSE settles(task.required[Min(decisive)])

NoTimeout(r, task) ==
  IF r.hasResults THEN Graded("timeout" \in Answers(r), "lossy" \in Answers(r))
                  ELSE Graded("TIMEOUT" \in Ended(r), TRUE)

NoInternalFailure(r, task) ==
  Graded(r.outcome = "error" \/ "aborted" \in Ended(r),
         r.attempts = <<>> /\ r.outcome = "absent")

TerminalCondition(r, task) ==
  Graded(task.terminal /\ r.terminal = "fails", task.terminal /\ r.terminal = "raises")

Replayable(r, task)          == Graded(FALSE, ~({"replay", "identity"} \subseteq r.refs))
AttributionEvidence(r, task) == Graded(FALSE, "initiator" \notin r.refs)
OwnershipEvidence(r, task)   == Graded(FALSE, "owner" \notin r.refs)
ContextEvidence(r, task)     == Graded(FALSE, r.context = "absent")

Findings(r, task) ==
  << TurnCompleted(r, task), NoUnresolvedTool(r, task), NoUnsafeRetry(r, task),
     RequiredToolsCalled(r, task), NoForbiddenTool(r, task), RequiredToolSucceeded(r, task),
     NoTimeout(r, task), NoInternalFailure(r, task), TerminalCondition(r, task),
     Replayable(r, task), AttributionEvidence(r, task), OwnershipEvidence(r, task),
     ContextEvidence(r, task) >>

Evaluate(r, task) == Worst(Range(Findings(r, task)))

-----------------------------------------------------------------------------
(* failure_attribution.py.                                                  *)

\* A bound no record reaches: the oracle sets no limit.
NoLimit == 99

Depth == [TOOL_FAILURE |-> 1, MODEL_FAILURE |-> 1, TIMEOUT |-> 1, UNRESOLVED_TOOL |-> 1,
          CONTEXT_FAILURE |-> 1, STEP_FAILURE |-> 2, UNSAFE_RETRY |-> 3, TURN_FAILURE |-> 4,
          EXECUTION_ABORTED |-> 5, COMPLETION_FAILURE |-> 5, UNKNOWN |-> 5]
Kind == DOMAIN Depth

\* Any ABORTED attempt wins, an interrupted one that the retry made good
\* included; then the first attempt with one of the two errors.
RuntimeKind(r) ==
  LET failed == SelectSeq(r.attempts, LAMBDA a: a \in {"MODEL_ERROR", "CONTEXT_WINDOW_EXCEEDED"})
  IN  CASE Ended(r) \cap Aborted # {}                         -> "EXECUTION_ABORTED"
        [] Ended(r) \cap Aborted = {} /\ failed # <<>>        ->
             IF Head(failed) = "MODEL_ERROR" THEN "MODEL_FAILURE" ELSE "CONTEXT_FAILURE"
        [] Ended(r) \cap Aborted = {} /\ failed = <<>>        ->
             IF r.steps \in {"FAILED", "ABORTED"} THEN "STEP_FAILURE"
             ELSE IF r.outcome = "error" THEN "TURN_FAILURE" ELSE "UNKNOWN"

Classify(r, rule) ==
  CASE rule = 1 -> IF r.outcome = "max-tokens" THEN "COMPLETION_FAILURE" ELSE "TURN_FAILURE"
    [] rule = 2 -> "UNRESOLVED_TOOL"
    [] rule = 3 -> "UNSAFE_RETRY"
    [] rule = 6 -> "TOOL_FAILURE"
    [] rule = 7 -> "TIMEOUT"
    [] rule = 8 -> RuntimeKind(r)
    [] rule \in {4, 9} -> "COMPLETION_FAILURE"
    [] OTHER    -> "UNKNOWN"

\* A candidate's ids come from its finding's evidence, or from the attempt or
\* the step its kind names (_resolve_ids).  A kind two rules share, TURN_FAILURE
\* or COMPLETION_FAILURE, names neither, so that two candidates of one kind have
\* the same ids and _dedupe makes one of them: the candidates are the kinds.
Candidates(r, findings) ==
  {Classify(r, rule) : rule \in {i \in DOMAIN findings : findings[i] = FAIL}}

\* _select takes the deepest candidate when no other is as deep.
Attributed(r, findings) ==
  LET failures == Candidates(r, findings)
      level(c) == Depth[c]
      deepest  == {c \in failures : \A d \in failures : level(c) <= level(d)}
  IN  CASE failures = {}             -> "NO_FAILURE"
        [] Cardinality(deepest) = 1  -> CHOOSE c \in deepest : TRUE
        [] OTHER                     -> "MULTIPLE_CANDIDATES"
=============================================================================
