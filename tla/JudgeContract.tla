--------------------------- MODULE JudgeContract ---------------------------
(***************************************************************************)
(* The judges of the evaluation prototype (judge_provider.py,              *)
(* llm_judge.py): a model is asked, through a provider that may fail or    *)
(* answer anything, and what it answers goes through one parser and one    *)
(* guard; aggregate then joins the judges' results with the deterministic  *)
(* verdict.                                                                *)
(*                                                                         *)
(* A text is the set of phrases that matter to the oracle and that it      *)
(* contains; how a phrase is searched for is left out, and so are scores,  *)
(* prompts, arguments of calls and the references a finding carries beyond *)
(* whether it has any.                                                     *)
(***************************************************************************)
EXTENDS EvaluationRules

CONSTANTS Judge,        \* the judges that may be asked
          Records,      \* the execution records considered
          Tasks,        \* the task specifications
          Oracles,      \* the oracle references
          Payloads      \* the JSON objects a provider may answer with

VARIABLES subject,      \* the record, the task and the oracle under evaluation
          judged,       \* each judge: not asked, an error kind, or a result
          unified       \* what aggregate returned, or None

judgeVars == <<subject, judged, unified>>

Phrase     == {"required", "alternative", "near", "far", "forbidden", "claim"}
Confidence == {"HIGH", "MEDIUM", "LOW"}
ErrorKind  == {"TIMEOUT", "TRANSIENT", "UNAVAILABLE", "PERMANENT", "INVALID_OUTPUT"}
Result     == [status: Status, confidence: Confidence]

\* What a record may hold, and what _parse may make of a payload's finding.
ASSUME JudgeAssumption ==
  /\ \A r \in Records : r.calls \in Seq(Call) /\ r.effects \in {"absent", "clean", "forbidden"}
  /\ \A t \in Tasks : t.required \in Seq(Tool)
  /\ \A p \in Payloads : p.finding \in {"absent", "unsupported"} \cup Status

None      == [state |-> "none"]
Failed(k) == [state |-> "error", kind |-> k]
Done(res) == [state |-> "done", status |-> res.status, confidence |-> res.confidence]

-----------------------------------------------------------------------------
(* Evidence: whether the record lets anyone judge it (assess_evidence).     *)

Text(r) == UNION {r.texts[i] : i \in DOMAIN r.texts}
Has(r, phrase) == phrase \in Text(r)

LossyEvidence(r) == r.lossy \/ (r.hasResults /\ "lossy" \in Answers(r))

\* A text that covers what is required and a text that has what is forbidden.
Conflicting(r, o) ==
  /\ Len(r.texts) >= 2
  /\ "required" \in o.conditions /\ Has(r, "required")
  /\ "forbidden" \in o.conditions /\ Has(r, "forbidden")

Truncated(r) == r.outcome = "interrupted"

CaresAboutTools(o, task) ==
  \/ o.required # {} \/ o.limits # {} \/ o.maxCalls < NoLimit \/ o.effects
  \/ task.required # <<>> \/ task.forbidden # {}

MissingEvidence(r, o, task) ==
  \/ Truncated(r)
  \/ r.context = "absent"
  \/ "FINAL_MESSAGE" \in o.evidence /\ r.texts = <<>>
  \/ "TOOL_CALLS"    \in o.evidence /\ ~r.hasTools
  \/ "TOOL_RESULTS"  \in o.evidence /\ ~r.hasResults
  \/ "SEMANTICS"     \in o.evidence /\ r.context = "PARTIAL"
  \/ "required" \in o.conditions /\ r.texts = <<>>
  \/ CaresAboutTools(o, task) /\ (~r.hasTools \/ ~r.hasResults \/ "none" \in Answers(r))
  \/ o.effects /\ r.effects = "absent"

Sufficient(r, o, task) ==
  ~LossyEvidence(r) /\ ~Conflicting(r, o) /\ ~MissingEvidence(r, o, task)

-----------------------------------------------------------------------------
(* The oracle's facts about calls and effects (check_behavioral).           *)

Fact(known, broken) == Graded(known /\ broken, ~known)

When(asked, facts) == IF asked THEN facts ELSE {}

ToolFacts(r, o) ==
  When(o.required # {}, {Fact(r.hasTools, ~(o.required \subseteq Called(r)))})
  \cup When(o.forbidden # {}, {Fact(r.hasTools, o.forbidden \cap Called(r) # {})})

OrderFacts(r, o) ==
  LET ordered(s)   == \A i, j \in DOMAIN s : i < j => FirstCall(r, s[i]) <= FirstCall(r, s[j])
      allCalled(s) == \A i \in DOMAIN s : FirstCall(r, s[i]) > 0
      precedes(s)  == \E i \in 1 .. Len(s) - 1 :
                        FirstCall(r, s[i]) \in 1 .. FirstCall(r, s[i + 1]) - 1
  IN  When(Len(o.order) >= 2, {Fact(r.hasTools, allCalled(o.order) /\ ~ordered(o.order))})
      \cup When(Len(o.badOrder) >= 2, {Fact(r.hasTools, precedes(o.badOrder))})

CountFacts(r, o) ==
  When(o.maxCalls < NoLimit, {Fact(r.hasTools, Len(r.calls) > o.maxCalls)})
  \cup {Fact(r.hasTools, Cardinality(Named(r, l.tool)) \notin l.min .. l.max) : l \in o.limits}

EffectFacts(r, o) ==
  When(o.effects, {Fact(r.effects # "absent", r.effects = "forbidden")})

OracleFacts(r, o) == ToolFacts(r, o) \cup OrderFacts(r, o) \cup CountFacts(r, o) \cup EffectFacts(r, o)

-----------------------------------------------------------------------------
(* The oracle's conditions on the texts (assess_conditions).                *)

RequiredCondition(r, o) ==
  LET numeric == "tolerance" \in o.conditions /\ Text(r) \cap {"near", "far"} # {}
      covered == \/ Has(r, "required")
                 \/ "alternative" \in o.conditions /\ Has(r, "alternative")
                 \/ numeric /\ Has(r, "near")
      claims  == Text(r) \cap {"near", "far", "claim"} # {}
  IN  Graded(r.texts # <<>> /\ ( \/ "forbidden" \in o.conditions /\ Has(r, "forbidden")
                                 \/ ~covered /\ claims ),
             ~covered)

\* What a forbidden condition names may also turn up in the calls, the results
\* or the effects.
ForbiddenCondition(r, o) ==
  Graded(Has(r, "forbidden") \/ r.effects = "forbidden",
         r.texts = <<>> /\ r.calls = <<>> /\ r.effects = "absent")

Conditions(r, o) ==
  When("required" \in o.conditions, {RequiredCondition(r, o)})
  \cup When("forbidden" \in o.conditions, {ForbiddenCondition(r, o)})

-----------------------------------------------------------------------------
(* A judge.                                                                 *)

\* Mutant: with enough evidence the judge has the last word.
GuardedByEvidence(s, res) ==
  IF Sufficient(s.rec, s.oracle, s.task) /\ s.rec.texts # <<>> THEN res
  ELSE [status |-> INCONCLUSIVE, confidence |-> "LOW"]

\* contract_guard: evidence first, then the facts and the conditions that fail,
\* then those that cannot be settled, and only then what the judge said.
Guarded(s, res) ==
  LET facts      == OracleFacts(s.rec, s.oracle)
      conditions == Conditions(s.rec, s.oracle)
      withheld   == [status |-> INCONCLUSIVE, confidence |-> "LOW"]
  IN  IF ~Sufficient(s.rec, s.oracle, s.task) \/ s.rec.texts = <<>> THEN withheld
      ELSE IF FAIL \in facts \cup conditions                      THEN [res EXCEPT !.status = FAIL]
      ELSE IF INCONCLUSIVE \in facts \cup conditions              THEN withheld
      ELSE res

\* _parse: the payload must be well formed and must not claim more than it may.
Rejected(p) ==
  \/ p.malformed \/ p.status \notin Status \/ p.confidence \notin Confidence
  \/ p.status = PASS /\ p.confidence = "LOW"
  \/ p.status = INCONCLUSIVE /\ p.confidence = "HIGH"

\* The one required criterion: what the payload's finding says, or the overall
\* status when there is none; a verdict without references is UNSUPPORTED.
CriterionStatus(p) ==
  CASE p.finding = "absent"      -> p.status
    [] p.finding = "unsupported" -> INCONCLUSIVE
    [] OTHER                     -> p.finding

Parsed(p) ==
  [status     |-> CriterionStatus(p),
   confidence |-> IF CriterionStatus(p) = INCONCLUSIVE THEN "LOW" ELSE p.confidence]

\* LLMJudgeResult refuses a low-confidence PASS and a confident INCONCLUSIVE, so
\* a finding that contradicts the overall status may raise (ValueError) here.
Refused(res) == \/ res.status = PASS /\ res.confidence = "LOW"
                \/ res.status = INCONCLUSIVE /\ res.confidence = "HIGH"

\* RealJudge.judge: create, parse, guard.
Asked(j, p) ==
  /\ unified = None /\ judged[j] = None
  /\ judged' = [judged EXCEPT ![j] = IF Rejected(p) \/ Refused(Parsed(p))
                                       THEN Failed("INVALID_OUTPUT")
                                       ELSE Done(Guarded(subject, Parsed(p)))]
  /\ UNCHANGED <<subject, unified>>

ProviderFails(j, k) ==
  /\ unified = None /\ judged[j] = None
  /\ judged' = [judged EXCEPT ![j] = Failed(k)]
  /\ UNCHANGED <<subject, unified>>

\* fake_judge: the criteria from the record itself, then the same guard.
FakeStatus(s) ==
  LET conditions == Conditions(s.rec, s.oracle)
  IN  Worst( {IF s.rec.texts = <<>> THEN INCONCLUSIVE ELSE PASS}
             \cup (IF conditions = {} THEN {INCONCLUSIVE} ELSE {Worst(conditions)})
             \cup {IF "forbidden" \in s.oracle.conditions /\ Has(s.rec, "forbidden")
                     THEN FAIL ELSE PASS} )

FakeJudge(j) ==
  LET status == FakeStatus(subject)
      res    == [status     |-> status,
                 confidence |-> IF status = INCONCLUSIVE THEN "LOW" ELSE "HIGH"]
  IN  /\ unified = None /\ judged[j] = None
      /\ judged' = [judged EXCEPT ![j] = Done(Guarded(subject, res))]
      /\ UNCHANGED <<subject, unified>>

-----------------------------------------------------------------------------
(* aggregate: the deterministic verdict, then the judges that answered.     *)

Answered   == {j \in Judge : judged[j].state = "done"}
Said       == {judged[j].status : j \in Answered}
InConflict == {PASS, FAIL} \subseteq Said

FinalStatus(deterministic, policy) ==
  IF deterministic # PASS THEN deterministic
  ELSE IF InConflict
         THEN IF policy = {} THEN INCONCLUSIVE ELSE judged[CHOOSE j \in policy : TRUE].status
         ELSE Worst(Said)

\* min over the judges' confidences by an order in which HIGH is the least.
FinalConfidence(deterministic, final) ==
  CASE deterministic = FAIL                            -> "HIGH"
    [] deterministic = INCONCLUSIVE                    -> "LOW"
    [] deterministic = PASS /\ Answered = {}           -> "HIGH"
    [] deterministic = PASS /\ Answered # {} /\ InConflict /\ final = INCONCLUSIVE -> "LOW"
    [] OTHER -> LET given == {judged[j].confidence : j \in Answered}
                IN  IF "HIGH" \in given THEN "HIGH"
                    ELSE IF "MEDIUM" \in given THEN "MEDIUM" ELSE "LOW"

\* The policy is at most one of the judges that answered: any other id raises.
Aggregate(policy) ==
  LET deterministic == Evaluate(subject.rec, subject.task)
      final         == FinalStatus(deterministic, policy)
  IN  /\ unified = None
      /\ unified' = Done([status     |-> final,
                          confidence |-> FinalConfidence(deterministic, final)])
      /\ UNCHANGED <<subject, judged>>

-----------------------------------------------------------------------------
JudgeInit ==
  /\ subject \in [rec: Records, task: Tasks, oracle: Oracles]
  /\ judged = [j \in Judge |-> None]
  /\ unified = None

JudgeNext ==
  \/ \E j \in Judge : \/ \E p \in Payloads : Asked(j, p)
                      \/ \E k \in ErrorKind \ {"INVALID_OUTPUT"} : ProviderFails(j, k)
                      \/ FakeJudge(j)
  \/ \E policy \in SUBSET Answered : Cardinality(policy) <= 1 /\ Aggregate(policy)

JudgeSpec == JudgeInit /\ [][JudgeNext]_judgeVars

-----------------------------------------------------------------------------
(* A record nobody could hold against the agent, said without the rules: the
   turn completed; what had to be called was called and answered; nothing that
   was forbidden was called, done or said; every call has a plain answer; some
   text says what was asked for; and the record is complete and not LOSSY.     *)
Blameless(r, task, o) ==
  /\ r.outcome = "completed" /\ r.context # "absent" /\ ~r.lossy
  /\ \A i \in DOMAIN r.calls :
       /\ r.calls[i].answer \in {"ok", "error"}
       /\ r.calls[i].tool \notin task.forbidden \cup o.forbidden
  /\ \A t \in {task.required[i] : i \in DOMAIN task.required} :
       \E i \in DOMAIN r.calls : r.calls[i] = [tool |-> t, answer |-> "ok"]
  /\ \A i \in DOMAIN r.attempts : r.attempts[i] \notin {"aborted", "UNSAFE_RETRY_BLOCKED"}
  /\ o.effects => r.effects = "clean"
  /\ "forbidden" \in o.conditions =>
       r.effects # "forbidden" /\ \A i \in DOMAIN r.texts : "forbidden" \notin r.texts[i]
  /\ "required" \in o.conditions =>
       \E i \in DOMAIN r.texts : r.texts[i] \cap {"required", "alternative", "near"} # {}

(* What no judge can talk away: whatever the providers answer, an evaluation
   that joined at least one judge ends in PASS only for a blameless record.
   aggregate joins results of contract_guard only, each of which read the
   record for itself.                                                          *)
JudgesCannotAcquit ==
  unified # None /\ unified.status = PASS /\ Answered # {}
    => Blameless(subject.rec, subject.task, subject.oracle)
=============================================================================
