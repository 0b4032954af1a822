-------------------------- MODULE EvaluationProofs --------------------------
(***************************************************************************)
(* What the evaluation programs promise whatever the records, tasks,       *)
(* schedules, answers and numbers of rounds: judges cannot talk away what  *)
(* the record shows, a change is let through only on a clean run of its    *)
(* own, PROMOTE is never written from less than the whole campaign, and    *)
(* the matrix compares the same plans and can be computed again.           *)
(*                                                                         *)
(* Each part has an inductive invariant of its own: JudgeInv (what every   *)
(* answer that passed went through), ChainInv (every run is what compare   *)
(* computes), GateInv (every summary is what its rows give) and LoopInv    *)
(* with RepeatInv (where the rows of a plan and of a run come from).       *)
(***************************************************************************)
EXTENDS JudgeContract, ImprovementChain, PromotionGate, ControlPlane,
        TLAPS, FiniteSetTheorems, WellFoundedInduction

(* A set of numbers that is not empty has a least element, and Min is it.      *)
LEMMA LeastNat ==
  ASSUME NEW S \in SUBSET Nat, S # {}
  PROVE  Min(S) \in S /\ \A y \in S : Min(S) <= y
<1>1. PICK x \in S : \A y \in S : ~(<<y, x>> \in OpToRel(<, Nat))
  BY NatLessThanWellFounded, WFMin
<1>2. OpToRel(<, Nat) = {ss \in Nat \X Nat : ss[1] < ss[2]}
  BY DEF OpToRel
<1>3. \A y \in S : ~(y < x)
  <2> SUFFICES ASSUME NEW y \in S, y < x PROVE FALSE
    OBVIOUS
  <2>1. <<y, x>> \in {ss \in Nat \X Nat : ss[1] < ss[2]}
    OBVIOUS
  <2> QED BY <2>1, <1>1, <1>2
<1>4. x \in S /\ \A y \in S : x <= y
  BY <1>3
<1> QED BY <1>4 DEF Min

LEMMA RangeAppend ==
  ASSUME NEW S, NEW s \in Seq(S), NEW e
  PROVE  Range(Append(s, e)) = Range(s) \cup {e}
<1>1. \A i \in DOMAIN s : i \in DOMAIN Append(s, e) /\ Append(s, e)[i] = s[i]
  OBVIOUS
<1>2. Len(s) + 1 \in DOMAIN Append(s, e) /\ Append(s, e)[Len(s) + 1] = e
  OBVIOUS
<1>3. \A i \in DOMAIN Append(s, e) : i \in DOMAIN s \/ i = Len(s) + 1
  OBVIOUS
<1> QED BY <1>1, <1>2, <1>3 DEF Range

LEMMA FunctionIsSeq ==
  ASSUME NEW S, NEW n \in Nat, NEW f \in [1 .. n -> S]
  PROVE  f \in Seq(S) /\ Len(f) = n
OBVIOUS

(* Induction, for a property given as the set of numbers that have it.        *)
LEMMA Induction ==
  ASSUME NEW S, 1 \in S, \A n \in Nat \ {0} : n \in S => n + 1 \in S
  PROVE  \A n \in Nat \ {0} : n \in S
<1> SUFFICES ASSUME {n \in Nat \ {0} : n \notin S} # {} PROVE FALSE
  OBVIOUS
<1> DEFINE T == {n \in Nat \ {0} : n \notin S}
           m == Min(T)
<1>1. m \in T /\ \A y \in T : m <= y
  BY LeastNat
<1> HIDE DEF m
<1>2. m # 1 /\ m \in Nat \ {0}
  BY <1>1
<1>3. m - 1 \in Nat \ {0} /\ ~(m <= m - 1) /\ (m - 1) + 1 = m
  BY <1>2
<1>4. m - 1 \notin T
  BY <1>1, <1>3
<1> QED BY <1>1, <1>3, <1>4

-----------------------------------------------------------------------------
(* FlattenSeq by its equation.                                                *)
Unfolds(f, seqs, n) ==
  f = [i \in 1 .. n |-> IF i = 1 THEN seqs[i] ELSE f[i - 1] \o seqs[i]]

LEMMA UnfoldsExists ==
  ASSUME NEW seqs
  PROVE  \A n \in Nat \ {0} : \E f : Unfolds(f, seqs, n)
<1> DEFINE S == {n \in Nat \ {0} : \E f : Unfolds(f, seqs, n)}
<1>1. 1 \in S
  <2> DEFINE f == [i \in 1 .. 1 |-> seqs[i]]
  <2>1. Unfolds(f, seqs, 1)
    BY DEF Unfolds
  <2> QED BY <2>1
<1>2. ASSUME NEW n \in Nat \ {0}, n \in S PROVE n + 1 \in S
  <2>1. PICK f : Unfolds(f, seqs, n)
    BY <1>2
  <2> DEFINE g == [i \in 1 .. (n + 1) |-> IF i = n + 1 THEN f[n] \o seqs[i] ELSE f[i]]
  <2>2. \A i \in 1 .. n : f[i] = IF i = 1 THEN seqs[i] ELSE f[i - 1] \o seqs[i]
    BY <2>1 DEF Unfolds
  <2>3. \A i \in 1 .. (n + 1) : i # 1 => i - 1 \in 1 .. n /\ g[i - 1] = f[i - 1]
    OBVIOUS
  <2>4. \A i \in 1 .. (n + 1) : g[i] = IF i = 1 THEN seqs[i] ELSE g[i - 1] \o seqs[i]
    BY <2>2, <2>3
  <2>5. Unfolds(g, seqs, n + 1)
    BY <2>4 DEF Unfolds
  <2> HIDE DEF g
  <2> QED BY <2>5
<1> HIDE DEF S
<1>3. \A n \in Nat \ {0} : n \in S
  BY <1>1, <1>2, Induction
<1> QED BY <1>3 DEF S

LEMMA Flattened ==
  ASSUME NEW seqs, Len(seqs) \in Nat \ {0}
  PROVE  \E f : Unfolds(f, seqs, Len(seqs)) /\ FlattenSeq(seqs) = f[Len(seqs)]
<1> DEFINE f == CHOOSE f : f = [i \in 1 .. Len(seqs) |-> IF i = 1 THEN seqs[i] ELSE f[i - 1] \o seqs[i]]
<1>1. \E g : g = [i \in 1 .. Len(seqs) |-> IF i = 1 THEN seqs[i] ELSE g[i - 1] \o seqs[i]]
  BY Zenon, UnfoldsExists DEF Unfolds
<1>2. f = [i \in 1 .. Len(seqs) |-> IF i = 1 THEN seqs[i] ELSE f[i - 1] \o seqs[i]]
  BY Zenon, <1>1
<1>3. FlattenSeq(seqs) = f[Len(seqs)]
  BY DEF FlattenSeq
<1> HIDE DEF f
<1> QED BY <1>2, <1>3 DEF Unfolds

-----------------------------------------------------------------------------
(* The judges and contract_guard.                                              *)

(* What contract_guard found of the record, whoever answered.                 *)
Upheld(s) ==
  /\ Sufficient(s.rec, s.oracle, s.task) /\ s.rec.texts # <<>>
  /\ \A fact \in OracleFacts(s.rec, s.oracle) \cup Conditions(s.rec, s.oracle) :
       fact \notin {FAIL, INCONCLUSIVE}

JudgeInv ==
  /\ subject \in [rec : Records, task : Tasks, oracle : Oracles]
  /\ judged = [j \in Judge |-> judged[j]]
  /\ \A j \in Judge : judged[j].state = "done" =>
       judged[j].status \in Status /\ (judged[j].status = PASS => Upheld(subject))
  /\ unified # None /\ unified.status = PASS =>
       /\ Evaluate(subject.rec, subject.task) = PASS
       /\ Answered # {} => Upheld(subject)

(* contract_guard lets PASS through only on a record it upholds.                 *)
LEMMA GuardUpholds ==
  ASSUME NEW s, NEW res, res.status \in Status,
         res = [status |-> res.status, confidence |-> res.confidence]
  PROVE  LET done == Done(Guarded(s, res))
         IN  done.status \in Status /\ (done.status = PASS => Upheld(s))
<1>1. \A f : [res EXCEPT !.status = f].status = f
  OBVIOUS
<1>2. \A g : Done(g).status = g.status
  BY DEF Done
<1>3. PASS # FAIL /\ PASS # INCONCLUSIVE /\ {PASS, FAIL, INCONCLUSIVE} = Status
  BY DEF PASS, FAIL, INCONCLUSIVE, Status
<1>4. Guarded(s, res).status \in Status
  BY <1>1, <1>3 DEF Guarded
<1>5. Guarded(s, res).status = PASS => Upheld(s)
  BY <1>1, <1>3 DEF Guarded, Upheld
<1> QED BY <1>2, <1>4, <1>5

LEMMA AnswerKept ==
  ASSUME JudgeInv, NEW j \in Judge, NEW answer, unified = None,
         judged' = [judged EXCEPT ![j] = answer], UNCHANGED <<subject, unified>>,
         answer.state = "done" =>
           answer.status \in Status /\ (answer.status = PASS => Upheld(subject))
  PROVE  JudgeInv'
<1>1. judged' = [k \in Judge |-> IF k = j THEN answer ELSE judged[k]]
  BY DEF JudgeInv
<1> QED BY <1>1 DEF JudgeInv

LEMMA FailedIsNotDone == \A k : Failed(k).state # "done"
BY DEF Failed

LEMMA AskedKeeps ==
  ASSUME JudgeInv, NEW j \in Judge, NEW p \in Payloads, Asked(j, p) PROVE JudgeInv'
<1> DEFINE answer == IF Rejected(p) \/ Refused(Parsed(p)) THEN Failed("INVALID_OUTPUT")
                     ELSE Done(Guarded(subject, Parsed(p)))
<1>1. answer.state = "done" =>
        answer.status \in Status /\ (answer.status = PASS => Upheld(subject))
  <2>1. CASE Rejected(p) \/ Refused(Parsed(p))
    BY <2>1, FailedIsNotDone
  <2>2. CASE ~Rejected(p) /\ ~Refused(Parsed(p))
    <3>1. CriterionStatus(p) \in Status
      BY <2>2, JudgeAssumption DEF CriterionStatus, Rejected, Status
    <3>2. Parsed(p).status \in Status
          /\ Parsed(p) = [status |-> Parsed(p).status, confidence |-> Parsed(p).confidence]
      BY <3>1 DEF Parsed
    <3> QED BY <2>2, <3>2, GuardUpholds
  <2> QED BY <2>1, <2>2
<1> HIDE DEF answer
<1> QED BY <1>1, AnswerKept DEF Asked, answer

LEMMA FakeKeeps ==
  ASSUME JudgeInv, NEW j \in Judge, FakeJudge(j) PROVE JudgeInv'
<1> DEFINE status == FakeStatus(subject)
           res == [status |-> status, confidence |-> IF status = INCONCLUSIVE THEN "LOW" ELSE "HIGH"]
<1>1. status \in Status
  BY DEF FakeStatus, Worst, Graded, Status
<1> HIDE DEF status
<1>2. res.status \in Status /\ res = [status |-> res.status, confidence |-> res.confidence]
  BY <1>1
<1>3. judged' = [judged EXCEPT ![j] = Done(Guarded(subject, res))]
      /\ unified = None /\ UNCHANGED <<subject, unified>>
  BY DEF FakeJudge, status
<1> HIDE DEF res
<1> QED BY <1>2, <1>3, GuardUpholds, AnswerKept

(* The final status is PASS only if the rules and, if any answered, a judge pass. *)
LEMMA AggregateKeeps ==
  ASSUME JudgeInv, NEW trusted \in SUBSET Answered, Aggregate(trusted) PROVE JudgeInv'
<1> DEFINE deterministic == Evaluate(subject.rec, subject.task)
           final == FinalStatus(deterministic, trusted)
<1>1. UNCHANGED <<subject, judged>> /\ unified'.status = final
  BY DEF Aggregate, Done
<1>2. final = PASS => deterministic = PASS
  BY DEF FinalStatus
<1>3. ASSUME final = PASS, Answered # {} PROVE Upheld(subject)
  <2>1. \E j \in Answered : judged[j].status = PASS
    <3>1. CASE InConflict
      <4>1. trusted # {} /\ judged[CHOOSE j \in trusted : TRUE].status = PASS
        BY <1>2, <1>3, <3>1 DEF FinalStatus, PASS, INCONCLUSIVE
      <4> QED BY <4>1
    <3>2. CASE ~InConflict
      <4>1. Worst(Said) = PASS
        BY <1>2, <1>3, <3>2 DEF FinalStatus
      <4>2. FAIL \notin Said /\ INCONCLUSIVE \notin Said
        BY <4>1 DEF Worst, Graded, PASS, FAIL, INCONCLUSIVE
      <4>3. \A j \in Answered : judged[j].status \in Status
        BY DEF JudgeInv, Answered
      <4> QED BY <1>3, <4>2, <4>3 DEF Said, Status
    <3> QED BY <3>1, <3>2
  <2> QED BY <2>1 DEF Answered, JudgeInv
<1>4. Answered' = Answered /\ (Upheld(subject)' <=> Upheld(subject))
  BY <1>1 DEF Answered
<1> HIDE DEF deterministic, final
<1> QED BY <1>1, <1>2, <1>3, <1>4 DEF JudgeInv, deterministic

LEMMA JudgeStarts == JudgeInit => JudgeInv
BY DEF JudgeInit, JudgeInv, None

LEMMA JudgeKeeps == JudgeInv /\ [JudgeNext]_judgeVars => JudgeInv'
<1> SUFFICES ASSUME JudgeInv, [JudgeNext]_judgeVars PROVE JudgeInv'
  OBVIOUS
<1>1. ASSUME NEW j \in Judge, NEW k, ProviderFails(j, k) PROVE JudgeInv'
  BY <1>1, FailedIsNotDone, AnswerKept DEF ProviderFails
<1>2. CASE UNCHANGED judgeVars
  BY <1>2 DEF judgeVars, JudgeInv, Answered
<1> QED BY <1>1, <1>2, AskedKeeps, FakeKeeps, AggregateKeeps DEF JudgeNext

-----------------------------------------------------------------------------
(* A PASS of the rules means that each of them passes.                         *)
LEMMA EachRulePasses ==
  ASSUME NEW r, NEW task, Evaluate(r, task) = PASS
  PROVE  \A rule \in 1 .. 13 : Findings(r, task)[rule] \notin {FAIL, INCONCLUSIVE}
<1>1. FAIL \notin Range(Findings(r, task)) /\ INCONCLUSIVE \notin Range(Findings(r, task))
  BY DEF Evaluate, Worst, Graded, PASS, FAIL, INCONCLUSIVE
<1>2. DOMAIN Findings(r, task) = 1 .. 13
  BY DEF Findings
<1>3. \A rule \in 1 .. 13 : Findings(r, task)[rule] \in Range(Findings(r, task))
  BY <1>2 DEF Range
<1> QED BY <1>1, <1>3

LEMMA GradedPasses ==
  \A fails, unknown \in BOOLEAN :
    Graded(fails, unknown) \notin {FAIL, INCONCLUSIVE} => ~fails /\ ~unknown
BY DEF Graded

LEMMA FirstIsCall ==
  ASSUME NEW r \in Records, NEW t \in Called(r)
  PROVE  FirstCall(r, t) \in DOMAIN r.calls /\ FirstCall(r, t) # 0 /\ r.calls[FirstCall(r, t)].tool = t
<1>1. r.calls \in Seq(Call)
  BY JudgeAssumption
<1>2. Named(r, t) # {} /\ Named(r, t) \in SUBSET Nat
  BY <1>1 DEF Called, Named
<1>3. Min(Named(r, t)) \in Named(r, t)
  BY <1>2, LeastNat
<1> QED BY <1>1, <1>2, <1>3 DEF FirstCall, Named

(* What the thirteen rules exclude when the worst of their findings is PASS.     *)
LEMMA RulesClear ==
  ASSUME NEW r \in Records, NEW task \in Tasks, Evaluate(r, task) = PASS
  PROVE  /\ r.outcome = "completed" /\ r.context # "absent"
         /\ \A i \in DOMAIN r.calls : /\ r.calls[i].answer \in {"ok", "error"}
                                      /\ r.calls[i].tool \notin task.forbidden
         /\ \A t \in {task.required[i] : i \in DOMAIN task.required} :
              \E i \in DOMAIN r.calls : r.calls[i] = [tool |-> t, answer |-> "ok"]
         /\ \A i \in DOMAIN r.attempts : r.attempts[i] \notin {"aborted", "UNSAFE_RETRY_BLOCKED"}
<1> DEFINE passes(finding) == finding \notin {FAIL, INCONCLUSIVE}
<1>1. /\ passes(TurnCompleted(r, task)) /\ passes(NoUnresolvedTool(r, task))
      /\ passes(NoUnsafeRetry(r, task)) /\ passes(RequiredToolsCalled(r, task))
      /\ passes(NoForbiddenTool(r, task)) /\ passes(RequiredToolSucceeded(r, task))
      /\ passes(NoTimeout(r, task)) /\ passes(NoInternalFailure(r, task))
      /\ passes(ContextEvidence(r, task))
  <2>1. /\ Findings(r, task)[1] = TurnCompleted(r, task) /\ Findings(r, task)[2] = NoUnresolvedTool(r, task)
        /\ Findings(r, task)[3] = NoUnsafeRetry(r, task) /\ Findings(r, task)[4] = RequiredToolsCalled(r, task)
        /\ Findings(r, task)[5] = NoForbiddenTool(r, task) /\ Findings(r, task)[6] = RequiredToolSucceeded(r, task)
        /\ Findings(r, task)[7] = NoTimeout(r, task) /\ Findings(r, task)[8] = NoInternalFailure(r, task)
        /\ Findings(r, task)[13] = ContextEvidence(r, task)
    BY DEF Findings
  <2>2. \A rule \in 1 .. 13 : passes(Findings(r, task)[rule])
    BY EachRulePasses
  <2> HIDE DEF passes
  <2>3. \A rule \in {1, 2, 3, 4, 5, 6, 7, 8, 13} : passes(Findings(r, task)[rule])
    BY <2>2
  <2> QED BY <2>1, <2>3
<1>2. r.outcome = "completed" /\ r.context # "absent"
  BY <1>1 DEF TurnCompleted, ContextEvidence, Graded
<1>3. r.calls \in Seq(Call)
  BY JudgeAssumption
<1>4. r.hasResults /\ "none" \notin Answers(r) /\ "timeout" \notin Answers(r) /\ "lossy" \notin Answers(r)
  BY <1>1 DEF NoUnresolvedTool, NoTimeout, Graded
<1>5. \A i \in DOMAIN r.calls : r.calls[i] \in Call /\ r.calls[i].answer \in {"ok", "error"}
  <2>1. \A i \in DOMAIN r.calls : r.calls[i] \in Call
    BY <1>3
  <2>2. \A i \in DOMAIN r.calls : r.calls[i].answer \in Answer /\ r.calls[i].answer \in Answers(r)
    BY <2>1 DEF Call, Answers
  <2> QED BY <1>4, <2>1, <2>2 DEF Answer
<1>6. \A i \in DOMAIN r.calls : r.calls[i].tool \notin task.forbidden
  BY <1>1 DEF NoForbiddenTool, Graded, Called
<1>7. ASSUME NEW i \in DOMAIN task.required
      PROVE  \E k \in DOMAIN r.calls : r.calls[k] = [tool |-> task.required[i], answer |-> "ok"]
  <2> DEFINE t == task.required[i]
             k == FirstCall(r, t)
             settles(u) == LET first == FirstCall(r, u)
                           IN  IF first = 0 THEN PASS
                               ELSE Graded(r.calls[first].answer \in Errors,
                                           r.calls[first].answer \in {"none", "lossy"})
             decisive == {n \in DOMAIN task.required : settles(task.required[n]) # PASS}
  <2>1. t \in Called(r)
    BY SMTT(30), <1>1 DEF RequiredToolsCalled, Graded
  <2>2. k \in DOMAIN r.calls /\ k # 0 /\ r.calls[k].tool = t
    BY <2>1, FirstIsCall
  <2>3. decisive \in SUBSET Nat
    BY JudgeAssumption
  <2>4. task.required # <<>> /\ r.hasResults
    BY <1>4
  <2>5. decisive = {}
    <3>1. passes(IF decisive = {} THEN PASS ELSE settles(task.required[Min(decisive)]))
      BY Zenon, <1>1, <2>4 DEF RequiredToolSucceeded
    <3> HIDE DEF settles
    <3>2. decisive # {} => settles(task.required[Min(decisive)]) # PASS
      BY <2>3, LeastNat
    <3>3. \A u : settles(u) \in Status
      BY DEF settles, Graded, Status, PASS, FAIL, INCONCLUSIVE
    <3> QED BY <3>1, <3>2, <3>3 DEF Status
  <2>6. settles(t) = PASS
    BY <2>5
  <2>7. r.calls[k].answer \notin Errors
    BY <2>2, <2>6 DEF Graded, PASS, FAIL
  <2>8. r.calls[k] \in Call /\ r.calls[k].answer = "ok"
    BY <1>5, <2>2, <2>7 DEF Errors
  <2> QED BY <2>2, <2>8 DEF Call
<1>8. \A i \in DOMAIN r.attempts : r.attempts[i] \notin {"aborted", "UNSAFE_RETRY_BLOCKED"}
  BY <1>1 DEF NoUnsafeRetry, NoInternalFailure, Graded, Ended
<1> QED BY <1>2, <1>5, <1>6, <1>7, <1>8

LEMMA UpheldIsBlameless ==
  ASSUME NEW r \in Records, NEW task \in Tasks, NEW o,
         Evaluate(r, task) = PASS, Upheld([rec |-> r, task |-> task, oracle |-> o])
  PROVE  Blameless(r, task, o)
<1>1. /\ Sufficient(r, o, task)
      /\ \A fact \in OracleFacts(r, o) \cup Conditions(r, o) : fact \notin {FAIL, INCONCLUSIVE}
  BY DEF Upheld
<1>2. ~r.lossy
  BY <1>1 DEF Sufficient, LossyEvidence
<1>3. \A i \in DOMAIN r.calls : r.calls[i].tool \notin o.forbidden
  <2>1. CASE o.forbidden = {}
    BY <2>1
  <2>2. CASE o.forbidden # {}
    <3>1. Fact(r.hasTools, o.forbidden \cap Called(r) # {}) \in OracleFacts(r, o)
      BY <2>2 DEF OracleFacts, ToolFacts, When
    <3>2. o.forbidden \cap Called(r) = {}
      BY <1>1, <3>1 DEF Fact, Graded
    <3> QED BY <3>2 DEF Called
  <2> QED BY <2>1, <2>2
<1>4. o.effects => r.effects = "clean"
  <2> SUFFICES ASSUME o.effects PROVE r.effects = "clean"
    OBVIOUS
  <2>1. Fact(r.effects # "absent", r.effects = "forbidden") \in OracleFacts(r, o)
    BY DEF OracleFacts, EffectFacts, When
  <2>2. r.effects # "absent" /\ r.effects # "forbidden"
    BY <1>1, <2>1 DEF Fact, Graded
  <2> QED BY <2>2, JudgeAssumption
<1>5. "forbidden" \in o.conditions =>
        r.effects # "forbidden" /\ \A i \in DOMAIN r.texts : "forbidden" \notin r.texts[i]
  <2> SUFFICES ASSUME "forbidden" \in o.conditions
               PROVE  r.effects # "forbidden" /\ \A i \in DOMAIN r.texts : "forbidden" \notin r.texts[i]
    OBVIOUS
  <2>1. ForbiddenCondition(r, o) \in Conditions(r, o)
    BY DEF Conditions, When
  <2>2. ~Has(r, "forbidden") /\ r.effects # "forbidden"
    BY <1>1, <2>1 DEF ForbiddenCondition, Graded
  <2> QED BY <2>2 DEF Has, Text
<1>6. "required" \in o.conditions =>
        \E i \in DOMAIN r.texts : r.texts[i] \cap {"required", "alternative", "near"} # {}
  <2> SUFFICES ASSUME "required" \in o.conditions
               PROVE  \E i \in DOMAIN r.texts : r.texts[i] \cap {"required", "alternative", "near"} # {}
    OBVIOUS
  <2>1. RequiredCondition(r, o) \in Conditions(r, o)
    BY DEF Conditions, When
  <2>2. Has(r, "required") \/ Has(r, "alternative") \/ Has(r, "near")
    BY <1>1, <2>1 DEF RequiredCondition, Graded
  <2> QED BY <2>2 DEF Has, Text
<1> QED BY <1>2, <1>3, <1>4, <1>5, <1>6, RulesClear DEF Blameless

LEMMA CannotAcquit == JudgeInv => JudgesCannotAcquit
<1> SUFFICES ASSUME JudgeInv, unified # None, unified.status = PASS, Answered # {}
             PROVE  Blameless(subject.rec, subject.task, subject.oracle)
  BY DEF JudgesCannotAcquit
<1>1. subject.rec \in Records /\ subject.task \in Tasks
      /\ subject = [rec |-> subject.rec, task |-> subject.task, oracle |-> subject.oracle]
  BY DEF JudgeInv
<1>2. Evaluate(subject.rec, subject.task) = PASS /\ Upheld(subject)
  BY DEF JudgeInv
<1> QED BY <1>1, <1>2, UpheldIsBlameless

(* Whatever judges answer, fail or are trusted with in a conflict, a PASS that has
   a judge's answer behind it is of a record with nothing to hold against the
   agent: the rules passed it (aggregate takes the worse of the two), and a judge
   that said PASS went through contract_guard, which read the same record.       *)
THEOREM CannotTalkAway == JudgeSpec => []JudgesCannotAcquit
BY JudgeStarts, JudgeKeeps, CannotAcquit, PTL DEF JudgeSpec

-----------------------------------------------------------------------------
(* The improvement chain.                                                      *)

ArmOf(grades) == [Task -> grades]

\* A run is what compare makes of two complete arms and some critical tasks.
Compared(run) ==
  /\ run.base \in ArmOf(Grade) /\ run.cand \in ArmOf(Grade)
  /\ run.quality = ComparisonQuality(run.base, run.cand)
  /\ \E critical \in SUBSET Task : run.decision = RunDecision(run.base, run.cand, critical)

Clean(run, lossyExcused) ==
  /\ \A t \in Task : run.cand[t].status = PASS
  /\ \/ lossyExcused /\ run.quality = "LOSSY"
     \/ \E t \in Task : run.base[t].status = FAIL

ChainInv ==
  /\ baseline \in ArmOf(Grade \cup {NoGrade})
  /\ candidate \in [Change -> ArmOf(Grade \cup {NoGrade})]
  /\ \A run \in runs : Compared(run)
  /\ PromotedIsClean

-----------------------------------------------------------------------------
(* More tasks passed than before: one of them was not passed before.        *)
LEMMA NewlyPassed ==
  ASSUME NEW base, NEW cand,
         Cardinality(Passed(cand)) > Cardinality(Passed(base))
  PROVE  \E t \in Task : cand[t].status = PASS /\ base[t].status # PASS
<1>1. IsFiniteSet(Passed(base)) /\ IsFiniteSet(Passed(cand))
  BY ChainAssumption, FS_Subset DEF Passed
<1>2. ~(Passed(cand) \subseteq Passed(base))
  <2>1. SUFFICES ASSUME Passed(cand) \subseteq Passed(base) PROVE FALSE
    OBVIOUS
  <2>2. Cardinality(Passed(cand)) <= Cardinality(Passed(base))
    BY <1>1, <2>1, FS_Subset
  <2>3. Cardinality(Passed(cand)) \in Nat /\ Cardinality(Passed(base)) \in Nat
    BY <1>1, FS_CardinalityType
  <2> QED BY <2>2, <2>3
<1> QED BY <1>2 DEF Passed

(* A run the gates do not block is clean.                                   *)
LEMMA PassingRun ==
  ASSUME NEW run, Compared(run), NEW o, Verdict(run, o) # "REJECTED"
  PROVE  Clean(run, o.lossyExcused)
<1> DEFINE base == run.base
           cand == run.cand
<1>1. EvaluationGate(run, o.excused) \notin {FAIL, INCONCLUSIVE}
      /\ RegressionGate(run, o.lossyExcused) \notin {FAIL, INCONCLUSIVE}
  BY DEF Verdict, Blocked
<1>2. PICK critical \in SUBSET Task : run.decision = RunDecision(base, cand, critical)
  BY DEF Compared
<1>3. run.decision \in {"REGRESSED", "INCONCLUSIVE", "IMPROVED", "NO_CHANGE"}
  BY <1>2 DEF RunDecision
<1>4. run.decision = "IMPROVED" \/ (run.quality = "LOSSY" /\ o.lossyExcused)
  BY <1>1, <1>3 DEF RegressionGate, PASS, FAIL, INCONCLUSIVE
<1>5. run.decision = "IMPROVED" =>
        /\ run.quality \notin {"LOSSY", "INCONCLUSIVE"}
        /\ Cardinality(Passed(cand)) > Cardinality(Passed(base))
  BY <1>2 DEF RunDecision, Compared
<1>6. Unsettled(base, cand) = {}
  BY <1>4, <1>5 DEF Compared, ComparisonQuality
<1>7. \A t \in Task : base[t].status \in {PASS, FAIL} /\ cand[t].status \in {PASS, FAIL}
  BY <1>6 DEF Unsettled, Compared, ArmOf, Grade, Status
<1>8. \A t \in Task : cand[t].status = PASS
  <2> DEFINE statuses == {run.cand[t].status : t \in Task}
  <2>1. INCONCLUSIVE \notin statuses
    BY <1>7 DEF PASS, FAIL, INCONCLUSIVE
  <2>2. statuses = {PASS}
    BY <1>1, <2>1 DEF EvaluationGate
  <2> QED BY <2>2
<1>9. run.decision = "IMPROVED" => \E t \in Task : base[t].status = FAIL
  BY <1>5, <1>7, NewlyPassed
<1> QED BY <1>4, <1>8, <1>9 DEF Clean

-----------------------------------------------------------------------------
LEMMA ChainStarts == ChainInit => ChainInv
BY DEF ChainInit, ChainInv, ArmOf, PromotedIsClean

LEMMA CompareKeeps ==
  ASSUME ChainInv, NEW c \in Change, NEW critical \in SUBSET Task, Compare(c, critical)
  PROVE  ChainInv'
<1>1. baseline \in ArmOf(Grade) /\ candidate[c] \in ArmOf(Grade)
  BY DEF ChainInv, Compare, ArmOf
<1>2. Compared(RegressionRun(c, critical))
  BY <1>1 DEF Compared, RegressionRun
<1>3. runs' = runs \cup {RegressionRun(c, critical)} /\ UNCHANGED <<baseline, candidate, decisions>>
  BY DEF Compare
<1> QED BY <1>2, <1>3 DEF ChainInv, PromotedIsClean

LEMMA DecideKeeps ==
  ASSUME ChainInv, NEW c \in Change, NEW run \in runs, NEW o \in Options, Decide(c, run, o)
  PROVE  ChainInv'
<1> DEFINE new == [change |-> c, run |-> run, lossyExcused |-> o.lossyExcused,
                   decision |-> Verdict(run, o)]
<1>1. /\ decisions' = decisions \cup {new}
      /\ UNCHANGED <<baseline, candidate, runs>>
      /\ run.change = c
  BY DEF Decide
<1>2. Compared(run)
  BY DEF ChainInv
<1>3. new.decision # "REJECTED" => Clean(new.run, new.lossyExcused)
  BY <1>2, PassingRun
<1>4. PromotedIsClean'
  <2> SUFFICES ASSUME NEW d \in decisions', d.decision # "REJECTED"
               PROVE  d.run \in runs /\ d.run.change = d.change /\ Clean(d.run, d.lossyExcused)
    BY <1>1 DEF PromotedIsClean, Clean
  <2>1. CASE d \in decisions
    BY <2>1 DEF ChainInv, PromotedIsClean, Clean
  <2>2. CASE d = new
    BY <1>1, <1>3, <2>2
  <2> QED BY <1>1, <2>1, <2>2
<1> QED BY <1>1, <1>4 DEF ChainInv

LEMMA ChainKeeps == ChainInv /\ [ChainNext]_chainVars => ChainInv'
<1> SUFFICES ASSUME ChainInv, [ChainNext]_chainVars PROVE ChainInv'
  OBVIOUS
<1>1. ASSUME NEW t \in Task, NEW g \in Grades, RunBaseline(t, g) PROVE ChainInv'
  BY <1>1, ChainAssumption DEF ChainInv, RunBaseline, ArmOf, PromotedIsClean
<1>2. ASSUME NEW c \in Change, NEW t \in Task, NEW g \in Grades, RunCandidate(c, t, g)
      PROVE  ChainInv'
  BY <1>2, ChainAssumption DEF ChainInv, RunCandidate, ArmOf, PromotedIsClean
<1>3. ASSUME NEW c \in Change, NEW t \in Task, NEW ambiguous \in BOOLEAN, NEW ref \in Ref,
             Propose(c, t, ambiguous, ref)
      PROVE  ChainInv'
  BY <1>3 DEF ChainInv, Propose, PromotedIsClean
<1>4. ASSUME NEW c \in Change, Validate(c) PROVE ChainInv'
  BY <1>4 DEF ChainInv, Validate, PromotedIsClean
<1>5. CASE UNCHANGED chainVars
  BY <1>5 DEF chainVars, ChainInv, PromotedIsClean
<1> QED BY <1>1, <1>2, <1>3, <1>4, <1>5, CompareKeeps, DecideKeeps DEF ChainNext

(* However results are replaced between the calls and whatever runs lie about, a
   decision that lets a change through rests on a clean run of that change
   (compare in regression.py, decide in promotion.py).                          *)
THEOREM Promotion == ChainSpec => []PromotedIsClean
<1>1. ChainInv => PromotedIsClean
  BY DEF ChainInv
<1> QED BY <1>1, ChainStarts, ChainKeeps, PTL DEF ChainSpec

-----------------------------------------------------------------------------
(* The schedule asks every round of every case and arm once.                  *)
SlotsIn(cases, rounds) ==
  {s \in [case : cases, round : Nat \ {0}, arm : Arm] : s.round \in 1 .. rounds[s.case]}

NoneTwice(s) == \A i, j \in DOMAIN s : s[i] = s[j] => i = j

(* Two sequences without repetition over disjoint sets, one after the other.     *)
LEMMA Concatenated ==
  ASSUME NEW A, NEW B, A \cap B = {}, NEW s \in Seq(A), NEW t \in Seq(B), NoneTwice(s), NoneTwice(t)
  PROVE  s \o t \in Seq(A \cup B) /\ NoneTwice(s \o t)
<1>1. s \in Seq(A \cup B) /\ t \in Seq(A \cup B) /\ Len(s) \in Nat /\ Len(t) \in Nat
  OBVIOUS
<1>2. s \o t \in Seq(A \cup B) /\ DOMAIN (s \o t) = 1 .. (Len(s) + Len(t))
  BY <1>1
<1>3. \A i \in DOMAIN (s \o t) :
        \/ i \in DOMAIN s /\ (s \o t)[i] = s[i] /\ s[i] \in A
        \/ i - Len(s) \in DOMAIN t /\ (s \o t)[i] = t[i - Len(s)] /\ t[i - Len(s)] \in B
  BY <1>1, <1>2
<1>4. ASSUME NEW i \in DOMAIN (s \o t), NEW j \in DOMAIN (s \o t), (s \o t)[i] = (s \o t)[j]
      PROVE  i = j
  <2>1. i \in Int /\ j \in Int /\ Len(s) \in Int
    BY <1>1, <1>2
  <2>2. CASE i \in DOMAIN s /\ (s \o t)[i] = s[i] /\ s[i] \in A
    <3>1. j \in DOMAIN s /\ (s \o t)[j] = s[j]
      BY <1>3, <1>4, <2>2
    <3> QED BY <1>4, <2>2, <3>1 DEF NoneTwice
  <2>3. CASE i - Len(s) \in DOMAIN t /\ (s \o t)[i] = t[i - Len(s)] /\ t[i - Len(s)] \in B
    <3>1. j - Len(s) \in DOMAIN t /\ (s \o t)[j] = t[j - Len(s)]
      BY <1>3, <1>4, <2>3
    <3>2. i - Len(s) = j - Len(s)
      BY <1>4, <2>3, <3>1 DEF NoneTwice
    <3> QED BY <2>1, <3>2
  <2> QED BY <1>3, <2>2, <2>3
<1> QED BY <1>2, <1>4 DEF NoneTwice

LEMMA OneCase ==
  ASSUME NEW c, NEW rounds, rounds[c] \in Nat \ {0}
  PROVE  OfCase(c, rounds[c]) \in Seq(SlotsIn({c}, rounds)) /\ NoneTwice(OfCase(c, rounds[c]))
<1> DEFINE n == rounds[c]
           arm(j) == IF j % 4 \in {0, 1} THEN "baseline" ELSE "candidate"
           slot(j) == [case |-> c, round |-> (j + 1) \div 2, arm |-> arm(j)]
<1>1. OfCase(c, n) = [j \in 1 .. 2 * n |-> slot(j)]
  BY DEF OfCase
<1>2. \A j \in 1 .. 2 * n : (j + 1) \div 2 \in 1 .. n
  OBVIOUS
<1>3. \A j \in 1 .. 2 * n : arm(j) \in Arm
  BY DEF Arm
<1>4. \A j \in 1 .. 2 * n : slot(j) \in SlotsIn({c}, rounds)
  BY <1>2, <1>3 DEF SlotsIn
<1>5. OfCase(c, n) \in Seq(SlotsIn({c}, rounds)) /\ DOMAIN OfCase(c, n) = 1 .. 2 * n
  <2> HIDE DEF slot
  <2>1. 2 * n \in Nat
    OBVIOUS
  <2> HIDE DEF n
  <2>2. OfCase(c, n) \in [1 .. 2 * n -> SlotsIn({c}, rounds)]
    BY <1>1, <1>4
  <2>3. OfCase(c, n) \in Seq(SlotsIn({c}, rounds)) /\ Len(OfCase(c, n)) = 2 * n
    BY <2>1, <2>2, FunctionIsSeq
  <2> QED BY <2>2, <2>3
<1>6. ASSUME NEW i \in 1 .. 2 * n, NEW j \in 1 .. 2 * n, slot(i) = slot(j) PROVE i = j
  <2>1. (i + 1) \div 2 = (j + 1) \div 2 /\ arm(i) = arm(j)
    BY <1>6
  <2>2. (i % 4 \in {0, 1}) <=> (j % 4 \in {0, 1})
    BY <2>1
  <2> QED BY <2>1, <2>2
<1> HIDE DEF slot, n
<1>7. \A j \in 1 .. 2 * n : OfCase(c, n)[j] = slot(j)
  BY <1>1
<1>8. NoneTwice(OfCase(c, n))
  BY <1>5, <1>6, <1>7 DEF NoneTwice
<1> QED BY <1>5, <1>8 DEF n

LEMMA ScheduleOK ==
  ASSUME NEW order, NEW rounds, order \in Seq(Range(order)),
         \A i, j \in DOMAIN order : order[i] = order[j] => i = j,
         \A c \in Range(order) : rounds[c] \in Nat \ {0}
  PROVE  Schedule(order, rounds) \in Seq(SlotsIn(Range(order), rounds))
         /\ NoneTwice(Schedule(order, rounds))
<1> DEFINE seqs == [k \in DOMAIN order |-> OfCase(order[k], rounds[order[k]])]
           upto(k) == {order[i] : i \in 1 .. k}
           n == Len(order)
<1>1. n \in Nat /\ DOMAIN order = 1 .. n /\ DOMAIN seqs = 1 .. n /\ Len(seqs) = n
  OBVIOUS
<1>2. Schedule(order, rounds) = FlattenSeq(seqs)
  BY DEF Schedule
<1>3. CASE n = 0
  <2>1. seqs = <<>>
    BY <1>1, <1>3
  <2>2. FlattenSeq(seqs) = seqs
    BY <1>1, <1>3 DEF FlattenSeq
  <2>3. NoneTwice(<<>>) /\ <<>> \in Seq(SlotsIn(Range(order), rounds))
    BY DEF NoneTwice
  <2> HIDE DEF seqs
  <2> QED BY <1>2, <2>1, <2>2, <2>3
<1>4. CASE n # 0
  <2>0. n \in Nat \ {0}
    BY <1>1, <1>4
  <2>1. PICK f : Unfolds(f, seqs, n) /\ FlattenSeq(seqs) = f[n]
    BY <1>1, <2>0, Flattened
  <2>2. \A k \in 1 .. n : /\ seqs[k] \in Seq(SlotsIn({order[k]}, rounds)) /\ NoneTwice(seqs[k])
                          /\ f[k] = IF k = 1 THEN seqs[k] ELSE f[k - 1] \o seqs[k]
    <3>1. \A k \in 1 .. n : order[k] \in Range(order)
      BY <1>1 DEF Range
    <3>2. \A k \in 1 .. n : f[k] = IF k = 1 THEN seqs[k] ELSE f[k - 1] \o seqs[k]
      BY <2>1 DEF Unfolds
    <3> QED BY <1>1, <3>1, <3>2, OneCase
  <2> HIDE DEF seqs
  <2> DEFINE S == {k \in Nat \ {0} : k <= n => f[k] \in Seq(SlotsIn(upto(k), rounds)) /\ NoneTwice(f[k])}
  <2>3. 1 \in S
    <3>1. upto(1) = {order[1]}
      OBVIOUS
    <3>2. 1 \in 1 .. n
      BY <2>0
    <3>3. f[1] = seqs[1] /\ seqs[1] \in Seq(SlotsIn({order[1]}, rounds)) /\ NoneTwice(seqs[1])
      BY <2>2, <3>2
    <3> HIDE DEF upto
    <3>4. f[1] \in Seq(SlotsIn(upto(1), rounds)) /\ NoneTwice(f[1])
      BY <3>1, <3>3
    <3> QED BY <3>4
  <2>4. ASSUME NEW k \in Nat \ {0}, k \in S PROVE k + 1 \in S
    <3> SUFFICES ASSUME k + 1 <= n
                 PROVE  f[k + 1] \in Seq(SlotsIn(upto(k + 1), rounds)) /\ NoneTwice(f[k + 1])
      BY <2>4
    <3>1. k + 1 \in 1 .. n /\ k + 1 # 1 /\ (k + 1) - 1 = k /\ k <= n
      BY <1>1
    <3>2. f[k + 1] = f[k] \o seqs[k + 1]
      BY <2>2, <3>1
    <3>3. f[k] \in Seq(SlotsIn(upto(k), rounds)) /\ NoneTwice(f[k])
      BY <2>4, <3>1
    <3>4. seqs[k + 1] \in Seq(SlotsIn({order[k + 1]}, rounds)) /\ NoneTwice(seqs[k + 1])
      BY <2>2, <3>1
    <3>5. order[k + 1] \notin upto(k)
      BY <1>1, <3>1
    <3>6. SlotsIn(upto(k), rounds) \cap SlotsIn({order[k + 1]}, rounds) = {}
      BY <3>5 DEF SlotsIn
    <3>7. upto(k + 1) = upto(k) \cup {order[k + 1]}
      OBVIOUS
    <3> HIDE DEF upto
    <3>8. SlotsIn(upto(k), rounds) \cup SlotsIn({order[k + 1]}, rounds) = SlotsIn(upto(k + 1), rounds)
      BY <3>7 DEF SlotsIn
    <3>9. f[k] \o seqs[k + 1] \in Seq(SlotsIn(upto(k), rounds) \cup SlotsIn({order[k + 1]}, rounds))
          /\ NoneTwice(f[k] \o seqs[k + 1])
      BY <3>3, <3>4, <3>6, Concatenated
    <3> QED BY <3>2, <3>8, <3>9
  <2> HIDE DEF S
  <2>5. n \in S
    BY <2>0, <2>3, <2>4, Induction
  <2>6. upto(n) = Range(order)
    BY <1>1 DEF Range
  <2> HIDE DEF upto
  <2>7. f[n] \in Seq(SlotsIn(upto(n), rounds)) /\ NoneTwice(f[n])
    BY <2>0, <2>5 DEF S
  <2> QED BY <1>2, <2>1, <2>6, <2>7
<1> QED BY <1>3, <1>4

(* The E.7 schedule is a sequence of rounds that exist, none of them twice.      *)
LEMMA SlotsOK ==
  /\ Slots["e7"] \in Seq(SlotsIn(Cases, Rounds)) /\ NoneTwice(Slots["e7"])
  /\ \A kind \in Kinds : Len(Slots[kind]) \in Nat
<1> DEFINE repeats == [c \in Range(SuspectOrder) |-> Repeats]
<1>1. Range(CaseOrder) = Cases
  BY DEF Range, Cases
<1>2. \A c \in Cases : Rounds[c] \in Nat \ {0}
  BY GateAssumption
<1>3. Schedule(CaseOrder, Rounds) \in Seq(SlotsIn(Cases, Rounds)) /\ NoneTwice(Schedule(CaseOrder, Rounds))
  BY <1>1, <1>2, GateAssumption, ScheduleOK
<1>4. \A c \in Range(SuspectOrder) : repeats[c] \in Nat \ {0}
  BY GateAssumption
<1> HIDE DEF repeats
<1>5. Schedule(SuspectOrder, repeats) \in Seq(SlotsIn(Range(SuspectOrder), repeats))
  BY <1>4, GateAssumption, ScheduleOK
<1>6. Slots["e7"] = Schedule(CaseOrder, Rounds) /\ Slots["e6"] = Schedule(SuspectOrder, repeats)
  BY DEF Slots, repeats
<1>7. Len(Schedule(CaseOrder, Rounds)) \in Nat /\ Len(Schedule(SuspectOrder, repeats)) \in Nat
  BY <1>3, <1>5
<1> QED BY <1>3, <1>6, <1>7 DEF Kinds

LEMMA AllButOne ==
  ASSUME NEW n \in Nat \ {0}, NEW r \in 1 .. n
  PROVE  IsFiniteSet((1 .. n) \ {r}) /\ Cardinality((1 .. n) \ {r}) = n - 1
<1>1. IsFiniteSet(1 .. n) /\ Cardinality(1 .. n) = IF 1 > n THEN 0 ELSE n - 1 + 1
  BY FS_Interval
<1>2. Cardinality((1 .. n) \ {r}) = Cardinality(1 .. n) - 1
  BY <1>1, FS_RemoveElement
<1>3. IsFiniteSet((1 .. n) \ {r})
  BY <1>1, FS_RemoveElement
<1> QED BY <1>1, <1>2, <1>3

(* As many rows as rounds: none is missing.                                   *)
LEMMA FullySampled ==
  ASSUME NEW rows, NEW outcomes, NEW p \in DOMAIN Slots["e7"],
         Len(rows) \in Nat, DOMAIN rows = 1 .. Len(rows), Len(rows) <= Len(Slots["e7"]),
         Count("e7", rows, Slots["e7"][p].case, Slots["e7"][p].arm, outcomes) >= Rounds[Slots["e7"][p].case]
  PROVE  p \in DOMAIN rows /\ rows[p] \in outcomes
<1> DEFINE c == Slots["e7"][p].case
           arm == Slots["e7"][p].arm
           r == Slots["e7"][p].round
           X == {i \in DOMAIN rows : AskedAt("e7", c, arm, i) /\ rows[i] \in outcomes}
           T == (1 .. Rounds[c]) \ {r}
           f == [i \in X |-> Slots["e7"][i].round]
<1> SUFFICES ASSUME p \notin X PROVE FALSE
  OBVIOUS
<1>1. /\ \A i \in DOMAIN rows : i \in DOMAIN Slots["e7"]
      /\ \A i \in DOMAIN Slots["e7"] : Slots["e7"][i] \in SlotsIn(Cases, Rounds)
  BY SlotsOK
<1>2. c \in Cases /\ Rounds[c] \in Nat \ {0} /\ r \in 1 .. Rounds[c]
  BY <1>1, GateAssumption DEF SlotsIn
<1>3. ASSUME NEW i \in DOMAIN Slots["e7"], NEW j \in DOMAIN Slots["e7"],
             AskedAt("e7", c, arm, i), AskedAt("e7", c, arm, j), Slots["e7"][i].round = Slots["e7"][j].round
      PROVE  i = j
  <2>1. \A s, t \in SlotsIn(Cases, Rounds) :
          s.case = t.case /\ s.arm = t.arm /\ s.round = t.round => s = t
    BY DEF SlotsIn
  <2>2. Slots["e7"][i] = Slots["e7"][j]
    BY <1>1, <1>3, <2>1 DEF AskedAt
  <2> QED BY <2>2, SlotsOK DEF NoneTwice
<1>4. \A i \in X : i \in DOMAIN Slots["e7"] /\ AskedAt("e7", c, arm, i) /\ i # p
  BY <1>1
<1>5. AskedAt("e7", c, arm, p)
  BY DEF AskedAt
<1>6. \A i \in X : Slots["e7"][i].round \in T
  <2> SUFFICES ASSUME NEW i \in X PROVE Slots["e7"][i].round \in 1 .. Rounds[c] /\ Slots["e7"][i].round # r
    OBVIOUS
  <2>1. Slots["e7"][i] \in SlotsIn(Cases, Rounds) /\ Slots["e7"][i].case = c
    BY <1>1, <1>4 DEF AskedAt
  <2> QED BY <1>3, <1>4, <1>5, <2>1 DEF SlotsIn
<1>7. f \in Injection(X, T)
  BY <1>3, <1>4, <1>6 DEF Injection, IsInjective
<1>8. IsFiniteSet(T) /\ Cardinality(T) = Rounds[c] - 1
  BY <1>2, AllButOne
<1> HIDE DEF f, T
<1>9. Cardinality(X) <= Cardinality(T) /\ IsFiniteSet(X)
  BY <1>7, <1>8, FS_Injection
<1>10. Cardinality(X) \in Nat /\ Cardinality(X) >= Rounds[c]
  BY <1>9, FS_CardinalityType DEF Count
<1> QED BY <1>2, <1>8, <1>9, <1>10

(* A count of none is none, and of some is some.                              *)
LEMMA Counted ==
  ASSUME NEW kind, NEW rows, NEW c, NEW arm, NEW outcomes,
         Len(rows) \in Nat, DOMAIN rows = 1 .. Len(rows)
  PROVE  /\ Count(kind, rows, c, arm, outcomes) \in Nat
         /\ Count(kind, rows, c, arm, outcomes) > 0 <=>
              \E i \in DOMAIN rows : AskedAt(kind, c, arm, i) /\ rows[i] \in outcomes
<1> DEFINE X == {i \in DOMAIN rows : AskedAt(kind, c, arm, i) /\ rows[i] \in outcomes}
<1>1. IsFiniteSet(1 .. Len(rows))
  BY FS_Interval
<1>2. X \subseteq 1 .. Len(rows)
  OBVIOUS
<1>3. IsFiniteSet(X) /\ Cardinality(X) \in Nat
  BY <1>1, <1>2, FS_Subset, FS_CardinalityType
<1>4. Cardinality(X) = 0 <=> X = {}
  BY <1>3, FS_EmptySet
<1> QED BY <1>3, <1>4 DEF Count

-----------------------------------------------------------------------------
RowsOf(kind) == {rows \in Seq(Outcomes) : Len(rows) <= Len(Slots[kind])}

AttributionMade(a) ==
  a = Missing \/ /\ a.rows \in RowsOf("e6")
                 /\ \E repeats \in 1 .. Repeats : a = AttributionGate(a.rows, repeats)

GateMade(g) ==
  g = NoGate \/ /\ g.rows \in RowsOf("e7") /\ AttributionMade(g.e6)
                /\ g.decision = GateDecision(g.rows, g.e6, g.frozen)

CampaignOK(c) ==
  /\ c \in [phase : {"idle", "asking", "judging"}, kind : Kinds \cup {"none"},
            rows : Seq(Outcomes), tries : Nat]
  /\ c.phase # "idle" => c.kind \in Kinds /\ c.rows \in RowsOf(c.kind)

GateInv ==
  /\ CampaignOK(campaign)
  /\ rowsFile \in [Kinds -> [state : {"absent", "whole", "torn"}, rows : Seq(Outcomes)]]
  /\ \A kind \in Kinds : rowsFile[kind].rows \in RowsOf(kind)
  /\ AttributionMade(attribution) /\ GateMade(gate)

LEMMA RowsAreSeq ==
  ASSUME NEW kind, NEW rows \in RowsOf(kind)
  PROVE  Len(rows) \in Nat /\ DOMAIN rows = 1 .. Len(rows) /\ \A i \in DOMAIN rows : rows[i] \in Outcomes
BY DEF RowsOf

(* What an E.6 summary that clears the candidate has behind it.                  *)
LEMMA SafetyConfirmed ==
  ASSUME NEW a, AttributionMade(a), a.decision = "REGRESSION_SAFETY_CONFIRMED",
         NEW k \in DOMAIN SuspectOrder
  PROVE  /\ \A arm \in Arm : Seen(a.rows, SuspectOrder[k], arm) # {}
         /\ ~ ( /\ Known(a.rows, SuspectOrder[k], "baseline") = {PASS}
                /\ Known(a.rows, SuspectOrder[k], "candidate") = {INCONCLUSIVE} )
<1> DEFINE c == SuspectOrder[k]
<1>1. a # Missing
  BY DEF Missing
<1>2. PICK repeats \in 1 .. Repeats : a = AttributionGate(a.rows, repeats)
  BY <1>1 DEF AttributionMade
<1>3. a.rows \in RowsOf("e6")
  BY <1>1 DEF AttributionMade
<1> DEFINE found == {Attribution(SuspectOrder[i], a.rows, repeats) : i \in DOMAIN SuspectOrder}
<1>4. a.decision = IF "CANDIDATE_REGRESSION" \in found THEN "REGRESSION_CONFIRMED"
                   ELSE IF "INSUFFICIENT_EVIDENCE" \in found THEN "INSUFFICIENT_EVIDENCE"
                   ELSE "REGRESSION_SAFETY_CONFIRMED"
  BY <1>2 DEF AttributionGate
<1>5. Attribution(c, a.rows, repeats) \notin {"CANDIDATE_REGRESSION", "INSUFFICIENT_EVIDENCE"}
  BY <1>4
<1>6. \A arm \in Arm : ~(Count("e6", a.rows, c, arm, Status) < repeats)
  BY <1>5 DEF Attribution
<1>7. ASSUME NEW arm \in Arm PROVE Seen(a.rows, c, arm) # {}
  <2>1. repeats \in Nat \ {0}
    BY GateAssumption
  <2>2. Count("e6", a.rows, c, arm, Status) \in Nat /\ Count("e6", a.rows, c, arm, Status) > 0
    BY <1>3, <1>6, <2>1, RowsAreSeq, Counted
  <2>3. PICK i \in DOMAIN a.rows : AskedAt("e6", c, arm, i) /\ a.rows[i] \in Status
    BY <1>3, <2>2, RowsAreSeq, Counted
  <2> QED BY <2>3 DEF Seen
<1>8. ~ (Known(a.rows, c, "baseline") = {PASS} /\ Known(a.rows, c, "candidate") = {INCONCLUSIVE})
  BY <1>5 DEF Attribution
<1> QED BY <1>7, <1>8

(* What the E.7 gate checks before it says PROMOTE, round by round.              *)
LEMMA PromotedIsEarned ==
  ASSUME NEW g, GateMade(g), g.decision = "PROMOTE"
  PROVE  /\ g.frozen
         /\ Len(g.rows) = Len(Slots["e7"])
         /\ "NO_ANSWER" \notin Range(g.rows)
         /\ g.e6.decision = "REGRESSION_SAFETY_CONFIRMED" /\ AttributionMade(g.e6)
         /\ \A i \in DOMAIN g.rows : LET s == Slots["e7"][i] IN
              s.arm = "candidate" =>
                g.rows[i] # (IF Stratum[s.case] = "critical" THEN PASS ELSE FAIL)
                     \/ Stratum[s.case] = "target"
<1>1. /\ g.rows \in RowsOf("e7") /\ AttributionMade(g.e6)
      /\ "PROMOTE" = GateDecision(g.rows, g.e6, g.frozen)
  BY DEF GateMade, NoGate
<1>2. /\ g.frozen /\ g.e6.decision = "REGRESSION_SAFETY_CONFIRMED"
      /\ \A c \in Cases : ~Regresses(g.rows, c) /\ \A arm \in Arm : Sufficiently(g.rows, c, arm)
  BY <1>1 DEF GateDecision
<1>3. Len(g.rows) \in Nat /\ DOMAIN g.rows = 1 .. Len(g.rows) /\ Len(g.rows) <= Len(Slots["e7"])
  BY <1>1, RowsAreSeq DEF RowsOf
<1>4. \A p \in DOMAIN Slots["e7"] : Slots["e7"][p].case \in Cases /\ Slots["e7"][p].arm \in Arm
  <2>1. \A p \in DOMAIN Slots["e7"] : Slots["e7"][p] \in SlotsIn(Cases, Rounds)
    BY SlotsOK
  <2> QED BY <2>1 DEF SlotsIn
<1>5. \A p \in DOMAIN Slots["e7"] : p \in DOMAIN g.rows /\ g.rows[p] \in Status \cup {"INVALID_OUTPUT"}
  BY <1>2, <1>3, <1>4, FullySampled DEF Sufficiently, Contract
<1>6. Len(Slots["e7"]) \in Nat /\ DOMAIN Slots["e7"] = 1 .. Len(Slots["e7"])
  BY SlotsOK DEF Kinds
<1>7. Len(g.rows) = Len(Slots["e7"])
  <2>1. CASE Len(Slots["e7"]) = 0
    BY <1>3, <1>6, <2>1
  <2>2. CASE Len(Slots["e7"]) # 0
    <3>1. Len(Slots["e7"]) \in DOMAIN Slots["e7"]
      BY <1>6, <2>2
    <3>2. Len(Slots["e7"]) \in 1 .. Len(g.rows)
      BY <1>3, <1>5, <3>1
    <3> QED BY <1>3, <1>6, <3>2
  <2> QED BY <2>1, <2>2
<1>8. "NO_ANSWER" \notin Range(g.rows)
  <2>1. \A i \in DOMAIN g.rows : g.rows[i] \in Status \cup {"INVALID_OUTPUT"}
    BY <1>3, <1>5, <1>6, <1>7
  <2> QED BY <2>1 DEF Range, Status, PASS, FAIL, INCONCLUSIVE
<1>9. ASSUME NEW i \in DOMAIN g.rows, Slots["e7"][i].arm = "candidate",
             Stratum[Slots["e7"][i].case] # "target"
      PROVE  g.rows[i] # IF Stratum[Slots["e7"][i].case] = "critical" THEN PASS ELSE FAIL
  <2> DEFINE c == Slots["e7"][i].case
             bad == IF Stratum[c] = "critical" THEN PASS ELSE FAIL
  <2>1. c \in Cases /\ AskedAt("e7", c, "candidate", i)
    BY <1>3, <1>4, <1>6, <1>7, <1>9 DEF AskedAt
  <2>2. ~(Count("e7", g.rows, c, "candidate", {bad}) > 0)
    BY <1>2, <1>9, <2>1 DEF Regresses
  <2> HIDE DEF bad
  <2>3. g.rows[i] \notin {bad}
    BY <1>3, <2>1, <2>2, Counted
  <2> QED BY <2>3 DEF bad
<1> QED BY <1>1, <1>2, <1>7, <1>8, <1>9

-----------------------------------------------------------------------------
LEMMA IdleOK == CampaignOK(Idle)
BY DEF Idle, CampaignOK

LEMMA GateStarts == GateInit => GateInv
<1>1. \A kind \in Kinds : <<>> \in RowsOf(kind)
  BY SlotsOK DEF RowsOf
<1>2. [state |-> "absent", rows |-> <<>>] \in [state : {"absent", "whole", "torn"}, rows : Seq(Outcomes)]
  OBVIOUS
<1> QED BY <1>1, <1>2, IdleOK DEF GateInit, GateInv, NoFile, AttributionMade, GateMade

LEMMA GateKeeps == GateInv /\ [GateNext]_gateVars => GateInv'
<1> SUFFICES ASSUME GateInv, [GateNext]_gateVars PROVE GateInv'
  OBVIOUS
<1> USE DEF GateInv
<1>1. CASE EditPolicy \/ WritePolicy \/ UNCHANGED gateVars
  BY <1>1 DEF EditPolicy, WritePolicy, gateVars
<1>2. ASSUME NEW kind \in Kinds, Start(kind) PROVE GateInv'
  <2>1. <<>> \in RowsOf(kind) /\ <<>> \in Seq(Outcomes)
    BY SlotsOK DEF RowsOf
  <2>2. campaign' = [phase |-> "asking", kind |-> kind, rows |-> <<>>, tries |-> 0]
    BY <1>2 DEF Start, Idle
  <2>3. CampaignOK(campaign')
    BY <2>1, <2>2 DEF CampaignOK
  <2> QED BY <1>2, <2>3 DEF Start
<1>3. ASSUME NEW o \in Outcomes, Ask(o) PROVE GateInv'
  <2>0. CampaignOK(campaign) /\ campaign.phase # "idle"
    BY <1>3 DEF Ask
  <2>1. campaign.kind \in Kinds /\ campaign.rows \in Seq(Outcomes) /\ Len(campaign.rows) \in Nat
        /\ Len(Slots[campaign.kind]) \in Nat /\ Len(campaign.rows) < Len(Slots[campaign.kind])
    BY <1>3, <2>0, SlotsOK DEF Ask, CampaignOK
  <2>2. Append(campaign.rows, o) \in RowsOf(campaign.kind) /\ Append(campaign.rows, o) \in Seq(Outcomes)
    BY <2>1 DEF RowsOf
  <2>3. \/ campaign' = [campaign EXCEPT !.tries = @ + 1]
        \/ campaign' = [campaign EXCEPT !.rows = Append(@, o), !.tries = 0]
    BY <1>3 DEF Ask
  <2>4. campaign.tries \in Nat
    BY <2>0 DEF CampaignOK
  <2>5. CampaignOK(campaign')
    <3>1. ASSUME campaign' = [campaign EXCEPT !.tries = @ + 1] PROVE CampaignOK(campaign')
      <4> DEFINE t == campaign.tries + 1
      <4>1. t \in Nat
        BY <2>4
      <4>2. campaign' = [campaign EXCEPT !.tries = t]
        BY <3>1
      <4> HIDE DEF t
      <4> QED BY <2>0, <4>1, <4>2 DEF CampaignOK
    <3>2. ASSUME campaign' = [campaign EXCEPT !.rows = Append(@, o), !.tries = 0] PROVE CampaignOK(campaign')
      <4> DEFINE r == Append(campaign.rows, o)
      <4>1. campaign' = [campaign EXCEPT !.rows = r, !.tries = 0] /\ r \in RowsOf(campaign.kind) /\ r \in Seq(Outcomes)
        BY <2>2, <3>2
      <4> HIDE DEF r
      <4> QED BY <2>0, <2>1, <4>1 DEF CampaignOK
    <3> QED BY <2>3, <3>1, <3>2
  <2> QED BY <1>3, <2>5 DEF Ask
<1>4. CASE WriteRows
  <2>0. CampaignOK(campaign)
    OBVIOUS
  <2>1. campaign.kind \in Kinds /\ campaign.rows \in RowsOf(campaign.kind) /\ campaign.rows \in Seq(Outcomes)
    BY <1>4, <2>0 DEF WriteRows, CampaignOK
  <2>2. rowsFile' = [kind \in Kinds |-> IF kind = campaign.kind
                                           THEN [state |-> "whole", rows |-> campaign.rows]
                                           ELSE rowsFile[kind]]
    BY <1>4 DEF WriteRows
  <2>3. CampaignOK(campaign')
    BY <1>4, <2>0, <2>1 DEF WriteRows, CampaignOK
  <2> QED BY <1>4, <2>1, <2>2, <2>3 DEF WriteRows
<1>5. ASSUME NEW rows \in RowsOf("e6"), NEW repeats \in 1 .. Repeats
      PROVE  AttributionMade(AttributionGate(rows, repeats))
  BY DEF AttributionMade, AttributionGate
<1>6. ASSUME NEW rows \in RowsOf("e7") PROVE GateMade(EvaluateGate(rows))
  BY DEF GateMade, EvaluateGate
<1>7. CASE WriteSummary
  <2>1. campaign.kind \in Kinds /\ campaign.rows \in RowsOf(campaign.kind) /\ Repeats \in 1 .. Repeats
    BY <1>7, GateAssumption DEF WriteSummary, CampaignOK
  <2>2. AttributionMade(attribution)' /\ GateMade(gate)'
    <3>1. CASE campaign.kind = "e6"
      BY <1>5, <1>7, <2>1, <3>1 DEF WriteSummary, AttributionMade, GateMade
    <3>2. CASE campaign.kind # "e6"
      BY <1>6, <1>7, <2>1, <3>2 DEF WriteSummary, Kinds, AttributionMade, GateMade
    <3> QED BY <3>1, <3>2
  <2>3. CampaignOK(campaign')
    BY <1>7, IdleOK DEF WriteSummary
  <2> QED BY <1>7, <2>2, <2>3 DEF WriteSummary
<1>8. ASSUME NEW repeats \in 1 .. Repeats, SummarizeAttribution(repeats) PROVE GateInv'
  <2>1. AttributionMade(attribution')
    BY <1>5, <1>8 DEF SummarizeAttribution, Kinds
  <2> QED BY <1>8, <2>1 DEF SummarizeAttribution
<1>9. CASE SummarizeGate
  <2>1. GateMade(gate')
    BY <1>6, <1>9 DEF SummarizeGate, Kinds
  <2> QED BY <1>9, <2>1 DEF SummarizeGate
<1>10. CASE Crash
  <2>1. CASE UNCHANGED rowsFile
    BY <1>10, <2>1, IdleOK DEF Crash
  <2>2. ASSUME NEW n \in 0 .. Len(campaign.rows) - 1, NEW state \in {"whole", "torn"},
               rowsFile' = [rowsFile EXCEPT ![campaign.kind] =
                              [state |-> state, rows |-> SubSeq(campaign.rows, 1, n)]]
        PROVE  GateInv'
    <3>1. campaign.kind \in Kinds /\ campaign.rows \in Seq(Outcomes) /\ Len(campaign.rows) \in Nat
          /\ Len(Slots[campaign.kind]) \in Nat /\ Len(campaign.rows) <= Len(Slots[campaign.kind])
      BY <1>10, SlotsOK DEF Crash, RowsOf, CampaignOK
    <3>2. SubSeq(campaign.rows, 1, n) \in Seq(Outcomes) /\ Len(SubSeq(campaign.rows, 1, n)) = n
      BY <3>1
    <3>3. SubSeq(campaign.rows, 1, n) \in RowsOf(campaign.kind)
      BY <3>1, <3>2 DEF RowsOf
    <3>4. rowsFile' = [kind \in Kinds |-> IF kind = campaign.kind
                                             THEN [state |-> state, rows |-> SubSeq(campaign.rows, 1, n)]
                                             ELSE rowsFile[kind]]
      BY <2>2
    <3> QED BY <1>10, <3>2, <3>3, <3>4, IdleOK DEF Crash
  <2> QED BY <1>10, <2>1, <2>2 DEF Crash
<1> QED BY <1>1, <1>2, <1>3, <1>4, <1>7, <1>8, <1>9, <1>10 DEF GateNext

LEMMA EarnedInv == GateInv => PromoteIsEarned
BY PromotedIsEarned, SafetyConfirmed DEF GateInv, PromoteIsEarned

(* For every schedule, policy and history: PROMOTE rests on every round of every
   case and arm, however campaigns crash, files are cut short and summaries are
   made again (run_promotion_gate, evaluate_promotion_gate, classify_attribution). *)
THEOREM GateEarned == GateSpec => []PromoteIsEarned
BY GateStarts, GateKeeps, EarnedInv, PTL DEF GateSpec

-----------------------------------------------------------------------------
Row == [sample : Samples, ok : BOOLEAN]

(* A frozen plan of a sample is one of its rows, and the first that passes l0
   if any had passed it when the file was made.                                *)
FrozenFrom(rows, best) ==
  \A s \in DOMAIN best :
    /\ s \in Samples /\ best[s] \in DOMAIN rows /\ rows[best[s]].sample = s
    /\ rows[best[s]].ok => \A j \in 1 .. (best[s] - 1) : ~(rows[j].sample = s /\ rows[j].ok)

(* A run that scored a sample judged a plan of it that passes l0.              *)
RanFrom(rows, run) ==
  /\ FrozenFrom(rows, run.plans) /\ DOMAIN run.plans = Samples
  /\ \A s \in Samples : run.results[s].status # "SKIPPED" => rows[run.plans[s]].ok

Generating == [name : {"gen"}, version : Version, onlyInvalid : BOOLEAN, next : Samples,
               skip : SUBSET Samples]
Running    == [name : {"run"}, version : Version, rows : [Samples -> Nat], repeat : Nat]

LoopInv ==
  /\ raw \in [Version -> Seq(Row)]
  /\ plans \in [Version -> [state : {"absent", "whole", "torn"}, rows : Seq(Nat)]]
  /\ saved = [v \in Version |-> saved[v]]
  /\ \A v \in Version :
       /\ FrozenFrom(raw[v], plans[v].rows)
       /\ saved[v] \in Seq(Range(saved[v]))
       /\ \A run \in Range(saved[v]) \ {Unreadable} : RanFrom(raw[v], run)
  /\ command \in {Waiting} \cup Generating \cup Running
  /\ command.name = "run" => FrozenFrom(raw[command.version], command.rows)

(* Rows are only appended: what was frozen or run from them stays so.            *)
LEMMA RowsGrow ==
  ASSUME NEW rows \in Seq(Row), NEW row \in Row
  PROVE  /\ \A best : FrozenFrom(rows, best) => FrozenFrom(Append(rows, row), best)
         /\ \A run : RanFrom(rows, run) => RanFrom(Append(rows, row), run)
<1>1. /\ Append(rows, row) \in Seq(Row) /\ DOMAIN rows \subseteq DOMAIN Append(rows, row)
      /\ \A i \in DOMAIN rows : Append(rows, row)[i] = rows[i] /\ 1 .. (i - 1) \subseteq DOMAIN rows
  OBVIOUS
<1>2. \A best : FrozenFrom(rows, best) => FrozenFrom(Append(rows, row), best)
  BY <1>1 DEF FrozenFrom
<1>3. ASSUME NEW run, RanFrom(rows, run) PROVE RanFrom(Append(rows, row), run)
  <2>1. \A s \in Samples : run.plans[s] \in DOMAIN rows
    BY <1>3 DEF RanFrom, FrozenFrom
  <2> QED BY <1>1, <1>2, <1>3, <2>1 DEF RanFrom
<1> QED BY <1>2, <1>3

LEMMA BestIsFirst ==
  ASSUME NEW rows \in Seq(Row), Covered(rows) = Samples
  PROVE  FrozenFrom(rows, [s \in Samples |-> BestRow(rows, s)])
<1> SUFFICES ASSUME NEW s \in Samples
             PROVE  LET best == BestRow(rows, s)
                    IN  /\ best \in DOMAIN rows /\ rows[best].sample = s
                        /\ rows[best].ok => \A j \in 1 .. (best - 1) : ~(rows[j].sample = s /\ rows[j].ok)
  BY DEF FrozenFrom
<1> DEFINE of == {i \in DOMAIN rows : rows[i].sample = s}
           ok == {i \in of : rows[i].ok}
<1>1. of # {} /\ of \in SUBSET Nat /\ ok \in SUBSET Nat
  BY DEF Covered
<1>2. BestRow(rows, s) = IF ok # {} THEN Min(ok) ELSE Min(of)
  BY DEF BestRow
<1>3. CASE ok # {}
  <2>1. Min(ok) \in ok /\ \A y \in ok : Min(ok) <= y
    BY <1>1, <1>3, LeastNat
  <2>2. ASSUME NEW j \in 1 .. (Min(ok) - 1) PROVE j \notin ok /\ j \in DOMAIN rows
    BY <2>1
  <2> QED BY <1>2, <1>3, <2>1, <2>2
<1>4. CASE ok = {}
  <2>1. Min(of) \in of
    BY <1>1, LeastNat
  <2> QED BY <1>2, <1>4, <2>1
<1> QED BY <1>3, <1>4

LEMMA SavedGrow ==
  ASSUME NEW s, s \in Seq(Range(s)), NEW e
  PROVE  /\ Range(Append(s, e)) = Range(s) \cup {e}
         /\ Append(s, e) \in Seq(Range(Append(s, e)))
<1>1. s \in Seq(Range(s) \cup {e})
  OBVIOUS
<1>2. Range(Append(s, e)) = Range(s) \cup {e}
  BY RangeAppend
<1> QED BY <1>1, <1>2

LEMMA NextGenerates ==
  ASSUME command \in Generating
  PROVE  NextSample \in {Waiting} \cup Generating /\ NextSample.name # "run"
<1>1. Samples = 1 .. Len(Gold) /\ Len(Gold) \in Nat
  BY LoopAssumption DEF Samples
<1>2. command.next < Len(Gold) => [command EXCEPT !.next = @ + 1] \in Generating
  BY <1>1 DEF Generating
<1>3. \A c \in Generating : c.name = "gen"
  BY DEF Generating
<1> QED BY <1>2, <1>3 DEF NextSample, Waiting

LEMMA GenKeeps ==
  ASSUME LoopInv, NEW ok \in BOOLEAN, GenerateRow(ok)
  PROVE  LoopInv'
<1> DEFINE row == [sample |-> command.next, ok |-> ok]
           v == command.version
<1>0. command \in Generating
  BY DEF GenerateRow, LoopInv, Waiting, Running
<1>1. row \in Row /\ v \in Version /\ raw[v] \in Seq(Row) /\ raw' = [raw EXCEPT ![v] = Append(@, row)]
  BY <1>0 DEF GenerateRow, Row, LoopInv, Generating
<1>2. raw' \in [Version -> Seq(Row)]
  BY <1>1 DEF LoopInv
<1>3. \A u \in Version : raw'[u] = IF u = v THEN Append(raw[u], row) ELSE raw[u]
  BY <1>1 DEF LoopInv
<1>4. \A u \in Version : /\ \A best : FrozenFrom(raw[u], best) => FrozenFrom(raw'[u], best)
                         /\ \A run : RanFrom(raw[u], run) => RanFrom(raw'[u], run)
  BY <1>1, <1>3, RowsGrow
<1>5. command' = NextSample
  BY DEF GenerateRow
<1>6. command' \in {Waiting} \cup Generating /\ command'.name # "run"
  BY <1>0, <1>5, NextGenerates
<1> QED BY <1>2, <1>4, <1>6 DEF GenerateRow, LoopInv

LEMMA FinalizeKeeps ==
  ASSUME LoopInv, NEW v \in Version, NEW force \in BOOLEAN, Finalize(v, force)
  PROVE  LoopInv'
<1> DEFINE best == [s \in Samples |-> BestRow(raw[v], s)]
<1>1. FrozenFrom(raw[v], best)
  BY BestIsFirst DEF LoopInv, Finalize
<1>2. Samples = 1 .. Len(Gold) /\ Len(Gold) \in Nat
  BY LoopAssumption DEF Samples
<1>3. \A s \in Samples : best[s] \in Nat
  BY <1>1 DEF FrozenFrom, LoopInv
<1>4. \A n \in 0 .. Len(Gold) : SubSeq(best, 1, n) \in Seq(Nat) /\ FrozenFrom(raw[v], SubSeq(best, 1, n))
  <2> SUFFICES ASSUME NEW n \in 0 .. Len(Gold)
               PROVE  SubSeq(best, 1, n) \in Seq(Nat) /\ FrozenFrom(raw[v], SubSeq(best, 1, n))
    OBVIOUS
  <2> HIDE DEF best
  <2>1. best \in [1 .. Len(Gold) -> Nat]
    BY <1>2, <1>3 DEF best
  <2>2. best \in Seq(Nat) /\ Len(best) = Len(Gold)
    BY <1>2, <2>1, FunctionIsSeq
  <2>3. /\ SubSeq(best, 1, n) \in Seq(Nat) /\ DOMAIN SubSeq(best, 1, n) = 1 .. n
        /\ \A i \in 1 .. n : SubSeq(best, 1, n)[i] = best[i] /\ i \in DOMAIN best
    BY <1>2, <2>2
  <2> QED BY <1>1, <2>3 DEF FrozenFrom
<1>5. \E new \in [state : {"absent", "whole", "torn"}, rows : Seq(Nat)] :
        plans' = [plans EXCEPT ![v] = new] /\ FrozenFrom(raw[v], new.rows)
  <2> HIDE DEF best
  <2>1. CASE \E n \in 0 .. Len(Gold) :
               plans' = [plans EXCEPT ![v] = [state |-> "whole", rows |-> SubSeq(best, 1, n)]]
    <3>1. PICK n \in 0 .. Len(Gold) :
             plans' = [plans EXCEPT ![v] = [state |-> "whole", rows |-> SubSeq(best, 1, n)]]
      BY <2>1
    <3> DEFINE new == [state |-> "whole", rows |-> SubSeq(best, 1, n)]
    <3>2. new \in [state : {"absent", "whole", "torn"}, rows : Seq(Nat)] /\ FrozenFrom(raw[v], new.rows)
      BY <1>4
    <3> QED BY <3>1, <3>2
  <2>2. CASE plans' = [plans EXCEPT ![v] = [state |-> "torn", rows |-> <<>>]]
    <3> DEFINE new == [state |-> "torn", rows |-> <<>>]
    <3>1. new \in [state : {"absent", "whole", "torn"}, rows : Seq(Nat)] /\ FrozenFrom(raw[v], new.rows)
      BY DEF FrozenFrom
    <3> QED BY <2>2, <3>1
  <2> QED BY <2>1, <2>2 DEF Finalize, best
<1>6. UNCHANGED <<raw, command, saved>>
  BY DEF Finalize
<1> QED BY <1>5, <1>6 DEF LoopInv

LEMMA RunKeeps ==
  ASSUME LoopInv, NEW observed, SaveRun(observed)
  PROVE  LoopInv'
<1> DEFINE v       == command.version
           ok(s)   == raw[v][command.rows[s]].ok
           results == [s \in Samples |-> EvaluateSample(ok(s), observed[s])]
           run     == [plans |-> command.rows, repeat |-> command.repeat, results |-> results]
<1>0. command \in Running /\ UNCHANGED <<raw, plans>>
  BY DEF LoopInv, SaveRun, Waiting, Generating
<1>1. v \in Version /\ FrozenFrom(raw[v], command.rows) /\ DOMAIN command.rows = Samples
  BY <1>0 DEF LoopInv, SaveRun, Running
<1>2. RanFrom(raw[v], run)
  <2>1. ASSUME NEW s \in Samples, ~ok(s) PROVE results[s].status = "SKIPPED"
    BY <2>1 DEF EvaluateSample
  <2> QED BY <1>1, <2>1 DEF RanFrom
<1>3. \E new : /\ saved' = [saved EXCEPT ![v] = Append(@, new)]
               /\ new = Unreadable \/ RanFrom(raw[v], new)
  <2> HIDE DEF run
  <2>1. CASE saved' = [saved EXCEPT ![v] = Append(@, run)]
    BY <1>2, <2>1
  <2>2. CASE saved' = [saved EXCEPT ![v] = Append(@, Unreadable)]
    BY <2>2
  <2> QED BY <2>1, <2>2 DEF SaveRun, run
<1>4. PICK new : /\ saved' = [saved EXCEPT ![v] = Append(@, new)]
                 /\ new = Unreadable \/ RanFrom(raw[v], new)
  BY <1>3
<1>5. command' = Waiting \/ command' = [command EXCEPT !.repeat = @ + 1]
  BY DEF SaveRun
<1>6. /\ command' \in {Waiting} \cup Running
      /\ command'.name = "run" => command'.version = v /\ command'.rows = command.rows
  BY <1>0, <1>5 DEF Waiting, Running
<1>7. saved' = [u \in Version |-> IF u = v THEN Append(saved[u], new) ELSE saved[u]]
  BY <1>4 DEF LoopInv
<1>8. \A u \in Version : /\ saved'[u] \in Seq(Range(saved'[u]))
                         /\ \A r \in Range(saved'[u]) : r \in Range(saved[u]) \/ (u = v /\ r = new)
  <2> SUFFICES ASSUME NEW u \in Version
               PROVE  /\ saved'[u] \in Seq(Range(saved'[u]))
                      /\ \A r \in Range(saved'[u]) : r \in Range(saved[u]) \/ (u = v /\ r = new)
    OBVIOUS
  <2>1. saved[u] \in Seq(Range(saved[u]))
    BY DEF LoopInv
  <2>2. CASE u = v
    <3>1. saved'[u] = Append(saved[u], new)
      BY <1>7, <2>2
    <3>2. Range(saved'[u]) = Range(saved[u]) \cup {new} /\ saved'[u] \in Seq(Range(saved'[u]))
      BY <2>1, <3>1, SavedGrow
    <3> QED BY <2>2, <3>2
  <2>3. CASE u # v
    BY <1>7, <2>1, <2>3
  <2> QED BY <2>2, <2>3
<1>9. saved' = [u \in Version |-> saved'[u]]
  BY <1>7
<1> QED BY <1>0, <1>1, <1>4, <1>6, <1>8, <1>9 DEF LoopInv

LEMMA LoopStarts == LoopInit => LoopInv
<1> SUFFICES ASSUME LoopInit PROVE LoopInv
  OBVIOUS
<1>1. command.name # "run" /\ command = Waiting
  BY DEF LoopInit, Waiting
<1>2. <<>> \in Seq(Row) /\ <<>> \in Seq(Nat) /\ \A S : <<>> \in Seq(S)
  OBVIOUS
<1>3. Range(<<>>) = {} /\ \A rows : FrozenFrom(rows, <<>>)
  BY DEF Range, FrozenFrom
<1> QED BY <1>1, <1>2, <1>3 DEF LoopInit, LoopInv, NoPlans

LEMMA LoopKeeps == LoopInv /\ [LoopNext]_loopVars => LoopInv'
<1> SUFFICES ASSUME LoopInv, [LoopNext]_loopVars PROVE LoopInv'
  OBVIOUS
<1>1. Samples = 1 .. Len(Gold) /\ Len(Gold) \in Nat \ {0}
  BY LoopAssumption DEF Samples
<1>2. ASSUME NEW v \in Version, NEW onlyInvalid \in BOOLEAN, StartGen(v, onlyInvalid) PROVE LoopInv'
  <2>1. Passing(raw[v]) \in SUBSET Samples
    <3>1. raw[v] \in Seq(Row)
      BY DEF LoopInv
    <3>2. \A j \in DOMAIN raw[v] : raw[v][j].sample \in Samples
      <4>1. \A j \in DOMAIN raw[v] : raw[v][j] \in Row
        BY <3>1
      <4> QED BY <4>1 DEF Row
    <3> QED BY <3>2 DEF Passing
  <2>2. command' \in Generating /\ command'.name # "run"
    BY <1>1, <1>2, <2>1 DEF StartGen, Generating
  <2> QED BY <1>2, <2>2 DEF StartGen, LoopInv
<1>3. CASE SkipSample
  <2>1. command \in Generating
    BY <1>3 DEF SkipSample, LoopInv, Waiting, Running
  <2>2. command' \in {Waiting} \cup Generating /\ command'.name # "run"
    BY <1>3, <2>1, NextGenerates DEF SkipSample
  <2> QED BY <1>3, <2>2 DEF SkipSample, LoopInv
<1>4. CASE CommandDies
  BY <1>4 DEF CommandDies, LoopInv, Waiting
<1>5. ASSUME NEW v \in Version, StartRun(v) PROVE LoopInv'
  <2>1. plans[v].rows \in [Samples -> Nat] /\ FrozenFrom(raw[v], plans[v].rows)
    BY <1>1, <1>5 DEF StartRun, LoopInv
  <2>2. command' \in Running /\ command'.version = v /\ command'.rows = plans[v].rows
    BY <1>5, <2>1 DEF StartRun, Running
  <2> QED BY <1>5, <2>1, <2>2 DEF StartRun, LoopInv
<1>6. CASE UNCHANGED loopVars
  BY <1>6 DEF loopVars, LoopInv
<1> QED BY <1>2, <1>3, <1>4, <1>5, <1>6, GenKeeps, FinalizeKeeps, RunKeeps DEF LoopNext

LEMMA ScoredAgree == LoopInv => ScoredPlansAgree
<1> SUFFICES ASSUME LoopInv, NEW v \in Version, NEW s \in Samples,
                    NEW a \in Range(saved[v]) \ {Unreadable}, NEW b \in Range(saved[v]) \ {Unreadable},
                    "SKIPPED" \notin {a.results[s].status, b.results[s].status}
             PROVE  a.plans[s] = b.plans[s]
  BY DEF ScoredPlansAgree
<1>1. /\ FrozenFrom(raw[v], a.plans) /\ s \in DOMAIN a.plans /\ raw[v][a.plans[s]].ok
      /\ FrozenFrom(raw[v], b.plans) /\ s \in DOMAIN b.plans /\ raw[v][b.plans[s]].ok
  BY DEF LoopInv, RanFrom
<1>2. raw[v] \in Seq(Row) /\ a.plans[s] \in Nat \ {0} /\ b.plans[s] \in Nat \ {0}
  BY <1>1 DEF LoopInv, FrozenFrom
<1>3. a.plans[s] \notin 1 .. (b.plans[s] - 1) /\ b.plans[s] \notin 1 .. (a.plans[s] - 1)
  BY <1>1 DEF FrozenFrom
<1> QED BY <1>2, <1>3

(* Two saved runs of one version that scored a sample judged the same plan of it,
   however often plans were generated, finalized anew or the commands died
   (finalize_plans, best_row and run in regression_gate.py).                     *)
THEOREM PlansAgree == LoopSpec => []ScoredPlansAgree
BY LoopStarts, LoopKeeps, ScoredAgree, PTL DEF LoopSpec

-----------------------------------------------------------------------------
Evaluated(run) ==
  /\ DOMAIN run.results = Samples
  /\ \A s \in Samples : \E ok \in BOOLEAN : \E observation :
       run.results[s] = EvaluateSample(ok, observation)

(* Repeats that matrix can sort are those of one command, in their order.      *)
Readable(v) == Unreadable \notin Range(saved[v]) /\ Sortable(v)

Orderly(v) ==
  Readable(v) =>
    /\ \A i \in DOMAIN saved[v] : saved[v][i].repeat = i /\ saved[v][i].plans = saved[v][1].plans
    /\ command.name = "run" /\ command.version = v /\ command.repeat # 1 =>
         /\ saved[v] # <<>> /\ command.repeat = Len(saved[v]) + 1
         /\ command.rows = saved[v][1].plans

RepeatInv ==
  \A v \in Version : /\ \A run \in Range(saved[v]) \ {Unreadable} : Evaluated(run)
                     /\ Orderly(v)

(* A saved repeat continues the command's repeats, or makes matrix unable to sort. *)
LEMMA SaveOrderly ==
  ASSUME LoopInv, RepeatInv, NEW observed, SaveRun(observed)
  PROVE  RepeatInv'
<1>1. PICK v \in Version : v = command.version /\ command \in Running
  BY DEF LoopInv, SaveRun, Waiting, Generating, Running
<1> DEFINE ok(s)   == raw[v][command.rows[s]].ok
           results == [s \in Samples |-> EvaluateSample(ok(s), observed[s])]
           run     == [plans |-> command.rows, repeat |-> command.repeat, results |-> results]
<1>2. Evaluated(run)
  <2>1. ASSUME NEW s \in Samples PROVE ok(s) \in BOOLEAN
    <3>1. command.rows[s] \in DOMAIN raw[v] /\ raw[v] \in Seq(Row)
      BY <1>1 DEF LoopInv, FrozenFrom, Running
    <3>2. raw[v][command.rows[s]] \in Row
      BY <3>1
    <3> QED BY <3>2 DEF Row
  <2> QED BY <2>1 DEF Evaluated
<1>3. PICK new : /\ saved' = [saved EXCEPT ![v] = Append(@, new)]
                 /\ \/ new = Unreadable /\ command' = Waiting
                    \/ /\ Evaluated(new) /\ new.plans = command.rows /\ new.repeat = command.repeat
                       /\ \/ command' = Waiting
                          \/ command' = [command EXCEPT !.repeat = @ + 1]
  <2> HIDE DEF run
  <2>1. run.plans = command.rows /\ run.repeat = command.repeat
    BY DEF run
  <2>2. \/ saved' = [saved EXCEPT ![v] = Append(@, run)]
           /\ (command' = Waiting \/ command' = [command EXCEPT !.repeat = @ + 1])
        \/ saved' = [saved EXCEPT ![v] = Append(@, Unreadable)] /\ command' = Waiting
    BY <1>1 DEF SaveRun, run
  <2> QED BY <1>2, <2>1, <2>2
<1>4. saved' = [u \in Version |-> IF u = v THEN Append(saved[u], new) ELSE saved[u]]
  BY <1>3 DEF LoopInv
<1>5. ASSUME NEW u \in Version, u # v
      PROVE  (\A r \in Range(saved'[u]) \ {Unreadable} : Evaluated(r)) /\ Orderly(u)'
  <2>1. saved'[u] = saved[u]
    BY <1>4, <1>5
  <2>2. ~(command'.name = "run" /\ command'.version = u)
    BY <1>1, <1>3, <1>5 DEF Waiting, Running
  <2>3. Readable(u)' => Readable(u)
    BY <2>1 DEF Readable, Sortable
  <2> QED BY <2>1, <2>2, <2>3 DEF RepeatInv, Orderly
<1>6. saved[v] \in Seq(Range(saved[v])) /\ saved'[v] = Append(saved[v], new)
  BY <1>1, <1>4 DEF LoopInv
<1>7. /\ Range(saved'[v]) = Range(saved[v]) \cup {new}
      /\ Len(saved[v]) \in Nat /\ DOMAIN saved'[v] = 1 .. (Len(saved[v]) + 1)
      /\ DOMAIN saved[v] = 1 .. Len(saved[v])
      /\ saved'[v][Len(saved[v]) + 1] = new
      /\ \A i \in DOMAIN saved[v] : saved'[v][i] = saved[v][i]
      /\ Len(saved'[v]) = Len(saved[v]) + 1
  BY <1>6, SavedGrow
<1>8. ASSUME Readable(v)'
      PROVE  /\ \A i \in DOMAIN saved'[v] : saved'[v][i].repeat = i /\ saved'[v][i].plans = saved'[v][1].plans
             /\ command'.name = "run" =>
                  /\ saved'[v] # <<>> /\ command'.repeat = Len(saved'[v]) + 1
                  /\ command'.rows = saved'[v][1].plans
  <2>1. new # Unreadable /\ Readable(v)
    BY SMTT(30), <1>7, <1>8 DEF Readable, Sortable
  <2>2. \A i \in DOMAIN saved[v] : saved[v][i].repeat = i /\ saved[v][i].plans = saved[v][1].plans
    BY <1>1, <2>1 DEF RepeatInv, Orderly
  <2>3. CASE saved[v] = <<>>
    <3>1. command.repeat = 1 /\ Len(saved[v]) = 0
      BY <1>1, <2>1, <2>3 DEF RepeatInv, Orderly, Running
    <3>2. saved'[v][1] = new /\ DOMAIN saved'[v] = {1} /\ new.repeat = 1 /\ new.plans = command.rows
      BY <1>3, <1>7, <2>1, <3>1
    <3> QED BY <1>1, <1>3, <1>7, <3>1, <3>2 DEF Running, Waiting
  <2>4. CASE saved[v] # <<>>
    <3>1. 1 \in DOMAIN saved[v] /\ saved'[v][1].repeat = 1 /\ saved'[v][1] = saved[v][1]
      BY <1>6, <1>7, <2>2, <2>4
    <3>2. command.repeat # 1
      <4>1. new.repeat = command.repeat /\ Len(saved[v]) + 1 # 1
        BY <1>3, <1>7, <2>1, <3>1
      <4> QED BY SMTT(30), <1>7, <1>8, <3>1, <4>1 DEF Readable, Sortable
    <3>3. command.repeat = Len(saved[v]) + 1 /\ command.rows = saved[v][1].plans
      BY <1>1, <2>1, <3>2 DEF RepeatInv, Orderly, Running
    <3>4. new.repeat = Len(saved[v]) + 1 /\ new.plans = saved'[v][1].plans
      BY <1>3, <2>1, <3>1, <3>3
    <3>5. \A i \in DOMAIN saved'[v] : saved'[v][i].repeat = i /\ saved'[v][i].plans = saved'[v][1].plans
      BY <1>7, <2>2, <3>1, <3>4
    <3> QED BY <1>1, <1>3, <1>7, <3>1, <3>3, <3>5 DEF Running, Waiting
  <2> QED BY <2>3, <2>4
<1>9. \A r \in Range(saved'[v]) \ {Unreadable} : Evaluated(r)
  BY <1>1, <1>3, <1>7 DEF RepeatInv
<1> QED BY <1>5, <1>8, <1>9 DEF RepeatInv, Orderly, Evaluated

LEMMA RepeatKeeps == LoopInv /\ RepeatInv /\ [LoopNext]_loopVars => RepeatInv'
<1> SUFFICES ASSUME LoopInv, RepeatInv, [LoopNext]_loopVars PROVE RepeatInv'
  OBVIOUS
<1>1. ASSUME UNCHANGED saved, command'.name = "run" => command'.repeat = 1 PROVE RepeatInv'
  BY <1>1 DEF RepeatInv, Orderly, Readable, Sortable, Evaluated
<1>2. ASSUME NEW v \in Version, NEW flag \in BOOLEAN, StartGen(v, flag) PROVE RepeatInv'
  <2>1. command'.name = "gen" /\ UNCHANGED saved
    BY <1>2 DEF StartGen
  <2> QED BY <1>1, <2>1
<1>3. ASSUME NEW v \in Version, NEW flag \in BOOLEAN, Finalize(v, flag) PROVE RepeatInv'
  BY <1>1, <1>3 DEF Finalize, Waiting
<1>4. ASSUME command.name = "gen", command' = NextSample, UNCHANGED saved PROVE RepeatInv'
  <2>1. command \in Generating
    BY <1>4 DEF LoopInv, Waiting, Running
  <2> QED BY <1>1, <1>4, <2>1, NextGenerates
<1>5. CASE SkipSample
  BY <1>4, <1>5 DEF SkipSample
<1>6. ASSUME NEW ok \in BOOLEAN, GenerateRow(ok) PROVE RepeatInv'
  BY <1>4, <1>6 DEF GenerateRow
<1>7. CASE CommandDies
  BY <1>1, <1>7 DEF CommandDies, Waiting
<1>8. ASSUME NEW v \in Version, StartRun(v) PROVE RepeatInv'
  BY <1>1, <1>8 DEF StartRun
<1>9. CASE UNCHANGED loopVars
  BY <1>9 DEF loopVars, RepeatInv, Orderly, Readable, Sortable, Evaluated
<1> QED BY <1>2, <1>3, <1>7, <1>8, <1>9, <1>5, <1>6, SaveOrderly DEF LoopNext

LEMMA RepeatStarts == LoopInit => RepeatInv
<1>1. Range(<<>>) = {} /\ DOMAIN <<>> = {}
  BY DEF Range
<1> QED BY <1>1 DEF LoopInit, RepeatInv, Orderly, Waiting

-----------------------------------------------------------------------------
(* What the gates read of results.                                             *)
Alike(a, b) ==
  /\ DOMAIN a = DOMAIN b
  /\ \A s \in DOMAIN a : /\ a[s].score = b[s].score
                         /\ a[s].status \in ErrorStatuses <=> b[s].status \in ErrorStatuses
                         /\ a[s].status = "SKIPPED" <=> b[s].status = "SKIPPED"

Replayed(run) == [s \in Samples |-> ReplayResult(run.results[s])]

LEMMA JudgedAlike ==
  ASSUME NEW rounds, NEW f \in ErrorStatuses, NEW g \in ErrorStatuses
  PROVE  LET a == Judged(rounds, f)  b == Judged(rounds, g)
         IN  /\ a.score = b.score
             /\ a.status \in ErrorStatuses <=> b.status \in ErrorStatuses
             /\ a.status # "SKIPPED" /\ b.status # "SKIPPED"
BY DEF Judged, ErrorStatuses

(* replay recomputes a result from its rounds: only the kind of error may differ, and
   no gate reads more of an error than that it is one.                           *)
LEMMA ReplayedAlike ==
  ASSUME NEW run, Evaluated(run) PROVE Alike(run.results, Replayed(run))
<1> SUFFICES ASSUME NEW s \in Samples
             PROVE  LET a == run.results[s]  b == ReplayResult(run.results[s])
                    IN  /\ a.score = b.score
                        /\ a.status \in ErrorStatuses <=> b.status \in ErrorStatuses
                        /\ a.status = "SKIPPED" <=> b.status = "SKIPPED"
  BY DEF Alike, Replayed, Evaluated
<1>1. PICK ok \in BOOLEAN : \E observation : run.results[s] = EvaluateSample(ok, observation)
  BY DEF Evaluated
<1>2. PICK observation : run.results[s] = EvaluateSample(ok, observation)
  BY <1>1
<1>3. \A attempts : FailureStatus(attempts) \in ErrorStatuses
  BY DEF FailureStatus, ErrorStatuses
<1>4. \A rounds, f : Judged(rounds, f).rounds = rounds
  BY DEF Judged
<1>5. CASE ok
  <2> DEFINE rounds == [i \in DOMAIN observation |-> JudgeRound(observation[i])]
             f == FailureStatus(Range(rounds[1]))
             g == FailureStatus(UNION {Range(round) : round \in Range(rounds)})
  <2>1. run.results[s] = Judged(rounds, f)
    BY <1>2, <1>5 DEF EvaluateSample
  <2>2. f \in ErrorStatuses /\ g \in ErrorStatuses
    BY <1>3
  <2> HIDE DEF f
  <2>3. ReplayResult(run.results[s]) \in {run.results[s], Judged(rounds, g)}
    BY <1>4, <2>1 DEF ReplayResult
  <2> HIDE DEF g, rounds
  <2> QED BY <2>1, <2>2, <2>3, JudgedAlike
<1>6. CASE ~ok
  <2>1. run.results[s].rounds = <<>>
    BY <1>2, <1>6 DEF EvaluateSample
  <2> QED BY <2>1 DEF ReplayResult
<1> QED BY <1>5, <1>6

LEMMA GatesAlike ==
  ASSUME NEW base, NEW base2, Alike(base, base2), NEW cand, NEW cand2, Alike(cand, cand2), NEW noises
  PROVE  /\ GateDecide(base, cand, noises) = GateDecide(base2, cand2, noises)
         /\ CompareVerdict(base, cand) = CompareVerdict(base2, cand2)
<1>1. ASSUME NEW a, NEW b, Alike(a, b)
      PROVE  ScoresOf(a) = ScoresOf(b) /\ Skips(a) = Skips(b) /\ (HasError(a) <=> HasError(b))
  <2>1. [i \in DOMAIN a |-> a[i].score] = [i \in DOMAIN b |-> b[i].score]
    BY <1>1 DEF Alike
  <2>2. {i \in DOMAIN a : a[i].status = "SKIPPED"} = {i \in DOMAIN b : b[i].status = "SKIPPED"}
    BY <1>1 DEF Alike
  <2>3. HasError(a) <=> HasError(b)
    BY <1>1 DEF Alike, HasError
  <2> QED BY <2>1, <2>2, <2>3 DEF ScoresOf, Skips
<1>2. MedianOf(base) = MedianOf(base2) /\ MedianOf(cand) = MedianOf(cand2)
  BY <1>1 DEF MedianOf
<1> QED BY <1>1, <1>2 DEF GateDecide, CompareVerdict

LEMMA Reproducible == LoopInv /\ RepeatInv => MatrixIsReproducible
<1> SUFFICES ASSUME LoopInv, RepeatInv, MatrixReports, NEW i \in 1 .. CommonRepeats
             PROVE  /\ \A v \in Version : \E run \in Range(saved[v]) : run.repeat = i
                    /\ \A v \in Version : Repeat(v, i).plans = Repeat(v, 1).plans
                    /\ GateDecide(Repeat("baseline", i).results, Repeat("candidate", i).results, Noises)
                         = GateDecide(Replayed(Repeat("baseline", i)), Replayed(Repeat("candidate", i)), Noises)
                    /\ CompareVerdict(Repeat("baseline", i).results, Repeat("candidate", i).results)
                         = CompareVerdict(Replayed(Repeat("baseline", i)), Replayed(Repeat("candidate", i)))
  BY DEF MatrixIsReproducible, Replayed
<1>1. \A v \in Version : saved[v] \in Seq(Range(saved[v])) /\ Len(saved[v]) \in Nat
  BY DEF LoopInv
<1>2. CommonRepeats \in Nat /\ \A v \in Version : CommonRepeats <= Len(saved[v])
  <2>1. {Len(saved[v]) : v \in Version} \in SUBSET Nat /\ {Len(saved[v]) : v \in Version} # {}
    BY <1>1 DEF Version
  <2> QED BY <2>1, LeastNat DEF CommonRepeats
<1>3. ASSUME NEW v \in Version, NEW k \in 1 .. CommonRepeats
      PROVE  /\ Repeat(v, k) \in Range(saved[v]) /\ Repeat(v, k).repeat = k
             /\ Repeat(v, k).plans = saved[v][1].plans /\ Evaluated(Repeat(v, k))
  <2>1. /\ k \in DOMAIN saved[v] /\ saved[v][k] \in Range(saved[v])
        /\ Unreadable \notin Range(saved[v])
        /\ \A j \in DOMAIN saved[v] : saved[v][j].repeat = j /\ saved[v][j].plans = saved[v][1].plans
    BY <1>1, <1>2 DEF RepeatInv, Orderly, Readable, MatrixReports, Range
  <2>2. \E r \in Range(saved[v]) : r.repeat = k
    BY <2>1
  <2>3. Repeat(v, k) \in Range(saved[v]) /\ Repeat(v, k).repeat = k
    BY <2>2 DEF Repeat
  <2>4. \A r \in Range(saved[v]) : r.plans = saved[v][1].plans
    BY <2>1 DEF Range
  <2> QED BY <2>1, <2>3, <2>4 DEF RepeatInv
<1>4. 1 \in 1 .. CommonRepeats
  BY <1>2
<1>5. \A v \in Version : Alike(Repeat(v, i).results, Replayed(Repeat(v, i)))
  BY <1>3, ReplayedAlike
<1> QED BY <1>3, <1>4, <1>5, GatesAlike DEF Version

(* What matrix reports of each repeat is of the same plans, and can be computed
   again from the saved rounds with the same decision (matrix, replay).          *)
THEOREM MatrixReproducible == LoopSpec => []MatrixIsReproducible
<1>1. LoopInv /\ RepeatInv /\ [LoopNext]_loopVars => LoopInv' /\ RepeatInv'
  BY LoopKeeps, RepeatKeeps
<1> QED BY <1>1, LoopStarts, RepeatStarts, Reproducible, PTL DEF LoopSpec
=============================================================================
