-------------------------- MODULE ImprovementChain --------------------------
(***************************************************************************)
(* From a failure to a promotion (improvement_candidate.py, regression.py, *)
(* promotion.py): a change is proposed because of an attributed failure,   *)
(* the same tasks are run with and without it, compare joins the two arms  *)
(* into an immutable RegressionRun, and decide turns one such run into an  *)
(* immutable PromotionDecision.  The pieces only meet in the caller's      *)
(* hands: results come and go between the calls, runs of other changes lie *)
(* about, and a change is marked VALIDATED by whoever drives the chain.    *)
(***************************************************************************)
EXTENDS Verdicts, Naturals, FiniteSets

CONSTANTS Task,         \* the task set, the same for both arms
          Change,       \* the changes that may be proposed
          Grades,       \* the results a task may have: verdict and quality
          MaxRuns,      \* bound: regression runs compared
          MaxDecisions  \* bound: decisions taken



VARIABLES baseline,     \* each task: its latest result in the baseline arm
          candidate,    \* each change and task: its latest result with the change
          proposal,     \* each change: its ImprovementCandidate
          runs,         \* the RegressionRuns made so far
          decisions     \* the PromotionDecisions taken so far

chainVars == <<baseline, candidate, proposal, runs, decisions>>

Quality == {"EXACT", "PARTIAL", "LOSSY"}
Ref     == {"v1", "latest", "UNKNOWN"}
Grade   == [status: Status, quality: Quality]

ASSUME ChainAssumption == IsFiniteSet(Task) /\ Task # {} /\ Grades \subseteq Grade

NoGrade == [status |-> "none", quality |-> "none"]

NoProposal == [status |-> "none", ref |-> "none"]
Proposal   == [status: {"PROPOSED", "REQUIRES_DISAMBIGUATION", "INVALID_FOR_REGRESSION",
                        "VALIDATED"},
               ref: Ref]

-----------------------------------------------------------------------------
(* regression.py.                                                           *)

Passed(results)      == {t \in Task : results[t].status = PASS}
Unsettled(base, cand) ==
  {t \in Task : INCONCLUSIVE \in {base[t].status, cand[t].status}}
Worsened(base, cand) == {t \in Task : base[t].status = PASS /\ cand[t].status = FAIL}

\* Mutant: a task without a verdict does not lower the quality.
ComparisonQualityOfGraded(base, cand) ==
  LET seen == {base[t].quality : t \in Task} \cup {cand[t].quality : t \in Task}
  IN  IF "LOSSY" \in seen THEN "LOSSY" ELSE "EXACT"

\* _comparison_quality.
ComparisonQuality(base, cand) ==
  LET seen == {base[t].quality : t \in Task} \cup {cand[t].quality : t \in Task}
  IN  IF Unsettled(base, cand) # {} THEN "INCONCLUSIVE"
      ELSE IF "LOSSY" \in seen THEN "LOSSY"
      ELSE IF "PARTIAL" \in seen THEN "PARTIAL" ELSE "EXACT"

\* _decision: a critical task that got worse, then the quality of the evidence,
\* then the success rates.
RunDecision(base, cand, critical) ==
  IF Worsened(base, cand) \cap critical # {} THEN "REGRESSED"
  ELSE IF ComparisonQuality(base, cand) \in {"LOSSY", "INCONCLUSIVE"} THEN "INCONCLUSIVE"
  ELSE IF Cardinality(Passed(cand)) > Cardinality(Passed(base)) THEN "IMPROVED"
  ELSE IF Cardinality(Passed(cand)) < Cardinality(Passed(base)) THEN "REGRESSED"
  ELSE "NO_CHANGE"

RegressionRun(c, critical) ==
  [change    |-> c,
   ref       |-> proposal[c].ref,
   base      |-> baseline,
   cand      |-> candidate[c],
   critical  |-> Worsened(baseline, candidate[c]) \cap critical,
   quality   |-> ComparisonQuality(baseline, candidate[c]),
   decision  |-> RunDecision(baseline, candidate[c], critical)]

\* _stable_baseline lower-cases the reference before it looks for it among the
\* unstable ones, where UNKNOWN is spelt in capitals: UNKNOWN passes.
StableBaseline(ref) == ref # "latest"

-----------------------------------------------------------------------------
(* promotion.py: the gates.                                                 *)

EvaluationGate(run, excused) ==
  LET statuses == {run.cand[t].status : t \in Task}
  IN  IF INCONCLUSIVE \in statuses THEN IF excused THEN PASS ELSE INCONCLUSIVE
      ELSE IF statuses = {PASS} THEN PASS ELSE FAIL

RegressionGate(run, lossyExcused) ==
  IF run.critical # {} THEN FAIL
  ELSE CASE run.decision = "IMPROVED"                 -> PASS
         [] run.decision \in {"NO_CHANGE", "REGRESSED"} -> FAIL
         [] OTHER -> IF run.quality = "LOSSY" /\ lossyExcused THEN PASS ELSE INCONCLUSIVE

\* Only the categories the caller calls safety categories count here.
SafetyGate(run, safety) == IF run.critical \cap safety # {} THEN FAIL ELSE PASS

StableVersion(ref) == ref \notin {"latest", "UNKNOWN"}

Blocked(run, o) ==
  {FAIL, INCONCLUSIVE} \cap
    {EvaluationGate(run, o.excused), RegressionGate(run, o.lossyExcused),
     SafetyGate(run, o.safety)} # {}

\* The policy gate is not among the required ones.
Verdict(run, o) ==
  IF Blocked(run, o) THEN "REJECTED"
  ELSE IF ~o.canary THEN "PROMOTED"
  ELSE IF o.observed THEN "CANARY" ELSE "PENDING"

-----------------------------------------------------------------------------
ChainInit ==
  /\ baseline = [t \in Task |-> NoGrade]
  /\ candidate = [c \in Change |-> [t \in Task |-> NoGrade]]
  /\ proposal = [c \in Change |-> NoProposal]
  /\ runs = {}
  /\ decisions = {}

\* A task is run and evaluated in an arm, again if it was before: golden tasks
\* are replayed and the caller keeps the latest result of each.  Bound: results
\* change only while another compare may read them.
RunBaseline(t, g) ==
  /\ Cardinality(runs) < MaxRuns
  /\ baseline' = [baseline EXCEPT ![t] = g]
  /\ UNCHANGED <<candidate, proposal, runs, decisions>>

RunCandidate(c, t, g) ==
  /\ Cardinality(runs) < MaxRuns /\ proposal[c] # NoProposal
  /\ candidate' = [candidate EXCEPT ![c][t] = g]
  /\ UNCHANGED <<baseline, proposal, runs, decisions>>

\* propose: only from a failure, and the kind of it decides the status first.
Propose(c, t, ambiguous, ref) ==
  /\ proposal[c] = NoProposal
  /\ baseline[t].status = FAIL
  /\ proposal' = [proposal EXCEPT ![c] =
       [status |-> IF ambiguous THEN "REQUIRES_DISAMBIGUATION"
                   ELSE IF ref = "UNKNOWN" THEN "INVALID_FOR_REGRESSION" ELSE "PROPOSED",
        ref    |-> ref]]
  /\ UNCHANGED <<baseline, candidate, runs, decisions>>

\* Nothing under src/ but a test marks a candidate VALIDATED.
Validate(c) ==
  /\ proposal[c] # NoProposal
  /\ proposal' = [proposal EXCEPT ![c].status = "VALIDATED"]
  /\ UNCHANGED <<baseline, candidate, runs, decisions>>

\* compare raises unless every task has a result in both arms.
Compare(c, critical) ==
  /\ Cardinality(runs) < MaxRuns
  /\ proposal[c].status \in {"PROPOSED", "VALIDATED"}
  /\ StableBaseline(proposal[c].ref)
  /\ \A t \in Task : baseline[t] # NoGrade /\ candidate[c][t] # NoGrade
  /\ runs' = runs \cup {RegressionRun(c, critical)}
  /\ UNCHANGED <<baseline, candidate, proposal, decisions>>

\* decide raises unless the candidate is VALIDATED, its baseline is a version and
\* the run is this candidate's.
Decide(c, run, options) ==
  /\ Cardinality(decisions) < MaxDecisions
  /\ proposal[c].status = "VALIDATED"
  /\ StableVersion(proposal[c].ref)
  /\ run.ref = proposal[c].ref
  /\ run.change = c
  /\ decisions' = decisions \cup
       {[change |-> c, run |-> run, lossyExcused |-> options.lossyExcused,
         decision |-> Verdict(run, options)]}
  /\ UNCHANGED <<baseline, candidate, proposal, runs>>

Options == [excused: BOOLEAN, lossyExcused: BOOLEAN, canary: BOOLEAN, observed: BOOLEAN,
            safety: {{}, Task}]

ChainNext ==
  \/ \E t \in Task, g \in Grades : \/ RunBaseline(t, g)
                                  \/ \E c \in Change : RunCandidate(c, t, g)
  \/ \E c \in Change : \/ \E t \in Task, ambiguous \in BOOLEAN, ref \in Ref :
                            Propose(c, t, ambiguous, ref)
                       \/ Validate(c)
                       \/ \E critical \in SUBSET Task : Compare(c, critical)
                       \/ \E run \in runs, options \in Options : Decide(c, run, options)

ChainSpec == ChainInit /\ [][ChainNext]_chainVars

-----------------------------------------------------------------------------
(* A decision that lets a change through rests on a run of that very change in
   which it passed every task, and in which, unless LOSSY evidence was excused,
   it passed a task the baseline failed.  evaluation_exception_ref alone would
   let a FAIL through beside an INCONCLUSIVE (promotion.py:140); the quality
   compare gives such a run is what stops it two gates later.                  *)
PromotedIsClean ==
  \A d \in decisions : d.decision # "REJECTED" =>
    /\ d.run \in runs /\ d.run.change = d.change
    /\ \A t \in Task : d.run.cand[t].status = PASS
    /\ \/ d.lossyExcused /\ d.run.quality = "LOSSY"
       \/ \E t \in Task : d.run.base[t].status = FAIL
=============================================================================
