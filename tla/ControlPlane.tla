---------------------------- MODULE ControlPlane ----------------------------
(***************************************************************************)
(* The regression gate of the control-plane loop (gate_calibration.py,     *)
(* evaluation_result.py): plans are generated into raw files that only     *)
(* grow, the best row of each sample is frozen into one file per version,  *)
(* the frozen plans are judged several times into append-only runs, and    *)
(* the matrix compares the runs of the candidate with the baseline's.      *)
(*                                                                         *)
(* One operator runs one command at a time, and any of them may die.  A    *)
(* plan is the position of its raw row; scores are integers, so that a     *)
(* median is kept as twice its value, a median of medians as four times.   *)
(* A raw file's name starts with the time it was made, so that the files   *)
(* of a version are one growing sequence.  Left out: the frozen references *)
(* (always there, so that no sample is INVALID_INPUT), rounding, l1 and    *)
(* the reports perturb and stability, which read the same runs again.      *)
(***************************************************************************)
EXTENDS Verdicts, Integers, Sequences, SequencesExt, FiniteSets, FiniteSetsExt, TLC

CONSTANTS Gold,          \* the samples, in the order of the frozen data set
          Observations,  \* each version: what the judge may answer in a run: per sample, rounds
          MinSuccess,    \* rounds with a score that make a score (3 in the code)
          MaxRows,       \* bound: each version: raw rows before the last gen-candidates
          MaxRepeats,    \* the largest --repeats (5 by default)
          MaxSaved        \* bound: saved runs of each version

VARIABLES raw,           \* each version: the rows generated so far
          plans,         \* each version: its frozen candidate file
          command,       \* the command under way
          saved          \* each version: its run directories, in the order they were made

loopVars == <<raw, plans, command, saved>>

\* The gold file is a sequence of samples, and has some.
ASSUME LoopAssumption == Gold \in Seq(Range(Gold)) /\ Gold # <<>>

Version  == {"baseline", "candidate"}
Samples  == DOMAIN Gold
NoPlans  == [state |-> "absent", rows |-> <<>>]
NoScore  == -1
Waiting  == [name |-> "none"]
Unreadable == [plans |-> <<>>, repeat |-> 0, results |-> <<>>]

-----------------------------------------------------------------------------
(* One sample: evaluation_result.py.                                        *)

\* classify_judge_response, and the exception judge_round catches.
AnswerStatus(answer) ==
  CASE answer.kind = "valid"                                     -> "OK"
    [] answer.kind \in {"raises", "empty"}                       -> "JUDGE_ERROR"
    [] answer.kind = "truncated"                                 -> "JUDGE_TRUNCATED"
    [] answer.kind \in {"no_json", "no_score", "invalid_score"}  -> "JUDGE_PARSE_ERROR"

\* The attempts of a round: the answers up to the first valid one.
JudgeRound(answers) ==
  LET valid == {i \in DOMAIN answers : AnswerStatus(answers[i]) = "OK"}
  IN  IF valid = {} THEN answers ELSE SubSeq(answers, 1, Min(valid))

Succeeded(round) == AnswerStatus(Last(round)) = "OK"

FailureStatus(attempts) ==
  LET statuses == {AnswerStatus(a) : a \in attempts}
  IN  IF "JUDGE_ERROR" \in statuses THEN "JUDGE_ERROR"
      ELSE IF "JUDGE_TRUNCATED" \in statuses THEN "JUDGE_TRUNCATED" ELSE "JUDGE_PARSE_ERROR"

\* aggregate: the median, and the square of the deviation as a fraction.
TwiceMedian(scores) ==
  LET sorted == SortSeq(scores, LAMBDA a, b: a < b)
  IN  sorted[(Len(scores) + 1) \div 2] + sorted[Len(scores) \div 2 + 1]

Variance(scores) ==
  LET n      == Len(scores)
      sum    == FoldSeq(LAMBDA x, acc: x + acc, 0, scores)
      square == FoldSeq(LAMBDA x, acc: x * x + acc, 0, scores)
  IN  [num |-> n * square - sum * sum, den |-> IF n > 1 THEN n * (n - 1) ELSE 1]

Scores(rounds) == LET good == SelectSeq(rounds, Succeeded)
                  IN  [i \in DOMAIN good |-> Last(good[i]).score]

Judged(rounds, failure) ==
  LET scores == Scores(rounds)
  IN  [status |-> IF Len(scores) >= MinSuccess THEN "OK"
                  ELSE IF scores = <<>> THEN failure ELSE "INSUFFICIENT_JUDGE_EVIDENCE",
       score  |-> IF Len(scores) >= MinSuccess THEN TwiceMedian(scores) ELSE NoScore,
       rounds |-> rounds]

\* Mutant: one round with a score is a score.
EvaluateSampleOfAny(ok, observation) ==
  LET rounds == [i \in DOMAIN observation |-> JudgeRound(observation[i])]
      scores == Scores(rounds)
  IN  IF ok /\ scores # <<>> THEN [status |-> "OK", score |-> TwiceMedian(scores), rounds |-> rounds]
      ELSE IF ok THEN [status |-> "JUDGE_ERROR", score |-> NoScore, rounds |-> rounds]
      ELSE [status |-> "SKIPPED", score |-> NoScore, rounds |-> <<>>]

\* evaluate_sample: the first failed round names the failure; l0 comes first.
EvaluateSample(ok, observation) ==
  LET rounds == [i \in DOMAIN observation |-> JudgeRound(observation[i])]
  IN  IF ok THEN Judged(rounds, FailureStatus(Range(rounds[1])))
            ELSE [status |-> "SKIPPED", score |-> NoScore, rounds |-> <<>>]

\* replay_result: from the saved attempts alone; any attempt names the failure.
ReplayResult(result) ==
  IF result.rounds = <<>> THEN result
  ELSE Judged(result.rounds, FailureStatus(UNION {Range(round) : round \in Range(result.rounds)}))

-----------------------------------------------------------------------------
(* A run: summarize_results, and the two gates over two runs.               *)

ErrorStatuses == {"JUDGE_ERROR", "JUDGE_PARSE_ERROR", "JUDGE_TRUNCATED",
                  "INSUFFICIENT_JUDGE_EVIDENCE"}

Given(scores)     == SelectSeq(scores, LAMBDA x : x # NoScore)
ScoresOf(results) == Given([i \in DOMAIN results |-> results[i].score])
MedianOf(results) == TwiceMedian(ScoresOf(results))
Skips(results)    == Cardinality({i \in DOMAIN results : results[i].status = "SKIPPED"})
HasError(results) == \E i \in DOMAIN results : results[i].status \in ErrorStatuses

\* |delta| <= noise, noise the larger of two deviations, in scores times scale.
Within(delta, variances, scale) ==
  \E v \in variances : delta * delta * v.den <= scale * scale * v.num

Direction(delta) == IF delta > 0 THEN PASS ELSE FAIL

\* compare_baseline_candidate, the older gate: the noise is that of the samples.
CompareVerdict(base, cand) ==
  LET delta == MedianOf(cand) - MedianOf(base)
  IN  IF \/ HasError(base) \/ HasError(cand) \/ Skips(base) + Skips(cand) > 0
         \/ Within(delta, {Variance(ScoresOf(base)), Variance(ScoresOf(cand))}, 2)
        THEN INCONCLUSIVE ELSE Direction(delta)

\* gate_decide: every run of the loop has the same samples in the same order.
GateDecide(base, cand, noises) ==
  LET delta == MedianOf(cand) - MedianOf(base)
  IN  IF HasError(base) \/ HasError(cand) THEN INCONCLUSIVE
      ELSE IF Skips(cand) > Skips(base) THEN FAIL
      ELSE IF Within(delta, noises, 1) THEN INCONCLUSIVE ELSE Direction(delta)

-----------------------------------------------------------------------------
(* gate_calibration.py: generating and freezing plans.                      *)

\* Mutant: the latest row that passes l0.
BestRowLatest(rows, s) ==
  LET of == {i \in DOMAIN rows : rows[i].sample = s}
      ok == {i \in of : rows[i].ok}
  IN  IF ok # {} THEN Max(ok) ELSE Min(of)

\* Per sample the first row that passes l0, or the first row.
BestRow(rows, s) ==
  LET of == {i \in DOMAIN rows : rows[i].sample = s}
      ok == {i \in of : rows[i].ok}
  IN  IF ok # {} THEN Min(ok) ELSE Min(of)

Covered(rows)  == {rows[i].sample : i \in DOMAIN rows}
Passing(rows)  == {rows[i].sample : i \in {j \in DOMAIN rows : rows[j].ok}}

\* gen-candidates [--only-invalid]: what exists is read once, at the start.
StartGen(v, onlyInvalid) ==
  /\ command = Waiting /\ Len(raw[v]) < MaxRows[v]
  /\ v = "candidate" => plans["baseline"].state # "torn"
  /\ command' = [name |-> "gen", version |-> v, onlyInvalid |-> onlyInvalid, next |-> 1,
                 skip |-> IF onlyInvalid THEN Passing(raw[v]) ELSE {}]
  /\ UNCHANGED <<raw, plans, saved>>

\* The candidate stands for the one whose invalid plans fall back to the
\* baseline's frozen ones (candidate_good_v1).
Fallback(s) ==
  /\ command.onlyInvalid /\ command.version = "candidate"
  /\ s \in DOMAIN plans["baseline"].rows

NextSample == IF command.next < Len(Gold) THEN [command EXCEPT !.next = @ + 1] ELSE Waiting

SkipSample ==
  /\ command.name = "gen" /\ command.next \in command.skip
  /\ command' = NextSample
  /\ UNCHANGED <<raw, plans, saved>>

\* generate_plan may give up with a plan that does not pass l0.
GenerateRow(ok) ==
  /\ command.name = "gen" /\ command.next \notin command.skip
  /\ Fallback(command.next) => ok = raw["baseline"][plans["baseline"].rows[command.next]].ok
  /\ raw' = [raw EXCEPT ![command.version] = Append(@, [sample |-> command.next, ok |-> ok])]
  /\ command' = NextSample
  /\ UNCHANGED <<plans, saved>>

\* finalize-candidates [--force]: raises while a sample has no row, and when the
\* file exists unless forced; it is then truncated and written anew, so that a crash
\* leaves some whole lines of it, or a torn one that makes every reader raise.
Finalize(v, force) ==
  /\ command = Waiting
  /\ Covered(raw[v]) = Samples
  /\ plans[v] = NoPlans \/ force
  /\ LET best == [s \in Samples |-> BestRow(raw[v], s)]
     IN  \/ \E n \in 0 .. Len(Gold) :
              plans' = [plans EXCEPT ![v] = [state |-> "whole", rows |-> SubSeq(best, 1, n)]]
         \/ plans' = [plans EXCEPT ![v] = [state |-> "torn", rows |-> <<>>]]
  /\ UNCHANGED <<raw, command, saved>>

-----------------------------------------------------------------------------
(* run, and matrix.                                                         *)

\* The samples of the frozen file must be the data set's.  A command with fewer
\* repeats is one that died after as many.
StartRun(v) ==
  /\ command = Waiting
  /\ plans[v].state = "whole" /\ Len(plans[v].rows) = Len(Gold)
  /\ command' = [name |-> "run", version |-> v, rows |-> plans[v].rows,
                 repeat |-> 1]
  /\ UNCHANGED <<raw, plans, saved>>

\* One repeat and save_run: run.json, then results.jsonl; a crash may leave the
\* former without a readable latter.
SaveRun(observed) ==
  /\ command.name = "run" /\ Len(saved[command.version]) < MaxSaved
  /\ observed \in Observations[command.version]
  /\ LET ok(s) == raw[command.version][command.rows[s]].ok
         run   == [plans   |-> command.rows, repeat |-> command.repeat,
                   results |-> [s \in Samples |-> EvaluateSample(ok(s), observed[s])]]
     IN  \/ /\ saved' = [saved EXCEPT ![command.version] = Append(@, run)]
            /\ command' = IF command.repeat < MaxRepeats
                            THEN [command EXCEPT !.repeat = @ + 1] ELSE Waiting
         \/ /\ saved' = [saved EXCEPT ![command.version] = Append(@, Unreadable)]
            /\ command' = Waiting
  /\ UNCHANGED <<raw, plans>>

\* Any command under way dies, between two of its writes.
CommandDies ==
  /\ command # Waiting
  /\ command' = Waiting
  /\ UNCHANGED <<raw, plans, saved>>

\* Two runs with one repeat cannot be sorted: their results are dictionaries.
Sortable(v)  == \A i, j \in DOMAIN saved[v] : saved[v][i].repeat = saved[v][j].repeat => i = j
Repeat(v, i) == CHOOSE r \in Range(saved[v]) : r.repeat = i

\* runs_for reads every directory, of whatever version, so that one broken run
\* makes it raise; so does a run without any score.  The report is a new file
\* that nothing reads: matrix is what it would say of the runs saved so far.
CommonRepeats        == Min({Len(saved[v]) : v \in Version})
MatrixReports  ==
  /\ CommonRepeats > 0
  /\ \A v \in Version : Unreadable \notin Range(saved[v]) /\ Sortable(v)
  /\ \A v \in Version : \A i \in 1 .. CommonRepeats : ScoresOf(Repeat(v, i).results) # <<>>

Noises == {Variance([i \in 1 .. CommonRepeats |-> MedianOf(Repeat(v, i).results)]) : v \in Version}

-----------------------------------------------------------------------------
LoopInit ==
  /\ raw = [v \in Version |-> <<>>]
  /\ plans = [v \in Version |-> NoPlans]
  /\ command = Waiting
  /\ saved = [v \in Version |-> <<>>]

LoopNext ==
  \/ \E v \in Version, flag \in BOOLEAN : StartGen(v, flag) \/ Finalize(v, flag)
  \/ SkipSample \/ CommandDies
  \/ \E ok \in BOOLEAN : GenerateRow(ok)
  \/ \E v \in Version : StartRun(v)
  \/ \E observed \in UNION Range(Observations) : SaveRun(observed)

LoopSpec == LoopInit /\ [][LoopNext]_loopVars

-----------------------------------------------------------------------------
(* What the judge scored stays the same plan: however often a version is
   generated again, frozen again with --force or cut off in the middle, two runs
   of it that both scored a sample judged the same plan, although a run names no
   more than the version.  Only a sample without a plan that passes l0 changes.  *)
ScoredPlansAgree ==
  \A v \in Version : \A a, b \in Range(saved[v]) \ {Unreadable} : \A s \in Samples :
    "SKIPPED" \notin {a.results[s].status, b.results[s].status} => a.plans[s] = b.plans[s]

(* A verdict of the matrix can be had again from the evidence the runs keep: the
   repeats are compared one to one, all with the plans of one frozen file per
   version, and both gates say the same of the results replayed from the raw
   answers, although replay_result is another program than evaluate_sample.      *)
MatrixIsReproducible ==
  LET replayed(run) == [s \in Samples |-> ReplayResult(run.results[s])]
      before(i, v)  == Repeat(v, i).results
      after(i, v)   == replayed(Repeat(v, i))
  IN  MatrixReports => \A i \in 1 .. CommonRepeats :
        /\ \A v \in Version : \E run \in Range(saved[v]) : run.repeat = i
        /\ \A v \in Version : Repeat(v, i).plans = Repeat(v, 1).plans
        /\ GateDecide(before(i, "baseline"), before(i, "candidate"), Noises)
             = GateDecide(after(i, "baseline"), after(i, "candidate"), Noises)
        /\ CompareVerdict(before(i, "baseline"), before(i, "candidate"))
             = CompareVerdict(after(i, "baseline"), after(i, "candidate"))
=============================================================================
