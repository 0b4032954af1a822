--------------------------- MODULE PromotionGate ---------------------------
(***************************************************************************)
(* The command line that decides whether the candidate judge prompt        *)
(* replaces the baseline (provider_probe.py).  Two campaigns ask a live    *)
(* provider about the same cases with both prompts, round by round: E.6    *)
(* asks whether an anomaly seen before is the candidate's doing, E.7       *)
(* whether the candidate is good enough under a policy that was written    *)
(* down beforehand.  A campaign keeps its rows in memory and writes them   *)
(* when it ends, then the summary its gate is; both may be made again from *)
(* the rows, by a later command.  One operator runs one command at a time. *)
(*                                                                         *)
(* A row is the outcome that counts of one round of one arm, after its     *)
(* replacements: a verdict, INVALID_OUTPUT, or a failure that is no answer *)
(* of the contract (a transport error, or the ValueError of a result that  *)
(* contradicts itself).  Rows come in the order of the schedule, so that a *)
(* file of rows is a prefix of what the campaign obtained.                 *)
(***************************************************************************)
EXTENDS Verdicts, Integers, Sequences, FiniteSets, SequencesExt

CONSTANTS CaseOrder,        \* E.7: the cases, in the order of the schedule
          Stratum,          \* E.7: what each case is there for
          Rounds,           \* E.7: rounds per arm of each case (10 or 5 in the code)
          SuspectOrder,     \* E.6: the cases with the anomaly
          Repeats,          \* E.6: rounds per arm (5 by default)
          History,          \* E.6: the verdicts the E.5 rows have of each case and arm
          MaxReplacements,  \* attempts after the first of a round (2 in the code)
          ZSquared,         \* 100 times the square of the policy's z (384 in the code)
          MaxCampaigns      \* bound: campaigns of each kind that are started

VARIABLES policy,           \* promotion_policy() of the code, and promotion-policy.json
          campaign,         \* the campaign under way: its phase, rows and attempts
          rowsFile,         \* attribution-runs.jsonl and promotion-runs.jsonl
          attribution,      \* attribution-matrix.json
          gate,             \* promotion-gate.json
          started           \* campaigns of each kind started so far

gateVars == <<policy, campaign, rowsFile, attribution, gate, started>>

Cases == {CaseOrder[k] : k \in DOMAIN CaseOrder}

\* The code's tuples of case ids name no case twice and its policy asks rounds of
\* each; --repeats, which the code does not check, is taken to be at least one.
ASSUME GateAssumption ==
  /\ CaseOrder \in Seq(Cases) /\ SuspectOrder \in Seq(Range(SuspectOrder))
  /\ \A i, j \in DOMAIN CaseOrder : CaseOrder[i] = CaseOrder[j] => i = j
  /\ \A i, j \in DOMAIN SuspectOrder : SuspectOrder[i] = SuspectOrder[j] => i = j
  /\ Rounds \in [Cases -> Nat \ {0}] /\ Repeats \in Nat \ {0}

Arm      == {"baseline", "candidate"}
Strata   == {"target", "suspicious", "stable", "critical"}
Rejects  == {"INVALID_OUTPUT", "NO_ANSWER"}
Outcomes == Status \cup Rejects
Kinds    == {"e6", "e7"}

Idle    == [phase |-> "idle", kind |-> "none", rows |-> <<>>, tries |-> 0]
NoFile  == [state |-> "absent", rows |-> <<>>]
Missing == [decision |-> "MISSING", rows |-> <<>>, repeats |-> 0]
NoGate  == [decision |-> "MISSING", rows |-> <<>>, e6 |-> Missing, frozen |-> FALSE]

\* Odd rounds ask the baseline first, even rounds the candidate.
OfCase(c, rounds) ==
  [j \in 1 .. 2 * rounds |-> [case  |-> c,
                              round |-> (j + 1) \div 2,
                              arm   |-> IF j % 4 \in {0, 1} THEN "baseline" ELSE "candidate"]]

\* A round of every arm of every case, in the order they are asked.
Schedule(order, rounds) ==
  FlattenSeq([k \in DOMAIN order |-> OfCase(order[k], rounds[order[k]])])

Slots == [e6 |-> Schedule(SuspectOrder, [c \in Range(SuspectOrder) |-> Repeats]),
          e7 |-> Schedule(CaseOrder, Rounds)]

AskedAt(kind, c, arm, i) == Slots[kind][i].case = c /\ Slots[kind][i].arm = arm

\* How many rows of a case and an arm have an outcome in the set.
Count(kind, rows, c, arm, outcomes) ==
  Cardinality({i \in DOMAIN rows : AskedAt(kind, c, arm, i) /\ rows[i] \in outcomes})

Seen(rows, c, arm) ==
  {rows[i] : i \in {j \in DOMAIN rows : AskedAt("e6", c, arm, j)}} \cap Status

Known(rows, c, arm) == Seen(rows, c, arm) \cup History[c][arm]

-----------------------------------------------------------------------------
(* E.6: who is to blame for an anomaly (classify_attribution).              *)

\* Mutant: the rounds without a verdict are not missed.
AttributionOfSeen(c, rows, repeats) ==
  IF Known(rows, c, "baseline") # {PASS} THEN "BASELINE_INSTABILITY"
  ELSE IF Known(rows, c, "candidate") = {INCONCLUSIVE} THEN "CANDIDATE_REGRESSION"
  ELSE "PROVIDER_NONDETERMINISM"

Attribution(c, rows, repeats) ==
  IF \E arm \in Arm : Count("e6", rows, c, arm, Status) < repeats THEN "INSUFFICIENT_EVIDENCE"
  ELSE IF Known(rows, c, "baseline") # {PASS} THEN "BASELINE_INSTABILITY"
  ELSE IF Known(rows, c, "candidate") = {INCONCLUSIVE} THEN "CANDIDATE_REGRESSION"
  ELSE "PROVIDER_NONDETERMINISM"

AttributionGate(rows, repeats) ==
  LET found == {Attribution(SuspectOrder[k], rows, repeats) : k \in DOMAIN SuspectOrder}
  IN  [rows |-> rows, repeats |-> repeats,
       decision |-> IF "CANDIDATE_REGRESSION" \in found THEN "REGRESSION_CONFIRMED"
                    ELSE IF "INSUFFICIENT_EVIDENCE" \in found THEN "INSUFFICIENT_EVIDENCE"
                    ELSE "REGRESSION_SAFETY_CONFIRMED"]

-----------------------------------------------------------------------------
(* E.7: the arm summaries, the pre-registered rules and the gate.           *)

Contract(rows, c, arm) == Count("e7", rows, c, arm, Status \cup {"INVALID_OUTPUT"})
Sufficiently(rows, c, arm) == Contract(rows, c, arm) >= Rounds[c]

\* A round without an answer also leaves the sample short, so the bound on
\* such rounds (one or two per arm) never decides anything by itself.
Success(c) == CASE Stratum[c] = "target" -> INCONCLUSIVE
                [] Stratum[c] = "critical" -> FAIL
                [] OTHER -> PASS

\* In tenths: candidate success rate minus baseline success rate.
DeltaAtLeast(rows, c, tenths) ==
  LET n(arm) == Contract(rows, c, arm)
      k(arm) == Count("e7", rows, c, arm, {Success(c)})
  IN  /\ n("baseline") > 0 /\ n("candidate") > 0
      /\ 10 * (k("candidate") * n("baseline") - k("baseline") * n("candidate"))
           >= tenths * n("baseline") * n("candidate")

\* Wilson's lower bound is at least one half (wilson_interval solved for it).
LikelyAtLeastHalf(k, n) == n > 0 /\ 2 * k >= n /\ 100 * (2 * k - n) * (2 * k - n) >= ZSquared * n

RateRules(rows, c) ==
  LET n           == Rounds[c]
      has(arm, o) == Count("e7", rows, c, arm, {o})
      fixed(s)    == LikelyAtLeastHalf(has("candidate", s), Contract(rows, c, "candidate"))
  IN  CASE Stratum[c] = "target" ->
             /\ 10 * has("baseline", INCONCLUSIVE) <= 2 * n
             /\ 10 * has("baseline", "INVALID_OUTPUT") >= 5 * n
             /\ 10 * has("candidate", INCONCLUSIVE) >= 8 * n /\ fixed(INCONCLUSIVE)
             /\ has("candidate", "INVALID_OUTPUT") = 0
             /\ DeltaAtLeast(rows, c, 5)
        [] Stratum[c] = "suspicious" ->
             /\ 10 * has("baseline", PASS) >= 8 * n
             /\ 10 * has("candidate", PASS) >= 9 * n /\ fixed(PASS)
             /\ 10 * has("candidate", INCONCLUSIVE) <= n
             /\ has("candidate", FAIL) = 0
             /\ DeltaAtLeast(rows, c, -1)
        [] Stratum[c] = "stable" ->
             /\ 10 * has("baseline", PASS) >= 8 * n /\ 10 * has("candidate", PASS) >= 8 * n
             /\ has("candidate", FAIL) = 0
             /\ DeltaAtLeast(rows, c, -2)
        [] Stratum[c] = "critical" ->
             /\ 10 * has("baseline", FAIL) >= 8 * n /\ 10 * has("candidate", FAIL) >= 8 * n
             /\ has("candidate", PASS) = 0
             /\ DeltaAtLeast(rows, c, -2)

\* What rejects the candidate whatever the rules say (evaluate_promotion_gate).
Regresses(rows, c) ==
  LET has(o) == Count("e7", rows, c, "candidate", {o})
  IN  CASE Stratum[c] = "target" -> \/ has("INVALID_OUTPUT") > 0
                                    \/ 10 * has(INCONCLUSIVE) < 5 * Rounds[c]
        [] Stratum[c] = "critical" -> has(PASS) > 0
        [] OTHER -> has(FAIL) > 0

Frozen == policy.file = policy.code

GateDecision(rows, e6, frozen) ==
  IF ~frozen \/ e6.decision # "REGRESSION_SAFETY_CONFIRMED" \/ \E c \in Cases : Regresses(rows, c)
    THEN "REJECT"
  ELSE IF \E c \in Cases : \/ \E arm \in Arm : ~Sufficiently(rows, c, arm)
                           \/ ~RateRules(rows, c)
    THEN "HOLD" ELSE "PROMOTE"

EvaluateGate(rows) ==
  [decision |-> GateDecision(rows, attribution, Frozen),
   rows |-> rows, e6 |-> attribution, frozen |-> Frozen]

-----------------------------------------------------------------------------
GateInit ==
  /\ policy = [code |-> 1, file |-> 0]
  /\ campaign = Idle
  /\ rowsFile = [kind \in Kinds |-> NoFile]
  /\ attribution = Missing
  /\ gate = NoGate
  /\ started = [kind \in Kinds |-> 0]

\* The policy is code: it may be edited between two commands.
EditPolicy ==
  /\ campaign = Idle /\ policy.code = 1
  /\ policy' = [policy EXCEPT !.code = 2]
  /\ UNCHANGED <<campaign, rowsFile, attribution, gate, started>>

WritePolicy ==
  /\ campaign = Idle /\ ~Frozen
  /\ policy' = [policy EXCEPT !.file = policy.code]
  /\ UNCHANGED <<campaign, rowsFile, attribution, gate, started>>

\* --regression-attribution, --promotion-gate: only the latter needs the policy.
Start(kind) ==
  /\ campaign = Idle /\ started[kind] < MaxCampaigns
  /\ kind = "e7" => Frozen
  /\ campaign' = [Idle EXCEPT !.phase = "asking", !.kind = kind]
  /\ started' = [started EXCEPT ![kind] = @ + 1]
  /\ UNCHANGED <<policy, rowsFile, attribution, gate>>

\* One attempt: accepted, or rejected and replaced, or the last of its round.
Ask(o) ==
  /\ campaign.phase = "asking" /\ Len(campaign.rows) < Len(Slots[campaign.kind])
  /\ campaign' = IF o \in Rejects /\ campaign.tries < MaxReplacements
                   THEN [campaign EXCEPT !.tries = @ + 1]
                   ELSE [campaign EXCEPT !.rows = Append(@, o), !.tries = 0]
  /\ UNCHANGED <<policy, rowsFile, attribution, gate, started>>

WriteRows ==
  /\ campaign.phase = "asking" /\ Len(campaign.rows) = Len(Slots[campaign.kind])
  /\ rowsFile' = [rowsFile EXCEPT ![campaign.kind] = [state |-> "whole", rows |-> campaign.rows]]
  /\ campaign' = [campaign EXCEPT !.phase = "judging"]
  /\ UNCHANGED <<policy, attribution, gate, started>>

\* The summary is written from the rows in memory, and the campaign is over.
WriteSummary ==
  /\ campaign.phase = "judging"
  /\ campaign' = Idle
  /\ IF campaign.kind = "e6"
       THEN attribution' = AttributionGate(campaign.rows, Repeats) /\ UNCHANGED gate
       ELSE gate' = EvaluateGate(campaign.rows) /\ UNCHANGED attribution
  /\ UNCHANGED <<policy, rowsFile, started>>

\* --summarize-attribution takes the number of repeats anew, and reads whatever
\* whole lines the file has.
SummarizeAttribution(repeats) ==
  /\ campaign = Idle /\ rowsFile["e6"].state = "whole"
  /\ attribution' = AttributionGate(rowsFile["e6"].rows, repeats)
  /\ UNCHANGED <<policy, campaign, rowsFile, gate, started>>

SummarizeGate ==
  /\ campaign = Idle /\ rowsFile["e7"].state = "whole"
  /\ gate' = EvaluateGate(rowsFile["e7"].rows)
  /\ UNCHANGED <<policy, campaign, rowsFile, attribution, started>>

\* A crash, or an exception _run_probe does not catch: the rows in memory are
\* lost; while they are written the file is left with some of them, the last
\* line perhaps torn, which no later command can read.
Crash ==
  /\ campaign.phase # "idle"
  /\ campaign' = Idle
  /\ \/ UNCHANGED rowsFile
     \/ /\ campaign.phase = "asking" /\ Len(campaign.rows) = Len(Slots[campaign.kind])
        /\ \E n \in 0 .. Len(campaign.rows) - 1, state \in {"whole", "torn"} :
             rowsFile' = [rowsFile EXCEPT ![campaign.kind] =
                            [state |-> state, rows |-> SubSeq(campaign.rows, 1, n)]]
  /\ UNCHANGED <<policy, attribution, gate, started>>

GateNext ==
  \/ EditPolicy \/ WritePolicy \/ WriteRows \/ WriteSummary \/ SummarizeGate \/ Crash
  \/ \E kind \in Kinds : Start(kind)
  \/ \E o \in Outcomes : Ask(o)
  \/ \E repeats \in 1 .. Repeats : SummarizeAttribution(repeats)

GateSpec == GateInit /\ [][GateNext]_gateVars

-----------------------------------------------------------------------------
(* PROMOTE is never written from less than the whole campaign: every round of
   every case and arm of the E.7 schedule has an answer, whatever crashed, was
   truncated or was summarised again, and E.6, as the gate read it, has both
   arms of every suspect case too and does not lay the anomaly at the
   candidate's door.                                                           *)
PromoteIsEarned ==
  gate.decision = "PROMOTE" =>
    /\ gate.frozen
    /\ Len(gate.rows) = Len(Slots["e7"])
    /\ "NO_ANSWER" \notin Range(gate.rows)
    /\ \A k \in DOMAIN SuspectOrder :
         /\ \A arm \in Arm : Seen(gate.e6.rows, SuspectOrder[k], arm) # {}
         /\ ~ ( /\ Known(gate.e6.rows, SuspectOrder[k], "baseline") = {PASS}
                /\ Known(gate.e6.rows, SuspectOrder[k], "candidate") = {INCONCLUSIVE} )
    /\ \A i \in DOMAIN gate.rows : LET s == Slots["e7"][i] IN
         s.arm = "candidate" =>
           gate.rows[i] # (IF Stratum[s.case] = "critical" THEN PASS ELSE FAIL)
                \/ Stratum[s.case] = "target"
=============================================================================
