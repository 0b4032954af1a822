---------------------------- MODULE MCEvaluation ----------------------------
(***************************************************************************)
(* Bounds for model checking the four evaluation programs.  They share     *)
(* vocabulary and no state, so one run takes them side by side: part says  *)
(* which of them this behaviour runs, and the others stand still.          *)
(***************************************************************************)
EXTENDS JudgeContract, ImprovementChain, PromotionGate, ControlPlane

CONSTANTS t1, t2        \* the tasks of the improvement chain

VARIABLE part

-----------------------------------------------------------------------------
(* JudgeContract: two records nothing can be held against, one of them       *)
(* without any call, and everything that is one field away from either.      *)

Plain(calls, texts) ==
  [outcome |-> "completed", hasTools |-> TRUE, hasResults |-> TRUE, calls |-> calls,
   attempts |-> <<"interrupted", "completed">>,
   refs |-> {"replay", "identity", "initiator", "owner"}, context |-> "EXACT", lossy |-> FALSE,
   steps |-> "COMPLETED", terminal |-> "holds", texts |-> texts, effects |-> "clean"]

ReadCall(answer)  == [tool |-> "read", answer |-> answer]
WriteCall(answer) == [tool |-> "write", answer |-> answer]

Basis == {Plain(<<ReadCall("ok"), WriteCall("ok")>>, << {"required"} >>),
          Plain(<<>>, << {"alternative"}, {"near"} >>)}

Unanswered(r) == [i \in DOMAIN r.calls |-> [r.calls[i] EXCEPT !.answer = "none"]]

Near(r) ==
  {r}
  \cup {[r EXCEPT !.outcome = o] : o \in Outcome}
  \cup {[r EXCEPT !.calls = <<ReadCall(a), WriteCall("ok")>>] : a \in Answer}
  \cup {[r EXCEPT !.calls = c] : c \in {<<WriteCall("ok"), ReadCall("ok")>>,
          <<ReadCall("error"), ReadCall("ok")>>, <<ReadCall("ok"), ReadCall("ok"), WriteCall("ok")>>}}
  \cup {[r EXCEPT !.hasTools = FALSE, !.calls = <<>>],
        [r EXCEPT !.hasResults = FALSE, !.calls = Unanswered(r)],
        [r EXCEPT !.refs = {"replay", "identity"}], [r EXCEPT !.refs = {"initiator", "owner"}],
        [r EXCEPT !.lossy = TRUE], [r EXCEPT !.steps = "FAILED"]}
  \cup {[r EXCEPT !.attempts = <<a, "completed">>] : a \in EndKind}
  \cup {[r EXCEPT !.attempts = <<>>]}
  \cup {[r EXCEPT !.context = c] : c \in {"absent", "PARTIAL"}}
  \cup {[r EXCEPT !.terminal = x] : x \in {"fails", "raises"}}
  \cup {[r EXCEPT !.effects = e] : e \in {"absent", "forbidden"}}
  \cup {[r EXCEPT !.texts = x] : x \in {<<>>, << {} >>, << {"claim"} >>, << {"far"} >>,
          << {"near", "far"} >>, << {"required", "forbidden"} >>, << {"required"}, {"forbidden"} >>}}

RecordsVal == UNION {Near(r) : r \in Basis}

TasksVal == {[required |-> <<>>, forbidden |-> {}, terminal |-> TRUE],
             [required |-> <<"read", "write">>, forbidden |-> {"delete"}, terminal |-> FALSE]}

AnyCalls == [required |-> {}, forbidden |-> {}, order |-> <<>>, badOrder |-> <<>>,
             maxCalls |-> NoLimit, limits |-> {}, conditions |-> {}, effects |-> FALSE,
             evidence |-> {}]

OraclesVal ==
  {[AnyCalls EXCEPT !.conditions = {"required", "alternative", "tolerance", "forbidden"},
                    !.evidence = {"FINAL_MESSAGE", "SEMANTICS"}, !.effects = TRUE],
   [AnyCalls EXCEPT !.required = {"read"}, !.order = <<"read", "write">>, !.maxCalls = 2,
                    !.evidence = {"TOOL_CALLS", "TOOL_RESULTS"}],
   [AnyCalls EXCEPT !.forbidden = {"write"}, !.badOrder = <<"write", "read">>,
                    !.limits = {[tool |-> "read", min |-> 0, max |-> 1]},
                    !.conditions = {"required"}]}

PayloadsVal == [malformed: {FALSE}, status: Status, confidence: Confidence,
                finding: {"absent", "unsupported"} \cup Status]
               \cup {[malformed |-> TRUE, status |-> PASS, confidence |-> "HIGH", finding |-> PASS],
                     [malformed |-> FALSE, status |-> "OTHER", confidence |-> "HIGH",
                      finding |-> "absent"]}

-----------------------------------------------------------------------------
(* ImprovementChain.                                                        *)

GradesVal == {[status |-> PASS, quality |-> "EXACT"], [status |-> FAIL, quality |-> "EXACT"],
              [status |-> INCONCLUSIVE, quality |-> "PARTIAL"],
              [status |-> PASS, quality |-> "LOSSY"]}

-----------------------------------------------------------------------------
(* PromotionGate: one case the candidate mends and one that fell under      *)
(* suspicion, a round each.                                                 *)

CaseOrderVal    == <<"mended", "suspect">>
StratumVal      == [mended |-> "target", suspect |-> "suspicious"]
RoundsVal       == [mended |-> 1, suspect |-> 1]
SuspectOrderVal == <<"suspect">>
HistoryVal      == [suspect |-> [baseline |-> {PASS}, candidate |-> {INCONCLUSIVE}]]

-----------------------------------------------------------------------------
(* ControlPlane: two rounds of two answers for each sample; a low and a     *)
(* high score, both after a retry, no score, and too few of them.           *)

Valid(n) == [kind |-> "valid", score |-> n]
Useless(k)   == [kind |-> k, score |-> 0]

Low    == << <<Valid(3), Valid(3)>>, <<Useless("no_score"), Valid(4)>> >>
High   == << <<Useless("empty"), Valid(9)>>, <<Valid(9), Valid(9)>> >>
NoneAt == << <<Useless("truncated"), Useless("truncated")>>, <<Useless("raises"), Useless("no_json")>> >>
TooFew == << <<Valid(9), Valid(9)>>, <<Useless("invalid_score"), Useless("empty")>> >>

GoldVal         == <<"first", "second">>
ObservationsVal == [baseline  |-> {<<Low, Low>>, <<High, High>>},
                    candidate |-> {<<Low, High>>, <<NoneAt, TooFew>>}]
MaxRowsVal      == [baseline |-> 1, candidate |-> 3]

-----------------------------------------------------------------------------
Parts == {"judge", "chain", "gate", "loop"}

MCInit ==
  /\ part \in Parts
  /\ JudgeInit /\ (part # "judge" => subject = CHOOSE s \in [rec: Basis, task: Tasks, oracle: Oracles] : TRUE)
  /\ ChainInit /\ GateInit /\ LoopInit

MCNext ==
  \/ part = "judge" /\ JudgeNext /\ UNCHANGED <<part, chainVars, gateVars, loopVars>>
  \/ part = "chain" /\ ChainNext /\ UNCHANGED <<part, judgeVars, gateVars, loopVars>>
  \/ part = "gate"  /\ GateNext  /\ UNCHANGED <<part, judgeVars, chainVars, loopVars>>
  \/ part = "loop"  /\ LoopNext  /\ UNCHANGED <<part, judgeVars, chainVars, gateVars>>

MCSpec == MCInit /\ [][MCNext]_<<part, judgeVars, chainVars, gateVars, loopVars>>
=============================================================================
