----------------------------- MODULE Verdicts -----------------------------
(***************************************************************************)
(* The three verdicts the evaluation prototypes share (models.py).         *)
(***************************************************************************)
PASS         == "PASS"
FAIL         == "FAIL"
INCONCLUSIVE == "INCONCLUSIVE"
Status       == {PASS, FAIL, INCONCLUSIVE}

Graded(fails, unknown) == IF fails THEN FAIL ELSE IF unknown THEN INCONCLUSIVE ELSE PASS

\* FAIL beats INCONCLUSIVE beats PASS, over a set of verdicts: evaluate, and
\* _overall_status of the judges.
Worst(verdicts) == Graded(FAIL \in verdicts, INCONCLUSIVE \in verdicts)
=============================================================================
