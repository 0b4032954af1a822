-------------------------- MODULE MCPilotPipeline --------------------------
(* Bounds for PilotPipeline: one task of a kind, two candidate ids. *)
EXTENDS PilotPipeline

Rehearsal == <<<<"formation", "b2">>, <<"formation", "b3">>, <<"generation", "-">>,
               <<"b2-freeze", "-">>, <<"b3-build", "-">>, <<"future", "b2">>,
               <<"future", "b3">>, <<"cost", "-">>>>

One(name, arm, force) == [phases |-> <<<<name, arm>>>>, force |-> force]

\* The rehearsal, the phases that need no other, and the forced rebuild.
Operator == {[phases |-> Rehearsal, force |-> FALSE], One("b3-build", "-", TRUE),
             One("b2-freeze", "-", TRUE), One("future", "b2", FALSE), One("future", "b3", FALSE), One("cost", "-", FALSE)}

\* The assumptions of the theorems hold of these commands.
ASSUME OperatorAssumption == OperatorTyped /\ OperatorInOrder /\ RunsNotForced

OneTask == <<"t1">>
FutureOne == <<"u1">>
=============================================================================
