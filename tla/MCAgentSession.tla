---------------------------- MODULE MCAgentSession ----------------------------
(***************************************************************************)
(* The sessions TLC explores.  Crashing: the backend runs the tools, two   *)
(* for a message, the surface is compacted, model requests fail, and the   *)
(* process dies.  CrashingTwice: it dies again, also during the repair, and *)
(* the backend reports tools that fail or are not registered.  Cancelling: *)
(* the runtime runs the tools, tools and callbacks fail, tools are not     *)
(* registered or add contexts, results are pruned, and the task of one     *)
(* turn is cancelled.                                                      *)
(***************************************************************************)
EXTENDS AgentSession

Crashing ==
    [delegates |-> TRUE, compacts |-> TRUE, faults |-> {"model_error"},
     turns |-> 2, steps |-> 2, calls |-> 2, crashes |-> 1, cancels |-> 0,
     prunes |-> 0, compactions |-> 1]

CrashingTwice ==
    [Crashing EXCEPT !.calls = 1, !.crashes = 2,
                     !.faults = {"unknown_tool", "tool_error", "callback_error"}]

Cancelling ==
    [delegates |-> FALSE, compacts |-> FALSE,
     faults |-> {"tool_error", "callback_error", "unknown_tool", "context"},
     turns |-> 3, steps |-> 2, calls |-> 1, crashes |-> 0, cancels |-> 1,
     prunes |-> 1, compactions |-> 0]

Every == {Crashing, CrashingTwice, Cancelling}
=============================================================================
