-------------------------- MODULE MCManagedRuntime --------------------------
(***************************************************************************)
(* Bounds for model checking ManagedRuntime.                               *)
(***************************************************************************)
EXTENDS ManagedRuntime

\* Concurrent callers can overwrite attempt_count with an older value, so only
\* one caller bounds the number of starts by itself.
MaxStarts == StartMaxAttempts + 1

StartsCapped == \A i \in InstanceId : starts[i] <= MaxStarts

MCNext == Next /\ StartsCapped'

MCSpec == Init /\ [][MCNext]_vars

MCFairSpec ==
    MCSpec /\ \A p \in Caller : WF_vars(Steps(p) /\ StartsCapped')
=============================================================================
