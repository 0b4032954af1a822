-------------------------- MODULE MCCapabilityKernel --------------------------
(***************************************************************************)
(* Capabilities for TLC: a and x share the provider b.  One caller alone   *)
(* sees later generations too; two callers overlap on the first ones.      *)
(***************************************************************************)
EXTENDS CapabilityKernel

Shared == [i \in {"a", "x", "b"} |-> IF i = "b" THEN <<>> ELSE <<"b">>]

Bounds == <<7, 2>>
=============================================================================
