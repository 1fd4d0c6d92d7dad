----------------------------- MODULE MCFairShare -----------------------------
(* FairShare for model checking: two heavy tenants and a light one. *)
EXTENDS FairShare

CONSTANTS heavy, light, other

\* Three tenants, weights 2, 2 and 1.
StepThree == [t \in {heavy, light, other} |-> IF t = light THEN 2 ELSE 1]
==============================================================================
