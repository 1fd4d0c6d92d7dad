----------------------------- MODULE MCAdmission -----------------------------
(* Admission for model checking: two nodes of run a and one of run b. *)
EXTENDS Admission

CONSTANTS a1, a2, b1, a, b
RunOfNode == [n \in Nodes |-> IF n = b1 THEN b ELSE a]

\* a1 is retried.
AttemptsOfNode == [n \in Nodes |-> IF n = a1 THEN 2 ELSE 1]
==============================================================================
