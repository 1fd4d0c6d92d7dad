-------------------------- MODULE ActivityContract --------------------------
(***************************************************************************)
(* What one durable node call promises to the workflow that awaits it,     *)
(* whatever happens to the workers: it is open until it closes once, it    *)
(* closes as completed only with the result of an execution that really    *)
(* performed the node's effect, and a closed call never changes.  How many *)
(* executions perform the effect is left open: NodeExecution shows what    *)
(* the worker and the inbox guard add to that.                             *)
(***************************************************************************)
EXTENDS Naturals

CONSTANT Attempts      \* identities of the executions; 0 is none of them

VARIABLES outcome,     \* what the awaiting workflow sees
          delivered,   \* the execution whose result it received, or 0
          fired        \* the executions that performed the effect

vars == <<outcome, delivered, fired>>

Init ==
  /\ outcome = "open"
  /\ delivered = 0
  /\ fired = {}

\* An execution performs the effect; even one nobody waits for any more.
Perform(a) ==
  /\ fired' = fired \cup {a}
  /\ UNCHANGED <<outcome, delivered>>

\* The call completes with the result of an execution that performed it.
Deliver(a) ==
  /\ outcome = "open"
  /\ a \in fired
  /\ outcome' = "completed"
  /\ delivered' = a
  /\ UNCHANGED fired

\* The call is given up.
GiveUp ==
  /\ outcome = "open"
  /\ outcome' = "failed"
  /\ UNCHANGED <<delivered, fired>>

Next == GiveUp \/ \E a \in Attempts : Perform(a) \/ Deliver(a)

Spec == Init /\ [][Next]_vars
=============================================================================
