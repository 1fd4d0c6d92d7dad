------------------------------ MODULE Workflows ------------------------------
(***************************************************************************)
(* The example workflows as plans.  A plan is what run() of each class     *)
(* does with the SDK, step by step:                                        *)
(*   call  schedules so many activities together and waits for all,        *)
(*   gate  is self.approval: open activity, durable wait, close activity,  *)
(*   wait  is a bare wait_condition on a signal.                           *)
(* A step is taken when the answer of the last gate is among its "when".   *)
(***************************************************************************)
EXTENDS Sequences

Answers == {"none", "approved", "rejected", "expired"}

Step(do, calls, gate, expires) ==
  [do |-> do, calls |-> calls, gate |-> gate, expires |-> expires, when |-> Answers]
Call(n) == Step("call", n, "", FALSE)
Gate(gate, expires) == Step("gate", 0, gate, expires)
Wait(signal) == Step("wait", 0, signal, FALSE)
Only(answer, step) == [step EXCEPT !.when = {answer}]

\* Three greetings, one after the other.
Hello == <<Call(1), Call(1), Call(1)>>

\* A greeting on each side of a wait for the signal "approve".
Gated == <<Call(1), Wait("approve"), Call(1)>>

\* One asynchronous compute activity.
Pipeline == <<Call(1)>>

\* search, n summaries in parallel, synthesize, approve, and publish unless
\* the report was rejected or there is nowhere to publish it.
ResearchAgent(n, publishes) ==
  <<Call(1), Call(n), Call(1), Gate("publish", FALSE)>>
  \o (IF publishes THEN <<Only("approved", Call(1))>> ELSE <<>>)

\* ingest, process, export.
DurabilityDemo == <<Call(1), Call(1), Call(1)>>

\* A gate that expires, and then escalates.
HumanGate == <<Gate("release", TRUE), Only("expired", Call(1))>>
==============================================================================
