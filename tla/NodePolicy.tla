----------------------------- MODULE NodePolicy -----------------------------
(***************************************************************************)
(* How a node call is dispatched: the table of node classes, the overrides *)
(* of a call, and the time left on the run's deadline (resolve_policy), in *)
(* seconds.  A pure function, as every replay has to find the same.        *)
(***************************************************************************)
EXTENDS Integers

Smaller(x, y) == IF x <= y THEN x ELSE y
Larger(x, y) == IF x >= y THEN x ELSE y

Class(queue, timeout, heartbeat, initial, maximum, attempts) ==
  [queue |-> queue, priority |-> 3, timeout |-> timeout, heartbeat |-> heartbeat,
   initial |-> initial, coefficient |-> 2, maximum |-> maximum, attempts |-> attempts]

Table ==
  [llm      |-> Class("cpu", 60, 6, 2, 120, 6),
   http     |-> Class("io", 60, 6, 1, 30, 4),
   database |-> Class("io", 120, 6, 1, 15, 3),
   python   |-> Class("cpu", 600, 30, 1, 10, 2),
   approval |-> Class("io", 10, 0, 1, 60, 1)]
Generic == Class("cpu", 60, 6, 1, 60, 3)

Base(type) == IF type \in DOMAIN Table THEN Table[type] ELSE Generic

\* Mutant of Resolve: the deadline bounds each attempt, not the call.
ResolveEachAttempt(type, over, bounded, remaining) ==
  LET base == Base(type)
      Given(f) == IF f \in DOMAIN over THEN over[f] ELSE base[f]
      Nonzero(f) == IF Given(f) # 0 THEN Given(f) ELSE base[f]
      left == Larger(remaining, 0)
  IN [queue |-> Given("queue"), priority |-> Nonzero("priority"),
      start_to_close |-> IF bounded THEN Smaller(Nonzero("timeout"), Larger(left, 1))
                         ELSE Nonzero("timeout"),
      schedule_to_close |-> 0,
      heartbeat |-> Nonzero("heartbeat"),
      initial |-> Given("initial"), coefficient |-> Given("coefficient"),
      maximum |-> Given("maximum"), attempts |-> Given("attempts")]

\* An override of zero counts as none for priority, timeout and heartbeat
\* ("or") and as zero for the fields of the retry policy.  In what is resolved,
\* 0 attempts is no limit and a schedule_to_close or heartbeat of 0 is none.
Resolve(type, over, bounded, remaining) ==
  LET base == Base(type)
      Given(f) == IF f \in DOMAIN over THEN over[f] ELSE base[f]
      Nonzero(f) == IF Given(f) # 0 THEN Given(f) ELSE base[f]
      left == Larger(remaining, 0)
  IN [queue |-> Given("queue"), priority |-> Nonzero("priority"),
      start_to_close |-> IF bounded THEN Smaller(Nonzero("timeout"), Larger(left, 1))
                         ELSE Nonzero("timeout"),
      schedule_to_close |-> IF bounded THEN left ELSE 0,
      heartbeat |-> Nonzero("heartbeat"),
      initial |-> Given("initial"), coefficient |-> Given("coefficient"),
      maximum |-> Given("maximum"), attempts |-> Given("attempts")]

\* Temporal's wait before the attempt after this one.
Backoff(policy, attempt) ==
  Smaller(policy.initial * policy.coefficient ^ (attempt - 1), policy.maximum)
=============================================================================
