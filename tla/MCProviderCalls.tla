-------------------------- MODULE MCProviderCalls --------------------------
(***************************************************************************)
(* ProviderCalls on one call of each kind, with the table's policy or one  *)
(* small enough for its timers to fire before the horizon.                 *)
(***************************************************************************)
EXTENDS ProviderCalls, TLC

Plain == [bounded |-> FALSE, deadline |-> 0, others |-> {}, late |-> {1}, faults |-> 1]
Short == [timeout |-> 2, heartbeat |-> 1, initial |-> 1]

Failing == {"busy", "unreachable"}
Answers == Events \ {"garbled"}

MCCalls ==
  { \* the table's llm policy, a fallback that answers, a shared bucket
    [type |-> "llm", over |-> [attempts |-> 0], chain |-> <<Failing, {"fine"}>>,
     rated |-> {1}, others |-> {3}, late |-> {3}] @@ Plain,
    \* a fallback that fails as well
    [type |-> "llm", over |-> Short, chain |-> <<Failing, Failing, {"fine", "busy"}>>,
     rated |-> {1, 2}, faults |-> 2] @@ Plain,
    \* the request itself is bad, and the chain is cut short by a deadline
    [type |-> "llm", over |-> Short, chain |-> <<Events, Events>>,
     rated |-> {}, bounded |-> TRUE, deadline |-> 3] @@ Plain,
    \* a host with a rate and a deadline
    [type |-> "http", over |-> Short, chain |-> <<Answers>>,
     rated |-> {1}, others |-> {3}, late |-> {1, 3}, bounded |-> TRUE, deadline |-> 3] @@ Plain,
    \* the deadline is over when the call is dispatched
    [type |-> "database", over |-> [timeout |-> 0, heartbeat |-> 0], chain |-> <<Answers>>,
     rated |-> {}, bounded |-> TRUE, deadline |-> -1] @@ Plain,
    \* the table's policies
    [type |-> "database", over |-> <<>>, chain |-> <<Answers>>, rated |-> {}] @@ Plain,
    [type |-> "python", over |-> <<>>, chain |-> <<Answers>>, rated |-> {}] @@ Plain }
=============================================================================
