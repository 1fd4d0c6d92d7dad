------------------------------ MODULE Admission ------------------------------
(***************************************************************************)
(* The admission engine around a set of node calls on one task queue: the  *)
(* in-flight gauge (InflightTracker), the budget ledger (BudgetLedger), the *)
(* deadline, budget and backpressure governors, and the completion reports *)
(* of the workers, some of which come from executions Temporal has already *)
(* given up.  FairShare and TokenBucket model the two governors that are   *)
(* only a possible deferral here.  The tenant's pooled spend is left out:   *)
(* BudgetLedger records it, but admit never reads it.                      *)
(*                                                                         *)
(* One admission is one step: the engine is synchronous code on one event  *)
(* loop.  Clocks are abstracted: an entry may expire at any time, because a *)
(* node may override timeout_seconds beyond the TTL.                       *)
(***************************************************************************)
EXTENDS Integers, FiniteSets

CONSTANTS
  Nodes,        \* the node calls: one (run, node) pair each, one queue
  Runs, RunOf,  \* [Nodes -> Runs]; budgets are per run
  Urgent,       \* nodes at or under backpressure_priority_cutoff
  Soft, Hard,   \* the queue's Watermark
  Limit,        \* budget_usd, or default_run_usd; 0 is no limit
  Costs,        \* what an execution can cost
  MaxCost,      \* the most an execution can cost
  MaxAttempts,  \* [Nodes -> Nat], maximum_attempts of each node's policy
  MaxRestarts   \* bound on restarts of the scheduler

ASSUME RunsAssumption == RunOf \in [Nodes -> Runs] /\ Urgent \subseteq Nodes
ASSUME NodesAreFinite == IsFiniteSet(Nodes)
ASSUME WatermarkAssumption == Soft \in Nat /\ Hard \in Nat /\ Soft <= Hard
ASSUME BudgetAssumption == Limit \in Nat /\ MaxCost \in Nat /\ Costs \subseteq 0 .. MaxCost
ASSUME AttemptsAssumption == MaxAttempts \in [Nodes -> Nat] /\ MaxRestarts \in Nat

VARIABLES
  cur,       \* the node call as Temporal sees it: "idle" (waiting for an
             \* attempt), "running", or "over"
  attempts,  \* attempts dispatched
  live,      \* executions of run_node past their admission: <<node, attempt>>
  entries,   \* InflightTracker._entries: the tokens, which are node calls
  spend,     \* BudgetLedger._by_run
  restarts,  \* processes the scheduler has had before this one
  incurred,  \* history: what the executions of each run really cost
  silent,    \* history: executions of each run that cost something and whose
             \* report never came
  crowd,     \* history: the most executions of each run live at an admission
  opened     \* history: executions of each run the client admitted by default

costs == <<incurred, silent>>
history == <<crowd, opened>>
vars == <<cur, attempts, live, entries, spend, restarts, costs, history>>

TypeOK ==
  /\ cur \in [Nodes -> {"idle", "running", "over"}]
  /\ attempts \in [Nodes -> Nat]
  /\ \A n \in Nodes : attempts[n] <= MaxAttempts[n]
  /\ \A e \in live : e[1] \in Nodes /\ e[2] \in 1 .. attempts[e[1]]
  /\ entries \subseteq Nodes
  /\ spend \in [Runs -> Nat]
  /\ restarts \in 0 .. MaxRestarts
  /\ incurred \in [Runs -> Nat]
  /\ silent \in [Runs -> Nat]
  /\ crowd \in [Runs -> Nat]
  /\ opened \in [Runs -> Nat]

Init ==
  /\ cur = [n \in Nodes |-> "idle"]
  /\ attempts = [n \in Nodes |-> 0]
  /\ live = {}
  /\ entries = {}
  /\ spend = [r \in Runs |-> 0]
  /\ restarts = 0
  /\ incurred = [r \in Runs |-> 0]
  /\ silent = [r \in Runs |-> 0]
  /\ crowd = [r \in Runs |-> 0]
  /\ opened = [r \in Runs |-> 0]

------------------------------------------------------------------------------
(* The governors *)

Depth == Cardinality(entries)

\* Mutant of WithinBudget: the check only warns, as in soft mode.
WithinBudgetSoft(n) == TRUE

\* check_budget in hard mode; workers send no estimate, so it is 0.
WithinBudget(n) == Limit = 0 \/ spend[RunOf[n]] <= Limit

\* Mutant of BelowWatermark: a depth at a watermark counts as below it.
BelowWatermarkInclusive(n) == Depth <= Soft \/ (Depth <= Hard /\ n \in Urgent)

\* evaluate_backpressure: between the watermarks only urgent lanes pass.
BelowWatermark(n) == Depth < Soft \/ (Depth < Hard /\ n \in Urgent)

MayAsk(n) == cur[n] = "idle" /\ attempts[n] < MaxAttempts[n]

\* The execution run_node is in on behalf of n's latest attempt.
Current(n) == <<n, attempts[n]>>

\* The next attempt is admitted and run_node goes on to the node's effect.
Starts(n) ==
  /\ cur' = [cur EXCEPT ![n] = "running"]
  /\ attempts' = [attempts EXCEPT ![n] = @ + 1]
  /\ live' = live \cup {<<n, attempts[n] + 1>>}

OfRun(S, r) == {e \in S : RunOf[e[1]] = r}
Outstanding(r) == Cardinality(OfRun(live, r))

\* Admitted: the slot of (run, node) is taken, or taken over by a retry.
Admit(n) ==
  /\ MayAsk(n)
  /\ WithinBudget(n)
  /\ BelowWatermark(n)
  /\ Starts(n)
  /\ entries' = entries \cup {n}
  /\ LET r == RunOf[n]
         c == Outstanding(r) + 1
     IN crowd' = IF crowd[r] < c THEN [crowd EXCEPT ![r] = c] ELSE crowd
  /\ UNCHANGED <<spend, restarts, costs, opened>>

\* The client gives up waiting for the answer (two seconds) and admits, but
\* the engine had decided and, if it admitted, taken the slot.
AdmitUnanswered(n) ==
  /\ MayAsk(n)
  /\ Starts(n)
  /\ entries' \in {entries} \cup
       (IF WithinBudget(n) /\ BelowWatermark(n) THEN {entries \cup {n}} ELSE {})
  /\ opened' = [opened EXCEPT ![RunOf[n]] = @ + 1]
  /\ UNCHANGED <<spend, restarts, costs, crowd>>

\* Rejected (deadline or budget): a non-retryable error closes the call.
Reject(n) ==
  /\ MayAsk(n)
  /\ cur' = [cur EXCEPT ![n] = "over"]
  /\ UNCHANGED <<attempts, live, entries, spend, restarts, costs, history>>

\* Deferred by backpressure, fair share or the rate limiter: one attempt gone.
Defer(n) ==
  /\ MayAsk(n)
  /\ attempts' = [attempts EXCEPT ![n] = @ + 1]
  /\ UNCHANGED <<cur, live, entries, spend, restarts, costs, history>>

------------------------------------------------------------------------------
(* Completion *)

\* Mutant of Completed: a report that names no entry is dropped whole.
CompletedOfEntry(n, usd) ==
  /\ spend' = IF n \in entries THEN [spend EXCEPT ![RunOf[n]] = @ + usd] ELSE spend
  /\ entries' = entries \ {n}

\* AdmissionEngine.complete: the spend is recorded, whoever reports it, and the
\* slot of (run, node) is released, whichever execution holds it.
Completed(n, usd) ==
  /\ spend' = [spend EXCEPT ![RunOf[n]] = @ + usd]
  /\ entries' = entries \ {n}

\* The end of run_node: what the execution cost is reported.  (The cost_ledger
\* row is NodeExecution's costs.)
Reported(n) ==
  \E usd \in Costs :
    /\ incurred' = [incurred EXCEPT ![RunOf[n]] = @ + usd]
    /\ Completed(n, usd)
    /\ UNCHANGED silent

\* The report is best effort and lost, or run_node stops before it, before or
\* after its effect has cost something.
Unreported(n) ==
  \E usd \in Costs \cup {0} :
    /\ incurred' = [incurred EXCEPT ![RunOf[n]] = @ + usd]
    /\ silent' = IF usd = 0 THEN silent ELSE [silent EXCEPT ![RunOf[n]] = @ + 1]
    /\ UNCHANGED <<spend, entries>>

\* A NodeError is reported without cost.
ReportedFailed(n) == Completed(n, 0) /\ UNCHANGED costs

\* Temporal hears from the execution it waits for.
Closes(n, how) ==
  /\ cur[n] = "running"
  /\ cur' = [cur EXCEPT ![n] = how]
  /\ live' = live \ {Current(n)}

\* The awaited execution succeeds.
Finish(n) ==
  /\ Closes(n, "over")
  /\ Reported(n) \/ Unreported(n)
  /\ UNCHANGED <<attempts, restarts, history>>

\* It fails with a NodeError.  A transient error is retried.
NodeFails(n) ==
  /\ \E how \in {"idle", "over"} : Closes(n, how)
  /\ ReportedFailed(n) \/ UNCHANGED <<spend, entries, costs>>
  /\ UNCHANGED <<attempts, restarts, history>>

\* It dies, or raises anything else: no report, and a retry.
Dies(n) ==
  /\ Closes(n, "idle")
  /\ Unreported(n)
  /\ UNCHANGED <<attempts, restarts, history>>

\* Temporal times out an execution that is still running.
Overtaken(n) ==
  /\ cur[n] = "running"
  /\ cur' = [cur EXCEPT ![n] = "idle"]
  /\ UNCHANGED <<attempts, live, entries, spend, restarts, costs, history>>

\* A late execution ends in any of these ways, and Temporal does not listen.
LateEnds(n) ==
  /\ \E e \in live :
       /\ e[1] = n
       /\ ~(cur[n] = "running" /\ e = Current(n))
       /\ live' = live \ {e}
  /\ Reported(n) \/ Unreported(n) \/ ReportedFailed(n)
  /\ UNCHANGED <<cur, attempts, restarts, history>>

\* The sweep removes an entry whose TTL has passed.
Expire(n) ==
  /\ n \in entries
  /\ entries' = entries \ {n}
  /\ UNCHANGED <<cur, attempts, live, spend, restarts, costs, history>>

\* The engine's state is a process's memory.
Restart ==
  /\ restarts < MaxRestarts
  /\ restarts' = restarts + 1
  /\ entries' = {}
  /\ spend' = [r \in Runs |-> 0]
  /\ UNCHANGED <<cur, attempts, live, costs, history>>

Asks(n) == Admit(n) \/ AdmitUnanswered(n) \/ Reject(n) \/ Defer(n)
Ends(n) == Finish(n) \/ NodeFails(n) \/ Dies(n) \/ Overtaken(n) \/ LateEnds(n)
Next == Restart \/ \E n \in Nodes : Asks(n) \/ Ends(n) \/ Expire(n)

Spec == Init /\ [][Next]_vars

------------------------------------------------------------------------------
(* Properties *)

\* The gauge never passes the hard watermark (evaluate_backpressure), even with
\* retries that take over a leaked slot, late reports and sweeps.
DepthAtMostHard == Depth <= Hard

\* Bulk work never fills the queue beyond the soft watermark, so the slots
\* between the watermarks stay available to urgent lanes.
BulkLeavesRoom == Cardinality(entries \ Urgent) <= Soft

\* Both watermarks hold over retries that take over a leaked slot, late reports
\* that release another attempt's slot, sweeps, restarts and unheard answers.
WatermarksHold == DepthAtMostHard /\ BulkLeavesRoom

\* The budget, and the cost of the executions that were live together at an
\* admission and of those let in while the scheduler did not answer.
Allowance(r) == Limit + MaxCost * (crowd[r] + opened[r])

\* What hard mode does guarantee (check_budget looks at reported spend only): a
\* run's recorded spend, with all its live executions can still add, passes the
\* budget by at most the cost of the executions that were live together at an
\* admission, and of those let in while the scheduler did not answer.
BoundedOvershoot ==
  Limit # 0 =>
    \A r \in Runs : spend[r] + MaxCost * Outstanding(r) <= Allowance(r)

\* What the budget (budget.py) means for the money a run really costs: its
\* executions, retried, late, dead or alive, cost no more than one allowance for
\* each process the scheduler has had, as a restart forgets what was spent, and
\* the cost of those whose report never came.
BudgetBindsCost ==
  Limit # 0 =>
    \A r \in Runs :
      incurred[r] + MaxCost * Outstanding(r)
        <= (restarts + 1) * Allowance(r) + MaxCost * silent[r]
==============================================================================
