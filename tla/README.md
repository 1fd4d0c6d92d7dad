# Ancora in TLA+

Ancora is a runtime for durable AI workflows. Temporal keeps the history of every
workflow and retries its activities; activity workers run node calls and compute
tasks; a scheduler admits each node call; an API gateway starts runs, takes human
decisions and shows everything; an event consumer projects what happened into
Postgres. This directory models the parts of that system in which order, failure
and concurrency decide whether its promises hold. TLC checks the modules on small
instances, and TLAPS proves the central results for every value of the constants.

Every module is translated from the Python source; `PROJECT.json` maps each
definition to the lines it stands for, and lists the hazards the properties are
for. Temporal, Redis, Postgres and Docker are external: they are modelled from how
the code uses them.

## 1. Inventory

### Components with behaviour of their own

| Component | State | Operations | What makes it hard |
|---|---|---|---|
| **Node call** (`nodes_runtime.py`, `inbox.py`) | Temporal's attempts; the coroutine of each attempt; the inbox row of the idempotency key; the scheduler slot; cost rows | admit, pass or hit the guard, perform the effect, store, bill, release, answer | Temporal gives up attempts without stopping them, so an attempt and its retry run side by side; crash at any await |
| **Policy of a call, providers** (`policy.py`, `nodes/*.py`) | the class table; the chain of providers; what is left of the run's deadline | resolve, dispatch, retry, defer, fall back, give up | zero overrides and zero deadlines, retries that take tokens, failures worth a fallback and others, verdicts nobody heard |
| **Admission engine** (`scheduler/engine.py`, `backlog.py`, `budget.py`) | in-flight entries, spend per run | admit (deadline, budget, backpressure, fair share, rate), complete, sweep | process memory only; reports are late, lost or from attempts that were given up; the client admits when nobody answers |
| **Fair share** (`fairness.py`) | virtual clock and last request of each tenant | admit, refund, prune | idle tenants leave and return; a charge may be taken back by a later governor |
| **Token bucket** (`ratelimit.py`) | level, timestamp | take | rounding, refill on refusal, clocks of several processes |
| **Policy store** (`scheduler/config.py`) | policy in force, mtime, last error | reload on the admission path, construct | stat and read are two looks at a file somebody edits |
| **Approval gate** (`sdk base.py`, `projections.py`, `approval_service.py`) | decisions heard, the gate's row | park, decide, signal, expire, open/close index | several deciders, activities and the workflow write one row; signals with unknown outcome; a gate visited again |
| **Event pipeline** (`events.py`, `projector.py`, `stream.py`) | two capped streams, group position and pending entries, `run_event`, the browser's cursor | publish, read, persist, ack, tail, reconnect | at-least-once reads, crash between insert and ack, trimming, lost frames |
| **Life of a run's row** (`idempotency.py`, `service.py`, `reconciler.py`) | per-process key store, Temporal's workflow ids, `workflow_run` rows, the transactions under way | reserve, start, insert, answer, replay; reconcile all, refresh one, cancel | retries reach other replicas; crash between Temporal and the database; several writers with stale loads, one transaction for many rows |
| **Run views** (`graph.py`, `recovery.py`, `history.py`) | none: computed from a status, a history, what is pending, the registry and the log of kills, read one after the other | draw the graph, account for attempts, say who holds an attempt and on which clock it waits | readings that are not atomic, a server that writes an attempt's start only with its end, hostnames and pids that come back |
| **Chaos Lab** (`chaos.py`, `chaos_experiments.py`, `chaos_invariants.py`) | the experiment in progress, its log of kills | kill, restart, run an experiment, score, restore | the aim is old when the kill lands; Docker does not answer; an operator works on the same containers |
| **Worker registry** (`registry.py`, `registration.py`) | registry row, liveness key | register, beat, drain, reap, list | two processes under one id during a restart; reaper against slow beats; Redis outages |
| **Compute** (`activities.py`, `ray_bridge.py`, `tasks.py`) | task progress, heartbeat checkpoint, detached completer | submit, poll, heartbeat, collect, complete, cancel | resumed attempts, late heartbeats, processes that die with or without their task |

### How they interact

A workflow calls `execute_node` or `run_compute` (SDK); the policy of the call
becomes Temporal's timers and retries, and Temporal dispatches the activity.
`run_node` calls the scheduler's **admit** over HTTP (two-second timeout, fails
open), which reloads the **policy** if its file moved and asks the governors in
order: deadline, budget, backpressure, **fair share**, **rate**. The effect runs
inside the **inbox guard**; completion reports spend and frees the slot. Every step
publishes to the **event pipeline**. Independently of events the **reconciler** and
API reads copy Temporal's status into `workflow_run`. The **approval gate** is the
one place where a workflow waits for people: the wait is in Temporal, its row only
an index. The **views** are computed at every request from Temporal, the registry
and the **Chaos Lab**'s log; the experiment in turn aims at what they show.

### Components without a module

Cost view, workflow catalogue, determinism lint and CLI, schema and settings,
metrics and tracing, web pages and deployment files have no state machine to
explore; `PROJECT.json` gives the reason for each.

## 2. Modules

| Module | Models | Checked as |
|---|---|---|
| `ActivityContract` | abstract: an at-least-once activity that closes once, with the result of an execution that took place | property of `node_call` |
| `NodeExecution` | the node call | `node_call`, `node_effect_once` |
| `Admission`, `MCAdmission` | the engine around several node calls | `admission_engine` |
| `FairShare`, `MCFairShare` | fair share | `fair_three` |
| `TokenBucket` | one provider's bucket | through `ProviderCalls` |
| `NodePolicy` | the class table and `resolve_policy` | through `ProviderCalls` |
| `ProviderCalls`, `MCProviderCalls` | one call of a node class, from dispatch under its policy to its end; EXTENDS the two above | `provider_calls` |
| `PolicyReload` | the policy store | `policy_reload` |
| `ApprovalGate` | one visit of one gate | `approval_gate` |
| `EventPipeline` | streams, projectors, a browser | `events_drain` |
| `RunProjection` | run rows and their writers | through `StartRun` |
| `StartRun`, `MCStartRun` | one idempotency key, and the rows of its executions; EXTENDS `RunProjection` | `run_lifecycle` |
| `WorkerRegistry` | one worker id | `registry_fleet` |
| `ComputeDispatch`, `MCComputeDispatch` | one compute activity | `compute_settings` |
| `Workflows` | the example workflows as plans | through `RunHistory` |
| `RunHistory` | one run as Temporal records it, on a fleet that dies and returns | through `ChaosExperiment` |
| `RunViews` | graph, recovery report and liveness as functions of a reading; EXTENDS `RunHistory` | through `ChaosExperiment` |
| `ChaosExperiment`, `MCRuns` | operator and experiment on top of a run and its views; EXTENDS `RunViews` | `runs_views` |

`NodeExecutionProofs`, `ProviderCallsProofs`, `ApprovalGateProofs`, `StartRunProofs`
and `EventPipelineProofs` hold the theorems about the modules they are named after,
`SchedulerProofs` those about `Admission`, `FairShare` and `PolicyReload`,
`WorkerProofs` those about `ComputeDispatch` and `WorkerRegistry`, and `RunProofs`
those about `RunHistory`, `RunViews` and `ChaosExperiment`.

The modules meet at named points. Three compositions share state: `StartRun` creates
the executions and rows that `RunProjection` follows; `ProviderCalls` takes its
tokens from `TokenBucket` under a policy of `NodePolicy`, and is proved to use the
bucket only as `TokenBucket` allows; `ChaosExperiment` acts on the fleet of
`RunHistory` by what `RunViews` shows of it. Elsewhere a neighbour is abstracted:
`NodeExecution` sees the scheduler as three answers and one slot; `Admission` sees a
node call as attempts that start, report and end in any order that `NodeExecution`
allows, and treats fair share and the rate limiter as a possible deferral.

### State and code

* **NodeExecution.** `pc[a]` is the next await of attempt `a`'s `run_node`
  coroutine. `GuardHit`/`GuardPass` are the first transaction of
  `PostgresInboxGuard.get_or_run` and `Store` the second: between them nothing is
  locked. `srv`, `cur`, `closed` are Temporal's view, `Timeout` any of its timers.
  `fired` counts effects leaving the process, `overlap` and `stored` are history.
  `guarded` is chosen once: the node's `idempotent` flag.
* **Admission.** One admission is one step, as the engine has no await between its
  checks. `entries` are `InflightTracker._entries` keyed by (run, node); `live`
  contains executions, also those Temporal gave up. `AdmitUnanswered` is the client's
  timeout with either effect on the engine, `Restart` an empty process. `Reported`,
  `ReportedFailed` and `Unreported` are the ways out of `run_node`, the last for a lost
  report and for the exceptions nothing reports. `crowd`, `opened`, `incurred` and
  `silent` are history for the two bounds on money: what was live together, what was
  let in unasked, what executions really cost, and how many of them never said so.
* **FairShare.** `IsFront(base)` is `min_vt` over kept tenants; `RateLimited` is a
  charge and its refund in one call; `Snapshot` is the metrics scrape, which prunes
  too. `lead` is history: weighted service received since both were active.
* **TokenBucket.** `Available` and `Wait` are `refill_and_take`; `promise` remembers
  the last refusal's `retry_after`, `since` what was granted from each moment on.
* **NodePolicy, ProviderCalls.** `Table` is the class table and `Resolve`
  `resolve_policy`, with its `or`s: an override of zero is none for some fields and
  zero for others. A call is a member of `Calls`: its class, overrides, the time left,
  and what each provider may answer. `at`, `attempt`, `begun`, `beat`, `due` are
  Temporal's view of it, `link` the provider the llm node has come to. `Admit`,
  `Defer`, `FailOpen` and `Reject` are the verdicts, each with its effect on the
  bucket. Between a verdict and the request `run_node` records the start and asks the
  inbox: `Request` is a step of its own, a request whose attempt is given up before it
  is sent stays in `owed`, and `LateRequests` sends it at any later time, with those of
  other calls. `Transient` says which answers a node class turns into a retryable
  error, `Retried` adds what Temporal retries although no node says so.
* **PolicyReload.** `reload` is an admission between its stat and its read. A
  document is an edit number and a kind; `LoadBroken` is a `YAMLError`, which no
  handler on the path names, so the request fails and the client admits.
* **ApprovalGate.** `Written` is the ORM rule that only changed columns are sent;
  it is what makes the decider's mark and the workflow's close interact. `opening`
  and `closing` are the indexing activities, which may outlive their timeout.
* **EventPipeline.** `pending` is the consumer group's pending list. The loop reads
  only `>`: nothing is ever claimed again, and the properties say so.
* **RunProjection, StartRun.** `cache` is each process's `IdempotencyStore`;
  `temporal` the executions under the run's workflow id, of which one at most is
  open; `row` the inserted rows. Each session loads rows, asks Temporal run by run
  (`todo`) and writes changed columns in one commit (`dirty`, `Written`); reconciler,
  API readers and cancellation are all sessions.
* **WorkerRegistry.** `row` is the age of `last_heartbeat_at`, `key` the TTL left.
  A beat takes its timestamp before its commit (`stamp`). Two processes may run under
  the same id.
* **ComputeDispatch.** `setting` is drawn once: execution model, backend, troubles
  and `fail_at_batch`. `ckpt` are the heartbeat details the server holds, `task` the
  backend's progress, `told` the stop requests. `recording` and `finishing` are the
  awaits before and after the handler's `try`: a drain's cancellation lands on any of
  them. A process ends in three ways: `Drain` takes a driver from its task, `Exit`
  takes the completers when the drained process goes (its threads run on), and `Die` is
  a kill, of the threads too. `left` is history: the tasks a draining worker left.
* **RunHistory.** `history` has the events the views read, in the batches the server
  writes them in; `flow` is where the workflow code stands, as a replay finds it;
  `task` the workflow task; `pending` what describe shows of the open activities;
  `box` the worker containers, each with an incarnation nobody sees and the pid
  everybody sees. A workflow is a plan of calls, waits and gates (`Workflows`), and
  `Decide` is one workflow task of it, `approval()` and its decision store included.
  Under a deadline of the run, a call is scheduled with what is left of it (`Left`) as
  its `within` and at most as its `budget`: the schedule-to-close and start-to-close
  timers. `Expire` fires the first, whether an attempt runs, waits or never began.
* **RunViews.** A reading takes the run's status, then the history, then what is
  pending, and that last call may fail (`Reading`); `Whole` says where a read of the
  history can end. `ActivityState`, `GateVertex`, `Edges`, `CriticalSeconds`, `Spans`,
  `HolderState` and `Window` are the functions of the API, on readings.
* **ChaosExperiment.** `exp` is the experiment from waiting for work in flight to the
  restart of what it killed, `button` an operator's request between its look at the
  containers and its call of Docker, `kicks` and `unheard` are history: containers
  that died by other hands, and calls Docker did not answer.

## 3. Runs

Each pass run finishes within four minutes on two workers. Bounds are in the `.cfg`
files and `MC` modules; the ones that shape the result are named here.

| Run | Bounds | Distinct states | Shows |
|---|---|---|---|
| `node_call` | 2 attempts, guarded and not | 14 849 | `ResultsAreReal`, `DoubleCommitNeedsLateAttempt`, `ImplementsContract`, `CallCloses` |
| `node_effect_once` | 2 attempts, nothing goes wrong but crashes (`CrashSpec`) | – | refutes the README's "fire once, even across a mid-effect crash" |
| `admission_engine` | 3 nodes, 2 runs, soft 1, hard 2, limit 1, costs 0 and 2, 2 attempts of one node and 1 of the others, 1 restart | 417 666 | `WatermarksHold`, `BudgetBindsCost`, `BoundedOvershoot` |
| `fair_three` | 3 tenants, weights 2:2:1, idle window 1, 3 ticks, clocks to 6 | 120 069 | `ProportionalShare` over idling, refunds and scrapes |
| `provider_calls` | 7 calls, rate 2, burst 3, wants 1 to 3, 4 ticks, one clock, up to 2 faults, late requests in batches of 1 or 3 | 1 157 911 | `RetryAfterSuffices`, `ProviderIsSpared`, `DeadlineHolds`, `FallbackHolds` |
| `policy_reload` | 4 edits, 3 timestamps | 3 788 | `PolicyIsTheFile`, `LastGoodServes` |
| `approval_gate` | 2 deciders, stalls, failures, terminations | 54 618 | `RowIsHeard`, `EndStateSame`, `GateResolves` |
| `events_drain` | 2 projectors, 3 events, batch 2, caps 2 | 57 969 | `NoGap`, `NeverSkipped` |
| `run_lifecycle` | 4 settings: 3 requests; 2 requests and a failure; 2 runs with a reader and the reconciler; 1 run, every end, 2 failures | 307 284 | `ReservationIsHeld`, `SameAnswer`, `SettledIsTrue`, `SettledStays`, `EveryEndIsSettled` |
| `registry_fleet` | 2 processes, TTL 2, reap after 3, pauses to 5, 2 failures | 205 723 | `HealthyIsNotReaped`, `UpIsShown`, `DeadIsReaped` |
| `compute_settings` | 2 attempts, 4 batches, heartbeat window 2, nine settings | 1 110 898 | `ChecksumIsRight`, `CheckpointAdvances`, `NoOrphan`, `HealthyCompletes` |
| `runs_views` | 12 scenarios: plan, containers, faults, clock, deadline, buttons, experiment; fresh for 1 tick, live for 2 | 310 678 | `GraphIsTrue`, `GateTellsVisit`, `EdgesAreCausal`, `AttemptsAccounted`, `LivenessIsHonest`, `WindowIsTheClock`, `PassedMeansSurvived`, `FleetAsFound`, `RunRecovers` |

Why these bounds are enough to be interesting: two attempts give every overlap of a
late execution and its retry, and the proofs lift the node call to any number; with
three nodes on a hard watermark of two, an urgent and two bulk calls compete for the
slots between the watermarks, and a limit of one is passed by the first cost, so
overshoot happens, and a restart between two costs lets a run pass its budget a
second time; three tenants are needed for a third to move the front while two
compare themselves; a call with a backoff of one tick and an attempt of two uses up
its retries, its deadline and the bucket before the horizon, and two calls keep the
real table; caps of two with three events trim both streams; a second request comes
before and after the first execution's end, and a second run's row shares the
reconciler's transaction with the first's; pauses of five ticks exceed TTL and reap
age; four batches exceed the heartbeat window, so a compute that stopped
heartbeating would be timed out. The scenarios of `runs_views` each take one thing
to its limit: the fan-out, the gate visited twice, an expiry, a container that dies
twice and comes back with its old pid, an operator who presses between the
experiment's look and its kill, two calls under a deadline of two ticks, of which the
second has one tick left or none; every plan of the example workflows is among them.

`CHECK_DEADLOCK FALSE` is set where behaviours end: a call closed, all requests
answered, an engine with no attempts left, a clock at its horizon, a run over.

Type invariants are theorems where a module has a proof (section 4), or part of the
invariant the proof rests on (`EventPipeline`, and `Types` and `Written` of
`RunProofs`); none is a property of a run.

### Fairness

* `NodeExecution`: a worker polls (`Dispatch`) and Temporal's timers fire (`Timeout`).
  Nothing is assumed of an execution: it may hang forever.
* `ApprovalGate`: Temporal advances the workflow and its timer, a worker runs the
  indexing activities. Nobody has to decide.
* `EventPipeline`: each projector's loop runs on; it catches every exception and
  sleeps. Nobody publishes or reconnects by obligation.
* `StartRun`: each reconciler's loop runs on and a session under way ends; failures
  are bounded by the setting, since a call that fails in every pass undoes every
  pass (see section 5). Nobody has to request, read or cancel.
* `WorkerRegistry`: time passes, running processes beat, a drain finishes, the
  reconciler reaps, Redis returns. No process has to start or stop.
* `ChaosExperiment`: the run goes on as long as one of its steps can be taken
  (workers poll, the server keeps its clocks), and the experiment's task goes on.
  Nobody has to signal, press a button or restart a container; `RunRecovers` excepts
  a fleet that is dead and stays dead.
* The other specifications have no fairness; their properties are safety.

## 4. Proofs

All proofs are checked by TLAPS from nothing; none leaves a step out. The
assumptions are the named `ASSUME`s of each module, evaluated by TLC in its run.

* **NodeExecutionProofs** (any `MaxAttempts`). The inductive invariant adds three
  parts to the type: `Serial` (attempts are dispatched in order and closed once),
  `Provenance` (every result an execution, the row or the workflow holds comes from
  an attempt in `fired`), and `Windows` (any two attempts that are inside
  `get_or_run` or committed were inside together, and the earlier was timed out).
  `DoubleCommitNeedsLateAttempt` alone is not inductive, as it speaks only of
  attempts that already stored: `Windows` follows them from `GuardPass` on. From it:
  `TypeCorrect`, `ResultsAreRealAlways`, `LateMeansTimedOutAlways`, `DoubleCommit`,
  `DoneStays` (an action property) and `Refinement`, in which `Fire` maps to
  `Perform`, a successful `Report` to `Deliver`, a closing failure to `GiveUp`, and
  every other step to a stutter.
* **SchedulerProofs**, one part per store of the scheduler.
  *Admission* (any nodes, runs, watermarks, limit, costs, attempts): the invariant
  adds `Shape`, the live executions are a finite set that contains every awaited one,
  and `Accounted`: what a run cost and the ledger does not count was spent under an
  earlier process, at most one allowance in each, or never reported. `TypeCorrect`,
  `WatermarksHoldAlways`, `BoundedOvershootAlways` and, from it and `Accounted`,
  `BudgetBindsCostAlways`. They need the cardinality of a run's live executions when
  one is added or removed (two lemmas) and multiplication steps kept apart from it.
  *Fair share* (any tenants, weights, windows): `Share` links history to clocks: t's
  lead over u is at most its lead on the clock plus two steps of u. With
  `ClocksStayClose` (no clock is more than two own steps ahead) it gives
  `ProportionalShareAlways`. `ShareTypeCorrect` and `ClocksStayCloseAlways` are
  stated as well.
  *Policy store* (any edits and timestamps): `PolicyIsTheFile` speaks only of moments
  after an answered admission. What is inductive is what the store knows by a
  timestamp: `Known` (a stored timestamp equal to the file's means the document was
  looked at), `StatHolds` (with nobody editing, the reload under way has the file's
  timestamp) and `Followed` (after it, the store has it). `StoreTypeCorrect`,
  `PolicyIsTheFileAlways`, and the action property `LastGoodServesAlways`.
* **ProviderCallsProofs** (any rate, burst, horizon, calls and faults). About the bucket
  alone: `Level` (what was granted since `s` plus what is left is at most the burst plus
  the refill from `s` to the bucket's timestamp) gives `WithinRateAlways`, and
  `Promised` (the last refusal's `retry_after` is the wait from the bucket's timestamp
  for what was missing) gives `RetryAfterIsEnough`. `ImplementsBucket`: every step of a
  call is a step of `TokenBucket` or leaves the bucket alone, so both results hold of
  the composition (`RetryAfterSufficesAlways`). The requests that come late are what
  makes `ProviderIsSparedAlways` hard: `Shares` says that the requests since `s`, and
  all that is still owed since `t`, were let through at or after `t` when no request
  took longer than from `t` to `s` (`Covered`), so that what the bucket granted since
  `t`, and the unheard verdicts, account for both; what is owed is counted by the time
  of its verdict (`Pending`, `Own`). `OnTime` ties the clock to the timer of the whole
  call, for `DeadlineHoldsAlways`; `Chained` (an attempt never gets past a provider that
  answers) gives `FallbackHoldsAlways`. `WithinRateAlways` and `ProviderIsSparedAlways`
  have the hypothesis `Skews = {0}`: they are false with clocks that differ.
* **ApprovalGateProofs** (any finite set of deciders). For `RowIsHeardAlways`: what
  the workflow holds and what each request is about to write was heard. For
  `EndStateSameAlways`: `Order` (where the gate is, by what was sent, heard and
  written) and `Tied` (a lone decider's verdict is the decision and the outcome, and
  nothing else is on its way into the row).
* **StartRunProofs** (any finite set of requests, any replicas, readers, reconcilers
  and bounds). Of the rows: what a session loaded was open then, what it is about to
  write is what Temporal says for good, and a settled row is complete
  (`ProjectionInv`); from it `SettledIsTrueAlways` and the action property
  `SettledStaysAlways`. Of the requests: executions are numbered as they begin and
  each was begun by a request of its own (`Numbered`), a second one begins only when
  the first has ended (`OneOpen`), and what a request or a cache names is there
  (`Named`); from it `ReservationIsHeldAlways` and `SameAnswerAlways`. `TypeCorrect`
  covers both.
* **EventPipelineProofs** (any events, caps, projectors). `NothingBetween`: while the
  socket is open, no entry that is still there lies between the last frame and the
  cursor; with the places in the stream it makes `NoGap` inductive. The next frame is
  a minimum, whose existence is proved from the well-foundedness of finite sets.

* **WorkerProofs** (any attempts, batches, backends and troubles; any TTL, reap age,
  pauses and processes). *Compute*: `Sums` (every accumulator, the checkpoint's and
  each attempt's, is the sum of the batches it stands for), `InTurn` (attempts are
  taken in turn), `Stages` (what the stage of a driver says of its task, and whether a
  drain left it) and `Behind`
  (the server's checkpoint is never ahead of the task an awaited driver polls) give
  `TypeCorrect`, `ChecksumIsRightAlways`, `NoOrphanAlways` and the action property
  `CheckpointAdvancesAlways`. `HealthyCompletesAlways` adds that between two beats of a
  healthy driver at most one batch passes (`KeepsPace`) and that only the first attempt
  fails (`FailsOnce`). Its hypotheses `MaxAttempts > 1` and `HeartbeatBatches > 1` are
  needed: the injected crash costs an attempt, and with a timer of one batch the driver
  may be timed out before its first beat.
  *Registry*: the reaper looks at the row, and the row is never older than the commit
  before its writer's last one (`RowIsRecent`, with `Stamps` for a beat under way);
  from it `RegistryTypeCorrect` and the action property `HealthyIsNotReapedAlways`.
* **RunProofs** (any scenarios and containers, histories of any length). The invariant
  has seven parts.
  `FleetInv`: who holds an attempt is a process its container has or had (`Held`),
  a running worker beats at every tick (`Beats`), and a container the experiment
  killed is one it still owes or one Docker did not answer for (`Repaid`). It gives
  `FleetAsFoundAlways` and `LivenessIsHonestAlways`.
  `Recorded` is what the history says of the run: a start is followed by its end,
  an activity ends once and is then not pending, every scheduled one is pending or
  has ended until the run is over, nothing follows its end, and the code waits at the
  step of its plan that is pending. Every step keeps it because a step writes one of a
  few things (`Writes`), and a workflow task commands what one of its decisions
  commands (`DecideIs`); these two lemmas are the case analysis all the others share.
  `WindowIsTheClockAlways`, an action property, follows from it and from `Limits`: the
  schedule-to-close timer of an activity is what is left of the run's deadline, so it
  does not expire before that, and a retry is never due behind it.
  `GateInv` numbers the visits of each gate by the opening activities in the history
  (`Visiting`), and says where the visit under way stands (`AtItsGate`) and what an
  expired one left (`LeftWaiting`): `GateTellsVisitAlways`. The graph takes the newest
  opening and closing of a gate, so the proof counts those before it.
  `GraphIsTrueAlways` puts the two together; `Timely` (an attempt started after its
  activity was scheduled) gives `AttemptsAccountedAlways`.
  `VerdictInv` ties the experiment to the run: it signals the gate only after its kill
  (`Tried`), until then the run cannot get past it, as no timer runs for a gate that
  does not expire (`TimerHeld`, `GateHeld`), and an activity has given its result, is
  awaited, or belongs to a run that did not complete (`NodesDone`). So a run completed
  under a passed verdict was open at the kill: `PassedMeansSurvivedAlways`.
  `Layered` says of every two activities of the history that one workflow task
  decided on both, and they are of one kind, or that one was over, and no gate was
  open, when the other was decided on. An edge is then a dependency, and the vertices
  of a path follow each other in time; for `EdgesAreCausalAlways` their seconds are
  summed as the sizes of disjoint sets of clock ticks before `now`.
  No induction theorem takes part: where one would look at the first index that
  breaks a property, `Least` gives the least element of a set of numbers, and a sum
  over a finite set is reasoned about by its defining recursive function.

Records of a function's values are updated in one clause,
`[f EXCEPT ![a] = [@ EXCEPT !.x = .., !.y = ..]]`. Several clauses that reach into the
same index (`![a].x = .., ![a].y = ..`) mean the same to TLC, but the SMT translation
of tlapm 1.4.5 makes contradictory facts of them, and one more `@` inside is read as
the outer value: with them a proof could pass for the wrong reason. In the modules
whose definitions update records, `FALSE` was tried from the facts of every leaf; it
follows only where the proof is by contradiction or the case is impossible.

Only model-checked: all liveness (`CallCloses`, `GateResolves`, `NeverSkipped`,
`EveryEndIsSettled`, `UpIsShown`, `DeadIsReaped`, `RunRecovers`), which is out of the
prover's reach with its fairness. Every invariant and every action property the
passing runs check is stated by a theorem.

## 5. What the models say against the text

The violation run `node_effect_once`: the README (line 162) says the inbox makes a
double-fired POST "fire once, even across a mid-effect crash". `inbox.py:99` runs the
effect for a pending row whoever reserved it, so a crash after the effect and before
the second transaction performs it twice. The run allows crashes and nothing else: its
trace is one attempt that passes the guard, fires and dies, the timeout of the dead
attempt, and a retry that passes the guard and fires. What does hold is the proved
`DoubleCommitNeedsLateAttempt`.

Other statements that following the code contradicts, met while modelling. They are
not standing runs; the model properties are stated so as to hold without them.

* `nodes_runtime.py:147-148` treats a deferral as no failure, and the scheduler's
  README (line 17) says it is "not a dropped request", but it is a retryable error and
  uses up an attempt: a call can fail without ever having run.
* `inbox.py:3-6`: a late execution's upsert (line 113) replaces the stored result.
* `fairness.py:12-13`, "nobody is ever deferred" alone: a tenant that just stopped
  asking stays active for the idle window and holds the others' threshold.
* `backlog.py:9-10` calls the gauge exact; its token is (run, node), so a late
  report frees the slot the retry holds.
* `budget.py:5-6`: the hard budget compares reported spend and reserves nothing
  (hence `BoundedOvershoot`); the tenant's pooled budget is recorded
  (`engine.py:162`) and never read; ledger table and engine spend are two best-effort
  writes.
* `ratelimit.py`: what is limited is the verdicts. `run_node` awaits two writes and the
  inbox between verdict and request (199, 203, 179), so requests may bunch up at the
  provider; without `slowest` in its window `ProviderIsSpared` is violated.
* `ratelimit.py:5-7`: with Redis each caller sends its own wall clock (line 112), and
  clocks that differ refill an interval twice.
* `config.py:197-200`: after one failed read the file's mtime is kept (233), so a
  good document is not read again until it is touched; a `YAMLError` (165) is not
  caught (231). TTL and idle window are copied once at `engine.py:127`.
* `policy.py`, the deadline: it is measured once, at the dispatch. With nothing left
  the timer of the call is zero, which is no timer, and only the scheduler's check
  stands in the way (hence "as long as every verdict was heard" in `DeadlineHolds`).
  An override of zero seconds is ignored by the `or`s.
* `http.py:7`, "so the scheduler backs off": a provider's `Retry-After` reaches
  neither scheduler nor Temporal (`nodes_runtime.py:244`), which waits the policy's
  delay.
* `llm.py`: a fallback is for a transient `NodeError`. `gemini_provider.py:69` reads
  `Retry-After` with `float`, which raises `ValueError` on an HTTP date, and line 77 the
  body with `json()`; neither is a `NodeError`, so line 193 does not catch it, the next
  provider is not tried, and Temporal retries the attempt. `FallbackHolds` excepts these
  answers (`garbled`).
* `llm.py:4` falls back on a timeout, but the provider's client waits 60 seconds
  (`gemini_provider.py:56`), as long as the whole attempt may take: a provider that
  hangs prevents the fallback. Admission names the first provider only, so a fallback
  is never charged to its own bucket.
* `database.py`: a refused connection is none of the driver's errors and is
  terminal, although `policy.py:139` retries "to ride out a connection blip".
* `nodes_runtime.py:226`: only a `NodeError` releases the slot; a transport error of
  the http node leaves it to the sweep.
* `idempotency.py:5-6`: once the workflow has ended, Temporal lets its id be used
  again, and a repeated key on another replica starts a second run. The row is
  inserted after the start (`service.py:171-180`), so a crash in between leaves a
  workflow without a row.
* `reconciler.py:8-9`: `result()` (line 89) is outside the per-run handler, so one
  unreadable result undoes each pass; 11-13: when an API read settles a row first,
  no `run.*` event is sent.
* `service.py:389` calls history oldest first, ordered by insertion; two projectors
  insert in any order. `service.py:298` expects at most one waiting gate of a
  workflow and raises with two.
* Neither projector nor start-up reads pending entries again, so a batch in hand
  when a projector stops stays unwritten.
* `registry.py:13-14` promises a fallback when Redis is away; `worker_service.py:18`
  shows unknown.
* `approval_service.py`: a second decider, or one after the timer, may overwrite the
  row with what the workflow did not act on; an open activity that outlived its
  timeout puts a closed gate back into the inbox. `base.py:220` never clears a
  decision, so a gate visited again is released by the old one.
* `recovery.py:476-481`: after a kill, "whoever holds it is gone" is said of every
  attempt older than the kill, whichever container was killed; the compose file runs
  three activity workers (`docker-compose.yml:243`). With Redis down every worker is
  shown gone. Both are exceptions named in `LivenessIsHonest`.
* `recovery.py`, `_spans`: a retry that waits is a queued first attempt, as are a
  started one whose describe failed and a running one of a terminated run (its
  vertex in the graph is queued too). The window (490-539) knows start-to-close and
  heartbeat; a call of a run with a deadline also has a schedule-to-close timer
  (`base.py:72-73`), which gives it up before the window's deadline, and keeps a retry
  from starting. `WindowIsTheClock` excepts this case: the run's deadline has come. Any
  open timer counts as a gate's expiry.
* `chaos_experiments.py`: "so the experiment leaves the system as it found it" does
  not cover a kill that landed but whose answer was lost: that way out (lines 154-157)
  precedes the restore. Waiting for work in flight gives up silently, and the
  experiments' workflow has no guarded effect, so the inbox's part of the verdict has
  nothing to look at.
* `activities.py:5-7`: on Ray the driver sees no progress (`ray_bridge.py:183`) and
  sends no heartbeat; 10-12, "so no compute is orphaned": a drain that lands on
  `record_start` (111, 151), after the submit and before the `try` or the completer,
  leaves a task nobody watches or stops, and so does the exit of a drained process,
  which cancels its completers while their threads run on (`main.py:103` shuts the pool
  down without waiting). `NoOrphan` excepts both. 16-17: the completer dies with its
  process; 68: `ray_compute_async` (150) arms the injected crash on every attempt.

## 6. Limits of the models

* Every clock is abstract; only orders and counts of ticks matter.
* `Admission` lets an entry expire at any time (a node may override its timeout past
  the TTL), which is more than the code does under the default policy.
* `FairShare` keeps weights constant between policy edits. `PolicyReload` assumes two
  saves do not share one tick of the file system's clock.
* `ApprovalGate` has one visit of one gate with its row and deciders; `RunHistory` has
  repeated visits, without the row.
* `ProviderCalls` has one call in detail, the others only at its bucket and as late
  requests; the inbox and the slot are `NodeExecution`'s and `Admission`'s. Temporal's
  timers fire on time. The providers of a chain are different ones. An execution that
  was given up sends its first request late, and what it does after that (its own
  fallback) is not followed; nor is the bucket once the call has ended.
* `StartRun` has one idempotency key, whose reservation is never swept for its age
  (`idempotency.py:62-65`): a handler ends within the TTL of a day. Its reader session
  stands for every endpoint that refreshes or cancels a run.
* `RunHistory` writes only the events a reader looks at; child workflows and
  continue-as-new do not occur in the code. Its plans are sequences of steps, each a
  call, a fan-out that is joined, a wait or a gate: of two chains that run independently
  `EdgesAreCausal` would be false, as `graph.py:20-22` says. `RunViews` leaves out the
  workflow-task window, `get_run_live` and the wording of the report.
* `ChaosExperiment` does not measure recovery time, and its time limits may pass at
  any moment.
* `ComputeDispatch` has the batched compute; the other tasks keep no checkpoint.

## 7. Plan

Order followed so far: node call, its contract and proofs; admission, fair share,
bucket with proofs; policy store; gate; events; start and projection, composed;
registry; compute; policy resolution and provider calls over the bucket, with proofs;
run history, views and chaos experiments; proofs for policy store, gate, run rows and
the browser's stream; proofs for compute, registry, run history, its views and the
experiments.

Next, most important first:

1. **Composition**: node call and admission with one shared slot, `NodeExecution` as
   the environment that `Admission` abstracts, shown by a refinement; it replaces
   `admission_engine`'s free environment and the runs of both.
2. **Proof** of the composition's refinement.
3. **Views**: the workflow-task window, `get_run_live`, the inbox listing, and the
   cost view against the ledger's best-effort writes.
4. **Two keys** in `StartRun`, and the gate's row in `RunHistory`.

The set of runs is kept small: a new question joins the run of its component where it
can, or replaces a shallower one.
