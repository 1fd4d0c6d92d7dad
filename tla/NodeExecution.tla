---------------------------- MODULE NodeExecution ----------------------------
(***************************************************************************)
(* One node call, from Temporal's activity retries through the run_node    *)
(* activity, the admission call, the PostgresInboxGuard and the release of *)
(* the scheduler slot.                                                     *)
(*                                                                         *)
(* Temporal dispatches one attempt at a time, but it stops waiting for an  *)
(* attempt (heartbeat or start-to-close timeout) without stopping the      *)
(* process that runs it: the old execution may be dead, or merely late.    *)
(* Every await of run_node is a step of its own here, so attempts, crashes *)
(* and the scheduler interleave exactly where the coroutine yields.        *)
(***************************************************************************)
EXTENDS Naturals

CONSTANTS
  MaxAttempts    \* RetrySpec.maximum_attempts of the node's policy

ASSUME MaxAttemptsAssumption == MaxAttempts \in Nat \ {0}

Attempts == 1 .. MaxAttempts

VARIABLES
  \* the node class: TRUE for one declared idempotent = False (http, database,
  \* python), FALSE for an idempotent one (llm)
  guarded,
  \* Temporal's record of the activity
  srv,        \* "queued", "running", "completed" or "failed"
  cur,        \* the attempt dispatched last, 0 before the first
  closed,     \* closed[a]: how Temporal closed attempt a
  returned,   \* the attempt whose result the workflow received, or 0
  \* the executions of run_node, one per attempt
  pc,         \* the next await of the coroutine
  says,       \* what the coroutine reports when it returns or raises
  res,        \* the attempt whose effect produced the result it holds, or 0
  fired,      \* the attempts whose effect was performed
  \* the inbox row of the idempotency key
  row,        \* "none", "pending" or "done"
  rowResult,  \* the attempt whose result the row stores, or 0
  \* reporting
  slot,       \* the scheduler's in-flight entry: the attempt it admitted, or 0
  costs,      \* attempts with a cost_ledger row
  \* history, read only by properties
  stored,     \* attempts that wrote their result into the row
  overlap     \* pairs <<a, b>>: a passed the guard while b was inside it

server == <<srv, cur, closed, returned>>
inbox == <<row, rowResult, stored>>
vars == <<guarded, server, pc, says, res, fired, inbox, slot, costs, overlap>>

PcStates == {"idle", "admit", "guard", "effect", "inflight", "store", "cost",
             "release", "report", "ended"}
Reports == {"none", "ok", "deferred", "rejected", "transient", "terminal",
            "raised"}
Closings == Reports \cup {"timedout"}

TypeOK ==
  /\ guarded \in BOOLEAN
  /\ srv \in {"queued", "running", "completed", "failed"}
  /\ cur \in 0 .. MaxAttempts
  /\ closed \in [Attempts -> Closings]
  /\ returned \in 0 .. MaxAttempts
  /\ pc \in [Attempts -> PcStates]
  /\ says \in [Attempts -> Reports]
  /\ res \in [Attempts -> 0 .. MaxAttempts]
  /\ fired \in SUBSET Attempts
  /\ row \in {"none", "pending", "done"}
  /\ rowResult \in 0 .. MaxAttempts
  /\ slot \in 0 .. MaxAttempts
  /\ costs \in SUBSET Attempts
  /\ stored \in SUBSET Attempts
  /\ overlap \in SUBSET (Attempts \X Attempts)

Init ==
  /\ guarded \in BOOLEAN
  /\ srv = "queued"
  /\ cur = 0
  /\ closed = [a \in Attempts |-> "none"]
  /\ returned = 0
  /\ pc = [a \in Attempts |-> "idle"]
  /\ says = [a \in Attempts |-> "none"]
  /\ res = [a \in Attempts |-> 0]
  /\ fired = {}
  /\ row = "none"
  /\ rowResult = 0
  /\ slot = 0
  /\ costs = {}
  /\ stored = {}
  /\ overlap = {}

------------------------------------------------------------------------------
(* Temporal's side *)

Live(a) == pc[a] \notin {"idle", "ended"}
InWindow(a) == pc[a] \in {"effect", "inflight", "store"}

\* A failure Temporal retries as long as attempts remain.  A deferral is one:
\* it is a retryable ApplicationError, so it consumes an attempt.
Retryable(how) == how \in {"deferred", "transient", "raised", "timedout"}

\* The server records that the attempt it waits for ended without a result.
CloseFailed(a, how) ==
  /\ closed' = [closed EXCEPT ![a] = how]
  /\ srv' = IF Retryable(how) /\ cur < MaxAttempts THEN "queued" ELSE "failed"
  /\ UNCHANGED <<cur, returned>>

\* A worker that polls the queue receives the next attempt.
Dispatch ==
  /\ srv = "queued"
  /\ srv' = "running"
  /\ cur' = cur + 1
  /\ pc' = [pc EXCEPT ![cur + 1] = "admit"]
  /\ UNCHANGED <<guarded, closed, returned, says, res, fired, inbox, slot, costs, overlap>>

\* Mutant of Timeout: only a dead worker is ever noticed, as without any
\* start-to-close timeout.
TimeoutOfDeadOnly ==
  /\ srv = "running"
  /\ ~Live(cur)
  /\ CloseFailed(cur, "timedout")
  /\ UNCHANGED <<guarded, pc, says, res, fired, inbox, slot, costs, overlap>>

\* The heartbeat or start-to-close timer of the current attempt fires.  The
\* server cannot tell a dead worker from one that is stalled or cut off.
Timeout ==
  /\ srv = "running"
  /\ CloseFailed(cur, "timedout")
  /\ UNCHANGED <<guarded, pc, says, res, fired, inbox, slot, costs, overlap>>

\* The coroutine is over and its locals are gone.
End(a) ==
  /\ pc' = [pc EXCEPT ![a] = "ended"]
  /\ says' = [says EXCEPT ![a] = "none"]
  /\ res' = [res EXCEPT ![a] = 0]

\* The execution's answer reaches the server; one nobody waits for is ignored.
Report(a) ==
  /\ pc[a] = "report"
  /\ End(a)
  /\ \/ /\ srv = "running" /\ a = cur /\ says[a] = "ok"
        /\ closed' = [closed EXCEPT ![a] = "ok"]
        /\ srv' = "completed"
        /\ returned' = res[a]
        /\ UNCHANGED cur
     \/ /\ srv = "running" /\ a = cur /\ says[a] # "ok"
        /\ CloseFailed(a, says[a])
     \/ /\ ~(srv = "running" /\ a = cur)
        /\ UNCHANGED server
  /\ UNCHANGED <<guarded, fired, inbox, slot, costs, overlap>>

------------------------------------------------------------------------------
(* run_node: admission *)

Goto(a, label) == pc' = [pc EXCEPT ![a] = label]

\* The coroutine is about to return or raise.
Answer(a, what) ==
  /\ says' = [says EXCEPT ![a] = what]
  /\ Goto(a, "report")

AfterAdmission == IF guarded THEN "guard" ELSE "effect"

\* The scheduler admits and takes the slot of this (run, node).
AdmitGranted(a) ==
  /\ pc[a] = "admit"
  /\ Goto(a, AfterAdmission)
  /\ slot' = a
  /\ UNCHANGED <<guarded, server, says, res, fired, inbox, costs, overlap>>

\* The scheduler is disabled or unreachable: the client admits by default.
AdmitOpen(a) ==
  /\ pc[a] = "admit"
  /\ Goto(a, AfterAdmission)
  /\ UNCHANGED <<guarded, server, says, res, fired, inbox, slot, costs, overlap>>

\* "Not yet" or "never": run_node raises before it leaves any trace.
AdmitRefused(a) ==
  /\ pc[a] = "admit"
  /\ \E what \in {"deferred", "rejected"} : Answer(a, what)
  /\ UNCHANGED <<guarded, server, res, fired, inbox, slot, costs, overlap>>

------------------------------------------------------------------------------
(* run_node: the guarded effect *)

\* Mutant of GuardHit: any existing row counts as an answer.
GuardHitOnPending(a) ==
  /\ pc[a] = "guard"
  /\ row # "none"
  /\ res' = [res EXCEPT ![a] = rowResult]
  /\ Goto(a, "cost")
  /\ UNCHANGED <<guarded, server, says, fired, inbox, slot, costs, overlap>>

\* First transaction of get_or_run, the row is done: its result is returned.
GuardHit(a) ==
  /\ pc[a] = "guard"
  /\ row = "done"
  /\ res' = [res EXCEPT ![a] = rowResult]
  /\ Goto(a, "cost")
  /\ UNCHANGED <<guarded, server, says, fired, inbox, slot, costs, overlap>>

\* Mutant of GuardPass: the reservation overwrites whatever row is there.
GuardPassAlways(a) ==
  /\ pc[a] = "guard"
  /\ row' = "pending"
  /\ Goto(a, "effect")
  /\ overlap' = overlap \cup {<<a, b>> : b \in {c \in Attempts : InWindow(c)}}
  /\ UNCHANGED <<guarded, server, says, res, fired, rowResult, stored, slot, costs>>

\* First transaction, no result yet: the key is reserved if it was free, and
\* the effect runs whether this caller or another holds the reservation.
GuardPass(a) ==
  /\ pc[a] = "guard"
  /\ row # "done"
  /\ row' = "pending"
  /\ Goto(a, "effect")
  /\ overlap' = overlap \cup {<<a, b>> : b \in {c \in Attempts : InWindow(c)}}
  /\ UNCHANGED <<guarded, server, says, res, fired, rowResult, stored, slot, costs>>

\* The effect is performed: the request leaves the process.
Fire(a) ==
  /\ pc[a] = "effect"
  /\ fired' = fired \cup {a}
  /\ Goto(a, "inflight")
  /\ UNCHANGED <<guarded, server, says, res, inbox, slot, costs, overlap>>

\* The node returns its output.
EffectOk(a) ==
  /\ pc[a] = "inflight"
  /\ res' = [res EXCEPT ![a] = a]
  /\ Goto(a, IF guarded THEN "store" ELSE "cost")
  /\ UNCHANGED <<guarded, server, says, fired, inbox, slot, costs, overlap>>

\* Mutant of EffectNodeError: the node logs its cost before it makes the call.
EffectNodeErrorBilled(a) ==
  /\ pc[a] \in {"effect", "inflight"}
  /\ \E what \in {"transient", "terminal"} : says' = [says EXCEPT ![a] = what]
  /\ Goto(a, "release")
  /\ costs' = costs \cup {a}
  /\ UNCHANGED <<guarded, server, res, fired, inbox, slot, overlap>>

\* A NodeError, before or after the request left: the failed attempt is
\* logged, then the slot is released and the error raised.
EffectNodeError(a) ==
  /\ pc[a] \in {"effect", "inflight"}
  /\ \E what \in {"transient", "terminal"} : says' = [says EXCEPT ![a] = what]
  /\ Goto(a, "release")
  /\ UNCHANGED <<guarded, server, res, fired, inbox, slot, costs, overlap>>

\* Any other exception (validation, transport, database): nothing in run_node
\* catches it, so the slot is not released.
Raise(a) ==
  /\ pc[a] \in {"guard", "effect", "inflight", "store"}
  /\ Answer(a, "raised")
  /\ UNCHANGED <<guarded, server, res, fired, inbox, slot, costs, overlap>>

\* Second transaction of get_or_run: upsert, the last writer wins.
Store(a) ==
  /\ pc[a] = "store"
  /\ row' = "done"
  /\ rowResult' = res[a]
  /\ stored' = stored \cup {a}
  /\ Goto(a, "cost")
  /\ UNCHANGED <<guarded, server, says, res, fired, slot, costs, overlap>>

\* record_cost: best effort, at most one row per attempt.  Only the llm node,
\* which is not guarded, reports a cost; a zero cost writes no row.
RecordCost(a) ==
  /\ pc[a] = "cost"
  /\ costs' \in {costs, IF guarded THEN costs ELSE costs \cup {a}}
  /\ says' = [says EXCEPT ![a] = "ok"]
  /\ Goto(a, "release")
  /\ UNCHANGED <<guarded, server, res, fired, inbox, slot, overlap>>

\* scheduler.complete names (run, node), not the attempt; it may be lost.
Release(a) ==
  /\ pc[a] = "release"
  /\ slot' \in {slot, 0}
  /\ Goto(a, "report")
  /\ UNCHANGED <<guarded, server, says, res, fired, inbox, costs, overlap>>

------------------------------------------------------------------------------
(* Failures *)

\* The worker process dies, or a late execution is cancelled at its next
\* heartbeat: the coroutine stops where it is and no handler runs.
Crash(a) ==
  /\ Live(a)
  /\ End(a)
  /\ UNCHANGED <<guarded, server, fired, inbox, slot, costs, overlap>>

\* The entry's TTL passes and a sweep drops it.  A node may override its
\* timeout_seconds beyond the TTL, so its attempt may still be running.
ExpireSlot ==
  /\ slot # 0
  /\ slot' = 0
  /\ UNCHANGED <<guarded, server, pc, says, res, fired, inbox, costs, overlap>>

\* The scheduler restarts with an empty in-memory gauge.
SchedulerRestart ==
  /\ slot # 0
  /\ slot' = 0
  /\ UNCHANGED <<guarded, server, pc, says, res, fired, inbox, costs, overlap>>

Admission(a) == AdmitGranted(a) \/ AdmitOpen(a) \/ AdmitRefused(a)
Guard(a) == GuardHit(a) \/ GuardPass(a) \/ Store(a)
Effect(a) == Fire(a) \/ EffectOk(a) \/ EffectNodeError(a) \/ Raise(a)
RunNode(a) ==
  Admission(a) \/ Guard(a) \/ Effect(a) \/ RecordCost(a) \/ Release(a) \/ Report(a)

Next ==
  \/ Dispatch \/ Timeout \/ ExpireSlot \/ SchedulerRestart
  \/ \E a \in Attempts : RunNode(a) \/ Crash(a)

Spec == Init /\ [][Next]_vars

\* The executions the README speaks of, by themselves: attempts run one after the
\* other, the next only when its predecessor is dead, nothing is deferred and no
\* call raises.  All that ever goes wrong is a crash.
CrashOnly ==
  \/ Dispatch \/ (Timeout /\ ~Live(cur))
  \/ \E a \in Attempts :
       \/ AdmitGranted(a) \/ Guard(a) \/ Fire(a) \/ EffectOk(a)
       \/ RecordCost(a) \/ Release(a) \/ Report(a) \/ Crash(a)

CrashSpec == Init /\ [][CrashOnly]_vars

\* A worker eventually polls and Temporal's timers eventually fire.  Nothing is
\* assumed of the executions themselves.
Fairness == WF_vars(Dispatch) /\ WF_vars(Timeout)
FairSpec == Spec /\ Fairness

------------------------------------------------------------------------------
(* Properties *)

\* A result is never invented: what the workflow received, what the row holds
\* and what is billed each come from an execution that performed the effect
\* (run_node's return value, the inbox row and the cost row of that attempt).
ResultsAreReal ==
  /\ returned # 0 => returned \in fired
  /\ srv = "completed" => returned # 0
  /\ row = "done" => rowResult \in fired
  /\ costs \subseteq fired

\* What the inbox guard does achieve: two attempts both commit their effect
\* only if one of them had been timed out by Temporal while it was still inside
\* get_or_run.  Sequential retries never commit twice (inbox.py, get_or_run).
DoubleCommitNeedsLateAttempt ==
  \A a, b \in stored :
    a # b => /\ <<a, b>> \in overlap \/ <<b, a>> \in overlap
             /\ closed[IF a < b THEN a ELSE b] = "timedout"

\* A key whose effect was committed stays committed: no retry, late attempt or
\* crash takes the row back, and none loses the last stored result.
DoneIsForever == [][row = "done" => row' = "done" /\ rowResult' \in stored']_vars

\* Temporal's at-least-once dispatch: an attempt runs beside another one only
\* after the server gave the earlier one up by a timeout.
LateMeansTimedOut ==
  \A a \in Attempts : Live(a) /\ (a # cur \/ srv # "running") => closed[a] = "timedout"

\* The node call is a correct at-least-once activity.
Contract == INSTANCE ActivityContract
              WITH outcome <- IF srv \in {"queued", "running"} THEN "open" ELSE srv,
                   delivered <- returned
ImplementsContract == Contract!Spec

\* Every node call closes: timeouts and attempts are both bounded.
CallCloses == <>(srv \in {"completed", "failed"})

\* README: "An idempotency inbox makes a double-fired HTTP POST fire once, even
\* across a mid-effect crash".  Two attempts perform the effect only if the
\* first was closed with a transient node error, which asks for a retry.
EffectOnce ==
  guarded => \A a, b \in fired : a < b => closed[a] = "transient"
==============================================================================
