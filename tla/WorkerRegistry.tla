--------------------------- MODULE WorkerRegistry ---------------------------
(***************************************************************************)
(* One worker id: its row in Postgres, its liveness key in Redis, the      *)
(* processes that run under it one after the other (or, in a restart, side *)
(* by side), and the reconciler that reaps cold rows.                      *)
(*                                                                         *)
(* Time is counted in ticks; ages are kept up to where they stop to matter.*)
(***************************************************************************)
EXTENDS Naturals

CONSTANTS
  Processes,
  Ttl,        \* ticks a liveness key lives
  ReapAfter,  \* ticks after which a row is cold
  MaxCold,    \* ticks a running process may be without a finished beat
  MaxFailures,  \* bound on the outages of Redis and the failing statements
  NoRow, NoProcess

ASSUME RegistryAssumption ==
  /\ {Ttl, ReapAfter, MaxCold} \subseteq Nat \ {0}
  /\ MaxFailures \in Nat
  /\ NoRow \notin Nat /\ NoProcess \notin Processes

Oldest == ReapAfter + 1
Ages == 0 .. Oldest

VARIABLES
  row,    \* the age of last_heartbeat_at, or NoRow
  key,    \* ticks the liveness key has left; 0: absent
  redis,  \* Redis answers
  proc,   \* each process: where it is, ticks since its last commit (cold) and
          \* since the one before it (span), and its beat's timestamp (stamp)
  failures,  \* failures so far
  writer  \* history: the process that wrote the row that is there

registryVars == <<row, key, redis, proc, failures, writer>>

Running == {"starting", "up", "beating", "registering"}
At == Running \cup {"off", "stopping", "clearing", "gone"}

RegistryTypeOK ==
  /\ row \in Ages \cup {NoRow}
  /\ key \in 0 .. Ttl
  /\ redis \in BOOLEAN
  /\ proc \in [Processes -> [at : At, cold : 0 .. MaxCold, span : Ages, stamp : Ages]]
  /\ failures \in 0 .. MaxFailures
  /\ writer \in Processes \cup {NoProcess}

RegistryInit ==
  /\ row = NoRow
  /\ key = 0
  /\ redis = TRUE
  /\ proc = [p \in Processes |-> [at |-> "off", cold |-> 0, span |-> 0, stamp |-> 0]]
  /\ failures = 0
  /\ writer = NoProcess

Up(p) == proc[p].at \in Running
Becomes(p, at) == proc' = [proc EXCEPT ![p].at = at]

Older(age) == IF age = Oldest THEN age ELSE age + 1

\* Time passes.  A running process may be suspended, or wait for a failing
\* database, but for no longer than MaxCold ticks.
Tick ==
  /\ \A p \in Processes : Up(p) => proc[p].cold < MaxCold
  /\ row' = IF row = NoRow THEN NoRow ELSE Older(row)
  /\ key' = IF key = 0 THEN 0 ELSE key - 1
  /\ proc' = [p \in Processes |->
       IF Up(p) THEN [proc[p] EXCEPT !.cold = @ + 1, !.span = Older(@),
                                     !.stamp = IF proc[p].at = "beating" THEN Older(@) ELSE 0]
       ELSE proc[p]]
  /\ UNCHANGED <<redis, failures, writer>>

Failure ==
  /\ failures < MaxFailures
  /\ failures' = failures + 1

RedisFails ==
  /\ redis
  /\ Failure
  /\ redis' = FALSE
  /\ UNCHANGED <<row, key, proc, writer>>

RedisReturns ==
  /\ ~redis
  /\ redis' = TRUE
  /\ UNCHANGED <<row, key, proc, failures, writer>>

SetLiveness == key' = IF redis THEN Ttl ELSE key

------------------------------------------------------------------------------
(* WorkerRegistration *)

\* start(): register first, then the heartbeat loop.
Start(p) ==
  /\ proc[p].at = "off"
  /\ Becomes(p, "starting")
  /\ UNCHANGED <<row, key, redis, failures, writer>>

\* p's statement commits with timestamp age, and its loop goes on.
Commits(p, age) ==
  /\ row' = age
  /\ writer' = p
  /\ proc' = [proc EXCEPT ![p] = [at |-> "up", cold |-> 0, span |-> IF @.cold < Oldest THEN @.cold ELSE Oldest,
                               stamp |-> 0]]
  /\ UNCHANGED failures

\* It raises, which is logged, and the loop goes on.
Raises(p) ==
  /\ proc' = [proc EXCEPT ![p] = [@ EXCEPT !.at = "up", !.stamp = 0]]
  /\ UNCHANGED <<row, writer>>

\* _register: the upsert, which may fail, then the key.
Register(p) ==
  /\ proc[p].at \in {"starting", "registering"}
  /\ Commits(p, 0) \/ (Failure /\ Raises(p))
  /\ SetLiveness
  /\ UNCHANGED redis

\* Mutant of Beat: a row that is gone is not put back.
BeatBumps(p) ==
  /\ proc[p].at = "up"
  /\ SetLiveness
  /\ proc' = [proc EXCEPT ![p] =
       IF row = NoRow THEN [@ EXCEPT !.at = "up", !.stamp = 0, !.cold = 0]
       ELSE [@ EXCEPT !.at = "beating", !.stamp = 0]]
  /\ UNCHANGED <<row, redis, failures, writer>>

\* _beat: the key, then the row is loaded and gets the time.
Beat(p) ==
  /\ proc[p].at = "up"
  /\ SetLiveness
  /\ proc' = [proc EXCEPT ![p] =
       [@ EXCEPT !.at = IF row = NoRow THEN "registering" ELSE "beating", !.stamp = 0]]
  /\ UNCHANGED <<row, redis, failures, writer>>

\* The update commits; on a row deleted meanwhile it raises, as any failing
\* statement does, and the loop goes on to the next beat.
BeatCommits(p) ==
  /\ proc[p].at = "beating"
  /\ \/ row # NoRow /\ Commits(p, proc[p].stamp)
     \/ row = NoRow /\ Raises(p) /\ UNCHANGED failures
     \/ Failure /\ Raises(p)
  /\ UNCHANGED <<key, redis>>

\* A process that is not up has no beat under way.
Leave(p, at) ==
  proc' = [proc EXCEPT ![p] = [at |-> at, cold |-> 0, span |-> 0, stamp |-> 0]]

\* stop() cancels the loop, wherever the beat is.
Stop(p) ==
  /\ Up(p) /\ proc[p].at # "starting"
  /\ Leave(p, "stopping")
  /\ UNCHANGED <<row, key, redis, failures, writer>>

Deregister(p) ==
  /\ proc[p].at = "stopping"
  /\ \/ row' = NoRow /\ writer' = NoProcess /\ UNCHANGED failures
     \/ Failure /\ UNCHANGED <<row, writer>>
  /\ Leave(p, "clearing")
  /\ UNCHANGED <<key, redis>>

ClearLiveness(p) ==
  /\ proc[p].at = "clearing"
  /\ key' = IF redis THEN 0 ELSE key
  /\ Leave(p, "gone")
  /\ UNCHANGED <<row, redis, failures, writer>>

\* SIGKILL, or the host is lost.
Kill(p) ==
  /\ Up(p) \/ proc[p].at \in {"stopping", "clearing"}
  /\ Leave(p, "gone")
  /\ UNCHANGED <<row, key, redis, failures, writer>>

------------------------------------------------------------------------------
\* Mutant of Reap: a row is cold as soon as its worker shows as stale.
ReapStale ==
  /\ row # NoRow /\ row > Ttl
  /\ row' = NoRow
  /\ writer' = NoProcess
  /\ UNCHANGED <<key, redis, proc, failures>>

\* Mutant of Reap: the comparison with the cutoff is turned round.
ReapFresh ==
  /\ row # NoRow /\ row < ReapAfter
  /\ row' = NoRow
  /\ writer' = NoProcess
  /\ UNCHANGED <<key, redis, proc, failures>>

\* reap_stale_workers, in a pass of the reconciler.
Reap ==
  /\ row # NoRow /\ row > ReapAfter
  /\ row' = NoRow
  /\ writer' = NoProcess
  /\ UNCHANGED <<key, redis, proc, failures>>

\* WorkerService.list_workers: what the fleet view shows.
Status ==
  CASE row = NoRow -> "absent"
    [] ~redis -> "unknown"
    [] key > 0 -> "live"
    [] OTHER -> "stale"

Work(p) == Register(p) \/ Beat(p) \/ BeatCommits(p)
Departs(p) == Deregister(p) \/ ClearLiveness(p)

RegistryNext ==
  \/ Tick \/ RedisFails \/ RedisReturns \/ Reap
  \/ \E p \in Processes : Start(p) \/ Work(p) \/ Stop(p) \/ Departs(p) \/ Kill(p)

\* Time passes, a process that runs keeps beating, one that drains finishes,
\* the reconciler keeps passing and Redis comes back; no process has to start or
\* to stop.
Fairness ==
  /\ WF_registryVars(Tick) /\ WF_registryVars(Reap) /\ WF_registryVars(RedisReturns)
  /\ \A p \in Processes : WF_registryVars(Work(p)) /\ WF_registryVars(Departs(p))

RegistrySpec == RegistryInit /\ [][RegistryNext]_registryVars
RegistryFairSpec == RegistrySpec /\ Fairness

------------------------------------------------------------------------------
(* Properties *)

\* A worker that beats in time keeps the row it wrote (reap_stale_workers: "which
\* a live worker never will"): a row is reaped under a process that runs only if
\* its last two commits lie further back than ReapAfter.  One is not enough: a
\* beat takes its timestamp before its commit.
HealthyIsNotReaped ==
  [][Reap /\ writer # NoProcess /\ Up(writer) => proc[writer].span > ReapAfter]_registryVars

\* A worker that stays up is shown again, whatever happened to its row: reaped
\* in a long pause, or removed by an older process under the same id.
UpIsShown ==
  \A p \in Processes : <>[]Up(p) => []<>(row # NoRow /\ Status = "live")

\* The row of a killed worker does not stay (reap_stale_workers).
DeadIsReaped ==
  (\A p \in Processes : proc[p].at = "gone") ~> row = NoRow
=============================================================================
