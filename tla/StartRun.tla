------------------------------ MODULE StartRun ------------------------------
(***************************************************************************)
(* Starting one run under one Idempotency-Key: IdempotencyMiddleware and   *)
(* its per-process store, WorkflowService.start_run, and the uniqueness of *)
(* Temporal's workflow ids; a client repeats its request on any replica.   *)
(* The executions and rows are those that RunProjection follows.           *)
(*                                                                         *)
(* An execution is its number; 0 is none.                                  *)
(***************************************************************************)
EXTENDS RunProjection

CONSTANTS
  Requests,    \* the client's requests, all with the same key
  Apis,        \* API processes
  NoRequest

ASSUME StartAssumption ==
  /\ IsFiniteSet(Requests) /\ NoRequest \notin Requests
  /\ Runs = 1 .. Cardinality(Requests)
  /\ \A st \in Settings : st.requests \subseteq Requests

Executions == Runs \cup {0}
Stages == {"idle", "begun", "started", "already", "created", "done", "failed", "conflict", "orphaned", "lost"}

VARIABLES
  cache,     \* each process's entry: absent, in flight for a request, or done
  request    \* each request: where it is, in which process, with which run

start == <<cache, request>>
vars == <<start, projection>>

\* Temporal: the last execution under this workflow id, and whether it is open.
latest == Cardinality({r \in Runs : temporal[r] # "none"})
running == latest # 0 /\ temporal[latest] = "Running"
rows == DOMAIN row

Absent == [at |-> "absent", owner |-> NoRequest, run |-> 0]

Api(r) == request[r].api

\* A request whose handler is running.
InHand(r) == request[r].at \in {"begun", "started", "already", "created"}

TypeOK ==
  /\ cache \in [Apis -> [at : {"absent", "in_flight", "stored"},
                         owner : Requests \cup {NoRequest}, run : Executions]]
  /\ request \in [Requests -> [at : Stages, api : Apis, run : Executions]]
  /\ ProjectionTypeOK

Init ==
  /\ cache = [a \in Apis |-> Absent]
  /\ ProjectionInit
  /\ request \in [Requests -> [at : {"idle"}, api : Apis, run : {0}]]
  /\ \A r \in Requests \ setting.requests : Api(r) = CHOOSE a \in Apis : TRUE

Goto(r, at, run) == request' = [request EXCEPT ![r] = [@ EXCEPT !.at = at, !.run = run]]

------------------------------------------------------------------------------
(* IdempotencyMiddleware.dispatch *)

\* The key is new to this process: it is reserved, and the handler runs.
Begin(r) ==
  /\ request[r].at = "idle"
  /\ cache[Api(r)].at = "absent"
  /\ cache' = [cache EXCEPT ![Api(r)] = [at |-> "in_flight", owner |-> r, run |-> 0]]
  /\ Goto(r, "begun", 0)
  /\ UNCHANGED projection

\* 409: the first request is still in this process's hands.
Conflict(r) ==
  /\ request[r].at = "idle"
  /\ cache[Api(r)].at = "in_flight"
  /\ Goto(r, "conflict", 0)
  /\ UNCHANGED <<cache, projection>>

\* The stored response is replayed.
Replay(r) ==
  /\ request[r].at = "idle"
  /\ cache[Api(r)].at = "stored"
  /\ Goto(r, "done", cache[Api(r)].run)
  /\ UNCHANGED <<cache, projection>>

\* The entry's day is over (_sweep).
Sweep(a) ==
  /\ cache[a].at = "stored"
  /\ cache' = [cache EXCEPT ![a] = Absent]
  /\ UNCHANGED <<request, projection>>

\* finish: a response under 400 is kept.
Finish(r, run) ==
  /\ cache' = [cache EXCEPT ![Api(r)] = [at |-> "stored", owner |-> NoRequest, run |-> run]]
  /\ Goto(r, "done", run)

\* Mutant of Fail: a handler that fails leaves its reservation behind.
FailKeepsKey(r, at) ==
  /\ UNCHANGED cache
  /\ Goto(r, at, 0)

\* finish with an error status, or abandon: the key is free again.
Fail(r, at) ==
  /\ cache' = [cache EXCEPT ![Api(r)] = Absent]
  /\ Goto(r, at, 0)

------------------------------------------------------------------------------
(* WorkflowService.start_run *)

\* Mutant of StartWorkflow: the workflow id does not carry the key.
StartWorkflowUnkeyed(r) ==
  /\ request[r].at = "begun"
  /\ temporal' = [temporal EXCEPT ![latest + 1] = "Running"]
  /\ Goto(r, "started", latest + 1)
  /\ UNCHANGED <<cache, setting, row, session, announced, failures>>

\* Temporal takes the id: no execution with it is open (the default reuse
\* policy lets a closed one's id be used again).
StartWorkflow(r) ==
  /\ request[r].at = "begun"
  /\ ~running
  /\ temporal' = [temporal EXCEPT ![latest + 1] = "Running"]
  /\ Goto(r, "started", latest + 1)
  /\ UNCHANGED <<cache, setting, row, session, announced, failures>>

AlreadyStarted(r) ==
  /\ request[r].at = "begun"
  /\ running
  /\ Goto(r, "already", 0)
  /\ UNCHANGED <<cache, projection>>

\* Same key: the run that is there is returned (the first row found).
ReturnExisting(r) ==
  /\ request[r].at = "already"
  /\ \E run \in rows : Finish(r, run)
  /\ UNCHANGED projection

\* No row for the id: the error goes up, and the request ends with a 500.
NoRowYet(r) ==
  /\ request[r].at = "already"
  /\ rows = {}
  /\ Fail(r, "orphaned")
  /\ UNCHANGED projection

CreateRun(r) ==
  /\ request[r].at = "started"
  /\ row' = [q \in rows \cup {request[r].run} |-> IF q \in rows THEN row[q] ELSE NewRow]
  /\ Goto(r, "created", request[r].run)
  /\ UNCHANGED <<cache, setting, temporal, session, announced, failures>>

\* get_run answers (its refresh is a reader's session).
Answer(r) ==
  /\ request[r].at = "created"
  /\ Finish(r, request[r].run)
  /\ UNCHANGED projection

\* A database or Temporal call of the handler raises.
Raise(r) ==
  /\ InHand(r)
  /\ Failure
  /\ Fail(r, "failed")
  /\ UNCHANGED <<setting, temporal, row, session, announced>>

------------------------------------------------------------------------------
\* An API process dies with the requests it has, and comes back empty.
Crash(a) ==
  /\ Failure
  /\ \E r \in Requests : InHand(r) /\ Api(r) = a
  /\ cache' = [cache EXCEPT ![a] = Absent]
  /\ request' = [r \in Requests |->
       IF InHand(r) /\ Api(r) = a THEN [request[r] EXCEPT !.at = "lost"] ELSE request[r]]
  /\ UNCHANGED <<setting, temporal, row, session, announced>>

Handle(r) ==
  \/ Begin(r) \/ Conflict(r) \/ Replay(r)
  \/ StartWorkflow(r) \/ AlreadyStarted(r) \/ ReturnExisting(r) \/ NoRowYet(r)
  \/ CreateRun(r) \/ Answer(r) \/ Raise(r)

Next ==
  \/ \E r \in setting.requests : Handle(r)
  \/ \E a \in Apis : Sweep(a) \/ Crash(a)
  \/ ProjectionNext /\ UNCHANGED start

\* The reconciler's loop never stops, and a session under way is finished;
\* no client has to ask, no run has to end and nobody has to read.
Fairness ==
  /\ \A s \in Reconcilers : WF_vars(Reconcile(s) /\ UNCHANGED start)
  /\ \A s \in Sessions : WF_vars(Step(s) /\ UNCHANGED start)

Spec == Init /\ [][Next]_vars /\ Fairness

------------------------------------------------------------------------------
(* Properties *)

\* A key is reserved in a process exactly while a handler runs there for it,
\* whatever way the handler leaves by, or it would answer 409 for a day
\* (IdempotencyMiddleware: finish and abandon).
ReservationIsHeld ==
  \A a \in Apis, r \in Requests :
    (InHand(r) /\ Api(r) = a) <=> (cache[a].at = "in_flight" /\ cache[a].owner = r)

\* Every answer names a run that has a row, and as long as the workflow has not
\* ended every answer names the same one, on whichever replica, after whatever
\* failure (IdempotencyMiddleware and start_run, "same key -> existing run").
SameAnswer ==
  /\ \A r \in Requests : request[r].at = "done" => request[r].run \in rows
  /\ (\A run \in Runs : ~Ended(temporal[run])) => \A r, s \in Requests :
       request[r].at = "done" /\ request[s].at = "done" => request[r].run = request[s].run
=============================================================================
