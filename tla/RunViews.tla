------------------------------ MODULE RunViews ------------------------------
(***************************************************************************)
(* What the API makes of a run: the execution graph, the recovery report   *)
(* and the liveness of the process behind an attempt, each computed from   *)
(* one reading of the run.                                                 *)
(*                                                                         *)
(* A reading is not atomic: the status comes first, then the history, then *)
(* what is pending, and that last call may fail and leave nothing.  A vertex *)
(* is a record; an activity's id is its scheduled event, the wait's is 0.  *)
(***************************************************************************)
EXTENDS RunHistory

\* Events that the server writes together with the one before them.
Appended == {"Scheduled", "TimerStarted", "TimerCanceled"}
Whole(n) ==
  \/ n = Len(history)
  \/ /\ history[n + 1].type \notin Appended
     /\ history[n + 1].type = "Closed" => history[n + 1].status = "Terminated"
     /\ n > 0 => history[n].type # "Started"

Reading(n, over, described) ==
  [events |-> SubSeq(history, 1, n),
   over |-> over,
   pending |-> IF described THEN pending ELSE NoPending,
   task |-> described /\ task # "none"]

\* Nothing happened during the reading.
Sharp == Reading(Len(history), Closed, TRUE)

Of(read, type) == {i \in DOMAIN read.events : read.events[i].type = type}
About(read, type, s) == {i \in Of(read, type) : read.events[i].of = s}

------------------------------------------------------------------------------
(* The execution graph *)

Activities(read) == {i \in Of(read, "Scheduled") : read.events[i].kind = "node"}
Opens(read) == {i \in Of(read, "Scheduled") : read.events[i].kind = "open"}
Closes(read) == {i \in Of(read, "Scheduled") : read.events[i].kind = "close"}

\* The last workflow task answered scheduled nothing after it.
LooksParked(read) ==
  \E t \in Of(read, "TaskCompleted") :
    \A i \in Of(read, "Scheduled") \cup Of(read, "TimerStarted") \cup Of(read, "TaskCompleted") : i <= t

\* Mutant of ActivityState: history alone, without what is pending.
ActivityStateByHistory(read, s) ==
  CASE About(read, "Ended", s) # {} -> read.events[CHOOSE i \in About(read, "Ended", s) : TRUE].outcome
    [] About(read, "Ended", s) = {} /\ About(read, "Started", s) # {} -> "running"
    [] OTHER -> "queued"

ActivityState(read, s) ==
  IF About(read, "Ended", s) # {}
    THEN read.events[CHOOSE i \in About(read, "Ended", s) : TRUE].outcome
  ELSE IF s \in DOMAIN read.pending
    THEN IF read.pending[s].state = "started" THEN "running"
         ELSE IF read.pending[s].attempt > 1 THEN "retrying" ELSE "queued"
  ELSE IF About(read, "Started", s) # {} THEN "running" ELSE "queued"

At(read, events, otherwise) ==
  IF events = {} THEN otherwise ELSE read.events[CHOOSE i \in events : TRUE].at

NoTime == -1

\* Mutant of ActivityVertex: calls scheduled together are layered one by one.
ActivityVertexInARow(read, s) ==
  [id |-> s, layer |-> s, state |-> ActivityState(read, s),
   from |-> At(read, About(read, "Started", s), read.events[s].at),
   to |-> At(read, About(read, "Ended", s), NoTime)]

ActivityVertex(read, s) ==
  [id |-> s,
   layer |-> read.events[s].decided,
   state |-> ActivityState(read, s),
   from |-> At(read, About(read, "Started", s), read.events[s].at),
   to |-> At(read, About(read, "Ended", s), NoTime)]

And(taken, open, close) ==
  [o \in DOMAIN taken \cup {open} |-> IF o = open THEN close ELSE taken[o]]

\* Mutant of Takes: newest first.
TakesNewest(read, taken, close) ==
  LET free == {o \in Opens(read) \ DOMAIN taken : read.events[o].gate = read.events[close].gate}
  IN IF free = {} THEN taken ELSE And(taken, Max(free), close)

\* Oldest first: a close takes the first open of its gate before it that no
\* earlier close took.
Takes(read, taken, close) ==
  LET free == {o \in Opens(read) \ DOMAIN taken :
                 read.events[o].gate = read.events[close].gate /\ o < close}
  IN IF free = {} THEN taken ELSE And(taken, Min(free), close)

CloseOf(read) ==
  LET taken[n \in 0 .. Len(read.events)] ==
        IF n = 0 THEN [o \in {} |-> 0]
        ELSE IF n \in Closes(read) THEN Takes(read, taken[n - 1], n) ELSE taken[n - 1]
  IN taken[Len(read.events)]

GateVertex(read, o) ==
  LET close == CloseOf(read) IN
  [id |-> o,
   layer |-> read.events[o].decided,
   state |-> IF o \in DOMAIN close THEN "completed"
             ELSE IF read.over THEN "canceled" ELSE "waiting",
   answer |-> IF o \in DOMAIN close THEN read.events[close[o]].answer ELSE "none",
   from |-> At(read, About(read, "Ended", o), read.events[o].at),
   to |-> IF o \in DOMAIN close THEN read.events[close[o]].at ELSE NoTime]

Drawn(read) ==
  {ActivityVertex(read, s) : s \in Activities(read)} \cup {GateVertex(read, o) : o \in Opens(read)}

\* A run parked with nothing to point at gets a vertex of its own, behind all.
ShowsWait(read) ==
  /\ ~read.over /\ ~read.task /\ DOMAIN read.pending = {}
  /\ LooksParked(read)
  /\ Drawn(read) # {}
  /\ \A v \in Drawn(read) : v.state # "waiting"

\* Every vertex of a layer has an edge to every vertex of the next.
Edges(read) ==
  LET drawn == Drawn(read)
      layers == {v.layer : v \in drawn}
      Next(l) == {m \in layers : m > l /\ \A k \in layers : k <= l \/ k >= m}
  IN UNION {{<<v, w>> : w \in {x \in drawn : x.layer \in Next(v.layer)}} : v \in drawn}

\* The critical path takes the slowest measured vertex of each layer.
Duration(v) == IF v.to = NoTime THEN 0 ELSE v.to - v.from
CriticalSeconds(read) ==
  LET drawn == Drawn(read) IN
  FoldSet(LAMBDA layer, total : total + Max({Duration(v) : v \in {w \in drawn : w.layer = layer}}),
          0, {v.layer : v \in drawn})

------------------------------------------------------------------------------
(* The recovery report *)

Span(s, outcome, attempt, lost, from, to) ==
  [of |-> s, outcome |-> outcome, attempt |-> attempt, lost |-> lost, from |-> from, to |-> to]

\* Mutant of Before: the attempt that runs counts as lost too.
BeforeOneMore(s, attempt, from, to) ==
  IF attempt > 1 THEN {Span(s, "lost", attempt - 1, attempt, from, to)} ELSE {}

\* What came before an attempt that started: attempts nothing is left of, or
\* a wait in the queue longer than the floor.
Before(s, attempt, from, to) ==
  IF attempt > 1 THEN {Span(s, "lost", attempt - 1, attempt - 1, from, to)}
  ELSE IF to > from THEN {Span(s, "queued", 1, 0, from, to)}
  ELSE {}

Spans(read, s) ==
  LET since == read.events[s].at
      ended == About(read, "Ended", s)
      outcome == read.events[CHOOSE i \in ended : TRUE].outcome
      started == About(read, "Started", s)
      start == read.events[CHOOSE i \in started : TRUE]
      held == s \in DOMAIN read.pending /\ read.pending[s].state = "started"
  IN CASE started # {} ->
            Before(s, start.attempt, since, start.at)
            \cup {Span(s, IF ended = {} THEN "running" ELSE outcome, start.attempt, 0,
                       start.at, At(read, ended, NoTime))}
       [] started = {} /\ held /\ ended = {} ->
            Before(s, read.pending[s].attempt, since, read.pending[s].since)
            \cup {Span(s, "running", read.pending[s].attempt, 0, read.pending[s].since, NoTime)}
       [] OTHER ->
            {Span(s, IF ended = {} THEN "queued" ELSE outcome, 1, 0, since, At(read, ended, NoTime))}

\* state_of: the registry has one row per host, with the pid that came last; a
\* worker is live while its key is in Redis, and nobody is when Redis is down.
Live(c, redis) == redis /\ now - box[c].beat <= Ttl

\* Mutant of HeardFrom: a registered worker is believed.
HeardFromTtl(c) == now - box[c].beat <= Ttl

HeardFrom(c) == now - box[c].beat <= Fresh
LivenessOf(holder, redis) ==
  LET c == holder.box IN
  CASE holder = NoHolder -> "unknown"
    [] holder # NoHolder /\ Live(c, redis) ->
         IF holder.pid # box[c].pid THEN "replaced"
         ELSE IF HeardFrom(c) THEN "live" ELSE "unknown"
    [] OTHER -> "gone"

\* A kill from the Chaos Lab since the attempt started outweighs the registry.
HolderState(p, redis) ==
  LET state == LivenessOf(p.holder, redis) IN
  IF state = "live" /\ \E k \in kills : p.since < k /\ k <= now THEN "replaced" ELSE state

\* Mutant of Window: heartbeats do not shorten the wait.
WindowNoHeartbeat(s) ==
  LET p == pending[s] IN
  CASE p.state = "started" -> [kind |-> "detecting", deadline |-> p.since + history[s].budget]
    [] p.state = "scheduled" /\ p.next > now -> [kind |-> "backoff", deadline |-> p.next]
    [] OTHER -> [kind |-> "queued", deadline |-> NoTime]

\* The clock a pending activity waits on.
Window(s) ==
  LET p == pending[s]
      beats == history[s].kind = "node" /\ sc.heartbeat > 0
      clocks == {p.since + history[s].budget}
                \cup (IF beats THEN {p.beat + sc.heartbeat} ELSE {})
  IN CASE p.state = "started" -> [kind |-> "detecting", deadline |-> Min(clocks)]
       [] p.state = "scheduled" /\ p.next > now -> [kind |-> "backoff", deadline |-> p.next]
       [] OTHER -> [kind |-> "queued", deadline |-> NoTime]

------------------------------------------------------------------------------
(* Properties *)

\* GraphIsTrue.  Whatever happens while a run is being read, and even if the
\* last call of the reading fails, a vertex drawn running or retrying is so at
\* the end of the reading, and one drawn queued is, unless that call failed,
\* still on the queue or over by then; the durable wait is drawn over a run
\* that waits or is over, and in a reading nothing disturbs exactly when the
\* run is parked on a bare signal.
\* (_activity_state, _wait_vertex, _read_execution.)
Now(s) == IF s \in DOMAIN pending THEN pending[s].state ELSE "over"
GraphIsTrue ==
  /\ \A n \in 0 .. Len(history), described \in BOOLEAN :
       Whole(n) =>
         LET read == Reading(n, FALSE, described) IN
         /\ \A s \in Activities(read) :
              LET state == ActivityState(read, s) IN
              CASE state = "running" -> Now(s) = "started"
                [] state = "retrying" -> Now(s) = "scheduled"
                [] state = "queued" -> described => Now(s) # "started"
                [] OTHER -> Now(s) = "over"
         /\ Closed \/ flow.phase \in {"wait", "parked"} \/ ~(described /\ ShowsWait(read))
  /\ ShowsWait(Sharp) <=> /\ flow.phase = "wait" /\ task = "none"
                          /\ Drawn(Sharp) # {}

\* GateTellsVisit.  Each time the workflow came to a gate has a vertex of its
\* own, and it says what that visit was answered; the visit that still waits
\* is the one drawn waiting, however often the gate was visited before.
\* (_gate_vertices; Workflow.approval.)
GateTellsVisit ==
  /\ Opens(Sharp) = {visits[n].open : n \in DOMAIN visits}
  /\ \A n \in DOMAIN visits :
       LET v == GateVertex(Sharp, visits[n].open) IN
       IF visits[n].answer = "waiting"
         THEN v.state = IF Closed THEN "canceled" ELSE "waiting"
         ELSE v.state = "completed" /\ v.answer = visits[n].answer

\* EdgesAreCausal.  An edge is a dependency: what is at its end was decided
\* after what is at its start was over.  So the vertices of the critical path
\* do not overlap, and its seconds have really passed.  (build_graph, layers
\* and edges; critical_path.)  It holds of plans that are sequences of steps,
\* each a fan-out that is joined: the code itself concedes that chains which run
\* independently get edges that are no dependencies (graph.py:20-22).
EdgesAreCausal ==
  LET close == CloseOf(Sharp) IN
  /\ CriticalSeconds(Sharp) <= now
  /\ \A e \in Edges(Sharp) :
       LET over == IF history[e[1].id].kind = "node" THEN About(Sharp, "Ended", e[1].id)
                   ELSE {close[o] : o \in DOMAIN close \cap {e[1].id}}
       IN \E i \in over : i < e[2].layer

\* AttemptsAccounted.  The recovery report accounts for every attempt of an
\* activity that has started one and not lost it again: the lost ones and the
\* last one follow each other without a gap from the time it was scheduled,
\* their number is the server's, and only an activity that is not over has a
\* span without an end.  (_spans.)
AttemptsAccounted ==
  \A s \in Ids("Scheduled") :
    LET spans == Spans(Sharp, s)
        starts == {i \in Ids("Started") : history[i].of = s}
        attempt == IF starts # {} THEN history[CHOOSE i \in starts : TRUE].attempt
                   ELSE pending[s].attempt
    IN starts # {} \/ Now(s) = "started" =>
         /\ \E x \in spans : x.attempt = attempt /\ x.lost = 0 /\ x.outcome # "queued"
         /\ \A x, y \in spans : x = y \/ x.to = y.from \/ y.to = x.from
         /\ \E x \in spans : x.from = history[s].at
         /\ FoldSet(LAMBDA x, n : n + x.lost, 1, spans) = attempt
         /\ (\E x \in spans : x.to = NoTime) <=> Now(s) = "started"

\* LivenessIsHonest.  An attempt's holder called gone is dead, if Redis
\* answered; one called replaced is dead, or there was a kill; one called live
\* is alive, or died at most Fresh ticks ago, or another process has its pid
\* and nobody logged a kill.  (FleetLiveness, _activity_window.)
LivenessIsHonest ==
  \A s \in DOMAIN pending, redis \in BOOLEAN :
    LET p == pending[s]
        killed == \E k \in kills : p.since < k /\ k <= now
    IN p.holder = NoHolder \/
       CASE HolderState(p, redis) = "gone" -> redis => ~Alive(p.holder)
         [] HolderState(p, redis) = "replaced" -> ~Alive(p.holder) \/ killed
         [] HolderState(p, redis) = "live" ->
              ~killed /\ (Alive(p.holder) \/ box[p.holder.box].up
                           \/ now - box[p.holder.box].beat <= Fresh)
         [] OTHER -> TRUE

\* WindowIsTheClock.  The clock the report shows is the one the run waits on,
\* though it is computed without schedule_to_close_timeout.  The work of a dead
\* holder is not handed on before the window says so, and given up earlier only
\* when the deadline of the whole run has passed; a retry that is held back
\* starts no earlier, and the call does not expire while it is held back.
\* (_activity_window; call_node, resolve_policy.)
WindowIsTheClock ==
  [][\A s \in DOMAIN pending :
       LET w == Window(s)
           over == s \notin DOMAIN pending'
           lost == w.kind = "detecting" /\ ~Alive(pending[s].holder)
       IN ~Closed' =>
            /\ lost /\ ~over /\ pending'[s].state = "scheduled" => now >= w.deadline
            /\ lost /\ over /\ now < w.deadline => sc.deadline > 0 /\ now >= sc.deadline
            /\ w.kind = "backoff" => ~over /\ pending'[s].state # "started"]_world
==============================================================================
