----------------------------- MODULE RunHistory -----------------------------
(***************************************************************************)
(* One workflow run as Temporal records it: its workflow tasks, its        *)
(* activities on replicas of the activity worker that die and return,      *)
(* signals, timers, and the history and the pending activities that the    *)
(* API reads back.                                                         *)
(*                                                                         *)
(* An event's id is its index; events no reader looks at are left out.     *)
(* The Started event of an attempt is written only with its last event.    *)
(***************************************************************************)
EXTENDS Workflows, Integers, FiniteSets, SequencesExt

CONSTANTS
  Containers,     \* replicas of the activity worker
  Scenarios,      \* the runs of this instance, see ScenarioAssumption
  Fresh,          \* ticks a registry heartbeat is believed (12s)
  Ttl             \* ticks after which a silent worker is not live (20s)

ASSUME ScenarioAssumption ==
  /\ \A s \in Scenarios :
       /\ s.plan \in Seq([do : {"call", "gate", "wait"}, calls : Nat, gate : STRING,
                          expires : BOOLEAN, when : SUBSET Answers])
       /\ \A i \in DOMAIN s.plan : s.plan[i].do = "call" => s.plan[i].calls > 0
       /\ s.boxes \subseteq Containers
       /\ s.budget \in Nat     \* start_to_close_timeout of an activity, in ticks
       /\ s.heartbeat \in Nat  \* its heartbeat_timeout; 0 is none
       /\ s.backoff \in Nat    \* wait before a retry
       /\ s.attempts \in Nat \ {0}
       /\ s.deadline \in Nat   \* of the run, which bounds its node calls; 0 is none
       /\ s.horizon \in Nat    \* bound on the clock
       /\ s.signals \in Nat    \* bound on the signals sent
       /\ s.faults \in Nat     \* bound on crashes, failures and lost answers
       /\ s.cancels \in BOOLEAN \* somebody may cancel the run
       /\ s.pids \in Nat       \* a container that returns may get so many new pids
       /\ s.lab \in BOOLEAN    \* the run is a chaos experiment's
       /\ s.presses \in Nat    \* bound on the use of the Chaos Lab's buttons
       \* nobody but the experiment decides the gate of its run
       /\ s.lab => s.signals = 0 /\ \E i \in DOMAIN s.plan : s.plan[i] = Gate("publish", FALSE)
  /\ Fresh \in Nat /\ Ttl \in Nat
ASSUME ContainersAreFinite == IsFiniteSet(Containers)

VARIABLES
  sc,        \* the scenario
  now,       \* the clock
  history,   \* the events of the run
  flow,      \* where the workflow code is, as a replay of the history finds it
  task,      \* the workflow task: none, scheduled or started
  pending,   \* open activities by scheduled event id
  box,       \* containers: up or not, incarnation, pid, last registry heartbeat
  faults,    \* crashes and failures so far
  visits,    \* history variable: the gates entered, in order, and their answers
  kills      \* when the Chaos Lab killed a container (its log)

world == <<sc, now, history, flow, task, pending, box, faults, visits, kills>>

Plan == sc.plan
Boxes == sc.boxes
NoHolder == [box |-> "", life |-> 0, pid |-> 0]
NoPending == [s \in {} |-> [state |-> "scheduled"]]

Closed == flow.phase = "over"
Ids(type) == {i \in DOMAIN history : history[i].type = type}

\* The process that runs in container c now.
Process(c) == [box |-> c, life |-> box[c].life, pid |-> box[c].pid]
Alive(holder) == holder # NoHolder /\ box[holder.box].up /\ box[holder.box].life = holder.life

Init ==
  /\ sc \in Scenarios
  /\ now = 0
  /\ history = <<>>
  /\ flow = [step |-> 0, phase |-> "start", answer |-> "none", awaits |-> {}, timer |-> 0]
  /\ task = "scheduled"
  /\ pending = NoPending
  /\ box = [c \in sc.boxes |-> [up |-> TRUE, life |-> 0, pid |-> 0, beat |-> 0]]
  /\ faults = 0
  /\ visits = <<>>
  /\ kills = {}

------------------------------------------------------------------------------
(* What the server writes *)

\* Events that arrive while a workflow task is being worked on are kept back
\* until it is answered.
Open == ~Closed /\ task # "started"

Wakes == task' = IF task = "none" THEN "scheduled" ELSE task

TerminalOf(s) == {i \in Ids("Ended") : history[i].of = s}
OutcomeOf(s) == IF TerminalOf(s) = {} THEN "open" ELSE history[CHOOSE i \in TerminalOf(s) : TRUE].outcome

\* The latest decision submitted for a gate, in the store that Workflow keeps
\* under its id and never clears.
Submitted(gate) == {i \in Ids("Signaled") : history[i].gate = gate}
Decision(gate) == history[CHOOSE i \in Submitted(gate) : \A j \in Submitted(gate) : j <= i].answer

------------------------------------------------------------------------------
(* The workflow code: one workflow task *)

\* A step the code runs through without waiting.
Passed(i, answer) ==
  \/ answer \notin Plan[i].when
  \/ Plan[i].do = "wait" /\ Submitted(Plan[i].gate) # {}

NextStep(i, answer) ==
  CHOOSE j \in i .. Len(Plan) + 1 :
    /\ j = Len(Plan) + 1 \/ ~Passed(j, answer)
    /\ \A k \in i .. j - 1 : Passed(k, answer)

\* What is left of the run's deadline by the clock of the workflow code, which
\* stands still at the start of its workflow task.
Left ==
  LET clock == history[Len(history)].at IN
  IF sc.deadline > clock THEN sc.deadline - clock ELSE 0

\* The start_to_close_timeout of a call, and its schedule_to_close_timeout.  One
\* made when nothing is left has a moment for each attempt, and no limit over
\* all of them: Temporal takes a schedule_to_close_timeout of zero for none.
Bounded(kind) == kind = "node" /\ sc.deadline > 0
Budget(kind) ==
  LET moment == IF Left > 0 THEN Left ELSE 1 IN
  IF Bounded(kind) /\ moment < sc.budget THEN moment ELSE sc.budget
Within(kind) == IF Bounded(kind) THEN Left ELSE 0

Schedule(kind, gate, answer) ==
  [type |-> "Scheduled", at |-> now, decided |-> Len(history) + 1,
   kind |-> kind, gate |-> gate, answer |-> answer,
   budget |-> Budget(kind), within |-> Within(kind)]
Close(status) == [type |-> "Closed", at |-> now, status |-> status]

\* What a workflow task comes to: where the code waits then, and its commands.
Do(step, phase, answer, commands) ==
  [step |-> step, phase |-> phase, answer |-> answer, commands |-> commands]
Stay == Do(flow.step, flow.phase, flow.answer, <<>>)

EnterStep(i, answer) ==
  IF i > Len(Plan) THEN Do(i, "over", answer, <<Close("Completed")>>)
  ELSE CASE Plan[i].do = "call" ->
              Do(i, "call", answer,
                 [k \in 1 .. Plan[i].calls |-> Schedule("node", "", "none")])
         [] Plan[i].do = "gate" ->
              Do(i, "open", answer, <<Schedule("open", Plan[i].gate, "none")>>)
         [] Plan[i].do = "wait" -> Do(i, "wait", answer, <<>>)

GoOn(i, answer) == EnterStep(NextStep(i, answer), answer)

Expired == flow.timer # 0 /\ \E i \in Ids("TimerFired") : history[i].timer = flow.timer

CloseGate(answer) ==
  Do(flow.step, "close", answer,
     (IF flow.timer # 0 /\ ~Expired
        THEN <<[type |-> "TimerCanceled", at |-> now, timer |-> flow.timer]>> ELSE <<>>)
     \o <<Schedule("close", Plan[flow.step].gate, answer)>>)

\* Mutant of AtGate: a decision that came before the gate's open activity was
\* over is not looked at.
AtGateDeaf ==
  LET gate == Plan[flow.step].gate
      heard == {i \in Submitted(gate) : \A j \in flow.awaits : \A t \in TerminalOf(j) : i > t}
      answers == (IF heard = {} THEN {} ELSE {Decision(gate)})
                 \cup (IF Expired THEN {"expired"} ELSE {})
      timer == IF flow.phase = "open" /\ Plan[flow.step].expires
                 THEN <<[type |-> "TimerStarted", at |-> now, fires |-> now + sc.budget]>>
                 ELSE <<>>
  IN IF answers = {} THEN {Do(flow.step, "parked", flow.answer, timer)}
     ELSE {CloseGate(answer) : answer \in answers}

\* approval() at its wait_condition; with a decision and an expiry in one
\* workflow task it may return either.
AtGate ==
  LET gate == Plan[flow.step].gate
      answers == (IF Submitted(gate) = {} THEN {} ELSE {Decision(gate)})
                 \cup (IF Expired THEN {"expired"} ELSE {})
      timer == IF flow.phase = "open" /\ Plan[flow.step].expires
                 THEN <<[type |-> "TimerStarted", at |-> now, fires |-> now + sc.budget]>>
                 ELSE <<>>
  IN IF answers = {} THEN {Do(flow.step, "parked", flow.answer, timer)}
     ELSE {CloseGate(answer) : answer \in answers}

\* A call that failed raises out of the workflow, but for the two activities
\* that only keep the gate's row (_index_gate).
Decide ==
  LET over == \A s \in flow.awaits : OutcomeOf(s) # "open"
      failed == \E s \in flow.awaits : OutcomeOf(s) \in {"failed", "timed_out"}
  IN CASE flow.phase = "start" -> {GoOn(1, "none")}
       [] flow.phase = "call" ->
            IF failed THEN {Do(flow.step, "over", flow.answer, <<Close("Failed")>>)}
            ELSE IF over THEN {GoOn(flow.step + 1, flow.answer)} ELSE {Stay}
       [] flow.phase = "open" -> IF over THEN AtGate ELSE {Stay}
       [] flow.phase = "parked" -> AtGate
       [] flow.phase = "close" -> IF over THEN {GoOn(flow.step + 1, flow.answer)} ELSE {Stay}
       [] flow.phase = "wait" -> {GoOn(flow.step, flow.answer)}

StartTask ==
  /\ ~Closed /\ task = "scheduled"
  /\ task' = "started"
  /\ history' = Append(history, [type |-> "TaskStarted", at |-> now])
  /\ UNCHANGED <<sc, now, flow, pending, box, faults, visits, kills>>

\* The worker that had the task is gone: the server offers it again.
TaskTimesOut ==
  /\ ~Closed /\ task = "started"
  /\ faults < sc.faults
  /\ faults' = faults + 1
  /\ task' = "scheduled"
  /\ history' = Append(history, [type |-> "TaskTimedOut", at |-> now])
  /\ UNCHANGED <<sc, now, flow, pending, box, visits, kills>>

\* Ids that the commands of a workflow task get, given which of them count.
NewIds(commands, type) ==
  {Len(history) + 1 + k : k \in {i \in DOMAIN commands : commands[i].type = type}}

NewPending(s) == [state |-> "scheduled", attempt |-> 1, since |-> now, holder |-> NoHolder,
                  beat |-> now, next |-> now]

Visited(commands) ==
  LET opens == {i \in DOMAIN commands : commands[i].type = "Scheduled" /\ commands[i].kind = "open"}
      closes == {i \in DOMAIN commands : commands[i].type = "Scheduled" /\ commands[i].kind = "close"}
  IN IF opens # {}
       THEN Append(visits, [open |-> Len(history) + 1 + (CHOOSE i \in opens : TRUE),
                            answer |-> "waiting"])
     ELSE IF closes # {}
       THEN [visits EXCEPT ![Len(visits)].answer = commands[CHOOSE i \in closes : TRUE].answer]
     ELSE visits

CompleteTask ==
  /\ ~Closed /\ task = "started"
  /\ task' = "none"
  /\ \E d \in Decide :
       LET ids == NewIds(d.commands, "Scheduled")
           timers == NewIds(d.commands, "TimerStarted")
       IN /\ history' = history \o <<[type |-> "TaskCompleted", at |-> now]>> \o d.commands
          /\ flow' = [step |-> d.step, phase |-> d.phase, answer |-> d.answer,
                      awaits |-> IF ids = {} THEN flow.awaits ELSE ids,
                      timer |-> IF timers # {} THEN CHOOSE t \in timers : TRUE
                                ELSE IF d.phase = "close" THEN 0 ELSE flow.timer]
          /\ pending' = IF d.phase = "over" THEN NoPending
                        ELSE [s \in DOMAIN pending \cup ids |->
                                IF s \in ids THEN NewPending(s) ELSE pending[s]]
          /\ visits' = Visited(d.commands)
  /\ UNCHANGED <<sc, now, box, faults, kills>>

------------------------------------------------------------------------------
(* What arrives from outside *)

Signal(gate, answer) ==
  /\ Open
  /\ Cardinality(Ids("Signaled")) < sc.signals
  /\ history' = Append(history, [type |-> "Signaled", at |-> now, gate |-> gate, answer |-> answer])
  /\ Wakes
  /\ UNCHANGED <<sc, now, flow, pending, box, faults, visits, kills>>

FireTimer ==
  /\ Open
  /\ flow.timer # 0 /\ ~Expired
  /\ now >= history[flow.timer].fires
  /\ history' = Append(history, [type |-> "TimerFired", at |-> now, timer |-> flow.timer])
  /\ Wakes
  /\ UNCHANGED <<sc, now, flow, pending, box, faults, visits, kills>>

\* cancel_run: the API terminates the execution.
Terminate ==
  /\ sc.cancels
  /\ ~Closed
  /\ history' = Append(history, Close("Terminated"))
  /\ flow' = [flow EXCEPT !.phase = "over"]
  /\ task' = "none"
  /\ pending' = NoPending
  /\ UNCHANGED <<sc, now, box, faults, visits, kills>>

------------------------------------------------------------------------------
(* The activities *)

StartAttempt(s, c) ==
  /\ s \in DOMAIN pending
  /\ pending[s].state = "scheduled" /\ pending[s].next <= now
  /\ box[c].up
  /\ pending' = [pending EXCEPT ![s] =
       [@ EXCEPT !.state = "started", !.since = now, !.beat = now, !.holder = Process(c)]]
  /\ UNCHANGED <<sc, now, history, flow, task, box, faults, visits, kills>>

Heartbeat(s) ==
  /\ s \in DOMAIN pending
  /\ sc.heartbeat > 0
  /\ pending[s].state = "started" /\ Alive(pending[s].holder)
  /\ pending[s].beat < now
  /\ pending' = [pending EXCEPT ![s].beat = now]
  /\ UNCHANGED <<sc, now, history, flow, task, box, faults, visits, kills>>

\* The activity is over: the start of the attempt that runs, if one does, and
\* the end are written together.
EndsAs(s, outcome) ==
  LET ended == [type |-> "Ended", at |-> now, of |-> s, outcome |-> outcome]
      started == [type |-> "Started", at |-> pending[s].since, of |-> s,
                  attempt |-> pending[s].attempt]
  IN
  /\ Open
  /\ history' = history \o (IF pending[s].state = "started" THEN <<started, ended>> ELSE <<ended>>)
  /\ pending' = [t \in DOMAIN pending \ {s} |-> pending[t]]
  /\ Wakes

Complete(s) ==
  /\ s \in DOMAIN pending
  /\ pending[s].state = "started" /\ Alive(pending[s].holder)
  /\ EndsAs(s, "completed")
  /\ UNCHANGED <<sc, now, flow, box, faults, visits, kills>>

\* When the schedule_to_close_timeout of an activity that has one expires.
Expiry(s) == history[s].at + history[s].within
Allows(s, time) == history[s].within = 0 \/ time <= Expiry(s)

\* The attempt is over without a result: the next one waits, or there is none.
GivesUp(s, outcome) ==
  LET most == IF history[s].kind = "node" THEN sc.attempts ELSE 1 IN
  IF pending[s].attempt < most /\ Allows(s, now + sc.backoff)
    THEN /\ pending' = [pending EXCEPT ![s] =
              [@ EXCEPT !.state = "scheduled", !.attempt = pending[s].attempt + 1,
                        !.next = now + sc.backoff]]
         /\ UNCHANGED <<history, task>>
    ELSE EndsAs(s, outcome)

FailAttempt(s) ==
  /\ s \in DOMAIN pending
  /\ pending[s].state = "started" /\ Alive(pending[s].holder)
  /\ faults < sc.faults
  /\ faults' = faults + 1
  /\ GivesUp(s, "failed")
  /\ UNCHANGED <<sc, now, flow, box, visits, kills>>

\* When the server gives up an attempt it hears nothing of.
Deadline(s) ==
  LET p == pending[s] IN
  IF sc.heartbeat > 0 /\ history[s].kind = "node" /\ p.beat + sc.heartbeat < p.since + history[s].budget
    THEN p.beat + sc.heartbeat
    ELSE p.since + history[s].budget

\* A slow attempt on a live worker counts as a failure.
TimeoutAttempt(s) ==
  /\ s \in DOMAIN pending
  /\ pending[s].state = "started"
  /\ now >= Deadline(s)
  /\ IF Alive(pending[s].holder)
       THEN faults < sc.faults /\ faults' = faults + 1
       ELSE UNCHANGED faults
  /\ GivesUp(s, "timed_out")
  /\ UNCHANGED <<sc, now, flow, box, visits, kills>>

\* The call is out of time, whether an attempt runs, waits or was never made.
Expire(s) ==
  /\ s \in DOMAIN pending
  /\ history[s].within > 0 /\ now >= Expiry(s)
  /\ EndsAs(s, "timed_out")
  /\ UNCHANGED <<sc, now, flow, box, faults, visits, kills>>

------------------------------------------------------------------------------
(* The fleet *)

Die(c) == box' = [box EXCEPT ![c].up = FALSE]

\* A container that starts again has the same hostname; its pid is often the
\* same too.  The worker registers at once.
Boot(c) ==
  \E pid \in box[c].pid .. box[c].pid + sc.pids :
    box' = [box EXCEPT ![c] = [up |-> TRUE, life |-> @.life + 1, pid |-> pid, beat |-> now]]

Crash(c) ==
  /\ box[c].up
  /\ faults < sc.faults
  /\ faults' = faults + 1
  /\ Die(c)
  /\ UNCHANGED <<sc, now, history, flow, task, pending, visits, kills>>

Return(c) ==
  /\ ~box[c].up
  /\ Boot(c)
  /\ UNCHANGED <<sc, now, history, flow, task, pending, faults, visits, kills>>

\* Time passes; running workers heartbeat to the registry every tick.
Tick ==
  /\ now < sc.horizon
  /\ now' = now + 1
  /\ box' = [c \in Boxes |-> IF box[c].up THEN [box[c] EXCEPT !.beat = now + 1] ELSE box[c]]
  /\ UNCHANGED <<sc, history, flow, task, pending, faults, visits, kills>>

RunStep ==
  \/ StartTask
  \/ CompleteTask
  \/ FireTimer
  \/ \E s \in DOMAIN pending :
       \/ \E c \in Boxes : StartAttempt(s, c)
       \/ Heartbeat(s) \/ Complete(s) \/ TimeoutAttempt(s) \/ Expire(s)

Decisions == {"approved", "rejected"}
Gates == {Plan[i].gate : i \in {j \in DOMAIN Plan : Plan[j].do # "call"}}
SomebodySignals == \E gate \in Gates, answer \in Decisions : Signal(gate, answer)
SomebodyRestarts == \E c \in Boxes : Return(c)
==============================================================================
