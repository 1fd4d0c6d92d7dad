------------------------------ MODULE RunProofs ------------------------------
(***************************************************************************)
(* Proofs about a run under the Chaos Lab and what the API shows of it,    *)
(* for any scenarios, any number of containers and histories of any        *)
(* length.                                                                 *)
(*                                                                         *)
(* The fleet: how the containers change, who holds an attempt, and what    *)
(* the experiment owes.  The history: what it says of the run (Recorded),  *)
(* which every step keeps because a step writes one of a few things        *)
(* (Writes), and a workflow task what one of its decisions commands        *)
(* (DecideIs).  The rest reads it as the API does: the state of the graph, *)
(* the gates, the windows and the attempts; then what the experiment       *)
(* does, which has to tell whether the run survived; and last the layers   *)
(* of the graph and its edges.                                             *)
(***************************************************************************)
EXTENDS ChaosExperiment, FiniteSetTheorems, TLAPS

\* Who may hold an attempt: a process, by its container, life and pid, or
\* nobody.
Holders == [box : Containers \cup {NoBox}, life : Nat, pid : Nat]
\* What the server knows of an activity that has not ended.
Waiting == [state : {"scheduled", "started"}, attempt : Nat \ {0}, since : Nat, holder : Holders,
            beat : Nat, next : Nat]
\* What is known of a container.
Replica == [up : BOOLEAN, life : Nat, pid : Nat, beat : Nat]
\* What is known of the experiment.
Experiments ==
  [at : {"off", "inflight", "aim", "kill", "drive", "restore", "start", "done"},
   box : Containers \cup {NoBox}, killed : {"no", "open", "over"}, signaled : BOOLEAN,
   verdict : {"none", "passed", "failed"}]

\* The types of the variables but the history, the run's position and its
\* visits.
Types ==
  /\ sc \in Scenarios
  /\ now \in Nat
  /\ task \in {"none", "scheduled", "started"}
  /\ pending \in [DOMAIN pending -> Waiting]
  /\ box \in [Boxes -> Replica]
  /\ exp \in Experiments
  /\ exp.at \in {"kill", "start"} => exp.box \in Boxes
  /\ button # NoAim => button.box \in Boxes
  /\ kicks \in Nat

\* A running worker is heard of at every tick.
Beats == \A c \in Boxes : box[c].up => box[c].beat = now

\* Who holds an attempt is a process its container has or had, and as long as it
\* is the same process it has the same pid.
Held ==
  \A s \in DOMAIN pending :
    LET h == pending[s].holder IN
    h # NoHolder =>
      /\ h.box \in Boxes
      /\ h.life <= box[h.box].life
      /\ h.life = box[h.box].life => h.pid = box[h.box].pid

\* The containers that are dead.
Dead == Boxes \ Running

\* The container the experiment killed and has not started again.
Owed == IF exp.at \in {"drive", "restore"} \/ (exp.at = "start" /\ ~box[exp.box].up) THEN 1 ELSE 0

\* The dead containers are others' kills, and the one the experiment owes, as
\* long as Docker answers.
Repaid == ~unheard => Cardinality(Dead) <= kicks + Owed

\* The inductive invariant of the fleet.
FleetInv == Types /\ Beats /\ Held /\ Repaid

------------------------------------------------------------------------------
(* The steps and the containers *)

\* What is assumed of a scenario.
LEMMA ScenarioFacts ==
  ASSUME sc \in Scenarios
  PROVE  /\ Boxes \subseteq Containers /\ IsFiniteSet(Boxes)
         /\ sc.budget \in Nat /\ sc.heartbeat \in Nat /\ sc.backoff \in Nat
         /\ sc.attempts \in Nat \ {0} /\ sc.pids \in Nat /\ sc.deadline \in Nat
         /\ Fresh \in Nat /\ Ttl \in Nat
<1>1. Boxes \subseteq Containers
  BY ScenarioAssumption DEF Boxes
<1>2. IsFiniteSet(Boxes)
  BY <1>1, ContainersAreFinite, FS_Subset
<1> QED BY <1>1, <1>2, ScenarioAssumption

\* The actions of the run itself, of which the fleet knows nothing.
OfRun ==
  \/ RunStep \/ SomebodySignals \/ TaskTimesOut \/ Terminate
  \/ \E s \in DOMAIN pending : FailAttempt(s)

\* A step of the run leaves the containers alone.
LEMMA OfRunLeavesFleet == OfRun => UNCHANGED <<sc, now, box, kills>>
<1>1. StartTask \/ CompleteTask \/ FireTimer \/ TaskTimesOut \/ Terminate
        => UNCHANGED <<sc, now, box, kills>>
  BY DEF StartTask, CompleteTask, FireTimer, TaskTimesOut, Terminate
<1>2. ASSUME NEW s, NEW c, StartAttempt(s, c) PROVE UNCHANGED <<sc, now, box, kills>>
  BY <1>2 DEF StartAttempt
<1>3. ASSUME NEW s,
             Heartbeat(s) \/ Complete(s) \/ TimeoutAttempt(s) \/ FailAttempt(s) \/ Expire(s)
      PROVE  UNCHANGED <<sc, now, box, kills>>
  BY <1>3 DEF Heartbeat, Complete, TimeoutAttempt, FailAttempt, Expire
<1>4. SomebodySignals => UNCHANGED <<sc, now, box, kills>>
  BY DEF SomebodySignals, Signal
<1> QED BY <1>1, <1>2, <1>3, <1>4 DEF OfRun, RunStep

\* The steps of the whole by what they are to the run and its fleet.
LEMMA Steps ==
  [ChaosNext]_vars =>
    \/ OfRun /\ Calm
    \/ Tick /\ Calm
    \/ \E c \in Boxes : Return(c) /\ Calm
    \/ \E c \in Boxes : Crash(c) /\ kicks' = kicks + 1 /\ UNCHANGED <<exp, button, presses, unheard>>
    \/ AwaitInflight \/ AimKill \/ KillOne \/ SignalGate \/ Score \/ AimRestore \/ RestoreOne
    \/ PressKill \/ PressRestart \/ Inject
    \/ UNCHANGED vars
  BY DEF ChaosNext, OfRun, SomebodyRestarts, Experiment, Operator

\* What a step may do to the containers: nothing, a tick, one dies, one boots.
LEMMA BoxMoves ==
  ASSUME Types, [ChaosNext]_vars
  PROVE  /\ sc' = sc
         /\ \/ box' = box /\ now' = now
            \/ Tick
            \/ now' = now /\ \E c \in Boxes : box[c].up /\ Die(c)
            \/ now' = now /\ \E c \in Boxes : ~box[c].up /\ Boot(c)
<1>1. CASE OfRun /\ Calm
  BY <1>1, OfRunLeavesFleet
<1>2. CASE Tick /\ Calm
  BY <1>2 DEF Tick
<1>3. ASSUME NEW c \in Boxes, Return(c) \/ Crash(c)
      PROVE sc' = sc /\ now' = now /\ ((box[c].up /\ Die(c)) \/ (~box[c].up /\ Boot(c)))
  BY <1>3 DEF Return, Crash
<1>4. CASE AwaitInflight \/ AimKill \/ Score \/ AimRestore \/ PressKill \/ PressRestart \/ UNCHANGED vars
  BY <1>4 DEF AwaitInflight, AimKill, Score, AimRestore, PressKill, PressRestart, Press, world, vars
<1>5. CASE SignalGate
  BY <1>5 DEF SignalGate
<1>6. CASE KillOne
  BY <1>6 DEF KillOne, Kill, Types
<1>7. CASE RestoreOne
  BY <1>7 DEF RestoreOne, Start, Types
<1>8. CASE Inject
  BY <1>8 DEF Inject, Kill, Start, Types
<1> QED BY <1>1, <1>2, <1>3, <1>4, <1>5, <1>6, <1>7, <1>8, Steps

\* What a death, a return and a tick make of a container.
LEMMA DieIs ==
  ASSUME Types, NEW c \in Boxes, Die(c)
  PROVE  /\ box' \in [Boxes -> Replica]
         /\ \A d \in Boxes : /\ box'[d].up = (box[d].up /\ d # c)
                             /\ box'[d].life = box[d].life /\ box'[d].pid = box[d].pid
                             /\ box'[d].beat = box[d].beat
  BY DEF Types, Replica, Die

\* A container that boots: only it changes, it has another life, and it is
\* heard of.
LEMMA BootIs ==
  ASSUME Types, NEW c \in Boxes, Boot(c)
  PROVE  /\ box' \in [Boxes -> Replica]
         /\ \A d \in Boxes : d # c => box'[d] = box[d]
         /\ box'[c].up /\ box'[c].life = box[c].life + 1 /\ box'[c].beat = now
<1>1. PICK pid \in box[c].pid .. box[c].pid + sc.pids :
        box' = [box EXCEPT ![c] = [up |-> TRUE, life |-> @.life + 1, pid |-> pid, beat |-> now]]
  BY DEF Boot
<1>2. pid \in Nat /\ box[c].life \in Nat /\ now \in Nat
  BY ScenarioFacts DEF Types, Replica
<1>3. box'[c] = [up |-> TRUE, life |-> box[c].life + 1, pid |-> pid, beat |-> now]
  BY <1>1 DEF Types
<1>4. box'[c] \in Replica
  BY <1>2, <1>3 DEF Replica
<1>5. \A d \in Boxes : d # c => box'[d] = box[d]
  BY <1>1 DEF Types
<1>6. box' = [d \in Boxes |-> box'[d]]
  BY <1>1 DEF Types
<1>7. \A d \in Boxes : box'[d] \in Replica
  BY <1>4, <1>5 DEF Types
<1>8. box' \in [Boxes -> Replica]
  BY <1>6, <1>7
<1> QED BY <1>3, <1>5, <1>8

\* A tick: the running containers are heard of, and nothing else changes in
\* them.
LEMMA TickIs ==
  ASSUME Types, Tick
  PROVE  /\ box' \in [Boxes -> Replica] /\ now' = now + 1
         /\ \A d \in Boxes : /\ box'[d].up = box[d].up
                             /\ box'[d].life = box[d].life /\ box'[d].pid = box[d].pid
                             /\ box'[d].beat = IF box[d].up THEN now + 1 ELSE box[d].beat
<1>1. /\ now' = now + 1 /\ now \in Nat
      /\ box' = [c \in Boxes |-> IF box[c].up THEN [box[c] EXCEPT !.beat = now + 1] ELSE box[c]]
  BY DEF Tick, Types
<1> QED BY <1>1 DEF Types, Replica

\* Types, by variable.
LEMMA BoxTyped == ASSUME Types, [ChaosNext]_vars
                  PROVE  now' \in Nat /\ sc' \in Scenarios /\ box' \in [Boxes -> Replica] /\ Boxes' = Boxes
<1>1. sc' = sc /\ Boxes' = Boxes
  BY BoxMoves DEF Boxes
<1>2. CASE box' = box /\ now' = now
  BY <1>1, <1>2 DEF Types
<1>3. CASE Tick
  BY <1>1, <1>3, TickIs DEF Types
<1>4. CASE now' = now /\ \E c \in Boxes : box[c].up /\ Die(c)
  BY <1>1, <1>4, DieIs DEF Types
<1>5. CASE now' = now /\ \E c \in Boxes : ~box[c].up /\ Boot(c)
  BY <1>1, <1>5, BootIs DEF Types
<1> QED BY <1>2, <1>3, <1>4, <1>5, BoxMoves

\* Every step keeps Beats.
LEMMA BeatsStep == ASSUME Types, Beats, [ChaosNext]_vars PROVE Beats'
<1>1. Boxes' = Boxes
  BY BoxTyped
<1>2. CASE box' = box /\ now' = now
  BY <1>1, <1>2 DEF Beats
<1>3. CASE Tick
  BY <1>1, <1>3, TickIs DEF Beats
<1>4. CASE now' = now /\ \E c \in Boxes : box[c].up /\ Die(c)
  BY <1>1, <1>4, DieIs DEF Beats
<1>5. ASSUME now' = now, NEW c \in Boxes, Boot(c) PROVE Beats'
  BY <1>1, <1>5, BootIs DEF Beats
<1> QED BY <1>2, <1>3, <1>4, <1>5, BoxMoves

\* Where the attempts are, step by step: an attempt is new, was given to a process
\* that runs, or is where it was.
LEMMA Placed ==
  ASSUME Types, NEW s \in DOMAIN pending, NEW c \in Boxes, StartAttempt(s, c)
  PROVE  /\ pending' \in [DOMAIN pending -> Waiting]
         /\ pending'[s].holder = Process(c)
         /\ pending'[s].state = "started" /\ pending'[s].since = now
         /\ pending'[s].beat = now /\ pending'[s].attempt = pending[s].attempt
         /\ pending'[s].next = pending[s].next
         /\ \A t \in DOMAIN pending : t # s => pending'[t] = pending[t]
<1>1. pending' = [pending EXCEPT ![s] =
                   [@ EXCEPT !.state = "started", !.since = now, !.beat = now, !.holder = Process(c)]]
  BY DEF StartAttempt
<1>2. pending \in [DOMAIN pending -> Waiting] /\ now \in Nat
  BY DEF Types
<1>3. Process(c) \in Holders
  BY ScenarioFacts DEF Process, Holders, Types, Replica
<1>4. pending'[s] = [pending[s] EXCEPT !.state = "started", !.since = now, !.beat = now,
                                       !.holder = Process(c)]
  BY <1>1, <1>2 DEF Waiting
<1>5. \A t \in DOMAIN pending : t # s => pending'[t] = pending[t]
  BY <1>1, <1>2
<1>6. pending'[s] \in Waiting
  BY <1>2, <1>3, <1>4, ZenonT(30) DEF Waiting
<1>7. DOMAIN pending' = DOMAIN pending /\ pending' = [t \in DOMAIN pending |-> pending'[t]]
  BY <1>1, <1>2
<1>8. \A t \in DOMAIN pending : pending'[t] \in Waiting
  BY <1>2, <1>5, <1>6
<1>9. pending' \in [DOMAIN pending -> Waiting]
  BY <1>7, <1>8
<1> QED BY <1>2, <1>4, <1>5, <1>9 DEF Waiting

\* A heartbeat is of a living attempt, and changes only when it was heard of.
LEMMA Beaten ==
  ASSUME Types, NEW s \in DOMAIN pending, Heartbeat(s)
  PROVE  /\ pending' \in [DOMAIN pending -> Waiting]
         /\ \A t \in DOMAIN pending :
              /\ pending'[t].holder = pending[t].holder /\ pending'[t].state = pending[t].state
              /\ pending'[t].since = pending[t].since /\ pending'[t].attempt = pending[t].attempt
              /\ pending'[t].next = pending[t].next
              /\ t # s => pending'[t] = pending[t]
         /\ Alive(pending[s].holder) /\ pending[s].state = "started"
  BY DEF Heartbeat, Types, Waiting

\* The attempt is over, and another one will be made.
Retried(s) ==
  /\ pending' = [pending EXCEPT ![s] =
                   [@ EXCEPT !.state = "scheduled", !.attempt = pending[s].attempt + 1,
                             !.next = now + sc.backoff]]
  /\ UNCHANGED <<history, task>>
  /\ Allows(s, now + sc.backoff)

\* An attempt that is retried keeps its holder and its start, and the others
\* are left alone.
LEMMA RetriedIs ==
  ASSUME Types, NEW s \in DOMAIN pending, Retried(s)
  PROVE  /\ pending' \in [DOMAIN pending -> Waiting]
         /\ pending'[s].holder = pending[s].holder /\ pending'[s].state = "scheduled"
         /\ pending'[s].since = pending[s].since /\ pending'[s].next = now + sc.backoff
         /\ \A t \in DOMAIN pending : t # s => pending'[t] = pending[t]
<1>1. pending \in [DOMAIN pending -> Waiting] /\ now + sc.backoff \in Nat
  BY ScenarioFacts DEF Types
<1>2. pending' = [pending EXCEPT ![s] =
                   [@ EXCEPT !.state = "scheduled", !.attempt = pending[s].attempt + 1,
                             !.next = now + sc.backoff]]
  BY DEF Retried
<1>3. pending'[s] = [pending[s] EXCEPT !.state = "scheduled", !.attempt = pending[s].attempt + 1,
                                       !.next = now + sc.backoff]
  BY <1>2
<1>4. \A t \in DOMAIN pending : t # s => pending'[t] = pending[t]
  BY <1>1, <1>2
<1>5. pending[s] \in Waiting /\ pending[s].attempt + 1 \in Nat \ {0}
  <2>1. pending[s] \in Waiting
    BY <1>1
  <2>2. pending[s].attempt \in Nat
    BY <2>1 DEF Waiting
  <2> QED BY <2>1, <2>2
<1>6. /\ pending'[s] \in Waiting /\ pending'[s].state = "scheduled"
      /\ pending'[s].holder = pending[s].holder /\ pending'[s].since = pending[s].since
      /\ pending'[s].next = now + sc.backoff
  BY <1>1, <1>3, <1>5 DEF Waiting
<1>7. DOMAIN pending' = DOMAIN pending /\ pending' = [t \in DOMAIN pending |-> pending'[t]]
  BY <1>1, <1>2
<1>8. \A t \in DOMAIN pending : pending'[t] \in Waiting
  BY <1>1, <1>4, <1>6
<1>9. pending' \in [DOMAIN pending -> Waiting]
  BY <1>7, <1>8
<1> QED BY <1>4, <1>6, <1>9

\* How an activity may end.
Outcomes == {"completed", "failed", "timed_out"}

\* An attempt without a result is retried, or the activity ends.
LEMMA GivesUpIs ==
  ASSUME NEW s, NEW outcome, GivesUp(s, outcome)
  PROVE  Retried(s) \/ EndsAs(s, outcome)
  BY DEF GivesUp, Retried

\* What a step of the run does to its activities.
LEMMA PendingMoves ==
  ASSUME OfRun
  PROVE  \/ UNCHANGED pending /\ UNCHANGED flow /\ UNCHANGED visits
         \/ \E s \in DOMAIN pending, c \in Boxes : StartAttempt(s, c)
         \/ \E s \in DOMAIN pending : Heartbeat(s)
         \/ \E s \in DOMAIN pending :
              /\ pending[s].state = "started"
              /\ Alive(pending[s].holder) \/ now >= Deadline(s)
              /\ UNCHANGED <<flow, visits>>
              /\ Retried(s) \/ \E outcome \in Outcomes : EndsAs(s, outcome)
         \/ \E s \in DOMAIN pending :
              /\ history[s].within > 0 /\ now >= Expiry(s)
              /\ UNCHANGED <<flow, visits>>
              /\ \E outcome \in Outcomes : EndsAs(s, outcome)
         \/ CompleteTask
         \/ Terminate
<1>1. CASE StartTask \/ FireTimer \/ TaskTimesOut
  BY <1>1 DEF StartTask, FireTimer, TaskTimesOut
<1>2. CASE SomebodySignals
  BY <1>2 DEF SomebodySignals, Signal
<1>3. ASSUME NEW s \in DOMAIN pending, Complete(s) \/ TimeoutAttempt(s) \/ FailAttempt(s)
      PROVE  /\ pending[s].state = "started"
             /\ Alive(pending[s].holder) \/ now >= Deadline(s)
             /\ UNCHANGED <<flow, visits>>
             /\ Retried(s) \/ \E outcome \in Outcomes : EndsAs(s, outcome)
  <2>1. CASE Complete(s)
    BY <2>1 DEF Complete, Outcomes
  <2>2. CASE TimeoutAttempt(s)
    BY <2>2, GivesUpIs DEF TimeoutAttempt, Outcomes
  <2>3. CASE FailAttempt(s)
    BY <2>3, GivesUpIs DEF FailAttempt, Outcomes
  <2> QED BY <1>3, <2>1, <2>2, <2>3
<1>4. ASSUME RunStep PROVE
         \/ StartTask \/ FireTimer \/ CompleteTask
         \/ \E s \in DOMAIN pending, c \in Boxes : StartAttempt(s, c)
         \/ \E s \in DOMAIN pending : Heartbeat(s)
         \/ \E s \in DOMAIN pending : Complete(s) \/ TimeoutAttempt(s)
         \/ \E s \in DOMAIN pending : Expire(s)
  BY <1>4 DEF RunStep
<1>5. ASSUME NEW s \in DOMAIN pending, Expire(s)
      PROVE  /\ history[s].within > 0 /\ now >= Expiry(s)
             /\ UNCHANGED <<flow, visits>>
             /\ \E outcome \in Outcomes : EndsAs(s, outcome)
  BY <1>5 DEF Expire, Outcomes
<1> QED BY <1>1, <1>2, <1>3, <1>4, <1>5 DEF OfRun

\* Outside the run nobody touches its activities.
LEMMA OthersLeavePending ==
  ASSUME [ChaosNext]_vars PROVE (OfRun /\ Calm) \/ UNCHANGED <<pending, flow, visits>>
<1>1. Tick \/ (\E c \in Boxes : Return(c) \/ Crash(c)) => UNCHANGED <<pending, flow, visits>>
  BY DEF Tick, Return, Crash
<1>2. AwaitInflight \/ AimKill \/ Score \/ AimRestore \/ PressKill \/ PressRestart \/ UNCHANGED vars
         => UNCHANGED <<pending, flow, visits>>
  BY DEF AwaitInflight, AimKill, Score, AimRestore, PressKill, PressRestart, Press, world, vars
<1>3. KillOne \/ SignalGate \/ RestoreOne \/ Inject => UNCHANGED <<pending, flow, visits>>
  BY DEF KillOne, SignalGate, RestoreOne, Inject
<1> QED BY <1>1, <1>2, <1>3, Steps

\* An activity that ends leaves the others as they are.
LEMMA EndsAsIs ==
  ASSUME Types, NEW s \in DOMAIN pending, NEW outcome, EndsAs(s, outcome)
  PROVE  /\ DOMAIN pending' = DOMAIN pending \ {s}
         /\ \A t \in DOMAIN pending' : pending'[t] = pending[t]
         /\ pending' \in [DOMAIN pending \ {s} -> Waiting]
  BY DEF EndsAs, Types

\* A workflow task leaves the activities as they are, and may add new ones.
LEMMA CompleteTaskIs ==
  ASSUME Types, CompleteTask
  PROVE  /\ pending' \in [DOMAIN pending' -> Waiting]
         /\ \A s \in DOMAIN pending' :
              (s \in DOMAIN pending /\ pending'[s] = pending[s]) \/ pending'[s] = NewPending(s)
<1>1. PICK d \in Decide :
        pending' = IF d.phase = "over" THEN NoPending
                   ELSE [s \in DOMAIN pending \cup NewIds(d.commands, "Scheduled") |->
                           IF s \in NewIds(d.commands, "Scheduled") THEN NewPending(s)
                           ELSE pending[s]]
  BY DEF CompleteTask
<1>2. \A s : NewPending(s) \in Waiting
  <2>1. NoHolder \in Holders
    BY DEF NoHolder, Holders, NoBox
  <2>2. now \in Nat
    BY DEF Types
  <2> QED BY <2>1, <2>2 DEF NewPending, Waiting
<1>3. CASE d.phase = "over"
  BY <1>1, <1>3 DEF NoPending
<1>4. CASE d.phase # "over"
  <2> DEFINE ids == NewIds(d.commands, "Scheduled")
  <2>1. pending' = [s \in DOMAIN pending \cup ids |->
                      IF s \in ids THEN NewPending(s) ELSE pending[s]]
    BY <1>1, <1>4
  <2> HIDE DEF ids
  <2>2. \A s \in DOMAIN pending : pending[s] \in Waiting
    BY DEF Types
  <2> QED BY <1>2, <2>1, <2>2
<1> QED BY <1>3, <1>4

\* Where the holder of an attempt comes from, after any step: it had it before,
\* or it is a process that runs now.
LEMMA Holding ==
  ASSUME Types, [ChaosNext]_vars
  PROVE  /\ pending' \in [DOMAIN pending' -> Waiting]
         /\ \A s \in DOMAIN pending' :
              \/ pending'[s].holder = NoHolder
              \/ s \in DOMAIN pending /\ pending'[s].holder = pending[s].holder
              \/ box' = box /\ \E c \in Boxes : pending'[s].holder = Process(c)
<1>1. pending \in [DOMAIN pending -> Waiting]
  BY DEF Types
<1>2. CASE UNCHANGED pending
  BY <1>1, <1>2
<1> DEFINE Goal == /\ pending' \in [DOMAIN pending' -> Waiting]
                   /\ \A s \in DOMAIN pending' :
                        \/ pending'[s].holder = NoHolder
                        \/ s \in DOMAIN pending /\ pending'[s].holder = pending[s].holder
                        \/ box' = box /\ \E c \in Boxes : pending'[s].holder = Process(c)
<1>3. ASSUME OfRun, NEW s \in DOMAIN pending, NEW c \in Boxes, StartAttempt(s, c) PROVE Goal
  BY <1>1, <1>3, Placed, OfRunLeavesFleet
<1>4. ASSUME NEW s \in DOMAIN pending, Heartbeat(s) PROVE Goal
  BY <1>4, Beaten
<1>5. ASSUME NEW s \in DOMAIN pending, Retried(s) PROVE Goal
  BY <1>5, RetriedIs
<1>6. ASSUME NEW s \in DOMAIN pending, NEW outcome, EndsAs(s, outcome) PROVE Goal
  BY <1>6, EndsAsIs
<1>7. ASSUME CompleteTask PROVE Goal
  <2>1. \A s : NewPending(s).holder = NoHolder
    BY DEF NewPending
  <2> QED BY <1>7, <2>1, CompleteTaskIs
<1>8. ASSUME Terminate PROVE Goal
  <2>1. pending' = NoPending
    BY <1>8 DEF Terminate
  <2> QED BY <2>1 DEF NoPending
<1>9. ASSUME OfRun PROVE Goal
  <2> HIDE DEF Goal
  <2>1. UNCHANGED pending => Goal
    BY <1>2 DEF Goal
  <2>2. ASSUME NEW s \in DOMAIN pending, Retried(s) \/ \E outcome \in Outcomes : EndsAs(s, outcome)
        PROVE  Goal
    BY <1>5, <1>6, <2>2
  <2> QED BY <1>3, <1>4, <1>7, <1>8, <1>9, <2>1, <2>2, PendingMoves
<1> QED BY <1>2, <1>9, OthersLeavePending

\* Every step keeps Held.
LEMMA HeldStep == ASSUME Types, Held, [ChaosNext]_vars PROVE Held'
<1> SUFFICES ASSUME NEW s \in DOMAIN pending', pending'[s].holder # NoHolder
             PROVE  LET h == pending'[s].holder IN
                      /\ h.box \in Boxes
                      /\ h.life <= box'[h.box].life
                      /\ h.life = box'[h.box].life => h.pid = box'[h.box].pid
  BY BoxTyped DEF Held
<1>1. CASE box' = box /\ \E c \in Boxes : pending'[s].holder = Process(c)
  <2>1. PICK c \in Boxes : pending'[s].holder = [box |-> c, life |-> box[c].life, pid |-> box[c].pid]
    BY <1>1 DEF Process
  <2>2. box[c].life \in Nat
    BY DEF Types, Replica
  <2> QED BY <1>1, <2>1, <2>2
<1>2. ASSUME s \in DOMAIN pending, pending'[s].holder = pending[s].holder
      PROVE  LET h == pending'[s].holder IN
                      /\ h.box \in Boxes
                      /\ h.life <= box'[h.box].life
                      /\ h.life = box'[h.box].life => h.pid = box'[h.box].pid
  <2> DEFINE h == pending[s].holder
  <2>1. /\ h.box \in Boxes /\ h.life \in Nat
        /\ h.life <= box[h.box].life
        /\ h.life = box[h.box].life => h.pid = box[h.box].pid
    BY <1>2 DEF Held, Types, Waiting, Holders
  <2>2. box[h.box].life \in Nat
    BY <2>1 DEF Types, Replica
  <2> HIDE DEF h
  <2>3. /\ h.life <= box'[h.box].life
        /\ h.life = box'[h.box].life => h.pid = box'[h.box].pid
    <3>1. CASE box' = box
      BY <2>1, <3>1
    <3>2. CASE Tick
      BY <2>1, <3>2, TickIs
    <3>3. CASE \E c \in Boxes : Die(c)
      BY <2>1, <3>3, DieIs
    <3>4. ASSUME NEW c \in Boxes, Boot(c) PROVE <2>3!1 /\ <2>3!2
      <4>1. CASE c = h.box
        BY <2>1, <2>2, <3>4, <4>1, BootIs
      <4>2. CASE c # h.box
        BY <2>1, <3>4, <4>2, BootIs
      <4> QED BY <4>1, <4>2
    <3> QED BY <3>1, <3>2, <3>3, <3>4, BoxMoves
  <2> QED BY <1>2, <2>1, <2>3 DEF h
<1> QED BY <1>1, <1>2, Holding

\* Every step keeps the type of the workflow task.
LEMMA TaskTyped ==
  ASSUME Types, [ChaosNext]_vars PROVE task' \in {"none", "scheduled", "started"}
<1>1. task \in {"none", "scheduled", "started"}
  BY DEF Types
<1>2. Wakes => task' \in {"none", "scheduled", "started"}
  BY <1>1 DEF Wakes
<1>3. StartTask \/ CompleteTask \/ FireTimer \/ TaskTimesOut \/ Terminate \/ SomebodySignals
        => task' \in {"none", "scheduled", "started"}
  BY <1>1, <1>2 DEF StartTask, CompleteTask, FireTimer, TaskTimesOut, Terminate, SomebodySignals,
                    Signal
<1>4. ASSUME NEW s, NEW outcome, GivesUp(s, outcome) \/ EndsAs(s, outcome)
      PROVE  task' \in {"none", "scheduled", "started"}
  BY <1>1, <1>2, <1>4 DEF GivesUp, EndsAs
<1>5. ASSUME NEW s, NEW c,
             StartAttempt(s, c) \/ Heartbeat(s) \/ Complete(s) \/ FailAttempt(s)
               \/ TimeoutAttempt(s) \/ Expire(s)
      PROVE  task' \in {"none", "scheduled", "started"}
  BY <1>1, <1>4, <1>5 DEF StartAttempt, Heartbeat, Complete, FailAttempt, TimeoutAttempt, Expire
<1>6. OfRun => task' \in {"none", "scheduled", "started"}
  BY <1>3, <1>5 DEF OfRun, RunStep
<1>7. Tick \/ (\E c \in Boxes : Return(c) \/ Crash(c)) => UNCHANGED task
  BY DEF Tick, Return, Crash
<1>8. AwaitInflight \/ AimKill \/ Score \/ AimRestore \/ PressKill \/ PressRestart \/ UNCHANGED vars
         => UNCHANGED task
  BY DEF AwaitInflight, AimKill, Score, AimRestore, PressKill, PressRestart, Press, world, vars
<1>9. KillOne \/ RestoreOne \/ Inject => UNCHANGED task
  BY DEF KillOne, RestoreOne, Inject
<1>10. SignalGate => Wakes
  BY DEF SignalGate
<1> QED BY <1>1, <1>2, <1>6, <1>7, <1>8, <1>9, <1>10, Steps

\* Every step keeps the types of the Chaos Lab.
LEMMA LabTyped ==
  ASSUME Types, [ChaosNext]_vars
  PROVE  /\ exp' \in Experiments
         /\ exp'.at \in {"kill", "start"} => exp'.box \in Boxes
         /\ button' # NoAim => button'.box \in Boxes
         /\ kicks' \in Nat
<1>1. /\ exp \in Experiments
      /\ exp.at \in {"kill", "start"} => exp.box \in Boxes
      /\ button # NoAim => button.box \in Boxes
      /\ kicks \in Nat /\ Boxes \subseteq Containers
  BY ScenarioFacts DEF Types
<1>2. CASE Calm \/ UNCHANGED vars
  BY <1>1, <1>2 DEF Calm, lab, vars
<1>3. CASE \E c \in Boxes : Crash(c) /\ kicks' = kicks + 1 /\ UNCHANGED <<exp, button, presses, unheard>>
  BY <1>1, <1>3
<1>4. CASE AwaitInflight
  BY <1>1, <1>4 DEF AwaitInflight, Goto, Experiments
<1>5. CASE AimKill
  BY <1>1, <1>5, ZenonT(30) DEF AimKill, Experiments, KillTargets, Targets, Running
<1>6. CASE KillOne
  BY <1>1, <1>6 DEF KillOne, Experiments
<1>7. CASE SignalGate
  BY <1>1, <1>7 DEF SignalGate, Experiments
<1>8. CASE Score
  BY <1>1, <1>8 DEF Score, Experiments
<1>9. CASE AimRestore
  BY <1>1, <1>9, ZenonT(30) DEF AimRestore, Experiments, StartTargets, Targets, Running
<1>10. CASE RestoreOne
  BY <1>1, <1>10 DEF RestoreOne, Goto, Experiments
<1>11. CASE PressKill \/ PressRestart
  BY <1>1, <1>11 DEF PressKill, PressRestart, Press, KillTargets, StartTargets, Targets, Running
<1>12. CASE Inject
  BY <1>1, <1>12 DEF Inject
<1> QED BY <1>2, <1>3, <1>4, <1>5, <1>6, <1>7, <1>8, <1>9, <1>10, <1>11, <1>12, Steps

\* Every step keeps the types.
LEMMA TypesStep == Types /\ [ChaosNext]_vars => Types'
  BY BoxTyped, Holding, TaskTyped, LabTyped DEF Types

------------------------------------------------------------------------------
(* The fleet *)

\* The dead can be counted.
LEMMA DeadIsFinite ==
  ASSUME Types PROVE IsFiniteSet(Dead) /\ Cardinality(Dead) \in Nat
<1>1. IsFiniteSet(Boxes) /\ Dead \subseteq Boxes
  BY ScenarioFacts DEF Types, Dead
<1> QED BY <1>1, FS_Subset, FS_CardinalityType

\* A death is one more, a return is one less, and else nothing changes.
LEMMA DeadMoves ==
  ASSUME Types, Types', Boxes' = Boxes
  PROVE  /\ \A c \in Boxes : box[c].up /\ Die(c) => Cardinality(Dead') = Cardinality(Dead) + 1
         /\ \A c \in Boxes : ~box[c].up /\ Boot(c) => Cardinality(Dead') = Cardinality(Dead) - 1
         /\ box' = box \/ Tick => Cardinality(Dead') = Cardinality(Dead)
<1>1. ASSUME NEW c \in Boxes, box[c].up, Die(c)
      PROVE  Cardinality(Dead') = Cardinality(Dead) + 1
  <2>1. Dead' = Dead \cup {c} /\ c \notin Dead
    BY <1>1, DieIs DEF Dead, Running
  <2> QED BY <2>1, DeadIsFinite, FS_AddElement
<1>2. ASSUME NEW c \in Boxes, ~box[c].up, Boot(c)
      PROVE  Cardinality(Dead') = Cardinality(Dead) - 1
  <2>1. Dead' = Dead \ {c} /\ c \in Dead
    BY <1>2, BootIs DEF Dead, Running
  <2> QED BY <2>1, DeadIsFinite, FS_RemoveElement
<1>3. ASSUME box' = box \/ Tick PROVE Dead' = Dead
  BY <1>3, TickIs DEF Dead, Running
<1> QED BY <1>1, <1>2, <1>3

\* The number of the dead, in arithmetic.
LEMMA Counts ==
  ASSUME Types, Types'
  PROVE  Cardinality(Dead) \in Nat /\ Cardinality(Dead') \in Nat /\ kicks \in Nat /\ kicks' \in Nat
<1>1. IsFiniteSet(Dead') /\ Cardinality(Dead') \in Nat
  <2>1. IsFiniteSet(Boxes') /\ Dead' \subseteq Boxes'
    <3>1. sc' \in Scenarios /\ Boxes' = sc'.boxes
      BY DEF Types, Boxes
    <3>2. Boxes' \subseteq Containers
      BY <3>1, ScenarioAssumption
    <3> QED BY <3>2, ContainersAreFinite, FS_Subset DEF Dead
  <2> QED BY <2>1, FS_Subset, FS_CardinalityType
<1> QED BY <1>1, DeadIsFinite DEF Types

\* Every step keeps the account of the dead.
LEMMA RepaidStep == ASSUME Types, Repaid, [ChaosNext]_vars PROVE Repaid'
<1>1. Types' /\ Boxes' = Boxes
  BY TypesStep, BoxTyped
<1> DEFINE n == Cardinality(Dead)
           m == Cardinality(Dead')
           o == Owed
           p == Owed'
<1>2. n \in Nat /\ m \in Nat /\ kicks \in Nat /\ kicks' \in Nat
  BY <1>1, Counts
<1>3. /\ \A c \in Boxes : box[c].up /\ Die(c) => m = n + 1
      /\ \A c \in Boxes : ~box[c].up /\ Boot(c) => m = n - 1
      /\ box' = box \/ Tick => m = n
  BY <1>1, DeadMoves
<1>4. ~unheard => n <= kicks + o
  BY DEF Repaid
<1>5. o \in Nat /\ o <= 1 /\ p \in Nat /\ p <= 1
  BY DEF Owed
<1> SUFFICES ASSUME ~unheard' PROVE m <= kicks' + p
  BY DEF Repaid
<1> HIDE DEF n, m, o, p
<1>6. CASE OfRun /\ Calm
  <2>1. box' = box /\ exp' = exp /\ kicks' = kicks /\ unheard' = unheard
    BY <1>6, OfRunLeavesFleet DEF Calm, lab
  <2> QED BY <1>2, <1>3, <1>4, <2>1 DEF Owed, o, p
<1>7. CASE Tick /\ Calm
  <2>1. exp' = exp /\ kicks' = kicks /\ unheard' = unheard
    BY <1>7 DEF Calm, lab
  <2>2. p = o
    BY <1>7, <2>1, TickIs DEF Owed, o, p, Types
  <2> QED BY <1>7, <1>2, <1>3, <1>4, <2>1, <2>2
<1>8. ASSUME NEW c \in Boxes, Return(c) /\ Calm PROVE m <= kicks' + p
  <2>1. exp' = exp /\ kicks' = kicks /\ unheard' = unheard /\ m = n - 1
    BY <1>8, <1>3 DEF Calm, lab, Return
  <2> QED BY <1>2, <1>5, <1>4, <2>1
<1>9. ASSUME NEW c \in Boxes, Crash(c), kicks' = kicks + 1, UNCHANGED <<exp, button, presses, unheard>>
      PROVE  m <= kicks' + p
  <2>1. m = n + 1 /\ Die(c)
    BY <1>9, <1>3 DEF Crash
  <2>2. p >= o
    <3>1. exp'.at = "start" => exp.box \in Boxes /\ (box'[exp.box].up => box[exp.box].up)
      BY <1>9, <2>1, DieIs DEF Types
    <3> QED BY <1>9, <3>1 DEF Owed, o, p
  <2> QED BY <1>9, <1>2, <1>5, <1>4, <2>1, <2>2
<1>10. CASE AwaitInflight \/ AimKill \/ Score \/ SignalGate \/ PressKill \/ PressRestart \/ UNCHANGED vars
  <2>1. box' = box /\ kicks' = kicks /\ unheard' = unheard
    BY <1>10 DEF AwaitInflight, AimKill, Score, SignalGate, Answered, PressKill, PressRestart, Press,
                world, vars, lab
  <2>2. CASE AwaitInflight \/ AimKill \/ Score \/ SignalGate
    <3>1. p = o
      BY <2>1, <2>2 DEF AwaitInflight, AimKill, Score, SignalGate, Goto, Owed, o, p, Types, Experiments
    <3> QED BY <1>2, <1>3, <1>4, <2>1, <3>1
  <2>3. CASE PressKill \/ PressRestart \/ UNCHANGED vars
    <3>1. exp' = exp
      BY <2>3 DEF PressKill, PressRestart, Press, vars, lab
    <3>2. p = o
      BY <2>1, <3>1 DEF Owed, o, p
    <3> QED BY <1>2, <1>3, <1>4, <2>1, <3>2
  <2> QED BY <1>10, <2>2, <2>3
<1>11. CASE KillOne
  <2>1. /\ unheard' = unheard /\ kicks' = kicks /\ exp.at = "kill"
        /\ exp.box \in Boxes
    BY <1>11 DEF KillOne, Answered, Unanswered, Types
  <2>2. o = 0
    BY <2>1 DEF Owed, o, p
  <2>3. CASE box[exp.box].up
    <3>1. m = n + 1
      BY <1>11, <1>3, <2>1, <2>3 DEF KillOne, Kill
    <3>2. p = 1
      BY <1>11, <2>1, <2>3 DEF KillOne, Owed, o, p, Types, Experiments, Unanswered
    <3> QED BY <1>2, <1>4, <2>1, <2>2, <3>1, <3>2
  <2>4. CASE ~box[exp.box].up
    <3>1. m = n
      BY <1>11, <1>3, <2>4 DEF KillOne, Kill
    <3> QED BY <1>2, <1>5, <1>4, <2>1, <2>2, <3>1
  <2> QED BY <2>3, <2>4
<1>12. CASE AimRestore
  <2>1. unheard' = unheard /\ kicks' = kicks /\ box' = box
    BY <1>12 DEF AimRestore, world
  <2>2. PICK c \in StartTargets : exp' = [exp EXCEPT !.at = "start", !.box = c]
    BY <1>12 DEF AimRestore
  <2>3. CASE Dead = {}
    <3>1. n = 0
      BY <2>3, FS_EmptySet DEF n
    <3> QED BY <1>2, <1>3, <1>5, <2>1, <3>1
  <2>4. CASE Dead # {}
    <3>1. c \in Boxes /\ ~box[c].up
      BY <2>2, <2>4 DEF StartTargets, Targets, Dead, Running
    <3>2. p = 1
      BY <2>1, <2>2, <3>1 DEF Owed, o, p, Types, Experiments
    <3> QED BY <1>2, <1>3, <1>5, <1>4, <2>1, <3>2
  <2> QED BY <2>3, <2>4
<1>13. CASE RestoreOne
  <2>1. /\ unheard' = unheard /\ kicks' = kicks /\ exp.at = "start"
        /\ exp.box \in Boxes
    BY <1>13 DEF RestoreOne, Answered, Unanswered, Types
  <2>2. CASE box[exp.box].up
    <3>1. m = n /\ o = 0
      BY <1>13, <1>3, <2>1, <2>2 DEF RestoreOne, Start, Owed, o, p
    <3> QED BY <1>2, <1>5, <1>4, <2>1, <3>1
  <2>3. CASE ~box[exp.box].up
    <3>1. m = n - 1 /\ o = 1
      BY <1>13, <1>3, <2>1, <2>3 DEF RestoreOne, Start, Owed, o, p
    <3> QED BY <1>2, <1>5, <1>4, <2>1, <3>1
  <2> QED BY <2>2, <2>3
<1>14. CASE Inject
  <2>1. unheard' = unheard /\ exp' = exp /\ button.box \in Boxes
    BY <1>14 DEF Inject, Answered, Unanswered, Types
  <2>2. CASE button.do = "kill" /\ box[button.box].up
    <3>1. m = n + 1 /\ Die(button.box) /\ kicks' = kicks + 1
      BY <1>14, <1>3, <2>1, <2>2 DEF Inject, Kill
    <3>2. p >= o
      <4>1. exp'.at = "start" => exp.box \in Boxes /\ (box'[exp.box].up => box[exp.box].up)
        BY <2>1, <3>1, DieIs DEF Types
      <4> QED BY <2>1, <4>1 DEF Owed, o, p
    <3> QED BY <1>2, <1>5, <1>4, <2>1, <3>1, <3>2
  <2>3. CASE (button.do = "kill" /\ ~box[button.box].up) \/ (button.do # "kill" /\ box[button.box].up)
    <3>1. m = n /\ box' = box /\ kicks' = kicks
      BY <1>14, <1>3, <2>1, <2>3 DEF Inject, Kill, Start
    <3>2. p = o
      BY <2>1, <3>1 DEF Owed, o, p
    <3> QED BY <1>2, <1>4, <2>1, <3>1, <3>2
  <2>4. CASE button.do # "kill" /\ ~box[button.box].up
    <3>1. m = n - 1 /\ kicks' = kicks
      BY <1>14, <1>3, <2>1, <2>4 DEF Inject, Start
    <3> QED BY <1>2, <1>5, <1>4, <2>1, <3>1
  <2> QED BY <2>2, <2>3, <2>4
<1> QED BY <1>6, <1>7, <1>8, <1>9, <1>10, <1>11, <1>12, <1>13, <1>14, Steps

\* The fleet's invariant holds at first.
LEMMA FleetInit == ChaosInit => FleetInv
<1> SUFFICES ASSUME ChaosInit PROVE FleetInv
  OBVIOUS
<1>1. sc \in Scenarios /\ Boxes \subseteq Containers /\ sc.lab \in BOOLEAN
  BY ScenarioFacts, ScenarioAssumption DEF ChaosInit, Init
<1>2. box \in [Boxes -> Replica] /\ \A c \in Boxes : box[c].up /\ box[c].beat = now
  BY DEF ChaosInit, Init, Boxes, Replica
<1>3. pending \in [DOMAIN pending -> Waiting] /\ DOMAIN pending = {}
  BY DEF ChaosInit, Init, NoPending
<1>4. exp \in Experiments /\ exp.at \notin {"kill", "start", "drive", "restore"}
  BY DEF ChaosInit, Experiments
<1>5. Types
  BY <1>1, <1>2, <1>3, <1>4 DEF Types, ChaosInit, Init
<1>6. Beats /\ Held
  BY <1>2, <1>3 DEF Beats, Held
<1>7. Repaid
  <2>1. Dead = {}
    BY <1>2 DEF Dead, Running
  <2>2. Cardinality(Dead) = 0 /\ kicks = 0
    BY <2>1, FS_EmptySet DEF ChaosInit
  <2> QED BY <2>2 DEF Repaid, Owed
<1> QED BY <1>5, <1>6, <1>7 DEF FleetInv

\* So it always holds.
LEMMA FleetInductive == ChaosSpec => []FleetInv
<1>1. FleetInv /\ [ChaosNext]_vars => FleetInv'
  BY TypesStep, BeatsStep, HeldStep, RepaidStep DEF FleetInv
<1> QED BY FleetInit, <1>1, PTL DEF ChaosSpec

\* When an experiment is over, no more containers are dead than others killed,
\* whatever the operator did in the meantime, unless Docker left a request
\* unanswered (ChaosExperimentRunner.run's finally, _restore and
\* ChaosService._resolve).
THEOREM FleetAsFoundAlways == ChaosSpec => []FleetAsFound
<1>1. FleetInv => FleetAsFound
  BY DEF FleetInv, Repaid, Owed, FleetAsFound, Dead, Types
<1> QED BY <1>1, FleetInductive, PTL

\* An attempt's holder called gone is dead if Redis answered, one called
\* replaced is dead or there was a kill, and one called live is alive, or died
\* only just now, or its pid is another process's and nobody logged a kill
\* (FleetLiveness, _activity_window).
THEOREM LivenessIsHonestAlways == ChaosSpec => []LivenessIsHonest
<1>1. FleetInv => LivenessIsHonest
  <2> SUFFICES ASSUME FleetInv, NEW s \in DOMAIN pending, NEW redis \in BOOLEAN,
                      pending[s].holder # NoHolder
               PROVE  LET p == pending[s]
                          killed == \E k \in kills : p.since < k /\ k <= now
                      IN CASE HolderState(p, redis) = "gone" -> redis => ~Alive(p.holder)
                           [] HolderState(p, redis) = "replaced" -> ~Alive(p.holder) \/ killed
                           [] HolderState(p, redis) = "live" ->
                                ~killed /\ (Alive(p.holder) \/ box[p.holder.box].up
                                             \/ now - box[p.holder.box].beat <= Fresh)
                           [] OTHER -> TRUE
    BY DEF LivenessIsHonest
  <2> DEFINE p == pending[s]
             h == p.holder
             killed == \E k \in kills : p.since < k /\ k <= now
  <2>1. /\ h.box \in Boxes
        /\ h.life = box[h.box].life => h.pid = box[h.box].pid
        /\ box[h.box].up => box[h.box].beat = now
        /\ now \in Nat /\ Ttl \in Nat
    BY ScenarioFacts DEF FleetInv, Held, Beats, Types
  <2>2. LivenessOf(h, redis) =
          IF Live(h.box, redis)
            THEN IF h.pid # box[h.box].pid THEN "replaced"
                 ELSE IF HeardFrom(h.box) THEN "live" ELSE "unknown"
            ELSE "gone"
    BY DEF LivenessOf
  <2>3. HolderState(p, redis) = IF LivenessOf(h, redis) = "live" /\ killed THEN "replaced"
                                ELSE LivenessOf(h, redis)
    BY DEF HolderState
  <2>4. HolderState(p, redis) = "gone" => (redis => ~Alive(h))
    <3>1. ASSUME Alive(h), redis PROVE Live(h.box, redis)
      BY <2>1, <3>1 DEF Live, Alive
    <3> QED BY <2>2, <2>3, <3>1
  <2>5. HolderState(p, redis) = "replaced" => ~Alive(h) \/ killed
    BY <2>1, <2>2, <2>3 DEF Alive
  <2>6. HolderState(p, redis) = "live" => ~killed /\ now - box[h.box].beat <= Fresh
    BY <2>2, <2>3 DEF HeardFrom
  <2> QED BY <2>4, <2>5, <2>6
<1> QED BY <1>1, FleetInductive, PTL

------------------------------------------------------------------------------
(* The history *)

\* The names of gates, and no name.
Texts == STRING \cup {"", "publish"}
\* How a run may close.
Statuses == {"Completed", "Failed", "Terminated"}

\* The events of workflow tasks.
Marks == [type : {"TaskStarted", "TaskTimedOut", "TaskCompleted"}, at : Nat]
\* The events that schedule an activity.
Schedulings == [type : {"Scheduled"}, at : Nat, decided : Nat, kind : {"node", "open", "close"},
                gate : Texts, answer : Answers, budget : Nat, within : Nat]
\* The events that start a timer.
Timers == [type : {"TimerStarted"}, at : Nat, fires : Nat]
\* The events that end a timer.
TimerEnds == [type : {"TimerCanceled", "TimerFired"}, at : Nat, timer : Nat]
\* The events of signals.
Signals == [type : {"Signaled"}, at : Nat, gate : Texts, answer : Decisions]
\* The events that start an attempt.
Starts == [type : {"Started"}, at : Nat, of : Nat, attempt : Nat \ {0}]
\* The events that end an activity.
Ends == [type : {"Ended"}, at : Nat, of : Nat, outcome : Outcomes]
\* The events that close a run.
Closings == [type : {"Closed"}, at : Nat, status : Statuses]
\* The events of a history.
Event ==
  Marks \cup Schedulings \cup Timers \cup TimerEnds \cup Signals \cup Starts \cup Ends \cup Closings

\* The phases of a run.
Phases == {"start", "call", "open", "parked", "close", "wait", "over"}
\* Where a run may be.
Flow == [step : Nat, phase : Phases, answer : Answers, awaits : SUBSET Nat, timer : Nat]

\* The history and the workflow code's place are what their types say.
Written ==
  /\ history \in Seq(Event)
  /\ \A i \in DOMAIN history : history[i].at <= now
  /\ flow \in Flow
  /\ task = "started" => Len(history) > 0

\* An attempt's start is followed by its end.
Paired ==
  \A i \in Ids("Started") : i + 1 \in Ids("Ended") /\ history[i + 1].of = history[i].of

\* An activity ends once, and is not pending then.
EndedOnce ==
  /\ \A i \in Ids("Ended") : /\ history[i].of \in Ids("Scheduled") /\ history[i].of < i
                             /\ history[i].of \notin DOMAIN pending
  /\ \A i, j \in Ids("Ended") : history[i].of = history[j].of => i = j

\* Until the run is over, an activity scheduled is pending or has ended.
Accounted ==
  /\ DOMAIN pending \subseteq Ids("Scheduled")
  /\ \A s \in Ids("Scheduled") :
       s \in DOMAIN pending \/ Closed \/ \E i \in Ids("Ended") : history[i].of = s

\* Nothing follows the end of the run.
Final ==
  /\ Closed <=> Ids("Closed") # {}
  /\ \A i \in Ids("Closed") : i = Len(history)
  /\ Closed => DOMAIN pending = {} /\ task = "none"

\* Where the workflow code waits is a step of its plan.
Placing ==
  /\ flow.phase = "call" => flow.step \in DOMAIN Plan /\ Plan[flow.step].do = "call"
  /\ flow.phase \in {"open", "parked", "close"} =>
       flow.step \in DOMAIN Plan /\ Plan[flow.step].do = "gate"
  /\ flow.phase = "wait" => flow.step \in DOMAIN Plan /\ Plan[flow.step].do = "wait"

\* What is pending is what the code waits for.
Awaiting ==
  /\ flow.awaits \subseteq Ids("Scheduled")
  /\ DOMAIN pending \subseteq flow.awaits
  /\ flow.phase \in {"start", "parked", "wait"} => DOMAIN pending = {}

\* A run with no workflow task left waits for something.
Busy ==
  ~Closed /\ task = "none" =>
    /\ flow.phase # "start"
    /\ flow.phase \in {"call", "open", "close"} => DOMAIN pending # {}

\* An attempt started after its activity was scheduled.
Clocked ==
  \A s \in DOMAIN pending : history[s].at <= pending[s].since /\ pending[s].since <= now

\* What the history says of the run, inductive together with the types and the
\* clock.
Recorded ==
  Written /\ Paired /\ EndedOnce /\ Accounted /\ Final /\ Placing /\ Awaiting /\ Busy

\* A set of numbers that is not empty has a least element.  It stands in for
\* induction: the first index that breaks a property is looked at.
LEMMA Least ==
  ASSUME NEW T \in SUBSET Nat, T # {}
  PROVE  \E x \in T : \A y \in T : x <= y
<1> DEFINE F == {0 .. m : m \in T}
<1>1. IsWellFoundedOn(StrictSubsetOrdering(Nat), FiniteSubsetsOf(Nat))
  BY FS_StrictSubsetOrderingWellFounded
<1>2. F \subseteq FiniteSubsetsOf(Nat)
  <2>1. ASSUME NEW m \in T PROVE 0 .. m \in FiniteSubsetsOf(Nat)
    <3>1. 0 \in Int /\ m \in Int /\ 0 .. m \subseteq Nat
      OBVIOUS
    <3>2. IsFiniteSet(0 .. m)
      BY <3>1, FS_Interval
    <3> QED BY <3>1, <3>2 DEF FiniteSubsetsOf
  <2> QED BY <2>1
<1>3. F # {}
  OBVIOUS
<1>4. PICK s \in F : \A t \in F : ~ (<<t, s>> \in StrictSubsetOrdering(Nat))
  <2> HIDE DEF F
  <2> QED BY <1>1, <1>2, <1>3, WFMin
<1>5. PICK m \in T : s = 0 .. m
  BY <1>4
<1>6. ASSUME NEW y \in T, y < m PROVE FALSE
  <2>1. 0 .. y \in F
    OBVIOUS
  <2>2. <<0 .. y, 0 .. m>> \notin StrictSubsetOrdering(Nat)
    BY <2>1, <1>4, <1>5
  <2>3. 0 .. y \subseteq 0 .. m /\ m \in 0 .. m /\ m \notin 0 .. y
    BY <1>6
  <2> QED BY <2>2, <2>3 DEF StrictSubsetOrdering
<1> QED BY <1>6

\* A bounded set of numbers that is not empty has a greatest element.
LEMMA Greatest ==
  ASSUME NEW n \in Nat, NEW T \in SUBSET (1 .. n), T # {}
  PROVE  \E x \in T : \A y \in T : y <= x
<1> DEFINE U == {n - t : t \in T}
<1>1. U \in SUBSET Nat /\ U # {}
  OBVIOUS
<1>2. PICK x \in U : \A y \in U : x <= y
  <2> HIDE DEF U
  <2> QED BY <1>1, Least
<1>3. PICK t \in T : x = n - t
  BY <1>2
<1>4. ASSUME NEW y \in T PROVE y <= t
  <2>1. n - y \in U
    OBVIOUS
  <2> QED BY <1>2, <1>3, <2>1
<1> QED BY <1>4

\* What a concatenation is: its length, the old elements and the new ones.
LEMMA Grown ==
  ASSUME NEW S, NEW q \in Seq(S), NEW new \in Seq(S)
  PROVE  LET r == q \o new IN
         /\ r \in Seq(S) /\ Len(q) \in Nat /\ DOMAIN q = 1 .. Len(q)
         /\ Len(r) = Len(q) + Len(new)
         /\ DOMAIN r = 1 .. Len(q) + Len(new)
         /\ \A i \in DOMAIN q : i \in DOMAIN r /\ r[i] = q[i]
         /\ \A k \in DOMAIN new : Len(q) + k \in DOMAIN r /\ r[Len(q) + k] = new[k]
         /\ \A i \in DOMAIN r : i \in DOMAIN q \/ \E k \in DOMAIN new : i = Len(q) + k
<1> DEFINE r == q \o new
           L == Len(q)
           M == Len(new)
<1>1. r \in Seq(S) /\ L \in Nat /\ M \in Nat /\ DOMAIN q = 1 .. L /\ DOMAIN new = 1 .. M
  OBVIOUS
<1>2. Len(r) = L + M /\ DOMAIN r = 1 .. L + M
  OBVIOUS
<1>3. \A i \in 1 .. L + M : r[i] = IF i <= L THEN q[i] ELSE new[i - L]
  OBVIOUS
<1>4. ASSUME NEW i \in DOMAIN q PROVE i \in DOMAIN r /\ r[i] = q[i]
  BY <1>1, <1>2, <1>3
<1>5. ASSUME NEW k \in DOMAIN new PROVE L + k \in DOMAIN r /\ r[L + k] = new[k]
  <2> HIDE DEF L, M
  <2>1. L + k \in 1 .. L + M /\ ~(L + k <= L) /\ (L + k) - L = k
    BY <1>1
  <2> QED BY <2>1, <1>2, <1>3
<1>6. ASSUME NEW i \in DOMAIN r, i \notin DOMAIN q PROVE \E k \in DOMAIN new : i = L + k
  <2> HIDE DEF L, M
  <2>1. i - L \in DOMAIN new /\ i = L + (i - L)
    BY <1>1, <1>2, <1>6
  <2> QED BY <2>1
<1> QED BY <1>1, <1>2, <1>4, <1>5, <1>6

\* An event appended is a sequence of one event concatenated.
LEMMA OneMore ==
  ASSUME NEW S, NEW e \in S, NEW q \in Seq(S)
  PROVE  <<e>> \in Seq(S) /\ DOMAIN <<e>> = {1} /\ <<e>>[1] = e /\ Append(q, e) = q \o <<e>>
  OBVIOUS

\* What is written behind the history, by type.
LEMMA Appends ==
  ASSUME history \in Seq(Event), NEW e \in Event, history' = Append(history, e)
  PROVE  /\ history' \in Seq(Event) /\ Len(history) \in Nat /\ DOMAIN history = 1 .. Len(history)
         /\ DOMAIN history' = 1 .. Len(history) + 1 /\ Len(history') = Len(history) + 1
         /\ \A i \in DOMAIN history : i \in DOMAIN history' /\ history'[i] = history[i]
         /\ history'[Len(history) + 1] = e
         /\ \A type : Ids(type)' = IF e.type = type THEN Ids(type) \cup {Len(history) + 1} ELSE Ids(type)
<1> DEFINE L == Len(history)
<1>1. /\ history' \in Seq(Event) /\ L \in Nat /\ DOMAIN history = 1 .. L
      /\ DOMAIN history' = 1 .. L + 1 /\ Len(history') = L + 1
      /\ \A i \in DOMAIN history : i \in DOMAIN history' /\ history'[i] = history[i]
      /\ history'[L + 1] = e
  OBVIOUS
<1> HIDE DEF L
<1>2. DOMAIN history' = DOMAIN history \cup {L + 1} /\ L + 1 \notin DOMAIN history
  BY <1>1
<1>3. \A type : Ids(type)' = IF e.type = type THEN Ids(type) \cup {L + 1} ELSE Ids(type)
  BY <1>1, <1>2 DEF Ids
<1> QED BY <1>1, <1>3 DEF L

\* What the completion of a workflow task writes: its own event, and then its
\* commands.
WritesTask(t, c) == history' = history \o <<t>> \o c

\* What a history is after a workflow task completed.
LEMMA TaskWritten ==
  ASSUME history \in Seq(Event), NEW t \in Event, NEW c \in Seq(Event), WritesTask(t, c)
  PROVE  /\ history' \in Seq(Event) /\ Len(history) \in Nat /\ DOMAIN history = 1 .. Len(history)
         /\ Len(history') = Len(history) + 1 + Len(c)
         /\ DOMAIN history' = 1 .. Len(history) + 1 + Len(c)
         /\ \A i \in DOMAIN history : i \in DOMAIN history' /\ history'[i] = history[i]
         /\ history'[Len(history) + 1] = t
         /\ \A k \in DOMAIN c : /\ Len(history) + 1 + k \in DOMAIN history'
                                /\ history'[Len(history) + 1 + k] = c[k]
         /\ \A i \in DOMAIN history' : i \in DOMAIN history \/ i = Len(history) + 1
                                         \/ \E k \in DOMAIN c : i = Len(history) + 1 + k
         /\ \A type : Ids(type)' = Ids(type) \cup NewIds(c, type)
                                     \cup (IF t.type = type THEN {Len(history) + 1} ELSE {})
<1> DEFINE L == Len(history)
           h == history \o <<t>>
<1>1. /\ h \in Seq(Event) /\ L \in Nat /\ DOMAIN history = 1 .. L /\ Len(h) = L + 1
      /\ DOMAIN h = 1 .. L + 1 /\ h[L + 1] = t
      /\ \A i \in DOMAIN history : i \in DOMAIN h /\ h[i] = history[i]
  OBVIOUS
<1>2. history' = h \o c
  BY DEF WritesTask
<1> HIDE DEF h, L
<1>3. /\ history' \in Seq(Event) /\ Len(history') = Len(h) + Len(c)
      /\ DOMAIN history' = 1 .. Len(h) + Len(c)
      /\ \A i \in DOMAIN h : i \in DOMAIN history' /\ history'[i] = h[i]
      /\ \A k \in DOMAIN c : Len(h) + k \in DOMAIN history' /\ history'[Len(h) + k] = c[k]
      /\ \A i \in DOMAIN history' : i \in DOMAIN h \/ \E k \in DOMAIN c : i = Len(h) + k
  <2>1. h \in Seq(Event) /\ c \in Seq(Event)
    BY <1>1
  <2> QED BY <1>2, <2>1, Grown, SMT
<1>4. /\ history' \in Seq(Event) /\ Len(history') = L + 1 + Len(c) /\ DOMAIN history' = 1 .. L + 1 + Len(c)
      /\ \A i \in DOMAIN h : i \in DOMAIN history' /\ history'[i] = h[i]
      /\ \A k \in DOMAIN c : L + 1 + k \in DOMAIN history' /\ history'[L + 1 + k] = c[k]
      /\ \A i \in DOMAIN history' : i \in DOMAIN h \/ \E k \in DOMAIN c : i = L + 1 + k
  BY <1>1, <1>3
<1>5. /\ \A i \in DOMAIN history : i \in DOMAIN history' /\ history'[i] = history[i]
      /\ history'[L + 1] = t /\ L + 1 \in DOMAIN history'
      /\ \A i \in DOMAIN history' : i \in DOMAIN history \/ i = L + 1 \/ \E k \in DOMAIN c : i = L + 1 + k
  <2>1. L + 1 \in DOMAIN h /\ \A i \in DOMAIN h : i \in DOMAIN history \/ i = L + 1
    BY <1>1
  <2> QED BY <1>1, <1>4, <2>1
<1>6. ASSUME NEW type
      PROVE  Ids(type)' = Ids(type) \cup NewIds(c, type) \cup (IF t.type = type THEN {L + 1} ELSE {})
  <2>1. NewIds(c, type) = {L + 1 + k : k \in {i \in DOMAIN c : c[i].type = type}}
    BY DEF NewIds, L
  <2>2. ASSUME NEW i \in Ids(type)'
        PROVE  i \in Ids(type) \cup NewIds(c, type) \cup (IF t.type = type THEN {L + 1} ELSE {})
    BY <1>4, <1>5, <2>1, <2>2 DEF Ids
  <2>3. Ids(type) \subseteq Ids(type)'
    BY <1>5 DEF Ids
  <2>4. NewIds(c, type) \subseteq Ids(type)'
    BY <1>4, <2>1 DEF Ids
  <2>5. t.type = type => L + 1 \in Ids(type)'
    BY <1>5 DEF Ids
  <2> QED BY <2>2, <2>3, <2>4, <2>5
<1> QED BY <1>1, <1>4, <1>5, <1>6 DEF L

\* What is in an event, by its type.
LEMMA EventIs ==
  ASSUME NEW e \in Event
  PROVE  /\ e.at \in Nat
         /\ e.type = "Scheduled" => e.decided \in Nat /\ e.kind \in {"node", "open", "close"}
                                    /\ e.gate \in Texts /\ e.answer \in Answers
                                    /\ e.budget \in Nat /\ e.within \in Nat
         /\ e.type = "Signaled" => e.gate \in Texts /\ e.answer \in Decisions
         /\ e.type = "Started" => e.of \in Nat /\ e.attempt \in Nat \ {0}
         /\ e.type = "Ended" => e.of \in Nat /\ e.outcome \in Outcomes
         /\ e.type = "Closed" => e.status \in Statuses
  BY DEF Event, Marks, Schedulings, Timers, TimerEnds, Signals, Starts, Ends, Closings

\* What is in a sequence over S is in S.
LEMMA InSequence ==
  ASSUME NEW S, NEW q \in Seq(S), NEW i \in DOMAIN q PROVE q[i] \in S
  OBVIOUS

\* What the plan of a scenario is.
LEMMA PlanIs ==
  ASSUME sc \in Scenarios
  PROVE  /\ Plan \in Seq([do : {"call", "gate", "wait"}, calls : Nat, gate : STRING,
                          expires : BOOLEAN, when : SUBSET Answers])
         /\ Len(Plan) \in Nat /\ DOMAIN Plan = 1 .. Len(Plan)
         /\ \A i \in DOMAIN Plan : /\ Plan[i].do \in {"call", "gate", "wait"}
                                   /\ Plan[i].calls \in Nat
                                   /\ Plan[i].do = "call" => Plan[i].calls > 0
                                   /\ Plan[i].gate \in Texts
<1>1. /\ Plan \in Seq([do : {"call", "gate", "wait"}, calls : Nat, gate : STRING,
                       expires : BOOLEAN, when : SUBSET Answers])
      /\ \A i \in DOMAIN Plan : Plan[i].do = "call" => Plan[i].calls > 0
  BY ScenarioAssumption DEF Plan
<1>2. Len(Plan) \in Nat /\ DOMAIN Plan = 1 .. Len(Plan)
  BY <1>1
<1>3. ASSUME NEW i \in DOMAIN Plan
      PROVE  Plan[i] \in [do : {"call", "gate", "wait"}, calls : Nat, gate : STRING,
                          expires : BOOLEAN, when : SUBSET Answers]
  BY <1>1, InSequence
<1>4. \A t \in STRING : t \in Texts
  BY DEF Texts
<1>5. ASSUME NEW i \in DOMAIN Plan
      PROVE  Plan[i].do \in {"call", "gate", "wait"} /\ Plan[i].calls \in Nat /\ Plan[i].gate \in STRING
  BY <1>3
<1> QED BY <1>1, <1>2, <1>4, <1>5

\* The steps of the whole by what they write.
WritesNothing ==
  /\ UNCHANGED <<history, flow, visits, task>> /\ DOMAIN pending' = DOMAIN pending
  /\ now' \in Nat /\ now <= now'

\* A step writes one event that neither schedules nor ends anything.
Noted(e) ==
  /\ ~Closed
  /\ e.type \in {"TaskStarted", "TaskTimedOut", "Signaled", "TimerFired"} /\ e.at = now
  /\ e.type = "Signaled" => SomebodySignals \/ SignalGate
  /\ history' = Append(history, e)
  /\ task' \in {"scheduled", "started"}
  /\ UNCHANGED <<now, flow, pending, visits>>

\* An activity ends.
Over(s, outcome) ==
  /\ EndsAs(s, outcome)
  /\ UNCHANGED <<now, flow, visits>>

\* The event of a workflow task is an event.
LEMMA Marked ==
  ASSUME Types, NEW type \in {"TaskStarted", "TaskTimedOut", "TaskCompleted"}
  PROVE  [type |-> type, at |-> now] \in Event
  BY DEF Types, Event, Marks

\* The event of a signal is an event.
LEMMA SignalMarked ==
  ASSUME Types, NEW gate \in Texts, NEW answer \in Decisions
  PROVE  [type |-> "Signaled", at |-> now, gate |-> gate, answer |-> answer] \in Event
  BY DEF Types, Event, Signals

\* What wakes a workflow task: the run is open, and a task is scheduled.
LEMMA WakesIs ==
  ASSUME Types, Open, Wakes PROVE ~Closed /\ task' = "scheduled"
  BY DEF Types, Open, Wakes

\* What a step of the run may write.
LEMMA RunWrites ==
  ASSUME Types, Written, OfRun
  PROVE  \/ WritesNothing
         \/ \E e \in Event : Noted(e)
         \/ \E s \in DOMAIN pending, outcome \in Outcomes : Over(s, outcome)
         \/ CompleteTask
         \/ Terminate
<1>1. now \in Nat /\ now <= now
  BY DEF Types
<1>2. CASE StartTask
  <2>1. Noted([type |-> "TaskStarted", at |-> now])
    BY <1>2 DEF StartTask, Noted
  <2> QED BY <2>1, Marked
<1>3. CASE TaskTimesOut
  <2>1. Noted([type |-> "TaskTimedOut", at |-> now])
    BY <1>3 DEF TaskTimesOut, Noted
  <2> QED BY <2>1, Marked
<1>4. CASE FireTimer
  <2> DEFINE e == [type |-> "TimerFired", at |-> now, timer |-> flow.timer]
  <2>1. flow.timer \in Nat
    BY DEF Written, Flow
  <2>2. e \in Event
    BY <2>1, <1>1 DEF Event, TimerEnds
  <2>3. Noted(e)
    BY <1>4, WakesIs DEF FireTimer, Noted
  <2> HIDE DEF e
  <2> QED BY <2>2, <2>3
<1>5. CASE SomebodySignals
  <2>1. PICK gate \in Gates, answer \in Decisions : Signal(gate, answer)
    BY <1>5 DEF SomebodySignals
  <2> DEFINE e == [type |-> "Signaled", at |-> now, gate |-> gate, answer |-> answer]
  <2>2. gate \in Texts
    BY PlanIs DEF Types, Gates
  <2>3. e \in Event
    BY <2>2, SignalMarked
  <2>4. Noted(e)
    BY <1>5, <2>1, WakesIs DEF Signal, Noted
  <2> HIDE DEF e
  <2> QED BY <2>3, <2>4
<1>6. ASSUME NEW s \in DOMAIN pending, NEW c \in Boxes, StartAttempt(s, c) PROVE WritesNothing
  <2>1. DOMAIN pending' = DOMAIN pending
    BY <1>6, Placed
  <2> QED BY <1>6, <1>1, <2>1 DEF WritesNothing, StartAttempt
<1>7. ASSUME NEW s \in DOMAIN pending, Heartbeat(s) PROVE WritesNothing
  <2>1. DOMAIN pending' = DOMAIN pending
    BY <1>7, Beaten
  <2> QED BY <1>7, <1>1, <2>1 DEF WritesNothing, Heartbeat
<1>8. ASSUME NEW s \in DOMAIN pending,
             Complete(s) \/ TimeoutAttempt(s) \/ FailAttempt(s) \/ Expire(s)
      PROVE  WritesNothing \/ \E outcome \in Outcomes : Over(s, outcome)
  <2>1. UNCHANGED <<now, flow, visits>>
    BY <1>8 DEF Complete, TimeoutAttempt, FailAttempt, Expire
  <2>2. Retried(s) \/ \E outcome \in Outcomes : EndsAs(s, outcome)
    BY <1>8, GivesUpIs DEF Complete, TimeoutAttempt, FailAttempt, Expire, Outcomes
  <2>3. CASE Retried(s)
    <3>1. DOMAIN pending' = DOMAIN pending
      BY <2>3, RetriedIs
    <3> QED BY <1>1, <2>1, <2>3, <3>1 DEF WritesNothing, Retried
  <2>4. CASE \E outcome \in Outcomes : EndsAs(s, outcome)
    BY <2>1, <2>4 DEF Over
  <2> QED BY <2>2, <2>3, <2>4
<1>9. ASSUME RunStep PROVE
         \/ StartTask \/ FireTimer \/ CompleteTask
         \/ \E s \in DOMAIN pending, c \in Boxes : StartAttempt(s, c)
         \/ \E s \in DOMAIN pending : Heartbeat(s)
         \/ \E s \in DOMAIN pending : Complete(s) \/ TimeoutAttempt(s) \/ Expire(s)
  BY <1>9 DEF RunStep
<1> QED BY <1>2, <1>3, <1>4, <1>5, <1>6, <1>7, <1>8, <1>9 DEF OfRun

\* What any step may write: nothing, one event of no consequence, the end of an
\* activity, the completion of a workflow task, or the termination.
LEMMA Writes ==
  ASSUME Types, Written, [ChaosNext]_vars
  PROVE  \/ WritesNothing
         \/ \E e \in Event : Noted(e)
         \/ \E s \in DOMAIN pending, outcome \in Outcomes : Over(s, outcome)
         \/ CompleteTask
         \/ Terminate
<1>1. now \in Nat /\ now <= now
  BY DEF Types
<1>2. CASE OfRun /\ Calm
  BY <1>2, RunWrites
<1>3. CASE Tick /\ Calm
  BY <1>3, <1>1 DEF Tick, WritesNothing
<1>4. CASE \E c \in Boxes : Return(c) \/ Crash(c)
  BY <1>4, <1>1 DEF Return, Crash, WritesNothing
<1>5. CASE AwaitInflight \/ AimKill \/ Score \/ AimRestore \/ PressKill \/ PressRestart \/ UNCHANGED vars
  BY <1>5, <1>1 DEF AwaitInflight, AimKill, Score, AimRestore, PressKill, PressRestart, Press, world,
                    vars, WritesNothing
<1>6. CASE KillOne \/ RestoreOne \/ Inject
  BY <1>6, <1>1 DEF KillOne, RestoreOne, Inject, WritesNothing
<1>7. CASE SignalGate
  <2> DEFINE e == [type |-> "Signaled", at |-> now, gate |-> "publish", answer |-> "approved"]
  <2>1. "publish" \in Texts /\ "approved" \in Decisions
    BY DEF Texts, Decisions
  <2>2. e \in Event
    BY <2>1, SignalMarked
  <2>3. Noted(e)
    BY <1>7, WakesIs DEF SignalGate, Noted
  <2> HIDE DEF e
  <2> QED BY <2>2, <2>3
<1> QED BY <1>2, <1>3, <1>4, <1>5, <1>6, <1>7, Steps

------------------------------------------------------------------------------
(* What a workflow task comes to *)

\* The next step of a plan is the first one that is not passed.
LEMMA NextStepIs ==
  ASSUME sc \in Scenarios, NEW i \in 1 .. Len(Plan) + 1, NEW answer
  PROVE  LET j == NextStep(i, answer) IN
         /\ j \in i .. Len(Plan) + 1
         /\ j = Len(Plan) + 1 \/ ~Passed(j, answer)
         /\ \A k \in i .. j - 1 : Passed(k, answer)
<1> DEFINE T == {j \in i .. Len(Plan) : ~Passed(j, answer)} \cup {Len(Plan) + 1}
<1>1. Len(Plan) \in Nat
  BY PlanIs
<1>2. PICK j \in T : \A k \in T : j <= k
  <2>1. T \in SUBSET Nat /\ T # {}
    BY <1>1
  <2> HIDE DEF T
  <2> QED BY <2>1, Least
<1>3. j \in i .. Len(Plan) + 1 /\ (j = Len(Plan) + 1 \/ ~Passed(j, answer))
  BY <1>1, <1>2
<1>4. \A k \in i .. j - 1 : Passed(k, answer)
  BY <1>1, <1>2, <1>3
<1> HIDE DEF T
<1> QED BY <1>3, <1>4 DEF NextStep

\* The decision of a gate somebody has decided.
LEMMA DecisionIs ==
  ASSUME Written, NEW gate, Submitted(gate) # {}
  PROVE  Decision(gate) \in Decisions
<1>1. Submitted(gate) \subseteq 1 .. Len(history) /\ Len(history) \in Nat
  BY DEF Written, Submitted, Ids
<1>2. PICK i \in Submitted(gate) : \A j \in Submitted(gate) : j <= i
  BY <1>1, Greatest
<1>3. \A j \in Submitted(gate) : history[j].answer \in Decisions
  BY InSequence, EventIs DEF Written, Submitted, Ids
<1> QED BY <1>2, <1>3 DEF Decision

\* Where the code may wait after a workflow task.
Entered(d) ==
  /\ d.step \in 1 .. Len(Plan) + 1 /\ d.answer \in Answers
  /\ \/ d.phase = "over" /\ d.commands = <<Close("Completed")>> /\ d.step = Len(Plan) + 1
     \/ /\ d.phase = "call" /\ d.step \in DOMAIN Plan /\ Plan[d.step].do = "call"
        /\ d.commands = [k \in 1 .. Plan[d.step].calls |-> Schedule("node", "", "none")]
     \/ /\ d.phase = "open" /\ d.step \in DOMAIN Plan /\ Plan[d.step].do = "gate"
        /\ d.commands = <<Schedule("open", Plan[d.step].gate, "none")>>
     \/ d.phase = "wait" /\ d.step \in DOMAIN Plan /\ Plan[d.step].do = "wait" /\ d.commands = <<>>

\* The command that starts a gate's timer.
TimerStart == [type |-> "TimerStarted", at |-> now, fires |-> now + sc.budget]
\* The command that cancels it.
TimerCancel == [type |-> "TimerCanceled", at |-> now, timer |-> flow.timer]

\* The decision to wait on.
Stays(d) == d.step = flow.step /\ d.phase = flow.phase /\ d.answer = flow.answer /\ d.commands = <<>>

\* The decision to wait at a gate, with its timer started on arrival.
Parks(d) ==
  /\ d.step = flow.step /\ d.phase = "parked" /\ d.answer = flow.answer
  /\ \/ d.commands = <<>>
     \/ flow.phase = "open" /\ Plan[flow.step].expires /\ d.commands = <<TimerStart>>

\* The decision to close a gate.
Shuts(d) ==
  /\ d.step = flow.step /\ d.phase = "close" /\ d.answer \in Answers
  /\ \/ d.commands = <<Schedule("close", Plan[flow.step].gate, d.answer)>>
     \/ d.commands = <<TimerCancel, Schedule("close", Plan[flow.step].gate, d.answer)>>

\* The decision to fail the run.
Fails(d) == d.phase = "over" /\ d.answer = flow.answer /\ d.step = flow.step
            /\ d.commands = <<Close("Failed")>>

\* Everything the run awaits has ended.
AllOver == \A s \in flow.awaits : OutcomeOf(s) # "open"

\* Where a run goes on to: the next step of its plan that is not passed.
LEMMA GoOnIs ==
  ASSUME sc \in Scenarios, NEW i \in 1 .. Len(Plan) + 1, NEW answer \in Answers
  PROVE  Entered(GoOn(i, answer)) /\ GoOn(i, answer).step = NextStep(i, answer)
         /\ GoOn(i, answer).answer = answer
<1> DEFINE j == NextStep(i, answer)
<1>1. j \in 1 .. Len(Plan) + 1
  BY NextStepIs, PlanIs
<1>2. DOMAIN Plan = 1 .. Len(Plan) /\ Len(Plan) \in Nat
  BY PlanIs
<1> HIDE DEF j
<1>3. CASE j > Len(Plan)
  <2>1. EnterStep(j, answer) = Do(j, "over", answer, <<Close("Completed")>>)
    BY <1>3 DEF EnterStep
  <2> QED BY <1>1, <1>2, <1>3, <2>1 DEF Do, Entered, GoOn, j
<1>4. CASE ~(j > Len(Plan))
  <2>1. j \in DOMAIN Plan /\ Plan[j].do \in {"call", "gate", "wait"}
    BY <1>1, <1>2, <1>4, PlanIs
  <2>2. CASE Plan[j].do = "call"
    <3> DEFINE d == EnterStep(j, answer)
               calls == [k \in 1 .. Plan[j].calls |-> Schedule("node", "", "none")]
    <3>1. d = Do(j, "call", answer, calls)
      BY <1>4, <2>2 DEF EnterStep
    <3> HIDE DEF calls
    <3>2. d.step = j /\ d.phase = "call" /\ d.answer = answer /\ d.commands = calls
      BY <3>1 DEF Do
    <3>3. GoOn(i, answer) = d
      BY DEF GoOn, j
    <3> HIDE DEF d
    <3>4. d.commands = [k \in 1 .. Plan[d.step].calls |-> Schedule("node", "", "none")]
      BY <3>2 DEF calls
    <3>5. Entered(d)
      BY <1>1, <2>1, <2>2, <3>2, <3>4 DEF Entered
    <3> QED BY <3>2, <3>3, <3>5 DEF j
  <2>3. CASE Plan[j].do = "gate"
    <3>1. EnterStep(j, answer) = Do(j, "open", answer, <<Schedule("open", Plan[j].gate, "none")>>)
      BY <1>4, <2>3 DEF EnterStep
    <3> QED BY <1>1, <2>1, <2>3, <3>1 DEF Do, Entered, GoOn, j
  <2>4. CASE Plan[j].do = "wait"
    <3>1. EnterStep(j, answer) = Do(j, "wait", answer, <<>>)
      BY <1>4, <2>4 DEF EnterStep
    <3> QED BY <1>1, <2>1, <2>4, <3>1 DEF Do, Entered, GoOn, j
  <2> QED BY <2>1, <2>2, <2>3, <2>4
<1> QED BY <1>3, <1>4

\* A sequence of two.
LEMMA Joined ==
  ASSUME NEW a, NEW b PROVE <<a>> \o <<b>> = <<a, b>>
<1> DEFINE S == {a, b}
<1>1. <<a>> \in Seq(S) /\ <<b>> \in Seq(S)
  OBVIOUS
<1> DEFINE q == <<a>> \o <<b>>
<1> HIDE DEF S
<1>2. Len(<<a>>) = 1 /\ Len(<<b>>) = 1 /\ <<a>>[1] = a /\ <<b>>[1] = b
  OBVIOUS
<1>3. Len(q) = 2 /\ DOMAIN q = 1 .. 2 /\ q[1] = a /\ q[2] = b
  BY <1>1, <1>2
<1>4. q \in Seq(S)
  BY <1>1
<1> HIDE DEF q
<1>5. q = [i \in 1 .. 2 |-> q[i]]
  BY <1>3, <1>4
<1>6. <<a, b>> = [i \in 1 .. 2 |-> IF i = 1 THEN a ELSE b]
  OBVIOUS
<1>7. q = <<a, b>>
  BY <1>3, <1>5, <1>6
<1> QED BY <1>7 DEF q

\* What a run at a gate decides: to wait, or to close it.
LEMMA AtGateIs ==
  ASSUME Types, Written, flow.phase \in {"open", "parked"}, NEW d \in AtGate
  PROVE  Parks(d) \/ Shuts(d)
<1> DEFINE gate == Plan[flow.step].gate
           answers == (IF Submitted(gate) = {} THEN {} ELSE {Decision(gate)})
                      \cup (IF Expired THEN {"expired"} ELSE {})
           timer == IF flow.phase = "open" /\ Plan[flow.step].expires
                      THEN <<[type |-> "TimerStarted", at |-> now, fires |-> now + sc.budget]>>
                      ELSE <<>>
<1>1. answers \subseteq Answers
  BY DecisionIs DEF Answers, Decisions
<1>2. d \in IF answers = {} THEN {Do(flow.step, "parked", flow.answer, timer)}
            ELSE {CloseGate(answer) : answer \in answers}
  BY DEF AtGate
<1> HIDE DEF answers
<1>3. CASE answers = {}
  <2>1. d = Do(flow.step, "parked", flow.answer, timer)
    BY <1>2, <1>3
  <2> QED BY <2>1 DEF Do, Parks, TimerStart
<1>4. CASE answers # {}
  <2>1. PICK answer \in answers : d = CloseGate(answer)
    BY <1>2, <1>4
  <2> DEFINE head == IF flow.timer # 0 /\ ~Expired THEN <<TimerCancel>> ELSE <<>>
             close == Schedule("close", gate, answer)
  <2>2. d = Do(flow.step, "close", answer, head \o <<close>>)
    BY <2>1 DEF CloseGate, TimerCancel
  <2>3. head \o <<close>> = <<close>> \/ head \o <<close>> = <<TimerCancel, close>>
    <3> HIDE DEF close
    <3>1. <<>> \o <<close>> = <<close>>
      OBVIOUS
    <3>2. <<TimerCancel>> \o <<close>> = <<TimerCancel, close>>
      BY Joined
    <3> QED BY <3>1, <3>2
  <2> HIDE DEF head
  <2> QED BY <1>1, <2>2, <2>3 DEF Do, Shuts
<1> QED BY <1>3, <1>4

\* What a run decides in each of its phases.
LEMMA DecideIs ==
  ASSUME Types, Written, Placing, ~Closed, NEW d \in Decide
  PROVE  \/ /\ Entered(d)
            /\ \/ flow.phase \in {"start", "wait"}
               \/ flow.phase \in {"call", "close"} /\ AllOver
         \/ flow.phase \in {"call", "open", "close"} /\ ~AllOver /\ Stays(d)
         \/ flow.phase = "call" /\ Fails(d)
         \/ flow.phase \in {"open", "parked"} /\ (flow.phase = "open" => AllOver) /\ Parks(d)
         \/ flow.phase \in {"open", "parked"} /\ (flow.phase = "open" => AllOver) /\ Shuts(d)
<1>1. /\ flow.phase \in Phases /\ flow.phase # "over" /\ flow.answer \in Answers /\ "none" \in Answers
      /\ Len(Plan) \in Nat /\ DOMAIN Plan = 1 .. Len(Plan) /\ sc \in Scenarios
  BY PlanIs DEF Types, Written, Flow, Closed, Answers
<1>2. CASE flow.phase = "start"
  <2>1. d = GoOn(1, "none") /\ 1 \in 1 .. Len(Plan) + 1
    BY <1>1, <1>2 DEF Decide
  <2> QED BY <1>1, <1>2, <2>1, GoOnIs
<1> DEFINE failed == \E s \in flow.awaits : OutcomeOf(s) \in {"failed", "timed_out"}
<1>3. CASE flow.phase = "call"
  <2>1. d \in IF failed THEN {Do(flow.step, "over", flow.answer, <<Close("Failed")>>)}
              ELSE IF AllOver THEN {GoOn(flow.step + 1, flow.answer)} ELSE {Stay}
    BY <1>3 DEF Decide, AllOver
  <2> HIDE DEF failed
  <2>2. CASE failed
    <3>1. d = Do(flow.step, "over", flow.answer, <<Close("Failed")>>)
      BY <2>1, <2>2
    <3> QED BY <1>3, <3>1 DEF Do, Fails
  <2>3. CASE ~failed /\ AllOver
    <3>1. d = GoOn(flow.step + 1, flow.answer) /\ flow.step + 1 \in 1 .. Len(Plan) + 1
      BY <1>1, <1>3, <2>1, <2>3 DEF Placing
    <3> QED BY <1>1, <1>3, <2>3, <3>1, GoOnIs
  <2>4. CASE ~failed /\ ~AllOver
    BY <1>3, <2>1, <2>4 DEF Stay, Do, Stays
  <2> QED BY <2>2, <2>3, <2>4
<1>4. CASE flow.phase = "open"
  <2>1. d \in IF AllOver THEN AtGate ELSE {Stay}
    BY <1>4 DEF Decide, AllOver
  <2>2. CASE AllOver
    BY <1>4, <2>1, <2>2, AtGateIs
  <2>3. CASE ~AllOver
    BY <1>4, <2>1, <2>3 DEF Stay, Do, Stays
  <2> QED BY <2>2, <2>3
<1>5. CASE flow.phase = "parked"
  <2>1. d \in AtGate
    BY <1>5 DEF Decide
  <2> QED BY <1>5, <2>1, AtGateIs
<1>6. CASE flow.phase = "close"
  <2>1. d \in IF AllOver THEN {GoOn(flow.step + 1, flow.answer)} ELSE {Stay}
    BY <1>6 DEF Decide, AllOver
  <2>2. CASE AllOver
    <3>1. d = GoOn(flow.step + 1, flow.answer) /\ flow.step + 1 \in 1 .. Len(Plan) + 1
      BY <1>1, <1>6, <2>1, <2>2 DEF Placing
    <3> QED BY <1>1, <1>6, <2>2, <3>1, GoOnIs
  <2>3. CASE ~AllOver
    BY <1>6, <2>1, <2>3 DEF Stay, Do, Stays
  <2> QED BY <2>2, <2>3
<1>7. CASE flow.phase = "wait"
  <2>1. d = GoOn(flow.step, flow.answer) /\ flow.step \in 1 .. Len(Plan) + 1
    BY <1>1, <1>7 DEF Decide, Placing
  <2> QED BY <1>1, <1>7, <2>1, GoOnIs
<1> QED BY <1>1, <1>2, <1>3, <1>4, <1>5, <1>6, <1>7 DEF Phases

------------------------------------------------------------------------------
(* What is recorded, step by step *)

\* What the types say of the clock and of the workflow task.
LEMMA TaskIs == ASSUME Types PROVE now \in Nat /\ task \in {"none", "scheduled", "started"}
  BY DEF Types

\* A step that writes nothing keeps Recorded.
LEMMA NothingRecords ==
  ASSUME Types, Recorded, WritesNothing, sc' = sc
  PROVE  Recorded'
<1>1. Written'
  <2>1. ASSUME NEW i \in DOMAIN history PROVE history[i].at <= now'
    <3>1. history[i].at \in Nat /\ history[i].at <= now
      BY InSequence, EventIs DEF Recorded, Written
    <3> QED BY <3>1, TaskIs DEF WritesNothing
  <2> QED BY <2>1 DEF Recorded, Written, WritesNothing
<1>2. Paired' /\ EndedOnce' /\ Accounted' /\ Final'
  BY DEF Recorded, Paired, EndedOnce, Accounted, Final, WritesNothing, Ids, Closed
<1>3. Placing' /\ Awaiting' /\ Busy'
  BY DEF Recorded, Placing, Awaiting, Busy, WritesNothing, Ids, Closed, Plan
<1> QED BY <1>1, <1>2, <1>3 DEF Recorded

\* An event of no consequence keeps Recorded.
LEMMA NotedRecords ==
  ASSUME Types, Recorded, NEW e \in Event, Noted(e), sc' = sc
  PROVE  Recorded'
<1> DEFINE L == Len(history)
<1>1. /\ history' \in Seq(Event) /\ L \in Nat /\ DOMAIN history = 1 .. L
      /\ DOMAIN history' = 1 .. L + 1
      /\ \A i \in DOMAIN history : i \in DOMAIN history' /\ history'[i] = history[i]
      /\ history'[L + 1] = e
      /\ \A type \in {"Started", "Ended", "Scheduled", "Closed"} : Ids(type)' = Ids(type)
  BY Appends DEF Recorded, Written, Noted
<1>2. \A type : Ids(type) \subseteq DOMAIN history
  BY DEF Ids
<1>3. /\ ~Closed /\ ~Closed' /\ e.at = now /\ task' # "none"
      /\ now' = now /\ flow' = flow /\ pending' = pending
  BY DEF Noted, Closed
<1> HIDE DEF L
<1>4. Written'
  <2>1. ASSUME NEW i \in DOMAIN history' PROVE history'[i].at <= now'
    <3>1. CASE i \in DOMAIN history
      BY <1>1, <1>3, <3>1 DEF Recorded, Written
    <3>2. CASE i = L + 1
      BY <1>1, <1>3, <3>2, TaskIs
    <3> QED BY <1>1, <3>1, <3>2
  <2> QED BY <1>1, <1>3, <2>1 DEF Recorded, Written
<1>5. Paired'
  BY <1>1, <1>2 DEF Recorded, Paired
<1>6. EndedOnce'
  BY <1>1, <1>2, <1>3 DEF Recorded, EndedOnce
<1>7. Accounted'
  BY <1>1, <1>2, <1>3 DEF Recorded, Accounted
<1>8. Final'
  BY <1>1, <1>3 DEF Recorded, Final
<1>9. Placing' /\ Awaiting' /\ Busy'
  BY <1>1, <1>3 DEF Recorded, Placing, Awaiting, Busy, Plan
<1> QED BY <1>4, <1>5, <1>6, <1>7, <1>8, <1>9 DEF Recorded

\* The events of an activity that is over: of its end, and before it of the
\* start of the attempt that ran.
LEMMA OverWrites ==
  ASSUME Types, Recorded, NEW s \in DOMAIN pending, NEW outcome \in Outcomes, Over(s, outcome)
  PROVE  LET L == Len(history)
             n == Len(history')
             a == history'[L + 1]
             b == history'[n]
         IN /\ history' \in Seq(Event) /\ L \in Nat /\ DOMAIN history = 1 .. L
            /\ DOMAIN history' = 1 .. n /\ n \in {L + 1, L + 2}
            /\ \A i \in DOMAIN history : i \in DOMAIN history' /\ history'[i] = history[i]
            /\ b.at = now /\ b.of = s /\ b.outcome = outcome
            /\ s \in Nat /\ pending[s] \in Waiting
            /\ Ids("Ended")' = Ids("Ended") \cup {n}
            /\ Ids("Started")' = Ids("Started") \cup (IF n = L + 2 THEN {L + 1} ELSE {})
            /\ n = L + 2 =>
                 a.at = pending[s].since /\ a.of = s /\ a.attempt = pending[s].attempt
            /\ \A type \in {"Scheduled", "Closed", "Signaled", "TimerStarted", "TaskCompleted"} :
                 Ids(type)' = Ids(type)
<1> DEFINE L == Len(history)
           a == [type |-> "Started", at |-> pending[s].since, of |-> s,
                 attempt |-> pending[s].attempt]
           b == [type |-> "Ended", at |-> now, of |-> s, outcome |-> outcome]
<1>1. s \in Nat /\ pending[s] \in Waiting
  BY DEF Types, Recorded, Written, Accounted, Ids
<1>2. a \in Event
  BY <1>1 DEF Event, Starts, Waiting
<1>3. b \in Event
  BY <1>1, TaskIs DEF Event, Ends
<1>4. /\ a.type = "Started" /\ a.at = pending[s].since /\ a.of = s /\ a.attempt = pending[s].attempt
      /\ b.type = "Ended" /\ b.at = now /\ b.of = s /\ b.outcome = outcome
  OBVIOUS
<1> HIDE DEF a, b
<1>5. /\ history' = history \o <<a, b>> \/ history' = history \o <<b>>
      /\ history \in Seq(Event)
  BY DEF Over, EndsAs, a, b, Recorded, Written
<1>6. CASE history' = history \o <<a, b>>
  <2>1. /\ history' \in Seq(Event) /\ L \in Nat /\ DOMAIN history = 1 .. L
        /\ DOMAIN history' = 1 .. L + 2 /\ Len(history') = L + 2
        /\ \A i \in DOMAIN history : i \in DOMAIN history' /\ history'[i] = history[i]
        /\ history'[L + 1] = a /\ history'[L + 2] = b
    BY <1>2, <1>3, <1>5, <1>6
  <2> HIDE DEF L
  <2>2. DOMAIN history' = DOMAIN history \cup {L + 1, L + 2} /\ L + 1 \notin DOMAIN history
        /\ L + 2 \notin DOMAIN history
    BY <2>1
  <2>3. /\ Ids("Started")' = Ids("Started") \cup {L + 1}
        /\ Ids("Ended")' = Ids("Ended") \cup {L + 2}
        /\ \A type \in {"Scheduled", "Closed", "Signaled", "TimerStarted", "TaskCompleted"} :
             Ids(type)' = Ids(type)
    BY <1>4, <2>1, <2>2 DEF Ids
  <2> QED BY <1>1, <1>4, <2>1, <2>3 DEF L
<1>7. CASE history' = history \o <<b>>
  <2>1. history' = Append(history, b) /\ history \in Seq(Event)
    BY <1>3, <1>5, <1>7, OneMore
  <2>2. /\ history' \in Seq(Event) /\ L \in Nat /\ DOMAIN history = 1 .. L
        /\ DOMAIN history' = 1 .. L + 1 /\ Len(history') = L + 1
        /\ \A i \in DOMAIN history : i \in DOMAIN history' /\ history'[i] = history[i]
        /\ history'[L + 1] = b
        /\ Ids("Started")' = Ids("Started") /\ Ids("Ended")' = Ids("Ended") \cup {L + 1}
        /\ \A type \in {"Scheduled", "Closed", "Signaled", "TimerStarted", "TaskCompleted"} :
             Ids(type)' = Ids(type)
    BY <1>3, <1>4, <2>1, Appends
  <2> HIDE DEF L
  <2>3. L + 1 # L + 2
    BY <2>2
  <2> QED BY <1>1, <1>4, <2>2, <2>3 DEF L
<1> QED BY <1>5, <1>6, <1>7

\* The end of an activity keeps Recorded.
LEMMA OverRecords ==
  ASSUME Types, Recorded, Clocked, NEW s \in DOMAIN pending, NEW outcome \in Outcomes, Over(s, outcome), sc' = sc
  PROVE  Recorded'
<1> DEFINE L == Len(history)
           n == Len(history')
<1>1. /\ history' \in Seq(Event) /\ L \in Nat /\ DOMAIN history = 1 .. L
      /\ DOMAIN history' = 1 .. n /\ n \in {L + 1, L + 2}
      /\ \A i \in DOMAIN history : i \in DOMAIN history' /\ history'[i] = history[i]
      /\ n = L + 2 => history'[L + 1].at = pending[s].since /\ history'[L + 1].of = s
      /\ history'[n].at = now /\ history'[n].of = s
      /\ Ids("Started")' = Ids("Started") \cup (IF n = L + 2 THEN {L + 1} ELSE {})
      /\ Ids("Ended")' = Ids("Ended") \cup {n}
      /\ Ids("Scheduled")' = Ids("Scheduled") /\ Ids("Closed")' = Ids("Closed")
  BY OverWrites
<1>2. \A type : Ids(type) \subseteq DOMAIN history
  BY DEF Ids
<1>3. /\ ~Closed /\ ~Closed' /\ task' # "none" /\ now' = now /\ flow' = flow
      /\ DOMAIN pending' = DOMAIN pending \ {s}
  <2>1. DOMAIN pending' = DOMAIN pending \ {s}
    BY EndsAsIs DEF Over
  <2> QED BY <2>1, WakesIs DEF Over, EndsAs, Open, Closed
<1>4. s \in Ids("Scheduled") /\ s \in DOMAIN history
  BY <1>2 DEF Recorded, Accounted
<1> HIDE DEF L, n
<1>5. Written'
  <2>2. n > 0
    BY <1>1
  <2>1. ASSUME NEW i \in DOMAIN history' PROVE history'[i].at <= now'
    <3>1. CASE i \in DOMAIN history
      BY <1>1, <1>3, <3>1 DEF Recorded, Written
    <3>2. CASE i = L + 1 /\ n = L + 2
      BY <1>1, <1>3, <3>2 DEF Clocked
    <3>3. CASE i = n
      BY <1>1, <1>3, <3>3, TaskIs
    <3> QED BY <1>1, <3>1, <3>2, <3>3
  <2> QED BY <1>1, <1>3, <2>1, <2>2 DEF Recorded, Written, n
<1>6. Paired'
  BY <1>1, <1>2 DEF Recorded, Paired
<1>7. EndedOnce'
  BY <1>1, <1>2, <1>3, <1>4 DEF Recorded, EndedOnce
<1>8. Accounted'
  BY <1>1, <1>2, <1>3 DEF Recorded, Accounted
<1>9. Final'
  BY <1>1, <1>3 DEF Recorded, Final
<1>10. Placing' /\ Awaiting' /\ Busy'
  BY <1>1, <1>3 DEF Recorded, Placing, Awaiting, Busy, Plan
<1> QED BY <1>5, <1>6, <1>7, <1>8, <1>9, <1>10 DEF Recorded

\* A termination keeps Recorded.
LEMMA TerminateRecords ==
  ASSUME Types, Recorded, Terminate, sc' = sc
  PROVE  Recorded'
<1> DEFINE L == Len(history)
           e == Close("Terminated")
<1>1. e \in Event /\ e.type = "Closed" /\ e.at = now
  BY TaskIs DEF Close, Event, Closings, Statuses
<1> HIDE DEF e
<1>2. /\ history' \in Seq(Event) /\ L \in Nat /\ DOMAIN history = 1 .. L
      /\ DOMAIN history' = 1 .. L + 1 /\ Len(history') = L + 1
      /\ \A i \in DOMAIN history : i \in DOMAIN history' /\ history'[i] = history[i]
      /\ history'[L + 1] = e
      /\ Ids("Closed")' = Ids("Closed") \cup {L + 1}
      /\ \A type \in {"Started", "Ended", "Scheduled"} : Ids(type)' = Ids(type)
  <2>1. history' = Append(history, e) /\ history \in Seq(Event)
    BY DEF Terminate, e, Recorded, Written
  <2> QED BY <1>1, <2>1, Appends
<1>3. \A type : Ids(type) \subseteq DOMAIN history
  BY DEF Ids
<1>4. /\ ~Closed /\ Closed' /\ task' = "none" /\ now' = now /\ DOMAIN pending' = {}
      /\ flow' \in Flow /\ flow'.phase = "over" /\ flow'.awaits = flow.awaits
  BY DEF Terminate, Closed, NoPending, Recorded, Written, Flow, Phases
<1> HIDE DEF L
<1>5. Written'
  <2>1. ASSUME NEW i \in DOMAIN history' PROVE history'[i].at <= now'
    <3>1. CASE i \in DOMAIN history
      BY <1>2, <1>4, <3>1 DEF Recorded, Written
    <3>2. CASE i = L + 1
      BY <1>1, <1>2, <1>4, <3>2, TaskIs
    <3> QED BY <1>2, <3>1, <3>2
  <2> QED BY <1>2, <1>4, <2>1 DEF Recorded, Written
<1>6. Paired'
  BY <1>2, <1>3 DEF Recorded, Paired
<1>7. EndedOnce'
  BY <1>2, <1>3, <1>4 DEF Recorded, EndedOnce
<1>8. Accounted'
  BY <1>2, <1>3, <1>4 DEF Recorded, Accounted
<1>9. Final'
  BY <1>2, <1>4 DEF Recorded, Final
<1>10. Placing' /\ Awaiting' /\ Busy'
  BY <1>2, <1>4 DEF Recorded, Placing, Awaiting, Busy
<1> QED BY <1>5, <1>6, <1>7, <1>8, <1>9, <1>10 DEF Recorded

\* An activity with a limit on its time has it from the deadline of the run.
Limited(e) ==
  e.type = "Scheduled" /\ e.within > 0 => sc.deadline > 0 /\ sc.deadline <= e.at + e.within

\* What is left of the deadline when a workflow task is answered.
LEMMA LeftIs ==
  ASSUME Types, Written, task = "started"
  PROVE  Left \in Nat /\ (Left > 0 => sc.deadline <= now + Left)
<1> DEFINE clock == history[Len(history)].at
<1>1. Len(history) \in DOMAIN history
  BY DEF Written
<1>2. clock \in Nat /\ clock <= now
  BY <1>1, InSequence, EventIs DEF Written
<1>3. Left = IF sc.deadline > clock THEN sc.deadline - clock ELSE 0
  BY DEF Left
<1>4. sc.deadline \in Nat /\ now \in Nat
  BY ScenarioFacts DEF Types
<1> HIDE DEF clock
<1> QED BY <1>2, <1>3, <1>4

\* The commands of a workflow task.
Commanded(d) ==
  /\ d.step \in Nat /\ d.phase \in Phases /\ d.phase # "start" /\ d.answer \in Answers
  /\ d.commands \in Seq(Event)
  /\ \A k \in DOMAIN d.commands :
       /\ Limited(d.commands[k])
       /\ d.commands[k].at = now
       /\ d.commands[k].type \in {"Scheduled", "TimerStarted", "TimerCanceled", "Closed"}
       /\ d.commands[k].type = "Closed" => d.phase = "over"
  /\ d.phase = "over" => DOMAIN d.commands = {1} /\ d.commands[1].type = "Closed"
  /\ Stays(d) \/ (d.phase \in {"call", "open", "close"} =>
                    \E k \in DOMAIN d.commands : d.commands[k].type = "Scheduled")

\* The times a command to schedule an activity carries.
LEMMA TimesAre ==
  ASSUME Types, Written, task = "started", NEW kind
  PROVE  /\ Len(history) + 1 \in Nat /\ now \in Nat
         /\ Budget(kind) \in Nat /\ Within(kind) \in Nat
<1>1. Len(history) + 1 \in Nat /\ now \in Nat /\ sc.deadline \in Nat /\ sc.budget \in Nat
  BY TaskIs, ScenarioFacts DEF Types, Written
<1> QED BY <1>1, LeftIs DEF Budget, Within

\* The limit of a command is what is left of the deadline of the run.
LEMMA ScheduleIsLimited ==
  ASSUME Types, Written, task = "started", NEW kind, NEW gate, NEW answer
  PROVE  Limited(Schedule(kind, gate, answer))
<1>1. now \in Nat /\ sc.deadline \in Nat
  BY TaskIs, ScenarioFacts DEF Types, Written
<1>2. Within(kind) > 0 => sc.deadline > 0 /\ sc.deadline <= now + Within(kind)
  BY <1>1, LeftIs DEF Within, Bounded
<1> QED BY <1>2 DEF Schedule, Limited

\* The command that closes the run is an event.
LEMMA CloseIs ==
  ASSUME Types, NEW status \in Statuses
  PROVE  LET e == Close(status) IN e \in Event /\ e.type = "Closed" /\ e.at = now /\ e.status = status
  BY TaskIs DEF Close, Event, Closings

\* The commands about timers are events.
LEMMA TimersAre ==
  ASSUME Types, Written
  PROVE  /\ TimerStart \in Event /\ TimerStart.type = "TimerStarted" /\ TimerStart.at = now
         /\ TimerCancel \in Event /\ TimerCancel.type = "TimerCanceled" /\ TimerCancel.at = now
<1>1. now \in Nat /\ sc.budget \in Nat /\ flow.timer \in Nat
  BY TaskIs, ScenarioFacts DEF Types, Written, Flow
<1>2. now + sc.budget \in Nat
  BY <1>1
<1> QED BY <1>1, <1>2 DEF TimerStart, TimerCancel, Event, Timers, TimerEnds

\* A sequence of one event.
LEMMA One ==
  ASSUME NEW e \in Event PROVE <<e>> \in Seq(Event) /\ DOMAIN <<e>> = {1} /\ <<e>>[1] = e
  OBVIOUS

\* A sequence of two events.
LEMMA Two ==
  ASSUME NEW a \in Event, NEW b \in Event
  PROVE  <<a, b>> \in Seq(Event) /\ DOMAIN <<a, b>> = {1, 2} /\ <<a, b>>[1] = a /\ <<a, b>>[2] = b
  OBVIOUS

\* The empty sequence of events.
LEMMA None == <<>> \in Seq(Event) /\ DOMAIN <<>> = {}
  OBVIOUS

\* The commands of a run that enters a step.
LEMMA EnteredCommands ==
  ASSUME Types, Written, task = "started", NEW d, Entered(d)
  PROVE  Commanded(d)
<1>1. Len(Plan) \in Nat
  BY PlanIs DEF Types
<1>2. d.step \in Nat /\ d.answer \in Answers
  <2>1. d.step \in 1 .. Len(Plan) + 1 /\ d.answer \in Answers
    BY Zenon DEF Entered
  <2> QED BY <1>1, <2>1
<1>3. "" \in Texts
  BY Zenon DEF Texts
<1>4. /\ Len(Plan) \in Nat /\ d.step \in Nat /\ "" \in Texts /\ "none" \in Answers
      /\ "Completed" \in Statuses /\ d.answer \in Answers
  BY <1>1, <1>2, <1>3 DEF Answers, Statuses
<1>5. CASE d.phase = "over" /\ d.commands = <<Close("Completed")>>
  <2> DEFINE e == Close("Completed")
  <2>1. e \in Event /\ e.type = "Closed" /\ e.at = now /\ Limited(e)
    BY <1>4, CloseIs DEF Limited
  <2> HIDE DEF e
  <2>2. d.commands = <<e>>
    BY <1>5 DEF e
  <2> QED BY <1>4, <1>5, <2>1, <2>2, One DEF Commanded, Phases
<1>6. CASE /\ d.phase = "call" /\ d.step \in DOMAIN Plan /\ Plan[d.step].do = "call"
           /\ d.commands = [k \in 1 .. Plan[d.step].calls |-> Schedule("node", "", "none")]
  <2> DEFINE e == Schedule("node", "", "none")
             n == Plan[d.step].calls
  <2>1. e \in Event /\ e.type = "Scheduled" /\ e.at = now /\ Limited(e)
    <3>1. Limited(e)
      BY ScheduleIsLimited
    <3>2. e \in Event /\ e.type = "Scheduled" /\ e.at = now
      BY <1>4, TimesAre DEF Schedule, Event, Schedulings
    <3> QED BY <3>1, <3>2
  <2>2. n \in Nat /\ n > 0
    BY <1>6, PlanIs DEF Types
  <2> HIDE DEF e, n
  <2>3. d.commands = [k \in 1 .. n |-> e]
    BY <1>6 DEF e, n
  <2>4. d.commands \in Seq(Event) /\ DOMAIN d.commands = 1 .. n /\ 1 \in 1 .. n
    BY <2>1, <2>2, <2>3
  <2>5. \A k \in DOMAIN d.commands : d.commands[k] = e
    BY <2>3
  <2> QED BY <1>4, <1>6, <2>1, <2>4, <2>5 DEF Commanded, Phases
<1>7. CASE /\ d.phase = "open" /\ d.step \in DOMAIN Plan
           /\ d.commands = <<Schedule("open", Plan[d.step].gate, "none")>>
  <2> DEFINE e == Schedule("open", Plan[d.step].gate, "none")
  <2>1. e \in Event /\ e.type = "Scheduled" /\ e.at = now /\ Limited(e)
    <3>1. Limited(e)
      BY ScheduleIsLimited
    <3>2. Plan[d.step].gate \in Texts
      BY <1>7, PlanIs DEF Types
    <3>3. e \in Event /\ e.type = "Scheduled" /\ e.at = now
      BY <1>4, <3>2, TimesAre DEF Schedule, Event, Schedulings
    <3> QED BY <3>1, <3>3
  <2> HIDE DEF e
  <2>2. d.commands = <<e>>
    BY <1>7 DEF e
  <2> QED BY <1>4, <1>7, <2>1, <2>2, One, ZenonT(30) DEF Commanded, Phases
<1>8. CASE d.phase = "wait" /\ d.commands = <<>>
  BY <1>4, <1>8, None DEF Commanded, Phases
<1> QED BY <1>5, <1>6, <1>7, <1>8 DEF Entered

\* The commands of any decision.
LEMMA CommandsAre ==
  ASSUME Types, Written, Placing, ~Closed, task = "started", NEW d \in Decide
  PROVE  Commanded(d)
<1>1. /\ flow.step \in Nat /\ flow.phase \in Phases /\ flow.phase # "over" /\ flow.answer \in Answers
      /\ "Failed" \in Statuses
  BY DEF Written, Flow, Closed, Statuses
<1>2. CASE Entered(d)
  BY <1>2, EnteredCommands
<1>3. CASE Stays(d) /\ flow.phase # "start"
  BY <1>1, <1>3, None DEF Commanded, Stays
<1>4. CASE Fails(d)
  <2> DEFINE e == Close("Failed")
  <2>1. e \in Event /\ e.type = "Closed" /\ e.at = now /\ Limited(e)
    BY <1>1, CloseIs DEF Limited
  <2> HIDE DEF e
  <2>2. d.phase = "over" /\ d.answer = flow.answer /\ d.step = flow.step /\ d.commands = <<e>>
    BY <1>4 DEF e, Fails
  <2> QED BY <1>1, <2>1, <2>2, One DEF Commanded, Phases
<1>5. CASE Parks(d)
  <2>1. CASE d.commands = <<>>
    BY <1>1, <1>5, <2>1, None DEF Commanded, Parks, Phases
  <2>2. CASE d.commands = <<TimerStart>>
    BY <1>1, <1>5, <2>2, One, TimersAre DEF Commanded, Parks, Phases, Limited
  <2> QED BY <1>5, <2>1, <2>2 DEF Parks
<1>6. CASE flow.phase \in {"open", "parked"} /\ Shuts(d)
  <2> DEFINE e == Schedule("close", Plan[flow.step].gate, d.answer)
  <2>1. e \in Event /\ e.type = "Scheduled" /\ e.at = now /\ Limited(e)
    <3>1. Limited(e)
      BY ScheduleIsLimited
    <3>2. Plan[flow.step].gate \in Texts /\ d.answer \in Answers
      BY <1>6, PlanIs DEF Types, Placing, Shuts
    <3>3. e \in Event /\ e.type = "Scheduled" /\ e.at = now
      BY <3>2, TimesAre DEF Schedule, Event, Schedulings
    <3> QED BY <3>1, <3>3
  <2> HIDE DEF e
  <2>2. d.phase = "close" /\ d.answer \in Answers /\ d.step = flow.step
        /\ (d.commands = <<e>> \/ d.commands = <<TimerCancel, e>>)
    BY <1>6 DEF e, Shuts
  <2>3. CASE d.commands = <<e>>
    BY <1>1, <2>1, <2>2, <2>3, One DEF Commanded, Phases
  <2>4. CASE d.commands = <<TimerCancel, e>>
    <3>1. TimerCancel \in Event /\ TimerCancel.type = "TimerCanceled" /\ TimerCancel.at = now
      BY TimersAre
    <3>2. Limited(TimerCancel)
      BY <3>1 DEF Limited
    <3>3. d.commands \in Seq(Event) /\ DOMAIN d.commands = {1, 2}
          /\ d.commands[1] = TimerCancel /\ d.commands[2] = e
      BY <2>1, <2>4, <3>1, Two
    <3> QED BY <1>1, <2>1, <2>2, <3>1, <3>2, <3>3 DEF Commanded, Phases
  <2> QED BY <2>2, <2>3, <2>4
<1> QED BY <1>2, <1>3, <1>4, <1>5, <1>6, DecideIs

\* What the answer to a workflow task does.
Replies(d) ==
  LET ids == NewIds(d.commands, "Scheduled") IN
  /\ ~Closed /\ task = "started" /\ task' = "none" /\ now' = now
  /\ WritesTask([type |-> "TaskCompleted", at |-> now], d.commands)
  /\ flow' \in Flow
  /\ flow'.step = d.step /\ flow'.phase = d.phase /\ flow'.answer = d.answer
  /\ flow'.awaits = IF ids = {} THEN flow.awaits ELSE ids
  /\ NewIds(d.commands, "TimerStarted") = {} => flow'.timer = IF d.phase = "close" THEN 0 ELSE flow.timer
  /\ DOMAIN pending' = IF d.phase = "over" THEN {} ELSE DOMAIN pending \cup ids
  /\ \A s \in DOMAIN pending' : pending'[s] = IF s \in ids THEN NewPending(s) ELSE pending[s]
  /\ visits' = Visited(d.commands)

\* The completion of a workflow task replies with one of its decisions.
LEMMA TaskReplies ==
  ASSUME Types, Written, Placing, CompleteTask
  PROVE  \E d \in Decide : Replies(d) /\ Commanded(d)
<1>1. PICK d \in Decide :
        LET ids == NewIds(d.commands, "Scheduled")
            timers == NewIds(d.commands, "TimerStarted")
        IN /\ history' = history \o <<[type |-> "TaskCompleted", at |-> now]>> \o d.commands
           /\ flow' = [step |-> d.step, phase |-> d.phase, answer |-> d.answer,
                       awaits |-> IF ids = {} THEN flow.awaits ELSE ids,
                       timer |-> IF timers # {} THEN CHOOSE t \in timers : TRUE
                                 ELSE IF d.phase = "close" THEN 0 ELSE flow.timer]
           /\ pending' = IF d.phase = "over" THEN NoPending
                         ELSE [s \in DOMAIN pending \cup ids |->
                                 IF s \in ids THEN NewPending(s) ELSE pending[s]]
           /\ visits' = Visited(d.commands)
  BY DEF CompleteTask
<1>2. ~Closed /\ task = "started" /\ task' = "none" /\ now' = now
  BY DEF CompleteTask
<1>3. Commanded(d)
  BY <1>2, CommandsAre
<1> DEFINE ids == NewIds(d.commands, "Scheduled")
           timers == NewIds(d.commands, "TimerStarted")
<1>4. ids \subseteq Nat /\ timers \subseteq Nat
  BY <1>3 DEF NewIds, Commanded, Written
<1> HIDE DEF ids, timers
<1>5. flow \in Flow /\ flow.awaits \subseteq Nat /\ flow.timer \in Nat
  BY DEF Written, Flow
<1>6. /\ flow' = [step |-> d.step, phase |-> d.phase, answer |-> d.answer,
                  awaits |-> IF ids = {} THEN flow.awaits ELSE ids,
                  timer |-> IF timers # {} THEN CHOOSE t \in timers : TRUE
                            ELSE IF d.phase = "close" THEN 0 ELSE flow.timer]
      /\ pending' = IF d.phase = "over" THEN NoPending
                    ELSE [s \in DOMAIN pending \cup ids |->
                            IF s \in ids THEN NewPending(s) ELSE pending[s]]
  BY <1>1 DEF ids, timers
<1>7. flow' \in Flow /\ flow'.step = d.step /\ flow'.phase = d.phase /\ flow'.answer = d.answer
      /\ flow'.awaits = IF ids = {} THEN flow.awaits ELSE ids
  BY <1>3, <1>4, <1>5, <1>6 DEF Flow, Commanded
<1>8. /\ DOMAIN pending' = IF d.phase = "over" THEN {} ELSE DOMAIN pending \cup ids
      /\ \A s \in DOMAIN pending' : pending'[s] = IF s \in ids THEN NewPending(s) ELSE pending[s]
  BY <1>6 DEF NoPending
<1>9. timers = {} => flow'.timer = IF d.phase = "close" THEN 0 ELSE flow.timer
  BY <1>6
<1>10. Replies(d)
  BY <1>1, <1>2, <1>7, <1>8, <1>9 DEF Replies, WritesTask, ids, timers
<1> QED BY <1>3, <1>10

\* All that the code waits for is over when nothing is pending.
LEMMA AllOverIs ==
  ASSUME Recorded, ~Closed
  PROVE  AllOver <=> DOMAIN pending = {}
<1>1. ASSUME NEW s \in flow.awaits
      PROVE  OutcomeOf(s) # "open" <=> s \notin DOMAIN pending
  <2>1. s \in Ids("Scheduled")
    BY DEF Recorded, Awaiting
  <2>2. CASE TerminalOf(s) = {}
    <3>1. OutcomeOf(s) = "open"
      BY <2>2 DEF OutcomeOf
    <3> QED BY <2>1, <2>2, <3>1 DEF Recorded, Accounted, TerminalOf
  <2>3. CASE TerminalOf(s) # {}
    <3> DEFINE i == CHOOSE i \in TerminalOf(s) : TRUE
    <3>1. i \in TerminalOf(s) /\ OutcomeOf(s) = history[i].outcome
      BY <2>3 DEF OutcomeOf
    <3> HIDE DEF i
    <3>2. i \in Ids("Ended") /\ history[i].of = s
      BY <3>1 DEF TerminalOf
    <3>3. history[i].outcome \in Outcomes
      BY <3>2, InSequence, EventIs DEF Recorded, Written, Ids
    <3>4. s \notin DOMAIN pending
      BY <3>2 DEF Recorded, EndedOnce
    <3> QED BY <3>1, <3>3, <3>4 DEF Outcomes
  <2> QED BY <2>2, <2>3
<1>2. DOMAIN pending \subseteq flow.awaits
  BY DEF Recorded, Awaiting
<1> QED BY <1>1, <1>2 DEF AllOver

\* A workflow task schedules something, or parks, only when nothing is pending.
LEMMA Schedules ==
  ASSUME Types, Recorded, ~Closed, NEW d \in Decide, Commanded(d)
  PROVE  LET ids == NewIds(d.commands, "Scheduled") IN
         /\ ids # {} \/ d.phase \in {"parked", "wait"} => DOMAIN pending = {}
         /\ d.phase \in {"parked", "wait"} => ids = {}
         /\ d.phase \in {"call", "open", "close"} => ids # {} \/ DOMAIN pending # {}
<1> DEFINE ids == NewIds(d.commands, "Scheduled")
<1>1. ids # {} <=> \E k \in DOMAIN d.commands : d.commands[k].type = "Scheduled"
  BY DEF NewIds
<1>2. Written /\ Placing
  BY DEF Recorded
<1>3. AllOver <=> DOMAIN pending = {}
  BY AllOverIs
<1>4. flow.phase \in {"start", "parked", "wait"} => DOMAIN pending = {}
  BY DEF Recorded, Awaiting
<1> HIDE DEF ids
<1>5. CASE Entered(d) /\ DOMAIN pending = {}
  <2>1. d.phase = "wait" => d.commands = <<>>
    BY <1>5 DEF Entered
  <2>2. d.phase \in {"over", "call", "open", "wait"}
    BY <1>5 DEF Entered
  <2>3. ~Stays(d) \/ d.commands = <<>>
    BY DEF Stays
  <2>4. d.phase \in {"call", "open"} => d.commands # <<>>
    <3>1. ASSUME d.phase = "open" PROVE d.commands # <<>>
      <4>1. d.commands = <<Schedule("open", Plan[d.step].gate, "none")>>
        BY <1>5, <3>1, Zenon DEF Entered
      <4> QED BY <4>1
    <3>2. ASSUME d.phase = "call" PROVE d.commands # <<>>
      <4>1. /\ d.step \in DOMAIN Plan /\ Plan[d.step].do = "call"
            /\ d.commands = [k \in 1 .. Plan[d.step].calls |-> Schedule("node", "", "none")]
        BY <1>5, <3>2, Zenon DEF Entered
      <4>2. Plan[d.step].calls \in Nat /\ Plan[d.step].calls > 0
        BY <4>1, PlanIs DEF Types
      <4>3. DOMAIN d.commands = 1 .. Plan[d.step].calls
        BY <4>1, Zenon
      <4>4. 1 \in DOMAIN d.commands
        BY <4>2, <4>3
      <4> QED BY <4>4, None
    <3> QED BY <3>1, <3>2
  <2> QED BY <1>1, <1>5, <2>1, <2>2, <2>3, <2>4, None DEF Commanded, ids
<1>6. CASE flow.phase \in {"call", "open", "close"} /\ ~AllOver /\ Stays(d)
  BY <1>1, <1>3, <1>6, None DEF Stays, ids
<1>7. CASE Fails(d)
  <2>1. ids = {}
    BY <1>1, <1>7 DEF Fails, Commanded
  <2> QED BY <1>7, <2>1 DEF Fails, ids
<1>8. CASE Parks(d) /\ DOMAIN pending = {}
  <2>1. ids = {}
    <3>1. d.commands = <<>> \/ d.commands = <<TimerStart>>
      BY <1>8 DEF Parks
    <3> QED BY <1>1, <1>2, <3>1, None, One, TimersAre
  <2> QED BY <1>8, <2>1 DEF Parks, ids
<1>9. CASE flow.phase \in {"open", "parked"} /\ Shuts(d) /\ DOMAIN pending = {}
  <2>1. d.phase = "close" /\ ~Stays(d)
    BY <1>9 DEF Shuts, Stays
  <2>2. ids # {}
    BY <1>1, <2>1 DEF Commanded
  <2> QED BY <1>9, <2>1, <2>2 DEF ids
<1> QED BY <1>2, <1>3, <1>4, <1>5, <1>6, <1>7, <1>8, <1>9, DecideIs DEF ids

\* What an answered workflow task adds to the history.
LEMMA TaskAdds ==
  ASSUME Types, Recorded, NEW d, Replies(d), Commanded(d)
  PROVE  LET L == Len(history)
             c == d.commands
             ids == NewIds(c, "Scheduled")
         IN /\ history' \in Seq(Event) /\ L \in Nat /\ DOMAIN history = 1 .. L
            /\ Len(history') = L + 1 + Len(c) /\ DOMAIN history' = 1 .. L + 1 + Len(c)
            /\ \A i \in DOMAIN history : i \in DOMAIN history' /\ history'[i] = history[i]
            /\ \A k \in DOMAIN c : L + 1 + k \in DOMAIN history' /\ history'[L + 1 + k] = c[k]
            /\ \A i \in DOMAIN history' : i \in DOMAIN history \/ history'[i].at = now
            /\ Ids("Started")' = Ids("Started") /\ Ids("Ended")' = Ids("Ended")
            /\ Ids("Signaled")' = Ids("Signaled")
            /\ Ids("Scheduled")' = Ids("Scheduled") \cup ids
            /\ Ids("TimerStarted")' = Ids("TimerStarted") \cup NewIds(c, "TimerStarted")
            /\ Ids("TaskCompleted")' = Ids("TaskCompleted") \cup {L + 1}
            /\ Ids("Closed")' = Ids("Closed") \cup (IF d.phase = "over" THEN {L + 2} ELSE {})
            /\ d.phase = "over" => Len(history') = L + 2
            /\ \A i \in ids : i > L + 1 /\ i \in DOMAIN history' /\ i \notin DOMAIN history
<1> DEFINE L == Len(history)
           c == d.commands
           ids == NewIds(c, "Scheduled")
           t == [type |-> "TaskCompleted", at |-> now]
<1>1. t \in Event /\ t.type = "TaskCompleted" /\ t.at = now
  BY Marked
<1>2. c \in Seq(Event) /\ WritesTask(t, c) /\ history \in Seq(Event)
  BY DEF Commanded, Replies, Recorded, Written
<1> HIDE DEF t
<1>3. /\ history' \in Seq(Event) /\ L \in Nat /\ DOMAIN history = 1 .. L
      /\ Len(history') = L + 1 + Len(c)
      /\ DOMAIN history' = 1 .. L + 1 + Len(c)
      /\ \A i \in DOMAIN history : i \in DOMAIN history' /\ history'[i] = history[i]
      /\ history'[L + 1] = t
      /\ \A k \in DOMAIN c : L + 1 + k \in DOMAIN history' /\ history'[L + 1 + k] = c[k]
      /\ \A i \in DOMAIN history' : i \in DOMAIN history \/ i = L + 1 \/ \E k \in DOMAIN c : i = L + 1 + k
      /\ \A type : Ids(type)' = Ids(type) \cup NewIds(c, type) \cup (IF t.type = type THEN {L + 1} ELSE {})
  BY <1>1, <1>2, TaskWritten
<1>4. DOMAIN c = 1 .. Len(c) /\ Len(c) \in Nat
  BY <1>2
<1>5. \A type : NewIds(c, type) = {L + 1 + k : k \in {i \in DOMAIN c : c[i].type = type}}
  BY DEF NewIds
<1>6. /\ \A k \in DOMAIN c : /\ c[k].at = now
                             /\ c[k].type \in {"Scheduled", "TimerStarted", "TimerCanceled", "Closed"}
                             /\ c[k].type = "Closed" => d.phase = "over"
      /\ d.phase = "over" => DOMAIN c = {1} /\ c[1].type = "Closed"
  BY DEF Commanded
<1> HIDE DEF L, c
<1>7. \A type \in {"Started", "Ended", "Signaled", "TaskCompleted"} : NewIds(c, type) = {}
  BY <1>5, <1>6
<1>8. NewIds(c, "Closed") = IF d.phase = "over" THEN {L + 2} ELSE {}
  <2>1. CASE d.phase = "over"
    <3>1. {i \in DOMAIN c : c[i].type = "Closed"} = {1} /\ L + 1 + 1 = L + 2
      BY <1>3, <1>6, <2>1
    <3> QED BY <1>5, <2>1, <3>1
  <2>2. CASE d.phase # "over"
    BY <1>5, <1>6, <2>2
  <2> QED BY <2>1, <2>2
<1>9. d.phase = "over" => Len(history') = L + 2
  <2>1. DOMAIN c = {1} => Len(c) = 1
    <3>1. ASSUME DOMAIN c = {1} PROVE Len(c) = 1
      <4>1. 1 .. Len(c) = {1}
        BY <1>4, <3>1
      <4>2. Len(c) \in 1 .. Len(c) \/ Len(c) = 0
        BY <1>4
      <4> QED BY <4>1, <4>2
    <3> QED BY <3>1
  <2> QED BY <1>3, <1>6, <2>1
<1>10. \A i \in ids : i > L + 1 /\ i \in DOMAIN history' /\ i \notin DOMAIN history
  <2>1. ASSUME NEW i \in ids PROVE i > L + 1 /\ i \in DOMAIN history' /\ i \notin DOMAIN history
    <3>1. PICK k \in DOMAIN c : i = L + 1 + k
      BY <1>5
    <3> QED BY <1>3, <1>4, <3>1
  <2> QED BY <2>1
<1>11. \A i \in DOMAIN history' : i \in DOMAIN history \/ history'[i].at = now
  BY <1>1, <1>3, <1>6
<1>12. /\ Ids("Started")' = Ids("Started") /\ Ids("Ended")' = Ids("Ended")
       /\ Ids("Signaled")' = Ids("Signaled")
       /\ Ids("Scheduled")' = Ids("Scheduled") \cup ids
       /\ Ids("TimerStarted")' = Ids("TimerStarted") \cup NewIds(c, "TimerStarted")
       /\ Ids("TaskCompleted")' = Ids("TaskCompleted") \cup {L + 1}
       /\ Ids("Closed")' = Ids("Closed") \cup (IF d.phase = "over" THEN {L + 2} ELSE {})
  BY <1>1, <1>3, <1>7, <1>8
<1> QED BY <1>3, <1>9, <1>10, <1>11, <1>12 DEF L, c

\* The completion of a workflow task keeps Recorded.
LEMMA TaskRecords ==
  ASSUME Types, Recorded, CompleteTask, sc' = sc
  PROVE  Recorded'
<1>1. PICK d \in Decide : Replies(d) /\ Commanded(d)
  BY TaskReplies DEF Recorded
<1> DEFINE L == Len(history)
           ids == NewIds(d.commands, "Scheduled")
<1>2. /\ history' \in Seq(Event) /\ L \in Nat /\ DOMAIN history = 1 .. L
      /\ \A i \in DOMAIN history : i \in DOMAIN history' /\ history'[i] = history[i]
      /\ \A i \in DOMAIN history' : i \in DOMAIN history \/ history'[i].at = now
      /\ Ids("Started")' = Ids("Started") /\ Ids("Ended")' = Ids("Ended")
      /\ Ids("Scheduled")' = Ids("Scheduled") \cup ids
      /\ Ids("Closed")' = Ids("Closed") \cup (IF d.phase = "over" THEN {L + 2} ELSE {})
      /\ d.phase = "over" => Len(history') = L + 2
      /\ \A i \in ids : i \notin DOMAIN history
  BY <1>1, TaskAdds
<1>3. /\ ~Closed /\ task' = "none" /\ now' = now /\ flow' \in Flow
      /\ flow'.step = d.step /\ flow'.phase = d.phase
      /\ flow'.awaits = IF ids = {} THEN flow.awaits ELSE ids
      /\ DOMAIN pending' = IF d.phase = "over" THEN {} ELSE DOMAIN pending \cup ids
  BY <1>1 DEF Replies
<1>4. /\ ids # {} \/ d.phase \in {"parked", "wait"} => DOMAIN pending = {}
      /\ d.phase \in {"parked", "wait"} => ids = {}
      /\ d.phase \in {"call", "open", "close"} => ids # {} \/ DOMAIN pending # {}
  BY <1>1, <1>3, Schedules
<1>5. \A type : Ids(type) \subseteq DOMAIN history
  BY DEF Ids
<1>6. d.phase # "start" /\ now \in Nat
  BY <1>1, TaskIs DEF Commanded
<1>7. Closed' <=> d.phase = "over"
  BY <1>3 DEF Closed
<1> HIDE DEF L, ids
<1>8. Written'
  <2>1. ASSUME NEW i \in DOMAIN history' PROVE history'[i].at <= now'
    <3>1. CASE i \in DOMAIN history
      BY <1>2, <1>3, <3>1 DEF Recorded, Written
    <3>2. CASE history'[i].at = now
      BY <1>3, <1>6, <3>2
    <3> QED BY <1>2, <3>1, <3>2
  <2> QED BY <1>2, <1>3, <2>1 DEF Written
<1>9. Paired'
  BY <1>2, <1>5 DEF Recorded, Paired
<1>10. EndedOnce'
  BY <1>2, <1>3, <1>5 DEF Recorded, EndedOnce
<1>11. Accounted'
  BY <1>2, <1>3, <1>5, <1>7 DEF Recorded, Accounted
<1>12. Final'
  BY <1>2, <1>3, <1>7 DEF Recorded, Final
<1>13. Placing'
  <2>1. CASE Entered(d)
    <3>1. /\ d.phase = "call" => d.step \in DOMAIN Plan /\ Plan[d.step].do = "call"
          /\ d.phase = "open" => d.step \in DOMAIN Plan /\ Plan[d.step].do = "gate"
          /\ d.phase = "wait" => d.step \in DOMAIN Plan /\ Plan[d.step].do = "wait"
          /\ d.phase \notin {"parked", "close"}
      BY <2>1, Zenon DEF Entered
    <3> QED BY <1>3, <3>1 DEF Placing, Plan
  <2>2. CASE Stays(d)
    BY <1>3, <2>2 DEF Recorded, Placing, Stays, Plan
  <2>3. CASE Fails(d)
    BY <1>3, <2>3 DEF Placing, Fails
  <2>4. CASE flow.phase \in {"open", "parked"} /\ (Parks(d) \/ Shuts(d))
    BY <1>3, <2>4 DEF Recorded, Placing, Parks, Shuts, Plan
  <2> QED BY <1>1, <1>3, <2>1, <2>2, <2>3, <2>4, DecideIs DEF Recorded
<1>14. Awaiting'
  BY <1>2, <1>3, <1>4, <1>6 DEF Recorded, Awaiting
<1>15. Busy'
  BY <1>3, <1>4, <1>6, <1>7 DEF Busy
<1> QED BY <1>8, <1>9, <1>10, <1>11, <1>12, <1>13, <1>14, <1>15 DEF Recorded

\* What is written stays, and the clock does not go back.
LEMMA HistoryKept ==
  ASSUME Types, Recorded, [ChaosNext]_vars
  PROVE  /\ \A i \in DOMAIN history : i \in DOMAIN history' /\ history'[i] = history[i]
         /\ now' \in Nat /\ now <= now'
<1>1. Written /\ now \in Nat /\ now <= now
  BY TaskIs DEF Recorded
<1>2. CASE WritesNothing
  BY <1>2 DEF WritesNothing
<1>3. ASSUME NEW e \in Event, Noted(e)
      PROVE  /\ \A i \in DOMAIN history : i \in DOMAIN history' /\ history'[i] = history[i]
             /\ now' \in Nat /\ now <= now'
  BY <1>1, <1>3, Appends DEF Noted, Written
<1>4. ASSUME NEW s \in DOMAIN pending, NEW outcome \in Outcomes, Over(s, outcome)
      PROVE  /\ \A i \in DOMAIN history : i \in DOMAIN history' /\ history'[i] = history[i]
             /\ now' \in Nat /\ now <= now'
  <2>1. now' = now
    BY <1>4 DEF Over
  <2> QED BY <1>1, <1>4, <2>1, OverWrites
<1>5. CASE CompleteTask
  <2>1. PICK d \in Decide : Replies(d) /\ Commanded(d)
    BY <1>5, TaskReplies DEF Recorded
  <2>2. now' = now
    BY <2>1 DEF Replies
  <2> QED BY <1>1, <2>1, <2>2, TaskAdds
<1>6. CASE Terminate
  <2>1. "Terminated" \in Statuses
    BY DEF Statuses
  <2>2. Close("Terminated") \in Event
    BY <2>1, CloseIs
  <2> QED BY <1>1, <1>6, <2>2, Appends DEF Terminate, Written
<1> QED BY <1>1, <1>2, <1>3, <1>4, <1>5, <1>6, Writes

\* Every step keeps Clocked.
LEMMA ClockedStep ==
  ASSUME Types, Recorded, Clocked, [ChaosNext]_vars
  PROVE  Clocked'
<1>1. /\ \A i \in DOMAIN history : i \in DOMAIN history' /\ history'[i] = history[i]
      /\ now' \in Nat /\ now <= now' /\ now \in Nat
      /\ DOMAIN pending \subseteq DOMAIN history
      /\ \A i \in DOMAIN history : history[i].at \in Nat
  <2>1. DOMAIN pending \subseteq DOMAIN history
    BY DEF Recorded, Accounted, Ids
  <2>2. \A i \in DOMAIN history : history[i].at \in Nat
    BY InSequence, EventIs DEF Recorded, Written
  <2> QED BY <2>1, <2>2, HistoryKept, TaskIs
<1>2. \A s \in DOMAIN pending : pending[s].since \in Nat
  BY DEF Types, Waiting
<1>3. ASSUME DOMAIN pending' = DOMAIN pending,
             \A s \in DOMAIN pending : pending'[s].since = pending[s].since \/ pending'[s].since = now
      PROVE  Clocked'
  <2>1. ASSUME NEW s \in DOMAIN pending
        PROVE  history'[s].at <= pending'[s].since /\ pending'[s].since <= now'
    <3>1. history'[s].at = history[s].at /\ history[s].at <= pending[s].since /\ pending[s].since <= now
      BY <1>1 DEF Clocked
    <3> QED BY <1>1, <1>2, <1>3, <3>1
  <2> QED BY <1>3, <2>1 DEF Clocked
<1>4. CASE UNCHANGED pending
  BY <1>3, <1>4
<1>5. ASSUME NEW s \in DOMAIN pending, NEW c \in Boxes, StartAttempt(s, c) PROVE Clocked'
  BY <1>3, <1>5, Placed
<1>6. ASSUME NEW s \in DOMAIN pending, Heartbeat(s) PROVE Clocked'
  BY <1>3, <1>6, Beaten
<1>7. ASSUME NEW s \in DOMAIN pending, Retried(s) PROVE Clocked'
  BY <1>3, <1>7, RetriedIs
<1>8. ASSUME NEW s \in DOMAIN pending, NEW outcome, EndsAs(s, outcome) PROVE Clocked'
  <2>1. /\ DOMAIN pending' \subseteq DOMAIN pending
        /\ \A t \in DOMAIN pending' : pending'[t] = pending[t]
    BY <1>8, EndsAsIs
  <2>2. ASSUME NEW t \in DOMAIN pending'
        PROVE  history'[t].at <= pending'[t].since /\ pending'[t].since <= now'
    <3>1. history'[t].at = history[t].at /\ history[t].at <= pending[t].since /\ pending[t].since <= now
      BY <1>1, <2>1 DEF Clocked
    <3> QED BY <1>1, <1>2, <2>1, <3>1
  <2> QED BY <2>2 DEF Clocked
<1>9. ASSUME CompleteTask PROVE Clocked'
  <2>1. PICK d \in Decide : Replies(d) /\ Commanded(d)
    BY <1>9, TaskReplies DEF Recorded
  <2> DEFINE ids == NewIds(d.commands, "Scheduled")
  <2>2. \A s \in DOMAIN pending' :
          /\ s \in DOMAIN pending \cup ids
          /\ pending'[s] = IF s \in ids THEN NewPending(s) ELSE pending[s]
    BY <2>1 DEF Replies
  <2>3. /\ \A k \in DOMAIN d.commands : history'[Len(history) + 1 + k] = d.commands[k]
        /\ \A k \in DOMAIN d.commands : d.commands[k].at = now
    BY <2>1, TaskAdds DEF Commanded
  <2>4. \A s \in ids : history'[s].at = now
    BY <2>3 DEF NewIds
  <2>5. \A s : NewPending(s).since = now
    BY DEF NewPending
  <2> HIDE DEF ids
  <2>6. ASSUME NEW s \in DOMAIN pending'
        PROVE  history'[s].at <= pending'[s].since /\ pending'[s].since <= now'
    <3>1. CASE s \in ids
      BY <1>1, <2>2, <2>4, <2>5, <3>1
    <3>2. CASE s \notin ids
      <4>1. s \in DOMAIN pending /\ pending'[s] = pending[s]
        BY <2>2, <3>2
      <4>2. history'[s].at = history[s].at /\ history[s].at <= pending[s].since /\ pending[s].since <= now
        BY <1>1, <4>1 DEF Clocked
      <4> QED BY <1>1, <1>2, <4>1, <4>2
    <3> QED BY <3>1, <3>2
  <2> QED BY <2>6 DEF Clocked
<1>10. ASSUME Terminate PROVE Clocked'
  <2>1. DOMAIN pending' = {}
    BY <1>10 DEF Terminate, NoPending
  <2> QED BY <2>1 DEF Clocked
<1>11. CASE OfRun
  <2>1. ASSUME NEW s \in DOMAIN pending, Retried(s) \/ \E outcome \in Outcomes : EndsAs(s, outcome)
        PROVE  Clocked'
    BY <1>7, <1>8, <2>1
  <2> QED BY <1>4, <1>5, <1>6, <1>9, <1>10, <1>11, <2>1, PendingMoves
<1> QED BY <1>4, <1>11, OthersLeavePending

\* Every step keeps Recorded.
LEMMA RecordedStep ==
  ASSUME Types, Recorded, Clocked, [ChaosNext]_vars
  PROVE  Recorded'
<1>1. sc' = sc /\ Written
  BY BoxMoves DEF Recorded
<1> QED BY <1>1, NothingRecords, NotedRecords, OverRecords, TaskRecords, TerminateRecords, Writes

\* Both hold at first.
LEMMA RecordedInit == ChaosInit => Recorded /\ Clocked
<1> SUFFICES ASSUME ChaosInit PROVE Recorded /\ Clocked
  OBVIOUS
<1>1. /\ history = <<>> /\ now = 0 /\ task = "scheduled" /\ DOMAIN pending = {}
      /\ flow = [step |-> 0, phase |-> "start", answer |-> "none", awaits |-> {}, timer |-> 0]
  BY DEF ChaosInit, Init, NoPending
<1>2. \A type : Ids(type) = {}
  BY <1>1, None DEF Ids
<1>3. flow \in Flow /\ flow.phase = "start" /\ flow.awaits = {} /\ ~Closed
  BY <1>1 DEF Flow, Phases, Answers, Closed
<1>4. Written
  BY <1>1, <1>3, None DEF Written
<1>5. Paired /\ EndedOnce /\ Accounted /\ Final
  BY <1>1, <1>2, <1>3 DEF Paired, EndedOnce, Accounted, Final
<1>6. Placing /\ Awaiting /\ Busy /\ Clocked
  BY <1>1, <1>3 DEF Placing, Awaiting, Busy, Clocked
<1> QED BY <1>4, <1>5, <1>6 DEF Recorded

\* So they always hold.
LEMMA RunInductive == ChaosSpec => [](Types /\ Recorded /\ Clocked)
<1>1. Types /\ Recorded /\ Clocked /\ [ChaosNext]_vars => (Types /\ Recorded /\ Clocked)'
  BY TypesStep, RecordedStep, ClockedStep
<1>2. ChaosInit => Types /\ Recorded /\ Clocked
  BY FleetInit, RecordedInit DEF FleetInv
<1> QED BY <1>1, <1>2, PTL DEF ChaosSpec

------------------------------------------------------------------------------
(* The graph *)

\* What a reading shows of an activity is what the run knows of it at its end.
LEMMA StatesAreTrue ==
  ASSUME Types, Recorded, NEW n \in 0 .. Len(history), NEW described \in BOOLEAN, Whole(n),
         NEW s \in Activities(Reading(n, FALSE, described))
  PROVE  LET state == ActivityState(Reading(n, FALSE, described), s) IN
         CASE state = "running" -> Now(s) = "started"
           [] state = "retrying" -> Now(s) = "scheduled"
           [] state = "queued" -> described => Now(s) # "started"
           [] OTHER -> Now(s) = "over"
<1> DEFINE read == Reading(n, FALSE, described)
           state == ActivityState(read, s)
           ended == About(read, "Ended", s)
           started == About(read, "Started", s)
<1>1. history \in Seq(Event) /\ Len(history) \in Nat /\ DOMAIN history = 1 .. Len(history)
  BY DEF Recorded, Written
<1>2. /\ DOMAIN read.events = 1 .. n
      /\ \A i \in 1 .. n : read.events[i] = history[i] /\ i \in DOMAIN history
      /\ read.pending = IF described THEN pending ELSE NoPending
  BY <1>1 DEF Reading
<1> HIDE DEF read
<1>3. /\ ended = {i \in Ids("Ended") : i <= n /\ history[i].of = s}
      /\ started = {i \in Ids("Started") : i <= n /\ history[i].of = s}
  BY <1>1, <1>2 DEF About, Of, Ids
<1>4. state = IF ended # {}
                THEN read.events[CHOOSE i \in ended : TRUE].outcome
              ELSE IF s \in DOMAIN read.pending
                THEN IF read.pending[s].state = "started" THEN "running"
                     ELSE IF read.pending[s].attempt > 1 THEN "retrying" ELSE "queued"
              ELSE IF started # {} THEN "running" ELSE "queued"
  BY DEF ActivityState
<1>5. s \in DOMAIN pending => pending[s].state \in {"scheduled", "started"} /\ pending[s].attempt \in Nat
  BY DEF Types, Waiting
<1> HIDE DEF state, ended, started
<1>6. CASE ended # {}
  <2>1. PICK i \in ended : state = read.events[i].outcome
    BY <1>4, <1>6
  <2>2. i \in Ids("Ended") /\ i \in 1 .. n /\ history[i].of = s
    BY <1>1, <1>3, <2>1 DEF Ids
  <2>3. state \in Outcomes
    BY <1>2, <2>1, <2>2, <1>1, InSequence, EventIs DEF Ids
  <2>4. s \notin DOMAIN pending
    BY <2>2 DEF Recorded, EndedOnce
  <2> QED BY <2>3, <2>4 DEF Outcomes, Now, state, read
<1>7. CASE ended = {} /\ s \in DOMAIN read.pending
  <2>1. s \in DOMAIN pending /\ read.pending[s] = pending[s]
    BY <1>2, <1>7 DEF NoPending
  <2>2. state = IF pending[s].state = "started" THEN "running"
                ELSE IF pending[s].attempt > 1 THEN "retrying" ELSE "queued"
    BY <1>4, <1>7, <2>1
  <2>3. \/ state = "running" /\ pending[s].state = "started"
        \/ state = "retrying" /\ pending[s].state = "scheduled"
        \/ state = "queued" /\ pending[s].state = "scheduled"
    BY <1>5, <2>1, <2>2
  <2>4. Now(s) = pending[s].state
    BY <2>1 DEF Now
  <2> QED BY <2>3, <2>4 DEF state, read
<1>8. CASE ended = {} /\ s \notin DOMAIN read.pending
  <2>1. started = {}
    <3> SUFFICES ASSUME NEW i \in started PROVE FALSE
      OBVIOUS
    <3>1. i \in Ids("Started") /\ i <= n /\ history[i].of = s
      BY <1>3
    <3>2. i + 1 \in Ids("Ended") /\ history[i + 1].of = s
      BY <3>1 DEF Recorded, Paired
    <3>3. ~(i + 1 <= n)
      BY <1>3, <1>8, <3>2
    <3>4. i \in 1 .. Len(history) /\ i + 1 \in 1 .. Len(history)
      BY <1>1, <3>1, <3>2 DEF Ids
    <3>5. i <= n /\ ~(i + 1 <= n) /\ n \in Nat
      BY <3>1, <3>3
    <3>6. i = n /\ n # Len(history)
      <4> DEFINE L == Len(history)
      <4>1. i \in Int /\ i + 1 <= L /\ L \in Int /\ n \in Int
        BY <1>1, <3>4, <3>5
      <4> HIDE DEF L
      <4>2. i = n /\ n # L
        BY <3>5, <4>1
      <4> QED BY <4>2 DEF L
    <3>7. history[n].type = "Started" /\ n > 0
      BY <3>1, <3>4, <3>6 DEF Ids
    <3> QED BY <3>6, <3>7 DEF Whole
  <2>2. state = "queued"
    BY <1>4, <1>8, <2>1
  <2>3. described => Now(s) = "over"
    BY <1>2, <1>8 DEF Now
  <2> QED BY <2>2, <2>3 DEF state, read
<1> QED BY <1>6, <1>7, <1>8

\* The durable wait is drawn over a run that waits.
LEMMA WaitIsTrue ==
  ASSUME Types, Recorded, NEW n \in 0 .. Len(history), ShowsWait(Reading(n, FALSE, TRUE))
  PROVE  Closed \/ flow.phase \in {"wait", "parked"}
<1>1. task = "none" /\ DOMAIN pending = {}
  BY DEF ShowsWait, Reading
<1>2. flow.phase \in Phases
  BY DEF Recorded, Written, Flow
<1> QED BY <1>1, <1>2 DEF Recorded, Busy, Phases, Closed

------------------------------------------------------------------------------
(* The gates *)

\* The activities that open a gate.
OpenIds == {s \in Ids("Scheduled") : history[s].kind = "open"}
\* The activities that close a gate.
CloseIds == {s \in Ids("Scheduled") : history[s].kind = "close"}

\* A visit to a gate that is over.
IsAnswered(n) == visits[n].answer # "waiting"

\* The close activity c told the answer of the n-th visit, before the next visit.
Told(n, c) ==
  /\ c \in CloseIds
  /\ history[c].gate = history[visits[n].open].gate /\ history[c].answer = visits[n].answer
  /\ visits[n].open < c
  /\ \A m \in DOMAIN visits : n < m => c < visits[m].open

\* What is known of a visit to a gate.
Visit == [open : Nat, answer : Answers \cup {"waiting"}]

\* The visits are those of the history: each has the activity that opened its
\* gate, in order, an answered one has exactly one activity that closed it, and
\* only the last one may be unanswered.
Visiting ==
  /\ visits \in Seq(Visit)
  /\ \A n \in DOMAIN visits : visits[n].open \in OpenIds
  /\ \A o \in OpenIds : \E n \in DOMAIN visits : visits[n].open = o
  /\ \A n, m \in DOMAIN visits : n < m => visits[n].open < visits[m].open
  /\ \A n \in DOMAIN visits : IsAnswered(n) => \E c \in CloseIds : Told(n, c)
  /\ \A n \in DOMAIN visits :
       ~IsAnswered(n) => n = Len(visits) /\ \A c \in CloseIds : c < visits[n].open
  /\ \A c \in CloseIds : \E n \in DOMAIN visits : IsAnswered(n) /\ Told(n, c)
  /\ \A n \in DOMAIN visits, c, d \in CloseIds : Told(n, c) /\ Told(n, d) => c = d

\* A visit waits while the code is at its gate.
AtItsGate ==
  ~Closed =>
    IF flow.phase \in {"open", "parked"}
      THEN LET n == Len(visits) IN
           n > 0 /\ ~IsAnswered(n) /\ history[visits[n].open].gate = Plan[flow.step].gate
      ELSE \A n \in DOMAIN visits : IsAnswered(n)

\* Behind the task that left the run waiting nothing was scheduled.
LeftWaiting ==
  flow.phase = "wait" =>
    \E t \in Ids("TaskCompleted") :
      \A i \in Ids("Scheduled") \cup Ids("TimerStarted") \cup Ids("TaskCompleted") : i <= t

\* Only an answered workflow task schedules activities and comes to a gate.
LEMMA OthersSchedule ==
  ASSUME Types, Recorded, [ChaosNext]_vars, ~CompleteTask
  PROVE  /\ visits' = visits /\ (flow' = flow \/ Closed')
         /\ \A type \in {"Scheduled", "TimerStarted", "TaskCompleted"} : Ids(type)' = Ids(type)
<1>1. Written
  BY DEF Recorded
<1>2. CASE WritesNothing
  BY <1>2 DEF WritesNothing, Ids
<1>3. ASSUME NEW e \in Event, Noted(e)
      PROVE  /\ visits' = visits /\ flow' = flow
             /\ \A type \in {"Scheduled", "TimerStarted", "TaskCompleted"} : Ids(type)' = Ids(type)
  BY <1>1, <1>3, Appends DEF Noted, Written
<1>4. ASSUME NEW s \in DOMAIN pending, NEW outcome \in Outcomes, Over(s, outcome)
      PROVE  /\ visits' = visits /\ flow' = flow
             /\ \A type \in {"Scheduled", "TimerStarted", "TaskCompleted"} : Ids(type)' = Ids(type)
  <2>1. visits' = visits /\ flow' = flow
    BY <1>4 DEF Over
  <2> QED BY <1>4, <2>1, OverWrites
<1>5. CASE Terminate
  <2> DEFINE e == Close("Terminated")
  <2>1. "Terminated" \in Statuses
    BY DEF Statuses
  <2>2. e \in Event /\ e.type = "Closed"
    BY <2>1, CloseIs
  <2>3. history' = Append(history, e) /\ visits' = visits /\ Closed'
    BY <1>1, <1>5 DEF Terminate, Closed, Written, Flow
  <2> HIDE DEF e
  <2> QED BY <1>1, <2>2, <2>3, Appends DEF Written
<1> QED BY <1>1, <1>2, <1>3, <1>4, <1>5, Writes

\* As long as no gate activity is scheduled, the visits stay as they are.
LEMMA VisitsStay ==
  ASSUME Visiting, visits' = visits, OpenIds' = OpenIds, CloseIds' = CloseIds,
         \A i \in DOMAIN history : i \in DOMAIN history' /\ history'[i] = history[i]
  PROVE  Visiting'
<1>1. OpenIds \subseteq DOMAIN history /\ CloseIds \subseteq DOMAIN history
  BY DEF OpenIds, CloseIds, Ids
<1>2. ASSUME NEW n \in DOMAIN visits, NEW c \in CloseIds
      PROVE  Told(n, c)' <=> Told(n, c)
  <2>1. history'[c] = history[c] /\ history'[visits[n].open] = history[visits[n].open]
    BY <1>1 DEF Visiting
  <2> QED BY <2>1 DEF Told
<1>3. \A n \in DOMAIN visits : IsAnswered(n)' <=> IsAnswered(n)
  BY DEF IsAnswered
<1> QED BY <1>2, <1>3 DEF Visiting

\* The activities a workflow task schedules, as the history tells them.
LEMMA NewActivities ==
  ASSUME Types, Recorded, NEW d, Replies(d), Commanded(d)
  PROVE  LET new == NewIds(d.commands, "Scheduled") IN
         /\ OpenIds' = OpenIds \cup {i \in new : history'[i].kind = "open"}
         /\ CloseIds' = CloseIds \cup {i \in new : history'[i].kind = "close"}
         /\ \A i \in new : \E k \in DOMAIN d.commands :
              /\ i = Len(history) + 1 + k /\ history'[i] = d.commands[k]
              /\ d.commands[k].type = "Scheduled"
<1> DEFINE new == NewIds(d.commands, "Scheduled")
<1>1. /\ Ids("Scheduled")' = Ids("Scheduled") \cup new
      /\ \A i \in DOMAIN history : i \in DOMAIN history' /\ history'[i] = history[i]
      /\ \A k \in DOMAIN d.commands : history'[Len(history) + 1 + k] = d.commands[k]
  BY TaskAdds
<1>2. Ids("Scheduled") \subseteq DOMAIN history
  BY DEF Ids
<1>3. \A i \in new : \E k \in DOMAIN d.commands :
        i = Len(history) + 1 + k /\ d.commands[k].type = "Scheduled"
  BY DEF NewIds
<1> HIDE DEF new
<1>4. /\ OpenIds' = OpenIds \cup {i \in new : history'[i].kind = "open"}
      /\ CloseIds' = CloseIds \cup {i \in new : history'[i].kind = "close"}
  BY <1>1, <1>2 DEF OpenIds, CloseIds
<1> QED BY <1>1, <1>3, <1>4 DEF new

\* A workflow task that schedules no gate activity.
LEMMA NoGate ==
  ASSUME Types, Recorded, Visiting, NEW d, Replies(d), Commanded(d),
         \A k \in DOMAIN d.commands : d.commands[k].type = "Scheduled" => d.commands[k].kind = "node"
  PROVE  Visiting' /\ visits' = visits
<1>1. visits' = visits
  <2>1. visits' = Visited(d.commands)
    BY DEF Replies
  <2>2. /\ {i \in DOMAIN d.commands : d.commands[i].type = "Scheduled" /\ d.commands[i].kind = "open"} = {}
        /\ {i \in DOMAIN d.commands : d.commands[i].type = "Scheduled" /\ d.commands[i].kind = "close"} = {}
    OBVIOUS
  <2> QED BY <2>1, <2>2 DEF Visited
<1>2. OpenIds' = OpenIds /\ CloseIds' = CloseIds
  <2> DEFINE new == NewIds(d.commands, "Scheduled")
  <2>1. /\ OpenIds' = OpenIds \cup {i \in new : history'[i].kind = "open"}
        /\ CloseIds' = CloseIds \cup {i \in new : history'[i].kind = "close"}
        /\ \A i \in new : \E k \in DOMAIN d.commands :
             /\ i = Len(history) + 1 + k /\ history'[i] = d.commands[k]
             /\ d.commands[k].type = "Scheduled"
    BY NewActivities
  <2>2. \A i \in new : history'[i].kind = "node"
    BY <2>1
  <2> HIDE DEF new
  <2> QED BY <2>1, <2>2
<1>3. \A i \in DOMAIN history : i \in DOMAIN history' /\ history'[i] = history[i]
  BY TaskAdds
<1> QED BY <1>1, <1>2, <1>3, VisitsStay

\* The last visit is answered.
AnswersVisit(answer) == visits' = [visits EXCEPT ![Len(visits)].answer = answer]

\* A workflow task that schedules one activity, a gate's.
LEMMA OneGate ==
  ASSUME Types, Recorded, NEW d, Replies(d), Commanded(d), NEW k \in DOMAIN d.commands,
         \A i \in DOMAIN d.commands : d.commands[i].type = "Scheduled" <=> i = k
  PROVE  LET z == Len(history) + 1 + k
             e == d.commands[k]
         IN /\ z \notin DOMAIN history /\ z \in DOMAIN history' /\ history'[z] = e
            /\ \A i \in DOMAIN history : i < z
            /\ e.kind = "open" =>
                 /\ OpenIds' = OpenIds \cup {z} /\ CloseIds' = CloseIds
                 /\ visits' = Append(visits, [open |-> z, answer |-> "waiting"])
            /\ e.kind = "close" =>
                 /\ OpenIds' = OpenIds /\ CloseIds' = CloseIds \cup {z}
                 /\ AnswersVisit(e.answer)
<1> DEFINE z == Len(history) + 1 + k
           e == d.commands[k]
           new == NewIds(d.commands, "Scheduled")
<1>1. {i \in DOMAIN d.commands : d.commands[i].type = "Scheduled"} = {k}
  OBVIOUS
<1>2. new = {z}
  BY <1>1 DEF NewIds
<1>3. /\ z \notin DOMAIN history /\ z \in DOMAIN history' /\ history'[z] = e
      /\ \A i \in DOMAIN history : i < z
  <2>1. Len(history) \in Nat /\ DOMAIN history = 1 .. Len(history) /\ z > Len(history) + 1
        /\ z \notin DOMAIN history /\ z \in DOMAIN history' /\ history'[z] = e
    BY <1>2, TaskAdds
  <2> HIDE DEF z
  <2> QED BY <2>1, SMTT(30)
<1>4. /\ OpenIds' = OpenIds \cup {i \in new : history'[i].kind = "open"}
      /\ CloseIds' = CloseIds \cup {i \in new : history'[i].kind = "close"}
  BY NewActivities
<1>5. visits' = Visited(d.commands)
  BY DEF Replies
<1> DEFINE opens == {i \in DOMAIN d.commands : d.commands[i].type = "Scheduled" /\ d.commands[i].kind = "open"}
           closes == {i \in DOMAIN d.commands : d.commands[i].type = "Scheduled" /\ d.commands[i].kind = "close"}
<1>6. Visited(d.commands) =
        IF opens # {}
          THEN Append(visits, [open |-> Len(history) + 1 + (CHOOSE i \in opens : TRUE),
                               answer |-> "waiting"])
        ELSE IF closes # {}
          THEN [visits EXCEPT ![Len(visits)].answer = d.commands[CHOOSE i \in closes : TRUE].answer]
        ELSE visits
  BY DEF Visited
<1>7. /\ opens = IF e.kind = "open" THEN {k} ELSE {}
      /\ closes = IF e.kind = "close" THEN {k} ELSE {}
  OBVIOUS
<1>8. (CHOOSE i \in {k} : TRUE) = k
  OBVIOUS
<1> HIDE DEF opens, closes, new
<1>9. e.kind = "open" =>
        /\ OpenIds' = OpenIds \cup {z} /\ CloseIds' = CloseIds
        /\ visits' = Append(visits, [open |-> z, answer |-> "waiting"])
  <2> SUFFICES ASSUME e.kind = "open"
               PROVE  /\ OpenIds' = OpenIds \cup {z} /\ CloseIds' = CloseIds
                      /\ visits' = Append(visits, [open |-> z, answer |-> "waiting"])
    OBVIOUS
  <2>1. visits' = Append(visits, [open |-> z, answer |-> "waiting"])
    BY <1>5, <1>6, <1>7, <1>8
  <2> HIDE DEF z
  <2> QED BY <1>2, <1>3, <1>4, <2>1
<1>10. e.kind = "close" =>
        /\ OpenIds' = OpenIds /\ CloseIds' = CloseIds \cup {z}
        /\ AnswersVisit(e.answer)
  <2> SUFFICES ASSUME e.kind = "close"
               PROVE  /\ OpenIds' = OpenIds /\ CloseIds' = CloseIds \cup {z}
                      /\ AnswersVisit(e.answer)
    OBVIOUS
  <2>1. AnswersVisit(e.answer)
    BY <1>5, <1>6, <1>7, <1>8 DEF AnswersVisit
  <2> HIDE DEF z
  <2> QED BY <1>2, <1>3, <1>4, <2>1
<1> QED BY <1>3, <1>9, <1>10

\* The workflow comes to a gate: its visit waits, behind all that is answered.
LEMMA GateOpens ==
  ASSUME Recorded, Visiting, \A n \in DOMAIN visits : IsAnswered(n), NEW z \in Nat,
         z \in DOMAIN history', history'[z].kind = "open",
         \A i \in DOMAIN history : i \in DOMAIN history' /\ history'[i] = history[i] /\ i < z,
         OpenIds' = OpenIds \cup {z}, CloseIds' = CloseIds,
         visits' = Append(visits, [open |-> z, answer |-> "waiting"])
  PROVE  /\ Visiting'
         /\ \E n \in DOMAIN visits' : n = Len(visits') /\ ~IsAnswered(n)' /\ visits'[n].open = z
<1> DEFINE v == [open |-> z, answer |-> "waiting"]
<1>1. PICK N : N = Len(visits)
  OBVIOUS
<1>2. v \in Visit
  BY DEF Visit
<1>3. visits \in Seq(Visit)
  BY DEF Visiting
<1>4. /\ visits' \in Seq(Visit) /\ N \in Nat /\ DOMAIN visits = 1 .. N
      /\ Len(visits') = N + 1 /\ DOMAIN visits' = 1 .. N + 1
      /\ \A n \in DOMAIN visits : n \in DOMAIN visits' /\ visits'[n] = visits[n]
      /\ visits'[N + 1] = v
  <2> HIDE DEF v
  <2> QED BY <1>1, <1>2, <1>3 DEF v
<1>5. v.open = z /\ v.answer = "waiting"
  OBVIOUS
<1> HIDE DEF v
<1>6. /\ \A n \in DOMAIN visits' : n \in DOMAIN visits \/ n = N + 1
      /\ N + 1 \in DOMAIN visits' /\ N + 1 \notin DOMAIN visits
      /\ \A n \in DOMAIN visits : n < N + 1 /\ ~(N + 1 < n)
  BY <1>4
<1>7. /\ OpenIds \subseteq DOMAIN history /\ CloseIds \subseteq DOMAIN history
      /\ \A i \in DOMAIN history : i \in Nat
  BY DEF OpenIds, CloseIds, Ids, Recorded, Written
<1>8. \A n \in DOMAIN visits : visits[n].open \in OpenIds /\ visits[n].open \in Nat
  BY <1>7 DEF Visiting
<1>9. /\ \A n \in DOMAIN visits : IsAnswered(n)'
      /\ ~IsAnswered(N + 1)'
  BY <1>4, <1>5, <1>6 DEF IsAnswered
<1>10. ASSUME NEW n \in DOMAIN visits, NEW c \in CloseIds
      PROVE  Told(n, c)' <=> Told(n, c)
  <2>1. history'[c] = history[c] /\ history'[visits[n].open] = history[visits[n].open] /\ c < z
    BY <1>7, <1>8
  <2>2. visits'[n] = visits[n] /\ (n < N + 1 => c < visits'[N + 1].open)
    BY <1>4, <1>5, <2>1
  <2>3. (\A m \in DOMAIN visits' : n < m => c < visits'[m].open)
          <=> (\A m \in DOMAIN visits : n < m => c < visits[m].open)
    BY <1>4, <1>6, <2>2
  <2> QED BY <2>1, <2>2, <2>3 DEF Told
<1>11. ASSUME NEW c \in CloseIds PROVE ~Told(N + 1, c)' /\ c < z
  <2>1. c < z /\ c \in Nat
    BY <1>7
  <2> QED BY <1>4, <1>5, <2>1 DEF Told
<1>12. \A n \in DOMAIN visits' : visits'[n].open \in OpenIds'
  BY <1>4, <1>5, <1>6, <1>8
<1>13. \A o \in OpenIds' : \E n \in DOMAIN visits' : visits'[n].open = o
  BY <1>4, <1>5, <1>6 DEF Visiting
<1>14. \A n, m \in DOMAIN visits' : n < m => visits'[n].open < visits'[m].open
  <2> SUFFICES ASSUME NEW n \in DOMAIN visits', NEW m \in DOMAIN visits', n < m
               PROVE  visits'[n].open < visits'[m].open
    OBVIOUS
  <2>1. n \in DOMAIN visits
    BY <1>4, <1>6
  <2>2. CASE m \in DOMAIN visits
    BY <1>4, <2>1, <2>2 DEF Visiting
  <2>3. CASE m = N + 1
    BY <1>4, <1>5, <1>7, <1>8, <2>1, <2>3
  <2> QED BY <1>6, <2>2, <2>3
<1>15. \A n \in DOMAIN visits' : IsAnswered(n)' => \E c \in CloseIds' : Told(n, c)'
  BY <1>6, <1>9, <1>10 DEF Visiting
<1>16. \A n \in DOMAIN visits' :
         ~IsAnswered(n)' => n = Len(visits') /\ \A c \in CloseIds' : c < visits'[n].open
  BY <1>4, <1>5, <1>6, <1>9, <1>11
<1>17. \A c \in CloseIds' : \E n \in DOMAIN visits' : IsAnswered(n)' /\ Told(n, c)'
  BY <1>4, <1>9, <1>10 DEF Visiting
<1>18. \A n \in DOMAIN visits', c, e \in CloseIds' : Told(n, c)' /\ Told(n, e)' => c = e
  BY <1>6, <1>10, <1>11 DEF Visiting
<1>19. Visiting'
  BY <1>4, <1>12, <1>13, <1>14, <1>15, <1>16, <1>17, <1>18 DEF Visiting
<1> QED BY <1>4, <1>5, <1>6, <1>9, <1>19

\* The workflow leaves the gate: the visit that waited is answered.
LEMMA GateShuts ==
  ASSUME Recorded, Visiting, NEW z \in Nat, NEW answer \in Answers,
         Len(visits) > 0, ~IsAnswered(Len(visits)),
         z \in DOMAIN history', history'[z].answer = answer,
         history'[z].gate = history[visits[Len(visits)].open].gate,
         \A i \in DOMAIN history : i \in DOMAIN history' /\ history'[i] = history[i] /\ i < z,
         OpenIds' = OpenIds, CloseIds' = CloseIds \cup {z},
         AnswersVisit(answer)
  PROVE  Visiting' /\ \A n \in DOMAIN visits' : IsAnswered(n)'
<1>1. PICK N : N = Len(visits)
  OBVIOUS
<1>2. visits \in Seq(Visit) /\ N \in Nat /\ DOMAIN visits = 1 .. N /\ N \in DOMAIN visits
  BY <1>1 DEF Visiting
<1>3. /\ DOMAIN visits' = DOMAIN visits /\ Len(visits') = N /\ visits' \in Seq(Visit)
      /\ \A n \in DOMAIN visits : visits'[n].open = visits[n].open
      /\ \A n \in DOMAIN visits : n # N => visits'[n] = visits[n]
      /\ visits'[N].answer = answer
  <2>1. \A n \in DOMAIN visits : visits[n] \in Visit
    BY <1>2, InSequence
  <2>2. [visits[N] EXCEPT !.answer = answer] \in Visit
    BY <1>2, <2>1 DEF Visit
  <2>3. /\ [visits[N] EXCEPT !.answer = answer].open = visits[N].open
        /\ [visits[N] EXCEPT !.answer = answer].answer = answer
    BY <1>2, <2>1 DEF Visit
  <2>4. /\ DOMAIN visits' = DOMAIN visits
        /\ visits' = [visits EXCEPT ![N] = [visits[N] EXCEPT !.answer = answer]]
    BY <1>1, <1>2 DEF AnswersVisit
  <2> DEFINE w == [visits[N] EXCEPT !.answer = answer]
  <2> HIDE DEF w
  <2>5. visits' = [visits EXCEPT ![N] = w] /\ w \in Visit /\ w.open = visits[N].open /\ w.answer = answer
    BY <2>2, <2>3, <2>4 DEF w
  <2>6. visits'[N] = w /\ \A n \in DOMAIN visits : n # N => visits'[n] = visits[n]
    BY <1>2, <2>5
  <2>7. visits' \in Seq(Visit) /\ Len(visits') = N
    BY <1>1, <1>2, <2>5
  <2> QED BY <2>4, <2>5, <2>6, <2>7
<1>4. answer # "waiting"
  BY DEF Answers
<1>5. /\ OpenIds \subseteq DOMAIN history /\ CloseIds \subseteq DOMAIN history
      /\ \A i \in DOMAIN history : i \in Nat
  BY DEF OpenIds, CloseIds, Ids, Recorded, Written
<1>6. /\ \A n \in DOMAIN visits : visits[n].open \in OpenIds /\ visits[n].open \in Nat
      /\ \A n \in DOMAIN visits : n # N => IsAnswered(n)
      /\ \A c \in CloseIds : c < visits[N].open
      /\ \A n \in DOMAIN visits : n # N => n < N /\ ~(N < n)
  BY <1>1, <1>2, <1>5 DEF Visiting
<1>7. \A n \in DOMAIN visits' : IsAnswered(n)'
  BY <1>3, <1>4, <1>6 DEF IsAnswered
<1>8. ASSUME NEW n \in DOMAIN visits, n # N, NEW c \in CloseIds
      PROVE  Told(n, c)' <=> Told(n, c)
  <2>1. history'[c] = history[c] /\ history'[visits[n].open] = history[visits[n].open]
    BY <1>5, <1>6
  <2> QED BY <1>3, <1>8, <2>1 DEF Told
<1>9. ASSUME NEW c \in CloseIds PROVE ~Told(N, c)' /\ ~Told(N, c)
  <2>1. c < visits[N].open /\ c \in Nat /\ visits[N].open \in Nat
    BY <1>2, <1>5, <1>6
  <2> QED BY <1>2, <1>3, <2>1 DEF Told
<1>10. ASSUME NEW n \in DOMAIN visits, n # N PROVE ~Told(n, z)'
  <2>1. visits[N].open < z /\ visits'[N].open = visits[N].open /\ visits[N].open \in Nat
    BY <1>2, <1>3, <1>5, <1>6
  <2>2. N \in DOMAIN visits' /\ n < N
    BY <1>2, <1>3, <1>6, <1>10
  <2> QED BY <2>1, <2>2 DEF Told
<1>11. Told(N, z)'
  <2>1. visits[N].open < z /\ visits'[N].open = visits[N].open /\ visits'[N].answer = answer
    BY <1>2, <1>3, <1>5, <1>6
  <2>2. history'[visits[N].open] = history[visits[N].open]
    BY <1>1, <1>2, <1>5, <1>6
  <2>3. \A m \in DOMAIN visits' : ~(N < m)
    BY <1>2, <1>3, <1>6
  <2> QED BY <1>1, <1>2, <1>3, <2>1, <2>2, <2>3 DEF Told
<1>12. /\ \A n \in DOMAIN visits' : visits'[n].open \in OpenIds'
       /\ \A o \in OpenIds' : \E n \in DOMAIN visits' : visits'[n].open = o
       /\ \A n, m \in DOMAIN visits' : n < m => visits'[n].open < visits'[m].open
  <2>1. /\ \A n \in DOMAIN visits : visits[n].open \in OpenIds
        /\ \A o \in OpenIds : \E n \in DOMAIN visits : visits[n].open = o
        /\ \A n, m \in DOMAIN visits : n < m => visits[n].open < visits[m].open
    BY DEF Visiting
  <2> QED BY <1>3, <2>1
<1>13. \A n \in DOMAIN visits' : \E c \in CloseIds' : Told(n, c)'
  <2>1. ASSUME NEW n \in DOMAIN visits, n # N PROVE \E c \in CloseIds' : Told(n, c)'
    <3>1. PICK c \in CloseIds : Told(n, c)
      BY <1>6, <2>1 DEF Visiting
    <3> QED BY <1>8, <2>1, <3>1
  <2> QED BY <1>3, <1>11, <2>1
<1>14. \A c \in CloseIds' : \E n \in DOMAIN visits' : Told(n, c)'
  <2>1. ASSUME NEW c \in CloseIds PROVE \E n \in DOMAIN visits' : Told(n, c)'
    <3>1. PICK n \in DOMAIN visits : Told(n, c)
      BY DEF Visiting
    <3> QED BY <1>3, <1>8, <1>9, <3>1
  <2> QED BY <1>2, <1>3, <1>11, <2>1
<1>15. \A n \in DOMAIN visits', c, e \in CloseIds' : Told(n, c)' /\ Told(n, e)' => c = e
  <2> SUFFICES ASSUME NEW n \in DOMAIN visits, NEW c \in CloseIds', NEW e \in CloseIds',
                      Told(n, c)', Told(n, e)'
               PROVE  c = e
    BY <1>3
  <2>1. CASE n = N
    BY <1>9, <2>1
  <2>2. CASE n # N
    BY <1>8, <1>10, <2>2 DEF Visiting
  <2> QED BY <2>1, <2>2
<1>16. Visiting'
  BY <1>3, <1>7, <1>12, <1>13, <1>14, <1>15 DEF Visiting
<1> QED BY <1>7, <1>16

\* The invariant of the gates.
GateInv == Visiting /\ AtItsGate /\ LeftWaiting

\* What an answered workflow task leaves of the wait.
LEMMA TaskLeaves ==
  ASSUME Types, Recorded, NEW d, Replies(d), Commanded(d), d.phase = "wait" => d.commands = <<>>
  PROVE  LeftWaiting'
<1> DEFINE L == Len(history)
<1>1. /\ L \in Nat /\ DOMAIN history = 1 .. L
      /\ Ids("Scheduled")' = Ids("Scheduled") \cup NewIds(d.commands, "Scheduled")
      /\ Ids("TimerStarted")' = Ids("TimerStarted") \cup NewIds(d.commands, "TimerStarted")
      /\ Ids("TaskCompleted")' = Ids("TaskCompleted") \cup {L + 1}
  BY TaskAdds
<1>2. \A type : Ids(type) \subseteq DOMAIN history
  BY DEF Ids
<1>3. flow'.phase = d.phase
  BY DEF Replies
<1> HIDE DEF L
<1>4. ASSUME d.commands = <<>>, NEW i \in (Ids("Scheduled") \cup Ids("TimerStarted") \cup Ids("TaskCompleted"))'
      PROVE  i <= L + 1
  <2>1. NewIds(d.commands, "Scheduled") = {} /\ NewIds(d.commands, "TimerStarted") = {}
    BY <1>4, None DEF NewIds
  <2>2. i \in 1 .. L \/ i = L + 1
    BY <1>1, <1>2, <1>4, <2>1
  <2> QED BY <1>1, <2>2
<1> QED BY <1>1, <1>3, <1>4 DEF LeftWaiting

\* The answer to a workflow task at a gate, and elsewhere.
LEMMA TaskAtGates ==
  ASSUME Types, Recorded, GateInv, sc' = sc, CompleteTask
  PROVE  GateInv'
<1>1. PICK d \in Decide : Replies(d) /\ Commanded(d)
  BY TaskReplies DEF Recorded
<1> DEFINE L == Len(history)
<1>2. /\ ~Closed /\ Plan' = Plan /\ flow'.step = d.step /\ flow'.phase = d.phase
      /\ Closed' <=> d.phase = "over"
  BY <1>1 DEF Replies, Closed, Plan
<1>3. /\ L \in Nat /\ DOMAIN history = 1 .. L
      /\ \A i \in DOMAIN history : i \in DOMAIN history' /\ history'[i] = history[i]
  BY <1>1, TaskAdds
<1>4. OpenIds \subseteq DOMAIN history /\ \A n \in DOMAIN visits : visits[n].open \in DOMAIN history
  <2>1. OpenIds \subseteq DOMAIN history
    BY DEF OpenIds, Ids
  <2> QED BY <2>1 DEF GateInv, Visiting
<1>5. /\ flow.phase \notin {"open", "parked"} => \A n \in DOMAIN visits : IsAnswered(n)
      /\ flow.phase \in {"open", "parked"} =>
           /\ Len(visits) > 0 /\ ~IsAnswered(Len(visits))
           /\ history[visits[Len(visits)].open].gate = Plan[flow.step].gate
  BY <1>2 DEF GateInv, AtItsGate
<1>6. Written /\ Placing
  BY DEF Recorded
\* Nothing of a gate is scheduled.
<1>7. ASSUME \A k \in DOMAIN d.commands : d.commands[k].type = "Scheduled" => d.commands[k].kind = "node",
             d.phase = "wait" => d.commands = <<>>,
             \/ d.phase = "over"
             \/ flow.phase \in {"open", "parked"} /\ d.phase \in {"open", "parked"} /\ d.step = flow.step
             \/ flow.phase \notin {"open", "parked"} /\ d.phase \notin {"open", "parked"}
      PROVE  GateInv'
  <2>1. Visiting' /\ visits' = visits
    BY <1>1, <1>7, NoGate DEF GateInv
  <2>2. LeftWaiting'
    BY <1>1, <1>7, TaskLeaves
  <2>3. /\ flow.phase \notin {"open", "parked"} => \A n \in DOMAIN visits' : IsAnswered(n)'
        /\ flow.phase \in {"open", "parked"} =>
             (LET n == Len(visits) IN
              n > 0 /\ ~IsAnswered(n) /\ history[visits[n].open].gate = Plan[flow.step].gate)'
             \/ d.step # flow.step
    <3>1. flow.phase \in {"open", "parked"} => Len(visits) \in DOMAIN visits
      BY <1>5 DEF GateInv, Visiting
    <3> QED BY <1>2, <1>3, <1>4, <1>5, <2>1, <3>1 DEF IsAnswered
  <2>4. AtItsGate'
    BY <1>2, <1>7, <2>3 DEF AtItsGate
  <2> QED BY <2>1, <2>2, <2>4 DEF GateInv
\* The code comes to a gate.
<1>8. ASSUME Entered(d), d.phase = "open", flow.phase \notin {"open", "parked"} PROVE GateInv'
  <2> DEFINE e == Schedule("open", Plan[d.step].gate, "none")
  <2>1. d.step \in DOMAIN Plan /\ d.commands = <<e>>
    BY <1>8, Zenon DEF Entered
  <2>2. e.type = "Scheduled" /\ e.kind = "open" /\ e.gate = Plan[d.step].gate
    BY DEF Schedule
  <2> HIDE DEF e
  <2>3. DOMAIN d.commands = {1} /\ d.commands[1] = e
    BY <2>1
  <2> DEFINE z == L + 1 + 1
  <2>4. /\ z \in DOMAIN history' /\ history'[z] = e
        /\ \A i \in DOMAIN history : i < z
        /\ OpenIds' = OpenIds \cup {z} /\ CloseIds' = CloseIds
        /\ visits' = Append(visits, [open |-> z, answer |-> "waiting"])
    BY <1>1, <2>2, <2>3, OneGate
  <2>5. z \in Nat
    BY <1>3
  <2> HIDE DEF z
  <2>6. PICK o : o = z
    OBVIOUS
  <2>7. /\ Visiting'
        /\ \E n \in DOMAIN visits' : n = Len(visits') /\ ~IsAnswered(n)' /\ visits'[n].open = o
    BY <1>3, <1>5, <1>8, <2>2, <2>4, <2>5, <2>6, GateOpens DEF GateInv
  <2>8. AtItsGate'
    <3>1. PICK n \in DOMAIN visits' : n = Len(visits') /\ ~IsAnswered(n)' /\ visits'[n].open = o
      BY <2>7
    <3>2. n > 0
      BY <2>7, <3>1 DEF Visiting
    <3>3. history'[visits'[n].open].gate = Plan'[flow'.step].gate
      BY <1>2, <2>2, <2>4, <2>6, <3>1
    <3> QED BY <1>2, <1>8, <3>1, <3>2, <3>3 DEF AtItsGate, IsAnswered
  <2>9. LeftWaiting'
    BY <1>1, <1>8, TaskLeaves
  <2> QED BY <2>7, <2>8, <2>9 DEF GateInv
\* The code leaves a gate.
<1>9. ASSUME Shuts(d), flow.phase \in {"open", "parked"} PROVE GateInv'
  <2> DEFINE e == Schedule("close", Plan[flow.step].gate, d.answer)
  <2>1. d.commands = <<e>> \/ d.commands = <<TimerCancel, e>>
    BY <1>9 DEF Shuts
  <2>2. /\ e.type = "Scheduled" /\ e.kind = "close" /\ e.gate = Plan[flow.step].gate
        /\ e.answer = d.answer /\ TimerCancel.type # "Scheduled"
    BY DEF Schedule, TimerCancel
  <2>3. d.phase = "close" /\ d.answer \in Answers
    BY <1>9 DEF Shuts
  <2> HIDE DEF e
  <2>4. PICK k \in DOMAIN d.commands :
          /\ d.commands[k] = e
          /\ \A i \in DOMAIN d.commands : d.commands[i].type = "Scheduled" <=> i = k
    <3>1. CASE d.commands = <<e>>
      <4>1. DOMAIN d.commands = {1} /\ d.commands[1] = e
        BY <3>1
      <4> QED BY <2>2, <4>1
    <3>2. CASE d.commands = <<TimerCancel, e>>
      <4>1. DOMAIN d.commands = {1, 2} /\ d.commands[1] = TimerCancel /\ d.commands[2] = e
        BY <3>2
      <4> QED BY <2>2, <4>1
    <3> QED BY <2>1, <3>1, <3>2
  <2> DEFINE z == L + 1 + k
  <2>5. /\ z \in DOMAIN history' /\ history'[z] = e
        /\ \A i \in DOMAIN history : i < z
        /\ OpenIds' = OpenIds /\ CloseIds' = CloseIds \cup {z}
        /\ AnswersVisit(e.answer)
    <3>1. /\ z \in DOMAIN history' /\ history'[z] = d.commands[k]
          /\ \A i \in DOMAIN history : i < z
          /\ d.commands[k].kind = "close" =>
               /\ OpenIds' = OpenIds /\ CloseIds' = CloseIds \cup {z}
               /\ AnswersVisit(d.commands[k].answer)
      BY <1>1, <2>4, OneGate
    <3> HIDE DEF z
    <3> QED BY <2>2, <2>4, <3>1
  <2>6. z \in Nat
    <3>1. DOMAIN d.commands \subseteq Nat
      BY <1>1 DEF Commanded
    <3> QED BY <1>3, <3>1
  <2> HIDE DEF z
  <2>7. PICK o : o = z
    OBVIOUS
  <2>8. Visiting' /\ \A n \in DOMAIN visits' : IsAnswered(n)'
    BY <1>3, <1>5, <1>9, <2>2, <2>3, <2>5, <2>6, <2>7, GateShuts DEF GateInv
  <2>9. AtItsGate'
    BY <1>2, <2>3, <2>8 DEF AtItsGate
  <2>10. LeftWaiting'
    BY <1>1, <2>3, TaskLeaves
  <2> QED BY <2>8, <2>9, <2>10 DEF GateInv
<1>10. CASE Entered(d) /\ flow.phase \in {"start", "wait", "call", "close"}
  <2>1. CASE d.phase = "over" /\ d.commands = <<Close("Completed")>>
    <3>1. DOMAIN d.commands = {1} /\ d.commands[1].type = "Closed"
      BY <2>1 DEF Close
    <3> QED BY <1>7, <2>1, <3>1
  <2>2. CASE d.phase = "call" /\ d.commands = [k \in 1 .. Plan[d.step].calls |-> Schedule("node", "", "none")]
    <3> DEFINE e == Schedule("node", "", "none")
    <3>1. e.kind = "node"
      BY DEF Schedule
    <3> HIDE DEF e
    <3>2. \A k \in DOMAIN d.commands : d.commands[k] = e
      BY <2>2 DEF e
    <3> QED BY <1>7, <1>10, <2>2, <3>1, <3>2
  <2>3. CASE d.phase = "open"
    BY <1>8, <1>10, <2>3
  <2>4. CASE d.phase = "wait" /\ d.commands = <<>>
    BY <1>7, <1>10, <2>4, None
  <2> QED BY <1>10, <2>1, <2>2, <2>3, <2>4, Zenon DEF Entered
<1>11. CASE flow.phase \in {"call", "open", "close"} /\ Stays(d)
  <2>1. d.commands = <<>> /\ d.phase = flow.phase /\ d.step = flow.step
    BY <1>11 DEF Stays
  <2> QED BY <1>7, <1>11, <2>1, None
<1>12. CASE Fails(d)
  <2>1. d.phase = "over" /\ DOMAIN d.commands = {1} /\ d.commands[1].type = "Closed"
    BY <1>12 DEF Fails, Close
  <2> QED BY <1>7, <2>1
<1>13. CASE flow.phase \in {"open", "parked"} /\ Parks(d)
  <2>1. d.phase = "parked" /\ d.step = flow.step /\ (d.commands = <<>> \/ d.commands = <<TimerStart>>)
    BY <1>13 DEF Parks
  <2>2. \A k \in DOMAIN d.commands : d.commands[k].type # "Scheduled"
    <3>1. CASE d.commands = <<>>
      BY <3>1
    <3>2. CASE d.commands = <<TimerStart>>
      <4>1. DOMAIN d.commands = {1} /\ d.commands[1].type = "TimerStarted"
        BY <3>2 DEF TimerStart
      <4> QED BY <4>1
    <3> QED BY <2>1, <3>1, <3>2
  <2> QED BY <1>7, <1>13, <2>1, <2>2
<1>14. CASE flow.phase \in {"open", "parked"} /\ Shuts(d)
  BY <1>9, <1>14
<1> QED BY <1>1, <1>2, <1>6, <1>10, <1>11, <1>12, <1>13, <1>14, DecideIs

\* Every step keeps the invariant of the gates.
LEMMA GatesStep ==
  ASSUME Types, Recorded, GateInv, [ChaosNext]_vars
  PROVE  GateInv'
<1>1. sc' = sc
  BY BoxMoves
<1>2. CASE CompleteTask
  BY <1>1, <1>2, TaskAtGates
<1>3. CASE ~CompleteTask
  <2>1. /\ visits' = visits /\ (flow' = flow \/ Closed') /\ Plan' = Plan
        /\ Ids("Scheduled")' = Ids("Scheduled") /\ Ids("TimerStarted")' = Ids("TimerStarted")
        /\ Ids("TaskCompleted")' = Ids("TaskCompleted")
    BY <1>1, <1>3, OthersSchedule DEF Plan
  <2>2. \A i \in DOMAIN history : i \in DOMAIN history' /\ history'[i] = history[i]
    BY HistoryKept
  <2>3. Ids("Scheduled") \subseteq DOMAIN history
    BY DEF Ids
  <2>4. OpenIds' = OpenIds /\ CloseIds' = CloseIds
    BY <2>1, <2>2, <2>3 DEF OpenIds, CloseIds
  <2>5. Visiting'
    BY <2>1, <2>2, <2>4, VisitsStay DEF GateInv
  <2>6. AtItsGate'
    <3>1. CASE flow' = flow
      <4>1. \A n \in DOMAIN visits : visits[n].open \in DOMAIN history
        BY <2>3 DEF GateInv, Visiting, OpenIds
      <4>2. Len(visits) > 0 => Len(visits) \in DOMAIN visits
        BY DEF GateInv, Visiting
      <4>3. Len(visits) > 0 => history'[visits[Len(visits)].open] = history[visits[Len(visits)].open]
        BY <2>2, <4>1, <4>2
      <4> QED BY <2>1, <3>1, <4>3 DEF GateInv, AtItsGate, Closed, IsAnswered
    <3>2. CASE Closed'
      BY <3>2 DEF AtItsGate
    <3> QED BY <2>1, <3>1, <3>2
  <2>7. LeftWaiting'
    BY <2>1 DEF GateInv, LeftWaiting, Closed
  <2> QED BY <2>5, <2>6, <2>7 DEF GateInv
<1> QED BY <1>2, <1>3

\* It holds at first.
LEMMA GatesInit == ChaosInit => GateInv
<1> SUFFICES ASSUME ChaosInit PROVE GateInv
  OBVIOUS
<1>1. history = <<>> /\ visits = <<>> /\ flow.phase = "start"
  BY DEF ChaosInit, Init
<1>2. OpenIds = {} /\ CloseIds = {} /\ DOMAIN visits = {} /\ visits \in Seq(Visit)
  BY <1>1 DEF OpenIds, CloseIds, Ids
<1> QED BY <1>1, <1>2 DEF GateInv, Visiting, AtItsGate, LeftWaiting

\* So it always holds.
LEMMA GatesInductive == ChaosSpec => [](Types /\ Recorded /\ Clocked /\ GateInv)
<1>1. Types /\ Recorded /\ Clocked /\ GateInv /\ [ChaosNext]_vars
        => (Types /\ Recorded /\ Clocked /\ GateInv)'
  BY TypesStep, RecordedStep, ClockedStep, GatesStep
<1>2. ChaosInit => Types /\ Recorded /\ Clocked /\ GateInv
  BY FleetInit, RecordedInit, GatesInit DEF FleetInv
<1> QED BY <1>1, <1>2, PTL DEF ChaosSpec

------------------------------------------------------------------------------
(* What the graph says of the gates *)

\* What an exact reading of the history gives.
LEMMA SharpIs ==
  ASSUME Recorded
  PROVE  /\ Sharp.events = history /\ Sharp.over = Closed /\ Sharp.pending = pending
         /\ Sharp.task = (task # "none")
         /\ Opens(Sharp) = OpenIds /\ Closes(Sharp) = CloseIds
         /\ Activities(Sharp) = {s \in Ids("Scheduled") : history[s].kind = "node"}
         /\ \A type : Of(Sharp, type) = Ids(type)
<1>1. history \in Seq(Event) /\ Len(history) \in Nat /\ DOMAIN history = 1 .. Len(history)
  BY DEF Recorded, Written
<1>2. SubSeq(history, 1, Len(history)) = history
  BY <1>1
<1>3. /\ Sharp.events = history /\ Sharp.over = Closed /\ Sharp.pending = pending
      /\ Sharp.task = (task # "none")
  BY <1>2 DEF Sharp, Reading
<1>4. \A type : Of(Sharp, type) = Ids(type)
  BY <1>3 DEF Of, Ids
<1> QED BY <1>3, <1>4 DEF Opens, Closes, Activities, OpenIds, CloseIds

\* The close activity that told what the visit at the open activity o came to.
Teller(o) == CHOOSE c \in CloseIds : \E n \in DOMAIN visits : visits[n].open = o /\ Told(n, c)

\* The visits told by the first n events.
ToldBy(n) ==
  {o \in OpenIds : \E m \in DOMAIN visits, c \in CloseIds : visits[m].open = o /\ c <= n /\ Told(m, c)}

\* The close of every open that is told.
Tellers(n) == [o \in ToldBy(n) |-> Teller(o)]

\* The close of a visit is the one that tells of it.
LEMMA TellerIs ==
  ASSUME Visiting, NEW n \in DOMAIN visits, NEW c \in CloseIds, Told(n, c)
  PROVE  Teller(visits[n].open) = c
<1>1. \A m \in DOMAIN visits : visits[m].open = visits[n].open => m = n
  <2> SUFFICES ASSUME NEW m \in DOMAIN visits, visits[m].open = visits[n].open, m # n PROVE FALSE
    OBVIOUS
  <2>1. m < n \/ n < m
    BY DEF Visiting
  <2>2. visits[m].open < visits[n].open \/ visits[n].open < visits[m].open
    BY <2>1 DEF Visiting
  <2>3. visits[n].open \in Nat
    <3>1. visits[n] \in Visit
      BY InSequence DEF Visiting
    <3> QED BY <3>1 DEF Visit
  <2> QED BY <2>2, <2>3
<1>2. \A d \in CloseIds :
        (\E m \in DOMAIN visits : visits[m].open = visits[n].open /\ Told(m, d)) => d = c
  BY <1>1 DEF Visiting
<1> QED BY <1>2 DEF Teller

\* An event that closes no gate tells of no visit.
LEMMA TellsNothing ==
  ASSUME Recorded, Visiting, NEW n \in Nat \ {0}, n \notin CloseIds
  PROVE  Tellers(n) = Tellers(n - 1)
<1>1. \A c \in CloseIds : c \in Nat /\ (c <= n <=> c <= n - 1)
  BY DEF CloseIds, Ids, Recorded, Written
<1>2. ToldBy(n) = ToldBy(n - 1)
  BY <1>1 DEF ToldBy
<1> QED BY <1>2 DEF Tellers

\* An event that closes a gate tells of the oldest visit of that gate not told
\* yet, which is the only one before it.
LEMMA TellsOldest ==
  ASSUME Recorded, Visiting, NEW n \in CloseIds
  PROVE  Tellers(n) = Takes(Sharp, Tellers(n - 1), n)
<1>1. PICK m \in DOMAIN visits : IsAnswered(m) /\ Told(m, n)
  BY DEF Visiting
<1> DEFINE o == visits[m].open
           free == {p \in Opens(Sharp) \ DOMAIN Tellers(n - 1) :
                      Sharp.events[p].gate = Sharp.events[n].gate /\ p < n}
<1>2. n \in Nat /\ n > 0 /\ (\A c \in CloseIds : c \in Nat) /\ (\A p \in OpenIds : p \in Nat)
  BY DEF CloseIds, OpenIds, Ids, Recorded, Written
<1>3. o \in OpenIds /\ history[n].gate = history[o].gate /\ o < n
  BY <1>1 DEF Visiting, Told
<1>4. \A k \in DOMAIN visits : visits[k].open = o => k = m
  <2> SUFFICES ASSUME NEW k \in DOMAIN visits, visits[k].open = o, k # m PROVE FALSE
    OBVIOUS
  <2>1. k < m \/ m < k
    BY DEF Visiting
  <2>2. visits[k].open < o \/ o < visits[k].open
    BY <2>1 DEF Visiting
  <2> QED BY <1>2, <1>3, <2>2
<1>5. \A k \in DOMAIN visits, c \in CloseIds : Told(k, c) /\ Told(k, n) => c = n
  BY DEF Visiting
<1> HIDE DEF o
<1>6. o \notin ToldBy(n - 1)
  <2> SUFFICES ASSUME NEW k \in DOMAIN visits, NEW c \in CloseIds, visits[k].open = o, c <= n - 1,
                      Told(k, c)
               PROVE  FALSE
    BY DEF ToldBy
  <2>1. c = n
    BY <1>1, <1>4, <1>5
  <2> QED BY <1>2, <2>1
<1>7. ASSUME NEW p \in OpenIds, p \notin ToldBy(n - 1), p < n PROVE p = o
  <2>1. PICK k \in DOMAIN visits : visits[k].open = p
    BY DEF Visiting
  <2>2. CASE m < k
    <3>1. n < p
      BY <1>1, <2>1, <2>2 DEF Told
    <3> QED BY <1>2, <1>7, <3>1
  <2>3. CASE k < m
    <3>1. IsAnswered(k)
      <4>1. k # Len(visits)
        BY <2>3 DEF Visiting
      <4> QED BY <4>1 DEF Visiting
    <3>2. PICK c \in CloseIds : Told(k, c)
      BY <3>1 DEF Visiting
    <3>3. c < o
      BY <2>3, <3>2 DEF Told, o
    <3>4. c <= n - 1
      BY <1>2, <1>3, <3>3
    <3> QED BY <1>7, <2>1, <3>2, <3>4 DEF ToldBy
  <2>4. CASE k = m
    BY <2>1, <2>4 DEF o
  <2>5. k \in Int /\ m \in Int
    BY DEF Visiting
  <2> QED BY <2>2, <2>3, <2>4, <2>5
<1>8. DOMAIN Tellers(n - 1) = ToldBy(n - 1)
  BY DEF Tellers
<1>9. free = {o}
  <2>1. free = {p \in OpenIds \ ToldBy(n - 1) : history[p].gate = history[n].gate /\ p < n}
    BY <1>8, SharpIs
  <2> HIDE DEF free
  <2> QED BY <1>3, <1>6, <1>7, <2>1
<1> HIDE DEF free
<1>10. Min(free) = o
  BY <1>2, <1>3, <1>9 DEF Min
<1>11. Takes(Sharp, Tellers(n - 1), n) = And(Tellers(n - 1), o, n)
  BY <1>9, <1>10 DEF Takes, free
<1>12. ToldBy(n) = ToldBy(n - 1) \cup {o}
  <2>1. ASSUME NEW p \in ToldBy(n) PROVE p \in ToldBy(n - 1) \cup {o}
    <3>1. PICK k \in DOMAIN visits, c \in CloseIds :
            p \in OpenIds /\ visits[k].open = p /\ c <= n /\ Told(k, c)
      BY <2>1 DEF ToldBy
    <3>2. CASE c = n
      <4>1. p < n
        BY <3>1, <3>2 DEF Told
      <4> QED BY <1>7, <3>1, <4>1
    <3>3. CASE c # n
      <4>1. c \in Nat /\ n \in Nat /\ c <= n
        BY <1>2, <3>1
      <4>2. c <= n - 1
        BY <3>3, <4>1
      <4> QED BY <3>1, <4>2 DEF ToldBy
    <3> QED BY <3>2, <3>3
  <2>2. \A c \in CloseIds : c <= n - 1 => c <= n
    BY <1>2
  <2>3. ToldBy(n - 1) \subseteq ToldBy(n)
    BY <2>2 DEF ToldBy
  <2>4. n <= n
    BY <1>2
  <2>5. o \in ToldBy(n)
    BY <1>1, <1>3, <2>4 DEF ToldBy, o
  <2> QED BY <2>1, <2>3, <2>5
<1>13. Teller(o) = n
  BY <1>1, TellerIs DEF o
<1> DEFINE F == Tellers(n - 1)
<1>14. DOMAIN F = ToldBy(n - 1) /\ \A p \in ToldBy(n - 1) : F[p] = Teller(p)
  BY DEF Tellers
<1> HIDE DEF F
<1>15. And(F, o, n) = [p \in ToldBy(n - 1) \cup {o} |-> Teller(p)]
  BY <1>13, <1>14 DEF And
<1> QED BY <1>11, <1>12, <1>15 DEF F, Tellers

\* The matching of opens and closes, in the order of the history, gives each
\* visit the close activity that told what it came to.
LEMMA CloseOfIs ==
  ASSUME Recorded, Visiting
  PROVE  CloseOf(Sharp) = Tellers(Len(history))
<1> DEFINE L == Len(history)
           F(f) == [n \in 0 .. L |->
                      IF n = 0 THEN [o \in {} |-> 0]
                      ELSE IF n \in CloseIds THEN Takes(Sharp, f[n - 1], n) ELSE f[n - 1]]
           g == [n \in 0 .. L |-> Tellers(n)]
           taken[n \in 0 .. L] ==
             IF n = 0 THEN [o \in {} |-> 0]
             ELSE IF n \in CloseIds THEN Takes(Sharp, taken[n - 1], n) ELSE taken[n - 1]
<1>1. L \in Nat
  BY DEF Recorded, Written
<1>2. CloseOf(Sharp) = taken[L]
  <2>1. Sharp.events = history /\ Closes(Sharp) = CloseIds
    BY SharpIs
  <2> QED BY <2>1 DEF CloseOf
<1>3. taken = CHOOSE f : f = F(f)
  OBVIOUS
<1> HIDE DEF L
<1>4. Tellers(0) = [o \in {} |-> 0]
  <2>1. \A c \in CloseIds : c \in Nat /\ ~(c <= 0)
    BY DEF CloseIds, Ids, Recorded, Written
  <2>2. ToldBy(0) = {}
    BY <2>1 DEF ToldBy
  <2> QED BY <2>2 DEF Tellers
<1>5. ASSUME NEW n \in 1 .. L
      PROVE  Tellers(n) = IF n \in CloseIds THEN Takes(Sharp, Tellers(n - 1), n) ELSE Tellers(n - 1)
  BY <1>1, TellsNothing, TellsOldest
<1>6. g = F(g)
  <2>1. ASSUME NEW n \in 0 .. L
        PROVE  Tellers(n) = IF n = 0 THEN [o \in {} |-> 0]
                            ELSE IF n \in CloseIds THEN Takes(Sharp, g[n - 1], n) ELSE g[n - 1]
    <3>1. CASE n = 0
      BY <1>4, <3>1
    <3>2. CASE n # 0
      <4>1. n \in 1 .. L /\ n - 1 \in 0 .. L
        BY <1>1, <3>2
      <4>2. g[n - 1] = Tellers(n - 1)
        BY <4>1
      <4> HIDE DEF g
      <4> QED BY <1>5, <3>2, <4>1, <4>2
    <3> QED BY <3>1, <3>2
  <2> QED BY <2>1
<1>7. taken = F(taken)
  <2> HIDE DEF g, F, taken
  <2> QED BY <1>3, <1>6
<1> DEFINE wrong == {n \in 0 .. L : taken[n] # Tellers(n)}
<1>8. wrong = {}
  <2> SUFFICES ASSUME wrong # {} PROVE FALSE
    OBVIOUS
  <2>1. wrong \in SUBSET Nat
    BY <1>1
  <2>2. PICK n \in wrong : \A k \in wrong : n <= k
    <3> HIDE DEF wrong
    <3> QED BY <2>1, Least
  <2>3. n \in 0 .. L /\ taken[n] # Tellers(n)
    OBVIOUS
  <2> HIDE DEF taken
  <2>4. taken[n] = IF n = 0 THEN [o \in {} |-> 0]
                   ELSE IF n \in CloseIds THEN Takes(Sharp, taken[n - 1], n) ELSE taken[n - 1]
    BY <1>7, <2>3
  <2>5. CASE n = 0
    BY <1>4, <2>3, <2>4, <2>5
  <2>6. CASE n # 0
    <3>1. n \in 1 .. L /\ n - 1 \in 0 .. L /\ ~(n <= n - 1)
      BY <1>1, <2>3, <2>6
    <3>2. taken[n - 1] = Tellers(n - 1)
      BY <2>2, <3>1
    <3> QED BY <1>5, <2>3, <2>4, <2>6, <3>1, <3>2
  <2> QED BY <2>5, <2>6
<1>9. taken[L] = Tellers(L)
  <2>1. L \in 0 .. L
    BY <1>1
  <2> HIDE DEF taken
  <2> QED BY <1>8, <2>1
<1> QED BY <1>2, <1>9 DEF L

\* The API pairs the open of a gate with the close of its visit.
LEMMA VisitIsTold ==
  ASSUME Recorded, Visiting, NEW n \in DOMAIN visits
  PROVE  LET close == CloseOf(Sharp)
             o == visits[n].open
         IN /\ o \in DOMAIN close <=> IsAnswered(n)
            /\ IsAnswered(n) => close[o] \in CloseIds /\ Told(n, close[o])
<1> DEFINE o == visits[n].open
           L == Len(history)
<1>1. /\ CloseOf(Sharp) = Tellers(L)
      /\ DOMAIN Tellers(L) = ToldBy(L) /\ \A p \in ToldBy(L) : Tellers(L)[p] = Teller(p)
  BY CloseOfIs DEF Tellers
<1>2. /\ \A c \in CloseIds : c \in Nat /\ c <= L
      /\ o \in OpenIds /\ o \in Nat
  BY DEF CloseIds, OpenIds, Ids, Recorded, Written, Visiting
<1>3. CASE IsAnswered(n)
  <2>1. PICK c \in CloseIds : Told(n, c)
    BY <1>3 DEF Visiting
  <2>2. o \in ToldBy(L) /\ Teller(o) = c
    BY <1>2, <2>1, TellerIs DEF ToldBy
  <2> QED BY <1>1, <1>3, <2>1, <2>2
<1>4. CASE ~IsAnswered(n)
  <2>1. n = Len(visits) /\ \A c \in CloseIds : c < o
    BY <1>4 DEF Visiting
  <2>2. \A m \in DOMAIN visits : visits[m].open = o => m = n
    <3> SUFFICES ASSUME NEW m \in DOMAIN visits, m # n PROVE visits[m].open < o
      BY <1>2
    <3>1. m < n
      BY <2>1 DEF Visiting
    <3> QED BY <3>1 DEF Visiting
  <2>3. \A c \in CloseIds : ~Told(n, c)
    BY <1>2, <2>1 DEF Told
  <2>4. o \notin ToldBy(L)
    BY <2>2, <2>3 DEF ToldBy
  <2> QED BY <1>1, <1>4, <2>4
<1> QED BY <1>3, <1>4

\* So every gate tells what its visit says.
LEMMA GatesAreTold ==
  ASSUME Recorded, Visiting
  PROVE  GateTellsVisit
<1>1. Opens(Sharp) = {visits[n].open : n \in DOMAIN visits}
  BY SharpIs DEF Visiting
<1>2. ASSUME NEW n \in DOMAIN visits
      PROVE  LET v == GateVertex(Sharp, visits[n].open) IN
             IF visits[n].answer = "waiting"
               THEN v.state = IF Closed THEN "canceled" ELSE "waiting"
               ELSE v.state = "completed" /\ v.answer = visits[n].answer
  <2> DEFINE o == visits[n].open
             close == CloseOf(Sharp)
             v == GateVertex(Sharp, o)
  <2>1. /\ v.state = IF o \in DOMAIN close THEN "completed"
                     ELSE IF Sharp.over THEN "canceled" ELSE "waiting"
        /\ v.answer = IF o \in DOMAIN close THEN Sharp.events[close[o]].answer ELSE "none"
    BY DEF GateVertex
  <2>2. /\ o \in DOMAIN close <=> IsAnswered(n)
        /\ IsAnswered(n) => history[close[o]].answer = visits[n].answer
    BY VisitIsTold DEF Told
  <2> HIDE DEF v, close
  <2>3. Sharp.over = Closed /\ Sharp.events = history
    BY SharpIs
  <2> QED BY <2>1, <2>2, <2>3 DEF IsAnswered, v
<1> QED BY <1>1, <1>2 DEF GateTellsVisit

\* Each time the workflow came to a gate has a vertex of its own that says what
\* that visit was answered, however often the gate was visited; the one that
\* still waits is drawn waiting (_gate_vertices, Workflow.approval).
THEOREM GateTellsVisitAlways == ChaosSpec => []GateTellsVisit
<1>1. Types /\ Recorded /\ Clocked /\ GateInv => GateTellsVisit
  BY GatesAreTold DEF GateInv
<1> QED BY <1>1, GatesInductive, PTL

\* Only a gate is shown as waiting.
LEMMA ActivitiesDoNotWait ==
  ASSUME Recorded, NEW s
  PROVE  ActivityState(Sharp, s) # "waiting"
<1> DEFINE ended == About(Sharp, "Ended", s)
           i == CHOOSE i \in ended : TRUE
<1>1. ASSUME ended # {} PROVE ActivityState(Sharp, s) \in Outcomes
  <2>1. ActivityState(Sharp, s) = Sharp.events[i].outcome /\ i \in ended
    BY <1>1 DEF ActivityState
  <2> HIDE DEF i
  <2>2. i \in Ids("Ended") /\ ActivityState(Sharp, s) = history[i].outcome
    BY <2>1, SharpIs DEF About
  <2> QED BY <2>2, InSequence, EventIs DEF Recorded, Written, Ids
<1>2. ASSUME ended = {} PROVE ActivityState(Sharp, s) \in {"running", "retrying", "queued"}
  BY <1>2 DEF ActivityState
<1> QED BY <1>1, <1>2 DEF Outcomes

\* The wait is drawn when the run is parked on a bare signal, and only then.
LEMMA WaitIsDrawn ==
  ASSUME Types, Recorded, GateInv
  PROVE  ShowsWait(Sharp) <=> /\ flow.phase = "wait" /\ task = "none"
                              /\ Drawn(Sharp) # {}
<1>1. /\ Sharp.over = Closed /\ Sharp.pending = pending /\ Sharp.task = (task # "none")
      /\ Opens(Sharp) = OpenIds /\ \A type : Of(Sharp, type) = Ids(type)
  BY SharpIs
<1>2. /\ OpenIds = {visits[n].open : n \in DOMAIN visits}
      /\ \A n \in DOMAIN visits :
           LET v == GateVertex(Sharp, visits[n].open) IN
           IF visits[n].answer = "waiting"
             THEN v.state = IF Closed THEN "canceled" ELSE "waiting"
             ELSE v.state = "completed" /\ v.answer = visits[n].answer
  BY <1>1, GatesAreTold DEF GateTellsVisit, GateInv
<1>3. flow.phase \in Phases
  BY DEF Recorded, Written, Flow
<1>4. ASSUME ShowsWait(Sharp) PROVE flow.phase = "wait" /\ task = "none" /\ Drawn(Sharp) # {}
  <2>1. /\ ~Closed /\ task = "none" /\ DOMAIN pending = {} /\ Drawn(Sharp) # {}
        /\ \A v \in Drawn(Sharp) : v.state # "waiting"
    BY <1>1, <1>4 DEF ShowsWait
  <2>2. flow.phase \in {"parked", "wait"}
    BY <1>3, <2>1 DEF Recorded, Busy, Phases, Closed
  <2>3. ASSUME flow.phase = "parked" PROVE FALSE
    <3>1. PICK n \in DOMAIN visits : ~IsAnswered(n)
      <4>1. Len(visits) > 0 /\ ~IsAnswered(Len(visits))
        BY <2>1, <2>3 DEF GateInv, AtItsGate
      <4>2. Len(visits) \in DOMAIN visits
        BY <4>1 DEF GateInv, Visiting
      <4> QED BY <4>1, <4>2
    <3> DEFINE v == GateVertex(Sharp, visits[n].open)
    <3>2. v.state = "waiting"
      BY <1>2, <2>1, <3>1 DEF IsAnswered
    <3>3. v \in Drawn(Sharp)
      BY <1>1, <1>2 DEF Drawn
    <3> QED BY <2>1, <3>2, <3>3
  <2> QED BY <2>1, <2>2, <2>3
<1>5. ASSUME flow.phase = "wait", task = "none", Drawn(Sharp) # {} PROVE ShowsWait(Sharp)
  <2>1. ~Closed /\ DOMAIN pending = {}
    BY <1>5 DEF Closed, Recorded, Awaiting
  <2>2. \A n \in DOMAIN visits : visits[n].answer # "waiting"
    BY <1>5, <2>1 DEF GateInv, AtItsGate, IsAnswered
  <2>3. ASSUME NEW v \in Drawn(Sharp) PROVE v.state # "waiting"
    <3>1. CASE \E s \in Activities(Sharp) : v = ActivityVertex(Sharp, s)
      <4>1. PICK s \in Activities(Sharp) : v = ActivityVertex(Sharp, s)
        BY <3>1
      <4>2. v.state = ActivityState(Sharp, s)
        BY <4>1 DEF ActivityVertex
      <4> QED BY <4>2, ActivitiesDoNotWait
    <3>2. CASE \E n \in DOMAIN visits : v = GateVertex(Sharp, visits[n].open)
      <4>1. PICK n \in DOMAIN visits : v = GateVertex(Sharp, visits[n].open)
        BY <3>2
      <4>2. GateVertex(Sharp, visits[n].open).state = "completed"
        BY <1>2, <2>2
      <4> QED BY <4>1, <4>2
    <3> QED BY <1>1, <1>2, <2>3, <3>1, <3>2 DEF Drawn
  <2>4. LooksParked(Sharp)
    BY <1>1, <1>5 DEF LooksParked, GateInv, LeftWaiting
  <2> QED BY <1>1, <1>5, <2>1, <2>3, <2>4 DEF ShowsWait
<1> QED BY <1>4, <1>5

\* Whatever happens while a run is being read, and even if the last call of the
\* reading fails, a vertex drawn running or retrying is so at its end, one
\* drawn queued does not run unless that call failed, and the durable wait is
\* drawn exactly when the run is parked on a bare signal (_activity_state,
\* _wait_vertex, _read_execution).
THEOREM GraphIsTrueAlways == ChaosSpec => []GraphIsTrue
<1>1. Types /\ Recorded /\ Clocked /\ GateInv => GraphIsTrue
  <2> SUFFICES ASSUME Types, Recorded, GateInv PROVE GraphIsTrue
    OBVIOUS
  <2>1. ASSUME NEW n \in 0 .. Len(history), NEW described \in BOOLEAN, Whole(n)
        PROVE  LET read == Reading(n, FALSE, described) IN
               /\ \A s \in Activities(read) :
                    LET state == ActivityState(read, s) IN
                    CASE state = "running" -> Now(s) = "started"
                      [] state = "retrying" -> Now(s) = "scheduled"
                      [] state = "queued" -> described => Now(s) # "started"
                      [] OTHER -> Now(s) = "over"
               /\ Closed \/ flow.phase \in {"wait", "parked"} \/ ~(described /\ ShowsWait(read))
    <3>1. \A s \in Activities(Reading(n, FALSE, described)) :
            LET state == ActivityState(Reading(n, FALSE, described), s) IN
            CASE state = "running" -> Now(s) = "started"
              [] state = "retrying" -> Now(s) = "scheduled"
              [] state = "queued" -> described => Now(s) # "started"
              [] OTHER -> Now(s) = "over"
      BY <2>1, StatesAreTrue
    <3>2. described /\ ShowsWait(Reading(n, FALSE, described))
            => Closed \/ flow.phase \in {"wait", "parked"}
      <4>1. described => described = TRUE
        OBVIOUS
      <4> QED BY <2>1, <4>1, WaitIsTrue
    <3> QED BY <3>1, <3>2
  <2>2. ShowsWait(Sharp) <=> /\ flow.phase = "wait" /\ task = "none"
                             /\ Drawn(Sharp) # {}
    BY WaitIsDrawn
  <2> QED BY <2>1, <2>2 DEF GraphIsTrue
<1> QED BY <1>1, GatesInductive, PTL

------------------------------------------------------------------------------
(* The clock a pending activity waits on *)

\* What limits the time of an activity comes from the deadline of its run, and
\* an attempt that is due later than now is due before its activity expires.
Limits ==
  /\ \A s \in Ids("Scheduled") : Limited(history[s])
  /\ \A s \in DOMAIN pending : Allows(s, pending[s].next)

\* Every step keeps what limits the activities.
LEMMA LimitsStep ==
  ASSUME Types, Recorded, Limits, [ChaosNext]_vars
  PROVE  Limits'
<1>1. /\ sc' = sc
      /\ \A i \in DOMAIN history : i \in DOMAIN history' /\ history'[i] = history[i]
      /\ DOMAIN pending \subseteq DOMAIN history /\ Ids("Scheduled") \subseteq DOMAIN history
  BY HistoryKept, BoxMoves DEF Recorded, Accounted, Ids
<1>2. \A s \in Ids("Scheduled")' : s \in Ids("Scheduled") \/ Limited(history[s])'
  <2>1. CASE ~CompleteTask
    BY <2>1, OthersSchedule
  <2>2. CASE CompleteTask
    <3>1. PICK d \in Decide : Replies(d) /\ Commanded(d)
      BY <2>2, TaskReplies DEF Recorded
    <3> DEFINE ids == NewIds(d.commands, "Scheduled")
    <3>2. /\ Ids("Scheduled")' = Ids("Scheduled") \cup ids
          /\ \A k \in DOMAIN d.commands : history'[Len(history) + 1 + k] = d.commands[k]
      BY <3>1, TaskAdds
    <3>3. ASSUME NEW s \in ids PROVE Limited(history[s])'
      <4>1. PICK k \in DOMAIN d.commands : s = Len(history) + 1 + k
        BY DEF NewIds
      <4>2. history'[s] = d.commands[k] /\ Limited(d.commands[k])
        BY <3>1, <3>2, <4>1 DEF Commanded
      <4> QED BY <1>1, <4>2 DEF Limited
    <3> QED BY <3>2, <3>3
  <2> QED BY <2>1, <2>2
<1>3. \A s \in Ids("Scheduled")' : Limited(history[s])'
  BY <1>1, <1>2 DEF Limits, Limited
\* An activity that is pending before and after, and due when it was.
<1>4. ASSUME NEW s \in DOMAIN pending, s \in DOMAIN pending', pending'[s].next = pending[s].next
      PROVE  Allows(s, pending[s].next)'
  BY <1>1, <1>4 DEF Limits, Allows, Expiry
<1>5. CASE UNCHANGED pending
  BY <1>3, <1>4, <1>5 DEF Limits
<1>6. ASSUME NEW t \in DOMAIN pending, NEW c \in Boxes, StartAttempt(t, c) PROVE Limits'
  <2>1. DOMAIN pending' = DOMAIN pending /\ \A s \in DOMAIN pending : pending'[s].next = pending[s].next
    BY <1>6, Placed
  <2> QED BY <1>3, <1>4, <2>1 DEF Limits
<1>7. ASSUME NEW t \in DOMAIN pending, Heartbeat(t) PROVE Limits'
  <2>1. DOMAIN pending' = DOMAIN pending /\ \A s \in DOMAIN pending : pending'[s].next = pending[s].next
    BY <1>7, Beaten
  <2> QED BY <1>3, <1>4, <2>1 DEF Limits
<1>8. ASSUME NEW t \in DOMAIN pending, Retried(t) PROVE Limits'
  <2>1. /\ DOMAIN pending' = DOMAIN pending
        /\ \A s \in DOMAIN pending : s # t => pending'[s].next = pending[s].next
        /\ pending'[t].next = now + sc.backoff /\ Allows(t, now + sc.backoff)
    BY <1>8, RetriedIs DEF Retried
  <2>2. Allows(t, pending[t].next)'
    BY <1>1, <2>1 DEF Allows, Expiry
  <2> QED BY <1>3, <1>4, <2>1, <2>2 DEF Limits
<1>9. ASSUME NEW t \in DOMAIN pending, NEW outcome, EndsAs(t, outcome) PROVE Limits'
  <2>1. /\ DOMAIN pending' \subseteq DOMAIN pending
        /\ \A s \in DOMAIN pending' : pending'[s] = pending[s]
    BY <1>9, EndsAsIs
  <2> QED BY <1>3, <1>4, <2>1 DEF Limits
<1>10. ASSUME CompleteTask PROVE Limits'
  <2>1. PICK d \in Decide : Replies(d) /\ Commanded(d)
    BY <1>10, TaskReplies DEF Recorded
  <2> DEFINE ids == NewIds(d.commands, "Scheduled")
  <2>2. \A s \in DOMAIN pending' :
          /\ s \in DOMAIN pending \cup ids
          /\ pending'[s] = IF s \in ids THEN NewPending(s) ELSE pending[s]
    BY <2>1 DEF Replies
  <2>3. ASSUME NEW s \in DOMAIN pending', s \in ids PROVE Allows(s, pending[s].next)'
    <3>1. PICK k \in DOMAIN d.commands : s = Len(history) + 1 + k /\ d.commands[k].type = "Scheduled"
      BY <2>3 DEF NewIds
    <3>2. history'[s] = d.commands[k] /\ d.commands[k].at = now /\ d.commands[k] \in Event
      <4>1. d.commands \in Seq(Event) /\ d.commands[k].at = now
        BY <2>1, <3>1 DEF Commanded
      <4>2. d.commands[k] \in Event
        BY <3>1, <4>1, InSequence
      <4>3. history'[s] = d.commands[k]
        BY <1>1, <2>1, <3>1, TaskAdds
      <4> QED BY <4>1, <4>2, <4>3
    <3>3. d.commands[k].within \in Nat
      BY <3>1, <3>2, EventIs
    <3>4. pending'[s].next = now
      BY <2>2, <2>3 DEF NewPending
    <3>5. now <= now + d.commands[k].within
      BY <3>3, TaskIs
    <3> QED BY <3>2, <3>4, <3>5 DEF Allows, Expiry
  <2> HIDE DEF ids
  <2>4. ASSUME NEW s \in DOMAIN pending', s \notin ids PROVE Allows(s, pending[s].next)'
    BY <1>4, <2>2, <2>4
  <2> QED BY <1>3, <2>3, <2>4 DEF Limits
<1>11. ASSUME Terminate PROVE Limits'
  <2>1. DOMAIN pending' = {}
    BY <1>11 DEF Terminate, NoPending
  <2> QED BY <1>3, <2>1 DEF Limits
<1>12. CASE OfRun
  <2>1. ASSUME NEW s \in DOMAIN pending, Retried(s) \/ \E outcome \in Outcomes : EndsAs(s, outcome)
        PROVE  Limits'
    BY <1>8, <1>9, <2>1
  <2> QED BY <1>5, <1>6, <1>7, <1>10, <1>11, <1>12, <2>1, PendingMoves
<1> QED BY <1>5, <1>12, OthersLeavePending

\* The activities of a run are always limited by its deadline.
LEMMA LimitsAlways == ChaosSpec => [](Types /\ Recorded /\ Clocked /\ Limits)
<1>1. Types /\ Recorded /\ Limits /\ [ChaosNext]_vars => Limits'
  BY LimitsStep
<1>2. ChaosInit => Limits
  BY None DEF ChaosInit, Init, Limits, Ids, NoPending
<1> QED BY <1>1, <1>2, RunInductive, PTL DEF ChaosSpec

\* The window of an attempt that runs ends when the server gives it up.
LEMMA WindowIsDeadline ==
  ASSUME Types, Recorded, NEW s \in DOMAIN pending, pending[s].state = "started"
  PROVE  /\ Window(s) = [kind |-> "detecting", deadline |-> Deadline(s)]
         /\ Deadline(s) \in Nat
<1> DEFINE p == pending[s]
           a == p.since + history[s].budget
           b == p.beat + sc.heartbeat
           beats == history[s].kind = "node" /\ sc.heartbeat > 0
           clocks == {a} \cup (IF beats THEN {b} ELSE {})
<1>1. a \in Nat /\ b \in Nat
  <2>1. p \in Waiting /\ sc.heartbeat \in Nat
    BY ScenarioFacts DEF Types
  <2>2. p.since \in Nat /\ p.beat \in Nat
    BY <2>1 DEF Waiting
  <2>3. history[s].budget \in Nat
    <3>1. history[s] \in Event /\ history[s].type = "Scheduled"
      BY InSequence DEF Recorded, Accounted, Ids, Written
    <3> QED BY <3>1, EventIs
  <2> QED BY <2>1, <2>2, <2>3
<1>2. Window(s) = [kind |-> "detecting", deadline |-> Min(clocks)]
  BY DEF Window
<1>3. Deadline(s) = IF beats /\ b < a THEN b ELSE a
  BY DEF Deadline
<1> HIDE DEF a, b, beats
<1>4. Deadline(s) \in clocks /\ \A y \in clocks : Deadline(s) <= y
  BY <1>1, <1>3
<1>5. \A x \in clocks : (\A y \in clocks : x <= y) => x = Deadline(s)
  BY <1>1, <1>4
<1>6. Min(clocks) = Deadline(s)
  BY <1>4, <1>5 DEF Min
<1> QED BY <1>1, <1>2, <1>3, <1>6 DEF a, b

\* The attempt of a dead holder is given up only at its deadline, or at the
\* deadline of the run; an attempt starts only when it is due, and until then
\* its activity does not expire.
GivenUp(s) ==
  /\ pending[s].state = "started" /\ ~Alive(pending[s].holder) =>
       /\ s \in DOMAIN pending' /\ pending'[s].state = "scheduled" => now >= Deadline(s)
       /\ s \notin DOMAIN pending' =>
            now >= Deadline(s) \/ (sc.deadline > 0 /\ now >= sc.deadline)
  /\ pending[s].state = "scheduled" /\ pending[s].next > now =>
       s \in DOMAIN pending' /\ pending'[s].state # "started"

LEMMA GivenUpInTime ==
  ASSUME Types, Recorded, Limits, [ChaosNext]_vars, NEW s \in DOMAIN pending, ~Closed'
  PROVE  GivenUp(s)
<1>1. pending[s].state \in {"scheduled", "started"} /\ pending[s].next \in Nat /\ now \in Nat
  BY DEF Types, Waiting
<1>2. CASE UNCHANGED pending
  BY <1>1, <1>2 DEF GivenUp
<1>3. ASSUME NEW t \in DOMAIN pending, NEW c \in Boxes, StartAttempt(t, c) PROVE GivenUp(s)
  <2>1. pending[t].next <= now /\ pending[t].state = "scheduled"
    BY <1>3 DEF StartAttempt
  <2>2. DOMAIN pending' = DOMAIN pending /\ \A u \in DOMAIN pending : u # t => pending'[u] = pending[u]
    BY <1>3, Placed
  <2> QED BY <1>1, <2>1, <2>2 DEF GivenUp
<1>4. ASSUME NEW t \in DOMAIN pending, Heartbeat(t) PROVE GivenUp(s)
  <2>1. DOMAIN pending' = DOMAIN pending /\ \A u \in DOMAIN pending : pending'[u].state = pending[u].state
    BY <1>4, Beaten
  <2> QED BY <1>1, <2>1 DEF GivenUp
<1>5. ASSUME NEW t \in DOMAIN pending, pending[t].state = "started",
             Alive(pending[t].holder) \/ now >= Deadline(t),
             Retried(t) \/ \E outcome \in Outcomes : EndsAs(t, outcome)
      PROVE  GivenUp(s)
  <2>1. /\ DOMAIN pending \ {t} \subseteq DOMAIN pending'
        /\ \A u \in DOMAIN pending \ {t} : pending'[u] = pending[u]
    <3>1. CASE Retried(t)
      BY <3>1, RetriedIs
    <3>2. CASE \E outcome \in Outcomes : EndsAs(t, outcome)
      BY <3>2, EndsAsIs
    <3> QED BY <1>5, <3>1, <3>2
  <2> QED BY <1>1, <1>5, <2>1 DEF GivenUp
\* The activity expires: it was due by then, and the run is out of time.
<1>6. ASSUME NEW t \in DOMAIN pending, history[t].within > 0, now >= Expiry(t),
             \E outcome \in Outcomes : EndsAs(t, outcome)
      PROVE  GivenUp(s)
  <2>1. DOMAIN pending' = DOMAIN pending \ {t} /\ \A u \in DOMAIN pending' : pending'[u] = pending[u]
    BY <1>6, EndsAsIs
  <2>2. CASE s # t
    BY <1>1, <2>1, <2>2 DEF GivenUp
  <2>3. CASE s = t
    <3>1. history[t] \in Event /\ history[t].type = "Scheduled" /\ Limited(history[t])
      BY InSequence DEF Recorded, Accounted, Ids, Written, Limits
    <3>2. history[t].at \in Nat /\ history[t].within \in Nat /\ Expiry(t) = history[t].at + history[t].within
      BY <3>1, EventIs DEF Expiry
    <3>3. sc.deadline > 0 /\ sc.deadline <= Expiry(t) /\ sc.deadline \in Nat
      BY <1>6, <3>1, <3>2, ScenarioFacts DEF Limited, Types
    <3>4. pending[t].next <= Expiry(t)
      BY <1>6, <3>2 DEF Limits, Allows
    <3>5. now >= sc.deadline /\ ~(pending[s].next > now)
      BY <1>1, <1>6, <2>3, <3>2, <3>3, <3>4
    <3>6. s \notin DOMAIN pending'
      BY <2>1, <2>3
    <3> QED BY <3>3, <3>5, <3>6 DEF GivenUp
  <2> QED BY <2>2, <2>3
<1>7. ASSUME CompleteTask PROVE GivenUp(s)
  <2>1. PICK d \in Decide : Replies(d) /\ Commanded(d)
    BY <1>7, TaskReplies DEF Recorded
  <2>2. d.phase # "over"
    BY <2>1 DEF Replies, Closed
  <2>3. s \notin NewIds(d.commands, "Scheduled")
    <3>1. s \in DOMAIN history
      BY DEF Recorded, Accounted, Ids
    <3> QED BY <2>1, <3>1, TaskAdds
  <2>4. s \in DOMAIN pending' /\ pending'[s] = pending[s]
    BY <2>1, <2>2, <2>3 DEF Replies
  <2> QED BY <1>1, <2>4 DEF GivenUp
<1>8. ASSUME Terminate PROVE FALSE
  BY <1>8 DEF Terminate, Closed, Recorded, Written, Flow
<1>9. CASE OfRun
  BY <1>2, <1>3, <1>4, <1>5, <1>6, <1>7, <1>8, <1>9, PendingMoves
<1> QED BY <1>2, <1>9, OthersLeavePending

\* The clock the report shows is the one the run waits on: the work of a dead
\* holder is not handed on before its window says so, and given up earlier only
\* past the deadline of the run; a retry that is held back starts no earlier,
\* and its call does not expire until then (_activity_window, resolve_policy).
THEOREM WindowIsTheClockAlways == ChaosSpec => WindowIsTheClock
<1>1. ASSUME Types, Recorded, Limits, [ChaosNext]_vars
      PROVE  [\A s \in DOMAIN pending :
                LET w == Window(s)
                    over == s \notin DOMAIN pending'
                    lost == w.kind = "detecting" /\ ~Alive(pending[s].holder)
                IN ~Closed' =>
                     /\ lost /\ ~over /\ pending'[s].state = "scheduled" => now >= w.deadline
                     /\ lost /\ over /\ now < w.deadline => sc.deadline > 0 /\ now >= sc.deadline
                     /\ w.kind = "backoff" => ~over /\ pending'[s].state # "started"]_world
  <2> SUFFICES ASSUME NEW s \in DOMAIN pending, ~Closed'
               PROVE  LET w == Window(s)
                          over == s \notin DOMAIN pending'
                          lost == w.kind = "detecting" /\ ~Alive(pending[s].holder)
                      IN /\ lost /\ ~over /\ pending'[s].state = "scheduled" => now >= w.deadline
                         /\ lost /\ over /\ now < w.deadline
                              => sc.deadline > 0 /\ now >= sc.deadline
                         /\ w.kind = "backoff" => ~over /\ pending'[s].state # "started"
    OBVIOUS
  <2>1. pending[s].state \in {"scheduled", "started"} /\ pending[s].next \in Nat /\ now \in Nat
    BY <1>1 DEF Types, Waiting
  <2>2. GivenUp(s)
    BY <1>1, GivenUpInTime
  <2>3. CASE pending[s].state = "started"
    <3>1. Window(s) = [kind |-> "detecting", deadline |-> Deadline(s)] /\ Deadline(s) \in Nat
      BY <1>1, <2>3, WindowIsDeadline
    <3> QED BY <2>1, <2>2, <2>3, <3>1 DEF GivenUp
  <2>4. CASE pending[s].state = "scheduled" /\ pending[s].next > now
    <3>1. Window(s) = [kind |-> "backoff", deadline |-> pending[s].next]
      BY <2>4 DEF Window
    <3> QED BY <2>2, <2>4, <3>1 DEF GivenUp
  <2>5. CASE pending[s].state = "scheduled" /\ ~(pending[s].next > now)
    <3>1. Window(s) = [kind |-> "queued", deadline |-> NoTime]
      BY <2>5 DEF Window
    <3> QED BY <3>1
  <2> QED BY <2>1, <2>3, <2>4, <2>5
<1> QED BY <1>1, LimitsAlways, PTL DEF ChaosSpec, WindowIsTheClock

------------------------------------------------------------------------------
(* The attempts of the recovery report *)

\* The attempts that a set of spans stands for.
LostIn(S) == FoldSet(LAMBDA x, n : n + x.lost, 1, S)

\* One step of the fold that LostIn is.
LostBy(S, f) ==
  [T \in SUBSET S |-> IF T = {} THEN 1
                      ELSE LET x == CHOOSE x \in T : TRUE IN f[T \ {x}] + x.lost]

\* The fold over a finite set is a recursive function on its subsets: the one
\* the community module defines.
LEMMA LostIs ==
  ASSUME NEW S, NEW g, g = LostBy(S, g)
  PROVE  \E f : f = LostBy(S, f) /\ LostIn(S) = f[S]
<1> DEFINE iter[T \in SUBSET S] ==
             IF T = {} THEN 1 ELSE LET x == CHOOSE x \in T : TRUE IN iter[T \ {x}] + x.lost
<1>1. LostIn(S) = iter[S]
  BY DEF LostIn, FoldSet, MapThenFoldSet
<1>2. iter = CHOOSE f : f = LostBy(S, f)
  BY DEF LostBy
<1> HIDE DEF iter
<1>3. iter = LostBy(S, iter)
  BY <1>2
<1> QED BY <1>1, <1>3

\* One span stands for itself and the attempts lost in it.
LEMMA LostInOne ==
  ASSUME NEW a, a.lost \in Nat PROVE LostIn({a}) = 1 + a.lost
<1> DEFINE g == [T \in SUBSET {a} |-> IF T = {} THEN 1 ELSE 1 + a.lost]
<1>1. \A T \in SUBSET {a} : T # {} => T = {a} /\ (CHOOSE x \in T : TRUE) = a /\ T \ {a} = {}
  <2>1. ASSUME NEW T \in SUBSET {a}, T # {} PROVE T = {a}
    BY <2>1
  <2>2. (CHOOSE x \in {a} : TRUE) = a
    OBVIOUS
  <2> QED BY <2>1, <2>2
<1>2. g = LostBy({a}, g)
  <2>1. g[{}] = 1
    OBVIOUS
  <2>2. ASSUME NEW T \in SUBSET {a}
        PROVE  (IF T = {} THEN 1 ELSE 1 + a.lost)
                 = IF T = {} THEN 1
                   ELSE LET x == CHOOSE x \in T : TRUE IN g[T \ {x}] + x.lost
    <3> HIDE DEF g
    <3> QED BY <1>1, <2>1
  <2> QED BY <2>2 DEF LostBy
<1> HIDE DEF g
<1>3. PICK f : f = LostBy({a}, f) /\ LostIn({a}) = f[{a}]
  BY <1>2, LostIs
<1>4. f[{}] = 1
  BY <1>3 DEF LostBy
<1>5. f[{a}] = f[{}] + a.lost
  <2>1. f[{a}] = LET x == CHOOSE x \in {a} : TRUE IN f[{a} \ {x}] + x.lost
    BY <1>3 DEF LostBy
  <2>2. (CHOOSE x \in {a} : TRUE) = a /\ {a} \ {a} = {}
    BY <1>1
  <2> QED BY <2>1, <2>2
<1> QED BY <1>3, <1>4, <1>5

\* Two spans stand for themselves and the attempts lost in them.
LEMMA LostInTwo ==
  ASSUME NEW a, NEW b, a # b, a.lost \in Nat, b.lost \in Nat
  PROVE  LostIn({a, b}) = 1 + a.lost + b.lost
<1> DEFINE S == {a, b}
           g == [T \in SUBSET S |-> 1 + (IF a \in T THEN a.lost ELSE 0)
                                      + (IF b \in T THEN b.lost ELSE 0)]
<1>1. ASSUME NEW T \in SUBSET S, T # {}
      PROVE  LET x == CHOOSE x \in T : TRUE IN x \in T /\ (x = a \/ x = b) /\ T \ {x} \in SUBSET S
  BY <1>1
<1>2. g = LostBy(S, g)
  <2>1. ASSUME NEW T \in SUBSET S
        PROVE  g[T] = IF T = {} THEN 1
                      ELSE LET x == CHOOSE x \in T : TRUE IN g[T \ {x}] + x.lost
    <3>1. \A U \in SUBSET S : g[U] = 1 + (IF a \in U THEN a.lost ELSE 0)
                                       + (IF b \in U THEN b.lost ELSE 0)
      OBVIOUS
    <3>2. CASE T = {}
      BY <3>1, <3>2
    <3>3. CASE T # {}
      <4> DEFINE x == CHOOSE x \in T : TRUE
      <4>1. x \in T /\ (x = a \/ x = b) /\ T \ {x} \in SUBSET S
        BY <1>1, <3>3
      <4> HIDE DEF x, g
      <4>2. g[T] = g[T \ {x}] + x.lost
        <5>1. /\ g[T] = 1 + (IF a \in T THEN a.lost ELSE 0) + (IF b \in T THEN b.lost ELSE 0)
              /\ g[T \ {x}] = 1 + (IF a \in T \ {x} THEN a.lost ELSE 0)
                                + (IF b \in T \ {x} THEN b.lost ELSE 0)
          BY <3>1, <4>1
        <5>2. CASE x = a
          BY <4>1, <5>1, <5>2
        <5>3. CASE x = b
          BY <4>1, <5>1, <5>3
        <5> QED BY <4>1, <5>2, <5>3
      <4> QED BY <3>3, <4>2 DEF x
    <3> QED BY <3>2, <3>3
  <2>2. g = [T \in SUBSET S |-> g[T]]
    OBVIOUS
  <2> HIDE DEF g
  <2> QED BY <2>1, <2>2 DEF LostBy
<1> HIDE DEF g
<1>3. PICK f : f = LostBy(S, f) /\ LostIn(S) = f[S]
  BY <1>2, LostIs
<1>4. ASSUME NEW T \in SUBSET S
      PROVE  f[T] = IF T = {} THEN 1
                    ELSE LET x == CHOOSE x \in T : TRUE IN f[T \ {x}] + x.lost
  BY <1>3 DEF LostBy
<1>5. f[{}] = 1
  BY <1>4
<1>6. f[{a}] = 1 + a.lost /\ f[{b}] = 1 + b.lost
  <2>1. ASSUME NEW c \in S PROVE f[{c}] = 1 + c.lost
    <3>1. {c} \in SUBSET S /\ {c} # {} /\ (CHOOSE x \in {c} : TRUE) = c /\ {c} \ {c} = {}
      OBVIOUS
    <3> QED BY <1>4, <1>5, <3>1
  <2> QED BY <2>1
<1>7. f[S] = 1 + a.lost + b.lost
  <2>1. PICK x \in S : f[S] = f[S \ {x}] + x.lost
    BY <1>1, <1>4
  <2>2. CASE x = a
    <3>1. S \ {a} = {b}
      OBVIOUS
    <3> QED BY <1>6, <2>1, <2>2, <3>1
  <2>3. CASE x = b
    <3>1. S \ {b} = {a}
      OBVIOUS
    <3> QED BY <1>6, <2>1, <2>3, <3>1
  <2> QED BY <2>2, <2>3
<1> QED BY <1>3, <1>7

\* Spans that account for so many attempts from that time on.
Fit(spans, attempt, since, running) ==
  /\ \E x \in spans : x.attempt = attempt /\ x.lost = 0 /\ x.outcome # "queued"
  /\ \A x, y \in spans : x = y \/ x.to = y.from \/ y.to = x.from
  /\ \E x \in spans : x.from = since
  /\ LostIn(spans) = attempt
  /\ (\E x \in spans : x.to = NoTime) <=> running

\* What is shown before an attempt and the attempt's own span fit together.
LEMMA SpansFit ==
  ASSUME NEW s, NEW outcome, outcome \notin {"queued", "lost"}, NEW attempt \in Nat \ {0},
         NEW since \in Nat, NEW from \in Nat, since <= from, NEW to \in Nat \cup {NoTime}
  PROVE  Fit(Before(s, attempt, since, from) \cup {Span(s, outcome, attempt, 0, from, to)},
             attempt, since, to = NoTime)
<1> DEFINE v == Span(s, outcome, attempt, 0, from, to)
           before == Before(s, attempt, since, from)
           spans == before \cup {v}
<1>1. v.attempt = attempt /\ v.lost = 0 /\ v.outcome = outcome /\ v.from = from /\ v.to = to
  BY DEF Span
<1>2. since # NoTime /\ from # NoTime
  BY DEF NoTime
<1>3. ASSUME NEW w, w.from = since, w.to = from, w.lost = attempt - 1, w.outcome # outcome,
             before = {w}
      PROVE  Fit(spans, attempt, since, to = NoTime)
  <2> HIDE DEF v, before
  <2>1. spans = {w, v} /\ w # v
    BY <1>1, <1>3
  <2>2. LostIn({w, v}) = 1 + w.lost + v.lost
    <3>1. w.lost \in Nat /\ v.lost \in Nat
      BY <1>1, <1>3
    <3> QED BY <2>1, <3>1, LostInTwo
  <2>3. LostIn(spans) = attempt
    BY <1>1, <1>3, <2>1, <2>2
  <2> QED BY <1>1, <1>2, <1>3, <2>1, <2>3 DEF Fit
<1>4. CASE attempt > 1
  <2> DEFINE w == Span(s, "lost", attempt - 1, attempt - 1, since, from)
  <2>1. before = {w}
    BY <1>4 DEF Before
  <2>2. w.from = since /\ w.to = from /\ w.lost = attempt - 1 /\ w.outcome # outcome
    BY DEF Span
  <2> HIDE DEF w
  <2> QED BY <1>1, <1>3, <2>1, <2>2
<1>5. CASE ~(attempt > 1) /\ from > since
  <2> DEFINE w == Span(s, "queued", 1, 0, since, from)
  <2>1. before = {w}
    BY <1>5 DEF Before
  <2>2. w.from = since /\ w.to = from /\ w.lost = attempt - 1 /\ w.outcome # outcome
    BY <1>5 DEF Span
  <2> HIDE DEF w
  <2> QED BY <1>1, <1>3, <2>1, <2>2
<1>6. CASE ~(attempt > 1) /\ ~(from > since)
  <2>1. before = {} /\ since = from /\ attempt = 1
    BY <1>6 DEF Before
  <2>2. spans = {v}
    BY <2>1
  <2>3. Fit(spans, attempt, since, to = NoTime)
    <3> HIDE DEF v, spans
    <3>1. LostIn({v}) = 1 + v.lost
      BY <1>1, LostInOne
    <3>2. LostIn(spans) = attempt
      BY <1>1, <2>1, <2>2, <3>1
    <3> QED BY <1>1, <1>2, <2>1, <2>2, <3>2 DEF Fit
  <2> QED BY <2>3
<1> QED BY <1>4, <1>5, <1>6

\* An attempt starts after its activity was scheduled, and the events are in the
\* order of time, but for the starts of attempts, which are written late.
Timely ==
  /\ \A i \in Ids("Started") : history[history[i].of].at <= history[i].at
  /\ \A i, j \in DOMAIN history :
       i <= j /\ history[j].type # "Started" => history[i].at <= history[j].at

\* Every step keeps Timely.
LEMMA TimelyStep ==
  ASSUME Types, Recorded, Clocked, Timely, Recorded', [ChaosNext]_vars
  PROVE  Timely'
<1>1. Written /\ (\A i \in DOMAIN history : i \in DOMAIN history' /\ history'[i] = history[i])
      /\ Ids("Started") \subseteq DOMAIN history
  BY HistoryKept DEF Recorded, Ids
<1>2. \A i \in Ids("Started") : history[i].of \in DOMAIN history
  BY DEF Recorded, Paired, EndedOnce, Ids
<1>3. DOMAIN history = 1 .. Len(history) /\ DOMAIN history' = 1 .. Len(history')
      /\ Len(history) \in Nat /\ Len(history') \in Nat
  BY DEF Recorded, Written
\* What is new is written now, or is the start of an attempt.
<1>4. ASSUME now' = now,
             \A j \in DOMAIN history' :
               j \in DOMAIN history \/ history'[j].at = now \/ history'[j].type = "Started",
             \A i \in Ids("Started")' :
               i \in Ids("Started")
               \/ /\ history'[i].of \in DOMAIN history
                  /\ history[history'[i].of].at <= history'[i].at
      PROVE  Timely'
  <2>1. ASSUME NEW i \in Ids("Started")' PROVE history'[history'[i].of].at <= history'[i].at
    <3>1. CASE i \in Ids("Started")
      <4>1. history'[i] = history[i] /\ history'[history[i].of] = history[history[i].of]
        BY <1>1, <1>2, <3>1
      <4> QED BY <3>1, <4>1 DEF Timely
    <3>2. CASE i \notin Ids("Started")
      BY <1>1, <1>4, <3>2
    <3> QED BY <3>1, <3>2
  <2>2. ASSUME NEW i \in DOMAIN history', NEW j \in DOMAIN history', i <= j,
               history'[j].type # "Started"
        PROVE  history'[i].at <= history'[j].at
    <3>1. CASE j \in DOMAIN history
      <4>1. i \in DOMAIN history
        BY <1>3, <2>2, <3>1
      <4> QED BY <1>1, <2>2, <3>1, <4>1 DEF Timely
    <3>2. CASE history'[j].at = now
      BY <1>4, <3>2 DEF Recorded, Written
    <3> QED BY <1>4, <2>2, <3>1, <3>2
  <2> QED BY <2>1, <2>2 DEF Timely
<1>5. CASE WritesNothing
  BY <1>5 DEF WritesNothing, Timely, Ids
<1>6. ASSUME NEW e \in Event, Noted(e) PROVE Timely'
  <2>1. /\ Ids("Started")' = Ids("Started")
        /\ \A j \in DOMAIN history' : j \in DOMAIN history \/ history'[j] = e
    <3>1. e.type # "Started" /\ history' = Append(history, e)
      BY <1>6 DEF Noted
    <3>2. /\ DOMAIN history' = 1 .. Len(history) + 1 /\ history'[Len(history) + 1] = e
          /\ Ids("Started")' = Ids("Started")
      BY <1>1, <3>1, Appends DEF Written
    <3> QED BY <1>3, <3>2
  <2>2. now' = now /\ e.at = now
    BY <1>6 DEF Noted
  <2> QED BY <1>4, <2>1, <2>2
<1>7. ASSUME NEW s \in DOMAIN pending, NEW outcome \in Outcomes, Over(s, outcome) PROVE Timely'
  <2>1. PICK a : a = Len(history) + 1
    OBVIOUS
  <2> DEFINE two == Len(history') = Len(history) + 2
  <2>2. /\ Len(history') \in {Len(history) + 1, Len(history) + 2}
        /\ DOMAIN history' = 1 .. Len(history')
        /\ Ids("Started")' = Ids("Started") \cup (IF two THEN {a} ELSE {})
        /\ two => history'[a].at = pending[s].since /\ history'[a].of = s
        /\ history'[Len(history')].at = now
    BY <1>7, <2>1, OverWrites
  <2>3. \A j \in DOMAIN history' : j \in DOMAIN history \/ (two /\ j = a) \/ j = Len(history')
    <3>1. \A m, l \in Nat : l \in {m + 1, m + 2} =>
            \A j \in 1 .. l : j \in 1 .. m \/ (l = m + 2 /\ j = m + 1) \/ j = l
      OBVIOUS
    <3>2. Len(history) \in Nat /\ DOMAIN history = 1 .. Len(history) /\ Len(history') \in Nat
      BY <1>3, <2>2 DEF Recorded, Written
    <3> QED BY <2>1, <2>2, <3>1, <3>2
  <2> HIDE DEF two
  <2>4. two => history'[a].type = "Started"
    BY <2>2 DEF Ids
  <2>5. s \in DOMAIN history /\ history[s].at <= pending[s].since
    BY DEF Recorded, Accounted, Ids, Clocked
  <2>6. now' = now
    BY <1>7 DEF Over
  <2> QED BY <1>4, <2>2, <2>3, <2>4, <2>5, <2>6
<1>8. CASE CompleteTask
  <2>1. PICK d \in Decide : Replies(d) /\ Commanded(d)
    BY <1>8, TaskReplies DEF Recorded
  <2>2. now' = now
    BY <2>1 DEF Replies
  <2>3. /\ Ids("Started")' = Ids("Started")
        /\ \A j \in DOMAIN history' : j \in DOMAIN history \/ history'[j].at = now
    BY <2>1, TaskAdds
  <2> QED BY <1>4, <2>2, <2>3
<1>9. CASE Terminate
  <2>1. "Terminated" \in Statuses
    BY DEF Statuses
  <2> DEFINE e == Close("Terminated")
  <2>2. e \in Event /\ e.type = "Closed" /\ e.at = now
    BY <2>1, CloseIs
  <2>3. history' = Append(history, e) /\ now' = now
    BY <1>9 DEF Terminate
  <2> HIDE DEF e
  <2>4. /\ DOMAIN history' = 1 .. Len(history) + 1 /\ history'[Len(history) + 1] = e
        /\ Ids("Started")' = Ids("Started")
    BY <1>1, <2>2, <2>3, Appends DEF Written
  <2>5. \A j \in DOMAIN history' : j \in DOMAIN history \/ history'[j] = e
    BY <1>3, <2>4
  <2> QED BY <1>4, <2>2, <2>3, <2>4, <2>5
<1> QED BY <1>1, <1>5, <1>6, <1>7, <1>8, <1>9, Writes

\* It holds at first.
LEMMA TimelyInit == ChaosInit => Timely
  BY None DEF ChaosInit, Init, Timely, Ids

\* The inductive invariant of a run always holds.
LEMMA RunInvariant == ChaosSpec => [](Types /\ Recorded /\ Clocked /\ GateInv /\ Timely)
<1>1. Types /\ Recorded /\ Clocked /\ GateInv /\ Timely /\ [ChaosNext]_vars
        => (Types /\ Recorded /\ Clocked /\ GateInv /\ Timely)'
  <2> SUFFICES ASSUME Types, Recorded, Clocked, GateInv, Timely, [ChaosNext]_vars
               PROVE  (Types /\ Recorded /\ Clocked /\ GateInv /\ Timely)'
    OBVIOUS
  <2>1. Types' /\ Recorded' /\ Clocked' /\ GateInv'
    BY TypesStep, RecordedStep, ClockedStep, GatesStep
  <2> QED BY <2>1, TimelyStep
<1>2. ChaosInit => Types /\ Recorded /\ Clocked /\ GateInv /\ Timely
  BY FleetInit, RecordedInit, GatesInit, TimelyInit DEF FleetInv
<1> QED BY <1>1, <1>2, PTL DEF ChaosSpec

\* The spans of an activity that ended, and of one whose attempt runs.
LEMMA EndedSpans ==
  ASSUME Recorded, NEW s, NEW i \in Ids("Started"), history[i].of = s
  PROVE  /\ \A j \in Ids("Started") : history[j].of = s => j = i
         /\ i + 1 \in Ids("Ended") /\ s \notin DOMAIN pending
         /\ Spans(Sharp, s) =
              Before(s, history[i].attempt, history[s].at, history[i].at)
              \cup {Span(s, history[i + 1].outcome, history[i].attempt, 0, history[i].at,
                         history[i + 1].at)}
<1>1. /\ i + 1 \in Ids("Ended") /\ history[i + 1].of = s
      /\ \A j \in Ids("Ended") : history[j].of = s => j = i + 1
  BY DEF Recorded, Paired, EndedOnce
<1>2. ASSUME NEW j \in Ids("Started"), history[j].of = s PROVE j = i
  <2>1. j + 1 \in Ids("Ended") /\ history[j + 1].of = s
    BY <1>2 DEF Recorded, Paired
  <2>2. j + 1 = i + 1
    BY <1>1, <2>1
  <2>3. i \in Int /\ j \in Int
    BY DEF Ids, Recorded, Written
  <2> QED BY <2>2, <2>3
<1>3. s \notin DOMAIN pending
  BY <1>1 DEF Recorded, EndedOnce
<1>4. Sharp.events = history /\ Sharp.pending = pending
  BY SharpIs
<1> DEFINE ended == About(Sharp, "Ended", s)
           started == About(Sharp, "Started", s)
<1>5. ended = {i + 1} /\ started = {i}
  <2>1. ended = {j \in Ids("Ended") : history[j].of = s}
    BY <1>4, SharpIs DEF About
  <2>2. started = {j \in Ids("Started") : history[j].of = s}
    BY <1>4, SharpIs DEF About
  <2> QED BY <1>1, <1>2, <2>1, <2>2
<1>6. (CHOOSE j \in ended : TRUE) = i + 1 /\ (CHOOSE j \in started : TRUE) = i
  <2>1. (CHOOSE j \in {i + 1} : TRUE) = i + 1 /\ (CHOOSE j \in {i} : TRUE) = i
    OBVIOUS
  <2> HIDE DEF ended, started
  <2> QED BY <1>5, <2>1
<1> HIDE DEF ended, started
<1>7. At(Sharp, ended, NoTime) = history[i + 1].at
  BY <1>4, <1>5, <1>6 DEF At
<1>8. started # {} /\ ended # {}
  BY <1>5
<1>9. Spans(Sharp, s) =
        Before(s, history[CHOOSE j \in started : TRUE].attempt, history[s].at,
               history[CHOOSE j \in started : TRUE].at)
        \cup {Span(s, history[CHOOSE j \in ended : TRUE].outcome,
                   history[CHOOSE j \in started : TRUE].attempt, 0,
                   history[CHOOSE j \in started : TRUE].at, At(Sharp, ended, NoTime))}
  BY <1>4, <1>8 DEF Spans, ended, started
<1> QED BY <1>1, <1>2, <1>3, <1>6, <1>7, <1>9

\* What is shown of an activity that runs: what it lost, and the attempt that
\* runs.
LEMMA RunningSpans ==
  ASSUME Recorded, NEW s \in DOMAIN pending, pending[s].state = "started"
  PROVE  /\ \A i \in Ids("Started") : history[i].of # s
         /\ Spans(Sharp, s) =
              Before(s, pending[s].attempt, history[s].at, pending[s].since)
              \cup {Span(s, "running", pending[s].attempt, 0, pending[s].since, NoTime)}
<1>1. \A i \in Ids("Started") : history[i].of # s
  BY EndedSpans
<1>2. \A i \in Ids("Ended") : history[i].of # s
  BY DEF Recorded, EndedOnce
<1>3. Sharp.events = history /\ Sharp.pending = pending
  BY SharpIs
<1>4. About(Sharp, "Started", s) = {} /\ About(Sharp, "Ended", s) = {}
  BY <1>1, <1>2, <1>3, SharpIs DEF About
<1>5. Spans(Sharp, s) =
        Before(s, pending[s].attempt, history[s].at, pending[s].since)
        \cup {Span(s, "running", pending[s].attempt, 0, pending[s].since, NoTime)}
  BY <1>3, <1>4 DEF Spans
<1> QED BY <1>1, <1>5

\* The recovery report accounts for every attempt of an activity: the lost ones
\* and the last one follow each other without a gap from the time it was
\* scheduled, their number is the server's, and only an activity that is not
\* over has a span without an end (_spans).
THEOREM AttemptsAccountedAlways == ChaosSpec => []AttemptsAccounted
<1>1. Types /\ Recorded /\ Clocked /\ GateInv /\ Timely => AttemptsAccounted
  <2> SUFFICES ASSUME Types, Recorded, Clocked, Timely, NEW s \in Ids("Scheduled")
               PROVE  LET spans == Spans(Sharp, s)
                          starts == {i \in Ids("Started") : history[i].of = s}
                          attempt == IF starts # {} THEN history[CHOOSE i \in starts : TRUE].attempt
                                     ELSE pending[s].attempt
                      IN starts # {} \/ Now(s) = "started" =>
                           Fit(spans, attempt, history[s].at, Now(s) = "started")
    BY DEF AttemptsAccounted, LostIn, Fit
  <2> DEFINE spans == Spans(Sharp, s)
             starts == {i \in Ids("Started") : history[i].of = s}
  <2>1. s \in DOMAIN history /\ history[s].at \in Nat
    BY InSequence, EventIs DEF Ids, Recorded, Written
  <2>2. CASE starts # {}
    <3>1. PICK i \in starts : i = CHOOSE k \in starts : TRUE
      BY <2>2
    <3>2. /\ i \in Ids("Started") /\ history[i].of = s
          /\ i + 1 \in Ids("Ended") /\ s \notin DOMAIN pending
          /\ spans = Before(s, history[i].attempt, history[s].at, history[i].at)
                     \cup {Span(s, history[i + 1].outcome, history[i].attempt, 0, history[i].at,
                                history[i + 1].at)}
      BY EndedSpans
    <3>3. /\ history[i].attempt \in Nat \ {0} /\ history[i].at \in Nat
          /\ history[i + 1].outcome \in Outcomes /\ history[i + 1].at \in Nat
      BY <3>2, InSequence, EventIs DEF Ids, Recorded, Written
    <3>4. history[s].at <= history[i].at
      BY <3>2 DEF Timely
    <3>5. history[i + 1].outcome \notin {"queued", "lost"} /\ history[i + 1].at # NoTime
      BY <3>3 DEF Outcomes, NoTime
    <3>6. Now(s) = "over"
      BY <3>2 DEF Now
    <3>7. Fit(spans, history[i].attempt, history[s].at, history[i + 1].at = NoTime)
      <4>1. history[i + 1].at \in Nat \cup {NoTime}
        BY <3>3
      <4>2. Fit(Before(s, history[i].attempt, history[s].at, history[i].at)
                \cup {Span(s, history[i + 1].outcome, history[i].attempt, 0, history[i].at,
                           history[i + 1].at)},
                history[i].attempt, history[s].at, history[i + 1].at = NoTime)
        BY <2>1, <3>3, <3>4, <3>5, <4>1, SpansFit, Zenon
      <4> QED BY <3>2, <4>2
    <3> HIDE DEF spans, starts
    <3>8. Fit(spans, history[i].attempt, history[s].at, Now(s) = "started")
      BY <3>5, <3>6, <3>7
    <3> QED BY <2>2, <3>1, <3>8 DEF spans, starts
  <2>3. CASE starts = {} /\ Now(s) = "started"
    <3>1. s \in DOMAIN pending /\ pending[s].state = "started"
      BY <2>3 DEF Now
    <3>2. spans = Before(s, pending[s].attempt, history[s].at, pending[s].since)
                  \cup {Span(s, "running", pending[s].attempt, 0, pending[s].since, NoTime)}
      BY <3>1, RunningSpans
    <3>3. pending[s].attempt \in Nat \ {0} /\ pending[s].since \in Nat
      BY <3>1 DEF Types, Waiting
    <3>4. history[s].at <= pending[s].since
      BY <3>1 DEF Clocked
    <3>5. "running" \notin {"queued", "lost"}
      OBVIOUS
    <3>6. Fit(spans, pending[s].attempt, history[s].at, NoTime = NoTime)
      <4>1. NoTime \in Nat \cup {NoTime}
        OBVIOUS
      <4>2. Fit(Before(s, pending[s].attempt, history[s].at, pending[s].since)
                \cup {Span(s, "running", pending[s].attempt, 0, pending[s].since, NoTime)},
                pending[s].attempt, history[s].at, NoTime = NoTime)
        BY <2>1, <3>3, <3>4, <3>5, <4>1, SpansFit, Zenon
      <4> QED BY <3>2, <4>2
    <3> HIDE DEF spans, starts
    <3>7. Fit(spans, pending[s].attempt, history[s].at, Now(s) = "started")
      BY <2>3, <3>6
    <3> QED BY <2>3, <3>7 DEF spans, starts
  <2> QED BY <2>2, <2>3
<1> QED BY <1>1, RunInvariant, PTL

------------------------------------------------------------------------------
(* The verdict of an experiment *)

\* The run was completed, and its history says so.
Finished == \E i \in Ids("Closed") : history[i].status = "Completed"

\* What a command says of the decision it belongs to.
Tells(d, c) ==
  /\ c.type = "TimerStarted" => Parks(d) /\ Plan[flow.step].expires
  /\ c.type = "Scheduled" => c.decided = Len(history) + 1 /\ (c.kind # "close" => Entered(d))
  /\ c.type = "Scheduled" => /\ c.kind = "node" => d.phase = "call"
                             /\ c.kind = "open" => d.phase = "open"
                             /\ c.kind = "close" => d.phase = "close"
  /\ c.type = "Closed" /\ c.status = "Completed" => Entered(d) /\ d.phase = "over"

LEMMA CommandsTell ==
  ASSUME Types, Recorded, ~Closed, task = "started", NEW d \in Decide
  PROVE  \A k \in DOMAIN d.commands : Tells(d, d.commands[k])
<1>2. Written /\ Placing /\ {"Completed", "Failed"} \subseteq Statuses /\ "" \in Texts /\ "none" \in Answers
  <2>1. "" \in Texts
    BY Zenon DEF Texts
  <2> QED BY <2>1 DEF Recorded, Statuses, Answers
<1>3. CASE Stays(d)
  BY <1>3, None DEF Stays
<1>4. CASE Fails(d)
  <2> DEFINE e == Close("Failed")
  <2>1. e \in Event /\ e.type = "Closed" /\ e.status = "Failed"
    BY <1>2, CloseIs
  <2>2. d.commands = <<e>>
    BY <1>4 DEF Fails
  <2> HIDE DEF e
  <2>3. Tells(d, e)
    BY <2>1 DEF Tells
  <2> QED BY <2>1, <2>2, <2>3, One
<1>5. CASE Parks(d)
  <2>1. CASE d.commands = <<>>
    BY <2>1, None
  <2>2. CASE d.commands = <<TimerStart>> /\ Plan[flow.step].expires
    <3>1. TimerStart \in Event /\ TimerStart.type = "TimerStarted"
      BY <1>2, TimersAre
    <3>2. Tells(d, TimerStart)
      BY <1>5, <2>2, <3>1 DEF Tells
    <3> QED BY <2>2, <3>1, <3>2, One
  <2> QED BY <1>5, <2>1, <2>2 DEF Parks
<1>6. CASE flow.phase \in {"open", "parked"} /\ Shuts(d)
  <2> DEFINE e == Schedule("close", Plan[flow.step].gate, d.answer)
  <2>1. /\ e \in Event /\ e.type = "Scheduled" /\ e.kind = "close"
        /\ e.decided = Len(history) + 1
    <3>1. Plan[flow.step].gate \in Texts /\ d.answer \in Answers
      BY <1>2, <1>6, PlanIs DEF Types, Placing, Shuts
    <3> QED BY <1>2, <3>1, TimesAre DEF Schedule, Event, Schedulings
  <2>2. TimerCancel \in Event /\ TimerCancel.type = "TimerCanceled"
    BY <1>2, TimersAre
  <2>3. d.commands = <<e>> \/ d.commands = <<TimerCancel, e>>
    BY <1>6 DEF Shuts
  <2> HIDE DEF e
  <2>4. Tells(d, e) /\ Tells(d, TimerCancel)
    <3>1. d.phase = "close"
      BY <1>6 DEF Shuts
    <3> QED BY <2>1, <2>2, <3>1 DEF Tells
  <2>5. CASE d.commands = <<e>>
    BY <2>1, <2>4, <2>5, One
  <2>6. CASE d.commands = <<TimerCancel, e>>
    BY <2>1, <2>2, <2>4, <2>6, Two
  <2> QED BY <2>3, <2>5, <2>6
<1>7. CASE Entered(d)
  <2>1. CASE d.phase = "over" /\ d.commands = <<Close("Completed")>>
    <3> DEFINE e == Close("Completed")
    <3>1. e \in Event /\ e.type = "Closed"
      BY <1>2, CloseIs
    <3>2. d.commands = <<e>>
      BY <2>1
    <3> HIDE DEF e
    <3>3. Tells(d, e)
      BY <1>7, <2>1, <3>1 DEF Tells
    <3> QED BY <3>1, <3>2, <3>3, One
  <2>2. CASE /\ d.phase = "call"
             /\ d.commands = [k \in 1 .. Plan[d.step].calls |-> Schedule("node", "", "none")]
    <3> DEFINE e == Schedule("node", "", "none")
    <3>1. e \in Event /\ e.type = "Scheduled" /\ e.kind = "node" /\ e.decided = Len(history) + 1
      BY <1>2, TimesAre DEF Schedule, Event, Schedulings
    <3>2. \A k \in DOMAIN d.commands : d.commands[k] = e
      BY <2>2
    <3> HIDE DEF e
    <3>3. Tells(d, e)
      BY <1>7, <2>2, <3>1 DEF Tells
    <3> QED BY <3>2, <3>3
  <2>3. CASE /\ d.phase = "open" /\ d.step \in DOMAIN Plan
             /\ d.commands = <<Schedule("open", Plan[d.step].gate, "none")>>
    <3> DEFINE e == Schedule("open", Plan[d.step].gate, "none")
    <3>1. Plan[d.step].gate \in Texts
      BY <2>3, PlanIs DEF Types
    <3>2. e \in Event /\ e.type = "Scheduled" /\ e.kind = "open" /\ e.decided = Len(history) + 1
      BY <1>2, <3>1, TimesAre DEF Schedule, Event, Schedulings
    <3>3. d.commands = <<e>>
      BY <2>3
    <3> HIDE DEF e
    <3>4. Tells(d, e)
      BY <1>7, <2>3, <3>2 DEF Tells
    <3> QED BY <3>2, <3>3, <3>4, One
  <2>4. CASE d.commands = <<>>
    BY <2>4, None
  <2> QED BY <1>7, <2>1, <2>2, <2>3, <2>4, Zenon DEF Entered
<1> QED BY <1>2, <1>3, <1>4, <1>5, <1>6, <1>7, DecideIs

\* A gate's timer runs only while the run is parked at a gate that expires.
TimerHeld == ~Closed /\ flow.timer # 0 => flow.phase = "parked" /\ Plan[flow.step].expires

LEMMA TimerHeldStep ==
  ASSUME Types, Recorded, TimerHeld, [ChaosNext]_vars
  PROVE  TimerHeld'
<1>1. sc' = sc
  BY BoxMoves
<1>2. CASE ~CompleteTask
  BY <1>1, <1>2, OthersSchedule DEF TimerHeld, Closed, Plan
<1>3. CASE CompleteTask
  <2>1. PICK d \in Decide : Replies(d) /\ Commanded(d)
    BY <1>3, TaskReplies DEF Recorded
  <2>2. /\ ~Closed /\ task = "started" /\ flow'.step = d.step /\ flow'.phase = d.phase
        /\ NewIds(d.commands, "TimerStarted") = {}
             => flow'.timer = IF d.phase = "close" THEN 0 ELSE flow.timer
    BY <2>1 DEF Replies
  <2>3. CASE Parks(d) /\ Plan[flow.step].expires
    BY <1>1, <2>2, <2>3 DEF TimerHeld, Parks, Plan
  <2>4. CASE ~(Parks(d) /\ Plan[flow.step].expires)
    <3>1. NewIds(d.commands, "TimerStarted") = {}
      BY <2>1, <2>2, <2>4, CommandsTell DEF NewIds, Tells
    <3>2. CASE flow.timer = 0
      BY <2>2, <3>1, <3>2 DEF TimerHeld
    <3>3. CASE flow.timer # 0
      <4>1. flow.phase = "parked" /\ Plan[flow.step].expires
        BY <2>2, <3>3 DEF TimerHeld
      <4>2. Shuts(d)
        BY <2>1, <2>2, <2>4, <4>1, DecideIs DEF Recorded
      <4> QED BY <2>2, <3>1, <4>2 DEF TimerHeld, Shuts
    <3> QED BY <3>2, <3>3
  <2> QED BY <2>3, <2>4
<1> QED BY <1>2, <1>3

\* What the termination of the run writes.
LEMMA TerminateWrites ==
  ASSUME Types, Recorded, Terminate
  PROVE  /\ \A i \in DOMAIN history : i \in DOMAIN history' /\ history'[i] = history[i]
         /\ \A i \in Ids("Closed")' : i \in Ids("Closed") \/ history'[i].status = "Terminated"
         /\ \A type \in {"Scheduled", "Ended", "Signaled"} : Ids(type)' = Ids(type)
         /\ Closed'
<1> DEFINE e == Close("Terminated")
<1>1. "Terminated" \in Statuses
  BY DEF Statuses
<1>2. e \in Event /\ e.type = "Closed" /\ e.status = "Terminated"
  BY <1>1, CloseIs
<1>3. history' = Append(history, e) /\ history \in Seq(Event) /\ Closed'
  BY DEF Terminate, Closed, Recorded, Written, Flow
<1> HIDE DEF e
<1>4. /\ \A i \in DOMAIN history : i \in DOMAIN history' /\ history'[i] = history[i]
      /\ history'[Len(history) + 1] = e
      /\ \A type : Ids(type)' = IF e.type = type THEN Ids(type) \cup {Len(history) + 1} ELSE Ids(type)
  BY <1>2, <1>3, Appends
<1> QED BY <1>2, <1>3, <1>4

\* The decision to complete the run.
Finishes(d) == d \in Decide /\ Replies(d) /\ Commanded(d) /\ Entered(d) /\ d.phase = "over"

\* A run is completed by one of its decisions, and that stays.
LEMMA FinishedStep ==
  ASSUME Types, Recorded, [ChaosNext]_vars
  PROVE  /\ Finished => Finished' /\ Closed
         /\ Finished' => Finished \/ \E d \in Decide : Finishes(d)
         /\ Closed => history' = history /\ flow' = flow
<1> DEFINE Goal == Finished' => Finished \/ \E d \in Decide : Finishes(d)
<1>1. /\ \A i \in DOMAIN history : i \in DOMAIN history' /\ history'[i] = history[i]
      /\ \A type : Ids(type) \subseteq DOMAIN history
  BY HistoryKept DEF Ids
<1>2. Finished => Finished' /\ Closed
  <2>1. Ids("Closed") \subseteq Ids("Closed")'
    BY <1>1 DEF Ids
  <2> QED BY <1>1, <2>1 DEF Finished, Recorded, Final
<1>3. Written
  BY DEF Recorded
<1>4. ASSUME WritesNothing PROVE Goal /\ history' = history /\ flow' = flow
  BY <1>4 DEF WritesNothing, Finished, Ids
<1>5. ASSUME NEW e \in Event, Noted(e) PROVE Goal /\ ~Closed
  <2>1. Ids("Closed")' = Ids("Closed")
    BY <1>3, <1>5, Appends DEF Noted, Written
  <2> QED BY <1>1, <1>5, <2>1 DEF Finished, Noted
<1>6. ASSUME NEW s \in DOMAIN pending, NEW outcome \in Outcomes, Over(s, outcome) PROVE Goal /\ ~Closed
  <2>1. Ids("Closed")' = Ids("Closed")
    BY <1>6, OverWrites
  <2> QED BY <1>1, <1>6, <2>1 DEF Finished, Over, EndsAs, Open
<1>7. ASSUME CompleteTask PROVE Goal /\ ~Closed
  <2>1. PICK d \in Decide : Replies(d) /\ Commanded(d)
    BY <1>7, TaskReplies DEF Recorded
  <2>2. ~Closed /\ task = "started"
    BY <2>1 DEF Replies
  <2>3. ASSUME NEW i \in Ids("Closed")', i \notin Ids("Closed"), history'[i].status = "Completed"
        PROVE  Finishes(d)
    <3>1. i = Len(history) + 2 /\ d.phase = "over" /\ Len(history) \in Nat
          /\ \A k \in DOMAIN d.commands : history'[Len(history) + 1 + k] = d.commands[k]
      BY <2>1, <2>3, TaskAdds
    <3>2. 1 \in DOMAIN d.commands /\ d.commands[1].type = "Closed"
      BY <2>1, <3>1 DEF Commanded
    <3>3. history'[i] = d.commands[1]
      BY <3>1, <3>2
    <3>4. Tells(d, d.commands[1])
      BY <2>2, <3>2, CommandsTell
    <3> QED BY <2>1, <2>3, <3>2, <3>3, <3>4 DEF Tells, Finishes
  <2>4. Goal
    BY <1>1, <2>3 DEF Finished
  <2> QED BY <2>2, <2>4
<1>8. ASSUME Terminate PROVE Goal /\ ~Closed
  <2>1. Goal
    BY <1>1, <1>8, TerminateWrites DEF Finished
  <2> QED BY <1>8, <2>1 DEF Terminate
<1> HIDE DEF Goal
<1>9. Goal /\ (Closed => history' = history /\ flow' = flow)
  BY <1>3, <1>4, <1>5, <1>6, <1>7, <1>8, Writes
<1> QED BY <1>2, <1>9 DEF Goal

\* Only a signal adds to the decisions.
LEMMA SignaledStep ==
  ASSUME Types, Recorded, [ChaosNext]_vars
  PROVE  /\ Ids("Signaled") \subseteq Ids("Signaled")'
         /\ Ids("Signaled")' = Ids("Signaled") \/ SomebodySignals \/ SignalGate
<1>1. Ids("Signaled") \subseteq Ids("Signaled")'
  BY HistoryKept DEF Ids
<1>2. Written
  BY DEF Recorded
<1>3. CASE WritesNothing
  BY <1>3 DEF WritesNothing, Ids
<1>4. ASSUME NEW e \in Event, Noted(e)
      PROVE  Ids("Signaled")' = Ids("Signaled") \/ SomebodySignals \/ SignalGate
  BY <1>2, <1>4, Appends DEF Noted, Written
<1>5. ASSUME NEW s \in DOMAIN pending, NEW outcome \in Outcomes, Over(s, outcome)
      PROVE  Ids("Signaled")' = Ids("Signaled")
  BY <1>5, OverWrites
<1>6. CASE CompleteTask
  <2>1. PICK d \in Decide : Replies(d) /\ Commanded(d)
    BY <1>6, TaskReplies DEF Recorded
  <2> QED BY <2>1, TaskAdds
<1>7. CASE Terminate
  BY <1>7, TerminateWrites
<1> QED BY <1>1, <1>2, <1>3, <1>4, <1>5, <1>6, <1>7, Writes

\* A gate that only the experiment decides, and that does not expire.
Kept(g) == g \in DOMAIN Plan /\ Plan[g] = Gate("publish", FALSE)

\* The run is not past it.
ShortOf(g) == flow.step <= g /\ (flow.step = g => flow.phase \in {"open", "parked"})

\* The code does not run through a gate.
LEMMA StopsAtGate ==
  ASSUME sc \in Scenarios, NEW g, Kept(g), NEW i \in 1 .. g, NEW answer \in Answers
  PROVE  GoOn(i, answer).phase # "over" /\ GoOn(i, answer).step <= g
         /\ (GoOn(i, answer).step = g => GoOn(i, answer).phase = "open")
<1> DEFINE d == GoOn(i, answer)
<1>1. g \in 1 .. Len(Plan) /\ Len(Plan) \in Nat /\ i \in 1 .. Len(Plan) + 1
  BY PlanIs DEF Kept
<1>2. Plan[g].when = Answers /\ Plan[g].do = "gate"
  BY DEF Kept, Gate, Step
<1>3. ~Passed(g, answer)
  BY <1>2 DEF Passed
<1>4. /\ Entered(d) /\ d.step = NextStep(i, answer)
  BY <1>1, GoOnIs
<1> HIDE DEF d
<1>5. d.step \in 1 .. Len(Plan) + 1 /\ d.step <= g
  <2>1. NextStep(i, answer) \in i .. Len(Plan) + 1 /\ \A k \in i .. NextStep(i, answer) - 1 : Passed(k, answer)
    BY <1>1, NextStepIs
  <2>2. ~(g \in i .. NextStep(i, answer) - 1)
    BY <1>3, <2>1
  <2> QED BY <1>1, <1>4, <2>1, <2>2
<1>6. d.phase = "over" => d.step = Len(Plan) + 1
  BY <1>4 DEF Entered
<1>7. d.step = g => d.phase \notin {"call", "wait"}
  BY <1>2, <1>4 DEF Entered
<1>8. d.phase \in {"over", "call", "open", "wait"}
  BY <1>4 DEF Entered
<1>9. d.phase # "over"
  BY <1>1, <1>5, <1>6
<1> QED BY <1>5, <1>7, <1>8, <1>9 DEF d

\* Without a decision the run does not get past the gate.
LEMMA WaitsAtGate ==
  ASSUME Types, Recorded, TimerHeld, ~Closed, Ids("Signaled") = {}, NEW g, Kept(g), ShortOf(g),
         NEW d \in Decide
  PROVE  IF d.phase = "over" THEN Fails(d)
         ELSE d.step <= g /\ (d.step = g => d.phase \in {"open", "parked"})
<1>1. /\ Written /\ Placing /\ sc \in Scenarios /\ g \in Nat /\ g >= 1 /\ flow.step \in Nat
      /\ flow.answer \in Answers /\ "none" \in Answers
  BY PlanIs DEF Recorded, Types, Written, Flow, Kept, Answers
<1>2. CASE flow.phase = "start"
  <2>1. d = GoOn(1, "none") /\ 1 \in 1 .. g
    BY <1>1, <1>2 DEF Decide
  <2> QED BY <1>1, <2>1, StopsAtGate
<1>3. CASE flow.phase \in {"call", "close"} /\ ~Fails(d) /\ ~Stays(d)
  <2>1. d = GoOn(flow.step + 1, flow.answer)
    BY <1>3 DEF Decide, Do, Stay, Stays, Fails
  <2>2. flow.step + 1 \in 1 .. g
    BY <1>1, <1>3 DEF ShortOf
  <2> QED BY <1>1, <2>1, <2>2, StopsAtGate
<1>4. CASE flow.phase = "wait"
  <2>1. d = GoOn(flow.step, flow.answer)
    BY <1>4 DEF Decide
  <2>2. flow.step \in 1 .. g
    <3>1. flow.step \in DOMAIN Plan /\ DOMAIN Plan = 1 .. Len(Plan) /\ Len(Plan) \in Nat
      BY <1>1, <1>4, PlanIs DEF Placing
    <3> QED BY <1>1, <3>1 DEF ShortOf
  <2> QED BY <1>1, <2>1, <2>2, StopsAtGate
<1>5. CASE Stays(d)
  BY <1>5 DEF Stays, ShortOf, Closed
<1>6. CASE Fails(d)
  BY <1>6 DEF Fails
<1>7. CASE flow.phase \in {"open", "parked"} /\ (Parks(d) \/ Shuts(d)) /\ flow.step < g
  BY <1>1, <1>7 DEF Parks, Shuts
<1>8. CASE flow.phase \in {"open", "parked"} /\ (Parks(d) \/ Shuts(d)) /\ flow.step = g
  <2>1. flow.timer = 0
    <3>1. Plan[g].expires = FALSE
      BY DEF Kept, Gate, Step
    <3> QED BY <1>8, <3>1 DEF TimerHeld
  <2>2. ~Expired /\ Submitted(Plan[flow.step].gate) = {}
    BY <2>1 DEF Expired, Submitted
  <2>3. d.phase # flow.phase => d \in AtGate
    BY <1>8 DEF Decide, Stay, Do
  <2>4. \A e \in AtGate : e.phase = "parked"
    BY <2>2 DEF AtGate, Do
  <2> QED BY <1>1, <1>8, <2>3, <2>4 DEF Parks, Shuts
<1>9. flow.step <= g
  BY DEF ShortOf
<1>10. \/ flow.phase \in {"start", "wait"} \/ flow.phase \in {"call", "close"} \/ Stays(d) \/ Fails(d)
       \/ flow.phase \in {"open", "parked"} /\ (Parks(d) \/ Shuts(d))
  BY <1>1, DecideIs
<1> QED BY <1>1, <1>2, <1>3, <1>4, <1>5, <1>6, <1>7, <1>8, <1>9, <1>10

\* As long as the gate of an experiment's run is undecided, the run does not get
\* past it.
GateHeld ==
  sc.lab /\ Ids("Signaled") = {} =>
    ~Finished /\ (Closed \/ \A g \in DOMAIN Plan : Kept(g) => ShortOf(g))

\* The experiment decides the gate only after its kill: a run that was open when
\* the container died was completed afterwards, or not at all.
Tried ==
  /\ exp.at # "off" => sc.lab
  /\ exp.at \in {"inflight", "aim", "kill"} => exp.verdict = "none" /\ Ids("Signaled") = {}
  /\ exp.at = "drive" => exp.killed = "open" \/ (exp.killed = "over" /\ Closed /\ ~Finished)
  /\ exp.verdict = "passed" => exp.killed = "open" /\ Finished

\* An activity has given its result, or the workflow code waits for it, or the
\* run is over and was not completed.
NodesDone ==
  \A s \in Ids("Scheduled") : history[s].kind = "node" =>
    \/ ~Closed /\ flow.phase = "call" /\ s \in flow.awaits
    \/ Closed /\ ~Finished
    \/ \E i \in TerminalOf(s) : history[i].outcome = "completed"

\* Every step keeps the gate held.
LEMMA GateHeldStep ==
  ASSUME Types, Recorded, TimerHeld, GateHeld, [ChaosNext]_vars
  PROVE  GateHeld'
<1>1. sc' = sc /\ sc \in Scenarios
  BY BoxMoves DEF Types
<1> SUFFICES ASSUME sc.lab, Ids("Signaled")' = {}
             PROVE  ~Finished' /\ (Closed' \/ \A g \in DOMAIN Plan : Kept(g) => ShortOf(g)')
  BY <1>1 DEF GateHeld, Plan, Kept
<1>2. Ids("Signaled") = {}
  BY SignaledStep
<1>3. ~Finished /\ (Closed \/ \A g \in DOMAIN Plan : Kept(g) => ShortOf(g))
  BY <1>2 DEF GateHeld
<1>4. ASSUME NEW d \in Decide, ~Closed, NEW g \in DOMAIN Plan, Kept(g)
      PROVE  IF d.phase = "over" THEN Fails(d)
             ELSE d.step <= g /\ (d.step = g => d.phase \in {"open", "parked"})
  BY <1>2, <1>3, <1>4, WaitsAtGate
<1>5. ~Finished'
  <2>1. PICK g \in DOMAIN Plan : Kept(g)
    BY <1>1, ScenarioAssumption DEF Plan, Kept
  <2>2. ASSUME NEW d \in Decide, Finishes(d) PROVE FALSE
    <3>1. ~Closed
      BY <2>2 DEF Finishes, Replies
    <3>2. d.commands = <<Close("Failed")>>
      BY <1>4, <2>1, <2>2, <3>1 DEF Finishes, Fails
    <3>3. d.commands = <<Close("Completed")>>
      BY <2>2 DEF Finishes, Entered
    <3> QED BY <3>2, <3>3 DEF Close
  <2> QED BY <1>3, <2>2, FinishedStep
<1>6. CASE ~CompleteTask
  <2>1. Closed' \/ flow' = flow
    BY <1>6, OthersSchedule
  <2>2. Closed => Closed'
    BY FinishedStep DEF Closed
  <2>3. flow' = flow => \A g \in DOMAIN Plan : ShortOf(g) => ShortOf(g)'
    BY DEF ShortOf
  <2> QED BY <1>3, <1>5, <2>1, <2>2, <2>3
<1>7. CASE CompleteTask
  <2>1. PICK d \in Decide : Replies(d) /\ Commanded(d)
    BY <1>7, TaskReplies DEF Recorded
  <2>2. ~Closed /\ flow'.step = d.step /\ flow'.phase = d.phase
    BY <2>1 DEF Replies
  <2>3. CASE d.phase = "over"
    BY <1>5, <2>2, <2>3 DEF Closed
  <2>4. ASSUME d.phase # "over", NEW g \in DOMAIN Plan, Kept(g) PROVE ShortOf(g)'
    <3>1. d.step <= g /\ (d.step = g => d.phase \in {"open", "parked"})
      BY <1>4, <2>2, <2>4
    <3> QED BY <2>2, <3>1 DEF ShortOf
  <2> QED BY <1>5, <2>3, <2>4
<1> QED BY <1>5, <1>6, <1>7

\* Nobody else signals the run of an experiment.
LEMMA LabIsQuiet ==
  ASSUME Types, Recorded, sc.lab
  PROVE  ~SomebodySignals
<1>1. sc.signals = 0
  BY ScenarioAssumption DEF Types
<1>2. IsFiniteSet(Ids("Signaled"))
  <2>1. DOMAIN history = 1 .. Len(history) /\ Len(history) \in Int /\ 1 \in Int
    BY DEF Recorded, Written
  <2>2. IsFiniteSet(DOMAIN history)
    BY <2>1, FS_Interval
  <2>3. Ids("Signaled") \subseteq DOMAIN history
    BY DEF Ids
  <2> QED BY <2>2, <2>3, FS_Subset
<1>3. Cardinality(Ids("Signaled")) \in Nat
  BY <1>2, FS_CardinalityType
<1>4. ASSUME NEW gate, NEW answer, Signal(gate, answer) PROVE FALSE
  <2>1. Cardinality(Ids("Signaled")) < sc.signals
    BY <1>4 DEF Signal
  <2> QED BY <1>1, <1>3, <2>1
<1> QED BY <1>4 DEF SomebodySignals

\* Every step of the experiment and of the others keeps to its order.
LEMMA TriedStep ==
  ASSUME Types, Recorded, GateHeld, Tried, [ChaosNext]_vars
  PROVE  Tried'
<1>1. sc' = sc
  BY BoxMoves
<1>2. Finished => Finished'
  BY FinishedStep
<1>3. Closed /\ ~Finished => Closed' /\ ~Finished'
  <2>1. Closed => history' = history /\ flow' = flow
    BY FinishedStep
  <2> QED BY <2>1 DEF Closed, Finished, Ids
<1>4. sc.lab /\ exp.at # "drive" => Ids("Signaled")' = Ids("Signaled")
  BY SignaledStep, LabIsQuiet DEF SignalGate
<1>5. CASE exp' = exp
  BY <1>1, <1>2, <1>3, <1>4, <1>5 DEF Tried
<1>6. CASE AwaitInflight
  <2>1. exp' = [exp EXCEPT !.at = "aim"]
    BY <1>6 DEF AwaitInflight, Goto
  <2> QED BY <1>1, <1>2, <1>4, <1>6, <2>1 DEF Tried, Types, Experiments, AwaitInflight
<1>7. CASE AimKill
  BY <1>1, <1>2, <1>4, <1>7 DEF Tried, Types, Experiments, AimKill
<1>8. CASE KillOne
  <2>1. sc.lab /\ exp.verdict = "none" /\ ~Finished
    BY <1>8 DEF Tried, GateHeld, KillOne
  <2>2. \/ exp' = [exp EXCEPT !.at = "drive", !.killed = IF Closed THEN "over" ELSE "open"]
        \/ exp' = [exp EXCEPT !.at = "done", !.verdict = "failed"]
    BY <1>8 DEF KillOne
  <2> QED BY <1>1, <1>3, <2>1, <2>2 DEF Tried, Types, Experiments
<1>9. CASE SignalGate
  <2>1. exp.at = "drive" /\ (exp' = exp \/ exp' = [exp EXCEPT !.signaled = TRUE])
    BY <1>9 DEF SignalGate
  <2> QED BY <1>1, <1>2, <1>3, <2>1 DEF Tried, Types, Experiments
<1>10. CASE Score
  <2>1. exp.at = "drive" /\ exp' = [exp EXCEPT !.at = "restore",
                                    !.verdict = IF Survived(Sharp) THEN "passed" ELSE "failed"]
    BY <1>10 DEF Score
  <2>2. Survived(Sharp) => Finished
    <3>1. Sharp.events = history /\ Of(Sharp, "Closed") = Ids("Closed")
      BY SharpIs
    <3> QED BY <3>1 DEF Survived, Completed, Finished
  <2>3. exp'.at = "restore" /\ exp'.killed = exp.killed
        /\ (exp'.verdict = "passed" => Finished)
    BY <2>1, <2>2 DEF Types, Experiments
  <2> QED BY <1>1, <1>2, <2>1, <2>3 DEF Tried
<1>11. CASE AimRestore
  BY <1>1, <1>2, <1>11 DEF Tried, Types, Experiments, AimRestore
<1>12. CASE RestoreOne
  <2>1. exp.at = "start" /\ exp' = [exp EXCEPT !.at = "done"]
    BY <1>12 DEF RestoreOne, Goto
  <2> QED BY <1>1, <1>2, <2>1 DEF Tried, Types, Experiments
<1>13. PressKill \/ PressRestart \/ Inject \/ UNCHANGED vars => exp' = exp
  BY DEF PressKill, PressRestart, Press, Inject, vars, lab
<1> QED BY <1>5, <1>6, <1>7, <1>8, <1>9, <1>10, <1>11, <1>12, <1>13, Steps DEF Calm, lab

\* The code goes on from a call only with all its results.
LEMMA CallsDone ==
  ASSUME Recorded, flow.phase = "call", NEW d \in Decide
  PROVE  Stays(d) \/ Fails(d)
         \/ \A s \in flow.awaits : \E i \in TerminalOf(s) : history[i].outcome = "completed"
<1> DEFINE over == \A s \in flow.awaits : OutcomeOf(s) # "open"
           failed == \E s \in flow.awaits : OutcomeOf(s) \in {"failed", "timed_out"}
<1>1. failed => Fails(d)
  BY DEF Decide, Do, Fails
<1>2. ~failed /\ ~over => Stays(d)
  BY DEF Decide, Do, Stay, Stays
<1>3. ASSUME ~failed, over, NEW s \in flow.awaits
      PROVE  \E i \in TerminalOf(s) : history[i].outcome = "completed"
  <2>1. OutcomeOf(s) \notin {"open", "failed", "timed_out"}
    BY <1>3
  <2>2. PICK i \in TerminalOf(s) : OutcomeOf(s) = history[i].outcome
    BY <2>1 DEF OutcomeOf
  <2>3. history[i].outcome \in Outcomes
    BY <2>2, InSequence, EventIs DEF TerminalOf, Recorded, Written, Ids
  <2> QED BY <2>1, <2>2, <2>3 DEF Outcomes
<1> HIDE DEF over, failed
<1> QED BY <1>1, <1>2, <1>3

\* Every step keeps NodesDone.
LEMMA NodesDoneStep ==
  ASSUME Types, Recorded, NodesDone, [ChaosNext]_vars
  PROVE  NodesDone'
<1>1. /\ \A i \in DOMAIN history : i \in DOMAIN history' /\ history'[i] = history[i]
      /\ \A type : Ids(type) \subseteq DOMAIN history
  BY HistoryKept DEF Ids
<1>2. ASSUME NEW s, \E i \in TerminalOf(s) : history[i].outcome = "completed"
      PROVE  (\E i \in TerminalOf(s) : history[i].outcome = "completed")'
  <2>1. PICK i \in Ids("Ended") : history[i].of = s /\ history[i].outcome = "completed"
    BY <1>2 DEF TerminalOf
  <2>2. i \in Ids("Ended")' /\ history'[i] = history[i]
    BY <1>1, <2>1 DEF Ids
  <2> QED BY <2>1, <2>2 DEF TerminalOf
<1>3. ~Closed => ~Finished
  BY FinishedStep
<1>4. CASE Closed
  <2>1. history' = history /\ flow' = flow
    BY <1>4, FinishedStep
  <2> QED BY <2>1 DEF NodesDone, Ids, Closed, Finished, TerminalOf
<1>5. CASE ~Closed /\ ~CompleteTask
  <2>1. Ids("Scheduled")' = Ids("Scheduled") /\ (flow' = flow \/ Closed')
        /\ Ids("TaskCompleted")' = Ids("TaskCompleted")
    BY <1>5, OthersSchedule
  <2>2. ~Finished'
    <3>1. ASSUME NEW d \in Decide, Finishes(d) PROVE FALSE
      <4>1. /\ Len(history) + 1 \in Ids("TaskCompleted")'
            /\ Len(history) \in Nat /\ DOMAIN history = 1 .. Len(history)
        BY <3>1, TaskAdds DEF Finishes
      <4> QED BY <1>1, <2>1, <4>1
    <3> QED BY <1>3, <1>5, <3>1, FinishedStep
  <2>3. ASSUME NEW s \in Ids("Scheduled"), history[s].kind = "node"
        PROVE  \/ (~Closed /\ flow.phase = "call" /\ s \in flow.awaits)'
               \/ (Closed /\ ~Finished)'
               \/ (\E i \in TerminalOf(s) : history[i].outcome = "completed")'
    BY <1>2, <1>5, <2>1, <2>2, <2>3 DEF NodesDone, Closed
  <2> QED BY <1>1, <2>1, <2>3 DEF NodesDone
<1>6. CASE ~Closed /\ CompleteTask
  <2>1. PICK d \in Decide : Replies(d) /\ Commanded(d)
    BY <1>6, TaskReplies DEF Recorded
  <2> DEFINE ids == NewIds(d.commands, "Scheduled")
  <2>2. /\ task = "started" /\ flow'.phase = d.phase /\ flow'.awaits = (IF ids = {} THEN flow.awaits ELSE ids)
        /\ Ids("Scheduled")' = Ids("Scheduled") \cup ids
    BY <2>1, TaskAdds DEF Replies
  <2>3. ASSUME NEW s \in ids, history'[s].kind = "node"
        PROVE  (~Closed /\ flow.phase = "call" /\ s \in flow.awaits)'
    <3>1. PICK k \in DOMAIN d.commands : history'[s] = d.commands[k] /\ d.commands[k].type = "Scheduled"
      BY <2>1, NewActivities
    <3>2. d.phase = "call"
      BY <1>6, <2>1, <2>2, <2>3, <3>1, CommandsTell DEF Tells
    <3> QED BY <2>2, <2>3, <3>2 DEF Closed
  <2>4. ASSUME NEW s \in flow.awaits, flow.phase = "call"
        PROVE  \/ (~Closed /\ flow.phase = "call" /\ s \in flow.awaits)'
               \/ (Closed /\ ~Finished)'
               \/ (\E i \in TerminalOf(s) : history[i].outcome = "completed")'
    <3>1. CASE Stays(d)
      <4>1. ids = {}
        BY <3>1, None DEF Stays, NewIds
      <4> QED BY <2>2, <2>4, <3>1, <4>1 DEF Stays, Closed
    <3>2. CASE Fails(d)
      <4>1. d.commands[1].status = "Failed" /\ 1 \in DOMAIN d.commands
        BY <3>2 DEF Fails, Close
      <4>2. Ids("Closed")' = Ids("Closed") \cup {Len(history) + 2} /\ Len(history) \in Nat
            /\ history'[Len(history) + 1 + 1] = d.commands[1]
        BY <2>1, <3>2, <4>1, TaskAdds DEF Fails
      <4>3. Len(history) + 1 + 1 = Len(history) + 2
        BY <4>2
      <4>4. Ids("Closed") = {}
        BY <1>6 DEF Recorded, Final
      <4>5. ~Finished'
        BY <4>1, <4>2, <4>3, <4>4 DEF Finished
      <4> QED BY <2>2, <3>2, <4>5 DEF Fails, Closed
    <3> QED BY <1>2, <2>1, <2>4, <3>1, <3>2, CallsDone
  <2> HIDE DEF ids
  <2>5. ASSUME NEW s \in Ids("Scheduled"), history[s].kind = "node"
        PROVE  \/ (~Closed /\ flow.phase = "call" /\ s \in flow.awaits)'
               \/ (Closed /\ ~Finished)'
               \/ (\E i \in TerminalOf(s) : history[i].outcome = "completed")'
    BY <1>2, <1>6, <2>4, <2>5 DEF NodesDone
  <2> QED BY <1>1, <2>2, <2>3, <2>5 DEF NodesDone
<1> QED BY <1>4, <1>5, <1>6

\* What makes a verdict true, as an inductive invariant over that of the run.
VerdictInv == TimerHeld /\ GateHeld /\ Tried /\ NodesDone

\* It holds at first.
LEMMA VerdictInit == ChaosInit => VerdictInv
<1> SUFFICES ASSUME ChaosInit PROVE VerdictInv
  OBVIOUS
<1>1. /\ history = <<>> /\ flow.step = 0 /\ flow.phase = "start" /\ flow.timer = 0
      /\ exp.at = (IF sc.lab THEN "inflight" ELSE "off") /\ exp.verdict = "none"
  BY DEF ChaosInit, Init
<1>2. \A type : Ids(type) = {}
  BY <1>1, None DEF Ids
<1>3. sc \in Scenarios
  BY DEF ChaosInit, Init
<1>4. ASSUME NEW g, Kept(g) PROVE ShortOf(g)
  <2>1. g \in Nat /\ g >= 1
    BY <1>3, <1>4, PlanIs DEF Kept
  <2> QED BY <1>1, <2>1 DEF ShortOf
<1>5. TimerHeld /\ GateHeld
  BY <1>1, <1>2, <1>4 DEF TimerHeld, GateHeld, Finished
<1>6. Tried /\ NodesDone
  BY <1>1, <1>2 DEF Tried, NodesDone
<1> QED BY <1>5, <1>6 DEF VerdictInv

\* And always.
LEMMA VerdictInductive == ChaosSpec => [](Types /\ Recorded /\ VerdictInv)
<1>1. Types /\ Recorded /\ VerdictInv /\ [ChaosNext]_vars => VerdictInv'
  BY TimerHeldStep, GateHeldStep, TriedStep, NodesDoneStep DEF VerdictInv
<1> QED BY <1>1, VerdictInit, RunInductive, PTL DEF ChaosSpec

\* A passed experiment killed a container while its run was open, and that run
\* completed with one result of every activity it scheduled, whatever else was
\* killed, restarted or lost meanwhile (run, evaluate).
THEOREM PassedMeansSurvivedAlways == ChaosSpec => []PassedMeansSurvived
<1>1. Types /\ Recorded /\ VerdictInv => PassedMeansSurvived
  <2> SUFFICES ASSUME Types, Recorded, VerdictInv, exp.verdict = "passed"
               PROVE  /\ exp.killed = "open"
                      /\ Closed /\ history[Len(history)]
                                     = [Close("Completed") EXCEPT !.at = history[Len(history)].at]
                      /\ \A s \in Activities(Sharp) :
                           Cardinality({i \in TerminalOf(s) : history[i].outcome = "completed"}) = 1
    BY DEF PassedMeansSurvived
  <2>1. exp.killed = "open" /\ Finished
    BY DEF VerdictInv, Tried
  <2>2. PICK i \in Ids("Closed") : history[i].status = "Completed"
    BY <2>1 DEF Finished
  <2>3. Closed /\ i = Len(history)
    BY <2>2 DEF Recorded, Final
  <2>4. history[i] \in Closings
    <3>1. history[i] \in Event /\ history[i].type = "Closed"
      BY <2>2, InSequence DEF Recorded, Written, Ids
    <3> QED BY <3>1 DEF Event, Marks, Schedulings, Timers, TimerEnds, Signals, Starts, Ends, Closings
  <2>5. history[i] = [Close("Completed") EXCEPT !.at = history[i].at]
    BY <2>2, <2>4 DEF Closings, Close
  <2>6. ASSUME NEW s \in Activities(Sharp)
        PROVE  Cardinality({k \in TerminalOf(s) : history[k].outcome = "completed"}) = 1
    <3>1. s \in Ids("Scheduled") /\ history[s].kind = "node"
      BY SharpIs
    <3>2. PICK j \in TerminalOf(s) : history[j].outcome = "completed"
      BY <2>1, <2>3, <3>1 DEF VerdictInv, NodesDone
    <3>3. {k \in TerminalOf(s) : history[k].outcome = "completed"} = {j}
      BY <3>2 DEF TerminalOf, Recorded, EndedOnce
    <3> QED BY <3>3, FS_Singleton
  <2> QED BY <2>1, <2>3, <2>5, <2>6
<1> QED BY <1>1, VerdictInductive, PTL

------------------------------------------------------------------------------
(* The layers of the graph *)

\* Activities are decided on together or one after the other: what one workflow
\* task schedules is of one kind, what is scheduled later was decided on later
\* and after the end of everything scheduled before, and with no gate open.
Layered ==
  /\ \A s \in Ids("Scheduled") : history[s].decided < s
  /\ \A s, t \in Ids("Scheduled") : s < t => history[s].decided <= history[t].decided
  /\ \A s, t \in Ids("Scheduled") :
       history[s].decided = history[t].decided => history[s].kind = history[t].kind
  /\ \A s, t \in Ids("Scheduled") :
       history[s].decided < history[t].decided => \E i \in TerminalOf(s) : i < history[t].decided
  /\ \A o \in OpenIds, t \in Ids("Scheduled") \ CloseIds :
       history[o].decided < history[t].decided =>
         \E c \in CloseIds : o < c /\ c < history[t].decided

\* What the steps but a workflow task leave of the layers.
LEMMA LayersStay ==
  ASSUME Types, Recorded, Layered, [ChaosNext]_vars, ~CompleteTask
  PROVE  Layered'
<1>1. /\ \A i \in DOMAIN history : i \in DOMAIN history' /\ history'[i] = history[i]
      /\ \A type : Ids(type) \subseteq DOMAIN history
      /\ Ids("Scheduled")' = Ids("Scheduled")
  BY HistoryKept, OthersSchedule DEF Ids
<1>2. \A s \in Ids("Scheduled") : history'[s] = history[s]
  BY <1>1
<1>3. OpenIds' = OpenIds /\ CloseIds' = CloseIds
  BY <1>1, <1>2 DEF OpenIds, CloseIds
<1>4. \A s : TerminalOf(s) \subseteq TerminalOf(s)'
  BY <1>1 DEF TerminalOf, Ids
<1>5. OpenIds \subseteq Ids("Scheduled")
  BY DEF OpenIds
<1> QED BY <1>1, <1>2, <1>3, <1>4, <1>5 DEF Layered

\* When a workflow task schedules, all that was scheduled before has ended; and
\* when what it schedules is no close of a gate, every gate is closed.
LEMMA LayerBefore ==
  ASSUME Types, Recorded, GateInv, ~Closed, task = "started", NEW d \in Decide, Commanded(d),
         NEW k \in DOMAIN d.commands, d.commands[k].type = "Scheduled"
  PROVE  /\ \A s \in Ids("Scheduled") : TerminalOf(s) # {}
         /\ d.commands[k].kind # "close" => \A o \in OpenIds : \E c \in CloseIds : o < c
<1> DEFINE e == d.commands[k]
<1>1. NewIds(d.commands, "Scheduled") # {}
  BY DEF NewIds
<1>2. DOMAIN pending = {}
  BY <1>1, Schedules
<1>3. \A s \in Ids("Scheduled") : TerminalOf(s) # {}
  BY <1>2 DEF Recorded, Accounted, TerminalOf
<1>4. Tells(d, e)
  BY CommandsTell
<1>5. e.kind \in {"node", "open", "close"}
  BY InSequence, EventIs DEF Commanded
<1>6. ASSUME e.kind # "close", NEW o \in OpenIds PROVE \E c \in CloseIds : o < c
  <2>1. d.phase \in {"call", "open"} /\ d.commands # <<>>
    BY <1>4, <1>5, <1>6, None DEF Tells
  <2>2. flow.phase \notin {"open", "parked"}
    BY <2>1, DecideIs DEF Recorded, Stays, Fails, Parks, Shuts
  <2>3. PICK n \in DOMAIN visits : visits[n].open = o
    BY DEF GateInv, Visiting
  <2>4. IsAnswered(n)
    BY <2>2 DEF GateInv, AtItsGate
  <2>5. PICK c \in CloseIds : Told(n, c)
    BY <2>4 DEF GateInv, Visiting
  <2> QED BY <2>3, <2>5 DEF Told
<1> QED BY <1>3, <1>6

\* Every step keeps the layers.
LEMMA LayeredStep ==
  ASSUME Types, Recorded, GateInv, Layered, [ChaosNext]_vars
  PROVE  Layered'
<1> SUFFICES ASSUME CompleteTask PROVE Layered'
  BY LayersStay
<1>1. PICK d \in Decide : Replies(d) /\ Commanded(d)
  BY TaskReplies DEF Recorded
<1> DEFINE L == Len(history)
           old == Ids("Scheduled")
           new == NewIds(d.commands, "Scheduled")
<1>2. /\ L \in Nat /\ DOMAIN history = 1 .. L
      /\ \A i \in DOMAIN history : history'[i] = history[i]
      /\ Ids("Scheduled")' = old \cup new /\ Ids("Ended")' = Ids("Ended")
  BY <1>1, TaskAdds
<1>3. /\ old \subseteq DOMAIN history /\ Ids("Ended") \subseteq DOMAIN history
      /\ OpenIds \subseteq old /\ CloseIds \subseteq old
  BY DEF Ids, OpenIds, CloseIds
<1>4. /\ OpenIds' = OpenIds \cup {i \in new : history'[i].kind = "open"}
      /\ CloseIds' = CloseIds \cup {i \in new : history'[i].kind = "close"}
  BY <1>1, NewActivities
<1>5. \A s : TerminalOf(s)' = TerminalOf(s) /\ TerminalOf(s) \subseteq 1 .. L
  BY <1>2, <1>3 DEF TerminalOf
<1>6. ~Closed /\ task = "started"
  BY <1>1 DEF Replies
<1>7. ASSUME NEW t \in new
      PROVE  /\ t \in Nat /\ t > L + 1 /\ history'[t].decided = L + 1
             /\ history'[t].kind = (CASE d.phase = "call" -> "node" [] d.phase = "open" -> "open"
                                      [] d.phase = "close" -> "close")
             /\ \A s \in old : TerminalOf(s) # {}
             /\ history'[t].kind # "close" => \A o \in OpenIds : \E c \in CloseIds : o < c
  <2>1. PICK k \in DOMAIN d.commands :
          t = L + 1 + k /\ history'[t] = d.commands[k] /\ d.commands[k].type = "Scheduled"
    BY <1>1, NewActivities
  <2>2. Tells(d, d.commands[k])
    BY <1>6, CommandsTell
  <2>3. k \in Nat /\ k > 0 /\ d.commands[k].kind \in {"node", "open", "close"}
    <3>1. d.commands \in Seq(Event)
      BY <1>1 DEF Commanded
    <3>2. d.commands[k] \in Event /\ k \in Nat /\ k > 0
      BY <3>1
    <3> QED BY <2>1, <3>2, EventIs
  <2>4. /\ \A s \in old : TerminalOf(s) # {}
        /\ d.commands[k].kind # "close" => \A o \in OpenIds : \E c \in CloseIds : o < c
    BY <1>1, <1>6, <2>1, LayerBefore
  <2>5. history'[t].decided = L + 1
    BY <2>1, <2>2 DEF Tells
  <2>6. history'[t].kind = (CASE d.phase = "call" -> "node" [] d.phase = "open" -> "open"
                              [] d.phase = "close" -> "close")
    BY <2>1, <2>2, <2>3 DEF Tells
  <2>7. t \in Nat /\ t > L + 1
    BY <1>2, <2>1, <2>3
  <2> HIDE DEF L, old
  <2> QED BY <2>1, <2>4, <2>5, <2>6, <2>7
<1>8. ASSUME NEW s \in old
      PROVE  history'[s] = history[s] /\ s \in 1 .. L /\ history[s].decided \in Nat
             /\ history[s].decided < s
  <2>1. s \in DOMAIN history /\ history[s].type = "Scheduled"
    BY DEF Ids
  <2>2. history[s].decided \in Nat
    BY <2>1, InSequence, EventIs DEF Recorded, Written
  <2> QED BY <1>2, <2>1, <2>2 DEF Layered
<1> HIDE DEF L, old, new
<1>9. \A s \in Ids("Scheduled")' : history'[s].decided < s
  BY <1>2, <1>7, <1>8
<1>10. ASSUME NEW s \in Ids("Scheduled")', NEW t \in Ids("Scheduled")', s < t
       PROVE  history'[s].decided <= history'[t].decided
  <2>1. CASE s \in old /\ t \in old
    BY <1>8, <1>10, <2>1 DEF Layered, old
  <2>2. CASE t \in new
    BY <1>2, <1>7, <1>8, <2>2
  <2>3. CASE s \in new /\ t \in old
    BY <1>2, <1>7, <1>8, <1>10, <2>3
  <2> QED BY <1>2, <2>1, <2>2, <2>3
<1>11. ASSUME NEW s \in Ids("Scheduled")', NEW t \in Ids("Scheduled")',
              history'[s].decided = history'[t].decided
       PROVE  history'[s].kind = history'[t].kind
  <2>1. CASE s \in old /\ t \in old
    BY <1>8, <1>11, <2>1 DEF Layered, old
  <2>2. CASE s \in new /\ t \in new
    BY <1>7, <2>2
  <2>3. CASE (s \in new /\ t \in old) \/ (s \in old /\ t \in new)
    BY <1>2, <1>7, <1>8, <1>11, <2>3
  <2> QED BY <1>2, <2>1, <2>2, <2>3
<1>12. ASSUME NEW s \in Ids("Scheduled")', NEW t \in Ids("Scheduled")',
              history'[s].decided < history'[t].decided
       PROVE  \E i \in TerminalOf(s)' : i < history'[t].decided
  <2>1. s \in old
    BY <1>2, <1>7, <1>8, <1>12
  <2>2. CASE t \in old
    BY <1>5, <1>8, <1>12, <2>1, <2>2 DEF Layered, old
  <2>3. CASE t \in new
    BY <1>2, <1>5, <1>7, <2>1, <2>3
  <2> QED BY <1>2, <2>2, <2>3
<1>13. ASSUME NEW o \in OpenIds', NEW t \in Ids("Scheduled")' \ CloseIds',
              history'[o].decided < history'[t].decided
       PROVE  \E c \in CloseIds' : o < c /\ c < history'[t].decided
  <2>1. o \in OpenIds
    BY <1>2, <1>3, <1>4, <1>7, <1>8, <1>13
  <2>2. CASE t \in old
    <3>1. t \notin CloseIds
      BY <1>4, <1>13
    <3> QED BY <1>3, <1>4, <1>8, <1>13, <2>1, <2>2, <3>1 DEF Layered, old
  <2>3. CASE t \in new
    <3>1. history'[t].kind # "close"
      BY <1>4, <1>13, <2>3
    <3>2. PICK c \in CloseIds : o < c
      BY <1>7, <2>1, <2>3, <3>1
    <3>3. c \in 1 .. L
      BY <1>3, <1>8
    <3> QED BY <1>2, <1>4, <1>7, <2>3, <3>2, <3>3
  <2> QED BY <1>2, <2>2, <2>3
<1> QED BY <1>9, <1>10, <1>11, <1>12, <1>13 DEF Layered

\* The layers hold at first.
LEMMA LayeredInit == ChaosInit => Layered
<1> SUFFICES ASSUME ChaosInit PROVE Layered
  OBVIOUS
<1>1. history = <<>>
  BY DEF ChaosInit, Init
<1>2. \A type : Ids(type) = {}
  BY <1>1, None DEF Ids
<1> QED BY <1>2 DEF Layered, OpenIds

\* The layers always hold.
LEMMA LayersInductive == ChaosSpec => [](Types /\ Recorded /\ GateInv /\ Timely /\ Layered)
<1>1. Types /\ Recorded /\ GateInv /\ Timely /\ Layered /\ [ChaosNext]_vars => Layered'
  BY LayeredStep
<1> QED BY <1>1, LayeredInit, RunInvariant, PTL DEF ChaosSpec

\* The event at which a vertex is over: the end of an activity, the close of a
\* gate.
EndsOf(s) ==
  LET close == CloseOf(Sharp) IN
  IF history[s].kind = "node" THEN TerminalOf(s) ELSE {close[o] : o \in DOMAIN close \cap {s}}

\* The events that have a vertex.
Vertices == Ids("Scheduled") \ CloseIds

\* What an opening activity's vertex ends with.
LEMMA GateEnds ==
  ASSUME Recorded, GateInv, NEW n \in DOMAIN visits
  PROVE  LET o == visits[n].open IN
         /\ o \in OpenIds /\ history[o].kind = "open"
         /\ IsAnswered(n) => EndsOf(o) = {CloseOf(Sharp)[o]} /\ o \in DOMAIN CloseOf(Sharp)
                             /\ CloseOf(Sharp)[o] \in CloseIds /\ Told(n, CloseOf(Sharp)[o])
         /\ ~IsAnswered(n) => EndsOf(o) = {} /\ o \notin DOMAIN CloseOf(Sharp)
<1> DEFINE o == visits[n].open
           close == CloseOf(Sharp)
<1>1. o \in OpenIds /\ history[o].kind = "open"
  BY DEF GateInv, Visiting, OpenIds
<1>2. /\ o \in DOMAIN close <=> IsAnswered(n)
      /\ IsAnswered(n) => close[o] \in CloseIds /\ Told(n, close[o])
  BY VisitIsTold DEF GateInv
<1>3. EndsOf(o) = {close[p] : p \in DOMAIN close \cap {o}}
  BY <1>1 DEF EndsOf
<1> HIDE DEF close, o
<1>4. o \in DOMAIN close => EndsOf(o) = {close[o]}
  BY <1>3
<1>5. o \notin DOMAIN close => EndsOf(o) = {}
  BY <1>3
<1> QED BY <1>1, <1>2, <1>4, <1>5 DEF close, o

\* A vertex of an earlier layer is over before a later layer is decided on.
LEMMA EndsInTime ==
  ASSUME Recorded, GateInv, Layered, NEW s \in Vertices, NEW t \in Vertices,
         history[s].decided < history[t].decided
  PROVE  \E i \in EndsOf(s) : i < history[t].decided
<1>1. s \in Ids("Scheduled") /\ t \in Ids("Scheduled") \ CloseIds
  BY DEF Vertices
<1>2. CASE history[s].kind = "node"
  BY <1>1, <1>2 DEF Layered, EndsOf
<1>3. CASE history[s].kind # "node"
  <2>1. s \in OpenIds
    <3>1. history[s].kind \in {"node", "open", "close"}
      <4>1. history[s] \in Event /\ history[s].type = "Scheduled"
        BY <1>1, InSequence DEF Recorded, Written, Ids
      <4> QED BY <4>1, EventIs
    <3> QED BY <1>1, <1>3, <3>1 DEF Vertices, OpenIds, CloseIds
  <2>2. PICK c \in CloseIds : s < c /\ c < history[t].decided
    BY <1>1, <2>1 DEF Layered
  <2>3. PICK n \in DOMAIN visits : visits[n].open = s
    BY <2>1 DEF GateInv, Visiting
  <2>4. /\ \A i \in CloseIds \cup OpenIds : i \in Nat
        /\ history[t].decided \in Nat
    <3>1. history[t].decided \in Nat
      <4>1. history[t] \in Event /\ history[t].type = "Scheduled"
        BY <1>1, InSequence DEF Recorded, Written, Ids
      <4> QED BY <4>1, EventIs
    <3> QED BY <3>1 DEF CloseIds, OpenIds, Ids, Recorded, Written
  <2>5. IsAnswered(n)
    <3> SUFFICES ASSUME ~IsAnswered(n) PROVE FALSE
      OBVIOUS
    <3>1. c < visits[n].open
      BY DEF GateInv, Visiting
    <3> QED BY <2>1, <2>2, <2>3, <2>4, <3>1
  <2>6. PICK b \in CloseIds : EndsOf(s) = {b} /\ Told(n, b)
    BY <2>3, <2>5, GateEnds
  <2>7. PICK m \in DOMAIN visits : Told(m, c)
    BY DEF GateInv, Visiting
  <2>8. n \in Nat /\ m \in Nat
    BY DEF GateInv, Visiting
  <2>9. ~(m < n)
    <3> SUFFICES ASSUME m < n PROVE FALSE
      OBVIOUS
    <3>1. c < visits[n].open
      BY <2>7 DEF Told
    <3> QED BY <2>1, <2>2, <2>3, <2>4, <3>1
  <2>10. m = n => b = c
    BY <2>6, <2>7 DEF GateInv, Visiting
  <2>11. n < m => b < c
    <3> SUFFICES ASSUME n < m PROVE b < c
      OBVIOUS
    <3>1. b < visits[m].open /\ visits[m].open < c /\ visits[m].open \in OpenIds
      BY <2>6, <2>7 DEF Told, GateInv, Visiting
    <3> QED BY <2>4, <3>1
  <2>12. b <= c
    BY <2>4, <2>8, <2>9, <2>10, <2>11
  <2> QED BY <2>2, <2>4, <2>6, <2>12
<1> QED BY <1>2, <1>3

\* What a vertex shows: the layer, the time from which on, and the time until
\* which its event has taken.
Shows(v, s) ==
  /\ v.id = s /\ v.layer = history[s].decided
  /\ v.from \in Nat /\ history[s].at <= v.from
  /\ v.to = NoTime \/ \E i \in EndsOf(s) : v.to = history[i].at /\ v.from <= v.to

\* An activity's vertex lasts from the start of its last attempt to its end.
LEMMA ActivityShows ==
  ASSUME Recorded, Timely, NEW s \in Ids("Scheduled"), history[s].kind = "node"
  PROVE  Shows(ActivityVertex(Sharp, s), s)
<1> SUFFICES ASSUME NEW v, v = ActivityVertex(Sharp, s) PROVE Shows(v, s)
  OBVIOUS
<1> DEFINE started == {i \in Ids("Started") : history[i].of = s}
           ended == TerminalOf(s)
<1>1. /\ Sharp.events = history
      /\ About(Sharp, "Started", s) = started /\ About(Sharp, "Ended", s) = ended
  BY SharpIs DEF About, TerminalOf
<1>2. /\ v.id = s /\ v.layer = history[s].decided
      /\ v.from = IF started = {} THEN history[s].at ELSE history[CHOOSE i \in started : TRUE].at
      /\ v.to = IF ended = {} THEN NoTime ELSE history[CHOOSE i \in ended : TRUE].at
  <2>1. /\ v.id = s /\ v.layer = Sharp.events[s].decided
        /\ v.from = At(Sharp, About(Sharp, "Started", s), Sharp.events[s].at)
        /\ v.to = At(Sharp, About(Sharp, "Ended", s), NoTime)
    BY DEF ActivityVertex
  <2> HIDE DEF started, ended
  <2> QED BY <1>1, <2>1 DEF At
<1>3. EndsOf(s) = ended
  BY DEF EndsOf
<1>4. \A i \in DOMAIN history : history[i].at \in Nat
  BY InSequence, EventIs DEF Recorded, Written
<1>5. s \in DOMAIN history
  BY DEF Ids
<1>6. CASE started = {}
  <2>1. v.from = history[s].at /\ history[s].at \in Nat
    BY <1>2, <1>4, <1>5, <1>6
  <2>2. CASE ended = {}
    BY <1>2, <2>1, <2>2 DEF Shows
  <2>3. CASE ended # {}
    <3>1. PICK i \in ended : v.to = history[i].at
      BY <1>2, <2>3
    <3>2. i \in DOMAIN history /\ history[i].type # "Started" /\ s < i
      BY DEF TerminalOf, Ids, Recorded, EndedOnce
    <3>3. s \in Nat /\ i \in Nat
      BY <1>5, <3>2 DEF Recorded, Written
    <3>4. history[s].at <= history[i].at
      BY <1>5, <3>2, <3>3 DEF Timely
    <3>5. i \in EndsOf(s)
      BY <1>3
    <3>6. v.id = s /\ v.layer = history[s].decided
      BY <1>2
    <3>7. v.to = history[i].at /\ v.from <= v.to /\ history[s].at <= v.from
      BY <2>1, <3>1, <3>4
    <3> HIDE DEF ended
    <3> QED BY <2>1, <3>5, <3>6, <3>7 DEF Shows
  <2> QED BY <2>2, <2>3
<1>7. CASE started # {}
  <2>1. PICK j \in started : v.from = history[j].at
    BY <1>2, <1>7
  <2>2. /\ j \in Ids("Started") /\ history[j].of = s /\ j \in DOMAIN history
        /\ j + 1 \in Ids("Ended") /\ history[j + 1].of = s
    BY DEF Ids, Recorded, Paired
  <2>3. ended = {j + 1}
    BY <2>2 DEF Recorded, EndedOnce, TerminalOf
  <2>4. v.to = history[j + 1].at
    BY <1>2, <2>3
  <2>5. history[s].at <= history[j].at
    BY <2>2 DEF Timely
  <2>6. history[j].at <= history[j + 1].at
    <3>1. j + 1 \in DOMAIN history /\ history[j + 1].type # "Started" /\ j \in Nat
      BY <2>2 DEF Ids, Recorded, Written
    <3> QED BY <2>2, <3>1 DEF Timely
  <2>7. v.from \in Nat
    BY <1>4, <2>1, <2>2
  <2> HIDE DEF ended
  <2> QED BY <1>2, <1>3, <2>1, <2>3, <2>4, <2>5, <2>6, <2>7 DEF Shows
<1> QED BY <1>6, <1>7

\* A gate's vertex lasts from the end of its opening activity to its close.
LEMMA GateShows ==
  ASSUME Recorded, GateInv, Layered, Timely, NEW o \in OpenIds
  PROVE  Shows(GateVertex(Sharp, o), o)
<1> SUFFICES ASSUME NEW v, v = GateVertex(Sharp, o) PROVE Shows(v, o)
  OBVIOUS
<1> DEFINE close == CloseOf(Sharp)
           ended == TerminalOf(o)
<1>1. Sharp.events = history /\ About(Sharp, "Ended", o) = ended
  BY SharpIs DEF About, TerminalOf
<1>2. /\ v.id = o /\ v.layer = history[o].decided
      /\ v.from = IF ended = {} THEN history[o].at ELSE history[CHOOSE i \in ended : TRUE].at
      /\ v.to = IF o \in DOMAIN close THEN history[close[o]].at ELSE NoTime
  <2>1. /\ v.id = o /\ v.layer = Sharp.events[o].decided
        /\ v.from = At(Sharp, About(Sharp, "Ended", o), Sharp.events[o].at)
        /\ v.to = IF o \in DOMAIN close THEN Sharp.events[close[o]].at ELSE NoTime
    BY DEF GateVertex
  <2> HIDE DEF ended, close
  <2> QED BY <1>1, <2>1 DEF At
<1>3. \A i \in DOMAIN history : history[i].at \in Nat /\ i \in Nat
  BY InSequence, EventIs DEF Recorded, Written
<1>4. o \in DOMAIN history /\ history[o].kind = "open" /\ o \in Ids("Scheduled")
  BY DEF OpenIds, Ids
<1>5. PICK from \in DOMAIN history :
        /\ v.from = history[from].at /\ o <= from
        /\ from = o \/ from \in ended
        /\ history[from].type # "Started"
  <2>1. CASE ended = {}
    BY <1>2, <1>3, <1>4, <2>1 DEF Ids
  <2>2. CASE ended # {}
    <3>1. PICK i \in ended : v.from = history[i].at
      BY <1>2, <2>2
    <3>2. i \in DOMAIN history /\ history[i].type = "Ended" /\ o < i
      BY DEF TerminalOf, Ids, Recorded, EndedOnce
    <3> QED BY <1>3, <1>4, <3>1, <3>2
  <2> QED BY <2>1, <2>2
<1>6. v.from \in Nat /\ history[o].at <= v.from
  BY <1>3, <1>4, <1>5 DEF Timely
<1>7. PICK n \in DOMAIN visits : visits[n].open = o
  BY DEF GateInv, Visiting
<1>8. CASE ~IsAnswered(n)
  <2>1. o \notin DOMAIN close
    BY <1>7, <1>8, GateEnds
  <2>2. v.to = NoTime
    BY <1>2, <2>1
  <2> QED BY <1>2, <1>6, <2>2 DEF Shows
<1>9. CASE IsAnswered(n)
  <2>1. PICK c \in CloseIds : EndsOf(o) = {c} /\ Told(n, c) /\ v.to = history[c].at
    BY <1>2, <1>7, <1>9, GateEnds
  <2>2. /\ c \in DOMAIN history /\ history[c].type # "Started" /\ history[c].kind = "close"
        /\ c \in Ids("Scheduled") /\ o < c
    BY <1>7, <2>1 DEF Told, CloseIds, Ids
  <2>3. history[o].decided < history[c].decided
    <3>1. history[o].decided <= history[c].decided
      BY <1>4, <2>2 DEF Layered
    <3>2. history[o].decided # history[c].decided
      BY <1>4, <2>2 DEF Layered
    <3>3. history[o].decided \in Nat /\ history[c].decided \in Nat
      <4>1. history[o] \in Event /\ history[o].type = "Scheduled"
            /\ history[c] \in Event /\ history[c].type = "Scheduled"
        BY <1>4, <2>2, InSequence DEF Ids, Recorded, Written
      <4> QED BY <4>1, EventIs
    <3> QED BY <3>1, <3>2, <3>3
  <2>4. from <= c
    <3>1. CASE from = o
      BY <1>3, <1>4, <2>2, <3>1
    <3>2. CASE from \in ended
      <4>1. PICK i \in TerminalOf(o) : i < history[c].decided
        BY <1>4, <2>2, <2>3 DEF Layered
      <4>2. i = from
        BY <3>2, <4>1 DEF TerminalOf, Recorded, EndedOnce
      <4>3. history[c].decided < c /\ history[c].decided \in Nat
        <5>1. history[c] \in Event /\ history[c].type = "Scheduled"
          BY <2>2, InSequence DEF Ids, Recorded, Written
        <5> QED BY <2>2, <5>1, EventIs DEF Layered
      <4> QED BY <1>3, <1>5, <2>2, <4>1, <4>2, <4>3
    <3> QED BY <1>5, <3>1, <3>2
  <2>5. history[from].at <= history[c].at
    BY <1>5, <2>2, <2>4 DEF Timely
  <2> QED BY <1>2, <1>5, <1>6, <2>1, <2>5 DEF Shows
<1> QED BY <1>8, <1>9

\* Every vertex drawn shows an event of the history.
LEMMA DrawnShows ==
  ASSUME Recorded, GateInv, Layered, Timely, NEW v \in Drawn(Sharp)
  PROVE  \E s \in Vertices : Shows(v, s)
<1>1. /\ Opens(Sharp) = OpenIds
      /\ Activities(Sharp) = {s \in Ids("Scheduled") : history[s].kind = "node"}
  BY SharpIs
<1>2. CASE \E s \in Activities(Sharp) : v = ActivityVertex(Sharp, s)
  <2>1. PICK s \in Activities(Sharp) : v = ActivityVertex(Sharp, s)
    BY <1>2
  <2>2. s \in Vertices
    BY <1>1 DEF Vertices, CloseIds
  <2> QED BY <1>1, <2>1, <2>2, ActivityShows
<1>3. CASE \E o \in Opens(Sharp) : v = GateVertex(Sharp, o)
  <2>1. PICK o \in Opens(Sharp) : v = GateVertex(Sharp, o)
    BY <1>3
  <2>2. o \in Vertices
    BY <1>1 DEF Vertices, CloseIds, OpenIds
  <2> QED BY <1>1, <2>1, <2>2, GateShows
<1> QED BY <1>2, <1>3 DEF Drawn

\* A vertex has at most one event that ends it.
LEMMA EndIsOne ==
  ASSUME Recorded, GateInv, NEW s \in Vertices, NEW i \in EndsOf(s)
  PROVE  /\ EndsOf(s) = {i} /\ i \in DOMAIN history /\ history[i].type # "Started"
         /\ history[i].at \in Nat /\ history[i].at <= now
<1>1. s \in Ids("Scheduled") /\ s \notin CloseIds
  BY DEF Vertices
<1>2. EndsOf(s) = {i} /\ i \in DOMAIN history /\ history[i].type # "Started"
  <2>1. CASE history[s].kind = "node"
    BY <2>1 DEF EndsOf, TerminalOf, Ids, Recorded, EndedOnce
  <2>2. CASE history[s].kind # "node"
    <3>1. s \in OpenIds
      <4>1. history[s] \in Event /\ history[s].type = "Scheduled"
        BY <1>1, InSequence DEF Recorded, Written, Ids
      <4>2. history[s].kind \in {"node", "open", "close"}
        BY <4>1, EventIs
      <4> QED BY <1>1, <2>2, <4>2 DEF OpenIds, CloseIds
    <3>2. PICK n \in DOMAIN visits : visits[n].open = s
      BY <3>1 DEF GateInv, Visiting
    <3>3. PICK c \in CloseIds : EndsOf(s) = {c}
      BY <3>2, GateEnds
    <3>4. c = i
      BY <3>3
    <3> QED BY <3>3, <3>4 DEF CloseIds, Ids
  <2> QED BY <2>1, <2>2
<1>3. history[i].at \in Nat /\ history[i].at <= now
  BY <1>2, InSequence, EventIs DEF Recorded, Written
<1> QED BY <1>2, <1>3

\* The vertices of different layers do not overlap.
LEMMA Apart ==
  ASSUME Recorded, GateInv, Layered, Timely, NEW v \in Drawn(Sharp), NEW w \in Drawn(Sharp),
         v.layer < w.layer, v.to # NoTime
  PROVE  v.to <= w.from
<1>1. PICK s \in Vertices : Shows(v, s)
  BY DrawnShows
<1>2. PICK t \in Vertices : Shows(w, t)
  BY DrawnShows
<1>3. PICK i \in EndsOf(s) : v.to = history[i].at
  BY <1>1 DEF Shows
<1>4. i < history[t].decided
  <2>1. history[s].decided < history[t].decided
    BY <1>1, <1>2 DEF Shows
  <2>2. PICK j \in EndsOf(s) : j < history[t].decided
    BY <2>1, EndsInTime
  <2>3. j = i
    BY <1>3, EndIsOne
  <2> QED BY <2>2, <2>3
<1>5. i \in DOMAIN history /\ history[i].at \in Nat
  BY <1>3, EndIsOne
<1>6. /\ t \in DOMAIN history /\ history[t].type = "Scheduled" /\ history[t].decided < t
      /\ t \in Nat /\ i \in Nat
  BY <1>5 DEF Vertices, Ids, Layered, Recorded, Written
<1>7. history[t].decided \in Nat /\ history[t].at \in Nat
  BY <1>6, InSequence, EventIs DEF Recorded, Written
<1>8. history[i].at <= history[t].at
  BY <1>4, <1>5, <1>6, <1>7 DEF Timely
<1> QED BY <1>2, <1>3, <1>5, <1>7, <1>8 DEF Shows

\* An edge runs from what is over to what was decided on after that.
LEMMA EdgesRunOn ==
  ASSUME Recorded, GateInv, Layered, Timely, NEW e \in Edges(Sharp)
  PROVE  LET close == CloseOf(Sharp)
             over == IF history[e[1].id].kind = "node" THEN About(Sharp, "Ended", e[1].id)
                     ELSE {close[o] : o \in DOMAIN close \cap {e[1].id}}
         IN \E i \in over : i < e[2].layer
<1>1. e[1] \in Drawn(Sharp) /\ e[2] \in Drawn(Sharp) /\ e[1].layer < e[2].layer
  <2> DEFINE drawn == Drawn(Sharp)
             layers == {v.layer : v \in drawn}
             After(l) == {m \in layers : m > l /\ \A k \in layers : k <= l \/ k >= m}
  <2>1. Edges(Sharp)
          = UNION {{<<v, w>> : w \in {x \in drawn : x.layer \in After(v.layer)}} : v \in drawn}
    BY DEF Edges
  <2>2. PICK v \in drawn, w \in drawn : e = <<v, w>> /\ w.layer \in After(v.layer)
    <3> HIDE DEF drawn, After
    <3> QED BY <2>1
  <2>3. w.layer > v.layer
    BY <2>2
  <2>4. v.layer \in Nat /\ w.layer \in Nat
    <3>1. PICK s \in Vertices, t \in Vertices : Shows(v, s) /\ Shows(w, t)
      BY DrawnShows
    <3>2. history[s].decided \in Nat /\ history[t].decided \in Nat
      <4>1. /\ history[s] \in Event /\ history[s].type = "Scheduled"
            /\ history[t] \in Event /\ history[t].type = "Scheduled"
        BY InSequence DEF Vertices, Ids, Recorded, Written
      <4> QED BY <4>1, EventIs
    <3> QED BY <3>1, <3>2 DEF Shows
  <2> QED BY <2>2, <2>3, <2>4
<1>2. PICK s \in Vertices : Shows(e[1], s)
  BY <1>1, DrawnShows
<1>3. PICK t \in Vertices : Shows(e[2], t)
  BY <1>1, DrawnShows
<1>4. e[1].id = s /\ history[s].decided < history[t].decided /\ e[2].layer = history[t].decided
  BY <1>1, <1>2, <1>3 DEF Shows
<1>5. PICK i \in EndsOf(s) : i < e[2].layer
  BY <1>4, EndsInTime
<1>6. About(Sharp, "Ended", s) = TerminalOf(s)
  BY SharpIs DEF About, TerminalOf
<1>7. EndsOf(s) = IF history[e[1].id].kind = "node" THEN About(Sharp, "Ended", e[1].id)
                  ELSE {CloseOf(Sharp)[o] : o \in DOMAIN CloseOf(Sharp) \cap {e[1].id}}
  BY <1>4, <1>6 DEF EndsOf
<1> QED BY <1>5, <1>7

------------------------------------------------------------------------------
(* The critical path *)

\* One step of a sum over sets, M saying what an element counts.
SummedBy(D, M, f) ==
  [T \in D |-> IF T = {} THEN 0 ELSE LET x == CHOOSE x \in T : TRUE IN f[T \ {x}] + M[x]]

\* There is such a sum over the subsets of a finite set: it can be extended from
\* the sets of n elements to those of n + 1.
LEMMA SumExists ==
  ASSUME NEW S, IsFiniteSet(S), NEW M
  PROVE  \E f : f = SummedBy(SUBSET S, M, f)
<1> DEFINE Upto(n) == {T \in SUBSET S : Cardinality(T) <= n}
           Bad == {n \in Nat : ~\E f : f = SummedBy(Upto(n), M, f)}
<1>1. \A T \in SUBSET S : IsFiniteSet(T) /\ Cardinality(T) \in Nat /\ Cardinality(T) <= Cardinality(S)
  BY FS_Subset, FS_CardinalityType
<1>2. Bad = {}
  <2> SUFFICES ASSUME Bad # {} PROVE FALSE
    OBVIOUS
  <2>1. PICK n \in Bad : \A m \in Bad : n <= m
    <3>1. Bad \in SUBSET Nat
      OBVIOUS
    <3> HIDE DEF Bad
    <3> QED BY <3>1, Least
  <2>2. n \in Nat /\ ~\E f : f = SummedBy(Upto(n), M, f)
    BY <2>1
  <2>3. CASE n = 0
    <3> DEFINE f == [T \in Upto(0) |-> 0]
    <3>1. \A T \in Upto(0) : T = {}
      BY <1>1, FS_EmptySet
    <3>2. f = SummedBy(Upto(0), M, f)
      <4> HIDE DEF Upto
      <4> QED BY <3>1 DEF SummedBy
    <3> HIDE DEF f
    <3> QED BY <2>2, <2>3, <3>2
  <2>4. CASE n # 0
    <3>1. n - 1 \in Nat /\ n - 1 \notin Bad
      <4> HIDE DEF Bad
      <4> QED BY <2>1, <2>2, <2>4
    <3>2. PICK f : f = SummedBy(Upto(n - 1), M, f)
      BY <3>1
    <3> DEFINE g == SummedBy(Upto(n), M, f)
    <3>3. ASSUME NEW T \in Upto(n - 1) PROVE T \in Upto(n) /\ g[T] = f[T]
      <4>1. T \in Upto(n)
        BY <1>1, <2>2, <3>1
      <4> HIDE DEF Upto
      <4> QED BY <3>2, <4>1 DEF SummedBy
    <3>4. ASSUME NEW T \in Upto(n), T # {}
          PROVE  T \ {CHOOSE x \in T : TRUE} \in Upto(n - 1)
      <4> DEFINE x == CHOOSE x \in T : TRUE
      <4>1. x \in T
        BY <3>4
      <4> HIDE DEF x
      <4>2. Cardinality(T \ {x}) = Cardinality(T) - 1
        BY <1>1, <4>1, FS_RemoveElement
      <4>3. T \ {x} \in Upto(n - 1)
        BY <1>1, <2>2, <4>2
      <4> QED BY <4>3 DEF x
    <3>5. g = SummedBy(Upto(n), M, g)
      <4>1. \A T \in Upto(n) : T # {} =>
              g[T \ {CHOOSE x \in T : TRUE}] = f[T \ {CHOOSE x \in T : TRUE}]
        BY <3>3, <3>4
      <4>2. g = SummedBy(Upto(n), M, f)
        OBVIOUS
      <4> HIDE DEF Upto, g
      <4>3. \A T \in Upto(n) :
              (IF T = {} THEN 0 ELSE LET x == CHOOSE x \in T : TRUE IN f[T \ {x}] + M[x])
                = IF T = {} THEN 0 ELSE LET x == CHOOSE x \in T : TRUE IN g[T \ {x}] + M[x]
        BY <4>1
      <4>4. SummedBy(Upto(n), M, f) = SummedBy(Upto(n), M, g)
        BY <4>3, Zenon DEF SummedBy
      <4> QED BY <4>2, <4>4
    <3> HIDE DEF g
    <3> QED BY <2>2, <3>5
  <2> QED BY <2>3, <2>4
<1>3. Upto(Cardinality(S)) = SUBSET S
  BY <1>1
<1>4. Cardinality(S) \in Nat
  BY FS_CardinalityType
<1> QED BY <1>2, <1>3, <1>4

\* The ticks in the spans of the elements of T, before the time n.
Ticks(T, a, b, n) == {k \in 0 .. n - 1 : \E x \in T : a[x] <= k /\ k < b[x]}

\* The lengths of spans that do not overlap sum up to no more than the time
\* there was.
LEMMA SumFits ==
  ASSUME NEW S, IsFiniteSet(S), NEW M, NEW a, NEW b, NEW n \in Nat,
         \A x \in S : a[x] \in Nat /\ b[x] \in Nat /\ a[x] <= b[x] /\ b[x] <= n /\ M[x] = b[x] - a[x],
         \A x, y \in S : x # y => b[x] <= a[y] \/ b[y] <= a[x],
         NEW f, f = SummedBy(SUBSET S, M, f)
  PROVE  f[S] <= n
<1> DEFINE Fits(T) == f[T] \in Nat /\ f[T] <= Cardinality(Ticks(T, a, b, n))
           Bad == {m \in Nat : \E T \in SUBSET S : Cardinality(T) = m /\ ~Fits(T)}
<1>1. \A T \in SUBSET S : IsFiniteSet(T) /\ Cardinality(T) \in Nat
  BY FS_Subset, FS_CardinalityType
<1>2. \A T \in SUBSET S :
        f[T] = IF T = {} THEN 0 ELSE LET x == CHOOSE x \in T : TRUE IN f[T \ {x}] + M[x]
  BY DEF SummedBy
<1>3. \A T : IsFiniteSet(Ticks(T, a, b, n)) /\ Cardinality(Ticks(T, a, b, n)) \in Nat
             /\ Cardinality(Ticks(T, a, b, n)) <= n
  <2> TAKE T
  <2>1. IsFiniteSet(0 .. n - 1) /\ Cardinality(0 .. n - 1) = n
    <3>1. 0 \in Int /\ n - 1 \in Int
      OBVIOUS
    <3>2. /\ IsFiniteSet(0 .. n - 1)
          /\ Cardinality(0 .. n - 1) = IF 0 > n - 1 THEN 0 ELSE (n - 1) - 0 + 1
      BY <3>1, FS_Interval
    <3> QED BY <3>2
  <2>2. Ticks(T, a, b, n) \subseteq 0 .. n - 1
    BY DEF Ticks
  <2> QED BY <2>1, <2>2, FS_Subset, FS_CardinalityType
<1>4. ASSUME NEW T \in SUBSET S, T # {},
             \A U \in SUBSET S : Cardinality(U) < Cardinality(T) => Fits(U)
      PROVE  Fits(T)
  <2> DEFINE x == CHOOSE x \in T : TRUE
             U == T \ {x}
             I == a[x] .. b[x] - 1
  <2>1. x \in T /\ x \in S /\ U \in SUBSET S
    BY <1>4
  <2>2. Cardinality(U) = Cardinality(T) - 1
    BY <1>1, <2>1, FS_RemoveElement
  <2>3. Fits(U)
    <3>1. Cardinality(U) < Cardinality(T)
      BY <1>1, <2>1, <2>2
    <3> HIDE DEF Fits, U
    <3> QED BY <1>4, <2>1, <3>1
  <2>4. f[T] = f[U] + M[x]
    BY <1>2, <1>4
  <2> HIDE DEF x
  <2>5. a[x] \in Nat /\ b[x] \in Nat /\ a[x] <= b[x] /\ b[x] <= n /\ M[x] = b[x] - a[x]
    BY <2>1
  <2>6. IsFiniteSet(I) /\ Cardinality(I) = M[x]
    <3>1. a[x] \in Int /\ b[x] - 1 \in Int
      BY <2>5
    <3>2. IsFiniteSet(I) /\ Cardinality(I) = IF a[x] > b[x] - 1 THEN 0 ELSE (b[x] - 1) - a[x] + 1
      BY <3>1, FS_Interval
    <3> QED BY <2>5, <3>2
  <2>7. Ticks(T, a, b, n) = Ticks(U, a, b, n) \cup I
    BY <2>1, <2>5 DEF Ticks
  <2>8. Ticks(U, a, b, n) \cap I = {}
    <3> SUFFICES ASSUME NEW k \in Ticks(U, a, b, n), k \in I PROVE FALSE
      OBVIOUS
    <3>1. PICK y \in U : a[y] <= k /\ k < b[y]
      BY DEF Ticks
    <3>2. y \in S /\ y # x
      BY <2>1
    <3>3. a[y] \in Nat /\ b[y] \in Nat /\ k \in Int
      BY <2>5, <3>2
    <3>4. b[x] <= a[y] \/ b[y] <= a[x]
      BY <2>1, <3>2
    <3>5. a[x] <= k /\ k < b[x]
      BY <2>5, <3>3
    <3> HIDE DEF I
    <3> QED BY <2>5, <3>1, <3>3, <3>4, <3>5
  <2>9. Cardinality(Ticks(T, a, b, n)) = Cardinality(Ticks(U, a, b, n)) + M[x]
    <3>1. /\ IsFiniteSet(Ticks(U, a, b, n)) /\ IsFiniteSet(I)
          /\ Cardinality(Ticks(U, a, b, n)) \in Nat
      BY <1>3, <2>6
    <3>2. Cardinality(Ticks(U, a, b, n) \cup I)
            = Cardinality(Ticks(U, a, b, n)) + Cardinality(I) - Cardinality(Ticks(U, a, b, n) \cap I)
      <4> HIDE DEF I, U
      <4> QED BY <3>1, FS_Union
    <3>3. Cardinality(Ticks(U, a, b, n) \cap I) = 0
      BY <2>8, FS_EmptySet
    <3>4. M[x] \in Nat
      BY <2>5
    <3> HIDE DEF I, U
    <3> QED BY <2>6, <2>7, <3>1, <3>2, <3>3, <3>4
  <2>10. M[x] \in Nat
    BY <2>5
  <2>11. f[U] \in Nat /\ f[U] <= Cardinality(Ticks(U, a, b, n))
    BY <2>3
  <2> HIDE DEF U
  <2> QED BY <1>3, <2>4, <2>9, <2>10, <2>11
<1>5. Fits({})
  <2>1. f[{}] = 0
    BY <1>2
  <2> QED BY <1>3, <2>1
<1>6. Bad = {}
  <2> SUFFICES ASSUME Bad # {} PROVE FALSE
    OBVIOUS
  <2>1. PICK m \in Bad : \A k \in Bad : m <= k
    <3>1. Bad \in SUBSET Nat
      OBVIOUS
    <3> HIDE DEF Bad
    <3> QED BY <3>1, Least
  <2>2. PICK T \in SUBSET S : Cardinality(T) = m /\ ~Fits(T)
    BY <2>1
  <2> HIDE DEF Fits
  <2>3. T # {}
    BY <1>5, <2>2
  <2>4. ASSUME NEW U \in SUBSET S, Cardinality(U) < Cardinality(T) PROVE Fits(U)
    <3> SUFFICES ASSUME ~Fits(U) PROVE FALSE
      OBVIOUS
    <3>1. Cardinality(U) \in Bad
      BY <1>1
    <3>2. m <= Cardinality(U) /\ m \in Nat
      BY <2>1, <3>1
    <3> QED BY <1>1, <2>2, <2>4, <3>2
  <2> QED BY <1>4, <2>2, <2>3, <2>4
<1>7. Fits(S)
  <2> HIDE DEF Fits
  <2>1. S \in SUBSET S /\ Cardinality(S) \in Nat
    BY <1>1
  <2> QED BY <1>6, <2>1
<1>8. f[S] \in Nat /\ f[S] <= Cardinality(Ticks(S, a, b, n))
  BY <1>7
<1> QED BY <1>3, <1>8

\* The layers of the graph.
Layers == {v.layer : v \in Drawn(Sharp)}

\* What a layer counts on the critical path.
Slowest(l) == Max({Duration(v) : v \in {w \in Drawn(Sharp) : w.layer = l}})
\* The vertex that it takes from the layer.
Critical(l) ==
  CHOOSE v \in Drawn(Sharp) :
    v.layer = l /\ \A w \in Drawn(Sharp) : w.layer = l => Duration(w) <= Duration(v)

\* The sum over the layers is a recursive function on their sets: the one that
\* the community module defines.
LEMMA SecondsAre ==
  ASSUME IsFiniteSet(Layers)
  PROVE  \E f : f = SummedBy(SUBSET Layers, [l \in Layers |-> Slowest(l)], f)
                /\ CriticalSeconds(Sharp) = f[Layers]
<1> DEFINE M == [l \in Layers |-> Slowest(l)]
           iter[T \in SUBSET Layers] ==
             IF T = {} THEN 0 ELSE LET x == CHOOSE x \in T : TRUE IN iter[T \ {x}] + Slowest(x)
<1>1. CriticalSeconds(Sharp) = iter[Layers]
  BY DEF CriticalSeconds, FoldSet, MapThenFoldSet, Slowest, Layers
<1> DEFINE Next(f) ==
             [T \in SUBSET Layers |->
                IF T = {} THEN 0 ELSE LET x == CHOOSE x \in T : TRUE IN f[T \ {x}] + Slowest(x)]
<1>2. ASSUME NEW f PROVE SummedBy(SUBSET Layers, M, f) = Next(f)
  <2>1. ASSUME NEW T \in SUBSET Layers
        PROVE  (IF T = {} THEN 0 ELSE LET x == CHOOSE x \in T : TRUE IN f[T \ {x}] + M[x])
                 = IF T = {} THEN 0 ELSE LET x == CHOOSE x \in T : TRUE IN f[T \ {x}] + Slowest(x)
    <3>1. T # {} => (CHOOSE x \in T : TRUE) \in Layers
      OBVIOUS
    <3>2. \A x \in Layers : M[x] = Slowest(x)
      OBVIOUS
    <3> HIDE DEF M
    <3> QED BY <3>1, <3>2
  <2> HIDE DEF M
  <2> QED BY <2>1, Zenon DEF SummedBy
<1>3. iter = CHOOSE f : f = Next(f)
  OBVIOUS
<1> HIDE DEF iter, Next
<1>4. PICK f : f = Next(f)
  <2> HIDE DEF M
  <2>1. PICK f : f = SummedBy(SUBSET Layers, M, f)
    BY SumExists
  <2>2. f = Next(f)
    BY <1>2, <2>1
  <2> QED BY <2>2
<1>5. iter = Next(iter)
  BY <1>3, <1>4
<1>6. iter = SummedBy(SUBSET Layers, M, iter)
  <2> HIDE DEF M
  <2> QED BY <1>2, <1>5
<1> QED BY <1>1, <1>6

\* How long a vertex took.
LEMMA DurationIs ==
  ASSUME Types, Recorded, GateInv, Layered, Timely, NEW v \in Drawn(Sharp)
  PROVE  /\ v.layer \in Nat /\ v.layer <= Len(history)
         /\ Duration(v) \in Nat /\ Duration(v) <= now
         /\ v.to # NoTime => /\ v.from \in Nat /\ v.to \in Nat /\ v.from <= v.to /\ v.to <= now
                             /\ Duration(v) = v.to - v.from
         /\ v.to = NoTime => Duration(v) = 0
<1>1. PICK s \in Vertices : Shows(v, s)
  BY DrawnShows
<1>2. v.layer \in Nat /\ v.layer <= Len(history)
  <2>1. /\ s \in DOMAIN history /\ history[s].type = "Scheduled" /\ history[s].decided < s
        /\ s \in Nat /\ s <= Len(history) /\ Len(history) \in Nat
    BY DEF Vertices, Ids, Layered, Recorded, Written
  <2>2. history[s].decided \in Nat
    BY <2>1, InSequence, EventIs DEF Recorded, Written
  <2> QED BY <1>1, <2>1, <2>2 DEF Shows
<1>3. now \in Nat
  BY TaskIs
<1>4. CASE v.to = NoTime
  BY <1>2, <1>3, <1>4 DEF Duration
<1>5. CASE v.to # NoTime
  <2>1. PICK i \in EndsOf(s) : v.to = history[i].at /\ v.from <= v.to
    BY <1>1, <1>5 DEF Shows
  <2>2. v.to \in Nat /\ v.to <= now /\ v.from \in Nat
    BY <1>1, <2>1, EndIsOne DEF Shows
  <2> QED BY <1>2, <1>3, <1>5, <2>1, <2>2 DEF Duration
<1> QED BY <1>4, <1>5

\* A layer counts what one of its vertices took.
LEMMA CriticalIs ==
  ASSUME Types, Recorded, GateInv, Layered, Timely, NEW l \in Layers
  PROVE  Critical(l) \in Drawn(Sharp) /\ Critical(l).layer = l /\ Slowest(l) = Duration(Critical(l))
<1> DEFINE D == {Duration(v) : v \in {w \in Drawn(Sharp) : w.layer = l}}
           U == {now - d : d \in D}
<1>1. now \in Nat
  BY TaskIs
<1>2. \A d \in D : d \in Nat /\ d <= now
  BY DurationIs
<1>3. D # {}
  BY DEF Layers
<1>4. PICK d \in D : \A y \in D : y <= d
  <2>1. U \in SUBSET Nat /\ U # {}
    <3> HIDE DEF D
    <3> QED BY <1>1, <1>2, <1>3
  <2>2. PICK u \in U : \A y \in U : u <= y
    <3> HIDE DEF U
    <3> QED BY <2>1, Least
  <2>3. PICK d \in D : u = now - d
    BY <2>2
  <2>4. ASSUME NEW y \in D PROVE y <= d
    <3>1. now - d <= now - y
      BY <2>2, <2>3
    <3> HIDE DEF D
    <3> QED BY <1>1, <1>2, <3>1
  <2> QED BY <2>4
<1>5. PICK v \in Drawn(Sharp) : v.layer = l /\ d = Duration(v)
  BY <1>4
<1>6. \A w \in Drawn(Sharp) : w.layer = l => Duration(w) <= Duration(v)
  BY <1>4, <1>5
<1>7. /\ Critical(l) \in Drawn(Sharp) /\ Critical(l).layer = l
      /\ \A w \in Drawn(Sharp) : w.layer = l => Duration(w) <= Duration(Critical(l))
  BY <1>5, <1>6 DEF Critical
<1>8. Duration(Critical(l)) = d
  <2>1. Duration(Critical(l)) \in D
    BY <1>7
  <2>2. d <= Duration(Critical(l)) /\ Duration(Critical(l)) <= d
    BY <1>4, <1>5, <1>7, <2>1
  <2> HIDE DEF D
  <2> QED BY <1>2, <2>1, <2>2
<1>9. Max(D) = d
  <2> HIDE DEF D
  <2>1. \A y \in D : (\A z \in D : y >= z) => y = d
    BY <1>2, <1>4
  <2>2. \A z \in D : d >= z
    BY <1>2, <1>4
  <2> QED BY <2>1, <2>2 DEF Max
<1> QED BY <1>7, <1>8, <1>9 DEF Slowest

\* The seconds of the critical path have passed.
LEMMA SecondsHavePassed ==
  ASSUME Types, Recorded, GateInv, Layered, Timely
  PROVE  CriticalSeconds(Sharp) <= now
<1> DEFINE M == [l \in Layers |-> Slowest(l)]
           Timed(l) == Critical(l).to # NoTime
           a == [l \in Layers |-> IF Timed(l) THEN Critical(l).from ELSE 0]
           b == [l \in Layers |-> IF Timed(l) THEN Critical(l).to ELSE 0]
<1>1. now \in Nat
  BY TaskIs
<1>2. IsFiniteSet(Layers)
  <2>1. Layers \subseteq Nat /\ \A l \in Layers : l <= Len(history)
    BY DurationIs DEF Layers
  <2>2. Len(history) \in Nat
    BY DEF Recorded, Written
  <2> QED BY <2>1, <2>2, FS_BoundedSetOfNaturals
<1>3. ASSUME NEW l \in Layers
      PROVE  a[l] \in Nat /\ b[l] \in Nat /\ a[l] <= b[l] /\ b[l] <= now /\ M[l] = b[l] - a[l]
  <2>1. Critical(l) \in Drawn(Sharp) /\ M[l] = Duration(Critical(l))
    BY CriticalIs
  <2>2. CASE Timed(l)
    <3>1. a[l] = Critical(l).from /\ b[l] = Critical(l).to
      BY <2>2
    <3> HIDE DEF a, b, M
    <3> QED BY <2>1, <2>2, <3>1, DurationIs
  <2>3. CASE ~Timed(l)
    <3>1. a[l] = 0 /\ b[l] = 0
      BY <2>3
    <3> HIDE DEF a, b, M
    <3> QED BY <1>1, <2>1, <2>3, <3>1, DurationIs
  <2> QED BY <2>2, <2>3
<1>4. ASSUME NEW l \in Layers, NEW m \in Layers, l < m
      PROVE  b[l] <= a[m] \/ b[m] <= a[l]
  <2>1. /\ Critical(l) \in Drawn(Sharp) /\ Critical(l).layer = l
        /\ Critical(m) \in Drawn(Sharp) /\ Critical(m).layer = m
    BY CriticalIs
  <2>2. CASE Timed(l) /\ Timed(m)
    <3>1. Critical(l).to <= Critical(m).from
      BY <1>4, <2>1, <2>2, Apart
    <3> QED BY <2>2, <3>1
  <2>3. CASE ~Timed(l)
    <3>1. b[l] = 0 /\ a[m] \in Nat
      BY <1>3, <2>3
    <3> HIDE DEF a, b
    <3> QED BY <3>1
  <2>4. CASE ~Timed(m)
    <3>1. b[m] = 0 /\ a[l] \in Nat
      BY <1>3, <2>4
    <3> HIDE DEF a, b
    <3> QED BY <3>1
  <2> QED BY <2>2, <2>3, <2>4
<1>5. \A l, m \in Layers : l # m => b[l] <= a[m] \/ b[m] <= a[l]
  <2> SUFFICES ASSUME NEW l \in Layers, NEW m \in Layers, l # m
               PROVE  b[l] <= a[m] \/ b[m] <= a[l]
    OBVIOUS
  <2>1. l < m \/ m < l
    BY DurationIs DEF Layers
  <2> HIDE DEF a, b
  <2> QED BY <1>4, <2>1
<1>6. PICK f : f = SummedBy(SUBSET Layers, M, f) /\ CriticalSeconds(Sharp) = f[Layers]
  BY <1>2, SecondsAre
<1> HIDE DEF M, a, b
<1>7. f[Layers] <= now
  BY <1>1, <1>2, <1>3, <1>5, <1>6, SumFits
<1> QED BY <1>6, <1>7

\* An edge of the graph is a dependency, what is at its end was decided after
\* what is at its start was over; so the vertices of the critical path do not
\* overlap and its seconds have really passed, for any plan and history
\* (build_graph, critical_path).
THEOREM EdgesAreCausalAlways == ChaosSpec => []EdgesAreCausal
<1>1. Types /\ Recorded /\ GateInv /\ Timely /\ Layered => EdgesAreCausal
  <2> SUFFICES ASSUME Types, Recorded, GateInv, Timely, Layered PROVE EdgesAreCausal
    OBVIOUS
  <2>1. CriticalSeconds(Sharp) <= now
    BY SecondsHavePassed
  <2>2. \A e \in Edges(Sharp) :
          LET close == CloseOf(Sharp)
              over == IF history[e[1].id].kind = "node" THEN About(Sharp, "Ended", e[1].id)
                      ELSE {close[o] : o \in DOMAIN close \cap {e[1].id}}
          IN \E i \in over : i < e[2].layer
    BY EdgesRunOn
  <2> QED BY <2>1, <2>2 DEF EdgesAreCausal
<1> QED BY <1>1, LayersInductive, PTL
==============================================================================
