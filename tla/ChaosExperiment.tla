-------------------------- MODULE ChaosExperiment --------------------------
(***************************************************************************)
(* The Chaos Lab on top of a run: an operator who kills and restarts       *)
(* containers by button, and an experiment that started the run, kills a   *)
(* container while work is in flight, drives the run to its end, scores it *)
(* and restarts what it killed.  Both first list the containers and pick   *)
(* one, and then ask Docker, which may answer too late or not at all.      *)
(*                                                                         *)
(* The experiment's deadlines are not counted: they may pass at any time.  *)
(***************************************************************************)
EXTENDS RunViews

VARIABLES
  exp,     \* the experiment: where it is, the container it picked, whether it
           \* killed one (and the run was open or over then), whether it sent
           \* the decision, and its verdict
  button,  \* the operator's request: idle, or the action and the container
  presses, \* requests so far
  kicks,   \* history variable: containers that died by other hands
  unheard  \* history variable: a kill or a start Docker did not answer

lab == <<exp, button, presses, kicks, unheard>>
vars == <<world, lab>>

NoBox == ""
NoAim == [do |-> "idle", box |-> NoBox]

ChaosInit ==
  /\ Init
  /\ exp = [at |-> IF sc.lab THEN "inflight" ELSE "off", box |-> NoBox, killed |-> "no",
            signaled |-> FALSE, verdict |-> "none"]
  /\ button = NoAim
  /\ presses = 0
  /\ kicks = 0
  /\ unheard = FALSE

Goto(at) == exp' = [exp EXCEPT !.at = at]

------------------------------------------------------------------------------
(* ChaosService *)

Running == {c \in Boxes : box[c].up}

\* _resolve: any container in the state that is preferred, else any.
Targets(preferred) == IF preferred # {} THEN preferred ELSE Boxes
KillTargets == Targets(Running)

\* Mutant of StartTargets: the first container of the service, up or not.
StartTargetsAny == Boxes

StartTargets == Targets(Boxes \ Running)

\* What Docker makes of the request, whether it is heard of or not: a kill of a
\* container that does not run is refused.
Kill(c) == IF box[c].up THEN Die(c) ELSE UNCHANGED box
Start(c) == IF box[c].up THEN UNCHANGED box ELSE Boot(c)
Log == kills' = kills \cup {now}

\* The answer comes, or it does not and the caller gets an exception.
Answered == UNCHANGED <<faults, unheard>>
Unanswered ==
  /\ faults < sc.faults
  /\ faults' = faults + 1
  /\ unheard' = TRUE

------------------------------------------------------------------------------
(* The operator: POST /chaos/inject *)

Press(do, targets) ==
  /\ button = NoAim
  /\ presses < sc.presses
  /\ presses' = presses + 1
  /\ \E c \in targets : button' = [do |-> do, box |-> c]
  /\ UNCHANGED <<world, exp, kicks, unheard>>

\* A kill is only for a system with a run in progress.
PressKill == ~Closed /\ Running # {} /\ Press("kill", KillTargets)
PressRestart == Press("restart", StartTargets)

Inject ==
  /\ button # NoAim
  /\ button' = NoAim
  /\ IF button.do = "kill"
       THEN /\ Kill(button.box)
            /\ kicks' = IF box[button.box].up THEN kicks + 1 ELSE kicks
            /\ \/ Answered /\ IF box[button.box].up THEN Log ELSE UNCHANGED kills
               \/ Unanswered /\ UNCHANGED kills
       ELSE /\ Start(button.box)
            /\ Answered \/ Unanswered
            /\ UNCHANGED <<kicks, kills>>
  /\ UNCHANGED <<sc, now, history, flow, task, pending, visits, exp, presses>>

------------------------------------------------------------------------------
(* The experiment: ChaosExperimentRunner.run *)

\* The graph shows an attempt, or the experiment has waited long enough.
AwaitInflight ==
  /\ exp.at = "inflight"
  /\ Goto("aim")
  /\ UNCHANGED <<world, button, presses, kicks, unheard>>

AimKill ==
  /\ exp.at = "aim"
  /\ \E c \in KillTargets :
       exp' = IF box[c].up THEN [exp EXCEPT !.at = "kill", !.box = c]
              ELSE [exp EXCEPT !.at = "done", !.verdict = "failed"]
  /\ UNCHANGED <<world, button, presses, kicks, unheard>>

\* A kill that failed, or that was not heard of, ends the experiment.
KillOne ==
  /\ exp.at = "kill"
  /\ Kill(exp.box)
  /\ \/ /\ Answered /\ box[exp.box].up
        /\ Log
        /\ exp' = [exp EXCEPT !.at = "drive", 
                                    !.killed = IF Closed THEN "over" ELSE "open"]
     \/ /\ Unanswered \/ (Answered /\ ~box[exp.box].up)
        /\ UNCHANGED kills
        /\ exp' = [exp EXCEPT !.at = "done", !.verdict = "failed"]
  /\ UNCHANGED <<sc, now, history, flow, task, pending, visits, button, presses, kicks>>

\* The gate's row is there from some time in its open activity to its close.
GateWaiting ==
  \E n \in DOMAIN visits :
    /\ OutcomeOf(visits[n].open) = "completed" \/ Now(visits[n].open) = "started"
    /\ \A i \in Ids("Scheduled") :
         history[i].kind = "close" /\ i > visits[n].open => OutcomeOf(i) # "completed"

\* One decision, and another one if the signal raised.
SignalGate ==
  /\ exp.at = "drive" /\ ~exp.signaled
  /\ GateWaiting
  /\ Open
  /\ history' = Append(history, [type |-> "Signaled", at |-> now, gate |-> "publish",
                                 answer |-> "approved"])
  /\ Wakes
  /\ \/ Answered /\ exp' = [exp EXCEPT !.signaled = TRUE]
     \/ faults < sc.faults /\ faults' = faults + 1 /\ UNCHANGED <<unheard, exp>>
  /\ UNCHANGED <<sc, now, flow, pending, box, visits, kills, button, presses, kicks>>

\* The run is over, or time is; then the history is read and scored.
Completed(read) == \E i \in Of(read, "Closed") : read.events[i].status = "Completed"
NoneTwice(read) ==
  \A i, j \in Of(read, "Ended") :
    /\ read.events[i].outcome = "completed" /\ read.events[j].outcome = "completed"
    /\ read.events[i].of = read.events[j].of
    => i = j

\* Mutant of Survived: nothing lost or done twice so far is enough.
SurvivedSoFar(read) == NoneTwice(read)

Survived(read) == Completed(read) /\ NoneTwice(read)

Score ==
  /\ exp.at = "drive"
  /\ exp' = [exp EXCEPT !.at = "restore",
                        !.verdict = IF Survived(Sharp) THEN "passed" ELSE "failed"]
  /\ UNCHANGED <<world, button, presses, kicks, unheard>>

AimRestore ==
  /\ exp.at = "restore"
  /\ \E c \in StartTargets : exp' = [exp EXCEPT !.at = "start", !.box = c]
  /\ UNCHANGED <<world, button, presses, kicks, unheard>>

RestoreOne ==
  /\ exp.at = "start"
  /\ Start(exp.box)
  /\ Goto("done")
  /\ Answered \/ Unanswered
  /\ UNCHANGED <<sc, now, history, flow, task, pending, visits, kills, button, presses, kicks>>

Experiment ==
  \/ AwaitInflight \/ AimKill \/ KillOne \/ SignalGate \/ Score \/ AimRestore \/ RestoreOne
Operator == PressKill \/ PressRestart \/ Inject

------------------------------------------------------------------------------
(* Together *)

Calm == UNCHANGED lab

ChaosNext ==
  \/ RunStep /\ Calm
  \/ (Tick \/ SomebodySignals \/ SomebodyRestarts) /\ Calm
  \/ (TaskTimesOut \/ Terminate \/ \E s \in DOMAIN pending : FailAttempt(s)) /\ Calm
  \/ /\ \E c \in Boxes : Crash(c)
     /\ kicks' = kicks + 1
     /\ UNCHANGED <<exp, button, presses, unheard>>
  \/ Experiment
  \/ Operator

\* Workers poll and the server keeps its clocks, so a run goes on as long as
\* one of its steps can be taken; the experiment's request is not abandoned.
Fairness == WF_vars(RunStep /\ Calm) /\ WF_vars(Experiment)
ChaosSpec == ChaosInit /\ [][ChaosNext]_vars /\ Fairness

------------------------------------------------------------------------------
(* Properties *)

\* PassedMeansSurvived.  A passed experiment killed a container while its run
\* was open, and that run completed with one result of every activity it
\* scheduled.  Nobody else decides its gate.  (run, evaluate.)
PassedMeansSurvived ==
  exp.verdict = "passed" =>
    /\ exp.killed = "open"
    /\ Closed /\ history[Len(history)] = [Close("Completed") EXCEPT !.at = history[Len(history)].at]
    /\ \A s \in Activities(Sharp) :
         Cardinality({i \in TerminalOf(s) : history[i].outcome = "completed"}) = 1

\* FleetAsFound.  When the experiment is over, no more containers are dead than
\* others killed, whatever the operator did in the meantime, unless Docker left
\* a request unanswered.  (run's finally, _restore, _resolve.)
FleetAsFound ==
  exp.at \in {"off", "done"} /\ ~unheard => Cardinality(Boxes \ Running) <= kicks

\* RunRecovers.  However the kills of the experiment and of the operator fall,
\* the run comes to its end, or to its gate with nothing decided yet, unless
\* all containers are dead and nobody starts one.
\* (The claim of the Chaos Lab, chaos.py:3.)
RunRecovers ==
  sc.lab => []<>(\/ Closed \/ Running = {}
                 \/ flow.phase = "parked" /\ Submitted("publish") = {})
=============================================================================
