------------------------------- MODULE MCRuns -------------------------------
(* The runs of the checked instance. *)
EXTENDS ChaosExperiment

Quiet == [boxes |-> {"c1"}, budget |-> 0, heartbeat |-> 0, backoff |-> 0, attempts |-> 2,
          deadline |-> 0, horizon |-> 0, signals |-> 0, faults |-> 1, cancels |-> FALSE, pids |-> 0,
          lab |-> FALSE, presses |-> 0, plan |-> Hello]
Timed == [Quiet EXCEPT !.horizon = 4, !.budget = 3, !.heartbeat = 2, !.backoff = 1, !.plan = Pipeline]

MCScenarios ==
  { Quiet,
    [Quiet EXCEPT !.plan = DurabilityDemo, !.cancels = TRUE],
    [Quiet EXCEPT !.plan = Gated, !.signals = 1],
    [Quiet EXCEPT !.plan = HumanGate, !.signals = 1],
    [Quiet EXCEPT !.plan = ResearchAgent(2, TRUE), !.signals = 1, !.faults = 0],
    \* the same gate twice, the first time with an expiry
    [Quiet EXCEPT !.plan = <<Gate("g", TRUE), Gate("g", FALSE)>>, !.signals = 2, !.faults = 0],
    \* a fan-out whose calls take time
    [Quiet EXCEPT !.plan = <<Call(2), Call(1)>>, !.horizon = 2, !.budget = 2, !.faults = 0],
    \* clocks, deaths, and processes with the same pid or another
    [Timed EXCEPT !.faults = 2, !.pids = 1],
    \* calls under the deadline of their run, the second one with less of it
    [Timed EXCEPT !.plan = <<Call(1), Call(1)>>, !.horizon = 3, !.deadline = 2],
    \* the buttons of the Chaos Lab under a long activity
    [Timed EXCEPT !.boxes = {"c1", "c2"}, !.heartbeat = 0, !.budget = 2,
                  !.horizon = 3, !.presses = 2, !.faults = 0],
    \* the experiment on its own workflow, here of one topic, and with an operator and failures
    [Quiet EXCEPT !.plan = ResearchAgent(1, FALSE), !.boxes = {"c1", "c2"}, !.lab = TRUE,
                  !.faults = 0],
    [Quiet EXCEPT !.plan = <<Gate("publish", FALSE)>>, !.boxes = {"c1", "c2"},
                  !.lab = TRUE, !.presses = 1, !.faults = 1] }
=============================================================================
