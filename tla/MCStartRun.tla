----------------------------- MODULE MCStartRun -----------------------------
(* The instances of StartRun that TLC explores. *)
EXTENDS StartRun

CONSTANTS r1, r2, r3, c1, g

MCSettings ==
  { \* three requests, no failure
    [requests |-> {r1, r2, r3}, sessions |-> {c1}, ends |-> {"Completed"}, failures |-> 0],
    \* two requests and failures
    [requests |-> {r1, r2}, sessions |-> {c1}, ends |-> {"Completed", "Failed"}, failures |-> 1],
    \* two runs, a reader and the reconciler, nothing fails
    [requests |-> {r1, r2}, sessions |-> {c1, g}, ends |-> {"Terminated"}, failures |-> 0],
    \* one run, a reader and the reconciler, every end and failures
    [requests |-> {r1}, sessions |-> {c1, g}, ends |-> AllEnds, failures |-> 2] }
=============================================================================
