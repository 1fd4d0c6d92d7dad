------------------------- MODULE MCComputeDispatch -------------------------
(* The calls and deployments of ComputeDispatch that TLC explores. *)
EXTENDS ComputeDispatch

MCSettings ==
  [model : {"inline"}, backend : {"local"},
   troubles : {{}, {"stall", "die", "fail"}}, failAt : {0, 2}]
  \cup [model : {"async"}, backend : {"ray"},
        troubles : {{}, {"stall", "die", "fail"}}, failAt : {0}]
  \cup [model : {"async"}, backend : {"local"}, troubles : {{"die"}}, failAt : {0, 1}]
  \cup [model : {"inline"}, backend : {"ray"}, troubles : {{"die", "fail"}}, failAt : {0}]
=============================================================================
