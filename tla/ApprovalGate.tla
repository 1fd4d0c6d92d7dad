---------------------------- MODULE ApprovalGate ----------------------------
(***************************************************************************)
(* One durable approval gate: AncoraWorkflow.approval on the workflow      *)
(* side, the open/close indexing activities, and ApprovalService.decide    *)
(* called by several people at once.                                       *)
(*                                                                         *)
(* The workflow's state survives its workers (Temporal replays it); the    *)
(* row of approval_gate is only an index, written by whoever gets there.   *)
(***************************************************************************)
EXTENDS Naturals, FiniteSets

CONSTANTS
  Deciders,      \* callers of the decision endpoint; each calls once
  MayStall,      \* an indexing activity may outlive its 10 s start_to_close
  MayTerminate,  \* the run may be cancelled or terminated at the gate
  MayFail        \* a database write or an API process may fail

ASSUME GateAssumption ==
  /\ IsFiniteSet(Deciders)
  /\ {MayStall, MayTerminate, MayFail} \subseteq BOOLEAN

Verdicts == {"approved", "rejected"}
Statuses == Verdicts \cup {"none", "waiting", "expired"}

VARIABLES
  timed,     \* approval() was given a timeout
  wf,        \* where the workflow is
  decision,  \* _ancora_decisions[gate_id]: the last verdict heard
  outcome,   \* what approval() returned
  row,       \* the status column of the gate's row; "none": no row
  opening,   \* the open activity's write: "unsent", "pending" or "over"
  closing,   \* the close activity: [at, loaded]
  decider,   \* what each decider's request is doing: [at, verdict, loaded]
  heard,     \* history: verdicts delivered to the workflow
  indexed    \* history: the close activity wrote the outcome

vars == <<timed, wf, decision, outcome, row, opening, closing, decider, heard, indexed>>
workflow == <<wf, decision, outcome, heard>>

WfStates == {"before", "opening", "parked", "closing", "past", "completed", "failed",
             "terminated"}

TypeOK ==
  /\ timed \in BOOLEAN
  /\ wf \in WfStates
  /\ decision \in Verdicts \cup {"none"}
  /\ outcome \in Verdicts \cup {"none", "expired"}
  /\ row \in Statuses
  /\ opening \in {"unsent", "pending", "over"}
  /\ closing \in [at : {"unsent", "pending", "loaded", "over"}, loaded : Statuses]
  /\ decider \in [Deciders -> [at : {"idle", "read", "answered", "loaded", "done"},
                               verdict : Verdicts \cup {"none", "expired"},
                               loaded : Statuses]]
  /\ heard \subseteq Verdicts
  /\ indexed \in BOOLEAN
  /\ wf \in {"closing", "past"} => outcome # "none" /\ closing.at # "unsent"
  /\ closing.at # "unsent" => outcome # "none"

Init ==
  /\ timed \in BOOLEAN
  /\ wf = "before"
  /\ decision = "none" /\ outcome = "none"
  /\ row = "none"
  /\ opening = "unsent"
  /\ closing = [at |-> "unsent", loaded |-> "none"]
  /\ decider = [d \in Deciders |-> [at |-> "idle", verdict |-> "none", loaded |-> "none"]]
  /\ heard = {}
  /\ indexed = FALSE

Finished == wf \in {"completed", "failed", "terminated"}

\* An ORM write: the column is only sent when it differs from the value loaded.
Written(loaded, status) == IF loaded = status THEN row ELSE status

------------------------------------------------------------------------------
(* The workflow *)

\* approval() schedules open_approval_gate.
Arrive ==
  /\ wf = "before"
  /\ wf' = "opening"
  /\ opening' = "pending"
  /\ UNCHANGED <<timed, decision, outcome, row, closing, decider, heard, indexed>>

\* Mutant of OpenEnds: a failed indexing activity fails the workflow.
OpenEndsOrFails ==
  /\ wf = "opening"
  /\ IF opening = "over" THEN wf' = "parked" ELSE wf' = "failed"
  /\ opening = "over" \/ MayFail
  /\ UNCHANGED <<timed, decision, outcome, row, opening, closing, decider, heard, indexed>>

\* The activity returned, or it timed out or failed and that is swallowed; one
\* that timed out may still be running.
OpenEnds ==
  /\ wf = "opening"
  /\ opening = "over" \/ MayFail \/ MayStall
  /\ wf' = "parked"
  /\ opening' = IF MayStall THEN opening ELSE "over"
  /\ UNCHANGED <<timed, decision, outcome, row, closing, decider, heard, indexed>>

\* The wait ends on a decision; several may have arrived, the last counts.
Resume ==
  /\ wf = "parked"
  /\ decision # "none"
  /\ outcome' = decision
  /\ wf' = "closing"
  /\ closing' = [closing EXCEPT !.at = "pending"]
  /\ UNCHANGED <<timed, decision, row, opening, decider, heard, indexed>>

\* The timer fires: a synthetic rejection, whatever arrives later.
Expire ==
  /\ wf = "parked"
  /\ timed
  /\ outcome' = "expired"
  /\ wf' = "closing"
  /\ closing' = [closing EXCEPT !.at = "pending"]
  /\ UNCHANGED <<timed, decision, row, opening, decider, heard, indexed>>

CloseEnds ==
  /\ wf = "closing"
  /\ closing.at = "over" \/ MayFail \/ MayStall
  /\ wf' = "past"
  /\ closing' = IF MayStall THEN closing ELSE [closing EXCEPT !.at = "over"]
  /\ UNCHANGED <<timed, decision, outcome, row, opening, decider, heard, indexed>>

Complete ==
  /\ wf = "past"
  /\ wf' = "completed"
  /\ UNCHANGED <<timed, decision, outcome, row, opening, closing, decider, heard, indexed>>

Terminate ==
  /\ MayTerminate
  /\ ~Finished
  /\ wf' = "terminated"
  /\ UNCHANGED <<timed, decision, outcome, row, opening, closing, decider, heard, indexed>>

------------------------------------------------------------------------------
(* The indexing activities *)

\* open_gate: one upsert, which also resets a row that is there.
OpenGate ==
  /\ opening = "pending"
  /\ \/ row' = "waiting"
     \/ MayFail /\ row' = row
  /\ opening' = "over"
  /\ UNCHANGED <<timed, workflow, closing, decider, indexed>>

\* close_gate reads the row ...
CloseGateLoads ==
  /\ closing.at = "pending"
  /\ closing' = [at |-> "loaded", loaded |-> row]
  /\ UNCHANGED <<timed, workflow, row, opening, decider, indexed>>

\* ... and writes the outcome; an insert that meets a row fails and is swallowed.
CloseGate ==
  /\ closing.at = "loaded"
  /\ closing' = [closing EXCEPT !.at = "over"]
  /\ \/ /\ closing.loaded = "none" => row = "none"
        /\ row' = Written(closing.loaded, outcome)
        /\ indexed' = TRUE
     \/ /\ MayFail \/ (closing.loaded = "none" /\ row # "none")
        /\ UNCHANGED <<row, indexed>>
  /\ UNCHANGED <<timed, workflow, opening, decider>>

------------------------------------------------------------------------------
(* A decider's request *)

At(d, at) == decider' = [decider EXCEPT ![d].at = at]

\* decide() finds the row by its key, whatever its status is.
Read(d, v) ==
  /\ decider[d].at = "idle"
  /\ row # "none"
  /\ decider' = [decider EXCEPT ![d] = [@ EXCEPT !.at = "read", !.verdict = v]]
  /\ UNCHANGED <<timed, workflow, row, opening, closing, indexed>>

Hear(v) ==
  /\ ~Finished
  /\ decision' = v
  /\ heard' = heard \cup {v}
  /\ UNCHANGED <<wf, outcome>>

\* The signal reaches the workflow, parked or not yet or no longer.
Signal(d) ==
  /\ decider[d].at = "read"
  /\ Hear(decider[d].verdict)
  /\ At(d, "answered")
  /\ UNCHANGED <<timed, row, opening, closing, indexed>>

\* The run's own signal endpoint: a decision that touches no row.
SignalRun(d, v) ==
  /\ decider[d].at = "idle"
  /\ Hear(v)
  /\ At(d, "done")
  /\ UNCHANGED <<timed, row, opening, closing, indexed>>

\* Mutant of SignalFails: the error is swallowed, and the row will be marked.
SignalFailsUnseen(d) ==
  /\ MayFail
  /\ decider[d].at = "read"
  /\ Hear(decider[d].verdict) \/ UNCHANGED workflow
  /\ At(d, "answered")
  /\ UNCHANGED <<timed, row, opening, closing, indexed>>

\* Mutant of SignalFails: any error counts as a workflow that is over.
SignalFailsExpired(d) ==
  /\ MayFail
  /\ decider[d].at = "read"
  /\ Hear(decider[d].verdict) \/ UNCHANGED workflow
  /\ decider' = [decider EXCEPT ![d] = [@ EXCEPT !.at = "answered", !.verdict = "expired"]]
  /\ UNCHANGED <<timed, row, opening, closing, indexed>>

\* The RPC fails otherwise: nothing is marked, delivered or not.
SignalFails(d) ==
  /\ MayFail
  /\ decider[d].at = "read"
  /\ Hear(decider[d].verdict) \/ UNCHANGED workflow
  /\ At(d, "done")
  /\ UNCHANGED <<timed, row, opening, closing, indexed>>

\* The workflow is over: the row will be marked expired, whatever it says now.
Refused(d) ==
  /\ decider[d].at = "read"
  /\ Finished
  /\ decider' = [decider EXCEPT ![d] = [@ EXCEPT !.at = "answered", !.verdict = "expired"]]
  /\ UNCHANGED <<timed, workflow, row, opening, closing, indexed>>

\* The row is loaded again, in a transaction of its own ...
MarkLoads(d) ==
  /\ decider[d].at = "answered"
  /\ decider' = [decider EXCEPT ![d] = [@ EXCEPT !.at = "loaded", !.loaded = row]]
  /\ UNCHANGED <<timed, workflow, row, opening, closing, indexed>>

\* ... and marked.
Mark(d) ==
  /\ decider[d].at = "loaded"
  /\ row' = Written(decider[d].loaded, decider[d].verdict)
  /\ At(d, "done")
  /\ UNCHANGED <<timed, workflow, opening, closing, indexed>>

\* The API dies, or its write fails, after the signal was answered.
Abandon(d) ==
  /\ MayFail
  /\ decider[d].at \in {"answered", "loaded"}
  /\ At(d, "done")
  /\ UNCHANGED <<timed, workflow, row, opening, closing, indexed>>

------------------------------------------------------------------------------
Workflow == Arrive \/ OpenEnds \/ Resume \/ Expire \/ CloseEnds \/ Complete
Activity == OpenGate \/ CloseGateLoads \/ CloseGate
Decide(d) ==
  \/ \E v \in Verdicts : Read(d, v) \/ SignalRun(d, v)
  \/ Signal(d) \/ SignalFails(d) \/ Refused(d)
  \/ MarkLoads(d) \/ Mark(d) \/ Abandon(d)

Next ==
  \/ Workflow \/ Terminate \/ Activity
  \/ \E d \in Deciders : Decide(d)

\* Temporal runs the workflow and its timer on, and an activity worker takes
\* the indexing activities or lets them time out; nobody has to decide.
Fairness == WF_vars(Workflow) /\ WF_vars(Activity)

Spec == Init /\ [][Next]_vars
FairSpec == Spec /\ Fairness

------------------------------------------------------------------------------
(* Properties *)

\* A row that says approved or rejected speaks of a decision the workflow has
\* heard, whatever failed on the way (approval_service.py: otherwise it "would
\* be a lie the UI has no way to detect").
RowIsHeard == row \in Verdicts => row \in heard

\* Nothing writes the row any more, and the workflow is past the gate.
Settled ==
  /\ wf \in {"past", "completed"}
  /\ opening # "pending" /\ closing.at = "over"
  /\ \A d \in Deciders : decider[d].at \in {"idle", "done"}

\* One decider's mark and the workflow's close leave the same row, in either
\* order and whatever fails: the outcome that approval() returned
\* (approval_service.py: "the end state is the same either way").  A stalled
\* open activity may still put the gate back into the inbox, and a second
\* decider, or one that comes after the timer, may overwrite the row.
OneActed == Cardinality({d \in Deciders : decider[d].at # "idle"}) <= 1
EndStateSame ==
  Settled /\ indexed /\ OneActed /\ outcome # "expired" =>
    row = outcome \/ (MayStall /\ row = "waiting")

\* A gate with a timeout, or with a decision, is passed, also when indexing it
\* fails (approval(): "if the indexing activity is unavailable the gate still
\* parks, still waits, and is still resolved by the signal").
GateResolves ==
  (wf = "before" /\ timed) \/ decision # "none"
    ~> wf \in {"past", "completed", "terminated"}
==============================================================================
