------------------------- MODULE ApprovalGateProofs -------------------------
(***************************************************************************)
(* Proofs about ApprovalGate, for any number of deciders and whatever may  *)
(* stall, fail or be terminated.                                           *)
(***************************************************************************)
EXTENDS ApprovalGate, FiniteSetTheorems, TLAPS

Ats == {"idle", "read", "answered", "loaded", "done"}
Request == [at : Ats, verdict : Verdicts \cup {"none", "expired"}, loaded : Statuses]

\* A decision the workflow holds, or has answered with, was heard.
WorkflowHeard ==
  /\ decision # "none" => decision \in heard
  /\ outcome \in Verdicts => outcome \in heard

\* What a request is about to write was heard as well.
RequestHeard(d) ==
  /\ decider[d].at = "read" => decider[d].verdict \in Verdicts
  /\ decider[d].at \in {"answered", "loaded"} =>
       decider[d].verdict \in heard \cup {"expired"}

GateInv == TypeOK /\ WorkflowHeard /\ RowIsHeard /\ \A d \in Deciders : RequestHeard(d)

LEMMA GateInit == Init => GateInv
<1> SUFFICES ASSUME Init PROVE GateInv
  OBVIOUS
<1>1. \A d \in Deciders : decider[d] = [at |-> "idle", verdict |-> "none", loaded |-> "none"]
  BY DEF Init
<1>2. TypeOK
  BY DEF Init, TypeOK, Statuses, WfStates
<1> QED
  BY <1>1, <1>2 DEF Init, GateInv, WorkflowHeard, RowIsHeard, RequestHeard, Verdicts

\* What a decider's step does to its request and to the others'.
LEMMA RequestMoves ==
  ASSUME TypeOK, NEW d \in Deciders, NEW r \in Request,
         decider' = [decider EXCEPT ![d] = r]
  PROVE  /\ decider' \in [Deciders -> Request]
         /\ decider'[d] = r
         /\ \A e \in Deciders \ {d} : decider'[e] = decider[e]
BY DEF TypeOK, Request, Ats

\* A request begins once, and carries the verdict it has given to the workflow,
\* or "expired" when the workflow was over.
Moves(d) ==
  /\ decider'[d].at # "idle"
  /\ decider'[d].at = "read" => decider[d].at = "idle" /\ decision' = decision
  /\ decision' # decision =>
       ~Finished /\ decider[d].at \in {"idle", "read"} /\ decision' # "none"
  /\ decider'[d].at \in {"answered", "loaded"} =>
       \/ /\ decider[d].at \in {"answered", "loaded"} /\ decision' = decision
          /\ decider'[d].verdict = decider[d].verdict
       \/ decider[d].at = "read" /\ decider'[d].verdict = decision'
       \/ decider[d].at = "read" /\ Finished

\* A decider's step by its cases; a step that hears gives its verdict to the
\* workflow.
LEMMA DeciderStep ==
  ASSUME GateInv, NEW d \in Deciders, Decide(d)
  PROVE  /\ decider' \in [Deciders -> Request]
         /\ \A e \in Deciders \ {d} : decider'[e] = decider[e]
         /\ decision' \in Verdicts \cup {"none"} /\ heard' \subseteq Verdicts
         /\ heard \subseteq heard'
         /\ WorkflowHeard'
         /\ RequestHeard(d)'
         /\ row' \in {row, decider[d].verdict}
         /\ row' # row => decider[d].at = "loaded" /\ decision' = decision
         /\ Moves(d)
         /\ UNCHANGED <<timed, wf, outcome, opening, closing, indexed>>
<1> USE DEF GateInv, WorkflowHeard, RequestHeard, Moves
<1>1. /\ decider[d] \in Request /\ decider[d].at \in Ats /\ decider[d].loaded \in Statuses
      /\ decider[d].verdict \in Verdicts \cup {"none", "expired"}
      /\ row \in Statuses /\ heard \subseteq Verdicts /\ decision \in Verdicts \cup {"none"}
  BY DEF TypeOK, Request, Ats
<1>3. ASSUME NEW v \in Verdicts, Hear(v)
      PROVE  /\ decision' \in Verdicts /\ heard' \subseteq Verdicts /\ heard \subseteq heard'
             /\ v \in heard' /\ decision' = v /\ v # "none" /\ ~Finished
             /\ WorkflowHeard' /\ UNCHANGED <<wf, outcome>>
  BY <1>1, <1>3 DEF Hear, Verdicts
<1>4. CASE \E v \in Verdicts : Read(d, v)
  <2>1. PICK v \in Verdicts : Read(d, v)
    BY <1>4
  <2> DEFINE r == [decider[d] EXCEPT !.at = "read", !.verdict = v]
  <2>2. decider' = [decider EXCEPT ![d] = r]
    BY <2>1 DEF Read
  <2>3. r \in Request /\ r.at = "read" /\ r.verdict = v
    BY <1>1 DEF Request, Ats
  <2> HIDE DEF r
  <2>4. /\ decider' \in [Deciders -> Request] /\ decider'[d] = r
        /\ \A e \in Deciders \ {d} : decider'[e] = decider[e]
    BY <2>2, <2>3, RequestMoves
  <2> QED
    BY <1>1, <2>1, <2>3, <2>4 DEF Read, workflow
<1>5. CASE (\E v \in Verdicts : SignalRun(d, v)) \/ SignalFails(d) \/ Mark(d) \/ Abandon(d)
  <2> DEFINE r == [decider[d] EXCEPT !.at = "done"]
  <2>1. decider' = [decider EXCEPT ![d] = r]
    BY <1>5 DEF SignalRun, SignalFails, Mark, Abandon, At
  <2>2. r \in Request /\ r.at = "done"
    BY <1>1 DEF Request, Ats
  <2> HIDE DEF r
  <2>3. /\ decider' \in [Deciders -> Request] /\ decider'[d] = r
        /\ \A e \in Deciders \ {d} : decider'[e] = decider[e]
    BY <2>1, <2>2, RequestMoves
  <2>4. CASE \E v \in Verdicts : SignalRun(d, v)
    BY <1>1, <1>3, <2>2, <2>3, <2>4 DEF SignalRun
  <2>5. CASE SignalFails(d)
    BY <1>1, <1>3, <2>2, <2>3, <2>5 DEF SignalFails, workflow
  <2>6. CASE Mark(d) \/ Abandon(d)
    BY <1>1, <2>2, <2>3, <2>6 DEF Mark, Abandon, Written, workflow
  <2> QED
    BY <1>5, <2>4, <2>5, <2>6
<1>6. CASE Signal(d)
  <2> DEFINE r == [decider[d] EXCEPT !.at = "answered"]
  <2>1. decider' = [decider EXCEPT ![d] = r]
    BY <1>6 DEF Signal, At
  <2>2. r \in Request /\ r.at = "answered" /\ r.verdict = decider[d].verdict
    BY <1>1 DEF Request, Ats
  <2> HIDE DEF r
  <2>3. /\ decider' \in [Deciders -> Request] /\ decider'[d] = r
        /\ \A e \in Deciders \ {d} : decider'[e] = decider[e]
    BY <2>1, <2>2, RequestMoves
  <2> QED
    BY <1>1, <1>3, <1>6, <2>2, <2>3 DEF Signal
<1>7. CASE Refused(d)
  <2> DEFINE r == [decider[d] EXCEPT !.at = "answered", !.verdict = "expired"]
  <2>1. decider' = [decider EXCEPT ![d] = r]
    BY <1>7 DEF Refused
  <2>2. r \in Request /\ r.at = "answered" /\ r.verdict = "expired"
    BY <1>1 DEF Request, Ats
  <2> HIDE DEF r
  <2>3. /\ decider' \in [Deciders -> Request] /\ decider'[d] = r
        /\ \A e \in Deciders \ {d} : decider'[e] = decider[e]
    BY <2>1, <2>2, RequestMoves
  <2> QED
    BY <1>1, <1>7, <2>2, <2>3 DEF Refused, workflow
<1>8. CASE MarkLoads(d)
  <2> DEFINE r == [decider[d] EXCEPT !.at = "loaded", !.loaded = row]
  <2>1. decider' = [decider EXCEPT ![d] = r]
    BY <1>8 DEF MarkLoads
  <2>2. r \in Request /\ r.at = "loaded" /\ r.verdict = decider[d].verdict
    BY <1>1 DEF Request, Ats
  <2> HIDE DEF r
  <2>3. /\ decider' \in [Deciders -> Request] /\ decider'[d] = r
        /\ \A e \in Deciders \ {d} : decider'[e] = decider[e]
    BY <2>1, <2>2, RequestMoves
  <2> QED
    BY <1>1, <1>8, <2>2, <2>3 DEF MarkLoads, workflow
<1> QED
  BY <1>4, <1>5, <1>6, <1>7, <1>8 DEF Decide

LEMMA GateStep == GateInv /\ [Next]_vars => GateInv'
<1> SUFFICES ASSUME GateInv, [Next]_vars PROVE GateInv'
  OBVIOUS
<1> USE DEF GateInv
<1>1. CASE Arrive \/ OpenEnds \/ Resume \/ Expire \/ CloseEnds \/ Complete \/ Terminate
  <2>1. TypeOK'
    BY <1>1 DEF Arrive, OpenEnds, Resume, Expire, CloseEnds, Complete, Terminate, TypeOK,
                WfStates, Finished, Verdicts
  <2>2. WorkflowHeard' /\ RowIsHeard' /\ UNCHANGED <<decider, heard>>
    BY <1>1 DEF Arrive, OpenEnds, Resume, Expire, CloseEnds, Complete, Terminate, TypeOK,
                WorkflowHeard, RowIsHeard, Verdicts
  <2> QED
    BY <2>1, <2>2 DEF RequestHeard
<1>2. CASE OpenGate \/ CloseGateLoads \/ CloseGate
  <2>1. /\ opening' \in {"unsent", "pending", "over"} /\ row' \in Statuses
        /\ indexed' \in BOOLEAN /\ UNCHANGED <<timed, workflow, decider>>
    BY <1>2 DEF OpenGate, CloseGateLoads, CloseGate, Written, TypeOK, Statuses
  <2>2. /\ closing' \in [at : {"unsent", "pending", "loaded", "over"}, loaded : Statuses]
        /\ closing.at # "unsent" <=> closing'.at # "unsent"
    BY <1>2 DEF OpenGate, CloseGateLoads, CloseGate, TypeOK
  <2>3. row' \in {row, "waiting", outcome}
    BY <1>2 DEF OpenGate, CloseGateLoads, CloseGate, Written
  <2> QED
    BY <2>1, <2>2, <2>3 DEF TypeOK, workflow, WorkflowHeard, RowIsHeard, RequestHeard, Verdicts
<1>3. ASSUME NEW d \in Deciders, Decide(d) PROVE GateInv'
  <2>1. row' \in Statuses /\ RowIsHeard'
    BY <1>3, DeciderStep DEF TypeOK, RowIsHeard, RequestHeard, Statuses, Verdicts
  <2>2. TypeOK'
    BY <1>3, <2>1, DeciderStep DEF TypeOK, Request, Ats
  <2>3. \A e \in Deciders : RequestHeard(e)'
    BY <1>3, DeciderStep DEF RequestHeard
  <2> QED
    BY <1>3, <2>1, <2>2, <2>3, DeciderStep
<1>4. CASE UNCHANGED vars
  BY <1>4 DEF vars, TypeOK, WorkflowHeard, RowIsHeard, RequestHeard
<1> QED
  BY <1>1, <1>2, <1>3, <1>4 DEF Next, Workflow, Activity

LEMMA GateInvariant == Spec => []GateInv
<1>1. GateInv /\ [Next]_vars => GateInv'
  BY GateStep
<1> QED
  BY GateInit, <1>1, PTL DEF Spec

------------------------------------------------------------------------------
(* The end state *)

Acted(d) == decider[d].at # "idle"
Alone == \A d, e \in Deciders : Acted(d) /\ Acted(e) => d = e

\* Where the gate is, by what was sent, heard and written.
Order ==
  /\ decision # "none" => \E d \in Deciders : Acted(d)
  /\ wf \in {"before", "opening", "parked"} => outcome = "none"
  /\ indexed => closing.at = "over"
  /\ opening = "pending" /\ wf \notin {"opening", "terminated"} => MayStall
  /\ opening = "pending" /\ outcome # "none" => MayStall

RowEnds == row = outcome \/ (MayStall /\ row = "waiting")

\* A lone decider's verdict is the decision, and the outcome if there is one;
\* nothing else is on its way into the row, and what the close activity leaves
\* there stays.
Tied ==
  Alone /\ outcome # "expired" /\ (outcome # "none" \/ ~Finished) =>
    /\ outcome # "none" => outcome = decision
    /\ row \in {"none", "waiting", decision}
    /\ \A d \in Deciders :
         /\ decider[d].at = "read" => decision = "none"
         /\ decider[d].at \in {"answered", "loaded"} => decider[d].verdict = decision
    /\ indexed => RowEnds
    /\ closing.at = "loaded" /\ closing.loaded = outcome => RowEnds

EndInv == GateInv /\ Order /\ Tied

LEMMA OneIsAlone == OneActed => Alone
<1> SUFFICES ASSUME OneActed, NEW d \in Deciders, NEW e \in Deciders,
                    Acted(d), Acted(e), d # e
             PROVE  FALSE
  BY DEF Alone
<1> DEFINE S == {x \in Deciders : decider[x].at # "idle"}
<1>1. IsFiniteSet(S)
  BY GateAssumption, FS_Subset
<1>2. {d, e} \subseteq S
  BY DEF Acted
<1>3. Cardinality({d, e}) <= Cardinality(S)
  BY <1>1, <1>2, FS_Subset
<1>4. Cardinality({d, e}) = 2
  <2>1. IsFiniteSet({d}) /\ Cardinality({d}) = 1
    BY FS_Singleton
  <2>2. Cardinality({d} \cup {e}) = Cardinality({d}) + 1
    BY <2>1, FS_AddElement
  <2>3. {d} \cup {e} = {d, e}
    OBVIOUS
  <2> QED
    BY <2>1, <2>2, <2>3
<1>5. Cardinality(S) \in Nat /\ Cardinality(S) <= 1
  BY <1>1, FS_CardinalityType DEF OneActed
<1> QED
  BY <1>3, <1>4, <1>5

LEMMA EndInit == Init => EndInv
<1> SUFFICES ASSUME Init PROVE EndInv
  OBVIOUS
<1>1. \A d \in Deciders : decider[d] = [at |-> "idle", verdict |-> "none", loaded |-> "none"]
  BY DEF Init
<1> QED
  BY <1>1, GateInit DEF Init, EndInv, Order, Tied

\* The workflow's own steps: it answers with its decision, and only then is
\* anything indexed.
LEMMA WorkflowTies == EndInv /\ (Workflow \/ Terminate) => Order' /\ Tied'
<1> SUFFICES ASSUME EndInv, Workflow \/ Terminate PROVE Order' /\ Tied'
  OBVIOUS
<1> USE DEF EndInv, GateInv, Workflow, Arrive, OpenEnds, Resume, Expire, CloseEnds, Complete,
            Terminate, Finished
<1>1. UNCHANGED <<decider, decision, row, indexed>> /\ (Alone' => Alone)
  BY DEF Alone, Acted
<1>2. Order'
  BY <1>1 DEF Order, Acted, TypeOK
<1>3. Tied'
  BY <1>1 DEF Order, Tied, TypeOK, RowEnds
<1> QED
  BY <1>2, <1>3

LEMMA ActivityTies == EndInv /\ Activity => Order' /\ Tied'
<1> SUFFICES ASSUME EndInv, Activity PROVE Order' /\ Tied'
  OBVIOUS
<1> USE DEF EndInv, GateInv
<1>1. UNCHANGED <<decider, decision, outcome, wf>> /\ (Alone' <=> Alone)
  BY DEF Activity, OpenGate, CloseGateLoads, CloseGate, workflow, Alone, Acted
<1>2. Order'
  BY <1>1 DEF Activity, OpenGate, CloseGateLoads, CloseGate, Order, Acted, TypeOK
<1>3. CASE OpenGate
  BY <1>1, <1>2, <1>3 DEF OpenGate, Order, Tied, TypeOK, RowEnds, Finished
<1>4. CASE CloseGateLoads \/ CloseGate
  <2>1. closing.at # "unsent" /\ outcome # "none" /\ opening' = opening
    BY <1>4 DEF CloseGateLoads, CloseGate, TypeOK
  <2>2. Alone' /\ outcome' # "expired" => RowEnds' \/ (row' = row /\ indexed' = indexed)
    BY <1>1, <1>4, <2>1 DEF CloseGateLoads, CloseGate, Tied, RowEnds, Written
  <2>3. row' \in {row, outcome}
    BY <1>4 DEF CloseGateLoads, CloseGate, Written
  <2> QED
    BY <1>1, <1>2, <1>4, <2>1, <2>2, <2>3 DEF CloseGateLoads, CloseGate, Tied, RowEnds, TypeOK
<1> QED
  BY <1>3, <1>4 DEF Activity

LEMMA DeciderTies ==
  ASSUME EndInv, NEW d \in Deciders, Decide(d)
  PROVE  Order' /\ Tied'
<1> USE DEF EndInv
<1>1. /\ \A e \in Deciders \ {d} : decider'[e] = decider[e]
      /\ row' \in {row, decider[d].verdict}
      /\ row' # row => decider[d].at = "loaded" /\ decision' = decision
      /\ Moves(d)
      /\ UNCHANGED <<timed, wf, outcome, opening, closing, indexed>>
  BY DeciderStep
<1>2. Acted(d)' /\ \A e \in Deciders : Acted(e) => Acted(e)'
  BY <1>1 DEF Acted, Moves
<1>3. Order'
  BY <1>1, <1>2 DEF Order
<1>4. SUFFICES ASSUME Alone', outcome # "expired", outcome # "none" \/ ~Finished
               PROVE  Tied'
  BY <1>1, <1>3 DEF Tied, Finished
<1>5. Alone /\ (\A e \in Deciders \ {d} : ~Acted(e)) /\ (~Acted(d) => decision = "none")
  BY <1>2, <1>4 DEF Alone, Order
<1>6. /\ outcome # "none" => outcome = decision
      /\ row \in {"none", "waiting", decision}
      /\ decider[d].at = "read" => decision = "none"
      /\ decider[d].at \in {"answered", "loaded"} => decider[d].verdict = decision
      /\ indexed => RowEnds
      /\ closing.at = "loaded" /\ closing.loaded = outcome => RowEnds
  BY <1>4, <1>5 DEF Tied
<1>7. decision' # decision => decision = "none" /\ outcome = "none"
  BY <1>1, <1>5, <1>6 DEF Moves, Acted
<1>8. /\ decider'[d].at = "read" => decision' = "none"
      /\ decider'[d].at \in {"answered", "loaded"} => decider'[d].verdict = decision'
  BY <1>1, <1>4, <1>5, <1>6 DEF Moves, Acted
<1>9. \A e \in Deciders \ {d} : decider'[e].at = "idle"
  BY <1>1, <1>5 DEF Acted
<1>10. row' = row \/ (row' = decision /\ decision' = decision)
  BY <1>1, <1>6
<1>11. /\ outcome' # "none" => outcome' = decision'
       /\ row' \in {"none", "waiting", decision'}
  BY <1>1, <1>6, <1>7, <1>10
<1>12. outcome # "none" /\ RowEnds => RowEnds'
  BY <1>1, <1>6, <1>10 DEF RowEnds
<1>13. (indexed \/ closing.at = "loaded") => outcome # "none"
  BY DEF Order, GateInv, TypeOK
<1> QED
  BY <1>1, <1>6, <1>8, <1>9, <1>11, <1>12, <1>13 DEF Tied

LEMMA EndInvariant == Spec => []EndInv
<1>1. EndInv /\ [Next]_vars => EndInv'
  <2> SUFFICES ASSUME EndInv, [Next]_vars PROVE EndInv'
    OBVIOUS
  <2>1. GateInv'
    BY GateStep DEF EndInv
  <2>2. CASE UNCHANGED vars
    BY <2>1, <2>2 DEF vars, EndInv, Order, Tied, Alone, Acted, RowEnds, Finished
  <2> QED
    BY <2>1, <2>2, WorkflowTies, ActivityTies, DeciderTies DEF Next, EndInv
<1> QED
  BY EndInit, <1>1, PTL DEF Spec

------------------------------------------------------------------------------
\* The gate's types, and an outcome for every gate that is being closed.
THEOREM TypeCorrect == Spec => []TypeOK
BY GateInvariant, PTL DEF GateInv

\* RowIsHeard: no interleaving of deciders, indexing activities and failures
\* puts a decision into the row that the workflow did not hear (decide).
THEOREM RowIsHeardAlways == Spec => []RowIsHeard
BY GateInvariant, PTL DEF GateInv

\* EndStateSame: with one decider the row ends as the outcome that approval()
\* returned, whichever of its two writers came last.
THEOREM EndStateSameAlways == Spec => []EndStateSame
<1>1. EndInv => EndStateSame
  BY OneIsAlone DEF EndInv, GateInv, TypeOK, Order, Tied, RowEnds, EndStateSame, Settled
<1> QED
  BY EndInvariant, <1>1, PTL
=============================================================================
