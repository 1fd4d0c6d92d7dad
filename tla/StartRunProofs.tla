--------------------------- MODULE StartRunProofs ---------------------------
(***************************************************************************)
(* Proofs about StartRun and the RunProjection under it, for any number of *)
(* requests, API processes, reconcilers and readers.                       *)
(***************************************************************************)
EXTENDS StartRun, FiniteSetTheorems, TLAPS

------------------------------------------------------------------------------
(* The projection *)

\* What a row says of its run, once it says that the run is over.
Tells(x, r) ==
  /\ x.status = temporal[r]
  /\ x.status = "Completed" => x.output
  /\ x.status = "Failed" => x.error

\* A row is as it was inserted, or says how its run ended.
RowTrue(r) ==
  /\ row[r] \in Rows
  /\ IF Ended(row[r].status) THEN Tells(row[r], r) ELSE row[r] = NewRow

\* A session loaded only open rows, and what it will write is final: a run that
\* has ended does not change any more.
SessionTrue(s) ==
  /\ DOMAIN loaded[s] \subseteq DOMAIN row
  /\ \A r \in DOMAIN loaded[s] : loaded[s][r] = NewRow
  /\ todo[s] \subseteq DOMAIN loaded[s]
  /\ DOMAIN dirty[s] \subseteq DOMAIN loaded[s] \ todo[s]
  /\ \A r \in DOMAIN dirty[s] :
       dirty[s][r] \in Rows /\ Ended(dirty[s][r].status) /\ Tells(dirty[s][r], r)

Tables ==
  /\ setting \in Settings /\ failures \in 0 .. setting.failures
  /\ temporal \in [Runs -> Statuses]
  /\ DOMAIN row \subseteq {r \in Runs : temporal[r] # "none"}
  /\ loaded = [s \in Sessions |-> loaded[s]]
  /\ todo = [s \in Sessions |-> todo[s]]
  /\ dirty = [s \in Sessions |-> dirty[s]]
  /\ announced \subseteq {r \in Runs : Ended(temporal[r])}

ProjectionInv ==
  /\ Tables
  /\ \A r \in DOMAIN row : RowTrue(r)
  /\ \A s \in Sessions : SessionTrue(s)

\* Runs only begin and end.
Forward ==
  /\ temporal' \in [Runs -> Statuses]
  /\ \A r \in Runs : /\ Ended(temporal[r]) => temporal'[r] = temporal[r]
                     /\ temporal[r] # "none" => temporal'[r] # "none"

LEMMA ProjectionStarts == ProjectionInit => ProjectionInv
<1> SUFFICES ASSUME ProjectionInit PROVE ProjectionInv
  OBVIOUS
<1>1. DOMAIN row = {} /\ \A s \in Sessions : loaded[s] = NoRows /\ todo[s] = {} /\ dirty[s] = NoRows
  BY DEF ProjectionInit, NoRows
<1>2. DOMAIN NoRows = {}
  BY DEF NoRows
<1>3. failures \in 0 .. setting.failures
  BY ProjectionAssumption DEF ProjectionInit
<1>4. Tables
  BY <1>1, <1>3 DEF ProjectionInit, Tables, Statuses
<1> QED
  BY <1>1, <1>2, <1>4 DEF ProjectionInv, SessionTrue

\* A session that does not move stays true while runs move forward.
LEMMA SessionKept ==
  ASSUME Tables, NEW s, SessionTrue(s), Forward, DOMAIN row \subseteq DOMAIN row',
         loaded'[s] = loaded[s], todo'[s] = todo[s], dirty'[s] = dirty[s]
  PROVE  SessionTrue(s)'
<1>1. \A r \in DOMAIN dirty[s] : r \in Runs /\ Ended(temporal[r])
  BY DEF SessionTrue, Tables, Tells
<1>2. \A r \in DOMAIN dirty[s] : temporal'[r] = temporal[r]
  BY <1>1 DEF Forward
<1> QED
  BY <1>2 DEF SessionTrue, Tells

\* A row that is not written stays true.
LEMMA RowKept ==
  ASSUME Tables, NEW r \in DOMAIN row, RowTrue(r), Forward, row'[r] = row[r]
  PROVE  RowTrue(r)'
<1>1. r \in Runs
  BY DEF Tables
<1> QED
  BY <1>1 DEF RowTrue, Tells, Forward

\* A session at rest is true.
LEMMA SessionReset ==
  ASSUME NEW s \in Sessions, Tables, Reset(s)
  PROVE  /\ SessionTrue(s)'
         /\ \A t \in Sessions \ {s} :
              loaded'[t] = loaded[t] /\ todo'[t] = todo[t] /\ dirty'[t] = dirty[t]
         /\ loaded' = [t \in Sessions |-> loaded'[t]]
         /\ todo' = [t \in Sessions |-> todo'[t]]
         /\ dirty' = [t \in Sessions |-> dirty'[t]]
<1>1. DOMAIN NoRows = {}
  BY DEF NoRows
<1>2. loaded'[s] = NoRows /\ todo'[s] = {} /\ dirty'[s] = NoRows
  BY DEF Reset, Tables
<1> QED
  BY <1>1, <1>2 DEF Reset, Tables, SessionTrue

\* What a session takes from an ended run.
LEMMA SettledTells ==
  ASSUME Tables, NEW s \in Sessions, NEW r \in Runs,
         loaded[s][r] = NewRow, Ended(temporal[r])
  PROVE  Settled(s, r) \in Rows /\ Ended(Settled(s, r).status) /\ Tells(Settled(s, r), r)
<1>1. temporal[r] \in Statuses \ {"none"}
  BY DEF Tables, Ended
<1> DEFINE output == loaded[s][r].output \/ temporal[r] = "Completed"
           error == \/ loaded[s][r].error \/ temporal[r] = "Failed"
                    \/ s \in Reconcilers /\ temporal[r] = "TimedOut"
<1>2. output \in BOOLEAN /\ error \in BOOLEAN
  OBVIOUS
<1>3. (temporal[r] = "Completed" => output) /\ (temporal[r] = "Failed" => error)
  OBVIOUS
<1>4. Settled(s, r) = [status |-> temporal[r], output |-> output, error |-> error]
  BY DEF Settled
<1> HIDE DEF output, error
<1> QED
  BY <1>1, <1>2, <1>3, <1>4 DEF Rows, Tells

\* What a session writes is true, and takes nothing from a settled row.
LEMMA WrittenTells ==
  ASSUME ProjectionInv, NEW s \in Sessions, NEW r \in DOMAIN dirty[s]
  PROVE  /\ r \in DOMAIN row
         /\ Written(s, r) \in Rows /\ Ended(Written(s, r).status) /\ Tells(Written(s, r), r)
         /\ row[r].output => Written(s, r).output
         /\ row[r].error => Written(s, r).error
<1>1. /\ r \in DOMAIN row /\ loaded[s][r] = NewRow
      /\ dirty[s][r] \in Rows /\ Ended(dirty[s][r].status) /\ Tells(dirty[s][r], r)
      /\ row[r] \in Rows
  BY DEF ProjectionInv, SessionTrue, RowTrue
<1>2. dirty[s][r].status # "Running"
  BY <1>1 DEF Ended
<1> DEFINE status == Column("Running", dirty[s][r].status, row[r].status)
           output == Column(FALSE, dirty[s][r].output, row[r].output)
           error == Column(FALSE, dirty[s][r].error, row[r].error)
<1>3. status = dirty[s][r].status /\ status \in Statuses \ {"none"}
  BY <1>1, <1>2 DEF Column, Rows
<1>4. /\ output \in BOOLEAN
      /\ (dirty[s][r].output => output) /\ (row[r].output => output)
  BY <1>1 DEF Column, Rows
<1>5. /\ error \in BOOLEAN
      /\ (dirty[s][r].error => error) /\ (row[r].error => error)
  BY <1>1 DEF Column, Rows
<1>6. Written(s, r) = [status |-> status, output |-> output, error |-> error]
  BY <1>1 DEF Written, NewRow
<1> HIDE DEF status, output, error
<1>7. Written(s, r) \in Rows
  BY <1>3, <1>4, <1>5, <1>6 DEF Rows
<1>8. Tells(Written(s, r), r)
  BY <1>1, <1>3, <1>4, <1>5, <1>6 DEF Tells
<1> QED
  BY <1>1, <1>3, <1>4, <1>5, <1>6, <1>7, <1>8


\* A settled row keeps what it says.
RowsStay ==
  \A r \in DOMAIN row : Ended(row[r].status) =>
    /\ row'[r].status = row[r].status
    /\ row[r].output => row'[r].output
    /\ row[r].error => row'[r].error

\* A step that leaves the tables alone, but for one session.
LEMMA SessionStep ==
  ASSUME ProjectionInv, NEW s \in Sessions, SessionTrue(s)',
         \A t \in Sessions \ {s} :
           loaded'[t] = loaded[t] /\ todo'[t] = todo[t] /\ dirty'[t] = dirty[t],
         loaded' = [t \in Sessions |-> loaded'[t]],
         todo' = [t \in Sessions |-> todo'[t]],
         dirty' = [t \in Sessions |-> dirty'[t]],
         row' = row, setting' = setting, Forward,
         announced' \subseteq {r \in Runs : Ended(temporal'[r])},
         failures' \in 0 .. setting.failures
  PROVE  ProjectionInv' /\ RowsStay
<1>1. Tables'
  BY DEF ProjectionInv, Tables, Forward
<1>2. \A r \in DOMAIN row' : RowTrue(r)'
  BY RowKept DEF ProjectionInv
<1>3. \A t \in Sessions : SessionTrue(t)'
  BY SessionKept DEF ProjectionInv
<1> QED
  BY <1>1, <1>2, <1>3 DEF ProjectionInv, RowsStay

LEMMA LoadStep ==
  ASSUME ProjectionInv, NEW s \in Sessions, NEW rs \in SUBSET Open, Load(s, rs)
  PROVE  ProjectionInv' /\ RowsStay
<1>1. rs \subseteq DOMAIN row /\ \A r \in rs : row[r] = NewRow
  BY DEF ProjectionInv, RowTrue, Open
<1>2. DOMAIN dirty[s] = {}
  BY DEF ProjectionInv, SessionTrue, Load, Idle
<1>3. loaded'[s] = [r \in rs |-> row[r]] /\ todo'[s] = rs /\ dirty'[s] = dirty[s] /\ row' = row
  BY DEF Load, ProjectionInv, Tables
<1>4. SessionTrue(s)'
  BY <1>1, <1>2, <1>3 DEF SessionTrue
<1>5. Forward /\ failures' \in 0 .. setting.failures
  BY DEF Load, ProjectionInv, Tables, Forward
<1> QED
  BY <1>4, <1>5, SessionStep DEF Load, ProjectionInv, Tables

LEMMA CancelStep ==
  ASSUME ProjectionInv, NEW s \in Sessions, NEW r \in Runs, Cancel(s, r)
  PROVE  ProjectionInv' /\ RowsStay /\ Forward
<1>1. r \in DOMAIN row /\ row[r] = NewRow /\ temporal[r] = "Running"
  BY DEF Cancel, ProjectionInv, RowTrue, Open
<1>2. DOMAIN dirty[s] = {}
  BY DEF ProjectionInv, SessionTrue, Cancel, Idle
<1>3. loaded'[s] = [q \in {r} |-> row[q]] /\ todo'[s] = {r} /\ dirty'[s] = dirty[s] /\ row' = row
  BY DEF Cancel, ProjectionInv, Tables
<1>4. DOMAIN loaded'[s] = {r} /\ loaded'[s][r] = NewRow
  BY <1>1, <1>3
<1>5. SessionTrue(s)'
  BY <1>1, <1>2, <1>3, <1>4 DEF SessionTrue
<1>6. Forward /\ failures' \in 0 .. setting.failures
  BY <1>1 DEF Cancel, ProjectionInv, Tables, Forward, Ended, Statuses, AllEnds
<1>7. announced' \subseteq {q \in Runs : Ended(temporal'[q])}
  BY <1>1, <1>6 DEF Cancel, ProjectionInv, Tables, Forward
<1> QED
  BY <1>5, <1>6, <1>7, SessionStep DEF Cancel, ProjectionInv, Tables

LEMMA SettleStep ==
  ASSUME ProjectionInv, NEW s \in Sessions, NEW r \in Runs,
         Unchanged(s, r) \/ Settle(s, r) \/ (s \in Reconcilers /\ DescribeFails(s, r))
  PROVE  ProjectionInv' /\ RowsStay
<1>1. /\ r \in todo[s] /\ todo' = [todo EXCEPT ![s] = @ \ {r}]
      /\ UNCHANGED <<setting, temporal, row, loaded>>
      /\ failures' \in {failures} \cup {failures + 1}
      /\ failures' = failures + 1 => failures < setting.failures
  BY ProjectionAssumption DEF Unchanged, Settle, DescribeFails, Done, Failure, ProjectionInv, Tables
<1>2. /\ loaded[s][r] = NewRow /\ todo'[s] = todo[s] \ {r} /\ r \notin DOMAIN dirty[s]
      /\ r \in DOMAIN loaded[s]
  BY <1>1 DEF ProjectionInv, Tables, SessionTrue
<1>3. \/ UNCHANGED <<dirty, announced>>
      \/ /\ Ended(temporal[r])
         /\ announced' \subseteq announced \cup {r}
         /\ dirty' = [dirty EXCEPT ![s] =
              [q \in DOMAIN @ \cup {r} |-> IF q = r THEN Settled(s, r) ELSE @[q]]]
  BY DEF Unchanged, Settle, DescribeFails
<1>4. \A q \in DOMAIN dirty'[s] :
        /\ q \in DOMAIN loaded[s] \ todo'[s]
        /\ dirty'[s][q] \in Rows /\ Ended(dirty'[s][q].status) /\ Tells(dirty'[s][q], q)
  <2>1. CASE UNCHANGED <<dirty, announced>>
    BY <1>2, <2>1 DEF ProjectionInv, SessionTrue
  <2>2. CASE Ended(temporal[r]) /\ dirty' = [dirty EXCEPT ![s] =
              [q \in DOMAIN @ \cup {r} |-> IF q = r THEN Settled(s, r) ELSE @[q]]]
    <3>1. dirty'[s] = [q \in DOMAIN dirty[s] \cup {r} |->
                         IF q = r THEN Settled(s, r) ELSE dirty[s][q]]
      BY <2>2 DEF ProjectionInv, Tables
    <3>2. Settled(s, r) \in Rows /\ Ended(Settled(s, r).status) /\ Tells(Settled(s, r), r)
      BY <1>2, <2>2, SettledTells DEF ProjectionInv
    <3> QED
      BY <1>2, <3>1, <3>2 DEF ProjectionInv, SessionTrue
  <2> QED
    BY <1>3, <2>1, <2>2
<1>5. SessionTrue(s)'
  <2>1. \A q \in DOMAIN dirty'[s] : Tells(dirty'[s][q], q) => Tells(dirty[s][q], q)'
    BY <1>1 DEF Tells
  <2> QED
    BY <1>1, <1>2, <1>4, <2>1 DEF ProjectionInv, SessionTrue
<1>6. /\ loaded' = [t \in Sessions |-> loaded'[t]]
      /\ todo' = [t \in Sessions |-> todo'[t]]
      /\ dirty' = [t \in Sessions |-> dirty'[t]]
      /\ \A t \in Sessions \ {s} :
           loaded'[t] = loaded[t] /\ todo'[t] = todo[t] /\ dirty'[t] = dirty[t]
  BY <1>1, <1>3 DEF ProjectionInv, Tables
<1>7. Forward /\ announced' \subseteq {q \in Runs : Ended(temporal'[q])}
  BY <1>1, <1>3 DEF ProjectionInv, Tables, Forward
<1>8. failures' \in 0 .. setting.failures
  BY <1>1, ProjectionAssumption DEF ProjectionInv, Tables
<1> QED
  BY <1>1, <1>5, <1>6, <1>7, <1>8, SessionStep

LEMMA ResetStep ==
  ASSUME ProjectionInv, NEW s \in Sessions, Reset(s), Failure,
         UNCHANGED <<setting, temporal, row, announced>>
  PROVE  ProjectionInv' /\ RowsStay
<1>1. Forward /\ announced' \subseteq {q \in Runs : Ended(temporal'[q])}
  BY DEF ProjectionInv, Tables, Forward
<1>2. failures' \in 0 .. setting.failures
  BY ProjectionAssumption DEF ProjectionInv, Tables, Failure
<1> QED
  BY <1>1, <1>2, SessionReset, SessionStep DEF ProjectionInv

LEMMA CommitStep ==
  ASSUME ProjectionInv, NEW s \in Sessions, Commit(s)
  PROVE  ProjectionInv' /\ RowsStay
<1>1. /\ DOMAIN row' = DOMAIN row
      /\ \A r \in DOMAIN row :
           row'[r] = IF r \in DOMAIN dirty[s] THEN Written(s, r) ELSE row[r]
      /\ UNCHANGED <<setting, temporal, announced, failures>>
  BY DEF Commit
<1>2. Forward
  BY <1>1 DEF ProjectionInv, Tables, Forward
<1>3. \A r \in DOMAIN row' : RowTrue(r)'
  <2> SUFFICES ASSUME NEW r \in DOMAIN row PROVE RowTrue(r)'
    BY <1>1
  <2>1. CASE r \in DOMAIN dirty[s]
    <3>1. /\ row'[r] = Written(s, r) /\ Written(s, r) \in Rows
          /\ Ended(Written(s, r).status) /\ Tells(Written(s, r), r)
      BY <1>1, <2>1, WrittenTells
    <3> QED
      BY <1>1, <3>1 DEF RowTrue, Tells
  <2>2. CASE r \notin DOMAIN dirty[s]
    BY <1>1, <1>2, <2>2, RowKept DEF ProjectionInv
  <2> QED
    BY <2>1, <2>2
<1>4. RowsStay
  <2> SUFFICES ASSUME NEW r \in DOMAIN row, Ended(row[r].status)
               PROVE  /\ row'[r].status = row[r].status
                      /\ row[r].output => row'[r].output
                      /\ row[r].error => row'[r].error
    BY DEF RowsStay
  <2>1. CASE r \in DOMAIN dirty[s]
    <3>1. row[r].status = temporal[r]
      BY DEF ProjectionInv, RowTrue, Tells
    <3> QED
      BY <1>1, <2>1, <3>1, WrittenTells DEF Tells
  <2> QED
    BY <1>1, <2>1
<1>5. /\ SessionTrue(s)'
      /\ \A t \in Sessions \ {s} :
           loaded'[t] = loaded[t] /\ todo'[t] = todo[t] /\ dirty'[t] = dirty[t]
      /\ loaded' = [t \in Sessions |-> loaded'[t]]
      /\ todo' = [t \in Sessions |-> todo'[t]]
      /\ dirty' = [t \in Sessions |-> dirty'[t]]
  BY SessionReset DEF Commit, ProjectionInv
<1>6. \A t \in Sessions : SessionTrue(t)'
  BY <1>1, <1>2, <1>5, SessionKept DEF ProjectionInv
<1>7. Tables'
  BY <1>1, <1>5 DEF ProjectionInv, Tables
<1> QED
  BY <1>3, <1>4, <1>6, <1>7 DEF ProjectionInv

\* A step outside the projection: executions begin, rows are inserted, calls fail.
LEMMA OutsideStep ==
  ASSUME ProjectionInv, Forward, UNCHANGED <<setting, session, announced>>,
         DOMAIN row \subseteq DOMAIN row',
         \A r \in DOMAIN row : row'[r] = row[r],
         \A r \in DOMAIN row' \ DOMAIN row :
           r \in Runs /\ temporal'[r] # "none" /\ row'[r] = NewRow,
         failures' \in 0 .. setting.failures
  PROVE  ProjectionInv' /\ RowsStay
<1>1. Tables'
  <2>1. DOMAIN row' \subseteq {r \in Runs : temporal'[r] # "none"}
    BY DEF ProjectionInv, Tables, Forward
  <2>2. announced' \subseteq {r \in Runs : Ended(temporal'[r])}
    BY DEF ProjectionInv, Tables, Forward
  <2> QED
    BY <2>1, <2>2 DEF ProjectionInv, Tables, session, Forward
<1>2. NewRow \in Rows /\ ~Ended(NewRow.status)
  BY DEF NewRow, Rows, Ended, Statuses
<1>3. \A r \in DOMAIN row' : RowTrue(r)'
  BY <1>2, RowKept DEF ProjectionInv, RowTrue
<1>4. \A s \in Sessions : SessionTrue(s)'
  BY SessionKept DEF ProjectionInv, session
<1> QED
  BY <1>1, <1>3, <1>4 DEF ProjectionInv, RowsStay

\* Every step of the projection keeps it, and which rows and executions there are.
LEMMA ProjectionStep ==
  ASSUME ProjectionInv, ProjectionNext
  PROVE  /\ ProjectionInv' /\ RowsStay /\ Forward /\ DOMAIN row' = DOMAIN row
         /\ \A r \in Runs : temporal'[r] = "none" <=> temporal[r] = "none"
         /\ setting' = setting
<1>1. ASSUME NEW r \in Runs, End(r)
      PROVE  /\ ProjectionInv' /\ RowsStay /\ Forward
             /\ \A q \in Runs : temporal'[q] = "none" <=> temporal[q] = "none"
  <2>1. temporal[r] = "Running" /\ UNCHANGED <<setting, row, session, announced, failures>>
    BY <1>1 DEF End
  <2>2. PICK status \in setting.ends : temporal' = [temporal EXCEPT ![r] = status]
    BY <1>1 DEF End
  <2>3. status \in AllEnds /\ status # "none"
    BY <2>2, ProjectionAssumption DEF ProjectionInv, Tables, AllEnds
  <2>4. Forward /\ \A q \in Runs : temporal'[q] = "none" <=> temporal[q] = "none"
    BY <2>1, <2>2, <2>3 DEF ProjectionInv, Tables, Forward, Statuses, Ended
  <2> QED
    BY <2>1, <2>4, OutsideStep DEF ProjectionInv, Tables
<1>2. ASSUME NEW s \in setting.sessions, Reconcile(s) \/ Refresh(s)
      PROVE  ProjectionInv' /\ RowsStay /\ temporal' = temporal
  <2>1. s \in Sessions
    BY <1>2, ProjectionAssumption DEF ProjectionInv, Tables, Sessions
  <2>2. PICK rs \in SUBSET Open : Load(s, rs)
    BY <1>2 DEF Reconcile, Refresh
  <2> QED
    BY <2>1, <2>2, LoadStep DEF Load
<1>3. ASSUME NEW s \in setting.sessions, Step(s) \/ Fails(s)
      PROVE  ProjectionInv' /\ RowsStay /\ temporal' = temporal
  <2>1. s \in Sessions
    BY <1>3, ProjectionAssumption DEF ProjectionInv, Tables, Sessions
  <2>2. ASSUME NEW r \in Runs, Unchanged(s, r) \/ Settle(s, r) \/ (s \in Reconcilers /\ DescribeFails(s, r))
        PROVE  ProjectionInv' /\ RowsStay /\ temporal' = temporal
    BY <2>1, <2>2, SettleStep DEF Unchanged, Settle, DescribeFails
  <2>3. ASSUME NEW r \in Runs,
               ResultFails(s, r) \/ (s \notin Reconcilers /\ DescribeFails(s, r)) \/ Abort(s)
        PROVE  ProjectionInv' /\ RowsStay /\ temporal' = temporal
    BY <2>1, <2>3, ResetStep DEF ResultFails, DescribeFails, Abort
  <2>4. CASE Abort(s)
    BY <2>1, <2>4, ResetStep DEF Abort
  <2>5. CASE Commit(s)
    BY <2>1, <2>5, CommitStep DEF Commit
  <2> QED
    BY <1>3, <2>2, <2>3, <2>4, <2>5 DEF Step, Fails
<1>4. ASSUME NEW s \in setting.sessions, NEW r \in Runs, Cancel(s, r)
      PROVE  /\ ProjectionInv' /\ RowsStay /\ Forward
             /\ \A q \in Runs : temporal'[q] = "none" <=> temporal[q] = "none"
  <2>1. s \in Sessions
    BY <1>4, ProjectionAssumption DEF ProjectionInv, Tables, Sessions
  <2>2. ProjectionInv' /\ RowsStay /\ Forward
    BY <1>4, <2>1, CancelStep
  <2>3. temporal[r] = "Running" /\ temporal' = [temporal EXCEPT ![r] = "Terminated"]
    BY <1>4 DEF Cancel
  <2> QED
    BY <2>2, <2>3 DEF ProjectionInv, Tables
<1>5. temporal' = temporal => Forward
  BY DEF ProjectionInv, Tables, Forward
<1>6. DOMAIN row' = DOMAIN row /\ setting' = setting
  BY DEF ProjectionNext, End, Reconcile, Refresh, Load, Step, Fails, Unchanged, Settle, Commit,
         DescribeFails, ResultFails, Abort, Cancel
<1> QED
  BY <1>1, <1>2, <1>3, <1>4, <1>5, <1>6 DEF ProjectionNext

------------------------------------------------------------------------------
(* The requests *)

Started == {r \in Runs : temporal[r] # "none"}
Spent == {r \in Requests : request[r].at \notin {"idle", "begun"}}

Request == [at : Stages, api : Apis, run : Executions]
Entry == [at : {"absent", "in_flight", "stored"}, owner : Requests \cup {NoRequest},
          run : Executions]

\* Executions are numbered in the order in which they begin, and each was begun
\* by a request of its own.
Numbered == Started = 1 .. latest /\ latest <= Cardinality(Spent)

\* A second execution begins only when the first has ended.
OneOpen == (\A r \in Runs : ~Ended(temporal[r])) => latest <= 1

\* Whatever a request or a cache names is there.
Named ==
  /\ \A r \in Requests :
       /\ request[r].at \in {"started", "created"} => request[r].run \in Started
       /\ request[r].at \in {"created", "done"} => request[r].run \in rows
  /\ \A a \in Apis : cache[a].at = "stored" => cache[a].run \in rows

StartInv ==
  /\ request \in [Requests -> Request] /\ cache \in [Apis -> Entry]
  /\ Numbered /\ OneOpen /\ Named /\ ReservationIsHeld

RunInv == ProjectionInv /\ StartInv

LEMMA RequestMoves ==
  ASSUME request \in [Requests -> Request], NEW r \in Requests, NEW at \in Stages,
         NEW run \in Executions, Goto(r, at, run)
  PROVE  /\ request' \in [Requests -> Request]
         /\ request'[r].at = at /\ request'[r].run = run /\ request'[r].api = request[r].api
         /\ \A q \in Requests \ {r} : request'[q] = request[q]
BY DEF Goto, Request

LEMMA RequestsCount ==
  ASSUME NEW S \in SUBSET Requests
  PROVE  /\ IsFiniteSet(S) /\ Cardinality(S) \in Nat
         /\ Cardinality(S) <= Cardinality(Requests) /\ Cardinality(Requests) \in Nat
BY StartAssumption, FS_Subset, FS_CardinalityType

LEMMA LatestCounts == latest = Cardinality(Started) /\ latest \in Nat /\ Started \subseteq Runs
<1>1. Cardinality(Requests) \in Nat
  BY RequestsCount
<1>2. IsFiniteSet(Runs) /\ Started \subseteq Runs
  BY <1>1, StartAssumption, FS_Interval DEF Started
<1>3. latest = Cardinality(Started)
  BY DEF latest, Started
<1> QED
  BY <1>2, <1>3, FS_Subset, FS_CardinalityType

\* No request is taken back, so a step that begins no execution keeps the count.
LEMMA CountKept ==
  ASSUME Numbered, Spent \subseteq Spent', Started' = Started
  PROVE  Numbered' /\ latest' = latest
<1>1. Spent \in SUBSET Requests /\ Spent' \in SUBSET Requests
  BY DEF Spent
<1>2. IsFiniteSet(Spent') /\ Cardinality(Spent') \in Nat /\ Cardinality(Spent) \in Nat
  BY <1>1, RequestsCount
<1>3. Cardinality(Spent) <= Cardinality(Spent')
  BY <1>2, FS_Subset
<1>4. latest' = latest
  BY DEF latest, Started
<1> QED
  BY <1>2, <1>3, <1>4, LatestCounts DEF Numbered

\* StartWorkflow begins the next execution, with a number that is free.
LEMMA NextBegins ==
  ASSUME ProjectionInv, Numbered, NEW r \in Requests \ Spent, Spent' = Spent \cup {r},
         temporal' = [temporal EXCEPT ![latest + 1] = "Running"]
  PROVE  /\ latest + 1 \in Runs /\ temporal[latest + 1] = "none"
         /\ temporal'[latest + 1] = "Running"
         /\ Numbered' /\ latest' = latest + 1 /\ Started \subseteq Started' /\ Forward
<1>1. Spent \in SUBSET Requests /\ Spent \cup {r} \in SUBSET Requests
  BY DEF Spent
<1>2. Cardinality(Spent \cup {r}) = Cardinality(Spent) + 1
  BY <1>1, RequestsCount, FS_AddElement
<1>3. latest + 1 <= Cardinality(Requests) /\ Cardinality(Requests) \in Nat
  BY <1>1, <1>2, RequestsCount, LatestCounts DEF Numbered
<1>4. latest + 1 \in Runs
  BY <1>3, LatestCounts, StartAssumption
<1>5. temporal[latest + 1] = "none"
  <2>1. latest + 1 \notin Started
    BY LatestCounts DEF Numbered
  <2> QED
    BY <1>4, <2>1 DEF Started
<1>6. temporal'[latest + 1] = "Running" /\ Forward
  BY <1>4, <1>5 DEF ProjectionInv, Tables, Forward, Statuses, Ended
<1>7. Started' = 1 .. (latest + 1)
  <2>1. Started' = Started \cup {latest + 1}
    BY <1>4, <1>6 DEF Started, ProjectionInv, Tables
  <2> QED
    BY <2>1, LatestCounts DEF Numbered
<1>8. latest' = latest + 1
  <2>1. latest' = Cardinality(Started')
    BY DEF latest, Started
  <2> QED
    BY <1>7, <2>1, LatestCounts, FS_Interval
<1>9. Started \subseteq Started'
  BY <1>7, LatestCounts DEF Numbered
<1> QED
  BY <1>1, <1>2, <1>4, <1>5, <1>6, <1>7, <1>8, <1>9, RequestsCount, LatestCounts DEF Numbered

\* The cache entry and the request of a handler that ends.
LEMMA HandlerEnds ==
  ASSUME StartInv, NEW r \in Requests, InHand(r), NEW e \in Entry, e.at # "in_flight",
         cache' = [cache EXCEPT ![Api(r)] = e],
         NEW at \in Stages \ {"begun", "started", "already", "created"},
         NEW run \in Executions, Goto(r, at, run)
  PROVE  ReservationIsHeld' /\ cache' \in [Apis -> Entry]
<1>1. Api(r) \in Apis
  BY DEF StartInv, Request, Api
<1>2. /\ request'[r].at = at /\ request'[r].api = request[r].api
      /\ \A q \in Requests \ {r} : request'[q] = request[q]
  BY RequestMoves DEF StartInv
<1>3. cache'[Api(r)] = e /\ \A a \in Apis \ {Api(r)} : cache'[a] = cache[a]
  BY <1>1 DEF StartInv
<1>4. \A q \in Requests \ {r} : ~(InHand(q) /\ Api(q) = Api(r))
  BY <1>1 DEF StartInv, ReservationIsHeld
<1>5. cache' \in [Apis -> Entry]
  BY <1>1 DEF StartInv
<1>6. ReservationIsHeld'
  <2> SUFFICES ASSUME NEW a \in Apis, NEW q \in Requests
               PROVE  ((InHand(q) /\ Api(q) = a) <=> (cache[a].at = "in_flight" /\ cache[a].owner = q))'
    BY DEF ReservationIsHeld
  <2>1. CASE q = r
    BY <1>1, <1>2, <1>3, <2>1 DEF InHand, Api, StartInv, ReservationIsHeld
  <2>2. CASE q # r
    BY <1>1, <1>2, <1>3, <1>4, <2>2 DEF InHand, Api, StartInv, ReservationIsHeld
  <2> QED
    BY <2>1, <2>2
<1> QED
  BY <1>5, <1>6

\* A handler that goes on keeps its reservation.
LEMMA HandlerGoesOn ==
  ASSUME StartInv, NEW r \in Requests, InHand(r),
         NEW at \in {"started", "already", "created"}, NEW run \in Executions,
         Goto(r, at, run), cache' = cache
  PROVE  ReservationIsHeld'
<1>1. /\ request'[r].at = at /\ request'[r].api = request[r].api
      /\ \A q \in Requests \ {r} : request'[q] = request[q]
  BY RequestMoves DEF StartInv, Stages
<1> QED
  BY <1>1 DEF InHand, Api, StartInv, ReservationIsHeld

\* One request moves past the middleware; no execution begins.
LEMMA RequestStep ==
  ASSUME RunInv, NEW r \in Requests, NEW at \in Stages, NEW run \in Executions,
         Goto(r, at, run), at = "begun" => request[r].at = "idle",
         at # "idle", UNCHANGED temporal, rows \subseteq rows',
         at = "created" => run \in Started /\ run \in rows',
         at = "done" => run \in rows',
         at # "started",
         cache' \in [Apis -> Entry], ReservationIsHeld',
         \A a \in Apis : cache'[a].at = "stored" => cache'[a].run \in rows'
  PROVE  StartInv'
<1>1. /\ request' \in [Requests -> Request]
      /\ request'[r].at = at /\ request'[r].run = run
      /\ \A q \in Requests \ {r} : request'[q] = request[q]
  BY RequestMoves DEF RunInv, StartInv
<1>2. Started' = Started
  BY DEF Started
<1>3. Spent \subseteq Spent'
  BY <1>1 DEF Spent
<1>4. Numbered' /\ latest' = latest
  BY <1>2, <1>3, CountKept DEF RunInv, StartInv
<1>5. OneOpen'
  BY <1>4 DEF RunInv, StartInv, OneOpen
<1>6. Named'
  BY <1>1, <1>2 DEF RunInv, StartInv, Named
<1> QED
  BY <1>1, <1>4, <1>5, <1>6 DEF StartInv

LEMMA BeginStep ==
  ASSUME RunInv, NEW r \in Requests, Begin(r) \/ Conflict(r) \/ Replay(r)
  PROVE  StartInv'
<1> USE DEF RunInv, StartInv
<1>1. /\ Api(r) \in Apis /\ request[r].at = "idle" /\ UNCHANGED projection
      /\ rows' = rows
  BY DEF Request, Api, Begin, Conflict, Replay, projection, rows
<1>2. CASE Begin(r)
  <2>1. /\ Goto(r, "begun", 0) /\ "begun" \in Stages /\ 0 \in Executions
        /\ cache' = [cache EXCEPT ![Api(r)] = [at |-> "in_flight", owner |-> r, run |-> 0]]
    BY <1>2 DEF Begin, Stages, Executions
  <2>2. /\ request'[r].at = "begun" /\ request'[r].api = request[r].api
        /\ \A q \in Requests \ {r} : request'[q] = request[q]
    BY <2>1, RequestMoves
  <2>3. /\ cache'[Api(r)].at = "in_flight" /\ cache'[Api(r)].owner = r
        /\ \A a \in Apis \ {Api(r)} : cache'[a] = cache[a]
    BY <1>1, <2>1
  <2>4. cache' \in [Apis -> Entry]
    BY <2>1 DEF Entry
  <2>5. \A q \in Requests : ~(InHand(q) /\ Api(q) = Api(r))
    BY <1>1, <1>2 DEF Begin, ReservationIsHeld
  <2>6. ReservationIsHeld'
    <3> SUFFICES ASSUME NEW a \in Apis, NEW q \in Requests
                 PROVE  ((InHand(q) /\ Api(q) = a) <=> (cache[a].at = "in_flight" /\ cache[a].owner = q))'
      BY DEF ReservationIsHeld
    <3>1. CASE q = r
      BY <1>1, <2>2, <2>3, <2>5, <3>1 DEF InHand, Api, ReservationIsHeld
    <3>2. CASE q # r
      BY <1>1, <2>2, <2>3, <2>5, <3>2 DEF InHand, Api, ReservationIsHeld
    <3> QED
      BY <3>1, <3>2
  <2>7. \A a \in Apis : cache'[a].at = "stored" => cache'[a].run \in rows'
    BY <1>1, <2>3 DEF Named
  <2>8. UNCHANGED temporal
    BY <1>1 DEF projection
  <2> QED
    BY <1>1, <2>1, <2>4, <2>6, <2>7, <2>8, RequestStep
<1>3. CASE Conflict(r) \/ Replay(r)
  <2>1. PICK at \in {"conflict", "done"}, run \in Executions :
          Goto(r, at, run) /\ (at = "done" => run \in rows)
    BY <1>1, <1>3 DEF Conflict, Replay, Executions, Entry, Named
  <2>2. at \in Stages /\ cache' = cache
    BY <1>3 DEF Conflict, Replay, Stages
  <2>3. /\ request'[r].at = at
        /\ \A q \in Requests \ {r} : request'[q] = request[q]
    BY <2>1, <2>2, RequestMoves
  <2>4. ReservationIsHeld'
    BY <1>1, <2>2, <2>3 DEF InHand, Api, ReservationIsHeld
  <2>5. UNCHANGED temporal /\ \A a \in Apis : cache'[a].at = "stored" => cache'[a].run \in rows'
    BY <1>1, <2>2 DEF projection, Named
  <2> QED
    BY <1>1, <2>1, <2>2, <2>4, <2>5, RequestStep
<1> QED
  BY <1>2, <1>3

\* The ways out of a handler: an answer, an error, a failure.
LEMMA EndStep ==
  ASSUME RunInv, NEW r \in Requests,
         ReturnExisting(r) \/ NoRowYet(r) \/ Answer(r) \/ Raise(r)
  PROVE  StartInv'
<1> USE DEF RunInv, StartInv
<1>1. InHand(r) /\ Api(r) \in Apis /\ UNCHANGED <<temporal, row>> /\ rows' = rows
  BY DEF Request, Api, InHand, ReturnExisting, NoRowYet, Answer, Raise, projection, rows
<1>2. rows \subseteq Runs /\ Runs \subseteq Executions
  BY DEF ProjectionInv, Tables, Executions, rows
<1>3. \/ \E run \in rows : Finish(r, run)
      \/ \E at \in {"failed", "orphaned"} : Fail(r, at)
  BY DEF ReturnExisting, NoRowYet, Answer, Raise, Named
<1>4. PICK at \in {"done", "failed", "orphaned"}, run \in Executions, e \in Entry :
        /\ Goto(r, at, run) /\ (at = "done" => run \in rows)
        /\ e.at # "in_flight" /\ (e.at = "stored" => e.run \in rows)
        /\ cache' = [cache EXCEPT ![Api(r)] = e]
  <2>1. CASE \E run \in rows : Finish(r, run)
    <3>1. PICK run \in rows : Finish(r, run)
      BY <2>1
    <3> DEFINE e == [at |-> "stored", owner |-> NoRequest, run |-> run]
    <3>2. e \in Entry /\ run \in Executions /\ e.at = "stored" /\ e.run = run
      BY <1>2 DEF Entry
    <3>3. Goto(r, "done", run) /\ cache' = [cache EXCEPT ![Api(r)] = e]
      BY <3>1 DEF Finish
    <3> QED
      BY <3>2, <3>3
  <2>2. CASE \E at \in {"failed", "orphaned"} : Fail(r, at)
    <3>1. PICK at \in {"failed", "orphaned"} : Fail(r, at)
      BY <2>2
    <3>2. Absent \in Entry /\ Absent.at = "absent" /\ 0 \in Executions
      BY DEF Entry, Absent, Executions
    <3>3. Goto(r, at, 0) /\ cache' = [cache EXCEPT ![Api(r)] = Absent]
      BY <3>1 DEF Fail
    <3> QED
      BY <3>2, <3>3
  <2> QED
    BY <1>3, <2>1, <2>2
<1>5. at \in Stages \ {"begun", "started", "already", "created"} /\ at # "idle"
  BY DEF Stages
<1>6. ReservationIsHeld' /\ cache' \in [Apis -> Entry]
  BY <1>1, <1>4, <1>5, HandlerEnds
<1>7. \A a \in Apis : cache'[a].at = "stored" => cache'[a].run \in rows'
  BY <1>1, <1>4 DEF Named
<1> QED
  BY <1>1, <1>4, <1>5, <1>6, <1>7, RequestStep

LEMMA GoOnStep ==
  ASSUME RunInv, NEW r \in Requests, AlreadyStarted(r) \/ CreateRun(r)
  PROVE  ProjectionInv' /\ RowsStay /\ StartInv'
<1> USE DEF RunInv, StartInv
<1>1. CASE AlreadyStarted(r)
  <2>1. /\ InHand(r) /\ Goto(r, "already", 0) /\ cache' = cache /\ UNCHANGED projection
        /\ 0 \in Executions /\ "already" \in Stages
    BY <1>1 DEF AlreadyStarted, InHand, Executions, Stages
  <2>2. ReservationIsHeld'
    BY <2>1, HandlerGoesOn
  <2>3. UNCHANGED temporal /\ rows' = rows
    BY <2>1 DEF projection, rows
  <2>4. StartInv'
    BY <2>1, <2>2, <2>3, RequestStep DEF Named
  <2>5. Forward /\ failures' \in 0 .. setting.failures
    BY <2>1 DEF projection, Forward, ProjectionInv, Tables
  <2> QED
    BY <2>1, <2>4, <2>5, OutsideStep DEF projection, session
<1>2. CASE CreateRun(r)
  <2> DEFINE run == request[r].run
  <2>1. /\ InHand(r) /\ Goto(r, "created", run) /\ cache' = cache
        /\ UNCHANGED <<setting, temporal, session, announced, failures>>
        /\ "created" \in Stages
    BY <1>2 DEF CreateRun, InHand, Stages
  <2>2. run \in Started /\ run \in Runs /\ run \in Executions /\ temporal[run] # "none"
    BY <1>2 DEF CreateRun, Named, Started, Executions
  <2>3. /\ rows' = rows \cup {run}
        /\ \A q \in DOMAIN row : row'[q] = row[q]
        /\ \A q \in DOMAIN row' \ DOMAIN row : q = run /\ row'[q] = NewRow
    BY <1>2 DEF CreateRun, rows
  <2> HIDE DEF run
  <2>4. ReservationIsHeld'
    BY <2>1, <2>2, HandlerGoesOn
  <2>5. \A a \in Apis : cache'[a].at = "stored" => cache'[a].run \in rows'
    BY <2>1, <2>3 DEF Named
  <2>6. StartInv'
    BY <2>1, <2>2, <2>3, <2>4, <2>5, RequestStep
  <2>7. Forward /\ failures' \in 0 .. setting.failures
    BY <2>1 DEF Forward, ProjectionInv, Tables
  <2>8. DOMAIN row \subseteq DOMAIN row'
    BY <2>3 DEF rows
  <2> QED
    BY <2>1, <2>2, <2>3, <2>6, <2>7, <2>8, OutsideStep
<1> QED
  BY <1>1, <1>2

\* The workflow begins: its execution is the next number.
LEMMA StartStep ==
  ASSUME RunInv, NEW r \in Requests, StartWorkflow(r)
  PROVE  ProjectionInv' /\ RowsStay /\ StartInv'
<1> USE DEF RunInv, StartInv
<1>1. /\ InHand(r) /\ Goto(r, "started", latest + 1) /\ cache' = cache /\ ~running
      /\ temporal' = [temporal EXCEPT ![latest + 1] = "Running"]
      /\ UNCHANGED <<setting, row, session, announced, failures>>
      /\ request[r].at = "begun" /\ "started" \in Stages
  BY DEF StartWorkflow, InHand, Stages
<1>2. r \in Requests \ Spent
  BY <1>1 DEF Spent
<1>3. latest + 1 \in Executions
  <2>1. Spent \in SUBSET Requests /\ Spent \cup {r} \in SUBSET Requests
    BY DEF Spent
  <2>2. Cardinality(Spent \cup {r}) = Cardinality(Spent) + 1
    BY <1>2, <2>1, RequestsCount, FS_AddElement
  <2>3. latest + 1 <= Cardinality(Requests)
    BY <2>1, <2>2, RequestsCount, LatestCounts DEF Numbered
  <2> QED
    BY <2>3, RequestsCount, LatestCounts, StartAssumption DEF Executions
<1>4. /\ request' \in [Requests -> Request]
      /\ request'[r].at = "started" /\ request'[r].run = latest + 1
      /\ \A q \in Requests \ {r} : request'[q] = request[q]
  BY <1>1, <1>3, RequestMoves
<1>5. Spent' = Spent \cup {r}
  BY <1>4 DEF Spent
<1>6. /\ latest + 1 \in Runs /\ temporal[latest + 1] = "none"
      /\ temporal'[latest + 1] = "Running"
      /\ Numbered' /\ latest' = latest + 1 /\ Started \subseteq Started' /\ Forward
  BY <1>1, <1>2, <1>5, NextBegins
<1>7. OneOpen'
  <2> SUFFICES ASSUME \A q \in Runs : ~Ended(temporal'[q]) PROVE latest = 0
    BY <1>6 DEF OneOpen
  <2>1. ASSUME latest # 0 PROVE FALSE
    <3>1. latest \in Started /\ latest \in Runs
      BY <2>1, LatestCounts DEF Numbered
    <3>2. temporal[latest] # "none" /\ temporal[latest] # "Running"
      BY <1>1, <2>1, <3>1 DEF running, Started
    <3>3. Ended(temporal[latest]) /\ temporal'[latest] = temporal[latest]
      BY <1>6, <3>1, <3>2 DEF Ended, Forward
    <3> QED
      BY <3>1, <3>3
  <2> QED
    BY <2>1
<1>8. rows' = rows
  BY <1>1 DEF rows
<1>9. Named'
  BY <1>1, <1>4, <1>6, <1>8 DEF Named, Started, ProjectionInv, Tables
<1>10. ReservationIsHeld'
  BY <1>1, <1>3, HandlerGoesOn
<1>11. failures' \in 0 .. setting.failures
  BY <1>1 DEF ProjectionInv, Tables
<1>12. ProjectionInv' /\ RowsStay
  BY <1>1, <1>6, <1>11, OutsideStep
<1> QED
  BY <1>1, <1>4, <1>6, <1>7, <1>9, <1>10, <1>12

\* A stored answer is swept, or a process dies with its handlers.
LEMMA ProcessStep ==
  ASSUME RunInv, NEW a \in Apis, Sweep(a) \/ Crash(a)
  PROVE  ProjectionInv' /\ RowsStay /\ StartInv'
<1> USE DEF RunInv, StartInv
<1>1. /\ cache' = [cache EXCEPT ![a] = Absent]
      /\ UNCHANGED <<setting, temporal, row, session, announced>> /\ rows' = rows
  BY DEF Sweep, Crash, projection, session, rows
<1>2. Absent \in Entry /\ Absent.at = "absent"
  BY DEF Absent, Entry, Executions
<1>3. /\ cache'[a] = Absent /\ \A b \in Apis \ {a} : cache'[b] = cache[b]
      /\ cache' \in [Apis -> Entry]
  BY <1>1, <1>2
<1>4. \A r \in Requests :
        \/ request'[r] = request[r] /\ (Crash(a) => ~(InHand(r) /\ Api(r) = a))
        \/ /\ Crash(a) /\ InHand(r) /\ Api(r) = a
           /\ request'[r].at = "lost" /\ request'[r].api = a
           /\ request'[r] \in Request
  BY DEF Sweep, Crash, Request, Api, Stages
<1>5. request' \in [Requests -> Request]
  BY <1>4 DEF Sweep, Crash
<1>6. ReservationIsHeld'
  <2> SUFFICES ASSUME NEW b \in Apis, NEW r \in Requests
               PROVE  ((InHand(r) /\ Api(r) = b) <=> (cache[b].at = "in_flight" /\ cache[b].owner = r))'
    BY DEF ReservationIsHeld
  <2>1. CASE Sweep(a)
    BY <1>2, <1>3, <2>1 DEF Sweep, InHand, Api, ReservationIsHeld
  <2>2. CASE Crash(a)
    BY <1>2, <1>3, <1>4, <2>2 DEF InHand, Api, ReservationIsHeld
  <2> QED
    BY <2>1, <2>2
<1>7. Started' = Started /\ Spent \subseteq Spent'
  BY <1>1, <1>4 DEF Started, Spent
<1>8. Numbered' /\ OneOpen'
  BY <1>1, <1>7, CountKept DEF OneOpen
<1>9. Named'
  BY <1>1, <1>2, <1>3, <1>4, <1>7 DEF Named
<1>10. Forward /\ failures' \in 0 .. setting.failures
  BY <1>1, ProjectionAssumption DEF Forward, ProjectionInv, Tables, Sweep, Crash, Failure, projection
<1> QED
  BY <1>1, <1>3, <1>5, <1>6, <1>8, <1>9, <1>10, OutsideStep

LEMMA RunStarts == Init => RunInv
<1> SUFFICES ASSUME Init PROVE RunInv
  OBVIOUS
<1>1. ProjectionInv
  BY ProjectionStarts DEF Init
<1>2. \A r \in Requests : request[r].at = "idle"
  BY DEF Init
<1>3. request \in [Requests -> Request] /\ cache \in [Apis -> Entry]
  <2>1. "idle" \in Stages /\ 0 \in Executions /\ Absent \in Entry
    BY DEF Stages, Executions, Absent, Entry
  <2> QED
    BY <2>1 DEF Init, Request
<1>4. Started = {} /\ latest = 0
  <2>1. Started = {}
    BY DEF Init, ProjectionInit, Started
  <2> QED
    BY <2>1, FS_EmptySet, LatestCounts
<1>5. Spent \in SUBSET Requests
  BY DEF Spent
<1>6. Numbered /\ OneOpen
  BY <1>4, <1>5, RequestsCount DEF Numbered, OneOpen
<1>7. Named /\ ReservationIsHeld
  BY <1>2 DEF Init, Named, ReservationIsHeld, InHand, Absent
<1> QED
  BY <1>1, <1>3, <1>6, <1>7 DEF RunInv, StartInv

LEMMA RunStep == RunInv /\ [Next]_vars => RunInv' /\ (row' = row \/ RowsStay)
<1> SUFFICES ASSUME RunInv, [Next]_vars PROVE RunInv' /\ (row' = row \/ RowsStay)
  OBVIOUS
<1>1. ASSUME NEW r \in setting.requests, Handle(r)
      PROVE  RunInv' /\ (row' = row \/ RowsStay)
  <2>1. r \in Requests
    BY StartAssumption DEF RunInv, ProjectionInv, Tables
  <2>2. CASE Begin(r) \/ Conflict(r) \/ Replay(r)
    <3>1. UNCHANGED projection
      BY <2>2 DEF Begin, Conflict, Replay
    <3>2. ProjectionInv' /\ row' = row
      BY <3>1 DEF RunInv, ProjectionInv, projection, session, Tables, RowTrue, SessionTrue, Tells
    <3> QED
      BY <2>1, <2>2, <3>2, BeginStep DEF RunInv
  <2>3. CASE ReturnExisting(r) \/ NoRowYet(r) \/ Answer(r) \/ Raise(r)
    <3>1. UNCHANGED <<setting, temporal, row, session, announced>>
      BY <2>3 DEF ReturnExisting, NoRowYet, Answer, Raise, projection, session
    <3>2. failures' \in 0 .. setting.failures
      BY <2>3, ProjectionAssumption DEF ReturnExisting, NoRowYet, Answer, Raise, projection, Failure,
         RunInv, ProjectionInv, Tables
    <3>3. Forward
      BY <3>1 DEF Forward, RunInv, ProjectionInv, Tables
    <3>4. ProjectionInv' /\ row' = row
      BY <3>1, <3>2, <3>3, OutsideStep DEF RunInv
    <3> QED
      BY <2>1, <2>3, <3>4, EndStep DEF RunInv
  <2>4. CASE AlreadyStarted(r) \/ CreateRun(r)
    BY <2>1, <2>4, GoOnStep DEF RunInv
  <2>5. CASE StartWorkflow(r)
    BY <2>1, <2>5, StartStep DEF RunInv
  <2> QED
    BY <1>1, <2>2, <2>3, <2>4, <2>5 DEF Handle
<1>2. ASSUME NEW a \in Apis, Sweep(a) \/ Crash(a)
      PROVE  RunInv' /\ (row' = row \/ RowsStay)
  BY <1>2, ProcessStep DEF RunInv
<1>3. CASE ProjectionNext /\ UNCHANGED start
  <2>1. /\ ProjectionInv' /\ RowsStay /\ Forward /\ rows' = rows /\ UNCHANGED <<cache, request>>
        /\ \A r \in Runs : temporal'[r] = "none" <=> temporal[r] = "none"
    BY <1>3, ProjectionStep DEF RunInv, start, rows
  <2>2. Started' = Started /\ Spent' = Spent
    BY <2>1 DEF Started, Spent
  <2>3. Numbered' /\ latest' = latest
    BY <2>2, CountKept DEF RunInv, StartInv
  <2>4. OneOpen'
    <3>1. (\A r \in Runs : ~Ended(temporal'[r])) => \A r \in Runs : ~Ended(temporal[r])
      BY <2>1 DEF Forward
    <3> QED
      BY <2>3, <3>1 DEF RunInv, StartInv, OneOpen
  <2>5. Named' /\ ReservationIsHeld'
    BY <2>1, <2>2 DEF RunInv, StartInv, Named, ReservationIsHeld, InHand, Api
  <2> QED
    BY <2>1, <2>3, <2>4, <2>5 DEF RunInv, StartInv
<1>4. CASE UNCHANGED vars
  BY <1>4 DEF vars, start, projection, session, RunInv, ProjectionInv, Tables, RowTrue, SessionTrue,
     Tells, StartInv, Numbered, OneOpen, Named, ReservationIsHeld, Started, Spent, latest, rows,
     InHand, Api
<1> QED
  BY <1>1, <1>2, <1>3, <1>4 DEF Next

LEMMA RunInvariant == Spec => []RunInv
<1>1. RunInv /\ [Next]_vars => RunInv'
  BY RunStep
<1> QED
  BY RunStarts, <1>1, PTL DEF Spec

------------------------------------------------------------------------------
\* The types of requests, caches, rows and sessions; in particular no request
\* finds the executions' numbers used up.
THEOREM TypeCorrect == Spec => []TypeOK
<1>1. NewRow \in Rows /\ ~Ended(NewRow.status)
  BY DEF NewRow, Rows, Ended, Statuses
<1>2. RunInv => ProjectionTypeOK
  BY <1>1 DEF RunInv, ProjectionInv, Tables, RowTrue, SessionTrue, ProjectionTypeOK
<1>3. RunInv => TypeOK
  BY <1>2 DEF RunInv, StartInv, TypeOK, Request, Entry
<1> QED
  BY RunInvariant, <1>3, PTL

\* ReservationIsHeld: whatever way a handler leaves by, it frees its key, and no
\* key is freed under a handler that runs.
THEOREM ReservationIsHeldAlways == Spec => []ReservationIsHeld
BY RunInvariant, PTL DEF RunInv, StartInv

\* SameAnswer: one key, one run, for any number of requests, replicas, crashes
\* and failures, as long as the run has not ended.
THEOREM SameAnswerAlways == Spec => []SameAnswer
<1>1. RunInv => SameAnswer
  <2> SUFFICES ASSUME RunInv PROVE SameAnswer
    OBVIOUS
  <2>1. rows \subseteq 1 .. latest
    BY DEF RunInv, ProjectionInv, Tables, StartInv, Numbered, Started, rows
  <2>2. (\A r \in Runs : ~Ended(temporal[r])) => rows \subseteq {1}
    BY <2>1, LatestCounts DEF RunInv, StartInv, OneOpen
  <2> QED
    BY <2>2 DEF SameAnswer, RunInv, StartInv, Named
<1> QED
  BY RunInvariant, <1>1, PTL

\* SettledIsTrue: what a settled row says is how the run ended, for any number of
\* runs, reconcilers and readers.
THEOREM SettledIsTrueAlways == Spec => []SettledIsTrue
<1>1. RunInv => SettledIsTrue
  BY DEF RunInv, ProjectionInv, Tables, RowTrue, Tells, SettledIsTrue
<1> QED
  BY RunInvariant, <1>1, PTL

\* SettledStays: no session's commit takes anything back from a settled row.
THEOREM SettledStaysAlways == Spec => SettledStays
<1> DEFINE Stay ==
      \A r \in DOMAIN row : Ended(row[r].status) =>
        /\ row'[r].status = row[r].status
        /\ row[r].output => row'[r].output
        /\ row[r].error => row'[r].error
<1>1. RunInv /\ [Next]_vars => [Stay]_row
  BY RunStep DEF RowsStay
<1> QED
  BY RunInvariant, <1>1, PTL DEF Spec, SettledStays



=============================================================================
