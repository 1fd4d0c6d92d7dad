--------------------------- MODULE RunProjection ---------------------------
(***************************************************************************)
(* How workflow_run rows follow Temporal: the reconciler's pass over all   *)
(* open rows in one transaction, and WorkflowService._refresh in the       *)
(* transaction of any API read or cancellation, both against runs that end  *)
(* at any moment.  StartRun has the executions begin and the rows appear.    *)
(*                                                                         *)
(* "Completed" ends with an output to fetch, "Failed" and "TimedOut" with  *)
(* an error, "Terminated" with neither.                                    *)
(***************************************************************************)
EXTENDS Naturals, FiniteSets

CONSTANTS
  Runs,         \* executions, in the order in which they begin
  Reconcilers,  \* replicas of the event consumer
  Readers,      \* API requests under way at a time
  Settings      \* the bounds of the instances: who takes part, how runs may
                \* end, how many calls, commits and processes fail

AllEnds == {"Completed", "Failed", "TimedOut", "Terminated"}

ASSUME ProjectionAssumption ==
  /\ \A st \in Settings :
       /\ st.ends \subseteq AllEnds
       /\ st.failures \in Nat
       /\ st.sessions \subseteq Reconcilers \cup Readers
  /\ Reconcilers \cap Readers = {}

Statuses == AllEnds \cup {"Running", "none"}
Sessions == Reconcilers \cup Readers

VARIABLES
  setting,    \* the instance
  temporal,   \* each run's status in Temporal, "none" before it begins
  row,        \* the rows there are: [status, output, error]
  loaded,     \* each session: the rows it loaded, as it loaded them
  todo,       \* the runs it has still to look at
  dirty,      \* the runs it changed, with the row it will write
  announced,  \* runs for which the terminal run.* event was published
  failures    \* failures so far

projection == <<setting, temporal, row, loaded, todo, dirty, announced, failures>>
session == <<loaded, todo, dirty>>

Rows == [status : Statuses \ {"none"}, output : BOOLEAN, error : BOOLEAN]
NewRow == [status |-> "Running", output |-> FALSE, error |-> FALSE]
NoRows == [r \in {} |-> NewRow]
Ended(status) == status \notin {"Running", "none"}
Idle(s) == DOMAIN loaded[s] = {}

ProjectionTypeOK ==
  /\ temporal \in [Runs -> Statuses]
  /\ DOMAIN row \subseteq {r \in Runs : temporal[r] # "none"}
  /\ \A r \in DOMAIN row : row[r] \in Rows
  /\ \A s \in Sessions :
       /\ DOMAIN dirty[s] \subseteq DOMAIN loaded[s] /\ todo[s] \subseteq DOMAIN loaded[s]
       /\ DOMAIN loaded[s] \subseteq Runs
       /\ DOMAIN dirty[s] \cap todo[s] = {}
       /\ \A r \in DOMAIN loaded[s] : loaded[s][r] \in Rows /\ ~Ended(loaded[s][r].status)
       /\ \A r \in DOMAIN dirty[s] : dirty[s][r] \in Rows /\ Ended(dirty[s][r].status)
  /\ announced \subseteq Runs
  /\ failures \in 0 .. setting.failures

ProjectionInit ==
  /\ setting \in Settings
  /\ temporal = [r \in Runs |-> "none"]
  /\ row = NoRows
  /\ loaded = [s \in Sessions |-> NoRows]
  /\ todo = [s \in Sessions |-> {}]
  /\ dirty = [s \in Sessions |-> NoRows]
  /\ announced = {}
  /\ failures = 0

\* The run ends.
End(r) ==
  /\ temporal[r] = "Running"
  /\ \E status \in setting.ends : temporal' = [temporal EXCEPT ![r] = status]
  /\ UNCHANGED <<setting, row, session, announced, failures>>

Open == {r \in DOMAIN row : ~Ended(row[r].status)}

Load(s, rs) ==
  /\ Idle(s)
  /\ rs # {}
  /\ loaded' = [loaded EXCEPT ![s] = [r \in rs |-> row[r]]]
  /\ todo' = [todo EXCEPT ![s] = rs]
  /\ UNCHANGED <<setting, temporal, row, dirty, announced, failures>>

\* The reconciler loads every open row, an API read the one it was asked for
\* (or a page of them).
Reconcile(s) == s \in Reconcilers /\ Load(s, Open)
Refresh(s) == s \in Readers /\ \E rs \in SUBSET Open : Load(s, rs)

\* cancel_run: the run is terminated, and its row is refreshed in the session
\* that loaded it; the run of a settled row cannot be terminated any more.
Cancel(s, r) ==
  /\ s \in Readers
  /\ "Terminated" \in setting.ends
  /\ r \in Open /\ temporal[r] = "Running"
  /\ Idle(s)
  /\ temporal' = [temporal EXCEPT ![r] = "Terminated"]
  /\ loaded' = [loaded EXCEPT ![s] = [q \in {r} |-> row[q]]]
  /\ todo' = [todo EXCEPT ![s] = {r}]
  /\ UNCHANGED <<setting, row, dirty, announced, failures>>

Done(s, r) == todo' = [todo EXCEPT ![s] = @ \ {r}]

\* describe() says what the row says: nothing to do.
Unchanged(s, r) ==
  /\ r \in todo[s]
  /\ temporal[r] = loaded[s][r].status
  /\ Done(s, r)
  /\ UNCHANGED <<setting, temporal, row, loaded, dirty, announced, failures>>

\* Mutant of Settled: the error of a run that failed is not asked for.
SettledNoError(s, r) ==
  [loaded[s][r] EXCEPT !.status = temporal[r],
                       !.output = @ \/ temporal[r] = "Completed"]

\* What the session will write: the reconciler takes the error of a run that
\* timed out too, _refresh does not.
Settled(s, r) ==
  [status |-> temporal[r],
   output |-> loaded[s][r].output \/ temporal[r] = "Completed",
   error |-> \/ loaded[s][r].error \/ temporal[r] = "Failed"
             \/ s \in Reconcilers /\ temporal[r] = "TimedOut"]

\* Something fails.
Failure ==
  /\ failures < setting.failures
  /\ failures' = failures + 1

\* The run has ended: the row object takes status and result, and only the
\* reconciler publishes the event (which may be lost unseen), before its
\* transaction commits.
Settle(s, r) ==
  /\ r \in todo[s]
  /\ Ended(temporal[r])
  /\ dirty' = [dirty EXCEPT ![s] = [q \in DOMAIN @ \cup {r} |-> IF q = r THEN Settled(s, r) ELSE @[q]]]
  /\ announced' \in IF s \in Readers THEN {announced}
                    ELSE {announced, announced \cup {r}}
  /\ Done(s, r)
  /\ UNCHANGED <<setting, temporal, row, loaded, failures>>

Reset(s) ==
  /\ loaded' = [loaded EXCEPT ![s] = NoRows]
  /\ todo' = [todo EXCEPT ![s] = {}]
  /\ dirty' = [dirty EXCEPT ![s] = NoRows]

\* describe() fails: the reconciler goes on, the API request fails.
DescribeFails(s, r) ==
  /\ Failure
  /\ r \in todo[s]
  /\ IF s \in Reconcilers
       THEN Done(s, r) /\ UNCHANGED <<loaded, dirty>>
       ELSE Reset(s)
  /\ UNCHANGED <<setting, temporal, row, announced>>

\* result() of a completed run raises: the whole session is rolled back.
ResultFails(s, r) ==
  /\ r \in todo[s]
  /\ temporal[r] = "Completed"
  /\ Failure
  /\ Reset(s)
  /\ UNCHANGED <<setting, temporal, row, announced>>

\* Only the columns that differ from what was loaded are written.
Column(loads, writes, is) == IF writes = loads THEN is ELSE writes
Written(s, r) ==
  LET new == dirty[s][r]  old == loaded[s][r] IN
  [status |-> Column(old.status, new.status, row[r].status),
   output |-> Column(old.output, new.output, row[r].output),
   error |-> Column(old.error, new.error, row[r].error)]

\* Mutant of Commit: every column of every loaded row is written back.
CommitAll(s) ==
  /\ ~Idle(s) /\ todo[s] = {}
  /\ row' = [r \in DOMAIN row |-> IF r \in DOMAIN dirty[s] THEN dirty[s][r]
                            ELSE IF r \in DOMAIN loaded[s] THEN loaded[s][r] ELSE row[r]]
  /\ Reset(s)
  /\ UNCHANGED <<setting, temporal, announced, failures>>

\* Mutant of Commit: the session is closed without a commit.
CommitForgets(s) ==
  /\ ~Idle(s) /\ todo[s] = {}
  /\ Reset(s)
  /\ UNCHANGED <<setting, temporal, row, announced, failures>>

Commit(s) ==
  /\ ~Idle(s) /\ todo[s] = {}
  /\ row' = [r \in DOMAIN row |-> IF r \in DOMAIN dirty[s] THEN Written(s, r) ELSE row[r]]
  /\ Reset(s)
  /\ UNCHANGED <<setting, temporal, announced, failures>>

\* The process dies, or the commit fails.
Abort(s) ==
  /\ ~Idle(s)
  /\ Failure
  /\ Reset(s)
  /\ UNCHANGED <<setting, temporal, row, announced>>

Step(s) ==
  \/ \E r \in Runs : Unchanged(s, r) \/ Settle(s, r)
  \/ Commit(s)

Fails(s) ==
  \/ \E r \in Runs : DescribeFails(s, r) \/ ResultFails(s, r)
  \/ Abort(s)

ProjectionNext ==
  \/ \E r \in Runs : End(r)
  \/ \E s \in setting.sessions :
       \/ Reconcile(s) \/ Refresh(s) \/ Step(s) \/ Fails(s)
       \/ \E r \in Runs : Cancel(s, r)

------------------------------------------------------------------------------
(* Properties *)

\* A settled row says what Temporal says, with the output of a completed run
\* and the error of a failed one, whoever settled it and whoever raced; an event
\* that says a run is over, published before the commit, is sent for no other.
SettledIsTrue ==
  /\ \A r \in DOMAIN row : Ended(row[r].status) =>
       /\ row[r].status = temporal[r]
       /\ row[r].status = "Completed" => row[r].output
       /\ row[r].status = "Failed" => row[r].error
  /\ \A r \in announced : Ended(temporal[r])

\* A settled row stays settled, with what it says: a session that loaded it
\* before does not write its old values back.
SettledStays ==
  [][\A r \in DOMAIN row : Ended(row[r].status) =>
       /\ row'[r].status = row[r].status
       /\ row[r].output => row'[r].output
       /\ row[r].error => row'[r].error]_row

\* Every run that ends is settled (reconciler.py: "the next reconcile makes
\* the projection correct again"), once it has a row: with nobody reading it,
\* after any number of failed passes, and also when it ended before its row was
\* there.  A result that can never be fetched would be a failure in every pass,
\* and the passes are one transaction for all rows: failures end.
EveryEndIsSettled ==
  \A r \in Runs :
    r \in DOMAIN row /\ Ended(temporal[r]) ~> r \in DOMAIN row /\ Ended(row[r].status)
============================================================================
