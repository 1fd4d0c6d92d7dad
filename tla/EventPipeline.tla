--------------------------- MODULE EventPipeline ---------------------------
(***************************************************************************)
(* The event bus: workers publish to the global stream and to the run's    *)
(* capped stream, projectors of one consumer group drain the first into    *)
(* run_event, and a browser tails the second by id.                        *)
(*                                                                         *)
(* Events of one run, named by their place in the streams.                 *)
(***************************************************************************)
EXTENDS Naturals, FiniteSets, Sequences, FiniteSetsExt, SequencesExt

CONSTANTS
  Projectors,   \* replicas of the event consumer
  MaxEvents,    \* bound on the events published
  BatchSize,    \* events one read claims
  GlobalMax,    \* cap of the global stream
  RunMax,       \* cap of the run's stream
  MayLose,      \* whether a publish may fail, on either stream
  MayFail,      \* whether a read's answer or a database write may fail
  MayStop       \* whether a projector may be stopped, killed and restarted

ASSUME PipelineAssumption ==
  /\ {MaxEvents, BatchSize, GlobalMax, RunMax} \subseteq Nat \ {0}
  /\ {MayLose, MayFail, MayStop} \subseteq BOOLEAN

Ids == 1 .. MaxEvents

VARIABLES
  next,       \* the next event's id
  global,     \* entries of the global stream that are not trimmed
  live,       \* entries of the run's stream that are not trimmed
  delivered,  \* the group's last-delivered id
  pending,    \* the group's pending entries of each projector
  batch,      \* the batch a projector has in hand
  stage,      \* what it does with it
  history,    \* run_event, in the order of its autoincrement key
  cursor,     \* last_id of the browser's socket on the server, 0 when fresh
  open,       \* whether the browser has a socket
  seen        \* the frames the browser received

vars == <<next, global, live, delivered, pending, batch, stage, history, cursor, open, seen>>
streams == <<next, global, live>>
projector == <<delivered, pending, batch, stage, history>>
browser == <<cursor, open, seen>>

TypeOK ==
  /\ next \in 1 .. MaxEvents + 1
  /\ global \subseteq 1 .. next - 1 /\ Cardinality(global) <= GlobalMax
  /\ live \subseteq 1 .. next - 1 /\ Cardinality(live) <= RunMax
  /\ delivered \in 0 .. next - 1
  /\ pending \in [Projectors -> SUBSET (1 .. delivered)]
  /\ stage \in [Projectors -> {"read", "persist", "ack"}]
  /\ batch \in [Projectors -> SUBSET Ids]
  /\ \A p \in Projectors : batch[p] \subseteq pending[p] /\ (batch[p] = {} <=> stage[p] = "read")
  /\ \A p, q \in Projectors : p # q => pending[p] \cap pending[q] = {}
  /\ cursor \in 0 .. next - 1 /\ open \in BOOLEAN
  /\ ToSet(history) \subseteq 1 .. delivered
  /\ ToSet(seen) \subseteq 1 .. cursor

Init ==
  /\ next = 1
  /\ global = {} /\ live = {}
  /\ delivered = 0
  /\ pending = [p \in Projectors |-> {}]
  /\ batch = [p \in Projectors |-> {}]
  /\ stage = [p \in Projectors |-> "read"]
  /\ history = <<>>
  /\ cursor = 0 /\ open = TRUE /\ seen = <<>>

\* The n newest entries of a stream: what XADD ... MAXLEN n leaves.
Newest(n, stream) == {e \in stream : Cardinality({f \in stream : f > e}) < n}

\* EventBus.publish: one pipeline, no transaction, and every error swallowed.
Publish ==
  /\ next <= MaxEvents
  /\ \E g, r \in IF MayLose THEN BOOLEAN ELSE {TRUE} :
       /\ global' = IF g THEN Newest(GlobalMax, global \cup {next}) ELSE global
       /\ live' = IF r THEN Newest(RunMax, live \cup {next}) ELSE live
  /\ next' = next + 1
  /\ UNCHANGED <<projector, browser>>

------------------------------------------------------------------------------
(* Projector.run_once *)

Undelivered == {e \in global : e > delivered}

\* The entries a read of ">" hands out; they become the reader's pending ones.
Claimed == {e \in Undelivered : Cardinality({f \in Undelivered : f < e}) < BatchSize}

Claim(p) ==
  /\ stage[p] = "read"
  /\ Undelivered # {}
  /\ delivered' = Max(Claimed)
  /\ pending' = [pending EXCEPT ![p] = @ \cup Claimed]

ReadGroup(p) ==
  /\ Claim(p)
  /\ batch' = [batch EXCEPT ![p] = Claimed]
  /\ stage' = [stage EXCEPT ![p] = "persist"]
  /\ UNCHANGED <<streams, history, browser>>

\* The answer is lost, or read_group takes a socket timeout for an empty read.
ReadLost(p) ==
  /\ MayFail
  /\ Claim(p)
  /\ UNCHANGED <<streams, batch, stage, history, browser>>

\* The new rows in batch order; ON CONFLICT DO NOTHING for the others.
NewRows(p) == SetToSortSeq(batch[p] \ ToSet(history), <)

\* Mutant of Persist: the insert is never committed.
PersistUncommitted(p) ==
  /\ stage[p] = "persist"
  /\ stage' = [stage EXCEPT ![p] = "ack"]
  /\ UNCHANGED <<streams, delivered, pending, batch, history, browser>>

Persist(p) ==
  /\ stage[p] = "persist"
  /\ history' = history \o NewRows(p)
  /\ stage' = [stage EXCEPT ![p] = "ack"]
  /\ UNCHANGED <<streams, delivered, pending, batch, browser>>

GiveUp(p) ==
  /\ batch' = [batch EXCEPT ![p] = {}]
  /\ stage' = [stage EXCEPT ![p] = "read"]

\* The insert raises, committed or not: run_forever goes on with the next read.
PersistFails(p) ==
  /\ MayFail
  /\ stage[p] = "persist"
  /\ history' \in {history, history \o NewRows(p)}
  /\ GiveUp(p)
  /\ UNCHANGED <<streams, delivered, pending, browser>>

Ack(p) ==
  /\ stage[p] = "ack"
  /\ \/ pending' = [pending EXCEPT ![p] = @ \ batch[p]]
     \/ MayFail /\ UNCHANGED pending
  /\ GiveUp(p)
  /\ UNCHANGED <<streams, delivered, history, browser>>

\* SIGTERM cancels the task, SIGKILL ends it; it comes back under its name.
Stop(p) ==
  /\ MayStop
  /\ stage[p] # "read"
  /\ GiveUp(p)
  /\ UNCHANGED <<streams, delivered, pending, history, browser>>

------------------------------------------------------------------------------
(* stream_run *)

Unsent == {e \in live : e > cursor}

\* The next entry after the cursor goes out, and arrives.
Frame ==
  /\ open
  /\ Unsent # {}
  /\ cursor' = Min(Unsent)
  /\ seen' = Append(seen, cursor')
  /\ UNCHANGED <<streams, projector, open>>

\* The socket drops, and the frame that was on it is lost.
Drop ==
  /\ MayFail
  /\ open
  /\ cursor' = cursor \/ (Unsent # {} /\ cursor' = Min(Unsent))
  /\ open' = FALSE
  /\ UNCHANGED <<streams, projector, seen>>

\* Mutant of Reconnect: the server goes on where it stopped sending.
ReconnectAtCursor ==
  /\ ~open
  /\ open' = TRUE
  /\ UNCHANGED <<streams, projector, cursor, seen>>

\* The browser comes back with the last id it saw, or with none.
Reconnect ==
  /\ ~open
  /\ cursor' = IF seen = <<>> THEN 0 ELSE Last(seen)
  /\ open' = TRUE
  /\ UNCHANGED <<streams, projector, seen>>

------------------------------------------------------------------------------
Work(p) == ReadGroup(p) \/ Persist(p) \/ Ack(p)
Trouble(p) == ReadLost(p) \/ PersistFails(p) \/ Stop(p)

Next ==
  \/ Publish
  \/ \E p \in Projectors : Work(p) \/ Trouble(p)
  \/ Frame \/ Drop \/ Reconnect

\* Each projector's loop keeps running (it sleeps a second after an error), and
\* nobody has to publish.
Fairness == \A p \in Projectors : WF_vars(Work(p))

Spec == Init /\ [][Next]_vars
FairSpec == Spec /\ Fairness

------------------------------------------------------------------------------
(* Properties *)

\* The browser sees no event twice, whatever sockets it lost, and misses none
\* that the run's stream still has (stream.py: "no gap, no full refetch"): a gap
\* can only come from the stream's cap.
NoGap ==
  /\ \A i, j \in DOMAIN seen : i < j => seen[i] < seen[j]
  /\ seen # <<>> => {e \in live : seen[1] <= e /\ e <= Last(seen)} \subseteq ToSet(seen)

\* An event that reached the global stream is written, unless a cut-off or
\* failed batch left it pending, which nobody reads again, or it is trimmed
\* first: the loop passes over nothing.
NeverSkipped ==
  \A e \in Ids : e \in global ~>
    \/ e \in ToSet(history) \/ e \notin global
    \/ \E p \in Projectors : e \in pending[p] \ batch[p]
=============================================================================
