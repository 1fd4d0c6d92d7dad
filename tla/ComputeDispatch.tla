-------------------------- MODULE ComputeDispatch --------------------------
(***************************************************************************)
(* One compute activity, from Temporal's attempts through the driver that  *)
(* submits the batches to a backend, in its two execution models: inline   *)
(* (ray_compute), which polls, heartbeats checkpoints and resumes from     *)
(* them, and async (ray_compute_async), which hands the task to a detached *)
(* completer in the worker process.                                        *)
(*                                                                         *)
(* The backend is "local", whose threads share the progress channel and    *)
(* are killed with the process, or "ray", whose tasks do neither.  A       *)
(* process may also end by a drain: it cancels its activities, waits for   *)
(* them and exits, and its threads run on until they are done.             *)
(***************************************************************************)
EXTENDS Naturals

CONSTANTS
  MaxAttempts,
  Batches,
  HeartbeatBatches, \* batches that fit into heartbeat_timeout
  Settings      \* the calls and deployments that are considered

\* troubles: what may happen: "stall" (of a process or its connection), "die"
\* (a process is killed or drained), "fail" (of a task or a call).  failAt:
\* fail_at_batch, 0 for none.
ASSUME ComputeAssumption ==
  /\ {MaxAttempts, Batches, HeartbeatBatches} \subseteq Nat \ {0}
  /\ Settings \subseteq [model : {"inline", "async"}, backend : {"local", "ray"},
                         troubles : SUBSET {"stall", "die", "fail"},
                         failAt : 0 .. Batches]

Attempts == 1 .. MaxAttempts

\* The checksum over the first n batches, in units of 7.
Total(n) == (n * (n + 1)) \div 2

VARIABLES
  setting, \* the member of Settings this behaviour is about
  srv,     \* "queued", "running", "completed", "failed" or "cancelled"
  cur,     \* the attempt dispatched last
  closed,  \* how Temporal closed each attempt
  asked,   \* cancellation was requested
  quiet,   \* batches since the server heard of the current attempt
  ckpt,    \* the heartbeat details the server holds: [batch, acc]
  result,  \* the checksum the workflow received
  pc,      \* the driver or completer of each attempt
  says,    \* what it is about to report
  task,    \* the backend's task: [at, from, batch, acc]
  told,    \* the tasks that were asked to stop
  left,    \* history: the tasks a draining worker took the driver or the
           \* completer from without stopping them
  rows     \* finish rows <<attempt, status>> of node_execution

server == <<srv, cur, closed, asked, quiet, ckpt, result>>
vars == <<setting, server, pc, says, task, told, left, rows>>

Model == setting.model
Backend == setting.backend
Troubles == setting.troubles
FailAt == setting.failAt

Checkpoints == [batch : 0 .. Batches, acc : 0 .. Total(Batches)]

\* The type.
TypeOK ==
  /\ setting \in Settings
  /\ srv \in {"queued", "running", "completed", "failed", "cancelled"}
  /\ cur \in 0 .. MaxAttempts
  /\ closed \in [Attempts -> {"none", "ok", "failed", "cancelled", "timedout"}]
  /\ asked \in BOOLEAN
  /\ quiet \in 0 .. Batches
  /\ ckpt \in Checkpoints
  /\ result \in 0 .. Total(Batches)
  /\ pc \in [Attempts -> {"idle", "submit", "recording", "polling", "finishing",
                          "waiting", "failing", "report", "ended", "dead"}]
  /\ says \in [Attempts -> {"none", "ok", "failed", "cancelled"}]
  /\ task \in [Attempts -> [at : {"none", "running", "done", "failed", "lost"},
                            from : 0 .. Batches, batch : 0 .. Batches,
                            acc : 0 .. Total(Batches)]]
  /\ told \subseteq Attempts
  /\ left \subseteq Attempts
  /\ rows \subseteq Attempts \X {"Completed", "Failed", "Cancelled"}

Init ==
  /\ setting \in Settings
  /\ srv = "queued" /\ cur = 0 /\ asked = FALSE /\ quiet = 0 /\ result = 0
  /\ closed = [a \in Attempts |-> "none"]
  /\ ckpt = [batch |-> 0, acc |-> 0]
  /\ pc = [a \in Attempts |-> "idle"]
  /\ says = [a \in Attempts |-> "none"]
  /\ task = [a \in Attempts |-> [at |-> "none", from |-> 0, batch |-> 0, acc |-> 0]]
  /\ told = {}
  /\ left = {}
  /\ rows = {}

Goto(a, label) == pc' = [pc EXCEPT ![a] = label]
Record(a, status) == rows' = rows \cup {<<a, status>>}
Awaited(a) == srv = "running" /\ a = cur
Driven(a) == pc[a] \notin {"idle", "ended", "dead"}

\* Mutant of HasProgress: the report is moved behind the loop.
HasProgressAtEnd(a) == Backend = "local" /\ task[a].batch = Batches

\* LiveProgress.latest: a task in another process reports to a channel nobody
\* reads, and a task that has finished no batch has reported nothing.
HasProgress(a) == Backend = "local" /\ task[a].batch > task[a].from
Latest(a) == [batch |-> task[a].batch, acc |-> task[a].acc]

------------------------------------------------------------------------------
(* Temporal's side *)

Close(a, how) ==
  /\ closed' = [closed EXCEPT ![a] = how]
  /\ srv' = IF how = "cancelled" THEN "cancelled"
            ELSE IF cur < MaxAttempts /\ ~asked THEN "queued" ELSE "failed"

Complete(a, checksum) ==
  /\ srv' = "completed"
  /\ closed' = [closed EXCEPT ![a] = "ok"]
  /\ result' = checksum

Dispatch ==
  /\ srv = "queued"
  /\ srv' = "running"
  /\ cur' = cur + 1
  /\ quiet' = 0
  /\ Goto(cur + 1, "submit")
  /\ UNCHANGED <<setting, closed, asked, ckpt, result, says, task, told, left, rows>>

\* Only inline calls are given a heartbeat_timeout.  Without stalls a timer
\* fires on a silent or dead attempt, with stalls at any time.
Timeout ==
  /\ srv = "running"
  /\ \/ "stall" \in Troubles
     \/ Model = "inline" /\ quiet >= HeartbeatBatches
     \/ ~Driven(cur)
  /\ Close(cur, "timedout")
  /\ UNCHANGED <<setting, cur, asked, quiet, ckpt, result, pc, says, task, told, left, rows>>

RequestCancel ==
  /\ ~asked /\ srv \in {"queued", "running"}
  /\ asked' = TRUE
  /\ srv' = IF srv = "queued" THEN "cancelled" ELSE srv
  /\ UNCHANGED <<setting, cur, closed, quiet, ckpt, result, pc, says, task, told, left, rows>>

------------------------------------------------------------------------------
(* The task: batched_compute *)

\* Mutant of Resume: the position is taken over without its sum.
ResumeWithoutAcc ==
  IF Model = "inline" THEN [ckpt EXCEPT !.acc = 0] ELSE [batch |-> 0, acc |-> 0]

\* Where an attempt starts: inline from the checkpoint, async from zero.
Resume == IF Model = "inline" THEN ckpt ELSE [batch |-> 0, acc |-> 0]

\* The injected crash is armed on attempt 1, where ray_compute passes its
\* attempt; ray_compute_async leaves the parameter at its default, 1.
Injected(a, batch) ==
  FailAt # 0 /\ batch = FailAt /\ (Model = "inline" => a = 1)

Submit(a) ==
  /\ pc[a] = "submit"
  /\ task' = [task EXCEPT ![a] =
       [at |-> IF Resume.batch < Batches THEN "running" ELSE "done",
        from |-> Resume.batch, batch |-> Resume.batch, acc |-> Resume.acc]]
  /\ Goto(a, "recording")
  /\ UNCHANGED <<setting, server, says, told, left, rows>>

\* record_start has returned, whatever became of the row: the driver enters its
\* loop, or the completer is created and the activity returns.
Recorded(a) ==
  /\ pc[a] = "recording"
  /\ Goto(a, IF Model = "inline" THEN "polling" ELSE "waiting")
  /\ UNCHANGED <<setting, server, says, task, told, left, rows>>

\* One round of the loop: the stop request is looked at, the batch is done,
\* added and reported.  Without stalls the driver keeps pace: it has
\* heartbeat the last checkpoint before the next one is made.
Batch(a) ==
  LET i == task[a].batch + 1 IN
  /\ task[a].at = "running"
  /\ a \notin told
  /\ "stall" \notin Troubles /\ pc[a] \in {"recording", "polling"}
     /\ Awaited(a) /\ HasProgress(a)
     => ckpt = Latest(a)
  /\ task' = [task EXCEPT ![a] =
       [@ EXCEPT !.batch = i, !.acc = task[a].acc + i,
         !.at = IF Injected(a, i) THEN "failed" ELSE IF i = Batches THEN "done" ELSE "running"]]
  /\ quiet' = IF Awaited(a) /\ quiet < Batches THEN quiet + 1 ELSE quiet
  /\ UNCHANGED <<setting, srv, cur, closed, asked, ckpt, result, pc, says, told, left, rows>>

\* Cancelled is raised at the next batch boundary (ray.cancel interrupts the
\* task), or the task fails by itself.
TaskFails(a) ==
  /\ task[a].at = "running"
  /\ a \in told \/ "fail" \in Troubles
  /\ task' = [task EXCEPT ![a].at = "failed"]
  /\ UNCHANGED <<setting, server, pc, says, told, left, rows>>

------------------------------------------------------------------------------
(* Model A: ray_compute *)

\* Mutant of Poll: the driver gives up without stopping the task.
PollLeavesTask(a) ==
  /\ pc[a] = "polling" /\ HasProgress(a)
  /\ IF Awaited(a)
     THEN ckpt' = Latest(a) /\ quiet' = 0
     ELSE UNCHANGED <<ckpt, quiet>>
  /\ IF Awaited(a) /\ ~asked
     THEN UNCHANGED <<pc, says, told, rows>>
     ELSE /\ UNCHANGED told
          /\ says' = [says EXCEPT ![a] = "cancelled"]
          /\ Goto(a, "report")
          /\ Record(a, "Cancelled")
  /\ UNCHANGED <<setting, srv, cur, closed, asked, result, task, left>>

\* A round of the driver: it heartbeats the latest checkpoint, if there is
\* one.  The answer tells it of a cancellation, or that nobody waits for this
\* attempt; then it stops the task, records the row and raises, even while it
\* takes the result of a task that is over.
Poll(a) ==
  /\ pc[a] = "polling" /\ HasProgress(a)
  /\ IF Awaited(a)
     THEN ckpt' = Latest(a) /\ quiet' = 0
     ELSE UNCHANGED <<ckpt, quiet>>
  /\ IF Awaited(a) /\ ~asked
     THEN UNCHANGED <<pc, says, told, rows>>
     ELSE /\ told' = told \cup {a}
          /\ says' = [says EXCEPT ![a] = "cancelled"]
          /\ Goto(a, "report")
          /\ Record(a, "Cancelled")
  /\ UNCHANGED <<setting, srv, cur, closed, asked, result, task, left>>

\* Mutant of Collect: the final checkpoint is sent for whatever attempt.
CollectFlushesAny(a) ==
  /\ pc[a] = "polling" /\ task[a].at \in {"done", "failed"}
  /\ ckpt' = IF HasProgress(a) THEN Latest(a) ELSE ckpt
  /\ says' = [says EXCEPT ![a] = IF task[a].at = "done" THEN "ok" ELSE "failed"]
  /\ Goto(a, IF task[a].at = "done" THEN "finishing" ELSE "report")
  /\ UNCHANGED <<setting, srv, cur, closed, asked, quiet, result, task, told, left, rows>>

\* The task is over: the final checkpoint is flushed and the result taken, which
\* raises what the task raised.
Collect(a) ==
  /\ pc[a] = "polling" /\ task[a].at \in {"done", "failed"}
  /\ ckpt' = IF Awaited(a) /\ HasProgress(a) THEN Latest(a) ELSE ckpt
  /\ says' = [says EXCEPT ![a] = IF task[a].at = "done" THEN "ok" ELSE "failed"]
  /\ Goto(a, IF task[a].at = "done" THEN "finishing" ELSE "report")
  /\ UNCHANGED <<setting, srv, cur, closed, asked, quiet, result, task, told, left, rows>>

\* The row of a computed result is recorded.  The answer to the last heartbeat
\* may still cancel the activity here, behind the handler: the result is lost.
Finish(a) ==
  /\ pc[a] = "finishing"
  /\ \/ Record(a, "Completed") /\ UNCHANGED says
     \/ /\ HasProgress(a) /\ (asked \/ ~Awaited(a))
        /\ says' = [says EXCEPT ![a] = "cancelled"]
        /\ UNCHANGED rows
  /\ Goto(a, "report")
  /\ UNCHANGED <<setting, server, task, told, left>>

\* The worker drains: it cancels the activity at the await it is in, and the
\* worker reports a failure.  Inside the loop the handler stops the task and
\* records the row.  Before the loop the task runs already and nothing stops it
\* (in Model B no completer was created); after it the result is lost.
Drain(a) ==
  /\ "die" \in Troubles /\ pc[a] \in {"submit", "recording", "polling", "finishing"}
  /\ says' = [says EXCEPT ![a] = "failed"]
  /\ Goto(a, "report")
  /\ IF pc[a] = "polling"
     THEN told' = told \cup {a} /\ Record(a, "Cancelled")
     ELSE UNCHANGED <<told, rows>>
  /\ left' = IF pc[a] = "recording" THEN left \cup {a} ELSE left
  /\ UNCHANGED <<setting, server, task>>

\* The answer reaches the server, or nobody waits for it.
Report(a) ==
  /\ pc[a] = "report"
  /\ Goto(a, "ended")
  /\ IF ~Awaited(a) THEN UNCHANGED <<srv, closed, result>>
     ELSE IF says[a] = "ok" THEN Complete(a, task[a].acc)
     ELSE Close(a, says[a]) /\ UNCHANGED result
  /\ UNCHANGED <<setting, cur, asked, quiet, ckpt, says, task, told, left, rows>>

------------------------------------------------------------------------------
(* Model B: _complete_async *)

\* handle.complete is accepted only for the attempt that is waited for.  Any
\* failure, of the task or of the call, leads to handle.fail; a call may also
\* fail after the server took it.
Resolve(a) ==
  /\ pc[a] = "waiting" /\ task[a].at \in {"done", "failed"}
  /\ \/ /\ task[a].at = "done" /\ Awaited(a)
        /\ Complete(a, task[a].acc)
        /\ \/ Record(a, "Completed") /\ Goto(a, "ended")
           \/ "fail" \in Troubles /\ Goto(a, "failing") /\ UNCHANGED rows
     \/ /\ task[a].at = "failed" \/ ~Awaited(a) \/ "fail" \in Troubles
        /\ Goto(a, "failing")
        /\ UNCHANGED <<setting, srv, closed, result, rows>>
  /\ UNCHANGED <<setting, cur, asked, quiet, ckpt, says, task, told, left>>

\* handle.fail, whose own failure is logged; then the row.
Fail(a) ==
  /\ pc[a] = "failing"
  /\ \/ Awaited(a) /\ Close(a, "failed")
     \/ ("fail" \in Troubles \/ ~Awaited(a)) /\ UNCHANGED <<srv, closed>>
  /\ Goto(a, "ended")
  /\ Record(a, "Failed")
  /\ UNCHANGED <<setting, cur, asked, quiet, ckpt, result, says, task, told, left>>

\* A drained process exits.  Nothing waits for the completers: asyncio.run
\* cancels them, which their handlers do not catch.  The pool is shut down
\* without waiting, so a running thread goes on, watched by nobody.
Exit(a) ==
  /\ "die" \in Troubles /\ pc[a] \in {"waiting", "failing"}
  /\ Goto(a, "dead")
  /\ left' = left \cup {a}
  /\ UNCHANGED <<setting, server, says, task, told, rows>>

\* The process is killed: with it the driver or the completer, and the threads of
\* a local backend, those that outlived their driver too.
Die(a) ==
  /\ "die" \in Troubles
  /\ Driven(a) \/ (Backend = "local" /\ task[a].at = "running")
  /\ pc' = [pc EXCEPT ![a] = IF Driven(a) THEN "dead" ELSE @]
  /\ task' = [task EXCEPT ![a].at = IF Backend = "local" THEN "lost" ELSE @]
  /\ UNCHANGED <<setting, server, says, told, left, rows>>

Next ==
  \/ Dispatch \/ Timeout \/ RequestCancel
  \/ \E a \in Attempts :
       \/ Submit(a) \/ Recorded(a) \/ Batch(a) \/ TaskFails(a)
       \/ Poll(a) \/ Collect(a) \/ Finish(a) \/ Report(a)
       \/ Resolve(a) \/ Fail(a) \/ Drain(a) \/ Exit(a) \/ Die(a)

Spec == Init /\ [][Next]_vars

------------------------------------------------------------------------------
(* Properties *)

\* However often it was resumed, a completed compute has summed every batch
\* once (test_inline_checkpoint.py), and so has every checkpoint; and the detached
\* completer books as completed only what Temporal took as the attempt's result.
ChecksumIsRight ==
  /\ srv = "completed" => result = Total(Batches)
  /\ ckpt.acc = Total(ckpt.batch)
  /\ \A a \in Attempts :
       Model = "async" /\ <<a, "Completed">> \in rows => closed[a] = "ok"

\* What an attempt checkpointed is not lost to a later one, and an attempt that
\* is late does not overwrite the checkpoint of its successor.
CheckpointAdvances == [][ckpt'.batch >= ckpt.batch]_vars

\* activities.py: "so no compute is orphaned".  A local task runs only while
\* its driver or completer watches it, or after it was asked to stop, whoever
\* gave the attempt up and at whatever moment a process died.  A drain is the
\* exception, in two places the handler does not cover: while the start is being
\* recorded, and when the process of a detached completer exits.  A Ray task
\* outlives a dead driver.
NoOrphan ==
  \A a \in Attempts :
    task[a].at = "running" /\ Backend = "local" => Driven(a) \/ a \in told \/ a \in left

\* A long compute on a healthy worker does not fail: heartbeats keep it alive
\* (activities.py: "poll the backend while emitting Temporal heartbeats"), and
\* an injected crash costs one attempt.  Two settings are excepted, where the
\* code does otherwise: an inline driver has no checkpoint of a Ray task to
\* heartbeat, and the async model arms the injected crash on every attempt.
HealthyCompletes ==
  /\ srv = "failed" /\ Troubles = {}
  /\ IF Model = "inline" THEN Backend = "local" ELSE FailAt = 0
  => asked
=============================================================================
