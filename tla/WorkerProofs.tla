---------------------------- MODULE WorkerProofs ----------------------------
(***************************************************************************)
(* Proofs about the compute activities (ComputeDispatch) and the registry  *)
(* of the workers that run them (WorkerRegistry).                          *)
(*                                                                         *)
(* A compute activity's checksum is right because every accumulator there  *)
(* is, the checkpoint's and every attempt's, is the sum of the batches it  *)
(* stands for (Sums), and because an attempt reports success only of a     *)
(* done task (Stages).  No task is orphaned and the checkpoint never goes  *)
(* back by what the stages of a driver say of its task.  That a healthy    *)
(* activity completes needs more: that its driver beats between any two    *)
(* batches, and that the only failing attempt is the first.                *)
(*                                                                         *)
(* The reaper spares a healthy worker because the registry's row is never  *)
(* older than the commit before its writer's last one.                     *)
(***************************************************************************)
EXTENDS ComputeDispatch, WorkerRegistry, TLAPS

\* Where an attempt's driver may be.
Stations == {"idle", "submit", "recording", "polling", "finishing", "waiting", "failing",
             "report", "ended", "dead"}

\* What is known of an attempt's task on the backend.
Tasks == [at : {"none", "running", "done", "failed", "lost"}, from : 0 .. Batches,
          batch : 0 .. Batches, acc : 0 .. Total(Batches)]

(* The inductive invariant *)

\* Every accumulator, the checkpoint's too, is the sum of the batches it stands
\* for, and a task runs until its last batch and not beyond it.
Sums ==
  /\ ckpt.acc = Total(ckpt.batch)
  /\ \A a \in Attempts :
       /\ task[a].acc = Total(task[a].batch) /\ task[a].from <= task[a].batch
       /\ task[a].at = "running" => task[a].batch < Batches
       /\ task[a].at = "done" => task[a].batch = Batches

\* Attempts are taken in turn: a queued activity has one left, the attempt the
\* server waits for is open, and those after it have not begun.
InTurn ==
  /\ srv = "queued" => cur < MaxAttempts
  /\ srv = "running" => cur \in Attempts /\ closed[cur] = "none"
  /\ \A a \in Attempts : a > cur => pc[a] = "idle" /\ closed[a] = "none"

\* What the stage of an attempt's driver says: no task before the submission,
\* the inline driver polls, the callback waits, and a driver that reports has a
\* task that ended, was told to end or was left by a drain, a done one if it
\* reports success.
Stages ==
  \A a \in Attempts :
    /\ pc[a] \in {"idle", "submit"} => task[a].at = "none"
    /\ pc[a] \in {"polling", "finishing"} => Model = "inline"
    /\ pc[a] \in {"waiting", "failing"} => Model = "async"
    /\ pc[a] = "report" => /\ task[a].at # "running" \/ a \in told \/ a \in left
                           /\ says[a] = "ok" => task[a].at = "done"
    /\ pc[a] = "finishing" => task[a].at = "done"
    /\ pc[a] = "failing" => task[a].at # "running"

\* The server's checkpoint is never ahead of the task an awaited driver polls.
Behind ==
  \A a \in Attempts :
    Awaited(a) /\ Model = "inline" /\ pc[a] \in {"recording", "polling"}
      => ckpt.batch <= task[a].batch

\* The inductive invariant.
IInv == TypeOK /\ Sums /\ InTurn /\ Stages /\ Behind /\ NoOrphan /\ ChecksumIsRight

USE ComputeAssumption

\* The sum of one batch more.
LEMMA TotalStep ==
  ASSUME NEW n \in Nat
  PROVE  Total(n) \in Nat /\ Total(n + 1) = Total(n) + (n + 1)
<1>1. PICK p \in Nat : p = n * (n + 1)
  OBVIOUS
<1>2. (n + 1) * (n + 1 + 1) = p + 2 * (n + 1)
  BY <1>1
<1>3. (p + 2 * (n + 1)) \div 2 = p \div 2 + (n + 1) /\ p \div 2 \in Nat
  OBVIOUS
<1> QED
  BY <1>1, <1>2, <1>3 DEF Total

\* Fewer batches have a smaller sum.
LEMMA TotalMonotone ==
  ASSUME NEW n \in Nat, NEW m \in 0 .. n
  PROVE  Total(m) \in 0 .. Total(n)
<1>1. PICK p \in Nat : p = m * (m + 1)
  OBVIOUS
<1>2. PICK q \in Nat : q = n * (n + 1)
  OBVIOUS
<1>3. p <= q
  BY <1>1, <1>2
<1>4. p \div 2 \in Nat /\ q \div 2 \in Nat /\ p \div 2 <= q \div 2
  BY <1>3
<1> QED
  BY <1>1, <1>2, <1>4 DEF Total

\* What a setting of Settings says.
LEMMA SettingType ==
  ASSUME setting \in Settings
  PROVE  /\ Model \in {"inline", "async"} /\ Backend \in {"local", "ray"}
         /\ FailAt \in 0 .. Batches
  BY DEF Model, Backend, FailAt

\* The invariant holds at first.
LEMMA InitIInv == Init => IInv
<1> SUFFICES ASSUME Init PROVE IInv
  OBVIOUS
<1> USE DEF Init, Attempts
<1>1. Total(0) = 0 /\ Total(Batches) \in Nat
  BY TotalStep DEF Total
<1>2. TypeOK
  <2>1. ckpt \in Checkpoints /\ result \in 0 .. Total(Batches)
    BY <1>1 DEF Checkpoints
  <2>2. quiet \in 0 .. Batches /\ cur \in 0 .. MaxAttempts
    OBVIOUS
  <2> QED
    BY <2>1, <2>2 DEF TypeOK
<1>3. Sums
  BY <1>1 DEF Sums
<1>4. InTurn /\ Stages /\ Behind
  BY DEF InTurn, Stages, Behind, Model, Awaited
<1>5. NoOrphan /\ ChecksumIsRight
  BY <1>1 DEF NoOrphan, ChecksumIsRight
<1> QED
  BY <1>2, <1>3, <1>4, <1>5 DEF IInv

\* The server hands the next attempt to a worker.
LEMMA DispatchStep == ASSUME IInv, Dispatch PROVE IInv'
<1> USE DEF IInv, Attempts
<1>1. TypeOK'
  <2>1. cur + 1 \in Attempts
    BY DEF TypeOK, InTurn, Dispatch, Goto
  <2>2. cur' \in 0 .. MaxAttempts /\ quiet' \in 0 .. Batches
    BY <2>1 DEF Dispatch
  <2> QED
    BY <2>2 DEF TypeOK, Dispatch, Goto
<1>2. Sums'
  BY DEF Sums, Dispatch
<1>3. InTurn'
  BY DEF TypeOK, InTurn, Dispatch, Goto
<1>4. Stages'
  BY DEF TypeOK, Stages, InTurn, Model, Dispatch, Goto
<1>5. Behind'
  BY DEF TypeOK, Behind, Model, Awaited, Dispatch, Goto
<1>6. NoOrphan'
  BY DEF NoOrphan, Driven, Backend, Dispatch, Goto
<1>7. ChecksumIsRight'
  BY DEF ChecksumIsRight, Model, Dispatch
<1> QED
  BY <1>1, <1>2, <1>3, <1>4, <1>5, <1>6, <1>7

\* The heartbeat timer of the awaited attempt fires.
LEMMA TimeoutStep == ASSUME IInv, Timeout PROVE IInv'
<1> USE DEF IInv, Attempts
<1>1. TypeOK'
  BY DEF TypeOK, Timeout, Close
<1>2. Sums'
  BY DEF Sums, Timeout
<1>3. InTurn'
  BY DEF InTurn, Timeout, Close
<1>4. Stages'
  BY DEF Stages, Model, Timeout
<1>5. Behind'
  BY DEF Behind, Model, Awaited, Timeout
<1>6. NoOrphan'
  BY DEF NoOrphan, Driven, Backend, Timeout
<1>7. ChecksumIsRight'
  BY DEF InTurn, ChecksumIsRight, Model, Timeout, Close
<1> QED
  BY <1>1, <1>2, <1>3, <1>4, <1>5, <1>6, <1>7

\* Somebody asks for the activity to be cancelled.
LEMMA RequestCancelStep == ASSUME IInv, RequestCancel PROVE IInv'
<1> USE DEF IInv, Attempts
<1>1. TypeOK'
  BY DEF TypeOK, RequestCancel
<1>2. Sums'
  BY DEF Sums, RequestCancel
<1>3. InTurn'
  BY DEF InTurn, RequestCancel
<1>4. Stages'
  BY DEF Stages, Model, RequestCancel
<1>5. Behind'
  BY DEF Behind, Model, Awaited, RequestCancel
<1>6. NoOrphan'
  BY DEF NoOrphan, Driven, Backend, RequestCancel
<1>7. ChecksumIsRight'
  BY DEF ChecksumIsRight, Model, RequestCancel
<1> QED
  BY <1>1, <1>2, <1>3, <1>4, <1>5, <1>6, <1>7

\* A driver submits its task, from the checkpoint or from nothing.
LEMMA SubmitStep == ASSUME IInv, NEW a \in Attempts, Submit(a) PROVE IInv'
<1> USE DEF IInv, Attempts
<1>1. Total(0) = 0 /\ Total(Batches) \in Nat
  BY TotalStep DEF Total, Submit, Goto, server
<1>2. TypeOK'
  <2>1. Resume \in Checkpoints
    BY <1>1 DEF TypeOK, Resume, Checkpoints
  <2>2. task' \in [Attempts -> Tasks]
    BY <2>1 DEF TypeOK, Tasks, Submit, Checkpoints
  <2> QED
    BY <2>2 DEF TypeOK, Tasks, Submit, Goto, server
<1>3. Sums'
  <2>1. Resume \in Checkpoints /\ Resume.acc = Total(Resume.batch)
    BY <1>1 DEF TypeOK, Sums, Resume, Checkpoints
  <2>2. /\ task'[a].acc = Total(task'[a].batch) /\ task'[a].from <= task'[a].batch
        /\ task'[a].at \in {"running", "done"}
        /\ task'[a].at = "running" => task'[a].batch < Batches
        /\ task'[a].at = "done" => task'[a].batch = Batches
    BY <2>1 DEF TypeOK, Submit, Checkpoints
  <2> QED
    BY <2>2 DEF Sums, Submit, server
<1>4. InTurn'
  BY DEF InTurn, Submit, Goto, server
<1>5. Stages'
  BY DEF TypeOK, Stages, Model, Submit, Goto
<1>6. Behind'
  <2>1. ckpt \in Checkpoints /\ task[a] \in Tasks /\ ckpt.batch \in 0 .. Batches
    BY DEF TypeOK, Checkpoints, Tasks
  <2> QED
    BY <2>1 DEF TypeOK, Behind, Model, Awaited, Resume, Submit, Goto, server
<1>7. NoOrphan'
  BY DEF NoOrphan, Driven, Backend, Submit, Goto
<1>8. ChecksumIsRight'
  BY DEF ChecksumIsRight, Model, Submit, server
<1> QED
  BY <1>2, <1>3, <1>4, <1>5, <1>6, <1>7, <1>8

\* The start is recorded: the driver enters its loop, or the completer waits.
LEMMA RecordedStep == ASSUME IInv, NEW a \in Attempts, Recorded(a) PROVE IInv'
<1> USE DEF IInv, Attempts
<1>1. TypeOK'
  BY DEF TypeOK, Recorded, Goto, server
<1>2. Sums'
  BY DEF Sums, Recorded, server
<1>3. InTurn'
  BY DEF InTurn, Recorded, Goto, server
<1>4. Stages'
  BY SettingType DEF TypeOK, Stages, Model, Recorded, Goto
<1>5. Behind'
  BY DEF TypeOK, Behind, Model, Awaited, Recorded, Goto, server
<1>6. NoOrphan'
  BY DEF TypeOK, NoOrphan, Driven, Backend, Recorded, Goto
<1>7. ChecksumIsRight'
  BY DEF ChecksumIsRight, Model, Recorded, server
<1> QED
  BY <1>1, <1>2, <1>3, <1>4, <1>5, <1>6, <1>7

\* A task does one batch.
LEMMA BatchStep == ASSUME IInv, NEW a \in Attempts, Batch(a) PROVE IInv'
<1> USE DEF IInv, Attempts
<1>1. task[a] \in Tasks /\ task[a].batch < Batches /\ task[a].acc = Total(task[a].batch)
      /\ task[a].from <= task[a].batch
  BY DEF TypeOK, Tasks, Sums, Batch, Checkpoints
<1>2. /\ task[a].batch \in 0 .. Batches - 1 /\ task[a].batch + 1 \in 0 .. Batches
      /\ task[a].acc + (task[a].batch + 1) = Total(task[a].batch + 1)
  BY <1>1, TotalStep DEF Tasks, Batch
<1>3. TypeOK'
  <2>1. Total(task[a].batch + 1) \in 0 .. Total(Batches)
    BY <1>2, TotalMonotone
  <2>2. task' \in [Attempts -> Tasks]
    <3>1. task'[a] \in Tasks
      <4>1. /\ task[a].batch + 1 \in 0 .. Batches
            /\ task[a].acc + (task[a].batch + 1) \in 0 .. Total(Batches)
        BY <1>2, <2>1
      <4>2. task'[a] =
              [task[a] EXCEPT !.batch = task[a].batch + 1,
                 !.acc = task[a].acc + (task[a].batch + 1),
                 !.at = IF Injected(a, task[a].batch + 1) THEN "failed"
                        ELSE IF task[a].batch + 1 = Batches THEN "done" ELSE "running"]
        BY DEF TypeOK, Batch
      <4> QED
        BY <1>1, <4>1, <4>2 DEF Tasks
    <3>2. \A b \in Attempts : b # a => task'[b] = task[b]
      BY DEF TypeOK, Batch
    <3>3. task' = [b \in Attempts |-> task'[b]]
      BY DEF TypeOK, Batch
    <3> QED
      BY <3>1, <3>2, <3>3 DEF TypeOK, Tasks, Batch
  <2>3. quiet' \in 0 .. Batches
    BY DEF TypeOK, Batch
  <2> QED
    BY <2>2, <2>3 DEF TypeOK, Tasks, Batch
<1>4. Sums'
  <2>1. /\ task'[a].acc = Total(task'[a].batch) /\ task'[a].from <= task'[a].batch
        /\ task'[a].at = "running" => task'[a].batch < Batches
        /\ task'[a].at = "done" => task'[a].batch = Batches
    BY <1>2, <1>1, SMTT(30) DEF TypeOK, Batch, Tasks
  <2>2. \A b \in Attempts : b # a => task'[b] = task[b]
    BY DEF TypeOK, Batch
  <2> QED
    BY <2>1, <2>2 DEF Sums, Batch, Checkpoints
<1>5. InTurn'
  BY DEF InTurn, Batch
<1>6. Stages'
  BY SettingType, ZenonT(30) DEF TypeOK, Stages, InTurn, Awaited, Model, Batch
<1>7. Behind'
  <2>1. ckpt \in Checkpoints /\ task[a] \in Tasks /\ ckpt.batch \in 0 .. Batches
    BY DEF TypeOK, Checkpoints, Tasks
  <2>2. /\ task'[a].batch = task[a].batch + 1
        /\ \A b \in Attempts : b # a => task'[b] = task[b]
        /\ UNCHANGED <<setting, pc, ckpt, srv, cur>>
    BY DEF TypeOK, Batch
  <2> QED
    BY <2>1, <2>2 DEF Behind, Model, Awaited, Tasks
<1>8. NoOrphan'
  BY DEF TypeOK, NoOrphan, Driven, Backend, Batch
<1>9. ChecksumIsRight'
  BY DEF ChecksumIsRight, Model, Batch
<1> QED
  BY <1>3, <1>4, <1>5, <1>6, <1>7, <1>8, <1>9

\* A task fails.
LEMMA TaskFailsStep == ASSUME IInv, NEW a \in Attempts, TaskFails(a) PROVE IInv'
<1> USE DEF IInv, Attempts
<1>1. TypeOK'
  <2>1. task' \in [Attempts -> Tasks]
    BY ZenonT(30) DEF TypeOK, Tasks, TaskFails, server
  <2> QED
    BY <2>1 DEF TypeOK, Tasks, TaskFails, server
<1>2. Sums'
  <2>1. /\ task'[a].acc = task[a].acc /\ task'[a].batch = task[a].batch
        /\ task'[a].from = task[a].from /\ task'[a].at = "failed"
    BY DEF TypeOK, TaskFails
  <2>2. \A b \in Attempts : b # a => task'[b] = task[b]
    BY DEF TypeOK, TaskFails
  <2> QED
    BY <2>1, <2>2 DEF Sums, TaskFails, server
<1>3. InTurn'
  BY DEF InTurn, TaskFails, server
<1>4. Stages'
  BY SettingType DEF TypeOK, Stages, InTurn, Awaited, Model, TaskFails, server
<1>5. Behind'
  BY DEF Behind, Model, Awaited, TaskFails, server
<1>6. NoOrphan'
  BY DEF NoOrphan, Driven, Backend, TaskFails
<1>7. ChecksumIsRight'
  BY DEF ChecksumIsRight, Model, TaskFails, server
<1> QED
  BY <1>1, <1>2, <1>3, <1>4, <1>5, <1>6, <1>7

\* The inline driver polls its task: heartbeat, or cancellation.
LEMMA PollStep == ASSUME IInv, NEW a \in Attempts, Poll(a) PROVE IInv'
<1> USE DEF IInv, Attempts
<1>1. /\ task[a] \in Tasks /\ task[a].acc = Total(task[a].batch)
      /\ ckpt \in Checkpoints /\ ckpt.acc = Total(ckpt.batch)
      /\ told \subseteq Attempts
      /\ pc \in [Attempts -> Stations]
      /\ says \in [Attempts -> {"none", "ok", "failed", "cancelled"}]
  BY DEF TypeOK, Tasks, Stations, Sums
<1>2. /\ ckpt' \in {ckpt, Latest(a)}
      /\ Latest(a) \in Checkpoints /\ Latest(a).acc = Total(Latest(a).batch)
  BY <1>1 DEF Latest, Tasks, Poll, Checkpoints
<1>3. TypeOK'
  <2>1. ckpt' \in Checkpoints /\ quiet' \in 0 .. Batches
    BY <1>2 DEF TypeOK, Poll
  <2>2. says' \in [Attempts -> {"none", "ok", "failed", "cancelled"}]
    BY DEF TypeOK, Poll, Goto, Record
  <2>3. rows' \subseteq Attempts \X {"Completed", "Failed", "Cancelled"}
    BY DEF TypeOK, Poll, Goto, Record
  <2>4. told' \subseteq Attempts
    <3>1. told' = told \/ told' = told \cup {a}
      BY Zenon DEF Poll, Goto, Record
    <3> QED
      BY <1>1, <3>1
  <2> QED
    BY <2>1, <2>2, <2>3, <2>4 DEF TypeOK, Poll, Goto
<1>4. Sums'
  BY <1>2 DEF Sums, Poll
<1>5. InTurn'
  <2>1. UNCHANGED <<srv, cur, closed>> /\ pc[a] = "polling"
    BY DEF Poll
  <2>2. \A b \in Attempts : b # a => pc'[b] = pc[b]
    BY DEF TypeOK, Poll, Goto
  <2> QED
    BY <2>1, <2>2 DEF TypeOK, InTurn
<1>6. Stages'
  <2>1. \/ UNCHANGED <<pc, says, told>>
        \/ /\ a \in told'
           /\ says' = [says EXCEPT ![a] = "cancelled"]
           /\ pc' = [pc EXCEPT ![a] = "report"]
    BY DEF Poll, Goto
  <2>2. told \subseteq told'
    BY DEF Poll, Goto, Record
  <2>3. UNCHANGED <<setting, task, left>>
    BY DEF Poll
  <2>4. CASE UNCHANGED <<pc, says, told>>
    BY <2>3, <2>4 DEF Stages, Model
  <2>5. CASE /\ a \in told'
             /\ says' = [says EXCEPT ![a] = "cancelled"]
             /\ pc' = [pc EXCEPT ![a] = "report"]
    <3>1. pc'[a] = "report" /\ says'[a] = "cancelled" /\ pc[a] = "polling"
      BY <1>1, <2>5 DEF Poll
    <3> QED
      BY <2>2, <2>3, <2>5, <3>1 DEF Stages, Model
  <2> QED
    BY <2>1, <2>4, <2>5
<1>7. Behind'
  <2>1. ckpt \in Checkpoints /\ task[a] \in Tasks /\ ckpt.batch \in 0 .. Batches
    BY DEF TypeOK, Checkpoints, Tasks
  <2>2. /\ UNCHANGED <<setting, task, srv, cur>>
        /\ \A b \in Attempts : pc'[b] \in {"recording", "polling"} => pc'[b] = pc[b]
    BY DEF TypeOK, Poll, Goto
  <2>3. ckpt' = ckpt \/ (Awaited(a) /\ ckpt'.batch = task[a].batch)
    BY DEF Poll, Latest
  <2> QED
    BY <2>1, <2>2, <2>3 DEF Behind, Model, Awaited, Tasks
<1>8. NoOrphan'
  BY DEF TypeOK, NoOrphan, Driven, Backend, Poll, Goto
<1>9. ChecksumIsRight'
  BY <1>4 DEF Sums, ChecksumIsRight, Model, Poll, Record
<1> QED
  BY <1>3, <1>4, <1>5, <1>6, <1>7, <1>8, <1>9

\* The inline driver takes what its task ended with.
LEMMA CollectStep == ASSUME IInv, NEW a \in Attempts, Collect(a) PROVE IInv'
<1> USE DEF IInv, Attempts
<1>1. TypeOK'
  <2>1. ckpt' \in Checkpoints
    BY DEF TypeOK, Latest, Collect, Goto, Checkpoints
  <2>2. pc' = [pc EXCEPT ![a] = IF task[a].at = "done" THEN "finishing" ELSE "report"]
    BY DEF Collect, Goto
  <2>3. says' = [says EXCEPT ![a] = IF task[a].at = "done" THEN "ok" ELSE "failed"]
        /\ UNCHANGED <<setting, srv, cur, closed, asked, quiet, result, task, told, left, rows>>
    BY DEF Collect
  <2> QED
    BY <2>1, <2>2, <2>3 DEF TypeOK
<1>2. Sums'
  BY DEF Sums, Latest, Collect
<1>3. InTurn'
  BY DEF InTurn, Collect, Goto
<1>4. Stages'
  BY DEF TypeOK, Stages, Model, Collect, Goto
<1>5. Behind'
  BY DEF TypeOK, Behind, Model, Awaited, Collect, Goto
<1>6. NoOrphan'
  BY DEF NoOrphan, Driven, Backend, Collect, Goto
<1>7. ChecksumIsRight'
  BY <1>2 DEF Sums, Stages, ChecksumIsRight, Model, Collect
<1> QED
  BY <1>1, <1>2, <1>3, <1>4, <1>5, <1>6, <1>7

\* The row of a computed result is recorded, or a late cancellation lands there.
LEMMA FinishStep == ASSUME IInv, NEW a \in Attempts, Finish(a) PROVE IInv'
<1> USE DEF IInv, Attempts
<1>1. TypeOK'
  <2>1. rows' \subseteq Attempts \X {"Completed", "Failed", "Cancelled"}
    BY DEF TypeOK, Finish, Record
  <2>2. says' \in [Attempts -> {"none", "ok", "failed", "cancelled"}]
    BY DEF TypeOK, Finish
  <2> QED
    BY <2>1, <2>2 DEF TypeOK, Finish, Goto, server
<1>2. Sums'
  BY DEF Sums, Finish, server
<1>3. InTurn'
  BY DEF InTurn, Finish, Goto, server
<1>4. Stages'
  BY DEF TypeOK, Stages, Model, Finish, Goto
<1>5. Behind'
  BY DEF TypeOK, Behind, Model, Awaited, Finish, Goto, server
<1>6. NoOrphan'
  BY DEF TypeOK, NoOrphan, Driven, Backend, Finish, Goto
<1>7. ChecksumIsRight'
  <2>1. Model = "inline"
    BY DEF Stages, Finish
  <2>2. UNCHANGED <<setting, srv, result, ckpt>>
    BY DEF Finish, server
  <2> QED
    BY <2>1, <2>2 DEF ChecksumIsRight, Model
<1> QED
  BY <1>1, <1>2, <1>3, <1>4, <1>5, <1>6, <1>7

\* The worker drains and the driver gives up its attempt.
LEMMA DrainStep == ASSUME IInv, NEW a \in Attempts, Drain(a) PROVE IInv'
<1> USE DEF IInv, Attempts
<1>1. TypeOK'
  <2>1. rows' \subseteq Attempts \X {"Completed", "Failed", "Cancelled"}
    BY DEF TypeOK, Drain, Goto, Record, server
  <2> QED
    BY <2>1 DEF TypeOK, Drain, Goto, server
<1>2. Sums'
  BY DEF Sums, Drain, server
<1>3. InTurn'
  BY DEF InTurn, Drain, Goto, server
<1>4. Stages'
  <2>1. /\ pc'[a] = "report" /\ says'[a] = "failed"
        /\ told \subseteq told' /\ left \subseteq left' /\ UNCHANGED <<setting, task>>
        /\ \A b \in Attempts : b # a => pc'[b] = pc[b] /\ says'[b] = says[b]
    BY DEF TypeOK, Drain, Goto
  <2>2. task[a].at # "running" \/ a \in told' \/ a \in left'
    BY DEF Stages, Drain
  <2> QED
    BY <2>1, <2>2 DEF Stages, Model
<1>5. Behind'
  BY DEF Behind, Model, Awaited, Drain, Goto, server
<1>6. NoOrphan'
  BY DEF NoOrphan, Driven, Backend, Drain, Goto
<1>7. ChecksumIsRight'
  BY DEF ChecksumIsRight, Model, Drain, Record, server
<1> QED
  BY <1>1, <1>2, <1>3, <1>4, <1>5, <1>6, <1>7

\* The inline driver answers the server.
LEMMA ReportStep == ASSUME IInv, NEW a \in Attempts, Report(a) PROVE IInv'
<1> USE DEF IInv, Attempts
<1>1. TypeOK'
  <2>1. closed' \in [Attempts -> {"none", "ok", "failed", "cancelled", "timedout"}]
    BY DEF TypeOK, Report, Goto, Close, Complete
  <2>2. srv' \in {"queued", "running", "completed", "failed", "cancelled"}
    BY DEF TypeOK, Report, Goto, Close, Complete
  <2>3. result' \in 0 .. Total(Batches)
    <3>1. result \in 0 .. Total(Batches) /\ task[a].acc \in 0 .. Total(Batches)
      BY DEF TypeOK
    <3>2. result' = result \/ result' = task[a].acc
      BY DEF Report, Close, Complete
    <3> QED
      BY <3>1, <3>2
  <2> QED
    BY <2>1, <2>2, <2>3 DEF TypeOK, Report, Goto
<1>2. Sums'
  BY DEF Sums, Report
<1>3. InTurn'
  BY DEF TypeOK, InTurn, Report, Goto, Close, Complete
<1>4. Stages'
  BY DEF Stages, Model, Report, Goto
<1>5. Behind'
  BY DEF Behind, Model, Awaited, Report, Goto
<1>6. NoOrphan'
  BY DEF Stages, NoOrphan, Driven, Backend, Report, Goto
<1>7. ChecksumIsRight'
  <2>1. task[a].at = "done" => task[a].acc = Total(Batches)
    BY DEF Sums
  <2>2. srv' = "completed" => result' = Total(Batches)
    BY <2>1 DEF Stages, ChecksumIsRight, Report, Close, Complete
  <2>3. \A b \in Attempts : closed[b] = "ok" => closed'[b] = "ok"
    BY DEF TypeOK, InTurn, Awaited, Report, Close, Complete
  <2> QED
    BY <2>2, <2>3 DEF ChecksumIsRight, Model, Report
<1> QED
  BY <1>1, <1>2, <1>3, <1>4, <1>5, <1>6, <1>7

\* The callback of an async attempt completes it, or is about to fail it.
LEMMA ResolveStep == ASSUME IInv, NEW a \in Attempts, Resolve(a) PROVE IInv'
<1> USE DEF IInv, Attempts
<1>1. TypeOK'
  <2>1. closed' \in [Attempts -> {"none", "ok", "failed", "cancelled", "timedout"}]
    BY DEF TypeOK, Resolve, Goto, Record, Complete
  <2>2. pc' \in [Attempts -> Stations]
    <3>1. pc' = [pc EXCEPT ![a] = "ended"] \/ pc' = [pc EXCEPT ![a] = "failing"]
      BY DEF Resolve, Goto, Record, Complete
    <3> QED
      BY <3>1 DEF TypeOK, Stations
  <2>3. srv' \in {"queued", "running", "completed", "failed", "cancelled"}
    BY DEF TypeOK, Resolve, Goto, Record, Complete
  <2>4. result' \in 0 .. Total(Batches)
    <3>1. result \in 0 .. Total(Batches) /\ task[a].acc \in 0 .. Total(Batches)
      BY DEF TypeOK
    <3>2. result' = result \/ result' = task[a].acc
      BY DEF Resolve, Complete
    <3> QED
      BY <3>1, <3>2
  <2>5. rows' \subseteq Attempts \X {"Completed", "Failed", "Cancelled"}
    BY DEF TypeOK, Resolve, Goto, Record, Complete
  <2> QED
    BY <2>1, <2>2, <2>3, <2>4, <2>5 DEF TypeOK, Stations, Resolve
<1>2. Sums'
  BY DEF Sums, Resolve
<1>3. InTurn'
  BY DEF TypeOK, InTurn, Resolve, Goto, Complete
<1>4. Stages'
  BY DEF TypeOK, Stages, Model, Resolve, Goto
<1>5. Behind'
  BY DEF TypeOK, Behind, Model, Awaited, Resolve, Goto
<1>6. NoOrphan'
  BY DEF TypeOK, NoOrphan, Driven, Backend, Resolve, Goto
<1>7. ChecksumIsRight'
  <2>1. task[a].at = "done" => task[a].acc = Total(Batches)
    BY DEF Sums
  <2>2. srv' = "completed" => result' = Total(Batches)
    BY <2>1 DEF ChecksumIsRight, Resolve, Complete
  <2>3. \A b \in Attempts : closed[b] = "ok" => closed'[b] = "ok"
    BY DEF TypeOK, Resolve, Complete
  <2>4. rows' = rows \/ (rows' = rows \cup {<<a, "Completed">>} /\ closed'[a] = "ok")
    <3>1. CASE Complete(a, task[a].acc) /\ Record(a, "Completed")
      BY <3>1 DEF Complete, Record, TypeOK
    <3>2. CASE UNCHANGED rows
      BY <3>2
    <3> QED
      BY <3>1, <3>2 DEF Resolve
  <2> QED
    BY <2>2, <2>3, <2>4 DEF ChecksumIsRight, Model, Resolve
<1> QED
  BY <1>1, <1>2, <1>3, <1>4, <1>5, <1>6, <1>7

\* The callback fails its attempt.
LEMMA FailStep == ASSUME IInv, NEW a \in Attempts, Fail(a) PROVE IInv'
<1> USE DEF IInv, Attempts
<1>1. TypeOK'
  <2>1. closed' \in [Attempts -> {"none", "ok", "failed", "cancelled", "timedout"}]
    BY DEF TypeOK, Fail, Goto, Record, Close
  <2>2. srv' \in {"queued", "running", "completed", "failed", "cancelled"}
    BY DEF TypeOK, Fail, Goto, Record, Close
  <2>3. rows' \subseteq Attempts \X {"Completed", "Failed", "Cancelled"}
    BY DEF TypeOK, Fail, Goto, Record, Close
  <2> QED
    BY <2>1, <2>2, <2>3 DEF TypeOK, Fail, Goto
<1>2. Sums'
  BY DEF Sums, Fail
<1>3. InTurn'
  BY DEF TypeOK, InTurn, Fail, Goto, Close
<1>4. Stages'
  BY DEF Stages, Model, Fail, Goto
<1>5. Behind'
  BY DEF Behind, Model, Awaited, Fail, Goto
<1>6. NoOrphan'
  BY DEF Stages, NoOrphan, Driven, Backend, Fail, Goto
<1>7. ChecksumIsRight'
  <2>1. \A b \in Attempts : closed[b] = "ok" => closed'[b] = "ok"
    BY DEF TypeOK, InTurn, Awaited, Fail, Close
  <2>2. srv' = "completed" => srv = "completed"
    BY DEF Fail, Close
  <2>3. rows' = rows \cup {<<a, "Failed">>}
    BY DEF Fail, Record
  <2>4. UNCHANGED <<setting, ckpt, result>>
    BY DEF Fail
  <2> QED
    BY <2>1, <2>2, <2>3, <2>4 DEF ChecksumIsRight, Model
<1> QED
  BY <1>1, <1>2, <1>3, <1>4, <1>5, <1>6, <1>7

\* A drained process exits with its completers.
LEMMA ExitStep == ASSUME IInv, NEW a \in Attempts, Exit(a) PROVE IInv'
<1> USE DEF IInv, Attempts
<1>1. TypeOK'
  BY DEF TypeOK, Exit, Goto, server
<1>2. Sums'
  BY DEF Sums, Exit, server
<1>3. InTurn'
  BY DEF InTurn, Exit, Goto, server
<1>4. Stages'
  BY DEF TypeOK, Stages, Model, Exit, Goto
<1>5. Behind'
  BY DEF TypeOK, Behind, Model, Awaited, Exit, Goto, server
<1>6. NoOrphan'
  BY DEF TypeOK, NoOrphan, Driven, Backend, Exit, Goto
<1>7. ChecksumIsRight'
  BY DEF ChecksumIsRight, Model, Exit, server
<1> QED
  BY <1>1, <1>2, <1>3, <1>4, <1>5, <1>6, <1>7

\* A worker dies with what it drives.
LEMMA DieStep == ASSUME IInv, NEW a \in Attempts, Die(a) PROVE IInv'
<1> USE DEF IInv, Attempts
<1>1. TypeOK'
  <2>1. task' \in [Attempts -> Tasks]
    <3>1. task'[a] \in Tasks
      <4>1. task'[a] = [task[a] EXCEPT !.at = IF Backend = "local" THEN "lost" ELSE @]
        BY DEF TypeOK, Die
      <4>2. task[a] \in Tasks
        BY DEF TypeOK, Tasks
      <4> QED
        BY <4>1, <4>2 DEF Tasks
    <3>2. \A b \in Attempts : b # a => task'[b] = task[b]
      BY DEF TypeOK, Die, Goto, server
    <3>3. task' = [b \in Attempts |-> task'[b]]
      BY DEF TypeOK, Die, Goto, server
    <3> QED
      BY <3>1, <3>2, <3>3 DEF TypeOK, Tasks
  <2> QED
    BY <2>1 DEF TypeOK, Tasks, Die, Goto, server
<1>2. Sums'
  <2> QED
    BY DEF Sums, Die, server
<1>3. InTurn'
  <2>1. pc[a] # "idle"
    BY DEF Stages, Driven, Die
  <2>2. UNCHANGED <<srv, cur, closed>> /\ \A b \in Attempts : b # a => pc'[b] = pc[b]
    BY DEF TypeOK, Die, server
  <2> QED
    BY <2>1, <2>2 DEF InTurn
<1>4. Stages'
  <2>1. /\ UNCHANGED <<setting, says, told, left>>
        /\ \A b \in Attempts : b # a => pc'[b] = pc[b] /\ task'[b] = task[b]
    BY DEF TypeOK, Die
  <2>2. \/ pc'[a] = "dead"
        \/ /\ task[a].at = "running" /\ task'[a].at = "lost"
           /\ pc'[a] = pc[a] /\ pc[a] \in {"idle", "ended", "dead"}
    BY DEF TypeOK, Die, Driven
  <2>3. pc[a] = "idle" => task[a].at = "none"
    BY DEF Stages
  <2> QED
    BY <2>1, <2>2, <2>3 DEF Stages, Model
<1>5. Behind'
  BY DEF Behind, Model, Awaited, Die, Goto, server
<1>6. NoOrphan'
  BY DEF TypeOK, NoOrphan, Driven, Backend, Die, Goto
<1>7. ChecksumIsRight'
  BY DEF ChecksumIsRight, Model, Die, server
<1> QED
  BY <1>1, <1>2, <1>3, <1>4, <1>5, <1>6, <1>7

\* Every step keeps the invariant.
LEMMA IInvStep == IInv /\ [Next]_vars => IInv'
<1> SUFFICES ASSUME IInv, [Next]_vars PROVE IInv'
  OBVIOUS
<1>1. CASE UNCHANGED vars
  <2>1. UNCHANGED <<setting, srv, cur, closed, asked, quiet, ckpt, result>>
    BY <1>1 DEF vars, server
  <2>2. UNCHANGED <<pc, says, task, told, left, rows>>
    BY <1>1 DEF vars
  <2>3. TypeOK' /\ Sums' /\ InTurn' /\ Stages'
    BY <2>1, <2>2 DEF IInv, TypeOK, Sums, InTurn, Stages, Model
  <2>4. Behind' /\ NoOrphan' /\ ChecksumIsRight'
    BY <2>1, <2>2 DEF IInv, Behind, Awaited, NoOrphan, Driven, ChecksumIsRight, Model, Backend
  <2> QED
    BY <2>3, <2>4 DEF IInv
<1> QED
  BY <1>1, DispatchStep, TimeoutStep, RequestCancelStep, SubmitStep, BatchStep, TaskFailsStep,
     PollStep, CollectStep, DrainStep, ReportStep, ResolveStep, FailStep, DieStep,
     RecordedStep, FinishStep, ExitStep
  DEF Next

\* So it always holds.
LEMMA Inductive == Spec => []IInv
  BY InitIInv, IInvStep, PTL DEF Spec

\* Every variable of a compute activity, its driver and its task keeps its
\* type.
THEOREM TypeCorrect == Spec => []TypeOK
<1>1. IInv => TypeOK
  BY DEF IInv
<1> QED
  BY <1>1, Inductive, PTL

\* A compute activity that completes returns the sum of all its batches,
\* whichever attempts did them, crashed, resumed from a checkpoint or overtook
\* each other, and a Completed row of the async path is of an attempt Temporal
\* took (activities.py, async_completion.py).
THEOREM ChecksumIsRightAlways == Spec => []ChecksumIsRight
<1>1. IInv => ChecksumIsRight
  BY DEF IInv
<1> QED
  BY <1>1, Inductive, PTL

\* A task on the local backend runs only while its driver or its completer
\* watches it, or after it was asked to stop: no timeout, cancellation or killed
\* process leaves one running for nobody (activities.py).  A drain may, in the
\* places NoOrphan names (left).
THEOREM NoOrphanAlways == Spec => []NoOrphan
<1>1. IInv => NoOrphan
  BY DEF IInv
<1> QED
  BY <1>1, Inductive, PTL

\* The checkpoint a next attempt resumes from never goes back (the heartbeat
\* details of the awaited attempt).
THEOREM CheckpointAdvancesAlways == Spec => CheckpointAdvances
<1>1. IInv /\ [Next]_vars => [ckpt'.batch >= ckpt.batch]_vars
  <2> SUFFICES ASSUME IInv, Next PROVE ckpt'.batch >= ckpt.batch
    OBVIOUS
  <2>1. ckpt \in Checkpoints /\ ckpt.batch \in Nat
    BY DEF IInv, TypeOK, Checkpoints
  <2>2. CASE ckpt' = ckpt
    BY <2>1, <2>2
  <2>3. ASSUME NEW a \in Attempts, Awaited(a), pc[a] = "polling", ckpt' = Latest(a)
        PROVE  ckpt'.batch >= ckpt.batch
    <3>1. task[a].batch \in Nat /\ ckpt.batch <= task[a].batch
      BY <2>3 DEF IInv, TypeOK, Stages, Behind
    <3> QED
      BY <2>1, <2>3, <3>1 DEF Latest
  <2>4. ASSUME NEW a \in Attempts, Poll(a) PROVE ckpt'.batch >= ckpt.batch
    BY <2>2, <2>3, <2>4 DEF Poll
  <2>5. ASSUME NEW a \in Attempts, Collect(a) PROVE ckpt'.batch >= ckpt.batch
    BY <2>2, <2>3, <2>5 DEF Collect
  <2>6. \/ ckpt' = ckpt
        \/ \E a \in Attempts : Poll(a) \/ Collect(a)
    BY DEF Next, Dispatch, Timeout, RequestCancel, Submit, Recorded, Batch, TaskFails, Finish, Drain,
           Exit, Report, Resolve, Fail, Die, server
  <2> QED
    BY <2>2, <2>4, <2>5, <2>6
<1> QED
  BY <1>1, Inductive, PTL DEF Spec, CheckpointAdvances

\* A setting in which nothing goes wrong but the injected crash: no trouble,
\* and a backend whose tasks the inline driver can watch, or no injected crash
\* for the callback to meet again.
Healthy ==
  Troubles = {} /\ IF Model = "inline" THEN Backend = "local" ELSE FailAt = 0

\* On a healthy worker the awaited attempt is driven, and no more than one
\* batch passes between two beats of an inline driver.
KeepsPace ==
  srv = "running" =>
    /\ Driven(cur)
    /\ Model = "inline" /\ quiet # 0 =>
         /\ quiet = 1
         /\ pc[cur] # "submit" /\ HasProgress(cur)
         /\ task[cur].at = "running" => ckpt # Latest(cur)

\* On a healthy worker only the injected crash fails a task, the first
\* attempt's.
FailsOnce ==
  \A a \in Attempts :
    /\ a \notin left
    /\ a \in told => pc[a] \in {"report", "ended"}
    /\ pc[a] = "report" => says[a] # "none"
    /\ pc[a] = "report" /\ says[a] = "failed" => a = 1
    /\ pc[a] \in {"recording", "polling"} => task[a].at # "lost"
    /\ pc[a] \in {"recording", "polling", "waiting"} /\ task[a].at = "failed"
         => Model = "inline" /\ a = 1
    /\ pc[a] = "finishing" => says[a] # "failed" /\ says[a] # "none"
    /\ pc[a] = "failing" => ~Awaited(a)

\* What a healthy setting keeps besides, inductive together with IInv.
HInv == Healthy => KeepsPace /\ FailsOnce /\ (srv = "failed" => asked)

\* A healthy setting and a dispatch.
LEMMA DispatchHealthy ==
  ASSUME MaxAttempts > 1, HeartbeatBatches > 1, IInv, HInv, Healthy, Dispatch
  PROVE  HInv'
<1> USE DEF Attempts
<1>1. KeepsPace'
  BY DEF IInv, TypeOK, InTurn, KeepsPace, Driven, Dispatch, Goto
<1>2. FailsOnce'
  <2>1. /\ cur + 1 \in Attempts /\ pc[cur + 1] = "idle" /\ cur' = cur + 1
        /\ UNCHANGED <<setting, says, task, told, left>>
        /\ pc'[cur + 1] = "submit"
        /\ \A b \in Attempts : b # cur + 1 => pc'[b] = pc[b]
    BY DEF IInv, TypeOK, InTurn, Dispatch, Goto
  <2> QED
    BY <2>1 DEF HInv, FailsOnce, Model, Awaited
<1>3. srv' = "failed" => asked'
  BY DEF Dispatch
<1> QED
  BY <1>1, <1>2, <1>3 DEF HInv

\* The timer does not fire on a healthy worker: it beats in time.
LEMMA TimeoutHealthy ==
  ASSUME MaxAttempts > 1, HeartbeatBatches > 1, IInv, HInv, Healthy, Timeout
  PROVE  HInv'
<1> USE DEF Attempts
<1>1. KeepsPace'
  BY DEF HInv, KeepsPace, Driven, HasProgress, Latest, Model, Backend, Timeout
<1>2. FailsOnce'
  BY DEF HInv, FailsOnce, Model, Awaited, Timeout
<1>3. srv' = "failed" => asked'
  BY DEF HInv, KeepsPace, Healthy, Timeout
<1> QED
  BY <1>1, <1>2, <1>3 DEF HInv

\* A healthy setting and a request to cancel.
LEMMA RequestCancelHealthy ==
  ASSUME MaxAttempts > 1, HeartbeatBatches > 1, IInv, HInv, Healthy, RequestCancel
  PROVE  HInv'
<1> USE DEF Attempts
<1>1. KeepsPace'
  BY DEF HInv, KeepsPace, Driven, HasProgress, Latest, Model, Backend, RequestCancel
<1>2. FailsOnce'
  BY DEF HInv, FailsOnce, Model, Awaited, RequestCancel
<1>3. srv' = "failed" => asked'
  BY DEF RequestCancel
<1> QED
  BY <1>1, <1>2, <1>3 DEF HInv

\* A healthy setting and a submission.
LEMMA SubmitHealthy ==
  ASSUME MaxAttempts > 1, HeartbeatBatches > 1, IInv, HInv, Healthy, NEW a \in Attempts, Submit(a)
  PROVE  HInv'
<1> USE DEF Attempts
<1>1. KeepsPace'
  <2>1. pc[a] = "submit" /\ task[a].at = "none" /\ UNCHANGED <<setting, srv, cur, quiet, ckpt>>
    BY DEF IInv, Stages, Submit, server
  <2>2. /\ pc'[a] = "recording"
        /\ \A b \in Attempts : b # a => pc'[b] = pc[b] /\ task'[b] = task[b]
    BY DEF IInv, TypeOK, Submit, Goto
  <2>3. srv = "running" => cur \in Attempts
    BY DEF IInv, InTurn
  <2>4. CASE srv = "running" /\ a = cur
    <3>1. Model = "inline" => quiet = 0
      BY <2>1, <2>4 DEF HInv, KeepsPace
    <3> QED
      BY <2>1, <2>2, <2>4, <3>1 DEF KeepsPace, Driven, Model
  <2>5. CASE srv = "running" /\ a # cur
    BY <2>1, <2>2, <2>3 DEF HInv, KeepsPace, Driven, HasProgress, Latest, Model, Backend
  <2> QED
    BY <2>1, <2>4, <2>5 DEF KeepsPace
<1>2. FailsOnce'
  BY DEF IInv, Stages, HInv, FailsOnce, Model, Awaited, Submit, Goto, server
<1>3. srv' = "failed" => asked'
  BY DEF HInv, Submit, server
<1> QED
  BY <1>1, <1>2, <1>3 DEF HInv

\* A healthy setting and a recorded start.
LEMMA RecordedHealthy ==
  ASSUME MaxAttempts > 1, HeartbeatBatches > 1, IInv, HInv, Healthy, NEW a \in Attempts,
         Recorded(a)
  PROVE  HInv'
<1> USE DEF Attempts
<1>1. /\ pc[a] = "recording" /\ UNCHANGED <<setting, srv, cur, asked, quiet, ckpt>>
      /\ UNCHANGED <<says, task, told, left>>
      /\ pc'[a] \in {"polling", "waiting"} /\ (Model # "inline" => pc'[a] = "waiting")
      /\ \A b \in Attempts : b # a => pc'[b] = pc[b]
  BY DEF IInv, TypeOK, Recorded, Goto, server
<1>2. KeepsPace'
  <2>1. srv = "running" => cur \in Attempts
    BY DEF IInv, InTurn
  <2> QED
    BY <1>1, <2>1 DEF HInv, KeepsPace, Driven, HasProgress, Latest, Model, Backend
<1>3. FailsOnce'
  BY <1>1 DEF HInv, FailsOnce, Awaited, Model
<1>4. srv' = "failed" => asked'
  BY <1>1 DEF HInv
<1> QED
  BY <1>2, <1>3, <1>4 DEF HInv

\* A healthy setting and a batch: the driver beat before it, so it is the first
\* one in silence, or the injected crash of the first attempt.
LEMMA BatchHealthy ==
  ASSUME MaxAttempts > 1, HeartbeatBatches > 1, IInv, HInv, Healthy, NEW a \in Attempts, Batch(a)
  PROVE  HInv'
<1> USE DEF Attempts
<1>1. KeepsPace'
  <2>1. /\ task[a].at = "running" /\ a \notin told
        /\ UNCHANGED <<setting, srv, cur, pc, ckpt>>
        /\ task'[a].batch = task[a].batch + 1 /\ task'[a].from = task[a].from
        /\ \A b \in Attempts : b # a => task'[b] = task[b]
    BY DEF IInv, TypeOK, Batch
  <2>2. CASE srv = "running" /\ a # cur
    <3>1. UNCHANGED quiet /\ cur \in Attempts
      BY <2>2 DEF IInv, InTurn, Batch, Awaited
    <3> QED
      BY <2>1, <2>2, <3>1 DEF HInv, KeepsPace, Driven, HasProgress, Latest, Model, Backend
  <2>3. CASE srv = "running" /\ a = cur /\ Model = "inline"
    <3>1. pc[a] \in {"recording", "polling"}
      <4>1. Driven(a) /\ pc[a] \in Stations /\ a \notin told /\ a \notin left
        BY <2>1, <2>3 DEF IInv, TypeOK, Stations, HInv, KeepsPace, FailsOnce
      <4> QED
        BY <2>1, <2>3, <4>1 DEF IInv, Stages, Stations, Driven
    <3>2. HasProgress(a) => ckpt = Latest(a)
      BY <2>3, <3>1 DEF Batch, Awaited, Healthy
    <3>3. quiet = 0 /\ quiet' = 1
      BY <2>3, <3>2 DEF HInv, KeepsPace, Batch, Awaited
    <3>4. ckpt.batch <= task[a].batch /\ ckpt.batch \in Nat /\ task[a].batch \in Nat
      BY <2>3, <3>1 DEF IInv, TypeOK, Behind, Model, Awaited, Checkpoints
    <3>5. task[a].from <= task[a].batch /\ task[a].from \in Nat
      BY DEF IInv, TypeOK, Sums
    <3>6. HasProgress(a)' /\ ckpt' # Latest(a)'
      BY <2>1, <2>3, <3>4, <3>5 DEF HasProgress, Latest, Backend, Healthy
    <3> QED
      BY <2>1, <2>3, <3>1, <3>3, <3>6 DEF KeepsPace, Driven
  <2>4. CASE srv = "running" /\ a = cur /\ Model # "inline"
    BY <2>1, <2>4 DEF HInv, KeepsPace, Driven, Model
  <2> QED
    BY <2>1, <2>2, <2>3, <2>4 DEF KeepsPace
<1>2. FailsOnce'
  <2>1. /\ task[a].at = "running" /\ UNCHANGED <<setting, srv, cur, pc, says, told, left>>
        /\ \A b \in Attempts : b # a => task'[b] = task[b]
        /\ task'[a].at \in {"running", "done", "failed"}
        /\ task'[a].at = "failed" => Injected(a, task[a].batch + 1)
    BY DEF IInv, TypeOK, Batch
  <2>2. task'[a].at = "failed" => Model = "inline" /\ a = 1
    BY <2>1, SettingType DEF IInv, TypeOK, Injected, Healthy
  <2>3. pc[a] # "finishing"
    BY <2>1 DEF IInv, Stages
  <2> QED
    BY <2>1, <2>2, <2>3 DEF HInv, FailsOnce, Awaited, Model
<1>3. srv' = "failed" => asked'
  BY DEF HInv, Batch
<1> QED
  BY <1>1, <1>2, <1>3 DEF HInv

\* A healthy setting and a task that fails: it was told to.
LEMMA TaskFailsHealthy ==
  ASSUME MaxAttempts > 1, HeartbeatBatches > 1, IInv, HInv, Healthy, NEW a \in Attempts,
         TaskFails(a)
  PROVE  HInv'
<1> USE DEF Attempts
<1>1. KeepsPace'
  BY DEF HInv, KeepsPace, Driven, HasProgress, Latest, Model, Backend, TaskFails, server
<1>2. FailsOnce'
  BY DEF HInv, FailsOnce, Healthy, Model, Awaited, TaskFails, server
<1>3. srv' = "failed" => asked'
  BY DEF HInv, TaskFails, server
<1> QED
  BY <1>1, <1>2, <1>3 DEF HInv

\* A healthy setting and a poll.
LEMMA PollHealthy ==
  ASSUME MaxAttempts > 1, HeartbeatBatches > 1, IInv, HInv, Healthy, NEW a \in Attempts, Poll(a)
  PROVE  HInv'
<1> USE DEF Attempts
<1>1. KeepsPace'
  BY DEF IInv, TypeOK, InTurn, HInv, KeepsPace, Driven, HasProgress, Latest, Model, Backend, Poll,
         Goto
<1>2. FailsOnce'
  <2>1. /\ UNCHANGED <<setting, srv, cur, task, left>> /\ pc[a] = "polling" /\ a \notin told
        /\ \A b \in Attempts : b # a => pc'[b] = pc[b] /\ says'[b] = says[b]
    BY DEF IInv, TypeOK, HInv, FailsOnce, Poll, Goto
  <2>2. CASE UNCHANGED <<pc, says, told>>
    BY <2>1, <2>2 DEF HInv, FailsOnce, Model, Awaited
  <2>3. CASE /\ told' = told \cup {a}
             /\ says' = [says EXCEPT ![a] = "cancelled"]
             /\ pc' = [pc EXCEPT ![a] = "report"]
    <3>1. pc'[a] = "report" /\ says'[a] = "cancelled"
      BY <2>3 DEF IInv, TypeOK
    <3> QED
      BY <2>1, <2>3, <3>1 DEF HInv, FailsOnce, Model, Awaited
  <2> QED
    BY <2>2, <2>3 DEF Poll, Goto
<1>3. srv' = "failed" => asked'
  BY DEF HInv, Poll
<1> QED
  BY <1>1, <1>2, <1>3 DEF HInv

\* A healthy setting and a collected result.
LEMMA CollectHealthy ==
  ASSUME MaxAttempts > 1, HeartbeatBatches > 1, IInv, HInv, Healthy, NEW a \in Attempts, Collect(a)
  PROVE  HInv'
<1> USE DEF Attempts
<1>1. KeepsPace'
  BY DEF HInv, KeepsPace, Driven, Awaited, HasProgress, Latest, Model, Backend, Collect, Goto
<1>2. FailsOnce'
  BY DEF IInv, TypeOK, HInv, FailsOnce, Model, Awaited, Collect, Goto
<1>3. srv' = "failed" => asked'
  BY DEF HInv, Collect
<1> QED
  BY <1>1, <1>2, <1>3 DEF HInv

\* A healthy setting and the row of a result.
LEMMA FinishHealthy ==
  ASSUME MaxAttempts > 1, HeartbeatBatches > 1, IInv, HInv, Healthy, NEW a \in Attempts, Finish(a)
  PROVE  HInv'
<1> USE DEF Attempts
<1>1. /\ pc[a] = "finishing" /\ pc'[a] = "report"
      /\ UNCHANGED <<setting, srv, cur, asked, quiet, ckpt, task, told, left>>
      /\ says'[a] \in {says[a], "cancelled"}
      /\ \A b \in Attempts : b # a => pc'[b] = pc[b] /\ says'[b] = says[b]
  BY DEF IInv, TypeOK, Finish, Goto, server
<1>2. KeepsPace'
  <2>1. srv = "running" => cur \in Attempts
    BY DEF IInv, InTurn
  <2> QED
    BY <1>1, <2>1 DEF HInv, KeepsPace, Driven, HasProgress, Latest, Model, Backend
<1>3. FailsOnce'
  BY <1>1 DEF HInv, FailsOnce, Awaited, Model
<1>4. srv' = "failed" => asked'
  BY <1>1 DEF HInv
<1> QED
  BY <1>2, <1>3, <1>4 DEF HInv

\* A healthy worker is neither drained nor killed.
LEMMA NotDrained ==
  ASSUME Healthy, NEW a \in Attempts
  PROVE  ~Drain(a) /\ ~Exit(a) /\ ~Die(a)
  BY DEF Healthy, Drain, Exit, Die

\* A healthy setting and a report: a failed one is the first attempt's, and it
\* is not the last.
LEMMA ReportHealthy ==
  ASSUME MaxAttempts > 1, HeartbeatBatches > 1, IInv, HInv, Healthy, NEW a \in Attempts, Report(a)
  PROVE  HInv'
<1> USE DEF Attempts
<1>1. KeepsPace'
  BY DEF HInv, KeepsPace, Driven, Awaited, HasProgress, Latest, Model, Backend, Report, Goto, Close,
         Complete
<1>2. FailsOnce'
  BY DEF HInv, FailsOnce, Model, Awaited, Report, Goto
<1>3. srv' = "failed" => asked'
  BY DEF IInv, TypeOK, HInv, FailsOnce, Model, Awaited, Report, Close, Complete
<1> QED
  BY <1>1, <1>2, <1>3 DEF HInv

\* A healthy setting and a callback.
LEMMA ResolveHealthy ==
  ASSUME MaxAttempts > 1, HeartbeatBatches > 1, IInv, HInv, Healthy, NEW a \in Attempts, Resolve(a)
  PROVE  HInv'
<1> USE DEF Attempts
<1>1. KeepsPace'
  BY DEF IInv, TypeOK, InTurn, HInv, KeepsPace, Driven, HasProgress, Latest, Model, Backend,
         Resolve, Goto, Complete
<1>2. FailsOnce'
  <2>1. /\ pc[a] = "waiting" /\ Model # "inline"
        /\ UNCHANGED <<setting, cur, says, task, told, left>>
        /\ \A b \in Attempts : b # a => pc'[b] = pc[b]
    BY DEF IInv, Stages, TypeOK, Model, Resolve, Goto
  <2>2. pc'[a] = "ended" \/ (pc'[a] = "failing" /\ ~Awaited(a)')
    BY <2>1 DEF IInv, TypeOK, HInv, FailsOnce, Healthy, Awaited, Resolve, Goto
  <2>3. srv' = "running" => srv = "running"
    BY DEF Resolve, Complete
  <2> QED
    BY <2>1, <2>2, <2>3 DEF HInv, FailsOnce, Model, Awaited
<1>3. srv' = "failed" => asked'
  BY DEF HInv, Resolve, Complete
<1> QED
  BY <1>1, <1>2, <1>3 DEF HInv

\* A healthy setting and a failing callback: nobody waits for its attempt any
\* more.
LEMMA FailHealthy ==
  ASSUME MaxAttempts > 1, HeartbeatBatches > 1, IInv, HInv, Healthy, NEW a \in Attempts, Fail(a)
  PROVE  HInv'
<1> USE DEF Attempts
<1>1. KeepsPace'
  BY DEF HInv, KeepsPace, Healthy, Driven, Awaited, HasProgress, Latest, Model, Backend, Fail, Goto,
         Close
<1>2. FailsOnce'
  BY DEF HInv, FailsOnce, Model, Awaited, Fail, Goto
<1>3. srv' = "failed" => asked'
  BY DEF HInv, FailsOnce, Fail
<1> QED
  BY <1>1, <1>2, <1>3 DEF HInv

\* Every step of a healthy setting keeps what it keeps.
LEMMA HealthyStep ==
  ASSUME MaxAttempts > 1, HeartbeatBatches > 1
  PROVE  IInv /\ HInv /\ [Next]_vars => HInv'
<1> SUFFICES ASSUME IInv, HInv, [Next]_vars, Healthy' PROVE HInv'
  BY DEF HInv
<1>1. Healthy
  <2>1. setting' = setting
    BY DEF Next, Dispatch, Timeout, RequestCancel, Submit, Recorded, Batch, TaskFails, Poll, Collect,
           Finish, Drain, Exit, Report, Resolve, Fail, Die, server, vars
  <2> QED
    BY <2>1 DEF Healthy, Model, Backend, Troubles, FailAt
<1>2. CASE UNCHANGED vars
  <2>1. UNCHANGED <<setting, srv, cur, asked, quiet, ckpt, pc, says, task, told, left>>
    BY <1>2 DEF vars, server
  <2> QED
    BY <1>1, <2>1
    DEF HInv, KeepsPace, FailsOnce, Driven, Awaited, HasProgress, Latest, Model, Backend
<1> QED
  BY <1>1, <1>2, DispatchHealthy, TimeoutHealthy, RequestCancelHealthy, SubmitHealthy, BatchHealthy,
     TaskFailsHealthy, PollHealthy, CollectHealthy, ReportHealthy, ResolveHealthy, FailHealthy,
     RecordedHealthy, FinishHealthy, NotDrained
  DEF Next

\* A compute activity on a healthy worker does not fail, unless it was asked to
\* stop: heartbeats keep it alive and an injected crash costs one attempt
\* (ray_compute).
\* With a single attempt the injected crash costs the only one, and with a
\* timer of one batch it may fire before the first beat: the class's policy has
\* two attempts, and its timer is several beats long.
THEOREM HealthyCompletesAlways ==
  ASSUME MaxAttempts > 1, HeartbeatBatches > 1
  PROVE  Spec => []HealthyCompletes
<1>1. Init => HInv
  BY DEF Init, Attempts, HInv, KeepsPace, FailsOnce
<1>2. IInv /\ HInv /\ [Next]_vars => HInv'
  BY HealthyStep
<1>3. HInv => HealthyCompletes
  BY DEF HInv, Healthy, HealthyCompletes
<1> QED
  BY <1>1, <1>2, <1>3, Inductive, PTL DEF Spec

------------------------------------------------------------------------------

\* A beat under way stamps a time after its process's last commit, and whoever
\* wrote the row has been started.
Stamps ==
  /\ \A p \in Processes : proc[p].at = "beating" => proc[p].stamp <= proc[p].cold
  /\ writer # NoProcess => proc[writer].at # "off"

\* The row is no older than the commit before its writer's last one.
RowIsRecent ==
  row # NoRow /\ writer # NoProcess /\ Up(writer) => row <= proc[writer].span

\* The inductive invariant of the registry.
RegistryInv == RegistryTypeOK /\ Stamps /\ RowIsRecent

\* What is known of a process.
Lives == [at : At, cold : 0 .. MaxCold, span : Ages, stamp : Ages]

\* The constants' types, and how ages grow: an age saturates at the oldest one
\* told apart, and growing keeps the order.
LEMMA RegistryConstants ==
  /\ Ttl \in Nat /\ ReapAfter \in Nat /\ MaxCold \in Nat /\ MaxFailures \in Nat
  /\ Oldest \in Nat /\ Ages \subseteq Nat /\ 0 \in Ages
  /\ \A age \in Ages : Older(age) \in Ages /\ age <= Older(age)
  /\ \A age, span \in Ages : age <= span => Older(age) <= Older(span)
  /\ \A age \in Ages, n \in Nat : age <= n => Older(age) <= n + 1
  BY RegistryAssumption DEF Oldest, Ages, Older

\* The invariant holds at first.
LEMMA RegistryInitInv == RegistryInit => RegistryInv
<1> SUFFICES ASSUME RegistryInit PROVE RegistryInv
  OBVIOUS
<1>1. proc \in [Processes -> Lives]
  BY RegistryConstants DEF RegistryInit, Lives, At, Running
<1> QED
  BY <1>1, RegistryConstants
  DEF RegistryInit, RegistryInv, RegistryTypeOK, Stamps, RowIsRecent, Lives

\* One process changes, the row stays: the invariant is about that process.
LEMMA OneProcess ==
  ASSUME RegistryInv, NEW p \in Processes, NEW life \in Lives, proc' = [proc EXCEPT ![p] = life],
         UNCHANGED <<row, writer>>,
         life.at = "beating" => life.stamp <= life.cold,
         writer = p => life.at # "off",
         writer = p /\ life.at \in Running => Up(p) /\ life.span = proc[p].span,
         key' \in 0 .. Ttl, redis' \in BOOLEAN, failures' \in 0 .. MaxFailures
  PROVE  RegistryInv'
<1>1. proc' \in [Processes -> Lives] /\ proc'[p] = life
  BY DEF RegistryInv, RegistryTypeOK, Lives
<1>2. \A q \in Processes : q # p => proc'[q] = proc[q]
  BY DEF RegistryInv, RegistryTypeOK
<1>3. RegistryTypeOK'
  BY <1>1 DEF RegistryInv, RegistryTypeOK, Lives
<1>4. Stamps'
  BY <1>1, <1>2 DEF RegistryInv, RegistryTypeOK, Stamps
<1>5. RowIsRecent'
  BY DEF RegistryInv, RowIsRecent, Up
<1> QED
  BY <1>3, <1>4, <1>5 DEF RegistryInv

\* p's statement commits.
LEMMA CommitsKeeps ==
  ASSUME RegistryInv, NEW p \in Processes, NEW age \in Ages, age <= proc[p].cold, Commits(p, age),
         key' \in 0 .. Ttl, redis' \in BOOLEAN
  PROVE  RegistryInv'
<1> DEFINE span == IF proc[p].cold < Oldest THEN proc[p].cold ELSE Oldest
<1>1. proc[p] \in Lives /\ proc[p].cold \in 0 .. MaxCold
  BY DEF RegistryInv, RegistryTypeOK, Lives
<1>2. span \in Ages /\ age <= span
  BY <1>1, RegistryConstants DEF Ages
<1>3. proc' = [proc EXCEPT ![p] = [at |-> "up", cold |-> 0, span |-> span, stamp |-> 0]]
  BY DEF Commits
<1> HIDE DEF span
<1>4. [at |-> "up", cold |-> 0, span |-> span, stamp |-> 0] \in Lives
  BY <1>2, RegistryConstants DEF Lives, At, Running
<1>5. proc' \in [Processes -> Lives] /\ proc'[p].at = "up" /\ proc'[p].span = span
  BY <1>3, <1>4 DEF RegistryInv, RegistryTypeOK, Lives
<1>6. \A q \in Processes : q # p => proc'[q] = proc[q]
  BY <1>3 DEF RegistryInv, RegistryTypeOK
<1>7. row' = age /\ writer' = p /\ UNCHANGED failures
  BY DEF Commits
<1>8. RegistryTypeOK'
  BY <1>5, <1>7 DEF RegistryInv, RegistryTypeOK, Lives
<1>9. Stamps' /\ RowIsRecent'
  BY <1>2, <1>5, <1>6, <1>7 DEF RegistryInv, Stamps, RowIsRecent
<1> QED
  BY <1>8, <1>9 DEF RegistryInv

\* Without a commit, a process goes somewhere else with its beat's stamp reset.
LEMMA MovesKeeps ==
  ASSUME RegistryInv, NEW p \in Processes, NEW at \in At \ {"off"},
         proc[p].at # "off" \/ writer # p,
         proc' = [proc EXCEPT ![p] = [@ EXCEPT !.at = at, !.stamp = 0]],
         at \in Running => Up(p) \/ writer # p,
         UNCHANGED <<row, writer>>,
         key' \in 0 .. Ttl, redis' \in BOOLEAN, failures' \in 0 .. MaxFailures
  PROVE  RegistryInv'
<1> DEFINE life == [proc[p] EXCEPT !.at = at, !.stamp = 0]
<1>1. proc[p] \in Lives /\ proc[p].cold \in Nat
  BY RegistryConstants DEF RegistryInv, RegistryTypeOK, Lives
<1>2. life \in Lives /\ life.at = at /\ life.stamp = 0 /\ life.cold \in Nat
      /\ life.span = proc[p].span
  BY <1>1, RegistryConstants DEF Lives
<1>3. proc' = [proc EXCEPT ![p] = life]
  BY DEF RegistryInv, RegistryTypeOK
<1> HIDE DEF life
<1>4. life.at = "beating" => life.stamp <= life.cold
  BY <1>2
<1> QED
  BY <1>2, <1>3, <1>4, OneProcess

\* A process that leaves has nothing under way.
LEMMA LeaveKeeps ==
  ASSUME RegistryInv, NEW p \in Processes, NEW at \in At \ Running, at # "off", Leave(p, at),
         UNCHANGED <<row, writer>>,
         key' \in 0 .. Ttl, redis' \in BOOLEAN, failures' \in 0 .. MaxFailures
  PROVE  RegistryInv'
<1> DEFINE life == [at |-> at, cold |-> 0, span |-> 0, stamp |-> 0]
<1>1. life \in Lives /\ proc' = [proc EXCEPT ![p] = life]
  BY RegistryConstants, RegistryAssumption DEF Lives, Leave
<1>2. life.at = at /\ life.at # "beating"
  BY DEF Running
<1> HIDE DEF life
<1> QED
  BY <1>1, <1>2, OneProcess

\* Every step keeps the invariant.
LEMMA RegistryStep == RegistryInv /\ [RegistryNext]_registryVars => RegistryInv'
<1> SUFFICES ASSUME RegistryInv, [RegistryNext]_registryVars PROVE RegistryInv'
  OBVIOUS
<1>1. /\ key \in 0 .. Ttl /\ redis \in BOOLEAN /\ failures \in 0 .. MaxFailures
      /\ Ttl \in Nat /\ MaxFailures \in Nat
      /\ \A p \in Processes : proc[p] \in Lives
  BY RegistryConstants DEF RegistryInv, RegistryTypeOK, Lives
<1>2. Failure => failures' \in 0 .. MaxFailures
  BY <1>1 DEF Failure
<1>3. SetLiveness => key' \in 0 .. Ttl
  BY <1>1 DEF SetLiveness
<1>4. CASE Tick
  <2>1. \A p \in Processes : /\ Up(p)' <=> Up(p)
                             /\ proc'[p].at = proc[p].at
                             /\ proc'[p] \in Lives
                             /\ Up(p) => /\ proc'[p].cold = proc[p].cold + 1
                                         /\ proc'[p].span = Older(proc[p].span)
                             /\ proc[p].at = "beating" => proc'[p].stamp = Older(proc[p].stamp)
    <3> SUFFICES ASSUME NEW p \in Processes
                 PROVE  /\ Up(p)' <=> Up(p)
                        /\ proc'[p].at = proc[p].at
                        /\ proc'[p] \in Lives
                        /\ Up(p) => /\ proc'[p].cold = proc[p].cold + 1
                                    /\ proc'[p].span = Older(proc[p].span)
                        /\ proc[p].at = "beating" => proc'[p].stamp = Older(proc[p].stamp)
      OBVIOUS
    <3>1. proc[p] \in Lives /\ proc[p].cold \in 0 .. MaxCold /\ proc[p].span \in Ages
          /\ proc[p].stamp \in Ages
      BY <1>1 DEF Lives
    <3>2. CASE ~Up(p)
      <4>1. proc'[p] = proc[p]
        BY <1>4, <3>2 DEF Tick
      <4> QED
        BY <3>1, <3>2, <4>1 DEF Up, Running
    <3>3. CASE Up(p)
      <4>1. proc[p].cold < MaxCold
        BY <1>4, <3>3 DEF Tick
      <4>2. proc[p].cold + 1 \in 0 .. MaxCold
        BY <3>1, <4>1, RegistryConstants
      <4>3. proc'[p] = [proc[p] EXCEPT !.cold = @ + 1, !.span = Older(@),
                                       !.stamp = IF proc[p].at = "beating" THEN Older(@) ELSE 0]
        BY <1>4, <3>3 DEF Tick
      <4>4. Older(proc[p].span) \in Ages /\ Older(proc[p].stamp) \in Ages /\ 0 \in Ages
        BY <3>1, RegistryConstants
      <4> QED
        BY <3>1, <4>2, <4>3, <4>4 DEF Lives, Up
    <3> QED
      BY <3>2, <3>3
  <2>2. row' = (IF row = NoRow THEN NoRow ELSE Older(row)) /\ UNCHANGED <<redis, failures, writer>>
    BY <1>4 DEF Tick
  <2>3. key' \in 0 .. Ttl
    <3>1. key' = IF key = 0 THEN 0 ELSE key - 1
      BY <1>4 DEF Tick
    <3> QED
      BY <1>1, <3>1
  <2>4. row # NoRow => row \in Ages
    BY DEF RegistryInv, RegistryTypeOK
  <2>5. proc' = [p \in Processes |-> proc'[p]]
    BY <1>4 DEF Tick
  <2>6. RegistryTypeOK'
    BY <2>3, <2>1, <2>2, <2>5, RegistryConstants DEF RegistryInv, RegistryTypeOK, Lives
  <2>7. Stamps'
    <3>1. \A p \in Processes : proc[p].at = "beating" =>
            /\ proc[p].stamp \in Ages /\ proc[p].cold \in Nat /\ proc[p].stamp <= proc[p].cold
            /\ Up(p)
      BY <1>1 DEF RegistryInv, Stamps, Lives, Up, Running
    <3> QED
      BY <2>1, <2>2, <3>1, RegistryConstants, ZenonT(30) DEF RegistryInv, RegistryTypeOK, Stamps
  <2>8. RowIsRecent'
    <3> SUFFICES ASSUME row' # NoRow, writer # NoProcess, Up(writer)'
                 PROVE  row' <= proc'[writer].span
      BY <2>2 DEF RowIsRecent
    <3>1. writer \in Processes
      BY DEF RegistryInv, RegistryTypeOK
    <3>2. proc[writer].span \in Ages
      BY <1>1, <3>1 DEF Lives
    <3>3. Up(writer)
      BY <2>1, <2>2, <3>1 DEF Up
    <3>4. row \in Ages /\ row' = Older(row) /\ row <= proc[writer].span
      BY <2>2, <2>4, <3>3 DEF RegistryInv, RowIsRecent
    <3>5. proc'[writer].span = Older(proc[writer].span)
      BY <2>1, <3>1, <3>3
    <3> QED
      BY <3>2, <3>4, <3>5, RegistryConstants
  <2> QED
    BY <2>6, <2>7, <2>8 DEF RegistryInv
<1>5. CASE RedisFails
  BY <1>5, <1>2 DEF RedisFails, RegistryInv, RegistryTypeOK, Stamps, RowIsRecent, Up
<1>6. CASE RedisReturns
  BY <1>6 DEF RedisReturns, RegistryInv, RegistryTypeOK, Stamps, RowIsRecent, Up
<1>7. CASE Reap
  BY <1>7 DEF Reap, RegistryInv, RegistryTypeOK, Stamps, RowIsRecent
<1>8. ASSUME NEW p \in Processes, Start(p) PROVE RegistryInv'
  <2>1. writer # p
    BY <1>8, RegistryAssumption DEF Start, RegistryInv, Stamps
  <2>2. proc[p] \in Lives
    BY <1>1
  <2> DEFINE life == [proc[p] EXCEPT !.at = "starting"]
  <2>3. life \in Lives /\ life.at = "starting"
    BY <2>2 DEF Lives, At, Running
  <2>4. proc' = [proc EXCEPT ![p] = life]
    BY <1>8 DEF Start, Becomes, RegistryInv, RegistryTypeOK
  <2>5. UNCHANGED <<row, key, redis, failures, writer>>
    BY <1>8 DEF Start
  <2> HIDE DEF life
  <2> QED
    BY <1>1, <2>1, <2>3, <2>4, <2>5, OneProcess
<1>9. ASSUME NEW p \in Processes, Raises(p), Up(p), key' \in 0 .. Ttl, redis' = redis,
             failures' \in 0 .. MaxFailures
      PROVE  RegistryInv'
  <2>1. "up" \in At \ {"off"} /\ proc[p].at # "off"
    BY <1>9 DEF At, Running, Up
  <2>2. /\ proc' = [proc EXCEPT ![p] = [@ EXCEPT !.at = "up", !.stamp = 0]]
        /\ UNCHANGED <<row, writer>> /\ redis' \in BOOLEAN
    BY <1>1, <1>9 DEF Raises
  <2> QED
    BY <1>9, <2>1, <2>2, MovesKeeps
<1>10. ASSUME NEW p \in Processes, Register(p) PROVE RegistryInv'
  <2>1. Up(p) /\ key' \in 0 .. Ttl /\ redis' = redis
    BY <1>10, <1>3 DEF Register, Up, Running
  <2>2. 0 <= proc[p].cold
    BY <1>1 DEF Lives
  <2>3. CASE Commits(p, 0)
    BY <1>1, <2>1, <2>2, <2>3, CommitsKeeps, RegistryConstants
  <2>4. CASE Failure /\ Raises(p)
    BY <1>9, <1>2, <2>1, <2>4
  <2> QED
    BY <1>10, <2>3, <2>4 DEF Register
<1>11. ASSUME NEW p \in Processes, Beat(p) PROVE RegistryInv'
  <2>1. PICK at \in {"registering", "beating"} :
          proc' = [proc EXCEPT ![p] = [@ EXCEPT !.at = at, !.stamp = 0]]
    BY <1>11 DEF Beat
  <2>2. proc[p].at = "up" /\ key' \in 0 .. Ttl /\ UNCHANGED <<row, redis, failures, writer>>
    BY <1>11, <1>3 DEF Beat
  <2>3. at \in At \ {"off"} /\ Up(p)
    BY <2>2 DEF At, Running, Up
  <2> QED
    BY <1>1, <2>1, <2>2, <2>3, MovesKeeps
<1>12. ASSUME NEW p \in Processes, BeatCommits(p) PROVE RegistryInv'
  <2>1. proc[p].at = "beating" /\ Up(p) /\ UNCHANGED <<key, redis>>
    BY <1>12 DEF BeatCommits, Up, Running
  <2>2. proc[p].stamp \in Ages /\ proc[p].stamp <= proc[p].cold
    BY <1>1, <2>1 DEF Lives, RegistryInv, Stamps
  <2>3. CASE Commits(p, proc[p].stamp)
    BY <1>1, <2>1, <2>2, <2>3, CommitsKeeps
  <2>4. CASE Raises(p) /\ failures' \in 0 .. MaxFailures
    BY <1>1, <1>9, <2>1, <2>4
  <2> QED
    BY <1>1, <1>12, <1>2, <2>3, <2>4 DEF BeatCommits
<1>13. ASSUME NEW p \in Processes, Stop(p) \/ Kill(p) PROVE RegistryInv'
  <2>1. PICK at \in {"stopping", "gone"} : Leave(p, at)
    BY <1>13 DEF Stop, Kill
  <2>2. UNCHANGED <<row, key, redis, failures, writer>>
    BY <1>13 DEF Stop, Kill
  <2> QED
    BY <1>1, <2>1, <2>2, LeaveKeeps DEF At, Running
<1>14. ASSUME NEW p \in Processes, ClearLiveness(p) PROVE RegistryInv'
  <2>1. Leave(p, "gone") /\ key' \in 0 .. Ttl /\ UNCHANGED <<row, redis, failures, writer>>
    BY <1>1, <1>14 DEF ClearLiveness
  <2> QED
    BY <1>1, <2>1, LeaveKeeps DEF At, Running
<1>15. ASSUME NEW p \in Processes, Deregister(p) PROVE RegistryInv'
  <2>1. Leave(p, "clearing") /\ UNCHANGED <<key, redis>>
    BY <1>15 DEF Deregister
  <2>2. CASE Failure /\ UNCHANGED <<row, writer>>
    BY <1>1, <1>2, <2>1, <2>2, LeaveKeeps DEF At, Running
  <2>3. CASE row' = NoRow /\ writer' = NoProcess /\ UNCHANGED failures
    <3>1. [at |-> "clearing", cold |-> 0, span |-> 0, stamp |-> 0] \in Lives
      BY RegistryConstants, RegistryAssumption DEF Lives, At, Running
    <3>2. /\ proc' \in [Processes -> Lives] /\ proc'[p].at = "clearing"
          /\ \A q \in Processes : q # p => proc'[q] = proc[q]
      BY <2>1, <3>1 DEF Leave, RegistryInv, RegistryTypeOK, Lives
    <3> QED
      BY <2>1, <2>3, <3>2 DEF RegistryInv, RegistryTypeOK, Stamps, RowIsRecent, Lives
  <2> QED
    BY <1>15, <2>2, <2>3 DEF Deregister
<1>16. CASE UNCHANGED registryVars
  BY <1>16 DEF registryVars, RegistryInv, RegistryTypeOK, Stamps, RowIsRecent, Up
<1> QED
  BY <1>4, <1>5, <1>6, <1>7, <1>8, <1>10, <1>11, <1>12, <1>13, <1>14, <1>15, <1>16
  DEF RegistryNext, Work, Departs

\* So it always holds.
LEMMA RegistryInductive == RegistrySpec => []RegistryInv
  BY RegistryInitInv, RegistryStep, PTL DEF RegistrySpec

\* Every variable of the registry keeps its type.
THEOREM RegistryTypeCorrect == RegistrySpec => []RegistryTypeOK
<1>1. RegistryInv => RegistryTypeOK
  BY DEF RegistryInv
<1> QED
  BY <1>1, RegistryInductive, PTL

\* The reaper deletes the row of a running worker only when that worker has
\* committed nothing for longer than the reaping age: the row is no older than
\* the commit before its writer's last (WorkerRegistry._beat and the reaper).
THEOREM HealthyIsNotReapedAlways == RegistrySpec => HealthyIsNotReaped
<1>1. RegistryInv /\ [RegistryNext]_registryVars =>
        [Reap /\ writer # NoProcess /\ Up(writer) => proc[writer].span > ReapAfter]_registryVars
  <2> SUFFICES ASSUME RegistryInv, Reap, writer # NoProcess, Up(writer)
               PROVE  proc[writer].span > ReapAfter
    OBVIOUS
  <2>1. row \in Ages /\ row > ReapAfter /\ proc[writer].span \in Ages /\ row <= proc[writer].span
    BY DEF Reap, RegistryInv, RegistryTypeOK, RowIsRecent
  <2>2. row \in Nat /\ proc[writer].span \in Nat /\ ReapAfter \in Nat
    BY <2>1, RegistryConstants
  <2> QED
    BY <2>1, <2>2
<1> QED
  BY <1>1, RegistryInductive, PTL DEF RegistrySpec, HealthyIsNotReaped
=============================================================================
