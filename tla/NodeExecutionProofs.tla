------------------------- MODULE NodeExecutionProofs -------------------------
(***************************************************************************)
(* Proofs about NodeExecution, for any number of attempts and for guarded  *)
(* and unguarded nodes alike.                                              *)
(***************************************************************************)
EXTENDS NodeExecution, TLAPS

\* Temporal dispatches attempts in order, one at a time, and closes each once.
Serial ==
  /\ srv = "queued" => cur < MaxAttempts
  /\ srv = "running" => cur \in Attempts /\ closed[cur] = "none"
  /\ \A a \in Attempts : a > cur => pc[a] = "idle" /\ closed[a] = "none"

\* Where the results an execution holds, and the row's, come from.
Provenance ==
  /\ \A a \in Attempts :
       /\ pc[a] = "inflight" => a \in fired
       /\ pc[a] = "store" => res[a] = a /\ a \in fired
       /\ pc[a] = "cost" => res[a] \in fired
       /\ pc[a] = "cost" /\ ~guarded => a \in fired
       /\ says[a] = "ok" => res[a] \in fired
       /\ says[a] # "none" => pc[a] \in {"release", "report"}
  /\ row = "done" => rowResult \in fired /\ rowResult \in stored
  /\ srv = "completed" => returned # 0
  /\ returned # 0 => returned \in fired
  /\ costs \subseteq fired

\* The guard: nobody passes it once a result is stored, so two executions that
\* are inside it or have committed were inside it together.
Windows ==
  /\ stored # {} <=> row = "done"
  /\ \A a \in Attempts : pc[a] \in {"guard", "store"} => guarded
  /\ ~guarded => stored = {}
  /\ guarded => \A a, b \in Attempts :
       /\ a # b
       /\ InWindow(a) \/ a \in stored
       /\ InWindow(b) \/ b \in stored
       => <<a, b>> \in overlap \/ <<b, a>> \in overlap
  /\ \A a, b \in Attempts : <<a, b>> \in overlap =>
       a # b /\ closed[IF a < b THEN a ELSE b] = "timedout"

IInv == TypeOK /\ Serial /\ LateMeansTimedOut /\ Provenance /\ Windows

USE MaxAttemptsAssumption

LEMMA InitIInv == Init => IInv
  BY DEF Init, IInv, TypeOK, Serial, LateMeansTimedOut, Provenance, Windows,
         Attempts, PcStates, Reports, Closings, Live, InWindow

\* Types, step by step; Serial gives the number of the next attempt its range.
LEMMA TypeStep == IInv /\ [Next]_vars => TypeOK'
<1> SUFFICES ASSUME IInv, [Next]_vars PROVE TypeOK'
  OBVIOUS
<1> USE DEF IInv, TypeOK, Serial, Attempts, PcStates, Reports, Closings, server, inbox
<1>1. CASE Dispatch
  BY <1>1 DEF Dispatch
<1>2. CASE Timeout
  BY <1>2 DEF Timeout, CloseFailed, Retryable
<1>3. CASE ExpireSlot
  BY <1>3 DEF ExpireSlot
<1>4. CASE SchedulerRestart
  BY <1>4 DEF SchedulerRestart
<1>5. ASSUME NEW a \in Attempts, RunNode(a) \/ Crash(a) PROVE TypeOK'
  <2>1. CASE AdmitGranted(a)
    BY <2>1 DEF AdmitGranted, Goto, AfterAdmission
  <2>2. CASE AdmitOpen(a)
    BY <2>2 DEF AdmitOpen, Goto, AfterAdmission
  <2>3. CASE AdmitRefused(a)
    BY <2>3 DEF AdmitRefused, Goto, Answer
  <2>4. CASE GuardHit(a)
    BY <2>4 DEF GuardHit, Goto
  <2>5. CASE GuardPass(a)
    BY <2>5, SMTT(30) DEF GuardPass, Goto
  <2>6. CASE Store(a)
    BY <2>6 DEF Store, Goto
  <2>7. CASE Fire(a)
    BY <2>7 DEF Fire, Goto
  <2>8. CASE EffectOk(a)
    BY <2>8 DEF EffectOk, Goto
  <2>9. CASE EffectNodeError(a)
    BY <2>9, SMTT(30) DEF EffectNodeError, Goto
  <2>10. CASE Raise(a)
    BY <2>10 DEF Raise, Goto, Answer
  <2>11. CASE RecordCost(a)
    BY <2>11 DEF RecordCost, Goto
  <2>12. CASE Release(a)
    BY <2>12, SMTT(30) DEF Release, Goto
  <2>13. CASE Report(a)
    BY <2>13, SMTT(30) DEF Report, End, CloseFailed, Retryable
  <2>14. CASE Crash(a)
    BY <2>14 DEF Crash, End
  <2> QED
    BY <1>5, <2>1, <2>2, <2>3, <2>4, <2>5, <2>6, <2>7, <2>8, <2>9, <2>10, <2>11, <2>12, <2>13, <2>14
       DEF RunNode, Admission, Guard, Effect
<1>6. CASE UNCHANGED vars
  BY <1>6 DEF vars
<1> QED BY <1>1, <1>2, <1>3, <1>4, <1>5, <1>6 DEF Next

\* Attempts stay in order.
LEMMA SerialStep == IInv /\ [Next]_vars => Serial'
<1> SUFFICES ASSUME IInv, [Next]_vars PROVE Serial'
  OBVIOUS
<1> USE DEF IInv, TypeOK, Attempts, server, inbox, Serial
<1>1. CASE Dispatch
  BY <1>1 DEF Dispatch
<1>2. CASE Timeout
  BY <1>2 DEF Timeout, CloseFailed, Retryable
<1>3. CASE ExpireSlot
  BY <1>3 DEF ExpireSlot
<1>4. CASE SchedulerRestart
  BY <1>4 DEF SchedulerRestart
<1>5. ASSUME NEW a \in Attempts, RunNode(a) \/ Crash(a) PROVE Serial'
  <2>1. CASE AdmitGranted(a)
    BY <2>1 DEF AdmitGranted, Goto, AfterAdmission
  <2>2. CASE AdmitOpen(a)
    BY <2>2 DEF AdmitOpen, Goto, AfterAdmission
  <2>3. CASE AdmitRefused(a)
    BY <2>3 DEF AdmitRefused, Goto, Answer
  <2>4. CASE GuardHit(a)
    BY <2>4 DEF GuardHit, Goto
  <2>5. CASE GuardPass(a)
    BY <2>5 DEF GuardPass, Goto
  <2>6. CASE Store(a)
    BY <2>6 DEF Store, Goto
  <2>7. CASE Fire(a)
    BY <2>7 DEF Fire, Goto
  <2>8. CASE EffectOk(a)
    BY <2>8 DEF EffectOk, Goto
  <2>9. CASE EffectNodeError(a)
    BY <2>9 DEF EffectNodeError, Goto
  <2>10. CASE Raise(a)
    BY <2>10 DEF Raise, Goto, Answer
  <2>11. CASE RecordCost(a)
    BY <2>11 DEF RecordCost, Goto
  <2>12. CASE Release(a)
    BY <2>12 DEF Release, Goto
  <2>13. CASE Report(a)
    BY <2>13 DEF Report, End, CloseFailed, Retryable
  <2>14. CASE Crash(a)
    BY <2>14 DEF Crash, End, Live
  <2> QED
    BY <1>5, <2>1, <2>2, <2>3, <2>4, <2>5, <2>6, <2>7, <2>8, <2>9, <2>10, <2>11, <2>12, <2>13, <2>14
       DEF RunNode, Admission, Guard, Effect
<1>6. CASE UNCHANGED vars
  BY <1>6 DEF vars
<1> QED BY <1>1, <1>2, <1>3, <1>4, <1>5, <1>6 DEF Next

\* An attempt runs beside another one only after a timeout.
LEMMA LateStep == IInv /\ [Next]_vars => LateMeansTimedOut'
<1> SUFFICES ASSUME IInv, [Next]_vars PROVE LateMeansTimedOut'
  OBVIOUS
<1> USE DEF IInv, TypeOK, Attempts, server, inbox, Serial, LateMeansTimedOut, Live
<1>1. CASE Dispatch
  BY <1>1 DEF Dispatch
<1>2. CASE Timeout
  BY <1>2 DEF Timeout, CloseFailed, Retryable
<1>3. CASE ExpireSlot
  BY <1>3 DEF ExpireSlot
<1>4. CASE SchedulerRestart
  BY <1>4 DEF SchedulerRestart
<1>5. ASSUME NEW a \in Attempts, RunNode(a) \/ Crash(a) PROVE LateMeansTimedOut'
  <2>1. CASE AdmitGranted(a)
    BY <2>1 DEF AdmitGranted, Goto, AfterAdmission
  <2>2. CASE AdmitOpen(a)
    BY <2>2 DEF AdmitOpen, Goto, AfterAdmission
  <2>3. CASE AdmitRefused(a)
    BY <2>3 DEF AdmitRefused, Goto, Answer
  <2>4. CASE GuardHit(a)
    BY <2>4 DEF GuardHit, Goto
  <2>5. CASE GuardPass(a)
    BY <2>5 DEF GuardPass, Goto
  <2>6. CASE Store(a)
    BY <2>6 DEF Store, Goto
  <2>7. CASE Fire(a)
    BY <2>7 DEF Fire, Goto
  <2>8. CASE EffectOk(a)
    BY <2>8 DEF EffectOk, Goto
  <2>9. CASE EffectNodeError(a)
    BY <2>9 DEF EffectNodeError, Goto
  <2>10. CASE Raise(a)
    BY <2>10 DEF Raise, Goto, Answer
  <2>11. CASE RecordCost(a)
    BY <2>11 DEF RecordCost, Goto
  <2>12. CASE Release(a)
    BY <2>12 DEF Release, Goto
  <2>13. CASE Report(a)
    <3> SUFFICES ASSUME NEW x \in Attempts, Live(x)', (x # cur \/ srv # "running")'
                 PROVE  closed'[x] = "timedout"
      OBVIOUS
    <3>1. x # a /\ Live(x)
      BY <2>13 DEF Report, End
    <3>2. x # cur \/ srv # "running"
      BY <2>13, <3>1 DEF Report, CloseFailed
    <3>3. closed'[x] = closed[x]
      BY <2>13, <3>1 DEF Report, CloseFailed
    <3> QED BY <3>1, <3>2, <3>3
  <2>14. CASE Crash(a)
    BY <2>14 DEF Crash, End
  <2> QED
    BY <1>5, <2>1, <2>2, <2>3, <2>4, <2>5, <2>6, <2>7, <2>8, <2>9, <2>10, <2>11, <2>12, <2>13, <2>14
       DEF RunNode, Admission, Guard, Effect
<1>6. CASE UNCHANGED vars
  BY <1>6 DEF vars
<1> QED BY <1>1, <1>2, <1>3, <1>4, <1>5, <1>6 DEF Next

\* Results come from performed effects.
LEMMA ProvenanceStep == IInv /\ [Next]_vars => Provenance'
<1> SUFFICES ASSUME IInv, [Next]_vars PROVE Provenance'
  OBVIOUS
<1> USE DEF IInv, TypeOK, Attempts, server, inbox, Provenance
<1>1. CASE Dispatch
  BY <1>1 DEF Dispatch, Serial
<1>2. CASE Timeout
  BY <1>2 DEF Timeout, CloseFailed, Retryable
<1>3. CASE ExpireSlot
  BY <1>3 DEF ExpireSlot
<1>4. CASE SchedulerRestart
  BY <1>4 DEF SchedulerRestart
<1>5. ASSUME NEW a \in Attempts, RunNode(a) \/ Crash(a) PROVE Provenance'
  <2>1. CASE AdmitGranted(a)
    BY <2>1 DEF AdmitGranted, Goto, AfterAdmission
  <2>2. CASE AdmitOpen(a)
    BY <2>2 DEF AdmitOpen, Goto, AfterAdmission
  <2>3. CASE AdmitRefused(a)
    BY <2>3 DEF AdmitRefused, Goto, Answer
  <2>4. CASE GuardHit(a)
    BY <2>4 DEF GuardHit, Goto, Windows
  <2>5. CASE GuardPass(a)
    BY <2>5 DEF GuardPass, Goto
  <2>6. CASE Store(a)
    BY <2>6 DEF Store, Goto
  <2>7. CASE Fire(a)
    BY <2>7 DEF Fire, Goto
  <2>8. CASE EffectOk(a)
    BY <2>8 DEF EffectOk, Goto
  <2>9. CASE EffectNodeError(a)
    BY <2>9 DEF EffectNodeError, Goto
  <2>10. CASE Raise(a)
    BY <2>10 DEF Raise, Goto, Answer
  <2>11. CASE RecordCost(a)
    BY <2>11 DEF RecordCost, Goto
  <2>12. CASE Release(a)
    BY <2>12 DEF Release, Goto
  <2>13. CASE Report(a)
    BY <2>13 DEF Report, End, CloseFailed, Retryable
  <2>14. CASE Crash(a)
    BY <2>14 DEF Crash, End
  <2> QED
    BY <1>5, <2>1, <2>2, <2>3, <2>4, <2>5, <2>6, <2>7, <2>8, <2>9, <2>10, <2>11, <2>12, <2>13, <2>14
       DEF RunNode, Admission, Guard, Effect
<1>6. CASE UNCHANGED vars
  BY <1>6 DEF vars
<1> QED BY <1>1, <1>2, <1>3, <1>4, <1>5, <1>6 DEF Next

\* The guard keeps the windows of committed effects overlapping.
LEMMA WindowsStep == IInv /\ [Next]_vars => Windows'
<1> SUFFICES ASSUME IInv, [Next]_vars PROVE Windows'
  OBVIOUS
<1> USE DEF IInv, TypeOK, Attempts, server, inbox, Serial, LateMeansTimedOut, Live, Windows, InWindow, Provenance
<1>1. CASE Dispatch
  BY <1>1 DEF Dispatch
<1>2. CASE Timeout
  BY <1>2 DEF Timeout, CloseFailed, Retryable
<1>3. CASE ExpireSlot
  BY <1>3 DEF ExpireSlot
<1>4. CASE SchedulerRestart
  BY <1>4 DEF SchedulerRestart
<1>5. ASSUME NEW a \in Attempts, RunNode(a) \/ Crash(a) PROVE Windows'
  <2>1. CASE AdmitGranted(a)
    BY <2>1 DEF AdmitGranted, Goto, AfterAdmission
  <2>2. CASE AdmitOpen(a)
    BY <2>2 DEF AdmitOpen, Goto, AfterAdmission
  <2>3. CASE AdmitRefused(a)
    BY <2>3 DEF AdmitRefused, Goto, Answer
  <2>4. CASE GuardHit(a)
    BY <2>4 DEF GuardHit, Goto
  <2>5. CASE GuardPass(a)
    <3>1. stored = {} /\ stored' = {} /\ row' = "pending" /\ guarded /\ guarded'
      BY <2>5 DEF GuardPass
    <3>2. /\ \A x \in Attempts : x # a => (InWindow(x)' <=> InWindow(x))
          /\ \A x \in Attempts : pc'[x] \in {"guard", "store"} => pc[x] = pc'[x]
      BY <2>5 DEF GuardPass, Goto
    <3>3. overlap' = overlap \cup {<<a, b>> : b \in {c \in Attempts : InWindow(c)}}
      BY <2>5 DEF GuardPass
    <3>4. ASSUME NEW x \in Attempts, NEW y \in Attempts, x # y,
                 InWindow(x)', InWindow(y)'
          PROVE  <<x, y>> \in overlap' \/ <<y, x>> \in overlap'
      BY <3>1, <3>2, <3>3, <3>4
    <3>5. ASSUME NEW x \in Attempts, NEW y \in Attempts, <<x, y>> \in overlap'
          PROVE  x # y /\ closed'[IF x < y THEN x ELSE y] = "timedout"
      <4>1. closed' = closed
        BY <2>5 DEF GuardPass
      <4>2. CASE <<x, y>> \in overlap
        BY <4>1, <4>2
      <4>3. CASE x = a /\ InWindow(y)
        <5>1. pc[a] = "guard" /\ x # y
          BY <2>5, <4>3 DEF GuardPass
        <5>2. a \in 1 .. cur /\ y \in 1 .. cur
          BY <4>3, <5>1
        <5>3. (IF x < y THEN x ELSE y) # cur /\ (IF x < y THEN x ELSE y) \in {a, y}
          BY <4>3, <5>1, <5>2
        <5> QED BY <4>1, <4>3, <5>1, <5>3
      <4> QED BY <3>3, <3>5, <4>2, <4>3
    <3> QED BY <3>1, <3>2, <3>4, <3>5
  <2>6. CASE Store(a)
    BY <2>6 DEF Store, Goto
  <2>7. CASE Fire(a)
    BY <2>7 DEF Fire, Goto
  <2>8. CASE EffectOk(a)
    BY <2>8 DEF EffectOk, Goto
  <2>9. CASE EffectNodeError(a)
    BY <2>9 DEF EffectNodeError, Goto
  <2>10. CASE Raise(a)
    BY <2>10 DEF Raise, Goto, Answer
  <2>11. CASE RecordCost(a)
    BY <2>11 DEF RecordCost, Goto
  <2>12. CASE Release(a)
    BY <2>12 DEF Release, Goto
  <2>13. CASE Report(a)
    <3>1. /\ \A x \in Attempts : InWindow(x)' => InWindow(x)
          /\ \A x \in Attempts : pc'[x] \in {"guard", "store"} => pc[x] = pc'[x]
          /\ UNCHANGED <<guarded, row, stored, overlap>>
      BY <2>13 DEF Report, End
    <3>2. \A x \in Attempts : closed[x] = "timedout" => closed'[x] = "timedout"
      BY <2>13 DEF Report, CloseFailed
    <3>3. \A x, y \in Attempts : (IF x < y THEN x ELSE y) \in Attempts
      OBVIOUS
    <3> QED BY <3>1, <3>2, <3>3
  <2>14. CASE Crash(a)
    BY <2>14 DEF Crash, End
  <2> QED
    BY <1>5, <2>1, <2>2, <2>3, <2>4, <2>5, <2>6, <2>7, <2>8, <2>9, <2>10, <2>11, <2>12, <2>13, <2>14
       DEF RunNode, Admission, Guard, Effect
<1>6. CASE UNCHANGED vars
  BY <1>6 DEF vars
<1> QED BY <1>1, <1>2, <1>3, <1>4, <1>5, <1>6 DEF Next

\* The conjunction is inductive.
LEMMA IInvStep == IInv /\ [Next]_vars => IInv'
  BY TypeStep, SerialStep, LateStep, ProvenanceStep, WindowsStep DEF IInv

LEMMA Inductive == Spec => []IInv
  BY InitIInv, IInvStep, PTL DEF Spec

\* Every variable keeps its type: in particular the attempt number never passes
\* the policy's maximum_attempts (run_node under RetrySpec).
THEOREM TypeCorrect == Spec => []TypeOK
<1>1. IInv => TypeOK
  BY DEF IInv
<1> QED BY <1>1, Inductive, PTL

\* What the workflow receives, the inbox row stores and the ledger bills always
\* comes from an execution that performed the effect (run_node, get_or_run).
THEOREM ResultsAreRealAlways == Spec => []ResultsAreReal
<1>1. IInv => ResultsAreReal
  BY DEF IInv, Provenance, ResultsAreReal
<1> QED BY <1>1, Inductive, PTL

\* Only a timed-out attempt can run beside another one (Temporal's dispatch).
THEOREM LateMeansTimedOutAlways == Spec => []LateMeansTimedOut
<1>1. IInv => LateMeansTimedOut
  BY DEF IInv
<1> QED BY <1>1, Inductive, PTL

\* The guarantee the inbox guard really gives (PostgresInboxGuard.get_or_run):
\* two committed effects mean two overlapping executions, one of them late.
THEOREM DoubleCommit == Spec => []DoubleCommitNeedsLateAttempt
<1>1. IInv => DoubleCommitNeedsLateAttempt
  <2> SUFFICES ASSUME IInv, NEW a \in stored, NEW b \in stored, a # b
               PROVE  /\ <<a, b>> \in overlap \/ <<b, a>> \in overlap
                      /\ closed[IF a < b THEN a ELSE b] = "timedout"
    BY DEF DoubleCommitNeedsLateAttempt
  <2>1. a \in Attempts /\ b \in Attempts /\ guarded
    BY DEF IInv, TypeOK, Windows
  <2>2. <<a, b>> \in overlap \/ <<b, a>> \in overlap
    BY <2>1 DEF IInv, Windows
  <2>3. (IF a < b THEN a ELSE b) = (IF b < a THEN b ELSE a)
    BY <2>1 DEF Attempts
  <2> QED BY <2>1, <2>2, <2>3 DEF IInv, Windows
<1> QED BY <1>1, Inductive, PTL

\* Once the row is done no step takes it back (the upsert of get_or_run).
THEOREM DoneStays == Spec => DoneIsForever
<1>1. IInv /\ IInv' /\ [Next]_vars
        => [row = "done" => row' = "done" /\ rowResult' \in stored']_vars
  <2> SUFFICES ASSUME IInv, IInv', [Next]_vars, row = "done"
               PROVE  row' = "done" /\ rowResult' \in stored'
    OBVIOUS
  <2>1. row' = "done"
    BY DEF Next, vars, inbox, Dispatch, Timeout, ExpireSlot, SchedulerRestart,
           RunNode, Crash, Admission, AdmitGranted, AdmitOpen, AdmitRefused,
           Guard, GuardHit, GuardPass, Store, Effect, Fire, EffectOk,
           EffectNodeError, Raise, RecordCost, Release, Report
  <2> QED BY <2>1 DEF IInv, Provenance
<1> QED BY <1>1, Inductive, PTL DEF Spec, DoneIsForever

\* Every behaviour of the detailed call is one of the abstract at-least-once
\* activity: performing the effect is Perform, the accepted answer is Deliver,
\* the last failure is GiveUp and everything else is invisible to the workflow.
THEOREM Refinement == Spec => ImplementsContract
<1>1. Init => Contract!Init
  BY DEF Init, Contract!Init
<1>2. IInv /\ [Next]_vars => [Contract!Next]_(Contract!vars)
  <2> SUFFICES ASSUME IInv, [Next]_vars
               PROVE  Contract!Next \/ UNCHANGED Contract!vars
    OBVIOUS
  <2> USE DEF server, inbox, Contract!vars
  <2>1. ASSUME NEW a \in Attempts, CloseFailed(a, "timedout") \/ CloseFailed(a, says[a]),
               srv = "running", UNCHANGED fired
        PROVE  Contract!Next \/ UNCHANGED Contract!vars
    BY <2>1 DEF CloseFailed, Contract!Next, Contract!GiveUp
  <2>2. CASE Dispatch
    BY <2>2 DEF Dispatch
  <2>3. CASE Timeout
    BY <2>1, <2>3 DEF Timeout, IInv, Serial
  <2>4. CASE ExpireSlot \/ SchedulerRestart
    BY <2>4 DEF ExpireSlot, SchedulerRestart
  <2>5. ASSUME NEW a \in Attempts, Fire(a)
        PROVE  Contract!Next \/ UNCHANGED Contract!vars
    <3>1. Contract!Perform(a)
      BY <2>5 DEF Fire, Contract!Perform
    <3> QED BY <3>1 DEF Contract!Next
  <2>6. ASSUME NEW a \in Attempts, Report(a)
        PROVE  Contract!Next \/ UNCHANGED Contract!vars
    <3>1. CASE srv = "running" /\ a = cur /\ says[a] = "ok"
      <4>1. res[a] \in fired /\ res[a] \in Attempts
        BY <3>1 DEF IInv, TypeOK, Provenance
      <4>2. Contract!Deliver(res[a])
        BY <2>6, <3>1, <4>1 DEF Report, Contract!Deliver
      <4> QED BY <4>1, <4>2 DEF Contract!Next
    <3>2. CASE srv = "running" /\ a = cur /\ says[a] # "ok"
      BY <2>1, <2>6, <3>2 DEF Report
    <3>3. CASE ~(srv = "running" /\ a = cur)
      BY <2>6, <3>3 DEF Report
    <3> QED BY <3>1, <3>2, <3>3
  <2>7. ASSUME NEW a \in Attempts, Admission(a)
        PROVE  UNCHANGED Contract!vars
    BY <2>7 DEF Admission, AdmitGranted, AdmitOpen, AdmitRefused
  <2>8. ASSUME NEW a \in Attempts, Guard(a)
        PROVE  UNCHANGED Contract!vars
    BY <2>8 DEF Guard, GuardHit, GuardPass, Store
  <2>9. ASSUME NEW a \in Attempts, EffectOk(a) \/ EffectNodeError(a) \/ Raise(a)
        PROVE  UNCHANGED Contract!vars
    BY <2>9 DEF EffectOk, EffectNodeError, Raise
  <2>10. ASSUME NEW a \in Attempts, RecordCost(a) \/ Release(a) \/ Crash(a)
         PROVE  UNCHANGED Contract!vars
    BY <2>10 DEF RecordCost, Release, Crash
  <2>11. CASE UNCHANGED vars
    BY <2>11 DEF vars
  <2> QED
    BY <2>2, <2>3, <2>4, <2>5, <2>6, <2>7, <2>8, <2>9, <2>10, <2>11
       DEF Next, RunNode, Effect
<1> QED BY <1>1, <1>2, Inductive, PTL DEF Spec, ImplementsContract, Contract!Spec

=============================================================================
