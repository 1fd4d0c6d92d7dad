-------------------------- MODULE SchedulerProofs --------------------------
(***************************************************************************)
(* Proofs about the scheduler: Admission, for any set of nodes and runs,   *)
(* watermarks, budget, costs and retry policies; FairShare, for every set  *)
(* of tenants, weights, idle window and bounds; and PolicyReload, for any  *)
(* number of edits and any timestamps.  The three have no state in common, *)
(* so each has an inductive invariant of its own.                          *)
(***************************************************************************)
EXTENDS Admission, FairShare, PolicyReload, FiniteSetTheorems, TLAPS

(***************************************************************************)
(* Admission                                                               *)
(***************************************************************************)

\* The sets whose sizes the properties compare are finite, a running node's
\* execution is live, and no execution is numbered before it is dispatched.
Shape ==
  /\ IsFiniteSet(live)
  /\ \A n \in Nodes : cur[n] = "running" => Current(n) \in live

\* What a run cost and the engine does not count was spent before a restart, one
\* allowance at most in each process, or never reported.
Accounted ==
  Limit # 0 =>
    \A r \in Runs :
      incurred[r] <= spend[r] + restarts * Allowance(r) + MaxCost * silent[r]

IInv ==
  /\ TypeOK
  /\ Shape
  /\ DepthAtMostHard
  /\ BulkLeavesRoom
  /\ BoundedOvershoot
  /\ Accounted

USE RunsAssumption, NodesAreFinite, WatermarkAssumption, BudgetAssumption,
    AttemptsAssumption

------------------------------------------------------------------------------
(* Sizes *)

\* The entries are a finite set, as nodes are.
LEMMA EntriesAreFinite == ASSUME entries \subseteq Nodes PROVE IsFiniteSet(entries)
  BY FS_Subset

\* Removing an execution of run r makes r smaller by one and no other run.
LEMMA RemoveExecution ==
  ASSUME NEW S, IsFiniteSet(S), NEW e \in S, NEW r
  PROVE  /\ Cardinality(OfRun(S, r)) \in Nat
         /\ Cardinality(OfRun(S \ {e}, r)) \in Nat
         /\ RunOf[e[1]] = r
              => Cardinality(OfRun(S \ {e}, r)) = Cardinality(OfRun(S, r)) - 1
         /\ RunOf[e[1]] # r
              => Cardinality(OfRun(S \ {e}, r)) = Cardinality(OfRun(S, r))
<1>1. IsFiniteSet(OfRun(S, r)) /\ IsFiniteSet(OfRun(S \ {e}, r))
  <2>1. OfRun(S, r) \subseteq S /\ OfRun(S \ {e}, r) \subseteq S
    BY DEF OfRun
  <2> QED BY <2>1, FS_Subset
<1>2. Cardinality(OfRun(S, r)) \in Nat /\ Cardinality(OfRun(S \ {e}, r)) \in Nat
  BY <1>1, FS_CardinalityType
<1>3. CASE RunOf[e[1]] = r
  <2>1. OfRun(S \ {e}, r) = OfRun(S, r) \ {e} /\ e \in OfRun(S, r)
    BY <1>3 DEF OfRun
  <2>2. Cardinality(OfRun(S, r) \ {e}) = Cardinality(OfRun(S, r)) - 1
    BY <1>1, <2>1, FS_RemoveElement
  <2> QED BY <1>2, <1>3, <2>1, <2>2
<1>4. CASE RunOf[e[1]] # r
  <2>1. OfRun(S \ {e}, r) = OfRun(S, r)
    BY <1>4 DEF OfRun
  <2> QED BY <1>2, <1>4, <2>1
<1> QED BY <1>2, <1>3, <1>4

\* Adding a new execution of run r makes r larger by one and no other run.
LEMMA AddExecution ==
  ASSUME NEW S, IsFiniteSet(S), NEW e, e \notin S, NEW r
  PROVE  /\ Cardinality(OfRun(S, r)) \in Nat
         /\ Cardinality(OfRun(S \cup {e}, r)) \in Nat
         /\ RunOf[e[1]] = r
              => Cardinality(OfRun(S \cup {e}, r)) = Cardinality(OfRun(S, r)) + 1
         /\ RunOf[e[1]] # r
              => Cardinality(OfRun(S \cup {e}, r)) = Cardinality(OfRun(S, r))
<1> DEFINE T == S \cup {e}
<1>1. IsFiniteSet(T) /\ e \in T /\ T \ {e} = S
  BY FS_AddElement
<1> HIDE DEF T
<1>2. /\ Cardinality(OfRun(T, r)) \in Nat
      /\ Cardinality(OfRun(S, r)) \in Nat
      /\ RunOf[e[1]] = r
           => Cardinality(OfRun(S, r)) = Cardinality(OfRun(T, r)) - 1
      /\ RunOf[e[1]] # r
           => Cardinality(OfRun(S, r)) = Cardinality(OfRun(T, r))
  BY <1>1, RemoveExecution
<1>3. /\ Cardinality(OfRun(T, r)) \in Nat
      /\ RunOf[e[1]] = r
           => Cardinality(OfRun(T, r)) = Cardinality(OfRun(S, r)) + 1
      /\ RunOf[e[1]] # r
           => Cardinality(OfRun(T, r)) = Cardinality(OfRun(S, r))
  BY <1>2
<1> QED BY <1>2, <1>3 DEF T

------------------------------------------------------------------------------
(* The invariant *)

LEMMA InitIInv == Init => IInv
<1> SUFFICES ASSUME Init PROVE IInv
  OBVIOUS
<1>1. TypeOK /\ Shape
  BY FS_EmptySet DEF Init, TypeOK, Shape
<1>2. DepthAtMostHard /\ BulkLeavesRoom
  <2>1. entries \ Urgent = {}
    BY DEF Init
  <2> QED BY <2>1, FS_EmptySet DEF Init, DepthAtMostHard, BulkLeavesRoom, Depth
<1>3. BoundedOvershoot
  <2>1. \A r \in Runs : OfRun(live, r) = {}
    BY DEF Init, OfRun
  <2>2. \A r \in Runs : Outstanding(r) = 0
    BY <2>1, FS_EmptySet DEF Outstanding
  <2> QED BY <2>2 DEF Init, BoundedOvershoot, Allowance
<1>4. Accounted
  BY DEF Init, Accounted, Allowance
<1> QED BY <1>1, <1>2, <1>3, <1>4 DEF IInv

LEMMA TypeStep == IInv /\ [Next]_vars => TypeOK'
<1> SUFFICES ASSUME IInv, [Next]_vars PROVE TypeOK'
  OBVIOUS
<1> USE DEF IInv, TypeOK, history, costs
<1>1. CASE Restart
  BY <1>1 DEF Restart
<1>2. ASSUME NEW n \in Nodes, Asks(n) \/ Ends(n) \/ Expire(n) PROVE TypeOK'
  <2>1. CASE Admit(n)
    <3>1. OfRun(live, RunOf[n]) \subseteq live /\ IsFiniteSet(live)
      BY DEF OfRun, Shape
    <3>2. Outstanding(RunOf[n]) + 1 \in Nat
      <4>1. IsFiniteSet(OfRun(live, RunOf[n]))
        BY <3>1, FS_Subset
      <4> QED BY <4>1, FS_CardinalityType DEF Outstanding
    <3>3. crowd' \in [Runs -> Nat]
      BY <2>1, <3>2 DEF Admit
    <3>4. /\ cur' \in [Nodes -> {"idle", "running", "over"}]
          /\ attempts' \in [Nodes -> Nat]
          /\ \A m \in Nodes : attempts'[m] <= MaxAttempts[m]
          /\ \A e \in live' : e[1] \in Nodes /\ e[2] \in 1 .. attempts'[e[1]]
      BY <2>1 DEF Admit, MayAsk, Starts
    <3> QED BY <2>1, <3>3, <3>4 DEF Admit
  <2>2. CASE AdmitUnanswered(n)
    BY <2>2 DEF AdmitUnanswered, MayAsk, Starts
  <2>3. CASE Reject(n) \/ Defer(n)
    BY <2>3 DEF Reject, Defer, MayAsk
  <2>4. CASE Finish(n)
    BY <2>4 DEF Finish, Closes, Reported, Unreported, Completed
  <2>5. CASE NodeFails(n)
    BY <2>5 DEF NodeFails, Closes, ReportedFailed, Completed
  <2>6. CASE Dies(n) \/ Overtaken(n)
    BY <2>6 DEF Dies, Overtaken, Closes, Unreported
  <2>7. CASE LateEnds(n)
    BY <2>7 DEF LateEnds, Reported, Unreported, ReportedFailed, Completed
  <2>8. CASE Expire(n)
    BY <2>8 DEF Expire
  <2> QED BY <1>2, <2>1, <2>2, <2>3, <2>4, <2>5, <2>6, <2>7, <2>8 DEF Asks, Ends
<1>3. CASE UNCHANGED vars
  BY <1>3 DEF vars
<1> QED BY <1>1, <1>2, <1>3 DEF Next

LEMMA ShapeStep == IInv /\ [Next]_vars => Shape'
<1> SUFFICES ASSUME IInv, [Next]_vars PROVE Shape'
  OBVIOUS
<1> USE DEF IInv, TypeOK, Shape, Current, history
<1>1. ASSUME NEW n \in Nodes, Asks(n) PROVE Shape'
  <2>1. CASE Admit(n) \/ AdmitUnanswered(n)
    <3>1. /\ cur' = [cur EXCEPT ![n] = "running"]
          /\ attempts' = [attempts EXCEPT ![n] = @ + 1]
          /\ live' = live \cup {<<n, attempts[n] + 1>>}
      BY <2>1 DEF Admit, AdmitUnanswered, Starts
    <3>2. IsFiniteSet(live')
      BY <3>1, FS_AddElement
    <3>3. ASSUME NEW m \in Nodes, cur'[m] = "running" PROVE <<m, attempts'[m]>> \in live'
      BY <3>1, <3>3
    <3> QED BY <3>2, <3>3
  <2>2. CASE Reject(n)
    BY <2>2 DEF Reject
  <2>3. CASE Defer(n)
    BY <2>3 DEF Defer, MayAsk
  <2> QED BY <1>1, <2>1, <2>2, <2>3 DEF Asks
<1>2. ASSUME NEW n \in Nodes, Ends(n) PROVE Shape'
  <2>1. ASSUME NEW e, live' = live \ {e}, UNCHANGED attempts,
               \A m \in Nodes : cur'[m] = "running" => cur[m] = "running" /\ Current(m) # e
        PROVE  Shape'
    <3>1. IsFiniteSet(live')
      BY <2>1, FS_RemoveElement
    <3> QED BY <2>1, <3>1
  <2>2. CASE Finish(n) \/ NodeFails(n) \/ Dies(n)
    <3>1. PICK how \in {"idle", "over"} : Closes(n, how)
      BY <2>2 DEF Finish, NodeFails, Dies
    <3>2. \A m \in Nodes : cur'[m] = "running" => cur[m] = "running" /\ Current(m) # Current(n)
      BY <3>1 DEF Closes
    <3> QED BY <2>1, <2>2, <3>1, <3>2 DEF Finish, NodeFails, Dies, Closes
  <2>3. CASE Overtaken(n)
    BY <2>3 DEF Overtaken
  <2>4. CASE LateEnds(n)
    <3>1. PICK e \in live : /\ e[1] = n
                            /\ ~(cur[n] = "running" /\ e = Current(n))
                            /\ live' = live \ {e}
      BY <2>4 DEF LateEnds
    <3>2. \A m \in Nodes : cur'[m] = "running" => cur[m] = "running" /\ Current(m) # e
      BY <2>4, <3>1 DEF LateEnds
    <3> QED BY <2>1, <2>4, <3>1, <3>2 DEF LateEnds
  <2> QED BY <1>2, <2>2, <2>3, <2>4 DEF Ends
<1>3. CASE UNCHANGED vars \/ Restart \/ \E n \in Nodes : Expire(n)
  BY <1>3 DEF vars, Restart, Expire
<1> QED BY <1>1, <1>2, <1>3 DEF Next

------------------------------------------------------------------------------
(* The gauge *)

\* A step releases slots, or takes one below the watermarks.
LEMMA EntriesMove ==
  [Next]_vars => \/ entries' \subseteq entries
                 \/ \E n \in Nodes : BelowWatermark(n) /\ entries' = entries \cup {n}
<1> SUFFICES ASSUME [Next]_vars
             PROVE  \/ entries' \subseteq entries
                    \/ \E n \in Nodes : BelowWatermark(n) /\ entries' = entries \cup {n}
  OBVIOUS
<1>1. ASSUME NEW n \in Nodes, Asks(n)
      PROVE  \/ entries' \subseteq entries
             \/ BelowWatermark(n) /\ entries' = entries \cup {n}
  BY <1>1 DEF Asks, Admit, AdmitUnanswered, Reject, Defer
<1>2. ASSUME NEW n \in Nodes, Ends(n) \/ Expire(n) PROVE entries' \subseteq entries
  BY <1>2 DEF Ends, Finish, NodeFails, Dies, Overtaken, LateEnds, Reported, Unreported,
              ReportedFailed, Completed, Expire
<1>3. CASE Restart \/ UNCHANGED vars
  BY <1>3 DEF Restart, vars
<1> QED BY <1>1, <1>2, <1>3 DEF Next

LEMMA GaugeStep == IInv /\ [Next]_vars => DepthAtMostHard' /\ BulkLeavesRoom'
<1> SUFFICES ASSUME IInv, [Next]_vars PROVE DepthAtMostHard' /\ BulkLeavesRoom'
  OBVIOUS
<1> USE DEF IInv, TypeOK, DepthAtMostHard, BulkLeavesRoom, Depth
<1>1. IsFiniteSet(entries) /\ Cardinality(entries) \in Nat
  BY EntriesAreFinite, FS_CardinalityType
<1>2. IsFiniteSet(entries \ Urgent) /\ Cardinality(entries \ Urgent) \in Nat
  BY <1>1, FS_Subset, FS_CardinalityType
<1>3. CASE entries' \subseteq entries
  <2>1. Cardinality(entries') \in Nat /\ Cardinality(entries') <= Cardinality(entries)
    BY <1>1, <1>3, FS_Subset, FS_CardinalityType
  <2>2. entries' \ Urgent \subseteq entries \ Urgent
    BY <1>3
  <2>3. /\ Cardinality(entries' \ Urgent) \in Nat
        /\ Cardinality(entries' \ Urgent) <= Cardinality(entries \ Urgent)
    BY <1>2, <2>2, FS_Subset, FS_CardinalityType
  <2> QED BY <1>1, <1>2, <2>1, <2>3
<1>4. ASSUME NEW n \in Nodes, BelowWatermark(n), entries' = entries \cup {n}
      PROVE  DepthAtMostHard' /\ BulkLeavesRoom'
  <2>1. /\ IsFiniteSet(entries') /\ Cardinality(entries') \in Nat
        /\ Cardinality(entries') <= Cardinality(entries) + 1
    <3>1. /\ IsFiniteSet(entries')
          /\ Cardinality(entries')
               = IF n \in entries THEN Cardinality(entries) ELSE Cardinality(entries) + 1
      BY <1>1, <1>4, FS_AddElement
    <3> QED BY <1>1, <3>1
  <2>2. DepthAtMostHard'
    BY <1>1, <1>4, <2>1 DEF BelowWatermark
  <2>3. CASE n \in Urgent
    <3>1. entries' \ Urgent = entries \ Urgent
      BY <1>4, <2>3
    <3> QED BY <2>2, <3>1
  <2>4. CASE n \notin Urgent
    <3>1. /\ Cardinality(entries' \ Urgent) \in Nat
          /\ Cardinality(entries' \ Urgent) <= Cardinality(entries')
      BY <2>1, FS_Subset, FS_CardinalityType
    <3>2. Cardinality(entries) < Soft
      BY <1>4, <2>4 DEF BelowWatermark
    <3> QED BY <1>1, <2>1, <2>2, <3>1, <3>2
  <2> QED BY <2>3, <2>4
<1> QED BY <1>3, <1>4, EntriesMove

------------------------------------------------------------------------------
(* The budget *)

\* Execution e ends; it cost usd, of which rec is reported, and if something was
\* kept silent, that is counted.
Ended(e, usd, rec, hush) ==
  /\ e \in live /\ live' = live \ {e}
  /\ usd \in 0 .. MaxCost /\ rec \in {0, usd} /\ hush \in {0, 1}
  /\ rec = usd \/ hush = 1
  /\ spend' = [spend EXCEPT ![RunOf[e[1]]] = @ + rec]
  /\ incurred' = [incurred EXCEPT ![RunOf[e[1]]] = @ + usd]
  /\ silent' = [silent EXCEPT ![RunOf[e[1]]] = @ + hush]
  /\ UNCHANGED <<restarts, crowd, opened>>

\* Nobody is admitted and nobody ends.
Quiet == UNCHANGED <<spend, restarts, live, incurred, silent, crowd, opened>>

\* How spending, costs and live executions move together.
LEMMA MoneyMoves ==
  ASSUME IInv, [Next]_vars
  PROVE  \/ Quiet
         \/ Restart
         \/ \E n \in Nodes : Admit(n) \/ AdmitUnanswered(n)
         \/ \E e, usd, rec, hush : Ended(e, usd, rec, hush)
<1> USE DEF IInv, TypeOK, history, costs
<1>1. CASE UNCHANGED vars
  BY <1>1 DEF vars, Quiet
<1>2. ASSUME NEW n \in Nodes, Reject(n) \/ Defer(n) \/ Overtaken(n) \/ Expire(n)
      PROVE  Quiet
  BY <1>2 DEF Reject, Defer, Overtaken, Expire, Quiet
<1>3. ASSUME NEW n \in Nodes, NEW how, Closes(n, how)
      PROVE  Current(n) \in live /\ Current(n)[1] = n /\ live' = live \ {Current(n)}
  BY <1>3 DEF Closes, Shape, Current
<1>4. ASSUME NEW n \in Nodes, NEW e \in live, e[1] = n, live' = live \ {e},
             UNCHANGED <<restarts, crowd, opened>>,
             \/ Reported(n)
             \/ Unreported(n)
             \/ ReportedFailed(n)
             \/ UNCHANGED <<spend, costs>>
      PROVE  \E x, usd, rec, hush : Ended(x, usd, rec, hush)
  <2>1. CASE Reported(n)
    <3>1. PICK usd \in Costs : /\ incurred' = [incurred EXCEPT ![RunOf[n]] = @ + usd]
                               /\ Completed(n, usd) /\ UNCHANGED silent
      BY <2>1 DEF Reported
    <3>2. usd \in 0 .. MaxCost
      OBVIOUS
    <3>3. Ended(e, usd, usd, 0)
      BY <1>4, <3>1, <3>2 DEF Ended, Completed
    <3> QED BY <3>3
  <2>2. CASE Unreported(n)
    <3>1. PICK usd \in Costs \cup {0} :
            /\ incurred' = [incurred EXCEPT ![RunOf[n]] = @ + usd]
            /\ silent' = IF usd = 0 THEN silent ELSE [silent EXCEPT ![RunOf[n]] = @ + 1]
            /\ UNCHANGED spend
      BY <2>2 DEF Unreported
    <3>2. usd \in 0 .. MaxCost
      OBVIOUS
    <3>3. CASE usd = 0
      <4>1. Ended(e, usd, 0, 0)
        BY <1>4, <3>1, <3>2, <3>3 DEF Ended
      <4> QED BY <4>1
    <3>4. CASE usd # 0
      <4>1. Ended(e, usd, 0, 1)
        BY <1>4, <3>1, <3>2, <3>4 DEF Ended
      <4> QED BY <4>1
    <3> QED BY <3>3, <3>4
  <2>3. CASE ReportedFailed(n) \/ UNCHANGED <<spend, costs>>
    <3>1. Ended(e, 0, 0, 0)
      BY <1>4, <2>3 DEF Ended, Completed, ReportedFailed
    <3> QED BY <3>1
  <2> QED BY <1>4, <2>1, <2>2, <2>3
<1>5. ASSUME NEW n \in Nodes, Finish(n) \/ NodeFails(n) \/ Dies(n)
      PROVE  \E e, usd, rec, hush : Ended(e, usd, rec, hush)
  <2>1. PICK how : Closes(n, how)
    BY <1>5 DEF Finish, NodeFails, Dies
  <2>2. /\ UNCHANGED <<restarts, crowd, opened>>
        /\ \/ Reported(n)
           \/ Unreported(n)
           \/ ReportedFailed(n)
           \/ UNCHANGED <<spend, costs>>
    BY <1>5 DEF Finish, NodeFails, Dies
  <2> QED BY <1>3, <1>4, <2>1, <2>2
<1>6. ASSUME NEW n \in Nodes, LateEnds(n)
      PROVE  \E e, usd, rec, hush : Ended(e, usd, rec, hush)
  <2>1. PICK e \in live : e[1] = n /\ live' = live \ {e}
    BY <1>6 DEF LateEnds
  <2>2. /\ UNCHANGED <<restarts, crowd, opened>>
        /\ Reported(n) \/ Unreported(n) \/ ReportedFailed(n)
    BY <1>6 DEF LateEnds
  <2> QED BY <1>4, <2>1, <2>2
<1> QED BY <1>1, <1>2, <1>5, <1>6 DEF Next, Asks, Ends

\* Multiplication by MaxCost, for the linear solver.
LEMMA Times ==
  /\ \A k \in Nat : MaxCost * k \in Nat
  /\ \A k \in Nat : MaxCost * (k + 1) = MaxCost * k + MaxCost
  /\ \A j, k \in Nat : j <= k => MaxCost * j <= MaxCost * k
  OBVIOUS

LEMMA OvershootStep == IInv /\ [Next]_vars => BoundedOvershoot'
<1> SUFFICES ASSUME IInv, [Next]_vars, Limit # 0, NEW r \in Runs
             PROVE  spend'[r] + MaxCost * Outstanding(r)'
                      <= Limit + MaxCost * (crowd'[r] + opened'[r])
  BY DEF BoundedOvershoot, Allowance
<1> DEFINE out == Outstanding(r)
<1>1. TypeOK /\ TypeOK' /\ IsFiniteSet(live)
  BY TypeStep DEF IInv, Shape
<1>2. spend[r] + MaxCost * out <= Limit + MaxCost * (crowd[r] + opened[r])
  BY DEF IInv, BoundedOvershoot, Allowance
<1>3. out \in Nat
  <2>1. OfRun(live, r) \subseteq live
    BY DEF OfRun
  <2> QED BY <1>1, <2>1, FS_Subset, FS_CardinalityType DEF Outstanding
<1>4. CASE Quiet \/ Restart
  <2>1. /\ out' = out /\ spend'[r] <= spend[r] /\ UNCHANGED <<crowd, opened>>
    <3>1. live' = live /\ UNCHANGED <<crowd, opened>>
      BY <1>4 DEF Quiet, Restart, history
    <3>2. spend'[r] <= spend[r]
      BY <1>1, <1>4 DEF Quiet, Restart, TypeOK
    <3> QED BY <3>1, <3>2 DEF Outstanding, OfRun
  <2> HIDE DEF out
  <2>2. MaxCost * out \in Nat
    BY <1>3, Times
  <2> QED BY <1>1, <1>2, <2>1, <2>2 DEF TypeOK, out
<1>5. ASSUME NEW n \in Nodes, Admit(n) \/ AdmitUnanswered(n)
      PROVE  spend'[r] + MaxCost * out' <= Limit + MaxCost * (crowd'[r] + opened'[r])
  <2> DEFINE x == <<n, attempts[n] + 1>>
  <2>1. x \notin live /\ x[1] = n /\ live' = live \cup {x} /\ UNCHANGED spend
    BY <1>1, <1>5 DEF Admit, AdmitUnanswered, Starts, TypeOK
  <2>2. /\ out' \in Nat
        /\ RunOf[n] = r => out' = out + 1
        /\ RunOf[n] # r => out' = out
    <3> HIDE DEF x
    <3> QED BY <1>1, <2>1, AddExecution DEF Outstanding
  <2> HIDE DEF x, out
  <2>3. CASE RunOf[n] # r
    <3>1. crowd'[r] = crowd[r] /\ opened'[r] = opened[r]
      BY <1>1, <1>5, <2>3 DEF Admit, AdmitUnanswered, TypeOK
    <3> QED BY <1>2, <2>1, <2>2, <2>3, <3>1
  <2>4. CASE RunOf[n] = r /\ AdmitUnanswered(n)
    <3>1. crowd'[r] + opened'[r] = (crowd[r] + opened[r]) + 1 /\ crowd[r] + opened[r] \in Nat
      <4>1. crowd[r] \in Nat /\ opened[r] \in Nat /\ opened \in [Runs -> Nat]
        BY <1>1 DEF TypeOK
      <4>2. crowd' = crowd /\ opened' = [opened EXCEPT ![r] = @ + 1]
        BY <2>4 DEF AdmitUnanswered
      <4> QED BY <4>1, <4>2
    <3>2. MaxCost * (crowd'[r] + opened'[r]) = MaxCost * (crowd[r] + opened[r]) + MaxCost
      BY <3>1, Times
    <3>3. MaxCost * out' = MaxCost * out + MaxCost
      BY <1>3, <2>2, <2>4, Times
    <3>4. MaxCost * out \in Nat /\ MaxCost * (crowd[r] + opened[r]) \in Nat /\ spend[r] \in Nat
      BY <1>1, <1>3, <3>1, Times DEF TypeOK
    <3> QED BY <1>2, <2>1, <3>2, <3>3, <3>4
  <2>5. CASE RunOf[n] = r /\ Admit(n)
    <3>1. spend[r] <= Limit
      BY <2>5 DEF Admit, WithinBudget
    <3>2. out' <= crowd'[r]
      BY <1>1, <1>3, <2>2, <2>5 DEF Admit, TypeOK, out
    <3>3. crowd'[r] + opened'[r] \in Nat /\ out' <= crowd'[r] + opened'[r]
      BY <1>1, <2>2, <3>2 DEF TypeOK
    <3>4. MaxCost * out' <= MaxCost * (crowd'[r] + opened'[r])
      BY <2>2, <3>3, Times
    <3>5. MaxCost * out' \in Nat /\ MaxCost * (crowd'[r] + opened'[r]) \in Nat /\ spend[r] \in Nat
      BY <1>1, <2>2, <3>3, Times DEF TypeOK
    <3> QED BY <2>1, <3>1, <3>4, <3>5
  <2> QED BY <1>5, <2>3, <2>4, <2>5
<1>6. ASSUME NEW e, NEW usd, NEW rec, NEW hush, Ended(e, usd, rec, hush)
      PROVE  spend'[r] + MaxCost * out' <= Limit + MaxCost * (crowd'[r] + opened'[r])
  <2>1. /\ out' \in Nat
        /\ RunOf[e[1]] = r => out = out' + 1
        /\ RunOf[e[1]] # r => out' = out
    BY <1>1, <1>3, <1>6, RemoveExecution DEF Ended, Outstanding
  <2>2. /\ spend[r] \in Nat /\ rec \in Nat /\ rec <= MaxCost
        /\ spend'[r] = IF RunOf[e[1]] = r THEN spend[r] + rec ELSE spend[r]
        /\ UNCHANGED <<crowd, opened>>
    BY <1>1, <1>6 DEF Ended, TypeOK
  <2> HIDE DEF out
  <2>3. crowd[r] + opened[r] \in Nat /\ MaxCost * (crowd[r] + opened[r]) \in Nat
    BY <1>1, Times DEF TypeOK
  <2>4. CASE RunOf[e[1]] # r
    BY <1>2, <2>1, <2>2, <2>4
  <2>5. CASE RunOf[e[1]] = r
    <3>1. MaxCost * out = MaxCost * out' + MaxCost /\ MaxCost * out' \in Nat
      BY <2>1, <2>5, Times
    <3> QED BY <1>2, <2>2, <2>3, <2>5, <3>1
  <2> QED BY <2>4, <2>5
<1> QED BY <1>4, <1>5, <1>6, MoneyMoves

\* An allowance and what is added to it, times the processes it was given to.
LEMMA TimesProcesses ==
  /\ \A p, a \in Nat : p * a \in Nat /\ (p + 1) * a = p * a + a
  /\ \A p, a, c \in Nat : a <= c => p * a <= p * c
  OBVIOUS

LEMMA AllowanceIsNat == ASSUME TypeOK, NEW r \in Runs PROVE Allowance(r) \in Nat
<1>1. crowd[r] + opened[r] \in Nat
  BY DEF TypeOK
<1>2. MaxCost * (crowd[r] + opened[r]) \in Nat
  BY <1>1, Times
<1> QED BY <1>2 DEF Allowance

\* Admissions never lower an allowance.
LEMMA AllowanceGrows ==
  ASSUME IInv, NEW n \in Nodes, Admit(n) \/ AdmitUnanswered(n), TypeOK', NEW r \in Runs
  PROVE  Allowance(r) <= Allowance(r)'
<1>1. /\ crowd[r] + opened[r] \in Nat /\ crowd'[r] + opened'[r] \in Nat
      /\ crowd[r] + opened[r] <= crowd'[r] + opened'[r]
  BY DEF IInv, TypeOK, Admit, AdmitUnanswered
<1>2. MaxCost * (crowd[r] + opened[r]) <= MaxCost * (crowd'[r] + opened'[r])
  BY <1>1, Times
<1>3. MaxCost * (crowd[r] + opened[r]) \in Nat /\ MaxCost * (crowd'[r] + opened'[r]) \in Nat
  BY <1>1, Times
<1> QED BY <1>2, <1>3 DEF Allowance

LEMMA AccountedStep == IInv /\ [Next]_vars => Accounted'
<1> SUFFICES ASSUME IInv, [Next]_vars, Limit # 0, NEW r \in Runs
             PROVE  incurred'[r]
                      <= spend'[r] + restarts' * Allowance(r)' + MaxCost * silent'[r]
  BY DEF Accounted
<1> DEFINE al == Allowance(r)
<1>1. TypeOK /\ TypeOK'
  BY TypeStep DEF IInv
<1>2. incurred[r] <= spend[r] + restarts * al + MaxCost * silent[r]
  BY DEF IInv, Accounted
<1>3. /\ al \in Nat /\ al' \in Nat /\ restarts \in Nat /\ restarts' \in Nat
      /\ restarts * al \in Nat /\ MaxCost * silent[r] \in Nat
      /\ incurred[r] \in Nat /\ spend[r] \in Nat /\ silent[r] \in Nat
  <2>1. al \in Nat /\ restarts \in Nat /\ silent[r] \in Nat
    BY <1>1, AllowanceIsNat DEF TypeOK
  <2>2. al' \in Nat /\ restarts' \in Nat
    <3>1. crowd'[r] + opened'[r] \in Nat
      BY <1>1 DEF TypeOK
    <3>2. MaxCost * (crowd'[r] + opened'[r]) \in Nat
      BY <3>1, Times
    <3> QED BY <1>1, <3>2 DEF Allowance, TypeOK
  <2> HIDE DEF al
  <2> QED BY <1>1, <2>1, <2>2, Times, TimesProcesses DEF TypeOK
<1>4. CASE Quiet
  <2>1. al' = al
    BY <1>4 DEF Quiet, Allowance
  <2> HIDE DEF al
  <2> QED BY <1>2, <1>4, <2>1 DEF Quiet, al
<1>5. CASE Restart
  <2>1. al' = al /\ restarts' = restarts + 1 /\ spend'[r] = 0 /\ UNCHANGED <<incurred, silent>>
    BY <1>5 DEF Restart, Allowance, history, costs
  <2>2. spend[r] <= al
    <3>1. OfRun(live, r) \subseteq live
      BY DEF OfRun
    <3>2. Outstanding(r) \in Nat
      BY <3>1, FS_Subset, FS_CardinalityType DEF Outstanding, IInv, Shape
    <3>3. MaxCost * Outstanding(r) \in Nat
      BY <3>2, Times
    <3>4. spend[r] + MaxCost * Outstanding(r) <= al
      BY DEF IInv, BoundedOvershoot
    <3> HIDE DEF al
    <3> QED BY <1>3, <3>3, <3>4
  <2> HIDE DEF al
  <2>3. restarts' * al' = restarts * al + al
    BY <1>3, <2>1, TimesProcesses
  <2> QED BY <1>2, <1>3, <2>1, <2>2, <2>3 DEF al
<1>6. ASSUME NEW n \in Nodes, Admit(n) \/ AdmitUnanswered(n)
      PROVE  incurred'[r] <= spend'[r] + restarts' * al' + MaxCost * silent'[r]
  <2>1. al <= al' /\ UNCHANGED <<spend, restarts, incurred, silent>>
    BY <1>1, <1>6, AllowanceGrows DEF Admit, AdmitUnanswered, costs
  <2>2. restarts * al <= restarts * al' /\ restarts * al' \in Nat
    <3> HIDE DEF al
    <3> QED BY <1>3, <2>1, TimesProcesses
  <2>3. MaxCost * silent'[r] = MaxCost * silent[r]
    BY <2>1
  <2>4. incurred'[r] = incurred[r] /\ spend'[r] = spend[r] /\ restarts' * al' = restarts * al'
    BY <2>1
  <2> DEFINE hushed == MaxCost * silent[r]
             spent == restarts * al
             may == restarts * al'
  <2>5. incurred[r] <= spend[r] + spent + hushed /\ spent <= may
    BY <1>2, <2>2
  <2>6. incurred[r] \in Nat /\ spend[r] \in Nat /\ hushed \in Nat /\ spent \in Nat /\ may \in Nat
    BY <1>3, <2>2
  <2> HIDE DEF hushed, spent, may
  <2>7. incurred[r] <= spend[r] + may + hushed
    BY <2>5, <2>6
  <2> QED BY <2>3, <2>4, <2>7 DEF hushed, may
<1>7. ASSUME NEW e, NEW usd, NEW rec, NEW hush, Ended(e, usd, rec, hush)
      PROVE  incurred'[r] <= spend'[r] + restarts' * al' + MaxCost * silent'[r]
  <2>1. al' = al /\ restarts' = restarts
    BY <1>7 DEF Ended, Allowance
  <2>2. /\ usd \in Nat /\ usd <= MaxCost /\ hush \in {0, 1} /\ (rec = usd \/ (rec = 0 /\ hush = 1))
        /\ spend'[r] = IF RunOf[e[1]] = r THEN spend[r] + rec ELSE spend[r]
        /\ incurred'[r] = IF RunOf[e[1]] = r THEN incurred[r] + usd ELSE incurred[r]
        /\ silent'[r] = IF RunOf[e[1]] = r THEN silent[r] + hush ELSE silent[r]
    BY <1>1, <1>7 DEF Ended, TypeOK
  <2> HIDE DEF al
  <2>3. /\ MaxCost * silent'[r] \in Nat
        /\ hush = 1 /\ RunOf[e[1]] = r => MaxCost * silent'[r] = MaxCost * silent[r] + MaxCost
        /\ hush = 0 \/ RunOf[e[1]] # r => MaxCost * silent'[r] = MaxCost * silent[r]
    <3>1. CASE silent'[r] = silent[r] /\ (hush = 0 \/ RunOf[e[1]] # r)
      BY <1>3, <3>1
    <3>2. CASE silent'[r] = silent[r] + 1 /\ hush = 1 /\ RunOf[e[1]] = r
      BY <1>3, <3>2, Times
    <3> QED BY <1>3, <2>2, <3>1, <3>2
  <2> QED BY <1>2, <1>3, <2>1, <2>2, <2>3
<1> QED BY <1>4, <1>5, <1>6, <1>7, MoneyMoves

------------------------------------------------------------------------------
(* The theorems *)

LEMMA Inductive == Spec => []IInv
<1>1. IInv /\ [Next]_vars => IInv'
  BY TypeStep, ShapeStep, GaugeStep, OvershootStep, AccountedStep DEF IInv
<1> QED BY <1>1, InitIInv, PTL DEF Spec

\* The engine's gauge and ledger, and Temporal's attempts, keep their types: no
\* node is dispatched more often than its policy allows.
THEOREM TypeCorrect == Spec => []TypeOK
<1>1. IInv => TypeOK
  BY DEF IInv
<1> QED BY <1>1, Inductive, PTL

\* The gauge never passes the hard watermark, and bulk work never the soft one
\* (evaluate_backpressure).
THEOREM WatermarksHoldAlways == Spec => []WatermarksHold
<1>1. IInv => WatermarksHold
  BY DEF IInv, WatermarksHold
<1> QED BY <1>1, Inductive, PTL


\* However often its nodes are retried, a run passes its hard budget by at most
\* what the executions live together at an admission cost (check_budget).
THEOREM BoundedOvershootAlways == Spec => []BoundedOvershoot
<1>1. IInv => BoundedOvershoot
  BY DEF IInv
<1> QED BY <1>1, Inductive, PTL

\* What a run really costs is bounded by the budget over the scheduler's restarts
\* and lost reports (BudgetLedger, a process's memory; run_node's best effort).
THEOREM BudgetBindsCostAlways == Spec => []BudgetBindsCost
<1>1. ASSUME IInv, Limit # 0, NEW r \in Runs
      PROVE  incurred[r] + MaxCost * Outstanding(r)
               <= (restarts + 1) * Allowance(r) + MaxCost * silent[r]
  <2> DEFINE al == Allowance(r)
             due == MaxCost * Outstanding(r)
             hushed == MaxCost * silent[r]
  <2>1. incurred[r] <= spend[r] + restarts * al + hushed /\ spend[r] + due <= al
    BY <1>1 DEF IInv, Accounted, BoundedOvershoot
  <2>2. /\ al \in Nat /\ restarts \in Nat /\ incurred[r] \in Nat /\ spend[r] \in Nat
        /\ silent[r] \in Nat
    BY <1>1, AllowanceIsNat DEF IInv, TypeOK
  <2>3. due \in Nat
    <3>1. OfRun(live, r) \subseteq live
      BY DEF OfRun
    <3>2. Outstanding(r) \in Nat
      BY <1>1, <3>1, FS_Subset, FS_CardinalityType DEF Outstanding, IInv, Shape
    <3> QED BY <3>2, Times
  <2>4. hushed \in Nat
    BY <2>2, Times
  <2> HIDE DEF al, due, hushed
  <2>5. restarts * al \in Nat /\ (restarts + 1) * al = restarts * al + al
    BY <2>2, TimesProcesses
  <2>6. incurred[r] + due <= (restarts + 1) * al + hushed
    BY <2>1, <2>2, <2>3, <2>4, <2>5
  <2> QED BY <2>6 DEF al, due, hushed
<1>2. IInv => BudgetBindsCost
  BY <1>1 DEF BudgetBindsCost
<1> QED BY <1>2, Inductive, PTL

------------------------------------------------------------------------------
(***************************************************************************)
(* FairShare                                                               *)
(***************************************************************************)

\* The accounting behind ProportionalShare: t's lead in work received over u is
\* at most its lead on the clock, plus the two steps by which u's clock may have
\* been ahead when they met.
Share ==
  \A t, u \in active : lead[t][u] <= vt[t] - vt[u] + 2 * Step[u]

ShareInv == ShareTypeOK /\ ClocksStayClose /\ Share

USE StepAssumption, IdleAssumption, BoundAssumption

LEMMA ShareInitInv == ShareInit => ShareInv
  BY DEF ShareInit, ShareInv, ShareTypeOK, ClocksStayClose, Share

\* One request: t leaves with clock v, having received w units.  The clock is
\* never behind the front, and it moves exactly by what t received.
LEMMA AskedKeepsShareInv ==
  ASSUME ShareInv, NEW t \in Tenants, NEW base \in Bases, IsFront(base),
         NEW v \in Nat, NEW w \in Nat, Asked(t, v, w),
         v = Clock(t, base) + w,
         w = 0 \/ (w = Step[t] /\ MayProceed(t, base))
  PROVE  ShareTypeOK' => ShareInv'
<1> SUFFICES ASSUME ShareTypeOK' PROVE ClocksStayClose' /\ Share'
  BY DEF ShareInv
<1> USE DEF ShareTypeOK
<1>1. Kept \subseteq active /\ base \in Nat /\ active' = Kept \cup {t}
  BY DEF ShareInv, Kept, Bases, Asked
<1>2. /\ \A u \in Kept : base <= vt[u] /\ vt[u] <= base + 2 * Step[u]
      /\ \A x, y \in Kept : vt[x] <= vt[y] + 2 * Step[x]
  BY <1>1 DEF ShareInv, IsFront, ClocksStayClose
<1>3. /\ vt'[t] = v
      /\ \A u \in Kept : u # t => vt'[u] = vt[u]
  BY <1>1 DEF Asked
<1>4. /\ base <= Clock(t, base) /\ Clock(t, base) \in Nat
      /\ Clock(t, base) <= base + 2 * Step[t]
      /\ t \in Kept => Clock(t, base) = vt[t]
      /\ t \notin Kept => Clock(t, base) = base
  BY <1>1, <1>2 DEF ShareInv, Clock
<1>5. ClocksStayClose'
  <2> SUFFICES ASSUME NEW x \in active', NEW y \in active'
               PROVE  vt'[x] <= vt'[y] + 2 * Step[x]
    BY DEF ClocksStayClose
  <2>1. x \in Tenants /\ y \in Tenants /\ Step[x] \in Nat /\ Step[t] \in Nat
    BY <1>1 DEF ShareInv
  <2>2. base <= vt'[y] /\ vt'[y] \in Nat /\ base \in Nat
    <3>1. CASE y = t
      BY <1>1, <1>3, <1>4, <3>1
    <3>2. CASE y # t
      <4>1. y \in Kept /\ vt'[y] = vt[y] /\ vt[y] \in Nat
        BY <1>1, <1>3, <2>1, <3>2 DEF ShareInv
      <4> QED BY <1>1, <1>2, <4>1
    <3> QED BY <3>1, <3>2
  <2>3. CASE x = t /\ y = t
    <3>1. vt'[x] = vt'[y]
      BY <2>3
    <3> QED BY <2>1, <2>2, <3>1
  <2>4. CASE x = t /\ y # t
    <3>1. CASE w = 0
      BY <1>3, <1>4, <2>1, <2>2, <2>4, <3>1
    <3>2. CASE w = Step[t] /\ MayProceed(t, base)
      <4>1. Contended(t)
        BY <1>1, <2>4 DEF Contended
      <4> QED BY <1>3, <1>4, <2>1, <2>2, <2>4, <3>2, <4>1 DEF MayProceed
    <3> QED BY <3>1, <3>2
  <2>5. CASE x # t
    <3>1. x \in Kept /\ vt'[x] = vt[x] /\ vt[x] \in Nat
      BY <1>1, <1>3, <2>1, <2>5 DEF ShareInv
    <3> QED BY <1>2, <2>1, <2>2, <3>1
  <2> QED BY <2>3, <2>4, <2>5
<1>6. Share'
  <2> SUFFICES ASSUME NEW x \in active', NEW y \in active'
               PROVE  lead'[x][y] <= vt'[x] - vt'[y] + 2 * Step[y]
    BY DEF Share
  <2>1. x \in Tenants /\ y \in Tenants /\ Step[y] \in Nat
    BY <1>1 DEF ShareInv
  <2>2. x # y => lead'[x][y] = (IF {x, y} \subseteq Kept THEN lead[x][y] ELSE 0)
                                 + (IF x = t THEN w ELSE 0) - (IF y = t THEN w ELSE 0)
    BY <1>1, <2>1 DEF Asked
  <2>3. lead[x][y] \in Int /\ vt[x] \in Nat /\ vt[y] \in Nat
    BY <2>1 DEF ShareInv
  <2>4. /\ vt'[x] = (IF x = t THEN Clock(t, base) + w ELSE vt[x])
        /\ vt'[y] = (IF y = t THEN Clock(t, base) + w ELSE vt[y])
    BY <1>1, <1>3
  <2>0. CASE x = y
    <3>1. lead'[x][y] = 0 /\ vt'[x] \in Nat
      BY <1>1, <2>0, <2>1 DEF Asked
    <3> QED BY <2>0, <2>1, <3>1
  <2>5. CASE x # y /\ x \in Kept /\ y \in Kept
    <3>1. lead[x][y] <= vt[x] - vt[y] + 2 * Step[y]
      BY <1>1, <2>5 DEF ShareInv, Share
    <3> QED BY <1>4, <2>1, <2>2, <2>3, <2>4, <2>5, <3>1
  <2>6. CASE x # y /\ x \in Kept /\ y \notin Kept
    <3>1. y = t /\ x # t
      BY <1>1, <2>6
    <3> QED BY <1>2, <1>4, <2>1, <2>2, <2>3, <2>4, <2>6, <3>1
  <2>7. CASE x # y /\ x \notin Kept
    <3>1. x = t
      BY <1>1, <2>7
    <3>2. y \in Kept /\ vt[y] <= base + 2 * Step[y]
      BY <1>1, <1>2, <2>7, <3>1
    <3> QED BY <1>1, <1>4, <2>1, <2>2, <2>3, <2>4, <2>7, <3>1, <3>2
  <2> QED BY <2>0, <2>5, <2>6, <2>7
<1> QED BY <1>5, <1>6 DEF ShareInv

\* Types after one request.
LEMMA AskedKeepsTypes ==
  ASSUME ShareTypeOK, NEW t \in Tenants, NEW v \in Nat, NEW w \in Nat, Asked(t, v, w)
  PROVE  ShareTypeOK'
  BY DEF ShareTypeOK, Asked, Kept

LEMMA ClockIsNat ==
  ASSUME ShareTypeOK, NEW t \in Tenants, NEW base \in Bases PROVE Clock(t, base) \in Nat
  BY DEF ShareTypeOK, Bases, Clock

LEMMA ShareInvStep == ShareInv /\ [ShareNext]_shareVars => ShareInv'
<1> SUFFICES ASSUME ShareInv, [ShareNext]_shareVars PROVE ShareInv'
  OBVIOUS
<1>1. ASSUME NEW t \in Tenants, ShareAdmit(t) PROVE ShareInv'
  <2>1. PICK base \in Bases : /\ IsFront(base)
                              /\ MayProceed(t, base)
                              /\ Asked(t, Clock(t, base) + Step[t], Step[t])
    BY <1>1 DEF ShareAdmit
  <2>2. Clock(t, base) + Step[t] \in Nat /\ Step[t] \in Nat
    BY ClockIsNat DEF ShareInv
  <2>3. ShareTypeOK'
    BY <2>1, <2>2, AskedKeepsTypes DEF ShareInv, ShareTypeOK
  <2> QED BY <2>1, <2>2, <2>3, AskedKeepsShareInv
<1>2. ASSUME NEW t \in Tenants, RateLimited(t) \/ ShareDefer(t) PROVE ShareInv'
  <2>1. PICK base \in Bases : /\ IsFront(base)
                              /\ Asked(t, Clock(t, base), 0)
    BY <1>2 DEF RateLimited, ShareDefer
  <2>2. Clock(t, base) \in Nat /\ Clock(t, base) = Clock(t, base) + 0
    BY ClockIsNat DEF ShareInv
  <2>3. ShareTypeOK'
    BY <2>1, <2>2, AskedKeepsTypes DEF ShareInv, ShareTypeOK
  <2> QED BY <2>1, <2>2, <2>3, AskedKeepsShareInv
<1>3. CASE Snapshot
  <2>1. Kept \subseteq active
    BY DEF Kept
  <2>2. /\ active' = Kept
        /\ \A t \in Kept : vt'[t] = vt[t]
        /\ \A t, u \in Kept : lead'[t][u] = lead[t][u]
    BY <1>3, <2>1 DEF Snapshot, ShareInv, ShareTypeOK
  <2>3. ShareTypeOK'
    BY <1>3, <2>1 DEF Snapshot, ShareInv, ShareTypeOK
  <2> QED BY <2>1, <2>2, <2>3 DEF ShareInv, ClocksStayClose, Share
<1>4. CASE Tick
  BY <1>4 DEF Tick, ShareInv, ShareTypeOK, ClocksStayClose, Share
<1>5. CASE UNCHANGED shareVars
  BY <1>5 DEF shareVars, ShareInv, ShareTypeOK, ClocksStayClose, Share
<1> QED BY <1>1, <1>2, <1>3, <1>4, <1>5 DEF ShareNext

LEMMA ShareInductive == ShareSpec => []ShareInv
  BY ShareInitInv, ShareInvStep, PTL DEF ShareSpec

\* The virtual clocks and the active set keep their types.
THEOREM ShareTypeCorrect == ShareSpec => []ShareTypeOK
<1>1. ShareInv => ShareTypeOK
  BY DEF ShareInv
<1> QED BY <1>1, ShareInductive, PTL

\* No active clock is more than two own steps ahead of another (FairShare.admit).
THEOREM ClocksStayCloseAlways == ShareSpec => []ClocksStayClose
<1>1. ShareInv => ClocksStayClose
  BY DEF ShareInv
<1> QED BY <1>1, ShareInductive, PTL

\* Weighted fairness for any weights and any number of tenants: whatever the
\* others and the rate limiter do, the work two competing tenants receive
\* differs by at most two steps of each (FairShare.admit and refund).
THEOREM ProportionalShareAlways == ShareSpec => []ProportionalShare
<1>1. ShareInv => ProportionalShare
  <2> SUFFICES ASSUME ShareInv, NEW t \in active, NEW u \in active
               PROVE  lead[t][u] <= 2 * Step[t] + 2 * Step[u]
    BY DEF ProportionalShare
  <2>1. /\ lead[t][u] \in Int /\ vt[t] \in Nat /\ vt[u] \in Nat
        /\ Step[t] \in Nat /\ Step[u] \in Nat
    BY DEF ShareInv, ShareTypeOK
  <2>2. vt[t] <= vt[u] + 2 * Step[t]
    BY DEF ShareInv, ClocksStayClose
  <2>3. lead[t][u] <= vt[t] - vt[u] + 2 * Step[u]
    BY DEF ShareInv, Share
  <2> QED BY <2>1, <2>2, <2>3
<1> QED BY <1>1, ShareInductive, PTL

------------------------------------------------------------------------------
(***************************************************************************)
(* PolicyReload                                                            *)
(*                                                                         *)
(* Whether the policy is the file's cannot be seen from one state: the     *)
(* store compares timestamps, so the invariant ties timestamps to          *)
(* documents.                                                              *)
(***************************************************************************)

\* A file that is there has a timestamp, and a reload under way has its stat's.
Stamped ==
  /\ file.kind # "missing" => file.mtime # NoMtime
  /\ reload.busy => reload.mtime # NoMtime

\* What the store makes of a document whose timestamp it knows.
Known ==
  file.kind # "missing" /\ mtime = file.mtime =>
    \/ config = file.version
    \/ error /\ (file.kind = "good" => hiccup)

\* With nobody editing, the reload under way is of the document on disk ...
StatHolds ==
  reload.busy /\ quiet => file.kind # "missing" /\ reload.mtime = file.mtime

\* ... and after it the store knows that document's timestamp.
Followed ==
  ~reload.busy /\ quiet /\ decided = "policy" /\ file.kind # "missing" => mtime = file.mtime

PolicyInv == StoreTypeOK /\ Stamped /\ Known /\ StatHolds /\ Followed

\* The store starts in step with the file.
LEMMA PolicyInit == StoreInit => PolicyInv
<1> SUFFICES ASSUME StoreInit PROVE PolicyInv
  OBVIOUS
<1> USE EditsAssumption DEF StoreInit, NoReload, NoMtime
<1>1. PICK m \in Mtimes :
        file \in {[version |-> 1, kind |-> "good", mtime |-> m],
                 [version |-> 0, kind |-> "missing", mtime |-> NoMtime]}
  OBVIOUS
<1>2. file \in [version : Versions, kind : Kinds, mtime : Mtimes \cup {NoMtime}]
  BY <1>1 DEF Kinds, Versions
<1>3. StoreTypeOK
  BY <1>2 DEF StoreTypeOK, Versions
<1> QED
  BY <1>1, <1>3 DEF PolicyInv, Stamped, Known, StatHolds, Followed

\* Every edit leaves a timestamp that neither the store nor a reload holds, and
\* every load takes over the stat's timestamp with its result.
LEMMA PolicyStep == PolicyInv /\ [StoreNext]_storeVars => PolicyInv'
<1> SUFFICES ASSUME PolicyInv, [StoreNext]_storeVars PROVE PolicyInv'
  OBVIOUS
<1> USE EditsAssumption
    DEF PolicyInv, StoreTypeOK, Stamped, Known, StatHolds, Followed, NoReload, NoMtime, Kinds,
        Versions, store
<1>1. CASE Edit
  <2>1. PICK kind \in {"good", "invalid", "broken"},
             m \in Mtimes \ {file.mtime, mtime, reload.mtime} :
          file' = [version |-> file.version + 1, kind |-> kind, mtime |-> m]
    BY <1>1 DEF Edit
  <2>2. file.version < MaxEdits /\ quiet' = FALSE /\ hiccup' = FALSE
    BY <1>1 DEF Edit
  <2>3. UNCHANGED <<store, reload, decided>>
    BY <1>1 DEF Edit
  <2>4. file'.version = file.version + 1 /\ file'.kind = kind /\ file'.mtime = m
    BY <2>1
  <2>5. m # NoMtime /\ m # mtime /\ m # reload.mtime
    BY <2>1
  <2>6. file' \in [version : Versions, kind : Kinds, mtime : Mtimes \cup {NoMtime}]
    BY <2>1, <2>2
  <2>7. StoreTypeOK'
    BY <2>2, <2>3, <2>6
  <2> QED
    BY <2>2, <2>3, <2>4, <2>5, <2>7
<1>2. CASE Remove
  BY <1>2 DEF Remove
<1>3. CASE AdmitUnchanged
  BY <1>3 DEF AdmitUnchanged, Decide, Unmoved
<1>4. CASE StatMoved
  BY <1>4 DEF StatMoved, Unmoved
<1>5. CASE LoadGood
  BY <1>5 DEF LoadGood, Decide
<1>6. CASE LoadRefused
  BY <1>6 DEF LoadRefused, Decide
<1>7. CASE ReadFails
  BY <1>7 DEF ReadFails, Decide
<1>8. CASE LoadBroken
  BY <1>8 DEF LoadBroken, Decide
<1>9. CASE StoreRestart
  <2>1. StoreTypeOK'
    <3>1. config' \in {file.version, 0} /\ hiccup' \in BOOLEAN
      BY <1>9, Zenon DEF StoreRestart
    <3>2. error' \in BOOLEAN
      BY <1>9, Zenon DEF StoreRestart
    <3>3. mtime' \in Mtimes \cup {NoMtime} /\ (error' => mtime' # NoMtime)
      BY <1>9 DEF StoreRestart
    <3> QED
      BY <1>9, <3>1, <3>2, <3>3 DEF StoreRestart
  <2>2. Stamped' /\ Known'
    BY <1>9 DEF StoreRestart
  <2>3. StatHolds' /\ Followed'
    BY <1>9 DEF StoreRestart
  <2> QED
    BY <2>1, <2>2, <2>3
<1>10. CASE UNCHANGED storeVars
  BY <1>10 DEF storeVars
<1> QED
  BY <1>1, <1>2, <1>3, <1>4, <1>5, <1>6, <1>7, <1>8, <1>9, <1>10 DEF StoreNext, Admission

LEMMA PolicyInvariant == StoreSpec => []PolicyInv
<1>1. PolicyInv /\ [StoreNext]_storeVars => PolicyInv'
  BY PolicyStep
<1> QED
  BY PolicyInit, <1>1, PTL DEF StoreSpec

\* StoreTypeOK of the store and the file, for every number of edits.
THEOREM StoreTypeCorrect == StoreSpec => []StoreTypeOK
BY PolicyInvariant, PTL DEF PolicyInv

\* PolicyIsTheFile: an admission nobody edited into was decided by the document
\* on disk, or the error says that it was not (reload_if_changed).
THEOREM PolicyIsTheFileAlways == StoreSpec => []PolicyIsTheFile
<1>1. PolicyInv => PolicyIsTheFile
  BY DEF PolicyInv, StoreTypeOK, Known, Followed, PolicyIsTheFile
<1> QED
  BY PolicyInvariant, <1>1, PTL

\* LastGoodServes: until the process restarts, only a good document on disk
\* replaces the policy in force (reload_if_changed).
THEOREM LastGoodServesAlways == StoreSpec => LastGoodServes
<1> DEFINE Replaced ==
      config' # config /\ decided' # "none" => file.kind = "good" /\ config' = file.version
<1>1. [StoreNext]_storeVars => [Replaced]_storeVars
  BY DEF StoreNext, Admission, Edit, Remove, AdmitUnchanged, StatMoved, LoadGood, LoadRefused,
         ReadFails, LoadBroken, StoreRestart, Decide, store, storeVars
<1> QED
  BY <1>1, PTL DEF StoreSpec, LastGoodServes
=============================================================================
