------------------------ MODULE ProviderCallsProofs ------------------------
(***************************************************************************)
(* Proofs about TokenBucket, for every rate, burst and horizon, and about  *)
(* ProviderCalls: every call uses the bucket as TokenBucket says, so what  *)
(* is proved of the bucket holds of the calls, and from it what the        *)
(* provider sees of its own rate.                                          *)
(***************************************************************************)
EXTENDS ProviderCalls, TLAPS

------------------------------------------------------------------------------
(* The bucket *)

\* What was granted since s, plus what is left, never exceeds what the bucket
\* held at s and what it was refilled with up to its timestamp.
Level ==
  /\ ts <= now
  /\ \A s \in Times : s <= ts => since[s] + tokens <= Burst + Rate * (ts - s)
  /\ \A s \in Times : s > ts => since[s] = 0

IInv == TypeOK /\ Level

USE RateAssumption, WantsAssumption, SkewsAssumption, HorizonAssumption

LEMMA InitIInv == Init => IInv
  BY DEF Init, IInv, TypeOK, Level, Times, NoPromise

\* The level at time now, and what it has gained.
LEMMA AvailableIs ==
  ASSUME IInv
  PROVE  /\ Available(now) \in 0 .. Burst
         /\ Available(now) <= tokens + Rate * (now - ts)
         /\ Available(now) >= tokens
<1>1. tokens \in Nat /\ now \in Nat /\ ts \in Nat /\ ts <= now /\ tokens <= Burst
  BY DEF IInv, TypeOK, Level, Times
<1>2. Rate * (now - ts) \in Nat
  BY <1>1
<1>3. (IF now > ts THEN now - ts ELSE 0) = now - ts
  BY <1>1
<1> QED BY <1>1, <1>2, <1>3 DEF Available, AtMost

\* Both outcomes of a call at time now keep the accounting: want is granted, or
\* nothing is.
LEMMA CallKeepsLevel ==
  ASSUME IInv, NEW taken \in Nat, taken <= Available(now),
         tokens' = Available(now) - taken, ts' = now, now' = now,
         since' = [s \in Times |-> IF s <= now THEN since[s] + taken ELSE since[s]]
  PROVE  Level'
<1>1. tokens \in Nat /\ now \in Nat /\ ts \in Nat /\ ts <= now
  BY DEF IInv, TypeOK, Level, Times
<1>2. ASSUME NEW s \in Times, s <= now
      PROVE  since'[s] + tokens' <= Burst + Rate * (now - s)
  <2>1. s \in Nat /\ since[s] \in Nat /\ since'[s] = since[s] + taken
    BY <1>2 DEF IInv, TypeOK, Times
  <2>2. since'[s] + tokens' = since[s] + Available(now)
    BY <2>1, AvailableIs
  <2>3. CASE s <= ts
    <3>1. since[s] + tokens <= Burst + Rate * (ts - s)
      BY <2>3 DEF IInv, Level
    <3>2. Rate * (ts - s) + Rate * (now - ts) = Rate * (now - s)
      BY <1>1, <2>1
    <3>3. /\ Rate * (ts - s) \in Int /\ Rate * (now - ts) \in Int
          /\ Rate * (now - s) \in Int
      BY <1>1, <2>1
    <3>4. Available(now) \in Int /\ Available(now) <= tokens + Rate * (now - ts)
      BY AvailableIs
    <3>5. since[s] + Available(now) <= since[s] + tokens + Rate * (now - ts)
      BY <1>1, <2>1, <3>3, <3>4
    <3> HIDE DEF Times
    <3> QED BY <1>1, <2>1, <2>2, <3>1, <3>2, <3>3, <3>4, <3>5
  <2>4. CASE s > ts
    <3>1. since[s] = 0
      BY <2>4 DEF IInv, Level
    <3>2. Rate * (now - s) \in Nat
      BY <1>1, <1>2, <2>1
    <3> QED BY <2>2, <3>1, <3>2, AvailableIs
  <2> QED BY <1>1, <2>1, <2>3, <2>4
<1>3. ASSUME NEW s \in Times, s > now PROVE since'[s] = 0
  BY <1>1, <1>3 DEF IInv, Level, Times
<1> QED BY <1>1, <1>2, <1>3 DEF Level

LEMMA IInvStep == Skews = {0} /\ IInv /\ [Next]_vars => IInv'
<1> SUFFICES ASSUME Skews = {0}, IInv, [Next]_vars PROVE IInv'
  OBVIOUS
<1>1. now + 0 = now /\ now \in Nat
  BY DEF IInv, TypeOK, Times
<1>2. CASE Tick
  BY <1>1, <1>2 DEF Tick, IInv, TypeOK, Level, Times
<1>3. ASSUME NEW want \in Wants, Grant(want, now) PROVE IInv'
  <2>1. want \in Nat /\ want <= Available(now)
    BY <1>3, AvailableIs DEF Grant
  <2>2. Level'
    BY <1>3, <2>1, CallKeepsLevel DEF Grant
  <2>3. TypeOK'
    <3>1. Available(now) - want \in 0 .. Burst
      BY <2>1, AvailableIs
    <3>2. since' \in [Times -> Nat]
      BY <1>3, <2>1 DEF Grant, IInv, TypeOK
    <3> QED BY <1>1, <1>3, <3>1, <3>2 DEF Grant, IInv, TypeOK, NoPromise
  <2> QED BY <2>2, <2>3 DEF IInv
<1>4. ASSUME NEW want \in Wants, Refuse(want, now) PROVE IInv'
  <2>1. since' = [s \in Times |-> IF s <= now THEN since[s] + 0 ELSE since[s]]
    BY <1>4 DEF Refuse, IInv, TypeOK
  <2>2. tokens' = Available(now) - 0 /\ 0 <= Available(now)
    BY <1>4, AvailableIs DEF Refuse
  <2>3. Level'
    BY <1>4, <2>1, <2>2, CallKeepsLevel DEF Refuse
  <2>4. Wait(want - Available(now)) \in Nat
    <3> DEFINE missing == want - Available(now)
    <3>1. missing \in Nat
      BY <1>4, AvailableIs DEF Refuse
    <3>2. missing + Rate - 1 \in Nat
      BY <3>1
    <3> QED BY <3>2 DEF Wait
  <2>5. TypeOK'
    BY <1>1, <1>4, <2>4, AvailableIs DEF Refuse, IInv, TypeOK
  <2> QED BY <2>3, <2>5 DEF IInv
<1>5. CASE UNCHANGED vars
  BY <1>5 DEF vars, IInv, TypeOK, Level
<1> QED BY <1>1, <1>2, <1>3, <1>4, <1>5 DEF Next

\* With one clock, no window of any length ever lets more through than the burst
\* plus the sustained rate (refill_and_take).
THEOREM WithinRateAlways == ASSUME Skews = {0} PROVE Spec => []WithinRate
<1>1. IInv => WithinRate
  <2> SUFFICES ASSUME IInv, NEW s \in Times, s <= now
               PROVE  since[s] <= Burst + Rate * (now - s + 0)
    BY DEF WithinRate
  <2>1. tokens \in Nat /\ now \in Nat /\ ts \in Nat /\ ts <= now /\ s \in Nat
        /\ since[s] \in Nat
    BY DEF IInv, TypeOK, Level, Times
  <2>2. CASE s <= ts
    <3>1. since[s] + tokens <= Burst + Rate * (ts - s)
      BY <2>2 DEF IInv, Level
    <3>2. Rate * (ts - s) <= Rate * (now - s)
      BY <2>1, <2>2
    <3>3. Rate * (ts - s) \in Int /\ Rate * (now - s) \in Int /\ now - s + 0 = now - s
      BY <2>1
    <3> QED BY <2>1, <3>1, <3>2, <3>3
  <2>3. CASE s > ts
    <3>1. since[s] = 0
      BY <2>3 DEF IInv, Level
    <3>2. Rate * (now - s + 0) \in Nat
      BY <2>1
    <3> QED BY <3>1, <3>2
  <2> QED BY <2>1, <2>2, <2>3
<1> QED BY <1>1, InitIInv, IInvStep, PTL DEF Spec

\* A refusal nobody has overtaken points to the time at which what is missing
\* will have been refilled; of skewed callers too, as it counts from the bucket's
\* own timestamp.
Promised ==
  /\ now \in Nat /\ tokens \in 0 .. Burst /\ ts \in Nat
  /\ promise \in [want : Nat, due : Nat]
  /\ promise.want # 0 =>
       tokens < promise.want /\ promise.due = ts + Wait(promise.want - tokens)

LEMMA AvailableIsLevel ==
  ASSUME Promised, NEW t \in Nat
  PROVE  Available(t) \in 0 .. Burst
<1>1. tokens \in Nat /\ ts \in Nat /\ tokens <= Burst
  BY DEF Promised
<1>2. (IF t > ts THEN t - ts ELSE 0) \in Nat
  BY <1>1
<1>3. Rate * (IF t > ts THEN t - ts ELSE 0) \in Nat
  BY <1>2
<1> QED BY <1>1, <1>3 DEF Available, AtMost

\* Rounding up is enough, and never negative.
LEMMA WaitCovers ==
  ASSUME NEW missing \in Nat
  PROVE  Wait(missing) \in Nat /\ Rate * Wait(missing) >= missing
<1> DEFINE n == missing + Rate - 1
<1>1. n \in Nat /\ Rate \in Nat /\ Rate > 0
  OBVIOUS
<1>2. n \div Rate \in Nat
  BY <1>1
<1>3. n < Rate * (n \div Rate) + Rate
  BY <1>1, <1>2
<1> QED BY <1>1, <1>2, <1>3 DEF Wait

LEMMA PromiseStep == Promised /\ [Next]_vars => Promised'
<1> SUFFICES ASSUME Promised, [Next]_vars PROVE Promised'
  OBVIOUS
<1>1. CASE Tick
  BY <1>1 DEF Tick, Promised
<1>2. ASSUME NEW want \in Wants, NEW skew \in Skews, Grant(want, now + skew) PROVE Promised'
  <2>1. now + skew \in Nat /\ want \in Nat
    BY DEF Promised
  <2>2. Available(now + skew) - want \in 0 .. Burst
    BY <1>2, <2>1, AvailableIsLevel DEF Grant
  <2> QED BY <1>2, <2>1, <2>2 DEF Grant, Promised, NoPromise
<1>3. ASSUME NEW want \in Wants, NEW skew \in Skews, Refuse(want, now + skew) PROVE Promised'
  <2>1. now + skew \in Nat /\ want \in Nat
    BY DEF Promised
  <2>2. Available(now + skew) \in 0 .. Burst /\ Available(now + skew) < want
    BY <1>3, <2>1, AvailableIsLevel DEF Refuse
  <2>3. Wait(want - Available(now + skew)) \in Nat
    BY <2>1, <2>2, WaitCovers
  <2> QED BY <1>3, <2>1, <2>2, <2>3 DEF Refuse, Promised
<1>4. CASE UNCHANGED vars
  BY <1>4 DEF vars, Promised
<1> QED BY <1>1, <1>2, <1>3, <1>4 DEF Next

\* Who waits as told, and is not overtaken, finds enough tokens: with whatever
\* clocks, rates and demands (refill_and_take's retry_after).
THEOREM RetryAfterIsEnough == Spec => []RetryAfterSuffices
<1>1. Init => Promised
  BY DEF Init, Promised, NoPromise
<1>2. Promised => RetryAfterSuffices
  <2> SUFFICES ASSUME Promised, promise.want \in 1 .. Burst, now >= promise.due
               PROVE  Available(now) >= promise.want
    BY DEF RetryAfterSuffices
  <2> DEFINE missing == promise.want - tokens
  <2>1. /\ missing \in Nat /\ tokens \in Nat /\ ts \in Nat /\ now \in Nat
        /\ promise.due = ts + Wait(missing) /\ promise.want <= Burst /\ promise.want \in Nat
    BY DEF Promised
  <2>2. Wait(missing) \in Nat /\ Rate * Wait(missing) >= missing
    BY <2>1, WaitCovers
  <2> HIDE DEF missing
  <2>3. now - ts \in Nat /\ now - ts >= Wait(missing)
    BY <2>1, <2>2
  <2>4. Rate * (now - ts) >= Rate * Wait(missing)
    BY <2>2, <2>3
  <2>5. Rate * (now - ts) \in Nat /\ Rate * Wait(missing) \in Nat
    BY <2>2, <2>3
  <2>6. (IF now > ts THEN now - ts ELSE 0) = now - ts
    BY <2>1, <2>3
  <2>7. tokens + Rate * (now - ts) >= promise.want
    BY <2>1, <2>2, <2>4, <2>5 DEF missing
  <2> QED BY <2>1, <2>5, <2>6, <2>7 DEF Available, AtMost
<1> QED BY <1>1, <1>2, PromiseStep, PTL DEF Spec

------------------------------------------------------------------------------
(* The calls *)

\* What is owed since a time is less the later that time is.
Pending ==
  /\ owed \in [Times -> Nat]
  /\ \A s, t \in Times : s <= t => owed[t] <= owed[s]

\* What an admitted attempt is to send is owed.
Own == at = "admitted" => begun \in Times /\ begun <= now /\ OwedAt(begun) >= 1

\* The requests since s were let through at or after t, if no request took longer
\* than from t to s: so what the bucket granted since t, and the verdicts that
\* went unheard, account for them and for what is owed since t.  Without what is
\* owed, a late request would have nothing to be charged to.
Covered ==
  1 \in call.rated => \A s, t \in Times :
    t = 0 \/ t + slowest <= s => asked[s] + owed[t] <= since[t] + unheard

Shares ==
  /\ call \in Calls
  /\ asked \in [Times -> Nat] /\ slowest \in Nat /\ unheard \in Nat
  /\ Pending /\ Own /\ Covered

\* What others ask of the bucket is what it is asked for.
LEMMA WantsKnown ==
  1 \in Wants /\ (call \in Calls => call.others \subseteq Wants) /\ Wants \subseteq Nat
  BY CallAssumption, OneToken, WantsAssumption

\* Every step of a call is a step of the bucket, or leaves it alone.
LEMMA BucketStep == call \in Calls /\ [CallNext]_allVars => [Next]_vars
<1> SUFFICES ASSUME call \in Calls, [CallNext]_allVars PROVE [Next]_vars
  OBVIOUS
<1>1. CASE Reject \/ Request \/ Succeed \/ Die \/ GiveUpAttempt \/ GiveUpCall
  BY <1>1 DEF Reject, Request, Succeed, Die, GiveUpAttempt, GiveUpCall
<1>2. CASE Pass
  BY <1>2 DEF Pass, Next
<1>3. ASSUME NEW skew \in Skews, Admit(skew) \/ Defer(skew) \/ FailOpen(skew)
      PROVE  [Next]_vars
  BY <1>3, WantsKnown DEF Admit, Defer, FailOpen, Next
<1>4. ASSUME NEW skew \in Skews, NEW want \in call.others, Other(want, skew)
      PROVE  [Next]_vars
  <2>1. want \in Wants
    BY <1>4, WantsKnown
  <2> QED BY <1>4, <2>1 DEF Other, Next
<1>5. ASSUME NEW event \in call.chain[link],
             FallBack(event) \/ FailTransiently(event) \/ FailForGood(event)
      PROVE  [Next]_vars
  BY <1>5 DEF FallBack, FailTransiently, FailForGood
<1>6. CASE UNCHANGED allVars
  BY <1>6 DEF allVars
<1>7. ASSUME NEW t \in 0 .. now, NEW n \in call.late, LateRequests(t, n) PROVE [Next]_vars
  BY <1>7 DEF LateRequests
<1> QED BY <1>1, <1>2, <1>3, <1>4, <1>5, <1>6, <1>7 DEF CallNext

\* What was let through at a time and is owed is a number.
LEMMA OwedIsNat ==
  ASSUME Pending, NEW t \in Times
  PROVE  OwedAt(t) \in Nat
<1>1. CASE t < Horizon
  <2>1. t + 1 \in Times /\ t <= t + 1
    BY <1>1 DEF Times
  <2>2. owed[t + 1] <= owed[t] /\ owed[t] \in Nat /\ owed[t + 1] \in Nat
    BY <2>1 DEF Pending
  <2> QED BY <1>1, <2>2 DEF OwedAt
<1>2. CASE ~(t < Horizon)
  BY <1>2 DEF Pending, OwedAt
<1> QED BY <1>1, <1>2

\* n requests are let through now.
LEMMA OweKeepsPending ==
  ASSUME IInv, Pending, NEW n \in Nat, Owe(n)
  PROVE  Pending' /\ \A t \in Times : OwedAt(t)' = OwedAt(t) + IF t = now THEN n ELSE 0
<1>1. now \in Nat /\ Times \subseteq Nat /\ owed \in [Times -> Nat]
  BY DEF IInv, TypeOK, Times, Pending
<1>2. owed' \in [Times -> Nat]
  BY <1>1 DEF Owe
<1>3. \A s \in Times : owed'[s] = IF s <= now THEN owed[s] + n ELSE owed[s]
  BY DEF Owe
<1>4. ASSUME NEW s \in Times, NEW t \in Times, s <= t PROVE owed'[t] <= owed'[s]
  <2>1. owed[t] <= owed[s] /\ owed[s] \in Nat /\ owed[t] \in Nat /\ s \in Nat /\ t \in Nat
    BY <1>1, <1>4 DEF Pending
  <2> QED BY <1>1, <1>3, <1>4, <2>1
<1>5. ASSUME NEW t \in Times
      PROVE  OwedAt(t)' = OwedAt(t) + IF t = now THEN n ELSE 0
  <2>1. CASE t < Horizon
    <3>1. t + 1 \in Times /\ t \in Nat
      BY <2>1 DEF Times
    <3>2. owed[t] \in Nat /\ owed[t + 1] \in Nat
      BY <1>1, <3>1
    <3> QED BY <1>1, <1>3, <2>1, <3>1, <3>2 DEF OwedAt
  <2>2. CASE ~(t < Horizon)
    <3>1. t = Horizon /\ now <= Horizon /\ owed[t] \in Nat
      BY <1>1, <2>2 DEF Times, IInv, TypeOK
    <3> QED BY <1>1, <1>3, <2>2, <3>1 DEF OwedAt
  <2> QED BY <2>1, <2>2
<1> QED BY <1>2, <1>4, <1>5 DEF Pending

\* n requests of those let through at t are sent, or lost.
LEMMA SettleKeepsPending ==
  ASSUME Pending, NEW t \in Times, NEW n \in Nat, n <= OwedAt(t), Settle(t, n)
  PROVE  /\ Pending'
         /\ \A s \in Times : owed'[s] = IF s <= t THEN owed[s] - n ELSE owed[s]
         /\ \A u \in Times : OwedAt(u)' = OwedAt(u) - IF u = t THEN n ELSE 0
<1>1. Times \subseteq Nat /\ owed \in [Times -> Nat] /\ t \in Nat
  BY DEF Times, Pending
<1>2. \A s \in Times : owed'[s] = IF s <= t THEN owed[s] - n ELSE owed[s]
  BY DEF Settle
<1>3. \A u \in Times : u > t => n + owed[u] <= owed[t]
  <2> SUFFICES ASSUME NEW u \in Times, u > t PROVE n + owed[u] <= owed[t]
    OBVIOUS
  <2>1. t + 1 \in Times /\ t < Horizon /\ t + 1 <= u
    BY <1>1 DEF Times
  <2>2. owed[u] <= owed[t + 1] /\ owed[u] \in Nat /\ owed[t + 1] \in Nat /\ owed[t] \in Nat
    BY <1>1, <2>1 DEF Pending
  <2> QED BY <2>1, <2>2 DEF OwedAt
<1>4. n <= owed[t]
  <2>1. CASE t < Horizon
    <3>1. t + 1 \in Times
      BY <1>1, <2>1 DEF Times
    <3> QED BY <1>1, <2>1, <3>1 DEF OwedAt
  <2>2. CASE ~(t < Horizon)
    BY <1>1, <2>2 DEF OwedAt
  <2> QED BY <2>1, <2>2
<1>5. \A s \in Times : s <= t => n <= owed[s] /\ owed[s] - n \in Nat
  <2> SUFFICES ASSUME NEW s \in Times, s <= t PROVE n <= owed[s]
    BY <1>1
  <2>1. owed[t] <= owed[s] /\ owed[t] \in Nat /\ owed[s] \in Nat
    BY <1>1 DEF Pending
  <2> QED BY <1>4, <2>1
<1>6. owed' \in [Times -> Nat]
  BY <1>1, <1>5 DEF Settle
<1>7. ASSUME NEW s \in Times, NEW u \in Times, s <= u PROVE owed'[u] <= owed'[s]
  <2>1. owed[u] <= owed[s] /\ owed[u] \in Nat /\ owed[s] \in Nat /\ owed[t] \in Nat
    BY <1>1, <1>7 DEF Pending
  <2>2. s <= t => owed[t] <= owed[s]
    BY DEF Pending
  <2> QED BY <1>1, <1>2, <1>3, <1>7, <2>1, <2>2
<1>8. ASSUME NEW u \in Times
      PROVE  OwedAt(u)' = OwedAt(u) - IF u = t THEN n ELSE 0
  <2>1. CASE u < Horizon
    <3>1. u + 1 \in Times /\ u \in Nat
      BY <1>1, <2>1 DEF Times
    <3>2. owed[u] \in Nat /\ owed[u + 1] \in Nat
      BY <1>1, <3>1
    <3> QED BY <1>1, <1>2, <2>1, <3>1, <3>2 DEF OwedAt
  <2>2. CASE ~(u < Horizon)
    <3>1. u = Horizon /\ t <= u /\ owed[u] \in Nat
      BY <1>1, <2>2 DEF Times
    <3> QED BY <1>1, <1>2, <2>2, <3>1 DEF OwedAt
  <2> QED BY <2>1, <2>2
<1> QED BY <1>2, <1>6, <1>7, <1>8 DEF Pending

\* Requests are let through now, for as many tokens or without a verdict, by
\* another call or for the attempt that begins.
LEMMA LetThroughKeepsShares ==
  ASSUME IInv, Shares, NEW n \in Nat, Owe(n), call' = call, asked' = asked,
         slowest' = slowest, now' = now,
         \/ at' = at /\ begun' = begun
         \/ n = 1 /\ begun' = now,
         \/ 1 \notin call.rated /\ unheard' = unheard
         \/ /\ unheard' = unheard
            /\ since' = [s \in Times |-> IF s <= now THEN since[s] + n ELSE since[s]]
         \/ /\ n = 1 /\ unheard' = unheard + 1
            /\ \/ since' = since
               \/ since' = [s \in Times |-> IF s <= now THEN since[s] + 1 ELSE since[s]]
  PROVE  Shares'
<1>1. since \in [Times -> Nat] /\ now \in Times /\ now \in Nat /\ Times \subseteq Nat
  BY DEF IInv, TypeOK, Times
<1>2. Pending' /\ \A t \in Times : OwedAt(t)' = OwedAt(t) + IF t = now THEN n ELSE 0
  BY OweKeepsPending DEF Shares
<1>3. \A t \in Times : OwedAt(t) \in Nat
  BY OwedIsNat DEF Shares
<1>4. Own'
  <2>1. CASE at' = at /\ begun' = begun
    <3>1. ASSUME at = "admitted" PROVE begun \in Times /\ begun <= now /\ OwedAt(begun) >= 1
      BY <3>1 DEF Shares, Own
    <3>2. ASSUME at = "admitted" PROVE OwedAt(begun)' >= 1
      <4> DEFINE b == begun
      <4>1. b \in Times /\ b' = b
        BY <2>1, <3>1, <3>2
      <4> QED BY <1>2, <1>3, <2>1, <3>1, <3>2 DEF OwedAt
    <3> QED BY <2>1, <3>1, <3>2 DEF Own
  <2>2. CASE n = 1 /\ begun' = now
    <3>1. OwedAt(now)' >= 1
      BY <1>1, <1>2, <1>3, <2>2
    <3> QED BY <1>1, <2>2, <3>1 DEF Own, OwedAt
  <2> QED BY <2>1, <2>2
<1>5. Covered'
  <2> SUFFICES ASSUME 1 \in call.rated, NEW s \in Times, NEW t \in Times,
                      t = 0 \/ t + slowest <= s
               PROVE  asked[s] + owed'[t] <= since'[t] + unheard'
    BY DEF Covered
  <2>1. asked[s] + owed[t] <= since[t] + unheard
    BY DEF Shares, Covered
  <2>2. /\ asked[s] \in Nat /\ owed[t] \in Nat /\ since[t] \in Nat /\ unheard \in Nat
        /\ owed'[t] = IF t <= now THEN owed[t] + n ELSE owed[t]
    BY <1>1 DEF Shares, Pending, Owe
  <2>3. \/ unheard' = unheard /\ since'[t] = IF t <= now THEN since[t] + n ELSE since[t]
        \/ n = 1 /\ unheard' = unheard + 1 /\ since'[t] = since[t]
        \/ /\ n = 1 /\ unheard' = unheard + 1
           /\ since'[t] = IF t <= now THEN since[t] + 1 ELSE since[t]
    OBVIOUS
  <2> QED BY <1>1, <2>1, <2>2, <2>3
<1>6. unheard' \in Nat
  BY DEF Shares
<1> QED BY <1>2, <1>4, <1>5, <1>6 DEF Shares

\* Requests let through at t are sent: whoever looks at a window that begins
\* after the slowest of them counts them among what was let through since t.
LEMMA SentKeepsShares ==
  ASSUME IInv, Shares, NEW t \in Times, t <= now, NEW n \in Nat, n <= OwedAt(t), Send(t, n),
         call' = call, since' = since, unheard' = unheard, now' = now,
         \/ at' # "admitted"
         \/ at' = at /\ begun' = begun /\ (begun = t => n + 1 <= OwedAt(t))
  PROVE  Shares'
<1>1. since \in [Times -> Nat] /\ now \in Nat /\ Times \subseteq Nat /\ t \in Nat
  BY DEF IInv, TypeOK, Times
<1>2. /\ Pending'
      /\ \A s \in Times : owed'[s] = IF s <= t THEN owed[s] - n ELSE owed[s]
      /\ \A u \in Times : OwedAt(u)' = OwedAt(u) - IF u = t THEN n ELSE 0
  BY SettleKeepsPending DEF Shares, Send
<1>3. slowest' \in Nat /\ slowest' >= slowest /\ slowest' >= now - t
  BY <1>1 DEF Shares, Send
<1>4. Own'
  <2>1. CASE at' = at /\ begun' = begun /\ (begun = t => n + 1 <= OwedAt(t)) /\ at = "admitted"
    <3>1. begun \in Times /\ begun <= now /\ OwedAt(begun) >= 1 /\ OwedAt(begun) \in Nat
      BY <2>1, OwedIsNat DEF Shares, Own
    <3>2. owed'[begun] - (IF begun < Horizon THEN owed'[begun + 1] ELSE 0)
            = OwedAt(begun) - IF begun = t THEN n ELSE 0
      BY <1>2, <3>1 DEF OwedAt
    <3>3. OwedAt(begun)' >= 1
      BY <2>1, <3>1, <3>2 DEF OwedAt
    <3> QED BY <2>1, <3>1, <3>3 DEF Own
  <2> QED BY <2>1 DEF Own
<1>5. Covered'
  <2> SUFFICES ASSUME 1 \in call.rated, NEW s \in Times, NEW u \in Times,
                      u = 0 \/ u + slowest' <= s
               PROVE  asked'[s] + owed'[u] <= since[u] + unheard
    BY DEF Covered
  <2>1. s \in Nat /\ u \in Nat /\ slowest \in Nat
    BY <1>1 DEF Shares
  <2>2. asked[s] + owed[u] <= since[u] + unheard
    <3>1. slowest <= slowest' /\ slowest' \in Nat
      BY <1>3, <2>1
    <3>2. \A x, y \in Nat : x <= y /\ u + y <= s => u + x <= s
      BY <2>1
    <3>3. u = 0 \/ u + slowest <= s
      BY <2>1, <3>1, <3>2
    <3> QED BY <3>3 DEF Shares, Covered
  <2>3. /\ asked[s] \in Nat /\ owed[u] \in Nat /\ since[u] \in Nat /\ unheard \in Nat
        /\ asked'[s] = IF s <= now THEN asked[s] + n ELSE asked[s]
        /\ owed'[u] = IF u <= t THEN owed[u] - n ELSE owed[u]
    BY <1>1, <1>2 DEF Shares, Pending, Send
  <2>4. s <= now => u <= t
    <3>1. \A x \in Nat : s <= now /\ u + x <= s /\ x >= now - t => u <= t
      BY <1>1, <2>1
    <3>2. u = 0 => u <= t
      BY <1>1
    <3> QED BY <1>3, <3>1, <3>2
  <2> QED BY <2>1, <2>2, <2>3, <2>4
<1>6. asked' \in [Times -> Nat]
  BY <1>1 DEF Shares, Send
<1> QED BY <1>2, <1>3, <1>4, <1>5, <1>6 DEF Shares

\* A request that is lost with its worker.
LEMMA LostKeepsShares ==
  ASSUME IInv, Shares, at = "admitted", at' # "admitted", Settle(begun, 1),
         call' = call, asked' = asked, slowest' = slowest, since' = since, unheard' = unheard
  PROVE  Shares'
<1>1. begun \in Times /\ 1 <= OwedAt(begun) /\ Times \subseteq Nat
  BY DEF Shares, Own, Times
<1>2. OwedAt(begun) \in Nat
  BY <1>1, OwedIsNat DEF Shares
<1>3. Pending' /\ \A s \in Times : owed'[s] = IF s <= begun THEN owed[s] - 1 ELSE owed[s]
  BY <1>1, SettleKeepsPending DEF Shares
<1>4. Covered'
  <2> SUFFICES ASSUME 1 \in call.rated, NEW s \in Times, NEW t \in Times,
                      t = 0 \/ t + slowest <= s
               PROVE  asked[s] + owed'[t] <= since[t] + unheard
    BY DEF Covered
  <2>1. asked[s] + owed[t] <= since[t] + unheard
    BY DEF Shares, Covered
  <2>2. asked[s] \in Nat /\ owed[t] \in Nat /\ since[t] \in Nat /\ unheard \in Nat
    BY DEF Shares, Pending, IInv, TypeOK
  <2> QED BY <1>3, <2>1, <2>2
<1> QED BY <1>3, <1>4 DEF Shares, Own

\* A step that lets no request through and sends none.
LEMMA QuietKeepsShares ==
  ASSUME IInv, Shares, UNCHANGED <<requests, since, call, unheard>>, now' \in {now, now + 1},
         at' # "admitted" \/ (at' = at /\ begun' = begun)
  PROVE  Shares'
<1>1. UNCHANGED <<owed, asked, slowest>>
  BY DEF requests
<1>2. Pending' /\ Covered'
  BY <1>1 DEF Shares, Pending, Covered
<1>3. Own'
  BY <1>1 DEF IInv, TypeOK, Times, Shares, Own, OwedAt
<1> QED BY <1>1, <1>2, <1>3 DEF Shares

LEMMA SharesStep == IInv /\ Shares /\ [CallNext]_allVars => Shares'
<1> SUFFICES ASSUME IInv, Shares, [CallNext]_allVars PROVE Shares'
  OBVIOUS
<1>1. CASE Reject \/ Succeed \/ GiveUpAttempt \/ GiveUpCall \/ Pass
  BY <1>1, QuietKeepsShares
  DEF Reject, Succeed, GiveUpAttempt, GiveUpCall, Pass, Tick, Retry, vars, callVars, faults
<1>2. CASE Die
  <2>1. at' # "admitted" /\ UNCHANGED <<call, asked, slowest, since, now, unheard>>
    BY <1>2 DEF Die, vars
  <2>2. CASE at = "running"
    BY <1>2, <2>1, <2>2, QuietKeepsShares DEF Die, requests
  <2>3. CASE at = "admitted"
    BY <1>2, <2>1, <2>3, LostKeepsShares DEF Die
  <2> QED BY <1>2, <2>2, <2>3 DEF Die, Busy
<1>3. CASE Request
  <2>1. at = "admitted" /\ Send(begun, 1) /\ at' # "admitted"
        /\ UNCHANGED <<call, since, now, unheard>>
    BY <1>3 DEF Request, vars, faults
  <2>2. begun \in Times /\ begun <= now /\ 1 <= OwedAt(begun)
    <3>1. begun \in Times /\ begun <= now /\ OwedAt(begun) >= 1
      BY <2>1 DEF Shares, Own
    <3>2. OwedAt(begun) \in Nat
      BY <3>1, OwedIsNat DEF Shares
    <3> QED BY <3>1, <3>2
  <2> QED BY <2>1, <2>2, SentKeepsShares
<1>4. ASSUME NEW t \in 0 .. now, NEW n \in call.late, LateRequests(t, n) PROVE Shares'
  <2>1. t \in Times /\ t <= now /\ n \in Nat
    BY CallAssumption DEF IInv, TypeOK, Times, Shares
  <2>2. OwedAt(t) \in Nat
    BY <2>1, OwedIsNat DEF Shares
  <2>3. n <= OwedAt(t) /\ (at = "admitted" /\ begun = t => n + 1 <= OwedAt(t))
    BY <1>4, <2>1, <2>2 DEF LateRequests
  <2>4. Send(t, n) /\ UNCHANGED <<call, since, now, unheard, at, begun>>
    BY <1>4 DEF LateRequests, vars, faults
  <2> QED BY <2>1, <2>3, <2>4, SentKeepsShares
<1>5. ASSUME NEW skew \in Skews, Admit(skew) PROVE Shares'
  <2>1. /\ Owe(1) /\ at' = "admitted" /\ begun' = now
        /\ UNCHANGED <<call, asked, slowest, unheard>>
    BY <1>5 DEF Admit, Run, faults
  <2>2. CASE Limited
    BY <1>5, <2>1, <2>2, LetThroughKeepsShares DEF Admit, Grant
  <2>3. CASE ~Limited
    BY <1>5, <2>1, <2>3, LetThroughKeepsShares DEF Admit, Limited, vars
  <2> QED BY <2>2, <2>3
<1>6. ASSUME NEW skew \in Skews, Defer(skew) PROVE Shares'
  BY <1>6, QuietKeepsShares DEF Defer, Refuse, Retry, faults
<1>7. ASSUME NEW skew \in Skews, FailOpen(skew) PROVE Shares'
  <2>1. /\ Owe(1) /\ at' = "admitted" /\ begun' = now /\ unheard' = unheard + 1
        /\ UNCHANGED <<call, asked, slowest, now>>
    BY <1>7 DEF FailOpen, Run, Grant, Refuse, vars
  <2>2. \/ since' = since
        \/ since' = [s \in Times |-> IF s <= now THEN since[s] + 1 ELSE since[s]]
    BY <1>7 DEF FailOpen, Grant, Refuse, vars
  <2> QED BY <2>1, <2>2, LetThroughKeepsShares
<1>8. ASSUME NEW skew \in Skews, NEW want \in call.others, Other(want, skew)
      PROVE  Shares'
  <2>1. want \in Nat
    BY <1>8, WantsKnown DEF Shares
  <2>2. CASE Grant(want, now + skew) /\ Owe(want)
    BY <1>8, <2>1, <2>2, LetThroughKeepsShares DEF Other, Grant, faults
  <2>3. CASE Refuse(want, now + skew) /\ UNCHANGED owed
    BY <1>8, <2>3, QuietKeepsShares DEF Other, Refuse, requests, faults
  <2> QED BY <1>8, <2>2, <2>3 DEF Other
<1>9. ASSUME NEW event \in call.chain[link],
             FallBack(event) \/ FailTransiently(event) \/ FailForGood(event)
      PROVE  Shares'
  BY <1>9, QuietKeepsShares DEF FallBack, FailTransiently, FailForGood, Retry, vars, faults
<1>10. CASE UNCHANGED allVars
  BY <1>10, QuietKeepsShares DEF allVars, vars, callVars, faults
<1> QED BY <1>1, <1>2, <1>3, <1>4, <1>5, <1>6, <1>7, <1>8, <1>9, <1>10 DEF CallNext

\* The calls are a refinement of the bucket (run_node's admission, whatever the
\* policy of the call and the faults around it): what holds of every use of the
\* bucket holds of theirs.
THEOREM ImplementsBucket == CallSpec => Spec
<1>1. CallInit => Init /\ call \in Calls
  BY DEF CallInit
<1>2. call \in Calls /\ [CallNext]_allVars => (call \in Calls)'
  BY DEF CallNext, Reject, Request, LateRequests, Succeed, Die, GiveUpAttempt, GiveUpCall,
         Pass, Admit, Run, Defer, FailOpen, Other, FallBack, FailTransiently, FailForGood,
         Retry, allVars, callVars
<1> QED BY <1>1, <1>2, BucketStep, PTL DEF CallSpec, Spec

\* RetryAfterSuffices holds while calls use the bucket.
THEOREM RetryAfterSufficesAlways == CallSpec => []RetryAfterSuffices
BY ImplementsBucket, RetryAfterIsEnough

\* With one clock, the provider itself sees its rate respected over every window
\* lengthened by the slowest way from a verdict to its request: retries, attempts
\* nobody waits for and other calls included, up to the verdicts that were lost
\* (_admit).
THEOREM ProviderIsSparedAlways ==
  ASSUME Skews = {0} PROVE CallSpec => []ProviderIsSpared
<1>1. CallInit => IInv /\ Shares
  <2>1. CallInit => IInv
    BY InitIInv DEF CallInit
  <2> QED BY <2>1 DEF CallInit, Init, Shares, Pending, Own, Covered, Times
<1>2. IInv /\ Shares /\ [CallNext]_allVars => (IInv /\ Shares)'
  <2>1. Shares => call \in Calls
    BY DEF Shares
  <2> QED BY <2>1, BucketStep, IInvStep, SharesStep
<1>3. IInv /\ Shares /\ WithinRate => ProviderIsSpared
  <2> SUFFICES ASSUME IInv, Shares, WithinRate, 1 \in call.rated,
                      NEW s \in Times, s <= now
               PROVE  \E skew \in Skews :
                        asked[s] <= Burst + Rate * (now - s + slowest + skew) + unheard
    BY DEF ProviderIsSpared
  <2>1. /\ s \in Nat /\ now \in Nat /\ slowest \in Nat /\ unheard \in Nat /\ 0 \in Times
        /\ asked[s] \in Nat
    BY DEF Shares, IInv, TypeOK, Times
  <2>2. PICK t \in Times : /\ t = 0 \/ t + slowest <= s
                           /\ t <= now /\ now - t <= now - s + slowest
    <3>1. CASE slowest <= s
      <4>1. s - slowest \in Times /\ (s - slowest) + slowest <= s
        BY <2>1, <3>1 DEF Times
      <4>2. s - slowest <= now /\ now - (s - slowest) <= now - s + slowest
        BY <2>1, <3>1
      <4> QED BY <4>1, <4>2
    <3>2. CASE slowest > s
      <4>1. 0 <= now /\ now - 0 <= now - s + slowest
        BY <2>1, <3>2
      <4> QED BY <2>1, <4>1
    <3> QED BY <2>1, <3>1, <3>2
  <2>3. since[t] <= Burst + Rate * (now - t + 0)
    BY <2>2 DEF WithinRate
  <2>4. asked[s] + owed[t] <= since[t] + unheard
    BY <2>2 DEF Shares, Covered
  <2>5. owed[t] \in Nat /\ since[t] \in Nat /\ t \in Nat
    BY DEF Shares, Pending, IInv, TypeOK, Times
  <2>6. Rate * (now - t + 0) <= Rate * (now - s + slowest + 0)
    <3>1. now - t + 0 \in Int /\ now - s + slowest + 0 \in Int
      BY <2>1, <2>5
    <3>2. now - t + 0 <= now - s + slowest + 0
      BY <2>1, <2>2, <2>5
    <3> HIDE DEF Times
    <3> QED BY <3>1, <3>2
  <2>7. Rate * (now - t + 0) \in Int /\ Rate * (now - s + slowest + 0) \in Int
    BY <2>1, <2>5
  <2>8. asked[s] <= Burst + Rate * (now - s + slowest + 0) + unheard
    BY <2>1, <2>3, <2>4, <2>5, <2>6, <2>7
  <2> QED BY <2>8
<1> QED BY <1>1, <1>2, <1>3, ImplementsBucket, WithinRateAlways, PTL DEF CallSpec
------------------------------------------------------------------------------
\* The time of a call under a deadline, by whether it had any left when it was
\* dispatched.  Without it DeadlineHolds says nothing of a call still queued.
OnTime ==
  /\ call \in Calls
  /\ now \in Nat
  /\ unheard \in Nat
  /\ call.bounded /\ Open /\ call.deadline > 0 => now <= call.deadline
  /\ call.bounded /\ Open /\ call.deadline <= 0 /\ unheard = 0 => at = "queued"

\* The timer of the whole call is the time left, and none when none is left.
LEMMA TimerIsDeadline ==
  ASSUME call \in Calls, call.bounded
  PROVE  Policy.schedule_to_close = IF call.deadline > 0 THEN call.deadline ELSE 0
<1>1. call.deadline \in Int
  BY CallAssumption
<1>2. Policy.schedule_to_close = Larger(call.deadline, 0)
  BY DEF Policy, Resolve
<1> QED BY <1>1, <1>2 DEF Larger

LEMMA OnTimeStep == OnTime /\ [CallNext]_allVars => OnTime'
<1> SUFFICES ASSUME OnTime, [CallNext]_allVars PROVE OnTime'
  OBVIOUS
<1>1. call.deadline \in Int
  BY CallAssumption DEF OnTime
<1>2. CASE Pass
  <2>1. now' = now + 1 /\ call' = call /\ at' = at /\ unheard' = unheard /\ ~CallDue /\ Open
    BY <1>2 DEF Pass, Tick, callVars, faults
  <2>2. ASSUME call.bounded, call.deadline > 0 PROVE now + 1 <= call.deadline
    <3>1. Policy.schedule_to_close = call.deadline
      BY <2>2, TimerIsDeadline DEF OnTime
    <3> QED BY <1>1, <2>1, <2>2, <3>1 DEF CallDue, OnTime
  <2> QED BY <2>1, <2>2 DEF OnTime, Open, Busy
<1>3. CASE Reject \/ Request \/ Succeed \/ Die \/ GiveUpAttempt \/ GiveUpCall
  <2>1. CASE Reject \/ Succeed \/ GiveUpCall
    BY <2>1 DEF Reject, Succeed, GiveUpCall, OnTime, Open, Busy, vars, faults
  <2>2. CASE Request \/ Die
    BY <2>2 DEF Request, Die, OnTime, Open, Busy, vars, faults
  <2>3. CASE GiveUpAttempt
    BY <2>3 DEF GiveUpAttempt, AttemptDue, Retry, OnTime, Open, Busy, vars, faults
  <2> QED BY <1>3, <2>1, <2>2, <2>3
<1>4. ASSUME NEW skew \in Skews, Admit(skew) PROVE OnTime'
  <2>1. now' = now /\ call' = call /\ at' = "admitted" /\ unheard' = unheard
    BY <1>4 DEF Admit, Run, Grant, vars, faults
  <2>2. at = "queued" /\ ~(call.bounded /\ call.deadline <= 0)
    BY <1>4 DEF Admit, Ready, OutOfTime
  <2> QED BY <2>1, <2>2 DEF OnTime, Open, Busy
<1>5. ASSUME NEW skew \in Skews, Defer(skew) PROVE OnTime'
  BY <1>5 DEF Defer, Ready, Refuse, Retry, OnTime, Open, Busy, faults
<1>6. ASSUME NEW skew \in Skews, FailOpen(skew) PROVE OnTime'
  <2>1. now' = now /\ call' = call /\ at' = "admitted" /\ unheard' = unheard + 1
    BY <1>6 DEF FailOpen, Run, Grant, Refuse, vars
  <2>2. at = "queued"
    BY <1>6 DEF FailOpen, Ready
  <2> QED BY <2>1, <2>2 DEF OnTime, Open, Busy
<1>7. ASSUME NEW skew \in Skews, NEW want \in call.others, Other(want, skew)
      PROVE  OnTime'
  BY <1>7 DEF Other, Grant, Refuse, OnTime, Open, Busy, faults
<1>8. ASSUME NEW event \in call.chain[link],
             FallBack(event) \/ FailTransiently(event) \/ FailForGood(event)
      PROVE  OnTime'
  BY <1>8 DEF FallBack, FailTransiently, FailForGood, Retry, OnTime, Open, Busy, vars, faults
<1>9. ASSUME NEW t \in 0 .. now, NEW n \in call.late, LateRequests(t, n) PROVE OnTime'
  BY <1>9 DEF LateRequests, OnTime, Open, Busy, vars, faults
<1>10. CASE UNCHANGED allVars
  BY <1>10 DEF allVars, vars, callVars, OnTime, Open, Busy, faults
<1> QED BY <1>2, <1>3, <1>4, <1>5, <1>6, <1>7, <1>8, <1>9, <1>10 DEF CallNext

\* Temporal waits for no attempt after the deadline as long as the scheduler is
\* heard, for any policy, any overrides, any pattern of retries and any workers
\* that die (resolve_policy, and the engine's own check for a deadline that is
\* already over).
THEOREM DeadlineHoldsAlways == CallSpec => []DeadlineHolds
<1>1. CallInit => OnTime
  BY CallAssumption DEF CallInit, Init, OnTime
<1>2. OnTime => DeadlineHolds
  <2> SUFFICES ASSUME OnTime, call.bounded, unheard = 0, Busy \/ at = "dead"
               PROVE  now <= call.deadline
    BY DEF DeadlineHolds
  <2>1. call.deadline \in Int
    BY CallAssumption DEF OnTime
  <2> QED BY <2>1 DEF OnTime, Open, Busy
<1> QED BY <1>1, <1>2, OnTimeStep, PTL DEF CallSpec

------------------------------------------------------------------------------
\* The k-th provider of the chain answers, and those before it answer or fail in a
\* way a fallback is for.
Answers(k) ==
  /\ call.type = "llm" /\ call.chain[k] = {"fine"}
  /\ \A i \in 1 .. k - 1 : call.chain[i] \cap {"wrong", "garbled"} = {}

\* An attempt never gets past a provider that answers, and none has failed for
\* an answer.  Without the link FallbackHolds does not say which answers are
\* still to come.
Chained ==
  /\ call \in Calls
  /\ link \in Nat \ {0}
  /\ \A k \in DOMAIN call.chain : Answers(k) => link <= k /\ ~spoiled

\* The chain is not empty, and its providers are numbered from 1.
LEMMA ChainIsSequence ==
  ASSUME call \in Calls
  PROVE  /\ DOMAIN call.chain = 1 .. Len(call.chain) /\ Len(call.chain) \in Nat
         /\ \A i \in DOMAIN call.chain : call.chain[i] \subseteq Events
  BY CallAssumption

\* What the attempt gets before the provider that answers lets it fall back.
LEMMA FallsBackUntilAnswered ==
  ASSUME Chained, NEW k \in DOMAIN call.chain, Answers(k), NEW event \in call.chain[link]
  PROVE  event = "fine" \/ (link < k /\ FallsBack(event))
<1>1. k \in Nat /\ k <= Len(call.chain) /\ Len(call.chain) \in Nat
  BY ChainIsSequence DEF Chained
<1>2. link \in Nat /\ link >= 1 /\ link <= k
  BY DEF Chained
<1>3. CASE link < k
  <2>1. event \in Events \ {"wrong", "garbled"}
    BY <1>1, <1>2, <1>3, ChainIsSequence DEF Answers, Chained
  <2> QED BY <1>1, <1>2, <1>3, <2>1 DEF Events, Answers, FallsBack, Transient, ProviderTransient
<1>4. CASE link = k
  BY <1>2, <1>4 DEF Answers
<1> QED BY <1>1, <1>2, <1>3, <1>4

\* A step that keeps the call and what failed, and stays where it is in the
\* chain or starts again from the first provider.
LEMMA QuietKeepsChained ==
  ASSUME Chained, call' = call, spoiled' = spoiled, link' \in {link, 1}
  PROVE  Chained'
<1>1. ASSUME NEW k \in DOMAIN call.chain, Answers(k) PROVE link' <= k
  <2>1. k \in Nat /\ k >= 1
    BY ChainIsSequence DEF Chained
  <2> QED BY <1>1, <2>1 DEF Chained
<1> QED BY <1>1 DEF Chained, Answers

LEMMA ChainedStep == Chained /\ [CallNext]_allVars => Chained'
<1> SUFFICES ASSUME Chained, [CallNext]_allVars PROVE Chained'
  OBVIOUS
<1>1. CASE Reject \/ Request \/ Succeed \/ Die \/ GiveUpAttempt \/ GiveUpCall \/ Pass
  BY <1>1, QuietKeepsChained
  DEF Reject, Request, Succeed, Die, GiveUpAttempt, GiveUpCall, Pass, Retry, callVars
<1>2. ASSUME NEW skew \in Skews, Admit(skew) \/ Defer(skew) \/ FailOpen(skew)
      PROVE  Chained'
  BY <1>2, QuietKeepsChained DEF Admit, Defer, FailOpen, Run, Retry
<1>3. ASSUME NEW skew \in Skews, NEW want \in call.others, Other(want, skew)
      PROVE  Chained'
  BY <1>3, QuietKeepsChained DEF Other
<1>4. ASSUME NEW event \in call.chain[link], FallBack(event) PROVE Chained'
  <2>1. /\ link' = link + 1 /\ call' = call /\ spoiled' = spoiled
        /\ event \in Transient
    BY <1>4 DEF FallBack, FallsBack
  <2>2. ASSUME NEW k \in DOMAIN call.chain, Answers(k) PROVE link' <= k
    <3>1. k \in Nat
      BY ChainIsSequence DEF Chained
    <3>2. event # "fine"
      BY <2>1, <2>2 DEF Transient, ProviderTransient, Answers
    <3>3. link < k
      BY <2>2, <3>2, FallsBackUntilAnswered
    <3> QED BY <2>1, <3>1, <3>3 DEF Chained
  <2> QED BY <2>1, <2>2 DEF Chained, Answers
<1>5. ASSUME NEW event \in call.chain[link], FailTransiently(event) \/ FailForGood(event)
      PROVE  Chained'
  <2>1. call' = call /\ link' \in {link, 1}
    BY <1>5 DEF FailTransiently, FailForGood, Retry
  <2>2. ASSUME NEW k \in DOMAIN call.chain, Answers(k) PROVE FALSE
    <3>1. event # "fine" /\ ~FallsBack(event)
      BY <1>5, <2>2 DEF FailTransiently, FailForGood, FallsBack, Retried,
                        Transient, ProviderTransient, Answers
    <3> QED BY <2>2, <3>1, FallsBackUntilAnswered
  <2> QED BY <2>1, <2>2 DEF Chained, Answers
<1>6. ASSUME NEW t \in 0 .. now, NEW n \in call.late, LateRequests(t, n) PROVE Chained'
  BY <1>6, QuietKeepsChained DEF LateRequests
<1>7. CASE UNCHANGED allVars
  BY <1>7, QuietKeepsChained DEF allVars, callVars
<1> QED BY <1>1, <1>2, <1>3, <1>4, <1>5, <1>6, <1>7 DEF CallNext

\* No attempt fails for what a provider said as long as one that answers stands
\* behind others that answer or fail in a way a fallback is for, which garbled
\* answers are not: whatever the chain, the policy, the bucket and the faults
\* (LLMNode.execute).
THEOREM FallbackHoldsAlways == CallSpec => []FallbackHolds
<1>1. CallInit => Chained
  BY ChainIsSequence DEF CallInit, Chained
<1>2. Chained => FallbackHolds
  BY DEF Chained, Answers, FallbackHolds
<1> QED BY <1>1, <1>2, ChainedStep, PTL DEF CallSpec
=============================================================================
