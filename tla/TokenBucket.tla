----------------------------- MODULE TokenBucket -----------------------------
(***************************************************************************)
(* One provider's token bucket: refill_and_take as InMemoryRateLimiter and *)
(* the Lua script of RedisRateLimiter run it.  In memory every caller      *)
(* reads one monotonic clock; with Redis each caller sends its own wall    *)
(* clock, which runs ahead of the slowest by a skew.                       *)
(*                                                                         *)
(* Time is in ticks and tokens in whole units, so a wait is rounded up to  *)
(* the next tick.                                                          *)
(***************************************************************************)
EXTENDS Integers

CONSTANTS
  Rate,      \* RateLimitConfig.rps, in tokens per tick
  Burst,     \* RateLimitConfig.burst
  Wants,     \* the amounts callers ask for
  Skews,     \* how far a caller's clock may be ahead; {0} is one clock
  Horizon    \* bound on the clock

ASSUME RateAssumption == Rate \in Nat \ {0} /\ Burst \in Nat \ {0}
ASSUME WantsAssumption == Wants \subseteq Nat \ {0}
ASSUME SkewsAssumption == Skews \subseteq Nat
ASSUME HorizonAssumption == Horizon \in Nat

VARIABLES
  now,      \* the slowest clock
  tokens,   \* the stored level
  ts,       \* the stored timestamp
  since,    \* history: since[s] is what was granted at or after time s
  promise   \* history: the last refusal nobody has overtaken, as the amount
            \* asked for and the time its retry_after points to; 0 is none

vars == <<now, tokens, ts, since, promise>>

Times == 0 .. Horizon
NoPromise == [want |-> 0, due |-> 0]

TypeOK ==
  /\ now \in Times
  /\ tokens \in 0 .. Burst
  /\ ts \in Nat
  /\ since \in [Times -> Nat]
  /\ promise \in [want : Nat, due : Nat]

\* A bucket nobody used yet is full.
Init ==
  /\ now = 0
  /\ tokens = Burst
  /\ ts = 0
  /\ since = [s \in Times |-> 0]
  /\ promise = NoPromise

AtMost(x, y) == IF x <= y THEN x ELSE y

\* What the bucket holds at time t.
Available(t) == AtMost(Burst, tokens + Rate * (IF t > ts THEN t - ts ELSE 0))

\* Mutant of Wait: rounded down, and zero when less than one tick is missing.
WaitRoundedDown(missing) == missing \div Rate

\* The retry_after of a refusal, in ticks.
Wait(missing) == (missing + Rate - 1) \div Rate

Grant(want, t) ==
  /\ Available(t) >= want
  /\ tokens' = Available(t) - want
  /\ ts' = t
  /\ since' = [s \in Times |-> IF s <= now THEN since[s] + want ELSE since[s]]
  /\ promise' = NoPromise
  /\ UNCHANGED now

\* Mutant of Refuse: the refill is kept but its timestamp is not advanced.
RefuseKeepsTs(want, t) ==
  /\ Available(t) < want
  /\ tokens' = Available(t)
  /\ promise' = [want |-> want, due |-> t + Wait(want - Available(t))]
  /\ UNCHANGED <<now, ts, since>>

Refuse(want, t) ==
  /\ Available(t) < want
  /\ tokens' = Available(t)
  /\ ts' = t
  /\ promise' = [want |-> want, due |-> t + Wait(want - Available(t))]
  /\ UNCHANGED <<now, since>>

Tick ==
  /\ now < Horizon
  /\ now' = now + 1
  /\ UNCHANGED <<tokens, ts, since, promise>>

Next ==
  \/ Tick
  \/ \E want \in Wants, skew \in Skews :
       Grant(want, now + skew) \/ Refuse(want, now + skew)

Spec == Init /\ [][Next]_vars

------------------------------------------------------------------------------
(* Properties *)

\* The governor's promise to the provider: over any window that ends now, at
\* most the burst plus the sustained rate is let through (refill_and_take),
\* allowing for the widest difference between two callers' clocks.
WithinRate ==
  \A s \in Times : s <= now =>
    \E skew \in Skews : since[s] <= Burst + Rate * (now - s + skew)

\* retry_after is long enough: a caller that waits as told and is not overtaken
\* finds enough tokens, provided it asks for no more than the burst.
RetryAfterSuffices ==
  promise.want \in 1 .. Burst /\ now >= promise.due => Available(now) >= promise.want
==============================================================================
