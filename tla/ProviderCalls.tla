--------------------------- MODULE ProviderCalls ---------------------------
(***************************************************************************)
(* One node call to the outside, from its dispatch under a resolved policy *)
(* to its end: Temporal's attempts and timers, the scheduler's deadline    *)
(* check and rate limit, and the llm node's chain of providers.  A call of *)
(* another class has a chain of one.  The bucket of the first provider is  *)
(* TokenBucket's, and other calls use it too.                              *)
(*                                                                         *)
(* Between the verdict and the request to the provider the worker records  *)
(* the start and asks the inbox, so a request may come late: also after    *)
(* its attempt was given up.                                               *)
(*                                                                         *)
(* What comes back from outside is "fine", "busy" (429, 503 and 5xx, a     *)
(* deadlock), "unreachable", "wrong" (a bad request, an unknown provider,  *)
(* an exception of the user's function) or "garbled" (what a provider's    *)
(* own client fails on); nothing may come back.  The inbox around the node *)
(* is NodeExecution's.                                                     *)
(***************************************************************************)
EXTENDS TokenBucket, NodePolicy, Sequences

CONSTANTS
  Calls    \* the calls of this instance, see CallAssumption

Events == {"fine", "busy", "unreachable", "wrong", "garbled"}

ASSUME CallAssumption ==
  \A c \in Calls :
    /\ c.type \in {"llm", "http", "database", "python"}
    /\ c.chain \in Seq(SUBSET Events) /\ c.chain # <<>>   \* what each provider may answer
    /\ c.type # "llm" => Len(c.chain) = 1 /\ "garbled" \notin c.chain[1]
    /\ c.rated \subseteq DOMAIN c.chain    \* the providers with a rate limit
    /\ c.bounded \in BOOLEAN     \* the run has a deadline
    /\ c.deadline \in Int        \* the time left when the call is dispatched
    /\ c.others \subseteq Wants  \* what other calls ask of the bucket
    /\ c.late \subseteq Nat      \* how many late requests come at a time
  /\ c.faults \in Nat          \* bound on lost verdicts and dead workers
ASSUME OneToken == 1 \in Wants

VARIABLES
  call,      \* the call
  at,        \* queued, admitted (not yet at the provider), running, dead (its
             \* worker died), done or failed
  attempt,   \* the attempt under way, or the last one
  begun,     \* when it began
  beat,      \* the last heartbeat of a worker that died
  due,       \* when the next one may begin
  link,      \* the provider it has come to
  owed,      \* owed[s] is the requests let through at or after s that may still
             \* be sent
  asked,     \* history: asked[s] is the requests to the first provider since s
  slowest,   \* history: the longest a request came after it was let through
  spoiled,   \* history: an attempt failed for what a provider answered
  unheard,   \* lost verdicts so far
  deaths     \* dead workers so far

requests == <<owed, asked, slowest>>
faults == <<unheard, deaths>>
callVars == <<call, at, attempt, begun, beat, due, link, requests, spoiled, faults>>
allVars == <<vars, callVars>>

CallInit ==
  /\ Init
  /\ call \in Calls
  /\ at = "queued" /\ attempt = 1
  /\ begun = 0 /\ beat = 0 /\ due = 0 /\ link = 1
  /\ owed = [s \in Times |-> 0]
  /\ asked = [s \in Times |-> 0]
  /\ slowest = 0
  /\ spoiled = FALSE
  /\ unheard = 0 /\ deaths = 0

Policy == Resolve(call.type, call.over, call.bounded, call.deadline)

Ready == at = "queued" /\ now >= due

\* deadline_seconds is what was left at the dispatch, for every attempt.
OutOfTime == call.bounded /\ call.deadline <= 0

\* Mutant of Limited: the scheduler is told of the last provider of the chain.
LimitedByLast == Len(call.chain) \in call.rated

\* The scheduler is told of the first provider of the chain, and no other.
Limited == 1 \in call.rated

\* The attempt is not over, and has a worker that lives.
Busy == at \in {"admitted", "running"}

\* The model follows the bucket until the call has ended.
Open == Busy \/ at \in {"queued", "dead"}

MayFail == unheard + deaths < call.faults

\* Requests that were let through at time t, and may still be sent.
OwedAt(t) == owed[t] - (IF t < Horizon THEN owed[t + 1] ELSE 0)

Owe(n) == owed' = [s \in Times |-> IF s <= now THEN owed[s] + n ELSE owed[s]]

\* n of those let through at time t are not owed any more.
Settle(t, n) == owed' = [s \in Times |-> IF s <= t THEN owed[s] - n ELSE owed[s]]

\* They are sent.
Send(t, n) ==
  /\ Settle(t, n)
  /\ asked' = [s \in Times |-> IF s <= now THEN asked[s] + n ELSE asked[s]]
  /\ slowest' = IF slowest < now - t THEN now - t ELSE slowest

\* The attempt begins and is let through.
Run ==
  /\ at' = "admitted" /\ begun' = now /\ link' = 1
  /\ Owe(1)
  /\ UNCHANGED <<call, attempt, beat, due, asked, slowest, spoiled>>

\* Temporal's retry after a delay, or the end of the call.
Retry(delay) ==
  LET more == Policy.attempts = 0 \/ attempt < Policy.attempts
  IN /\ at' = IF more THEN "queued" ELSE "failed"
     /\ attempt' = IF more THEN attempt + 1 ELSE attempt
     /\ due' = IF more THEN now + delay ELSE due
     /\ begun' = 0 /\ beat' = 0 /\ link' = 1
     /\ UNCHANGED <<call, requests>>

Reject ==
  /\ Ready /\ OutOfTime
  /\ at' = "failed"
  /\ UNCHANGED <<vars, call, attempt, begun, beat, due, link, requests, spoiled, faults>>

Admit(skew) ==
  /\ Ready /\ ~OutOfTime
  /\ IF Limited THEN Grant(1, now + skew) ELSE UNCHANGED vars
  /\ Run
  /\ UNCHANGED faults

\* A deferral comes back as a failed attempt with its own delay.
Defer(skew) ==
  /\ Ready /\ ~OutOfTime /\ Limited
  /\ Refuse(1, now + skew)
  /\ Retry(Wait(1 - Available(now + skew)))
  /\ UNCHANGED <<spoiled, faults>>

\* The client hears no verdict and lets the call run, whatever the scheduler
\* did with the request.
FailOpen(skew) ==
  /\ Ready /\ MayFail
  /\ \/ UNCHANGED vars
     \/ ~OutOfTime /\ Limited /\ (Grant(1, now + skew) \/ Refuse(1, now + skew))
  /\ Run
  /\ unheard' = unheard + 1 /\ UNCHANGED deaths

\* The worker gets to the node, which asks the first provider.
Request ==
  /\ at = "admitted"
  /\ at' = "running"
  /\ Send(begun, 1)
  /\ UNCHANGED <<vars, call, attempt, begun, beat, due, link, spoiled, faults>>

\* So do workers whose attempts were given up, and those of other calls.
LateRequests(t, n) ==
  /\ Open
  /\ n + (IF at = "admitted" /\ begun = t THEN 1 ELSE 0) <= OwedAt(t)
  /\ Send(t, n)
  /\ UNCHANGED <<vars, call, at, attempt, begun, beat, due, link, spoiled, faults>>

\* What each node turns into a transient NodeError, or leaves to Temporal to
\* retry (a transport error of the http node); whatever else is not fine is
\* terminal, as is every exception and every timeout of a user's function.  For
\* a database a lost connection is as a busy server, but one that is refused is
\* none of the driver's errors.
ProviderTransient == {"busy", "unreachable"}
HTTPTransient == {"busy", "unreachable"}
DatabaseTransient == {"busy"}
PythonTransient == {}
Transient ==
  CASE call.type = "llm" -> ProviderTransient
    [] call.type = "http" -> HTTPTransient
    [] call.type = "database" -> DatabaseTransient
    [] call.type = "python" -> PythonTransient

\* Where an attempt that fails is followed by another: a garbled answer (a
\* Retry-After that is a date, a body that is not JSON) is an exception nobody
\* catches, which Temporal retries.
Retried == Transient \cup {"garbled"}

\* Mutant of FallsBack: a provider that cannot be reached ends the attempt.
FallsBackIfBusy(event) == link < Len(call.chain) /\ event = "busy"

FallsBack(event) == link < Len(call.chain) /\ event \in Transient

Succeed ==
  /\ at = "running" /\ "fine" \in call.chain[link]
  /\ at' = "done"
  /\ UNCHANGED <<vars, call, attempt, begun, beat, due, link, requests, spoiled, faults>>

FallBack(event) ==
  /\ at = "running" /\ FallsBack(event)
  /\ link' = link + 1
  /\ UNCHANGED <<vars, call, at, attempt, begun, beat, due, requests, spoiled, faults>>

\* The provider's Retry-After is recorded for the dashboard, and the delay is
\* the policy's all the same.
FailTransiently(event) ==
  /\ at = "running" /\ event \in Retried /\ ~FallsBack(event)
  /\ spoiled' = TRUE
  /\ Retry(Backoff(Policy, attempt))
  /\ UNCHANGED <<vars, faults>>

FailForGood(event) ==
  /\ at = "running" /\ event \notin Retried \cup {"fine"}
  /\ at' = "failed" /\ spoiled' = TRUE
  /\ UNCHANGED <<vars, call, attempt, begun, beat, due, link, requests, faults>>

\* It has beaten since the node began, if it got there.
Die ==
  /\ Busy /\ MayFail
  /\ at' = "dead"
  /\ beat' = IF at = "running" THEN now ELSE begun
  /\ IF at = "running" THEN UNCHANGED owed ELSE Settle(begun, 1)
  /\ deaths' = deaths + 1
  /\ UNCHANGED <<vars, call, attempt, begun, due, link, asked, slowest, spoiled, unheard>>

Silent(last) == Policy.heartbeat # 0 /\ now >= last + Policy.heartbeat

\* There is no heartbeat before the node has begun.
AttemptDue ==
  \/ (Busy \/ at = "dead") /\ now >= begun + Policy.start_to_close
  \/ at = "admitted" /\ Silent(begun)
  \/ at = "dead" /\ Silent(beat)

GiveUpAttempt ==
  /\ AttemptDue
  /\ Retry(Backoff(Policy, attempt))
  /\ UNCHANGED <<vars, spoiled, faults>>

CallDue ==
  /\ Open
  /\ Policy.schedule_to_close # 0 /\ now >= Policy.schedule_to_close

GiveUpCall ==
  /\ CallDue
  /\ at' = "failed"
  /\ UNCHANGED <<vars, call, attempt, begun, beat, due, link, requests, spoiled, faults>>

\* Another call to the first provider, which runs when it is granted.
Other(want, skew) ==
  /\ Open
  /\ \/ Grant(want, now + skew) /\ Owe(want)
     \/ Refuse(want, now + skew) /\ UNCHANGED owed
  /\ UNCHANGED <<call, at, attempt, begun, beat, due, link, asked, slowest, spoiled, faults>>

\* Temporal's timers fire on time.
Pass ==
  /\ Open /\ ~AttemptDue /\ ~CallDue
  /\ Tick
  /\ UNCHANGED callVars

CallNext ==
  \/ Reject \/ Request \/ Succeed \/ Die \/ GiveUpAttempt \/ GiveUpCall \/ Pass
  \/ \E t \in 0 .. now, n \in call.late : LateRequests(t, n)
  \/ \E skew \in Skews :
       \/ Admit(skew) \/ Defer(skew) \/ FailOpen(skew)
       \/ \E want \in call.others : Other(want, skew)
  \/ \E event \in call.chain[link] :
       FallBack(event) \/ FailTransiently(event) \/ FailForGood(event)

CallSpec == CallInit /\ [][CallNext]_allVars

------------------------------------------------------------------------------
(* Properties *)

\* The provider's own view of its rate: over any window that ends now the first
\* provider of the chain gets no more requests than its burst and rate allow over
\* a window longer by the slowest way from a verdict to its request, retries and
\* attempts nobody waits for included, but for those let through without a
\* verdict (_provider_of names the bucket; admission runs before every attempt,
\* and run_node records and asks the inbox before the node).
ProviderIsSpared ==
  1 \in call.rated => \A s \in Times : s <= now =>
    \E skew \in Skews : asked[s] <= Burst + Rate * (now - s + slowest + skew) + unheard

\* "A node cannot outlive the deadline it was admitted under" (resolve_policy):
\* as long as every verdict was heard, Temporal waits for no attempt after it,
\* whether its worker lives or not.
DeadlineHolds ==
  call.bounded /\ unheard = 0 /\ (Busy \/ at = "dead") => now <= call.deadline

\* With a provider that answers, behind others that answer or fail in a way a
\* fallback is for, no attempt fails for what a provider said (LLMNode.execute).
\* A fallback is for NodeErrors that are transient: neither for a wrong request
\* nor for an answer the provider's own client fails on (garbled).
FallbackHolds ==
  spoiled => ~\E k \in DOMAIN call.chain :
                 /\ call.type = "llm" /\ call.chain[k] = {"fine"}
                 /\ \A i \in 1 .. k - 1 : call.chain[i] \cap {"wrong", "garbled"} = {}
=============================================================================
