------------------------------ MODULE FairShare ------------------------------
(***************************************************************************)
(* Weighted fair queuing on one task queue: the scheduler's FairShare and  *)
(* the way AdmissionEngine.admit drives it (charge, then refund if the     *)
(* rate limiter defers).                                                   *)
(*                                                                         *)
(* Virtual time is kept in integer units: Step[t] is cost / weight of one  *)
(* node of tenant t, scaled so that every quotient is whole.  Workers      *)
(* never send "tokens", so every request costs one unit.                   *)
(***************************************************************************)
EXTENDS Integers

CONSTANTS
  Tenants,
  Step,            \* [Tenants -> Nat \ {0}]: cost / weight, scaled
  IdleSeconds,     \* FairnessConfig.idle_seconds
  Horizon,         \* bound on the clock
  MaxVirtualTime   \* bound on the virtual clocks

ASSUME StepAssumption == Step \in [Tenants -> Nat \ {0}]
ASSUME IdleAssumption == IdleSeconds \in Nat
ASSUME BoundAssumption == Horizon \in Nat /\ MaxVirtualTime \in Nat

VARIABLES
  now,      \* the monotonic clock
  active,   \* the tenants of the queue's dictionary
  vt,       \* _TenantState.virtual_time, 0 outside active
  seen,     \* _TenantState.last_seen, 0 outside active
  lead      \* history: lead[t][u] is the work granted to t minus that granted
            \* to u, in Step units, since both were last together in active

shareVars == <<now, active, vt, seen, lead>>

ShareTypeOK ==
  /\ now \in Nat
  /\ active \subseteq Tenants
  /\ vt \in [Tenants -> Nat]
  /\ seen \in [Tenants -> Nat]
  /\ lead \in [Tenants -> [Tenants -> Int]]

ShareInit ==
  /\ now = 0
  /\ active = {}
  /\ vt = [t \in Tenants |-> 0]
  /\ seen = [t \in Tenants |-> 0]
  /\ lead = [t \in Tenants |-> [u \in Tenants |-> 0]]

------------------------------------------------------------------------------
\* The tenants _active keeps: those that asked within the idle window.
Kept == {t \in active : now - seen[t] <= IdleSeconds}

\* base is min_vt: the slowest clock among the kept tenants, 0 if there is none.
IsFront(base) ==
  /\ Kept = {} => base = 0
  /\ Kept # {} => \E t \in Kept : vt[t] = base
  /\ \A t \in Kept : base <= vt[t]

Bases == {0} \cup {vt[t] : t \in Tenants}

\* The clock t competes with: a newcomer joins at the front of the line.
Clock(t, base) == IF t \in Kept THEN vt[t] ELSE base

Contended(t) == Kept \ {t} # {}

MayProceed(t, base) == ~Contended(t) \/ Clock(t, base) <= base + Step[t]

\* t asks at time now and leaves with its clock at v, having received w units.
Asked(t, v, w) ==
  /\ active' = Kept \cup {t}
  /\ vt' = [u \in Tenants |->
              IF u = t THEN v ELSE IF u \in Kept THEN vt[u] ELSE 0]
  /\ seen' = [u \in Tenants |->
                IF u = t THEN now ELSE IF u \in Kept THEN seen[u] ELSE 0]
  /\ lead' = [x \in Tenants |-> [y \in Tenants |->
                IF x = y \/ {x, y} \ (Kept \cup {t}) # {} THEN 0
                ELSE (IF {x, y} \subseteq Kept THEN lead[x][y] ELSE 0)
                       + (IF x = t THEN w ELSE 0) - (IF y = t THEN w ELSE 0)]]
  /\ UNCHANGED now

\* Admitted by every governor: the charge stays.
ShareAdmit(t) ==
  \E base \in Bases :
    /\ IsFront(base)
    /\ MayProceed(t, base)
    /\ Clock(t, base) + Step[t] <= MaxVirtualTime
    /\ Asked(t, Clock(t, base) + Step[t], Step[t])

\* Mutant of RateLimited: the refund is forgotten.
RateLimitedUnrefunded(t) ==
  \E base \in Bases :
    /\ IsFront(base)
    /\ MayProceed(t, base)
    /\ Clock(t, base) + Step[t] <= MaxVirtualTime
    /\ Asked(t, Clock(t, base) + Step[t], 0)

\* Admitted by fair share, deferred by the rate limiter: charged and refunded
\* in the same call, so only the clock of last_seen moves.
RateLimited(t) ==
  \E base \in Bases :
    /\ IsFront(base)
    /\ MayProceed(t, base)
    /\ Asked(t, Clock(t, base), 0)

\* Deferred by fair share itself.
ShareDefer(t) ==
  \E base \in Bases :
    /\ IsFront(base)
    /\ ~MayProceed(t, base)
    /\ Asked(t, Clock(t, base), 0)

\* GET /v1/scheduler/state and /metrics prune the idle tenants too.
Snapshot ==
  /\ active' = Kept
  /\ vt' = [t \in Tenants |-> IF t \in Kept THEN vt[t] ELSE 0]
  /\ seen' = [t \in Tenants |-> IF t \in Kept THEN seen[t] ELSE 0]
  /\ lead' = [x \in Tenants |-> [y \in Tenants |->
                IF {x, y} \subseteq Kept THEN lead[x][y] ELSE 0]]
  /\ UNCHANGED now

Tick ==
  /\ now < Horizon
  /\ now' = now + 1
  /\ UNCHANGED <<active, vt, seen, lead>>

ShareNext ==
  \/ Snapshot \/ Tick
  \/ \E t \in Tenants : ShareAdmit(t) \/ RateLimited(t) \/ ShareDefer(t)

ShareSpec == ShareInit /\ [][ShareNext]_shareVars

------------------------------------------------------------------------------
(* Properties *)

\* No clock runs away: an active tenant is at most two of its own steps ahead
\* of any other active one (FairShare.admit's threshold plus its charge).
ClocksStayClose ==
  \A t, u \in active : vt[t] <= vt[u] + 2 * Step[t]

\* Weighted fairness: over any time during which t and u both compete, what t
\* received exceeds what u received by a constant, however long that time is
\* and whatever the rate limiter and the other tenants do.  (A tenant may gain
\* at most this much credit; the module doc's "proportional to weight".)
ProportionalShare ==
  \A t, u \in active : lead[t][u] <= 2 * Step[t] + 2 * Step[u]
==============================================================================
