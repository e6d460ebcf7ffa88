--------------------------- MODULE PaymentJournal ---------------------------
(***************************************************************************)
(* The payment journal of arc_agent_pay/payment_store.py and the limits of *)
(* arc_agent_pay/policy.py, as operators over the content of one store.    *)
(*                                                                         *)
(* A store is a partial function from payment IDs to payments.  reserve()  *)
(* holds one lock (memory) or one BEGIN IMMEDIATE transaction (SQLite), so *)
(* it is one step: a payment is Refused, Opened or Resumed.                *)
(***************************************************************************)
EXTENDS UnitSums

CONSTANTS
  PayId,              \* payment identifiers, generated or chosen by callers
  Resource,           \* method + URL + body: what _signature identifies
  Hosts,              \* provider host names
  HostOf,             \* host of each resource
  MaxPayment,         \* policy.max_payment_usdc
  AllowedHosts,       \* hosts (and networks, assets, payees) the policy allows
  DailyCap,           \* policy.daily_cap_usdc
  MaxPaymentsPerHour, \* policy.max_payments_per_hour
  ProviderDailyCap,   \* policy.provider_daily_cap_usdc
  DaySeconds,         \* length of the daily window, in ticks
  HourSeconds         \* length of the velocity window, in ticks

ASSUME JournalAssumption ==
  /\ IsFiniteSet(PayId)
  /\ HostOf \in [Resource -> Hosts]
  /\ {MaxPayment, DailyCap, MaxPaymentsPerHour, ProviderDailyCap,
      DaySeconds, HourSeconds} \subseteq Nat

PaymentStatus ==
  {"pending", "authorized", "success", "failed", "skipped", "unknown"}

\* COMMITTED_STATUSES: what counts against the rolling limits.
CommittedStatuses == {"pending", "authorized", "success", "unknown"}

\* The statuses reserve() calls "conclusively closed".
ClosedStatuses == {"failed", "skipped"}

Payment == [payment_id : PayId, resource : Resource, amount : 0..MaxAmount,
            status : PaymentStatus, created_at : Nat]

\* A journal holds every payment under its own ID.
IsJournal(j) ==
  /\ DOMAIN j \subseteq PayId
  /\ j \in [DOMAIN j -> Payment]
  /\ \A id \in DOMAIN j : j[id].payment_id = id

EmptyJournal == [id \in {} |-> id]

\* Insert or overwrite the whole row of a payment: _write and update().
Put(j, p) ==
  [id \in DOMAIN j \cup {p.payment_id} |->
     IF id = p.payment_id THEN p ELSE j[id]]

\* Plausible bug: a reused ID may name another request of the same price.
SameAmount(p, q) == p.amount = q.amount

\* The terms a reused ID must repeat: _same_logical_payment.
SameLogicalPayment(p, q) == p.resource = q.resource /\ p.amount = q.amount

-----------------------------------------------------------------------------
(* Rolling totals. *)

CommittedIn(j, window, now) ==
  {id \in DOMAIN j : /\ j[id].status \in CommittedStatuses
                     /\ now - j[id].created_at <= window}

Amounts(j) == [id \in DOMAIN j |-> j[id].amount]

DailyTotal(j, now) ==
  Cardinality(Units(CommittedIn(j, DaySeconds, now), Amounts(j)))

HourlyCount(j, now) == Cardinality(CommittedIn(j, HourSeconds, now))

ProviderIn(j, host, now) ==
  {id \in CommittedIn(j, DaySeconds, now) : HostOf[j[id].resource] = host}

ProviderTotal(j, host, now) ==
  Cardinality(Units(ProviderIn(j, host, now), Amounts(j)))

-----------------------------------------------------------------------------
(* The policy and the three outcomes of reserve(). *)

CheckStatic(p) ==
  p.amount <= MaxPayment /\ HostOf[p.resource] \in AllowedHosts

\* Plausible bug: the limits are compared with what is already committed.
CheckTotalsSoFar(j, p, now) ==
  /\ DailyTotal(j, now) <= DailyCap
  /\ HourlyCount(j, now) <= MaxPaymentsPerHour
  /\ ProviderTotal(j, HostOf[p.resource], now) <= ProviderDailyCap

\* Prospective: the payment being reserved is part of the sum.
CheckTotals(j, p, now) ==
  /\ DailyTotal(j, now) + p.amount <= DailyCap
  /\ HourlyCount(j, now) + 1 <= MaxPaymentsPerHour
  /\ ProviderTotal(j, HostOf[p.resource], now) + p.amount <= ProviderDailyCap

Opens(j, p, now) ==
  CheckStatic(p) /\ p.payment_id \notin DOMAIN j /\ CheckTotals(j, p, now)

\* Plausible bug: a closed payment is resumed like any other.
ResumesClosed(j, p) ==
  /\ CheckStatic(p)
  /\ p.payment_id \in DOMAIN j
  /\ SameLogicalPayment(j[p.payment_id], p)

Resumes(j, p) ==
  /\ CheckStatic(p)
  /\ p.payment_id \in DOMAIN j
  /\ SameLogicalPayment(j[p.payment_id], p)
  /\ j[p.payment_id].status \notin ClosedStatuses

Refuses(j, p, now) == ~Opens(j, p, now) /\ ~Resumes(j, p)

AfterReserve(j, p, now) == IF Opens(j, p, now) THEN Put(j, p) ELSE j

-----------------------------------------------------------------------------
\* The limits hold for the window that ends now.
RollingLimits(j, now) ==
  /\ DailyTotal(j, now) <= DailyCap
  /\ HourlyCount(j, now) <= MaxPaymentsPerHour
  /\ \A h \in Hosts : ProviderTotal(j, h, now) <= ProviderDailyCap
=============================================================================
