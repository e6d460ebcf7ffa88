------------------------------ MODULE AgentRun -------------------------------
(***************************************************************************)
(* Runs of the research agent (arc_agent_pay/agent), its spending gate     *)
(* (agent/trust.py) and the caps on what its runs spend together           *)
(* (spending.py).                                                          *)
(*                                                                         *)
(* A run is the loop of agent/graph.py, planner, tools, planner, ..., whose *)
(* tool calls of one planner step run concurrently, or the sequential      *)
(* pipeline of agent/linear.py; the synthesizer, which only reads, is its  *)
(* end.  The gate is asked before a call awaits its request; the ledger    *)
(* that the gate reads is written when the payment has settled.  A payment *)
(* client is reduced to what PaymentClient says of one request.  Runs      *)
(* share the ledger.                                                       *)
(***************************************************************************)
EXTENDS UnitSums

CONSTANTS
  Run,              \* runs, of one agent or of several
  Linear,           \* those on the sequential pipeline
  Agent, AgentOf,   \* the agent, hence the gate, of each run
  Service, HostOf,  \* registered services and the hosts of their URLs
  IdOf, NoId,       \* provider_agent_id of each service, NoId for none
  Allowlist, Denylist, Disabled, RequireIdentity, HasFloor,
                    \* the policy; HasFloor is min_reputation > 0
  DailyCap, HourlyCap, ProviderCap,
                    \* the caps; one that is not set is one that is never reached
  Day, Hour, Retention,
                    \* DAY_SECONDS, HOUR_SECONDS, _RETENTION_SECONDS
  Budget,           \* budget_usdc of a run's client
  Quotes,           \* amounts that sellers ask for
  MaxSteps,         \* max_steps of a graph run
  MaxFetches,       \* bound: calls of fetch_service, all runs together
  MaxTime,          \* bound of the clock
  Conditions        \* under which the agent may have to work

Fetch == 1..MaxFetches
Id == {IdOf[s] : s \in Service} \ {NoId}

\* What the environment may do: start a call while another is under way, lose the
\* answer to a payment or settle it after the answer, fail a read or a write of the
\* ledger.
Trouble == {"overlap", "lost", "deaf"}

ASSUME AgentAssumption ==
  /\ Run # {} /\ Service # {}
  /\ Linear \subseteq Run
  /\ AgentOf \in [Run -> Agent]
  /\ Denylist \subseteq Id
  /\ Disabled \in BOOLEAN /\ RequireIdentity \in BOOLEAN /\ HasFloor \in BOOLEAN
  /\ DailyCap \in Nat /\ HourlyCap \in Nat /\ ProviderCap \in Nat
  /\ Day \in Nat /\ Hour \in 0..Day /\ Retention \in Nat /\ Day <= Retention
  /\ Budget \in Nat /\ Quotes \subseteq 0..MaxAmount
  /\ MaxSteps \in Nat \ {0} /\ MaxFetches \in Nat /\ MaxTime \in Nat
  /\ Conditions \subseteq SUBSET Trouble

VARIABLES
  trouble,    \* what this environment may do
  now,        \* the clock
  node,       \* where each run is
  stepsLeft,  \* steps_left of each run
  pc,         \* where each call is
  runOf,      \* the run that made it
  service,    \* the service it is for
  amount,     \* what its client charged
  auth,       \* what became of the authorization that the client sent
  settledAt,  \* when that settled
  ledger,     \* the calls with a row in the spend ledger
  rowAt,      \* the timestamps of the rows
  cache       \* ReputationGate._cache of each agent, against the floor

vars == <<trouble, now, node, stepsLeft, pc, runOf, service, amount, auth,
          settledAt, ledger, rowAt, cache>>

runVars == <<node, stepsLeft>>
callVars == <<pc, runOf, service, amount, auth, settledAt>>
ledgerVars == <<ledger, rowAt>>

Time == 0..MaxTime
InFlight == {"fetching", "paying"}
Ended == {"skipped", "unpaid", "paid", "rejected", "unknown"}
\* Plausible bug: what may not have settled is refunded.
ChargedKnown == {"paying", "paid"}
\* The calls whose amount the client's budget guard holds.
Charged == {"paying", "paid", "unknown"}
Score == {"unread", "good", "bad"}

TypeOK ==
  /\ trouble \in Conditions
  /\ now \in Time
  /\ node \in [Run -> {"planner", "tools", "end"}]
  /\ stepsLeft \in [Run -> 0..MaxSteps]
  /\ pc \in [Fetch -> {"unused", "queued"} \cup InFlight \cup Ended]
  /\ runOf \in [Fetch -> Run]
  /\ service \in [Fetch -> Service]
  /\ amount \in [Fetch -> 0..MaxAmount]
  /\ auth \in [Fetch -> {"none", "sent", "settled", "rejected"}]
  /\ settledAt \in [Fetch -> Time]
  /\ ledger \subseteq Fetch
  /\ rowAt \in [Fetch -> Time]
  /\ cache \in [Agent -> [Id -> Score]]

Init ==
  /\ trouble \in Conditions
  /\ now = 0
  /\ node = [r \in Run |-> "planner"]
  /\ stepsLeft = [r \in Run |-> MaxSteps]
  /\ pc = [f \in Fetch |-> "unused"]
  /\ runOf = [f \in Fetch |-> CHOOSE r \in Run : TRUE]
  /\ service = [f \in Fetch |-> CHOOSE s \in Service : TRUE]
  /\ amount = [f \in Fetch |-> 0]
  /\ auth = [f \in Fetch |-> "none"]
  /\ settledAt = [f \in Fetch |-> 0]
  /\ ledger = {}
  /\ rowAt = [f \in Fetch |-> 0]
  /\ cache = [a \in Agent |-> [i \in Id |-> "unread"]]
-----------------------------------------------------------------------------
(* The loop of a run. *)

MadeBy(r) == {f \in Fetch : pc[f] # "unused" /\ runOf[f] = r}
IsOpen(f) == pc[f] = "queued" \/ pc[f] \in InFlight

\* Calls are numbered in the order in which they are made.
IsNextBatch(batch) ==
  /\ \A f \in batch : pc[f] = "unused"
  /\ \A f \in batch, g \in Fetch \ batch : pc[g] = "unused" => f < g

\* A step of run r that makes calls, none when it only discovers services.  The
\* linear pipeline selects up to three services, each once.
Enqueue(r) ==
  \E batch \in SUBSET Fetch : \E choice \in [batch -> Service] :
    /\ IsNextBatch(batch)
    /\ r \in Linear => /\ Cardinality(batch) <= 3
                       /\ \A f, g \in batch : choice[f] = choice[g] => f = g
    /\ pc' = [f \in Fetch |-> IF f \in batch THEN "queued" ELSE pc[f]]
    /\ runOf' = [f \in Fetch |-> IF f \in batch THEN r ELSE runOf[f]]
    /\ service' = [f \in Fetch |-> IF f \in batch THEN choice[f] ELSE service[f]]

\* What the planner leaves of the run's steps.
StepTaken(r) ==
  stepsLeft' = IF r \in Linear THEN stepsLeft
               ELSE [stepsLeft EXCEPT ![r] = @ - 1]

\* Plausible bug: the router looks at the model's tool calls only.
PlanForever(r) ==
  /\ node[r] = "planner"
  /\ StepTaken(r)
  /\ Enqueue(r)
  /\ node' = [node EXCEPT ![r] = "tools"]
  /\ UNCHANGED <<trouble, now, amount, auth, settledAt, ledgerVars, cache>>

\* The model asks for tools and steps are left after this one; or the linear
\* pipeline plans, once.
Plan(r) ==
  /\ node[r] = "planner"
  /\ r \in Linear \/ stepsLeft[r] - 1 > 0
  /\ StepTaken(r)
  /\ Enqueue(r)
  /\ node' = [node EXCEPT ![r] = "tools"]
  /\ UNCHANGED <<trouble, now, amount, auth, settledAt, ledgerVars, cache>>

\* The model is done, or has taken its last step.
PlanEnds(r) ==
  /\ node[r] = "planner"
  /\ r \notin Linear
  /\ StepTaken(r)
  /\ node' = [node EXCEPT ![r] = "end"]
  /\ UNCHANGED <<trouble, now, callVars, ledgerVars, cache>>

\* Every call of the step has returned.
ToolsReturn(r) ==
  /\ node[r] = "tools"
  /\ \A f \in MadeBy(r) : ~IsOpen(f)
  /\ node' = [node EXCEPT ![r] = IF r \in Linear THEN "end" ELSE "planner"]
  /\ UNCHANGED <<trouble, now, stepsLeft, callVars, ledgerVars, cache>>
-----------------------------------------------------------------------------
(* The gate. *)

\* total_since, count_since and total_for_since read these rows.
RowsSince(window) == {f \in ledger : rowAt[f] >= now - window}
RowsOfHost(h, window) == {f \in RowsSince(window) : HostOf[service[f]] = h}

DailyCapReached == TotalOf(RowsSince(Day), amount) >= DailyCap
HourlyCapReached == Cardinality(RowsSince(Hour)) >= HourlyCap
ProviderCapReached(s) == TotalOf(RowsOfHost(HostOf[s], Day), amount) >= ProviderCap

\* Plausible bugs: a cap that SpendCaps.check forgets.
CapReachedButDaily(s) == HourlyCapReached \/ ProviderCapReached(s)
CapReachedButHourly(s) == DailyCapReached \/ ProviderCapReached(s)
CapReachedButProvider(s) == DailyCapReached \/ HourlyCapReached

CapReached(s) == DailyCapReached \/ HourlyCapReached \/ ProviderCapReached(s)

ListsRefuse(s) ==
  \/ Disabled
  \/ IdOf[s] \in Denylist
  \/ Allowlist # {} /\ IdOf[s] \notin Allowlist

LacksIdentity(s) == RequireIdentity /\ IdOf[s] = NoId

\* Nothing but the score is left to look at.  A ledger that cannot be read allows.
LocallyAllowed(s) ==
  /\ ~ListsRefuse(s)
  /\ "deaf" \in trouble \/ ~CapReached(s)
  /\ ~LacksIdentity(s)

\* ReputationGate._score and what follows from it: a score that was read once is
\* kept, one that cannot be read is not.
Scored(f, score) ==
  LET a == AgentOf[runOf[f]]
      i == IdOf[service[f]]
  IN IF i = NoId \/ ~HasFloor
     THEN score = "unread" /\ cache' = cache
     ELSE /\ cache[a][i] # "unread" => score = cache[a][i]
          /\ cache' = [cache EXCEPT ![a][i] = score]

\* A queued call comes to the gate.  The linear pipeline makes its calls one by
\* one; without "overlap" no call of any run is under way.
AtGate(f) ==
  /\ pc[f] = "queued"
  /\ runOf[f] \in Linear => \A g \in MadeBy(runOf[f]) : pc[g] \notin InFlight
  /\ "overlap" \in trouble \/ \A g \in Fetch : pc[g] \notin InFlight

Goto(f, label) == pc' = [pc EXCEPT ![f] = label]

\* Refused by a list, a cap, for want of an identity, or for its score.
Skip(f) ==
  /\ AtGate(f)
  /\ \/ /\ \/ ListsRefuse(service[f])
           \/ CapReached(service[f])
           \/ LacksIdentity(service[f])
        /\ cache' = cache
     \/ LocallyAllowed(service[f]) /\ Scored(f, "bad")
  /\ Goto(f, "skipped")
  /\ UNCHANGED <<trouble, now, runVars, runOf, service, amount, auth, settledAt,
                 ledgerVars>>

\* Allowed, also when the score cannot be read: the request goes out.
Start(f) ==
  /\ AtGate(f)
  /\ LocallyAllowed(service[f])
  /\ \E score \in {"unread", "good"} : Scored(f, score)
  /\ Goto(f, "fetching")
  /\ UNCHANGED <<trouble, now, runVars, runOf, service, amount, auth, settledAt,
                 ledgerVars>>
-----------------------------------------------------------------------------
(* The request, its payment and its row. *)

\* Without a payment: a free answer, or one of the client's exceptions.
EndsUnpaid(f) ==
  /\ pc[f] = "fetching"
  /\ Goto(f, "unpaid")
  /\ UNCHANGED <<trouble, now, runVars, runOf, service, amount, auth, settledAt,
                 ledgerVars, cache>>

Spent(r) == TotalOf({f \in MadeBy(r) : pc[f] \in Charged}, amount)

\* The seller's quote fits what is left of the run's budget: the client charges it,
\* signs and sends.
Pay(f) ==
  /\ pc[f] = "fetching"
  /\ \E price \in Quotes :
       /\ Spent(runOf[f]) + price <= Budget
       /\ amount' = [amount EXCEPT ![f] = price]
  /\ auth' = [auth EXCEPT ![f] = "sent"]
  /\ Goto(f, "paying")
  /\ UNCHANGED <<trouble, now, runVars, runOf, service, settledAt, ledgerVars,
                 cache>>

\* The seller settles the authorization.
Settle(f) ==
  /\ auth[f] = "sent"
  /\ pc[f] = "paying" \/ "lost" \in trouble
  /\ auth' = [auth EXCEPT ![f] = "settled"]
  /\ settledAt' = [settledAt EXCEPT ![f] = now]
  /\ UNCHANGED <<trouble, now, runVars, pc, runOf, service, amount, ledgerVars,
                 cache>>

\* Plausible bug: the ledger keeps the rows of the last hour.
RecordBriefly(f) ==
  /\ rowAt' = [rowAt EXCEPT ![f] = now]
  /\ ledger' = {g \in ledger \cup {f} : rowAt'[g] > now - Hour}

\* SqliteSpendLedger.record: a row for the payment, and old rows are pruned.
Record(f) ==
  /\ rowAt' = [rowAt EXCEPT ![f] = now]
  /\ ledger' = {g \in ledger \cup {f} : rowAt'[g] >= now - Retention}

\* The answer shows a success or a transaction: payment_settled, which records the
\* payment unless the ledger fails.
Answer(f) ==
  /\ pc[f] = "paying"
  /\ auth[f] = "settled" \/ "lost" \in trouble
  /\ \/ Record(f)
     \/ "deaf" \in trouble /\ UNCHANGED ledgerVars
  /\ Goto(f, "paid")
  /\ UNCHANGED <<trouble, now, runVars, runOf, service, amount, auth, settledAt,
                 cache>>

\* A conclusive rejection: the client refunds the payment.
Reject(f) ==
  /\ pc[f] = "paying"
  /\ auth[f] = "sent"
  /\ auth' = [auth EXCEPT ![f] = "rejected"]
  /\ Goto(f, "rejected")
  /\ UNCHANGED <<trouble, now, runVars, runOf, service, amount, settledAt,
                 ledgerVars, cache>>

\* The answer is lost, or does not tell: payment_unknown, which records nothing.
Lose(f) ==
  /\ "lost" \in trouble
  /\ pc[f] = "paying"
  /\ Goto(f, "unknown")
  /\ UNCHANGED <<trouble, now, runVars, runOf, service, amount, auth, settledAt,
                 ledgerVars, cache>>
-----------------------------------------------------------------------------
Tick ==
  /\ now < MaxTime
  /\ now' = now + 1
  /\ UNCHANGED <<trouble, runVars, callVars, ledgerVars, cache>>

Terminated ==
  /\ \A r \in Run : node[r] = "end"
  /\ UNCHANGED vars

RunStep(r) == Plan(r) \/ PlanEnds(r) \/ ToolsReturn(r)
CallStep(f) ==
  \/ Skip(f) \/ Start(f) \/ EndsUnpaid(f) \/ Pay(f) \/ Settle(f)
  \/ Answer(f) \/ Reject(f) \/ Lose(f)

Next ==
  \/ \E r \in Run : RunStep(r)
  \/ \E f \in Fetch : CallStep(f)
  \/ Tick
  \/ Terminated

Spec == Init /\ [][Next]_vars
-----------------------------------------------------------------------------
(* Properties. *)

Settled == {f \in Fetch : auth[f] = "settled"}

\* The payments settled in a window that ends when f settled.
SettledBefore(f, window) ==
  {g \in Settled : settledAt[g] \in (settledAt[f] - window)..settledAt[f]}

\* As long as the ledger works and no answer is lost, whatever has settled stays on
\* the books for as long as a cap looks back: a call that has returned has its row,
\* dated no earlier than the payment settled.
SettledIsRecorded ==
  trouble \cap {"lost", "deaf"} = {} =>
    \A f \in Settled :
      pc[f] \notin InFlight /\ settledAt[f] >= now - Day =>
        f \in ledger /\ rowAt[f] >= settledAt[f]

\* What spending.py says of the daily cap: in no day, of any number of runs, is it
\* overshot by more than one service price, of the highest price there is.
OvershootIsOnePrice ==
  \A f \in Settled : TotalOf(SettledBefore(f, Day), amount) <= DailyCap + MaxAmount

\* When calls do not overlap, no answer is lost and the ledger works, the overshoot
\* is always less than that price: the last payment passed the gate below the cap.
DailyCapHolds ==
  trouble = {} =>
    \A f \in Settled : TotalOf(SettledBefore(f, Day), amount) < DailyCap + MaxAmount

\* Under the same conditions no hour sees more payments than the velocity cap.
VelocityCapHolds ==
  trouble = {} =>
    \A f \in Settled : Cardinality(SettledBefore(f, Hour)) <= HourlyCap

\* The payments to the host of f in the day that ends when f settled.
SettledToHost(f) ==
  {g \in SettledBefore(f, Day) : HostOf[service[g]] = HostOf[service[f]]}

\* Under the same conditions no provider is paid in a day its cap and one service
\* price more.
ProviderCapHolds ==
  trouble = {} =>
    \A f \in Settled : TotalOf(SettledToHost(f), amount) < ProviderCap + MaxAmount

\* The calls between the gate and their answer, in which no row speaks for them.
Flying == {f \in Fetch : pc[f] \in InFlight}

\* What the caps are worth when calls overlap: as many prices, or payments, more as
\* there are calls in flight at a time.
CapsWithin(k) ==
  trouble \subseteq {"overlap"} =>
    \A f \in Settled :
      /\ TotalOf(SettledBefore(f, Day), amount) < DailyCap + k * MaxAmount
      /\ Cardinality(SettledBefore(f, Hour)) < HourlyCap + k
      /\ TotalOf(SettledToHost(f), amount) < ProviderCap + k * MaxAmount

AtMostFlying(k) == Cardinality(Flying) <= k

\* Whatever goes wrong with the ledger and the answers, and however the calls of a
\* run overlap, the run's budget bounds what its authorizations have moved or may
\* still move.
BudgetBoundsRun ==
  \A r \in Run :
    TotalOf({f \in MadeBy(r) : auth[f] \in {"sent", "settled"}}, amount) <= Budget

\* The reduced clients of the runs keep the promise that PaymentClient keeps.
Promise == INSTANCE ClientPromise WITH
  Request <- Fetch,
  Client  <- Run,
  client  <- runOf,
  amount  <- [f \in Fetch |-> IF auth[f] \in {"sent", "settled"} THEN amount[f] ELSE 0]

ImplementsClient == Promise!Spec
=============================================================================
