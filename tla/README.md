# Verification of arc-agent-pay

TLA+ specifications of `arc_agent_pay`, a Python library with which an agent
pays HTTP services in USDC (HTTP 402, x402, EIP-3009 authorizations), and of the
contracts and relays that stand behind it. TLC checks small instances; TLAPS
proves the central promises for every value of the constants.

## 1. The system

| Part | State it keeps | Operations | Interacts with | Correct when |
|---|---|---|---|---|
| Payment client (`interceptor.py`, `budget.py`) | budget spent, idempotency cache, one `Payment` per running request | paid-request handler, resume by payment ID, cancel | journal, seller, signer | no request signs beyond budget or limits; no ID is settled twice; an outcome that is not known is never released |
| Payment journal (`payment_store.py`, `policy.py`) | one row per payment ID, shared by processes | `reserve`, `update`, rolling totals | every client | limits hold in each window; a closed ID stays closed |
| MCP session (`mcp_server/`) | spent, ceiling | `pay_and_fetch` | a fresh client per call | ceiling kept |
| Spending caps (`spending.py`), reputation gate (`agent/trust.py`) | ledger shared by runs, trust policy, cached scores | `check`, `record`, `evaluate` | agent nodes | caps kept up to the documented overshoot |
| Validation escrow (`contracts/ValidationEscrow.vy`, `workflow/`) | one escrow per id, token balance | fund, release, refund_rejected, refund_timeout | client, provider, verifier, token | exactly one payout of what was funded, and never none for ever |
| Warranty bond (`contracts/WarrantyBond.vy`) | a bond per provider, replay keys of disputes and payments | deposit, refund | relay | each payment refunded at most once, out of its own provider's bond |
| Settlement relay and assurance store (`assurance/settlement.py`, `bond.py`, `store.py`) | evidence, dispute and settlement rows of one SQLite file | settle: preflight, send, resolve, wait | chain, bond, GenLayer | a refund is broadcast once, and the journal tells what happened on the chain |
| Demo provider (`assurance/demo_provider.py`) | one record per authorization, a lock | handle: verify, submit, wait, record | chain, client | served means paid; an authorization on record is never sent again |
| GenLayer adjudication (`assurance/genlayer*.py`, `genlayer/contracts/`) | transactions, verdicts | deploy, adjudicate, wait for finality | validators, scripts | one verdict per dispute; what a sender says of a failure is to be relied on |
| Demo scripts (`scripts/`) | one artifact file for each | deploy, fund, pay, open, adjudicate, refund; resume | all of the assurance side | a script that is stopped and run again does nothing twice and believes nothing that is not so |
| Agent (`agent/`) | state of one run | discover, gate, pay, synthesise | client, caps, registry | nothing is paid that a gate refused |
| Registry, ERC-8004 identity, ERC-8183 jobs, Circle gateway, wallets, LLM, observability | caches, counters | lookups, API calls | external services | no promise of a protocol kind |

What is hard here: handlers that suspend at every network call while others of
the same session run; processes that share one SQLite journal; cancellation and
crashes between reserving, signing, sending and recording; sellers that settle
after the client has given up; stores that fail half-way; payments resumed under
their old ID hours later, by another session, or twice at once; and, on the
assurance side, transactions whose broadcast has an unknown fate, sent by scripts
that stop between the broadcast and the file that names it. The list of
hazards, each at its line, is in `PROJECT.json`.

## 2. Modules

| Module | Models |
|---|---|
| `UnitSums` | sums of amounts over a finite set, as the number of unit shares |
| `PaymentJournal` | the content of one payment store, the policy, and the outcomes of `reserve()`, as operators |
| `PaymentClient` | the handler `_BudgetEnforcingTransport.handle_async_request` as a process per request, over a shared journal; the budget guard, cache, fallback store; seller, crash and clock as environment |
| `PaymentLedger` | abstract specification of what the journal and the clients promise: each ID goes from unused to open and then to paid or void, within the limits |
| `ClientPromise` | abstract specification of a client with a budget: one authorization for a request, what is out within the budget |
| `MCPSession` | `MCPSession.pay_and_fetch` as a process per tool call over one total, with the payment client reduced to its promise |
| `EscrowPromise` | abstract specification of an escrow: an order is funded once and leaves once, in full |
| `ValidationEscrow` | the contract, one action per external function, with its token, block time, and signers that may sign anything |
| `EscrowRelay` | extends `ValidationEscrow` by the client of `workflow/escrow.py`: checks, pending transactions, mining and loss |
| `AgentRun` | runs of the research agent: the planner loop or the linear pipeline, the gate, the ledger and its caps, a process per `fetch_service` call |
| `AssuranceKeys` | the identifiers that store, GenLayer contract and bond agree on |
| `WarrantyBond` | the contract, with what the token credits to it |
| `AssuranceJournal` | the dispute and settlement rows of `AssuranceStore`, and the moves it lets them make |
| `RefundPromise` | abstract specification of warranty refunds: a payment is claimed by one dispute and paid back once |
| `SettlementRelay` | `AssuranceSettlementRelay.settle` run by several workers over one journal and one bond, with transactions that are lost, dropped, reverted |
| `GenLayerClient` | GenLayer transactions from the sending to finality, and the assurance contract |
| `Provisioning` | the scripts that deploy the bond, fund it, and deploy the GenLayer contract |
| `DemoProvider` | the demo's seller, a thread for each request |
| `DemoPayment` | the script that pays the seller and keeps the evidence |
| `Adjudication` | the scripts that open the dispute and send it to GenLayer, and the settlement binding |
| `RefundScript` | the script that runs the relay once and checks what it did |
| `DemoLifecycle` | all of these, from the deployment to the refund |
| `MCPaymentClient`, `MCMCPSession`, `MCValidationEscrow`, `MCEscrowRelay`, `MCAgentRun`, `MCSettlementRelay`, `MCDemoLifecycle` | small instances |
| `UnitSumsProofs`, `PaymentJournalProofs`, `PaymentClientProofs`, `MCPSessionProofs`, `EscrowProofs`, `AgentRunProofs`, `SettlementProofs`, `AssuranceProofs` | theorems and their proofs |

### PaymentJournal

A store is a partial function from payment IDs to rows. `reserve()` runs under a
lock (memory) or in one `BEGIN IMMEDIATE` transaction (SQLite), so it is atomic:
`Opens`, `Resumes` and `Refuses` are its three outcomes and exclude each other.
The rolling totals count rows with a status in `COMMITTED_STATUSES` whose age is
at most the window. The terms of a payment (URL, method, body, network, asset,
payee) are one `Resource`; amounts are integers of atomic units, as the
comparison of `Decimal` values is exact. A limit that is not configured is a
number that the instance cannot reach. A sum of amounts is written as the number
of *units* of the payments, `Cardinality(Units(S, amountOf))`: the value is the
sum, and the library's theorems about cardinalities apply to it.

### PaymentClient

`pc[r]` says where the handler of request `r` is suspended:

| `pc` | In `handle_async_request` |
|---|---|
| `idle` | before line 281 |
| `probing` | awaiting the unpaid response (296) |
| `quoted` | before `_reserve_payment` (346) |
| `reserved` | the reservation is new, before the budget check (366) |
| `signing` | awaiting `create_payment_payload` (405) |
| `paying` | awaiting the paid retry (454) |
| `caching` | awaiting the body that `_idem_put` keeps (502) |
| the rest | returned or raised: `replayed`, `unpaid`, `refused`, `blocked`, `failed`, `paid`, `cached`, `unknown`, `error`; `dead` when cancelled or crashed |

A step is the code between two points at which someone else can act. Handlers of
one session share an event loop, so `HasLoop` lets a handler that is at `quoted`
or `reserved` (there is no await between these and the next one) exclude the
others of its session; handlers of other sessions interleave there as well,
because each store call commits on its own. `payment[r]` is the handler's *copy*
of the row, and `Save` overwrites the stored row with it, as `update()` does.
`StoreMayFail` lets every store call raise `PaymentStoreError`; `FailClosed` is
the policy's switch, with `fallback[s]` the process-local store used when it is
off. An error raised by `sqlite3.connect` itself is not a `PaymentStoreError`
and ends the handler in either mode.

The environment: `auth[r]` is what became of the authorization sent for `r`. The
seller may settle it at any time after it was sent, whatever it answers and even
if the client is dead (`Settle`), except that one that declares
`payment-identifier` settles an ID once, and that a conclusive rejection
(`PaidRejected`, a second 402 or a reported settlement failure) is true. `Cancel`
is `CancelledError` at an await; the handler catches `Exception` and so leaves
everything as it is. `Crash` ends a process anywhere.

`SerialIds` is a condition on callers, that no ID is used by two live requests
at once. The code does not enforce it; runs check with it and without it.

### PaymentLedger

`PaymentLedger` knows nothing of handlers: an ID is `unused`, `open`, `paid` or
`void`. Opening respects the limits, paying needs an open ID, voiding an open one
releases it, and paid and void are final. `ImplementsLedger` maps the journal and
the seller's answers to it: paid when an authorization for the ID has settled,
void when the journal has closed it.

### ClientPromise

`ClientPromise` is what the agent and the MCP server rely on in a payment client: a
request sends one authorization at most, its amount and what the same client has out
already stay within the budget, and what was rejected is not taken. `ImplementsClient`
maps each of three modules to it: in `PaymentClient` the payments that a request has
opened and that are not known to be rejected (`AtStake`), in `AgentRun` and `MCPSession`
the reduced clients. So the reduction is not a guess: what those modules let their
clients do is within a promise that the full client keeps as well.

### MCPSession

A call of the tool is `idle`, `fetching` (its client exists, nothing is signed),
`paying` (the authorization is out) or ended. What `pay_and_fetch` does before
its first await is one step (`Refuse`, `NotFound`, `Start`), and what it does
after its last one is another (`Answer`, `Reject`). `remaining[c]` is the local
variable and so the budget of the call's client; `charged[c]` is that client's
`budget_guard.spent`. The client is reduced to what `PaymentClient` shows of one
request: it signs within its budget (`Pay`), and refunds a conclusive rejection
(`Reject`). The seller may quote any amount, not the registered price.
`trouble` is chosen once, at the start: whether the host issues a call while
another runs (`"overlap"`, as FastMCP lets it), and whether a paid request may end
in `PaymentTimeoutError` or a cancellation (`"cut"`), in which case
`self.spent +=` is skipped. So one run covers all four conditions.

### ValidationEscrow and EscrowRelay

`status` is the contract's mapping; an order stands for its hash and a delivery
for its own, so two of them are equal exactly when their hashes are. A signature
is a pair of signer and verdict in `signed`: it cannot be forged, and malleable
or malformed ones (`v`, `s`) recover nobody. Every function is one transaction:
its assertions and the token's are the guard (`CanFund`, `CanRelease`,
`CanRefundRejected`, `CanRefundTimeout`), and since a failed one reverts
everything, nothing happens without it. The token is modelled from the test
double `MockEIP3009.vy` and from what the contract calls. Terms that are checked
once and never change (zero addresses, chain, asset, zero hashes, score) are left
out of `ValidOrder` and `VerdictStands`; those that relate parties, amounts and
times are kept. `Transfer` lets anyone send tokens, to the contract as well.

`EscrowRelay` puts the client in front: `Submit` is a method of `EscrowClient`
up to `send_raw_transaction`, with the checks of the pydantic models
(`ClientOrder`, `ClientObjects`), of `verify_signed_verdict` and of
`verify_funding_authorization`; `Mine` is the transaction's execution in a later
block; `Lose` is one that is replaced or dropped. The gas estimate that web3 asks
of the node before sending would refuse some transactions that cannot succeed at
that moment: the model lets them be sent, and then they revert.

`EscrowPromise` knows a vault and the states of orders: opening one adds its
amount, closing it takes the amount out, once, and what is owed is always
covered. `ImplementsPromise` maps the contract's balance to the vault.

### AgentRun

A run is at its `planner`, in its `tools` or at its `end` (the synthesizer only
reads). `Plan` is a planner node that asks for tools and is routed to them:
`steps_left` is counted down first, as `make_planner` does, and compared with zero
afterwards. The calls of a step are `queued` and go on independently, as
`ToolNode` runs them concurrently; those of a run in `Linear` go one after the
other. A step may queue no call at all (discovery, a name that is not found).

`Skip` and `Start` are the two outcomes of `gate.evaluate`, which does not
suspend: kill switch and lists (`ListsRefuse`), the caps (`CapReached`), the
identity and the score, in this order, which matters because a score is read, and
cached for the agent (`Scored`), only when nothing before has refused. The client
is reduced to one request, with the run's budget (`Pay`). `Answer` is
`payment_settled`: the recording in `_wrap_on_event` belongs to the same step, with
the pruning of `SqliteSpendLedger.record`. The clock is read at the gate, at the
row and, as a fact of the world, at the settlement.

`trouble` is again chosen at the start: `"overlap"` (a call starts while another
one, of any run, is in flight), `"lost"` (an answer is lost or does not tell, or the
seller settles only after it) and `"deaf"` (reads and writes of the ledger may
fail). The caps are promised for none of these; the budget for all of them.

### WarrantyBond, AssuranceJournal and SettlementRelay

The contract has two functions that write. A call that breaks an assertion
reverts and is no step; `MaxAmount` stands for the largest `uint256`. `held` is
what the token credits to the contract, `deposited` and `refunds` are history.

`AssuranceJournal` has the row of each dispute and of its settlement. A write is
one `BEGIN IMMEDIATE` transaction. `DisputeMoves` and `SettlementMoves` are the
tables of allowed transitions, `ValidRow` is the part of
`SettlementRecord.validate_record` that the moves can meet, and `InsertSettlement`
looks for rows with the dispute, the payment or the binding hash of the new one.
A record that equals the stored one is accepted and changes nothing
(`EchoSettlement`). As records carry an `updated_at` that exceeds the one of the
copy they were made from, two writers can produce equal records only when they
read the clock at the same microsecond: `ClocksTie`. `attempt_count` follows from
the status and is left out.

`SettlementRelay` gives a worker a place in `settle` and a copy of the row:

| `pc` | In `settlement.py` |
|---|---|
| `idle` | not in `settle`, or it has raised or returned |
| `create` | found no row, before `create_settlement` |
| `flags`, `balance` | `_preflight`, before the replay flags and before the bond is read |
| `write` | in `_transition` with the record `goal[w]` |
| `send` | in `submit_refund` |
| `resolve` | `_resolve_ambiguous` |
| `wait` | `_resolve_pending` |

Each chain read, database write and broadcast is a step of its own, between which
other workers run, blocks are mined and the worker may die. `Send` has the four
outcomes of the client: sent with its hash, sent with the answer lost, not sent
and known to be, not sent and not known. Gas is estimated before the sending, so
nothing goes out that the chain would not admit at that moment; it may still
revert when it is mined (`Mine`) or disappear (`Drop`). The branch of
`_resolve_ambiguous` that looks for a receipt by hash is not modelled:
`WarrantyBondClient` never puts a hash into the error it raises, so it cannot be
reached. `ForeignRefund` is a relay with another journal and the same key.

`RefundPromise` knows what has been paid, and what the journal says and claims. A
dispute claims one payment that no other claims, keeps to it, and is written off
as refunded only when its payment has been paid back.

### GenLayerClient and the demo scripts

`GenLayerClient` keeps a transaction as `active` until it is finalized or
canceled: all reads ask for final state, so the rounds in between cannot be seen.
A sending may fail at three `Points`, and `MayBeSent` says what then may be true. What
the transport calls the failure (`submission_error`) is not in the model: the scripts
end on each of them. Nor can it be relied on for an error of `eth_sendRawTransaction`
itself: one that is not a lost connection, such as a gateway's, is raised as a plain
failure, and the transaction may be out all the same.
Identifiers are used in order, which loses nothing as they are opaque.

Only one script runs at a time. `proc` is where it is and what it holds in
memory; `Stops` is an exception, a timeout or the death of the process, anywhere.
Every write of an artifact, every broadcast and every wait is a step. A broadcast
ends with what came back in `proc.held`, or with the script gone and the
transaction out.

* `Provisioning`: `deploy_warranty_bond.py` with its pending file, artifact and
  packaged address; `fund_warranty_bond.py` with approval and deposit, their nonce
  order, the allowance on the chain, and the balance checks; `deploy_genlayer_assurance.py`
  with its resumption by any identifier the operator has seen.
* `DemoProvider`: `handle` per thread. The clock is read before the lock, the record
  under it; the lock is held from there to the answer. `Expire` puts an
  authorization into its last seconds. Anyone may present one again.
* `DemoPayment`: the buyer's script. The client's own journal is `PaymentClient`;
  here one authorization is presented and an answer comes or does not. The event
  is noted in the artifact before the observer stores the evidence.
* `Adjudication`: `OpenDispute` and `PersistDispute` are
  `prepare_assurance_demo_dispute.py`; the steps from `SubmitAdjudication` to
  `FinalizeAdjudication` are `submit_assurance_demo_adjudication.py`.
  `ValidBinding`, `EligibleBinding` and `SettlementPreview` are `validate_binding`,
  `ensure_eligible` and `_settlement_preview`.
* `RefundScript`: one worker (`Runner`) of the relay. `SendRefund` hands the hash to
  `on_transaction` (`RecordRefund`) before the relay learns it.

`DemoLifecycle` puts them together. The files, the store, and the contracts are
what connects the stages. The operator turns to the next of the first stages when
the artifact of the one before is complete (`Funded`, `glArtifact`), and has the
service running for the payment alone. Once an address or an artifact is
configured, stray deployments of that stage are frozen, as nothing looks at them
again; a stray settlement is still mined after the payment is verified. The token, the nonce of an account, the operator and GenLayer's judges are
external and modelled from what the scripts ask of them.

## 3. Runs

The `Payment` instances have three requests (two of one session, one of another),
two payment IDs, two resources on two hosts and a clock of at most one tick. Three
requests on two IDs is the least that has a resume racing an open and a third
party counting the limits; two windows of different length (day 1, hour 0)
separate the limits; amounts 1 and 2 against caps 2 and 3 make a cap reachable
exactly and from below. IDs are symmetric where the properties are not temporal.
`PaymentFailOpen`, where every store call has three outcomes and liveness is
checked, has two requests of one session. What failing stores do to the other
promises is proved, not checked (`SerialIds` and `FailClosed` are the only
conditions of those theorems).

The `Session` instances have three calls, two services at 1 and 2 and a ceiling of
3: two calls can exceed it, and a third one can find it exhausted exactly. The
`Escrow` instances have one payer, provider and validator, orders with delivery
deadline 2 and refund time 3, and deliveries and verdicts on either side of each
of these times. `EscrowOrders` has two such orders and one with its deadlines in
the wrong order, which share the balance. Two signatures, of the validator or of
another, are enough for contradictory and foreign verdicts. At most two
transactions with a verdict are pending, so one can be overtaken by the other.
`MaxTime`, `MaxSigned` and `MaxPending` are bounds of the models alone.

The `Agent` instances have two hosts, one with an identity, a day of 2, an hour of
1, rows kept for a day and a clock to 3, so that a payment can leave either window.
Two calls (`MaxFetches`) at 1 or 2 are enough to pass each cap (2 a day, 1 an hour,
1 for a provider) by more than it allows, as the mutants show, in one step, in two
steps (`MaxSteps = 3`) or in two runs. `AgentBatch` has a daily cap of 1, so that two
calls pass it by more than a price.

`RefundRelay` has two workers, three bindings of two disputes (two of them bind one
dispute in different ways), one provider with a bond of at most 2, refunds of 1 and
2, two hashes, and foreign refunds of one payment under either dispute. So a second
broadcast for a dispute would find a hash, one refund can exhaust the bond of
another, and a foreign one can come before, between and after every step
(693,630 states). `DemoLifecycle` has one dispute, but two deployments of the bond,
two settlements of the payment, three GenLayer transactions (a deployment and two
adjudications, or the other way round), three funding transactions (one more than
a funding needs), two threads and two presentations of the authorization. All
scripts together may be started twice more than needed (`MaxReruns = 2`): enough to
stop twice in one stage, after both of its broadcasts, or once in each of two
(784,588 states). `MaxFunding`, `MaxPresented`, `MaxReruns` and `MaxDeposit` are
bounds of the models alone; the theorems hold for every value of them.

| Run | Question | Result |
|---|---|---|
| `PaymentSerial` | With a reliable store and serial IDs, are the limits kept, settled payments charged and never released, and does the client implement the ledger? | holds |
| `PaymentFailOpen` | Failing open on a failing store, is the budget exact, the promise of the client kept, a repeat answered from the cache until it expires, and every reservation resolved? | holds |
| `PaymentLostUpdate` | "Only a conclusive failure releases a rolling policy reservation" | violated |
| `PaymentResumeBudget` | "Each payment is checked against the remaining budget before it is signed" | violated |
| `SessionCalls` | Is the session's total exact however calls overlap and end, and the ceiling kept, but for calls that were cut short, when they do not overlap? | holds |
| `SessionOverlap` | "an MCP host can never exceed the configured ceiling", with calls that overlap | violated |
| `EscrowOrders` | Does the contract cover what it owes, move money only by right, and implement the abstract escrow? | holds |
| `EscrowClients` | Do library and contract agree on verdicts, do checked verdicts stay good, and is every funded order resolved? | holds |
| `AgentCaps` | Do the caps hold up to one price without overlap, does what settles stay on the books, and does the budget bound a run whatever fails? | holds |
| `RefundRelay` | With two workers, crashes and lost answers, is one refund broadcast for a dispute, for what was upheld, and does the journal tell the truth? | holds |
| `DemoLifecycle` | With every script stopped anywhere and run again, is the bond deposited once, the refund earned, and every artifact true? | holds |
| `AgentBatch` | "may overshoot the cap by at most one service price", with two calls in one planner step: cap 1, two payments of 2, 4 in a day | violated |

The violated ones, in words:

* **Lost update.** Requests A (opener) and B (resuming the same ID) are both
  paying. B's answer is ambiguous or lost; A's is a conclusive failure. A's save
  closes the row for both, while B's authorization can still settle.
* **Resume and budget.** A resumed payment is not charged, which is right for the
  session that opened it. A second session that resumes it signs without any look
  at its own budget.
* **Overlap of tool calls.** Two calls read the same remainder before either adds
  what it spent; each client keeps to its own budget, their sum does not.
* **Batch of fetches.** The planner asks for two services in one message. Both calls
  pass the gate, which reads the ledger, before either payment has settled and is
  recorded. Two payments of the highest price, 2, make 4 in a day, and the cap of 1
  with one price more is 3. How far this can go is proved: by less than as many prices
  as calls are in flight at a time (`AgentOvershoot`).

Some more disagreements were met with the same models under other constants, and
are not kept as runs:

* A lost answer (`Conditions = {{"cut"}}`) violates `CeilingKept` as well: the
  exception leaves `pay_and_fetch` before the addition, though the authorization is
  out and may settle.
* With `StoreMayFail`, `BudgetCoversSettled` is violated: the refund precedes the
  save that closes the payment. If the save fails, the row stays `authorized`, and
  the retry under the same ID resumes it uncharged.
* With `FailClosed = FALSE`, `UnsupportedIdSignedOnce` is violated: the fallback
  store does not know the ID and opens it as new, and the check for the seller's
  support, which only a resume meets, is skipped.
* `DailyCapHolds` needs `"lost" \notin trouble`: a payment that ends in
  `payment_unknown` is not recorded, and when it settles no cap has counted it.
* `reserve()` returns an existing row without `check_totals`. Resumed after its
  window has passed, a payment is signed although the current window is full; the
  row keeps its old `created_at` and is never counted again.

* With `ClocksTie`, `OneBroadcast` is violated: a second worker's record of
  `submission_attempted` equals the first one's, `update_settlement` accepts it as
  repeated, and both send ("The relay sends exactly one transaction",
  `docs/assurance.md:173`). The bond still pays once. It takes two processes that
  read the same microsecond.
* `run_assurance_demo_refund.py` run again after its refund was mined stops at its own
  checks of an untouched bond (lines 329 to 331 and 345 to 346) and never reaches the
  relay that would have resumed the pending row ("only that transaction is resumed or
  polled", `docs/assurance.md:173`).
* An error of `on_transaction`, after the broadcast, reaches the `except Exception` of
  `settle` (lines 591 to 597) and the row says `failed_before_submission` though the
  transaction is out. Nothing is sent twice, as that status is final.
* `deploy_warranty_bond.py` stopped between its artifact and the packaged address refuses
  every later run, with and without the hash.
* The balance checks of the funding and payment scripts are exact in gas: after a
  broadcast that no artifact names they can never pass again.
* The seller looks at the expiry before its record: a payment it has confirmed is
  answered 402 when it is presented late.
* The payment script stopped between the event and the evidence cannot be resumed.
* A dispute that was sent twice to GenLayer, the second time by a run that recorded
  it, gets its verdict from the first transaction. The second one raises in the
  contract, its waits never return, and the dispute stays `adjudicating`
  (`docs/assurance.md:242` says "submit once").

Fairness (`FairSpec`): weak fairness of each started handler. `httpx` bounds each
network wait (`timeout=30`), SQLite its lock wait, and the loop runs ready
callbacks in turn. Nothing is assumed of the seller, of crashes, or of callers.

Fairness (`FairRelay`): blocks go on (weak, on the clock), a payer whose order is
due sends the timeout refund again while none is pending (weak, on `Submit`), and
of those it sends again and again one is mined (strong, on `Mine`). The second is
a condition on the payer, the only party that needs to act; the third is what the
chain offers a transaction that is valid and keeps being sent. Nothing is assumed
of validators, providers or other transactions.

`RefundRelay` and `DemoLifecycle` assume no fairness and claim no liveness: the relay
and the scripts give up by design and wait for an operator who need not come.

Deadlock is checked in the runs of clients, sessions, agents and escrows:
`Terminated` is the one state of rest of the first three, `EndOfTime` the bound at
which the escrow models stop. `RefundRelay` and `DemoLifecycle` do come to rest when
everything is settled or every restart is used up, and do not check it.

## 4. Proofs

For every value of the constants that satisfies the assumptions of the modules
(finite sets of requests, IDs, calls and orders, functions of the right type, caps
and amounts that are naturals):

| Theorem | States | Conditions |
|---|---|---|
| `TypeCorrect` | `Spec => []TypeOK` | none |
| `BudgetExact` | `Spec => []BudgetIsExact` | none: failing stores, shared IDs and fail-open included |
| `RollingLimitsHold` | `Spec => []LimitsHold` | `SerialIds`, `FailClosed` |
| `OnlyUnpayableClosed` | `Spec => []ClosedMeansUnpayable` | `SerialIds`, `FailClosed` |
| `FinalStatusKept` | `Spec => FinalStatusStays` | `SerialIds`, `FailClosed` |
| `ClientImplementsLedger` | `Spec => ImplementsLedger` | `SerialIds`, `FailClosed` |
| `SignedOncePerId` | `Spec => []UnsupportedIdSignedOnce` | `FailClosed` |
| `NoDoubleSettlement` | `Spec => []SettledOncePerId` | `FailClosed` |
| `BudgetCovers` | `Spec => []BudgetCoversSettled` | `SerialIds`, `FailClosed`, `~StoreMayFail` |
| `OpenedBudgetHolds` | `Spec => []OpenedWithinBudget` | none: failing stores, shared IDs and fail-open included |
| `WrittenAhead` | `Spec => []RecordedBeforeSent` | `FailClosed` |
| `ClientKeepsPromise` | `Spec => ImplementsClient` | none |
| `ReplayHolds` | `Spec => RepeatReplays` | none (the property is about a kept response that outlives the run) |
| `SessionTypeCorrect`, `SpentExact` | `Spec => []TypeOK`, `Spec => []SpentIsExact` (MCPSession) | none |
| `CeilingHolds` | `Spec => []CommittedWithinCeiling` (for no overlap, calls that were cut short excepted) | none |
| `SessionKeepsPromise`, `AgentKeepsPromise` | `Spec => ImplementsClient` (MCPSession, AgentRun) | none |
| `EscrowTypeCorrect`, `EscrowSolvent` | `Spec => []TypeOK`, `Spec => []Solvent` | none |
| `EscrowMovedByRight` | `Spec => MovedByRight` | none |
| `EscrowKeepsPromise` | `Spec => ImplementsPromise` | none |
| `RelayPendingGood`, `RelayClientAgrees` | `RelaySpec => []PendingVerdictsGood`, `RelaySpec => []ClientAgrees` | none |
| `RelayKeepsContract` | `RelaySpec => [](TypeOK /\ Solvent) /\ Spec` | none |
| `AgentTypeCorrect` | `Spec => []TypeOK` (AgentRun) | none |
| `AgentBudgetBounds` | `Spec => []BudgetBoundsRun` | none: overlap, lost answers and a failing ledger included |
| `AgentSettledRecorded` | `Spec => []SettledIsRecorded` (for no lost answer, a working ledger) | none |
| `AgentDailyCap`, `AgentVelocityCap`, `AgentProviderCap` | `Spec => []DailyCapHolds` and so on (for `trouble = {}`) | none |
| `AgentOvershoot` | `Spec /\ []AtMostFlying(k) => []CapsWithin(k)` (for no lost answer, a working ledger) | `k \in Nat` |
| `LinearOvershoot` | `Spec => []CapsWithin(Cardinality(Run))` (likewise) | `Linear = Run`, `IsFiniteSet(Run)` |
| `RelayTypeCorrect`, `BondConserved`, `BondRefundsOnce` | `Spec => []TypeOK`, `[]Conserved`, `[]RefundedOnce` (SettlementRelay) | none |
| `RelaySendsUpheld`, `RelayTellsTruth` | `Spec => []SentIsUpheld`, `[]ConfirmedIsRefunded` | none |
| `RelayKeepsPromise` | `Spec => ImplementsPromise` | none |
| `RelayBroadcastsOnce` | `Spec => []OneBroadcast` | `~ClocksTie` |
| `ProviderTypeCorrect`, `ProviderServesPaid` | `ProviderSpec => []ProviderTypeOK`, `[]ServedMeansPaid` | none |
| `ProviderNeverResends` | `ProviderSpec => RecordedNeverResent` | none |
| `LifecycleInvariant`, `LifecycleTypeCorrect` | `LifecycleSpec => []LifecycleInv`, `[]LifecycleTypeOK` | none |
| `LifecycleBondsOnce`, `LifecycleRefundsEarned` | `LifecycleSpec => []BondedOnce`, `[]RefundIsEarned` | none |
| `LifecycleDecidesByRecord`, `LifecycleFilesTrue` | `LifecycleSpec => []DecidedByRecorded`, `[]ArtifactsTellTruth` | none |
| `LifecycleNeverResends` | `LifecycleSpec => RecordedNeverResent` | none |
| `LifecycleKeepsPromise` | `LifecycleSpec => [](Conserved /\ RefundedOnce /\ SentIsUpheld /\ ConfirmedIsRefunded)` | none |
| `LifecycleImplementsPromise`, `LifecycleImplementsSeller` | `LifecycleSpec => ImplementsPromise`, `LifecycleSpec => ProviderSpec` | none |
| `LifecycleServesPaid` | `LifecycleSpec => []ServedMeansPaid` | none |
| `LifecycleBroadcastsOnce` | `LifecycleSpec => []OneBroadcast` | none: clocks may tie, as one script runs at a time |
| `LifecycleClosingChecks`, `LifecycleRecoversIt` | `LifecycleSpec => []ClosingChecksHold`, `[]RecoveryNamesIt` | none |

`TypeInv` adds to `TypeOK` that a handler past the quote has a payment in hand.

`BudgetInv` adds to `BudgetIsExact` that a request is charged only for a payment
it opened (`ChargedAsOpened`), without which a refund could take back what another
request was charged; the arithmetic is done by `UnitsAdd` and `UnitsRemove`.

`RowsInv` is what makes the blind overwrite of `Save` harmless under `SerialIds`:
at most one live handler holds an ID (`HolderAlone`), its copy equals the row it
will overwrite except for the status (`CopyIsRow`), and the status of the row is
one that the place of its handler allows (`StatusByPlace`). `SentLater` and
`SentByOpener` tie authorizations to places and rows, so that closing a row is
seen to happen only where no authorization for its ID is out. `LimitsHold` then
follows because a save never adds a row to the counted ones (`LimitsAfterSave`),
time only removes some (`LimitsAfterTick`), and opening compares the prospective
totals (`LimitsAfterOpen`).

`FinalStatusKept` and `ClientImplementsLedger` follow from the same invariants,
one step of the client at a time: a save is a step of the ledger or a stutter
because the copy agrees with the row.

`SignedOncePerId` and `NoDoubleSettlement` do without `SerialIds`: rows lose
information when two handlers share an ID, but a row is never removed
(`RowsKept`), it keeps the terms of the payment it was opened for
(`TermsInRow`, `InRow`), and only one reservation ever opens it. So the one
request that signs without asking for the seller's support is the opener, and a
seller that supports it settles an ID once.

`BudgetCovers` adds that while its process lives, who opened a payment stays charged for
it until the journal has closed it (`Accounts`); an opener is charged, closes the row, or
both. A settled payment is not closed (`ClosedMeansUnpayable`), so it maps to the one
request that opened it (`OpenedOnce`), and the sum of the settled ones injects into the
sum that is charged. A store that fails between the refund and the closing save breaks
`Accounts`, hence `~StoreMayFail`. `ReplayHolds` needs only that an entry that was put
for the whole run is neither dropped by a probe, which drops expired ones alone, nor put
back to an earlier expiry (`CacheKept`).

`OpenedBudgetHolds` needs only that an opener stays charged for what it has at stake
(`StakeInv`): the refund comes after a conclusive rejection, whatever the saves do. So
the sum of the stakes injects into the sum that `BudgetExact` bounds. It says less than
`BudgetCovers`, of the request and not of the payment ID, and holds under no condition.
For `ClientKeepsPromise` each step of the handler, the seller and the environment is, under
the same invariants, a step of `ClientPromise` or a stutter. `WrittenAhead` says that a handler past its reservation has its row (`WrittenInv`),
and that no step drops a row or changes its terms (`RowsFirm`); it needs `FailClosed`, as the fallback store writes
elsewhere, and not `SerialIds`.

`MCPSession`: the total is the sum over the answered calls because `charged` of a
call changes only before it is answered. For `CeilingHolds` the strengthening says
that without overlap at most one call is in flight, that it holds the exact remainder,
and that whatever is out belongs to it, to an answered call or to one that was cut
short. The last kind is what the session never adds up (`Forgotten`).

The escrow: `Solvent` is inductive with `TypeOK`, as every transaction changes the
sum of the funded orders and the balance by the same amount (`UnitsAdd`,
`UnitsRemove`); solvency is in turn what makes `CanPay` true, so a payout never
reverts for want of tokens. `RelayPendingGood` rests on the invariant that a pending
verdict passed the client's check at an earlier time, and that each of its
conditions but the status and the expiry, once true, stays true.

`AgentRun`: `CoreInv` says that a run that has not ended has a step left and that
what may move is charged; the budget follows by adding one call to the sum
(`SumAdd`). For the caps, `OnBooks` says where a settled payment is, in the hands of
its call or in the ledger with a date no earlier than its settlement. `Room(k)` looks at
the windows that end now and counts with what has settled in them every call in flight,
at the highest price, whatever it will come to (`Recent`, `Worth`). Only the gate lets
anything into this sum, and what it has not read in the ledger is in flight, k calls at
most (`GateRoom`, from `FlightSum`); every other step, the settlement included, takes
something out or leaves it (`OthersShrink`). A window that ended at an earlier settlement
does not change any more (`PastStays`). So `AgentOvershoot` holds for every k, and the
theorems about one price are its case k = 1 for calls that do not overlap. In the linear
pipeline a run has one call in flight (`OneByOne`), which turns the condition into a fact
(`LinearOvershoot`). The windows of the properties end at a settlement, of which there is
one for every window that has any payment, and not at the gate.

The relay: `BondInv` is inductive for the contract alone, with the replay keys of
every refund set (`RefundsAreKeyed`) and the sums done by `UnitsAdd` and
`UnitsRemove`. `RelayInv` adds what a worker relies on when it acts on its copy
(`WorkerOK`): its dispute stays upheld, its row stays there with its binding, and what
it is about to write is true (`Truthful`). `Forward` collects what no step takes back,
the outcomes on the chain and the decisions of the journal, and from it follows that
no step of another party disturbs any of this (`TruthStays`, `WorkerStays`). Each
action is then one lemma. `OneBroadcast` needs one more invariant, `OnceInv`: at most
one worker of a dispute has the right to send, the one whose
`submission_attempted` was committed; a row that has left `eligible` never returns
to it, and without a tie of clocks an equal record cannot be written twice. That is
where `~ClocksTie` is used, and why TLC finds the violation without it.
`RelayKeepsPromise` follows from `RelayInv` one step at a time: only the insertion of a
row claims (`PromiseClaims`), only its writes decide (`PromiseDecides`), only `Refund`
pays (`PromisePays`).

The seller: `ProviderInv` says that at most one thread is in the lock (`Exclusive`), that
one which settles has found no record (`ThreadOK`), and that a confirmed record names a
mined transaction of its own authorization (`RecordOK`). As a thread puts records of its
own authorization alone, what has a record is never submitted.

The whole demo: `LifecycleInv` has one part for each stage, of what its files and its chain
say and of what the script holds in memory while it is in that stage. `RelayInv` and
`ProviderInv` are taken over as they are: seen from the relay and from the seller, a step
of the whole is a step of their own or changes nothing of theirs (`RelayKeeps`,
`SellerSteps`). The other parts are:

* `DeployInv`: only a mined deployment gets into the artifact, only that into the addresses;
* `FundInv`: approvals come before any deposit, so the first deposit that is mined uses up
  the allowance for good, and a second one, sent by a script that was run again, reverts;
* `GlInv`: an adjudication that succeeded is the one that wrote the verdict;
* `PayInv`: a stored 200 names a mined settlement of the buyer's authorization;
* `AdjInv`: the artifact names an adjudication of this dispute, and what the script
  concluded from its finality is what the contract says;
* `RecoveryInv`: the relay works for the demo's binding alone, refunds are of an upheld
  dispute, a dispute is about a payment that was received, and the recovery file
  follows the relay.

Two frame lemmas keep this from becoming a product of stages and actions: a script in one
stage changes no file of another (`FilesApart`), and it never stands where another keeps
something in memory (`ScriptsApart`). So each part is disturbed by its own script and by
the parties on its chain, and has one lemma (`DeployKeeps`, `FundKeeps`, ...). What a stage needs of
the one before is a fact that no step takes back: a mined settlement stays
(`SettlementsStay`), a verdict stays (`GlForward`), an upheld dispute stays (`DisputesKept`).

The demo is then related to the abstract specifications, not only to invariants: a step
of it is a step of `RefundPromise` (`LifecycleImplementsPromise`) and of the seller
(`LifecycleImplementsSeller`), or a stutter. `LifecycleBroadcastsOnce` does not take
`~ClocksTie` over from the relay: with one script at a time, a run that resumes finds the
row that the last one left, and attempts only what that row says has not been attempted
(`RunnerInv`).
`LifecycleClosingChecks` follows from what the bond has left once the demo's refund is the
only one (`BondAfterRefund`) and from what the script has in hand (`CheckInv`).

The assumptions used are typing facts of the constants and that a missing row or file is
distinguishable from every present one (`RowAssumption`, `FundingAssumption`,
`EvidenceAssumption`, `ArtifactAssumption`, `RecoveryAssumption`): `None` and a record.

Proved and in no run: `OpenedWithinBudget`, `RecordedBeforeSent`, `CapsWithin(k)`,
`UnsupportedIdSignedOnce`, `ServedMeansPaid`, `ClosingChecksHold`, `RecoveryNamesIt`,
`ProviderSpec` of the whole demo, and `ImplementsClient` of the agent and of the session. TLC was
run on small instances of each before it was proved.

Model-checked only: `ReservationsResolve` and `FundsNeverTrapped`, as liveness under
fairness is out of the prover's reach.

## 5. Not modelled

Left out of the payment core: parsing of x402 headers and receipts, the signing
primitive, statistics and history, the exchange observer, and redirects.
Two exceptions that the handler does not catch, in reading a failure reason or
in reading the body, end it where `Cancel` does and are covered by it.

Left out of the MCP server: the read-only tools, and the float arithmetic of the
session's total, which is exact to about nine digits. Left out of the escrow: hashing
and encoding, web3's timeouts. Left out of the agent: the search for services, the
report, events, the cancellation of a whole run, and its end under fairness, which
rests on `steps_left` and on the timeouts of the model and of `httpx`.

Left out of the assurance side: canonical JSON, hashing, redaction and the capture of
bodies; EIP-712 and the decoding of logs; the construction, the prompts and the size
limits of the GenLayer payload; consensus rounds before finality; the retries of safe
reads, which end in an answer or an error; the wallets' own USDC balances, which others
can change and which the refund script compares with those at its start (lines 422 to
423), so that `ClosingChecksHold` speaks of the other closing checks, and a script that
refuses for a wallet is one that `Stops`; and file permissions. A write of a file is
atomic, as `_atomic_json` makes it (`os.replace`).

Not modelled at all:

* The ERC-8183 job client sends transactions to a contract that is not in the repository
  and keeps no state of its own. Its one check before an act, of the budget in `fund`, is
  documented as one that the contract cannot uphold. The work verifier is an interface
  without code.
* The ERC-8004 client reads and writes registries that are not in the repository. What the
  agent does with a score is in `AgentRun`.
* The service registry merges a list in memory, a file and a catalogue with a cache. Its
  mutations are under one lock, and it says which services exist, not what is paid.
* Gateway, wallets and LLM clients are HTTP and RPC calls with no protocol of their own,
  and nothing depends on what observability records.
* `deploy_validation_escrow.py` and the two smoke scripts are run by hand once and share no
  state with the others.
