----------------------------- MODULE EscrowRelay -----------------------------
(***************************************************************************)
(* The escrow contract with the clients of arc_agent_pay/workflow/escrow.py*)
(* in front of it.  EscrowClient checks a delivery and a verdict against   *)
(* the latest block, signs a transaction and sends it.  It is mined in a   *)
(* later block, or is lost (two transactions of an account that were built *)
(* at the same time have the same nonce, and one of them replaces the      *)
(* other).                                                                 *)
(***************************************************************************)
EXTENDS ValidationEscrow

CONSTANT MaxPending   \* bound on the pending transactions that carry a verdict

ASSUME RelayAssumption == MaxPending \in Nat

VARIABLE mempool      \* transactions sent and not yet mined

relayVars == <<vars, mempool>>

PlainTx == [kind : {"fund", "timeout"}, order : Order]
VerdictTx == [kind : {"release", "reject"}, order : Order,
              delivery : Deliveries, verdict : Verdicts]

RelayInit == Init /\ mempool = {}

-----------------------------------------------------------------------------
(* Checks of the client. *)

\* WorkOrder.deadlines_are_ordered: other orders cannot be constructed.
ClientOrder(o) ==
  /\ AmountOf[o] > 0
  /\ DeliveryDeadline[o] > 0 /\ RefundAfter[o] > DeliveryDeadline[o]
  /\ PayerOf[o] # ProviderOf[o]
  /\ ValidatorOf[o] \notin {PayerOf[o], ProviderOf[o]}
  /\ Escrow \notin {PayerOf[o], ProviderOf[o], ValidatorOf[o]}

\* The validators of the DeliveryEvidence and ValidationVerdict models.
ClientObjects(d, v) ==
  d.delivered_at > 0 /\ v.issued_at > 0 /\ v.valid_until > v.issued_at

\* Plausible bug: the default max_clock_skew of 30 seconds, here one tick, is
\* left in place.
ClientVerdictSkewed(o, d, v) ==
  /\ d.order = o /\ d.delivered_at <= DeliveryDeadline[o]
  /\ v.order = o /\ v.delivery = d
  /\ v.issued_at >= d.delivered_at
  /\ v.issued_at <= now + 1
  /\ v.valid_until > now
  /\ v.valid_until <= RefundAfter[o]
  /\ SignedByValidator(o, v)

\* verify_signed_verdict with the chain's time and no allowance for skew.
ClientVerdict(o, d, v) ==
  /\ d.order = o /\ d.delivered_at <= DeliveryDeadline[o]
  /\ v.order = o /\ v.delivery = d
  /\ v.issued_at >= d.delivered_at
  /\ v.issued_at <= now
  /\ v.valid_until > now
  /\ v.valid_until <= RefundAfter[o]
  /\ SignedByValidator(o, v)

\* Plausible bug: the sign of a verdict is left to the contract.
ClientAcceptsAnySign(tx) ==
  /\ ClientOrder(tx.order)
  /\ tx.kind = "fund" => tx.order \in authorized
  /\ tx.kind \in {"release", "reject"} =>
       /\ ClientObjects(tx.delivery, tx.verdict)
       /\ ClientVerdict(tx.order, tx.delivery, tx.verdict)

\* fund verifies the payer's signature, release and refund_rejected the verdict
\* and its sign, refund_timeout nothing.  None of them reads the status.
ClientAccepts(tx) ==
  /\ ClientOrder(tx.order)
  /\ tx.kind = "fund" => tx.order \in authorized
  /\ tx.kind \in {"release", "reject"} =>
       /\ ClientObjects(tx.delivery, tx.verdict)
       /\ ClientVerdict(tx.order, tx.delivery, tx.verdict)
       /\ tx.verdict.approved <=> tx.kind = "release"

-----------------------------------------------------------------------------
(* Sending and mining. *)

Submit(tx) ==
  /\ tx \notin mempool
  /\ ClientAccepts(tx)
  /\ mempool' = mempool \cup {tx}
  /\ UNCHANGED vars

Room == Cardinality({tx \in mempool : tx.kind \in {"release", "reject"}}) < MaxPending

\* The contract takes the transaction.
Succeeds(tx) ==
  CASE tx.kind = "fund"    -> CanFund(tx.order)
    [] tx.kind = "timeout" -> CanRefundTimeout(tx.order)
    [] tx.kind = "release" -> CanRelease(tx.order, tx.delivery, tx.verdict)
    [] tx.kind = "reject"  -> CanRefundRejected(tx.order, tx.delivery, tx.verdict)

Execute(tx) ==
  \/ tx.kind = "fund" /\ Fund(tx.order)
  \/ tx.kind = "timeout" /\ RefundTimeout(tx.order)
  \/ tx.kind = "release" /\ Release(tx.order, tx.delivery, tx.verdict)
  \/ tx.kind = "reject" /\ RefundRejected(tx.order, tx.delivery, tx.verdict)

\* Mined: the receipt's status is 1, or the client raises WorkflowError.
Mine(tx) ==
  /\ tx \in mempool
  /\ mempool' = mempool \ {tx}
  /\ IF Succeeds(tx) THEN Execute(tx) ELSE UNCHANGED vars

Lose(tx) ==
  /\ tx \in mempool
  /\ mempool' = mempool \ {tx}
  /\ UNCHANGED vars

RelayNext ==
  \/ \E tx \in PlainTx : Submit(tx)
  \/ \E tx \in VerdictTx : Room /\ Submit(tx)
  \/ \E tx \in mempool : Mine(tx) \/ Lose(tx)
  \/ Environment /\ UNCHANGED mempool

RelaySpec == RelayInit /\ [][RelayNext]_relayVars

TimeoutTx(o) == [kind |-> "timeout", order |-> o]

\* The clock goes on.  A payer whose order is due sends the refund again while
\* none is pending, and of those it sends again and again one is mined.
FairRelay ==
  /\ RelaySpec
  /\ WF_relayVars(Tick /\ UNCHANGED mempool)
  /\ \A o \in Order :
       /\ WF_relayVars(now >= RefundAfter[o] /\ Submit(TimeoutTx(o)))
       /\ SF_relayVars(now >= RefundAfter[o] /\ Mine(TimeoutTx(o)))
-----------------------------------------------------------------------------
(* Properties. *)

\* The library and the contract check verdicts alike: of the objects a client
\* can construct it refuses none that the contract would take, and lets none
\* pass that the contract would not.
ClientAgrees ==
  \A o \in FundedOrders, d \in Deliveries, v \in Verdicts :
    ClientOrder(o) /\ ClientObjects(d, v) =>
      (ClientVerdict(o, d, v) <=> ValidVerdict(o, d, v))

\* A verdict that was checked and is still pending fails only if another
\* transaction has closed the order meanwhile, or the verdict has expired.
PendingVerdictsGood ==
  \A tx \in mempool :
    /\ tx.kind \in {"release", "reject"}
    /\ status[tx.order] = "funded"
    /\ now < tx.verdict.valid_until
    => Succeeds(tx)

\* Money is never trapped: contracts/README.md says that validator downtime
\* cannot trap funds, because the payer can refund after refund_after.
FundsNeverTrapped ==
  \A o \in Order : status[o] = "funded" ~> status[o] \in {"released", "refunded"}
=============================================================================
