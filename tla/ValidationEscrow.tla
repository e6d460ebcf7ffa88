-------------------------- MODULE ValidationEscrow ---------------------------
(***************************************************************************)
(* contracts/ValidationEscrow.vy, with the token and the validators it     *)
(* trusts.  Every external function is one transaction: it takes all its   *)
(* effects or reverts.  Anyone may send one, at any time, with any work    *)
(* order, delivery and verdict.                                            *)
(*                                                                         *)
(* A work order stands for its hash, and a delivery for its own: what a    *)
(* verdict signs.                                                          *)
(***************************************************************************)
EXTENDS UnitSums

CONSTANTS
  Address,           \* addresses of parties and contracts
  Account,           \* those that may hold tokens
  Signers,           \* those that sign verdicts
  Escrow,            \* the contract's own address
  Order,             \* work orders, well-formed or not
  PayerOf,
  ProviderOf,
  ValidatorOf,
  AmountOf,
  DeliveryDeadline,
  RefundAfter,
  Deliveries,        \* delivery evidence that callers may present
  Verdicts,          \* verdicts that someone may sign
  Supply,            \* token balances at the start
  MaxSigned,         \* bound on the number of signed verdicts
  MaxTime            \* bound on the clock

Delivery == [order : Order, evidence : Nat, delivered_at : Nat]

Verdict == [order : Order, delivery : Delivery, approved : BOOLEAN,
            issued_at : Nat, valid_until : Nat]

ASSUME EscrowAssumption ==
  /\ IsFiniteSet(Order)
  /\ Account \cup Signers \subseteq Address
  /\ Escrow \in Account
  /\ PayerOf \in [Order -> Account]
  /\ ProviderOf \in [Order -> Account]
  /\ ValidatorOf \in [Order -> Address]
  /\ AmountOf \in [Order -> 0..MaxAmount]
  /\ DeliveryDeadline \in [Order -> Nat]
  /\ RefundAfter \in [Order -> Nat]
  /\ Deliveries \subseteq Delivery
  /\ Verdicts \subseteq Verdict
  /\ Supply \in [Account -> Nat]
  /\ {MaxSigned, MaxTime} \subseteq Nat

VARIABLES
  now,         \* block.timestamp
  status,      \* status of each order
  balance,     \* token balances
  authorized,  \* orders whose payer has signed the funding authorization
  used,        \* orders whose authorization the token has seen
  signed       \* who has signed which verdict

vars == <<now, status, balance, authorized, used, signed>>

Status == {"none", "funded", "released", "refunded"}
Signature == [signer : Signers, verdict : Verdicts]

TypeOK ==
  /\ now \in 0..MaxTime
  /\ status \in [Order -> Status]
  /\ balance \in [Account -> Nat]
  /\ authorized \subseteq Order
  /\ used \subseteq authorized
  /\ signed \subseteq Signature

Init ==
  /\ now = 0
  /\ status = [o \in Order |-> "none"]
  /\ balance = [Supply EXCEPT ![Escrow] = 0]
  /\ authorized = {}
  /\ used = {}
  /\ signed = {}

-----------------------------------------------------------------------------
(* Checks of the contract. *)

\* Plausible bug: a refund may be due while the provider can still deliver.
ValidOrderAnyDeadlines(o) ==
  /\ PayerOf[o] # ProviderOf[o]
  /\ ValidatorOf[o] \notin {PayerOf[o], ProviderOf[o]}
  /\ Escrow \notin {PayerOf[o], ProviderOf[o], ValidatorOf[o]}
  /\ AmountOf[o] > 0

\* _validate_order: the terms that do not depend on the state.
ValidOrder(o) ==
  /\ PayerOf[o] # ProviderOf[o]
  /\ ValidatorOf[o] \notin {PayerOf[o], ProviderOf[o]}
  /\ Escrow \notin {PayerOf[o], ProviderOf[o], ValidatorOf[o]}
  /\ AmountOf[o] > 0
  /\ RefundAfter[o] > DeliveryDeadline[o]

\* Plausible bug: a verdict outlives the time from which the payer is refunded.
VerdictStandsLonger(o, d, v) ==
  /\ d.order = o
  /\ d.delivered_at <= DeliveryDeadline[o]
  /\ v.order = o
  /\ v.delivery = d
  /\ v.issued_at >= d.delivered_at
  /\ v.issued_at <= now
  /\ v.valid_until > now

\* The terms of a verdict in _validate_verdict: it is about this delivery for
\* this order, and in force.
VerdictStands(o, d, v) ==
  /\ d.order = o
  /\ d.delivered_at <= DeliveryDeadline[o]
  /\ v.order = o
  /\ v.delivery = d
  /\ v.issued_at >= d.delivered_at
  /\ v.issued_at <= now
  /\ v.valid_until > now
  /\ v.valid_until <= RefundAfter[o]

\* ecrecover yields the validator of the order.
SignedByValidator(o, v) == [signer |-> ValidatorOf[o], verdict |-> v] \in signed

\* _validate_verdict.
ValidVerdict(o, d, v) ==
  /\ ValidOrder(o)
  /\ status[o] = "funded"
  /\ VerdictStands(o, d, v)
  /\ SignedByValidator(o, v)

\* Plausible bug of the token: it does not look at the payer's balance.
TokenTakesOnCredit(o) ==
  /\ 0 < now /\ now < DeliveryDeadline[o]
  /\ o \in authorized /\ o \notin used

\* What receiveWithAuthorization of the token asks for.
TokenTakes(o) ==
  /\ 0 < now /\ now < DeliveryDeadline[o]
  /\ o \in authorized /\ o \notin used
  /\ balance[PayerOf[o]] >= AmountOf[o]

CanFund(o) ==
  /\ ValidOrder(o)
  /\ now < DeliveryDeadline[o]
  /\ status[o] = "none"
  /\ TokenTakes(o)

\* What transfer of the token asks for.
CanPay(o) == balance[Escrow] >= AmountOf[o]

CanRelease(o, d, v) == v.approved /\ ValidVerdict(o, d, v) /\ CanPay(o)

CanRefundRejected(o, d, v) == ~v.approved /\ ValidVerdict(o, d, v) /\ CanPay(o)

\* Plausible bug: an order that was closed is refunded once more.
CanRefundAgain(o) ==
  /\ ValidOrder(o)
  /\ status[o] \in {"funded", "released"}
  /\ now >= RefundAfter[o]
  /\ CanPay(o)

\* Plausible bug: no timeout once somebody has judged the order.
CanRefundUnjudged(o) ==
  /\ ValidOrder(o)
  /\ status[o] = "funded"
  /\ now >= RefundAfter[o]
  /\ CanPay(o)
  /\ \A s \in signed : s.verdict.order # o

CanRefundTimeout(o) ==
  /\ ValidOrder(o)
  /\ status[o] = "funded"
  /\ now >= RefundAfter[o]
  /\ CanPay(o)

-----------------------------------------------------------------------------
(* Transactions. *)

\* Tokens move from one account to another.
Moved(from, to, amount) ==
  [a \in Account |-> IF from = to THEN balance[a]
                     ELSE IF a = from THEN balance[a] - amount
                     ELSE IF a = to THEN balance[a] + amount
                     ELSE balance[a]]

\* Plausible bug: a payout forgets to take the order out of the funded ones.
PayOutKeepsStatus(o, to, s) ==
  /\ balance' = Moved(Escrow, to, AmountOf[o])
  /\ UNCHANGED <<now, status, authorized, used, signed>>

\* An order is closed and its amount paid out.
PayOut(o, to, s) ==
  /\ status' = [status EXCEPT ![o] = s]
  /\ balance' = Moved(Escrow, to, AmountOf[o])
  /\ UNCHANGED <<now, authorized, used, signed>>

Fund(o) ==
  /\ CanFund(o)
  /\ status' = [status EXCEPT ![o] = "funded"]
  /\ balance' = Moved(PayerOf[o], Escrow, AmountOf[o])
  /\ used' = used \cup {o}
  /\ UNCHANGED <<now, authorized, signed>>

Release(o, d, v) == CanRelease(o, d, v) /\ PayOut(o, ProviderOf[o], "released")

RefundRejected(o, d, v) ==
  CanRefundRejected(o, d, v) /\ PayOut(o, PayerOf[o], "refunded")

RefundTimeout(o) == CanRefundTimeout(o) /\ PayOut(o, PayerOf[o], "refunded")

-----------------------------------------------------------------------------
(* Environment. *)

\* sign_funding_authorization: the payer's key only.
SignFunding(o) ==
  /\ o \notin authorized
  /\ authorized' = authorized \cup {o}
  /\ UNCHANGED <<now, status, balance, used, signed>>

\* Validators may sign anything, also contradicting verdicts, and others may
\* sign what is not theirs to decide.
SignVerdict(a, v) ==
  /\ Cardinality(signed) < MaxSigned
  /\ signed' = signed \cup {[signer |-> a, verdict |-> v]}
  /\ UNCHANGED <<now, status, balance, authorized, used>>

\* Any owner of tokens sends one, to anyone and to the contract as well.
Transfer(a, b) ==
  /\ a # Escrow /\ balance[a] > 0
  /\ balance' = Moved(a, b, 1)
  /\ UNCHANGED <<now, status, authorized, used, signed>>

Tick ==
  /\ now < MaxTime
  /\ now' = now + 1
  /\ UNCHANGED <<status, balance, authorized, used, signed>>

\* The bound on the clock is reached: the model goes no further.
EndOfTime == now = MaxTime /\ UNCHANGED vars

Transaction ==
  \E o \in Order :
    \/ Fund(o)
    \/ RefundTimeout(o)
    \/ \E d \in Deliveries, v \in Verdicts : Release(o, d, v) \/ RefundRejected(o, d, v)

Environment ==
  \/ \E o \in Order : SignFunding(o)
  \/ \E a \in Signers, v \in Verdicts : SignVerdict(a, v)
  \/ \E a, b \in Account : Transfer(a, b)
  \/ Tick
  \/ EndOfTime

Next == Transaction \/ Environment

Spec == Init /\ [][Next]_vars
-----------------------------------------------------------------------------
(* Properties. *)

FundedOrders == {o \in Order : status[o] = "funded"}

\* The contract always holds what it owes: every funded order can be paid out
\* whatever happens to the others.
Solvent == balance[Escrow] >= TotalOf(FundedOrders, AmountOf)

\* The validator's words on an order, for a delivery that was in time.
WordsOn(o) ==
  {v \in Verdicts : /\ [signer |-> ValidatorOf[o], verdict |-> v] \in signed
                    /\ v.order = o
                    /\ v.delivery.order = o
                    /\ v.delivery.delivered_at <= DeliveryDeadline[o]}

\* Before refund_after the money moves only on the validator's word and as it
\* says; from then on only back to the payer, and never while the provider could
\* still deliver.  So no timeout races a verdict.
MovedByRight ==
  [][\A o \in Order :
       status[o] = "funded" /\ status'[o] # "funded" =>
         IF now < RefundAfter[o]
           THEN \E v \in WordsOn(o) : v.approved <=> status'[o] = "released"
           ELSE status'[o] = "refunded" /\ now > DeliveryDeadline[o]]_status

\* The contract implements the abstract escrow.
Promise == INSTANCE EscrowPromise WITH
  vault <- balance[Escrow], state <- status

ImplementsPromise == Promise!Spec
=============================================================================
