---------------------------- MODULE WarrantyBond ----------------------------
(***************************************************************************)
(* The contract src/contracts/WarrantyBond.vy: providers deposit a bond,   *)
(* and one resolver takes refunds for buyers out of it.  A transaction     *)
(* that breaks an assertion reverts and changes nothing, so a reverted     *)
(* call is no step.                                                        *)
(*                                                                         *)
(* MaxAmount of UnitSums stands for the largest uint256: a credit that     *)
(* would pass it reverts.                                                  *)
(***************************************************************************)
EXTENDS UnitSums, AssuranceKeys

CONSTANT Provider   \* accounts that deposit

ASSUME BondAssumption == IsFiniteSet(Provider)

VARIABLES
  providerBondBalance,  \* provider_bond_balance
  processedDisputes,    \* disputes d with processed_disputes[d]
  refundedPayments,     \* payments p with refunded_payments[p]
  held,                 \* USDC that the token's ledger credits to the contract
  deposited,            \* history: what each provider has ever deposited
  refunds               \* history: the WarrantyRefunded events

bondVars == <<providerBondBalance, processedDisputes, refundedPayments, held,
              deposited, refunds>>

RefundEvent == [dispute : Dispute, payment : Payment, provider : Provider,
                amount : 1..MaxAmount]

BondTypeOK ==
  /\ providerBondBalance \in [Provider -> 0..MaxAmount]
  /\ processedDisputes \subseteq Dispute
  /\ refundedPayments \subseteq Payment
  /\ held \in Nat
  /\ deposited \in [Provider -> Nat]
  /\ refunds \subseteq RefundEvent

BondInit ==
  /\ providerBondBalance = [v \in Provider |-> 0]
  /\ processedDisputes = {}
  /\ refundedPayments = {}
  /\ held = 0
  /\ deposited = [v \in Provider |-> 0]
  /\ refunds = {}

\* deposit(amount), called by v with an allowance and a balance that cover it.
Deposit(v, amount) ==
  /\ amount > 0
  /\ providerBondBalance[v] + amount <= MaxAmount
  /\ providerBondBalance' = [providerBondBalance EXCEPT ![v] = @ + amount]
  /\ held' = held + amount
  /\ deposited' = [deposited EXCEPT ![v] = @ + amount]
  /\ UNCHANGED <<processedDisputes, refundedPayments, refunds>>

\* Plausible bug: the replay check of the payment is left out, so a second
\* dispute about it is paid as well.
RefundAdmittedPerDispute(r) ==
  /\ r.dispute \notin processedDisputes
  /\ r.amount > 0
  /\ providerBondBalance[r.provider] >= r.amount

\* The assertions of refund, sent by the resolver.
RefundAdmitted(r) ==
  /\ r.dispute \notin processedDisputes
  /\ r.payment \notin refundedPayments
  /\ r.amount > 0
  /\ providerBondBalance[r.provider] >= r.amount

\* Plausible bug: the bond is not debited.
RefundWithoutDebit(r) ==
  /\ held >= r.amount
  /\ processedDisputes' = processedDisputes \cup {r.dispute}
  /\ refundedPayments' = refundedPayments \cup {r.payment}
  /\ held' = held - r.amount
  /\ refunds' = refunds \cup {r}
  /\ UNCHANGED <<providerBondBalance, deposited>>

\* The effects of refund.  The last one is the transfer out: what is held
\* covers it, or the whole call reverts.
RefundEffects(r) ==
  /\ held >= r.amount
  /\ processedDisputes' = processedDisputes \cup {r.dispute}
  /\ refundedPayments' = refundedPayments \cup {r.payment}
  /\ providerBondBalance' = [providerBondBalance EXCEPT ![r.provider] = @ - r.amount]
  /\ held' = held - r.amount
  /\ refunds' = refunds \cup {r}
  /\ UNCHANGED deposited

Refund(r) == RefundAdmitted(r) /\ RefundEffects(r)

-----------------------------------------------------------------------------

AmountsOf(events) == [r \in events |-> r.amount]
RefundsOf(v) == {r \in refunds : r.provider = v}

\* A provider's bond is what it deposited less what was refunded from it, and
\* the contract holds what it owes to all of them: no order of deposits and
\* refunds of several disputes pays one provider's buyer from another's bond.
Conserved ==
  /\ \A v \in Provider :
       deposited[v] = providerBondBalance[v]
                        + TotalOf(RefundsOf(v), AmountsOf(refunds))
  /\ held = TotalOf(Provider, providerBondBalance)

\* No payment and no dispute is refunded twice, whoever sends the refunds and
\* however their transactions are ordered.
RefundedOnce ==
  \A r, s \in refunds :
    r.dispute = s.dispute \/ r.payment = s.payment => r = s
=============================================================================
