---------------------------- MODULE EscrowProofs -----------------------------
(***************************************************************************)
(* Theorems about ValidationEscrow and EscrowRelay, for any orders,        *)
(* accounts, verdicts and number of pending transactions.                  *)
(***************************************************************************)
EXTENDS EscrowRelay, UnitSumsProofs

EscrowInv == TypeOK /\ Solvent

LEMMA FundedFinite == IsFiniteSet(FundedOrders)
BY EscrowAssumption, FS_Subset DEF FundedOrders

LEMMA SolventNumbers ==
  ASSUME TypeOK
  PROVE  balance[Escrow] \in Nat /\ TotalOf(FundedOrders, AmountOf) \in Nat
BY EscrowAssumption, FundedFinite, UnitsFinite DEF TypeOK, TotalOf

LEMMA EscrowStarts == Init => EscrowInv
<1> SUFFICES ASSUME Init PROVE EscrowInv
  OBVIOUS
<1>1. TypeOK
  BY EscrowAssumption DEF Init, TypeOK, Status, Signature
<1>2. FundedOrders = {}
  BY DEF Init, FundedOrders
<1>3. Units({}, AmountOf) = {}
  BY DEF Units
<1>4. TotalOf(FundedOrders, AmountOf) = 0
  BY <1>2, <1>3, FS_EmptySet DEF TotalOf
<1>5. balance[Escrow] = 0
  BY EscrowAssumption DEF Init
<1> QED
  BY <1>1, <1>4, <1>5 DEF EscrowInv, Solvent

\* Funding brings in what it makes the contract owe.
LEMMA FundSolvent ==
  ASSUME EscrowInv, NEW o \in Order, Fund(o)
  PROVE  EscrowInv'
<1>1. /\ PayerOf[o] \in Account /\ Escrow \in Account /\ PayerOf[o] # Escrow
      /\ AmountOf[o] \in 0..MaxAmount /\ balance[PayerOf[o]] >= AmountOf[o]
      /\ o \in authorized
      /\ balance \in [Account -> Nat] /\ status \in [Order -> Status] /\ status[o] = "none"
  BY EscrowAssumption DEF Fund, CanFund, TokenTakes, ValidOrder, EscrowInv, TypeOK
<1>2. /\ balance' \in [Account -> Nat]
      /\ balance'[Escrow] = balance[Escrow] + AmountOf[o]
  BY <1>1 DEF Fund, Moved
<1>3. TypeOK'
  BY <1>1, <1>2 DEF Fund, EscrowInv, TypeOK, Status
<1>4. FundedOrders' = FundedOrders \cup {o} /\ o \notin FundedOrders
  BY <1>1 DEF Fund, FundedOrders
<1>5. TotalOf(FundedOrders \cup {o}, AmountOf) = TotalOf(FundedOrders, AmountOf) + AmountOf[o]
  BY <1>1, <1>4, FundedFinite, UnitsAdd DEF TotalOf
<1> QED
  BY <1>1, <1>2, <1>3, <1>4, <1>5, SolventNumbers DEF EscrowInv, Solvent

\* A payout takes no more than the order it closes brought in.
LEMMA PayOutSolvent ==
  ASSUME EscrowInv, NEW o \in Order, NEW to \in Account, NEW s \in {"released", "refunded"},
         status[o] = "funded", to # Escrow, CanPay(o), PayOut(o, to, s)
  PROVE  /\ EscrowInv'
         /\ balance'[Escrow] = balance[Escrow] - AmountOf[o]
<1>1. /\ Escrow \in Account /\ AmountOf[o] \in 0..MaxAmount
      /\ balance[Escrow] >= AmountOf[o]
      /\ balance \in [Account -> Nat] /\ status \in [Order -> Status]
  BY EscrowAssumption DEF CanPay, EscrowInv, TypeOK
<1>2. /\ balance' \in [Account -> Nat]
      /\ balance'[Escrow] = balance[Escrow] - AmountOf[o]
  BY <1>1 DEF PayOut, Moved
<1>3. TypeOK'
  BY <1>1, <1>2 DEF PayOut, EscrowInv, TypeOK, Status
<1>4. FundedOrders' = FundedOrders \ {o} /\ o \in FundedOrders
  BY <1>1 DEF PayOut, FundedOrders
<1>5. TotalOf(FundedOrders, AmountOf) = TotalOf(FundedOrders \ {o}, AmountOf) + AmountOf[o]
  BY <1>1, <1>4, FundedFinite, UnitsRemove DEF TotalOf
<1>6. TotalOf(FundedOrders \ {o}, AmountOf) \in Nat
  BY FundedFinite, FS_Subset, UnitsFinite DEF TotalOf
<1> QED
  BY <1>1, <1>2, <1>3, <1>4, <1>5, <1>6, SolventNumbers DEF EscrowInv, Solvent

\* Every payout is one of the contract's three, to a party of the order.
LEMMA PayOutParties ==
  ASSUME NEW o \in Order, NEW d, NEW v,
         Release(o, d, v) \/ RefundRejected(o, d, v) \/ RefundTimeout(o)
  PROVE  /\ status[o] = "funded" /\ CanPay(o)
         /\ \/ PayOut(o, ProviderOf[o], "released")
            \/ PayOut(o, PayerOf[o], "refunded")
         /\ {PayerOf[o], ProviderOf[o]} \subseteq Account \ {Escrow}
BY EscrowAssumption
   DEF Release, RefundRejected, RefundTimeout, CanRelease, CanRefundRejected,
       CanRefundTimeout, ValidVerdict, ValidOrder

LEMMA TransferSolvent ==
  ASSUME EscrowInv, NEW a \in Account, NEW b \in Account, Transfer(a, b)
  PROVE  /\ EscrowInv'
         /\ balance'[Escrow] = balance[Escrow] \/ balance'[Escrow] = balance[Escrow] + 1
<1>1. /\ Escrow \in Account /\ balance \in [Account -> Nat] /\ a # Escrow /\ balance[a] > 0
  BY EscrowAssumption DEF Transfer, EscrowInv, TypeOK
<1>2. /\ balance' \in [Account -> Nat]
      /\ balance'[Escrow] = balance[Escrow] \/ balance'[Escrow] = balance[Escrow] + 1
  BY <1>1 DEF Transfer, Moved
<1>3. TypeOK'
  BY <1>2 DEF Transfer, EscrowInv, TypeOK
<1>4. FundedOrders' = FundedOrders
  BY DEF Transfer, FundedOrders
<1> QED
  BY <1>1, <1>2, <1>3, <1>4, SolventNumbers DEF EscrowInv, Solvent

\* The steps that leave the money alone.
LEMMA QuietSolvent ==
  ASSUME EscrowInv,
         \/ \E o \in Order : SignFunding(o)
         \/ \E a \in Signers, v \in Verdicts : SignVerdict(a, v)
         \/ Tick
         \/ UNCHANGED vars
  PROVE  EscrowInv' /\ UNCHANGED <<status, balance>>
<1>1. UNCHANGED <<status, balance>>
  BY DEF SignFunding, SignVerdict, Tick, vars
<1>2. TypeOK'
  BY EscrowAssumption DEF SignFunding, SignVerdict, Tick, vars, EscrowInv, TypeOK, Signature
<1> QED
  BY <1>1, <1>2 DEF EscrowInv, Solvent, FundedOrders

LEMMA NextEscrowInv == EscrowInv /\ [Next]_vars => EscrowInv'
<1> SUFFICES ASSUME EscrowInv, [Next]_vars PROVE EscrowInv'
  OBVIOUS
<1>1. ASSUME NEW o \in Order, Fund(o) PROVE EscrowInv'
  BY <1>1, FundSolvent
<1>2. ASSUME NEW o \in Order, NEW d, NEW v,
             Release(o, d, v) \/ RefundRejected(o, d, v) \/ RefundTimeout(o)
      PROVE  EscrowInv'
  BY <1>2, PayOutParties, PayOutSolvent
<1>3. ASSUME NEW a \in Account, NEW b \in Account, Transfer(a, b) PROVE EscrowInv'
  BY <1>3, TransferSolvent
<1>4. CASE \/ \E o \in Order : SignFunding(o)
           \/ \E a \in Signers, v \in Verdicts : SignVerdict(a, v)
           \/ Tick
           \/ UNCHANGED vars
  BY <1>4, QuietSolvent
<1> QED
  BY <1>1, <1>2, <1>3, <1>4 DEF Next, Transaction, Environment, EndOfTime

\* Balances never go below zero, whatever anyone sends.
THEOREM EscrowTypeCorrect == Spec => []TypeOK
<1>1. EscrowInv => TypeOK
  BY DEF EscrowInv
<1> QED
  BY <1>1, EscrowStarts, NextEscrowInv, PTL DEF Spec

\* The contract can pay out every funded order, whatever happens to the others.
THEOREM EscrowSolvent == Spec => []Solvent
<1>1. EscrowInv => Solvent
  BY DEF EscrowInv
<1> QED
  BY <1>1, EscrowStarts, NextEscrowInv, PTL DEF Spec

-----------------------------------------------------------------------------
(* Who moves the money.                                                      *)

LEMMA StepByRight ==
  ASSUME EscrowInv, [Next]_vars, NEW o \in Order,
         status[o] = "funded", status'[o] # "funded"
  PROVE  IF now < RefundAfter[o]
           THEN \E v \in WordsOn(o) : v.approved <=> status'[o] = "released"
           ELSE status'[o] = "refunded" /\ now > DeliveryDeadline[o]
<1> USE EscrowAssumption
<1>0. status \in [Order -> Status] /\ now \in Nat
  BY DEF EscrowInv, TypeOK
<1>1. ASSUME NEW d \in Deliveries, NEW v \in Verdicts,
             Release(o, d, v) \/ RefundRejected(o, d, v)
      PROVE  now < RefundAfter[o] /\ \E w \in WordsOn(o) : w.approved <=> status'[o] = "released"
  <2>1. /\ ValidVerdict(o, d, v)
        /\ v.approved <=> status'[o] = "released"
    BY <1>0, <1>1
       DEF Release, RefundRejected, CanRelease, CanRefundRejected, PayOut, Verdict
  <2>2. v \in WordsOn(o)
    BY <2>1 DEF ValidVerdict, VerdictStands, SignedByValidator, WordsOn
  <2>3. now < RefundAfter[o]
    <3>1. v.valid_until \in Nat /\ RefundAfter[o] \in Nat
      BY DEF Verdict
    <3> QED
      BY <1>0, <2>1, <3>1 DEF ValidVerdict, VerdictStands
  <2> QED
    BY <2>1, <2>2, <2>3
<1>2. CASE RefundTimeout(o)
  <2>1. now >= RefundAfter[o] /\ RefundAfter[o] > DeliveryDeadline[o]
    BY <1>2 DEF RefundTimeout, CanRefundTimeout, ValidOrder
  <2>2. RefundAfter[o] \in Nat /\ DeliveryDeadline[o] \in Nat
    OBVIOUS
  <2>3. status'[o] = "refunded"
    BY <1>0, <1>2 DEF RefundTimeout, PayOut
  <2> QED
    BY <1>0, <2>1, <2>2, <2>3
<1>3. \/ RefundTimeout(o)
      \/ \E d \in Deliveries, v \in Verdicts : Release(o, d, v) \/ RefundRejected(o, d, v)
  <2>1. ASSUME NEW p \in Order, p # o, NEW to, NEW s, PayOut(p, to, s) PROVE FALSE
    BY <1>0, <2>1 DEF PayOut
  <2>2. ASSUME NEW p \in Order, Fund(p) PROVE FALSE
    BY <1>0, <2>2 DEF Fund, CanFund
  <2>3. ASSUME Environment \/ UNCHANGED vars PROVE FALSE
    BY <2>3 DEF Environment, SignFunding, SignVerdict, Transfer, Tick, EndOfTime, vars
  <2> QED
    BY <2>1, <2>2, <2>3 DEF Next, Transaction, Release, RefundRejected, RefundTimeout
<1> QED
  BY <1>0, <1>1, <1>2, <1>3

\* Before refund_after the validator decides, from then on the payer is refunded.
THEOREM EscrowMovedByRight == Spec => MovedByRight
<1>1. EscrowInv /\ [Next]_vars =>
        [\A o \in Order :
           status[o] = "funded" /\ status'[o] # "funded" =>
             IF now < RefundAfter[o]
               THEN \E v \in WordsOn(o) : v.approved <=> status'[o] = "released"
               ELSE status'[o] = "refunded" /\ now > DeliveryDeadline[o]]_status
  BY StepByRight
<1> QED
  BY <1>1, EscrowStarts, NextEscrowInv, PTL DEF Spec, MovedByRight

-----------------------------------------------------------------------------
(* The abstract escrow.                                                      *)

\* The abstract escrow adds as the contract's invariant does.
LEMMA PromiseTotal == ASSUME NEW S PROVE Promise!TotalOf(S, AmountOf) = TotalOf(S, AmountOf)
BY DEF Promise!TotalOf, Promise!Units, Promise!Cardinality, TotalOf, Units, Cardinality

LEMMA PromiseSteps == EscrowInv /\ EscrowInv' /\ [Next]_vars => [Promise!Next]_(Promise!vars)
<1> SUFFICES ASSUME EscrowInv, EscrowInv', [Next]_vars PROVE [Promise!Next]_(Promise!vars)
  OBVIOUS
<1>0. balance'[Escrow] >= Promise!TotalOf({o \in Order : status'[o] = "funded"}, AmountOf)
  BY PromiseTotal DEF EscrowInv, Solvent, FundedOrders
<1>1. ASSUME NEW o \in Order, Fund(o) PROVE Promise!Next
  <2>1. PayerOf[o] # Escrow /\ Escrow \in Account /\ status[o] = "none"
    BY <1>1, EscrowAssumption DEF Fund, CanFund, ValidOrder
  <2>2. Promise!Open(o)
    BY <1>1, <2>1 DEF Fund, Moved, Promise!Open
  <2> QED
    BY <1>0, <2>2 DEF Promise!Next, EscrowInv
<1>2. ASSUME NEW o \in Order, NEW d, NEW v,
             Release(o, d, v) \/ RefundRejected(o, d, v) \/ RefundTimeout(o)
      PROVE  Promise!Next
  <2>1. balance'[Escrow] = balance[Escrow] - AmountOf[o] /\ status[o] = "funded"
    BY <1>2, PayOutParties, PayOutSolvent
  <2>2. Promise!Close(o, "released") \/ Promise!Close(o, "refunded")
    BY <1>2, <2>1, PayOutParties DEF PayOut, Promise!Close
  <2> QED
    BY <1>0, <2>2 DEF Promise!Next, EscrowInv
<1>3. ASSUME NEW a \in Account, NEW b \in Account, Transfer(a, b)
      PROVE  [Promise!Next]_(Promise!vars)
  <2>1. UNCHANGED status
    BY <1>3 DEF Transfer
  <2>2. CASE balance'[Escrow] = balance[Escrow]
    BY <2>1, <2>2 DEF Promise!vars
  <2>3. CASE balance'[Escrow] = balance[Escrow] + 1
    BY <1>0, <2>1, <2>3 DEF Promise!Gift, Promise!Next, EscrowInv
  <2> QED
    BY <1>3, <2>2, <2>3, TransferSolvent
<1>4. ASSUME \/ \E o \in Order : SignFunding(o)
             \/ \E a \in Signers, v \in Verdicts : SignVerdict(a, v)
             \/ Tick
             \/ UNCHANGED vars
      PROVE  UNCHANGED Promise!vars
  BY <1>4, QuietSolvent DEF Promise!vars
<1> QED
  BY <1>1, <1>2, <1>3, <1>4 DEF Next, Transaction, Environment, EndOfTime

\* The contract implements the abstract escrow.
THEOREM EscrowKeepsPromise == Spec => ImplementsPromise
<1>1. Init => Promise!Init
  BY EscrowAssumption DEF Init, Promise!Init
<1> QED
  BY <1>1, PromiseSteps, EscrowStarts, NextEscrowInv, PTL
     DEF Spec, ImplementsPromise, Promise!Spec

-----------------------------------------------------------------------------
(* The clients in front of the contract.                                     *)

VerdictKinds == {"release", "reject"}

\* What a client checked of a verdict, less what time takes away.
Checked(tx) ==
  LET o == tx.order
      d == tx.delivery
      v == tx.verdict
  IN  /\ o \in Order /\ d \in Deliveries /\ v \in Verdicts
      /\ ClientOrder(o)
      /\ d.order = o /\ d.delivered_at <= DeliveryDeadline[o]
      /\ v.order = o /\ v.delivery = d
      /\ v.issued_at >= d.delivered_at /\ v.issued_at <= now
      /\ v.valid_until <= RefundAfter[o]
      /\ SignedByValidator(o, v)
      /\ v.approved <=> tx.kind = "release"

PendingChecked ==
  /\ mempool \subseteq PlainTx \cup VerdictTx
  /\ \A tx \in mempool : tx.kind \in VerdictKinds => Checked(tx)

RelayInv == EscrowInv /\ PendingChecked

\* Clients do nothing to the contract that anyone could not do.
LEMMA RelayStep ==
  ASSUME PendingChecked, [RelayNext]_relayVars
  PROVE  /\ [Next]_vars
         /\ mempool' \subseteq PlainTx \cup VerdictTx
         /\ \A tx \in mempool' \ mempool : ClientAccepts(tx) /\ UNCHANGED vars
<1>1. ASSUME NEW tx \in PlainTx \cup VerdictTx, Submit(tx)
      PROVE  /\ UNCHANGED vars
             /\ mempool' = mempool \cup {tx} /\ ClientAccepts(tx)
  BY <1>1 DEF Submit
<1>2. ASSUME NEW tx \in mempool, Mine(tx)
      PROVE  (Transaction \/ UNCHANGED vars) /\ mempool' \subseteq mempool
  <2>1. mempool' \subseteq mempool
    BY <1>2 DEF Mine
  <2>2. /\ tx.order \in Order
        /\ tx.kind \in VerdictKinds => tx.delivery \in Deliveries /\ tx.verdict \in Verdicts
    BY DEF PendingChecked, PlainTx, VerdictTx, VerdictKinds
  <2>3. Execute(tx) => Transaction
    BY <2>2 DEF Execute, Transaction, VerdictKinds
  <2> QED
    BY <1>2, <2>1, <2>3 DEF Mine
<1>3. ASSUME NEW tx \in mempool, Lose(tx) PROVE UNCHANGED vars /\ mempool' \subseteq mempool
  BY <1>3 DEF Lose
<1> QED
  BY <1>1, <1>2, <1>3 DEF RelayNext, relayVars, Next, PendingChecked

\* Time and further signatures take nothing away from what was checked.
LEMMA CheckedStays ==
  ASSUME EscrowInv, [Next]_vars, NEW tx, Checked(tx)
  PROVE  Checked(tx)'
<1>1. now \in Nat /\ now' \in Nat /\ now <= now' /\ signed \subseteq signed'
  BY EscrowAssumption
     DEF EscrowInv, TypeOK, Next, Transaction, Environment, Fund, Release, RefundRejected,
         RefundTimeout, PayOut, SignFunding, SignVerdict, Transfer, Tick, EndOfTime, vars
<1>2. tx.verdict.issued_at \in Nat
  BY EscrowAssumption DEF Checked, Verdict
<1> QED
  BY <1>1, <1>2 DEF Checked, SignedByValidator, ClientOrder

LEMMA RelayStarts == RelayInit => RelayInv
BY EscrowStarts DEF RelayInit, RelayInv, PendingChecked

LEMMA NextRelayInv == RelayInv /\ [RelayNext]_relayVars => RelayInv'
<1> SUFFICES ASSUME RelayInv, [RelayNext]_relayVars PROVE RelayInv'
  OBVIOUS
<1>1. /\ [Next]_vars
      /\ mempool' \subseteq PlainTx \cup VerdictTx
      /\ \A tx \in mempool' \ mempool : ClientAccepts(tx) /\ UNCHANGED vars
  BY RelayStep DEF RelayInv
<1>2. EscrowInv'
  BY <1>1, NextEscrowInv DEF RelayInv
<1>3. ASSUME NEW tx \in mempool', tx.kind \in VerdictKinds PROVE Checked(tx)'
  <2>1. CASE tx \in mempool
    BY <1>1, <1>3, <2>1, CheckedStays DEF RelayInv, PendingChecked
  <2>2. CASE tx \notin mempool
    <3>1. tx \in VerdictTx /\ ClientAccepts(tx) /\ UNCHANGED vars
      BY <1>1, <1>3, <2>2 DEF PlainTx, VerdictKinds
    <3>2. Checked(tx)
      BY <1>3, <3>1
         DEF ClientAccepts, ClientVerdict, Checked, VerdictTx, VerdictKinds
    <3> QED
      BY <3>1, <3>2, CheckedStays DEF RelayInv
  <2> QED
    BY <2>1, <2>2
<1> QED
  BY <1>1, <1>2, <1>3 DEF RelayInv, PendingChecked

\* The library's check of a verdict and the contract's accept the same ones.
LEMMA SameVerdicts ==
  ASSUME NEW o \in FundedOrders, NEW d \in Deliveries, NEW v \in Verdicts, ClientOrder(o)
  PROVE  ClientVerdict(o, d, v) <=> ValidVerdict(o, d, v)
BY DEF ClientVerdict, ValidVerdict, VerdictStands, ValidOrder, ClientOrder, FundedOrders

\* An order that is funded can be paid out.
LEMMA CanPayFunded ==
  ASSUME EscrowInv, NEW o \in FundedOrders
  PROVE  CanPay(o)
<1>1. AmountOf[o] \in 0..MaxAmount /\ o \in Order
  BY EscrowAssumption DEF FundedOrders
<1>2. TotalOf(FundedOrders, AmountOf) = TotalOf(FundedOrders \ {o}, AmountOf) + AmountOf[o]
  BY <1>1, FundedFinite, UnitsRemove DEF TotalOf
<1>3. TotalOf(FundedOrders \ {o}, AmountOf) \in Nat
  BY FundedFinite, FS_Subset, UnitsFinite DEF TotalOf
<1> QED
  BY <1>1, <1>2, <1>3, SolventNumbers DEF EscrowInv, Solvent, CanPay

LEMMA PendingFollows == RelayInv => PendingVerdictsGood
<1> SUFFICES ASSUME RelayInv, NEW tx \in mempool, tx.kind \in VerdictKinds,
                    status[tx.order] = "funded", now < tx.verdict.valid_until
             PROVE  Succeeds(tx)
  BY DEF PendingVerdictsGood, VerdictKinds
<1>1. Checked(tx) /\ tx.kind \in VerdictKinds
  BY DEF RelayInv, PendingChecked
<1>2. /\ tx.order \in FundedOrders /\ tx.delivery \in Deliveries /\ tx.verdict \in Verdicts
      /\ ClientOrder(tx.order)
      /\ tx.verdict.approved <=> tx.kind = "release"
  BY <1>1 DEF Checked, FundedOrders
<1>3. now \in Nat /\ tx.verdict.valid_until \in Nat
  BY <1>2, EscrowAssumption DEF RelayInv, EscrowInv, TypeOK, Verdict
<1>4. ClientVerdict(tx.order, tx.delivery, tx.verdict)
  BY <1>1, <1>3 DEF Checked, ClientVerdict
<1>5. ValidVerdict(tx.order, tx.delivery, tx.verdict)
  BY <1>2, <1>4, SameVerdicts
<1>6. CanPay(tx.order)
  BY <1>2, CanPayFunded DEF RelayInv
<1> QED
  BY <1>1, <1>2, <1>5, <1>6 DEF Succeeds, CanRelease, CanRefundRejected, VerdictKinds

\* A checked verdict that is pending fails only when it is overtaken.
THEOREM RelayPendingGood == RelaySpec => []PendingVerdictsGood
BY RelayStarts, NextRelayInv, PendingFollows, PTL DEF RelaySpec

\* The library and the contract agree on verdicts in every reachable state.
THEOREM RelayClientAgrees == RelaySpec => []ClientAgrees
<1>1. ClientAgrees
  BY SameVerdicts DEF ClientAgrees
<1> QED
  BY <1>1, PTL

\* With its clients, the contract is solvent and moves money by right.
THEOREM RelayKeepsContract == RelaySpec => [](TypeOK /\ Solvent) /\ Spec
<1>1. RelayInit => Init
  BY DEF RelayInit
<1>2. RelayInv /\ [RelayNext]_relayVars => [Next]_vars
  BY RelayStep DEF RelayInv
<1>3. RelayInv => TypeOK /\ Solvent
  BY DEF RelayInv, EscrowInv
<1> QED
  BY <1>1, <1>2, <1>3, RelayStarts, NextRelayInv, PTL DEF RelaySpec, Spec
=============================================================================
