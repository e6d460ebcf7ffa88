-------------------------- MODULE SettlementProofs ---------------------------
(***************************************************************************)
(* Theorems about WarrantyBond and SettlementRelay, for any workers,       *)
(* disputes, bindings, amounts and foreign refunds.                        *)
(***************************************************************************)
EXTENDS SettlementRelay, UnitSumsProofs

-----------------------------------------------------------------------------
(* The contract. *)

\* The replay keys of every refund are set.
RefundsAreKeyed ==
  \A r \in refunds : r.dispute \in processedDisputes /\ r.payment \in refundedPayments

BondInv ==
  /\ BondTypeOK
  /\ IsFiniteSet(refunds)
  /\ RefundsAreKeyed
  /\ RefundedOnce
  /\ Conserved

LEMMA BondStarts == BondInit => BondInv
<1> SUFFICES ASSUME BondInit PROVE BondInv
  OBVIOUS
<1>1. BondTypeOK /\ RefundsAreKeyed /\ RefundedOnce
  BY AmountAssumption DEF BondInit, BondTypeOK, RefundsAreKeyed, RefundedOnce
<1>2. IsFiniteSet(refunds)
  BY FS_EmptySet DEF BondInit
<1>3. \A v \in Provider : RefundsOf(v) = {}
  BY DEF BondInit, RefundsOf
<1>4. Units({}, AmountsOf(refunds)) = {} /\ TotalOf({}, AmountsOf(refunds)) = 0
  BY FS_EmptySet DEF Units, TotalOf
<1>5. Units(Provider, providerBondBalance) = {} /\ TotalOf(Provider, providerBondBalance) = 0
  BY FS_EmptySet, AmountAssumption DEF BondInit, Units, TotalOf
<1>6. Conserved
  BY <1>3, <1>4, <1>5 DEF BondInit, Conserved
<1> QED
  BY <1>1, <1>2, <1>6 DEF BondInv

\* What the bonds add up to when one of them changes.
LEMMA BondChanges ==
  ASSUME BondTypeOK, BondTypeOK', NEW v \in Provider,
         \A u \in Provider \ {v} : providerBondBalance'[u] = providerBondBalance[u]
  PROVE  TotalOf(Provider, providerBondBalance)' - TotalOf(Provider, providerBondBalance)
           = providerBondBalance'[v] - providerBondBalance[v]
<1> DEFINE R == Provider \ {v}
<1>1. IsFiniteSet(R)
  BY BondAssumption, FS_Subset
<1>2. /\ providerBondBalance[v] \in 0..MaxAmount
      /\ providerBondBalance'[v] \in 0..MaxAmount
  BY DEF BondTypeOK
<1>3. Units(R, providerBondBalance') = Units(R, providerBondBalance)
  BY UnitsAgree
<1>4. /\ TotalOf(Provider, providerBondBalance)
           = Cardinality(Units(R, providerBondBalance)) + providerBondBalance[v]
      /\ TotalOf(Provider, providerBondBalance)'
           = Cardinality(Units(R, providerBondBalance')) + providerBondBalance'[v]
  BY <1>2, BondAssumption, UnitsRemove DEF TotalOf
<1>5. Cardinality(Units(R, providerBondBalance)) \in Nat
  BY <1>1, UnitsFinite
<1> HIDE DEF R
<1> QED
  BY <1>2, <1>3, <1>4, <1>5, AmountAssumption

LEMMA DepositKeeps ==
  ASSUME BondInv, NEW v \in Provider, NEW amount \in Nat, Deposit(v, amount)
  PROVE  BondInv'
<1>1. /\ providerBondBalance \in [Provider -> 0..MaxAmount]
      /\ held \in Nat /\ deposited \in [Provider -> Nat]
      /\ providerBondBalance[v] + amount <= MaxAmount
      /\ providerBondBalance' = [providerBondBalance EXCEPT ![v] = @ + amount]
      /\ held' = held + amount
      /\ deposited' = [deposited EXCEPT ![v] = @ + amount]
      /\ UNCHANGED <<processedDisputes, refundedPayments, refunds>>
  BY DEF BondInv, BondTypeOK, Deposit
<1>2. BondTypeOK'
  BY <1>1, AmountAssumption DEF BondInv, BondTypeOK
<1>3. TotalOf(Provider, providerBondBalance)' = TotalOf(Provider, providerBondBalance) + amount
  <2>1. TotalOf(Provider, providerBondBalance)' - TotalOf(Provider, providerBondBalance)
          = providerBondBalance'[v] - providerBondBalance[v]
    BY <1>1, <1>2, BondChanges DEF BondInv
  <2>2. providerBondBalance'[v] - providerBondBalance[v] = amount
    BY <1>1, AmountAssumption
  <2>3. TotalOf(Provider, providerBondBalance) \in Nat /\ TotalOf(Provider, providerBondBalance)' \in Nat
    BY BondAssumption, UnitsFinite DEF TotalOf
  <2> QED
    BY <2>1, <2>2, <2>3
<1>4. \A u \in Provider : /\ RefundsOf(u)' = RefundsOf(u)
                          /\ TotalOf(RefundsOf(u), AmountsOf(refunds))' = TotalOf(RefundsOf(u), AmountsOf(refunds))
  BY <1>1 DEF RefundsOf, AmountsOf, TotalOf, Units
<1>5. \A u \in Provider : TotalOf(RefundsOf(u), AmountsOf(refunds)) \in Nat
  BY FS_Subset, UnitsFinite DEF BondInv, RefundsOf, TotalOf
<1>6. \A u \in Provider :
        deposited'[u] = providerBondBalance'[u] + TotalOf(RefundsOf(u), AmountsOf(refunds))'
  BY <1>1, <1>4, <1>5, AmountAssumption DEF BondInv, Conserved
<1>7. Conserved'
  BY <1>1, <1>3, <1>6 DEF BondInv, Conserved
<1>8. IsFiniteSet(refunds)' /\ RefundsAreKeyed' /\ RefundedOnce'
  BY <1>1 DEF BondInv, RefundsAreKeyed, RefundedOnce
<1> QED
  BY <1>2, <1>7, <1>8 DEF BondInv

LEMMA RefundKeeps ==
  ASSUME BondInv, NEW r \in RefundEvent, Refund(r)
  PROVE  BondInv'
<1>1. /\ r.provider \in Provider /\ r.amount \in 1..MaxAmount
      /\ r.dispute \in Dispute /\ r.payment \in Payment
      /\ r.dispute \notin processedDisputes /\ r.payment \notin refundedPayments
      /\ providerBondBalance[r.provider] >= r.amount
      /\ held >= r.amount
  BY DEF Refund, RefundAdmitted, RefundEffects, RefundEvent
<1>2. /\ processedDisputes' = processedDisputes \cup {r.dispute}
      /\ refundedPayments' = refundedPayments \cup {r.payment}
      /\ providerBondBalance' = [providerBondBalance EXCEPT ![r.provider] = @ - r.amount]
      /\ held' = held - r.amount
      /\ refunds' = refunds \cup {r}
      /\ UNCHANGED deposited
  BY DEF Refund, RefundEffects
<1>3. /\ providerBondBalance \in [Provider -> 0..MaxAmount]
      /\ held \in Nat /\ deposited \in [Provider -> Nat]
      /\ processedDisputes \subseteq Dispute /\ refundedPayments \subseteq Payment
      /\ refunds \subseteq RefundEvent
  BY DEF BondInv, BondTypeOK
<1>4. BondTypeOK'
  BY <1>1, <1>2, <1>3, AmountAssumption DEF BondTypeOK
<1>5. r \notin refunds
  BY <1>1 DEF BondInv, RefundsAreKeyed
<1>6. RefundsAreKeyed'
  BY <1>1, <1>2 DEF BondInv, RefundsAreKeyed
<1>7. RefundedOnce'
  BY <1>1, <1>2 DEF BondInv, RefundsAreKeyed, RefundedOnce
<1>8. IsFiniteSet(refunds)'
  BY <1>2, FS_AddElement DEF BondInv
<1>9. TotalOf(Provider, providerBondBalance)' = TotalOf(Provider, providerBondBalance) - r.amount
  <2>1. TotalOf(Provider, providerBondBalance)' - TotalOf(Provider, providerBondBalance)
          = providerBondBalance'[r.provider] - providerBondBalance[r.provider]
    BY <1>1, <1>2, <1>3, <1>4, BondChanges DEF BondInv
  <2>2. providerBondBalance'[r.provider] - providerBondBalance[r.provider] = 0 - r.amount
    BY <1>1, <1>2, <1>3, AmountAssumption
  <2>3. TotalOf(Provider, providerBondBalance) \in Nat /\ TotalOf(Provider, providerBondBalance)' \in Nat
    BY BondAssumption, UnitsFinite DEF TotalOf
  <2> QED
    BY <1>1, <2>1, <2>2, <2>3, AmountAssumption
<1>10. ASSUME NEW v \in Provider
       PROVE  deposited'[v] = providerBondBalance'[v] + TotalOf(RefundsOf(v), AmountsOf(refunds))'
  <2> DEFINE T == RefundsOf(v)
             f == AmountsOf(refunds)
             g == AmountsOf(refunds')
  <2>1. IsFiniteSet(T) /\ T \subseteq refunds /\ r \notin T
    BY <1>5, FS_Subset DEF BondInv, RefundsOf
  <2>2. \A x \in T : f[x] = g[x]
    BY <1>2, <2>1 DEF AmountsOf
  <2>3. Units(T, f) = Units(T, g)
    BY <2>2, UnitsAgree
  <2>4. deposited[v] = providerBondBalance[v] + Cardinality(Units(T, f))
    BY DEF BondInv, Conserved, TotalOf
  <2>5. Cardinality(Units(T, g)) \in Nat
    BY <2>1, UnitsFinite
  <2>6. CASE v = r.provider
    <3>1. RefundsOf(v)' = T \cup {r}
      BY <1>2, <2>6 DEF RefundsOf
    <3>2. g[r] = r.amount
      BY <1>2 DEF AmountsOf
    <3>3. Cardinality(Units(T \cup {r}, g)) = Cardinality(Units(T, g)) + r.amount
      <4>1. g[r] \in 0..MaxAmount
        BY <1>1, <3>2
      <4> HIDE DEF T, g
      <4> QED
        BY <2>1, <3>2, <4>1, UnitsAdd
    <3>4. TotalOf(RefundsOf(v), AmountsOf(refunds))' = Cardinality(Units(T, g)) + r.amount
      BY <3>1, <3>3 DEF TotalOf
    <3>5. providerBondBalance'[v] = providerBondBalance[v] - r.amount /\ deposited'[v] = deposited[v]
      BY <1>1, <1>2, <1>3, <2>6
    <3> HIDE DEF T, f, g
    <3> QED
      BY <1>1, <1>3, <2>3, <2>4, <2>5, <3>4, <3>5, AmountAssumption
  <2>7. CASE v # r.provider
    <3>1. RefundsOf(v)' = T
      BY <1>2, <2>7 DEF RefundsOf
    <3>2. TotalOf(RefundsOf(v), AmountsOf(refunds))' = Cardinality(Units(T, g))
      BY <3>1 DEF TotalOf
    <3>3. providerBondBalance'[v] = providerBondBalance[v] /\ deposited'[v] = deposited[v]
      BY <1>1, <1>2, <1>3, <2>7
    <3> HIDE DEF T, f, g
    <3> QED
      BY <2>3, <2>4, <3>2, <3>3
  <2> QED
    BY <2>6, <2>7
<1>11. Conserved'
  BY <1>2, <1>9, <1>10 DEF BondInv, Conserved
<1> QED
  BY <1>4, <1>6, <1>7, <1>8, <1>11 DEF BondInv

-----------------------------------------------------------------------------
(* The relay. *)

\* What a worker relies on when it acts on its copy: its dispute stays upheld
\* and bound as it is, and what it is about to write is true.
WorkerOK(w) ==
  /\ pc[w] # "idle" => job[w] \in Binding /\ disputes[DisputeOf[job[w]]] = "upheld"
  /\ pc[w] \notin {"idle", "create"} =>
       /\ goal[w] \in SettlementRow /\ goal[w].binding = job[w]
       /\ ValidRow(goal[w]) /\ Truthful(goal[w])
       /\ settlements[DisputeOf[job[w]]] # NoRow
       /\ settlements[DisputeOf[job[w]]].binding = job[w]
  /\ pc[w] \in {"flags", "balance"} => goal[w].status = "eligible"
  /\ pc[w] = "write" => goal[w].status # "eligible"
  /\ pc[w] = "send" => goal[w].status = "submission_attempted"
  /\ pc[w] = "wait" => goal[w].status = "pending"

WorkerInv == \A w \in Worker : WorkerOK(w)

\* A row stands under its own dispute, and what was mined has refunded.
ChainInv ==
  /\ \A d \in Dispute : settlements[d] # NoRow => DisputeOf[settlements[d].binding] = d
  /\ \A h \in Hash : tx[h].status = "mined" => RefundCall(tx[h].binding) \in refunds

RelayInv ==
  /\ TypeOK
  /\ BondInv
  /\ ChainInv
  /\ SentIsUpheld
  /\ ConfirmedIsRefunded
  /\ WorkerInv

\* What no step takes back: the outcomes on the chain, and what a dispute that
\* was upheld is bound to.
Forward ==
  /\ \A h \in Hash :
       /\ tx[h] # NoTx => tx'[h] # NoTx /\ tx'[h].binding = tx[h].binding
       /\ tx[h].status \in {"mined", "reverted"} => tx'[h] = tx[h]
  /\ refunds \subseteq refunds'
  /\ processedDisputes \subseteq processedDisputes'
  /\ refundedPayments \subseteq refundedPayments'
  /\ \A d \in Dispute :
       /\ disputes[d] = "upheld" => disputes'[d] = "upheld"
       /\ settlements[d] # NoRow =>
            settlements'[d] # NoRow /\ settlements'[d].binding = settlements[d].binding

LEMMA RelayStarts == Init => RelayInv
<1> SUFFICES ASSUME Init PROVE RelayInv
  OBVIOUS
<1>1. BondInv
  BY BondStarts DEF Init
<1>2. TypeOK
  BY <1>1 DEF Init, BondInv, TypeOK, JournalTypeOK, DisputeStatus, PcLabels
<1>3. ChainInv /\ SentIsUpheld /\ ConfirmedIsRefunded /\ WorkerInv
  BY DEF Init, ChainInv, SentIsUpheld, ConfirmedIsRefunded, WorkerInv, WorkerOK, NoTx
<1> QED
  BY <1>1, <1>2, <1>3 DEF RelayInv

LEMMA TruthStays ==
  ASSUME TypeOK, Forward, NEW row \in SettlementRow, ValidRow(row), Truthful(row)
  PROVE  Truthful(row)'
<1>1. /\ row.binding \in Binding /\ DisputeOf[row.binding] \in Dispute
      /\ PaymentOf[row.binding] \in Payment
      /\ RefundCall(row.binding)' = RefundCall(row.binding)
  BY JournalAssumption DEF SettlementRow, RefundCall
<1>2. ASSUME row.status = "confirmed"
      PROVE  /\ tx'[row.hash] = [binding |-> row.binding, status |-> "mined"]
             /\ RefundCall(row.binding) \in refunds'
  BY <1>2 DEF ValidRow, Truthful, Forward, SettlementRow
<1>3. ASSUME row.status = "pending"
      PROVE  tx'[row.hash] # NoTx /\ tx'[row.hash].binding = row.binding
  BY <1>3 DEF ValidRow, Truthful, Forward, SettlementRow
<1>4. ASSUME row.status = "failed"
      PROVE  \E h \in Hash : tx'[h] = [binding |-> row.binding, status |-> "reverted"]
  BY <1>4 DEF Truthful, Forward
<1>5. Consumed(row.binding) => Consumed(row.binding)'
  BY DEF Forward, Consumed
<1> QED
  BY <1>1, <1>2, <1>3, <1>4, <1>5 DEF Truthful

\* No step of another party disturbs what a worker relies on.
LEMMA WorkerStays ==
  ASSUME RelayInv, Forward, NEW w \in Worker, UNCHANGED <<pc[w], job[w], goal[w]>>
  PROVE  WorkerOK(w)'
<1>1. WorkerOK(w) /\ TypeOK
  BY DEF RelayInv, WorkerInv
<1>2. CASE pc[w] = "idle"
  BY <1>2 DEF WorkerOK
<1>3. ASSUME pc[w] # "idle"
      PROVE  /\ job[w] \in Binding /\ DisputeOf[job[w]] \in Dispute
             /\ disputes'[DisputeOf[job[w]]] = "upheld"
  BY <1>1, <1>3, JournalAssumption DEF WorkerOK, Forward
<1>4. CASE pc[w] = "create"
  BY <1>3, <1>4 DEF WorkerOK
<1>5. CASE pc[w] \notin {"idle", "create"}
  <2>1. Truthful(goal[w])'
    <3>1. goal[w] \in SettlementRow /\ ValidRow(goal[w]) /\ Truthful(goal[w])
      BY <1>1, <1>5 DEF WorkerOK
    <3>2. \A row \in SettlementRow : ValidRow(row) /\ Truthful(row) => Truthful(row)'
      BY <1>1, TruthStays
    <3> QED
      BY <3>1, <3>2 DEF Truthful
  <2>2. /\ settlements'[DisputeOf[job[w]]] # NoRow
        /\ settlements'[DisputeOf[job[w]]].binding = job[w]
    BY <1>1, <1>3, <1>5 DEF WorkerOK, Forward
  <2> QED
    BY <1>1, <1>3, <1>5, <2>1, <2>2 DEF WorkerOK, ValidRow
<1> QED
  BY <1>2, <1>4, <1>5

\* One worker moves, and the rest of the invariant is seen to.
LEMMA WorkerMoves ==
  ASSUME RelayInv, Forward, NEW w \in Worker, WorkerOK(w)',
         \A v \in Worker \ {w} : UNCHANGED <<pc[v], job[v], goal[v]>>,
         TypeOK', BondInv', ChainInv', SentIsUpheld',
         \A d \in Dispute : settlements'[d] # settlements[d] => Truthful(settlements[d])'
  PROVE  RelayInv'
<1>1. WorkerInv'
  BY WorkerStays DEF WorkerInv
<1>2. ASSUME NEW d \in Dispute, settlements'[d] # NoRow PROVE Truthful(settlements[d])'
  <2>1. CASE settlements'[d] = settlements[d]
    <3>1. settlements[d] \in SettlementRow /\ ValidRow(settlements[d]) /\ Truthful(settlements[d])
      BY <1>2, <2>1 DEF RelayInv, TypeOK, JournalTypeOK, ConfirmedIsRefunded
    <3>2. \A row \in SettlementRow : ValidRow(row) /\ Truthful(row) => Truthful(row)'
      BY TruthStays DEF RelayInv
    <3> QED
      BY <2>1, <3>1, <3>2 DEF Truthful
  <2> QED
    BY <2>1
<1>3. ConfirmedIsRefunded'
  BY <1>2 DEF ConfirmedIsRefunded
<1> QED
  BY <1>1, <1>3 DEF RelayInv

\* A step that changes a worker's memory alone.
LEMMA QuietMoves ==
  ASSUME RelayInv, NEW w \in Worker, UNCHANGED <<bondVars, disputes, settlements, tx>>,
         NEW label \in PcLabels, NEW b \in Binding \cup {NoRow},
         NEW row \in SettlementRow \cup {NoRow},
         pc' = [pc EXCEPT ![w] = label], job' = [job EXCEPT ![w] = b],
         goal' = [goal EXCEPT ![w] = row], WorkerOK(w)'
  PROVE  RelayInv'
<1>1. /\ BondTypeOK' /\ BondInv' /\ JournalTypeOK' /\ SentIsUpheld' /\ ChainInv' /\ Forward
  <2>1. BondInv'
    BY DEF RelayInv, BondInv, bondVars, BondTypeOK, RefundsAreKeyed, RefundedOnce, Conserved,
           RefundsOf, AmountsOf, TotalOf, Units
  <2>2. JournalTypeOK'
    BY DEF RelayInv, TypeOK, JournalTypeOK
  <2>3. SentIsUpheld' /\ ChainInv' /\ Forward
    BY DEF RelayInv, SentIsUpheld, ChainInv, Forward, bondVars, RefundCall
  <2> QED
    BY <2>1, <2>2, <2>3 DEF BondInv
<1>2. TypeOK'
  BY <1>1 DEF RelayInv, TypeOK
<1>3. \A v \in Worker \ {w} : UNCHANGED <<pc[v], job[v], goal[v]>>
  BY DEF RelayInv, TypeOK
<1> QED
  BY <1>1, <1>2, <1>3, WorkerMoves

LEMMA LeavesKeeps ==
  ASSUME RelayInv, NEW w \in Worker, Leaves(w), UNCHANGED <<bondVars, disputes, settlements, tx>>
  PROVE  RelayInv'
<1>1. WorkerOK(w)'
  BY DEF RelayInv, TypeOK, Leaves, WorkerOK
<1> QED
  BY <1>1, QuietMoves DEF Leaves, PcLabels

LEMMA EntersKeeps ==
  ASSUME RelayInv, NEW w \in Worker, NEW b \in Binding,
         disputes[DisputeOf[b]] = "upheld", settlements[DisputeOf[b]] # NoRow,
         settlements[DisputeOf[b]].binding = b, Enters(w, b, settlements[DisputeOf[b]]),
         UNCHANGED <<bondVars, disputes, settlements, tx>>
  PROVE  RelayInv'
<1> DEFINE row == settlements[DisputeOf[b]]
<1>1. /\ row \in SettlementRow /\ ValidRow(row) /\ Truthful(row)
      /\ Truthful(row)'
  <2>1. row \in SettlementRow /\ ValidRow(row) /\ Truthful(row)
    BY JournalAssumption DEF RelayInv, TypeOK, JournalTypeOK, ConfirmedIsRefunded
  <2>2. Truthful(row)'
    BY <2>1, JournalAssumption DEF Truthful, bondVars, RefundCall, Consumed
  <2> QED
    BY <2>1, <2>2
<1>2. WorkerOK(w)'
  BY <1>1 DEF RelayInv, TypeOK, Enters, WorkerOK, BranchOf, ValidRow, Truthful
<1>3. BranchOf(row) \in PcLabels
  BY DEF BranchOf, PcLabels
<1> QED
  BY <1>1, <1>2, <1>3, QuietMoves DEF Enters

LEMMA SettleKeeps ==
  ASSUME RelayInv, NEW w \in Worker, NEW b \in Binding, Settle(w, b)
  PROVE  RelayInv'
<1>1. CASE settlements[DisputeOf[b]] # NoRow
  BY <1>1, EntersKeeps DEF Settle
<1>2. CASE settlements[DisputeOf[b]] = NoRow
  <2>1. /\ pc' = [pc EXCEPT ![w] = "create"] /\ job' = [job EXCEPT ![w] = b]
        /\ UNCHANGED <<goal, bondVars, disputes, settlements, tx>>
        /\ disputes[DisputeOf[b]] = "upheld"
    BY <1>2 DEF Settle
  <2>2. WorkerOK(w)'
    BY <2>1 DEF RelayInv, TypeOK, WorkerOK
  <2>3. goal' = [goal EXCEPT ![w] = goal[w]] /\ goal[w] \in SettlementRow \cup {NoRow}
    BY <2>1 DEF RelayInv, TypeOK
  <2> QED
    BY <2>1, <2>2, <2>3, QuietMoves DEF PcLabels
<1> QED
  BY <1>1, <1>2

\* Settle is at the point where it writes.
LEMMA GoesToWriteKeeps ==
  ASSUME RelayInv, NEW w \in Worker, pc[w] \notin {"idle", "create"}, NEW row \in SettlementRow,
         row.binding = job[w], row.status # "eligible", ValidRow(row), Truthful(row),
         GoesToWrite(w, row), UNCHANGED <<bondVars, disputes, settlements, tx, job>>
  PROVE  RelayInv'
<1>1. WorkerOK(w) /\ TypeOK
  BY DEF RelayInv, WorkerInv
<1>2. Truthful(row)'
  BY DEF Truthful, bondVars, RefundCall, Consumed
<1>3. WorkerOK(w)'
  BY <1>1, <1>2 DEF TypeOK, GoesToWrite, WorkerOK, ValidRow, Truthful
<1>4. job' = [job EXCEPT ![w] = job[w]] /\ job[w] \in Binding \cup {NoRow}
  BY <1>1 DEF TypeOK
<1> QED
  BY <1>3, <1>4, QuietMoves DEF GoesToWrite, PcLabels

LEMMA BecomesRow ==
  ASSUME NEW row \in SettlementRow, NEW s \in SettlementStatus
  PROVE  /\ Becomes(row, s) \in SettlementRow
         /\ Becomes(row, s).binding = row.binding
         /\ Becomes(row, s).status = s /\ Becomes(row, s).hash = NoHash
BY DEF Becomes, SettlementRow

\* The records without a hash that claim nothing, or what the replay keys tell.
LEMMA BecomesKeeps ==
  ASSUME RelayInv, NEW w \in Worker, pc[w] \notin {"idle", "create"},
         NEW s \in {"failed_before_submission", "submission_attempted",
                    "ambiguous_submission", "already_settled"},
         s = "already_settled" => Consumed(job[w]),
         GoesToWrite(w, Becomes(goal[w], s)),
         UNCHANGED <<bondVars, disputes, settlements, tx, job>>
  PROVE  RelayInv'
<1>1. goal[w] \in SettlementRow /\ goal[w].binding = job[w]
  BY DEF RelayInv, WorkerInv, WorkerOK
<1>2. s \in SettlementStatus
  BY DEF SettlementStatus
<1>3. /\ Becomes(goal[w], s) \in SettlementRow
      /\ Becomes(goal[w], s).binding = job[w]
      /\ Becomes(goal[w], s).status = s
  BY <1>1, <1>2, BecomesRow
<1>4. ValidRow(Becomes(goal[w], s)) /\ Truthful(Becomes(goal[w], s))
  BY <1>3 DEF ValidRow, Truthful
<1> QED
  BY <1>3, <1>4, GoesToWriteKeeps

LEMMA PreflightKeeps ==
  ASSUME RelayInv, NEW w \in Worker, PreflightFlags(w) \/ PreflightBalance(w)
  PROVE  RelayInv'
<1>1. CASE pc'[w] = "balance"
  <2>1. /\ pc[w] = "flags" /\ pc' = [pc EXCEPT ![w] = "balance"]
        /\ UNCHANGED <<job, goal, bondVars, disputes, settlements, tx>>
    BY <1>1 DEF RelayInv, TypeOK, PreflightFlags, PreflightBalance, GoesToWrite
  <2>2. WorkerOK(w) /\ TypeOK
    BY DEF RelayInv, WorkerInv
  <2>3. Truthful(goal[w]) => Truthful(goal[w])'
    BY <2>1 DEF Truthful, bondVars, RefundCall, Consumed
  <2>4. WorkerOK(w)'
    BY <2>1, <2>2, <2>3 DEF WorkerOK, TypeOK, ValidRow, Truthful
  <2>5. /\ job' = [job EXCEPT ![w] = job[w]] /\ job[w] \in Binding \cup {NoRow}
        /\ goal' = [goal EXCEPT ![w] = goal[w]] /\ goal[w] \in SettlementRow \cup {NoRow}
    BY <2>1, <2>2 DEF TypeOK
  <2> QED
    BY <2>1, <2>4, <2>5, QuietMoves DEF PcLabels
<1>2. CASE pc'[w] # "balance"
  BY <1>2, BecomesKeeps DEF PreflightFlags, PreflightBalance, RelayInv, TypeOK
<1> QED
  BY <1>1, <1>2

LEMMA ResolveKeeps ==
  ASSUME RelayInv, NEW w \in Worker, ResolveAmbiguous(w)
  PROVE  RelayInv'
BY BecomesKeeps, LeavesKeeps DEF ResolveAmbiguous

LEMMA ReceiptKeeps ==
  ASSUME RelayInv, NEW w \in Worker, Receipt(w)
  PROVE  RelayInv'
<1>1. /\ pc[w] = "wait" /\ goal[w] \in SettlementRow /\ goal[w].binding = job[w]
      /\ goal[w].status = "pending" /\ ValidRow(goal[w]) /\ Truthful(goal[w])
      /\ job[w] \in Binding
  BY DEF Receipt, RelayInv, WorkerInv, WorkerOK
<1>2. /\ goal[w].hash \in Hash /\ tx[goal[w].hash] # NoTx /\ tx[goal[w].hash].binding = job[w]
      /\ tx[goal[w].hash] \in [binding : Binding, status : TxStatus]
  BY <1>1 DEF ValidRow, Truthful, SettlementRow, RelayInv, TypeOK
<1>3. CASE /\ tx[goal[w].hash].status = "mined"
           /\ GoesToWrite(w, [goal[w] EXCEPT !.status = "confirmed"])
  <2> DEFINE row == [goal[w] EXCEPT !.status = "confirmed"]
  <2>1. /\ row \in SettlementRow /\ row.binding = job[w] /\ row.status = "confirmed"
        /\ row.hash = goal[w].hash
    BY <1>1 DEF SettlementRow, SettlementStatus
  <2>2. tx[row.hash] = [binding |-> row.binding, status |-> "mined"]
    BY <1>2, <1>3, <2>1
  <2>3. RefundCall(row.binding) \in refunds
    BY <1>2, <1>3, <2>1 DEF RelayInv, ChainInv
  <2>4. ValidRow(row) /\ Truthful(row)
    BY <1>2, <2>1, <2>2, <2>3, JournalAssumption DEF ValidRow, Truthful
  <2> HIDE DEF row
  <2> QED
    BY <1>1, <1>3, <2>1, <2>4, GoesToWriteKeeps DEF Receipt, row
<1>4. CASE /\ tx[goal[w].hash].status = "reverted"
           /\ GoesToWrite(w, Becomes(goal[w], "failed"))
  <2>1. /\ Becomes(goal[w], "failed") \in SettlementRow
        /\ Becomes(goal[w], "failed").binding = job[w]
        /\ Becomes(goal[w], "failed").status = "failed"
    BY <1>1, BecomesRow DEF SettlementStatus
  <2>2. tx[goal[w].hash] = [binding |-> job[w], status |-> "reverted"]
    BY <1>2, <1>4
  <2>3. ValidRow(Becomes(goal[w], "failed")) /\ Truthful(Becomes(goal[w], "failed"))
    BY <1>2, <2>1, <2>2 DEF ValidRow, Truthful
  <2> QED
    BY <1>1, <1>4, <2>1, <2>3, GoesToWriteKeeps DEF Receipt
<1> QED
  BY <1>3, <1>4 DEF Receipt

\* A step that changes rows of the journal, never away from a binding.
LEMMA RowsMove ==
  ASSUME RelayInv, NEW w \in Worker, WorkerOK(w)', NEW row \in SettlementRow,
         ValidRow(row), Truthful(row), NEW d \in Dispute, d = DisputeOf[row.binding],
         settlements[d] # NoRow => settlements[d].binding = row.binding,
         settlements' = [settlements EXCEPT ![d] = row],
         UNCHANGED <<bondVars, disputes, tx>>,
         pc' \in [Worker -> PcLabels], job' \in [Worker -> Binding \cup {NoRow}],
         goal' \in [Worker -> SettlementRow \cup {NoRow}],
         \A v \in Worker \ {w} : UNCHANGED <<pc[v], job[v], goal[v]>>
  PROVE  RelayInv'
<1>1. BondInv' /\ BondTypeOK'
  BY DEF RelayInv, BondInv, bondVars, BondTypeOK, RefundsAreKeyed, RefundedOnce, Conserved,
         RefundsOf, AmountsOf, TotalOf, Units
<1>2. /\ settlements'[d] = row /\ row # NoRow
      /\ \A e \in Dispute \ {d} : settlements'[e] = settlements[e]
  BY RowAssumption DEF RelayInv, TypeOK, JournalTypeOK
<1>3. JournalTypeOK'
  BY <1>2 DEF RelayInv, TypeOK, JournalTypeOK, ValidRow
<1>4. TypeOK'
  BY <1>1, <1>3 DEF RelayInv, TypeOK
<1>5. Forward
  BY <1>2 DEF Forward, bondVars
<1>6. ChainInv'
  BY <1>2 DEF RelayInv, ChainInv, bondVars, RefundCall
<1>7. SentIsUpheld'
  <2> SUFFICES ASSUME NEW h \in Hash, tx[h] # NoTx
               PROVE  LET e == DisputeOf[tx[h].binding] IN
                        /\ disputes[e] = "upheld"
                        /\ settlements'[e] # NoRow /\ settlements'[e].binding = tx[h].binding
    BY DEF SentIsUpheld
  <2>1. tx[h].binding \in Binding /\ DisputeOf[tx[h].binding] \in Dispute
    BY JournalAssumption DEF RelayInv, TypeOK
  <2> QED
    BY <1>2, <2>1 DEF RelayInv, SentIsUpheld
<1>8. \A e \in Dispute : settlements'[e] # settlements[e] => Truthful(settlements[e])'
  <2>1. Truthful(row)'
    BY DEF Truthful, bondVars, RefundCall, Consumed
  <2> QED
    BY <1>2, <2>1 DEF Truthful
<1> QED
  BY <1>1, <1>4, <1>5, <1>6, <1>7, <1>8, WorkerMoves

LEMMA CreateKeeps ==
  ASSUME RelayInv, NEW w \in Worker, Create(w)
  PROVE  RelayInv'
<1>1. PICK b \in Binding : /\ b = job[w]
                           /\ DisputeOf[b] \in Dispute /\ disputes[DisputeOf[b]] = "upheld"
                           /\ pc[w] = "create"
  BY JournalAssumption DEF Create, RelayInv, WorkerInv, WorkerOK
<1>2. CASE InsertSettlement(b) /\ Enters(w, b, Eligible(b))
  <2>1. /\ Eligible(b) \in SettlementRow /\ Eligible(b).binding = b
        /\ Eligible(b).status = "eligible"
    BY <1>1 DEF Eligible, SettlementRow, SettlementStatus
  <2>2. ValidRow(Eligible(b)) /\ Truthful(Eligible(b)) /\ Truthful(Eligible(b))'
    BY <2>1 DEF ValidRow, Truthful
  <2>3. settlements[DisputeOf[b]] = NoRow
    BY <1>1, <1>2 DEF InsertSettlement, Conflicting
  <2>4. /\ settlements' = [settlements EXCEPT ![DisputeOf[b]] = Eligible(b)]
        /\ UNCHANGED <<bondVars, disputes, tx>>
        /\ pc' = [pc EXCEPT ![w] = "flags"] /\ job' = [job EXCEPT ![w] = b]
        /\ goal' = [goal EXCEPT ![w] = Eligible(b)]
    BY <1>1, <1>2, <2>1 DEF Create, InsertSettlement, Enters, BranchOf
  <2>5. settlements'[DisputeOf[b]] = Eligible(b) /\ Eligible(b) # NoRow
    BY <1>1, <2>1, <2>4, RowAssumption DEF RelayInv, TypeOK, JournalTypeOK
  <2>6. /\ pc'[w] = "flags" /\ job'[w] = b /\ goal'[w] = Eligible(b)
        /\ pc' \in [Worker -> PcLabels] /\ job' \in [Worker -> Binding \cup {NoRow}]
        /\ goal' \in [Worker -> SettlementRow \cup {NoRow}]
        /\ \A v \in Worker \ {w} : UNCHANGED <<pc[v], job[v], goal[v]>>
    BY <1>1, <2>1, <2>4 DEF RelayInv, TypeOK, PcLabels
  <2>7. Truthful(goal[w])'
    BY <2>1, <2>6 DEF Truthful
  <2>8. WorkerOK(w)'
    BY <1>1, <2>1, <2>2, <2>4, <2>5, <2>6, <2>7 DEF WorkerOK, ValidRow
  <2> QED
    BY <1>1, <2>1, <2>2, <2>3, <2>4, <2>6, <2>8, RowsMove
<1>3. CASE /\ \E row \in Conflicting(b) : row.binding = b /\ Enters(w, b, row)
           /\ UNCHANGED settlements
  <2>1. PICK e \in Dispute : /\ settlements[e] # NoRow /\ settlements[e].binding = b
                             /\ Enters(w, b, settlements[e])
    BY <1>3 DEF Conflicting
  <2>2. e = DisputeOf[b]
    BY <2>1 DEF RelayInv, ChainInv
  <2> QED
    BY <1>1, <1>3, <2>1, <2>2, EntersKeeps DEF Create
<1>4. CASE Leaves(w) /\ UNCHANGED settlements
  BY <1>4, LeavesKeeps DEF Create
<1> QED
  BY <1>1, <1>2, <1>3, <1>4 DEF Create

LEMMA WriteKeeps ==
  ASSUME RelayInv, NEW w \in Worker, Write(w)
  PROVE  RelayInv'
<1>0. PICK row \in SettlementRow, d \in Dispute : row = goal[w] /\ d = DisputeOf[job[w]]
  BY JournalAssumption DEF Write, RelayInv, WorkerInv, WorkerOK
<1>1. /\ job[w] \in Binding /\ disputes[d] = "upheld"
      /\ row.binding = job[w] /\ d = DisputeOf[row.binding]
      /\ ValidRow(row) /\ Truthful(row) /\ row.status # "eligible"
      /\ settlements[d] # NoRow /\ settlements[d].binding = job[w]
      /\ pc[w] = "write"
  BY <1>0 DEF Write, RelayInv, WorkerInv, WorkerOK
<1>2. settlements' = [settlements EXCEPT ![d] = row]
  <2>1. CASE CommitSettlement(row)
    BY <1>1, <2>1 DEF CommitSettlement
  <2>2. CASE EchoSettlement(row)
    BY <1>1, <2>2 DEF EchoSettlement, RelayInv, TypeOK, JournalTypeOK
  <2> QED
    BY <1>0, <2>1, <2>2 DEF Write
<1>3. UNCHANGED <<bondVars, disputes, tx>>
  BY DEF Write
<1>4. settlements'[d] = row /\ row # NoRow
  BY <1>1, <1>2, RowAssumption DEF RelayInv, TypeOK, JournalTypeOK
<1>5. Truthful(row)'
  BY <1>1, <1>3 DEF Truthful, bondVars, RefundCall, Consumed
<1>6. /\ pc' \in [Worker -> PcLabels] /\ job' \in [Worker -> Binding \cup {NoRow}]
      /\ goal' \in [Worker -> SettlementRow \cup {NoRow}]
      /\ \A v \in Worker \ {w} : UNCHANGED <<pc[v], job[v], goal[v]>>
      /\ \/ pc'[w] = "idle"
         \/ pc'[w] = AfterWrite(row) /\ job'[w] = job[w] /\ goal'[w] = row
  BY <1>0 DEF Write, Leaves, AfterWrite, PcLabels, RelayInv, TypeOK
<1>7. WorkerOK(w)'
  <2>1. CASE pc'[w] = "idle"
    BY <2>1 DEF WorkerOK
  <2>2. CASE pc'[w] = AfterWrite(row) /\ job'[w] = job[w] /\ goal'[w] = row
    <3>1. Truthful(goal[w])'
      BY <1>5, <2>2 DEF Truthful
    <3> QED
      BY <1>0, <1>1, <1>3, <1>4, <2>2, <3>1 DEF WorkerOK, AfterWrite, ValidRow
  <2> QED
    BY <1>6, <2>1, <2>2
<1> QED
  BY <1>0, <1>1, <1>2, <1>3, <1>6, <1>7, RowsMove


\* A transaction joins the mempool, or leaves it.
LEMMA TxMoves ==
  ASSUME RelayInv, NEW h \in Hash, NEW new \in [binding : Binding, status : TxStatus],
         tx' = [tx EXCEPT ![h] = new],
         tx[h] # NoTx => new.binding = tx[h].binding,
         tx[h].status \notin {"mined", "reverted"},
         disputes[DisputeOf[new.binding]] = "upheld",
         settlements[DisputeOf[new.binding]] # NoRow,
         settlements[DisputeOf[new.binding]].binding = new.binding,
         BondInv', refunds \subseteq refunds', processedDisputes \subseteq processedDisputes',
         refundedPayments \subseteq refundedPayments',
         new.status = "mined" => RefundCall(new.binding) \in refunds',
         UNCHANGED <<disputes, settlements>>
  PROVE  /\ Forward /\ ChainInv' /\ SentIsUpheld'
         /\ BondTypeOK' /\ JournalTypeOK'
         /\ tx' \in [Hash -> [binding : Binding, status : TxStatus] \cup {NoTx}]
<1>1. /\ tx \in [Hash -> [binding : Binding, status : TxStatus] \cup {NoTx}]
      /\ tx'[h] = new /\ \A g \in Hash \ {h} : tx'[g] = tx[g]
      /\ new # NoTx
  BY DEF RelayInv, TypeOK, NoTx, TxStatus
<1>2. Forward
  BY <1>1 DEF Forward
<1>3. ChainInv'
  BY <1>1 DEF RelayInv, ChainInv, RefundCall
<1>4. SentIsUpheld'
  BY <1>1 DEF RelayInv, SentIsUpheld
<1>5. BondTypeOK' /\ JournalTypeOK'
  BY DEF BondInv, RelayInv, TypeOK, JournalTypeOK
<1> QED
  BY <1>1, <1>2, <1>3, <1>4, <1>5

\* Workers stand still while the rest of the system moves.
LEMMA OthersMove ==
  ASSUME RelayInv, Forward, UNCHANGED workerVars, UNCHANGED settlements,
         TypeOK', BondInv', ChainInv', SentIsUpheld'
  PROVE  RelayInv'
<1>1. WorkerInv'
  BY WorkerStays DEF WorkerInv, workerVars
<1>2. ASSUME NEW d \in Dispute, settlements'[d] # NoRow PROVE Truthful(settlements[d])'
  <2>1. settlements[d] \in SettlementRow /\ ValidRow(settlements[d]) /\ Truthful(settlements[d])
    BY <1>2 DEF RelayInv, TypeOK, JournalTypeOK, ConfirmedIsRefunded
  <2>2. \A row \in SettlementRow : ValidRow(row) /\ Truthful(row) => Truthful(row)'
    BY TruthStays DEF RelayInv
  <2> QED
    BY <2>1, <2>2 DEF Truthful
<1>3. ConfirmedIsRefunded'
  BY <1>2 DEF ConfirmedIsRefunded
<1> QED
  BY <1>1, <1>3 DEF RelayInv

LEMMA BondQuiet ==
  ASSUME BondInv, UNCHANGED bondVars
  PROVE  BondInv'
BY DEF BondInv, bondVars, BondTypeOK, RefundsAreKeyed, RefundedOnce, Conserved,
       RefundsOf, AmountsOf, TotalOf, Units

LEMMA SendKeeps ==
  ASSUME RelayInv, NEW w \in Worker, Send(w)
  PROVE  RelayInv'
<1>1. PICK b \in Binding : /\ b = job[w]
                           /\ DisputeOf[b] \in Dispute /\ disputes[DisputeOf[b]] = "upheld"
                           /\ settlements[DisputeOf[b]] # NoRow
                           /\ settlements[DisputeOf[b]].binding = b
  BY JournalAssumption DEF Send, RelayInv, WorkerInv, WorkerOK
<1>2. PICK row \in SettlementRow : /\ row = goal[w] /\ row.binding = b
                                   /\ row.status = "submission_attempted"
  BY <1>1 DEF Send, RelayInv, WorkerInv, WorkerOK
<1>3. CASE /\ UNCHANGED tx
           /\ \/ GoesToWrite(w, Becomes(goal[w], "failed_before_submission"))
              \/ GoesToWrite(w, Becomes(goal[w], "ambiguous_submission"))
  <2>1. pc[w] \notin {"idle", "create"} /\ UNCHANGED <<bondVars, disputes, settlements, tx, job>>
    BY <1>3 DEF Send
  <2> QED
    BY <1>3, <2>1, BecomesKeeps
<1>4. ASSUME NEW h \in Hash, Broadcasts(w, h),
             \/ GoesToWrite(w, [goal[w] EXCEPT !.status = "pending", !.hash = h])
             \/ GoesToWrite(w, Becomes(goal[w], "ambiguous_submission"))
      PROVE  RelayInv'
  <2> DEFINE new == [binding |-> b, status |-> "mempool"]
  <2>1. /\ tx' = [tx EXCEPT ![h] = new] /\ tx[h] = NoTx
        /\ new \in [binding : Binding, status : TxStatus]
        /\ UNCHANGED <<bondVars, disputes, settlements, job>>
    BY <1>1, <1>4 DEF Broadcasts, Send, TxStatus
  <2>2. BondInv' /\ UNCHANGED <<refunds, processedDisputes, refundedPayments>>
    BY <2>1, BondQuiet DEF RelayInv, bondVars
  <2>3. /\ Forward /\ ChainInv' /\ SentIsUpheld' /\ BondTypeOK' /\ JournalTypeOK'
        /\ tx' \in [Hash -> [binding : Binding, status : TxStatus] \cup {NoTx}]
    <3>1. /\ new.binding = b /\ new.status = "mempool" /\ tx[h].status = "unused"
      BY <2>1 DEF NoTx
    <3> HIDE DEF new
    <3> QED
      BY <1>1, <2>1, <2>2, <3>1, TxMoves
  <2>4. PICK next \in SettlementRow :
          /\ pc' = [pc EXCEPT ![w] = "write"] /\ goal' = [goal EXCEPT ![w] = next]
          /\ next.binding = b /\ next.status \in {"pending", "ambiguous_submission"}
          /\ next.status = "pending" => next.hash = h
    <3>1. CASE GoesToWrite(w, [goal[w] EXCEPT !.status = "pending", !.hash = h])
      <4> DEFINE next == [row EXCEPT !.status = "pending", !.hash = h]
      <4>1. /\ next \in SettlementRow /\ next.binding = b
            /\ next.status = "pending" /\ next.hash = h
        BY <1>2 DEF SettlementRow, SettlementStatus
      <4>2. pc' = [pc EXCEPT ![w] = "write"] /\ goal' = [goal EXCEPT ![w] = next]
        BY <1>2, <3>1 DEF GoesToWrite
      <4> HIDE DEF next
      <4> QED
        BY <4>1, <4>2
    <3>2. CASE GoesToWrite(w, Becomes(goal[w], "ambiguous_submission"))
      BY <1>2, <3>2, BecomesRow DEF GoesToWrite, SettlementStatus
    <3> QED
      BY <1>4, <3>1, <3>2
  <2>5. tx'[h] # NoTx /\ tx'[h].binding = b
    BY <2>1 DEF RelayInv, TypeOK, NoTx
  <2>6. ValidRow(next) /\ Truthful(next)'
    BY <2>4, <2>5, JournalAssumption DEF ValidRow, Truthful
  <2>7. /\ TypeOK' /\ pc'[w] = "write" /\ goal'[w] = next /\ job'[w] = b
        /\ \A v \in Worker \ {w} : UNCHANGED <<pc[v], job[v], goal[v]>>
    BY <1>1, <2>1, <2>3, <2>4 DEF RelayInv, TypeOK, PcLabels
  <2>8. Truthful(goal[w])'
    BY <2>6, <2>7 DEF Truthful
  <2>9. WorkerOK(w)'
    BY <1>1, <2>1, <2>4, <2>6, <2>7, <2>8 DEF WorkerOK, ValidRow
  <2> QED
    BY <2>1, <2>2, <2>3, <2>7, <2>9, WorkerMoves
<1> QED
  BY <1>3, <1>4 DEF Send

LEMMA ChainKeeps ==
  ASSUME RelayInv, NEW h \in Hash, Mine(h) \/ Drop(h)
  PROVE  RelayInv'
<1>1. tx[h].status = "mempool" /\ tx[h] # NoTx
  BY DEF Mine, Drop, NoTx
<1>2. PICK b \in Binding : /\ b = tx[h].binding /\ tx[h] = [binding |-> b, status |-> "mempool"]
                           /\ disputes[DisputeOf[b]] = "upheld"
                           /\ settlements[DisputeOf[b]] # NoRow
                           /\ settlements[DisputeOf[b]].binding = b
  BY <1>1 DEF RelayInv, TypeOK, SentIsUpheld
<1>3. RefundCall(b) \in RefundEvent
  BY JournalAssumption, RelayAssumption DEF RefundCall, RefundEvent
<1>4. PICK s \in TxStatus : /\ tx' = [tx EXCEPT ![h] = [binding |-> b, status |-> s]]
                            /\ s = "mined" => Refund(RefundCall(b))
                            /\ s # "mined" => UNCHANGED bondVars
  BY <1>2 DEF Mine, Drop, TxStatus, RelayInv, TypeOK
<1>5. /\ BondInv' /\ refunds \subseteq refunds' /\ processedDisputes \subseteq processedDisputes'
      /\ refundedPayments \subseteq refundedPayments'
      /\ s = "mined" => RefundCall(b) \in refunds'
  <2>1. CASE s = "mined"
    BY <1>3, <1>4, <2>1, RefundKeeps DEF RelayInv, Refund, RefundEffects
  <2>2. CASE s # "mined"
    BY <1>4, <2>2, BondQuiet DEF RelayInv, bondVars
  <2> QED
    BY <2>1, <2>2
<1>6. UNCHANGED <<disputes, settlements, workerVars>>
  BY DEF Mine, Drop
<1>7. /\ Forward /\ ChainInv' /\ SentIsUpheld' /\ BondTypeOK' /\ JournalTypeOK'
      /\ tx' \in [Hash -> [binding : Binding, status : TxStatus] \cup {NoTx}]
  <2> DEFINE new == [binding |-> b, status |-> s]
  <2>1. new \in [binding : Binding, status : TxStatus] /\ new.binding = b /\ new.status = s
    OBVIOUS
  <2>2. tx' = [tx EXCEPT ![h] = new]
    BY <1>4
  <2> HIDE DEF new
  <2> QED
    BY <1>1, <1>2, <1>5, <1>6, <2>1, <2>2, TxMoves
<1>8. TypeOK'
  BY <1>6, <1>7 DEF RelayInv, TypeOK, workerVars
<1> QED
  BY <1>5, <1>6, <1>7, <1>8, OthersMove

\* Steps of other parties on the contract alone.
LEMMA ContractMoves ==
  ASSUME RelayInv, UNCHANGED <<disputes, settlements, tx, workerVars>>,
         \/ \E v \in Provider, amount \in Nat : Deposit(v, amount)
         \/ \E r \in RefundEvent : Refund(r)
  PROVE  RelayInv'
<1>1. /\ BondInv' /\ refunds \subseteq refunds' /\ processedDisputes \subseteq processedDisputes'
      /\ refundedPayments \subseteq refundedPayments'
  <2>1. ASSUME NEW v \in Provider, NEW amount \in Nat, Deposit(v, amount)
        PROVE  BondInv' /\ UNCHANGED <<refunds, processedDisputes, refundedPayments>>
    BY <2>1, DepositKeeps DEF RelayInv, Deposit
  <2>2. ASSUME NEW r \in RefundEvent, Refund(r)
        PROVE  /\ BondInv' /\ refunds \subseteq refunds'
               /\ processedDisputes \subseteq processedDisputes'
               /\ refundedPayments \subseteq refundedPayments'
    BY <2>2, RefundKeeps DEF RelayInv, Refund, RefundEffects
  <2> QED
    BY <2>1, <2>2
<1>2. Forward
  BY <1>1 DEF Forward
<1>3. TypeOK' /\ ChainInv' /\ SentIsUpheld'
  BY <1>1 DEF RelayInv, TypeOK, JournalTypeOK, BondInv, ChainInv, SentIsUpheld,
              workerVars, RefundCall
<1> QED
  BY <1>1, <1>2, <1>3, OthersMove

LEMMA BondMoves ==
  ASSUME RelayInv, \/ \E v \in Provider : DepositBond(v)
                   \/ ForeignRefund
  PROVE  RelayInv'
<1>1. UNCHANGED <<disputes, settlements, tx, workerVars>>
  BY DEF DepositBond, ForeignRefund
<1>2. \/ \E v \in Provider, amount \in Nat : Deposit(v, amount)
      \/ \E r \in RefundEvent : Refund(r)
  BY RelayAssumption DEF DepositBond, ForeignRefund
<1> QED
  BY <1>1, <1>2, ContractMoves

\* Disputes move, and none away from upheld.
LEMMA DisputesMove ==
  ASSUME RelayInv, UNCHANGED <<bondVars, settlements, tx, workerVars>>,
         disputes' \in [Dispute -> DisputeStatus \cup {NoRow}],
         \A e \in Dispute : disputes[e] = "upheld" => disputes'[e] = "upheld"
  PROVE  RelayInv'
<1>1. BondInv' /\ Forward
  BY BondQuiet DEF RelayInv, Forward, bondVars
<1>2. TypeOK' /\ ChainInv'
  BY <1>1 DEF RelayInv, TypeOK, JournalTypeOK, BondInv, ChainInv, workerVars, RefundCall, bondVars
<1>3. SentIsUpheld'
  <2> SUFFICES ASSUME NEW h \in Hash, tx[h] # NoTx
               PROVE  LET e == DisputeOf[tx[h].binding] IN
                        /\ disputes'[e] = "upheld"
                        /\ settlements[e] # NoRow /\ settlements[e].binding = tx[h].binding
    BY DEF SentIsUpheld
  <2>1. DisputeOf[tx[h].binding] \in Dispute
    BY JournalAssumption DEF RelayInv, TypeOK
  <2> QED
    BY <2>1 DEF RelayInv, SentIsUpheld
<1> QED
  BY <1>1, <1>2, <1>3, OthersMove

LEMMA ConcludeKeeps ==
  ASSUME RelayInv, NEW d \in Dispute, Conclude(d)
  PROVE  RelayInv'
<1>1. PICK s \in {"upheld", "rejected"} : /\ disputes[d] # NoRow /\ s \in DisputeMoves[disputes[d]]
                                          /\ disputes' = [disputes EXCEPT ![d] = s]
  BY DEF Conclude, UpdateDispute
<1>2. UNCHANGED <<bondVars, settlements, tx, workerVars>>
  BY DEF Conclude
<1>3. /\ disputes' \in [Dispute -> DisputeStatus \cup {NoRow}]
      /\ \A e \in Dispute : disputes[e] = "upheld" => disputes'[e] = "upheld"
  BY <1>1 DEF DisputeMoves, RelayInv, TypeOK, JournalTypeOK, DisputeStatus
<1> QED
  BY <1>2, <1>3, DisputesMove

LEMMA NextRelayInv == RelayInv /\ [Next]_relayVars => RelayInv'
<1> SUFFICES ASSUME RelayInv, [Next]_relayVars PROVE RelayInv'
  OBVIOUS
<1>1. ASSUME NEW w \in Worker, WorkerStep(w) PROVE RelayInv'
  <2>1. CASE \E b \in Binding : Settle(w, b)
    BY <2>1, SettleKeeps
  <2>2. CASE Create(w)
    BY <2>2, CreateKeeps
  <2>3. CASE PreflightFlags(w) \/ PreflightBalance(w)
    BY <2>3, PreflightKeeps
  <2>4. CASE Write(w)
    BY <2>4, WriteKeeps
  <2>5. CASE Send(w)
    BY <2>5, SendKeeps
  <2>6. CASE ResolveAmbiguous(w)
    BY <2>6, ResolveKeeps
  <2>7. CASE Receipt(w)
    BY <2>7, ReceiptKeeps
  <2>8. CASE WriteRefused(w) \/ NoReceipt(w) \/ Crash(w)
    BY <2>8, LeavesKeeps DEF WriteRefused, NoReceipt, Crash
  <2> QED
    BY <1>1, <2>1, <2>2, <2>3, <2>4, <2>5, <2>6, <2>7, <2>8 DEF WorkerStep
<1>2. ASSUME NEW h \in Hash, Mine(h) \/ Drop(h) PROVE RelayInv'
  BY <1>2, ChainKeeps
<1>3. CASE (\E v \in Provider : DepositBond(v)) \/ ForeignRefund
  BY <1>3, BondMoves
<1>4. ASSUME NEW d \in Dispute, Conclude(d) PROVE RelayInv'
  BY <1>4, ConcludeKeeps
<1>5. CASE UNCHANGED relayVars
  <2>1. BondInv' /\ Forward
    BY <1>5, BondQuiet DEF RelayInv, Forward, relayVars, bondVars
  <2>2. TypeOK' /\ ChainInv' /\ SentIsUpheld'
    BY <1>5, <2>1 DEF RelayInv, TypeOK, JournalTypeOK, BondInv, ChainInv, SentIsUpheld,
                      relayVars, workerVars, bondVars, RefundCall
  <2> QED
    BY <1>5, <2>1, <2>2, OthersMove DEF relayVars
<1> QED
  BY <1>1, <1>2, <1>3, <1>4, <1>5 DEF Next

THEOREM RelayInvariant == Spec => []RelayInv
BY RelayStarts, NextRelayInv, PTL DEF Spec

\* Every state is well-typed.
THEOREM RelayTypeCorrect == Spec => []TypeOK
<1>1. RelayInv => TypeOK
  BY DEF RelayInv
<1> QED
  BY <1>1, RelayInvariant, PTL

\* The bond contract holds what it owes, whoever deposits and whatever is
\* refunded, in any order.
THEOREM BondConserved == Spec => []Conserved
<1>1. RelayInv => Conserved
  BY DEF RelayInv, BondInv
<1> QED
  BY <1>1, RelayInvariant, PTL

\* No payment and no dispute is refunded twice.
THEOREM BondRefundsOnce == Spec => []RefundedOnce
<1>1. RelayInv => RefundedOnce
  BY DEF RelayInv, BondInv
<1> QED
  BY <1>1, RelayInvariant, PTL

\* The relay sends refunds of upheld disputes only, as the journal binds them.
THEOREM RelaySendsUpheld == Spec => []SentIsUpheld
<1>1. RelayInv => SentIsUpheld
  BY DEF RelayInv
<1> QED
  BY <1>1, RelayInvariant, PTL

\* What the journal says of a settlement has happened on the chain.
THEOREM RelayTellsTruth == Spec => []ConfirmedIsRefunded
<1>1. RelayInv => ConfirmedIsRefunded
  BY DEF RelayInv
<1> QED
  BY <1>1, RelayInvariant, PTL

-----------------------------------------------------------------------------
(* One broadcast.  The token is the move of a row away from eligible: only  *)
(* the worker that commits it goes on to send.                              *)

Attempted(d) == settlements[d] # NoRow /\ settlements[d].status # "eligible"

OnceInv ==
  /\ OneBroadcast
  /\ \A h \in Hash : tx[h] # NoTx => Attempted(DisputeOf[tx[h].binding])
  /\ \A w \in Worker : pc[w] = "send" =>
       /\ Attempted(DisputeOf[job[w]])
       /\ \A h \in Hash : tx[h] # NoTx => DisputeOf[tx[h].binding] # DisputeOf[job[w]]
       /\ \A v \in Worker :
            pc[v] = "send" /\ DisputeOf[job[v]] = DisputeOf[job[w]] => v = w

LEMMA OnceStays ==
  ASSUME OnceInv,
         \A w \in Worker : pc'[w] = "send" => pc[w] = "send" /\ job'[w] = job[w],
         \A h \in Hash : tx'[h] # NoTx => tx[h] # NoTx /\ tx'[h].binding = tx[h].binding,
         \A w \in Worker : pc[w] = "send" => DisputeOf[job[w]] \in Dispute,
         \A h \in Hash : tx[h] # NoTx => DisputeOf[tx[h].binding] \in Dispute,
         \A d \in Dispute : Attempted(d) => Attempted(d)'
  PROVE  OnceInv'
BY DEF OnceInv, OneBroadcast

\* Who is about to send, what has been sent, and the disputes they belong to.
LEMMA OnceTyped ==
  ASSUME RelayInv
  PROVE  /\ \A w \in Worker : pc[w] = "send" => DisputeOf[job[w]] \in Dispute
         /\ \A h \in Hash : tx[h] # NoTx => DisputeOf[tx[h].binding] \in Dispute
BY JournalAssumption DEF RelayInv, WorkerInv, WorkerOK, TypeOK

\* A step of a worker that neither writes nor sends.
LEMMA OnceQuiet ==
  ASSUME RelayInv, OnceInv, NEW w \in Worker, UNCHANGED <<settlements, tx>>,
         pc'[w] # "send", \A v \in Worker \ {w} : UNCHANGED <<pc[v], job[v]>>
  PROVE  OnceInv'
<1>1. \A d \in Dispute : Attempted(d) => Attempted(d)'
  BY DEF Attempted
<1> QED
  BY <1>1, OnceTyped, OnceStays

LEMMA OnceCreate ==
  ASSUME RelayInv, OnceInv, NEW w \in Worker, Create(w)
  PROVE  OnceInv'
<1>1. /\ pc'[w] # "send" /\ UNCHANGED tx
      /\ \A v \in Worker \ {w} : UNCHANGED <<pc[v], job[v]>>
  BY DEF Create, Enters, Leaves, BranchOf, RelayInv, TypeOK
<1>2. CASE UNCHANGED settlements
  BY <1>1, <1>2, OnceQuiet
<1>3. CASE InsertSettlement(job[w])
  <2>1. \A d \in Dispute : Attempted(d) => Attempted(d)'
    <3>1. settlements[DisputeOf[job[w]]] = NoRow
      BY <1>3, JournalAssumption DEF InsertSettlement, Conflicting, Create, RelayInv, WorkerInv, WorkerOK
    <3> QED
      BY <1>3, <3>1 DEF Attempted, InsertSettlement, RelayInv, TypeOK, JournalTypeOK
  <2> QED
    BY <1>1, <2>1, OnceTyped, OnceStays
<1> QED
  BY <1>2, <1>3 DEF Create

LEMMA OnceCommits ==
  ASSUME RelayInv, OnceInv, NEW w \in Worker, Write(w), CommitSettlement(goal[w])
  PROVE  OnceInv'
<1>1. PICK row \in SettlementRow, d \in Dispute :
        /\ row = goal[w] /\ d = DisputeOf[job[w]] /\ row.binding = job[w]
        /\ row.status # "eligible"
  BY JournalAssumption DEF Write, RelayInv, WorkerInv, WorkerOK
<1>2. /\ settlements[d] # NoRow /\ row.status \in SettlementMoves[settlements[d].status]
      /\ settlements' = [settlements EXCEPT ![d] = row]
      /\ settlements[d] \in SettlementRow
  BY <1>1 DEF CommitSettlement, RelayInv, TypeOK, JournalTypeOK
<1>3. /\ \A e \in Dispute : Attempted(e) => Attempted(e)'
      /\ Attempted(d)'
  BY <1>1, <1>2, RowAssumption DEF Attempted, RelayInv, TypeOK, JournalTypeOK
<1>4. UNCHANGED tx /\ \A v \in Worker \ {w} : UNCHANGED <<pc[v], job[v]>>
  BY DEF Write, Leaves, RelayInv, TypeOK
<1>5. CASE pc'[w] # "send"
  BY <1>3, <1>4, <1>5, OnceTyped, OnceStays
<1>6. CASE pc'[w] = "send"
  <2>1. row.status = "submission_attempted" /\ job'[w] = job[w]
    BY <1>1, <1>6 DEF Write, Leaves, AfterWrite, RelayInv, TypeOK
  <2>2. ~Attempted(d)
    BY <1>1, <1>2, <2>1 DEF Attempted, SettlementMoves, SettlementRow, SettlementStatus
  <2>3. /\ \A h \in Hash : tx[h] # NoTx => DisputeOf[tx[h].binding] # d
        /\ \A v \in Worker : pc[v] = "send" => DisputeOf[job[v]] # d
    BY <2>2 DEF OnceInv
  <2> QED
    BY <1>1, <1>3, <1>4, <1>6, <2>1, <2>3, OnceTyped DEF OnceInv, OneBroadcast
<1> QED
  BY <1>5, <1>6

LEMMA OnceWrite ==
  ASSUME ~ClocksTie, RelayInv, OnceInv, NEW w \in Worker, Write(w)
  PROVE  OnceInv'
BY OnceCommits DEF Write, EchoSettlement

LEMMA OnceSend ==
  ASSUME RelayInv, OnceInv, NEW w \in Worker, Send(w)
  PROVE  OnceInv'
<1>1. /\ pc[w] = "send" /\ pc'[w] # "send" /\ UNCHANGED settlements
      /\ \A v \in Worker \ {w} : UNCHANGED <<pc[v], job[v]>>
  BY DEF Send, GoesToWrite, RelayInv, TypeOK
<1>2. CASE UNCHANGED tx
  BY <1>1, <1>2, OnceQuiet
<1>3. ASSUME NEW h \in Hash, Broadcasts(w, h) PROVE OnceInv'
  <2>1. /\ tx[h] = NoTx /\ tx'[h].binding = job[w]
        /\ \A g \in Hash \ {h} : tx'[g] = tx[g]
    BY <1>3 DEF Broadcasts, RelayInv, TypeOK
  <2>2. \A d \in Dispute : Attempted(d) => Attempted(d)'
    BY <1>1 DEF Attempted
  <2> QED
    BY <1>1, <2>1, <2>2, OnceTyped DEF OnceInv, OneBroadcast
<1> QED
  BY <1>2, <1>3 DEF Send

\* The steps that neither commit a record nor send.
LEMMA OnceOtherSteps ==
  ASSUME RelayInv, OnceInv, NEW w \in Worker, WorkerStep(w), ~Create(w), ~Write(w), ~Send(w)
  PROVE  OnceInv'
<1>1. CASE \E b \in Binding : Settle(w, b)
  <2>1. /\ UNCHANGED <<settlements, tx>> /\ pc'[w] # "send"
        /\ \A v \in Worker \ {w} : UNCHANGED <<pc[v], job[v]>>
    BY <1>1 DEF Settle, Enters, BranchOf, RelayInv, TypeOK
  <2> QED
    BY <2>1, OnceQuiet
<1>2. CASE PreflightFlags(w) \/ PreflightBalance(w) \/ Receipt(w) \/ ResolveAmbiguous(w)
  <2>1. /\ UNCHANGED <<settlements, tx>> /\ pc'[w] # "send"
        /\ \A v \in Worker \ {w} : UNCHANGED <<pc[v], job[v]>>
    BY <1>2 DEF PreflightFlags, PreflightBalance, Receipt, ResolveAmbiguous, GoesToWrite,
                Leaves, RelayInv, TypeOK
  <2> QED
    BY <2>1, OnceQuiet
<1>3. CASE WriteRefused(w) \/ NoReceipt(w) \/ Crash(w)
  <2>1. /\ UNCHANGED <<settlements, tx>> /\ pc'[w] # "send"
        /\ \A v \in Worker \ {w} : UNCHANGED <<pc[v], job[v]>>
    BY <1>3 DEF WriteRefused, NoReceipt, Crash, Leaves, RelayInv, TypeOK
  <2> QED
    BY <2>1, OnceQuiet
<1> QED
  BY <1>1, <1>2, <1>3 DEF WorkerStep

LEMMA OnceChain ==
  ASSUME RelayInv, OnceInv, NEW h \in Hash, Mine(h) \/ Drop(h)
  PROVE  OnceInv'
<1>1. /\ tx[h].status = "mempool" /\ tx[h] # NoTx
      /\ \E s \in TxStatus : tx' = [tx EXCEPT ![h].status = s]
      /\ UNCHANGED <<settlements, workerVars>>
  BY DEF Mine, Drop, NoTx, TxStatus
<1>2. /\ tx'[h].binding = tx[h].binding
      /\ \A g \in Hash \ {h} : tx'[g] = tx[g]
  BY <1>1 DEF RelayInv, TypeOK
<1>3. \A d \in Dispute : Attempted(d) => Attempted(d)'
  BY <1>1 DEF Attempted
<1> QED
  BY <1>1, <1>2, <1>3, OnceTyped, OnceStays DEF workerVars

LEMMA NextOnce == ~ClocksTie /\ RelayInv /\ OnceInv /\ [Next]_relayVars => OnceInv'
<1> SUFFICES ASSUME ~ClocksTie, RelayInv, OnceInv, [Next]_relayVars PROVE OnceInv'
  OBVIOUS
<1>1. ASSUME NEW w \in Worker, WorkerStep(w) PROVE OnceInv'
  BY <1>1, OnceCreate, OnceWrite, OnceSend, OnceOtherSteps
<1>2. ASSUME NEW h \in Hash, Mine(h) \/ Drop(h) PROVE OnceInv'
  BY <1>2, OnceChain
<1>3. CASE \/ (\E v \in Provider : DepositBond(v)) \/ ForeignRefund
           \/ (\E d \in Dispute : Conclude(d)) \/ UNCHANGED relayVars
  <2>1. UNCHANGED <<settlements, tx, workerVars>>
    BY <1>3 DEF DepositBond, ForeignRefund, Conclude, relayVars
  <2>2. \A d \in Dispute : Attempted(d) => Attempted(d)'
    BY <2>1 DEF Attempted
  <2> QED
    BY <2>1, <2>2, OnceTyped, OnceStays DEF workerVars
<1> QED
  BY <1>1, <1>2, <1>3 DEF Next

\* A dispute's refund is broadcast once, whatever workers run, die and start
\* again, as long as no two of them write the same time of update.
THEOREM RelayBroadcastsOnce ==
  ASSUME ~ClocksTie
  PROVE  Spec => []OneBroadcast
<1>1. Init => OnceInv
  BY DEF Init, OnceInv, OneBroadcast, NoTx
<1>2. OnceInv => OneBroadcast
  BY DEF OnceInv
<1>3. RelayInv /\ OnceInv /\ [Next]_relayVars => OnceInv'
  BY NextOnce
<1> QED
  BY <1>1, <1>2, <1>3, RelayInvariant, PTL DEF Spec

-----------------------------------------------------------------------------
(* Contract and journals implement the abstract ledger of refunds. *)

LEMMA PromiseStarts == Init => Promise!Init
BY DEF Init, BondInit, Promise!Init, StatusOf, BookOf, ClaimOf

\* What the ledger sees of the journal.
LEMMA SameBook ==
  ASSUME UNCHANGED settlements, UNCHANGED refundedPayments
  PROVE  UNCHANGED Promise!vars
BY DEF Promise!vars, StatusOf, BookOf, ClaimOf

\* A refund that the contract executes pays a payment back.
LEMMA PromisePays ==
  ASSUME NEW r \in RefundEvent, Refund(r), UNCHANGED settlements
  PROVE  Promise!Next
<1>1. /\ r.payment \in Payment /\ r.payment \notin refundedPayments
      /\ refundedPayments' = refundedPayments \cup {r.payment}
  BY DEF Refund, RefundAdmitted, RefundEffects, RefundEvent
<1> QED
  BY <1>1 DEF Promise!Next, Promise!Pay, StatusOf, BookOf, ClaimOf


\* A settlement that is created claims a payment no other one does.
LEMMA PromiseClaims ==
  ASSUME RelayInv, NEW w \in Worker, Create(w), InsertSettlement(job[w])
  PROVE  Promise!Next
<1>1. PICK b \in Binding : b = job[w] /\ DisputeOf[b] \in Dispute /\ PaymentOf[b] \in Payment
  BY JournalAssumption DEF Create, RelayInv, WorkerInv, WorkerOK
<1>2. PICK d \in Dispute : d = DisputeOf[b]
  BY <1>1
<1>3. /\ settlements' = [settlements EXCEPT ![d] = Eligible(b)]
      /\ settlements[d] = NoRow
      /\ \A e \in Dispute : settlements[e] # NoRow => PaymentOf[settlements[e].binding] # PaymentOf[b]
      /\ UNCHANGED refundedPayments
  BY <1>1, <1>2 DEF InsertSettlement, Conflicting, Create, bondVars
<1>4. /\ Eligible(b) \in SettlementRow /\ Eligible(b).binding = b /\ Eligible(b).status = "eligible"
      /\ Eligible(b) # NoRow
  BY RowAssumption DEF Eligible, SettlementRow, SettlementStatus
<1>5. /\ settlements'[d] = Eligible(b)
      /\ \A e \in Dispute \ {d} : settlements'[e] = settlements[e]
  BY <1>3 DEF RelayInv, TypeOK, JournalTypeOK
<1>6. /\ BookOf(d) = "none" /\ BookOf(d)' = "open" /\ ClaimOf(d)' = PaymentOf[b]
      /\ \A e \in Dispute \ {d} : BookOf(e)' = BookOf(e) /\ ClaimOf(e)' = ClaimOf(e)
  BY <1>3, <1>4, <1>5 DEF BookOf, ClaimOf, StatusOf
<1>7. \A e \in Dispute : ClaimOf(e) # PaymentOf[b]
  BY <1>1, <1>3, KeysAssumption DEF ClaimOf
<1>8. Promise!Claim(d, PaymentOf[b])
  BY <1>3, <1>6, <1>7 DEF Promise!Claim
<1> QED
  BY <1>1, <1>8 DEF Promise!Next

\* A settlement that is written stays open, or is decided as the chain has it.
LEMMA PromiseDecides ==
  ASSUME RelayInv, NEW w \in Worker, Write(w)
  PROVE  Promise!Next \/ UNCHANGED Promise!vars
<1>1. PICK row \in SettlementRow, d \in Dispute :
        /\ row = goal[w] /\ d = DisputeOf[job[w]] /\ row.binding = job[w]
        /\ row.status # "eligible" /\ Truthful(row) /\ ValidRow(row)
        /\ settlements[d] # NoRow /\ settlements[d].binding = row.binding
        /\ settlements[d] \in SettlementRow
  BY JournalAssumption DEF Write, RelayInv, WorkerInv, WorkerOK, TypeOK, JournalTypeOK
<1>2. UNCHANGED refundedPayments
  BY DEF Write, bondVars
<1>3. CASE UNCHANGED settlements
  BY <1>2, <1>3, SameBook
<1>4. CASE CommitSettlement(row)
  <2>1. /\ row.status \in SettlementMoves[settlements[d].status]
        /\ settlements' = [settlements EXCEPT ![d] = row]
    BY <1>1, <1>4 DEF CommitSettlement
  <2>2. /\ settlements'[d] = row /\ row # NoRow
        /\ \A e \in Dispute \ {d} : settlements'[e] = settlements[e]
    BY <2>1, RowAssumption DEF RelayInv, TypeOK, JournalTypeOK
  <2>3. /\ ClaimOf(d)' = ClaimOf(d)
        /\ \A e \in Dispute \ {d} : BookOf(e)' = BookOf(e) /\ ClaimOf(e)' = ClaimOf(e)
    BY <1>1, <2>2 DEF BookOf, ClaimOf, StatusOf
  <2>4. /\ BookOf(d) = "open"
        /\ BookOf(d)' \in {"open", "closed", "refunded"}
        /\ BookOf(d)' = "refunded" => row.status = "confirmed"
    BY <1>1, <2>1, <2>2 DEF BookOf, StatusOf, SettlementMoves, SettlementRow, SettlementStatus
  <2>5. row.status = "confirmed" => ClaimOf(d) \in refundedPayments
    <3>1. row.status = "confirmed" => RefundCall(row.binding) \in refunds
      BY <1>1 DEF Truthful
    <3>2. RefundCall(row.binding).payment = ClaimOf(d)
      BY <1>1 DEF RefundCall, ClaimOf
    <3> QED
      BY <3>1, <3>2 DEF RelayInv, BondInv, RefundsAreKeyed
  <2>6. CASE BookOf(d)' = "open"
    BY <1>2, <2>3, <2>4, <2>6 DEF Promise!vars
  <2>7. CASE BookOf(d)' \in {"closed", "refunded"}
    BY <1>2, <2>3, <2>4, <2>5, <2>7 DEF Promise!Next, Promise!Decide
  <2> QED
    BY <2>4, <2>6, <2>7
<1> QED
  BY <1>1, <1>3, <1>4 DEF Write, EchoSettlement

LEMMA PromiseSteps == RelayInv /\ [Next]_relayVars => [Promise!Next]_(Promise!vars)
<1> SUFFICES ASSUME RelayInv, [Next]_relayVars PROVE Promise!Next \/ UNCHANGED Promise!vars
  OBVIOUS
<1>1. ASSUME NEW w \in Worker, WorkerStep(w) PROVE Promise!Next \/ UNCHANGED Promise!vars
  <2>1. CASE Create(w) /\ InsertSettlement(job[w])
    BY <2>1, PromiseClaims
  <2>2. CASE Write(w)
    BY <2>2, PromiseDecides
  <2>3. ASSUME ~(Create(w) /\ InsertSettlement(job[w])), ~Write(w)
        PROVE  UNCHANGED <<settlements, refundedPayments>>
    BY <1>1, <2>3 DEF WorkerStep, Settle, Create, PreflightFlags, PreflightBalance, WriteRefused,
          Send, ResolveAmbiguous, Receipt, NoReceipt, Crash, bondVars
  <2> QED
    BY <2>1, <2>2, <2>3, SameBook
<1>2. ASSUME NEW h \in Hash, Mine(h) \/ Drop(h) PROVE Promise!Next \/ UNCHANGED Promise!vars
  <2>1. UNCHANGED settlements
    BY <1>2 DEF Mine, Drop
  <2>2. CASE tx[h].status = "mempool" /\ Refund(RefundCall(tx[h].binding))
    <3>1. tx[h].binding \in Binding
      BY <2>2 DEF RelayInv, TypeOK, NoTx
    <3>2. RefundCall(tx[h].binding) \in RefundEvent
      BY <3>1, JournalAssumption, RelayAssumption DEF RefundCall, RefundEvent
    <3> QED
      BY <2>1, <2>2, <3>2, PromisePays
  <2>3. CASE UNCHANGED bondVars
    BY <2>1, <2>3, SameBook DEF bondVars
  <2> QED
    BY <1>2, <2>2, <2>3 DEF Mine, Drop
<1>3. CASE ForeignRefund
  BY <1>3, RelayAssumption, PromisePays DEF ForeignRefund
<1>4. CASE \/ \E v \in Provider : DepositBond(v)
           \/ \E d \in Dispute : Conclude(d)
           \/ UNCHANGED relayVars
  <2>1. UNCHANGED <<settlements, refundedPayments>>
    BY <1>4 DEF DepositBond, Deposit, Conclude, relayVars, bondVars
  <2> QED
    BY <2>1, SameBook
<1> QED
  BY <1>1, <1>2, <1>3, <1>4 DEF Next

\* Contract and journals implement the ledger: a payment is paid back once, is
\* claimed by one dispute, and is written off as refunded when it has been.
THEOREM RelayKeepsPromise == Spec => ImplementsPromise
<1>1. RelayInv /\ [Next]_relayVars => [Promise!Next]_(Promise!vars)
  BY PromiseSteps
<1> QED
  BY <1>1, PromiseStarts, RelayInvariant, PTL DEF Spec, ImplementsPromise, Promise!Spec
=============================================================================
