------------------------ MODULE PaymentJournalProofs ------------------------
(***************************************************************************)
(* Facts about the journal: what a write does to the sums of amounts, and  *)
(* the limits of the policy.                                               *)
(***************************************************************************)
EXTENDS PaymentJournal, UnitSumsProofs

-----------------------------------------------------------------------------
(* Types. *)

\* Writing a payment into a journal leaves a journal.
LEMMA PutIsJournal ==
  ASSUME NEW j, IsJournal(j), NEW p \in Payment
  PROVE  IsJournal(Put(j, p))
BY DEF IsJournal, Put, Payment

\* The store's answer to a reservation is a journal.
LEMMA ReserveIsJournal ==
  ASSUME NEW j, IsJournal(j), NEW p \in Payment, NEW t
  PROVE  IsJournal(AfterReserve(j, p, t))
BY PutIsJournal DEF AfterReserve

LEMMA EmptyIsJournal == IsJournal(EmptyJournal)
BY DEF IsJournal, EmptyJournal

-----------------------------------------------------------------------------
(* The rolling limits. *)

\* What counts against a limit is a finite set of known payments.
LEMMA CountedFinite ==
  ASSUME NEW j, IsJournal(j), NEW w, NEW t, NEW h
  PROVE  /\ IsFiniteSet(CommittedIn(j, w, t))
         /\ IsFiniteSet(ProviderIn(j, h, t))
         /\ CommittedIn(j, w, t) \subseteq DOMAIN j
         /\ ProviderIn(j, h, t) \subseteq CommittedIn(j, DaySeconds, t)
<1>1. CommittedIn(j, w, t) \subseteq PayId /\ ProviderIn(j, h, t) \subseteq PayId
  BY DEF CommittedIn, ProviderIn, IsJournal
<1> QED
  BY <1>1, FS_Subset, JournalAssumption DEF CommittedIn, ProviderIn

\* Counting fewer payments, on the same terms, exceeds no limit.
LEMMA LimitsOfFewer ==
  ASSUME NEW j, IsJournal(j), NEW t, NEW k, IsJournal(k), NEW u, RollingLimits(j, t),
         \A w \in Nat : CommittedIn(k, w, u) \subseteq CommittedIn(j, w, t),
         \A id \in DOMAIN j \cap DOMAIN k :
           k[id].amount = j[id].amount /\ k[id].resource = j[id].resource
  PROVE  RollingLimits(k, u)
<1> DEFINE Day(i, v) == CommittedIn(i, DaySeconds, v)
<1>0. {DailyCap, MaxPaymentsPerHour, ProviderDailyCap, DaySeconds, HourSeconds} \subseteq Nat
  BY JournalAssumption
<1>1. \A w \in Nat : CommittedIn(k, w, u) \subseteq DOMAIN j \cap DOMAIN k
  BY CountedFinite
<1>2. \A id \in Day(k, u) : Amounts(k)[id] = Amounts(j)[id]
  BY <1>0, <1>1 DEF Amounts
<1>3. DailyTotal(k, u) <= DailyTotal(j, t)
  <2>1. Units(Day(k, u), Amounts(k)) = Units(Day(k, u), Amounts(j))
    BY <1>2, UnitsAgree
  <2>2. Day(k, u) \in SUBSET Day(j, t)
    BY <1>0
  <2>3. Cardinality(Units(Day(k, u), Amounts(j))) <= Cardinality(Units(Day(j, t), Amounts(j)))
    BY <2>2, CountedFinite, UnitsMonotone
  <2> QED
    BY <2>1, <2>3 DEF DailyTotal
<1>4. HourlyCount(k, u) <= HourlyCount(j, t)
  BY <1>0, CountedFinite, FS_Subset DEF HourlyCount
<1>5. ASSUME NEW h \in Hosts
      PROVE  ProviderTotal(k, h, u) <= ProviderTotal(j, h, t)
  <2>1. ProviderIn(k, h, u) \in SUBSET ProviderIn(j, h, t)
    BY <1>0, <1>1 DEF ProviderIn
  <2>2. Units(ProviderIn(k, h, u), Amounts(k)) = Units(ProviderIn(k, h, u), Amounts(j))
    BY <1>2, UnitsAgree DEF ProviderIn
  <2>3. Cardinality(Units(ProviderIn(k, h, u), Amounts(j)))
          <= Cardinality(Units(ProviderIn(j, h, t), Amounts(j)))
    BY <2>1, CountedFinite, UnitsMonotone
  <2> QED
    BY <2>2, <2>3 DEF ProviderTotal
<1>6. /\ DailyTotal(j, t) \in Nat /\ DailyTotal(k, u) \in Nat
      /\ HourlyCount(j, t) \in Nat /\ HourlyCount(k, u) \in Nat
      /\ \A h : ProviderTotal(j, h, t) \in Nat /\ ProviderTotal(k, h, u) \in Nat
  BY CountedFinite, UnitsFinite, FS_CardinalityType DEF DailyTotal, HourlyCount, ProviderTotal
<1> QED
  BY <1>0, <1>3, <1>4, <1>5, <1>6 DEF RollingLimits

\* Rewriting the status of a payment that counts exceeds no limit.
LEMMA LimitsAfterSave ==
  ASSUME NEW j, IsJournal(j), NEW t, RollingLimits(j, t), NEW p \in Payment,
         p.payment_id \in DOMAIN j, j[p.payment_id].status \in CommittedStatuses,
         SameLogicalPayment(j[p.payment_id], p),
         j[p.payment_id].created_at = p.created_at
  PROVE  RollingLimits(Put(j, p), t)
<1> DEFINE k == Put(j, p)
<1>1. IsJournal(k)
  BY PutIsJournal
<1>2. DOMAIN k = DOMAIN j
  BY DEF Put
<1>3. \A id \in DOMAIN j : /\ k[id].amount = j[id].amount
                           /\ k[id].resource = j[id].resource
                           /\ k[id].created_at = j[id].created_at
                           /\ k[id].status \in CommittedStatuses =>
                                j[id].status \in CommittedStatuses
  BY DEF Put, SameLogicalPayment
<1>4. \A w : CommittedIn(k, w, t) \subseteq CommittedIn(j, w, t)
  BY <1>2, <1>3 DEF CommittedIn
<1> HIDE DEF k
<1> QED
  BY <1>1, <1>3, <1>4, LimitsOfFewer DEF k

\* Time only takes payments out of the windows.
LEMMA LimitsAfterTick ==
  ASSUME NEW j, IsJournal(j), NEW t \in Nat, RollingLimits(j, t)
  PROVE  RollingLimits(j, t + 1)
<1>1. ASSUME NEW w \in Nat
      PROVE  CommittedIn(j, w, t + 1) \subseteq CommittedIn(j, w, t)
  BY DEF CommittedIn, IsJournal, Payment
<1> QED
  BY <1>1, LimitsOfFewer, JournalAssumption

\* The prospective check: a payment that reserve() admits exceeds no limit.
THEOREM LimitsAfterOpen ==
  ASSUME NEW j, IsJournal(j), NEW t \in Nat, RollingLimits(j, t),
         NEW p \in Payment, Opens(j, p, t)
  PROVE  RollingLimits(Put(j, p), t)
<1> DEFINE id == p.payment_id
           k == Put(j, p)
           Day == CommittedIn(j, DaySeconds, t)
<1>0. /\ {DailyCap, MaxPaymentsPerHour, ProviderDailyCap, DaySeconds, HourSeconds} \subseteq Nat
      /\ p.amount \in 0..MaxAmount
      /\ HostOf[p.resource] \in Hosts
  BY JournalAssumption DEF Payment
<1>1. /\ IsJournal(k)
      /\ id \notin DOMAIN j
      /\ DOMAIN k = DOMAIN j \cup {id}
      /\ k[id] = p
      /\ \A i \in DOMAIN j : k[i] = j[i]
  BY PutIsJournal DEF Opens, Put
<1> HIDE DEF k
<1>2. \A w : CommittedIn(k, w, t) \subseteq CommittedIn(j, w, t) \cup {id}
  BY <1>1 DEF CommittedIn
<1>3. /\ \A i \in DOMAIN j : Amounts(k)[i] = Amounts(j)[i]
      /\ Amounts(k)[id] = p.amount
  BY <1>1 DEF Amounts
<1>4. ASSUME NEW S \in SUBSET DOMAIN j
      PROVE  /\ IsFiniteSet(S) /\ IsFiniteSet(S \cup {id}) /\ id \notin S
             /\ Cardinality(Units(S \cup {id}, Amounts(k)))
                  = Cardinality(Units(S, Amounts(j))) + p.amount
  <2>1. IsFiniteSet(S) /\ id \notin S /\ IsFiniteSet(S \cup {id})
    BY <1>1, JournalAssumption, FS_Subset, FS_AddElement DEF IsJournal
  <2>2. Units(S, Amounts(k)) = Units(S, Amounts(j))
    BY <1>3, UnitsAgree
  <2>3. Cardinality(Units(S \cup {id}, Amounts(k)))
          = Cardinality(Units(S, Amounts(k))) + Amounts(k)[id]
    BY <1>0, <1>3, <2>1, UnitsAdd
  <2> QED
    BY <1>3, <2>1, <2>2, <2>3
<1>5. CheckTotals(j, p, t)
  BY DEF Opens
<1>6. DailyTotal(k, t) <= DailyCap
  <2>1. /\ Day \in SUBSET DOMAIN j
        /\ CommittedIn(k, DaySeconds, t) \in SUBSET (Day \cup {id})
    BY <1>2, CountedFinite
  <2>2. DailyTotal(k, t) <= Cardinality(Units(Day \cup {id}, Amounts(k)))
    BY <1>4, <2>1, UnitsMonotone DEF DailyTotal
  <2>3. Cardinality(Units(Day \cup {id}, Amounts(k))) = DailyTotal(j, t) + p.amount
    BY <1>4, <2>1 DEF DailyTotal
  <2>4. DailyTotal(k, t) \in Nat /\ DailyTotal(j, t) \in Nat
    BY <1>1, CountedFinite, UnitsFinite DEF DailyTotal
  <2> QED
    BY <1>0, <1>5, <2>2, <2>3, <2>4 DEF CheckTotals
<1>7. HourlyCount(k, t) <= MaxPaymentsPerHour
  <2> DEFINE Hour == CommittedIn(j, HourSeconds, t)
  <2>1. Hour \in SUBSET DOMAIN j /\ CommittedIn(k, HourSeconds, t) \in SUBSET (Hour \cup {id})
    BY <1>2, CountedFinite
  <2>2. /\ HourlyCount(k, t) <= Cardinality(Hour \cup {id})
        /\ HourlyCount(k, t) \in Nat /\ HourlyCount(j, t) \in Nat
    BY <1>1, <1>4, <2>1, CountedFinite, FS_Subset, FS_CardinalityType DEF HourlyCount
  <2>3. Cardinality(Hour \cup {id}) = HourlyCount(j, t) + 1
    BY <1>4, <2>1, FS_AddElement DEF HourlyCount
  <2> QED
    BY <1>0, <1>5, <2>2, <2>3 DEF CheckTotals
<1>8. ASSUME NEW h \in Hosts
      PROVE  ProviderTotal(k, h, t) <= ProviderDailyCap
  <2> DEFINE P == ProviderIn(j, h, t)
  <2>1. P \in SUBSET DOMAIN j
    BY CountedFinite
  <2>2. ProviderTotal(k, h, t) \in Nat /\ ProviderTotal(j, h, t) \in Nat
    BY <1>1, CountedFinite, UnitsFinite DEF ProviderTotal
  <2>3. CASE h = HostOf[p.resource]
    <3>1. ProviderIn(k, h, t) \in SUBSET (P \cup {id})
      BY <1>1, <1>2 DEF ProviderIn, CommittedIn
    <3>2. ProviderTotal(k, h, t) <= Cardinality(Units(P \cup {id}, Amounts(k)))
      BY <1>4, <2>1, <3>1, UnitsMonotone DEF ProviderTotal
    <3>3. Cardinality(Units(P \cup {id}, Amounts(k))) = ProviderTotal(j, h, t) + p.amount
      BY <1>4, <2>1 DEF ProviderTotal
    <3> QED
      BY <1>0, <1>5, <2>2, <2>3, <3>2, <3>3 DEF CheckTotals
  <2>4. CASE h # HostOf[p.resource]
    <3>1. ProviderIn(k, h, t) \in SUBSET P
      BY <1>1, <1>2, <2>4 DEF ProviderIn, CommittedIn
    <3>2. Units(P, Amounts(k)) = Units(P, Amounts(j))
      BY <1>3, <2>1, UnitsAgree
    <3>3. ProviderTotal(k, h, t) <= ProviderTotal(j, h, t)
      BY <1>4, <2>1, <3>1, <3>2, UnitsMonotone DEF ProviderTotal
    <3> QED
      BY <1>0, <2>2, <3>3 DEF RollingLimits
  <2> QED
    BY <2>3, <2>4
<1> QED
  BY <1>6, <1>7, <1>8 DEF RollingLimits, k
=============================================================================
