--------------------------- MODULE AgentRunProofs ----------------------------
(***************************************************************************)
(* What AgentRun keeps, for any number of runs, calls and services, any    *)
(* policy, any caps and any windows.                                       *)
(***************************************************************************)
EXTENDS AgentRun, UnitSumsProofs

\* A run that has not ended has a step left; what may move is charged.
StepLeft == \A r \in Run : node[r] # "end" => stepsLeft[r] >= 1

PayableIsCharged ==
  \A f \in Fetch : auth[f] \in {"sent", "settled"} => pc[f] \in Charged

CoreInv == TypeOK /\ StepLeft /\ PayableIsCharged

LEMMA InitCoreInv == Init => CoreInv
BY AgentAssumption, AmountAssumption
   DEF Init, CoreInv, TypeOK, StepLeft, PayableIsCharged, Fetch, Time, Score

\* What a call of the gate makes of the cache has the cache's type.
LEMMA ScoredType ==
  ASSUME TypeOK, NEW f \in Fetch, NEW score \in Score, Scored(f, score)
  PROVE  cache' \in [Agent -> [Id -> Score]]
<1> DEFINE a == AgentOf[runOf[f]]
           i == IdOf[service[f]]
<1>1. a \in Agent /\ service[f] \in Service
  BY AgentAssumption DEF TypeOK
<1>2. CASE i = NoId \/ ~HasFloor
  BY <1>2 DEF Scored, TypeOK
<1>3. CASE ~(i = NoId \/ ~HasFloor)
  <2>1. i \in Id
    BY <1>1, <1>3 DEF Id
  <2>2. cache' = [cache EXCEPT ![a][i] = score]
    BY <1>3 DEF Scored
  <2> HIDE DEF a, i
  <2> QED
    BY <1>1, <2>1, <2>2 DEF TypeOK
<1> QED
  BY <1>2, <1>3

LEMMA NextCoreInv == CoreInv /\ [Next]_vars => CoreInv'
<1> SUFFICES ASSUME CoreInv, [Next]_vars PROVE CoreInv'
  OBVIOUS
<1>0. CoreInv /\ TypeOK /\ StepLeft /\ PayableIsCharged
  BY DEF CoreInv
<1>1. ASSUME NEW r \in Run, Plan(r) PROVE CoreInv'
  <2>1. stepsLeft' \in [Run -> 0..MaxSteps] /\ StepLeft'
    BY <1>0, <1>1, AgentAssumption DEF Plan, StepTaken, TypeOK, StepLeft
  <2>2. PICK batch \in SUBSET Fetch : \E choice \in [batch -> Service] :
          /\ IsNextBatch(batch)
          /\ pc' = [f \in Fetch |-> IF f \in batch THEN "queued" ELSE pc[f]]
          /\ runOf' = [f \in Fetch |-> IF f \in batch THEN r ELSE runOf[f]]
          /\ service' = [f \in Fetch |-> IF f \in batch THEN choice[f] ELSE service[f]]
    BY <1>1 DEF Plan, Enqueue
  <2>3. /\ pc' \in [Fetch -> {"unused", "queued"} \cup InFlight \cup Ended]
        /\ runOf' \in [Fetch -> Run]
        /\ service' \in [Fetch -> Service]
    BY <1>0, <2>2 DEF TypeOK
  <2>4. auth' = auth /\ PayableIsCharged'
    BY <1>0, <1>1, <2>2 DEF IsNextBatch, Plan, PayableIsCharged, Charged
  <2> QED
    BY <1>0, <1>1, <2>1, <2>3, <2>4 DEF Plan, CoreInv, TypeOK, ledgerVars
<1> USE AgentAssumption, AmountAssumption
        DEF CoreInv, TypeOK, StepLeft, PayableIsCharged, Charged, runVars,
            callVars, ledgerVars
<1>2. ASSUME NEW r \in Run, PlanEnds(r) \/ ToolsReturn(r) PROVE CoreInv'
  <2>1. CASE PlanEnds(r)
    <3>1. /\ stepsLeft' = [stepsLeft EXCEPT ![r] = @ - 1]
          /\ node' = [node EXCEPT ![r] = "end"]
      BY <2>1 DEF PlanEnds, StepTaken
    <3>2. stepsLeft[r] \in 1..MaxSteps
      BY <2>1 DEF PlanEnds
    <3>3. stepsLeft' \in [Run -> 0..MaxSteps] /\ StepLeft'
      BY <3>1, <3>2
    <3> QED
      BY <2>1, <3>1, <3>3 DEF PlanEnds
  <2>2. CASE ToolsReturn(r)
    BY <2>2 DEF ToolsReturn
  <2> QED
    BY <1>2, <2>1, <2>2
<1>3. ASSUME NEW f \in Fetch, Skip(f) PROVE CoreInv'
  <2>1. cache' \in [Agent -> [Id -> Score]]
    BY <1>3, ScoredType DEF Skip, Score
  <2> QED
    BY <1>3, <2>1 DEF Skip, AtGate, Goto, Ended
<1>4. ASSUME NEW f \in Fetch, Start(f) PROVE CoreInv'
  <2>1. cache' \in [Agent -> [Id -> Score]]
    BY <1>4, ScoredType DEF Start, Score
  <2> QED
    BY <1>4, <2>1 DEF Start, AtGate, Goto, InFlight
<1>5. ASSUME NEW f \in Fetch, EndsUnpaid(f) PROVE CoreInv'
  BY <1>5 DEF EndsUnpaid, Goto, Ended
<1>6. ASSUME NEW f \in Fetch, Pay(f) PROVE CoreInv'
  BY <1>6 DEF Pay, Goto, InFlight
<1>7. ASSUME NEW f \in Fetch, Settle(f) PROVE CoreInv'
  <2>1. /\ auth' \in [Fetch -> {"none", "sent", "settled", "rejected"}]
        /\ settledAt' \in [Fetch -> Time]
    BY <1>7 DEF Settle
  <2>2. PayableIsCharged'
    BY <1>7 DEF Settle
  <2> QED
    BY <1>7, <2>1, <2>2 DEF Settle
<1>8. ASSUME NEW f \in Fetch, Answer(f) PROVE CoreInv'
  <2>0. \/ Record(f) \/ UNCHANGED ledgerVars
    BY <1>8 DEF Answer
  <2>1. /\ ledger' \subseteq Fetch
        /\ rowAt' \in [Fetch -> Time]
    <3>1. CASE Record(f)
      BY <3>1 DEF Record
    <3>2. CASE UNCHANGED ledgerVars
      BY <3>2
    <3> QED
      BY <2>0, <3>1, <3>2
  <2>2. /\ pc' \in [Fetch -> {"unused", "queued"} \cup InFlight \cup Ended]
        /\ auth' = auth /\ PayableIsCharged'
    BY <1>8 DEF Answer, Goto, Ended
  <2> QED
    BY <1>8, <2>1, <2>2 DEF Answer
<1>9. ASSUME NEW f \in Fetch, Reject(f) PROVE CoreInv'
  BY <1>9 DEF Reject, Goto, Ended
<1>10. ASSUME NEW f \in Fetch, Lose(f) PROVE CoreInv'
  BY <1>10 DEF Lose, Goto, Ended
<1>11. CASE Tick
  <2>1. now' \in Time
    BY <1>11 DEF Tick, Time
  <2> QED
    BY <1>11, <2>1 DEF Tick
<1>12. CASE UNCHANGED vars
  BY <1>12 DEF vars
<1> QED
  BY <1>1, <1>2, <1>3, <1>4, <1>5, <1>6, <1>7, <1>8, <1>9, <1>10, <1>11, <1>12
     DEF Next, RunStep, CallStep, Terminated

\* The state keeps its types; in particular a run's steps never go below zero,
\* whatever the model asks for.
THEOREM AgentTypeCorrect == Spec => []TypeOK
<1>1. CoreInv => TypeOK
  BY DEF CoreInv
<1> QED
  BY <1>1, InitCoreInv, NextCoreInv, PTL DEF Spec

-----------------------------------------------------------------------------
(* The budget of a run, under every trouble.                                 *)

\* The calls of r whose amount its client's guard holds.
Held(r) == {f \in MadeBy(r) : pc[f] \in Charged}

WithinBudget == \A r \in Run : Spent(r) <= Budget

BudgetInv == CoreInv /\ WithinBudget

LEMMA FetchSetsFinite ==
  ASSUME NEW S \in SUBSET Fetch
  PROVE  IsFiniteSet(S)
<1>1. IsFiniteSet(Fetch)
  BY FS_Interval, AgentAssumption DEF Fetch
<1> QED
  BY <1>1, FS_Subset

LEMMA HeldInFetch == ASSUME NEW r PROVE Held(r) \in SUBSET Fetch
BY DEF Held, MadeBy

\* A sum over no more calls, whose amounts are the same, is no larger.
LEMMA SumFrame ==
  ASSUME NEW S \in SUBSET Fetch, NEW T \in SUBSET S, NEW f, NEW g,
         \A x \in T : g[x] = f[x]
  PROVE  /\ TotalOf(T, g) <= TotalOf(S, f)
         /\ TotalOf(T, g) \in Nat /\ TotalOf(S, f) \in Nat
<1>1. IsFiniteSet(S) /\ IsFiniteSet(T)
  BY FetchSetsFinite
<1>2. Units(T, g) = Units(T, f)
  BY UnitsAgree
<1>3. Cardinality(Units(T, f)) <= Cardinality(Units(S, f))
  BY <1>1, UnitsMonotone
<1> QED
  BY <1>1, <1>2, <1>3, UnitsFinite DEF TotalOf

\* A call that is new to a sum adds its amount, whatever it had before.
LEMMA SumAdd ==
  ASSUME NEW S \in SUBSET Fetch, NEW x \in Fetch \ S, NEW f, NEW g,
         \A y \in S : g[y] = f[y], g[x] \in 0..MaxAmount
  PROVE  /\ TotalOf(S \cup {x}, g) = TotalOf(S, f) + g[x]
         /\ TotalOf(S, f) \in Nat
<1>1. IsFiniteSet(S)
  BY FetchSetsFinite
<1>2. Units(S, g) = Units(S, f)
  BY UnitsAgree
<1>3. Cardinality(Units(S \cup {x}, g)) = Cardinality(Units(S, g)) + g[x]
  BY <1>1, UnitsAdd
<1> QED
  BY <1>1, <1>2, <1>3, UnitsFinite DEF TotalOf

LEMMA InitBudgetInv == Init => BudgetInv
<1> SUFFICES ASSUME Init, NEW r \in Run PROVE Spent(r) <= Budget
  BY InitCoreInv DEF BudgetInv, WithinBudget
<1>1. Held(r) = {}
  BY DEF Init, Held, MadeBy
<1>2. Units({}, amount) = {}
  BY DEF Units
<1>3. Spent(r) = 0
  BY <1>1, <1>2, FS_EmptySet DEF Spent, Held, TotalOf
<1> QED
  BY <1>3, AgentAssumption

\* A step by which no call comes to be held keeps every run within its budget.
LEMMA BudgetFrame ==
  ASSUME BudgetInv, NEW r \in Run, Held(r)' \subseteq Held(r),
         \A f \in Held(r) : amount'[f] = amount[f]
  PROVE  Spent(r)' <= Budget
<1>1. Held(r) \in SUBSET Fetch /\ Held(r)' \in SUBSET Held(r)
  BY HeldInFetch
<1>2. /\ TotalOf(Held(r)', amount') <= TotalOf(Held(r), amount)
      /\ TotalOf(Held(r)', amount') \in Nat /\ TotalOf(Held(r), amount) \in Nat
  BY <1>1, SumFrame
<1>3. TotalOf(Held(r), amount) <= Budget
  BY DEF BudgetInv, WithinBudget, Spent, Held
<1>4. TotalOf(Held(r)', amount') <= Budget
  BY <1>2, <1>3, AgentAssumption
<1> QED
  BY <1>4 DEF Spent, Held

LEMMA NextBudgetInv == BudgetInv /\ [Next]_vars => BudgetInv'
<1> SUFFICES ASSUME BudgetInv, [Next]_vars, NEW r \in Run PROVE Spent(r)' <= Budget
  BY NextCoreInv DEF BudgetInv, WithinBudget
<1>0. CoreInv /\ TypeOK
  BY DEF BudgetInv, CoreInv
<1>1. ASSUME NEW q \in Run, RunStep(q) PROVE Spent(r)' <= Budget
  <2>1. amount' = amount
    BY <1>1 DEF RunStep, Plan, PlanEnds, ToolsReturn, callVars
  <2>2. Held(r)' \subseteq Held(r)
    BY <1>0, <1>1 DEF RunStep, Plan, Enqueue, PlanEnds, ToolsReturn, callVars, Held,
                      MadeBy, Charged
  <2> QED
    BY <2>1, <2>2, BudgetFrame
<1>2. ASSUME NEW f \in Fetch, CallStep(f), ~Pay(f) PROVE Spent(r)' <= Budget
  <2>1. amount' = amount
    BY <1>2 DEF CallStep, Skip, Start, EndsUnpaid, Settle, Answer, Reject, Lose
  <2>2. Held(r)' \subseteq Held(r)
    BY <1>0, <1>2 DEF CallStep, Skip, Start, EndsUnpaid, Settle, Answer, Reject, Lose,
                      AtGate, Goto, Held, MadeBy, Charged, TypeOK
  <2> QED
    BY <2>1, <2>2, BudgetFrame
<1>3. ASSUME NEW f \in Fetch, Pay(f) PROVE Spent(r)' <= Budget
  <2>1. PICK price \in Quotes :
          /\ Spent(runOf[f]) + price <= Budget
          /\ amount' = [amount EXCEPT ![f] = price]
    BY <1>3 DEF Pay
  <2>2. f \notin Held(r) /\ \A g \in Held(r) : amount'[g] = amount[g]
    BY <1>0, <1>3, <2>1 DEF Pay, Held, MadeBy, Charged, TypeOK
  <2>3. CASE runOf[f] # r
    <3>1. Held(r)' \subseteq Held(r)
      BY <1>0, <1>3, <2>3 DEF Pay, Goto, Held, MadeBy, Charged, TypeOK
    <3> QED
      BY <2>2, <3>1, BudgetFrame
  <2>4. CASE runOf[f] = r
    <3>1. Held(r)' = Held(r) \cup {f}
      BY <1>0, <1>3, <2>4 DEF Pay, Goto, Held, MadeBy, Charged, TypeOK
    <3>2. amount'[f] = price /\ amount'[f] \in 0..MaxAmount /\ f \in Fetch \ Held(r)
      BY <1>0, <2>1, <2>2, AgentAssumption DEF TypeOK
    <3>3. TotalOf(Held(r) \cup {f}, amount') = TotalOf(Held(r), amount) + price
      BY <2>2, <3>2, HeldInFetch, SumAdd
    <3> QED
      BY <2>1, <2>4, <3>1, <3>3 DEF Spent, Held
  <2> QED
    BY <2>3, <2>4
<1>4. CASE Tick \/ UNCHANGED vars
  <2>1. amount' = amount /\ Held(r)' \subseteq Held(r)
    BY <1>4 DEF Tick, vars, callVars, Held, MadeBy
  <2> QED
    BY <2>1, BudgetFrame
<1> QED
  BY <1>1, <1>2, <1>3, <1>4 DEF Next, Terminated

\* Whatever fails and whatever overlaps, a run's budget bounds what its
\* authorizations have moved or may still move.
THEOREM AgentBudgetBounds == Spec => []BudgetBoundsRun
<1>1. BudgetInv => BudgetBoundsRun
  <2> SUFFICES ASSUME BudgetInv, NEW r \in Run
               PROVE  TotalOf({f \in MadeBy(r) : auth[f] \in {"sent", "settled"}}, amount)
                        <= Budget
    BY DEF BudgetBoundsRun
  <2> DEFINE Payable == {f \in MadeBy(r) : auth[f] \in {"sent", "settled"}}
  <2>1. Payable \in SUBSET Held(r)
    BY DEF BudgetInv, CoreInv, PayableIsCharged, Held, MadeBy
  <2>2. /\ TotalOf(Payable, amount) <= TotalOf(Held(r), amount)
        /\ TotalOf(Payable, amount) \in Nat /\ TotalOf(Held(r), amount) \in Nat
    BY <2>1, HeldInFetch, SumFrame
  <2>3. TotalOf(Held(r), amount) <= Budget
    BY DEF BudgetInv, WithinBudget, Spent, Held
  <2> HIDE DEF Payable
  <2>4. TotalOf(Payable, amount) <= Budget
    BY <2>2, <2>3, AgentAssumption
  <2> QED
    BY <2>4 DEF Payable
<1> QED
  BY <1>1, InitBudgetInv, NextBudgetInv, PTL DEF Spec

-----------------------------------------------------------------------------
(* The books, when no answer is lost and the ledger works.                   *)

\* A settled payment is in the hands of its call, or was recorded when the call
\* returned and has its row until it is pruned.
OnBooks ==
  trouble \cap {"lost", "deaf"} = {} =>
    \A f \in Settled :
      /\ settledAt[f] <= now
      /\ \/ pc[f] = "paying"
         \/ /\ pc[f] = "paid"
            /\ settledAt[f] <= rowAt[f]
            /\ f \in ledger \/ rowAt[f] < now - Retention

BooksInv == CoreInv /\ OnBooks

LEMMA InitBooksInv == Init => BooksInv
BY InitCoreInv DEF Init, BooksInv, OnBooks, Settled

LEMMA TroubleStays == [Next]_vars => trouble' = trouble
BY DEF Next, vars, RunStep, CallStep, Plan, PlanEnds, ToolsReturn, Skip, Start,
       EndsUnpaid, Pay, Settle, Answer, Reject, Lose, Tick, Terminated

\* A step that leaves the books, the clock and the calls of settled payments alone.
LEMMA BooksFrame ==
  ASSUME OnBooks, UNCHANGED <<now, settledAt, ledgerVars, trouble>>, Settled' = Settled,
         \A f \in Settled : pc'[f] = pc[f]
  PROVE  OnBooks'
BY DEF OnBooks, ledgerVars

LEMMA NextBooksInv == BooksInv /\ [Next]_vars => BooksInv'
<1> SUFFICES ASSUME BooksInv, [Next]_vars, trouble \cap {"lost", "deaf"} = {}
             PROVE  OnBooks'
  BY NextCoreInv, TroubleStays DEF BooksInv, OnBooks
<1>0. /\ CoreInv /\ TypeOK /\ OnBooks /\ trouble' = trouble
      /\ "lost" \notin trouble /\ "deaf" \notin trouble
  BY TroubleStays DEF BooksInv, CoreInv
<1>1. /\ now \in Nat /\ Retention \in Nat
      /\ \A f \in Fetch : settledAt[f] \in Nat /\ rowAt[f] \in Nat
  BY <1>0, AgentAssumption DEF TypeOK, Time
<1>2. \A f \in Settled : f \in Fetch /\ pc[f] \in Charged
  BY <1>0 DEF CoreInv, PayableIsCharged, Settled
<1>3. ASSUME NEW r \in Run, RunStep(r) PROVE OnBooks'
  BY <1>0, <1>2, <1>3, BooksFrame
     DEF RunStep, Plan, Enqueue, IsNextBatch, PlanEnds, ToolsReturn, callVars, ledgerVars,
         Settled, Charged
<1>4. ASSUME NEW f \in Fetch, Skip(f) \/ Start(f) \/ EndsUnpaid(f) PROVE OnBooks'
  BY <1>0, <1>2, <1>4, BooksFrame
     DEF Skip, Start, EndsUnpaid, AtGate, Goto, TypeOK, Settled, Charged
<1>5. ASSUME NEW f \in Fetch, Pay(f) \/ Reject(f) PROVE OnBooks'
  <2>1. f \notin Settled
    BY <1>2, <1>5 DEF Pay, Reject, Settled, Charged
  <2>2. Settled' = Settled /\ \A g \in Settled : pc'[g] = pc[g]
    BY <1>0, <1>5, <2>1 DEF Pay, Reject, Goto, TypeOK, Settled
  <2> QED
    BY <1>0, <1>5, <2>2, BooksFrame DEF Pay, Reject
<1>6. ASSUME NEW f \in Fetch, Settle(f) PROVE OnBooks'
  BY <1>0, <1>1, <1>6 DEF Settle, OnBooks, Settled, TypeOK, ledgerVars
<1>7. ASSUME NEW f \in Fetch, Answer(f) PROVE OnBooks'
  <2>1. /\ Record(f) /\ auth[f] = "settled"
        /\ UNCHANGED <<now, auth, settledAt>> /\ pc' = [pc EXCEPT ![f] = "paid"]
    BY <1>0, <1>7 DEF Answer, Goto
  <2>2. Settled' = Settled
    BY <2>1 DEF Settled
  <2> SUFFICES ASSUME NEW g \in Settled
               PROVE  /\ settledAt[g] <= now
                      /\ \/ pc'[g] = "paying"
                         \/ /\ pc'[g] = "paid"
                            /\ settledAt[g] <= rowAt'[g]
                            /\ g \in ledger' \/ rowAt'[g] < now - Retention
    BY <1>0, <2>1, <2>2 DEF OnBooks
  <2>3. settledAt[g] <= now /\ g \in Fetch
    BY <1>0, <1>2 DEF OnBooks
  <2>4. CASE g = f
    <3>1. rowAt'[f] = now /\ pc'[f] = "paid"
      BY <1>0, <2>1 DEF Record, TypeOK
    <3>2. f \in ledger'
      BY <1>1, <2>1, <3>1 DEF Record
    <3> QED
      BY <2>3, <2>4, <3>1, <3>2
  <2>5. CASE g # f
    <3>1. rowAt'[g] = rowAt[g] /\ pc'[g] = pc[g]
      BY <1>0, <2>1, <2>5 DEF Record, TypeOK
    <3>2. CASE pc[g] = "paying"
      BY <2>3, <3>1, <3>2
    <3>3. CASE pc[g] # "paying"
      <4>1. /\ pc[g] = "paid" /\ settledAt[g] <= rowAt[g]
            /\ g \in ledger \/ rowAt[g] < now - Retention
        BY <1>0, <3>3 DEF OnBooks
      <4>2. g \in ledger => g \in ledger' \/ ~(rowAt'[g] >= now - Retention)
        BY <2>1 DEF Record
      <4> QED
        BY <1>1, <2>3, <3>1, <4>1, <4>2
    <3> QED
      BY <3>2, <3>3
  <2> QED
    BY <2>4, <2>5
<1>8. CASE Tick
  BY <1>0, <1>1, <1>2, <1>8 DEF Tick, OnBooks, callVars, ledgerVars, Settled
<1>9. CASE UNCHANGED vars
  BY <1>0, <1>9, BooksFrame DEF vars, callVars, ledgerVars, Settled
<1>10. ASSUME NEW f \in Fetch, Lose(f) PROVE OnBooks'
  BY <1>0, <1>10 DEF Lose
<1> QED
  BY <1>3, <1>4, <1>5, <1>6, <1>7, <1>8, <1>9, <1>10 DEF Next, CallStep, Terminated

\* With a ledger that works and no answer lost, what has settled stays on the books
\* for as long as a cap looks back.
THEOREM AgentSettledRecorded == Spec => []SettledIsRecorded
<1>1. BooksInv => SettledIsRecorded
  <2> SUFFICES ASSUME BooksInv, trouble \cap {"lost", "deaf"} = {}, NEW f \in Settled,
                      pc[f] \notin InFlight, settledAt[f] >= now - Day
               PROVE  f \in ledger /\ rowAt[f] >= settledAt[f]
    BY DEF SettledIsRecorded
  <2>1. /\ settledAt[f] <= rowAt[f]
        /\ f \in ledger \/ rowAt[f] < now - Retention
    BY DEF BooksInv, OnBooks, InFlight
  <2>2. /\ now \in Nat /\ settledAt[f] \in Nat /\ rowAt[f] \in Nat
    BY DEF BooksInv, CoreInv, TypeOK, Time, Settled
  <2> QED
    BY <2>1, <2>2, AgentAssumption
<1> QED
  BY <1>1, InitBooksInv, NextBooksInv, PTL DEF Spec

-----------------------------------------------------------------------------
(* The caps, while no answer is lost and the ledger works.                     *)

Reliable == trouble \subseteq {"overlap"}

\* What the windows that end now hold, or may come to hold when the calls in flight
\* settle, each at the highest price.
Recent(window) == Flying \cup {f \in Settled : settledAt[f] >= now - window}
RecentTo(h) == {f \in Recent(Day) : HostOf[service[f]] = h}
Worth == [f \in Fetch |-> IF pc[f] \in InFlight THEN MaxAmount ELSE amount[f]]

\* All of that keeps within the caps and k prices or payments more.
Room(k) ==
  /\ Recent(Day) # {} => TotalOf(Recent(Day), Worth) < DailyCap + k * MaxAmount
  /\ Recent(Hour) # {} => Cardinality(Recent(Hour)) < HourlyCap + k
  /\ \A h : RecentTo(h) # {} => TotalOf(RecentTo(h), Worth) < ProviderCap + k * MaxAmount

\* The same of the windows that ended at an earlier settlement.
Within(f, k) ==
  /\ TotalOf(SettledBefore(f, Day), amount) < DailyCap + k * MaxAmount
  /\ Cardinality(SettledBefore(f, Hour)) < HourlyCap + k
  /\ TotalOf(SettledToHost(f), amount) < ProviderCap + k * MaxAmount

PastWithin(k) == \A f \in Settled : settledAt[f] < now => Within(f, k)

CapsInv(k) == Reliable => Room(k) /\ PastWithin(k)

LEMMA InitCapsInv == ASSUME NEW k PROVE Init => CapsInv(k)
BY DEF Init, CapsInv, Room, PastWithin, Recent, RecentTo, Flying, Settled, InFlight

\* With a working ledger a settled payment is on the books, or in flight.
LEMMA RecentOnBooks ==
  ASSUME BooksInv, Reliable, NEW window \in {Day, Hour}, NEW f \in Recent(window) \ Flying
  PROVE  f \in RowsSince(window) /\ f \in Settled
<1>1. /\ CoreInv /\ TypeOK /\ OnBooks /\ trouble \cap {"lost", "deaf"} = {}
  BY DEF BooksInv, CoreInv, Reliable
<1>2. /\ f \in Settled /\ f \in Fetch /\ settledAt[f] >= now - window /\ pc[f] \notin InFlight
  BY DEF Recent, Flying, Settled
<1>3. /\ now \in Nat /\ Retention \in Nat /\ window \in Nat /\ window <= Retention
      /\ settledAt[f] \in Nat /\ rowAt[f] \in Nat
  BY <1>1, <1>2, AgentAssumption DEF TypeOK, Time
<1>4. settledAt[f] <= rowAt[f] /\ (f \in ledger \/ rowAt[f] < now - Retention)
  BY <1>1, <1>2 DEF OnBooks, InFlight
<1> QED
  BY <1>2, <1>3, <1>4 DEF RowsSince

LEMMA WorthType ==
  ASSUME TypeOK, NEW f \in Fetch
  PROVE  /\ Worth[f] \in 0..MaxAmount
         /\ amount[f] \in 0..MaxAmount /\ amount[f] <= Worth[f]
BY AmountAssumption DEF TypeOK, Worth

LEMMA RecentInFetch ==
  /\ \A window : Recent(window) \in SUBSET Fetch
  /\ \A h : RecentTo(h) \in SUBSET Fetch
  /\ Flying \in SUBSET Fetch
BY DEF Recent, RecentTo, Flying, Settled

\* Calls of which those in F are worth the highest price each and the others are
\* rows of R.
LEMMA FlightSum ==
  ASSUME NEW k \in Nat, NEW S \in SUBSET Fetch, NEW F \in SUBSET Fetch,
         NEW R \in SUBSET Fetch, S \ F \subseteq R, Cardinality(F) <= k,
         NEW f, \A x \in R : f[x] \in 0..MaxAmount,
         NEW g, \A x \in S \ F : g[x] = f[x], \A x \in F : g[x] = MaxAmount
  PROVE  /\ TotalOf(S, g) <= TotalOf(R, f) + k * MaxAmount
         /\ Cardinality(S) <= Cardinality(R) + k
         /\ TotalOf(S, g) \in Nat /\ TotalOf(R, f) \in Nat
         /\ Cardinality(S) \in Nat /\ Cardinality(R) \in Nat
<1> DEFINE rest == S \ F
           top == S \cap F
<1>1. /\ IsFiniteSet(F) /\ IsFiniteSet(R) /\ IsFiniteSet(rest) /\ IsFiniteSet(top)
      /\ S = rest \cup top /\ rest \in SUBSET R /\ top \in SUBSET F
      /\ rest \cap top = {} /\ IsFiniteSet(S)
  BY FetchSetsFinite
<1>2. /\ \A x \in rest : f[x] \in Int /\ g[x] \in Int /\ g[x] <= f[x]
      /\ \A x \in top : g[x] = MaxAmount
  BY AmountAssumption
<1> HIDE DEF rest, top
<1>3. /\ Cardinality(top) <= Cardinality(F) /\ Cardinality(rest) <= Cardinality(R)
      /\ Cardinality(top) \in Nat /\ Cardinality(rest) \in Nat
      /\ Cardinality(F) \in Nat /\ Cardinality(R) \in Nat /\ Cardinality(S) \in Nat
  BY <1>1, FS_Subset, FS_CardinalityType
<1>4. /\ TotalOf(rest, g) <= TotalOf(R, f)
      /\ TotalOf(rest, g) \in Nat /\ TotalOf(R, f) \in Nat
  BY <1>1, <1>2, UnitsBelow
<1>5. TotalOf(top, g) = Cardinality(top) * MaxAmount
  BY <1>1, <1>2, UnitsOfEqual
<1>6. Cardinality(top) * MaxAmount <= k * MaxAmount
  <2>1. Cardinality(top) <= k
    BY <1>3
  <2> QED
    BY <1>3, <2>1, AmountAssumption
<1>7. /\ TotalOf(S, g) <= TotalOf(rest, g) + TotalOf(top, g)
      /\ TotalOf(S, g) \in Nat /\ TotalOf(top, g) \in Nat
  BY <1>1, UnitsUnion
<1>8. Cardinality(S) <= Cardinality(R) + k
  <2>1. Cardinality(S) = Cardinality(rest) + Cardinality(top) - Cardinality(rest \cap top)
    BY <1>1, FS_Union
  <2>2. Cardinality(rest \cap top) = 0
    BY <1>1, FS_EmptySet
  <2> QED
    BY <1>3, <2>1, <2>2
<1>9. k * MaxAmount \in Nat /\ Cardinality(top) * MaxAmount \in Nat
  BY <1>3, AmountAssumption
<1>10. TotalOf(S, g) <= TotalOf(R, f) + k * MaxAmount
  BY <1>4, <1>5, <1>6, <1>7, <1>9
<1> QED
  BY <1>3, <1>4, <1>7, <1>8, <1>10

\* A call passes the gate: of what the windows hold the gate has seen the rows, and
\* the rest is in flight.
LEMMA GateRoom ==
  ASSUME NEW k \in Nat, BooksInv, Reliable, Room(k), NEW f \in Fetch, Start(f),
         AtMostFlying(k)'
  PROVE  Room(k)'
<1>0. /\ CoreInv /\ TypeOK /\ ~CapReached(service[f])
      /\ UNCHANGED <<now, service, amount, auth, settledAt>>
      /\ pc[f] = "queued" /\ pc' = [pc EXCEPT ![f] = "fetching"]
  BY DEF BooksInv, CoreInv, Reliable, Start, LocallyAllowed, AtGate, Goto
<1>1. /\ Flying' = Flying \cup {f} /\ f \notin Flying
      /\ \A w : Recent(w)' = Recent(w) \cup {f}
  BY <1>0 DEF TypeOK, Settled, Flying, Recent, InFlight
<1>2. /\ Flying' \in SUBSET Fetch /\ Cardinality(Flying') <= k
      /\ \A g \in Fetch : amount[g] \in 0..MaxAmount
      /\ \A g \in Fetch \ Flying' : Worth'[g] = amount[g]
      /\ \A g \in Flying' : Worth'[g] = MaxAmount
  BY <1>0, <1>1, RecentInFetch DEF AtMostFlying, Worth, Flying, TypeOK
<1>3. ASSUME NEW w \in {Day, Hour}
      PROVE  Recent(w)' \in SUBSET Fetch /\ Recent(w)' \ Flying' \subseteq RowsSince(w)
  BY <1>1, RecentInFetch, RecentOnBooks
<1>4. \A w \in {Day, Hour} : RowsSince(w) \in SUBSET Fetch
  BY <1>0 DEF RowsSince, TypeOK
<1>5. ASSUME NEW S \in SUBSET Fetch, NEW R \in SUBSET Fetch, S \ Flying' \subseteq R
      PROVE  /\ TotalOf(S, Worth') <= TotalOf(R, amount) + k * MaxAmount
             /\ Cardinality(S) <= Cardinality(R) + k
             /\ TotalOf(S, Worth') \in Nat /\ TotalOf(R, amount) \in Nat
             /\ Cardinality(S) \in Nat /\ Cardinality(R) \in Nat
  <2> DEFINE F == Flying'
             g == Worth'
  <2>1. /\ F \in SUBSET Fetch /\ Cardinality(F) <= k /\ S \ F \subseteq R
        /\ \A x \in R : amount[x] \in 0..MaxAmount
        /\ \A x \in S \ F : g[x] = amount[x]
        /\ \A x \in F : g[x] = MaxAmount
    BY <1>2, <1>5
  <2> HIDE DEF F, g
  <2>2. /\ TotalOf(S, g) <= TotalOf(R, amount) + k * MaxAmount
        /\ Cardinality(S) <= Cardinality(R) + k
        /\ TotalOf(S, g) \in Nat /\ TotalOf(R, amount) \in Nat
        /\ Cardinality(S) \in Nat /\ Cardinality(R) \in Nat
    BY <2>1, FlightSum, SMTT(20)
  <2> QED
    BY <2>2 DEF g
<1>6. k * MaxAmount \in Nat
  BY AmountAssumption
<1>7. TotalOf(Recent(Day)', Worth') < DailyCap + k * MaxAmount
  <2>1. /\ TotalOf(Recent(Day)', Worth') <= TotalOf(RowsSince(Day), amount) + k * MaxAmount
        /\ TotalOf(Recent(Day)', Worth') \in Nat /\ TotalOf(RowsSince(Day), amount) \in Nat
    BY <1>3, <1>4, <1>5
  <2>2. ~(TotalOf(RowsSince(Day), amount) >= DailyCap)
    BY <1>0 DEF CapReached, DailyCapReached
  <2> QED
    BY <1>6, <2>1, <2>2, AgentAssumption
<1>8. Cardinality(Recent(Hour)') < HourlyCap + k
  <2>1. /\ Cardinality(Recent(Hour)') <= Cardinality(RowsSince(Hour)) + k
        /\ Cardinality(Recent(Hour)') \in Nat /\ Cardinality(RowsSince(Hour)) \in Nat
    BY <1>3, <1>4, <1>5
  <2>2. ~(Cardinality(RowsSince(Hour)) >= HourlyCap)
    BY <1>0 DEF CapReached, HourlyCapReached
  <2> QED
    BY <2>1, <2>2, AgentAssumption
<1>9. ASSUME NEW h, RecentTo(h)' # {}
      PROVE  TotalOf(RecentTo(h)', Worth') < ProviderCap + k * MaxAmount
  <2>0. /\ RecentTo(h)' = {g \in Recent(Day)' : HostOf[service[g]] = h}
        /\ RecentTo(h)' \in SUBSET Fetch
    BY <1>0, <1>3 DEF RecentTo
  <2>1. CASE h = HostOf[service[f]]
    <3> DEFINE rows == RowsOfHost(h, Day)
    <3>1. rows \in SUBSET Fetch /\ RecentTo(h)' \ Flying' \subseteq rows
      BY <1>3, <1>4, <2>0 DEF RowsOfHost
    <3>2. ~(TotalOf(rows, amount) >= ProviderCap)
      BY <1>0, <2>1 DEF CapReached, ProviderCapReached
    <3> HIDE DEF rows
    <3>3. /\ TotalOf(RecentTo(h)', Worth') <= TotalOf(rows, amount) + k * MaxAmount
          /\ TotalOf(RecentTo(h)', Worth') \in Nat /\ TotalOf(rows, amount) \in Nat
      BY <1>5, <2>0, <3>1
    <3> QED
      BY <1>6, <3>2, <3>3, AgentAssumption
  <2>2. CASE h # HostOf[service[f]]
    <3>1. RecentTo(h)' = RecentTo(h)
      BY <1>0, <1>1, <2>2 DEF RecentTo
    <3>2. \A x \in RecentTo(h) : Worth'[x] = Worth[x]
      BY <1>0, <1>1, <2>2 DEF RecentTo, Worth, Recent, Settled, Flying, TypeOK
    <3>3. TotalOf(RecentTo(h)', Worth') = TotalOf(RecentTo(h), Worth)
      BY <3>1, <3>2, UnitsAgree DEF TotalOf
    <3> QED
      BY <1>9, <3>1, <3>3 DEF Room
  <2> QED
    BY <2>1, <2>2
<1> QED
  BY <1>7, <1>8, <1>9 DEF Room

\* No other step puts anything into the windows that end now, or makes it worth more.
LEMMA OthersShrink ==
  ASSUME BooksInv, Reliable, [Next]_vars, \A f \in Fetch : ~Start(f),
         NEW w \in {Day, Hour}
  PROVE  /\ Recent(w)' \subseteq Recent(w)
         /\ \A f \in Recent(w)' : service'[f] = service[f] /\ Worth'[f] <= Worth[f]
<1>0. /\ CoreInv /\ TypeOK /\ OnBooks /\ "lost" \notin trouble
      /\ \A f \in Settled : pc[f] \in {"paying", "paid"}
      /\ \A f \in Fetch : amount[f] \in 0..MaxAmount /\ settledAt[f] \in Nat
      /\ now \in Nat /\ w \in Nat
  BY AgentAssumption DEF BooksInv, CoreInv, Reliable, OnBooks, TypeOK, Time
<1> USE AmountAssumption DEF Recent, Flying, Settled, InFlight, Worth
<1> DEFINE Shrinks == /\ Recent(w)' \subseteq Recent(w)
                      /\ \A f \in Recent(w)' : service'[f] = service[f] /\ Worth'[f] <= Worth[f]
<1>1. ASSUME NEW r \in Run, RunStep(r) PROVE Shrinks
  <2>1. /\ UNCHANGED <<now, amount, auth, settledAt>>
        /\ \A f \in Fetch :
             /\ pc'[f] \in InFlight \cup {"paid"} <=> pc[f] \in InFlight \cup {"paid"}
             /\ pc[f] \in InFlight \cup {"paid"} => pc'[f] = pc[f] /\ service'[f] = service[f]
    BY <1>0, <1>1 DEF RunStep, Plan, Enqueue, IsNextBatch, PlanEnds, ToolsReturn, callVars
  <2> QED
    BY <1>0, <2>1
<1>2. ASSUME NEW f \in Fetch, Skip(f) \/ EndsUnpaid(f) \/ Reject(f) PROVE Shrinks
  BY <1>0, <1>2 DEF Skip, AtGate, EndsUnpaid, Reject, Goto, TypeOK
<1>3. ASSUME NEW f \in Fetch, Pay(f) PROVE Shrinks
  BY <1>0, <1>3 DEF Pay, Goto, TypeOK
<1>4. ASSUME NEW f \in Fetch, Settle(f) PROVE Shrinks
  BY <1>0, <1>4 DEF Settle, TypeOK
<1>5. ASSUME NEW f \in Fetch, Answer(f) PROVE Shrinks
  BY <1>0, <1>5 DEF Answer, Goto, TypeOK
<1>6. CASE Tick
  BY <1>0, <1>6 DEF Tick, callVars
<1>7. CASE UNCHANGED vars
  BY <1>0, <1>7 DEF vars
<1>8. ASSUME NEW f \in Fetch, Lose(f) PROVE Shrinks
  BY <1>0, <1>8 DEF Lose
<1> QED
  BY <1>1, <1>2, <1>3, <1>4, <1>5, <1>6, <1>7, <1>8 DEF Next, CallStep, Terminated

LEMMA NextRoom ==
  ASSUME NEW k \in Nat, BooksInv, Reliable, Room(k), [Next]_vars, AtMostFlying(k)'
  PROVE  Room(k)'
<1>1. CASE \E f \in Fetch : Start(f)
  BY <1>1, GateRoom
<1>2. CASE \A f \in Fetch : ~Start(f)
  <2>0. TypeOK /\ TypeOK'
    BY NextCoreInv DEF BooksInv, CoreInv
  <2>1. ASSUME NEW S, NEW T, S \in SUBSET Fetch, T \in SUBSET S,
               \A f \in T : Worth'[f] <= Worth[f]
        PROVE  /\ TotalOf(T, Worth') <= TotalOf(S, Worth)
               /\ TotalOf(T, Worth') \in Nat /\ TotalOf(S, Worth) \in Nat
    <3> DEFINE g == Worth'
    <3>0. \A f \in Fetch : Worth[f] \in Int /\ g[f] \in Int
      <4>1. \A f \in Fetch : amount[f] \in Int /\ amount'[f] \in Int
        BY <2>0, AmountAssumption DEF TypeOK
      <4> QED
        BY <4>1, AmountAssumption DEF Worth
    <3>1. \A f \in T : Worth[f] \in Int /\ g[f] \in Int /\ g[f] <= Worth[f]
      BY <2>1, <3>0
    <3>2. IsFiniteSet(S)
      BY <2>1, FetchSetsFinite
    <3> HIDE DEF g
    <3>3. /\ TotalOf(T, g) <= TotalOf(S, Worth)
          /\ TotalOf(T, g) \in Nat /\ TotalOf(S, Worth) \in Nat
      BY <2>1, <3>1, <3>2, UnitsBelow
    <3> QED
      BY <3>3 DEF g
  <2>2. \A w \in {Day, Hour} : /\ Recent(w)' \in SUBSET Recent(w)
                               /\ Recent(w) \in SUBSET Fetch
                               /\ \A f \in Recent(w)' : /\ service'[f] = service[f]
                                                        /\ Worth'[f] <= Worth[f]
    BY <1>2, OthersShrink, RecentInFetch
  <2>3. k * MaxAmount \in Nat
    BY AmountAssumption
  <2>4. Recent(Day)' # {} => TotalOf(Recent(Day)', Worth') < DailyCap + k * MaxAmount
    <3> SUFFICES ASSUME Recent(Day)' # {}
                 PROVE  TotalOf(Recent(Day)', Worth') < DailyCap + k * MaxAmount
      OBVIOUS
    <3>1. /\ TotalOf(Recent(Day)', Worth') <= TotalOf(Recent(Day), Worth)
          /\ TotalOf(Recent(Day)', Worth') \in Nat /\ TotalOf(Recent(Day), Worth) \in Nat
      BY <2>1, <2>2
    <3>2. TotalOf(Recent(Day), Worth) < DailyCap + k * MaxAmount
      <4>1. Recent(Day) # {}
        BY <2>2
      <4> QED
        BY <4>1 DEF Room
    <3> QED
      BY <2>3, <3>1, <3>2, AgentAssumption
  <2>5. Recent(Hour)' # {} => Cardinality(Recent(Hour)') < HourlyCap + k
    <3>1. /\ Cardinality(Recent(Hour)') <= Cardinality(Recent(Hour))
          /\ Cardinality(Recent(Hour)') \in Nat /\ Cardinality(Recent(Hour)) \in Nat
      BY <2>2, FetchSetsFinite, FS_Subset, FS_CardinalityType
    <3> QED
      BY <2>2, <3>1, AgentAssumption DEF Room
  <2>6. ASSUME NEW h, RecentTo(h)' # {}
        PROVE  TotalOf(RecentTo(h)', Worth') < ProviderCap + k * MaxAmount
    <3>1. /\ RecentTo(h)' \in SUBSET RecentTo(h) /\ RecentTo(h) \in SUBSET Fetch
          /\ \A f \in RecentTo(h)' : Worth'[f] <= Worth[f]
      BY <2>2 DEF RecentTo
    <3>2. /\ TotalOf(RecentTo(h)', Worth') <= TotalOf(RecentTo(h), Worth)
          /\ TotalOf(RecentTo(h)', Worth') \in Nat /\ TotalOf(RecentTo(h), Worth) \in Nat
      BY <2>1, <3>1
    <3>3. TotalOf(RecentTo(h), Worth) < ProviderCap + k * MaxAmount
      BY <2>6, <3>1 DEF Room
    <3> QED
      BY <2>3, <3>2, <3>3, AgentAssumption
  <2> QED
    BY <2>4, <2>5, <2>6 DEF Room
<1> QED
  BY <1>1, <1>2

\* What has settled earlier than now is past: no step adds to it or changes it.
LEMMA PastStays ==
  ASSUME BooksInv, Reliable, [Next]_vars, NEW f \in Settled', settledAt'[f] < now'
  PROVE  /\ f \in Settled /\ f \in Fetch
         /\ settledAt'[f] = settledAt[f] /\ amount'[f] = amount[f] /\ service'[f] = service[f]
<1>0. /\ CoreInv /\ TypeOK
      /\ \A g \in Settled : g \in Fetch /\ pc[g] \in Charged
  BY DEF BooksInv, CoreInv, PayableIsCharged, Settled
<1> USE DEF Settled, Charged
<1>1. ASSUME NEW r \in Run, RunStep(r)
      PROVE  /\ f \in Settled /\ settledAt'[f] = settledAt[f]
             /\ amount'[f] = amount[f] /\ service'[f] = service[f]
  BY <1>0, <1>1 DEF RunStep, Plan, Enqueue, IsNextBatch, PlanEnds, ToolsReturn, callVars
<1>2. ASSUME NEW g \in Fetch, CallStep(g)
      PROVE  /\ f \in Settled /\ settledAt'[f] = settledAt[f]
             /\ amount'[f] = amount[f] /\ service'[f] = service[f]
  <2>1. CASE Skip(g) \/ Start(g) \/ EndsUnpaid(g) \/ Answer(g) \/ Lose(g)
    BY <2>1 DEF Skip, Start, EndsUnpaid, Answer, Lose
  <2>2. CASE Pay(g) \/ Reject(g)
    BY <1>0, <2>2 DEF Pay, Reject, TypeOK
  <2>3. CASE Settle(g)
    <3>1. f # g
      BY <1>0, <2>3, AgentAssumption DEF Settle, TypeOK, Time
    <3> QED
      BY <1>0, <2>3, <3>1 DEF Settle, TypeOK
  <2> QED
    BY <1>2, <2>1, <2>2, <2>3 DEF CallStep
<1>3. CASE Tick \/ UNCHANGED vars
  BY <1>3 DEF Tick, vars, callVars
<1> QED
  BY <1>0, <1>1, <1>2, <1>3 DEF Next, Terminated

\* A window that ends at a settlement of now holds nothing but recent payments.
LEMMA NowWithin ==
  ASSUME NEW k \in Nat, TypeOK, Room(k), NEW f \in Settled, settledAt[f] = now
  PROVE  Within(f, k)
<1> DEFINE h == HostOf[service[f]]
<1>1. /\ f \in Fetch /\ now \in Nat /\ Day \in Nat /\ Hour \in Nat /\ k * MaxAmount \in Nat
      /\ \A g \in Fetch : settledAt[g] \in Nat
  BY AgentAssumption, AmountAssumption DEF TypeOK, Time, Settled
<1>2. ASSUME NEW w \in {Day, Hour}
      PROVE  SettledBefore(f, w) \in SUBSET Recent(w) /\ f \in Recent(w)
  BY <1>1, <1>2 DEF SettledBefore, Recent, Settled
<1>3. SettledToHost(f) \in SUBSET RecentTo(h) /\ f \in RecentTo(h)
  BY <1>2 DEF SettledToHost, RecentTo
<1>4. ASSUME NEW S \in SUBSET Fetch, NEW T \in SUBSET S
      PROVE  /\ TotalOf(T, amount) <= TotalOf(S, Worth)
             /\ TotalOf(T, amount) \in Nat /\ TotalOf(S, Worth) \in Nat
  <2>1. \A x \in T : Worth[x] \in Int /\ amount[x] \in Int /\ amount[x] <= Worth[x]
    BY WorthType, AmountAssumption
  <2> QED
    BY <2>1, FetchSetsFinite, UnitsBelow
<1>5. TotalOf(SettledBefore(f, Day), amount) < DailyCap + k * MaxAmount
  <2>1. /\ TotalOf(SettledBefore(f, Day), amount) <= TotalOf(Recent(Day), Worth)
        /\ TotalOf(SettledBefore(f, Day), amount) \in Nat /\ TotalOf(Recent(Day), Worth) \in Nat
    BY <1>2, <1>4, RecentInFetch
  <2>2. TotalOf(Recent(Day), Worth) < DailyCap + k * MaxAmount
    BY <1>2 DEF Room
  <2> QED
    BY <1>1, <2>1, <2>2, AgentAssumption
<1>6. Cardinality(SettledBefore(f, Hour)) < HourlyCap + k
  <2>1. /\ Cardinality(SettledBefore(f, Hour)) <= Cardinality(Recent(Hour))
        /\ Cardinality(SettledBefore(f, Hour)) \in Nat /\ Cardinality(Recent(Hour)) \in Nat
    BY <1>2, RecentInFetch, FetchSetsFinite, FS_Subset, FS_CardinalityType
  <2>2. Cardinality(Recent(Hour)) < HourlyCap + k
    BY <1>2 DEF Room
  <2> QED
    BY <2>1, <2>2, AgentAssumption
<1>7. TotalOf(SettledToHost(f), amount) < ProviderCap + k * MaxAmount
  <2>1. /\ TotalOf(SettledToHost(f), amount) <= TotalOf(RecentTo(h), Worth)
        /\ TotalOf(SettledToHost(f), amount) \in Nat /\ TotalOf(RecentTo(h), Worth) \in Nat
    BY <1>3, <1>4, RecentInFetch
  <2>2. TotalOf(RecentTo(h), Worth) < ProviderCap + k * MaxAmount
    BY <1>3 DEF Room
  <2> HIDE DEF h
  <2> QED
    BY <1>1, <2>1, <2>2, AgentAssumption
<1> QED
  BY <1>5, <1>6, <1>7 DEF Within

\* Of a window that ended earlier no step makes more than it was.
LEMMA NextPastWithin ==
  ASSUME NEW k \in Nat, BooksInv, Reliable, Room(k), PastWithin(k), [Next]_vars
  PROVE  PastWithin(k)'
<1>0. /\ TypeOK /\ TypeOK' /\ k * MaxAmount \in Nat
      /\ \A g \in Settled : settledAt[g] <= now
  BY NextCoreInv, AmountAssumption DEF BooksInv, CoreInv, OnBooks, Reliable
<1> SUFFICES ASSUME NEW f \in Settled', settledAt'[f] < now'
             PROVE  /\ TotalOf(SettledBefore(f, Day)', amount') < DailyCap + k * MaxAmount
                    /\ Cardinality(SettledBefore(f, Hour)') < HourlyCap + k
                    /\ TotalOf(SettledToHost(f)', amount') < ProviderCap + k * MaxAmount
  BY DEF PastWithin, Within
<1>1. /\ f \in Settled /\ f \in Fetch /\ settledAt'[f] = settledAt[f]
      /\ service'[f] = service[f]
  BY PastStays
<1>2. Within(f, k)
  <2>1. settledAt[f] \in Int /\ now \in Int /\ settledAt[f] <= now
    BY <1>0, <1>1, AgentAssumption DEF TypeOK, Time
  <2>2. CASE settledAt[f] < now
    BY <1>1, <2>2 DEF PastWithin
  <2>3. CASE settledAt[f] = now
    BY <1>0, <1>1, <2>3, NowWithin
  <2> QED
    BY <2>1, <2>2, <2>3
<1>3. \A g \in Settled' : settledAt'[g] <= settledAt'[f] => settledAt'[g] < now'
  BY <1>0, AgentAssumption DEF TypeOK, Time, Settled
<1>4. ASSUME NEW w \in {Day, Hour}
      PROVE  /\ SettledBefore(f, w)' \in SUBSET SettledBefore(f, w)
             /\ SettledBefore(f, w) \in SUBSET Fetch
             /\ \A g \in SettledBefore(f, w)' : amount'[g] = amount[g] /\ service'[g] = service[g]
  <2>1. SettledBefore(f, w) \in SUBSET Fetch
    BY DEF SettledBefore, Settled
  <2> SUFFICES ASSUME NEW g \in SettledBefore(f, w)'
               PROVE  /\ g \in SettledBefore(f, w)
                      /\ amount'[g] = amount[g] /\ service'[g] = service[g]
    BY <2>1
  <2>2. g \in Settled' /\ settledAt'[g] \in (settledAt'[f] - w)..settledAt'[f]
    BY DEF SettledBefore
  <2>3. settledAt'[g] < now'
    BY <1>0, <1>1, <1>3, <2>2, AgentAssumption DEF TypeOK, Time, Settled
  <2> QED
    BY <1>1, <2>2, <2>3, PastStays DEF SettledBefore
<1>5. /\ SettledToHost(f)' \in SUBSET SettledToHost(f)
      /\ SettledToHost(f) \in SUBSET Fetch
      /\ \A g \in SettledToHost(f)' : amount'[g] = amount[g]
  BY <1>1, <1>4 DEF SettledToHost
<1>6. ASSUME NEW S \in SUBSET Fetch, NEW T \in SUBSET S, \A x \in T : amount'[x] = amount[x]
      PROVE  /\ TotalOf(T, amount') <= TotalOf(S, amount)
             /\ TotalOf(T, amount') \in Nat /\ TotalOf(S, amount) \in Nat
  <2> DEFINE g == amount'
  <2>1. \A x \in T : g[x] = amount[x]
    BY <1>6
  <2> HIDE DEF g
  <2>2. /\ TotalOf(T, g) <= TotalOf(S, amount)
        /\ TotalOf(T, g) \in Nat /\ TotalOf(S, amount) \in Nat
    BY <2>1, SumFrame
  <2> QED
    BY <2>2 DEF g
<1>7. TotalOf(SettledBefore(f, Day)', amount') < DailyCap + k * MaxAmount
  <2>1. /\ TotalOf(SettledBefore(f, Day)', amount') <= TotalOf(SettledBefore(f, Day), amount)
        /\ TotalOf(SettledBefore(f, Day)', amount') \in Nat
        /\ TotalOf(SettledBefore(f, Day), amount) \in Nat
    BY <1>4, <1>6
  <2>2. TotalOf(SettledBefore(f, Day), amount) < DailyCap + k * MaxAmount
    BY <1>2 DEF Within
  <2> QED
    BY <1>0, <2>1, <2>2, AgentAssumption
<1>8. Cardinality(SettledBefore(f, Hour)') < HourlyCap + k
  <2>1. /\ Cardinality(SettledBefore(f, Hour)') <= Cardinality(SettledBefore(f, Hour))
        /\ Cardinality(SettledBefore(f, Hour)') \in Nat
        /\ Cardinality(SettledBefore(f, Hour)) \in Nat
    BY <1>4, FetchSetsFinite, FS_Subset, FS_CardinalityType
  <2>2. Cardinality(SettledBefore(f, Hour)) < HourlyCap + k
    BY <1>2 DEF Within
  <2> QED
    BY <2>1, <2>2, AgentAssumption
<1>9. TotalOf(SettledToHost(f)', amount') < ProviderCap + k * MaxAmount
  <2>1. /\ TotalOf(SettledToHost(f)', amount') <= TotalOf(SettledToHost(f), amount)
        /\ TotalOf(SettledToHost(f)', amount') \in Nat
        /\ TotalOf(SettledToHost(f), amount) \in Nat
    BY <1>5, <1>6
  <2>2. TotalOf(SettledToHost(f), amount) < ProviderCap + k * MaxAmount
    BY <1>2 DEF Within
  <2> QED
    BY <1>0, <2>1, <2>2, AgentAssumption
<1> QED
  BY <1>7, <1>8, <1>9

LEMMA NextCapsInv ==
  ASSUME NEW k \in Nat, BooksInv, CapsInv(k), [Next]_vars, Reliable => AtMostFlying(k)'
  PROVE  CapsInv(k)'
<1>1. Reliable' <=> Reliable
  BY TroubleStays DEF Reliable
<1> QED
  BY <1>1, NextRoom, NextPastWithin DEF CapsInv

LEMMA CapsFollow ==
  ASSUME NEW k \in Nat, BooksInv, CapsInv(k)
  PROVE  CapsWithin(k)
<1> SUFFICES ASSUME Reliable, NEW f \in Settled PROVE Within(f, k)
  BY DEF CapsWithin, Reliable, Within
<1>1. TypeOK /\ settledAt[f] <= now
  BY DEF BooksInv, CoreInv, OnBooks, Reliable
<1>2. settledAt[f] \in Int /\ now \in Int
  BY <1>1, AgentAssumption DEF TypeOK, Time, Settled
<1>3. CASE settledAt[f] < now
  BY <1>3 DEF CapsInv, PastWithin
<1>4. CASE settledAt[f] = now
  BY <1>1, <1>4, NowWithin DEF CapsInv
<1> QED
  BY <1>1, <1>2, <1>3, <1>4

\* However calls overlap: while at most k of them are in flight at a time, no answer
\* is lost and the ledger works, the caps are overshot by less than k service prices,
\* or k payments.
THEOREM AgentOvershoot ==
  ASSUME NEW k \in Nat
  PROVE  Spec /\ []AtMostFlying(k) => []CapsWithin(k)
<1>1. Init => BooksInv /\ CapsInv(k)
  BY InitBooksInv, InitCapsInv
<1>2. BooksInv /\ CapsInv(k) /\ [Next]_vars /\ AtMostFlying(k)' => (BooksInv /\ CapsInv(k))'
  BY NextBooksInv, NextCapsInv
<1>3. BooksInv /\ CapsInv(k) => CapsWithin(k)
  BY CapsFollow
<1> QED
  BY <1>1, <1>2, <1>3, PTL DEF Spec

\* The linear pipeline makes its calls one by one.
OneByOne ==
  \A f, g \in Fetch :
    pc[f] \in InFlight /\ pc[g] \in InFlight /\ runOf[f] = runOf[g] /\ runOf[f] \in Linear
      => f = g

LEMMA NextOneByOne == TypeOK /\ OneByOne /\ [Next]_vars => OneByOne'
<1> SUFFICES ASSUME TypeOK, OneByOne, [Next]_vars PROVE OneByOne'
  OBVIOUS
<1> USE DEF OneByOne, InFlight, TypeOK
<1>1. ASSUME NEW r \in Run, RunStep(r) PROVE OneByOne'
  BY <1>1 DEF RunStep, Plan, Enqueue, IsNextBatch, PlanEnds, ToolsReturn, callVars
<1>2. ASSUME NEW f \in Fetch, Start(f) PROVE OneByOne'
  BY <1>2 DEF Start, AtGate, Goto, MadeBy
<1>3. ASSUME NEW f \in Fetch, Skip(f) \/ EndsUnpaid(f) \/ Pay(f) PROVE OneByOne'
  BY <1>3 DEF Skip, EndsUnpaid, Pay, Goto
<1>4. ASSUME NEW f \in Fetch, Settle(f) \/ Answer(f) \/ Reject(f) \/ Lose(f) PROVE OneByOne'
  BY <1>4 DEF Settle, Answer, Reject, Lose, Goto
<1>5. CASE Tick \/ UNCHANGED vars
  BY <1>5 DEF Tick, vars, callVars
<1> QED
  BY <1>1, <1>2, <1>3, <1>4, <1>5 DEF Next, CallStep, Terminated

\* So no more calls are in flight than there are runs.
LEMMA LinearFlying ==
  ASSUME IsFiniteSet(Run), Linear = Run, TypeOK', OneByOne'
  PROVE  AtMostFlying(Cardinality(Run))'
<1> DEFINE F == Flying'
           own == [f \in F |-> runOf'[f]]
<1>1. own \in Injection(F, Run)
  <2>1. F \in SUBSET Fetch /\ \A f \in F : runOf'[f] \in Run
    BY DEF Flying, TypeOK
  <2>2. \A f, g \in F : runOf'[f] = runOf'[g] => f = g
    BY <2>1 DEF Flying, OneByOne
  <2>3. own \in [F -> Run] /\ \A f, g \in F : own[f] = own[g] => f = g
    BY <2>1, <2>2
  <2> QED
    BY <2>3 DEF Injection, IsInjective
<1> HIDE DEF F, own
<1>2. Cardinality(F) <= Cardinality(Run)
  BY <1>1, FS_Injection
<1> QED
  BY <1>2 DEF AtMostFlying, F

\* When all runs are linear pipelines no condition on their callers is left: the caps
\* are overshot by less than one service price for each run.
THEOREM LinearOvershoot ==
  ASSUME IsFiniteSet(Run), Linear = Run
  PROVE  Spec => []CapsWithin(Cardinality(Run))
<1> DEFINE k == Cardinality(Run)
<1>0. k \in Nat
  BY FS_CardinalityType
<1> DEFINE Inv == BooksInv /\ OneByOne /\ CapsInv(k)
<1> HIDE DEF k
<1>1. Init => Inv
  BY InitBooksInv, InitCapsInv DEF Init, OneByOne, InFlight
<1>2. Inv /\ [Next]_vars => Inv'
  <2> SUFFICES ASSUME Inv, [Next]_vars PROVE Inv'
    OBVIOUS
  <2>1. BooksInv' /\ TypeOK' /\ OneByOne'
    BY NextBooksInv, NextOneByOne DEF BooksInv, CoreInv
  <2>2. AtMostFlying(k)'
    BY <2>1, LinearFlying DEF k
  <2> QED
    BY <1>0, <2>1, <2>2, NextCapsInv
<1>3. Inv => CapsWithin(k)
  BY <1>0, CapsFollow
<1>4. Spec => []CapsWithin(k)
  BY <1>1, <1>2, <1>3, PTL DEF Spec
<1> QED
  BY <1>4 DEF k

\* Without overlap one call is in flight.
OneInFlight == trouble = {} => \A f, g \in Flying : f = g

LEMMA NextOneInFlight == TypeOK /\ OneInFlight /\ [Next]_vars => OneInFlight'
<1> SUFFICES ASSUME TypeOK, OneInFlight, [Next]_vars, trouble = {}
             PROVE  \A f, g \in Flying' : f = g
  BY TroubleStays DEF OneInFlight
<1> USE DEF OneInFlight, Flying, InFlight, TypeOK
<1>1. ASSUME NEW r \in Run, RunStep(r) PROVE \A f, g \in Flying' : f = g
  BY <1>1 DEF RunStep, Plan, Enqueue, IsNextBatch, PlanEnds, ToolsReturn, callVars
<1>2. ASSUME NEW h \in Fetch, Skip(h) \/ Start(h) PROVE \A f, g \in Flying' : f = g
  BY <1>2 DEF Skip, Start, AtGate, Goto
<1>3. ASSUME NEW h \in Fetch, EndsUnpaid(h) \/ Pay(h) PROVE \A f, g \in Flying' : f = g
  BY <1>3 DEF EndsUnpaid, Pay, Goto
<1>4. ASSUME NEW h \in Fetch, Settle(h) \/ Answer(h) \/ Reject(h) \/ Lose(h)
      PROVE  \A f, g \in Flying' : f = g
  BY <1>4 DEF Settle, Answer, Reject, Lose, Goto
<1>5. CASE Tick \/ UNCHANGED vars
  BY <1>5 DEF Tick, vars, callVars
<1> QED
  BY <1>1, <1>2, <1>3, <1>4, <1>5 DEF Next, CallStep, Terminated

CapsHold == DailyCapHolds /\ VelocityCapHolds /\ ProviderCapHolds

AloneInv == trouble = {} => OneInFlight /\ CapsInv(1)

LEMMA AloneFollows ==
  ASSUME BooksInv, AloneInv
  PROVE  CapsHold
<1> SUFFICES ASSUME trouble = {} PROVE CapsHold
  BY DEF CapsHold, DailyCapHolds, VelocityCapHolds, ProviderCapHolds
<1>1. CapsWithin(1)
  BY CapsFollow DEF AloneInv
<1>2. 1 * MaxAmount = MaxAmount
  BY AmountAssumption
<1>3. ASSUME NEW f \in Settled
      PROVE  Cardinality(SettledBefore(f, Hour)) <= HourlyCap
  <2>1. Cardinality(SettledBefore(f, Hour)) < HourlyCap + 1
    BY <1>1 DEF CapsWithin
  <2>2. Cardinality(SettledBefore(f, Hour)) \in Nat
    <3>1. SettledBefore(f, Hour) \in SUBSET Fetch
      BY DEF SettledBefore, Settled
    <3> QED
      BY <3>1, FetchSetsFinite, FS_CardinalityType
  <2> QED
    BY <2>1, <2>2, AgentAssumption
<1> QED
  BY <1>1, <1>2, <1>3
     DEF CapsHold, CapsWithin, DailyCapHolds, VelocityCapHolds, ProviderCapHolds

LEMMA CapsInvariant == Spec => []CapsHold
<1>1. Init => BooksInv /\ AloneInv
  BY InitBooksInv, InitCapsInv
     DEF Init, AloneInv, OneInFlight, Flying, InFlight
<1>2. BooksInv /\ AloneInv /\ [Next]_vars => (BooksInv /\ AloneInv)'
  <2> SUFFICES ASSUME BooksInv, AloneInv, [Next]_vars, trouble = {}
               PROVE  OneInFlight' /\ CapsInv(1)'
    BY NextBooksInv, TroubleStays DEF AloneInv
  <2>1. OneInFlight'
    BY NextOneInFlight DEF AloneInv, BooksInv, CoreInv
  <2>2. \A f, g \in Flying' : f = g
    BY <2>1, TroubleStays DEF OneInFlight
  <2>3. AtMostFlying(1)'
    <3> DEFINE F == Flying'
    <3>1. Cardinality(F) <= 1
      <4> HIDE DEF F
      <4>1. CASE F = {}
        BY <4>1, FS_EmptySet
      <4>2. CASE F # {}
        <5>1. PICK f \in F : TRUE
          BY <4>2
        <5>2. F = {f}
          BY <2>2, <5>1 DEF F
        <5>3. Cardinality({f}) = 1
          BY FS_Singleton
        <5> QED
          BY <5>2, <5>3
      <4> QED
        BY <4>1, <4>2
    <3> QED
      BY <3>1 DEF AtMostFlying
  <2> QED
    BY <2>1, <2>3, NextCapsInv DEF AloneInv
<1>3. BooksInv /\ AloneInv => CapsHold
  BY AloneFollows
<1> QED
  BY <1>1, <1>2, <1>3, PTL DEF Spec

\* While calls do not overlap, no answer is lost and the ledger works, the daily cap
\* is overshot by less than one service price, whatever the sellers quote.
THEOREM AgentDailyCap == Spec => []DailyCapHolds
<1>1. CapsHold => DailyCapHolds
  BY DEF CapsHold
<1> QED
  BY <1>1, CapsInvariant, PTL

\* Under the same conditions no hour sees more payments than the velocity cap.
THEOREM AgentVelocityCap == Spec => []VelocityCapHolds
<1>1. CapsHold => VelocityCapHolds
  BY DEF CapsHold
<1> QED
  BY <1>1, CapsInvariant, PTL

\* Under the same conditions the cap of a provider is overshot by less than one
\* service price.
THEOREM AgentProviderCap == Spec => []ProviderCapHolds
<1>1. CapsHold => ProviderCapHolds
  BY DEF CapsHold
<1> QED
  BY <1>1, CapsInvariant, PTL

-----------------------------------------------------------------------------
(* The clients of the runs keep the promise of ClientPromise.               *)

PromiseAmount == [f \in Fetch |-> IF auth[f] \in {"sent", "settled"} THEN amount[f] ELSE 0]

\* A call sends once, when its client charges it.
SentByPayer == \A f \in Fetch : auth[f] # "none" => pc[f] \in Charged \cup {"rejected"}

PromiseInv == BudgetInv /\ SentByPayer

LEMMA NextSentByPayer == CoreInv /\ SentByPayer /\ [Next]_vars => SentByPayer'
<1> SUFFICES ASSUME CoreInv, SentByPayer, [Next]_vars PROVE SentByPayer'
  OBVIOUS
<1>0. TypeOK
  BY DEF CoreInv
<1>1. ASSUME NEW r \in Run, RunStep(r) PROVE SentByPayer'
  BY <1>0, <1>1 DEF RunStep, Plan, Enqueue, IsNextBatch, PlanEnds, ToolsReturn, callVars,
                    SentByPayer, Charged
<1>2. ASSUME NEW f \in Fetch, CallStep(f) PROVE SentByPayer'
  BY <1>0, <1>2 DEF CallStep, Skip, Start, EndsUnpaid, Pay, Settle, Answer, Reject, Lose,
                    AtGate, Goto, SentByPayer, Charged, TypeOK
<1>3. CASE Tick \/ UNCHANGED vars
  BY <1>3 DEF Tick, vars, callVars, SentByPayer
<1> QED
  BY <1>1, <1>2, <1>3 DEF Next, Terminated

LEMMA PromiseStarts == Init => Promise!Init
<1> SUFFICES ASSUME Init PROVE Promise!Init
  OBVIOUS
<1>1. runOf \in [Fetch -> Run]
  BY InitCoreInv DEF CoreInv, TypeOK
<1> QED
  BY <1>1 DEF Init, Promise!Init

\* What the siblings of a call may take is among what its client holds.
LEMMA PromiseFits ==
  ASSUME PromiseInv, NEW f \in Fetch, NEW price \in 0..MaxAmount,
         Spent(runOf[f]) + price <= Budget
  PROVE  Promise!TotalOf(Promise!Siblings(f), PromiseAmount) + price <= Budget
<1> DEFINE r == runOf[f]
           Payable == {g \in MadeBy(r) : auth[g] \in {"sent", "settled"}}
<1>1. Payable \in SUBSET Held(r)
  BY DEF PromiseInv, BudgetInv, CoreInv, PayableIsCharged, Held, MadeBy
<1>2. /\ TotalOf(Payable, PromiseAmount) <= TotalOf(Held(r), amount)
      /\ TotalOf(Payable, PromiseAmount) \in Nat /\ TotalOf(Held(r), amount) \in Nat
  <2>1. \A g \in Payable : PromiseAmount[g] = amount[g]
    BY DEF PromiseAmount, MadeBy
  <2> HIDE DEF Payable, r
  <2> QED
    BY <1>1, <2>1, HeldInFetch, SumFrame
<1>3. Units(Promise!Siblings(f), PromiseAmount) = Units(Payable, PromiseAmount)
  <2>1. Payable \subseteq Promise!Siblings(f)
    BY DEF MadeBy, Promise!Siblings
  <2>2. ASSUME NEW g \in Promise!Siblings(f) \ Payable PROVE PromiseAmount[g] = 0
    BY DEF MadeBy, Promise!Siblings, PromiseAmount, PromiseInv, SentByPayer, Charged
  <2> QED
    BY <2>1, <2>2, AmountAssumption DEF Units
<1>4. Promise!TotalOf(Promise!Siblings(f), PromiseAmount)
        = Cardinality(Units(Promise!Siblings(f), PromiseAmount))
  BY DEF Promise!TotalOf, Promise!Units, Promise!Cardinality, Cardinality, Units
<1>5. TotalOf(Held(r), amount) + price <= Budget
  BY DEF Spent, Held
<1> HIDE DEF Payable, r
<1>6. TotalOf(Payable, PromiseAmount) + price <= Budget
  BY <1>2, <1>5, AgentAssumption, AmountAssumption
<1> QED
  BY <1>3, <1>4, <1>6 DEF TotalOf

LEMMA PromiseSteps == PromiseInv /\ [Next]_vars => [Promise!Next]_(Promise!vars)
<1> SUFFICES ASSUME PromiseInv, [Next]_vars PROVE [Promise!Next]_(Promise!vars)
  OBVIOUS
<1>0. TypeOK /\ SentByPayer
  BY DEF PromiseInv, BudgetInv, CoreInv
<1>1. ASSUME UNCHANGED <<runOf, auth, amount>> PROVE [Promise!Next]_(Promise!vars)
  BY <1>1 DEF Promise!vars
<1>2. ASSUME NEW r \in Run, RunStep(r) PROVE [Promise!Next]_(Promise!vars)
  <2>1. CASE Plan(r)
    <3>1. UNCHANGED <<auth, amount>>
      BY <2>1 DEF Plan
    <3>2. PICK batch \in SUBSET Fetch :
            /\ \A f \in batch : pc[f] = "unused"
            /\ runOf' = [f \in Fetch |-> IF f \in batch THEN r ELSE runOf[f]]
      BY <2>1 DEF Plan, Enqueue, IsNextBatch
    <3>3. runOf' \in [Fetch -> Run] /\ \A f \in Fetch : auth[f] # "none" => runOf'[f] = runOf[f]
      BY <1>0, <3>2 DEF TypeOK, SentByPayer, Charged
    <3>4. Promise!Assign
      BY <3>1, <3>3 DEF Promise!Assign
    <3> QED
      BY <3>4 DEF Promise!Next
  <2> QED
    BY <1>1, <1>2, <2>1 DEF RunStep, PlanEnds, ToolsReturn, callVars
<1>3. ASSUME NEW f \in Fetch, Skip(f) \/ Start(f) \/ EndsUnpaid(f) \/ Answer(f) \/ Lose(f)
      PROVE  [Promise!Next]_(Promise!vars)
  BY <1>1, <1>3 DEF Skip, Start, EndsUnpaid, Answer, Lose
<1>4. ASSUME NEW f \in Fetch, Pay(f) PROVE [Promise!Next]_(Promise!vars)
  <2>1. PICK price \in Quotes : /\ Spent(runOf[f]) + price <= Budget
                                /\ amount' = [amount EXCEPT ![f] = price]
    BY <1>4 DEF Pay
  <2>2. price \in 0..MaxAmount /\ auth[f] = "none" /\ auth' = [auth EXCEPT ![f] = "sent"]
        /\ runOf' = runOf
    BY <1>0, <1>4, AgentAssumption DEF Pay, SentByPayer, Charged
  <2>3. PromiseAmount' = [PromiseAmount EXCEPT ![f] = price]
    BY <1>0, <2>1, <2>2 DEF PromiseAmount, TypeOK
  <2>4. Promise!TotalOf(Promise!Siblings(f), PromiseAmount) + price <= Budget
    BY <2>1, <2>2, PromiseFits
  <2>5. Promise!Send(f)
    BY <2>2, <2>3, <2>4 DEF Promise!Send, PromiseAmount
  <2> QED
    BY <2>5 DEF Promise!Next
<1>5. ASSUME NEW f \in Fetch, Settle(f) PROVE [Promise!Next]_(Promise!vars)
  <2>1. PromiseAmount' = PromiseAmount
    BY <1>0, <1>5 DEF Settle, PromiseAmount, TypeOK
  <2>2. Promise!Settle(f)
    BY <1>5, <2>1 DEF Settle, Promise!Settle, PromiseAmount
  <2> QED
    BY <2>2 DEF Promise!Next
<1>6. ASSUME NEW f \in Fetch, Reject(f) PROVE [Promise!Next]_(Promise!vars)
  <2>1. PromiseAmount' = [PromiseAmount EXCEPT ![f] = 0]
    BY <1>0, <1>6 DEF Reject, PromiseAmount, TypeOK
  <2>2. Promise!Reject(f)
    BY <1>6, <2>1 DEF Reject, Promise!Reject, PromiseAmount
  <2> QED
    BY <2>2 DEF Promise!Next
<1>7. CASE Tick \/ UNCHANGED vars
  BY <1>1, <1>7 DEF Tick, vars, callVars
<1> QED
  BY <1>2, <1>3, <1>4, <1>5, <1>6, <1>7 DEF Next, CallStep, Terminated

\* Under every trouble the clients of the runs keep the promise that PaymentClient
\* keeps.
THEOREM AgentKeepsPromise == Spec => ImplementsClient
<1>1. Init => PromiseInv
  BY InitBudgetInv DEF Init, PromiseInv, SentByPayer
<1>2. PromiseInv /\ [Next]_vars => PromiseInv'
  BY NextBudgetInv, NextSentByPayer DEF PromiseInv, BudgetInv
<1> QED
  BY <1>1, <1>2, PromiseStarts, PromiseSteps, PTL DEF Spec, ImplementsClient, Promise!Spec
=============================================================================
