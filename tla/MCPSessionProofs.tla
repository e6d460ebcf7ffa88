-------------------------- MODULE MCPSessionProofs ---------------------------
(***************************************************************************)
(* What MCPSession keeps, for any number of calls, any prices and any      *)
(* ceiling.                                                                *)
(***************************************************************************)
EXTENDS MCPSession, UnitSumsProofs

\* A call has charged something, or sent it, only once it has paid.
ChargedAsPaid ==
  \A c \in Call :
    /\ pc[c] \in {"idle", "fetching"} => charged[c] = 0 /\ auth[c] = "none"
    /\ pc[c] \in {"exhausted", "notfound"} => auth[c] = "none"

SpentInv == TypeOK /\ SpentIsExact /\ ChargedAsPaid

LEMMA CallSetsFinite ==
  /\ IsFiniteSet(AnsweredCalls)
  /\ IsFiniteSet(PayableCalls)
BY SessionAssumption, FS_Subset DEF AnsweredCalls, PayableCalls

LEMMA InitSpentInv == Init => SpentInv
<1> SUFFICES ASSUME Init PROVE SpentInv
  OBVIOUS
<1>1. TypeOK /\ ChargedAsPaid
  BY AmountAssumption, SessionAssumption DEF Init, TypeOK, ChargedAsPaid
<1>2. AnsweredCalls = {}
  BY DEF Init, AnsweredCalls
<1>3. Units({}, charged) = {}
  BY DEF Units
<1>4. TotalOf(AnsweredCalls, charged) = 0
  BY <1>2, <1>3, FS_EmptySet DEF TotalOf
<1> QED
  BY <1>1, <1>4 DEF Init, SpentIsExact, SpentInv

\* A step that changes neither the total nor what the answered calls have
\* charged.
LEMMA SpentFrame ==
  ASSUME SpentInv, spent' = spent, AnsweredCalls' = AnsweredCalls,
         \A c \in AnsweredCalls : charged'[c] = charged[c]
  PROVE  SpentIsExact'
<1>1. Units(AnsweredCalls, charged') = Units(AnsweredCalls, charged)
  BY UnitsAgree
<1> QED
  BY <1>1 DEF SpentInv, SpentIsExact, TotalOf

\* A call that is answered adds what it charged, which may be nothing.
LEMMA AnswerExact ==
  ASSUME SpentInv, NEW c \in Call, pc[c] \in InFlight,
         pc' = [pc EXCEPT ![c] = "answered"],
         charged'[c] \in 0..MaxAmount, spent' = spent + charged'[c],
         \A d \in Call \ {c} : charged'[d] = charged[d]
  PROVE  SpentIsExact'
<1>1. pc \in [Call -> {"idle"} \cup InFlight \cup Ended]
  BY DEF SpentInv, TypeOK
<1>2. AnsweredCalls' = AnsweredCalls \cup {c} /\ c \notin AnsweredCalls
  BY <1>1 DEF AnsweredCalls, InFlight
<1>3. Units(AnsweredCalls, charged') = Units(AnsweredCalls, charged)
  BY <1>2, UnitsAgree DEF AnsweredCalls
<1>4. Cardinality(Units(AnsweredCalls \cup {c}, charged'))
        = Cardinality(Units(AnsweredCalls, charged')) + charged'[c]
  BY <1>2, CallSetsFinite, UnitsAdd
<1> QED
  BY <1>2, <1>3, <1>4 DEF SpentInv, SpentIsExact, TotalOf

LEMMA NextSpentInv == SpentInv /\ [Next]_vars => SpentInv'
<1> SUFFICES ASSUME SpentInv, [Next]_vars PROVE SpentInv'
  OBVIOUS
<1>0. TypeOK /\ SpentIsExact /\ ChargedAsPaid
  BY DEF SpentInv
<1>1. ASSUME NEW c \in Call,
             \/ Refuse(c)
             \/ NotFound(c)
             \/ EndsUnpaid(c) /\ pc'[c] = "raised"
      PROVE  SpentInv'
  <2>1. TypeOK' /\ ChargedAsPaid'
    BY <1>0, <1>1 DEF Refuse, NotFound, EndsUnpaid, Called, Goto, TypeOK, Ended, ChargedAsPaid
  <2>2. AnsweredCalls' = AnsweredCalls
    BY <1>0, <1>1 DEF Refuse, NotFound, EndsUnpaid, Called, Goto, TypeOK, AnsweredCalls
  <2>3. UNCHANGED <<spent, charged>>
    BY <1>0, <1>1 DEF Refuse, NotFound, EndsUnpaid
  <2> QED
    BY <2>1, <2>2, <2>3, SpentFrame DEF SpentInv
<1>2. ASSUME NEW c \in Call, Start(c) PROVE SpentInv'
  <2>1. PICK s \in Service : Affordable(s)
    BY <1>0, <1>2 DEF Start
  <2>2. Ceiling - spent \in Nat
    BY <1>0, <2>1, SessionAssumption DEF Affordable, TypeOK
  <2>3. TypeOK' /\ ChargedAsPaid'
    BY <1>0, <1>2, <2>2 DEF Start, Called, Goto, TypeOK, InFlight, ChargedAsPaid
  <2>4. AnsweredCalls' = AnsweredCalls /\ UNCHANGED <<spent, charged>>
    BY <1>0, <1>2 DEF Start, Called, Goto, TypeOK, AnsweredCalls
  <2> QED
    BY <2>3, <2>4, SpentFrame DEF SpentInv
<1>3. ASSUME NEW c \in Call, Pay(c) PROVE SpentInv'
  <2>1. TypeOK' /\ ChargedAsPaid'
    BY <1>0, <1>3 DEF Pay, Goto, TypeOK, InFlight, ChargedAsPaid
  <2>2. /\ AnsweredCalls' = AnsweredCalls /\ spent' = spent
        /\ \A d \in AnsweredCalls : charged'[d] = charged[d]
    BY <1>0, <1>3 DEF Pay, Goto, TypeOK, AnsweredCalls
  <2> QED
    BY <2>1, <2>2, SpentFrame DEF SpentInv
<1>4. ASSUME NEW c \in Call, EndsUnpaid(c), pc'[c] # "raised" PROVE SpentInv'
  <2>1. /\ pc' = [pc EXCEPT ![c] = "answered"]
        /\ charged[c] = 0 /\ UNCHANGED <<spent, charged>>
    BY <1>0, <1>4 DEF EndsUnpaid, Goto, TypeOK, ChargedAsPaid
  <2>2. TypeOK' /\ ChargedAsPaid'
    BY <1>0, <1>4, <2>1 DEF EndsUnpaid, TypeOK, Ended, ChargedAsPaid
  <2>3. /\ pc[c] \in InFlight /\ charged'[c] \in 0..MaxAmount
        /\ spent' = spent + charged'[c]
        /\ \A d \in Call \ {c} : charged'[d] = charged[d]
    BY <1>0, <1>4, <2>1 DEF EndsUnpaid, TypeOK, InFlight
  <2>4. SpentIsExact'
    BY <2>1, <2>3, AnswerExact
  <2> QED
    BY <2>2, <2>4 DEF SpentInv
<1>5. ASSUME NEW c \in Call, Answer(c) PROVE SpentInv'
  <2>1. TypeOK' /\ ChargedAsPaid'
    BY <1>0, <1>5 DEF Answer, Goto, TypeOK, Ended, ChargedAsPaid
  <2>2. /\ pc[c] \in InFlight /\ pc' = [pc EXCEPT ![c] = "answered"]
        /\ charged'[c] \in 0..MaxAmount /\ spent' = spent + charged'[c]
        /\ \A d \in Call \ {c} : charged'[d] = charged[d]
    BY <1>0, <1>5 DEF Answer, Goto, TypeOK, InFlight
  <2>3. SpentIsExact'
    BY <2>2, AnswerExact
  <2> QED
    BY <2>1, <2>3 DEF SpentInv
<1>6. ASSUME NEW c \in Call, Reject(c) PROVE SpentInv'
  <2>1. TypeOK' /\ ChargedAsPaid'
    BY <1>0, <1>6, AmountAssumption DEF Reject, Goto, TypeOK, Ended, ChargedAsPaid
  <2>2. /\ pc[c] \in InFlight /\ pc' = [pc EXCEPT ![c] = "answered"]
        /\ charged'[c] \in 0..MaxAmount /\ spent' = spent + charged'[c]
        /\ \A d \in Call \ {c} : charged'[d] = charged[d]
    BY <1>0, <1>6, AmountAssumption DEF Reject, Goto, TypeOK, InFlight
  <2>3. SpentIsExact'
    BY <2>2, AnswerExact
  <2> QED
    BY <2>1, <2>3 DEF SpentInv
<1>7. ASSUME NEW c \in Call, CutShort(c) \/ Settle(c) PROVE SpentInv'
  <2>1. TypeOK' /\ ChargedAsPaid'
    BY <1>0, <1>7 DEF CutShort, Settle, Goto, TypeOK, Ended, ChargedAsPaid
  <2>2. AnsweredCalls' = AnsweredCalls /\ UNCHANGED <<spent, charged>>
    BY <1>0, <1>7 DEF CutShort, Settle, Goto, TypeOK, AnsweredCalls
  <2> QED
    BY <2>1, <2>2, SpentFrame DEF SpentInv
<1>8. CASE UNCHANGED vars
  BY <1>0, <1>8 DEF vars, SpentInv, TypeOK, ChargedAsPaid, SpentIsExact,
                  AnsweredCalls, TotalOf, Units
<1>9. ASSUME NEW c \in Call, Refuse(c) \/ NotFound(c) \/ EndsUnpaid(c) PROVE SpentInv'
  BY <1>1, <1>4, <1>9
<1> QED
  BY <1>2, <1>3, <1>5, <1>6, <1>7, <1>8, <1>9 DEF Next, Terminated

\* Total, charges and calls of a session keep their types.
THEOREM SessionTypeCorrect == Spec => []TypeOK
<1>1. SpentInv => TypeOK
  BY DEF SpentInv
<1> QED
  BY <1>1, InitSpentInv, NextSpentInv, PTL DEF Spec

\* The session's total is exact for any overlap of calls and any lost answer.
THEOREM SpentExact == Spec => []SpentIsExact
<1>1. SpentInv => SpentIsExact
  BY DEF SpentInv
<1> QED
  BY <1>1, InitSpentInv, NextSpentInv, PTL DEF Spec

-----------------------------------------------------------------------------
(* The ceiling, for a host that waits for each answer.                       *)

\* One call is in flight, with the remainder it was started with, and every
\* authorization is accounted for or in its hands.
OneAtATime ==
  /\ \A c, d \in Call : pc[c] \in InFlight /\ pc[d] \in InFlight => c = d
  /\ \A c \in Call :
       /\ pc[c] \in InFlight => remaining[c] = Ceiling - spent
       /\ pc[c] = "paying" => charged[c] <= remaining[c]
       /\ pc[c] = "raised" => auth[c] = "none" \/ c \in Forgotten
  /\ spent <= Ceiling

CeilingInv == SpentInv /\ ("overlap" \notin trouble => OneAtATime)

LEMMA InitCeilingInv == Init => CeilingInv
BY InitSpentInv, SessionAssumption DEF Init, CeilingInv, OneAtATime, InFlight

LEMMA NextCeilingInv ==
  CeilingInv /\ [Next]_vars => CeilingInv'
<1>0. ASSUME [Next]_vars PROVE trouble' = trouble
  BY <1>0 DEF Next, vars, Refuse, NotFound, Start, Pay, EndsUnpaid, Answer, Reject,
              CutShort, Settle, Terminated
<1> SUFFICES ASSUME "overlap" \notin trouble, CeilingInv, [Next]_vars
             PROVE  OneAtATime'
  BY <1>0, NextSpentInv DEF CeilingInv
<1> USE SessionAssumption, AmountAssumption
        DEF CeilingInv, SpentInv, TypeOK, InFlight, OneAtATime, Forgotten
<1>1. ASSUME NEW c \in Call, Refuse(c) \/ NotFound(c) PROVE OneAtATime'
  BY <1>1 DEF Refuse, NotFound, Called, Goto, ChargedAsPaid
<1>2. ASSUME NEW c \in Call, Start(c) PROVE OneAtATime'
  BY <1>2 DEF Start, Called, Goto
<1>3. ASSUME NEW c \in Call, Pay(c) PROVE OneAtATime'
  BY <1>3 DEF Pay, Goto
<1>4. ASSUME NEW c \in Call, EndsUnpaid(c) PROVE OneAtATime'
  BY <1>4 DEF EndsUnpaid, Goto, ChargedAsPaid
<1>5. ASSUME NEW c \in Call, Answer(c) PROVE OneAtATime'
  BY <1>5 DEF Answer, Goto
<1>6. ASSUME NEW c \in Call, Reject(c) PROVE OneAtATime'
  BY <1>6 DEF Reject, Goto
<1>7. ASSUME NEW c \in Call, Settle(c) PROVE OneAtATime'
  BY <1>7 DEF Settle
<1>8. ASSUME NEW c \in Call, CutShort(c) PROVE OneAtATime'
  BY <1>8 DEF CutShort, Goto
<1>9. CASE UNCHANGED vars
  BY <1>9 DEF vars
<1> QED
  BY <1>1, <1>2, <1>3, <1>4, <1>5, <1>6, <1>7, <1>8, <1>9 DEF Next, Terminated

\* What may move is what the answered calls have spent and what one call has in
\* hand, which it took from the remainder.
LEMMA CeilingFollows == CeilingInv => CommittedWithinCeiling
<1> DEFINE seen == PayableCalls \ Forgotten
<1> SUFFICES ASSUME CeilingInv, "overlap" \notin trouble
             PROVE  TotalOf(seen, charged) <= Ceiling
  BY DEF CommittedWithinCeiling
<1>0. IsFiniteSet(seen)
  BY CallSetsFinite, FS_Subset
<1>1. spent = Cardinality(Units(AnsweredCalls, charged)) /\ spent <= Ceiling /\ spent \in Nat
  BY DEF CeilingInv, SpentInv, SpentIsExact, OneAtATime, TotalOf, TypeOK
<1>2. CASE \A c \in Call : pc[c] # "paying"
  <2>1. seen \in SUBSET AnsweredCalls
    BY <1>2 DEF CeilingInv, SpentInv, OneAtATime, TypeOK, ChargedAsPaid, PayableCalls, Forgotten,
                AnsweredCalls, InFlight, Ended
  <2>2. Cardinality(Units(seen, charged)) <= Cardinality(Units(AnsweredCalls, charged))
    BY <2>1, CallSetsFinite, UnitsMonotone
  <2>3. Cardinality(Units(seen, charged)) \in Nat
    BY <1>0, UnitsFinite
  <2> QED
    BY <1>1, <2>2, <2>3, SessionAssumption DEF TotalOf
<1>3. ASSUME NEW c \in Call, pc[c] = "paying"
      PROVE  TotalOf(seen, charged) <= Ceiling
  <2>1. charged[c] \in 0..MaxAmount /\ charged[c] <= Ceiling - spent
    BY <1>3 DEF CeilingInv, SpentInv, OneAtATime, TypeOK, InFlight
  <2>2. seen \in SUBSET (AnsweredCalls \cup {c})
    BY <1>3 DEF CeilingInv, SpentInv, OneAtATime, TypeOK, ChargedAsPaid, PayableCalls, Forgotten,
                AnsweredCalls, InFlight, Ended
  <2>3. c \notin AnsweredCalls
    BY <1>3 DEF AnsweredCalls
  <2>4. IsFiniteSet(AnsweredCalls \cup {c})
    BY CallSetsFinite, FS_AddElement
  <2>5. Cardinality(Units(AnsweredCalls \cup {c}, charged)) = spent + charged[c]
    BY <1>1, <2>1, <2>3, CallSetsFinite, UnitsAdd
  <2>6. Cardinality(Units(seen, charged))
          <= Cardinality(Units(AnsweredCalls \cup {c}, charged))
    BY <2>2, <2>4, UnitsMonotone
  <2>7. Cardinality(Units(seen, charged)) \in Nat
    BY <1>0, UnitsFinite
  <2> QED
    BY <1>1, <2>1, <2>5, <2>6, <2>7, SessionAssumption DEF TotalOf
<1> QED
  BY <1>2, <1>3

\* A host that waits for each call stays within the ceiling, with what is still
\* under way, but for the calls it loses sight of.
THEOREM CeilingHolds == Spec => []CommittedWithinCeiling
<1>1. Init => CeilingInv
  BY InitCeilingInv
<1>2. CeilingInv /\ [Next]_vars => CeilingInv'
  BY NextCeilingInv
<1>3. CeilingInv => CommittedWithinCeiling
  BY CeilingFollows
<1> QED
  BY <1>1, <1>2, <1>3, PTL DEF Spec

-----------------------------------------------------------------------------
(* The clients of the calls keep the promise of ClientPromise.              *)

\* The client of a call has no more than the ceiling, and what was rejected is
\* charged no longer.
ClientInv ==
  \A c \in Call :
    /\ remaining[c] <= Ceiling
    /\ auth[c] \notin {"sent", "settled"} => charged[c] = 0
    /\ pc[c] = "fetching" => auth[c] = "none"

LEMMA NextClientInv == SpentInv /\ ClientInv /\ [Next]_vars => ClientInv'
<1> SUFFICES ASSUME SpentInv, ClientInv, [Next]_vars PROVE ClientInv'
  OBVIOUS
<1> USE SessionAssumption, AmountAssumption DEF SpentInv, ClientInv, TypeOK, ChargedAsPaid, Goto
<1>1. ASSUME NEW c \in Call, Refuse(c) \/ NotFound(c) \/ Start(c) PROVE ClientInv'
  BY <1>1 DEF Refuse, NotFound, Start, Called
<1>2. ASSUME NEW c \in Call, Pay(c) \/ EndsUnpaid(c) PROVE ClientInv'
  BY <1>2 DEF Pay, EndsUnpaid
<1>3. ASSUME NEW c \in Call, Answer(c) \/ Reject(c) \/ CutShort(c) \/ Settle(c) PROVE ClientInv'
  BY <1>3 DEF Answer, Reject, CutShort, Settle
<1>4. CASE UNCHANGED vars
  BY <1>4 DEF vars
<1> QED
  BY <1>1, <1>2, <1>3, <1>4 DEF Next, Terminated

LEMMA PromiseStarts == Init => Promise!Init
BY DEF Init, Promise!Init

LEMMA PromiseSteps == SpentInv /\ ClientInv /\ [Next]_vars => [Promise!Next]_(Promise!vars)
<1> SUFFICES ASSUME SpentInv, ClientInv, [Next]_vars PROVE [Promise!Next]_(Promise!vars)
  OBVIOUS
<1>0. TypeOK
  BY DEF SpentInv
<1>1. ASSUME UNCHANGED <<auth, charged>> PROVE [Promise!Next]_(Promise!vars)
  BY <1>1 DEF Promise!vars
<1>2. ASSUME NEW c \in Call, \/ Refuse(c) \/ NotFound(c) \/ Start(c) \/ EndsUnpaid(c)
                             \/ Answer(c) \/ CutShort(c)
      PROVE  [Promise!Next]_(Promise!vars)
  BY <1>1, <1>2 DEF Refuse, NotFound, Start, EndsUnpaid, Answer, CutShort
<1>3. ASSUME NEW c \in Call, Pay(c) PROVE [Promise!Next]_(Promise!vars)
  <2>1. PICK a \in 0..MaxAmount : a <= remaining[c] /\ charged' = [charged EXCEPT ![c] = a]
    BY <1>3 DEF Pay
  <2>2. a <= Ceiling
    BY <1>0, <2>1, SessionAssumption, AmountAssumption DEF ClientInv, TypeOK
  <2>3. auth[c] = "none" /\ charged[c] = 0 /\ auth' = [auth EXCEPT ![c] = "sent"]
    BY <1>3 DEF Pay, ClientInv
  <2>4. Promise!Siblings(c) = {c}
    BY DEF Promise!Siblings
  <2>5. Promise!TotalOf(Promise!Siblings(c), charged) = TotalOf({c}, charged)
    BY <2>4 DEF Promise!TotalOf, Promise!Units, Promise!Cardinality, Cardinality, Units, TotalOf
  <2>6. Units({c}, charged) = {}
    BY <2>3, AmountAssumption DEF Units
  <2>7. Promise!TotalOf(Promise!Siblings(c), charged) + a <= Ceiling
    <3>1. TotalOf({c}, charged) = 0
      BY <2>6, FS_EmptySet DEF TotalOf
    <3> QED
      BY <2>2, <2>5, <3>1, AmountAssumption
  <2>8. Promise!Send(c)
    BY <2>1, <2>3, <2>7 DEF Promise!Send
  <2> QED
    BY <2>8 DEF Promise!Next
<1>4. ASSUME NEW c \in Call, Reject(c) PROVE [Promise!Next]_(Promise!vars)
  <2>1. Promise!Reject(c)
    BY <1>4 DEF Reject, Promise!Reject
  <2> QED
    BY <2>1 DEF Promise!Next
<1>5. ASSUME NEW c \in Call, Settle(c) PROVE [Promise!Next]_(Promise!vars)
  <2>1. Promise!Settle(c)
    BY <1>5 DEF Settle, Promise!Settle
  <2> QED
    BY <2>1 DEF Promise!Next
<1>6. CASE UNCHANGED vars
  BY <1>1, <1>6 DEF vars
<1> QED
  BY <1>2, <1>3, <1>4, <1>5, <1>6 DEF Next, Terminated

\* However calls overlap and end, the clients of the calls keep the promise that
\* PaymentClient keeps.
THEOREM SessionKeepsPromise == Spec => ImplementsClient
<1>1. Init => ClientInv
  BY SessionAssumption DEF Init, ClientInv
<1> QED
  BY <1>1, InitSpentInv, NextSpentInv, NextClientInv, PromiseStarts, PromiseSteps, PTL
     DEF Spec, ImplementsClient, Promise!Spec
=============================================================================
