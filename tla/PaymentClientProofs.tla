------------------------ MODULE PaymentClientProofs ------------------------
(***************************************************************************)
(* Proofs about PaymentClient.                                             *)
(***************************************************************************)
EXTENDS PaymentClient, PaymentJournalProofs

-----------------------------------------------------------------------------
(* Types. *)

\* A handler past the quote has a payment in hand.
Running == {"quoted", "reserved", "signing", "paying", "caching"}
PaymentKnown == \A r \in Request : pc[r] \in Running => payment[r] \in Payment

TypeInv == TypeOK /\ PaymentKnown

\* A save keeps the types of what it writes.
LEMMA SaveTypes ==
  ASSUME TypeInv, NEW r \in Request, payment[r] \in Payment,
         NEW status \in PaymentStatus, NEW next \in Finished \cup Suspended,
         Save(r, status, next)
  PROVE  /\ IsJournal(journal')
         /\ DOMAIN fallback' = Session /\ \A s \in Session : IsJournal(fallback'[s])
         /\ pc' \in [Request -> {"idle"} \cup Suspended \cup Finished]
         /\ payment' \in [Request -> Payment \cup {NoPayment}]
         /\ PaymentKnown'
<1> DEFINE p == [payment[r] EXCEPT !.status = status]
           s == ClientOf[r]
<1>1. p \in Payment
  BY DEF Payment, PaymentStatus
<1>2. s \in Session
  BY ClientAssumption
<1>3. \E label \in {next, "error"} : pc' = [pc EXCEPT ![r] = label]
  BY DEF Save, Goto
<1>4. payment' = [payment EXCEPT ![r] = p]
  BY DEF Save
<1>5. IsJournal(journal')
  BY <1>1, PutIsJournal DEF Save, TypeInv, TypeOK
<1>6. fallback' = fallback \/ fallback' = [fallback EXCEPT ![s] = Put(@, p)]
  BY DEF Save
<1>7. DOMAIN fallback' = Session /\ \A t \in Session : IsJournal(fallback'[t])
  BY <1>1, <1>2, <1>6, PutIsJournal DEF TypeInv, TypeOK
<1>8. /\ pc' \in [Request -> {"idle"} \cup Suspended \cup Finished]
      /\ payment' \in [Request -> Payment \cup {NoPayment}]
  BY <1>1, <1>3, <1>4 DEF TypeInv, TypeOK, Finished
<1>9. PaymentKnown'
  BY <1>1, <1>3, <1>4 DEF TypeInv, TypeOK, PaymentKnown
<1> QED
  BY <1>5, <1>7, <1>8, <1>9

LEMMA InitTypeInv == Init => TypeInv
BY ClientAssumption, EmptyIsJournal
   DEF Init, TypeInv, TypeOK, PaymentKnown, Running, Suspended, AuthState

\* Every step of a handler keeps the types.
LEMMA HandleTypeInv ==
  ASSUME TypeInv, NEW r \in Request, Handle(r)
  PROVE  TypeInv'
<1> DEFINE s == ClientOf[r]
<1>s. s \in Session /\ ResourceOf[r] \in Resource
  BY ClientAssumption
<1>1. CASE Replay(r)
  BY <1>1 DEF Replay, At, Goto, TypeInv, TypeOK, PaymentKnown, Finished, Running
<1>2. CASE Probe(r)
  BY <1>2, <1>s DEF Probe, At, Goto, TypeInv, TypeOK, PaymentKnown, Suspended, Running
<1>3. CASE NothingToPay(r)
  BY <1>3 DEF NothingToPay, At, Goto, TypeInv, TypeOK, PaymentKnown, Finished, Running
<1>4. CASE Quote(r)
  BY <1>4, <1>s, ClientAssumption
     DEF Quote, At, Goto, TypeInv, TypeOK, PaymentKnown, Suspended, Running, Payment, PaymentStatus
<1>5. ASSUME NEW j, IsJournal(j), payment[r] \in Payment, At(r, "quoted"), Admit(r, j)
      PROVE  /\ pc' \in [Request -> {"idle"} \cup Suspended \cup Finished]
             /\ payment' \in [Request -> Payment \cup {NoPayment}]
             /\ isNew' \in [Request -> BOOLEAN]
             /\ PaymentKnown'
  <2>1. CASE Refuses(j, payment[r], now) /\ Goto(r, "refused") /\ UNCHANGED <<payment, isNew>>
    BY <2>1 DEF Goto, TypeInv, TypeOK, PaymentKnown, Running, Finished
  <2>2. CASE /\ Goto(r, "reserved")
             /\ isNew' = [isNew EXCEPT ![r] = TRUE]
             /\ UNCHANGED payment
    BY <1>5, <2>2 DEF Goto, TypeInv, TypeOK, PaymentKnown, Running, Suspended
  <2>3. CASE /\ Resumes(j, payment[r])
             /\ payment' = [payment EXCEPT ![r] = j[payment[r].payment_id]]
             /\ Goto(r, IF payment[r].resource \in SupportsId THEN "signing" ELSE "refused")
             /\ UNCHANGED isNew
    <3>1. j[payment[r].payment_id] \in Payment
      BY <1>5, <2>3 DEF Resumes, IsJournal
    <3> QED
      BY <3>1, <2>3 DEF Goto, TypeInv, TypeOK, PaymentKnown, Running, Suspended, Finished
  <2> QED
    BY <1>5, <2>1, <2>2, <2>3 DEF Admit
<1>6. CASE Reserve(r)
  <2>1. payment[r] \in Payment /\ IsJournal(journal)
    BY <1>6 DEF Reserve, At, TypeInv, TypeOK, PaymentKnown, Running
  <2>2. IsJournal(journal')
    BY <1>6, <2>1, ReserveIsJournal DEF Reserve
  <2> QED
    BY <1>5, <1>6, <2>1, <2>2 DEF Reserve, TypeInv, TypeOK
<1>7. CASE ReserveUnavailable(r)
  <2>1. payment[r] \in Payment /\ IsJournal(fallback[s])
    BY <1>7, <1>s DEF ReserveUnavailable, At, TypeInv, TypeOK, PaymentKnown, Running
  <2>2. CASE Goto(r, "error") /\ UNCHANGED <<fallback, payment, isNew>>
    BY <1>7, <2>2
       DEF ReserveUnavailable, Goto, TypeInv, TypeOK, PaymentKnown, Running, Finished
  <2>3. CASE /\ Admit(r, fallback[s])
             /\ fallback' = [fallback EXCEPT ![s] = AfterReserve(@, payment[r], now)]
    <3>1. DOMAIN fallback' = Session /\ \A t \in Session : IsJournal(fallback'[t])
      BY <2>1, <2>3, <1>s, ReserveIsJournal DEF TypeInv, TypeOK
    <3> QED
      BY <1>5, <1>7, <2>1, <2>3, <3>1 DEF ReserveUnavailable, TypeInv, TypeOK
  <2> QED
    BY <1>7, <2>2, <2>3 DEF ReserveUnavailable
<1>8. CASE ChargeBudget(r)
  BY <1>8, <1>s
     DEF ChargeBudget, NoSave, At, Goto, TypeInv, TypeOK, PaymentKnown, Suspended, Running, Payment
<1>9. CASE BlockOnBudget(r)
  <2>1. payment[r] \in Payment
    BY <1>9 DEF BlockOnBudget, At, TypeInv, PaymentKnown, Running
  <2> QED
    BY <1>9, <2>1, SaveTypes DEF BlockOnBudget, TypeInv, TypeOK, Finished, PaymentStatus
<1>10. ASSUME payment[r] \in Payment, Refund(r)
       PROVE  spent' \in [Session -> Nat] /\ charged' \in [Request -> BOOLEAN]
  BY <1>10, <1>s DEF Refund, TypeInv, TypeOK, Payment
<1>11. CASE SignFails(r)
  <2>1. payment[r] \in Payment
    BY <1>11 DEF SignFails, At, TypeInv, PaymentKnown, Running
  <2>2. CASE isNew[r]
    BY <1>10, <1>11, <2>1, <2>2, SaveTypes DEF SignFails, TypeInv, TypeOK, Finished, PaymentStatus
  <2>3. CASE ~isNew[r]
    BY <1>11, <2>3
       DEF SignFails, NoSave, Goto, TypeInv, TypeOK, PaymentKnown, Finished, Running
  <2> QED
    BY <2>2, <2>3
<1>12. CASE SignAndSend(r)
  <2>1. payment[r] \in Payment
    BY <1>12 DEF SignAndSend, At, TypeInv, PaymentKnown, Running
  <2>2. auth' \in [Request -> AuthState]
    BY <1>12 DEF SignAndSend, TypeInv, TypeOK, AuthState
  <2>3. CASE Save(r, "authorized", "paying")
    BY <1>12, <2>1, <2>2, <2>3, SaveTypes
       DEF SignAndSend, TypeInv, TypeOK, Suspended, PaymentStatus
  <2>4. CASE NoSave(r, "paying")
    BY <1>12, <2>1, <2>2, <2>4
       DEF SignAndSend, NoSave, Goto, TypeInv, TypeOK, PaymentKnown, Suspended, Running
  <2> QED
    BY <1>12, <2>3, <2>4 DEF SignAndSend
<1>13. ASSUME At(r, "paying")
       PROVE  payment[r] \in Payment
  BY <1>13 DEF At, TypeInv, PaymentKnown, Running
<1>14. CASE PaidSuccess(r)
  <2>1. \E next \in Finished \cup Suspended : Save(r, "success", next)
    BY <1>14 DEF PaidSuccess, Finished, Suspended
  <2> QED
    BY <1>13, <1>14, <2>1, SaveTypes DEF PaidSuccess, TypeInv, TypeOK, PaymentStatus
<1>15. CASE CacheResponse(r)
  BY <1>15, <1>s, ClientAssumption
     DEF CacheResponse, NoSave, At, Goto, TypeInv, TypeOK, PaymentKnown, Finished, Running
<1>16. CASE PaidRejected(r)
  <2>1. payment[r] \in Payment
    BY <1>13, <1>16 DEF PaidRejected
  <2>2. auth' \in [Request -> AuthState]
    BY <1>16 DEF PaidRejected, TypeInv, TypeOK, AuthState
  <2>3. CASE isNew[r]
    BY <1>10, <1>16, <2>1, <2>2, <2>3, SaveTypes
       DEF PaidRejected, TypeInv, TypeOK, Finished, PaymentStatus
  <2>4. CASE ~isNew[r]
    BY <1>16, <2>1, <2>2, <2>4, SaveTypes
       DEF PaidRejected, TypeInv, TypeOK, Finished, PaymentStatus
  <2> QED
    BY <2>3, <2>4
<1>17. CASE PaidAmbiguous(r)
  BY <1>13, <1>17, SaveTypes DEF PaidAmbiguous, TypeInv, TypeOK, Finished, PaymentStatus
<1>18. CASE PaidLost(r)
  <2>1. CASE NoSave(r, "unknown")
    BY <1>18, <2>1
       DEF PaidLost, NoSave, Goto, TypeInv, TypeOK, PaymentKnown, Finished, Running
  <2>2. CASE Save(r, "unknown", "unknown")
    BY <1>13, <1>18, <2>2, SaveTypes
       DEF PaidLost, TypeInv, TypeOK, Finished, PaymentStatus
  <2> QED
    BY <1>18, <2>1, <2>2 DEF PaidLost
<1> QED
  BY <1>1, <1>2, <1>3, <1>4, <1>6, <1>7, <1>8, <1>9, <1>11, <1>12, <1>14, <1>15, <1>16,
     <1>17, <1>18 DEF Handle

LEMMA NextTypeInv == TypeInv /\ [Next]_vars => TypeInv'
<1> SUFFICES ASSUME TypeInv, [Next]_vars PROVE TypeInv'
  OBVIOUS
<1>1. ASSUME NEW r \in Request, Handle(r) PROVE TypeInv'
  BY <1>1, HandleTypeInv
<1>2. ASSUME NEW r \in Request, Cancel(r) PROVE TypeInv'
  BY <1>2 DEF Cancel, NoSave, Goto, TypeInv, TypeOK, PaymentKnown, Finished, Running
<1>3. ASSUME NEW r \in Request, Settle(r) PROVE TypeInv'
  BY <1>3 DEF Settle, locals, TypeInv, TypeOK, PaymentKnown, AuthState
<1>4. ASSUME NEW s \in Session, Crash(s) PROVE TypeInv'
  BY <1>4 DEF Crash, TypeInv, TypeOK, PaymentKnown, Finished, Running
<1>5. CASE Tick
  BY <1>5, ClientAssumption DEF Tick, locals, TypeInv, TypeOK, PaymentKnown
<1>6. CASE UNCHANGED vars
  BY <1>6 DEF vars, TypeInv, TypeOK, PaymentKnown
<1> QED
  BY <1>1, <1>2, <1>3, <1>4, <1>5, <1>6 DEF Next, Terminated

\* The state of every component keeps its type, whatever fails.
THEOREM TypeCorrect == Spec => []TypeOK
<1>1. TypeInv => TypeOK
  BY DEF TypeInv
<1> QED
  BY InitTypeInv, NextTypeInv, <1>1, PTL DEF Spec

-----------------------------------------------------------------------------
(* The budget. *)

\* What is charged is charged to requests that opened their payment and passed
\* the guard; such a request stays charged until it refunds.
ChargedAsOpened ==
  \A r \in Request :
    /\ charged[r] => /\ isNew[r]
                     /\ payment[r] \in Payment
                     /\ pc[r] \notin {"idle", "probing", "quoted", "reserved"}
    /\ isNew[r] /\ pc[r] \in {"signing", "paying"} => charged[r]
    /\ isNew[r] => pc[r] \notin {"idle", "probing", "quoted"}
    /\ pc[r] = "reserved" => isNew[r]

BudgetInv == BudgetIsExact /\ ChargedAsOpened

LEMMA ChargedFinite == \A s : IsFiniteSet(ChargedTo(s))
BY ClientAssumption, FS_Subset DEF ChargedTo

\* A step that neither charges nor refunds keeps the guard exact.
LEMMA BudgetFrame ==
  ASSUME TypeInv, BudgetIsExact, UNCHANGED <<spent, charged>>,
         \A r \in Request : charged[r] => payment'[r].amount = payment[r].amount
  PROVE  BudgetIsExact'
<1>1. \A s : ChargedTo(s)' = ChargedTo(s)
  BY DEF ChargedTo
<1>2. ChargedAmounts' = ChargedAmounts
  BY DEF ChargedAmounts
<1> QED
  BY <1>1, <1>2 DEF BudgetIsExact

\* Passing the guard adds the amount to what is charged.
LEMMA ChargeExact ==
  ASSUME TypeInv, BudgetInv, NEW r \in Request, ChargeBudget(r)
  PROVE  BudgetIsExact'
<1> DEFINE s == ClientOf[r]
<1>1. /\ s \in Session
      /\ payment[r] \in Payment
      /\ ~charged[r]
      /\ spent \in [Session -> Nat]
      /\ charged \in [Request -> BOOLEAN]
      /\ payment[r].amount \in 0..MaxAmount
  BY ClientAssumption
     DEF ChargeBudget, At, TypeInv, TypeOK, PaymentKnown, Running, BudgetInv,
         ChargedAsOpened, Payment
<1>2. /\ spent' = [spent EXCEPT ![s] = @ + payment[r].amount]
      /\ charged' = [charged EXCEPT ![r] = TRUE]
      /\ payment' = payment
      /\ spent[s] + payment[r].amount <= Budget
  BY DEF ChargeBudget, NoSave
<1>3. ChargedTo(s)' = ChargedTo(s) \cup {r}
  BY <1>1, <1>2 DEF ChargedTo
<1>4. r \notin ChargedTo(s)
  BY <1>1 DEF ChargedTo
<1>5. /\ ChargedAmounts'[r] = payment[r].amount
      /\ \A q \in Request : charged[q] => ChargedAmounts'[q] = ChargedAmounts[q]
  BY <1>1, <1>2 DEF ChargedAmounts
<1>6. Cardinality(Units(ChargedTo(s) \cup {r}, ChargedAmounts'))
        = Cardinality(Units(ChargedTo(s), ChargedAmounts')) + payment[r].amount
  <2>1. IsFiniteSet(ChargedTo(s)) /\ ChargedAmounts'[r] \in 0..MaxAmount
    BY <1>1, <1>5, ChargedFinite
  <2>2. Cardinality(Units(ChargedTo(s) \cup {r}, ChargedAmounts'))
          = Cardinality(Units(ChargedTo(s), ChargedAmounts')) + ChargedAmounts'[r]
    BY <1>4, <2>1, UnitsAdd
  <2> QED
    BY <1>5, <2>2
<1>7. \A t : Units(ChargedTo(t), ChargedAmounts') = Units(ChargedTo(t), ChargedAmounts)
  BY <1>5, UnitsAgree DEF ChargedTo
<1>8. \A t \in Session \ {s} : ChargedTo(t)' = ChargedTo(t) /\ spent'[t] = spent[t]
  BY <1>1, <1>2 DEF ChargedTo
<1>9. spent'[s] = spent[s] + payment[r].amount
  BY <1>1, <1>2
<1>10. \A t \in Session : /\ spent[t] = Cardinality(Units(ChargedTo(t), ChargedAmounts))
                          /\ spent[t] <= Budget
  BY DEF BudgetInv, BudgetIsExact
<1>11. ASSUME NEW t \in Session
       PROVE  /\ spent'[t] = Cardinality(Units(ChargedTo(t)', ChargedAmounts'))
              /\ spent'[t] <= Budget
  <2>1. CASE t = s
    BY <1>2, <1>3, <1>6, <1>7, <1>9, <1>10, <2>1
  <2>2. CASE t # s
    BY <1>7, <1>8, <1>10, <2>2
  <2> QED
    BY <2>1, <2>2
<1> QED
  BY <1>11 DEF BudgetIsExact

\* A refund takes back what was charged, and never meets its floor.
LEMMA RefundExact ==
  ASSUME TypeInv, BudgetInv, NEW r \in Request, charged[r], Refund(r),
         \A q \in Request : charged[q] => payment'[q].amount = payment[q].amount
  PROVE  BudgetIsExact'
<1> DEFINE s == ClientOf[r]
           S == ChargedTo(s) \ {r}
<1>1. /\ s \in Session
      /\ payment[r].amount \in 0..MaxAmount
      /\ spent \in [Session -> Nat]
      /\ charged \in [Request -> BOOLEAN]
  BY ClientAssumption DEF TypeInv, TypeOK, BudgetInv, ChargedAsOpened, Payment
<1>2. charged' = [charged EXCEPT ![r] = FALSE]
  BY DEF Refund
<1>3. ChargedTo(s)' = S
  BY <1>1, <1>2 DEF ChargedTo
<1>4. r \in ChargedTo(s)
  BY <1>1 DEF ChargedTo
<1>5. ChargedAmounts[r] = payment[r].amount
  BY DEF ChargedAmounts
<1>6. \A q \in Request : charged'[q] => ChargedAmounts'[q] = ChargedAmounts[q]
  BY <1>1, <1>2 DEF ChargedAmounts
<1>7. IsFiniteSet(S)
  BY ChargedFinite, FS_Subset
<1>8. Cardinality(Units(ChargedTo(s), ChargedAmounts))
        = Cardinality(Units(S, ChargedAmounts)) + payment[r].amount
  BY <1>1, <1>4, <1>5, ChargedFinite, UnitsRemove
<1>9. Cardinality(Units(S, ChargedAmounts)) \in Nat
  BY <1>7, UnitsFinite
<1>10. \A t : Units(ChargedTo(t)', ChargedAmounts') = Units(ChargedTo(t)', ChargedAmounts)
  BY <1>6, UnitsAgree DEF ChargedTo
<1>11. \A t \in Session : /\ spent[t] = Cardinality(Units(ChargedTo(t), ChargedAmounts))
                          /\ spent[t] <= Budget
  BY DEF BudgetInv, BudgetIsExact
<1>12. \A t \in Session \ {s} : ChargedTo(t)' = ChargedTo(t) /\ spent'[t] = spent[t]
  BY <1>1, <1>2 DEF ChargedTo, Refund
<1>13. spent[s] = Cardinality(Units(S, ChargedAmounts)) + payment[r].amount
  BY <1>1, <1>8, <1>11
<1>14. /\ spent'[s] = Cardinality(Units(S, ChargedAmounts))
       /\ spent'[s] <= spent[s]
  BY <1>1, <1>9, <1>13 DEF Refund
<1>15. ASSUME NEW t \in Session
       PROVE  /\ spent'[t] = Cardinality(Units(ChargedTo(t)', ChargedAmounts'))
              /\ spent'[t] <= Budget
  <2>1. CASE t = s
    <3>1. spent'[t] <= Budget
      BY <1>1, <1>9, <1>11, <1>14, <2>1, ClientAssumption
    <3> QED
      BY <1>3, <1>10, <1>14, <2>1, <3>1
  <2>2. CASE t # s
    BY <1>10, <1>11, <1>12, <2>2
  <2> QED
    BY <2>1, <2>2
<1> QED
  BY <1>15 DEF BudgetIsExact

\* A save changes the status of a payment, never its amount.
LEMMA SaveKeepsTerms ==
  ASSUME TypeInv, NEW r \in Request, payment[r] \in Payment, NEW status, NEW next,
         Save(r, status, next)
  PROVE  /\ \A q \in Request \ {r} : payment'[q] = payment[q] /\ pc'[q] = pc[q]
         /\ payment'[r].amount = payment[r].amount
         /\ payment'[r].payment_id = payment[r].payment_id
         /\ payment'[r].resource = payment[r].resource
         /\ payment'[r].created_at = payment[r].created_at
         /\ payment'[r].status = status
         /\ pc'[r] \in {next, "error"}
BY DEF Save, Goto, TypeInv, TypeOK, Payment

LEMMA InitBudgetInv == Init => BudgetInv
<1> SUFFICES ASSUME Init PROVE BudgetInv
  OBVIOUS
<1>1. ChargedAsOpened
  BY DEF Init, ChargedAsOpened
<1>2. \A s : Units(ChargedTo(s), ChargedAmounts) = {}
  BY DEF Init, ChargedTo, Units
<1>3. \A s : Cardinality(Units(ChargedTo(s), ChargedAmounts)) = 0
  BY <1>2, FS_EmptySet
<1>4. BudgetIsExact
  BY <1>3, ClientAssumption DEF Init, BudgetIsExact
<1> QED
  BY <1>1, <1>4 DEF BudgetInv

\* Each step of a handler keeps the budget invariant.
LEMMA HandleBudgetInv ==
  ASSUME TypeInv, BudgetInv, NEW r \in Request, Handle(r)
  PROVE  BudgetInv'
<1>1. ASSUME UNCHANGED <<spent, charged>>,
             \A q \in Request : charged[q] => payment'[q].amount = payment[q].amount
      PROVE  BudgetIsExact'
  BY <1>1, BudgetFrame DEF BudgetInv
<1>2. /\ pc \in [Request -> {"idle"} \cup Suspended \cup Finished]
      /\ payment \in [Request -> Payment \cup {NoPayment}]
      /\ isNew \in [Request -> BOOLEAN]
      /\ charged \in [Request -> BOOLEAN]
      /\ pc[r] \in Running => payment[r] \in Payment
      /\ ChargedAsOpened
  BY DEF TypeInv, TypeOK, PaymentKnown, BudgetInv
<1>3. ASSUME \/ Replay(r) \/ Probe(r) \/ NothingToPay(r) \/ CacheResponse(r)
      PROVE  BudgetInv'
  <2>1. UNCHANGED <<spent, charged, payment, isNew>>
    BY <1>3 DEF Replay, Probe, NothingToPay, CacheResponse, NoSave
  <2>2. ChargedAsOpened'
    BY <1>2, <1>3, <2>1
       DEF Replay, Probe, NothingToPay, CacheResponse, NoSave, Goto, At, ChargedAsOpened
  <2> QED
    BY <1>1, <2>1, <2>2 DEF BudgetInv
<1>4. CASE Quote(r)
  <2>1. ~charged[r] /\ UNCHANGED <<spent, charged, isNew>>
    BY <1>2, <1>4 DEF Quote, At, ChargedAsOpened
  <2>2. \A q \in Request \ {r} : payment'[q] = payment[q]
    BY <1>2, <1>4 DEF Quote
  <2>3. ChargedAsOpened'
    BY <1>2, <1>4, <2>1, <2>2 DEF Quote, Goto, At, ChargedAsOpened
  <2> QED
    BY <1>1, <2>1, <2>2, <2>3 DEF BudgetInv
<1>5. ASSUME NEW j, At(r, "quoted"), Admit(r, j), UNCHANGED <<spent, charged>>
      PROVE  BudgetInv'
  <2>1. ~charged[r] /\ ~isNew[r]
    BY <1>2, <1>5 DEF At, ChargedAsOpened
  <2>2. /\ pc'[r] \in {"refused", "reserved", "signing"}
        /\ isNew'[r] <=> pc'[r] = "reserved"
        /\ \A q \in Request \ {r} : /\ payment'[q] = payment[q]
                                     /\ isNew'[q] = isNew[q]
                                     /\ pc'[q] = pc[q]
    BY <1>2, <1>5, <2>1 DEF Admit, Goto
  <2>3. ChargedAsOpened'
    BY <1>2, <1>5, <2>1, <2>2 DEF ChargedAsOpened
  <2> QED
    BY <1>1, <1>5, <2>1, <2>2, <2>3 DEF BudgetInv
<1>6. CASE Reserve(r)
  BY <1>5, <1>6 DEF Reserve
<1>7. CASE ReserveUnavailable(r)
  <2>1. CASE Goto(r, "error") /\ UNCHANGED <<fallback, payment, isNew>>
    <3>1. UNCHANGED <<spent, charged>>
      BY <1>7 DEF ReserveUnavailable
    <3>2. ChargedAsOpened'
      BY <1>2, <1>7, <2>1, <3>1 DEF ReserveUnavailable, At, Goto, ChargedAsOpened
    <3> QED
      BY <1>1, <2>1, <3>1, <3>2 DEF BudgetInv
  <2>2. CASE Admit(r, fallback[ClientOf[r]])
    BY <1>5, <1>7, <2>2 DEF ReserveUnavailable
  <2> QED
    BY <1>7, <2>1, <2>2 DEF ReserveUnavailable
<1>8. CASE ChargeBudget(r)
  <2>1. ChargedAsOpened'
    BY <1>2, <1>8 DEF ChargeBudget, NoSave, At, Goto, ChargedAsOpened, Running, TypeInv, TypeOK
  <2> QED
    BY <1>8, <2>1, ChargeExact DEF BudgetInv
<1>9. ASSUME payment[r] \in Payment,
             pc[r] \in {"reserved", "signing", "paying"},
             NEW status \in PaymentStatus, NEW next,
             next \in {"blocked", "paying", "caching", "paid", "unknown", "failed"},
             pc[r] = "reserved" => next = "blocked",
             Save(r, status, next), UNCHANGED <<spent, charged, isNew>>
      PROVE  BudgetInv'
  <2>1. \A q \in Request : payment'[q].amount = payment[q].amount
    BY <1>9, SaveKeepsTerms
  <2>2. payment'[r] \in Payment
    BY <1>9, <1>2 DEF Save, Payment, PaymentStatus
  <2>3. ChargedAsOpened'
    <3>1. /\ \A q \in Request \ {r} : payment'[q] = payment[q] /\ pc'[q] = pc[q]
          /\ pc'[r] \in {next, "error"}
      BY <1>9, SaveKeepsTerms
    <3> QED
      BY <1>2, <1>9, <2>2, <3>1 DEF ChargedAsOpened
  <2> QED
    BY <1>1, <1>9, <2>1, <2>3 DEF BudgetInv
<1>10. ASSUME pc[r] \in {"signing", "paying"}, NEW next, next \in {"failed", "paying", "unknown"},
              NoSave(r, next), UNCHANGED <<spent, charged, isNew>>
       PROVE  BudgetInv'
  <2>1. ChargedAsOpened'
    BY <1>2, <1>10 DEF NoSave, Goto, ChargedAsOpened
  <2> QED
    BY <1>1, <1>10, <2>1 DEF BudgetInv, NoSave
<1>11. ASSUME pc[r] \in {"signing", "paying"}, isNew[r],
              Refund(r), Save(r, "failed", "failed"), UNCHANGED isNew
       PROVE  BudgetInv'
  <2>1. charged[r] /\ payment[r] \in Payment
    BY <1>2, <1>11 DEF ChargedAsOpened
  <2>2. /\ \A q \in Request \ {r} : payment'[q] = payment[q] /\ pc'[q] = pc[q]
        /\ payment'[r].amount = payment[r].amount
        /\ pc'[r] \in {"failed", "error"}
    BY <1>11, <2>1, SaveKeepsTerms
  <2>3. BudgetIsExact'
    BY <1>11, <2>1, <2>2, RefundExact
  <2>4. charged' = [charged EXCEPT ![r] = FALSE]
    BY <1>11 DEF Refund
  <2>5. ChargedAsOpened'
    BY <1>2, <1>11, <2>2, <2>4 DEF ChargedAsOpened
  <2> QED
    BY <2>3, <2>5 DEF BudgetInv
<1>12. CASE BlockOnBudget(r)
  BY <1>2, <1>9, <1>12 DEF BlockOnBudget, At, Running, PaymentStatus
<1>13. CASE SignFails(r)
  BY <1>2, <1>10, <1>11, <1>13 DEF SignFails, At
<1>14. CASE SignAndSend(r)
  BY <1>2, <1>9, <1>10, <1>14 DEF SignAndSend, At, Running, PaymentStatus
<1>15. CASE PaidSuccess(r)
  BY <1>2, <1>9, <1>15 DEF PaidSuccess, At, Running, PaymentStatus
<1>16. CASE PaidRejected(r)
  <2>1. CASE isNew[r]
    BY <1>11, <1>16, <2>1 DEF PaidRejected, At
  <2>2. CASE ~isNew[r]
    BY <1>2, <1>9, <1>16, <2>2 DEF PaidRejected, At, Running, PaymentStatus
  <2> QED
    BY <2>1, <2>2
<1>17. CASE PaidAmbiguous(r)
  BY <1>2, <1>9, <1>17 DEF PaidAmbiguous, At, Running, PaymentStatus
<1>18. CASE PaidLost(r)
  BY <1>2, <1>9, <1>10, <1>18 DEF PaidLost, At, Running, PaymentStatus
<1> QED
  BY <1>3, <1>4, <1>6, <1>7, <1>8, <1>12, <1>13, <1>14, <1>15, <1>16, <1>17, <1>18 DEF Handle

LEMMA NextBudgetInv == TypeInv /\ BudgetInv /\ [Next]_vars => BudgetInv'
<1> SUFFICES ASSUME TypeInv, BudgetInv, [Next]_vars PROVE BudgetInv'
  OBVIOUS
<1>1. ASSUME NEW r \in Request, Handle(r) PROVE BudgetInv'
  BY <1>1, HandleBudgetInv
<1>2. ASSUME UNCHANGED <<spent, charged, payment, isNew>>,
             \A r \in Request : pc'[r] = pc[r] \/ pc'[r] = "dead"
      PROVE  BudgetInv'
  <2>1. BudgetIsExact'
    BY <1>2, BudgetFrame DEF BudgetInv
  <2>2. ChargedAsOpened'
    BY <1>2 DEF BudgetInv, ChargedAsOpened
  <2> QED
    BY <2>1, <2>2 DEF BudgetInv
<1>3. ASSUME NEW r \in Request, Cancel(r) PROVE BudgetInv'
  BY <1>2, <1>3 DEF Cancel, NoSave, Goto, TypeInv, TypeOK
<1>4. ASSUME NEW r \in Request, Settle(r) PROVE BudgetInv'
  BY <1>2, <1>4 DEF Settle, locals
<1>5. ASSUME NEW s \in Session, Crash(s) PROVE BudgetInv'
  BY <1>2, <1>5 DEF Crash
<1>6. CASE Tick
  BY <1>2, <1>6 DEF Tick, locals
<1>7. CASE UNCHANGED vars
  BY <1>2, <1>7 DEF vars
<1> QED
  BY <1>1, <1>3, <1>4, <1>5, <1>6, <1>7 DEF Next, Terminated

\* The budget guard's total is exactly what is charged, and is never exceeded,
\* for any number of sessions and requests, with or without store failures.
THEOREM BudgetExact == Spec => []BudgetIsExact
<1>1. Init => TypeInv /\ BudgetInv
  BY InitTypeInv, InitBudgetInv
<1>2. TypeInv /\ BudgetInv /\ [Next]_vars => (TypeInv /\ BudgetInv)'
  BY NextTypeInv, NextBudgetInv
<1>3. TypeInv /\ BudgetInv => BudgetIsExact
  BY DEF BudgetInv
<1> QED
  BY <1>1, <1>2, <1>3, PTL DEF Spec

-----------------------------------------------------------------------------
(* The journal, when callers use an ID in one live request at a time and the *)
(* policy fails closed.                                                     *)

\* Past the reservation a handler works on a row of the journal.
Active == {"reserved", "signing", "paying", "caching"}

HolderAlone ==
  \A q, r \in Request :
    /\ pc[q] \in Running /\ pc[r] \in Running
    /\ payment[q].payment_id = payment[r].payment_id
    => q = r

CopyIsRow ==
  \A r \in Request : pc[r] \in Active =>
    /\ payment[r].payment_id \in DOMAIN journal
    /\ journal[payment[r].payment_id] = payment[r]

StatusAt(r) ==
  /\ pc[r] = "quoted" => payment[r].status = "pending"
  /\ pc[r] \in {"reserved", "signing", "paying"} => payment[r].status \in CommittedStatuses
  /\ isNew[r] /\ pc[r] \in {"reserved", "signing"} => payment[r].status = "pending"
  /\ isNew[r] /\ pc[r] = "paying" => payment[r].status = "authorized"
StatusByPlace == \A r \in Request : StatusAt(r)

SentLater ==
  \A r \in Request : auth[r] # "none" =>
    /\ pc[r] \notin {"idle", "probing", "quoted", "reserved", "signing"}
    /\ payment[r] \in Payment

\* Until its handler is through, a new payment has no other authorization.
SentByOpener ==
  \A q, r \in Request :
    /\ isNew[q] /\ pc[q] \in {"reserved", "signing", "paying"}
    /\ auth[r] \in {"sent", "settled"} /\ payment[r].payment_id = payment[q].payment_id
    => q = r

RowsInv ==
  /\ HolderAlone /\ CopyIsRow /\ StatusByPlace /\ SentLater /\ SentByOpener
  /\ ClosedMeansUnpayable /\ LimitsHold

Inv == TypeInv /\ BudgetInv /\ RowsInv

\* What a save does to a row that the handler holds.
LEMMA SaveEffect ==
  ASSUME TypeInv, FailClosed, CopyIsRow, NEW r \in Request, pc[r] \in Active,
         NEW status \in PaymentStatus, NEW next, Save(r, status, next)
  PROVE  /\ payment[r] \in Payment /\ payment'[r] \in Payment
         /\ \A q \in Request \ {r} : payment'[q] = payment[q] /\ pc'[q] = pc[q]
         /\ payment'[r] = [payment[r] EXCEPT !.status = status]
         /\ \/ pc'[r] = next /\ journal' = Put(journal, payment'[r])
            \/ pc'[r] = "error" /\ journal' = journal
<1>1. payment[r] \in Payment
  BY DEF Active, Running, TypeInv, PaymentKnown
<1>2. payment'[r] = [payment[r] EXCEPT !.status = status]
  BY DEF Save, TypeInv, TypeOK
<1>3. payment'[r] \in Payment
  BY <1>1, <1>2 DEF Payment
<1>4. \A q \in Request \ {r} : payment'[q] = payment[q] /\ pc'[q] = pc[q]
  BY DEF Save, Goto, TypeInv, TypeOK
<1>5. \/ pc'[r] = next /\ journal' = Put(journal, payment'[r])
      \/ pc'[r] = "error" /\ journal' = journal
  BY <1>2 DEF Save, Goto, TypeInv, TypeOK
<1> QED
  BY <1>1, <1>2, <1>3, <1>4, <1>5

\* A save keeps the invariant if it closes no payment that may be paid.
LEMMA SaveKeepsRows ==
  ASSUME Inv, FailClosed, NEW r \in Request, pc[r] \in {"reserved", "signing", "paying"},
         NEW status \in PaymentStatus, NEW next \in (Finished \ {"error"}) \cup {"paying", "caching"},
         Save(r, status, next), UNCHANGED <<now, isNew>>,
         \A q \in Request \ {r} : auth'[q] = auth[q],
         \/ auth'[r] \in {auth[r], "rejected"}
         \/ auth'[r] = "sent" /\ pc'[r] = "paying",
         status \in ClosedStatuses =>
           \A q \in Request : auth'[q] \in {"sent", "settled"} =>
             payment[q].payment_id # payment[r].payment_id,
         next = "paying" => /\ status \in CommittedStatuses
                            /\ isNew[r] => status = "authorized"
  PROVE  RowsInv'
<1> DEFINE id == payment[r].payment_id
<1>1. /\ payment[r] \in Payment /\ payment'[r] \in Payment
      /\ \A q \in Request \ {r} : payment'[q] = payment[q] /\ pc'[q] = pc[q]
      /\ payment'[r] = [payment[r] EXCEPT !.status = status]
      /\ \/ pc'[r] = next /\ journal' = Put(journal, payment'[r])
         \/ pc'[r] = "error" /\ journal' = journal
  BY SaveEffect DEF Inv, RowsInv, Active
<1>2. /\ payment'[r].payment_id = id
      /\ payment'[r].status = status
      /\ SameLogicalPayment(payment[r], payment'[r])
      /\ payment'[r].created_at = payment[r].created_at
  BY <1>1 DEF SameLogicalPayment, Payment
<1>3. id \in DOMAIN journal /\ journal[id] = payment[r]
  BY DEF Inv, RowsInv, CopyIsRow, Active
<1>4. /\ DOMAIN journal' = DOMAIN journal
      /\ \A i \in DOMAIN journal \ {id} : journal'[i] = journal[i]
      /\ pc'[r] = next => journal'[id] = payment'[r]
      /\ pc'[r] # next => journal'[id] = journal[id] /\ pc'[r] = "error"
  <2>1. CASE pc'[r] = next /\ journal' = Put(journal, payment'[r])
    BY <1>2, <1>3, <2>1 DEF Put
  <2>2. CASE pc'[r] = "error" /\ journal' = journal
    <3>1. pc'[r] # next
      BY <2>2
    <3> QED
      BY <2>2, <3>1
  <2> QED
    BY <1>1, <2>1, <2>2
<1>5. /\ HolderAlone /\ CopyIsRow /\ StatusByPlace /\ SentLater /\ SentByOpener
      /\ ClosedMeansUnpayable /\ LimitsHold /\ ChargedAsOpened
      /\ IsJournal(journal)
      /\ PaymentKnown
  BY DEF Inv, RowsInv, BudgetInv, TypeInv, TypeOK
<1>6. /\ pc'[r] \in Finished \cup {"paying", "caching"}
      /\ \A q \in Request : pc'[q] \in Running => pc[q] \in Running
      /\ \A q \in Request : payment'[q].payment_id = payment[q].payment_id
  BY <1>1, <1>2 DEF Finished, Running
<1>7. HolderAlone'
  BY <1>5, <1>6 DEF HolderAlone
<1>8. CopyIsRow'
  <2>1. ASSUME NEW q \in Request, q # r, pc'[q] \in Active
        PROVE  /\ payment[q].payment_id \in DOMAIN journal'
               /\ journal'[payment[q].payment_id] = payment[q]
    <3>1. payment[q].payment_id # id
      BY <1>1, <1>5, <2>1 DEF HolderAlone, Active, Running
    <3>2. /\ payment[q].payment_id \in DOMAIN journal
          /\ journal[payment[q].payment_id] = payment[q]
      BY <1>1, <1>5, <2>1 DEF CopyIsRow
    <3> QED
      BY <1>4, <3>1, <3>2
  <2>2. pc'[r] \in Active => id \in DOMAIN journal' /\ journal'[id] = payment'[r]
    BY <1>3, <1>4 DEF Active
  <2>3. ASSUME NEW q \in Request, pc'[q] \in Active
        PROVE  /\ payment'[q].payment_id \in DOMAIN journal'
               /\ journal'[payment'[q].payment_id] = payment'[q]
    <3>1. CASE q = r
      BY <1>2, <2>2, <2>3, <3>1
    <3>2. CASE q # r
      <4>1. payment'[q] = payment[q]
        BY <1>1, <3>2
      <4> QED
        BY <2>1, <2>3, <3>2, <4>1
    <3> QED
      BY <3>1, <3>2
  <2> QED
    BY <2>3 DEF CopyIsRow
<1>9. StatusByPlace'
  <2>1. ASSUME NEW q \in Request, q # r
        PROVE  StatusAt(q)'
    BY <1>1, <1>5, <2>1 DEF StatusByPlace, StatusAt
  <2>2. pc'[r] = "paying" => next = "paying"
    BY <1>1
  <2>3. StatusAt(r)'
    BY <1>2, <1>6, <2>2 DEF Finished, StatusAt
  <2> QED
    BY <2>1, <2>3 DEF StatusByPlace
<1>10. SentLater'
  BY <1>1, <1>5, <1>6 DEF SentLater, Finished
<1>11. SentByOpener'
  <2> SUFFICES ASSUME NEW q \in Request, NEW z \in Request,
                      isNew[q], pc'[q] \in {"reserved", "signing", "paying"},
                      auth'[z] \in {"sent", "settled"},
                      payment'[z].payment_id = payment'[q].payment_id
               PROVE  q = z
    BY DEF SentByOpener
  <2>1. payment[z].payment_id = payment[q].payment_id
    BY <1>6
  <2>2. pc[q] \in {"reserved", "signing", "paying"}
    <3>1. CASE q = r
      BY <3>1
    <3>2. CASE q # r
      BY <1>1, <3>2
    <3> QED
      BY <3>1, <3>2
  <2>3. CASE auth[z] \in {"sent", "settled"}
    BY <1>5, <2>1, <2>2, <2>3 DEF SentByOpener
  <2>4. CASE auth[z] \notin {"sent", "settled"}
    BY <1>5, <2>1, <2>2, <2>4 DEF HolderAlone, Running
  <2> QED
    BY <2>3, <2>4
<1>12. ClosedMeansUnpayable'
  <2> SUFFICES ASSUME NEW z \in Request, auth'[z] \in {"sent", "settled"}
               PROVE  /\ payment'[z].payment_id \in DOMAIN journal'
                      /\ journal'[payment'[z].payment_id].status \in CommittedStatuses
    BY DEF ClosedMeansUnpayable
  <2>1. payment'[z].payment_id = payment[z].payment_id
    BY <1>6
  <2>2. CASE payment[z].payment_id # id
    BY <1>2, <1>4, <1>5, <2>1, <2>2 DEF ClosedMeansUnpayable
  <2>3. CASE payment[z].payment_id = id /\ pc'[r] = next
    <3>1. status \in CommittedStatuses
      BY <2>3 DEF PaymentStatus, CommittedStatuses, ClosedStatuses
    <3> QED
      BY <1>2, <1>3, <1>4, <2>1, <2>3, <3>1
  <2>4. CASE payment[z].payment_id = id /\ pc'[r] # next
    BY <1>3, <1>4, <1>5, <2>1, <2>4 DEF StatusByPlace, StatusAt
  <2> QED
    BY <2>2, <2>3, <2>4
<1>13. LimitsHold'
  <2>1. CASE journal' = journal
    BY <1>5, <2>1 DEF LimitsHold
  <2>2. CASE journal' = Put(journal, payment'[r])
    <3>1. /\ journal[id].status \in CommittedStatuses
          /\ SameLogicalPayment(journal[id], payment'[r])
          /\ journal[id].created_at = payment'[r].created_at
      BY <1>2, <1>3, <1>5 DEF StatusByPlace, StatusAt
    <3> QED
      BY <1>1, <1>2, <1>3, <1>5, <2>2, <3>1, LimitsAfterSave DEF LimitsHold
  <2> QED
    BY <1>1, <2>1, <2>2
<1> QED
  BY <1>7, <1>8, <1>9, <1>10, <1>11, <1>12, <1>13 DEF RowsInv

\* A step that touches no payment and at most ends handlers.
LEMMA QuietKeepsRows ==
  ASSUME Inv, UNCHANGED <<now, journal, payment, isNew, auth>>,
         \A q \in Request : \/ pc'[q] = pc[q]
                            \/ pc'[q] \in Finished
                            \/ pc[q] = "idle" /\ pc'[q] = "probing"
                            \/ pc[q] = "reserved" /\ pc'[q] = "signing"
  PROVE  RowsInv'
<1>1. /\ HolderAlone /\ CopyIsRow /\ StatusByPlace /\ SentLater /\ SentByOpener
      /\ ClosedMeansUnpayable /\ LimitsHold
  BY DEF Inv, RowsInv
<1>2. \A q \in Request : /\ pc'[q] \in Running => pc[q] \in Running
                         /\ pc'[q] \in Active => pc[q] \in Active
  BY DEF Finished, Running, Active
<1>3. HolderAlone' /\ CopyIsRow'
  BY <1>1, <1>2 DEF HolderAlone, CopyIsRow
<1>4. StatusByPlace'
  BY <1>1 DEF StatusByPlace, StatusAt, Finished
<1>5. SentLater'
  BY <1>1 DEF SentLater, Finished
<1>6. SentByOpener'
  BY <1>1 DEF SentByOpener, Finished
<1>7. ClosedMeansUnpayable' /\ LimitsHold'
  BY <1>1 DEF ClosedMeansUnpayable, LimitsHold
<1> QED
  BY <1>3, <1>4, <1>5, <1>6, <1>7 DEF RowsInv

\* The quote takes an ID that no live request holds.
LEMMA QuoteKeepsRows ==
  ASSUME Inv, SerialIds, NEW r \in Request, Quote(r)
  PROVE  RowsInv'
<1>1. /\ HolderAlone /\ CopyIsRow /\ StatusByPlace /\ SentLater /\ SentByOpener
      /\ ClosedMeansUnpayable /\ LimitsHold /\ ChargedAsOpened /\ PaymentKnown
      /\ pc \in [Request -> {"idle"} \cup Suspended \cup Finished]
      /\ payment \in [Request -> Payment \cup {NoPayment}]
  BY DEF Inv, RowsInv, BudgetInv, TypeInv, TypeOK
<1>2. PICK id \in PayId, amount \in Quotes :
        /\ \A q \in Request : ~Holds(q, id)
        /\ payment' = [payment EXCEPT ![r] =
             [payment_id |-> id, resource |-> ResourceOf[r], amount |-> amount,
              status |-> "pending", created_at |-> now]]
  BY DEF Quote
<1>3. /\ pc[r] = "probing"
      /\ pc' = [pc EXCEPT ![r] = "quoted"]
      /\ UNCHANGED <<now, journal, isNew, auth>>
      /\ payment'[r].payment_id = id /\ payment'[r].status = "pending"
      /\ \A q \in Request \ {r} : payment'[q] = payment[q] /\ pc'[q] = pc[q]
  BY <1>1, <1>2 DEF Quote, At, Goto
<1>4. auth[r] = "none" /\ ~isNew[r]
  BY <1>1, <1>3 DEF SentLater, ChargedAsOpened
<1>5. \A q \in Request : pc[q] \in Running => payment[q].payment_id # id
  BY <1>1, <1>2, ClientAssumption DEF Holds, PaymentKnown, Running, Suspended
<1>6. HolderAlone'
  BY <1>1, <1>3, <1>5 DEF HolderAlone
<1>7. CopyIsRow' /\ SentLater'
  BY <1>1, <1>3, <1>4 DEF CopyIsRow, SentLater, Active
<1>8. StatusByPlace'
  BY <1>1, <1>3, <1>4 DEF StatusByPlace, StatusAt
<1>9. SentByOpener'
  BY <1>1, <1>3, <1>4 DEF SentByOpener
<1>10. ClosedMeansUnpayable' /\ LimitsHold'
  BY <1>1, <1>3, <1>4 DEF ClosedMeansUnpayable, LimitsHold
<1> QED
  BY <1>6, <1>7, <1>8, <1>9, <1>10 DEF RowsInv

\* reserve() opens a row no one holds, or hands out the row as it is.
LEMMA ReserveKeepsRows ==
  ASSUME Inv, NEW r \in Request, Reserve(r)
  PROVE  RowsInv'
<1> DEFINE p == payment[r]
           id == p.payment_id
<1>1. /\ HolderAlone /\ CopyIsRow /\ StatusByPlace /\ SentLater /\ SentByOpener
      /\ ClosedMeansUnpayable /\ LimitsHold /\ ChargedAsOpened /\ PaymentKnown
      /\ pc \in [Request -> {"idle"} \cup Suspended \cup Finished]
      /\ payment \in [Request -> Payment \cup {NoPayment}]
      /\ isNew \in [Request -> BOOLEAN]
      /\ IsJournal(journal)
      /\ now \in Nat
  BY ClientAssumption DEF Inv, RowsInv, BudgetInv, TypeInv, TypeOK
<1>2. /\ pc[r] = "quoted" /\ UNCHANGED <<now, auth>>
      /\ journal' = AfterReserve(journal, p, now)
      /\ Admit(r, journal)
      /\ p \in Payment /\ ~isNew[r] /\ auth[r] = "none" /\ p.status = "pending"
  BY <1>1 DEF Reserve, At, PaymentKnown, Running, ChargedAsOpened, SentLater,
              StatusByPlace, StatusAt
<1>3. CASE Refuses(journal, p, now) /\ Goto(r, "refused") /\ UNCHANGED <<payment, isNew>>
  <2>1. journal' = journal
    BY <1>2, <1>3 DEF Refuses, AfterReserve
  <2>2. \A q \in Request : pc'[q] = pc[q] \/ pc'[q] \in Finished
    BY <1>1, <1>3 DEF Goto, Finished
  <2> QED
    BY <1>2, <1>3, <2>1, <2>2, QuietKeepsRows
<1>4. CASE /\ Opens(journal, p, now)
           /\ Goto(r, "reserved")
           /\ isNew' = [isNew EXCEPT ![r] = TRUE]
           /\ UNCHANGED payment
  <2>1. /\ id \notin DOMAIN journal
        /\ DOMAIN journal' = DOMAIN journal \cup {id}
        /\ journal'[id] = p
        /\ \A i \in DOMAIN journal : journal'[i] = journal[i]
        /\ journal' = Put(journal, p)
    BY <1>2, <1>4 DEF AfterReserve, Opens, Put
  <2>2. /\ pc'[r] = "reserved"
        /\ \A q \in Request \ {r} : pc'[q] = pc[q] /\ isNew'[q] = isNew[q]
    BY <1>1, <1>4 DEF Goto
  <2>3. HolderAlone'
    BY <1>1, <1>2, <1>4, <2>2 DEF HolderAlone, Running
  <2>4. CopyIsRow'
    BY <1>1, <1>4, <2>1, <2>2 DEF CopyIsRow
  <2>5. StatusByPlace' /\ SentLater'
    BY <1>1, <1>2, <1>4, <2>2 DEF StatusByPlace, StatusAt, SentLater, CommittedStatuses
  <2>6. \A z \in Request : auth[z] \in {"sent", "settled"} => payment[z].payment_id # id
    BY <1>1, <2>1 DEF ClosedMeansUnpayable
  <2>7. SentByOpener'
    BY <1>1, <1>2, <1>4, <2>2, <2>6 DEF SentByOpener
  <2>8. ClosedMeansUnpayable'
    BY <1>1, <1>2, <1>4, <2>1 DEF ClosedMeansUnpayable
  <2>9. LimitsHold'
    BY <1>1, <1>2, <1>4, <2>1, LimitsAfterOpen DEF LimitsHold
  <2> QED
    BY <2>3, <2>4, <2>5, <2>7, <2>8, <2>9 DEF RowsInv
<1>5. CASE /\ Resumes(journal, p)
           /\ payment' = [payment EXCEPT ![r] = journal[id]]
           /\ Goto(r, IF p.resource \in SupportsId THEN "signing" ELSE "refused")
           /\ UNCHANGED isNew
  <2>1. /\ id \in DOMAIN journal
        /\ journal' = journal
        /\ journal[id].status \in CommittedStatuses
        /\ journal[id].payment_id = id
        /\ journal[id] \in Payment
    BY <1>1, <1>2, <1>5
       DEF AfterReserve, Opens, Resumes, IsJournal, Payment, PaymentStatus, ClosedStatuses,
           CommittedStatuses
  <2>2. /\ pc'[r] \in {"signing", "refused"}
        /\ payment'[r] = journal[id]
        /\ \A q \in Request \ {r} : pc'[q] = pc[q] /\ payment'[q] = payment[q]
    BY <1>1, <1>5 DEF Goto
  <2>3. \A q \in Request : /\ payment'[q].payment_id = payment[q].payment_id
                           /\ pc'[q] \in Running => pc[q] \in Running
    BY <1>2, <2>1, <2>2 DEF Running
  <2>4. HolderAlone'
    BY <1>1, <2>3 DEF HolderAlone
  <2>5. CopyIsRow'
    BY <1>1, <2>1, <2>2 DEF CopyIsRow
  <2>6. StatusByPlace' /\ SentLater'
    BY <1>1, <1>2, <1>5, <2>1, <2>2 DEF StatusByPlace, StatusAt, SentLater
  <2>7. SentByOpener'
    BY <1>1, <1>2, <1>5, <2>2, <2>3 DEF SentByOpener
  <2>8. ClosedMeansUnpayable' /\ LimitsHold'
    BY <1>1, <1>2, <2>1, <2>3 DEF ClosedMeansUnpayable, LimitsHold
  <2> QED
    BY <2>4, <2>5, <2>6, <2>7, <2>8 DEF RowsInv
<1> QED
  BY <1>2, <1>3, <1>4, <1>5 DEF Admit

\* An authorization that is sent without a save: the payment was resumed.
LEMMA ResendKeepsRows ==
  ASSUME Inv, NEW r \in Request, SignAndSend(r), payment[r].status # "pending"
  PROVE  RowsInv'
<1>1. /\ HolderAlone /\ CopyIsRow /\ StatusByPlace /\ SentLater /\ SentByOpener
      /\ ClosedMeansUnpayable /\ LimitsHold /\ PaymentKnown
      /\ pc \in [Request -> {"idle"} \cup Suspended \cup Finished]
      /\ auth \in [Request -> AuthState]
  BY DEF Inv, RowsInv, TypeInv, TypeOK
<1>2. /\ pc[r] = "signing" /\ pc'[r] = "paying" /\ auth'[r] = "sent"
      /\ \A q \in Request \ {r} : pc'[q] = pc[q] /\ auth'[q] = auth[q]
      /\ UNCHANGED <<now, journal, payment, isNew>>
  BY <1>1 DEF SignAndSend, NoSave, Goto, At
<1>3. /\ payment[r] \in Payment /\ ~isNew[r]
      /\ payment[r].payment_id \in DOMAIN journal
      /\ journal[payment[r].payment_id] = payment[r]
      /\ payment[r].status \in CommittedStatuses
  BY <1>1, <1>2
     DEF PaymentKnown, Running, StatusByPlace, StatusAt, CopyIsRow, Active
<1>4. HolderAlone' /\ CopyIsRow'
  BY <1>1, <1>2 DEF HolderAlone, CopyIsRow, Running, Active
<1>5. StatusByPlace' /\ SentLater'
  BY <1>1, <1>2, <1>3 DEF StatusByPlace, StatusAt, SentLater
<1>6. SentByOpener'
  <2> SUFFICES ASSUME NEW q \in Request, NEW z \in Request,
                      isNew[q], pc'[q] \in {"reserved", "signing", "paying"},
                      auth'[z] \in {"sent", "settled"},
                      payment[z].payment_id = payment[q].payment_id
               PROVE  q = z
    BY <1>2 DEF SentByOpener
  <2>1. q # r /\ pc[q] \in {"reserved", "signing", "paying"}
    BY <1>2, <1>3
  <2>2. CASE z = r
    BY <1>1, <1>2, <2>1, <2>2 DEF HolderAlone, Running
  <2>3. CASE z # r
    BY <1>1, <1>2, <2>1, <2>3 DEF SentByOpener
  <2> QED
    BY <2>2, <2>3
<1>7. ClosedMeansUnpayable' /\ LimitsHold'
  BY <1>1, <1>2, <1>3 DEF ClosedMeansUnpayable, LimitsHold
<1> QED
  BY <1>4, <1>5, <1>6, <1>7 DEF RowsInv

\* Every step of a handler keeps the rows.
LEMMA HandleRows ==
  ASSUME Inv, SerialIds, FailClosed, NEW r \in Request, Handle(r)
  PROVE  RowsInv'
<1>1. /\ pc \in [Request -> {"idle"} \cup Suspended \cup Finished]
      /\ auth \in [Request -> AuthState]
      /\ StatusAt(r)
      /\ pc[r] \in {"idle", "probing", "quoted", "reserved", "signing"} => auth[r] = "none"
      /\ \A q \in Request :
           /\ isNew[r] /\ pc[r] \in {"reserved", "signing", "paying"}
           /\ auth[q] \in {"sent", "settled"} /\ payment[q].payment_id = payment[r].payment_id
           => q = r
  BY DEF Inv, RowsInv, TypeInv, TypeOK, StatusByPlace, SentLater, SentByOpener
<1>2. ASSUME NEW next \in Finished, Goto(r, next), UNCHANGED <<now, journal, payment, isNew, auth>>
      PROVE  RowsInv'
  BY <1>1, <1>2, QuietKeepsRows DEF Goto
<1>3. CASE Replay(r)
  BY <1>2, <1>3 DEF Replay, Finished
<1>4. CASE Probe(r)
  BY <1>1, <1>4, QuietKeepsRows DEF Probe, At, Goto
<1>5. CASE NothingToPay(r)
  BY <1>2, <1>5 DEF NothingToPay, Finished
<1>6. CASE Quote(r)
  BY <1>6, QuoteKeepsRows
<1>7. CASE Reserve(r)
  BY <1>7, ReserveKeepsRows
<1>8. CASE ReserveUnavailable(r)
  BY <1>2, <1>8 DEF ReserveUnavailable, Finished
<1>9. CASE ChargeBudget(r)
  BY <1>1, <1>9, QuietKeepsRows DEF ChargeBudget, NoSave, At, Goto
<1>10. ASSUME NEW status \in PaymentStatus \ ClosedStatuses,
              NEW next \in (Finished \ {"error"}) \cup {"caching"},
              pc[r] = "paying", Save(r, status, next), UNCHANGED <<now, isNew, auth>>
       PROVE  RowsInv'
  <2>1. next # "paying"
    BY DEF Finished
  <2> QED
    BY <1>10, <2>1, SaveKeepsRows
<1>11. CASE BlockOnBudget(r)
  <2>1. /\ pc[r] = "reserved" /\ isNew[r]
        /\ Save(r, "skipped", "blocked") /\ UNCHANGED <<now, isNew, auth>>
    BY <1>11 DEF BlockOnBudget, At, Inv, BudgetInv, ChargedAsOpened
  <2>2. \A q \in Request : auth'[q] \in {"sent", "settled"} =>
          payment[q].payment_id # payment[r].payment_id
    BY <1>1, <2>1
  <2> QED
    BY <2>1, <2>2, SaveKeepsRows DEF PaymentStatus, ClosedStatuses, Finished
<1>12. CASE SignFails(r)
  <2>1. CASE ~isNew[r]
    BY <1>2, <1>12, <2>1 DEF SignFails, NoSave, Finished
  <2>2. CASE isNew[r]
    <3>1. /\ pc[r] = "signing"
          /\ Save(r, "failed", "failed") /\ UNCHANGED <<now, isNew, auth>>
      BY <1>12, <2>2 DEF SignFails, At
    <3>2. \A q \in Request : auth'[q] \in {"sent", "settled"} =>
            payment[q].payment_id # payment[r].payment_id
      BY <1>1, <2>2, <3>1
    <3> QED
      BY <3>1, <3>2, SaveKeepsRows DEF PaymentStatus, ClosedStatuses, Finished
  <2> QED
    BY <2>1, <2>2
<1>13. CASE SignAndSend(r)
  <2>1. CASE payment[r].status # "pending"
    BY <1>13, <2>1, ResendKeepsRows
  <2>2. CASE payment[r].status = "pending"
    <3>1. /\ pc[r] = "signing"
          /\ Save(r, "authorized", "paying") /\ UNCHANGED <<now, isNew>>
          /\ auth' = IF pc'[r] = "paying" THEN [auth EXCEPT ![r] = "sent"] ELSE auth
      BY <1>13, <2>2 DEF SignAndSend, At
    <3>2. /\ \A q \in Request \ {r} : auth'[q] = auth[q]
          /\ \/ auth'[r] = auth[r]
             \/ auth'[r] = "sent" /\ pc'[r] = "paying"
      BY <1>1, <3>1
    <3> QED
      BY <3>1, <3>2, SaveKeepsRows DEF PaymentStatus, ClosedStatuses, CommittedStatuses
  <2> QED
    BY <2>1, <2>2
<1>14. CASE PaidSuccess(r)
  BY <1>10, <1>14 DEF PaidSuccess, At, PaymentStatus, ClosedStatuses, Finished
<1>15. CASE CacheResponse(r)
  BY <1>2, <1>15 DEF CacheResponse, NoSave, Finished
<1>16. CASE PaidRejected(r)
  <2>1. /\ pc[r] = "paying" /\ UNCHANGED <<now, isNew>>
        /\ auth'[r] = "rejected"
        /\ \A q \in Request \ {r} : auth'[q] = auth[q]
    BY <1>1, <1>16 DEF PaidRejected, At
  <2>2. CASE isNew[r]
    <3>1. Save(r, "failed", "failed")
      BY <1>16, <2>2 DEF PaidRejected
    <3>2. \A q \in Request : auth'[q] \in {"sent", "settled"} =>
            payment[q].payment_id # payment[r].payment_id
      BY <1>1, <2>1, <2>2
    <3> QED
      BY <2>1, <3>1, <3>2, SaveKeepsRows DEF PaymentStatus, ClosedStatuses, Finished
  <2>3. CASE ~isNew[r]
    BY <1>16, <2>1, <2>3, SaveKeepsRows DEF PaidRejected, PaymentStatus, ClosedStatuses, Finished
  <2> QED
    BY <2>2, <2>3
<1>17. CASE PaidAmbiguous(r)
  BY <1>10, <1>17 DEF PaidAmbiguous, At, PaymentStatus, ClosedStatuses, Finished
<1>18. CASE PaidLost(r)
  <2>1. CASE NoSave(r, "unknown")
    BY <1>2, <1>18, <2>1 DEF PaidLost, NoSave, Finished
  <2>2. CASE Save(r, "unknown", "unknown")
    BY <1>10, <1>18, <2>2 DEF PaidLost, At, PaymentStatus, ClosedStatuses, Finished
  <2> QED
    BY <1>18, <2>1, <2>2 DEF PaidLost
<1> QED
  BY <1>3, <1>4, <1>5, <1>6, <1>7, <1>8, <1>9, <1>11, <1>12, <1>13, <1>14, <1>15, <1>16,
     <1>17, <1>18 DEF Handle

LEMMA InitRows == Init => RowsInv
<1> SUFFICES ASSUME Init PROVE RowsInv
  OBVIOUS
<1>1. HolderAlone /\ CopyIsRow /\ StatusByPlace /\ SentLater /\ SentByOpener
  BY DEF Init, HolderAlone, CopyIsRow, StatusByPlace, StatusAt, SentLater, SentByOpener,
         Running, Active
<1>2. ClosedMeansUnpayable
  BY DEF Init, ClosedMeansUnpayable
<1>3. LimitsHold
  <2>1. \A w, t : CommittedIn(EmptyJournal, w, t) = {}
    BY DEF CommittedIn, EmptyJournal
  <2>2. \A h, t : ProviderIn(EmptyJournal, h, t) = {}
    BY <2>1 DEF ProviderIn
  <2>3. \A f : Units({}, f) = {}
    BY DEF Units
  <2>4. Cardinality({}) = 0
    BY FS_EmptySet
  <2>5. DailyTotal(EmptyJournal, 0) = 0
    BY <2>1, <2>3, <2>4 DEF DailyTotal
  <2>6. HourlyCount(EmptyJournal, 0) = 0
    BY <2>1, <2>4 DEF HourlyCount
  <2>7. \A h : ProviderTotal(EmptyJournal, h, 0) = 0
    BY <2>2, <2>3, <2>4 DEF ProviderTotal
  <2>8. DailyCap \in Nat /\ MaxPaymentsPerHour \in Nat /\ ProviderDailyCap \in Nat
    BY JournalAssumption
  <2>9. journal = EmptyJournal /\ now = 0
    BY DEF Init
  <2> QED
    BY <2>5, <2>6, <2>7, <2>8, <2>9 DEF LimitsHold, RollingLimits
<1> QED
  BY <1>1, <1>2, <1>3 DEF RowsInv

LEMMA NextRows == SerialIds /\ FailClosed /\ Inv /\ [Next]_vars => RowsInv'
<1> SUFFICES ASSUME SerialIds, FailClosed, Inv, [Next]_vars PROVE RowsInv'
  OBVIOUS
<1>1. ASSUME NEW r \in Request, Handle(r) PROVE RowsInv'
  BY <1>1, HandleRows
<1>2. ASSUME NEW r \in Request, Cancel(r) PROVE RowsInv'
  BY <1>2, QuietKeepsRows DEF Cancel, NoSave, Goto, Finished, Inv, TypeInv, TypeOK
<1>3. ASSUME NEW r \in Request, Settle(r) PROVE RowsInv'
  <2>1. /\ UNCHANGED <<now, journal, pc, payment, isNew>>
        /\ auth[r] = "sent" /\ auth'[r] = "settled"
        /\ \A q \in Request \ {r} : auth'[q] = auth[q]
    BY <1>3 DEF Settle, locals, Inv, TypeInv, TypeOK
  <2> QED
    BY <2>1
       DEF Inv, RowsInv, HolderAlone, CopyIsRow, StatusByPlace, StatusAt, SentLater,
           SentByOpener, ClosedMeansUnpayable, LimitsHold
<1>4. ASSUME NEW s \in Session, Crash(s) PROVE RowsInv'
  BY <1>4, QuietKeepsRows DEF Crash, Finished, Inv, TypeInv, TypeOK
<1>5. CASE Tick
  <2>1. /\ UNCHANGED <<journal, pc, payment, isNew, auth>> /\ now' = now + 1
        /\ now \in Nat /\ IsJournal(journal)
    BY <1>5, ClientAssumption DEF Tick, locals, Inv, TypeInv, TypeOK
  <2>2. LimitsHold'
    BY <2>1, LimitsAfterTick DEF Inv, RowsInv, LimitsHold
  <2> QED
    BY <2>1, <2>2
       DEF Inv, RowsInv, HolderAlone, CopyIsRow, StatusByPlace, StatusAt, SentLater,
           SentByOpener, ClosedMeansUnpayable
<1>6. CASE UNCHANGED vars
  BY <1>6, QuietKeepsRows DEF vars
<1> QED
  BY <1>1, <1>2, <1>3, <1>4, <1>5, <1>6 DEF Next, Terminated

\* Everything holds together: the induction behind the theorems that follow.
LEMMA Invariance == ASSUME SerialIds, FailClosed PROVE Spec => []Inv
<1>1. Init => Inv
  BY InitTypeInv, InitBudgetInv, InitRows DEF Inv
<1>2. Inv /\ [Next]_vars => Inv'
  BY NextTypeInv, NextBudgetInv, NextRows DEF Inv
<1> QED
  BY <1>1, <1>2, PTL DEF Spec

\* The rolling limits of the policy hold at every time, for every number of
\* sessions sharing the journal, through crashes and failing stores.
THEOREM RollingLimitsHold ==
  ASSUME SerialIds, FailClosed PROVE Spec => []LimitsHold
<1>1. Inv => LimitsHold
  BY DEF Inv, RowsInv
<1>2. Spec => []Inv
  BY Invariance
<1> QED
  BY <1>1, <1>2, PTL

\* A payment that may still be paid, or was, is never closed in the journal.
THEOREM OnlyUnpayableClosed ==
  ASSUME SerialIds, FailClosed PROVE Spec => []ClosedMeansUnpayable
<1>1. Inv => ClosedMeansUnpayable
  BY DEF Inv, RowsInv
<1>2. Spec => []Inv
  BY Invariance
<1> QED
  BY <1>1, <1>2, PTL

-----------------------------------------------------------------------------
(* The journal and the sellers implement the abstract ledger.              *)

\* A handler works on its own request only.
LEMMA HandleLocal ==
  ASSUME TypeInv, NEW r \in Request, Handle(r)
  PROVE  /\ now' = now
         /\ \A q \in Request \ {r} : /\ pc'[q] = pc[q]
                                     /\ payment'[q] = payment[q]
                                     /\ isNew'[q] = isNew[q]
                                     /\ auth'[q] = auth[q]
<1> USE DEF TypeInv, TypeOK, Goto
<1>1. CASE Replay(r) \/ Probe(r) \/ NothingToPay(r) \/ Quote(r)
  BY <1>1 DEF Replay, Probe, NothingToPay, Quote
<1>2. CASE Reserve(r) \/ ReserveUnavailable(r)
  BY <1>2 DEF Reserve, ReserveUnavailable, Admit
<1>3. CASE ChargeBudget(r) \/ BlockOnBudget(r) \/ SignFails(r) \/ SignAndSend(r)
  BY <1>3 DEF ChargeBudget, BlockOnBudget, SignFails, SignAndSend, Save, NoSave
<1>4. CASE PaidSuccess(r) \/ CacheResponse(r)
  BY <1>4 DEF PaidSuccess, CacheResponse, Save, NoSave
<1>5. CASE PaidRejected(r) \/ PaidAmbiguous(r) \/ PaidLost(r)
  BY <1>5 DEF PaidRejected, PaidAmbiguous, PaidLost, Save, NoSave
<1> QED
  BY <1>1, <1>2, <1>3, <1>4, <1>5 DEF Handle

\* A payment was quoted before it is reserved.
QuotedBefore == \A r \in Request : pc[r] = "quoted" => payment[r].created_at \in 0..now

LEMMA NextQuoted == TypeInv /\ QuotedBefore /\ [Next]_vars => QuotedBefore'
<1> SUFFICES ASSUME TypeInv, QuotedBefore, [Next]_vars PROVE QuotedBefore'
  OBVIOUS
<1>1. now \in Nat
  BY ClientAssumption DEF TypeInv, TypeOK
<1>2. ASSUME NEW r \in Request, Handle(r) PROVE QuotedBefore'
  <2>1. pc'[r] = "quoted" => payment'[r].created_at = now
    <3> USE DEF TypeInv, TypeOK, Goto
    <3>1. CASE Replay(r) \/ Probe(r) \/ NothingToPay(r) \/ Quote(r)
      BY <3>1 DEF Replay, Probe, NothingToPay, Quote
    <3>2. CASE Reserve(r) \/ ReserveUnavailable(r)
      BY <3>2 DEF Reserve, ReserveUnavailable, Admit
    <3>3. CASE ChargeBudget(r) \/ BlockOnBudget(r) \/ SignFails(r) \/ SignAndSend(r)
      BY <3>3 DEF ChargeBudget, BlockOnBudget, SignFails, SignAndSend, Save, NoSave
    <3>4. CASE PaidSuccess(r) \/ CacheResponse(r)
      BY <3>4 DEF PaidSuccess, CacheResponse, Save, NoSave
    <3>5. CASE PaidRejected(r) \/ PaidAmbiguous(r) \/ PaidLost(r)
      BY <3>5 DEF PaidRejected, PaidAmbiguous, PaidLost, Save, NoSave
    <3> QED
      BY <1>2, <3>1, <3>2, <3>3, <3>4, <3>5 DEF Handle
  <2>2. \A q \in Request \ {r} : pc'[q] = pc[q] /\ payment'[q] = payment[q] /\ now' = now
    BY <1>2, HandleLocal
  <2> QED
    BY <1>1, <1>2, <2>1, <2>2, HandleLocal DEF QuotedBefore
<1>3. ASSUME NEW r \in Request, Cancel(r) \/ Settle(r) PROVE QuotedBefore'
  BY <1>3 DEF QuotedBefore, Cancel, Settle, NoSave, Goto, locals, TypeInv, TypeOK
<1>4. ASSUME NEW s \in Session, Crash(s) PROVE QuotedBefore'
  BY <1>4 DEF QuotedBefore, Crash
<1>5. CASE Tick
  BY <1>1, <1>5 DEF QuotedBefore, Tick, locals
<1>6. CASE UNCHANGED vars
  BY <1>6 DEF QuotedBefore, vars
<1> QED
  BY <1>2, <1>3, <1>4, <1>5, <1>6 DEF Next, Terminated

\* One of the authorizations for the payment has settled.
Paid(id) == \E r \in Request : auth[r] = "settled" /\ payment[r].payment_id = id

\* Only the seller settles, and a paid request keeps its payment ID.
LEMMA HandleKeepsPaid ==
  ASSUME Inv, NEW r \in Request, Handle(r), NEW id
  PROVE  Paid(id)' <=> Paid(id)
<1>1. /\ TypeInv /\ SentLater
      /\ auth \in [Request -> AuthState]
  BY DEF Inv, TypeInv, TypeOK, RowsInv
<1>2. \A q \in Request \ {r} : auth'[q] = auth[q] /\ payment'[q] = payment[q]
  BY <1>1, HandleLocal
<1>3. auth' = auth \/ SignAndSend(r) \/ PaidRejected(r)
  BY DEF Handle, Replay, Probe, NothingToPay, Quote, Reserve, ReserveUnavailable,
         ChargeBudget, BlockOnBudget, SignFails, PaidSuccess, CacheResponse,
         PaidAmbiguous, PaidLost
<1>4. auth'[r] = "settled" <=> auth[r] = "settled"
  <2>1. CASE SignAndSend(r)
    <3>1. auth[r] = "none"
      BY <1>1, <2>1 DEF SentLater, SignAndSend, At
    <3>2. auth'[r] \in {"none", "sent"}
      BY <1>1, <2>1, <3>1 DEF SignAndSend
    <3> QED
      BY <3>1, <3>2
  <2>2. CASE PaidRejected(r)
    BY <1>1, <2>2 DEF PaidRejected
  <2> QED
    BY <1>3, <2>1, <2>2
<1>5. auth[r] = "settled" => payment'[r].payment_id = payment[r].payment_id
  <2> SUFFICES ASSUME auth[r] = "settled"
               PROVE  payment'[r].payment_id = payment[r].payment_id
    OBVIOUS
  <2>1. pc[r] \in {"paying", "caching"} /\ payment[r] \in Payment
    BY <1>1
       DEF SentLater, Handle, Replay, Probe, NothingToPay, Quote, Reserve,
           ReserveUnavailable, ChargeBudget, BlockOnBudget, SignFails, SignAndSend,
           PaidSuccess, CacheResponse, PaidRejected, PaidAmbiguous, PaidLost, At
  <2>2. PaidSuccess(r) \/ CacheResponse(r) \/ PaidRejected(r) \/ PaidAmbiguous(r) \/ PaidLost(r)
    BY <2>1
       DEF Handle, Replay, Probe, NothingToPay, Quote, Reserve, ReserveUnavailable,
           ChargeBudget, BlockOnBudget, SignFails, SignAndSend, At
  <2>3. \/ payment' = payment
        \/ \E status \in PaymentStatus :
             payment' = [payment EXCEPT ![r] = [payment[r] EXCEPT !.status = status]]
    BY <2>2
       DEF PaidSuccess, CacheResponse, PaidRejected, PaidAmbiguous, PaidLost, Save, NoSave,
           PaymentStatus
  <2> QED
    BY <1>1, <2>1, <2>3 DEF TypeInv, TypeOK, Payment
<1> QED
  BY <1>2, <1>4, <1>5 DEF Paid

\* What a handler does to the journal: it opens a row, or changes the status of
\* one that is neither closed nor a success.
LEMMA HandleJournal ==
  ASSUME FailClosed, Inv, NEW r \in Request, Handle(r)
  PROVE  \/ journal' = journal
         \/ /\ pc[r] = "quoted" /\ payment[r] \in Payment
            /\ payment[r].status = "pending"
            /\ Opens(journal, payment[r], now) /\ journal' = Put(journal, payment[r])
         \/ \E p \in Payment :
              /\ p.payment_id \in DOMAIN journal
              /\ SameLogicalPayment(journal[p.payment_id], p)
              /\ p.created_at = journal[p.payment_id].created_at
              /\ journal[p.payment_id].status \in CommittedStatuses
              /\ journal[p.payment_id].status = "success" => p.status = "success"
              /\ journal' = Put(journal, p)
<1>1. /\ TypeInv /\ CopyIsRow /\ StatusByPlace /\ PaymentKnown /\ ChargedAsOpened
      /\ isNew \in [Request -> BOOLEAN]
  BY DEF Inv, TypeInv, TypeOK, RowsInv, BudgetInv
<1>2. ASSUME NEW status \in PaymentStatus, NEW next, Save(r, status, next),
             pc[r] \in {"reserved", "signing", "paying"},
             payment[r].status = "success" => status = "success"
      PROVE  \/ journal' = journal
             \/ \E p \in Payment :
                  /\ p.payment_id \in DOMAIN journal
                  /\ SameLogicalPayment(journal[p.payment_id], p)
                  /\ p.created_at = journal[p.payment_id].created_at
                  /\ journal[p.payment_id].status \in CommittedStatuses
                  /\ journal[p.payment_id].status = "success" => p.status = "success"
                  /\ journal' = Put(journal, p)
  <2> DEFINE p == [payment[r] EXCEPT !.status = status]
  <2>1. /\ payment[r] \in Payment /\ p \in Payment
        /\ journal' = Put(journal, p) \/ journal' = journal
    BY <1>1, <1>2, SaveEffect DEF Active
  <2>2. /\ payment[r].payment_id \in DOMAIN journal
        /\ journal[payment[r].payment_id] = payment[r]
        /\ payment[r].status \in CommittedStatuses
    BY <1>1, <1>2 DEF CopyIsRow, StatusByPlace, StatusAt, Active
  <2>3. /\ p.payment_id = payment[r].payment_id
        /\ SameLogicalPayment(payment[r], p)
        /\ p.created_at = payment[r].created_at
        /\ p.status = status
    BY <2>1 DEF Payment, SameLogicalPayment
  <2> QED
    BY <1>2, <2>1, <2>2, <2>3
<1>3. CASE Replay(r) \/ Probe(r) \/ NothingToPay(r) \/ Quote(r)
  BY <1>3 DEF Replay, Probe, NothingToPay, Quote
<1>4. CASE Reserve(r)
  BY <1>1, <1>4
     DEF Reserve, At, AfterReserve, PaymentKnown, Running, StatusByPlace, StatusAt
<1>5. CASE ReserveUnavailable(r)
  BY <1>5 DEF ReserveUnavailable
<1>6. CASE ChargeBudget(r) \/ CacheResponse(r)
  BY <1>6 DEF ChargeBudget, CacheResponse, NoSave
<1>7. CASE BlockOnBudget(r)
  <2>1. payment[r].status = "pending"
    BY <1>1, <1>7 DEF BlockOnBudget, At, ChargedAsOpened, StatusByPlace, StatusAt
  <2> QED
    BY <1>2, <1>7, <2>1 DEF BlockOnBudget, At, PaymentStatus
<1>8. CASE SignFails(r)
  <2>1. isNew[r] => payment[r].status = "pending"
    BY <1>1, <1>8 DEF SignFails, At, StatusByPlace, StatusAt
  <2> QED
    BY <1>2, <1>8, <2>1 DEF SignFails, At, PaymentStatus, NoSave
<1>9. CASE SignAndSend(r)
  BY <1>2, <1>9 DEF SignAndSend, At, PaymentStatus, NoSave
<1>10. CASE PaidSuccess(r)
  BY <1>2, <1>10 DEF PaidSuccess, At, PaymentStatus
<1>11. CASE PaidRejected(r)
  <2>1. isNew[r] => payment[r].status = "authorized"
    BY <1>1, <1>11 DEF PaidRejected, At, StatusByPlace, StatusAt
  <2> QED
    BY <1>2, <1>11, <2>1 DEF PaidRejected, At, PaymentStatus
<1>12. CASE PaidAmbiguous(r)
  BY <1>2, <1>12 DEF PaidAmbiguous, At, PaymentStatus
<1>13. CASE PaidLost(r)
  BY <1>2, <1>13 DEF PaidLost, At, PaymentStatus, NoSave
<1> QED
  BY <1>3, <1>4, <1>5, <1>6, <1>7, <1>8, <1>9, <1>10, <1>11, <1>12, <1>13 DEF Handle

LEMMA StepKeepsFinal ==
  ASSUME FailClosed, Inv, [Next]_vars, NEW id \in DOMAIN journal,
         journal[id].status \in ClosedStatuses \cup {"success"}
  PROVE  journal'[id].status = journal[id].status
<1>1. ASSUME NEW r \in Request, Handle(r)
      PROVE  journal'[id].status = journal[id].status
  <2>1. CASE journal' = journal
    BY <2>1
  <2>2. CASE Opens(journal, payment[r], now) /\ journal' = Put(journal, payment[r])
    BY <2>2 DEF Opens, Put
  <2>3. ASSUME NEW p \in Payment, p.payment_id \in DOMAIN journal,
               journal[p.payment_id].status \in CommittedStatuses,
               journal[p.payment_id].status = "success" => p.status = "success",
               journal' = Put(journal, p)
        PROVE  journal'[id].status = journal[id].status
    BY <2>3 DEF Put, CommittedStatuses, ClosedStatuses
  <2> QED
    BY <1>1, <2>1, <2>2, <2>3, HandleJournal
<1>2. CASE UNCHANGED journal
  BY <1>2
<1> QED
  BY <1>1, <1>2 DEF Next, Terminated, vars, Cancel, NoSave, Settle, Crash, Tick

\* A payment that succeeded, failed or was skipped keeps that word in the journal.
THEOREM FinalStatusKept ==
  ASSUME SerialIds, FailClosed PROVE Spec => FinalStatusStays
<1>1. Spec => []Inv
  BY Invariance
<1>2. Inv /\ [Next]_vars =>
        [\A id \in DOMAIN journal :
           journal[id].status \in ClosedStatuses \cup {"success"} =>
             journal'[id].status = journal[id].status]_journal
  BY StepKeepsFinal
<1> QED
  BY <1>1, <1>2, PTL DEF Spec, FinalStatusStays

\* The ledger's state, as the refinement mapping has it.
LedgerStates == [id \in PayId |-> LedgerState(id)]
LedgerAmounts == [id \in PayId |-> IF id \in DOMAIN journal THEN journal[id].amount ELSE 0]
LedgerOpened == [id \in PayId |-> IF id \in DOMAIN journal THEN journal[id].created_at ELSE 0]

\* The ledger does not see a change of a status that neither closes nor pays.
LEMMA LedgerUnseen ==
  ASSUME now' = now, DOMAIN journal' = DOMAIN journal,
         \A id \in DOMAIN journal :
           /\ journal'[id].amount = journal[id].amount
           /\ journal'[id].created_at = journal[id].created_at
           /\ journal'[id].status \in ClosedStatuses <=> journal[id].status \in ClosedStatuses,
         \A id : Paid(id)' <=> Paid(id)
  PROVE  UNCHANGED Ledger!vars
<1>1. \A id \in PayId : LedgerState(id)' = LedgerState(id)
  BY DEF LedgerState, Paid
<1>2. LedgerStates' = LedgerStates
  BY <1>1 DEF LedgerStates
<1>3. LedgerAmounts' = LedgerAmounts /\ LedgerOpened' = LedgerOpened
  BY DEF LedgerAmounts, LedgerOpened
<1> QED
  BY <1>2, <1>3 DEF Ledger!vars, LedgerStates, LedgerAmounts, LedgerOpened

\* What the ledger counts is what the daily limit counts.
LEMMA LedgerTotal ==
  ASSUME Inv
  PROVE  Ledger!TotalOf(Ledger!Counted, LedgerAmounts) = DailyTotal(journal, now)
<1>1. /\ IsJournal(journal) /\ ClosedMeansUnpayable
      /\ \A id \in DOMAIN journal : journal[id].status \in PaymentStatus
  BY DEF Inv, RowsInv, TypeInv, TypeOK, IsJournal, Payment
<1>2. \A id \in PayId :
        LedgerState(id) \in {"open", "paid"} <=>
          id \in DOMAIN journal /\ journal[id].status \in CommittedStatuses
  BY <1>1
     DEF LedgerState, ClosedMeansUnpayable, PaymentStatus, ClosedStatuses, CommittedStatuses
<1>3. Ledger!Counted = CommittedIn(journal, DaySeconds, now)
  BY <1>1, <1>2 DEF Ledger!Counted, CommittedIn, IsJournal
<1>4. \A id \in CommittedIn(journal, DaySeconds, now) : LedgerAmounts[id] = Amounts(journal)[id]
  BY <1>1 DEF CommittedIn, LedgerAmounts, Amounts, IsJournal
<1>5. Units(CommittedIn(journal, DaySeconds, now), LedgerAmounts)
        = Units(CommittedIn(journal, DaySeconds, now), Amounts(journal))
  BY <1>4, UnitsAgree
<1>6. Ledger!TotalOf(Ledger!Counted, LedgerAmounts)
        = Cardinality(Units(Ledger!Counted, LedgerAmounts))
  BY DEF Ledger!TotalOf, Ledger!Units, Ledger!Cardinality, Cardinality, Units
<1> QED
  BY <1>3, <1>5, <1>6 DEF DailyTotal

LEMMA LedgerStarts == Init => Ledger!Init
BY DEF Init, Ledger!Init, LedgerState, EmptyJournal

\* A change of a row that is not closed: nothing, or the payment becomes void.
LEMMA LedgerChanges ==
  ASSUME Inv, ClosedMeansUnpayable', now' = now, \A id : Paid(id)' <=> Paid(id),
         NEW p \in Payment, p.payment_id \in DOMAIN journal,
         SameLogicalPayment(journal[p.payment_id], p),
         p.created_at = journal[p.payment_id].created_at,
         journal[p.payment_id].status \in CommittedStatuses,
         journal' = Put(journal, p)
  PROVE  [Ledger!Next]_(Ledger!vars)
<1> DEFINE id == p.payment_id
<1>1. /\ DOMAIN journal' = DOMAIN journal
      /\ journal'[id] = p
      /\ \A i \in DOMAIN journal \ {id} : journal'[i] = journal[i]
      /\ id \in PayId
      /\ journal[id].status \notin ClosedStatuses
  BY DEF Put, Payment, CommittedStatuses, ClosedStatuses
<1>2. \A i \in DOMAIN journal : /\ journal'[i].amount = journal[i].amount
                                /\ journal'[i].created_at = journal[i].created_at
  BY <1>1 DEF SameLogicalPayment
<1>3. CASE p.status \notin ClosedStatuses
  BY <1>1, <1>2, <1>3, LedgerUnseen
<1>4. CASE p.status \in ClosedStatuses
  <2>1. ~Paid(id)' /\ ~Paid(id)
    BY <1>1, <1>4 DEF Paid, ClosedMeansUnpayable, ClosedStatuses, CommittedStatuses
  <2>2. LedgerState(id) = "open" /\ LedgerState(id)' = "void"
    BY <1>1, <1>4, <2>1 DEF LedgerState, Paid
  <2>3. \A i \in PayId \ {id} : LedgerState(i)' = LedgerState(i)
    BY <1>1 DEF LedgerState, Paid
  <2>4. LedgerStates' = [LedgerStates EXCEPT ![id] = "void"]
    BY <1>1, <2>2, <2>3 DEF LedgerStates
  <2>5. LedgerAmounts' = LedgerAmounts /\ LedgerOpened' = LedgerOpened
    BY <1>1, <1>2 DEF LedgerAmounts, LedgerOpened
  <2>6. Ledger!Void(id)
    BY <1>1, <2>2, <2>4, <2>5 DEF Ledger!Void, LedgerStates, LedgerAmounts, LedgerOpened
  <2> QED
    BY <1>1, <2>6 DEF Ledger!Next
<1> QED
  BY <1>3, <1>4

\* A reservation opens an entry of the ledger, within the daily limit.
LEMMA LedgerOpens ==
  ASSUME Inv, QuotedBefore, now' = now, \A id : Paid(id)' <=> Paid(id),
         NEW r \in Request, pc[r] = "quoted", payment[r] \in Payment,
         payment[r].status = "pending",
         Opens(journal, payment[r], now), journal' = Put(journal, payment[r])
  PROVE  Ledger!Next
<1>0. PICK p \in Payment, id \in PayId : p = payment[r] /\ id = p.payment_id
  BY DEF Payment
<1>1. /\ id \in PayId /\ id \notin DOMAIN journal
      /\ DOMAIN journal' = DOMAIN journal \cup {id}
      /\ journal'[id] = p
      /\ \A i \in DOMAIN journal : journal'[i] = journal[i]
      /\ p.amount \in 0..MaxAmount /\ p.created_at \in 0..now
      /\ DailyTotal(journal, now) + p.amount <= DailyCap
  BY <1>0 DEF Put, Opens, CheckTotals, Payment, QuotedBefore
<1>2. ~Paid(id) /\ ~Paid(id)'
  BY <1>1 DEF Inv, RowsInv, ClosedMeansUnpayable, Paid
<1>3. LedgerState(id) = "unused"
  BY <1>1 DEF LedgerState
<1>8. LedgerState(id)' = "open"
  BY <1>0, <1>1, <1>2 DEF LedgerState, Paid, ClosedStatuses
<1>4. \A i \in PayId \ {id} : LedgerState(i)' = LedgerState(i)
  BY <1>1 DEF LedgerState, Paid
<1>5. LedgerStates' = [LedgerStates EXCEPT ![id] = "open"]
  BY <1>1, <1>8, <1>4 DEF LedgerStates
<1>6. /\ LedgerAmounts' = [LedgerAmounts EXCEPT ![id] = p.amount]
      /\ LedgerOpened' = [LedgerOpened EXCEPT ![id] = p.created_at]
  BY <1>1 DEF LedgerAmounts, LedgerOpened
<1>7. Ledger!TotalOf(Ledger!Counted, LedgerAmounts) + p.amount <= DailyCap
  BY <1>1, LedgerTotal
<1>9. Ledger!Open(id)
  BY <1>1, <1>3, <1>5, <1>6, <1>7 DEF Ledger!Open, LedgerStates, LedgerAmounts, LedgerOpened
<1> QED
  BY <1>1, <1>9 DEF Ledger!Next

LEMMA LedgerSettles ==
  ASSUME Inv, NEW r \in Request, Settle(r)
  PROVE  [Ledger!Next]_(Ledger!vars)
<1>0. PICK id \in PayId : id = payment[r].payment_id
  BY DEF Settle, Inv, RowsInv, SentLater, Payment
<1>1. /\ auth[r] = "sent" /\ auth' = [auth EXCEPT ![r] = "settled"]
      /\ UNCHANGED <<now, journal, payment>>
      /\ auth \in [Request -> AuthState]
  BY DEF Settle, locals, Inv, TypeInv, TypeOK
<1>2. /\ id \in DOMAIN journal
      /\ journal[id].status \notin ClosedStatuses
  BY <1>0, <1>1
     DEF Inv, RowsInv, TypeInv, TypeOK, IsJournal, ClosedMeansUnpayable, CommittedStatuses,
         ClosedStatuses
<1>3. Paid(id)' /\ \A i : i # id => (Paid(i)' <=> Paid(i))
  BY <1>0, <1>1 DEF Paid
<1>4. \A i \in PayId \ {id} : LedgerState(i)' = LedgerState(i)
  BY <1>1, <1>3 DEF LedgerState, Paid
<1>5. LedgerState(id)' = "paid" /\ LedgerState(id) \in {"open", "paid"}
  BY <1>1, <1>2, <1>3 DEF LedgerState, Paid
<1>6. LedgerAmounts' = LedgerAmounts /\ LedgerOpened' = LedgerOpened
  BY <1>1 DEF LedgerAmounts, LedgerOpened
<1>7. LedgerStates' = [LedgerStates EXCEPT ![id] = "paid"]
  BY <1>2, <1>4, <1>5 DEF LedgerStates
<1>8. CASE LedgerState(id) = "open"
  <2>1. Ledger!Pay(id)
    BY <1>1, <1>2, <1>6, <1>7, <1>8 DEF Ledger!Pay, LedgerStates, LedgerAmounts, LedgerOpened
  <2> QED
    BY <1>2, <2>1 DEF Ledger!Next
<1>9. CASE LedgerState(id) = "paid"
  <2>1. LedgerStates' = LedgerStates
    BY <1>2, <1>7, <1>9 DEF LedgerStates
  <2> QED
    BY <1>1, <1>6, <2>1 DEF Ledger!vars, LedgerStates, LedgerAmounts, LedgerOpened
<1> QED
  BY <1>5, <1>8, <1>9

LEMMA LedgerSteps ==
  ASSUME FailClosed, Inv, Inv', QuotedBefore, [Next]_vars
  PROVE  [Ledger!Next]_(Ledger!vars)
<1>1. ASSUME NEW r \in Request, Handle(r)
      PROVE  [Ledger!Next]_(Ledger!vars)
  <2>1. now' = now /\ \A id : Paid(id)' <=> Paid(id)
    BY <1>1, HandleLocal, HandleKeepsPaid DEF Inv
  <2>2. CASE journal' = journal
    BY <2>1, <2>2, LedgerUnseen
  <2>3. CASE journal' # journal
    BY <1>1, <2>1, <2>3, HandleJournal, LedgerOpens, LedgerChanges DEF Inv, RowsInv
  <2> QED
    BY <2>2, <2>3
<1>2. ASSUME NEW r \in Request, Settle(r)
      PROVE  [Ledger!Next]_(Ledger!vars)
  BY <1>2, LedgerSettles
<1>3. CASE UNCHANGED <<now, journal, payment, auth>>
  BY <1>3, LedgerUnseen DEF Paid
<1>4. CASE Tick
  <2>1. UNCHANGED <<journal, payment, auth>> /\ now < MaxTime /\ now' = now + 1
    BY <1>4 DEF Tick, locals
  <2>2. \A id \in PayId : LedgerState(id)' = LedgerState(id)
    BY <2>1 DEF LedgerState
  <2>3. /\ LedgerStates' = LedgerStates /\ LedgerAmounts' = LedgerAmounts
        /\ LedgerOpened' = LedgerOpened
    BY <2>1, <2>2 DEF LedgerStates, LedgerAmounts, LedgerOpened
  <2>4. Ledger!Tick
    BY <2>1, <2>3 DEF Ledger!Tick, LedgerStates, LedgerAmounts, LedgerOpened
  <2> QED
    BY <2>4 DEF Ledger!Next
<1>5. ASSUME NEW r \in Request, Cancel(r)
      PROVE  UNCHANGED <<now, journal, payment, auth>>
  BY <1>5 DEF Cancel, NoSave
<1>6. ASSUME NEW s \in Session, Crash(s)
      PROVE  UNCHANGED <<now, journal, payment, auth>>
  BY <1>6 DEF Crash
<1>7. CASE UNCHANGED vars
  BY <1>3, <1>7 DEF vars
<1> QED
  BY <1>1, <1>2, <1>3, <1>4, <1>5, <1>6, <1>7 DEF Next, Terminated

\* The clients, their shared journal and the sellers implement the abstract
\* ledger: opened once within the daily limit, then paid or void, for good.
THEOREM ClientImplementsLedger ==
  ASSUME SerialIds, FailClosed PROVE Spec => ImplementsLedger
<1>1. Init => QuotedBefore
  BY DEF Init, QuotedBefore
<1>2. Spec => []Inv
  BY Invariance
<1>3. Inv /\ QuotedBefore /\ [Next]_vars => QuotedBefore'
  BY NextQuoted DEF Inv
<1>4. Inv /\ Inv' /\ QuotedBefore /\ [Next]_vars => [Ledger!Next]_(Ledger!vars)
  BY LedgerSteps
<1> QED
  BY <1>1, <1>2, <1>3, <1>4, LedgerStarts, PTL DEF Spec, ImplementsLedger, Ledger!Spec

-----------------------------------------------------------------------------
(* One authorization per ID, also when callers share an ID; the policy fails  *)
(* closed.                                                                   *)

\* A new reservation is the only one of its row.
OpenedOnce ==
  /\ \A r \in Request : isNew[r] =>
       payment[r] \in Payment /\ payment[r].payment_id \in DOMAIN journal
  /\ \A q, r \in Request :
       isNew[q] /\ isNew[r] /\ payment[q].payment_id = payment[r].payment_id => q = r

\* For a seller that does not deduplicate, only a new reservation goes on.
UnsupportedOpened ==
  \A r \in Request :
    (pc[r] \in Active \/ auth[r] # "none") /\ payment[r].resource \notin SupportsId => isNew[r]

\* A request that may sign, or has signed, asks for the resource of its row.
InRow(r) ==
  /\ payment[r].payment_id \in DOMAIN journal
  /\ journal[payment[r].payment_id].resource = payment[r].resource

TermsInRow ==
  \A r \in Request : pc[r] \in Active \/ auth[r] # "none" => InRow(r)

OnceInv ==
  /\ SentLater /\ OpenedOnce /\ UnsupportedOpened /\ TermsInRow
  /\ SettledOncePerId

\* No step drops a row of the journal or changes what it pays for.
RowsKept ==
  \A id \in DOMAIN journal :
    id \in DOMAIN journal' /\ journal'[id].resource = journal[id].resource

\* A step of a handler past its reservation keeps the terms of its payment.
LEMMA PastReservation ==
  ASSUME TypeInv, BudgetInv, SentLater, TermsInRow, FailClosed, NEW r \in Request,
         Handle(r), ~Quote(r), ~Reserve(r)
  PROVE  /\ isNew' = isNew
         /\ RowsKept
         /\ \/ payment'[r] = payment[r]
            \/ /\ payment[r] \in Payment /\ payment'[r] \in Payment
               /\ payment'[r].payment_id = payment[r].payment_id
               /\ payment'[r].resource = payment[r].resource
         /\ pc'[r] \in Active => pc[r] \in Active
         /\ auth'[r] # "none" =>
              /\ auth[r] # "none" \/ pc[r] = "signing"
              /\ pc'[r] \notin {"idle", "probing", "quoted", "reserved", "signing"}
              /\ payment[r] \in Payment
         /\ auth'[r] = "settled" => auth[r] = "settled"
<1> USE DEF TypeInv, TypeOK, Goto
<1>1. ASSUME NEW status \in PaymentStatus, NEW next, Save(r, status, next),
             pc[r] \in {"reserved", "signing", "paying"}
      PROVE  /\ RowsKept
             /\ payment[r] \in Payment /\ payment'[r] \in Payment
             /\ payment'[r].payment_id = payment[r].payment_id
             /\ payment'[r].resource = payment[r].resource
             /\ pc'[r] = next \/ pc'[r] = "error"
  <2>1. payment[r] \in Payment /\ payment'[r] = [payment[r] EXCEPT !.status = status]
    BY <1>1 DEF Save, PaymentKnown, Running
  <2>2. RowsKept
    <3>1. journal' = journal \/ journal' = Put(journal, payment'[r])
      BY <1>1, <2>1 DEF Save
    <3>2. /\ payment'[r].payment_id = payment[r].payment_id
          /\ payment'[r].resource = payment[r].resource
      BY <2>1 DEF Payment
    <3>3. pc[r] \in Active
      BY <1>1 DEF Active
    <3> QED
      BY <3>1, <3>2, <3>3 DEF Put, RowsKept, TermsInRow, InRow
  <2>3. pc'[r] = next \/ pc'[r] = "error"
    BY <1>1 DEF Save
  <2> QED
    BY <2>1, <2>2, <2>3 DEF Payment
<1>2. CASE Replay(r) \/ Probe(r) \/ NothingToPay(r)
  BY <1>2 DEF Replay, Probe, NothingToPay, At, SentLater, Active, RowsKept
<1>3. CASE ReserveUnavailable(r)
  BY <1>3 DEF ReserveUnavailable, At, SentLater, Active, RowsKept
<1>4. CASE ChargeBudget(r)
  BY <1>4 DEF ChargeBudget, NoSave, At, SentLater, Active, RowsKept
<1>5. CASE BlockOnBudget(r)
  BY <1>1, <1>5 DEF BlockOnBudget, At, SentLater, Active, RowsKept, PaymentStatus
<1>6. CASE SignFails(r)
  BY <1>1, <1>6 DEF SignFails, NoSave, At, SentLater, Active, RowsKept, PaymentStatus
<1>7. CASE SignAndSend(r)
  BY <1>1, <1>7
     DEF SignAndSend, NoSave, At, SentLater, Active, RowsKept, PaymentStatus, PaymentKnown, Running
<1>8. CASE PaidSuccess(r)
  BY <1>1, <1>8 DEF PaidSuccess, At, SentLater, Active, RowsKept, PaymentStatus
<1>9. CASE CacheResponse(r)
  BY <1>9 DEF CacheResponse, NoSave, At, SentLater, Active, RowsKept
<1>10. CASE PaidRejected(r)
  BY <1>1, <1>10 DEF PaidRejected, At, SentLater, Active, RowsKept, PaymentStatus
<1>11. CASE PaidAmbiguous(r)
  BY <1>1, <1>11 DEF PaidAmbiguous, At, SentLater, Active, RowsKept, PaymentStatus
<1>12. CASE PaidLost(r)
  BY <1>1, <1>12 DEF PaidLost, NoSave, At, SentLater, Active, RowsKept, PaymentStatus
<1> QED
  BY <1>2, <1>3, <1>4, <1>5, <1>6, <1>7, <1>8, <1>9, <1>10, <1>11, <1>12 DEF Handle

\* Quoting and reserving: a payment that is opened is new to the journal, and one
\* that is resumed goes on only if the seller deduplicates.
LEMMA AtReservation ==
  ASSUME TypeInv, BudgetInv, SentLater, NEW r \in Request, Quote(r) \/ Reserve(r)
  PROVE  /\ auth' = auth /\ auth[r] = "none" /\ ~isNew[r]
         /\ RowsKept
         /\ \/ /\ isNew'[r] = TRUE
               /\ payment'[r] \in Payment
               /\ payment'[r].payment_id \notin DOMAIN journal
               /\ InRow(r)'
            \/ /\ isNew'[r] = FALSE
               /\ pc'[r] \in Active => payment'[r].resource \in SupportsId /\ InRow(r)'
<1> USE DEF TypeInv, TypeOK, Goto
<1>1. CASE Quote(r)
  <2>1. auth[r] = "none" /\ ~isNew[r]
    BY <1>1 DEF Quote, At, SentLater, BudgetInv, ChargedAsOpened
  <2> QED
    BY <1>1, <2>1 DEF Quote, Active, RowsKept
<1>2. CASE Reserve(r)
  <2>1. auth[r] = "none" /\ ~isNew[r] /\ payment[r] \in Payment
    BY <1>2 DEF Reserve, At, SentLater, BudgetInv, ChargedAsOpened, PaymentKnown, Running
  <2>2. auth' = auth /\ RowsKept
    BY <1>2 DEF Reserve, AfterReserve, Opens, Put, RowsKept
  <2>3. CASE /\ Refuses(journal, payment[r], now) /\ Goto(r, "refused")
             /\ UNCHANGED <<payment, isNew>>
    BY <2>1, <2>2, <2>3 DEF Active
  <2>4. CASE /\ Opens(journal, payment[r], now)
             /\ isNew' = [isNew EXCEPT ![r] = TRUE] /\ UNCHANGED payment
    BY <1>2, <2>1, <2>2, <2>4 DEF Reserve, Opens, AfterReserve, Put, InRow
  <2>5. CASE /\ Resumes(journal, payment[r])
             /\ payment' = [payment EXCEPT ![r] = journal[payment[r].payment_id]]
             /\ Goto(r, IF payment[r].resource \in SupportsId THEN "signing" ELSE "refused")
             /\ UNCHANGED isNew
    <3>1. payment'[r].resource = payment[r].resource
      BY <2>5 DEF Resumes, SameLogicalPayment
    <3>2. InRow(r)'
      <4>1. payment[r].payment_id \in DOMAIN journal
        BY <2>5 DEF Resumes
      <4>2. journal[payment[r].payment_id].payment_id = payment[r].payment_id
        BY <4>1 DEF IsJournal
      <4> QED
        BY <2>2, <2>5, <4>1, <4>2 DEF InRow, RowsKept
    <3> QED
      BY <2>1, <2>2, <2>5, <3>1, <3>2 DEF Active
  <2> QED
    BY <1>2, <2>3, <2>4, <2>5 DEF Reserve, Admit
<1> QED
  BY <1>1, <1>2

LEMMA HandleOnce ==
  ASSUME TypeInv, BudgetInv, OnceInv, FailClosed, NEW r \in Request, Handle(r)
  PROVE  OnceInv'
<1>1. /\ SentLater /\ OpenedOnce /\ UnsupportedOpened /\ TermsInRow
      /\ SettledOncePerId
      /\ \A q \in Request : isNew[q] \in BOOLEAN
      /\ \A q \in Request : payment[q] \in Payment => payment[q] # NoPayment
  BY ClientAssumption DEF OnceInv, TypeInv, TypeOK
<1>2. \A q \in Request \ {r} : /\ pc'[q] = pc[q]
                               /\ payment'[q] = payment[q]
                               /\ isNew'[q] = isNew[q]
                               /\ auth'[q] = auth[q]
  BY HandleLocal
<1>3. CASE Quote(r) \/ Reserve(r)
  <2>1. /\ auth' = auth /\ auth[r] = "none" /\ ~isNew[r]
        /\ RowsKept
        /\ \/ /\ isNew'[r] = TRUE
              /\ payment'[r] \in Payment
              /\ payment'[r].payment_id \notin DOMAIN journal
              /\ InRow(r)'
           \/ /\ isNew'[r] = FALSE
              /\ pc'[r] \in Active => payment'[r].resource \in SupportsId /\ InRow(r)'
    BY <1>1, <1>3, AtReservation
  <2>2. SentLater'
    BY <1>1, <1>2, <2>1 DEF SentLater
  <2>3. OpenedOnce'
    BY <1>1, <1>2, <2>1 DEF OpenedOnce, RowsKept, InRow
  <2>4. UnsupportedOpened'
    BY <1>1, <1>2, <2>1 DEF UnsupportedOpened
  <2>5. SettledOncePerId'
    BY <1>1, <1>2, <2>1 DEF SettledOncePerId, SameId
  <2>6. TermsInRow'
    BY <1>1, <1>2, <2>1 DEF TermsInRow, InRow, RowsKept, Active
  <2> QED
    BY <2>2, <2>3, <2>4, <2>5, <2>6 DEF OnceInv
<1>4. CASE ~Quote(r) /\ ~Reserve(r)
  <2>1. /\ isNew' = isNew
        /\ RowsKept
        /\ \/ payment'[r] = payment[r]
           \/ /\ payment[r] \in Payment /\ payment'[r] \in Payment
              /\ payment'[r].payment_id = payment[r].payment_id
              /\ payment'[r].resource = payment[r].resource
        /\ pc'[r] \in Active => pc[r] \in Active
        /\ auth'[r] # "none" =>
             /\ auth[r] # "none" \/ pc[r] = "signing"
             /\ pc'[r] \notin {"idle", "probing", "quoted", "reserved", "signing"}
             /\ payment[r] \in Payment
        /\ auth'[r] = "settled" => auth[r] = "settled"
    BY <1>1, <1>4, PastReservation
  <2>2. SentLater'
    BY <1>1, <1>2, <2>1 DEF SentLater
  <2>3. OpenedOnce'
    BY <1>1, <1>2, <2>1 DEF OpenedOnce, RowsKept, InRow
  <2>4. UnsupportedOpened'
    BY <1>1, <1>2, <2>1 DEF UnsupportedOpened, Active
  <2>5. \A q \in Request : auth'[q] = "settled" =>
          /\ auth[q] = "settled"
          /\ payment[q] \in Payment
          /\ payment'[q].payment_id = payment[q].payment_id
    BY <1>1, <1>2, <2>1 DEF SentLater
  <2>6. SettledOncePerId'
    BY <1>1, <2>5 DEF SettledOncePerId, SameId
  <2>7. TermsInRow'
    BY <1>1, <1>2, <2>1 DEF TermsInRow, InRow, RowsKept, Active
  <2> QED
    BY <2>2, <2>3, <2>4, <2>6, <2>7 DEF OnceInv
<1> QED
  BY <1>3, <1>4

\* The invariants of this section together: they need no care of the callers.
AllOnce == TypeInv /\ BudgetInv /\ OnceInv

LEMMA SignedOnce == OnceInv => UnsupportedIdSignedOnce
<1> SUFFICES ASSUME OnceInv, NEW q \in Request, NEW r \in Request,
                    auth[q] # "none", auth[r] # "none", SameId(q, r),
                    payment[r].resource \notin SupportsId
             PROVE  q = r
  BY DEF UnsupportedIdSignedOnce
<1>1. payment[q].resource = payment[r].resource
  BY DEF OnceInv, TermsInRow, InRow, SameId
<1>2. isNew[q] /\ isNew[r]
  BY <1>1 DEF OnceInv, UnsupportedOpened
<1> QED
  BY <1>2 DEF OnceInv, OpenedOnce, SameId

LEMMA SettleOnce ==
  ASSUME TypeInv, OnceInv, NEW r \in Request, Settle(r)
  PROVE  OnceInv'
<1>1. /\ UNCHANGED <<journal, pc, payment, isNew>>
      /\ auth[r] = "sent" /\ auth'[r] = "settled"
      /\ \A q \in Request \ {r} : auth'[q] = auth[q]
      /\ payment[r].resource \in SupportsId =>
           ~\E q \in Request : /\ auth[q] = "settled"
                               /\ payment[q].payment_id = payment[r].payment_id
  BY DEF Settle, locals, TypeInv, TypeOK
<1>2. SentLater' /\ OpenedOnce' /\ UnsupportedOpened' /\ TermsInRow'
  BY <1>1 DEF OnceInv, SentLater, OpenedOnce, UnsupportedOpened, TermsInRow, InRow
<1>3. \A q \in Request : auth[q] = "settled" /\ SameId(q, r) => q = r
  BY <1>1, SignedOnce DEF UnsupportedIdSignedOnce, SameId
<1>4. SettledOncePerId'
  BY <1>1, <1>3 DEF OnceInv, SettledOncePerId, SameId
<1> QED
  BY <1>2, <1>4 DEF OnceInv

LEMMA NextOnce == FailClosed /\ AllOnce /\ [Next]_vars => OnceInv'
<1> SUFFICES ASSUME FailClosed, AllOnce, [Next]_vars PROVE OnceInv'
  OBVIOUS
<1> USE DEF AllOnce
<1>1. ASSUME NEW r \in Request, Handle(r) PROVE OnceInv'
  BY <1>1, HandleOnce
<1>2. ASSUME NEW r \in Request, Settle(r) PROVE OnceInv'
  BY <1>2, SettleOnce
<1>3. CASE /\ UNCHANGED <<journal, payment, isNew, auth>>
           /\ \A q \in Request : pc'[q] = pc[q] \/ pc'[q] = "dead"
  BY <1>3
     DEF OnceInv, SentLater, OpenedOnce, UnsupportedOpened, TermsInRow, InRow,
         SettledOncePerId, SameId, Active
<1>4. ASSUME NEW r \in Request, Cancel(r) PROVE OnceInv'
  BY <1>3, <1>4 DEF Cancel, NoSave, Goto, TypeInv, TypeOK
<1>5. ASSUME NEW s \in Session, Crash(s) PROVE OnceInv'
  BY <1>3, <1>5 DEF Crash
<1>6. CASE Tick
  BY <1>3, <1>6 DEF Tick, locals
<1>7. CASE UNCHANGED vars
  BY <1>3, <1>7 DEF vars
<1> QED
  BY <1>1, <1>2, <1>4, <1>5, <1>6, <1>7 DEF Next, Terminated

LEMMA OnceInvariance == ASSUME FailClosed PROVE Spec => []AllOnce
<1>1. Init => OnceInv
  BY DEF Init, OnceInv, SentLater, OpenedOnce, UnsupportedOpened, TermsInRow,
         SettledOncePerId, Active
<1>2. Init => AllOnce
  BY <1>1, InitTypeInv, InitBudgetInv DEF AllOnce
<1>3. AllOnce /\ [Next]_vars => AllOnce'
  BY NextTypeInv, NextBudgetInv, NextOnce DEF AllOnce
<1> QED
  BY <1>2, <1>3, PTL DEF Spec

\* Whatever the callers do with payment IDs, an ID is signed for once unless the
\* seller deduplicates it.
THEOREM SignedOncePerId ==
  ASSUME FailClosed PROVE Spec => []UnsupportedIdSignedOnce
<1>1. Spec => []AllOnce
  BY OnceInvariance
<1>2. AllOnce => UnsupportedIdSignedOnce
  BY SignedOnce DEF AllOnce
<1> QED
  BY <1>1, <1>2, PTL

\* Whatever the callers do with payment IDs, no payment is settled twice.
THEOREM NoDoubleSettlement ==
  ASSUME FailClosed PROVE Spec => []SettledOncePerId
<1>1. Spec => []AllOnce
  BY OnceInvariance
<1>2. AllOnce => SettledOncePerId
  BY DEF AllOnce, OnceInv
<1> QED
  BY <1>1, <1>2, PTL

-----------------------------------------------------------------------------
(* The budget covers what settles, when no call of the store fails.         *)

\* While its process lives, who opened a payment stays charged for it until the
\* journal has closed it.
Accounted(r) ==
  isNew[r] =>
    /\ journal[payment[r].payment_id].amount = payment[r].amount
    /\ \/ ClientOf[r] \in crashed \/ pc[r] = "reserved" \/ charged[r]
       \/ journal[payment[r].payment_id].status \in ClosedStatuses

Accounts == \A r \in Request : Accounted(r)

CoverInv == Inv /\ OnceInv /\ Accounts

\* A row keeps its amount, and stays closed once it is.
LEMMA RowsStay ==
  ASSUME FailClosed, Inv, [Next]_vars, NEW id \in DOMAIN journal
  PROVE  /\ id \in DOMAIN journal'
         /\ journal'[id].amount = journal[id].amount
         /\ journal[id].status \in ClosedStatuses => journal'[id].status \in ClosedStatuses
<1>1. journal[id].status \in ClosedStatuses => journal'[id].status \in ClosedStatuses
  BY StepKeepsFinal
<1>2. ASSUME NEW r \in Request, Handle(r)
      PROVE  id \in DOMAIN journal' /\ journal'[id].amount = journal[id].amount
  <2>1. CASE journal' = journal
    BY <2>1
  <2>2. CASE Opens(journal, payment[r], now) /\ journal' = Put(journal, payment[r])
    BY <2>2 DEF Opens, Put
  <2>3. ASSUME NEW p \in Payment, p.payment_id \in DOMAIN journal,
               SameLogicalPayment(journal[p.payment_id], p), journal' = Put(journal, p)
        PROVE  id \in DOMAIN journal' /\ journal'[id].amount = journal[id].amount
    BY <2>3 DEF Put, SameLogicalPayment
  <2> QED
    BY <1>2, <2>1, <2>2, <2>3, HandleJournal
<1>3. CASE UNCHANGED journal
  BY <1>3
<1> QED
  BY <1>1, <1>2, <1>3 DEF Next, Terminated, vars, Cancel, NoSave, Settle, Crash, Tick

\* A save of the opener writes the row of its payment, and a refund comes with one
\* that closes it.
LEMMA SaveAccounts ==
  ASSUME ~StoreMayFail, FailClosed, CoverInv, NEW r \in Request,
         pc[r] \in {"reserved", "signing", "paying"},
         NEW status \in PaymentStatus, NEW next \in Finished \cup {"paying", "caching"},
         Save(r, status, next), UNCHANGED <<isNew, crashed>>,
         \/ status \in ClosedStatuses
         \/ pc[r] # "reserved" /\ charged'[r] = charged[r]
  PROVE  Accounted(r)'
<1>1. /\ TypeInv /\ CopyIsRow /\ StatusByPlace /\ pc[r] \in Active
      /\ payment[r] \in Payment /\ ChargedAsOpened
  BY DEF CoverInv, Inv, RowsInv, Active, BudgetInv, TypeInv, PaymentKnown, Running
<1>2. /\ payment'[r] = [payment[r] EXCEPT !.status = status]
      /\ journal' = Put(journal, payment'[r])
  BY <1>1 DEF Save, CopyIsRow, TypeInv, TypeOK, Payment
<1>3. /\ payment'[r].status = status
      /\ journal'[payment'[r].payment_id] = payment'[r]
  BY <1>1, <1>2 DEF Put, Payment
<1>4. CASE status \in ClosedStatuses
  BY <1>3, <1>4 DEF Accounted
<1>5. CASE pc[r] \in {"signing", "paying"} /\ charged'[r] = charged[r]
  <2>1. isNew[r] => charged[r]
    BY <1>1, <1>5 DEF ChargedAsOpened
  <2> QED
    BY <1>3, <1>5, <2>1 DEF Accounted
<1> QED
  BY <1>4, <1>5

\* A step of a handler that saves nothing and refunds nothing.
LEMMA QuietAccounts ==
  ASSUME FailClosed, CoverInv, [Next]_vars, NEW r \in Request, UNCHANGED <<payment, isNew>>,
         charged[r] => charged'[r],
         pc[r] = "reserved" => pc'[r] = "reserved" \/ charged'[r] \/ ClientOf[r] \in crashed',
         crashed \subseteq crashed'
  PROVE  Accounted(r)'
<1>1. isNew[r] => payment[r].payment_id \in DOMAIN journal
  BY DEF CoverInv, OnceInv, OpenedOnce
<1>2. Accounted(r)
  BY DEF CoverInv, Accounts
<1>3. isNew[r] =>
        LET id == payment[r].payment_id IN
        /\ journal'[id].amount = journal[id].amount
        /\ journal[id].status \in ClosedStatuses => journal'[id].status \in ClosedStatuses
  BY <1>1, RowsStay DEF CoverInv
<1> QED
  BY <1>2, <1>3 DEF Accounted

\* Each step of a handler leaves its own payment accounted for.
LEMMA HandleAccounts ==
  ASSUME ~StoreMayFail, FailClosed, CoverInv, [Next]_vars, NEW r \in Request, Handle(r)
  PROVE  Accounted(r)'
<1>1. /\ TypeInv /\ ChargedAsOpened /\ StatusByPlace
      /\ charged \in [Request -> BOOLEAN] /\ isNew \in [Request -> BOOLEAN]
      /\ crashed' = crashed
  BY DEF CoverInv, Inv, BudgetInv, RowsInv, TypeInv, TypeOK, Handle, Replay, Probe,
         NothingToPay, Quote, Reserve, ReserveUnavailable, ChargeBudget, BlockOnBudget,
         SignFails, SignAndSend, PaidSuccess, CacheResponse, PaidRejected, PaidAmbiguous,
         PaidLost
<1>2. CASE Replay(r) \/ Probe(r) \/ NothingToPay(r)
  BY <1>1, <1>2, QuietAccounts DEF Replay, Probe, NothingToPay, At
<1>3. CASE Quote(r)
  BY <1>1, <1>3 DEF Quote, At, ChargedAsOpened, Accounted
<1>4. CASE Reserve(r)
  <2>1. ~isNew[r] /\ payment[r] \in Payment
    BY <1>1, <1>4 DEF Reserve, At, ChargedAsOpened, TypeInv, PaymentKnown, Running
  <2>2. CASE Opens(journal, payment[r], now) /\ Goto(r, "reserved") /\ UNCHANGED payment
    <3>1. journal'[payment'[r].payment_id] = payment'[r] /\ pc'[r] = "reserved"
      BY <1>1, <1>4, <2>2 DEF Reserve, AfterReserve, Put, Goto, TypeInv, TypeOK
    <3> QED
      BY <3>1 DEF Accounted
  <2>3. CASE UNCHANGED isNew
    BY <2>1, <2>3 DEF Accounted
  <2> QED
    BY <1>4, <2>2, <2>3 DEF Reserve, Admit
<1>5. CASE ReserveUnavailable(r)
  BY <1>5 DEF ReserveUnavailable
<1>6. CASE ChargeBudget(r)
  <2>1. charged'[r] /\ UNCHANGED <<payment, isNew>>
    BY <1>1, <1>6 DEF ChargeBudget, NoSave
  <2> QED
    BY <1>1, <2>1, QuietAccounts
<1>7. CASE BlockOnBudget(r)
  BY <1>1, <1>7, SaveAccounts
     DEF BlockOnBudget, At, PaymentStatus, ClosedStatuses, Finished
<1>8. CASE SignFails(r)
  <2>1. CASE isNew[r]
    BY <1>1, <1>8, <2>1, SaveAccounts
       DEF SignFails, At, PaymentStatus, ClosedStatuses, Finished
  <2>2. CASE ~isNew[r]
    BY <1>8, <2>2 DEF SignFails, Accounted
  <2> QED
    BY <2>1, <2>2
<1>9. CASE SignAndSend(r)
  <2>1. CASE payment[r].status = "pending"
    BY <1>1, <1>9, <2>1, SaveAccounts DEF SignAndSend, At, PaymentStatus
  <2>2. CASE payment[r].status # "pending"
    BY <1>1, <1>9, <2>2, QuietAccounts DEF SignAndSend, At, NoSave
  <2> QED
    BY <2>1, <2>2
<1>10. CASE PaidSuccess(r)
  BY <1>1, <1>10, SaveAccounts DEF PaidSuccess, At, PaymentStatus, Finished
<1>11. CASE CacheResponse(r)
  BY <1>1, <1>11, QuietAccounts DEF CacheResponse, At, NoSave
<1>12. CASE PaidRejected(r)
  <2>1. CASE isNew[r]
    BY <1>1, <1>12, <2>1, SaveAccounts
       DEF PaidRejected, At, PaymentStatus, ClosedStatuses, Finished
  <2>2. CASE ~isNew[r]
    BY <1>12, <2>2 DEF PaidRejected, Accounted
  <2> QED
    BY <2>1, <2>2
<1>13. CASE PaidAmbiguous(r)
  BY <1>1, <1>13, SaveAccounts DEF PaidAmbiguous, At, PaymentStatus, Finished
<1>14. CASE PaidLost(r)
  <2>1. CASE payment[r].status = "success"
    BY <1>1, <1>14, <2>1, QuietAccounts DEF PaidLost, At, NoSave
  <2>2. CASE payment[r].status # "success"
    BY <1>1, <1>14, <2>2, SaveAccounts DEF PaidLost, At, PaymentStatus, Finished
  <2> QED
    BY <2>1, <2>2
<1> QED
  BY <1>2, <1>3, <1>4, <1>5, <1>6, <1>7, <1>8, <1>9, <1>10, <1>11, <1>12, <1>13, <1>14
     DEF Handle

LEMMA NextAccounts == ~StoreMayFail /\ FailClosed /\ CoverInv /\ [Next]_vars => Accounts'
<1> SUFFICES ASSUME ~StoreMayFail, FailClosed, CoverInv, [Next]_vars, NEW q \in Request
             PROVE  Accounted(q)'
  BY DEF Accounts
<1>1. TypeInv
  BY DEF CoverInv, Inv
<1>2. ASSUME NEW r \in Request, Handle(r), r # q PROVE Accounted(q)'
  <2>1. /\ pc'[q] = pc[q] /\ payment'[q] = payment[q] /\ isNew'[q] = isNew[q]
    BY <1>1, <1>2, HandleLocal
  <2>2. charged'[q] = charged[q] /\ crashed' = crashed
    BY <1>1, <1>2
       DEF TypeInv, TypeOK, Handle, Replay, Probe, NothingToPay, Quote, Reserve,
           ReserveUnavailable, ChargeBudget, BlockOnBudget, SignFails, SignAndSend,
           PaidSuccess, CacheResponse, PaidRejected, PaidAmbiguous, PaidLost, Refund
  <2>3. isNew[q] => payment[q].payment_id \in DOMAIN journal
    BY DEF CoverInv, OnceInv, OpenedOnce
  <2>4. isNew[q] =>
          LET id == payment[q].payment_id IN
          /\ journal'[id].amount = journal[id].amount
          /\ journal[id].status \in ClosedStatuses => journal'[id].status \in ClosedStatuses
    BY <2>3, RowsStay DEF CoverInv
  <2> QED
    BY <2>1, <2>2, <2>4 DEF CoverInv, Accounts, Accounted
<1>3. ASSUME NEW r \in Request, Cancel(r) \/ Settle(r) PROVE Accounted(q)'
  BY <1>1, <1>3, QuietAccounts
     DEF Cancel, Settle, NoSave, Goto, Awaiting, locals, TypeInv, TypeOK
<1>4. ASSUME NEW s \in Session, Crash(s) PROVE Accounted(q)'
  BY <1>4, QuietAccounts DEF Crash
<1>5. CASE Tick \/ UNCHANGED vars
  BY <1>5, QuietAccounts DEF Tick, vars, locals
<1> QED
  BY <1>2, <1>3, <1>4, <1>5, HandleAccounts DEF Next, Terminated

LEMMA CoverInvariance ==
  ASSUME SerialIds, FailClosed, ~StoreMayFail PROVE Spec => []CoverInv
<1>1. Init => Accounts
  BY DEF Init, Accounts, Accounted
<1>2. CoverInv /\ [Next]_vars => Accounts'
  BY NextAccounts
<1>3. Spec => []Inv
  BY Invariance
<1>4. Spec => []AllOnce
  BY OnceInvariance
<1>5. Inv /\ AllOnce => Inv /\ OnceInv
  BY DEF AllOnce
<1>6. CoverInv <=> Inv /\ OnceInv /\ Accounts
  BY DEF CoverInv
<1> QED
  BY <1>1, <1>2, <1>3, <1>4, <1>5, <1>6, PTL DEF Spec

\* Each settled payment of a session is charged to the one request that opened it.
LEMMA CoverHolds == CoverInv => BudgetCoversSettled
<1> SUFFICES ASSUME CoverInv, NEW s \in Session \ crashed
             PROVE  /\ Cardinality(Units(SettledOpenedBy(s), Amounts(journal))) <= spent[s]
                    /\ spent[s] <= Budget
  BY DEF BudgetCoversSettled
<1> DEFINE Opener(id, r) == isNew[r] /\ ClientOf[r] = s /\ payment[r].payment_id = id
           opener(id) == CHOOSE r \in Request : Opener(id, r)
<1>1. /\ SentLater /\ SentByOpener /\ ClosedMeansUnpayable /\ OpenedOnce /\ Accounts
      /\ BudgetIsExact
  BY DEF CoverInv, Inv, RowsInv, OnceInv, BudgetInv
<1>2. ASSUME NEW id \in SettledOpenedBy(s)
      PROVE  LET r == opener(id) IN
             /\ r \in ChargedTo(s) /\ Opener(id, r)
             /\ Amounts(journal)[id] = ChargedAmounts[r]
  <2> DEFINE r == opener(id)
  <2>1. id \in DOMAIN journal /\ r \in Request /\ Opener(id, r)
    BY DEF SettledOpenedBy
  <2>2. PICK q \in Request : auth[q] = "settled" /\ payment[q].payment_id = id
    BY DEF SettledOpenedBy, SameId
  <2> HIDE DEF r, opener
  <2>3. journal[id].status \notin ClosedStatuses
    BY <1>1, <2>2 DEF ClosedMeansUnpayable, ClosedStatuses, CommittedStatuses
  <2>4. pc[r] # "reserved"
    BY <1>1, <2>1, <2>2 DEF SentByOpener, SentLater
  <2>5. charged[r] /\ journal[id].amount = payment[r].amount
    BY <1>1, <2>1, <2>3, <2>4 DEF Accounts, Accounted
  <2> QED
    BY <2>1, <2>5 DEF ChargedTo, ChargedAmounts, Amounts, r
<1> DEFINE S == Units(SettledOpenedBy(s), Amounts(journal))
           T == Units(ChargedTo(s), ChargedAmounts)
           f == [u \in S |-> <<opener(u[1]), u[2]>>]
<1>3. \A u \in S : /\ u = <<u[1], u[2]>> /\ u[1] \in SettledOpenedBy(s)
                   /\ u[2] \in 1..MaxAmount /\ u[2] <= Amounts(journal)[u[1]]
  BY DEF Units
<1> HIDE DEF opener
<1>4. \A u \in S : f[u] \in T
  BY <1>2, <1>3 DEF Units
<1>5. ASSUME NEW u \in S, NEW v \in S, f[u] = f[v] PROVE u = v
  <2>1. opener(u[1]) = opener(v[1]) /\ u[2] = v[2]
    BY <1>5
  <2>2. u[1] = v[1]
    BY <1>2, <1>3, <2>1
  <2> QED
    BY <1>3, <2>1, <2>2
<1>6. f \in Injection(S, T)
  BY <1>4, <1>5 DEF Injection, IsInjective
<1>7. IsFiniteSet(T)
  BY ChargedFinite, UnitsFinite
<1>8. Cardinality(S) <= Cardinality(T)
  BY <1>6, <1>7, FS_Injection
<1> QED
  BY <1>1, <1>8 DEF BudgetIsExact

\* With callers that use an ID in one live request at a time, a policy that fails
\* closed and a store that answers, a refund is never given for money that moves.
THEOREM BudgetCovers ==
  ASSUME SerialIds, FailClosed, ~StoreMayFail PROVE Spec => []BudgetCoversSettled
<1>1. Spec => []CoverInv
  BY CoverInvariance
<1>2. CoverInv => BudgetCoversSettled
  BY CoverHolds
<1> QED
  BY <1>1, <1>2, PTL

-----------------------------------------------------------------------------
(* The idempotency cache. *)

\* A response that was kept, for the whole run, is still there.
CacheKept ==
  /\ \A r \in Request : pc[r] = "caching" => IdemTtl > 0
  /\ \A r \in Request :
       IdemTtl >= MaxTime /\ pc[r] = "cached" => IdemTtl > 0 /\ Entry(r) >= IdemTtl

LEMMA KeptIsFresh ==
  ASSUME TypeInv, CacheKept, NEW q \in Request, NEW r \in Request, IdemTtl >= MaxTime,
         ClientOf[q] = ClientOf[r], ResourceOf[q] = ResourceOf[r], pc[q] = "cached"
  PROVE  Fresh(r)
BY ClientAssumption DEF TypeInv, TypeOK, CacheKept, Entry, Fresh

LEMMA NextCache == TypeInv /\ CacheKept /\ [Next]_vars => CacheKept'
<1> SUFFICES ASSUME TypeInv, CacheKept, [Next]_vars PROVE CacheKept'
  OBVIOUS
<1>1. /\ pc \in [Request -> {"idle"} \cup Suspended \cup Finished]
      /\ idem \in [Session -> [Resource -> Nat]]
      /\ now \in 0..MaxTime
      /\ \A r \in Request : ClientOf[r] \in Session /\ ResourceOf[r] \in Resource
      /\ IdemTtl \in Nat /\ MaxTime \in Nat
  BY ClientAssumption DEF TypeInv, TypeOK
<1>2. CASE /\ UNCHANGED idem
           /\ \A q \in Request : pc'[q] = pc[q] \/ pc'[q] \notin {"caching", "cached"}
  BY <1>2 DEF CacheKept, Entry
<1>3. ASSUME NEW r \in Request, Handle(r) PROVE CacheKept'
  <2>1. \A q \in Request \ {r} : pc'[q] = pc[q]
    BY <1>3, HandleLocal
  <2>2. CASE Probe(r)
    <3>1. ~Fresh(r) /\ pc'[r] = "probing"
      BY <1>1, <2>2 DEF Probe, Goto
    <3>2. \A q \in Request :
            IdemTtl >= MaxTime /\ pc[q] = "cached" => Entry(q)' = Entry(q)
      <4> SUFFICES ASSUME NEW q \in Request, IdemTtl >= MaxTime, pc[q] = "cached"
                   PROVE  Entry(q)' = Entry(q)
        OBVIOUS
      <4>1. ~(ClientOf[q] = ClientOf[r] /\ ResourceOf[q] = ResourceOf[r])
        BY <3>1, KeptIsFresh
      <4> QED
        BY <1>1, <2>2, <4>1 DEF Probe, Entry
    <3> QED
      BY <2>1, <3>1, <3>2 DEF CacheKept
  <2>3. CASE CacheResponse(r)
    <3>1. IdemTtl > 0 /\ pc'[r] = "cached" /\ Entry(r)' = now + IdemTtl
      BY <1>1, <2>3 DEF CacheResponse, At, NoSave, Goto, CacheKept, Entry
    <3>2. \A q \in Request : Entry(q)' = Entry(q) \/ Entry(q)' = now + IdemTtl
      BY <1>1, <2>3 DEF CacheResponse, Entry
    <3>3. now + IdemTtl >= IdemTtl
      BY <1>1
    <3> QED
      BY <2>1, <3>1, <3>2, <3>3 DEF CacheKept
  <2>4. CASE PaidSuccess(r)
    <3>1. /\ UNCHANGED idem /\ pc'[r] # "cached"
          /\ pc'[r] = "caching" => IdemTtl > 0
      BY <1>1, <2>4 DEF PaidSuccess, Save, Goto
    <3> QED
      BY <2>1, <3>1 DEF CacheKept, Entry
  <2>5. CASE ~Probe(r) /\ ~CacheResponse(r) /\ ~PaidSuccess(r)
    <3>1. UNCHANGED idem
      BY <1>3, <2>5
         DEF Handle, Replay, NothingToPay, Quote, Reserve, ReserveUnavailable, ChargeBudget,
             BlockOnBudget, SignFails, SignAndSend, PaidRejected, PaidAmbiguous, PaidLost
    <3>2. pc'[r] \notin {"caching", "cached"}
      <4> USE <1>1 DEF Goto
      <4>1. CASE Replay(r) \/ NothingToPay(r) \/ Quote(r)
        BY <4>1 DEF Replay, NothingToPay, Quote
      <4>2. CASE Reserve(r) \/ ReserveUnavailable(r)
        BY <4>2 DEF Reserve, ReserveUnavailable, Admit
      <4>3. CASE ChargeBudget(r) \/ BlockOnBudget(r) \/ SignFails(r) \/ SignAndSend(r)
        BY <4>3 DEF ChargeBudget, BlockOnBudget, SignFails, SignAndSend, Save, NoSave
      <4>4. CASE PaidRejected(r) \/ PaidAmbiguous(r) \/ PaidLost(r)
        BY <4>4 DEF PaidRejected, PaidAmbiguous, PaidLost, Save, NoSave
      <4> QED
        BY <1>3, <2>5, <4>1, <4>2, <4>3, <4>4 DEF Handle
    <3> QED
      BY <1>2, <2>1, <3>1, <3>2
  <2> QED
    BY <2>2, <2>3, <2>4, <2>5
<1>4. ASSUME NEW r \in Request, Cancel(r) \/ Settle(r) PROVE CacheKept'
  <2>1. UNCHANGED idem /\ \A q \in Request : pc'[q] = pc[q] \/ pc'[q] = "dead"
    BY <1>1, <1>4 DEF Cancel, Settle, NoSave, Goto, locals
  <2> QED
    BY <1>2, <2>1
<1>5. ASSUME NEW s \in Session, Crash(s) PROVE CacheKept'
  <2>1. UNCHANGED idem /\ \A q \in Request : pc'[q] = pc[q] \/ pc'[q] = "dead"
    BY <1>5 DEF Crash
  <2> QED
    BY <1>2, <2>1
<1>6. CASE Tick \/ UNCHANGED vars
  <2>1. UNCHANGED <<idem, pc>>
    BY <1>6 DEF Tick, vars, locals
  <2> QED
    BY <1>2, <2>1
<1> QED
  BY <1>3, <1>4, <1>5, <1>6 DEF Next, Terminated

\* Only a probe starts probing, and it does so on a miss.
LEMMA ProbesOnMiss ==
  ASSUME TypeInv, NEW r \in Request, [Next]_vars, pc[r] = "idle", pc'[r] = "probing"
  PROVE  ~Fresh(r)
<1>1. ASSUME NEW q \in Request, Handle(q) PROVE ~Fresh(r)
  <2>1. q = r
    BY <1>1, HandleLocal
  <2> QED
    BY <1>1, <2>1
       DEF TypeInv, TypeOK, Goto, Handle, Replay, Probe, NothingToPay, Quote, Reserve,
           ReserveUnavailable, ChargeBudget, BlockOnBudget, SignFails, SignAndSend,
           PaidSuccess, CacheResponse, PaidRejected, PaidAmbiguous, PaidLost, At
<1>2. ASSUME NEW q \in Request, Cancel(q) \/ Settle(q) PROVE FALSE
  BY <1>2 DEF Cancel, Settle, NoSave, Goto, locals, TypeInv, TypeOK
<1>3. ASSUME NEW s \in Session, Crash(s) PROVE FALSE
  BY <1>3 DEF Crash
<1>4. CASE Tick \/ UNCHANGED vars
  BY <1>4 DEF Tick, vars, locals
<1> QED
  BY <1>1, <1>2, <1>3, <1>4 DEF Next, Terminated

\* While a paid response is kept, no repeat of the request in the same session
\* reaches the network, whatever happens in between.
THEOREM ReplayHolds == Spec => RepeatReplays
<1>1. Init => TypeInv /\ CacheKept
  BY InitTypeInv DEF Init, CacheKept
<1>2. TypeInv /\ CacheKept /\ [Next]_vars => (TypeInv /\ CacheKept)'
  BY NextTypeInv, NextCache
<1>3. TypeInv /\ CacheKept /\ [Next]_vars =>
        [\A q, r \in Request :
           /\ IdemTtl >= MaxTime
           /\ ClientOf[q] = ClientOf[r] /\ ResourceOf[q] = ResourceOf[r]
           /\ pc[q] = "cached"
           => ~(pc[r] = "idle" /\ pc'[r] = "probing")]_vars
  BY KeptIsFresh, ProbesOnMiss
<1> QED
  BY <1>1, <1>2, <1>3, PTL DEF Spec, RepeatReplays

-----------------------------------------------------------------------------

(* What the openers of payments have at stake. *)

\* Nothing is sent before the signature, and what the opener of a payment has
\* sent stays charged until the seller rejects it.
StakeInv ==
  \A r \in Request :
    /\ pc[r] \in {"idle", "probing", "quoted", "reserved", "signing"} => auth[r] = "none"
    /\ isNew[r] /\ auth[r] \in {"sent", "settled"} => charged[r]

\* A handler's step on its own request.
LEMMA HandleStake ==
  ASSUME TypeInv, BudgetInv, StakeInv, NEW r \in Request, Handle(r)
  PROVE  StakeInv'
<1>0. /\ \A q \in Request \ {r} : /\ pc'[q] = pc[q] /\ isNew'[q] = isNew[q] /\ auth'[q] = auth[q]
                                  /\ charged'[q] = charged[q]
      /\ charged \in [Request -> BOOLEAN]
  <2>1. charged' = charged \/ \E b \in BOOLEAN : charged' = [charged EXCEPT ![r] = b]
    <3>1. CASE Replay(r) \/ Probe(r) \/ NothingToPay(r) \/ Quote(r) \/ Reserve(r) \/ ReserveUnavailable(r)
      BY <3>1 DEF Replay, Probe, NothingToPay, Quote, Reserve, ReserveUnavailable
    <3>2. CASE ChargeBudget(r) \/ BlockOnBudget(r) \/ SignFails(r) \/ SignAndSend(r)
      BY <3>2 DEF ChargeBudget, BlockOnBudget, SignFails, SignAndSend, Refund
    <3>3. CASE PaidSuccess(r) \/ CacheResponse(r) \/ PaidRejected(r) \/ PaidAmbiguous(r) \/ PaidLost(r)
      BY <3>3 DEF PaidSuccess, CacheResponse, PaidRejected, PaidAmbiguous, PaidLost, Refund
    <3> QED
      BY <3>1, <3>2, <3>3 DEF Handle
  <2> QED
    BY <2>1, HandleLocal DEF TypeInv, TypeOK
<1> SUFFICES
      /\ pc'[r] \in {"idle", "probing", "quoted", "reserved", "signing"} => auth'[r] = "none"
      /\ isNew'[r] /\ auth'[r] \in {"sent", "settled"} => charged'[r]
  BY <1>0 DEF StakeInv
<1> USE DEF At, Goto
<1>1. /\ ChargedAsOpened
      /\ pc \in [Request -> {"idle"} \cup Suspended \cup Finished] /\ auth \in [Request -> AuthState]
      /\ isNew \in [Request -> BOOLEAN]
      /\ pc[r] \in {"idle", "probing", "quoted", "reserved", "signing"} => auth[r] = "none"
      /\ isNew[r] /\ auth[r] \in {"sent", "settled"} => charged[r]
  BY DEF TypeInv, TypeOK, BudgetInv, StakeInv
<1>2. CASE Replay(r) \/ Probe(r) \/ NothingToPay(r) \/ Quote(r)
  BY <1>1, <1>2 DEF Replay, Probe, NothingToPay, Quote
<1>3. CASE Reserve(r) \/ ReserveUnavailable(r)
  BY <1>1, <1>3 DEF Reserve, ReserveUnavailable
<1>4. CASE ChargeBudget(r) \/ BlockOnBudget(r)
  BY <1>1, <1>4 DEF ChargeBudget, BlockOnBudget
<1>5. CASE SignFails(r)
  BY <1>1, <1>5 DEF SignFails
<1>6. CASE SignAndSend(r)
  <2>1. /\ pc'[r] \in {"paying", "error"} /\ UNCHANGED <<charged, isNew>>
        /\ auth'[r] # "none" => pc[r] = "signing"
    BY <1>1, <1>6 DEF SignAndSend, Save, NoSave
  <2> QED
    BY <1>1, <1>6, <2>1 DEF ChargedAsOpened, SignAndSend
<1>7. CASE PaidSuccess(r) \/ CacheResponse(r)
  BY <1>1, <1>7 DEF PaidSuccess, CacheResponse, Save, NoSave
<1>8. CASE PaidRejected(r)
  <2>1. auth'[r] = "rejected" /\ pc'[r] \in {"failed", "unknown", "error"}
    BY <1>1, <1>8 DEF PaidRejected, Save
  <2> QED
    BY <2>1
<1>9. CASE PaidAmbiguous(r) \/ PaidLost(r)
  BY <1>1, <1>9 DEF PaidAmbiguous, PaidLost, Save, NoSave
<1> QED
  BY <1>2, <1>3, <1>4, <1>5, <1>6, <1>7, <1>8, <1>9 DEF Handle

LEMMA NextStake == TypeInv /\ BudgetInv /\ StakeInv /\ [Next]_vars => StakeInv'
<1> SUFFICES ASSUME TypeInv, BudgetInv, StakeInv, [Next]_vars PROVE StakeInv'
  OBVIOUS
<1>1. ASSUME NEW r \in Request, Handle(r) PROVE StakeInv'
  BY <1>1, HandleStake
<1>2. ASSUME NEW r \in Request, Cancel(r) PROVE StakeInv'
  BY <1>2 DEF Cancel, NoSave, Goto, StakeInv, TypeInv, TypeOK
<1>3. ASSUME NEW r \in Request, Settle(r) PROVE StakeInv'
  BY <1>3 DEF Settle, locals, StakeInv, TypeInv, TypeOK
<1>4. ASSUME NEW s \in Session, Crash(s) PROVE StakeInv'
  BY <1>4 DEF Crash, StakeInv
<1>5. CASE Tick \/ UNCHANGED vars
  BY <1>5 DEF Tick, locals, vars, StakeInv
<1> QED
  BY <1>1, <1>2, <1>3, <1>4, <1>5 DEF Next, Terminated

LEMMA StakeIsCharged ==
  ASSUME TypeInv, BudgetInv, StakeInv
  PROVE  OpenedWithinBudget
<1> SUFFICES ASSUME NEW s \in Session
             PROVE  Cardinality(Units(AtStake(s), StakeAmounts)) <= Budget
  BY DEF OpenedWithinBudget
<1>1. AtStake(s) \subseteq ChargedTo(s) /\ IsFiniteSet(ChargedTo(s))
  BY ChargedFinite DEF AtStake, ChargedTo, StakeInv
<1>2. \A r \in AtStake(s) : StakeAmounts[r] = ChargedAmounts[r]
  BY <1>1, ClientAssumption DEF ChargedTo, StakeAmounts, ChargedAmounts, BudgetInv, ChargedAsOpened
<1>3. Units(AtStake(s), StakeAmounts) = Units(AtStake(s), ChargedAmounts)
  BY <1>2, UnitsAgree
<1>4. Cardinality(Units(AtStake(s), ChargedAmounts)) <= Cardinality(Units(ChargedTo(s), ChargedAmounts))
  BY <1>1, UnitsMonotone
<1>5. IsFiniteSet(AtStake(s))
  BY <1>1, FS_Subset
<1>6. /\ Cardinality(Units(AtStake(s), ChargedAmounts)) \in Nat
      /\ Cardinality(Units(ChargedTo(s), ChargedAmounts)) \in Nat
  BY <1>1, <1>5, UnitsFinite
<1>7. Cardinality(Units(ChargedTo(s), ChargedAmounts)) <= Budget
  BY DEF BudgetInv, BudgetIsExact
<1> QED
  BY <1>3, <1>4, <1>6, <1>7, ClientAssumption

\* The requests that opened their payments have never more at stake than the
\* budget of their session, whatever fails and whoever shares the journal.
THEOREM OpenedBudgetHolds == Spec => []OpenedWithinBudget
<1>1. Init => StakeInv
  BY DEF Init, StakeInv
<1>2. TypeInv /\ BudgetInv /\ StakeInv /\ [Next]_vars => (TypeInv /\ BudgetInv /\ StakeInv)'
  BY NextTypeInv, NextBudgetInv, NextStake
<1>3. TypeInv /\ BudgetInv /\ StakeInv => OpenedWithinBudget
  BY StakeIsCharged
<1> QED
  BY <1>1, <1>2, <1>3, InitTypeInv, InitBudgetInv, PTL DEF Spec

-----------------------------------------------------------------------------
(* The journal is written before an authorization leaves; the policy fails   *)
(* closed.                                                                   *)

\* The row of request r has its terms, and says "pending" only while nothing
\* was signed that r knows of.
Written(r) ==
  /\ payment[r].payment_id \in DOMAIN journal
  /\ SameLogicalPayment(journal[payment[r].payment_id], payment[r])
  /\ auth[r] # "none" \/ payment[r].status # "pending" =>
       journal[payment[r].payment_id].status # "pending"

WrittenInv == \A r \in Request : pc[r] \in Active \/ auth[r] # "none" => Written(r)

\* No step drops a row, changes its terms or forgets that it was signed for.
RowsFirm ==
  \A id \in DOMAIN journal :
    /\ id \in DOMAIN journal'
    /\ SameLogicalPayment(journal'[id], journal[id])
    /\ journal[id].status # "pending" => journal'[id].status # "pending"

LEMMA WrittenStays ==
  ASSUME RowsFirm, NEW q \in Request, pc[q] \in Active \/ auth[q] # "none" => Written(q),
         payment'[q] = payment[q], auth'[q] = auth[q],
         pc'[q] \in Active => pc[q] \in Active
  PROVE  pc'[q] \in Active \/ auth'[q] # "none" => Written(q)'
BY DEF Written, RowsFirm, SameLogicalPayment

\* A save replaces the row by one of the same terms that is not pending, or
\* ends the handler.
LEMMA SaveFirm ==
  ASSUME TypeInv, FailClosed, NEW r \in Request, pc[r] \in {"reserved", "signing", "paying"},
         Written(r), NEW status \in PaymentStatus \ {"pending"}, NEW next,
         Save(r, status, next)
  PROVE  /\ RowsFirm
         /\ \/ pc'[r] = next /\ Written(r)'
            \/ pc'[r] = "error" /\ (auth[r] # "none" => Written(r)')
<1> DEFINE p == [payment[r] EXCEPT !.status = status]
<1>1. payment[r] \in Payment /\ payment'[r] = p
  BY DEF Save, TypeInv, TypeOK, PaymentKnown, Running
<1>2. /\ p.payment_id = payment[r].payment_id /\ p.resource = payment[r].resource
      /\ p.amount = payment[r].amount /\ p.status = status
  BY <1>1 DEF Payment
<1>3. CASE journal' = Put(journal, p) /\ Goto(r, next)
  <2>1. RowsFirm
    BY <1>2, <1>3 DEF RowsFirm, Put, Written, SameLogicalPayment
  <2>2. Written(r)'
    BY <1>1, <1>2, <1>3 DEF Written, Put, SameLogicalPayment
  <2> QED
    BY <1>3, <2>1, <2>2 DEF Goto, TypeInv, TypeOK
<1>4. CASE UNCHANGED journal /\ Goto(r, "error")
  BY <1>1, <1>2, <1>4 DEF Goto, TypeInv, TypeOK, RowsFirm, Written, SameLogicalPayment
<1> QED
  BY <1>3, <1>4 DEF Save

\* A handler's step on its own request.
LEMMA HandleFirm ==
  ASSUME TypeInv, SentLater, WrittenInv, FailClosed, NEW r \in Request, Handle(r)
  PROVE  RowsFirm /\ (pc'[r] \in Active \/ auth'[r] # "none" => Written(r)')
<1> USE DEF TypeInv, TypeOK, Goto, At
<1>0. /\ pc[r] \in Active \/ auth[r] # "none" => Written(r)
      /\ auth[r] # "none" => pc[r] \notin {"idle", "probing", "quoted", "reserved", "signing"}
  BY DEF WrittenInv, SentLater
<1>1. ASSUME UNCHANGED <<journal, payment, auth>>, pc'[r] \in Active => pc[r] \in Active
      PROVE  RowsFirm /\ (pc'[r] \in Active \/ auth'[r] # "none" => Written(r)')
  BY <1>0, <1>1 DEF RowsFirm, Written, SameLogicalPayment
<1>2. ASSUME pc[r] \in {"reserved", "signing", "paying"}, NEW status \in PaymentStatus \ {"pending"},
             NEW next, Save(r, status, next), auth'[r] # "none" => auth[r] # "none" \/ pc'[r] # "error"
      PROVE  RowsFirm /\ (pc'[r] \in Active \/ auth'[r] # "none" => Written(r)')
  <2>1. pc[r] \in Active
    BY <1>2 DEF Active
  <2>2. /\ RowsFirm
        /\ \/ pc'[r] = next /\ Written(r)'
           \/ pc'[r] = "error" /\ (auth[r] # "none" => Written(r)')
    BY <1>0, <1>2, <2>1, SaveFirm
  <2> QED
    BY <1>2, <2>2 DEF Active
<1>3. CASE Replay(r) \/ Probe(r) \/ NothingToPay(r) \/ ReserveUnavailable(r)
  BY <1>1, <1>3 DEF Replay, Probe, NothingToPay, ReserveUnavailable, Active
<1>4. CASE Quote(r)
  BY <1>0, <1>4 DEF Quote, Active, RowsFirm, SameLogicalPayment
<1>5. CASE Reserve(r)
  <2>1. auth' = auth /\ auth[r] = "none" /\ payment[r] \in Payment
    BY <1>0, <1>5 DEF Reserve, PaymentKnown, Running
  <2>2. CASE /\ Refuses(journal, payment[r], now) /\ Goto(r, "refused")
             /\ UNCHANGED <<payment, isNew>>
    BY <1>5, <2>1, <2>2 DEF Reserve, AfterReserve, Refuses, Active, RowsFirm, SameLogicalPayment
  <2>3. CASE /\ Opens(journal, payment[r], now) /\ UNCHANGED payment
    <3>1. journal' = Put(journal, payment[r]) /\ payment[r].payment_id \notin DOMAIN journal
      BY <1>5, <2>3 DEF Reserve, AfterReserve, Opens
    <3> QED
      BY <2>1, <2>3, <3>1 DEF Put, RowsFirm, Written, SameLogicalPayment
  <2>4. CASE /\ Resumes(journal, payment[r])
             /\ payment' = [payment EXCEPT ![r] = journal[payment[r].payment_id]]
    <3>1. journal' = journal
      BY <1>5, <2>4 DEF Reserve, AfterReserve, Opens, Resumes
    <3>2. payment'[r] = journal[payment[r].payment_id] /\ payment'[r].payment_id = payment[r].payment_id
      BY <2>4 DEF Resumes, IsJournal
    <3>3. payment[r].payment_id \in DOMAIN journal
      BY <2>4 DEF Resumes
    <3> QED
      BY <2>1, <3>1, <3>2, <3>3 DEF RowsFirm, Written, SameLogicalPayment
  <2> QED
    BY <1>5, <2>2, <2>3, <2>4 DEF Reserve, Admit
<1>6. CASE ChargeBudget(r) \/ CacheResponse(r)
  BY <1>1, <1>6 DEF ChargeBudget, CacheResponse, NoSave, Active
<1>7. CASE BlockOnBudget(r)
  BY <1>2, <1>7 DEF BlockOnBudget, PaymentStatus
<1>8. CASE SignFails(r)
  BY <1>1, <1>2, <1>8 DEF SignFails, NoSave, Active, PaymentStatus
<1>9. CASE SignAndSend(r)
  <2>1. CASE payment[r].status = "pending"
    <3>1. Save(r, "authorized", "paying") /\ pc[r] = "signing" /\ (auth' # auth => pc'[r] = "paying")
      BY <1>9, <2>1 DEF SignAndSend
    <3> QED
      BY <1>2, <3>1 DEF PaymentStatus
  <2>2. CASE payment[r].status # "pending"
    BY <1>0, <1>9, <2>2 DEF SignAndSend, NoSave, Active, RowsFirm, Written, SameLogicalPayment
  <2> QED
    BY <2>1, <2>2
<1>10. CASE PaidSuccess(r)
  BY <1>2, <1>10 DEF PaidSuccess, PaymentStatus
<1>11. CASE PaidRejected(r)
  BY <1>2, <1>11 DEF PaidRejected, PaymentStatus
<1>12. CASE PaidAmbiguous(r)
  BY <1>2, <1>12 DEF PaidAmbiguous, PaymentStatus
<1>13. CASE PaidLost(r)
  BY <1>1, <1>2, <1>13 DEF PaidLost, NoSave, Active, PaymentStatus
<1> QED
  BY <1>3, <1>4, <1>5, <1>6, <1>7, <1>8, <1>9, <1>10, <1>11, <1>12, <1>13 DEF Handle

LEMMA NextWritten ==
  FailClosed /\ AllOnce /\ WrittenInv /\ [Next]_vars => WrittenInv'
<1> SUFFICES ASSUME FailClosed, AllOnce, WrittenInv, [Next]_vars PROVE WrittenInv'
  OBVIOUS
<1>1. TypeInv /\ SentLater
  BY DEF AllOnce, OnceInv
<1>2. ASSUME NEW r \in Request, Handle(r) PROVE WrittenInv'
  <2>1. RowsFirm /\ (pc'[r] \in Active \/ auth'[r] # "none" => Written(r)')
    BY <1>1, <1>2, HandleFirm
  <2>2. ASSUME NEW q \in Request \ {r}
        PROVE  pc'[q] \in Active \/ auth'[q] # "none" => Written(q)'
    BY <1>1, <1>2, <2>1, HandleLocal, WrittenStays DEF WrittenInv
  <2> QED
    BY <2>1, <2>2 DEF WrittenInv
<1>3. ASSUME UNCHANGED <<journal, payment>>,
             \A q \in Request : /\ pc'[q] \in Active => pc[q] \in Active
                                /\ auth'[q] # "none" <=> auth[q] # "none"
      PROVE  WrittenInv'
  BY <1>3 DEF WrittenInv, Written
<1>4. ASSUME NEW r \in Request, Cancel(r) PROVE WrittenInv'
  BY <1>1, <1>3, <1>4 DEF Cancel, NoSave, Goto, TypeInv, TypeOK, Active
<1>5. ASSUME NEW r \in Request, Settle(r) PROVE WrittenInv'
  BY <1>1, <1>3, <1>5 DEF Settle, locals, TypeInv, TypeOK
<1>6. ASSUME NEW s \in Session, Crash(s) PROVE WrittenInv'
  BY <1>3, <1>6 DEF Crash, Active
<1>7. CASE Tick \/ UNCHANGED vars
  BY <1>3, <1>7 DEF Tick, locals, vars
<1> QED
  BY <1>2, <1>4, <1>5, <1>6, <1>7 DEF Next, Terminated

\* Whatever the callers do with payment IDs and however the store fails, nothing
\* is sent that the journal does not have as authorized, for the same terms.
THEOREM WrittenAhead == ASSUME FailClosed PROVE Spec => []RecordedBeforeSent
<1>1. Init => WrittenInv
  BY DEF Init, WrittenInv, Active
<1>2. Spec => []AllOnce
  BY OnceInvariance
<1>3. AllOnce /\ WrittenInv /\ [Next]_vars => WrittenInv'
  BY NextWritten
<1>4. WrittenInv => RecordedBeforeSent
  BY DEF WrittenInv, Written, RecordedBeforeSent
<1> QED
  BY <1>1, <1>2, <1>3, <1>4, PTL DEF Spec

-----------------------------------------------------------------------------
(* The clients keep the promise of ClientPromise. *)

\* The state of the promise.
PromiseAuth == [r \in Request |-> IF isNew[r] THEN auth[r] ELSE "none"]
PromiseAmount == [r \in Request |-> IF r \in AtStake(ClientOf[r]) THEN payment[r].amount ELSE 0]

LEMMA PromiseStarts == Init => Promise!Init
BY ClientAssumption DEF Init, Promise!Init, AtStake

\* A step that leaves alone what the openers have sent.
LEMMA PromiseUnseen ==
  ASSUME auth' = auth,
         \A r \in Request : isNew'[r] = isNew[r] \/ auth[r] = "none",
         \A r \in Request : isNew[r] /\ auth[r] # "none" => payment'[r].amount = payment[r].amount
  PROVE  UNCHANGED Promise!vars
<1>1. PromiseAuth' = PromiseAuth
  BY DEF PromiseAuth
<1>2. ASSUME NEW r \in Request
      PROVE  PromiseAmount'[r] = PromiseAmount[r]
  <2>1. (r \in AtStake(ClientOf[r]))' <=> r \in AtStake(ClientOf[r])
    BY DEF AtStake
  <2>2. r \in AtStake(ClientOf[r]) => payment'[r].amount = payment[r].amount
    BY DEF AtStake
  <2> QED
    BY <2>1, <2>2 DEF PromiseAmount
<1>3. PromiseAmount' = PromiseAmount
  BY <1>2 DEF PromiseAmount
<1> QED
  BY <1>1, <1>3 DEF Promise!vars, PromiseAuth, PromiseAmount

\* What the siblings of an opener have at stake is among what they are charged.
LEMMA PromiseFits ==
  ASSUME TypeInv, BudgetInv, StakeInv, NEW r \in Request, isNew[r], charged[r], auth[r] = "none",
         payment[r] \in Payment
  PROVE  Promise!TotalOf(Promise!Siblings(r), PromiseAmount) + payment[r].amount <= Budget
<1> DEFINE s == ClientOf[r]
           others == AtStake(s)
<1>1. s \in Session /\ payment[r].amount \in 0..MaxAmount
  BY ClientAssumption DEF Payment
<1>2. Units(Promise!Siblings(r), PromiseAmount) = Units(others, ChargedAmounts)
  <2>1. ASSUME NEW q \in others PROVE PromiseAmount[q] = ChargedAmounts[q] /\ q \in Promise!Siblings(r)
    BY <2>1 DEF AtStake, PromiseAmount, ChargedAmounts, StakeInv, Promise!Siblings
  <2>2. ASSUME NEW q \in Promise!Siblings(r), q \notin others PROVE PromiseAmount[q] = 0
    BY <2>2 DEF AtStake, PromiseAmount, Promise!Siblings
  <2> QED
    BY <2>1, <2>2 DEF Units
<1>3. r \notin others /\ others \cup {r} \in SUBSET ChargedTo(s)
  BY DEF AtStake, ChargedTo, StakeInv
<1>4. IsFiniteSet(others) /\ IsFiniteSet(others \cup {r})
  BY <1>3, ChargedFinite, FS_Subset
<1>5. ChargedAmounts[r] = payment[r].amount
  BY DEF ChargedAmounts
<1>6. Cardinality(Units(others \cup {r}, ChargedAmounts))
        = Cardinality(Units(others, ChargedAmounts)) + payment[r].amount
  BY <1>1, <1>3, <1>4, <1>5, UnitsAdd
<1>7. Cardinality(Units(others \cup {r}, ChargedAmounts))
        <= Cardinality(Units(ChargedTo(s), ChargedAmounts))
  BY <1>3, ChargedFinite, UnitsMonotone
<1>8. /\ Cardinality(Units(others \cup {r}, ChargedAmounts)) \in Nat
      /\ Cardinality(Units(ChargedTo(s), ChargedAmounts)) \in Nat
  BY <1>4, ChargedFinite, UnitsFinite
<1>9. Promise!TotalOf(Promise!Siblings(r), PromiseAmount)
        = Cardinality(Units(Promise!Siblings(r), PromiseAmount))
  BY DEF Promise!TotalOf, Promise!Units, Promise!Cardinality, Cardinality, Units
<1>10. Cardinality(Units(ChargedTo(s), ChargedAmounts)) <= Budget /\ Budget \in Nat
  BY <1>1, ClientAssumption DEF BudgetInv, BudgetIsExact
<1> QED
  BY <1>2, <1>6, <1>7, <1>8, <1>9, <1>10

\* Something happens to what an opener has sent.
LEMMA PromiseMoves ==
  ASSUME TypeInv, NEW r \in Request, isNew[r], isNew' = isNew,
         \A q \in Request \ {r} : payment'[q] = payment[q],
         payment'[r].amount = payment[r].amount,
         NEW label, auth' = [auth EXCEPT ![r] = label]
  PROVE  /\ PromiseAuth[r] = auth[r]
         /\ PromiseAuth' = [PromiseAuth EXCEPT ![r] = label]
         /\ PromiseAmount' = [PromiseAmount EXCEPT ![r] =
              IF label \in {"sent", "settled"} THEN payment[r].amount ELSE 0]
<1>1. auth \in [Request -> AuthState]
  BY DEF TypeInv, TypeOK
<1>2. PromiseAuth[r] = auth[r] /\ PromiseAuth' = [PromiseAuth EXCEPT ![r] = label]
  BY <1>1 DEF PromiseAuth
<1>3. ASSUME NEW q \in Request \ {r} PROVE PromiseAmount'[q] = PromiseAmount[q]
  <2>1. payment'[q] = payment[q] /\ isNew'[q] = isNew[q] /\ auth'[q] = auth[q]
    BY <1>1, <1>3
  <2> QED
    BY <2>1 DEF PromiseAmount, AtStake
<1>4. PromiseAmount'[r] = IF label \in {"sent", "settled"} THEN payment[r].amount ELSE 0
  BY <1>1 DEF PromiseAmount, AtStake
<1> QED
  BY <1>2, <1>3, <1>4 DEF PromiseAmount

LEMMA HandlePromise ==
  ASSUME TypeInv, BudgetInv, StakeInv, NEW r \in Request, Handle(r)
  PROVE  [Promise!Next]_(Promise!vars)
<1> USE DEF Goto, At
<1>0. /\ auth \in [Request -> AuthState] /\ isNew \in [Request -> BOOLEAN]
      /\ payment \in [Request -> Payment \cup {NoPayment}]
      /\ pc[r] \in {"idle", "probing", "quoted", "reserved", "signing"} => auth[r] = "none"
      /\ pc[r] \in Running => payment[r] \in Payment
      /\ \A q \in Request \ {r} : /\ payment'[q] = payment[q]
                                  /\ isNew'[q] = isNew[q]
                                  /\ auth'[q] = auth[q]
  BY HandleLocal DEF TypeInv, TypeOK, PaymentKnown, StakeInv
<1>1. ASSUME auth' = auth, isNew'[r] = isNew[r] \/ auth[r] = "none",
             auth[r] # "none" => payment'[r].amount = payment[r].amount
      PROVE  [Promise!Next]_(Promise!vars)
  BY <1>0, <1>1, PromiseUnseen
<1>2. ASSUME NEW status, NEW next, Save(r, status, next), pc[r] \in Running
      PROVE  payment'[r].amount = payment[r].amount
  BY <1>0, <1>2, SaveKeepsTerms
<1>3. ASSUME isNew' = isNew, ~isNew[r] PROVE [Promise!Next]_(Promise!vars)
  <2>1. PromiseAuth' = PromiseAuth
    BY <1>0, <1>3 DEF PromiseAuth
  <2>2. ASSUME NEW q \in Request PROVE PromiseAmount'[q] = PromiseAmount[q]
    BY <1>0, <1>3, <2>2 DEF PromiseAmount, AtStake
  <2>3. PromiseAmount' = PromiseAmount
    BY <2>2 DEF PromiseAmount
  <2> QED
    BY <2>1, <2>3 DEF Promise!vars, PromiseAuth, PromiseAmount
<1>4. CASE Replay(r) \/ Probe(r) \/ NothingToPay(r) \/ Quote(r)
  BY <1>0, <1>1, <1>4 DEF Replay, Probe, NothingToPay, Quote
<1>5. CASE Reserve(r) \/ ReserveUnavailable(r)
  BY <1>0, <1>1, <1>5 DEF Reserve, ReserveUnavailable
<1>6. CASE ChargeBudget(r) \/ CacheResponse(r)
  BY <1>1, <1>6 DEF ChargeBudget, CacheResponse, NoSave
<1>7. CASE BlockOnBudget(r)
  BY <1>1, <1>2, <1>7 DEF BlockOnBudget, Running
<1>8. CASE SignFails(r)
  BY <1>1, <1>2, <1>8 DEF SignFails, NoSave, Running
<1>9. CASE SignAndSend(r)
  <2>1. /\ payment'[r].amount = payment[r].amount /\ isNew' = isNew /\ auth[r] = "none"
        /\ auth' = auth \/ auth' = [auth EXCEPT ![r] = "sent"]
        /\ pc[r] = "signing" /\ payment[r] \in Payment
    BY <1>0, <1>2, <1>9 DEF SignAndSend, NoSave, Running
  <2>2. CASE isNew[r] /\ auth' = [auth EXCEPT ![r] = "sent"]
    <3>1. charged[r]
      BY <2>1, <2>2 DEF BudgetInv, ChargedAsOpened
    <3>2. Promise!TotalOf(Promise!Siblings(r), PromiseAmount) + payment[r].amount <= Budget
      BY <2>1, <2>2, <3>1, PromiseFits
    <3>3. /\ PromiseAuth[r] = "none" /\ PromiseAuth' = [PromiseAuth EXCEPT ![r] = "sent"]
          /\ PromiseAmount' = [PromiseAmount EXCEPT ![r] = payment[r].amount]
      BY <1>0, <2>1, <2>2, PromiseMoves
    <3>4. payment[r].amount \in 0..MaxAmount
      BY <2>1 DEF Payment
    <3>5. Promise!Send(r)
      BY <3>2, <3>3, <3>4 DEF Promise!Send, PromiseAuth, PromiseAmount
    <3> QED
      BY <3>5 DEF Promise!Next
  <2> QED
    BY <1>0, <1>1, <1>3, <2>1, <2>2
<1>10. CASE PaidRejected(r)
  <2>1. /\ payment'[r].amount = payment[r].amount /\ isNew' = isNew
        /\ auth[r] = "sent" /\ auth' = [auth EXCEPT ![r] = "rejected"]
    BY <1>0, <1>2, <1>10 DEF PaidRejected, Running
  <2>2. CASE isNew[r]
    <3>1. /\ PromiseAuth[r] = "sent" /\ PromiseAuth' = [PromiseAuth EXCEPT ![r] = "rejected"]
          /\ PromiseAmount' = [PromiseAmount EXCEPT ![r] =
               IF "rejected" \in {"sent", "settled"} THEN payment[r].amount ELSE 0]
      BY <1>0, <2>1, <2>2, PromiseMoves
    <3>2. Promise!Reject(r)
      BY <3>1 DEF Promise!Reject, PromiseAuth, PromiseAmount
    <3> QED
      BY <3>2 DEF Promise!Next
  <2> QED
    BY <1>0, <1>3, <2>1, <2>2
<1>11. CASE PaidSuccess(r) \/ PaidAmbiguous(r) \/ PaidLost(r)
  BY <1>1, <1>2, <1>11 DEF PaidSuccess, PaidAmbiguous, PaidLost, NoSave, Running
<1> QED
  BY <1>4, <1>5, <1>6, <1>7, <1>8, <1>9, <1>10, <1>11 DEF Handle

LEMMA SettlePromise ==
  ASSUME TypeInv, NEW r \in Request, Settle(r)
  PROVE  [Promise!Next]_(Promise!vars)
<1>1. /\ isNew' = isNew /\ payment' = payment /\ auth[r] = "sent"
      /\ auth' = [auth EXCEPT ![r] = "settled"] /\ auth \in [Request -> AuthState]
      /\ isNew \in [Request -> BOOLEAN]
  BY DEF Settle, locals, TypeInv, TypeOK
<1>2. CASE isNew[r]
  <2>1. /\ PromiseAuth[r] = "sent" /\ PromiseAuth' = [PromiseAuth EXCEPT ![r] = "settled"]
        /\ PromiseAmount' = [PromiseAmount EXCEPT ![r] = payment[r].amount]
    BY <1>1, <1>2, PromiseMoves
  <2>2. PromiseAmount[r] = payment[r].amount
    BY <1>1, <1>2 DEF PromiseAmount, AtStake
  <2>3. PromiseAmount' = PromiseAmount
    BY <2>1, <2>2 DEF PromiseAmount
  <2>4. Promise!Settle(r)
    BY <2>1, <2>3 DEF Promise!Settle, PromiseAuth, PromiseAmount
  <2> QED
    BY <2>4 DEF Promise!Next
<1>3. CASE ~isNew[r]
  <2>1. PromiseAuth' = PromiseAuth
    BY <1>1, <1>3 DEF PromiseAuth
  <2>2. ASSUME NEW q \in Request PROVE PromiseAmount'[q] = PromiseAmount[q]
    BY <1>1, <1>3, <2>2 DEF PromiseAmount, AtStake
  <2>3. PromiseAmount' = PromiseAmount
    BY <2>2 DEF PromiseAmount
  <2> QED
    BY <2>1, <2>3 DEF Promise!vars, PromiseAuth, PromiseAmount
<1> QED
  BY <1>2, <1>3

LEMMA NextPromise ==
  TypeInv /\ BudgetInv /\ StakeInv /\ [Next]_vars => [Promise!Next]_(Promise!vars)
<1> SUFFICES ASSUME TypeInv, BudgetInv, StakeInv, [Next]_vars
             PROVE  [Promise!Next]_(Promise!vars)
  OBVIOUS
<1>1. ASSUME NEW r \in Request, Handle(r) PROVE [Promise!Next]_(Promise!vars)
  BY <1>1, HandlePromise
<1>2. ASSUME NEW r \in Request, Settle(r) PROVE [Promise!Next]_(Promise!vars)
  BY <1>2, SettlePromise
<1>3. ASSUME UNCHANGED <<payment, isNew, auth>> PROVE [Promise!Next]_(Promise!vars)
  BY <1>3, PromiseUnseen
<1>4. ASSUME NEW r \in Request, Cancel(r) PROVE [Promise!Next]_(Promise!vars)
  BY <1>3, <1>4 DEF Cancel, NoSave
<1>5. ASSUME NEW s \in Session, Crash(s) PROVE [Promise!Next]_(Promise!vars)
  BY <1>3, <1>5 DEF Crash
<1>6. CASE Tick \/ UNCHANGED vars
  BY <1>3, <1>6 DEF Tick, locals, vars
<1> QED
  BY <1>1, <1>2, <1>4, <1>5, <1>6 DEF Next, Terminated

\* The clients keep their promise, whatever fails and whoever shares the journal.
THEOREM ClientKeepsPromise == Spec => ImplementsClient
<1>1. Init => TypeInv /\ BudgetInv /\ StakeInv
  BY InitTypeInv, InitBudgetInv DEF Init, StakeInv
<1>2. TypeInv /\ BudgetInv /\ StakeInv /\ [Next]_vars => (TypeInv /\ BudgetInv /\ StakeInv)'
  BY NextTypeInv, NextBudgetInv, NextStake
<1> QED
  BY <1>1, <1>2, NextPromise, PromiseStarts, PTL DEF Spec, ImplementsClient, Promise!Spec
=============================================================================
