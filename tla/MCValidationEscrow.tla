------------------------- MODULE MCValidationEscrow --------------------------
(***************************************************************************)
(* A small instance of ValidationEscrow: two orders of one payer with the  *)
(* deadlines 2 and 3, and a third with its deadlines in the wrong order.   *)
(***************************************************************************)
EXTENDS ValidationEscrow, TLC

CONSTANTS o1, o2, o3, payer, provider, validator, escrow

MCAddress == {payer, provider, validator, escrow}
MCAccount == {payer, provider, escrow}
MCOrder == {o1, o2, o3}
MCPayerOf == [o \in MCOrder |-> payer]
MCProviderOf == [o \in MCOrder |-> provider]
MCValidatorOf == [o \in MCOrder |-> validator]
MCAmountOf == (o1 :> 1) @@ (o2 :> 2) @@ (o3 :> 1)
MCDeadline == [o \in MCOrder |-> 2]
MCRefundAfter == (o1 :> 3) @@ (o2 :> 3) @@ (o3 :> 1)
MCSupply == [a \in MCAccount |-> IF a = payer THEN 3 ELSE 0]

\* Deliveries for the first order, in time and late.
MCDeliveries == [order : {o1}, evidence : {1}, delivered_at : {2, 3}]

\* Verdicts with every mistake: on a late delivery, predating it, not issued
\* yet, in force beyond refund_after.
MCVerdicts ==
  [order : {o1}, delivery : MCDeliveries, approved : BOOLEAN,
   issued_at : {1, 2}, valid_until : {3, 4}]
=============================================================================
