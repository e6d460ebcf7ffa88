---------------------------- MODULE MCEscrowRelay ----------------------------
(***************************************************************************)
(* Small instances of EscrowRelay: one order with the deadlines 2 and 3.   *)
(***************************************************************************)
EXTENDS EscrowRelay, TLC

CONSTANTS o1, payer, provider, validator, escrow

MCAddress == {payer, provider, validator, escrow}
MCAccount == {payer, provider, escrow}
MCOrder == {o1}
MCPayerOf == [o \in MCOrder |-> payer]
MCProviderOf == [o \in MCOrder |-> provider]
MCValidatorOf == [o \in MCOrder |-> validator]
MCAmountOf == [o \in MCOrder |-> 1]
MCDeadline == [o \in MCOrder |-> 2]
MCRefundAfter == [o \in MCOrder |-> 3]
MCSupply == [a \in MCAccount |-> IF a = payer THEN 1 ELSE 0]

MCDeliveries == [order : MCOrder, evidence : {1}, delivered_at : {1, 3}]

MCVerdicts ==
  [order : MCOrder, delivery : MCDeliveries, approved : BOOLEAN,
   issued_at : {1, 2}, valid_until : {2, 3, 4}]
=============================================================================
