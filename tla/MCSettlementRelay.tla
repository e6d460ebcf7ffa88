------------------------- MODULE MCSettlementRelay -------------------------
(***************************************************************************)
(* A small instance of SettlementRelay: two workers, and two disputes      *)
(* about one provider.  b1 and b2 bind one of them twice (with another     *)
(* confirmation count, say).                                               *)
(***************************************************************************)
EXTENDS SettlementRelay, TLC

CONSTANTS w1, w2, d1, d2, p1, p2, v1, b1, b2, b3, h1, h2

MCWorker == {w1, w2}
MCDispute == {d1, d2}
MCPayment == {p1, p2}
MCProvider == {v1}
MCBinding == {b1, b2, b3}
MCHash == {h1, h2}
MCDisputeOf == (b1 :> d1) @@ (b2 :> d1) @@ (b3 :> d2)
MCPaymentOf == (b1 :> p1) @@ (b2 :> p1) @@ (b3 :> p2)
MCProviderOf == [b \in MCBinding |-> v1]
MCAmountOf == [b \in MCBinding |-> IF b = b3 THEN 2 ELSE 1]

\* The refund of b1, and one of the same payment under the other dispute.
MCForeign == {[dispute |-> d, payment |-> p1, provider |-> v1, amount |-> 1] : d \in MCDispute}
=============================================================================
