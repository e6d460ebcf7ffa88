-------------------------- MODULE MCDemoLifecycle ---------------------------
(***************************************************************************)
(* A small instance of DemoLifecycle: one provider, payment and dispute,   *)
(* with room to send most transactions a second time.                      *)
(***************************************************************************)
EXTENDS DemoLifecycle, TLC

CONSTANTS d1, p1, v1, b1, w1, a1, t1, t2, h1

MCDispute == {d1}
MCPayment == {p1}
MCProvider == {v1}
MCBinding == {b1}
MCWorker == {w1}
MCHash == {h1}
MCDisputeOf == b1 :> d1
MCPaymentOf == b1 :> p1
MCProviderOf == b1 :> v1
MCAmountOf == b1 :> 1
MCAuth == {a1}
MCThread == {t1, t2}

\* Threads are interchangeable.
MCSymmetry == Permutations(MCThread)
=============================================================================
