-------------------------- MODULE MCPaymentClient --------------------------
(***************************************************************************)
(* Small instances of PaymentClient: two sessions on one journal.          *)
(***************************************************************************)
EXTENDS PaymentClient, TLC

CONSTANTS r1, r2, r3, s1, s2, x1, x2, h1, h2, p1, p2

MCPayId == {p1, p2}
MCRequest == {r1, r2, r3}
MCSession == {s1, s2}
MCResource == {x1, x2}
MCHosts == {h1, h2}
MCHostOf == (x1 :> h1) @@ (x2 :> h2)

\* Two requests of one session and one of another.
MCClientOf == (r1 :> s1) @@ (r2 :> s1) @@ (r3 :> s2)

\* A single session with two requests for one resource.
MCPair == {r1, r2}
MCPairClientOf == [r \in MCPair |-> s1]
MCPairResource == [r \in MCPair |-> x1]

\* All for one resource, or r2 for another one.
MCSameResource == [r \in MCRequest |-> x1]
MCTwoResources == [r \in MCRequest |-> IF r = r2 THEN x2 ELSE x1]

\* Payment IDs are interchangeable.
MCSymmetry == Permutations(MCPayId)
=============================================================================
