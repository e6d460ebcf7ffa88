---------------------------- MODULE MCMCPSession -----------------------------
(***************************************************************************)
(* Small instances of MCPSession: a cheap and a dear service.              *)
(***************************************************************************)
EXTENDS MCPSession, TLC

CONSTANTS c1, c2, c3, x1, x2

MCCall == {c1, c2, c3}
MCService == {x1, x2}
MCPriceOf == (x1 :> 1) @@ (x2 :> 2)

MCAnyConditions == SUBSET Trouble

\* Calls are interchangeable.
MCSymmetry == Permutations(MCCall)
=============================================================================
