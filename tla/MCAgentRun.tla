----------------------------- MODULE MCAgentRun ------------------------------
(***************************************************************************)
(* Small instances of AgentRun: one agent, a host with an on-chain         *)
(* identity and one without.                                               *)
(***************************************************************************)
EXTENDS AgentRun, TLC

CONSTANTS a1, r1, r2, x1, x2, h1, h2, i1

MCAgent == {a1}
MCBoth == {r1, r2}
MCOne == {r1}
MCAgentOf == [r \in Run |-> a1]
MCService == {x1, x2}
MCHostOf == (x1 :> h1) @@ (x2 :> h2)
MCIdOf == (x1 :> i1) @@ (x2 :> NoId)
MCConditions == {{}, {"overlap"}, Trouble}
=============================================================================
