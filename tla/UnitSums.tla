------------------------------ MODULE UnitSums ------------------------------
(***************************************************************************)
(* Sums of amounts of money over finite sets.                              *)
(*                                                                         *)
(* Amounts are integers (atomic USDC units).  A sum of amounts is written  *)
(* as the number of units in the union of the items' units, which is what  *)
(* the library's facts about Cardinality can be used on.                   *)
(***************************************************************************)
EXTENDS Integers, FiniteSets

CONSTANT MaxAmount    \* bound on a single amount

ASSUME AmountAssumption == MaxAmount \in Nat

\* The units of the items in S: as many as the sum of their amounts.
Units(S, amountOf) ==
  {u \in S \X (1..MaxAmount) : u[2] <= amountOf[u[1]]}

TotalOf(S, amountOf) == Cardinality(Units(S, amountOf))
=============================================================================
