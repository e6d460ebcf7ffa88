---------------------------- MODULE EscrowPromise ----------------------------
(***************************************************************************)
(* What an escrow promises, without saying who decides: an order is funded *)
(* at most once, and what it brought in leaves the vault in full, once,    *)
(* for the provider or back to the payer.  The vault covers every order    *)
(* that is still funded.                                                   *)
(***************************************************************************)
EXTENDS UnitSums

CONSTANTS Order, AmountOf

VARIABLES
  vault,  \* tokens held
  state   \* none, funded, released or refunded

vars == <<vault, state>>

Owed == {o \in Order : state[o] = "funded"}

Init ==
  /\ vault = 0
  /\ state = [o \in Order |-> "none"]

Open(o) ==
  /\ state[o] = "none"
  /\ state' = [state EXCEPT ![o] = "funded"]
  /\ vault' = vault + AmountOf[o]

Close(o, s) ==
  /\ state[o] = "funded"
  /\ state' = [state EXCEPT ![o] = s]
  /\ vault' = vault - AmountOf[o]

\* Someone sends tokens to the escrow without an order.
Gift ==
  /\ vault' = vault + 1
  /\ UNCHANGED state

Next ==
  /\ \/ \E o \in Order : Open(o) \/ Close(o, "released") \/ Close(o, "refunded")
     \/ Gift
  /\ vault' >= TotalOf({o \in Order : state'[o] = "funded"}, AmountOf)

Spec == Init /\ [][Next]_vars
=============================================================================
