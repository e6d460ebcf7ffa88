--------------------------- MODULE PaymentLedger ---------------------------
(***************************************************************************)
(* What a journal of payments promises, whoever writes it: every payment   *)
(* is opened once, within the daily limit, and then either its money       *)
(* moves, once, or it is void; never both, and never one after the other.  *)
(***************************************************************************)
EXTENDS UnitSums

CONSTANTS
  PayId,        \* payment identifiers
  DailyCap,     \* limit on what is open or paid within a day
  DaySeconds,   \* length of that window
  MaxTime       \* bound on the clock

VARIABLES
  now,          \* the clock
  state,        \* "unused", "open", "paid" or "void" for each ID
  amount,       \* amount of each payment, 0 while unused
  opened        \* when each payment was quoted, 0 while unused

vars == <<now, state, amount, opened>>

Init ==
  /\ now = 0
  /\ state = [id \in PayId |-> "unused"]
  /\ amount = [id \in PayId |-> 0]
  /\ opened = [id \in PayId |-> 0]

\* The payments that count against the limit.
Counted == {id \in PayId : state[id] \in {"open", "paid"} /\ now - opened[id] <= DaySeconds}

Open(id) ==
  /\ state[id] = "unused"
  /\ \E a \in 0..MaxAmount, t \in 0..now :
       /\ TotalOf(Counted, amount) + a <= DailyCap
       /\ amount' = [amount EXCEPT ![id] = a]
       /\ opened' = [opened EXCEPT ![id] = t]
  /\ state' = [state EXCEPT ![id] = "open"]
  /\ UNCHANGED now

Pay(id) ==
  /\ state[id] = "open"
  /\ state' = [state EXCEPT ![id] = "paid"]
  /\ UNCHANGED <<now, amount, opened>>

Void(id) ==
  /\ state[id] = "open"
  /\ state' = [state EXCEPT ![id] = "void"]
  /\ UNCHANGED <<now, amount, opened>>

Tick ==
  /\ now < MaxTime
  /\ now' = now + 1
  /\ UNCHANGED <<state, amount, opened>>

Next == Tick \/ \E id \in PayId : Open(id) \/ Pay(id) \/ Void(id)

Spec == Init /\ [][Next]_vars
=============================================================================
