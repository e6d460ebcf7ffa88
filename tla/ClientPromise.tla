--------------------------- MODULE ClientPromise ---------------------------
(***************************************************************************)
(* What payment clients promise to those who make one with a budget: a     *)
(* client sends at most one authorization for a request, what it has sent  *)
(* and has not seen rejected is within its budget, and what was rejected   *)
(* is not taken.                                                           *)
(***************************************************************************)
EXTENDS UnitSums

CONSTANTS
  Request,  \* the requests made through all clients
  Client,   \* the clients
  Budget    \* budget_usdc of a client

VARIABLES
  client,   \* the client of each request
  auth,     \* what became of the authorization sent for it
  amount    \* what that may take, 0 when nothing

vars == <<client, auth, amount>>

Init ==
  /\ client \in [Request -> Client]
  /\ auth = [r \in Request |-> "none"]
  /\ amount = [r \in Request |-> 0]

\* Callers choose the client of a request until something is sent for it.
Assign ==
  /\ client' \in [Request -> Client]
  /\ \A r \in Request : auth[r] # "none" => client'[r] = client[r]
  /\ UNCHANGED <<auth, amount>>

\* The requests made through the client of request r.
Siblings(r) == {q \in Request : client[q] = client[r]}

Send(r) ==
  /\ auth[r] = "none"
  /\ \E a \in 0..MaxAmount :
       /\ TotalOf(Siblings(r), amount) + a <= Budget
       /\ amount' = [amount EXCEPT ![r] = a]
  /\ auth' = [auth EXCEPT ![r] = "sent"]
  /\ UNCHANGED client

Reject(r) ==
  /\ auth[r] = "sent"
  /\ auth' = [auth EXCEPT ![r] = "rejected"]
  /\ amount' = [amount EXCEPT ![r] = 0]
  /\ UNCHANGED client

Settle(r) ==
  /\ auth[r] = "sent"
  /\ auth' = [auth EXCEPT ![r] = "settled"]
  /\ UNCHANGED <<client, amount>>

Next == Assign \/ \E r \in Request : Send(r) \/ Reject(r) \/ Settle(r)

Spec == Init /\ [][Next]_vars
=============================================================================
