----------------------------- MODULE MCPSession ------------------------------
(***************************************************************************)
(* The budget ceiling of arc_agent_pay/mcp_server/session.py.              *)
(*                                                                         *)
(* pay_and_fetch reads what remains of the ceiling, makes a PaymentClient  *)
(* whose budget is that remainder, awaits one request of it, and adds what *)
(* the client has spent.  The MCP server runs each tool call as a          *)
(* coroutine of its own.  The client is reduced to what PaymentClient says *)
(* of one request: it signs only within its budget, and refunds a payment  *)
(* that the seller conclusively rejects.                                   *)
(***************************************************************************)
EXTENDS UnitSums

CONSTANTS
  Call,          \* tool calls of the host
  Service,       \* registered services
  PriceOf,       \* price_usdc a service is registered with, 0 when unknown
  Ceiling,       \* budget_usdc of the session
  Conditions     \* under which the session may have to work

\* What a host and a network may do: issue a call while another is running, and
\* cancel a paid request or lose its answer.
Trouble == {"overlap", "cut"}

ASSUME SessionAssumption ==
  /\ IsFiniteSet(Call)
  /\ PriceOf \in [Service -> 0..MaxAmount]
  /\ Ceiling \in Nat
  /\ Conditions \subseteq SUBSET Trouble

VARIABLES
  trouble,    \* what this host and this network may do
  spent,      \* self.spent
  pc,         \* where each call is
  remaining,  \* the local variable, and the budget of the call's client
  charged,    \* budget_guard.spent of the call's client
  auth        \* what became of the authorization that the client sent

vars == <<trouble, spent, pc, remaining, charged, auth>>

InFlight == {"fetching", "paying"}
Ended == {"exhausted", "notfound", "answered", "raised"}

TypeOK ==
  /\ trouble \in Conditions
  /\ spent \in Nat
  /\ pc \in [Call -> {"idle"} \cup InFlight \cup Ended]
  /\ remaining \in [Call -> Nat]
  /\ charged \in [Call -> 0..MaxAmount]
  /\ auth \in [Call -> {"none", "sent", "settled", "rejected"}]

Init ==
  /\ trouble \in Conditions
  /\ spent = 0
  /\ pc = [c \in Call |-> "idle"]
  /\ remaining = [c \in Call |-> 0]
  /\ charged = [c \in Call |-> 0]
  /\ auth = [c \in Call |-> "none"]

Goto(c, label) == pc' = [pc EXCEPT ![c] = label]

\* The host calls the tool.
Called(c) ==
  /\ pc[c] = "idle"
  /\ "overlap" \in trouble \/ \A d \in Call : pc[d] \notin InFlight

\* The service costs no more than what is left, and something is left.
Affordable(s) == Ceiling - spent > 0 /\ Ceiling - spent >= PriceOf[s]

\* Nothing is left of the ceiling, or less than the price of the service.
Refuse(c) ==
  /\ Called(c)
  /\ \E s \in Service : ~Affordable(s)
  /\ Goto(c, "exhausted")
  /\ UNCHANGED <<trouble, spent, remaining, charged, auth>>

\* Something is left, and no service is found for the name.
NotFound(c) ==
  /\ Called(c)
  /\ Ceiling - spent > 0
  /\ Goto(c, "notfound")
  /\ UNCHANGED <<trouble, spent, remaining, charged, auth>>

\* Plausible bug: the remainder is not looked at before the client is made.
StartUnchecked(c) ==
  /\ Called(c)
  /\ remaining' = [remaining EXCEPT ![c] = Ceiling - spent]
  /\ Goto(c, "fetching")
  /\ UNCHANGED <<trouble, spent, charged, auth>>

\* A client is made for the remainder, and the request goes out.
Start(c) ==
  /\ Called(c)
  /\ \E s \in Service : Affordable(s)
  /\ remaining' = [remaining EXCEPT ![c] = Ceiling - spent]
  /\ Goto(c, "fetching")
  /\ UNCHANGED <<trouble, spent, charged, auth>>

\* Plausible bug: the client of a call gets the ceiling, not the remainder.
PayWithinCeiling(c) ==
  /\ pc[c] = "fetching"
  /\ \E amount \in 0..MaxAmount :
       amount <= Ceiling /\ charged' = [charged EXCEPT ![c] = amount]
  /\ auth' = [auth EXCEPT ![c] = "sent"]
  /\ Goto(c, "paying")
  /\ UNCHANGED <<trouble, spent, remaining>>

\* The seller's quote, which need not be the registered price, is within the
\* client's budget: the client charges it, signs and sends.
Pay(c) ==
  /\ pc[c] = "fetching"
  /\ \E amount \in 0..MaxAmount :
       amount <= remaining[c] /\ charged' = [charged EXCEPT ![c] = amount]
  /\ auth' = [auth EXCEPT ![c] = "sent"]
  /\ Goto(c, "paying")
  /\ UNCHANGED <<trouble, spent, remaining>>

\* Without a payment: a free answer, or one of the client's exceptions (over
\* budget, bad terms, refused by policy, no signature, no network).
EndsUnpaid(c) ==
  /\ pc[c] = "fetching"
  /\ Goto(c, "answered") \/ Goto(c, "raised")
  /\ UNCHANGED <<trouble, spent, remaining, charged, auth>>

\* The seller answers, whatever its status: the client's total is added.
Answer(c) ==
  /\ pc[c] = "paying"
  /\ spent' = spent + charged[c]
  /\ Goto(c, "answered")
  /\ UNCHANGED <<trouble, remaining, charged, auth>>

\* Plausible bug: what a rejected payment cost is added all the same.
RejectKeepsCharge(c) ==
  /\ pc[c] = "paying"
  /\ auth[c] = "sent"
  /\ auth' = [auth EXCEPT ![c] = "rejected"]
  /\ charged' = [charged EXCEPT ![c] = 0]
  /\ spent' = spent + charged[c]
  /\ Goto(c, "answered")
  /\ UNCHANGED <<trouble, remaining>>

\* A conclusive rejection: the client has refunded the payment before its total
\* is read.
Reject(c) ==
  /\ pc[c] = "paying"
  /\ auth[c] = "sent"
  /\ auth' = [auth EXCEPT ![c] = "rejected"]
  /\ charged' = [charged EXCEPT ![c] = 0]
  /\ Goto(c, "answered")
  /\ UNCHANGED <<trouble, spent, remaining>>

\* The client raises PaymentTimeoutError, or the host cancels the call: the
\* client's total is not added.
CutShort(c) ==
  /\ "cut" \in trouble
  /\ pc[c] = "paying"
  /\ Goto(c, "raised")
  /\ UNCHANGED <<trouble, spent, remaining, charged, auth>>

\* The seller settles the authorization, at any time after it was sent.
Settle(c) ==
  /\ auth[c] = "sent"
  /\ auth' = [auth EXCEPT ![c] = "settled"]
  /\ UNCHANGED <<trouble, spent, pc, remaining, charged>>

Terminated ==
  /\ \A c \in Call : pc[c] \in Ended /\ auth[c] # "sent"
  /\ UNCHANGED vars

Next ==
  \/ \E c \in Call :
       \/ Refuse(c) \/ NotFound(c) \/ Start(c) \/ Pay(c) \/ EndsUnpaid(c)
       \/ Answer(c) \/ Reject(c) \/ CutShort(c) \/ Settle(c)
  \/ Terminated

Spec == Init /\ [][Next]_vars
-----------------------------------------------------------------------------
(* Properties. *)

SettledCalls == {c \in Call : auth[c] = "settled"}
PayableCalls == {c \in Call : auth[c] \in {"sent", "settled"}}
AnsweredCalls == {c \in Call : pc[c] = "answered"}

\* What session.py says: an MCP host can never exceed the configured ceiling no
\* matter how many tools it calls.
CeilingKept == TotalOf(SettledCalls, charged) <= Ceiling

\* The session's total is what the clients of the calls that were answered have
\* spent, refunds included, however the calls overlap.
SpentIsExact == spent = TotalOf(AnsweredCalls, charged)

\* The calls the session has lost sight of: cut short after they paid.
Forgotten == {c \in Call : "cut" \in trouble /\ pc[c] = "raised"}

\* With a host that waits for each call, the money that has moved or may still
\* move never exceeds the ceiling, also while a call is under way, except for what
\* the calls that were cut short have sent.
CommittedWithinCeiling ==
  "overlap" \notin trouble =>
    TotalOf(PayableCalls \ Forgotten, charged) <= Ceiling

\* The reduced clients, one for each call and none with more than the ceiling,
\* keep the promise that PaymentClient keeps.
Promise == INSTANCE ClientPromise WITH
  Request <- Call,
  Client  <- Call,
  Budget  <- Ceiling,
  client  <- [c \in Call |-> c],
  amount  <- charged

ImplementsClient == Promise!Spec
=============================================================================
