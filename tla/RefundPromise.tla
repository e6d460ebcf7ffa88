--------------------------- MODULE RefundPromise ---------------------------
(***************************************************************************)
(* What warranty refunds promise, without saying how they are sent: a      *)
(* payment is paid back once; a dispute claims one payment, that no other  *)
(* dispute of the journal claims, and keeps to it; and it is written off   *)
(* as refunded only when its payment has been paid back.  What has been    *)
(* decided about a dispute stays.                                          *)
(***************************************************************************)
CONSTANTS Dispute, Payment, NoRow

VARIABLES
  paid,   \* payments paid back
  book,   \* what the journal says of a dispute
  claim   \* the payment a dispute claims

vars == <<paid, book, claim>>

Init ==
  /\ paid = {}
  /\ book = [d \in Dispute |-> "none"]
  /\ claim = [d \in Dispute |-> NoRow]

Pay(p) ==
  /\ p \notin paid
  /\ paid' = paid \cup {p}
  /\ UNCHANGED <<book, claim>>

Claim(d, p) ==
  /\ book[d] = "none"
  /\ \A e \in Dispute : claim[e] # p
  /\ book' = [book EXCEPT ![d] = "open"]
  /\ claim' = [claim EXCEPT ![d] = p]
  /\ UNCHANGED paid

Decide(d, outcome) ==
  /\ book[d] = "open"
  /\ outcome = "refunded" => claim[d] \in paid
  /\ book' = [book EXCEPT ![d] = outcome]
  /\ UNCHANGED <<paid, claim>>

Next ==
  \/ \E p \in Payment : Pay(p)
  \/ \E d \in Dispute, p \in Payment : Claim(d, p)
  \/ \E d \in Dispute, outcome \in {"refunded", "closed"} : Decide(d, outcome)

Spec == Init /\ [][Next]_vars
=============================================================================
