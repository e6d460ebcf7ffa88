---------------------------- MODULE DemoPayment -----------------------------
(***************************************************************************)
(* run_assurance_demo_payment.py: the buyer of the demo pays the seller    *)
(* once through a PaymentClient whose observer stores the evidence.        *)
(*                                                                         *)
(* The client's own journal and limits are PaymentClient.tla; here it      *)
(* signs one authorization, sends one paid request and gets an answer or   *)
(* none.  It tells the script what it learnt by an event before it calls   *)
(* the observer.                                                           *)
(***************************************************************************)
EXTENDS Provisioning, DemoProvider

CONSTANTS
  DemoAuth,      \* the authorization that the buyer signs
  MaxPresented   \* bound on the requests that carry it

ASSUME PaymentAssumption == DemoAuth \in Auth /\ MaxPresented \in Nat

VARIABLES
  payment,    \* the artifact of the script
  evidence,   \* AssuranceEvidence of the payment in AssuranceStore
  presented   \* how many requests have carried the authorization

paymentVars == <<payment, evidence, presented>>

\* "open" stands for preflight_complete and the names of the client's events
\* before a transaction is known.
PaymentArtifact == [status : {"open", "settled", "verified"},
                    hash : SettleHash \cup {Unset}, mined : 0..MaxFunding]

\* What an exchange comes to, and its evidence keeps of it: the status of the
\* answer, 0 for none, and the transaction that the answer names.
Exchange == [code : Codes, hash : SettleHash \cup {Unset}]

ASSUME EvidenceAssumption == NoRow \notin PaymentArtifact \cup Exchange

PaymentTypeOK ==
  /\ payment \in PaymentArtifact \cup {NoRow}
  /\ evidence \in Exchange \cup {NoRow}
  /\ presented \in 0..MaxPresented

PaymentInit == payment = NoRow /\ evidence = NoRow /\ presented = 0

\* _run up to the artifact.  It exists before the journal and the evidence do,
\* and refuses every later run.
StartPayment ==
  /\ proc = Idle
  /\ payment = NoRow
  /\ bondConfigured # NoHash
  /\ providerBondBalance[Funder] = BondAmount
  /\ held = BondAmount
  /\ payment' = [status |-> "open", hash |-> Unset, mined |-> Cardinality(Settled)]
  /\ GoesTo("pay_request", NoHash)
  /\ UNCHANGED <<providerVars, evidence, presented>>

\* A request with the authorization reaches the service.
Presents(t) ==
  /\ presented < MaxPresented
  /\ Request(t, DemoAuth)
  /\ presented' = presented + 1

\* client.get: the seller's 402 is answered with a signed authorization.
SendPaid(t) ==
  /\ proc.at = "pay_request"
  /\ Presents(t)
  /\ GoesTo("pay_wait", t)
  /\ UNCHANGED <<payment, evidence>>

\* What the client tells of an exchange.
Answer(code, hash) == [code |-> code, hash |-> hash]

\* The answer of the thread that serves the paid request arrives.
TakeAnswer ==
  LET t == proc.held IN
  /\ proc.at = "pay_wait"
  /\ thread[t].at = "answer"
  /\ GoesTo("pay_answered", Answer(thread[t].code, thread[t].hash))
  /\ Hangup(t)
  /\ UNCHANGED paymentVars

\* The connection is lost, or the client's timeout comes first.
MissAnswer ==
  /\ proc.at = "pay_wait"
  /\ GoesTo("pay_answered", Answer(0, Unset))
  /\ UNCHANGED <<providerVars, paymentVars>>

\* on_event: the artifact gets the hash, if there is one.  An error of the
\* callback is swallowed.
NoteEvent ==
  LET answer == proc.held IN
  /\ proc.at = "pay_answered"
  /\ \/ /\ answer.hash # Unset
        /\ payment' = [payment EXCEPT !.status = "settled", !.hash = answer.hash]
     \/ UNCHANGED payment
  /\ GoesTo("pay_observe", answer)
  /\ UNCHANGED <<providerVars, evidence, presented>>

\* EvidenceRecorder.on_exchange, which fails open.  The script ends unless the
\* answer was 200 and is on record.
StoreEvidence ==
  LET answer == proc.held IN
  /\ proc.at = "pay_observe"
  /\ \/ /\ evidence' = answer
        /\ IF answer.code = 200 THEN GoesTo("pay_finalize", answer) ELSE Ends
     \/ /\ UNCHANGED evidence
        /\ Ends
  /\ UNCHANGED <<providerVars, payment, presented>>

\* --resume
ResumePayment ==
  /\ proc = Idle
  /\ payment # NoRow /\ payment.hash # Unset
  /\ evidence # NoRow
  /\ evidence.hash = payment.hash /\ evidence.code = 200
  /\ GoesTo("pay_finalize", evidence)
  /\ UNCHANGED <<providerVars, paymentVars>>

\* The balances show this settlement, the gas of no other transaction, and a
\* bond that is whole.
Reconciles(h) ==
  /\ {g \in SettleHash : settleTx[g].status \in {"mined", "reverted"}} = {h}
  /\ Cardinality(Settled) = payment.mined
  /\ providerBondBalance[Funder] = BondAmount
  /\ held = BondAmount
  /\ refunds = {}

\* _finalize_existing_payment: the receipt, ArcPaymentVerifier and balances.
FinalizePayment ==
  LET h == proc.held.hash IN
  /\ proc.at = "pay_finalize"
  /\ settleTx[h].status = "mined"
  /\ Reconciles(h)
  /\ payment' = [payment EXCEPT !.status = "verified", !.hash = h]
  /\ Ends
  /\ UNCHANGED <<providerVars, evidence, presented>>

\* The service runs for the payment: anyone who has seen the authorization may
\* present it again until the payment is verified; then it is stopped.  A
\* transaction that it has left behind is mined nevertheless.
ServiceStep ==
  /\ presented > 0
  /\ \/ payment.status # "verified" /\ \E t \in Thread : Presents(t)
     \/ payment.status # "verified" /\ ProviderStep /\ UNCHANGED presented
     \/ CrashProvider /\ UNCHANGED presented
     \/ (\E h \in SettleHash : MineSettlement(h)) /\ UNCHANGED presented
  /\ UNCHANGED <<payment, evidence>>
=============================================================================
