--------------------------- MODULE SettlementRelay ---------------------------
(***************************************************************************)
(* AssuranceSettlementRelay.settle of arc_agent_pay/assurance/settlement.py*)
(* run by several workers over one journal, with the WarrantyBondClient of *)
(* bond.py between them and the WarrantyBond contract.                     *)
(*                                                                         *)
(* A worker holds a copy of the row it read and acts on it: it checks the  *)
(* chain, writes submission_attempted, sends one transaction, and writes   *)
(* what became of it.  Each of these is a step of its own, between which   *)
(* other workers run, blocks are mined and the worker may die.  What dies  *)
(* with it is its copy, its job and the hash it was given; the journal and *)
(* the chain stay.                                                         *)
(***************************************************************************)
EXTENDS WarrantyBond, AssuranceJournal

CONSTANTS
  Worker,
  ProviderOf, AmountOf,   \* provider and payment_amount of a binding
  Foreign,                \* refunds that a relay with another journal may send
  MaxDeposit              \* bound on what a provider ever deposits

ASSUME RelayAssumption ==
  /\ ProviderOf \in [Binding -> Provider]
  /\ AmountOf \in [Binding -> 1..MaxAmount]
  /\ Foreign \subseteq RefundEvent
  /\ MaxDeposit \in Nat

VARIABLES
  tx,      \* tx[h]: the refund transaction broadcast under hash h
  pc,      \* where a worker is in settle
  job,     \* the binding it was called with
  goal     \* the record it is about to pass to update_settlement, or its copy

workerVars == <<pc, job, goal>>
relayVars == <<bondVars, disputes, settlements, tx, workerVars>>

NoTx == [binding |-> NoRow, status |-> "unused"]
TxStatus == {"mempool", "mined", "reverted", "dropped"}

\* "idle"     not in settle, or has raised or returned
\* "create"   found no row
\* "flags"    _preflight, before the replay flags are read
\* "balance"  _preflight, before the bond is read
\* "write"    in update_settlement with goal
\* "send"     in submit_refund
\* "resolve"  _resolve_ambiguous
\* "wait"     _resolve_pending
PcLabels == {"idle", "create", "flags", "balance", "write", "send", "resolve", "wait"}

TypeOK ==
  /\ BondTypeOK
  /\ JournalTypeOK
  /\ tx \in [Hash -> [binding : Binding, status : TxStatus] \cup {NoTx}]
  /\ pc \in [Worker -> PcLabels]
  /\ job \in [Worker -> Binding \cup {NoRow}]
  /\ goal \in [Worker -> SettlementRow \cup {NoRow}]

Init ==
  /\ BondInit
  /\ disputes = [d \in Dispute |-> "adjudicating"]
  /\ settlements = [d \in Dispute |-> NoRow]
  /\ tx = [h \in Hash |-> NoTx]
  /\ pc = [w \in Worker |-> "idle"]
  /\ job = [w \in Worker |-> NoRow]
  /\ goal = [w \in Worker |-> NoRow]

\* What submit_refund asks of the contract for a binding.
RefundCall(b) == [dispute |-> DisputeOf[b], payment |-> PaymentOf[b],
                  provider |-> ProviderOf[b], amount |-> AmountOf[b]]

Consumed(b) == DisputeOf[b] \in processedDisputes \/ PaymentOf[b] \in refundedPayments

\* A transition of a record: the hash is dropped unless it is given again.
Becomes(row, status) == [row EXCEPT !.status = status, !.hash = NoHash]

-----------------------------------------------------------------------------
(* The worker. *)

\* The branch of settle for the record it found; for the final statuses it
\* returns the result or raises.
BranchOf(row) ==
  CASE row.status = "eligible"                 -> "flags"
    [] row.status = "pending"                  -> "wait"
    [] row.status \in {"submission_attempted",
                       "ambiguous_submission"} -> "resolve"
    [] OTHER                                   -> "idle"

\* settle returns or raises: what the worker held is gone.
Leaves(w) ==
  /\ pc' = [pc EXCEPT ![w] = "idle"]
  /\ job' = [job EXCEPT ![w] = NoRow]
  /\ goal' = [goal EXCEPT ![w] = NoRow]

Enters(w, b, row) ==
  /\ BranchOf(row) # "idle"
  /\ pc' = [pc EXCEPT ![w] = BranchOf(row)]
  /\ job' = [job EXCEPT ![w] = b]
  /\ goal' = [goal EXCEPT ![w] = row]

\* settle(b) up to get_settlement.  A binding is built from a dispute that was
\* upheld.  A row of another binding, or one that is final, ends the call.
Settle(w, b) ==
  LET row == settlements[DisputeOf[b]] IN
  /\ pc[w] = "idle"
  /\ disputes[DisputeOf[b]] = "upheld"
  /\ \/ /\ row = NoRow
        /\ pc' = [pc EXCEPT ![w] = "create"]
        /\ job' = [job EXCEPT ![w] = b]
        /\ UNCHANGED goal
     \/ /\ row # NoRow
        /\ row.binding = b
        /\ Enters(w, b, row)
  /\ UNCHANGED <<bondVars, disputes, settlements, tx>>

\* create_settlement: it inserts the row, or returns the one that another
\* worker inserted for the same binding since, or refuses.
Create(w) ==
  LET b == job[w] IN
  /\ pc[w] = "create"
  /\ \/ /\ InsertSettlement(b)
        /\ Enters(w, b, Eligible(b))
     \/ /\ \E row \in Conflicting(b) : row.binding = b /\ Enters(w, b, row)
        /\ UNCHANGED settlements
     \/ /\ Leaves(w)
        /\ UNCHANGED settlements
  /\ UNCHANGED <<bondVars, disputes, tx>>

\* Goes on to write the record that row becomes.
GoesToWrite(w, row) ==
  /\ pc' = [pc EXCEPT ![w] = "write"]
  /\ goal' = [goal EXCEPT ![w] = row]

\* _preflight up to the replay flags.  Every read may fail for good.
PreflightFlags(w) ==
  /\ pc[w] = "flags"
  /\ \/ GoesToWrite(w, Becomes(goal[w], "failed_before_submission"))
     \/ /\ Consumed(job[w])
        /\ GoesToWrite(w, Becomes(goal[w], "already_settled"))
     \/ /\ ~Consumed(job[w])
        /\ pc' = [pc EXCEPT ![w] = "balance"]
        /\ UNCHANGED goal
  /\ UNCHANGED <<bondVars, disputes, settlements, tx, job>>

\* _preflight from the provider's balance on.
PreflightBalance(w) ==
  /\ pc[w] = "balance"
  /\ \/ GoesToWrite(w, Becomes(goal[w], "failed_before_submission"))
     \/ /\ providerBondBalance[ProviderOf[job[w]]] >= AmountOf[job[w]]
        /\ GoesToWrite(w, Becomes(goal[w], "submission_attempted"))
  /\ UNCHANGED <<bondVars, disputes, settlements, tx, job>>

\* Where settle goes on after _transition has returned.
AfterWrite(row) ==
  CASE row.status = "submission_attempted" -> "send"
    [] row.status = "pending"              -> "wait"
    [] OTHER                               -> "idle"

\* _transition writes the record, and settle goes on or raises.
Write(w) ==
  /\ pc[w] = "write"
  /\ CommitSettlement(goal[w]) \/ EchoSettlement(goal[w])
  /\ \/ /\ AfterWrite(goal[w]) # "idle"
        /\ pc' = [pc EXCEPT ![w] = AfterWrite(goal[w])]
        /\ UNCHANGED <<job, goal>>
     \/ /\ AfterWrite(goal[w]) = "idle"
        /\ Leaves(w)
  /\ UNCHANGED <<bondVars, disputes, tx>>

\* _transition raises: the row has moved on, or the database cannot be written.
WriteRefused(w) ==
  /\ pc[w] = "write"
  /\ Leaves(w)
  /\ UNCHANGED <<bondVars, disputes, settlements, tx>>

\* The node takes the transaction.  It was built, and its gas estimated, on a
\* chain that admits the refund.
Broadcasts(w, h) ==
  /\ tx[h] = NoTx
  /\ RefundAdmitted(RefundCall(job[w]))
  /\ tx' = [tx EXCEPT ![h] = [binding |-> job[w], status |-> "mempool"]]

\* submit_refund.  The transaction goes out and its hash comes back, or the
\* answer is lost or unusable; or nothing goes out, and the client knows it or
\* does not.
Send(w) ==
  /\ pc[w] = "send"
  /\ \/ \E h \in Hash :
          /\ Broadcasts(w, h)
          /\ \/ GoesToWrite(w, [goal[w] EXCEPT !.status = "pending", !.hash = h])
             \/ GoesToWrite(w, Becomes(goal[w], "ambiguous_submission"))
     \/ /\ UNCHANGED tx
        /\ \/ GoesToWrite(w, Becomes(goal[w], "failed_before_submission"))
           \/ /\ RefundAdmitted(RefundCall(job[w]))
              /\ GoesToWrite(w, Becomes(goal[w], "ambiguous_submission"))
  /\ UNCHANGED <<bondVars, disputes, settlements, job>>

\* _resolve_ambiguous.  The client never learns a hash from a lost answer, so
\* the replay flags are all it can ask; a read may fail.
ResolveAmbiguous(w) ==
  /\ pc[w] = "resolve"
  /\ \/ /\ Consumed(job[w])
        /\ GoesToWrite(w, Becomes(goal[w], "already_settled"))
        /\ UNCHANGED job
     \/ /\ ~Consumed(job[w])
        /\ goal[w].status = "submission_attempted"
        /\ GoesToWrite(w, Becomes(goal[w], "ambiguous_submission"))
        /\ UNCHANGED job
     \/ Leaves(w)
  /\ UNCHANGED <<bondVars, disputes, settlements, tx>>

\* Plausible bug: the status of the receipt is not looked at.
ReceiptUnchecked(w) ==
  /\ pc[w] = "wait"
  /\ tx[goal[w].hash].status \in {"mined", "reverted"}
  /\ GoesToWrite(w, [goal[w] EXCEPT !.status = "confirmed"])
  /\ UNCHANGED <<bondVars, disputes, settlements, tx, job>>

\* Plausible bug: the confirmed record is made without the hash.
ReceiptWithoutHash(w) ==
  /\ pc[w] = "wait"
  /\ tx[goal[w].hash].status = "mined"
  /\ GoesToWrite(w, Becomes(goal[w], "confirmed"))
  /\ UNCHANGED <<bondVars, disputes, settlements, tx, job>>

\* _resolve_pending once there is a receipt.  A confirmed record keeps the
\* hash; a failed one does not.
Receipt(w) ==
  /\ pc[w] = "wait"
  /\ \/ /\ tx[goal[w].hash].status = "mined"
        /\ GoesToWrite(w, [goal[w] EXCEPT !.status = "confirmed"])
     \/ /\ tx[goal[w].hash].status = "reverted"
        /\ GoesToWrite(w, Becomes(goal[w], "failed"))
  /\ UNCHANGED <<bondVars, disputes, settlements, tx, job>>

\* SettlementPending is raised: no receipt before the client's timeout.
NoReceipt(w) ==
  /\ pc[w] = "wait"
  /\ Leaves(w)
  /\ UNCHANGED <<bondVars, disputes, settlements, tx>>

\* The process dies.
Crash(w) ==
  /\ pc[w] # "idle"
  /\ Leaves(w)
  /\ UNCHANGED <<bondVars, disputes, settlements, tx>>

-----------------------------------------------------------------------------
(* The chain and the other parties. *)

\* A block takes a transaction from the mempool.  Its call is admitted then, or
\* it reverts.
Mine(h) ==
  /\ tx[h].status = "mempool"
  /\ \/ /\ Refund(RefundCall(tx[h].binding))
        /\ tx' = [tx EXCEPT ![h].status = "mined"]
     \/ /\ ~RefundAdmitted(RefundCall(tx[h].binding))
        /\ tx' = [tx EXCEPT ![h].status = "reverted"]
        /\ UNCHANGED bondVars
  /\ UNCHANGED <<disputes, settlements, workerVars>>

\* The network forgets a transaction, for one of the same nonce or for its fee.
Drop(h) ==
  /\ tx[h].status = "mempool"
  /\ tx' = [tx EXCEPT ![h].status = "dropped"]
  /\ UNCHANGED <<bondVars, disputes, settlements, workerVars>>

\* A provider adds to its bond.
DepositBond(v) ==
  /\ deposited[v] < MaxDeposit
  /\ Deposit(v, 1)
  /\ UNCHANGED <<disputes, settlements, tx, workerVars>>

\* The resolver's key is also used by a relay with a journal of its own.
ForeignRefund ==
  /\ \E r \in Foreign : Refund(r)
  /\ UNCHANGED <<disputes, settlements, tx, workerVars>>

\* The adjudication of a dispute is finalized and recorded.
Conclude(d) ==
  /\ \E status \in {"upheld", "rejected"} : UpdateDispute(d, status)
  /\ UNCHANGED <<bondVars, settlements, tx, workerVars>>

WorkerStep(w) ==
  \/ \E b \in Binding : Settle(w, b)
  \/ Create(w) \/ PreflightFlags(w) \/ PreflightBalance(w)
  \/ Write(w) \/ WriteRefused(w) \/ Send(w)
  \/ ResolveAmbiguous(w) \/ Receipt(w) \/ NoReceipt(w) \/ Crash(w)

Next ==
  \/ \E w \in Worker : WorkerStep(w)
  \/ \E h \in Hash : Mine(h) \/ Drop(h)
  \/ \E v \in Provider : DepositBond(v)
  \/ ForeignRefund
  \/ \E d \in Dispute : Conclude(d)

\* The row of a dispute, when there is one.
StatusOf(d) == IF settlements[d] = NoRow THEN "none" ELSE settlements[d].status

Spec == Init /\ [][Next]_relayVars

-----------------------------------------------------------------------------

\* One transaction is broadcast for a dispute, over all calls of settle, by any
\* number of workers that race for it, die and start again (settlement.py:
\* "Trusted, single-submit Arc relay").
OneBroadcast ==
  \A g, h \in Hash :
    /\ tx[g] # NoTx /\ tx[h] # NoTx
    /\ DisputeOf[tx[g].binding] = DisputeOf[tx[h].binding]
    => g = h

\* What the relay sends, and so what is refunded through it, is for a dispute
\* that was upheld, for the binding that its journal settled.
SentIsUpheld ==
  \A h \in Hash : tx[h] # NoTx =>
    LET d == DisputeOf[tx[h].binding] IN
    /\ disputes[d] = "upheld"
    /\ settlements[d] # NoRow /\ settlements[d].binding = tx[h].binding

\* A settlement is confirmed when its own transaction was mined and paid its
\* buyer, has failed when it reverted, and is already settled when the contract
\* has the replay keys.
Truthful(row) ==
  /\ row.status = "confirmed" =>
       /\ tx[row.hash] = [binding |-> row.binding, status |-> "mined"]
       /\ RefundCall(row.binding) \in refunds
  /\ row.status = "pending" => tx[row.hash] # NoTx /\ tx[row.hash].binding = row.binding
  /\ row.status = "failed" =>
       \E h \in Hash : tx[h] = [binding |-> row.binding, status |-> "reverted"]
  /\ row.status = "already_settled" => Consumed(row.binding)

\* The journal tells what happened, even if another worker has moved a row on or
\* a relay elsewhere was faster.
ConfirmedIsRefunded ==
  \A d \in Dispute : settlements[d] # NoRow => Truthful(settlements[d])

\* What the journal says of a dispute, and the payment it claims.
BookOf(d) ==
  CASE StatusOf(d) = "none" -> "none"
    [] StatusOf(d) = "confirmed" -> "refunded"
    [] StatusOf(d) \in {"failed", "failed_before_submission", "already_settled"} -> "closed"
    [] OTHER -> "open"

ClaimOf(d) == IF settlements[d] = NoRow THEN NoRow ELSE PaymentOf[settlements[d].binding]

\* The abstract ledger of refunds that contract and journals implement.
Promise == INSTANCE RefundPromise WITH
  paid <- refundedPayments,
  book <- [d \in Dispute |-> BookOf(d)],
  claim <- [d \in Dispute |-> ClaimOf(d)]

ImplementsPromise == Promise!Spec
=============================================================================
