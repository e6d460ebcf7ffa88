---------------------------- MODULE RefundScript ----------------------------
(***************************************************************************)
(* run_assurance_demo_refund.py: one worker of the settlement relay, with  *)
(* checks before it, a recovery artifact that is written as soon as a hash *)
(* is known, and checks of the balances after it.                          *)
(***************************************************************************)
EXTENDS Adjudication

CONSTANT Runner   \* the worker that the script is

ASSUME RefundAssumption == Runner \in Worker

VARIABLE recovery   \* REFUND_ARTIFACT

RecoveryArtifact ==
  [status : {"preflight_complete", "broadcast", "ambiguous_submission", "pending", "confirmed"},
   hash : Hash \cup {NoHash}]

ASSUME RecoveryAssumption == NoRow \notin RecoveryArtifact

RecoveryTypeOK == recovery \in RecoveryArtifact \cup {NoRow}

RecoveryInit == recovery = NoRow

\* The files and the store tell of one finalized violation.
LoadedSources ==
  /\ prepared
  /\ adjudication # NoRow
  /\ adjudication.status = "finalized" /\ adjudication.decision = "violated"
  /\ evidence # NoRow
  /\ disputes[DemoDispute] = "upheld"
  /\ reference = adjudication.id

\* _verify_genlayer_finalized asks GenLayer again.
GenLayerFinalized ==
  /\ glArtifact # NoHash
  /\ FinalizedGenLayerAdjudication(adjudication.id)
  /\ verdicts[DemoDispute] = "violated"

\* _build_locked_binding asks Arc again, and binds what both say.
LockedBinding == EligibleBinding(adjudication.id, verdicts[DemoDispute])

\* The bond that the payment was made under, before any refund.
BondUntouched ==
  /\ providerBondBalance[ProviderOf[DemoBinding]] = BondAmount
  /\ ~Consumed(DemoBinding)
  /\ held = BondAmount

\* _base_artifact
Preflighted == [status |-> "preflight_complete", hash |-> NoHash]

\* main up to relay.settle.
StartRefund ==
  /\ proc = Idle
  /\ LoadedSources
  /\ GenLayerFinalized
  /\ LockedBinding
  /\ bondConfigured # NoHash
  /\ BondUntouched
  /\ recovery' = IF recovery = NoRow THEN Preflighted ELSE recovery
  /\ GoesTo("refund_start", NoHash)
  /\ UNCHANGED <<bondVars, disputes, settlements, tx, workerVars>>

CallSettle ==
  /\ proc.at = "refund_start"
  /\ Settle(Runner, DemoBinding)
  /\ GoesTo("refund_relay", NoHash)
  /\ UNCHANGED recovery

Ambiguous == [recovery EXCEPT !.status = "ambiguous_submission"]

\* The relay's own steps that write nothing.  When settle raises, the script is
\* over; if it raises because the outcome is still unknown, the artifact says so.
RelayStep ==
  /\ proc.at = "refund_relay"
  /\ \/ Create(Runner) \/ PreflightFlags(Runner) \/ PreflightBalance(Runner)
     \/ WriteRefused(Runner) \/ ResolveAmbiguous(Runner) \/ Receipt(Runner)
  /\ IF pc'[Runner] = "idle"
       THEN Ends /\ recovery' \in {recovery} \cup (IF pc[Runner] = "resolve" THEN {Ambiguous} ELSE {})
       ELSE UNCHANGED <<proc, recovery>>

\* submit_refund of RecordingWarrantyBondClient: a hash is recorded before the
\* relay sees it.
SendRefund ==
  /\ proc.at = "refund_relay"
  /\ Send(Runner)
  /\ IF goal'[Runner].status = "pending" THEN GoesTo("refund_record", NoHash) ELSE UNCHANGED proc
  /\ UNCHANGED recovery

\* on_transaction.  When it cannot write its file the relay takes the error for
\* a submission that failed.
RecordRefund ==
  /\ proc.at = "refund_record"
  /\ \/ /\ recovery' = [status |-> "broadcast", hash |-> goal[Runner].hash]
        /\ UNCHANGED goal
     \/ /\ goal' = [goal EXCEPT ![Runner] = Becomes(@, "failed_before_submission")]
        /\ UNCHANGED recovery
  /\ GoesTo("refund_relay", NoHash)
  /\ UNCHANGED <<bondVars, disputes, settlements, tx, pc, job>>

\* _transition, and what main makes of the outcome: the result of a confirmed
\* settlement, an artifact for an unknown one, an exception for the others.
WriteOutcome ==
  LET row == goal[Runner] IN
  /\ proc.at = "refund_relay"
  /\ Write(Runner)
  /\ CASE row.status = "confirmed" ->
            GoesTo("refund_check", row.hash) /\ UNCHANGED recovery
       [] row.status = "ambiguous_submission" ->
            /\ recovery' = Ambiguous
            /\ Ends
       [] row.status \in {"submission_attempted", "pending"} -> UNCHANGED <<proc, recovery>>
       [] OTHER -> Ends /\ UNCHANGED recovery

\* SettlementPending is raised, and its hash written.
StillPending ==
  /\ proc.at = "refund_relay"
  /\ NoReceipt(Runner)
  /\ recovery' = [status |-> "pending", hash |-> goal[Runner].hash]
  /\ Ends

\* The receipt, its event, the bond and the contract's balance, the replay flags and
\* the local record.  The wallets of buyer and provider are compared, too, with
\* what they held when the script began; anyone can send money to them meanwhile,
\* and a comparison that fails for it ends the script (StopsWithRelay).
ConfirmRefund ==
  LET h == proc.held IN
  /\ proc.at = "refund_check"
  /\ tx[h] = [binding |-> DemoBinding, status |-> "mined"]
  /\ RefundCall(DemoBinding) \in refunds
  /\ providerBondBalance[ProviderOf[DemoBinding]] = BondAmount - AmountOf[DemoBinding]
  /\ held = BondAmount - AmountOf[DemoBinding]
  /\ StatusOf(DemoDispute) = "confirmed" /\ settlements[DemoDispute].hash = h
  /\ recovery' = [status |-> "confirmed", hash |-> h]
  /\ Ends
  /\ UNCHANGED <<bondVars, disputes, settlements, tx, workerVars>>

\* The process dies, or one of its reads fails for good.
StopsWithRelay ==
  /\ Stops
  /\ IF pc[Runner] = "idle" THEN UNCHANGED workerVars ELSE Leaves(Runner)
  /\ UNCHANGED <<bondVars, disputes, settlements, tx, recovery>>
=============================================================================
