--------------------------- MODULE DemoLifecycle ----------------------------
(***************************************************************************)
(* The assurance demo from the deployment of its contracts to the refund:  *)
(* the operator's scripts one after the other, the seller's service, the   *)
(* two chains between them.  What connects the stages is in files, in the  *)
(* AssuranceStore and in the contracts; any script can stop anywhere and   *)
(* be started again.                                                       *)
(*                                                                         *)
(* The operator turns to the next stage when the artifact of the one before*)
(* is complete: bond, funding, GenLayer contract, payment, and from then on*)
(* the scripts insist on it themselves.                                    *)
(***************************************************************************)
EXTENDS RefundScript

CONSTANT MaxReruns   \* bound on how often a script is started once more

ASSUME LifecycleAssumption == MaxReruns \in Nat

VARIABLE runs        \* how often any script has been started

relayOnly == <<settlements, tx, workerVars>>
stageVars == <<provisioningVars, bondVars, glVars, providerVars, paymentVars,
               disputes, adjudicationVars, relayOnly, recovery>>
lifecycleVars == <<proc, runs, stageVars>>

LifecycleInit ==
  /\ runs = 0
  /\ ProvisioningInit /\ BondInit /\ GlInit
  /\ ProviderInit /\ PaymentInit /\ AdjudicationInit /\ RecoveryInit
  /\ disputes = [d \in Dispute |-> NoRow]
  /\ settlements = [d \in Dispute |-> NoRow]
  /\ tx = [h \in Hash |-> NoTx]
  /\ pc = [w \in Worker |-> "idle"]
  /\ job = [w \in Worker |-> NoRow]
  /\ goal = [w \in Worker |-> NoRow]

\* A step of the stage-th of the seven scripts; from Idle it is the first one of
\* a run.
ScriptStep(stage) ==
  IF proc = Idle
    THEN runs < stage + MaxReruns /\ runs' = runs + 1
    ELSE UNCHANGED runs

Funded == funding # NoRow /\ funding.status = "confirmed"

BondScript ==
  /\ ScriptStep(1)
  /\ \/ SendDeployment \/ RecordDeployment \/ FinishDeployment \/ ConfigureBond
     \/ \E h \in DeployHash : ResumeDeployment(h)
  /\ UNCHANGED <<bondVars, glVars, providerVars, paymentVars, disputes,
                 adjudicationVars, relayOnly, recovery>>

FundingScript ==
  /\ ScriptStep(2)
  /\ \/ StartFunding \/ ResumeFunding \/ SendApprove \/ SendDeposit
     \/ RecordFunding \/ ConfirmApprove
     \* A settlement takes the provider's gas, too.
     \/ (\A h \in SettleHash : settleTx[h].status \in {"unused", "mempool"}) /\ ConfirmDeposit
  /\ UNCHANGED <<bondVars, glVars, providerVars, paymentVars, disputes,
                 adjudicationVars, relayOnly, recovery>>

GenLayerScript ==
  /\ ScriptStep(3)
  /\ Funded
  /\ SubmitDeployment \/ FinishGlDeployment \/ \E g \in GlId : ResumeGlDeployment(g)
  /\ UNCHANGED <<bondVars, verdicts, writer, providerVars, paymentVars, disputes,
                 adjudicationVars, relayOnly, recovery>>

PaymentScript ==
  /\ ScriptStep(4)
  /\ Funded /\ glArtifact # NoHash
  /\ \/ StartPayment \/ TakeAnswer \/ MissAnswer \/ NoteEvent \/ StoreEvidence
     \/ ResumePayment \/ FinalizePayment
     \/ \E t \in Thread : SendPaid(t)
  /\ UNCHANGED <<provisioningVars, bondVars, glVars, disputes, adjudicationVars,
                 relayOnly, recovery>>

DisputeScript ==
  /\ ScriptStep(5)
  /\ \A t \in Thread : thread[t] = Free
  /\ OpenDispute \/ PersistDispute
  /\ UNCHANGED <<provisioningVars, bondVars, verdicts, writer, providerVars,
                 paymentVars, relayOnly, recovery>>

AdjudicationScript ==
  /\ ScriptStep(6)
  /\ \/ SubmitAdjudication \/ RecordAdjudication
     \/ SetAdjudicating \/ ResumeAdjudication \/ AwaitVerdict \/ PersistVerdict
     \/ FinalizeAdjudication
  /\ UNCHANGED <<provisioningVars, bondVars, verdicts, writer, providerVars,
                 paymentVars, relayOnly, recovery>>

RefundRun ==
  /\ ScriptStep(7)
  /\ \/ StartRefund \/ CallSettle \/ RelayStep \/ SendRefund \/ RecordRefund
     \/ WriteOutcome \/ StillPending \/ ConfirmRefund \/ StopsWithRelay
  /\ UNCHANGED <<provisioningVars, glVars, providerVars, paymentVars, adjudicationVars>>

Service ==
  /\ ServiceStep
  /\ UNCHANGED <<proc, runs, provisioningVars, bondVars, glVars, disputes, adjudicationVars,
                 relayOnly, recovery>>

ArcChain ==
  /\ \/ /\ \/ MineFunding
           \/ /\ bondConfigured = NoHash
              /\ \E h \in DeployHash : MineDeployment(h)
              /\ UNCHANGED bondVars
        /\ UNCHANGED <<disputes, relayOnly>>
     \/ /\ \E h \in Hash : Mine(h) \/ Drop(h)
        /\ UNCHANGED provisioningVars
  /\ UNCHANGED <<proc, runs, glVars, providerVars, paymentVars, adjudicationVars, recovery>>

GenLayer ==
  /\ \E g \in GlId :
       /\ glArtifact = NoHash \/ glTx[g].call # "deploy"
       /\ Cancel(g) \/ \E decision \in {"violated", "kept"} : Finalize(g, decision)
  /\ UNCHANGED <<proc, runs, provisioningVars, bondVars, providerVars, paymentVars, disputes,
                 adjudicationVars, relayOnly, recovery>>

LifecycleNext ==
  \/ BondScript \/ FundingScript \/ GenLayerScript \/ PaymentScript
  \/ DisputeScript \/ AdjudicationScript \/ RefundRun
  \/ Service \/ ArcChain \/ GenLayer

LifecycleSpec == LifecycleInit /\ [][LifecycleNext]_lifecycleVars

LifecycleTypeOK ==
  /\ runs \in 0..(7 + MaxReruns)
  /\ ProvisioningTypeOK /\ BondTypeOK /\ GlTypeOK /\ ProviderTypeOK /\ PaymentTypeOK
  /\ JournalTypeOK /\ AdjudicationTypeOK /\ RecoveryTypeOK
  /\ tx \in [Hash -> [binding : Binding, status : TxStatus] \cup {NoTx}]
  /\ pc \in [Worker -> PcLabels]
  /\ job \in [Worker -> Binding \cup {NoRow}]
  /\ goal \in [Worker -> SettlementRow \cup {NoRow}]

-----------------------------------------------------------------------------

\* The provider's bond is deposited once, however often the funding script
\* stops between a broadcast and its artifact, and is run again.
BondedOnce == deposited[Funder] <= BondAmount

\* Money goes back to the buyer only for a payment that the seller received, on
\* a dispute that GenLayer finally decided for the buyer.
RefundIsEarned ==
  refunds # {} =>
    /\ refunds = {RefundCall(DemoBinding)}
    /\ DemoAuth \in usedAuth
    /\ verdicts[DemoDispute] = "violated"
    /\ disputes[DemoDispute] = "upheld"

\* A dispute is decided as the contract's verdict says, and by the very
\* transaction on record, though the adjudication may have been sent twice.
DecidedByRecorded ==
  disputes[DemoDispute] \in {"upheld", "rejected"} =>
    /\ disputes[DemoDispute] = Target(verdicts[DemoDispute])
    /\ adjudication # NoRow
    /\ reference = adjudication.id /\ reference = writer[DemoDispute]

\* The files that the next stage starts from tell what happened on the chains.
ArtifactsTellTruth ==
  /\ bondConfigured # NoHash =>
       bondConfigured = bondArtifact /\ deployTx[bondArtifact] = "mined"
  /\ funding # NoRow /\ funding.status = "confirmed" => deposited[Funder] = BondAmount
  /\ evidence # NoRow /\ evidence.code = 200 =>
       settleTx[evidence.hash] = [auth |-> DemoAuth, status |-> "mined"]
  /\ payment # NoRow /\ payment.status = "verified" =>
       evidence # NoRow /\ evidence.code = 200 /\ evidence.hash = payment.hash
  /\ adjudication # NoRow /\ adjudication.status = "finalized" =>
       adjudication.decision = verdicts[DemoDispute]
  /\ recovery # NoRow =>
       /\ recovery.hash # NoHash => tx[recovery.hash].binding = DemoBinding
       /\ recovery.status = "confirmed" => RefundCall(DemoBinding) \in refunds

\* After a settlement that the relay reports as confirmed, main's checks of the
\* receipt, its event, the bond, the contract's balance, the replay flags and the
\* local record all hold: of the wallets' own balances apart, which others can
\* change, the script has no reason left to refuse the refund it made.
ClosingChecksHold ==
  proc.at = "refund_check" =>
    /\ tx[proc.held] = [binding |-> DemoBinding, status |-> "mined"]
    /\ RefundCall(DemoBinding) \in refunds
    /\ providerBondBalance[ProviderOf[DemoBinding]] = BondAmount - AmountOf[DemoBinding]
    /\ held = BondAmount - AmountOf[DemoBinding]
    /\ StatusOf(DemoDispute) = "confirmed" /\ settlements[DemoDispute].hash = proc.held

\* The hash in the recovery artifact is that of the only refund transaction ever
\* sent: a run that resumes looks at the right one.
RecoveryNamesIt ==
  \A h \in Hash :
    tx[h] # NoTx /\ recovery # NoRow /\ recovery.hash # NoHash => recovery.hash = h
=============================================================================
