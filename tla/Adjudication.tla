---------------------------- MODULE Adjudication ----------------------------
(***************************************************************************)
(* prepare_assurance_demo_dispute.py and                                   *)
(* submit_assurance_demo_adjudication.py: the operator opens the dispute   *)
(* about the demo's payment, sends it to GenLayer, and records the verdict *)
(* that is final there.                                                    *)
(***************************************************************************)
EXTENDS DemoPayment, SettlementRelay

CONSTANT DemoBinding   \* the settlement binding of the demo's dispute

ASSUME AdjudicationAssumption == DemoBinding \in Binding

DemoDispute == DisputeOf[DemoBinding]

VARIABLES
  prepared,      \* whether DISPUTE_ARTIFACT exists
  adjudication,  \* ADJUDICATION_ARTIFACT
  reference      \* adjudicator_reference of the stored dispute's verdict

adjudicationVars == <<prepared, adjudication, reference>>

AdjudicationArtifact == [status : {"submitted", "finalized"}, id : GlId,
                         decision : {"none", "violated", "kept"}]

ASSUME ArtifactAssumption == NoRow \notin AdjudicationArtifact

AdjudicationTypeOK ==
  /\ prepared \in BOOLEAN
  /\ adjudication \in AdjudicationArtifact \cup {NoRow}
  /\ reference \in GlId \cup {NoHash}

AdjudicationInit == prepared = FALSE /\ adjudication = NoRow /\ reference = NoHash

-----------------------------------------------------------------------------
(* prepare_assurance_demo_dispute.py *)

\* ArcPaymentVerifier on the stored evidence.
PaymentVerified ==
  /\ evidence # NoRow
  /\ evidence.code = 200
  /\ settleTx[evidence.hash].status = "mined"

\* Up to _create_or_reuse_dispute.
OpenDispute ==
  /\ proc = Idle
  /\ payment # NoRow /\ payment.status = "verified"
  /\ PaymentVerified
  /\ \/ InsertDispute(DemoDispute)
     \/ disputes[DemoDispute] # NoRow /\ UNCHANGED disputes
  /\ GoesTo("prepare", NoHash)
  /\ UNCHANGED <<glTx, adjudicationVars>>

\* The GenLayer preflight and _persist_idempotently.
PersistDispute ==
  /\ proc.at = "prepare"
  /\ glArtifact # NoHash
  /\ verdicts[DemoDispute] = "none"
  /\ prepared' = TRUE
  /\ Ends
  /\ UNCHANGED <<glTx, disputes, adjudication, reference>>

-----------------------------------------------------------------------------
(* submit_assurance_demo_adjudication.py *)

FrozenSources == prepared /\ glArtifact # NoHash

\* Without an artifact: the contract has no final verdict, so the dispute is
\* submitted.  The identifier comes back, or an error with or without a
\* transaction.
SubmitAdjudication ==
  /\ proc = Idle
  /\ FrozenSources
  /\ adjudication = NoRow
  /\ verdicts[DemoDispute] = "none"
  /\ \E id \in GlId \cup {NoHash} :
       /\ SubmitsGl("adjudicate", DemoDispute, id)
       /\ IF id = NoHash THEN Ends ELSE GoesTo("adj_sent", id)
  /\ UNCHANGED <<disputes, adjudicationVars>>

RecordAdjudication ==
  /\ proc.at = "adj_sent"
  /\ adjudication' = [status |-> "submitted", id |-> proc.held, decision |-> "none"]
  /\ GoesTo("adj_recorded", proc.held)
  /\ UNCHANGED <<glTx, disputes, prepared, reference>>

\* _set_adjudicating
SetAdjudicating ==
  /\ proc.at = "adj_recorded"
  /\ IF disputes[DemoDispute] = "open"
       THEN UpdateDispute(DemoDispute, "adjudicating")
       ELSE UNCHANGED disputes
  /\ GoesTo("adj_wait", proc.held)
  /\ UNCHANGED <<glTx, adjudicationVars>>

\* With an artifact, whatever its status: its transaction is waited for.
ResumeAdjudication ==
  /\ proc = Idle
  /\ FrozenSources
  /\ adjudication # NoRow
  /\ GoesTo("adj_wait", adjudication.id)
  /\ UNCHANGED <<glTx, disputes, adjudicationVars>>

\* Plausible bug: any verdict on the dispute is taken for the transaction's.
AwaitAnyVerdict ==
  /\ proc.at = "adj_wait"
  /\ verdicts[DemoDispute] # "none"
  /\ GoesTo("adj_verdict", [id |-> proc.held, decision |-> verdicts[DemoDispute]])
  /\ UNCHANGED <<glTx, disputes, adjudicationVars>>

\* wait_for_finalized_verdict, and what the script asks of the transaction
\* beyond it: the node itself reports that it returned.
AwaitVerdict ==
  LET g == proc.held IN
  /\ proc.at = "adj_wait"
  /\ VerdictFinalized(g)
  /\ glTx[g].execution = "FINISHED_WITH_RETURN"
  /\ GoesTo("adj_verdict", [id |-> g, decision |-> verdicts[DemoDispute]])
  /\ UNCHANGED <<glTx, disputes, adjudicationVars>>

Target(decision) == IF decision = "violated" THEN "upheld" ELSE "rejected"

\* _persist_final_dispute: the dispute is decided now, or was by the same
\* transaction.
PersistVerdict ==
  LET verdict == proc.held IN
  /\ proc.at = "adj_verdict"
  /\ \/ /\ UpdateDispute(DemoDispute, Target(verdict.decision))
        /\ reference' = verdict.id
     \/ /\ disputes[DemoDispute] = Target(verdict.decision)
        /\ reference = verdict.id
        /\ UNCHANGED <<disputes, reference>>
  /\ GoesTo("adj_decided", verdict)
  /\ UNCHANGED <<glTx, prepared, adjudication>>

-----------------------------------------------------------------------------
(* The binding, in settlement.py. *)

\* FinalizedGenLayerAdjudication: there is one for this transaction.
FinalizedGenLayerAdjudication(g) ==
  /\ VerdictFinalized(g)
  /\ glTx[g].outcome = "accepted"
  /\ glTx[g].execution = "FINISHED_WITH_RETURN"

\* validate_binding: payment, dispute and verdict are about each other, and the
\* dispute was decided by this transaction, in this way.
ValidBinding(g, decision) ==
  /\ PaymentVerified
  /\ FinalizedGenLayerAdjudication(g)
  /\ disputes[DemoDispute] = Target(decision)
  /\ reference = g

\* ensure_eligible of a binding that from_sources built.
EligibleBinding(g, decision) == ValidBinding(g, decision) /\ decision = "violated"

\* _settlement_preview returns: the refund is still to be had.
SettlementPreview(g, decision) ==
  /\ EligibleBinding(g, decision)
  /\ settlements[DemoDispute] = NoRow
  /\ ~Consumed(DemoBinding)
  /\ providerBondBalance[ProviderOf[DemoBinding]] >= AmountOf[DemoBinding]

\* A violation is previewed, and the artifact is written.
FinalizeAdjudication ==
  LET verdict == proc.held IN
  /\ proc.at = "adj_decided"
  /\ verdict.decision = "violated" => SettlementPreview(verdict.id, verdict.decision)
  /\ adjudication' = [status |-> "finalized", id |-> verdict.id, decision |-> verdict.decision]
  /\ Ends
  /\ UNCHANGED <<glTx, disputes, prepared, reference>>
=============================================================================
