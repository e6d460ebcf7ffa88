---------------------------- MODULE Provisioning ----------------------------
(***************************************************************************)
(* The scripts that prepare the assurance demo: deploy_warranty_bond.py,   *)
(* fund_warranty_bond.py and deploy_genlayer_assurance.py.  Each can be    *)
(* stopped anywhere and run again; what it knows then is in its artifact   *)
(* files and on the chains.                                                *)
(*                                                                         *)
(* The operator runs one script at a time.  A script that raises, dies or  *)
(* gives up waiting is gone, with whatever it had not written.             *)
(***************************************************************************)
EXTENDS GenLayerClient, WarrantyBond, Sequences, FiniteSets

CONSTANTS
  DeployHash,   \* hashes of transactions that create the bond contract, in
                \* the order of use
  Funder,       \* the provider that funds its bond
  BondAmount,   \* BOND_AMOUNT
  MaxFunding    \* bound on the transactions fund_warranty_bond.py sends

ASSUME ProvisioningAssumption ==
  /\ DeployHash \subseteq Nat /\ NoHash \notin DeployHash
  /\ Funder \in Provider
  /\ BondAmount \in 1..MaxAmount
  /\ MaxFunding \in Nat

VARIABLES
  proc,            \* the script that runs: where it is and what it holds
  deployTx,        \* transactions that create the bond contract
  bondPending,     \* PENDING_ARTIFACT of deploy_warranty_bond.py
  bondArtifact,    \* its ARTIFACT
  bondConfigured,  \* warranty_bond in the packaged addresses
  fundTx,          \* the funding transactions of the provider, in nonce order
  funding,         \* the artifact of fund_warranty_bond.py
  glArtifact       \* the GenLayer deployment artifact

provisioningVars == <<deployTx, bondPending, bondArtifact, bondConfigured,
                      fundTx, funding, glArtifact>>

Idle == [at |-> "idle", held |-> NoHash]
GoesTo(at, memory) == proc' = [at |-> at, held |-> memory]
Ends == proc' = Idle

\* mined and bond are what the script saw of the provider when it started:
\* how many of its transactions had taken their gas, and its bond.
FundingArtifact == [
  status : {"approve_submitted", "approve_confirmed", "deposit_submitted", "confirmed"},
  approve : 0..MaxFunding, deposit : 0..MaxFunding,
  mined : 0..MaxFunding, bond : 0..MaxAmount]

ASSUME FundingAssumption == NoRow \notin FundingArtifact

ArcStatus == {"unused", "mempool", "mined", "reverted"}

ProvisioningTypeOK ==
  /\ deployTx \in [DeployHash -> ArcStatus]
  /\ {bondPending, bondArtifact, bondConfigured} \subseteq DeployHash \cup {NoHash}
  /\ fundTx \in Seq([kind : {"approve", "deposit"}, status : ArcStatus \ {"unused"}])
  /\ funding \in FundingArtifact \cup {NoRow}
  /\ glArtifact \in GlId \cup {NoHash}

ProvisioningInit ==
  /\ proc = Idle
  /\ deployTx = [h \in DeployHash |-> "unused"]
  /\ bondPending = NoHash /\ bondArtifact = NoHash /\ bondConfigured = NoHash
  /\ fundTx = <<>>
  /\ funding = NoRow
  /\ glArtifact = NoHash

\* A read fails for good, a wait times out, a check raises, the process dies.
Stops ==
  /\ proc # Idle
  /\ Ends

-----------------------------------------------------------------------------
(* deploy_warranty_bond.py *)

NotDeployed == bondConfigured = NoHash /\ bondArtifact = NoHash

\* The preflight and _broadcast_once.  The files it looks at are its own.  The
\* hash comes back, or the answer is lost.
SendDeployment ==
  /\ proc = Idle
  /\ NotDeployed /\ bondPending = NoHash
  /\ \E h \in DeployHash :
       /\ deployTx[h] = "unused"
       /\ \A g \in DeployHash : g < h => deployTx[g] # "unused"
       /\ deployTx' = [deployTx EXCEPT ![h] = "mempool"]
       /\ GoesTo("bond_sent", h) \/ Ends
  /\ UNCHANGED <<bondPending, bondArtifact, bondConfigured, fundTx, funding, glArtifact>>

RecordDeployment ==
  /\ proc.at = "bond_sent"
  /\ bondPending' = proc.held
  /\ GoesTo("bond_wait", proc.held)
  /\ UNCHANGED <<deployTx, bondArtifact, bondConfigured, fundTx, funding, glArtifact>>

\* --resume-transaction-hash: with no pending file it takes any transaction.
ResumeDeployment(h) ==
  /\ proc = Idle
  /\ NotDeployed /\ bondPending \in {NoHash, h}
  /\ deployTx[h] # "unused"
  /\ GoesTo("bond_wait", h)
  /\ UNCHANGED provisioningVars

\* _verify_and_finalize up to the artifact.
FinishDeployment ==
  /\ proc.at = "bond_wait"
  /\ deployTx[proc.held] = "mined"
  /\ bondArtifact' = proc.held
  /\ GoesTo("bond_written", proc.held)
  /\ UNCHANGED <<deployTx, bondPending, bondConfigured, fundTx, funding, glArtifact>>

\* _persist_configured_address
ConfigureBond ==
  /\ proc.at = "bond_written"
  /\ bondConfigured \in {NoHash, proc.held}
  /\ bondConfigured' = proc.held
  /\ Ends
  /\ UNCHANGED <<deployTx, bondPending, bondArtifact, fundTx, funding, glArtifact>>

MineDeployment(h) ==
  /\ deployTx[h] = "mempool"
  /\ \E status \in {"mined", "reverted"} : deployTx' = [deployTx EXCEPT ![h] = status]
  /\ UNCHANGED <<bondPending, bondArtifact, bondConfigured, fundTx, funding, glArtifact>>

-----------------------------------------------------------------------------
(* fund_warranty_bond.py *)

Settled == {i \in DOMAIN fundTx : fundTx[i].status # "mempool"}

\* Plausible bug: the approval is for more than the one deposit.
AllowanceUnlimited ==
  IF \E i \in DOMAIN fundTx : fundTx[i].status = "mined" /\ fundTx[i].kind = "approve"
    THEN BondAmount ELSE 0

\* What the contract may take from the provider: approve sets it, and a deposit
\* uses it up.
Allowance ==
  LET mined == {i \in DOMAIN fundTx : fundTx[i].status = "mined"} IN
  IF \E i \in mined : fundTx[i].kind = "approve" /\ \A j \in mined : j <= i
    THEN BondAmount ELSE 0

Sends(kind) ==
  /\ Len(fundTx) < MaxFunding
  /\ fundTx' = Append(fundTx, [kind |-> kind, status |-> "mempool"])

\* Where main goes on for the artifact it loaded.
ResumeAt == [approve_submitted |-> "fund_approving", approve_confirmed |-> "fund_deposit",
             deposit_submitted |-> "fund_depositing", confirmed |-> "idle"]

\* main without --resume, before the approval.
StartFunding ==
  /\ proc = Idle
  /\ bondConfigured # NoHash
  /\ funding = NoRow
  /\ Allowance = 0
  /\ GoesTo("fund_approve",
       [status |-> "approve_submitted", approve |-> 0, deposit |-> 0,
        mined |-> Cardinality(Settled), bond |-> providerBondBalance[Funder]])
  /\ UNCHANGED provisioningVars

\* main --resume
ResumeFunding ==
  /\ proc = Idle
  /\ bondConfigured # NoHash
  /\ funding # NoRow /\ funding.status # "confirmed"
  /\ GoesTo(ResumeAt[funding.status], funding)
  /\ UNCHANGED provisioningVars

\* The approval goes out; what comes back is kept in memory, or lost.
SendApprove ==
  /\ proc.at = "fund_approve"
  /\ Sends("approve")
  /\ GoesTo("fund_approved", [proc.held EXCEPT !.approve = Len(fundTx) + 1]) \/ Ends
  /\ UNCHANGED <<deployTx, bondPending, bondArtifact, bondConfigured, funding, glArtifact>>

\* The deposit, whose gas can be estimated only under the allowance.
SendDeposit ==
  /\ proc.at = "fund_deposit"
  /\ Allowance >= BondAmount
  /\ Sends("deposit")
  /\ \/ GoesTo("fund_deposited", [proc.held EXCEPT !.deposit = Len(fundTx) + 1,
                                                   !.status = "deposit_submitted"])
     \/ Ends
  /\ UNCHANGED <<deployTx, bondPending, bondArtifact, bondConfigured, funding, glArtifact>>

\* _write_artifact after a broadcast.
RecordFunding ==
  /\ proc.at \in {"fund_approved", "fund_deposited"}
  /\ funding' = proc.held
  /\ GoesTo(ResumeAt[proc.held.status], proc.held)
  /\ UNCHANGED <<deployTx, bondPending, bondArtifact, bondConfigured, fundTx, glArtifact>>

ConfirmApprove ==
  /\ proc.at = "fund_approving"
  /\ fundTx[proc.held.approve].status = "mined"
  /\ funding' = [proc.held EXCEPT !.status = "approve_confirmed"]
  /\ GoesTo("fund_deposit", funding')
  /\ UNCHANGED <<deployTx, bondPending, bondArtifact, bondConfigured, fundTx, glArtifact>>

\* The balances show the bond and the gas of these two transactions, no other.
ConfirmDeposit ==
  LET artifact == proc.held IN
  /\ proc.at = "fund_depositing"
  /\ fundTx[artifact.deposit].status = "mined"
  /\ Settled = (1..artifact.mined) \cup {artifact.approve, artifact.deposit}
  /\ providerBondBalance[Funder] = artifact.bond + BondAmount
  /\ funding' = [artifact EXCEPT !.status = "confirmed"]
  /\ Ends
  /\ UNCHANGED <<deployTx, bondPending, bondArtifact, bondConfigured, fundTx, glArtifact>>

\* The provider's next transaction is mined.
MineFunding ==
  \E i \in DOMAIN fundTx :
    LET ends(status) == fundTx' = [fundTx EXCEPT ![i].status = status] IN
    /\ fundTx[i].status = "mempool"
    /\ \A j \in 1..(i - 1) : j \in Settled
    /\ \/ fundTx[i].kind = "approve" /\ ends("mined") /\ UNCHANGED bondVars
       \/ /\ fundTx[i].kind = "deposit" /\ Allowance >= BondAmount
          /\ Deposit(Funder, BondAmount)
          /\ ends("mined")
       \/ /\ fundTx[i].kind = "deposit" /\ Allowance < BondAmount
          /\ ends("reverted")
          /\ UNCHANGED bondVars
    /\ UNCHANGED <<deployTx, bondPending, bondArtifact, bondConfigured, funding, glArtifact>>

-----------------------------------------------------------------------------
(* deploy_genlayer_assurance.py *)

\* An existing artifact ends the script.  The identifier comes back, or an
\* error with or without a deployment.
SubmitDeployment ==
  /\ proc = Idle
  /\ glArtifact = NoHash
  /\ \E id \in GlId \cup {NoHash} :
       /\ SubmitsGl("deploy", NoHash, id)
       /\ IF id = NoHash THEN Ends ELSE GoesTo("gl_wait", id)
  /\ UNCHANGED provisioningVars

\* --resume-transaction-id
ResumeGlDeployment(g) ==
  /\ proc = Idle
  /\ glArtifact = NoHash
  /\ glTx[g].call = "deploy"
  /\ GoesTo("gl_wait", g)
  /\ UNCHANGED <<provisioningVars, glTx>>

\* finalize_and_persist_deployment
FinishGlDeployment ==
  /\ proc.at = "gl_wait"
  /\ DeploymentFinalized(proc.held)
  /\ glArtifact' = proc.held
  /\ Ends
  /\ UNCHANGED <<deployTx, bondPending, bondArtifact, bondConfigured, fundTx, funding, glTx>>
=============================================================================
