--------------------------- MODULE GenLayerClient ---------------------------
(***************************************************************************)
(* GenLayer as the assurance scripts see it: transactions that are sent    *)
(* once through the retrying transport of genlayer_transport.py, their     *)
(* lifecycle up to finality (genlayer.py, genlayer_live.py), and the       *)
(* contract genlayer/contracts/AgentPayAssurance.py that they deploy and   *)
(* call.                                                                   *)
(*                                                                         *)
(* All reads of contract state ask for LATEST_FINAL, so what a transaction *)
(* does takes effect here when it is finalized; the rounds and appeals     *)
(* before that are one state, "active".                                    *)
(***************************************************************************)
EXTENDS AssuranceKeys, Naturals

CONSTANT GlId   \* GenLayer transaction identifiers, in the order of use

ASSUME GlAssumption == GlId \subseteq Nat /\ NoHash \notin GlId

VARIABLES
  glTx,      \* the transactions broadcast
  verdicts,  \* AgentPayAssurance.verdicts: the decision stored for a dispute
  writer     \* history: the transaction that stored it

glVars == <<glTx, verdicts, writer>>

NoCall == [call |-> "none", about |-> NoHash, state |-> "unused",
           outcome |-> "none", execution |-> "none", leader |-> FALSE]

\* execution is what the node reports, if anything, and leader tells whether
\* the leader's receipt says SUCCESS.
Transaction == [
  call : {"deploy", "adjudicate"}, about : Dispute \cup {NoHash},
  state : {"active", "finalized", "canceled"},
  outcome : {"none", "accepted", "undetermined"},
  execution : {"none", "FINISHED_WITH_RETURN", "FINISHED_WITH_ERROR"},
  leader : BOOLEAN]

GlTypeOK ==
  /\ glTx \in [GlId -> Transaction \cup {NoCall}]
  /\ verdicts \in [Dispute -> {"none", "violated", "kept"}]
  /\ writer \in [Dispute -> GlId \cup {NoHash}]

GlInit ==
  /\ glTx = [g \in GlId |-> NoCall]
  /\ verdicts = [d \in Dispute |-> "none"]
  /\ writer = [d \in Dispute |-> NoHash]

-----------------------------------------------------------------------------
(* Sending. *)

\* Where the SDK may fail while it sends a transaction: in its reads before
\* eth_sendRawTransaction, in that call, and in its reads after it.
Points == {"before", "send", "after"}

\* Whether a failed sending may have put the transaction on the network.  An
\* error of eth_sendRawTransaction, whichever way is_transient_transport_error
\* takes it, tells nothing of it: a gateway may fail after it has passed the
\* transaction on, and a node may refuse one that it has already.
MayBeSent(point) ==
  CASE point = "before" -> {FALSE}
    [] point = "send"   -> BOOLEAN
    [] point = "after"  -> {TRUE}

\* A broadcast: the next identifier becomes an active transaction.
BroadcastsGl(g, call, about) ==
  /\ glTx[g] = NoCall
  /\ \A f \in GlId : f < g => glTx[f] # NoCall
  /\ glTx' = [glTx EXCEPT ![g] =
       [NoCall EXCEPT !.call = call, !.about = about, !.state = "active"]]

\* submit_genlayer_deployment and submit_adjudication, which never send again:
\* they return the identifier, or raise with or without a broadcast.
SubmitsGl(call, about, id) ==
  \/ \E g \in GlId : BroadcastsGl(g, call, about) /\ id = g
  \/ /\ id = NoHash
     /\ \E point \in Points : \E sent \in MayBeSent(point) :
          IF sent THEN \E g \in GlId : BroadcastsGl(g, call, about)
                  ELSE UNCHANGED glTx

-----------------------------------------------------------------------------
(* Consensus and the contract. *)

\* Plausible bug: a later judgment replaces the verdict.
AdjudicatesAgain(d) == TRUE

\* The assertion of adjudicate that can fail for a payload of the operator's:
\* a dispute has one verdict.
Adjudicates(d) == verdicts[d] = "none"

\* A transaction ends.  The constructor or adjudicate returns, and leaves its
\* verdict, whichever way the judges decide; or it raises, or the judges do not
\* agree, or the transaction is canceled.  A node may leave out the execution
\* result of a call that returned.
Finalize(g, decision) ==
  LET d == glTx[g].about
      ends(outcome, execution, leader) ==
        glTx' = [glTx EXCEPT ![g].state = "finalized", ![g].outcome = outcome,
                             ![g].execution = execution, ![g].leader = leader]
      returns ==
        \/ ends("accepted", "FINISHED_WITH_RETURN", TRUE)
        \/ ends("accepted", "none", TRUE)
  IN
  /\ glTx[g].state = "active"
  /\ \/ /\ glTx[g].call = "deploy"
        /\ returns
        /\ UNCHANGED <<verdicts, writer>>
     \/ /\ glTx[g].call = "adjudicate"
        /\ Adjudicates(d)
        /\ returns
        /\ verdicts' = [verdicts EXCEPT ![d] = decision]
        /\ writer' = [writer EXCEPT ![d] = g]
     \/ /\ ends("accepted", "FINISHED_WITH_ERROR", FALSE)
        /\ UNCHANGED <<verdicts, writer>>
     \/ /\ ends("undetermined", "none", FALSE)
        /\ UNCHANGED <<verdicts, writer>>

Cancel(g) ==
  /\ glTx[g].state = "active"
  /\ glTx' = [glTx EXCEPT ![g].state = "canceled"]
  /\ UNCHANGED <<verdicts, writer>>

-----------------------------------------------------------------------------
(* Waiting. *)

\* _is_successful_finalization of genlayer.py.
IsSuccessfulFinalization(t) ==
  /\ t.state = "finalized"
  /\ t.outcome \in {"none", "accepted"}
  /\ t.execution = "FINISHED_WITH_RETURN" \/ t.leader

\* _execution_result of genlayer_live.py fills in a missing result from the
\* leader's receipt.
ExecutionResult(t) ==
  IF t.execution = "none" /\ t.leader THEN "FINISHED_WITH_RETURN" ELSE t.execution

\* wait_for_finalized_deployment returns.
DeploymentFinalized(g) ==
  /\ glTx[g].state = "finalized"
  /\ glTx[g].outcome \in {"none", "accepted"}
  /\ ExecutionResult(glTx[g]) = "FINISHED_WITH_RETURN"

\* wait_for_finalized_verdict returns: the transaction was finalized, and
\* get_verdict has a verdict for the dispute.
VerdictFinalized(g) ==
  /\ IsSuccessfulFinalization(glTx[g])
  /\ verdicts[glTx[g].about] # "none"
=============================================================================
