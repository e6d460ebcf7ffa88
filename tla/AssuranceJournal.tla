-------------------------- MODULE AssuranceJournal --------------------------
(***************************************************************************)
(* The SQLite journal of arc_agent_pay/assurance/store.py: the status of   *)
(* each dispute and of its settlement.  Every operation is one BEGIN       *)
(* IMMEDIATE transaction, so it is one step, whichever process sends it.   *)
(*                                                                         *)
(* A record that is passed to an update was derived from a copy that its   *)
(* writer read earlier.  Its updated_at exceeds the copy's, so the store   *)
(* can find it stale only when the row has changed since; whether it then  *)
(* does depends on which of the two writers read the clock first.          *)
(***************************************************************************)
EXTENDS AssuranceKeys

CONSTANTS
  Binding,        \* binding hashes of settlements
  DisputeOf,      \* the dispute of a binding
  PaymentOf,      \* the payment of a binding
  Hash,           \* Arc transaction hashes
  ClocksTie       \* whether two writers may get the same updated_at

ASSUME JournalAssumption ==
  /\ DisputeOf \in [Binding -> Dispute]
  /\ PaymentOf \in [Binding -> Payment]
  /\ NoHash \notin Hash
  /\ ClocksTie \in BOOLEAN

VARIABLES
  disputes,     \* status of the persisted dispute
  settlements   \* row of assurance_settlements for each dispute, or NoRow

DisputeStatus == {"open", "adjudicating", "upheld", "rejected", "error"}

\* Statuses that update_dispute lets a dispute move to.
DisputeMoves == [
  open         |-> {"adjudicating", "upheld", "rejected", "error"},
  adjudicating |-> {"upheld", "rejected", "error"},
  error        |-> {"adjudicating"},
  upheld       |-> {},
  rejected     |-> {}]

SettlementStatus ==
  {"eligible", "submission_attempted", "pending", "confirmed",
   "failed_before_submission", "ambiguous_submission", "already_settled",
   "failed"}

\* Plausible bug: a settlement whose submission is not known to have gone out is
\* attempted again.
SettlementMovesRetrying == [
  eligible                 |-> {"submission_attempted", "failed_before_submission",
                                "already_settled"},
  submission_attempted     |-> {"pending", "failed_before_submission",
                                "ambiguous_submission", "already_settled",
                                "submission_attempted"},
  pending                  |-> {"confirmed", "failed"},
  ambiguous_submission     |-> {"pending", "already_settled", "submission_attempted"},
  confirmed                |-> {},
  failed_before_submission |-> {},
  already_settled          |-> {},
  failed                   |-> {}]

\* Statuses that update_settlement lets a settlement move to.
SettlementMoves == [
  eligible                 |-> {"submission_attempted", "failed_before_submission",
                                "already_settled"},
  submission_attempted     |-> {"pending", "failed_before_submission",
                                "ambiguous_submission", "already_settled"},
  pending                  |-> {"confirmed", "failed"},
  ambiguous_submission     |-> {"pending", "already_settled"},
  confirmed                |-> {},
  failed_before_submission |-> {},
  already_settled          |-> {},
  failed                   |-> {}]

\* SettlementRecord.  attempt_count is 1 from submission_attempted on, and a
\* result is there exactly when it is confirmed.
SettlementRow == [binding : Binding, status : SettlementStatus,
                  hash : Hash \cup {NoHash}]

ASSUME RowAssumption == NoRow \notin SettlementRow /\ NoRow \notin DisputeStatus

\* SettlementRecord.validate_record on what a row may hold.
ValidRow(row) ==
  row.status \in {"pending", "confirmed"} => row.hash # NoHash

JournalTypeOK ==
  /\ disputes \in [Dispute -> DisputeStatus \cup {NoRow}]
  /\ settlements \in [Dispute -> SettlementRow \cup {NoRow}]
  /\ \A d \in Dispute : settlements[d] # NoRow => ValidRow(settlements[d])

-----------------------------------------------------------------------------

\* create_dispute for persisted evidence: the first one inserts the row.
InsertDispute(d) ==
  /\ disputes[d] = NoRow
  /\ disputes' = [disputes EXCEPT ![d] = "open"]

\* update_dispute
UpdateDispute(d, status) ==
  /\ disputes[d] # NoRow
  /\ status \in DisputeMoves[disputes[d]]
  /\ disputes' = [disputes EXCEPT ![d] = status]

\* Plausible bug: only the binding hash is looked for, so a dispute that is
\* bound in another way replaces its settlement.
ConflictingByHash(b) ==
  {settlements[d] : d \in {e \in Dispute :
     settlements[e] # NoRow /\ settlements[e].binding = b}}

\* The rows that create_settlement finds for a binding.
Conflicting(b) ==
  {settlements[d] : d \in {e \in Dispute :
     /\ settlements[e] # NoRow
     /\ \/ e = DisputeOf[b]
        \/ PaymentOf[settlements[e].binding] = PaymentOf[b]
        \/ settlements[e].binding = b}}

Eligible(b) == [binding |-> b, status |-> "eligible", hash |-> NoHash]

\* create_settlement inserts a row: the dispute it was bound to is the one
\* persisted, and there is no other settlement.
InsertSettlement(b) ==
  /\ disputes[DisputeOf[b]] = "upheld"
  /\ Conflicting(b) = {}
  /\ settlements' = [settlements EXCEPT ![DisputeOf[b]] = Eligible(b)]

\* update_settlement commits a record.
CommitSettlement(row) ==
  LET d == DisputeOf[row.binding] IN
  /\ settlements[d] # NoRow
  /\ settlements[d].binding = row.binding
  /\ row.status \in SettlementMoves[settlements[d].status]
  /\ settlements' = [settlements EXCEPT ![d] = row]

\* update_settlement finds the very record it was given: it reports success
\* and writes nothing.
EchoSettlement(row) ==
  /\ ClocksTie
  /\ settlements[DisputeOf[row.binding]] = row
  /\ UNCHANGED settlements
=============================================================================
