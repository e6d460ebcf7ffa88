---------------------------- MODULE AssuranceKeys ----------------------------
(***************************************************************************)
(* The identifiers that evidence, journal, GenLayer contract and bond agree*)
(* on.  derive_payment_id_hash and derive_dispute_id of arc_payment.py are *)
(* hashes of the payment's identifier and of payment and evidence: two     *)
(* disputes differ when what they are about differs.                       *)
(***************************************************************************)
CONSTANTS
  Dispute,    \* nonzero dispute identifiers
  Payment,    \* nonzero hashes of payment identifiers
  NoHash,     \* no transaction
  NoRow       \* no database row, no file

ASSUME KeysAssumption == NoRow \notin Payment
=============================================================================
