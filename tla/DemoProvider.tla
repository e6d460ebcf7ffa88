---------------------------- MODULE DemoProvider ----------------------------
(***************************************************************************)
(* The demo's seller, AssuranceDemoProvider of demo_provider.py, run by    *)
(* run_assurance_demo_service.py with a thread for each request.  A paid   *)
(* request carries an EIP-3009 authorization; the seller settles it on Arc *)
(* itself and keeps what became of it in the file of DemoSubmissionStore.  *)
(*                                                                         *)
(* Whoever has seen an authorization can present it again, at any time.    *)
(* The process may die; its threads and what they hold are gone then.      *)
(***************************************************************************)
EXTENDS Naturals

CONSTANTS
  Auth,         \* authorizations (buyer and nonce)
  SettleHash,   \* hashes of settlement transactions, in the order of use
  Thread,       \* threads of the server
  Unset         \* no authorization, no transaction

ASSUME ProviderAssumption ==
  /\ SettleHash \subseteq Nat
  /\ Unset \notin Auth \cup SettleHash

VARIABLES
  settleTx,   \* the settlement transactions broadcast
  usedAuth,   \* authorizations that the token has used up
  expired,    \* authorizations within 6 seconds of valid_before, or past it
  records,    \* the record of an authorization in DemoSubmissionStore
  thread      \* where a request is in handle, and what it holds

providerVars == <<settleTx, usedAuth, expired, records, thread>>

NoSettleTx == [auth |-> Unset, status |-> "unused"]

\* "queued"     validated, before the lock is taken
\* "submit"     verified
\* "unknown"    before the ambiguous record is put
\* "submitted"  before the pending record is put
\* "wait"       in settler.wait
\* "answer"     answered with code, and with hash in the PAYMENT-RESPONSE header
Stages == {"free", "queued", "submit", "unknown", "submitted", "wait", "answer"}

Locked == {"submit", "unknown", "submitted", "wait"}

\* Code 500 stands for an exception that handle lets pass.
Codes == {0, 200, 402, 500, 503}

Free == [at |-> "free", auth |-> Unset, hash |-> Unset, code |-> 0]

NoRecord == [status |-> "none", hash |-> Unset]

ProviderTypeOK ==
  /\ settleTx \in [SettleHash ->
       [auth : Auth \cup {Unset}, status : {"unused", "mempool", "mined", "reverted"}]]
  /\ usedAuth \subseteq Auth
  /\ expired \subseteq Auth
  /\ records \in [Auth -> [status : {"none", "ambiguous", "pending", "failed", "confirmed"},
                           hash : SettleHash \cup {Unset}]]
  /\ thread \in [Thread -> [at : Stages, auth : Auth \cup {Unset},
                            hash : SettleHash \cup {Unset}, code : Codes]]

ProviderInit ==
  /\ settleTx = [h \in SettleHash |-> NoSettleTx]
  /\ usedAuth = {} /\ expired = {}
  /\ records = [a \in Auth |-> NoRecord]
  /\ thread = [t \in Thread |-> Free]

\* The thread goes on.
Proceeds(t, at, hash) ==
  thread' = [thread EXCEPT ![t].at = at, ![t].hash = hash]

\* handle returns.
Answers(t, code, hash) ==
  thread' = [thread EXCEPT ![t] = [@ EXCEPT !.at = "answer", !.code = code, !.hash = hash]]

Records(a, status, hash) ==
  records' = [records EXCEPT ![a] = [status |-> status, hash |-> hash]]

\* A paid request arrives.  validate_payment_payload looks at the clock first:
\* an expired authorization gets 402 whatever its record says.
Request(t, a) ==
  /\ thread[t] = Free
  /\ IF a \in expired
       THEN thread' = [thread EXCEPT ![t] = [at |-> "answer", auth |-> a, hash |-> Unset, code |-> 402]]
       ELSE thread' = [thread EXCEPT ![t] = [at |-> "queued", auth |-> a, hash |-> Unset, code |-> 0]]
  /\ UNCHANGED <<settleTx, usedAuth, expired, records>>

\* Plausible bug: an authorization whose broadcast had no answer is tried again.
BranchAgain(t, a, record) ==
  \/ /\ record.status = "confirmed"
     /\ Answers(t, 200, record.hash)
  \/ /\ record.status = "failed"
     /\ Answers(t, 402, Unset)
  \/ /\ record.status = "pending"
     /\ Proceeds(t, "wait", record.hash)
  \/ /\ record.status \in {"none", "ambiguous"}
     /\ a \notin usedAuth
     /\ Proceeds(t, "submit", Unset)

\* _settle under the lock, for the record it finds.  verify simulates the
\* transfer, and so rejects a used or an expired authorization; its reads may
\* fail.
Branch(t, a, record) ==
  \/ /\ record.status = "ambiguous"
     /\ Answers(t, 503, Unset)
  \/ /\ record.status = "failed"
     /\ Answers(t, 402, Unset)
  \/ /\ record.status = "confirmed"
     /\ Answers(t, 200, record.hash)
  \/ /\ record.status = "pending"
     /\ Proceeds(t, "wait", record.hash)
  \/ /\ record.status = "none"
     /\ \/ a \notin usedAuth /\ Proceeds(t, "submit", Unset)
        \/ a \in usedAuth \cup expired /\ Answers(t, 402, Unset)
        \/ Answers(t, 500, Unset)

TakeLock(t) ==
  /\ thread[t].at = "queued"
  /\ \A u \in Thread : thread[u].at \notin Locked
  /\ Branch(t, thread[t].auth, records[thread[t].auth])
  /\ UNCHANGED <<settleTx, usedAuth, expired, records>>

\* settler.submit: the gas estimate needs a transfer that is still possible.
\* The transaction goes out and its hash comes back, or the answer is lost; or
\* nothing goes out.
SubmitSettlement(t) ==
  /\ thread[t].at = "submit"
  /\ \/ \E h \in SettleHash :
          /\ thread[t].auth \notin usedAuth
          /\ settleTx[h] = NoSettleTx
          /\ \A g \in SettleHash : g < h => settleTx[g] # NoSettleTx
          /\ settleTx' = [settleTx EXCEPT ![h] = [auth |-> thread[t].auth, status |-> "mempool"]]
          /\ Proceeds(t, "submitted", h) \/ Proceeds(t, "unknown", Unset)
     \/ /\ Proceeds(t, "unknown", Unset) \/ Answers(t, 500, Unset)
        /\ UNCHANGED settleTx
  /\ UNCHANGED <<usedAuth, expired, records>>

PutAmbiguous(t) ==
  /\ thread[t].at = "unknown"
  /\ Records(thread[t].auth, "ambiguous", Unset)
  /\ Answers(t, 503, Unset)
  /\ UNCHANGED <<settleTx, usedAuth, expired>>

PutPending(t) ==
  /\ thread[t].at = "submitted"
  /\ Records(thread[t].auth, "pending", thread[t].hash)
  /\ Proceeds(t, "wait", thread[t].hash)
  /\ UNCHANGED <<settleTx, usedAuth, expired>>

\* Plausible bug: any receipt will do.
TakeReceiptUnchecked(t) ==
  LET h == thread[t].hash IN
  /\ thread[t].at = "wait"
  /\ settleTx[h].status \in {"mined", "reverted"}
  /\ Records(thread[t].auth, "confirmed", h)
  /\ Answers(t, 200, h)
  /\ UNCHANGED <<settleTx, usedAuth, expired>>

\* settler.wait, and what _settle records of the receipt.
TakeReceipt(t) ==
  LET h == thread[t].hash IN
  /\ thread[t].at = "wait"
  /\ \/ /\ settleTx[h].status = "mined"
        /\ Records(thread[t].auth, "confirmed", h)
        /\ Answers(t, 200, h)
     \/ /\ settleTx[h].status = "reverted"
        /\ Records(thread[t].auth, "failed", h)
        /\ Answers(t, 402, Unset)
     \/ /\ Answers(t, 503, Unset)
        /\ UNCHANGED records
  /\ UNCHANGED <<settleTx, usedAuth, expired>>

\* The answer leaves; whether anyone is there to read it is not the seller's.
Hangup(t) ==
  /\ thread[t].at = "answer"
  /\ thread' = [thread EXCEPT ![t] = Free]
  /\ UNCHANGED <<settleTx, usedAuth, expired, records>>

CrashProvider ==
  /\ \E t \in Thread : thread[t] # Free
  /\ thread' = [t \in Thread |-> Free]
  /\ UNCHANGED <<settleTx, usedAuth, expired, records>>

Expire(a) ==
  /\ a \notin expired
  /\ expired' = expired \cup {a}
  /\ UNCHANGED <<settleTx, usedAuth, records, thread>>

\* A block takes a settlement.  The token moves the money once for an
\* authorization, and in its last seconds perhaps not any more.
MineSettlement(h) ==
  LET a == settleTx[h].auth IN
  /\ settleTx[h].status = "mempool"
  /\ \/ /\ a \notin usedAuth
        /\ usedAuth' = usedAuth \cup {a}
        /\ settleTx' = [settleTx EXCEPT ![h].status = "mined"]
     \/ /\ a \in usedAuth \cup expired
        /\ settleTx' = [settleTx EXCEPT ![h].status = "reverted"]
        /\ UNCHANGED usedAuth
  /\ UNCHANGED <<expired, records, thread>>

ProviderStep ==
  \/ \E t \in Thread : \/ TakeLock(t) \/ SubmitSettlement(t)
                       \/ PutAmbiguous(t) \/ PutPending(t)
                       \/ TakeReceipt(t) \/ Hangup(t)
  \/ CrashProvider
  \/ \E a \in Auth : Expire(a)
  \/ \E h \in SettleHash : MineSettlement(h)

ProviderNext ==
  \/ \E t \in Thread, a \in Auth : Request(t, a)
  \/ ProviderStep

ProviderSpec == ProviderInit /\ [][ProviderNext]_providerVars

-----------------------------------------------------------------------------

Broadcast(a) == {h \in SettleHash : settleTx[h].auth = a}

\* What is served has been paid, by the transaction that the answer names, no
\* matter how many requests present the authorization and when the seller dies.
ServedMeansPaid ==
  \A t \in Thread :
    thread[t].code = 200 =>
      settleTx[thread[t].hash] = [auth |-> thread[t].auth, status |-> "mined"]

\* Once the seller has recorded anything of an authorization it never sends it
\* again ("durable at-most-once settlement tracking"), be its outcome unknown.
RecordedNeverResent ==
  [][\A a \in Auth : records[a].status # "none" => Broadcast(a)' = Broadcast(a)]_providerVars
=============================================================================
