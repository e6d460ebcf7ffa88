--------------------------- MODULE PaymentClient ----------------------------
(***************************************************************************)
(* The paid-request handler of arc_agent_pay/interceptor.py,               *)
(* _BudgetEnforcingTransport.handle_async_request, run by any number of    *)
(* coroutines of any number of PaymentClients (sessions, possibly in       *)
(* different processes) that share one payment journal.                    *)
(*                                                                         *)
(* pc[r] is where the handler of request r is suspended.  A step is the    *)
(* code between two points where another coroutine or process can run: an  *)
(* await, or a call of the store, which takes a lock and commits on its    *)
(* own.  The seller, its facilitator and the chain are the environment:    *)
(* auth[r] is what became of the authorization that request r sent.        *)
(***************************************************************************)
EXTENDS PaymentJournal

CONSTANTS
  Request,        \* coroutines, one per HTTP request of a caller
  Session,        \* PaymentClients, each with its BudgetGuard and caches
  ClientOf,       \* the session of each request
  ResourceOf,     \* the resource each request asks for
  Quotes,         \* amounts a seller may quote
  SupportsId,     \* resources whose seller declares payment-identifier
  Budget,         \* budget_usdc of a session
  IdemTtl,        \* idempotency_ttl in ticks, 0 disables the cache
  SerialIds,      \* callers never use one payment ID in two live requests
  StoreMayFail,   \* store calls may raise PaymentStoreError
  FailClosed,     \* policy.fail_closed
  MaxTime,        \* bound on the clock
  NoPayment       \* payment[r] before the quote

ASSUME ClientAssumption ==
  /\ IsFiniteSet(Request)
  /\ ClientOf \in [Request -> Session]
  /\ ResourceOf \in [Request -> Resource]
  /\ Quotes \subseteq 0..MaxAmount
  /\ SupportsId \subseteq Resource
  /\ {Budget, IdemTtl, MaxTime} \subseteq Nat
  /\ {SerialIds, StoreMayFail, FailClosed} \subseteq BOOLEAN
  /\ NoPayment \notin Payment

VARIABLES
  now,        \* the clock, time.time() and time.monotonic()
  journal,    \* the shared PaymentStore
  fallback,   \* _fallback_payment_store of each session
  spent,      \* budget.spent_usdc of each session
  idem,       \* _idem_cache: expiry of each cached resource, 0 when absent
  pc,         \* where each handler is
  payment,    \* the handler's local Payment, a copy of the stored one
  isNew,      \* reservation.is_new
  charged,    \* reserved_budget, until it is refunded
  auth,       \* what the seller did with the authorization of each request
  crashed     \* sessions whose process has died

vars == <<now, journal, fallback, spent, idem, pc, payment, isNew, charged, auth,
          crashed>>
locals == <<pc, payment, isNew, charged>>

\* The handler waits in an await there, and can be cancelled.
Awaiting == {"probing", "signing", "paying", "caching"}
Suspended == {"probing", "quoted", "reserved", "signing", "paying", "caching"}
Finished == {"replayed", "unpaid", "refused", "blocked", "failed", "paid",
             "cached", "unknown", "error", "dead"}

AuthState == {"none", "sent", "settled", "rejected"}

TypeOK ==
  /\ now \in 0..MaxTime
  /\ IsJournal(journal)
  /\ DOMAIN fallback = Session /\ \A s \in Session : IsJournal(fallback[s])
  /\ spent \in [Session -> Nat]
  /\ idem \in [Session -> [Resource -> Nat]]
  /\ pc \in [Request -> {"idle"} \cup Suspended \cup Finished]
  /\ payment \in [Request -> Payment \cup {NoPayment}]
  /\ isNew \in [Request -> BOOLEAN]
  /\ charged \in [Request -> BOOLEAN]
  /\ auth \in [Request -> AuthState]
  /\ crashed \subseteq Session

Init ==
  /\ now = 0
  /\ journal = EmptyJournal
  /\ fallback = [s \in Session |-> EmptyJournal]
  /\ spent = [s \in Session |-> 0]
  /\ idem = [s \in Session |-> [x \in Resource |-> 0]]
  /\ pc = [r \in Request |-> "idle"]
  /\ payment = [r \in Request |-> NoPayment]
  /\ isNew = [r \in Request |-> FALSE]
  /\ charged = [r \in Request |-> FALSE]
  /\ auth = [r \in Request |-> "none"]
  /\ crashed = {}

\* The handlers of a session share an event loop: between two awaits one of
\* them runs alone, though other processes go on.
HasLoop(r) ==
  \A q \in Request \ {r} :
    ClientOf[q] = ClientOf[r] => pc[q] \notin {"quoted", "reserved"}

At(r, label) == pc[r] = label /\ HasLoop(r)
Goto(r, label) == pc' = [pc EXCEPT ![r] = label]

-----------------------------------------------------------------------------
(* Idempotency cache and unpaid probe. *)

Entry(r) == idem[ClientOf[r]][ResourceOf[r]]

\* Plausible bug: an entry is dropped at its expiry, not after it.
FreshBefore(r) == IdemTtl > 0 /\ Entry(r) # 0 /\ now < Entry(r)

\* The response kept for the request has not expired.
Fresh(r) == IdemTtl > 0 /\ Entry(r) # 0 /\ now <= Entry(r)

\* _idem_get returns the cached response: nothing is sent.
Replay(r) ==
  /\ At(r, "idle")
  /\ Fresh(r)
  /\ Goto(r, "replayed")
  /\ UNCHANGED <<now, journal, fallback, spent, idem, payment, isNew, charged, auth, crashed>>

\* A miss drops an expired entry, and the unpaid request goes out.
Probe(r) ==
  /\ At(r, "idle")
  /\ ~Fresh(r)
  /\ Goto(r, "probing")
  /\ idem' = [idem EXCEPT ![ClientOf[r]][ResourceOf[r]] = 0]
  /\ UNCHANGED <<now, journal, fallback, spent, payment, isNew, charged, auth, crashed>>

\* After any number of transient retries: not a 402, an error, or bad terms.
NothingToPay(r) ==
  /\ At(r, "probing")
  /\ Goto(r, "unpaid")
  /\ UNCHANGED <<now, journal, fallback, spent, idem, payment, isNew, charged, auth, crashed>>

\* The payment ID in use by a live request.
Holds(r, id) ==
  pc[r] \in Suspended /\ payment[r] # NoPayment /\ payment[r].payment_id = id

\* A 402 with terms: the ID is the caller's or a generated one.
Quote(r) ==
  /\ At(r, "probing")
  /\ \E id \in PayId, amount \in Quotes :
       /\ SerialIds => \A q \in Request : ~Holds(q, id)
       /\ payment' = [payment EXCEPT ![r] =
            [payment_id |-> id, resource |-> ResourceOf[r], amount |-> amount,
             status |-> "pending", created_at |-> now]]
  /\ Goto(r, "quoted")
  /\ UNCHANGED <<now, journal, fallback, spent, idem, isNew, charged, auth, crashed>>

-----------------------------------------------------------------------------
(* Reservation. *)

\* What the handler does with the answer of a store whose content is j.  A
\* resumed payment skips the budget, and needs a seller that deduplicates.
Admit(r, j) ==
  LET p == payment[r] IN
    \/ /\ Refuses(j, p, now)
       /\ Goto(r, "refused")
       /\ UNCHANGED <<payment, isNew>>
    \/ /\ Opens(j, p, now)
       /\ Goto(r, "reserved")
       /\ isNew' = [isNew EXCEPT ![r] = TRUE]
       /\ UNCHANGED payment
    \/ /\ Resumes(j, p)
       /\ payment' = [payment EXCEPT ![r] = j[p.payment_id]]
       /\ Goto(r, IF p.resource \in SupportsId THEN "signing" ELSE "refused")
       /\ UNCHANGED isNew

Reserve(r) ==
  /\ At(r, "quoted")
  /\ Admit(r, journal)
  /\ journal' = AfterReserve(journal, payment[r], now)
  /\ UNCHANGED <<now, fallback, spent, idem, charged, auth, crashed>>

\* The store raises PaymentStoreError: refuse, or with fail_closed off use the
\* process's own store.  An error of sqlite3.connect() itself is not a
\* PaymentStoreError and always ends the handler.
ReserveUnavailable(r) ==
  LET s == ClientOf[r] IN
  /\ StoreMayFail
  /\ At(r, "quoted")
  /\ \/ Goto(r, "error") /\ UNCHANGED <<fallback, payment, isNew>>
     \/ /\ ~FailClosed
        /\ Admit(r, fallback[s])
        /\ fallback' = [fallback EXCEPT ![s] = AfterReserve(@, payment[r], now)]
  /\ UNCHANGED <<now, journal, spent, idem, charged, auth, crashed>>

-----------------------------------------------------------------------------
(* Saving, budget and signature. *)

\* _save_payment overwrites the stored row with the handler's copy, whatever
\* the row says by now.  A failing store ends the handler with an exception;
\* with fail_closed off, the row may go to the process's own store instead.
Save(r, status, next) ==
  LET p == [payment[r] EXCEPT !.status = status]
      s == ClientOf[r] IN
  /\ payment' = [payment EXCEPT ![r] = p]
  /\ \/ /\ p.payment_id \in DOMAIN journal
        /\ journal' = Put(journal, p)
        /\ Goto(r, next)
        /\ UNCHANGED fallback
     \/ /\ StoreMayFail \/ p.payment_id \notin DOMAIN journal
        /\ FailClosed \/ StoreMayFail
        /\ Goto(r, "error")
        /\ UNCHANGED <<journal, fallback>>
     \/ /\ StoreMayFail \/ p.payment_id \notin DOMAIN journal
        /\ ~FailClosed
        /\ Goto(r, next)
        /\ fallback' = [fallback EXCEPT ![s] = Put(@, p)]
        /\ UNCHANGED journal

NoSave(r, next) == Goto(r, next) /\ UNCHANGED <<journal, fallback, payment>>

\* budget_guard.refund, which never goes below zero.
Refund(r) ==
  LET s == ClientOf[r] IN
  /\ spent' = [spent EXCEPT ![s] =
       IF @ >= payment[r].amount THEN @ - payment[r].amount ELSE 0]
  /\ charged' = [charged EXCEPT ![r] = FALSE]

\* Plausible bug: the guard looks at what is spent so far, not at the sum.
ChargeUnlessSpent(r) ==
  LET s == ClientOf[r] IN
  /\ At(r, "reserved")
  /\ spent[s] <= Budget
  /\ spent' = [spent EXCEPT ![s] = @ + payment[r].amount]
  /\ charged' = [charged EXCEPT ![r] = TRUE]
  /\ NoSave(r, "signing")
  /\ UNCHANGED <<now, idem, isNew, auth, crashed>>

\* check_and_record of a new payment.
ChargeBudget(r) ==
  LET s == ClientOf[r] IN
  /\ At(r, "reserved")
  /\ spent[s] + payment[r].amount <= Budget
  /\ spent' = [spent EXCEPT ![s] = @ + payment[r].amount]
  /\ charged' = [charged EXCEPT ![r] = TRUE]
  /\ NoSave(r, "signing")
  /\ UNCHANGED <<now, idem, isNew, auth, crashed>>

\* Plausible bug: a payment over budget is refused, its reservation kept.
BlockKeepsReservation(r) ==
  /\ At(r, "reserved")
  /\ spent[ClientOf[r]] + payment[r].amount > Budget
  /\ NoSave(r, "blocked")
  /\ UNCHANGED <<now, spent, idem, isNew, charged, auth, crashed>>

\* InsufficientFundsError: the reservation is closed.
BlockOnBudget(r) ==
  /\ At(r, "reserved")
  /\ spent[ClientOf[r]] + payment[r].amount > Budget
  /\ Save(r, "skipped", "blocked")
  /\ UNCHANGED <<now, spent, idem, isNew, charged, auth, crashed>>

\* Plausible bug: every signing failure gives the amount back, of resumed
\* payments as well, with no floor at zero.
SignFailsRefundsAll(r) ==
  LET s == ClientOf[r] IN
  /\ At(r, "signing")
  /\ spent' = [spent EXCEPT ![s] = @ - payment[r].amount]
  /\ charged' = [charged EXCEPT ![r] = FALSE]
  /\ Save(r, "failed", "failed")
  /\ UNCHANGED <<now, idem, isNew, auth, crashed>>

\* No authorization was built.  A resumed payment is left as it is.
SignFails(r) ==
  /\ At(r, "signing")
  /\ IF isNew[r]
       THEN Refund(r) /\ Save(r, "failed", "failed")
       ELSE NoSave(r, "failed") /\ UNCHANGED <<spent, charged>>
  /\ UNCHANGED <<now, idem, isNew, auth, crashed>>

\* Record the authorization, then send it: the single-shot paid retry.
SignAndSend(r) ==
  /\ At(r, "signing")
  /\ IF payment[r].status = "pending"
       THEN Save(r, "authorized", "paying")
       ELSE NoSave(r, "paying")
  /\ auth' = IF pc'[r] = "paying" THEN [auth EXCEPT ![r] = "sent"] ELSE auth
  /\ UNCHANGED <<now, spent, idem, isNew, charged, crashed>>

-----------------------------------------------------------------------------
(* Outcome of the paid request. *)

\* A 2xx that reports no failed settlement (ok2xx), or any status with a
\* settlement transaction.  Only a 2xx is kept for replay.
PaidSuccess(r) ==
  /\ At(r, "paying")
  /\ \E ok2xx \in BOOLEAN :
       Save(r, "success", IF ok2xx /\ IdemTtl > 0 THEN "caching" ELSE "paid")
  /\ UNCHANGED <<now, spent, idem, isNew, charged, auth, crashed>>

\* _idem_put, once the body has been read.
CacheResponse(r) ==
  /\ At(r, "caching")
  /\ idem' = [idem EXCEPT ![ClientOf[r]][ResourceOf[r]] = now + IdemTtl]
  /\ NoSave(r, "cached")
  /\ UNCHANGED <<now, spent, isNew, charged, auth, crashed>>

\* A second 402 or an explicit settlement failure: the seller will not settle
\* this authorization.  It closes a payment only for the request that opened it.
PaidRejected(r) ==
  /\ At(r, "paying")
  /\ auth[r] = "sent"
  /\ auth' = [auth EXCEPT ![r] = "rejected"]
  /\ IF isNew[r]
       THEN Refund(r) /\ Save(r, "failed", "failed")
       ELSE /\ Save(r, IF payment[r].status = "success" THEN "success" ELSE "unknown",
                    "unknown")
            /\ UNCHANGED <<spent, charged>>
  /\ UNCHANGED <<now, idem, isNew, crashed>>

\* Plausible bug: any failing response of the seller releases the payment.
AmbiguousReleases(r) ==
  /\ At(r, "paying")
  /\ IF isNew[r]
       THEN Refund(r) /\ Save(r, "failed", "failed")
       ELSE Save(r, "unknown", "unknown") /\ UNCHANGED <<spent, charged>>
  /\ UNCHANGED <<now, idem, isNew, auth, crashed>>

\* Any other failing response: settlement may have happened.
PaidAmbiguous(r) ==
  /\ At(r, "paying")
  /\ Save(r, IF payment[r].status = "success" THEN "success" ELSE "unknown", "unknown")
  /\ UNCHANGED <<now, spent, idem, isNew, charged, auth, crashed>>

\* Plausible bug: a lost answer is recorded over an earlier success.
LostForgetsSuccess(r) ==
  /\ At(r, "paying")
  /\ Save(r, "unknown", "unknown")
  /\ UNCHANGED <<now, spent, idem, isNew, charged, auth, crashed>>

\* The transport raised: PaymentTimeoutError, with the ID to resume.
PaidLost(r) ==
  /\ At(r, "paying")
  /\ IF payment[r].status = "success"
       THEN NoSave(r, "unknown")
       ELSE Save(r, "unknown", "unknown")
  /\ UNCHANGED <<now, spent, idem, isNew, charged, auth, crashed>>

-----------------------------------------------------------------------------
(* Environment. *)

\* The caller cancels the request: CancelledError is not an Exception.
Cancel(r) ==
  /\ pc[r] \in Awaiting /\ HasLoop(r)
  /\ NoSave(r, "dead")
  /\ UNCHANGED <<now, spent, idem, isNew, charged, auth, crashed>>

\* The process of a session dies, wherever its handlers are.
Crash(s) ==
  /\ s \notin crashed
  /\ crashed' = crashed \cup {s}
  /\ pc' = [r \in Request |->
       IF ClientOf[r] = s /\ pc[r] \notin Finished THEN "dead" ELSE pc[r]]
  /\ UNCHANGED <<now, journal, fallback, spent, idem, payment, isNew, charged, auth>>

\* The seller settles an authorization, at any time after it was sent; one that
\* declares payment-identifier does so at most once per ID.
Settle(r) ==
  /\ auth[r] = "sent"
  /\ payment[r].resource \in SupportsId =>
       ~\E q \in Request : /\ auth[q] = "settled"
                           /\ payment[q].payment_id = payment[r].payment_id
  /\ auth' = [auth EXCEPT ![r] = "settled"]
  /\ UNCHANGED <<now, journal, fallback, spent, idem, locals, crashed>>

Tick ==
  /\ now < MaxTime
  /\ now' = now + 1
  /\ UNCHANGED <<journal, fallback, spent, idem, locals, auth, crashed>>

\* Every request has ended.
Terminated ==
  /\ \A r \in Request : pc[r] \in Finished
  /\ UNCHANGED vars

\* What the handler of one request does on its own.
Handle(r) ==
  \/ Replay(r) \/ Probe(r) \/ NothingToPay(r) \/ Quote(r)
  \/ Reserve(r) \/ ReserveUnavailable(r)
  \/ ChargeBudget(r) \/ BlockOnBudget(r)
  \/ SignFails(r) \/ SignAndSend(r)
  \/ PaidSuccess(r) \/ CacheResponse(r)
  \/ PaidRejected(r) \/ PaidAmbiguous(r) \/ PaidLost(r)

Next ==
  \/ \E r \in Request : Handle(r) \/ Cancel(r) \/ Settle(r)
  \/ \E s \in Session : Crash(s)
  \/ Tick
  \/ Terminated

Spec == Init /\ [][Next]_vars

\* A started handler is never suspended for ever: httpx bounds every network
\* wait by timeout=30 and the store by its lock timeout.
FairSpec == Spec /\ \A r \in Request : WF_vars(pc[r] # "idle" /\ Handle(r))
-----------------------------------------------------------------------------
(* Properties. *)

SameId(q, r) ==
  /\ payment[q] # NoPayment /\ payment[r] # NoPayment
  /\ payment[q].payment_id = payment[r].payment_id

\* Only a conclusive failure closes a payment: while an authorization of it may
\* still settle, or has settled, its reservation stays committed.
ClosedMeansUnpayable ==
  \A r \in Request : auth[r] \in {"sent", "settled"} =>
    /\ payment[r].payment_id \in DOMAIN journal
    /\ journal[payment[r].payment_id].status \in CommittedStatuses

\* The rolling limits of the policy hold in the window that ends now, whatever
\* the sessions that share the journal do, crash or retry.
LimitsHold == RollingLimits(journal, now)

\* A payment is settled at most once, by the seller's deduplication or because
\* a second authorization for the same ID is never sent.
SettledOncePerId ==
  \A q, r \in Request :
    auth[q] = "settled" /\ auth[r] = "settled" /\ SameId(q, r) => q = r

\* A payment ID is signed for once, unless the seller declares that it
\* deduplicates it: what README.md says of resuming.
UnsupportedIdSignedOnce ==
  \A q, r \in Request :
    auth[q] # "none" /\ auth[r] # "none" /\ SameId(q, r) =>
      q = r \/ payment[r].resource \in SupportsId

\* The payments session s opened of which an authorization has settled.
SettledOpenedBy(s) ==
  {id \in DOMAIN journal : \E r, q \in Request :
     /\ isNew[r] /\ ClientOf[r] = s /\ payment[r].payment_id = id
     /\ auth[q] = "settled" /\ SameId(q, r)}

\* The budget of a session covers what settled of the payments it opened: a
\* refund is never given for money that moves, now or later.
BudgetCoversSettled ==
  \A s \in Session \ crashed :
    /\ Cardinality(Units(SettledOpenedBy(s), Amounts(journal))) <= spent[s]
    /\ spent[s] <= Budget

\* The requests charged to session s, and what each of them is charged.
ChargedTo(s) == {r \in Request : charged[r] /\ ClientOf[r] = s}
ChargedAmounts == [r \in {q \in Request : charged[q]} |-> payment[r].amount]

\* The guard's total is the sum of what is charged to the session's requests,
\* through every refund and every failing save, and stays within the budget.
BudgetIsExact ==
  \A s \in Session :
    /\ spent[s] = Cardinality(Units(ChargedTo(s), ChargedAmounts))
    /\ spent[s] <= Budget

\* The requests of session s that opened their payment and whose authorization
\* can still move its money, or has moved it.
AtStake(s) == {r \in Request : ClientOf[r] = s /\ isNew[r] /\ auth[r] \in {"sent", "settled"}}
StakeAmounts == [r \in {q \in Request : payment[q] # NoPayment} |-> payment[r].amount]

\* What a session has authorized for payments of its own, and has no word of the
\* seller's that it will not be taken, stays within its budget, though stores
\* fail between a refund and the save it goes with, requests are cancelled and
\* processes die.
OpenedWithinBudget ==
  \A s \in Session : Cardinality(Units(AtStake(s), StakeAmounts)) <= Budget

\* Write-ahead: every authorization that was ever sent has its row in the
\* journal, for the same resource and amount, and the row no longer says that
\* nothing was signed, whoever has overwritten it since.  A process that starts
\* again finds what may have been paid.
RecordedBeforeSent ==
  \A r \in Request : auth[r] # "none" =>
    /\ payment[r].payment_id \in DOMAIN journal
    /\ SameLogicalPayment(journal[payment[r].payment_id], payment[r])
    /\ journal[payment[r].payment_id].status # "pending"

\* The journal's final word on a payment is never rewritten, though every save
\* overwrites the row with a copy taken at the reservation.
FinalStatusStays ==
  [][\A id \in DOMAIN journal :
       journal[id].status \in ClosedStatuses \cup {"success"} =>
         journal'[id].status = journal[id].status]_journal

\* The stores that the handler of request r writes to.
StoresOf(r) == {journal, fallback[ClientOf[r]]}

\* A reservation that was opened does not stay pending or authorized in every
\* store, holding back the limits, unless its handler was cut short.
ReservationsResolve ==
  \A r \in Request :
    pc[r] = "reserved" ~>
      \/ \E j \in StoresOf(r) : \E id \in DOMAIN j :
           /\ payment[r] # NoPayment /\ payment[r].payment_id = id
           /\ j[id].status \notin {"pending", "authorized"}
      \/ pc[r] \in {"dead", "error"}

\* While a paid response is kept, a repeat of the request in the same session
\* does not reach the network.  (The window is the whole run.)
RepeatReplays ==
  [][\A q, r \in Request :
       /\ IdemTtl >= MaxTime
       /\ ClientOf[q] = ClientOf[r] /\ ResourceOf[q] = ResourceOf[r]
       /\ pc[q] = "cached"
       => ~(pc[r] = "idle" /\ pc'[r] = "probing")]_vars

\* The journal implements the abstract ledger: a payment is paid when one of
\* its authorizations has settled, void when the journal has closed it.
LedgerState(id) ==
  IF id \notin DOMAIN journal THEN "unused"
  ELSE IF \E r \in Request : auth[r] = "settled" /\ payment[r].payment_id = id THEN "paid"
  ELSE IF journal[id].status \in ClosedStatuses THEN "void"
  ELSE "open"

Ledger == INSTANCE PaymentLedger WITH
  state  <- [id \in PayId |-> LedgerState(id)],
  amount <- [id \in PayId |-> IF id \in DOMAIN journal THEN journal[id].amount ELSE 0],
  opened <- [id \in PayId |-> IF id \in DOMAIN journal THEN journal[id].created_at ELSE 0]

ImplementsLedger == Ledger!Spec

\* What the clients promise to the agent and the MCP server they keep for the
\* payments that their requests opened, whatever else happens: stores that fail,
\* cancellations, deaths and payment IDs that callers share.
Promise == INSTANCE ClientPromise WITH
  Client <- Session,
  client <- ClientOf,
  auth   <- [r \in Request |-> IF isNew[r] THEN auth[r] ELSE "none"],
  amount <- [r \in Request |-> IF r \in AtStake(ClientOf[r]) THEN payment[r].amount ELSE 0]

ImplementsClient == Promise!Spec

\* The payments for which session s has sent an authorization.
SentBy(s) ==
  {id \in DOMAIN journal : \E r \in Request :
     ClientOf[r] = s /\ auth[r] \in {"sent", "settled"} /\ payment[r].payment_id = id}

\* What SECURITY.md says of the budget of a session: each payment is checked
\* against it before it is signed.
SessionWithinBudget ==
  \A s \in Session : Cardinality(Units(SentBy(s), Amounts(journal))) <= Budget
=============================================================================
