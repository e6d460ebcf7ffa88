--------------------------- MODULE AssuranceProofs ---------------------------
(***************************************************************************)
(* Theorems about the parts of DemoLifecycle and about the whole, for any  *)
(* number of transactions, threads, requests and runs of the scripts.      *)
(***************************************************************************)
EXTENDS DemoLifecycle, SettlementProofs

-----------------------------------------------------------------------------
(* The seller. *)

\* What a thread holds: one that settles has found no record, and a hash is the
\* hash of its own authorization.
ThreadOK(s) ==
  /\ s.at \in Locked \cup {"queued"} => s.auth \in Auth
  /\ s.at \in {"submit", "unknown", "submitted"} => records[s.auth].status = "none"
  /\ s.at \in {"submitted", "wait"} => s.hash \in SettleHash /\ settleTx[s.hash].auth = s.auth
  /\ s.at # "answer" => s.code = 0
  /\ s.code = 200 =>
       s.hash \in SettleHash /\ settleTx[s.hash] = [auth |-> s.auth, status |-> "mined"]

RecordOK(a) ==
  /\ records[a].status \in {"pending", "confirmed"} =>
       records[a].hash \in SettleHash /\ settleTx[records[a].hash].auth = a
  /\ records[a].status = "confirmed" => settleTx[records[a].hash].status = "mined"

\* One thread at a time is in the lock.
Exclusive == \A t, u \in Thread : thread[t].at \in Locked /\ thread[u].at \in Locked => t = u

\* What was sent is somebody's.
Owned == \A h \in SettleHash : settleTx[h].auth \in Auth \/ settleTx[h].status = "unused"

ProviderInv ==
  /\ ProviderTypeOK
  /\ Exclusive /\ Owned
  /\ \A t \in Thread : ThreadOK(thread[t])
  /\ \A a \in Auth : RecordOK(a)

ThreadState == [at : Stages, auth : Auth \cup {Unset}, hash : SettleHash \cup {Unset}, code : Codes]

\* A settlement keeps its authorization, and once mined stays so.
SettlementsStay ==
  \A h \in SettleHash :
    /\ settleTx[h].auth \in Auth => settleTx'[h].auth = settleTx[h].auth
    /\ settleTx[h].status = "mined" => settleTx'[h] = settleTx[h]

LEMMA ProviderStarts == ProviderInit => ProviderInv
BY DEF ProviderInit, ProviderInv, ProviderTypeOK, Exclusive, ThreadOK, RecordOK, Free, NoRecord,
       NoSettleTx, Stages, Codes, Locked, Owned

\* A thread moves, and touches no record but the one it has locked.
LEMMA ThreadMoves ==
  ASSUME ProviderInv, NEW t \in Thread, NEW new \in ThreadState,
         thread' = [thread EXCEPT ![t] = new],
         new.at \in Locked => \A u \in Thread \ {t} : thread[u].at \notin Locked,
         ThreadOK(new)', SettlementsStay, Owned',
         \A a \in Auth : records'[a] # records[a] =>
           /\ thread[t].at \in Locked /\ thread[t].auth = a
           /\ RecordOK(a)',
         settleTx' \in [SettleHash ->
           [auth : Auth \cup {Unset}, status : {"unused", "mempool", "mined", "reverted"}]],
         usedAuth' \subseteq Auth, expired' \subseteq Auth,
         records' \in [Auth ->
           [status : {"none", "ambiguous", "pending", "failed", "confirmed"},
            hash : SettleHash \cup {Unset}]]
  PROVE  ProviderInv'
<1>1. ProviderTypeOK'
  BY DEF ProviderInv, ProviderTypeOK, ThreadState
<1>2. thread'[t] = new /\ \A u \in Thread \ {t} : thread'[u] = thread[u]
  BY DEF ProviderInv, ProviderTypeOK
<1>3. Exclusive'
  BY <1>2 DEF Exclusive, ProviderInv
<1>4. ASSUME NEW u \in Thread PROVE ThreadOK(thread[u])'
  <2>1. CASE u = t
    BY <1>2, <2>1 DEF ThreadOK
  <2>2. CASE u # t
    <3>1. ThreadOK(thread[u]) /\ thread[u] \in ThreadState
      BY DEF ProviderInv, ProviderTypeOK, ThreadState
    <3>2. thread[u].at \in Locked => records'[thread[u].auth] = records[thread[u].auth]
      BY <2>2, <3>1 DEF ProviderInv, Exclusive, ThreadOK
    <3>3. thread'[u] = thread[u]
      BY <1>2, <2>2
    <3>4. Locked = {"submit", "unknown", "submitted", "wait"}
      BY DEF Locked
    <3> QED
      BY <3>1, <3>2, <3>3, <3>4 DEF ThreadOK, SettlementsStay
  <2> QED
    BY <2>1, <2>2
<1>5. ASSUME NEW a \in Auth PROVE RecordOK(a)'
  <2>1. CASE records'[a] = records[a]
    BY <2>1 DEF ProviderInv, RecordOK, SettlementsStay
  <2> QED
    BY <2>1
<1> QED
  BY <1>1, <1>3, <1>4, <1>5 DEF ProviderInv

LEMMA ThreadMovesAlone ==
  ASSUME ProviderInv, NEW t \in Thread, NEW new \in ThreadState,
         thread' = [thread EXCEPT ![t] = new],
         new.at \in Locked => \A u \in Thread \ {t} : thread[u].at \notin Locked,
         ThreadOK(new)', UNCHANGED <<settleTx, usedAuth, expired, records>>
  PROVE  ProviderInv'
<1>1. SettlementsStay /\ Owned'
  BY DEF SettlementsStay, Owned, ProviderInv
<1>2. /\ settleTx' \in [SettleHash ->
           [auth : Auth \cup {Unset}, status : {"unused", "mempool", "mined", "reverted"}]]
      /\ usedAuth' \subseteq Auth /\ expired' \subseteq Auth
      /\ records' \in [Auth ->
           [status : {"none", "ambiguous", "pending", "failed", "confirmed"},
            hash : SettleHash \cup {Unset}]]
  BY DEF ProviderInv, ProviderTypeOK
<1> QED
  BY <1>1, <1>2, ThreadMoves

LEMMA RequestKeeps ==
  ASSUME ProviderInv, NEW t \in Thread, NEW a \in Auth, Request(t, a)
  PROVE  ProviderInv'
<1>1. PICK new \in ThreadState : /\ thread' = [thread EXCEPT ![t] = new]
                                 /\ new.at \in {"answer", "queued"} /\ new.code \in {0, 402}
                                 /\ new.at = "queued" => new.code = 0
                                 /\ new.auth = a
  <2> DEFINE refused == [at |-> "answer", auth |-> a, hash |-> Unset, code |-> 402]
             queued == [at |-> "queued", auth |-> a, hash |-> Unset, code |-> 0]
  <2>1. refused \in ThreadState /\ queued \in ThreadState
    BY DEF ThreadState, Stages, Codes
  <2>2. thread' = [thread EXCEPT ![t] = refused] \/ thread' = [thread EXCEPT ![t] = queued]
    BY DEF Request
  <2> QED
    BY <2>1, <2>2
<1>2. ThreadOK(new)'
  BY <1>1 DEF ThreadOK, Locked
<1>3. UNCHANGED <<settleTx, usedAuth, expired, records>>
  BY DEF Request
<1> QED
  BY <1>1, <1>2, <1>3, ThreadMovesAlone DEF Locked

\* The ways a thread goes on from where it is.
LEMMA Proceeding ==
  ASSUME ProviderInv, NEW t \in Thread, NEW at \in Stages, NEW h \in SettleHash \cup {Unset},
         Proceeds(t, at, h), at # "answer", thread[t].at # "answer"
  PROVE  \E new \in ThreadState :
           /\ thread' = [thread EXCEPT ![t] = new]
           /\ new.at = at /\ new.hash = h /\ new.auth = thread[t].auth /\ new.code = 0
<1> DEFINE new == [thread[t] EXCEPT !.at = at, !.hash = h]
<1>1. thread[t] \in ThreadState /\ thread[t].code = 0
  BY DEF ProviderInv, ProviderTypeOK, ThreadOK, ThreadState
<1>2. new \in ThreadState /\ new.at = at /\ new.hash = h /\ new.auth = thread[t].auth /\ new.code = 0
  BY <1>1 DEF ThreadState
<1>3. thread' = [thread EXCEPT ![t] = new]
  BY DEF Proceeds, ProviderInv, ProviderTypeOK
<1> HIDE DEF new
<1> QED
  BY <1>2, <1>3

LEMMA Answering ==
  ASSUME ProviderInv, NEW t \in Thread, NEW code \in Codes, NEW h \in SettleHash \cup {Unset},
         Answers(t, code, h)
  PROVE  \E new \in ThreadState :
           /\ thread' = [thread EXCEPT ![t] = new]
           /\ new.at = "answer" /\ new.hash = h /\ new.auth = thread[t].auth /\ new.code = code
<1> DEFINE new == [thread[t] EXCEPT !.at = "answer", !.code = code, !.hash = h]
<1>1. thread[t] \in ThreadState
  BY DEF ProviderInv, ProviderTypeOK, ThreadState
<1>2. /\ new \in ThreadState /\ new.at = "answer" /\ new.hash = h
      /\ new.auth = thread[t].auth /\ new.code = code
  BY <1>1 DEF ThreadState, Stages
<1>3. thread' = [thread EXCEPT ![t] = new]
  BY DEF Answers, ProviderInv, ProviderTypeOK
<1> HIDE DEF new
<1> QED
  BY <1>2, <1>3

LEMMA TakeLockKeeps ==
  ASSUME ProviderInv, NEW t \in Thread, TakeLock(t)
  PROVE  ProviderInv'
<1>1. PICK a, record : a \in Auth /\ a = thread[t].auth /\ record = records[a]
  BY DEF TakeLock, ProviderInv, ThreadOK
<1>2. /\ thread[t].at = "queued" /\ \A u \in Thread : thread[u].at \notin Locked
      /\ UNCHANGED <<settleTx, usedAuth, expired, records>>
      /\ Branch(t, a, record)
      /\ record.hash \in SettleHash \cup {Unset}
  BY <1>1 DEF TakeLock, ProviderInv, ProviderTypeOK
<1>3. PICK new \in ThreadState :
        /\ thread' = [thread EXCEPT ![t] = new] /\ new.auth = a
        /\ \/ new.at = "answer" /\ new.code \in {402, 500, 503}
           \/ /\ new.at = "answer" /\ new.code = 200 /\ new.hash = record.hash
              /\ record.status = "confirmed"
           \/ /\ new.at = "wait" /\ new.code = 0 /\ new.hash = record.hash
              /\ record.status = "pending"
           \/ new.at = "submit" /\ new.code = 0 /\ record.status = "none"
  <2>1. \/ \E code \in {402, 500, 503} : Answers(t, code, Unset)
        \/ record.status = "confirmed" /\ Answers(t, 200, record.hash)
        \/ record.status = "pending" /\ Proceeds(t, "wait", record.hash)
        \/ record.status = "none" /\ Proceeds(t, "submit", Unset)
    BY <1>2 DEF Branch
  <2>2. {402, 500, 503, 200} \subseteq Codes /\ {"wait", "submit"} \subseteq Stages
    BY DEF Codes, Stages
  <2> QED
    BY <1>1, <1>2, <2>1, <2>2, Answering, Proceeding
<1>4. ThreadOK(new)'
  BY <1>1, <1>2, <1>3 DEF ThreadOK, Locked, ProviderInv, RecordOK, ProviderTypeOK
<1> QED
  BY <1>2, <1>3, <1>4, ThreadMovesAlone

LEMMA SubmitKeeps ==
  ASSUME ProviderInv, NEW t \in Thread, SubmitSettlement(t)
  PROVE  ProviderInv'
<1>1. PICK a \in Auth : /\ a = thread[t].auth /\ thread[t].at = "submit"
                        /\ records[a].status = "none"
  BY DEF SubmitSettlement, ProviderInv, ThreadOK, Locked
<1>2. /\ UNCHANGED <<usedAuth, expired, records>>
      /\ {"submitted", "unknown"} \subseteq Stages /\ 500 \in Codes
      /\ \A u \in Thread \ {t} : thread[u].at \notin Locked
  BY <1>1 DEF SubmitSettlement, Stages, Codes, ProviderInv, Exclusive, Locked
<1>3. ASSUME NEW h \in SettleHash, settleTx[h] = NoSettleTx,
             settleTx' = [settleTx EXCEPT ![h] = [auth |-> a, status |-> "mempool"]],
             Proceeds(t, "submitted", h) \/ Proceeds(t, "unknown", Unset)
      PROVE  ProviderInv'
  <2>1. PICK new \in ThreadState :
          /\ thread' = [thread EXCEPT ![t] = new] /\ new.auth = a /\ new.code = 0
          /\ (new.at = "submitted" /\ new.hash = h) \/ new.at = "unknown"
    BY <1>1, <1>2, <1>3, Proceeding
  <2>2. /\ settleTx' \in [SettleHash ->
             [auth : Auth \cup {Unset}, status : {"unused", "mempool", "mined", "reverted"}]]
        /\ settleTx'[h].auth = a /\ \A g \in SettleHash \ {h} : settleTx'[g] = settleTx[g]
    BY <1>3 DEF ProviderInv, ProviderTypeOK
  <2>3. SettlementsStay
    BY <1>3, <2>2, ProviderAssumption DEF SettlementsStay, NoSettleTx
  <2>4. ThreadOK(new)'
    BY <1>1, <1>2, <2>1, <2>2 DEF ThreadOK, Locked
  <2>5. Owned'
    BY <2>2, <1>1 DEF ProviderInv, Owned
  <2> QED
    BY <1>2, <2>1, <2>2, <2>3, <2>4, <2>5, ThreadMoves DEF ProviderInv, ProviderTypeOK
<1>4. ASSUME UNCHANGED settleTx, Proceeds(t, "unknown", Unset) \/ Answers(t, 500, Unset)
      PROVE  ProviderInv'
  <2>1. PICK new \in ThreadState :
          /\ thread' = [thread EXCEPT ![t] = new] /\ new.auth = a
          /\ \/ new.at = "unknown" /\ new.code = 0
             \/ new.at = "answer" /\ new.code = 500
    BY <1>1, <1>2, <1>4, Proceeding, Answering
  <2>2. ThreadOK(new)'
    BY <1>1, <1>2, <2>1 DEF ThreadOK, Locked
  <2> QED
    BY <1>2, <1>4, <2>1, <2>2, ThreadMovesAlone, ZenonT(40)
<1> QED
  BY <1>1, <1>3, <1>4 DEF SubmitSettlement

\* The steps of the thread in the lock that put a record.
LEMMA RecordKeeps ==
  ASSUME ProviderInv, NEW t \in Thread, PutAmbiguous(t) \/ PutPending(t) \/ TakeReceipt(t)
  PROVE  ProviderInv'
<1>1. PICK a, h : /\ a \in Auth /\ a = thread[t].auth /\ h = thread[t].hash
                  /\ thread[t].at \in Locked /\ thread[t].at # "submit"
                  /\ thread[t].at # "unknown" =>
                       h \in SettleHash /\ settleTx[h].auth = a
  BY DEF PutAmbiguous, PutPending, TakeReceipt, ProviderInv, ThreadOK, Locked
<1>2. /\ UNCHANGED <<settleTx, usedAuth, expired>>
      /\ \A u \in Thread \ {t} : thread[u].at \notin Locked
      /\ SettlementsStay
  BY <1>1 DEF PutAmbiguous, PutPending, TakeReceipt, ProviderInv, Exclusive, SettlementsStay
<1>3. PICK new \in ThreadState, s \in {"ambiguous", "pending", "failed", "confirmed"},
           g \in SettleHash \cup {Unset} :
        /\ thread' = [thread EXCEPT ![t] = new] /\ new.auth = a
        /\ Records(a, s, g) \/ UNCHANGED records
        /\ \/ new.at = "answer" /\ new.code \in {402, 503}
           \/ /\ new.at = "wait" /\ new.code = 0 /\ new.hash = h
              /\ h \in SettleHash /\ settleTx[h].auth = a
           \/ /\ new.at = "answer" /\ new.code = 200 /\ new.hash = h
              /\ h \in SettleHash /\ settleTx[h].auth = a /\ settleTx[h].status = "mined"
        /\ s \in {"pending", "confirmed"} => g = h /\ h \in SettleHash /\ settleTx[h].auth = a
        /\ s = "confirmed" => settleTx[h].status = "mined"
  <2>0. {402, 503, 200} \subseteq Codes /\ "wait" \in Stages
    BY DEF Codes, Stages
  <2>1. CASE PutAmbiguous(t)
    BY <1>1, <2>0, <2>1, Answering DEF PutAmbiguous
  <2>2. CASE PutPending(t)
    BY <1>1, <2>0, <2>2, Proceeding, SMTT(20) DEF PutPending
  <2>3. CASE TakeReceipt(t)
    <3>1. h \in SettleHash /\ settleTx[h].auth = a
      BY <1>1, <2>3 DEF TakeReceipt
    <3>2. CASE settleTx[h].status = "mined" /\ Records(a, "confirmed", h) /\ Answers(t, 200, h)
      BY <1>1, <2>0, <3>1, <3>2, Answering
    <3>3. CASE Records(a, "failed", h) /\ Answers(t, 402, Unset)
      BY <1>1, <2>0, <3>1, <3>3, Answering
    <3>4. CASE Answers(t, 503, Unset) /\ UNCHANGED records
      BY <1>1, <2>0, <3>1, <3>4, Answering
    <3> QED
      BY <1>1, <2>3, <3>2, <3>3, <3>4 DEF TakeReceipt
  <2> QED
    BY <2>1, <2>2, <2>3
<1>4. /\ records' \in [Auth ->
           [status : {"none", "ambiguous", "pending", "failed", "confirmed"},
            hash : SettleHash \cup {Unset}]]
      /\ \A b \in Auth : records'[b] # records[b] =>
           b = a /\ records'[b] = [status |-> s, hash |-> g]
  BY <1>3 DEF Records, ProviderInv, ProviderTypeOK
<1>5. ASSUME NEW b \in Auth, records'[b] # records[b] PROVE b = a /\ RecordOK(b)'
  <2>1. b = a /\ records'[b] = [status |-> s, hash |-> g]
    BY <1>4, <1>5
  <2> QED
    BY <1>2, <1>3, <2>1 DEF RecordOK
<1>6. ThreadOK(new)'
  <2>1. CASE new.at = "wait"
    <3>1. /\ new.hash = h /\ h \in SettleHash /\ settleTx'[h].auth = a
          /\ new.code = 0 /\ new.auth = a
      BY <1>2, <1>3, <2>1
    <3> QED
      BY <1>1, <2>1, <3>1 DEF ThreadOK
  <2>2. CASE new.at = "answer" /\ new.code = 200
    <3>1. new.hash \in SettleHash /\ new.auth = a /\ settleTx'[new.hash] = settleTx[new.hash]
      BY <1>2, <1>3, <2>2
    <3>2. settleTx[new.hash].auth = a /\ settleTx[new.hash].status = "mined"
      BY <1>3, <2>2
    <3>3. settleTx[new.hash] \in [auth : Auth \cup {Unset},
                                 status : {"unused", "mempool", "mined", "reverted"}]
      BY <3>1 DEF ProviderInv, ProviderTypeOK
    <3>4. settleTx[new.hash] = [auth |-> a, status |-> "mined"]
      BY <3>2, <3>3
    <3> QED
      BY <2>2, <3>1, <3>4 DEF ThreadOK, Locked
  <2>3. CASE new.at = "answer" /\ new.code # 200
    BY <2>3 DEF ThreadOK, Locked
  <2> QED
    BY <1>3, <2>1, <2>2, <2>3
<1>7. \A b \in Auth : records'[b] # records[b] =>
        /\ thread[t].at \in Locked /\ thread[t].auth = b
        /\ RecordOK(b)'
  BY <1>1, <1>5
<1>8. usedAuth' \subseteq Auth /\ expired' \subseteq Auth
      /\ settleTx' \in [SettleHash ->
           [auth : Auth \cup {Unset}, status : {"unused", "mempool", "mined", "reverted"}]]
  BY <1>2 DEF ProviderInv, ProviderTypeOK
<1>10. Owned'
  BY <1>2 DEF ProviderInv, Owned
<1>9. thread' = [thread EXCEPT ![t] = new]
  BY <1>3
<1> QED
  BY <1>2, <1>4, <1>6, <1>7, <1>8, <1>9, <1>10, ThreadMoves

\* The seller's other steps: an answer leaves, the process dies, time passes.
LEMMA LeavesThread ==
  ASSUME ProviderInv,
         \/ \E t \in Thread : Hangup(t)
         \/ CrashProvider
         \/ \E a \in Auth : Expire(a)
  PROVE  ProviderInv'
<1>1. /\ UNCHANGED <<settleTx, usedAuth, records>> /\ expired' \subseteq Auth
      /\ \A t \in Thread : thread'[t] = thread[t] \/ thread'[t] = Free
      /\ thread' \in [Thread -> ThreadState]
  BY DEF Hangup, CrashProvider, Expire, Free, ThreadState, Stages, Codes, ProviderInv, ProviderTypeOK
<1>2. ProviderTypeOK' /\ Exclusive' /\ Owned'
  BY <1>1 DEF ProviderInv, ProviderTypeOK, Exclusive, Owned, ThreadState, Free, Locked
<1>3. \A t \in Thread : ThreadOK(thread[t])'
  BY <1>1 DEF ProviderInv, ThreadOK, Free, Locked
<1>4. \A a \in Auth : RecordOK(a)'
  BY <1>1 DEF ProviderInv, RecordOK
<1> QED
  BY <1>2, <1>3, <1>4 DEF ProviderInv

LEMMA MineSettlementKeeps ==
  ASSUME ProviderInv, NEW h \in SettleHash, MineSettlement(h)
  PROVE  ProviderInv'
<1>1. /\ settleTx[h].status = "mempool"
      /\ \E s \in {"mined", "reverted"} : settleTx' = [settleTx EXCEPT ![h].status = s]
      /\ UNCHANGED <<expired, records, thread>>
  BY DEF MineSettlement
<1>2. /\ settleTx' \in [SettleHash ->
           [auth : Auth \cup {Unset}, status : {"unused", "mempool", "mined", "reverted"}]]
      /\ settleTx'[h].auth = settleTx[h].auth /\ settleTx[h].status # "mined"
      /\ \A g \in SettleHash \ {h} : settleTx'[g] = settleTx[g]
  BY <1>1 DEF ProviderInv, ProviderTypeOK
<1>3. usedAuth' \subseteq Auth
  <2>1. settleTx[h].auth \in Auth
    BY <1>1 DEF ProviderInv, Owned
  <2> QED
    BY <2>1 DEF MineSettlement, ProviderInv, ProviderTypeOK
<1>4. ProviderTypeOK' /\ Exclusive' /\ Owned'
  BY <1>1, <1>2, <1>3 DEF ProviderInv, ProviderTypeOK, Exclusive, Owned
<1>7. ASSUME NEW g \in SettleHash
      PROVE  /\ settleTx'[g].auth = settleTx[g].auth
             /\ settleTx[g].status = "mined" => settleTx'[g] = settleTx[g]
  BY <1>2
<1>5. ASSUME NEW t \in Thread PROVE ThreadOK(thread[t])'
  <2>0. PICK s : s = thread[t]
    OBVIOUS
  <2>1. ThreadOK(s) /\ thread'[t] = s /\ records' = records
    BY <1>1, <2>0 DEF ProviderInv
  <2>2. s.code = 200 =>
          /\ s.hash \in SettleHash
          /\ settleTx'[s.hash] = [auth |-> s.auth, status |-> "mined"]
    BY <2>1, <1>7 DEF ThreadOK
  <2>3. s.at \in {"submitted", "wait"} =>
          s.hash \in SettleHash /\ settleTx'[s.hash].auth = s.auth
    BY <2>1, <1>7 DEF ThreadOK
  <2> QED
    BY <2>1, <2>2, <2>3 DEF ThreadOK
<1>6. \A a \in Auth : RecordOK(a)'
  BY <1>1, <1>2 DEF ProviderInv, RecordOK
<1> QED
  BY <1>4, <1>5, <1>6 DEF ProviderInv

LEMMA NextProviderInv == ProviderInv /\ [ProviderNext]_providerVars => ProviderInv'
<1> SUFFICES ASSUME ProviderInv, [ProviderNext]_providerVars PROVE ProviderInv'
  OBVIOUS
<1>1. CASE \E t \in Thread, a \in Auth : Request(t, a)
  BY <1>1, RequestKeeps
<1>2. CASE \E t \in Thread : TakeLock(t)
  BY <1>2, TakeLockKeeps
<1>3. CASE \E t \in Thread : SubmitSettlement(t)
  BY <1>3, SubmitKeeps
<1>4. CASE \E t \in Thread : PutAmbiguous(t) \/ PutPending(t) \/ TakeReceipt(t)
  BY <1>4, RecordKeeps
<1>5. CASE \/ \E t \in Thread : Hangup(t)
           \/ CrashProvider
           \/ \E a \in Auth : Expire(a)
  BY <1>5, LeavesThread
<1>6. CASE \E h \in SettleHash : MineSettlement(h)
  BY <1>6, MineSettlementKeeps
<1>7. CASE UNCHANGED providerVars
  BY <1>7 DEF providerVars, ProviderInv, ProviderTypeOK, Exclusive, Owned, ThreadOK, RecordOK
<1> QED
  BY <1>1, <1>2, <1>3, <1>4, <1>5, <1>6, <1>7 DEF ProviderNext, ProviderStep

\* Every state of the seller is well-typed.
THEOREM ProviderTypeCorrect == ProviderSpec => []ProviderTypeOK
<1>1. ProviderInv => ProviderTypeOK
  BY DEF ProviderInv
<1> QED
  BY <1>1, ProviderStarts, NextProviderInv, PTL DEF ProviderSpec

\* A 200 is answered only for a transfer that was mined, and names it, however
\* many requests carry the authorization and whenever the seller dies.
THEOREM ProviderServesPaid == ProviderSpec => []ServedMeansPaid
<1>1. ProviderInv => ServedMeansPaid
  BY DEF ProviderInv, ServedMeansPaid, ThreadOK
<1> QED
  BY <1>1, ProviderStarts, NextProviderInv, PTL DEF ProviderSpec

\* An authorization is not sent again once it has a record of any kind.
LEMMA RecordedStays ==
  ASSUME ProviderInv, ProviderNext, NEW a \in Auth, records[a].status # "none"
  PROVE  Broadcast(a)' = Broadcast(a)
<1>1. CASE UNCHANGED settleTx
  BY <1>1 DEF Broadcast
<1>2. ASSUME NEW t \in Thread, SubmitSettlement(t) PROVE Broadcast(a)' = Broadcast(a)
  <2>1. thread[t].auth # a /\ thread[t].auth \in Auth
    BY <1>2 DEF SubmitSettlement, ProviderInv, ThreadOK, Locked
  <2>2. CASE \E h \in SettleHash :
               /\ settleTx[h] = NoSettleTx
               /\ settleTx' = [settleTx EXCEPT ![h] = [auth |-> thread[t].auth, status |-> "mempool"]]
    BY <2>1, <2>2, ProviderAssumption DEF Broadcast, NoSettleTx, ProviderInv, ProviderTypeOK
  <2> QED
    BY <1>1, <1>2, <2>2 DEF SubmitSettlement
<1>3. ASSUME NEW h \in SettleHash, MineSettlement(h) PROVE Broadcast(a)' = Broadcast(a)
  BY <1>3 DEF MineSettlement, Broadcast, ProviderInv, ProviderTypeOK
<1>4. CASE \/ \E t \in Thread, b \in Auth : Request(t, b)
           \/ \E t \in Thread : \/ TakeLock(t) \/ PutAmbiguous(t) \/ PutPending(t)
                                \/ TakeReceipt(t) \/ Hangup(t)
           \/ CrashProvider
           \/ \E b \in Auth : Expire(b)
  <2>1. UNCHANGED settleTx
    BY <1>4 DEF Request, TakeLock, PutAmbiguous, PutPending, TakeReceipt, Hangup, CrashProvider, Expire
  <2> QED
    BY <1>1, <2>1
<1> QED
  BY <1>2, <1>3, <1>4 DEF ProviderNext, ProviderStep

\* What has a record, were it only that nobody knows, is never sent again.
THEOREM ProviderNeverResends == ProviderSpec => RecordedNeverResent
<1>1. ProviderInv /\ [ProviderNext]_providerVars =>
        [\A a \in Auth : records[a].status # "none" => Broadcast(a)' = Broadcast(a)]_providerVars
  BY RecordedStays
<1> QED
  BY <1>1, ProviderStarts, NextProviderInv, PTL DEF ProviderSpec, RecordedNeverResent

-----------------------------------------------------------------------------
(* The whole.  Each stage has an invariant of its own: what its files and      *)
(* chains say, and what the script that runs holds while it is in that stage.  *)

BondLabels == {"bond_sent", "bond_wait", "bond_written"}
FundLabels == {"fund_approve", "fund_approved", "fund_approving",
               "fund_deposit", "fund_deposited", "fund_depositing"}
PayLabels == {"pay_request", "pay_wait", "pay_answered", "pay_observe", "pay_finalize"}
AdjLabels == {"adj_sent", "adj_recorded", "adj_wait", "adj_verdict", "adj_decided"}
RefundLabels == {"refund_start", "refund_relay", "refund_record", "refund_check"}

\* Only a mined deployment gets into the artifact, and only the artifact's into
\* the addresses.
DeployInv ==
  /\ deployTx \in [DeployHash -> ArcStatus]
  /\ {bondPending, bondArtifact, bondConfigured} \subseteq DeployHash \cup {NoHash}
  /\ bondArtifact # NoHash => deployTx[bondArtifact] = "mined"
  /\ bondConfigured # NoHash => bondConfigured = bondArtifact
  /\ proc.at \in {"bond_sent", "bond_wait"} => proc.held \in DeployHash /\ bondConfigured = NoHash
  /\ proc.at = "bond_written" => proc.held = bondArtifact

DepositMined == \E i \in DOMAIN fundTx : fundTx[i].kind = "deposit" /\ fundTx[i].status = "mined"

\* No approval is sent after a deposit, so one deposit uses up all of them.
FundInv ==
  /\ fundTx \in Seq([kind : {"approve", "deposit"}, status : ArcStatus \ {"unused"}])
  /\ Len(fundTx) <= MaxFunding
  /\ funding \in FundingArtifact \cup {NoRow}
  /\ \A i, j \in DOMAIN fundTx : i < j /\ fundTx[j].kind = "approve" => fundTx[i].kind = "approve"
  /\ (\E i \in DOMAIN fundTx : fundTx[i].kind = "deposit") => funding # NoRow
  /\ deposited[Funder] = IF DepositMined THEN BondAmount ELSE 0
  /\ funding # NoRow /\ funding.status = "confirmed" => DepositMined
  /\ proc.at \in FundLabels => proc.held \in FundingArtifact
  /\ proc.at \in {"fund_approve", "fund_approved"} =>
       funding = NoRow /\ proc.held.status = "approve_submitted"
  /\ proc.at \in FundLabels \ {"fund_approve", "fund_approved"} => funding # NoRow
  /\ proc.at = "fund_deposited" => proc.held.status = "deposit_submitted"

\* An adjudication that succeeded is the one that wrote the verdict.
GlInv ==
  /\ GlTypeOK
  /\ glArtifact \in GlId \cup {NoHash}
  /\ proc.at = "gl_wait" => proc.held \in GlId
  /\ \A g \in GlId : glTx[g].call = "adjudicate" => glTx[g].about \in Dispute
  /\ \A g \in GlId : glTx[g].call = "adjudicate" /\ IsSuccessfulFinalization(glTx[g]) =>
       verdicts[glTx[g].about] # "none" /\ writer[glTx[g].about] = g

\* The seller sees one authorization, and what was mined has used it.
SellerInv ==
  /\ ProviderInv
  /\ \A t \in Thread : thread[t].auth \in {DemoAuth, Unset}
  /\ \A h \in SettleHash : settleTx[h].status = "mined" => settleTx[h].auth \in usedAuth

Served(e) ==
  e.code = 200 => e.hash \in SettleHash /\ settleTx[e.hash] = [auth |-> DemoAuth, status |-> "mined"]

PayInv ==
  /\ PaymentTypeOK
  /\ evidence # NoRow => Served(evidence)
  /\ payment # NoRow /\ payment.status = "verified" =>
       evidence # NoRow /\ evidence.code = 200 /\ evidence.hash = payment.hash
  /\ proc.at \in PayLabels => payment # NoRow
  /\ proc.at \in PayLabels \ {"pay_finalize"} => payment.status # "verified"
  /\ proc.at = "pay_wait" => proc.held \in Thread
  /\ proc.at \in {"pay_answered", "pay_observe"} => proc.held \in Exchange /\ Served(proc.held)
  /\ proc.at = "pay_finalize" => evidence = proc.held /\ evidence # NoRow /\ evidence.code = 200

\* What is known of the adjudication on record.
OnRecord(id) == adjudication # NoRow /\ adjudication.id = id

AdjInv ==
  /\ AdjudicationTypeOK
  /\ adjudication # NoRow =>
       /\ glTx[adjudication.id].call = "adjudicate"
       /\ glTx[adjudication.id].about = DemoDispute
  /\ adjudication # NoRow /\ adjudication.status = "finalized" =>
       verdicts[DemoDispute] # "none" /\ adjudication.decision = verdicts[DemoDispute]
  /\ disputes[DemoDispute] \in {"upheld", "rejected"} => verdicts[DemoDispute] # "none"
  /\ DecidedByRecorded
  /\ proc.at = "adj_sent" =>
       /\ adjudication = NoRow /\ proc.held \in GlId
       /\ glTx[proc.held].call = "adjudicate" /\ glTx[proc.held].about = DemoDispute
  /\ proc.at \in {"adj_recorded", "adj_wait"} => OnRecord(proc.held)
  /\ proc.at \in {"adj_verdict", "adj_decided"} =>
       /\ OnRecord(proc.held.id)
       /\ verdicts[DemoDispute] # "none" /\ proc.held.decision = verdicts[DemoDispute]
       /\ writer[DemoDispute] = proc.held.id

\* The relay works for the demo's binding, and its file follows it.
RecoveryInv ==
  /\ RecoveryTypeOK
  /\ \A w \in Worker : pc[w] # "idle" => job[w] = DemoBinding
  /\ \A h \in Hash : tx[h] # NoTx => tx[h].binding = DemoBinding
  /\ refunds \subseteq {RefundCall(DemoBinding)}
  /\ refunds # {} => disputes[DemoDispute] = "upheld"
  /\ disputes[DemoDispute] # NoRow => DemoAuth \in usedAuth
  /\ recovery # NoRow /\ recovery.hash # NoHash => tx[recovery.hash] # NoTx
  /\ recovery # NoRow /\ recovery.status = "confirmed" => RefundCall(DemoBinding) \in refunds
  /\ proc.at \in RefundLabels => recovery # NoRow
  /\ proc.at = "refund_record" => pc[Runner] = "write" /\ goal[Runner].status = "pending"

LifecycleInv ==
  /\ runs \in 0..(7 + MaxReruns)
  /\ RelayInv /\ DeployInv /\ FundInv /\ GlInv /\ SellerInv /\ PayInv /\ AdjInv /\ RecoveryInv

deployVars == <<deployTx, bondPending, bondArtifact, bondConfigured>>
fundVars == <<fundTx, funding>>

\* A script that does not move leaves what another script holds; one that moves
\* is in a stage of its own.
Elsewhere(labels) == proc' = proc \/ proc'.at \notin labels

LEMMA LifecycleStarts == LifecycleInit => LifecycleInv
<1> SUFFICES ASSUME LifecycleInit PROVE LifecycleInv
  OBVIOUS
<1>1. BondInv
  BY BondStarts DEF LifecycleInit
<1>2. TypeOK
  BY <1>1 DEF LifecycleInit, BondInv, TypeOK, JournalTypeOK, DisputeStatus, PcLabels
<1>3. ChainInv /\ SentIsUpheld /\ ConfirmedIsRefunded /\ WorkerInv
  BY DEF LifecycleInit, ChainInv, SentIsUpheld, ConfirmedIsRefunded, WorkerInv, WorkerOK, NoTx
<1>4. proc.at = "idle" /\ runs \in 0..(7 + MaxReruns)
  BY LifecycleAssumption DEF LifecycleInit, ProvisioningInit, Idle
<1>5. DeployInv
  BY <1>4 DEF LifecycleInit, ProvisioningInit, DeployInv, ArcStatus
<1>6. FundInv
  <2>1. fundTx = <<>> /\ funding = NoRow /\ deposited[Funder] = 0
    BY ProvisioningAssumption DEF LifecycleInit, ProvisioningInit, BondInit
  <2>2. DOMAIN fundTx = {} /\ Len(fundTx) = 0
    BY <2>1
  <2> QED
    BY <1>4, <2>1, <2>2, ProvisioningAssumption DEF FundInv, FundLabels, DepositMined
<1>7. GlInv
  BY <1>4 DEF LifecycleInit, ProvisioningInit, GlInit, GlInv, GlTypeOK, NoCall
<1>8. SellerInv
  BY ProviderStarts DEF LifecycleInit, ProviderInit, SellerInv, Free, NoSettleTx
<1>9. PayInv
  BY <1>4, PaymentAssumption DEF LifecycleInit, PaymentInit, PayInv, PaymentTypeOK, PayLabels
<1>10. AdjInv
  <2>1. disputes[DemoDispute] = NoRow /\ NoRow \notin {"upheld", "rejected"}
    BY AdjudicationAssumption, JournalAssumption, RowAssumption
    DEF LifecycleInit, DemoDispute, DisputeStatus
  <2> QED
    BY <1>4, <2>1 DEF LifecycleInit, AdjudicationInit, AdjInv, AdjudicationTypeOK, DecidedByRecorded
<1>11. RecoveryInv
  BY <1>4, AdjudicationAssumption, JournalAssumption
  DEF LifecycleInit, RecoveryInit, RecoveryInv, RecoveryTypeOK, RefundLabels, BondInit,
      DemoDispute, NoTx
<1> QED
  BY <1>1, <1>2, <1>3, <1>4, <1>5, <1>6, <1>7, <1>8, <1>9, <1>10, <1>11
  DEF LifecycleInv, RelayInv

-----------------------------------------------------------------------------
(* Where the scripts go, and what they leave to the others. *)

LEMMA BondFrame ==
  ASSUME BondScript
  PROVE  /\ proc'.at \in BondLabels \cup {"idle"}
         /\ UNCHANGED <<fundVars, glArtifact, bondVars, glVars, providerVars, paymentVars,
                        disputes, adjudicationVars, relayOnly, recovery>>
BY DEF BondScript, SendDeployment, RecordDeployment, FinishDeployment, ConfigureBond,
       ResumeDeployment, provisioningVars, fundVars, GoesTo, Ends, Idle, BondLabels

LEMMA FundFrame ==
  ASSUME FundInv, FundingScript
  PROVE  /\ proc'.at \in FundLabels \cup {"idle"}
         /\ UNCHANGED <<deployVars, glArtifact, bondVars, glVars, providerVars, paymentVars,
                        disputes, adjudicationVars, relayOnly, recovery>>
<1>1. UNCHANGED <<deployVars, glArtifact, bondVars, glVars, providerVars, paymentVars,
                  disputes, adjudicationVars, relayOnly, recovery>>
  BY DEF FundingScript, StartFunding, ResumeFunding, SendApprove, SendDeposit, RecordFunding,
         ConfirmApprove, ConfirmDeposit, provisioningVars, deployVars
<1>2. \A s \in {"approve_submitted", "approve_confirmed", "deposit_submitted", "confirmed"} :
        ResumeAt[s] \in FundLabels \cup {"idle"}
  BY DEF ResumeAt, FundLabels
<1>3. CASE ResumeFunding
  <2>1. funding.status \in {"approve_submitted", "approve_confirmed", "deposit_submitted", "confirmed"}
    BY <1>3 DEF ResumeFunding, FundInv, FundingArtifact
  <2> QED
    BY <1>1, <1>2, <1>3, <2>1 DEF ResumeFunding, GoesTo
<1>4. CASE RecordFunding
  <2>1. proc.held.status \in {"approve_submitted", "approve_confirmed", "deposit_submitted", "confirmed"}
    BY <1>4 DEF RecordFunding, FundInv, FundingArtifact, FundLabels
  <2> QED
    BY <1>1, <1>2, <1>4, <2>1 DEF RecordFunding, GoesTo
<1>5. CASE StartFunding \/ SendApprove \/ SendDeposit \/ ConfirmApprove \/ ConfirmDeposit
  BY <1>1, <1>5 DEF StartFunding, SendApprove, SendDeposit, ConfirmApprove, ConfirmDeposit,
                    GoesTo, Ends, Idle, FundLabels
<1> QED
  BY <1>3, <1>4, <1>5 DEF FundingScript

LEMMA GlFrame ==
  ASSUME GenLayerScript
  PROVE  /\ proc'.at \in {"gl_wait", "idle"}
         /\ UNCHANGED <<deployVars, fundVars, bondVars, verdicts, writer, providerVars, paymentVars,
                        disputes, adjudicationVars, relayOnly, recovery>>
BY DEF GenLayerScript, SubmitDeployment, FinishGlDeployment, ResumeGlDeployment,
       provisioningVars, deployVars, fundVars, GoesTo, Ends, Idle

LEMMA PayFrame ==
  ASSUME PaymentScript
  PROVE  /\ proc'.at \in PayLabels \cup {"idle"}
         /\ UNCHANGED <<deployVars, fundVars, glArtifact, bondVars, glVars,
                        disputes, adjudicationVars, relayOnly, recovery>>
<1>1. UNCHANGED <<deployVars, fundVars, glArtifact, bondVars, glVars,
                  disputes, adjudicationVars, relayOnly, recovery>>
  BY DEF PaymentScript, provisioningVars, deployVars, fundVars
<1>2. proc'.at \in PayLabels \cup {"idle"}
  BY DEF PaymentScript, StartPayment, TakeAnswer, MissAnswer, NoteEvent, StoreEvidence,
         ResumePayment, FinalizePayment, SendPaid, GoesTo, Ends, Idle, PayLabels
<1> QED
  BY <1>1, <1>2

LEMMA DisputeFrame ==
  ASSUME DisputeScript
  PROVE  /\ proc'.at \in {"prepare", "idle"}
         /\ UNCHANGED <<deployVars, fundVars, glArtifact, bondVars, glVars, providerVars,
                        paymentVars, adjudication, reference, relayOnly, recovery>>
BY DEF DisputeScript, OpenDispute, PersistDispute, provisioningVars, deployVars, fundVars, glVars,
       adjudicationVars, GoesTo, Ends, Idle

LEMMA AdjFrame ==
  ASSUME AdjudicationScript
  PROVE  /\ proc'.at \in AdjLabels \cup {"idle"}
         /\ UNCHANGED <<deployVars, fundVars, glArtifact, bondVars, verdicts, writer, providerVars,
                        paymentVars, relayOnly, recovery>>
<1>1. UNCHANGED <<deployVars, fundVars, glArtifact, bondVars, verdicts, writer, providerVars,
                  paymentVars, relayOnly, recovery>>
  BY DEF AdjudicationScript, provisioningVars, deployVars, fundVars
<1>2. proc'.at \in AdjLabels \cup {"idle"}
  BY DEF AdjudicationScript, SubmitAdjudication, RecordAdjudication, SetAdjudicating,
         ResumeAdjudication, AwaitVerdict, PersistVerdict, FinalizeAdjudication,
         GoesTo, Ends, Idle, AdjLabels
<1> QED
  BY <1>1, <1>2

LEMMA RefundFrame ==
  ASSUME RefundRun
  PROVE  /\ proc'.at \in RefundLabels \cup {"idle"}
         /\ UNCHANGED <<deployVars, fundVars, glArtifact, glVars, providerVars, paymentVars,
                        adjudicationVars>>
<1>1. UNCHANGED <<deployVars, fundVars, glArtifact, glVars, providerVars, paymentVars,
                  adjudicationVars>>
  BY DEF RefundRun, provisioningVars, deployVars, fundVars
<1>2. proc'.at \in RefundLabels \cup {"idle"}
  <2>1. CASE RelayStep \/ SendRefund \/ WriteOutcome
    BY <2>1 DEF RelayStep, SendRefund, WriteOutcome, GoesTo, Ends, Idle, RefundLabels
  <2>2. CASE StartRefund \/ CallSettle \/ RecordRefund \/ StillPending \/ ConfirmRefund \/ StopsWithRelay
    BY <2>2 DEF StartRefund, CallSettle, RecordRefund, StillPending, ConfirmRefund,
                StopsWithRelay, Stops, GoesTo, Ends, Idle, RefundLabels
  <2> QED
    BY <2>1, <2>2 DEF RefundRun
<1> QED
  BY <1>1, <1>2

LEMMA OthersFrame ==
  ASSUME Service \/ ArcChain \/ GenLayer
  PROVE  /\ UNCHANGED <<proc, runs, bondPending, bondArtifact, bondConfigured, funding, glArtifact,
                        payment, evidence, disputes, adjudicationVars, settlements, workerVars, recovery>>
         /\ ~Service => UNCHANGED <<providerVars, presented>>
         /\ ~ArcChain => UNCHANGED <<deployTx, fundTx, bondVars, tx>>
         /\ ~GenLayer => UNCHANGED glVars
<1>1. CASE Service
  BY <1>1 DEF Service, ServiceStep, provisioningVars, relayOnly
<1>2. CASE ArcChain
  BY <1>2 DEF ArcChain, MineFunding, MineDeployment, Mine, Drop, provisioningVars, paymentVars, relayOnly
<1>3. CASE GenLayer
  BY <1>3 DEF GenLayer, provisioningVars, paymentVars, relayOnly
<1> QED
  BY <1>1, <1>2, <1>3

-----------------------------------------------------------------------------
(* The relay in the whole. *)

LEMMA RefundRunKeepsRelay ==
  ASSUME LifecycleInv, RefundRun
  PROVE  RelayInv'
<1>0. RelayInv /\ Runner \in Worker /\ DemoBinding \in Binding
  BY RefundAssumption, AdjudicationAssumption DEF LifecycleInv
<1>1. CASE StartRefund \/ ConfirmRefund
  BY <1>0, <1>1, NextRelayInv DEF StartRefund, ConfirmRefund, relayVars
<1>2. CASE CallSettle
  BY <1>0, <1>2, SettleKeeps DEF CallSettle
<1>3. CASE RelayStep
  BY <1>0, <1>3, CreateKeeps, PreflightKeeps, LeavesKeeps, ResolveKeeps, ReceiptKeeps
  DEF RelayStep, WriteRefused
<1>4. CASE SendRefund
  BY <1>0, <1>4, SendKeeps DEF SendRefund
<1>5. CASE RecordRefund
  <2>1. /\ UNCHANGED <<bondVars, disputes, settlements, tx, pc, job>>
        /\ pc[Runner] = "write"
    BY <1>5 DEF RecordRefund, LifecycleInv, RecoveryInv
  <2>2. CASE UNCHANGED goal
    BY <1>0, <2>1, <2>2, NextRelayInv DEF relayVars, workerVars
  <2>3. CASE goal' = [goal EXCEPT ![Runner] = Becomes(@, "failed_before_submission")]
    <3>1. GoesToWrite(Runner, Becomes(goal[Runner], "failed_before_submission"))
      BY <1>0, <2>1, <2>3 DEF GoesToWrite, RelayInv, TypeOK
    <3> QED
      BY <1>0, <2>1, <3>1, BecomesKeeps
  <2> QED
    BY <1>5, <2>2, <2>3 DEF RecordRefund
<1>6. CASE WriteOutcome
  BY <1>0, <1>6, WriteKeeps DEF WriteOutcome
<1>7. CASE StillPending
  BY <1>0, <1>7, LeavesKeeps DEF StillPending, NoReceipt
<1>8. CASE StopsWithRelay
  <2>1. UNCHANGED <<bondVars, disputes, settlements, tx>>
    BY <1>8 DEF StopsWithRelay
  <2>2. CASE UNCHANGED workerVars
    BY <1>0, <2>1, <2>2, NextRelayInv DEF relayVars
  <2>3. CASE Leaves(Runner)
    BY <1>0, <2>1, <2>3, LeavesKeeps
  <2> QED
    BY <1>8, <2>2, <2>3 DEF StopsWithRelay
<1> QED
  BY <1>1, <1>2, <1>3, <1>4, <1>5, <1>6, <1>7, <1>8 DEF RefundRun

\* The scripts before the refund move disputes, and none away from upheld.
LEMMA DisputesKept ==
  ASSUME LifecycleInv, DisputeScript \/ AdjudicationScript
  PROVE  /\ disputes' \in [Dispute -> DisputeStatus \cup {NoRow}]
         /\ \A d \in Dispute : disputes[d] = "upheld" => disputes'[d] = "upheld"
<1>0. /\ disputes \in [Dispute -> DisputeStatus \cup {NoRow}]
      /\ NoRow \notin DisputeStatus /\ DemoDispute \in Dispute
  BY RowAssumption, AdjudicationAssumption, JournalAssumption
  DEF LifecycleInv, RelayInv, TypeOK, JournalTypeOK, DemoDispute
<1>1. CASE UNCHANGED disputes
  BY <1>0, <1>1
<1>2. CASE InsertDispute(DemoDispute)
  BY <1>0, <1>2 DEF InsertDispute, DisputeStatus
<1>3. ASSUME NEW s \in {"adjudicating", "upheld", "rejected"}, UpdateDispute(DemoDispute, s)
      PROVE  /\ disputes' \in [Dispute -> DisputeStatus \cup {NoRow}]
             /\ \A d \in Dispute : disputes[d] = "upheld" => disputes'[d] = "upheld"
  BY <1>0, <1>3 DEF UpdateDispute, DisputeMoves, DisputeStatus
<1>4. CASE DisputeScript
  BY <1>1, <1>2, <1>4 DEF DisputeScript, OpenDispute, PersistDispute
<1>5. CASE AdjudicationScript
  BY <1>1, <1>3, <1>5 DEF AdjudicationScript, SubmitAdjudication, RecordAdjudication, SetAdjudicating,
     ResumeAdjudication, AwaitVerdict, PersistVerdict, FinalizeAdjudication, Target
<1> QED
  BY <1>4, <1>5

\* Deposits are of the bond, refunds are the relay's.
LEMMA ChainMoves ==
  ASSUME ArcChain
  PROVE  \/ \E h \in Hash : Mine(h) \/ Drop(h)
         \/ Deposit(Funder, BondAmount) /\ UNCHANGED <<disputes, settlements, tx, workerVars>>
         \/ UNCHANGED relayVars
BY DEF ArcChain, MineFunding, relayOnly, relayVars

LEMMA RelayKeeps ==
  ASSUME LifecycleInv, LifecycleNext
  PROVE  RelayInv'
<1>0. RelayInv
  BY DEF LifecycleInv
<1>1. CASE UNCHANGED relayVars
  BY <1>0, <1>1, NextRelayInv
<1>2. CASE RefundRun
  BY <1>2, RefundRunKeepsRelay
<1>3. CASE DisputeScript \/ AdjudicationScript
  <2>1. UNCHANGED <<bondVars, settlements, tx, workerVars>>
    BY <1>3, DisputeFrame, AdjFrame DEF relayOnly
  <2> QED
    BY <1>0, <1>3, <2>1, DisputesKept, DisputesMove
<1>4. CASE ArcChain
  <2>1. Funder \in Provider /\ BondAmount \in Nat
    BY ProvisioningAssumption, AmountAssumption
  <2> QED
    BY <1>0, <1>1, <1>4, <2>1, ChainMoves, ChainKeeps, ContractMoves
<1>5. CASE BondScript \/ FundingScript \/ GenLayerScript \/ PaymentScript \/ Service \/ GenLayer
  BY <1>1, <1>5, BondFrame, FundFrame, GlFrame, PayFrame DEF LifecycleInv, relayOnly, relayVars,
     Service, GenLayer
<1> QED
  BY <1>2, <1>3, <1>4, <1>5 DEF LifecycleNext

-----------------------------------------------------------------------------
(* Each stage has its own places in the scripts and its own files. *)

LEMMA ScriptsApart ==
  ASSUME LifecycleInv, LifecycleNext
  PROVE  /\ ~BondScript => Elsewhere(BondLabels)
         /\ ~FundingScript => Elsewhere(FundLabels)
         /\ ~GenLayerScript => Elsewhere({"gl_wait"})
         /\ ~PaymentScript => Elsewhere(PayLabels)
         /\ ~AdjudicationScript => Elsewhere(AdjLabels)
         /\ ~RefundRun => Elsewhere(RefundLabels)
<1>1. /\ BondScript => proc'.at \in BondLabels \cup {"idle"}
      /\ FundingScript => proc'.at \in FundLabels \cup {"idle"}
      /\ GenLayerScript => proc'.at \in {"gl_wait", "idle"}
      /\ PaymentScript => proc'.at \in PayLabels \cup {"idle"}
      /\ DisputeScript => proc'.at \in {"prepare", "idle"}
      /\ AdjudicationScript => proc'.at \in AdjLabels \cup {"idle"}
      /\ RefundRun => proc'.at \in RefundLabels \cup {"idle"}
      /\ Service \/ ArcChain \/ GenLayer => proc' = proc
  BY BondFrame, FundFrame, GlFrame, PayFrame, DisputeFrame, AdjFrame, RefundFrame, OthersFrame
  DEF LifecycleInv
<1>2. \A at : \/ at \in BondLabels /\ at \notin FundLabels \cup PayLabels \cup AdjLabels \cup RefundLabels
              \/ at \in FundLabels /\ at \notin BondLabels \cup PayLabels \cup AdjLabels \cup RefundLabels
              \/ at \in PayLabels /\ at \notin FundLabels \cup BondLabels \cup AdjLabels \cup RefundLabels
              \/ at \in AdjLabels /\ at \notin FundLabels \cup PayLabels \cup BondLabels \cup RefundLabels
              \/ at \in RefundLabels /\ at \notin FundLabels \cup PayLabels \cup AdjLabels \cup BondLabels
              \/ at \notin FundLabels \cup PayLabels \cup AdjLabels \cup BondLabels \cup RefundLabels
  BY DEF BondLabels, FundLabels, PayLabels, AdjLabels, RefundLabels
<1>3. {"idle", "gl_wait", "prepare"} \cap
        (BondLabels \cup FundLabels \cup PayLabels \cup AdjLabels \cup RefundLabels) = {}
  BY DEF BondLabels, FundLabels, PayLabels, AdjLabels, RefundLabels
<1> QED
  BY <1>1, <1>2, <1>3 DEF Elsewhere, LifecycleNext

LEMMA FilesApart ==
  ASSUME LifecycleInv, LifecycleNext
  PROVE  /\ ~BondScript /\ ~ArcChain => UNCHANGED deployVars
         /\ ~FundingScript /\ ~ArcChain => UNCHANGED fundVars
         /\ ~ArcChain => UNCHANGED bondVars
         /\ ~GenLayerScript => UNCHANGED glArtifact
         /\ ~GenLayerScript /\ ~AdjudicationScript /\ ~GenLayer => UNCHANGED glTx
         /\ ~GenLayer => UNCHANGED <<verdicts, writer>>
         /\ ~PaymentScript /\ ~Service => UNCHANGED <<providerVars, paymentVars>>
         /\ ~DisputeScript /\ ~AdjudicationScript =>
              UNCHANGED <<disputes, adjudication, reference>>
         /\ ~RefundRun /\ ~ArcChain => UNCHANGED tx
         /\ ~RefundRun => UNCHANGED <<settlements, workerVars, recovery>>
<1>1. RefundRun => UNCHANGED <<bondVars, disputes>>
  BY DEF RefundRun, StartRefund, CallSettle, RelayStep, SendRefund, RecordRefund, WriteOutcome,
     StillPending, ConfirmRefund, StopsWithRelay, Settle, Create, PreflightFlags, PreflightBalance,
     WriteRefused, ResolveAmbiguous, Receipt, Send, Write, NoReceipt
<1>2. CASE BondScript
  BY <1>2, BondFrame DEF glVars, relayOnly, adjudicationVars
<1>3. CASE FundingScript
  BY <1>3, FundFrame DEF LifecycleInv, glVars, relayOnly, adjudicationVars
<1>4. CASE GenLayerScript
  BY <1>4, GlFrame DEF relayOnly, adjudicationVars
<1>5. CASE PaymentScript
  BY <1>5, PayFrame DEF glVars, relayOnly, adjudicationVars
<1>6. CASE DisputeScript
  BY <1>6, DisputeFrame DEF glVars, relayOnly
<1>7. CASE AdjudicationScript
  BY <1>7, AdjFrame DEF relayOnly
<1>8. CASE RefundRun
  BY <1>1, <1>8, RefundFrame DEF glVars, adjudicationVars
<1>9. CASE Service
  BY <1>9 DEF Service, provisioningVars, deployVars, fundVars, glVars, adjudicationVars, relayOnly
<1>10. CASE ArcChain
  <2>1. UNCHANGED <<glArtifact, settlements, disputes, workerVars>>
    BY <1>10 DEF ArcChain, MineFunding, MineDeployment, Mine, Drop, provisioningVars, relayOnly
  <2> QED
    BY <1>10, <2>1 DEF ArcChain, glVars, adjudicationVars
<1>11. CASE GenLayer
  BY <1>11 DEF GenLayer, provisioningVars, deployVars, fundVars, adjudicationVars, relayOnly
<1> QED
  BY <1>2, <1>3, <1>4, <1>5, <1>6, <1>7, <1>8, <1>9, <1>10, <1>11 DEF LifecycleNext

-----------------------------------------------------------------------------
(* The deployment of the bond contract. *)

LEMMA DeployKeeps ==
  ASSUME LifecycleInv, LifecycleNext
  PROVE  DeployInv'
<1>0. /\ DeployInv /\ NoHash \notin DeployHash
      /\ deployTx \in [DeployHash -> ArcStatus]
      /\ {bondPending, bondArtifact, bondConfigured} \subseteq DeployHash \cup {NoHash}
  BY ProvisioningAssumption DEF LifecycleInv, DeployInv
<1>1. CASE UNCHANGED deployVars /\ Elsewhere(BondLabels)
  BY <1>0, <1>1 DEF DeployInv, deployVars, Elsewhere, BondLabels
<1>2. CASE SendDeployment
  <2>1. /\ UNCHANGED <<bondPending, bondArtifact, bondConfigured>>
        /\ bondConfigured = NoHash /\ bondArtifact = NoHash
    BY <1>2 DEF SendDeployment, NotDeployed
  <2>2. PICK h \in DeployHash : /\ deployTx' = [deployTx EXCEPT ![h] = "mempool"]
                                /\ GoesTo("bond_sent", h) \/ Ends
    BY <1>2 DEF SendDeployment
  <2>3. deployTx' \in [DeployHash -> ArcStatus]
    BY <1>0, <2>2 DEF ArcStatus
  <2> QED
    BY <1>0, <2>1, <2>2, <2>3 DEF DeployInv, GoesTo, Ends, Idle
<1>3. CASE RecordDeployment
  BY <1>0, <1>3 DEF RecordDeployment, DeployInv, GoesTo
<1>4. CASE \E h \in DeployHash : ResumeDeployment(h)
  BY <1>0, <1>4 DEF ResumeDeployment, NotDeployed, DeployInv, GoesTo, provisioningVars
<1>5. CASE FinishDeployment
  BY <1>0, <1>5 DEF FinishDeployment, DeployInv, GoesTo
<1>6. CASE ConfigureBond
  BY <1>0, <1>6 DEF ConfigureBond, DeployInv, Ends, Idle
<1>7. CASE \E h \in DeployHash : MineDeployment(h) /\ UNCHANGED proc
  <2>1. PICK h \in DeployHash, s \in {"mined", "reverted"} :
          deployTx[h] = "mempool" /\ deployTx' = [deployTx EXCEPT ![h] = s]
    BY <1>7 DEF MineDeployment
  <2>2. /\ deployTx' \in [DeployHash -> ArcStatus]
        /\ \A g \in DeployHash : deployTx[g] = "mined" => deployTx'[g] = "mined"
    BY <1>0, <2>1 DEF ArcStatus
  <2> QED
    BY <1>0, <1>7, <2>2 DEF MineDeployment, DeployInv
<1>8. CASE BondScript
  BY <1>2, <1>3, <1>4, <1>5, <1>6, <1>8 DEF BondScript
<1>9. CASE ArcChain
  <2>1. \/ UNCHANGED deployVars
        \/ \E h \in DeployHash : MineDeployment(h)
    BY <1>9 DEF ArcChain, MineFunding, provisioningVars, deployVars
  <2> QED
    BY <1>1, <1>7, <1>9, <2>1 DEF ArcChain, Elsewhere
<1> QED
  BY <1>1, <1>8, <1>9, ScriptsApart, FilesApart

-----------------------------------------------------------------------------
(* GenLayer. *)

\* What is called stays called, and a verdict stays as it was written.
GlForward ==
  /\ \A g \in GlId : glTx[g].call # "none" =>
       glTx'[g].call = glTx[g].call /\ glTx'[g].about = glTx[g].about
  /\ \A d \in Dispute : verdicts[d] # "none" =>
       verdicts'[d] = verdicts[d] /\ writer'[d] = writer[d]

\* What GlInv says of the chain alone.
GlChainInv ==
  /\ GlTypeOK
  /\ \A g \in GlId : glTx[g].call = "adjudicate" => glTx[g].about \in Dispute
  /\ \A g \in GlId : glTx[g].call = "adjudicate" /\ IsSuccessfulFinalization(glTx[g]) =>
       verdicts[glTx[g].about] # "none" /\ writer[glTx[g].about] = g

LEMMA BroadcastKeepsGl ==
  ASSUME GlChainInv, NEW g \in GlId, NEW call \in {"deploy", "adjudicate"},
         NEW about \in Dispute \cup {NoHash}, call = "adjudicate" => about \in Dispute,
         BroadcastsGl(g, call, about), UNCHANGED <<verdicts, writer>>
  PROVE  GlChainInv' /\ GlForward /\ glTx'[g].call = call /\ glTx'[g].about = about
<1> DEFINE new == [NoCall EXCEPT !.call = call, !.about = about, !.state = "active"]
<1>1. /\ new \in Transaction /\ new.call = call /\ new.about = about /\ new.state = "active"
  BY DEF NoCall, Transaction
<1>2. glTx[g].call = "none" /\ glTx' = [glTx EXCEPT ![g] = new]
  BY DEF BroadcastsGl, NoCall
<1> HIDE DEF new
<1>3. glTx'[g] = new /\ \A f \in GlId \ {g} : glTx'[f] = glTx[f]
  BY <1>2 DEF GlChainInv, GlTypeOK
<1>4. GlTypeOK'
  BY <1>1, <1>2 DEF GlChainInv, GlTypeOK
<1> QED
  BY <1>1, <1>2, <1>3, <1>4 DEF GlChainInv, GlForward, IsSuccessfulFinalization

LEMMA SubmitKeepsGl ==
  ASSUME GlChainInv, NEW id, NEW call \in {"deploy", "adjudicate"},
         NEW about \in Dispute \cup {NoHash}, call = "adjudicate" => about \in Dispute,
         SubmitsGl(call, about, id), UNCHANGED <<verdicts, writer>>
  PROVE  /\ GlChainInv' /\ GlForward
         /\ id # NoHash => id \in GlId /\ glTx'[id].call = call /\ glTx'[id].about = about
<1>1. CASE UNCHANGED glTx /\ id = NoHash
  BY <1>1 DEF GlChainInv, GlForward, GlTypeOK
<1>2. ASSUME NEW g \in GlId, BroadcastsGl(g, call, about)
      PROVE  GlChainInv' /\ GlForward /\ glTx'[g].call = call /\ glTx'[g].about = about
  BY <1>2, BroadcastKeepsGl
<1> QED
  BY <1>1, <1>2 DEF SubmitsGl

LEMMA FinalizeKeepsGl ==
  ASSUME GlChainInv, NEW g \in GlId, NEW decision \in {"violated", "kept"},
         Cancel(g) \/ Finalize(g, decision)
  PROVE  GlChainInv' /\ GlForward
<1>1. glTx[g] \in Transaction /\ glTx[g].state = "active"
  BY DEF Cancel, Finalize, NoCall, GlChainInv, GlTypeOK
<1>2. PICK new \in Transaction :
        /\ glTx' = [glTx EXCEPT ![g] = new]
        /\ new.call = glTx[g].call /\ new.about = glTx[g].about
        /\ \/ UNCHANGED <<verdicts, writer>> /\ ~IsSuccessfulFinalization(new)
           \/ UNCHANGED <<verdicts, writer>> /\ new.call = "deploy"
           \/ /\ new.call = "adjudicate" /\ verdicts[new.about] = "none"
              /\ verdicts' = [verdicts EXCEPT ![new.about] = decision]
              /\ writer' = [writer EXCEPT ![new.about] = g]
  <2>1. CASE Cancel(g)
    <3> DEFINE new == [glTx[g] EXCEPT !.state = "canceled"]
    <3>1. new \in Transaction /\ new.call = glTx[g].call /\ new.about = glTx[g].about
          /\ ~IsSuccessfulFinalization(new)
      BY <1>1 DEF Transaction, IsSuccessfulFinalization
    <3>2. glTx' = [glTx EXCEPT ![g] = new] /\ UNCHANGED <<verdicts, writer>>
      BY <2>1 DEF Cancel
    <3> HIDE DEF new
    <3> QED
      BY <3>1, <3>2
  <2>2. CASE Finalize(g, decision)
    <3> DEFINE new(o, e, l) == [glTx[g] EXCEPT !.state = "finalized", !.outcome = o,
                                               !.execution = e, !.leader = l]
    <3>1. ASSUME NEW o \in {"accepted", "undetermined"},
                 NEW e \in {"none", "FINISHED_WITH_RETURN", "FINISHED_WITH_ERROR"},
                 NEW l \in BOOLEAN
          PROVE  /\ new(o, e, l) \in Transaction
                 /\ new(o, e, l).call = glTx[g].call /\ new(o, e, l).about = glTx[g].about
                 /\ o = "undetermined" \/ (e # "FINISHED_WITH_RETURN" /\ ~l) =>
                      ~IsSuccessfulFinalization(new(o, e, l))
      BY <1>1 DEF Transaction, IsSuccessfulFinalization
    <3>2. PICK o \in {"accepted", "undetermined"},
               e \in {"none", "FINISHED_WITH_RETURN", "FINISHED_WITH_ERROR"},
               l \in BOOLEAN :
            /\ glTx' = [glTx EXCEPT ![g] = new(o, e, l)]
            /\ \/ UNCHANGED <<verdicts, writer>> /\ ~l /\ e # "FINISHED_WITH_RETURN"
               \/ UNCHANGED <<verdicts, writer>> /\ glTx[g].call = "deploy"
               \/ /\ glTx[g].call = "adjudicate" /\ verdicts[glTx[g].about] = "none"
                  /\ verdicts' = [verdicts EXCEPT ![glTx[g].about] = decision]
                  /\ writer' = [writer EXCEPT ![glTx[g].about] = g]
      <4> DEFINE ends(o, e, l) ==
            glTx' = [glTx EXCEPT ![g].state = "finalized", ![g].outcome = o,
                                 ![g].execution = e, ![g].leader = l]
      <4>1. ASSUME NEW o, NEW e, NEW l, ends(o, e, l)
            PROVE  glTx' = [glTx EXCEPT ![g] = new(o, e, l)]
        BY <4>1 DEF GlChainInv, GlTypeOK
      <4>2. \/ /\ glTx[g].call = "deploy" /\ UNCHANGED <<verdicts, writer>>
               /\ ends("accepted", "FINISHED_WITH_RETURN", TRUE) \/ ends("accepted", "none", TRUE)
            \/ /\ glTx[g].call = "adjudicate" /\ verdicts[glTx[g].about] = "none"
               /\ verdicts' = [verdicts EXCEPT ![glTx[g].about] = decision]
               /\ writer' = [writer EXCEPT ![glTx[g].about] = g]
               /\ ends("accepted", "FINISHED_WITH_RETURN", TRUE) \/ ends("accepted", "none", TRUE)
            \/ ends("accepted", "FINISHED_WITH_ERROR", FALSE) /\ UNCHANGED <<verdicts, writer>>
            \/ ends("undetermined", "none", FALSE) /\ UNCHANGED <<verdicts, writer>>
        BY <2>2 DEF Finalize, Adjudicates
      <4> HIDE DEF ends, new
      <4>3. /\ ends("accepted", "FINISHED_WITH_RETURN", TRUE) =>
                 glTx' = [glTx EXCEPT ![g] = new("accepted", "FINISHED_WITH_RETURN", TRUE)]
            /\ ends("accepted", "none", TRUE) =>
                 glTx' = [glTx EXCEPT ![g] = new("accepted", "none", TRUE)]
            /\ ends("accepted", "FINISHED_WITH_ERROR", FALSE) =>
                 glTx' = [glTx EXCEPT ![g] = new("accepted", "FINISHED_WITH_ERROR", FALSE)]
            /\ ends("undetermined", "none", FALSE) =>
                 glTx' = [glTx EXCEPT ![g] = new("undetermined", "none", FALSE)]
        BY <4>1, Zenon
      <4> QED
        BY <4>2, <4>3
    <3> HIDE DEF new
    <3>3. /\ new(o, e, l) \in Transaction
          /\ new(o, e, l).call = glTx[g].call /\ new(o, e, l).about = glTx[g].about
          /\ e # "FINISHED_WITH_RETURN" /\ ~l => ~IsSuccessfulFinalization(new(o, e, l))
      BY <3>1
    <3> DEFINE next == new(o, e, l)
    <3> HIDE DEF next
    <3>4. /\ next \in Transaction /\ next.call = glTx[g].call /\ next.about = glTx[g].about
          /\ e # "FINISHED_WITH_RETURN" /\ ~l => ~IsSuccessfulFinalization(next)
          /\ glTx' = [glTx EXCEPT ![g] = next]
      BY <3>2, <3>3, Zenon DEF next
    <3> QED
      BY <3>2, <3>4
  <2> QED
    BY <2>1, <2>2
<1>3. glTx'[g] = new /\ \A f \in GlId \ {g} : glTx'[f] = glTx[f]
  BY <1>2 DEF GlChainInv, GlTypeOK
<1>4. GlTypeOK'
  <2>1. glTx' \in [GlId -> Transaction \cup {NoCall}]
    BY <1>2 DEF GlChainInv, GlTypeOK
  <2>2. /\ verdicts' \in [Dispute -> {"none", "violated", "kept"}]
        /\ writer' \in [Dispute -> GlId \cup {NoHash}]
    BY <1>2 DEF GlChainInv, GlTypeOK
  <2> QED
    BY <2>1, <2>2 DEF GlTypeOK
<1>5. GlForward
  BY <1>2, <1>3 DEF GlForward, GlChainInv, GlTypeOK
<1>6. \A f \in GlId : glTx'[f].call = "adjudicate" => glTx'[f].about \in Dispute
  BY <1>2, <1>3 DEF GlChainInv
<1>7. ASSUME NEW f \in GlId, glTx'[f].call = "adjudicate", IsSuccessfulFinalization(glTx'[f])
      PROVE  verdicts'[glTx'[f].about] # "none" /\ writer'[glTx'[f].about] = f
  <2>1. CASE f = g
    <3>1. new.about \in Dispute
      BY <1>3, <1>6, <1>7, <2>1
    <3> QED
      BY <1>2, <1>3, <1>7, <2>1, <3>1 DEF GlChainInv, GlTypeOK
  <2>2. CASE f # g
    <3>1. /\ glTx'[f] = glTx[f] /\ glTx[f].about \in Dispute
          /\ verdicts[glTx[f].about] # "none" /\ writer[glTx[f].about] = f
      BY <1>3, <1>7, <2>2 DEF GlChainInv
    <3> QED
      BY <3>1, <1>5 DEF GlForward
  <2> QED
    BY <2>1, <2>2
<1> QED
  BY <1>4, <1>5, <1>6, <1>7 DEF GlChainInv, IsSuccessfulFinalization

LEMMA GlKeeps ==
  ASSUME LifecycleInv, LifecycleNext
  PROVE  GlInv' /\ GlForward
<1>0. /\ GlChainInv /\ NoHash \notin GlId /\ DemoDispute \in Dispute
      /\ glArtifact \in GlId \cup {NoHash}
      /\ proc.at = "gl_wait" => proc.held \in GlId
  BY GlAssumption, AdjudicationAssumption, JournalAssumption
  DEF LifecycleInv, GlInv, GlChainInv, DemoDispute
<1>1. GlChainInv' /\ GlForward
  <2>1. CASE UNCHANGED glVars
    BY <1>0, <2>1 DEF GlChainInv, GlForward, GlTypeOK, glVars
  <2>2. CASE GenLayer
    BY <1>0, <2>2, FinalizeKeepsGl DEF GenLayer
  <2>3. ASSUME NEW id, SubmitsGl("deploy", NoHash, id) \/ SubmitsGl("adjudicate", DemoDispute, id),
               UNCHANGED <<verdicts, writer>>
        PROVE  GlChainInv' /\ GlForward
    BY <1>0, <2>3, SubmitKeepsGl
  <2>4. CASE GenLayerScript
    BY <2>1, <2>3, <2>4 DEF GenLayerScript, SubmitDeployment, FinishGlDeployment,
                            ResumeGlDeployment, glVars
  <2>5. CASE AdjudicationScript
    BY <2>1, <2>3, <2>5 DEF AdjudicationScript, SubmitAdjudication, RecordAdjudication,
       SetAdjudicating, ResumeAdjudication, AwaitVerdict, PersistVerdict, FinalizeAdjudication, glVars
  <2> QED
    BY <2>1, <2>2, <2>4, <2>5, FilesApart DEF glVars
<1>2. /\ glArtifact' \in GlId \cup {NoHash}
      /\ proc'.at = "gl_wait" => proc'.held \in GlId
  <2>1. CASE ~GenLayerScript
    BY <1>0, <2>1, ScriptsApart, FilesApart DEF Elsewhere
  <2>2. ASSUME NEW id, SubmitsGl("deploy", NoHash, id), id # NoHash,
               GoesTo("gl_wait", id), UNCHANGED glArtifact
        PROVE  /\ glArtifact' \in GlId \cup {NoHash}
               /\ proc'.at = "gl_wait" => proc'.held \in GlId
    BY <1>0, <2>2 DEF SubmitsGl, GoesTo
  <2>3. CASE GenLayerScript
    BY <1>0, <2>2, <2>3 DEF GenLayerScript, SubmitDeployment, FinishGlDeployment,
       ResumeGlDeployment, GoesTo, Ends, Idle, provisioningVars
  <2> QED
    BY <2>1, <2>3
<1> QED
  BY <1>1, <1>2 DEF GlChainInv, GlInv

-----------------------------------------------------------------------------
(* The seller and its buyer. *)

MinedIsUsed == \A h \in SettleHash : settleTx[h].status = "mined" => settleTx[h].auth \in usedAuth

LEMMA SettlementsForward ==
  ASSUME ProviderInv, MinedIsUsed, ProviderNext \/ UNCHANGED providerVars
  PROVE  SettlementsStay /\ MinedIsUsed' /\ usedAuth \subseteq usedAuth'
<1>0. settleTx \in [SettleHash ->
        [auth : Auth \cup {Unset}, status : {"unused", "mempool", "mined", "reverted"}]]
  BY DEF ProviderInv, ProviderTypeOK
<1>1. CASE UNCHANGED settleTx /\ UNCHANGED usedAuth
  BY <1>1 DEF SettlementsStay, MinedIsUsed
<1>2. ASSUME NEW t \in Thread, NEW h \in SettleHash, settleTx[h] = NoSettleTx, UNCHANGED usedAuth,
             settleTx' = [settleTx EXCEPT ![h] = [auth |-> thread[t].auth, status |-> "mempool"]]
      PROVE  SettlementsStay /\ MinedIsUsed' /\ usedAuth \subseteq usedAuth'
  <2>1. /\ settleTx[h].auth \notin Auth /\ settleTx[h].status = "unused"
        /\ settleTx'[h].status = "mempool"
        /\ \A g \in SettleHash \ {h} : settleTx'[g] = settleTx[g]
    BY <1>0, <1>2, ProviderAssumption DEF NoSettleTx
  <2> QED
    BY <1>2, <2>1 DEF SettlementsStay, MinedIsUsed
<1>3. ASSUME NEW h \in SettleHash, MineSettlement(h)
      PROVE  SettlementsStay /\ MinedIsUsed' /\ usedAuth \subseteq usedAuth'
  <2>1. /\ settleTx[h].status = "mempool" /\ settleTx'[h].auth = settleTx[h].auth
        /\ settleTx'[h].status = "mined" => settleTx[h].auth \in usedAuth'
        /\ usedAuth \subseteq usedAuth'
        /\ \A g \in SettleHash \ {h} : settleTx'[g] = settleTx[g]
    BY <1>0, <1>3 DEF MineSettlement
  <2> QED
    BY <2>1 DEF SettlementsStay, MinedIsUsed
<1>4. CASE \E t \in Thread : SubmitSettlement(t)
  BY <1>1, <1>2, <1>4 DEF SubmitSettlement
<1>5. CASE \/ \E t \in Thread, b \in Auth : Request(t, b)
           \/ \E t \in Thread : \/ TakeLock(t) \/ PutAmbiguous(t) \/ PutPending(t)
                                \/ TakeReceipt(t) \/ Hangup(t)
           \/ CrashProvider
           \/ \E b \in Auth : Expire(b)
           \/ UNCHANGED providerVars
  <2>1. UNCHANGED settleTx /\ UNCHANGED usedAuth
    BY <1>5 DEF Request, TakeLock, PutAmbiguous, PutPending, TakeReceipt, Hangup, CrashProvider,
                Expire, providerVars
  <2> QED
    BY <1>1, <2>1
<1> QED
  BY <1>3, <1>4, <1>5 DEF ProviderNext, ProviderStep

\* A thread keeps the authorization of its request.
LEMMA ThreadsServeDemo ==
  ASSUME ProviderInv, NEW u \in Thread, thread[u].auth \in {DemoAuth, Unset},
         \/ \E t \in Thread : Request(t, DemoAuth)
         \/ ProviderStep
         \/ UNCHANGED providerVars
  PROVE  thread'[u].auth \in {DemoAuth, Unset}
<1>0. thread \in [Thread -> ThreadState]
  BY DEF ProviderInv, ProviderTypeOK, ThreadState
<1>1. ASSUME NEW t \in Thread, NEW at, NEW h, Proceeds(t, at, h)
      PROVE  thread'[u].auth = thread[u].auth
  BY <1>0, <1>1 DEF Proceeds, ThreadState
<1>2. ASSUME NEW t \in Thread, NEW code, NEW h, Answers(t, code, h)
      PROVE  thread'[u].auth = thread[u].auth
  BY <1>0, <1>2 DEF Answers, ThreadState
<1>3. ASSUME NEW t \in Thread, Request(t, DemoAuth)
      PROVE  thread'[u].auth \in {thread[u].auth, DemoAuth}
  BY <1>0, <1>3 DEF Request
<1>4. CASE \E t \in Thread : TakeLock(t) \/ SubmitSettlement(t) \/ PutAmbiguous(t) \/ PutPending(t)
                              \/ TakeReceipt(t)
  BY <1>1, <1>2, <1>4 DEF TakeLock, Branch, SubmitSettlement, PutAmbiguous, PutPending, TakeReceipt
<1>5. CASE (\E t \in Thread : Hangup(t)) \/ CrashProvider
  BY <1>0, <1>5 DEF Hangup, CrashProvider, Free
<1>6. CASE \/ \E a \in Auth : Expire(a)
           \/ \E h \in SettleHash : MineSettlement(h)
           \/ UNCHANGED providerVars
  <2>1. UNCHANGED thread
    BY <1>6 DEF Expire, MineSettlement, providerVars
  <2> QED
    BY <2>1
<1> QED
  BY <1>3, <1>4, <1>5, <1>6 DEF ProviderStep

\* The whole moves the seller as its own specification does, for the demo's
\* authorization alone.
LEMMA SellerSteps ==
  ASSUME LifecycleInv, LifecycleNext
  PROVE  \/ \E t \in Thread : Request(t, DemoAuth)
         \/ ProviderStep
         \/ UNCHANGED providerVars
<1>1. CASE PaymentScript
  <2>1. CASE TakeAnswer
    <3>1. proc.held \in Thread
      BY <2>1 DEF TakeAnswer, LifecycleInv, PayInv
    <3> QED
      BY <2>1, <3>1 DEF TakeAnswer, ProviderStep
  <2>2. CASE \E t \in Thread : SendPaid(t)
    BY <2>2 DEF SendPaid, Presents
  <2>3. CASE \/ StartPayment \/ MissAnswer \/ NoteEvent \/ StoreEvidence
             \/ ResumePayment \/ FinalizePayment
    BY <2>3 DEF StartPayment, MissAnswer, NoteEvent, StoreEvidence, ResumePayment, FinalizePayment
  <2> QED
    BY <1>1, <2>1, <2>2, <2>3 DEF PaymentScript
<1>2. CASE Service
  BY <1>2 DEF Service, ServiceStep, Presents, ProviderStep
<1> QED
  BY <1>1, <1>2, FilesApart

LEMMA SellerKeeps ==
  ASSUME LifecycleInv, LifecycleNext
  PROVE  /\ SellerInv' /\ SettlementsStay /\ usedAuth \subseteq usedAuth'
         /\ [ProviderNext]_providerVars
<1>1. ProviderNext \/ UNCHANGED providerVars
  BY SellerSteps, PaymentAssumption DEF ProviderNext
<1>2. ProviderInv /\ MinedIsUsed /\ \A t \in Thread : thread[t].auth \in {DemoAuth, Unset}
  BY DEF LifecycleInv, SellerInv, MinedIsUsed
<1>3. ProviderInv'
  BY <1>1, <1>2, NextProviderInv
<1>4. SettlementsStay /\ MinedIsUsed' /\ usedAuth \subseteq usedAuth'
  BY <1>1, <1>2, SettlementsForward
<1>5. \A t \in Thread : thread'[t].auth \in {DemoAuth, Unset}
  BY <1>2, SellerSteps, ThreadsServeDemo
<1> QED
  BY <1>1, <1>3, <1>4, <1>5 DEF SellerInv, MinedIsUsed

-----------------------------------------------------------------------------
(* The funding of the bond. *)

FundTx == [kind : {"approve", "deposit"}, status : ArcStatus \ {"unused"}]

\* What FundInv says of the provider's transactions.
FundChainInv ==
  /\ fundTx \in Seq(FundTx)
  /\ Len(fundTx) <= MaxFunding
  /\ \A i, j \in DOMAIN fundTx : i < j /\ fundTx[j].kind = "approve" => fundTx[i].kind = "approve"
  /\ deposited[Funder] = IF DepositMined THEN BondAmount ELSE 0

\* What it says of the script and its artifact.
FundFileInv ==
  /\ funding \in FundingArtifact \cup {NoRow}
  /\ funding # NoRow /\ funding.status = "confirmed" => DepositMined
  /\ (\E i \in DOMAIN fundTx : fundTx[i].kind = "deposit") => funding # NoRow
  /\ proc.at \in FundLabels => proc.held \in FundingArtifact
  /\ proc.at \in {"fund_approve", "fund_approved"} =>
       funding = NoRow /\ proc.held.status = "approve_submitted"
  /\ proc.at \in FundLabels \ {"fund_approve", "fund_approved"} => funding # NoRow
  /\ proc.at = "fund_deposited" => proc.held.status = "deposit_submitted"

LEMMA FundInvParts == FundInv <=> FundChainInv /\ FundFileInv
BY DEF FundInv, FundChainInv, FundFileInv, FundTx

LEMMA Appended ==
  ASSUME FundChainInv, NEW kind \in {"approve", "deposit"}, Sends(kind)
  PROVE  /\ fundTx' \in Seq(FundTx) /\ Len(fundTx') = Len(fundTx) + 1 /\ Len(fundTx') <= MaxFunding
         /\ fundTx'[Len(fundTx) + 1] = [kind |-> kind, status |-> "mempool"]
         /\ \A i \in DOMAIN fundTx : fundTx'[i] = fundTx[i]
         /\ DOMAIN fundTx' = DOMAIN fundTx \cup {Len(fundTx) + 1}
         /\ \A i \in DOMAIN fundTx : i \in 1..Len(fundTx)
<1> DEFINE new == [kind |-> kind, status |-> "mempool"]
<1>1. new \in FundTx
  BY DEF FundTx, ArcStatus
<1>2. fundTx \in Seq(FundTx) /\ fundTx' = Append(fundTx, new) /\ Len(fundTx) < MaxFunding
      /\ MaxFunding \in Nat
  BY ProvisioningAssumption DEF FundChainInv, Sends
<1> HIDE DEF new
<1>3. fundTx' \in Seq(FundTx) /\ Len(fundTx') = Len(fundTx) + 1
  BY <1>1, <1>2
<1>4. /\ fundTx'[Len(fundTx) + 1] = new
      /\ \A i \in 1..Len(fundTx) : fundTx'[i] = fundTx[i]
      /\ DOMAIN fundTx = 1..Len(fundTx) /\ DOMAIN fundTx' = 1..(Len(fundTx) + 1)
      /\ Len(fundTx) \in Nat
  BY <1>1, <1>2
<1> QED
  BY <1>2, <1>3, <1>4 DEF new

LEMMA SendsKeeps ==
  ASSUME FundChainInv, NEW kind \in {"approve", "deposit"}, Sends(kind), UNCHANGED deposited,
         kind = "approve" => \A i \in DOMAIN fundTx : fundTx[i].kind = "approve"
  PROVE  FundChainInv' /\ (DepositMined' <=> DepositMined)
<1>1. DepositMined' <=> DepositMined
  BY Appended DEF DepositMined
<1>2. ASSUME NEW i \in DOMAIN fundTx', NEW j \in DOMAIN fundTx', i < j, fundTx'[j].kind = "approve"
      PROVE  fundTx'[i].kind = "approve"
  <2>1. i \in DOMAIN fundTx
    BY <1>2, Appended DEF FundChainInv
  <2>2. fundTx'[i] = fundTx[i]
    BY <2>1, Appended
  <2>3. CASE j \in DOMAIN fundTx
    BY <1>2, <2>1, <2>2, <2>3, Appended DEF FundChainInv
  <2>4. CASE j = Len(fundTx) + 1
    BY <1>2, <2>1, <2>2, <2>4, Appended
  <2> QED
    BY <2>3, <2>4, Appended
<1> QED
  BY <1>1, <1>2, Appended DEF FundChainInv

LEMMA SettledSize ==
  ASSUME FundChainInv
  PROVE  Cardinality(Settled) \in 0..MaxFunding
<1>1. Settled \subseteq 1..Len(fundTx) /\ Len(fundTx) \in Nat /\ Len(fundTx) <= MaxFunding
  BY DEF FundChainInv, Settled
<1>2. IsFiniteSet(1..Len(fundTx)) /\ Cardinality(1..Len(fundTx)) = Len(fundTx)
  <2>1. \A n \in Nat : IsFiniteSet(1..n) /\ Cardinality(1..n) = n
    BY FS_Interval
  <2> QED
    BY <1>1, <2>1
<1>3. Cardinality(Settled) <= Cardinality(1..Len(fundTx)) /\ Cardinality(Settled) \in Nat
  BY <1>1, <1>2, FS_Subset, FS_CardinalityType
<1> QED
  BY <1>1, <1>2, <1>3, ProvisioningAssumption

\* A funding transaction ends as s, and deposits once.
LEMMA EndsKeeps ==
  ASSUME FundChainInv, NEW i \in DOMAIN fundTx, NEW s \in {"mined", "reverted"},
         fundTx[i].status = "mempool",
         fundTx' = [fundTx EXCEPT ![i].status = s],
         IF s = "mined" /\ fundTx[i].kind = "deposit"
           THEN ~DepositMined /\ deposited'[Funder] = deposited[Funder] + BondAmount
           ELSE deposited'[Funder] = deposited[Funder]
  PROVE  FundChainInv' /\ (DepositMined => DepositMined')
         /\ \A j \in DOMAIN fundTx' : j \in DOMAIN fundTx /\ fundTx'[j].kind = fundTx[j].kind
<1> DEFINE new == [fundTx[i] EXCEPT !.status = s]
<1>0. /\ fundTx \in Seq(FundTx) /\ Len(fundTx) \in Nat /\ DOMAIN fundTx = 1..Len(fundTx)
      /\ fundTx[i] \in FundTx
  BY DEF FundChainInv
<1>1. /\ new \in FundTx /\ new.kind = fundTx[i].kind /\ new.status = s
      /\ fundTx' = [fundTx EXCEPT ![i] = new]
  BY <1>0 DEF FundTx, ArcStatus
<1> HIDE DEF new
<1>2. /\ fundTx' \in Seq(FundTx) /\ Len(fundTx') = Len(fundTx) /\ DOMAIN fundTx' = DOMAIN fundTx
      /\ fundTx'[i] = new /\ \A j \in DOMAIN fundTx \ {i} : fundTx'[j] = fundTx[j]
  BY <1>0, <1>1
<1>3. \A j \in DOMAIN fundTx : fundTx'[j].kind = fundTx[j].kind
  BY <1>1, <1>2
<1>4. /\ s = "mined" /\ fundTx[i].kind = "deposit" => DepositMined'
      /\ ~(s = "mined" /\ fundTx[i].kind = "deposit") => (DepositMined' <=> DepositMined)
      /\ DepositMined => DepositMined'
  BY <1>1, <1>2 DEF DepositMined
<1>5. BondAmount \in Nat
  BY ProvisioningAssumption, AmountAssumption
<1>6. deposited'[Funder] = IF DepositMined' THEN BondAmount ELSE 0
  BY <1>4, <1>5 DEF FundChainInv
<1> QED
  BY <1>2, <1>3, <1>4, <1>6 DEF FundChainInv

LEMMA MineKeepsFunding ==
  ASSUME LifecycleInv, MineFunding
  PROVE  FundChainInv' /\ (DepositMined => DepositMined')
         /\ \A j \in DOMAIN fundTx' : j \in DOMAIN fundTx /\ fundTx'[j].kind = fundTx[j].kind
<1>0. /\ FundChainInv /\ BondAmount \in Nat /\ BondAmount > 0 /\ Funder \in Provider
      /\ deposited \in [Provider -> Nat]
  BY FundInvParts, ProvisioningAssumption, AmountAssumption
  DEF LifecycleInv, RelayInv, BondInv, BondTypeOK
<1>1. PICK i \in DOMAIN fundTx, s \in {"mined", "reverted"} :
        /\ fundTx[i].status = "mempool"
        /\ fundTx' = [fundTx EXCEPT ![i].status = s]
        /\ \/ fundTx[i].kind = "approve" /\ UNCHANGED deposited
           \/ /\ s = "mined" /\ fundTx[i].kind = "deposit" /\ Allowance >= BondAmount
              /\ deposited' = [deposited EXCEPT ![Funder] = @ + BondAmount]
           \/ s = "reverted" /\ UNCHANGED deposited
  BY DEF MineFunding, Deposit, bondVars
<1>2. Allowance >= BondAmount => ~DepositMined
  <2> SUFFICES ASSUME Allowance >= BondAmount,
                      NEW j \in DOMAIN fundTx, fundTx[j].kind = "deposit", fundTx[j].status = "mined"
               PROVE  FALSE
    BY DEF DepositMined
  <2>1. PICK k \in DOMAIN fundTx : fundTx[k].kind = "approve" /\ j <= k
    BY <1>0 DEF Allowance
  <2>2. j \in Nat /\ k \in Nat
    BY <1>0, <2>1 DEF FundChainInv
  <2> QED
    BY <1>0, <2>1, <2>2 DEF FundChainInv
<1> QED
  BY <1>0, <1>1, <1>2, EndsKeeps

\* The bond that ConfirmDeposit finds was deposited.
LEMMA BondSeenIsDeposited ==
  ASSUME LifecycleInv, providerBondBalance[Funder] >= BondAmount
  PROVE  DepositMined
<1>1. /\ Funder \in Provider /\ BondAmount \in Nat /\ BondAmount > 0
      /\ providerBondBalance[Funder] \in Nat
      /\ TotalOf(RefundsOf(Funder), AmountsOf(refunds)) \in Nat
  <2>1. TotalOf(RefundsOf(Funder), AmountsOf(refunds)) \in Nat
    BY FS_Subset, UnitsFinite DEF LifecycleInv, RelayInv, BondInv, RefundsOf, TotalOf
  <2> QED
    BY <2>1, ProvisioningAssumption, AmountAssumption
    DEF LifecycleInv, RelayInv, BondInv, BondTypeOK
<1>2. deposited[Funder] = providerBondBalance[Funder]
                            + TotalOf(RefundsOf(Funder), AmountsOf(refunds))
  BY <1>1 DEF LifecycleInv, RelayInv, BondInv, Conserved
<1>3. deposited[Funder] > 0
  BY <1>1, <1>2
<1> QED
  BY <1>3, FundInvParts DEF LifecycleInv, FundChainInv

LEMMA FundScriptKeeps ==
  ASSUME LifecycleInv, FundingScript
  PROVE  FundChainInv' /\ FundFileInv'
<1>0. /\ FundChainInv /\ FundFileInv /\ NoRow \notin FundingArtifact
      /\ fundTx \in Seq(FundTx)
  BY FundInvParts, FundingAssumption DEF LifecycleInv, FundChainInv
<1>1. UNCHANGED deposited
  BY DEF FundingScript, bondVars
<1>2. ASSUME UNCHANGED fundTx PROVE FundChainInv' /\ (DepositMined' <=> DepositMined)
  BY <1>0, <1>1, <1>2 DEF FundChainInv, DepositMined
<1>3. CASE StartFunding
  <2> DEFINE new == [status |-> "approve_submitted", approve |-> 0, deposit |-> 0,
                     mined |-> Cardinality(Settled), bond |-> providerBondBalance[Funder]]
  <2>1. 0 \in 0..MaxFunding /\ providerBondBalance[Funder] \in 0..MaxAmount
    BY ProvisioningAssumption DEF LifecycleInv, RelayInv, BondInv, BondTypeOK
  <2>2. new \in FundingArtifact /\ new.status = "approve_submitted"
    BY <1>0, <2>1, SettledSize DEF FundingArtifact
  <2>3. UNCHANGED fundVars /\ proc' = [at |-> "fund_approve", held |-> new] /\ funding = NoRow
    BY <1>3 DEF StartFunding, provisioningVars, fundVars, GoesTo
  <2> HIDE DEF new
  <2> QED
    BY <1>0, <1>2, <2>2, <2>3 DEF FundFileInv, fundVars
<1>4. CASE ResumeFunding
  <2>1. /\ UNCHANGED fundVars /\ funding # NoRow /\ funding \in FundingArtifact
        /\ proc' = [at |-> ResumeAt[funding.status], held |-> funding]
    BY <1>0, <1>4 DEF ResumeFunding, provisioningVars, fundVars, GoesTo, FundFileInv
  <2>2. ResumeAt[funding.status] \notin {"fund_approve", "fund_approved", "fund_deposited"}
    BY <1>4, <2>1 DEF ResumeFunding, ResumeAt, FundingArtifact
  <2> QED
    BY <1>0, <1>2, <2>1, <2>2 DEF FundFileInv, fundVars
<1>5. CASE SendApprove
  <2>1. /\ funding = NoRow /\ UNCHANGED funding /\ Sends("approve")
        /\ proc.held \in FundingArtifact /\ proc.held.status = "approve_submitted"
        /\ \A i \in DOMAIN fundTx : fundTx[i].kind = "approve"
    <3>1. /\ funding = NoRow /\ UNCHANGED funding /\ Sends("approve")
          /\ proc.held \in FundingArtifact /\ proc.held.status = "approve_submitted"
      BY <1>0, <1>5 DEF SendApprove, FundFileInv, FundLabels
    <3>2. \A i \in DOMAIN fundTx : fundTx[i] \in FundTx
      BY <1>0
    <3> QED
      BY <1>0, <3>1, <3>2 DEF FundFileInv, FundTx
  <2>2. FundChainInv' /\ (DepositMined' <=> DepositMined)
    BY <1>0, <1>1, <2>1, SendsKeeps
  <2>3. \A i \in DOMAIN fundTx' : fundTx'[i].kind = "approve"
    BY <1>0, <2>1, Appended
  <2>4. Len(fundTx) + 1 \in 0..MaxFunding
    BY <1>0, <2>1, ProvisioningAssumption DEF Sends
  <2>5. CASE Ends
    BY <2>1, <2>2, <2>3, <2>5 DEF Ends, Idle, FundFileInv, FundLabels
  <2>6. CASE GoesTo("fund_approved", [proc.held EXCEPT !.approve = Len(fundTx) + 1])
    <3> DEFINE new == [proc.held EXCEPT !.approve = Len(fundTx) + 1]
    <3>1. new \in FundingArtifact /\ new.status = "approve_submitted"
      BY <2>1, <2>4 DEF FundingArtifact
    <3> HIDE DEF new
    <3>2. proc' = [at |-> "fund_approved", held |-> new]
      BY <2>6 DEF GoesTo, new
    <3> QED
      BY <2>1, <2>2, <2>3, <3>1, <3>2 DEF FundFileInv, FundLabels
  <2> QED
    BY <1>5, <2>2, <2>5, <2>6 DEF SendApprove
<1>6. CASE SendDeposit
  <2>1. /\ funding # NoRow /\ UNCHANGED funding /\ Sends("deposit")
        /\ proc.held \in FundingArtifact
    BY <1>0, <1>6 DEF SendDeposit, FundFileInv, FundLabels
  <2>2. FundChainInv' /\ (DepositMined' <=> DepositMined)
    BY <1>0, <1>1, <2>1, SendsKeeps
  <2>4. Len(fundTx) + 1 \in 0..MaxFunding
    BY <1>0, <2>1, ProvisioningAssumption DEF Sends
  <2>5. CASE Ends
    BY <1>0, <2>1, <2>2, <2>5 DEF Ends, Idle, FundFileInv, FundLabels
  <2>6. CASE GoesTo("fund_deposited", [proc.held EXCEPT !.deposit = Len(fundTx) + 1,
                                                        !.status = "deposit_submitted"])
    <3> DEFINE new == [proc.held EXCEPT !.deposit = Len(fundTx) + 1, !.status = "deposit_submitted"]
    <3>1. new \in FundingArtifact /\ new.status = "deposit_submitted"
      BY <2>1, <2>4 DEF FundingArtifact
    <3> HIDE DEF new
    <3>2. proc' = [at |-> "fund_deposited", held |-> new]
      BY <2>6 DEF GoesTo, new
    <3> QED
      BY <1>0, <2>1, <2>2, <3>1, <3>2 DEF FundFileInv, FundLabels
  <2> QED
    BY <1>6, <2>2, <2>5, <2>6 DEF SendDeposit
<1>7. CASE RecordFunding
  <2>1. /\ UNCHANGED fundTx /\ funding' = proc.held /\ proc.held \in FundingArtifact
        /\ proc.held.status \in {"approve_submitted", "deposit_submitted"}
        /\ proc' = [at |-> ResumeAt[proc.held.status], held |-> proc.held]
    BY <1>0, <1>7 DEF RecordFunding, GoesTo, FundFileInv, FundLabels
  <2>2. ResumeAt[proc.held.status] \in {"fund_approving", "fund_depositing"}
    BY <2>1 DEF ResumeAt
  <2> QED
    BY <1>0, <1>2, <2>1, <2>2 DEF FundFileInv
<1>8. CASE ConfirmApprove
  <2> DEFINE new == [proc.held EXCEPT !.status = "approve_confirmed"]
  <2>1. proc.held \in FundingArtifact
    BY <1>0, <1>8 DEF ConfirmApprove, FundFileInv, FundLabels
  <2>2. new \in FundingArtifact /\ new.status = "approve_confirmed"
    BY <2>1 DEF FundingArtifact
  <2>3. UNCHANGED fundTx /\ funding' = new /\ proc' = [at |-> "fund_deposit", held |-> new]
    BY <1>8 DEF ConfirmApprove, GoesTo
  <2> HIDE DEF new
  <2> QED
    BY <1>0, <1>2, <2>2, <2>3 DEF FundFileInv
<1>9. CASE ConfirmDeposit
  <2> DEFINE new == [proc.held EXCEPT !.status = "confirmed"]
  <2>1. proc.held \in FundingArtifact
    BY <1>0, <1>9 DEF ConfirmDeposit, FundFileInv, FundLabels
  <2>2. new \in FundingArtifact
    BY <2>1 DEF FundingArtifact
  <2>3. UNCHANGED fundTx /\ funding' = new /\ proc'.at = "idle"
        /\ providerBondBalance[Funder] = proc.held.bond + BondAmount
    BY <1>9 DEF ConfirmDeposit, Ends, Idle
  <2>4. providerBondBalance[Funder] >= BondAmount
    BY <2>1, <2>3, ProvisioningAssumption, AmountAssumption DEF FundingArtifact
  <2>5. DepositMined
    BY <2>4, BondSeenIsDeposited
  <2> HIDE DEF new
  <2> QED
    BY <1>0, <1>2, <2>2, <2>3, <2>5 DEF FundFileInv, FundLabels
<1> QED
  BY <1>3, <1>4, <1>5, <1>6, <1>7, <1>8, <1>9 DEF FundingScript

LEMMA FundKeeps ==
  ASSUME LifecycleInv, LifecycleNext
  PROVE  FundInv'
<1>0. FundChainInv /\ FundFileInv
  BY FundInvParts DEF LifecycleInv
<1> SUFFICES FundChainInv' /\ FundFileInv'
  BY DEF FundInv, FundChainInv, FundFileInv, FundTx
<1>1. CASE FundingScript
  BY <1>1, FundScriptKeeps
<1>2. CASE ~FundingScript /\ UNCHANGED fundVars /\ UNCHANGED deposited
  <2>1. Elsewhere(FundLabels)
    BY <1>2, ScriptsApart
  <2>2. FundChainInv' /\ (DepositMined' <=> DepositMined)
    BY <1>0, <1>2 DEF FundChainInv, DepositMined, fundVars
  <2>3. FundFileInv'
    BY <1>0, <1>2, <2>1, <2>2 DEF FundFileInv, fundVars, Elsewhere, FundLabels
  <2> QED
    BY <2>2, <2>3
<1>3. CASE ArcChain
  <2>1. CASE MineFunding
    <3>1. UNCHANGED <<proc, funding>>
      BY <1>3, <2>1 DEF ArcChain, MineFunding
    <3>2. FundFileInv'
      BY <1>0, <2>1, <3>1, MineKeepsFunding DEF FundFileInv
    <3> QED
      BY <2>1, <3>2, MineKeepsFunding
  <2>2. CASE ~MineFunding
    <3>1. UNCHANGED fundVars /\ UNCHANGED deposited /\ UNCHANGED proc
      BY <1>3, <2>2 DEF ArcChain, MineDeployment, Mine, Drop, Refund, RefundEffects, bondVars,
                        provisioningVars, fundVars
    <3>2. FundChainInv' /\ (DepositMined' <=> DepositMined)
      BY <1>0, <3>1 DEF FundChainInv, DepositMined, fundVars
    <3>3. FundFileInv'
      BY <1>0, <3>1, <3>2 DEF FundFileInv, fundVars
    <3> QED
      BY <3>2, <3>3
  <2> QED
    BY <2>1, <2>2
<1> QED
  BY <1>1, <1>2, <1>3, FilesApart DEF bondVars

-----------------------------------------------------------------------------
(* The payment. *)

LEMMA ServedStays ==
  ASSUME SettlementsStay
  PROVE  \A e : Served(e) => Served(e)'
BY DEF Served, SettlementsStay

\* The answer that the client takes is the seller's.
LEMMA AnswerIsServed ==
  ASSUME LifecycleInv, NEW t \in Thread
  PROVE  /\ Answer(thread[t].code, thread[t].hash) \in Exchange
         /\ Served(Answer(thread[t].code, thread[t].hash))
<1>1. /\ thread[t] \in ThreadState /\ ThreadOK(thread[t]) /\ thread[t].auth \in {DemoAuth, Unset}
      /\ Owned /\ Unset \notin Auth
  BY ProviderAssumption DEF LifecycleInv, SellerInv, ProviderInv, ProviderTypeOK, ThreadState
<1>2. thread[t].code = 200 =>
        /\ thread[t].hash \in SettleHash
        /\ settleTx[thread[t].hash] = [auth |-> DemoAuth, status |-> "mined"]
  BY <1>1 DEF ThreadOK, Owned
<1> QED
  BY <1>1, <1>2 DEF Answer, Exchange, Served, ThreadState

LEMMA PayScriptKeeps ==
  ASSUME LifecycleInv, PaymentScript, SettlementsStay
  PROVE  PayInv'
<1>0. /\ PayInv /\ NoRow \notin PaymentArtifact \cup Exchange /\ MaxPresented \in Nat
      /\ payment \in PaymentArtifact \cup {NoRow} /\ evidence \in Exchange \cup {NoRow}
      /\ presented \in 0..MaxPresented
  BY EvidenceAssumption, PaymentAssumption DEF LifecycleInv, PayInv, PaymentTypeOK
<1>1. evidence # NoRow => Served(evidence)
  BY <1>0 DEF PayInv
<1>2. \A e : Served(e) => Served(e)'
  BY ServedStays
<1>3. ASSUME UNCHANGED evidence PROVE evidence' # NoRow => Served(evidence)'
  <2>1. evidence # NoRow => \E e : e = evidence /\ Served(e)'
    BY <1>1, <1>2
  <2> QED
    BY <1>3, <2>1 DEF Served
<1>4. CASE StartPayment
  <2> DEFINE new == [status |-> "open", hash |-> Unset, mined |-> Cardinality(Settled)]
  <2>1. new \in PaymentArtifact /\ new.status = "open"
    BY SettledSize, FundInvParts DEF LifecycleInv, PaymentArtifact
  <2>2. payment' = new /\ UNCHANGED <<evidence, presented>> /\ proc'.at = "pay_request"
    BY <1>4 DEF StartPayment, GoesTo
  <2> HIDE DEF new
  <2> QED
    BY <1>0, <1>3, <2>1, <2>2 DEF PayInv, PaymentTypeOK, PayLabels
<1>5. CASE \E t \in Thread : SendPaid(t)
  <2>1. /\ UNCHANGED <<payment, evidence>> /\ presented' \in 0..MaxPresented
        /\ proc'.at = "pay_wait" /\ proc'.held \in Thread
        /\ payment # NoRow /\ payment.status # "verified"
    BY <1>0, <1>5 DEF SendPaid, Presents, GoesTo, PayInv, PayLabels
  <2> QED
    BY <1>0, <1>3, <2>1 DEF PayInv, PaymentTypeOK
<1>6. ASSUME NEW e \in Exchange, Served(e), GoesTo("pay_answered", e), UNCHANGED paymentVars,
             proc.at = "pay_wait"
      PROVE  PayInv'
  <2>1. /\ payment # NoRow /\ payment.status # "verified"
        /\ UNCHANGED <<payment, evidence, presented>>
        /\ proc'.at = "pay_answered" /\ proc'.held = e
    BY <1>0, <1>6 DEF PayInv, PayLabels, paymentVars, GoesTo
  <2>2. Served(proc.held)'
    BY <1>2, <1>6, <2>1 DEF Served
  <2> QED
    BY <1>0, <1>3, <1>6, <2>1, <2>2 DEF PayInv, PaymentTypeOK
<1>7. CASE TakeAnswer
  <2>1. proc.held \in Thread
    BY <1>0, <1>7 DEF TakeAnswer, PayInv
  <2> QED
    BY <1>6, <1>7, <2>1, AnswerIsServed DEF TakeAnswer
<1>8. CASE MissAnswer
  <2>1. Answer(0, Unset) \in Exchange /\ Served(Answer(0, Unset))
    BY DEF Answer, Exchange, Codes, Served
  <2> QED
    BY <1>6, <1>8, <2>1 DEF MissAnswer
<1>9. CASE NoteEvent
  <2>1. PICK e \in Exchange :
          /\ e = proc.held /\ Served(e) /\ payment # NoRow /\ payment.status # "verified"
          /\ UNCHANGED <<evidence, presented>> /\ proc'.at = "pay_observe" /\ proc'.held = e
          /\ \/ payment' = [payment EXCEPT !.status = "settled", !.hash = e.hash]
             \/ UNCHANGED payment
    <3>1. /\ proc.held \in Exchange /\ Served(proc.held)
          /\ payment # NoRow /\ payment.status # "verified"
      BY <1>0, <1>9 DEF NoteEvent, PayInv, PayLabels
    <3>2. /\ UNCHANGED <<evidence, presented>> /\ proc'.at = "pay_observe" /\ proc'.held = proc.held
          /\ \/ payment' = [payment EXCEPT !.status = "settled", !.hash = proc.held.hash]
             \/ UNCHANGED payment
      BY <1>9 DEF NoteEvent, GoesTo
    <3> QED
      BY <3>1, <3>2
  <2>2. payment' \in PaymentArtifact /\ payment'.status # "verified"
    BY <1>0, <2>1 DEF PaymentArtifact, Exchange
  <2>3. Served(proc.held)'
    BY <1>2, <2>1 DEF Served
  <2> QED
    BY <1>0, <1>3, <2>1, <2>2, <2>3 DEF PayInv, PaymentTypeOK
<1>10. CASE StoreEvidence
  <2>1. PICK e \in Exchange :
          /\ e = proc.held /\ Served(e) /\ payment # NoRow /\ payment.status # "verified"
          /\ UNCHANGED <<payment, presented>>
          /\ \/ evidence' = e /\ e.code = 200 /\ proc' = [at |-> "pay_finalize", held |-> e]
             \/ evidence' = e /\ proc'.at = "idle"
             \/ UNCHANGED evidence /\ proc'.at = "idle"
    BY <1>0, <1>10 DEF StoreEvidence, GoesTo, Ends, Idle, PayInv, PayLabels
  <2>2. CASE evidence' = e
    <3>1. Served(evidence)'
      BY <1>2, <2>1, <2>2 DEF Served
    <3> QED
      BY <1>0, <2>1, <2>2, <3>1 DEF PayInv, PaymentTypeOK, PayLabels
  <2>3. CASE UNCHANGED evidence /\ proc'.at = "idle"
    BY <1>0, <1>3, <2>1, <2>3 DEF PayInv, PaymentTypeOK, PayLabels
  <2> QED
    BY <2>1, <2>2, <2>3
<1>11. CASE ResumePayment
  <2>1. /\ payment # NoRow /\ evidence # NoRow /\ evidence.code = 200
        /\ UNCHANGED <<payment, evidence, presented>>
        /\ proc'.at = "pay_finalize" /\ proc'.held = evidence
    BY <1>11 DEF ResumePayment, GoesTo, paymentVars
  <2> QED
    BY <1>0, <1>3, <2>1 DEF PayInv, PaymentTypeOK
<1>12. CASE FinalizePayment
  <2>1. /\ evidence = proc.held /\ evidence # NoRow /\ evidence.code = 200
        /\ payment # NoRow /\ UNCHANGED <<evidence, presented>> /\ proc'.at = "idle"
        /\ payment' = [payment EXCEPT !.status = "verified", !.hash = evidence.hash]
    BY <1>0, <1>12 DEF FinalizePayment, PayInv, PayLabels, Ends, Idle
  <2>2. payment' \in PaymentArtifact /\ payment'.hash = evidence.hash
    BY <1>0, <2>1 DEF PaymentArtifact, Exchange
  <2> QED
    BY <1>0, <1>3, <2>1, <2>2 DEF PayInv, PaymentTypeOK, PayLabels
<1> QED
  BY <1>4, <1>5, <1>7, <1>8, <1>9, <1>10, <1>11, <1>12 DEF PaymentScript

LEMMA PayKeeps ==
  ASSUME LifecycleInv, LifecycleNext
  PROVE  PayInv'
<1>0. PayInv /\ SettlementsStay
  BY SellerKeeps DEF LifecycleInv
<1>1. CASE PaymentScript
  BY <1>0, <1>1, PayScriptKeeps
<1>2. CASE ~PaymentScript
  <2>1. /\ UNCHANGED <<payment, evidence>> /\ presented' \in 0..MaxPresented
    <3>1. CASE Service
      BY <1>0, <3>1, PaymentAssumption DEF Service, ServiceStep, Presents, PayInv, PaymentTypeOK
    <3>2. CASE ~Service
      BY <1>0, <1>2, <3>2, FilesApart DEF paymentVars, PayInv, PaymentTypeOK
    <3> QED
      BY <3>1, <3>2
  <2>2. Elsewhere(PayLabels)
    BY <1>2, ScriptsApart
  <2>3. \A e : Served(e) => Served(e)'
    BY <1>0, ServedStays
  <2>4. evidence' # NoRow => Served(evidence)'
    <3>1. evidence # NoRow => \E e : e = evidence /\ Served(e)'
      BY <1>0, <2>3 DEF PayInv
    <3> QED
      BY <2>1, <3>1 DEF Served
  <2>5. CASE proc' = proc
    <3>1. proc'.at \in {"pay_answered", "pay_observe"} => Served(proc.held)'
      <4>1. proc.at \in {"pay_answered", "pay_observe"} => \E e : e = proc.held /\ Served(e)'
        BY <1>0, <2>3 DEF PayInv
      <4> QED
        BY <2>5, <4>1 DEF Served
    <3> QED
      BY <1>0, <2>1, <2>4, <2>5, <3>1 DEF PayInv, PaymentTypeOK
  <2>6. CASE proc'.at \notin PayLabels
    BY <1>0, <2>1, <2>4, <2>6 DEF PayInv, PaymentTypeOK, PayLabels
  <2> QED
    BY <2>2, <2>5, <2>6 DEF Elsewhere
<1> QED
  BY <1>1, <1>2

-----------------------------------------------------------------------------
(* The dispute and its adjudication. *)

LEMMA AdjScriptKeeps ==
  ASSUME LifecycleInv, AdjudicationScript, GlForward
  PROVE  AdjInv'
<1>0. /\ AdjInv /\ GlChainInv /\ DemoDispute \in Dispute /\ NoRow \notin AdjudicationArtifact
      /\ NoHash \notin GlId /\ NoRow \notin DisputeStatus
      /\ disputes \in [Dispute -> DisputeStatus \cup {NoRow}]
      /\ adjudication \in AdjudicationArtifact \cup {NoRow}
      /\ prepared \in BOOLEAN /\ reference \in GlId \cup {NoHash}
      /\ verdicts \in [Dispute -> {"none", "violated", "kept"}]
  BY AdjudicationAssumption, JournalAssumption, ArtifactAssumption, GlAssumption, RowAssumption
  DEF LifecycleInv, GlInv, GlChainInv, GlTypeOK, DemoDispute, AdjInv, AdjudicationTypeOK,
      RelayInv, TypeOK, JournalTypeOK
<1>1. UNCHANGED <<verdicts, writer>>
  BY DEF AdjudicationScript
<1>2. \A g \in GlId : glTx[g].call = "adjudicate" /\ glTx[g].about = DemoDispute =>
        glTx'[g].call = "adjudicate" /\ glTx'[g].about = DemoDispute
  BY DEF GlForward
\* The adjudication on record stays what it is about.
<1>3. adjudication # NoRow =>
        /\ adjudication.id \in GlId
        /\ glTx'[adjudication.id].call = "adjudicate"
        /\ glTx'[adjudication.id].about = DemoDispute
  BY <1>0, <1>2 DEF AdjInv, AdjudicationArtifact
<1>4. CASE SubmitAdjudication
  <2>1. PICK id \in GlId \cup {NoHash} :
          /\ SubmitsGl("adjudicate", DemoDispute, id)
          /\ IF id = NoHash THEN Ends ELSE GoesTo("adj_sent", id)
    BY <1>4 DEF SubmitAdjudication
  <2>2. id # NoHash => glTx'[id].call = "adjudicate" /\ glTx'[id].about = DemoDispute
    BY <1>0, <1>1, <2>1, SubmitKeepsGl
  <2>3. adjudication = NoRow /\ UNCHANGED <<disputes, adjudication, prepared, reference>>
    BY <1>4 DEF SubmitAdjudication, adjudicationVars
  <2>4. CASE id = NoHash
    BY <1>0, <1>1, <2>1, <2>3, <2>4
    DEF AdjInv, AdjudicationTypeOK, DecidedByRecorded, Target, OnRecord, Ends, Idle
  <2>5. CASE id # NoHash
    BY <1>0, <1>1, <2>1, <2>2, <2>3, <2>5
    DEF AdjInv, AdjudicationTypeOK, DecidedByRecorded, Target, OnRecord, GoesTo
  <2> QED
    BY <2>4, <2>5
<1>5. CASE RecordAdjudication
  <2>1. /\ adjudication = NoRow /\ proc.held \in GlId
        /\ glTx[proc.held].call = "adjudicate" /\ glTx[proc.held].about = DemoDispute
        /\ UNCHANGED <<glTx, disputes, prepared, reference>>
        /\ proc' = [at |-> "adj_recorded", held |-> proc.held]
        /\ adjudication' = [status |-> "submitted", id |-> proc.held, decision |-> "none"]
    BY <1>0, <1>5 DEF RecordAdjudication, AdjInv, GoesTo
  <2>2. /\ adjudication' \in AdjudicationArtifact /\ adjudication' # NoRow
        /\ adjudication'.id = proc.held /\ adjudication'.status = "submitted"
    BY <1>0, <2>1 DEF AdjudicationArtifact
  <2>3. disputes[DemoDispute] \notin {"upheld", "rejected"}
    BY <1>0, <2>1 DEF AdjInv, DecidedByRecorded
  <2> QED
    BY <1>0, <1>1, <2>1, <2>2, <2>3 DEF AdjInv, AdjudicationTypeOK, DecidedByRecorded, OnRecord
<1>6. CASE SetAdjudicating
  <2>1. /\ OnRecord(proc.held) /\ UNCHANGED <<glTx, adjudication, prepared, reference>>
        /\ proc' = [at |-> "adj_wait", held |-> proc.held]
    BY <1>0, <1>6 DEF SetAdjudicating, AdjInv, GoesTo, adjudicationVars
  <2>2. \/ UNCHANGED disputes
        \/ disputes' = [disputes EXCEPT ![DemoDispute] = "adjudicating"]
    BY <1>6 DEF SetAdjudicating, UpdateDispute
  <2>3. \/ disputes'[DemoDispute] = disputes[DemoDispute]
        \/ disputes'[DemoDispute] = "adjudicating"
    BY <1>0, <2>2
  <2> QED
    BY <1>0, <1>1, <2>1, <2>3 DEF AdjInv, AdjudicationTypeOK, DecidedByRecorded, Target, OnRecord
<1>7. CASE ResumeAdjudication
  <2>1. /\ adjudication # NoRow /\ UNCHANGED <<glTx, disputes, adjudication, prepared, reference>>
        /\ proc' = [at |-> "adj_wait", held |-> adjudication.id]
    BY <1>7 DEF ResumeAdjudication, GoesTo, adjudicationVars
  <2> QED
    BY <1>0, <1>1, <2>1 DEF AdjInv, AdjudicationTypeOK, DecidedByRecorded, Target, OnRecord
<1>8. CASE AwaitVerdict
  <2> DEFINE new == [id |-> proc.held, decision |-> verdicts[DemoDispute]]
  <2>1. /\ OnRecord(proc.held) /\ UNCHANGED <<glTx, disputes, adjudication, prepared, reference>>
        /\ VerdictFinalized(proc.held)
        /\ proc'.at = "adj_verdict" /\ proc'.held = new
    BY <1>0, <1>8 DEF AwaitVerdict, AdjInv, GoesTo, adjudicationVars
  <2>2. /\ proc.held \in GlId /\ glTx[proc.held].call = "adjudicate"
        /\ glTx[proc.held].about = DemoDispute
    BY <1>0, <2>1 DEF OnRecord, AdjInv, AdjudicationArtifact
  <2>3. verdicts[DemoDispute] # "none" /\ writer[DemoDispute] = proc.held
    BY <1>0, <2>1, <2>2 DEF VerdictFinalized, GlChainInv
  <2>4. new.id = proc.held /\ new.decision = verdicts[DemoDispute]
    OBVIOUS
  <2> HIDE DEF new
  <2> QED
    BY <1>0, <1>1, <2>1, <2>3, <2>4 DEF AdjInv, AdjudicationTypeOK, DecidedByRecorded, Target, OnRecord
<1>9. CASE PersistVerdict
  <2>1. /\ OnRecord(proc.held.id) /\ UNCHANGED <<glTx, adjudication, prepared>>
        /\ verdicts[DemoDispute] # "none" /\ proc.held.decision = verdicts[DemoDispute]
        /\ writer[DemoDispute] = proc.held.id
        /\ proc' = [at |-> "adj_decided", held |-> proc.held]
    BY <1>0, <1>9 DEF PersistVerdict, AdjInv, GoesTo
  <2>2. proc.held.id \in GlId
    BY <1>0, <2>1 DEF OnRecord, AdjudicationArtifact
  <2>3. disputes'[DemoDispute] = Target(verdicts[DemoDispute]) /\ reference' = proc.held.id
    BY <1>0, <1>9, <2>1 DEF PersistVerdict, UpdateDispute
  <2> QED
    BY <1>0, <1>1, <2>1, <2>2, <2>3 DEF AdjInv, AdjudicationTypeOK, DecidedByRecorded, OnRecord, Target
<1>10. CASE FinalizeAdjudication
  <2>1. /\ OnRecord(proc.held.id) /\ UNCHANGED <<glTx, disputes, prepared, reference>>
        /\ verdicts[DemoDispute] # "none" /\ proc.held.decision = verdicts[DemoDispute]
        /\ proc'.at = "idle"
        /\ adjudication' = [status |-> "finalized", id |-> proc.held.id,
                            decision |-> proc.held.decision]
    BY <1>0, <1>10 DEF FinalizeAdjudication, AdjInv, Ends, Idle
  <2>2. /\ adjudication' \in AdjudicationArtifact /\ adjudication' # NoRow
        /\ adjudication'.id = adjudication.id /\ adjudication # NoRow
        /\ adjudication'.decision = verdicts[DemoDispute]
    BY <1>0, <2>1 DEF OnRecord, AdjudicationArtifact
  <2> QED
    BY <1>0, <1>1, <2>1, <2>2 DEF AdjInv, AdjudicationTypeOK, DecidedByRecorded, Target
<1> QED
  BY <1>4, <1>5, <1>6, <1>7, <1>8, <1>9, <1>10 DEF AdjudicationScript

LEMMA AdjKeeps ==
  ASSUME LifecycleInv, LifecycleNext
  PROVE  AdjInv'
<1>0. /\ AdjInv /\ GlForward /\ DemoDispute \in Dispute
      /\ adjudication \in AdjudicationArtifact \cup {NoRow}
      /\ prepared \in BOOLEAN /\ reference \in GlId \cup {NoHash}
      /\ verdicts \in [Dispute -> {"none", "violated", "kept"}]
      /\ disputes \in [Dispute -> DisputeStatus \cup {NoRow}]
      /\ NoRow \notin DisputeStatus
  BY GlKeeps, AdjudicationAssumption, JournalAssumption, RowAssumption
  DEF LifecycleInv, DemoDispute, AdjInv, AdjudicationTypeOK, GlInv, GlTypeOK, RelayInv, TypeOK,
      JournalTypeOK
<1>1. CASE AdjudicationScript
  BY <1>0, <1>1, AdjScriptKeeps
<1>2. CASE ~AdjudicationScript
  <2>1. /\ UNCHANGED <<adjudication, reference>> /\ prepared' \in BOOLEAN
        /\ disputes'[DemoDispute] \in {"upheld", "rejected"} =>
             disputes'[DemoDispute] = disputes[DemoDispute]
    <3>1. CASE DisputeScript
      <4>1. \/ UNCHANGED disputes
            \/ InsertDispute(DemoDispute)
        BY <3>1 DEF DisputeScript, OpenDispute, PersistDispute
      <4>2. UNCHANGED <<adjudication, reference>> /\ prepared' \in BOOLEAN
        BY <1>0, <3>1 DEF DisputeScript, OpenDispute, PersistDispute, adjudicationVars
      <4> QED
        BY <1>0, <4>1, <4>2 DEF InsertDispute
    <3>2. CASE ~DisputeScript
      <4>1. UNCHANGED prepared
        BY <1>2, <3>2, BondFrame, FundFrame, GlFrame, PayFrame, RefundFrame, OthersFrame
        DEF LifecycleNext, adjudicationVars, LifecycleInv
      <4> QED
        BY <1>0, <1>2, <3>2, <4>1, FilesApart
    <3> QED
      BY <3>1, <3>2
  <2>2. Elsewhere(AdjLabels)
    BY <1>2, ScriptsApart
  <2>3. /\ verdicts[DemoDispute] # "none" =>
             verdicts'[DemoDispute] = verdicts[DemoDispute] /\ writer'[DemoDispute] = writer[DemoDispute]
        /\ \A g \in GlId : glTx[g].call = "adjudicate" =>
             glTx'[g].call = "adjudicate" /\ glTx'[g].about = glTx[g].about
    BY <1>0 DEF GlForward
  <2>4. adjudication # NoRow => adjudication.id \in GlId
    BY <1>0 DEF AdjudicationArtifact
  <2>5. CASE proc' = proc
    BY <1>0, <2>1, <2>3, <2>4, <2>5
    DEF AdjInv, AdjudicationTypeOK, DecidedByRecorded, Target, OnRecord
  <2>6. CASE proc'.at \notin AdjLabels
    BY <1>0, <2>1, <2>3, <2>4, <2>6
    DEF AdjInv, AdjudicationTypeOK, DecidedByRecorded, Target, AdjLabels
  <2> QED
    BY <2>2, <2>5, <2>6 DEF Elsewhere
<1> QED
  BY <1>1, <1>2

-----------------------------------------------------------------------------
(* The refund. *)

LEMMA RunnerSettlesDemo ==
  ASSUME LifecycleInv, RefundRun
  PROVE  /\ \A w \in Worker : pc'[w] # "idle" => job'[w] = DemoBinding
         /\ \A h \in Hash : tx'[h] # NoTx => tx'[h].binding = DemoBinding
         /\ \A h \in Hash : tx[h] # NoTx => tx'[h] # NoTx
<1>0. /\ pc \in [Worker -> PcLabels] /\ job \in [Worker -> Binding \cup {NoRow}]
      /\ tx \in [Hash -> [binding : Binding, status : TxStatus] \cup {NoTx}]
      /\ \A w \in Worker : pc[w] # "idle" => job[w] = DemoBinding
      /\ \A h \in Hash : tx[h] # NoTx => tx[h].binding = DemoBinding
      /\ Runner \in Worker
  BY RefundAssumption DEF LifecycleInv, RelayInv, TypeOK, RecoveryInv
<1>1. CASE UNCHANGED <<pc, job, tx>>
  BY <1>0, <1>1
<1>2. CASE Leaves(Runner) /\ UNCHANGED tx
  BY <1>0, <1>2 DEF Leaves
\* A step of settle after its call keeps the binding it was called with.
<1>3. ASSUME pc[Runner] # "idle", NEW label, pc' = [pc EXCEPT ![Runner] = label],
             UNCHANGED job, UNCHANGED tx
      PROVE  /\ \A w \in Worker : pc'[w] # "idle" => job'[w] = DemoBinding
             /\ \A h \in Hash : tx'[h] # NoTx => tx'[h].binding = DemoBinding
             /\ \A h \in Hash : tx[h] # NoTx => tx'[h] # NoTx
  BY <1>0, <1>3
<1>4. CASE CallSettle
  <2>1. /\ \E label : pc' = [pc EXCEPT ![Runner] = label]
        /\ job' = [job EXCEPT ![Runner] = DemoBinding] /\ UNCHANGED tx
    BY <1>4 DEF CallSettle, Settle, Enters
  <2> QED
    BY <1>0, <2>1
<1>5. CASE RelayStep
  <2>1. CASE Create(Runner)
    <3>1. CASE Leaves(Runner)
      BY <1>2, <2>1, <3>1 DEF Create
    <3>2. ASSUME NEW row, Enters(Runner, job[Runner], row)
          PROVE  /\ \E label : pc' = [pc EXCEPT ![Runner] = label]
                 /\ UNCHANGED job /\ UNCHANGED tx /\ pc[Runner] # "idle"
      BY <1>0, <2>1, <3>2 DEF Create, Enters
    <3> QED
      BY <1>3, <2>1, <3>1, <3>2 DEF Create
  <2>2. CASE PreflightFlags(Runner) \/ PreflightBalance(Runner) \/ Receipt(Runner)
    <3>1. /\ \E label : pc' = [pc EXCEPT ![Runner] = label]
          /\ UNCHANGED job /\ UNCHANGED tx /\ pc[Runner] # "idle"
      BY <2>2 DEF PreflightFlags, PreflightBalance, Receipt, GoesToWrite
    <3> QED
      BY <1>3, <3>1
  <2>3. CASE WriteRefused(Runner)
    BY <1>2, <2>3 DEF WriteRefused
  <2>4. CASE ResolveAmbiguous(Runner)
    BY <1>2, <1>3, <2>4 DEF ResolveAmbiguous, GoesToWrite
  <2> QED
    BY <1>5, <2>1, <2>2, <2>3, <2>4 DEF RelayStep
<1>6. CASE SendRefund
  <2>1. /\ pc[Runner] = "send" /\ UNCHANGED job /\ pc' = [pc EXCEPT ![Runner] = "write"]
        /\ job[Runner] = DemoBinding
    BY <1>0, <1>6 DEF SendRefund, Send, GoesToWrite
  <2>2. CASE UNCHANGED tx
    BY <1>3, <2>1, <2>2
  <2>3. ASSUME NEW h \in Hash, Broadcasts(Runner, h)
        PROVE  /\ \A g \in Hash : tx'[g] # NoTx => tx'[g].binding = DemoBinding
               /\ \A g \in Hash : tx[g] # NoTx => tx'[g] # NoTx
    BY <1>0, <2>1, <2>3 DEF Broadcasts
  <2> QED
    BY <1>0, <1>6, <2>1, <2>2, <2>3 DEF SendRefund, Send
<1>7. CASE WriteOutcome
  BY <1>2, <1>3, <1>7 DEF WriteOutcome, Write
<1>8. CASE StillPending
  BY <1>2, <1>8 DEF StillPending, NoReceipt
<1>9. CASE StopsWithRelay
  BY <1>1, <1>2, <1>9 DEF StopsWithRelay, workerVars
<1>10. CASE StartRefund \/ RecordRefund \/ ConfirmRefund
  <2>1. UNCHANGED <<pc, job, tx>>
    BY <1>10 DEF StartRefund, RecordRefund, ConfirmRefund, workerVars
  <2> QED
    BY <1>1, <2>1
<1> QED
  BY <1>4, <1>5, <1>6, <1>7, <1>8, <1>9, <1>10 DEF RefundRun

\* What the recovery artifact says, and where the script is.
RecoveryFileInv ==
  /\ RecoveryTypeOK
  /\ recovery # NoRow /\ recovery.hash # NoHash => tx[recovery.hash] # NoTx
  /\ recovery # NoRow /\ recovery.status = "confirmed" => RefundCall(DemoBinding) \in refunds
  /\ proc.at \in RefundLabels => recovery # NoRow
  /\ proc.at = "refund_record" => pc[Runner] = "write" /\ goal[Runner].status = "pending"

LEMMA RefundRunKeepsFile ==
  ASSUME LifecycleInv, RefundRun
  PROVE  RecoveryFileInv'
<1>0. /\ RecoveryFileInv /\ NoRow \notin RecoveryArtifact /\ Runner \in Worker
      /\ recovery \in RecoveryArtifact \cup {NoRow} /\ NoHash \notin Hash
      /\ WorkerOK(Runner) /\ TypeOK /\ DemoDispute \in Dispute
  BY RecoveryAssumption, RefundAssumption, AdjudicationAssumption, JournalAssumption
  DEF LifecycleInv, RecoveryInv, RecoveryFileInv, RecoveryTypeOK, RelayInv, WorkerInv, DemoDispute
<1>1. \A h \in Hash : tx[h] # NoTx => tx'[h] # NoTx
  BY RunnerSettlesDemo
<1>2. UNCHANGED refunds /\ UNCHANGED <<glVars, providerVars>>
  BY DEF RefundRun, StartRefund, CallSettle, RelayStep, SendRefund, RecordRefund, WriteOutcome,
     StillPending, ConfirmRefund, StopsWithRelay, Settle, Create, PreflightFlags, PreflightBalance,
     WriteRefused, ResolveAmbiguous, Receipt, Send, Write, NoReceipt, bondVars
\* The artifact stays, or says that the outcome is unknown.
<1>3. ASSUME proc.at \in RefundLabels, recovery' \in {recovery, Ambiguous},
             proc'.at # "refund_record"
      PROVE  RecoveryFileInv'
  <2>1. recovery # NoRow /\ recovery \in RecoveryArtifact
    BY <1>0, <1>3 DEF RecoveryFileInv
  <2>2. /\ Ambiguous \in RecoveryArtifact /\ Ambiguous.hash = recovery.hash
        /\ Ambiguous.status = "ambiguous_submission"
    BY <2>1 DEF Ambiguous, RecoveryArtifact
  <2>3. /\ recovery' \in RecoveryArtifact /\ recovery' # NoRow /\ recovery'.hash = recovery.hash
        /\ recovery'.status = "confirmed" => recovery.status = "confirmed"
    BY <1>0, <1>3, <2>1, <2>2
  <2>4. recovery.hash # NoHash => recovery.hash \in Hash
    BY <2>1 DEF RecoveryArtifact
  <2> QED
    BY <1>0, <1>1, <1>2, <1>3, <2>1, <2>3, <2>4 DEF RecoveryFileInv, RecoveryTypeOK, RefundCall
\* The artifact is written anew.
<1>4. ASSUME NEW row \in RecoveryArtifact, recovery' = row, proc'.at # "refund_record",
             row.hash # NoHash => row.hash \in Hash /\ tx'[row.hash] # NoTx,
             row.status = "confirmed" => RefundCall(DemoBinding) \in refunds
      PROVE  RecoveryFileInv'
  BY <1>0, <1>2, <1>4 DEF RecoveryFileInv, RecoveryTypeOK, RefundCall
<1>5. CASE StartRefund
  <2>1. proc'.at = "refund_start" /\ UNCHANGED tx
    BY <1>5 DEF StartRefund, GoesTo
  <2>2. CASE recovery = NoRow
    <3>1. recovery' = Preflighted
      BY <1>5, <2>2 DEF StartRefund
    <3>2. /\ Preflighted \in RecoveryArtifact /\ Preflighted.hash = NoHash
          /\ Preflighted.status = "preflight_complete"
      BY DEF Preflighted, RecoveryArtifact
    <3> QED
      BY <1>4, <2>1, <3>1, <3>2
  <2>3. CASE recovery # NoRow
    <3>1. recovery' = recovery
      BY <1>5, <2>3 DEF StartRefund
    <3> QED
      BY <1>0, <1>2, <2>1, <2>3, <3>1 DEF RecoveryFileInv, RecoveryTypeOK, RefundCall
  <2> QED
    BY <2>2, <2>3
<1>6. CASE CallSettle
  <2>1. proc.at \in RefundLabels /\ recovery' = recovery /\ proc'.at = "refund_relay"
    BY <1>6 DEF CallSettle, GoesTo, RefundLabels
  <2> QED
    BY <1>3, <2>1
<1>7. CASE RelayStep
  <2>1. proc.at = "refund_relay" /\ proc.at \in RefundLabels
        /\ recovery' \in {recovery, Ambiguous} /\ (proc' = proc \/ proc'.at = "idle")
    BY <1>7 DEF RelayStep, Ends, Idle, RefundLabels
  <2> QED
    BY <1>3, <2>1
<1>8. CASE SendRefund
  <2>1. proc.at = "refund_relay" /\ proc.at \in RefundLabels /\ recovery' = recovery
    BY <1>8 DEF SendRefund, RefundLabels
  <2>2. CASE goal'[Runner].status # "pending"
    BY <1>3, <1>8, <2>1, <2>2 DEF SendRefund
  <2>3. CASE goal'[Runner].status = "pending"
    <3>a. pc' = [pc EXCEPT ![Runner] = "write"]
      BY <1>8 DEF SendRefund, Send, GoesToWrite
    <3>b. proc' = [at |-> "refund_record", held |-> NoHash]
      BY <1>8, <2>3 DEF SendRefund, GoesTo
    <3>c. recovery # NoRow
      BY <1>0, <2>1 DEF RecoveryFileInv
    <3>1. pc'[Runner] = "write" /\ proc'.at = "refund_record" /\ recovery # NoRow
      BY <1>0, <3>a, <3>b, <3>c DEF TypeOK
    <3>2. recovery.hash # NoHash => recovery.hash \in Hash
      BY <1>0, <3>1 DEF RecoveryArtifact
    <3> QED
      BY <1>0, <1>1, <1>2, <2>1, <2>3, <3>1, <3>2 DEF RecoveryFileInv, RecoveryTypeOK, RefundCall
  <2> QED
    BY <2>2, <2>3
<1>9. CASE RecordRefund
  <2>1. /\ proc.at \in RefundLabels /\ proc'.at = "refund_relay" /\ UNCHANGED tx
        /\ pc[Runner] = "write" /\ goal[Runner].status = "pending"
    BY <1>0, <1>9 DEF RecordRefund, GoesTo, RefundLabels, RecoveryFileInv
  <2>2. CASE recovery' = recovery
    BY <1>3, <2>1, <2>2
  <2>3. CASE recovery' = [status |-> "broadcast", hash |-> goal[Runner].hash]
    <3>1. goal[Runner].hash \in Hash /\ tx[goal[Runner].hash] # NoTx
      BY <1>0, <2>1 DEF WorkerOK, ValidRow, Truthful, SettlementRow
    <3>2. [status |-> "broadcast", hash |-> goal[Runner].hash] \in RecoveryArtifact
      BY <3>1 DEF RecoveryArtifact
    <3> QED
      BY <1>4, <2>1, <2>3, <3>1, <3>2
  <2> QED
    BY <1>9, <2>2, <2>3 DEF RecordRefund
<1>10. CASE WriteOutcome
  <2>1. /\ proc.at = "refund_relay" /\ proc.at \in RefundLabels
        /\ recovery' \in {recovery, Ambiguous} /\ proc'.at # "refund_record"
    <3>1. proc.at = "refund_relay" /\ proc.at \in RefundLabels
      BY <1>10 DEF WriteOutcome, RefundLabels
    <3>2. \/ UNCHANGED recovery /\ proc'.at \in {"refund_check", "idle"}
          \/ recovery' = Ambiguous /\ proc'.at = "idle"
          \/ UNCHANGED recovery /\ UNCHANGED proc
      BY <1>10 DEF WriteOutcome, GoesTo, Ends, Idle
    <3> QED
      BY <3>1, <3>2
  <2> QED
    BY <1>3, <2>1
<1>11. CASE StillPending
  <2>1. /\ proc'.at = "idle" /\ UNCHANGED tx /\ pc[Runner] = "wait"
        /\ recovery' = [status |-> "pending", hash |-> goal[Runner].hash]
    BY <1>11 DEF StillPending, NoReceipt, Ends, Idle
  <2>2. goal[Runner].hash \in Hash /\ tx[goal[Runner].hash] # NoTx
    BY <1>0, <2>1 DEF WorkerOK, ValidRow, Truthful, SettlementRow
  <2>3. [status |-> "pending", hash |-> goal[Runner].hash] \in RecoveryArtifact
    BY <2>2 DEF RecoveryArtifact
  <2> QED
    BY <1>4, <2>1, <2>2, <2>3
<1>12. CASE ConfirmRefund
  <2>1. /\ proc'.at = "idle" /\ UNCHANGED tx
        /\ recovery' = [status |-> "confirmed", hash |-> proc.held]
        /\ RefundCall(DemoBinding) \in refunds
        /\ tx[proc.held] = [binding |-> DemoBinding, status |-> "mined"]
        /\ StatusOf(DemoDispute) = "confirmed" /\ settlements[DemoDispute].hash = proc.held
    BY <1>12 DEF ConfirmRefund, Ends, Idle
  <2>2. proc.held \in Hash
    BY <1>0, <2>1 DEF StatusOf, TypeOK, JournalTypeOK, ValidRow, SettlementRow
  <2>3. tx[proc.held] # NoTx
    BY <2>1 DEF NoTx
  <2>4. [status |-> "confirmed", hash |-> proc.held] \in RecoveryArtifact
    BY <2>2 DEF RecoveryArtifact
  <2> QED
    BY <1>4, <2>1, <2>2, <2>3, <2>4
<1>13. CASE StopsWithRelay
  <2>1. proc'.at = "idle" /\ recovery' = recovery /\ UNCHANGED tx
    BY <1>13 DEF StopsWithRelay, Stops, Ends, Idle
  <2> QED
    BY <1>0, <1>2, <2>1 DEF RecoveryFileInv, RecoveryTypeOK, RefundCall, RefundLabels
<1> QED
  BY <1>5, <1>6, <1>7, <1>8, <1>9, <1>10, <1>11, <1>12, <1>13 DEF RefundRun

\* The chain mines a refund that the relay has sent.
LEMMA ChainRefunds ==
  ASSUME LifecycleInv, ArcChain
  PROVE  /\ \A h \in Hash : tx'[h] # NoTx => tx'[h].binding = DemoBinding
         /\ \A h \in Hash : tx[h] # NoTx => tx'[h] # NoTx
         /\ refunds \subseteq refunds'
         /\ refunds' \subseteq {RefundCall(DemoBinding)}
         /\ refunds' # {} => disputes[DemoDispute] = "upheld"
<1>0. /\ tx \in [Hash -> [binding : Binding, status : TxStatus] \cup {NoTx}]
      /\ \A h \in Hash : tx[h] # NoTx => tx[h].binding = DemoBinding
      /\ refunds \subseteq {RefundCall(DemoBinding)}
      /\ refunds # {} => disputes[DemoDispute] = "upheld"
  BY DEF LifecycleInv, RelayInv, TypeOK, RecoveryInv
<1>1. ASSUME NEW h \in Hash, Mine(h) \/ Drop(h)
      PROVE  /\ \A g \in Hash : tx'[g] # NoTx => tx'[g].binding = DemoBinding
             /\ \A g \in Hash : tx[g] # NoTx => tx'[g] # NoTx
             /\ refunds' \in {refunds, refunds \cup {RefundCall(DemoBinding)}}
             /\ disputes[DemoDispute] = "upheld"
  <2>1. tx[h].status = "mempool" /\ tx[h] # NoTx
    BY <1>1 DEF Mine, Drop, NoTx
  <2>2. /\ tx[h] = [binding |-> DemoBinding, status |-> "mempool"]
        /\ tx[h].binding = DemoBinding
    BY <1>0, <2>1
  <2>3. PICK s \in TxStatus : tx' = [tx EXCEPT ![h] = [binding |-> DemoBinding, status |-> s]]
    BY <1>0, <1>1, <2>2 DEF Mine, Drop, TxStatus
  <2>4. \A g \in Hash : tx'[g] = IF g = h THEN [binding |-> DemoBinding, status |-> s] ELSE tx[g]
    BY <1>0, <2>3
  <2>5. tx'[h] # NoTx /\ tx'[h].binding = DemoBinding
    <3>1. tx'[h] = [binding |-> DemoBinding, status |-> s] /\ s # "unused"
      BY <2>4 DEF TxStatus
    <3> QED
      BY <3>1 DEF NoTx
  <2>6. disputes[DemoDispute] = "upheld"
    BY <2>1, <2>2 DEF LifecycleInv, RelayInv, SentIsUpheld, DemoDispute
  <2>7. refunds' \in {refunds, refunds \cup {RefundCall(DemoBinding)}}
    BY <1>1, <2>2 DEF Mine, Drop, Refund, RefundEffects, bondVars
  <2> QED
    BY <1>0, <2>4, <2>5, <2>6, <2>7
<1>2. CASE Deposit(Funder, BondAmount) /\ UNCHANGED <<disputes, settlements, tx, workerVars>>
  BY <1>0, <1>2 DEF Deposit
<1>3. CASE UNCHANGED relayVars
  BY <1>0, <1>3 DEF relayVars, bondVars
<1> QED
  BY <1>0, <1>1, <1>2, <1>3, ChainMoves

LEMMA RecoveryKeeps ==
  ASSUME LifecycleInv, LifecycleNext
  PROVE  RecoveryInv'
<1>0. /\ pc \in [Worker -> PcLabels] /\ DemoDispute \in Dispute
      /\ NoRow \notin RecoveryArtifact /\ RecoveryInv /\ RecoveryFileInv
      /\ \A d \in Dispute : disputes[d] \in DisputeStatus \cup {NoRow}
  BY RecoveryAssumption, AdjudicationAssumption, JournalAssumption
  DEF LifecycleInv, RelayInv, TypeOK, JournalTypeOK, DemoDispute, RecoveryInv, RecoveryFileInv
\* An upheld dispute stays, and one that exists is about a payment that was made.
<1>1. /\ disputes[DemoDispute] = "upheld" => disputes'[DemoDispute] = "upheld"
      /\ disputes'[DemoDispute] # NoRow => DemoAuth \in usedAuth'
  <2>1. disputes[DemoDispute] # NoRow => DemoAuth \in usedAuth'
    BY <1>0, SellerKeeps DEF RecoveryInv
  <2>2. CASE UNCHANGED disputes
    BY <2>1, <2>2
  <2>3. CASE InsertDispute(DemoDispute) /\ PaymentVerified
    <3>1. evidence.hash \in SettleHash /\ settleTx[evidence.hash] = [auth |-> DemoAuth, status |-> "mined"]
      BY <2>3 DEF PaymentVerified, LifecycleInv, PayInv, Served
    <3>2. DemoAuth \in usedAuth
      <4>1. settleTx[evidence.hash].status = "mined" /\ settleTx[evidence.hash].auth = DemoAuth
        BY <3>1
      <4> QED
        BY <3>1, <4>1 DEF LifecycleInv, SellerInv
    <3>3. disputes[DemoDispute] # "upheld"
      BY <2>3, RowAssumption DEF InsertDispute, DisputeStatus
    <3> QED
      BY <3>2, <3>3, SellerKeeps
  <2>4. CASE (DisputeScript \/ AdjudicationScript) /\ disputes[DemoDispute] # NoRow
    BY <1>0, <2>1, <2>4, DisputesKept
  <2>5. DisputeScript => UNCHANGED disputes \/ (InsertDispute(DemoDispute) /\ PaymentVerified)
    BY DEF DisputeScript, OpenDispute, PersistDispute
  <2>6. AdjudicationScript => UNCHANGED disputes \/ disputes[DemoDispute] # NoRow
    BY DEF AdjudicationScript, SubmitAdjudication, RecordAdjudication, SetAdjudicating,
       ResumeAdjudication, AwaitVerdict, PersistVerdict, FinalizeAdjudication, UpdateDispute
  <2>7. ~DisputeScript /\ ~AdjudicationScript => UNCHANGED disputes
    BY FilesApart
  <2> QED
    BY <2>2, <2>3, <2>4, <2>5, <2>6, <2>7
<1>2. /\ \A w \in Worker : pc'[w] # "idle" => job'[w] = DemoBinding
      /\ \A h \in Hash : tx'[h] # NoTx => tx'[h].binding = DemoBinding
      /\ \A h \in Hash : tx[h] # NoTx => tx'[h] # NoTx
      /\ refunds \subseteq refunds'
      /\ refunds' \subseteq {RefundCall(DemoBinding)}
      /\ refunds' # {} => disputes[DemoDispute] = "upheld"
  <2>1. CASE RefundRun
    <3>1. ~ArcChain => UNCHANGED refunds
      BY FilesApart DEF bondVars
    <3>2. CASE ~ArcChain
      BY <1>0, <2>1, <3>1, <3>2, RunnerSettlesDemo DEF RecoveryInv
    <3>3. CASE ArcChain
      BY <2>1, <3>3, ChainRefunds, RunnerSettlesDemo
    <3> QED
      BY <3>2, <3>3
  <2>2. CASE ~RefundRun
    <3>1. UNCHANGED workerVars
      BY <2>2, FilesApart
    <3>2. CASE ArcChain
      BY <1>0, <3>1, <3>2, ChainRefunds DEF RecoveryInv, workerVars
    <3>3. CASE ~ArcChain
      <4>1. UNCHANGED tx /\ UNCHANGED refunds
        BY <2>2, <3>3, FilesApart DEF bondVars
      <4> QED
        BY <1>0, <3>1, <4>1 DEF RecoveryInv, workerVars
    <3> QED
      BY <3>2, <3>3
  <2> QED
    BY <2>1, <2>2
<1>3. RecoveryFileInv'
  <2>1. CASE RefundRun
    BY <2>1, RefundRunKeepsFile
  <2>2. CASE ~RefundRun
    <3>1. UNCHANGED <<workerVars, recovery>> /\ Elsewhere(RefundLabels)
      BY <2>2, FilesApart, ScriptsApart
    <3>2. recovery \in RecoveryArtifact => recovery.hash \in Hash \cup {NoHash}
      BY DEF RecoveryArtifact
    <3>3. RefundCall(DemoBinding)' = RefundCall(DemoBinding)
      BY DEF RefundCall
    <3>4. /\ RecoveryTypeOK'
          /\ recovery # NoRow /\ recovery.hash # NoHash => tx'[recovery.hash] # NoTx
          /\ recovery # NoRow /\ recovery.status = "confirmed" => RefundCall(DemoBinding) \in refunds'
      BY <1>0, <1>2, <3>1, <3>2 DEF RecoveryFileInv, RecoveryTypeOK
    <3>5. CASE proc' = proc
      BY <1>0, <3>1, <3>3, <3>4, <3>5 DEF RecoveryFileInv, workerVars
    <3>6. CASE proc'.at \notin RefundLabels
      BY <3>1, <3>3, <3>4, <3>6 DEF RecoveryFileInv, RefundLabels
    <3> QED
      BY <3>1, <3>5, <3>6 DEF Elsewhere
  <2> QED
    BY <2>1, <2>2
<1> QED
  BY <1>1, <1>2, <1>3 DEF RecoveryInv, RecoveryFileInv, RefundCall

-----------------------------------------------------------------------------
(* The whole. *)

LEMMA RunsBounded ==
  ASSUME LifecycleInv, LifecycleNext
  PROVE  runs' \in 0..(7 + MaxReruns)
<1>1. runs \in 0..(7 + MaxReruns) /\ MaxReruns \in Nat
  BY LifecycleAssumption DEF LifecycleInv
<1>2. ASSUME NEW stage \in 1..7, ScriptStep(stage)
      PROVE  runs' \in 0..(7 + MaxReruns)
  BY <1>1, <1>2 DEF ScriptStep
<1>3. CASE Service \/ ArcChain \/ GenLayer
  BY <1>1, <1>3, OthersFrame
<1> QED
  BY <1>2, <1>3 DEF LifecycleNext, BondScript, FundingScript, GenLayerScript, PaymentScript,
     DisputeScript, AdjudicationScript, RefundRun

LEMMA LifecycleStutters ==
  ASSUME LifecycleInv, UNCHANGED lifecycleVars
  PROVE  LifecycleInv'
<1>1. /\ UNCHANGED <<proc, runs>>
      /\ UNCHANGED <<deployTx, bondPending, bondArtifact, bondConfigured, fundTx, funding, glArtifact>>
      /\ UNCHANGED bondVars /\ UNCHANGED glVars /\ UNCHANGED providerVars
      /\ UNCHANGED <<payment, evidence, presented>> /\ UNCHANGED disputes
      /\ UNCHANGED <<prepared, adjudication, reference>>
      /\ UNCHANGED <<settlements, tx>> /\ UNCHANGED workerVars /\ UNCHANGED recovery
  BY DEF lifecycleVars, stageVars, provisioningVars, paymentVars, adjudicationVars, relayOnly
<1>2. RelayInv'
  <2>1. UNCHANGED relayVars
    BY <1>1 DEF relayVars
  <2> QED
    BY <2>1, NextRelayInv DEF LifecycleInv
<1>3. DeployInv'
  BY <1>1 DEF LifecycleInv, DeployInv
<1>4. FundInv'
  BY <1>1 DEF LifecycleInv, FundInv, DepositMined, bondVars
<1>5. GlInv'
  BY <1>1 DEF LifecycleInv, GlInv, GlTypeOK, glVars, IsSuccessfulFinalization
<1>6. SellerInv'
  <2>1. ProviderInv'
    BY <1>1, NextProviderInv DEF LifecycleInv, SellerInv
  <2> QED
    BY <1>1, <2>1 DEF LifecycleInv, SellerInv, providerVars
<1>7. PayInv'
  BY <1>1 DEF LifecycleInv, PayInv, PaymentTypeOK, Served, providerVars
<1>8. AdjInv'
  BY <1>1 DEF LifecycleInv, AdjInv, AdjudicationTypeOK, DecidedByRecorded, Target, OnRecord, glVars
<1>9. RecoveryInv'
  BY <1>1 DEF LifecycleInv, RecoveryInv, RecoveryTypeOK, RefundCall, bondVars, workerVars, providerVars
<1> QED
  BY <1>1, <1>2, <1>3, <1>4, <1>5, <1>6, <1>7, <1>8, <1>9 DEF LifecycleInv

LEMMA NextLifecycleInv == LifecycleInv /\ [LifecycleNext]_lifecycleVars => LifecycleInv'
<1>1. ASSUME LifecycleInv, LifecycleNext PROVE LifecycleInv'
  <2>1. RelayInv' /\ DeployInv' /\ FundInv' /\ GlInv'
    BY <1>1, RelayKeeps, DeployKeeps, FundKeeps, GlKeeps
  <2>2. SellerInv' /\ PayInv' /\ AdjInv' /\ RecoveryInv'
    BY <1>1, SellerKeeps, PayKeeps, AdjKeeps, RecoveryKeeps
  <2> QED
    BY <1>1, <2>1, <2>2, RunsBounded DEF LifecycleInv
<1> QED
  BY <1>1, LifecycleStutters

\* At every point of the demo its files, its store and both chains fit together,
\* stage by stage: what LifecycleInv says is never broken, wherever a script
\* stops and is run again.
THEOREM LifecycleInvariant == LifecycleSpec => []LifecycleInv
  BY LifecycleStarts, NextLifecycleInv, PTL DEF LifecycleSpec

\* Every state of the demo is well-typed.
THEOREM LifecycleTypeCorrect == LifecycleSpec => []LifecycleTypeOK
<1>1. LifecycleInv => LifecycleTypeOK
  <2> SUFFICES ASSUME LifecycleInv PROVE LifecycleTypeOK
    OBVIOUS
  <2>1. ProvisioningTypeOK
    BY DEF LifecycleInv, DeployInv, FundInv, GlInv, ProvisioningTypeOK
  <2>2. ProviderTypeOK /\ GlTypeOK /\ PaymentTypeOK /\ AdjudicationTypeOK /\ RecoveryTypeOK
    BY DEF LifecycleInv, SellerInv, ProviderInv, GlInv, PayInv, AdjInv, RecoveryInv
  <2>3. TypeOK /\ runs \in 0..(7 + MaxReruns)
    BY DEF LifecycleInv, RelayInv
  <2> QED
    BY <2>1, <2>2, <2>3 DEF LifecycleTypeOK, TypeOK
<1> QED
  BY <1>1, LifecycleInvariant, PTL

\* However often fund_warranty_bond.py stops between a broadcast and its
\* artifact, and is run again, the provider's bond is deposited at most once.
THEOREM LifecycleBondsOnce == LifecycleSpec => []BondedOnce
<1>1. LifecycleInv => BondedOnce
  BY ProvisioningAssumption, AmountAssumption DEF LifecycleInv, FundInv, BondedOnce
<1> QED
  BY <1>1, LifecycleInvariant, PTL

\* The buyer gets money back only for the payment that the seller received, on
\* the dispute about it, and after GenLayer found for the buyer.
THEOREM LifecycleRefundsEarned == LifecycleSpec => []RefundIsEarned
<1>1. LifecycleInv => RefundIsEarned
  <2> SUFFICES ASSUME LifecycleInv, refunds # {} PROVE RefundIsEarned
    BY DEF RefundIsEarned
  <2>1. refunds = {RefundCall(DemoBinding)} /\ disputes[DemoDispute] = "upheld"
    BY DEF LifecycleInv, RecoveryInv
  <2>2. DemoAuth \in usedAuth
    BY <2>1, RowAssumption DEF LifecycleInv, RecoveryInv, DisputeStatus
  <2>3. verdicts[DemoDispute] = "violated"
    BY <2>1 DEF LifecycleInv, AdjInv, DecidedByRecorded, Target
  <2> QED
    BY <2>1, <2>2, <2>3 DEF RefundIsEarned
<1> QED
  BY <1>1, LifecycleInvariant, PTL

\* The dispute is decided as GenLayer's contract has it, by the transaction of
\* the artifact, even when the adjudication was submitted twice.
THEOREM LifecycleDecidesByRecord == LifecycleSpec => []DecidedByRecorded
<1>1. LifecycleInv => DecidedByRecorded
  BY DEF LifecycleInv, AdjInv
<1> QED
  BY <1>1, LifecycleInvariant, PTL

\* What a script finds in the files of the ones before it did happen on the
\* chains: deployed, bonded, paid, decided, refunded.
THEOREM LifecycleFilesTrue == LifecycleSpec => []ArtifactsTellTruth
<1>1. LifecycleInv => ArtifactsTellTruth
  <2> SUFFICES ASSUME LifecycleInv PROVE ArtifactsTellTruth
    OBVIOUS
  <2>1. bondConfigured # NoHash => bondConfigured = bondArtifact /\ deployTx[bondArtifact] = "mined"
    BY DEF LifecycleInv, DeployInv
  <2>2. funding # NoRow /\ funding.status = "confirmed" => deposited[Funder] = BondAmount
    BY DEF LifecycleInv, FundInv
  <2>3. /\ evidence # NoRow /\ evidence.code = 200 =>
             settleTx[evidence.hash] = [auth |-> DemoAuth, status |-> "mined"]
        /\ payment # NoRow /\ payment.status = "verified" =>
             evidence # NoRow /\ evidence.code = 200 /\ evidence.hash = payment.hash
    BY DEF LifecycleInv, PayInv, Served
  <2>4. adjudication # NoRow /\ adjudication.status = "finalized" =>
          adjudication.decision = verdicts[DemoDispute]
    BY DEF LifecycleInv, AdjInv
  <2>5. recovery # NoRow =>
          /\ recovery.hash # NoHash => tx[recovery.hash].binding = DemoBinding
          /\ recovery.status = "confirmed" => RefundCall(DemoBinding) \in refunds
    BY DEF LifecycleInv, RecoveryInv, RecoveryTypeOK, RecoveryArtifact
  <2> QED
    BY <2>1, <2>2, <2>3, <2>4, <2>5 DEF ArtifactsTellTruth
<1> QED
  BY <1>1, LifecycleInvariant, PTL

\* In the whole demo, too, an authorization that the seller has a record of is
\* not sent again.
THEOREM LifecycleNeverResends == LifecycleSpec => RecordedNeverResent
<1>1. LifecycleInv /\ [LifecycleNext]_lifecycleVars => [ProviderNext]_providerVars
  <2>1. UNCHANGED lifecycleVars => UNCHANGED providerVars
    BY DEF lifecycleVars, stageVars
  <2> QED
    BY <2>1, SellerKeeps
<1>2. LifecycleInv => ProviderInv
  BY DEF LifecycleInv, SellerInv
<1>3. ProviderInv /\ [ProviderNext]_providerVars =>
        [\A a \in Auth : records[a].status # "none" => Broadcast(a)' = Broadcast(a)]_providerVars
  BY RecordedStays
<1> QED
  BY <1>1, <1>2, <1>3, LifecycleInvariant, PTL DEF LifecycleSpec, RecordedNeverResent

\* The contracts and the store of the demo are the relay's, so what the relay
\* promises of its refunds holds in the whole: the contract covers every bond,
\* nothing is refunded twice, and a settlement is confirmed only when its own
\* transaction paid the buyer.
THEOREM LifecycleKeepsPromise ==
  LifecycleSpec => [](Conserved /\ RefundedOnce /\ SentIsUpheld /\ ConfirmedIsRefunded)
<1>1. LifecycleInv => Conserved /\ RefundedOnce /\ SentIsUpheld /\ ConfirmedIsRefunded
  BY DEF LifecycleInv, RelayInv, BondInv
<1> QED
  BY <1>1, LifecycleInvariant, PTL

-----------------------------------------------------------------------------
(* The relay and the seller, seen in the whole. *)

\* A step of the demo is a step of the one relay it runs, the chain's answer to
\* one of its transactions, or nothing that the relay's record or its worker
\* would show, but that on_transaction may have failed.
LEMMA RelaySeen ==
  ASSUME LifecycleInv, [LifecycleNext]_lifecycleVars
  PROVE  \/ WorkerStep(Runner)
         \/ \E h \in Hash : Mine(h) \/ Drop(h)
         \/ /\ UNCHANGED <<settlements, refundedPayments, tx, pc, job>>
            /\ \/ UNCHANGED goal
               \/ /\ pc[Runner] = "write"
                  /\ goal'[Runner].status = "failed_before_submission"
<1>0. Runner \in Worker /\ DemoBinding \in Binding /\ RelayInv
  BY RefundAssumption, AdjudicationAssumption DEF LifecycleInv
<1>1. CASE UNCHANGED <<settlements, refundedPayments, tx, workerVars>>
  BY <1>1 DEF workerVars
<1>2. CASE RefundRun
  <2>1. CASE StartRefund \/ ConfirmRefund
    BY <1>1, <2>1 DEF StartRefund, ConfirmRefund, bondVars
  <2>2. CASE CallSettle
    BY <1>0, <2>2 DEF CallSettle, WorkerStep
  <2>3. CASE RelayStep \/ SendRefund \/ WriteOutcome \/ StillPending
    BY <2>3 DEF RelayStep, SendRefund, WriteOutcome, StillPending, WorkerStep
  <2>4. CASE RecordRefund
    <3>1. /\ UNCHANGED <<bondVars, settlements, tx, pc, job>>
          /\ pc[Runner] = "write" /\ goal[Runner] \in SettlementRow
      BY <1>0, <2>4 DEF RecordRefund, LifecycleInv, RecoveryInv, RelayInv, WorkerInv, WorkerOK
    <3>2. CASE goal' = [goal EXCEPT ![Runner] = Becomes(@, "failed_before_submission")]
      <4>1. goal'[Runner].status = "failed_before_submission"
        BY <1>0, <3>1, <3>2 DEF Becomes, SettlementRow, RelayInv, TypeOK
      <4> QED
        BY <3>1, <4>1 DEF bondVars
    <3> QED
      BY <2>4, <3>1, <3>2 DEF RecordRefund, bondVars
  <2>5. CASE StopsWithRelay
    <3>1. UNCHANGED <<bondVars, disputes, settlements, tx>>
      BY <2>5 DEF StopsWithRelay
    <3>2. CASE pc[Runner] = "idle"
      BY <1>1, <2>5, <3>1, <3>2 DEF StopsWithRelay, bondVars
    <3>3. CASE pc[Runner] # "idle"
      BY <2>5, <3>1, <3>3 DEF StopsWithRelay, WorkerStep, Crash
    <3> QED
      BY <3>2, <3>3
  <2> QED
    BY <1>2, <2>1, <2>2, <2>3, <2>4, <2>5 DEF RefundRun
<1>3. CASE ArcChain
  <2>1. CASE Deposit(Funder, BondAmount) /\ UNCHANGED <<disputes, settlements, tx, workerVars>>
    BY <1>1, <2>1 DEF Deposit
  <2>2. CASE UNCHANGED relayVars
    BY <1>1, <2>2 DEF relayVars, bondVars
  <2> QED
    BY <1>3, <2>1, <2>2, ChainMoves
<1>4. CASE LifecycleNext /\ ~RefundRun /\ ~ArcChain
  BY <1>1, <1>4, FilesApart DEF bondVars
<1>5. CASE UNCHANGED lifecycleVars
  BY <1>1, <1>5 DEF lifecycleVars, stageVars, bondVars, relayOnly
<1> QED
  BY <1>2, <1>3, <1>4, <1>5

\* The contracts and the store of the demo implement the ledger of refunds,
\* step by step, whatever script runs, stops or is run again.
THEOREM LifecycleImplementsPromise == LifecycleSpec => ImplementsPromise
<1>1. LifecycleInit => Promise!Init
  BY DEF LifecycleInit, BondInit, Promise!Init, StatusOf, BookOf, ClaimOf
<1>2. LifecycleInv /\ [LifecycleNext]_lifecycleVars => [Promise!Next]_(Promise!vars)
  <2> SUFFICES ASSUME LifecycleInv, [LifecycleNext]_lifecycleVars
               PROVE  [Promise!Next]_(Promise!vars)
    OBVIOUS
  <2>1. CASE WorkerStep(Runner) \/ \E h \in Hash : Mine(h) \/ Drop(h)
    BY <2>1, RefundAssumption, PromiseSteps DEF LifecycleInv, Next
  <2>2. CASE UNCHANGED <<settlements, refundedPayments>>
    BY <2>2, SameBook
  <2> QED
    BY <2>1, <2>2, RelaySeen
<1> QED
  BY <1>1, <1>2, LifecycleInvariant, PTL DEF LifecycleSpec, ImplementsPromise, Promise!Spec

\* The demo's seller is the seller of DemoProvider: nothing that the scripts do
\* with it is beyond what its specification lets clients do.
THEOREM LifecycleImplementsSeller == LifecycleSpec => ProviderSpec
<1>1. LifecycleInit => ProviderInit
  BY DEF LifecycleInit
<1>2. LifecycleInv /\ [LifecycleNext]_lifecycleVars => [ProviderNext]_providerVars
  <2>1. UNCHANGED lifecycleVars => UNCHANGED providerVars
    BY DEF lifecycleVars, stageVars
  <2> QED
    BY <2>1, SellerKeeps
<1> QED
  BY <1>1, <1>2, LifecycleInvariant, PTL DEF LifecycleSpec, ProviderSpec

\* In the whole demo a 200 is answered only for a transfer that was mined.
THEOREM LifecycleServesPaid == LifecycleSpec => []ServedMeansPaid
  BY LifecycleImplementsSeller, ProviderServesPaid, PTL

-----------------------------------------------------------------------------
(* One broadcast in the whole, where no clock matters: the script is the only  *)
(* worker, and it attempts what its row says has not been attempted.           *)

Attempting == \/ pc[Runner] \in {"flags", "balance"}
              \/ pc[Runner] = "write" /\ goal[Runner].status = "submission_attempted"

RunnerInv ==
  /\ \A w \in Worker \ {Runner} : pc[w] = "idle"
  /\ Attempting => ~Attempted(DisputeOf[job[Runner]])

\* A step of the worker that goes on to write something else than an attempt.
LEMMA RunnerWrites ==
  ASSUME RelayInv, RunnerInv, NEW row, GoesToWrite(Runner, row),
         row.status # "submission_attempted"
  PROVE  RunnerInv'
<1>1. pc'[Runner] = "write" /\ goal'[Runner] = row
  BY RefundAssumption DEF GoesToWrite, RelayInv, TypeOK
<1>2. \A w \in Worker \ {Runner} : pc'[w] = "idle"
  BY RefundAssumption DEF GoesToWrite, RelayInv, TypeOK, RunnerInv
<1> QED
  BY <1>1, <1>2 DEF RunnerInv, Attempting

LEMMA RunnerEnds ==
  ASSUME RelayInv, RunnerInv, Leaves(Runner)
  PROVE  RunnerInv'
BY RefundAssumption DEF Leaves, RelayInv, TypeOK, RunnerInv, Attempting

\* It turns to the row of its dispute, as it finds it.
LEMMA RunnerEnters ==
  ASSUME RelayInv, RunnerInv, NEW b \in Binding, NEW row, Enters(Runner, b, row),
         settlements'[DisputeOf[b]] = row
  PROVE  RunnerInv'
<1>1. pc'[Runner] = BranchOf(row) /\ job'[Runner] = b
  BY RefundAssumption DEF Enters, RelayInv, TypeOK
<1>2. \A w \in Worker \ {Runner} : pc'[w] = "idle"
  BY RefundAssumption DEF Enters, RelayInv, TypeOK, RunnerInv
<1>3. pc'[Runner] # "write"
  BY <1>1 DEF BranchOf
<1>4. CASE row.status = "eligible"
  BY <1>1, <1>2, <1>4 DEF RunnerInv, Attempted
<1>5. CASE row.status # "eligible"
  <2>1. BranchOf(row) \in {"wait", "resolve", "idle"}
    BY <1>5 DEF BranchOf
  <2> QED
    BY <1>1, <1>2, <2>1 DEF RunnerInv, Attempting
<1> QED
  BY <1>4, <1>5

LEMMA RunnerCreates ==
  ASSUME RelayInv, RunnerInv, Create(Runner)
  PROVE  RunnerInv'
<1>1. PICK b \in Binding : b = job[Runner] /\ DisputeOf[b] \in Dispute
  BY JournalAssumption, RefundAssumption DEF Create, RelayInv, WorkerInv, WorkerOK
<1>2. CASE InsertSettlement(b) /\ Enters(Runner, b, Eligible(b))
  <2>1. settlements'[DisputeOf[b]] = Eligible(b)
    BY <1>1, <1>2 DEF InsertSettlement, RelayInv, TypeOK, JournalTypeOK
  <2> QED
    BY <1>2, <2>1, RunnerEnters
<1>3. ASSUME NEW row \in Conflicting(b), row.binding = b, Enters(Runner, b, row), UNCHANGED settlements
      PROVE  RunnerInv'
  <2>1. PICK d \in Dispute : settlements[d] = row /\ row # NoRow
    BY <1>3 DEF Conflicting
  <2>2. DisputeOf[b] = d
    BY <1>3, <2>1 DEF RelayInv, ChainInv
  <2> QED
    BY <1>3, <2>1, <2>2, RunnerEnters
<1>4. CASE Leaves(Runner)
  BY <1>4, RunnerEnds
<1> QED
  BY <1>1, <1>2, <1>3, <1>4 DEF Create

LEMMA RunnerSteps ==
  ASSUME RelayInv, RunnerInv, WorkerStep(Runner)
  PROVE  RunnerInv'
<1>0. Runner \in Worker
  BY RefundAssumption
<1>1. ASSUME NEW b \in Binding, Settle(Runner, b) PROVE RunnerInv'
  <2>1. CASE /\ settlements[DisputeOf[b]] # NoRow
             /\ Enters(Runner, b, settlements[DisputeOf[b]])
    <3>1. settlements' = settlements
      BY <1>1 DEF Settle
    <3> QED
      BY <2>1, <3>1, RunnerEnters
  <2>2. CASE pc' = [pc EXCEPT ![Runner] = "create"]
    BY <1>0, <2>2 DEF RelayInv, TypeOK, RunnerInv, Attempting
  <2> QED
    BY <1>1, <2>1, <2>2 DEF Settle
<1>2. CASE PreflightFlags(Runner) \/ PreflightBalance(Runner)
  <2>1. /\ ~Attempted(DisputeOf[job[Runner]])
        /\ UNCHANGED <<settlements, job>>
    BY <1>2 DEF PreflightFlags, PreflightBalance, RunnerInv, Attempting
  <2>2. \A w \in Worker \ {Runner} : pc'[w] = "idle"
    BY <1>0, <1>2 DEF PreflightFlags, PreflightBalance, GoesToWrite, RelayInv, TypeOK, RunnerInv
  <2> QED
    BY <2>1, <2>2 DEF RunnerInv, Attempted
<1>3. ASSUME pc[Runner] \in {"send", "resolve", "wait"}
      PROVE  /\ \A status \in SettlementStatus : Becomes(goal[Runner], status).status = status
             /\ \A h \in Hash : [goal[Runner] EXCEPT !.status = "pending", !.hash = h].status = "pending"
             /\ [goal[Runner] EXCEPT !.status = "confirmed"].status = "confirmed"
  BY <1>0, <1>3 DEF RelayInv, WorkerInv, WorkerOK, SettlementRow, Becomes
<1>4. {"ambiguous_submission", "failed_before_submission", "failed", "already_settled"}
        \subseteq SettlementStatus
  BY DEF SettlementStatus
<1>5. CASE Send(Runner)
  <2>1. pc[Runner] = "send"
    BY <1>5 DEF Send
  <2>2. CASE \E h \in Hash : GoesToWrite(Runner, [goal[Runner] EXCEPT !.status = "pending", !.hash = h])
    BY <1>3, <2>1, <2>2, RunnerWrites
  <2>3. CASE \E status \in {"ambiguous_submission", "failed_before_submission"} :
               GoesToWrite(Runner, Becomes(goal[Runner], status))
    BY <1>3, <1>4, <2>1, <2>3, RunnerWrites
  <2> QED
    BY <1>5, <2>2, <2>3 DEF Send
<1>6. CASE ResolveAmbiguous(Runner)
  <2>1. pc[Runner] = "resolve"
    BY <1>6 DEF ResolveAmbiguous
  <2>2. CASE \E status \in {"ambiguous_submission", "already_settled"} :
               GoesToWrite(Runner, Becomes(goal[Runner], status))
    BY <1>3, <1>4, <2>1, <2>2, RunnerWrites
  <2> QED
    BY <1>6, <2>2, RunnerEnds DEF ResolveAmbiguous
<1>7. CASE Receipt(Runner)
  <2>1. pc[Runner] = "wait"
    BY <1>7 DEF Receipt
  <2>2. CASE GoesToWrite(Runner, [goal[Runner] EXCEPT !.status = "confirmed"])
    BY <1>3, <2>1, <2>2, RunnerWrites
  <2>3. CASE GoesToWrite(Runner, Becomes(goal[Runner], "failed"))
    BY <1>3, <1>4, <2>1, <2>3, RunnerWrites
  <2> QED
    BY <1>7, <2>2, <2>3 DEF Receipt
<1>8. CASE Write(Runner)
  <2>1. CASE Leaves(Runner)
    BY <2>1, RunnerEnds
  <2>2. CASE pc' = [pc EXCEPT ![Runner] = AfterWrite(goal[Runner])]
    <3>1. AfterWrite(goal[Runner]) \in {"send", "wait", "idle"}
      BY DEF AfterWrite
    <3> QED
      BY <1>0, <2>2, <3>1 DEF RelayInv, TypeOK, RunnerInv, Attempting
  <2> QED
    BY <1>8, <2>1, <2>2 DEF Write
<1>9. CASE WriteRefused(Runner) \/ NoReceipt(Runner) \/ Crash(Runner)
  BY <1>9, RunnerEnds DEF WriteRefused, NoReceipt, Crash
<1> QED
  BY <1>1, <1>2, <1>5, <1>6, <1>7, <1>8, <1>9, RunnerCreates DEF WorkerStep

\* The one worker commits its own attempts: a record it finds written already is
\* not one.
LEMMA RunnerSendsOnce ==
  ASSUME RelayInv, OnceInv, RunnerInv, WorkerStep(Runner)
  PROVE  OnceInv'
<1>0. Runner \in Worker
  BY RefundAssumption
<1>1. CASE Write(Runner) /\ EchoSettlement(goal[Runner])
  <2>1. goal[Runner].status # "submission_attempted"
    <3>1. /\ goal[Runner].binding = job[Runner] /\ goal[Runner] # NoRow
          /\ settlements[DisputeOf[job[Runner]]] = goal[Runner]
      BY <1>0, <1>1, RowAssumption DEF Write, EchoSettlement, RelayInv, WorkerInv, WorkerOK
    <3> QED
      BY <1>1, <3>1 DEF RunnerInv, Attempting, Attempted, Write
  <2>2. AfterWrite(goal[Runner]) # "send"
    BY <2>1 DEF AfterWrite
  <2>3. /\ UNCHANGED <<settlements, tx>> /\ pc'[Runner] # "send"
        /\ \A v \in Worker \ {Runner} : UNCHANGED <<pc[v], job[v]>>
    BY <1>0, <1>1, <2>2 DEF Write, EchoSettlement, Leaves, RelayInv, TypeOK
  <2> QED
    BY <1>0, <2>3, OnceQuiet
<1>2. CASE Write(Runner) /\ CommitSettlement(goal[Runner])
  BY <1>0, <1>2, OnceCommits
<1> QED
  BY <1>0, <1>1, <1>2, OnceCreate, OnceSend, OnceOtherSteps DEF Write

LEMMA LifecycleOnce ==
  LifecycleInv /\ OnceInv /\ RunnerInv /\ [LifecycleNext]_lifecycleVars => OnceInv' /\ RunnerInv'
<1> SUFFICES ASSUME LifecycleInv, OnceInv, RunnerInv, [LifecycleNext]_lifecycleVars
             PROVE  OnceInv' /\ RunnerInv'
  OBVIOUS
<1>0. RelayInv
  BY DEF LifecycleInv
<1>1. CASE WorkerStep(Runner)
  BY <1>0, <1>1, RunnerSteps, RunnerSendsOnce
<1>2. ASSUME NEW h \in Hash, Mine(h) \/ Drop(h) PROVE OnceInv' /\ RunnerInv'
  <2>1. UNCHANGED <<settlements, pc, job, goal>>
    BY <1>2 DEF Mine, Drop, workerVars
  <2> QED
    BY <1>0, <1>2, <2>1, OnceChain DEF RunnerInv, Attempting, Attempted
<1>3. CASE /\ UNCHANGED <<settlements, tx, pc, job>>
           /\ \/ UNCHANGED goal
              \/ goal'[Runner].status = "failed_before_submission"
  <2>1. \A d \in Dispute : Attempted(d) => Attempted(d)'
    BY <1>3 DEF Attempted
  <2>2. OnceInv'
    BY <1>0, <1>3, <2>1, OnceTyped, OnceStays
  <2>3. RunnerInv'
    BY <1>3 DEF RunnerInv, Attempting, Attempted
  <2> QED
    BY <2>2, <2>3
<1> QED
  BY <1>1, <1>2, <1>3, RelaySeen

\* Over all runs of the refund script, stopped and started again wherever they
\* may be, one refund is broadcast, and that without a condition on the clocks:
\* one worker never takes its own record for another's.
THEOREM LifecycleBroadcastsOnce == LifecycleSpec => []OneBroadcast
<1>1. LifecycleInit => OnceInv /\ RunnerInv
  BY RefundAssumption DEF LifecycleInit, OnceInv, OneBroadcast, NoTx, RunnerInv, Attempting
<1>2. OnceInv => OneBroadcast
  BY DEF OnceInv
<1> QED
  BY <1>1, <1>2, LifecycleOnce, LifecycleInvariant, PTL DEF LifecycleSpec

-----------------------------------------------------------------------------
(* The closing checks of the refund script. *)

\* Nobody but the demo's provider has a bond, and the outcome that the script
\* checks is the one on record.
CheckInv ==
  /\ \A v \in Provider \ {Funder} : deposited[v] = 0
  /\ proc.at = "refund_check" =>
       StatusOf(DemoDispute) = "confirmed" /\ settlements[DemoDispute].hash = proc.held

LEMMA CheckSteps ==
  LifecycleInv /\ CheckInv /\ [LifecycleNext]_lifecycleVars => CheckInv'
<1> SUFFICES ASSUME LifecycleInv, CheckInv, [LifecycleNext]_lifecycleVars PROVE CheckInv'
  OBVIOUS
<1>0. /\ Runner \in Worker /\ DemoBinding \in Binding /\ RelayInv /\ DemoDispute \in Dispute
      /\ DemoDispute = DisputeOf[DemoBinding]
  BY RefundAssumption, AdjudicationAssumption, JournalAssumption DEF LifecycleInv, DemoDispute
<1>1. \A v \in Provider \ {Funder} : deposited'[v] = 0
  <2>1. CASE UNCHANGED bondVars
    BY <2>1 DEF bondVars, CheckInv
  <2>2. CASE ArcChain
    <3>1. CASE Deposit(Funder, BondAmount)
      BY <1>0, <3>1, ProvisioningAssumption DEF Deposit, CheckInv, RelayInv, BondInv, BondTypeOK
    <3>2. CASE \E h \in Hash : Mine(h) \/ Drop(h)
      BY <3>2 DEF Mine, Drop, Refund, RefundEffects, bondVars, CheckInv
    <3> QED
      BY <2>1, <2>2, <3>1, <3>2, ChainMoves DEF relayVars
  <2>3. CASE UNCHANGED lifecycleVars
    BY <2>1, <2>3 DEF lifecycleVars, stageVars
  <2> QED
    BY <2>1, <2>2, <2>3, FilesApart
<1>2. ASSUME proc'.at = "refund_check", proc' = proc, UNCHANGED settlements
      PROVE  StatusOf(DemoDispute)' = "confirmed" /\ settlements'[DemoDispute].hash = proc'.held
  BY <1>2 DEF CheckInv, StatusOf
<1>3. ASSUME proc'.at = "refund_check"
      PROVE  StatusOf(DemoDispute)' = "confirmed" /\ settlements'[DemoDispute].hash = proc'.held
  <2>1. CASE RefundRun
    <3>1. WriteOutcome /\ goal[Runner].status = "confirmed" /\ GoesTo("refund_check", goal[Runner].hash)
      <4>1. CASE StartRefund \/ CallSettle \/ RecordRefund \/ StillPending \/ ConfirmRefund \/ StopsWithRelay
        BY <1>3, <4>1 DEF StartRefund, CallSettle, RecordRefund, StillPending, ConfirmRefund,
                         StopsWithRelay, Stops, GoesTo, Ends, Idle
      <4>2. CASE RelayStep \/ SendRefund
        BY <1>3, <4>2 DEF RelayStep, SendRefund, GoesTo, Ends, Idle
      <4>3. CASE WriteOutcome
        BY <1>3, <4>3 DEF WriteOutcome, Ends, Idle
      <4> QED
        BY <2>1, <4>1, <4>2, <4>3 DEF RefundRun
    <3>2. PICK row \in SettlementRow : row = goal[Runner] /\ row.binding = DemoBinding
      BY <1>0, <3>1 DEF WriteOutcome, Write, RelayInv, WorkerInv, WorkerOK, LifecycleInv, RecoveryInv
    <3>3. settlements'[DemoDispute] = row
      BY <1>0, <3>1, <3>2 DEF WriteOutcome, Write, CommitSettlement, EchoSettlement,
                              RelayInv, TypeOK, JournalTypeOK
    <3>4. proc'.held = row.hash
      BY <3>1, <3>2 DEF GoesTo
    <3> QED
      BY <3>1, <3>2, <3>3, <3>4, RowAssumption DEF StatusOf
  <2>2. CASE LifecycleNext /\ ~RefundRun
    BY <1>2, <1>3, <2>2, FilesApart, ScriptsApart DEF Elsewhere, RefundLabels
  <2>3. CASE UNCHANGED lifecycleVars
    BY <1>2, <1>3, <2>3 DEF lifecycleVars, stageVars, relayOnly
  <2> QED
    BY <2>1, <2>2, <2>3
<1> QED
  BY <1>1, <1>3 DEF CheckInv

\* One refund from the only bond there is leaves what main expects.
LEMMA BondAfterRefund ==
  ASSUME LifecycleInv, CheckInv, RefundCall(DemoBinding) \in refunds
  PROVE  /\ providerBondBalance[ProviderOf[DemoBinding]] = BondAmount - AmountOf[DemoBinding]
         /\ held = BondAmount - AmountOf[DemoBinding]
<1> DEFINE r == RefundCall(DemoBinding)
           v == ProviderOf[DemoBinding]
           f == AmountsOf(refunds)
<1>1. /\ refunds = {r} /\ r.amount = AmountOf[DemoBinding] /\ r.provider = v
      /\ v \in Provider /\ AmountOf[DemoBinding] \in 1..MaxAmount
  BY RelayAssumption, AdjudicationAssumption DEF LifecycleInv, RecoveryInv, RefundCall
<1>2. /\ \A u \in Provider : deposited[u] = providerBondBalance[u] + TotalOf(RefundsOf(u), f)
      /\ held = TotalOf(Provider, providerBondBalance)
      /\ \A u \in Provider : providerBondBalance[u] \in 0..MaxAmount
  BY DEF LifecycleInv, RelayInv, BondInv, Conserved, BondTypeOK
<1>3. RefundsOf(v) = {r} /\ f[r] = AmountOf[DemoBinding]
  BY <1>1 DEF RefundsOf, AmountsOf
<1>4. TotalOf(RefundsOf(v), f) = AmountOf[DemoBinding]
  <2>1. IsFiniteSet({r})
    BY FS_Singleton
  <2>2. f[r] \in 0..MaxAmount /\ r \in {r} /\ \A y \in {r} \ {r} : f[y] = 0
    BY <1>1, <1>3, AmountAssumption
  <2> HIDE DEF r, f
  <2>3. TotalOf({r}, f) = f[r]
    BY <2>1, <2>2, UnitsOfOne
  <2> QED
    BY <1>3, <2>3
<1>5. deposited[v] = providerBondBalance[v] + AmountOf[DemoBinding]
  BY <1>1, <1>2, <1>4
<1>6. v = Funder
  BY <1>1, <1>2, <1>5, AmountAssumption DEF CheckInv
<1>7. deposited[v] = BondAmount
  BY <1>1, <1>2, <1>5, <1>6, AmountAssumption, ProvisioningAssumption DEF LifecycleInv, FundInv
<1>8. \A u \in Provider \ {v} : providerBondBalance[u] = 0
  <2> SUFFICES ASSUME NEW u \in Provider \ {v} PROVE providerBondBalance[u] = 0
    OBVIOUS
  <2>1. deposited[u] = 0
    BY <1>6 DEF CheckInv
  <2>2. TotalOf(RefundsOf(u), f) \in Nat
    BY FS_Subset, UnitsFinite DEF LifecycleInv, RelayInv, BondInv, RefundsOf, TotalOf
  <2> QED
    BY <1>2, <2>1, <2>2, AmountAssumption
<1>9. TotalOf(Provider, providerBondBalance) = providerBondBalance[v]
  BY <1>1, <1>2, <1>8, BondAssumption, UnitsOfOne
<1> QED
  BY <1>1, <1>2, <1>5, <1>7, <1>9, AmountAssumption, ProvisioningAssumption

\* The script's checks after the refund never fail.
THEOREM LifecycleClosingChecks == LifecycleSpec => []ClosingChecksHold
<1>1. LifecycleInit => CheckInv
  BY DEF LifecycleInit, BondInit, ProvisioningInit, Idle, CheckInv
<1>2. LifecycleInv /\ CheckInv => ClosingChecksHold
  <2> SUFFICES ASSUME LifecycleInv, CheckInv, proc.at = "refund_check" PROVE ClosingChecksHold
    BY DEF ClosingChecksHold
  <2>1. /\ settlements[DemoDispute] # NoRow /\ settlements[DemoDispute].status = "confirmed"
        /\ settlements[DemoDispute].hash = proc.held /\ DemoDispute \in Dispute
        /\ DisputeOf[settlements[DemoDispute].binding] = DemoDispute
        /\ Truthful(settlements[DemoDispute])
    BY AdjudicationAssumption, JournalAssumption
    DEF CheckInv, StatusOf, LifecycleInv, RelayInv, ChainInv, ConfirmedIsRefunded, DemoDispute
  <2>2. /\ tx[proc.held] = [binding |-> settlements[DemoDispute].binding, status |-> "mined"]
        /\ proc.held \in Hash
    BY <2>1 DEF Truthful, LifecycleInv, RelayInv, TypeOK, JournalTypeOK, ValidRow, SettlementRow
  <2>3. settlements[DemoDispute].binding = DemoBinding
    <3>1. tx[proc.held] # NoTx /\ tx[proc.held].binding = settlements[DemoDispute].binding
      BY <2>2 DEF NoTx
    <3> QED
      BY <2>2, <3>1 DEF LifecycleInv, RecoveryInv
  <2>4. RefundCall(DemoBinding) \in refunds
    BY <2>1, <2>3 DEF Truthful
  <2> QED
    BY <2>1, <2>2, <2>3, <2>4, BondAfterRefund DEF ClosingChecksHold, StatusOf
<1> QED
  BY <1>1, <1>2, CheckSteps, LifecycleInvariant, PTL DEF LifecycleSpec

\* Wherever a run of the refund script stops, its artifact names no other
\* transaction than the one refund that was sent.
THEOREM LifecycleRecoversIt == LifecycleSpec => []RecoveryNamesIt
<1>1. LifecycleInv /\ OneBroadcast => RecoveryNamesIt
  <2> SUFFICES ASSUME LifecycleInv, OneBroadcast, NEW h \in Hash, tx[h] # NoTx,
                      recovery # NoRow, recovery.hash # NoHash
               PROVE  recovery.hash = h
    BY DEF RecoveryNamesIt
  <2>1. recovery.hash \in Hash /\ tx[recovery.hash] # NoTx
    BY DEF LifecycleInv, RecoveryInv, RecoveryTypeOK, RecoveryArtifact
  <2>2. tx[recovery.hash].binding = DemoBinding /\ tx[h].binding = DemoBinding
    BY <2>1 DEF LifecycleInv, RecoveryInv
  <2> QED
    BY <2>1, <2>2 DEF OneBroadcast
<1> QED
  BY <1>1, LifecycleInvariant, LifecycleBroadcastsOnce, PTL
=============================================================================
