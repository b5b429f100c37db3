---------------------- MODULE DurableIdempotency_proofs ----------------------
(***************************************************************************)
(* Theorems of DurableIdempotency, for every number of requests, keys and  *)
(* bindings and every lease, expiry and bound; the refinement of            *)
(* IdempotentExecution is at the end.                                      *)
(***************************************************************************)
EXTENDS DurableIdempotencyRefinement, TLAPS

\* The records the actions build are of the declared types.
LEMMA CallOfType ==
    ASSUME NEW p \in Phase, NEW k \in Keys \cup {None}, NEW b \in Bindings \cup {None},
           NEW t \in Nat, NEW f \in Requests \cup {None}, NEW a \in Requests \cup {None}
    PROVE  CallOf(p, k, b, t, f, a) \in Call
  BY DEF CallOf, Call

LEMMA PurgedType == TypeOK => Purged \in [Keys -> Row]
  BY DEF TypeOK, Purged, NoRow, Row

LEMMA AnswerType ==
    ASSUME TypeOK, NEW r \in Requests, NEW k \in Keys, NEW b \in Bindings,
           NEW p \in Phase \ {"waiting"}, NEW a \in Requests \cup {None},
           Answer(r, k, b, p, a), UNCHANGED <<now, crashes>>
    PROVE  TypeOK'
<1>1. CallOf(p, k, b, 0, None, a) \in Call
  BY CallOfType
<1>2. CallOf(p, k, b, 0, None, a).phase # "waiting"
  BY DEF CallOf
<1> QED BY <1>1, <1>2, PurgedType DEF Answer, TypeOK, Waiting

LEMMA BecomeExecutorType ==
    ASSUME TypeOK, NEW r \in Requests, NEW k \in Keys, NEW b \in Bindings,
           BecomeExecutor(r, k, b), rows' \in [Keys -> Row], UNCHANGED <<now, crashes>>
    PROVE  TypeOK'
<1>1. CallOf("executing", k, b, now, None, None) \in Call
  BY CallOfType DEF TypeOK, Phase
<1>2. CallOf("executing", k, b, now, None, None).phase # "waiting"
  BY DEF CallOf
<1>3. [state |-> "open", result |-> None] \in Future
  BY DEF Future
<1> QED BY <1>1, <1>2, <1>3 DEF BecomeExecutor, TypeOK, Waiting

LEMMA ClaimType ==
    ASSUME TypeOK, NEW r \in Requests, NEW k \in Keys, NEW b \in Bindings,
           Claim(r, k, b)
    PROVE  TypeOK'
<1>1. UNCHANGED <<now, crashes>>
  BY DEF Claim
<1>2. CASE ClaimNew(r, k, b)
  <2>1. PendingRow(b) \in Row
    BY DurationsAreNat DEF PendingRow, Row, TypeOK
  <2>2. rows' \in [Keys -> Row]
    BY <1>2, <2>1, PurgedType DEF ClaimNew
  <2> QED BY <1>1, <1>2, <2>2, BecomeExecutorType DEF ClaimNew
<1>3. CASE ClaimConflict(r, k, b)
  BY <1>1, <1>3, AnswerType DEF ClaimConflict, Phase
<1>4. CASE ClaimReplay(r, k, b)
  <2>1. Purged[k].result \in Requests \cup {None}
    BY PurgedType DEF Row
  <2> QED BY <1>1, <1>4, <2>1, AnswerType DEF ClaimReplay, Phase
<1>5. CASE ClaimTakeover(r, k, b)
  <2>1. RenewedRow(Purged[k]) \in Row
    BY DurationsAreNat, PurgedType DEF RenewedRow, Row, TypeOK
  <2>2. rows' \in [Keys -> Row]
    BY <1>5, <2>1, PurgedType DEF ClaimTakeover
  <2> QED BY <1>1, <1>5, <2>2, BecomeExecutorType DEF ClaimTakeover
<1>6. CASE ClaimWait(r, k, b)
  <2>1. pending[k] \in Requests
    BY <1>6 DEF ClaimWait, TypeOK
  <2>2. CallOf("waiting", k, b, now, pending[k], None) \in Call
    BY <2>1, CallOfType DEF TypeOK, Phase
  <2>3. CallOf("waiting", k, b, now, pending[k], None).on = pending[k]
    BY DEF CallOf
  <2> QED BY <1>1, <1>6, <2>1, <2>2, <2>3, PurgedType DEF ClaimWait, TypeOK, Waiting
<1>7. CASE ClaimInProgress(r, k, b)
  BY <1>1, <1>7, AnswerType DEF ClaimInProgress, Phase
<1> QED BY <1>2, <1>3, <1>4, <1>5, <1>6, <1>7 DEF Claim

LEMMA EndedType ==
    ASSUME TypeOK, NEW r \in Requests, NEW p \in Phase, NEW a \in Requests \cup {None}
    PROVE  /\ Ended(call[r], p, a) \in Call
           /\ Ended(call[r], p, a).phase = p
<1>1. call[r].key \in Keys \cup {None} /\ call[r].binding \in Bindings \cup {None}
  BY DEF TypeOK, Call
<1> QED BY <1>1, CallOfType DEF Ended, CallOf

LEMMA TypeInit == Init => TypeOK
<1>1. NoCall \in Call /\ NoCall.phase = "idle"
  BY CallOfType DEF NoCall, CallOf, Phase
<1> QED BY <1>1 DEF Init, TypeOK, Row, NoRow, Future, NoFuture, Waiting

LEMMA TypeStep == TypeOK /\ [Next]_vars => TypeOK'
<1> SUFFICES ASSUME TypeOK, [Next]_vars PROVE TypeOK'
  OBVIOUS
<1>1. ASSUME NEW r \in Requests, NEW k \in Keys, NEW b \in Bindings, Claim(r, k, b)
      PROVE  TypeOK'
  BY <1>1, ClaimType
<1>2. ASSUME NEW r \in Requests, WakeWithResponse(r) PROVE TypeOK'
  <2>1. future[call[r].on].result \in Requests \cup {None}
    BY <1>2 DEF WakeWithResponse, TypeOK, Future
  <2>2. Ended(call[r], "replayed", future[call[r].on].result) \in Call
    BY <2>1, EndedType DEF Phase
  <2>3. Ended(call[r], "replayed", future[call[r].on].result).phase = "replayed"
    BY <2>1, EndedType DEF Phase
  <2> QED BY <1>2, <2>2, <2>3 DEF WakeWithResponse, TypeOK, Waiting
<1>3. ASSUME NEW r \in Requests, WaitTimeout(r) PROVE TypeOK'
  <2> DEFINE c == Ended(call[r], "in_progress", None)
  <2>0. "in_progress" \in Phase
    BY DEF Phase
  <2>1. c \in Call /\ c.phase = "in_progress"
    BY <2>0, EndedType
  <2>2. [state |-> "cancelled", result |-> None] \in Future
    BY DEF Future
  <2> QED BY <1>3, <2>1, <2>2 DEF WaitTimeout, TypeOK, Waiting
<1>4. ASSUME NEW r \in Requests, WakeCancelled(r) PROVE TypeOK'
  <2>1. /\ Ended(call[r], "aborted", None) \in Call
        /\ Ended(call[r], "aborted", None).phase = "aborted"
    BY EndedType DEF Phase
  <2> QED BY <1>4, <2>1 DEF WakeCancelled, TypeOK, Waiting
<1>5. ASSUME NEW r \in Requests, Store(r) PROVE TypeOK'
  <2>1. /\ Ended(call[r], "stored", None) \in Call
        /\ Ended(call[r], "stored", None).phase = "stored"
    BY EndedType DEF Phase
  <2>2. ASSUME NEW k \in Keys PROVE CompletedRow(rows[k], r) \in Row
    BY DurationsAreNat DEF CompletedRow, Row, TypeOK
  <2>3. rows' \in [Keys -> Row]
    BY <1>5, <2>2 DEF Store, TypeOK
  <2>4. [state |-> "done", result |-> r] \in Future
    BY DEF Future
  <2>5. /\ pending' \in [Keys -> Requests \cup {None}]
        /\ future' \in [Requests -> Future]
    BY <1>5, <2>4 DEF Store, Resolve, TypeOK
  <2> QED BY <1>5, <2>1, <2>3, <2>5 DEF Store, TypeOK, Waiting
<1>6. ASSUME NEW r \in Requests, StoreFails(r) PROVE TypeOK'
  <2>1. /\ Ended(call[r], "unstored", None) \in Call
        /\ Ended(call[r], "unstored", None).phase = "unstored"
    BY EndedType DEF Phase
  <2> QED BY <1>6, <2>1 DEF StoreFails, TypeOK, Waiting
<1>7. CASE Tick
  BY <1>7 DEF Tick, TypeOK, Waiting
<1>8. CASE Crash
  <2>1. ASSUME NEW r \in Requests
        PROVE  /\ Ended(call[r], "lost", None) \in Call
               /\ Ended(call[r], "lost", None).phase = "lost"
    BY EndedType DEF Phase
  <2> QED BY <1>8, <2>1 DEF Crash, TypeOK, Waiting, NoFuture, Future
<1>9. CASE UNCHANGED vars
  BY <1>9 DEF vars, TypeOK, Waiting
<1> QED BY <1>1, <1>2, <1>3, <1>4, <1>5, <1>6, <1>7, <1>8, <1>9 DEF Next

\* Every variable keeps its type through claims, waits, stores, time and the
\* death of the process.
THEOREM TypeCorrect == Spec => []TypeOK
  BY TypeInit, TypeStep, PTL DEF Spec

-----------------------------------------------------------------------------
(* What every step leaves alone *)

\* Once a call has named its key and binding it keeps them.
LEMMA CallsKeepBinding ==
    ASSUME TypeOK, [Next]_vars, NEW r \in Requests, call[r].phase # "idle"
    PROVE  /\ call'[r].phase # "idle"
           /\ call'[r].key = call[r].key
           /\ call'[r].binding = call[r].binding
<1>1. ASSUME NEW s \in Requests, NEW k \in Keys, NEW b \in Bindings, Claim(s, k, b)
      PROVE  call'[r] = call[r]
  BY <1>1 DEF Claim, ClaimNew, ClaimConflict, ClaimReplay, ClaimTakeover,
     ClaimWait, ClaimInProgress, BecomeExecutor, Answer, TypeOK
<1>2. ASSUME NEW s \in Requests, NEW p \in Phase \ {"idle"}, NEW a,
             call' = [call EXCEPT ![s] = Ended(call[s], p, a)]
      PROVE  /\ call'[r].phase # "idle"
             /\ call'[r].key = call[r].key
             /\ call'[r].binding = call[r].binding
  BY <1>2 DEF Ended, CallOf, TypeOK
<1>3. ASSUME NEW s \in Requests,
             \/ WakeWithResponse(s) \/ WaitTimeout(s) \/ WakeCancelled(s)
             \/ Store(s) \/ StoreFails(s)
      PROVE  \E p \in Phase \ {"idle"} : \E a :
                call' = [call EXCEPT ![s] = Ended(call[s], p, a)]
  <2>1. "replayed" \in Phase \ {"idle"} /\ "in_progress" \in Phase \ {"idle"}
    BY DEF Phase
  <2>2. "aborted" \in Phase \ {"idle"} /\ "stored" \in Phase \ {"idle"}
    BY DEF Phase
  <2>3. "unstored" \in Phase \ {"idle"}
    BY DEF Phase
  <2> QED BY <1>3, <2>1, <2>2, <2>3
          DEF WakeWithResponse, WaitTimeout, WakeCancelled, Store, StoreFails
<1>4. CASE Crash
  BY <1>4 DEF Crash, Ended, CallOf, TypeOK
<1>5. CASE Tick \/ UNCHANGED vars
  BY <1>5 DEF Tick, vars
<1> QED BY <1>1, <1>2, <1>3, <1>4, <1>5 DEF Next

\* An answered call, and so the authorship of a response, never changes.
LEMMA AnsweredCallsStay ==
    ASSUME TypeOK, [Next]_vars, NEW r \in Requests,
           call[r].phase \notin {"idle", "executing", "waiting"}
    PROVE  call'[r] = call[r]
<1>1. ASSUME NEW s \in Requests, NEW k \in Keys, NEW b \in Bindings, Claim(s, k, b)
      PROVE  call'[r] = call[r]
  BY <1>1 DEF Claim, ClaimNew, ClaimConflict, ClaimReplay, ClaimTakeover,
     ClaimWait, ClaimInProgress, BecomeExecutor, Answer, TypeOK
<1>2. ASSUME NEW s \in Requests,
             \/ WakeWithResponse(s) \/ WaitTimeout(s) \/ WakeCancelled(s)
             \/ Store(s) \/ StoreFails(s)
      PROVE  call'[r] = call[r]
  BY <1>2 DEF WakeWithResponse, WaitTimeout, WakeCancelled, Store, StoreFails,
     Executing, Waiting, TypeOK
<1>3. CASE Crash
  BY <1>3 DEF Crash, Executing, Waiting, TypeOK
<1>4. CASE Tick \/ UNCHANGED vars
  BY <1>4 DEF Tick, vars
<1> QED BY <1>1, <1>2, <1>3, <1>4 DEF Next

LEMMA AuthorsStay ==
    ASSUME TypeOK, [Next]_vars, NEW s \in Requests \cup {None}, NEW k, NEW b,
           Author(call, s, k, b)
    PROVE  Author(call', s, k, b)
  BY AnsweredCallsStay DEF Author

\* A purge takes no row from under a claimant that is still within Ttl, and
\* no row a future is registered for.
LEMMA PurgeKeeps ==
    ASSUME MaxRun <= Ttl, SafetyInv
    PROVE  /\ \A r \in Requests : Executing(r) =>
                 Purged[call[r].key] = rows[call[r].key]
           /\ \A k \in Keys : pending[k] # None => Purged[k] = rows[k]
           /\ \A k \in Keys : Purged[k].state # "absent" => Purged[k] = rows[k]
<1>1. ASSUME NEW r \in Requests, Executing(r)
      PROVE  Purged[call[r].key] = rows[call[r].key]
  <2> DEFINE k == call[r].key
  <2>1. k \in Keys
    BY <1>1 DEF SafetyInv, CallsAreBound, Executing
  <2>2. rows[k].expires >= call[r].since + Ttl
    BY <1>1 DEF SafetyInv, ExecutorKeepsRow
  <2>3. now <= call[r].since + MaxRun
    BY <1>1 DEF SafetyInv, ExecutorOnTime
  <2>4. /\ rows[k].expires \in Nat /\ call[r].since \in Nat /\ now \in Nat
        /\ MaxRun \in Nat /\ Ttl \in Nat
    BY <2>1, DurationsAreNat DEF SafetyInv, TypeOK, Row, Call
  <2>5. ~(rows[k].expires < now)
    BY <2>2, <2>3, <2>4
  <2> QED BY <2>1, <2>5 DEF Purged, Expired
<1>2. ASSUME NEW k \in Keys, pending[k] # None
      PROVE  Purged[k] = rows[k]
  BY <1>2 DEF SafetyInv, RegisteredFutureIsOfPendingRow, Purged, Expired
<1>3. ASSUME NEW k \in Keys, Purged[k].state # "absent"
      PROVE  Purged[k] = rows[k]
  BY <1>3 DEF Purged, NoRow
<1> QED BY <1>1, <1>2, <1>3

-----------------------------------------------------------------------------
(* Frame lemmas: each conjunct, when a step leaves what it speaks of alone *)

LEMMA FrameBound ==
    ASSUME SafetyInv, [Next]_vars,
           \A r \in Requests : call[r].phase = "idle" /\ call'[r].phase # "idle" =>
              call'[r].key \in Keys /\ call'[r].binding \in Bindings
    PROVE  CallsAreBound'
  BY CallsKeepBinding DEF SafetyInv, CallsAreBound

LEMMA FrameExecutors ==
    ASSUME SafetyInv, now' = now,
           \A r \in Requests : Executing(r)' =>
              /\ call'[r] = call[r]
              /\ rows'[call[r].key] = rows[call[r].key]
    PROVE  ExecutorOnTime' /\ ExecutorKeepsRow' /\ OneExecutorWithinLease'
<1>1. \A r \in Requests : Executing(r)' => Executing(r)
  BY DEF Executing
<1>2. ExecutorOnTime'
  BY <1>1 DEF SafetyInv, ExecutorOnTime
<1>3. ExecutorKeepsRow'
  BY <1>1 DEF SafetyInv, ExecutorKeepsRow, RowMatches
<1>4. OneExecutorWithinLease'
  BY <1>1 DEF SafetyInv, OneExecutorWithinLease
<1> QED BY <1>2, <1>3, <1>4

LEMMA FrameCompleted ==
    ASSUME SafetyInv, [Next]_vars,
           \A k \in Keys : rows'[k].state = "completed" => rows'[k] = rows[k]
    PROVE  CompletedRowHasAuthor'
<1> SUFFICES ASSUME NEW k \in Keys, rows'[k].state = "completed"
             PROVE  Author(call', rows'[k].result, k, rows'[k].binding)
  BY DEF CompletedRowHasAuthor
<1>1. rows[k].result \in Requests \cup {None}
  BY DEF SafetyInv, TypeOK, Row
<1>2. Author(call, rows[k].result, k, rows[k].binding)
  BY DEF SafetyInv, CompletedRowHasAuthor
<1> QED BY <1>1, <1>2, AuthorsStay DEF SafetyInv

LEMMA FrameRegistered ==
    ASSUME SafetyInv, [Next]_vars,
           \A k \in Keys : pending'[k] # None =>
              pending'[k] = pending[k] /\ rows'[k] = rows[k]
    PROVE  RegisteredFutureIsOfPendingRow'
<1> SUFFICES ASSUME NEW k \in Keys, pending'[k] # None
             PROVE  /\ rows'[k].state = "pending"
                    /\ rows'[k].binding = call'[pending'[k]].binding
                    /\ call'[pending'[k]].key = k
                    /\ call'[pending'[k]].phase # "idle"
  BY DEF RegisteredFutureIsOfPendingRow
<1>1. pending[k] \in Requests /\ call[pending[k]].phase # "idle"
  BY DEF SafetyInv, TypeOK, RegisteredFutureIsOfPendingRow
<1> QED BY <1>1, CallsKeepBinding DEF SafetyInv, RegisteredFutureIsOfPendingRow

LEMMA FrameOpened ==
    ASSUME SafetyInv, [Next]_vars,
           \A f \in Requests : future'[f].state # "none" => future[f].state # "none"
    PROVE  OpenedByClaim'
  BY CallsKeepBinding DEF SafetyInv, OpenedByClaim

LEMMA FrameDone ==
    ASSUME SafetyInv, [Next]_vars,
           \A f \in Requests : future'[f].state = "done" => future'[f] = future[f]
    PROVE  DoneFutureHasAuthor'
<1> SUFFICES ASSUME NEW f \in Requests, future'[f].state = "done"
             PROVE  Author(call', future'[f].result, call'[f].key, call'[f].binding)
  BY DEF DoneFutureHasAuthor
<1>1. call'[f].key = call[f].key /\ call'[f].binding = call[f].binding
  BY CallsKeepBinding DEF SafetyInv, OpenedByClaim
<1>2. future[f].result \in Requests \cup {None}
  BY DEF SafetyInv, TypeOK, Future
<1>3. Author(call, future[f].result, call[f].key, call[f].binding)
  BY DEF SafetyInv, DoneFutureHasAuthor
<1> QED BY <1>1, <1>2, <1>3, AuthorsStay DEF SafetyInv

LEMMA FrameWaiters ==
    ASSUME SafetyInv, [Next]_vars,
           \A r \in Requests : Waiting(r)' => call'[r] = call[r]
    PROVE  WaiterSharesBinding'
<1> SUFFICES ASSUME NEW r \in Requests, Waiting(r)'
             PROVE  /\ call'[r].on # None
                    /\ call'[call'[r].on].phase # "idle"
                    /\ call'[call'[r].on].key = call'[r].key
                    /\ call'[call'[r].on].binding = call'[r].binding
  BY DEF WaiterSharesBinding
<1>1. Waiting(r)
  BY DEF Waiting
<1>2. call[r].on \in Requests /\ call[call[r].on].phase # "idle"
  BY <1>1 DEF SafetyInv, TypeOK, WaiterSharesBinding
<1> QED BY <1>1, <1>2, CallsKeepBinding DEF SafetyInv, WaiterSharesBinding

LEMMA FrameReplays ==
    ASSUME SafetyInv, [Next]_vars,
           \A r \in Requests : call'[r].phase = "replayed" => call'[r] = call[r]
    PROVE  ReplayMatchesRequest'
<1> SUFFICES ASSUME NEW r \in Requests, call'[r].phase = "replayed"
             PROVE  Author(call', call'[r].answer, call'[r].key, call'[r].binding)
  BY DEF ReplayMatchesRequest
<1>1. call[r].answer \in Requests \cup {None}
  BY DEF SafetyInv, TypeOK, Call
<1>2. Author(call, call[r].answer, call[r].key, call[r].binding)
  BY DEF SafetyInv, ReplayMatchesRequest
<1> QED BY <1>1, <1>2, AuthorsStay DEF SafetyInv

-----------------------------------------------------------------------------
(* The safety invariant, action by action *)

\* A claim that is answered at once changes no row but the purged ones.
LEMMA AnswerKeepsInv ==
    ASSUME MaxRun <= Ttl, SafetyInv, TypeOK', [Next]_vars, now' = now,
           NEW r \in Requests, NEW k \in Keys, NEW b \in Bindings,
           NEW p \in {"conflict", "replayed", "in_progress"},
           NEW a \in Requests \cup {None},
           Answer(r, k, b, p, a), p = "replayed" => Author(call, a, k, b)
    PROVE  SafetyInv'
<1>1. /\ \A s \in Requests \ {r} : call'[s] = call[s]
      /\ call'[r].phase = p /\ call'[r].key = k
      /\ call'[r].binding = b /\ call'[r].answer = a
      /\ rows' = Purged /\ pending' = pending /\ future' = future
  BY DEF Answer, CallOf, SafetyInv, TypeOK
<1>2. \A s \in Requests : Executing(s)' \/ Waiting(s)' => s # r /\ call'[s] = call[s]
  BY <1>1 DEF Executing, Waiting
<1>3. CallsAreBound'
  BY <1>1, FrameBound
<1>4. ExecutorOnTime' /\ ExecutorKeepsRow' /\ OneExecutorWithinLease'
  <2>1. \A s \in Requests : Executing(s)' => rows'[call[s].key] = rows[call[s].key]
    BY <1>1, <1>2, PurgeKeeps DEF Executing
  <2> QED BY <1>2, <2>1, FrameExecutors
<1>5. CompletedRowHasAuthor' /\ RegisteredFutureIsOfPendingRow'
  BY <1>1, PurgeKeeps, FrameCompleted, FrameRegistered
<1>6. OpenedByClaim' /\ DoneFutureHasAuthor' /\ WaiterSharesBinding'
  BY <1>1, <1>2, FrameOpened, FrameDone, FrameWaiters
<1>7. ReplayMatchesRequest'
  <2> SUFFICES ASSUME NEW s \in Requests, call'[s].phase = "replayed"
               PROVE  Author(call', call'[s].answer, call'[s].key, call'[s].binding)
    BY DEF ReplayMatchesRequest
  <2>1. CASE s = r
    <3>1. Author(call, a, k, b)
      BY <1>1, <2>1
    <3>2. Author(call', a, k, b)
      BY <3>1, AuthorsStay DEF SafetyInv
    <3> QED BY <1>1, <2>1, <3>2
  <2>2. CASE s # r
    <3>1. call'[s] = call[s] /\ call[s].answer \in Requests \cup {None}
      BY <1>1, <2>2 DEF SafetyInv, TypeOK, Call
    <3>2. Author(call, call[s].answer, call[s].key, call[s].binding)
      BY <3>1 DEF SafetyInv, ReplayMatchesRequest
    <3> QED BY <3>1, <3>2, AuthorsStay DEF SafetyInv
  <2> QED BY <2>1, <2>2
<1> QED BY <1>3, <1>4, <1>5, <1>6, <1>7 DEF SafetyInv

\* A request becomes the executor of a key whose row is absent, or pending
\* under its binding with the lease over: no other executor of the key is
\* within its lease.
LEMMA BecomeExecutorKeepsInv ==
    ASSUME MaxRun <= Ttl, SafetyInv, TypeOK', [Next]_vars, now' = now,
           NEW r \in Requests, NEW k \in Keys, NEW b \in Bindings, NEW row \in Row,
           call[r].phase = "idle", BecomeExecutor(r, k, b),
           rows' = [Purged EXCEPT ![k] = row],
           row.state = "pending", row.binding = b,
           row.lease = now + Lease, row.expires = now + Ttl,
           \/ Purged[k].state = "absent"
           \/ Purged[k].binding = b /\ LeaseOver(Purged[k])
    PROVE  SafetyInv'
<1>1. /\ \A s \in Requests \ {r} : call'[s] = call[s] /\ future'[s] = future[s]
      /\ \A q \in Keys \ {k} : pending'[q] = pending[q] /\ rows'[q] = Purged[q]
      /\ call'[r].phase = "executing" /\ call'[r].key = k
      /\ call'[r].binding = b /\ call'[r].since = now
      /\ pending'[k] = r /\ rows'[k] = row /\ future'[r].state = "open"
  BY PurgedType DEF BecomeExecutor, CallOf, SafetyInv, TypeOK
<1>2. /\ now \in Nat /\ Lease \in Nat /\ Ttl \in Nat /\ MaxRun \in Nat
      /\ \A s \in Requests : call[s].since \in Nat
      /\ \A q \in Keys : rows[q].lease \in Nat /\ rows[q].expires \in Nat
  BY DurationsAreNat DEF SafetyInv, TypeOK, Call, Row
<1>3. ASSUME NEW s \in Requests, Executing(s)
      PROVE  /\ s # r /\ call'[s] = call[s] /\ call[s].key \in Keys
             /\ Purged[call[s].key] = rows[call[s].key]
             /\ rows[call[s].key].state # "absent"
             /\ rows[call[s].key].binding = call[s].binding
             /\ rows[call[s].key].lease >= call[s].since + Lease
             /\ rows[call[s].key].expires >= call[s].since + Ttl
             /\ call[s].since <= now /\ now <= call[s].since + MaxRun
  BY <1>1, <1>3, PurgeKeeps DEF Executing, SafetyInv, CallsAreBound,
     ExecutorKeepsRow, ExecutorOnTime, RowMatches
<1>4. ASSUME NEW s \in Requests, Executing(s), call[s].key = k
      PROVE  call[s].binding = b /\ call[s].since + Lease <= now
  BY <1>2, <1>3, <1>4 DEF LeaseOver
<1>5. ASSUME NEW s \in Requests, Executing(s)'
      PROVE  s = r \/ Executing(s)
  BY <1>1, <1>5 DEF Executing
<1>6. CallsAreBound'
  BY <1>1, FrameBound
<1>7. ExecutorOnTime'
  BY <1>1, <1>2, <1>3, <1>5 DEF ExecutorOnTime
<1>8. ExecutorKeepsRow'
  <2> SUFFICES ASSUME NEW s \in Requests, Executing(s)'
               PROVE  /\ RowMatches(s)'
                      /\ rows'[call'[s].key].lease >= call'[s].since + Lease
                      /\ rows'[call'[s].key].expires >= call'[s].since + Ttl
    BY DEF ExecutorKeepsRow
  <2>1. CASE s = r
    BY <1>1, <1>2, <2>1 DEF RowMatches
  <2>2. CASE s # r /\ call[s].key = k
    BY <1>1, <1>2, <1>3, <1>4, <1>5, <2>2 DEF RowMatches
  <2>3. CASE s # r /\ call[s].key # k
    BY <1>1, <1>3, <1>5, <2>3 DEF RowMatches
  <2> QED BY <2>1, <2>2, <2>3
<1>9. CompletedRowHasAuthor'
  <2>1. \A q \in Keys : rows'[q].state = "completed" => rows'[q] = rows[q]
    BY <1>1, PurgeKeeps
  <2> QED BY <2>1, FrameCompleted
<1>10. RegisteredFutureIsOfPendingRow'
  <2> SUFFICES ASSUME NEW q \in Keys, pending'[q] # None
               PROVE  /\ rows'[q].state = "pending"
                      /\ rows'[q].binding = call'[pending'[q]].binding
                      /\ call'[pending'[q]].key = q
                      /\ call'[pending'[q]].phase # "idle"
    BY DEF RegisteredFutureIsOfPendingRow
  <2>1. CASE q = k
    BY <1>1, <2>1
  <2>2. CASE q # k
    <3>1. pending'[q] = pending[q] /\ rows'[q] = rows[q]
      BY <1>1, <2>2, PurgeKeeps
    <3>2. /\ pending[q] \in Requests /\ call[pending[q]].phase # "idle"
          /\ rows[q].state = "pending" /\ call[pending[q]].key = q
          /\ rows[q].binding = call[pending[q]].binding
      BY <3>1 DEF SafetyInv, TypeOK, RegisteredFutureIsOfPendingRow
    <3>3. call'[pending[q]] = call[pending[q]]
      BY <1>1, <3>2
    <3> QED BY <3>1, <3>2, <3>3
  <2> QED BY <2>1, <2>2
<1>11. OpenedByClaim'
  <2>1. ASSUME NEW f \in Requests, future'[f].state # "none"
        PROVE  call'[f].phase # "idle"
    BY <1>1, <2>1, CallsKeepBinding DEF SafetyInv, OpenedByClaim
  <2> QED BY <2>1 DEF OpenedByClaim
<1>12. DoneFutureHasAuthor'
  BY <1>1, FrameDone
<1>13. WaiterSharesBinding' /\ ReplayMatchesRequest'
  <2>1. \A s \in Requests : Waiting(s)' \/ call'[s].phase = "replayed" => call'[s] = call[s]
    BY <1>1 DEF Waiting
  <2> QED BY <2>1, FrameWaiters, FrameReplays
<1>14. OneExecutorWithinLease'
  <2> SUFFICES ASSUME NEW s \in Requests, NEW t \in Requests,
                      Executing(s)', Executing(t)', call'[s].key = call'[t].key,
                      now < call'[s].since + Lease, now < call'[t].since + Lease
               PROVE  s = t
    BY DEF OneExecutorWithinLease
  <2>1. CASE s = r /\ t # r
    BY <1>1, <1>2, <1>4, <1>5, <2>1
  <2>2. CASE s # r /\ t = r
    BY <1>1, <1>2, <1>4, <1>5, <2>2
  <2>3. CASE s # r /\ t # r
    BY <1>1, <1>5, <2>3 DEF SafetyInv, OneExecutorWithinLease
  <2> QED BY <2>1, <2>2, <2>3
<1> QED BY <1>6, <1>7, <1>8, <1>9, <1>10, <1>11, <1>12, <1>13, <1>14 DEF SafetyInv

LEMMA ClaimWaitKeepsInv ==
    ASSUME MaxRun <= Ttl, SafetyInv, TypeOK', [Next]_vars, now' = now,
           NEW r \in Requests, NEW k \in Keys, NEW b \in Bindings,
           call[r].phase = "idle", ClaimWait(r, k, b)
    PROVE  SafetyInv'
<1>1. /\ \A s \in Requests \ {r} : call'[s] = call[s]
      /\ call'[r].phase = "waiting" /\ call'[r].key = k
      /\ call'[r].binding = b /\ call'[r].on = pending[k]
      /\ rows' = Purged /\ pending' = pending /\ future' = future
  BY DEF ClaimWait, CallOf, SafetyInv, TypeOK
<1>2. \A s \in Requests :
         Executing(s)' \/ call'[s].phase = "replayed" => s # r /\ call'[s] = call[s]
  BY <1>1 DEF Executing
<1>3. CallsAreBound'
  BY <1>1, FrameBound
<1>4. ExecutorOnTime' /\ ExecutorKeepsRow' /\ OneExecutorWithinLease'
  <2>1. \A s \in Requests : Executing(s)' => rows'[call[s].key] = rows[call[s].key]
    BY <1>1, <1>2, PurgeKeeps DEF Executing
  <2> QED BY <1>2, <2>1, FrameExecutors
<1>5. CompletedRowHasAuthor' /\ RegisteredFutureIsOfPendingRow'
  BY <1>1, PurgeKeeps, FrameCompleted, FrameRegistered
<1>6. OpenedByClaim' /\ DoneFutureHasAuthor' /\ ReplayMatchesRequest'
  BY <1>1, <1>2, FrameOpened, FrameDone, FrameReplays
<1>7. WaiterSharesBinding'
  <2> SUFFICES ASSUME NEW s \in Requests, Waiting(s)'
               PROVE  /\ call'[s].on # None
                      /\ call'[call'[s].on].phase # "idle"
                      /\ call'[call'[s].on].key = call'[s].key
                      /\ call'[call'[s].on].binding = call'[s].binding
    BY DEF WaiterSharesBinding
  <2>1. CASE s = r
    <3>1. /\ pending[k] \in Requests /\ pending[k] # None
          /\ call[pending[k]].phase # "idle" /\ call[pending[k]].key = k
          /\ call[pending[k]].binding = rows[k].binding /\ Purged[k] = rows[k]
      BY PurgeKeeps DEF ClaimWait, SafetyInv, TypeOK, RegisteredFutureIsOfPendingRow
    <3>2. call'[pending[k]] = call[pending[k]] /\ rows[k].binding = b
      BY <1>1, <3>1 DEF ClaimWait, SameBinding
    <3> QED BY <1>1, <2>1, <3>1, <3>2
  <2>2. CASE s # r
    <3>1. /\ call'[s] = call[s] /\ call[s].on \in Requests
          /\ call[s].on # None /\ call[call[s].on].phase # "idle"
          /\ call[call[s].on].key = call[s].key
          /\ call[call[s].on].binding = call[s].binding
      BY <1>1, <2>2 DEF Waiting, SafetyInv, TypeOK, WaiterSharesBinding
    <3>2. call'[call[s].on] = call[call[s].on]
      BY <1>1, <3>1
    <3> QED BY <3>1, <3>2
  <2> QED BY <2>1, <2>2
<1> QED BY <1>3, <1>4, <1>5, <1>6, <1>7 DEF SafetyInv

LEMMA ClaimKeepsInv ==
    ASSUME MaxRun <= Ttl, SafetyInv, TypeOK', [Next]_vars,
           NEW r \in Requests, NEW k \in Keys, NEW b \in Bindings, Claim(r, k, b)
    PROVE  SafetyInv'
<1>1. now' = now /\ call[r].phase = "idle" /\ TypeOK
  BY DEF Claim, SafetyInv
<1>2. now + Lease \in Nat /\ now + Ttl \in Nat
  BY <1>1, DurationsAreNat DEF TypeOK
<1>3. CASE ClaimNew(r, k, b)
  <2>1. PendingRow(b) \in Row
    BY <1>2 DEF PendingRow, Row
  <2> QED BY <1>1, <1>3, <2>1, BecomeExecutorKeepsInv DEF ClaimNew, PendingRow
<1>4. CASE ClaimConflict(r, k, b)
  BY <1>1, <1>4, AnswerKeepsInv DEF ClaimConflict
<1>5. CASE ClaimReplay(r, k, b)
  <2>1. Purged[k] = rows[k] /\ rows[k].result \in Requests \cup {None}
    BY <1>1, <1>5, PurgeKeeps DEF ClaimReplay, TypeOK, Row
  <2>2. Author(call, rows[k].result, k, b)
    BY <1>5, <2>1 DEF ClaimReplay, SameBinding, SafetyInv, CompletedRowHasAuthor
  <2> QED BY <1>1, <1>5, <2>1, <2>2, AnswerKeepsInv DEF ClaimReplay
<1>6. CASE ClaimTakeover(r, k, b)
  <2>1. Purged[k] \in Row
    BY <1>1, PurgedType
  <2>2. RenewedRow(Purged[k]) \in Row
    BY <1>2, <2>1 DEF RenewedRow, Row
  <2>3. /\ RenewedRow(Purged[k]).state = "pending"
        /\ RenewedRow(Purged[k]).binding = b
        /\ RenewedRow(Purged[k]).lease = now + Lease
        /\ RenewedRow(Purged[k]).expires = now + Ttl
    BY <1>6 DEF ClaimTakeover, RenewedRow, SameBinding
  <2>4. Purged[k].binding = b /\ LeaseOver(Purged[k])
    BY <1>6 DEF ClaimTakeover, SameBinding
  <2> QED BY <1>1, <1>6, <2>2, <2>3, <2>4, BecomeExecutorKeepsInv DEF ClaimTakeover
<1>7. CASE ClaimWait(r, k, b)
  BY <1>1, <1>7, ClaimWaitKeepsInv
<1>8. CASE ClaimInProgress(r, k, b)
  BY <1>1, <1>8, AnswerKeepsInv DEF ClaimInProgress
<1> QED BY <1>3, <1>4, <1>5, <1>6, <1>7, <1>8 DEF Claim

\* A call ends without a response and without a store: a wait that timed out
\* or was cancelled, a store that failed.  At most a future is cancelled.
LEMMA EndKeepsInv ==
    ASSUME SafetyInv, TypeOK', [Next]_vars, NEW r \in Requests,
           NEW p \in {"in_progress", "aborted", "unstored"}, call[r].phase # "idle",
           call' = [call EXCEPT ![r] = Ended(call[r], p, None)],
           UNCHANGED <<now, rows, pending>>,
           \A f \in Requests : \/ future'[f] = future[f]
                              \/ /\ future'[f].state = "cancelled"
                                 /\ future[f].state # "none"
    PROVE  SafetyInv'
<1>1. /\ \A s \in Requests \ {r} : call'[s] = call[s]
      /\ call'[r].phase = p
  BY DEF Ended, CallOf, SafetyInv, TypeOK
<1>2. \A s \in Requests :
         Executing(s)' \/ Waiting(s)' \/ call'[s].phase = "replayed" => call'[s] = call[s]
  BY <1>1 DEF Executing, Waiting
<1>3. CallsAreBound'
  BY <1>1, FrameBound
<1>4. ExecutorOnTime' /\ ExecutorKeepsRow' /\ OneExecutorWithinLease'
  BY <1>2, FrameExecutors
<1>5. CompletedRowHasAuthor' /\ RegisteredFutureIsOfPendingRow'
  BY FrameCompleted, FrameRegistered
<1>6. OpenedByClaim' /\ DoneFutureHasAuthor'
  BY FrameOpened, FrameDone
<1>7. WaiterSharesBinding' /\ ReplayMatchesRequest'
  BY <1>2, FrameWaiters, FrameReplays
<1> QED BY <1>3, <1>4, <1>5, <1>6, <1>7 DEF SafetyInv

LEMMA WakeWithResponseKeepsInv ==
    ASSUME SafetyInv, TypeOK', [Next]_vars, NEW r \in Requests, WakeWithResponse(r)
    PROVE  SafetyInv'
<1> DEFINE f == call[r].on
<1>1. /\ f \in Requests /\ future[f].state = "done"
      /\ call[f].key = call[r].key /\ call[f].binding = call[r].binding
      /\ future[f].result \in Requests \cup {None}
  BY DEF WakeWithResponse, SafetyInv, TypeOK, Future, WaiterSharesBinding
<1>2. /\ \A s \in Requests \ {r} : call'[s] = call[s]
      /\ call'[r].phase = "replayed" /\ call'[r].key = call[r].key
      /\ call'[r].binding = call[r].binding /\ call'[r].answer = future[f].result
      /\ call[r].phase # "idle"
      /\ UNCHANGED <<now, rows, pending, future>>
  BY DEF WakeWithResponse, Waiting, Ended, CallOf, SafetyInv, TypeOK
<1>3. \A s \in Requests : Executing(s)' \/ Waiting(s)' => s # r /\ call'[s] = call[s]
  BY <1>2 DEF Executing, Waiting
<1>4. CallsAreBound'
  BY <1>2, FrameBound
<1>5. ExecutorOnTime' /\ ExecutorKeepsRow' /\ OneExecutorWithinLease'
  BY <1>2, <1>3, FrameExecutors
<1>6. CompletedRowHasAuthor' /\ RegisteredFutureIsOfPendingRow'
  BY <1>2, FrameCompleted, FrameRegistered
<1>7. OpenedByClaim' /\ DoneFutureHasAuthor' /\ WaiterSharesBinding'
  BY <1>2, <1>3, FrameOpened, FrameDone, FrameWaiters
<1>8. ReplayMatchesRequest'
  <2> SUFFICES ASSUME NEW s \in Requests, call'[s].phase = "replayed"
               PROVE  Author(call', call'[s].answer, call'[s].key, call'[s].binding)
    BY DEF ReplayMatchesRequest
  <2>1. CASE s = r
    <3>1. Author(call, future[f].result, call[f].key, call[f].binding)
      BY <1>1 DEF SafetyInv, DoneFutureHasAuthor
    <3>2. Author(call', future[f].result, call[f].key, call[f].binding)
      BY <1>1, <3>1, AuthorsStay DEF SafetyInv
    <3> QED BY <1>1, <1>2, <2>1, <3>2
  <2>2. CASE s # r
    <3>1. call'[s] = call[s] /\ call[s].answer \in Requests \cup {None}
      BY <1>2, <2>2 DEF SafetyInv, TypeOK, Call
    <3>2. Author(call, call[s].answer, call[s].key, call[s].binding)
      BY <3>1 DEF SafetyInv, ReplayMatchesRequest
    <3> QED BY <3>1, <3>2, AuthorsStay DEF SafetyInv
  <2> QED BY <2>1, <2>2
<1> QED BY <1>4, <1>5, <1>6, <1>7, <1>8 DEF SafetyInv

LEMMA StoreKeepsInv ==
    ASSUME SafetyInv, TypeOK', [Next]_vars, NEW r \in Requests, Store(r)
    PROVE  SafetyInv'
<1> DEFINE k == call[r].key
           b == call[r].binding
<1>1. k \in Keys /\ b \in Bindings /\ rows[k].state # "absent" /\ rows[k].binding = b
  BY DEF Store, Executing, SafetyInv, CallsAreBound, ExecutorKeepsRow, RowMatches
<1>2. /\ \A s \in Requests \ {r} : call'[s] = call[s]
      /\ call'[r].phase = "stored" /\ call'[r].key = k /\ call'[r].binding = b
      /\ call[r].phase # "idle" /\ now' = now
  BY DEF Store, Executing, Ended, CallOf, SafetyInv, TypeOK
<1>3. /\ rows'[k].state = "completed" /\ rows'[k].binding = b
      /\ rows'[k].lease = rows[k].lease /\ rows'[k].expires = now + Ttl
      /\ rows'[k].result = r
      /\ \A q \in Keys \ {k} : rows'[q] = rows[q]
  BY <1>1 DEF Store, RowMatches, CompletedRow, SafetyInv, TypeOK
<1>4. /\ pending'[k] = None
      /\ \A q \in Keys \ {k} : pending'[q] = pending[q]
      /\ \A f \in Requests :
            \/ future'[f] = future[f]
            \/ /\ f = pending[k] /\ pending[k] # None
               /\ future[f].state = "open"
               /\ future'[f].state = "done" /\ future'[f].result = r
  BY <1>1 DEF Store, Resolve, SafetyInv, TypeOK
<1>5. Author(call', r, k, b)
  BY <1>2, NoneIsNoRequest DEF Author
<1>6. \A s \in Requests : Executing(s)' \/ Waiting(s)' \/ call'[s].phase = "replayed"
                           => s # r /\ call'[s] = call[s]
  BY <1>2 DEF Executing, Waiting
<1>7. CallsAreBound'
  BY <1>2, FrameBound
<1>8. ExecutorOnTime' /\ OneExecutorWithinLease'
  BY <1>2, <1>6 DEF Executing, SafetyInv, ExecutorOnTime, OneExecutorWithinLease
<1>9. ExecutorKeepsRow'
  <2> SUFFICES ASSUME NEW s \in Requests, Executing(s)'
               PROVE  /\ RowMatches(s)'
                      /\ rows'[call'[s].key].lease >= call'[s].since + Lease
                      /\ rows'[call'[s].key].expires >= call'[s].since + Ttl
    BY DEF ExecutorKeepsRow
  <2>1. /\ call'[s] = call[s] /\ Executing(s) /\ call[s].key \in Keys
        /\ RowMatches(s) /\ call[s].since <= now
        /\ rows[call[s].key].lease >= call[s].since + Lease
        /\ rows[call[s].key].expires >= call[s].since + Ttl
    BY <1>6 DEF Executing, SafetyInv, CallsAreBound, ExecutorKeepsRow, ExecutorOnTime
  <2>2. CASE call[s].key = k
    <3>1. call[s].since \in Nat /\ now \in Nat /\ Ttl \in Nat
      BY DurationsAreNat DEF SafetyInv, TypeOK, Call
    <3> QED BY <1>1, <1>3, <2>1, <2>2, <3>1 DEF RowMatches
  <2>3. CASE call[s].key # k
    BY <1>3, <2>1, <2>3 DEF RowMatches
  <2> QED BY <2>2, <2>3
<1>10. CompletedRowHasAuthor'
  <2> SUFFICES ASSUME NEW q \in Keys, rows'[q].state = "completed"
               PROVE  Author(call', rows'[q].result, q, rows'[q].binding)
    BY DEF CompletedRowHasAuthor
  <2>1. CASE q = k
    BY <1>3, <1>5, <2>1
  <2>2. CASE q # k
    <3>1. rows'[q] = rows[q] /\ rows[q].result \in Requests \cup {None}
      BY <1>3, <2>2 DEF SafetyInv, TypeOK, Row
    <3>2. Author(call, rows[q].result, q, rows[q].binding)
      BY <3>1 DEF SafetyInv, CompletedRowHasAuthor
    <3> QED BY <3>1, <3>2, AuthorsStay DEF SafetyInv
  <2> QED BY <2>1, <2>2
<1>11. RegisteredFutureIsOfPendingRow'
  BY <1>3, <1>4, FrameRegistered
<1>12. OpenedByClaim'
  BY <1>4, FrameOpened
<1>13. DoneFutureHasAuthor'
  <2> SUFFICES ASSUME NEW f \in Requests, future'[f].state = "done"
               PROVE  Author(call', future'[f].result, call'[f].key, call'[f].binding)
    BY DEF DoneFutureHasAuthor
  <2>1. CASE future'[f] = future[f]
    <3>1. /\ call'[f].key = call[f].key /\ call'[f].binding = call[f].binding
          /\ future[f].result \in Requests \cup {None}
      BY <2>1, CallsKeepBinding DEF SafetyInv, OpenedByClaim, TypeOK, Future
    <3>2. Author(call, future[f].result, call[f].key, call[f].binding)
      BY <2>1 DEF SafetyInv, DoneFutureHasAuthor
    <3> QED BY <2>1, <3>1, <3>2, AuthorsStay DEF SafetyInv
  <2>2. CASE f = pending[k] /\ pending[k] # None /\ future'[f].result = r
    <3>1. call[f].key = k /\ call[f].binding = b /\ call[f].phase # "idle"
      BY <1>1, <2>2 DEF SafetyInv, RegisteredFutureIsOfPendingRow
    <3> QED BY <1>5, <2>2, <3>1, CallsKeepBinding DEF SafetyInv
  <2> QED BY <1>4, <2>1, <2>2
<1>14. WaiterSharesBinding' /\ ReplayMatchesRequest'
  BY <1>6, FrameWaiters, FrameReplays
<1> QED BY <1>7, <1>8, <1>9, <1>10, <1>11, <1>12, <1>13, <1>14 DEF SafetyInv

LEMMA TickKeepsInv ==
    ASSUME SafetyInv, TypeOK', [Next]_vars, Tick
    PROVE  SafetyInv'
<1>1. /\ UNCHANGED <<rows, pending, future, call>>
      /\ now' = now + 1 /\ now \in Nat
      /\ \A r \in Requests : call[r].since \in Nat
      /\ Lease \in Nat /\ MaxRun \in Nat
  BY DurationsAreNat DEF Tick, SafetyInv, TypeOK, Call
<1>2. ExecutorOnTime'
  BY <1>1 DEF Tick, Executing, SafetyInv, ExecutorOnTime
<1>3. ExecutorKeepsRow'
  BY <1>1 DEF SafetyInv, ExecutorKeepsRow, Executing, RowMatches
<1>4. OneExecutorWithinLease'
  BY <1>1 DEF SafetyInv, OneExecutorWithinLease, Executing
<1>5. CallsAreBound' /\ CompletedRowHasAuthor' /\ RegisteredFutureIsOfPendingRow'
  BY <1>1, FrameBound, FrameCompleted, FrameRegistered
<1>6. OpenedByClaim' /\ DoneFutureHasAuthor' /\ WaiterSharesBinding' /\ ReplayMatchesRequest'
  BY <1>1, FrameOpened, FrameDone, FrameWaiters, FrameReplays
<1> QED BY <1>2, <1>3, <1>4, <1>5, <1>6 DEF SafetyInv

LEMMA CrashKeepsInv ==
    ASSUME SafetyInv, TypeOK', [Next]_vars, Crash
    PROVE  SafetyInv'
<1>1. /\ \A r \in Requests : ~Executing(r)' /\ ~Waiting(r)'
      /\ \A r \in Requests : call'[r].phase = "replayed" => call'[r] = call[r]
      /\ \A r \in Requests : call[r].phase = "idle" => call'[r].phase = "idle"
      /\ \A f \in Requests : future'[f].state = "none"
      /\ \A k \in Keys : pending'[k] = None
      /\ rows' = rows /\ now' = now
  BY DEF Crash, Executing, Waiting, Ended, CallOf, NoFuture, SafetyInv, TypeOK
<1>2. CallsAreBound' /\ CompletedRowHasAuthor' /\ RegisteredFutureIsOfPendingRow'
  BY <1>1, FrameBound, FrameCompleted, FrameRegistered
<1>3. ExecutorOnTime' /\ ExecutorKeepsRow' /\ OneExecutorWithinLease'
  BY <1>1, FrameExecutors
<1>4. OpenedByClaim' /\ DoneFutureHasAuthor' /\ WaiterSharesBinding' /\ ReplayMatchesRequest'
  BY <1>1, FrameOpened, FrameDone, FrameWaiters, FrameReplays
<1> QED BY <1>2, <1>3, <1>4 DEF SafetyInv

LEMMA SafetyStep ==
    ASSUME MaxRun <= Ttl, SafetyInv, [Next]_vars
    PROVE  SafetyInv'
<1>1. TypeOK'
  BY TypeStep DEF SafetyInv
<1>2. ASSUME NEW r \in Requests, NEW k \in Keys, NEW b \in Bindings, Claim(r, k, b)
      PROVE  SafetyInv'
  BY <1>1, <1>2, ClaimKeepsInv
<1>3. ASSUME NEW r \in Requests, WakeWithResponse(r) PROVE SafetyInv'
  BY <1>1, <1>3, WakeWithResponseKeepsInv
<1>4. ASSUME NEW r \in Requests, WaitTimeout(r) PROVE SafetyInv'
  <2>1. call[r].phase # "idle"
    BY <1>4 DEF WaitTimeout, Waiting
  <2>2. \A f \in Requests : \/ future'[f] = future[f]
                            \/ /\ future'[f].state = "cancelled"
                               /\ future[f].state # "none"
    BY <1>4 DEF WaitTimeout, SafetyInv, TypeOK
  <2>3. /\ call' = [call EXCEPT ![r] = Ended(call[r], "in_progress", None)]
        /\ UNCHANGED <<now, rows, pending>>
    BY <1>4 DEF WaitTimeout
  <2> QED BY <1>1, <2>1, <2>2, <2>3, EndKeepsInv
<1>5. ASSUME NEW r \in Requests, WakeCancelled(r) PROVE SafetyInv'
  <2>1. /\ call[r].phase # "idle"
        /\ call' = [call EXCEPT ![r] = Ended(call[r], "aborted", None)]
        /\ UNCHANGED <<now, rows, pending, future>>
    BY <1>5 DEF WakeCancelled, Waiting
  <2> QED BY <1>1, <2>1, EndKeepsInv
<1>6. ASSUME NEW r \in Requests, Store(r) PROVE SafetyInv'
  BY <1>1, <1>6, StoreKeepsInv
<1>7. ASSUME NEW r \in Requests, StoreFails(r) PROVE SafetyInv'
  <2>1. /\ call[r].phase # "idle"
        /\ call' = [call EXCEPT ![r] = Ended(call[r], "unstored", None)]
        /\ UNCHANGED <<now, rows, pending, future>>
    BY <1>7 DEF StoreFails, Executing
  <2> QED BY <1>1, <2>1, EndKeepsInv
<1>8. CASE Tick
  BY <1>1, <1>8, TickKeepsInv
<1>9. CASE Crash
  BY <1>1, <1>9, CrashKeepsInv
<1>10. CASE UNCHANGED vars
  <2>1. /\ call' = call /\ rows' = rows /\ pending' = pending
        /\ future' = future /\ now' = now
    BY <1>10 DEF vars
  <2>2. CallsAreBound' /\ CompletedRowHasAuthor' /\ RegisteredFutureIsOfPendingRow'
    BY <2>1, FrameBound, FrameCompleted, FrameRegistered
  <2>3. ExecutorOnTime' /\ ExecutorKeepsRow' /\ OneExecutorWithinLease'
    BY <2>1, FrameExecutors
  <2>4. OpenedByClaim' /\ DoneFutureHasAuthor' /\ WaiterSharesBinding' /\ ReplayMatchesRequest'
    BY <2>1, FrameOpened, FrameDone, FrameWaiters, FrameReplays
  <2> QED BY <1>1, <2>2, <2>3, <2>4 DEF SafetyInv
<1> QED BY <1>2, <1>3, <1>4, <1>5, <1>6, <1>7, <1>8, <1>9, <1>10 DEF Next

LEMMA SafetyInit == Init => SafetyInv
<1> SUFFICES ASSUME Init PROVE SafetyInv
  OBVIOUS
<1>1. TypeOK
  BY TypeInit
<1>2. /\ \A r \in Requests : call[r].phase = "idle" /\ future[r].state = "none"
      /\ \A k \in Keys : rows[k].state = "absent" /\ pending[k] = None
  BY DEF Init, NoCall, CallOf, NoFuture, NoRow
<1> QED BY <1>1, <1>2 DEF SafetyInv, CallsAreBound, ExecutorOnTime, ExecutorKeepsRow,
        CompletedRowHasAuthor, RegisteredFutureIsOfPendingRow, OpenedByClaim,
        DoneFutureHasAuthor, WaiterSharesBinding, ReplayMatchesRequest,
        OneExecutorWithinLease, Executing, Waiting

\* With claimants that finish within the time a row is kept, the row of every
\* claimant is there for its store, duplicates wait for work of their own
\* request, and every replay matches the request it answers, through any
\* number of takeovers, late stores, purges and restarts.
THEOREM SafetyInvariant ==
    ASSUME MaxRun <= Ttl
    PROVE  Spec => []SafetyInv
<1>1. SafetyInv /\ [Next]_vars => SafetyInv'
  BY SafetyStep
<1> QED BY <1>1, SafetyInit, PTL DEF Spec

\* The store a claimant owes finds the row of its claim.
THEOREM ExecutorRowSafety ==
    ASSUME MaxRun <= Ttl
    PROVE  Spec => []ExecutorKeepsRow
<1>1. SafetyInv => ExecutorKeepsRow
  BY DEF SafetyInv
<1> QED BY <1>1, SafetyInvariant, PTL

\* A duplicate that finds a live lease waits for the work of its own request:
\* the future registered for a key is of a claim the row still records.
THEOREM RegisteredFutureSafety ==
    ASSUME MaxRun <= Ttl
    PROVE  Spec => []RegisteredFutureIsOfPendingRow
<1>1. SafetyInv => RegisteredFutureIsOfPendingRow
  BY DEF SafetyInv
<1> QED BY <1>1, SafetyInvariant, PTL

\* A duplicate is never answered with another request's response.
THEOREM ReplaySafety ==
    ASSUME MaxRun <= Ttl
    PROVE  Spec => []ReplayMatchesRequest
<1>1. SafetyInv => ReplayMatchesRequest
  BY DEF SafetyInv
<1> QED BY <1>1, SafetyInvariant, PTL

\* The pending lease excludes: no two claimants of a key are inside theirs.
THEOREM LeaseSafety ==
    ASSUME MaxRun <= Ttl
    PROVE  Spec => []OneExecutorWithinLease
<1>1. SafetyInv => OneExecutorWithinLease
  BY DEF SafetyInv
<1> QED BY <1>1, SafetyInvariant, PTL

-----------------------------------------------------------------------------
(* Claimants that finish inside their lease *)

\* With no work longer than the lease, no key is ever worked on twice at once.
THEOREM ExecutorExclusion ==
    ASSUME MaxRun < Lease, MaxRun <= Ttl
    PROVE  Spec => []OneExecutorPerKey
<1>1. SafetyInv => OneExecutorPerKey
  <2> SUFFICES ASSUME SafetyInv, NEW r \in Requests, NEW s \in Requests,
                      Executing(r), Executing(s), call[r].key = call[s].key
               PROVE  r = s
    BY DEF OneExecutorPerKey
  <2>1. /\ now \in Nat /\ MaxRun \in Nat /\ Lease \in Nat
        /\ call[r].since \in Nat /\ call[s].since \in Nat
    BY DurationsAreNat DEF SafetyInv, TypeOK, Call
  <2>2. now <= call[r].since + MaxRun /\ now <= call[s].since + MaxRun
    BY DEF SafetyInv, ExecutorOnTime
  <2>3. now < call[r].since + Lease /\ now < call[s].since + Lease
    BY <2>1, <2>2
  <2> QED BY <2>3 DEF SafetyInv, OneExecutorWithinLease
<1> QED BY <1>1, SafetyInvariant, PTL

\* Apart from the purge, a claim only ever leaves a pending row behind.
LEMMA ClaimRows ==
    ASSUME TypeOK, NEW r \in Requests, NEW k \in Keys, NEW b \in Bindings, Claim(r, k, b)
    PROVE  \A q \in Keys : rows'[q] = Purged[q] \/ rows'[q].state = "pending"
<1>1. CASE ClaimNew(r, k, b)
  <2>1. rows' = [Purged EXCEPT ![k] = PendingRow(b)] /\ PendingRow(b).state = "pending"
    BY <1>1 DEF ClaimNew, PendingRow
  <2> QED BY <2>1, PurgedType
<1>2. CASE ClaimTakeover(r, k, b)
  <2>1. /\ rows' = [Purged EXCEPT ![k] = RenewedRow(Purged[k])]
        /\ RenewedRow(Purged[k]).state = "pending"
    BY <1>2 DEF ClaimTakeover, RenewedRow
  <2> QED BY <2>1, PurgedType
<1>3. CASE ClaimConflict(r, k, b) \/ ClaimReplay(r, k, b) \/ ClaimWait(r, k, b)
           \/ ClaimInProgress(r, k, b)
  BY <1>3 DEF ClaimConflict, ClaimReplay, ClaimWait, ClaimInProgress, Answer
<1> QED BY <1>1, <1>2, <1>3 DEF Claim

LEMMA PendingStep ==
    ASSUME SafetyInv, OneExecutorPerKey, ExecutorsRowIsPending, [Next]_vars
    PROVE  ExecutorsRowIsPending'
<1> SUFFICES ASSUME NEW r \in Requests, Executing(r)'
             PROVE  rows'[call'[r].key].state = "pending"
  BY DEF ExecutorsRowIsPending
<1>1. TypeOK /\ (Executing(r) => call[r].key \in Keys)
  BY DEF SafetyInv, CallsAreBound, Executing
<1>2. ASSUME NEW s \in Requests, NEW k \in Keys, NEW b \in Bindings, Claim(s, k, b)
      PROVE  rows'[call'[r].key].state = "pending"
  <2>1. CASE r = s
    <3>1. ClaimNew(s, k, b) \/ ClaimTakeover(s, k, b)
      BY <1>1, <1>2, <2>1 DEF Claim, ClaimConflict, ClaimReplay, ClaimWait,
         ClaimInProgress, Answer, CallOf, Executing, TypeOK
    <3>2. call'[r].key = k
      BY <1>1, <2>1, <3>1 DEF ClaimNew, ClaimTakeover, BecomeExecutor, CallOf, TypeOK
    <3>3. rows'[k].state = "pending"
      BY <1>1, <3>1, PurgedType DEF ClaimNew, ClaimTakeover, PendingRow, RenewedRow
    <3> QED BY <3>2, <3>3
  <2>2. CASE r # s
    <3>1. call'[r] = call[r] /\ Executing(r)
      BY <1>1, <1>2, <2>2 DEF Claim, ClaimNew, ClaimConflict, ClaimReplay, ClaimTakeover,
         ClaimWait, ClaimInProgress, BecomeExecutor, Answer, Executing, TypeOK
    <3>2. Purged[call[r].key].state = "pending" /\ call[r].key \in Keys
      BY <1>1, <3>1 DEF ExecutorsRowIsPending, Purged, Expired
    <3> QED BY <1>1, <1>2, <3>1, <3>2, ClaimRows
  <2> QED BY <2>1, <2>2
<1>3. ASSUME NEW s \in Requests, Store(s)
      PROVE  rows'[call'[r].key].state = "pending"
  <2>1. r # s /\ call'[r] = call[r] /\ Executing(r) /\ Executing(s)
    BY <1>1, <1>3 DEF Store, Executing, Ended, CallOf, TypeOK
  <2>2. call[r].key # call[s].key
    BY <2>1 DEF OneExecutorPerKey
  <2>3. rows'[call[r].key] = rows[call[r].key]
    BY <1>1, <1>3, <2>1, <2>2 DEF Store, TypeOK
  <2> QED BY <2>1, <2>3 DEF ExecutorsRowIsPending
<1>4. ASSUME NEW s \in Requests,
             \/ WakeWithResponse(s) \/ WaitTimeout(s)
             \/ WakeCancelled(s) \/ StoreFails(s)
      PROVE  rows'[call'[r].key].state = "pending"
  <2>1. call'[r] = call[r] /\ Executing(r) /\ rows' = rows
    BY <1>1, <1>4 DEF WakeWithResponse, WaitTimeout, WakeCancelled, StoreFails,
       Executing, Ended, CallOf, TypeOK
  <2> QED BY <2>1 DEF ExecutorsRowIsPending
<1>5. CASE Crash
  BY <1>1, <1>5 DEF Crash, Executing, Waiting, Ended, CallOf, TypeOK
<1>6. CASE Tick \/ UNCHANGED vars
  BY <1>6 DEF Tick, vars, Executing, ExecutorsRowIsPending
<1> QED BY <1>2, <1>3, <1>4, <1>5, <1>6 DEF Next

LEMMA PendingSafety ==
    ASSUME MaxRun < Lease, MaxRun <= Ttl
    PROVE  Spec => []ExecutorsRowIsPending
<1>1. Init => ExecutorsRowIsPending
  BY DEF Init, ExecutorsRowIsPending, Executing, NoCall, CallOf
<1>2. SafetyInv /\ OneExecutorPerKey /\ ExecutorsRowIsPending /\ [Next]_vars
      => ExecutorsRowIsPending'
  BY PendingStep
<1> QED BY <1>1, <1>2, SafetyInvariant, ExecutorExclusion, PTL DEF Spec

\* With no work longer than the lease, a stored response is what the key
\* replays until its row expires.
THEOREM ResponseFinality ==
    ASSUME MaxRun < Lease, MaxRun <= Ttl
    PROVE  Spec => CompletedResponseIsFinal
<1> DEFINE Final == \A k \in Keys :
                       rows[k].state = "completed" /\ rows'[k].state = "completed"
                       => rows'[k].result = rows[k].result
<1>1. SafetyInv /\ ExecutorsRowIsPending /\ [Next]_vars => [Final]_vars
  <2> SUFFICES ASSUME SafetyInv, ExecutorsRowIsPending, [Next]_vars,
                      NEW k \in Keys, rows[k].state = "completed",
                      rows'[k].state = "completed"
               PROVE  rows'[k].result = rows[k].result
    OBVIOUS
  <2>0. TypeOK
    BY DEF SafetyInv
  <2>1. ASSUME NEW r \in Requests, NEW q \in Keys, NEW b \in Bindings, Claim(r, q, b)
        PROVE  rows'[k].result = rows[k].result
    <3>1. rows'[k] = Purged[k]
      BY <2>0, <2>1, ClaimRows
    <3>2. Purged[k] = rows[k]
      BY <3>1 DEF Purged, NoRow
    <3> QED BY <3>1, <3>2
  <2>2. ASSUME NEW r \in Requests, Store(r)
        PROVE  rows'[k].result = rows[k].result
    <3>1. k # call[r].key
      BY <2>2 DEF Store, ExecutorsRowIsPending
    <3> QED BY <2>0, <2>2, <3>1 DEF Store, TypeOK
  <2>3. ASSUME \/ \E r \in Requests : \/ WakeWithResponse(r) \/ WaitTimeout(r)
                                      \/ WakeCancelled(r) \/ StoreFails(r)
               \/ Tick \/ Crash \/ UNCHANGED vars
        PROVE  rows'[k].result = rows[k].result
    BY <2>3 DEF WakeWithResponse, WaitTimeout, WakeCancelled, StoreFails, Tick, Crash, vars
  <2> QED BY <2>1, <2>2, <2>3 DEF Next
<1> QED BY <1>1, SafetyInvariant, PendingSafety, PTL DEF Spec, CompletedResponseIsFinal

\* A completed row is as it was until its expiry has passed.
LEMMA CompletedRowStays ==
    ASSUME TypeOK, ExecutorsRowIsPending, [Next]_vars, NEW k \in Keys,
           rows[k].state = "completed"
    PROVE  rows'[k] = rows[k] \/ rows[k].expires < now
<1>1. ASSUME NEW r \in Requests, NEW q \in Keys, NEW b \in Bindings, Claim(r, q, b),
             ~Expired(rows[k])
      PROVE  rows'[k] = rows[k]
  <2>1. Purged[k] = rows[k] /\ Purged \in [Keys -> Row]
    BY <1>1, PurgedType DEF Purged
  <2>2. CASE q = k
    <3>1. ~ClaimNew(r, q, b) /\ ~ClaimTakeover(r, q, b)
      BY <2>1, <2>2 DEF ClaimNew, ClaimTakeover
    <3> QED BY <1>1, <2>1, <3>1
            DEF Claim, ClaimConflict, ClaimReplay, ClaimWait, ClaimInProgress, Answer
  <2>3. CASE q # k
    BY <1>1, <2>1, <2>3 DEF Claim, ClaimNew, ClaimTakeover, ClaimConflict, ClaimReplay,
       ClaimWait, ClaimInProgress, Answer
  <2> QED BY <2>2, <2>3
<1>2. ASSUME NEW r \in Requests, Store(r) PROVE rows'[k] = rows[k]
  <2>1. call[r].key # k
    BY <1>2 DEF Store, ExecutorsRowIsPending
  <2> QED BY <1>2, <2>1 DEF Store, TypeOK
<1>3. ASSUME \/ \E r \in Requests : \/ WakeWithResponse(r) \/ WaitTimeout(r)
                                    \/ WakeCancelled(r) \/ StoreFails(r)
             \/ Tick \/ Crash \/ UNCHANGED vars
      PROVE  rows'[k] = rows[k]
  BY <1>3 DEF WakeWithResponse, WaitTimeout, WakeCancelled, StoreFails, Tick, Crash, vars
<1> QED BY <1>1, <1>2, <1>3 DEF Next, Expired

LEMMA ClockAdvances ==
    ASSUME TypeOK, [Next]_vars
    PROVE  now' \in Nat /\ now <= now'
<1>1. now' = now \/ now' = now + 1
  BY DEF Next, Claim, WakeWithResponse, WaitTimeout, WakeCancelled, Store, StoreFails,
     Tick, Crash, vars
<1> QED BY <1>1 DEF TypeOK

\* Work ends in a store, in a failed store or with the process.
LEMMA ExecutorEnds ==
    ASSUME TypeOK, [Next]_vars, NEW r \in Requests, Executing(r)
    PROVE  /\ call'[r].phase \in {"executing", "stored", "unstored", "lost"}
           /\ call'[r].phase = "stored" => Store(r)
<1>1. ASSUME NEW s \in Requests, NEW k \in Keys, NEW b \in Bindings, Claim(s, k, b)
      PROVE  call'[r] = call[r]
  BY <1>1 DEF Claim, ClaimNew, ClaimConflict, ClaimReplay, ClaimTakeover, ClaimWait,
     ClaimInProgress, BecomeExecutor, Answer, Executing, TypeOK
<1>2. ASSUME NEW s \in Requests, WakeWithResponse(s) \/ WaitTimeout(s) \/ WakeCancelled(s)
      PROVE  call'[r] = call[r]
  BY <1>2 DEF WakeWithResponse, WaitTimeout, WakeCancelled, Executing, Waiting, TypeOK
<1>3. ASSUME NEW s \in Requests, Store(s) \/ StoreFails(s), s # r
      PROVE  call'[r] = call[r]
  BY <1>3 DEF Store, StoreFails, TypeOK
<1>4. CASE StoreFails(r)
  BY <1>4 DEF StoreFails, Ended, CallOf, TypeOK
<1>5. CASE Store(r)
  BY <1>5 DEF Store, Ended, CallOf, TypeOK
<1>6. CASE Crash
  BY <1>6 DEF Crash, Ended, CallOf, TypeOK
<1>7. CASE Tick \/ UNCHANGED vars
  BY <1>7 DEF Tick, vars, Executing
<1> QED BY <1>1, <1>2, <1>3, <1>4, <1>5, <1>6, <1>7 DEF Next, Executing

\* The row a store completes is the one its claim took.
LEMMA StoreCompletes ==
    ASSUME SafetyInv, NEW r \in Requests, Store(r)
    PROVE  /\ rows'[call[r].key].state = "completed"
           /\ rows'[call[r].key].expires = now + Ttl
<1>1. RowMatches(r) /\ call[r].key \in Keys
  BY DEF SafetyInv, ExecutorKeepsRow, CallsAreBound, Store, Executing
<1> QED BY <1>1 DEF Store, CompletedRow, SafetyInv, TypeOK

-----------------------------------------------------------------------------
(* The store implements IdempotentExecution *)

\* What the mapping needs beyond the safety of the store: a row that is not
\* there holds nothing.
AbsentRowIsBare == \A k \in Keys : rows[k].state = "absent" => rows[k] = NoRow

RefinementInv ==
    /\ SafetyInv
    /\ OneExecutorPerKey
    /\ ExecutorsRowIsPending
    /\ AbsentRowIsBare

\* The rows a claim's purge drops.
Dropped == {k \in Keys : Expired(rows[k])}

LEMMA AbsentStep ==
    ASSUME TypeOK, AbsentRowIsBare, [Next]_vars
    PROVE  AbsentRowIsBare'
<1>1. ASSUME NEW r \in Requests, NEW k \in Keys, NEW b \in Bindings, Claim(r, k, b)
      PROVE  AbsentRowIsBare'
  <2>1. \A q \in Keys : rows'[q] = Purged[q] \/ rows'[q].state = "pending"
    BY <1>1, ClaimRows
  <2> QED BY <2>1 DEF AbsentRowIsBare, Purged
<1>2. ASSUME NEW r \in Requests, Store(r) PROVE AbsentRowIsBare'
  BY <1>2 DEF Store, CompletedRow, AbsentRowIsBare, TypeOK
<1>3. CASE \/ \E r \in Requests : \/ WakeWithResponse(r) \/ WaitTimeout(r)
                                  \/ WakeCancelled(r) \/ StoreFails(r)
           \/ Tick \/ Crash \/ UNCHANGED vars
  BY <1>3 DEF WakeWithResponse, WaitTimeout, WakeCancelled, StoreFails, Tick, Crash,
     vars, AbsentRowIsBare
<1> QED BY <1>1, <1>2, <1>3 DEF Next

LEMMA RefinementInvariant ==
    ASSUME MaxRun < Lease, MaxRun <= Ttl
    PROVE  Spec => []RefinementInv
<1>1. Init => AbsentRowIsBare
  BY DEF Init, AbsentRowIsBare
<1>2. TypeOK /\ AbsentRowIsBare /\ [Next]_vars => AbsentRowIsBare'
  BY AbsentStep
<1>3. Spec => []AbsentRowIsBare
  BY <1>1, <1>2, TypeCorrect, PTL DEF Spec
<1> QED BY <1>3, SafetyInvariant, ExecutorExclusion, PendingSafety, PTL DEF RefinementInv

-----------------------------------------------------------------------------
(* The slot a key stands for *)

LEMMA SlotStates ==
    /\ SlotState("absent") = "free"
    /\ SlotState("pending") = "held"
    /\ SlotState("completed") = "done"
  BY Zenon DEF SlotState

LEMMA OutcomeStates ==
    /\ OutcomeState("idle") = "unseen"
    /\ OutcomeState("executing") = "working"
    /\ OutcomeState("waiting") = "waiting"
    /\ OutcomeState("replayed") = "replayed"
    /\ OutcomeState("conflict") = "refused"
    /\ OutcomeState("in_progress") = "unanswered"
    /\ OutcomeState("aborted") = "unanswered"
    /\ OutcomeState("stored") = "stored"
    /\ OutcomeState("unstored") = "gone"
    /\ OutcomeState("lost") = "gone"
  BY Zenon DEF OutcomeState

\* The holder of a key is the request executing for it.
LEMMA HolderNow ==
    ASSUME OneExecutorPerKey, NEW k \in Keys, NEW r \in Requests, Executing(r),
           call[r].key = k
    PROVE  Holder(k) = r
  BY DEF Holder, Holders, OneExecutorPerKey

LEMMA HolderNext ==
    ASSUME OneExecutorPerKey', NEW k \in Keys, NEW r \in Requests, Executing(r)',
           call'[r].key = k
    PROVE  Holder(k)' = r
  BY DEF Holder, Holders, OneExecutorPerKey

LEMMA HolderType ==
    ASSUME NEW k \in Keys
    PROVE  \/ Holder(k) = None /\ Holders(k) = {}
           \/ Holder(k) \in Holders(k) /\ Holder(k) \in Requests
<1>1. CASE Holders(k) = {}
  BY <1>1 DEF Holder
<1>2. CASE Holders(k) # {}
  BY <1>2 DEF Holder, Holders
<1> QED BY <1>1, <1>2

\* A key whose executors are the same has the same holder.
LEMMA HolderStays ==
    ASSUME NEW k \in Keys,
           \A r \in Requests : (Executing(r) /\ call[r].key = k)
                                <=> (Executing(r)' /\ call'[r].key = k)
    PROVE  Holder(k)' = Holder(k)
<1>1. Holders(k)' = Holders(k)
  BY DEF Holders, Executing
<1> QED BY <1>1 DEF Holder

\* A key nobody touches has the slot it had, or is forgotten by the purge.
LEMMA SlotAfterPurge ==
    ASSUME TypeOK, AbsentRowIsBare, NEW k \in Keys, rows'[k] = Purged[k],
           Holder(k)' = Holder(k)
    PROVE  slot'[k] = Contract!Forgotten(Dropped)[k]
<1>1. CASE Expired(rows[k])
  <2>1. rows'[k] = NoRow /\ k \in Dropped
    BY <1>1 DEF Purged, Dropped
  <2> QED BY <2>1, SlotStates DEF slot, NoRow, Contract!Forgotten, Contract!Free
<1>2. CASE ~Expired(rows[k])
  <2>1. rows'[k] = rows[k] /\ k \notin Dropped
    BY <1>2 DEF Purged, Dropped
  <2> QED BY <2>1 DEF slot, Contract!Forgotten
<1> QED BY <1>1, <1>2

LEMMA SlotStays ==
    ASSUME NEW k \in Keys, rows'[k] = rows[k], Holder(k)' = Holder(k)
    PROVE  slot'[k] = slot[k]
  BY DEF slot

\* What a call's record becomes is what the contract's request becomes.
LEMMA OutcomeBecomes ==
    ASSUME TypeOK, NEW r \in Requests, NEW k, NEW b, NEW p, NEW t, NEW f, NEW a,
           call' = [call EXCEPT ![r] = CallOf(p, k, b, t, f, a)]
    PROVE  Contract!Becomes(r, k, b, OutcomeState(p), a)
<1>1. call'[r] = CallOf(p, k, b, t, f, a)
  BY DEF TypeOK
<1>2. \A s \in Requests \ {r} : call'[s] = call[s]
  BY DEF TypeOK
<1>3. outcome'[r] = [state |-> OutcomeState(p), key |-> k, binding |-> b, answer |-> a]
  BY <1>1 DEF outcome, CallOf
<1>4. \A s \in Requests \ {r} : outcome'[s] = outcome[s]
  BY <1>2 DEF outcome
<1> QED BY <1>3, <1>4 DEF outcome, Contract!Becomes, Contract!Outcome

-----------------------------------------------------------------------------
(* Initial states and steps *)

LEMMA InitMaps == Init => Contract!Init
<1> SUFFICES ASSUME Init PROVE Contract!Init
  OBVIOUS
<1>1. slot = [k \in Keys |-> Contract!Free]
  BY SlotStates DEF Init, slot, NoRow, Contract!Free
<1>2. outcome = [r \in Requests |-> Contract!Unseen]
  BY OutcomeStates DEF Init, outcome, NoCall, CallOf, Contract!Unseen, Contract!Outcome
<1> QED BY <1>1, <1>2 DEF Contract!Init

\* A claim is an arrival that forgets what its purge dropped.
LEMMA ClaimArrives ==
    ASSUME RefinementInv, RefinementInv', NEW r \in Requests, NEW k \in Keys,
           NEW b \in Bindings, Claim(r, k, b), MaxRun < Lease
    PROVE  Contract!Next
<1> DEFINE kept == Contract!Forgotten(Dropped)
<1>0. TypeOK /\ AbsentRowIsBare /\ OneExecutorPerKey /\ OneExecutorPerKey'
  BY DEF RefinementInv, SafetyInv
<1>1. Dropped \in SUBSET Contract!Forgettable
  BY SlotStates DEF Dropped, Expired, slot, Contract!Forgettable
<1>2. outcome[r].state = "unseen"
  BY OutcomeStates DEF outcome, Claim
<1>3. /\ \A s \in Requests \ {r} : call'[s] = call[s]
      /\ ~Executing(r)
  BY <1>0 DEF Claim, ClaimNew, ClaimConflict, ClaimReplay, ClaimTakeover, ClaimWait,
     ClaimInProgress, BecomeExecutor, Answer, Executing, TypeOK
<1>4. kept[k] = [state   |-> SlotState(Purged[k].state),
                 binding |-> Purged[k].binding,
                 by      |-> IF Purged[k].state = "pending" THEN Holder(k)
                                                           ELSE Purged[k].result]
  BY SlotStates DEF slot, Purged, Dropped, Expired, NoRow, Contract!Forgotten,
     Contract!Free
<1>5. Purged[k].state \in {"absent", "pending", "completed"}
  BY <1>0, PurgedType DEF Row
<1>6. ASSUME ClaimNew(r, k, b) \/ ClaimTakeover(r, k, b)
      PROVE  /\ slot' = [kept EXCEPT ![k] = Contract!Held(r, b)]
             /\ Contract!Becomes(r, k, b, "working", None)
  <2>1. call' = [call EXCEPT ![r] = CallOf("executing", k, b, now, None, None)]
    BY <1>6 DEF ClaimNew, ClaimTakeover, BecomeExecutor
  <2>2. Executing(r)' /\ call'[r].key = k
    BY <1>0, <2>1 DEF Executing, CallOf, TypeOK
  <2>3. Holder(k)' = r
    BY <1>0, <2>2, HolderNext
  <2>4. rows'[k].state = "pending" /\ rows'[k].binding = b
    BY <1>0, <1>6, PurgedType
       DEF ClaimNew, ClaimTakeover, PendingRow, RenewedRow, SameBinding
  <2>5. slot'[k] = Contract!Held(r, b)
    BY <2>3, <2>4, SlotStates DEF slot, Contract!Held
  <2>6. ASSUME NEW q \in Keys, q # k PROVE slot'[q] = kept[q]
    <3>1. rows'[q] = Purged[q]
      BY <1>0, <1>6, <2>6, PurgedType DEF ClaimNew, ClaimTakeover
    <3>2. Holder(q)' = Holder(q)
      BY <1>3, <2>2, <2>6, HolderStays DEF Executing
    <3> QED BY <1>0, <3>1, <3>2, SlotAfterPurge
  <2>7. Contract!Becomes(r, k, b, "working", None)
    BY <1>0, <2>1, OutcomeBecomes, OutcomeStates
  <2> QED BY <2>5, <2>6, <2>7 DEF slot, Contract!Forgotten
<1>7. ASSUME rows' = Purged, ~Executing(r)' PROVE slot' = kept
  <2>1. ASSUME NEW q \in Keys PROVE slot'[q] = kept[q]
    <3>1. Holder(q)' = Holder(q)
      BY <1>3, <1>7, HolderStays DEF Executing
    <3> QED BY <1>0, <1>7, <3>1, SlotAfterPurge
  <2> QED BY <2>1 DEF slot, Contract!Forgotten
<1>8. ASSUME NEW p \in Phase, NEW t, NEW f, NEW a, p # "executing", rows' = Purged,
             call' = [call EXCEPT ![r] = CallOf(p, k, b, t, f, a)]
      PROVE  slot' = kept /\ Contract!Becomes(r, k, b, OutcomeState(p), a)
  <2>1. ~Executing(r)'
    BY <1>0, <1>8 DEF Executing, CallOf, TypeOK
  <2> QED BY <1>0, <1>7, <1>8, <2>1, OutcomeBecomes
<1>9. Contract!Arrive(r, k, b, Dropped)
  <2>1. CASE ClaimNew(r, k, b)
    <3>1. kept[k].state = "free"
      BY <1>4, <2>1, SlotStates DEF ClaimNew
    <3> QED BY <1>2, <1>6, <2>1, <3>1 DEF Contract!Arrive
  <2>2. CASE ClaimTakeover(r, k, b)
    <3>1. Purged[k].state = "pending" /\ Purged[k] = rows[k] /\ rows[k].binding = b
          /\ rows[k].lease <= now
      BY <2>2 DEF ClaimTakeover, Purged, NoRow, SameBinding, LeaseOver
    <3>2. Holders(k) = {}
      <4> SUFFICES ASSUME NEW s \in Requests, Executing(s), call[s].key = k PROVE FALSE
        BY DEF Holders
      <4>1. /\ rows[k].lease >= call[s].since + Lease
            /\ now <= call[s].since + MaxRun
        BY DEF RefinementInv, SafetyInv, ExecutorKeepsRow, ExecutorOnTime
      <4>2. now \in Nat /\ call[s].since \in Nat /\ rows[k].lease \in Nat
        BY <1>0 DEF TypeOK, Call, Row
      <4> QED BY <3>1, <4>1, <4>2, DurationsAreNat
    <3>3. kept[k].state = "held" /\ kept[k].binding = b /\ kept[k].by = None
      BY <1>4, <3>1, <3>2, SlotStates DEF Holder
    <3> QED BY <1>2, <1>6, <2>2, <3>3 DEF Contract!Arrive
  <2>3. CASE ClaimConflict(r, k, b)
    <3>1. kept[k].state # "free" /\ kept[k].binding # b
      BY <1>4, <1>5, <2>3, SlotStates DEF ClaimConflict, SameBinding
    <3>2. slot' = kept /\ Contract!Becomes(r, k, b, "refused", None)
      BY <1>8, <2>3, OutcomeStates DEF ClaimConflict, Answer, Phase
    <3> QED BY <1>2, <3>1, <3>2 DEF Contract!Arrive
  <2>4. CASE ClaimReplay(r, k, b)
    <3>1. kept[k] = Contract!Done(kept[k].by, b) /\ kept[k].by = Purged[k].result
      BY <1>4, <2>4, SlotStates DEF ClaimReplay, SameBinding, Contract!Done
    <3>2. slot' = kept /\ Contract!Becomes(r, k, b, "replayed", Purged[k].result)
      BY <1>8, <2>4, OutcomeStates DEF ClaimReplay, Answer, Phase
    <3> QED BY <1>2, <3>1, <3>2 DEF Contract!Arrive
  <2>5. CASE ClaimWait(r, k, b) \/ ClaimInProgress(r, k, b)
    <3>1. kept[k].state = "held" /\ kept[k].binding = b
      BY <1>4, <2>5, SlotStates DEF ClaimWait, ClaimInProgress, SameBinding
    <3>2. \E state \in {"waiting", "unanswered"} :
             slot' = kept /\ Contract!Becomes(r, k, b, state, None)
      <4>1. CASE ClaimWait(r, k, b)
        BY <1>8, <4>1, OutcomeStates DEF ClaimWait, Phase
      <4>2. CASE ClaimInProgress(r, k, b)
        BY <1>8, <4>2, OutcomeStates DEF ClaimInProgress, Answer, Phase
      <4> QED BY <2>5, <4>1, <4>2
    <3> QED BY <1>2, <3>1, <3>2 DEF Contract!Arrive
  <2> QED BY <2>1, <2>2, <2>3, <2>4, <2>5 DEF Claim
<1> QED BY <1>1, <1>9 DEF Contract!Next

\* A call that ends changes no slot unless it was executing.
LEMMA EndLeaves ==
    ASSUME RefinementInv, NEW r \in Requests, Waiting(r), UNCHANGED rows,
           NEW p \in Phase, p # "executing", NEW a,
           call' = [call EXCEPT ![r] = Ended(call[r], p, a)]
    PROVE  /\ slot' = slot
           /\ outcome[r].state = "waiting"
           /\ Contract!Becomes(r, outcome[r].key, outcome[r].binding, OutcomeState(p), a)
<1>0. TypeOK
  BY DEF RefinementInv, SafetyInv
<1>1. /\ \A s \in Requests \ {r} : call'[s] = call[s]
      /\ ~Executing(r) /\ ~Executing(r)'
  BY <1>0 DEF Ended, CallOf, Executing, Waiting, TypeOK
<1>2. ASSUME NEW k \in Keys PROVE slot'[k] = slot[k]
  <2>1. Holder(k)' = Holder(k)
    BY <1>1, HolderStays DEF Executing
  <2> QED BY <2>1, SlotStays
<1>3. Contract!Becomes(r, call[r].key, call[r].binding, OutcomeState(p), a)
  BY <1>0, OutcomeBecomes DEF Ended
<1>4. outcome[r] = [state |-> "waiting", key |-> call[r].key,
                    binding |-> call[r].binding, answer |-> call[r].answer]
  BY OutcomeStates DEF outcome, Waiting
<1> QED BY <1>2, <1>3, <1>4 DEF slot

LEMMA WaitLeaves ==
    ASSUME RefinementInv, NEW r \in Requests,
           WakeWithResponse(r) \/ WaitTimeout(r) \/ WakeCancelled(r)
    PROVE  Contract!Leave(r)
<1>0. TypeOK
  BY DEF RefinementInv, SafetyInv
<1>1. CASE WakeWithResponse(r)
  <2> DEFINE q == future[call[r].on].result
  <2>1. Author(call, q, call[r].key, call[r].binding) /\ q \in Requests
    <3>1. /\ call[r].on \in Requests
          /\ call[call[r].on].key = call[r].key
          /\ call[call[r].on].binding = call[r].binding
      BY <1>0, <1>1 DEF WakeWithResponse, RefinementInv, SafetyInv, WaiterSharesBinding,
         TypeOK
    <3>2. Author(call, q, call[r].key, call[r].binding)
      BY <1>1, <3>1 DEF WakeWithResponse, RefinementInv, SafetyInv, DoneFutureHasAuthor
    <3>3. q \in Requests \cup {None}
      BY <1>0, <3>1 DEF TypeOK, Future
    <3> QED BY <3>2, <3>3 DEF Author
  <2>2. q \in Contract!Responses(outcome[r].key, outcome[r].binding)
    BY <2>1, OutcomeStates DEF Author, Contract!Responses, outcome
  <2>3. /\ slot' = slot /\ outcome[r].state = "waiting"
        /\ Contract!Becomes(r, outcome[r].key, outcome[r].binding, "replayed", q)
    BY <1>1, EndLeaves, OutcomeStates DEF WakeWithResponse, Phase
  <2> QED BY <2>2, <2>3 DEF Contract!Leave
<1>2. CASE WaitTimeout(r) \/ WakeCancelled(r)
  <2>1. /\ slot' = slot /\ outcome[r].state = "waiting"
        /\ Contract!Becomes(r, outcome[r].key, outcome[r].binding, "unanswered", None)
    BY <1>2, EndLeaves, OutcomeStates DEF WaitTimeout, WakeCancelled, Phase
  <2> QED BY <2>1 DEF Contract!Leave
<1> QED BY <1>1, <1>2

\* A store finds its own row, pending and held, and completes it.
LEMMA StoreFinishes ==
    ASSUME RefinementInv, RefinementInv', NEW r \in Requests, Store(r)
    PROVE  Contract!Finish(r)
<1> DEFINE k == call[r].key
           b == call[r].binding
<1>0. TypeOK /\ OneExecutorPerKey /\ k \in Keys /\ Executing(r)
  BY DEF RefinementInv, SafetyInv, CallsAreBound, Store, Executing
<1>1. RowMatches(r) /\ rows[k].state = "pending" /\ rows[k].binding = b
  BY <1>0 DEF RefinementInv, SafetyInv, ExecutorKeepsRow, ExecutorsRowIsPending, RowMatches
<1>2. slot[k] = Contract!Held(r, b)
  BY <1>0, <1>1, HolderNow, SlotStates DEF slot, Contract!Held
<1>3. outcome[r] = [state |-> "working", key |-> k, binding |-> b,
                    answer |-> call[r].answer]
  BY <1>0, OutcomeStates DEF outcome, Executing
<1>4. rows' = [rows EXCEPT ![k] = CompletedRow(rows[k], r)]
  BY <1>1 DEF Store
<1>5. slot'[k] = Contract!Done(r, b)
  BY <1>0, <1>1, <1>4, SlotStates DEF slot, CompletedRow, Contract!Done, TypeOK
<1>6. ASSUME NEW q \in Keys, q # k PROVE slot'[q] = slot[q]
  <2>1. rows'[q] = rows[q]
    BY <1>0, <1>4, <1>6 DEF TypeOK
  <2>2. /\ \A s \in Requests \ {r} : call'[s] = call[s]
        /\ call'[r].key = k
    BY <1>0 DEF Store, Ended, CallOf, TypeOK
  <2>3. Holder(q)' = Holder(q)
    BY <1>6, <2>2, HolderStays DEF Executing
  <2> QED BY <2>1, <2>3, SlotStays
<1>7. slot' = [slot EXCEPT ![k] = Contract!Done(r, b)]
  BY <1>0, <1>5, <1>6 DEF slot
<1>8. Contract!Becomes(r, k, b, "stored", None)
  BY <1>0, OutcomeBecomes, OutcomeStates DEF Store, Ended
<1> QED BY <1>2, <1>3, <1>7, <1>8 DEF Contract!Finish

\* A failed store and a death of the process make their callers vanish.
LEMMA GoneVanish ==
    ASSUME RefinementInv, NEW S \in SUBSET Requests, UNCHANGED rows,
           \A r \in S : Executing(r) \/ Waiting(r),
           NEW p \in {"unstored", "lost"},
           \A r \in S : call'[r] = Ended(call[r], p, None),
           \A r \in Requests \ S : call'[r] = call[r]
    PROVE  Contract!Vanish(S)
<1>0. TypeOK /\ OneExecutorPerKey
  BY DEF RefinementInv, SafetyInv
<1>1. ASSUME NEW r \in S
      PROVE  /\ outcome[r].state \in {"working", "waiting"}
             /\ ~Executing(r)'
             /\ outcome'[r] = Contract!Outcome("gone", outcome[r].key,
                                               outcome[r].binding, None)
  <2>1. call[r].phase \in {"executing", "waiting"}
    BY DEF Executing, Waiting
  <2>2. /\ call'[r].phase = p /\ call'[r].answer = None
        /\ call'[r].key = call[r].key /\ call'[r].binding = call[r].binding
    <3>1. call'[r] = Ended(call[r], p, None)
      BY <1>1
    <3> QED BY <3>1 DEF Ended, CallOf
  <2>3. OutcomeState(call'[r].phase) = "gone"
    BY <2>2, OutcomeStates
  <2> QED BY <2>1, <2>2, <2>3, OutcomeStates DEF outcome, Executing, Contract!Outcome
<1>3. ASSUME NEW r \in Requests \ S PROVE outcome'[r] = outcome[r]
  BY <1>3 DEF outcome
<1>4. ASSUME NEW k \in Keys
      PROVE  slot'[k] = IF slot[k].state = "held" /\ slot[k].by \in S
                        THEN Contract!Held(None, slot[k].binding)
                        ELSE slot[k]
  <2>0. None \notin S
    BY NoneIsNoRequest
  <2>1. CASE rows[k].state # "pending"
    <3>1. slot[k].state # "held" /\ slot'[k] = slot[k]
      BY <1>0, <2>1, SlotStates DEF slot, TypeOK, Row
    <3> QED BY <3>1
  <2>2. CASE rows[k].state = "pending" /\ Holder(k) \in S
    <3>1. Executing(Holder(k)) /\ call[Holder(k)].key = k
      BY <2>2, <2>0, HolderType DEF Holders
    <3>2. ASSUME NEW s \in Requests PROVE ~(Executing(s)' /\ call'[s].key = k)
      BY <1>0, <1>1, <2>2, <3>1 DEF Executing, OneExecutorPerKey
    <3>3. Holder(k)' = None
      BY <3>2 DEF Holders, Holder
    <3> QED BY <2>2, <3>3, SlotStates DEF slot, Contract!Held
  <2>3. CASE rows[k].state = "pending" /\ Holder(k) \notin S
    <3>1. \A r \in S : ~(Executing(r) /\ call[r].key = k)
      BY <1>0, <2>3, HolderNow
    <3>2. Holder(k)' = Holder(k)
      BY <1>1, <3>1, HolderStays DEF Executing
    <3> QED BY <2>3, <3>2, SlotStays, SlotStates DEF slot
  <2> QED BY <2>1, <2>2, <2>3
<1> QED
  <2>1. outcome' = [r \in Requests |->
                       IF r \in S
                       THEN Contract!Outcome("gone", outcome[r].key, outcome[r].binding, None)
                       ELSE outcome[r]]
    <3>1. outcome' = [r \in Requests |-> outcome'[r]]
      BY DEF outcome
    <3> QED BY <1>1, <1>3, <3>1
  <2>2. slot' = [k \in Keys |-> IF slot[k].state = "held" /\ slot[k].by \in S
                                THEN Contract!Held(None, slot[k].binding)
                                ELSE slot[k]]
    <3>1. slot' = [k \in Keys |-> slot'[k]]
      BY DEF slot
    <3> QED BY <1>4, <3>1
  <2> QED BY <1>1, <2>1, <2>2 DEF Contract!Vanish

LEMMA StepMaps ==
    ASSUME MaxRun < Lease, RefinementInv, RefinementInv', [Next]_vars
    PROVE  [Contract!Next]_(Contract!vars)
<1>0. TypeOK
  BY DEF RefinementInv, SafetyInv
<1>1. ASSUME NEW r \in Requests, NEW k \in Keys, NEW b \in Bindings, Claim(r, k, b)
      PROVE  Contract!Next
  BY <1>1, ClaimArrives
<1>2. ASSUME NEW r \in Requests,
             WakeWithResponse(r) \/ WaitTimeout(r) \/ WakeCancelled(r)
      PROVE  Contract!Next
  BY <1>2, WaitLeaves DEF Contract!Next
<1>3. ASSUME NEW r \in Requests, Store(r) PROVE Contract!Next
  BY <1>3, StoreFinishes DEF Contract!Next
<1>4. ASSUME NEW r \in Requests, StoreFails(r) PROVE Contract!Next
  <2>1. /\ call'[r] = Ended(call[r], "unstored", None) /\ Executing(r)
        /\ \A s \in Requests \ {r} : call'[s] = call[s]
        /\ UNCHANGED rows
    BY <1>0, <1>4 DEF StoreFails, TypeOK
  <2>2. Contract!Vanish({r})
    BY <2>1, GoneVanish DEF RefinementInv, OneExecutorPerKey
  <2> QED BY <2>2 DEF Contract!Next
<1>5. CASE Crash
  <2> DEFINE S == {r \in Requests : Executing(r) \/ Waiting(r)}
  <2>1. /\ \A r \in S : call'[r] = Ended(call[r], "lost", None)
        /\ \A r \in Requests \ S : call'[r] = call[r]
        /\ UNCHANGED rows
    BY <1>5 DEF Crash
  <2>2. Contract!Vanish(S)
    BY <2>1, GoneVanish
  <2> QED BY <2>2 DEF Contract!Next
<1>6. CASE Tick \/ UNCHANGED vars
  <2>1. UNCHANGED <<rows, call>>
    BY <1>6 DEF Tick, vars
  <2> QED BY <2>1 DEF slot, outcome, Holder, Holders, Executing, Contract!vars
<1> QED BY <1>1, <1>2, <1>3, <1>4, <1>5, <1>6 DEF Next

\* When claimants store before their lease is over, the leases, the shared
\* futures, the takeovers, the late purges and the restarts of
\* durable_state.py amount to one slot per key that is free, held by one
\* request or done with its response, for every number of requests and keys.
THEOREM StoreImplementsContract ==
    ASSUME MaxRun < Lease, MaxRun <= Ttl
    PROVE  Spec => ImplementsContract
<1>1. RefinementInv /\ RefinementInv' /\ [Next]_vars => [Contract!Next]_(Contract!vars)
  BY StepMaps
<1> QED BY <1>1, InitMaps, RefinementInvariant, PTL DEF Spec, ImplementsContract,
        Contract!Spec
=============================================================================
