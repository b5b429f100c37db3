------------------------- MODULE DurableIdempotency -------------------------
(***************************************************************************)
(* The idempotency half of DurableControlStateStore                        *)
(* (src/open_llm_auth/server/durable_state.py): claim_idempotency and      *)
(* store_idempotency, the rows they keep in SQLite and the futures they    *)
(* keep in memory.                                                         *)
(*                                                                         *)
(* Every method body runs under one asyncio.Lock and awaits nothing while  *)
(* holding it, so a claim or a store is one action.  What interleaves is   *)
(* everything between a request's claim and its store: the upstream call,  *)
(* other requests' claims, the expiry of the pending lease, the wait of    *)
(* the duplicates on a shared future, and the death of the process.        *)
(*                                                                         *)
(* Data abstraction.  (scope, subject, fingerprint) is only ever compared  *)
(* as a whole: it is one Binding.  A response is named by the request      *)
(* whose store supplied it, a future by the request whose claim created    *)
(* it.  The wall clock of the rows and the loop clock of wait_for are one  *)
(* clock, `now`, in units the constants choose.                            *)
(***************************************************************************)
EXTENDS Naturals

CONSTANTS
    Requests,   \* the calls made of the store, one per HTTP request
    Keys,       \* idempotency keys
    Bindings,   \* (scope, subject, fingerprint) triples
    None,       \* "no future", "no response", "no binding"
    Lease,      \* pendingLeaseSeconds
    Ttl,        \* idempotencyTtlSeconds
    MaxRun,     \* bound: the longest a claimant works before its store
    LastCall,   \* bound: the last instant at which a request arrives
    MaxNow,     \* bound: the last instant of the clock
    MaxCrashes  \* bound: process deaths

ASSUME NoneIsNoRequest == None \notin Requests
ASSUME NoneIsNoBinding == None \notin Bindings
ASSUME DurationsAreNat ==
    /\ Lease \in Nat \ {0}
    /\ Ttl \in Nat \ {0}
    /\ MaxRun \in Nat
    /\ LastCall \in Nat
    /\ MaxNow \in Nat
    /\ MaxCrashes \in Nat

VARIABLES
    now,        \* the clock
    rows,       \* table idempotency_keys: survives the process
    pending,    \* _pending_futures: the future registered for each key
    future,     \* the futures, by the request whose claim created them
    call,       \* each request's progress through claim and store
    crashes     \* process deaths so far

vars == <<now, rows, pending, future, call, crashes>>

-----------------------------------------------------------------------------
(* State *)

Row == [state   : {"absent", "pending", "completed"},
        binding : Bindings \cup {None},
        lease   : Nat,
        expires : Nat,
        result  : Requests \cup {None}]

NoRow == [state |-> "absent", binding |-> None, lease |-> 0, expires |-> 0,
          result |-> None]

Future == [state  : {"none", "open", "done", "cancelled"},
           result : Requests \cup {None}]

NoFuture == [state |-> "none", result |-> None]

(* "executing": the claim answered "new" and the caller owes a store.      *)
(* "waiting": inside asyncio.wait_for.  The others are final.              *)
Phase == {"idle", "executing", "waiting",
          "replayed", "conflict", "in_progress", "aborted",
          "stored", "unstored", "lost"}

Call == [phase   : Phase,
         key     : Keys \cup {None},
         binding : Bindings \cup {None},
         since   : Nat,                     \* when it began to execute or wait
         on      : Requests \cup {None},    \* the future it waits on
         answer  : Requests \cup {None}]    \* the response a replay returned

CallOf(p, k, b, t, f, a) == [phase |-> p, key |-> k, binding |-> b, since |-> t,
                             on |-> f, answer |-> a]
NoCall == CallOf("idle", None, None, 0, None, None)

Executing(r) == call[r].phase = "executing"
Waiting(r)   == call[r].phase = "waiting"

TypeOK ==
    /\ now \in Nat
    /\ rows \in [Keys -> Row]
    /\ pending \in [Keys -> Requests \cup {None}]
    /\ future \in [Requests -> Future]
    /\ call \in [Requests -> Call]
    /\ crashes \in Nat
    /\ \A r \in Requests : Waiting(r) => call[r].on \in Requests

Init ==
    /\ now = 0
    /\ rows = [k \in Keys |-> NoRow]
    /\ pending = [k \in Keys |-> None]
    /\ future = [r \in Requests |-> NoFuture]
    /\ call = [r \in Requests |-> NoCall]
    /\ crashes = 0

-----------------------------------------------------------------------------
(* claim_idempotency *)

\* _purge_expired_locked drops every completed row past its expiry, whatever
\* its key; a pending row is never dropped.
Expired(row) == row.state = "completed" /\ row.expires < now
Purged == [k \in Keys |-> IF Expired(rows[k]) THEN NoRow ELSE rows[k]]

\* The definitions named Bad... are slips a change to this code could make.
\* Nothing uses them: the mutants put them in the place of the definition
\* that follows, to see that the properties notice.
BadSameBinding(row, b) == TRUE
BadLeaseOver(row) == row.lease <= now + 1
SameBinding(row, b) == row.binding = b
LeaseOver(row) == row.lease <= now

BadPendingRow(b) == [state |-> "pending", binding |-> b, lease |-> now,
                     expires |-> now + Ttl, result |-> None]
PendingRow(b) == [state |-> "pending", binding |-> b, lease |-> now + Lease,
                  expires |-> now + Ttl, result |-> None]

BadRenewedRow(row) == [row EXCEPT !.lease = now + Lease]
\* The takeover's UPDATE leaves the columns of the binding alone.
RenewedRow(row) == [state |-> row.state, binding |-> row.binding,
                    lease |-> now + Lease, expires |-> now + Ttl,
                    result |-> row.result]

\* The claim answers "new": a future of its own replaces the one registered
\* for the key, if any, and the caller goes on to do the work.
BecomeExecutor(r, k, b) ==
    /\ pending' = [pending EXCEPT ![k] = r]
    /\ future' = [future EXCEPT ![r] = [state |-> "open", result |-> None]]
    /\ call' = [call EXCEPT ![r] = CallOf("executing", k, b, now, None, None)]

\* The claim answers without work: `p` is its status.
Answer(r, k, b, p, response) ==
    /\ rows' = Purged
    /\ call' = [call EXCEPT ![r] = CallOf(p, k, b, 0, None, response)]
    /\ UNCHANGED <<pending, future>>

ClaimNew(r, k, b) ==
    /\ Purged[k].state = "absent"
    /\ rows' = [Purged EXCEPT ![k] = PendingRow(b)]
    /\ BecomeExecutor(r, k, b)

ClaimConflict(r, k, b) ==
    /\ Purged[k].state # "absent"
    /\ ~SameBinding(Purged[k], b)
    /\ Answer(r, k, b, "conflict", None)

ClaimReplay(r, k, b) ==
    /\ Purged[k].state = "completed"
    /\ SameBinding(Purged[k], b)
    /\ Answer(r, k, b, "replayed", Purged[k].result)

ClaimTakeover(r, k, b) ==
    /\ Purged[k].state = "pending"
    /\ SameBinding(Purged[k], b)
    /\ LeaseOver(Purged[k])
    /\ rows' = [Purged EXCEPT ![k] = RenewedRow(Purged[k])]
    /\ BecomeExecutor(r, k, b)

BadClaimWait(r, k, b) ==
    /\ Purged[k].state = "pending"
    /\ SameBinding(Purged[k], b)
    /\ ~LeaseOver(Purged[k])
    /\ rows' = Purged
    /\ call' = [call EXCEPT ![r] = CallOf("waiting", k, b, now, pending[k], None)]
    /\ UNCHANGED <<pending, future>>

ClaimWait(r, k, b) ==
    /\ Purged[k].state = "pending"
    /\ SameBinding(Purged[k], b)
    /\ ~LeaseOver(Purged[k])
    /\ pending[k] # None
    /\ rows' = Purged
    /\ call' = [call EXCEPT ![r] = CallOf("waiting", k, b, now, pending[k], None)]
    /\ UNCHANGED <<pending, future>>

\* No future is registered: the claimant belongs to a process that died.
ClaimInProgress(r, k, b) ==
    /\ Purged[k].state = "pending"
    /\ SameBinding(Purged[k], b)
    /\ ~LeaseOver(Purged[k])
    /\ pending[k] = None
    /\ Answer(r, k, b, "in_progress", None)

Claim(r, k, b) ==
    /\ call[r].phase = "idle"
    /\ now <= LastCall
    /\ \/ ClaimNew(r, k, b)
       \/ ClaimConflict(r, k, b)
       \/ ClaimReplay(r, k, b)
       \/ ClaimTakeover(r, k, b)
       \/ ClaimWait(r, k, b)
       \/ ClaimInProgress(r, k, b)
    /\ UNCHANGED <<now, crashes>>

-----------------------------------------------------------------------------
(* The wait of a duplicate: asyncio.wait_for on the registered future *)

Ended(c, p, response) == CallOf(p, c.key, c.binding, 0, None, response)

WakeWithResponse(r) ==
    /\ Waiting(r)
    /\ future[call[r].on].state = "done"
    /\ call' = [call EXCEPT ![r] =
                    Ended(call[r], "replayed", future[call[r].on].result)]
    /\ UNCHANGED <<now, rows, pending, future, crashes>>

BadWaitOver(r) == FALSE
WaitOver(r) == call[r].since + Lease <= now

\* wait_for cancels what it waits on.  The future is not shielded: it is
\* the one every other duplicate of the key waits on too.  A result set in
\* the loop iteration in which the timer fires is returned by wait_for up to
\* Python 3.11 and dropped by later ones: both outcomes are steps here.
WaitTimeout(r) ==
    /\ Waiting(r)
    /\ WaitOver(r)
    /\ future' = IF future[call[r].on].state = "open"
                 THEN [future EXCEPT ![call[r].on] =
                          [state |-> "cancelled", result |-> None]]
                 ELSE future
    /\ call' = [call EXCEPT ![r] = Ended(call[r], "in_progress", None)]
    /\ UNCHANGED <<now, rows, pending, crashes>>

\* CancelledError is not asyncio.TimeoutError: it leaves claim_idempotency.
WakeCancelled(r) ==
    /\ Waiting(r)
    /\ future[call[r].on].state = "cancelled"
    /\ call' = [call EXCEPT ![r] = Ended(call[r], "aborted", None)]
    /\ UNCHANGED <<now, rows, pending, future, crashes>>

-----------------------------------------------------------------------------
(* store_idempotency *)

\* The UPDATE's WHERE names the key and the binding: neither the row's state
\* nor which claim the storing request made.
RowMatches(r) ==
    /\ rows[call[r].key].state # "absent"
    /\ rows[call[r].key].binding = call[r].binding

CompletedRow(row, r) == [state |-> "completed", binding |-> row.binding,
                         lease |-> row.lease, expires |-> now + Ttl,
                         result |-> r]

BadResolve(k, r) ==
    /\ UNCHANGED pending
    /\ future' = IF pending[k] # None /\ future[pending[k]].state = "open"
                 THEN [future EXCEPT ![pending[k]] =
                          [state |-> "done", result |-> r]]
                 ELSE future

\* The future is popped and resolved whether or not a row matched.
Resolve(k, r) ==
    /\ pending' = [pending EXCEPT ![k] = None]
    /\ future' = IF pending[k] # None /\ future[pending[k]].state = "open"
                 THEN [future EXCEPT ![pending[k]] =
                          [state |-> "done", result |-> r]]
                 ELSE future

Store(r) ==
    /\ Executing(r)
    /\ rows' = IF RowMatches(r)
               THEN [rows EXCEPT ![call[r].key] =
                        CompletedRow(rows[call[r].key], r)]
               ELSE rows
    /\ Resolve(call[r].key, r)
    /\ call' = [call EXCEPT ![r] = Ended(call[r], "stored", None)]
    /\ UNCHANGED <<now, crashes>>

\* routes._store_idempotent swallows what the store raises (a locked
\* database, a body that is not JSON): the row stays pending, the future
\* stays registered and open.
StoreFails(r) ==
    /\ Executing(r)
    /\ call' = [call EXCEPT ![r] = Ended(call[r], "unstored", None)]
    /\ UNCHANGED <<now, rows, pending, future, crashes>>

-----------------------------------------------------------------------------
(* The environment *)

Tick ==
    /\ now < MaxNow
    /\ \A r \in Requests : Executing(r) => now < call[r].since + MaxRun
    /\ now' = now + 1
    /\ UNCHANGED <<rows, pending, future, call, crashes>>

\* The process dies and is started again: SQLite keeps the rows, the futures
\* and every call in flight are gone.
Crash ==
    /\ crashes < MaxCrashes
    /\ crashes' = crashes + 1
    /\ pending' = [k \in Keys |-> None]
    /\ future' = [r \in Requests |-> NoFuture]
    /\ call' = [r \in Requests |->
                   IF Executing(r) \/ Waiting(r)
                   THEN Ended(call[r], "lost", None)
                   ELSE call[r]]
    /\ UNCHANGED <<now, rows>>

Next ==
    \/ \E r \in Requests, k \in Keys, b \in Bindings : Claim(r, k, b)
    \/ \E r \in Requests : \/ WakeWithResponse(r)
                           \/ WaitTimeout(r)
                           \/ WakeCancelled(r)
                           \/ Store(r)
                           \/ StoreFails(r)
    \/ Tick
    \/ Crash

Spec == Init /\ [][Next]_vars

\* Time passes, a claimant finishes within MaxRun (the upstream client's
\* timeout), and the event loop runs what is ready.  Nothing makes a client
\* send a request, and nothing makes a process die.
Fairness ==
    /\ WF_vars(Tick)
    /\ \A r \in Requests :
          /\ WF_vars(Store(r) \/ StoreFails(r))
          /\ WF_vars(WakeWithResponse(r) \/ WaitTimeout(r) \/ WakeCancelled(r))

FairSpec == Spec /\ Fairness

-----------------------------------------------------------------------------
(* Properties *)

\* s stored the response of key k under binding b.
Author(calls, s, k, b) == /\ s # None
                          /\ calls[s].phase = "stored"
                          /\ calls[s].key = k
                          /\ calls[s].binding = b

\* While a claimant works, the row it claimed is there under its binding,
\* with a lease and an expiry no earlier than the ones its claim set: no
\* purge, takeover or late store of another request takes the row away from
\* the store it will make.  This is what ties store_idempotency's UPDATE to
\* the claim, although neither carries an owner.
ExecutorKeepsRow ==
    \A r \in Requests : Executing(r) =>
        LET row == rows[call[r].key] IN
        /\ RowMatches(r)
        /\ row.lease >= call[r].since + Lease
        /\ row.expires >= call[r].since + Ttl

\* At most one claimant of a key is inside the lease its claim took, however
\* often the key is taken over, completed late or claimed again after a
\* restart.
OneExecutorWithinLease ==
    \A r, s \in Requests :
        /\ Executing(r)
        /\ Executing(s)
        /\ call[r].key = call[s].key
        /\ now < call[r].since + Lease
        /\ now < call[s].since + Lease
        => r = s

\* A replay, served from the row or by waking a duplicate, is the response
\* some request with the same key, scope, subject and fingerprint stored.
ReplayMatchesRequest ==
    \A r \in Requests : call[r].phase = "replayed" =>
        Author(call, call[r].answer, call[r].key, call[r].binding)

\* The future registered for a key belongs to a claim that the row still
\* records as pending, under the binding of that claim: a duplicate that
\* finds a live lease waits for its own request's work, not another's.
RegisteredFutureIsOfPendingRow ==
    \A k \in Keys : pending[k] # None =>
        /\ rows[k].state = "pending"
        /\ rows[k].binding = call[pending[k]].binding
        /\ call[pending[k]].key = k
        /\ call[pending[k]].phase # "idle"

\* Two requests never work for one key at the same time.
OneExecutorPerKey ==
    \A r, s \in Requests :
        Executing(r) /\ Executing(s) /\ call[r].key = call[s].key => r = s

\* What was stored for a key is what every later replay returns, until the
\* row expires: no step replaces a completed response by another.
CompletedResponseIsFinal ==
    [][\A k \in Keys :
          rows[k].state = "completed" /\ rows'[k].state = "completed"
          => rows'[k].result = rows[k].result]_vars

\* claim_idempotency answers with one of the four statuses it declares: a
\* duplicate that waited gets the response or "in_progress".
WaitEndsWithStatus == \A r \in Requests : call[r].phase # "aborted"

\* Every duplicate that waits is answered, even when the claimant it waits
\* for never stores anything.
WaitersAnswered ==
    \A r \in Requests : Waiting(r) ~> ~Waiting(r)

-----------------------------------------------------------------------------
(* The inductive invariant behind the safety properties (MaxRun <= Ttl) *)

CallsAreBound ==
    \A r \in Requests : call[r].phase # "idle" =>
        call[r].key \in Keys /\ call[r].binding \in Bindings

ExecutorOnTime ==
    \A r \in Requests : Executing(r) =>
        call[r].since <= now /\ now <= call[r].since + MaxRun

CompletedRowHasAuthor ==
    \A k \in Keys : rows[k].state = "completed" =>
        Author(call, rows[k].result, k, rows[k].binding)

OpenedByClaim ==
    \A f \in Requests : future[f].state # "none" => call[f].phase # "idle"

DoneFutureHasAuthor ==
    \A f \in Requests : future[f].state = "done" =>
        Author(call, future[f].result, call[f].key, call[f].binding)

WaiterSharesBinding ==
    \A r \in Requests : Waiting(r) =>
        /\ call[r].on # None
        /\ call[call[r].on].phase # "idle"
        /\ call[call[r].on].key = call[r].key
        /\ call[call[r].on].binding = call[r].binding

SafetyInv ==
    /\ TypeOK
    /\ CallsAreBound
    /\ ExecutorOnTime
    /\ ExecutorKeepsRow
    /\ CompletedRowHasAuthor
    /\ RegisteredFutureIsOfPendingRow
    /\ OpenedByClaim
    /\ DoneFutureHasAuthor
    /\ WaiterSharesBinding
    /\ ReplayMatchesRequest
    /\ OneExecutorWithinLease

\* With MaxRun < Lease nothing stores for a key while another works for it.
ExecutorsRowIsPending ==
    \A r \in Requests : Executing(r) => rows[call[r].key].state = "pending"
=============================================================================
