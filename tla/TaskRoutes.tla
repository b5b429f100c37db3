----------------------------- MODULE TaskRoutes -----------------------------
(***************************************************************************)
(* The mutating task routes of src/open_llm_auth/server/routes.py          *)
(* (universal_task_create, _approve, _retry, _cancel) composed with the    *)
(* durable store they claim and store through and with the Agent Bridge    *)
(* they call.                                                              *)
(*                                                                         *)
(* A handler runs on one event loop and is suspended only in the wait for  *)
(* another request's response, in the contract probe and in the upstream   *)
(* call.  The process can die anywhere, so every write that commits on its *)
(* own - the claim, the owner row, the stored response - is a step of its  *)
(* own.                                                                    *)
(*                                                                         *)
(* Data abstraction.  A Job is what a request asks: the operation, the     *)
(* subject of its token, the task it names and the rest of its body.  The  *)
(* body is part of the job only through equality.  One provider is         *)
(* modelled, so a task id alone keys the ownership table.  The append-only *)
(* action history, which no code reads back, is left out.                  *)
(***************************************************************************)
EXTENDS Naturals

CONSTANTS
    Requests, Keys, None, Lease, Ttl, MaxRun, LastCall, MaxNow, MaxCrashes,
    Tasks,      \* task ids of the bridge
    Subjects,   \* the principals tokens stand for
    Admins,     \* the ones whose token is an admin token
    Writers,    \* the ones whose token carries the write scope
    Jobs        \* the requests that can be made

Operations == {"create", "approve", "retry", "cancel"}

ASSUME JobsAreRequests ==
    \A j \in Jobs : /\ j.op \in Operations
                    /\ j.subject \in Subjects
                    /\ j.task \in Tasks \cup {None}
                    /\ j.op = "create" <=> j.task = None
ASSUME NoneIsNoTask == None \notin Tasks
ASSUME NoneIsNoSubject == None \notin Subjects

VARIABLES
    now, rows, pending, future, call, crashes,  \* DurableIdempotency
    owner,      \* table task_ownership: survives the process
    handler,    \* each request's progress through its route
    sent,       \* when each request's upstream call was made, if it was
    open,       \* upstream calls the bridge has not processed yet
    applied     \* what the bridge did: <<request, task>>

idemVars == <<now, rows, pending, future, call, crashes>>
routeVars == <<owner, handler, sent, open, applied>>
vars == <<now, rows, pending, future, call, crashes,
          owner, handler, sent, open, applied>>

\* What claim_idempotency is given besides the key.  The fingerprint is a
\* hash of actor, operation, task id and body: of the whole job.
BadBinding(j) == [scope |-> j.op, subject |-> None,
                  fingerprint |-> [j EXCEPT !.subject = None]]
Binding(j) == [scope |-> j.op, subject |-> j.subject, fingerprint |-> j]

Idem == INSTANCE DurableIdempotency WITH Bindings <- {Binding(j) : j \in Jobs}

ASSUME StoreAssumptions == /\ Idem!NoneIsNoRequest
                           /\ Idem!NoneIsNoBinding
                           /\ Idem!DurationsAreNat

-----------------------------------------------------------------------------
(* State *)

\* "probing": evaluate_task_contract.  "calling": the upstream call.
\* "served": the bridge has done the work and its answer is on the way.
\* "closing": the reply is chosen and not yet stored or sent.
Point == {"new", "waiting", "begun", "probing", "calling", "served",
          "closing", "answered", "lost"}

\* "refused": a decision of the gateway (400, 403, 409, 503), "failed": an
\* error of the upstream call or an exception.
Reply == {"none", "ok", "refused", "failed"}

Handler == [at    : Point,
            job   : Jobs \cup {None},
            task  : Tasks \cup {None},     \* the task id of the reply
            reply : Reply]

HandlerOf(p, j, t, reply) == [at |-> p, job |-> j, task |-> t, reply |-> reply]
NewHandler == HandlerOf("new", None, None, "none")

TypeOK ==
    /\ Idem!TypeOK
    /\ owner \in [Tasks -> Subjects \cup {None}]
    /\ handler \in [Requests -> Handler]
    /\ sent \in [Requests -> Nat \cup {None}]
    /\ open \subseteq Requests
    /\ applied \subseteq Requests \X Tasks

Init ==
    /\ Idem!Init
    /\ owner = [t \in Tasks |-> None]
    /\ handler = [r \in Requests |-> NewHandler]
    /\ sent = [r \in Requests |-> None]
    /\ open = {}
    /\ applied = {}

At(r, p) == handler[r].at = p
Moved(r, p) ==
    [handler EXCEPT ![r] = HandlerOf(p, handler[r].job, handler[r].task, handler[r].reply)]
Replying(r, reply, t) ==
    [handler EXCEPT ![r] = HandlerOf("closing", handler[r].job, t, reply)]
Answering(r, j, reply, t) ==
    [handler EXCEPT ![r] = HandlerOf("answered", j, t, reply)]
Keyed(r) == call[r].phase # "idle"

-----------------------------------------------------------------------------
(* Arrival: scope, store, idempotency claim *)

\* What the claim answered, as _maybe_replay_idempotent passes it on.  A
\* cancelled wait leaves the route as an unhandled exception.
BadReplyOf(c) == IF c.phase = "replayed" THEN handler[c.answer].reply ELSE c.phase
ReplyOf(c) == CASE c.phase = "replayed"    -> handler[c.answer].reply
                [] c.phase \in {"conflict", "in_progress"} -> "refused"
                [] c.phase = "aborted"     -> "failed"
TaskOf(c) == IF c.phase = "replayed" THEN handler[c.answer].task ELSE None

\* No write scope, or the control-state database cannot be opened.
TurnAway(r, j) ==
    /\ At(r, "new")
    /\ now <= LastCall
    /\ handler' = Answering(r, j, "refused", None)
    /\ UNCHANGED idemVars
    /\ UNCHANGED <<owner, sent, open, applied>>

ArriveWithKey(r, j, k) ==
    /\ At(r, "new")
    /\ j.subject \in Writers
    /\ Idem!Claim(r, k, Binding(j))
    /\ handler' =
          CASE call'[r].phase = "executing" ->
                  [handler EXCEPT ![r] = HandlerOf("begun", j, None, "none")]
            [] call'[r].phase = "waiting" ->
                  [handler EXCEPT ![r] = HandlerOf("waiting", j, None, "none")]
            [] OTHER -> Answering(r, j, ReplyOf(call'[r]), TaskOf(call'[r]))
    /\ UNCHANGED <<owner, sent, open, applied>>

ArriveWithoutKey(r, j) ==
    /\ At(r, "new")
    /\ now <= LastCall
    /\ j.subject \in Writers
    /\ handler' = [handler EXCEPT ![r] = HandlerOf("begun", j, None, "none")]
    /\ UNCHANGED idemVars
    /\ UNCHANGED <<owner, sent, open, applied>>

Wake(r) ==
    /\ At(r, "waiting")
    /\ \/ Idem!WakeWithResponse(r)
       \/ Idem!WaitTimeout(r)
       \/ Idem!WakeCancelled(r)
    /\ handler' = Answering(r, handler[r].job, ReplyOf(call'[r]), TaskOf(call'[r]))
    /\ UNCHANGED <<owner, sent, open, applied>>

-----------------------------------------------------------------------------
(* The guards before the upstream call *)

\* _enforce_task_owner: an admin passes without a look at the table.
BadMayMutate(subject, t) == subject \in Admins \/ owner[t] \in {None, subject}
MayMutate(subject, t) == subject \in Admins \/ owner[t] = subject
Authorised(j) == j.op # "create" => MayMutate(j.subject, j.task)

\* _resolve_agent_bridge_provider, then _enforce_task_owner, which a create
\* does not call.  Resolution may find no provider and the ownership table
\* may be unreadable, whoever asks.
CheckOwner(r) ==
    /\ At(r, "begun")
    /\ \/ /\ Authorised(handler[r].job)
          /\ handler' = Moved(r, "probing")
       \/ handler' = Replying(r, "refused", None)
    /\ UNCHANGED idemVars
    /\ UNCHANGED <<owner, sent, open, applied>>

\* _enforce_mutating_task_contract: the decision is TaskContract's.
Probe(r) ==
    /\ At(r, "probing")
    /\ \/ /\ handler' = Moved(r, "calling")
          /\ sent' = [sent EXCEPT ![r] = now]
          /\ open' = open \cup {r}
       \/ /\ handler' = Replying(r, "refused", None)
          /\ UNCHANGED <<sent, open>>
    /\ UNCHANGED idemVars
    /\ UNCHANGED <<owner, applied>>

\* Resolution raises something other than ValueError, or load_config fails
\* in the contract check: the exception leaves the route, which then never
\* stores a response.
Escape(r) ==
    /\ At(r, "begun") \/ At(r, "probing")
    /\ handler' = Answering(r, handler[r].job, "failed", None)
    /\ IF Keyed(r) THEN Idem!StoreFails(r) ELSE UNCHANGED idemVars
    /\ UNCHANGED <<owner, sent, open, applied>>

-----------------------------------------------------------------------------
(* The Agent Bridge, and what comes back from it *)

\* The bridge processes a call, perhaps after its caller gave up or died.
\* It names a new task as it likes, an id it gave out before included.
BridgeApplies(r, t) ==
    LET j == handler[r].job IN
    /\ r \in open
    /\ j.op # "create" => t = j.task
    /\ open' = open \ {r}
    /\ applied' = applied \cup {<<r, t>>}
    /\ handler' = IF At(r, "calling")
                  THEN [handler EXCEPT ![r] =
                           HandlerOf("served", j, t, handler[r].reply)]
                  ELSE handler
    /\ UNCHANGED idemVars
    /\ UNCHANGED <<owner, sent>>

\* An HTTP error status: the bridge did nothing.
BridgeRefuses(r) ==
    /\ At(r, "calling")
    /\ r \in open
    /\ open' = open \ {r}
    /\ handler' = Replying(r, "failed", None)
    /\ UNCHANGED idemVars
    /\ UNCHANGED <<owner, sent, applied>>

BadCallFails(r) ==
    /\ At(r, "served")
    /\ handler' = Replying(r, "failed", None)
    /\ UNCHANGED idemVars
    /\ UNCHANGED <<owner, sent, open, applied>>

\* A timeout, a broken connection, a body that is not JSON, or a failed
\* write to the ownership table: the bridge may have done the work, or may
\* still do it.
CallFails(r) ==
    /\ At(r, "calling") \/ At(r, "served")
    /\ handler' = Replying(r, "failed", None)
    /\ UNCHANGED idemVars
    /\ UNCHANGED <<owner, sent, open, applied>>

\* claim_task_owner: insert if absent, then compare.
BadClaimed(t, subject) == TRUE
Claimed(t, subject) == owner[t] \in {None, subject}
BadOwnerRow(t, subject) == [owner EXCEPT ![t] = subject]
OwnerRow(t, subject) == IF owner[t] = None
                        THEN [owner EXCEPT ![t] = subject] ELSE owner

CreateReturns(r) ==
    LET h == handler[r] IN
    /\ At(r, "served")
    /\ h.job.op = "create"
    /\ owner' = OwnerRow(h.task, h.job.subject)
    /\ handler' = IF Claimed(h.task, h.job.subject)
                  THEN Replying(r, "ok", h.task)
                  ELSE Replying(r, "refused", None)
    /\ UNCHANGED idemVars
    /\ UNCHANGED <<sent, open, applied>>

\* The bridge's answer names no task: nobody becomes an owner.
CreateReturnsUnnamed(r) ==
    /\ At(r, "served")
    /\ handler[r].job.op = "create"
    /\ handler' = Replying(r, "ok", None)
    /\ UNCHANGED idemVars
    /\ UNCHANGED <<owner, sent, open, applied>>

MutationReturns(r) ==
    /\ At(r, "served")
    /\ handler[r].job.op # "create"
    /\ handler' = Replying(r, "ok", handler[r].task)
    /\ UNCHANGED idemVars
    /\ UNCHANGED <<owner, sent, open, applied>>

-----------------------------------------------------------------------------
(* The reply *)

\* _store_idempotent, then the response; its failure changes nothing else.
Close(r) ==
    /\ At(r, "closing")
    /\ handler' = Moved(r, "answered")
    /\ IF Keyed(r) THEN Idem!Store(r) \/ Idem!StoreFails(r)
                   ELSE UNCHANGED idemVars
    /\ UNCHANGED <<owner, sent, open, applied>>

Tick == Idem!Tick /\ UNCHANGED routeVars

InFlight(r) == handler[r].at \notin {"new", "answered", "lost"}

\* The bridge and the two tables outlive the gateway's process.
Crash ==
    /\ Idem!Crash
    /\ handler' = [r \in Requests |->
                     IF InFlight(r)
                     THEN HandlerOf("lost", handler[r].job, handler[r].task,
                                    handler[r].reply)
                     ELSE handler[r]]
    /\ UNCHANGED <<owner, sent, open, applied>>

Handles(r) ==
    \/ Wake(r) \/ CheckOwner(r) \/ Probe(r) \/ Escape(r)
    \/ CallFails(r) \/ CreateReturns(r) \/ CreateReturnsUnnamed(r)
    \/ MutationReturns(r) \/ Close(r)

Next ==
    \/ \E r \in Requests, j \in Jobs :
          \/ TurnAway(r, j)
          \/ ArriveWithoutKey(r, j)
          \/ \E k \in Keys : ArriveWithKey(r, j, k)
    \/ \E r \in Requests :
          Handles(r) \/ BridgeRefuses(r) \/ \E t \in Tasks : BridgeApplies(r, t)
    \/ Tick
    \/ Crash

Spec == Init /\ [][Next]_vars

\* The loop runs what is ready and the upstream client's timeout ends a
\* call the bridge never answers (CallFails); the bridge owes nothing.
FairSpec == Spec /\ WF_vars(Tick) /\ \A r \in Requests : WF_vars(Handles(r))

-----------------------------------------------------------------------------
(* Properties *)

\* Once recorded, the owner of a task never changes, through restarts and
\* through a bridge that hands the same id out again.
OwnerIsForever ==
    [][\A t \in Tasks : owner[t] # None => owner'[t] = owner[t]]_vars

\* The bridge approves, retries or cancels a task only for an admin or for
\* the task's owner, even when the call reaches it after the caller is gone.
OnlyOwnerMutates ==
    \A r \in Requests, t \in Tasks :
        <<r, t>> \in applied /\ handler[r].job.op # "create" =>
            \/ handler[r].job.subject \in Admins
            \/ handler[r].job.subject = owner[t]

\* A caller who was answered 200 to a create, by the call itself or by a
\* replay of it, owns the task it was told of, if it was told of one.
CreatedTaskIsOwned ==
    \A r \in Requests :
        /\ At(r, "answered")
        /\ handler[r].reply = "ok"
        /\ handler[r].job.op = "create"
        /\ handler[r].task # None
        => owner[handler[r].task] = handler[r].job.subject

\* A 200, first-hand or replayed, answers what the bridge did for an
\* identical request of the same subject: the task it names was touched then.
SuccessWasApplied ==
    \A r \in Requests :
        handler[r].reply = "ok" =>
            \E s \in Requests, t \in Tasks : /\ <<s, t>> \in applied
                                             /\ handler[r].task \in {t, None}
                                             /\ handler[s].job = handler[r].job

SameKey(r, s) == call[r].key = call[s].key /\ call[r].binding = call[s].binding

\* The upstream call of a keyed request is made once while its answer is
\* remembered: a second one needs a first that never stored its answer
\* (a failed store, a dead process) or an expired row.
SentOncePerKey ==
    \A r, s \in Requests :
        /\ r # s /\ Keyed(r) /\ Keyed(s) /\ SameKey(r, s)
        /\ sent[r] # None /\ sent[s] # None
        /\ sent[r] <= sent[s]
        => \/ sent[s] > sent[r] + Ttl
           \/ \E q \in Requests : /\ SameKey(q, r)
                                  /\ call[q].phase \in {"unstored", "lost"}

\* Every request that was let in is answered, or its process dies.
RequestsAnswered ==
    \A r \in Requests : InFlight(r) ~> ~InFlight(r)
=============================================================================
