-------------------------- MODULE TaskRoutes_proofs --------------------------
(***************************************************************************)
(* Theorems of TaskRoutes, for every number of requests, tasks, subjects   *)
(* and jobs and every lease, expiry and bound.                             *)
(***************************************************************************)
EXTENDS TaskRoutes, TLAPS

\* The theorems of the store, for the bindings the routes give it.
Store == INSTANCE DurableIdempotency_proofs WITH Bindings <- {Binding(j) : j \in Jobs}

-----------------------------------------------------------------------------
(* Every step of a route is a step of the store, or leaves it alone *)

LEMMA IdemStep ==
    ASSUME Next
    PROVE  Idem!Next \/ UNCHANGED idemVars
<1>1. ASSUME NEW r \in Requests, NEW j \in Jobs, TurnAway(r, j) \/ ArriveWithoutKey(r, j)
      PROVE  UNCHANGED idemVars
  BY <1>1 DEF TurnAway, ArriveWithoutKey
<1>2. ASSUME NEW r \in Requests, NEW j \in Jobs, NEW k \in Keys, ArriveWithKey(r, j, k)
      PROVE  Idem!Next
  <2>1. Binding(j) \in {Binding(i) : i \in Jobs}
    OBVIOUS
  <2> QED BY <1>2, <2>1 DEF ArriveWithKey, Idem!Next
<1>3. ASSUME NEW r \in Requests, Wake(r)
      PROVE  Idem!Next
  BY <1>3 DEF Wake, Idem!Next
<1>4. ASSUME NEW r \in Requests,
             \/ CheckOwner(r) \/ Probe(r) \/ BridgeRefuses(r) \/ CallFails(r)
             \/ CreateReturns(r) \/ CreateReturnsUnnamed(r) \/ MutationReturns(r)
      PROVE  UNCHANGED idemVars
  BY <1>4 DEF CheckOwner, Probe, BridgeRefuses, CallFails, CreateReturns,
              CreateReturnsUnnamed, MutationReturns
<1>5. ASSUME NEW r \in Requests, Escape(r) \/ Close(r)
      PROVE  Idem!Next \/ UNCHANGED idemVars
  BY <1>5 DEF Escape, Close, Idem!Next
<1>6. ASSUME NEW r \in Requests, NEW t \in Tasks, BridgeApplies(r, t)
      PROVE  UNCHANGED idemVars
  BY <1>6 DEF BridgeApplies
<1>7. CASE Tick
  BY <1>7 DEF Tick, Idem!Next
<1>8. CASE Crash
  BY <1>8 DEF Crash, Idem!Next
<1> QED BY <1>1, <1>2, <1>3, <1>4, <1>5, <1>6, <1>7, <1>8 DEF Next, Handles

\* The two instances of the store's specification are one.
LEMMA ClaimIsClaim ==
    ASSUME NEW r \in Requests, NEW k \in Keys, NEW b \in {Binding(j) : j \in Jobs},
           Idem!Claim(r, k, b)
    PROVE  Store!Claim(r, k, b)
  BY DEF Idem!Claim, Store!Claim, Idem!ClaimNew, Store!ClaimNew,
         Idem!ClaimConflict, Store!ClaimConflict, Idem!ClaimReplay, Store!ClaimReplay,
         Idem!ClaimTakeover, Store!ClaimTakeover, Idem!ClaimWait, Store!ClaimWait,
         Idem!ClaimInProgress, Store!ClaimInProgress, Idem!Answer, Store!Answer,
         Idem!BecomeExecutor, Store!BecomeExecutor, Idem!PendingRow, Store!PendingRow,
         Idem!RenewedRow, Store!RenewedRow, Idem!Purged, Store!Purged,
         Idem!Expired, Store!Expired, Idem!SameBinding, Store!SameBinding,
         Idem!LeaseOver, Store!LeaseOver, Idem!NoRow, Store!NoRow,
         Idem!CallOf, Store!CallOf

LEMMA OtherStepsAreSteps ==
    ASSUME NEW r \in Requests
    PROVE  /\ Idem!WakeWithResponse(r) => Store!WakeWithResponse(r)
           /\ Idem!WaitTimeout(r) => Store!WaitTimeout(r)
           /\ Idem!WakeCancelled(r) => Store!WakeCancelled(r)
           /\ Idem!Store(r) => Store!Store(r)
           /\ Idem!StoreFails(r) => Store!StoreFails(r)
  BY DEF Idem!WakeWithResponse, Store!WakeWithResponse, Idem!WaitTimeout, Store!WaitTimeout,
         Idem!WakeCancelled, Store!WakeCancelled, Idem!Store, Store!Store,
         Idem!StoreFails, Store!StoreFails, Idem!Waiting, Store!Waiting,
         Idem!Executing, Store!Executing, Idem!WaitOver, Store!WaitOver,
         Idem!Ended, Store!Ended, Idem!CallOf, Store!CallOf,
         Idem!RowMatches, Store!RowMatches, Idem!CompletedRow, Store!CompletedRow,
         Idem!Resolve, Store!Resolve

LEMMA EnvironmentStepsAreSteps ==
    /\ Idem!Tick => Store!Tick
    /\ Idem!Crash => Store!Crash
    /\ Idem!Init => Store!Init
  BY DEF Idem!Tick, Store!Tick, Idem!Crash, Store!Crash, Idem!Init, Store!Init,
         Idem!Executing, Store!Executing, Idem!Waiting, Store!Waiting,
         Idem!Ended, Store!Ended, Idem!CallOf, Store!CallOf,
         Idem!NoRow, Store!NoRow, Idem!NoFuture, Store!NoFuture, Idem!NoCall, Store!NoCall

LEMMA StoreStep ==
    ASSUME [Next]_vars
    PROVE  [Store!Next]_(Store!vars)
<1>1. CASE Idem!Next
  <2>1. ASSUME NEW r \in Requests, NEW k \in Keys, NEW b \in {Binding(j) : j \in Jobs},
               Idem!Claim(r, k, b)
        PROVE  Store!Next
    BY <2>1, ClaimIsClaim DEF Store!Next
  <2>2. ASSUME NEW r \in Requests,
               \/ Idem!WakeWithResponse(r) \/ Idem!WaitTimeout(r) \/ Idem!WakeCancelled(r)
               \/ Idem!Store(r) \/ Idem!StoreFails(r)
        PROVE  Store!Next
    BY <2>2, OtherStepsAreSteps DEF Store!Next
  <2>3. ASSUME Idem!Tick \/ Idem!Crash
        PROVE  Store!Next
    BY <2>3, EnvironmentStepsAreSteps DEF Store!Next
  <2> QED BY <1>1, <2>1, <2>2, <2>3 DEF Idem!Next
<1>2. CASE UNCHANGED idemVars
  BY <1>2 DEF idemVars, Store!vars
<1>3. CASE UNCHANGED vars
  BY <1>3 DEF vars, Store!vars
<1> QED BY <1>1, <1>2, <1>3, IdemStep

\* The routes give the store the constants its theorems assume.
LEMMA StoreHypotheses ==
    Store!NoneIsNoRequest /\ Store!NoneIsNoBinding /\ Store!DurationsAreNat
  BY StoreAssumptions DEF Store!NoneIsNoRequest, Store!NoneIsNoBinding,
     Store!DurationsAreNat, Idem!NoneIsNoRequest, Idem!NoneIsNoBinding,
     Idem!DurationsAreNat

LEMMA StoreTypeStep == Store!TypeOK /\ [Next]_vars => Store!TypeOK'
  BY StoreStep, StoreHypotheses, Store!TypeStep
     DEF Store!NoneIsNoRequest, Store!NoneIsNoBinding, Store!DurationsAreNat

-----------------------------------------------------------------------------
(* Ownership: needs nothing of the store *)

Admitted(r) == handler[r].at # "new"

\* What stands between a request and the bridge: a job that was let past the
\* owner check, while its call is to be made, under way or done.
OwnerInv ==
    /\ handler = [r \in Requests |-> handler[r]]
    /\ owner = [t \in Tasks |-> owner[t]]
    /\ \A r \in Requests : Admitted(r) => handler[r].job \in Jobs
    /\ \A r \in Requests : At(r, "probing") => Authorised(handler[r].job)
    /\ \A r \in Requests : r \in open => Admitted(r) /\ Authorised(handler[r].job)
    /\ \A r \in Requests, t \in Tasks : <<r, t>> \in applied =>
          /\ Admitted(r)
          /\ Authorised(handler[r].job)
          /\ handler[r].job.op # "create" => t = handler[r].job.task

\* No action changes or removes an owner row.
LEMMA OwnerRowsStay ==
    ASSUME owner = [t \in Tasks |-> owner[t]], [Next]_vars
    PROVE  /\ owner' = [t \in Tasks |-> owner'[t]]
           /\ \A t \in Tasks : owner[t] # None => owner'[t] = owner[t]
<1>1. ASSUME NEW r \in Requests, CreateReturns(r)
      PROVE  owner' = OwnerRow(handler[r].task, handler[r].job.subject)
  BY <1>1 DEF CreateReturns
<1>2. ASSUME NEW r \in Requests, Handles(r) \/ BridgeRefuses(r), ~CreateReturns(r)
      PROVE  owner' = owner
  BY <1>2 DEF Handles, Wake, CheckOwner, Probe, Escape, BridgeRefuses, CallFails,
              CreateReturnsUnnamed, MutationReturns, Close
<1>3. ASSUME NEW r \in Requests, NEW j \in Jobs,
             \/ TurnAway(r, j) \/ ArriveWithoutKey(r, j)
             \/ \E k \in Keys : ArriveWithKey(r, j, k)
      PROVE  owner' = owner
  BY <1>3 DEF TurnAway, ArriveWithoutKey, ArriveWithKey
<1>4. ASSUME NEW r \in Requests, NEW t \in Tasks, BridgeApplies(r, t)
      PROVE  owner' = owner
  BY <1>4 DEF BridgeApplies
<1>5. ASSUME Tick \/ Crash \/ UNCHANGED vars
      PROVE  owner' = owner
  BY <1>5 DEF Tick, Crash, routeVars, vars
<1>6. \/ owner' = owner
      \/ \E r \in Requests : owner' = OwnerRow(handler[r].task, handler[r].job.subject)
  <2>1. CASE \E r \in Requests : Handles(r) \/ BridgeRefuses(r)
    BY <2>1, <1>1, <1>2
  <2>2. CASE \E r \in Requests, t \in Tasks : BridgeApplies(r, t)
    BY <2>2, <1>4
  <2>3. CASE \E r \in Requests, j \in Jobs :
                \/ TurnAway(r, j)
                \/ ArriveWithoutKey(r, j)
                \/ \E k \in Keys : ArriveWithKey(r, j, k)
    BY <2>3, <1>3
  <2>4. CASE Next
    BY <2>4, <1>5, <2>1, <2>2, <2>3 DEF Next
  <2> QED BY <2>4, <1>5
<1>7. ASSUME NEW u, NEW s, owner' = OwnerRow(u, s)
      PROVE  /\ owner' = [t \in Tasks |-> owner'[t]]
             /\ \A t \in Tasks : owner[t] # None => owner'[t] = owner[t]
  BY <1>7 DEF OwnerRow
<1> QED BY <1>6, <1>7

\* What was allowed stays allowed.
LEMMA AuthorisedStays ==
    ASSUME NEW j \in Jobs, Authorised(j),
           \A t \in Tasks : owner[t] # None => owner'[t] = owner[t]
    PROVE  Authorised(j)'
  BY JobsAreRequests, NoneIsNoSubject DEF Authorised, MayMutate

\* A step of request r rewrites its own handler, keeps its job, and opens
\* the way to the bridge only to a job that may pass.
OwnStep(r) ==
    /\ handler' = [handler EXCEPT ![r] = handler'[r]]
    /\ handler'[r].at # "new"
    /\ handler'[r].job \in Jobs
    /\ Admitted(r) => handler'[r].job = handler[r].job
    /\ handler'[r].at = "probing" => Authorised(handler'[r].job)
    /\ \A x \in Requests : x \in open' =>
          x \in open \/ (x = r /\ Authorised(handler'[r].job))
    /\ \A x \in Requests, t \in Tasks : <<x, t>> \in applied' =>
          \/ <<x, t>> \in applied
          \/ /\ x = r
             /\ r \in open
             /\ handler'[r].job.op # "create" => t = handler'[r].job.task

LEMMA HandlerFields ==
    ASSUME NEW p, NEW j, NEW t, NEW y
    PROVE  HandlerOf(p, j, t, y).at = p /\ HandlerOf(p, j, t, y).job = j
  BY DEF HandlerOf

\* Most steps only move the handler on, away from the probe.
LEMMA QuietStep ==
    ASSUME OwnerInv, NEW r \in Requests, NEW h,
           handler' = [handler EXCEPT ![r] = h],
           h.at # "new", h.at # "probing",
           h.job \in Jobs, Admitted(r) => h.job = handler[r].job,
           open' \subseteq open, applied' = applied
    PROVE  OwnStep(r)
<1>1. handler'[r] = h
  BY DEF OwnerInv
<1> QED BY <1>1 DEF OwnStep

LEMMA HandlerStep ==
    ASSUME OwnerInv, Next, ~Tick, ~Crash
    PROVE  \E r \in Requests : OwnStep(r)
<1>1. ASSUME NEW r \in Requests, NEW j \in Jobs,
             TurnAway(r, j) \/ ArriveWithoutKey(r, j)
      PROVE  OwnStep(r)
  <2>1. ~Admitted(r) /\ open' = open /\ applied' = applied
    BY <1>1 DEF TurnAway, ArriveWithoutKey, Admitted, At
  <2>2. \/ handler' = [handler EXCEPT ![r] = HandlerOf("answered", j, None, "refused")]
        \/ handler' = [handler EXCEPT ![r] = HandlerOf("begun", j, None, "none")]
    BY <1>1 DEF TurnAway, ArriveWithoutKey, Answering
  <2>3. PICK h \in {HandlerOf("answered", j, None, "refused"),
                    HandlerOf("begun", j, None, "none")} :
           handler' = [handler EXCEPT ![r] = h]
    BY <2>2
  <2>4. h.at # "new" /\ h.at # "probing" /\ h.job = j
    BY HandlerFields
  <2> QED BY <2>1, <2>3, <2>4, QuietStep
<1>2. ASSUME NEW r \in Requests, NEW j \in Jobs, NEW k \in Keys,
             ArriveWithKey(r, j, k)
      PROVE  OwnStep(r)
  <2>1. ~Admitted(r) /\ open' = open /\ applied' = applied
    BY <1>2 DEF ArriveWithKey, Admitted, At
  <2> DEFINE a == HandlerOf("answered", j, TaskOf(call'[r]), ReplyOf(call'[r]))
             b == HandlerOf("begun", j, None, "none")
             w == HandlerOf("waiting", j, None, "none")
  <2>2. \E x \in {a, b, w} : handler' = [handler EXCEPT ![r] = x]
    BY <1>2 DEF ArriveWithKey, Answering
  <2>3. \A x \in {a, b, w} : x.at # "new" /\ x.at # "probing" /\ x.job = j
    BY HandlerFields
  <2> HIDE DEF a, b, w
  <2> QED BY <2>1, <2>2, <2>3, QuietStep
<1>3. ASSUME NEW r \in Requests, Wake(r) \/ Escape(r)
      PROVE  OwnStep(r)
  <2>1. Admitted(r) /\ open' = open /\ applied' = applied
    BY <1>3 DEF Wake, Escape, Admitted, At
  <2> DEFINE w == HandlerOf("answered", handler[r].job, TaskOf(call'[r]),
                            ReplyOf(call'[r]))
             e == HandlerOf("answered", handler[r].job, None, "failed")
  <2>2. \E x \in {w, e} : handler' = [handler EXCEPT ![r] = x]
    BY <1>3 DEF Wake, Escape, Answering
  <2>3. handler[r].job \in Jobs
    BY <2>1 DEF OwnerInv
  <2>4. \A x \in {w, e} : x.at = "answered" /\ x.job = handler[r].job
    BY HandlerFields
  <2> HIDE DEF w, e
  <2> QED BY <2>1, <2>2, <2>3, <2>4, QuietStep
<1>4. ASSUME NEW r \in Requests, CheckOwner(r)
      PROVE  OwnStep(r)
  <2>1. Admitted(r) /\ open' = open /\ applied' = applied /\ owner' = owner
    BY <1>4 DEF CheckOwner, Admitted, At
  <2>2. CASE Authorised(handler[r].job) /\ handler' = Moved(r, "probing")
    <3>1. handler'[r] = HandlerOf("probing", handler[r].job, handler[r].task,
                                  handler[r].reply)
      BY <2>2 DEF Moved, OwnerInv
    <3>2. handler' = [handler EXCEPT ![r] = handler'[r]]
      BY <2>2, <3>1 DEF Moved
    <3>3. handler'[r].at = "probing" /\ handler'[r].job = handler[r].job
      BY <3>1, HandlerFields
    <3>4. Authorised(handler'[r].job)
      BY <2>2, <3>3
    <3> QED BY <2>1, <3>2, <3>3, <3>4 DEF OwnStep, OwnerInv
  <2>3. CASE handler' = Replying(r, "refused", None)
    BY <2>1, <2>3, QuietStep, HandlerFields DEF Replying, OwnerInv
  <2> QED BY <1>4, <2>2, <2>3 DEF CheckOwner
<1>5. ASSUME NEW r \in Requests, Probe(r)
      PROVE  OwnStep(r)
  <2>1. At(r, "probing") /\ Admitted(r) /\ applied' = applied
    BY <1>5 DEF Probe, Admitted, At
  <2>2. CASE handler' = Moved(r, "calling") /\ open' = open \cup {r}
    <3>1. handler'[r] = HandlerOf("calling", handler[r].job, handler[r].task,
                                  handler[r].reply)
      BY <2>2 DEF Moved, OwnerInv
    <3>2. handler' = [handler EXCEPT ![r] = handler'[r]]
      BY <2>2, <3>1 DEF Moved
    <3>3. handler'[r].at = "calling" /\ handler'[r].job = handler[r].job
      BY <3>1, HandlerFields
    <3>4. Authorised(handler'[r].job)
      BY <2>1, <3>3 DEF OwnerInv
    <3> QED BY <2>1, <2>2, <3>2, <3>3, <3>4 DEF OwnStep, OwnerInv
  <2>3. CASE handler' = Replying(r, "refused", None) /\ open' = open
    BY <2>1, <2>3, QuietStep, HandlerFields DEF Replying, OwnerInv
  <2> QED BY <1>5, <2>2, <2>3 DEF Probe
<1>6. ASSUME NEW r \in Requests,
             \/ BridgeRefuses(r) \/ CallFails(r) \/ CreateReturns(r)
             \/ CreateReturnsUnnamed(r) \/ MutationReturns(r) \/ Close(r)
      PROVE  OwnStep(r)
  <2>1. Admitted(r) /\ open' \subseteq open /\ applied' = applied
    BY <1>6 DEF BridgeRefuses, CallFails, CreateReturns,
                CreateReturnsUnnamed, MutationReturns, Close,
                Admitted, At
  <2>2. \/ \E t, y : handler' = [handler EXCEPT ![r] =
                            HandlerOf("closing", handler[r].job, t, y)]
        \/ \E t, y : handler' = [handler EXCEPT ![r] =
                            HandlerOf("answered", handler[r].job, t, y)]
    BY <1>6 DEF BridgeRefuses, CallFails, CreateReturns,
                CreateReturnsUnnamed, MutationReturns, Close,
                Moved, Replying
  <2>3. PICK h : /\ handler' = [handler EXCEPT ![r] = h]
                 /\ h.at \in {"closing", "answered"}
                 /\ h.job = handler[r].job
    BY <2>2, HandlerFields
  <2>4. handler[r].job \in Jobs
    BY <2>1 DEF OwnerInv
  <2> QED BY <2>1, <2>3, <2>4, QuietStep
<1>7. ASSUME NEW r \in Requests, NEW u \in Tasks, BridgeApplies(r, u)
      PROVE  OwnStep(r)
  <2>1. /\ r \in open
        /\ Admitted(r)
        /\ open' \subseteq open
        /\ applied' = applied \cup {<<r, u>>}
        /\ handler[r].job.op # "create" => u = handler[r].job.task
    BY <1>7 DEF BridgeApplies, OwnerInv
  <2>2. \/ handler' = [handler EXCEPT ![r] =
                          HandlerOf("served", handler[r].job, u, handler[r].reply)]
        \/ ~At(r, "calling") /\ handler' = handler
    BY <1>7 DEF BridgeApplies
  <2>3. /\ handler' = [handler EXCEPT ![r] = handler'[r]]
        /\ handler'[r].job = handler[r].job
        /\ handler'[r].at = "served" \/ handler'[r].at = handler[r].at
    BY <2>2, HandlerFields DEF OwnerInv
  <2>4. handler'[r].at = "probing" => Authorised(handler'[r].job)
    BY <2>3 DEF OwnerInv, At
  <2> QED BY <2>1, <2>3, <2>4 DEF OwnStep, OwnerInv, Admitted
<1> QED BY <1>1, <1>2, <1>3, <1>4, <1>5, <1>6, <1>7 DEF Next, Handles

LEMMA OwnerStep == OwnerInv /\ [Next]_vars => OwnerInv'
<1> SUFFICES ASSUME OwnerInv, [Next]_vars
             PROVE  OwnerInv'
  OBVIOUS
<1>1. /\ owner' = [t \in Tasks |-> owner'[t]]
      /\ \A t \in Tasks : owner[t] # None => owner'[t] = owner[t]
  BY OwnerRowsStay DEF OwnerInv
<1>2. ASSUME NEW j \in Jobs, Authorised(j)
      PROVE  Authorised(j)'
  BY <1>1, <1>2, AuthorisedStays
<1>3. CASE UNCHANGED vars \/ Tick
  BY <1>3, <1>1 DEF vars, Tick, routeVars, OwnerInv, Admitted, At, Authorised, MayMutate
<1>4. CASE Crash
  <2>1. /\ handler' = [r \in Requests |-> handler'[r]]
        /\ \A r \in Requests : /\ handler'[r].job = handler[r].job
                               /\ handler'[r].at = "new" <=> handler[r].at = "new"
                               /\ handler'[r].at = "probing" => handler[r].at = "probing"
    BY <1>4 DEF Crash, InFlight, HandlerOf
  <2>2. open' = open /\ applied' = applied /\ owner' = owner
    BY <1>4 DEF Crash
  <2> QED BY <2>1, <2>2, <1>1 DEF OwnerInv, Admitted, At, Authorised, MayMutate
<1>5. CASE Next /\ ~Tick /\ ~Crash
  <2>1. PICK r \in Requests : OwnStep(r)
    BY <1>5, HandlerStep
  <2>2. handler' = [x \in Requests |-> handler'[x]]
    BY <2>1 DEF OwnStep, OwnerInv
  <2>3. \A x \in Requests : x # r => handler'[x] = handler[x]
    BY <2>1 DEF OwnStep, OwnerInv
  <2>4. \A x \in Requests : Admitted(x)' => handler'[x].job \in Jobs
    BY <2>1, <2>3 DEF OwnStep, OwnerInv, Admitted
  <2>5. \A x \in Requests : Admitted(x) => Admitted(x)' /\ handler'[x].job = handler[x].job
    BY <2>1, <2>3 DEF OwnStep, Admitted
  <2>6. \A x \in Requests : Admitted(x) /\ Authorised(handler[x].job)
                            => Authorised(handler[x].job)'
    BY <2>3, <2>5, <1>1, JobsAreRequests, NoneIsNoSubject
       DEF OwnerInv, Authorised, MayMutate
  <2>7. \A x \in Requests : At(x, "probing")' => Authorised(handler[x].job)'
    BY <2>1, <2>3, <1>2, <2>5, <2>6 DEF OwnStep, OwnerInv, At, Admitted
  <2>8. \A x \in Requests : x \in open' => Admitted(x)' /\ Authorised(handler[x].job)'
    BY <2>1, <2>3, <1>2, <2>5, <2>6 DEF OwnStep, OwnerInv, Admitted
  <2>9. \A x \in Requests, t \in Tasks : <<x, t>> \in applied' =>
           /\ Admitted(x)'
           /\ Authorised(handler[x].job)'
           /\ handler'[x].job.op # "create" => t = handler'[x].job.task
    BY <2>1, <2>3, <1>2, <2>5, <2>6 DEF OwnStep, OwnerInv, Admitted
  <2> QED BY <1>1, <2>2, <2>4, <2>7, <2>8, <2>9 DEF OwnerInv
<1> QED BY <1>3, <1>4, <1>5

LEMMA OwnerInit == Init => OwnerInv
  BY HandlerFields DEF Init, OwnerInv, NewHandler, Admitted, At

\* The owner recorded for a task is never replaced: for any number of
\* creates, restarts and ids handed out again.
THEOREM OwnersStay == Spec => OwnerIsForever
<1>1. OwnerInv /\ [Next]_vars =>
         [\A t \in Tasks : owner[t] # None => owner'[t] = owner[t]]_vars
  BY OwnerRowsStay DEF OwnerInv
<1> QED BY <1>1, OwnerInit, OwnerStep, PTL DEF Spec, OwnerIsForever

\* The bridge acts on a task for its owner or an admin only.
THEOREM OwnersMutate == Spec => []OnlyOwnerMutates
<1>1. OwnerInv => OnlyOwnerMutates
  BY DEF OwnerInv, OnlyOwnerMutates, Authorised, MayMutate
<1> QED BY <1>1, OwnerInit, OwnerStep, PTL DEF Spec

-----------------------------------------------------------------------------
(* The store's invariants, for the calls the routes make *)

\* What the store does while the routes run is a behaviour of the store.
LEMMA RoutesRunStore == Spec => Store!Spec
<1>1. Init => Store!Init
  BY EnvironmentStepsAreSteps DEF Init
<1> QED BY <1>1, StoreStep, PTL DEF Spec, Store!Spec

LEMMA StoreSafety ==
    ASSUME MaxRun <= Ttl
    PROVE  Spec => []Store!SafetyInv
<1>1. Store!Spec => []Store!SafetyInv
  BY StoreHypotheses, Store!SafetyInvariant
     DEF Store!NoneIsNoRequest, Store!NoneIsNoBinding, Store!DurationsAreNat
<1> QED BY <1>1, RoutesRunStore, PTL

LEMMA StoreExclusion ==
    ASSUME MaxRun < Lease, MaxRun <= Ttl
    PROVE  Spec => []Store!OneExecutorPerKey /\ []Store!ExecutorsRowIsPending
<1>1. Store!Spec => []Store!OneExecutorPerKey
  BY StoreHypotheses, Store!ExecutorExclusion
     DEF Store!NoneIsNoRequest, Store!NoneIsNoBinding, Store!DurationsAreNat
<1>2. Store!Spec => []Store!ExecutorsRowIsPending
  BY StoreHypotheses, Store!PendingSafety
     DEF Store!NoneIsNoRequest, Store!NoneIsNoBinding, Store!DurationsAreNat
<1> QED BY <1>1, <1>2, RoutesRunStore, PTL

LEMMA StoreTypes == Store!SafetyInv => Store!TypeOK /\ Idem!TypeOK
<1>1. Store!SafetyInv => Store!TypeOK
  BY DEF Store!SafetyInv
<1>2. Store!TypeOK => Idem!TypeOK
  BY DEF Store!TypeOK, Idem!TypeOK, Store!Row, Idem!Row, Store!Future, Idem!Future,
     Store!Call, Idem!Call, Store!Phase, Idem!Phase, Store!Waiting, Idem!Waiting
<1> QED BY <1>1, <1>2

\* What a claim does to the calls.
LEMMA ClaimEffect ==
    ASSUME Idem!TypeOK, NEW r \in Requests, NEW k \in Keys, NEW b, Idem!Claim(r, k, b)
    PROVE  /\ call[r].phase = "idle"
           /\ \A x \in Requests \ {r} : call'[x] = call[x]
           /\ call'[r].key = k /\ call'[r].binding = b
           /\ call'[r].phase \in {"executing", "waiting", "conflict", "replayed",
                                  "in_progress"}
  BY DEF Idem!TypeOK, Idem!Claim, Idem!ClaimNew, Idem!ClaimConflict, Idem!ClaimReplay,
     Idem!ClaimTakeover, Idem!ClaimWait, Idem!ClaimInProgress, Idem!Answer,
     Idem!BecomeExecutor, Idem!CallOf

\* What the end of a wait or of the work does to them.
LEMMA EndEffect ==
    ASSUME Idem!TypeOK, NEW r \in Requests
    PROVE  /\ \/ Idem!WakeWithResponse(r) \/ Idem!WaitTimeout(r) \/ Idem!WakeCancelled(r)
              => /\ call[r].phase = "waiting"
                 /\ \A x \in Requests \ {r} : call'[x] = call[x]
                 /\ call'[r].key = call[r].key /\ call'[r].binding = call[r].binding
                 /\ call'[r].phase \in {"replayed", "in_progress", "aborted"}
           /\ Idem!Store(r) \/ Idem!StoreFails(r)
              => /\ call[r].phase = "executing"
                 /\ \A x \in Requests \ {r} : call'[x] = call[x]
                 /\ call'[r].key = call[r].key /\ call'[r].binding = call[r].binding
                 /\ call'[r].phase = IF Idem!Store(r) THEN "stored" ELSE "unstored"
  BY DEF Idem!TypeOK, Idem!WakeWithResponse, Idem!WaitTimeout, Idem!WakeCancelled,
     Idem!Store, Idem!StoreFails, Idem!Ended, Idem!CallOf, Idem!Waiting, Idem!Executing

LEMMA CrashEffect ==
    ASSUME Idem!TypeOK, Idem!Crash, NEW r \in Requests
    PROVE  /\ call'[r].key = call[r].key /\ call'[r].binding = call[r].binding
           /\ call'[r].phase = IF call[r].phase \in {"executing", "waiting"}
                               THEN "lost" ELSE call[r].phase
  BY DEF Idem!TypeOK, Idem!Crash, Idem!Ended, Idem!CallOf, Idem!Waiting, Idem!Executing

-----------------------------------------------------------------------------
(* Handlers and calls move together, and a reply tells what was done *)

RouteTypeOK ==
    /\ owner \in [Tasks -> Subjects \cup {None}]
    /\ handler \in [Requests -> Handler]
    /\ sent \in [Requests -> Nat \cup {None}]
    /\ open \subseteq Requests
    /\ applied \subseteq Requests \X Tasks

Working == {"begun", "probing", "calling", "served", "closing"}

\* A keyed handler works while its claim executes, waits while it waits and
\* is answered once its response is stored, under the binding of its job.
Linked(r) ==
    /\ At(r, "new") => ~Keyed(r)
    /\ ~At(r, "new") => handler[r].job \in Jobs
    /\ Keyed(r) => call[r].binding = Binding(handler[r].job)
    /\ call[r].phase = "waiting" <=> At(r, "waiting")
    /\ call[r].phase = "executing" => handler[r].at \in Working
    /\ Keyed(r) /\ handler[r].at \in Working => call[r].phase = "executing"
    /\ call[r].phase = "stored" => At(r, "answered")

\* Some identical request of the same subject was carried out on the task.
DoneFor(j, task) ==
    \E s \in Requests, t \in Tasks :
        <<s, t>> \in applied /\ task \in {t, None} /\ handler[s].job = j

Truthful(r) ==
    /\ handler[r].at \notin {"closing", "answered", "lost"} => handler[r].reply = "none"
    /\ At(r, "served") => handler[r].task \in Tasks /\ <<r, handler[r].task>> \in applied
    /\ handler[r].reply = "ok" =>
          /\ DoneFor(handler[r].job, handler[r].task)
          /\ handler[r].job.op = "create" /\ handler[r].task # None
             => owner[handler[r].task] = handler[r].job.subject

RouteInv ==
    /\ RouteTypeOK
    /\ \A r \in Requests : Linked(r) /\ Truthful(r)

LEMMA FieldsOf ==
    ASSUME NEW p, NEW j, NEW t, NEW y
    PROVE  /\ HandlerOf(p, j, t, y).at = p
           /\ HandlerOf(p, j, t, y).job = j
           /\ HandlerOf(p, j, t, y).task = t
           /\ HandlerOf(p, j, t, y).reply = y
  BY DEF HandlerOf

LEMMA HandlerType ==
    ASSUME NEW p \in Point, NEW j \in Jobs \cup {None}, NEW t \in Tasks \cup {None},
           NEW y \in Reply
    PROVE  HandlerOf(p, j, t, y) \in Handler
  BY DEF HandlerOf, Handler

\* Different jobs have different bindings.
LEMMA BindingNamesJob ==
    ASSUME NEW i, NEW j, Binding(i) = Binding(j)
    PROVE  i = j
<1>1. Binding(i).fingerprint = i /\ Binding(j).fingerprint = j
  BY DEF Binding
<1> QED BY <1>1

LEMMA ReplyOfIs ==
    ASSUME NEW c
    PROVE  /\ c.phase = "replayed" => ReplyOf(c) = handler[c.answer].reply
           /\ c.phase \in {"conflict", "in_progress"} => ReplyOf(c) = "refused"
           /\ c.phase = "aborted" => ReplyOf(c) = "failed"
  BY Zenon DEF ReplyOf

LEMMA TaskOfIs ==
    ASSUME NEW c
    PROVE  /\ c.phase = "replayed" => TaskOf(c) = handler[c.answer].task
           /\ c.phase # "replayed" => TaskOf(c) = None
  BY DEF TaskOf

\* What was done stays done, for the requests that keep their job.
LEMMA DoneStays ==
    ASSUME OwnerInv, NEW j, NEW task, DoneFor(j, task), applied \subseteq applied',
           \A x \in Requests : Admitted(x) => handler'[x].job = handler[x].job
    PROVE  DoneFor(j, task)'
<1>1. PICK s \in Requests, t \in Tasks :
         <<s, t>> \in applied /\ task \in {t, None} /\ handler[s].job = j
  BY DEF DoneFor
<1>2. <<s, t>> \in applied' /\ handler'[s].job = j
  BY <1>1 DEF OwnerInv
<1> QED BY <1>1, <1>2 DEF DoneFor

\* A step of one request leaves what is known of the others.
LEMMA OthersStay ==
    ASSUME RouteInv, OwnerInv, NEW x \in Requests,
           handler'[x] = handler[x],
           call'[x].phase = call[x].phase, call'[x].binding = call[x].binding,
           \A q \in Requests : Admitted(q) => handler'[q].job = handler[q].job,
           \A t \in Tasks : owner[t] # None => owner'[t] = owner[t],
           applied \subseteq applied'
    PROVE  Linked(x)' /\ Truthful(x)'
<1>1. Linked(x)'
  BY DEF RouteInv, Linked, At, Keyed
<1>2. handler[x].reply = "ok" => DoneFor(handler[x].job, handler[x].task)'
  BY DoneStays DEF RouteInv, Truthful
<1>3. /\ handler[x].reply = "ok" /\ handler[x].job.op = "create" /\ handler[x].task # None
      => owner'[handler[x].task] = handler[x].job.subject
  <2> SUFFICES ASSUME handler[x].reply = "ok", handler[x].job.op = "create",
                      handler[x].task # None
               PROVE  owner'[handler[x].task] = handler[x].job.subject
    OBVIOUS
  <2>1. handler[x].task \in Tasks /\ owner[handler[x].task] = handler[x].job.subject
    BY DEF RouteInv, RouteTypeOK, Handler, Truthful
  <2>2. handler[x].job.subject # None
    <3>1. ~At(x, "new")
      BY DEF RouteInv, Truthful, At
    <3>2. handler[x].job \in Jobs
      BY <3>1 DEF RouteInv, Linked
    <3> QED BY <3>2, JobsAreRequests, NoneIsNoSubject
  <2> QED BY <2>1, <2>2
<1>4. Truthful(x)'
  <2>1. /\ handler'[x].at = handler[x].at /\ handler'[x].job = handler[x].job
        /\ handler'[x].task = handler[x].task /\ handler'[x].reply = handler[x].reply
    OBVIOUS
  <2>2. At(x, "served") => handler[x].task \in Tasks /\ <<x, handler[x].task>> \in applied'
    BY DEF RouteInv, Truthful
  <2>3. handler[x].at \notin {"closing", "answered", "lost"} => handler[x].reply = "none"
    BY DEF RouteInv, Truthful
  <2>4. handler'[x].reply = "ok" => DoneFor(handler[x].job, handler[x].task)'
    BY <1>2, <2>1
  <2> QED BY <1>3, <2>1, <2>2, <2>3, <2>4 DEF Truthful, At, DoneFor
<1> QED BY <1>1, <1>4

\* One request's step, put together.
LEMMA RouteStepBy ==
    ASSUME RouteInv, OwnerInv, NEW r \in Requests, NEW h \in Handler,
           handler' = [handler EXCEPT ![r] = h],
           Admitted(r) => h.job = handler[r].job,
           \A x \in Requests \ {r} :
              call'[x].phase = call[x].phase /\ call'[x].binding = call[x].binding,
           owner' \in [Tasks -> Subjects \cup {None}],
           \A t \in Tasks : owner[t] # None => owner'[t] = owner[t],
           sent' \in [Requests -> Nat \cup {None}],
           open' \subseteq Requests,
           applied \subseteq applied', applied' \subseteq Requests \X Tasks,
           handler'[r] = h => Linked(r)' /\ Truthful(r)'
    PROVE  RouteInv'
<1>1. handler'[r] = h /\ \A x \in Requests \ {r} : handler'[x] = handler[x]
  BY DEF RouteInv, RouteTypeOK
<1>2. \A q \in Requests : Admitted(q) => handler'[q].job = handler[q].job
  BY <1>1
<1>3. ASSUME NEW x \in Requests \ {r} PROVE Linked(x)' /\ Truthful(x)'
  BY <1>1, <1>2, OthersStay
<1>4. RouteTypeOK'
  BY DEF RouteInv, RouteTypeOK
<1> QED BY <1>1, <1>3, <1>4 DEF RouteInv

LEMMA QuietTruth ==
    ASSUME NEW r \in Requests, handler'[r].reply # "ok", handler'[r].at # "served",
           handler'[r].at \notin {"closing", "answered", "lost"}
           => handler'[r].reply = "none"
    PROVE  Truthful(r)'
  BY DEF Truthful, At

\* Moving on with the work keeps the link to the call.
LEMMA WorkLinks ==
    ASSUME RouteInv, NEW r \in Requests, handler[r].at \in Working,
           handler'[r].at \in Working, handler'[r].job = handler[r].job,
           call' = call
    PROVE  Linked(r)'
  BY DEF RouteInv, Linked, At, Keyed, Working

\* A replay is answered with the reply of an answered request with its job.
LEMMA ReplayCopies ==
    ASSUME RouteInv, Store!SafetyInv', NEW r \in Requests, NEW j \in Jobs,
           call'[r].phase = "replayed", call'[r].binding = Binding(j),
           \A x \in Requests \ {r} : call'[x] = call[x]
    PROVE  \E q \in Requests \ {r} : /\ call'[r].answer = q
                                     /\ handler[q].job = j
                                     /\ At(q, "answered")
<1> DEFINE q == call'[r].answer
<1>1. Store!Author(call', q, call'[r].key, call'[r].binding)
  BY DEF Store!SafetyInv, Store!ReplayMatchesRequest
<1>2. q \in Requests
  <2>1. q \in Requests \cup {None}
    BY DEF Store!SafetyInv, Store!TypeOK, Store!Call
  <2> QED BY <1>1, <2>1 DEF Store!Author
<1>3. call'[q].phase = "stored" /\ call'[q].binding = Binding(j)
  BY <1>1 DEF Store!Author
<1>4. q # r /\ call'[q] = call[q]
  BY <1>2, <1>3
<1>5. At(q, "answered") /\ call[q].binding = Binding(handler[q].job)
  BY <1>2, <1>3, <1>4 DEF RouteInv, Linked, Keyed
<1>6. handler[q].job = j
  BY <1>3, <1>4, <1>5, BindingNamesJob
<1> QED BY <1>2, <1>4, <1>5, <1>6

\* An answer without work of its own: a replay's reply is true of its job,
\* every other answer claims nothing.
LEMMA AnswerTruth ==
    ASSUME RouteInv, OwnerInv, Store!SafetyInv', NEW r \in Requests, NEW j \in Jobs,
           call'[r].binding = Binding(j),
           call'[r].phase \in {"replayed", "conflict", "in_progress", "aborted"},
           \A x \in Requests \ {r} : call'[x] = call[x],
           Admitted(r) => handler[r].job = j,
           handler' = Answering(r, j, ReplyOf(call'[r]), TaskOf(call'[r])),
           UNCHANGED <<owner, applied>>
    PROVE  /\ HandlerOf("answered", j, TaskOf(call'[r]), ReplyOf(call'[r])) \in Handler
           /\ Truthful(r)'
<1>0. PICK t, y : t = TaskOf(call'[r]) /\ y = ReplyOf(call'[r])
  OBVIOUS
<1> DEFINE h == HandlerOf("answered", j, t, y)
<1>1. /\ handler' = [handler EXCEPT ![r] = h]
      /\ handler'[r] = h
      /\ \A x \in Requests \ {r} : handler'[x] = handler[x]
  BY <1>0 DEF Answering, RouteInv, RouteTypeOK
<1>2. /\ h.at = "answered" /\ h.job = j
      /\ h.task = t /\ h.reply = y
  BY FieldsOf
<1> HIDE DEF h
<1>3. CASE call'[r].phase = "replayed"
  <2>1. PICK q \in Requests \ {r} : /\ call'[r].answer = q
                                    /\ handler[q].job = j
                                    /\ At(q, "answered")
    BY <1>3, ReplayCopies
  <2>2. h.reply = handler[q].reply /\ h.task = handler[q].task
    BY <1>0, <1>2, <1>3, <2>1, ReplyOfIs, TaskOfIs
  <2>3. h.task \in Tasks \cup {None} /\ h.reply \in Reply
    BY <2>2 DEF RouteInv, RouteTypeOK, Handler
  <2>4. h \in Handler
    BY <1>2, <2>3, HandlerType DEF h, Point
  <2>5. y = "ok" => DoneFor(j, t)'
    <3>1. \A x \in Requests : Admitted(x) => handler'[x].job = handler[x].job
      BY <1>1, <1>2
    <3>2. y = "ok" => DoneFor(j, t)
      BY <1>2, <2>1, <2>2 DEF RouteInv, Truthful
    <3> QED BY <1>2, <3>1, <3>2, DoneStays
  <2>6. h.reply = "ok" /\ j.op = "create" /\ h.task # None => owner'[h.task] = j.subject
    BY <2>1, <2>2 DEF RouteInv, Truthful
  <2> QED BY <1>0, <1>1, <1>2, <2>4, <2>5, <2>6 DEF Truthful, At, DoneFor, h
<1>4. CASE call'[r].phase # "replayed"
  <2>1. h.task = None /\ h.reply \in {"refused", "failed"}
    BY <1>0, <1>2, <1>4, ReplyOfIs, TaskOfIs
  <2>2. h \in Handler
    BY <1>2, <2>1, HandlerType DEF h, Point, Reply
  <2> QED BY <1>0, <1>1, <1>2, <2>1, <2>2, QuietTruth DEF h
<1> QED BY <1>3, <1>4

LEMMA ArrivalKeepsRoutes ==
    ASSUME RouteInv, OwnerInv, Idem!TypeOK, Store!SafetyInv', NEW r \in Requests,
           NEW j \in Jobs,
           \/ TurnAway(r, j) \/ ArriveWithoutKey(r, j)
           \/ \E k \in Keys : ArriveWithKey(r, j, k)
    PROVE  RouteInv'
<1>1. /\ At(r, "new") /\ ~Admitted(r) /\ ~Keyed(r)
      /\ UNCHANGED <<owner, sent, open, applied>>
  BY DEF TurnAway, ArriveWithoutKey, ArriveWithKey, Admitted, At, RouteInv, Linked
<1>2. /\ owner' \in [Tasks -> Subjects \cup {None}]
      /\ sent' \in [Requests -> Nat \cup {None}]
      /\ open' \subseteq Requests
      /\ applied' \subseteq Requests \X Tasks
  BY <1>1 DEF RouteInv, RouteTypeOK
<1>3. ASSUME NEW h \in Handler, handler' = [handler EXCEPT ![r] = h],
             \A x \in Requests \ {r} : call'[x] = call[x],
             handler'[r] = h => Linked(r)' /\ Truthful(r)'
      PROVE  RouteInv'
  BY <1>1, <1>2, <1>3, RouteStepBy
<1>4. CASE TurnAway(r, j)
  <2> DEFINE h == HandlerOf("answered", j, None, "refused")
  <2>1. h \in Handler /\ handler' = [handler EXCEPT ![r] = h] /\ call' = call
    BY <1>4, HandlerType DEF TurnAway, Answering, Point, Reply, idemVars
  <2>2. h.at = "answered" /\ h.job = j /\ h.reply = "refused"
    BY FieldsOf
  <2> HIDE DEF h
  <2>3. handler'[r] = h => Linked(r)' /\ Truthful(r)'
    BY <1>1, <2>1, <2>2, QuietTruth DEF Linked, At, Keyed, Working
  <2> QED BY <1>3, <2>1, <2>3
<1>5. CASE ArriveWithoutKey(r, j)
  <2> DEFINE h == HandlerOf("begun", j, None, "none")
  <2>1. h \in Handler /\ handler' = [handler EXCEPT ![r] = h] /\ call' = call
    BY <1>5, HandlerType DEF ArriveWithoutKey, Point, Reply, idemVars
  <2>2. h.at = "begun" /\ h.job = j /\ h.reply = "none"
    BY FieldsOf
  <2> HIDE DEF h
  <2>3. handler'[r] = h => Linked(r)' /\ Truthful(r)'
    BY <1>1, <2>1, <2>2, QuietTruth DEF Linked, At, Keyed, Working
  <2> QED BY <1>3, <2>1, <2>3
<1>6. ASSUME NEW k \in Keys, ArriveWithKey(r, j, k)
      PROVE  RouteInv'
  <2>1. /\ \A x \in Requests \ {r} : call'[x] = call[x]
        /\ call'[r].binding = Binding(j)
        /\ call'[r].phase \in {"executing", "waiting", "conflict", "replayed",
                               "in_progress"}
    BY <1>6, ClaimEffect DEF ArriveWithKey
  <2>2. CASE call'[r].phase = "executing"
    <3> DEFINE h == HandlerOf("begun", j, None, "none")
    <3>1. h \in Handler
      BY HandlerType DEF Point, Reply
    <3>2. handler' = [handler EXCEPT ![r] = h]
      BY <1>6, <2>2, Zenon DEF ArriveWithKey
    <3>3. h.at = "begun" /\ h.job = j /\ h.reply = "none"
      BY FieldsOf
    <3> HIDE DEF h
    <3>4. handler'[r] = h => Linked(r)' /\ Truthful(r)'
      BY <2>1, <2>2, <3>3, QuietTruth DEF Linked, At, Keyed, Working
    <3> QED BY <1>3, <2>1, <3>1, <3>2, <3>4
  <2>3. CASE call'[r].phase = "waiting"
    <3> DEFINE h == HandlerOf("waiting", j, None, "none")
    <3>1. h \in Handler
      BY HandlerType DEF Point, Reply
    <3>2. handler' = [handler EXCEPT ![r] = h]
      <4>1. call'[r].phase # "executing"
        BY <2>3
      <4> QED BY <1>6, <2>3, <4>1, Zenon DEF ArriveWithKey
    <3>3. h.at = "waiting" /\ h.job = j /\ h.reply = "none"
      BY FieldsOf
    <3> HIDE DEF h
    <3>4. handler'[r] = h => Linked(r)' /\ Truthful(r)'
      BY <2>1, <2>3, <3>3, QuietTruth DEF Linked, At, Keyed, Working
    <3> QED BY <1>3, <2>1, <3>1, <3>2, <3>4
  <2>4. CASE call'[r].phase \in {"conflict", "replayed", "in_progress"}
    <3> DEFINE h == HandlerOf("answered", j, TaskOf(call'[r]), ReplyOf(call'[r]))
    <3>1. handler' = Answering(r, j, ReplyOf(call'[r]), TaskOf(call'[r]))
      <4>1. call'[r].phase # "executing" /\ call'[r].phase # "waiting"
        BY <2>4
      <4> QED BY <1>6, <4>1, Zenon DEF ArriveWithKey
    <3>2. h \in Handler /\ Truthful(r)'
      BY <1>1, <2>1, <2>4, <3>1, AnswerTruth
    <3>3. handler' = [handler EXCEPT ![r] = h]
      BY <3>1 DEF Answering
    <3>4. h.at = "answered" /\ h.job = j
      BY FieldsOf
    <3> HIDE DEF h
    <3>5. handler'[r] = h => Linked(r)'
      BY <2>1, <2>4, <3>4 DEF Linked, At, Keyed, Working
    <3> QED BY <1>3, <2>1, <3>2, <3>3, <3>5
  <2> QED BY <2>1, <2>2, <2>3, <2>4
<1> QED BY <1>4, <1>5, <1>6

LEMMA WakeKeepsRoutes ==
    ASSUME RouteInv, OwnerInv, Idem!TypeOK, Store!SafetyInv', NEW r \in Requests, Wake(r)
    PROVE  RouteInv'
<1> DEFINE j == handler[r].job
           h == HandlerOf("answered", j, TaskOf(call'[r]), ReplyOf(call'[r]))
<1>1. /\ At(r, "waiting") /\ Admitted(r) /\ j \in Jobs /\ call[r].binding = Binding(j)
      /\ UNCHANGED <<owner, sent, open, applied>>
      /\ handler' = Answering(r, j, ReplyOf(call'[r]), TaskOf(call'[r]))
  BY DEF Wake, At, Admitted, RouteInv, Linked, Keyed
<1>2. /\ \A x \in Requests \ {r} : call'[x] = call[x]
      /\ call'[r].binding = Binding(j)
      /\ call'[r].phase \in {"replayed", "in_progress", "aborted"}
  BY <1>1, EndEffect DEF Wake
<1>3. h \in Handler /\ Truthful(r)'
  BY <1>1, <1>2, AnswerTruth
<1>4. handler' = [handler EXCEPT ![r] = h]
  BY <1>1 DEF Answering
<1>5. h.at = "answered" /\ h.job = j
  BY FieldsOf
<1> HIDE DEF h
<1>6. handler'[r] = h => Linked(r)'
  BY <1>1, <1>2, <1>5 DEF Linked, At, Keyed, Working
<1> QED BY <1>1, <1>2, <1>3, <1>4, <1>5, <1>6, RouteStepBy DEF RouteInv, RouteTypeOK

\* A handler at work moves on without a success to tell.
LEMMA QuietWork ==
    ASSUME RouteInv, OwnerInv, NEW r \in Requests, handler[r].at \in Working,
           NEW p \in Working \ {"served"}, NEW t \in Tasks \cup {None},
           NEW y \in Reply \ {"ok"}, p = "closing" \/ y = "none",
           handler' = [handler EXCEPT ![r] = HandlerOf(p, handler[r].job, t, y)],
           UNCHANGED <<call, owner>>, sent' \in [Requests -> Nat \cup {None}],
           open' \subseteq Requests, applied' = applied
    PROVE  RouteInv'
<1> DEFINE h == HandlerOf(p, handler[r].job, t, y)
<1>1. h.at = p /\ h.job = handler[r].job /\ h.reply = y
  BY FieldsOf
<1>2. h \in Handler
  BY HandlerType DEF Working, Point, RouteInv, RouteTypeOK, Handler
<1> HIDE DEF h
<1>3. handler'[r] = h => Linked(r)' /\ Truthful(r)'
  BY <1>1, WorkLinks, QuietTruth
<1> QED BY <1>1, <1>2, <1>3, RouteStepBy DEF h, RouteInv, RouteTypeOK

LEMMA GuardsKeepRoutes ==
    ASSUME RouteInv, OwnerInv, Idem!TypeOK, NEW r \in Requests,
           CheckOwner(r) \/ Probe(r) \/ BridgeRefuses(r) \/ CallFails(r)
    PROVE  RouteInv'
<1>1. /\ handler[r].at \in Working /\ UNCHANGED <<call, owner>>
      /\ sent' \in [Requests -> Nat \cup {None}] /\ open' \subseteq Requests
      /\ applied' = applied
  BY DEF CheckOwner, Probe, BridgeRefuses, CallFails, At, Working, idemVars,
     RouteInv, RouteTypeOK, Idem!TypeOK
<1>2. CASE \E y \in {"refused", "failed"} : handler' = Replying(r, y, None)
  BY <1>1, <1>2, QuietWork DEF Replying, Working, Reply
<1>3. CASE handler[r].at \in {"begun", "probing"}
           /\ \E p \in {"probing", "calling"} : handler' = Moved(r, p)
  <2>1. handler[r].reply = "none" /\ handler[r].task \in Tasks \cup {None}
    BY <1>3 DEF RouteInv, RouteTypeOK, Truthful, Handler
  <2>2. PICK p \in {"probing", "calling"} :
           handler' = [handler EXCEPT ![r] =
                          HandlerOf(p, handler[r].job, handler[r].task, "none")]
    BY <1>3, <2>1 DEF Moved
  <2>3. p \in Working \ {"served"} /\ "none" \in Reply \ {"ok"}
    BY DEF Working, Reply
  <2> QED BY <1>1, <2>1, <2>2, <2>3, QuietWork
<1> QED BY <1>2, <1>3 DEF CheckOwner, Probe, BridgeRefuses, CallFails, At

LEMMA EscapeKeepsRoutes ==
    ASSUME RouteInv, OwnerInv, Idem!TypeOK, NEW r \in Requests, Escape(r)
    PROVE  RouteInv'
<1> DEFINE h == HandlerOf("answered", handler[r].job, None, "failed")
<1>1. /\ handler[r].at \in Working /\ Admitted(r) /\ ~At(r, "new") /\ handler[r].job \in Jobs
      /\ UNCHANGED <<owner, sent, open, applied>>
      /\ handler' = [handler EXCEPT ![r] = h]
  BY DEF Escape, At, Working, Admitted, RouteInv, Linked, Answering
<1>2. /\ \A x \in Requests \ {r} : call'[x] = call[x]
      /\ call'[r].binding = call[r].binding
      /\ call'[r].phase = IF Keyed(r) THEN "unstored" ELSE call[r].phase
  <2>1. CASE Keyed(r)
    <3>1. Idem!StoreFails(r)
      BY <2>1 DEF Escape
    <3>2. call'[r] = Idem!Ended(call[r], "unstored", None)
      BY <3>1 DEF Idem!StoreFails, Idem!TypeOK
    <3> QED BY <2>1, <3>1, <3>2, EndEffect DEF Idem!Ended, Idem!CallOf
  <2>2. CASE ~Keyed(r)
    BY <2>2 DEF Escape, idemVars
  <2> QED BY <2>1, <2>2
<1>3. h.at = "answered" /\ h.job = handler[r].job /\ h.reply = "failed"
  BY FieldsOf
<1>4. h \in Handler
  BY <1>1, HandlerType DEF Point, Reply
<1> HIDE DEF h
<1>5. handler'[r] = h => Linked(r)' /\ Truthful(r)'
  BY <1>1, <1>2, <1>3, QuietTruth DEF RouteInv, Linked, At, Keyed, Working
<1> QED BY <1>1, <1>2, <1>3, <1>4, <1>5, RouteStepBy DEF RouteInv, RouteTypeOK

\* The bridge does what an open call asks, for a caller there or gone.
LEMMA BridgeKeepsRoutes ==
    ASSUME RouteInv, OwnerInv, NEW r \in Requests, NEW t \in Tasks, BridgeApplies(r, t)
    PROVE  RouteInv'
<1>1. /\ Admitted(r) /\ ~At(r, "new") /\ UNCHANGED <<call, owner, sent>>
      /\ applied' = applied \cup {<<r, t>>} /\ open' \subseteq open
      /\ handler[r].job \in Jobs
  BY DEF BridgeApplies, OwnerInv, Admitted, At, idemVars, RouteInv, Linked
<1>2. CASE At(r, "calling")
  <2> DEFINE h == HandlerOf("served", handler[r].job, t, handler[r].reply)
  <2>1. handler' = [handler EXCEPT ![r] = h]
    BY <1>2 DEF BridgeApplies
  <2>2. /\ h.at = "served" /\ h.job = handler[r].job /\ h.task = t
        /\ h.reply = handler[r].reply /\ h.reply = "none"
    <3>1. handler[r].reply = "none"
      BY <1>2 DEF RouteInv, Truthful, At
    <3> QED BY <3>1, FieldsOf
  <2>3. h \in Handler
    BY <1>1, <2>2, HandlerType DEF Point, Reply
  <2> HIDE DEF h
  <2>4. handler'[r] = h => Linked(r)' /\ Truthful(r)'
    BY <1>1, <1>2, <2>2, WorkLinks DEF Truthful, At, Working
  <2>5. /\ applied \subseteq applied' /\ applied' \subseteq Requests \X Tasks
        /\ open' \subseteq Requests
    BY <1>1 DEF RouteInv, RouteTypeOK
  <2> QED BY <1>1, <2>1, <2>2, <2>3, <2>4, <2>5, RouteStepBy DEF RouteInv, RouteTypeOK
<1>3. CASE ~At(r, "calling")
  <2>1. handler' = handler
    BY <1>3 DEF BridgeApplies
  <2>2. \A x \in Requests : Linked(x)' /\ Truthful(x)'
    BY <1>1, <2>1, OthersStay
  <2> QED BY <1>1, <2>1, <2>2 DEF RouteInv, RouteTypeOK
<1> QED BY <1>2, <1>3

\* A handler that was served tells of the task it was served.
LEMMA ServedKeepsRoutes ==
    ASSUME RouteInv, OwnerInv, NEW r \in Requests, At(r, "served"),
           NEW t \in {handler[r].task, None}, NEW y \in {"ok", "refused"},
           handler' = Replying(r, y, t),
           UNCHANGED <<call, sent, open, applied>>,
           owner' \in [Tasks -> Subjects \cup {None}],
           \A u \in Tasks : owner[u] # None => owner'[u] = owner[u],
           y = "ok" /\ handler[r].job.op = "create" /\ t # None
           => owner'[t] = handler[r].job.subject
    PROVE  RouteInv'
<1> DEFINE j == handler[r].job
           h == HandlerOf("closing", j, t, y)
<1>1. handler' = [handler EXCEPT ![r] = h]
  BY DEF Replying
<1>2. h.at = "closing" /\ h.job = j /\ h.task = t /\ h.reply = y
  BY FieldsOf
<1>3. /\ j \in Jobs /\ handler[r].task \in Tasks /\ <<r, handler[r].task>> \in applied
      /\ Admitted(r) /\ handler[r].at \in Working
  BY DEF RouteInv, Linked, Truthful, At, Admitted, Working
<1>4. h \in Handler
  BY <1>3, HandlerType DEF Point, Reply
<1> HIDE DEF h
<1>5. handler'[r] = h => Linked(r)' /\ Truthful(r)'
  <2> SUFFICES ASSUME handler'[r] = h PROVE Linked(r)' /\ Truthful(r)'
    OBVIOUS
  <2>1. Linked(r)'
    BY <1>2, <1>3, WorkLinks DEF Working
  <2>2. DoneFor(j, t)'
    BY <1>2, <1>3 DEF DoneFor
  <2>3. Truthful(r)'
    BY <1>2, <2>2 DEF Truthful, At, DoneFor
  <2> QED BY <2>1, <2>3
<1> QED BY <1>1, <1>2, <1>3, <1>4, <1>5, RouteStepBy DEF RouteInv, RouteTypeOK

LEMMA ReturnsKeepRoutes ==
    ASSUME RouteInv, OwnerInv, NEW r \in Requests,
           CreateReturns(r) \/ CreateReturnsUnnamed(r) \/ MutationReturns(r)
    PROVE  RouteInv'
<1>1. /\ At(r, "served") /\ UNCHANGED <<call, sent, open, applied>>
      /\ handler[r].job \in Jobs /\ handler[r].task \in Tasks
      /\ owner \in [Tasks -> Subjects \cup {None}]
  BY DEF CreateReturns, CreateReturnsUnnamed, MutationReturns, idemVars, RouteInv,
     RouteTypeOK, Linked, Truthful, At
<1>2. CASE CreateReturns(r)
  <2>1. /\ owner' = OwnerRow(handler[r].task, handler[r].job.subject)
        /\ handler[r].job.subject \in Subjects
    BY <1>1, <1>2, JobsAreRequests DEF CreateReturns
  <2>2. /\ owner' \in [Tasks -> Subjects \cup {None}]
        /\ \A u \in Tasks : owner[u] # None => owner'[u] = owner[u]
        /\ Claimed(handler[r].task, handler[r].job.subject)
           => owner'[handler[r].task] = handler[r].job.subject
    BY <1>1, <2>1 DEF OwnerRow, Claimed
  <2> QED BY <1>1, <1>2, <2>2, ServedKeepsRoutes DEF CreateReturns
<1>3. CASE CreateReturnsUnnamed(r) \/ MutationReturns(r)
  BY <1>1, <1>3, ServedKeepsRoutes DEF CreateReturnsUnnamed, MutationReturns
<1> QED BY <1>2, <1>3

LEMMA CloseKeepsRoutes ==
    ASSUME RouteInv, OwnerInv, Idem!TypeOK, NEW r \in Requests, Close(r)
    PROVE  RouteInv'
<1> DEFINE h == HandlerOf("answered", handler[r].job, handler[r].task, handler[r].reply)
<1>1. /\ At(r, "closing") /\ Admitted(r) /\ handler[r].job \in Jobs
      /\ UNCHANGED <<owner, sent, open, applied>>
      /\ handler' = [handler EXCEPT ![r] = h]
  BY DEF Close, At, Admitted, RouteInv, Linked, Moved
<1>2. /\ \A x \in Requests \ {r} : call'[x] = call[x]
      /\ call'[r].binding = call[r].binding
      /\ IF Keyed(r) THEN call'[r].phase \in {"stored", "unstored"}
                     ELSE call'[r].phase = call[r].phase
  <2>1. CASE Keyed(r)
    BY <2>1, EndEffect DEF Close
  <2>2. CASE ~Keyed(r)
    BY <2>2 DEF Close, idemVars
  <2> QED BY <2>1, <2>2
<1>3. /\ h.at = "answered" /\ h.job = handler[r].job
      /\ h.task = handler[r].task /\ h.reply = handler[r].reply
  BY FieldsOf
<1>4. h \in Handler
  BY <1>1, HandlerType DEF Point, RouteInv, RouteTypeOK, Handler
<1> HIDE DEF h
<1>5. handler'[r] = h => Linked(r)'
  BY <1>1, <1>2, <1>3 DEF RouteInv, Linked, At, Keyed, Working
<1>6. handler'[r] = h => Truthful(r)'
  <2> SUFFICES ASSUME handler'[r] = h PROVE Truthful(r)'
    OBVIOUS
  <2>1. \A q \in Requests : Admitted(q) => handler'[q].job = handler[q].job
    BY <1>1, <1>3 DEF RouteInv, RouteTypeOK
  <2>0. PICK j, t : j = handler[r].job /\ t = handler[r].task
    OBVIOUS
  <2>2. handler[r].reply = "ok" => DoneFor(j, t)'
    <3>1. handler[r].reply = "ok" => DoneFor(j, t)
      BY <2>0 DEF RouteInv, Truthful
    <3> QED BY <1>1, <2>1, <3>1, DoneStays
  <2>3. handler[r].reply = "ok" /\ handler[r].job.op = "create" /\ handler[r].task # None
        => owner'[handler[r].task] = handler[r].job.subject
    BY <1>1 DEF RouteInv, Truthful
  <2> QED BY <1>3, <2>0, <2>2, <2>3 DEF Truthful, At, DoneFor
<1> QED BY <1>1, <1>2, <1>3, <1>4, <1>5, <1>6, RouteStepBy DEF RouteInv, RouteTypeOK

LEMMA CrashKeepsRoutes ==
    ASSUME RouteInv, OwnerInv, Idem!TypeOK, Crash
    PROVE  RouteInv'
<1>1. UNCHANGED <<owner, sent, open, applied>> /\ Idem!Crash
  BY DEF Crash
<1>2. ASSUME NEW r \in Requests
      PROVE  /\ handler'[r] \in Handler
             /\ handler'[r].job = handler[r].job
             /\ handler'[r].task = handler[r].task
             /\ handler'[r].reply = handler[r].reply
             /\ handler'[r].at = IF InFlight(r) THEN "lost" ELSE handler[r].at
  <2>1. /\ handler[r] \in Handler
        /\ handler'[r] = IF InFlight(r)
                         THEN HandlerOf("lost", handler[r].job, handler[r].task,
                                        handler[r].reply)
                         ELSE handler[r]
    BY DEF Crash, RouteInv, RouteTypeOK
  <2>2. /\ handler[r].job \in Jobs \cup {None} /\ handler[r].task \in Tasks \cup {None}
        /\ handler[r].reply \in Reply
    BY <2>1 DEF Handler
  <2>3. CASE InFlight(r)
    <3>1. HandlerOf("lost", handler[r].job, handler[r].task, handler[r].reply) \in Handler
      BY <2>2, HandlerType DEF Point
    <3> QED BY <2>1, <2>3, <3>1, FieldsOf
  <2>4. CASE ~InFlight(r)
    BY <2>1, <2>4
  <2> QED BY <2>3, <2>4
<1>3. ASSUME NEW r \in Requests PROVE Linked(r)'
  BY <1>1, <1>2, CrashEffect DEF RouteInv, Linked, At, Keyed, InFlight, Working
<1>4. ASSUME NEW r \in Requests PROVE Truthful(r)'
  <2>1. handler[r].reply = "ok" => DoneFor(handler[r].job, handler[r].task)'
    BY <1>1, <1>2, DoneStays DEF RouteInv, Truthful
  <2>2. handler'[r].at \notin {"closing", "answered", "lost"} => handler'[r].reply = "none"
    BY <1>2 DEF RouteInv, Truthful, InFlight
  <2>3. handler'[r].at # "served"
    BY <1>2 DEF InFlight
  <2>4. handler[r].reply = "ok" /\ handler[r].job.op = "create" /\ handler[r].task # None
        => owner'[handler[r].task] = handler[r].job.subject
    BY <1>1 DEF RouteInv, Truthful
  <2> QED BY <1>2, <2>1, <2>2, <2>3, <2>4 DEF Truthful, At, DoneFor
<1>5. handler' \in [Requests -> Handler]
  BY <1>2 DEF Crash
<1> QED BY <1>1, <1>3, <1>4, <1>5 DEF RouteInv, RouteTypeOK

LEMMA RouteStep ==
    ASSUME RouteInv, OwnerInv, Store!SafetyInv, Store!SafetyInv', [Next]_vars
    PROVE  RouteInv'
<1>1. Idem!TypeOK
  BY StoreTypes
<1>2. CASE Tick \/ UNCHANGED vars
  <2>1. UNCHANGED <<owner, handler, sent, open, applied, call>>
    BY <1>2 DEF Tick, routeVars, vars, Idem!Tick
  <2> QED BY <2>1 DEF RouteInv, RouteTypeOK, Linked, Truthful, DoneFor, At, Keyed
<1>3. CASE Crash
  BY <1>1, <1>3, CrashKeepsRoutes
<1>4. ASSUME NEW r \in Requests, Handles(r) \/ BridgeRefuses(r)
      PROVE  RouteInv'
  BY <1>1, <1>4, WakeKeepsRoutes, GuardsKeepRoutes, EscapeKeepsRoutes, ReturnsKeepRoutes,
     CloseKeepsRoutes DEF Handles
<1> QED BY <1>1, <1>2, <1>3, <1>4, ArrivalKeepsRoutes, BridgeKeepsRoutes DEF Next

LEMMA RouteInit == Init => RouteInv
<1> SUFFICES ASSUME Init PROVE RouteInv
  OBVIOUS
<1>1. \A r \in Requests : handler[r] = NewHandler /\ call[r].phase = "idle"
  BY DEF Init, Idem!Init, Idem!NoCall, Idem!CallOf
<1>2. NewHandler \in Handler
  BY HandlerType DEF NewHandler, Point, Reply
<1>3. NewHandler.at = "new" /\ NewHandler.reply = "none"
  BY FieldsOf DEF NewHandler
<1>4. RouteTypeOK
  BY <1>2 DEF Init, RouteTypeOK
<1> QED BY <1>1, <1>3, <1>4 DEF RouteInv, Linked, Truthful, At, Keyed, Working

LEMMA RouteSafety ==
    ASSUME MaxRun <= Ttl
    PROVE  Spec => []RouteInv
<1>1. RouteInv /\ OwnerInv /\ Store!SafetyInv /\ Store!SafetyInv' /\ [Next]_vars => RouteInv'
  BY RouteStep
<1> QED BY <1>1, RouteInit, OwnerInit, OwnerStep, StoreSafety, PTL DEF Spec

\* Handlers, owners, calls and the bridge's record keep their types: a replay
\* in particular always finds the reply it repeats.
THEOREM RoutesTypeCorrect ==
    ASSUME MaxRun <= Ttl
    PROVE  Spec => []TypeOK
<1>1. RouteInv /\ Store!SafetyInv => TypeOK
  BY StoreTypes DEF RouteInv, RouteTypeOK, TypeOK
<1> QED BY <1>1, RouteSafety, StoreSafety, PTL

\* Whoever is answered 200 to a create, first-hand or by a replay, owns the
\* task it was told of.
THEOREM CreatorsOwn ==
    ASSUME MaxRun <= Ttl
    PROVE  Spec => []CreatedTaskIsOwned
<1>1. RouteInv => CreatedTaskIsOwned
  BY DEF RouteInv, Truthful, CreatedTaskIsOwned
<1> QED BY <1>1, RouteSafety, PTL

\* Every 200 answers work the bridge did for an identical request of the same
\* subject, through replays, restarts and calls that outlive their caller.
THEOREM SuccessIsTrue ==
    ASSUME MaxRun <= Ttl
    PROVE  Spec => []SuccessWasApplied
<1>1. RouteInv => SuccessWasApplied
  BY DEF RouteInv, Truthful, SuccessWasApplied, DoneFor
<1> QED BY <1>1, RouteSafety, PTL

-----------------------------------------------------------------------------
(* One upstream call per key, while its answer is remembered *)

Early == {"new", "waiting", "begun", "probing"}

\* The stored answer of a call that was made is still in its row, or the
\* time it is kept for has passed.
Remembered(r) ==
    \/ /\ rows[call[r].key].state = "completed"
       /\ rows[call[r].key].expires >= sent[r] + Ttl
    \/ now > sent[r] + Ttl

SentInv ==
    /\ \A r \in Requests : sent[r] # None =>
          /\ handler[r].at \notin Early
          /\ sent[r] <= now
          /\ Keyed(r) => call[r].phase \in {"executing", "stored", "unstored", "lost"}
          /\ call[r].phase = "stored" => Remembered(r)
    /\ SentOncePerKey

\* What the probe makes of a request that is let through.
SentNow(r) == /\ At(r, "probing")
              /\ handler'[r].at = "calling"
              /\ sent'[r] = now
              /\ UNCHANGED idemVars

\* No other step makes an upstream call or goes back before it.
LEMMA SentEffect ==
    ASSUME RouteTypeOK, [Next]_vars
    PROVE  /\ sent' = sent
              \/ \E r \in Requests : /\ SentNow(r)
                                     /\ sent' = [sent EXCEPT ![r] = now]
                                     /\ \A x \in Requests \ {r} : handler'[x] = handler[x]
           /\ \A x \in Requests : handler'[x].at \in Early => handler[x].at \in Early
<1>1. ASSUME NEW r \in Requests, NEW j \in Jobs,
             \/ TurnAway(r, j) \/ ArriveWithoutKey(r, j)
             \/ \E k \in Keys : ArriveWithKey(r, j, k)
      PROVE  sent' = sent /\ \A x \in Requests : handler'[x].at \in Early
                                                 => handler[x].at \in Early
  <2>1. sent' = sent /\ handler[r].at \in Early
    BY <1>1 DEF TurnAway, ArriveWithoutKey, ArriveWithKey, At, Early
  <2>2. \E h : handler' = [handler EXCEPT ![r] = h]
    BY <1>1, Zenon DEF TurnAway, ArriveWithoutKey, ArriveWithKey, Answering
  <2> QED BY <2>1, <2>2 DEF RouteTypeOK
<1>2. ASSUME NEW r \in Requests, NEW h, handler' = [handler EXCEPT ![r] = h],
             h.at \notin Early, sent' = sent
      PROVE  sent' = sent /\ \A x \in Requests : handler'[x].at \in Early
                                                 => handler[x].at \in Early
  BY <1>2 DEF RouteTypeOK
<1>3. ASSUME NEW r \in Requests, NEW p \in Point \ Early, NEW j, NEW t, NEW y,
             handler' = [handler EXCEPT ![r] = HandlerOf(p, j, t, y)], sent' = sent
      PROVE  sent' = sent /\ \A x \in Requests : handler'[x].at \in Early
                                                 => handler[x].at \in Early
  BY <1>2, <1>3, FieldsOf
<1>4. "answered" \in Point \ Early /\ "closing" \in Point \ Early /\ "served" \in Point \ Early
  BY DEF Point, Early
<1>5. ASSUME NEW r \in Requests,
             \/ Wake(r) \/ Escape(r) \/ BridgeRefuses(r) \/ CallFails(r) \/ CreateReturns(r)
             \/ CreateReturnsUnnamed(r) \/ MutationReturns(r) \/ Close(r)
      PROVE  sent' = sent /\ \A x \in Requests : handler'[x].at \in Early
                                                 => handler[x].at \in Early
  <2>1. sent' = sent
    BY <1>5 DEF Wake, Escape, BridgeRefuses, CallFails, CreateReturns, CreateReturnsUnnamed,
       MutationReturns, Close
  <2>2. \E p \in {"answered", "closing"} : \E j, t, y :
           handler' = [handler EXCEPT ![r] = HandlerOf(p, j, t, y)]
    BY <1>5 DEF Wake, Escape, BridgeRefuses, CallFails, CreateReturns, CreateReturnsUnnamed,
       MutationReturns, Close, Answering, Replying, Moved
  <2> QED BY <1>3, <1>4, <2>1, <2>2
<1>6. ASSUME NEW r \in Requests, CheckOwner(r)
      PROVE  sent' = sent /\ \A x \in Requests : handler'[x].at \in Early
                                                 => handler[x].at \in Early
  <2>1. sent' = sent /\ handler[r].at \in Early
    BY <1>6 DEF CheckOwner, At, Early
  <2>2. \E h : handler' = [handler EXCEPT ![r] = h]
    BY <1>6 DEF CheckOwner, Moved, Replying
  <2> QED BY <2>1, <2>2 DEF RouteTypeOK
<1>7. ASSUME NEW r \in Requests, NEW t \in Tasks, BridgeApplies(r, t)
      PROVE  sent' = sent /\ \A x \in Requests : handler'[x].at \in Early
                                                 => handler[x].at \in Early
  <2>1. sent' = sent
    BY <1>7 DEF BridgeApplies
  <2>2. handler' = handler
        \/ handler' = [handler EXCEPT ![r] =
                          HandlerOf("served", handler[r].job, t, handler[r].reply)]
    BY <1>7 DEF BridgeApplies
  <2> QED BY <1>3, <1>4, <2>1, <2>2
<1>8. ASSUME NEW r \in Requests, Probe(r)
      PROVE  /\ \/ sent' = sent
                \/ /\ SentNow(r)
                   /\ sent' = [sent EXCEPT ![r] = now]
                   /\ \A x \in Requests \ {r} : handler'[x] = handler[x]
             /\ \A x \in Requests : handler'[x].at \in Early => handler[x].at \in Early
  <2>1. handler[r].at \in Early
    BY <1>8 DEF Probe, At, Early
  <2>2. \E h : handler' = [handler EXCEPT ![r] = h]
    BY <1>8 DEF Probe, Moved, Replying
  <2>3. CASE handler' = Moved(r, "calling") /\ sent' = [sent EXCEPT ![r] = now]
    <3>1. handler'[r].at = "calling"
      BY <2>3, FieldsOf DEF Moved, RouteTypeOK
    <3>2. sent'[r] = now
      BY <2>3 DEF RouteTypeOK
    <3>3. SentNow(r)
      BY <1>8, <3>1, <3>2 DEF SentNow, Probe
    <3> QED BY <2>1, <2>2, <2>3, <3>3 DEF RouteTypeOK
  <2>4. CASE sent' = sent
    BY <2>1, <2>2, <2>4 DEF RouteTypeOK
  <2> QED BY <1>8, <2>3, <2>4 DEF Probe
<1>9. CASE Crash
  <2>1. sent' = sent
    BY <1>9 DEF Crash
  <2>2. ASSUME NEW x \in Requests, handler'[x].at \in Early
        PROVE  handler[x].at \in Early
    <3>1. handler'[x] = handler[x]
          \/ handler'[x] = HandlerOf("lost", handler[x].job, handler[x].task, handler[x].reply)
      BY <1>9 DEF Crash
    <3> QED BY <2>2, <3>1, FieldsOf DEF Early
  <2> QED BY <2>1, <2>2
<1>10. CASE Tick \/ UNCHANGED vars
  BY <1>10 DEF Tick, routeVars, vars
<1> QED BY <1>1, <1>5, <1>6, <1>7, <1>8, <1>9, <1>10 DEF Next, Handles

\* What a step of the store does to a call and to the row of a stored one.
LEMMA StoreFacts ==
    ASSUME Store!SafetyInv, Store!ExecutorsRowIsPending, [Next]_vars
    PROVE  /\ now \in Nat /\ now' \in Nat /\ now <= now' /\ Ttl \in Nat
           /\ \A r \in Requests : Keyed(r) => /\ Keyed(r)'
                                              /\ call'[r].key = call[r].key
                                              /\ call'[r].binding = call[r].binding
           /\ \A r \in Requests :
                 call[r].phase \notin {"idle", "executing", "waiting"} => call'[r] = call[r]
           /\ \A r \in Requests : call[r].phase = "executing" =>
                 /\ call'[r].phase \in {"executing", "stored", "unstored", "lost"}
                 /\ call'[r].phase = "stored" =>
                       /\ rows'[call[r].key].state = "completed"
                       /\ rows'[call[r].key].expires = now + Ttl
           /\ \A k \in Keys : rows[k].state = "completed" =>
                 rows'[k] = rows[k] \/ rows[k].expires < now
           /\ \A k \in Keys : rows[k].expires \in Nat
           /\ \A r \in Requests : Keyed(r) => call[r].key \in Keys
<1>0. Store!NoneIsNoRequest /\ Store!NoneIsNoBinding /\ Store!DurationsAreNat
  BY StoreHypotheses
<1>1. [Store!Next]_(Store!vars) /\ Store!TypeOK
  BY StoreStep, StoreTypes
<1>2. Ttl \in Nat
  BY <1>0 DEF Store!DurationsAreNat
<1>3. now \in Nat /\ now' \in Nat /\ now <= now'
  <2>1. now \in Nat
    BY <1>1 DEF Store!TypeOK
  <2> QED BY <1>0, <1>1, <2>1, Store!ClockAdvances
          DEF Store!NoneIsNoRequest, Store!NoneIsNoBinding, Store!DurationsAreNat
<1>4. ASSUME NEW r \in Requests, Keyed(r)
      PROVE  /\ Keyed(r)' /\ call'[r].key = call[r].key
             /\ call'[r].binding = call[r].binding
  <2>1. call[r].phase # "idle"
    BY <1>4 DEF Keyed
  <2> QED BY <1>0, <1>1, <2>1, Store!CallsKeepBinding
          DEF Keyed, Store!NoneIsNoRequest, Store!NoneIsNoBinding, Store!DurationsAreNat
<1>5. ASSUME NEW r \in Requests, call[r].phase \notin {"idle", "executing", "waiting"}
      PROVE  call'[r] = call[r]
  BY <1>0, <1>1, <1>5, Store!AnsweredCallsStay
     DEF Store!NoneIsNoRequest, Store!NoneIsNoBinding, Store!DurationsAreNat
<1>6. ASSUME NEW r \in Requests, call[r].phase = "executing"
      PROVE  /\ call'[r].phase \in {"executing", "stored", "unstored", "lost"}
             /\ call'[r].phase = "stored" =>
                   /\ rows'[call[r].key].state = "completed"
                   /\ rows'[call[r].key].expires = now + Ttl
  <2>1. Store!Executing(r)
    BY <1>6 DEF Store!Executing
  <2>2. /\ call'[r].phase \in {"executing", "stored", "unstored", "lost"}
        /\ call'[r].phase = "stored" => Store!Store(r)
    BY <1>0, <1>1, <2>1, Store!ExecutorEnds
       DEF Store!NoneIsNoRequest, Store!NoneIsNoBinding, Store!DurationsAreNat
  <2>3. Store!Store(r) => /\ rows'[call[r].key].state = "completed"
                          /\ rows'[call[r].key].expires = now + Ttl
    BY <1>0, Store!StoreCompletes
       DEF Store!NoneIsNoRequest, Store!NoneIsNoBinding, Store!DurationsAreNat
  <2> QED BY <2>2, <2>3
<1>7. ASSUME NEW k \in Keys, rows[k].state = "completed"
      PROVE  rows'[k] = rows[k] \/ rows[k].expires < now
  BY <1>0, <1>1, <1>7, Store!CompletedRowStays
     DEF Store!NoneIsNoRequest, Store!NoneIsNoBinding, Store!DurationsAreNat
<1>8. \A k \in Keys : rows[k].expires \in Nat
  BY <1>1 DEF Store!TypeOK, Store!Row
<1>9. \A r \in Requests : Keyed(r) => call[r].key \in Keys
  BY DEF Store!SafetyInv, Store!CallsAreBound, Keyed
<1> QED BY <1>2, <1>3, <1>4, <1>5, <1>6, <1>7, <1>8, <1>9

\* While a key is worked on, the answer of every earlier call of it that was
\* stored is no longer due: its time has passed.
LEMMA WorkMeansForgotten ==
    ASSUME SentInv, Store!ExecutorsRowIsPending, Store!OneExecutorPerKey,
           NEW r \in Requests, NEW s \in Requests, r # s, Keyed(r), SameKey(r, s),
           call[s].phase = "executing", sent[r] # None,
           call[r].phase \notin {"unstored", "lost"}
    PROVE  now > sent[r] + Ttl
<1>1. call[r].key = call[s].key
  BY DEF SameKey
<1>2. rows[call[r].key].state = "pending"
  BY <1>1 DEF Store!ExecutorsRowIsPending, Store!Executing
<1>3. call[r].phase # "executing"
  BY <1>1 DEF Store!OneExecutorPerKey, Store!Executing
<1>4. call[r].phase = "stored"
  BY <1>3 DEF SentInv
<1> QED BY <1>2, <1>4 DEF SentInv, Remembered

\* A request takes a key only when it arrives.
LEMMA UnkeyedStays ==
    ASSUME Store!SafetyInv, [Next]_vars, NEW r \in Requests, ~Keyed(r)
    PROVE  At(r, "new") \/ ~Keyed(r)'
<1>0. Idem!TypeOK
  BY StoreTypes
<1>1. ASSUME NEW s \in Requests, NEW j \in Jobs, NEW k \in Keys, ArriveWithKey(s, j, k)
      PROVE  At(r, "new") \/ ~Keyed(r)'
  BY <1>0, <1>1, ClaimEffect DEF ArriveWithKey, Keyed
<1>2. ASSUME NEW s \in Requests,
             \/ Idem!WakeWithResponse(s) \/ Idem!WaitTimeout(s) \/ Idem!WakeCancelled(s)
             \/ Idem!Store(s) \/ Idem!StoreFails(s)
      PROVE  ~Keyed(r)'
  BY <1>0, <1>2, EndEffect DEF Keyed
<1>3. ASSUME Crash PROVE ~Keyed(r)'
  BY <1>0, <1>3, CrashEffect DEF Crash, Keyed
<1>4. ASSUME UNCHANGED idemVars \/ Tick \/ UNCHANGED vars PROVE ~Keyed(r)'
  BY <1>4 DEF idemVars, Tick, Idem!Tick, vars, Keyed
<1>5. ASSUME NEW s \in Requests, Handles(s) \/ BridgeRefuses(s)
      PROVE  ~Keyed(r)'
  BY <1>5, <1>2, <1>4 DEF Handles, Wake, CheckOwner, Probe, Escape, CallFails, CreateReturns,
     CreateReturnsUnnamed, MutationReturns, Close, BridgeRefuses
<1>6. ASSUME NEW s \in Requests, NEW j \in Jobs, TurnAway(s, j) \/ ArriveWithoutKey(s, j)
      PROVE  ~Keyed(r)'
  BY <1>6, <1>4 DEF TurnAway, ArriveWithoutKey
<1>7. ASSUME NEW s \in Requests, NEW t \in Tasks, BridgeApplies(s, t)
      PROVE  ~Keyed(r)'
  BY <1>7, <1>4 DEF BridgeApplies
<1> QED BY <1>1, <1>3, <1>4, <1>5, <1>6, <1>7 DEF Next

LEMMA SentStep ==
    ASSUME SentInv, RouteInv, Store!SafetyInv, Store!OneExecutorPerKey,
           Store!ExecutorsRowIsPending, [Next]_vars
    PROVE  SentInv'
<1>1. \A r \in Requests : sent[r] \in Nat \cup {None}
  BY DEF RouteInv, RouteTypeOK
<1>2. \A x \in Requests : sent[x] # None => sent'[x] = sent[x]
  <2>1. RouteTypeOK
    BY DEF RouteInv
  <2> QED BY <2>1, SentEffect DEF SentInv, SentNow, At, Early, RouteTypeOK
<1>3. \A x \in Requests : sent[x] = None /\ sent'[x] # None => SentNow(x)
  <2>1. RouteTypeOK
    BY DEF RouteInv
  <2> QED BY <2>1, SentEffect DEF RouteTypeOK
<1>4. \A x \in Requests : SentNow(x) =>
         /\ UNCHANGED idemVars /\ handler'[x].at \notin Early /\ sent'[x] = now
         /\ Keyed(x) => call[x].phase = "executing"
  BY DEF SentNow, RouteInv, Linked, At, Working, Early
<1>5. ASSUME NEW r \in Requests, sent'[r] # None
      PROVE  /\ handler'[r].at \notin Early
             /\ sent'[r] <= now'
             /\ Keyed(r)' => call'[r].phase \in {"executing", "stored", "unstored", "lost"}
             /\ call'[r].phase = "stored" => Remembered(r)'
  <2>1. CASE sent[r] = None
    <3>1. SentNow(r)
      BY <1>3, <1>5, <2>1
    <3>2. call' = call /\ now' = now /\ now \in Nat /\ sent'[r] = now
      BY <1>4, <3>1, StoreFacts DEF idemVars
    <3>3. call[r].phase # "stored"
      BY <1>4, <3>1 DEF Keyed
    <3> QED BY <1>4, <3>1, <3>2, <3>3 DEF Keyed
  <2>2. CASE sent[r] # None
    <3>1. /\ sent'[r] = sent[r] /\ sent[r] \in Nat /\ sent[r] <= now
          /\ handler[r].at \notin Early
      BY <1>1, <1>2, <2>2 DEF SentInv
    <3>2. handler'[r].at \notin Early
      <4>1. RouteTypeOK
        BY DEF RouteInv
      <4> QED BY <3>1, <4>1, SentEffect
    <3>3. sent'[r] <= now'
      BY <3>1, StoreFacts
    <3>4. CASE ~Keyed(r)
      <4>1. At(r, "new") \/ ~Keyed(r)'
        BY <3>4, UnkeyedStays
      <4>2. ~Keyed(r)'
        BY <3>1, <4>1 DEF At, Early
      <4> QED BY <3>2, <3>3, <4>2 DEF Keyed
    <3>5. CASE Keyed(r)
      <4>1. /\ call[r].phase \in {"executing", "stored", "unstored", "lost"}
            /\ call[r].key \in Keys /\ call'[r].key = call[r].key
        BY <2>2, <3>5, StoreFacts DEF SentInv
      <4>2. call'[r].phase \in {"executing", "stored", "unstored", "lost"}
        BY <4>1, StoreFacts
      <4>3. ASSUME call'[r].phase = "stored" PROVE Remembered(r)'
        <5>1. CASE call[r].phase = "executing"
          <6>1. /\ rows'[call[r].key].state = "completed"
                /\ rows'[call[r].key].expires = now + Ttl
            BY <4>3, <5>1, StoreFacts
          <6>2. now + Ttl >= sent[r] + Ttl
            BY <3>1, StoreFacts
          <6> QED BY <3>1, <4>1, <6>1, <6>2 DEF Remembered
        <5>2. CASE call[r].phase = "stored"
          <6>1. Remembered(r)
            BY <2>2, <5>2 DEF SentInv
          <6> QED BY <3>1, <4>1, <6>1, StoreFacts DEF Remembered
        <5>3. call[r].phase \in {"executing", "stored"}
          BY <4>1, <4>3, StoreFacts
        <5> QED BY <5>1, <5>2, <5>3
      <4> QED BY <3>2, <3>3, <4>2, <4>3
    <3> QED BY <3>4, <3>5
  <2> QED BY <2>1, <2>2
<1>6. SentOncePerKey'
  <2> SUFFICES ASSUME NEW r \in Requests, NEW s \in Requests, r # s,
                      Keyed(r)', Keyed(s)', SameKey(r, s)',
                      sent'[r] # None, sent'[s] # None, sent'[r] <= sent'[s],
                      \A q \in Requests : SameKey(q, r)'
                         => call'[q].phase \notin {"unstored", "lost"}
               PROVE  sent'[s] > sent'[r] + Ttl
    BY DEF SentOncePerKey
  <2>1. Keyed(r) /\ Keyed(s)
    BY <1>5, UnkeyedStays, <1>2, <1>3 DEF SentInv, At, Early, SentNow
  <2>2. /\ SameKey(r, s)
        /\ \A q \in Requests : Keyed(q) /\ SameKey(q, r)
              => call[q].phase \notin {"unstored", "lost"}
    <3>1. SameKey(r, s)
      BY <2>1, StoreFacts DEF SameKey
    <3>2. ASSUME NEW q \in Requests, Keyed(q), SameKey(q, r),
                 call[q].phase \in {"unstored", "lost"}
          PROVE  FALSE
      <4>1. call'[q] = call[q] /\ SameKey(q, r)'
        BY <2>1, <3>2, StoreFacts DEF SameKey
      <4> QED BY <3>2, <4>1
    <3> QED BY <3>1, <3>2
  <2>3. /\ call[r].phase \notin {"unstored", "lost"}
        /\ call[s].phase \notin {"unstored", "lost"}
    BY <2>1, <2>2 DEF SameKey
  <2>4. /\ now \in Nat /\ Ttl \in Nat
        /\ sent'[r] \in Nat /\ sent'[s] \in Nat
    BY <1>1, <1>2, <1>3, <1>4, StoreFacts
  <2>5. CASE sent[r] # None /\ sent[s] # None
    <3>1. sent'[r] = sent[r] /\ sent'[s] = sent[s]
      BY <1>2, <2>5
    <3>2. \/ sent[s] > sent[r] + Ttl
          \/ \E q \in Requests : SameKey(q, r) /\ call[q].phase \in {"unstored", "lost"}
      BY <2>1, <2>2, <2>5, <3>1 DEF SentInv, SentOncePerKey
    <3> QED BY <2>2, <3>1, <3>2 DEF Keyed
  <2>6. CASE sent[s] = None
    <3>1. SentNow(s) /\ call[s].phase = "executing" /\ sent'[s] = now
      BY <1>3, <1>4, <2>1, <2>6
    <3>2. sent[r] # None /\ sent'[r] = sent[r]
      <4>1. ~SentNow(r)
        BY <2>1, <2>2, <3>1, <1>4 DEF SameKey, Store!OneExecutorPerKey, Store!Executing
      <4> QED BY <1>2, <1>3, <4>1
    <3>3. now > sent[r] + Ttl
      BY <2>1, <2>2, <2>3, <3>1, <3>2, WorkMeansForgotten
    <3> QED BY <3>1, <3>2, <3>3
  <2>7. CASE sent[r] = None /\ sent[s] # None
    <3>1. call[r].phase = "executing" /\ sent'[r] = now /\ sent'[s] = sent[s]
      BY <1>2, <1>3, <1>4, <2>1, <2>7
    <3>2. SameKey(s, r)
      BY <2>2 DEF SameKey
    <3>3. now > sent[s] + Ttl
      BY <2>1, <2>3, <2>7, <3>1, <3>2, WorkMeansForgotten
    <3> QED BY <2>4, <3>1, <3>3
  <2> QED BY <2>5, <2>6, <2>7
<1> QED BY <1>5, <1>6 DEF SentInv

\* An identical pair of keyed requests makes one upstream call while the
\* first one's answer is kept, for every number of requests, restarts,
\* takeovers and late stores: a second call needs a claimant that never
\* stored, or an expired answer.
THEOREM CallsAreMadeOnce ==
    ASSUME MaxRun < Lease, MaxRun <= Ttl
    PROVE  Spec => []SentOncePerKey
<1>1. Init => SentInv
  BY DEF Init, SentInv, SentOncePerKey
<1>2. SentInv /\ RouteInv /\ Store!SafetyInv /\ Store!OneExecutorPerKey
      /\ Store!ExecutorsRowIsPending /\ [Next]_vars => SentInv'
  BY SentStep
<1>3. SentInv => SentOncePerKey
  BY DEF SentInv
<1> QED BY <1>1, <1>2, <1>3, RouteSafety, StoreSafety, StoreExclusion, PTL DEF Spec
=============================================================================
