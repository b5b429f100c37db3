------------------------- MODULE IdempotentExecution -------------------------
(***************************************************************************)
(* What a caller of the durable store is promised, without clocks, leases, *)
(* futures or a database: each key is a slot that is free, held by one     *)
(* request that works under one binding, or done with that request's       *)
(* response.                                                               *)
(*   - a held slot changes hands only after its holder is gone, and only   *)
(*     to a request with the same binding;                                 *)
(*   - a done slot keeps its response until it is forgotten;               *)
(*   - a replay is a response stored for the same key and binding.         *)
(***************************************************************************)
EXTENDS Naturals

CONSTANTS Requests, Keys, Bindings, None

VARIABLES
    slot,       \* what each key stands for
    outcome     \* what became of each request

vars == <<slot, outcome>>

Free == [state |-> "free", binding |-> None, by |-> None]

\* `by` is the holder of a held slot (None once the holder is gone) and the
\* author of a done slot's response.
Held(r, b) == [state |-> "held", binding |-> b, by |-> r]
Done(r, b) == [state |-> "done", binding |-> b, by |-> r]

Outcome(state, k, b, answer) == [state |-> state, key |-> k, binding |-> b,
                                 answer |-> answer]
Unseen == Outcome("unseen", None, None, None)

Init ==
    /\ slot = [k \in Keys |-> Free]
    /\ outcome = [r \in Requests |-> Unseen]

\* Done slots may be forgotten whenever a request arrives.
Forgotten(S) == [k \in Keys |-> IF k \in S THEN Free ELSE slot[k]]
Forgettable == {k \in Keys : slot[k].state = "done"}

Becomes(r, k, b, state, answer) ==
    outcome' = [outcome EXCEPT ![r] = Outcome(state, k, b, answer)]

Responses(k, b) == {q \in Requests : /\ outcome[q].state = "stored"
                                     /\ outcome[q].key = k
                                     /\ outcome[q].binding = b}

Arrive(r, k, b, S) ==
    LET now == Forgotten(S)[k] IN
    /\ outcome[r].state = "unseen"
    /\ \/ /\ \/ now.state = "free"
             \/ now.state = "held" /\ now.binding = b /\ now.by = None
          /\ slot' = [Forgotten(S) EXCEPT ![k] = Held(r, b)]
          /\ Becomes(r, k, b, "working", None)
       \/ /\ now.state # "free" /\ now.binding # b
          /\ slot' = Forgotten(S)
          /\ Becomes(r, k, b, "refused", None)
       \/ /\ now = Done(now.by, b)
          /\ slot' = Forgotten(S)
          /\ Becomes(r, k, b, "replayed", now.by)
       \/ /\ now.state = "held" /\ now.binding = b
          /\ slot' = Forgotten(S)
          /\ \E state \in {"waiting", "unanswered"} : Becomes(r, k, b, state, None)

\* A request that waits gets a response or is sent away without one.
Leave(r) ==
    LET o == outcome[r] IN
    /\ o.state = "waiting"
    /\ UNCHANGED slot
    /\ \/ \E q \in Responses(o.key, o.binding) :
             Becomes(r, o.key, o.binding, "replayed", q)
       \/ Becomes(r, o.key, o.binding, "unanswered", None)

Finish(r) ==
    LET o == outcome[r] IN
    /\ o.state = "working"
    /\ slot[o.key] = Held(r, o.binding)
    /\ slot' = [slot EXCEPT ![o.key] = Done(r, o.binding)]
    /\ Becomes(r, o.key, o.binding, "stored", None)

\* A set of requests is gone: one that could not store, or all that were in
\* a process when it died.
Vanish(S) ==
    /\ \A r \in S : outcome[r].state \in {"working", "waiting"}
    /\ outcome' = [r \in Requests |-> IF r \in S
                      THEN Outcome("gone", outcome[r].key, outcome[r].binding, None)
                      ELSE outcome[r]]
    /\ slot' = [k \in Keys |-> IF slot[k].state = "held" /\ slot[k].by \in S
                   THEN Held(None, slot[k].binding)
                   ELSE slot[k]]

Next ==
    \/ \E r \in Requests, k \in Keys, b \in Bindings, S \in SUBSET Forgettable :
          Arrive(r, k, b, S)
    \/ \E r \in Requests : Leave(r) \/ Finish(r)
    \/ \E S \in SUBSET Requests : Vanish(S)

Spec == Init /\ [][Next]_vars
=============================================================================
