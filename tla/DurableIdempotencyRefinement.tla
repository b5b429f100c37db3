-------------------- MODULE DurableIdempotencyRefinement --------------------
(***************************************************************************)
(* DurableIdempotency implements IdempotentExecution when every claimant   *)
(* stores before its lease is over (MaxRun < Lease): the row's state and   *)
(* binding are the slot's, and its holder is the request still executing,  *)
(* which nothing in the row records.                                       *)
(***************************************************************************)
EXTENDS DurableIdempotency

Holders(k) == {r \in Requests : Executing(r) /\ call[r].key = k}
Holder(k)  == IF Holders(k) = {} THEN None ELSE CHOOSE r \in Holders(k) : TRUE

SlotState(s) == CASE s = "absent"  -> "free"
                  [] s = "pending" -> "held"
                  [] OTHER         -> "done"

slot == [k \in Keys |->
            [state   |-> SlotState(rows[k].state),
             binding |-> rows[k].binding,
             by      |-> IF rows[k].state = "pending" THEN Holder(k)
                                                      ELSE rows[k].result]]

\* Both ways of leaving the wait without a response are "unanswered", both
\* ways of ending without a store are "gone".
OutcomeState(p) ==
    CASE p = "idle"                        -> "unseen"
      [] p = "executing"                   -> "working"
      [] p = "conflict"                    -> "refused"
      [] p \in {"in_progress", "aborted"}  -> "unanswered"
      [] p \in {"unstored", "lost"}        -> "gone"
      [] OTHER                             -> p

outcome == [r \in Requests |->
               [state   |-> OutcomeState(call[r].phase),
                key     |-> call[r].key,
                binding |-> call[r].binding,
                answer  |-> call[r].answer]]

Contract == INSTANCE IdempotentExecution

\* Leases, the shared futures, late purges and restarts of durable_state.py
\* amount to one slot per key that is free, held or done.
ImplementsContract == Contract!Spec
=============================================================================
