----------------------------- MODULE TaskFollow -----------------------------
(***************************************************************************)
(* Two ways a client follows a task to its end, both by polling the        *)
(* bridge while the task goes on:                                          *)
(*   - POST .../wait (routes.universal_task_wait): poll the task until it  *)
(*     is in a terminal state or the deadline has passed;                  *)
(*   - the task stream (agent_bridge._run_task_stream, _poll_task): poll   *)
(*     the task, then its log, emit the events not emitted before, stop    *)
(*     at a terminal status.                                               *)
(* Each poll awaits the bridge, which reads the task at some instant       *)
(* between the request and the answer.                                     *)
(*                                                                         *)
(* Data abstraction.  An event is its number in the task's log, which is   *)
(* what _task_event_key identifies as long as two events differ in         *)
(* timestamp, note or update time.  How long the stream sleeps between two *)
(* polls is left open: nothing in it is timed.  The task's currentStage is *)
(* taken to be empty, so _normalize_task_state reads its status.  What the *)
(* stream emits are the chunks it yields; how a route frames them, and     *)
(* which frames a client's reader is given, is StreamRelay's.              *)
(***************************************************************************)
EXTENDS Naturals

CONSTANTS
    Statuses,       \* raw statuses the bridge reports
    Final,          \* the ones after which the bridge logs nothing more
    Revivable,      \* the ones a retry takes a task out of
    Timeout,        \* timeoutMs, after clamping
    Poll,           \* pollMs, after clamping
    MaxDelay,       \* the longest a poll takes (the client's timeout)
    Window,         \* TASK_STREAM_EVENT_LIMIT
    MaxNow,         \* bound: the last instant of the clock
    MaxEvents,      \* bound: events of the task's log
    MaxRetries      \* bound: retries of the task

ASSUME FinalAreStatuses == Final \subseteq Statuses /\ Revivable \subseteq Final
ASSUME BoundsAreNat ==
    /\ Timeout \in Nat /\ Poll \in Nat \ {0}
    /\ MaxDelay \in Nat /\ Window \in Nat \ {0}
    /\ MaxNow \in Nat /\ MaxEvents \in Nat /\ MaxRetries \in Nat

VARIABLES
    now,        \* the clock
    status,     \* the task's status at the bridge
    logged,     \* number of events in its log
    retries,    \* how often it was retried
    lastOpen,   \* the last instant at which a wait would not have ended
    wait,       \* the waiting handler
    stream      \* the streaming generator

vars == <<now, status, logged, retries, lastOpen, wait, stream>>
taskVars == <<status, logged, retries, lastOpen>>

\* _normalize_task_state then _is_terminal_task_state.
Normalized == [s \in Statuses |->
    CASE s \in {"done", "completed", "success"}  -> "completed"
      [] s \in {"failed", "error"}               -> "failed"
      [] s \in {"canceled", "cancelled"}         -> "canceled"
      [] s \in {"running", "in_progress"}        -> "running"
      [] s \in {"queued", "pending", "created", "idle"}   -> "queued"
      [] s \in {"needs_approval", "waiting_approval"}     -> "needs_approval"
      [] OTHER -> s]
TerminalForWait(s) == Normalized[s] \in {"completed", "failed", "canceled"}

\* terminal_statuses of _run_task_stream.
TerminalForStream(s) == s \in {"done", "failed", "canceled", "escalated"}

Events == 1..MaxEvents

Wait == [at       : {"idle", "polling", "answered", "sleeping", "returned"},
         deadline : Nat,
         asked    : Nat,        \* when the last poll was sent
         wakeAt   : Nat,
         saw      : Statuses,
         timedOut : BOOLEAN]

\* "fetching": get_task has answered and get_task_events is under way.
\* `unread` says that the log once grew by more than a window between two
\* fetches.
Stream == [at      : {"idle", "polling", "fetching", "got", "sleeping", "ended", "broken"},
           saw     : Statuses,
           fetched : SUBSET Events,
           last    : 0..MaxEvents,
           emitted : SUBSET Events,
           unread  : BOOLEAN]

TypeOK ==
    /\ now \in Nat
    /\ status \in Statuses
    /\ logged \in 0..MaxEvents
    /\ retries \in Nat
    /\ lastOpen \in 0..now
    /\ wait \in Wait
    /\ stream \in Stream

Init ==
    /\ now = 0
    /\ status \in Statuses \ Final
    /\ logged = 0
    /\ retries = 0
    /\ lastOpen = 0
    /\ wait = [at |-> "idle", deadline |-> 0, asked |-> 0, wakeAt |-> 0, saw |-> status,
               timedOut |-> FALSE]
    /\ stream = [at |-> "idle", saw |-> status, fetched |-> {}, last |-> 0,
                 emitted |-> {}, unread |-> FALSE]

-----------------------------------------------------------------------------
(* The bridge: external, as the two polls use it.  A change of status is   *)
(* logged together with the change.                                        *)

Becomes(s) ==
    /\ status' = s
    /\ logged' = logged + 1
    /\ lastOpen' = IF TerminalForWait(s) THEN lastOpen ELSE now

Progress(s) ==
    /\ status \notin Final
    /\ logged < MaxEvents
    /\ Becomes(s)
    /\ UNCHANGED <<now, retries, wait, stream>>

Revive ==
    /\ status \in Revivable
    /\ retries < MaxRetries
    /\ logged < MaxEvents
    /\ retries' = retries + 1
    /\ \E s \in Statuses \ Final : Becomes(s)
    /\ UNCHANGED <<now, wait, stream>>

-----------------------------------------------------------------------------
(* universal_task_wait *)

WaitStarts ==
    /\ wait.at = "idle"
    /\ now + Timeout + MaxDelay <= MaxNow
    /\ wait' = [wait EXCEPT !.at = "polling", !.asked = now,
                              !.deadline = now + Timeout]
    /\ UNCHANGED <<now, stream>> /\ UNCHANGED taskVars

\* The bridge reads the task; the answer is on its way.
WaitPolls ==
    /\ wait.at = "polling"
    /\ wait' = [wait EXCEPT !.at = "answered", !.saw = status]
    /\ UNCHANGED <<now, stream>> /\ UNCHANGED taskVars

\* get_task raised: an upstream error status or 500 instead of a result.
WaitFails ==
    /\ wait.at \in {"polling", "answered"}
    /\ wait' = [wait EXCEPT !.at = "returned"]
    /\ UNCHANGED <<now, stream>> /\ UNCHANGED taskVars

WaitReturns ==
    /\ wait.at = "answered"
    /\ TerminalForWait(wait.saw)
    /\ wait' = [wait EXCEPT !.at = "returned"]
    /\ UNCHANGED <<now, stream>> /\ UNCHANGED taskVars

\* The definitions named Bad... are slips the properties must notice.
BadDeadlinePassed == now + Poll >= wait.deadline
DeadlinePassed == now >= wait.deadline

WaitTimesOut ==
    /\ wait.at = "answered"
    /\ ~TerminalForWait(wait.saw)
    /\ DeadlinePassed
    /\ wait' = [wait EXCEPT !.at = "returned", !.timedOut = TRUE]
    /\ UNCHANGED <<now, stream>> /\ UNCHANGED taskVars

Sleep == IF Poll < wait.deadline - now THEN Poll ELSE wait.deadline - now

WaitSleeps ==
    /\ wait.at = "answered"
    /\ ~TerminalForWait(wait.saw)
    /\ ~DeadlinePassed
    /\ wait' = [wait EXCEPT !.at = "sleeping", !.wakeAt = now + Sleep]
    /\ UNCHANGED <<now, stream>> /\ UNCHANGED taskVars

WaitWakes ==
    /\ wait.at = "sleeping"
    /\ now >= wait.wakeAt
    /\ wait' = [wait EXCEPT !.at = "polling", !.asked = now]
    /\ UNCHANGED <<now, stream>> /\ UNCHANGED taskVars

-----------------------------------------------------------------------------
(* _poll_task of _run_task_stream *)

StreamStarts ==
    /\ stream.at = "idle"
    /\ stream' = [stream EXCEPT !.at = "polling"]
    /\ UNCHANGED <<now, wait>> /\ UNCHANGED taskVars

StreamPolls ==
    /\ stream.at = "polling"
    /\ stream' = [stream EXCEPT !.at = "fetching", !.saw = status]
    /\ UNCHANGED <<now, wait>> /\ UNCHANGED taskVars

\* The log is read after the task, and only its newest events.
BadInWindow == {e \in 0..logged : e + Window >= logged}
InWindow == {e \in 1..logged : e + Window > logged}

StreamFetches ==
    /\ stream.at = "fetching"
    /\ stream' = [stream EXCEPT !.at = "got", !.fetched = InWindow, !.last = logged,
                                !.unread = @ \/ logged > stream.last + Window]
    /\ UNCHANGED <<now, wait>> /\ UNCHANGED taskVars

\* seen_event_keys: an event fetched again is not told again.
Emitted == stream.emitted \cup stream.fetched

BadStreamEmits ==
    /\ stream.at = "got"
    /\ stream' = IF TerminalForStream(stream.saw)
                 THEN [stream EXCEPT !.at = "ended", !.fetched = {}]
                 ELSE [stream EXCEPT !.at = "sleeping", !.emitted = Emitted,
                                     !.fetched = {}]
    /\ UNCHANGED <<now, wait>> /\ UNCHANGED taskVars

BadStreamStops ==
    /\ stream.at = "got"
    /\ stream' = [stream EXCEPT
                     !.at = IF TerminalForStream(stream.saw) /\ Emitted # stream.emitted
                            THEN "ended" ELSE "sleeping",
                     !.emitted = Emitted, !.fetched = {}]
    /\ UNCHANGED <<now, wait>> /\ UNCHANGED taskVars

StreamEmits ==
    /\ stream.at = "got"
    /\ stream' = [stream EXCEPT !.at = IF TerminalForStream(stream.saw)
                                      THEN "ended" ELSE "sleeping",
                                !.emitted = Emitted, !.fetched = {}]
    /\ UNCHANGED <<now, wait>> /\ UNCHANGED taskVars

StreamWakes ==
    /\ stream.at = "sleeping"
    /\ stream' = [stream EXCEPT !.at = "polling"]
    /\ UNCHANGED <<now, wait>> /\ UNCHANGED taskVars

\* A poll raised: the generator ends without its [DONE].
StreamBreaks ==
    /\ stream.at \in {"polling", "fetching"}
    /\ stream' = [stream EXCEPT !.at = "broken"]
    /\ UNCHANGED <<now, wait>> /\ UNCHANGED taskVars

-----------------------------------------------------------------------------

Tick ==
    /\ now < MaxNow
    /\ wait.at \in {"polling", "answered"} => now < wait.asked + MaxDelay
    /\ now' = now + 1
    /\ lastOpen' = IF TerminalForWait(status) THEN lastOpen ELSE now + 1
    /\ UNCHANGED <<status, logged, retries, wait, stream>>

WaitSteps == \/ WaitPolls \/ WaitFails \/ WaitReturns
             \/ WaitTimesOut \/ WaitSleeps \/ WaitWakes
StreamSteps == StreamPolls \/ StreamFetches \/ StreamEmits \/ StreamWakes \/ StreamBreaks

Next ==
    \/ \E s \in Statuses : Progress(s)
    \/ Revive
    \/ WaitStarts \/ WaitSteps
    \/ StreamStarts \/ StreamSteps
    \/ Tick

Spec == Init /\ [][Next]_vars

\* Time passes, the loop resumes a sleeper, and every poll ends: httpx gives
\* up after the bridge's 600 seconds.
FairSpec == Spec /\ WF_vars(Tick) /\ WF_vars(WaitSteps) /\ WF_vars(StreamSteps)

-----------------------------------------------------------------------------
(* Properties *)

\* A wait that answers 408 is out of date by one poll at most: the task was
\* still unfinished within MaxDelay before the deadline, or later, because
\* the loop polls again once the deadline has passed.
TimeoutMissedNothing ==
    wait.timedOut => lastOpen + MaxDelay >= wait.deadline

\* Every wait returns.
WaitEnds == wait.at = "polling" ~> wait.at = "returned"

\* A stream that ends has told every event up to the one that ended the
\* task, unless the log outgrew the window between two polls.
StreamTellsAll ==
    stream.at = "ended" /\ ~stream.unread /\ retries = 0 =>
        1..logged \subseteq stream.emitted

\* The stream of a task that comes to rest in a status the stream knows
\* stops.
StreamEnds ==
    <>[]TerminalForStream(status) =>
        (stream.at = "polling" ~> stream.at \in {"ended", "broken"})

\* Neither of the two follows its task for ever.
FollowingEnds == WaitEnds /\ StreamEnds
=============================================================================
