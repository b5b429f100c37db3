-------------------------- MODULE TaskFollow_proofs --------------------------
(***************************************************************************)
(* Theorems about the task wait and the task stream, for every task, every *)
(* timeout and every window: a timeout is at most one poll out of date,    *)
(* and a stream that ends has told the log.                                *)
(***************************************************************************)
EXTENDS TaskFollow, TLAPS

LEMMA Hypotheses ==
    /\ Final \subseteq Statuses /\ Revivable \subseteq Final
    /\ Timeout \in Nat /\ Poll \in Nat \ {0}
    /\ MaxDelay \in Nat /\ Window \in Nat \ {0}
    /\ MaxNow \in Nat /\ MaxEvents \in Nat /\ MaxRetries \in Nat
BY FinalAreStatuses, BoundsAreNat

\* What a change of the task's status does, whichever it is.
LEMMA BecomesTypes ==
    ASSUME TypeOK, NEW s \in Statuses, logged < MaxEvents, Becomes(s), UNCHANGED now
    PROVE  /\ status' \in Statuses
           /\ logged' \in 0..MaxEvents
           /\ lastOpen' \in 0..now'
BY Hypotheses DEF TypeOK, Becomes

LEMMA RevivePicks ==
    ASSUME Revive
    PROVE  \E s \in Statuses : Becomes(s) /\ s \notin Final
BY DEF Revive

LEMMA TypeInit == Init => TypeOK
BY Hypotheses DEF Init, TypeOK, Wait, Stream

LEMMA TaskTypes ==
    ASSUME TypeOK, Revive \/ \E s \in Statuses : Progress(s)
    PROVE  TypeOK'
<1>1. CASE Revive
  <2>1. PICK s \in Statuses : Becomes(s)
    BY <1>1, RevivePicks
  <2>2. logged < MaxEvents /\ UNCHANGED <<now, wait, stream>> /\ retries' = retries + 1
    BY <1>1 DEF Revive
  <2> QED BY <2>1, <2>2, BecomesTypes DEF TypeOK
<1>2. ASSUME NEW s \in Statuses, Progress(s)
      PROVE  TypeOK'
  <2>1. Becomes(s) /\ logged < MaxEvents /\ UNCHANGED <<now, retries, wait, stream>>
    BY <1>2 DEF Progress
  <2> QED BY <2>1, BecomesTypes DEF TypeOK
<1> QED BY <1>1, <1>2

LEMMA WaitTypes ==
    ASSUME TypeOK, WaitStarts \/ WaitSteps
    PROVE  TypeOK'
<1>1. /\ UNCHANGED <<now, stream>> /\ UNCHANGED taskVars
  BY DEF WaitStarts, WaitSteps, WaitPolls, WaitFails, WaitReturns, WaitTimesOut,
     WaitSleeps, WaitWakes
<1>2. wait' \in Wait
  <2> USE Hypotheses DEF TypeOK, Wait
  <2>1. CASE WaitStarts
    <3>1. now \in Nat /\ now + Timeout \in Nat
      OBVIOUS
    <3> QED BY <2>1, <3>1 DEF WaitStarts
  <2>2. CASE WaitPolls
    BY <2>2 DEF WaitPolls
  <2>3. CASE WaitFails
    BY <2>3 DEF WaitFails
  <2>4. CASE WaitReturns
    BY <2>4 DEF WaitReturns
  <2>5. CASE WaitTimesOut
    BY <2>5 DEF WaitTimesOut
  <2>6. CASE WaitSleeps
    <3>1. ~(now >= wait.deadline) /\ now \in Nat /\ wait.deadline \in Nat
      BY <2>6 DEF WaitSleeps, DeadlinePassed
    <3>2. Sleep \in Nat
      BY <3>1 DEF Sleep
    <3>3. now + Sleep \in Nat
      BY <3>1, <3>2
    <3>4. wait' = [wait EXCEPT !.at = "sleeping", !.wakeAt = now + Sleep]
      BY <2>6 DEF WaitSleeps
    <3> HIDE DEF TypeOK
    <3>5. wait \in Wait
      BY DEF TypeOK
    <3> QED BY <3>3, <3>4, <3>5
  <2>7. CASE WaitWakes
    BY <2>7 DEF WaitWakes
  <2> QED BY <2>1, <2>2, <2>3, <2>4, <2>5, <2>6, <2>7 DEF WaitSteps
<1> QED BY <1>1, <1>2 DEF TypeOK, taskVars

LEMMA StreamTypes ==
    ASSUME TypeOK, StreamStarts \/ StreamSteps
    PROVE  TypeOK'
<1>1. /\ UNCHANGED <<now, wait>> /\ UNCHANGED taskVars
  BY DEF StreamStarts, StreamSteps, StreamPolls, StreamFetches, StreamEmits,
     StreamWakes, StreamBreaks
<1>2. stream' \in Stream
  <2> USE Hypotheses DEF TypeOK, Stream
  <2>1. CASE StreamStarts
    BY <2>1 DEF StreamStarts
  <2>2. CASE StreamPolls
    BY <2>2 DEF StreamPolls
  <2>3. CASE StreamFetches
    <3>1. InWindow \subseteq Events
      BY DEF InWindow, Events
    <3>2. (stream.unread \/ logged > stream.last + Window) \in BOOLEAN
      OBVIOUS
    <3> QED BY <2>3, <3>1, <3>2 DEF StreamFetches
  <2>4. CASE StreamEmits
    BY <2>4 DEF StreamEmits, Emitted
  <2>5. CASE StreamWakes
    BY <2>5 DEF StreamWakes
  <2>6. CASE StreamBreaks
    BY <2>6 DEF StreamBreaks
  <2> QED BY <2>1, <2>2, <2>3, <2>4, <2>5, <2>6 DEF StreamSteps
<1> QED BY <1>1, <1>2 DEF TypeOK, taskVars

LEMMA TickTypes == ASSUME TypeOK, Tick PROVE TypeOK'
BY Hypotheses DEF Tick, TypeOK

\* The wait and the stream keep to their shape, the window lies in the log and
\* the last open instant is never ahead of the clock.
THEOREM FollowTypeCorrect == Spec => []TypeOK
<1>1. TypeOK /\ [Next]_vars => TypeOK'
  <2> SUFFICES ASSUME TypeOK, [Next]_vars PROVE TypeOK'
    OBVIOUS
  <2>1. CASE Next
    BY <2>1, TaskTypes, WaitTypes, StreamTypes, TickTypes DEF Next
  <2>2. CASE UNCHANGED vars
    BY <2>2 DEF vars, TypeOK
  <2> QED BY <2>1, <2>2
<1> QED BY <1>1, TypeInit, PTL DEF Spec

-----------------------------------------------------------------------------
(* The wait *)

\* An unfinished task was open a moment ago; a poll is never older than
\* MaxDelay; what it saw unfinished was open when it was sent, or later;
\* only a wait that has returned has timed out.
WaitInv ==
    /\ ~TerminalForWait(status) => lastOpen = now
    /\ wait.at \in {"polling", "answered"} =>
          wait.asked <= now /\ now <= wait.asked + MaxDelay
    /\ wait.at = "answered" /\ ~TerminalForWait(wait.saw) => wait.asked <= lastOpen
    /\ wait.timedOut => wait.at = "returned"
    /\ TimeoutMissedNothing

LEMMA WaitInit == Init => WaitInv
BY Hypotheses DEF Init, WaitInv, TimeoutMissedNothing

LEMMA BecomesKeepsWait ==
    ASSUME TypeOK, WaitInv, NEW s \in Statuses, Becomes(s), UNCHANGED <<now, wait>>
    PROVE  WaitInv'
<1>1. lastOpen <= lastOpen'
  BY DEF Becomes, TypeOK
<1>2. ~TerminalForWait(status') => lastOpen' = now'
  BY DEF Becomes
<1>3. TimeoutMissedNothing'
  BY <1>1, Hypotheses DEF TimeoutMissedNothing, WaitInv, TypeOK, Wait, Becomes
<1>4. wait'.at = "answered" /\ ~TerminalForWait(wait'.saw) => wait'.asked <= lastOpen'
  BY <1>1 DEF WaitInv, TypeOK, Wait, Becomes
<1> QED BY <1>2, <1>3, <1>4 DEF WaitInv

LEMMA WaitStepKeepsWait ==
    ASSUME TypeOK, WaitInv, WaitStarts \/ WaitSteps
    PROVE  WaitInv'
<1>1. UNCHANGED <<now, status, lastOpen>>
  BY DEF WaitStarts, WaitSteps, WaitPolls, WaitFails, WaitReturns, WaitTimesOut,
     WaitSleeps, WaitWakes, taskVars
<1> USE Hypotheses, <1>1 DEF TypeOK, Wait, WaitInv, TimeoutMissedNothing
<1>2. CASE WaitStarts
  <2>1. /\ wait'.at = "polling" /\ wait'.asked = now
        /\ wait'.timedOut = wait.timedOut /\ wait'.deadline = now + Timeout
    BY <1>2 DEF WaitStarts
  <2>2. ~wait.timedOut
    BY <1>2 DEF WaitStarts
  <2>3. ~wait'.timedOut
    BY <2>1, <2>2
  <2> QED BY <2>1, <2>3
<1>3. CASE WaitPolls
  BY <1>3 DEF WaitPolls
<1>4. CASE WaitFails
  BY <1>4 DEF WaitFails
<1>5. CASE WaitReturns
  BY <1>5 DEF WaitReturns
<1>6. CASE WaitTimesOut
  BY <1>6 DEF WaitTimesOut, DeadlinePassed
<1>7. CASE WaitSleeps
  BY <1>7 DEF WaitSleeps
<1>8. CASE WaitWakes
  BY <1>8 DEF WaitWakes
<1> QED BY <1>2, <1>3, <1>4, <1>5, <1>6, <1>7, <1>8 DEF WaitSteps

LEMMA TickKeepsWait == ASSUME TypeOK, WaitInv, Tick PROVE WaitInv'
BY Hypotheses DEF Tick, TypeOK, Wait, WaitInv, TimeoutMissedNothing

LEMMA WaitStep == TypeOK /\ WaitInv /\ [Next]_vars => WaitInv'
<1> SUFFICES ASSUME TypeOK, WaitInv, [Next]_vars PROVE WaitInv'
  OBVIOUS
<1>1. CASE Revive
  <2>1. PICK s \in Statuses : Becomes(s)
    BY <1>1, RevivePicks
  <2> QED BY <1>1, <2>1, BecomesKeepsWait DEF Revive
<1>2. ASSUME NEW s \in Statuses, Progress(s) PROVE WaitInv'
  BY <1>2, BecomesKeepsWait DEF Progress
<1>3. CASE StreamStarts \/ StreamSteps
  <2>1. UNCHANGED <<now, status, lastOpen, wait>>
    BY <1>3 DEF StreamStarts, StreamSteps, StreamPolls, StreamFetches, StreamEmits,
       StreamWakes, StreamBreaks, taskVars
  <2> QED BY <2>1 DEF WaitInv, TimeoutMissedNothing
<1>4. CASE UNCHANGED vars
  BY <1>4 DEF vars, WaitInv, TimeoutMissedNothing
<1> QED BY <1>1, <1>2, <1>3, <1>4, WaitStepKeepsWait, TickKeepsWait DEF Next

\* A 408 of universal_task_wait is out of date by one poll at most: the loop
\* polls once more after the deadline, so only a task that ended during that
\* last poll is missed, whatever the timeout and the poll interval are.
THEOREM TimeoutIsHonest == Spec => []TimeoutMissedNothing
<1>1. Spec => []WaitInv
  BY FollowTypeCorrect, WaitInit, WaitStep, PTL DEF Spec
<1>2. WaitInv => TimeoutMissedNothing
  BY DEF WaitInv
<1> QED BY <1>1, <1>2, PTL

-----------------------------------------------------------------------------
(* The stream *)

\* What the stream has been told so far.
Told == stream.emitted \cup stream.fetched

\* The stream has told the log up to the last fetch.  A terminal status stands,
\* so that the log has not grown since the fetch that followed it.
StreamInv ==
    /\ stream.last <= logged
    /\ ~stream.unread => 1..stream.last \subseteq Told
    /\ stream.at # "got" => stream.fetched = {}
    /\ retries = 0 /\ stream.at \in {"fetching", "got", "ended"}
       /\ TerminalForStream(stream.saw) => status \in Final
    /\ retries = 0 /\ stream.at \in {"got", "ended"}
       /\ TerminalForStream(stream.saw) => stream.last = logged
    /\ stream.at = "ended" => TerminalForStream(stream.saw)

\* The bridge logs nothing more in a status at which the stream stops.
StreamStopsAtFinal == \A s \in Statuses : TerminalForStream(s) => s \in Final

LEMMA StreamInit == Init => StreamInv
BY Hypotheses DEF Init, StreamInv, Told

LEMMA BecomesKeepsStream ==
    ASSUME TypeOK, StreamInv, NEW s \in Statuses, Becomes(s), UNCHANGED stream,
           (status \notin Final /\ retries' = retries) \/ retries' # 0
    PROVE  StreamInv'
BY DEF TypeOK, StreamInv, Told, Becomes, Stream

LEMMA StreamStepKeepsStream ==
    ASSUME TypeOK, StreamInv, StreamStopsAtFinal, StreamStarts \/ StreamSteps
    PROVE  StreamInv'
<1>1. UNCHANGED <<status, logged, retries>>
  BY DEF StreamStarts, StreamSteps, StreamPolls, StreamFetches, StreamEmits,
     StreamWakes, StreamBreaks, taskVars
<1> USE <1>1 DEF TypeOK, StreamInv, Told, Stream
<1>2. CASE StreamStarts
  BY <1>2 DEF StreamStarts
<1>3. CASE StreamPolls
  BY <1>3 DEF StreamPolls, StreamStopsAtFinal
<1>4. CASE StreamFetches
  <2>1. /\ stream.at = "fetching" /\ stream'.at = "got" /\ stream'.saw = stream.saw
        /\ stream'.fetched = InWindow /\ stream'.last = logged
        /\ stream'.emitted = stream.emitted
        /\ stream'.unread = (stream.unread \/ logged > stream.last + Window)
    BY <1>4 DEF StreamFetches
  <2>2. ASSUME ~stream'.unread PROVE 1..logged \subseteq stream.emitted \cup InWindow
    <3>1. ~stream.unread /\ ~(logged > stream.last + Window)
      BY <2>1, <2>2
    <3>2. stream.fetched = {}
      BY <2>1
    <3>3. 1..stream.last \subseteq stream.emitted
      BY <3>1, <3>2
    <3>4. logged <= stream.last + Window
      BY <3>1, Hypotheses
    <3>5. \A e \in 1..logged : e \in 1..stream.last \/ e \in InWindow
      BY <3>4, Hypotheses DEF InWindow
    <3> QED BY <3>3, <3>5
  <2> QED BY <2>1, <2>2
<1>5. CASE StreamEmits
  BY <1>5 DEF StreamEmits, Emitted
<1>6. CASE StreamWakes
  BY <1>6 DEF StreamWakes
<1>7. CASE StreamBreaks
  BY <1>7 DEF StreamBreaks
<1> QED BY <1>2, <1>3, <1>4, <1>5, <1>6, <1>7 DEF StreamSteps

LEMMA StreamStep ==
    ASSUME StreamStopsAtFinal
    PROVE  TypeOK /\ StreamInv /\ [Next]_vars => StreamInv'
<1> SUFFICES ASSUME TypeOK, StreamInv, [Next]_vars PROVE StreamInv'
  OBVIOUS
<1>1. CASE Revive
  <2>1. PICK s \in Statuses : Becomes(s)
    BY <1>1, RevivePicks
  <2>2. UNCHANGED stream /\ retries' # 0
    BY <1>1 DEF Revive, TypeOK
  <2> QED BY <2>1, <2>2, BecomesKeepsStream
<1>2. ASSUME NEW s \in Statuses, Progress(s) PROVE StreamInv'
  BY <1>2, BecomesKeepsStream DEF Progress
<1>3. CASE WaitStarts \/ WaitSteps \/ Tick
  <2>1. UNCHANGED <<status, logged, retries, stream>>
    BY <1>3 DEF WaitStarts, WaitSteps, WaitPolls, WaitFails, WaitReturns, WaitTimesOut,
       WaitSleeps, WaitWakes, taskVars, Tick
  <2> QED BY <2>1 DEF StreamInv, Told
<1>4. CASE UNCHANGED vars
  BY <1>4 DEF vars, StreamInv, Told
<1> QED BY <1>1, <1>2, <1>3, <1>4, StreamStepKeepsStream DEF Next

\* A stream that ends has told every event of the task's log, the ones logged
\* with its last change of status included, unless a retry reopened the task or
\* the log outgrew the window between two polls.  It rests on the order of the
\* two reads of _poll_task, the task first and its log second, and on a bridge
\* that logs nothing more once it reports a status the stream stops at.
THEOREM LogIsTold ==
    ASSUME StreamStopsAtFinal
    PROVE  Spec => []StreamTellsAll
<1>1. Spec => []StreamInv
  BY FollowTypeCorrect, StreamInit, StreamStep, PTL DEF Spec
<1>2. StreamInv => StreamTellsAll
  <2> SUFFICES ASSUME StreamInv, stream.at = "ended", ~stream.unread, retries = 0
               PROVE  1..logged \subseteq stream.emitted
    BY DEF StreamTellsAll
  <2>1. stream.last = logged /\ Told = stream.emitted
    BY DEF StreamInv, Told
  <2> QED BY <2>1 DEF StreamInv
<1> QED BY <1>1, <1>2, PTL

=============================================================================
