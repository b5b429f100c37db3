---------------------------- MODULE StreamRelay ----------------------------
(***************************************************************************)
(* What a completion stream carries: the events of an upstream, the chunks *)
(* an adapter of providers/ makes of them, and the frames the client gets  *)
(* from /v1/chat/completions, /v1/universal (server/routes.py) or, after a *)
(* translation, /v1/messages (server/anthropic_routes.py).                 *)
(*                                                                         *)
(* One stream, from its first chunk on; which upstream answers is the      *)
(* business of Serving.  Pieces of text and of arguments are numbered, so  *)
(* that a lost, repeated, reordered or misplaced one shows.  The adapters  *)
(* are "openai" (bytes passed through), "anthropic", "codex", "oneshot"    *)
(* (those that call first and then tell the answer in frames of their own: *)
(* Bedrock, the chat of the Agent Bridge) and "task" (the task stream of   *)
(* the Agent Bridge; when it tells what is TaskFollow's).                  *)
(*                                                                         *)
(* A route writes frames; a reader of server-sent events is given those    *)
(* that a blank line ends.  _sse_data and the [DONE] of server/routes.py   *)
(* end in a backslash and an n, twice, where the adapters and /v1/messages *)
(* end theirs in two newlines.                                             *)
(***************************************************************************)
EXTENDS Integers, SequencesExt

CONSTANTS
  None,      \* Python's None
  MaxCalls,  \* bound: tool calls
  MaxPieces, \* bound: blocks, calls and pieces of text and arguments
  MaxAhead   \* bound: events said and not yet read

ASSUME StreamRelayAssumption ==
  /\ MaxCalls \in Nat /\ MaxPieces \in Nat /\ MaxAhead \in Nat \ {0}
  /\ None \notin Nat

VARIABLES
  adapter, route, \* chosen when the stream was opened
  up,     \* upstream: how far its message is
  said,   \* upstream: its events, in order
  line,   \* the connection: "up", "closed" by upstream, "broken"
  cut,    \* the last event said has no blank line after it
  read,   \* how many events the adapter has read
  ad,     \* the adapter's locals
  tr,     \* the translator of /v1/messages
  at,     \* the relay: open, ended, failed (an error written), refused (500
          \* in the place of a stream), aborted (cut), left
  out,    \* the frames written to the client, in order
  given   \* how many of them a blank line ends: those its reader is given

vars == <<adapter, route, up, said, line, cut, read, ad, tr, at, out, given>>
upVars == <<up, said, line, cut>>

(* Messages with an Anthropic adapter are not relayed but passed natively.  *)
Pairs == {"openai", "anthropic", "codex", "oneshot", "task"} \X {"chat", "universal", "messages"}
           \ {<<"anthropic", "messages">>}

-----------------------------------------------------------------------------
(* Upstream.  Anthropic and Codex tell their message block by block; the    *)
(* others mix text and calls as they like.                                  *)

InBlocks == adapter \in {"anthropic", "codex"}
OwnFrames == adapter \in {"oneshot", "task"}

Event(kind, call, n) == [kind |-> kind, call |-> call, n |-> n]
Says(e, phase) ==
  /\ line = "up" /\ Len(said) < read + MaxAhead
  /\ e.kind \in {"open", "text", "call", "args"} => up.pieces < MaxPieces
  /\ said' = Append(said, e)
  /\ up' = [at     |-> phase,
            pieces |-> up.pieces + (IF e.kind \in {"open", "text", "call", "args"} THEN 1 ELSE 0),
            texts  |-> up.texts + (IF e.kind = "text" THEN 1 ELSE 0),
            calls  |-> up.calls + (IF e.kind = "call" THEN 1 ELSE 0),
            args   |-> IF e.kind = "args" THEN [up.args EXCEPT ![e.call] = @ + 1] ELSE up.args]
  /\ UNCHANGED <<adapter, route, line, cut, read, ad, tr, at, out, given>>

SayMessage ==
  /\ up.at = "begin"
  /\ Says(Event("message", None, None), "between")

OpenText ==
  /\ InBlocks /\ up.at = "between"
  /\ Says(Event("open", None, None), "text")

SayText ==
  /\ up.at = (IF InBlocks THEN "text" ELSE "between")
  /\ adapter = "oneshot" => up.texts = 0
  /\ Says(Event("text", None, up.texts + 1), up.at)

(* A call of an OpenAI-compatible upstream may come without an id (n = 0).  *)
OpenCall ==
  /\ ~OwnFrames /\ up.at = "between" /\ up.calls < MaxCalls
  /\ \E id \in IF adapter = "openai" THEN {0, 1} ELSE {1} :
       Says(Event("call", up.calls + 1, id), IF InBlocks THEN "call" ELSE up.at)

SayArgs ==
  /\ up.at = (IF InBlocks THEN "call" ELSE "between")
  /\ \E c \in 1 .. up.calls :
       /\ InBlocks => c = up.calls
       /\ Says(Event("args", c, up.args[c] + 1), up.at)

CloseBlock ==
  /\ InBlocks /\ up.at \in {"text", "call"}
  /\ Says(Event("close", None, None), "between")

(* Why the message ends; a message with calls may still end for its length. *)
Reasons == IF adapter = "task" THEN {"stop"}
           ELSE {"length"} \cup IF up.calls = 0 THEN {"stop"} ELSE {"tool_calls"}

SayReason ==
  /\ adapter # "codex" /\ up.at = "between"
  /\ \E reason \in Reasons : Says(Event("reason", None, reason), "reason")

SayStop ==
  IF adapter = "codex"
  THEN up.at = "between" /\ \E reason \in Reasons : Says(Event("stop", None, reason), "over")
  ELSE up.at = "reason" /\ Says(Event("stop", None, None), "over")

SayError ==
  /\ InBlocks /\ up.at # "over"
  /\ Says(Event("error", None, None), "over")

(* The connection ends, in good order or not; what is under way may be cut  *)
(* or lost.  An answer told in frames of the gateway's own is complete, and *)
(* a task stream breaks where it awaits a poll, all it said being read.     *)
HangUp ==
  /\ line = "up" /\ line' = "closed"
  /\ OwnFrames => up.at = "over"
  /\ \/ UNCHANGED cut
     \/ read < Len(said) /\ ~OwnFrames /\ cut' = TRUE
  /\ UNCHANGED <<adapter, route, up, said, read, ad, tr, at, out, given>>

Break ==
  /\ line = "up" /\ adapter # "oneshot" /\ line' = "broken"
  /\ adapter = "task" => up.at = "between" /\ up.texts > 0 /\ read = Len(said)
  /\ UNCHANGED <<adapter, route, up, said, cut, read, ad, tr, at, out, given>>

-----------------------------------------------------------------------------
(* The adapters: the chunks made of an event, and the locals after it.      *)

Frame(kind, index, call, n) == [kind |-> kind, index |-> index, call |-> call, n |-> n]
Role     == Frame("role", None, None, None)
Done     == Frame("done", None, None, None)
Error    == Frame("error", None, None, None)
Finish(reason) == Frame("finish", None, None, reason)

NewAdapter == [role |-> FALSE, block |-> "text", index |-> 0, calls |-> 0, reason |-> "stop"]
IfNoRole   == IF ad.role THEN <<>> ELSE <<Role>>
Result(chunks, locals) == [chunks |-> chunks, ad |-> locals]

(* The definitions named Bad... are slips the properties must notice.        *)
(* Arguments go to the call opened last; a delta of another kind inside a   *)
(* call's block, or an error event, makes no chunk.                         *)
BadFromAnthropicCall(e) ==
  Result(IfNoRole \o <<Frame("open", ad.index, e.call, e.n)>>,
         [ad EXCEPT !.role = TRUE, !.block = "call", !.calls = @ + 1])
FromAnthropicCall(e) ==
  Result(IfNoRole \o <<Frame("open", ad.calls, e.call, e.n)>>,
         [ad EXCEPT !.role = TRUE, !.block = "call", !.index = ad.calls, !.calls = @ + 1])

FromAnthropic(e) ==
  CASE e.kind = "open"  -> Result(<<>>, [ad EXCEPT !.block = "text"])
    [] e.kind = "call"  -> FromAnthropicCall(e)
    [] e.kind = "args" /\ ad.block = "call" ->
         Result(<<Frame("args", ad.index, e.call, e.n)>>, ad)
    [] e.kind = "text"  ->
         Result(IfNoRole \o <<Frame("text", None, None, e.n)>>, [ad EXCEPT !.role = TRUE])
    [] e.kind = "close" -> Result(<<>>, [ad EXCEPT !.block = "text"])
    [] e.kind = "reason" -> Result(<<>>, [ad EXCEPT !.reason = e.n])
    [] e.kind = "stop"  ->
         Result(IfNoRole \o <<Finish(ad.reason), Done>>, [ad EXCEPT !.role = TRUE])
    [] OTHER            -> Result(<<>>, ad)

(* Any call makes the reason "tool_calls", a length limit or not.           *)
FromCodex(e) ==
  CASE e.kind = "open"  -> Result(<<Role>>, ad)
    [] e.kind = "call"  ->
         Result(<<Frame("open", ad.calls, e.call, e.n)>>,
                [ad EXCEPT !.index = ad.calls, !.calls = @ + 1])
    [] e.kind = "text"  -> Result(<<Frame("text", None, None, e.n)>>, ad)
    [] e.kind = "args"  -> Result(<<Frame("args", ad.index, e.call, e.n)>>, ad)
    [] e.kind = "stop"  ->
         Result(<<Finish(IF ad.calls > 0 THEN "tool_calls" ELSE e.n), Done>>, ad)
    [] e.kind = "error" -> Result(<<Error, Done>>, ad)
    [] OTHER            -> Result(<<>>, ad)

(* The chunks upstream, or the adapter itself, wrote in OpenAI's form.      *)
PassedThrough(e) ==
  Result(CASE e.kind = "message" -> <<Role>>
           [] e.kind = "call"    -> <<Frame("open", e.call - 1, e.call, e.n)>>
           [] e.kind = "text"    -> <<Frame("text", None, None, e.n)>>
           [] e.kind = "args"    -> <<Frame("args", e.call - 1, e.call, e.n)>>
           [] e.kind = "reason"  -> <<Finish(e.n)>>
           [] OTHER              -> <<Done>>, ad)

Adapted(e) ==
  CASE adapter = "anthropic" -> FromAnthropic(e)
    [] adapter = "codex"     -> FromCodex(e)
    [] OTHER                 -> PassedThrough(e)

(* What an adapter says of its own when upstream hangs up without an end.   *)
AtEof == IF adapter = "anthropic" THEN IfNoRole \o <<Finish(ad.reason), Done>> ELSE <<>>

-----------------------------------------------------------------------------
(* The translator of /v1/messages: OpenAIAnthropicStreamTranslator and the  *)
(* loop around it.  `callAt` is the block of a call, by the index of the     *)
(* chunks that tell it.                                                      *)

NewTranslator == [next |-> 0, textAt |-> None, callAt |-> <<>>, reason |-> "stop",
                  done |-> FALSE, fails |-> FALSE]

OpenBlock(t, call) == Frame("open", t.next, call, None)

With(f, x, y) == [i \in DOMAIN f \cup {x} |-> IF i = x THEN y ELSE f[i]]

BadAcceptText(t, chunk) ==
  [frames |-> <<OpenBlock(t, None), Frame("text", t.next, None, chunk.n)>>,
   t |-> [t EXCEPT !.textAt = t.next, !.next = @ + 1]]
AcceptText(t, chunk) ==
  IF t.textAt # None
  THEN [frames |-> <<Frame("text", t.textAt, None, chunk.n)>>, t |-> t]
  ELSE [frames |-> <<OpenBlock(t, None), Frame("text", t.next, None, chunk.n)>>,
        t |-> [t EXCEPT !.textAt = t.next, !.next = @ + 1]]

(* A call is opened once, by the first chunk of its index.  One without an   *)
(* id needs an id made of the time, and `time` is not imported: the         *)
(* generator raises.                                                        *)
AcceptCall(t, chunk) ==
  IF chunk.index \in DOMAIN t.callAt THEN [frames |-> <<>>, t |-> t]
  ELSE IF chunk.n = 0 THEN [frames |-> <<>>, t |-> [t EXCEPT !.fails = TRUE]]
  ELSE [frames |-> <<OpenBlock(t, chunk.call)>>,
        t |-> [t EXCEPT !.callAt = With(@, chunk.index, t.next), !.next = @ + 1]]

AcceptArgs(t, chunk) ==
  [frames |-> IF chunk.index \in DOMAIN t.callAt
              THEN <<Frame("args", t.callAt[chunk.index], chunk.call, chunk.n)>> ELSE <<>>,
   t |-> t]

Accept(t, chunk) ==
  CASE chunk.kind = "text"   -> AcceptText(t, chunk)
    [] chunk.kind = "open"   -> AcceptCall(t, chunk)
    [] chunk.kind = "args"   -> AcceptArgs(t, chunk)
    [] chunk.kind = "finish" -> [frames |-> <<>>, t |-> [t EXCEPT !.reason = chunk.n]]
    [] chunk.kind = "done"   -> [frames |-> <<>>, t |-> [t EXCEPT !.done = TRUE]]
    [] OTHER                 -> [frames |-> <<>>, t |-> t]

AcceptNext(acc, chunk) ==
  LET next == Accept(acc.t, chunk)
  IN  [frames |-> acc.frames \o next.frames, t |-> next.t]

AcceptAll(chunks) == FoldLeft(AcceptNext, [frames |-> <<>>, t |-> tr], chunks)

(* The text block is closed first, then those of the calls from the lowest   *)
(* up; a message without any block gets an empty one.                       *)
CloseFrame(i) == Frame("close", i, None, None)
Ascending(S) ==
  [i \in 1 .. Cardinality(S) |-> CHOOSE b \in S : Cardinality({c \in S : c < b}) = i - 1]

CloseBlocks(t) ==
  LET calls == {t.callAt[i] : i \in DOMAIN t.callAt}
  IN  IF t.next = 0 THEN <<OpenBlock(t, None), CloseFrame(0)>>
      ELSE (IF t.textAt # None THEN <<CloseFrame(t.textAt)>> ELSE <<>>)
           \o [i \in 1 .. Cardinality(calls) |-> CloseFrame(Ascending(calls)[i])]

BadFinishEvents(t) == <<Finish(t.reason), Frame("stop", None, None, None)>>
FinishEvents(t) == CloseBlocks(t) \o <<Finish(t.reason), Frame("stop", None, None, None)>>

-----------------------------------------------------------------------------
(* The relay.                                                               *)

(* The last event said, left without a blank line, where the bytes of       *)
(* upstream are passed on.                                                  *)
Unended == adapter = "openai" /\ cut /\ read + 1 = Len(said)

(* Frames are written; a reader of events is given all up to the last that  *)
(* a blank line ends.  No frame of /v1/universal ends in one.               *)
Write(frames, ending) ==
  /\ out' = out \o frames \o ending
  /\ given' = IF route = "universal" \/ (route = "chat" /\ Unended) \/ out' = out
              THEN given ELSE Len(out')

(* Passes chunks on to the client; `last`: the adapter's generator is done. *)
(* On /v1/universal every chunk is wrapped, and a [DONE] of its own ends     *)
(* what the adapter ended.                                                  *)
Relay(chunks, last) ==
  IF route = "messages"
  THEN LET accepted == AcceptAll(chunks)
           over == accepted.t.done \/ last
       IN  /\ tr' = accepted.t
           /\ Write(accepted.frames,
                    IF over /\ ~accepted.t.fails THEN FinishEvents(accepted.t) ELSE <<>>)
           /\ at' = CASE accepted.t.fails -> "aborted"
                      [] over /\ ~accepted.t.fails -> "ended"
                      [] OTHER -> at
  ELSE /\ Write(chunks, IF last /\ route = "universal" THEN <<Done>> ELSE <<>>)
       /\ at' = IF last THEN "ended" ELSE at
       /\ UNCHANGED tr

(* A frame without its blank line is dropped by the Codex adapter and by    *)
(* the translator's loop, flushed by the Anthropic adapter, and bytes to    *)
(* the routes that pass bytes.                                              *)
Dropped == /\ cut /\ read + 1 = Len(said)
           /\ adapter = "codex" \/ (adapter = "openai" /\ route = "messages")

(* Only the Anthropic adapter stops reading at the end of the message.       *)
Returns(e) == adapter = "anthropic" /\ e.kind = "stop"

ReadEvent ==
  /\ at = "open" /\ read < Len(said)
  /\ read' = read + 1
  /\ LET adapted == IF Dropped THEN Result(<<>>, ad) ELSE Adapted(said[read + 1])
     IN  /\ ad' = adapted.ad
         /\ Relay(adapted.chunks, Returns(said[read + 1]))
  /\ UNCHANGED <<adapter, route>> /\ UNCHANGED upVars

BadSeeEof ==
  /\ at = "open" /\ line = "closed" /\ read = Len(said) /\ ~cut
  /\ Relay(AtEof, TRUE)
  /\ UNCHANGED <<adapter, route, read, ad>> /\ UNCHANGED upVars
BadSeeEofEarly ==
  /\ at = "open" /\ line # "up"
  /\ Relay(AtEof, TRUE)
  /\ UNCHANGED <<adapter, route, read, ad>> /\ UNCHANGED upVars
SeeEof ==
  /\ at = "open" /\ line = "closed" /\ read = Len(said)
  /\ Relay(AtEof, TRUE)
  /\ UNCHANGED <<adapter, route, read, ad>> /\ UNCHANGED upVars

(* The read raises, whatever was under way.  Before the first chunk there   *)
(* is no stream yet, and the answer is a 500.  After it the routes that     *)
(* wrap the stream write an error and a [DONE], which no blank line ends;   *)
(* the translated one is cut.                                               *)
SeeBreak ==
  /\ at = "open" /\ line = "broken"
  /\ IF route = "messages"  THEN at' = "aborted" /\ UNCHANGED out
     ELSE IF out = <<>>     THEN at' = "refused" /\ UNCHANGED out
     ELSE at' = "failed" /\ out' = out \o <<Error, Done>>
  /\ UNCHANGED <<adapter, route, read, ad, tr, given>> /\ UNCHANGED upVars

ClientLeaves ==
  /\ at = "open" /\ at' = "left"
  /\ UNCHANGED <<adapter, route, read, ad, tr, out, given>> /\ UNCHANGED upVars

Init ==
  /\ \E pair \in Pairs : adapter = pair[1] /\ route = pair[2]
  /\ up = [at |-> IF adapter = "codex" THEN "between" ELSE "begin", pieces |-> 0, texts |-> 0, calls |-> 0, args |-> [c \in 1 .. MaxCalls |-> 0]]
  /\ said = <<>> /\ line = "up" /\ cut = FALSE /\ read = 0
  /\ ad = NewAdapter /\ tr = NewTranslator /\ at = "open"
  /\ out = IF route = "messages" THEN <<Frame("start", None, None, None)>> ELSE <<>>
  /\ given = Len(out)

Upstream ==
  \/ SayMessage \/ OpenText \/ SayText \/ OpenCall \/ SayArgs \/ CloseBlock
  \/ SayReason \/ SayStop \/ SayError \/ HangUp \/ Break

Serve == ReadEvent \/ SeeEof \/ SeeBreak

Next == Upstream \/ Serve \/ ClientLeaves

(* The event loop resumes the generator that has something to read; neither *)
(* upstream nor the client owes anything.                                   *)
Spec == Init /\ [][Next]_vars /\ WF_vars(Serve)

-----------------------------------------------------------------------------
(* Properties.                                                              *)

(* The state has the shape the code gives it, and the adapter never reads   *)
(* more than was said.                                                      *)
TypeOK ==
  /\ <<adapter, route>> \in Pairs
  /\ line \in {"up", "closed", "broken"} /\ cut \in BOOLEAN
  /\ at \in {"open", "ended", "failed", "refused", "aborted", "left"}
  /\ given \in 0 .. Len(out)
  /\ read \in 0 .. Len(said)
  /\ up.pieces \in 0 .. MaxPieces /\ up.calls \in 0 .. MaxCalls
  /\ ad.calls \in 0 .. MaxCalls
  /\ tr.next \in 0 .. MaxCalls + 1
  /\ tr.textAt = None \/ tr.textAt < tr.next
  /\ \A i \in DOMAIN tr.callAt : tr.callAt[i] < tr.next

Positions(seq, kind) == {i \in DOMAIN seq : seq[i].kind = kind}
(* The pieces at the positions S of a sequence are numbered 1, 2, ...       *)
Numbered(seq, S) == \A i \in S : seq[i].n = Cardinality({j \in S : j <= i})
(* The pieces of arguments the client puts together at an index.            *)
ArgsAt(index) == {i \in Positions(out, "args") : out[i].index = index}
Opened == {i \in Positions(out, "open") : out[i].call # None}

(* Whatever the adapter, the route and the interleaving of text and calls,  *)
(* the frames written hold the pieces of the text in their order, and those *)
(* of the arguments of each call in their order, after the call they belong *)
(* to and with those of no other call.  What a reader of events is given    *)
(* begins as what is written does, so it reads nothing out of place.        *)
PiecesInOrder ==
  /\ Numbered(out, Positions(out, "text"))
  /\ \A i, j \in Opened : i # j => out[i].index # out[j].index /\ out[i].call # out[j].call
  /\ \A i \in Positions(out, "args") : \E j \in Opened :
       j < i /\ out[j].index = out[i].index /\ out[j].call = out[i].call
  /\ \A j \in Opened : Numbered(out, ArgsAt(out[j].index))

(* A client of /v1/messages gets one message_start, first; blocks numbered  *)
(* 0, 1, ... in the order they are opened; deltas only for a block that is  *)
(* open and of their kind; and by the end each block closed once, before    *)
(* the one message_delta and the one message_stop.                          *)
BlocksWellFormed ==
  route = "messages" =>
    LET opens  == Positions(out, "open")
        closes == Positions(out, "close")
        callOf(f) == IF f.kind = "text" THEN None ELSE f.call
    IN  /\ Positions(out, "start") = {1}
        /\ \A i \in opens : out[i].index = Cardinality({j \in opens : j < i})
        /\ \A i \in DOMAIN out : out[i].kind \in {"text", "args", "close"} =>
             \E j \in opens :
               /\ j < i /\ out[j].index = out[i].index
               /\ out[i].kind # "close" => out[j].call = callOf(out[i])
        /\ \A i \in closes, j \in DOMAIN out :
             i < j => out[j].kind \in {"close", "finish", "stop"}
        /\ at = "ended" =>
             /\ opens # {}
             /\ \A i \in opens : \E j \in closes : out[j].index = out[i].index
             /\ \A i, j \in closes : out[i].index = out[j].index => i = j
             /\ Positions(out, "finish") = {Len(out) - 1}
             /\ Positions(out, "stop") = {Len(out)}

Written(kind) == Positions(out, kind) # {}
Said(kind) == Positions(said, kind) # {}

(* The frame that ends the message comes once, and no content after it (the  *)
(* stream may still fail, and an error be written).                         *)
FinishIsFinal ==
  \A i \in Positions(out, "finish"), j \in DOMAIN out :
    i < j => out[j].kind \in {"done", "error", "stop"}

(* The reason written is the one upstream gave, but for a Codex message     *)
(* with calls, which ends in "tool_calls" when it was cut short.            *)
ReasonIsWritten ==
  \A f \in Positions(out, "finish"), i \in DOMAIN said :
    said[i].kind \in {"reason", "stop"} /\ said[i].n # None =>
      \/ out[f].n = said[i].n
      \/ adapter = "codex" /\ up.calls > 0 /\ out[f].n = "tool_calls"
      \/ cut

(* What is written and not given to a reader of events, but on              *)
(* /v1/universal: the error after a break, and a frame upstream itself left *)
(* unended as the last thing it said.                                       *)
OnlyEndsWithheld ==
  \A i \in DOMAIN out : i > given =>
    \/ route = "universal"
    \/ route = "chat" /\ at = "failed" /\ out[i].kind \in {"error", "done"}
    \/ route = "chat" /\ adapter = "openai" /\ cut /\ i = Len(out) /\ read = Len(said)

(* An end is written after everything, and nothing follows it: if upstream  *)
(* ended its message, every piece of it and the reason were written; an end *)
(* that is made up is made up only after upstream hung up or reported an    *)
(* error, never because the connection broke; and whoever reads events on   *)
(* another route than /v1/universal is given all of that.                   *)
EndIsComplete ==
  /\ FinishIsFinal /\ ReasonIsWritten /\ OnlyEndsWithheld
  /\ Written("finish") =>
       /\ Said("stop") =>
            /\ Cardinality(Positions(out, "text")) = up.texts
            /\ {out[i].call : i \in Opened} = 1 .. up.calls
            /\ \A i \in Opened : Cardinality(ArgsAt(out[i].index)) = up.args[out[i].call]
       /\ \/ Said("reason") \/ Said("stop")
          \/ adapter = "anthropic" /\ line = "closed"
          \/ route = "messages" /\ (line = "closed" \/ Said("error"))

(* When the connection is over, the stream of the client ends.              *)
StreamIsClosed == (line # "up") ~> (at # "open")
=============================================================================
