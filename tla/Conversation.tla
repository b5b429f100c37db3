---------------------------- MODULE Conversation ----------------------------
(***************************************************************************)
(* What an adapter sends upstream of the conversation it is given: the     *)
(* translation of /v1/messages (server/anthropic_routes.py), of            *)
(* AnthropicCompatibleProvider, of OpenAICodexProvider and of              *)
(* BedrockConverseProvider.                                                *)
(*                                                                         *)
(* A message of a conversation in OpenAI's form has a role, a piece of     *)
(* text or None, the ids of the tool calls made in it and the id of the    *)
(* call it is the result of.  A turn in Anthropic's form has a role and    *)
(* blocks of text, calls and results.  The contents of texts, arguments    *)
(* and results are left out: a piece is a number.                          *)
(***************************************************************************)
EXTENDS Access, SequencesExt

CONSTANTS
  Cleaned,       \* ids of tool calls -> what is left of them in Anthropic's alphabet
  Conversations, \* what clients may send, in OpenAI's form
  TurnLists      \* what clients may send, in Anthropic's form

Message(role, text, calls, of) == [role |-> role, text |-> text, calls |-> calls, of |-> of]
Block(kind, id, piece) == [kind |-> kind, id |-> id, piece |-> piece]

(* What the two APIs allow: only the assistant calls tools and only its      *)
(* messages may be without text; a result names the id of a call.           *)
IsMessage(m) ==
  /\ m = Message(m.role, m.text, m.calls, m.of)
  /\ m.role \in {"system", "user", "assistant", "tool"}
  /\ m.calls \in Seq(DOMAIN Cleaned)
  /\ m.role # "assistant" => m.calls = <<>> /\ m.text # None
  /\ m.role = "tool" => m.of \in DOMAIN Cleaned
IsConversation(conv) == conv \in Seq(Range(conv)) /\ \A i \in DOMAIN conv : IsMessage(conv[i])

IsBlock(b) ==
  /\ b = Block(b.kind, b.id, b.piece)
  /\ b.kind \in {"text", "call", "result"}
  /\ b.kind = "text" => b.id = None /\ b.piece # None
  /\ b.kind = "call" => b.id \in DOMAIN Cleaned /\ b.piece = None
  /\ b.kind = "result" => b.id \in DOMAIN Cleaned /\ b.piece # None
IsTurn(turn) ==
  /\ turn.role \in {"user", "assistant"}
  /\ turn.blocks \in Seq(Range(turn.blocks))
  /\ \A i \in DOMAIN turn.blocks :
       /\ IsBlock(turn.blocks[i])
       /\ turn.blocks[i].kind = "call" => turn.role = "assistant"
       /\ turn.blocks[i].kind = "result" => turn.role = "user"
IsTurnList(turns) == turns \in Seq(Range(turns)) /\ \A i \in DOMAIN turns : IsTurn(turns[i])

ASSUME ConversationAssumption ==
  /\ \A conv \in Conversations : IsConversation(conv)
  /\ \A turns \in TurnLists : IsTurnList(turns)
  /\ None \notin DOMAIN Cleaned
  /\ \A id \in DOMAIN Cleaned : None # <<Cleaned[id]>> /\ None # <<Cleaned[id], id>>

TextBlock(text) == IF text = None THEN <<>> ELSE <<Block("text", None, text)>>
CallBlocks(ids) == [i \in DOMAIN ids |-> Block("call", ids[i], None)]

(* The blocks of some kinds, in their order.                                *)
OfKind(blocks, kinds) ==
  FlattenSeq([i \in DOMAIN blocks |-> IF blocks[i].kind \in kinds THEN <<blocks[i]>> ELSE <<>>])

(* The pieces of a text are joined; one piece stands for them.              *)
TextOf(blocks) ==
  LET texts == OfKind(blocks, {"text"})
  IN  IF texts = <<>> THEN None ELSE Head(texts).piece

(* /v1/messages: a turn becomes the results in it and then one message with *)
(* its text and its calls.                                                  *)
ResultsOf(turn) ==
  LET results == OfKind(turn.blocks, {"result"})
  IN  [i \in DOMAIN results |-> Message("tool", results[i].piece, <<>>, results[i].id)]
IdsOf(turn) ==
  LET calls == OfKind(turn.blocks, {"call"}) IN [i \in DOMAIN calls |-> calls[i].id]

FromAnthropicTurn(turn) ==
  LET text    == TextOf(turn.blocks)
      message == Message(turn.role, text, IdsOf(turn), None)
  IN  ResultsOf(turn) \o
        IF IdsOf(turn) # <<>> \/ text # None \/ turn.role = "assistant"
        THEN <<message>> ELSE <<>>

FromAnthropicTurns(turns) ==
  FlattenSeq([i \in DOMAIN turns |-> FromAnthropicTurn(turns[i])])

-----------------------------------------------------------------------------
(* AnthropicCompatibleProvider.                                             *)

(* An id seen before keeps its name; a new one is cleaned, and told apart by *)
(* a digest of itself when its name is taken.  (BadNormalizedId is a slip   *)
(* the property must notice.)                                               *)
BadNormalizedId(names, id) == IF id \in DOMAIN names THEN names[id] ELSE <<Cleaned[id]>>
NormalizedId(names, id) ==
  IF id \in DOMAIN names THEN names[id]
  ELSE IF \E other \in DOMAIN names : names[other] = <<Cleaned[id]>>
  THEN <<Cleaned[id], id>> ELSE <<Cleaned[id]>>

Named(names, id) ==
  [other \in DOMAIN names \cup {id} |-> IF other = id THEN NormalizedId(names, id) ELSE names[other]]
AllNamed(names, ids) == FoldLeft(Named, names, ids)
Renamed(names, blocks) ==
  [i \in DOMAIN blocks |-> IF blocks[i].id = None THEN blocks[i]
                           ELSE Block(blocks[i].kind, names[blocks[i].id], blocks[i].piece)]

SeenCalls(conv) ==
  UNION {ToSet(conv[i].calls) : i \in {j \in DOMAIN conv : conv[j].role = "assistant"}}

(* A result of no call is dropped, unless the conversation has no call.     *)
Orphaned(conv, message) ==
  /\ message.role = "tool"
  /\ SeenCalls(conv) # {} /\ message.of \notin SeenCalls(conv)

(* Results follow each other in one user message; a message of a single     *)
(* text is a string, to which nothing is added.                             *)
WithResult(out, block) ==
  IF /\ out # <<>> /\ Last(out).role = "user"
     /\ ~(Len(Last(out).blocks) = 1 /\ Head(Last(out).blocks).kind = "text")
  THEN Front(out) \o <<[Last(out) EXCEPT !.blocks = Append(@, block)]>>
  ELSE Append(out, [role |-> "user", blocks |-> <<block>>])

(* What one message adds to the system text, the messages and the names.    *)
AddMessage(conv, acc, m) ==
  IF m.role = "system"
  THEN [acc EXCEPT !.system = IF m.text = None THEN @ ELSE Append(@, m.text)]
  ELSE IF m.role = "tool"
  THEN LET names == Named(acc.names, m.of)
       IN  IF Orphaned(conv, m) THEN acc
           ELSE [acc EXCEPT !.names = names,
                            !.out = WithResult(@, Block("result", names[m.of], m.text))]
  ELSE IF m.role = "assistant"
  THEN LET names  == AllNamed(acc.names, m.calls)
           blocks == Renamed(names, TextBlock(m.text) \o CallBlocks(m.calls))
       IN  IF blocks = <<>> THEN acc
           ELSE [acc EXCEPT !.names = names,
                            !.out = Append(@, [role |-> "assistant", blocks |-> blocks])]
  ELSE [acc EXCEPT !.out = Append(@, [role |-> "user", blocks |-> TextBlock(m.text)])]

ToAnthropic(conv) ==
  FoldLeft(LAMBDA acc, m : AddMessage(conv, acc, m),
           [system |-> <<>>, out |-> <<>>, names |-> <<>>], conv)

-----------------------------------------------------------------------------
(* The other adapters.                                                      *)

(* Codex: of several system messages the last is the instructions.          *)
CodexItems(m) ==
  IF m.role = "system" THEN <<>>
  ELSE IF m.role = "tool" THEN <<Block("result", m.of, m.text)>>
  ELSE TextBlock(m.text) \o CallBlocks(m.calls)
ToCodex(conv) ==
  LET systems == {i \in DOMAIN conv : conv[i].role = "system"}
  IN  [system |-> IF systems = {} THEN <<>> ELSE <<conv[Max(systems)].text>>,
       out |-> [i \in DOMAIN conv |-> [role |-> conv[i].role, blocks |-> CodexItems(conv[i])]]]

(* Bedrock: texts only; a result is a text of the user, a call is lost.     *)
BedrockMessage(m) ==
  IF m.text = None \/ m.role = "system" THEN <<>>
  ELSE <<[role |-> IF m.role = "assistant" THEN "assistant" ELSE "user",
          blocks |-> TextBlock(m.text)]>>
ToBedrock(conv) ==
  [system |-> FlattenSeq([i \in DOMAIN conv |->
                IF conv[i].role = "system" /\ conv[i].text # None THEN <<conv[i].text>> ELSE <<>>]),
   out |-> FlattenSeq([i \in DOMAIN conv |-> BedrockMessage(conv[i])])]

-----------------------------------------------------------------------------
(* What a conversation says, whatever its form, and when it is kept.        *)

Says(m) ==
  IF m.role = "system" THEN <<>>
  ELSE IF m.role = "tool" THEN <<Block("result", m.of, m.text)>>
  ELSE TextBlock(m.text) \o CallBlocks(m.calls)
Contents(conv) == FlattenSeq([i \in DOMAIN conv |-> Says(conv[i])])
Instructions(conv) ==
  FlattenSeq([i \in DOMAIN conv |-> IF conv[i].role = "system" THEN <<conv[i].text>> ELSE <<>>])

Blocks(out) == FlattenSeq([i \in DOMAIN out |-> out[i].blocks])

(* The same blocks in the same order, with ids renamed one to one.          *)
SameUpToNames(a, b) ==
  /\ Len(a) = Len(b)
  /\ \A i \in DOMAIN a : a[i].kind = b[i].kind /\ a[i].piece = b[i].piece
  /\ \A i, j \in DOMAIN a : a[i].id = a[j].id <=> b[i].id = b[j].id

(* What is said but for the results of no call.                             *)
WithoutOrphans(conv) ==
  FlattenSeq([i \in DOMAIN conv |-> IF Orphaned(conv, conv[i]) THEN <<>> ELSE Says(conv[i])])

AnthropicKeeps(conv) ==
  /\ SameUpToNames(WithoutOrphans(conv), Blocks(ToAnthropic(conv).out))
  /\ ToAnthropic(conv).system = Instructions(conv)
CodexKeeps(conv) == Blocks(ToCodex(conv).out) = Contents(conv)
Pieces(blocks) == [i \in DOMAIN blocks |-> blocks[i].piece]
BedrockKeeps(conv) ==
  /\ Pieces(Blocks(ToBedrock(conv).out)) = Pieces(OfKind(Contents(conv), {"text", "result"}))
  /\ ToBedrock(conv).system = Instructions(conv)

(* Every result answers a call made before it.                              *)
ResultsAnswer(blocks) ==
  \A i \in DOMAIN blocks : blocks[i].kind = "result" =>
    \E j \in 1 .. i - 1 : blocks[j].kind = "call" /\ blocks[j].id = blocks[i].id

(* The translation of /v1/messages moves the results of a turn before its   *)
(* text, and moves nothing else.                                            *)
TurnsKept(turns) ==
  LET before == Blocks(turns)
      after  == Contents(FromAnthropicTurns(turns))
  IN  /\ OfKind(after, {"result"}) = OfKind(before, {"result"})
      /\ OfKind(after, {"call"}) = OfKind(before, {"call"})
      /\ ResultsAnswer(before) => ResultsAnswer(after)

Kept(adapter, conv) ==
  /\ adapter = "anthropic" =>
       /\ AnthropicKeeps(conv)
       /\ ResultsAnswer(Contents(conv)) => ResultsAnswer(Blocks(ToAnthropic(conv).out))
  /\ adapter = "codex"   => CodexKeeps(conv)
  /\ adapter = "bedrock" => BedrockKeeps(conv)

(* Which adapters keep whatever a client may send: in OpenAI's form, and in *)
(* Anthropic's when it is translated first.                                 *)
Adapters == {"openai", "anthropic", "codex", "bedrock", "agent", "cli", "local"}
KeepsConversations ==
  [adapter \in Adapters |-> \A conv \in Conversations : Kept(adapter, conv)]
KeepsTurns ==
  [adapter \in Adapters |->
     \A turns \in TurnLists : TurnsKept(turns) /\ Kept(adapter, FromAnthropicTurns(turns))]
=============================================================================
