------------------------- MODULE StreamRelay_proofs -------------------------
(***************************************************************************)
(* Theorems of StreamRelay, for every number of calls, pieces and events.  *)
(*                                                                         *)
(* RelayInv is the inductive invariant.  What upstream has said is numbered *)
(* and in a legal order (UpInv); the adapter knows which call it is at      *)
(* (AdapterInv); the client has been told the pieces of the first `Taken`   *)
(* events, no more and no less (ToldSoFar); and on /v1/messages the frames  *)
(* make the blocks the translator remembers (MessagesInv).  EndInv adds     *)
(* what must have been read before an end is told.                          *)
(***************************************************************************)
EXTENDS StreamRelay, FiniteSetTheorems, SequenceTheorems, TLAPS

USE StreamRelayAssumption

-----------------------------------------------------------------------------
(* Counting positions.                                                      *)

Count(S, n) == Cardinality(S \cap (1 .. n))

LEMMA CountNext ==
  ASSUME NEW S, NEW n \in Nat
  PROVE  /\ IsFiniteSet(S \cap (1 .. n)) /\ Count(S, n) \in Nat /\ Count(S, 0) = 0
         /\ Count(S, n + 1) = IF n + 1 \in S THEN Count(S, n) + 1 ELSE Count(S, n)
<1>1. IsFiniteSet(1 .. n) BY FS_Interval
<1>2. IsFiniteSet(S \cap (1 .. n)) BY <1>1, FS_Subset
<1>3. Count(S, n) \in Nat BY <1>2, FS_CardinalityType DEF Count
<1>4. Count(S, 0) = 0
  <2>1. S \cap (1 .. 0) = {} OBVIOUS
  <2> QED BY <2>1, FS_EmptySet DEF Count
<1>5. CASE n + 1 \in S
  <2>1. S \cap (1 .. n + 1) = (S \cap (1 .. n)) \cup {n + 1} BY <1>5
  <2>2. n + 1 \notin S \cap (1 .. n) OBVIOUS
  <2> QED BY <1>2, <1>3, <1>4, <1>5, <2>1, <2>2, FS_AddElement DEF Count
<1>6. CASE n + 1 \notin S
  <2>1. S \cap (1 .. n + 1) = S \cap (1 .. n) BY <1>6
  <2> QED BY <1>2, <1>3, <1>4, <1>6, <2>1 DEF Count
<1> QED BY <1>5, <1>6

(* The positions a list has.                                                *)
LEMMA CountAll ==
  ASSUME NEW n \in Nat, NEW S \in SUBSET (1 .. n)
  PROVE  IsFiniteSet(S) /\ Cardinality(S) \in Nat /\ Cardinality(S) = Count(S, n)
<1>1. S \cap (1 .. n) = S OBVIOUS
<1> QED BY <1>1, CountNext DEF Count

LEMMA CountNew ==
  ASSUME NEW n \in Nat, NEW S \in SUBSET (1 .. n)
  PROVE  Cardinality(S \cup {n + 1}) = Cardinality(S) + 1
<1>1. n + 1 \notin S OBVIOUS
<1> QED BY <1>1, CountAll, FS_AddElement

LEMMA PositionsAppend ==
  ASSUME NEW R, NEW o \in Seq(R), NEW f \in R, NEW kind
  PROVE  /\ Positions(o, kind) \subseteq 1 .. Len(o) /\ Len(o) \in Nat
         /\ Len(Append(o, f)) = Len(o) + 1
         /\ \A i \in 1 .. Len(o) : Append(o, f)[i] = o[i]
         /\ Append(o, f)[Len(o) + 1] = f
         /\ Positions(Append(o, f), kind) =
              IF f.kind = kind THEN Positions(o, kind) \cup {Len(o) + 1} ELSE Positions(o, kind)
<1>1. Append(o, f) \in Seq(R) /\ Len(Append(o, f)) = Len(o) + 1 /\ Len(o) \in Nat
  OBVIOUS
<1>2. DOMAIN o = 1 .. Len(o) /\ DOMAIN Append(o, f) = 1 .. Len(o) + 1 BY <1>1
<1>3. \A i \in 1 .. Len(o) : Append(o, f)[i] = o[i] OBVIOUS
<1>4. Append(o, f)[Len(o) + 1] = f OBVIOUS
<1>5. \A i \in 1 .. Len(o) + 1 : i \in 1 .. Len(o) \/ i = Len(o) + 1 BY <1>1
<1>6. ASSUME NEW i
      PROVE  i \in Positions(Append(o, f), kind) <=>
               i \in Positions(o, kind) \/ (f.kind = kind /\ i = Len(o) + 1)
  <2>1. Len(o) + 1 \in 1 .. Len(o) + 1 /\ 1 .. Len(o) \subseteq 1 .. Len(o) + 1 BY <1>1
  <2> QED BY <1>2, <1>3, <1>4, <1>5, <2>1 DEF Positions
<1> QED BY <1>1, <1>2, <1>3, <1>4, <1>6 DEF Positions

LEMMA NumberedAppend ==
  ASSUME NEW R, NEW o \in Seq(R), NEW f \in R, NEW S \in SUBSET (1 .. Len(o)), Numbered(o, S)
  PROVE  /\ Numbered(Append(o, f), S)
         /\ f.n = Cardinality(S) + 1 => Numbered(Append(o, f), S \cup {Len(o) + 1})
<1>1. /\ Len(o) \in Nat /\ Append(o, f)[Len(o) + 1] = f
      /\ \A i \in 1 .. Len(o) : Append(o, f)[i] = o[i]
  OBVIOUS
<1>2. Numbered(Append(o, f), S) BY <1>1 DEF Numbered
<1>3. ASSUME f.n = Cardinality(S) + 1, NEW i \in S \cup {Len(o) + 1}
      PROVE  Append(o, f)[i].n = Cardinality({j \in S \cup {Len(o) + 1} : j <= i})
  <2>1. CASE i \in S
    <3>1. {j \in S \cup {Len(o) + 1} : j <= i} = {j \in S : j <= i} BY <1>1, <2>1
    <3> QED BY <1>2, <2>1, <3>1 DEF Numbered
  <2>2. CASE i = Len(o) + 1
    <3>0. \A j \in S \cup {Len(o) + 1} : j <= i BY <1>1, <2>2
    <3>1. {j \in S \cup {Len(o) + 1} : j <= i} = S \cup {Len(o) + 1} BY <3>0
    <3>2. Cardinality(S \cup {Len(o) + 1}) = Cardinality(S) + 1 BY <1>1, CountNew
    <3> QED BY <1>1, <1>3, <2>2, <3>1, <3>2
  <2> QED BY <2>1, <2>2
<1> QED BY <1>2, <1>3 DEF Numbered

-----------------------------------------------------------------------------
(* What the frames of a list tell: how many pieces of text, which calls and *)
(* how many pieces of the arguments of each, all in their order.            *)

FrameKinds == {"start", "role", "open", "text", "args", "close", "finish", "stop",
               "done", "error"}
Number == Nat \cup {None}
Frames == [kind : FrameKinds, index : Number, call : Number,
           n : Number \cup {"stop", "length", "tool_calls"}]

ArgsOf(o, x) == {i \in Positions(o, "args") : o[i].call = x}
OpenedIn(o) == {i \in Positions(o, "open") : o[i].call # None}

CallsApart(o) ==
  \A i, j \in OpenedIn(o) : i # j => o[i].index # o[j].index /\ o[i].call # o[j].call
ArgsFollowCall(o) ==
  \A i \in Positions(o, "args") : \E j \in OpenedIn(o) :
    j < i /\ o[j].index = o[i].index /\ o[j].call = o[i].call

Tells(o, texts, calls, args) ==
  /\ o \in Seq(Frames)
  /\ Numbered(o, Positions(o, "text")) /\ Cardinality(Positions(o, "text")) = texts
  /\ CallsApart(o) /\ {o[i].call : i \in OpenedIn(o)} = 1 .. calls
  /\ ArgsFollowCall(o)
  /\ \A x \in 1 .. MaxCalls :
       Numbered(o, ArgsOf(o, x)) /\ Cardinality(ArgsOf(o, x)) = args[x]

LEMMA AppendTells ==
  ASSUME NEW o \in Seq(Frames), NEW f \in Frames
  PROVE  /\ Append(o, f) \in Seq(Frames) /\ Len(o) \in Nat
         /\ \A i \in 1 .. Len(o) : Append(o, f)[i] = o[i]
         /\ Append(o, f)[Len(o) + 1] = f
         /\ \A k : Positions(o, k) \subseteq 1 .. Len(o)
         /\ OpenedIn(o) \subseteq 1 .. Len(o)
         /\ \A x : ArgsOf(o, x) \subseteq 1 .. Len(o)
         /\ \A k : Positions(Append(o, f), k) =
              IF f.kind = k THEN Positions(o, k) \cup {Len(o) + 1} ELSE Positions(o, k)
         /\ OpenedIn(Append(o, f)) =
              IF f.kind = "open" /\ f.call # None THEN OpenedIn(o) \cup {Len(o) + 1}
              ELSE OpenedIn(o)
         /\ \A x : ArgsOf(Append(o, f), x) =
              IF f.kind = "args" /\ f.call = x THEN ArgsOf(o, x) \cup {Len(o) + 1}
              ELSE ArgsOf(o, x)
<1> DEFINE p == Append(o, f)
<1>1. /\ p \in Seq(Frames) /\ Len(o) \in Nat
      /\ \A i \in 1 .. Len(o) : p[i] = o[i]
      /\ p[Len(o) + 1] = f
  OBVIOUS
<1>2. \A k : /\ Positions(o, k) \subseteq 1 .. Len(o)
             /\ Positions(p, k) =
                  IF f.kind = k THEN Positions(o, k) \cup {Len(o) + 1} ELSE Positions(o, k)
  BY PositionsAppend
<1> HIDE DEF p
<1>3. OpenedIn(o) \subseteq 1 .. Len(o) /\ \A x : ArgsOf(o, x) \subseteq 1 .. Len(o)
  BY <1>2 DEF OpenedIn, ArgsOf
<1>4. OpenedIn(p) = IF f.kind = "open" /\ f.call # None THEN OpenedIn(o) \cup {Len(o) + 1}
                    ELSE OpenedIn(o)
  BY <1>1, <1>2 DEF OpenedIn
<1>5. ASSUME NEW x
      PROVE  ArgsOf(p, x) = IF f.kind = "args" /\ f.call = x THEN ArgsOf(o, x) \cup {Len(o) + 1}
                            ELSE ArgsOf(o, x)
  BY <1>1, <1>2 DEF ArgsOf
<1> QED BY <1>1, <1>2, <1>3, <1>4, <1>5 DEF p

(* A frame that carries no piece changes nothing.                           *)
LEMMA OtherTells ==
  ASSUME NEW o, NEW texts, NEW calls, NEW args, Tells(o, texts, calls, args),
         NEW f \in Frames, f.kind \notin {"text", "args"}, f.kind = "open" => f.call = None
  PROVE  Tells(Append(o, f), texts, calls, args)
<1> DEFINE p == Append(o, f)
<1>1. o \in Seq(Frames) BY DEF Tells
<1>2. /\ p \in Seq(Frames) /\ Len(o) \in Nat
      /\ \A i \in 1 .. Len(o) : p[i] = o[i]
      /\ Positions(p, "text") = Positions(o, "text")
      /\ Positions(p, "args") = Positions(o, "args")
      /\ OpenedIn(p) = OpenedIn(o) /\ \A x : ArgsOf(p, x) = ArgsOf(o, x)
  BY <1>1, AppendTells
<1>3. /\ Positions(o, "text") \subseteq 1 .. Len(o) /\ Positions(o, "args") \subseteq 1 .. Len(o)
      /\ OpenedIn(o) \subseteq 1 .. Len(o) /\ \A x : ArgsOf(o, x) \subseteq 1 .. Len(o)
  BY <1>1, AppendTells
<1>4. Numbered(p, Positions(o, "text")) BY <1>1, <1>3, NumberedAppend DEF Tells
<1>5. \A x \in 1 .. MaxCalls : Numbered(p, ArgsOf(o, x)) BY <1>1, <1>3, NumberedAppend DEF Tells
<1> HIDE DEF p
<1>6. CallsApart(p) BY <1>2, <1>3 DEF Tells, CallsApart
<1>7. {p[i].call : i \in OpenedIn(p)} = 1 .. calls BY <1>2, <1>3 DEF Tells
<1>8. ArgsFollowCall(p) BY <1>2, <1>3 DEF Tells, ArgsFollowCall
<1> QED BY <1>2, <1>4, <1>5, <1>6, <1>7, <1>8 DEF Tells, p

LEMMA TextTells ==
  ASSUME NEW o, NEW texts, NEW calls, NEW args, Tells(o, texts, calls, args),
         NEW f \in Frames, f.kind = "text", f.n = texts + 1
  PROVE  Tells(Append(o, f), texts + 1, calls, args)
<1> DEFINE p == Append(o, f)
           S == Positions(o, "text")
<1>1. o \in Seq(Frames) BY DEF Tells
<1>2. /\ p \in Seq(Frames) /\ Len(o) \in Nat
      /\ \A i \in 1 .. Len(o) : p[i] = o[i]
      /\ Positions(p, "text") = S \cup {Len(o) + 1}
      /\ Positions(p, "args") = Positions(o, "args")
      /\ OpenedIn(p) = OpenedIn(o) /\ \A x : ArgsOf(p, x) = ArgsOf(o, x)
  BY <1>1, AppendTells
<1>3. /\ S \subseteq 1 .. Len(o) /\ Positions(o, "args") \subseteq 1 .. Len(o)
      /\ OpenedIn(o) \subseteq 1 .. Len(o) /\ \A x : ArgsOf(o, x) \subseteq 1 .. Len(o)
  BY <1>1, AppendTells
<1>4. Numbered(p, S \cup {Len(o) + 1}) BY <1>1, <1>3, NumberedAppend DEF Tells
<1>5. \A x \in 1 .. MaxCalls : Numbered(p, ArgsOf(o, x)) BY <1>1, <1>3, NumberedAppend DEF Tells
<1>9. Cardinality(S \cup {Len(o) + 1}) = texts + 1 BY <1>2, <1>3, CountNew DEF Tells
<1> HIDE DEF p
<1>6. CallsApart(p) BY <1>2, <1>3 DEF Tells, CallsApart
<1>7. {p[i].call : i \in OpenedIn(p)} = 1 .. calls BY <1>2, <1>3 DEF Tells
<1>8. ArgsFollowCall(p) BY <1>2, <1>3 DEF Tells, ArgsFollowCall
<1> QED BY <1>2, <1>4, <1>5, <1>6, <1>7, <1>8, <1>9 DEF Tells, p

LEMMA CallTells ==
  ASSUME NEW o, NEW texts, NEW calls \in Nat, NEW args, Tells(o, texts, calls, args),
         NEW f \in Frames, f.kind = "open", f.call = calls + 1,
         \A i \in OpenedIn(o) : o[i].index # f.index
  PROVE  Tells(Append(o, f), texts, calls + 1, args)
<1> DEFINE p == Append(o, f)
           S == OpenedIn(o)
<1>1. o \in Seq(Frames) /\ f.call # None BY DEF Tells
<1>2. /\ p \in Seq(Frames) /\ Len(o) \in Nat /\ p[Len(o) + 1] = f
      /\ \A i \in 1 .. Len(o) : p[i] = o[i]
      /\ Positions(p, "text") = Positions(o, "text")
      /\ Positions(p, "args") = Positions(o, "args")
      /\ OpenedIn(p) = S \cup {Len(o) + 1} /\ \A x : ArgsOf(p, x) = ArgsOf(o, x)
  BY <1>1, AppendTells
<1>3. /\ Positions(o, "text") \subseteq 1 .. Len(o) /\ Positions(o, "args") \subseteq 1 .. Len(o)
      /\ S \subseteq 1 .. Len(o) /\ \A x : ArgsOf(o, x) \subseteq 1 .. Len(o)
  BY <1>1, AppendTells
<1>4. Numbered(p, Positions(o, "text")) BY <1>1, <1>3, NumberedAppend DEF Tells
<1>5. \A x \in 1 .. MaxCalls : Numbered(p, ArgsOf(o, x)) BY <1>1, <1>3, NumberedAppend DEF Tells
<1> HIDE DEF p
<1>6. \A i \in S : o[i].call \in 1 .. calls /\ p[i] = o[i]
  BY <1>2, <1>3 DEF Tells
<1>7. CallsApart(p)
  <2> SUFFICES ASSUME NEW i \in S \cup {Len(o) + 1}, NEW j \in S \cup {Len(o) + 1}, i # j
               PROVE  p[i].index # p[j].index /\ p[i].call # p[j].call
    BY <1>2 DEF CallsApart
  <2>1. CASE i \in S /\ j \in S BY <1>6, <2>1 DEF Tells, CallsApart
  <2>2. CASE i \in S /\ j = Len(o) + 1 BY <1>2, <1>6, <2>2, SMTT(30)
  <2>3. CASE j \in S /\ i = Len(o) + 1 BY <1>2, <1>6, <2>3, SMTT(30)
  <2> QED BY <2>1, <2>2, <2>3
<1>8. {p[i].call : i \in OpenedIn(p)} = 1 .. calls + 1
  <2>1. {p[i].call : i \in S} = 1 .. calls BY <1>6 DEF Tells
  <2>2. {p[i].call : i \in OpenedIn(p)} = {p[i].call : i \in S} \cup {f.call} BY <1>2
  <2> QED BY <2>1, <2>2
<1>9. ArgsFollowCall(p)
  <2>1. \A i \in Positions(o, "args") : p[i] = o[i] BY <1>2, <1>3
  <2> QED BY <1>2, <1>6, <2>1, SMTT(30) DEF Tells, ArgsFollowCall
<1> QED BY <1>2, <1>4, <1>5, <1>7, <1>8, <1>9 DEF Tells, p

LEMMA ArgsTells ==
  ASSUME NEW o, NEW texts, NEW calls, NEW args, Tells(o, texts, calls, args),
         NEW x \in 1 .. MaxCalls, args \in [1 .. MaxCalls -> Nat],
         NEW f \in Frames, f.kind = "args", f.call = x, f.n = args[x] + 1,
         \E j \in OpenedIn(o) : o[j].index = f.index /\ o[j].call = x
  PROVE  Tells(Append(o, f), texts, calls, [args EXCEPT ![x] = @ + 1])
<1> DEFINE p == Append(o, f)
           S == ArgsOf(o, x)
<1>1. o \in Seq(Frames) BY DEF Tells
<1>2. /\ p \in Seq(Frames) /\ Len(o) \in Nat /\ p[Len(o) + 1] = f
      /\ \A i \in 1 .. Len(o) : p[i] = o[i]
      /\ Positions(p, "text") = Positions(o, "text")
      /\ Positions(p, "args") = Positions(o, "args") \cup {Len(o) + 1}
      /\ OpenedIn(p) = OpenedIn(o) /\ ArgsOf(p, x) = S \cup {Len(o) + 1}
      /\ \A y \in 1 .. MaxCalls : y # x => ArgsOf(p, y) = ArgsOf(o, y)
  BY <1>1, AppendTells
<1>3. /\ Positions(o, "text") \subseteq 1 .. Len(o) /\ Positions(o, "args") \subseteq 1 .. Len(o)
      /\ OpenedIn(o) \subseteq 1 .. Len(o) /\ \A y : ArgsOf(o, y) \subseteq 1 .. Len(o)
  BY <1>1, AppendTells
<1>4. Numbered(p, Positions(o, "text")) BY <1>1, <1>3, NumberedAppend DEF Tells
<1>5. \A y \in 1 .. MaxCalls : Numbered(p, ArgsOf(o, y)) BY <1>1, <1>3, NumberedAppend DEF Tells
<1>6. Numbered(p, S \cup {Len(o) + 1})
  <2>1. S \in SUBSET (1 .. Len(o)) /\ Numbered(o, S) /\ f.n = Cardinality(S) + 1
    BY <1>3 DEF Tells
  <2> HIDE DEF S
  <2> QED BY <1>1, <2>1, NumberedAppend
<1>7. Cardinality(S \cup {Len(o) + 1}) = args[x] + 1 BY <1>2, <1>3, CountNew, SMTT(30) DEF Tells
<1> HIDE DEF p
<1>12. OpenedIn(p) = OpenedIn(o) /\ \A i \in OpenedIn(o) : p[i] = o[i] BY <1>2, <1>3
<1>8. CallsApart(p) BY <1>12 DEF Tells, CallsApart
<1>9. {p[i].call : i \in OpenedIn(p)} = 1 .. calls BY <1>12, SMTT(30) DEF Tells
<1>10. ArgsFollowCall(p)
  <2> SUFFICES ASSUME NEW i \in Positions(o, "args") \cup {Len(o) + 1}
               PROVE  \E j \in OpenedIn(o) :
                        j < i /\ p[j].index = p[i].index /\ p[j].call = p[i].call
    BY <1>2 DEF ArgsFollowCall
  <2>1. \A j \in OpenedIn(o) : j < Len(o) + 1 /\ p[j] = o[j] BY <1>2, <1>3
  <2>2. CASE i \in Positions(o, "args")
    <3>1. p[i] = o[i] BY <1>2, <1>3, <2>2
    <3> QED BY <2>1, <2>2, <3>1 DEF Tells, ArgsFollowCall
  <2>3. CASE i = Len(o) + 1 BY <1>2, <2>1, <2>3
  <2> QED BY <2>2, <2>3
<1>11. ASSUME NEW y \in 1 .. MaxCalls
       PROVE  Numbered(p, ArgsOf(p, y))
              /\ Cardinality(ArgsOf(p, y)) = [args EXCEPT ![x] = @ + 1][y]
  <2>1. CASE y = x BY <1>2, <1>6, <1>7, <2>1
  <2>2. CASE y # x BY <1>2, <1>5, <2>2 DEF Tells
  <2> QED BY <2>1, <2>2
<1> QED BY <1>2, <1>4, <1>8, <1>9, <1>10, <1>11 DEF Tells, p
-----------------------------------------------------------------------------
(* What upstream says.                                                      *)

EventKinds == {"message", "open", "text", "call", "args", "close", "reason", "stop", "error"}
Ends == {"stop", "length", "tool_calls"}
Events == [kind : EventKinds, call : Number, n : Number \cup Ends]
Phases == {"begin", "between", "text", "call", "reason", "over"}

UpTypes ==
  /\ <<adapter, route>> \in Pairs
  /\ up \in [at : Phases, pieces : 0 .. MaxPieces, texts : Nat, calls : 0 .. MaxCalls,
             args : [1 .. MaxCalls -> Nat]]
  /\ said \in Seq(Events) /\ read \in 0 .. Len(said)
  /\ line \in {"up", "closed", "broken"} /\ cut \in BOOLEAN
  /\ cut => line = "closed"

UpCounts ==
  /\ up.texts = Cardinality(Positions(said, "text"))
  /\ up.calls = Cardinality(Positions(said, "call"))
  /\ \A x \in 1 .. MaxCalls : up.args[x] = Cardinality(ArgsOf(said, x))

Blockwise(a) == a \in {"anthropic", "codex"}

(* The i-th event of a message s, given those before it.                    *)
TextOK(s, i) == s[i].kind = "text" => s[i].n = Count(Positions(s, "text"), i)
CallOK(a, s, i) ==
  s[i].kind = "call" =>
    /\ s[i].call = Count(Positions(s, "call"), i)
    /\ s[i].n \in {0, 1} /\ (s[i].n = 0 => a = "openai")
ArgsOK(a, s, i) ==
  s[i].kind = "args" =>
    /\ s[i].call \in 1 .. Count(Positions(s, "call"), i)
    /\ s[i].n = Count(ArgsOf(s, s[i].call), i)
    /\ Blockwise(a) => /\ s[i].call = Count(Positions(s, "call"), i)
                       /\ i > 1 /\ s[i - 1].kind \in {"call", "args"}
(* The reason is followed by the end, and the end by nothing.               *)
EndOK(a, s, i) ==
  /\ i > 1 => s[i - 1].kind \notin {"stop", "error"}
  /\ i > 1 /\ s[i - 1].kind = "reason" => s[i].kind \in {"stop", "error"}
  /\ s[i].kind = "reason" => a # "codex" /\ s[i].n \in Ends
  /\ s[i].kind = "stop" => IF a = "codex" THEN s[i].n \in Ends
                           ELSE s[i].n = None /\ i > 1 /\ s[i - 1].kind = "reason"
  /\ s[i].kind \in {"open", "close", "error"} => Blockwise(a)
EventOK(a, s, i) == TextOK(s, i) /\ CallOK(a, s, i) /\ ArgsOK(a, s, i) /\ EndOK(a, s, i)

SaidOK == \A i \in DOMAIN said : EventOK(adapter, said, i)
LastKind == IF Len(said) = 0 THEN "none" ELSE said[Len(said)].kind
PhaseOK ==
  /\ LastKind \in {"stop", "error"} <=> up.at = "over"
  /\ LastKind = "reason" <=> up.at = "reason"
  /\ Blockwise(adapter) /\ up.at = "call" => LastKind \in {"call", "args"}

UpInv ==
  UpTypes /\ UpCounts /\ SaidOK /\ PhaseOK

LEMMA PrefixCounts ==
  ASSUME NEW s \in Seq(Events), NEW e \in Events, NEW i \in 0 .. Len(s)
  PROVE  /\ \A k : Count(Positions(Append(s, e), k), i) = Count(Positions(s, k), i)
         /\ \A x : Count(ArgsOf(Append(s, e), x), i) = Count(ArgsOf(s, x), i)
<1> DEFINE t == Append(s, e)
<1>1. /\ t \in Seq(Events) /\ Len(s) \in Nat
      /\ \A j \in 1 .. Len(s) : t[j] = s[j]
      /\ t[Len(s) + 1] = e
  OBVIOUS
<1>2. \A k : /\ Positions(s, k) \subseteq 1 .. Len(s)
             /\ Positions(t, k) =
                  IF e.kind = k THEN Positions(s, k) \cup {Len(s) + 1} ELSE Positions(s, k)
  BY PositionsAppend
<1> HIDE DEF t
<1>3. Len(s) + 1 \notin 1 .. i /\ 1 .. i \subseteq 1 .. Len(s) BY <1>1
<1>4. ASSUME NEW k PROVE Count(Positions(t, k), i) = Count(Positions(s, k), i)
  <2>1. Positions(t, k) \cap (1 .. i) = Positions(s, k) \cap (1 .. i) BY <1>2, <1>3
  <2> QED BY <2>1 DEF Count
<1>5. ASSUME NEW x PROVE Count(ArgsOf(t, x), i) = Count(ArgsOf(s, x), i)
  <2>1. ArgsOf(t, x) \cap (1 .. i) = ArgsOf(s, x) \cap (1 .. i)
    BY <1>1, <1>2, <1>3 DEF ArgsOf
  <2> QED BY <2>1 DEF Count
<1> QED BY <1>4, <1>5 DEF t

LEMMA PrefixOK ==
  ASSUME NEW a, NEW s \in Seq(Events), NEW e \in Events, NEW i \in 1 .. Len(s),
         EventOK(a, s, i)
  PROVE  EventOK(a, Append(s, e), i)
<1> DEFINE t == Append(s, e)
<1>1. /\ Len(s) \in Nat /\ t[i] = s[i] /\ (i > 1 => t[i - 1] = s[i - 1])
  OBVIOUS
<1>2. /\ \A k : Count(Positions(t, k), i) = Count(Positions(s, k), i)
      /\ \A x : Count(ArgsOf(t, x), i) = Count(ArgsOf(s, x), i)
  BY PrefixCounts
<1> HIDE DEF t
<1>3. TextOK(t, i) BY <1>1, <1>2 DEF EventOK, TextOK
<1>4. CallOK(a, t, i) BY <1>1, <1>2 DEF EventOK, CallOK
<1>5. ArgsOK(a, t, i) BY <1>1, <1>2 DEF EventOK, ArgsOK
<1>6. EndOK(a, t, i) BY <1>1, <1>2 DEF EventOK, EndOK
<1> QED BY <1>3, <1>4, <1>5, <1>6 DEF EventOK, t

(* One more event is counted once.                                          *)
LEMMA AppendCounts ==
  ASSUME NEW s \in Seq(Events), NEW e \in Events
  PROVE  LET t == Append(s, e)
             n == Len(s) + 1
         IN  /\ t \in Seq(Events) /\ Len(t) = n /\ n \in Nat \ {0} /\ t[n] = e
             /\ \A i \in 1 .. n - 1 : t[i] = s[i]
             /\ \A k : /\ Cardinality(Positions(s, k)) \in Nat
                       /\ Cardinality(Positions(t, k)) =
                            Cardinality(Positions(s, k)) + IF e.kind = k THEN 1 ELSE 0
                       /\ Count(Positions(t, k), n) = Cardinality(Positions(t, k))
             /\ \A x : /\ Cardinality(ArgsOf(s, x)) \in Nat
                       /\ Cardinality(ArgsOf(t, x)) = Cardinality(ArgsOf(s, x))
                            + IF e.kind = "args" /\ e.call = x THEN 1 ELSE 0
                       /\ Count(ArgsOf(t, x), n) = Cardinality(ArgsOf(t, x))
<1> DEFINE t == Append(s, e)
           n == Len(s) + 1
<1>1. /\ t \in Seq(Events) /\ Len(t) = n /\ n \in Nat \ {0} /\ Len(s) \in Nat
      /\ \A j \in 1 .. Len(s) : t[j] = s[j]
      /\ t[n] = e
  OBVIOUS
<1>2. \A k : /\ Positions(s, k) \subseteq 1 .. Len(s)
             /\ Positions(t, k) =
                  IF e.kind = k THEN Positions(s, k) \cup {n} ELSE Positions(s, k)
  BY PositionsAppend
<1>3. \A x : /\ ArgsOf(s, x) \subseteq 1 .. Len(s)
             /\ ArgsOf(t, x) = IF e.kind = "args" /\ e.call = x THEN ArgsOf(s, x) \cup {n}
                               ELSE ArgsOf(s, x)
  <2> HIDE DEF t
  <2> QED BY <1>1, <1>2 DEF ArgsOf
<1> HIDE DEF t
<1>4. ASSUME NEW S \in SUBSET (1 .. Len(s))
      PROVE  /\ Cardinality(S) \in Nat /\ Cardinality(S \cup {n}) = Cardinality(S) + 1
             /\ Count(S, n) = Cardinality(S) /\ Count(S \cup {n}, n) = Cardinality(S \cup {n})
  <2>0. n \in 1 .. n /\ 1 .. Len(s) \subseteq 1 .. n BY <1>1
  <2>1. S \in SUBSET (1 .. n) /\ S \cup {n} \in SUBSET (1 .. n) BY <2>0
  <2> QED BY <1>1, <2>1, CountAll, CountNew
<1>5. ASSUME NEW k
      PROVE  /\ Cardinality(Positions(s, k)) \in Nat
             /\ Cardinality(Positions(t, k)) =
                  Cardinality(Positions(s, k)) + IF e.kind = k THEN 1 ELSE 0
             /\ Count(Positions(t, k), n) = Cardinality(Positions(t, k))
  <2> DEFINE S == Positions(s, k)
  <2>1. S \in SUBSET (1 .. Len(s)) BY <1>2
  <2>2. Positions(t, k) = IF e.kind = k THEN S \cup {n} ELSE S BY <1>2
  <2> HIDE DEF S
  <2>3. /\ Cardinality(S) \in Nat /\ Cardinality(S \cup {n}) = Cardinality(S) + 1
        /\ Count(S, n) = Cardinality(S) /\ Count(S \cup {n}, n) = Cardinality(S \cup {n})
    BY <1>4, <2>1
  <2>4. CASE e.kind = k BY <2>2, <2>3, <2>4 DEF S
  <2>5. CASE e.kind # k BY <2>2, <2>3, <2>5 DEF S
  <2> QED BY <2>4, <2>5
<1>6. ASSUME NEW x
      PROVE  /\ Cardinality(ArgsOf(s, x)) \in Nat
             /\ Cardinality(ArgsOf(t, x)) = Cardinality(ArgsOf(s, x))
                            + IF e.kind = "args" /\ e.call = x THEN 1 ELSE 0
             /\ Count(ArgsOf(t, x), n) = Cardinality(ArgsOf(t, x))
  <2> DEFINE S == ArgsOf(s, x)
           new == e.kind = "args" /\ e.call = x
  <2>1. S \in SUBSET (1 .. Len(s)) BY <1>3
  <2>2. ArgsOf(t, x) = IF new THEN S \cup {n} ELSE S BY <1>3
  <2> HIDE DEF S, new
  <2>3. /\ Cardinality(S) \in Nat /\ Cardinality(S \cup {n}) = Cardinality(S) + 1
        /\ Count(S, n) = Cardinality(S) /\ Count(S \cup {n}, n) = Cardinality(S \cup {n})
    BY <1>4, <2>1
  <2>4. CASE new BY <2>2, <2>3, <2>4 DEF S, new
  <2>5. CASE ~new BY <2>2, <2>3, <2>5 DEF S, new
  <2> QED BY <2>4, <2>5
<1> QED BY <1>1, <1>5, <1>6 DEF t

SaidMore == said' = said \/ \E e \in Events : said' = Append(said, e)

LEMMA SaysKeeps ==
  ASSUME UpInv, NEW e \in Events, NEW phase \in Phases, Says(e, phase),
         EventOK(adapter, Append(said, e), Len(said) + 1),
         e.kind = "call" => up.calls < MaxCalls,
         e.kind = "args" => e.call \in 1 .. MaxCalls,
         e.kind \in {"stop", "error"} <=> phase = "over",
         e.kind = "reason" <=> phase = "reason",
         Blockwise(adapter) /\ phase = "call" => e.kind \in {"call", "args"}
  PROVE  UpInv' /\ SaidMore
<1> DEFINE n == Len(said) + 1
<1>0. said \in Seq(Events) BY DEF UpInv, UpTypes
<1>1. /\ said' = Append(said, e) /\ said' \in Seq(Events) /\ Len(said') = n /\ n \in Nat \ {0}
      /\ said'[n] = e
      /\ \A k : Cardinality(Positions(said, k)) \in Nat
                /\ Cardinality(Positions(said', k)) =
                     Cardinality(Positions(said, k)) + IF e.kind = k THEN 1 ELSE 0
      /\ \A x : Cardinality(ArgsOf(said, x)) \in Nat
                /\ Cardinality(ArgsOf(said', x)) = Cardinality(ArgsOf(said, x))
                            + IF e.kind = "args" /\ e.call = x THEN 1 ELSE 0
  BY <1>0, AppendCounts DEF Says
<1>2. /\ UNCHANGED <<adapter, route, line, cut, read>> /\ line = "up"
      /\ up'.at = phase
      /\ up'.pieces = up.pieces + (IF e.kind \in {"open", "text", "call", "args"} THEN 1 ELSE 0)
      /\ up'.texts = up.texts + (IF e.kind = "text" THEN 1 ELSE 0)
      /\ up'.calls = up.calls + (IF e.kind = "call" THEN 1 ELSE 0)
      /\ up'.args = IF e.kind = "args" THEN [up.args EXCEPT ![e.call] = @ + 1] ELSE up.args
      /\ up' = [at |-> up'.at, pieces |-> up'.pieces, texts |-> up'.texts,
                calls |-> up'.calls, args |-> up'.args]
      /\ e.kind \in {"open", "text", "call", "args"} => up.pieces < MaxPieces
  BY DEF Says
<1>3. UpTypes'
  <2>0. up.args \in [1 .. MaxCalls -> Nat] BY DEF UpInv, UpTypes
  <2>1. up'.args \in [1 .. MaxCalls -> Nat]
    <3>1. CASE e.kind = "args"
      <4>1. up.args[e.call] + 1 \in Nat BY <2>0, <3>1
      <4> QED BY <1>2, <2>0, <3>1, <4>1
    <3>2. CASE e.kind # "args" BY <1>2, <2>0, <3>2
    <3> QED BY <3>1, <3>2
  <2>2. up'.pieces \in 0 .. MaxPieces /\ up'.calls \in 0 .. MaxCalls /\ up'.texts \in Nat
    BY <1>2, SMTT(30) DEF UpInv, UpTypes
  <2>3. up' \in [at : Phases, pieces : 0 .. MaxPieces, texts : Nat, calls : 0 .. MaxCalls,
                 args : [1 .. MaxCalls -> Nat]]
    BY <1>2, <2>1, <2>2
  <2>4. read' \in 0 .. Len(said') BY <1>0, <1>1, <1>2 DEF UpInv, UpTypes
  <2> QED BY <1>1, <1>2, <2>3, <2>4 DEF UpInv, UpTypes
<1>4. UpCounts'
  <2>1. up'.texts = Cardinality(Positions(said', "text"))
        /\ up'.calls = Cardinality(Positions(said', "call"))
    BY <1>1, <1>2 DEF UpInv, UpCounts
  <2>2. ASSUME NEW x \in 1 .. MaxCalls PROVE up'.args[x] = Cardinality(ArgsOf(said', x))
    BY <1>1, <1>2, SMTT(30) DEF UpInv, UpCounts, UpTypes
  <2> QED BY <2>1, <2>2 DEF UpCounts
<1>5. SaidOK'
  <2> SUFFICES ASSUME NEW i \in DOMAIN said' PROVE EventOK(adapter, said', i)
    BY <1>2 DEF SaidOK
  <2>1. i \in 1 .. Len(said) \/ i = n BY <1>0, <1>1
  <2>2. CASE i \in 1 .. Len(said)
    <3>1. EventOK(adapter, said, i) BY <1>0, <2>2 DEF UpInv, SaidOK
    <3> QED BY <1>0, <1>1, <2>2, <3>1, PrefixOK
  <2> QED BY <1>1, <2>1, <2>2
<1>6. PhaseOK'
  <2>1. LastKind' = e.kind BY <1>1 DEF LastKind
  <2> QED BY <1>2, <2>1 DEF PhaseOK, Events, EventKinds
<1>7. SaidMore BY <1>1 DEF SaidMore
<1> QED BY <1>3, <1>4, <1>5, <1>6, <1>7 DEF UpInv

LEMMA NewEvent ==
  ASSUME UpInv, NEW e \in Events
  PROVE  LET s == Append(said, e)
             n == Len(said) + 1
         IN  /\ n \in Nat \ {0} /\ s[n] = e /\ (n > 1 => s[n - 1].kind = LastKind)
             /\ n = 1 => LastKind = "none"
             /\ Count(Positions(s, "text"), n) = up.texts + IF e.kind = "text" THEN 1 ELSE 0
             /\ Count(Positions(s, "call"), n) = up.calls + IF e.kind = "call" THEN 1 ELSE 0
             /\ e.kind = "args" /\ e.call \in 1 .. MaxCalls =>
                  Count(ArgsOf(s, e.call), n) = up.args[e.call] + 1
<1> DEFINE s == Append(said, e)
           n == Len(said) + 1
<1>0. said \in Seq(Events) BY DEF UpInv, UpTypes
<1>1. /\ s \in Seq(Events) /\ Len(s) = n /\ n \in Nat \ {0} /\ s[n] = e
      /\ \A i \in 1 .. n - 1 : s[i] = said[i]
      /\ \A k : /\ Cardinality(Positions(said, k)) \in Nat
                /\ Cardinality(Positions(s, k)) =
                     Cardinality(Positions(said, k)) + IF e.kind = k THEN 1 ELSE 0
                /\ Count(Positions(s, k), n) = Cardinality(Positions(s, k))
      /\ \A x : /\ Cardinality(ArgsOf(said, x)) \in Nat
                /\ Cardinality(ArgsOf(s, x)) = Cardinality(ArgsOf(said, x))
                     + IF e.kind = "args" /\ e.call = x THEN 1 ELSE 0
                /\ Count(ArgsOf(s, x), n) = Cardinality(ArgsOf(s, x))
  BY <1>0, AppendCounts
<1>2. n > 1 => s[n - 1].kind = LastKind
  <2>1. n > 1 => n - 1 = Len(said) /\ Len(said) # 0 /\ n - 1 \in 1 .. n - 1 BY <1>0, <1>1
  <2> HIDE DEF s
  <2> QED BY <1>1, <2>1 DEF LastKind
<1>3. n = 1 => LastKind = "none" BY <1>0 DEF LastKind
<1> HIDE DEF s, n
<1>4. Count(Positions(s, "text"), n) = up.texts + IF e.kind = "text" THEN 1 ELSE 0
  BY <1>1 DEF UpInv, UpCounts
<1>5. Count(Positions(s, "call"), n) = up.calls + IF e.kind = "call" THEN 1 ELSE 0
  BY <1>1 DEF UpInv, UpCounts
<1>6. e.kind = "args" /\ e.call \in 1 .. MaxCalls =>
        Count(ArgsOf(s, e.call), n) = up.args[e.call] + 1
  BY <1>1 DEF UpInv, UpCounts
<1> QED BY <1>1, <1>2, <1>3, <1>4, <1>5, <1>6 DEF s, n

LEMMA UpstreamKeeps == ASSUME UpInv, Upstream PROVE UpInv' /\ SaidMore
<1> DEFINE OK(e) == EventOK(adapter, Append(said, e), Len(said) + 1)
<1>0. /\ up.at \in Phases /\ up.texts \in Nat /\ up.calls \in 0 .. MaxCalls
      /\ up.args \in [1 .. MaxCalls -> Nat] /\ InBlocks = Blockwise(adapter)
      /\ said \in Seq(Events) /\ <<adapter, route>> \in Pairs
  BY DEF UpInv, UpTypes, InBlocks, Blockwise
<1>1. CASE SayMessage
  <2> DEFINE e == Event("message", None, None)
  <2>1. e \in Events /\ e.kind = "message" BY DEF Event, Events, EventKinds, Number
  <2>2. up.at = "begin" /\ Says(e, "between") BY <1>1 DEF SayMessage
  <2> HIDE DEF e
  <2>3. OK(e) BY <2>1, <2>2, NewEvent DEF EventOK, TextOK, CallOK, ArgsOK, EndOK, UpInv, PhaseOK
  <2> HIDE DEF OK
  <2> QED BY <2>1, <2>2, <2>3, SaysKeeps DEF OK, Phases
<1>2. CASE OpenText
  <2> DEFINE e == Event("open", None, None)
  <2>1. e \in Events /\ e.kind = "open" BY DEF Event, Events, EventKinds, Number
  <2>2. InBlocks /\ up.at = "between" /\ Says(e, "text") BY <1>2 DEF OpenText
  <2> HIDE DEF e
  <2>3. OK(e)
    BY <1>0, <2>1, <2>2, NewEvent DEF EventOK, TextOK, CallOK, ArgsOK, EndOK, UpInv, PhaseOK
  <2> HIDE DEF OK
  <2> QED BY <2>1, <2>2, <2>3, SaysKeeps DEF OK, Phases
<1>3. CASE SayText
  <2> DEFINE e == Event("text", None, up.texts + 1)
  <2>1. e \in Events /\ e.kind = "text" /\ e.n = up.texts + 1
    BY <1>0 DEF Event, Events, EventKinds, Number
  <2>2. up.at \in {"text", "between"} /\ Says(e, up.at) BY <1>3 DEF SayText
  <2> HIDE DEF e
  <2>3. OK(e)
    BY <1>0, <2>1, <2>2, NewEvent DEF EventOK, TextOK, CallOK, ArgsOK, EndOK, UpInv, PhaseOK
  <2> HIDE DEF OK
  <2> QED BY <2>1, <2>2, <2>3, SaysKeeps DEF OK, Phases
<1>4. CASE OpenCall
  <2>1. PICK id \in IF adapter = "openai" THEN {0, 1} ELSE {1} :
          Says(Event("call", up.calls + 1, id), IF InBlocks THEN "call" ELSE up.at)
    BY <1>4 DEF OpenCall
  <2> DEFINE e == Event("call", up.calls + 1, id)
             phase == IF InBlocks THEN "call" ELSE up.at
  <2>2. e \in Events /\ e.kind = "call" /\ e.call = up.calls + 1 /\ e.n = id
    BY <1>0 DEF Event, Events, EventKinds, Number
  <2>3. /\ up.at = "between" /\ up.calls < MaxCalls /\ Says(e, phase)
        /\ phase \in {"between", "call"}
    BY <1>4, <2>1 DEF OpenCall
  <2> HIDE DEF e, phase
  <2>4. OK(e)
    BY <1>0, <2>1, <2>2, <2>3, NewEvent, SMTT(30)
    DEF EventOK, TextOK, CallOK, ArgsOK, EndOK, UpInv, PhaseOK
  <2> HIDE DEF OK
  <2> QED BY <2>2, <2>3, <2>4, SaysKeeps DEF OK, Phases
<1>5. CASE SayArgs
  <2>1. PICK c \in 1 .. up.calls :
          (InBlocks => c = up.calls) /\ Says(Event("args", c, up.args[c] + 1), up.at)
    BY <1>5 DEF SayArgs
  <2> DEFINE e == Event("args", c, up.args[c] + 1)
  <2>2. /\ e \in Events /\ e.kind = "args" /\ e.call = c /\ e.n = up.args[c] + 1
        /\ c \in 1 .. MaxCalls
    BY <1>0 DEF Event, Events, EventKinds, Number
  <2>3. /\ up.at = (IF InBlocks THEN "call" ELSE "between") /\ Says(e, up.at)
    BY <1>5, <2>1 DEF SayArgs
  <2> HIDE DEF e
  <2> DEFINE s == Append(said, e)
             n == Len(said) + 1
  <2>5. /\ n \in Nat \ {0} /\ s[n] = e /\ (n > 1 => s[n - 1].kind = LastKind)
        /\ n = 1 => LastKind = "none"
        /\ Count(Positions(s, "call"), n) = up.calls + IF e.kind = "call" THEN 1 ELSE 0
        /\ Count(ArgsOf(s, e.call), n) = up.args[e.call] + 1
    BY <2>2, NewEvent
  <2> HIDE DEF s, n
  <2>6. Blockwise(adapter) => n > 1 /\ LastKind \in {"call", "args"}
    BY <1>0, <2>3, <2>5 DEF UpInv, PhaseOK
  <2>9. Count(Positions(s, "call"), n) = up.calls BY <1>0, <2>2, <2>5
  <2>7. ArgsOK(adapter, s, n) BY <1>0, <2>9, <2>1, <2>2, <2>5, <2>6 DEF ArgsOK
  <2>8. EndOK(adapter, s, n) BY <1>0, <2>2, <2>3, <2>5 DEF EndOK, UpInv, PhaseOK
  <2>4. OK(e) BY <2>2, <2>5, <2>7, <2>8 DEF EventOK, TextOK, CallOK, s, n
  <2> HIDE DEF OK
  <2> QED BY <2>2, <2>3, <2>4, SaysKeeps DEF OK, Phases
<1>6. CASE CloseBlock
  <2> DEFINE e == Event("close", None, None)
  <2>1. e \in Events /\ e.kind = "close" BY DEF Event, Events, EventKinds, Number
  <2>2. InBlocks /\ up.at \in {"text", "call"} /\ Says(e, "between") BY <1>6 DEF CloseBlock
  <2> HIDE DEF e
  <2>3. OK(e)
    BY <1>0, <2>1, <2>2, NewEvent DEF EventOK, TextOK, CallOK, ArgsOK, EndOK, UpInv, PhaseOK
  <2> HIDE DEF OK
  <2> QED BY <2>1, <2>2, <2>3, SaysKeeps DEF OK, Phases
<1>7. CASE SayReason
  <2>1. PICK reason \in Reasons : Says(Event("reason", None, reason), "reason")
    BY <1>7 DEF SayReason
  <2> DEFINE e == Event("reason", None, reason)
  <2>2. e \in Events /\ e.kind = "reason" /\ e.n = reason /\ reason \in Ends
    BY DEF Event, Events, EventKinds, Number, Reasons, Ends
  <2>3. adapter # "codex" /\ up.at = "between" /\ Says(e, "reason") BY <1>7, <2>1 DEF SayReason
  <2> HIDE DEF e
  <2>4. OK(e)
    BY <1>0, <2>2, <2>3, NewEvent DEF EventOK, TextOK, CallOK, ArgsOK, EndOK, UpInv, PhaseOK
  <2> HIDE DEF OK
  <2> QED BY <2>2, <2>3, <2>4, SaysKeeps DEF OK, Phases
<1>8. CASE SayStop
  <2>1. PICK reason \in Reasons \cup {None} :
          /\ Says(Event("stop", None, reason), "over")
          /\ IF adapter = "codex" THEN up.at = "between" /\ reason \in Reasons
             ELSE up.at = "reason" /\ reason = None
    BY <1>8 DEF SayStop
  <2> DEFINE e == Event("stop", None, reason)
  <2>2. /\ e \in Events /\ e.kind = "stop" /\ e.n = reason
        /\ reason \in Reasons => reason \in Ends
    BY DEF Event, Events, EventKinds, Number, Reasons, Ends
  <2>3. Says(e, "over") BY <2>1
  <2> HIDE DEF e
  <2>4. OK(e)
    BY <1>0, <2>1, <2>2, <2>3, NewEvent
    DEF EventOK, TextOK, CallOK, ArgsOK, EndOK, UpInv, PhaseOK
  <2> HIDE DEF OK
  <2> QED BY <2>2, <2>3, <2>4, SaysKeeps DEF OK, Phases
<1>9. CASE SayError
  <2> DEFINE e == Event("error", None, None)
  <2>1. e \in Events /\ e.kind = "error" BY DEF Event, Events, EventKinds, Number
  <2>2. InBlocks /\ up.at # "over" /\ Says(e, "over") BY <1>9 DEF SayError
  <2> HIDE DEF e
  <2>3. OK(e)
    BY <1>0, <2>1, <2>2, NewEvent DEF EventOK, TextOK, CallOK, ArgsOK, EndOK, UpInv, PhaseOK
  <2> HIDE DEF OK
  <2> QED BY <2>1, <2>2, <2>3, SaysKeeps DEF OK, Phases
<1>10. CASE HangUp \/ Break
  <2>1. /\ UNCHANGED <<adapter, route, up, said, read>> /\ line' \in {"closed", "broken"}
        /\ cut' \in BOOLEAN /\ (cut' => line' = "closed")
    <3>1. cut \in BOOLEAN /\ (cut => line = "closed") BY DEF UpInv, UpTypes
    <3>2. CASE HangUp BY <3>1, <3>2, Zenon DEF HangUp
    <3>3. CASE Break BY <3>1, <3>3, Zenon DEF Break
    <3> QED BY <1>10, <3>2, <3>3
  <2> QED BY <2>1 DEF UpInv, UpTypes, UpCounts, SaidOK, PhaseOK, LastKind, SaidMore
<1> QED BY <1>1, <1>2, <1>3, <1>4, <1>5, <1>6, <1>7, <1>8, <1>9, <1>10 DEF Upstream

LEMMA ReaderKeepsUp ==
  ASSUME UpInv, UNCHANGED <<adapter, route, up, said, line, cut>>, read' \in 0 .. Len(said)
  PROVE  UpInv'
BY DEF UpInv, UpTypes, UpCounts, SaidOK, PhaseOK, LastKind

-----------------------------------------------------------------------------
(* What was said of a message up to its i-th event.                         *)

TextsSaid(i) == Count(Positions(said, "text"), i)
CallsSaid(i) == Count(Positions(said, "call"), i)
ArgsSaid(i)  == [x \in 1 .. MaxCalls |-> Count(ArgsOf(said, x), i)]

LEMMA CountBounded ==
  ASSUME NEW n \in Nat, NEW S \in SUBSET (1 .. n), NEW i \in 0 .. n
  PROVE  Count(S, i) \in Nat /\ Count(S, i) <= Cardinality(S)
<1>1. IsFiniteSet(S) /\ Cardinality(S) \in Nat BY CountAll
<1>2. S \cap (1 .. i) \in SUBSET S OBVIOUS
<1>3. Cardinality(S \cap (1 .. i)) <= Cardinality(S) BY <1>1, <1>2, FS_Subset
<1>4. i \in Nat OBVIOUS
<1> QED BY <1>3, <1>4, CountNext DEF Count

LEMMA SaidBounded ==
  ASSUME UpInv, NEW i \in 0 .. Len(said)
  PROVE  /\ TextsSaid(i) \in Nat /\ TextsSaid(i) <= up.texts
         /\ CallsSaid(i) \in 0 .. MaxCalls /\ CallsSaid(i) <= up.calls
         /\ ArgsSaid(i) \in [1 .. MaxCalls -> Nat]
<1>1. said \in Seq(Events) /\ Len(said) \in Nat /\ DOMAIN said = 1 .. Len(said)
  BY DEF UpInv, UpTypes
<1>2. \A k : Positions(said, k) \in SUBSET (1 .. Len(said)) BY <1>1 DEF Positions
<1>3. \A x : ArgsOf(said, x) \in SUBSET (1 .. Len(said)) BY <1>2 DEF ArgsOf
<1>4. TextsSaid(i) \in Nat /\ TextsSaid(i) <= up.texts
  BY <1>1, <1>2, CountBounded DEF TextsSaid, UpInv, UpCounts
<1>5. CallsSaid(i) \in Nat /\ CallsSaid(i) <= up.calls
  BY <1>1, <1>2, CountBounded DEF CallsSaid, UpInv, UpCounts
<1>6. up.calls \in 0 .. MaxCalls BY DEF UpInv, UpTypes
<1>7. \A x \in 1 .. MaxCalls : Count(ArgsOf(said, x), i) \in Nat
  BY <1>1, <1>3, CountBounded
<1> QED BY <1>4, <1>5, <1>6, <1>7 DEF ArgsSaid

(* What the event that is read next adds.                                   *)
LEMMA NextSaid ==
  ASSUME UpInv, read < Len(said)
  PROVE  LET e == said[read + 1]
         IN  /\ e \in Events /\ read + 1 \in 1 .. Len(said) /\ read \in Nat
             /\ EventOK(adapter, said, read + 1)
             /\ TextsSaid(read + 1) =
                  IF e.kind = "text" THEN TextsSaid(read) + 1 ELSE TextsSaid(read)
             /\ CallsSaid(read + 1) =
                  IF e.kind = "call" THEN CallsSaid(read) + 1 ELSE CallsSaid(read)
             /\ e.kind = "text" => e.n = TextsSaid(read) + 1
             /\ e.kind = "call" => e.call = CallsSaid(read) + 1 /\ e.call \in 1 .. MaxCalls
             /\ e.kind = "args" => /\ e.call \in 1 .. CallsSaid(read) /\ e.call \in 1 .. MaxCalls
                                   /\ e.n = ArgsSaid(read)[e.call] + 1
                                   /\ Blockwise(adapter) => e.call = CallsSaid(read)
             /\ ArgsSaid(read + 1) =
                  IF e.kind = "args" THEN [ArgsSaid(read) EXCEPT ![e.call] = @ + 1]
                  ELSE ArgsSaid(read)
<1> DEFINE e == said[read + 1]
<1>1. /\ said \in Seq(Events) /\ read \in Nat /\ read + 1 \in 1 .. Len(said)
      /\ read \in 0 .. Len(said) /\ DOMAIN said = 1 .. Len(said) /\ e \in Events
  BY DEF UpInv, UpTypes
<1>2. EventOK(adapter, said, read + 1) BY <1>1 DEF UpInv, SaidOK
<1>3. \A k : read + 1 \in Positions(said, k) <=> e.kind = k BY <1>1 DEF Positions
<1>4. \A x : read + 1 \in ArgsOf(said, x) <=> e.kind = "args" /\ e.call = x
  BY <1>3 DEF ArgsOf
<1> DEFINE Next1(S) == IF read + 1 \in S THEN Count(S, read) + 1 ELSE Count(S, read)
<1>5. \A S : Count(S, read + 1) = Next1(S) BY <1>1, CountNext
<1>6. \A x : Count(ArgsOf(said, x), read + 1) =
               IF e.kind = "args" /\ e.call = x THEN Count(ArgsOf(said, x), read) + 1
               ELSE Count(ArgsOf(said, x), read)
  <2> HIDE DEF e
  <2> QED BY <1>4, <1>5
<1>7. /\ TextsSaid(read + 1) = IF e.kind = "text" THEN TextsSaid(read) + 1 ELSE TextsSaid(read)
      /\ CallsSaid(read + 1) = IF e.kind = "call" THEN CallsSaid(read) + 1 ELSE CallsSaid(read)
  <2> HIDE DEF e
  <2> QED BY <1>3, <1>5 DEF TextsSaid, CallsSaid
<1>8. /\ CallsSaid(read) \in Nat /\ CallsSaid(read + 1) \in 0 .. MaxCalls
      /\ ArgsSaid(read) \in [1 .. MaxCalls -> Nat]
  BY <1>1, SaidBounded
<1> HIDE DEF e
<1>9. e.kind = "text" => e.n = TextsSaid(read) + 1
  BY <1>2, <1>7 DEF EventOK, TextOK, TextsSaid, e
<1>10. e.kind = "call" => e.call = CallsSaid(read) + 1 /\ e.call \in 1 .. MaxCalls
  BY <1>2, <1>7, <1>8 DEF EventOK, CallOK, CallsSaid, e
<1>11. ASSUME e.kind = "args"
       PROVE  /\ e.call \in 1 .. CallsSaid(read) /\ e.call \in 1 .. MaxCalls
              /\ e.n = Count(ArgsOf(said, e.call), read + 1)
              /\ Blockwise(adapter) => e.call = CallsSaid(read)
  <2>1. CallsSaid(read + 1) = CallsSaid(read) BY <1>7, <1>8, <1>11
  <2> QED BY <1>2, <1>8, <1>11, <2>1 DEF EventOK, ArgsOK, CallsSaid, e
<1>12. e.kind = "args" => e.n = ArgsSaid(read)[e.call] + 1 BY <1>6, <1>11 DEF ArgsSaid
<1>13. ArgsSaid(read + 1) = IF e.kind = "args" THEN [ArgsSaid(read) EXCEPT ![e.call] = @ + 1]
                            ELSE ArgsSaid(read)
  <2>1. CASE e.kind = "args"
    <3>1. \A x \in 1 .. MaxCalls :
            ArgsSaid(read + 1)[x] = IF x = e.call THEN ArgsSaid(read)[x] + 1 ELSE ArgsSaid(read)[x]
      BY <1>1, <1>6, <1>8, <2>1, CountNext DEF ArgsSaid
    <3> QED BY <2>1, <3>1, <1>8 DEF ArgsSaid
  <2>2. CASE e.kind # "args"
    <3>1. \A x \in 1 .. MaxCalls : Count(ArgsOf(said, x), read + 1) = Count(ArgsOf(said, x), read)
      BY <1>6, <2>2
    <3> QED BY <2>2, <3>1 DEF ArgsSaid
  <2> QED BY <2>1, <2>2
<1> QED BY <1>1, <1>2, <1>7, <1>9, <1>10, <1>11, <1>12, <1>13 DEF e

-----------------------------------------------------------------------------
(* The adapters.                                                            *)

(* The last event was cut, and the reader needs a whole frame.              *)
Lost == /\ cut /\ read = Len(said) /\ read > 0
        /\ adapter = "codex" \/ (adapter = "openai" /\ route = "messages")

(* How many events the client was told of.                                  *)
Taken == IF Lost \/ tr.fails THEN read - 1 ELSE read

AdapterInv ==
  /\ ad \in [role : BOOLEAN, block : {"text", "call"}, index : Nat, calls : Nat, reason : Ends]
  /\ ad.calls = IF Blockwise(adapter) THEN CallsSaid(Taken) ELSE 0
  /\ ad.calls > 0 => ad.index = ad.calls - 1
  /\ adapter = "anthropic" =>
       /\ Taken > 0 /\ said[Taken].kind \in {"call", "args"} => ad.block = "call"
       /\ \A i \in 1 .. Taken : said[i].kind = "reason" => ad.reason = said[i].n

(* The chunk of a piece.                                                    *)
Pieces == {"text", "call", "args"}
PieceOf(e) ==
  IF e.kind = "text" THEN Frame("text", None, None, e.n)
  ELSE Frame(IF e.kind = "call" THEN "open" ELSE "args", e.call - 1, e.call, e.n)

Control == {f \in Frames : f.kind \in {"role", "finish", "done", "error"}}

LEMMA FrameFields ==
  ASSUME NEW k \in FrameKinds, NEW i \in Number, NEW c \in Number,
         NEW n \in Number \cup {"stop", "length", "tool_calls"}
  PROVE  /\ Frame(k, i, c, n) \in Frames
         /\ Frame(k, i, c, n).kind = k /\ Frame(k, i, c, n).index = i
         /\ Frame(k, i, c, n).call = c /\ Frame(k, i, c, n).n = n
BY DEF Frame, Frames

LEMMA ControlFrames ==
  /\ Role \in Control /\ Role.kind = "role"
  /\ Done \in Control /\ Done.kind = "done"
  /\ Error \in Control /\ Error.kind = "error"
  /\ \A r \in Ends : Finish(r) \in Control /\ Finish(r).kind = "finish" /\ Finish(r).n = r
<1>1. None \in Number /\ None \in Number \cup {"stop", "length", "tool_calls"} BY DEF Number
<1>2. {"role", "done", "error", "finish"} \subseteq FrameKinds BY DEF FrameKinds
<1>3. Role \in Control /\ Role.kind = "role" BY <1>1, <1>2, FrameFields DEF Role, Control
<1>4. Done \in Control /\ Done.kind = "done" BY <1>1, <1>2, FrameFields DEF Done, Control
<1>5. Error \in Control /\ Error.kind = "error" BY <1>1, <1>2, FrameFields DEF Error, Control
<1>6. ASSUME NEW r \in Ends
      PROVE  Finish(r) \in Control /\ Finish(r).kind = "finish" /\ Finish(r).n = r
  BY <1>1, <1>2, FrameFields DEF Finish, Control, Ends
<1> QED BY <1>3, <1>4, <1>5, <1>6

Ads == [role : BOOLEAN, block : {"text", "call"}, index : Nat, calls : Nat, reason : Ends]

(* What each adapter makes of an event that is a piece.                      *)
FitsPiece(e, a) ==
  /\ \/ a.chunks = <<PieceOf(e)>>
     \/ a.chunks = IfNoRole \o <<PieceOf(e)>> /\ adapter = "anthropic"
  /\ a.ad \in Ads /\ a.ad.reason = ad.reason
  /\ a.ad.calls = IF Blockwise(adapter) THEN CallsSaid(read + 1) ELSE 0
  /\ a.ad.calls > 0 => a.ad.index = a.ad.calls - 1
  /\ adapter = "anthropic" /\ e.kind \in {"call", "args"} => a.ad.block = "call"

LEMMA ResultFields == \A c, l : Result(c, l).chunks = c /\ Result(c, l).ad = l
BY DEF Result

LEMMA SetRole ==
  ASSUME NEW a \in Ads
  PROVE  LET l == [a EXCEPT !.role = TRUE]
         IN  /\ l \in Ads /\ l.block = a.block /\ l.index = a.index /\ l.calls = a.calls
             /\ l.reason = a.reason
BY DEF Ads

LEMMA SetBlock ==
  ASSUME NEW a \in Ads, NEW b \in {"text", "call"}
  PROVE  LET l == [a EXCEPT !.block = b]
         IN  /\ l \in Ads /\ l.block = b /\ l.index = a.index /\ l.calls = a.calls
             /\ l.reason = a.reason
BY DEF Ads

LEMMA SetIndex ==
  ASSUME NEW a \in Ads, NEW n \in Nat
  PROVE  LET l == [a EXCEPT !.index = n]
         IN  /\ l \in Ads /\ l.block = a.block /\ l.index = n /\ l.calls = a.calls
             /\ l.reason = a.reason
BY DEF Ads

LEMMA SetCalls ==
  ASSUME NEW a \in Ads, NEW n \in Nat
  PROVE  LET l == [a EXCEPT !.calls = n]
         IN  /\ l \in Ads /\ l.block = a.block /\ l.index = a.index /\ l.calls = n
             /\ l.reason = a.reason
BY DEF Ads

LEMMA SetReason ==
  ASSUME NEW a \in Ads, NEW r \in Ends
  PROVE  LET l == [a EXCEPT !.reason = r]
         IN  /\ l \in Ads /\ l.block = a.block /\ l.index = a.index /\ l.calls = a.calls
             /\ l.reason = r
BY DEF Ads

LEMMA CodexCallAd ==
  ASSUME NEW a \in Ads, NEW n \in Nat, n = a.calls
  PROVE  LET l == [a EXCEPT !.index = n, !.calls = @ + 1]
         IN  /\ l \in Ads /\ l.calls = n + 1 /\ l.index = n /\ l.block = a.block
             /\ l.reason = a.reason
<1> DEFINE m == [a EXCEPT !.index = n]
           l == [m EXCEPT !.calls = n + 1]
<1>1. m \in Ads /\ m.calls = n /\ m.index = n /\ m.block = a.block /\ m.reason = a.reason
  BY SetIndex
<1>2. [a EXCEPT !.index = n, !.calls = @ + 1] = l BY DEF Ads
<1>3. l \in Ads /\ l.calls = n + 1 /\ l.index = n /\ l.block = a.block /\ l.reason = a.reason
  <2> HIDE DEF m
  <2> QED BY <1>1, SetCalls
<1> QED BY <1>2, <1>3

LEMMA AnthropicCallAd ==
  ASSUME NEW a \in Ads, NEW n \in Nat, n = a.calls
  PROVE  LET l == [a EXCEPT !.role = TRUE, !.block = "call", !.index = n, !.calls = @ + 1]
         IN  /\ l \in Ads /\ l.calls = n + 1 /\ l.index = n /\ l.block = "call"
             /\ l.reason = a.reason
<1> DEFINE c == [a EXCEPT !.role = TRUE]
           b == [c EXCEPT !.block = "call"]
           l == [b EXCEPT !.index = n, !.calls = @ + 1]
<1>1. c \in Ads /\ c.calls = n /\ c.reason = a.reason BY SetRole
<1>2. b \in Ads /\ b.calls = n /\ b.reason = a.reason /\ b.block = "call"
  <2> HIDE DEF c
  <2> QED BY <1>1, SetBlock
<1>3. [a EXCEPT !.role = TRUE, !.block = "call", !.index = n, !.calls = @ + 1] = l BY DEF Ads
<1>4. /\ l \in Ads /\ l.calls = n + 1 /\ l.index = n /\ l.block = "call"
      /\ l.reason = a.reason
  <2> HIDE DEF b
  <2> QED BY <1>2, CodexCallAd
<1> QED BY <1>3, <1>4

LEMMA PieceIsFrame ==
  ASSUME NEW e \in Events, e.kind \in Pieces, e.kind # "text" => e.call \in Nat \ {0}
  PROVE  /\ PieceOf(e) \in Frames /\ PieceOf(e).n = e.n
         /\ e.kind = "text" => PieceOf(e).kind = "text"
         /\ e.kind = "call" => PieceOf(e).kind = "open"
         /\ e.kind = "args" => PieceOf(e).kind = "args"
         /\ e.kind # "text" => PieceOf(e).call = e.call /\ PieceOf(e).index = e.call - 1
<1>1. e.n \in Number \cup {"stop", "length", "tool_calls"} BY DEF Events, Ends
<1>2. CASE e.kind = "text"
  <2>1. PieceOf(e) = Frame("text", None, None, e.n) BY <1>2 DEF PieceOf
  <2> QED BY <1>1, <1>2, <2>1, FrameFields DEF Number, FrameKinds
<1>3. CASE e.kind = "call"
  <2>1. PieceOf(e) = Frame("open", e.call - 1, e.call, e.n) BY <1>3 DEF PieceOf
  <2>2. e.call \in Number /\ e.call - 1 \in Number BY <1>3 DEF Number
  <2> QED BY <1>1, <1>3, <2>1, <2>2, FrameFields DEF FrameKinds
<1>4. CASE e.kind = "args"
  <2>1. PieceOf(e) = Frame("args", e.call - 1, e.call, e.n) BY <1>4 DEF PieceOf
  <2>2. e.call \in Number /\ e.call - 1 \in Number BY <1>4 DEF Number
  <2> QED BY <1>1, <1>4, <2>1, <2>2, FrameFields DEF FrameKinds
<1> QED BY <1>2, <1>3, <1>4 DEF Pieces

LEMMA PieceAdapted ==
  ASSUME UpInv, AdapterInv, Taken = read, read < Len(said), said[read + 1].kind \in Pieces
  PROVE  FitsPiece(said[read + 1], Adapted(said[read + 1]))
<1> DEFINE e == said[read + 1]
<1>1. /\ e \in Events /\ e.kind \in Pieces /\ read + 1 \in 1 .. Len(said) /\ read \in Nat
      /\ EventOK(adapter, said, read + 1)
      /\ CallsSaid(read + 1) = IF e.kind = "call" THEN CallsSaid(read) + 1 ELSE CallsSaid(read)
      /\ e.kind = "call" => e.call = CallsSaid(read) + 1 /\ e.call \in 1 .. MaxCalls
      /\ e.kind = "args" => /\ e.call \in 1 .. CallsSaid(read)
                            /\ Blockwise(adapter) => e.call = CallsSaid(read)
  BY NextSaid
<1>2. CallsSaid(read) \in Nat BY <1>1, SaidBounded
<1>3. /\ ad \in Ads /\ (ad.calls > 0 => ad.index = ad.calls - 1)
      /\ ad.calls = IF Blockwise(adapter) THEN CallsSaid(read) ELSE 0
      /\ adapter = "anthropic" /\ read > 0 /\ said[read].kind \in {"call", "args"} =>
           ad.block = "call"
  BY DEF AdapterInv, Ads
<1>5. adapter = "anthropic" /\ e.kind = "args" => ad.block = "call"
  <2> SUFFICES ASSUME adapter = "anthropic", e.kind = "args" PROVE ad.block = "call" OBVIOUS
  <2>1. read + 1 > 1 /\ said[(read + 1) - 1].kind \in {"call", "args"}
    BY <1>1 DEF EventOK, ArgsOK, Blockwise
  <2>2. (read + 1) - 1 = read /\ read > 0 BY <1>1, <2>1
  <2> QED BY <1>3, <2>1, <2>2
<1> HIDE DEF e
<1> SUFFICES FitsPiece(e, Adapted(e)) BY DEF e
<1>6. CASE adapter = "anthropic"
  <2>1. Adapted(e) = FromAnthropic(e) BY <1>6, Zenon DEF Adapted
  <2>0. ad.calls = CallsSaid(read) /\ Blockwise(adapter) BY <1>3, <1>6 DEF Blockwise
  <2>2. CASE e.kind = "text"
    <3> DEFINE l == [ad EXCEPT !.role = TRUE]
               c == IfNoRole \o <<PieceOf(e)>>
    <3>1. FromAnthropic(e) = Result(IfNoRole \o <<Frame("text", None, None, e.n)>>, l)
      BY <2>2, Zenon DEF FromAnthropic
    <3>2. l \in Ads /\ l.calls = ad.calls /\ l.index = ad.index /\ l.reason = ad.reason
      BY <1>3, SetRole
    <3> HIDE DEF l
    <3>3. PieceOf(e) = Frame("text", None, None, e.n) BY <2>2 DEF PieceOf
    <3>4. l.calls = CallsSaid(read + 1) BY <1>1, <2>0, <2>2, <3>2
    <3>5. l.calls > 0 => l.index = l.calls - 1 BY <1>3, <3>2
    <3>7. Adapted(e) = Result(c, l) BY <2>1, <3>1, <3>3, Zenon
    <3>6. Adapted(e).chunks = IfNoRole \o <<PieceOf(e)>> /\ Adapted(e).ad = l
      <4> HIDE DEF c
      <4>1. Adapted(e).chunks = c /\ Adapted(e).ad = l BY <3>7, ResultFields
      <4> QED BY <4>1 DEF c
    <3> QED BY <1>6, <2>0, <2>2, <3>2, <3>4, <3>5, <3>6 DEF FitsPiece
  <2>3. CASE e.kind = "call"
    <3> DEFINE c == IfNoRole \o <<PieceOf(e)>>
               l == [ad EXCEPT !.role = TRUE, !.block = "call", !.index = ad.calls, !.calls = @ + 1]
    <3>1. FromAnthropic(e) = FromAnthropicCall(e) BY <2>3, Zenon DEF FromAnthropic
    <3>2. FromAnthropicCall(e) = Result(IfNoRole \o <<Frame("open", ad.calls, e.call, e.n)>>, l)
      BY DEF FromAnthropicCall
    <3>3. /\ l \in Ads /\ l.calls = ad.calls + 1 /\ l.index = ad.calls
          /\ l.reason = ad.reason /\ l.block = "call"
      BY <1>3, <1>2, <2>0, AnthropicCallAd, ZenonT(30)
    <3> HIDE DEF l
    <3>4. PieceOf(e) = Frame("open", ad.calls, e.call, e.n)
      <4>1. e.call - 1 = ad.calls BY <1>1, <1>2, <2>0, <2>3
      <4> QED BY <2>3, <4>1 DEF PieceOf
    <3>6. l.calls = CallsSaid(read + 1) /\ l.index = l.calls - 1 BY <1>1, <1>2, <2>0, <2>3, <3>3
    <3>8. Adapted(e) = Result(c, l) BY <2>1, <3>1, <3>2, <3>4, Zenon
    <3>7. Adapted(e).chunks = IfNoRole \o <<PieceOf(e)>> /\ Adapted(e).ad = l
      <4> HIDE DEF c
      <4>1. Adapted(e).chunks = c /\ Adapted(e).ad = l BY <3>8, ResultFields
      <4> QED BY <4>1 DEF c
    <3> QED BY <1>6, <2>0, <3>3, <3>6, <3>7 DEF FitsPiece
  <2>4. CASE e.kind = "args"
    <3>1. FromAnthropic(e) = Result(<<Frame("args", ad.index, e.call, e.n)>>, ad)
      BY <1>5, <1>6, <2>4, Zenon DEF FromAnthropic
    <3>2. PieceOf(e) = Frame("args", ad.index, e.call, e.n)
      <4>1. e.call - 1 = ad.index BY <1>1, <1>2, <1>3, <2>0, <2>4
      <4> QED BY <2>4, <4>1 DEF PieceOf
    <3>3. CallsSaid(read + 1) = ad.calls BY <1>1, <2>0, <2>4
    <3> QED BY <1>3, <1>5, <1>6, <2>0, <2>1, <2>4, <3>1, <3>2, <3>3, ResultFields DEF FitsPiece
  <2> QED BY <1>1, <2>2, <2>3, <2>4 DEF Pieces
<1>7. CASE adapter = "codex"
  <2>1. Adapted(e) = FromCodex(e) BY <1>7, Zenon DEF Adapted
  <2>0. ad.calls = CallsSaid(read) /\ Blockwise(adapter) BY <1>3, <1>7 DEF Blockwise
  <2>2. CASE e.kind = "text"
    <3>1. FromCodex(e) = Result(<<PieceOf(e)>>, ad)
      <4>1. PieceOf(e) = Frame("text", None, None, e.n) BY <2>2 DEF PieceOf
      <4> QED BY <2>2, <4>1, Zenon DEF FromCodex
    <3>2. CallsSaid(read + 1) = ad.calls BY <1>1, <2>0, <2>2
    <3>3. adapter # "anthropic" BY <1>7
    <3> QED BY <1>3, <3>3, <2>0, <2>1, <2>2, <3>1, <3>2, ResultFields DEF FitsPiece
  <2>3. CASE e.kind = "call"
    <3> DEFINE l == [ad EXCEPT !.index = ad.calls, !.calls = @ + 1]
    <3>1. FromCodex(e) = Result(<<Frame("open", ad.calls, e.call, e.n)>>, l)
      BY <2>3, Zenon DEF FromCodex
    <3>2. l \in Ads /\ l.calls = ad.calls + 1 /\ l.index = ad.calls /\ l.reason = ad.reason
      <4>1. ad.calls \in Nat BY <1>2, <2>0
      <4> QED BY <1>3, <4>1, CodexCallAd
    <3> HIDE DEF l
    <3>3. PieceOf(e) = Frame("open", ad.calls, e.call, e.n)
      <4>1. e.call - 1 = ad.calls BY <1>1, <1>2, <2>0, <2>3
      <4> QED BY <2>3, <4>1 DEF PieceOf
    <3>4. l.calls = CallsSaid(read + 1) /\ l.index = l.calls - 1 BY <1>1, <1>2, <2>0, <2>3, <3>2
    <3> QED BY <1>7, <2>0, <2>1, <3>1, <3>2, <3>3, <3>4, ResultFields DEF FitsPiece
  <2>4. CASE e.kind = "args"
    <3>1. FromCodex(e) = Result(<<Frame("args", ad.index, e.call, e.n)>>, ad)
      BY <2>4, Zenon DEF FromCodex
    <3>2. PieceOf(e) = Frame("args", ad.index, e.call, e.n)
      <4>1. e.call - 1 = ad.index BY <1>1, <1>2, <1>3, <2>0, <2>4
      <4> QED BY <2>4, <4>1 DEF PieceOf
    <3>3. CallsSaid(read + 1) = ad.calls BY <1>1, <2>0, <2>4
    <3>4. adapter # "anthropic" BY <1>7
    <3> QED BY <1>3, <3>4, <2>0, <2>1, <2>4, <3>1, <3>2, <3>3, ResultFields DEF FitsPiece
  <2> QED BY <1>1, <2>2, <2>3, <2>4 DEF Pieces
<1>8. CASE ~Blockwise(adapter)
  <2>1. Adapted(e) = PassedThrough(e) BY <1>8, Zenon DEF Adapted, Blockwise
  <2>2. PassedThrough(e) = Result(<<PieceOf(e)>>, ad)
    <3>1. CASE e.kind = "text"
      <4>1. PieceOf(e) = Frame("text", None, None, e.n) BY <3>1 DEF PieceOf
      <4> QED BY <3>1, <4>1, Zenon DEF PassedThrough
    <3>2. CASE e.kind = "call"
      <4>1. PieceOf(e) = Frame("open", e.call - 1, e.call, e.n) BY <3>2 DEF PieceOf
      <4> QED BY <3>2, <4>1, Zenon DEF PassedThrough
    <3>3. CASE e.kind = "args"
      <4>1. PieceOf(e) = Frame("args", e.call - 1, e.call, e.n) BY <3>3 DEF PieceOf
      <4> QED BY <3>3, <4>1, Zenon DEF PassedThrough
    <3> QED BY <1>1, <3>1, <3>2, <3>3 DEF Pieces
  <2>3. ad.calls = 0 /\ adapter # "anthropic" BY <1>3, <1>8 DEF Blockwise
  <2> QED BY <1>3, <1>8, <2>1, <2>2, <2>3, ResultFields DEF FitsPiece
<1> QED BY <1>6, <1>7, <1>8 DEF Blockwise

(* What each adapter makes of any other event.                              *)
EndChunks(e) ==
  IF adapter = "anthropic" THEN IfNoRole \o <<Finish(ad.reason), Done>>
  ELSE IF adapter = "codex" THEN <<Finish(IF ad.calls > 0 THEN "tool_calls" ELSE e.n), Done>>
  ELSE <<Done>>
FitsControl(e, a) ==
  /\ a.ad \in Ads /\ a.ad.calls = ad.calls /\ a.ad.index = ad.index
  /\ a.ad.reason = IF adapter = "anthropic" /\ e.kind = "reason" THEN e.n ELSE ad.reason
  /\ e.kind \notin {"reason", "stop", "error"} => a.chunks \in {<<>>, <<Role>>}
  /\ e.kind = "reason" => a.chunks = IF adapter = "anthropic" THEN <<>> ELSE <<Finish(e.n)>>
  /\ e.kind = "stop"   => a.chunks = EndChunks(e)
  /\ e.kind = "error"  => a.chunks = IF adapter = "anthropic" THEN <<>> ELSE <<Error, Done>>

LEMMA ControlAdapted ==
  ASSUME NEW e \in Events, e.kind \notin Pieces, ad \in Ads,
         adapter \in {"openai", "anthropic", "codex", "oneshot", "task"},
         e.kind = "reason" => adapter # "codex" /\ e.n \in Ends,
         e.kind \in {"open", "close", "error"} => Blockwise(adapter)
  PROVE  FitsControl(e, Adapted(e))
<1>1. e.kind \in {"message", "open", "close", "reason", "stop", "error"}
  BY DEF Events, EventKinds, Pieces
<1>2. CASE adapter = "anthropic"
  <2>1. Adapted(e) = FromAnthropic(e) BY <1>2, Zenon DEF Adapted
  <2>2. CASE e.kind = "open" \/ e.kind = "close"
    <3> DEFINE l == [ad EXCEPT !.block = "text"]
    <3>1. FromAnthropic(e) = Result(<<>>, l) BY <2>2, Zenon DEF FromAnthropic
    <3>2. l \in Ads /\ l.calls = ad.calls /\ l.index = ad.index /\ l.reason = ad.reason
      BY SetBlock
    <3> HIDE DEF l
    <3>3. Adapted(e).chunks = <<>> /\ Adapted(e).ad = l BY <2>1, <3>1, ResultFields
    <3> QED BY <2>2, <3>2, <3>3 DEF FitsControl
  <2>3. CASE e.kind = "reason"
    <3> DEFINE l == [ad EXCEPT !.reason = e.n]
    <3>1. FromAnthropic(e) = Result(<<>>, l) BY <2>3, Zenon DEF FromAnthropic
    <3>2. l \in Ads /\ l.calls = ad.calls /\ l.index = ad.index /\ l.reason = e.n
      BY <2>3, SetReason
    <3> HIDE DEF l
    <3>3. Adapted(e).chunks = <<>> /\ Adapted(e).ad = l BY <2>1, <3>1, ResultFields
    <3> QED BY <1>2, <2>3, <3>2, <3>3 DEF FitsControl
  <2>4. CASE e.kind = "stop"
    <3> DEFINE l == [ad EXCEPT !.role = TRUE]
               c == IfNoRole \o <<Finish(ad.reason), Done>>
    <3>1. FromAnthropic(e) = Result(c, l) BY <2>4, Zenon DEF FromAnthropic
    <3>2. l \in Ads /\ l.calls = ad.calls /\ l.index = ad.index /\ l.reason = ad.reason
      BY SetRole
    <3>4. EndChunks(e) = c BY <1>2 DEF EndChunks
    <3> HIDE DEF l, c
    <3>3. Adapted(e).chunks = c /\ Adapted(e).ad = l BY <2>1, <3>1, ResultFields
    <3> QED BY <2>4, <3>2, <3>3, <3>4 DEF FitsControl
  <2>5. CASE e.kind = "message" \/ e.kind = "error"
    <3>1. FromAnthropic(e) = Result(<<>>, ad) BY <2>5, Zenon DEF FromAnthropic
    <3>3. Adapted(e).chunks = <<>> /\ Adapted(e).ad = ad BY <2>1, <3>1, ResultFields
    <3> QED BY <1>2, <2>5, <3>3 DEF FitsControl
  <2> QED BY <1>1, <2>2, <2>3, <2>4, <2>5
<1>3. CASE adapter = "codex"
  <2>1. Adapted(e) = FromCodex(e) BY <1>3, Zenon DEF Adapted
  <2>2. CASE e.kind = "open"
    <3>1. FromCodex(e) = Result(<<Role>>, ad) BY <2>2, Zenon DEF FromCodex
    <3>3. Adapted(e).chunks = <<Role>> /\ Adapted(e).ad = ad BY <2>1, <3>1, ResultFields
    <3> QED BY <1>3, <2>2, <3>3 DEF FitsControl
  <2>3. CASE e.kind = "stop"
    <3> DEFINE c == <<Finish(IF ad.calls > 0 THEN "tool_calls" ELSE e.n), Done>>
    <3>1. FromCodex(e) = Result(c, ad) BY <2>3, Zenon DEF FromCodex
    <3>4. EndChunks(e) = c BY <1>3, Zenon DEF EndChunks
    <3> HIDE DEF c
    <3>3. Adapted(e).chunks = c /\ Adapted(e).ad = ad BY <2>1, <3>1, ResultFields
    <3> QED BY <1>3, <2>3, <3>3, <3>4 DEF FitsControl
  <2>4. CASE e.kind = "error"
    <3>1. FromCodex(e) = Result(<<Error, Done>>, ad) BY <2>4, Zenon DEF FromCodex
    <3>3. Adapted(e).chunks = <<Error, Done>> /\ Adapted(e).ad = ad BY <2>1, <3>1, ResultFields
    <3> QED BY <1>3, <2>4, <3>3 DEF FitsControl
  <2>5. CASE e.kind = "message" \/ e.kind = "close"
    <3>1. FromCodex(e) = Result(<<>>, ad) BY <2>5, Zenon DEF FromCodex
    <3>3. Adapted(e).chunks = <<>> /\ Adapted(e).ad = ad BY <2>1, <3>1, ResultFields
    <3> QED BY <1>3, <2>5, <3>3 DEF FitsControl
  <2> QED BY <1>1, <1>3, <2>2, <2>3, <2>4, <2>5
<1>4. CASE adapter \in {"openai", "oneshot", "task"}
  <2>1. Adapted(e) = PassedThrough(e) BY <1>4, Zenon DEF Adapted
  <2>2. CASE e.kind = "message"
    <3>1. PassedThrough(e) = Result(<<Role>>, ad) BY <2>2, Zenon DEF PassedThrough
    <3>3. Adapted(e).chunks = <<Role>> /\ Adapted(e).ad = ad BY <2>1, <3>1, ResultFields
    <3> QED BY <1>4, <2>2, <3>3 DEF FitsControl
  <2>3. CASE e.kind = "reason"
    <3>1. PassedThrough(e) = Result(<<Finish(e.n)>>, ad) BY <2>3, Zenon DEF PassedThrough
    <3>3. Adapted(e).chunks = <<Finish(e.n)>> /\ Adapted(e).ad = ad
      BY <2>1, <3>1, ResultFields
    <3> QED BY <1>4, <2>3, <3>3 DEF FitsControl
  <2>4. CASE e.kind = "stop"
    <3>1. PassedThrough(e) = Result(<<Done>>, ad) BY <2>4, Zenon DEF PassedThrough
    <3>3. Adapted(e).chunks = <<Done>> /\ Adapted(e).ad = ad BY <2>1, <3>1, ResultFields
    <3>4. EndChunks(e) = <<Done>> BY <1>4 DEF EndChunks
    <3> QED BY <1>4, <2>4, <3>3, <3>4 DEF FitsControl
  <2> QED BY <1>1, <1>4, <2>2, <2>3, <2>4 DEF Blockwise
<1> QED BY <1>2, <1>3, <1>4

-----------------------------------------------------------------------------
(* Frames that carry no piece, several at a time.                           *)

Bare == {f \in Frames : f.kind \notin {"text", "args"} /\ (f.kind = "open" => f.call = None)}

LEMMA Concat ==
  ASSUME NEW o \in Seq(Frames), NEW s \in Seq(Frames)
  PROVE  /\ o \o s \in Seq(Frames) /\ Len(o) \in Nat /\ Len(s) \in Nat
         /\ Len(o \o s) = Len(o) + Len(s)
         /\ \A i \in 1 .. Len(o) : (o \o s)[i] = o[i]
         /\ \A i \in 1 .. Len(s) : (o \o s)[Len(o) + i] = s[i]
         /\ \A i \in 1 .. Len(o \o s) :
              i \in 1 .. Len(o) \/ (i > Len(o) /\ i - Len(o) \in 1 .. Len(s))
<1>1. /\ o \o s \in Seq(Frames) /\ Len(o) \in Nat /\ Len(s) \in Nat
      /\ Len(o \o s) = Len(o) + Len(s)
  OBVIOUS
<1>2. \A i \in 1 .. Len(o) : (o \o s)[i] = o[i] OBVIOUS
<1>3. \A i \in 1 .. Len(s) : (o \o s)[Len(o) + i] = s[i] OBVIOUS
<1>4. \A i \in 1 .. Len(o \o s) :
        i \in 1 .. Len(o) \/ (i > Len(o) /\ i - Len(o) \in 1 .. Len(s))
  BY <1>1
<1> QED BY <1>1, <1>2, <1>3, <1>4

(* Frames of other kinds add no position of a kind.                         *)
LEMMA ConcatPositions ==
  ASSUME NEW o \in Seq(Frames), NEW s \in Seq(Frames), NEW kind,
         \A i \in 1 .. Len(s) : s[i].kind # kind
  PROVE  Positions(o \o s, kind) = Positions(o, kind)
<1> DEFINE p == o \o s
<1>1. /\ p \in Seq(Frames) /\ Len(o) \in Nat /\ Len(s) \in Nat /\ Len(p) = Len(o) + Len(s)
      /\ \A i \in 1 .. Len(o) : p[i] = o[i]
      /\ \A i \in 1 .. Len(s) : p[Len(o) + i] = s[i]
      /\ \A i \in 1 .. Len(p) :
           i \in 1 .. Len(o) \/ (i > Len(o) /\ i - Len(o) \in 1 .. Len(s))
  BY Concat
<1> HIDE DEF p
<1>2. DOMAIN p = 1 .. Len(p) /\ DOMAIN o = 1 .. Len(o) BY <1>1
<1>3. \A i \in 1 .. Len(o) : i \in 1 .. Len(p) BY <1>1
<1>4. ASSUME NEW i \in 1 .. Len(p), p[i].kind = kind PROVE i \in 1 .. Len(o)
  <2> SUFFICES ASSUME i - Len(o) \in 1 .. Len(s) PROVE FALSE BY <1>1
  <2>1. p[Len(o) + (i - Len(o))] = s[i - Len(o)] BY <1>1
  <2>2. Len(o) + (i - Len(o)) = i BY <1>1
  <2> QED BY <1>4, <2>1, <2>2
<1>5. Positions(p, kind) = Positions(o, kind) BY <1>1, <1>2, <1>3, <1>4 DEF Positions
<1> QED BY <1>5 DEF p

LEMMA BareTells ==
  ASSUME NEW o, NEW texts, NEW calls, NEW args, Tells(o, texts, calls, args),
         NEW s \in Seq(Bare)
  PROVE  /\ Tells(o \o s, texts, calls, args) /\ OpenedIn(o \o s) = OpenedIn(o)
         /\ \A i \in OpenedIn(o) : (o \o s)[i] = o[i]
<1> DEFINE p == o \o s
<1>1. o \in Seq(Frames) /\ DOMAIN o = 1 .. Len(o) BY DEF Tells
<1>2. /\ s \in Seq(Frames)
      /\ \A i \in 1 .. Len(s) : /\ s[i].kind \notin {"text", "args"}
                                /\ s[i].kind = "open" => s[i].call = None
  BY DEF Bare
<1>3. /\ p \in Seq(Frames) /\ Len(o) \in Nat /\ Len(p) = Len(o) + Len(s)
      /\ \A i \in 1 .. Len(o) : p[i] = o[i] /\ i \in 1 .. Len(p)
      /\ \A i \in 1 .. Len(s) : p[Len(o) + i] = s[i]
      /\ \A i \in 1 .. Len(p) :
           i \in 1 .. Len(o) \/ (i > Len(o) /\ i - Len(o) \in 1 .. Len(s))
  <2>1. \A i \in 1 .. Len(o) : i \in 1 .. Len(p) BY <1>1, <1>2, Concat
  <2> QED BY <1>1, <1>2, <2>1, Concat
<1>4. Positions(p, "text") = Positions(o, "text") /\ Positions(p, "args") = Positions(o, "args")
  BY <1>1, <1>2, ConcatPositions
<1> HIDE DEF p
<1>5. /\ Positions(o, "text") \subseteq 1 .. Len(o) /\ Positions(o, "args") \subseteq 1 .. Len(o)
      /\ Positions(o, "open") \subseteq 1 .. Len(o)
      /\ OpenedIn(o) \subseteq 1 .. Len(o) /\ \A x : ArgsOf(o, x) \subseteq 1 .. Len(o)
  BY <1>1 DEF Positions, OpenedIn, ArgsOf
<1>6. ASSUME NEW x PROVE ArgsOf(p, x) = ArgsOf(o, x) BY <1>3, <1>4, <1>5 DEF ArgsOf
<1>7. DOMAIN p = 1 .. Len(p) BY <1>3
<1>8. ASSUME NEW i \in OpenedIn(p) PROVE i \in 1 .. Len(o)
  <2>1. i \in 1 .. Len(p) /\ p[i].kind = "open" /\ p[i].call # None
    BY <1>7 DEF OpenedIn, Positions
  <2> SUFFICES ASSUME i - Len(o) \in 1 .. Len(s) PROVE FALSE BY <1>3, <2>1
  <2>2. p[Len(o) + (i - Len(o))] = s[i - Len(o)] BY <1>3
  <2>3. Len(o) + (i - Len(o)) = i BY <1>3, <2>1
  <2> QED BY <1>2, <2>1, <2>2, <2>3
<1>9. OpenedIn(p) = OpenedIn(o)
  <2>1. \A i \in 1 .. Len(o) : i \in OpenedIn(p) <=> i \in OpenedIn(o)
    BY <1>1, <1>3, <1>7 DEF OpenedIn, Positions
  <2> QED BY <1>5, <1>8, <2>1
<1>10. Numbered(p, Positions(p, "text")) BY <1>3, <1>4, <1>5 DEF Tells, Numbered
<1>11. ASSUME NEW x \in 1 .. MaxCalls PROVE Numbered(p, ArgsOf(p, x))
  <2>1. \A i \in ArgsOf(o, x) : p[i] = o[i] BY <1>3, <1>5
  <2>2. Numbered(o, ArgsOf(o, x)) BY DEF Tells
  <2>3. Numbered(p, ArgsOf(o, x)) BY <2>1, <2>2 DEF Numbered
  <2> QED BY <1>6, <2>3
<1>12. CallsApart(p) BY <1>3, <1>5, <1>9 DEF Tells, CallsApart
<1>13. {p[i].call : i \in OpenedIn(p)} = 1 .. calls
  <2>1. \A i \in OpenedIn(o) : p[i] = o[i] BY <1>3, <1>5
  <2> QED BY <1>9, <2>1 DEF Tells
<1>14. ArgsFollowCall(p) BY <1>3, <1>4, <1>5, <1>9, ZenonT(30) DEF Tells, ArgsFollowCall
<1>15. \A i \in OpenedIn(o) : p[i] = o[i] BY <1>3, <1>5
<1>16. Tells(p, texts, calls, args)
  BY <1>3, <1>4, <1>6, <1>10, <1>11, <1>12, <1>13, <1>14 DEF Tells
<1> QED BY <1>9, <1>15, <1>16 DEF p

-----------------------------------------------------------------------------
(* The translator takes the chunks of a list one after the other.           *)

NewFrames == [frames |-> <<>>, t |-> tr]

StepOf(context, acc, chunk) == AcceptNext(acc, chunk)
HeldBy(context, k, acc) == acc = context[k + 1]

Accepting == INSTANCE FoldInduction WITH Step <- StepOf, Holds <- HeldBy, Last <- Max

LEMMA MaxIsGreatest ==
  ASSUME NEW S \in SUBSET Nat, NEW m \in S, \A k \in S : k <= m PROVE Max(S) = m
<1> DEFINE greatest == CHOOSE x \in S : \A y \in S : x >= y
<1>1. greatest \in S /\ \A y \in S : greatest >= y
  <2>1. \A y \in S : m >= y OBVIOUS
  <2> QED BY <2>1
<1>2. greatest = m
  <2> HIDE DEF greatest
  <2> QED BY <1>1
<1> QED BY <1>2 DEF Max

(* What AcceptAll expands to.                                               *)
LEMMA AcceptingFold ==
  ASSUME NEW context, NEW base, NEW seq, NEW n \in Nat, DOMAIN seq = 1 .. n,
         HeldBy(context, 0, base),
         \A k \in 1 .. n : \A acc :
           HeldBy(context, k - 1, acc) => HeldBy(context, k, StepOf(context, acc, seq[k]))
  PROVE  HeldBy(context, n,
           (CHOOSE iter : iter =
              [s \in SUBSET DOMAIN seq |->
                 IF s = {} THEN base
                 ELSE StepOf(context, iter[s \ {Max(s)}], seq[Max(s)])])[DOMAIN seq])
BY MaxIsGreatest, Accepting!FoldInvariant

LEMMA HeldNext ==
  ASSUME NEW context, NEW seq, NEW n \in Nat,
         \A k \in 1 .. n : context[k + 1] = AcceptNext(context[k], seq[k])
  PROVE  \A k \in 1 .. n : \A acc :
           HeldBy(context, k - 1, acc) => HeldBy(context, k, StepOf(context, acc, seq[k]))
<1> SUFFICES ASSUME NEW k \in 1 .. n, NEW acc, HeldBy(context, k - 1, acc)
             PROVE  HeldBy(context, k, StepOf(context, acc, seq[k]))
  OBVIOUS
<1>1. (k - 1) + 1 = k OBVIOUS
<1> QED BY <1>1 DEF HeldBy, StepOf

LEMMA AcceptFew ==
  /\ AcceptAll(<<>>) = NewFrames
  /\ \A c : AcceptAll(<<c>>) = AcceptNext(NewFrames, c)
  /\ \A c, d : AcceptAll(<<c, d>>) = AcceptNext(AcceptNext(NewFrames, c), d)
<1> DEFINE base == NewFrames
<1>1. AcceptAll(<<>>) = base
  <2> DEFINE chunks == <<>>
             context == <<base>>
  <2>1. 0 \in Nat /\ context[1] = base /\ context[0 + 1] = base OBVIOUS
  <2>2. DOMAIN chunks = 1 .. 0 OBVIOUS
  <2>3. \A k \in 1 .. 0 : FALSE OBVIOUS
  <2> HIDE DEF context, chunks, base
  <2>6. \A k \in 1 .. 0 : \A acc :
          HeldBy(context, k - 1, acc) => HeldBy(context, k, StepOf(context, acc, chunks[k]))
    BY <2>3
  <2>7. HeldBy(context, 0, base) BY <2>1 DEF HeldBy
  <2>4. HeldBy(context, 0,
           (CHOOSE iter : iter =
              [s \in SUBSET DOMAIN chunks |->
                 IF s = {} THEN base
                 ELSE StepOf(context, iter[s \ {Max(s)}], chunks[Max(s)])])[DOMAIN chunks])
    BY <2>1, <2>2, <2>6, <2>7, AcceptingFold
  <2>5. HeldBy(context, 0, AcceptAll(chunks))
    BY <2>4, Zenon DEF base, NewFrames, StepOf, AcceptAll, FoldLeft, MapThenFoldSet
  <2> QED BY <2>1, <2>5 DEF HeldBy, chunks
<1>2. ASSUME NEW c PROVE AcceptAll(<<c>>) = AcceptNext(base, c)
  <2> DEFINE chunks == <<c>>
             context == <<base, AcceptNext(base, c)>>
  <2>1. 1 \in Nat /\ context[1] = base /\ context[1 + 1] = AcceptNext(base, c) OBVIOUS
  <2>2. DOMAIN chunks = 1 .. 1 /\ chunks[1] = c OBVIOUS
  <2>3. \A k \in 1 .. 1 : k = 1 OBVIOUS
  <2> HIDE DEF context, chunks, base
  <2>8. \A k \in 1 .. 1 : context[k + 1] = AcceptNext(context[k], chunks[k])
    BY <2>1, <2>2, <2>3
  <2>6. \A k \in 1 .. 1 : \A acc :
          HeldBy(context, k - 1, acc) => HeldBy(context, k, StepOf(context, acc, chunks[k]))
    BY <2>1, <2>8, HeldNext
  <2>9. 1 \in Nat /\ DOMAIN chunks = 1 .. 1 BY <2>2
  <2>7. HeldBy(context, 0, base) BY <2>1 DEF HeldBy
  <2>4. HeldBy(context, 1,
           (CHOOSE iter : iter =
              [s \in SUBSET DOMAIN chunks |->
                 IF s = {} THEN base
                 ELSE StepOf(context, iter[s \ {Max(s)}], chunks[Max(s)])])[DOMAIN chunks])
    BY <2>9, <2>6, <2>7, AcceptingFold, Zenon
  <2>5. HeldBy(context, 1, AcceptAll(chunks))
    BY <2>4, Zenon DEF base, NewFrames, StepOf, AcceptAll, FoldLeft, MapThenFoldSet
  <2> QED BY <2>1, <2>5 DEF HeldBy, chunks
<1>3. ASSUME NEW c, NEW d
      PROVE  AcceptAll(<<c, d>>) = AcceptNext(AcceptNext(base, c), d)
  <2> DEFINE one == AcceptNext(base, c)
             chunks == <<c, d>>
             context == <<base, one, AcceptNext(one, d)>>
  <2>1. /\ 2 \in Nat /\ context[1] = base /\ context[1 + 1] = one /\ context[2] = one
        /\ context[2 + 1] = AcceptNext(one, d)
    OBVIOUS
  <2>2. DOMAIN chunks = 1 .. 2 /\ chunks[1] = c /\ chunks[2] = d OBVIOUS
  <2>3. \A k \in 1 .. 2 : k = 1 \/ k = 2 OBVIOUS
  <2> HIDE DEF context, chunks, base
  <2>8. \A k \in 1 .. 2 : context[k + 1] = AcceptNext(context[k], chunks[k])
    BY <2>1, <2>2, <2>3 DEF one
  <2>6. \A k \in 1 .. 2 : \A acc :
          HeldBy(context, k - 1, acc) => HeldBy(context, k, StepOf(context, acc, chunks[k]))
    BY <2>1, <2>8, HeldNext
  <2>9. 2 \in Nat /\ DOMAIN chunks = 1 .. 2 BY <2>2
  <2>7. HeldBy(context, 0, base) BY <2>1 DEF HeldBy
  <2> HIDE DEF one
  <2>4. HeldBy(context, 2,
           (CHOOSE iter : iter =
              [s \in SUBSET DOMAIN chunks |->
                 IF s = {} THEN base
                 ELSE StepOf(context, iter[s \ {Max(s)}], chunks[Max(s)])])[DOMAIN chunks])
    BY <2>9, <2>6, <2>7, AcceptingFold, Zenon
  <2>5. HeldBy(context, 2, AcceptAll(chunks))
    BY <2>4, Zenon DEF base, NewFrames, StepOf, AcceptAll, FoldLeft, MapThenFoldSet
  <2> QED BY <2>1, <2>5 DEF HeldBy, chunks, one
<1> QED BY <1>1, <1>2, <1>3

LEMMA AcceptedOne ==
  ASSUME NEW c, NEW t, t = tr, Accept(t, c).frames \in Seq(Frames)
  PROVE  /\ AcceptAll(<<c>>).frames = Accept(t, c).frames
         /\ AcceptAll(<<c>>).t = Accept(t, c).t
<1> DEFINE next == Accept(t, c)
<1>1. AcceptNext(NewFrames, c) = [frames |-> <<>> \o next.frames, t |-> next.t]
  BY DEF AcceptNext, NewFrames
<1> HIDE DEF next
<1>2. <<>> \o next.frames = next.frames BY ConcatEmptySeq DEF next
<1>3. AcceptNext(NewFrames, c) = [frames |-> next.frames, t |-> next.t] BY <1>1, <1>2
<1>4. AcceptAll(<<c>>) = AcceptNext(NewFrames, c) BY AcceptFew
<1> QED BY <1>3, <1>4 DEF next

LEMMA AcceptedTwo ==
  ASSUME NEW c, NEW d, NEW t, NEW u,
         Accept(tr, c) = [frames |-> <<>>, t |-> t], Accept(t, d) = [frames |-> <<>>, t |-> u]
  PROVE  AcceptAll(<<c, d>>).frames = <<>> /\ AcceptAll(<<c, d>>).t = u
<1> DEFINE one == AcceptNext(NewFrames, c)
           next == Accept(tr, c)
           after == Accept(t, d)
<1>0. <<>> \o <<>> = <<>> OBVIOUS
<1>1. one = [frames |-> <<>> \o next.frames, t |-> next.t]
  BY DEF AcceptNext, NewFrames
<1>2. next.frames = <<>> /\ next.t = t /\ after.frames = <<>> /\ after.t = u OBVIOUS
<1> HIDE DEF next
<1>3. one = [frames |-> <<>>, t |-> t] BY <1>0, <1>1, <1>2
<1> HIDE DEF one
<1>4. one.frames = <<>> /\ one.t = t BY <1>3
<1>5. AcceptNext(one, d) = [frames |-> one.frames \o after.frames, t |-> after.t]
  BY <1>4 DEF AcceptNext
<1> HIDE DEF after
<1>6. AcceptNext(one, d) = [frames |-> <<>>, t |-> u] BY <1>0, <1>2, <1>4, <1>5
<1>7. AcceptAll(<<c, d>>) = AcceptNext(one, d) BY AcceptFew DEF one
<1> QED BY <1>6, <1>7

LEMMA AcceptedNone == AcceptAll(<<>>).frames = <<>> /\ AcceptAll(<<>>).t = tr
BY AcceptFew DEF NewFrames

-----------------------------------------------------------------------------
(* The translator after the chunks of so many calls.                        *)

Translators(calls) ==
  [next : Nat, textAt : Number, callAt : [0 .. calls - 1 -> Nat], reason : Ends,
   done : BOOLEAN, fails : BOOLEAN]

LEMMA SetNext ==
  ASSUME NEW calls, NEW t \in Translators(calls), NEW n \in Nat
  PROVE  LET u == [t EXCEPT !.next = n]
         IN  /\ u \in Translators(calls) /\ u.next = n /\ u.textAt = t.textAt
             /\ u.callAt = t.callAt /\ u.reason = t.reason /\ u.done = t.done
             /\ u.fails = t.fails
BY DEF Translators

LEMMA SetTextAt ==
  ASSUME NEW calls, NEW t \in Translators(calls), NEW n \in Nat
  PROVE  LET u == [t EXCEPT !.textAt = n]
         IN  /\ u \in Translators(calls) /\ u.next = t.next /\ u.textAt = n
             /\ u.callAt = t.callAt /\ u.reason = t.reason /\ u.done = t.done
             /\ u.fails = t.fails
BY DEF Translators, Number

LEMMA SetCallAt ==
  ASSUME NEW calls, NEW more, NEW t \in Translators(calls), NEW f \in [0 .. more - 1 -> Nat]
  PROVE  LET u == [t EXCEPT !.callAt = f]
         IN  /\ u \in Translators(more) /\ u.next = t.next /\ u.textAt = t.textAt
             /\ u.callAt = f /\ u.reason = t.reason /\ u.done = t.done
             /\ u.fails = t.fails
BY DEF Translators

LEMMA SetFails ==
  ASSUME NEW calls, NEW t \in Translators(calls)
  PROVE  LET u == [t EXCEPT !.fails = TRUE]
         IN  /\ u \in Translators(calls) /\ u.next = t.next /\ u.textAt = t.textAt
             /\ u.callAt = t.callAt /\ u.reason = t.reason /\ u.done = t.done
             /\ u.fails = TRUE
BY DEF Translators

LEMMA SetDone ==
  ASSUME NEW calls, NEW t \in Translators(calls)
  PROVE  LET u == [t EXCEPT !.done = TRUE]
         IN  /\ u \in Translators(calls) /\ u.next = t.next /\ u.textAt = t.textAt
             /\ u.callAt = t.callAt /\ u.reason = t.reason /\ u.done = TRUE
             /\ u.fails = t.fails
BY DEF Translators

LEMMA SetEnd ==
  ASSUME NEW calls, NEW t \in Translators(calls), NEW r \in Ends
  PROVE  LET u == [t EXCEPT !.reason = r]
         IN  /\ u \in Translators(calls) /\ u.next = t.next /\ u.textAt = t.textAt
             /\ u.callAt = t.callAt /\ u.reason = r /\ u.done = t.done
             /\ u.fails = t.fails
BY DEF Translators

TextOpened(t) == [t EXCEPT !.textAt = t.next, !.next = @ + 1]
CallOpened(t, calls) == [t EXCEPT !.callAt = With(@, calls, t.next), !.next = @ + 1]

LEMMA OpensText ==
  ASSUME NEW calls, NEW t \in Translators(calls)
  PROVE  LET u == TextOpened(t)
         IN  /\ u \in Translators(calls) /\ u.next = t.next + 1 /\ u.textAt = t.next
             /\ u.callAt = t.callAt /\ u.reason = t.reason /\ u.done = t.done
             /\ u.fails = t.fails
<1> DEFINE v == [t EXCEPT !.textAt = t.next]
           u == [v EXCEPT !.next = t.next + 1]
<1>0. t.next \in Nat /\ t.next + 1 \in Nat BY DEF Translators
<1>1. /\ v \in Translators(calls) /\ v.next = t.next /\ v.textAt = t.next
      /\ v.callAt = t.callAt /\ v.reason = t.reason /\ v.done = t.done /\ v.fails = t.fails
  BY <1>0, SetTextAt
<1>2. TextOpened(t) = u BY DEF TextOpened, Translators
<1> HIDE DEF v
<1>3. /\ u \in Translators(calls) /\ u.next = t.next + 1 /\ u.textAt = t.next
      /\ u.callAt = t.callAt /\ u.reason = t.reason /\ u.done = t.done /\ u.fails = t.fails
  BY <1>0, <1>1, SetNext
<1> QED BY <1>2, <1>3

LEMMA OpensCall ==
  ASSUME NEW calls \in Nat, NEW t \in Translators(calls)
  PROVE  LET u == CallOpened(t, calls)
         IN  /\ u \in Translators(calls + 1) /\ u.next = t.next + 1 /\ u.textAt = t.textAt
             /\ \A x \in 0 .. calls - 1 : u.callAt[x] = t.callAt[x]
             /\ u.callAt[calls] = t.next
             /\ u.reason = t.reason /\ u.done = t.done /\ u.fails = t.fails
<1> DEFINE f == With(t.callAt, calls, t.next)
           v == [t EXCEPT !.callAt = f]
           u == [v EXCEPT !.next = t.next + 1]
<1>0. t.next \in Nat /\ t.next + 1 \in Nat /\ t.callAt \in [0 .. calls - 1 -> Nat]
  BY DEF Translators
<1>4. /\ f \in [0 .. (calls + 1) - 1 -> Nat] /\ f[calls] = t.next
      /\ \A x \in 0 .. calls - 1 : f[x] = t.callAt[x]
  <2>1. DOMAIN t.callAt \cup {calls} = 0 .. (calls + 1) - 1 BY <1>0
  <2>2. \A x \in 0 .. calls - 1 : x # calls OBVIOUS
  <2> QED BY <1>0, <2>1, <2>2 DEF With
<1>2. CallOpened(t, calls) = u BY DEF CallOpened, Translators
<1> HIDE DEF f
<1>1. /\ v \in Translators(calls + 1) /\ v.next = t.next /\ v.textAt = t.textAt
      /\ v.callAt = f /\ v.reason = t.reason /\ v.done = t.done /\ v.fails = t.fails
  BY <1>4, SetCallAt
<1> HIDE DEF v
<1>3. /\ u \in Translators(calls + 1) /\ u.next = t.next + 1 /\ u.textAt = t.textAt
      /\ u.callAt = f /\ u.reason = t.reason /\ u.done = t.done /\ u.fails = t.fails
  BY <1>0, <1>1, SetNext
<1> QED BY <1>2, <1>3, <1>4

(* Its blocks: those of the calls and of the text are apart.                *)
TranslatorOK(t, calls) ==
  /\ t \in Translators(calls)
  /\ t.next = IF t.textAt = None THEN calls ELSE calls + 1
  /\ t.textAt # None => t.textAt < t.next
  /\ \A x \in 0 .. calls - 1 : t.callAt[x] < t.next /\ t.callAt[x] # t.textAt

OpensInOrder(o) ==
  \A i \in Positions(o, "open") :
    o[i].index = Cardinality({j \in Positions(o, "open") : j < i})
TextFollowsBlock(o) ==
  \A i \in Positions(o, "text") : \E j \in Positions(o, "open") :
    j < i /\ o[j].index = o[i].index /\ o[j].call = None

(* The blocks the client was told of are the translator's.                  *)
Blocks(o, t, calls) ==
  /\ Positions(o, "start") = {1}
  /\ Cardinality(Positions(o, "open")) = t.next /\ OpensInOrder(o)
  /\ \A i \in OpenedIn(o) : o[i].call \in 1 .. calls /\ o[i].index = t.callAt[o[i].call - 1]
  /\ \A i \in Positions(o, "open") :
       o[i].call = None => t.textAt # None /\ o[i].index = t.textAt
  /\ t.textAt # None =>
       \E i \in Positions(o, "open") : o[i].call = None /\ o[i].index = t.textAt
  /\ TextFollowsBlock(o)
  /\ Positions(o, "close") = {} /\ Positions(o, "finish") = {} /\ Positions(o, "stop") = {}

(* A frame that opens no block.                                             *)
LEMMA DeltaBlocks ==
  ASSUME NEW o \in Seq(Frames), NEW t, NEW calls, Blocks(o, t, calls),
         NEW f \in Frames, f.kind \in {"text", "args"},
         f.kind = "text" => f.index = t.textAt /\ t.textAt # None
  PROVE  Blocks(Append(o, f), t, calls)
<1> DEFINE p == Append(o, f)
<1>1. /\ p \in Seq(Frames) /\ Len(o) \in Nat
      /\ \A i \in 1 .. Len(o) : p[i] = o[i]
      /\ p[Len(o) + 1] = f
      /\ \A k : Positions(o, k) \subseteq 1 .. Len(o)
      /\ OpenedIn(o) \subseteq 1 .. Len(o)
      /\ \A k : Positions(p, k) =
           IF f.kind = k THEN Positions(o, k) \cup {Len(o) + 1} ELSE Positions(o, k)
      /\ OpenedIn(p) = OpenedIn(o)
  BY AppendTells
<1> HIDE DEF p
<1>2. /\ Positions(p, "start") = {1} /\ Positions(p, "close") = {}
      /\ Positions(p, "finish") = {} /\ Positions(p, "stop") = {}
      /\ Positions(p, "open") = Positions(o, "open")
  BY <1>1 DEF Blocks
<1>3. \A i \in Positions(o, "open") : p[i] = o[i] /\ i < Len(o) + 1 BY <1>1
<1>4. OpensInOrder(p) BY <1>2, <1>3 DEF Blocks, OpensInOrder
<1>5. \A i \in OpenedIn(o) : p[i] = o[i] BY <1>1
<1>6. TextFollowsBlock(p)
  <2> SUFFICES ASSUME NEW i \in Positions(p, "text")
               PROVE  \E j \in Positions(o, "open") :
                        j < i /\ p[j].index = p[i].index /\ p[j].call = None
    BY <1>2 DEF TextFollowsBlock
  <2>1. CASE i \in Positions(o, "text")
    <3>1. p[i] = o[i] BY <1>1, <2>1
    <3> QED BY <1>3, <2>1, <3>1 DEF Blocks, TextFollowsBlock
  <2>2. CASE f.kind = "text" /\ i = Len(o) + 1 BY <1>1, <1>3, <2>2 DEF Blocks
  <2> QED BY <1>1, <2>1, <2>2
<1> QED BY <1>1, <1>2, <1>3, <1>4, <1>5, <1>6 DEF Blocks, p

LEMMA OpenAppended ==
  ASSUME NEW o \in Seq(Frames), NEW f \in Frames, f.kind = "open",
         f.index = Cardinality(Positions(o, "open")), OpensInOrder(o), TextFollowsBlock(o)
  PROVE  /\ OpensInOrder(Append(o, f)) /\ TextFollowsBlock(Append(o, f))
         /\ Cardinality(Positions(Append(o, f), "open")) = Cardinality(Positions(o, "open")) + 1
<1> DEFINE p == Append(o, f)
           S == Positions(o, "open")
<1>1. /\ p \in Seq(Frames) /\ Len(o) \in Nat
      /\ \A i \in 1 .. Len(o) : p[i] = o[i]
      /\ p[Len(o) + 1] = f
      /\ S \subseteq 1 .. Len(o) /\ Positions(o, "text") \subseteq 1 .. Len(o)
      /\ Positions(p, "open") = S \cup {Len(o) + 1}
      /\ Positions(p, "text") = Positions(o, "text")
  BY AppendTells
<1> HIDE DEF p
<1>2. Cardinality(S \cup {Len(o) + 1}) = Cardinality(S) + 1 BY <1>1, CountNew
<1>3. ASSUME NEW i \in S \cup {Len(o) + 1}
      PROVE  p[i].index = Cardinality({j \in S \cup {Len(o) + 1} : j < i})
  <2>1. CASE i \in S
    <3>1. {j \in S \cup {Len(o) + 1} : j < i} = {j \in S : j < i} BY <1>1, <2>1
    <3> QED BY <1>1, <2>1, <3>1 DEF OpensInOrder
  <2>2. CASE i = Len(o) + 1
    <3>1. {j \in S \cup {Len(o) + 1} : j < i} = S BY <1>1, <2>2
    <3> QED BY <1>1, <2>2, <3>1
  <2> QED BY <2>1, <2>2
<1>4. OpensInOrder(p) BY <1>1, <1>3 DEF OpensInOrder
<1>5. TextFollowsBlock(p)
  <2>1. \A i \in Positions(o, "text") : p[i] = o[i] BY <1>1
  <2>2. \A j \in S : p[j] = o[j] /\ j \in Positions(p, "open") BY <1>1
  <2> QED BY <1>1, <2>1, <2>2 DEF TextFollowsBlock
<1> QED BY <1>1, <1>2, <1>4, <1>5 DEF p

LEMMA OpenFrame ==
  ASSUME NEW t, t.next \in Nat, NEW call \in Number
  PROVE  /\ OpenBlock(t, call) \in Frames /\ OpenBlock(t, call).kind = "open"
         /\ OpenBlock(t, call).index = t.next /\ OpenBlock(t, call).call = call
<1>1. /\ t.next \in Number /\ None \in Number \cup {"stop", "length", "tool_calls"}
      /\ "open" \in FrameKinds
  BY DEF Number, FrameKinds
<1> QED BY <1>1, FrameFields DEF OpenBlock

(* The block of the text is opened.                                         *)
LEMMA TextBlock ==
  ASSUME NEW o \in Seq(Frames), NEW calls \in Nat, NEW t, TranslatorOK(t, calls),
         Blocks(o, t, calls), t.textAt = None
  PROVE  LET u == TextOpened(t)
             f == OpenBlock(t, None)
         IN  /\ TranslatorOK(u, calls) /\ Blocks(Append(o, f), u, calls)
             /\ f \in Frames /\ f.kind = "open" /\ f.call = None
             /\ u.textAt = t.next /\ t.next \in Nat
<1> DEFINE u == TextOpened(t)
           f == OpenBlock(t, None)
           p == Append(o, f)
<1>1. /\ u \in Translators(calls) /\ u.next = t.next + 1 /\ u.textAt = t.next
      /\ u.callAt = t.callAt
  BY OpensText DEF TranslatorOK
<1>2. t.next = calls /\ t.next \in Nat /\ t.next # None BY DEF TranslatorOK
<1>3. f \in Frames /\ f.kind = "open" /\ f.index = t.next /\ f.call = None
  <2>1. None \in Number BY DEF Number
  <2> QED BY <1>2, <2>1, OpenFrame
<1>4. /\ p \in Seq(Frames) /\ Len(o) \in Nat
      /\ \A i \in 1 .. Len(o) : p[i] = o[i]
      /\ p[Len(o) + 1] = f
      /\ \A k : Positions(o, k) \subseteq 1 .. Len(o)
      /\ OpenedIn(o) \subseteq 1 .. Len(o)
      /\ \A k : Positions(p, k) =
           IF f.kind = k THEN Positions(o, k) \cup {Len(o) + 1} ELSE Positions(o, k)
      /\ OpenedIn(p) = OpenedIn(o)
  <2> HIDE DEF f
  <2> QED BY <1>3, AppendTells
<1> HIDE DEF u, f
<1>5. /\ OpensInOrder(p) /\ TextFollowsBlock(p) /\ Cardinality(Positions(p, "open")) = u.next
  BY <1>1, <1>3, OpenAppended DEF Blocks
<1> HIDE DEF p
<1>6. TranslatorOK(u, calls)
  <2>1. \A x \in 0 .. calls - 1 : u.callAt[x] < u.next /\ u.callAt[x] # u.textAt
    BY <1>1, <1>2 DEF TranslatorOK, Translators
  <2> QED BY <1>1, <1>2, <2>1 DEF TranslatorOK
<1>7. /\ Positions(p, "start") = {1} /\ Positions(p, "close") = {}
      /\ Positions(p, "finish") = {} /\ Positions(p, "stop") = {}
      /\ Positions(p, "open") = Positions(o, "open") \cup {Len(o) + 1}
  BY <1>3, <1>4 DEF Blocks
<1>8. \A i \in OpenedIn(p) : p[i].call \in 1 .. calls /\ p[i].index = u.callAt[p[i].call - 1]
  BY <1>1, <1>4 DEF Blocks
<1>9. \A i \in Positions(p, "open") :
        p[i].call = None => u.textAt # None /\ p[i].index = u.textAt
  BY <1>1, <1>2, <1>3, <1>4, <1>7 DEF Blocks
<1>10. \E i \in Positions(p, "open") : p[i].call = None /\ p[i].index = u.textAt
  BY <1>1, <1>3, <1>4, <1>7
<1>11. Blocks(p, u, calls) BY <1>5, <1>7, <1>8, <1>9, <1>10 DEF Blocks
<1> QED BY <1>1, <1>2, <1>3, <1>6, <1>11 DEF u, f, p

(* The block of a call is opened.                                           *)
LEMMA CallBlock ==
  ASSUME NEW o \in Seq(Frames), NEW calls \in Nat, NEW t, TranslatorOK(t, calls),
         Blocks(o, t, calls)
  PROVE  LET u == CallOpened(t, calls)
             f == OpenBlock(t, calls + 1)
         IN  /\ TranslatorOK(u, calls + 1) /\ Blocks(Append(o, f), u, calls + 1)
             /\ f \in Frames /\ f.kind = "open" /\ f.call = calls + 1
             /\ \A i \in OpenedIn(o) : o[i].index # f.index
<1> DEFINE u == CallOpened(t, calls)
           f == OpenBlock(t, calls + 1)
           p == Append(o, f)
<1>1. /\ u \in Translators(calls + 1) /\ u.next = t.next + 1 /\ u.textAt = t.textAt
      /\ \A x \in 0 .. calls - 1 : u.callAt[x] = t.callAt[x]
      /\ u.callAt[calls] = t.next
  BY OpensCall DEF TranslatorOK
<1>2. /\ t.next \in Nat /\ (t.textAt = None \/ t.textAt \in Nat)
      /\ t.next = IF t.textAt = None THEN calls ELSE calls + 1
      /\ t.callAt \in [0 .. calls - 1 -> Nat]
  BY DEF TranslatorOK, Translators, Number
<1>3. f \in Frames /\ f.kind = "open" /\ f.index = t.next /\ f.call = calls + 1 /\ f.call # None
  <2>1. calls + 1 \in Number /\ calls + 1 # None BY DEF Number
  <2> HIDE DEF f
  <2>2. f \in Frames /\ f.kind = "open" /\ f.index = t.next /\ f.call = calls + 1
    BY <1>2, <2>1, OpenFrame DEF f
  <2> QED BY <2>1, <2>2
<1>4. /\ p \in Seq(Frames) /\ Len(o) \in Nat
      /\ \A i \in 1 .. Len(o) : p[i] = o[i]
      /\ p[Len(o) + 1] = f
      /\ \A k : Positions(o, k) \subseteq 1 .. Len(o)
      /\ OpenedIn(o) \subseteq 1 .. Len(o)
      /\ \A k : Positions(p, k) =
           IF f.kind = k THEN Positions(o, k) \cup {Len(o) + 1} ELSE Positions(o, k)
      /\ OpenedIn(p) = OpenedIn(o) \cup {Len(o) + 1}
  <2> HIDE DEF f
  <2> QED BY <1>3, AppendTells
<1> HIDE DEF u, f
<1>5. /\ OpensInOrder(p) /\ TextFollowsBlock(p) /\ Cardinality(Positions(p, "open")) = u.next
  BY <1>1, <1>3, OpenAppended DEF Blocks
<1> HIDE DEF p
<1>6. TranslatorOK(u, calls + 1)
  <2>1. u.textAt # None => u.textAt < u.next BY <1>1, <1>2 DEF TranslatorOK
  <2>2. ASSUME NEW x \in 0 .. (calls + 1) - 1
        PROVE  u.callAt[x] < u.next /\ u.callAt[x] # u.textAt
    <3>1. CASE x = calls BY <1>1, <1>2, <3>1 DEF TranslatorOK
    <3>2. CASE x # calls
      <4>1. x \in 0 .. calls - 1 BY <3>2
      <4>2. u.callAt[x] = t.callAt[x] BY <1>1, <4>1
      <4>3. t.callAt[x] \in Nat BY <1>2, <4>1
      <4>4. t.callAt[x] < t.next /\ t.callAt[x] # t.textAt BY <4>1 DEF TranslatorOK
      <4> QED BY <1>1, <1>2, <4>2, <4>3, <4>4
    <3> QED BY <3>1, <3>2
  <2>3. u.next = IF u.textAt = None THEN calls + 1 ELSE (calls + 1) + 1 BY <1>1, <1>2
  <2> QED BY <1>1, <2>1, <2>2, <2>3 DEF TranslatorOK
<1>7. /\ Positions(p, "start") = {1} /\ Positions(p, "close") = {}
      /\ Positions(p, "finish") = {} /\ Positions(p, "stop") = {}
      /\ Positions(p, "open") = Positions(o, "open") \cup {Len(o) + 1}
  BY <1>3, <1>4 DEF Blocks
<1>8. ASSUME NEW i \in OpenedIn(p)
      PROVE  p[i].call \in 1 .. calls + 1 /\ p[i].index = u.callAt[p[i].call - 1]
  <2>1. CASE i \in OpenedIn(o)
    <3>1. p[i] = o[i] /\ o[i].call \in 1 .. calls /\ o[i].index = t.callAt[o[i].call - 1]
      BY <1>4, <2>1 DEF Blocks
    <3>2. o[i].call - 1 \in 0 .. calls - 1 BY <3>1
    <3> QED BY <1>1, <3>1, <3>2
  <2>2. CASE i = Len(o) + 1
    <3>1. p[i] = f /\ (calls + 1) - 1 = calls BY <1>4, <2>2
    <3> QED BY <1>1, <1>3, <3>1
  <2> QED BY <1>4, <2>1, <2>2
<1>9. \A i \in Positions(p, "open") :
        p[i].call = None => u.textAt # None /\ p[i].index = u.textAt
  BY <1>1, <1>3, <1>4, <1>7, ZenonT(30) DEF Blocks
<1>10. u.textAt # None =>
         \E i \in Positions(p, "open") : p[i].call = None /\ p[i].index = u.textAt
  <2> SUFFICES ASSUME t.textAt # None
               PROVE  \E i \in Positions(p, "open") : p[i].call = None /\ p[i].index = u.textAt
    BY <1>1
  <2>1. PICK i \in Positions(o, "open") : o[i].call = None /\ o[i].index = t.textAt
    BY DEF Blocks
  <2>2. p[i] = o[i] /\ i \in Positions(p, "open") BY <1>4, <1>7
  <2> QED BY <1>1, <2>1, <2>2
<1>11. Blocks(p, u, calls + 1) BY <1>5, <1>7, <1>8, <1>9, <1>10 DEF Blocks
<1>12. ASSUME NEW i \in OpenedIn(o) PROVE o[i].index # f.index
  <2>1. o[i].call \in 1 .. calls /\ o[i].index = t.callAt[o[i].call - 1] BY DEF Blocks
  <2>2. o[i].call - 1 \in 0 .. calls - 1 BY <2>1
  <2>3. t.callAt[o[i].call - 1] < t.next /\ t.callAt[o[i].call - 1] \in Nat
    BY <1>2, <2>2 DEF TranslatorOK
  <2> QED BY <1>2, <1>3, <2>1, <2>3
<1> QED BY <1>3, <1>6, <1>11, <1>12 DEF u, f, p

-----------------------------------------------------------------------------
(* A piece, translated.                                                     *)

LEMMA ConcatFew ==
  ASSUME NEW o \in Seq(Frames), NEW f \in Frames, NEW g \in Frames
  PROVE  /\ <<f>> \in Seq(Frames) /\ <<f, g>> \in Seq(Frames) /\ <<>> \in Seq(Frames)
         /\ o \o <<>> = o
         /\ o \o <<f>> = Append(o, f) /\ o \o <<f, g>> = Append(Append(o, f), g)
<1> DEFINE s == <<f, g>>
           p == Append(o, f)
           q == Append(p, g)
<1>1. <<f>> \in Seq(Frames) /\ s \in Seq(Frames) /\ Len(s) = 2 /\ s[1] = f /\ s[2] = g OBVIOUS
<1>2. o \o <<f>> = p BY AppendIsConcat
<1>3. o \o <<>> = o BY ConcatEmptySeq
<1>4. /\ p \in Seq(Frames) /\ Len(p) = Len(o) + 1 /\ p[Len(o) + 1] = f /\ Len(o) \in Nat
      /\ \A i \in 1 .. Len(o) : p[i] = o[i]
  BY AppendProperties
<1> HIDE DEF p, s
<1>5. /\ q \in Seq(Frames) /\ Len(q) = Len(o) + 2 /\ q[Len(o) + 2] = g
      /\ \A i \in 1 .. Len(o) + 1 : q[i] = p[i]
  BY <1>4, AppendProperties
<1> DEFINE r == o \o s
<1>6. /\ r \in Seq(Frames) /\ Len(r) = Len(o) + Len(s)
      /\ \A i \in 1 .. Len(o) : r[i] = o[i]
      /\ \A i \in 1 .. Len(s) : r[Len(o) + i] = s[i]
  BY <1>1, Concat
<1> HIDE DEF q, r
<1>7. ASSUME NEW i \in 1 .. Len(o) + 2 PROVE q[i] = r[i]
  <2>1. i \in 1 .. Len(o) \/ i = Len(o) + 1 \/ i = Len(o) + 2 BY <1>4
  <2>2. CASE i \in 1 .. Len(o)
    <3>1. i \in 1 .. Len(o) + 1 BY <1>4, <2>2
    <3> QED BY <1>4, <1>5, <1>6, <2>2, <3>1
  <2>3. CASE i = Len(o) + 1
    <3>1. i \in 1 .. Len(o) + 1 BY <1>4, <2>3
    <3>2. r[Len(o) + 1] = s[1] BY <1>1, <1>6
    <3> QED BY <1>1, <1>4, <1>5, <2>3, <3>1, <3>2
  <2>4. CASE i = Len(o) + 2
    <3>1. r[Len(o) + 2] = s[2] BY <1>1, <1>6
    <3> QED BY <1>1, <1>5, <2>4, <3>1
  <2> QED BY <2>1, <2>2, <2>3, <2>4
<1>8. q = r
  <2>1. Len(r) = Len(q) /\ \A i \in 1 .. Len(q) : q[i] = r[i] BY <1>1, <1>5, <1>6, <1>7
  <2> QED BY <1>5, <1>6, <2>1, SeqEqual
<1> QED BY <1>1, <1>2, <1>3, <1>8 DEF p, q, r, s

Translated(o, t, texts, calls, args) ==
  Tells(o, texts, calls, args) /\ TranslatorOK(t, calls) /\ Blocks(o, t, calls)
SameEnd(t, u) == u.done = t.done /\ u.fails = t.fails /\ u.reason = t.reason

LEMMA TextTranslated ==
  ASSUME NEW texts \in Nat, NEW calls \in Nat, NEW args,
         NEW o, NEW t, t = tr, Translated(o, t, texts, calls, args),
         NEW c \in Frames, c.kind = "text", c.n = texts + 1
  PROVE  LET a == AcceptAll(<<c>>)
         IN  /\ Translated(o \o a.frames, a.t, texts + 1, calls, args)
             /\ SameEnd(t, a.t)
<1> DEFINE a == AcceptAll(<<c>>)
<1>0. o \in Seq(Frames) /\ Tells(o, texts, calls, args) /\ TranslatorOK(t, calls)
      /\ Blocks(o, t, calls)
  BY DEF Translated, Tells
<1>1. Accept(t, c) = AcceptText(t, c) BY Zenon DEF Accept
<1>2. /\ "text" \in FrameKinds /\ None \in Number
      /\ c.n \in Number \cup {"stop", "length", "tool_calls"}
  BY DEF FrameKinds, Number, Frames
<1>3. ASSUME NEW n \in Number
      PROVE  /\ Frame("text", n, None, c.n) \in Frames
             /\ Frame("text", n, None, c.n).kind = "text"
             /\ Frame("text", n, None, c.n).index = n
             /\ Frame("text", n, None, c.n).n = c.n
  BY <1>2, <1>3, FrameFields
<1>4. CASE t.textAt # None
  <2> DEFINE f == Frame("text", t.textAt, None, c.n)
  <2>1. Accept(t, c).frames = <<f>> /\ Accept(t, c).t = t BY <1>1, <1>4 DEF AcceptText
  <2>2. t.textAt \in Number BY <1>0 DEF TranslatorOK, Translators
  <2>3. f \in Frames /\ f.kind = "text" /\ f.index = t.textAt /\ f.n = c.n
    BY <1>3, <2>2
  <2> HIDE DEF f
  <2>4. <<f>> \in Seq(Frames) /\ o \o <<f>> = Append(o, f) BY <1>0, <2>3, ConcatFew
  <2>5. a.frames = <<f>> /\ a.t = t BY <2>1, <2>4, AcceptedOne
  <2>6. Tells(Append(o, f), texts + 1, calls, args) BY <1>0, <2>3, TextTells
  <2>7. Blocks(Append(o, f), t, calls) BY <1>0, <1>4, <2>3, DeltaBlocks
  <2> HIDE DEF a
  <2> QED BY <1>0, <2>4, <2>5, <2>6, <2>7 DEF Translated, SameEnd, a
<1>5. CASE t.textAt = None
  <2> DEFINE f == OpenBlock(t, None)
             g == Frame("text", t.next, None, c.n)
             u == TextOpened(t)
  <2>1. Accept(t, c).frames = <<f, g>> /\ Accept(t, c).t = u
    BY <1>1, <1>5 DEF AcceptText, TextOpened
  <2>2. /\ TranslatorOK(u, calls) /\ Blocks(Append(o, f), u, calls)
        /\ f \in Frames /\ f.kind = "open" /\ f.call = None
        /\ u.textAt = t.next /\ t.next \in Nat
    BY <1>0, <1>5, TextBlock
  <2>3. t.next \in Number /\ t.next # None BY <2>2 DEF Number
  <2>4. g \in Frames /\ g.kind = "text" /\ g.index = t.next /\ g.n = c.n BY <1>3, <2>3
  <2>8. SameEnd(t, u) BY <1>0, OpensText DEF SameEnd, TranslatorOK
  <2> HIDE DEF f, g, u
  <2>5. <<f, g>> \in Seq(Frames) /\ o \o <<f, g>> = Append(Append(o, f), g)
    BY <1>0, <2>2, <2>4, ConcatFew
  <2>6. a.frames = <<f, g>> /\ a.t = u BY <2>1, <2>5, AcceptedOne
  <2>7. Append(o, f) \in Seq(Frames) BY <1>0, <2>2
  <2>9. Tells(Append(o, f), texts, calls, args) BY <1>0, <2>2, OtherTells
  <2>10. Tells(Append(Append(o, f), g), texts + 1, calls, args) BY <2>4, <2>9, TextTells
  <2>11. Blocks(Append(Append(o, f), g), u, calls)
    BY <2>2, <2>3, <2>4, <2>7, DeltaBlocks
  <2> HIDE DEF a
  <2> QED BY <2>2, <2>5, <2>6, <2>8, <2>10, <2>11 DEF Translated, a
<1> QED BY <1>4, <1>5

LEMMA CallTranslated ==
  ASSUME NEW texts \in Nat, NEW calls \in Nat, NEW args,
         NEW o, NEW t, t = tr, Translated(o, t, texts, calls, args),
         NEW c \in Frames, c.kind = "open", c.index = calls, c.call = calls + 1, c.n # 0
  PROVE  LET a == AcceptAll(<<c>>)
         IN  /\ Translated(o \o a.frames, a.t, texts, calls + 1, args)
             /\ SameEnd(t, a.t)
<1> DEFINE a == AcceptAll(<<c>>)
           f == OpenBlock(t, calls + 1)
           u == CallOpened(t, calls)
<1>0. o \in Seq(Frames) /\ Tells(o, texts, calls, args) /\ TranslatorOK(t, calls)
      /\ Blocks(o, t, calls)
  BY DEF Translated, Tells
<1>1. Accept(t, c) = AcceptCall(t, c) BY Zenon DEF Accept
<1>2. calls \notin DOMAIN t.callAt BY <1>0 DEF TranslatorOK, Translators
<1>3. Accept(t, c).frames = <<f>> /\ Accept(t, c).t = u
  BY <1>1, <1>2 DEF AcceptCall, CallOpened
<1>4. /\ TranslatorOK(u, calls + 1) /\ Blocks(Append(o, f), u, calls + 1)
      /\ f \in Frames /\ f.kind = "open" /\ f.call = calls + 1
      /\ \A i \in OpenedIn(o) : o[i].index # f.index
  BY <1>0, CallBlock
<1>8. SameEnd(t, u) BY <1>0, OpensCall DEF SameEnd, TranslatorOK
<1> HIDE DEF f, u
<1>5. <<f>> \in Seq(Frames) /\ o \o <<f>> = Append(o, f) BY <1>0, <1>4, ConcatFew
<1>6. a.frames = <<f>> /\ a.t = u BY <1>3, <1>5, AcceptedOne
<1>7. Tells(Append(o, f), texts, calls + 1, args) BY <1>0, <1>4, CallTells
<1> HIDE DEF a
<1> QED BY <1>4, <1>5, <1>6, <1>7, <1>8 DEF Translated, a

(* A call without an id: the translator raises before it tells anything.    *)
LEMMA CallRefused ==
  ASSUME NEW calls \in Nat, NEW t, t = tr, TranslatorOK(t, calls),
         NEW c \in Frames, c.kind = "open", c.index = calls, c.n = 0
  PROVE  LET a == AcceptAll(<<c>>)
         IN  /\ a.frames = <<>> /\ a.t.fails /\ a.t.done = t.done
             /\ a.t = [t EXCEPT !.fails = TRUE]
<1> DEFINE u == [t EXCEPT !.fails = TRUE]
<1>1. Accept(t, c) = AcceptCall(t, c) BY Zenon DEF Accept
<1>2. calls \notin DOMAIN t.callAt BY DEF TranslatorOK, Translators
<1>3. Accept(t, c).frames = <<>> /\ Accept(t, c).t = u
  BY <1>1, <1>2 DEF AcceptCall
<1>4. u.fails = TRUE /\ u.done = t.done BY SetFails DEF TranslatorOK
<1> HIDE DEF u
<1>5. <<>> \in Seq(Frames) OBVIOUS
<1>6. AcceptAll(<<c>>).frames = <<>> /\ AcceptAll(<<c>>).t = u BY <1>3, <1>5, AcceptedOne
<1> QED BY <1>4, <1>6 DEF u

LEMMA ArgsTranslated ==
  ASSUME NEW texts \in Nat, NEW calls \in Nat, NEW args \in [1 .. MaxCalls -> Nat],
         NEW o, NEW t, t = tr, Translated(o, t, texts, calls, args), NEW x \in 1 .. calls, x \in 1 .. MaxCalls,
         NEW c \in Frames, c.kind = "args", c.index = x - 1, c.call = x, c.n = args[x] + 1
  PROVE  LET a == AcceptAll(<<c>>)
         IN  /\ Translated(o \o a.frames, a.t, texts, calls, [args EXCEPT ![x] = @ + 1])
             /\ SameEnd(t, a.t)
<1> DEFINE a == AcceptAll(<<c>>)
           f == Frame("args", t.callAt[x - 1], x, c.n)
<1>0. o \in Seq(Frames) /\ Tells(o, texts, calls, args) /\ TranslatorOK(t, calls)
      /\ Blocks(o, t, calls)
  BY DEF Translated, Tells
<1>1. Accept(t, c) = AcceptArgs(t, c) BY Zenon DEF Accept
<1>2. x - 1 \in DOMAIN t.callAt /\ t.callAt[x - 1] \in Nat
  BY <1>0 DEF TranslatorOK, Translators
<1>3. Accept(t, c).frames = <<f>> /\ Accept(t, c).t = t BY <1>1, <1>2 DEF AcceptArgs
<1>4. /\ "args" \in FrameKinds /\ t.callAt[x - 1] \in Number /\ x \in Number
      /\ c.n \in Number \cup {"stop", "length", "tool_calls"}
  BY <1>2 DEF FrameKinds, Number, Frames
<1>9. f \in Frames /\ f.kind = "args" /\ f.index = t.callAt[x - 1] /\ f.call = x /\ f.n = c.n
  BY <1>4, FrameFields
<1>10. \E j \in OpenedIn(o) : o[j].index = f.index /\ o[j].call = x
  <2>1. PICK j \in OpenedIn(o) : o[j].call = x
    <3>1. x \in {o[j].call : j \in OpenedIn(o)} BY <1>0 DEF Tells
    <3> QED BY <3>1
  <2>2. o[j].index = t.callAt[x - 1] BY <1>0, <2>1 DEF Blocks
  <2> QED BY <1>9, <2>1, <2>2
<1> HIDE DEF f
<1>5. <<f>> \in Seq(Frames) /\ o \o <<f>> = Append(o, f) BY <1>0, <1>9, ConcatFew
<1>6. a.frames = <<f>> /\ a.t = t BY <1>3, <1>5, AcceptedOne
<1>7. Tells(Append(o, f), texts, calls, [args EXCEPT ![x] = @ + 1])
  BY <1>0, <1>9, <1>10, ArgsTells
<1>8. Blocks(Append(o, f), t, calls) BY <1>0, <1>9, DeltaBlocks
<1> HIDE DEF a
<1> QED BY <1>0, <1>5, <1>6, <1>7, <1>8 DEF Translated, SameEnd, a

-----------------------------------------------------------------------------
(* The chunks that carry no piece, translated: they tell the client nothing *)
(* and leave the blocks alone.                                              *)

SameBlocks(t, u) ==
  u.next = t.next /\ u.textAt = t.textAt /\ u.callAt = t.callAt /\ u.fails = t.fails

LEMMA ControlAccepted ==
  ASSUME NEW calls, NEW t \in Translators(calls), NEW c \in Control,
         c.kind = "finish" => c.n \in Ends
  PROVE  \E u \in Translators(calls) :
           /\ Accept(t, c) = [frames |-> <<>>, t |-> u] /\ SameBlocks(t, u)
           /\ u.reason = IF c.kind = "finish" THEN c.n ELSE t.reason
           /\ u.done = IF c.kind = "done" THEN TRUE ELSE t.done
<1>1. c.kind \in {"role", "finish", "done", "error"} BY DEF Control
<1>2. CASE c.kind = "finish"
  <2> DEFINE u == [t EXCEPT !.reason = c.n]
  <2>1. Accept(t, c) = [frames |-> <<>>, t |-> u] BY <1>2, Zenon DEF Accept
  <2>2. /\ u \in Translators(calls) /\ u.next = t.next /\ u.textAt = t.textAt
        /\ u.callAt = t.callAt /\ u.reason = c.n /\ u.done = t.done /\ u.fails = t.fails
    BY <1>2, SetEnd
  <2> HIDE DEF u
  <2> QED BY <1>2, <2>1, <2>2 DEF SameBlocks
<1>3. CASE c.kind = "done"
  <2> DEFINE u == [t EXCEPT !.done = TRUE]
  <2>1. Accept(t, c) = [frames |-> <<>>, t |-> u] BY <1>3, Zenon DEF Accept
  <2>2. /\ u \in Translators(calls) /\ u.next = t.next /\ u.textAt = t.textAt
        /\ u.callAt = t.callAt /\ u.reason = t.reason /\ u.done = TRUE /\ u.fails = t.fails
    BY SetDone
  <2> HIDE DEF u
  <2> QED BY <1>3, <2>1, <2>2 DEF SameBlocks
<1>4. CASE c.kind = "role" \/ c.kind = "error"
  <2>1. Accept(t, c) = [frames |-> <<>>, t |-> t] BY <1>4, Zenon DEF Accept
  <2> QED BY <1>4, <2>1 DEF SameBlocks
<1> QED BY <1>1, <1>2, <1>3, <1>4

(* What lists of such chunks leave of a translator.                         *)
Passed(t, u, calls, reason, done) ==
  /\ u \in Translators(calls) /\ SameBlocks(t, u)
  /\ u.reason = reason /\ u.done = done

LEMMA PassedNone ==
  ASSUME NEW calls, NEW t, t = tr, t \in Translators(calls)
  PROVE  LET a == AcceptAll(<<>>)
         IN  a.frames = <<>> /\ Passed(t, a.t, calls, t.reason, t.done)
BY AcceptedNone DEF Passed, SameBlocks

LEMMA PassedOne ==
  ASSUME NEW calls, NEW t, t = tr, t \in Translators(calls), NEW c \in Control,
         c.kind = "finish" => c.n \in Ends
  PROVE  LET a == AcceptAll(<<c>>)
         IN  /\ a.frames = <<>>
             /\ Passed(t, a.t, calls, IF c.kind = "finish" THEN c.n ELSE t.reason,
                       IF c.kind = "done" THEN TRUE ELSE t.done)
<1>1. PICK u \in Translators(calls) :
           /\ Accept(t, c) = [frames |-> <<>>, t |-> u] /\ SameBlocks(t, u)
           /\ u.reason = IF c.kind = "finish" THEN c.n ELSE t.reason
           /\ u.done = IF c.kind = "done" THEN TRUE ELSE t.done
  BY ControlAccepted
<1>2. Accept(t, c).frames = <<>> /\ Accept(t, c).t = u /\ <<>> \in Seq(Frames) BY <1>1
<1>3. AcceptAll(<<c>>).frames = <<>> /\ AcceptAll(<<c>>).t = u BY <1>2, AcceptedOne
<1> QED BY <1>1, <1>3 DEF Passed

LEMMA PassedTwo ==
  ASSUME NEW calls, NEW t, t = tr, t \in Translators(calls), NEW c \in Control,
         c.kind = "finish" => c.n \in Ends
  PROVE  LET a == AcceptAll(<<c, Done>>)
         IN  /\ a.frames = <<>>
             /\ Passed(t, a.t, calls, IF c.kind = "finish" THEN c.n ELSE t.reason, TRUE)
<1>1. PICK u \in Translators(calls) :
           /\ Accept(t, c) = [frames |-> <<>>, t |-> u] /\ SameBlocks(t, u)
           /\ u.reason = IF c.kind = "finish" THEN c.n ELSE t.reason
           /\ u.done = IF c.kind = "done" THEN TRUE ELSE t.done
  BY ControlAccepted
<1> DEFINE d == Done
<1>2. d \in Control /\ d.kind = "done" BY ControlFrames
<1> HIDE DEF d
<1> DEFINE v == [u EXCEPT !.done = TRUE]
<1>5. Accept(u, d) = [frames |-> <<>>, t |-> v] BY <1>2, Zenon DEF Accept
<1>6. u \in Translators(calls) BY <1>1
<1>3. /\ v \in Translators(calls) /\ v.next = u.next /\ v.textAt = u.textAt
      /\ v.callAt = u.callAt /\ v.reason = u.reason /\ v.done = TRUE /\ v.fails = u.fails
  BY <1>6, SetDone
<1> HIDE DEF v
<1>4. AcceptAll(<<c, d>>).frames = <<>> /\ AcceptAll(<<c, d>>).t = v
  BY <1>1, <1>5, AcceptedTwo
<1>7. Passed(t, v, calls, IF c.kind = "finish" THEN c.n ELSE t.reason, TRUE)
  BY <1>1, <1>3 DEF Passed, SameBlocks
<1> QED BY <1>4, <1>7 DEF d

LEMMA PassedBlocks ==
  ASSUME NEW calls, NEW t, NEW u, NEW reason, NEW done, Passed(t, u, calls, reason, done)
  PROVE  /\ TranslatorOK(t, calls) => TranslatorOK(u, calls)
         /\ \A o : Blocks(o, t, calls) => Blocks(o, u, calls)
BY DEF Passed, SameBlocks, TranslatorOK, Blocks

-----------------------------------------------------------------------------
(* A set of numbers in its order.                                           *)

LEMMA AscendingOrder ==
  ASSUME NEW S \in SUBSET Nat, IsFiniteSet(S)
  PROVE  /\ Cardinality(S) \in Nat
         /\ \A i \in 1 .. Cardinality(S) : Ascending(S)[i] \in S
         /\ \A i, j \in 1 .. Cardinality(S) : Ascending(S)[i] = Ascending(S)[j] => i = j
         /\ \A b \in S : \E i \in 1 .. Cardinality(S) : Ascending(S)[i] = b
<1> DEFINE n == Cardinality(S)
           Below(b) == {c \in S : c < b}
           R == 0 .. n - 1
           rank == [b \in S |-> Cardinality(Below(b))]
<1>1. n \in Nat BY FS_CardinalityType
<1>2. ASSUME NEW b \in S PROVE IsFiniteSet(Below(b)) /\ rank[b] \in R
  <2>1. Below(b) \in SUBSET S /\ b \notin Below(b) OBVIOUS
  <2>2. /\ IsFiniteSet(Below(b)) /\ Cardinality(Below(b)) <= n
        /\ (n = Cardinality(Below(b)) => S = Below(b))
    BY <2>1, FS_Subset
  <2>3. Cardinality(Below(b)) \in Nat BY <2>2, FS_CardinalityType
  <2> QED BY <1>1, <2>1, <2>2, <2>3
<1>3. ASSUME NEW b \in S, NEW c \in S, b < c PROVE rank[b] # rank[c]
  <2>4. (\A x \in S : x < b => x < c) /\ ~(b < b) BY <1>3
  <2>5. Below(b) \in SUBSET Below(c) BY <2>4, Zenon
  <2>6. b \in Below(c) BY <1>3, Zenon
  <2>7. b \notin Below(b) BY <2>4, Zenon
  <2>1. Below(b) \in SUBSET Below(c) /\ b \in Below(c) /\ b \notin Below(b)
    BY <2>5, <2>6, <2>7, Zenon
  <2>2. IsFiniteSet(Below(c)) BY <1>2
  <2>3. Cardinality(Below(c)) = Cardinality(Below(b)) => Below(c) = Below(b)
    BY <2>1, <2>2, FS_Subset
  <2> QED BY <2>1, <2>3
<1>4. \A b, c \in S : rank[b] = rank[c] => b = c
  <2> SUFFICES ASSUME NEW b \in S, NEW c \in S, rank[b] = rank[c], b # c PROVE FALSE
    OBVIOUS
  <2>1. b < c \/ c < b OBVIOUS
  <2> QED BY <1>3, <2>1
<1>5. rank \in [S -> R] BY <1>2
<1>6. rank \in Injection(S, R) BY <1>4, <1>5 DEF Injection, IsInjective
<1>7. IsFiniteSet(R) /\ Cardinality(R) = n
  <2>1. 0 \in Int /\ n - 1 \in Int BY <1>1
  <2> HIDE DEF n
  <2>2. Cardinality(0 .. n - 1) = IF 0 > n - 1 THEN 0 ELSE (n - 1) - 0 + 1 BY <2>1, FS_Interval
  <2>3. IsFiniteSet(0 .. n - 1) BY <2>1, FS_Interval
  <2> QED BY <1>1, <2>2, <2>3
<1>8. rank \in Surjection(S, R) BY <1>6, <1>7, FS_Injection
<1>9. \A i \in 1 .. n : \E b \in S : rank[b] = i - 1
  <2> TAKE i \in 1 .. n
  <2>1. i - 1 \in R BY <1>1
  <2> QED BY <1>8, <2>1 DEF Surjection
<1>10. ASSUME NEW i \in 1 .. n PROVE Ascending(S)[i] \in S /\ rank[Ascending(S)[i]] = i - 1
  <2>1. \E b \in S : Cardinality(Below(b)) = i - 1 BY <1>9
  <2>2. Ascending(S)[i] = CHOOSE b \in S : Cardinality(Below(b)) = i - 1 BY DEF Ascending
  <2>3. Ascending(S)[i] \in S /\ Cardinality(Below(Ascending(S)[i])) = i - 1
    BY <2>1, <2>2, Zenon
  <2> QED BY <2>3
<1> HIDE DEF rank
<1>11. ASSUME NEW b \in S PROVE \E i \in 1 .. n : Ascending(S)[i] = b
  <2> DEFINE i == rank[b] + 1
  <2>1. rank[b] \in R BY <1>5
  <2>2. i \in 1 .. n /\ i - 1 = rank[b] BY <1>1, <2>1
  <2>3. Ascending(S)[i] = b BY <1>4, <1>10, <2>2
  <2> QED BY <2>2, <2>3
<1>12. ASSUME NEW i \in 1 .. n, NEW j \in 1 .. n, Ascending(S)[i] = Ascending(S)[j]
       PROVE  i = j
  <2>1. i - 1 = j - 1 BY <1>10, <1>12
  <2> QED BY <1>1, <2>1
<1> QED BY <1>1, <1>10, <1>11, <1>12

(* The frames that close the blocks of a translator: each block once.       *)
BlockOf(t, b) == b = t.textAt \/ \E x \in DOMAIN t.callAt : b = t.callAt[x]
Closes(c, t) ==
  /\ c \in Seq(Frames)
  /\ \A i \in 1 .. Len(c) : /\ c[i].kind = "close" /\ c[i].index # None
                            /\ BlockOf(t, c[i].index)
  /\ \A i, j \in 1 .. Len(c) : c[i].index = c[j].index => i = j
  /\ \A b \in Nat : BlockOf(t, b) => \E i \in 1 .. Len(c) : c[i].index = b

LEMMA CloseFrames ==
  ASSUME NEW b \in Nat
  PROVE  CloseFrame(b) \in Frames /\ CloseFrame(b).kind = "close" /\ CloseFrame(b).index = b
<1>1. b \in Number /\ None \in Number /\ "close" \in FrameKinds BY DEF Number, FrameKinds
<1> QED BY <1>1, FrameFields DEF CloseFrame

LEMMA BlocksClosed ==
  ASSUME NEW calls \in Nat, NEW t, TranslatorOK(t, calls), t.next # 0
  PROVE  Closes(CloseBlocks(t), t)
<1> DEFINE S == {t.callAt[x] : x \in DOMAIN t.callAt}
           n == Cardinality(S)
           order == Ascending(S)
           c == [i \in 1 .. n |-> CloseFrame(order[i])]
           lead == IF t.textAt # None THEN <<CloseFrame(t.textAt)>> ELSE <<>>
<1>1. /\ t.callAt \in [0 .. calls - 1 -> Nat] /\ (t.textAt = None \/ t.textAt \in Nat)
      /\ t.next \in Nat
      /\ \A x \in 0 .. calls - 1 : t.callAt[x] < t.next /\ t.callAt[x] # t.textAt
  BY DEF TranslatorOK, Translators, Number
<1>2. S \in SUBSET Nat /\ \A b \in S : b <= t.next /\ b # t.textAt
  <2> SUFFICES ASSUME NEW b \in S PROVE b \in Nat /\ b <= t.next /\ b # t.textAt OBVIOUS
  <2>1. PICK x \in 0 .. calls - 1 : b = t.callAt[x] BY <1>1
  <2>2. b \in Nat /\ b < t.next /\ b # t.textAt BY <1>1, <2>1
  <2> QED BY <1>1, <2>2
<1>3. IsFiniteSet(S) BY <1>1, <1>2, FS_BoundedSetOfNaturals
<1>4. CloseBlocks(t) = lead \o c BY DEF CloseBlocks
<1>5. /\ n \in Nat /\ \A i \in 1 .. n : order[i] \in S
      /\ \A i, j \in 1 .. n : order[i] = order[j] => i = j
      /\ \A b \in S : \E i \in 1 .. n : order[i] = b
  BY <1>2, <1>3, AscendingOrder
<1>6. \A b : BlockOf(t, b) <=> b = t.textAt \/ b \in S BY DEF BlockOf
<1> HIDE DEF S, order, n
<1>7. \A i \in 1 .. n : order[i] \in Nat BY <1>2, <1>5
<1>8. \A i \in 1 .. n : c[i] \in Frames /\ c[i].kind = "close" /\ c[i].index = order[i]
  BY <1>7, CloseFrames
<1>9. c \in Seq(Frames) /\ Len(c) = n
  <2>1. c \in [1 .. n -> Frames] BY <1>8
  <2> HIDE DEF c
  <2> QED BY <1>5, <2>1
<1> HIDE DEF c
<1>10. Closes(lead \o c, t)
  <2>1. CASE t.textAt = None
    <3>1. lead \o c = c
      <4>1. lead = <<>> BY <2>1
      <4> QED BY <1>9, <4>1, ConcatEmptySeq
    <3>2. \A b \in Nat : BlockOf(t, b) <=> b \in S BY <1>6, <2>1
    <3>3. Closes(c, t) BY <1>2, <1>5, <1>7, <1>8, <1>9, <1>6, <3>2 DEF Closes
    <3> QED BY <3>1, <3>3
  <2>2. CASE t.textAt # None
    <3> DEFINE f == CloseFrame(t.textAt)
               s == <<f>>
               r == s \o c
    <3>1. f \in Frames /\ f.kind = "close" /\ f.index = t.textAt /\ t.textAt \in Nat
      BY <1>1, <2>2, CloseFrames
    <3>2. lead \o c = r BY <2>2
    <3> HIDE DEF f
    <3>3. s \in Seq(Frames) /\ Len(s) = 1 /\ s[1] = f BY <3>1
    <3> HIDE DEF s
    <3>12. /\ r \in Seq(Frames) /\ Len(r) = Len(s) + Len(c)
           /\ \A i \in 1 .. Len(s) : r[i] = s[i]
           /\ \A i \in 1 .. Len(c) : r[Len(s) + i] = c[i]
           /\ \A i \in 1 .. Len(r) :
                i \in 1 .. Len(s) \/ (i > Len(s) /\ i - Len(s) \in 1 .. Len(c))
      BY <1>9, <3>3, Concat
    <3> HIDE DEF r
    <3>4. /\ r \in Seq(Frames) /\ Len(r) = 1 + n
          /\ \A i \in 1 .. Len(s) : r[i] = s[i]
          /\ \A i \in 1 .. n : r[1 + i] = c[i]
          /\ \A i \in 1 .. Len(r) : i \in 1 .. Len(s) \/ (i > Len(s) /\ i - Len(s) \in 1 .. n)
      BY <1>9, <3>3, <3>12
    <3>5. r[1] = f BY <3>3, <3>4
    <3>6. \A i \in 1 .. Len(r) : i = 1 \/ (i - 1 \in 1 .. n /\ r[i] = c[i - 1])
      <4> TAKE i \in 1 .. Len(r)
      <4> SUFFICES ASSUME i # 1 PROVE i - 1 \in 1 .. n /\ r[i] = c[i - 1] OBVIOUS
      <4>1. i - 1 \in 1 .. n BY <1>5, <3>3, <3>4
      <4>2. r[1 + (i - 1)] = c[i - 1] /\ 1 + (i - 1) = i BY <3>4, <4>1
      <4> QED BY <4>1, <4>2
    <3>7. ASSUME NEW i \in 1 .. Len(r)
          PROVE  r[i].kind = "close" /\ r[i].index # None /\ BlockOf(t, r[i].index)
      <4>1. CASE i = 1 BY <1>6, <3>1, <3>5, <4>1
      <4>2. CASE i # 1
        <5>1. i - 1 \in 1 .. n /\ r[i] = c[i - 1] BY <3>6, <4>2
        <5>2. c[i - 1].kind = "close" /\ c[i - 1].index = order[i - 1] BY <1>8, <5>1
        <5>3. order[i - 1] \in S /\ order[i - 1] \in Nat BY <1>5, <1>7, <5>1
        <5> QED BY <1>6, <5>1, <5>2, <5>3
      <4> QED BY <4>1, <4>2
    <3>8. ASSUME NEW i \in 1 .. Len(r), NEW j \in 1 .. Len(r), i # 1,
                 r[i].index = r[j].index
          PROVE  i = j
      <4>1. i - 1 \in 1 .. n /\ r[i] = c[i - 1] BY <3>6, <3>8
      <4>2. r[i].index = order[i - 1] /\ order[i - 1] \in S BY <1>5, <1>8, <4>1
      <4>3. r[i].index # t.textAt BY <1>2, <4>2
      <4>4. j # 1 BY <3>1, <3>5, <3>8, <4>3
      <4>5. j - 1 \in 1 .. n /\ r[j] = c[j - 1] BY <3>6, <4>4
      <4>6. r[j].index = order[j - 1] BY <1>8, <4>5
      <4>7. i - 1 = j - 1 BY <1>5, <3>8, <4>1, <4>2, <4>5, <4>6
      <4> QED BY <4>7
    <3>9. \A i, j \in 1 .. Len(r) : r[i].index = r[j].index => i = j BY <3>8
    <3>10. ASSUME NEW b \in Nat, BlockOf(t, b) PROVE \E i \in 1 .. Len(r) : r[i].index = b
      <4>1. CASE b = t.textAt
        <5>1. 1 \in 1 .. Len(r) BY <1>5, <3>4
        <5> QED BY <3>1, <3>5, <4>1, <5>1
      <4>2. CASE b \in S
        <5>1. PICK i \in 1 .. n : order[i] = b BY <1>5, <4>2
        <5>2. 1 + i \in 1 .. Len(r) BY <1>5, <3>4
        <5>3. r[1 + i].index = b BY <1>8, <3>4, <5>1
        <5> QED BY <5>2, <5>3
      <4> QED BY <1>6, <3>10, <4>1, <4>2
    <3>11. Closes(r, t) BY <3>4, <3>7, <3>9, <3>10 DEF Closes
    <3> QED BY <3>2, <3>11
  <2> QED BY <2>1, <2>2
<1> QED BY <1>4, <1>10

-----------------------------------------------------------------------------
(* What a client of /v1/messages has, while it reads and at the end.        *)

InItsBlock(o) ==
  \A i \in DOMAIN o : o[i].kind \in {"text", "args", "close"} =>
    \E j \in Positions(o, "open") :
      /\ j < i /\ o[j].index = o[i].index
      /\ o[i].kind # "close" => o[j].call = IF o[i].kind = "text" THEN None ELSE o[i].call

WellFormed(o) ==
  /\ Positions(o, "start") = {1} /\ OpensInOrder(o) /\ InItsBlock(o)
  /\ \A i \in Positions(o, "close"), j \in DOMAIN o :
       i < j => o[j].kind \in {"close", "finish", "stop"}

WellEnded(o) ==
  /\ WellFormed(o) /\ Positions(o, "open") # {}
  /\ \A i \in Positions(o, "open") : \E j \in Positions(o, "close") : o[j].index = o[i].index
  /\ \A i, j \in Positions(o, "close") : o[i].index = o[j].index => i = j
  /\ Positions(o, "finish") = {Len(o) - 1} /\ Positions(o, "stop") = {Len(o)}

LEMMA WellFormedSoFar ==
  ASSUME NEW o, NEW t, NEW texts, NEW calls, NEW args,
         Tells(o, texts, calls, args), Blocks(o, t, calls)
  PROVE  WellFormed(o)
<1>1. InItsBlock(o)
  <2> SUFFICES ASSUME NEW i \in DOMAIN o, o[i].kind \in {"text", "args", "close"}
               PROVE  \E j \in Positions(o, "open") :
                        /\ j < i /\ o[j].index = o[i].index
                        /\ o[i].kind # "close" =>
                             o[j].call = IF o[i].kind = "text" THEN None ELSE o[i].call
    BY DEF InItsBlock
  <2>1. i \in Positions(o, o[i].kind) BY DEF Positions
  <2>2. CASE o[i].kind = "text"
    <3>1. PICK j \in Positions(o, "open") :
            j < i /\ o[j].index = o[i].index /\ o[j].call = None
      BY <2>1, <2>2 DEF Blocks, TextFollowsBlock
    <3> QED BY <2>2, <3>1
  <2>3. CASE o[i].kind = "args"
    <3>1. PICK j \in OpenedIn(o) :
            j < i /\ o[j].index = o[i].index /\ o[j].call = o[i].call
      BY <2>1, <2>3 DEF Tells, ArgsFollowCall
    <3>2. j \in Positions(o, "open") BY DEF OpenedIn
    <3> QED BY <2>3, <3>1, <3>2
  <2>4. o[i].kind # "close" BY <2>1 DEF Blocks
  <2> QED BY <2>2, <2>3, <2>4
<1> QED BY <1>1 DEF Blocks, WellFormed

(* The blocks that were opened are the translator's.                        *)
LEMMA BlocksOpened ==
  ASSUME NEW o, NEW t, NEW texts, NEW calls \in Nat, NEW args,
         Tells(o, texts, calls, args), TranslatorOK(t, calls), Blocks(o, t, calls)
  PROVE  /\ \A b : b # None /\ BlockOf(t, b) => \E j \in Positions(o, "open") : o[j].index = b
         /\ \A j \in Positions(o, "open") : o[j].index \in Nat /\ BlockOf(t, o[j].index)
         /\ t.next # 0 => Positions(o, "open") # {}
<1>0. /\ t.callAt \in [0 .. calls - 1 -> Nat] /\ (t.textAt = None \/ t.textAt \in Nat)
  BY DEF TranslatorOK, Translators, Number
<1>1. ASSUME NEW b, b # None, BlockOf(t, b)
      PROVE  \E j \in Positions(o, "open") : o[j].index = b
  <2>1. CASE b = t.textAt BY <1>1, <2>1 DEF Blocks
  <2>2. CASE \E x \in DOMAIN t.callAt : b = t.callAt[x]
    <3>1. PICK x \in 0 .. calls - 1 : b = t.callAt[x] BY <1>0, <2>2
    <3>7. x + 1 \in 1 .. calls BY <1>0
    <3>2. x + 1 \in {o[j].call : j \in OpenedIn(o)} BY <3>7 DEF Tells
    <3>3. PICK j \in OpenedIn(o) : o[j].call = x + 1 BY <3>2
    <3>4. o[j].index = t.callAt[o[j].call - 1] BY DEF Blocks
    <3>5. o[j].call - 1 = x BY <3>3
    <3>6. j \in Positions(o, "open") BY DEF OpenedIn
    <3> QED BY <3>1, <3>4, <3>5, <3>6
  <2> QED BY <1>1, <2>1, <2>2 DEF BlockOf
<1>2. ASSUME NEW j \in Positions(o, "open")
      PROVE  o[j].index \in Nat /\ BlockOf(t, o[j].index)
  <2>1. CASE o[j].call = None BY <1>0, <2>1 DEF Blocks, BlockOf
  <2>2. CASE o[j].call # None
    <3>1. j \in OpenedIn(o) BY <2>2 DEF OpenedIn
    <3>2. o[j].call \in 1 .. calls /\ o[j].index = t.callAt[o[j].call - 1]
      BY <3>1 DEF Blocks
    <3>3. o[j].call - 1 \in 0 .. calls - 1 BY <3>2
    <3> QED BY <1>0, <3>2, <3>3 DEF BlockOf
  <2> QED BY <2>1, <2>2
<1>3. t.next # 0 => Positions(o, "open") # {} BY FS_EmptySet DEF Blocks
<1> QED BY <1>1, <1>2, <1>3

Stop == Frame("stop", None, None, None)

(* Once the blocks are closed, each once, the message is well ended.        *)
Closing(o, c, f) == o \o (c \o <<f, Stop>>)
Finishing(o, t)  == o \o FinishEvents(t)

LEMMA Ending ==
  ASSUME NEW o, NEW t, NEW texts, NEW calls \in Nat, NEW args,
         Tells(o, texts, calls, args), TranslatorOK(t, calls), Blocks(o, t, calls),
         t.next # 0, NEW c, Closes(c, t), NEW f \in Frames, f.kind = "finish",
         NEW told, told = Closing(o, c, f)
  PROVE  WellEnded(told) /\ \A i \in Positions(told, "finish") : told[i] = f
<1> DEFINE m == Len(o)
           n == Len(c)
           e == <<f, Stop>>
           s == c \o e
           p == o \o s
           opens == Positions(o, "open")
<1>1. o \in Seq(Frames) /\ c \in Seq(Frames) BY DEF Tells, Closes
<1>2. Stop \in Frames /\ Stop.kind = "stop"
  <2>1. None \in Number /\ "stop" \in FrameKinds BY DEF Number, FrameKinds
  <2> QED BY <2>1, FrameFields DEF Stop
<1> DEFINE g == Stop
<1>3. e \in Seq(Frames) /\ Len(e) = 2 /\ e[1] = f /\ e[2] = g
  <2>1. g \in Frames BY <1>2
  <2>2. e = <<f, g>> OBVIOUS
  <2> HIDE DEF g, e
  <2> QED BY <2>1, <2>2
<1> HIDE DEF e, g
<1>4. /\ s \in Seq(Frames) /\ n \in Nat /\ Len(s) = n + Len(e)
      /\ \A i \in 1 .. n : s[i] = c[i]
      /\ \A i \in 1 .. Len(e) : s[n + i] = e[i]
  BY <1>1, <1>3, Concat
<1> HIDE DEF s
<1>5. /\ p \in Seq(Frames) /\ m \in Nat /\ Len(p) = m + Len(s)
      /\ \A i \in 1 .. m : p[i] = o[i]
      /\ \A i \in 1 .. Len(s) : p[m + i] = s[i]
  BY <1>1, <1>4, Concat
<1>0. m \in Nat /\ n \in Nat BY <1>4, <1>5
<1>11. DOMAIN p = 1 .. Len(p) /\ DOMAIN o = 1 .. m BY <1>1, <1>5
<1> HIDE DEF m, n
<1>6. s[n + 1] = f /\ s[n + 2] = g /\ Len(s) = n + 2 /\ Len(p) = m + n + 2
  BY <1>3, <1>4, <1>5
<1>7. \A i \in 1 .. Len(s) : i \in 1 .. n \/ i = n + 1 \/ i = n + 2 BY <1>4, <1>6
<1>8. \A i \in 1 .. n : c[i].kind = "close" BY DEF Closes, n
<1>9. \A i \in 1 .. Len(s) : s[i].kind = IF i = n + 1 THEN "finish"
                                        ELSE IF i = n + 2 THEN "stop" ELSE "close"
  <2> TAKE i \in 1 .. Len(s)
  <2>1. CASE i \in 1 .. n
    <3>1. i # n + 1 /\ i # n + 2 BY <1>4, <2>1
    <3> QED BY <1>4, <1>8, <2>1, <3>1
  <2>2. CASE i = n + 1 BY <1>6, <2>2
  <2>3. CASE i = n + 2
    <3>1. i # n + 1 BY <1>4, <2>3
    <3> QED BY <1>2, <1>6, <2>3, <3>1 DEF g
  <2> QED BY <1>7, <2>1, <2>2, <2>3
<1>10. \A k : k \notin {"close", "finish", "stop"} => Positions(p, k) = Positions(o, k)
  <2> TAKE k
  <2> SUFFICES ASSUME k \notin {"close", "finish", "stop"}
               PROVE  Positions(p, k) = Positions(o, k)
    OBVIOUS
  <2>1. \A i \in 1 .. Len(s) : s[i].kind # k BY <1>9
  <2> QED BY <1>1, <1>4, <2>1, ConcatPositions
<1> HIDE DEF p
<1>28. DOMAIN p = 1 .. m + n + 2 BY <1>6, <1>11
<1>12. \A i \in 1 .. m + n + 2 :
         i \in 1 .. m \/ (i - m \in 1 .. n + 2 /\ i > m /\ p[i] = s[i - m])
  <2> TAKE i \in 1 .. m + n + 2
  <2> SUFFICES ASSUME i \notin 1 .. m PROVE i - m \in 1 .. n + 2 /\ i > m /\ p[i] = s[i - m]
    OBVIOUS
  <2>1. i - m \in 1 .. n + 2 /\ i > m BY <1>0
  <2>2. p[m + (i - m)] = s[i - m] /\ m + (i - m) = i BY <1>5, <1>6, <2>1
  <2> QED BY <2>1, <2>2
<1>13. \A i \in 1 .. m : p[i].kind \notin {"close", "finish", "stop"}
  <2> TAKE i \in 1 .. m
  <2>1. i \notin Positions(o, "close") /\ i \notin Positions(o, "finish")
        /\ i \notin Positions(o, "stop")
    BY DEF Blocks
  <2> QED BY <1>5, <1>11, <2>1 DEF Positions
<1>14. \A i \in DOMAIN p : /\ p[i].kind = "close" <=> i \in m + 1 .. m + n
                           /\ p[i].kind = "finish" <=> i = m + n + 1
                           /\ p[i].kind = "stop" <=> i = m + n + 2
  <2> TAKE i \in DOMAIN p
  <2>1. CASE i \in 1 .. m
    <3>1. i \notin m + 1 .. m + n /\ i # m + n + 1 /\ i # m + n + 2 BY <1>0, <2>1
    <3> QED BY <1>13, <2>1, <3>1
  <2>2. CASE i \notin 1 .. m
    <3>1. i - m \in 1 .. n + 2 /\ i > m /\ p[i] = s[i - m] BY <1>28, <1>12, <2>2
    <3>2. i - m \in 1 .. Len(s) BY <1>6, <3>1
    <3>3. p[i].kind = IF i - m = n + 1 THEN "finish"
                      ELSE IF i - m = n + 2 THEN "stop" ELSE "close"
      BY <1>9, <3>1, <3>2
    <3>4. /\ i - m = n + 1 <=> i = m + n + 1
          /\ i - m = n + 2 <=> i = m + n + 2
          /\ i \in m + 1 .. m + n <=> i - m # n + 1 /\ i - m # n + 2
      BY <1>0, <1>28, <3>1
    <3> QED BY <1>0, <3>1, <3>3, <3>4
  <2> QED BY <2>1, <2>2
<1>15. \A j \in opens : j \in 1 .. m /\ p[j] = o[j]
  BY <1>5, <1>11 DEF Positions
<1>16. Positions(p, "open") = opens /\ Positions(p, "start") = {1} BY <1>10 DEF Blocks
<1>17. /\ \A b : b # None /\ BlockOf(t, b) => \E j \in opens : o[j].index = b
       /\ \A j \in opens : o[j].index \in Nat /\ BlockOf(t, o[j].index)
       /\ opens # {}
  BY BlocksOpened
<1>18. OpensInOrder(p) BY <1>15, <1>16 DEF Blocks, OpensInOrder
<1>19. \A i \in m + 1 .. m + n : i - m \in 1 .. n /\ p[i] = c[i - m] /\ i \in DOMAIN p
  <2> TAKE i \in m + 1 .. m + n
  <2>1. i - m \in 1 .. n /\ i \notin 1 .. m /\ i \in 1 .. m + n + 2 BY <1>0
  <2> QED BY <1>0, <1>4, <1>28, <1>12, <2>1
<1>20. InItsBlock(p)
  <2> SUFFICES ASSUME NEW i \in DOMAIN p, p[i].kind \in {"text", "args", "close"}
               PROVE  \E j \in opens :
                        /\ j < i /\ p[j].index = p[i].index
                        /\ p[i].kind # "close" =>
                             p[j].call = IF p[i].kind = "text" THEN None ELSE p[i].call
    BY <1>16 DEF InItsBlock
  <2>1. CASE i \in 1 .. m
    <3>1. p[i] = o[i] /\ i \in DOMAIN o BY <1>5, <1>11, <2>1
    <3>2. WellFormed(o) BY WellFormedSoFar
    <3>3. PICK j \in opens :
                        /\ j < i /\ o[j].index = o[i].index
                        /\ o[i].kind # "close" =>
                             o[j].call = IF o[i].kind = "text" THEN None ELSE o[i].call
      BY <3>1, <3>2 DEF WellFormed, InItsBlock
    <3> QED BY <1>15, <3>1, <3>3
  <2>2. CASE i \notin 1 .. m
    <3>1. i \in m + 1 .. m + n
      <4>1. i # m + n + 1 /\ i # m + n + 2 BY <1>14
      <4> QED BY <1>0, <1>28, <2>2, <4>1
    <3>2. i - m \in 1 .. n /\ p[i] = c[i - m] BY <1>19, <3>1
    <3>3. p[i].index # None /\ BlockOf(t, p[i].index) BY <3>2 DEF Closes, n
    <3>4. PICK j \in opens : o[j].index = p[i].index BY <1>17, <3>3
    <3>5. j < i BY <1>5, <1>15, <3>1
    <3>6. p[i].kind = "close" BY <1>14, <3>1
    <3> QED BY <1>15, <3>4, <3>5, <3>6
  <2> QED BY <2>1, <2>2
<1>21. \A i \in Positions(p, "close"), j \in DOMAIN p :
         i < j => p[j].kind \in {"close", "finish", "stop"}
  <2> TAKE i \in Positions(p, "close"), j \in DOMAIN p
  <2> SUFFICES ASSUME i < j PROVE p[j].kind \in {"close", "finish", "stop"} OBVIOUS
  <2>1. i \in m + 1 .. m + n BY <1>14 DEF Positions
  <2>2. j \in m + 1 .. m + n \/ j = m + n + 1 \/ j = m + n + 2 BY <1>0, <1>28, <2>1
  <2> QED BY <1>14, <2>2
<1>22. Positions(p, "close") = m + 1 .. m + n
  BY <1>14, <1>19 DEF Positions
<1>23. \A i \in opens : \E j \in Positions(p, "close") : p[j].index = p[i].index
  <2> TAKE i \in opens
  <2>1. o[i].index \in Nat /\ BlockOf(t, o[i].index) BY <1>17
  <2>2. PICK j \in 1 .. n : c[j].index = o[i].index BY <2>1 DEF Closes, n
  <2>3. m + j \in m + 1 .. m + n /\ (m + j) - m = j BY <1>0
  <2>4. p[m + j] = c[j] BY <1>19, <2>3
  <2> QED BY <1>15, <1>22, <2>2, <2>3, <2>4
<1>24. \A i, j \in Positions(p, "close") : p[i].index = p[j].index => i = j
  <2> SUFFICES ASSUME NEW i \in m + 1 .. m + n, NEW j \in m + 1 .. m + n,
                      p[i].index = p[j].index
               PROVE  i = j
    BY <1>22
  <2>1. /\ i - m \in 1 .. n /\ p[i] = c[i - m]
        /\ j - m \in 1 .. n /\ p[j] = c[j - m]
    BY <1>19
  <2>2. i - m = j - m BY <2>1 DEF Closes, n
  <2> QED BY <1>5, <2>2
<1>25. Positions(p, "finish") = {Len(p) - 1} /\ Positions(p, "stop") = {Len(p)}
  <2>1. m + n + 1 \in DOMAIN p /\ m + n + 2 \in DOMAIN p /\ Len(p) - 1 = m + n + 1
    BY <1>0, <1>6, <1>28
  <2>2. Positions(p, "finish") = {m + n + 1} /\ Positions(p, "stop") = {m + n + 2}
    BY <1>14, <2>1 DEF Positions
  <2> QED BY <1>6, <2>1, <2>2
<1>26. WellFormed(p) BY <1>16, <1>18, <1>20, <1>21 DEF WellFormed
<1>27. WellEnded(p) BY <1>16, <1>17, <1>23, <1>24, <1>25, <1>26 DEF WellEnded
<1>29. \A i \in Positions(p, "finish") : p[i] = f
  <2> TAKE i \in Positions(p, "finish")
  <2>1. i = m + n + 1 BY <1>14 DEF Positions
  <2>2. n + 1 \in 1 .. Len(s) /\ m + (n + 1) = i BY <1>0, <1>6, <2>1
  <2> QED BY <1>5, <1>6, <2>2
<1>30. told = p BY DEF p, s, e, Closing
<1> QED BY <1>27, <1>29, <1>30

LEMMA FramesAssociate ==
  \A o, l, e \in Seq(Frames) : (o \o l) \o e = o \o (l \o e)
BY ConcatAssociative, SMTT(30)

LEMMA FinishTold ==
  ASSUME NEW o, NEW t, NEW texts, NEW calls \in Nat, NEW args,
         Tells(o, texts, calls, args), TranslatorOK(t, calls), Blocks(o, t, calls),
         NEW told, told = Finishing(o, t)
  PROVE  /\ Tells(told, texts, calls, args) /\ WellEnded(told)
         /\ \A i \in Positions(told, "finish") : told[i].n = t.reason
<1> DEFINE f == Finish(t.reason)
           e == <<f, Stop>>
<1>1. o \in Seq(Frames) /\ t \in Translators(calls) BY DEF Tells, TranslatorOK
<1>2. t.reason \in Ends /\ t.next \in Nat BY <1>1 DEF Translators
<1>3. f \in Frames /\ f.kind = "finish" /\ f.n = t.reason
  BY <1>2, ControlFrames DEF Control
<1>4. Stop \in Frames /\ Stop.kind = "stop"
  <2>1. None \in Number /\ "stop" \in FrameKinds BY DEF Number, FrameKinds
  <2> QED BY <2>1, FrameFields DEF Stop
<1>5. FinishEvents(t) = CloseBlocks(t) \o e BY DEF FinishEvents, Stop
<1> DEFINE g == Stop
<1>6. f \in Bare /\ g \in Bare BY <1>3, <1>4 DEF Bare
<1>7. e \in Seq(Bare) /\ e \in Seq(Frames)
  <2>1. e = <<f, g>> OBVIOUS
  <2>2. f \in Frames /\ g \in Frames BY <1>3, <1>4
  <2> HIDE DEF f, g, e
  <2> QED BY <1>6, <2>1, <2>2
<1> HIDE DEF f, g
<1>8. CASE t.next # 0
  <2> DEFINE c == CloseBlocks(t)
  <2>1. Closes(c, t) BY <1>8, BlocksClosed
  <2>7. told = Closing(o, c, f) BY <1>5 DEF Finishing, Closing, f
  <2> HIDE DEF c
  <2>2. WellEnded(told) /\ \A i \in Positions(told, "finish") : told[i] = f
    BY <1>3, <1>8, <2>1, <2>7, Ending
  <2>3. c \in Seq(Bare)
    <3>1. c \in Seq(Frames) /\ \A i \in 1 .. Len(c) : c[i].kind = "close" BY <2>1 DEF Closes
    <3>2. \A i \in 1 .. Len(c) : c[i] \in Bare BY <3>1 DEF Bare
    <3> QED BY <3>1, <3>2
  <2>5. Tells(told, texts, calls, args)
    <3> DEFINE s == c \o e
    <3>1. s \in Seq(Bare) BY <1>7, <2>3, ConcatProperties
    <3> HIDE DEF s
    <3>2. Tells(o \o s, texts, calls, args) BY <3>1, BareTells
    <3> QED BY <2>7, <3>2 DEF s, Closing
  <2> QED BY <1>3, <2>2, <2>5
<1>9. CASE t.next = 0
  <2>1. calls = 0 /\ t.textAt = None BY <1>9 DEF TranslatorOK
  <2>2. PICK b, u : b = OpenBlock(t, None) /\ u = TextOpened(t) OBVIOUS
  <2>3. PICK q : q = Append(o, b) OBVIOUS
  <2>4. PICK d, c : d = CloseFrame(0) /\ c = <<d>> OBVIOUS
  <2>5. /\ TranslatorOK(u, calls) /\ Blocks(q, u, calls)
        /\ b \in Frames /\ b.kind = "open" /\ b.call = None
        /\ u.textAt = t.next
    BY <1>1, <2>1, <2>2, <2>3, TextBlock
  <2>6. Tells(q, texts, calls, args) BY <2>3, <2>5, OtherTells
  <2>7. d \in Frames /\ d.kind = "close" /\ d.index = 0 BY <2>4, CloseFrames
  <2>8. CloseBlocks(t) = <<b, d>> BY <1>9, <2>2, <2>4 DEF CloseBlocks
  <2>9. q \in Seq(Frames) /\ q = Append(o, b) BY <1>1, <2>3, <2>5
  <2>10. c \in Seq(Frames) /\ Len(c) = 1 /\ c[1] = d BY <2>4, <2>7
  <2>11. told = Closing(q, c, f)
    <3>1. told = o \o (<<b, d>> \o e) BY <1>5, <2>8 DEF Finishing
    <3>2. /\ <<b, d>> \in Seq(Frames) /\ o \o <<b, d>> = Append(q, d)
          /\ q \o c = Append(q, d)
      BY <1>1, <2>4, <2>5, <2>7, <2>9, ConcatFew
    <3>3. told = q \o (c \o e)
      <4>1. PICK l, rest : l = <<b, d>> /\ rest = e OBVIOUS
      <4>2. /\ l \in Seq(Frames) /\ rest \in Seq(Frames) /\ o \in Seq(Frames)
            /\ q \in Seq(Frames) /\ c \in Seq(Frames)
        BY <1>1, <1>7, <2>9, <2>10, <3>2, <4>1, Zenon
      <4>3. o \o (l \o rest) = (o \o l) \o rest BY <4>2, FramesAssociate, ZenonT(30)
      <4>4. q \o (c \o rest) = (q \o c) \o rest BY <4>2, FramesAssociate, ZenonT(30)
      <4>5. o \o l = q \o c BY <3>2, <4>1, Zenon
      <4> QED BY <3>1, <4>1, <4>3, <4>4, <4>5, Zenon
    <3> QED BY <3>3 DEF Closing, e
  <2>12. u.next # 0 /\ DOMAIN u.callAt = {}
    <3>1. u.callAt \in [0 .. calls - 1 -> Nat] BY <2>5 DEF TranslatorOK, Translators
    <3>2. 0 .. calls - 1 = {} BY <2>1
    <3>3. u.textAt # None /\ u.next = calls + 1 BY <1>9, <2>5 DEF TranslatorOK
    <3> QED BY <2>1, <3>1, <3>2, <3>3
  <2>13. Closes(c, u)
    <3>1. \A x : BlockOf(u, x) <=> x = 0 BY <1>9, <2>5, <2>12 DEF BlockOf
    <3>2. \A i \in 1 .. Len(c) : i = 1 BY <2>10
    <3>3. 1 \in 1 .. Len(c) BY <2>10
    <3> QED BY <2>7, <2>10, <3>1, <3>2, <3>3 DEF Closes
  <2>14. WellEnded(told) /\ \A i \in Positions(told, "finish") : told[i] = f
    BY <1>3, <2>5, <2>6, <2>11, <2>12, <2>13, Ending
  <2>15. c \in Seq(Bare)
    <3>1. d \in Bare BY <2>7 DEF Bare
    <3> QED BY <2>4, <3>1
  <2>16. Tells(told, texts, calls, args)
    <3>1. c \o e \in Seq(Bare) BY <1>7, <2>15, ConcatProperties
    <3>2. Tells(q \o (c \o e), texts, calls, args) BY <2>6, <3>1, BareTells
    <3> QED BY <2>11, <3>2 DEF Closing
  <2> QED BY <1>3, <2>14, <2>16
<1> QED BY <1>8, <1>9

-----------------------------------------------------------------------------
(* The invariant of the relay.                                              *)

ToldSoFar(o, i) == Tells(o, TextsSaid(i), CallsSaid(i), ArgsSaid(i))
IndexedByCall(o) == \A i \in OpenedIn(o) : o[i].index = o[i].call - 1

AtInv ==
  /\ at \in {"open", "ended", "failed", "refused", "aborted", "left"}
  /\ at = "open" => ~tr.done /\ ~tr.fails
  /\ tr.fails => read > 0

(* The routes that do not translate.                                        *)
PlainInv == route # "messages" => tr = NewTranslator /\ IndexedByCall(out)

MessagesInv ==
  route = "messages" =>
    /\ at # "failed" /\ TranslatorOK(tr, CallsSaid(Taken))
    /\ IF at = "ended"
       THEN WellEnded(out) /\ \A i \in Positions(out, "finish") : out[i].n = tr.reason
       ELSE Blocks(out, tr, CallsSaid(Taken))

RelayInv ==
  /\ UpInv /\ AdapterInv /\ AtInv
  /\ ToldSoFar(out, Taken) /\ PlainInv /\ MessagesInv

LEMMA TakenRange ==
  ASSUME UpInv, AtInv
  PROVE  /\ Taken \in 0 .. Len(said)
         /\ at = "open" /\ read < Len(said) => Taken = read
<1>1. read \in 0 .. Len(said) /\ Len(said) \in Nat BY DEF UpInv, UpTypes
<1>2. Taken \in 0 .. Len(said) BY <1>1 DEF Taken, Lost, AtInv
<1>3. at = "open" /\ read < Len(said) => Taken = read BY <1>1 DEF Taken, Lost, AtInv
<1> QED BY <1>2, <1>3

LEMMA NewReads == NewTranslator \in Translators(0) /\ ~NewTranslator.done /\ ~NewTranslator.fails
<1>1. <<>> \in [0 .. 0 - 1 -> Nat]
  <2>1. 0 .. 0 - 1 = {} OBVIOUS
  <2> QED BY <2>1
<1> QED BY <1>1 DEF NewTranslator, Translators, Number, Ends

(* Upstream says more: what was taken of it stays what it was.              *)
LEMMA UpstreamLeaves ==
  ASSUME Upstream
  PROVE  UNCHANGED <<adapter, route, read, ad, tr, at, out, given>> /\ line = "up"
BY DEF Upstream, SayMessage, OpenText, SayText, OpenCall, SayArgs, CloseBlock, SayReason,
       SayStop, SayError, HangUp, Break, Says

LEMMA LostSame ==
  ASSUME UpInv, Upstream
  PROVE  ~Lost /\ ~Lost' /\ Taken' = Taken
<1>1. ~cut /\ read \in Nat /\ Len(said) \in Nat BY UpstreamLeaves DEF UpInv, UpTypes
<1>2. UNCHANGED <<read, tr>> BY UpstreamLeaves
<1>3. ~Lost'
  <2> SUFFICES ASSUME cut' PROVE ~(read = Len(said)')
    BY <1>2 DEF Lost
  <2>1. HangUp /\ cut' # cut
    BY <1>1 DEF Upstream, SayMessage, OpenText, SayText, OpenCall, SayArgs, CloseBlock,
                SayReason, SayStop, SayError, HangUp, Break, Says
  <2>2. read < Len(said) /\ said' = said BY <2>1, Zenon DEF HangUp
  <2> QED BY <1>1, <2>2
<1> QED BY <1>1, <1>2, <1>3 DEF Lost, Taken

LEMMA SaidSame ==
  ASSUME UpInv, SaidMore, NEW i \in 0 .. Len(said)
  PROVE  /\ TextsSaid(i)' = TextsSaid(i) /\ CallsSaid(i)' = CallsSaid(i)
         /\ ArgsSaid(i)' = ArgsSaid(i)
         /\ \A j \in 1 .. i : said'[j] = said[j]
<1>1. CASE said' = said BY <1>1 DEF TextsSaid, CallsSaid, ArgsSaid, Positions, ArgsOf
<1>2. CASE \E e \in Events : said' = Append(said, e)
  <2>1. PICK e \in Events : said' = Append(said, e) BY <1>2
  <2>2. said \in Seq(Events) BY DEF UpInv, UpTypes
  <2>3. /\ \A k : Count(Positions(said', k), i) = Count(Positions(said, k), i)
        /\ \A x : Count(ArgsOf(said', x), i) = Count(ArgsOf(said, x), i)
    BY <2>1, <2>2, PrefixCounts
  <2>4. \A j \in 1 .. i : said'[j] = said[j] BY <2>1, <2>2
  <2>5. TextsSaid(i)' = Count(Positions(said', "text"), i)
        /\ CallsSaid(i)' = Count(Positions(said', "call"), i)
        /\ ArgsSaid(i)' = [x \in 1 .. MaxCalls |-> Count(ArgsOf(said', x), i)]
    BY DEF TextsSaid, CallsSaid, ArgsSaid, Positions, ArgsOf
  <2> QED BY <2>3, <2>4, <2>5 DEF TextsSaid, CallsSaid, ArgsSaid
<1> QED BY <1>1, <1>2 DEF SaidMore

LEMMA UpstreamKeepsRelay == ASSUME RelayInv, Upstream PROVE RelayInv'
<1>0. UpInv /\ AtInv BY DEF RelayInv
<1>1. UNCHANGED <<adapter, route, read, ad, tr, at, out>> BY UpstreamLeaves
<1>2. UpInv' /\ SaidMore BY <1>0, UpstreamKeeps
<1>3. Taken \in 0 .. Len(said) /\ Taken' = Taken BY <1>0, LostSame, TakenRange
<1>4. /\ TextsSaid(Taken)' = TextsSaid(Taken) /\ CallsSaid(Taken)' = CallsSaid(Taken)
      /\ ArgsSaid(Taken)' = ArgsSaid(Taken)
      /\ \A j \in 1 .. Taken : said'[j] = said[j]
  <2> DEFINE i == Taken
  <2>1. TextsSaid(Taken)' = Count(Positions(said', "text"), Taken')
        /\ CallsSaid(Taken)' = Count(Positions(said', "call"), Taken')
        /\ ArgsSaid(Taken)' = [x \in 1 .. MaxCalls |-> Count(ArgsOf(said', x), Taken')]
    BY DEF TextsSaid, CallsSaid, ArgsSaid, Positions, ArgsOf
  <2> QED BY <1>0, <1>2, <1>3, <2>1, SaidSame DEF TextsSaid, CallsSaid, ArgsSaid
<1>5. AdapterInv'
  <2>1. Taken \in Nat /\ (Taken > 0 => Taken \in 1 .. Taken) BY <1>3
  <2> QED BY <1>1, <1>3, <1>4, <2>1 DEF RelayInv, AdapterInv
<1>6. AtInv' BY <1>1 DEF RelayInv, AtInv
<1>7. ToldSoFar(out, Taken)' BY <1>1, <1>4 DEF RelayInv, ToldSoFar
<1>8. PlainInv' BY <1>1 DEF RelayInv, PlainInv
<1>9. MessagesInv' BY <1>1, <1>4 DEF RelayInv, MessagesInv
<1> QED BY <1>2, <1>5, <1>6, <1>7, <1>8, <1>9 DEF RelayInv

-----------------------------------------------------------------------------
(* The event that is read.                                                  *)

(* Nothing follows the end of a message, and only its end the reason.       *)
LEMMA EndsLast ==
  ASSUME UpInv, NEW i \in 1 .. Len(said), NEW j \in 1 .. Len(said), i < j
  PROVE  /\ said[i].kind \notin {"stop", "error"}
         /\ said[i].kind = "reason" =>
              j = i + 1 /\ said[j].kind \in {"stop", "error"} /\ adapter # "codex"
<1>0. /\ Len(said) \in Nat /\ DOMAIN said = 1 .. Len(said)
      /\ \A k \in 1 .. Len(said) : EndOK(adapter, said, k)
  BY DEF UpInv, UpTypes, SaidOK, EventOK
<1>1. ASSUME NEW k \in 1 .. Len(said), k + 1 \in 1 .. Len(said)
      PROVE  /\ said[k].kind \notin {"stop", "error"}
             /\ said[k].kind = "reason" => said[k + 1].kind \in {"stop", "error"}
  <2>1. k + 1 > 1 /\ (k + 1) - 1 = k BY <1>0
  <2>2. EndOK(adapter, said, k + 1) BY <1>0, <1>1
  <2> QED BY <2>1, <2>2 DEF EndOK
<1>2. i + 1 \in 1 .. Len(said) BY <1>0
<1>3. ASSUME said[i].kind = "reason" PROVE j = i + 1
  <2> SUFFICES ASSUME j # i + 1 PROVE FALSE OBVIOUS
  <2>1. (i + 1) + 1 \in 1 .. Len(said) BY <1>0
  <2>2. said[i + 1].kind \notin {"stop", "error"} BY <1>1, <1>2, <2>1
  <2> QED BY <1>1, <1>2, <1>3, <2>2
<1>4. said[i].kind = "reason" => adapter # "codex" BY <1>0 DEF EndOK
<1> QED BY <1>1, <1>2, <1>3, <1>4

LEMMA SameSaid ==
  ASSUME UpInv, read < Len(said), said[read + 1].kind \notin Pieces
  PROVE  /\ TextsSaid(read + 1) = TextsSaid(read) /\ CallsSaid(read + 1) = CallsSaid(read)
         /\ ArgsSaid(read + 1) = ArgsSaid(read)
         /\ \A o : ToldSoFar(o, read) => ToldSoFar(o, read + 1)
BY NextSaid DEF Pieces, ToldSoFar

LEMMA AdapterNext ==
  ASSUME UpInv, AdapterInv, Taken = read, read < Len(said), NEW e, e = said[read + 1],
         NEW a, a = Adapted(e)
  PROVE  /\ a.ad \in Ads
         /\ a.ad.calls = IF Blockwise(adapter) THEN CallsSaid(read + 1) ELSE 0
         /\ a.ad.calls > 0 => a.ad.index = a.ad.calls - 1
         /\ adapter = "anthropic" =>
              /\ e.kind \in {"call", "args"} => a.ad.block = "call"
              /\ \A i \in 1 .. read + 1 : said[i].kind = "reason" => a.ad.reason = said[i].n
         /\ e.kind \in Pieces => FitsPiece(e, a)
         /\ e.kind \notin Pieces => FitsControl(e, a)
<1>1. /\ e \in Events /\ read + 1 \in 1 .. Len(said) /\ read \in Nat
      /\ EventOK(adapter, said, read + 1) /\ Len(said) \in Nat
  <2>1. Len(said) \in Nat BY DEF UpInv, UpTypes
  <2> QED BY <2>1, NextSaid
<1>2. /\ ad \in Ads
      /\ ad.calls = IF Blockwise(adapter) THEN CallsSaid(read) ELSE 0
      /\ ad.calls > 0 => ad.index = ad.calls - 1
      /\ adapter = "anthropic" => \A i \in 1 .. read : said[i].kind = "reason" => ad.reason = said[i].n
  BY DEF AdapterInv, Ads
<1>3. \A i \in 1 .. read + 1 : i \in 1 .. read \/ i = read + 1 BY <1>1
<1>4. CASE e.kind \in Pieces
  <2>1. FitsPiece(e, a) BY <1>4, PieceAdapted
  <2>2. adapter = "anthropic" =>
          \A i \in 1 .. read + 1 : said[i].kind = "reason" => a.ad.reason = said[i].n
    BY <1>2, <1>3, <1>4, <2>1 DEF FitsPiece, Pieces
  <2> QED BY <1>4, <2>1, <2>2 DEF FitsPiece
<1>5. CASE e.kind \notin Pieces
  <2>0. adapter \in {"openai", "anthropic", "codex", "oneshot", "task"} BY DEF UpInv, UpTypes, Pairs
  <2>1. /\ e.kind = "reason" => adapter # "codex" /\ e.n \in Ends
        /\ e.kind \in {"open", "close", "error"} => Blockwise(adapter)
    BY <1>1 DEF EventOK, EndOK
  <2>2. FitsControl(e, a) BY <1>1, <1>2, <1>5, <2>0, <2>1, ControlAdapted
  <2>3. CallsSaid(read + 1) = CallsSaid(read) BY <1>5, SameSaid
  <2>4. ASSUME adapter = "anthropic", NEW i \in 1 .. read + 1, said[i].kind = "reason"
        PROVE  a.ad.reason = said[i].n
    <3>1. CASE i = read + 1 BY <2>2, <2>4, <3>1 DEF FitsControl
    <3>2. CASE i \in 1 .. read
      <4>1. i \in 1 .. Len(said) /\ i < read + 1 BY <1>1, <3>2
      <4>2. e.kind # "reason" BY <1>1, <2>4, <4>1, EndsLast
      <4> QED BY <1>2, <2>2, <2>4, <3>2, <4>2 DEF FitsControl
    <3> QED BY <1>3, <3>1, <3>2
  <2>5. e.kind \notin {"call", "args"} BY <1>5 DEF Pieces
  <2> QED BY <1>2, <1>5, <2>2, <2>3, <2>4, <2>5 DEF FitsControl
<1> QED BY <1>4, <1>5

(* On the routes that do not translate.                                     *)
LEMMA PlainPiece ==
  ASSUME UpInv, read < Len(said), NEW e, e = said[read + 1], e.kind \in Pieces,
         NEW o, ToldSoFar(o, read), IndexedByCall(o)
  PROVE  LET p == Append(o, PieceOf(e))
         IN  ToldSoFar(p, read + 1) /\ IndexedByCall(p) /\ PieceOf(e) \in Frames
<1> DEFINE f == PieceOf(e)
           p == Append(o, f)
<1>1. /\ e \in Events /\ read \in Nat
      /\ TextsSaid(read + 1) = IF e.kind = "text" THEN TextsSaid(read) + 1 ELSE TextsSaid(read)
      /\ CallsSaid(read + 1) = IF e.kind = "call" THEN CallsSaid(read) + 1 ELSE CallsSaid(read)
      /\ e.kind = "text" => e.n = TextsSaid(read) + 1
      /\ e.kind = "call" => e.call = CallsSaid(read) + 1
      /\ e.kind = "args" => /\ e.call \in 1 .. CallsSaid(read) /\ e.call \in 1 .. MaxCalls
                            /\ e.n = ArgsSaid(read)[e.call] + 1
      /\ ArgsSaid(read + 1) = IF e.kind = "args" THEN [ArgsSaid(read) EXCEPT ![e.call] = @ + 1]
                              ELSE ArgsSaid(read)
  BY NextSaid
<1>2. read \in 0 .. Len(said) BY DEF UpInv, UpTypes
<1>3. CallsSaid(read) \in Nat /\ ArgsSaid(read) \in [1 .. MaxCalls -> Nat] BY <1>2, SaidBounded
<1>4. e.kind # "text" => e.call \in Nat \ {0} BY <1>1, <1>3 DEF Pieces
<1>5. /\ f \in Frames /\ f.n = e.n
      /\ e.kind = "text" => f.kind = "text"
      /\ e.kind = "call" => f.kind = "open"
      /\ e.kind = "args" => f.kind = "args"
      /\ e.kind # "text" => f.call = e.call /\ f.index = e.call - 1
  BY <1>1, <1>4, PieceIsFrame
<1>6. Tells(o, TextsSaid(read), CallsSaid(read), ArgsSaid(read)) BY DEF ToldSoFar
<1>7. /\ o \in Seq(Frames)
      /\ \A i \in OpenedIn(o) : o[i].call \in 1 .. CallsSaid(read) /\ o[i].index = o[i].call - 1
      /\ \A x \in 1 .. CallsSaid(read) : \E i \in OpenedIn(o) : o[i].call = x
  <2>1. o \in Seq(Frames) /\ {o[i].call : i \in OpenedIn(o)} = 1 .. CallsSaid(read)
    BY <1>6 DEF Tells
  <2> QED BY <2>1 DEF IndexedByCall
<1> HIDE DEF f
<1>8. IndexedByCall(p)
  <2>1. /\ \A i \in 1 .. Len(o) : p[i] = o[i]
        /\ p[Len(o) + 1] = f /\ OpenedIn(o) \subseteq 1 .. Len(o)
        /\ OpenedIn(p) = IF f.kind = "open" /\ f.call # None THEN OpenedIn(o) \cup {Len(o) + 1}
                         ELSE OpenedIn(o)
    BY <1>5, <1>7, AppendTells
  <2> HIDE DEF p
  <2>2. ASSUME NEW i \in OpenedIn(p) PROVE p[i].index = p[i].call - 1
    <3>1. CASE i \in OpenedIn(o)
      <4>1. p[i] = o[i] BY <2>1, <3>1
      <4> QED BY <1>7, <3>1, <4>1
    <3>2. CASE i \notin OpenedIn(o)
      <4>1. f.kind = "open" /\ i = Len(o) + 1 BY <2>1, <2>2, <3>2
      <4>2. e.kind # "text" BY <1>5, <4>1
      <4> QED BY <1>5, <2>1, <4>1, <4>2
    <3> QED BY <3>1, <3>2
  <2> QED BY <2>2 DEF IndexedByCall
<1>9. Tells(p, TextsSaid(read + 1), CallsSaid(read + 1), ArgsSaid(read + 1))
  <2>1. CASE e.kind = "text" BY <1>1, <1>5, <1>6, <2>1, TextTells
  <2>2. CASE e.kind = "call"
    <3>1. \A i \in OpenedIn(o) : o[i].index # f.index
      <4> TAKE i \in OpenedIn(o)
      <4>1. o[i].call \in 1 .. CallsSaid(read) /\ o[i].index = o[i].call - 1 BY <1>7
      <4>2. f.index = (CallsSaid(read) + 1) - 1 BY <1>1, <1>5, <2>2
      <4> QED BY <1>3, <4>1, <4>2
    <3> QED BY <1>1, <1>3, <1>5, <1>6, <2>2, <3>1, CallTells
  <2>3. CASE e.kind = "args"
    <3>1. \E j \in OpenedIn(o) : o[j].index = f.index /\ o[j].call = e.call
      BY <1>1, <1>5, <1>7, <2>3
    <3>2. PICK x, args : x = e.call /\ args = ArgsSaid(read) OBVIOUS
    <3>3. /\ f.kind = "args" /\ f.call = x /\ f.n = args[x] + 1
          /\ x \in 1 .. MaxCalls /\ args \in [1 .. MaxCalls -> Nat]
          /\ \E j \in OpenedIn(o) : o[j].index = f.index /\ o[j].call = x
          /\ ArgsSaid(read + 1) = [args EXCEPT ![x] = @ + 1]
      BY <1>1, <1>3, <1>5, <2>3, <3>1, <3>2
    <3>4. Tells(o, TextsSaid(read), CallsSaid(read), args) BY <1>6, <3>2
    <3>5. f \in Frames BY <1>5
    <3>6. Tells(p, TextsSaid(read), CallsSaid(read), [args EXCEPT ![x] = @ + 1])
      BY <3>3, <3>4, <3>5, ArgsTells
    <3>7. TextsSaid(read + 1) = TextsSaid(read) /\ CallsSaid(read + 1) = CallsSaid(read)
      BY <1>1, <2>3
    <3> QED BY <3>3, <3>6, <3>7
  <2> QED BY <2>1, <2>2, <2>3 DEF Pieces
<1> QED BY <1>5, <1>8, <1>9 DEF ToldSoFar, f, p

LEMMA PlainBare ==
  ASSUME NEW o, NEW i, ToldSoFar(o, i), IndexedByCall(o), NEW s \in Seq(Bare)
  PROVE  ToldSoFar(o \o s, i) /\ IndexedByCall(o \o s)
<1>1. /\ Tells(o \o s, TextsSaid(i), CallsSaid(i), ArgsSaid(i)) /\ OpenedIn(o \o s) = OpenedIn(o)
      /\ \A j \in OpenedIn(o) : (o \o s)[j] = o[j]
  BY BareTells DEF ToldSoFar
<1> QED BY <1>1 DEF ToldSoFar, IndexedByCall

-----------------------------------------------------------------------------
(* What the relay does with the chunks it is given.                         *)

LEMMA PlainRelay ==
  ASSUME route # "messages", NEW chunks, NEW last \in BOOLEAN, NEW i,
         ToldSoFar(out \o chunks, i), IndexedByCall(out \o chunks), Relay(chunks, last)
  PROVE  /\ ToldSoFar(out', i) /\ IndexedByCall(out') /\ tr' = tr
         /\ at' = IF last THEN "ended" ELSE at
<1> DEFINE tail == IF last /\ route = "universal" THEN <<Done>> ELSE <<>>
<1>1. PICK o : o = out \o chunks OBVIOUS
<1>2. /\ out' = o \o tail /\ tr' = tr
      /\ at' = IF last THEN "ended" ELSE at
  BY <1>1 DEF Relay, Write
<1>3. tail \in Seq(Bare)
  <2>1. Done \in Bare BY ControlFrames DEF Control, Bare
  <2> QED BY <2>1
<1>4. ToldSoFar(o, i) /\ IndexedByCall(o) BY <1>1
<1> HIDE DEF tail
<1>5. ToldSoFar(o \o tail, i) /\ IndexedByCall(o \o tail) BY <1>3, <1>4, PlainBare
<1> QED BY <1>2, <1>5

LEMMA TranslatedRelay ==
  ASSUME route = "messages", at = "open", NEW chunks, NEW last \in BOOLEAN,
         NEW texts, NEW calls \in Nat, NEW args,
         NEW a, a = AcceptAll(chunks), ~a.t.fails,
         Translated(out \o a.frames, a.t, texts, calls, args), Relay(chunks, last)
  PROVE  /\ Tells(out', texts, calls, args) /\ TranslatorOK(tr', calls) /\ tr' = a.t
         /\ IF a.t.done \/ last
            THEN /\ at' = "ended" /\ WellEnded(out')
                 /\ \A i \in Positions(out', "finish") : out'[i].n = tr'.reason
            ELSE at' = "open" /\ Blocks(out', tr', calls)
<1>1. PICK o : o = out \o a.frames OBVIOUS
<1>2. PICK over : over = (a.t.done \/ last) OBVIOUS
<1>3. /\ tr' = a.t
      /\ out' = o \o IF over /\ ~a.t.fails THEN FinishEvents(a.t) ELSE <<>>
      /\ at' = CASE a.t.fails -> "aborted"
                 [] over /\ ~a.t.fails -> "ended"
                 [] OTHER -> at
  BY <1>1, <1>2, Zenon DEF Relay, Write
<1>4. Tells(o, texts, calls, args) /\ TranslatorOK(a.t, calls) /\ Blocks(o, a.t, calls)
  BY <1>1 DEF Translated
<1>5. CASE over
  <2>1. out' = Finishing(o, a.t) /\ at' = "ended"
    <3>1. out' = o \o FinishEvents(a.t) BY <1>3, <1>5, Zenon
    <3>2. at' = "ended" BY <1>3, <1>5, Zenon
    <3> QED BY <3>1, <3>2 DEF Finishing
  <2>2. /\ Tells(out', texts, calls, args) /\ WellEnded(out')
        /\ \A i \in Positions(out', "finish") : out'[i].n = a.t.reason
    BY <1>4, <2>1, FinishTold
  <2> QED BY <1>2, <1>3, <1>4, <1>5, <2>1, <2>2
<1>6. CASE ~over
  <2>1. out' = o
    <3>1. out' = o \o <<>> BY <1>3, <1>6, Zenon
    <3> QED BY <1>4, <3>1, ConcatEmptySeq DEF Tells
  <2>2. at' = "open" BY <1>3, <1>6, Zenon
  <2> QED BY <1>2, <1>3, <1>4, <1>6, <2>1, <2>2
<1> QED BY <1>5, <1>6

LEMMA BareFrames ==
  /\ Control \subseteq Bare /\ Bare \subseteq Frames
  /\ \A f, g \in Bare : <<>> \in Seq(Bare) /\ <<f>> \in Seq(Bare) /\ <<f, g>> \in Seq(Bare)
  /\ IfNoRole \in Seq(Bare) /\ IfNoRole \in Seq(Frames)
<1>1. Control \subseteq Bare /\ Bare \subseteq Frames BY DEF Control, Bare
<1>2. Role \in Bare /\ Role \in Frames BY <1>1, ControlFrames
<1>3. <<Role>> \in Seq(Bare) /\ <<>> \in Seq(Bare) /\ <<Role>> \in Seq(Frames) /\ <<>> \in Seq(Frames)
  BY <1>2
<1>4. IfNoRole \in Seq(Bare) /\ IfNoRole \in Seq(Frames) BY <1>3, Zenon DEF IfNoRole
<1> QED BY <1>1, <1>4

LEMMA EndBare ==
  ASSUME NEW reason \in Ends
  PROVE  /\ <<Finish(reason), Done>> \in Seq(Bare)
         /\ IfNoRole \o <<Finish(reason), Done>> \in Seq(Bare)
<1>1. Finish(reason) \in Bare /\ Done \in Bare BY ControlFrames, BareFrames
<1>2. <<Finish(reason), Done>> \in Seq(Bare) BY <1>1
<1>3. IfNoRole \o <<Finish(reason), Done>> \in Seq(Bare) BY <1>2, BareFrames, ConcatProperties
<1> QED BY <1>2, <1>3

LEMMA ControlBare ==
  ASSUME ad \in Ads, NEW e, NEW a, FitsControl(e, a),
         e.kind = "reason" => e.n \in Ends,
         e.kind = "stop" /\ adapter = "codex" => e.n \in Ends
  PROVE  a.chunks \in Seq(Bare)
<1>1. Role \in Bare /\ Done \in Bare /\ Error \in Bare /\ \A r \in Ends : Finish(r) \in Bare
  BY ControlFrames, BareFrames
<1>2. CASE e.kind \notin {"reason", "stop", "error"}
  <2>1. <<>> \in Seq(Bare) /\ <<Role>> \in Seq(Bare) BY <1>1
  <2> QED BY <1>2, <2>1 DEF FitsControl
<1>3. CASE e.kind = "reason"
  <2>1. <<>> \in Seq(Bare) /\ <<Finish(e.n)>> \in Seq(Bare) BY <1>1, <1>3
  <2>2. a.chunks = IF adapter = "anthropic" THEN <<>> ELSE <<Finish(e.n)>>
    BY <1>3, Zenon DEF FitsControl
  <2> QED BY <2>1, <2>2
<1>4. CASE e.kind = "error"
  <2>1. <<>> \in Seq(Bare) /\ <<Error, Done>> \in Seq(Bare) BY <1>1
  <2>2. a.chunks = IF adapter = "anthropic" THEN <<>> ELSE <<Error, Done>>
    BY <1>4, Zenon DEF FitsControl
  <2> QED BY <2>1, <2>2
<1>5. CASE e.kind = "stop"
  <2>1. a.chunks = EndChunks(e) BY <1>5, Zenon DEF FitsControl
  <2>2. CASE adapter = "anthropic"
    <3>1. ad.reason \in Ends BY DEF Ads
    <3> QED BY <2>1, <2>2, <3>1, EndBare, Zenon DEF EndChunks
  <2>3. CASE adapter = "codex"
    <3>1. PICK r : r = IF ad.calls > 0 THEN "tool_calls" ELSE e.n OBVIOUS
    <3>2. r \in Ends BY <1>5, <2>3, <3>1 DEF Ends
    <3>3. EndChunks(e) = <<Finish(r), Done>> BY <2>3, <3>1, Zenon DEF EndChunks
    <3> QED BY <2>1, <3>2, <3>3, EndBare
  <2>4. CASE adapter \notin {"anthropic", "codex"}
    <3>1. EndChunks(e) = <<Done>> BY <2>4, Zenon DEF EndChunks
    <3>2. <<Done>> \in Seq(Bare) BY <1>1
    <3> QED BY <2>1, <3>1, <3>2
  <2> QED BY <2>2, <2>3, <2>4
<1> QED BY <1>2, <1>3, <1>4, <1>5

(* The chunks that are relayed when the next event is read.                  *)
NextAdapted == IF Dropped THEN Result(<<>>, ad) ELSE Adapted(said[read + 1])

LEMMA ReadsNext ==
  ASSUME UpInv, AtInv, ReadEvent
  PROVE  /\ at = "open" /\ read \in Nat /\ read < Len(said) /\ read + 1 \in 1 .. Len(said)
         /\ Taken = read /\ read' = read + 1
         /\ UNCHANGED <<adapter, route, up, said, line, cut>>
         /\ UpInv' /\ Lost' = Dropped
         /\ Taken' = IF Dropped \/ tr'.fails THEN read ELSE read + 1
         /\ ad' = NextAdapted.ad /\ Relay(NextAdapted.chunks, Returns(said[read + 1]))
<1>1. /\ at = "open" /\ read < Len(said) /\ read' = read + 1
      /\ UNCHANGED <<adapter, route, up, said, line, cut>>
      /\ ad' = NextAdapted.ad /\ Relay(NextAdapted.chunks, Returns(said[read + 1]))
  BY DEF ReadEvent, upVars, NextAdapted
<1>2. read \in Nat /\ Len(said) \in Nat /\ read + 1 \in 1 .. Len(said) /\ read + 1 \in 0 .. Len(said)
  BY <1>1 DEF UpInv, UpTypes
<1>3. Taken = read BY <1>1, TakenRange
<1>4. UpInv' BY <1>1, <1>2, ReaderKeepsUp
<1>5. Lost' = Dropped
  <2>1. Lost' = (/\ cut /\ read + 1 = Len(said) /\ read + 1 > 0
                 /\ adapter = "codex" \/ (adapter = "openai" /\ route = "messages"))
    BY <1>1 DEF Lost
  <2>2. read + 1 > 0 BY <1>2
  <2> QED BY <2>1, <2>2 DEF Dropped
<1>6. Taken' = IF Dropped \/ tr'.fails THEN read ELSE read + 1
  <2>1. Taken' = IF Lost' \/ tr'.fails THEN (read + 1) - 1 ELSE read + 1 BY <1>1 DEF Taken
  <2>2. (read + 1) - 1 = read BY <1>2
  <2> QED BY <1>5, <2>1, <2>2
<1> QED BY <1>1, <1>2, <1>3, <1>4, <1>5, <1>6

LEMMA SaidPrimed ==
  ASSUME said' = said, NEW i, Taken' = i
  PROVE  /\ TextsSaid(Taken)' = TextsSaid(i) /\ CallsSaid(Taken)' = CallsSaid(i)
         /\ ArgsSaid(Taken)' = ArgsSaid(i)
<1>1. /\ TextsSaid(Taken)' = Count(Positions(said', "text"), Taken')
      /\ CallsSaid(Taken)' = Count(Positions(said', "call"), Taken')
      /\ ArgsSaid(Taken)' = [x \in 1 .. MaxCalls |-> Count(ArgsOf(said', x), Taken')]
  BY DEF TextsSaid, CallsSaid, ArgsSaid, Positions, ArgsOf
<1>2. /\ TextsSaid(Taken)' = TextsSaid(i) /\ CallsSaid(Taken)' = CallsSaid(i)
      /\ ArgsSaid(Taken)' = ArgsSaid(i)
  BY <1>1 DEF TextsSaid, CallsSaid, ArgsSaid
<1> QED BY <1>2

LEMMA ReadKeepsAdapter ==
  ASSUME UpInv, AtInv, AdapterInv, ReadEvent, tr'.fails => ~Blockwise(adapter)
  PROVE  AdapterInv'
<1>1. /\ read < Len(said) /\ Taken = read /\ read \in Nat
      /\ UNCHANGED <<adapter, route, said>>
      /\ Taken' = IF Dropped \/ tr'.fails THEN read ELSE read + 1
      /\ ad' = NextAdapted.ad
  BY ReadsNext
<1>2. CASE Dropped
  <2>1. ad' = ad BY <1>1, <1>2, ResultFields DEF NextAdapted
  <2>2. Taken' = read BY <1>1, <1>2
  <2>3. CallsSaid(Taken)' = CallsSaid(read) BY <1>1, <2>2, SaidPrimed
  <2> QED BY <1>1, <2>1, <2>2, <2>3 DEF AdapterInv
<1>3. CASE ~Dropped
  <2>1. PICK e, a : e = said[read + 1] /\ a = Adapted(e) OBVIOUS
  <2>2. ad' = a.ad BY <1>1, <1>3, <2>1 DEF NextAdapted
  <2>3. /\ a.ad \in Ads
        /\ a.ad.calls = IF Blockwise(adapter) THEN CallsSaid(read + 1) ELSE 0
        /\ a.ad.calls > 0 => a.ad.index = a.ad.calls - 1
        /\ adapter = "anthropic" =>
             /\ e.kind \in {"call", "args"} => a.ad.block = "call"
             /\ \A i \in 1 .. read + 1 : said[i].kind = "reason" => a.ad.reason = said[i].n
    BY <1>1, <2>1, AdapterNext
  <2>4. CASE tr'.fails
    <3>1. ~Blockwise(adapter) /\ adapter # "anthropic" BY <2>4 DEF Blockwise
    <3> QED BY <1>1, <2>2, <2>3, <3>1 DEF AdapterInv, Ads
  <2>5. CASE ~tr'.fails
    <3>1. Taken' = read + 1 BY <1>1, <1>3, <2>5
    <3>2. CallsSaid(Taken)' = CallsSaid(read + 1) BY <1>1, <3>1, SaidPrimed
    <3> QED BY <1>1, <2>1, <2>2, <2>3, <3>1, <3>2 DEF AdapterInv, Ads
  <2> QED BY <2>4, <2>5
<1> QED BY <1>2, <1>3

(* Frames that tell nothing may come before a piece.                        *)
LEMMA AfterRole ==
  ASSUME NEW o \in Seq(Frames), NEW s \in Seq(Frames), NEW f \in Frames
  PROVE  o \o <<f>> = Append(o, f) /\ o \o (s \o <<f>>) = Append(o \o s, f)
<1>1. <<f>> \in Seq(Frames) /\ o \o s \in Seq(Frames) BY ConcatProperties
<1>2. o \o (s \o <<f>>) = (o \o s) \o <<f>> BY <1>1, FramesAssociate, Zenon
<1>3. o \o <<f>> = Append(o, f) /\ (o \o s) \o <<f>> = Append(o \o s, f)
  BY <1>1, ConcatFew
<1> QED BY <1>2, <1>3

LEMMA PlainReads ==
  ASSUME UpInv, AtInv, AdapterInv, ReadEvent, route # "messages",
         tr = NewTranslator, ToldSoFar(out, read), IndexedByCall(out)
  PROVE  ToldSoFar(out', Taken') /\ IndexedByCall(out') /\ tr' = NewTranslator
         /\ at' \in {"open", "ended"}
<1>1. /\ read < Len(said) /\ Taken = read /\ read \in Nat /\ at = "open"
      /\ Taken' = IF Dropped \/ tr'.fails THEN read ELSE read + 1
      /\ Relay(NextAdapted.chunks, Returns(said[read + 1]))
  BY ReadsNext
<1>2. PICK e, a, last, chunks :
        e = said[read + 1] /\ a = Adapted(e) /\ last = Returns(e) /\ chunks = NextAdapted.chunks
  OBVIOUS
<1>3. Relay(chunks, last) /\ last \in BOOLEAN BY <1>1, <1>2 DEF Returns
<1>4. tr' = tr /\ ~tr'.fails
  <2>1. tr' = tr BY <1>3 DEF Relay
  <2> QED BY <2>1, NewReads
<1>5. at' \in {"open", "ended"} BY <1>1, <1>3 DEF Relay
<1>6. out \in Seq(Frames) BY DEF ToldSoFar, Tells
<1>7. CASE Dropped
  <2>1. chunks = <<>> BY <1>2, <1>7, ResultFields DEF NextAdapted
  <2>2. Taken' = read BY <1>1, <1>7
  <2>3. out \o chunks = out BY <1>6, <2>1, ConcatEmptySeq
  <2>4. ToldSoFar(out', read) /\ IndexedByCall(out') BY <1>3, <2>3, PlainRelay
  <2> QED BY <1>4, <1>5, <2>2, <2>4
<1>8. CASE ~Dropped
  <2>1. Taken' = read + 1 BY <1>1, <1>4, <1>8
  <2>2. chunks = a.chunks BY <1>2, <1>8 DEF NextAdapted
  <2>3. ToldSoFar(out \o chunks, read + 1) /\ IndexedByCall(out \o chunks)
    <3>1. CASE e.kind \in Pieces
      <4>1. FitsPiece(e, a) BY <1>1, <1>2, <3>1, AdapterNext
      <4>2. \/ chunks = <<PieceOf(e)>>
            \/ chunks = IfNoRole \o <<PieceOf(e)>>
        BY <2>2, <4>1 DEF FitsPiece
      <4>3. PieceOf(e) \in Frames BY <1>1, <1>2, <3>1, PlainPiece
      <4>4. CASE chunks = <<PieceOf(e)>>
        <5>1. out \o chunks = Append(out, PieceOf(e)) BY <1>6, <4>3, <4>4, ConcatFew
        <5>2. /\ ToldSoFar(Append(out, PieceOf(e)), read + 1)
              /\ IndexedByCall(Append(out, PieceOf(e)))
          BY <1>1, <1>2, <3>1, PlainPiece
        <5> QED BY <5>1, <5>2
      <4>5. CASE chunks = IfNoRole \o <<PieceOf(e)>>
        <5>1. PICK o : o = out \o IfNoRole OBVIOUS
        <5>2. ToldSoFar(o, read) /\ IndexedByCall(o) BY <5>1, BareFrames, PlainBare
        <5>3. out \o chunks = Append(o, PieceOf(e))
          BY <1>6, <4>3, <4>5, <5>1, BareFrames, AfterRole
        <5>4. ToldSoFar(Append(o, PieceOf(e)), read + 1) /\ IndexedByCall(Append(o, PieceOf(e)))
          BY <1>1, <1>2, <3>1, <5>2, PlainPiece
        <5> QED BY <5>3, <5>4
      <4> QED BY <4>2, <4>4, <4>5
    <3>2. CASE e.kind \notin Pieces
      <4>1. FitsControl(e, a) BY <1>1, <1>2, <3>2, AdapterNext
      <4>2. EventOK(adapter, said, read + 1) BY <1>1, NextSaid
      <4>3. /\ e.kind = "reason" => e.n \in Ends
            /\ e.kind = "stop" /\ adapter = "codex" => e.n \in Ends
        BY <1>2, <4>2 DEF EventOK, EndOK
      <4>4. chunks \in Seq(Bare) BY <2>2, <4>1, <4>3, ControlBare DEF AdapterInv, Ads
      <4>5. ToldSoFar(out, read + 1) BY <1>1, <1>2, <3>2, SameSaid
      <4> QED BY <4>4, <4>5, PlainBare
    <3> QED BY <3>1, <3>2
  <2>4. ToldSoFar(out', read + 1) /\ IndexedByCall(out') BY <1>3, <2>3, PlainRelay
  <2> QED BY <1>4, <1>5, <2>1, <2>4
<1> QED BY <1>7, <1>8

LEMMA MessagesPiece ==
  ASSUME UpInv, read < Len(said), NEW e, e = said[read + 1], e.kind \in Pieces,
         NEW o, NEW t, t = tr, ToldSoFar(o, read), TranslatorOK(t, CallsSaid(read)),
         Blocks(o, t, CallsSaid(read)), ~t.fails, ~t.done,
         NEW a, a = AcceptAll(<<PieceOf(e)>>)
  PROVE  \/ /\ a.frames = <<>> /\ a.t = [t EXCEPT !.fails = TRUE] /\ a.t.fails
            /\ adapter = "openai" /\ e.kind = "call"
         \/ /\ Translated(o \o a.frames, a.t, TextsSaid(read + 1), CallsSaid(read + 1),
                          ArgsSaid(read + 1))
            /\ ~a.t.fails /\ ~a.t.done /\ a.t.reason = t.reason
<1> DEFINE c == PieceOf(e)
<1>1. /\ e \in Events /\ read \in Nat
      /\ TextsSaid(read + 1) = IF e.kind = "text" THEN TextsSaid(read) + 1 ELSE TextsSaid(read)
      /\ CallsSaid(read + 1) = IF e.kind = "call" THEN CallsSaid(read) + 1 ELSE CallsSaid(read)
      /\ e.kind = "text" => e.n = TextsSaid(read) + 1
      /\ e.kind = "call" => e.call = CallsSaid(read) + 1
      /\ e.kind = "args" => /\ e.call \in 1 .. CallsSaid(read) /\ e.call \in 1 .. MaxCalls
                            /\ e.n = ArgsSaid(read)[e.call] + 1
      /\ ArgsSaid(read + 1) = IF e.kind = "args" THEN [ArgsSaid(read) EXCEPT ![e.call] = @ + 1]
                              ELSE ArgsSaid(read)
  BY NextSaid
<1>2. read \in 0 .. Len(said) BY DEF UpInv, UpTypes
<1>3. /\ CallsSaid(read) \in Nat /\ TextsSaid(read) \in Nat
      /\ ArgsSaid(read) \in [1 .. MaxCalls -> Nat]
  BY <1>2, SaidBounded
<1>4. e.kind # "text" => e.call \in Nat \ {0} BY <1>1, <1>3 DEF Pieces
<1>5. /\ c \in Frames /\ c.n = e.n
      /\ e.kind = "text" => c.kind = "text"
      /\ e.kind = "call" => c.kind = "open"
      /\ e.kind = "args" => c.kind = "args"
      /\ e.kind # "text" => c.call = e.call /\ c.index = e.call - 1
  BY <1>1, <1>4, PieceIsFrame
<1>6. a = AcceptAll(<<c>>) OBVIOUS
<1> HIDE DEF c
<1>7. PICK texts, calls, args : texts = TextsSaid(read) /\ calls = CallsSaid(read)
                                /\ args = ArgsSaid(read)
  OBVIOUS
<1>8. Translated(o, t, texts, calls, args) BY <1>7 DEF Translated, ToldSoFar
<1>9. texts \in Nat /\ calls \in Nat /\ args \in [1 .. MaxCalls -> Nat] BY <1>3, <1>7
<1>10. CASE e.kind = "text"
  <2>1. c.kind = "text" /\ c.n = texts + 1 BY <1>1, <1>5, <1>7, <1>10
  <2>2. /\ Translated(o \o a.frames, a.t, texts + 1, calls, args) /\ SameEnd(t, a.t)
    BY <1>5, <1>6, <1>8, <1>9, <2>1, TextTranslated
  <2>3. /\ TextsSaid(read + 1) = texts + 1 /\ CallsSaid(read + 1) = calls
        /\ ArgsSaid(read + 1) = args
    BY <1>1, <1>7, <1>10
  <2>4. ~a.t.fails /\ ~a.t.done /\ a.t.reason = t.reason BY <2>2 DEF SameEnd
  <2> QED BY <2>2, <2>3, <2>4
<1>11. CASE e.kind = "call"
  <2>1. c.kind = "open" /\ c.call = calls + 1 /\ c.index = calls /\ c.n = e.n
    BY <1>1, <1>5, <1>7, <1>9, <1>11
  <2>2. CASE c.n # 0
    <3>1. Translated(o \o a.frames, a.t, texts, calls + 1, args) /\ SameEnd(t, a.t)
      BY <1>5, <1>6, <1>8, <1>9, <2>1, <2>2, CallTranslated
    <3>2. /\ TextsSaid(read + 1) = texts /\ CallsSaid(read + 1) = calls + 1
          /\ ArgsSaid(read + 1) = args
      BY <1>1, <1>7, <1>11
    <3>3. ~a.t.fails /\ ~a.t.done /\ a.t.reason = t.reason BY <3>1 DEF SameEnd
    <3> QED BY <3>1, <3>2, <3>3
  <2>3. CASE c.n = 0
    <3>1. a.frames = <<>> /\ a.t.fails /\ a.t = [t EXCEPT !.fails = TRUE]
      BY <1>5, <1>6, <1>7, <1>9, <2>1, <2>3, CallRefused
    <3>2. EventOK(adapter, said, read + 1) BY NextSaid
    <3>3. adapter = "openai" BY <1>11, <2>1, <2>3, <3>2 DEF EventOK, CallOK
    <3> QED BY <1>11, <3>1, <3>3
  <2> QED BY <2>2, <2>3
<1>12. CASE e.kind = "args"
  <2>1. PICK x : x = e.call OBVIOUS
  <2>2. /\ x \in 1 .. calls /\ x \in 1 .. MaxCalls
        /\ c.kind = "args" /\ c.index = x - 1 /\ c.call = x /\ c.n = args[x] + 1
    BY <1>1, <1>5, <1>7, <1>12, <2>1
  <2>3. Translated(o \o a.frames, a.t, texts, calls, [args EXCEPT ![x] = @ + 1])
        /\ SameEnd(t, a.t)
    <3>1. c \in Frames BY <1>5
    <3>2. LET d == AcceptAll(<<c>>)
          IN  /\ Translated(o \o d.frames, d.t, texts, calls, [args EXCEPT ![x] = @ + 1])
              /\ SameEnd(t, d.t)
      BY <1>8, <1>9, <2>2, <3>1, ArgsTranslated, Zenon
    <3> QED BY <1>6, <3>2, Zenon
  <2>4. /\ TextsSaid(read + 1) = texts /\ CallsSaid(read + 1) = calls
        /\ ArgsSaid(read + 1) = [args EXCEPT ![x] = @ + 1]
    BY <1>1, <1>7, <1>12, <2>1
  <2>5. ~a.t.fails /\ ~a.t.done /\ a.t.reason = t.reason BY <2>3 DEF SameEnd
  <2> QED BY <2>3, <2>4, <2>5
<1> QED BY <1>10, <1>11, <1>12 DEF Pieces

(* The chunks of an event that is no piece, told to a translator.            *)
ReasonTaken(e, reason) ==
  IF e.kind = "reason" THEN e.n
  ELSE IF e.kind = "stop" /\ adapter = "codex"
       THEN IF ad.calls > 0 THEN "tool_calls" ELSE e.n
       ELSE reason

LEMMA MessagesControl ==
  ASSUME route = "messages", NEW e, NEW b, FitsControl(e, b), ad \in Ads,
         e.kind = "reason" => e.n \in Ends,
         e.kind = "stop" /\ adapter = "codex" => e.n \in Ends,
         <<adapter, route>> \in Pairs,
         NEW calls, NEW t, t = tr, t \in Translators(calls), ~t.done,
         NEW a, a = AcceptAll(b.chunks)
  PROVE  /\ a.frames = <<>> /\ a.t \in Translators(calls) /\ SameBlocks(t, a.t)
         /\ a.t.reason = ReasonTaken(e, t.reason)
         /\ a.t.done <=> e.kind \in {"stop", "error"}
<1>0. adapter # "anthropic" BY DEF Pairs
<1>1. CASE e.kind \notin {"reason", "stop", "error"}
  <2>1. b.chunks = <<>> \/ b.chunks = <<Role>> BY <1>1, Zenon DEF FitsControl
  <2>2. a.frames = <<>> /\ Passed(t, a.t, calls, t.reason, FALSE)
    <3>1. t.done = FALSE BY DEF Translators
    <3>2. CASE b.chunks = <<>> BY <3>1, <3>2, PassedNone
    <3>3. CASE b.chunks = <<Role>>
      <4>1. Role \in Control /\ Role.kind = "role" BY ControlFrames
      <4>2. PICK r : r = Role OBVIOUS
      <4>3. a = AcceptAll(<<r>>) BY <3>3, <4>2
      <4>4. /\ a.frames = <<>>
            /\ Passed(t, a.t, calls, IF r.kind = "finish" THEN r.n ELSE t.reason,
                       IF r.kind = "done" THEN TRUE ELSE t.done)
        BY <4>1, <4>2, <4>3, PassedOne
      <4> QED BY <3>1, <4>1, <4>2, <4>4
    <3> QED BY <2>1, <3>2, <3>3
  <2> QED BY <1>1, <2>2 DEF Passed, ReasonTaken
<1>2. CASE e.kind = "reason"
  <2>1. PICK r : r = Finish(e.n) OBVIOUS
  <2>2. b.chunks = <<r>> BY <1>0, <1>2, <2>1, Zenon DEF FitsControl
  <2>3. r \in Control /\ r.kind = "finish" /\ r.n = e.n BY <1>2, <2>1, ControlFrames
  <2>4. /\ a.frames = <<>>
        /\ Passed(t, a.t, calls, IF r.kind = "finish" THEN r.n ELSE t.reason,
                   IF r.kind = "done" THEN TRUE ELSE t.done)
    BY <1>2, <2>2, <2>3, PassedOne
  <2>5. t.done = FALSE BY DEF Translators
  <2> QED BY <1>2, <2>3, <2>4, <2>5 DEF Passed, ReasonTaken
<1>3. CASE e.kind = "error"
  <2>1. PICK r : r = Error OBVIOUS
  <2>2. b.chunks = <<r, Done>> BY <1>0, <1>3, <2>1, Zenon DEF FitsControl
  <2>3. r \in Control /\ r.kind = "error" BY <2>1, ControlFrames
  <2>4. /\ a.frames = <<>>
        /\ Passed(t, a.t, calls, IF r.kind = "finish" THEN r.n ELSE t.reason, TRUE)
    BY <2>2, <2>3, PassedTwo
  <2> QED BY <1>3, <2>3, <2>4 DEF Passed, ReasonTaken
<1>4. CASE e.kind = "stop" /\ adapter = "codex"
  <2>1. PICK n : n = IF ad.calls > 0 THEN "tool_calls" ELSE e.n OBVIOUS
  <2>2. PICK r : r = Finish(n) OBVIOUS
  <2>3. n \in Ends BY <1>4, <2>1 DEF Ends
  <2>4. b.chunks = <<r, Done>>
    <3>1. b.chunks = EndChunks(e) BY <1>4, Zenon DEF FitsControl
    <3> QED BY <1>0, <1>4, <2>1, <2>2, <3>1, Zenon DEF EndChunks
  <2>5. r \in Control /\ r.kind = "finish" /\ r.n = n BY <2>2, <2>3, ControlFrames
  <2>6. /\ a.frames = <<>>
        /\ Passed(t, a.t, calls, IF r.kind = "finish" THEN r.n ELSE t.reason, TRUE)
    BY <2>3, <2>4, <2>5, PassedTwo
  <2> QED BY <1>4, <2>1, <2>5, <2>6 DEF Passed, ReasonTaken
<1>5. CASE e.kind = "stop" /\ adapter # "codex"
  <2>1. PICK r : r = Done OBVIOUS
  <2>2. b.chunks = <<r>>
    <3>1. b.chunks = EndChunks(e) BY <1>5, Zenon DEF FitsControl
    <3> QED BY <1>0, <1>5, <2>1, <3>1, Zenon DEF EndChunks
  <2>3. r \in Control /\ r.kind = "done" BY <2>1, ControlFrames
  <2>4. /\ a.frames = <<>>
        /\ Passed(t, a.t, calls, IF r.kind = "finish" THEN r.n ELSE t.reason,
                   IF r.kind = "done" THEN TRUE ELSE t.done)
    BY <2>2, <2>3, PassedOne
  <2> QED BY <1>5, <2>3, <2>4 DEF Passed, ReasonTaken
<1> QED BY <1>1, <1>2, <1>3, <1>4, <1>5

LEMMA RefusedRelay ==
  ASSUME route = "messages", NEW chunks, NEW last \in BOOLEAN, NEW calls, out \in Seq(Frames),
         NEW a, a = AcceptAll(chunks), a.frames = <<>>, a.t.fails, Relay(chunks, last)
  PROVE  tr' = a.t /\ out' = out /\ at' = "aborted"
<1>1. PICK o, over : o = out \o a.frames /\ over = (a.t.done \/ last) OBVIOUS
<1>2. /\ tr' = a.t
      /\ out' = o \o IF over /\ ~a.t.fails THEN FinishEvents(a.t) ELSE <<>>
      /\ at' = CASE a.t.fails -> "aborted"
                 [] over /\ ~a.t.fails -> "ended"
                 [] OTHER -> at
  BY <1>1, Zenon DEF Relay, Write
<1>3. o = out BY <1>1, ConcatEmptySeq
<1>4. out' = o \o <<>> /\ at' = "aborted" BY <1>2, Zenon
<1> QED BY <1>2, <1>3, <1>4, ConcatEmptySeq

LEMMA MessagesReads ==
  ASSUME UpInv, AtInv, AdapterInv, ReadEvent, route = "messages", NEW e, e = said[read + 1],
         ToldSoFar(out, read), TranslatorOK(tr, CallsSaid(read)), Blocks(out, tr, CallsSaid(read))
  PROVE  /\ ToldSoFar(out', Taken') /\ TranslatorOK(tr', CallsSaid(Taken'))
         /\ tr'.fails <=> at' = "aborted"
         /\ tr'.fails => adapter = "openai" /\ e.kind = "call"
         /\ at' = "ended" <=> ~Dropped /\ e.kind \in {"stop", "error"}
         /\ tr'.reason = IF Dropped THEN tr.reason ELSE ReasonTaken(e, tr.reason)
         /\ IF at' = "ended"
            THEN WellEnded(out') /\ \A i \in Positions(out', "finish") : out'[i].n = tr'.reason
            ELSE /\ Blocks(out', tr', CallsSaid(Taken')) /\ at' \in {"open", "aborted"}
                 /\ at' = "open" => ~tr'.done
<1>1. /\ read < Len(said) /\ Taken = read /\ read \in Nat /\ at = "open" /\ read + 1 \in 1 .. Len(said)
      /\ Taken' = IF Dropped \/ tr'.fails THEN read ELSE read + 1
      /\ Relay(NextAdapted.chunks, Returns(said[read + 1]))
  BY ReadsNext
<1>2. PICK b, chunks, t : b = Adapted(e) /\ chunks = NextAdapted.chunks /\ t = tr
  OBVIOUS
<1>3. PICK a : a = AcceptAll(chunks) OBVIOUS
<1>4. Relay(chunks, FALSE)
  <2>1. <<adapter, route>> \in Pairs BY DEF UpInv, UpTypes
  <2>2. Returns(said[read + 1]) = FALSE BY <2>1 DEF Pairs, Returns
  <2> QED BY <1>1, <1>2, <2>2
<1>5. ~t.done /\ ~t.fails BY <1>1, <1>2 DEF AtInv
<1>6. out \in Seq(Frames) BY DEF ToldSoFar, Tells
<1>7. read \in 0 .. Len(said) /\ read + 1 \in 0 .. Len(said) BY <1>1
<1>8. CallsSaid(read) \in Nat /\ CallsSaid(read + 1) \in Nat BY <1>7, SaidBounded
<1>9. CASE Dropped
  <2>1. chunks = <<>> BY <1>2, <1>9, ResultFields DEF NextAdapted
  <2>2. a.frames = <<>> /\ a.t = t BY <1>2, <1>3, <2>1, AcceptedNone
  <2>3. Translated(out \o a.frames, a.t, TextsSaid(read), CallsSaid(read), ArgsSaid(read))
    <3>1. out \o a.frames = out BY <1>6, <2>2, ConcatEmptySeq
    <3> QED BY <1>2, <2>2, <3>1 DEF Translated, ToldSoFar
  <2>4. /\ Tells(out', TextsSaid(read), CallsSaid(read), ArgsSaid(read))
        /\ TranslatorOK(tr', CallsSaid(read)) /\ tr' = a.t
        /\ at' = "open" /\ Blocks(out', tr', CallsSaid(read))
    BY <1>1, <1>3, <1>4, <1>5, <1>8, <2>2, <2>3, TranslatedRelay
  <2>5. Taken' = read BY <1>1, <1>9
  <2> QED BY <1>2, <1>5, <1>9, <2>2, <2>4, <2>5 DEF ToldSoFar
<1>10. CASE ~Dropped /\ e.kind \in Pieces
  <2>1. FitsPiece(e, b) BY <1>1, <1>2, <1>10, AdapterNext
  <2>2. chunks = <<PieceOf(e)>>
    <3>1. adapter # "anthropic" BY DEF UpInv, UpTypes, Pairs
    <3> QED BY <1>2, <1>10, <2>1, <3>1 DEF NextAdapted, FitsPiece
  <2>3. a = AcceptAll(<<PieceOf(e)>>) BY <1>3, <2>2
  <2>4. \/ /\ a.frames = <<>> /\ a.t = [t EXCEPT !.fails = TRUE] /\ a.t.fails
           /\ adapter = "openai" /\ e.kind = "call"
        \/ /\ Translated(out \o a.frames, a.t, TextsSaid(read + 1), CallsSaid(read + 1),
                         ArgsSaid(read + 1))
           /\ ~a.t.fails /\ ~a.t.done /\ a.t.reason = t.reason
    BY <1>1, <1>2, <1>5, <1>10, <2>3, MessagesPiece
  <2>5. e.kind \notin {"stop", "error", "reason"} /\ ReasonTaken(e, t.reason) = t.reason
    BY <1>10 DEF Pieces, ReasonTaken
  <2>6. CASE a.t.fails
    <3>1. /\ a.frames = <<>> /\ a.t = [t EXCEPT !.fails = TRUE]
          /\ adapter = "openai" /\ e.kind = "call"
      BY <2>4, <2>6
    <3>2. tr' = a.t /\ out' = out /\ at' = "aborted"
      BY <1>3, <1>4, <1>6, <2>6, <3>1, RefusedRelay
    <3>3. Taken' = read BY <1>1, <2>6, <3>2
    <3>4. /\ TranslatorOK(tr', CallsSaid(read)) /\ Blocks(out', tr', CallsSaid(read))
          /\ tr'.reason = t.reason
      <4>1. t \in Translators(CallsSaid(read)) BY <1>2 DEF TranslatorOK
      <4>2. /\ tr' \in Translators(CallsSaid(read)) /\ tr'.next = t.next
            /\ tr'.textAt = t.textAt /\ tr'.callAt = t.callAt /\ tr'.reason = t.reason
        BY <3>1, <3>2, <4>1, SetFails
      <4>3. TranslatorOK(t, CallsSaid(read)) /\ Blocks(out, t, CallsSaid(read)) BY <1>2
      <4>4. TranslatorOK(tr', CallsSaid(read)) BY <4>2, <4>3 DEF TranslatorOK
      <4>5. Blocks(out', tr', CallsSaid(read)) BY <3>2, <4>2, <4>3 DEF Blocks
      <4> QED BY <4>2, <4>4, <4>5
    <3> QED BY <1>2, <1>10, <2>5, <2>6, <3>1, <3>2, <3>3, <3>4
  <2>7. CASE ~a.t.fails
    <3>1. /\ Translated(out \o a.frames, a.t, TextsSaid(read + 1), CallsSaid(read + 1),
                         ArgsSaid(read + 1))
          /\ ~a.t.done /\ a.t.reason = t.reason
      BY <2>4, <2>7
    <3>2. /\ Tells(out', TextsSaid(read + 1), CallsSaid(read + 1), ArgsSaid(read + 1))
          /\ TranslatorOK(tr', CallsSaid(read + 1)) /\ tr' = a.t
          /\ at' = "open" /\ Blocks(out', tr', CallsSaid(read + 1))
      BY <1>1, <1>3, <1>4, <1>8, <2>7, <3>1, TranslatedRelay
    <3>3. Taken' = read + 1 BY <1>1, <1>10, <2>7, <3>2
    <3> QED BY <1>2, <1>10, <2>5, <2>7, <3>1, <3>2, <3>3 DEF ToldSoFar
  <2> QED BY <2>6, <2>7
<1>11. CASE ~Dropped /\ e.kind \notin Pieces
  <2>1. FitsControl(e, b) BY <1>1, <1>2, <1>11, AdapterNext
  <2>2. chunks = b.chunks BY <1>2, <1>11 DEF NextAdapted
  <2>3. EventOK(adapter, said, read + 1) BY <1>1, NextSaid
  <2>4. /\ e.kind = "reason" => e.n \in Ends
        /\ e.kind = "stop" /\ adapter = "codex" => e.n \in Ends
        /\ <<adapter, route>> \in Pairs /\ ad \in Ads
        /\ t \in Translators(CallsSaid(read))
    BY <1>2, <2>3 DEF EventOK, EndOK, UpInv, UpTypes, AdapterInv, Ads, TranslatorOK
  <2>5. /\ a.frames = <<>> /\ a.t \in Translators(CallsSaid(read)) /\ SameBlocks(t, a.t)
        /\ a.t.reason = ReasonTaken(e, t.reason)
        /\ a.t.done <=> e.kind \in {"stop", "error"}
    BY <1>2, <1>3, <1>5, <2>1, <2>2, <2>4, MessagesControl
  <2>6. ~a.t.fails BY <1>5, <2>5 DEF SameBlocks
  <2>7. /\ CallsSaid(read + 1) = CallsSaid(read) /\ ToldSoFar(out, read + 1)
    BY <1>1, <1>11, SameSaid
  <2>8. Translated(out \o a.frames, a.t, TextsSaid(read + 1), CallsSaid(read + 1),
                   ArgsSaid(read + 1))
    <3>1. out \o a.frames = out BY <1>6, <2>5, ConcatEmptySeq
    <3>2. TranslatorOK(t, CallsSaid(read)) /\ Blocks(out, t, CallsSaid(read)) BY <1>2
    <3>3. TranslatorOK(a.t, CallsSaid(read)) BY <2>5, <3>2 DEF TranslatorOK, SameBlocks
    <3>4. Blocks(out, a.t, CallsSaid(read)) BY <2>5, <3>2 DEF Blocks, SameBlocks
    <3> QED BY <2>7, <3>1, <3>3, <3>4 DEF Translated, ToldSoFar
  <2>9. /\ Tells(out', TextsSaid(read + 1), CallsSaid(read + 1), ArgsSaid(read + 1))
        /\ TranslatorOK(tr', CallsSaid(read + 1)) /\ tr' = a.t
        /\ IF a.t.done \/ FALSE
           THEN /\ at' = "ended" /\ WellEnded(out')
                /\ \A i \in Positions(out', "finish") : out'[i].n = tr'.reason
           ELSE at' = "open" /\ Blocks(out', tr', CallsSaid(read + 1))
    BY <1>1, <1>3, <1>4, <1>8, <2>6, <2>8, TranslatedRelay
  <2>10. Taken' = read + 1 BY <1>1, <1>11, <2>6, <2>9
  <2>11. CASE a.t.done BY <1>2, <1>11, <2>5, <2>6, <2>9, <2>10, <2>11 DEF ToldSoFar
  <2>12. CASE ~a.t.done BY <1>2, <1>11, <2>5, <2>6, <2>9, <2>10, <2>12 DEF ToldSoFar
  <2> QED BY <2>11, <2>12
<1> QED BY <1>9, <1>10, <1>11

LEMMA ReadKeepsRelay == ASSUME RelayInv, ReadEvent PROVE RelayInv'
<1>0. UpInv /\ AtInv /\ AdapterInv BY DEF RelayInv
<1>1. /\ read < Len(said) /\ Taken = read /\ read \in Nat /\ at = "open" /\ read' = read + 1
      /\ UNCHANGED <<adapter, route, said>> /\ UpInv'
  BY <1>0, ReadsNext
<1>2. ToldSoFar(out, read) BY <1>1 DEF RelayInv
<1>3. /\ TextsSaid(Taken)' = TextsSaid(Taken') /\ CallsSaid(Taken)' = CallsSaid(Taken')
      /\ ArgsSaid(Taken)' = ArgsSaid(Taken')
  BY <1>1, SaidPrimed
<1>4. ToldSoFar(out', Taken') => ToldSoFar(out, Taken)' BY <1>3 DEF ToldSoFar
<1>5. CASE route # "messages"
  <2>1. tr = NewTranslator /\ IndexedByCall(out) BY <1>5 DEF RelayInv, PlainInv
  <2>2. /\ ToldSoFar(out', Taken') /\ IndexedByCall(out') /\ tr' = NewTranslator
        /\ at' \in {"open", "ended"}
    BY <1>0, <1>2, <1>5, <2>1, PlainReads
  <2>3. AdapterInv' BY <1>0, <2>2, NewReads, ReadKeepsAdapter
  <2>4. AtInv' BY <2>2, NewReads DEF AtInv
  <2>5. PlainInv' /\ MessagesInv' BY <1>1, <1>5, <2>2 DEF PlainInv, MessagesInv
  <2> QED BY <1>1, <1>4, <2>2, <2>3, <2>4, <2>5 DEF RelayInv
<1>6. CASE route = "messages"
  <2>1. TranslatorOK(tr, CallsSaid(read)) /\ Blocks(out, tr, CallsSaid(read))
    BY <1>1, <1>6 DEF RelayInv, MessagesInv
  <2>2. PICK e : e = said[read + 1] OBVIOUS
  <2>3. /\ ToldSoFar(out', Taken') /\ TranslatorOK(tr', CallsSaid(Taken'))
        /\ tr'.fails <=> at' = "aborted"
        /\ tr'.fails => adapter = "openai"
        /\ IF at' = "ended"
           THEN WellEnded(out') /\ \A i \in Positions(out', "finish") : out'[i].n = tr'.reason
           ELSE /\ Blocks(out', tr', CallsSaid(Taken')) /\ at' \in {"open", "aborted"}
                /\ at' = "open" => ~tr'.done
    BY <1>0, <1>2, <1>6, <2>1, <2>2, MessagesReads
  <2>4. AdapterInv' BY <1>0, <2>3, ReadKeepsAdapter DEF Blockwise
  <2>5. AtInv' BY <1>1, <2>3 DEF AtInv
  <2>6. PlainInv' BY <1>1, <1>6 DEF PlainInv
  <2>7. MessagesInv' BY <1>1, <1>3, <1>6, <2>3 DEF MessagesInv
  <2> QED BY <1>1, <1>4, <2>3, <2>4, <2>5, <2>6, <2>7 DEF RelayInv
<1> QED BY <1>5, <1>6

(* The last chunks, and what ends a stream before its time.                 *)
LEMMA AtEofBare ==
  ASSUME UpInv, AdapterInv
  PROVE  AtEof \in Seq(Bare) /\ (route = "messages" => AtEof = <<>>)
<1>1. <<>> \in Seq(Bare) OBVIOUS
<1>2. ad.reason \in Ends BY DEF AdapterInv
<1>3. IfNoRole \o <<Finish(ad.reason), Done>> \in Seq(Bare) BY <1>2, EndBare
<1>4. route = "messages" => adapter # "anthropic" BY DEF UpInv, UpTypes, Pairs
<1> QED BY <1>1, <1>3, <1>4, Zenon DEF AtEof

LEMMA EofRelays ==
  ASSUME RelayInv, SeeEof
  PROVE  /\ ToldSoFar(out', Taken) /\ at' = "ended" /\ tr' = tr
         /\ route # "messages" => IndexedByCall(out')
         /\ route = "messages" =>
              WellEnded(out') /\ \A i \in Positions(out', "finish") : out'[i].n = tr'.reason
<1>0. UpInv /\ AtInv /\ AdapterInv /\ ToldSoFar(out, Taken) BY DEF RelayInv
<1>1. at = "open" /\ Relay(AtEof, TRUE) BY DEF SeeEof
<1>2. PICK chunks : chunks = AtEof OBVIOUS
<1>3. chunks \in Seq(Bare) /\ (route = "messages" => chunks = <<>>) BY <1>0, <1>2, AtEofBare
<1>4. CASE route # "messages"
  <2>1. IndexedByCall(out) BY <1>4 DEF RelayInv, PlainInv
  <2>2. ToldSoFar(out \o chunks, Taken) /\ IndexedByCall(out \o chunks)
    BY <1>0, <1>3, <2>1, PlainBare
  <2>3. /\ ToldSoFar(out', Taken) /\ IndexedByCall(out') /\ tr' = tr
        /\ at' = IF TRUE THEN "ended" ELSE at
    BY <1>1, <1>2, <1>4, <2>2, PlainRelay
  <2> QED BY <1>4, <2>3
<1>5. CASE route = "messages"
  <2>1. PICK a : a = AcceptAll(chunks) OBVIOUS
  <2>2. a.frames = <<>> /\ a.t = tr BY <1>3, <1>5, <2>1, AcceptedNone
  <2>3. Taken \in 0 .. Len(said) BY <1>0, TakenRange
  <2>4. CallsSaid(Taken) \in Nat BY <1>0, <2>3, SaidBounded
  <2>5. /\ TranslatorOK(tr, CallsSaid(Taken)) /\ Blocks(out, tr, CallsSaid(Taken)) /\ ~tr.fails
    BY <1>1, <1>5 DEF RelayInv, MessagesInv, AtInv
  <2>6. out \in Seq(Frames) BY <1>0 DEF ToldSoFar, Tells
  <2>7. Translated(out \o a.frames, a.t, TextsSaid(Taken), CallsSaid(Taken), ArgsSaid(Taken))
    <3>1. out \o a.frames = out BY <2>2, <2>6, ConcatEmptySeq
    <3> QED BY <1>0, <2>2, <2>5, <3>1 DEF Translated, ToldSoFar
  <2>8. /\ Tells(out', TextsSaid(Taken), CallsSaid(Taken), ArgsSaid(Taken)) /\ tr' = a.t
        /\ IF a.t.done \/ TRUE
           THEN /\ at' = "ended" /\ WellEnded(out')
                /\ \A i \in Positions(out', "finish") : out'[i].n = tr'.reason
           ELSE at' = "open" /\ Blocks(out', tr', CallsSaid(Taken))
    BY <1>1, <1>2, <1>5, <2>1, <2>2, <2>4, <2>5, <2>7, TranslatedRelay, ZenonT(30)
  <2> QED BY <1>5, <2>2, <2>8 DEF ToldSoFar
<1> QED BY <1>4, <1>5

(* Nothing more is read: what was taken stays what it was.                  *)
LEMMA StopKeepsRelay ==
  ASSUME RelayInv, UNCHANGED <<adapter, route, up, said, line, cut, read, ad, tr>>,
         ToldSoFar(out', Taken), at' \in {"ended", "failed", "refused", "aborted", "left"},
         route # "messages" => IndexedByCall(out'),
         route = "messages" =>
           /\ at' # "failed"
           /\ IF at' = "ended"
              THEN WellEnded(out') /\ \A i \in Positions(out', "finish") : out'[i].n = tr'.reason
              ELSE Blocks(out', tr, CallsSaid(Taken))
  PROVE  RelayInv'
<1>1. Taken' = Taken BY DEF Taken, Lost
<1>2. /\ TextsSaid(Taken)' = TextsSaid(Taken) /\ CallsSaid(Taken)' = CallsSaid(Taken)
      /\ ArgsSaid(Taken)' = ArgsSaid(Taken)
  BY <1>1, SaidPrimed
<1>3. UpInv'
  <2>1. UpInv /\ read' = read /\ read \in 0 .. Len(said) BY DEF RelayInv, UpInv, UpTypes
  <2> QED BY <2>1, ReaderKeepsUp
<1>4. AdapterInv' BY <1>1, <1>2 DEF RelayInv, AdapterInv
<1>5. AtInv' BY DEF RelayInv, AtInv
<1>6. ToldSoFar(out, Taken)' BY <1>2 DEF ToldSoFar
<1>7. PlainInv' BY DEF RelayInv, PlainInv
<1>8. MessagesInv' BY <1>2 DEF RelayInv, MessagesInv
<1> QED BY <1>3, <1>4, <1>5, <1>6, <1>7, <1>8 DEF RelayInv

LEMMA ServeKeepsRelay == ASSUME RelayInv, Serve \/ ClientLeaves PROVE RelayInv'
<1>1. CASE ReadEvent BY <1>1, ReadKeepsRelay
<1>2. CASE SeeEof
  <2>1. UNCHANGED <<adapter, route, up, said, line, cut, read, ad>> BY <1>2 DEF SeeEof, upVars
  <2> QED BY <1>2, <2>1, EofRelays, StopKeepsRelay
<1>3. CASE SeeBreak
  <2>1. /\ UNCHANGED <<adapter, route, up, said, line, cut, read, ad, tr>> /\ at = "open"
        /\ route = "messages" => at' = "aborted" /\ out' = out
        /\ route # "messages" => \/ at' = "refused" /\ out' = out
                                 \/ at' = "failed" /\ out' = out \o <<Error, Done>>
    BY <1>3 DEF SeeBreak, upVars
  <2>2. ToldSoFar(out, Taken) BY DEF RelayInv
  <2>3. CASE route = "messages"
    <3>1. Blocks(out, tr, CallsSaid(Taken)) BY <2>1, <2>3 DEF RelayInv, MessagesInv
    <3> QED BY <2>1, <2>2, <2>3, <3>1, StopKeepsRelay
  <2>4. CASE route # "messages"
    <3>1. <<Error, Done>> \in Seq(Bare)
      <4>1. Error \in Bare /\ Done \in Bare BY ControlFrames, BareFrames
      <4> QED BY <4>1
    <3>2. IndexedByCall(out) BY <2>4 DEF RelayInv, PlainInv
    <3>3. ToldSoFar(out', Taken) /\ IndexedByCall(out') BY <2>1, <2>2, <2>4, <3>1, <3>2, PlainBare
    <3> QED BY <2>1, <2>4, <3>3, StopKeepsRelay
  <2> QED BY <2>3, <2>4
<1>4. CASE ClientLeaves
  <2>1. /\ UNCHANGED <<adapter, route, up, said, line, cut, read, ad, tr, out>> /\ at = "open"
        /\ at' = "left"
    BY <1>4 DEF ClientLeaves, upVars
  <2>2. /\ ToldSoFar(out, Taken)
        /\ route = "messages" => Blocks(out, tr, CallsSaid(Taken))
        /\ route # "messages" => IndexedByCall(out)
    BY <2>1 DEF RelayInv, MessagesInv, PlainInv
  <2> QED BY <2>1, <2>2, StopKeepsRelay
<1> QED BY <1>1, <1>2, <1>3, <1>4 DEF Serve

LEMMA InitRelay == ASSUME Init PROVE RelayInv
<1>0. /\ said = <<>> /\ read = 0 /\ cut = FALSE /\ line = "up" /\ at = "open"
      /\ ad = NewAdapter /\ tr = NewTranslator /\ <<adapter, route>> \in Pairs
      /\ up = [at |-> IF adapter = "codex" THEN "between" ELSE "begin", pieces |-> 0,
               texts |-> 0, calls |-> 0, args |-> [c \in 1 .. MaxCalls |-> 0]]
      /\ out = IF route = "messages" THEN <<Frame("start", None, None, None)>> ELSE <<>>
  <2>1. PICK pair \in Pairs : adapter = pair[1] /\ route = pair[2] BY DEF Init
  <2>2. <<adapter, route>> \in Pairs BY <2>1 DEF Pairs
  <2> QED BY <2>2 DEF Init
<1>1. /\ said \in Seq(Events) /\ Len(said) = 0 /\ DOMAIN said = {}
      /\ \A k : Positions(said, k) = {} /\ \A x : ArgsOf(said, x) = {}
  <2>1. said \in Seq(Events) /\ Len(said) = 0 /\ DOMAIN said = {} BY <1>0
  <2> QED BY <2>1 DEF Positions, ArgsOf
<1>2. Cardinality({}) = 0 BY FS_EmptySet
<1>3. UpInv
  <2>1. UpTypes
    <3>1. up.at \in Phases BY <1>0 DEF Phases
    <3>2. up \in [at : Phases, pieces : 0 .. MaxPieces, texts : Nat, calls : 0 .. MaxCalls,
                  args : [1 .. MaxCalls -> Nat]]
      BY <1>0 DEF Phases
    <3>3. read \in 0 .. Len(said) BY <1>0, <1>1
    <3>4. line \in {"up", "closed", "broken"} /\ cut \in BOOLEAN /\ (cut => line = "closed")
      BY <1>0
    <3>5. <<adapter, route>> \in Pairs /\ said \in Seq(Events) BY <1>0, <1>1
    <3> QED BY <3>2, <3>3, <3>4, <3>5, Zenon DEF UpTypes
  <2>2. UpCounts BY <1>0, <1>1, <1>2 DEF UpCounts
  <2>3. SaidOK BY <1>1 DEF SaidOK
  <2>4. PhaseOK
    <3>1. LastKind = "none" BY <1>1 DEF LastKind
    <3> QED BY <1>0, <3>1 DEF PhaseOK
  <2> QED BY <2>1, <2>2, <2>3, <2>4 DEF UpInv
<1>4. Taken = 0 BY <1>0, NewReads DEF Taken, Lost
<1>5. TextsSaid(0) = 0 /\ CallsSaid(0) = 0 /\ ArgsSaid(0) = [x \in 1 .. MaxCalls |-> 0]
  <2>1. 0 \in Nat OBVIOUS
  <2>2. \A S : Count(S, 0) = 0 BY <2>1, CountNext
  <2> QED BY <2>2 DEF TextsSaid, CallsSaid, ArgsSaid
<1>6. AdapterInv
  <2>1. ad \in [role : BOOLEAN, block : {"text", "call"}, index : Nat, calls : Nat, reason : Ends]
        /\ ad.calls = 0
    BY <1>0 DEF NewAdapter, Ends
  <2> QED BY <1>4, <1>5, <2>1 DEF AdapterInv
<1>7. AtInv BY <1>0, NewReads DEF AtInv
<1>8. /\ out \in Seq(Frames) /\ \A k : k # "start" => Positions(out, k) = {}
      /\ route = "messages" => Positions(out, "start") = {1}
  <2>1. CASE route = "messages"
    <3>1. PICK f : f = Frame("start", None, None, None) OBVIOUS
    <3>2. f \in Frames /\ f.kind = "start"
      <4>1. None \in Number /\ "start" \in FrameKinds BY DEF Number, FrameKinds
      <4> QED BY <3>1, <4>1, FrameFields
    <3>3. out = <<f>> BY <1>0, <2>1, <3>1
    <3>4. out \in Seq(Frames) /\ DOMAIN out = {1} /\ out[1] = f BY <3>2, <3>3
    <3> QED BY <3>2, <3>4 DEF Positions
  <2>2. CASE route # "messages"
    <3>1. out = <<>> BY <1>0, <2>2
    <3>2. out \in Seq(Frames) /\ DOMAIN out = {} BY <3>1
    <3> QED BY <2>2, <3>2 DEF Positions
  <2> QED BY <2>1, <2>2
<1>9. OpenedIn(out) = {} /\ \A x : ArgsOf(out, x) = {} BY <1>8 DEF OpenedIn, ArgsOf
<1>10. ToldSoFar(out, Taken)
  <2>1. {out[i].call : i \in OpenedIn(out)} = 1 .. 0 BY <1>9
  <2> QED BY <1>2, <1>4, <1>5, <1>8, <1>9, <2>1, ZenonT(30)
      DEF ToldSoFar, Tells, Numbered, CallsApart, ArgsFollowCall
<1>11. PlainInv BY <1>0, <1>9 DEF PlainInv, IndexedByCall
<1>12. MessagesInv
  <2> SUFFICES ASSUME route = "messages"
               PROVE  TranslatorOK(tr, CallsSaid(Taken)) /\ Blocks(out, tr, CallsSaid(Taken))
    BY <1>0 DEF MessagesInv
  <2>1. TranslatorOK(tr, 0)
    <3>1. tr.next = 0 /\ tr.textAt = None BY <1>0 DEF NewTranslator
    <3> QED BY <1>0, <3>1, NewReads DEF TranslatorOK
  <2>2. Blocks(out, tr, 0)
    <3>1. tr.next = 0 /\ tr.textAt = None BY <1>0 DEF NewTranslator
    <3>2. \A k : k # "start" => Positions(out, k) = {} BY <1>8
    <3>3. /\ Positions(out, "open") = {} /\ Positions(out, "text") = {}
          /\ Positions(out, "close") = {} /\ Positions(out, "finish") = {}
          /\ Positions(out, "stop") = {} /\ Positions(out, "start") = {1}
      BY <3>2, <1>8
    <3>4. Cardinality(Positions(out, "open")) = 0 BY <1>2, <3>3
    <3>5. \A t : t = tr => Blocks(out, t, 0)
      BY <1>9, <3>1, <3>3, <3>4, Zenon DEF Blocks, OpensInOrder, TextFollowsBlock
    <3> QED BY <3>5
  <2> QED BY <1>4, <1>5, <2>1, <2>2
<1> QED BY <1>3, <1>6, <1>7, <1>10, <1>11, <1>12 DEF RelayInv

(* After every step of upstream, of the generators and of the client, the    *)
(* frames written tell exactly what the events taken so far carry.          *)
THEOREM RelayInvariant == Spec => []RelayInv
<1>1. RelayInv /\ UNCHANGED vars => RelayInv'
  <2> SUFFICES ASSUME RelayInv, UNCHANGED vars PROVE RelayInv' OBVIOUS
  <2>1. UNCHANGED <<adapter, route, up, said, line, cut, read, ad, tr, at, out>> BY DEF vars
  <2>2. RelayInv OBVIOUS
  <2>3. Taken' = Taken BY <2>1 DEF Taken, Lost
  <2>4. /\ TextsSaid(Taken)' = TextsSaid(Taken) /\ CallsSaid(Taken)' = CallsSaid(Taken)
        /\ ArgsSaid(Taken)' = ArgsSaid(Taken)
    BY <2>1, <2>3, SaidPrimed
  <2>5. UpInv'
    <3>2. UpInv BY DEF RelayInv
    <3>1. read' = read /\ read \in 0 .. Len(said) BY <2>1, <3>2 DEF UpInv, UpTypes
    <3> QED BY <2>1, <3>1, <3>2, ReaderKeepsUp
  <2>6. AdapterInv' /\ AtInv' BY <2>1, <2>3, <2>4 DEF RelayInv, AdapterInv, AtInv
  <2>7. ToldSoFar(out, Taken)' BY <2>1, <2>4 DEF RelayInv, ToldSoFar
  <2>8. PlainInv' BY <2>1 DEF RelayInv, PlainInv
  <2>9. MessagesInv' BY <2>1, <2>4 DEF RelayInv, MessagesInv
  <2> QED BY <2>5, <2>6, <2>7, <2>8, <2>9 DEF RelayInv
<1>2. RelayInv /\ Next => RelayInv'
  <2> SUFFICES ASSUME RelayInv, Next PROVE RelayInv' OBVIOUS
  <2>1. Upstream \/ Serve \/ ClientLeaves BY DEF Next
  <2> QED BY <2>1, UpstreamKeepsRelay, ServeKeepsRelay
<1> QED BY <1>1, <1>2, InitRelay, PTL DEF Spec

-----------------------------------------------------------------------------
(* What a reader of events is given.                                        *)

GivenInv ==
  /\ given \in 0 .. Len(out) /\ OnlyEndsWithheld
  /\ route = "universal" => given = 0

(* While an event is still to be read, all that was written was given.      *)
LEMMA AllGiven ==
  ASSUME GivenInv, out \in Seq(Frames), at = "open", route # "universal",
         route = "messages" \/ ~cut \/ read # Len(said)
  PROVE  given = Len(out)
<1>1. PICK n : n = Len(out) OBVIOUS
<1>2. n \in Nat /\ DOMAIN out = 1 .. n BY <1>1
<1>3. given \in 0 .. n BY <1>1 DEF GivenInv
<1>4. \A i \in 1 .. n : ~(i > given) BY <1>2 DEF GivenInv, OnlyEndsWithheld
<1>5. given = n BY <1>2, <1>3, <1>4
<1> QED BY <1>1, <1>5

(* A step after which all that is written is given.                         *)
LEMMA GivesAll ==
  ASSUME out' \in Seq(Frames), given' = Len(out'), route' # "universal"
  PROVE  GivenInv'
<1>1. Len(out') \in Nat /\ DOMAIN out' = 1 .. Len(out') OBVIOUS
<1>2. \A i \in DOMAIN out' : ~(i > given') BY <1>1
<1> QED BY <1>1, <1>2 DEF GivenInv, OnlyEndsWithheld

(* On /v1/universal no step gives anything.                                 *)
LEMMA UniversalGives ==
  ASSUME GivenInv, out' \in Seq(Frames), given' = given, route = "universal", route' = route
  PROVE  GivenInv'
<1>1. Len(out') \in Nat /\ given' = 0 BY DEF GivenInv
<1> QED BY <1>1 DEF GivenInv, OnlyEndsWithheld

LEMMA OneChunk == ASSUME NEW e PROVE \E f : PassedThrough(e).chunks = <<f>>
<1>1. PICK c : PassedThrough(e) = Result(c, ad) /\ \E f : c = <<f>>
  <2>1. CASE e.kind = "message" BY <2>1, Zenon DEF PassedThrough
  <2>2. CASE e.kind = "call" BY <2>2, Zenon DEF PassedThrough
  <2>3. CASE e.kind = "text" BY <2>3, Zenon DEF PassedThrough
  <2>4. CASE e.kind = "args" BY <2>4, Zenon DEF PassedThrough
  <2>5. CASE e.kind = "reason" BY <2>5, Zenon DEF PassedThrough
  <2>6. CASE e.kind \notin {"message", "call", "text", "args", "reason"}
    BY <2>6, Zenon DEF PassedThrough
  <2> QED BY <2>1, <2>2, <2>3, <2>4, <2>5, <2>6
<1> QED BY <1>1, ResultFields

LEMMA OneMore ==
  ASSUME NEW o \in Seq(Frames), NEW f
  PROVE  Len(o \o <<f>> \o <<>>) = Len(o) + 1
<1> DEFINE S == Frames \cup {f}
<1>1. o \in Seq(S) /\ <<f>> \in Seq(S) /\ <<>> \in Seq(S) OBVIOUS
<1> HIDE DEF S
<1>2. o \o <<f>> \in Seq(S) /\ Len(o \o <<f>>) = Len(o) + Len(<<f>>) /\ Len(<<f>>) = 1
  BY <1>1, ConcatProperties
<1>3. Len((o \o <<f>>) \o <<>>) = Len(o \o <<f>>) + Len(<<>>) /\ Len(<<>>) = 0
  BY <1>1, <1>2, ConcatProperties
<1>4. Len(o) \in Nat BY <1>1
<1> QED BY <1>2, <1>3, <1>4

LEMMA ReadGives == ASSUME RelayInv, RelayInv', GivenInv, ReadEvent PROVE GivenInv'
<1>0. /\ UpInv /\ AtInv /\ AdapterInv
      /\ out \in Seq(Frames) /\ out' \in Seq(Frames)
  BY DEF RelayInv, ToldSoFar, Tells
<1>1. /\ at = "open" /\ read < Len(said) /\ read \in Nat /\ Len(said) \in Nat
      /\ read' = read + 1 /\ UNCHANGED <<adapter, route, said, cut>>
  BY <1>0 DEF ReadEvent, upVars, UpInv, UpTypes
<1>2. PICK chunks, last : Relay(chunks, last) /\ chunks = NextAdapted.chunks
                          /\ last = Returns(said[read + 1])
  BY <1>0, ReadsNext
<1>3. given' = IF route = "universal" \/ (route = "chat" /\ Unended) \/ out' = out
               THEN given ELSE Len(out')
  BY <1>2 DEF Relay, Write
<1>4. CASE route = "universal" BY <1>0, <1>1, <1>3, <1>4, UniversalGives
<1>5. CASE route # "universal" /\ ~(route = "chat" /\ Unended)
  <2>1. given = Len(out) BY <1>0, <1>1, <1>5, AllGiven
  <2>2. given' = Len(out') BY <1>3, <1>5, <2>1
  <2> QED BY <1>0, <1>1, <1>5, <2>2, GivesAll
<1>6. CASE route = "chat" /\ Unended
  <2>1. given = Len(out) BY <1>0, <1>1, <1>6, AllGiven
  <2>2. adapter = "openai" /\ cut /\ read' = Len(said) BY <1>1, <1>6 DEF Unended
  <2>3. PICK f : chunks = <<f>>
    <3>1. ~Dropped BY <1>6, <2>2 DEF Dropped
    <3>2. Adapted(said[read + 1]) = PassedThrough(said[read + 1]) BY <2>2, Zenon DEF Adapted
    <3> QED BY <1>2, <3>1, <3>2, OneChunk DEF NextAdapted
  <2>4. out' = out \o <<f>> \o <<>> BY <1>2, <1>6, <2>3 DEF Relay, Write
  <2>5. Len(out') = Len(out) + 1 /\ Len(out) \in Nat BY <1>0, <2>4, OneMore
  <2>6. given' = Len(out) BY <1>3, <1>6, <2>1
  <2>7. \A i \in DOMAIN out' : i > given' => i = Len(out')
    <3>1. DOMAIN out' = 1 .. Len(out') BY <1>0
    <3> QED BY <2>5, <2>6, <3>1
  <2>8. given' \in 0 .. Len(out') BY <2>5, <2>6
  <2>9. route' = "chat" /\ adapter' = "openai" /\ cut' /\ read' = Len(said')
    BY <1>1, <1>6, <2>2
  <2> QED BY <2>7, <2>8, <2>9 DEF GivenInv, OnlyEndsWithheld
<1>7. route \in {"chat", "universal", "messages"} BY <1>0 DEF UpInv, UpTypes, Pairs
<1> QED BY <1>4, <1>5, <1>6

LEMMA EofGives == ASSUME RelayInv, RelayInv', GivenInv, SeeEof PROVE GivenInv'
<1>0. UpInv /\ out \in Seq(Frames) /\ out' \in Seq(Frames) BY DEF RelayInv, ToldSoFar, Tells
<1>1. /\ at = "open" /\ read = Len(said) /\ Relay(AtEof, TRUE)
      /\ UNCHANGED <<adapter, route, said, cut, read>>
  BY DEF SeeEof, upVars
<1>2. given' = IF route = "universal" \/ (route = "chat" /\ Unended) \/ out' = out
               THEN given ELSE Len(out')
  BY <1>1 DEF Relay, Write
<1>3. ~Unended
  <2>1. Len(said) \in Nat BY <1>0 DEF UpInv, UpTypes
  <2> QED BY <1>1, <2>1 DEF Unended
<1>4. CASE route = "universal" BY <1>0, <1>1, <1>2, <1>4, UniversalGives
<1>5. CASE route # "universal" /\ out' # out
  <2>1. given' = Len(out') BY <1>2, <1>3, <1>5
  <2> QED BY <1>0, <1>1, <1>5, <2>1, GivesAll
<1>6. CASE route # "universal" /\ out' = out
  <2>1. given' = given BY <1>2, <1>6
  <2> QED BY <1>1, <1>6, <2>1 DEF GivenInv, OnlyEndsWithheld
<1> QED BY <1>4, <1>5, <1>6

LEMMA BreakGives == ASSUME RelayInv, RelayInv', GivenInv, SeeBreak PROVE GivenInv'
<1>0. UpInv /\ out \in Seq(Frames) /\ out' \in Seq(Frames) BY DEF RelayInv, ToldSoFar, Tells
<1>1. /\ at = "open" /\ line = "broken" /\ UNCHANGED <<adapter, route, said, cut, read, given>>
      /\ \/ route = "messages" /\ out' = out
         \/ out = <<>> /\ out' = out
         \/ route # "messages" /\ at' = "failed" /\ out' = out \o <<Error, Done>>
  BY DEF SeeBreak, upVars
<1>2. ~cut BY <1>0, <1>1 DEF UpInv, UpTypes
<1>3. CASE route = "universal" BY <1>0, <1>1, <1>3, UniversalGives
<1>4. CASE route # "universal" /\ out' = out
  <2>1. given = Len(out) BY <1>0, <1>1, <1>2, <1>4, AllGiven
  <2> QED BY <1>0, <1>1, <1>4, <2>1, GivesAll
<1>5. CASE route \notin {"universal", "messages"} /\ at' = "failed" /\ out' = out \o <<Error, Done>>
  <2>1. given = Len(out) /\ Len(out) \in Nat BY <1>0, <1>1, <1>2, <1>5, AllGiven
  <2>2. PICK e, d : e = Error /\ d = Done OBVIOUS
  <2>3. e \in Frames /\ e.kind = "error" /\ d \in Frames /\ d.kind = "done"
    BY <2>2, ControlFrames, BareFrames
  <2>4. out' = Append(Append(out, e), d) BY <1>0, <1>5, <2>2, <2>3, ConcatFew
  <2>5. /\ Len(out') = Len(out) + 2 /\ out'[Len(out) + 1] = e /\ out'[Len(out) + 2] = d
        /\ DOMAIN out' = 1 .. Len(out')
    BY <1>0, <2>3, <2>4
  <2>6. \A i \in DOMAIN out' : i > given' => out'[i].kind \in {"error", "done"}
    <3> TAKE i \in DOMAIN out'
    <3>1. i > given' => i = Len(out) + 1 \/ i = Len(out) + 2 BY <1>1, <2>1, <2>5
    <3> QED BY <2>3, <2>5, <3>1
  <2>7. given' \in 0 .. Len(out') BY <1>1, <2>1, <2>5
  <2>8. route' = "chat" /\ at' = "failed"
    <3>1. route \in {"chat", "universal", "messages"} BY <1>0 DEF UpInv, UpTypes, Pairs
    <3> QED BY <1>1, <1>5, <3>1
  <2> QED BY <2>6, <2>7, <2>8 DEF GivenInv, OnlyEndsWithheld
<1> QED BY <1>1, <1>3, <1>4, <1>5

(* On another route than /v1/universal the reader of events is given all    *)
(* that is written but the error after a break and a last frame that        *)
(* upstream itself left unended; on /v1/universal it is given nothing.      *)
THEOREM GivenInvariant == Spec => []GivenInv
<1>1. Init => GivenInv
  <2> SUFFICES ASSUME Init PROVE GivenInv OBVIOUS
  <2>1. out \in Seq(Frames) BY InitRelay DEF RelayInv, ToldSoFar, Tells
  <2>2. given = Len(out) /\ (route # "messages" => out = <<>>) BY DEF Init
  <2>3. Len(out) \in Nat /\ DOMAIN out = 1 .. Len(out) BY <2>1
  <2>4. \A i \in DOMAIN out : ~(i > given) BY <2>2, <2>3
  <2>5. route = "universal" => given = 0 BY <2>2
  <2> QED BY <2>2, <2>3, <2>4, <2>5 DEF GivenInv, OnlyEndsWithheld
<1>2. RelayInv /\ RelayInv' /\ GivenInv /\ [Next]_vars => GivenInv'
  <2> SUFFICES ASSUME RelayInv, RelayInv', GivenInv, [Next]_vars PROVE GivenInv' OBVIOUS
  <2>1. CASE Upstream
    <3>1. UNCHANGED <<adapter, route, read, at, out, given>> /\ line = "up"
      BY <2>1, UpstreamLeaves
    <3>2. ~cut BY <3>1 DEF RelayInv, UpInv, UpTypes
    <3> QED BY <3>1, <3>2 DEF GivenInv, OnlyEndsWithheld
  <2>2. CASE ReadEvent BY <2>2, ReadGives
  <2>3. CASE SeeEof BY <2>3, EofGives
  <2>4. CASE SeeBreak BY <2>4, BreakGives
  <2>5. CASE ClientLeaves
    BY <2>5 DEF ClientLeaves, upVars, GivenInv, OnlyEndsWithheld
  <2>6. CASE UNCHANGED vars BY <2>6 DEF vars, GivenInv, OnlyEndsWithheld
  <2> QED BY <2>1, <2>2, <2>3, <2>4, <2>5, <2>6 DEF Next, Serve
<1> QED BY <1>1, <1>2, RelayInvariant, PTL DEF Spec

-----------------------------------------------------------------------------
LEMMA TranslatorHeld ==
  ASSUME RelayInv
  PROVE  /\ CallsSaid(Taken) \in 0 .. MaxCalls
         /\ TranslatorOK(tr, IF route = "messages" THEN CallsSaid(Taken) ELSE 0)
<1>1. UpInv /\ AtInv BY DEF RelayInv
<1>2. Taken \in 0 .. Len(said) BY <1>1, TakenRange
<1>3. CallsSaid(Taken) \in 0 .. MaxCalls BY <1>1, <1>2, SaidBounded
<1>4. CASE route = "messages" BY <1>3, <1>4 DEF RelayInv, MessagesInv
<1>5. CASE route # "messages"
  <2>1. tr = NewTranslator BY <1>5 DEF RelayInv, PlainInv
  <2>2. tr.next = 0 /\ tr.textAt = None BY <2>1 DEF NewTranslator
  <2>3. TranslatorOK(tr, 0) BY <2>1, <2>2, NewReads DEF TranslatorOK
  <2> QED BY <1>3, <1>5, <2>3
<1> QED BY <1>4, <1>5

(* The state has the shape the code gives it, and the adapter never reads   *)
(* more than was said.                                                      *)
THEOREM StreamTypeCorrect == Spec => []TypeOK
<1>1. RelayInv /\ GivenInv => TypeOK
  <2> SUFFICES ASSUME RelayInv, GivenInv PROVE TypeOK OBVIOUS
  <2>1. UpInv /\ AtInv /\ AdapterInv BY DEF RelayInv
  <2>2. /\ <<adapter, route>> \in Pairs
        /\ line \in {"up", "closed", "broken"} /\ cut \in BOOLEAN
        /\ read \in 0 .. Len(said)
        /\ up.pieces \in 0 .. MaxPieces /\ up.calls \in 0 .. MaxCalls
    BY <2>1 DEF UpInv, UpTypes
  <2>3. at \in {"open", "ended", "failed", "refused", "aborted", "left"} BY <2>1 DEF AtInv
  <2>4. ad.calls \in 0 .. MaxCalls
    <3>1. ad.calls = IF Blockwise(adapter) THEN CallsSaid(Taken) ELSE 0 BY <2>1 DEF AdapterInv
    <3> QED BY <3>1, TranslatorHeld
  <2>5. PICK calls : calls = IF route = "messages" THEN CallsSaid(Taken) ELSE 0 OBVIOUS
  <2>6. TranslatorOK(tr, calls) /\ calls \in 0 .. MaxCalls BY <2>5, TranslatorHeld
  <2>7. tr.next \in 0 .. MaxCalls + 1 BY <2>6 DEF TranslatorOK
  <2>8. tr.textAt = None \/ tr.textAt < tr.next BY <2>6 DEF TranslatorOK
  <2>9. \A i \in DOMAIN tr.callAt : tr.callAt[i] < tr.next
    BY <2>6 DEF TranslatorOK, Translators
  <2>10. given \in 0 .. Len(out) BY DEF GivenInv
  <2> QED BY <2>2, <2>3, <2>4, <2>7, <2>8, <2>9, <2>10 DEF TypeOK
<1> QED BY <1>1, RelayInvariant, GivenInvariant, PTL

(* The arguments at the index of a call are those of the call.              *)
LEMMA SameArgs ==
  ASSUME NEW texts, NEW calls, NEW args, Tells(out, texts, calls, args),
         NEW j \in OpenedIn(out)
  PROVE  ArgsAt(out[j].index) = ArgsOf(out, out[j].call)
<1>1. ASSUME NEW i \in Positions(out, "args")
      PROVE  out[i].index = out[j].index <=> out[i].call = out[j].call
  <2>1. PICK k \in OpenedIn(out) : out[k].index = out[i].index /\ out[k].call = out[i].call
    BY DEF Tells, ArgsFollowCall
  <2> QED BY <2>1 DEF Tells, CallsApart
<1> QED BY <1>1 DEF ArgsAt, ArgsOf

(* Whatever the adapter, the route and the interleaving of text and calls,  *)
(* the frames written hold the pieces of the text in their order, and those *)
(* of the arguments of each call in theirs, with those of no other call;    *)
(* what a reader of events is given begins as what is written does.         *)
THEOREM PiecesStayInOrder == Spec => []PiecesInOrder
<1>1. RelayInv => PiecesInOrder
  <2> SUFFICES ASSUME RelayInv PROVE PiecesInOrder OBVIOUS
  <2>1. UpInv /\ AtInv BY DEF RelayInv
  <2>2. Taken \in 0 .. Len(said) BY <2>1, TakenRange
  <2>3. PICK texts, calls, args :
          /\ calls \in 0 .. MaxCalls /\ Tells(out, texts, calls, args)
    BY <2>1, <2>2, SaidBounded DEF RelayInv, ToldSoFar
  <2>4. Opened = OpenedIn(out) BY DEF Opened, OpenedIn
  <2>5. Numbered(out, Positions(out, "text")) BY <2>3 DEF Tells
  <2>6. \A i, j \in Opened : i # j => out[i].index # out[j].index /\ out[i].call # out[j].call
    BY <2>3, <2>4 DEF Tells, CallsApart
  <2>7. \A i \in Positions(out, "args") : \E j \in Opened :
          j < i /\ out[j].index = out[i].index /\ out[j].call = out[i].call
    BY <2>3, <2>4 DEF Tells, ArgsFollowCall
  <2>8. ASSUME NEW j \in Opened PROVE Numbered(out, ArgsAt(out[j].index))
    <3>1. out[j].call \in 1 .. MaxCalls
      <4>1. out[j].call \in 1 .. calls BY <2>3, <2>4 DEF Tells
      <4> QED BY <2>3, <4>1
    <3>2. ArgsAt(out[j].index) = ArgsOf(out, out[j].call) BY <2>3, <2>4, SameArgs
    <3> QED BY <2>3, <3>1, <3>2 DEF Tells
  <2> QED BY <2>5, <2>6, <2>7, <2>8 DEF PiecesInOrder
<1> QED BY <1>1, RelayInvariant, PTL

(* A client of /v1/messages gets one message_start, first; blocks numbered  *)
(* in the order they are opened; deltas only for an open block of their     *)
(* kind; and by the end each block closed once, before the one              *)
(* message_delta and the one message_stop.                                  *)
THEOREM BlocksStayWellFormed == Spec => []BlocksWellFormed
<1>1. RelayInv => BlocksWellFormed
  <2> SUFFICES ASSUME RelayInv, route = "messages" PROVE BlocksWellFormed BY DEF BlocksWellFormed
  <2>1. WellFormed(out)
    <3>1. CASE at = "ended" BY <3>1 DEF RelayInv, MessagesInv, WellEnded
    <3>2. CASE at # "ended"
      <4>1. Tells(out, TextsSaid(Taken), CallsSaid(Taken), ArgsSaid(Taken))
            /\ Blocks(out, tr, CallsSaid(Taken))
        BY <3>2 DEF RelayInv, MessagesInv, ToldSoFar
      <4> QED BY <4>1, WellFormedSoFar
    <3> QED BY <3>1, <3>2
  <2>2. at = "ended" => WellEnded(out) BY DEF RelayInv, MessagesInv
  <2>3. \A i \in DOMAIN out : out[i].kind \in {"text", "args", "close"} =>
          \E j \in Positions(out, "open") :
            /\ j < i /\ out[j].index = out[i].index
            /\ out[i].kind # "close" =>
                 out[j].call = IF out[i].kind = "text" THEN None ELSE out[i].call
    BY <2>1 DEF WellFormed, InItsBlock
  <2> QED BY <2>1, <2>2, <2>3 DEF BlocksWellFormed, WellFormed, WellEnded, OpensInOrder
<1> QED BY <1>1, RelayInvariant, PTL

-----------------------------------------------------------------------------
(* The frame that ends the message.                                         *)

Final(o) ==
  \A i \in Positions(o, "finish"), j \in DOMAIN o :
    i < j => o[j].kind \in {"done", "error", "stop"}
NoFinish(o) == o \in Seq(Frames) /\ Positions(o, "finish") = {}
Trail == {f \in Frames : f.kind \in {"done", "error"}}

LEMMA FinalConcat ==
  ASSUME NEW o \in Seq(Frames), Final(o), NEW s \in Seq(Trail)
  PROVE  /\ o \o s \in Seq(Frames) /\ Final(o \o s)
         /\ Positions(o \o s, "finish") = Positions(o, "finish")
         /\ \A i \in Positions(o, "finish") : (o \o s)[i] = o[i]
<1>1. s \in Seq(Frames) BY DEF Trail
<1> DEFINE p == o \o s
<1>2. /\ p \in Seq(Frames) /\ Len(o) \in Nat /\ Len(s) \in Nat /\ Len(p) = Len(o) + Len(s)
      /\ \A i \in 1 .. Len(o) : p[i] = o[i]
      /\ \A i \in 1 .. Len(s) : p[Len(o) + i] = s[i]
      /\ \A i \in 1 .. Len(p) :
           i \in 1 .. Len(o) \/ (i > Len(o) /\ i - Len(o) \in 1 .. Len(s))
  BY <1>1, Concat
<1>3. \A i \in 1 .. Len(s) : s[i].kind \in {"done", "error"} BY DEF Trail
<1>4. \A i \in 1 .. Len(s) : s[i].kind # "finish" BY <1>3
<1>5. Positions(p, "finish") = Positions(o, "finish") BY <1>1, <1>4, ConcatPositions
<1> HIDE DEF p
<1>6. DOMAIN p = 1 .. Len(p) /\ DOMAIN o = 1 .. Len(o) BY <1>2
<1>7. \A i \in Positions(o, "finish") : i \in 1 .. Len(o) /\ p[i] = o[i]
  BY <1>2, <1>6 DEF Positions
<1>8. ASSUME NEW i \in Positions(p, "finish"), NEW j \in DOMAIN p, i < j
      PROVE  p[j].kind \in {"done", "error", "stop"}
  <2>1. CASE j \in 1 .. Len(o)
    <3>1. p[j] = o[j] /\ j \in DOMAIN o BY <1>2, <1>6, <2>1
    <3> QED BY <1>5, <1>8, <3>1 DEF Final
  <2>2. CASE j - Len(o) \in 1 .. Len(s)
    <3>1. p[Len(o) + (j - Len(o))] = s[j - Len(o)] BY <1>2, <2>2
    <3>2. j \in Nat BY <1>2, <1>6
    <3>3. Len(o) + (j - Len(o)) = j BY <1>2, <3>2
    <3> QED BY <1>3, <2>2, <3>1, <3>3
  <2> QED BY <1>2, <1>6, <2>1, <2>2
<1>9. p \in Seq(Frames) /\ Final(p) BY <1>2, <1>8 DEF Final
<1> QED BY <1>5, <1>7, <1>9 DEF p

EndsSo(p, o, f, s) == p = Append(o, f) \o s

LEMMA Finished ==
  ASSUME NEW o, NoFinish(o), NEW f \in Frames, f.kind = "finish", NEW s \in Seq(Trail),
         NEW p, EndsSo(p, o, f, s)
  PROVE  p \in Seq(Frames) /\ Final(p) /\ \A i \in Positions(p, "finish") : p[i] = f
<1> DEFINE q == Append(o, f)
<1>0. o \in Seq(Frames) /\ Positions(o, "finish") = {} BY DEF NoFinish
<1>1. /\ Positions(q, "finish") = {Len(o) + 1} /\ Len(o) \in Nat /\ Len(q) = Len(o) + 1
      /\ q[Len(o) + 1] = f /\ q \in Seq(Frames)
  BY <1>0, PositionsAppend
<1> HIDE DEF q
<1>2. Final(q) BY <1>1 DEF Final
<1>3. /\ q \o s \in Seq(Frames) /\ Final(q \o s)
      /\ Positions(q \o s, "finish") = Positions(q, "finish")
      /\ \A i \in Positions(q, "finish") : (q \o s)[i] = q[i]
  BY <1>1, <1>2, FinalConcat
<1> QED BY <1>1, <1>3 DEF q, EndsSo

LEMMA NoFinishConcat ==
  ASSUME NEW o, NoFinish(o), NEW s, NoFinish(s)
  PROVE  NoFinish(o \o s)
<1>1. o \in Seq(Frames) /\ s \in Seq(Frames) BY DEF NoFinish
<1>2. \A i \in 1 .. Len(s) : s[i].kind # "finish" BY <1>1 DEF NoFinish, Positions
<1>3. Positions(o \o s, "finish") = Positions(o, "finish") BY <1>1, <1>2, ConcatPositions
<1>4. o \o s \in Seq(Frames) BY <1>1, ConcatProperties
<1> QED BY <1>3, <1>4 DEF NoFinish

LEMMA NoFinishFinal == \A o : NoFinish(o) => Final(o) /\ o \in Seq(Frames)
BY DEF NoFinish, Final

LEMMA NoFinishFew ==
  /\ NoFinish(<<>>) /\ NoFinish(IfNoRole)
  /\ \A f \in Frames : f.kind # "finish" => NoFinish(<<f>>)
<1>1. NoFinish(<<>>)
  <2>1. <<>> \in Seq(Frames) /\ DOMAIN <<>> = {} OBVIOUS
  <2> QED BY <2>1 DEF NoFinish, Positions
<1>2. ASSUME NEW f \in Frames, f.kind # "finish" PROVE NoFinish(<<f>>)
  <2>1. <<f>> \in Seq(Frames) /\ DOMAIN <<f>> = {1} /\ <<f>>[1] = f OBVIOUS
  <2> QED BY <1>2, <2>1 DEF NoFinish, Positions
<1>3. Role \in Frames /\ Role.kind # "finish" BY ControlFrames, BareFrames
<1>4. NoFinish(IfNoRole) BY <1>1, <1>2, <1>3, Zenon DEF IfNoRole
<1> QED BY <1>1, <1>2, <1>4

LEMMA Trails ==
  /\ <<>> \in Seq(Trail) /\ <<Done>> \in Seq(Trail) /\ <<Error, Done>> \in Seq(Trail)
  /\ Trail \subseteq Bare
<1>1. Done \in Trail /\ Error \in Trail BY ControlFrames, BareFrames DEF Trail
<1> QED BY <1>1 DEF Trail, Bare

(* [DONE] of the route itself.                                              *)
LEMMA PlainTail ==
  ASSUME route # "messages", NEW chunks, NEW last \in BOOLEAN, Relay(chunks, last),
         NEW q, q = out \o chunks, q \in Seq(Frames), Final(q)
  PROVE  /\ Final(out') /\ Positions(out', "finish") = Positions(q, "finish")
         /\ \A i \in Positions(q, "finish") : out'[i] = q[i]
<1> DEFINE tail == IF last /\ route = "universal" THEN <<Done>> ELSE <<>>
<1>1. out' = q \o tail BY DEF Relay, Write
<1>2. tail \in Seq(Trail) BY Trails
<1> HIDE DEF tail
<1> QED BY <1>1, <1>2, FinalConcat

FinishedBy(q, o, s, f) ==
  q = o \o <<f>> \/ q = o \o <<f, Done>> \/ q = o \o (s \o <<f, Done>>)

LEMMA FinishAdded ==
  ASSUME NEW o, NoFinish(o), NEW s, NoFinish(s), NEW f \in Frames, f.kind = "finish",
         NEW q, FinishedBy(q, o, s, f)
  PROVE  q \in Seq(Frames) /\ Final(q) /\ \A i \in Positions(q, "finish") : q[i] = f
<1>0. o \in Seq(Frames) /\ s \in Seq(Frames) BY DEF NoFinish
<1>1. PICK d : d = Done OBVIOUS
<1>2. d \in Frames /\ <<d>> \in Seq(Trail) /\ <<>> \in Seq(Trail)
  BY <1>1, ControlFrames, BareFrames, Trails
<1>3. ASSUME NEW r, NoFinish(r)
      PROVE  r \o <<f>> = Append(r, f) \o <<>> /\ r \o <<f, d>> = Append(r, f) \o <<d>>
  <2>1. r \in Seq(Frames) BY <1>3 DEF NoFinish
  <2>2. r \o <<f>> = Append(r, f) /\ r \o <<f, d>> = Append(Append(r, f), d)
    BY <1>2, <2>1, ConcatFew
  <2>3. PICK p : p = Append(r, f) OBVIOUS
  <2>4. p \in Seq(Frames) BY <2>1, <2>3
  <2>5. p \o <<>> = p /\ p \o <<d>> = Append(p, d) BY <1>2, <2>4, ConcatFew
  <2> QED BY <2>2, <2>3, <2>5
<1>4. ASSUME NEW r, NoFinish(r), q = r \o <<f>> \/ q = r \o <<f, d>>
      PROVE  q \in Seq(Frames) /\ Final(q) /\ \A i \in Positions(q, "finish") : q[i] = f
  <2>1. PICK t \in {<<>>, <<d>>} : EndsSo(q, r, f, t) BY <1>3, <1>4 DEF EndsSo
  <2>2. t \in Seq(Trail) BY <1>2
  <2> QED BY <1>4, <2>1, <2>2, Finished
<1>5. CASE q = o \o <<f>> \/ q = o \o <<f, Done>> BY <1>1, <1>4, <1>5
<1>6. CASE q = o \o (s \o <<f, Done>>)
  <2>1. PICK l : l = <<f, d>> OBVIOUS
  <2>2. l \in Seq(Frames) BY <1>2, <2>1
  <2>3. q = (o \o s) \o l
    <3>1. q = o \o (s \o l) BY <1>1, <1>6, <2>1
    <3> QED BY <1>0, <2>2, <3>1, FramesAssociate, Zenon
  <2>4. NoFinish(o \o s) BY NoFinishConcat
  <2> QED BY <1>4, <2>1, <2>3, <2>4
<1> QED BY <1>5, <1>6 DEF FinishedBy

(* A reason upstream gave: nothing is said after it but the end, which       *)
(* gives none.                                                              *)
GivesReason(i) == said[i].kind \in {"reason", "stop"} /\ said[i].n # None

LEMMA EarlierReason ==
  ASSUME UpInv, NEW i \in 1 .. Len(said), NEW j \in 1 .. Len(said), i < j,
         said[i].kind \in {"reason", "stop"}
  PROVE  /\ said[i].kind = "reason" /\ adapter # "codex"
         /\ said[j].kind \in {"stop", "error"} /\ ~GivesReason(j)
         /\ ~Blockwise(adapter) => said[j].kind = "stop"
<1>1. /\ said[i].kind = "reason" /\ j = i + 1 /\ said[j].kind \in {"stop", "error"}
      /\ adapter # "codex"
  BY EndsLast
<1>2. EndOK(adapter, said, j)
  <2>1. j \in DOMAIN said BY DEF UpInv, UpTypes
  <2> QED BY <2>1 DEF UpInv, SaidOK, EventOK
<1> QED BY <1>1, <1>2 DEF EndOK, GivesReason

(* The reason an adapter tells with an end.                                 *)
ReasonOf(e) ==
  IF e.kind = "reason" THEN e.n
  ELSE IF adapter = "anthropic" THEN ad.reason
  ELSE IF ad.calls > 0 THEN "tool_calls" ELSE e.n

LEMMA PlainReadsEnd ==
  ASSUME UpInv, AtInv, AdapterInv, ReadEvent, route # "messages", out \in Seq(Frames),
         Final(out), NEW e, e = said[read + 1],
         ~NoFinish(out) =>
           /\ adapter # "anthropic"
           /\ \E i \in 1 .. read : said[i].kind \in {"reason", "stop"}
  PROVE  /\ Final(out')
         /\ \/ /\ Positions(out', "finish") = Positions(out, "finish")
               /\ \A i \in Positions(out, "finish") : out'[i] = out[i]
            \/ /\ NoFinish(out) /\ ~Dropped /\ e.kind \in {"reason", "stop"}
               /\ e.kind = "reason" => adapter # "anthropic"
               /\ e.kind = "stop" => Blockwise(adapter)
               /\ \A i \in Positions(out', "finish") : out'[i].n = ReasonOf(e)
<1>1. /\ read < Len(said) /\ Taken = read /\ read \in Nat /\ read + 1 \in 1 .. Len(said)
      /\ Relay(NextAdapted.chunks, Returns(said[read + 1]))
  BY ReadsNext
<1>2. PICK b, last, chunks, q :
        /\ b = Adapted(e) /\ last = Returns(e) /\ chunks = NextAdapted.chunks
        /\ q = out \o chunks
  OBVIOUS
<1>3. Relay(chunks, last) /\ last \in BOOLEAN BY <1>1, <1>2 DEF Returns
<1>4. ASSUME q \in Seq(Frames), Final(q), Positions(q, "finish") = Positions(out, "finish"),
             \A i \in Positions(out, "finish") : q[i] = out[i]
      PROVE  /\ Final(out') /\ Positions(out', "finish") = Positions(out, "finish")
             /\ \A i \in Positions(out, "finish") : out'[i] = out[i]
  <2>1. /\ Final(out') /\ Positions(out', "finish") = Positions(q, "finish")
        /\ \A i \in Positions(q, "finish") : out'[i] = q[i]
    BY <1>2, <1>3, <1>4, PlainTail
  <2> QED BY <1>4, <2>1
<1>5. CASE Dropped
  <2>1. chunks = <<>> BY <1>2, <1>5, ResultFields DEF NextAdapted
  <2>2. q = out BY <1>2, <2>1, ConcatEmptySeq
  <2> QED BY <1>4, <2>2
<1>6. ASSUME NoFinish(out), NoFinish(chunks)
      PROVE  /\ Final(out') /\ Positions(out', "finish") = Positions(out, "finish")
             /\ \A i \in Positions(out, "finish") : out'[i] = out[i]
  <2>1. NoFinish(q) BY <1>2, <1>6, NoFinishConcat
  <2>2. Positions(q, "finish") = {} /\ Positions(out, "finish") = {} BY <1>6, <2>1 DEF NoFinish
  <2> QED BY <1>4, <2>1, <2>2, NoFinishFinal
<1>7. CASE ~Dropped /\ ~NoFinish(out)
  <2>1. PICK i \in 1 .. read : said[i].kind \in {"reason", "stop"} BY <1>7
  <2>2. i \in 1 .. Len(said) /\ i < read + 1 BY <1>1
  <2>3. /\ said[i].kind = "reason" /\ adapter # "codex" /\ adapter # "anthropic"
        /\ ~Blockwise(adapter) => e.kind = "stop"
    BY <1>1, <1>7, <2>1, <2>2, EarlierReason
  <2>4. e.kind = "stop" BY <2>3 DEF Blockwise
  <2>5. chunks = <<Done>>
    <3>1. FitsControl(e, b) BY <1>1, <1>2, <2>4, AdapterNext DEF Pieces
    <3>2. chunks = b.chunks BY <1>2, <1>7 DEF NextAdapted
    <3>3. b.chunks = EndChunks(e) BY <2>4, <3>1, Zenon DEF FitsControl
    <3> QED BY <2>3, <3>2, <3>3, Zenon DEF EndChunks
  <2>6. chunks \in Seq(Trail) BY <2>5, Trails
  <2>7. /\ q \in Seq(Frames) /\ Final(q) /\ Positions(q, "finish") = Positions(out, "finish")
        /\ \A k \in Positions(out, "finish") : q[k] = out[k]
    BY <1>2, <2>6, FinalConcat
  <2> QED BY <1>4, <2>7
<1>8. CASE ~Dropped /\ NoFinish(out) /\ e.kind \in Pieces
  <2>1. FitsPiece(e, b) BY <1>1, <1>2, <1>8, AdapterNext
  <2>2. \/ chunks = <<PieceOf(e)>>
        \/ chunks = IfNoRole \o <<PieceOf(e)>>
    BY <1>2, <1>8, <2>1 DEF NextAdapted, FitsPiece
  <2>3. PieceOf(e) \in Frames /\ PieceOf(e).kind # "finish"
    <3>1. e \in Events /\ (e.kind # "text" => e.call \in Nat \ {0})
      <4>1. /\ e \in Events /\ e.kind = "call" => e.call \in 1 .. MaxCalls
            /\ e.kind = "args" => e.call \in 1 .. MaxCalls
        BY <1>1, NextSaid
      <4>2. e \in Events BY <1>1, NextSaid
      <4> QED BY <1>8, <4>1, <4>2 DEF Pieces
    <3> QED BY <1>8, <3>1, PieceIsFrame DEF Pieces
  <2>4. NoFinish(<<PieceOf(e)>>) /\ NoFinish(IfNoRole) BY <2>3, NoFinishFew
  <2>5. NoFinish(chunks) BY <2>2, <2>4, NoFinishConcat
  <2> QED BY <1>6, <1>8, <2>5
<1>9. CASE ~Dropped /\ NoFinish(out) /\ e.kind \notin Pieces
  <2>1. FitsControl(e, b) BY <1>1, <1>2, <1>9, AdapterNext
  <2>2. chunks = b.chunks BY <1>2, <1>9 DEF NextAdapted
  <2>3. EventOK(adapter, said, read + 1) BY <1>1, NextSaid
  <2>4. /\ e.kind = "reason" => e.n \in Ends
        /\ e.kind = "stop" /\ adapter = "codex" => e.n \in Ends
        /\ e.kind = "error" => Blockwise(adapter)
        /\ ad.reason \in Ends
    BY <2>3 DEF EventOK, EndOK, AdapterInv
  <2>5. ASSUME NEW r \in Ends, r = ReasonOf(e),
               \/ chunks = <<Finish(r)>> \/ chunks = <<Finish(r), Done>>
               \/ chunks = IfNoRole \o <<Finish(r), Done>>
        PROVE  Final(out') /\ \A i \in Positions(out', "finish") : out'[i].n = ReasonOf(e)
    <3>1. PICK f : f = Finish(r) OBVIOUS
    <3>2. f \in Frames /\ f.kind = "finish" /\ f.n = r BY <3>1, ControlFrames, BareFrames
    <3>3. FinishedBy(q, out, IfNoRole, f) BY <1>2, <2>5, <3>1 DEF FinishedBy
    <3>4. NoFinish(IfNoRole) /\ NoFinish(out) BY <1>9, NoFinishFew
    <3>5. q \in Seq(Frames) /\ Final(q) /\ \A i \in Positions(q, "finish") : q[i] = f
      BY <3>2, <3>3, <3>4, FinishAdded
    <3>6. /\ Final(out') /\ Positions(out', "finish") = Positions(q, "finish")
          /\ \A i \in Positions(q, "finish") : out'[i] = q[i]
      BY <1>2, <1>3, <3>5, PlainTail
    <3> QED BY <2>5, <3>2, <3>5, <3>6
  <2>6. /\ Done \in Frames /\ Done.kind # "finish" /\ Role \in Frames /\ Role.kind # "finish"
        /\ Error \in Frames /\ Error.kind # "finish"
    BY ControlFrames, BareFrames
  <2>7. NoFinish(<<>>) /\ NoFinish(<<Done>>) /\ NoFinish(<<Role>>) BY <2>6, NoFinishFew
  <2>8. CASE e.kind = "reason" /\ adapter # "anthropic"
    <3>1. chunks = <<Finish(e.n)>> BY <2>1, <2>2, <2>8, Zenon DEF FitsControl
    <3>2. ReasonOf(e) = e.n BY <2>8 DEF ReasonOf
    <3> QED BY <1>9, <2>4, <2>5, <2>8, <3>1, <3>2
  <2>9. CASE e.kind = "reason" /\ adapter = "anthropic"
    <3>1. chunks = <<>> BY <2>1, <2>2, <2>9, Zenon DEF FitsControl
    <3> QED BY <1>6, <1>9, <2>7, <3>1
  <2>10. CASE e.kind = "stop"
    <3>0. chunks = EndChunks(e) BY <2>1, <2>2, <2>10, Zenon DEF FitsControl
    <3>1. CASE adapter = "anthropic"
      <4>1. chunks = IfNoRole \o <<Finish(ad.reason), Done>> BY <3>0, <3>1, Zenon DEF EndChunks
      <4>2. ReasonOf(e) = ad.reason BY <2>10, <3>1 DEF ReasonOf
      <4> QED BY <1>9, <2>4, <2>5, <2>10, <3>1, <4>1, <4>2 DEF Blockwise
    <3>2. CASE adapter = "codex"
      <4>1. PICK r : r = IF ad.calls > 0 THEN "tool_calls" ELSE e.n OBVIOUS
      <4>2. r \in Ends BY <2>4, <2>10, <3>2, <4>1 DEF Ends
      <4>3. chunks = <<Finish(r), Done>> BY <3>0, <3>2, <4>1, Zenon DEF EndChunks
      <4>4. ReasonOf(e) = r BY <2>10, <3>2, <4>1 DEF ReasonOf
      <4> QED BY <1>9, <2>5, <2>10, <3>2, <4>2, <4>3, <4>4 DEF Blockwise
    <3>3. CASE adapter \notin {"anthropic", "codex"}
      <4>1. chunks = <<Done>> BY <3>0, <3>3, Zenon DEF EndChunks
      <4> QED BY <1>6, <1>9, <2>7, <4>1
    <3> QED BY <3>1, <3>2, <3>3
  <2>11. CASE e.kind \notin {"reason", "stop"}
    <3>1. chunks = <<>> \/ chunks = <<Role>> \/ chunks = <<Error, Done>>
      <4>1. CASE e.kind = "error" BY <2>1, <2>2, <4>1, Zenon DEF FitsControl
      <4>2. CASE e.kind # "error" BY <2>1, <2>2, <2>11, <4>2 DEF FitsControl
      <4> QED BY <4>1, <4>2
    <3>2. NoFinish(<<Error, Done>>)
      <4>1. PICK g, d : g = Error /\ d = Done OBVIOUS
      <4>2. <<g, d>> \in Seq(Frames) /\ DOMAIN <<g, d>> = {1, 2} /\ <<g, d>>[1] = g /\ <<g, d>>[2] = d
        BY <2>6, <4>1
      <4> QED BY <2>6, <4>1, <4>2 DEF NoFinish, Positions
    <3> QED BY <1>6, <1>9, <2>7, <3>1, <3>2
  <2> QED BY <2>8, <2>9, <2>10, <2>11
<1> QED BY <1>5, <1>7, <1>8, <1>9

-----------------------------------------------------------------------------
(* The invariant of the end.                                                *)

(* A reason n that fits what was said up to the i-th event.                 *)
FitsReason(i, n) ==
  \A j \in 1 .. i : GivesReason(j) =>
    n = said[j].n \/ (adapter = "codex" /\ CallsSaid(i) > 0 /\ n = "tool_calls")
EndedBy(i)  == \E j \in 1 .. i : said[j].kind \in {"reason", "stop"}
FailedBy(i) == \E j \in 1 .. i : said[j].kind = "error"

EndInv ==
  /\ Final(out)
  /\ ~NoFinish(out) =>
       /\ ~tr.fails
       /\ \/ EndedBy(Taken)
          \/ route = "messages" /\ FailedBy(Taken)
          \/ /\ line = "closed" /\ read = Len(said)
             /\ adapter = "anthropic" \/ route = "messages"
  /\ route # "messages" /\ at = "open" /\ ~NoFinish(out) => adapter # "anthropic"
  /\ \A i \in Positions(out, "finish") : FitsReason(Taken, out[i].n)
  /\ route = "messages" => FitsReason(Taken, tr.reason)

LEMMA EndPrimed ==
  ASSUME NEW k \in Nat, Taken' = k, adapter' = adapter, route' = route,
         CallsSaid(Taken)' = CallsSaid(k), \A i \in 1 .. k : said'[i] = said[i],
         Final(out'),
         ~NoFinish(out') =>
           /\ ~tr'.fails
           /\ \/ EndedBy(k)
              \/ route = "messages" /\ FailedBy(k)
              \/ /\ line' = "closed" /\ read' = Len(said')
                 /\ adapter = "anthropic" \/ route = "messages",
         route # "messages" /\ at' = "open" /\ ~NoFinish(out') => adapter # "anthropic",
         \A i \in Positions(out', "finish") : FitsReason(k, out'[i].n),
         route = "messages" => FitsReason(k, tr'.reason)
  PROVE  EndInv'
<1>1. ASSUME NEW n, FitsReason(k, n)
      PROVE  \A j \in 1 .. Taken' : said'[j].kind \in {"reason", "stop"} /\ said'[j].n # None =>
               n = said'[j].n \/ (adapter' = "codex" /\ CallsSaid(Taken)' > 0 /\ n = "tool_calls")
  BY <1>1 DEF FitsReason, GivesReason
<1>2. \A i \in Positions(out', "finish") : FitsReason(Taken, out[i].n)'
  <2> TAKE i \in Positions(out', "finish")
  <2>1. FitsReason(k, out'[i].n) OBVIOUS
  <2> QED BY <1>1, <2>1 DEF FitsReason, GivesReason
<1>3. route = "messages" => FitsReason(Taken, tr.reason)'
  <2> SUFFICES ASSUME route = "messages" PROVE FitsReason(Taken, tr.reason)' OBVIOUS
  <2>1. FitsReason(k, tr'.reason) OBVIOUS
  <2> QED BY <1>1, <2>1 DEF FitsReason, GivesReason
<1>4. EndedBy(k) => EndedBy(Taken)' BY DEF EndedBy
<1>5. FailedBy(k) => FailedBy(Taken)' BY DEF FailedBy
<1>6. NoFinish(out)' <=> NoFinish(out') BY DEF NoFinish, Positions
<1>7. Final(out)' BY DEF Final, Positions
<1>8. Positions(out, "finish")' = Positions(out', "finish") BY DEF Positions
<1> QED BY <1>2, <1>3, <1>4, <1>5, <1>6, <1>7, <1>8 DEF EndInv

LEMMA FitsNext ==
  ASSUME UpInv, read < Len(said), NEW n, FitsReason(read, n),
         GivesReason(read + 1) =>
           \/ n = said[read + 1].n
           \/ adapter = "codex" /\ CallsSaid(read + 1) > 0 /\ n = "tool_calls"
  PROVE  FitsReason(read + 1, n)
<1>1. read \in Nat /\ read + 1 \in 1 .. Len(said) BY NextSaid
<1>2. ASSUME NEW j \in 1 .. read, GivesReason(j) PROVE n = said[j].n
  <2>1. j \in 1 .. Len(said) /\ j < read + 1 BY <1>1
  <2>2. adapter # "codex" BY <1>1, <1>2, <2>1, EarlierReason DEF GivesReason
  <2> QED BY <1>2, <2>2 DEF FitsReason
<1>3. \A j \in 1 .. read + 1 : j \in 1 .. read \/ j = read + 1 BY <1>1
<1> QED BY <1>2, <1>3 DEF FitsReason

(* The reason that goes with an end fits, whichever the adapter.             *)
LEMMA EndFits ==
  ASSUME UpInv, AdapterInv, Taken = read, read < Len(said), NEW e, e = said[read + 1]
  PROVE  /\ e.kind \in {"reason", "stop"}
              /\ (e.kind = "stop" => Blockwise(adapter)) => FitsReason(read + 1, ReasonOf(e))
         /\ \A n : FitsReason(read, n) /\ adapter # "anthropic" =>
              FitsReason(read + 1, ReasonTaken(e, n))
<1>1. read \in Nat /\ read + 1 \in 1 .. Len(said) /\ EventOK(adapter, said, read + 1)
  BY NextSaid
<1>2. GivesReason(read + 1) /\ e.kind = "stop" => adapter = "codex"
  BY <1>1 DEF EventOK, EndOK, GivesReason
<1>3. ASSUME adapter = "codex", e.kind = "stop"
      PROVE  ad.calls > 0 => CallsSaid(read + 1) > 0
  <2>1. ad.calls = CallsSaid(read) BY <1>3 DEF AdapterInv, Blockwise
  <2>2. CallsSaid(read + 1) = CallsSaid(read) BY <1>3, SameSaid DEF Pieces
  <2> QED BY <2>1, <2>2
<1>4. ASSUME NEW j \in 1 .. read, GivesReason(j)
      PROVE  /\ said[j].kind = "reason" /\ adapter # "codex"
             /\ e.kind \in {"stop", "error"}
  <2>1. j \in 1 .. Len(said) /\ j < read + 1 BY <1>1
  <2> QED BY <1>1, <1>4, <2>1, EarlierReason DEF GivesReason
<1>5. \A j \in 1 .. read + 1 : j \in 1 .. read \/ j = read + 1 BY <1>1
<1>6. ASSUME e.kind \in {"reason", "stop"}, e.kind = "stop" => Blockwise(adapter)
      PROVE  FitsReason(read + 1, ReasonOf(e))
  <2>1. ASSUME NEW j \in 1 .. read, GivesReason(j) PROVE ReasonOf(e) = said[j].n
    <3>1. /\ said[j].kind = "reason" /\ adapter # "codex" /\ e.kind = "stop"
      BY <1>4, <1>6, <2>1
    <3>2. adapter = "anthropic" BY <1>6, <3>1 DEF Blockwise
    <3>3. ad.reason = said[j].n BY <3>1, <3>2 DEF AdapterInv
    <3> QED BY <3>1, <3>2, <3>3 DEF ReasonOf
  <2>2. ASSUME GivesReason(read + 1)
        PROVE  \/ ReasonOf(e) = e.n
               \/ adapter = "codex" /\ CallsSaid(read + 1) > 0 /\ ReasonOf(e) = "tool_calls"
    <3>1. CASE e.kind = "reason" BY <3>1 DEF ReasonOf
    <3>2. CASE e.kind = "stop"
      <4>1. adapter = "codex" BY <1>2, <2>2, <3>2
      <4> QED BY <1>3, <3>2, <4>1 DEF ReasonOf
    <3> QED BY <1>6, <3>1, <3>2
  <2> QED BY <1>5, <2>1, <2>2 DEF FitsReason
<1>7. ASSUME NEW n, FitsReason(read, n), adapter # "anthropic"
      PROVE  FitsReason(read + 1, ReasonTaken(e, n))
  <2>1. ASSUME NEW j \in 1 .. read, GivesReason(j) PROVE ReasonTaken(e, n) = said[j].n
    <3>1. adapter # "codex" /\ e.kind \in {"stop", "error"} BY <1>4, <2>1
    <3>2. n = said[j].n BY <1>7, <2>1, <3>1 DEF FitsReason
    <3> QED BY <3>1, <3>2 DEF ReasonTaken
  <2>2. ASSUME GivesReason(read + 1)
        PROVE  \/ ReasonTaken(e, n) = e.n
               \/ adapter = "codex" /\ CallsSaid(read + 1) > 0 /\ ReasonTaken(e, n) = "tool_calls"
    <3>1. CASE e.kind = "reason" BY <3>1 DEF ReasonTaken
    <3>2. CASE e.kind = "stop"
      <4>1. adapter = "codex" BY <1>2, <2>2, <3>2
      <4> QED BY <1>3, <3>2, <4>1 DEF ReasonTaken
    <3> QED BY <2>2, <3>1, <3>2 DEF GivesReason
  <2> QED BY <1>5, <2>1, <2>2 DEF FitsReason
<1> QED BY <1>6, <1>7

LEMMA EndedFinal ==
  ASSUME NEW o \in Seq(Frames)
  PROVE  /\ WellEnded(o) => Final(o)
         /\ \A t, calls : Blocks(o, t, calls) => NoFinish(o)
<1>1. DOMAIN o = 1 .. Len(o) /\ Len(o) \in Nat OBVIOUS
<1>2. ASSUME WellEnded(o) PROVE Final(o)
  <2>1. Positions(o, "finish") = {Len(o) - 1} /\ Positions(o, "stop") = {Len(o)}
    BY <1>2 DEF WellEnded
  <2>2. o[Len(o)].kind = "stop" BY <2>1 DEF Positions
  <2>3. ASSUME NEW i \in Positions(o, "finish"), NEW j \in DOMAIN o, i < j
        PROVE  o[j].kind \in {"done", "error", "stop"}
    <3>1. i = Len(o) - 1 BY <2>1
    <3>2. j = Len(o) BY <1>1, <2>3, <3>1
    <3> QED BY <2>2, <3>2
  <2> QED BY <2>3 DEF Final
<1> QED BY <1>2 DEF Blocks, NoFinish

LEMMA UpstreamKeepsEnd == ASSUME RelayInv, EndInv, Upstream PROVE EndInv'
<1>0. UpInv /\ AtInv BY DEF RelayInv
<1>1. UNCHANGED <<adapter, route, read, ad, tr, at, out>> /\ line = "up" BY UpstreamLeaves
<1>2. SaidMore BY <1>0, UpstreamKeeps
<1>3. Taken \in 0 .. Len(said) /\ Taken' = Taken BY <1>0, LostSame, TakenRange
<1>4. PICK k : k = Taken OBVIOUS
<1>5. k \in Nat /\ k \in 0 .. Len(said) /\ Taken' = k
  <2>1. Len(said) \in Nat BY <1>0 DEF UpInv, UpTypes
  <2> QED BY <1>3, <1>4, <2>1
<1>6. CallsSaid(Taken)' = CallsSaid(k) /\ \A j \in 1 .. k : said'[j] = said[j]
  <2>1. CallsSaid(Taken)' = Count(Positions(said', "call"), Taken') BY DEF CallsSaid, Positions
  <2>2. CallsSaid(k)' = Count(Positions(said', "call"), k) BY DEF CallsSaid, Positions
  <2> QED BY <1>0, <1>2, <1>5, <2>1, <2>2, SaidSame
<1>7. /\ Final(out)
      /\ ~NoFinish(out) =>
           ~tr.fails /\ (EndedBy(k) \/ (route = "messages" /\ FailedBy(k)))
      /\ route # "messages" /\ at = "open" /\ ~NoFinish(out) => adapter # "anthropic"
      /\ \A i \in Positions(out, "finish") : FitsReason(k, out[i].n)
      /\ route = "messages" => FitsReason(k, tr.reason)
  BY <1>1, <1>4 DEF EndInv
<1> QED BY <1>1, <1>5, <1>6, <1>7, EndPrimed

LEMMA ReadKeepsEnd == ASSUME RelayInv, EndInv, ReadEvent PROVE EndInv'
<1>0. UpInv /\ AtInv /\ AdapterInv BY DEF RelayInv
<1>1. /\ read < Len(said) /\ Taken = read /\ read \in Nat /\ at = "open" /\ read' = read + 1
      /\ read + 1 \in 1 .. Len(said)
      /\ UNCHANGED <<adapter, route, said, line>>
      /\ Taken' = IF Dropped \/ tr'.fails THEN read ELSE read + 1
      /\ Relay(NextAdapted.chunks, Returns(said[read + 1]))
  BY <1>0, ReadsNext
<1>2. PICK k, e : k = Taken' /\ e = said[read + 1] OBVIOUS
<1>3. k \in Nat /\ (k = read \/ k = read + 1) /\ k = IF Dropped \/ tr'.fails THEN read ELSE read + 1
  BY <1>1, <1>2
<1>4. CallsSaid(Taken)' = CallsSaid(k) /\ \A i \in 1 .. k : said'[i] = said[i]
  BY <1>1, <1>2, SaidPrimed
<1>5. RelayInv' BY ReadKeepsRelay
<1>6. out \in Seq(Frames) /\ out' \in Seq(Frames)
  <2>1. ToldSoFar(out, Taken) /\ ToldSoFar(out, Taken)' BY <1>5 DEF RelayInv
  <2> QED BY <2>1 DEF ToldSoFar, Tells, Frames, FrameKinds, Number
<1>7. EndedBy(read) => EndedBy(k)
  <2>1. \A i \in 1 .. read : i \in 1 .. k BY <1>1, <1>3
  <2> QED BY <2>1 DEF EndedBy
<1>8. CASE route # "messages"
  <2>1. tr' = NewTranslator /\ ~tr'.fails
    <3>1. tr = NewTranslator /\ IndexedByCall(out) /\ ToldSoFar(out, read)
      BY <1>1, <1>8 DEF RelayInv, PlainInv
    <3> QED BY <1>0, <1>8, <3>1, PlainReads, NewReads
  <2>2. ~NoFinish(out) => adapter # "anthropic" /\ EndedBy(read)
    BY <1>1, <1>8 DEF EndInv
  <2>3. ~NoFinish(out) =>
          /\ adapter # "anthropic"
          /\ \E i \in 1 .. read : said[i].kind \in {"reason", "stop"}
    BY <2>2 DEF EndedBy
  <2>4. /\ Final(out')
        /\ \/ /\ Positions(out', "finish") = Positions(out, "finish")
              /\ \A i \in Positions(out, "finish") : out'[i] = out[i]
           \/ /\ NoFinish(out) /\ ~Dropped /\ e.kind \in {"reason", "stop"}
              /\ e.kind = "reason" => adapter # "anthropic"
              /\ e.kind = "stop" => Blockwise(adapter)
              /\ \A i \in Positions(out', "finish") : out'[i].n = ReasonOf(e)
    <3>1. Final(out) BY DEF EndInv
    <3> QED BY <1>0, <1>2, <1>6, <1>8, <2>3, <3>1, PlainReadsEnd
  <2>5. CASE /\ Positions(out', "finish") = Positions(out, "finish")
             /\ \A i \in Positions(out, "finish") : out'[i] = out[i]
    <3>1. NoFinish(out') <=> NoFinish(out) BY <1>6, <2>5 DEF NoFinish
    <3>2. ASSUME NEW i \in Positions(out', "finish") PROVE FitsReason(k, out'[i].n)
      <4>1. i \in Positions(out, "finish") /\ out'[i] = out[i] BY <2>5, <3>2
      <4>2. FitsReason(read, out'[i].n) BY <1>1, <4>1 DEF EndInv
      <4>3. ~NoFinish(out) BY <4>1 DEF NoFinish
      <4>4. PICK j \in 1 .. read : said[j].kind \in {"reason", "stop"} BY <2>3, <4>3
      <4>5. j \in 1 .. Len(said) /\ j < read + 1 BY <1>1
      <4>6. ~GivesReason(read + 1) BY <1>0, <1>1, <4>4, <4>5, EarlierReason
      <4>7. FitsReason(read + 1, out'[i].n) BY <1>0, <1>1, <4>2, <4>6, FitsNext
      <4> QED BY <1>3, <4>2, <4>7
    <3>3. ~NoFinish(out') => adapter # "anthropic" /\ EndedBy(k) BY <1>7, <2>2, <3>1
    <3> QED BY <1>1, <1>2, <1>3, <1>4, <1>8, <2>1, <2>4, <3>2, <3>3, EndPrimed
  <2>6. CASE /\ NoFinish(out) /\ ~Dropped /\ e.kind \in {"reason", "stop"}
             /\ e.kind = "reason" => adapter # "anthropic"
             /\ e.kind = "stop" => Blockwise(adapter)
             /\ \A i \in Positions(out', "finish") : out'[i].n = ReasonOf(e)
    <3>1. k = read + 1 BY <1>3, <2>1, <2>6
    <3>2. EndedBy(k)
      <4>1. read + 1 \in 1 .. k BY <1>1, <3>1
      <4> QED BY <1>2, <2>6, <4>1 DEF EndedBy
    <3>3. adapter = "anthropic" => at' # "open"
      <4>1. adapter = "anthropic" => Returns(said[read + 1]) BY <1>2, <2>6 DEF Returns
      <4> QED BY <1>1, <1>8, <4>1 DEF Relay, Write
    <3>4. FitsReason(k, ReasonOf(e)) BY <1>0, <1>1, <1>2, <2>6, <3>1, EndFits
    <3>5. \A i \in Positions(out', "finish") : FitsReason(k, out'[i].n) BY <2>6, <3>4
    <3> QED BY <1>1, <1>2, <1>3, <1>4, <1>8, <2>1, <2>4, <3>2, <3>3, <3>5, EndPrimed
  <2> QED BY <2>4, <2>5, <2>6
<1>9. CASE route = "messages"
  <2>1. /\ ToldSoFar(out, read) /\ TranslatorOK(tr, CallsSaid(read))
        /\ Blocks(out, tr, CallsSaid(read))
    BY <1>1, <1>9 DEF RelayInv, MessagesInv
  <2>2. /\ tr'.fails <=> at' = "aborted"
        /\ tr'.fails => adapter = "openai" /\ e.kind = "call"
        /\ at' = "ended" <=> ~Dropped /\ e.kind \in {"stop", "error"}
        /\ tr'.reason = IF Dropped THEN tr.reason ELSE ReasonTaken(e, tr.reason)
        /\ IF at' = "ended"
           THEN WellEnded(out') /\ \A i \in Positions(out', "finish") : out'[i].n = tr'.reason
           ELSE Blocks(out', tr', CallsSaid(Taken'))
    BY <1>0, <1>2, <1>9, <2>1, MessagesReads
  <2>3. Final(out') /\ (~NoFinish(out') => at' = "ended")
    <3>1. CASE at' = "ended" BY <1>6, <2>2, <3>1, EndedFinal
    <3>2. CASE at' # "ended"
      <4>1. NoFinish(out') BY <1>6, <2>2, <3>2, EndedFinal
      <4> QED BY <4>1, NoFinishFinal
    <3> QED BY <3>1, <3>2
  <2>4. FitsReason(k, tr'.reason)
    <3>0. FitsReason(read, tr.reason) BY <1>1, <1>9 DEF EndInv
    <3>1. CASE Dropped \/ tr'.fails
      <4>1. tr'.reason = tr.reason BY <2>2, <3>1 DEF ReasonTaken
      <4> QED BY <1>3, <3>0, <3>1, <4>1
    <3>2. CASE ~Dropped /\ ~tr'.fails
      <4>1. adapter # "anthropic" BY <1>0, <1>9 DEF UpInv, UpTypes, Pairs
      <4>2. tr'.reason = ReasonTaken(e, tr.reason) BY <2>2, <3>2
      <4> QED BY <1>0, <1>1, <1>2, <1>3, <3>0, <3>2, <4>1, <4>2, EndFits
    <3> QED BY <3>1, <3>2
  <2>5. ~NoFinish(out') => ~tr'.fails /\ (EndedBy(k) \/ FailedBy(k))
    <3> SUFFICES ASSUME ~NoFinish(out') PROVE ~tr'.fails /\ (EndedBy(k) \/ FailedBy(k))
      OBVIOUS
    <3>1. at' = "ended" /\ ~Dropped /\ e.kind \in {"stop", "error"} /\ ~tr'.fails BY <2>2, <2>3
    <3>2. k = read + 1 /\ read + 1 \in 1 .. k BY <1>1, <1>3, <3>1
    <3> QED BY <1>2, <3>1, <3>2 DEF EndedBy, FailedBy
  <2>6. \A i \in Positions(out', "finish") : FitsReason(k, out'[i].n)
    <3>1. CASE at' = "ended" BY <2>2, <2>4, <3>1
    <3>2. CASE at' # "ended" BY <2>3, <3>2 DEF NoFinish
    <3> QED BY <3>1, <3>2
  <2> QED BY <1>1, <1>2, <1>3, <1>4, <1>9, <2>3, <2>4, <2>5, <2>6, EndPrimed
<1> QED BY <1>8, <1>9

(* Steps that read nothing and leave what was taken.                        *)
LEMMA StopKeepsEnd ==
  ASSUME RelayInv, EndInv, UNCHANGED <<adapter, route, said, line, cut, read, tr>>,
         at' # "open", Final(out'),
         \/ /\ Positions(out', "finish") = Positions(out, "finish") /\ out' \in Seq(Frames)
            /\ \A i \in Positions(out, "finish") : out'[i] = out[i]
         \/ /\ ~tr.fails /\ line = "closed" /\ read = Len(said)
            /\ adapter = "anthropic" \/ route = "messages"
            /\ \A i \in Positions(out', "finish") : FitsReason(Taken, out'[i].n)
  PROVE  EndInv'
<1>0. UpInv /\ AtInv /\ out \in Seq(Frames) BY DEF RelayInv, ToldSoFar, Tells
<1>1. PICK k : k = Taken OBVIOUS
<1>2. k \in Nat /\ Taken' = k
  <2>1. Taken \in 0 .. Len(said) BY <1>0, TakenRange
  <2> QED BY <1>1, <2>1 DEF Taken, Lost
<1>3. CallsSaid(Taken)' = CallsSaid(k) /\ \A i \in 1 .. k : said'[i] = said[i]
  BY <1>2, SaidPrimed
<1>4. route = "messages" => FitsReason(k, tr.reason) BY <1>1 DEF EndInv
<1>5. CASE /\ Positions(out', "finish") = Positions(out, "finish") /\ out' \in Seq(Frames)
           /\ \A i \in Positions(out, "finish") : out'[i] = out[i]
  <2>1. NoFinish(out') <=> NoFinish(out) BY <1>0, <1>5 DEF NoFinish
  <2>2. \A i \in Positions(out', "finish") : FitsReason(k, out'[i].n) BY <1>1, <1>5 DEF EndInv
  <2>3. ~NoFinish(out) =>
          /\ ~tr.fails
          /\ \/ EndedBy(k)
             \/ route = "messages" /\ FailedBy(k)
             \/ /\ line = "closed" /\ read = Len(said)
                /\ adapter = "anthropic" \/ route = "messages"
    BY <1>1 DEF EndInv
  <2> QED BY <1>2, <1>3, <1>4, <2>1, <2>2, <2>3, EndPrimed
<1>6. CASE /\ ~tr.fails /\ line = "closed" /\ read = Len(said)
           /\ adapter = "anthropic" \/ route = "messages"
           /\ \A i \in Positions(out', "finish") : FitsReason(Taken, out'[i].n)
  BY <1>1, <1>2, <1>3, <1>4, <1>6, EndPrimed
<1> QED BY <1>5, <1>6

LEMMA EofKeepsEnd == ASSUME RelayInv, EndInv, SeeEof PROVE EndInv'
<1>0. UpInv /\ AtInv /\ AdapterInv /\ ToldSoFar(out, Taken) /\ out \in Seq(Frames)
  BY DEF RelayInv, ToldSoFar, Tells
<1>1. /\ at = "open" /\ line = "closed" /\ read = Len(said) /\ Relay(AtEof, TRUE)
      /\ UNCHANGED <<adapter, route, said, line, cut, read>>
  BY DEF SeeEof, upVars
<1>2. /\ ToldSoFar(out', Taken) /\ at' = "ended" /\ tr' = tr
      /\ route = "messages" =>
           WellEnded(out') /\ \A i \in Positions(out', "finish") : out'[i].n = tr'.reason
  BY EofRelays
<1>3. out' \in Seq(Frames) BY <1>2 DEF ToldSoFar, Tells
<1>4. ~tr.fails BY <1>0, <1>1 DEF AtInv
<1>5. CASE route = "messages"
  <2>1. Final(out') BY <1>2, <1>3, <1>5, EndedFinal
  <2>2. \A i \in Positions(out', "finish") : FitsReason(Taken, out'[i].n)
    <3>1. FitsReason(Taken, tr.reason) BY <1>5 DEF EndInv
    <3> QED BY <1>2, <1>5, <3>1
  <2> QED BY <1>1, <1>2, <1>4, <1>5, <2>1, <2>2, StopKeepsEnd
<1>6. CASE route # "messages" /\ adapter # "anthropic"
  <2>1. PICK chunks, q : chunks = AtEof /\ q = out \o chunks OBVIOUS
  <2>2. chunks = <<>> BY <1>6, <2>1, Zenon DEF AtEof
  <2>3. q = out BY <1>0, <2>1, <2>2, ConcatEmptySeq
  <2>4. Final(q) BY <2>3 DEF EndInv
  <2>5. /\ Final(out') /\ Positions(out', "finish") = Positions(q, "finish")
        /\ \A i \in Positions(q, "finish") : out'[i] = q[i]
    BY <1>0, <1>1, <1>6, <2>1, <2>3, <2>4, PlainTail
  <2> QED BY <1>1, <1>2, <1>3, <2>3, <2>5, StopKeepsEnd
<1>7. CASE route # "messages" /\ adapter = "anthropic"
  <2>1. PICK chunks, q, f : chunks = AtEof /\ q = out \o chunks /\ f = Finish(ad.reason) OBVIOUS
  <2>2. chunks = IfNoRole \o <<f, Done>> BY <1>7, <2>1, Zenon DEF AtEof
  <2>3. FinishedBy(q, out, IfNoRole, f) BY <2>1, <2>2 DEF FinishedBy
  <2>4. f \in Frames /\ f.kind = "finish" /\ f.n = ad.reason
    <3>1. ad.reason \in Ends BY <1>0 DEF AdapterInv
    <3> QED BY <2>1, <3>1, ControlFrames, BareFrames
  <2>5. NoFinish(out) /\ NoFinish(IfNoRole) BY <1>1, <1>7, NoFinishFew DEF EndInv
  <2>6. q \in Seq(Frames) /\ Final(q) /\ \A i \in Positions(q, "finish") : q[i] = f
    BY <2>3, <2>4, <2>5, FinishAdded
  <2>7. /\ Final(out') /\ Positions(out', "finish") = Positions(q, "finish")
        /\ \A i \in Positions(q, "finish") : out'[i] = q[i]
    BY <1>1, <1>7, <2>1, <2>6, PlainTail
  <2>8. FitsReason(Taken, ad.reason)
    <3> SUFFICES ASSUME NEW j \in 1 .. Taken, GivesReason(j) PROVE ad.reason = said[j].n
      BY DEF FitsReason
    <3>1. Taken \in 0 .. Len(said) /\ Len(said) \in Nat BY <1>0, TakenRange DEF UpInv, UpTypes
    <3>2. j \in DOMAIN said BY <1>0, <3>1 DEF UpInv, UpTypes
    <3>3. EndOK(adapter, said, j) BY <1>0, <3>2 DEF UpInv, SaidOK, EventOK
    <3>4. said[j].kind = "reason" BY <1>7, <3>3 DEF EndOK, GivesReason
    <3> QED BY <1>0, <1>7, <3>4 DEF AdapterInv
  <2>9. \A i \in Positions(out', "finish") : FitsReason(Taken, out'[i].n)
    BY <2>4, <2>6, <2>7, <2>8
  <2> QED BY <1>1, <1>2, <1>4, <1>7, <2>7, <2>9, StopKeepsEnd
<1> QED BY <1>5, <1>6, <1>7

LEMMA ServeKeepsEnd == ASSUME RelayInv, EndInv, Serve \/ ClientLeaves PROVE EndInv'
<1>0. out \in Seq(Frames) /\ Final(out) BY DEF RelayInv, EndInv, ToldSoFar, Tells
<1>1. CASE ReadEvent BY <1>1, ReadKeepsEnd
<1>2. CASE SeeEof BY <1>2, EofKeepsEnd
<1>3. CASE SeeBreak
  <2>1. /\ UNCHANGED <<adapter, route, said, line, cut, read, tr>> /\ at' # "open"
        /\ out' = out \/ out' = out \o <<Error, Done>>
    BY <1>3 DEF SeeBreak, upVars
  <2>2. /\ out' \in Seq(Frames) /\ Final(out')
        /\ Positions(out', "finish") = Positions(out, "finish")
        /\ \A i \in Positions(out, "finish") : out'[i] = out[i]
    BY <1>0, <2>1, FinalConcat, Trails, ZenonT(30)
  <2> QED BY <2>1, <2>2, StopKeepsEnd
<1>4. CASE ClientLeaves
  <2>1. UNCHANGED <<adapter, route, said, line, cut, read, tr, out>> /\ at' # "open"
    BY <1>4 DEF ClientLeaves, upVars
  <2> QED BY <1>0, <2>1, StopKeepsEnd
<1> QED BY <1>1, <1>2, <1>3, <1>4 DEF Serve

LEMMA InitEnd == ASSUME Init PROVE EndInv
<1>0. RelayInv BY InitRelay
<1>1. /\ said = <<>> /\ read = 0 /\ cut = FALSE /\ tr = NewTranslator
      /\ out = IF route = "messages" THEN <<Frame("start", None, None, None)>> ELSE <<>>
  BY DEF Init
<1>2. NoFinish(out)
  <2>1. CASE route = "messages"
    <3>1. PICK f : f = Frame("start", None, None, None) OBVIOUS
    <3>2. f \in Frames /\ f.kind # "finish"
      <4>1. None \in Number /\ "start" \in FrameKinds BY DEF Number, FrameKinds
      <4> QED BY <3>1, <4>1, FrameFields
    <3> QED BY <1>1, <2>1, <3>1, <3>2, NoFinishFew
  <2>2. CASE route # "messages" BY <1>1, <2>2, NoFinishFew
  <2> QED BY <2>1, <2>2
<1>3. Taken = 0 BY <1>1, NewReads DEF Taken, Lost
<1>4. \A n : FitsReason(Taken, n) BY <1>3 DEF FitsReason
<1>5. Final(out) /\ Positions(out, "finish") = {} BY <1>2, NoFinishFinal DEF NoFinish
<1> QED BY <1>2, <1>4, <1>5 DEF EndInv

(* An end is written only once upstream ended or failed or hung up, with a  *)
(* reason that fits the events taken, and nothing is written after it.      *)
LEMMA EndInvariant == Spec => []EndInv
<1>1. RelayInv /\ EndInv /\ UNCHANGED vars => EndInv'
  <2> SUFFICES ASSUME RelayInv, EndInv, UNCHANGED vars PROVE EndInv' OBVIOUS
  <2>1. UNCHANGED <<adapter, route, up, said, line, cut, read, ad, tr, at, out>> BY DEF vars
  <2>2. Taken' = Taken BY <2>1 DEF Taken, Lost
  <2>3. CallsSaid(Taken)' = CallsSaid(Taken) BY <2>1, <2>2, SaidPrimed
  <2>4. PICK k : k = Taken OBVIOUS
  <2>5. k \in Nat /\ Taken' = k
    <3>1. Taken \in 0 .. Len(said) BY TakenRange DEF RelayInv
    <3> QED BY <2>2, <2>4, <3>1
  <2>6. CallsSaid(Taken)' = CallsSaid(k) /\ \A i \in 1 .. k : said'[i] = said[i]
    BY <2>1, <2>3, <2>4
  <2>7. /\ Final(out')
        /\ ~NoFinish(out') =>
             /\ ~tr'.fails
             /\ \/ EndedBy(k)
                \/ route = "messages" /\ FailedBy(k)
                \/ /\ line' = "closed" /\ read' = Len(said')
                   /\ adapter = "anthropic" \/ route = "messages"
        /\ route # "messages" /\ at' = "open" /\ ~NoFinish(out') => adapter # "anthropic"
        /\ \A i \in Positions(out', "finish") : FitsReason(k, out'[i].n)
        /\ route = "messages" => FitsReason(k, tr'.reason)
    BY <2>1, <2>4 DEF EndInv
  <2> QED BY <2>1, <2>5, <2>6, <2>7, EndPrimed
<1>2. RelayInv /\ EndInv /\ Next => EndInv'
  <2> SUFFICES ASSUME RelayInv, EndInv, Next PROVE EndInv' OBVIOUS
  <2>1. Upstream \/ Serve \/ ClientLeaves BY DEF Next
  <2> QED BY <2>1, UpstreamKeepsEnd, ServeKeepsEnd
<1> QED BY <1>1, <1>2, InitEnd, RelayInvariant, PTL DEF Spec

(* Once an end is written, what was said and not taken carries              *)
(* nothing: a reason only where the last frame was cut, a piece only where  *)
(* the message did not end.                                                 *)
LEMMA NothingLeft ==
  ASSUME RelayInv, EndInv, ~NoFinish(out), NEW j \in 1 .. Len(said), j > Taken
  PROVE  /\ GivesReason(j) => cut
         /\ (\E s \in 1 .. Len(said) : said[s].kind = "stop") => said[j].kind \notin Pieces
<1>0. UpInv /\ AtInv BY DEF RelayInv
<1>1. Taken \in 0 .. Len(said) /\ Len(said) \in Nat /\ read \in 0 .. Len(said)
  BY <1>0, TakenRange DEF UpInv, UpTypes
<1>2. CASE EndedBy(Taken)
  <2>1. PICK i \in 1 .. Taken : said[i].kind \in {"reason", "stop"} BY <1>2 DEF EndedBy
  <2>2. i \in 1 .. Len(said) /\ i < j BY <1>1, <2>1
  <2>3. said[j].kind \in {"stop", "error"} /\ ~GivesReason(j) BY <1>0, <2>1, <2>2, EarlierReason
  <2> QED BY <2>3 DEF Pieces
<1>3. CASE FailedBy(Taken)
  <2>1. PICK i \in 1 .. Taken : said[i].kind = "error" BY <1>3 DEF FailedBy
  <2>2. i \in 1 .. Len(said) /\ i < j BY <1>1, <2>1
  <2>3. FALSE BY <1>0, <2>1, <2>2, EndsLast
  <2> QED BY <2>3
<1>4. CASE read = Len(said)
  <2>1. ~tr.fails BY DEF EndInv
  <2>2. Lost /\ Taken = read - 1 BY <1>1, <1>4, <2>1 DEF Taken
  <2>3. j = Len(said) BY <1>1, <1>4, <2>2
  <2>4. ASSUME NEW s \in 1 .. Len(said), said[s].kind = "stop" PROVE s = j
    <3> SUFFICES ASSUME s # j PROVE FALSE OBVIOUS
    <3>1. s < j BY <1>1, <2>3
    <3> QED BY <1>0, <2>4, <3>1, EndsLast
  <2> QED BY <2>2, <2>4 DEF Lost, Pieces
<1> QED BY <1>2, <1>3, <1>4 DEF EndInv

LEMMA CountedAll ==
  ASSUME NEW n \in Nat, NEW i \in 0 .. n, NEW S \in SUBSET (1 .. n), \A j \in S : ~(j > i)
  PROVE  Count(S, i) = Cardinality(S)
<1>1. ASSUME NEW j \in S PROVE j \in 1 .. i
  <2>1. j \in 1 .. n /\ ~(j > i) OBVIOUS
  <2> QED BY <2>1
<1>2. S \cap (1 .. i) = S BY <1>1
<1> QED BY <1>2 DEF Count

(* An end is written after everything, and nothing follows it.  If upstream *)
(* ended its message, every piece of it and the reason were written; an end *)
(* that is made up is made up only after upstream hung up or reported an    *)
(* error, never because the connection broke; and on another route than     *)
(* /v1/universal a reader of events is given all of that.                   *)
THEOREM EndsAreComplete == Spec => []EndIsComplete
<1>1. RelayInv /\ EndInv /\ GivenInv => EndIsComplete
  <2> SUFFICES ASSUME RelayInv, EndInv, GivenInv PROVE EndIsComplete OBVIOUS
  <2>1. UpInv /\ AtInv /\ out \in Seq(Frames) BY DEF RelayInv, ToldSoFar, Tells
  <2>2. Taken \in 0 .. Len(said) /\ Len(said) \in Nat /\ DOMAIN said = 1 .. Len(said)
    BY <2>1, TakenRange DEF UpInv, UpTypes
  <2>3. Written("finish") <=> ~NoFinish(out) BY <2>1 DEF Written, NoFinish
  <2>4. FinishIsFinal BY DEF EndInv, Final, FinishIsFinal
  <2>5. ReasonIsWritten
    <3> SUFFICES ASSUME NEW f \in Positions(out, "finish"), NEW i \in DOMAIN said,
                        said[i].kind \in {"reason", "stop"}, said[i].n # None
                 PROVE  \/ out[f].n = said[i].n
                        \/ adapter = "codex" /\ up.calls > 0 /\ out[f].n = "tool_calls"
                        \/ cut
      BY DEF ReasonIsWritten
    <3>1. GivesReason(i) /\ i \in 1 .. Len(said) BY <2>2 DEF GivesReason
    <3>2. CASE i > Taken
      <4>1. ~NoFinish(out) BY DEF NoFinish
      <4> QED BY <3>1, <3>2, <4>1, NothingLeft
    <3>3. CASE ~(i > Taken)
      <4>1. i \in 1 .. Taken BY <2>2, <3>1, <3>3
      <4>2. FitsReason(Taken, out[f].n) BY DEF EndInv
      <4>3. \/ out[f].n = said[i].n
            \/ adapter = "codex" /\ CallsSaid(Taken) > 0 /\ out[f].n = "tool_calls"
        BY <3>1, <4>1, <4>2 DEF FitsReason
      <4>4. CallsSaid(Taken) <= up.calls /\ CallsSaid(Taken) \in Nat /\ up.calls \in Nat
        <5>1. up.calls \in 0 .. MaxCalls BY <2>1 DEF UpInv, UpTypes
        <5> QED BY <2>1, <2>2, <5>1, SaidBounded
      <4>5. CallsSaid(Taken) > 0 => up.calls > 0 BY <4>4
      <4> QED BY <4>3, <4>5
    <3> QED BY <3>2, <3>3
  <2>6. ASSUME ~NoFinish(out), Said("stop")
        PROVE  /\ Cardinality(Positions(out, "text")) = up.texts
               /\ {out[i].call : i \in Opened} = 1 .. up.calls
               /\ \A i \in Opened : Cardinality(ArgsAt(out[i].index)) = up.args[out[i].call]
    <3>1. \E s \in 1 .. Len(said) : said[s].kind = "stop" BY <2>2, <2>6 DEF Said, Positions
    <3>2. \A j \in 1 .. Len(said) : j > Taken => said[j].kind \notin Pieces
      BY <2>6, <3>1, NothingLeft
    <3>3. ASSUME NEW kind \in Pieces, NEW S \in SUBSET Positions(said, kind)
          PROVE  Count(S, Taken) = Cardinality(S)
      <4>1. S \in SUBSET (1 .. Len(said)) BY <2>2 DEF Positions
      <4>2. \A j \in S : ~(j > Taken) BY <3>2, <4>1 DEF Positions
      <4> QED BY <2>2, <4>1, <4>2, CountedAll
    <3>4. TextsSaid(Taken) = up.texts /\ CallsSaid(Taken) = up.calls
      BY <2>1, <3>3 DEF TextsSaid, CallsSaid, UpInv, UpCounts, Pieces
    <3>5. \A x \in 1 .. MaxCalls : ArgsSaid(Taken)[x] = up.args[x]
      <4> TAKE x \in 1 .. MaxCalls
      <4>1. ArgsOf(said, x) \in SUBSET Positions(said, "args") BY DEF ArgsOf
      <4>2. Count(ArgsOf(said, x), Taken) = Cardinality(ArgsOf(said, x))
        BY <3>3, <4>1 DEF Pieces
      <4> QED BY <2>1, <4>2 DEF ArgsSaid, UpInv, UpCounts
    <3>6. PICK args : /\ args = ArgsSaid(Taken) /\ Tells(out, up.texts, up.calls, args)
      BY <3>4 DEF RelayInv, ToldSoFar
    <3>7. Opened = OpenedIn(out) BY DEF Opened, OpenedIn
    <3>8. ASSUME NEW i \in Opened PROVE Cardinality(ArgsAt(out[i].index)) = up.args[out[i].call]
      <4>1. out[i].call \in 1 .. MaxCalls
        <5>1. out[i].call \in 1 .. up.calls BY <3>6, <3>7 DEF Tells
        <5>2. up.calls \in 0 .. MaxCalls BY <2>1 DEF UpInv, UpTypes
        <5> QED BY <5>1, <5>2
      <4>2. ArgsAt(out[i].index) = ArgsOf(out, out[i].call) BY <3>6, <3>7, SameArgs
      <4> QED BY <3>5, <3>6, <4>1, <4>2 DEF Tells
    <3>9. Cardinality(Positions(out, "text")) = up.texts BY <3>6 DEF Tells
    <3>10. {out[i].call : i \in Opened} = 1 .. up.calls BY <3>6, <3>7 DEF Tells
    <3> QED BY <3>8, <3>9, <3>10
  <2>7. ASSUME ~NoFinish(out)
        PROVE  \/ Said("reason") \/ Said("stop")
               \/ adapter = "anthropic" /\ line = "closed"
               \/ route = "messages" /\ (line = "closed" \/ Said("error"))
    <3>1. \A j \in 1 .. Taken : j \in DOMAIN said BY <2>2
    <3>2. EndedBy(Taken) => Said("reason") \/ Said("stop")
      BY <3>1 DEF EndedBy, Said, Positions
    <3>3. FailedBy(Taken) => Said("error") BY <3>1 DEF FailedBy, Said, Positions
    <3> QED BY <2>7, <3>2, <3>3 DEF EndInv
  <2>8. OnlyEndsWithheld BY DEF GivenInv
  <2> QED BY <2>3, <2>4, <2>5, <2>6, <2>7, <2>8 DEF EndIsComplete
<1> QED BY <1>1, RelayInvariant, EndInvariant, GivenInvariant, PTL

=============================================================================
