--------------------------- MODULE FoldInduction ---------------------------
(***************************************************************************)
(* Induction over a sequence.  The loops of the gateway are modelled with  *)
(* FoldLeft; what such a loop leaves behind is proved by an invariant of   *)
(* its steps.  The step, the invariant and the operator with which          *)
(* FoldLeft finds its last index are constants here, so that a module can  *)
(* instantiate the theorem for each of its loops:                          *)
(*                                                                         *)
(*   Loop == INSTANCE FoldInduction WITH Step <- .., Holds <- .., Last <- Max *)
(*                                                                         *)
(* and cite Loop!FoldInvariant.  What a step needs beside the accumulator  *)
(* and the element is its context.                                         *)
(***************************************************************************)
EXTENDS Integers, Sequences, WellFoundedInduction, TLAPS

CONSTANTS
  Step(_, _, _),  \* context, accumulator, element: the next accumulator
  Holds(_, _, _), \* context, k, accumulator: the invariant once k elements are folded
  Last(_)         \* the greatest number of a set

-----------------------------------------------------------------------------

(* A set of natural numbers has a least element.                            *)
LEMMA LeastNatural ==
  ASSUME NEW T \in SUBSET Nat, T # {}
  PROVE  \E m \in T : \A k \in T : m <= k
<1> DEFINE Below == {pair \in Nat \X Nat : pair[1] < pair[2]}
<1>1. IsWellFoundedOn(Below, Nat)  BY NatLessThanWellFounded DEF OpToRel
<1>2. ASSUME NEW x \in Nat, NEW y \in Nat, ~(<<y, x>> \in Below) PROVE x <= y
  <2>1. ~(y < x) BY <1>2
  <2> QED BY <2>1
<1> HIDE DEF Below
<1>3. \E x \in T : \A y \in T : ~(<<y, x>> \in Below) BY <1>1, WFMin
<1> QED BY <1>2, <1>3

(* Induction, for a set of numbers rather than a predicate of them.         *)
LEMMA SetInduction ==
  ASSUME NEW T \in SUBSET Nat, 0 \in T, \A k \in T : k + 1 \in T
  PROVE  T = Nat
<1> SUFFICES ASSUME Nat \ T # {} PROVE FALSE OBVIOUS
<1>1. PICK m \in Nat \ T : \A k \in Nat \ T : m <= k BY LeastNatural
<1>2. m # 0 /\ m - 1 \in Nat /\ m - 1 \in T BY <1>1
<1> QED BY <1>2

(* What every step keeps, the fold of the whole sequence has.  The CHOOSE   *)
(* is what FoldLeft, and MapThenFoldSet under it, expand to: the recursive  *)
(* function over the sets of indexes is shown to exist first.               *)
THEOREM FoldInvariant ==
  ASSUME NEW context, NEW base, NEW seq, NEW n \in Nat, DOMAIN seq = 1 .. n,
         \A S \in SUBSET Nat : \A m \in S : (\A k \in S : k <= m) => Last(S) = m,
         Holds(context, 0, base),
         \A k \in 1 .. n : \A acc :
            Holds(context, k - 1, acc) => Holds(context, k, Step(context, acc, seq[k]))
  PROVE  Holds(context, n,
               (CHOOSE iter : iter =
                  [s \in SUBSET DOMAIN seq |->
                     IF s = {} THEN base
                     ELSE Step(context, iter[s \ {Last(s)}], seq[Last(s)])])[DOMAIN seq])
<1> DEFINE Eq(g, S) ==
      g = [s \in SUBSET S |->
             IF s = {} THEN base ELSE Step(context, g[s \ {Last(s)}], seq[Last(s)])]
           T == {k \in Nat : \E g : Eq(g, 1 .. k)}
<1>1. 0 \in T
  <2>1. Eq([s \in SUBSET (1 .. 0) |-> base], 1 .. 0)
    <3>1. \A s \in SUBSET (1 .. 0) : s = {} OBVIOUS
    <3> QED BY <3>1
  <2> QED BY <2>1
<1>2. ASSUME NEW k \in T PROVE k + 1 \in T
  <2>1. PICK g : Eq(g, 1 .. k) OBVIOUS
  <2> DEFINE h == [s \in SUBSET (1 .. k + 1) |->
                     IF k + 1 \in s THEN Step(context, g[s \ {k + 1}], seq[k + 1]) ELSE g[s]]
  <2>2. ASSUME NEW s \in SUBSET (1 .. k + 1)
        PROVE  h[s] = IF s = {} THEN base ELSE Step(context, h[s \ {Last(s)}], seq[Last(s)])
    <3>1. CASE k + 1 \in s
      <4>1. Last(s) = k + 1 BY <3>1
      <4>2. s \ {k + 1} \in SUBSET (1 .. k + 1) /\ k + 1 \notin s \ {k + 1} OBVIOUS
      <4>3. h[s \ {k + 1}] = g[s \ {k + 1}] BY <4>2
      <4> QED BY <3>1, <4>1, <4>3
    <3>2. CASE k + 1 \notin s
      <4>1. s \in SUBSET (1 .. k) BY <3>2
      <4>2. h[s] = g[s] BY <3>2
      <4>3. CASE s = {} BY <4>1, <4>2, <4>3, <2>1
      <4>4. CASE s # {}
        <5>1. s \ {Last(s)} \in SUBSET (1 .. k) BY <4>1
        <5>2. h[s \ {Last(s)}] = g[s \ {Last(s)}] BY <5>1
        <5>3. g[s] = Step(context, g[s \ {Last(s)}], seq[Last(s)]) BY <4>1, <4>4, <2>1
        <5> QED BY <4>2, <4>4, <5>2, <5>3
      <4> QED BY <4>3, <4>4
    <3> QED BY <3>1, <3>2
  <2>3. Eq(h, 1 .. k + 1) BY <2>2
  <2>4. k + 1 \in Nat OBVIOUS
  <2> HIDE DEF Eq, h
  <2> QED BY <2>3, <2>4
<1>3. n \in T
  <2> HIDE DEF T
  <2>1. T \in SUBSET Nat BY DEF T
  <2> QED BY <2>1, <1>1, <1>2, SetInduction
<1> DEFINE it == CHOOSE g : Eq(g, 1 .. n)
<1>4. Eq(it, 1 .. n) BY <1>3
<1> HIDE DEF it
<1> DEFINE U == {k \in Nat : k <= n => Holds(context, k, it[1 .. k])}
<1>5. 0 \in U
  <2>1. 1 .. 0 = {} OBVIOUS
  <2>2. it[{}] = base BY <1>4
  <2> QED BY <2>1, <2>2
<1>6. ASSUME NEW k \in U PROVE k + 1 \in U
  <2> SUFFICES ASSUME k + 1 <= n PROVE Holds(context, k + 1, it[1 .. k + 1]) OBVIOUS
  <2>1. Last(1 .. k + 1) = k + 1 OBVIOUS
  <2>2. (1 .. k + 1) \ {k + 1} = 1 .. k OBVIOUS
  <2>3. 1 .. k + 1 \in SUBSET (1 .. n) /\ 1 .. k + 1 # {}
    <3>1. k + 1 \in 1 .. k + 1 OBVIOUS
    <3>2. \A j \in 1 .. k + 1 : j \in 1 .. n OBVIOUS
    <3> QED BY <3>1, <3>2
  <2>4. it[1 .. k + 1] = Step(context, it[1 .. k], seq[k + 1]) BY <1>4, <2>1, <2>2, <2>3
  <2>5. Holds(context, k, it[1 .. k]) OBVIOUS
  <2> QED BY <2>4, <2>5
<1>7. n \in U
  <2> HIDE DEF U
  <2>1. U \in SUBSET Nat BY DEF U
  <2> QED BY <2>1, <1>5, <1>6, SetInduction
<1>8. Holds(context, n, it[1 .. n]) BY <1>7
<1> QED BY <1>8, Zenon DEF it
=============================================================================
