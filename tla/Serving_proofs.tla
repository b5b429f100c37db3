--------------------------- MODULE Serving_proofs ---------------------------
(***************************************************************************)
(* Proofs about the completion routes: first lists and the loops of        *)
(* Resolution, for every configuration and whatever is cached, then the     *)
(* invariants of Serving.                                                   *)
(***************************************************************************)
EXTENDS Serving, SequenceTheorems, TLAPS

-----------------------------------------------------------------------------
(* Lists.                                                                   *)

IsList(s) == \E S : s \in Seq(S)

LEMMA ListElements ==
  ASSUME NEW s, IsList(s)
  PROVE  /\ Len(s) \in Nat /\ DOMAIN s = 1 .. Len(s)
         /\ s \in Seq({s[i] : i \in DOMAIN s})
<1>1. PICK S : s \in Seq(S) BY DEF IsList
<1>2. Len(s) \in Nat /\ DOMAIN s = 1 .. Len(s) /\ s \in [1 .. Len(s) -> S]
  BY <1>1, LenProperties
<1>3. s \in [1 .. Len(s) -> {s[i] : i \in DOMAIN s}] BY <1>2
<1> QED BY <1>2, <1>3

LEMMA EmptyIsList == IsList(<<>>) /\ Len(<<>>) = 0
BY <<>> \in Seq({}) DEF IsList

LEMMA SingletonIsList == ASSUME NEW x PROVE IsList(<<x>>) /\ Len(<<x>>) = 1 /\ <<x>>[1] = x
BY <<x>> \in Seq({x}) DEF IsList

LEMMA FunctionIsList ==
  ASSUME NEW n \in Nat, NEW f, f = [i \in 1 .. n |-> f[i]]
  PROVE  IsList(f) /\ Len(f) = n
<1>1. f \in [1 .. n -> {f[i] : i \in 1 .. n}] OBVIOUS
<1>2. f \in Seq({f[i] : i \in 1 .. n}) BY <1>1
<1>3. Len(f) \in Nat /\ DOMAIN f = 1 .. Len(f) BY <1>2, LenProperties
<1>4. DOMAIN f = 1 .. n OBVIOUS
<1>5. Len(f) = n BY <1>3, <1>4
<1> QED BY <1>2, <1>5 DEF IsList

LEMMA AppendIsList ==
  ASSUME NEW s, IsList(s), NEW x
  PROVE  /\ IsList(Append(s, x)) /\ Len(Append(s, x)) = Len(s) + 1
         /\ \A i \in 1 .. Len(s) : Append(s, x)[i] = s[i]
         /\ Append(s, x)[Len(s) + 1] = x
<1>1. PICK S : s \in Seq(S) BY DEF IsList
<1>2. s \in Seq(S \cup {x}) /\ x \in S \cup {x} BY <1>1, SeqMonotonic
<1>3. Append(s, x) \in Seq(S \cup {x}) BY <1>2
<1> QED BY <1>2, <1>3 DEF IsList

LEMMA ConcatIsList ==
  ASSUME NEW s, NEW t, IsList(s), IsList(t)
  PROVE  /\ IsList(s \o t) /\ Len(s \o t) = Len(s) + Len(t)
         /\ \A i \in 1 .. Len(s) : (s \o t)[i] = s[i]
         /\ \A i \in 1 .. Len(t) : (s \o t)[Len(s) + i] = t[i]
<1>1. PICK S, T : s \in Seq(S) /\ t \in Seq(T) BY DEF IsList
<1>2. s \in Seq(S \cup T) /\ t \in Seq(S \cup T) BY <1>1, SeqMonotonic
<1>3. s \o t \in Seq(S \cup T) /\ Len(s) \in Nat /\ Len(t) \in Nat BY <1>2
<1>4. Len(s \o t) = Len(s) + Len(t) BY <1>2
<1>5. \A i \in 1 .. Len(s) : (s \o t)[i] = s[i] BY <1>2, <1>3
<1>6. \A i \in 1 .. Len(t) : (s \o t)[Len(s) + i] = t[i] BY <1>2, <1>3
<1> QED BY <1>3, <1>4, <1>5, <1>6 DEF IsList

LEMMA RangedIsList ==
  ASSUME NEW s, s \in Seq(Range(s)) PROVE IsList(s)
BY DEF IsList

(* FoldLeft's last index.                                                   *)
LEMMA MaxIsGreatest ==
  ASSUME NEW S \in SUBSET Nat, NEW m \in S, \A k \in S : k <= m PROVE Max(S) = m
<1> DEFINE greatest == CHOOSE x \in S : \A y \in S : x >= y
<1>1. greatest \in S /\ \A y \in S : greatest >= y
  <2>1. \A y \in S : m >= y OBVIOUS
  <2> QED BY <2>1
<1>2. greatest = m
  <2> HIDE DEF greatest
  <2> QED BY <1>1
<1> QED BY <1>2 DEF Max

(* Which elements FirstOfEach keeps, once k were looked at: no key twice,    *)
(* none of the keys missing, in the order they came.                        *)
KeptFirst(keys, k, kept) ==
  /\ IsList(kept) /\ Len(kept) <= k
  /\ \A n \in DOMAIN kept : kept[n] \in 1 .. k
  /\ \A m, n \in DOMAIN kept : m < n => kept[m] < kept[n] /\ keys[kept[m]] # keys[kept[n]]
  /\ \A i \in 1 .. k : \E n \in DOMAIN kept : keys[kept[n]] = keys[i]
  /\ k >= 1 => 1 \in DOMAIN kept /\ kept[1] = 1

Keeping == INSTANCE FoldInduction WITH Step <- KeepFirst, Holds <- KeptFirst, Last <- Max

LEMMA KeepFirstKeeps ==
  ASSUME NEW keys, NEW k \in Nat \ {0}, NEW kept, KeptFirst(keys, k - 1, kept)
  PROVE  KeptFirst(keys, k, KeepFirst(keys, kept, k))
<1>1. Len(kept) \in Nat /\ DOMAIN kept = 1 .. Len(kept) BY ListElements DEF KeptFirst
<1>2. CASE \E n \in DOMAIN kept : keys[kept[n]] = keys[k]
  <2>1. KeepFirst(keys, kept, k) = kept BY <1>2 DEF KeepFirst
  <2>2. \A i \in 1 .. k : i = k \/ i \in 1 .. k - 1 OBVIOUS
  <2>3. \A i \in 1 .. k : \E n \in DOMAIN kept : keys[kept[n]] = keys[i]
    BY <1>2, <2>2 DEF KeptFirst
  <2>4. Len(kept) <= k /\ \A n \in DOMAIN kept : kept[n] \in 1 .. k BY <1>1 DEF KeptFirst
  <2>5. 1 \in DOMAIN kept /\ kept[1] = 1
    <3>1. k - 1 >= 1 BY <1>1, <1>2 DEF KeptFirst
    <3> QED BY <3>1 DEF KeptFirst
  <2> QED BY <2>1, <2>3, <2>4, <2>5 DEF KeptFirst
<1>3. CASE \A n \in DOMAIN kept : keys[kept[n]] # keys[k]
  <2> DEFINE new == Append(kept, k)
  <2>1. KeepFirst(keys, kept, k) = new BY <1>3 DEF KeepFirst
  <2>2. /\ IsList(new) /\ Len(new) = Len(kept) + 1
        /\ \A i \in 1 .. Len(kept) : new[i] = kept[i]
        /\ new[Len(kept) + 1] = k
    BY AppendIsList DEF KeptFirst
  <2>3. DOMAIN new = 1 .. Len(kept) + 1 BY <2>2, ListElements
  <2> HIDE DEF new
  <2>4. ASSUME NEW n \in DOMAIN new
        PROVE  \/ n \in DOMAIN kept /\ new[n] = kept[n]
               \/ n = Len(kept) + 1 /\ new[n] = k
    <3>1. n \in 1 .. Len(kept) \/ n = Len(kept) + 1 BY <1>1, <2>3
    <3> QED BY <1>1, <2>2, <3>1
  <2>5. \A n \in DOMAIN new : new[n] \in 1 .. k BY <2>4 DEF KeptFirst
  <2>6. ASSUME NEW m \in DOMAIN new, NEW n \in DOMAIN new, m < n
        PROVE  new[m] < new[n] /\ keys[new[m]] # keys[new[n]]
    <3>1. m \in DOMAIN kept /\ new[m] = kept[m] BY <1>1, <2>3, <2>4, <2>6
    <3>2. CASE n \in DOMAIN kept
      <4>1. new[n] = kept[n] BY <1>1, <2>2, <3>2
      <4> QED BY <2>6, <3>1, <3>2, <4>1 DEF KeptFirst
    <3>3. CASE n = Len(kept) + 1
      <4>1. new[n] = k /\ new[m] \in 1 .. k - 1 BY <2>2, <3>1, <3>3 DEF KeptFirst
      <4> QED BY <1>3, <3>1, <4>1
    <3> QED BY <2>4, <3>2, <3>3
  <2>7. ASSUME NEW i \in 1 .. k PROVE \E n \in DOMAIN new : keys[new[n]] = keys[i]
    <3>1. CASE i = k BY <1>1, <2>2, <2>3, <3>1
    <3>2. CASE i \in 1 .. k - 1
      <4>1. PICK n \in DOMAIN kept : keys[kept[n]] = keys[i] BY <3>2 DEF KeptFirst
      <4>2. n \in DOMAIN new /\ new[n] = kept[n] BY <1>1, <2>2, <2>3
      <4> QED BY <4>1, <4>2
    <3> QED BY <3>1, <3>2
  <2>8. Len(new) <= k BY <1>1, <2>2 DEF KeptFirst
  <2>9. 1 \in DOMAIN new /\ new[1] = 1
    <3>1. CASE k - 1 >= 1
      <4>1. 1 \in DOMAIN kept /\ kept[1] = 1 BY <3>1 DEF KeptFirst
      <4> QED BY <1>1, <2>2, <2>3, <4>1
    <3>2. CASE k = 1
      <4>1. Len(kept) = 0 BY <1>1, <3>2 DEF KeptFirst
      <4> QED BY <2>2, <2>3, <3>2, <4>1
    <3> QED BY <3>1, <3>2
  <2> QED BY <2>1, <2>2, <2>5, <2>6, <2>7, <2>8, <2>9 DEF KeptFirst
<1> QED BY <1>2, <1>3

LEMMA KeepingFold ==
  ASSUME NEW keys, NEW base, NEW seq, NEW n \in Nat, DOMAIN seq = 1 .. n,
         KeptFirst(keys, 0, base),
         \A k \in 1 .. n : \A acc :
           KeptFirst(keys, k - 1, acc) => KeptFirst(keys, k, KeepFirst(keys, acc, seq[k]))
  PROVE  KeptFirst(keys, n,
           (CHOOSE iter : iter =
              [s \in SUBSET DOMAIN seq |->
                 IF s = {} THEN base
                 ELSE KeepFirst(keys, iter[s \ {Max(s)}], seq[Max(s)])])[DOMAIN seq])
BY MaxIsGreatest, Keeping!FoldInvariant

(* The elements FirstOfEach keeps of a list.                                *)
LEMMA FirstIndexesKept ==
  ASSUME NEW keys, NEW n \in Nat, DOMAIN keys = 1 .. n
  PROVE  KeptFirst(keys, n, FirstIndexes(keys))
<1> DEFINE places == [i \in DOMAIN keys |-> i]
           none   == <<>>
<1>1. DOMAIN places = 1 .. n OBVIOUS
<1>2. KeptFirst(keys, 0, none) BY EmptyIsList DEF KeptFirst
<1>3. \A k \in 1 .. n : \A kept :
        KeptFirst(keys, k - 1, kept) => KeptFirst(keys, k, KeepFirst(keys, kept, places[k]))
  BY KeepFirstKeeps
<1> HIDE DEF places, none
<1>5. KeptFirst(keys, n,
           (CHOOSE iter : iter =
              [s \in SUBSET DOMAIN places |->
                 IF s = {} THEN none
                 ELSE KeepFirst(keys, iter[s \ {Max(s)}], places[Max(s)])])[DOMAIN places])
  BY <1>1, <1>2, <1>3, KeepingFold
<1> QED BY <1>5, Zenon DEF places, none, FirstIndexes, FoldLeftDomain, FoldLeft, MapThenFoldSet

LEMMA FirstPicked ==
  ASSUME NEW s, IsList(s), NEW keys, DOMAIN keys = DOMAIN s, NEW kept,
         kept = FirstIndexes(keys), NEW t, t = [n \in DOMAIN kept |-> s[kept[n]]]
  PROVE  /\ IsList(t) /\ DOMAIN t = DOMAIN kept
         /\ s # <<>> => t # <<>> /\ Len(t) >= 1 /\ t[1] = s[1]
         /\ \A n \in DOMAIN t : kept[n] \in DOMAIN s /\ t[n] = s[kept[n]]
         /\ \A m, n \in DOMAIN t :
              m < n => kept[m] < kept[n] /\ keys[kept[m]] # keys[kept[n]]
<1>1. Len(s) \in Nat /\ DOMAIN s = 1 .. Len(s) /\ s \in Seq({s[i] : i \in DOMAIN s})
  BY ListElements
<1>2. KeptFirst(keys, Len(s), kept) BY <1>1, FirstIndexesKept
<1>3. Len(kept) \in Nat /\ DOMAIN kept = 1 .. Len(kept) BY <1>2, ListElements DEF KeptFirst
<1>4. IsList(t) /\ Len(t) = Len(kept) /\ DOMAIN t = 1 .. Len(t)
  <2>1. t = [n \in 1 .. Len(kept) |-> t[n]] BY <1>3
  <2> QED BY <1>3, <2>1, FunctionIsList
<1>5. ASSUME s # <<>> PROVE t # <<>> /\ Len(t) >= 1 /\ t[1] = s[1]
  <2>1. Len(s) >= 1 BY <1>1, <1>5
  <2>2. 1 \in DOMAIN kept /\ kept[1] = 1 BY <1>1, <1>2, <2>1 DEF KeptFirst
  <2>3. t[1] = s[1] /\ Len(t) >= 1 BY <1>3, <1>4, <2>2
  <2> QED BY <2>3, EmptyIsList
<1> QED BY <1>1, <1>2, <1>3, <1>4, <1>5 DEF KeptFirst

(* The lists of a list of lists, one after the other.                       *)
LEMMA FlattenIsList ==
  ASSUME NEW seqs, IsList(seqs), \A i \in DOMAIN seqs : IsList(seqs[i])
  PROVE  IsList(FlattenSeq(seqs))
<1>1. Len(seqs) \in Nat /\ DOMAIN seqs = 1 .. Len(seqs) BY ListElements
<1> DEFINE Join(a, b) == a \o b
           Eq(g, k) == g = [i \in 1 .. k |-> IF i = 1 THEN seqs[i] ELSE Join(g[i - 1], seqs[i])]
           T == {k \in Nat : \E g : Eq(g, k)}
<1>2. 0 \in T
  <2>1. Eq([i \in 1 .. 0 |-> seqs[i]], 0) OBVIOUS
  <2> QED BY <2>1
<1>3. ASSUME NEW k \in T PROVE k + 1 \in T
  <2> HIDE DEF Join
  <2>1. PICK g : Eq(g, k) OBVIOUS
  <2> DEFINE h == [i \in 1 .. k + 1 |-> IF i = 1 THEN seqs[i] ELSE Join(g[i - 1], seqs[i])]
  <2>2. \A i \in 1 .. k : h[i] = g[i] BY <2>1
  <2>3. \A i \in 1 .. k + 1 : h[i] = IF i = 1 THEN seqs[i] ELSE Join(h[i - 1], seqs[i])
    <3> TAKE i \in 1 .. k + 1
    <3>1. i = 1 \/ i - 1 \in 1 .. k OBVIOUS
    <3> QED BY <2>2, <3>1
  <2>4. Eq(h, k + 1) BY <2>3
  <2>5. k + 1 \in Nat OBVIOUS
  <2> HIDE DEF Eq, h
  <2> QED BY <2>4, <2>5
<1>4. Len(seqs) \in T
  <2> HIDE DEF T
  <2>1. T \in SUBSET Nat BY DEF T
  <2> QED BY <2>1, <1>1, <1>2, <1>3, Keeping!SetInduction
<1> DEFINE flat == CHOOSE g : Eq(g, Len(seqs))
<1>5. Eq(flat, Len(seqs)) BY <1>4
<1> HIDE DEF flat
<1> DEFINE U == {k \in Nat : k \in 1 .. Len(seqs) => IsList(flat[k])}
<1>6. 0 \in U BY <1>1
<1>7. ASSUME NEW k \in U PROVE k + 1 \in U
  <2> SUFFICES ASSUME k + 1 \in 1 .. Len(seqs) PROVE IsList(flat[k + 1]) OBVIOUS
  <2>1. IsList(seqs[k + 1]) BY <1>1
  <2>2. CASE k = 0
    <3>1. flat[1] = seqs[1] BY <1>5, <2>2
    <3> QED BY <2>1, <2>2, <3>1
  <2>3. CASE k # 0
    <3>1. IsList(flat[k]) BY <1>1, <2>3
    <3>2. flat[k + 1] = Join(flat[k], seqs[k + 1])
      <4> HIDE DEF Join
      <4> QED BY <1>1, <1>5, <2>3
    <3> QED BY <2>1, <3>1, <3>2, ConcatIsList
  <2> QED BY <2>2, <2>3
<1>8. Len(seqs) \in U
  <2> HIDE DEF U
  <2>1. U \in SUBSET Nat BY DEF U
  <2> QED BY <2>1, <1>1, <1>6, <1>7, Keeping!SetInduction
<1>9. CASE Len(seqs) = 0 BY <1>9 DEF FlattenSeq
<1>10. CASE Len(seqs) # 0
  <2>1. IsList(flat[Len(seqs)]) BY <1>1, <1>8, <1>10
  <2>2. FlattenSeq(seqs) = flat[Len(seqs)] BY <1>10, Zenon DEF flat, FlattenSeq
  <2> QED BY <2>1, <2>2
<1> QED BY <1>9, <1>10

-----------------------------------------------------------------------------
(* Credentials: a list, in which no key comes twice.                        *)

(* ConcatMap of an operator that makes lists.                               *)
LEMMA MappedIsList ==
  ASSUME NEW s, IsList(s), NEW each, each = [i \in DOMAIN s |-> each[i]],
         \A i \in DOMAIN s : IsList(each[i])
  PROVE  IsList(FlattenSeq(each))
<1>1. Len(s) \in Nat /\ DOMAIN s = 1 .. Len(s) BY ListElements
<1>2. IsList(each) /\ DOMAIN each = DOMAIN s
  <2>1. each = [i \in 1 .. Len(s) |-> each[i]] BY <1>1
  <2> QED BY <1>1, <2>1, FunctionIsList
<1> QED BY <1>2, FlattenIsList

LEMMA ProfileIdsAreList ==
  ASSUME NEW cfg, WellFormed(cfg), NEW provider
  PROVE  IsList(ProfileIdsForProvider(cfg, provider))
<1> DEFINE each(mode) == [i \in DOMAIN cfg.profiles |->
             IF cfg.profiles[i].provider = provider /\ ProfileMode[cfg.profiles[i].kind] = mode
             THEN <<cfg.profiles[i].id>> ELSE <<>>]
<1>1. IsList(cfg.profiles) BY RangedIsList DEF WellFormed
<1>2. ASSUME NEW mode PROVE IsList(FlattenSeq(each(mode)))
  <2>1. \A i \in DOMAIN cfg.profiles : IsList(each(mode)[i]) BY EmptyIsList, SingletonIsList
  <2>2. each(mode) = [i \in DOMAIN cfg.profiles |-> each(mode)[i]] OBVIOUS
  <2> HIDE DEF each
  <2> QED BY <1>1, <2>1, <2>2, MappedIsList
<1>3. IsList(FlattenSeq(each("oauth")) \o FlattenSeq(each("token")) \o FlattenSeq(each("api-key")))
  <2> HIDE DEF each
  <2> QED BY <1>2, ConcatIsList
<1> QED BY <1>3, Zenon DEF ProfileIdsForProvider, ConcatMap

LEMMA CandidatesAreList ==
  ASSUME NEW cfg, WellFormed(cfg), NEW provider, NEW preferred
  PROVE  IsList(ProfileCandidates(cfg, provider, preferred))
<1> DEFINE asked == IF preferred = None THEN <<>>
                    ELSE IF Len(preferred) = 1 THEN <<preferred, <<provider>> \o preferred>>
                    ELSE <<preferred>>
           order == IF provider \in DOMAIN cfg.authOrder THEN cfg.authOrder[provider] ELSE <<>>
           all   == asked \o order \o ProfileIdsForProvider(cfg, provider)
           keys  == [i \in DOMAIN all |-> all[i]]
           kept  == FirstIndexes(keys)
           picked == [n \in DOMAIN kept |-> all[kept[n]]]
<1>1. IsList(asked)
  <2>1. ASSUME NEW x, NEW y PROVE IsList(<<x, y>>)
    <3>1. <<x, y>> \in Seq({x, y}) OBVIOUS
    <3> QED BY <3>1 DEF IsList
  <2> QED BY <2>1, EmptyIsList, SingletonIsList
<1>2. IsList(order) BY EmptyIsList, RangedIsList DEF WellFormed
<1>3. IsList(all)
  <2> HIDE DEF asked, order
  <2> QED BY <1>1, <1>2, ConcatIsList, ProfileIdsAreList
<1>4. IsList(picked)
  <2>1. DOMAIN keys = DOMAIN all OBVIOUS
  <2> HIDE DEF all, keys
  <2> QED BY <1>3, <2>1, FirstPicked
<1> QED BY <1>4, Zenon DEF ProfileCandidates, FirstOfEach

LEMMA ProfileCredentialsAreList ==
  ASSUME NEW cfg, WellFormed(cfg), NEW provider, NEW preferred
  PROVE  IsList(ProfileCredentials(cfg, provider, preferred))
<1> DEFINE credential(p) == [key |-> p.secret, source |-> <<"profile", p.id>>,
                             mode |-> ProfileMode[p.kind]]
           each(id) == [i \in DOMAIN cfg.profiles |->
             IF cfg.profiles[i].id = id /\ cfg.profiles[i].provider = provider
                  /\ ~cfg.profiles[i].stale /\ cfg.profiles[i].secret # None
             THEN <<credential(cfg.profiles[i])>> ELSE <<>>]
           ids == ProfileCandidates(cfg, provider, preferred)
           all == [i \in DOMAIN ids |-> FlattenSeq(each(ids[i]))]
<1>1. IsList(cfg.profiles) BY RangedIsList DEF WellFormed
<1>2. ASSUME NEW id PROVE IsList(FlattenSeq(each(id)))
  <2> HIDE DEF credential
  <2>1. \A i \in DOMAIN cfg.profiles : IsList(each(id)[i]) BY EmptyIsList, SingletonIsList
  <2>2. each(id) = [i \in DOMAIN cfg.profiles |-> each(id)[i]] OBVIOUS
  <2> HIDE DEF each
  <2> QED BY <1>1, <2>1, <2>2, MappedIsList
<1>3. IsList(FlattenSeq(all))
  <2>1. IsList(ids) BY CandidatesAreList
  <2>2. \A i \in DOMAIN ids : IsList(all[i])
    <3> HIDE DEF each, ids
    <3> QED BY <1>2
  <2>3. all = [i \in DOMAIN ids |-> all[i]] OBVIOUS
  <2> HIDE DEF all, ids
  <2> QED BY <2>1, <2>2, <2>3, MappedIsList
<1> QED BY <1>3, Zenon DEF ProfileCredentials, ConcatMap

LEMMA EnvCredentialsAreList ==
  ASSUME ServingAssumption, NEW provider, NEW mode
  PROVE  IsList(EnvCredentials(provider, mode))
<1> DEFINE found == IF provider \in DOMAIN Env.keys THEN Env.keys[provider] ELSE <<>>
           each  == [i \in DOMAIN found |-> [found[i] EXCEPT !.mode = Or(@, mode)]]
<1>1. IsList(found) BY EmptyIsList, RangedIsList DEF ServingAssumption
<1>2. IsList(each)
  <2>1. Len(found) \in Nat /\ DOMAIN found = 1 .. Len(found) BY <1>1, ListElements
  <2>2. each = [i \in DOMAIN found |-> each[i]] OBVIOUS
  <2> HIDE DEF found, each
  <2> QED BY <2>1, <2>2, FunctionIsList
<1> QED BY <1>2 DEF EnvCredentials

LEMMA KeylessAreList ==
  ASSUME NEW cfg, NEW provider, NEW pc, NEW mode
  PROVE  IsList(KeylessCredentials(cfg, provider, pc, mode))
BY EmptyIsList, SingletonIsList DEF KeylessCredentials

(* What AttemptsWith is given: whatever the configuration, the credentials  *)
(* of a provider are a list and no two of them have the same key.           *)
LEMMA CredentialsAreList ==
  ASSUME ServingAssumption, NEW cfg, WellFormed(cfg), NEW provider, NEW pc, NEW preferred
  PROVE  LET found == ResolveApiKeys(cfg, provider, pc, preferred)
         IN  /\ IsList(found)
             /\ \A m, n \in DOMAIN found : m < n => found[m].key # found[n].key
<1> DEFINE mode == Or(pc.auth, IF provider = "amazon-bedrock" THEN "aws-sdk" ELSE "api-key")
           configured == IF pc.key = None THEN <<>>
                         ELSE <<[key |-> pc.key, source |-> <<"models.providers">>, mode |-> mode]>>
           found == ByPrecedence(provider, ProfileCredentials(cfg, provider, preferred),
                                 EnvCredentials(provider, mode)) \o configured
           all  == OrKeyless(found, KeylessCredentials(cfg, provider, pc, mode))
           keys == [i \in DOMAIN all |-> all[i].key]
           kept == FirstIndexes(keys)
           picked == [n \in DOMAIN kept |-> all[kept[n]]]
           local == <<[key |-> None, source |-> <<"local-embedding">>, mode |-> "cli"]>>
<1>1. IsList(configured) BY EmptyIsList, SingletonIsList
<1>2. IsList(found)
  <2> HIDE DEF configured
  <2> QED BY <1>1, ConcatIsList, ProfileCredentialsAreList, EnvCredentialsAreList DEF ByPrecedence
<1>3. IsList(all)
  <2> HIDE DEF found, mode
  <2> QED BY <1>2, KeylessAreList DEF OrKeyless
<1>4. IsList(picked) /\ \A m, n \in DOMAIN picked : m < n => picked[m].key # picked[n].key
  <2>1. DOMAIN keys = DOMAIN all /\ \A i \in DOMAIN all : keys[i] = all[i].key OBVIOUS
  <2> HIDE DEF all, keys
  <2>2. /\ IsList(picked)
        /\ \A n \in DOMAIN picked : kept[n] \in DOMAIN all /\ picked[n] = all[kept[n]]
        /\ \A m, n \in DOMAIN picked : m < n => keys[kept[m]] # keys[kept[n]]
    BY <1>3, <2>1, FirstPicked
  <2> HIDE DEF kept, picked
  <2> QED BY <2>1, <2>2
<1>5. IsList(local) /\ \A m, n \in DOMAIN local : ~(m < n)
  <2>1. IsList(local) /\ Len(local) = 1 BY SingletonIsList
  <2>2. DOMAIN local = 1 .. 1 BY <2>1, ListElements
  <2> QED BY <2>1, <2>2
<1>6. CASE provider = LocalEmbeddings
  <2>1. ResolveApiKeys(cfg, provider, pc, preferred) = local BY <1>6, Zenon DEF ResolveApiKeys
  <2> HIDE DEF local
  <2> QED BY <1>5, <2>1
<1>7. CASE provider # LocalEmbeddings
  <2>1. ResolveApiKeys(cfg, provider, pc, preferred) = picked
    BY <1>7, Zenon DEF ResolveApiKeys, FirstOfEach
  <2> HIDE DEF picked
  <2> QED BY <1>4, <2>1
<1> QED BY <1>6, <1>7

(* The references fallback.order lists are a list too.                      *)
LEMMA FallbackRefsAreList ==
  ASSUME NEW cfg, WellFormed(cfg), NEW raw, NEW primary
  PROVE  IsList(FallbackModelRefs(cfg, raw, primary))
<1> DEFINE order == cfg.fallback.order
           self  == Ref(primary.provider, None, primary.model)
           rawKey == IF raw.profile # None THEN <<>>
                     ELSE Optional(raw.provider) \o Optional(raw.model)
           texts == << <<"chat", primary.provider, primary.model>>, <<"chat", primary.provider>>,
                      <<primary.provider, primary.model>>, <<primary.provider>>, rawKey >>
           each  == [i \in DOMAIN texts |->
                       IF texts[i] \in DOMAIN order THEN order[texts[i]] ELSE <<>>]
           listed == FlattenSeq(each)
           others == [i \in DOMAIN listed |-> IF listed[i] = self THEN <<>> ELSE <<listed[i]>>]
           all  == FlattenSeq(others)
           keys == [i \in DOMAIN all |-> all[i]]
           kept == FirstIndexes(keys)
           picked == [n \in DOMAIN kept |-> all[kept[n]]]
<1>1. IsList(texts)
  <2> DEFINE k1 == <<"chat", primary.provider, primary.model>>
             k2 == <<"chat", primary.provider>>
             k3 == <<primary.provider, primary.model>>
             k4 == <<primary.provider>>
  <2> HIDE DEF rawKey, k1, k2, k3, k4
  <2>1. <<k1, k2, k3, k4, rawKey>> \in Seq({k1, k2, k3, k4, rawKey}) OBVIOUS
  <2> QED BY <2>1 DEF IsList, k1, k2, k3, k4
<1>2. IsList(listed)
  <2> HIDE DEF texts
  <2>1. \A i \in DOMAIN texts : IsList(each[i])
    BY EmptyIsList, RangedIsList DEF WellFormed
  <2>2. each = [i \in DOMAIN texts |-> each[i]] OBVIOUS
  <2> HIDE DEF each
  <2> QED BY <1>1, <2>1, <2>2, MappedIsList
<1>3. IsList(all)
  <2> HIDE DEF listed, self
  <2>1. \A i \in DOMAIN listed : IsList(others[i]) BY EmptyIsList, SingletonIsList
  <2>2. others = [i \in DOMAIN listed |-> others[i]] OBVIOUS
  <2> HIDE DEF others
  <2> QED BY <1>2, <2>1, <2>2, MappedIsList
<1>4. IsList(picked)
  <2>1. DOMAIN keys = DOMAIN all OBVIOUS
  <2> HIDE DEF all, keys
  <2> QED BY <1>3, <2>1, FirstPicked
<1>5. CASE cfg.fallback.enabled
  BY <1>4, <1>5, Zenon DEF FallbackModelRefs, ConcatMap, FirstOfEach
<1>6. CASE ~cfg.fallback.enabled
  BY <1>6, EmptyIsList, Zenon DEF FallbackModelRefs
<1> QED BY <1>5, <1>6

-----------------------------------------------------------------------------
(* Clients.                                                                 *)

(* What a client is built from can be read off it again.                    *)
LEMMA BuiltClient ==
  ASSUME NEW cfg, NEW provider, NEW pc, NEW credential, NEW url, NEW dns, NEW client,
         client = BuildProvider(cfg, provider, pc, credential, url, dns), client # None
  PROVE  /\ client.provider = provider /\ client.adapter \in Adapters
         /\ client.adapter \notin SelfContained => client.url = url /\ client.key = credential.key
         /\ client = BuildProvider(cfg, provider, pc,
                                   [key |-> client.key, mode |-> credential.mode], url, dns)
<1> DEFINE api     == ApiOf(provider, pc)
           adapter == AdapterOf(provider, api)
           self    == adapter \in {"local", "cli"}
           again   == [key |-> client.key, mode |-> credential.mode]
<1>1. client = [provider |-> provider, adapter |-> adapter,
                url      |-> IF self THEN None ELSE url,
                key      |-> IF self THEN None ELSE credential.key,
                headers  |-> IF self THEN <<>> ELSE BuildHeaders(api, pc, credential)]
  BY Zenon DEF BuildProvider
<1>2. adapter # None BY DEF BuildProvider
<1>3. client.adapter \in Adapters BY <1>1, <1>2 DEF AdapterOf, Adapters
<1>4. self => provider # "minimax"
  BY <1>2 DEF AdapterOf, LocalEmbeddings, CliProviders
<1>5. CASE self
  <2>1. again.key = None BY <1>1, <1>5
  <2> QED BY <1>1, <1>3, <1>4, <1>5 DEF BuildProvider, SelfContained
<1>6. CASE ~self
  <2>1. client.key = credential.key /\ client.url = url BY <1>1, <1>6
  <2>2. again.key = credential.key /\ again.mode = credential.mode BY <2>1
  <2> HIDE DEF again
  <2>3. BuildHeaders(api, pc, again) = BuildHeaders(api, pc, credential)
    BY <2>2 DEF BuildHeaders
  <2>4. BuildProvider(cfg, provider, pc, again, url, dns) = client
    BY <1>1, <1>6, <2>2, <2>3 DEF BuildProvider
  <2> QED BY <1>1, <1>3, <2>1, <2>4 DEF SelfContained, again
<1> QED BY <1>5, <1>6

-----------------------------------------------------------------------------
(* The loop over the credentials of a provider.                             *)

(* What the cache may hold when `past` are the configurations that were in  *)
(* force: a client is filed under what it was built from, and one of them   *)
(* gives it all it has.                                                     *)
SoundClient(key, client, past) ==
  /\ client # None /\ client.provider = key[1] /\ client.adapter \in Adapters
  /\ client.adapter \notin SelfContained => client.url = key[3] /\ client.key = key[5]
  /\ \E c \in past, dns \in Resolvers :
       LET pc == ProviderConfig(c, client.provider)
       IN  /\ pc # None
           /\ client = BuildProvider(c, client.provider, pc, [key |-> client.key, mode |-> key[4]],
                                     EffectiveBaseUrl(c, client.provider, pc, key[2]), dns)
SoundCache(clients, past) ==
  \A key \in DOMAIN clients : SoundClient(key, clients[key], past)

(* An attempt made with a credential.                                       *)
Made(asked, a, credential) ==
  /\ a = [client |-> a.client, provider |-> asked.ref.provider, model |-> asked.ref.model,
          profile |-> asked.selected, source |-> credential.source, index |-> 0]
  /\ a.client.provider = asked.ref.provider /\ a.client.adapter \in Adapters
  /\ a.client.adapter \notin SelfContained =>
       /\ a.client.key = credential.key
       /\ a.client.url = EffectiveBaseUrl(asked.cfg, asked.ref.provider, asked.pc,
                                          ProfileOf(credential, asked.ref.profile))

(* Once k credentials were tried.  The context x has what was asked, the    *)
(* credentials, and the configurations that were in force.                  *)
Tried(x, k, acc) ==
  /\ SoundCache(acc.cache, x.past)
  /\ acc.ok => /\ x.credentials # <<>>
               /\ IsList(acc.attempts) /\ Len(acc.attempts) = k
               /\ \A i \in 1 .. k : Made(x.asked, acc.attempts[i], x.credentials[i])
TryOf(x, acc, credential) == TryCredential(x.asked, acc, credential)

Trying == INSTANCE FoldInduction WITH Step <- TryOf, Holds <- Tried, Last <- Max

LEMMA FiledClient ==
  ASSUME NEW past, NEW cfg \in past, NEW dns \in Resolvers, NEW provider,
         NEW pc, pc = ProviderConfig(cfg, provider), pc # None,
         NEW clients, SoundCache(clients, past), NEW credential, NEW profile, NEW url,
         url = EffectiveBaseUrl(cfg, provider, pc, profile),
         NEW key, key = CacheKey(provider, profile, url, credential), NEW client,
         client = CachedOrBuilt(clients, key, BuildProvider(cfg, provider,
                                                pc, credential, url, dns)),
         client # None
  PROVE  /\ SoundClient(key, client, past)
         /\ client.provider = provider /\ client.adapter \in Adapters
         /\ client.adapter \notin SelfContained =>
              client.key = credential.key /\ client.url = url
<1>1. /\ key[1] = provider /\ key[2] = profile /\ key[3] = url
      /\ key[4] = credential.mode /\ key[5] = credential.key
  BY DEF CacheKey
<1>2. CASE key \in DOMAIN clients
  <2>1. SoundClient(key, client, past) BY <1>2 DEF CachedOrBuilt, SoundCache
  <2> QED BY <1>1, <2>1 DEF SoundClient
<1>3. CASE key \notin DOMAIN clients
  <2>1. client = BuildProvider(cfg, provider, pc, credential, url, dns)
    BY <1>3 DEF CachedOrBuilt
  <2>2. /\ client.provider = provider /\ client.adapter \in Adapters
        /\ client.adapter \notin SelfContained => client.url = url /\ client.key = credential.key
        /\ client = BuildProvider(cfg, provider, pc,
                        [key |-> client.key, mode |-> credential.mode], url, dns)
    BY <2>1, BuiltClient
  <2>3. SoundClient(key, client, past)
    <3>1. client = BuildProvider(cfg, client.provider, ProviderConfig(cfg, client.provider),
                     [key |-> client.key, mode |-> key[4]],
                     EffectiveBaseUrl(cfg, client.provider,
                                      ProviderConfig(cfg, client.provider), key[2]),
                     dns)
      BY <1>1, <2>2
    <3>2. ProviderConfig(cfg, client.provider) # None BY <2>2
    <3> QED BY <1>1, <2>2, <3>1, <3>2 DEF SoundClient
  <2> QED BY <2>2, <2>3
<1> QED BY <1>2, <1>3

LEMMA FiledCache ==
  ASSUME NEW past, NEW clients, SoundCache(clients, past), NEW key, NEW client,
         SoundClient(key, client, past)
  PROVE  SoundCache(Filed(clients, key, client), past)
BY DEF SoundCache, Filed

LEMMA TryKeeps ==
  ASSUME NEW x, x.asked.cfg \in x.past, x.asked.dns \in Resolvers,
         x.asked.pc = ProviderConfig(x.asked.cfg, x.asked.ref.provider), x.asked.pc # None,
         NEW k \in Nat \ {0}, NEW acc, Tried(x, k - 1, acc)
  PROVE  Tried(x, k, TryOf(x, acc, x.credentials[k]))
<1> DEFINE asked      == x.asked
           credential == x.credentials[k]
           provider == asked.ref.provider
           profile  == ProfileOf(credential, asked.ref.profile)
           url      == EffectiveBaseUrl(asked.cfg, provider, asked.pc, profile)
           key      == CacheKey(provider, profile, url, credential)
           client   == CachedOrBuilt(acc.cache, key, BuildProvider(asked.cfg, provider, asked.pc,
                                                              credential, url, asked.dns))
           attempt  == [client |-> client, provider |-> provider, model |-> asked.ref.model,
                        profile |-> asked.selected, source |-> credential.source, index |-> 0]
<1>1. CASE ~acc.ok \/ client = None
  <2>1. TryOf(x, acc, credential) = [ok |-> FALSE, cache |-> acc.cache, attempts |-> acc.attempts]
    BY <1>1, Zenon DEF TryOf, TryCredential
  <2> QED BY <2>1 DEF Tried
<1>2. CASE acc.ok /\ client # None
  <2>1. TryOf(x, acc, credential) = [ok |-> TRUE, cache |-> Filed(acc.cache, key, client),
                                     attempts |-> Append(acc.attempts, attempt)]
    BY <1>2, Zenon DEF TryOf, TryCredential
  <2>2. /\ SoundClient(key, client, x.past)
        /\ client.provider = provider /\ client.adapter \in Adapters
        /\ client.adapter \notin SelfContained => client.key = credential.key /\ client.url = url
    <3>1. SoundCache(acc.cache, x.past) BY DEF Tried
    <3>2. url = EffectiveBaseUrl(asked.cfg, provider, asked.pc, profile) OBVIOUS
    <3>3. key = CacheKey(provider, profile, url, credential) OBVIOUS
    <3>4. client = CachedOrBuilt(acc.cache, key, BuildProvider(asked.cfg, provider, asked.pc,
                                                         credential, url, asked.dns))
      OBVIOUS
    <3>5. /\ asked.cfg \in x.past /\ asked.dns \in Resolvers
          /\ asked.pc = ProviderConfig(asked.cfg, asked.ref.provider) /\ asked.pc # None
      OBVIOUS
    <3>6. client # None BY <1>2
    <3> HIDE DEF asked, profile, url, key, client, credential
    <3> QED BY <3>1, <3>2, <3>3, <3>4, <3>5, <3>6, FiledClient
  <2>3. SoundCache(Filed(acc.cache, key, client), x.past)
    <3> HIDE DEF key, client
    <3> QED BY <2>2, FiledCache DEF Tried
  <2>4. Made(asked, attempt, credential)
    <3> HIDE DEF client
    <3> QED BY <2>2 DEF Made
  <2>5. /\ IsList(Append(acc.attempts, attempt)) /\ Len(Append(acc.attempts, attempt)) = k
        /\ \A i \in 1 .. k - 1 : Append(acc.attempts, attempt)[i] = acc.attempts[i]
        /\ Append(acc.attempts, attempt)[k] = attempt
    <3> HIDE DEF attempt
    <3>1. IsList(acc.attempts) /\ Len(acc.attempts) = k - 1 BY <1>2 DEF Tried
    <3>2. Len(acc.attempts) + 1 = k BY <3>1
    <3> QED BY <3>1, <3>2, AppendIsList
  <2>6. ASSUME NEW i \in 1 .. k
        PROVE  Made(asked, Append(acc.attempts, attempt)[i], x.credentials[i])
    <3> HIDE DEF attempt
    <3>3. i = k \/ i \in 1 .. k - 1 OBVIOUS
    <3>1. CASE i = k BY <2>4, <2>5, <3>1
    <3>2. CASE i \in 1 .. k - 1
      <4>1. Made(asked, acc.attempts[i], x.credentials[i]) BY <1>2, <3>2 DEF Tried
      <4> QED BY <2>5, <3>2, <4>1
    <3> QED BY <3>1, <3>2, <3>3
  <2>7. x.credentials # <<>> BY <1>2 DEF Tried
  <2> HIDE DEF key, client, attempt
  <2> QED BY <2>1, <2>3, <2>5, <2>6, <2>7 DEF Tried
<1> QED BY <1>1, <1>2

LEMMA TriedAll ==
  ASSUME NEW x, NEW n \in Nat, DOMAIN x.credentials = 1 .. n,
         x.asked.cfg \in x.past, x.asked.dns \in Resolvers,
         n > 0 => /\ x.asked.pc = ProviderConfig(x.asked.cfg, x.asked.ref.provider)
                  /\ x.asked.pc # None,
         NEW clients, SoundCache(clients, x.past)
  PROVE  Tried(x, n, TryCredentials(x.asked, clients, x.credentials))
<1> DEFINE base == [ok |-> x.credentials # <<>>, cache |-> clients, attempts |-> <<>>]
<1>1. Tried(x, 0, base)
  <2>1. base.cache = clients /\ base.attempts = <<>> /\ base.ok = (x.credentials # <<>>) OBVIOUS
  <2> HIDE DEF base
  <2>2. ~ \E i \in 1 .. 0 : TRUE OBVIOUS
  <2> QED BY <2>1, <2>2, EmptyIsList DEF Tried
<1>2. ASSUME NEW k \in 1 .. n, NEW acc, Tried(x, k - 1, acc)
      PROVE  Tried(x, k, TryOf(x, acc, x.credentials[k]))
  BY <1>2, TryKeeps
<1> HIDE DEF base
<1>3. Tried(x, n,
           (CHOOSE iter : iter =
              [s \in SUBSET DOMAIN x.credentials |->
                 IF s = {} THEN base
                 ELSE TryOf(x, iter[s \ {Max(s)}], x.credentials[Max(s)])])[DOMAIN x.credentials])
  <2> DEFINE credentials == x.credentials
  <2>1. DOMAIN credentials = 1 .. n OBVIOUS
  <2>2. \A k \in 1 .. n : \A acc :
          Tried(x, k - 1, acc) => Tried(x, k, TryOf(x, acc, credentials[k]))
    BY <1>2
  <2> HIDE DEF credentials
  <2>3. Tried(x, n,
             (CHOOSE iter : iter =
                [s \in SUBSET DOMAIN credentials |->
                   IF s = {} THEN base
                   ELSE TryOf(x, iter[s \ {Max(s)}], credentials[Max(s)])])[DOMAIN credentials])
    BY <1>1, <2>1, <2>2, MaxIsGreatest, Trying!FoldInvariant
  <2> QED BY <2>3 DEF credentials
<1> QED BY <1>3, Zenon DEF base, TryOf, TryCredentials, FoldLeft, MapThenFoldSet

(* What the configuration gives, for an adapter there is.                   *)
MadeFor(cfg, a) == InForce(cfg, a) /\ a.client.adapter \in Adapters

(* The attempts for one reference: at least one, all of them with what the  *)
(* configuration gives, no key twice.                                       *)
IsAttempt(a) ==
  a = [client |-> a.client, provider |-> a.provider, model |-> a.model,
       profile |-> a.profile, source |-> a.source, index |-> a.index]
OtherKey(a, b) ==
  \/ a.client.adapter \in SelfContained \/ b.client.adapter \in SelfContained
  \/ a.client.key # b.client.key
AttemptsOfOne(cfg, i, attempts) ==
  /\ IsList(attempts) /\ Len(attempts) >= 1
  /\ \A n \in DOMAIN attempts :
       IsAttempt(attempts[n]) /\ attempts[n].index = i /\ MadeFor(cfg, attempts[n])
  /\ \A m, n \in DOMAIN attempts : m < n => OtherKey(attempts[m], attempts[n])

LEMMA ProviderResolved ==
  ASSUME ServingAssumption, NEW past, NEW cfg \in past, WellFormed(cfg), NEW dns \in Resolvers,
         NEW clients, SoundCache(clients, past), NEW ref
  PROVE  LET resolved == ResolveProviderForRef(cfg, clients, ref, dns)
         IN  /\ SoundCache(resolved.cache, past)
             /\ resolved.ok => AttemptsOfOne(cfg, 0, resolved.attempts)
<1> DEFINE pc == ProviderConfig(cfg, ref.provider)
           found == ResolveApiKeys(cfg, ref.provider, pc, ref.profile)
           credentials == IF pc = None THEN <<>> ELSE found
           selected == SelectedProfile(ref, credentials)
           asked == [cfg |-> cfg, ref |-> ref, pc |-> pc, dns |-> dns, selected |-> selected]
           x == [asked |-> asked, credentials |-> credentials, past |-> past]
           resolved == TryCredentials(asked, clients, credentials)
<1>1. ResolveProviderForRef(cfg, clients, ref, dns) = resolved
  BY Zenon DEF ResolveProviderForRef, AttemptsWith
<1>2. /\ IsList(credentials)
      /\ \A m, n \in DOMAIN credentials : m < n => credentials[m].key # credentials[n].key
  <2>1. CASE pc = None
    <3>1. IsList(<<>>) /\ DOMAIN <<>> = {} BY EmptyIsList
    <3> QED BY <2>1, <3>1
  <2>2. CASE pc # None
    <3> HIDE DEF pc
    <3> QED BY <2>2, CredentialsAreList
  <2> QED BY <2>1, <2>2
<1>3. Len(credentials) \in Nat /\ DOMAIN credentials = 1 .. Len(credentials)
  <2> HIDE DEF credentials
  <2> QED BY <1>2, ListElements
<1>4. Len(credentials) > 0 => pc # None BY EmptyIsList
<1>5. Tried(x, Len(credentials), resolved)
  <2>1. /\ x.asked = asked /\ x.credentials = credentials /\ x.past = past
        /\ asked.cfg = cfg /\ asked.dns = dns /\ asked.pc = pc /\ asked.ref = ref
    OBVIOUS
  <2> HIDE DEF x, asked, credentials, pc
  <2>2. Tried(x, Len(credentials), TryCredentials(x.asked, clients, x.credentials))
    BY <1>3, <1>4, <2>1, TriedAll DEF pc
  <2> QED BY <2>1, <2>2
<1>6. SoundCache(resolved.cache, past) BY <1>5 DEF Tried
<1>7. ASSUME resolved.ok PROVE AttemptsOfOne(cfg, 0, resolved.attempts)
  <2> DEFINE attempts == resolved.attempts
  <2>1. /\ credentials # <<>> /\ IsList(attempts) /\ Len(attempts) = Len(credentials)
        /\ \A i \in 1 .. Len(credentials) : Made(asked, attempts[i], credentials[i])
    BY <1>5, <1>7 DEF Tried
  <2>2. pc # None BY <2>1
  <2>3. DOMAIN attempts = 1 .. Len(credentials) /\ DOMAIN attempts = DOMAIN credentials
    <3> HIDE DEF attempts, credentials
    <3> QED BY <1>3, <2>1, ListElements
  <2>4. Len(attempts) >= 1
    <3>1. Len(credentials) # 0
      <4> HIDE DEF credentials
      <4>1. credentials \in Seq({credentials[i] : i \in DOMAIN credentials})
        BY <1>2, ListElements
      <4> QED BY <2>1, <4>1
    <3> HIDE DEF attempts, credentials
    <3> QED BY <1>3, <2>1, <3>1
  <2>5. ASSUME NEW n \in DOMAIN attempts
        PROVE  /\ IsAttempt(attempts[n]) /\ attempts[n].index = 0 /\ MadeFor(cfg, attempts[n])
               /\ attempts[n].client.adapter \notin SelfContained =>
                    attempts[n].client.key = credentials[n].key
    <3> DEFINE a == attempts[n]
    <3>1. Made(asked, a, credentials[n]) BY <2>1, <2>3
    <3> HIDE DEF attempts, a, credentials, pc, selected
    <3>2. /\ a = [client |-> a.client, provider |-> ref.provider, model |-> ref.model,
                  profile |-> selected, source |-> credentials[n].source, index |-> 0]
          /\ a.client.provider = ref.provider /\ a.client.adapter \in Adapters
          /\ a.client.adapter \notin SelfContained =>
               /\ a.client.key = credentials[n].key
               /\ a.client.url = EffectiveBaseUrl(cfg, ref.provider, pc,
                                                  ProfileOf(credentials[n], ref.profile))
      BY <3>1 DEF Made
    <3>3. a.provider = ref.provider /\ a.profile = selected
          /\ a.source = credentials[n].source /\ a.index = 0
      BY <3>2
    <3>4. IsAttempt(a) BY <3>2, <3>3 DEF IsAttempt
    <3>5. ref.profile \in {a.profile, None} BY <3>3 DEF selected, SelectedProfile
    <3>6. n \in DOMAIN found /\ found[n] = credentials[n] BY <2>2, <2>3 DEF credentials
    <3>7. MadeFor(cfg, a) BY <3>2, <3>3, <3>5, <3>6 DEF MadeFor, InForce, pc
    <3> QED BY <3>2, <3>3, <3>4, <3>7 DEF a
  <2>6. ASSUME NEW m \in DOMAIN attempts, NEW n \in DOMAIN attempts, m < n
        PROVE  OtherKey(attempts[m], attempts[n])
    <3>1. credentials[m].key # credentials[n].key BY <1>2, <2>3, <2>6
    <3> HIDE DEF attempts, credentials
    <3> QED BY <2>5, <3>1 DEF OtherKey
  <2> HIDE DEF attempts
  <2>7. AttemptsOfOne(cfg, 0, attempts) BY <2>1, <2>4, <2>5, <2>6 DEF AttemptsOfOne
  <2> QED BY <2>7 DEF attempts
<1> HIDE DEF resolved
<1> QED BY <1>1, <1>6, <1>7

-----------------------------------------------------------------------------
(* The loop over the fallbacks.                                             *)

(* Once k fallbacks were added to the attempts of the reference itself.     *)
ChainOf(cfg, k, attempts) ==
  /\ IsList(attempts) /\ Len(attempts) >= 1 /\ attempts[1].index = 0
  /\ \A n \in DOMAIN attempts :
       IsAttempt(attempts[n]) /\ attempts[n].index \in 0 .. k /\ MadeFor(cfg, attempts[n])
  /\ \A m, n \in DOMAIN attempts : m < n =>
       /\ attempts[m].index <= attempts[n].index
       /\ attempts[m].index = attempts[n].index => OtherKey(attempts[m], attempts[n])
Collected(y, k, acc) ==
  SoundCache(acc.cache, y.past) /\ ChainOf(y.asked.cfg, k, acc.attempts)
CollectOf(y, acc, i) == TryFallback(y.asked, acc, i)

Collecting == INSTANCE FoldInduction WITH Step <- CollectOf, Holds <- Collected, Last <- Max

LEMMA ChainGrows ==
  ASSUME NEW cfg, NEW k \in Nat \ {0}, NEW attempts, ChainOf(cfg, k - 1, attempts)
  PROVE  ChainOf(cfg, k, attempts)
BY DEF ChainOf

LEMMA IndexedAttempts ==
  ASSUME NEW cfg, NEW k \in Nat, NEW found, AttemptsOfOne(cfg, 0, found),
         NEW indexed, indexed = [n \in DOMAIN found |-> [found[n] EXCEPT !.index = k]]
  PROVE  AttemptsOfOne(cfg, k, indexed)
<1>1. Len(found) \in Nat /\ DOMAIN found = 1 .. Len(found) BY ListElements DEF AttemptsOfOne
<1>2. IsList(indexed) /\ Len(indexed) = Len(found) /\ DOMAIN indexed = DOMAIN found
  <2>1. indexed = [n \in 1 .. Len(found) |-> indexed[n]] BY <1>1
  <2> QED BY <1>1, <2>1, FunctionIsList
<1>3. ASSUME NEW n \in DOMAIN found
      PROVE  indexed[n] = [client |-> found[n].client, provider |-> found[n].provider,
                           model |-> found[n].model, profile |-> found[n].profile,
                           source |-> found[n].source, index |-> k]
  <2> DEFINE a == found[n]
  <2>1. IsAttempt(a) BY DEF AttemptsOfOne
  <2>2. indexed[n] = [a EXCEPT !.index = k] OBVIOUS
  <2> HIDE DEF a
  <2>3. [a EXCEPT !.index = k] = [client |-> a.client, provider |-> a.provider,
                           model |-> a.model, profile |-> a.profile,
                           source |-> a.source, index |-> k]
    BY <2>1 DEF IsAttempt
  <2> QED BY <2>2, <2>3 DEF a
<1>4. ASSUME NEW n \in DOMAIN found
      PROVE  /\ IsAttempt(indexed[n]) /\ indexed[n].index = k /\ MadeFor(cfg, indexed[n])
             /\ indexed[n].client = found[n].client
  <2> DEFINE a == found[n] b == indexed[n]
  <2>1. MadeFor(cfg, a) BY DEF AttemptsOfOne
  <2>2. b = [client |-> a.client, provider |-> a.provider, model |-> a.model,
             profile |-> a.profile, source |-> a.source, index |-> k]
    BY <1>3
  <2> HIDE DEF a, b
  <2>3. /\ b.client = a.client /\ b.provider = a.provider /\ b.model = a.model
        /\ b.profile = a.profile /\ b.source = a.source /\ b.index = k
    BY <2>2
  <2>4. IsAttempt(b) BY <2>2, <2>3 DEF IsAttempt
  <2>5. MadeFor(cfg, b) BY <2>1, <2>3 DEF MadeFor, InForce
  <2> QED BY <2>3, <2>4, <2>5 DEF a, b
<1>5. ASSUME NEW m \in DOMAIN found, NEW n \in DOMAIN found, m < n
      PROVE  OtherKey(indexed[m], indexed[n])
  <2>1. OtherKey(found[m], found[n]) BY <1>5 DEF AttemptsOfOne
  <2> QED BY <1>4, <2>1 DEF OtherKey
<1>6. Len(indexed) >= 1 BY <1>2 DEF AttemptsOfOne
<1> QED BY <1>2, <1>4, <1>5, <1>6 DEF AttemptsOfOne

LEMMA ChainExtends ==
  ASSUME NEW cfg, NEW k \in Nat \ {0}, NEW attempts, ChainOf(cfg, k - 1, attempts),
         NEW more, AttemptsOfOne(cfg, k, more)
  PROVE  ChainOf(cfg, k, attempts \o more)
<1> DEFINE all == attempts \o more
           L == Len(attempts)
<1>1. /\ L \in Nat /\ DOMAIN attempts = 1 .. L
      /\ Len(more) \in Nat /\ DOMAIN more = 1 .. Len(more)
  BY ListElements DEF ChainOf, AttemptsOfOne
<1>2. /\ IsList(all) /\ Len(all) = L + Len(more)
      /\ \A i \in 1 .. L : all[i] = attempts[i]
      /\ \A i \in 1 .. Len(more) : all[L + i] = more[i]
  BY ConcatIsList DEF ChainOf, AttemptsOfOne
<1>3. DOMAIN all = 1 .. L + Len(more) BY <1>2, ListElements
<1> HIDE DEF all
<1>4. ASSUME NEW n \in DOMAIN all
      PROVE  \/ n \in DOMAIN attempts /\ all[n] = attempts[n]
             \/ n - L \in DOMAIN more /\ all[n] = more[n - L]
  <2>1. CASE n \in 1 .. L BY <1>1, <1>2, <2>1
  <2>2. CASE n \notin 1 .. L
    <3>1. n - L \in 1 .. Len(more) /\ L + (n - L) = n BY <1>1, <1>3, <2>2
    <3> QED BY <1>1, <1>2, <3>1
  <2> QED BY <2>1, <2>2
<1>5. \A n \in DOMAIN attempts :
        IsAttempt(attempts[n]) /\ attempts[n].index \in 0 .. k - 1 /\ MadeFor(cfg, attempts[n])
  BY DEF ChainOf
<1>6. \A n \in DOMAIN more :
        IsAttempt(more[n]) /\ more[n].index = k /\ MadeFor(cfg, more[n])
  BY DEF AttemptsOfOne
<1>7. ASSUME NEW n \in DOMAIN all
      PROVE  IsAttempt(all[n]) /\ all[n].index \in 0 .. k /\ MadeFor(cfg, all[n])
  <2>1. CASE n \in DOMAIN attempts /\ all[n] = attempts[n] BY <1>5, <2>1
  <2>2. CASE n - L \in DOMAIN more /\ all[n] = more[n - L] BY <1>6, <2>2
  <2> QED BY <1>4, <2>1, <2>2
<1>8. ASSUME NEW m \in DOMAIN all, NEW n \in DOMAIN all, m < n
      PROVE  /\ all[m].index <= all[n].index
             /\ all[m].index = all[n].index => OtherKey(all[m], all[n])
  <2>1. CASE n \in DOMAIN attempts /\ all[n] = attempts[n]
    <3>1. m \in DOMAIN attempts /\ all[m] = attempts[m] BY <1>1, <1>2, <1>3, <1>8, <2>1
    <3> QED BY <1>8, <2>1, <3>1 DEF ChainOf
  <2>2. CASE n - L \in DOMAIN more /\ all[n] = more[n - L]
    <3>1. CASE m \in DOMAIN attempts /\ all[m] = attempts[m]
      <4>1. all[m].index \in 0 .. k - 1 /\ all[n].index = k BY <1>5, <1>6, <2>2, <3>1
      <4> QED BY <4>1
    <3>2. CASE m - L \in DOMAIN more /\ all[m] = more[m - L]
      <4>1. all[m].index = k /\ all[n].index = k BY <1>6, <2>2, <3>2
      <4>2. m - L < n - L BY <1>1, <1>3, <1>8
      <4>3. OtherKey(all[m], all[n]) BY <2>2, <3>2, <4>2 DEF AttemptsOfOne
      <4> QED BY <4>1, <4>3
    <3> QED BY <1>4, <3>1, <3>2
  <2> QED BY <1>4, <2>1, <2>2
<1>9. Len(all) >= 1 /\ all[1].index = 0
  <2>1. L >= 1 /\ attempts[1].index = 0 BY DEF ChainOf
  <2> QED BY <1>1, <1>2, <2>1
<1>10. ChainOf(cfg, k, all) BY <1>2, <1>7, <1>8, <1>9 DEF ChainOf
<1> QED BY <1>10 DEF all

LEMMA CollectKeeps ==
  ASSUME ServingAssumption, NEW y, y.asked.cfg \in y.past, y.asked.dns \in Resolvers,
         WellFormed(y.asked.cfg), NEW k \in Nat \ {0}, NEW acc, Collected(y, k - 1, acc)
  PROVE  Collected(y, k, CollectOf(y, acc, k))
<1> DEFINE cfg      == y.asked.cfg
           dns      == y.asked.dns
           fallback == ResolveModelRef(cfg, y.asked.refs[k], None)
           resolved == ResolveProviderForRef(cfg, acc.cache, fallback, dns)
           indexed  == [n \in DOMAIN resolved.attempts |-> [resolved.attempts[n] EXCEPT !.index = k]]
<1>1. CASE fallback = None
  <2>1. CollectOf(y, acc, k) = acc BY <1>1, Zenon DEF CollectOf, TryFallback
  <2> QED BY <2>1, ChainGrows DEF Collected
<1>2. CASE fallback # None
  <2>1. CollectOf(y, acc, k) =
          [ok |-> acc.ok, cache |-> resolved.cache,
           attempts |-> IF resolved.ok THEN acc.attempts \o indexed ELSE acc.attempts]
    BY <1>2, Zenon DEF CollectOf, TryFallback, Extended
  <2>2. /\ SoundCache(resolved.cache, y.past)
        /\ resolved.ok => AttemptsOfOne(cfg, 0, resolved.attempts)
    <3>1. SoundCache(acc.cache, y.past) BY DEF Collected
    <3>2. cfg \in y.past /\ dns \in Resolvers /\ WellFormed(cfg) OBVIOUS
    <3> HIDE DEF fallback, cfg, dns
    <3> QED BY <3>1, <3>2, ProviderResolved
  <2>3. CASE resolved.ok
    <3> HIDE DEF resolved
    <3>1. AttemptsOfOne(cfg, k, indexed)
      <4>1. indexed = [n \in DOMAIN resolved.attempts |-> [resolved.attempts[n] EXCEPT !.index = k]]
        OBVIOUS
      <4> HIDE DEF cfg, indexed
      <4> QED BY <2>2, <2>3, <4>1, IndexedAttempts
    <3> HIDE DEF indexed
    <3>2. ChainOf(cfg, k - 1, acc.attempts) BY DEF Collected
    <3> HIDE DEF cfg
    <3>3. ChainOf(cfg, k, acc.attempts \o indexed) BY <3>1, <3>2, ChainExtends
    <3> QED BY <2>1, <2>2, <2>3, <3>3 DEF Collected, cfg
  <2>4. CASE ~resolved.ok
    <3> HIDE DEF resolved, indexed
    <3>1. ChainOf(cfg, k, acc.attempts) BY ChainGrows DEF Collected
    <3> QED BY <2>1, <2>2, <2>4, <3>1 DEF Collected
  <2> QED BY <2>3, <2>4
<1> QED BY <1>1, <1>2

LEMMA CollectedAll ==
  ASSUME ServingAssumption, NEW y, y.asked.cfg \in y.past, y.asked.dns \in Resolvers,
         WellFormed(y.asked.cfg), NEW n \in Nat, DOMAIN y.asked.refs = 1 .. n,
         NEW primary, Collected(y, 0, primary)
  PROVE  Collected(y, n, TryFallbacks(y.asked, primary))
<1> DEFINE places == [i \in DOMAIN y.asked.refs |-> i]
<1>1. DOMAIN places = 1 .. n OBVIOUS
<1>2. \A k \in 1 .. n : \A acc :
        Collected(y, k - 1, acc) => Collected(y, k, CollectOf(y, acc, places[k]))
  BY CollectKeeps
<1> HIDE DEF places
<1>3. Collected(y, n,
           (CHOOSE iter : iter =
              [s \in SUBSET DOMAIN places |->
                 IF s = {} THEN primary
                 ELSE CollectOf(y, iter[s \ {Max(s)}], places[Max(s)])])[DOMAIN places])
  BY <1>1, <1>2, MaxIsGreatest, Collecting!FoldInvariant
<1> QED BY <1>3, Zenon DEF places, CollectOf, TryFallbacks, FoldLeftDomain, FoldLeft, MapThenFoldSet

(* What is left of a chain once nothing comes twice and it is cut to the    *)
(* length the configuration allows.                                         *)
LEMMA PrefixOfList ==
  ASSUME NEW s, IsList(s), NEW n \in Nat, n <= Len(s)
  PROVE  /\ IsList(SubSeq(s, 1, n)) /\ Len(SubSeq(s, 1, n)) = n
         /\ DOMAIN SubSeq(s, 1, n) = 1 .. n /\ 1 .. n \subseteq DOMAIN s
         /\ \A i \in 1 .. n : SubSeq(s, 1, n)[i] = s[i]
<1>1. PICK S : s \in Seq(S) BY DEF IsList
<1>2. Len(s) \in Nat /\ DOMAIN s = 1 .. Len(s) BY ListElements
<1>3. /\ SubSeq(s, 1, n) \in Seq(S) /\ Len(SubSeq(s, 1, n)) = n
      /\ \A i \in 1 .. n : SubSeq(s, 1, n)[i] = s[i]
  <2>1. \A i \in 1 .. n : s[i] \in S BY <1>1, <1>2
  <2> QED BY <1>1, <1>2, <2>1, SubSeqProperties
<1>4. IsList(SubSeq(s, 1, n)) BY <1>3 DEF IsList
<1> QED BY <1>2, <1>3, <1>4, ListElements

LEMMA CappedChain ==
  ASSUME NEW cfg, WellFormed(cfg), NEW k \in Nat, NEW attempts, ChainOf(cfg, k, attempts)
  PROVE  LET plan == CapAttempts(cfg, attempts)
         IN  /\ IsList(plan) /\ Len(plan) >= 1 /\ SoundChain(cfg, plan)
             /\ \A i \in DOMAIN plan : MadeFor(cfg, plan[i])
<1> DEFINE keys == [i \in DOMAIN attempts |->
                      <<attempts[i].provider, attempts[i].model,
                        attempts[i].profile, attempts[i].source>>]
           kept     == FirstIndexes(keys)
           distinct == [n \in DOMAIN kept |-> attempts[kept[n]]]
           max      == IF cfg.fallback.maxAttempts < 1 THEN 1 ELSE cfg.fallback.maxAttempts
           size     == IF Len(distinct) < max THEN Len(distinct) ELSE max
           plan     == SubSeq(distinct, 1, size)
<1>1. CapAttempts(cfg, attempts) = plan BY Zenon DEF CapAttempts, FirstOfEach
<1>2. Len(attempts) \in Nat /\ DOMAIN attempts = 1 .. Len(attempts) /\ attempts # <<>>
  BY ListElements, EmptyIsList DEF ChainOf
<1>3. /\ IsList(distinct) /\ DOMAIN distinct = DOMAIN kept
      /\ Len(distinct) >= 1 /\ distinct[1] = attempts[1]
      /\ \A n \in DOMAIN distinct : kept[n] \in DOMAIN attempts /\ distinct[n] = attempts[kept[n]]
      /\ \A m, n \in DOMAIN distinct :
           m < n => kept[m] < kept[n] /\ keys[kept[m]] # keys[kept[n]]
  <2>1. DOMAIN keys = DOMAIN attempts OBVIOUS
  <2>2. IsList(attempts) BY DEF ChainOf
  <2> HIDE DEF keys
  <2> QED BY <1>2, <2>1, <2>2, FirstPicked, SMTT(30)
<1>4. ASSUME NEW i \in DOMAIN attempts, NEW j \in DOMAIN attempts, keys[i] # keys[j]
      PROVE  ~ /\ attempts[i].provider = attempts[j].provider /\ attempts[i].model = attempts[j].model
               /\ attempts[i].profile = attempts[j].profile /\ attempts[i].source = attempts[j].source
  BY <1>4
<1> HIDE DEF keys, kept, distinct
<1>5. /\ max \in Nat /\ max >= 1 /\ size \in Nat /\ size >= 1 /\ size <= Len(distinct)
      /\ size = 1 \/ size <= cfg.fallback.maxAttempts
  <2>1. cfg.fallback.maxAttempts \in Int BY DEF WellFormed
  <2>2. Len(distinct) \in Nat /\ Len(distinct) >= 1 BY <1>3, ListElements
  <2> QED BY <2>1, <2>2
<1> HIDE DEF max, size
<1>6. /\ IsList(plan) /\ Len(plan) = size /\ DOMAIN plan = 1 .. size
      /\ 1 .. size \subseteq DOMAIN distinct
      /\ \A i \in 1 .. size : plan[i] = distinct[i]
  BY <1>3, <1>5, PrefixOfList
<1> HIDE DEF plan
<1>7. plan[1].index = 0
  <2>1. plan[1] = attempts[1] BY <1>3, <1>5, <1>6
  <2> QED BY <2>1 DEF ChainOf
<1>8. ASSUME NEW i \in DOMAIN plan, NEW j \in DOMAIN plan, i < j
      PROVE  plan[i].index <= plan[j].index /\ Different(plan[i], plan[j])
  <2>1. /\ i \in DOMAIN distinct /\ plan[i] = attempts[kept[i]] /\ kept[i] \in DOMAIN attempts
        /\ j \in DOMAIN distinct /\ plan[j] = attempts[kept[j]] /\ kept[j] \in DOMAIN attempts
    BY <1>3, <1>6
  <2>2. kept[i] < kept[j] /\ keys[kept[i]] # keys[kept[j]] BY <1>3, <1>8, <2>1
  <2>3. /\ plan[i].index <= plan[j].index
        /\ plan[i].index = plan[j].index => OtherKey(plan[i], plan[j])
    BY <2>1, <2>2 DEF ChainOf
  <2>4. ~ /\ plan[i].provider = plan[j].provider /\ plan[i].model = plan[j].model
          /\ plan[i].profile = plan[j].profile /\ plan[i].source = plan[j].source
    BY <1>4, <2>1, <2>2
  <2> QED BY <2>3, <2>4 DEF Different, OtherKey
<1>9. SoundChain(cfg, plan) BY <1>5, <1>6, <1>7, <1>8 DEF SoundChain
<1>10. \A i \in DOMAIN plan : MadeFor(cfg, plan[i]) BY <1>3, <1>6 DEF ChainOf
<1> QED BY <1>1, <1>5, <1>6, <1>9, <1>10


(* resolve(), whatever is configured, asked and cached: it never makes an    *)
(* unsound cache of a sound one, and the chain it answers is sound, never    *)
(* empty, and made of what the configuration gives.                         *)
THEOREM ResolveSound ==
  ASSUME ServingAssumption, NEW past, NEW cfg \in past, WellFormed(cfg), NEW dns \in Resolvers,
         NEW clients, SoundCache(clients, past), NEW raw, NEW preferred
  PROVE  LET resolved == Resolve(cfg, clients, raw, preferred, dns)
         IN  /\ SoundCache(resolved.cache, past)
             /\ resolved.ok =>
                  /\ IsList(resolved.attempts) /\ Len(resolved.attempts) >= 1
                  /\ SoundChain(cfg, resolved.attempts)
                  /\ \A i \in DOMAIN resolved.attempts : MadeFor(cfg, resolved.attempts[i])
<1> DEFINE ref      == ResolveModelRef(cfg, raw, preferred)
           primary  == ResolveProviderForRef(cfg, clients, ref, dns)
           refs     == FallbackModelRefs(cfg, raw, ref)
           asked    == [cfg |-> cfg, refs |-> refs, dns |-> dns]
           all      == TryFallbacks(asked, primary)
           capped   == CapAttempts(cfg, all.attempts)
           resolved == Resolve(cfg, clients, raw, preferred, dns)
<1>1. CASE ref = None
  <2>1. resolved = [ok |-> FALSE, cache |-> clients, attempts |-> <<>>]
    BY <1>1, Zenon DEF Resolve, ResolveRef
  <2> QED BY <2>1
<1>2. CASE ref # None /\ ~primary.ok
  <2>1. resolved = [ok |-> FALSE, cache |-> primary.cache, attempts |-> <<>>]
    BY <1>2, Zenon DEF Resolve, ResolveRef, WithFallbacks
  <2>2. SoundCache(primary.cache, past)
    <3> HIDE DEF ref
    <3> QED BY ProviderResolved
  <2> HIDE DEF primary
  <2> QED BY <2>1, <2>2
<1>3. CASE ref # None /\ primary.ok
  <2>1. resolved = [ok |-> TRUE, cache |-> all.cache, attempts |-> capped]
    BY <1>3, Zenon DEF Resolve, ResolveRef, WithFallbacks
  <2>2. SoundCache(primary.cache, past) /\ AttemptsOfOne(cfg, 0, primary.attempts)
    <3> HIDE DEF ref
    <3> QED BY <1>3, ProviderResolved
  <2> HIDE DEF primary
  <2>3. ChainOf(cfg, 0, primary.attempts)
    <3> DEFINE found == primary.attempts
    <3>1. AttemptsOfOne(cfg, 0, found) BY <2>2
    <3> HIDE DEF found
    <3>2. Len(found) \in Nat /\ DOMAIN found = 1 .. Len(found)
      BY <3>1, ListElements DEF AttemptsOfOne
    <3>3. ChainOf(cfg, 0, found) BY <3>1, <3>2 DEF ChainOf, AttemptsOfOne
    <3> QED BY <3>3 DEF found
  <2>4. PICK n \in Nat : n = Len(refs) /\ DOMAIN refs = 1 .. n
    <3>1. IsList(refs)
      <4> HIDE DEF ref
      <4> QED BY FallbackRefsAreList
    <3> HIDE DEF refs
    <3> QED BY <3>1, ListElements
  <2> HIDE DEF refs
  <2>5. SoundCache(all.cache, past) /\ ChainOf(cfg, n, all.attempts)
    <3> DEFINE y == [asked |-> asked, past |-> past]
    <3>1. /\ y.asked = asked /\ y.past = past
          /\ asked.cfg = cfg /\ asked.refs = refs /\ asked.dns = dns
      OBVIOUS
    <3> HIDE DEF y, asked
    <3>2. Collected(y, 0, primary) BY <2>2, <2>3, <3>1 DEF Collected
    <3>3. Collected(y, n, TryFallbacks(y.asked, primary)) BY <2>4, <3>1, <3>2, CollectedAll
    <3> QED BY <3>1, <3>3 DEF Collected
  <2> HIDE DEF all
  <2>6. /\ IsList(capped) /\ Len(capped) >= 1 /\ SoundChain(cfg, capped)
        /\ \A i \in DOMAIN capped : MadeFor(cfg, capped[i])
    BY <2>5, CappedChain
  <2>7. resolved.cache = all.cache /\ resolved.attempts = capped
    <3> HIDE DEF capped, resolved
    <3> QED BY <2>1
  <2> HIDE DEF resolved, capped
  <2> QED BY <2>5, <2>6, <2>7 DEF resolved
<1> QED BY <1>1, <1>2, <1>3


-----------------------------------------------------------------------------
(* The invariant of the routes.  Of one request: where it is says what it   *)
(* was answered and how far it is in its chain, and the chain is the one    *)
(* resolve() gave it.                                                       *)

RowAnswers == {"reply", "stream", "ended", "error_frame", "left", "lost"}

IsRequest(q) ==
  /\ q = [at |-> q.at, ask |-> q.ask, plan |-> q.plan, retry |-> q.retry, pos |-> q.pos,
          failed |-> q.failed, under |-> q.under, answer |-> q.answer, chunks |-> q.chunks]
  /\ q.answer = [kind |-> q.answer.kind, status |-> q.answer.status]

PlanSound(q) ==
  /\ IsList(q.plan)
  /\ q.under # None => q.plan # <<>>
  /\ q.plan # <<>> => Len(q.plan) >= 1 /\ SoundChain(q.under, q.plan)
  /\ \A i \in DOMAIN q.plan : MadeFor(q.under, q.plan[i])

(* Failed attempts are those before the current one, until an error ends    *)
(* the chain.                                                               *)
PlaceSound(q) ==
  /\ q.pos \in Nat /\ IsList(q.failed)
  /\ q.at # "done" => /\ q.pos = Len(q.failed) + 1
                      /\ \A i \in DOMAIN q.failed : q.failed[i] \in q.retry
  /\ q.at \in {"new", "admitted"} => q.pos = 1 /\ q.failed = <<>>
  /\ q.at \in {"calling", "opened", "streaming"} => q.pos \in DOMAIN q.plan

AnswerSound(q) ==
  /\ q.at \in {"new", "admitted", "calling"} => q.answer.kind = None
  /\ q.at \in {"opened", "streaming"} => q.answer.kind = "stream" /\ q.answer.status = 200
  /\ q.at \notin {"streaming", "done"} => q.chunks = 0
  /\ q.answer.kind = "upstream_error" =>
       LET n == Len(q.failed)
       IN  /\ n = q.pos /\ n \in DOMAIN q.plan /\ q.failed[n] = q.answer.status
           /\ \A i \in 1 .. n - 1 : q.failed[i] \in q.retry
           /\ n = Len(q.plan) \/ q.failed[n] \notin q.retry

RequestSound(q) ==
  /\ IsRequest(q)
  /\ q.at \in Places /\ q.answer.kind \in Answers \cup {None} /\ q.chunks \in 0 .. MaxChunks
  /\ PlanSound(q) /\ PlaceSound(q) /\ AnswerSound(q)

RowSound(u, q) ==
  /\ q.at \in {"streaming", "done"} /\ q.ask.route # "messages" /\ q.answer.kind \in RowAnswers
  /\ u.attempts = q.pos
  /\ u.source = q.plan[q.pos].source /\ u.provider = q.plan[q.pos].provider
  /\ u.model = q.plan[q.pos].model
  /\ \/ u.profile = q.plan[q.pos].profile
     \/ /\ q.plan[q.pos].profile = None /\ u.attempts > 1
        /\ u.profile = q.plan[1].profile

ProcessSound ==
  /\ config \in Configs /\ seen \subseteq Configs /\ config \in seen
  /\ events \in 0 .. MaxEvents
  /\ cache = [m \in Managers |-> cache[m]]
  /\ \A m \in Managers : SoundCache(cache[m], seen)
RequestsSound ==
  /\ req = [r \in Requests |-> req[r]]
  /\ \A r \in Requests : RequestSound(req[r])
UsageSound ==
  /\ \A u \in usage : u.request \in Requests /\ RowSound(u, req[u.request])
  /\ \A u, v \in usage : u.request = v.request => u = v

IInv == ProcessSound /\ RequestsSound /\ UsageSound

(* What a step of a request may do: move it to another sound state, without *)
(* taking back what was sent, and account for it once.                      *)
ReplyKept(q, new) ==
  q.answer.kind # None =>
    /\ new.pos = q.pos /\ new.failed = q.failed /\ new.chunks >= q.chunks
    /\ new.answer.status \in {q.answer.status, None}
    /\ q.at = "done" => new = q

Moves(r, new) ==
  /\ req' = [req EXCEPT ![r] = new]
  /\ RequestSound(new) /\ ReplyKept(req[r], new)
  /\ \/ usage' = usage /\ \A u : RowSound(u, req[r]) => RowSound(u, new)
     \/ /\ req[r].at \notin {"streaming", "done"}
        /\ usage' = usage \cup {UsageRow(r)} /\ RowSound(UsageRow(r), new)

LEMMA MovesKeeps ==
  ASSUME RequestsSound, UsageSound, NEW r \in Requests, NEW new, Moves(r, new)
  PROVE  /\ RequestsSound' /\ UsageSound'
         /\ \A s \in Requests : ReplyKept(req[s], req'[s])
<1>1. /\ req' = [s \in Requests |-> req'[s]] /\ req'[r] = new
      /\ \A s \in Requests : s # r => req'[s] = req[s]
  BY DEF RequestsSound, Moves
<1>2. RequestsSound' BY <1>1 DEF RequestsSound, Moves
<1>3. \A s \in Requests : ReplyKept(req[s], req'[s])
  <2> TAKE s \in Requests
  <2>1. CASE s = r BY <1>1, <2>1 DEF Moves
  <2>2. CASE s # r
    <3>1. req'[s] = req[s] /\ req[s].chunks \in 0 .. MaxChunks
      BY <1>1, <2>2 DEF RequestsSound, RequestSound
    <3> QED BY <3>1 DEF ReplyKept
  <2> QED BY <2>1, <2>2
<1>4. UsageSound'
  <2>1. CASE usage' = usage /\ \A u : RowSound(u, req[r]) => RowSound(u, new)
    BY <1>1, <2>1 DEF UsageSound
  <2>2. CASE /\ req[r].at \notin {"streaming", "done"}
             /\ usage' = usage \cup {UsageRow(r)} /\ RowSound(UsageRow(r), new)
    <3>1. \A u \in usage : u.request # r BY <2>2 DEF UsageSound, RowSound
    <3>2. UsageRow(r).request = r BY DEF UsageRow
    <3> HIDE DEF UsageRow
    <3>3. ASSUME NEW u \in usage' PROVE u.request \in Requests /\ RowSound(u, req'[u.request])
      <4>1. CASE u \in usage BY <1>1, <3>1, <4>1 DEF UsageSound
      <4>2. CASE u = UsageRow(r) BY <1>1, <2>2, <3>2, <4>2
      <4> QED BY <2>2, <4>1, <4>2
    <3>4. \A u, v \in usage' : u.request = v.request => u = v
      BY <2>2, <3>1, <3>2 DEF UsageSound
    <3> QED BY <3>3, <3>4 DEF UsageSound
  <2> QED BY <2>1, <2>2 DEF Moves
<1> QED BY <1>2, <1>3, <1>4

(* Every step names all it gives its request.                               *)
Record(at, ask, plan, retry, pos, failed, under, answer, chunks) ==
  [at |-> at, ask |-> ask, plan |-> plan, retry |-> retry, pos |-> pos, failed |-> failed,
   under |-> under, answer |-> answer, chunks |-> chunks]

LEMMA RecordFields ==
  ASSUME NEW at, NEW ask, NEW plan, NEW retry, NEW pos, NEW failed, NEW under, NEW kind,
         NEW status, NEW chunks, NEW q,
         q = Record(at, ask, plan, retry, pos, failed, under,
                    [kind |-> kind, status |-> status], chunks)
  PROVE  /\ q.at = at /\ q.ask = ask /\ q.plan = plan /\ q.retry = retry /\ q.pos = pos
         /\ q.failed = failed /\ q.under = under /\ q.chunks = chunks
         /\ q.answer.kind = kind /\ q.answer.status = status /\ IsRequest(q)
BY DEF Record, IsRequest

LEMMA RequestFields ==
  ASSUME NEW q, RequestSound(q)
  PROVE  q = Record(q.at, q.ask, q.plan, q.retry, q.pos, q.failed, q.under,
                    [kind |-> q.answer.kind, status |-> q.answer.status], q.chunks)
BY DEF RequestSound, IsRequest, Record

(* A request that ends.                                                     *)
Finished(q, kind, status) ==
  Record("done", q.ask, q.plan, q.retry, q.pos, q.failed, q.under,
         [kind |-> kind, status |-> status], q.chunks)

LEMMA FinishIs ==
  ASSUME RequestsSound, NEW r \in Requests, NEW kind, NEW status, Finish(r, kind, status)
  PROVE  req' = [req EXCEPT ![r] = Finished(req[r], kind, status)]
<1> DEFINE q      == req[r]
           answer == [kind |-> kind, status |-> status]
           before == [kind |-> q.answer.kind, status |-> q.answer.status]
           p      == [q EXCEPT !.at = "done"]
           new    == [p EXCEPT !.answer = answer]
<1>1. RequestSound(q) BY DEF RequestsSound
<1>2. req' = [req EXCEPT ![r] = new]
  <2>1. req' = [req EXCEPT ![r].at = "done", ![r].answer = answer] BY DEF Finish
  <2> HIDE DEF answer
  <2> QED BY <2>1 DEF RequestsSound
<1>3. q = Record(q.at, q.ask, q.plan, q.retry, q.pos, q.failed, q.under, before, q.chunks)
  BY <1>1, RequestFields
<1> HIDE DEF q, answer, before
<1>4. p = Record("done", q.ask, q.plan, q.retry, q.pos, q.failed, q.under, before, q.chunks)
  BY <1>3 DEF Record
<1> HIDE DEF p
<1>5. new = Record("done", q.ask, q.plan, q.retry, q.pos, q.failed, q.under, answer, q.chunks)
  BY <1>4 DEF Record
<1> HIDE DEF new
<1> QED BY <1>2, <1>5 DEF Finished, q, answer

LEMMA FinishedSound ==
  ASSUME ServingAssumption, NEW q, RequestSound(q), q.at # "done",
         NEW kind \in Answers, kind # "upstream_error",
         NEW status, q.answer.kind # None => status \in {q.answer.status, None}
  PROVE  RequestSound(Finished(q, kind, status)) /\ ReplyKept(q, Finished(q, kind, status))
<1> DEFINE new == Finished(q, kind, status)
<1>1. /\ new.at = "done" /\ new.ask = q.ask /\ new.plan = q.plan /\ new.retry = q.retry
      /\ new.pos = q.pos /\ new.failed = q.failed /\ new.under = q.under
      /\ new.chunks = q.chunks /\ new.answer.kind = kind /\ new.answer.status = status
      /\ IsRequest(new)
  BY RecordFields DEF Finished
<1> HIDE DEF new
<1>2. PlanSound(new) BY <1>1 DEF RequestSound, PlanSound
<1>3. PlaceSound(new) BY <1>1 DEF RequestSound, PlaceSound
<1>4. AnswerSound(new) BY <1>1 DEF AnswerSound
<1>5. new.at \in Places /\ new.answer.kind \in Answers \cup {None} /\ new.chunks \in 0 .. MaxChunks
  BY <1>1 DEF RequestSound, Places
<1>6. ReplyKept(q, new) BY <1>1, <1>5 DEF ReplyKept
<1> QED BY <1>1, <1>2, <1>3, <1>4, <1>5, <1>6 DEF new, RequestSound

LEMMA NoRowYet ==
  ASSUME NEW q, q.at \notin {"streaming", "done"} PROVE \A u : ~RowSound(u, q)
BY DEF RowSound

(* The rows of a request that ends without one more.                        *)
LEMMA RowsOfFinished ==
  ASSUME NEW q, NEW kind, NEW status,
         q.at = "streaming" => kind \in RowAnswers \/ q.ask.route = "messages", q.at # "done"
  PROVE  \A u : RowSound(u, q) => RowSound(u, Finished(q, kind, status))
<1>1. /\ Finished(q, kind, status).at = "done" /\ Finished(q, kind, status).ask = q.ask
      /\ Finished(q, kind, status).plan = q.plan /\ Finished(q, kind, status).pos = q.pos
      /\ Finished(q, kind, status).answer.kind = kind
  BY RecordFields DEF Finished
<1> QED BY <1>1 DEF RowSound

LEMMA FinishMoves ==
  ASSUME ServingAssumption, RequestsSound, NEW r \in Requests, req[r].at # "done",
         NEW kind \in Answers, kind # "upstream_error", NEW status, Finish(r, kind, status),
         req[r].answer.kind # None => status \in {req[r].answer.status, None},
         req[r].at = "streaming" => kind \in RowAnswers \/ req[r].ask.route = "messages",
         UNCHANGED usage
  PROVE  \E new : Moves(r, new)
<1>1. RequestSound(req[r]) BY DEF RequestsSound
<1>2. Moves(r, Finished(req[r], kind, status))
  BY <1>1, FinishIs, FinishedSound, RowsOfFinished DEF Moves
<1> QED BY <1>2


LEMMA ArriveMoves ==
  ASSUME ServingAssumption, RequestsSound, NEW r \in Requests, Arrive(r)
  PROVE  \E new : Moves(r, new)
<1> DEFINE q      == req[r]
           before == [kind |-> q.answer.kind, status |-> q.answer.status]
<1>1. RequestSound(q) /\ q.at = "new" BY DEF RequestsSound, Arrive
<1>2. q = Record(q.at, q.ask, q.plan, q.retry, q.pos, q.failed, q.under, before, q.chunks)
  BY <1>1, RequestFields
<1>3. PICK ask : \/ \E status : req' = [req EXCEPT ![r] = Denied(q, ask, status)]
                 \/ req' = [req EXCEPT ![r] = [q EXCEPT !.ask = ask, !.at = "admitted"]]
  <2>1. PICK ask \in Asks :
          req' = [req EXCEPT ![r] =
            IF Verify(ask) = Unauthorized THEN Denied(q, ask, 401)
            ELSE IF ~HasScope(Verify(ask), "write") THEN Denied(q, ask, 403)
            ELSE [q EXCEPT !.ask = ask, !.at = "admitted"]]
    BY Zenon DEF Arrive
  <2> HIDE DEF q
  <2>2. CASE Verify(ask) = Unauthorized
    <3>1. req' = [req EXCEPT ![r] = Denied(q, ask, 401)] BY <2>1, <2>2, Zenon
    <3> QED BY <3>1, ZenonT(30)
  <2>3. CASE Verify(ask) # Unauthorized /\ ~HasScope(Verify(ask), "write")
    <3>1. req' = [req EXCEPT ![r] = Denied(q, ask, 403)] BY <2>1, <2>3, Zenon
    <3> QED BY <3>1, Zenon
  <2>4. CASE Verify(ask) # Unauthorized /\ HasScope(Verify(ask), "write")
    <3>1. req' = [req EXCEPT ![r] = [q EXCEPT !.ask = ask, !.at = "admitted"]]
      BY <2>1, <2>4, Zenon
    <3> QED BY <3>1
  <2> QED BY <2>2, <2>3, <2>4
<1>4. UNCHANGED usage BY DEF Arrive
<1>5. q.answer.kind # "upstream_error"
  BY <1>1 DEF RequestSound, AnswerSound, ServingAssumption, Answers
<1>6. CASE \E status : req' = [req EXCEPT ![r] = Denied(q, ask, status)]
  <2>1. PICK status : req' = [req EXCEPT ![r] = Denied(q, ask, status)] BY <1>6
  <2> DEFINE answer == [kind |-> "denied", status |-> status]
             p1  == [q EXCEPT !.ask = ask]
             p2  == [p1 EXCEPT !.at = "done"]
             new == [p2 EXCEPT !.answer = answer]
  <2>2. Denied(q, ask, status) = new BY Zenon DEF Denied
  <2> HIDE DEF q, before, answer
  <2>3. p1 = Record(q.at, ask, q.plan, q.retry, q.pos, q.failed, q.under, before, q.chunks)
    BY <1>2 DEF Record
  <2> HIDE DEF p1
  <2>4. p2 = Record("done", ask, q.plan, q.retry, q.pos, q.failed, q.under, before, q.chunks)
    BY <2>3 DEF Record
  <2> HIDE DEF p2
  <2>5. new = Record("done", ask, q.plan, q.retry, q.pos, q.failed, q.under, answer, q.chunks)
    BY <2>4 DEF Record
  <2> HIDE DEF new
  <2>6. /\ new.at = "done" /\ new.ask = ask /\ new.plan = q.plan /\ new.retry = q.retry
        /\ new.pos = q.pos /\ new.failed = q.failed /\ new.under = q.under
        /\ new.chunks = q.chunks /\ new.answer.kind = "denied" /\ IsRequest(new)
    BY <2>5, RecordFields DEF answer
  <2>7. RequestSound(new)
    BY <1>1, <2>6
    DEF RequestSound, PlanSound, PlaceSound, AnswerSound, Places, Answers
  <2>8. ReplyKept(q, new) BY <1>1 DEF RequestSound, AnswerSound, ReplyKept
  <2>9. Moves(r, new) BY <1>1, <1>4, <2>1, <2>2, <2>7, <2>8, NoRowYet DEF Moves, q
  <2> QED BY <2>9
<1>7. CASE req' = [req EXCEPT ![r] = [q EXCEPT !.ask = ask, !.at = "admitted"]]
  <2> DEFINE p   == [q EXCEPT !.ask = ask]
             new == [p EXCEPT !.at = "admitted"]
  <2>1. req' = [req EXCEPT ![r] = new] BY <1>7
  <2> HIDE DEF q, before
  <2>2. p = Record(q.at, ask, q.plan, q.retry, q.pos, q.failed, q.under, before, q.chunks)
    BY <1>2 DEF Record
  <2> HIDE DEF p
  <2>3. new = Record("admitted", ask, q.plan, q.retry, q.pos, q.failed, q.under, before, q.chunks)
    BY <2>2 DEF Record
  <2> HIDE DEF new
  <2>4. /\ new.at = "admitted" /\ new.ask = ask /\ new.plan = q.plan /\ new.retry = q.retry
        /\ new.pos = q.pos /\ new.failed = q.failed /\ new.under = q.under
        /\ new.chunks = q.chunks /\ new.answer.kind = q.answer.kind /\ IsRequest(new)
    BY <2>3, RecordFields DEF before
  <2>5. RequestSound(new)
    BY <1>1, <1>5, <2>4 DEF RequestSound, PlanSound, PlaceSound, AnswerSound, Places
  <2>6. ReplyKept(q, new) BY <1>1 DEF RequestSound, AnswerSound, ReplyKept
  <2>7. Moves(r, new) BY <1>1, <1>4, <2>1, <2>5, <2>6, NoRowYet DEF Moves, q
  <2> QED BY <2>7
<1> QED BY <1>3, <1>6, <1>7

LEMMA OpenTranslatedMoves ==
  ASSUME ServingAssumption, RequestsSound, NEW r \in Requests, OpenTranslated(r)
  PROVE  \E new : Moves(r, new)
<1> DEFINE q      == req[r]
           before == [kind |-> q.answer.kind, status |-> q.answer.status]
           answer == [kind |-> "stream", status |-> 200]
           p      == [q EXCEPT !.at = "opened"]
           new    == [p EXCEPT !.answer = answer]
<1>1. RequestSound(q) /\ q.at = "calling" BY DEF RequestsSound, OpenTranslated
<1>2. UNCHANGED usage BY DEF OpenTranslated
<1>3. req' = [req EXCEPT ![r] = new]
  <2>1. req' = [req EXCEPT ![r].at = "opened", ![r].answer = answer] BY DEF OpenTranslated
  <2> HIDE DEF answer
  <2> QED BY <2>1 DEF RequestsSound
<1>4. q = Record(q.at, q.ask, q.plan, q.retry, q.pos, q.failed, q.under, before, q.chunks)
  BY <1>1, RequestFields
<1> HIDE DEF q, answer, before
<1>5. p = Record("opened", q.ask, q.plan, q.retry, q.pos, q.failed, q.under, before, q.chunks)
  BY <1>4 DEF Record
<1> HIDE DEF p
<1>6. new = Record("opened", q.ask, q.plan, q.retry, q.pos, q.failed, q.under, answer, q.chunks)
  BY <1>5 DEF Record
<1> HIDE DEF new
<1>7. /\ new.at = "opened" /\ new.ask = q.ask /\ new.plan = q.plan /\ new.retry = q.retry
      /\ new.pos = q.pos /\ new.failed = q.failed /\ new.under = q.under
      /\ new.chunks = q.chunks /\ new.answer.kind = "stream" /\ new.answer.status = 200
      /\ IsRequest(new)
  BY <1>6, RecordFields DEF answer
<1>8. RequestSound(new)
  BY <1>1, <1>7 DEF RequestSound, PlanSound, PlaceSound, AnswerSound, Places, Answers
<1>9. ReplyKept(q, new) BY <1>1 DEF RequestSound, AnswerSound, ReplyKept
<1>10. Moves(r, new) BY <1>1, <1>2, <1>3, <1>8, <1>9, NoRowYet DEF Moves, q
<1> QED BY <1>10

(* The attempt that answered is the one the row names.                      *)
LEMMA RowNamesAttempt ==
  ASSUME NEW r \in Requests, RequestSound(req[r]), req[r].at \in {"calling", "opened"},
         req[r].ask.route # "messages",
         NEW new, new.at \in {"streaming", "done"}, new.ask = req[r].ask,
         new.plan = req[r].plan, new.pos = req[r].pos, new.answer.kind \in RowAnswers
  PROVE  RowSound(UsageRow(r), new)
<1>1. req[r].pos = Len(req[r].failed) + 1 BY DEF RequestSound, PlaceSound
<1>2. /\ UsageRow(r).attempts = Len(req[r].failed) + 1
      /\ UsageRow(r).source = req[r].plan[req[r].pos].source
      /\ UsageRow(r).provider = req[r].plan[req[r].pos].provider
      /\ UsageRow(r).model = req[r].plan[req[r].pos].model
      /\ UsageRow(r).profile = Or(req[r].plan[req[r].pos].profile, req[r].plan[1].profile)
  BY DEF UsageRow, ProfileToldOf, Attempt
<1>3. \/ UsageRow(r).profile = req[r].plan[req[r].pos].profile
      \/ /\ req[r].plan[req[r].pos].profile = None
         /\ UsageRow(r).profile = req[r].plan[1].profile /\ req[r].pos # 1
  BY <1>2 DEF Or
<1>4. req[r].pos # 1 => req[r].pos > 1
  <2>1. Len(req[r].failed) \in Nat BY DEF RequestSound, IsRequest, PlaceSound
  <2> QED BY <1>1, <2>1
<1> QED BY <1>1, <1>2, <1>3, <1>4 DEF RowSound

LEMMA AnsweredMoves ==
  ASSUME ServingAssumption, RequestsSound, NEW r \in Requests,
         req[r].at \in {"calling", "opened"}, NEW kind \in Answers, kind \in RowAnswers,
         Finish(r, kind, 200), RecordUsage(r)
  PROVE  \E new : Moves(r, new)
<1> DEFINE q == req[r]
           new == Finished(q, kind, 200)
<1>1. RequestSound(q) BY DEF RequestsSound
<1>2. req' = [req EXCEPT ![r] = new] BY FinishIs
<1>3. q.answer.kind # None => 200 \in {q.answer.status, None}
  BY <1>1 DEF RequestSound, AnswerSound
<1>4. kind # "upstream_error" BY DEF RowAnswers
<1>5. RequestSound(new) /\ ReplyKept(q, new) BY <1>1, <1>3, <1>4, FinishedSound
<1>6. CASE UNCHANGED usage
  <2>1. Moves(r, new) BY <1>2, <1>5, <1>6, NoRowYet DEF Moves
  <2> QED BY <2>1
<1>7. CASE q.ask.route # "messages" /\ usage' = usage \cup {UsageRow(r)}
  <2>1. /\ new.at = "done" /\ new.ask = q.ask /\ new.plan = q.plan /\ new.pos = q.pos
        /\ new.answer.kind = kind
    BY RecordFields DEF Finished
  <2> HIDE DEF new
  <2>2. RowSound(UsageRow(r), new) BY <1>1, <1>7, <2>1, RowNamesAttempt
  <2>3. Moves(r, new) BY <1>2, <1>5, <1>7, <2>2 DEF Moves
  <2> QED BY <2>3
<1> QED BY <1>6, <1>7 DEF RecordUsage, Is, Ask

LEMMA UpstreamAnswersMoves ==
  ASSUME ServingAssumption, RequestsSound, NEW r \in Requests, UpstreamAnswers(r)
  PROVE  \E new : Moves(r, new)
<1>1. req[r].at \in {"calling", "opened"} /\ Finish(r, "reply", 200) /\ RecordUsage(r)
  BY DEF UpstreamAnswers, Callable
<1> QED BY <1>1, AnsweredMoves DEF Answers, RowAnswers

LEMMA EmptyStreamMoves ==
  ASSUME ServingAssumption, RequestsSound, NEW r \in Requests, EmptyStream(r)
  PROVE  \E new : Moves(r, new)
<1>1. req[r].at \in {"calling", "opened"} /\ Finish(r, "ended", 200) /\ RecordUsage(r)
  BY DEF EmptyStream, Callable
<1> QED BY <1>1, AnsweredMoves DEF Answers, RowAnswers

LEMMA FirstChunkMoves ==
  ASSUME ServingAssumption, RequestsSound, NEW r \in Requests, FirstChunk(r)
  PROVE  \E new : Moves(r, new)
<1> DEFINE q      == req[r]
           before == [kind |-> q.answer.kind, status |-> q.answer.status]
           answer == [kind |-> "stream", status |-> 200]
           p1     == [q EXCEPT !.at = "streaming"]
           p2     == [p1 EXCEPT !.chunks = 1]
           new    == [p2 EXCEPT !.answer = answer]
<1>1. RequestSound(q) /\ q.at \in {"calling", "opened"}
  BY DEF RequestsSound, FirstChunk, Callable
<1>2. RecordUsage(r) BY DEF FirstChunk
<1>3. req' = [req EXCEPT ![r] = new]
  <2>1. req' = [req EXCEPT ![r].at = "streaming", ![r].chunks = 1, ![r].answer = answer]
    BY DEF FirstChunk
  <2> HIDE DEF answer
  <2> QED BY <2>1 DEF RequestsSound
<1>4. q = Record(q.at, q.ask, q.plan, q.retry, q.pos, q.failed, q.under, before, q.chunks)
  BY <1>1, RequestFields
<1> HIDE DEF q, answer, before
<1>5. p1 = Record("streaming", q.ask, q.plan, q.retry, q.pos, q.failed, q.under, before, q.chunks)
  BY <1>4 DEF Record
<1> HIDE DEF p1
<1>6. p2 = Record("streaming", q.ask, q.plan, q.retry, q.pos, q.failed, q.under, before, 1)
  BY <1>5 DEF Record
<1> HIDE DEF p2
<1>7. new = Record("streaming", q.ask, q.plan, q.retry, q.pos, q.failed, q.under, answer, 1)
  BY <1>6 DEF Record
<1> HIDE DEF new
<1>8. /\ new.at = "streaming" /\ new.ask = q.ask /\ new.plan = q.plan /\ new.retry = q.retry
      /\ new.pos = q.pos /\ new.failed = q.failed /\ new.under = q.under
      /\ new.chunks = 1 /\ new.answer.kind = "stream" /\ new.answer.status = 200
      /\ IsRequest(new)
  BY <1>7, RecordFields DEF answer
<1>9. RequestSound(new)
  <2>1. new.chunks \in 0 .. MaxChunks BY <1>8 DEF ServingAssumption
  <2> QED BY <1>1, <1>8, <2>1
          DEF RequestSound, PlanSound, PlaceSound, AnswerSound, Places, Answers
<1>10. ReplyKept(q, new) BY <1>1, <1>8 DEF RequestSound, AnswerSound, ReplyKept
<1>11. CASE UNCHANGED usage
  <2>1. Moves(r, new) BY <1>1, <1>3, <1>9, <1>10, <1>11, NoRowYet DEF Moves, q
  <2> QED BY <2>1
<1>12. CASE q.ask.route # "messages" /\ usage' = usage \cup {UsageRow(r)}
  <2>1. RowSound(UsageRow(r), new) BY <1>1, <1>8, <1>12, RowNamesAttempt DEF q, RowAnswers
  <2>2. Moves(r, new) BY <1>1, <1>3, <1>9, <1>10, <1>12, <2>1 DEF Moves, q
  <2> QED BY <2>2
<1> QED BY <1>2, <1>11, <1>12 DEF RecordUsage, Is, Ask, q

LEMMA UpstreamBreaksMoves ==
  ASSUME ServingAssumption, RequestsSound, NEW r \in Requests, UpstreamBreaks(r)
  PROVE  \E new : Moves(r, new)
<1>1. RequestSound(req[r]) /\ req[r].at \in {"calling", "opened"} /\ UNCHANGED usage
  BY DEF RequestsSound, UpstreamBreaks, Callable
<1>2. CASE req[r].at = "opened" /\ Finish(r, "aborted", 200)
  <2>1. req[r].answer.status = 200 BY <1>1, <1>2 DEF RequestSound, AnswerSound
  <2> QED BY <1>1, <1>2, <2>1, FinishMoves DEF Answers
<1>3. CASE /\ req[r].at = "calling"
           /\ \/ Finish(r, "not_supported", 400) \/ Finish(r, "provider_error", 500)
  <2>1. req[r].answer.kind = None BY <1>1, <1>3 DEF RequestSound, AnswerSound
  <2> QED BY <1>1, <1>3, <2>1, FinishMoves DEF Answers
<1> QED BY <1>1, <1>2, <1>3 DEF UpstreamBreaks

LEMMA StreamEndsMoves ==
  ASSUME ServingAssumption, RequestsSound, NEW r \in Requests,
         StreamEnds(r) \/ StreamBreaks(r) \/ ClientLeaves(r)
  PROVE  \E new : Moves(r, new)
<1>1. /\ RequestSound(req[r]) /\ req[r].at \in {"opened", "streaming"} /\ UNCHANGED usage
  BY DEF RequestsSound, StreamEnds, StreamBreaks, ClientLeaves
<1>2. PICK kind \in Answers : /\ Finish(r, kind, 200) /\ kind # "upstream_error"
                              /\ kind \in RowAnswers \/ req[r].ask.route = "messages"
  <2>1. CASE StreamEnds(r) BY <2>1 DEF StreamEnds, Answers, RowAnswers
  <2>2. CASE ClientLeaves(r) BY <2>2 DEF ClientLeaves, Answers, RowAnswers
  <2>3. CASE StreamBreaks(r)
    <3>1. Finish(r, IF Is(r, "messages") THEN "aborted" ELSE "error_frame", 200)
      BY <2>3 DEF StreamBreaks
    <3>2. CASE Is(r, "messages") BY <3>1, <3>2 DEF Is, Ask, Answers
    <3>3. CASE ~Is(r, "messages") BY <3>1, <3>3 DEF Answers, RowAnswers
    <3> QED BY <3>2, <3>3
  <2> QED BY <2>1, <2>2, <2>3
<1>3. req[r].answer.status = 200 BY <1>1 DEF RequestSound, AnswerSound
<1> QED BY <1>1, <1>2, <1>3, FinishMoves

LEMMA NextChunkMoves ==
  ASSUME ServingAssumption, RequestsSound, NEW r \in Requests, NextChunk(r)
  PROVE  \E new : Moves(r, new)
<1> DEFINE q      == req[r]
           answer == [kind |-> q.answer.kind, status |-> q.answer.status]
           new    == [q EXCEPT !.chunks = q.chunks + 1]
<1>1. RequestSound(q) /\ q.at = "streaming" /\ q.chunks < MaxChunks
  BY DEF RequestsSound, NextChunk
<1>2. UNCHANGED usage BY DEF NextChunk
<1>3. req' = [req EXCEPT ![r] = new] BY DEF NextChunk, RequestsSound
<1>4. q = Record(q.at, q.ask, q.plan, q.retry, q.pos, q.failed, q.under, answer, q.chunks)
  BY <1>1, RequestFields
<1> HIDE DEF q, answer
<1>5. new = Record(q.at, q.ask, q.plan, q.retry, q.pos, q.failed, q.under, answer, q.chunks + 1)
  BY <1>4 DEF Record
<1> HIDE DEF new
<1>6. /\ new.at = q.at /\ new.ask = q.ask /\ new.plan = q.plan /\ new.retry = q.retry
      /\ new.pos = q.pos /\ new.failed = q.failed /\ new.under = q.under
      /\ new.chunks = q.chunks + 1 /\ new.answer.kind = q.answer.kind
      /\ new.answer.status = q.answer.status /\ IsRequest(new)
  BY <1>5, RecordFields DEF answer
<1>7. RequestSound(new)
  <2>1. new.chunks \in 0 .. MaxChunks BY <1>1, <1>6 DEF ServingAssumption, RequestSound
  <2> QED BY <1>1, <1>6, <2>1 DEF RequestSound, PlanSound, PlaceSound, AnswerSound
<1>8. ReplyKept(q, new) BY <1>1, <1>6 DEF RequestSound, ReplyKept
<1>9. \A u : RowSound(u, q) => RowSound(u, new) BY <1>6 DEF RowSound
<1>10. Moves(r, new) BY <1>2, <1>3, <1>7, <1>8, <1>9 DEF Moves, q
<1> QED BY <1>10

LEMMA UpstreamStatusMoves ==
  ASSUME ServingAssumption, RequestsSound, NEW r \in Requests, UpstreamStatus(r)
  PROVE  \E new : Moves(r, new)
<1> DEFINE q      == req[r]
           before == [kind |-> q.answer.kind, status |-> q.answer.status]
<1>1. RequestSound(q) /\ q.at \in {"calling", "opened"} /\ UNCHANGED usage
  BY DEF RequestsSound, UpstreamStatus, Callable
<1>2. q = Record(q.at, q.ask, q.plan, q.retry, q.pos, q.failed, q.under, before, q.chunks)
  BY <1>1, RequestFields
<1>3. PICK s : IF req[r].at = "opened" THEN Finish(r, "aborted", 200)
               ELSE IF MovesOn(r, s)
               THEN req' = [req EXCEPT ![r].failed = Append(@, s), ![r].pos = @ + 1]
               ELSE req' = [req EXCEPT ![r].failed = Append(@, s), ![r].at = "done",
                                       ![r].answer = [kind |-> "upstream_error", status |-> s]]
  BY DEF UpstreamStatus
<1>4. CASE q.at = "opened"
  <2>1. q.answer.status = 200 BY <1>1, <1>4 DEF RequestSound, AnswerSound
  <2> QED BY <1>1, <1>3, <1>4, <2>1, FinishMoves DEF Answers
<1> DEFINE failed == Append(q.failed, s)
           p1     == [q EXCEPT !.failed = failed]
<1>5. p1 = Record(q.at, q.ask, q.plan, q.retry, q.pos, failed, q.under, before, q.chunks)
  <2> HIDE DEF q, before, failed
  <2> QED BY <1>2 DEF Record
<1>6. ASSUME q.at = "calling"
      PROVE  /\ q.answer.kind = None /\ q.chunks = 0 /\ q.pos \in DOMAIN q.plan
             /\ IsList(failed) /\ Len(failed) = q.pos /\ failed[q.pos] = s
             /\ \A i \in 1 .. q.pos - 1 : failed[i] \in q.retry
             /\ DOMAIN failed = 1 .. q.pos /\ q.pos \in Nat
             /\ DOMAIN q.plan = 1 .. Len(q.plan) /\ Len(q.plan) \in Nat
  <2>1. /\ IsList(q.failed) /\ q.pos = Len(q.failed) + 1 /\ q.pos \in DOMAIN q.plan
        /\ q.pos \in Nat /\ \A i \in DOMAIN q.failed : q.failed[i] \in q.retry
        /\ q.answer.kind = None /\ q.chunks = 0 /\ IsList(q.plan)
    BY <1>1, <1>6 DEF RequestSound, PlaceSound, AnswerSound, PlanSound
  <2> HIDE DEF q
  <2>2. Len(q.failed) \in Nat /\ DOMAIN q.failed = 1 .. Len(q.failed) BY <2>1, ListElements
  <2>3. /\ IsList(failed) /\ Len(failed) = Len(q.failed) + 1
        /\ \A i \in 1 .. Len(q.failed) : failed[i] = q.failed[i]
        /\ failed[Len(q.failed) + 1] = s
    BY <2>1, AppendIsList
  <2>4. DOMAIN failed = 1 .. q.pos
    <3> HIDE DEF failed
    <3> QED BY <2>1, <2>3, ListElements
  <2>5. 1 .. q.pos - 1 = 1 .. Len(q.failed) BY <2>1, <2>2
  <2>6. DOMAIN q.plan = 1 .. Len(q.plan) /\ Len(q.plan) \in Nat BY <2>1, ListElements
  <2> HIDE DEF failed
  <2> QED BY <2>1, <2>2, <2>3, <2>4, <2>5, <2>6
<1>7. CASE q.at # "opened" /\ MovesOn(r, s)
  <2> DEFINE new == [p1 EXCEPT !.pos = q.pos + 1]
  <2>1. req' = [req EXCEPT ![r] = new]
    <3>1. req' = [req EXCEPT ![r].failed = Append(@, s), ![r].pos = @ + 1] BY <1>3, <1>7, Zenon
    <3> QED BY <3>1 DEF RequestsSound
  <2>2. s \in q.retry /\ q.pos < Len(q.plan) BY <1>7 DEF MovesOn
  <2> HIDE DEF q, before, failed, p1
  <2>3. new = Record(q.at, q.ask, q.plan, q.retry, q.pos + 1, failed, q.under, before, q.chunks)
    BY <1>5 DEF Record
  <2> HIDE DEF new
  <2>4. /\ new.at = q.at /\ new.ask = q.ask /\ new.plan = q.plan /\ new.retry = q.retry
        /\ new.pos = q.pos + 1 /\ new.failed = failed /\ new.under = q.under
        /\ new.chunks = q.chunks /\ new.answer.kind = q.answer.kind
        /\ new.answer.status = q.answer.status /\ IsRequest(new)
    BY <2>3, RecordFields DEF before
  <2>5. q.at = "calling" BY <1>1, <1>7
  <2>6. PlaceSound(new)
    <3>1. \A i \in 1 .. q.pos : i = q.pos \/ i \in 1 .. q.pos - 1 BY <1>6, <2>5
    <3>2. \A i \in DOMAIN failed : failed[i] \in q.retry BY <1>6, <2>2, <2>5, <3>1
    <3>3. q.pos + 1 \in DOMAIN q.plan BY <1>6, <2>2, <2>5
    <3> QED BY <1>6, <2>4, <2>5, <3>2, <3>3 DEF PlaceSound
  <2>7. RequestSound(new)
    <3>1. q.answer.kind # "upstream_error" BY <1>6, <2>5 DEF ServingAssumption, Answers
    <3> QED BY <1>1, <2>4, <2>5, <2>6, <3>1 DEF RequestSound, PlanSound, AnswerSound
  <2>8. ReplyKept(q, new) BY <1>6, <2>5 DEF ReplyKept
  <2>9. Moves(r, new) BY <1>1, <2>1, <2>7, <2>8, NoRowYet DEF Moves, q
  <2> QED BY <2>9
<1>8. CASE q.at # "opened" /\ ~MovesOn(r, s)
  <2> DEFINE answer == [kind |-> "upstream_error", status |-> s]
             p2  == [p1 EXCEPT !.at = "done"]
             new == [p2 EXCEPT !.answer = answer]
  <2>1. req' = [req EXCEPT ![r] = new]
    <3>1. req' = [req EXCEPT ![r].failed = Append(@, s), ![r].at = "done", ![r].answer = answer]
      BY <1>3, <1>8, Zenon
    <3> HIDE DEF answer
    <3> QED BY <3>1 DEF RequestsSound
  <2>2. s \notin q.retry \/ ~(q.pos < Len(q.plan)) BY <1>8 DEF MovesOn
  <2> HIDE DEF q, before, failed, p1, answer
  <2>3. p2 = Record("done", q.ask, q.plan, q.retry, q.pos, failed, q.under, before, q.chunks)
    BY <1>5 DEF Record
  <2> HIDE DEF p2
  <2>4. new = Record("done", q.ask, q.plan, q.retry, q.pos, failed, q.under, answer, q.chunks)
    BY <2>3 DEF Record
  <2> HIDE DEF new
  <2>5. /\ new.at = "done" /\ new.ask = q.ask /\ new.plan = q.plan /\ new.retry = q.retry
        /\ new.pos = q.pos /\ new.failed = failed /\ new.under = q.under
        /\ new.chunks = q.chunks /\ new.answer.kind = "upstream_error"
        /\ new.answer.status = s /\ IsRequest(new)
    BY <2>4, RecordFields DEF answer
  <2>6. q.at = "calling" BY <1>1, <1>8
  <2>7. q.pos = Len(q.plan) \/ s \notin q.retry BY <1>6, <2>2, <2>6
  <2>8. AnswerSound(new) BY <1>6, <2>5, <2>6, <2>7 DEF AnswerSound
  <2>9. PlaceSound(new) BY <1>6, <2>5, <2>6 DEF PlaceSound
  <2>10. RequestSound(new)
    BY <1>1, <2>5, <2>8, <2>9 DEF RequestSound, PlanSound, Places, Answers
  <2>11. ReplyKept(q, new) BY <1>6, <2>6 DEF ReplyKept
  <2>12. Moves(r, new) BY <1>1, <2>1, <2>10, <2>11, NoRowYet DEF Moves, q
  <2> QED BY <2>12
<1> QED BY <1>4, <1>7, <1>8

(* The first of a chain, alone, is what the messages route goes by.         *)
LEMMA HeadOfChain ==
  ASSUME NEW cfg, NEW attempts, IsList(attempts), Len(attempts) >= 1,
         SoundChain(cfg, attempts), \A i \in DOMAIN attempts : MadeFor(cfg, attempts[i])
  PROVE  LET plan == <<Head(attempts)>>
         IN  /\ IsList(plan) /\ Len(plan) >= 1 /\ SoundChain(cfg, plan)
             /\ \A i \in DOMAIN plan : MadeFor(cfg, plan[i])
<1> DEFINE first == attempts[1]
           plan  == <<first>>
<1>1. Len(attempts) \in Nat /\ DOMAIN attempts = 1 .. Len(attempts) BY ListElements
<1>2. Head(attempts) = first
  <2>1. PICK S : attempts \in Seq(S) BY DEF IsList
  <2> QED BY <1>1, <2>1
<1>3. first.index = 0 /\ MadeFor(cfg, first) BY <1>1 DEF SoundChain
<1> HIDE DEF first
<1>4. IsList(plan) /\ Len(plan) = 1 /\ plan[1] = first BY SingletonIsList
<1>5. DOMAIN plan = 1 .. 1
  <2> HIDE DEF plan
  <2> QED BY <1>4, ListElements
<1> HIDE DEF plan
<1>6. SoundChain(cfg, plan) BY <1>3, <1>4, <1>5 DEF SoundChain
<1>7. \A i \in DOMAIN plan : MadeFor(cfg, plan[i]) BY <1>3, <1>4, <1>5
<1> QED BY <1>2, <1>4, <1>6, <1>7 DEF plan

LEMMA ResolveModelMoves ==
  ASSUME ServingAssumption, ProcessSound, RequestsSound, NEW r \in Requests, ResolveModel(r)
  PROVE  ProcessSound' /\ \E new : Moves(r, new)
<1> DEFINE q == req[r]
           before == [kind |-> q.answer.kind, status |-> q.answer.status]
<1>1. RequestSound(q) /\ q.at = "admitted" BY DEF RequestsSound, ResolveModel
<1>2. UNCHANGED <<config, seen, usage, events>> BY DEF ResolveModel
<1>3. PICK dns \in Resolvers, manager \in {ManagerOf(Ask(r))} :
        \E resolved \in {Resolve(config, cache[manager], Ask(r).ref, Ask(r).profile, dns)} :
          LET attempts == resolved.attempts
          IN  /\ cache' = [cache EXCEPT ![manager] = resolved.cache]
              /\ IF ~resolved.ok THEN Finish(r, "unresolved", None)
                 ELSE req' = [req EXCEPT
                        ![r].at    = "calling",
                        ![r].under = config,
                        ![r].plan  = IF Is(r, "messages") THEN <<Head(attempts)>> ELSE attempts,
                        ![r].retry = IF Is(r, "messages") THEN {} ELSE RetryStatusCodes(config)]
  BY DEF ResolveModel
<1> DEFINE resolved == Resolve(config, cache[manager], Ask(r).ref, Ask(r).profile, dns)
           plan     == IF Is(r, "messages") THEN <<Head(resolved.attempts)>> ELSE resolved.attempts
           retry    == IF Is(r, "messages") THEN {} ELSE RetryStatusCodes(config)
<1>4. /\ cache' = [cache EXCEPT ![manager] = resolved.cache]
      /\ ~resolved.ok => Finish(r, "unresolved", None)
      /\ resolved.ok => req' = [req EXCEPT ![r].at = "calling", ![r].under = config,
                                           ![r].plan = plan, ![r].retry = retry]
  BY <1>3, Zenon
<1>5. manager \in Managers BY <1>3 DEF ManagerOf, Managers
<1>6. /\ SoundCache(resolved.cache, seen)
      /\ resolved.ok => /\ IsList(resolved.attempts) /\ Len(resolved.attempts) >= 1
                        /\ SoundChain(config, resolved.attempts)
                        /\ \A i \in DOMAIN resolved.attempts : MadeFor(config, resolved.attempts[i])
  <2>1. config \in seen /\ WellFormed(config) /\ SoundCache(cache[manager], seen)
    BY <1>5 DEF ProcessSound, ServingAssumption
  <2> QED BY <2>1, ResolveSound
<1> HIDE DEF resolved
<1>7. ProcessSound'
  <2>1. cache' = [m \in Managers |-> cache'[m]] BY <1>4 DEF ProcessSound
  <2>2. \A m \in Managers : SoundCache(cache'[m], seen') BY <1>2, <1>4, <1>6 DEF ProcessSound
  <2> QED BY <1>2, <2>1, <2>2 DEF ProcessSound
<1>8. q.answer.kind = None BY <1>1 DEF RequestSound, AnswerSound
<1>9. CASE ~resolved.ok
  <2>1. \E new : Moves(r, new) BY <1>1, <1>2, <1>4, <1>8, <1>9, FinishMoves DEF Answers
  <2> QED BY <1>7, <2>1
<1>10. CASE resolved.ok
  <2>1. /\ IsList(plan) /\ Len(plan) >= 1 /\ SoundChain(config, plan)
        /\ \A i \in DOMAIN plan : MadeFor(config, plan[i])
    <3>1. CASE Is(r, "messages")
      <4> DEFINE attempts == resolved.attempts
      <4>1. /\ IsList(attempts) /\ Len(attempts) >= 1 /\ SoundChain(config, attempts)
            /\ \A i \in DOMAIN attempts : MadeFor(config, attempts[i])
        BY <1>6, <1>10
      <4>2. plan = <<Head(attempts)>> BY <3>1
      <4> HIDE DEF plan, attempts
      <4> QED BY <4>1, <4>2, HeadOfChain
    <3>2. CASE ~Is(r, "messages") BY <1>6, <1>10, <3>2
    <3> QED BY <3>1, <3>2
  <2> HIDE DEF plan, retry
  <2> DEFINE p1  == [q EXCEPT !.at = "calling"]
             p2  == [p1 EXCEPT !.under = config]
             p3  == [p2 EXCEPT !.plan = plan]
             new == [p3 EXCEPT !.retry = retry]
  <2>2. req' = [req EXCEPT ![r] = new]
    <3>1. req' = [req EXCEPT ![r].at = "calling", ![r].under = config,
                             ![r].plan = plan, ![r].retry = retry]
      BY <1>4, <1>10
    <3> QED BY <3>1 DEF RequestsSound
  <2>3. q = Record(q.at, q.ask, q.plan, q.retry, q.pos, q.failed, q.under, before, q.chunks)
    BY <1>1, RequestFields
  <2> HIDE DEF q, before
  <2>4. p1 = Record("calling", q.ask, q.plan, q.retry, q.pos, q.failed, q.under, before, q.chunks)
    BY <2>3 DEF Record
  <2> HIDE DEF p1
  <2>5. p2 = Record("calling", q.ask, q.plan, q.retry, q.pos, q.failed, config, before, q.chunks)
    BY <2>4 DEF Record
  <2> HIDE DEF p2
  <2>6. p3 = Record("calling", q.ask, plan, q.retry, q.pos, q.failed, config, before, q.chunks)
    BY <2>5 DEF Record
  <2> HIDE DEF p3
  <2>7. new = Record("calling", q.ask, plan, retry, q.pos, q.failed, config, before, q.chunks)
    BY <2>6 DEF Record
  <2> HIDE DEF new
  <2>8. /\ new.at = "calling" /\ new.ask = q.ask /\ new.plan = plan /\ new.retry = retry
        /\ new.pos = q.pos /\ new.failed = q.failed /\ new.under = config
        /\ new.chunks = q.chunks /\ new.answer.kind = q.answer.kind
        /\ new.answer.status = q.answer.status /\ IsRequest(new)
    BY <2>7, RecordFields DEF before
  <2>9. PlanSound(new)
    <3>1. plan # <<>> BY <2>1, EmptyIsList
    <3> QED BY <2>1, <2>8, <3>1 DEF PlanSound
  <2>10. PlaceSound(new)
    <3>1. 1 \in DOMAIN plan BY <2>1, ListElements
    <3>2. q.pos = 1 /\ q.failed = <<>> BY <1>1 DEF RequestSound, PlaceSound
    <3>3. DOMAIN q.failed = {} BY <3>2
    <3>4. IsList(q.failed) /\ Len(q.failed) = 0 BY <3>2, EmptyIsList
    <3> QED BY <2>8, <3>1, <3>2, <3>3, <3>4 DEF PlaceSound
  <2>11. AnswerSound(new)
    <3>1. q.answer.kind # "upstream_error" BY <1>8 DEF ServingAssumption, Answers
    <3> QED BY <1>1, <1>8, <2>8, <3>1 DEF RequestSound, AnswerSound
  <2>12. RequestSound(new) BY <1>1, <2>8, <2>9, <2>10, <2>11 DEF RequestSound, Places
  <2>13. ReplyKept(q, new) BY <1>8 DEF ReplyKept
  <2>14. Moves(r, new) BY <1>1, <1>2, <2>2, <2>12, <2>13, NoRowYet DEF Moves, q
  <2> QED BY <1>7, <2>14
<1> QED BY <1>9, <1>10

-----------------------------------------------------------------------------
(* The invariant is inductive.                                              *)

LEMMA InitSound == ASSUME ServingAssumption, Init PROVE IInv
<1>1. ProcessSound
  <2>1. \A m \in Managers : DOMAIN cache[m] = {} BY DEF Init
  <2> QED BY <2>1 DEF Init, ProcessSound, SoundCache, ServingAssumption
<1>2. RequestSound(Fresh)
  <2> DEFINE q == Fresh
  <2>1. q = Record("new", None, <<>>, {}, 1, <<>>, None, [kind |-> None, status |-> None], 0)
    BY DEF Fresh, NoAnswer, Record
  <2> HIDE DEF q
  <2>2. /\ q.at = "new" /\ q.plan = <<>> /\ q.pos = 1 /\ q.failed = <<>> /\ q.under = None
        /\ q.chunks = 0 /\ q.answer.kind = None /\ IsRequest(q)
    BY <2>1, RecordFields
  <2>3. DOMAIN q.plan = {} /\ DOMAIN q.failed = {} BY <2>2
  <2>4. None # "upstream_error" /\ MaxChunks \in Nat BY DEF ServingAssumption, Answers
  <2> QED BY <2>2, <2>3, <2>4, EmptyIsList
          DEF q, RequestSound, PlanSound, PlaceSound, AnswerSound, Places
<1>3. RequestsSound BY <1>2 DEF Init, RequestsSound
<1>4. UsageSound BY DEF Init, UsageSound
<1> QED BY <1>1, <1>3, <1>4 DEF IInv

LEMMA ReconfigureKeeps ==
  ASSUME ServingAssumption, IInv, NEW c \in Configs, Reconfigure(c)
  PROVE  IInv' /\ req' = req
<1>1. /\ config' = c /\ seen' = seen \cup {c} /\ events' = events + 1 /\ events < MaxEvents
      /\ cache' = cache /\ req' = req /\ usage' = usage
  BY DEF Reconfigure
<1>2. ASSUME NEW m \in Managers PROVE SoundCache(cache[m], seen')
  <2>1. SoundCache(cache[m], seen) BY DEF IInv, ProcessSound
  <2> HIDE DEF IInv
  <2>2. ASSUME NEW key \in DOMAIN cache[m] PROVE SoundClient(key, cache[m][key], seen')
    <3>1. SoundClient(key, cache[m][key], seen) BY <2>1 DEF SoundCache
    <3>2. seen \subseteq seen' BY <1>1
    <3> QED BY <3>1, <3>2 DEF SoundClient
  <2> QED BY <2>2 DEF SoundCache
<1>3. ProcessSound'
  <2>1. events' \in 0 .. MaxEvents BY <1>1 DEF IInv, ProcessSound, ServingAssumption
  <2> QED BY <1>1, <1>2, <2>1 DEF IInv, ProcessSound
<1>4. RequestsSound' /\ UsageSound' BY <1>1 DEF IInv, RequestsSound, UsageSound
<1> QED BY <1>1, <1>3, <1>4 DEF IInv

LEMMA RestartKeeps ==
  ASSUME ServingAssumption, IInv, Restart
  PROVE  IInv' /\ \A r \in Requests : ReplyKept(req[r], req'[r])
<1>1. /\ config' = config /\ seen' = {config} /\ events' = events + 1 /\ events < MaxEvents
      /\ cache' = [m \in Managers |-> <<>>] /\ usage' = usage
  BY DEF Restart
<1>2. ProcessSound'
  <2>1. events' \in 0 .. MaxEvents BY <1>1 DEF IInv, ProcessSound, ServingAssumption
  <2>2. \A m \in Managers : DOMAIN cache'[m] = {} BY <1>1
  <2> QED BY <1>1, <2>1, <2>2 DEF IInv, ProcessSound, SoundCache
<1>3. ASSUME NEW r \in Requests
      PROVE  /\ RequestSound(req'[r]) /\ ReplyKept(req[r], req'[r])
             /\ \A u : RowSound(u, req[r]) => RowSound(u, req'[r])
  <2> DEFINE q      == req[r]
             before == [kind |-> q.answer.kind, status |-> q.answer.status]
             answer == [kind |-> "lost", status |-> None]
             p      == [q EXCEPT !.at = "done"]
             new    == [p EXCEPT !.answer = answer]
  <2>1. RequestSound(q) BY DEF IInv, RequestsSound
  <2>2. CASE q.at \in {"new", "done"}
    <3>1. req'[r] = q BY <2>2 DEF Restart
    <3>2. q.chunks \in 0 .. MaxChunks BY <2>1 DEF RequestSound
    <3> QED BY <2>1, <3>1, <3>2 DEF ReplyKept
  <2>3. CASE q.at \notin {"new", "done"}
    <3>1. req'[r] = new
      <4>1. req'[r] = [req[r] EXCEPT !.at = "done", !.answer = answer] BY <2>3 DEF Restart
      <4> HIDE DEF answer
      <4> QED BY <4>1
    <3>2. q = Record(q.at, q.ask, q.plan, q.retry, q.pos, q.failed, q.under, before, q.chunks)
      BY <2>1, RequestFields
    <3> HIDE DEF q, before, answer
    <3>3. p = Record("done", q.ask, q.plan, q.retry, q.pos, q.failed, q.under, before, q.chunks)
      BY <3>2 DEF Record
    <3> HIDE DEF p
    <3>4. new = Record("done", q.ask, q.plan, q.retry, q.pos, q.failed, q.under, answer, q.chunks)
      BY <3>3 DEF Record
    <3>5. new = Finished(q, "lost", None)
      <4> HIDE DEF new
      <4> QED BY <3>4 DEF Finished, answer
    <3> HIDE DEF new
    <3>6. RequestSound(new) /\ ReplyKept(q, new)
      BY <2>1, <2>3, <3>5, FinishedSound DEF Answers
    <3>7. \A u : RowSound(u, q) => RowSound(u, new)
      BY <2>3, <3>5, RowsOfFinished DEF RowAnswers
    <3> QED BY <3>1, <3>6, <3>7 DEF q
  <2> QED BY <2>2, <2>3
<1>4. RequestsSound'
  <2>1. req' = [r \in Requests |-> req'[r]] BY DEF Restart
  <2> QED BY <1>3, <2>1 DEF RequestsSound
<1>5. UsageSound' BY <1>1, <1>3 DEF IInv, UsageSound
<1> QED BY <1>2, <1>3, <1>4, <1>5 DEF IInv

LEMMA StepKeeps ==
  ASSUME ServingAssumption, IInv, [Next]_vars
  PROVE  IInv' /\ \A r \in Requests : ReplyKept(req[r], req'[r])
<1>1. ProcessSound /\ RequestsSound /\ UsageSound BY DEF IInv
<1>2. \A r \in Requests : ReplyKept(req[r], req[r])
  <2>1. \A r \in Requests : req[r].chunks \in 0 .. MaxChunks BY <1>1 DEF RequestsSound, RequestSound
  <2> QED BY <2>1 DEF ReplyKept
<1>3. ASSUME UNCHANGED <<config, seen, cache, events>> PROVE ProcessSound'
  BY <1>1, <1>3 DEF ProcessSound
<1>4. ASSUME NEW r \in Requests, ProcessSound', \E new : Moves(r, new)
      PROVE  IInv' /\ \A s \in Requests : ReplyKept(req[s], req'[s])
  BY <1>1, <1>4, MovesKeeps DEF IInv
<1>5. ASSUME NEW r \in Requests, Arrive(r) \/ OpenTranslated(r) \/ Call(r) \/ NextChunk(r)
                                 \/ StreamEnds(r) \/ StreamBreaks(r) \/ ClientLeaves(r)
      PROVE  IInv' /\ \A s \in Requests : ReplyKept(req[s], req'[s])
  <2>1. UNCHANGED <<config, seen, cache, events>>
    BY <1>5 DEF Arrive, OpenTranslated, Call, NextChunk, StreamEnds, StreamBreaks, ClientLeaves,
                UpstreamStatus, UpstreamBreaks, UpstreamAnswers, FirstChunk, EmptyStream
  <2>2. \E new : Moves(r, new)
    BY <1>1, <1>5, ArriveMoves, OpenTranslatedMoves, UpstreamStatusMoves, UpstreamBreaksMoves,
       UpstreamAnswersMoves, FirstChunkMoves, EmptyStreamMoves, NextChunkMoves, StreamEndsMoves
       DEF Call
  <2> QED BY <1>3, <1>4, <2>1, <2>2
<1>6. ASSUME NEW r \in Requests, ResolveModel(r)
      PROVE  IInv' /\ \A s \in Requests : ReplyKept(req[s], req'[s])
  BY <1>1, <1>4, <1>6, ResolveModelMoves
<1>7. ASSUME NEW c \in Configs, Reconfigure(c)
      PROVE  IInv' /\ \A s \in Requests : ReplyKept(req[s], req'[s])
  BY <1>2, <1>7, ReconfigureKeeps
<1>8. CASE Restart BY <1>8, RestartKeeps
<1>9. CASE UNCHANGED vars
  <2>1. UNCHANGED <<config, seen, cache, req, usage, events>> BY <1>9 DEF vars
  <2>2. ProcessSound' BY <1>3, <2>1
  <2>3. RequestsSound' /\ UsageSound' BY <1>1, <2>1 DEF RequestsSound, UsageSound
  <2> QED BY <1>2, <2>1, <2>2, <2>3 DEF IInv
<1> QED BY <1>5, <1>6, <1>7, <1>8, <1>9 DEF Next, Handle

-----------------------------------------------------------------------------
(* What the routes promise, for any requests, configurations and answers of *)
(* DNS and of the upstreams.                                                *)

(* The invariant holds in every reachable state of the routes.              *)
THEOREM Invariance == Spec => []IInv
<1> USE ServingAssumption
<1>1. Init => IInv BY InitSound
<1>2. IInv /\ [Next]_vars => IInv' BY StepKeeps
<1> QED BY <1>1, <1>2, PTL DEF Spec

(* Types, and an attempt to make for every request past its resolution.     *)
THEOREM ServingTypeCorrect == Spec => []TypeOK
<1>1. IInv => TypeOK
  BY DEF IInv, ProcessSound, RequestsSound, RequestSound, PlaceSound, TypeOK
<1> QED BY <1>1, Invariance, PTL

(* Every chain of attempts starts with what the request named, repeats       *)
(* nothing, keeps to the order and the length configured, and is followed   *)
(* to where it ends before the client is told of an error.                  *)
THEOREM ChainsSound == Spec => []ChainsAreSound
<1>1. ASSUME IInv PROVE ChainsAreSound
  <2>1. \A r \in Requests : RequestSound(req[r]) BY <1>1 DEF IInv, RequestsSound
  <2>2. ErrorsEndTheChain BY <2>1, Zenon DEF RequestSound, AnswerSound, ErrorsEndTheChain
  <2>3. \A r \in Requests : req[r].under # None => SoundChain(req[r].under, req[r].plan)
    BY <2>1 DEF RequestSound, PlanSound
  <2> QED BY <2>2, <2>3 DEF ChainsAreSound
<1> QED BY <1>1, Invariance, PTL

(* No client, cached or new, speaks for another credential, another url or  *)
(* a configuration that was never in force.                                 *)
THEOREM ClientsSound == Spec => []ClientsInForce
<1>1. ASSUME IInv PROVE ClientsInForce
  <2>1. CredentialsInForce
    BY <1>1 DEF IInv, RequestsSound, RequestSound, PlanSound, MadeFor, CredentialsInForce
  <2>2. BuiltFromOneConfiguration
    <3>1. \A m \in Managers : SoundCache(cache[m], seen) BY <1>1 DEF IInv, ProcessSound
    <3> QED BY <3>1, Zenon DEF SoundCache, SoundClient, BuiltFromOneConfiguration
  <2> QED BY <2>1, <2>2 DEF ClientsInForce
<1> QED BY <1>1, Invariance, PTL

(* A usage row names the attempt that answered and what failed before it;   *)
(* its profile is another's, the first one's, only when the attempt that    *)
(* answered has none and is not the first.                                  *)
THEOREM RowsSound == Spec => []UsageNamesWhoAnswered
<1>1. ASSUME IInv PROVE UsageNamesWhoAnswered
  BY <1>1 DEF IInv, UsageSound, RowSound, RowAnswers, Attempt, UsageNamesWhoAnswered
<1> QED BY <1>1, Invariance, PTL

(* What was sent of a reply is never taken back.                            *)
THEOREM FirstByteIsFinal == Spec => NothingAfterFirstByte
<1> USE ServingAssumption
<1>1. IInv /\ [Next]_vars =>
        [\A r \in Requests :
           req[r].answer.kind # None =>
             /\ req'[r].pos = req[r].pos /\ req'[r].failed = req[r].failed
             /\ req'[r].chunks >= req[r].chunks
             /\ req'[r].answer.status \in {req[r].answer.status, None}
             /\ req[r].at = "done" => req'[r] = req[r]]_vars
  BY StepKeeps DEF ReplyKept
<1> QED BY <1>1, Invariance, PTL DEF Spec, NothingAfterFirstByte

-----------------------------------------------------------------------------
(* Concatenation of lists, and the lists of a list one after the other.      *)

LEMMA ListsEqual ==
  ASSUME NEW s, NEW t, IsList(s), IsList(t), Len(s) = Len(t), \A i \in 1 .. Len(s) : s[i] = t[i]
  PROVE  s = t
<1>1. /\ s \in Seq({s[i] : i \in DOMAIN s}) /\ t \in Seq({t[i] : i \in DOMAIN t})
      /\ DOMAIN s = 1 .. Len(s) /\ DOMAIN t = 1 .. Len(t) /\ Len(s) \in Nat
  BY ListElements
<1>2. s = [i \in 1 .. Len(s) |-> s[i]] /\ t = [i \in 1 .. Len(t) |-> t[i]]
  BY <1>1, LenProperties
<1> QED BY <1>1, <1>2

(* The empty list adds nothing.                                             *)
LEMMA ConcatWithEmpty ==
  ASSUME NEW s, IsList(s) PROVE s \o <<>> = s /\ <<>> \o s = s
BY ConcatEmptySeq DEF IsList

(* Concatenation is associative.                                            *)
LEMMA ConcatOfConcat ==
  ASSUME NEW r, NEW s, NEW t, IsList(r), IsList(s), IsList(t)
  PROVE  (r \o s) \o t = r \o (s \o t)
<1>1. PICK R, S, T : r \in Seq(R) /\ s \in Seq(S) /\ t \in Seq(T) BY DEF IsList
<1>2. r \in Seq(R \cup S \cup T) /\ s \in Seq(R \cup S \cup T) /\ t \in Seq(R \cup S \cup T)
  BY <1>1, SeqMonotonic
<1> QED BY <1>2, ConcatAssociative

(* The lists of s up to the k-th.                                           *)
Flat(s, k) == FlattenSeq([i \in 1 .. k |-> s[i]])
Joined(a, b) == a \o b
JoinsTo(g, s, k) == g = [i \in 1 .. k |-> IF i = 1 THEN s[i] ELSE Joined(g[i - 1], s[i])]

(* For every length there is such a function.                               *)
LEMMA JoinsExist == ASSUME NEW s, NEW n \in Nat PROVE \E g : JoinsTo(g, s, n)
<1> DEFINE T == {k \in Nat : \E g : JoinsTo(g, s, k)}
<1>1. 0 \in T
  <2>1. JoinsTo([i \in 1 .. 0 |-> s[i]], s, 0) BY DEF JoinsTo
  <2> QED BY <2>1
<1>2. ASSUME NEW k \in T PROVE k + 1 \in T
  <2>1. PICK g : JoinsTo(g, s, k) OBVIOUS
  <2> DEFINE h == [i \in 1 .. k + 1 |-> IF i = 1 THEN s[i] ELSE Joined(g[i - 1], s[i])]
  <2>2. \A i \in 1 .. k : h[i] = g[i] BY <2>1 DEF JoinsTo
  <2>3. \A i \in 1 .. k + 1 : h[i] = IF i = 1 THEN s[i] ELSE Joined(h[i - 1], s[i])
    <3> TAKE i \in 1 .. k + 1
    <3>1. i = 1 \/ i - 1 \in 1 .. k OBVIOUS
    <3> QED BY <2>2, <3>1
  <2>4. JoinsTo(h, s, k + 1) BY <2>3 DEF JoinsTo
  <2>5. k + 1 \in Nat OBVIOUS
  <2> HIDE DEF h
  <2> QED BY <2>4, <2>5
<1>3. n \in T
  <2> HIDE DEF T
  <2>1. T \in SUBSET Nat BY DEF T
  <2> QED BY <2>1, <1>1, <1>2, Keeping!SetInduction
<1> QED BY <1>3

(* It has at a place the same value for every length that reaches the       *)
(* place.                                                                   *)
LEMMA JoinsAgree ==
  ASSUME NEW s, NEW m \in Nat, NEW n \in Nat, NEW g, NEW h, JoinsTo(g, s, m), JoinsTo(h, s, n)
  PROVE  \A k \in Nat : k \in 1 .. m /\ k \in 1 .. n => g[k] = h[k]
<1> DEFINE T == {k \in Nat : k \in 1 .. m /\ k \in 1 .. n => g[k] = h[k]}
<1>1. 0 \in T OBVIOUS
<1>2. ASSUME NEW k \in T PROVE k + 1 \in T
  <2> SUFFICES ASSUME k + 1 \in 1 .. m, k + 1 \in 1 .. n PROVE g[k + 1] = h[k + 1] OBVIOUS
  <2>1. CASE k = 0 BY <2>1 DEF JoinsTo
  <2>2. CASE k # 0
    <3>1. g[k] = h[k] BY <2>2
    <3>2. g[k + 1] = Joined(g[k], s[k + 1]) BY <2>2 DEF JoinsTo
    <3>3. h[k + 1] = Joined(h[k], s[k + 1]) BY <2>2 DEF JoinsTo
    <3> QED BY <3>1, <3>2, <3>3
  <2> QED BY <2>1, <2>2
<1>3. T = Nat
  <2> HIDE DEF T
  <2>1. T \in SUBSET Nat BY DEF T
  <2> QED BY <2>1, <1>1, <1>2, Keeping!SetInduction
<1> QED BY <1>3

(* Flattening is joining from the front.                                    *)
LEMMA FlatIsJoined ==
  ASSUME NEW s, NEW k \in Nat \ {0}, NEW g, JoinsTo(g, s, k)
  PROVE  Flat(s, k) = g[k]
<1> DEFINE p == [i \in 1 .. k |-> s[i]]
           Eq(h) == h = [i \in 1 .. k |-> IF i = 1 THEN p[i] ELSE Joined(h[i - 1], p[i])]
           h == CHOOSE f : Eq(f)
<1>1. Len(p) = k BY FunctionIsList
<1>2. \A f : Eq(f) <=> JoinsTo(f, s, k)
  <2> TAKE f
  <2>1. [i \in 1 .. k |-> IF i = 1 THEN p[i] ELSE Joined(f[i - 1], p[i])]
        = [i \in 1 .. k |-> IF i = 1 THEN s[i] ELSE Joined(f[i - 1], s[i])]
    OBVIOUS
  <2> QED BY <2>1 DEF JoinsTo
<1>3. Eq(h) BY <1>2
<1>4. JoinsTo(h, s, k) BY <1>2, <1>3
<1>5. FlattenSeq(p) = h[k]
  <2> HIDE DEF p
  <2> QED BY <1>1, Zenon DEF FlattenSeq, Joined
<1> HIDE DEF h
<1>6. h[k] = g[k] BY <1>4, JoinsAgree
<1> QED BY <1>5, <1>6 DEF Flat

(* The lists up to the k-th are those before it, and the k-th.              *)
LEMMA FlatNext ==
  ASSUME NEW s, NEW n \in Nat, \A i \in 1 .. n : IsList(s[i])
  PROVE  /\ Flat(s, 0) = <<>>
         /\ \A k \in 0 .. n : IsList(Flat(s, k))
         /\ \A k \in 1 .. n : Flat(s, k) = Flat(s, k - 1) \o s[k]
<1>1. Flat(s, 0) = <<>>
  <2> DEFINE p == [i \in 1 .. 0 |-> s[i]]
  <2>1. Len(p) = 0 BY FunctionIsList
  <2>2. p = <<>> OBVIOUS
  <2> HIDE DEF p
  <2>3. FlattenSeq(p) = <<>> BY <2>1, <2>2 DEF FlattenSeq
  <2> QED BY <2>3 DEF Flat, p
<1>2. ASSUME NEW k \in 0 .. n PROVE IsList(Flat(s, k))
  <2> DEFINE p == [i \in 1 .. k |-> s[i]]
  <2>1. IsList(p) /\ DOMAIN p = 1 .. k BY FunctionIsList
  <2>2. \A i \in DOMAIN p : IsList(p[i]) OBVIOUS
  <2> HIDE DEF p
  <2>3. IsList(FlattenSeq(p)) BY <2>1, <2>2, FlattenIsList
  <2> QED BY <2>3 DEF Flat, p
<1>3. ASSUME NEW k \in 1 .. n PROVE Flat(s, k) = Flat(s, k - 1) \o s[k]
  <2>1. PICK g : JoinsTo(g, s, k) BY JoinsExist
  <2>2. PICK h : JoinsTo(h, s, k - 1) BY JoinsExist
  <2>3. Flat(s, k) = g[k] BY <2>1, FlatIsJoined
  <2>4. CASE k = 1
    <3>1. g[k] = s[1] BY <2>1, <2>4 DEF JoinsTo
    <3>2. <<>> \o s[1] = s[1] BY <2>4, ConcatWithEmpty
    <3>3. Flat(s, k - 1) = <<>> BY <1>1, <2>4
    <3> QED BY <2>3, <2>4, <3>1, <3>2, <3>3
  <2>5. CASE k # 1
    <3>1. g[k] = Joined(g[k - 1], s[k]) BY <2>1, <2>5 DEF JoinsTo
    <3>2. k - 1 \in Nat \ {0} BY <2>5
    <3>3. h[k - 1] = g[k - 1] BY <2>1, <2>2, <3>2, JoinsAgree
    <3>4. Flat(s, k - 1) = h[k - 1] BY <2>2, <3>2, FlatIsJoined
    <3> QED BY <2>3, <3>1, <3>3, <3>4 DEF Joined
  <2> QED BY <2>4, <2>5
<1> QED BY <1>1, <1>2, <1>3

(* Flattening takes all the lists there are.                                *)
LEMMA FlattenIsFlat ==
  ASSUME NEW s, IsList(s)
  PROVE  FlattenSeq(s) = Flat(s, Len(s))
<1>1. /\ s \in Seq({s[i] : i \in DOMAIN s}) /\ DOMAIN s = 1 .. Len(s) /\ Len(s) \in Nat
  BY ListElements
<1>2. s = [i \in 1 .. Len(s) |-> s[i]] BY <1>1, LenProperties
<1>3. \A t : t = s => FlattenSeq(t) = FlattenSeq(s) OBVIOUS
<1> QED BY <1>2, <1>3 DEF Flat

(* Flat depends on the lists up to the k-th only.                           *)
LEMMA FlatOfSame ==
  ASSUME NEW s, NEW u, NEW m \in Nat, \A i \in 1 .. m : u[i] = s[i]
  PROVE  Flat(u, m) = Flat(s, m)
<1>1. [i \in 1 .. m |-> u[i]] = [i \in 1 .. m |-> s[i]] OBVIOUS
<1> QED BY <1>1, Zenon DEF Flat

(* Flattening goes along a list of lists that is the concatenation of two.  *)
LEMMA FlattenConcat ==
  ASSUME NEW s, NEW t, NEW u, IsList(s), IsList(t), IsList(u), Len(u) = Len(s) + Len(t),
         \A i \in 1 .. Len(s) : IsList(s[i]) /\ u[i] = s[i],
         \A i \in 1 .. Len(t) : IsList(t[i]) /\ u[Len(s) + i] = t[i]
  PROVE  FlattenSeq(u) = FlattenSeq(s) \o FlattenSeq(t)
<1>1. PICK m \in Nat, n \in Nat : m = Len(s) /\ n = Len(t) BY ListElements
<1>2. /\ \A i \in 1 .. m : IsList(s[i]) /\ u[i] = s[i]
      /\ \A i \in 1 .. n : IsList(t[i]) /\ u[m + i] = t[i]
  BY <1>1
<1> USE <1>2
<1>3. \A i \in 1 .. m + n : IsList(u[i])
  <2> TAKE i \in 1 .. m + n
  <2>1. CASE i \in 1 .. m BY <2>1
  <2>2. CASE i \notin 1 .. m
    <3>1. i - m \in 1 .. n /\ m + (i - m) = i BY <2>2
    <3> QED BY <3>1
  <2> QED BY <2>1, <2>2
<1>4. Flat(u, m) = Flat(s, m) BY FlatOfSame
<1>5. IsList(Flat(s, m))
  <2>1. \A i \in 1 .. m : IsList(s[i]) OBVIOUS
  <2>2. m \in 0 .. m OBVIOUS
  <2> QED BY ONLY <2>1, <2>2, m \in Nat, FlatNext
<1>6. /\ Flat(t, 0) = <<>> /\ \A k \in 0 .. n : IsList(Flat(t, k))
      /\ \A k \in 1 .. n : Flat(t, k) = Flat(t, k - 1) \o t[k]
  <2>1. \A i \in 1 .. n : IsList(t[i]) OBVIOUS
  <2> QED BY <2>1, FlatNext
<1>7. \A k \in 1 .. m + n : Flat(u, k) = Flat(u, k - 1) \o u[k]
  <2>1. m + n \in Nat OBVIOUS
  <2> QED BY <1>3, <2>1, FlatNext
<1> DEFINE T == {k \in Nat : k <= n => Flat(u, m + k) = Flat(s, m) \o Flat(t, k)}
<1>8. 0 \in T
  <2>1. Flat(s, m) \o <<>> = Flat(s, m) BY <1>5, ConcatWithEmpty
  <2>2. m + 0 = m OBVIOUS
  <2> QED BY <1>4, <1>6, <2>1, <2>2
<1>9. ASSUME NEW k \in T PROVE k + 1 \in T
  <2> SUFFICES ASSUME k + 1 <= n PROVE Flat(u, m + (k + 1)) = Flat(s, m) \o Flat(t, k + 1)
    OBVIOUS
  <2>1. k + 1 \in 1 .. n /\ k \in 0 .. n /\ m + (k + 1) \in 1 .. m + n
        /\ (m + (k + 1)) - 1 = m + k /\ (k + 1) - 1 = k
    OBVIOUS
  <2>2. Flat(u, m + (k + 1)) = Flat(u, (m + (k + 1)) - 1) \o u[m + (k + 1)]
    <3> HIDE DEF T
    <3> QED BY ONLY <1>7, <2>1
  <2>3. u[m + (k + 1)] = t[k + 1] /\ IsList(t[k + 1]) BY <2>1
  <2>4. Flat(u, m + k) = Flat(s, m) \o Flat(t, k) BY <2>1
  <2>5. Flat(t, k + 1) = Flat(t, (k + 1) - 1) \o t[k + 1] BY ONLY <1>6, <2>1
  <2>6. IsList(Flat(s, m)) /\ IsList(Flat(t, k)) BY <1>5, <1>6, <2>1
  <2>7. (Flat(s, m) \o Flat(t, k)) \o t[k + 1] = Flat(s, m) \o (Flat(t, k) \o t[k + 1])
    <3> DEFINE a == Flat(s, m)
               b == Flat(t, k)
               c == t[k + 1]
    <3>1. IsList(a) /\ IsList(b) /\ IsList(c) BY <2>3, <2>6
    <3> HIDE DEF a, b, c
    <3>2. (a \o b) \o c = a \o (b \o c) BY ONLY <3>1, ConcatOfConcat
    <3> QED BY <3>2 DEF a, b, c
  <2> QED BY ONLY <2>1, <2>2, <2>3, <2>4, <2>5, <2>7
<1>10. n \in T
  <2> HIDE DEF T
  <2>1. T \in SUBSET Nat BY DEF T
  <2> QED BY <2>1, <1>8, <1>9, Keeping!SetInduction
<1>11. FlattenSeq(s) = Flat(s, m) BY ONLY <1>1, IsList(s), FlattenIsFlat
<1>12. FlattenSeq(t) = Flat(t, n) BY ONLY <1>1, IsList(t), FlattenIsFlat
<1>13. FlattenSeq(u) = Flat(u, m + n)
  <2>1. Len(u) = m + n BY <1>1
  <2> QED BY ONLY <2>1, IsList(u), FlattenIsFlat
<1> QED BY <1>10, <1>11, <1>12, <1>13

(* Lists of one element each make the list of the elements.                 *)
LEMMA FlattenSingles ==
  ASSUME NEW s, IsList(s), NEW u, IsList(u), Len(u) = Len(s), \A i \in DOMAIN s : u[i] = <<s[i]>>
  PROVE  FlattenSeq(u) = s
<1>1. PICK n \in Nat : n = Len(s) /\ DOMAIN s = 1 .. n BY ListElements
<1>2. \A i \in 1 .. n : u[i] = <<s[i]>> BY <1>1
<1>3. FlattenSeq(u) = Flat(u, n) BY <1>1, FlattenIsFlat
<1>4. \A i \in 1 .. n : IsList(u[i]) BY <1>2, SingletonIsList
<1>5. /\ Flat(u, 0) = <<>> /\ \A k \in 0 .. n : IsList(Flat(u, k))
      /\ \A k \in 1 .. n : Flat(u, k) = Flat(u, k - 1) \o u[k]
  BY <1>4, FlatNext
<1> DEFINE T == {k \in Nat : k <= n =>
                   Len(Flat(u, k)) = k /\ \A i \in 1 .. k : Flat(u, k)[i] = s[i]}
<1>6. 0 \in T BY <1>5, EmptyIsList
<1>7. ASSUME NEW k \in T PROVE k + 1 \in T
  <2> SUFFICES ASSUME k + 1 <= n
               PROVE  /\ Len(Flat(u, k + 1)) = k + 1
                      /\ \A i \in 1 .. k + 1 : Flat(u, k + 1)[i] = s[i]
    OBVIOUS
  <2>1. k + 1 \in 1 .. n /\ k \in 0 .. n /\ (k + 1) - 1 = k OBVIOUS
  <2>2. PICK a, b : a = Flat(u, k) /\ b = s[k + 1] OBVIOUS
  <2>3. Flat(u, k + 1) = a \o <<b>> BY ONLY <1>2, <1>5, <2>1, <2>2
  <2>4. IsList(a) /\ Len(a) = k /\ \A i \in 1 .. k : a[i] = s[i] BY <1>5, <2>1, <2>2
  <2>5. /\ Len(a \o <<b>>) = k + 1 /\ \A i \in 1 .. k : (a \o <<b>>)[i] = s[i]
        /\ (a \o <<b>>)[k + 1] = b
    <3>1. IsList(<<b>>) /\ Len(<<b>>) = 1 /\ <<b>>[1] = b BY SingletonIsList
    <3>2. PICK c : c = <<b>> OBVIOUS
    <3>3. /\ Len(a \o c) = k + 1 /\ \A i \in 1 .. k : (a \o c)[i] = a[i]
          /\ (a \o c)[k + 1] = c[1]
      BY <2>4, <3>1, <3>2, ConcatIsList
    <3> QED BY <2>4, <3>1, <3>2, <3>3
  <2>6. \A i \in 1 .. k + 1 : i \in 1 .. k \/ i = k + 1 OBVIOUS
  <2> QED BY <2>2, <2>3, <2>5, <2>6
<1>8. n \in T
  <2> HIDE DEF T
  <2>1. T \in SUBSET Nat BY DEF T
  <2> QED BY <2>1, <1>6, <1>7, Keeping!SetInduction
<1>9. IsList(Flat(u, n)) /\ Len(Flat(u, n)) = n /\ \A i \in 1 .. n : Flat(u, n)[i] = s[i]
  BY <1>5, <1>8
<1> QED BY <1>1, <1>3, <1>9, ListsEqual

(* Empty lists make an empty list.                                          *)
LEMMA FlattenNothing ==
  ASSUME NEW u, IsList(u), \A i \in DOMAIN u : u[i] = <<>> PROVE FlattenSeq(u) = <<>>
<1>1. PICK n \in Nat : n = Len(u) /\ DOMAIN u = 1 .. n BY ListElements
<1>2. FlattenSeq(u) = Flat(u, n) BY <1>1, FlattenIsFlat
<1>3. /\ Flat(u, 0) = <<>> /\ \A k \in 1 .. n : Flat(u, k) = Flat(u, k - 1) \o u[k]
  BY <1>1, EmptyIsList, FlatNext
<1> DEFINE T == {k \in Nat : k <= n => Flat(u, k) = <<>>}
<1>4. 0 \in T BY <1>3
<1>5. ASSUME NEW k \in T PROVE k + 1 \in T
  <2> SUFFICES ASSUME k + 1 <= n PROVE Flat(u, k + 1) = <<>> OBVIOUS
  <2>1. k + 1 \in 1 .. n /\ (k + 1) - 1 = k /\ k <= n OBVIOUS
  <2>2. Flat(u, k + 1) = <<>> \o <<>> BY <1>1, <1>3, <2>1
  <2> QED BY <2>2, EmptyIsList, ConcatWithEmpty
<1>6. n \in T
  <2> HIDE DEF T
  <2>1. T \in SUBSET Nat BY DEF T
  <2> QED BY <2>1, <1>4, <1>5, Keeping!SetInduction
<1> QED BY <1>2, <1>6

(* What a list of lists holds is what its lists hold.                       *)
LEMMA FlattenElements ==
  ASSUME NEW s, IsList(s), \A i \in DOMAIN s : IsList(s[i])
  PROVE  /\ IsList(FlattenSeq(s))
         /\ \A i \in DOMAIN FlattenSeq(s) :
              \E j \in DOMAIN s : \E l \in DOMAIN s[j] : FlattenSeq(s)[i] = s[j][l]
         /\ \A j \in DOMAIN s : \A l \in DOMAIN s[j] :
              \E i \in DOMAIN FlattenSeq(s) : FlattenSeq(s)[i] = s[j][l]
<1>1. PICK n \in Nat : n = Len(s) /\ DOMAIN s = 1 .. n BY ListElements
<1>2. FlattenSeq(s) = Flat(s, n) BY <1>1, FlattenIsFlat
<1>3. \A i \in 1 .. n : IsList(s[i]) BY <1>1
<1>4. /\ Flat(s, 0) = <<>> /\ \A k \in 0 .. n : IsList(Flat(s, k))
      /\ \A k \in 1 .. n : Flat(s, k) = Flat(s, k - 1) \o s[k]
  BY <1>3, FlatNext
<1> DEFINE From(k) == \A i \in DOMAIN Flat(s, k) :
                        \E j \in 1 .. k : \E l \in DOMAIN s[j] : Flat(s, k)[i] = s[j][l]
           Into(k) == \A j \in 1 .. k : \A l \in DOMAIN s[j] :
                        \E i \in DOMAIN Flat(s, k) : Flat(s, k)[i] = s[j][l]
           T == {k \in Nat : k <= n => From(k) /\ Into(k)}
<1>5. 0 \in T
  <2>1. DOMAIN Flat(s, 0) = {} BY <1>4
  <2> QED BY <2>1
<1>6. ASSUME NEW k \in T PROVE k + 1 \in T
  <2> SUFFICES ASSUME k + 1 <= n PROVE From(k + 1) /\ Into(k + 1) OBVIOUS
  <2>1. k + 1 \in 1 .. n /\ k \in 0 .. n /\ (k + 1) - 1 = k OBVIOUS
  <2>2. From(k) /\ Into(k) BY <2>1
  <2>3. PICK a, b : a = Flat(s, k) /\ b = s[k + 1] OBVIOUS
  <2>4. Flat(s, k + 1) = a \o b BY ONLY <1>4, <2>1, <2>3
  <2>5. IsList(a) /\ IsList(b) BY <1>3, <1>4, <2>1, <2>3
  <2>6. /\ DOMAIN a = 1 .. Len(a) /\ DOMAIN b = 1 .. Len(b)
        /\ DOMAIN (a \o b) = 1 .. Len(a) + Len(b) /\ Len(a) \in Nat /\ Len(b) \in Nat
        /\ \A i \in 1 .. Len(a) : (a \o b)[i] = a[i]
        /\ \A i \in 1 .. Len(b) : (a \o b)[Len(a) + i] = b[i]
    <3>1. IsList(a \o b) /\ Len(a \o b) = Len(a) + Len(b) BY <2>5, ConcatIsList
    <3>2. DOMAIN (a \o b) = 1 .. Len(a) + Len(b) BY <3>1, ListElements
    <3> QED BY <2>5, <3>2, ConcatIsList, ListElements
  <2>7. From(k + 1)
    <3> SUFFICES ASSUME NEW i \in DOMAIN (a \o b)
                 PROVE  \E j \in 1 .. k + 1 : \E l \in DOMAIN s[j] : (a \o b)[i] = s[j][l]
      BY <2>4, SMTT(30)
    <3>1. CASE i \in DOMAIN a
      <4>1. PICK j \in 1 .. k : \E l \in DOMAIN s[j] : a[i] = s[j][l] BY <2>2, <2>3, <3>1
      <4>2. (a \o b)[i] = a[i] BY <2>6, <3>1
      <4>3. j \in 1 .. k + 1 OBVIOUS
      <4> QED BY <4>1, <4>2, <4>3
    <3>2. CASE i \notin DOMAIN a
      <4>1. i - Len(a) \in DOMAIN b /\ i = Len(a) + (i - Len(a)) BY <2>6, <3>2
      <4>2. (a \o b)[i] = s[k + 1][i - Len(a)] BY <2>3, <2>6, <4>1
      <4> QED BY <2>3, <4>1, <4>2
    <3> QED BY <3>1, <3>2
  <2>8. \A j \in 1 .. k + 1 : \A l \in DOMAIN s[j] :
          \E i \in DOMAIN (a \o b) : (a \o b)[i] = s[j][l]
    <3> TAKE j \in 1 .. k + 1
    <3> TAKE l \in DOMAIN s[j]
    <3>1. CASE j = k + 1
      <4>1. l \in 1 .. Len(b) BY <2>3, <2>6, <3>1
      <4>2. Len(a) + l \in DOMAIN (a \o b) /\ (a \o b)[Len(a) + l] = b[l] BY <2>6, <4>1
      <4> QED BY <2>3, <3>1, <4>2
    <3>2. CASE j # k + 1
      <4>1. j \in 1 .. k BY <3>2
      <4>2. PICK i \in DOMAIN a : a[i] = s[j][l] BY <2>2, <2>3, <4>1
      <4>3. i \in DOMAIN (a \o b) /\ (a \o b)[i] = a[i] BY <2>6
      <4> QED BY <4>2, <4>3
    <3> QED BY <3>1, <3>2
  <2>9. Into(k + 1)
    <3>1. PICK c : c = a \o b OBVIOUS
    <3>2. \A j \in 1 .. k + 1 : \A l \in DOMAIN s[j] : \E i \in DOMAIN c : c[i] = s[j][l]
      BY <2>8, <3>1
    <3>3. Flat(s, k + 1) = c BY <2>4, <3>1
    <3> HIDE DEF T
    <3> QED BY ONLY <3>2, <3>3
  <2> QED BY <2>7, <2>9
<1>7. n \in T
  <2> HIDE DEF T
  <2>1. T \in SUBSET Nat BY DEF T
  <2> QED BY <2>1, <1>5, <1>6, Keeping!SetInduction
<1>8. From(n) /\ Into(n) BY <1>7
<1> HIDE DEF T
<1> QED BY <1>1, <1>2, <1>4, <1>8

-----------------------------------------------------------------------------
(* The blocks of some kinds.                                                *)

KindLists(blocks, kinds) ==
  [i \in DOMAIN blocks |-> IF blocks[i].kind \in kinds THEN <<blocks[i]>> ELSE <<>>]

(* The list that OfKind flattens.                                           *)
LEMMA KindListsAreLists ==
  ASSUME NEW blocks, IsList(blocks), NEW kinds
  PROVE  /\ IsList(KindLists(blocks, kinds)) /\ Len(KindLists(blocks, kinds)) = Len(blocks)
         /\ DOMAIN KindLists(blocks, kinds) = DOMAIN blocks
         /\ \A i \in DOMAIN blocks :
              /\ IsList(KindLists(blocks, kinds)[i])
              /\ KindLists(blocks, kinds)[i]
                   = IF blocks[i].kind \in kinds THEN <<blocks[i]>> ELSE <<>>
         /\ OfKind(blocks, kinds) = FlattenSeq(KindLists(blocks, kinds))
<1> DEFINE f == KindLists(blocks, kinds)
<1>1. PICK n \in Nat : n = Len(blocks) /\ DOMAIN blocks = 1 .. n BY ListElements
<1>2. /\ DOMAIN f = 1 .. n
      /\ \A i \in 1 .. n : f[i] = IF blocks[i].kind \in kinds THEN <<blocks[i]>> ELSE <<>>
  BY <1>1 DEF KindLists
<1>3. f = [i \in 1 .. n |-> f[i]] BY <1>1 DEF KindLists
<1>4. IsList(f) /\ Len(f) = n
  <2> HIDE DEF f
  <2> QED BY <1>3, FunctionIsList
<1>5. \A i \in 1 .. n : IsList(f[i]) BY <1>2, EmptyIsList, SingletonIsList
<1>6. OfKind(blocks, kinds) = FlattenSeq(f) BY DEF OfKind, KindLists
<1> HIDE DEF f
<1> QED BY <1>1, <1>2, <1>4, <1>5, <1>6 DEF f

(* OfKind has the blocks of the kinds, and no other.                        *)
LEMMA OfKindElements ==
  ASSUME NEW blocks, IsList(blocks), NEW kinds
  PROVE  /\ IsList(OfKind(blocks, kinds))
         /\ \A i \in DOMAIN OfKind(blocks, kinds) : \E j \in DOMAIN blocks :
              OfKind(blocks, kinds)[i] = blocks[j] /\ blocks[j].kind \in kinds
         /\ \A j \in DOMAIN blocks : blocks[j].kind \in kinds =>
              \E i \in DOMAIN OfKind(blocks, kinds) : OfKind(blocks, kinds)[i] = blocks[j]
<1> DEFINE f == KindLists(blocks, kinds)
<1>1. /\ IsList(f) /\ DOMAIN f = DOMAIN blocks /\ \A i \in DOMAIN f : IsList(f[i])
      /\ \A i \in DOMAIN f : f[i] = IF blocks[i].kind \in kinds THEN <<blocks[i]>> ELSE <<>>
      /\ OfKind(blocks, kinds) = FlattenSeq(f)
  BY KindListsAreLists
<1> HIDE DEF f
<1>2. /\ IsList(FlattenSeq(f))
      /\ \A i \in DOMAIN FlattenSeq(f) :
           \E j \in DOMAIN f : \E l \in DOMAIN f[j] : FlattenSeq(f)[i] = f[j][l]
      /\ \A j \in DOMAIN f : \A l \in DOMAIN f[j] :
           \E i \in DOMAIN FlattenSeq(f) : FlattenSeq(f)[i] = f[j][l]
  BY <1>1, FlattenElements
<1>3. \A x : DOMAIN <<x>> = {1} /\ <<x>>[1] = x OBVIOUS
<1>4. DOMAIN <<>> = {} OBVIOUS
<1>5. ASSUME NEW i \in DOMAIN FlattenSeq(f)
      PROVE  \E j \in DOMAIN blocks : FlattenSeq(f)[i] = blocks[j] /\ blocks[j].kind \in kinds
  <2>1. PICK j \in DOMAIN f : \E l \in DOMAIN f[j] : FlattenSeq(f)[i] = f[j][l] BY <1>2
  <2>2. blocks[j].kind \in kinds BY <1>1, <1>4, <2>1
  <2>3. f[j] = <<blocks[j]>> BY <1>1, <2>2
  <2>4. FlattenSeq(f)[i] = blocks[j] BY <1>3, <2>1, <2>3
  <2> QED BY <1>1, <2>2, <2>4
<1>6. ASSUME NEW j \in DOMAIN blocks, blocks[j].kind \in kinds
      PROVE  \E i \in DOMAIN FlattenSeq(f) : FlattenSeq(f)[i] = blocks[j]
  <2>1. f[j] = <<blocks[j]>> BY <1>1, <1>6
  <2>2. 1 \in DOMAIN f[j] /\ f[j][1] = blocks[j] BY <1>3, <2>1
  <2> QED BY <1>1, <1>2, <2>2
<1> QED BY <1>1, <1>2, <1>5, <1>6

(* OfKind goes along a concatenation.                                       *)
LEMMA OfKindConcat ==
  ASSUME NEW a, NEW b, IsList(a), IsList(b), NEW kinds
  PROVE  OfKind(a \o b, kinds) = OfKind(a, kinds) \o OfKind(b, kinds)
<1> DEFINE fa == KindLists(a, kinds)
           fb == KindLists(b, kinds)
<1>0. PICK c : c = a \o b OBVIOUS
<1> DEFINE fc == KindLists(c, kinds)
<1>1. PICK m \in Nat, n \in Nat :
        m = Len(a) /\ n = Len(b) /\ DOMAIN a = 1 .. m /\ DOMAIN b = 1 .. n
  BY ListElements
<1>2. /\ IsList(c) /\ Len(c) = m + n
      /\ \A i \in 1 .. m : c[i] = a[i]
      /\ \A i \in 1 .. n : c[m + i] = b[i]
  BY <1>0, <1>1, ConcatIsList
<1>3. DOMAIN c = 1 .. m + n BY <1>2, ListElements
<1>4. /\ IsList(fa) /\ Len(fa) = m
      /\ \A i \in 1 .. m :
           IsList(fa[i]) /\ fa[i] = IF a[i].kind \in kinds THEN <<a[i]>> ELSE <<>>
      /\ OfKind(a, kinds) = FlattenSeq(fa)
  BY <1>1, KindListsAreLists
<1>5. /\ IsList(fb) /\ Len(fb) = n
      /\ \A i \in 1 .. n :
           IsList(fb[i]) /\ fb[i] = IF b[i].kind \in kinds THEN <<b[i]>> ELSE <<>>
      /\ OfKind(b, kinds) = FlattenSeq(fb)
  BY <1>1, KindListsAreLists
<1>6. /\ IsList(fc) /\ Len(fc) = m + n
      /\ \A i \in 1 .. m + n :
           fc[i] = IF c[i].kind \in kinds THEN <<c[i]>> ELSE <<>>
      /\ OfKind(c, kinds) = FlattenSeq(fc)
  BY <1>2, <1>3, KindListsAreLists
<1> HIDE DEF fa, fb, fc
<1>7. \A i \in 1 .. m : fc[i] = fa[i]
  <2> TAKE i \in 1 .. m
  <2>1. i \in 1 .. m + n OBVIOUS
  <2> QED BY <1>2, <1>4, <1>6, <2>1
<1>8. \A i \in 1 .. n : fc[m + i] = fb[i]
  <2> TAKE i \in 1 .. n
  <2>1. m + i \in 1 .. m + n OBVIOUS
  <2> QED BY <1>2, <1>5, <1>6, <2>1
<1>9. /\ \A i \in 1 .. Len(fa) : IsList(fa[i]) /\ fc[i] = fa[i]
      /\ \A i \in 1 .. Len(fb) : IsList(fb[i]) /\ fc[Len(fa) + i] = fb[i]
      /\ Len(fc) = Len(fa) + Len(fb)
  BY <1>4, <1>5, <1>6, <1>7, <1>8
<1>10. FlattenSeq(fc) = FlattenSeq(fa) \o FlattenSeq(fb)
  BY ONLY <1>4, <1>5, <1>6, <1>9, FlattenConcat
<1> QED BY <1>0, <1>4, <1>5, <1>6, <1>10

(* OfKind changes nothing when every block is of the kinds.                 *)
LEMMA OfKindAll ==
  ASSUME NEW blocks, IsList(blocks), NEW kinds, \A i \in DOMAIN blocks : blocks[i].kind \in kinds
  PROVE  OfKind(blocks, kinds) = blocks
<1> DEFINE f == KindLists(blocks, kinds)
<1>1. /\ IsList(f) /\ Len(f) = Len(blocks) /\ \A i \in DOMAIN blocks : f[i] = <<blocks[i]>>
      /\ OfKind(blocks, kinds) = FlattenSeq(f)
  BY KindListsAreLists
<1> HIDE DEF f
<1> QED BY <1>1, FlattenSingles

(* OfKind leaves nothing when no block is of the kinds.                     *)
LEMMA OfKindNone ==
  ASSUME NEW blocks, IsList(blocks), NEW kinds, \A i \in DOMAIN blocks : blocks[i].kind \notin kinds
  PROVE  OfKind(blocks, kinds) = <<>>
<1> DEFINE f == KindLists(blocks, kinds)
<1>1. /\ IsList(f) /\ DOMAIN f = DOMAIN blocks /\ \A i \in DOMAIN blocks : f[i] = <<>>
      /\ OfKind(blocks, kinds) = FlattenSeq(f)
  BY KindListsAreLists
<1> HIDE DEF f
<1> QED BY <1>1, FlattenNothing

-----------------------------------------------------------------------------
(* The names an Anthropic request gives to the ids of tool calls.            *)

SoundNames(names) ==
  /\ DOMAIN names \subseteq DOMAIN Cleaned
  /\ \A id \in DOMAIN names : names[id] \in {<<Cleaned[id]>>, <<Cleaned[id], id>>}
  /\ \A id, other \in DOMAIN names : names[id] = names[other] => id = other

(* What has a name keeps it, and nothing loses its name.                    *)
Extends(names, new, ids) ==
  /\ DOMAIN new = DOMAIN names \cup ids
  /\ \A id \in DOMAIN names : new[id] = names[id]

(* A new name is no other id's.                                             *)
LEMMA NamedIsSound ==
  ASSUME NEW names, SoundNames(names), NEW id \in DOMAIN Cleaned
  PROVE  SoundNames(Named(names, id)) /\ Extends(names, Named(names, id), {id})
<1> DEFINE new == Named(names, id)
<1>1. /\ DOMAIN new = DOMAIN names \cup {id}
      /\ new[id] = NormalizedId(names, id)
      /\ \A other \in DOMAIN names : other # id => new[other] = names[other]
  BY DEF Named
<1> HIDE DEF new
<1>2. \A x, y, u, v : /\ <<x>> # <<u, v>> /\ (<<x>> = <<y>> <=> x = y)
                      /\ (<<x, y>> = <<u, v>> <=> x = u /\ y = v)
  <2> TAKE x, y, u, v
  <2>1. Len(<<x>>) = 1 /\ Len(<<u, v>>) = 2 OBVIOUS
  <2> QED BY <2>1
<1>3. CASE id \in DOMAIN names
  <2>1. new[id] = names[id] BY <1>1, <1>3 DEF NormalizedId
  <2>2. DOMAIN new = DOMAIN names /\ \A other \in DOMAIN names : new[other] = names[other]
    BY <1>1, <1>3, <2>1
  <2> QED BY <1>3, <2>2 DEF SoundNames, Extends, new
<1>4. CASE id \notin DOMAIN names
  <2>1. \A other \in DOMAIN names : new[other] = names[other] BY <1>1, <1>4
  <2>2. new[id] \in {<<Cleaned[id]>>, <<Cleaned[id], id>>} BY <1>1, <1>4 DEF NormalizedId
  <2>3. ASSUME NEW other \in DOMAIN names PROVE names[other] # new[id]
    <3>1. names[other] \in {<<Cleaned[other]>>, <<Cleaned[other], other>>} BY DEF SoundNames
    <3>2. CASE \E o \in DOMAIN names : names[o] = <<Cleaned[id]>>
      <4>1. new[id] = <<Cleaned[id], id>> BY <1>1, <1>4, <3>2 DEF NormalizedId
      <4>2. other # id BY <1>4
      <4> QED BY <1>2, <3>1, <4>1, <4>2
    <3>3. CASE ~\E o \in DOMAIN names : names[o] = <<Cleaned[id]>>
      <4>1. new[id] = <<Cleaned[id]>> BY <1>1, <1>4, <3>3 DEF NormalizedId
      <4> QED BY <3>3, <4>1
    <3> QED BY <3>2, <3>3
  <2>4. DOMAIN new \subseteq DOMAIN Cleaned BY <1>1 DEF SoundNames
  <2>5. \A o \in DOMAIN new : new[o] \in {<<Cleaned[o]>>, <<Cleaned[o], o>>}
    <3> TAKE o \in DOMAIN new
    <3>1. CASE o = id BY <2>2, <3>1
    <3>2. CASE o # id
      <4>1. o \in DOMAIN names BY <1>1, <3>2
      <4> QED BY <2>1, <4>1 DEF SoundNames
    <3> QED BY <3>1, <3>2
  <2>6. \A o, other \in DOMAIN new : new[o] = new[other] => o = other
    <3> TAKE o, other \in DOMAIN new
    <3>1. o \in DOMAIN names \/ o = id BY <1>1
    <3>2. other \in DOMAIN names \/ other = id BY <1>1
    <3>3. CASE o \in DOMAIN names /\ other \in DOMAIN names BY <2>1, <3>3 DEF SoundNames
    <3>4. CASE o \in DOMAIN names /\ other = id BY <2>1, <2>3, <3>4
    <3>5. CASE o = id /\ other \in DOMAIN names BY <2>1, <2>3, <3>5
    <3> QED BY <3>1, <3>2, <3>3, <3>4, <3>5
  <2>7. SoundNames(new) BY <2>4, <2>5, <2>6 DEF SoundNames
  <2>8. Extends(names, new, {id}) BY <1>1, <2>1 DEF Extends
  <2> QED BY <2>7, <2>8 DEF new
<1> QED BY <1>3, <1>4

NameOf(context, names, id) == Named(names, id)
NamedUpTo(context, k, new) ==
  /\ SoundNames(new)
  /\ Extends(context.names, new, {context.ids[i] : i \in 1 .. k})
Naming == INSTANCE FoldInduction WITH Step <- NameOf, Holds <- NamedUpTo, Last <- Max

(* The fold of AllNamed keeps what each step of it keeps.                   *)
LEMMA NamingFold ==
  ASSUME NEW context, NEW base, NEW seq, NEW n \in Nat, DOMAIN seq = 1 .. n,
         NamedUpTo(context, 0, base),
         \A k \in 1 .. n : \A acc :
           NamedUpTo(context, k - 1, acc) => NamedUpTo(context, k, NameOf(context, acc, seq[k]))
  PROVE  NamedUpTo(context, n,
           (CHOOSE iter : iter =
              [s \in SUBSET DOMAIN seq |->
                 IF s = {} THEN base
                 ELSE NameOf(context, iter[s \ {Max(s)}], seq[Max(s)])])[DOMAIN seq])
BY MaxIsGreatest, Naming!FoldInvariant

(* Naming the calls of a message keeps names apart, and keeps those given.  *)
LEMMA AllNamedIsSound ==
  ASSUME NEW names, SoundNames(names), NEW ids \in Seq(DOMAIN Cleaned)
  PROVE  SoundNames(AllNamed(names, ids)) /\ Extends(names, AllNamed(names, ids), ToSet(ids))
<1> DEFINE n == Len(ids)
           context == [names |-> names, ids |-> ids]
<1>1. n \in Nat /\ DOMAIN ids = 1 .. n /\ \A i \in 1 .. n : ids[i] \in DOMAIN Cleaned OBVIOUS
<1>2. NamedUpTo(context, 0, names)
  <2>1. {ids[i] : i \in 1 .. 0} = {} OBVIOUS
  <2> QED BY <2>1 DEF NamedUpTo, Extends
<1>3. \A k \in 1 .. n : \A acc :
        NamedUpTo(context, k - 1, acc) => NamedUpTo(context, k, NameOf(context, acc, ids[k]))
  <2> TAKE k \in 1 .. n
  <2> TAKE acc
  <2> HAVE NamedUpTo(context, k - 1, acc)
  <2> DEFINE new == Named(acc, ids[k])
  <2>1. SoundNames(new) /\ Extends(acc, new, {ids[k]})
    BY <1>1, NamedIsSound DEF NamedUpTo
  <2>2. Extends(names, acc, {ids[i] : i \in 1 .. k - 1}) BY DEF NamedUpTo
  <2>3. {ids[i] : i \in 1 .. k} = {ids[i] : i \in 1 .. k - 1} \cup {ids[k]} BY <1>1
  <2> HIDE DEF new
  <2>4. Extends(names, new, {ids[i] : i \in 1 .. k}) BY <2>1, <2>2, <2>3 DEF Extends
  <2> QED BY <2>1, <2>4 DEF new, NameOf, NamedUpTo
<1> HIDE DEF n, context
<1>4. NamedUpTo(context, n,
           (CHOOSE iter : iter =
              [s \in SUBSET DOMAIN ids |->
                 IF s = {} THEN names
                 ELSE NameOf(context, iter[s \ {Max(s)}], ids[Max(s)])])[DOMAIN ids])
  BY <1>1, <1>2, <1>3, NamingFold
<1>5. NamedUpTo(context, n, AllNamed(names, ids))
  BY <1>4, Zenon DEF AllNamed, NameOf, FoldLeft, MapThenFoldSet
<1>6. ToSet(ids) = {ids[i] : i \in 1 .. n} BY <1>1 DEF ToSet
<1> QED BY <1>5, <1>6 DEF NamedUpTo, context

-----------------------------------------------------------------------------
(* Blocks, their ids, and the messages that hold them.                      *)

(* Every id in the blocks is None or has a name.                            *)
Nameable(names, blocks) ==
  \A i \in DOMAIN blocks : blocks[i].id = None \/ blocks[i].id \in DOMAIN names

(* Renaming touches the ids of blocks, not their number, order, kinds or    *)
(* pieces.                                                                  *)
LEMMA RenamedIsList ==
  ASSUME NEW names, NEW blocks, IsList(blocks)
  PROVE  /\ IsList(Renamed(names, blocks)) /\ Len(Renamed(names, blocks)) = Len(blocks)
         /\ DOMAIN Renamed(names, blocks) = DOMAIN blocks
         /\ \A i \in DOMAIN blocks :
              Renamed(names, blocks)[i] =
                IF blocks[i].id = None THEN blocks[i]
                ELSE Block(blocks[i].kind, names[blocks[i].id], blocks[i].piece)
<1> DEFINE f == Renamed(names, blocks)
<1>1. PICK n \in Nat : n = Len(blocks) /\ DOMAIN blocks = 1 .. n BY ListElements
<1>2. /\ DOMAIN f = 1 .. n
      /\ \A i \in DOMAIN blocks :
           f[i] = IF blocks[i].id = None THEN blocks[i]
                  ELSE Block(blocks[i].kind, names[blocks[i].id], blocks[i].piece)
  BY <1>1 DEF Renamed
<1>3. f = [i \in 1 .. n |-> f[i]] BY <1>1 DEF Renamed
<1>4. IsList(f) /\ Len(f) = n
  <2> HIDE DEF f
  <2> QED BY <1>3, FunctionIsList
<1> HIDE DEF f
<1> QED BY <1>1, <1>2, <1>4 DEF f

IsConcat(c, a, b) ==
  /\ IsList(c) /\ Len(c) = Len(a) + Len(b) /\ DOMAIN c = 1 .. Len(a) + Len(b)
  /\ Len(a) \in Nat /\ Len(b) \in Nat
  /\ DOMAIN a = 1 .. Len(a) /\ DOMAIN b = 1 .. Len(b)
  /\ \A i \in DOMAIN a : i \in DOMAIN c /\ c[i] = a[i]
  /\ \A i \in DOMAIN b : Len(a) + i \in DOMAIN c /\ c[Len(a) + i] = b[i]
  /\ \A i \in DOMAIN c : i \in DOMAIN a \/ \E j \in DOMAIN b : i = Len(a) + j

(* What a concatenation is, element by element.                             *)
LEMMA ConcatElements ==
  ASSUME NEW a, NEW b, IsList(a), IsList(b)
  PROVE  IsConcat(a \o b, a, b)
<1>0. PICK c : c = a \o b OBVIOUS
<1>1. /\ IsList(c) /\ Len(c) = Len(a) + Len(b)
      /\ \A i \in 1 .. Len(a) : c[i] = a[i]
      /\ \A i \in 1 .. Len(b) : c[Len(a) + i] = b[i]
  BY <1>0, ConcatIsList
<1>2. /\ DOMAIN a = 1 .. Len(a) /\ DOMAIN b = 1 .. Len(b) /\ DOMAIN c = 1 .. Len(c)
      /\ Len(a) \in Nat /\ Len(b) \in Nat
  BY <1>1, ListElements
<1>3. \A i \in DOMAIN c : i \in DOMAIN a \/ \E j \in DOMAIN b : i = Len(a) + j
  <2> TAKE i \in DOMAIN c
  <2>1. CASE i \notin DOMAIN a
    <3>1. i - Len(a) \in DOMAIN b /\ i = Len(a) + (i - Len(a)) BY <1>1, <1>2, <2>1
    <3> QED BY <3>1
  <2> QED BY <2>1
<1>4. IsConcat(c, a, b) BY <1>1, <1>2, <1>3 DEF IsConcat
<1> QED BY <1>0, <1>4

(* Renaming goes along a concatenation.                                     *)
LEMMA RenamedConcat ==
  ASSUME NEW names, NEW a, NEW b, IsList(a), IsList(b)
  PROVE  /\ Renamed(names, a \o b) = Renamed(names, a) \o Renamed(names, b)
         /\ Nameable(names, a) /\ Nameable(names, b) => Nameable(names, a \o b)
<1>1. PICK c : c = a \o b OBVIOUS
<1> DEFINE ra == Renamed(names, a)
           rb == Renamed(names, b)
           rc == Renamed(names, c)
           New(x) == IF x.id = None THEN x ELSE Block(x.kind, names[x.id], x.piece)
<1>2. PICK d : d = ra \o rb OBVIOUS
<1>3. /\ IsList(c) /\ Len(c) = Len(a) + Len(b) /\ DOMAIN c = 1 .. Len(a) + Len(b)
      /\ Len(a) \in Nat /\ Len(b) \in Nat
      /\ DOMAIN a = 1 .. Len(a) /\ DOMAIN b = 1 .. Len(b)
      /\ \A i \in DOMAIN a : i \in DOMAIN c /\ c[i] = a[i]
      /\ \A i \in DOMAIN b : Len(a) + i \in DOMAIN c /\ c[Len(a) + i] = b[i]
      /\ \A i \in DOMAIN c : i \in DOMAIN a \/ \E j \in DOMAIN b : i = Len(a) + j
  <2>1. IsConcat(c, a, b) BY <1>1, ConcatElements
  <2> QED BY <2>1 DEF IsConcat
<1>4. IsList(ra) /\ Len(ra) = Len(a) /\ DOMAIN ra = DOMAIN a /\ \A i \in DOMAIN a : ra[i] = New(a[i])
  BY RenamedIsList
<1>5. IsList(rb) /\ Len(rb) = Len(b) /\ DOMAIN rb = DOMAIN b /\ \A i \in DOMAIN b : rb[i] = New(b[i])
  BY RenamedIsList
<1>6. IsList(rc) /\ Len(rc) = Len(c) /\ DOMAIN rc = DOMAIN c /\ \A i \in DOMAIN c : rc[i] = New(c[i])
  BY <1>3, RenamedIsList
<1> HIDE DEF ra, rb, rc, New
<1>7. /\ IsList(d) /\ Len(d) = Len(a) + Len(b)
      /\ \A i \in DOMAIN a : d[i] = ra[i]
      /\ \A i \in DOMAIN b : d[Len(a) + i] = rb[i]
  <2>1. IsConcat(d, ra, rb) BY <1>2, <1>4, <1>5, ConcatElements
  <2> QED BY <1>4, <1>5, <2>1 DEF IsConcat
<1>8. \A i \in 1 .. Len(rc) : rc[i] = d[i]
  <2> TAKE i \in 1 .. Len(rc)
  <2>1. i \in DOMAIN c BY <1>3, <1>6
  <2>2. CASE i \in DOMAIN a BY <1>3, <1>4, <1>6, <1>7, <2>1, <2>2
  <2>3. CASE i \notin DOMAIN a
    <3>1. PICK j \in DOMAIN b : i = Len(a) + j BY <1>3, <2>1, <2>3
    <3>2. c[i] = b[j] /\ d[i] = rb[j] BY <1>3, <1>7, <3>1
    <3> QED BY <1>5, <1>6, <2>1, <3>2
  <2> QED BY <2>2, <2>3
<1>9. rc = d BY <1>3, <1>6, <1>7, <1>8, ListsEqual
<1>10. ASSUME Nameable(names, a), Nameable(names, b) PROVE Nameable(names, c)
  <2> SUFFICES ASSUME NEW i \in DOMAIN c PROVE c[i].id = None \/ c[i].id \in DOMAIN names
    BY DEF Nameable
  <2>1. CASE i \in DOMAIN a BY <1>3, <1>10, <2>1 DEF Nameable
  <2>2. CASE i \notin DOMAIN a
    <3>1. PICK j \in DOMAIN b : i = Len(a) + j BY <1>3, <2>2
    <3>2. c[i] = b[j] BY <1>3, <3>1
    <3> QED BY <1>10, <3>2 DEF Nameable
  <2> QED BY <2>1, <2>2
<1> QED BY <1>1, <1>2, <1>9, <1>10 DEF ra, rb, rc

(* Names given later change no block that could be renamed before.          *)
LEMMA RenamedStays ==
  ASSUME NEW names, NEW new, NEW ids, Extends(names, new, ids),
         NEW blocks, IsList(blocks), Nameable(names, blocks)
  PROVE  Renamed(new, blocks) = Renamed(names, blocks) /\ Nameable(new, blocks)
<1>1. \A i \in DOMAIN blocks : blocks[i].id = None \/ new[blocks[i].id] = names[blocks[i].id]
  BY DEF Nameable, Extends
<1>2. Nameable(new, blocks) BY DEF Nameable, Extends
<1> DEFINE f == Renamed(new, blocks)
           g == Renamed(names, blocks)
<1>3. /\ IsList(f) /\ Len(f) = Len(blocks)
      /\ \A i \in DOMAIN blocks :
           f[i] = IF blocks[i].id = None THEN blocks[i]
                  ELSE Block(blocks[i].kind, new[blocks[i].id], blocks[i].piece)
  BY RenamedIsList
<1>4. /\ IsList(g) /\ Len(g) = Len(blocks)
      /\ \A i \in DOMAIN blocks :
           g[i] = IF blocks[i].id = None THEN blocks[i]
                  ELSE Block(blocks[i].kind, names[blocks[i].id], blocks[i].piece)
  BY RenamedIsList
<1>5. DOMAIN blocks = 1 .. Len(blocks) BY ListElements
<1> HIDE DEF f, g
<1>6. \A i \in 1 .. Len(f) : f[i] = g[i] BY <1>1, <1>3, <1>4, <1>5
<1>7. f = g BY <1>3, <1>4, <1>6, ListsEqual
<1> QED BY <1>2, <1>7 DEF f, g

(* Messages with blocks.                                                    *)
IsOut(out) ==
  /\ IsList(out)
  /\ \A i \in DOMAIN out :
       /\ out[i] = [role |-> out[i].role, blocks |-> out[i].blocks]
       /\ IsList(out[i].blocks)

(* A message more has its blocks after all the others.                      *)
LEMMA BlocksAppend ==
  ASSUME NEW out, IsOut(out), NEW role, NEW blocks, IsList(blocks)
  PROVE  /\ IsOut(Append(out, [role |-> role, blocks |-> blocks]))
         /\ Blocks(Append(out, [role |-> role, blocks |-> blocks])) = Blocks(out) \o blocks
         /\ IsList(Blocks(out))
<1>1. PICK n \in Nat : n = Len(out) /\ DOMAIN out = 1 .. n BY ListElements DEF IsOut
<1>2. PICK x : x = [role |-> role, blocks |-> blocks] OBVIOUS
<1>3. x.blocks = blocks /\ x = [role |-> x.role, blocks |-> x.blocks] BY <1>2
<1>4. PICK new : new = Append(out, x) OBVIOUS
<1>5. IsList(new) /\ Len(new) = n + 1 /\ (\A i \in 1 .. n : new[i] = out[i]) /\ new[n + 1] = x
  BY <1>1, <1>4, AppendIsList DEF IsOut
<1>6. DOMAIN new = 1 .. n + 1 BY <1>5, ListElements
<1>7. IsOut(new)
  <2> SUFFICES ASSUME NEW i \in DOMAIN new
               PROVE  new[i] = [role |-> new[i].role, blocks |-> new[i].blocks] /\ IsList(new[i].blocks)
    BY <1>5 DEF IsOut
  <2>1. CASE i \in 1 .. n BY <1>1, <1>5, <2>1 DEF IsOut
  <2>2. CASE i = n + 1 BY <1>3, <1>5, <2>2
  <2> QED BY <1>6, <2>1, <2>2
<1> DEFINE p == [i \in DOMAIN out |-> out[i].blocks]
           q == [i \in DOMAIN new |-> new[i].blocks]
<1>8. p = [i \in 1 .. n |-> p[i]] /\ q = [i \in 1 .. n + 1 |-> q[i]] BY <1>1, <1>6
<1>9. /\ \A i \in 1 .. n : q[i] = p[i] /\ IsList(p[i])
      /\ \A i \in 1 .. n + 1 : IsList(q[i])
      /\ q[n + 1] = blocks
  BY <1>1, <1>3, <1>5, <1>6, <1>7 DEF IsOut
<1>10. Blocks(out) = FlattenSeq(p) /\ Blocks(new) = FlattenSeq(q) BY DEF Blocks
<1> HIDE DEF p, q
<1>11. IsList(p) /\ Len(p) = n
  <2>1. p = [i \in 1 .. n |-> p[i]] BY <1>8
  <2> QED BY ONLY <2>1, n \in Nat, FunctionIsList
<1>12. IsList(q) /\ Len(q) = n + 1
  <2>1. PICK m \in Nat : m = n + 1 OBVIOUS
  <2>2. q = [i \in 1 .. m |-> q[i]] BY <1>8, <2>1
  <2>3. IsList(q) /\ Len(q) = m BY ONLY <2>2, m \in Nat, FunctionIsList
  <2> QED BY <2>1, <2>3
<1>13. FlattenSeq(p) = Flat(p, n) BY ONLY <1>11, FlattenIsFlat
<1>14. FlattenSeq(q) = Flat(q, n + 1) BY ONLY <1>12, FlattenIsFlat
<1>15. Flat(q, n) = Flat(p, n) BY ONLY <1>9, n \in Nat, FlatOfSame
<1>16. Flat(q, n + 1) = Flat(q, n) \o q[n + 1]
  <2>1. PICK m \in Nat : m = n + 1 /\ n = m - 1 /\ m \in 1 .. m OBVIOUS
  <2>2. \A i \in 1 .. m : IsList(q[i]) BY <1>9, <2>1
  <2>3. \A k \in 1 .. m : Flat(q, k) = Flat(q, k - 1) \o q[k] BY ONLY <2>2, m \in Nat, FlatNext
  <2> QED BY ONLY <2>1, <2>3
<1>17. IsList(FlattenSeq(p))
  <2>1. \A i \in DOMAIN p : IsList(p[i]) BY <1>9, <1>11, ListElements
  <2> QED BY ONLY <1>11, <2>1, FlattenIsList
<1> QED BY <1>2, <1>4, <1>7, <1>9, <1>10, <1>13, <1>14, <1>15, <1>16, <1>17

(* A list that is not empty is its front and its last element.              *)
LEMMA FrontAndLast ==
  ASSUME NEW s, IsList(s), s # <<>>
  PROVE  /\ IsList(Front(s)) /\ Len(Front(s)) = Len(s) - 1
         /\ \A i \in 1 .. Len(s) - 1 : Front(s)[i] = s[i]
         /\ Append(Front(s), Last(s)) = s
         /\ Last(s) = s[Len(s)] /\ Len(s) \in DOMAIN s
         /\ \A x : Front(s) \o <<x>> = Append(Front(s), x)
<1>1. PICK S : s \in Seq(S) BY DEF IsList
<1>2. Len(s) \in Nat /\ DOMAIN s = 1 .. Len(s) BY <1>1
<1>3. Len(s) # 0 BY <1>1
<1>4. /\ Front(s) \in Seq(S) /\ Len(Front(s)) = Len(s) - 1
      /\ \A i \in 1 .. Len(s) - 1 : Front(s)[i] = s[i]
  BY <1>1, <1>2, <1>3, SubSeqProperties DEF Front
<1>5. Last(s) = s[Len(s)] /\ Len(s) \in DOMAIN s BY <1>2, <1>3 DEF Last
<1>6. IsList(Front(s)) BY <1>4 DEF IsList
<1>7. Append(Front(s), Last(s)) = s
  <2>1. PICK f, x, t : f = Front(s) /\ x = Last(s) /\ t = Append(f, x) OBVIOUS
  <2>2. /\ IsList(t) /\ Len(t) = Len(f) + 1 /\ \A i \in 1 .. Len(f) : t[i] = f[i]
        /\ t[Len(f) + 1] = x
    BY <1>6, <2>1, AppendIsList
  <2>3. Len(t) = Len(s) BY <1>2, <1>4, <2>1, <2>2
  <2>4. \A i \in 1 .. Len(t) : t[i] = s[i]
    <3> TAKE i \in 1 .. Len(t)
    <3>1. CASE i = Len(s)
      <4>1. Len(f) + 1 = i
        <5>1. Len(f) = Len(s) - 1 BY <1>4, <2>1
        <5> QED BY ONLY <1>2, <3>1, <5>1
      <4> QED BY <1>5, <2>1, <2>2, <3>1, <4>1
    <3>2. CASE i # Len(s)
      <4>1. i \in 1 .. Len(s) - 1
        <5>1. i \in 1 .. Len(s) BY <2>3
        <5>2. PICK n \in Nat : n = Len(s) BY <1>2
        <5>3. i \in 1 .. n /\ i # n BY <3>2, <5>1, <5>2
        <5>4. i \in 1 .. n - 1 BY ONLY <5>3, n \in Nat
        <5> QED BY <5>2, <5>4
      <4>2. i \in 1 .. Len(f) BY <1>4, <2>1, <4>1
      <4> QED BY <1>4, <2>1, <2>2, <4>1, <4>2
    <3> QED BY <3>1, <3>2
  <2>5. t = s BY <2>2, <2>3, <2>4, ListsEqual
  <2> QED BY <2>1, <2>5
<1>8. ASSUME NEW x PROVE Front(s) \o <<x>> = Append(Front(s), x)
  <2>1. Front(s) \in Seq(S \cup {x}) /\ x \in S \cup {x} BY <1>4, SeqMonotonic
  <2>2. \A f \in Seq(S \cup {x}) : f \o <<x>> = Append(f, x) OBVIOUS
  <2> QED BY <2>1, <2>2
<1> QED BY <1>4, <1>5, <1>6, <1>7, <1>8

(* Append is the concatenation with a list of one.                          *)
LEMMA AppendedIsConcat ==
  ASSUME NEW s, IsList(s), NEW x PROVE Append(s, x) = s \o <<x>>
<1>1. PICK S : s \in Seq(S) BY DEF IsList
<1>2. s \in Seq(S \cup {x}) /\ x \in S \cup {x} BY <1>1, SeqMonotonic
<1> QED BY <1>2

(* A result goes to the end of what is said, in the last message or in one  *)
(* of its own.                                                              *)
LEMMA WithResultAppends ==
  ASSUME NEW out, IsOut(out), NEW block
  PROVE  /\ IsOut(WithResult(out, block))
         /\ Blocks(WithResult(out, block)) = Blocks(out) \o <<block>>
<1>1. IsList(<<block>>) BY SingletonIsList
<1>2. CASE /\ out # <<>> /\ Last(out).role = "user"
           /\ ~(Len(Last(out).blocks) = 1 /\ Head(Last(out).blocks).kind = "text")
  <2>1. PICK x, f : x = Last(out) /\ f = Front(out) OBVIOUS
  <2>2. /\ IsList(f) /\ Len(f) = Len(out) - 1 /\ \A i \in 1 .. Len(out) - 1 : f[i] = out[i]
        /\ Append(f, x) = out /\ x = out[Len(out)] /\ Len(out) \in DOMAIN out
        /\ \A y : f \o <<y>> = Append(f, y)
    BY <1>2, <2>1, FrontAndLast DEF IsOut
  <2>3. x = [role |-> x.role, blocks |-> x.blocks] /\ IsList(x.blocks) BY <2>2 DEF IsOut
  <2>4. IsOut(f)
    <3>1. Len(out) \in Nat /\ DOMAIN out = 1 .. Len(out) /\ DOMAIN f = 1 .. Len(f)
      BY <2>2, ListElements DEF IsOut
    <3>2. \A i \in DOMAIN f : i \in DOMAIN out /\ f[i] = out[i] BY <2>2, <3>1
    <3> QED BY <2>2, <3>2 DEF IsOut
  <2>5. PICK new : new = Append(x.blocks, block) OBVIOUS
  <2>6. IsList(new) /\ new = x.blocks \o <<block>> BY <2>3, <2>5, AppendIsList, AppendedIsConcat
  <2>7. [x EXCEPT !.blocks = new] = [role |-> x.role, blocks |-> new] BY <2>3
  <2>8. WithResult(out, block) = Append(f, [role |-> x.role, blocks |-> new])
    <3>1. WithResult(out, block) = f \o <<[x EXCEPT !.blocks = Append(@, block)]>>
      BY <1>2, <2>1, Zenon DEF WithResult
    <3>2. [x EXCEPT !.blocks = Append(@, block)] = [x EXCEPT !.blocks = new] BY <2>5, Zenon
    <3> QED BY <2>2, <2>7, <3>1, <3>2
  <2>9. Blocks(out) = Blocks(f) \o x.blocks /\ IsList(Blocks(f))
    <3>1. Blocks(Append(f, [role |-> x.role, blocks |-> x.blocks])) = Blocks(f) \o x.blocks
          /\ IsList(Blocks(f))
      BY <2>3, <2>4, BlocksAppend
    <3>2. Append(f, [role |-> x.role, blocks |-> x.blocks]) = out BY ONLY <2>2, <2>3
    <3> QED BY ONLY <3>1, <3>2
  <2>10. /\ IsOut(Append(f, [role |-> x.role, blocks |-> new]))
         /\ Blocks(Append(f, [role |-> x.role, blocks |-> new])) = Blocks(f) \o new
    BY <2>4, <2>6, BlocksAppend
  <2>11. Blocks(f) \o (x.blocks \o <<block>>) = (Blocks(f) \o x.blocks) \o <<block>>
    <3>1. PICK a, b, c : a = Blocks(f) /\ b = x.blocks /\ c = <<block>> OBVIOUS
    <3>2. IsList(a) /\ IsList(b) /\ IsList(c) BY <1>1, <2>3, <2>9, <3>1
    <3>3. (a \o b) \o c = a \o (b \o c) BY ONLY <3>2, ConcatOfConcat, SMTT(30)
    <3> QED BY <3>1, <3>3
  <2> QED BY ONLY <2>6, <2>8, <2>9, <2>10, <2>11
<1>3. CASE ~(/\ out # <<>> /\ Last(out).role = "user"
             /\ ~(Len(Last(out).blocks) = 1 /\ Head(Last(out).blocks).kind = "text"))
  <2>1. WithResult(out, block) = Append(out, [role |-> "user", blocks |-> <<block>>])
    BY <1>3, Zenon DEF WithResult
  <2> QED BY <1>1, <2>1, BlocksAppend
<1> QED BY <1>2, <1>3

(* What a message says.                                                     *)
LEMMA TextBlockIsList ==
  ASSUME NEW text
  PROVE  /\ IsList(TextBlock(text))
         /\ \A i \in DOMAIN TextBlock(text) :
              text # None /\ TextBlock(text)[i] = Block("text", None, text)
<1>1. CASE text = None
  <2>1. TextBlock(text) = <<>> BY <1>1 DEF TextBlock
  <2> QED BY <2>1, EmptyIsList
<1>2. CASE text # None
  <2>1. PICK b : b = Block("text", None, text) OBVIOUS
  <2>2. TextBlock(text) = <<b>> BY <1>2, <2>1 DEF TextBlock
  <2>3. DOMAIN <<b>> = {1} /\ <<b>>[1] = b OBVIOUS
  <2> QED BY <1>2, <2>1, <2>2, <2>3, SingletonIsList
<1> QED BY <1>1, <1>2

(* The blocks of the calls of a message, one for each.                      *)
LEMMA CallBlocksAreList ==
  ASSUME NEW ids \in Seq(DOMAIN Cleaned)
  PROVE  /\ IsList(CallBlocks(ids)) /\ Len(CallBlocks(ids)) = Len(ids)
         /\ DOMAIN CallBlocks(ids) = DOMAIN ids
         /\ \A i \in DOMAIN ids : CallBlocks(ids)[i] = Block("call", ids[i], None)
<1> DEFINE f == CallBlocks(ids)
<1>1. PICK n \in Nat : n = Len(ids) /\ DOMAIN ids = 1 .. n OBVIOUS
<1>2. DOMAIN f = 1 .. n /\ \A i \in 1 .. n : f[i] = Block("call", ids[i], None)
  BY <1>1 DEF CallBlocks
<1>3. f = [i \in 1 .. n |-> f[i]] BY <1>1 DEF CallBlocks
<1>4. IsList(f) /\ Len(f) = n
  <2> HIDE DEF f
  <2> QED BY <1>3, FunctionIsList
<1> HIDE DEF f
<1> QED BY <1>1, <1>2, <1>4 DEF f

(* What a message says is a list of blocks whose ids can be named.          *)
LEMMA SaysBlocks ==
  ASSUME NEW m, IsMessage(m)
  PROVE  /\ IsList(Says(m))
         /\ \A i \in DOMAIN Says(m) :
              /\ IsBlock(Says(m)[i])
              /\ Says(m)[i].kind = "call" => m.role = "assistant" /\ Says(m)[i].id \in ToSet(m.calls)
              /\ Says(m)[i].kind = "result" => m.role = "tool" /\ Says(m)[i].id = m.of
<1>1. CASE m.role = "system"
  <2>1. Says(m) = <<>> BY <1>1 DEF Says
  <2> QED BY <2>1, EmptyIsList
<1>2. CASE m.role = "tool"
  <2>1. PICK b : b = Block("result", m.of, m.text) OBVIOUS
  <2>2. Says(m) = <<b>> BY <1>2, <2>1 DEF Says
  <2>3. DOMAIN <<b>> = {1} /\ <<b>>[1] = b OBVIOUS
  <2>4. b.kind = "result" /\ b.id = m.of /\ b.piece = m.text BY <2>1 DEF Block
  <2>5. m.of \in DOMAIN Cleaned /\ m.text # None BY <1>2 DEF IsMessage
  <2>6. IsBlock(b) BY <2>1, <2>4, <2>5 DEF IsBlock
  <2> QED BY <1>2, <2>2, <2>3, <2>4, <2>6, SingletonIsList
<1>3. CASE m.role # "system" /\ m.role # "tool"
  <2>1. PICK a, b : a = TextBlock(m.text) /\ b = CallBlocks(m.calls) OBVIOUS
  <2>2. IsList(a) /\ \A i \in DOMAIN a : m.text # None /\ a[i] = Block("text", None, m.text)
    BY <2>1, TextBlockIsList
  <2>3. m.calls \in Seq(DOMAIN Cleaned) /\ (m.role # "assistant" => m.calls = <<>>)
    BY DEF IsMessage
  <2>4. IsList(b) /\ DOMAIN b = DOMAIN m.calls
        /\ \A i \in DOMAIN b : b[i] = Block("call", m.calls[i], None)
    BY <2>1, <2>3, CallBlocksAreList
  <2>5. PICK c : c = a \o b OBVIOUS
  <2>6. Says(m) = c BY <1>3, <2>1, <2>5 DEF Says
  <2>7. IsConcat(c, a, b) BY <2>2, <2>4, <2>5, ConcatElements
  <2>8. ASSUME NEW i \in DOMAIN c
        PROVE  /\ IsBlock(c[i]) /\ c[i].kind # "result"
               /\ c[i].kind = "call" => m.role = "assistant" /\ c[i].id \in ToSet(m.calls)
    <3>1. CASE i \in DOMAIN a
      <4>1. c[i] = Block("text", None, m.text) /\ m.text # None BY <2>2, <2>7, <3>1 DEF IsConcat
      <4> QED BY <4>1 DEF IsBlock, Block
    <3>2. CASE i \notin DOMAIN a
      <4>1. PICK j \in DOMAIN b : i = Len(a) + j BY <2>7, <3>2 DEF IsConcat
      <4>2. c[i] = b[j] BY <2>7, <4>1 DEF IsConcat
      <4>3. c[i] = Block("call", m.calls[j], None) /\ j \in DOMAIN m.calls BY <2>4, <4>2
      <4>4. m.calls[j] \in DOMAIN Cleaned BY <2>3, <4>3
      <4>5. m.role = "assistant"
        <5>1. DOMAIN <<>> = {} OBVIOUS
        <5> QED BY <2>3, <4>3, <5>1
      <4>6. m.calls[j] \in ToSet(m.calls) BY <4>3 DEF ToSet
      <4>7. c[i].kind = "call" /\ c[i].id = m.calls[j] /\ c[i].piece = None BY <4>3 DEF Block
      <4>8. IsBlock(c[i]) BY <4>3, <4>4, <4>7 DEF IsBlock
      <4> QED BY <4>5, <4>6, <4>7, <4>8
    <3> QED BY <3>1, <3>2
  <2> QED BY <2>6, <2>7, <2>8 DEF IsConcat
<1> QED BY <1>1, <1>2, <1>3

-----------------------------------------------------------------------------
(* What ToAnthropic has said and named once it has folded k messages.        *)

Orphanless(conv) == [i \in DOMAIN conv |-> IF Orphaned(conv, conv[i]) THEN <<>> ELSE Says(conv[i])]
SystemTexts(conv) == [i \in DOMAIN conv |-> IF conv[i].role = "system" THEN <<conv[i].text>> ELSE <<>>]
AddOf(conv, acc, m) == AddMessage(conv, acc, m)

SaidUpTo(conv, k, acc) ==
  /\ acc = [system |-> acc.system, out |-> acc.out, names |-> acc.names]
  /\ SoundNames(acc.names)
  /\ IsOut(acc.out)
  /\ acc.system = Flat(SystemTexts(conv), k)
  /\ Nameable(acc.names, Flat(Orphanless(conv), k))
  /\ Blocks(acc.out) = Renamed(acc.names, Flat(Orphanless(conv), k))
Adding == INSTANCE FoldInduction WITH Step <- AddOf, Holds <- SaidUpTo, Last <- Max

(* The fold of ToAnthropic keeps what each step of it keeps.                *)
LEMMA AddingFold ==
  ASSUME NEW conv, NEW base, NEW seq, NEW n \in Nat, DOMAIN seq = 1 .. n,
         SaidUpTo(conv, 0, base),
         \A k \in 1 .. n : \A acc :
           SaidUpTo(conv, k - 1, acc) => SaidUpTo(conv, k, AddOf(conv, acc, seq[k]))
  PROVE  SaidUpTo(conv, n,
           (CHOOSE iter : iter =
              [s \in SUBSET DOMAIN seq |->
                 IF s = {} THEN base
                 ELSE AddOf(conv, iter[s \ {Max(s)}], seq[Max(s)])])[DOMAIN seq])
BY MaxIsGreatest, Adding!FoldInvariant

(* The lists behind WithoutOrphans and Instructions.                        *)
LEMMA ConversationLists ==
  ASSUME NEW conv, IsConversation(conv)
  PROVE  /\ IsList(conv) /\ Len(conv) \in Nat /\ DOMAIN conv = 1 .. Len(conv)
         /\ \A i \in 1 .. Len(conv) :
              /\ IsMessage(conv[i])
              /\ IsList(Orphanless(conv)[i]) /\ IsList(SystemTexts(conv)[i])
              /\ Orphanless(conv)[i] = IF Orphaned(conv, conv[i]) THEN <<>> ELSE Says(conv[i])
              /\ SystemTexts(conv)[i] = IF conv[i].role = "system" THEN <<conv[i].text>> ELSE <<>>
         /\ IsList(Orphanless(conv)) /\ Len(Orphanless(conv)) = Len(conv)
         /\ IsList(SystemTexts(conv)) /\ Len(SystemTexts(conv)) = Len(conv)
         /\ WithoutOrphans(conv) = Flat(Orphanless(conv), Len(conv))
         /\ Instructions(conv) = Flat(SystemTexts(conv), Len(conv))
<1>1. IsList(conv) /\ \A i \in DOMAIN conv : IsMessage(conv[i])
  BY RangedIsList DEF IsConversation
<1>2. PICK n \in Nat : n = Len(conv) /\ DOMAIN conv = 1 .. n BY <1>1, ListElements
<1> DEFINE f == Orphanless(conv)
           g == SystemTexts(conv)
<1>3. \A i \in 1 .. n : /\ f[i] = IF Orphaned(conv, conv[i]) THEN <<>> ELSE Says(conv[i])
                        /\ g[i] = IF conv[i].role = "system" THEN <<conv[i].text>> ELSE <<>>
  BY <1>2 DEF Orphanless, SystemTexts
<1>4. f = [i \in 1 .. n |-> f[i]] BY <1>2 DEF Orphanless
<1>5. g = [i \in 1 .. n |-> g[i]] BY <1>2 DEF SystemTexts
<1>6. WithoutOrphans(conv) = FlattenSeq(f) BY Zenon DEF WithoutOrphans, Orphanless
<1>7. Instructions(conv) = FlattenSeq(g) BY Zenon DEF Instructions, SystemTexts
<1> HIDE DEF f, g
<1>8. IsList(f) /\ Len(f) = n BY ONLY <1>4, n \in Nat, FunctionIsList
<1>9. IsList(g) /\ Len(g) = n BY ONLY <1>5, n \in Nat, FunctionIsList
<1>10. FlattenSeq(f) = Flat(f, n) BY ONLY <1>8, FlattenIsFlat
<1>11. FlattenSeq(g) = Flat(g, n) BY ONLY <1>9, FlattenIsFlat
<1>12. \A i \in 1 .. n : IsList(f[i]) /\ IsList(g[i])
  BY <1>1, <1>2, <1>3, EmptyIsList, SingletonIsList, SaysBlocks
<1> QED BY <1>1, <1>2, <1>3, <1>6, <1>7, <1>8, <1>9, <1>10, <1>11, <1>12 DEF f, g

(* A step that says a message's blocks, under names that extend those there *)
(* were, and appends its instructions, keeps SaidUpTo.                      *)
SaysNext(conv, k, acc, new) ==
  /\ new = [system |-> new.system, out |-> new.out, names |-> new.names]
  /\ \E ids : Extends(acc.names, new.names, ids)
  /\ SoundNames(new.names)
  /\ IsOut(new.out)
  /\ new.system = acc.system \o SystemTexts(conv)[k]
  /\ Nameable(new.names, Orphanless(conv)[k])
  /\ Blocks(new.out) = Blocks(acc.out) \o Renamed(new.names, Orphanless(conv)[k])

(* So the blocks of the first k messages are said after those of k - 1.     *)
LEMMA SaidNext ==
  ASSUME NEW conv, IsConversation(conv), NEW k \in 1 .. Len(conv),
         NEW acc, SaidUpTo(conv, k - 1, acc), NEW new, SaysNext(conv, k, acc, new)
  PROVE  SaidUpTo(conv, k, new)
<1>1. PICK n \in Nat : n = Len(conv) /\ k \in 1 .. n BY ConversationLists
<1> DEFINE f == Orphanless(conv)
           g == SystemTexts(conv)
<1>2. \A i \in 1 .. n : IsList(f[i]) BY <1>1, ConversationLists
<1>3. \A i \in 1 .. n : IsList(g[i]) BY <1>1, ConversationLists
<1>4. /\ \A j \in 0 .. n : IsList(Flat(f, j))
      /\ \A j \in 1 .. n : Flat(f, j) = Flat(f, j - 1) \o f[j]
  BY ONLY <1>2, n \in Nat, FlatNext
<1>5. \A j \in 1 .. n : Flat(g, j) = Flat(g, j - 1) \o g[j]
  BY ONLY <1>3, n \in Nat, FlatNext
<1>6. PICK a, b, c : a = Flat(f, k - 1) /\ b = f[k] /\ c = Flat(f, k) OBVIOUS
<1> HIDE DEF f, g
<1>7. k - 1 \in 0 .. n BY <1>1
<1>8. c = a \o b BY ONLY <1>1, <1>4, <1>6
<1>9. IsList(a) /\ IsList(b) BY ONLY <1>1, <1>2, <1>4, <1>6, <1>7
<1>10. Nameable(acc.names, a) /\ Blocks(acc.out) = Renamed(acc.names, a)
  BY <1>6 DEF SaidUpTo, f
<1>11. Renamed(new.names, a) = Renamed(acc.names, a) /\ Nameable(new.names, a)
  BY <1>9, <1>10, RenamedStays DEF SaysNext
<1>12. Nameable(new.names, b) /\ Blocks(new.out) = Blocks(acc.out) \o Renamed(new.names, b)
  BY <1>6 DEF f, SaysNext
<1>13. Nameable(new.names, c) /\ Renamed(new.names, c) = Renamed(new.names, a) \o Renamed(new.names, b)
  BY <1>8, <1>9, <1>11, <1>12, RenamedConcat
<1>14. Blocks(new.out) = Renamed(new.names, c) BY <1>10, <1>11, <1>12, <1>13
<1>15. new.system = Flat(g, k) /\ SoundNames(new.names) /\ IsOut(new.out)
       /\ new = [system |-> new.system, out |-> new.out, names |-> new.names]
  <2>1. acc.system = Flat(g, k - 1) BY DEF SaidUpTo, g
  <2>2. Flat(g, k) = Flat(g, k - 1) \o g[k] BY ONLY <1>1, <1>5
  <2> QED BY <2>1, <2>2 DEF g, SaysNext
<1> QED BY <1>6, <1>13, <1>14, <1>15 DEF SaidUpTo, f, g

(* Names extend themselves.                                                 *)
LEMMA ExtendsNothing == ASSUME NEW names PROVE Extends(names, names, {})
BY DEF Extends

(* Blocks without ids are not changed by renaming.                          *)
LEMMA RenamedNothing ==
  ASSUME NEW names, NEW blocks, IsList(blocks), \A i \in DOMAIN blocks : blocks[i].id = None
  PROVE  Renamed(names, blocks) = blocks /\ Nameable(names, blocks)
<1> DEFINE f == Renamed(names, blocks)
<1>1. /\ IsList(f) /\ Len(f) = Len(blocks) /\ DOMAIN blocks = 1 .. Len(blocks)
      /\ \A i \in DOMAIN blocks : f[i] = blocks[i]
  BY RenamedIsList, ListElements
<1> HIDE DEF f
<1>2. f = blocks BY <1>1, ListsEqual
<1> QED BY <1>2 DEF f, Nameable

(* Every kind of message, system, tool, assistant and user, keeps SaidUpTo. *)
LEMMA AddMessageKeeps ==
  ASSUME NEW conv, IsConversation(conv), NEW k \in 1 .. Len(conv),
         NEW acc, SaidUpTo(conv, k - 1, acc)
  PROVE  SaidUpTo(conv, k, AddMessage(conv, acc, conv[k]))
<1> DEFINE m   == conv[k]
           new == AddMessage(conv, acc, m)
           o   == Orphanless(conv)[k]
           t   == SystemTexts(conv)[k]
<1>1. /\ IsMessage(m) /\ IsList(o) /\ IsList(t)
      /\ o = IF Orphaned(conv, m) THEN <<>> ELSE Says(m)
      /\ t = IF m.role = "system" THEN <<m.text>> ELSE <<>>
      /\ \A j \in 0 .. Len(conv) : IsList(Flat(SystemTexts(conv), j))
  <2>1. PICK n \in Nat : n = Len(conv) BY ConversationLists
  <2>2. \A i \in 1 .. n : IsList(SystemTexts(conv)[i]) BY <2>1, ConversationLists
  <2>3. \A j \in 0 .. n : IsList(Flat(SystemTexts(conv), j)) BY ONLY <2>2, n \in Nat, FlatNext
  <2> QED BY <2>1, <2>3, ConversationLists
<1>2. /\ acc = [system |-> acc.system, out |-> acc.out, names |-> acc.names]
      /\ SoundNames(acc.names) /\ IsOut(acc.out) /\ IsList(Blocks(acc.out))
      /\ IsList(acc.system)
  <2>1. k - 1 \in 0 .. Len(conv) BY ConversationLists
  <2>2. IsList(acc.system) BY <1>1, <2>1 DEF SaidUpTo
  <2>3. IsList(Blocks(acc.out)) BY EmptyIsList, BlocksAppend DEF SaidUpTo
  <2> QED BY <2>2, <2>3 DEF SaidUpTo
<1> HIDE DEF m, new, o, t
<1>3. Extends(acc.names, acc.names, {}) BY ExtendsNothing
<1>5. Renamed(acc.names, <<>>) = <<>> /\ Nameable(acc.names, <<>>)
  BY EmptyIsList, RenamedNothing
<1>6. /\ acc.system \o <<>> = acc.system /\ Blocks(acc.out) \o <<>> = Blocks(acc.out)
  BY <1>2, ConcatWithEmpty
<1>7. SaysNext(conv, k, acc, acc) \/ o # <<>> \/ t # <<>>
  BY <1>2, <1>3, <1>5, <1>6 DEF SaysNext, o, t
<1>8. CASE m.role = "system"
  <2>1. o = <<>> /\ t = <<m.text>> /\ m.text # None
    BY <1>1, <1>8 DEF IsMessage, Orphaned, Says
  <2>2. new = [acc EXCEPT !.system = Append(acc.system, m.text)]
    BY <1>8, <2>1 DEF new, AddMessage
  <2>3. /\ new = [system |-> new.system, out |-> new.out, names |-> new.names]
        /\ new.system = Append(acc.system, m.text) /\ new.out = acc.out /\ new.names = acc.names
    BY <1>2, <2>2
  <2>4. new.system = acc.system \o t BY <1>2, <2>1, <2>3, AppendedIsConcat
  <2>5. SaysNext(conv, k, acc, new)
    BY <1>2, <1>3, <1>5, <1>6, <2>1, <2>3, <2>4 DEF SaysNext, o, t
  <2> QED BY <2>5, SaidNext DEF new, m
<1>9. CASE m.role = "tool"
  <2>1. t = <<>> BY <1>1, <1>9
  <2>2. CASE Orphaned(conv, m)
    <3>1. o = <<>> BY <1>1, <2>2
    <3>2. new = acc BY <1>9, <2>2, Zenon DEF new, AddMessage
    <3> QED BY <1>7, <2>1, <3>1, <3>2, SaidNext DEF new, m
  <2>3. CASE ~Orphaned(conv, m)
    <3> DEFINE names == Named(acc.names, m.of)
               said  == Block("result", m.of, m.text)
               block == Block("result", names[m.of], m.text)
    <3>1. m.of \in DOMAIN Cleaned BY <1>1, <1>9 DEF IsMessage
    <3>2. SoundNames(names) /\ Extends(acc.names, names, {m.of}) BY <1>2, <3>1, NamedIsSound
    <3>3. new = [acc EXCEPT !.names = names, !.out = WithResult(@, block)]
      BY <1>9, <2>3, Zenon DEF new, AddMessage
    <3>4. o = <<said>> BY <1>1, <1>9, <2>3 DEF Says
    <3>5. said.kind = "result" /\ said.id = m.of /\ said.piece = m.text BY DEF Block
    <3>6. m.of # None BY <3>1, ConversationAssumption
    <3>7. m.of \in DOMAIN names BY <3>2 DEF Extends
    <3>8. block = Block(said.kind, names[said.id], said.piece) BY <3>5
    <3> HIDE DEF names, said, block
    <3>9. Renamed(names, <<said>>) = <<block>> /\ Nameable(names, <<said>>)
      <4>1. PICK s : s = <<said>> OBVIOUS
      <4>2. IsList(s) /\ Len(s) = 1 /\ s[1] = said /\ DOMAIN s = {1} BY <4>1, SingletonIsList
      <4>3. /\ IsList(Renamed(names, s)) /\ Len(Renamed(names, s)) = 1
            /\ Renamed(names, s)[1] = block
        BY <3>5, <3>6, <3>8, <4>2, RenamedIsList
      <4>4. PICK r, u : r = Renamed(names, s) /\ u = <<block>> OBVIOUS
      <4>5. IsList(u) /\ Len(u) = 1 /\ u[1] = block BY <4>4, SingletonIsList
      <4>6. \A i \in 1 .. Len(r) : r[i] = u[i]
        <5>1. Len(r) = 1 /\ r[1] = u[1] BY <4>3, <4>4, <4>5
        <5> QED BY ONLY <5>1
      <4>7. r = u BY <4>3, <4>4, <4>5, <4>6, ListsEqual
      <4>8. Nameable(names, s) BY <3>5, <3>7, <4>2 DEF Nameable
      <4> QED BY <4>1, <4>4, <4>7, <4>8
    <3>10. /\ new = [system |-> new.system, out |-> new.out, names |-> new.names]
           /\ new.system = acc.system /\ new.out = WithResult(acc.out, block)
           /\ new.names = names
      BY <1>2, <3>3
    <3>11. IsOut(new.out) /\ Blocks(new.out) = Blocks(acc.out) \o <<block>>
      BY <1>2, <3>10, WithResultAppends
    <3>12. SaysNext(conv, k, acc, new)
      BY <1>6, <2>1, <3>2, <3>4, <3>9, <3>10, <3>11 DEF SaysNext, o, t
    <3> QED BY <3>12, SaidNext DEF new, m
  <2> QED BY <2>2, <2>3
<1>10. CASE m.role = "assistant"
  <2> DEFINE names  == AllNamed(acc.names, m.calls)
             said   == TextBlock(m.text) \o CallBlocks(m.calls)
             blocks == Renamed(names, said)
  <2>1. t = <<>> BY <1>1, <1>10
  <2>2. o = said /\ IsList(said) BY <1>1, <1>10 DEF Orphaned, Says
  <2>3. m.calls \in Seq(DOMAIN Cleaned) BY <1>1 DEF IsMessage
  <2>4. SoundNames(names) /\ Extends(acc.names, names, ToSet(m.calls))
    BY <1>2, <2>3, AllNamedIsSound
  <2>5. new = IF blocks = <<>> THEN acc
              ELSE [acc EXCEPT !.names = names,
                               !.out = Append(@, [role |-> "assistant", blocks |-> blocks])]
    BY <1>10, Zenon DEF new, AddMessage
  <2>6. ASSUME NEW i \in DOMAIN said PROVE said[i].id = None \/ said[i].id \in DOMAIN names
    <3>1. said = Says(m) BY <1>10 DEF Says
    <3>2. IsBlock(said[i]) /\ (said[i].kind = "call" => said[i].id \in ToSet(m.calls))
          /\ said[i].kind # "result"
      BY <1>1, <1>10, <3>1, SaysBlocks
    <3> HIDE DEF said, names
    <3> QED BY <2>4, <3>2 DEF IsBlock, Extends
  <2> HIDE DEF names, said
  <2>7. Nameable(names, said) BY <2>6 DEF Nameable
  <2>8. IsList(blocks) /\ Len(blocks) = Len(said) BY <2>2, RenamedIsList
  <2>9. CASE blocks = <<>>
    <3>1. said = <<>>
      <4>1. Len(said) = 0 BY <2>8, <2>9
      <4>2. \A i \in 1 .. Len(said) : said[i] = <<>>[i] BY <4>1
      <4> HIDE DEF blocks
      <4> QED BY <2>2, <4>1, <4>2, EmptyIsList, ListsEqual
    <3>2. new = acc BY <2>5, <2>9
    <3> QED BY <1>7, <2>1, <2>2, <3>1, <3>2, SaidNext DEF new, m
  <2>10. CASE blocks # <<>>
    <3>1. new = [acc EXCEPT !.names = names,
                            !.out = Append(@, [role |-> "assistant", blocks |-> blocks])]
      BY <2>5, <2>10
    <3>2. /\ new = [system |-> new.system, out |-> new.out, names |-> new.names]
          /\ new.system = acc.system /\ new.names = names
          /\ new.out = Append(acc.out, [role |-> "assistant", blocks |-> blocks])
      BY <1>2, <3>1
    <3>3. IsOut(new.out) /\ Blocks(new.out) = Blocks(acc.out) \o blocks
      <4> HIDE DEF blocks
      <4>1. IsOut(acc.out) /\ IsList(blocks) BY <1>2, <2>8
      <4>2. PICK out : out = Append(acc.out, [role |-> "assistant", blocks |-> blocks]) OBVIOUS
      <4>3. IsOut(out) /\ Blocks(out) = Blocks(acc.out) \o blocks
        BY ONLY <4>1, <4>2, BlocksAppend
      <4> QED BY ONLY <3>2, <4>2, <4>3
    <3>4. SaysNext(conv, k, acc, new)
      BY <1>6, <2>1, <2>2, <2>4, <2>7, <3>2, <3>3 DEF SaysNext, o, t
    <3> QED BY <3>4, SaidNext DEF new, m
  <2> QED BY <2>9, <2>10
<1>11. CASE m.role = "user"
  <2> DEFINE said == TextBlock(m.text)
  <2>1. t = <<>> BY <1>1, <1>11
  <2>2. m.calls = <<>> BY <1>1, <1>11 DEF IsMessage
  <2>3. CallBlocks(m.calls) = <<>>
    <3>1. DOMAIN <<>> = {} OBVIOUS
    <3>2. CallBlocks(<<>>) = [i \in {} |-> Block("call", <<>>[i], None)] BY <3>1 DEF CallBlocks
    <3>3. \A f : f = [i \in {} |-> f[i]] => f = <<>> OBVIOUS
    <3> QED BY <2>2, <3>2, <3>3
  <2>4. IsList(said) /\ \A i \in DOMAIN said : said[i] = Block("text", None, m.text)
    BY TextBlockIsList
  <2>5. o = said
    <3>1. Says(m) = said \o <<>> BY <1>11, <2>3 DEF Says
    <3> HIDE DEF said
    <3>2. said \o <<>> = said BY <2>4, ConcatWithEmpty
    <3> QED BY <1>1, <1>11, <3>1, <3>2 DEF Orphaned
  <2>6. new = [acc EXCEPT !.out = Append(@, [role |-> "user", blocks |-> said])]
    BY <1>11 DEF new, AddMessage
  <2> HIDE DEF said
  <2>7. Renamed(acc.names, said) = said /\ Nameable(acc.names, said)
    <3>1. \A i \in DOMAIN said : said[i].id = None BY <2>4 DEF Block
    <3> QED BY <2>4, <3>1, RenamedNothing
  <2>8. /\ new = [system |-> new.system, out |-> new.out, names |-> new.names]
        /\ new.system = acc.system /\ new.names = acc.names
        /\ new.out = Append(acc.out, [role |-> "user", blocks |-> said])
    BY <1>2, <2>6
  <2>9. IsOut(new.out) /\ Blocks(new.out) = Blocks(acc.out) \o said
    <3>1. IsOut(acc.out) /\ IsList(said) BY <1>2, <2>4
    <3>2. PICK out : out = Append(acc.out, [role |-> "user", blocks |-> said]) OBVIOUS
    <3>3. IsOut(out) /\ Blocks(out) = Blocks(acc.out) \o said
      BY ONLY <3>1, <3>2, BlocksAppend
    <3> QED BY ONLY <2>8, <3>2, <3>3
  <2>10. SaysNext(conv, k, acc, new)
    BY <1>2, <1>3, <1>6, <2>1, <2>5, <2>7, <2>8, <2>9 DEF SaysNext, o, t
  <2> QED BY <2>10, SaidNext DEF new, m
<1> QED BY <1>1, <1>8, <1>9, <1>10, <1>11 DEF IsMessage, new, m

(* What an Anthropic request says, and under which names.                   *)
LEMMA ToAnthropicSays ==
  ASSUME NEW conv, IsConversation(conv)
  PROVE  SaidUpTo(conv, Len(conv), ToAnthropic(conv))
<1> DEFINE n == Len(conv)
           none == [system |-> <<>>, out |-> <<>>, names |-> <<>>]
<1>1. n \in Nat /\ DOMAIN conv = 1 .. n /\ IsList(conv) BY ConversationLists
<1>2. SaidUpTo(conv, 0, none)
  <2>1. DOMAIN <<>> = {} OBVIOUS
  <2>2. Flat(SystemTexts(conv), 0) = <<>> /\ Flat(Orphanless(conv), 0) = <<>>
    <3>1. 0 \in Nat /\ \A s : \A i \in 1 .. 0 : IsList(s[i]) OBVIOUS
    <3>2. \A s : Flat(s, 0) = <<>> BY ONLY <3>1, FlatNext
    <3> QED BY <3>2
  <2>3. SoundNames(<<>>) BY <2>1 DEF SoundNames
  <2>4. IsOut(<<>>) BY <2>1, EmptyIsList DEF IsOut
  <2>5. Blocks(<<>>) = <<>>
    <3>1. [i \in DOMAIN <<>> |-> <<>>[i].blocks] = <<>> BY <2>1
    <3>2. FlattenSeq(<<>>) = <<>> BY <2>1, EmptyIsList, FlattenNothing
    <3> QED BY <3>1, <3>2, Zenon DEF Blocks
  <2>6. Renamed(<<>>, <<>>) = <<>> /\ Nameable(<<>>, <<>>) BY <2>1, EmptyIsList, RenamedNothing
  <2> QED BY <2>2, <2>3, <2>4, <2>5, <2>6 DEF SaidUpTo
<1>3. \A k \in 1 .. n : \A acc :
        SaidUpTo(conv, k - 1, acc) => SaidUpTo(conv, k, AddOf(conv, acc, conv[k]))
  BY AddMessageKeeps DEF AddOf
<1> HIDE DEF n, none
<1>4. SaidUpTo(conv, n,
           (CHOOSE iter : iter =
              [s \in SUBSET DOMAIN conv |->
                 IF s = {} THEN none
                 ELSE AddOf(conv, iter[s \ {Max(s)}], conv[Max(s)])])[DOMAIN conv])
  BY <1>1, <1>2, <1>3, AddingFold
<1> QED BY <1>4, Zenon DEF n, none, ToAnthropic, AddOf, FoldLeft, MapThenFoldSet

(* Renaming by sound names tells the same ids apart.                        *)
LEMMA RenamedIsSame ==
  ASSUME NEW names, SoundNames(names), NEW blocks, IsList(blocks), Nameable(names, blocks)
  PROVE  SameUpToNames(blocks, Renamed(names, blocks))
<1> DEFINE f == Renamed(names, blocks)
<1>1. /\ IsList(f) /\ Len(f) = Len(blocks)
      /\ \A i \in DOMAIN blocks :
           f[i] = IF blocks[i].id = None THEN blocks[i]
                  ELSE Block(blocks[i].kind, names[blocks[i].id], blocks[i].piece)
  BY RenamedIsList
<1> HIDE DEF f
<1>2. \A id \in DOMAIN names : names[id] # None
  BY ConversationAssumption DEF SoundNames
<1>3. ASSUME NEW i \in DOMAIN blocks
      PROVE  /\ blocks[i].kind = f[i].kind /\ blocks[i].piece = f[i].piece
             /\ blocks[i].id = None => f[i].id = None
             /\ blocks[i].id # None => /\ blocks[i].id \in DOMAIN names
                                       /\ f[i].id = names[blocks[i].id]
  <2>1. CASE blocks[i].id = None BY <1>1, <2>1
  <2>2. CASE blocks[i].id # None
    <3>1. f[i] = Block(blocks[i].kind, names[blocks[i].id], blocks[i].piece) BY <1>1, <2>2
    <3>2. /\ f[i].kind = blocks[i].kind /\ f[i].piece = blocks[i].piece
          /\ f[i].id = names[blocks[i].id]
      BY <3>1 DEF Block
    <3> QED BY <2>2, <3>2 DEF Nameable
  <2> QED BY <2>1, <2>2
<1>4. ASSUME NEW i \in DOMAIN blocks, NEW j \in DOMAIN blocks
      PROVE  blocks[i].id = blocks[j].id <=> f[i].id = f[j].id
  <2>1. CASE blocks[i].id = None \/ blocks[j].id = None BY <1>2, <1>3, <2>1
  <2>2. CASE blocks[i].id # None /\ blocks[j].id # None
    <3>1. blocks[i].id \in DOMAIN names /\ blocks[j].id \in DOMAIN names BY <1>3, <2>2
    <3>2. f[i].id = names[blocks[i].id] /\ f[j].id = names[blocks[j].id] BY <1>3, <2>2
    <3> QED BY <3>1, <3>2 DEF SoundNames
  <2> QED BY <2>1, <2>2
<1> QED BY <1>1, <1>3, <1>4 DEF SameUpToNames, f

(* The Anthropic adapter keeps a conversation: but for results of no call,   *)
(* what it sends is what was said, in its order, ids renamed one to one, and *)
(* the system text is the instructions of all the system messages.          *)
THEOREM AnthropicKept == ASSUME NEW conv, IsConversation(conv) PROVE AnthropicKeeps(conv)
<1>0. PICK acc : acc = ToAnthropic(conv) OBVIOUS
<1>1. PICK n \in Nat : n = Len(conv) BY ConversationLists
<1>2. SaidUpTo(conv, n, acc) BY <1>0, <1>1, ToAnthropicSays
<1>3. PICK w : w = WithoutOrphans(conv) OBVIOUS
<1>4. w = Flat(Orphanless(conv), n) /\ Instructions(conv) = Flat(SystemTexts(conv), n)
  BY <1>1, <1>3, ConversationLists
<1>5. IsList(w)
  <2>1. \A i \in 1 .. n : IsList(Orphanless(conv)[i]) BY <1>1, ConversationLists
  <2>2. \A k \in 0 .. n : IsList(Flat(Orphanless(conv), k)) BY ONLY <2>1, n \in Nat, FlatNext
  <2> QED BY <1>4, <2>2
<1>6. SameUpToNames(w, Renamed(acc.names, w)) BY <1>2, <1>4, <1>5, RenamedIsSame DEF SaidUpTo
<1>7. Blocks(acc.out) = Renamed(acc.names, w) /\ acc.system = Instructions(conv)
  BY <1>2, <1>4 DEF SaidUpTo
<1> QED BY <1>0, <1>3, <1>6, <1>7 DEF AnthropicKeeps

(* Of a conversation whose results all answer a call nothing is dropped.    *)
LEMMA NoneOrphaned ==
  ASSUME NEW conv, IsConversation(conv), ResultsAnswer(Contents(conv))
  PROVE  WithoutOrphans(conv) = Contents(conv)
<1> DEFINE says == [i \in DOMAIN conv |-> Says(conv[i])]
<1>1. PICK n \in Nat : /\ n = Len(conv) /\ DOMAIN conv = 1 .. n
                       /\ \A i \in 1 .. n : IsMessage(conv[i])
  BY ConversationLists
<1>2. \A i \in 1 .. n : says[i] = Says(conv[i]) /\ IsList(says[i]) BY <1>1, SaysBlocks
<1>3. says = [i \in 1 .. n |-> says[i]] BY <1>1
<1>4. Contents(conv) = FlattenSeq(says) BY DEF Contents
<1> HIDE DEF says
<1>5. IsList(says) /\ Len(says) = n BY ONLY <1>3, n \in Nat, FunctionIsList
<1>6. DOMAIN says = 1 .. n BY <1>3
<1>7. PICK c : c = FlattenSeq(says) OBVIOUS
<1>8. /\ \A i \in DOMAIN c : \E j \in 1 .. n : \E l \in DOMAIN says[j] : c[i] = says[j][l]
      /\ \A j \in 1 .. n : \A l \in DOMAIN says[j] : \E i \in DOMAIN c : c[i] = says[j][l]
      /\ IsList(c)
  BY <1>2, <1>5, <1>6, <1>7, FlattenElements
<1>9. ASSUME NEW k \in 1 .. n PROVE ~Orphaned(conv, conv[k])
  <2> SUFFICES ASSUME conv[k].role = "tool" PROVE conv[k].of \in SeenCalls(conv)
    BY DEF Orphaned
  <2>1. PICK b : b = Block("result", conv[k].of, conv[k].text) OBVIOUS
  <2>2. says[k] = <<b>> BY <1>2, <2>1 DEF Says
  <2>3. 1 \in DOMAIN says[k] /\ says[k][1] = b BY <2>2
  <2>4. PICK i \in DOMAIN c : c[i] = b BY <1>8, <2>3
  <2>5. c[i].kind = "result" /\ c[i].id = conv[k].of BY <2>1, <2>4 DEF Block
  <2>6. PICK j \in 1 .. i - 1 : c[j].kind = "call" /\ c[j].id = conv[k].of
    BY <1>4, <1>7, <2>5 DEF ResultsAnswer
  <2>7. j \in DOMAIN c
    <3>1. DOMAIN c = 1 .. Len(c) /\ Len(c) \in Nat BY <1>8, ListElements
    <3> QED BY <3>1
  <2>8. PICK h \in 1 .. n : \E l \in DOMAIN says[h] : c[j] = says[h][l] BY <1>8, <2>7
  <2>9. conv[h].role = "assistant" /\ conv[k].of \in ToSet(conv[h].calls)
    BY <1>1, <1>2, <2>6, <2>8, SaysBlocks
  <2> QED BY <1>1, <2>9 DEF SeenCalls
<1>10. Orphanless(conv) = says BY <1>1, <1>9 DEF Orphanless, says
<1> QED BY <1>4, <1>10, Zenon DEF WithoutOrphans, Orphanless

(* Renaming one to one keeps which result answers which call.               *)
LEMMA SameAnswers ==
  ASSUME NEW a, NEW b, IsList(a), IsList(b), SameUpToNames(a, b), ResultsAnswer(a)
  PROVE  ResultsAnswer(b)
<1>1. PICK n \in Nat : DOMAIN a = 1 .. n /\ DOMAIN b = 1 .. n BY ListElements DEF SameUpToNames
<1> SUFFICES ASSUME NEW i \in 1 .. n, b[i].kind = "result"
             PROVE  \E j \in 1 .. i - 1 : b[j].kind = "call" /\ b[j].id = b[i].id
  BY <1>1 DEF ResultsAnswer
<1>2. a[i].kind = "result" BY <1>1 DEF SameUpToNames
<1>3. PICK j \in 1 .. i - 1 : a[j].kind = "call" /\ a[j].id = a[i].id
  BY <1>1, <1>2 DEF ResultsAnswer
<1>4. j \in 1 .. n OBVIOUS
<1>5. b[j].kind = "call" /\ b[j].id = b[i].id BY <1>1, <1>3, <1>4 DEF SameUpToNames
<1> QED BY <1>5

(* And when every result answers a call before it, it does so upstream.      *)
THEOREM AnthropicAnswers ==
  ASSUME NEW conv, IsConversation(conv), ResultsAnswer(Contents(conv))
  PROVE  ResultsAnswer(Blocks(ToAnthropic(conv).out))
<1>1. PICK a, b : a = WithoutOrphans(conv) /\ b = Blocks(ToAnthropic(conv).out) OBVIOUS
<1>2. SameUpToNames(a, b) BY <1>1, AnthropicKept DEF AnthropicKeeps
<1>3. ResultsAnswer(a) BY <1>1, NoneOrphaned
<1>4. IsList(b)
  <2>1. IsOut(ToAnthropic(conv).out) BY ToAnthropicSays DEF SaidUpTo
  <2> QED BY <1>1, <2>1, EmptyIsList, BlocksAppend
<1>5. IsList(a)
  <2>1. PICK n \in Nat : n = Len(conv) BY ConversationLists
  <2>2. \A i \in 1 .. n : IsList(Orphanless(conv)[i]) BY <2>1, ConversationLists
  <2>3. \A k \in 0 .. n : IsList(Flat(Orphanless(conv), k)) BY ONLY <2>2, n \in Nat, FlatNext
  <2>4. a = Flat(Orphanless(conv), n) BY <1>1, <2>1, ConversationLists
  <2> QED BY <2>3, <2>4
<1> QED BY <1>1, <1>2, <1>3, <1>4, <1>5, SameAnswers

-----------------------------------------------------------------------------
(* Codex and Bedrock.                                                       *)

SaysLists(conv) == [i \in DOMAIN conv |-> Says(conv[i])]

(* The list that Contents flattens.                                         *)
LEMMA ContentsLists ==
  ASSUME NEW conv, IsConversation(conv)
  PROVE  /\ IsList(SaysLists(conv)) /\ Len(SaysLists(conv)) = Len(conv)
         /\ \A i \in 1 .. Len(conv) :
              SaysLists(conv)[i] = Says(conv[i]) /\ IsList(SaysLists(conv)[i])
         /\ Contents(conv) = Flat(SaysLists(conv), Len(conv))
<1>1. PICK n \in Nat : /\ n = Len(conv) /\ DOMAIN conv = 1 .. n
                       /\ \A i \in 1 .. n : IsMessage(conv[i])
  BY ConversationLists
<1> DEFINE f == SaysLists(conv)
<1>2. \A i \in 1 .. n : f[i] = Says(conv[i]) /\ IsList(f[i]) BY <1>1, SaysBlocks DEF SaysLists
<1>3. f = [i \in 1 .. n |-> f[i]] BY <1>1 DEF SaysLists
<1>4. Contents(conv) = FlattenSeq(f) BY Zenon DEF Contents, SaysLists
<1> HIDE DEF f
<1>5. IsList(f) /\ Len(f) = n BY ONLY <1>3, n \in Nat, FunctionIsList
<1>6. FlattenSeq(f) = Flat(f, n) BY ONLY <1>5, FlattenIsFlat
<1> QED BY <1>1, <1>2, <1>4, <1>5, <1>6 DEF f

(* The Codex adapter sends what was said, in its order and under its ids.    *)
THEOREM CodexKept == ASSUME NEW conv, IsConversation(conv) PROVE CodexKeeps(conv)
<1> DEFINE out == [i \in DOMAIN conv |-> [role |-> conv[i].role, blocks |-> CodexItems(conv[i])]]
           f   == [i \in DOMAIN out |-> out[i].blocks]
           g   == [i \in DOMAIN conv |-> Says(conv[i])]
<1>1. \A m : CodexItems(m) = Says(m) BY DEF CodexItems, Says
<1>2. DOMAIN out = DOMAIN conv /\ \A i \in DOMAIN conv : out[i].blocks = Says(conv[i])
  BY <1>1
<1>3. f = g BY <1>2
<1>4. ToCodex(conv).out = out BY DEF ToCodex
<1>5. Blocks(out) = FlattenSeq(f) BY DEF Blocks
<1>6. Contents(conv) = FlattenSeq(g) BY DEF Contents
<1> HIDE DEF out, f, g
<1> QED BY <1>3, <1>4, <1>5, <1>6 DEF CodexKeeps

(* The pieces of blocks, one for each.                                      *)
LEMMA PiecesAreList ==
  ASSUME NEW blocks, IsList(blocks)
  PROVE  /\ IsList(Pieces(blocks)) /\ Len(Pieces(blocks)) = Len(blocks)
         /\ DOMAIN Pieces(blocks) = DOMAIN blocks
         /\ \A i \in DOMAIN blocks : Pieces(blocks)[i] = blocks[i].piece
<1> DEFINE f == Pieces(blocks)
<1>1. PICK n \in Nat : n = Len(blocks) /\ DOMAIN blocks = 1 .. n BY ListElements
<1>2. DOMAIN f = 1 .. n /\ \A i \in DOMAIN blocks : f[i] = blocks[i].piece BY <1>1 DEF Pieces
<1>3. f = [i \in 1 .. n |-> f[i]] BY <1>1 DEF Pieces
<1> HIDE DEF f
<1>4. IsList(f) /\ Len(f) = n BY ONLY <1>3, n \in Nat, FunctionIsList
<1> QED BY <1>1, <1>2, <1>4 DEF f

(* Pieces go along a concatenation.                                         *)
LEMMA PiecesConcat ==
  ASSUME NEW a, NEW b, IsList(a), IsList(b)
  PROVE  Pieces(a \o b) = Pieces(a) \o Pieces(b)
<1>1. PICK c : c = a \o b OBVIOUS
<1>2. PICK pa, pb, pc : pa = Pieces(a) /\ pb = Pieces(b) /\ pc = Pieces(c) OBVIOUS
<1>3. PICK d : d = pa \o pb OBVIOUS
<1>4. IsConcat(c, a, b) BY <1>1, ConcatElements
<1>5. IsList(pa) /\ Len(pa) = Len(a) /\ DOMAIN pa = DOMAIN a /\ \A i \in DOMAIN a : pa[i] = a[i].piece
  BY <1>2, PiecesAreList
<1>6. IsList(pb) /\ Len(pb) = Len(b) /\ DOMAIN pb = DOMAIN b /\ \A i \in DOMAIN b : pb[i] = b[i].piece
  BY <1>2, PiecesAreList
<1>7. IsList(pc) /\ Len(pc) = Len(c) /\ DOMAIN pc = DOMAIN c /\ \A i \in DOMAIN c : pc[i] = c[i].piece
  <2>1. IsList(c) BY <1>4 DEF IsConcat
  <2> QED BY <1>2, <2>1, PiecesAreList
<1>8. IsConcat(d, pa, pb) BY <1>3, <1>5, <1>6, ConcatElements
<1>9. \A i \in 1 .. Len(pc) : pc[i] = d[i]
  <2> TAKE i \in 1 .. Len(pc)
  <2>1. i \in DOMAIN c BY <1>4, <1>7 DEF IsConcat
  <2>2. CASE i \in DOMAIN a BY <1>4, <1>5, <1>7, <1>8, <2>2 DEF IsConcat
  <2>3. CASE i \notin DOMAIN a
    <3>1. PICK j \in DOMAIN b : i = Len(a) + j BY <1>4, <2>1, <2>3 DEF IsConcat
    <3>2. c[i] = b[j] BY <1>4, <3>1 DEF IsConcat
    <3>3. d[i] = pb[j] BY <1>5, <1>6, <1>8, <3>1 DEF IsConcat
    <3> QED BY <1>6, <1>7, <2>1, <3>2, <3>3
  <2> QED BY <2>2, <2>3
<1>10. Len(pc) = Len(d) /\ IsList(d) BY <1>4, <1>5, <1>6, <1>7, <1>8 DEF IsConcat
<1>11. pc = d BY <1>7, <1>9, <1>10, ListsEqual
<1> QED BY <1>1, <1>2, <1>3, <1>11

Spoken == {"text", "result"}

(* Of what a message says, its text or its result is spoken, and no call.   *)
LEMMA SpokenOfSays ==
  ASSUME NEW m, IsMessage(m)
  PROVE  Pieces(OfKind(Says(m), Spoken)) =
           IF m.role = "system" \/ m.text = None THEN <<>> ELSE <<m.text>>
<1>1. \A b : Pieces(<<b>>) = <<b.piece>>
  <2> TAKE b
  <2>1. PICK s, t : s = <<b>> /\ t = <<b.piece>> OBVIOUS
  <2>2. IsList(s) /\ Len(s) = 1 /\ s[1] = b /\ DOMAIN s = {1} BY <2>1, SingletonIsList
  <2>3. IsList(t) /\ Len(t) = 1 /\ t[1] = b.piece BY <2>1, SingletonIsList
  <2>4. IsList(Pieces(s)) /\ Len(Pieces(s)) = 1 /\ Pieces(s)[1] = b.piece
    BY <2>2, PiecesAreList
  <2>5. PICK p : p = Pieces(s) OBVIOUS
  <2>6. \A i \in 1 .. Len(p) : p[i] = t[i]
    <3>1. Len(p) = 1 /\ p[1] = t[1] BY <2>3, <2>4, <2>5
    <3> QED BY ONLY <3>1
  <2>7. p = t BY <2>3, <2>4, <2>5, <2>6, ListsEqual
  <2> QED BY <2>1, <2>5, <2>7
<1>2. Pieces(<<>>) = <<>>
  <2>1. DOMAIN <<>> = {} OBVIOUS
  <2>2. Pieces(<<>>) = [i \in {} |-> <<>>[i].piece] BY <2>1 DEF Pieces
  <2>3. \A f : f = [i \in {} |-> f[i]] => f = <<>> OBVIOUS
  <2> QED BY <2>2, <2>3
<1>3. OfKind(<<>>, Spoken) = <<>>
  <2>1. DOMAIN <<>> = {} OBVIOUS
  <2> QED BY <2>1, EmptyIsList, OfKindNone
<1>4. CASE m.role = "system"
  <2>1. Says(m) = <<>> BY <1>4 DEF Says
  <2> QED BY <1>4, <1>2, <1>3, <2>1
<1>5. CASE m.role = "tool"
  <2>1. PICK b : b = Block("result", m.of, m.text) OBVIOUS
  <2>2. PICK s : s = <<b>> OBVIOUS
  <2>3. Says(m) = s BY <1>5, <2>1, <2>2 DEF Says
  <2>4. IsList(s) /\ DOMAIN s = {1} /\ s[1] = b BY <2>2, SingletonIsList
  <2>5. b.kind \in Spoken /\ b.piece = m.text BY <2>1 DEF Block, Spoken
  <2>6. \A i \in DOMAIN s : s[i].kind \in Spoken BY <2>4, <2>5
  <2>7. OfKind(s, Spoken) = s BY <2>4, <2>6, OfKindAll
  <2>8. m.text # None BY <1>5 DEF IsMessage
  <2> QED BY <1>1, <1>5, <2>2, <2>3, <2>5, <2>7, <2>8
<1>6. CASE m.role # "system" /\ m.role # "tool"
  <2>1. PICK a, b : a = TextBlock(m.text) /\ b = CallBlocks(m.calls) OBVIOUS
  <2>2. IsList(a) /\ \A i \in DOMAIN a : a[i] = Block("text", None, m.text)
    BY <2>1, TextBlockIsList
  <2>3. IsList(b) /\ \A i \in DOMAIN b : b[i] = Block("call", m.calls[i], None)
    <3>1. m.calls \in Seq(DOMAIN Cleaned) BY DEF IsMessage
    <3> QED BY <2>1, <3>1, CallBlocksAreList
  <2>4. Says(m) = a \o b BY <1>6, <2>1 DEF Says
  <2>5. \A i \in DOMAIN a : a[i].kind \in Spoken BY <2>2 DEF Block, Spoken
  <2>6. \A i \in DOMAIN b : b[i].kind \notin Spoken BY <2>3 DEF Block, Spoken
  <2>7. OfKind(a, Spoken) = a BY <2>2, <2>5, OfKindAll
  <2>8. OfKind(b, Spoken) = <<>> BY <2>3, <2>6, OfKindNone
  <2>9. OfKind(a \o b, Spoken) = a \o <<>>
    <3>1. IsList(a) /\ IsList(b) BY <2>2, <2>3
    <3>2. \A kinds : OfKind(a \o b, kinds) = OfKind(a, kinds) \o OfKind(b, kinds)
      BY ONLY <3>1, OfKindConcat
    <3> QED BY <2>7, <2>8, <3>2
  <2>10. OfKind(Says(m), Spoken) = a BY <2>2, <2>4, <2>9, ConcatWithEmpty
  <2>11. CASE m.text = None
    <3>1. a = <<>> BY <2>1, <2>11 DEF TextBlock
    <3> QED BY <1>2, <2>10, <2>11, <3>1
  <2>12. CASE m.text # None
    <3>1. PICK x : x = Block("text", None, m.text) OBVIOUS
    <3>2. a = <<x>> BY <2>1, <2>12, <3>1 DEF TextBlock
    <3>3. x.piece = m.text BY <3>1 DEF Block
    <3> QED BY <1>1, <1>6, <2>10, <2>12, <3>2, <3>3
  <2> QED BY <2>11, <2>12
<1> QED BY <1>4, <1>5, <1>6

BedrockLists(conv) == [i \in DOMAIN conv |-> BedrockMessage(conv[i])]

(* The list that ToBedrock flattens.                                        *)
LEMMA BedrockListsAre ==
  ASSUME NEW conv, IsConversation(conv)
  PROVE  /\ \A i \in 1 .. Len(conv) :
              /\ BedrockLists(conv)[i] = BedrockMessage(conv[i])
              /\ IsList(BedrockLists(conv)[i])
         /\ ToBedrock(conv).out = Flat(BedrockLists(conv), Len(conv))
         /\ ToBedrock(conv).system = Instructions(conv)
<1>1. PICK n \in Nat : /\ n = Len(conv) /\ DOMAIN conv = 1 .. n
                       /\ \A i \in 1 .. n : IsMessage(conv[i])
  BY ConversationLists
<1> DEFINE f == BedrockLists(conv)
           g == [i \in DOMAIN conv |->
                   IF conv[i].role = "system" /\ conv[i].text # None THEN <<conv[i].text>> ELSE <<>>]
           h == [i \in DOMAIN conv |-> IF conv[i].role = "system" THEN <<conv[i].text>> ELSE <<>>]
<1>2. \A i \in 1 .. n : f[i] = BedrockMessage(conv[i]) BY <1>1 DEF BedrockLists
<1>3. \A i \in 1 .. n : IsList(f[i])
  BY <1>2, EmptyIsList, SingletonIsList DEF BedrockMessage
<1>4. f = [i \in 1 .. n |-> f[i]] BY <1>1 DEF BedrockLists
<1>5. g = h BY <1>1 DEF IsMessage
<1>6. Instructions(conv) = FlattenSeq(h) BY DEF Instructions
<1>7. ToBedrock(conv).system = FlattenSeq(g) /\ ToBedrock(conv).out = FlattenSeq(f)
  BY DEF ToBedrock, BedrockLists
<1> HIDE DEF f, g, h
<1>8. IsList(f) /\ Len(f) = n BY ONLY <1>4, n \in Nat, FunctionIsList
<1>9. FlattenSeq(f) = Flat(f, n) BY ONLY <1>8, FlattenIsFlat
<1> QED BY <1>1, <1>2, <1>3, <1>5, <1>6, <1>7, <1>9 DEF f

(* The Bedrock adapter sends the pieces of every text and every result in    *)
(* their order, and the instructions; the calls it leaves out.              *)
THEOREM BedrockKept == ASSUME NEW conv, IsConversation(conv) PROVE BedrockKeeps(conv)
<1>1. PICK n \in Nat : n = Len(conv) /\ \A i \in 1 .. n : IsMessage(conv[i])
  BY ConversationLists
<1>2. PICK f, g : f = BedrockLists(conv) /\ g = SaysLists(conv) OBVIOUS
<1>3. \A i \in 1 .. n : IsList(f[i]) /\ f[i] = BedrockMessage(conv[i])
  BY <1>1, <1>2, BedrockListsAre
<1>4. \A i \in 1 .. n : IsList(g[i]) /\ g[i] = Says(conv[i])
  BY <1>1, <1>2, ContentsLists
<1>5. /\ Flat(f, 0) = <<>>
      /\ \A k \in 1 .. n : Flat(f, k) = Flat(f, k - 1) \o f[k]
  <2>1. \A i \in 1 .. n : IsList(f[i]) BY <1>3
  <2> QED BY ONLY <2>1, n \in Nat, FlatNext
<1>6. /\ Flat(g, 0) = <<>> /\ \A k \in 0 .. n : IsList(Flat(g, k))
      /\ \A k \in 1 .. n : Flat(g, k) = Flat(g, k - 1) \o g[k]
  <2>1. \A i \in 1 .. n : IsList(g[i]) BY <1>4
  <2> QED BY ONLY <2>1, n \in Nat, FlatNext
<1> DEFINE Same(k) == /\ IsOut(Flat(f, k))
                      /\ Pieces(Blocks(Flat(f, k))) = Pieces(OfKind(Flat(g, k), Spoken))
           T == {k \in Nat : k <= n => Same(k)}
<1>7. 0 \in T
  <2>1. DOMAIN <<>> = {} OBVIOUS
  <2>2. IsOut(<<>>) BY <2>1, EmptyIsList DEF IsOut
  <2>3. Blocks(<<>>) = <<>>
    <3>1. [i \in DOMAIN <<>> |-> <<>>[i].blocks] = <<>> BY <2>1
    <3>2. FlattenSeq(<<>>) = <<>> BY <2>1, EmptyIsList, FlattenNothing
    <3> QED BY <3>1, <3>2, Zenon DEF Blocks
  <2>4. OfKind(<<>>, Spoken) = <<>> BY <2>1, EmptyIsList, OfKindNone
  <2> QED BY <1>5, <1>6, <2>2, <2>3, <2>4
<1>8. ASSUME NEW k \in T PROVE k + 1 \in T
  <2> SUFFICES ASSUME k + 1 <= n PROVE Same(k + 1) OBVIOUS
  <2>1. k + 1 \in 1 .. n /\ (k + 1) - 1 = k /\ k \in 0 .. n OBVIOUS
  <2>2. PICK m : m = conv[k + 1] /\ IsMessage(m) BY <1>1, <2>1
  <2>3. PICK a, b : a = Flat(f, k) /\ b = Flat(g, k) OBVIOUS
  <2>4. IsOut(a) /\ Pieces(Blocks(a)) = Pieces(OfKind(b, Spoken)) BY <2>1, <2>3
  <2> HIDE DEF T
  <2>5. Flat(f, k + 1) = a \o BedrockMessage(m) BY ONLY <1>3, <1>5, <2>1, <2>2, <2>3
  <2>6. Flat(g, k + 1) = b \o Says(m) BY ONLY <1>4, <1>6, <2>1, <2>2, <2>3
  <2>7. IsList(b) /\ IsList(Says(m)) BY ONLY <1>6, <2>1, <2>2, <2>3, SaysBlocks
  <2>8. Pieces(OfKind(b \o Says(m), Spoken))
          = Pieces(OfKind(b, Spoken)) \o Pieces(OfKind(Says(m), Spoken))
    <3>1. PICK c : c = Says(m) OBVIOUS
    <3>2. \A kinds : OfKind(b \o c, kinds) = OfKind(b, kinds) \o OfKind(c, kinds)
      BY ONLY <2>7, <3>1, OfKindConcat
    <3>3. PICK x, y : x = OfKind(b, Spoken) /\ y = OfKind(c, Spoken) OBVIOUS
    <3>4. IsList(x) /\ IsList(y) BY <2>7, <3>1, <3>3, OfKindElements
    <3>5. Pieces(x \o y) = Pieces(x) \o Pieces(y) BY ONLY <3>4, PiecesConcat
    <3> QED BY <3>1, <3>2, <3>3, <3>5
  <2>9. CASE m.text = None \/ m.role = "system"
    <3>1. BedrockMessage(m) = <<>> BY <2>9 DEF BedrockMessage
    <3>2. Pieces(OfKind(Says(m), Spoken)) = <<>> BY <2>2, <2>9, SpokenOfSays
    <3>3. a \o <<>> = a BY <2>4, ConcatWithEmpty DEF IsOut
    <3>4. PICK p : p = Pieces(OfKind(b, Spoken)) OBVIOUS
    <3>5. IsList(p) BY <2>7, <3>4, OfKindElements, PiecesAreList
    <3>6. p \o <<>> = p BY <3>5, ConcatWithEmpty
    <3> QED BY <2>4, <2>5, <2>6, <2>8, <3>1, <3>2, <3>3, <3>4, <3>6
  <2>10. CASE m.text # None /\ m.role # "system"
    <3>1. PICK role, blocks :
            /\ role = IF m.role = "assistant" THEN "assistant" ELSE "user"
            /\ blocks = TextBlock(m.text)
      OBVIOUS
    <3>2. PICK out : out = Append(a, [role |-> role, blocks |-> blocks]) OBVIOUS
    <3>3. IsList(blocks) BY <3>1, TextBlockIsList
    <3>4. Flat(f, k + 1) = out
      <4>1. BedrockMessage(m) = <<[role |-> role, blocks |-> blocks]>>
        BY <2>10, <3>1 DEF BedrockMessage
      <4>2. PICK r : r = [role |-> role, blocks |-> blocks] OBVIOUS
      <4>3. Append(a, r) = a \o <<r>> BY <2>4, AppendedIsConcat DEF IsOut
      <4> QED BY <2>5, <3>2, <4>1, <4>2, <4>3
    <3>5. IsOut(out) /\ Blocks(out) = Blocks(a) \o blocks /\ IsList(Blocks(a))
      BY ONLY <2>4, <3>2, <3>3, BlocksAppend
    <3>6. PICK x : x = Blocks(a) OBVIOUS
    <3>7. Pieces(x \o blocks) = Pieces(x) \o Pieces(blocks)
      BY <3>3, <3>5, <3>6, PiecesConcat
    <3>8. Pieces(blocks) = <<m.text>>
      <4>1. PICK c : c = Block("text", None, m.text) OBVIOUS
      <4>2. blocks = <<c>> BY <2>10, <3>1, <4>1 DEF TextBlock
      <4>3. c.piece = m.text BY <4>1 DEF Block
      <4>4. DOMAIN <<c>> = {1} /\ <<c>>[1] = c OBVIOUS
      <4>5. Pieces(blocks) = [i \in {1} |-> m.text] BY <4>2, <4>3, <4>4 DEF Pieces
      <4>6. <<m.text>> = [i \in {1} |-> m.text] OBVIOUS
      <4> QED BY <4>5, <4>6
    <3>9. Pieces(OfKind(Says(m), Spoken)) = <<m.text>> BY <2>2, <2>10, SpokenOfSays
    <3> QED BY <2>4, <2>6, <2>8, <3>4, <3>5, <3>6, <3>7, <3>8, <3>9
  <2> QED BY <2>9, <2>10
<1>9. n \in T
  <2> HIDE DEF T
  <2>1. T \in SUBSET Nat BY DEF T
  <2> QED BY <2>1, <1>7, <1>8, Keeping!SetInduction
<1>10. Same(n) BY <1>9
<1>11. ToBedrock(conv).out = Flat(f, n) /\ Contents(conv) = Flat(g, n)
       /\ ToBedrock(conv).system = Instructions(conv)
  BY <1>1, <1>2, BedrockListsAre, ContentsLists
<1> HIDE DEF T
<1> QED BY <1>10, <1>11 DEF BedrockKeeps, Spoken

-----------------------------------------------------------------------------
(* The translation of /v1/messages.                                         *)

(* A list of messages is a conversation.                                    *)
LEMMA MessagesMakeConversation ==
  ASSUME NEW conv, IsList(conv), \A i \in DOMAIN conv : IsMessage(conv[i])
  PROVE  IsConversation(conv)
<1>1. conv \in Seq({conv[i] : i \in DOMAIN conv}) BY ListElements
<1> QED BY <1>1 DEF IsConversation, Range

(* What a conversation says is a list.                                      *)
LEMMA ContentsIsList ==
  ASSUME NEW conv, IsConversation(conv) PROVE IsList(Contents(conv))
<1>1. PICK n \in Nat : n = Len(conv) BY ConversationLists
<1>2. PICK f : f = SaysLists(conv) OBVIOUS
<1>3. \A i \in 1 .. n : IsList(f[i]) BY <1>1, <1>2, ContentsLists
<1>4. \A k \in 0 .. n : IsList(Flat(f, k)) BY ONLY <1>3, n \in Nat, FlatNext
<1>5. Contents(conv) = Flat(f, n) BY <1>1, <1>2, ContentsLists
<1> QED BY <1>4, <1>5

(* Two conversations, one after the other, are one and say what both say.   *)
LEMMA ContentsConcat ==
  ASSUME NEW a, NEW b, IsConversation(a), IsConversation(b)
  PROVE  /\ IsConversation(a \o b)
         /\ Contents(a \o b) = Contents(a) \o Contents(b)
<1>1. PICK c : c = a \o b OBVIOUS
<1>2. IsList(a) /\ IsList(b) BY ConversationLists
<1>3. IsConcat(c, a, b) BY <1>1, <1>2, ConcatElements
<1>4. IsConversation(c)
  <2>1. ASSUME NEW i \in DOMAIN c PROVE IsMessage(c[i])
    <3>1. CASE i \in DOMAIN a BY <1>3, <3>1 DEF IsConcat, IsConversation
    <3>2. CASE i \notin DOMAIN a
      <4>1. PICK j \in DOMAIN b : i = Len(a) + j BY <1>3, <3>2 DEF IsConcat
      <4>2. c[i] = b[j] BY <1>3, <4>1 DEF IsConcat
      <4> QED BY <4>2 DEF IsConversation
    <3> QED BY <3>1, <3>2
  <2> QED BY <1>3, <2>1, MessagesMakeConversation DEF IsConcat
<1>5. PICK fa, fb, fc : fa = SaysLists(a) /\ fb = SaysLists(b) /\ fc = SaysLists(c) OBVIOUS
<1>6. PICK m \in Nat, n \in Nat : m = Len(a) /\ n = Len(b) BY <1>2, ListElements
<1>7. Len(c) = m + n BY <1>3, <1>6 DEF IsConcat
<1>8. /\ IsList(fa) /\ Len(fa) = m /\ FlattenSeq(fa) = Contents(a)
      /\ \A i \in 1 .. m : fa[i] = Says(a[i]) /\ IsList(fa[i])
  BY <1>5, <1>6, ContentsLists, Zenon DEF Contents, SaysLists
<1>9. /\ IsList(fb) /\ Len(fb) = n /\ FlattenSeq(fb) = Contents(b)
      /\ \A i \in 1 .. n : fb[i] = Says(b[i]) /\ IsList(fb[i])
  BY <1>5, <1>6, ContentsLists, Zenon DEF Contents, SaysLists
<1>10. /\ IsList(fc) /\ Len(fc) = m + n /\ FlattenSeq(fc) = Contents(c)
       /\ \A i \in 1 .. m + n : fc[i] = Says(c[i]) /\ IsList(fc[i])
  BY <1>4, <1>5, <1>7, ContentsLists, Zenon DEF Contents, SaysLists
<1>11. \A i \in 1 .. m : IsList(fa[i]) /\ fc[i] = fa[i]
  <2> TAKE i \in 1 .. m
  <2>1. i \in 1 .. m + n /\ c[i] = a[i] BY <1>3, <1>6 DEF IsConcat
  <2> QED BY <1>8, <1>10, <2>1
<1>12. \A i \in 1 .. n : IsList(fb[i]) /\ fc[m + i] = fb[i]
  <2> TAKE i \in 1 .. n
  <2>1. m + i \in 1 .. m + n /\ c[m + i] = b[i] BY <1>3, <1>6 DEF IsConcat
  <2> QED BY <1>9, <1>10, <2>1
<1>13. FlattenSeq(fc) = FlattenSeq(fa) \o FlattenSeq(fb)
  <2>1. /\ \A i \in 1 .. Len(fa) : IsList(fa[i]) /\ fc[i] = fa[i]
        /\ \A i \in 1 .. Len(fb) : IsList(fb[i]) /\ fc[Len(fa) + i] = fb[i]
        /\ Len(fc) = Len(fa) + Len(fb) /\ IsList(fa) /\ IsList(fb) /\ IsList(fc)
    BY <1>8, <1>9, <1>10, <1>11, <1>12
  <2> QED BY ONLY <2>1, FlattenConcat
<1> QED BY <1>1, <1>4, <1>8, <1>9, <1>10, <1>13

(* Flattening a list of one list.                                           *)
LEMMA FlattenOne == ASSUME NEW x, IsList(x) PROVE FlattenSeq(<<x>>) = x
<1>1. PICK s : s = <<x>> OBVIOUS
<1>2. IsList(s) /\ Len(s) = 1 /\ s[1] = x BY <1>1, SingletonIsList
<1>3. \A i \in 1 .. 1 : IsList(s[i]) BY <1>2
<1>4. 1 \in Nat OBVIOUS
<1>5. Flat(s, 0) = <<>> /\ \A k \in 1 .. 1 : Flat(s, k) = Flat(s, k - 1) \o s[k]
  BY ONLY <1>3, <1>4, FlatNext
<1>6. Flat(s, 1) = <<>> \o x
  <2>1. 1 \in 1 .. 1 /\ 1 - 1 = 0 OBVIOUS
  <2>2. Flat(s, 1) = Flat(s, 1 - 1) \o s[1] BY <1>5, <2>1
  <2> QED BY ONLY <1>2, <1>5, <2>1, <2>2
<1>7. <<>> \o x = x BY ConcatWithEmpty
<1>8. FlattenSeq(s) = Flat(s, 1) BY ONLY <1>2, FlattenIsFlat
<1> QED BY <1>1, <1>6, <1>7, <1>8

(* A conversation of one message says what the message says.                *)
LEMMA ContentsOfOne ==
  ASSUME NEW m, IsMessage(m)
  PROVE  IsConversation(<<m>>) /\ Contents(<<m>>) = Says(m)
<1>1. PICK s : s = <<m>> OBVIOUS
<1>2. IsList(s) /\ DOMAIN s = {1} /\ s[1] = m BY <1>1, SingletonIsList
<1>3. IsConversation(s) BY <1>2, MessagesMakeConversation
<1>4. [i \in DOMAIN s |-> Says(s[i])] = <<Says(m)>>
  <2>1. PICK t : t = Says(m) OBVIOUS
  <2>2. [i \in DOMAIN s |-> Says(s[i])] = [i \in {1} |-> t] BY <1>2, <2>1
  <2>3. <<t>> = [i \in {1} |-> t] OBVIOUS
  <2> QED BY <2>1, <2>2, <2>3
<1>5. Contents(s) = FlattenSeq(<<Says(m)>>) BY <1>4, Zenon DEF Contents
<1>6. IsList(Says(m)) BY SaysBlocks
<1> QED BY <1>1, <1>3, <1>5, <1>6, FlattenOne

(* A conversation without messages says nothing.                            *)
LEMMA ContentsOfNone == IsConversation(<<>>) /\ Contents(<<>>) = <<>>
<1>1. DOMAIN <<>> = {} OBVIOUS
<1>2. IsConversation(<<>>) BY <1>1, EmptyIsList, MessagesMakeConversation
<1>3. [i \in DOMAIN <<>> |-> Says(<<>>[i])] = <<>> BY <1>1
<1>4. FlattenSeq(<<>>) = <<>> BY <1>1, EmptyIsList, FlattenNothing
<1>5. Contents(<<>>) = <<>> BY <1>3, <1>4, Zenon DEF Contents
<1> QED BY <1>2, <1>5

(* A turn gives a message for each of its results, and they say the results.*)
LEMMA ResultsSaid ==
  ASSUME NEW turn, IsTurn(turn)
  PROVE  /\ IsConversation(ResultsOf(turn))
         /\ Contents(ResultsOf(turn)) = OfKind(turn.blocks, {"result"})
<1>1. IsList(turn.blocks) BY RangedIsList DEF IsTurn
<1>2. PICK r : r = OfKind(turn.blocks, {"result"}) OBVIOUS
<1>3. /\ IsList(r)
      /\ \A i \in DOMAIN r : \E j \in DOMAIN turn.blocks :
           r[i] = turn.blocks[j] /\ turn.blocks[j].kind \in {"result"}
  BY <1>1, <1>2, OfKindElements
<1>4. \A i \in DOMAIN r : IsBlock(r[i]) /\ r[i].kind = "result" BY <1>3 DEF IsTurn
<1>5. PICK n \in Nat : n = Len(r) /\ DOMAIN r = 1 .. n BY <1>3, ListElements
<1> DEFINE c == ResultsOf(turn)
<1>6. /\ DOMAIN c = 1 .. n
      /\ \A i \in 1 .. n : c[i] = Message("tool", r[i].piece, <<>>, r[i].id)
  BY <1>2, <1>5 DEF ResultsOf
<1>7. c = [i \in 1 .. n |-> c[i]] BY <1>2, <1>5 DEF ResultsOf
<1> HIDE DEF c
<1>8. IsList(c) /\ Len(c) = n BY ONLY <1>7, n \in Nat, FunctionIsList
<1>9. ASSUME NEW i \in 1 .. n PROVE IsMessage(c[i]) /\ Says(c[i]) = <<r[i]>>
  <2>1. /\ c[i].role = "tool" /\ c[i].text = r[i].piece /\ c[i].calls = <<>> /\ c[i].of = r[i].id
    BY <1>6 DEF Message
  <2>2. /\ r[i] = Block("result", r[i].id, r[i].piece)
        /\ r[i].id \in DOMAIN Cleaned /\ r[i].piece # None
    BY <1>4, <1>5 DEF IsBlock
  <2>3. c[i] = Message(c[i].role, c[i].text, c[i].calls, c[i].of) BY <1>6, <2>1
  <2>4. <<>> \in Seq(DOMAIN Cleaned) OBVIOUS
  <2>5. IsMessage(c[i]) BY <2>1, <2>2, <2>3, <2>4 DEF IsMessage
  <2>6. Says(c[i]) = <<r[i]>> BY <2>1, <2>2 DEF Says
  <2> QED BY <2>5, <2>6
<1>10. IsConversation(c) BY <1>6, <1>8, <1>9, MessagesMakeConversation
<1>11. Contents(c) = r
  <2>1. PICK f : f = SaysLists(c) OBVIOUS
  <2>2. IsList(f) /\ Len(f) = n /\ \A i \in 1 .. n : f[i] = Says(c[i])
    BY <1>8, <1>10, <2>1, ContentsLists
  <2>3. \A i \in DOMAIN r : f[i] = <<r[i]>> BY <1>5, <1>9, <2>2
  <2>4. FlattenSeq(f) = r BY <1>3, <1>5, <2>2, <2>3, FlattenSingles
  <2> QED BY <2>1, <2>4, Zenon DEF Contents, SaysLists
<1> QED BY <1>2, <1>10, <1>11 DEF c

(* The calls of a turn become the calls of its message.                     *)
LEMMA IdsSaid ==
  ASSUME NEW turn, IsTurn(turn)
  PROVE  /\ IdsOf(turn) \in Seq(DOMAIN Cleaned)
         /\ CallBlocks(IdsOf(turn)) = OfKind(turn.blocks, {"call"})
         /\ turn.role # "assistant" => IdsOf(turn) = <<>>
<1>1. IsList(turn.blocks) BY RangedIsList DEF IsTurn
<1>2. PICK r : r = OfKind(turn.blocks, {"call"}) OBVIOUS
<1>3. /\ IsList(r)
      /\ \A i \in DOMAIN r : \E j \in DOMAIN turn.blocks :
           r[i] = turn.blocks[j] /\ turn.blocks[j].kind \in {"call"}
  BY <1>1, <1>2, OfKindElements
<1>4. \A i \in DOMAIN r : IsBlock(r[i]) /\ r[i].kind = "call" BY <1>3 DEF IsTurn
<1>5. PICK n \in Nat : n = Len(r) /\ DOMAIN r = 1 .. n BY <1>3, ListElements
<1> DEFINE c == IdsOf(turn)
<1>6. c = [i \in 1 .. n |-> r[i].id] BY <1>2, <1>5 DEF IdsOf
<1>7. \A i \in 1 .. n : r[i].id \in DOMAIN Cleaned BY <1>4, <1>5 DEF IsBlock
<1>8. c \in Seq(DOMAIN Cleaned)
  <2>1. c \in [1 .. n -> DOMAIN Cleaned] BY <1>6, <1>7
  <2> HIDE DEF c
  <2> QED BY <2>1
<1> HIDE DEF c
<1>9. DOMAIN c = 1 .. n /\ \A i \in 1 .. n : c[i] = r[i].id BY <1>6
<1>10. PICK b : b = CallBlocks(c) OBVIOUS
<1>11. /\ IsList(b) /\ Len(b) = Len(c) /\ DOMAIN b = DOMAIN c
       /\ \A i \in DOMAIN c : b[i] = Block("call", c[i], None)
  BY <1>8, <1>10, CallBlocksAreList
<1>12. \A i \in 1 .. n : b[i] = r[i] BY <1>4, <1>5, <1>9, <1>11 DEF IsBlock
<1>13. Len(b) = n
  <2>1. DOMAIN b = 1 .. Len(b) /\ Len(b) \in Nat BY <1>11, ListElements
  <2> QED BY <1>9, <1>11, <2>1
<1>14. b = r BY <1>3, <1>5, <1>11, <1>12, <1>13, ListsEqual
<1>15. ASSUME turn.role # "assistant" PROVE c = <<>>
  <2>1. \A i \in DOMAIN r : FALSE BY <1>3, <1>15 DEF IsTurn
  <2>2. n = 0 BY <1>5, <2>1
  <2> QED BY <1>6, <2>2
<1> QED BY <1>2, <1>8, <1>10, <1>14, <1>15 DEF c

(* A translated turn is a conversation; its results are the turn's, and so   *)
(* are its calls.                                                           *)
LEMMA TurnTranslated ==
  ASSUME NEW turn, IsTurn(turn)
  PROVE  /\ IsConversation(FromAnthropicTurn(turn))
         /\ OfKind(Contents(FromAnthropicTurn(turn)), {"result"}) = OfKind(turn.blocks, {"result"})
         /\ OfKind(Contents(FromAnthropicTurn(turn)), {"call"}) = OfKind(turn.blocks, {"call"})
<1> DEFINE text    == TextOf(turn.blocks)
           message == Message(turn.role, text, IdsOf(turn), None)
           last    == IF IdsOf(turn) # <<>> \/ text # None \/ turn.role = "assistant"
                      THEN <<message>> ELSE <<>>
<1>1. FromAnthropicTurn(turn) = ResultsOf(turn) \o last BY Zenon DEF FromAnthropicTurn
<1> HIDE DEF text
<1>2. PICK results, calls :
        results = OfKind(turn.blocks, {"result"}) /\ calls = OfKind(turn.blocks, {"call"})
  OBVIOUS
<1>3. IsList(turn.blocks) BY RangedIsList DEF IsTurn
<1>4. /\ IsList(results) /\ \A i \in DOMAIN results : results[i].kind = "result"
      /\ IsList(calls) /\ \A i \in DOMAIN calls : calls[i].kind = "call"
  BY <1>2, <1>3, OfKindElements
<1>5. /\ IdsOf(turn) \in Seq(DOMAIN Cleaned) /\ CallBlocks(IdsOf(turn)) = calls
      /\ turn.role # "assistant" => IdsOf(turn) = <<>>
  BY <1>2, IdsSaid
<1>6. IsConversation(ResultsOf(turn)) /\ Contents(ResultsOf(turn)) = results
  BY <1>2, ResultsSaid
<1>7. OfKind(results, {"result"}) = results /\ OfKind(results, {"call"}) = <<>>
  BY <1>4, OfKindAll, OfKindNone
<1>8. /\ IsConversation(last) /\ IsList(Contents(last))
      /\ OfKind(Contents(last), {"result"}) = <<>> /\ OfKind(Contents(last), {"call"}) = calls
  <2>1. CASE IdsOf(turn) # <<>> \/ text # None \/ turn.role = "assistant"
    <3>1. last = <<message>> BY <2>1
    <3>2. /\ message.role = turn.role /\ message.text = text /\ message.calls = IdsOf(turn)
          /\ message.of = None
      BY DEF Message
    <3>3. message = Message(message.role, message.text, message.calls, message.of)
      BY <3>2
    <3>4. turn.role \in {"user", "assistant"} BY DEF IsTurn
    <3> HIDE DEF message
    <3>5. IsMessage(message) BY <1>5, <2>1, <3>2, <3>3, <3>4 DEF IsMessage
    <3>6. PICK a : a = TextBlock(text) OBVIOUS
    <3>7. IsList(a) /\ \A i \in DOMAIN a : a[i] = Block("text", None, text)
      BY <3>6, TextBlockIsList
    <3>8. \A i \in DOMAIN a : a[i].kind = "text" BY <3>7 DEF Block
    <3>9. Says(message) = a \o calls BY <1>5, <3>2, <3>4, <3>6 DEF Says
    <3>10. \A kinds : OfKind(a \o calls, kinds) = OfKind(a, kinds) \o OfKind(calls, kinds)
      BY ONLY <1>4, <3>7, OfKindConcat
    <3>11. OfKind(a, {"result"}) = <<>> /\ OfKind(a, {"call"}) = <<>>
      BY <3>7, <3>8, OfKindNone
    <3>12. OfKind(calls, {"result"}) = <<>> /\ OfKind(calls, {"call"}) = calls
      BY <1>4, OfKindAll, OfKindNone
    <3>13. <<>> \o calls = calls /\ <<>> \o <<>> = <<>> BY <1>4, EmptyIsList, ConcatWithEmpty
    <3>14. IsConversation(<<message>>) /\ Contents(<<message>>) = Says(message)
      BY <3>5, ContentsOfOne
    <3>15. IsList(Says(message)) BY <3>5, SaysBlocks
    <3>16. OfKind(Says(message), {"result"}) = <<>> /\ OfKind(Says(message), {"call"}) = calls
      BY ONLY <3>9, <3>10, <3>11, <3>12, <3>13
    <3> QED BY ONLY <3>1, <3>14, <3>15, <3>16
  <2>2. CASE ~(IdsOf(turn) # <<>> \/ text # None \/ turn.role = "assistant")
    <3>1. last = <<>> BY <2>2
    <3>2. calls = <<>>
      <4>1. PICK ids : ids = IdsOf(turn) /\ ids = <<>> BY <2>2
      <4>2. IsList(CallBlocks(ids)) /\ Len(CallBlocks(ids)) = Len(ids)
        BY <1>5, <4>1, CallBlocksAreList
      <4>3. Len(calls) = 0 BY <1>5, <4>1, <4>2, EmptyIsList
      <4>4. \A i \in 1 .. Len(calls) : calls[i] = <<>>[i] BY <4>3
      <4> QED BY <1>4, <4>3, <4>4, EmptyIsList, ListsEqual
    <3>3. \A kinds : OfKind(<<>>, kinds) = <<>>
      <4>1. DOMAIN <<>> = {} OBVIOUS
      <4> QED BY <4>1, EmptyIsList, OfKindNone
    <3> QED BY <3>1, <3>2, <3>3, ContentsOfNone, EmptyIsList
  <2> QED BY <2>1, <2>2
<1> HIDE DEF last
<1>9. PICK r, c : r = ResultsOf(turn) /\ c = Contents(last) OBVIOUS
<1>10. IsConversation(r \o last) /\ Contents(r \o last) = results \o c
  BY <1>6, <1>8, <1>9, ContentsConcat
<1>11. \A kinds : OfKind(results \o c, kinds) = OfKind(results, kinds) \o OfKind(c, kinds)
  BY ONLY <1>4, <1>8, <1>9, OfKindConcat, SMTT(30)
<1>12. results \o <<>> = results /\ <<>> \o calls = calls BY <1>4, ConcatWithEmpty
<1>13. OfKind(results \o c, {"result"}) = results /\ OfKind(results \o c, {"call"}) = calls
  BY ONLY <1>7, <1>8, <1>9, <1>11, <1>12
<1> QED BY ONLY <1>1, <1>2, <1>9, <1>10, <1>13

(* Answers stay answers when a turn is translated: its results come after   *)
(* the same calls as before.                                                *)
LEMMA AnswersConcat ==
  ASSUME NEW a, NEW b, NEW x, NEW y, IsList(a), IsList(b), IsList(x), IsList(y),
         OfKind(a, {"call"}) = OfKind(b, {"call"}),
         OfKind(x, {"result"}) = OfKind(y, {"result"}),
         \/ \A i \in DOMAIN y : y[i].kind # "call"
         \/ \A i \in DOMAIN y : y[i].kind # "result",
         ResultsAnswer(a), ResultsAnswer(b \o y)
  PROVE  ResultsAnswer(a \o x)
<1>1. PICK c, d : c = a \o x /\ d = b \o y OBVIOUS
<1>2. IsConcat(c, a, x) /\ IsConcat(d, b, y) BY <1>1, ConcatElements
<1> SUFFICES ASSUME NEW i \in DOMAIN c, c[i].kind = "result"
             PROVE  \E j \in 1 .. i - 1 : c[j].kind = "call" /\ c[j].id = c[i].id
  BY <1>1 DEF ResultsAnswer
<1>3. CASE i \in DOMAIN a
  <2>1. c[i] = a[i] BY <1>2, <1>3 DEF IsConcat
  <2>2. PICK j \in 1 .. i - 1 : a[j].kind = "call" /\ a[j].id = a[i].id
    BY <1>3, <2>1 DEF ResultsAnswer
  <2>3. j \in DOMAIN a BY <1>2, <1>3 DEF IsConcat
  <2>4. c[j] = a[j] BY <1>2, <2>3 DEF IsConcat
  <2> QED BY <2>1, <2>2, <2>4
<1>4. CASE i \notin DOMAIN a
  <2>1. PICK j \in DOMAIN x : i = Len(a) + j BY <1>2, <1>4 DEF IsConcat
  <2>2. c[i] = x[j] BY <1>2, <2>1 DEF IsConcat
  <2>3. PICK l \in DOMAIN y : y[l] = x[j] /\ y[l].kind = "result"
    <3>1. PICK r \in DOMAIN OfKind(x, {"result"}) : OfKind(x, {"result"})[r] = x[j]
      BY <2>2, OfKindElements
    <3>2. PICK l \in DOMAIN y : OfKind(y, {"result"})[r] = y[l] /\ y[l].kind \in {"result"}
      BY <3>1, OfKindElements
    <3> QED BY <3>1, <3>2
  <2>4. Len(b) + l \in DOMAIN d /\ d[Len(b) + l] = y[l] BY <1>2 DEF IsConcat
  <2>5. PICK h \in 1 .. (Len(b) + l) - 1 : d[h].kind = "call" /\ d[h].id = y[l].id
    BY <1>1, <2>3, <2>4 DEF ResultsAnswer
  <2>6. h \in DOMAIN b
    <3>1. h \in DOMAIN d
      <4>1. PICK m \in Nat, n \in Nat : /\ m = Len(b) /\ n = Len(y)
                                        /\ DOMAIN y = 1 .. n /\ DOMAIN d = 1 .. m + n
        BY <1>2 DEF IsConcat
      <4>2. l \in 1 .. n /\ h \in 1 .. (m + l) - 1 BY <2>5, <4>1
      <4>3. h \in 1 .. m + n BY <4>2
      <4> QED BY <4>1, <4>3
    <3>2. CASE h \notin DOMAIN b
      <4>1. PICK g \in DOMAIN y : h = Len(b) + g BY <1>2, <3>1, <3>2 DEF IsConcat
      <4>2. d[h] = y[g] BY <1>2, <4>1 DEF IsConcat
      <4> QED BY <2>3, <2>5, <4>2
    <3> QED BY <3>2
  <2>7. b[h].kind = "call" /\ b[h].id = y[l].id BY <1>2, <2>5, <2>6 DEF IsConcat
  <2>8. PICK g \in DOMAIN a : a[g] = b[h]
    <3>1. PICK r \in DOMAIN OfKind(b, {"call"}) : OfKind(b, {"call"})[r] = b[h]
      BY <2>6, <2>7, OfKindElements
    <3>2. PICK g \in DOMAIN a : OfKind(a, {"call"})[r] = a[g] BY <3>1, OfKindElements
    <3> QED BY <3>1, <3>2
  <2>9. c[g].kind = "call" /\ c[g].id = c[i].id BY <1>2, <2>2, <2>3, <2>7, <2>8 DEF IsConcat
  <2>10. g \in 1 .. i - 1
    <3>1. PICK m \in Nat, n \in Nat : m = Len(a) /\ DOMAIN a = 1 .. m /\ DOMAIN x = 1 .. n
      BY <1>2 DEF IsConcat
    <3>2. g \in 1 .. m /\ j \in 1 .. n /\ i = m + j BY <2>1, <3>1
    <3> QED BY ONLY <3>2, m \in Nat, n \in Nat
  <2> QED BY <2>9, <2>10
<1> QED BY <1>3, <1>4

(* What is answered in a beginning of a list is answered there.             *)
LEMMA AnswersOfFirst ==
  ASSUME NEW a, NEW b, IsList(a), IsList(b), ResultsAnswer(a \o b) PROVE ResultsAnswer(a)
<1>1. PICK c : c = a \o b OBVIOUS
<1>2. IsConcat(c, a, b) BY <1>1, ConcatElements
<1> SUFFICES ASSUME NEW i \in DOMAIN a, a[i].kind = "result"
             PROVE  \E j \in 1 .. i - 1 : a[j].kind = "call" /\ a[j].id = a[i].id
  BY DEF ResultsAnswer
<1>3. c[i] = a[i] /\ i \in DOMAIN c BY <1>2 DEF IsConcat
<1>4. PICK j \in 1 .. i - 1 : c[j].kind = "call" /\ c[j].id = a[i].id
  BY <1>1, <1>3 DEF ResultsAnswer
<1>5. j \in DOMAIN a BY <1>2 DEF IsConcat
<1>6. c[j] = a[j] BY <1>2, <1>5 DEF IsConcat
<1> QED BY <1>4, <1>6

(* By induction over the turns.                                             *)
TurnMessages(turns) == [i \in DOMAIN turns |-> FromAnthropicTurn(turns[i])]
TurnBlocks(turns) == [i \in DOMAIN turns |-> turns[i].blocks]

(* What is translated, and what is said, of the first k turns.              *)
Translated(messages, blocks) ==
  /\ IsConversation(messages) /\ IsList(blocks)
  /\ OfKind(Contents(messages), {"result"}) = OfKind(blocks, {"result"})
  /\ OfKind(Contents(messages), {"call"}) = OfKind(blocks, {"call"})
  /\ ResultsAnswer(blocks) => ResultsAnswer(Contents(messages))

(* One turn more, translated, keeps Translated.                             *)
LEMMA TranslatedNext ==
  ASSUME NEW messages, NEW blocks, Translated(messages, blocks), NEW turn, IsTurn(turn)
  PROVE  Translated(messages \o FromAnthropicTurn(turn), blocks \o turn.blocks)
<1>1. PICK new, said, x, y :
        /\ new = FromAnthropicTurn(turn) /\ said = Contents(messages)
        /\ x = Contents(new) /\ y = turn.blocks
  OBVIOUS
<1>2. /\ IsConversation(new) /\ IsList(y)
      /\ OfKind(x, {"result"}) = OfKind(y, {"result"}) /\ OfKind(x, {"call"}) = OfKind(y, {"call"})
  BY <1>1, TurnTranslated, RangedIsList DEF IsTurn
<1>3. /\ IsConversation(messages) /\ IsList(blocks)
      /\ OfKind(said, {"result"}) = OfKind(blocks, {"result"})
      /\ OfKind(said, {"call"}) = OfKind(blocks, {"call"})
      /\ ResultsAnswer(blocks) => ResultsAnswer(said)
  BY <1>1 DEF Translated
<1>4. IsList(said) /\ IsList(x) BY <1>1, <1>2, <1>3, ContentsIsList
<1>5. /\ IsConversation(messages \o new)
      /\ Contents(messages \o new) = said \o x
  BY <1>1, <1>2, <1>3, ContentsConcat
<1>6. \A kinds : /\ OfKind(said \o x, kinds) = OfKind(said, kinds) \o OfKind(x, kinds)
                 /\ OfKind(blocks \o y, kinds) = OfKind(blocks, kinds) \o OfKind(y, kinds)
  BY ONLY <1>2, <1>3, <1>4, OfKindConcat
<1>7. /\ OfKind(said \o x, {"result"}) = OfKind(blocks \o y, {"result"})
      /\ OfKind(said \o x, {"call"}) = OfKind(blocks \o y, {"call"})
  BY ONLY <1>2, <1>3, <1>6
<1>8. IsList(blocks \o y) BY <1>2, <1>3, ConcatIsList
<1>9. \/ \A i \in DOMAIN y : y[i].kind # "call"
      \/ \A i \in DOMAIN y : y[i].kind # "result"
  BY <1>1 DEF IsTurn
<1>10. ASSUME ResultsAnswer(blocks \o y) PROVE ResultsAnswer(said \o x)
  <2>1. ResultsAnswer(blocks) BY ONLY <1>2, <1>3, <1>10, AnswersOfFirst
  <2>2. ResultsAnswer(said) BY <1>3, <2>1
  <2> QED BY ONLY <1>2, <1>3, <1>4, <1>9, <1>10, <2>2, AnswersConcat
<1> QED BY ONLY <1>1, <1>5, <1>7, <1>8, <1>10, Zenon DEF Translated

(* Before the first turn nothing is said.                                   *)
LEMMA NothingTranslated == Translated(<<>>, <<>>)
BY ContentsOfNone, EmptyIsList DEF Translated

(* The translation of /v1/messages keeps the results and the calls, each in  *)
(* their order, and every answer is an answer still.                        *)
THEOREM TurnsTranslated ==
  ASSUME NEW turns, IsTurnList(turns)
  PROVE  IsConversation(FromAnthropicTurns(turns)) /\ TurnsKept(turns)
<1>1. IsList(turns) BY RangedIsList DEF IsTurnList
<1>2. PICK n \in Nat : n = Len(turns) /\ DOMAIN turns = 1 .. n BY <1>1, ListElements
<1>3. PICK f : f = TurnMessages(turns) OBVIOUS
<1>4. PICK g : g = TurnBlocks(turns) OBVIOUS
<1>5. /\ f = [i \in 1 .. n |-> f[i]] /\ g = [i \in 1 .. n |-> g[i]]
      /\ \A i \in 1 .. n : f[i] = FromAnthropicTurn(turns[i]) /\ g[i] = turns[i].blocks
  BY <1>2, <1>3, <1>4 DEF TurnMessages, TurnBlocks
<1>6. IsList(f) /\ Len(f) = n /\ IsList(g) /\ Len(g) = n BY ONLY <1>5, n \in Nat, FunctionIsList
<1>7. \A i \in 1 .. n : IsTurn(turns[i]) BY <1>2 DEF IsTurnList
<1>8. \A i \in 1 .. n : IsList(f[i]) /\ IsList(g[i])
  BY <1>5, <1>7, TurnTranslated, ConversationLists, RangedIsList DEF IsTurn
<1>9. Flat(f, 0) = <<>> /\ \A k \in 1 .. n : Flat(f, k) = Flat(f, k - 1) \o f[k]
  BY ONLY <1>8, n \in Nat, FlatNext
<1>10. Flat(g, 0) = <<>> /\ \A k \in 1 .. n : Flat(g, k) = Flat(g, k - 1) \o g[k]
  BY ONLY <1>8, n \in Nat, FlatNext
<1> DEFINE T == {k \in Nat : k <= n => Translated(Flat(f, k), Flat(g, k))}
<1>11. 0 \in T BY <1>9, <1>10, NothingTranslated
<1>12. ASSUME NEW k \in T PROVE k + 1 \in T
  <2>1. CASE k + 1 <= n
    <3>1. k + 1 \in 1 .. n /\ (k + 1) - 1 = k /\ k <= n BY <2>1
    <3>2. /\ Flat(f, k + 1) = Flat(f, k) \o f[k + 1]
          /\ Flat(g, k + 1) = Flat(g, k) \o g[k + 1]
      BY <1>9, <1>10, <3>1
    <3>3. PICK turn : turn = turns[k + 1] OBVIOUS
    <3>4. IsTurn(turn) /\ f[k + 1] = FromAnthropicTurn(turn) /\ g[k + 1] = turn.blocks
      BY <1>5, <1>7, <3>1, <3>3
    <3>5. Translated(Flat(f, k), Flat(g, k)) BY <3>1
    <3>6. Translated(Flat(f, k) \o FromAnthropicTurn(turn), Flat(g, k) \o turn.blocks)
      BY ONLY <3>4, <3>5, TranslatedNext
    <3>7. Translated(Flat(f, k + 1), Flat(g, k + 1)) BY ONLY <3>2, <3>4, <3>6
    <3> QED BY <3>7
  <2>2. CASE ~(k + 1 <= n) BY <2>2
  <2> QED BY <2>1, <2>2
<1>13. n \in T
  <2>1. T \subseteq Nat OBVIOUS
  <2> HIDE DEF T
  <2> QED BY <2>1, <1>11, <1>12, Keeping!SetInduction
<1>14. Translated(Flat(f, n), Flat(g, n)) BY <1>13
<1>15. FlattenSeq(f) = Flat(f, n) /\ FlattenSeq(g) = Flat(g, n) BY ONLY <1>6, FlattenIsFlat
<1>16. FromAnthropicTurns(turns) = Flat(f, n) /\ Blocks(turns) = Flat(g, n)
  BY <1>3, <1>4, <1>15, Zenon DEF FromAnthropicTurns, Blocks, TurnMessages, TurnBlocks
<1>17. Translated(FromAnthropicTurns(turns), Blocks(turns)) BY ONLY <1>14, <1>16
<1> HIDE DEF T
<1> QED BY ONLY <1>17, Zenon DEF Translated, TurnsKept

-----------------------------------------------------------------------------
(* Every adapter keeps what the clients may send.                           *)

(* Whatever adapter is asked, by what was shown of each.                    *)
LEMMA ConversationsAreKept ==
  ASSUME NEW adapter, NEW conv, IsConversation(conv)
  PROVE  Kept(adapter, conv)
BY AnthropicKept, AnthropicAnswers, CodexKept, BedrockKept, Zenon DEF Kept

(* So what clients may send is kept, in either form.                        *)
LEMMA AdaptersKeep ==
  ASSUME NEW adapter \in Adapters PROVE KeepsConversations[adapter] /\ KeepsTurns[adapter]
<1>1. \A conv \in Conversations : Kept(adapter, conv)
  BY ConversationAssumption, ConversationsAreKept
<1>2. \A turns \in TurnLists : TurnsKept(turns) /\ Kept(adapter, FromAnthropicTurns(turns))
  BY ConversationAssumption, TurnsTranslated, ConversationsAreKept
<1>3. KeepsConversations[adapter] = \A conv \in Conversations : Kept(adapter, conv)
  BY DEF KeepsConversations
<1>4. KeepsTurns[adapter] =
        \A turns \in TurnLists : TurnsKept(turns) /\ Kept(adapter, FromAnthropicTurns(turns))
  BY DEF KeepsTurns
<1> QED BY <1>1, <1>2, <1>3, <1>4

(* Whatever conversation a client may send, every attempt of every chain     *)
(* sends upstream what its adapter promises of it: what was said, in its    *)
(* order, every result with the one call it answers though ids are renamed. *)
THEOREM ConversationsKept == Spec => []ConversationIsKept
<1>1. ASSUME IInv PROVE ConversationIsKept
  <2>1. ASSUME NEW r \in Requests, NEW i \in DOMAIN req[r].plan
        PROVE  req[r].plan[i].client.adapter \in Adapters
    BY <1>1 DEF IInv, RequestsSound, RequestSound, PlanSound, MadeFor
  <2> QED BY <2>1, AdaptersKeep DEF ConversationIsKept
<1> QED BY <1>1, Invariance, PTL

-----------------------------------------------------------------------------
(* Who is let in, and where the gateway may call.                           *)

(* Who calls is known by a credential: by the only enabled token of the      *)
(* value it sends, or by the legacy token when no configured one has that   *)
(* value.  Without a credential nobody is let in, unless the environment    *)
(* allows it and there is no token to ask for.                              *)
THEOREM CredentialsAreAsked ==
  ASSUME NEW cfg, NEW bearer, VerifyServerToken(cfg, bearer) # Unauthorized
  PROVE  LET principal == VerifyServerToken(cfg, bearer)
             tokens    == ConfiguredTokens(cfg)
         IN  \/ /\ Env.anonymous /\ tokens = {} /\ LegacyToken(cfg) = None
                /\ principal = Anonymous
             \/ /\ bearer # None
                /\ \E k \in tokens :
                     /\ \A j \in tokens : cfg.tokens[j].token = bearer <=> j = k
                     /\ principal.subject = cfg.tokens[k].id
                     /\ principal.admin = cfg.tokens[k].admin
                     /\ ~cfg.tokens[k].admin => principal.scopes = cfg.tokens[k].scopes
             \/ /\ bearer # None /\ bearer = LegacyToken(cfg) /\ cfg.legacyAdmin
                /\ \A j \in tokens : cfg.tokens[j].token # bearer
                /\ principal = LegacyAdmin
<1> DEFINE tokens    == ConfiguredTokens(cfg)
           matching  == {k \in tokens : cfg.tokens[k].token = bearer}
           legacy    == LegacyToken(cfg)
           token     == cfg.tokens[CHOOSE k \in matching : TRUE]
           principal == VerifyServerToken(cfg, bearer)
<1>1. CASE tokens = {} /\ legacy = None
  BY <1>1, Zenon DEF VerifyServerToken
<1>2. CASE ~(tokens = {} /\ legacy = None)
  <2>1. bearer # None /\ ~ \E j, k \in matching : j # k
    BY <1>2, Zenon DEF VerifyServerToken
  <2>2. CASE matching # {}
    <3>1. principal = [subject |-> token.id, admin |-> token.admin,
                       scopes  |-> IF token.admin THEN token.scopes \cup AllScopes
                                                  ELSE token.scopes]
      BY <1>2, <2>1, <2>2, Zenon DEF VerifyServerToken
    <3>2. PICK k \in matching : token = cfg.tokens[k] BY <2>2
    <3>3. \A j \in tokens : cfg.tokens[j].token = bearer <=> j = k BY <2>1, <3>2
    <3> HIDE DEF token, principal
    <3>4. /\ principal.subject = token.id /\ principal.admin = token.admin
          /\ ~token.admin => principal.scopes = token.scopes
      BY <3>1
    <3>5. k \in tokens BY <3>2
    <3> QED BY <2>1, <3>2, <3>3, <3>4, <3>5 DEF principal
  <2>3. CASE matching = {}
    <3>1. legacy # None /\ bearer = legacy /\ principal = LegacyAdmin
      BY <1>2, <2>1, <2>3, Zenon DEF VerifyServerToken
    <3>2. cfg.legacyAdmin BY <3>1 DEF LegacyToken
    <3> QED BY <2>1, <2>3, <3>1, <3>2
  <2> QED BY <2>2, <2>3
<1> QED BY <1>1, <1>2

(* Two enabled tokens of one value let nobody in.                           *)
THEOREM DuplicatesLetNobodyIn ==
  ASSUME NEW cfg, NEW j \in ConfiguredTokens(cfg), NEW k \in ConfiguredTokens(cfg), j # k,
         cfg.tokens[j].token = cfg.tokens[k].token
  PROVE  VerifyServerToken(cfg, cfg.tokens[k].token) = Unauthorized
BY Zenon DEF VerifyServerToken

DeniedNets(policy) == DefaultDenyCidrs \cup policy.denyCidrs

(* The first of the kinds of an address.                                    *)
FirstKind(address, n) ==
  Kinds[n] \in address.kinds /\ \A m \in 1 .. n - 1 : Kinds[m] \notin address.kinds

(* An address of some kind has a first one.                                 *)
LEMMA FirstKindExists ==
  ASSUME NEW address, NEW k \in DOMAIN Kinds, Kinds[k] \in address.kinds
  PROVE  \E n \in DOMAIN Kinds : FirstKind(address, n)
<1> DEFINE T == {n \in Nat : \A m \in 1 .. n :
                   Kinds[m] \in address.kinds => \E l \in 1 .. m : FirstKind(address, l)}
<1>1. 0 \in T OBVIOUS
<1>2. ASSUME NEW n \in T PROVE n + 1 \in T
  <2>1. ASSUME NEW m \in 1 .. n + 1, Kinds[m] \in address.kinds
        PROVE  \E l \in 1 .. m : FirstKind(address, l)
    <3>1. CASE m \in 1 .. n BY <2>1, <3>1
    <3>2. CASE m = n + 1 /\ \E i \in 1 .. n : Kinds[i] \in address.kinds
      <4>1. PICK i \in 1 .. n : Kinds[i] \in address.kinds BY <3>2
      <4>2. PICK l \in 1 .. i : FirstKind(address, l) BY <4>1
      <4> QED BY <3>2, <4>1, <4>2
    <3>3. CASE m = n + 1 /\ ~ \E i \in 1 .. n : Kinds[i] \in address.kinds
      BY <2>1, <3>3 DEF FirstKind
    <3> QED BY <3>1, <3>2, <3>3
  <2> QED BY <2>1
<1>3. \A n \in Nat : n \in T
  <2>1. T \subseteq Nat OBVIOUS
  <2> HIDE DEF T
  <2> QED BY <2>1, <1>1, <1>2, Keeping!SetInduction
<1>4. DOMAIN Kinds = 1 .. 8 BY DEF Kinds
<1>5. PICK n \in 1 .. k : FirstKind(address, n) BY <1>3, <1>4
<1> QED BY <1>4, <1>5

(* An address may be called when no deny list names it and it is a public    *)
(* one; or, by a provider with leave to call local addresses, when the      *)
(* first of its kinds is a local one.  Leave never lifts a deny list.       *)
THEOREM AddressesPermitted ==
  ASSUME NEW policy, NEW provider, NEW address
  PROVE  AddressPermitted(policy, provider, address) <=>
           /\ address.nets \cap DeniedNets(policy) = {}
           /\ \/ \A n \in DOMAIN Kinds : Kinds[n] \notin address.kinds
              \/ /\ IsLocalProviderAllowed(policy, provider)
                 /\ \E n \in DOMAIN Kinds : FirstKind(address, n) /\ Kinds[n] \in LocalReasons
<1> DEFINE reason == BlockedReasonForIp(policy, address)
<1>1. AddressPermitted(policy, provider, address) <=>
        \/ reason = None
        \/ IsLocalProviderAllowed(policy, provider) /\ reason \in LocalReasons
  BY DEF AddressPermitted
<1>2. CASE address.nets \cap DeniedNets(policy) # {}
  <2>1. reason = "denylisted_cidr" BY <1>2 DEF BlockedReasonForIp, DeniedNets
  <2>2. reason \notin LocalReasons BY <2>1 DEF LocalReasons
  <2>3. reason # None BY <2>1, AccessAssumption
  <2> HIDE DEF reason
  <2> QED BY <1>1, <1>2, <2>2, <2>3
<1>3. CASE /\ address.nets \cap DeniedNets(policy) = {}
           /\ \A n \in DOMAIN Kinds : Kinds[n] \notin address.kinds
  <2>1. reason = None BY <1>3, Zenon DEF BlockedReasonForIp, DeniedNets
  <2> HIDE DEF reason
  <2> QED BY <1>1, <1>3, <2>1
<1>4. CASE /\ address.nets \cap DeniedNets(policy) = {}
           /\ \E n \in DOMAIN Kinds : Kinds[n] \in address.kinds
  <2>1. PICK n \in DOMAIN Kinds : FirstKind(address, n) BY <1>4, FirstKindExists
  <2>2. DOMAIN Kinds = 1 .. 8 BY DEF Kinds
  <2>3. \A m \in DOMAIN Kinds : FirstKind(address, m) => m = n
    BY <2>1, <2>2 DEF FirstKind
  <2>4. (CHOOSE m \in DOMAIN Kinds :
           Kinds[m] \in address.kinds /\ \A i \in 1 .. m - 1 : Kinds[i] \notin address.kinds) = n
    BY <2>1, <2>3 DEF FirstKind
  <2>5. reason = Kinds[n] BY <1>4, <2>4, Zenon DEF BlockedReasonForIp, DeniedNets
  <2>6. reason # None BY <2>5, AccessAssumption
  <2> HIDE DEF reason
  <2> QED BY <1>1, <1>4, <2>1, <2>3, <2>5, <2>6
<1> QED BY <1>2, <1>3, <1>4

PolicyOn(policy) == policy.enabled /\ policy.mode # "off"

(* What a policy that is on never lets through, whoever asks: what a deny    *)
(* list names, a url with credentials in it; and without leave a local      *)
(* host, or an address that is not a public one.                            *)
NeverCalled(policy, provider, url, answers) ==
  LET addresses == IF url.address # None THEN {url.address}
                   ELSE IF policy.resolveDns THEN answers ELSE {}
  IN  \/ url.userinfo
      \/ url.host \in DefaultDenyHosts \cup policy.denyHosts
      \/ \E a \in addresses : a.nets \cap DeniedNets(policy) # {}
      \/ /\ ~IsLocalProviderAllowed(policy, provider)
         /\ \/ url.host \in Localhosts
            \/ \E a \in addresses : \E n \in DOMAIN Kinds : Kinds[n] \in a.kinds

(* What a policy that is on never lets through is refused, whatever the      *)
(* policy says of schemes, of the mode and of resolving names.              *)
THEOREM DeniedAreRefused ==
  ASSUME NEW policy, NEW provider, NEW url, NEW answers, PolicyOn(policy),
         NeverCalled(policy, provider, url, answers)
  PROVE  ~DestinationPermitted(policy, provider, url, answers)
<1> SUFFICES ASSUME DestinationPermitted(policy, provider, url, answers) PROVE FALSE
  OBVIOUS
<1> DEFINE addresses == IF url.address # None THEN {url.address}
                        ELSE IF policy.resolveDns THEN answers ELSE {}
<1>1. /\ ~url.userinfo
      /\ url.host \notin policy.denyHosts \cup DefaultDenyHosts
      /\ url.host \in Localhosts => IsLocalProviderAllowed(policy, provider)
      /\ IF url.address # None THEN AddressPermitted(policy, provider, url.address)
         ELSE policy.resolveDns =>
                /\ answers = {} => ~policy.failClosed
                /\ \A a \in answers : AddressPermitted(policy, provider, a)
  BY Zenon DEF DestinationPermitted, PolicyOn
<1>2. \A a \in addresses : AddressPermitted(policy, provider, a) BY <1>1
<1>3. \A a \in addresses :
        /\ a.nets \cap DeniedNets(policy) = {}
        /\ \/ \A n \in DOMAIN Kinds : Kinds[n] \notin a.kinds
           \/ IsLocalProviderAllowed(policy, provider)
  BY <1>2, AddressesPermitted
<1>4. \/ url.userinfo
      \/ url.host \in DefaultDenyHosts \cup policy.denyHosts
      \/ \E a \in addresses : a.nets \cap DeniedNets(policy) # {}
      \/ /\ ~IsLocalProviderAllowed(policy, provider)
         /\ \/ url.host \in Localhosts
            \/ \E a \in addresses : \E n \in DOMAIN Kinds : Kinds[n] \in a.kinds
  BY Zenon DEF NeverCalled
<1> HIDE DEF addresses
<1> QED BY <1>1, <1>3, <1>4

(* What a client calls was permitted, to what DNS answered, by the          *)
(* configuration it was built from.                                         *)
AnswersOf(url, dns) == IF url.host \in DOMAIN dns THEN dns[url.host] ELSE {}

(* BuildProvider makes no client for a destination that is refused.         *)
LEMMA BuiltIsPermitted ==
  ASSUME NEW cfg, NEW provider, NEW pc, NEW credential, NEW url, NEW dns, NEW client,
         client = BuildProvider(cfg, provider, pc, credential, url, dns), client # None,
         client.url # None
  PROVE  /\ client.url = url
         /\ DestinationPermitted(cfg.egress, provider, url, AnswersOf(url, dns))
<1> DEFINE adapter == AdapterOf(provider, ApiOf(provider, pc))
           self    == adapter \in {"local", "cli"}
<1>1. client = [provider |-> provider, adapter |-> adapter,
                url      |-> IF self THEN None ELSE url,
                key      |-> IF self THEN None ELSE credential.key,
                headers  |-> IF self THEN <<>>
                             ELSE BuildHeaders(ApiOf(provider, pc), pc, credential)]
  BY Zenon DEF BuildProvider
<1>2. client.url = IF self THEN None ELSE url BY <1>1
<1>3. ~self /\ client.url = url /\ url # None BY <1>2
<1>4. provider # LocalEmbeddings BY <1>3 DEF AdapterOf
<1>5. DestinationPermitted(cfg.egress, provider, url,
        IF url # None /\ url.host \in DOMAIN dns THEN dns[url.host] ELSE {})
  BY <1>3, <1>4, Zenon DEF BuildProvider
<1> HIDE DEF adapter
<1> QED BY <1>3, <1>5 DEF AnswersOf

(* Every cached client was permitted by a configuration of this process, so  *)
(* none calls what the policy never lets through as long as no              *)
(* configuration turned the policy off: not the metadata service of a cloud,*)
(* neither by its name nor at its address, nor what every configuration     *)
(* denies.                                                                  *)
CallsArePermitted ==
  \A m \in Managers : \A key \in DOMAIN cache[m] :
    LET client == cache[m][key]
    IN  client.url # None =>
          \E c \in seen, dns \in Resolvers :
            LET answers == AnswersOf(client.url, dns)
            IN  /\ DestinationPermitted(c.egress, client.provider, client.url, answers)
                /\ PolicyOn(c.egress) =>
                     ~NeverCalled(c.egress, client.provider, client.url, answers)

(* No cached client goes where the policy it was built under refuses to go.  *)
THEOREM CallsPermitted == Spec => []CallsArePermitted
<1>1. ASSUME IInv PROVE CallsArePermitted
  <2> SUFFICES ASSUME NEW m \in Managers, NEW key \in DOMAIN cache[m], cache[m][key].url # None
               PROVE  \E c \in seen, dns \in Resolvers :
                        LET client  == cache[m][key]
                            answers == AnswersOf(client.url, dns)
                        IN  /\ DestinationPermitted(c.egress, client.provider, client.url, answers)
                            /\ PolicyOn(c.egress) =>
                                 ~NeverCalled(c.egress, client.provider, client.url, answers)
    BY DEF CallsArePermitted
  <2> DEFINE client == cache[m][key]
  <2>1. SoundClient(key, client, seen) BY <1>1 DEF IInv, ProcessSound, SoundCache
  <2>2. client.url # None OBVIOUS
  <2> HIDE DEF client
  <2>3. PICK c \in seen, dns \in Resolvers :
          client = BuildProvider(c, client.provider, ProviderConfig(c, client.provider),
                                 [key |-> client.key, mode |-> key[4]],
                                 EffectiveBaseUrl(c, client.provider,
                                                  ProviderConfig(c, client.provider), key[2]),
                                 dns)
    BY <2>1 DEF SoundClient
  <2>4. client # None BY <2>1 DEF SoundClient
  <2>5. DestinationPermitted(c.egress, client.provider, client.url, AnswersOf(client.url, dns))
    BY <2>2, <2>3, <2>4, BuiltIsPermitted
  <2>6. PolicyOn(c.egress) =>
          ~NeverCalled(c.egress, client.provider, client.url, AnswersOf(client.url, dns))
    BY <2>5, DeniedAreRefused
  <2> QED BY <2>5, <2>6 DEF client
<1> QED BY <1>1, Invariance, PTL

=============================================================================
