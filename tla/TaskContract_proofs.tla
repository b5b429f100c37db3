------------------------ MODULE TaskContract_proofs ------------------------
(***************************************************************************)
(* For every number of checks, every set of contracts and configurations   *)
(* and every cache lifetime: the state of TaskContract keeps its types and *)
(* no decision is older than the cache lifetime.                           *)
(***************************************************************************)
EXTENDS TaskContract, TLAPS

\* A cached verdict expires within CacheTtl of the instant at which the
\* bridge served it, because the expiry counts from before the probe: the
\* probe of a check is served after the check began.
EntryNotOld == cache.expires <= cache.readAt + CacheTtl
ServedAfterStart ==
    \A r \in Checks : check[r].at = "answering" => check[r].started <= check[r].readAt

FreshInv == TypeOK /\ EntryNotOld /\ ServedAfterStart /\ DecisionIsFresh

\* One step of one check.
Steps(r, k) == check' = [check EXCEPT ![r] = k]

LEMMA VerdictIsBoolean ==
    ASSUME NEW c \in Contracts \cup {Failed}, NEW cfg \in Configs
    PROVE  Compatible(c, cfg) \in BOOLEAN
  BY ContractsAreContracts, ConfigsAreConfigs
     DEF Compatible, Contract, Config, Failed, Versions, Operations, Probes

\* What a check's own step must establish.
LEMMA CheckStep ==
    ASSUME FreshInv, NEW r \in Checks, NEW k \in Check, Steps(r, k),
           k.at # "idle" => k.started <= now,
           k.at = "answering" => k.started <= k.readAt,
           k.at = "decided" => k.readAt + CacheTtl > k.started,
           UNCHANGED <<now, runtime, config, changed, changes>>,
           cache' \in Entry, EntryNotOld'
    PROVE  FreshInv'
<1>1. TypeOK'
  BY DEF FreshInv, TypeOK, Steps
<1>2. ServedAfterStart'
  BY DEF FreshInv, TypeOK, ServedAfterStart, Steps
<1>3. DecisionIsFresh'
  BY DEF FreshInv, TypeOK, DecisionIsFresh, Steps
<1> QED BY <1>1, <1>2, <1>3 DEF FreshInv

LEMMA FreshInit == Init => FreshInv
<1> SUFFICES ASSUME Init PROVE FreshInv
  OBVIOUS
<1>1. Failed \in Contracts \cup {Failed} /\ CacheTtl \in Nat \ {0}
  BY CacheTtlIsPositive
<1>2. TypeOK
  BY <1>1 DEF Init, TypeOK, NoEntry, Entry, CheckOf, Check
<1>3. EntryNotOld /\ ServedAfterStart /\ DecisionIsFresh
  BY <1>1 DEF Init, EntryNotOld, ServedAfterStart, DecisionIsFresh, NoEntry, CheckOf
<1> QED BY <1>2, <1>3 DEF FreshInv

LEMMA BeginStep ==
    ASSUME FreshInv, NEW r \in Checks, Begin(r)
    PROVE  FreshInv'
<1> DEFINE Decision(v, s, t) ==
        CheckOf("decided", config, s, Failed, t, v, Passes(v, config))
<1>1. /\ now \in Nat /\ config \in Configs /\ config \in Config /\ cache \in Entry
      /\ CacheTtl \in Nat \ {0} /\ EntryNotOld
  BY CacheTtlIsPositive, ConfigsAreConfigs DEF FreshInv, TypeOK
<1>2. cache' \in Entry /\ EntryNotOld'
  BY <1>1 DEF Begin, EntryNotOld
<1>3. CASE Disabled(r)
  <2>1. Steps(r, Decision(TRUE, now, now))
    BY <1>3 DEF Disabled, Decided, Steps
  <2>2. Decision(TRUE, now, now) \in Check
    BY <1>1 DEF CheckOf, Check, Passes, Config
  <2> QED BY <2>1, <2>2, <1>1, <1>2, CheckStep DEF CheckOf, Begin
<1>4. CASE FromCache(r)
  <2>1. Steps(r, Decision(cache.verdict, now, cache.readAt))
    BY <1>4 DEF FromCache, Decided, Steps
  <2>2. Decision(cache.verdict, now, cache.readAt) \in Check
    BY <1>1 DEF CheckOf, Check, Passes, Config, Entry
  <2>3. cache.readAt + CacheTtl > now
    BY <1>1, <1>4 DEF FromCache, Fresh, EntryNotOld, Entry
  <2> QED BY <2>1, <2>2, <2>3, <1>1, <1>2, CheckStep DEF CheckOf, Begin
<1>5. CASE StartProbe(r)
  <2>1. Steps(r, CheckOf("probing", config, now, Failed, 0, FALSE, FALSE))
    BY <1>5 DEF StartProbe, Steps
  <2>2. CheckOf("probing", config, now, Failed, 0, FALSE, FALSE) \in Check
    BY <1>1 DEF CheckOf, Check
  <2> QED BY <2>1, <2>2, <1>1, <1>2, CheckStep DEF CheckOf, Begin
<1> QED BY <1>3, <1>4, <1>5 DEF Begin

LEMMA ServedStep ==
    ASSUME FreshInv, NEW r \in Checks, Served(r)
    PROVE  FreshInv'
<1>1. PICK c \in Contracts \cup {Failed} : Saw(r, c)
  BY DEF Served, FreshInv, TypeOK
<1> DEFINE k == CheckOf("answering", check[r].config, check[r].started, c, now,
                        FALSE, FALSE)
<1>2. Steps(r, k)
  BY <1>1 DEF Saw, Steps
<1>3. k \in Check /\ check[r].started <= now
  BY DEF FreshInv, TypeOK, Check, CheckOf, Served
<1>4. cache' \in Entry /\ EntryNotOld'
  BY DEF FreshInv, TypeOK, EntryNotOld, Served
<1> QED BY <1>2, <1>3, <1>4, CheckStep DEF CheckOf, Served

LEMMA FinishStep ==
    ASSUME FreshInv, NEW r \in Checks, Finish(r)
    PROVE  FreshInv'
<1> DEFINE k == check[r]
           v == Compatible(k.saw, k.config)
           d == CheckOf("decided", k.config, k.started, Failed, k.readAt, v,
                        Passes(v, k.config))
<1>1. /\ k \in Check /\ k.started <= k.readAt /\ k.started <= now
      /\ CacheTtl \in Nat \ {0}
  BY CacheTtlIsPositive DEF FreshInv, TypeOK, ServedAfterStart, Finish
<1>2. v \in BOOLEAN /\ k.config \in Config
  BY <1>1, VerdictIsBoolean, ConfigsAreConfigs DEF Check
<1>3. cache' = [verdict |-> v, expires |-> k.started + CacheTtl, readAt |-> k.readAt]
  BY DEF Finish, Expiry
<1>4. Steps(r, d)
  BY DEF Finish, Decided, Steps
<1>5. d \in Check
  BY <1>1, <1>2 DEF CheckOf, Check, Passes, Config
<1> HIDE DEF v
<1>6. cache' \in Entry /\ EntryNotOld'
  BY <1>1, <1>2, <1>3 DEF Entry, EntryNotOld, Check
<1>7. k.readAt + CacheTtl > k.started
  BY <1>1 DEF Check
<1> QED BY <1>1, <1>4, <1>5, <1>6, <1>7, CheckStep DEF CheckOf, Finish

LEMMA FreshStep == FreshInv /\ [Next]_vars => FreshInv'
<1> SUFFICES ASSUME FreshInv, [Next]_vars PROVE FreshInv'
  OBVIOUS
<1>1. ASSUME NEW r \in Checks, Begin(r) \/ Served(r) \/ Finish(r)
      PROVE  FreshInv'
  BY <1>1, BeginStep, ServedStep, FinishStep
<1>2. ASSUME NEW c \in Contracts, Upgrade(c)
      PROVE  FreshInv'
  BY <1>2 DEF Upgrade, FreshInv, TypeOK, EntryNotOld, ServedAfterStart, DecisionIsFresh
<1>3. ASSUME NEW cfg \in Configs, Reconfigure(cfg)
      PROVE  FreshInv'
  BY <1>3 DEF Reconfigure, FreshInv, TypeOK, EntryNotOld, ServedAfterStart, DecisionIsFresh
<1>4. CASE Tick
  <2>1. TypeOK'
    BY <1>4 DEF Tick, FreshInv, TypeOK, Check
  <2> QED BY <1>4, <2>1 DEF Tick, FreshInv, EntryNotOld, ServedAfterStart, DecisionIsFresh
<1>5. CASE UNCHANGED vars
  BY <1>5 DEF vars, FreshInv, TypeOK, EntryNotOld, ServedAfterStart, DecisionIsFresh
<1> QED BY <1>1, <1>2, <1>3, <1>4, <1>5 DEF Next

\* The variables of evaluate_task_contract and its environment keep their
\* types.
THEOREM TypeCorrect == Spec => []TypeOK
<1>1. FreshInv => TypeOK
  BY DEF FreshInv
<1> QED BY <1>1, FreshInit, FreshStep, PTL DEF Spec

\* Every decision, cached or not, is about what the bridge served less than
\* CacheTtl before the check began: evaluate_task_contract never acts on an
\* older verdict, however long a probe took and in whatever order probes
\* came back.
THEOREM DecisionsAreFresh == Spec => []DecisionIsFresh
<1>1. FreshInv => DecisionIsFresh
  BY DEF FreshInv
<1> QED BY <1>1, FreshInit, FreshStep, PTL DEF Spec

-----------------------------------------------------------------------------
(* What a change of the bridge or of the configuration leaves behind *)

(* Everything read after the last change is current: the configuration of  *)
(* a check that began after it, what a probe served after it saw, and the  *)
(* verdict of an entry whose check began after it.                         *)

ChangedBefore == changed \in Nat /\ changed <= now

ReadConfigIsCurrent ==
    \A r \in Checks : check[r].at # "idle" /\ check[r].started > changed
                      => check[r].config = config

SeenIsCurrent ==
    \A r \in Checks : check[r].at = "answering" =>
        /\ check[r].readAt <= now
        /\ check[r].readAt > changed => check[r].saw \in {runtime, Failed}

IsCurrentVerdict(v) == v \in {Compatible(runtime, config), Compatible(Failed, config)}

EntryIsCurrent == cache.expires > changed + CacheTtl => IsCurrentVerdict(cache.verdict)

EntryBegunBefore == cache.expires <= now + CacheTtl

DecisionIsCurrent ==
    \A r \in Checks :
        check[r].at = "decided" /\ check[r].started >= changed + CacheTtl /\ config.enabled
        => IsCurrentVerdict(check[r].verdict)

PassedAsConfigured ==
    \A r \in Checks : check[r].at = "decided" =>
        check[r].passed = (check[r].verdict \/ ~check[r].config.enforce)

EffectInv ==
    /\ FreshInv
    /\ ChangedBefore
    /\ ReadConfigIsCurrent
    /\ SeenIsCurrent
    /\ EntryIsCurrent
    /\ EntryBegunBefore
    /\ DecisionIsCurrent
    /\ PassedAsConfigured

LEMMA EffectInit == Init => EffectInv
<1> SUFFICES ASSUME Init PROVE EffectInv
  OBVIOUS
<1>1. CacheTtl \in Nat \ {0}
  BY CacheTtlIsPositive
<1>2. \A r \in Checks : check[r].at = "idle"
  BY DEF Init, CheckOf
<1>3. cache.expires = 0 /\ changed = 0 /\ now = 0
  BY DEF Init, NoEntry
<1> QED BY <1>1, <1>2, <1>3, FreshInit DEF EffectInv, ChangedBefore, ReadConfigIsCurrent,
        SeenIsCurrent, EntryIsCurrent, EntryBegunBefore, DecisionIsCurrent, PassedAsConfigured

\* What a check's own step must establish, the bridge and the configuration
\* being what they were.
LEMMA CheckEffect ==
    ASSUME EffectInv, FreshInv', NEW r \in Checks, NEW k \in Check, Steps(r, k),
           k.at # "idle" /\ k.started > changed => k.config = config,
           k.at = "answering" =>
              /\ k.readAt <= now
              /\ k.readAt > changed => k.saw \in {runtime, Failed},
           k.at = "decided" /\ k.started >= changed + CacheTtl /\ config.enabled
              => IsCurrentVerdict(k.verdict),
           k.at = "decided" => k.passed = (k.verdict \/ ~k.config.enforce),
           UNCHANGED <<now, runtime, config, changed, changes>>,
           EntryIsCurrent', EntryBegunBefore'
    PROVE  EffectInv'
<1>1. check'[r] = k /\ \A q \in Checks \ {r} : check'[q] = check[q]
  BY DEF Steps, EffectInv, FreshInv, TypeOK
<1>2. ChangedBefore' /\ ReadConfigIsCurrent'
  BY <1>1 DEF EffectInv, ChangedBefore, ReadConfigIsCurrent
<1>3. SeenIsCurrent'
  BY <1>1 DEF EffectInv, SeenIsCurrent
<1>4. DecisionIsCurrent'
  BY <1>1 DEF EffectInv, DecisionIsCurrent, IsCurrentVerdict
<1>5. PassedAsConfigured'
  BY <1>1 DEF EffectInv, PassedAsConfigured
<1> QED BY <1>2, <1>3, <1>4, <1>5 DEF EffectInv

LEMMA BeginEffect ==
    ASSUME EffectInv, FreshInv', NEW r \in Checks, Begin(r)
    PROVE  EffectInv'
<1> DEFINE Decision(v, s, t) ==
        CheckOf("decided", config, s, Failed, t, v, Passes(v, config))
<1>1. /\ now \in Nat /\ config \in Configs /\ config \in Config /\ cache \in Entry
      /\ CacheTtl \in Nat \ {0} /\ changed \in Nat /\ TypeOK
  BY CacheTtlIsPositive, ConfigsAreConfigs DEF EffectInv, FreshInv, TypeOK
<1>2. UNCHANGED <<now, runtime, config, changed, changes, cache>>
  BY DEF Begin
<1>3. EntryIsCurrent' /\ EntryBegunBefore'
  BY <1>2 DEF EffectInv, EntryIsCurrent, EntryBegunBefore, IsCurrentVerdict
<1>4. CASE Disabled(r)
  <2> DEFINE k == Decision(TRUE, now, now)
  <2>1. Steps(r, k) /\ ~config.enabled
    BY <1>4 DEF Disabled, Decided, Steps
  <2>2. k \in Check
    BY <1>1 DEF CheckOf, Check, Passes, Config
  <2>3. k.at = "decided" /\ k.config = config /\ k.passed = (k.verdict \/ ~k.config.enforce)
    BY DEF CheckOf, Passes
  <2> HIDE DEF k
  <2> QED BY <2>1, <2>2, <2>3, <1>2, <1>3, CheckEffect
<1>5. CASE FromCache(r)
  <2> DEFINE k == Decision(cache.verdict, now, cache.readAt)
  <2>1. Steps(r, k) /\ cache.expires > now
    BY <1>5 DEF FromCache, Decided, Steps, Fresh
  <2>2. k \in Check
    BY <1>1 DEF CheckOf, Check, Passes, Config, Entry
  <2>3. /\ k.at = "decided" /\ k.config = config /\ k.started = now
        /\ k.verdict = cache.verdict /\ k.passed = (k.verdict \/ ~k.config.enforce)
    BY DEF CheckOf, Passes
  <2> HIDE DEF k
  <2>4. now >= changed + CacheTtl => IsCurrentVerdict(cache.verdict)
    BY <1>1, <2>1 DEF EffectInv, EntryIsCurrent, Entry
  <2> QED BY <2>1, <2>2, <2>3, <2>4, <1>2, <1>3, CheckEffect
<1>6. CASE StartProbe(r)
  <2> DEFINE k == CheckOf("probing", config, now, Failed, 0, FALSE, FALSE)
  <2>1. Steps(r, k)
    BY <1>6 DEF StartProbe, Steps
  <2>2. k \in Check
    BY <1>1 DEF CheckOf, Check
  <2>3. k.at = "probing" /\ k.config = config
    BY DEF CheckOf
  <2> HIDE DEF k
  <2> QED BY <2>1, <2>2, <2>3, <1>2, <1>3, CheckEffect
<1> QED BY <1>4, <1>5, <1>6 DEF Begin

LEMMA ServedEffect ==
    ASSUME EffectInv, FreshInv', NEW r \in Checks, Served(r)
    PROVE  EffectInv'
<1>1. PICK c \in {runtime, Failed} : Saw(r, c)
  BY DEF Served
<1> DEFINE k == CheckOf("answering", check[r].config, check[r].started, c, now,
                        FALSE, FALSE)
<1>2. Steps(r, k)
  BY <1>1 DEF Saw, Steps
<1>3. k \in Check
  BY DEF EffectInv, FreshInv, TypeOK, Check, CheckOf
<1>4. /\ k.at = "answering" /\ k.config = check[r].config /\ k.started = check[r].started
      /\ k.saw = c /\ k.readAt = now /\ check[r].at = "probing" /\ now \in Nat
  BY DEF CheckOf, Served, EffectInv, FreshInv, TypeOK
<1>5. UNCHANGED <<now, runtime, config, changed, changes, cache>>
  BY DEF Served
<1>6. EntryIsCurrent' /\ EntryBegunBefore'
  BY <1>5 DEF EffectInv, EntryIsCurrent, EntryBegunBefore, IsCurrentVerdict
<1> HIDE DEF k
<1>7. k.started > changed => k.config = config
  BY <1>4 DEF EffectInv, ReadConfigIsCurrent
<1> QED BY <1>2, <1>3, <1>4, <1>5, <1>6, <1>7, CheckEffect

LEMMA FinishEffect ==
    ASSUME EffectInv, FreshInv', NEW r \in Checks, Finish(r)
    PROVE  EffectInv'
<1> DEFINE k == check[r]
           v == Compatible(k.saw, k.config)
           d == CheckOf("decided", k.config, k.started, Failed, k.readAt, v,
                        Passes(v, k.config))
<1>1. /\ k \in Check /\ k.started <= k.readAt /\ k.at = "answering"
      /\ CacheTtl \in Nat \ {0} /\ changed \in Nat
      /\ k.started \in Nat /\ k.readAt \in Nat /\ k.config \in Config
  BY CacheTtlIsPositive, ConfigsAreConfigs
     DEF EffectInv, FreshInv, TypeOK, ServedAfterStart, Finish, Check
<1>2. v \in BOOLEAN
  BY <1>1, VerdictIsBoolean DEF Check
<1>3. /\ cache' = [verdict |-> v, expires |-> k.started + CacheTtl, readAt |-> k.readAt]
      /\ UNCHANGED <<now, runtime, config, changed, changes>>
  BY DEF Finish, Expiry
<1>4. Steps(r, d)
  BY DEF Finish, Decided, Steps
<1>5. d \in Check
  BY <1>1, <1>2 DEF CheckOf, Check, Passes, Config
<1>6. k.started > changed => k.config = config /\ k.saw \in {runtime, Failed}
  BY <1>1 DEF EffectInv, ReadConfigIsCurrent, SeenIsCurrent
<1>7. k.started > changed => IsCurrentVerdict(v)
  BY <1>6 DEF IsCurrentVerdict
<1>8. /\ d.at = "decided" /\ d.config = k.config /\ d.started = k.started
      /\ d.verdict = v /\ d.passed = (d.verdict \/ ~d.config.enforce)
  BY DEF CheckOf, Passes
<1> HIDE DEF v, d
<1>9. EntryIsCurrent' /\ EntryBegunBefore'
  <2>1. now \in Nat /\ k.started <= now
    BY <1>1 DEF EffectInv, FreshInv, TypeOK
  <2> QED BY <1>1, <1>3, <1>7, <2>1 DEF EntryIsCurrent, EntryBegunBefore, IsCurrentVerdict
<1>10. d.started >= changed + CacheTtl => d.started > changed
  BY <1>1, <1>8
<1> QED BY <1>3, <1>4, <1>5, <1>6, <1>7, <1>8, <1>9, <1>10, CheckEffect

\* A change makes everything read so far old.
LEMMA ChangeEffect ==
    ASSUME EffectInv, FreshInv', changed' = now, UNCHANGED <<now, cache, check>>
    PROVE  EffectInv'
<1>1. /\ now \in Nat /\ CacheTtl \in Nat \ {0} /\ cache \in Entry
      /\ \A r \in Checks : check[r].at # "idle" =>
            check[r].started <= now /\ check[r].started \in Nat
  BY CacheTtlIsPositive DEF EffectInv, FreshInv, TypeOK, Check
<1>2. EntryBegunBefore'
  BY DEF EffectInv, EntryBegunBefore
<1>3. ChangedBefore' /\ ReadConfigIsCurrent'
  BY <1>1 DEF ChangedBefore, ReadConfigIsCurrent
<1>4. SeenIsCurrent'
  <2>1. \A r \in Checks : check[r].readAt \in Nat
    BY DEF EffectInv, FreshInv, TypeOK, Check
  <2> QED BY <1>1, <2>1 DEF EffectInv, SeenIsCurrent
<1>5. EntryIsCurrent'
  BY <1>1, <1>2 DEF EntryIsCurrent, EntryBegunBefore, Entry
<1>6. DecisionIsCurrent'
  BY <1>1 DEF DecisionIsCurrent
<1>7. PassedAsConfigured'
  BY DEF EffectInv, PassedAsConfigured
<1> QED BY <1>2, <1>3, <1>4, <1>5, <1>6, <1>7 DEF EffectInv

LEMMA EffectStep == EffectInv /\ [Next]_vars => EffectInv'
<1> SUFFICES ASSUME EffectInv, [Next]_vars PROVE EffectInv'
  OBVIOUS
<1>1. FreshInv'
  BY FreshStep DEF EffectInv
<1>2. ASSUME NEW r \in Checks, Begin(r) \/ Served(r) \/ Finish(r)
      PROVE  EffectInv'
  BY <1>1, <1>2, BeginEffect, ServedEffect, FinishEffect
<1>3. CASE (\E c \in Contracts : Upgrade(c)) \/ (\E cfg \in Configs : Reconfigure(cfg))
  BY <1>1, <1>3, ChangeEffect DEF Upgrade, Reconfigure
<1>4. CASE Tick \/ UNCHANGED vars
  <2>1. /\ UNCHANGED <<runtime, config, changed, cache, check>>
        /\ now \in Nat /\ (now' = now \/ now' = now + 1)
        /\ cache.expires \in Nat /\ CacheTtl \in Nat
        /\ \A r \in Checks : check[r].readAt \in Nat
    BY <1>4, CacheTtlIsPositive
       DEF Tick, vars, EffectInv, FreshInv, TypeOK, Entry, Check
  <2>2. ChangedBefore' /\ EntryBegunBefore' /\ SeenIsCurrent'
    BY <2>1 DEF EffectInv, ChangedBefore, EntryBegunBefore, SeenIsCurrent
  <2>3. ReadConfigIsCurrent' /\ EntryIsCurrent' /\ DecisionIsCurrent' /\ PassedAsConfigured'
    BY <2>1 DEF EffectInv, ReadConfigIsCurrent, EntryIsCurrent, DecisionIsCurrent,
       PassedAsConfigured, IsCurrentVerdict
  <2> QED BY <1>1, <2>2, <2>3 DEF EffectInv
<1> QED BY <1>2, <1>3, <1>4 DEF Next

LEMMA EffectSafety == Spec => []EffectInv
  BY EffectInit, EffectStep, PTL DEF Spec

LEMMA LateChecksAreCurrent ==
    ASSUME EffectInv, NEW r \in Checks, check[r].at = "decided",
           check[r].started >= changed + CacheTtl
    PROVE  /\ check[r].config = config
           /\ config.enabled => IsCurrentVerdict(check[r].verdict)
<1>1. /\ changed \in Nat /\ CacheTtl \in Nat \ {0} /\ check[r].started \in Nat
      /\ check[r].at # "idle"
  BY CacheTtlIsPositive DEF EffectInv, FreshInv, TypeOK, Check
<1>2. check[r].started > changed
  BY <1>1
<1> QED BY <1>1, <1>2 DEF EffectInv, ReadConfigIsCurrent, DecisionIsCurrent

\* A change of the bridge or of the configuration takes effect: every check
\* that begins CacheTtl or more after it is judged by what is in force, or by
\* a failed probe, for any number of checks and any delay of their probes.
THEOREM ChangesAreHeeded == Spec => []ChangesTakeEffect
<1>1. EffectInv => ChangesTakeEffect
  BY LateChecksAreCurrent DEF ChangesTakeEffect, Judges, IsCurrentVerdict
<1> QED BY <1>1, EffectSafety, PTL

\* An enforced, fail-closed gate lets no mutation through to a bridge that
\* has served an incompatible contract for CacheTtl.
THEOREM GateHolds == Spec => []EnforcedGateHolds
<1>1. EffectInv => EnforcedGateHolds
  <2> SUFFICES ASSUME EffectInv, NEW r \in Checks, check[r].at = "decided",
                      check[r].started >= changed + CacheTtl,
                      config.enabled, config.enforce, config.failClosed,
                      runtime.probe = "answered",
                      runtime.version = "unsupported" \/ runtime.operations = "some",
                      runtime.version # "none"
               PROVE  ~check[r].passed
    BY DEF EnforcedGateHolds
  <2>1. check[r].config = config /\ IsCurrentVerdict(check[r].verdict)
    BY LateChecksAreCurrent
  <2>2. ~Compatible(runtime, config) /\ ~Compatible(Failed, config)
    BY DEF Compatible, Failed
  <2>3. check[r].passed = (check[r].verdict \/ ~check[r].config.enforce)
    BY DEF EffectInv, PassedAsConfigured
  <2> QED BY <2>1, <2>2, <2>3 DEF IsCurrentVerdict
<1> QED BY <1>1, EffectSafety, PTL
=============================================================================
