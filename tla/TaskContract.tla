---------------------------- MODULE TaskContract ----------------------------
(***************************************************************************)
(* The contract gate of the mutating task routes:                          *)
(* src/open_llm_auth/server/task_contract.py (evaluate_task_contract, its  *)
(* cache and _fetch_and_validate) under routes._enforce_mutating_task_     *)
(* contract.                                                               *)
(*                                                                         *)
(* A check reads the configuration and the clock, then awaits the probe;   *)
(* other checks, an upgrade of the bridge and a save of the configuration  *)
(* can come in between, and probes may return in another order than they   *)
(* were sent.  The cache key (provider id and base url) names neither the  *)
(* configuration nor the check that filled the entry.                      *)
(*                                                                         *)
(* One runtime is modelled, so the cache is one entry.  What the bridge    *)
(* serves is abstracted to what _fetch_and_validate tells apart.           *)
(***************************************************************************)
EXTENDS Integers

CONSTANTS
    Checks,     \* mutating requests that reach the gate
    Contracts,  \* what the bridge may serve over time
    Configs,    \* the taskContract sections an operator may save
    CacheTtl,   \* cacheTtlSeconds
    MaxNow,     \* bound: the last instant of the clock
    MaxChanges  \* bound: upgrades and reconfigurations

Probes     == {"answered", "missing", "failed"}     \* 200, 404, anything else
Versions   == {"supported", "unsupported", "none"}
Operations == {"all", "some", "unlisted"}
Contract == [probe : Probes, version : Versions, operations : Operations]
Config == [enabled : BOOLEAN, enforce : BOOLEAN,
           allowLegacy : BOOLEAN, failClosed : BOOLEAN]

ASSUME ContractsAreContracts == Contracts \subseteq Contract
ASSUME ConfigsAreConfigs == Configs \subseteq Config
ASSUME CacheTtlIsPositive == CacheTtl \in Nat \ {0}

VARIABLES
    now,        \* the clock
    runtime,    \* the contract the bridge serves
    config,     \* the configuration load_config would return
    changed,    \* when runtime or config last changed
    changes,    \* how often they did
    cache,      \* _CONTRACT_CACHE
    check       \* each check's progress

vars == <<now, runtime, config, changed, changes, cache, check>>

Failed == [probe |-> "failed", version |-> "none", operations |-> "unlisted"]

\* readAt is when the bridge served what the verdict judges.
NoEntry == [verdict |-> FALSE, expires |-> 0, readAt |-> 0]
Entry == [verdict : BOOLEAN, expires : Nat, readAt : Nat]

\* "probing": the probe is on its way to the bridge, "answering": on its way
\* back.  `started` is the clock read before the probe.
Check == [at      : {"idle", "probing", "answering", "decided"},
          config  : Configs,
          started : Nat,
          saw     : Contracts \cup {Failed},
          readAt  : Nat,
          verdict : BOOLEAN,
          passed  : BOOLEAN]

CheckOf(p, cfg, s, saw, t, v, passed) ==
    [at |-> p, config |-> cfg, started |-> s, saw |-> saw, readAt |-> t,
     verdict |-> v, passed |-> passed]

TypeOK ==
    /\ now \in Nat
    /\ runtime \in Contracts
    /\ config \in Configs
    /\ changed \in Nat
    /\ changes \in Nat
    /\ cache \in Entry
    /\ check \in [Checks -> Check]
    /\ \A r \in Checks : check[r].at # "idle" => check[r].started <= now

Init ==
    /\ now = 0
    /\ runtime \in Contracts
    /\ config \in Configs
    /\ changed = 0
    /\ changes = 0
    /\ cache = NoEntry
    /\ check = [r \in Checks |->
                   CheckOf("idle", config, 0, Failed, 0, FALSE, FALSE)]

-----------------------------------------------------------------------------
(* _fetch_and_validate *)

\* Judged by the configuration the check was called with.  The definitions
\* named Bad... are slips the properties must notice; nothing uses them.
BadCompatible(c, cfg) == c.version = "supported" \/ cfg.allowLegacy
Compatible(c, cfg) ==
    IF c.probe = "missing" THEN cfg.allowLegacy \/ ~cfg.failClosed
    ELSE IF c.probe = "failed" THEN ~cfg.failClosed
    ELSE IF c.version = "none" THEN cfg.allowLegacy
    ELSE c.operations # "some" /\ c.version = "supported"

-----------------------------------------------------------------------------
(* evaluate_task_contract and the gate around it *)

\* An entry is used while its expiry is in the future.
BadFresh(entry) == TRUE
Fresh(entry) == entry.expires > now

\* In monitor mode an incompatible contract is logged and let through.
Passes(verdict, cfg) == verdict \/ ~cfg.enforce

Decided(r, verdict, cfg, started, readAt) ==
    check' = [check EXCEPT ![r] = CheckOf("decided", cfg, started, Failed, readAt,
                                          verdict, Passes(verdict, cfg))]

\* contract_check_disabled: no probe, no look at the cache.
Disabled(r) ==
    /\ ~config.enabled
    /\ Decided(r, TRUE, config, now, now)

FromCache(r) ==
    /\ config.enabled
    /\ Fresh(cache)
    /\ Decided(r, cache.verdict, config, now, cache.readAt)

StartProbe(r) ==
    /\ config.enabled
    /\ ~Fresh(cache)
    /\ check' = [check EXCEPT ![r] = CheckOf("probing", config, now, Failed, 0,
                                             FALSE, FALSE)]

Begin(r) ==
    /\ check[r].at = "idle"
    /\ Disabled(r) \/ FromCache(r) \/ StartProbe(r)
    /\ UNCHANGED <<now, runtime, config, changed, changes, cache>>

Saw(r, c) ==
    check' = [check EXCEPT ![r] = CheckOf("answering", check[r].config,
                                          check[r].started, c, now, FALSE, FALSE)]

\* The bridge serves what it has; or the probe times out or breaks.
Served(r) ==
    /\ check[r].at = "probing"
    /\ Saw(r, runtime) \/ Saw(r, Failed)
    /\ UNCHANGED <<now, runtime, config, changed, changes, cache>>

\* The expiry counts from before the probe, and the entry replaces whatever
\* another check put there meanwhile, newer or not.
BadExpiry(r) == now + CacheTtl
BadExpirySign(r) == check[r].started - CacheTtl
Expiry(r) == check[r].started + CacheTtl

Finish(r) ==
    LET k == check[r]
        verdict == Compatible(k.saw, k.config) IN
    /\ k.at = "answering"
    /\ cache' = [verdict |-> verdict, expires |-> Expiry(r), readAt |-> k.readAt]
    /\ Decided(r, verdict, k.config, k.started, k.readAt)
    /\ UNCHANGED <<now, runtime, config, changed, changes>>

-----------------------------------------------------------------------------
(* The environment *)

\* The bridge is upgraded, downgraded, started or stopped.
Upgrade(c) ==
    /\ c # runtime
    /\ runtime' = c
    /\ changes < MaxChanges
    /\ changes' = changes + 1
    /\ changed' = now
    /\ UNCHANGED <<now, config, cache, check>>

\* save_config: the next load_config returns the new section.
Reconfigure(cfg) ==
    /\ cfg # config
    /\ config' = cfg
    /\ changes < MaxChanges
    /\ changes' = changes + 1
    /\ changed' = now
    /\ UNCHANGED <<now, runtime, cache, check>>

Tick ==
    /\ now < MaxNow
    /\ now' = now + 1
    /\ UNCHANGED <<runtime, config, changed, changes, cache, check>>

Next ==
    \/ \E r \in Checks : Begin(r) \/ Served(r) \/ Finish(r)
    \/ \E c \in Contracts : Upgrade(c)
    \/ \E cfg \in Configs : Reconfigure(cfg)
    \/ Tick

Spec == Init /\ [][Next]_vars

-----------------------------------------------------------------------------
(* Properties *)

\* A check answers with what the bridge served less than CacheTtl before the
\* check began, or after: however long the probe behind a cached decision
\* took, and whatever order probes came back in.
DecisionIsFresh ==
    \A r \in Checks : check[r].at = "decided" =>
        check[r].readAt + CacheTtl > check[r].started

\* The verdict a check acts on.
Judges(r, cfg) == \/ check[r].verdict = Compatible(runtime, cfg)
                  \/ check[r].verdict = Compatible(Failed, cfg)

\* Once the bridge and the configuration have been left alone for CacheTtl,
\* every check that begins is judged by them - or by a failed probe, whose
\* verdict is cached like any other.
ChangesTakeEffect ==
    \A r \in Checks :
        check[r].at = "decided" /\ check[r].started >= changed + CacheTtl =>
            /\ check[r].config = config
            /\ config.enabled => Judges(r, config)

\* With enforcement and failClosed on for at least CacheTtl, no mutation
\* passes while the bridge serves a contract that lacks an operation or is
\* of an unsupported version.
EnforcedGateHolds ==
    \A r \in Checks :
        /\ check[r].at = "decided"
        /\ check[r].started >= changed + CacheTtl
        /\ config.enabled /\ config.enforce /\ config.failClosed
        /\ runtime.probe = "answered"
        /\ runtime.version = "unsupported" \/ runtime.operations = "some"
        /\ runtime.version # "none"
        => ~check[r].passed
=============================================================================
