----------------------------- MODULE Resolution -----------------------------
(***************************************************************************)
(* From the model a request names to the upstream clients that may serve   *)
(* it: ProviderManager.resolve of auth/manager.py and what it calls.       *)
(*                                                                         *)
(* The model keeps the order in which references, profiles, environment    *)
(* and configured keys are tried, what stops the search, and the cache of   *)
(* clients.  Names are values: a model reference is a record of provider,   *)
(* profile and model, None where it has none; a profile id is a tuple,      *)
(* <<provider, name>> or <<name>> when it is written without provider; the  *)
(* source of a credential is a tuple of where it is from and its name.      *)
(* Token refresh is ConfigFile's: a profile is stale here when it is        *)
(* expired and cannot be refreshed.                                         *)
(***************************************************************************)
EXTENDS Access, SequencesExt

CONSTANTS
  Catalog,       \* built-in providers: provider -> provider configuration
  BuiltinModels, \* provider -> set of models of the catalog
  ModelFamily    \* model -> "gpt", "claude", "minimax", "kimi" or "other"

LocalEmbeddings      == "local-embeddings"
LocalEmbeddingModels == {"google/embeddinggemma-300m", "local-fallback"}
AgentProviders       == {"agent_bridge", "agent"}
CliProviders         == {"claude-cli", "codex-cli"}
AgentUrl == [scheme |-> "http", userinfo |-> FALSE, host |-> "127.0.0.1",
             address |-> [nets |-> {}, kinds |-> {"loopback_ip", "private_ip"}]]

Blank == [url |-> None, key |-> None, auth |-> None, api |-> None,
          headers |-> <<>>, authHeader |-> None, models |-> {}]

Ref(provider, profile, model) ==
  [provider |-> provider, profile |-> profile, model |-> model]

(* Python's `a or b`.                                                      *)
Or(a, b) == IF a # None THEN a ELSE b

(* The sequences Op makes of the elements of s, one after the other.        *)
ConcatMap(Op(_), s) == FlattenSeq([i \in DOMAIN s |-> Op(s[i])])

(* A list of x, or of nothing when x is None.                              *)
Optional(x) == IF x = None THEN <<>> ELSE <<x>>

(* The elements of s whose key was not seen before, in order.              *)
KeepFirst(keys, kept, i) ==
  IF \E n \in DOMAIN kept : keys[kept[n]] = keys[i] THEN kept ELSE Append(kept, i)
FirstIndexes(keys) ==
  FoldLeftDomain(LAMBDA kept, i : KeepFirst(keys, kept, i), <<>>, keys)
FirstOfEach(s, Key(_)) ==
  LET kept == FirstIndexes([i \in DOMAIN s |-> Key(s[i])])
  IN  [n \in DOMAIN kept |-> s[kept[n]]]

-----------------------------------------------------------------------------
(* The configuration of a provider: the catalog overlaid, field by field,   *)
(* with what the user configured.                                           *)

AllProviderIds(cfg) ==
  LET known == DOMAIN cfg.providers \cup DOMAIN Catalog \cup AgentProviders \cup CliProviders
  IN  IF cfg.active = {} THEN known ELSE known \cap cfg.active

MergeModels(cfg, mine, theirs) == IF cfg.replaceModels THEN mine ELSE mine \cup theirs

(* The gateway of Cloudflare has its url from the first API key profile     *)
(* that names an account.                                                   *)
ProfileUrl(cfg, provider, kinds) ==
  LET has(p) == p.provider = provider /\ p.kind \in kinds /\ p.url # None
      at == SelectInSeq(cfg.profiles, has)
  IN  IF at = 0 THEN None ELSE cfg.profiles[at].url

ProviderConfig(cfg, provider) ==
  LET configured == provider \in DOMAIN cfg.providers
      builtin    == provider \in DOMAIN Catalog
      mine       == IF configured THEN cfg.providers[provider] ELSE Blank
      theirs     == IF builtin THEN Catalog[provider] ELSE Blank
      models     == IF configured /\ builtin THEN MergeModels(cfg, mine.models, theirs.models)
                                             ELSE mine.models \cup theirs.models
  IN  IF provider = LocalEmbeddings
      THEN [Blank EXCEPT !.authHeader = FALSE, !.models = LocalEmbeddingModels]
      ELSE IF provider \in AgentProviders
      THEN IF configured THEN mine ELSE [Blank EXCEPT !.url = AgentUrl]
      ELSE IF ~configured /\ ~builtin THEN None
      ELSE [url     |-> Or(Or(mine.url, theirs.url),
                           IF provider = "cloudflare-ai-gateway"
                           THEN ProfileUrl(cfg, provider, {"api_key"}) ELSE None),
            key     |-> Or(mine.key, theirs.key),
            auth    |-> Or(mine.auth, theirs.auth),
            api     |-> Or(mine.api, theirs.api),
            headers |-> mine.headers @@ theirs.headers,
            authHeader |-> Or(mine.authHeader, theirs.authHeader),
            models  |-> IF models = {} /\ provider \in DOMAIN BuiltinModels
                        THEN BuiltinModels[provider] ELSE models]

-----------------------------------------------------------------------------
(* Credentials, in the order in which they are tried.                       *)

ProfileMode == [api_key |-> "api-key", token |-> "token", oauth |-> "oauth", cli |-> "oauth"]

(* Profiles of a provider: OAuth, then tokens, then keys.  cfg.profiles     *)
(* lists the profiles in the order of their ids.                            *)
ProfileIdsForProvider(cfg, provider) ==
  LET ids(mode) == ConcatMap(LAMBDA p : IF p.provider = provider /\ ProfileMode[p.kind] = mode
                                        THEN <<p.id>> ELSE <<>>, cfg.profiles)
  IN  ids("oauth") \o ids("token") \o ids("api-key")

ProfileCandidates(cfg, provider, preferred) ==
  LET asked == IF preferred = None THEN <<>>
               ELSE IF Len(preferred) = 1 THEN <<preferred, <<provider>> \o preferred>>
               ELSE <<preferred>>
      order == IF provider \in DOMAIN cfg.authOrder THEN cfg.authOrder[provider] ELSE <<>>
  IN  FirstOfEach(asked \o order \o ProfileIdsForProvider(cfg, provider), LAMBDA id : id)

ProfileCredentials(cfg, provider, preferred) ==
  LET usable(p) == p.provider = provider /\ ~p.stale /\ p.secret # None
      credential(p) == [key |-> p.secret, source |-> <<"profile", p.id>>,
                        mode |-> ProfileMode[p.kind]]
      credentials(id) == ConcatMap(LAMBDA p : IF p.id = id /\ usable(p)
                                              THEN <<credential(p)>> ELSE <<>>, cfg.profiles)
  IN  ConcatMap(credentials, ProfileCandidates(cfg, provider, preferred))

EnvCredentials(provider, mode) ==
  LET found == IF provider \in DOMAIN Env.keys THEN Env.keys[provider] ELSE <<>>
  IN  [i \in DOMAIN found |-> [found[i] EXCEPT !.mode = Or(@, mode)]]

(* What is left when there is no key at all.                                *)
KeylessCredentials(cfg, provider, pc, mode) ==
  LET explicit == provider \in DOMAIN cfg.providers
      keyless(source, m) == <<[key |-> None, source |-> source, mode |-> m]>>
  IN  IF pc.authHeader = FALSE /\ explicit THEN keyless(<<"provider-config">>, mode)
      ELSE IF mode = "aws-sdk"
      THEN IF Env.aws # None \/ explicit THEN keyless(<<"aws-sdk", Or(Env.aws, "default-chain")>>, mode)
                                         ELSE <<>>
      ELSE IF mode = "cli" \/ provider \in CliProviders THEN keyless(<<"cli">>, "cli")
      ELSE <<>>

ByPrecedence(provider, profiles, env) ==
  IF provider \in {"google", "gemini"} THEN env \o profiles ELSE profiles \o env

OrKeyless(found, keyless) == IF found # <<>> THEN found ELSE keyless

(* <<>> stands for the ValueError "No credentials available".              *)
ResolveApiKeys(cfg, provider, pc, preferred) ==
  LET mode == Or(pc.auth, IF provider = "amazon-bedrock" THEN "aws-sdk" ELSE "api-key")
      configured == IF pc.key = None THEN <<>>
                    ELSE <<[key |-> pc.key, source |-> <<"models.providers">>, mode |-> mode]>>
      found == ByPrecedence(provider, ProfileCredentials(cfg, provider, preferred),
                            EnvCredentials(provider, mode)) \o configured
  IN  IF provider = LocalEmbeddings
      THEN <<[key |-> None, source |-> <<"local-embedding">>, mode |-> "cli"]>>
      ELSE FirstOfEach(OrKeyless(found, KeylessCredentials(cfg, provider, pc, mode)),
                       LAMBDA c : c.key)

ProviderHasUsableCredentials(cfg, provider, preferred) ==
  LET pc == ProviderConfig(cfg, provider)
  IN  /\ cfg.active = {} \/ provider \in cfg.active
      /\ pc # None
      /\ ResolveApiKeys(cfg, provider, pc, preferred) # <<>>

-----------------------------------------------------------------------------
(* From the name in the request to a provider, a profile and a model; None  *)
(* stands for a ValueError.                                                 *)

(* openai/gpt-* goes to the Codex subscription when there is no OpenAI key. *)
CanonicalOpenAICodexRef(cfg, ref) ==
  LET usable(p) == ProviderHasUsableCredentials(cfg, p, None)
  IN  IF \/ ref.provider # "openai" \/ ModelFamily[ref.model] # "gpt"
         \/ ProviderHasUsableCredentials(cfg, "openai", ref.profile) THEN ref
      ELSE IF usable("openai-codex") THEN Ref("openai-codex", None, ref.model)
      ELSE IF usable("codex-cli") THEN Ref("codex-cli", None, ref.model)
      ELSE ref

Lists(pc, model) == pc # None /\ model \in pc.models

OnlyOrFamily(listing, family) ==
  IF \E p \in listing : listing = {p} THEN CHOOSE p \in listing : TRUE
  ELSE CASE family = "gpt"    -> "openai"
         [] family = "claude" -> "anthropic"
         [] family \in {"minimax", "kimi"} -> family
         [] OTHER -> None

InferProviderForModelId(cfg, model) ==
  OnlyOrFamily({p \in AllProviderIds(cfg) : Lists(ProviderConfig(cfg, p), model)},
               ModelFamily[model])

RefOf(provider, profile, model) ==
  IF provider = None THEN None ELSE Ref(provider, profile, model)

NamedModelRef(cfg, raw, preferred) ==
  LET qualified(id) == IF Len(id) = 1 THEN <<raw.provider>> \o id ELSE id
  IN  CASE raw.provider = None /\ raw.model = None -> None
        [] raw.provider = None /\ raw.model \in LocalEmbeddingModels ->
             Ref(LocalEmbeddings, None, raw.model)
        [] raw.provider # None ->
             IF raw.model = None THEN None
             ELSE CanonicalOpenAICodexRef(cfg,
                    Ref(raw.provider,
                        IF raw.profile # None THEN qualified(raw.profile) ELSE preferred,
                        raw.model))
        [] OTHER -> RefOf(InferProviderForModelId(cfg, raw.model), preferred, raw.model)

(* The default model stands in for a missing name and for a bare name no    *)
(* provider claims; it is resolved in its turn, once.                       *)
ResolveModelRef(cfg, raw, preferred) ==
  Or(NamedModelRef(cfg, raw, preferred),
     IF raw.provider = None /\ cfg.defaultModel \notin {None, raw}
     THEN NamedModelRef(cfg, cfg.defaultModel, preferred) ELSE None)

(* The keys of fallback.order, the most specific first: a key is the tuple  *)
(* of the parts of its text.  Orders for a text with a profile are left out. *)
FallbackModelRefs(cfg, raw, primary) ==
  LET order == cfg.fallback.order
      self  == Ref(primary.provider, None, primary.model)
      rawKey == IF raw.profile # None THEN <<>> ELSE Optional(raw.provider) \o Optional(raw.model)
      keys  == << <<"chat", primary.provider, primary.model>>, <<"chat", primary.provider>>,
                  <<primary.provider, primary.model>>, <<primary.provider>>, rawKey >>
      listed == ConcatMap(LAMBDA key : IF key \in DOMAIN order THEN order[key] ELSE <<>>, keys)
  IN  IF ~cfg.fallback.enabled THEN <<>>
      ELSE FirstOfEach(ConcatMap(LAMBDA r : IF r = self THEN <<>> ELSE <<r>>, listed), LAMBDA r : r)

-----------------------------------------------------------------------------
(* Clients.  A client keeps what it was built from: adapter, url, key and   *)
(* headers.  The cache of clients is a function from what names one.        *)
(* (The definitions named Bad... are slips the properties must notice.)      *)

BadCacheKey(provider, profile, url, credential) == <<provider, profile, url, credential.mode>>
CacheKey(provider, profile, url, credential) ==
  <<provider, profile, url, credential.mode, credential.key>>

EffectiveBaseUrl(cfg, provider, pc, profile) ==
  LET named == SelectSeq(cfg.profiles,
                         LAMBDA p : p.id = profile /\ p.provider = provider /\ p.url # None)
  IN  IF provider # "github-copilot" THEN pc.url
      ELSE IF named # <<>> THEN Head(named).url
      ELSE Or(ProfileUrl(cfg, provider, {"api_key", "token", "oauth", "cli"}), pc.url)

ApiOf(provider, pc) ==
  Or(pc.api, IF provider \in {"anthropic", "minimax"} THEN "anthropic-messages"
                                                      ELSE "openai-completions")

AdapterOf(provider, api) ==
  IF provider = LocalEmbeddings           THEN "local"
  ELSE IF api = "openai-codex-responses"  THEN "codex"
  ELSE IF provider \in CliProviders       THEN "cli"
  ELSE IF provider = "minimax"            THEN "anthropic"
  ELSE IF provider \in AgentProviders     THEN "agent"
  ELSE IF api = "bedrock-converse-stream" THEN "bedrock"
  ELSE IF api = "anthropic-messages"      THEN "anthropic"
  ELSE IF api = "openai-completions"      THEN "openai"
  ELSE None

(* A header the configuration names is never overwritten.                   *)
BuildHeaders(api, pc, credential) ==
  LET anthropic == api = "anthropic-messages"
      bearer == IF anthropic THEN {"token", "oauth"} ELSE {"api-key", "token", "oauth"}
      name   == IF credential.key = None           THEN None
                ELSE IF credential.mode \in bearer THEN "authorization"
                ELSE IF anthropic                  THEN "x-api-key" ELSE None
  IN  IF pc.authHeader = FALSE \/ name = None THEN pc.headers
      ELSE pc.headers @@ (name :> credential.key)

(* None stands for a ValueError: no url, a url the egress policy refuses,   *)
(* no key where one is needed, an API no adapter speaks.                    *)
BuildProvider(cfg, provider, pc, credential, url, dns) ==
  LET api     == ApiOf(provider, pc)
      adapter == AdapterOf(provider, api)
      answers == IF url # None /\ url.host \in DOMAIN dns THEN dns[url.host] ELSE {}
      self    == adapter \in {"local", "cli"}
  IN  IF \/ adapter = None
         \/ provider \notin {LocalEmbeddings} \cup CliProviders /\ url = None
         \/ /\ provider # LocalEmbeddings /\ url # None
            /\ ~DestinationPermitted(cfg.egress, provider, url, answers)
         \/ provider = "minimax" /\ credential.key = None
      THEN None
      ELSE [provider |-> provider, adapter |-> adapter,
            url      |-> IF self THEN None ELSE url,
            key      |-> IF self THEN None ELSE credential.key,
            headers  |-> IF self THEN <<>> ELSE BuildHeaders(api, pc, credential)]

Filed(cache, key, client) ==
  [k \in DOMAIN cache \cup {key} |-> IF k = key THEN client ELSE cache[k]]

(* A cached client is used as it is, whatever the configuration says now.   *)
CachedOrBuilt(cache, key, built) == IF key \in DOMAIN cache THEN cache[key] ELSE built

(* The profile a credential is used with: its own or else that of the       *)
(* reference.                                                               *)
OfProfile(credential) == Head(credential.source) = "profile"
ProfileOf(credential, profile) ==
  IF OfProfile(credential) THEN credential.source[2] ELSE profile

(* The profile every attempt for a reference carries: that of the           *)
(* reference, or else the first that has a credential.                      *)
SelectedProfile(ref, credentials) ==
  LET first == SelectInSeq(credentials, OfProfile)
  IN  IF ref.profile # None THEN ref.profile
      ELSE IF first # 0 THEN credentials[first].source[2] ELSE None

(* A client for each credential, from the cache or new.  A client that      *)
(* cannot be built ends it; those built before stay cached.                 *)
TryCredential(asked, acc, credential) ==
  LET provider == asked.ref.provider
      profile  == ProfileOf(credential, asked.ref.profile)
      url      == EffectiveBaseUrl(asked.cfg, provider, asked.pc, profile)
      key      == CacheKey(provider, profile, url, credential)
      client   == CachedOrBuilt(acc.cache, key, BuildProvider(asked.cfg, provider, asked.pc,
                                                              credential, url, asked.dns))
  IN  IF ~acc.ok \/ client = None
      THEN [ok |-> FALSE, cache |-> acc.cache, attempts |-> acc.attempts]
      ELSE [ok       |-> TRUE,
            cache    |-> Filed(acc.cache, key, client),
            attempts |-> Append(acc.attempts, [client   |-> client,
                                               provider |-> provider,
                                               model    |-> asked.ref.model,
                                               profile  |-> asked.selected,
                                               source   |-> credential.source,
                                               index    |-> 0])]

TryCredentials(asked, cache, credentials) ==
  FoldLeft(LAMBDA acc, credential : TryCredential(asked, acc, credential),
           [ok |-> credentials # <<>>, cache |-> cache, attempts |-> <<>>], credentials)

AttemptsWith(cfg, cache, ref, pc, credentials, dns) ==
  TryCredentials([cfg |-> cfg, ref |-> ref, pc |-> pc, dns |-> dns,
                  selected |-> SelectedProfile(ref, credentials)], cache, credentials)

ResolveProviderForRef(cfg, cache, ref, dns) ==
  LET pc == ProviderConfig(cfg, ref.provider)
  IN  AttemptsWith(cfg, cache, ref, pc,
                   IF pc = None THEN <<>> ELSE ResolveApiKeys(cfg, ref.provider, pc, ref.profile),
                   dns)

(* The attempts that are made: each once, and no more than allowed.         *)
BadCapAttempts(cfg, attempts) ==
  LET max == cfg.fallback.maxAttempts + 1
  IN  SubSeq(attempts, 1, IF Len(attempts) < max THEN Len(attempts) ELSE max)
CapAttempts(cfg, attempts) ==
  LET distinct == FirstOfEach(attempts,
                              LAMBDA a : <<a.provider, a.model, a.profile, a.source>>)
      max      == IF cfg.fallback.maxAttempts < 1 THEN 1 ELSE cfg.fallback.maxAttempts
  IN  SubSeq(distinct, 1, IF Len(distinct) < max THEN Len(distinct) ELSE max)

(* resolve(): the attempts of the reference and then those of its           *)
(* fallbacks; a fallback that cannot be resolved is left out, but the       *)
(* clients built for it stay cached.                                        *)
Extended(acc, resolved, i) ==
  LET indexed == [n \in DOMAIN resolved.attempts |-> [resolved.attempts[n] EXCEPT !.index = i]]
  IN  [ok       |-> acc.ok,
       cache    |-> resolved.cache,
       attempts |-> IF resolved.ok THEN acc.attempts \o indexed ELSE acc.attempts]

TryFallback(asked, acc, i) ==
  LET fallback == ResolveModelRef(asked.cfg, asked.refs[i], None)
  IN  IF fallback = None THEN acc
      ELSE Extended(acc, ResolveProviderForRef(asked.cfg, acc.cache, fallback, asked.dns), i)

TryFallbacks(asked, primary) ==
  FoldLeftDomain(LAMBDA acc, i : TryFallback(asked, acc, i), primary, asked.refs)

WithFallbacks(cfg, primary, refs, dns) ==
  LET all == TryFallbacks([cfg |-> cfg, refs |-> refs, dns |-> dns], primary)
  IN  IF ~primary.ok THEN [ok |-> FALSE, cache |-> primary.cache, attempts |-> <<>>]
      ELSE [ok |-> TRUE, cache |-> all.cache, attempts |-> CapAttempts(cfg, all.attempts)]

ResolveRef(cfg, cache, raw, ref, dns) ==
  IF ref = None THEN [ok |-> FALSE, cache |-> cache, attempts |-> <<>>]
  ELSE WithFallbacks(cfg, ResolveProviderForRef(cfg, cache, ref, dns),
                     FallbackModelRefs(cfg, raw, ref), dns)

Resolve(cfg, cache, raw, preferred, dns) ==
  ResolveRef(cfg, cache, raw, ResolveModelRef(cfg, raw, preferred), dns)

RetryStatusCodes(cfg) == IF cfg.fallback.retry = {} THEN {429} ELSE cfg.fallback.retry
=============================================================================
