# OpenLLMAuth in TLA+

OpenLLMAuth is a gateway between OpenAI- or Anthropic-style clients and model
providers.  One uvicorn process runs one asyncio loop; the state that outlives
a request is in a SQLite file (idempotency keys, task owners, action history),
a JSON configuration file (providers, credentials, tokens), a SQLite usage log
and a few caches in memory.  This directory holds TLA+ models of the parts of
the gateway in which several requests, or a request and a crash, can get in
each other's way, the TLC runs that check them and proofs checked by TLAPS.

Paths below are relative to `src/open_llm_auth/`.

## Inventory

| part | state | operations | what is hard | what makes it correct |
|---|---|---|---|---|
| durable store, `server/durable_state.py` | table `idempotency_keys`, the futures of pending keys, table `task_ownership`, the history | claim, store, purge, wait; claim and read an owner; append | lease takeover, shared futures, rows outliving the process, late stores | a replay belongs to the request; a claimant keeps its row; waiters leave; an owner never changes |
| mutating task routes, `server/routes.py` | the handlers in flight | create, approve, retry, cancel | every write commits on its own; the bridge may act after its caller gave up | only owners mutate; a key is sent once; a 200 is true and its task owned |
| task contract gate, `server/task_contract.py` | `_CONTRACT_CACHE` | evaluate | clock and configuration read before an await, answers out of order | decisions are fresh; changes take effect; enforcement holds |
| wait route and task stream, `server/routes.py`, `providers/agent_bridge.py` | a deadline; the events told so far | poll | the task moves between two reads | a timeout misses nothing; a stream tells the whole log; both end |
| completion routes, `server/routes.py`, `server/anthropic_routes.py` | the requests in flight, the usage rows | try the attempts of a resolution in order, stream or not | failing before or after the first chunk; a change of configuration meanwhile | fallback only where nothing has been sent; the usage row names who answered; every request ends |
| resolution and provider cache, `auth/manager.py` | loaded configuration, `_provider_cache` | resolve, list models | stale entries after a change | what is used is what the configuration says |
| credentials, `auth/manager.py`, `auth/oauth_refresh.py` and others | profiles, in memory and on file | refresh when expired | rotation before the save, two maps of profiles | a refreshed token is the one used, and is not lost |
| configuration file and admin routes, `config.py`, `server/config_routes.py` | one JSON file | load, change, save | load-modify-save without a lock, rewriting in place | no change is lost, a crash leaves a readable file |
| streams, `server/routes.py`, `server/anthropic_routes.py`, `providers/` | the adapter's and the translator's locals | events to chunks to frames | text and calls interleaved, cut frames, early ends, broken connections | pieces in order and place; well-formed blocks; an end is complete, and reaches who reads events |
| conversations, `providers/`, `server/anthropic_routes.py` | - | translate messages to each upstream's form | ids rewritten, results merged and moved | the same pieces in the same order, each result naming its call |
| authentication, `server/auth.py` | - | verify token, require scopes | precedence of sources, duplicates | one decision for each configuration, environment and header |
| egress policy, `server/egress_policy.py` | - | check a URL | the order of the rules, DNS that changes | what a deny list names is refused whatever else allows it |
| usage store, `server/usage_store.py` | SQLite log | record, report | - | a row per answered request |
| `server/idempotency.py` | - | - | imported by no route | - |
| catalogs, command line | - | - | - | data |

How they interact: a route verifies its token, claims its idempotency key in
the durable store, resolves a provider (which may refresh a credential and save
the configuration), checks ownership in the durable store, asks the contract
gate, calls the bridge or provider, records ownership, stores its response under
the key and answers.  A completion verifies its token, resolves its model to a
list of attempts - each a client taken from a cache or built after the egress
check -, translates the conversation for the client's upstream, tries one attempt
after the other, records a usage row and relays the answer.  `PROJECT.json` lists every component with its status and
every hazard with the line where it bites.

## Modules

| module | models |
|---|---|
| `DurableIdempotency` | `claim_idempotency`, `store_idempotency`, the purge, the wait and the restart |
| `IdempotentExecution` | what a caller of the store is promised: a slot per key that is free, held or done |
| `DurableIdempotencyRefinement` | the mapping under which the first implements the second |
| `TaskRoutes` | the four mutating task routes, composed with `DurableIdempotency` and the bridge |
| `TaskContract` | the contract gate |
| `TaskFollow` | the wait route and the polling loop of the task stream |
| `ConfigFile` | the configuration file, its edits, the commands and the token refresh |
| `Access` | `verify_server_token` and its kin, `validate_outbound_base_url` |
| `Resolution` | `ProviderManager.resolve`: references, credentials, clients, fallbacks |
| `Conversation` | what each adapter sends of a conversation |
| `Serving` | the completion routes, composed from the three modules above |
| `StreamRelay` | one completion stream: adapter, translator, route |
| `MC...` | constants and symmetry for TLC |
| `..._proofs` | theorems and proofs |
| `FoldInduction` | induction along a sequence, for the loops of `Resolution` and `Conversation` |

Definitions named `Bad...` are slips that a change to the code could make.  No
definition uses them; the mutants of `PROJECT.json` put each in the place of
the definition it stands before, and the named property must fail.

### DurableIdempotency

`rows` is the table, `pending` the dictionary `_pending_futures`, `future` the
futures themselves and `call` what each request has got from the store.  All of
a claim, and all of a store, runs under one `asyncio.Lock` without an await, so
each is one action; `ClaimNew`, `ClaimConflict`, `ClaimReplay`, `ClaimTakeover`,
`ClaimWait` and `ClaimInProgress` are the branches of `claim_idempotency`, each
with the purge that precedes it.  (scope, subject, fingerprint) is one
`Binding`.  A takeover replaces the registered future and forgets the old one,
as the code does.  `WaitTimeout` cancels the shared future, which is what
`asyncio.wait_for` does to an unshielded one.  `Crash` keeps the rows and
forgets the rest.  Row and loop clock are one clock.

### TaskRoutes

`handler` is where each request stands: `begun` (admitted), `probing` (inside
the contract check), `calling`, `served` (the bridge has done the work, its
answer is on the way), `closing` (reply chosen).  Each write that commits on its
own is a step.  The module instantiates `DurableIdempotency` with the bindings
of the jobs; a route's step and the store's step are one action.  The bridge is
external: it processes a call once, when it likes, even after the caller is
gone; it names a new task as it likes, an old id included, or not at all; it
answers a mutation with the id it was asked about.  The contract decision is
left open here and modelled in `TaskContract`.  The action history is
left out: it is appended to and read by nothing.

### TaskContract

One runtime, hence one cache entry.  `Begin` is the part of
`evaluate_task_contract` before the await, `Finish` the part after it; in
between other checks run, probes are `Served` in any order or fail, the bridge
is upgraded and the configuration saved.  `_fetch_and_validate` is the operator
`Compatible` on what it tells apart.  All configurations share `cacheTtlSeconds`.

### TaskFollow

`wait` is the handler of the wait route, `stream` the generator.  A poll is sent,
the bridge reads the task at some instant, the answer arrives at most `MaxDelay`
after it was sent.  An event is its number in the log: the model takes the key
of `_task_event_key` to tell events apart.  The bridge logs a change of status
together with the change.

### ConfigFile

`file` is `config.json` as it was last written whole, `torn` says that it is
being rewritten or was left half written, `loaded` is each `ProviderManager`'s
`_config`.  A save is two steps, `Truncate` and `Write`, because `write_text`
empties the file first; `Load` of a torn file is the default configuration, as
in `load_config`.  `job` is where each route, command, request or walk stands.
`loop` holds the one job the event loop runs: admin routes have no await, and a
refresh blocks the loop (`_run_async_refresh` waits for its thread), so jobs of
the server interleave only where `Await` sets a walk aside - `list_models` and
`collect_provider_telemetry`, which await each provider in turn.  Commands are
other processes and interleave everywhere.  The dashboard's settings button is
two requests, `Fetch` and `Post`, and what it fetches is `Redacted`.

A configuration is a value, which stands for providers, order, tokens and the
rest, and two maps of credentials, `auth_profiles` (`top`) and `auth.profiles`
(`nested`).  A credential is a number; the provider hands out the next at each
login and rotation (`issued`) and accepts each refresh token once (`spent`).
Access tokens may be found expired at any time.  Refreshes that read another
program's file, or exchange a token that stays valid, go through the same
assignment and save and are not told apart.

`intended` is what the acknowledged edits add up to and `harm` what went wrong
in the history: a save cut short (`torn`), a token rotated but not saved or
brought back from a snapshot (`token`), a posted copy with masks (`masked`), a
save after an await (`late`), a command that overlaps with another writer
(`overlap`).  The properties name the harms they except.  `Final` bounds a run:
after those harms only writes begun before are finished.

### Access

Pure operators over a configuration, the environment (`Env`) and a request or a
destination.  `VerifyServerToken` is the decision of `verify_server_token` with
its order of cases: anonymous only when nothing is configured, two configured
tokens of one value authenticate nobody, the legacy token comes last.
`DestinationPermitted` is `validate_outbound_base_url` without its parsing: an
address is the networks it is in and the kinds `ipaddress` gives it, and `Kinds`
is the order in which they are asked for.  DNS is an argument, because the code
asks it again each time a client is built.

### Resolution

`Resolve` is `ProviderManager.resolve` as a function of the configuration, the
cache, the reference in the request and DNS; it returns the attempts and the
cache after it.  References, profile ids and sources are records and tuples of
names and not text.  A provider's configuration is the catalog's overlaid with
the user's, field by field; credentials come from the asked profile, the
configured order, the other profiles, the environment and the configuration, in
that order, each key once; a client is taken from the cache by provider,
profile, url, mode and key, or built after the egress check.  A client that
cannot be built ends its reference, but those built before it stay cached.  Token
refresh is `ConfigFile`'s; here a profile is `stale` when it cannot be refreshed.
The loops are folds of one named step each (`TryCredential`, `TryFallback`,
`KeepFirst`), which is what makes them provable.

### Serving

`req` is where each request stands, `cache` the clients of the two managers (one
per route module), `usage` the rows recorded, `config` the file.  `Arrive` is
token and scope, `ResolveModel` the resolution under the configuration of that
moment, `Call` everything one attempt can end with: a status (`UpstreamStatus`,
the only one that may move on to the next attempt), an exception
(`UpstreamBreaks`), a reply, a first chunk or an empty stream.  `/v1/messages`
uses its first client only, and with a client that opens its stream lazily sends
the head before asking upstream anything (`OpenTranslated`).  What the command
line adapters do with a stream (raise), and what embeddings do on adapters
without them (`not_supported`), is in `CanAnswer` and `CanEmbed`.  The operator
changes the configuration, and the process restarts, at any point.  The module
assumes `WellFormed` configurations: what the code reads as a list is one.

`ChainsAreSound` says of any two attempts of a chain that they differ
(`Different`): not in provider, model, profile and source alone, and not the
same key for one reference.  A chain whose fallback names a provider under
another profile does try a key twice, because the key of the deduplication
(`auth/manager.py:206-211`) holds the profile.

`ClientsInForce` is two statements about the cache: an attempt sends the key
its source has in the configuration the request was resolved under, to the url
that configuration gives for the provider and the profile of the key; and a
cached client is built, as a whole, from one
configuration in force since the process started.  It is not the one in force
now: see Notes.

### StreamRelay

One stream, from its first event on, for each pair of adapter and route.
Upstream says events in the order its API allows (block by block for Anthropic
and Codex, text and calls mixed for OpenAI), may report an error, hang up in the
middle of a frame or break the connection; pieces of text and of arguments are
numbered.  The adapter `task` is the task stream of the Agent Bridge, which is
text and an end, and breaks only where it awaits a poll; when it says what is
`TaskFollow`'s business.  `Adapted` is what the adapter makes of an event, `Accept` and
`FinishEvents` what `OpenAIAnthropicStreamTranslator` makes of a chunk, `Relay`
the loop of the route.  A read and what follows it is one step: between two
reads the generator touches its own locals only.

What is written and what a client can read differ.  `out` is the frames written,
`given` how many of them a reader of server-sent events is given: those up to the
last that a blank line ends.  `Write` keeps the two.  `_sse_data` and the
`[DONE]`s of `server/routes.py:388-702` end in a backslash and an n, twice, instead
of two newlines, so no frame of `/v1/universal` ends, nor do the error and the
`[DONE]` that chat writes after a break; and a frame upstream left without its
blank line (`cut`) is passed on as it came (`Unended`).  `OnlyEndsWithheld`, a
part of `EndIsComplete`, says that nothing else is withheld from a reader.  The
order of pieces is stated of what is written, of which a reader is given a
beginning.  A stream that breaks before its first chunk is `refused` (the answer
is a 500), after it `failed`: an error was written, whether or not it is given.

### Conversation

Operators from a conversation to what each adapter sends of it.  What clients
may send is an assumption on the constants, `ConversationAssumption`: `IsMessage`
and `IsTurn` say what the two APIs allow (only the assistant calls tools, only
its messages may be without text, results are the user's), and ids and names are
not None.  Nothing is assumed of the order of messages or of which results
answer which calls.  A name that is taken is told apart by a digest of the id;
the model takes the digest to be the id itself, so two digests never collide.

`ConversationIsKept` of `Serving` says that whichever attempt of a chain serves a
request, its adapter keeps every conversation.  "Keeps" is stated per adapter, for
what it does keep: `AnthropicKeeps` renames ids one to one, drops results of
unknown calls, has all the instructions, and answers stay answers; `CodexKeeps`
leaves system messages out (of several the last is sent); `BedrockKeeps` is about
texts, results and instructions (calls are not sent).  `TurnsKept` is about the
translation of `/v1/messages`, which moves the results of a turn before its text.

## Runs

| run | shows | bounds |
|---|---|---|
| `durable_safety` | claimants keep their rows, leases exclude, replays match, futures belong to their rows | 4 requests, 2 bindings, one key, `MaxRun = Ttl`, lease shorter than the work, one crash |
| `durable_timely` | one claimant per key, final responses, waiters leave, refinement of `IdempotentExecution` | 3 requests, 2 bindings, `MaxRun < Lease`, one crash |
| `durable_late_store` | violated: a claimant slower than the TTL answers another request's duplicates | 4 requests, 1 key, 2 bindings, `MaxRun > Ttl` |
| `durable_shared_wait` | violated: the timeout of one duplicate ends the others with an exception | 3 requests |
| `task_routes` | ownership through races, late calls, reused ids and a restart; true replays, one call per key, every request answered | 2 requests with or without the key, 5 jobs of 4 principals, 1 task, clock 0..3, one crash |
| `task_contract` | fresh decisions, changes that take effect, an enforced gate | 3 checks, 3 contracts, 3 configurations, one change, clock 0..3 |
| `config_file` | saved changes stay, tokens stay usable, requests present fresh tokens | 1 profile, 2 values, 2 managers, one request, walk and command, 2 edits, 2 new credentials, one fault |
| `config_late_walk` | violated: a walk that saves after an await undoes an edit | no commands, no faults |
| `config_settings` | violated: the settings button replaces credentials by masks | one edit, one walk |
| `task_follow` | timeouts, complete streams, both end | 3 events, window 1, one retry, clock 0..5 |
| `serving` | sound chains, clients in force, kept conversations, honest usage rows, nothing after the first byte, every request answered | 2 requests out of 8 asks, 4 providers, 2 configurations, 2 DNS answers, one change or restart, 2 chunks; conversations and turn lists of up to 3 |
| `streams` | ordered pieces, well-formed blocks, complete ends that reach a reader of events but on `/v1/universal`, streams that end | 2 calls, 5 blocks and pieces, 2 events ahead of the reader |

Why the bounds are enough.  A key's history is claim, takeover or conflict, and
a duplicate of either: three requests give a claimant, a rival and a duplicate
of one of them, a fourth the duplicate of a takeover.  Times matter only by their order, so leases and lifetimes of
one or two units with a clock of several let every order occur; the clock ends
after the last call (`LastCall`) plus every timeout, so that no property of
liveness rests on the clock stopping.  The store never looks at two keys at
once except to purge, so one key suffices for TLC; the proofs have no such
bound.  Symmetry is used for requests and checks, in runs without liveness only.

`config_file` has one profile because a save writes all of them and a refresh
looks at one; two edits, or an edit and a dashboard, around a walk, a request on
the other manager and a command give every order of two loads and two saves
there is.  Two new credentials are a login and a rotation, or two rotations of
one profile by two managers.

`task_routes` has one task and two requests because ownership is a relation of
one task and an idempotency key of one pair of requests; the jobs are two
creators who may share the key, the approval of the other's task, a cancel
without write scope and the admin's retry.

In `serving` the first configuration has two providers that share a server and a
key but not an API, a profile and an environment key of one provider, fallbacks
of both kinds and a chain longer than `maxAttempts`; the second takes away a
provider's last key, replaces another's, turns its API and headers and admits
longer chains.  Two requests of two managers or one are what a cache has to keep
apart.  Conversations have up to three messages (and one with two parallel
calls) with ids that collide once they are cleaned.

In `streams` two calls and five pieces let a text, a call and its arguments, and
a second call interleave in every order; one event said and not yet read is what
a cut frame needs, two let events pile up.

Every run allows deadlock because the models stop: requests are finite.

`MaxRun`, the longest a claimant works, is the constant everything about
idempotency depends on.  The runs separate three worlds: `MaxRun < Lease`
(everything holds), `MaxRun <= Ttl` (every safety property of the store but
exclusion) and longer (replays may be wrong).  The defaults - lease 60 s, TTL a
day, bridge timeout 600 s - put a deployment in the second.

## Findings

* `durable_late_store`: `store_idempotency` resolves whatever future is
  registered for its key, although its UPDATE may match no row.
* `durable_shared_wait`: `wait_for` cancels the future all duplicates share;
  `CancelledError` is not `TimeoutError`, so they end without a status.
* `config_late_walk`: `list_models` and the telemetry keep the configuration they
  loaded across awaits; a refresh afterwards saves it whole over an edit that was
  answered `ok`.
* `config_settings`: `GET /config` masks every secret, the dashboard posts the
  answer back and `save_config` writes the masks.

Notes: behaviour met while modelling that contradicts a comment or a document, or
that an operator should know, and that no run is spent on.

* With a call that outlasts the pending lease (60 s against the bridge client's
  600 s) a retry with the same key takes the lease over and a create is sent
  twice; `task_routes` assumes calls within the lease, and with `MaxRun = 2`
  `SentOncePerKey` fails.
* `_sse_data` and the `[DONE]`s of the stream wrappers end in a backslash and an n,
  twice (`server/routes.py:389`, 647, 662, 680, 688, 702).  A stream on
  `/v1/universal` is therefore one line without an end, and a reader of server-sent
  events is given nothing of it, though `docs/agent-bridge.md:49-50` promises of a
  task stream "OpenAI-style server-sent event chunks to clients" (`given` stays 0
  on that route, `GivenInvariant`).  On `/v1/chat/completions` the error after a
  break is lost the same way.
* A cached client keeps the egress decision of the day it was built
  (`auth/manager.py:1490`).  `docs/security.md:46-47` says that urls are validated
  "again during runtime resolution"; a client found in the cache is not.
* `providers/anthropic_compatible.py:498-501` says results without a *prior* call
  are dropped; the code looks at the calls of the whole conversation, and keeps
  every result when there is no call at all.
* An `error` event of an Anthropic stream is ignored, and a stream that ends
  without `message_stop` gets a made-up end (`anthropic_compatible.py:458`); a Codex
  error becomes `end_turn` on `/v1/messages`; a Codex message with calls cut short
  for its length ends in `tool_calls`.  `EndIsComplete` names these cases.
* `time` is not imported in `server/anthropic_routes.py`: a tool call that comes
  without an id aborts a translated stream (`AcceptCall`).
* `/v1/messages` answers 200 before it has asked a lazily opened upstream.
* The command line adapters cannot stream: awaiting their generator raises.
* The profile a usage row names is the reference's or the first with a
  credential, not the one whose key answered (`UsageRow`, `ResolveProviderForRef`).
* After a fallback to an attempt without a profile, the row names the profile of
  the *first* attempt (`server/routes.py:515`, `ProfileToldOf`), which may be
  another provider's: provider and profile of the row then do not belong together.
  `UsageNamesWhoAnswered` says what is left: the profile is the attempt's own, or
  the first attempt's and the row counts more than one attempt.
* A Codex client takes its account id when it is built (`auth/manager.py:1592-1598`:
  from the first profile of the provider that has one, or from its key), and the
  key of the client cache does not name it: an account edited under the same key
  is used only by clients built later.  `Resolution`'s clients have no account, so
  `ClientsInForce` says nothing of it.

## Fairness

`FairSpec` of each module assumes that time passes, that the event loop runs
what is ready (a woken waiter, a handler between two awaits) and that every
upstream call ends, by an answer or by the HTTP client's timeout.  Nothing is
assumed of clients, of the bridge or of crashes.  In `TaskRoutes` the end of a
call by timeout is `CallFails`, the only step of the bridge's side that is fair.
In `Serving` only calls for a whole reply are assumed to end, because the HTTP
clients give up on an upstream that says nothing for 300 s.  That bounds each
read and not the call, so it is also assumed that no upstream trickles for ever.
Streams are opened without a timeout and nothing is assumed of them.  `StreamRelay` assumes that the event loop resumes a generator
that has something to read (`Serve`), and nothing of upstream or of the client.

## Proofs

For every value of the constants that meets the ASSUMEs:

* `DurableIdempotency_proofs`: type correctness; under `MaxRun <= Ttl` the
  inductive invariant `SafetyInv`, from it `ExecutorKeepsRow`,
  `ReplayMatchesRequest`, `RegisteredFutureIsOfPendingRow` and
  `OneExecutorWithinLease`; under `MaxRun < Lease` also `OneExecutorPerKey` and the
  action property `CompletedResponseIsFinal`.
  `ReplayMatchesRequest` is not inductive: a replay comes from a row or a future,
  so `SafetyInv` says of each completed row and each resolved future that its
  author stored under the same key and binding, of each waiter that the claim
  that opened its future has the waiter's binding, and of each registered future
  that its row is pending.  The last needs that no store hits a row it did not
  claim, which is `ExecutorKeepsRow`, which needs that claimants are on time.
  At the end of the module the refinement: under `MaxRun < Lease` and `MaxRun <= Ttl`
  the store implements `IdempotentExecution` (`StoreImplementsContract`): initial
  states map to initial states, each action to the action of the contract it is
  named after or to a stutter.  A takeover is a stutter only because no live
  claimant can lose its lease, and a purge maps to the expiry of a slot.
* `TaskRoutes_proofs`: every step of the routes is a step of the store or leaves
  it alone (`StoreStep`), so the types of the store, and under `MaxRun <= Ttl` all
  of `SafetyInv`, carry over.  `OwnerIsForever` and `OnlyOwnerMutates`, by the
  invariant that every call in flight beyond the owner check was and stays
  authorised, because ownership is never changed.  Under `MaxRun <= Ttl` the types,
  `CreatedTaskIsOwned` and `SuccessWasApplied`, because a replayed 200 is the stored
  answer of a request that was itself served; `SentOncePerKey` under
  `MaxRun < Lease` as well, because a key that was sent has a row that is pending
  under its sender or done.
* `TaskContract_proofs`: type correctness and `DecisionIsFresh`, because an entry
  expires at most `CacheTtl` after the instant its probe was served;
  `ChangesTakeEffect` and `EnforcedGateHolds`, by saying of each running check
  which configuration it read and that a check begun after a change read that one.
* `ConfigFile_proofs`: type correctness, which says that the event loop runs one
  job at a time, and `ChangesStay`.  `SavedChangesStay` speaks of the moments
  between jobs only; the invariant `SavedInv` says, as long as no harm is done,
  that the file matches `intended`, that it is torn exactly while somebody saves
  (`TornWhileSaving`), that a writer is alone (`OneWriter`), and that whatever a
  job may still save matches what will be intended (`WritersAreUpToDate`,
  `ResolversAreUpToDate`).  A request that finds a torn file sees no profile and
  so cannot refresh, hence cannot save: this is why it does no harm, and why the
  invariant must say `Present(c) = {}`.  `TokensStayUsable` and
  `RequestsPresentFreshTokens`, from the same invariant and one that says that
  what is spent is in no configuration that may still be used or saved.
* `TaskFollow_proofs`: type correctness, `TimeoutMissedNothing` and
  `StreamTellsAll`.  The last assumes `StreamStopsAtFinal` of the bridge: it logs
  nothing more in a status at which the stream stops.  The constants of
  `task_follow` satisfy it.  A stream that ends has read a log
  nobody can add to, and its window holds what it has not told yet.
* `FoldInduction` and `Serving_proofs`.  What a fold computes needs induction
  along the sequence, and the library's induction theorems take an operator as
  parameter.  `FoldInduction` states induction for a *constant* step and a
  *constant* predicate, `Step` and `Holds`; each loop of the resolution instantiates the
  module with its own.  So the theorem `ResolveSound` is about every configuration, cache,
  reference and DNS answer: the chain has at most `maxAttempts` attempts that are
  pairwise different, each with the key its source has and the url its provider
  has in that configuration, and the cache stays sound.
  From it `ChainsAreSound` and `ClientsInForce`, by the invariant `IInv`, which says
  of each request in flight that its attempts are what `ResolveSound` promises
  (`PlanSound`) and that the process holds only clients built from a
  configuration it has seen (`ProcessSound`);
  `UsageNamesWhoAnswered`, for which `IInv` relates the place of a request to the
  answers it has had (`PlaceSound`, `AnswerSound`) and each row to a request
  (`RowSound`), whose profile is the attempt's or, when it has none, that of the
  first attempt of its plan; and the action property
  `NothingAfterFirstByte`.  The provers make little of CASE with OTHER and nothing
  of `SelectSeq`, so the operators of `Access`, `Resolution`, `Conversation` and
  `Serving` use IF and lists of lists that are flattened.
* Also in `Serving_proofs`, `ConversationIsKept`, for conversations of any length.
  First, what `FlattenSeq` gives is built from the front (`FlatNext`), so a
  flattened list goes along a concatenation (`FlattenConcat`).  The Anthropic
  adapter is a fold over the messages, and its invariant `SaidUpTo` says after k
  messages that the blocks of what is sent are the blocks of the first k, renamed
  by the names given so far; that these names are given to one id each
  (`SoundNames`); and that the instructions are complete up to there.  A name given
  later changes nothing sent before, because what has a name keeps it (`Extends`,
  `RenamedStays`): this is the part that a table of names which forgets, or gives
  one name twice, would break, and the mutant `BadNormalizedId` does.
  From `AnthropicKept` answers stay answers (`AnthropicAnswers`): renaming is one
  to one, and a result that answers a call is never an orphan.  `CodexKept` and
  `BedrockKept` compare two lists message by message.  `TurnsTranslated` goes along
  the turns: after each, the calls and the results are those of the turns, and
  every answer comes after its call, which holds because a turn has calls or
  results but not both.  An attempt has one of the adapters there are, because its
  client was built (`MadeFor`), so the theorem about all adapters applies.
* And of `Access`: who is let in (`CredentialsAreAsked`, `DuplicatesLetNobodyIn`),
  exactly which addresses may be called (`AddressesPermitted`), and what a policy
  that is on never lets through (`DeniedAreRefused`).  `CallsPermitted` brings the
  last to the routes: in every reachable state each cached client goes where the
  policy it was built under lets it.  It is about the policy of a
  configuration in force since the process started, not of the one in force now,
  because a cached client is not checked again.

* `StreamRelay_proofs`: all four invariants, for any number of calls, pieces and
  events, from `RelayInv`, `EndInv` and `GivenInv`.  None of them is inductive: `out` says
  nothing of what is still to come.  `RelayInv` says that what upstream said is
  numbered and in a legal order (`UpInv`); that the adapter knows which call it is
  at (`AdapterInv`); that `out` holds exactly the pieces of the first `Taken` events
  (`ToldSoFar`), where an event cut off by the end of the line is never taken; and,
  on `/v1/messages`, that the blocks in `out` are those the translator remembers
  and that an ended stream has closed each once (`MessagesInv`).  From it
  `StreamTypeCorrect`, `PiecesStayInOrder` and `BlocksStayWellFormed`.  `EndInv` adds
  that a finish frame is written only if a reason, a stop, an error or the end of the
  line was read, and that its reason is the one said; then nothing with a piece can
  be left unread, which is most of `EndsAreComplete`.  `GivenInv` is the rest of it
  (`GivenInvariant`): while a stream is open on chat or `/v1/messages` its reader is
  given all that is written but for a last frame upstream left unended, and
  afterwards all but that and the error.  The proof follows the code: one lemma
  per event and adapter, one per kind of chunk and of frame, and one per outcome of
  a read.

Every invariant and action property of a passing run is proved.  Left to TLC, and why:
liveness, which is outside the prover's reach, and the four statements that are
violated, which have counterexamples.

## Not modelled

Read-only routes (they change nothing), catalogs, schemas and most of the CLI
(data and I/O), the SQL reports, `server/idempotency.py` (no route imports it).
Of resolution: model lists and discovery, and fallback orders keyed by a
reference with a profile.  Of `/v1/messages`, the `system` prompt, which the
translation puts before the turns: `Turns` are turns only.  Of the adapters: tools, reasoning options, request
signatures, subprocesses and their timeouts, and the characters a chunk boundary
may split.  `StreamRelay` has one stream and `Serving` several requests without
their contents; what they share is the first chunk.  In `ConfigFile`: readers of the file, which
change nothing (`verify_server_token` reads it in a thread pool and can meet it
torn), `open-llm-auth chat` and `models` as a second process that refreshes, and
the import of snapshots.  A change of the configuration that gives the durable store
a second instance over the same file is not modelled either.

## Plan

Two stores over one file after a change of the configuration: `get_durable_state_store`
keeps one store per path, TTL and lease, and their futures do not know of each other.

## Running

    tlc -config durable_safety.cfg MCDurableIdempotency.tla
    tlapm DurableIdempotency_proofs.tla
