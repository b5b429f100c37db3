------------------------------ MODULE Serving ------------------------------
(***************************************************************************)
(* The completion routes: /v1/chat/completions, /v1/universal and          *)
(* /v1/embeddings of server/routes.py and /v1/messages of                  *)
(* server/anthropic_routes.py, from the token to the last byte.            *)
(*                                                                         *)
(* A request is authenticated, resolved to a list of attempts (module      *)
(* Resolution), tried on one upstream after the other until one answers,    *)
(* and accounted for in the usage store.  Between those steps other         *)
(* requests use the same cache of clients and the operator changes the      *)
(* configuration.  Each of the two route modules has a manager, and so a    *)
(* cache, of its own.  What a stream carries is StreamRelay's.              *)
(***************************************************************************)
EXTENDS Resolution, Conversation, FiniteSets

CONSTANTS
  Requests,    \* the requests
  Asks,        \* what a request may ask: route, ref, profile, stream and credentials
  Configs,     \* the configurations the operator may put in force
  FirstConfig, \* the one the process starts with
  Statuses,    \* HTTP statuses of 400 and more an upstream may answer
  Resolvers,   \* what DNS may answer: functions from host names to sets of addresses
  MaxEvents,   \* bound: changes of the configuration and restarts of the process
  MaxChunks    \* bound: chunks of a stream

(* The lists of a configuration are lists.                                 *)
WellFormed(cfg) ==
  /\ cfg.profiles \in Seq(Range(cfg.profiles))
  /\ \A p \in DOMAIN cfg.authOrder : cfg.authOrder[p] \in Seq(Range(cfg.authOrder[p]))
  /\ \A k \in DOMAIN cfg.fallback.order :
       cfg.fallback.order[k] \in Seq(Range(cfg.fallback.order[k]))
  /\ cfg.fallback.maxAttempts \in Int

(* How a request can be answered, or end.                                  *)
Answers == {"denied", "unresolved", "upstream_error", "provider_error", "not_supported",
            "reply", "stream", "ended", "aborted", "error_frame", "left", "lost"}

ASSUME ServingAssumption ==
  /\ FirstConfig \in Configs
  /\ \A c \in Configs : WellFormed(c)
  /\ \A p \in DOMAIN Env.keys : Env.keys[p] \in Seq(Range(Env.keys[p]))
  /\ MaxEvents \in Nat /\ MaxChunks \in Nat \ {0}
  /\ Statuses \subseteq Nat
  /\ None \notin Answers

VARIABLES
  config,   \* what config.json holds
  seen,     \* history: the configurations in force since the process started
  cache,    \* the clients of each manager, `_providers`
  req,      \* the requests
  usage,    \* rows of the usage store
  events    \* counter of the bound

vars == <<config, seen, cache, req, usage, events>>

Managers == {"routes", "anthropic"}
ManagerOf(ask) == IF ask.route = "messages" THEN "anthropic" ELSE "routes"

(* Where a request can be.  "opened": the head and message_start are sent   *)
(* and no upstream was called yet.                                          *)
Places == {"new", "admitted", "calling", "opened", "streaming", "done"}

NoAnswer == [kind |-> None, status |-> None]
Fresh == [at |-> "new", ask |-> None, plan |-> <<>>, retry |-> {}, pos |-> 1,
          failed |-> <<>>, under |-> None, answer |-> NoAnswer, chunks |-> 0]

Init ==
  /\ config = FirstConfig /\ seen = {FirstConfig}
  /\ cache = [m \in Managers |-> <<>>]
  /\ req = [r \in Requests |-> Fresh]
  /\ usage = {} /\ events = 0

Attempt(r) == req[r].plan[req[r].pos]
Adapter(r) == Attempt(r).client.adapter
Ask(r)     == req[r].ask
Is(r, route) == Ask(r).route = route

(* /v1/messages hands the turns to an Anthropic upstream as they are, and   *)
(* translates them for every other.                                         *)
Native(r, attempt) == Is(r, "messages") /\ attempt.client.adapter = "anthropic"

(* Ends a request with a reply or with the end of its stream.               *)
Finish(r, kind, status) ==
  req' = [req EXCEPT ![r].at = "done", ![r].answer = [kind |-> kind, status |-> status]]

-----------------------------------------------------------------------------
(* The head of a route: token, scope, resolution.                           *)

Verify(ask) ==
  IF ask.route = "messages"
  THEN VerifyAnthropicInbound(config, ask.authorization, ask.apiKey)
  ELSE VerifyServerToken(config, IF ask.authorization = "malformed" THEN None
                                 ELSE ask.authorization)

Denied(q, ask, status) ==
  [q EXCEPT !.ask = ask, !.at = "done", !.answer = [kind |-> "denied", status |-> status]]

Arrive(r) ==
  /\ req[r].at = "new"
  /\ \E ask \in Asks :
       LET principal == Verify(ask)
       IN  req' = [req EXCEPT ![r] =
             IF principal = Unauthorized THEN Denied(@, ask, 401)
             ELSE IF ~HasScope(principal, "write") THEN Denied(@, ask, 403)
             ELSE [@ EXCEPT !.ask = ask, !.at = "admitted"]]
  /\ UNCHANGED <<config, seen, cache, usage, events>>

(* resolve() reloads the configuration.  The messages route uses the first  *)
(* client only and falls back on nothing.  A client it opens lazily is      *)
(* called after the head of the reply is sent.                              *)
LazyAdapters == {"openai", "codex"}

ResolveModel(r) ==
  /\ req[r].at = "admitted"
  /\ \E dns \in Resolvers, manager \in {ManagerOf(Ask(r))} :
       \E resolved \in {Resolve(config, cache[manager], Ask(r).ref, Ask(r).profile, dns)} :
         LET attempts == resolved.attempts
         IN  /\ cache' = [cache EXCEPT ![manager] = resolved.cache]
             /\ IF ~resolved.ok THEN Finish(r, "unresolved", None)
                ELSE req' = [req EXCEPT
                       ![r].at    = "calling",
                       ![r].under = config,
                       ![r].plan  = IF Is(r, "messages") THEN <<Head(attempts)>> ELSE attempts,
                       ![r].retry = IF Is(r, "messages") THEN {} ELSE RetryStatusCodes(config)]
  /\ UNCHANGED <<config, seen, usage, events>>

(* /v1/messages with a client that opens its stream lazily: 200 and         *)
(* message_start go out before the upstream is asked anything.              *)
OpenTranslated(r) ==
  /\ req[r].at = "calling" /\ Is(r, "messages") /\ Ask(r).stream
  /\ Adapter(r) \in LazyAdapters
  /\ req' = [req EXCEPT ![r].at = "opened", ![r].answer = [kind |-> "stream", status |-> 200]]
  /\ UNCHANGED <<config, seen, cache, usage, events>>

-----------------------------------------------------------------------------
(* What a call of the current attempt can end with.                         *)

(* The command line adapters define chat_completion_stream as a generator:  *)
(* awaiting it raises, so they never stream.                                *)
Callable(r) ==
  /\ req[r].at \in {"calling", "opened"}
  /\ req[r].at = "calling" => ~(Is(r, "messages") /\ Ask(r).stream /\ Adapter(r) \in LazyAdapters)
Embeds(r)     == Is(r, "embeddings")
CanEmbed(r)   == Adapter(r) \in {"openai", "local"}
CanAnswer(r)  == IF Embeds(r) THEN CanEmbed(r)
                 ELSE Adapter(r) # "local" /\ ~(Adapter(r) = "cli" /\ Ask(r).stream)
CanFailHttp(r) == CanAnswer(r) /\ Adapter(r) \notin {"cli", "local"}

(* The upstream answers an HTTP error.  A listed status moves on to the     *)
(* next attempt, and the last of them is what the client is told.  (The      *)
(* definitions named Bad... are slips the properties must notice.)          *)
BadMovesOnPastTheEnd(r, s) == s \in req[r].retry
MovesOn(r, s) == s \in req[r].retry /\ req[r].pos < Len(req[r].plan)

UpstreamStatus(r) ==
  /\ Callable(r) /\ CanFailHttp(r)
  /\ \E s \in Statuses :
       IF req[r].at = "opened" THEN Finish(r, "aborted", 200)
       ELSE IF MovesOn(r, s)
       THEN req' = [req EXCEPT ![r].failed = Append(@, s), ![r].pos = @ + 1]
       ELSE req' = [req EXCEPT ![r].failed = Append(@, s), ![r].at = "done",
                               ![r].answer = [kind |-> "upstream_error", status |-> s]]
  /\ UNCHANGED <<config, seen, cache, usage, events>>

(* Anything else raised by the call: no connection, a timeout, an answer     *)
(* that is not JSON, a failed command.  No other attempt is made.           *)
BadUpstreamBreaks(r) ==
  /\ Callable(r)
  /\ req' = [req EXCEPT ![r].at = "admitted", ![r].pos = 1, ![r].failed = <<>>]
  /\ UNCHANGED <<config, seen, cache, usage, events>>
UpstreamBreaks(r) ==
  /\ Callable(r)
  /\ IF req[r].at = "opened" THEN Finish(r, "aborted", 200)
     ELSE IF Embeds(r) /\ ~CanEmbed(r) THEN Finish(r, "not_supported", 400)
     ELSE Finish(r, "provider_error", 500)
  /\ UNCHANGED <<config, seen, cache, usage, events>>

(* The usage row of the attempt that answered; record() may fail, and the   *)
(* failure is swallowed.  The messages route records nothing.  A row for an *)
(* attempt without a profile names the profile of the first attempt.        *)
ProfileToldOf(r) == Or(Attempt(r).profile, req[r].plan[1].profile)
BadUsageRow(r) ==
  [request |-> r, provider |-> req[r].plan[1].provider, model |-> req[r].plan[1].model,
   profile |-> ProfileToldOf(r), source |-> req[r].plan[1].source,
   attempts |-> Len(req[r].failed) + 1, stream |-> Ask(r).stream]
UsageRow(r) ==
  [request |-> r, provider |-> Attempt(r).provider, model |-> Attempt(r).model,
   profile |-> ProfileToldOf(r), source |-> Attempt(r).source,
   attempts |-> Len(req[r].failed) + 1, stream |-> Ask(r).stream]
RecordUsage(r) ==
  \/ ~Is(r, "messages") /\ usage' = usage \cup {UsageRow(r)}
  \/ UNCHANGED usage

UpstreamAnswers(r) ==
  /\ Callable(r) /\ CanAnswer(r) /\ (Embeds(r) \/ ~Ask(r).stream)
  /\ Finish(r, "reply", 200)
  /\ RecordUsage(r)
  /\ UNCHANGED <<config, seen, cache, events>>

(* The first chunk decides: only after it is the reply a stream, and the    *)
(* attempt the last one.  (A stream passed through natively sends its head  *)
(* with the head of the upstream's; the first chunk stands for both.)       *)
FirstChunk(r) ==
  /\ Callable(r) /\ CanAnswer(r) /\ ~Embeds(r) /\ Ask(r).stream
  /\ req' = [req EXCEPT ![r].at = "streaming", ![r].chunks = 1,
                        ![r].answer = [kind |-> "stream", status |-> 200]]
  /\ RecordUsage(r)
  /\ UNCHANGED <<config, seen, cache, events>>

(* An upstream that ends its stream before the first chunk.                 *)
EmptyStream(r) ==
  /\ Callable(r) /\ CanAnswer(r) /\ ~Embeds(r) /\ Ask(r).stream
  /\ Finish(r, "ended", 200)
  /\ RecordUsage(r)
  /\ UNCHANGED <<config, seen, cache, events>>

-----------------------------------------------------------------------------
(* The rest of a stream.                                                    *)

NextChunk(r) ==
  /\ req[r].at = "streaming" /\ req[r].chunks < MaxChunks
  /\ req' = [req EXCEPT ![r].chunks = @ + 1]
  /\ UNCHANGED <<config, seen, cache, usage, events>>

StreamEnds(r) ==
  /\ req[r].at = "streaming"
  /\ Finish(r, "ended", 200)
  /\ UNCHANGED <<config, seen, cache, usage, events>>

(* A failure in the middle: an error frame on the routes that wrap the      *)
(* stream, a cut on the messages route.                                     *)
BadStreamBreaks(r) ==
  /\ req[r].at = "streaming" /\ req[r].pos < Len(req[r].plan)
  /\ req' = [req EXCEPT ![r].at = "calling", ![r].pos = @ + 1]
  /\ UNCHANGED <<config, seen, cache, usage, events>>
StreamBreaks(r) ==
  /\ req[r].at = "streaming"
  /\ Finish(r, IF Is(r, "messages") THEN "aborted" ELSE "error_frame", 200)
  /\ UNCHANGED <<config, seen, cache, usage, events>>

ClientLeaves(r) ==
  /\ req[r].at \in {"opened", "streaming"}
  /\ Finish(r, "left", 200)
  /\ UNCHANGED <<config, seen, cache, usage, events>>

-----------------------------------------------------------------------------
(* The operator and the process.                                            *)

Reconfigure(c) ==
  /\ events < MaxEvents /\ c # config
  /\ config' = c /\ seen' = seen \cup {c} /\ events' = events + 1
  /\ UNCHANGED <<cache, req, usage>>

(* The requests in flight are lost, the caches too; the rows stay.          *)
Restart ==
  /\ events < MaxEvents /\ events' = events + 1
  /\ seen' = {config}
  /\ cache' = [m \in Managers |-> <<>>]
  /\ req' = [r \in Requests |->
               IF req[r].at \in {"new", "done"} THEN req[r]
               ELSE [req[r] EXCEPT !.at = "done", !.answer = [kind |-> "lost", status |-> None]]]
  /\ UNCHANGED <<config, usage>>

Call(r) ==
  \/ UpstreamStatus(r) \/ UpstreamBreaks(r) \/ UpstreamAnswers(r)
  \/ FirstChunk(r) \/ EmptyStream(r)

Handle(r) == Arrive(r) \/ ResolveModel(r) \/ OpenTranslated(r) \/ Call(r)

Next ==
  \/ \E r \in Requests :
       \/ Handle(r)
       \/ NextChunk(r) \/ StreamEnds(r) \/ StreamBreaks(r) \/ ClientLeaves(r)
  \/ \E c \in Configs : Reconfigure(c)
  \/ Restart

Spec == Init /\ [][Next]_vars

(* A call for a whole reply ends: the HTTP clients give up on an upstream   *)
(* that says nothing for 300 s (a bound on each read, not on the call), and *)
(* no upstream is taken to say a little for ever.  Then the event loop runs *)
(* the handler that awaits it.  Streams are opened without a timeout, so    *)
(* nothing is assumed of them.                                              *)
Unary(r) == Embeds(r) \/ ~Ask(r).stream
Fairness == \A r \in Requests : WF_vars(Call(r) /\ Unary(r))
FairSpec == Spec /\ Fairness

-----------------------------------------------------------------------------
(* Properties.                                                              *)

(* Every variable has the values the code gives it, and a request past its  *)
(* resolution has an attempt to make (resolve() never returns none).        *)
TypeOK ==
  /\ config \in Configs /\ seen \subseteq Configs /\ config \in seen
  /\ DOMAIN cache = Managers
  /\ events \in 0 .. MaxEvents
  /\ \A r \in Requests :
       /\ req[r].at \in Places /\ req[r].answer.kind \in Answers \cup {None}
       /\ req[r].chunks \in 0 .. MaxChunks
       /\ req[r].at \in {"calling", "opened", "streaming"} =>
            req[r].pos \in DOMAIN req[r].plan

(* Errors reported to a client end the chain: every attempt before the last  *)
(* failed with a status of the retry list, and the error told is that of the *)
(* last one, which had no successor or failed with a status not listed.      *)
ErrorsEndTheChain ==
  \A r \in Requests :
    req[r].answer.kind = "upstream_error" =>
      LET n == Len(req[r].failed)
      IN  /\ n = req[r].pos /\ n \in DOMAIN req[r].plan
          /\ req[r].failed[n] = req[r].answer.status
          /\ \A i \in 1 .. n - 1 : req[r].failed[i] \in req[r].retry
          /\ n = Len(req[r].plan) \/ req[r].failed[n] \notin req[r].retry

(* Two attempts of a chain that are not the same thing tried twice: not the  *)
(* same credential of a provider for a model and a profile, nor the same key *)
(* for one reference.                                                       *)
SelfContained == {"local", "cli"}
Different(a, b) ==
  /\ ~ /\ a.provider = b.provider /\ a.model = b.model
       /\ a.profile = b.profile   /\ a.source = b.source
  /\ ~ /\ a.index = b.index /\ a.client.key = b.client.key
       /\ a.client.adapter \notin SelfContained /\ b.client.adapter \notin SelfContained

(* The chain starts with the provider the request named, goes through its    *)
(* fallbacks in the configured order, tries nothing twice, is no longer than *)
(* maxAttempts allowed when it was made, and is followed to where it ends    *)
(* before the client is told of an error.                                   *)
SoundChain(c, plan) ==
  /\ plan[1].index = 0
  /\ Len(plan) = 1 \/ Len(plan) <= c.fallback.maxAttempts
  /\ \A i, j \in DOMAIN plan :
       i < j => plan[i].index <= plan[j].index /\ Different(plan[i], plan[j])
ChainsAreSound ==
  /\ ErrorsEndTheChain
  /\ \A r \in Requests : req[r].under # None => SoundChain(req[r].under, req[r].plan)

(* Cached or not, the client of an attempt sends the key its source has in  *)
(* the configuration the request was resolved under, to the url that        *)
(* configuration gives the provider and the profile of that key.            *)
InForce(c, a) ==
  LET pc == ProviderConfig(c, a.provider)
  IN  /\ a.client.provider = a.provider
      /\ a.client.adapter \notin SelfContained =>
           \E preferred \in {a.profile, None} :
             LET found == ResolveApiKeys(c, a.provider, pc, preferred)
             IN  \E n \in DOMAIN found :
                   /\ found[n].key = a.client.key /\ found[n].source = a.source
                   /\ a.client.url = EffectiveBaseUrl(c, a.provider, pc,
                                                      ProfileOf(found[n], preferred))
CredentialsInForce ==
  \A r \in Requests : \A i \in DOMAIN req[r].plan : InForce(req[r].under, req[r].plan[i])

(* A cached client is never a mixture: its adapter, url, key and headers     *)
(* are together what one configuration in force since the process started    *)
(* gives its provider, and the egress policy of that configuration let it    *)
(* be built.                                                                *)
BuiltFromOneConfiguration ==
  \A m \in Managers : \A key \in DOMAIN cache[m] :
    LET client == cache[m][key]
    IN  \E c \in seen, dns \in Resolvers :
          LET pc == ProviderConfig(c, client.provider)
          IN  /\ pc # None
              /\ client = BuildProvider(c, client.provider, pc, [key |-> client.key, mode |-> key[4]],
                                        EffectiveBaseUrl(c, client.provider, pc, key[2]), dns)

(* The cache never makes a request speak for another one or with what was    *)
(* never in force.                                                          *)
ClientsInForce == CredentialsInForce /\ BuiltFromOneConfiguration

(* Whichever attempt serves a request, upstream is told its conversation,    *)
(* whatever it is: the same pieces in the same order, every result naming   *)
(* the one call it answers although ids are rewritten.  Anthropic is told   *)
(* no result of an unknown call, Bedrock no calls.                          *)
ConversationIsKept ==
  \A r \in Requests : \A i \in DOMAIN req[r].plan :
    LET attempt == req[r].plan[i]
    IN  \/ Native(r, attempt)
        \/ Is(r, "messages")  /\ KeepsTurns[attempt.client.adapter]
        \/ ~Is(r, "messages") /\ KeepsConversations[attempt.client.adapter]

(* The usage store has at most one row for a request, none for one no       *)
(* upstream answered, and the row names the attempt that answered and       *)
(* counts the failed ones before it.  Its profile is that of the attempt;   *)
(* only a row of an attempt without one may name a profile that did not     *)
(* answer, and then it names the first of the chain, which failed.          *)
UsageNamesWhoAnswered ==
  /\ \A u, v \in usage : u.request = v.request => u = v
  /\ \A u \in usage :
       LET r == u.request
       IN  /\ req[r].answer.kind \in {"reply", "stream", "ended", "error_frame", "left", "lost"}
           /\ u.attempts = req[r].pos
           /\ u.source = Attempt(r).source /\ u.provider = Attempt(r).provider
           /\ u.model = Attempt(r).model
           /\ \/ u.profile = Attempt(r).profile
              \/ Attempt(r).profile = None /\ u.profile = req[r].plan[1].profile /\ u.attempts > 1

(* Once a byte of the reply is out, the reply stays the one it was: no      *)
(* other attempt is made, no chunk is taken back, no row is added, and what *)
(* can be said after a failure is said inside the stream.                   *)
NothingAfterFirstByte ==
  [][\A r \in Requests :
       req[r].answer.kind # None =>
         /\ req'[r].pos = req[r].pos /\ req'[r].failed = req[r].failed
         /\ req'[r].chunks >= req[r].chunks
         /\ req'[r].answer.status \in {req[r].answer.status, None}
         /\ req[r].at = "done" => req'[r] = req[r]]_vars

(* Every request for a whole reply that reached an upstream is answered, or *)
(* lost with the process, however many attempts fail.                       *)
RequestsAnswered ==
  \A r \in Requests : (req[r].at = "calling" /\ Unary(r)) ~> (req[r].at = "done")
=============================================================================
