----------------------------- MODULE MCServing -----------------------------
EXTENDS Serving

Url(host) == [scheme |-> "https", userinfo |-> FALSE, host |-> host, address |-> None]
With(url, api, models) == [Blank EXCEPT !.url = url, !.api = api, !.models = models]

(* zai and zai-anthropic share a server and, in MCEnv, a key.               *)
MCCatalog ==
  "openai" :> With(Url("openai"), None, {"g"}) @@
  "zai" :> With(Url("zai"), None, {"z"}) @@
  "zai-anthropic" :> With(Url("zai"), "anthropic-messages", {"z"}) @@
  "codex-cli" :> [Blank EXCEPT !.auth = "cli"]
MCBuiltinModels == "codex-cli" :> {"g"}
MCFamily == "g" :> "gpt" @@ "z" :> "other"

Shared == <<[key |-> "kz", source |-> <<"env", "ZAI_API_KEY">>, mode |-> None]>>
MCEnv == [token |-> None, anonymous |-> FALSE, insecureHttp |-> FALSE, local |-> FALSE, aws |-> None,
          keys |-> "zai" :> Shared @@ "zai-anthropic" :> Shared]

Public  == [nets |-> {}, kinds |-> {}]
Private == [nets |-> {}, kinds |-> {"private_ip"}]
Answering(zai) == "openai" :> {Public} @@ "zai" :> zai
MCResolvers == {Answering({Public}), Answering({Private})}

Policy == [enabled |-> TRUE, mode |-> "enforce", resolveDns |-> TRUE, failClosed |-> TRUE,
           enforceHttps |-> TRUE, denyHosts |-> {}, denyCidrs |-> {}, allowLocalProviders |-> {}]
Token(id, scopes) == [token |-> id, id |-> id, scopes |-> scopes, admin |-> FALSE, enabled |-> TRUE]
Profile(provider, name, kind, secret) ==
  [id |-> <<provider, name>>, provider |-> provider, kind |-> kind, secret |-> secret,
   stale |-> FALSE, url |-> None]

Config0 ==
  [tokens |-> "w" :> Token("w", {"write"}) @@ "r" :> Token("r", {"read"}),
   legacyAdmin |-> TRUE, serverToken |-> None,
   providers |-> <<>>,
   profiles |-> <<Profile("openai", "a", "api_key", "ka"), Profile("openai", "b", "oauth", "kb"),
                  Profile("zai", "p", "api_key", "kp")>>,
   authOrder |-> <<>>, active |-> {}, defaultModel |-> Ref("zai", None, "z"),
   replaceModels |-> FALSE,
   fallback |-> [enabled |-> TRUE, retry |-> {}, maxAttempts |-> 2,
                 order |-> <<"openai">> :> <<Ref("zai", None, "z")>> @@
                           <<"zai", "z">> :> <<Ref("zai-anthropic", None, "z"), Ref("codex-cli", None, "g")>>],
   egress |-> Policy]

(* No OpenAI key is left, the key of zai is another one, zai speaks the     *)
(* other API and sends a header, and the chains are shorter.                *)
Config1 == [Config0 EXCEPT
              !.profiles = <<Profile("zai", "p", "api_key", "kp2")>>,
              !.providers = "zai" :> [Blank EXCEPT !.api = "anthropic-messages",
                                                   !.headers = "x-title" :> "t"],
              !.fallback.maxAttempts = 3, !.fallback.retry = {401, 429}]

MCConfigs == {Config0, Config1}

(* Two ids that look the same in Anthropic's alphabet.                      *)
MCCleaned == "a.b" :> "a_b" @@ "a_b" :> "a_b" @@ "c" :> "c"
User(n)         == Message("user", n, <<>>, None)
Result(n, id)   == Message("tool", n, <<>>, id)
Calling(ids)    == Message("assistant", None, ids, None)
Parallel == <<User(1), Calling(<<"a.b", "a_b">>), Result(2, "a_b"), Result(3, "a.b")>>

(* Every conversation of up to three messages and every list of up to three *)
(* turns; calls are the assistant's and results the user's.                 *)
Messages ==
  {Message("system", 1, <<>>, None), User(1), Message("assistant", 1, <<>>, None),
   Message("assistant", None, <<>>, None)}
    \cup {Message("assistant", text, ids, None) : text \in {None, 2},
             ids \in {<<"a.b">>, <<"a_b">>, <<"a.b", "a_b">>, <<"a_b", "a.b">>, <<"c">>}}
    \cup {Result(3, id) : id \in {"a.b", "a_b", "c"}}
UpTo(n, S) == UNION {[1 .. m -> S] : m \in 0 .. n}
UserBlocks == {Block("text", None, 1), Block("result", "a.b", 2), Block("result", "c", 3)}
AssistantBlocks == {Block("text", None, 1), Block("call", "a.b", None), Block("call", "c", None)}
SomeTurns == [role : {"user"}, blocks : UpTo(2, UserBlocks)]
               \cup [role : {"assistant"}, blocks : UpTo(2, AssistantBlocks)]
MCConversations == UpTo(3, Messages) \cup {Parallel}
MCTurnLists     == UpTo(3, SomeTurns)

Asking(route, ref, stream, token) ==
  [route |-> route, ref |-> ref, profile |-> None, stream |-> stream,
   authorization |-> token, apiKey |-> None]
Bare(model) == Ref(None, None, model)
MCAsks == {Asking("chat", Ref("openai", None, "g"), TRUE, "w"),
           [Asking("chat", Bare("g"), FALSE, "w") EXCEPT !.profile = <<"b">>],
           Asking("universal", Ref("zai", None, "z"), FALSE, "w"),
           Asking("embeddings", Ref("openai", None, "g"), FALSE, "w"),
           Asking("messages", Bare(None), TRUE, "w"),
           [Asking("messages", Ref("openai", <<"a">>, "g"), FALSE, None) EXCEPT !.apiKey = "w"],
           Asking("chat", Bare("g"), FALSE, "r"),
           Asking("chat", Bare("g"), FALSE, "malformed")}
=============================================================================
