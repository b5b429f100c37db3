------------------------------- MODULE Access -------------------------------
(***************************************************************************)
(* Who may call the gateway (server/auth.py, the inbound check of          *)
(* server/anthropic_routes.py) and where the gateway may call              *)
(* (server/egress_policy.py).  Both are pure functions of a configuration, *)
(* of the environment and of the request or the destination.               *)
(***************************************************************************)
EXTENDS Naturals, Sequences

CONSTANTS
  None,   \* Python's None
  Env     \* the environment of the process: a record with the fields
          \*   token, anonymous       OPEN_LLM_AUTH_TOKEN, .._ALLOW_ANON
          \*   insecureHttp, local    .._ALLOW_INSECURE_EGRESS_HTTP, .._ALLOW_LOCALHOST_EGRESS
          \*   keys                   provider -> sequence of [key, source, mode]
          \*   aws                    where the AWS SDK finds credentials, or None

-----------------------------------------------------------------------------
(* Authentication.  A bearer is the token of an Authorization header, None  *)
(* when the header is missing or is not of the form "Bearer <token>".       *)

AllScopes == {"read", "write", "admin"}

Anonymous    == [subject |-> "anonymous",    scopes |-> AllScopes, admin |-> TRUE]
LegacyAdmin  == [subject |-> "legacy-admin", scopes |-> AllScopes, admin |-> TRUE]
Unauthorized == [subject |-> None,           scopes |-> {},        admin |-> FALSE]

ConfiguredTokens(cfg) ==
  {k \in DOMAIN cfg.tokens : cfg.tokens[k].enabled /\ cfg.tokens[k].token # None}

LegacyToken(cfg) ==
  IF ~cfg.legacyAdmin THEN None
  ELSE IF cfg.serverToken # None THEN cfg.serverToken ELSE Env.token

(* Two configured tokens of the same value authenticate nobody, not even   *)
(* the holder of a legacy token of that value.                             *)
VerifyServerToken(cfg, bearer) ==
  LET configured == ConfiguredTokens(cfg)
      matching   == {k \in configured : cfg.tokens[k].token = bearer}
      legacy     == LegacyToken(cfg)
  IN  IF configured = {} /\ legacy = None
      THEN IF Env.anonymous THEN Anonymous ELSE Unauthorized
      ELSE IF bearer = None \/ \E j, k \in matching : j # k THEN Unauthorized
      ELSE IF matching # {}
      THEN LET token == cfg.tokens[CHOOSE k \in matching : TRUE]
           IN  [subject |-> token.id, admin |-> token.admin,
                scopes  |-> IF token.admin THEN token.scopes \cup AllScopes
                                           ELSE token.scopes]
      ELSE IF legacy # None /\ bearer = legacy THEN LegacyAdmin ELSE Unauthorized

(* Claude Code sends x-api-key; an Authorization header goes first, even   *)
(* one that cannot be read ("malformed").                                  *)
VerifyServerTokenOrXApiKey(cfg, authorization, xApiKey) ==
  VerifyServerToken(cfg, IF authorization = "malformed" THEN None
                         ELSE IF authorization # None THEN authorization ELSE xApiKey)

(* /v1/messages: with the anonymous override every failure is anonymous.   *)
VerifyAnthropicInbound(cfg, authorization, xApiKey) ==
  LET principal == VerifyServerTokenOrXApiKey(cfg, authorization, xApiKey)
  IN  IF principal = Unauthorized /\ Env.anonymous THEN Anonymous ELSE principal

HasScope(principal, scope) == principal.admin \/ scope \in principal.scopes

-----------------------------------------------------------------------------
(* Egress.  A destination has a scheme, userinfo or not, a host, and the    *)
(* address when the host is a literal.  An address is the set of the        *)
(* networks it is in and of the kinds Python's ipaddress gives it.          *)

DefaultDenyCidrs == {"169.254.169.254/32", "169.254.170.2/32",
                     "100.100.100.200/32", "fd00:ec2::254/128"}
DefaultDenyHosts == {"metadata.google.internal"}
Localhosts       == {"localhost", "localhost.localdomain"}
LocalReasons     == {"loopback_ip", "private_ip", "link_local_ip", "cgnat_ip"}

(* The order in which the kinds of an address are asked for.               *)
Kinds == <<"cgnat_ip", "benchmark_ip", "loopback_ip", "link_local_ip", "private_ip",
           "multicast_ip", "unspecified_ip", "reserved_ip">>

ASSUME AccessAssumption ==
  None # "denylisted_cidr" /\ \A n \in DOMAIN Kinds : None # Kinds[n]

IsLocalProviderAllowed(policy, provider) ==
  Env.local \/ provider \in policy.allowLocalProviders

(* Why an address is refused, None when it is not; what a deny list names  *)
(* is refused before any other reason is looked at.                        *)
BlockedReasonForIp(policy, address) ==
  IF address.nets \cap (DefaultDenyCidrs \cup policy.denyCidrs) # {} THEN "denylisted_cidr"
  ELSE IF \A n \in DOMAIN Kinds : Kinds[n] \notin address.kinds THEN None
  ELSE Kinds[CHOOSE n \in DOMAIN Kinds :
               /\ Kinds[n] \in address.kinds
               /\ \A m \in 1 .. n - 1 : Kinds[m] \notin address.kinds]

AddressPermitted(policy, provider, address) ==
  LET reason == BlockedReasonForIp(policy, address)
  IN  \/ reason = None
      \/ IsLocalProviderAllowed(policy, provider) /\ reason \in LocalReasons

(* `answers` are the addresses the host name resolves to now, {} when it    *)
(* does not resolve.  The mode "observe" refuses like "enforce".            *)
DestinationPermitted(policy, provider, url, answers) ==
  \/ ~policy.enabled
  \/ policy.mode = "off"
  \/ /\ url.scheme \in {"http", "https"}
     /\ ~url.userinfo
     /\ url.host # None
     /\ url.scheme = "http" => \/ ~policy.enforceHttps
                               \/ IsLocalProviderAllowed(policy, provider)
                               \/ Env.insecureHttp
     /\ url.host \notin policy.denyHosts \cup DefaultDenyHosts
     /\ url.host \in Localhosts => IsLocalProviderAllowed(policy, provider)
     /\ IF url.address # None THEN AddressPermitted(policy, provider, url.address)
        ELSE policy.resolveDns =>
               /\ answers = {} => ~policy.failClosed
               /\ \A a \in answers : AddressPermitted(policy, provider, a)
=============================================================================
