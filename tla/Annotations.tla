---------------------------- MODULE Annotations ----------------------------
(***************************************************************************)
(* What resolveAnnotations makes of the caddy.ingress/ annotations of an   *)
(* Ingress and of the ConfigMaps and Secrets that they name                *)
(* (annotations.go).                                                       *)
(*                                                                         *)
(* Strings are replaced by what they say.  A comma-separated value is the  *)
(* sequence of its trimmed parts, "" for a blank one and <<>> where there  *)
(* is no annotation; an integer is <<n>>, one that does not parse <<-1>>   *)
(* (both fail the same test); a "true" or "false" is a Boolean.            *)
(*                                                                         *)
(* Left out is what only the transport of the proxy takes (timeouts, TLS,  *)
(* HTTP version, retries), the methods, headers and maximum age of CORS,   *)
(* the realm, and the annotations that other components act upon (tls,     *)
(* access-log).                                                            *)
(***************************************************************************)
EXTENDS Integers, Sequences, FiniteSets

CONSTANTS
    IntLimit,  \* parseBodySize's int64 is -IntLimit..IntLimit-1, scaled down
    Kibi       \* the unit "k"

ASSUME WidthAssumption ==
    /\ IntLimit \in Nat \ {0}
    /\ Kibi \in Nat \ {0}

Elems(list) == {list[i] : i \in DOMAIN list}

\* The elements of list that are in S, in their order; each is found by its rank.
Keep(list, S) ==
    LET at == {i \in DOMAIN list : list[i] \in S}
    IN  [n \in 1..Cardinality(at) |->
            list[CHOOSE i \in at : Cardinality({j \in at : j <= i}) = n]]

\* The non-blank parts of a list (parseCIDRList, server-alias, origins).
NonBlank(parts) == Keep(parts, Elems(parts) \ {""})

-----------------------------------------------------------------------------
(* Values *)

Units == {"", "k", "m", "g"}

UnitSize == [u \in Units |->
               CASE u = "" -> 1 [] u = "k" -> Kibi
                 [] u = "m" -> Kibi * Kibi [] u = "g" -> Kibi * Kibi * Kibi]

\* The value of an int64 that has been computed as i.
Wrapped(i) == ((i + IntLimit) % (2 * IntLimit)) - IntLimit

\* ParseInt takes numbers that an int64 holds.
Parses(n) == n # <<-1>> /\ n[1] \in -IntLimit..IntLimit-1

\* g taken for m.
BugParseBodySize(size) ==
    IF ~Parses(size.n) THEN 0
    ELSE Wrapped(size.n[1] * UnitSize[IF size.unit = "g" THEN "m" ELSE size.unit])

\* parseBodySize and what its error does: there is no limit then.  The product
\* is computed in an int64.
ParseBodySize(size) ==
    IF ~Parses(size.n) THEN 0 ELSE Wrapped(size.n[1] * UnitSize[size.unit])

\* Headers to set and to delete; names as they are spelled.  A later part
\* replaces an earlier one with the same name.
ParseHeaders(parts) ==
    [set |-> [n \in {parts[i].name : i \in {j \in DOMAIN parts : parts[j].op = "set"}} |->
                LET last == CHOOSE i \in DOMAIN parts :
                              /\ parts[i].op = "set" /\ parts[i].name = n
                              /\ \A j \in DOMAIN parts :
                                    (parts[j].op = "set" /\ parts[j].name = n) => j <= i
                IN  parts[last].value],
     delete |-> {parts[i].name : i \in {j \in DOMAIN parts : parts[j].op = "delete"}}]

NoHeaders(cfg) == DOMAIN cfg.set = {} /\ cfg.delete = {}

-----------------------------------------------------------------------------
(* ConfigMaps and Secrets *)

\* An object: found by the API server, with the key in question and what is
\* under it, line by line.  Fetched values are sequences: <<>> is an error.

\* The JSON of the handler; "null" is JSON.
FetchAuthPolicyHandler(o) ==
    IF o.found /\ o.key /\ o.lines # <<"no JSON">> THEN o.lines ELSE <<>>

FetchWAFDirectives(o) ==
    IF o.found /\ o.key THEN <<Keep(o.lines, Elems(o.lines) \ {"", "#"})>> ELSE <<>>

\* A line of htpasswd is "", "#", or a user and the kind of hash.
IsAccount(l) == l.user \notin {"", "#"} /\ l.hash = "bcrypt"

FetchBasicAuthAccounts(o) ==
    LET accounts == Keep(o.lines, {l \in Elems(o.lines) : IsAccount(l)})
    IN  IF o.found /\ o.key /\ accounts # <<>> THEN <<accounts>> ELSE <<>>

-----------------------------------------------------------------------------
(* resolveAnnotations *)

\* a: the annotations; o: the objects that they name.

\* CORS is a sequence of at most one configuration.  No origin is any origin;
\* credentials are not allowed to any origin.
Wildcard(cors) == cors.origins = <<"*">>

ResolveCORS(a) ==
    IF ~a.enableCORS THEN <<>>
    ELSE LET named == NonBlank(a.origins)
             cfg == [origins |-> IF named = <<>> THEN <<"*">> ELSE named]
         IN  <<[origins |-> cfg.origins,
                creds |-> a.allowCreds /\ ~Wildcard(cfg)]>>

\* Whatever parses, or not.
BugResolveCode(a) == IF a.redirectCode # <<>> THEN a.redirectCode[1] ELSE 0

\* Of redirect-code only a 3xx is accepted.
ResolveCode(a) ==
    IF a.redirectCode # <<>> /\ a.redirectCode[1] \in 300..399
    THEN a.redirectCode[1] ELSE 0

ResolveRPS(a) == IF a.limitRPS # <<>> /\ a.limitRPS[1] > 0 THEN a.limitRPS[1] ELSE 0

ResolveBodySize(a) == IF a.bodySize = <<>> THEN 0 ELSE ParseBodySize(a.bodySize[1])

\* waf: <<enabled, mode>>, or <<>> to inherit.
ResolveWAF(a) ==
    CASE a.waf = "off" -> <<FALSE, "">>
      [] a.waf = "on" -> <<TRUE, "On">>
      [] a.waf = "detection" -> <<TRUE, "DetectionOnly">>
      [] OTHER -> <<>>

ResolveDirectives(a, o) ==
    LET fetched == FetchWAFDirectives(o.rules)
    IN  IF a.wafRules /\ fetched # <<>> THEN fetched[1] ELSE <<>>

\* The handler, or <<>>: no annotation, an error or null.
ResolvePolicy(a, o) ==
    LET fetched == FetchAuthPolicyHandler(o.policy)
    IN  IF a.authPolicy /\ fetched # <<"null">> THEN fetched ELSE <<>>

\* The accounts, or <<>> for no authentication.
ResolveBasicAuth(a, o) ==
    LET fetched == FetchBasicAuthAccounts(o.auth)
    IN  IF a.basicAuth /\ fetched # <<>> THEN fetched[1] ELSE <<>>

ResolveAnnotations(a, o) ==
    [whitelist |-> NonBlank(a.whitelist),
     blocklist |-> NonBlank(a.blocklist),
     sslRedirect |-> a.sslRedirect,
     permanentRedirect |-> a.permanentRedirect,
     temporalRedirect |-> a.temporalRedirect,
     redirectCode |-> ResolveCode(a),
     rewriteTarget |-> a.rewriteTarget,
     serverAliases |-> NonBlank(a.serverAlias),
     limitRPS |-> ResolveRPS(a),
     cors |-> ResolveCORS(a),
     requestHeaders |-> ParseHeaders(a.requestHeaders),
     responseHeaders |-> ParseHeaders(a.responseHeaders),
     waf |-> ResolveWAF(a),
     wafDirectives |-> ResolveDirectives(a, o),
     maxBodySize |-> ResolveBodySize(a),
     xForwardedPrefix |-> a.xForwardedPrefix,
     upstreamVhost |-> a.upstreamVhost,
     basicAuth |-> ResolveBasicAuth(a, o),
     authPolicy |-> ResolvePolicy(a, o)]
=============================================================================
