------------------------------ MODULE Requests ------------------------------
(***************************************************************************)
(* What happens to an HTTP request for an Ingress: Caddy walks through the *)
(* routes that the app has put on its servers.                             *)
(*                                                                         *)
(* The routes come from Routes, the annotations from Annotations.  Caddy,  *)
(* its rate limiter, the WAF and the policy are modelled from what the app *)
(* configures them to do.                                                  *)
(***************************************************************************)
EXTENDS Routes

CONSTANTS
    Cases,     \* sets of cases
    Address,   \* the client addresses of a range
    HostsOf,   \* the hosts of a pattern with a "*" label
    OriginsOf  \* the origins of a pattern that begins or ends with "*"

\* A case: an Ingress with its annotations and the objects that these name, the
\* SecurityConfig, and a request.  Any JSON counts as the same handler.
ObjectType(lines) == [found: BOOLEAN, key: BOOLEAN, lines: lines]

PathType == [segs: Seq(STRING), dir: BOOLEAN]

HeaderType == [op: {"set", "delete"}, name: STRING, value: STRING]

CaseType ==
    [ing: [tls: BOOLEAN,
           rules: Seq([host: STRING, http: BOOLEAN,
                       paths: Seq([path: PathType, type: STRING, service: STRING])])],
     ann: [whitelist: Seq(STRING), blocklist: Seq(STRING), sslRedirect: BOOLEAN,
           permanentRedirect: STRING, temporalRedirect: STRING,
           redirectCode: Seq(Int), rewriteTarget: STRING, serverAlias: Seq(STRING),
           limitRPS: Seq(Int), enableCORS: BOOLEAN, origins: Seq(STRING),
           allowCreds: BOOLEAN, requestHeaders: Seq(HeaderType),
           responseHeaders: Seq(HeaderType), waf: STRING, wafRules: BOOLEAN,
           bodySize: Seq([n: Seq(Int) \ {<<>>}, unit: Units]),
           xForwardedPrefix: STRING, upstreamVhost: STRING, basicAuth: BOOLEAN,
           authPolicy: BOOLEAN],
     objs: [rules: ObjectType(Seq(STRING)),
            policy: ObjectType({<<>>, <<"no JSON">>, <<"null">>, <<"handler">>}),
            auth: ObjectType(Seq([user: STRING, hash: STRING]))],
     sec: [waf: BOOLEAN, wafMode: STRING, securityHeaders: BOOLEAN,
           injectRealIP: BOOLEAN],
     req: [ip: STRING, method: STRING, host: STRING, https: BOOLEAN, origin: STRING,
           path: PathType, size: Nat, user: STRING, attack: BOOLEAN]]

\* No browser names an origin "*", and no annotation has the placeholder by which
\* Caddy echoes the origin of the request.
ASSUME CasesAssumption ==
    \A cases \in Cases : \A c \in cases :
       /\ c \in CaseType
       /\ c.req.origin # "*"
       /\ "{http.request.header.Origin}" \notin Elems(c.ann.origins)

VARIABLES
    case,    \* the case
    agenda,  \* the routes and handlers that are left
    cors,    \* the CORS headers of the response, or NoCORS
    limit,   \* the limit of the body, 0 for none
    passed,  \* the handlers that have let the request through
    answer   \* the response, or None yet

vars == <<case, agenda, cors, limit, passed, answer>>

NoCORS == [origin |-> "", vary |-> FALSE, creds |-> FALSE]

Handlers == {"authentication", "request_body", "rate_limit", "rewrite",
             "security_headers", "response_headers", "waf", "policy"}

\* by: the handler that answers; upstream and headers: what it forwards.
Answers(by, status, upstream, headers) ==
    [by |-> by, status |-> status, upstream |-> upstream, headers |-> headers]

None == Answers("", 0, "", <<>>)

TypeOK ==
    /\ Elems(agenda) \subseteq {r \in Elems(agenda) :
          r.handler \in Handlers \cup {"route", "subroute", "cors",
                                       "static_response", "reverse_proxy"}}
    /\ cors.origin \in {"", "*"} \cup Elems(NonBlank(case.ann.origins))
                       \cup {case.req.origin}
    /\ limit \in Int
    /\ Elems(passed) \subseteq Handlers
    /\ answer # None => answer.status \in 200..599

-----------------------------------------------------------------------------
(* The servers *)

\* handleAdd: the redirects go to the HTTP server, before anything else; the
\* routes to the server that fits spec.tls.
ServerRoutes(c) ==
    LET a == ResolveAnnotations(c.ann, c.objs)
        redirects == IF a.sslRedirect THEN HttpRedirectRoutes(c.ing) ELSE <<>>
        routes == ConvertIngress(c.ing, c.sec, a)
    IN  IF c.req.https THEN IF c.ing.tls THEN routes ELSE <<>>
        ELSE redirects \o (IF c.ing.tls THEN <<>> ELSE routes)

Init ==
    /\ \E cases \in Cases : case \in cases
    /\ agenda = ServerRoutes(case)
    /\ cors = NoCORS
    /\ limit = 0
    /\ passed = <<>>
    /\ answer = None

-----------------------------------------------------------------------------
(* Caddy *)

InRanges(ip, ranges) == \E r \in ranges : ip \in Address[r]

\* The glob of p stands for what lies below p.
PathMatches(p, path) ==
    IF ~p.glob THEN p.path = path
    ELSE LET n == Len(p.path.segs)
         IN  /\ Len(path.segs) > n \/ (Len(path.segs) = n /\ path.dir)
             /\ SubSeq(path.segs, 1, n) = p.path.segs

\* What a value of a matcher stands for: names has the patterns.
Stands(p, names) == IF p \in DOMAIN names THEN names[p] ELSE {p}

HostMatches(p, host) == host \in Stands(p, HostsOf)

\* The header matcher takes "*" for any value, wherever it stands in a list;
\* without the header ("") nothing matches.
OriginMatches(p, origin) ==
    origin # "" /\ (p = "*" \/ origin \in Stands(p, OriginsOf))

Matches(m, req) ==
    /\ m.host # {} => \E p \in m.host : HostMatches(p, req.host)
    /\ m.path # {} => \E p \in m.path : PathMatches(p, req.path)
    /\ m.method # {} => req.method \in m.method
    /\ m.origin # {} => \E p \in m.origin : OriginMatches(p, req.origin)
    /\ m.in # {} => InRanges(req.ip, m.in)
    /\ m.notIn # {} => ~InRanges(req.ip, m.notIn)

Next1 == Head(agenda)

Is(kind) == answer = None /\ agenda # <<>> /\ Next1.handler = kind

\* A terminal route leaves no other way on than through its handlers.
TryRoute ==
    /\ Is("route")
    /\ agenda' = IF ~Matches(Next1.match, case.req) THEN Tail(agenda)
                 ELSE IF Next1.terminal THEN Next1.handle
                 ELSE Next1.handle \o Tail(agenda)
    /\ UNCHANGED <<case, cors, limit, passed, answer>>

EnterSubroute ==
    /\ Is("subroute")
    /\ agenda' = Next1.routes \o Tail(agenda)
    /\ UNCHANGED <<case, cors, limit, passed, answer>>

AddCORS ==
    /\ Is("cors")
    /\ cors' = [origin |-> IF Next1.origin = "{http.request.header.Origin}"
                           THEN case.req.origin ELSE Next1.origin,
                vary |-> Next1.vary, creds |-> Next1.creds]
    /\ agenda' = Tail(agenda)
    /\ UNCHANGED <<case, limit, passed, answer>>

Answer(by, status, upstream, headers) ==
    /\ answer' = Answers(by, status, upstream, headers)
    /\ UNCHANGED <<case, agenda, cors, limit, passed>>

Pass ==
    /\ passed' = Append(passed, Next1.handler)
    /\ agenda' = Tail(agenda)
    /\ UNCHANGED <<case, cors, answer>>

Respond == Is("static_response") /\ Answer("static_response", Next1.status, "", <<>>)

Authenticate ==
    /\ Is("authentication")
    /\ IF \E i \in DOMAIN Next1.accounts : Next1.accounts[i].user = case.req.user
       THEN Pass /\ UNCHANGED limit
       ELSE Answer("authentication", 401, "", <<>>)

\* The body is not read yet.
LimitBody == Is("request_body") /\ Pass /\ limit' = Next1.max

\* Whether there have been too many requests and what the policy says is not
\* up to this request.
RateLimit ==
    /\ Is("rate_limit")
    /\ (Pass /\ UNCHANGED limit) \/ Answer("rate_limit", 429, "", <<>>)

Authorize ==
    /\ Is("policy")
    /\ (Pass /\ UNCHANGED limit) \/ Answer("policy", 403, "", <<>>)

Alter ==
    /\ Is("rewrite") \/ Is("security_headers") \/ Is("response_headers")
    /\ Pass
    /\ UNCHANGED limit

Positions(directives, set) == {i \in DOMAIN directives : directives[i] \in set}

Engines == {"SecRuleEngine On", "SecRuleEngine DetectionOnly", "SecRuleEngine Off"}

\* The last SecRuleEngine counts; a rule can be removed once it is defined.
Blocks(directives) ==
    LET engines == Positions(directives, Engines)
        defined == Positions(directives, {"Include @owasp_crs"})
    IN  /\ \E i \in engines :
              directives[i] = "SecRuleEngine On" /\ \A j \in engines : j <= i
        /\ \E i \in defined : \A j \in Positions(directives, {"SecRuleRemoveById"}) : j < i

Inspect ==
    /\ Is("waf")
    /\ IF case.req.attack /\ Blocks(Next1.directives)
       THEN Answer("waf", 403, "", <<>>)
       ELSE Pass /\ UNCHANGED limit

\* Header names in their canonical form.
Canonical(n) == IF n = "x-forwarded-for" THEN "X-Forwarded-For" ELSE n

\* The headers that may go upstream.  Of two spellings of one name either value
\* may win: they are set in the order of a map.  What is deleted is deleted last.
Sent(p) ==
    LET names == {Canonical(n) : n \in DOMAIN p.set} \ {Canonical(n) : n \in p.delete}
    IN  {h \in [names -> {p.set[n] : n \in DOMAIN p.set}] :
            \A n \in names : \E m \in DOMAIN p.set :
               Canonical(m) = n /\ h[n] = p.set[m]}

Proxy ==
    /\ Is("reverse_proxy")
    /\ IF limit > 0 /\ case.req.size > limit
       THEN Answer("request_body", 413, "", <<>>)
       ELSE \E h \in Sent(Next1) : Answer("reverse_proxy", 200, Next1.upstream, h)

\* Nobody has answered.
RunOut ==
    /\ answer = None
    /\ agenda = <<>>
    /\ Answer("none", 200, "", <<>>)

Next ==
    \/ TryRoute \/ EnterSubroute \/ AddCORS
    \/ Respond \/ Authenticate \/ LimitBody \/ RateLimit \/ Authorize
    \/ Alter \/ Inspect \/ Proxy \/ RunOut

Spec == Init /\ [][Next]_vars
-----------------------------------------------------------------------------
(* What the annotations say, read from the documentation of each *)

Ann == case.ann
Req == case.req

Said(list) == Elems(list) \ {""}

Aliases == Said(Ann.serverAlias)

\* README.md:523, "additional hostnames": a rule applies to its host, every host
\* if it names none, and to the aliases.
Applies(rule) ==
    rule.host = "" \/ \E h \in {rule.host} \cup Aliases : HostMatches(h, Req.host)

\* What the code makes of a rule without host, routes.go:93-100: with aliases it
\* applies to them only.
Narrowed(rule) ==
    rule.host = "" /\ Aliases # {} /\ ~\E h \in Aliases : HostMatches(h, Req.host)

Backed(rule) ==
    rule.http /\ \E i \in DOMAIN rule.paths : rule.paths[i].service # ""

RulesFor == {i \in DOMAIN case.ing.rules :
               Applies(case.ing.rules[i]) /\ Backed(case.ing.rules[i])}

First(positions) == CHOOSE i \in positions : \A j \in positions : i <= j

\* The rule that the request is for.
TheRule == case.ing.rules[First(RulesFor)]

\* ssl-redirect answers plain HTTP for the hosts of the rules.
Redirected ==
    /\ Ann.sslRedirect /\ ~Req.https
    /\ \E rule \in Elems(case.ing.rules) :
          rule.host # "" /\ HostMatches(rule.host, Req.host)

\* The request is the business of the routes of the Ingress, says the
\* documentation.
Addressed == Req.https = case.ing.tls /\ RulesFor # {} /\ ~Redirected

\* And the code does not narrow its rule down to the aliases.
Concerned == Addressed /\ ~Narrowed(TheRule)

Admitted ==
    /\ Said(Ann.whitelist) # {} => InRanges(Req.ip, Said(Ann.whitelist))
    /\ ~InRanges(Req.ip, Said(Ann.blocklist))

\* "*", the default, says "*" to everybody; a list says who is allowed.
StarAlone == NonBlank(Ann.origins) \in {<<>>, <<"*">>}

\* "*" in a list allows any origin, too (annotations.go:139).
OriginAllowed ==
    /\ Ann.enableCORS
    /\ StarAlone \/ \E p \in Said(Ann.origins) : OriginMatches(p, Req.origin)

Answered(by, status) == answer.by = by /\ answer.status = status

-----------------------------------------------------------------------------
(* Properties *)

\* annotations.go:20, "all other source IPs receive 403": a client that the lists
\* keep out gets no further, neither to a preflight answer nor to a redirect, a
\* check or a backend, whatever else is configured; the others are not kept out.
Guarded ==
    Concerned =>
       /\ ~Admitted => /\ passed = <<>> /\ cors = NoCORS
                       /\ answer # None => Answered("static_response", 403)
       /\ Admitted /\ answer # None => ~Answered("static_response", 403)

\* README.md:440, a preflight is answered "without the request ever reaching the
\* backend": the OPTIONS request of an allowed origin gets 204 before it meets
\* authentication, limits or WAF; and a 204 is the answer to a preflight, with the
\* CORS headers if and only if its origin is allowed.  The preflight of an origin
\* that is not allowed is left open: routes.go:315 has it "fall through to a plain
\* 204", and the code lets it through to the checks and the backend.
Preflighted ==
    (Concerned /\ Admitted) =>
       /\ (Req.method = "OPTIONS" /\ OriginAllowed) =>
             /\ passed = <<>>
             /\ answer # None => Answered("static_response", 204)
       /\ (answer # None /\ Answered("static_response", 204)) =>
             /\ Req.method = "OPTIONS" /\ Ann.enableCORS
             /\ cors.origin # "" <=> OriginAllowed

\* README.md:473, "only echoes an origin that appears in the allowed list":
\* whoever answers on behalf of a path, an error included (routes.go:187), the
\* response allows what was configured, and caches are told (Vary) wherever an
\* origin is allowed by name.  Two things are left open.  Credentials never go
\* with "*" (annotations.go:142), but with a list that has "*" among others they
\* do go to any origin (routes.go:230).  And the response to an origin that is
\* not allowed, which differs as well, has no Vary (routes.go:359).
CORSAnswered ==
    (answer # None /\ answer.by \notin {"none", "static_response"}) =>
       /\ cors.origin = IF ~Ann.enableCORS THEN ""
                        ELSE IF StarAlone THEN "*"
                        ELSE IF Len(NonBlank(Ann.origins)) = 1
                             THEN NonBlank(Ann.origins)[1]
                        ELSE IF OriginAllowed THEN Req.origin ELSE ""
       /\ (StarAlone \/ "*" \notin Said(Ann.origins)) =>
             (cors.creds <=> (Ann.allowCreds /\ cors.origin \notin {"", "*"}))
       /\ cors.origin # "" => (cors.vary <=> cors.origin # "*")

Enabled(w) == w \in {"on", "detection"}

Readable(o) == o.found /\ o.key

Bcrypt(o) == {l \in Elems(o.lines) : l.hash = "bcrypt" /\ l.user \notin {"", "#"}}

\* The documented order (routes.go:185).  A Secret or ConfigMap that cannot be read
\* leaves its check out (annotations.go:644, annotations.go:663).
Required ==
    If(Ann.basicAuth /\ Readable(case.objs.auth) /\ Bcrypt(case.objs.auth) # {},
       "authentication")
    \o If(limit > 0, "request_body")
    \o If(Ann.limitRPS # <<>> /\ Ann.limitRPS[1] > 0, "rate_limit")
    \o If(Ann.rewriteTarget # "", "rewrite")
    \o If(case.sec.securityHeaders /\ case.ing.tls, "security_headers")
    \o If(\E i \in DOMAIN Ann.responseHeaders : TRUE, "response_headers")
    \o If(Enabled(Ann.waf) \/ (case.sec.waf /\ Ann.waf # "off"), "waf")
    \o If(Ann.authPolicy /\ Readable(case.objs.policy)
          /\ case.objs.policy.lines = <<"handler">>, "policy")

\* The limit in bytes: parseBodySize does not look whether the product fits in an
\* int64.
\* Less than a byte is no limit.
Bytes == LET size == Ann.bodySize[1] IN size.n[1] * UnitSize[size.unit]

Fits == -IntLimit <= Bytes /\ Bytes < IntLimit

TooLarge == Bytes > 0 /\ Req.size > Bytes

\* annotations.go:226, "SecRuleEngine is applied last and cannot be overridden
\* here": only the removal of the rule lets an attack pass a WAF that blocks.
Blocking == Ann.waf = "on" \/ (case.sec.waf /\ case.sec.wafMode = "On"
                               /\ Ann.waf \notin {"off", "detection"})

Removed ==
    /\ Ann.wafRules /\ Readable(case.objs.rules)
    /\ "SecRuleRemoveById" \in Elems(case.objs.rules.lines)

\* routes.go:548, an annotation "overrides same-named built-in headers"; spelled
\* in another case it may or may not.
Forwarded ==
    \A i \in DOMAIN Ann.requestHeaders :
       LET h == Ann.requestHeaders[i]
       IN  /\ h.op = "delete" => Canonical(h.name) \notin DOMAIN answer.headers
           /\ (/\ h.op = "set" /\ h.name = Canonical(h.name)
               /\ \A j \in DOMAIN Ann.requestHeaders :
                     j = i \/ Canonical(Ann.requestHeaders[j].name) # h.name) =>
                 answer.headers[h.name] = h.value

\* A request that reaches the backend has passed every check that the annotations
\* ask for and that could be read, in the documented order, authenticated and not
\* an attack that is to be blocked; and the backend gets the
\* headers that were asked for.
Inspected ==
    (answer # None /\ answer.by = "reverse_proxy") =>
       /\ passed = Required
       /\ "authentication" \in Elems(passed) =>
             \E l \in Bcrypt(case.objs.auth) : l.user = Req.user
       /\ (Blocking /\ ~Removed) => ~Req.attack
       /\ Forwarded

\* annotations.go:50, "Maximum allowed request body size": where the limit is one
\* that an int64 can hold, a body is refused if and only if it is larger.
BodyLimited ==
    /\ (answer # None /\ answer.by = "request_body") =>
          Ann.bodySize # <<>> /\ (Fits => TooLarge)
    /\ (answer # None /\ answer.by = "reverse_proxy" /\ Ann.bodySize # <<>> /\ Fits) =>
          ~TooLarge

\* README.md:25, "Supports pathType: Prefix, Exact": a prefix covers whole
\* segments.  Two paths are left out that the code takes otherwise: an exact "/"
\* matches everything, and a prefix that ends in "/" not the path without.
Covers(p, path) ==
    IF p.type = "Exact" THEN p.path = path
    ELSE /\ Len(p.path.segs) <= Len(path.segs)
         /\ SubSeq(path.segs, 1, Len(p.path.segs)) = p.path.segs

Regular(p) == IF p.type = "Exact" THEN p.path # Root ELSE p.path.dir => p.path = Root

Covering ==
    {i \in DOMAIN TheRule.paths :
        TheRule.paths[i].service # "" /\ Covers(TheRule.paths[i], Req.path)}

\* The backend is that of the first path of the rule, as listed, that covers the
\* request; without one nobody answers.  What is not for the Ingress does not get
\* to a backend of it.  Where the code narrows a rule without host down to the
\* aliases, against README.md:523, it is left open what the other hosts get.
Routed ==
    /\ (answer # None /\ answer.by = "reverse_proxy") => Addressed
    /\ (/\ answer # None /\ Concerned /\ Admitted
        /\ \A i \in DOMAIN TheRule.paths : Regular(TheRule.paths[i])) =>
          /\ answer.by = "reverse_proxy" =>
                /\ Covering # {}
                /\ answer.upstream = TheRule.paths[First(Covering)].service
          /\ answer.by = "none" => Covering = {}
=============================================================================
