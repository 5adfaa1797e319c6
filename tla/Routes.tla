------------------------------- MODULE Routes -------------------------------
(***************************************************************************)
(* The routes that convertIngress and httpRedirectRoutes make of an        *)
(* Ingress (routes.go).  Identifiers are the business of                   *)
(* IngressController; here it matters what a route matches and what it     *)
(* does.                                                                   *)
(*                                                                         *)
(* An Ingress has rules of a host ("" for any) and paths; a path is its    *)
(* segments and whether it ends in "/".  sec is the SecurityConfig, a what *)
(* ResolveAnnotations returns.                                             *)
(***************************************************************************)
EXTENDS Annotations

-----------------------------------------------------------------------------
(* Matchers, routes and handlers *)

\* A matcher: no condition on a part that is {}; client outside of notIn,
\* inside of in.
Nil == [host |-> {}, path |-> {}, method |-> {}, origin |-> {},
        in |-> {}, notIn |-> {}]

Route(match, handle, terminal) ==
    [handler |-> "route", match |-> match, handle |-> handle,
     terminal |-> terminal]

Subroute(routes) == [handler |-> "subroute", routes |-> routes]

StaticResponse(status) == [handler |-> "static_response", status |-> status]

-----------------------------------------------------------------------------
(* Paths *)

Root == [segs |-> <<>>, dir |-> TRUE]

\* What lies under a path only: the path itself is left out.
BugConvertPath(path, type) ==
    IF path = Root THEN {}
    ELSE IF type = "Exact" THEN {[path |-> path, glob |-> FALSE]}
    ELSE {[path |-> path, glob |-> TRUE]}

\* convertPath: a glob stands for path/* (or path* if it ends in "/").
ConvertPath(path, type) ==
    IF path = Root THEN {}
    ELSE IF type = "Exact" THEN {[path |-> path, glob |-> FALSE]}
    ELSE IF path.dir THEN {[path |-> path, glob |-> TRUE]}
    ELSE {[path |-> path, glob |-> FALSE], [path |-> path, glob |-> TRUE]}

-----------------------------------------------------------------------------
(* Handlers *)

\* corsResponseHandler; creds comes with it, and Vary unless the origin is "*".
CORSResponse(cors, dynamic) ==
    [handler |-> "cors",
     origin |-> IF dynamic THEN "{http.request.header.Origin}" ELSE cors.origins[1],
     vary |-> dynamic \/ cors.origins[1] # "*",
     creds |-> cors.creds]

\* wafHandler: the engine is set before and after the directives of the
\* Ingress, which find the rules defined.
BugWafHandler(mode, directives) ==
    [handler |-> "waf",
     directives |-> <<"SecRuleEngine DetectionOnly", "Include @owasp_crs">>
                    \o <<IF mode = "On" THEN "SecRuleEngine On"
                                        ELSE "SecRuleEngine DetectionOnly">>
                    \o directives]

WafHandler(mode, directives) ==
    [handler |-> "waf",
     directives |-> <<"SecRuleEngine DetectionOnly", "Include @owasp_crs">>
                    \o directives
                    \o <<IF mode = "On" THEN "SecRuleEngine On"
                                        ELSE "SecRuleEngine DetectionOnly">>]

\* The request headers of reverseProxyHandler: an annotation of the same name,
\* spelled alike, replaces what the app sets.
With(f, g) == [n \in DOMAIN f \cup DOMAIN g |-> IF n \in DOMAIN g THEN g[n] ELSE f[n]]

RequestHeaders(sec, a, plainHTTP) ==
    LET realIP == [n \in IF sec.injectRealIP
                         THEN {"X-Forwarded-For", "X-Forwarded-Proto"} ELSE {} |->
                     IF n = "X-Forwarded-For" THEN "client_ip"
                     ELSE IF plainHTTP THEN "http" ELSE "https"]
        vhost == [n \in IF a.upstreamVhost # "" THEN {"Host"} ELSE {} |->
                     a.upstreamVhost]
        prefix == [n \in IF a.xForwardedPrefix # "" THEN {"X-Forwarded-Prefix"}
                                                    ELSE {} |-> a.xForwardedPrefix]
    IN  With(With(With(realIP, vhost), prefix), a.requestHeaders.set)

ReverseProxy(upstream, sec, a, plainHTTP) ==
    [handler |-> "reverse_proxy", upstream |-> upstream,
     set |-> RequestHeaders(sec, a, plainHTTP),
     delete |-> a.requestHeaders.delete]

WafEnabled(sec, a) == IF a.waf # <<>> THEN a.waf[1] ELSE sec.waf

WafMode(sec, a) == IF a.waf # <<>> /\ a.waf[2] # "" THEN a.waf[2] ELSE sec.wafMode

\* The handlers in front of the proxy, in the order in which they are appended;
\* each is there under its condition.
If(condition, handler) == IF condition THEN <<handler>> ELSE <<>>

BasicAuthHandler(accounts) == [handler |-> "authentication", accounts |-> accounts]

RateLimitHandler(rps) == [handler |-> "rate_limit", rps |-> rps]

SecurityHeadersHandler == [handler |-> "security_headers"]

ResponseHeadersHandler(headers) ==
    [handler |-> "response_headers", headers |-> headers]

Checks(sec, a, plainHTTP) ==
    If(a.basicAuth # <<>>, BasicAuthHandler(a.basicAuth))
    \o If(a.maxBodySize > 0, [handler |-> "request_body", max |-> a.maxBodySize])
    \o If(a.limitRPS > 0, RateLimitHandler(a.limitRPS))
    \o If(a.rewriteTarget # "", [handler |-> "rewrite", uri |-> a.rewriteTarget])
    \o If(sec.securityHeaders /\ ~plainHTTP, SecurityHeadersHandler)
    \o If(~NoHeaders(a.responseHeaders), ResponseHeadersHandler(a.responseHeaders))
    \o If(WafEnabled(sec, a), WafHandler(WafMode(sec, a), a.wafDirectives))
    \o If(a.authPolicy # <<>>, [handler |-> "policy"])

BuildCoreHandlers(upstream, sec, a, plainHTTP, withCORS, dynamic) ==
    (IF withCORS /\ a.cors # <<>> THEN <<CORSResponse(a.cors[1], dynamic)>>
                                  ELSE <<>>)
    \o (Checks(sec, a, plainHTTP) \o <<ReverseProxy(upstream, sec, a, plainHTTP)>>)

Redirects(a) == a.permanentRedirect # "" \/ a.temporalRedirect # ""

RedirectStatus(a) ==
    IF a.redirectCode > 0 THEN a.redirectCode
    ELSE IF a.temporalRedirect # "" THEN 302 ELSE 301

\* One list for every origin, echoing whichever comes.
BugBuildHandlers(upstream, sec, a, plainHTTP) ==
    IF Redirects(a) THEN <<StaticResponse(RedirectStatus(a))>>
    ELSE BuildCoreHandlers(upstream, sec, a, plainHTTP, a.cors # <<>>,
                           a.cors # <<>> /\ Len(a.cors[1].origins) > 1)

\* buildHandlers: with several origins, those of the list have a chain of their
\* own.
BuildHandlers(upstream, sec, a, plainHTTP) ==
    IF Redirects(a) THEN <<StaticResponse(RedirectStatus(a))>>
    ELSE IF a.cors # <<>> /\ Len(a.cors[1].origins) > 1
    THEN <<Subroute(<<
             Route([Nil EXCEPT !.origin = Elems(a.cors[1].origins)],
                   BuildCoreHandlers(upstream, sec, a, plainHTTP, TRUE, TRUE), TRUE),
             Route(Nil,
                   BuildCoreHandlers(upstream, sec, a, plainHTTP, FALSE, FALSE), TRUE)>>)>>
    ELSE BuildCoreHandlers(upstream, sec, a, plainHTTP, a.cors # <<>>, FALSE)

-----------------------------------------------------------------------------
(* Routes *)

BuildIPGuardRoutes(a) ==
    If(a.whitelist # <<>>,
       Route([Nil EXCEPT !.notIn = Elems(a.whitelist)], <<StaticResponse(403)>>, TRUE))
    \o If(a.blocklist # <<>>,
          Route([Nil EXCEPT !.in = Elems(a.blocklist)], <<StaticResponse(403)>>, TRUE))

\* The method alone decides.
BugCorsPreflightRoute(cors) ==
    Route([Nil EXCEPT !.method = {"OPTIONS"}],
          <<CORSResponse(cors, Len(cors.origins) > 1), StaticResponse(204)>>, TRUE)

CorsPreflightRoute(cors) ==
    Route([Nil EXCEPT !.method = {"OPTIONS"},
                      !.origin = IF Wildcard(cors) THEN {} ELSE Elems(cors.origins)],
          <<CORSResponse(cors, Len(cors.origins) > 1), StaticResponse(204)>>, TRUE)

\* The paths of a rule that have a Service behind them.
Served(rule) == Keep(rule.paths, {p \in Elems(rule.paths) : p.service # ""})

PathRoutes(ing, rule, sec, a) ==
    [i \in DOMAIN Served(rule) |->
        LET p == Served(rule)[i]
        IN  Route([Nil EXCEPT !.path = ConvertPath(p.path, p.type)],
                  BuildHandlers(p.service, sec, a, ~ing.tls), FALSE)]

\* The guards come after the preflight.
BugRuleRoutes(ing, rule, sec, a) ==
    (IF a.cors # <<>> THEN <<CorsPreflightRoute(a.cors[1])>> ELSE <<>>)
    \o BuildIPGuardRoutes(a)
    \o PathRoutes(ing, rule, sec, a)

RuleRoutes(ing, rule, sec, a) ==
    BuildIPGuardRoutes(a)
    \o (IF a.cors # <<>> THEN <<CorsPreflightRoute(a.cors[1])>> ELSE <<>>)
    \o PathRoutes(ing, rule, sec, a)

\* A rule without a path that has a Service makes no route.
RuleRoute(ing, rule, sec, a) ==
    LET all == RuleRoutes(ing, rule, sec, a)
        alone == Len(all) = 1 /\ all[1].match = Nil /\ BuildIPGuardRoutes(a) = <<>>
        hosts == ({rule.host} \ {""}) \cup Elems(a.serverAliases)
    IN  Route([Nil EXCEPT !.host = hosts],
              IF alone THEN all[1].handle ELSE <<Subroute(all)>>, TRUE)

ConvertIngress(ing, sec, a) ==
    LET rules == Keep(ing.rules, {r \in Elems(ing.rules) : r.http /\ Served(r) # <<>>})
    IN  [i \in DOMAIN rules |-> RuleRoute(ing, rules[i], sec, a)]

HttpRedirectRoutes(ing) ==
    LET rules == Keep(ing.rules, {r \in Elems(ing.rules) : r.host # ""})
    IN  [i \in DOMAIN rules |->
            Route([Nil EXCEPT !.host = {rules[i].host}], <<StaticResponse(301)>>, TRUE)]
=============================================================================
