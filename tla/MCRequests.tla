----------------------------- MODULE MCRequests -----------------------------
(* Requests for TLC: Ingresses and requests in groups, one for each question. *)
EXTENDS Requests

Addresses == [lan |-> {"in"}, host |-> {"in", "bad"}]

MCHostsOf == [p \in {"*.h"} |-> {"x.h"}]
MCOriginsOf == [p \in {"*.b"} |-> {"x.b"}]

Path(segs, dir) == [segs |-> segs, dir |-> dir]
A == Path(<<"a">>, FALSE)
OnPath(path, type, service) == [path |-> path, type |-> type, service |-> service]
Rule(host, paths) == [host |-> host, http |-> TRUE, paths |-> paths]

Plain == [tls |-> TRUE, rules |-> <<Rule("h", <<OnPath(A, "Prefix", "s1")>>)>>]

Bare == [whitelist |-> <<>>, blocklist |-> <<>>, sslRedirect |-> FALSE,
         permanentRedirect |-> "", temporalRedirect |-> "", redirectCode |-> <<>>,
         rewriteTarget |-> "", serverAlias |-> <<>>, limitRPS |-> <<>>,
         enableCORS |-> FALSE, origins |-> <<>>, allowCreds |-> FALSE,
         requestHeaders |-> <<>>, responseHeaders |-> <<>>, waf |-> "",
         wafRules |-> FALSE, bodySize |-> <<>>, xForwardedPrefix |-> "",
         upstreamVhost |-> "", basicAuth |-> FALSE, authPolicy |-> FALSE]

Absent == [found |-> FALSE, key |-> FALSE, lines |-> <<>>]
NoKey == [Absent EXCEPT !.found = TRUE]
Holding(lines) == [found |-> TRUE, key |-> TRUE, lines |-> lines]
Missing == [rules |-> Absent, policy |-> Absent, auth |-> Absent]

Lax == [waf |-> FALSE, wafMode |-> "Detection", securityHeaders |-> FALSE,
        injectRealIP |-> FALSE]

Get == [ip |-> "in", method |-> "GET", host |-> "h", https |-> TRUE, origin |-> "",
        path |-> A, size |-> 1, user |-> "", attack |-> FALSE]

Case(ing, ann, objs, sec, req) ==
    [ing |-> ing, ann |-> ann, objs |-> objs, sec |-> sec, req |-> req]

Set(n, v) == [op |-> "set", name |-> n, value |-> v]

\* Who gets in, and what a preflight gets.
Access ==
    {Case([Plain EXCEPT !.tls = t],
          [Bare EXCEPT !.whitelist = w, !.blocklist = b, !.enableCORS = e,
                       !.origins = o, !.allowCreds = e, !.permanentRedirect = r,
                       !.redirectCode = IF s THEN <<308>> ELSE <<99>>,
                       !.sslRedirect = s, !.limitRPS = <<5>>],
          Missing, Lax,
          [Get EXCEPT !.ip = ip, !.method = m, !.origin = from, !.https = h]) :
        t \in BOOLEAN, w \in {<<>>, <<"">>, <<"lan", "">>}, b \in {<<>>, <<"host">>},
        e \in BOOLEAN, o \in {<<>>, <<"A">>, <<"A", "", "*.b">>, <<"*", "B">>},
        r \in {"", "url"}, s \in BOOLEAN, ip \in {"in", "bad", "out"},
        m \in {"GET", "OPTIONS"}, from \in {"", "A", "x.b", "C"}, h \in BOOLEAN}

\* What ConfigMaps and Secrets bring.
Lookups ==
    {Case(Plain, [Bare EXCEPT !.basicAuth = ba, !.authPolicy = ap, !.enableCORS = e,
                              !.origins = <<"A", "B">>, !.temporalRedirect = r],
          [Missing EXCEPT !.auth = auth, !.policy = policy], Lax,
          [Get EXCEPT !.user = u, !.origin = from]) :
        ba \in BOOLEAN, ap \in BOOLEAN, e \in BOOLEAN, r \in {"", "url"},
        auth \in {Absent, NoKey, Holding(<<[user |-> "bob", hash |-> "md5"]>>),
                  Holding(<<[user |-> "#", hash |-> "bcrypt"],
                            [user |-> "bob", hash |-> "md5"],
                            [user |-> "ann", hash |-> "bcrypt"]>>)},
        policy \in {Absent, NoKey, Holding(<<"no JSON">>), Holding(<<"null">>),
                    Holding(<<"handler">>)},
        u \in {"", "ann", "bob"}, from \in {"", "A", "C"}}

Attacks ==
    {Case(Plain, [Bare EXCEPT !.waf = w, !.wafRules = wr, !.authPolicy = TRUE],
          [Missing EXCEPT !.rules = rules, !.policy = Holding(<<"handler">>)],
          [Lax EXCEPT !.waf = sw, !.wafMode = sm], [Get EXCEPT !.attack = x]) :
        w \in {"", "off", "on", "detection", "unknown"}, wr \in BOOLEAN,
        rules \in {Absent, NoKey, Holding(<<"", "#">>), Holding(<<"SecRuleEngine Off">>),
                   Holding(<<"#", "SecRuleRemoveById">>)},
        sw \in BOOLEAN, sm \in {"Detection", "On"}, x \in BOOLEAN}

\* Limits, up to the width of the integers.
Sizes ==
    {Case([Plain EXCEPT !.tls = t],
          [Bare EXCEPT !.bodySize = <<[n |-> <<n>>, unit |-> u]>>, !.limitRPS = l,
                       !.rewriteTarget = rw, !.responseHeaders = rh],
          Missing, [Lax EXCEPT !.securityHeaders = sh],
          [Get EXCEPT !.size = size, !.https = t]) :
        t \in BOOLEAN, n \in {-3, -1, 0, 1, 2, 5, 127, 200}, u \in Units, l \in {<<>>, <<-1>>, <<5>>},
        rw \in {"", "/x"}, rh \in {<<>>, <<Set("X-Frame-Options", "DENY")>>},
        sh \in BOOLEAN, size \in {0, 1, 3, 17, 65, 200}}

HeaderParts == {Set("X-Forwarded-For", "v"), Set("X-Forwarded-For", "w"),
                Set("x-forwarded-for", "x"), Set("Host", "y"),
                [op |-> "delete", name |-> "X-Forwarded-For", value |-> ""]}

Headers ==
    {Case([Plain EXCEPT !.tls = t],
          [Bare EXCEPT !.requestHeaders = hs, !.upstreamVhost = v, !.xForwardedPrefix = p],
          Missing, [Lax EXCEPT !.injectRealIP = i], [Get EXCEPT !.https = t]) :
        t \in BOOLEAN, v \in {"", "inner"}, p \in {"", "/p"}, i \in BOOLEAN,
        hs \in {<<>>} \cup {<<x>> : x \in HeaderParts}
               \cup {<<x, y>> : x, y \in HeaderParts}}

Paths == {Root, A, Path(<<"a">>, TRUE), Path(<<"a", "b">>, FALSE), Path(<<"ab">>, FALSE)}

OnPaths(service) == {OnPath(p, type, service) : p \in Paths, type \in {"Prefix", "Exact"}}

PathLists ==
    {<<>>} \cup {<<x>> : x \in OnPaths("s1")}
    \cup {<<x, y>> : x \in OnPaths("s1"), y \in OnPaths("s2")}
    \cup {<<OnPath(A, "Prefix", ""), y>> : y \in OnPaths("s2")}

\* Hosts and paths.
Routing ==
    {Case([tls |-> TRUE, rules |-> rules], [Bare EXCEPT !.serverAlias = alias],
          Missing, Lax, [Get EXCEPT !.host = host, !.path = path]) :
        rules \in {<<Rule("h", ps)>> : ps \in PathLists}
                  \cup {<<Rule(h, ps), Rule("g", <<OnPath(Root, "Prefix", "s3")>>)>> :
                          h \in {"", "h", "*.h"}, ps \in {<<>>, <<OnPath(A, "Exact", "s1")>>}},
        alias \in {<<>>, <<"x", "">>, <<"*.h">>}, host \in {"h", "g", "x", "x.h"},
        path \in Paths \cup {Path(<<"a", "b", "c">>, FALSE)}}

AllCases == {Access, Lookups, Attacks, Sizes, Headers, Routing}
=============================================================================
