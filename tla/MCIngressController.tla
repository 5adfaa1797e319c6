------------------------ MODULE MCIngressController ------------------------
(***************************************************************************)
(* Small instances of IngressController: two Ingresses, two hosts.         *)
(***************************************************************************)
EXTENDS IngressController

OneKey == {"a/b"}
TwoKeys == {"a/b", "c/d"}

MCKeyLabels == [k \in TwoKeys |-> IF k = "a/b" THEN <<"a", "b">>
                                               ELSE <<"c", "d">>]

OneHost == {"h1"}
TwoHosts == {"h1", "h2"}
AndAny == {"h1", ""}

MCHostLabels == [h \in {"h1", "h2", ""} |-> IF h = "" THEN <<"any">> ELSE <<h>>]

\* "proxy" differs on the two servers, "moved" (permanent-redirect) does not,
\* Caddy refuses "broken".
MCBackends == {"proxy", "moved", "broken"}
MCRejected == {"broken"}
MCNeutral == {"moved"}

Ing(tls, sslRedirect, rules) ==
    [ours |-> TRUE, tls |-> tls, sslRedirect |-> sslRedirect, rules |-> rules]

Foreign == [ours |-> FALSE, tls |-> TRUE, sslRedirect |-> FALSE,
            rules |-> <<[host |-> "h1", backend |-> "proxy"]>>]

On(h, b) == [host |-> h, backend |-> b]

\* The shapes the safety run mixes: both servers, an ssl-redirect, a rule
\* without host.
MixedSpecs ==
    { Ing(TRUE, TRUE, <<On("h1", "proxy")>>),
      Ing(FALSE, FALSE, <<On("", "moved"), On("h1", "proxy")>>) }

\* Updates of one Ingress: hosts come and go, the server and the class change,
\* a chain is refused before another one, a rule has nothing to route.
UpdateSpecs ==
    { Ing(TRUE, FALSE, <<On("h1", "proxy"), On("h2", "proxy")>>),
      Ing(TRUE, FALSE, <<On("h2", "moved")>>),
      Ing(FALSE, FALSE, <<On("h1", "proxy")>>),
      Ing(TRUE, FALSE, <<On("h1", "broken"), On("h2", "proxy")>>),
      Ing(TRUE, FALSE, <<On("h1", "none")>>),
      Foreign }

\* Two hosts, both gone with their Ingress.
TwoHostSpec ==
    { Ing(TRUE, FALSE, <<On("h1", "proxy"), On("h2", "proxy")>>) }
=============================================================================
