----------------------------- MODULE RouteTable -----------------------------
(***************************************************************************)
(* What k8s_ingress promises about the routes of Caddy, whatever becomes   *)
(* of its instances: one request at a time, each of them asked for by a    *)
(* version of an Ingress that the app may still take for the current one.  *)
(* A request posts a route that this version wants, under an @id that is   *)
(* free, or deletes one that it does not want as it is.                    *)
(***************************************************************************)
CONSTANTS
    Keys,     \* Ingress keys
    Ids,      \* identifiers of routes
    Versions, \* what an Ingress can be, None included
    Wants,    \* for each key and version the set of routes, with their identifiers
    Owns,     \* for each key the identifiers that are its own
    Absent    \* no route

VARIABLES
    api,   \* the cluster: each key's version
    known, \* for each key the versions that the app may take for current
    table, \* Caddy's routes
    sent   \* requests that have lost their sender

vars == <<api, known, table, sent>>

Empty == [id \in Ids |-> Absent]

Init ==
    /\ api \in [Keys -> Versions]
    /\ known \in [Keys -> SUBSET Versions]
    /\ \A k \in Keys : known[k] \subseteq {api[k]}
    /\ table = Empty
    /\ sent = {}

-----------------------------------------------------------------------------
\* Version v of k does not want what is under id, or not only that.
Outdated(k, v, id) ==
    {w.route : w \in {x \in Wants[k][v] : x.id = id}} # {table[id]}

\* q is a request in the name of k, as it was in version v.
AskedBy(k, v, q) ==
    \/ q \in Wants[k][v]
    \/ q.id \in Owns[k] /\ q.route = Absent /\ Outdated(k, v, q.id)

Asked(q) == \E k \in Keys : \E v \in known[k] : AskedBy(k, v, q)

\* Caddy takes a new route under a free identifier, and deletes one it has.
Fits(q) == q.id \in Ids /\ (q.route = Absent <=> table[q.id] # Absent)

Result(q) == [table EXCEPT ![q.id] = q.route]

Posts == UNION {UNION {Wants[k][v] : v \in known[k]} : k \in Keys}

Deletes == {[id |-> id, route |-> Absent] : id \in Ids}

-----------------------------------------------------------------------------
\* An Ingress changes, or the app gets past a version of it.
Follow == api' \in [Keys -> Versions] /\ UNCHANGED <<table, sent>>

Write ==
    /\ \E q \in Posts \cup Deletes :
          Asked(q) /\ Fits(q) /\ table' = Result(q)
    /\ UNCHANGED <<api, sent>>

\* Caddy is reloaded by somebody else, who may have a configuration without
\* routes, or restarted; the request that is open may lose its sender.
Reload ==
    /\ table' \in {table, Empty}
    /\ \/ sent' \in {{}, sent}
       \/ \E q \in Posts \cup Deletes : Asked(q) /\ sent' = sent \cup {q}
    /\ UNCHANGED api

Late ==
    /\ \E q \in sent :
          /\ sent' = sent \ {q}
          /\ table' = table \/ (Fits(q) /\ table' = Result(q))
    /\ UNCHANGED api

\* What the app takes for current it has taken for current before, or the
\* cluster says so.
Learn ==
    /\ known' \in [Keys -> SUBSET Versions]
    /\ \A k \in Keys : known'[k] \subseteq known[k] \cup {api'[k]}

Next == Learn /\ (Follow \/ Write \/ Reload \/ Late)

Spec == Init /\ [][Next]_vars
=============================================================================
