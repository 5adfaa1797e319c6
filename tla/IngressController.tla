------------------------- MODULE IngressController -------------------------
(***************************************************************************)
(* The k8s_ingress app of caddy-k8s (app.go, admin.go, store.go and the    *)
(* route identities of routes.go): an informer feeds Ingress events to     *)
(* handleAdd and handleDelete, which bring the routes of the running Caddy *)
(* configuration in line with the cluster through the admin API.           *)
(*                                                                         *)
(* What makes it hard: every admin request that changes the configuration  *)
(* makes Caddy reload it, and a reload replaces this very app: a new       *)
(* instance is provisioned and started, the old one is stopped and its     *)
(* context cancelled while it is still waiting for the answer.  A handler  *)
(* therefore makes at most one change in its life, and all the rest of     *)
(* its work is left to instances that start over from the cluster and from *)
(* what Redis remembers.                                                   *)
(*                                                                         *)
(* The model follows the Ingresses for which handleAdd has only routes to  *)
(* look after: no WAF ConfigMap, certificate, access log or automation     *)
(* policy (those calls are components of their own).                       *)
(***************************************************************************)
EXTENDS Naturals, Sequences, FiniteSets

CONSTANTS
    Keys,             \* Ingress keys, "namespace/name"
    Hosts,            \* hosts a rule may name
    AnyHost,          \* the empty host of a rule without one
    Backends,         \* what the handler chain of a rule can be
    RejectedBackends, \* chains that Caddy refuses to load
    ServerNeutral,    \* chains that are the same with and without spec.tls
    NoBackend,        \* a rule with no path to a Service
    HTTPSRedirect,    \* the handler of an ssl-redirect route
    IngressSpecs,     \* the Ingresses users may apply
    KeyLabels,        \* a key's namespace and name, split at "-"
    HostLabels,       \* a host, split at "-" and "."
    HTTPServer,       \* is there a server on port 80?
    Persistent,       \* is Redis configured?
    Patient,          \* do users wait for the controller to settle?
    MaxChanges,       \* bound: user actions
    MaxFaults,        \* bound: failed calls and missed watch events
    MaxReloads,       \* bound: reloads and crashes not of the app's making
    MaxLate,          \* bound: requests that outlive their instance
    None,             \* no Ingress, no job
    Absent            \* no route

Rules == [host: Hosts, backend: Backends \cup {NoBackend}]

ASSUME SpecsAssumption ==
    /\ IngressSpecs \subseteq [ours: BOOLEAN, tls: BOOLEAN,
                               sslRedirect: BOOLEAN, rules: Seq(Rules)]
    /\ None \notin IngressSpecs

ASSUME BackendsAssumption ==
    /\ RejectedBackends \subseteq Backends
    /\ ServerNeutral \subseteq Backends
    /\ NoBackend \notin Backends
    /\ HTTPSRedirect \notin Backends

ASSUME KeysAssumption == IsFiniteSet(Keys)

ASSUME FlagsAssumption ==
    /\ HTTPServer \in BOOLEAN
    /\ Persistent \in BOOLEAN
    /\ Patient \in BOOLEAN

ASSUME BoundsAssumption ==
    /\ MaxChanges \in Nat
    /\ MaxFaults \in Nat
    /\ MaxReloads \in Nat
    /\ MaxLate \in Nat

-----------------------------------------------------------------------------
(* What an Ingress asks for. *)

\* Definitions named Bug... are not the code: each changes the definition that
\* follows it the way a slip in the code would, and a property must notice.

\* Identifiers made from the host alone.
BugRouteId(k, h) == HostLabels[h]

\* routeID joins namespace, name and host with "-" after replacing each "."
\* of the host by "-": the identifier is exactly the sequence of labels.
RouteId(k, h) == KeyLabels[k] \o HostLabels[h]

RedirectId(k, h) == RouteId(k, h) \o <<"http", "redirect">>

IdsOf(k) == {RouteId(k, h) : h \in Hosts} \cup {RedirectId(k, h) : h \in Hosts}

RouteIds == UNION {IdsOf(k) : k \in Keys}

Bodies == [host: Hosts, backend: Backends \cup {HTTPSRedirect}, plain: BOOLEAN]

Routes == [server: {"http", "https"}, body: Bodies]

ASSUME RoutesAssumption == Absent \notin Routes

\* targetServer not reassigned for a plain HTTP Ingress.
BugRouteOf(ing, r) ==
    [server |-> "https",
     body   |-> [host    |-> r.host,
                 backend |-> r.backend,
                 plain   |-> ~ing.tls /\ r.backend \notin ServerNeutral]]

\* The route of rule r: handlers differ between the two servers (security
\* headers, X-Forwarded-Proto) unless its chain is server neutral.
RouteOf(ing, r) ==
    [server |-> IF ing.tls THEN "https" ELSE "http",
     body   |-> [host    |-> r.host,
                 backend |-> r.backend,
                 plain   |-> ~ing.tls /\ r.backend \notin ServerNeutral]]

\* The 301 that ssl-redirect adds on the HTTP server.
RedirectOf(r) ==
    [server |-> "http",
     body   |-> [host |-> r.host, backend |-> HTTPSRedirect, plain |-> FALSE]]

\* The identifiers convertIngress gives to the routes of ing.
NewIDs(k, ing) ==
    {RouteId(k, ing.rules[i].host) :
        i \in {j \in DOMAIN ing.rules : ing.rules[j].backend # NoBackend}}

Redirects(ing) == ing.sslRedirect /\ HTTPServer

Servable(ing) == ing.tls \/ HTTPServer

-----------------------------------------------------------------------------
VARIABLES
    api,      \* the cluster: each key's Ingress, or None
    config,   \* Caddy's live configuration: each @id's route, or Absent
    store,    \* Redis: each key's route IDs, {} when there is no entry
    durable,  \* the running instance writes to Redis
    routeIDs, \* App.routeIDs of the running instance, {} when no entry
    queue,    \* informer events not handled yet
    pc,       \* where the running instance is
    job,      \* the handler call in progress, or None
    late,     \* admin requests of stopped instances, not processed yet
    synced,   \* history: what handleAdd last logged as synced
    left      \* what remains of the bounds

instance == <<durable, routeIDs, queue, pc, job, synced>>
vars == <<api, config, store, instance, late, left>>

Requests == [id: RouteIds, route: Routes \cup {Absent}]

Events == [type: {"apply", "delete", "tombstone"},
           key: Keys, ing: IngressSpecs]

\* n: the rule upsertRoute is at; attempt: its retry counter; todo: the IDs
\* still to delete; failed (history): the IDs upsertRoute gave up.
Jobs == [key: Keys, ing: IngressSpecs, n: Nat \ {0}, attempt: 0..2,
         todo: SUBSET RouteIds, failed: SUBSET RouteIds]

\* What "synced ingress" is logged of: the Ingress, the IDs upsertRoute gave
\* up, and whether the store took the entry.
Syncs == [ing: IngressSpecs, failed: SUBSET RouteIds, saved: BOOLEAN]

Working == {"redirect", "stale", "main", "commit", "delete"}

TypeOK ==
    /\ api \in [Keys -> IngressSpecs \cup {None}]
    /\ config \in [RouteIds -> Routes \cup {Absent}]
    /\ store \in [Keys -> SUBSET RouteIds]
    /\ durable \in BOOLEAN
    /\ routeIDs \in [Keys -> SUBSET RouteIds]
    /\ queue \in Seq(Events)
    /\ pc \in {"restore", "list", "idle"} \cup Working
    /\ IF pc \in Working THEN job \in Jobs ELSE job = None
    /\ late \in SUBSET Requests
    /\ synced \in [Keys -> Syncs \cup {None}]
    /\ left \in [changes: Nat, faults: Nat, reloads: Nat, late: Nat]

Init ==
    /\ api \in [Keys -> IngressSpecs \cup {None}]
    /\ config = [id \in RouteIds |-> Absent]
    /\ store = [k \in Keys |-> {}]
    /\ durable = FALSE
    /\ routeIDs = [k \in Keys |-> {}]
    /\ queue = <<>>
    /\ pc = "restore"
    /\ job = None
    /\ late = {}
    /\ synced = [k \in Keys |-> None]
    /\ left = [changes |-> MaxChanges, faults |-> MaxFaults,
               reloads |-> MaxReloads, late |-> MaxLate]

-----------------------------------------------------------------------------
(* Reloads.  A new instance has an empty App; the events, the handler call *)
(* and the ownership map of the old one are gone.                          *)

Restart ==
    /\ pc' = "restore"
    /\ job' = None
    /\ queue' = <<>>
    /\ routeIDs' = [k \in Keys |-> {}]
    /\ synced' = [k \in Keys |-> None]
    /\ UNCHANGED durable

Fault == left.faults > 0 /\ left' = [left EXCEPT !.faults = @ - 1]

\* An admin request: DELETE /id/<id> when its route is Absent, otherwise a
\* POST to the server's routes.
Delete(id) == [id |-> id, route |-> Absent]

\* Caddy answers an error, and keeps what it runs, when there is nothing to
\* delete, when the @id is taken and when the new configuration does not load.
Accepted(q) ==
    IF q.route = Absent
    THEN config[q.id] # Absent
    ELSE /\ config[q.id] = Absent
         /\ q.route.body.backend \notin RejectedBackends

\* The request changes the configuration and Caddy reloads.
Land(q) ==
    /\ Accepted(q)
    /\ config' = [config EXCEPT ![q.id] = q.route]
    /\ Restart

-----------------------------------------------------------------------------
(* Start of an instance: Provision, Start and run. *)

\* An instance that forgets to load what Redis remembers.
BugRestore ==
    /\ pc = "restore"
    /\ pc' = "list"
    /\ durable' = Persistent
    /\ UNCHANGED <<api, config, store, routeIDs, queue, job, late, synced, left>>

\* loadAll skips the keys it cannot read.
LoadAll(lost) == [k \in Keys |-> IF k \in lost THEN {} ELSE store[k]]

\* save and remove; the store in memory keeps nothing for the next instance.
Stored(k, ids) == IF durable THEN [store EXCEPT ![k] = ids] ELSE store

\* Redis answers, or fails the ping of Provision (the instance then works in
\* memory), or fails loadAll for some or all of the keys.
Restore ==
    /\ pc = "restore"
    /\ pc' = "list"
    /\ \/ /\ durable' = Persistent
          /\ routeIDs' = IF Persistent THEN LoadAll({}) ELSE routeIDs
          /\ UNCHANGED left
       \/ /\ Persistent
          /\ Fault
          /\ durable' = FALSE
          /\ UNCHANGED routeIDs
       \/ /\ Persistent
          /\ Fault
          /\ durable' = TRUE
          /\ \E lost \in SUBSET Keys : routeIDs' = LoadAll(lost)
    /\ UNCHANGED <<api, config, store, queue, job, late, synced>>

Present == {k \in Keys : api[k] # None}

\* One event for each Ingress of the cluster, in any order.
Listings ==
    LET n == Cardinality(Present)
        orders == {f \in [1..n -> Present] :
                      \A i, j \in 1..n : f[i] = f[j] => i = j}
    IN  {[i \in 1..n |-> [type |-> "apply", key |-> f[i], ing |-> api[f[i]]]] :
            f \in orders}

\* The informer's initial list.
List ==
    /\ pc = "list"
    /\ pc' = "idle"
    /\ queue' \in Listings
    /\ UNCHANGED <<api, config, store, durable, routeIDs, job, late, synced, left>>

\* The informer's periodic resync, once the queue has drained (bound).
Resync ==
    /\ pc \in {"idle"} \cup Working
    /\ queue = <<>>
    /\ queue' \in Listings
    /\ UNCHANGED <<api, config, store, durable, routeIDs, pc, job, late, synced,
                   left>>

-----------------------------------------------------------------------------
(* handleAdd *)

\* An Ingress of another class: handleAdd returns at once.
IgnoreForeign ==
    /\ pc = "idle"
    /\ queue # <<>>
    /\ Head(queue).type = "apply"
    /\ ~Head(queue).ing.ours
    /\ queue' = Tail(queue)
    /\ UNCHANGED <<api, config, store, durable, routeIDs, pc, job, late, synced,
                   left>>

\* All the routes an Ingress had are taken for stale.
BugEnterStale(j) ==
    /\ pc' = "stale"
    /\ job' = [j EXCEPT !.n = 1, !.todo = routeIDs[j.key]]

\* The stale routes are known once the redirects have been upserted.
EnterStale(j) ==
    /\ pc' = "stale"
    /\ job' = [j EXCEPT !.n = 1, !.todo = routeIDs[j.key] \ NewIDs(j.key, j.ing)]

BeginAdd ==
    /\ pc = "idle"
    /\ queue # <<>>
    /\ LET e == Head(queue)
           j == [key |-> e.key, ing |-> e.ing, n |-> 1, attempt |-> 0,
                 todo |-> {}, failed |-> {}]
       IN  /\ e.type = "apply"
           /\ e.ing.ours
           /\ IF Redirects(e.ing)
              THEN pc' = "redirect" /\ job' = j
              ELSE EnterStale(j)
           /\ synced' = [synced EXCEPT ![e.key] = None]
    /\ queue' = Tail(queue)
    /\ UNCHANGED <<api, config, store, durable, routeIDs, late, left>>

\* The two upsert loops, over the redirects and over the routes.
InLoop == pc \in {"redirect", "main"} /\ job.n \in DOMAIN job.ing.rules

Rule == job.ing.rules[job.n]

\* httpRedirectRoutes skips a rule without host, convertIngress one without
\* backend.
Skipped == IF pc = "redirect" THEN Rule.host = AnyHost
                              ELSE Rule.backend = NoBackend

\* The redirect under the identifier of its route.
BugId == RouteId(job.key, Rule.host)

Id == IF pc = "redirect" THEN RedirectId(job.key, Rule.host)
                         ELSE RouteId(job.key, Rule.host)

Wanted == IF pc = "redirect" THEN RedirectOf(Rule) ELSE RouteOf(job.ing, Rule)

NextRule(failed) ==
    job' = [job EXCEPT !.n = @ + 1, !.attempt = 0, !.failed = failed]

SkipRule ==
    /\ InLoop
    /\ Skipped
    /\ NextRule(job.failed)
    /\ UNCHANGED <<api, config, store, durable, routeIDs, queue, pc, late, synced,
                   left>>

Upserting == InLoop /\ ~Skipped

\* getRoute: what Caddy has under the @id.
Current == config[Id]

\* A route is taken for current because it is there.
BugRouteCurrent ==
    /\ Upserting
    /\ Current # Absent
    /\ NextRule(job.failed)
    /\ UNCHANGED <<api, config, store, durable, routeIDs, queue, pc, late, synced,
                   left>>

\* upsertRoute finds the route with the wanted content: no mutation.
RouteCurrent ==
    /\ Upserting
    /\ Current # Absent
    /\ Current.body = Wanted.body
    /\ NextRule(job.failed)
    /\ UNCHANGED <<api, config, store, durable, routeIDs, queue, pc, late, synced,
                   left>>

\* An existing route is always replaced.
BugUpsertRequests ==
    IF ~Upserting THEN {}
    ELSE IF Current = Absent THEN {[id |-> Id, route |-> Wanted]}
    ELSE {Delete(Id)}

\* The change upsertRoute asks for: DELETE an outdated route, POST a missing
\* one.
UpsertRequests ==
    IF ~Upserting THEN {}
    ELSE IF Current = Absent THEN {[id |-> Id, route |-> Wanted]}
    ELSE IF Current.body # Wanted.body THEN {Delete(Id)}
    ELSE {}

\* The change goes through.
UpsertRoute ==
    /\ \E q \in UpsertRequests : Land(q)
    /\ UNCHANGED <<api, store, late, left>>

\* Retrying without end.
BugFailAttempt == UNCHANGED job

\* A failed attempt: upsertRoute makes three, then handleAdd logs the error
\* and goes on with the next route.
FailAttempt ==
    IF job.attempt < 2
    THEN job' = [job EXCEPT !.attempt = @ + 1]
    ELSE NextRule(job.failed \cup {Id})

UpsertRejected ==
    /\ \E q \in UpsertRequests : ~Accepted(q)
    /\ FailAttempt
    /\ UNCHANGED <<api, config, store, durable, routeIDs, queue, pc, late, synced,
                   left>>

UpsertError ==
    /\ Upserting
    /\ Fault
    /\ FailAttempt
    /\ UNCHANGED <<api, config, store, durable, routeIDs, queue, pc, late, synced>>

EndRedirects ==
    /\ pc = "redirect"
    /\ job.n \notin DOMAIN job.ing.rules
    /\ EnterStale(job)
    /\ UNCHANGED <<api, config, store, durable, routeIDs, queue, late, synced, left>>

\* Plain HTTP Ingress, no HTTP server: handleAdd returns, routeIDs as it was.
SkipPlain ==
    /\ pc = "stale"
    /\ job.todo = {}
    /\ ~Servable(job.ing)
    /\ pc' = "idle"
    /\ job' = None
    /\ UNCHANGED <<api, config, store, durable, routeIDs, queue, late, synced, left>>

EndStale ==
    /\ pc = "stale"
    /\ job.todo = {}
    /\ Servable(job.ing)
    /\ pc' = "main"
    /\ UNCHANGED <<api, config, store, durable, routeIDs, queue, job, late, synced,
                   left>>

EndMain ==
    /\ pc = "main"
    /\ job.n \notin DOMAIN job.ing.rules
    /\ pc' = "commit"
    /\ UNCHANGED <<api, config, store, durable, routeIDs, queue, job, late, synced,
                   left>>

\* The last lines of handleAdd: the ownership map, then the store, and the log
\* line "synced ingress", whatever has failed before it.
Commit ==
    /\ pc = "commit"
    /\ pc' = "idle"
    /\ job' = None
    /\ LET ids == NewIDs(job.key, job.ing)
           Sync(saved) == [ing |-> job.ing, failed |-> job.failed, saved |-> saved]
       IN  /\ routeIDs' = [routeIDs EXCEPT ![job.key] = ids]
           /\ \/ /\ store' = Stored(job.key, ids)
                 /\ synced' = [synced EXCEPT ![job.key] = Sync(TRUE)]
                 /\ UNCHANGED left
              \/ /\ durable
                 /\ Fault
                 /\ synced' = [synced EXCEPT ![job.key] = Sync(FALSE)]
                 /\ UNCHANGED store
    /\ UNCHANGED <<api, config, durable, queue, late>>

-----------------------------------------------------------------------------
(* handleDelete, and the deletions of stale routes in handleAdd *)

\* The type assertion fails on a cache.DeletedFinalStateUnknown.
IgnoreTombstone ==
    /\ pc = "idle"
    /\ queue # <<>>
    /\ Head(queue).type = "tombstone"
    /\ queue' = Tail(queue)
    /\ UNCHANGED <<api, config, store, durable, routeIDs, pc, job, late, synced,
                   left>>

\* The IDs leave the ownership map before any of them is deleted.
BeginDelete ==
    /\ pc = "idle"
    /\ queue # <<>>
    /\ LET e == Head(queue)
       IN  /\ e.type = "delete"
           /\ job' = [key |-> e.key, ing |-> e.ing, n |-> 1, attempt |-> 0,
                      todo |-> routeIDs[e.key], failed |-> {}]
           /\ routeIDs' = [routeIDs EXCEPT ![e.key] = {}]
           /\ synced' = [synced EXCEPT ![e.key] = None]
    /\ pc' = "delete"
    /\ queue' = Tail(queue)
    /\ UNCHANGED <<api, config, store, durable, late, left>>

Deleting == pc \in {"stale", "delete"}

DeleteRequests ==
    IF Deleting THEN {Delete(id) : id \in {i \in job.todo : config[i] # Absent}}
                ELSE {}

DeleteRoute ==
    /\ \E q \in DeleteRequests : Land(q)
    /\ UNCHANGED <<api, store, late, left>>

\* deleteRoute does nothing when the route is not there.
DeleteMissing ==
    /\ Deleting
    /\ \E id \in job.todo :
          /\ config[id] = Absent
          /\ job' = [job EXCEPT !.todo = @ \ {id}]
    /\ UNCHANGED <<api, config, store, durable, routeIDs, queue, pc, late, synced,
                   left>>

\* A failed deletion is logged, never repeated.
DeleteError ==
    /\ Deleting
    /\ Fault
    /\ \E id \in job.todo : job' = [job EXCEPT !.todo = @ \ {id}]
    /\ UNCHANGED <<api, config, store, durable, routeIDs, queue, pc, late, synced>>

Forget ==
    /\ pc = "delete"
    /\ job.todo = {}
    /\ pc' = "idle"
    /\ job' = None
    /\ \/ /\ store' = Stored(job.key, {})
          /\ UNCHANGED left
       \/ /\ durable
          /\ Fault
          /\ UNCHANGED store
    /\ UNCHANGED <<api, config, durable, routeIDs, queue, late, synced>>

-----------------------------------------------------------------------------
(* The surroundings: users, reloads from elsewhere, late requests. *)

Settled ==
    /\ pc = "idle"
    /\ queue = <<>>
    /\ late = {}
    /\ \A k \in Keys :
          api[k] # None /\ api[k].ours => synced[k] # None /\ synced[k].ing = api[k]

Watching == pc \notin {"restore", "list"}

UserMayAct ==
    /\ left.changes > 0
    /\ Patient => Settled

\* kubectl apply: the watch delivers it once the informer has listed.
Apply ==
    /\ UserMayAct
    /\ \E k \in Keys, s \in IngressSpecs :
          /\ api[k] # s
          /\ api' = [api EXCEPT ![k] = s]
          /\ queue' = IF Watching
                      THEN Append(queue, [type |-> "apply", key |-> k, ing |-> s])
                      ELSE queue
    /\ left' = [left EXCEPT !.changes = @ - 1]
    /\ UNCHANGED <<config, store, durable, routeIDs, pc, job, late, synced>>

\* kubectl delete.  When the watch was down the informer only finds the
\* object missing, and delivers a tombstone.
Remove ==
    /\ UserMayAct
    /\ \E k \in Present, t \in {"delete", "tombstone"} :
          /\ t = "tombstone" => Watching /\ left.faults > 0
          /\ api' = [api EXCEPT ![k] = None]
          /\ queue' = IF Watching
                      THEN Append(queue, [type |-> t, key |-> k, ing |-> api[k]])
                      ELSE queue
          /\ left' = [left EXCEPT
                        !.changes = @ - 1,
                        !.faults = IF t = "tombstone" THEN @ - 1 ELSE @]
    /\ UNCHANGED <<config, store, durable, routeIDs, pc, job, late, synced>>

Wiped == [id \in RouteIds |-> Absent]

\* Another client's reload stops the instance.  POST /load replaces the whole
\* configuration, a change elsewhere keeps the routes.  The request the
\* instance was waiting for may still be queued at the admin endpoint.
ExternalReload ==
    /\ left.reloads > 0
    /\ config' \in {config, Wiped}
    /\ \/ /\ left' = [left EXCEPT !.reloads = @ - 1]
          /\ UNCHANGED late
       \/ \E q \in UpsertRequests \cup DeleteRequests :
             /\ left.late > 0
             /\ late' = late \cup {q}
             /\ left' = [left EXCEPT !.reloads = @ - 1, !.late = @ - 1]
    /\ Restart
    /\ UNCHANGED <<api, store>>

\* Caddy itself restarts, from its Caddyfile or with --resume.
Crash ==
    /\ left.reloads > 0
    /\ left' = [left EXCEPT !.reloads = @ - 1]
    /\ config' \in {config, Wiped}
    /\ late' = {}
    /\ Restart
    /\ UNCHANGED <<api, store>>

\* The admin endpoint processes a request whose sender is gone.
LateRequest ==
    /\ \E q \in late :
          /\ late' = late \ {q}
          /\ \/ Land(q)
             \/ ~Accepted(q) /\ UNCHANGED <<config, instance>>
    /\ UNCHANGED <<api, store, left>>

-----------------------------------------------------------------------------
HandleAdd ==
    \/ IgnoreForeign
    \/ BeginAdd
    \/ SkipRule
    \/ RouteCurrent
    \/ UpsertRoute
    \/ UpsertRejected
    \/ UpsertError
    \/ EndRedirects
    \/ SkipPlain
    \/ EndStale
    \/ EndMain
    \/ Commit

HandleDelete ==
    \/ IgnoreTombstone
    \/ BeginDelete
    \/ DeleteRoute
    \/ DeleteMissing
    \/ DeleteError
    \/ Forget

Controller == Restore \/ List \/ HandleAdd \/ HandleDelete

Environment == Apply \/ Remove \/ ExternalReload \/ Crash

Next == Controller \/ Resync \/ LateRequest \/ Environment

\* The instance's goroutines keep running, the informer keeps resyncing and
\* the admin endpoint works off what is queued.  Nobody has to fail or act.
Fairness ==
    /\ WF_vars(Controller)
    /\ WF_vars(Resync)
    /\ WF_vars(LateRequest)

Spec == Init /\ [][Next]_vars /\ Fairness
-----------------------------------------------------------------------------
(* Properties *)

\* The rules of ing that convertIngress and httpRedirectRoutes turn into a
\* route.
Routed(ing) == {i \in DOMAIN ing.rules : ing.rules[i].backend # NoBackend}

Redirected(ing) ==
    {i \in DOMAIN ing.rules : Redirects(ing) /\ ing.rules[i].host # AnyHost}

\* Configuration c serves route r under id.  The server is left open for a
\* chain that is server neutral: upsertRoute compares contents, and cannot tell.
Serves(c, id, r) ==
    /\ c[id] # Absent
    /\ c[id].body = r.body
    /\ r.body.backend \notin ServerNeutral => c[id].server = r.server

RouteServed(c, k, ing, i) ==
    Serves(c, RouteId(k, ing.rules[i].host), RouteOf(ing, ing.rules[i]))

RedirectServed(c, k, ing, i) ==
    Serves(c, RedirectId(k, ing.rules[i].host), RedirectOf(ing.rules[i]))

\* handleAdd logs "synced ingress" whatever has failed before (app.go:526-539).
\* What the line is worth: every route and redirect of the Ingress is in Caddy
\* but those upsertRoute has given up, each on the server it belongs to unless
\* its chain is server neutral (Serves); the ownership map holds exactly its
\* route IDs, also those of the routes given up; and so does Redis unless the
\* save failed.  All of it stays true until the handlers turn to the Ingress
\* again or the instance ends.
SyncedInstalled ==
    \A k \in Keys : synced[k] # None =>
        LET s == synced[k]
        IN  /\ \A i \in Routed(s.ing) :
                  \/ RouteId(k, s.ing.rules[i].host) \in s.failed
                  \/ RouteServed(config, k, s.ing, i)
            /\ \A i \in Redirected(s.ing) :
                  \/ RedirectId(k, s.ing.rules[i].host) \in s.failed
                  \/ RedirectServed(config, k, s.ing, i)
            /\ routeIDs[k] = NewIDs(k, s.ing)
            /\ durable /\ s.saved => store[k] = NewIDs(k, s.ing)

\* A route whose content depends on the server is on the server it is for.
WellPlaced(r) ==
    r # Absent =>
        /\ r.body.backend = HTTPSRedirect => r.server = "http"
        /\ r.body.backend \in Backends \ ServerNeutral =>
              r.server = IF r.body.plain THEN "http" ELSE "https"

Placement ==
    /\ \A id \in RouteIds : WellPlaced(config[id])
    /\ \A q \in late : WellPlaced(q.route)

\* What a handleAdd call has been through, and not given up, is in the live
\* configuration, since any change of it would have ended the call: the rules
\* before the current one in a loop, and all of a loop that is over.  It lets
\* upsertRoute trust a comparison made several requests ago.
Progress ==
    pc \in Working \ {"delete"} =>
        /\ \A i \in Redirected(job.ing) :
              (pc # "redirect" \/ i < job.n) =>
                 \/ RedirectId(job.key, job.ing.rules[i].host) \in job.failed
                 \/ RedirectServed(config, job.key, job.ing, i)
        /\ \A i \in Routed(job.ing) :
              (pc = "commit" \/ (pc = "main" /\ i < job.n)) =>
                 \/ RouteId(job.key, job.ing.rules[i].host) \in job.failed
                 \/ RouteServed(config, job.key, job.ing, i)

\* An instance that starts has synced nothing, and a key the handlers are at
\* counts as not synced.
Bookkeeping ==
    /\ pc = "restore" => \A k \in Keys : synced[k] = None
    /\ pc \in Working => synced[job.key] = None
    /\ pc = "stale" => job.n = 1

\* The inductive invariant: SyncedInstalled says nothing about the handler
\* call that is about to establish it, Progress does; and upsertRoute looks at
\* a route's content only, from which Placement gets the server.
SyncInv == TypeOK /\ Placement /\ Progress /\ Bookkeeping /\ SyncedInstalled

\* A step of another client, or of Caddy's own restart.
WholeReload == left'.reloads # left.reloads

\* The identifiers tell Ingresses, hosts and redirects apart, which routeID
\* does not guarantee.
IdsSeparate ==
    \A k, l \in Keys : \A h, g \in Hosts :
       /\ RouteId(k, h) = RouteId(l, g) => k = l /\ h = g
       /\ RedirectId(k, h) = RedirectId(l, g) => k = l /\ h = g
       /\ RouteId(k, h) # RedirectId(l, g)

\* No Ingress has two rules for one host.
HostsDistinct ==
    \A ing \in IngressSpecs : \A i, j \in DOMAIN ing.rules :
       ing.rules[i].host = ing.rules[j].host => i = j

\* The handler call in progress is about key k, with the Ingress as it is now.
Following(k) ==
    pc \in Working \ {"delete"} /\ job.key = k /\ job.ing = api[k]

\* A route or redirect that the cluster asks for and Caddy serves is not taken
\* away (upsertRoute's delete-then-post, the stale deletions) but by a whole
\* reload, by a handler call for that Ingress that is behind the cluster, or
\* by a late request.
WantedKept ==
    [][\A k \in Keys : api[k] # None =>
          LET ing == api[k]
              mayGo(id) == \/ WholeReload
                           \/ pc \in Working /\ job.key = k /\ ~Following(k)
                           \/ Delete(id) \in late
          IN  /\ \A i \in Routed(ing) :
                    RouteServed(config, k, ing, i) =>
                       \/ RouteServed(config', k, ing, i)
                       \/ mayGo(RouteId(k, ing.rules[i].host))
              /\ \A i \in Redirected(ing) :
                    RedirectServed(config, k, ing, i) =>
                       \/ RedirectServed(config', k, ing, i)
                       \/ mayGo(RedirectId(k, ing.rules[i].host))]_vars

\* README.md:717, "other routes are untouched": no route of an Ingress changes
\* but by a whole reload, by a handler call for that Ingress, or by a late
\* request for one of its routes.
OthersUntouched ==
    [][\A k \in Keys :
          (\E id \in IdsOf(k) : config'[id] # config[id]) =>
             \/ WholeReload
             \/ pc \in Working /\ job.key = k
             \/ \E q \in late : q.id \in IdsOf(k)]_vars

\* What Caddy accepts of an Ingress of the class is served.
Served(k) ==
    LET ing == api[k]
    IN  (ing # None /\ ing.ours /\ Servable(ing)) =>
           /\ \A i \in Routed(ing) :
                 \/ ing.rules[i].backend \in RejectedBackends
                 \/ RouteServed(config, k, ing, i)
           /\ \A i \in Redirected(ing) : RedirectServed(config, k, ing, i)

\* Whatever fails, reloads or arrives late, once that stops every route of
\* every Ingress of the class is served for good, whether or not Caddy refuses
\* another one of them.
Converges == <>[](\A k \in Keys : Served(k))

\* admin.go:29: recognising an unchanged route "breaks the infinite-reload
\* loop": the instances stop changing the configuration, and stop restarting.
Quiesces == <>[][config' = config]_vars

\* The routes Caddy has of k, redirects aside.
Live(k) == {id \in {RouteId(k, h) : h \in Hosts} : config[id] # Absent}

\* Updates leave nothing behind: unless a call fails, an Ingress of the class that
\* is still there ends up with no route for a host it no longer names, although
\* each stale route deleted costs the instance its life.  It takes users who wait
\* for one change to be synced before they make the next (Patient): the POST of
\* a route ends the instance before app.go:531 records its ID, so when the host
\* has gone from the Ingress before a later instance gets to record it, nobody
\* knows of the route any more and it stays.
StaleRemoved ==
    (Patient /\ [](left.faults = MaxFaults)) =>
        <>[](\A k \in Keys : (api[k] # None /\ api[k].ours /\ Servable(api[k])) =>
                                Live(k) \subseteq NewIDs(k, api[k]))

\* README.md:717, "on Ingress removal, DELETE /id/<id> is called for each
\* route", and app.go:54, with Redis "stale routes from Ingresses deleted while
\* Caddy was down are cleaned up on next startup": no route that the store
\* remembers of an Ingress that is gone stays in Caddy.
StoredGone ==
    <>[](\A k \in Keys : api[k] = None => Live(k) \cap store[k] = {})

-----------------------------------------------------------------------------
(* The app as a table of routes *)

\* The routes and redirects of version v of k, under their identifiers.
WantsOf ==
    [k \in Keys |-> [v \in IngressSpecs \cup {None} |->
        IF v = None THEN {}
        ELSE {[id |-> RouteId(k, v.rules[i].host), route |-> RouteOf(v, v.rules[i])] :
                 i \in Routed(v)}
             \cup {[id |-> RedirectId(k, v.rules[i].host),
                     route |-> RedirectOf(v.rules[i])] : i \in Redirected(v)}]]

\* What a handler takes an Ingress for when it comes to event e, and what the
\* handler at work takes its own for.
EventVersion(e) == IF e.type = "apply" THEN e.ing ELSE None

JobVersion == IF pc = "delete" THEN None ELSE job.ing

\* The versions of k on their way through the app; other classes are ignored.
VersionsOf(k) ==
    {api[k]}
    \cup {EventVersion(queue[i]) : i \in {j \in DOMAIN queue : queue[j].key = k}}
    \cup (IF pc \in Working /\ job.key = k THEN {JobVersion} ELSE {})

Known == [k \in Keys |-> {v \in VersionsOf(k) : v = None \/ v.ours}]

Owns == [k \in Keys |-> IdsOf(k)]

Table == INSTANCE RouteTable WITH
            Ids <- RouteIds, Versions <- IngressSpecs \cup {None},
            Wants <- WantsOf, Owns <- Owns,
            known <- Known, table <- config, sent <- late

\* README.md:717, "other routes are untouched", and admin.go:27-33: whatever the
\* instances go through, each change of Caddy's routes is one request that a
\* version of an Ingress accounts for which is on its way through the app; no
\* late, repeated or half-done work adds a route that nobody wants, or takes
\* away one as it is wanted.
ImplementsTable == Table!Spec
=============================================================================
