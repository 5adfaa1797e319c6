# TLA+ models of caddy-k8s

caddy-k8s is a set of Caddy apps that turn Kubernetes objects into Caddy
configuration. `k8s_ingress` watches Ingresses and writes one route per rule
through Caddy's admin API; `k8s_config_reloader` watches a ConfigMap and loads
the Caddyfile it holds. Both run inside the Caddy process that they configure.

That last sentence is what this development is about. **Every admin request that
changes the configuration makes Caddy reload it, and a reload replaces the app
that sent the request**: a new instance is provisioned and started, the old one is
stopped and the context of its handlers cancelled while they wait for the
answer. A handler makes at most one change in its life. All that a loop had left
to do, every in-memory table and every queued event are gone, and the new
instance starts again from the cluster and from what Redis remembers. The
code's defence is to recognise what is already as it should be
(`admin.go:27-33`); most of its correctness hangs on that, and none of it is
easily reached by a test.

## Inventory

| part | source | state | operations | interacts with |
| --- | --- | --- | --- | --- |
| Ingress handlers | `app.go` 281-588 | `routeIDs` (Ingress → route IDs), `stopCh`, `ctx`, per-key mutexes | `Provision`, `Start`/`run`, `Stop`, `handleAdd`, `handleDelete` | everything below |
| admin client | `admin.go` | none | `upsertRoute`, `getRoute`, `deleteRoute`, `do`, `upsertTLSPolicy`, `putOrPatch`, `resolveServerName` | Caddy's live configuration |
| route store | `store.go` | a map, or Redis keys | `save`, `remove`, `loadAll` | Redis |
| routes | `routes.go` | none | `routeID`, `convertIngress`, `httpRedirectRoutes`, `buildHandlers` and the handler builders | Ingress, annotations |
| annotations | `annotations.go` | none | `resolveAnnotations`, the parsers, ConfigMap and Secret lookups | Kubernetes API |
| access log | `access_log.go` | `disabled`, `lastSkip` | `Enable`, `Skip`, `Unskip`, `rebuild` | Caddy's logging configuration |
| certificates | `tls.go` | `managedCerts`, `secretToIngress` | `LoadFromIngress`, `RemoveFromIngress`, `WatchSecrets`, `reloadSecret` | Secrets, Caddy's `tls` app |
| automation policies | `tls_policy.go` | none | `Sync`, `Remove` | Caddy's `tls` app |
| WAF ConfigMaps | `waf_cm.go` | none | `ensureWAFConfigMap`, `createWAFConfigMapIfAbsent` | ConfigMaps, Ingresses |
| reloader | `reloader.go` | `lastHash` | `Start`, `handle`, `reload`, `Stop` | a ConfigMap, Caddy's `/load` |
| Caddyfile parsing | `caddyfile.go` | none | option parsing | - |

What is hard, and where: the reload in the middle of every loop; the restart from
cluster and Redis; the queue of informer events, lost with its instance;
requests of a stopped instance that the admin endpoint still processes; failures
that are logged and never repeated; identifiers that must be unique and are not;
the endless reload when an instance does not recognise its predecessor's work.
`PROJECT.json` lists them one by one under `hazards`, each at its line.

What makes each part correct:

* handlers, admin client, store: what the cluster asks for is served in the end;
  nothing that it asks for is taken away; nothing stays behind; one Ingress's
  handlers leave the routes of others alone; what a completed sync has not given up is
  there, and stays; reloading ends;
* access log: the hosts of Ingresses that opted out, and no others, are skipped,
  on every server; the cached list is the live one;
* certificates: every referenced secret is loaded and follows its updates; the
  table of managed certificates tells the truth;
* policies, WAF ConfigMaps: the object exists while the Ingress asks for it, with
  what it asks for;
* reloader: Caddy ends up with the ConfigMap's content, and never goes back to an
  older one;
* routes and annotations: the handler chain has the documented order, and the
  guards come first.


## Conventions

* One module per component; `MC…` modules hold the values that a `.cfg` cannot
  spell; `…Proofs` modules hold the theorems. `ConfigReloader`, `TLSPolicy`,
  `WafConfigMap` and `Lifecycle` need no `MC` module.
* Actions carry the name of what the code does in one atomic step: up to and
  including one request to Caddy or to the API server, or one critical section.
  Everything between two requests that no other goroutine can see is one step.
* **Caddy** is modelled from the answers that the code relies on: a request that
  does not change the configuration is answered without a reload; one that Caddy
  cannot load is refused and changes nothing; one that changes the configuration
  takes effect, and the instance of the app that was there is gone (`Restart`)
  before it reads the answer. `Restart` is `Stop` (`app.go:374`) and the fields of
  a new `App`.
* Requests of an instance that has been stopped are kept in `late`: the client has
  given up, the admin endpoint (or the API server) may process them at any time.
* Events are records of an informer queue, in order. Before the first list there
  are none; an instance that starts gets one event per existing object, in any
  order. `Resync` is the 30-second resync of the Ingress informer
  (`app.go:357`), or the ten-minute one of the reloader.
* `left` holds what remains of the bounds `Max…`, so that every behaviour has
  finitely many user actions, faults, foreign reloads and late requests. `owed`,
  `synced` and `job.failed` are history variables: no action of the code reads them.
* Definitions named `Bug…` are not the code. Each changes the definition after it
  as a slip would (a dropped guard, a swapped order, a missing reset); with it the
  property listed for it in `PROJECT.json` is violated, which shows that the
  property depends on that line.

## Modules

### IngressController: handlers, admin client, store, route identities

`app.go` 281-588, `admin.go` 17-200, `store.go`, `routeID`,
`httpRedirectRoutes` and the placement by `spec.tls` of `routes.go` and `app.go`.

| model | code |
| --- | --- |
| `api`, `config`, `store` | the cluster; Caddy's routes by `@id`, with server and content; the Redis keys |
| `routeIDs`, `durable` | `App.routeIDs`; which of the two stores `Provision` chose |
| `pc`, `job` | where `run`, `handleAdd` or `handleDelete` is: `restore` (loadAll), `list` (cache sync), `redirect`, `stale`, `main`, `commit` (the loops of `handleAdd` in their order), `delete` |
| `Restore`, `List`, `Resync` | `Provision`/`run`: ping, `loadAll`; the informer |
| `BeginAdd`, `IgnoreForeign`, `EndRedirects`, `SkipPlain`, `EndStale`, `EndMain`, `Commit` | the guards and the order of `handleAdd`: redirects, stale deletions, early return without HTTP server, routes, ownership map, store |
| `RouteCurrent`, `UpsertRoute`, `UpsertRejected`, `UpsertError`, `SkipRule` | `upsertRoute`: unchanged, DELETE or POST, three attempts, then on to the next route |
| `BeginDelete`, `DeleteRoute`, `DeleteMissing`, `DeleteError`, `Forget`, `IgnoreTombstone` | `handleDelete`, and the stale deletions of `handleAdd` |
| `LateRequest`, `ExternalReload`, `Crash`, `Apply`, `Remove` | the surroundings |

A route is its server and its content; a content is the host, what the handler
chain is (`Backends`) and whether it is the chain of the plain server, since
`buildHandlers` makes different chains for the two servers for all but a few
(`ServerNeutral`, such as `permanent-redirect`).

`handleAdd` logs "synced ingress" at its end whatever has failed before
(`app.go:526-539`). `Commit` therefore records in `synced` what the line is about: the
Ingress, the IDs that `upsertRoute` has given up (`job.failed`), and whether the store has
taken the entry. `SyncedInstalled` says what is true of the rest: every other route is in
Caddy, `routeIDs` has all the IDs, and Redis too unless the save failed. It leaves open the
server of a server-neutral chain, which `upsertRoute` does not look at. The handlers run one at a time:
the informer has one goroutine, and the per-key mutexes add nothing to it. The
module follows Ingresses for which `handleAdd` 425-480 makes no call (no WAF
ConfigMap, certificate, access-log annotation or policy).

### RouteTable: what the handlers promise

The abstract specification of `IngressController`: a table of routes that changes by one
request at a time, each of them asked for by a version of an Ingress that is still on
its way through the app: the cluster's, one in the queue, or the one being handled
(`Known` of `IngressController`). It posts a route that the version wants, under a free
`@id`, or deletes one of the Ingress's own that the version does not want as it is.
There are no instances, no loops, no store and no retries in it. `ImplementsTable`
(`Table == INSTANCE RouteTable WITH ...`) says that the handlers with all their restarts
implement it: no repeated, late or half-done work adds a route that nobody wants, or
takes away one as it is wanted.

### AccessLog: access_log.go

`config` has the settings that `Enable` and `configureDefaultLogger` write
(`Startup`, in order) with each server's `skip_hosts` list. `StartupWrite` and
`StartupError` are those writes; an instance that is stopped among them goes on with
`context.Background()` and becomes a `zombie`. `Handle` is `Skip` or `Unskip` with the
comparison in `rebuild`; `PatchSame`, `PatchChanges`, `PatchFails` its loop over the
servers; `Remember` the assignment to `lastSkip`. `Bodies` has one list for every
order in which Go may iterate the map; it is stated by what the loop achieves (each
host once, where it comes first), so that it can be proved about without induction.

### ConfigReloader: reloader.go

`Sync` (the cache sync and the Add that seeds the hash), `Handle` (hash compared and
stored), `Load`, `LoadRejected`, `LoadFails` (POST `/load`: reload or nothing
new, refusal, failure or the 30-second timeout), `LateLoad`, `Resync`. A stopped
instance can be handed one event more (`Dangling`), and its load is not cancelled
(`Unanswered`). Every content keeps the `k8s_config_reloader` block: a Caddyfile
without it would end the app for good.

### TLSCerts: tls.go

`Fetch`, `FetchFails`, `Push…`, `Record` are the loop of `LoadFromIngress`; `Remove`
is `RemoveFromIngress`; `Watch`, `Take`, `WatcherPush…`, `WatcherRecord` are the
Secret informer and `reloadSecret`, a second goroutine whose context nobody cancels.
`live` is one place and not a map: `POST /config/apps/tls/certificates` replaces
the object.

### TLSPolicy: tls_policy.go and its part of admin.go

`Find`, `Write`, `WriteRefused` are `Sync` with `upsertTLSPolicy`; `FindUnclear` is an
answer to `routeExists` that is neither a 200 nor a 404: `admin.go:142` takes it for "not
there", without an error, so that `upsertTLSPolicy` posts what may exist; `FindGone`,
`Delete` are `Remove`; `Route` and `Unroute` stand for the rest of `handleAdd` and
`handleDelete`, of which only the order matters here. A PUT to an existing `@id` is
refused, as `admin.go:65` says of routes. Caddy is taken to have a list of automation
policies.

### WafConfigMap: waf_cm.go

`Begin`, `Get`, `Create`, `Patch`, `PatchFails`, `Fails` are `ensureWAFConfigMap` and the lines
of `handleAdd` after it; `Inject` is `handleAdd` writing the annotation into the object
of the informer's cache. The garbage collector (`Collect`) removes a ConfigMap whose
owner's UID is gone.

### Lifecycle: Start, run and Stop inside Caddy

The other modules replace an instance in one step; this one takes that step apart.
Caddy loads a configuration under a lock (`BeginLoad`, `Provision`, `Start`, `Stop`,
`RefuseLoad` when another app does not load), and whoever asks the admin endpoint waits
for it. `app` is the running instance, `new` the one that a load has made, `old` a bag
of stopped instances whose `run` goes on. `FindHTTPS`, `FindHTTP`, `Restore`, `Watch`,
`WriteLog`, `Inform` are `run` from the lookup of the servers to the start of the
informer, each possible while a load is on; `Seen` is the unsynchronised read of
`tlsManager` by `Stop`. In exchange, what an instance writes is reduced to one Ingress: its
certificate, its redirect, its route and the loggers' settings, in the order of
`handleAdd` (`BeginAdd`, `Ask`, `Answered`) and `handleDelete`.

### Annotations, Routes and Requests: from an annotation to an answer

`Annotations` is `resolveAnnotations` with its parsers and lookups; strings are
replaced by what they say, `parseBodySize` keeps the width of its integer (`IntLimit`).
A Go loop that filters a list is `Keep`, by the positions of what stays and without
recursion, so that it can be proved about.
`Routes` is `convertIngress`, `httpRedirectRoutes`, `buildHandlers` and the handler
builders: matchers, subroutes, handlers, in the order in which they are appended. Both
are operators, without state. `Requests` sends a request through the routes they make,
one handler per step (`TryRoute`, `EnterSubroute`, `Authenticate`, `RateLimit`,
`Inspect`, `Proxy`, ...), as Caddy and its plugins do with such a configuration; these
actions are external, all that the app decides is in the routes.

Hosts and origins are matched as Caddy does it with such matchers: `HostsOf` and
`OriginsOf` give the names that a pattern (`*.h`) stands for, and a value `*` of the header
matcher stands for every origin, wherever it is in a list (`OriginMatches`).

The properties are written from the documentation of each annotation, not from the
routes. `Applies` has the aliases as "additional hostnames" of each rule
(`README.md:523`); `Addressed` are the requests that are for the Ingress by the
documentation. The code narrows a rule without host down to its aliases
(`routes.go:93-100`, `Narrowed`); `Concerned` leaves the hosts out that this concerns, and
with them goes what the properties say of the requests that the Ingress should serve.
Nothing is left out of what it must not serve: who reaches a backend is `Addressed`.

## What the runs check

Every run with `pass` is exhaustive for its bounds; every property of it has a mutant.

| run | properties | what it shows |
| --- | --- | --- |
| `sync_safety` | `SyncInv`, `WantedKept`, `OthersUntouched`, `Converges`, `Quiesces`, `ImplementsTable` | two Ingresses, both servers, an ssl-redirect, a rule without host, Redis, a user action, a foreign reload and a late request: a completed sync is true of Caddy, of `routeIDs` and of Redis, but for what it has given up, and stays so; no handler takes away a wanted route or another Ingress's; every route is served in the end, and the restarts end; `RouteTable` is implemented |
| `redis` | `SyncedInstalled`, `StaleRemoved`, `Converges` | Redis with all its failures, the early return without HTTP server, a foreign class, a refused route before another one; users make a change once the last one is synced (`Patient`); each stale deletion kills its instance, and the rest are deleted all the same, because the stored IDs outlive it |
| `access_log` | `CacheInv`, `Restored`, `LoggingOn`, `QuietWhenAllLogged` | `lastSkip` is what every server has, whoever writes; opting back in takes effect; the start-up writes, a reload each, reach every server, and end |
| `reloader` | `ReloaderInv`, `Settles`, `ChangeLoaded` | the hash is that of the ConfigMap; loading ends; a watched change of a ConfigMap that stays is loaded |
| `certs` | `CertsInv`, `RenewalLoaded`, `Loaded`, `Settles` | what is recorded is what is live; the watcher alone loads an update, the resync whatever was missed; reloading ends |
| `tls_policy` | `PolicyInv`, `Installed`, `Settles`, `PolicyRemoved` | policy and route get there although each ends the instance; the deletion of an Ingress that has `spec.tls` takes the policy away |
| `waf_cm` | `WafInv`, `Backed`, `Collected` | the ConfigMap is there before the annotation, and both in the end; none of the controller's stays behind a deleted Ingress |
| `lifecycle` | `TypeOK`, `NamesCurrent`, `StrayWatcherIdle`, `LoadsEnd`, `Served`, `Rests` | with old and new instances side by side: an instance knows only servers of its own configuration; a watcher that `Stop` has missed has nothing to push; no load waits for itself; certificate, redirect and route get there, a reload each, and reloading ends |
| `requests` | `TypeOK`, `Guarded`, `Preflighted`, `CORSAnswered`, `Inspected`, `BodyLimited`, `Routed` | six groups of Ingresses and requests, with patterns and `*` in lists: the IP lists come before everything, preflights of allowed origins before the checks, all readable checks in the documented order before the backend, and the backend is that of the first listed path that covers the request |

`Converges` and its like say `<>[]`: the faults, changes and foreign reloads end with
their bounds, and what is claimed is that nothing else keeps the system from the goal.
Where a property makes an exception ("unless a call fails") the exception is a fault that
the code logs and never makes good; it is written into the property, as a condition on
`left`.

### What the code does otherwise than it says

Three runs check a sentence of the repository and find it violated; the sentence and the
lines are in `PROJECT.json` under `findings`.

| run | what happens |
| --- | --- |
| `orphans` | the first `DELETE /id` of a deletion restarts the app, and the other routes of the Ingress stay for ever; so do all the routes of an Ingress deleted while nobody watches, although Redis remembers them |
| `skip_lost` | `Enable` of each new instance empties the list that the last one has set: opting out never lasts, and reloads go on |
| `two_secrets` | two secrets push each other out without end |

None of them needs a failure or any concurrency but Caddy's own reload. The models have
further behaviour of the kind, which the properties above leave out by their conditions
or their instances. Whoever changes this code should know of it:

* A changed route is missing from the DELETE of
  `upsertRoute` (`admin.go:68`) until the next instance has posted it, so updates are not
  free of downtime (`README.md:12`).
* Redirects of `ssl-redirect` are upserted (`app.go:485`) but never recorded, so never
  deleted. On an Ingress without `spec.tls` they answer before its guards do.
* A route whose chain is the same with and without TLS stays on the wrong server when its
  Ingress changes (`admin.go:61`): `Serves` leaves the server of such chains open.
* Two rules with one host share an `@id` and replace each other without end
  (`routes.go:103`); `routeID` (`routes.go:585`) gives the Ingresses `a`/`b-c` and `a-b`/`c`
  one identifier. `HostsDistinct` and `IdsSeparate` exclude them.
* A user who takes a host out of an Ingress before its route has been recorded leaves the
  route behind for ever, with no failure at all: the POST ends the instance before
  `app.go:531`, so neither `routeIDs` nor Redis knows of it (`README.md:23`: "prevents
  stale routes from accumulating"). `StaleRemoved` asks for users who wait (`Patient`).
* `lastHash` is set before the load, which is not repeated when it fails
  (`reloader.go:159`); a ConfigMap changed during a reload is taken for what Caddy runs
  (`reloader.go:162`); one that is deleted and created again arrives as an Add, which only
  seeds the hash (`reloader.go:117`), against `README.md:24` and `README.md:111`.
  `ChangeLoaded` makes an exception of all three.
* The watcher may record a secret that has just been dropped (`tls.go:263`), against
  `README.md:707`.
* The PUT that should update an automation policy is refused, as `admin.go:65` explains for
  routes (`admin.go:226`): `Installed` asks for some policy of the Ingress. Removing the
  policy ends the instance before it removes the route (`app.go:558`). When `spec.tls` has
  gone from an Ingress before it is deleted, its policy is not removed at all
  (`app.go:556`): `PolicyRemoved` speaks of those that are deleted with it.
* A re-created Ingress adopts a ConfigMap that is about to be collected (`waf_cm.go:89`),
  and after a failed patch the annotation in the informer's cache keeps it from being
  retried (`app.go:434`, against `waf_cm.go:71`): the conditions of `Backed`.
* A watcher that `Stop` has missed is never stopped (`app.go:333`); `StrayWatcherIdle` says
  why that does no harm. The Redis client that `Provision` opens (`app.go:185`) is not
  closed when the load is refused before `Start`.
* The HTTP server is looked up once (`app.go:308`): if that fails, the instance leaves out
  redirects and plain routes (the condition `app.http` of `Serves`).
* The preflight of an origin that is not allowed reaches the checks and the backend, where
  `routes.go:315` speaks of "a plain 204" and `README.md:440` of a preflight that never
  does; the responses to such origins have no `Vary`, though they differ
  (`routes.go:359`, `README.md:462`). `Preflighted` and `CORSAnswered` leave both open.
* A list of origins with `*` among others (`*,B`) is no wildcard to `annotations.go:303`, but
  is one to Caddy's matcher: every origin is echoed, with credentials if they are
  configured, where `annotations.go:142` has `*` and credentials incompatible.
  `CORSAnswered` leaves the credentials of such lists open.
* An alias of a rule without host narrows the rule to the alias (`routes.go:93-100`), where
  `annotations.go:99` and `README.md:523` speak of additional hostnames: the other hosts
  lose the rule. `Concerned` leaves them out.
* An exact path `/` matches everything, a prefix that ends in `/` does not match the path
  without it, and the first path that matches wins, not the longest.
* `parseBodySize` (`annotations.go:732`) does not look for overflow: a limit that is too large
  becomes some other limit, or none. `BodyLimited` speaks of limits that fit.
* `request-headers` are merged with the built-in ones as they are spelled
  (`routes.go:550`); one that differs in case only may or may not replace them, for a map has
  no order. A policy whose JSON is `null` leaves the request unchecked.

### Bounds

The constants are small because the state that the code keeps apart is: one or two keys
(one handler call is about one key, and interference takes two), one or two hosts (one
route stays, one goes), chains of the three kinds the code distinguishes, two or three
contents and one that Caddy refuses, one or two secrets (two contents of one secret
displace each other as two secrets do; `two_secrets` has two). Changes, faults, foreign
reloads and late requests are bounded by one to three each: two changes queue up behind
each other, one fault or reload can hit any step, one late request can arrive at any
later time. `lifecycle` has one bound for all of these together (`MaxTroubles`) and one
for the stopped instances that may still run when somebody else begins a load (`MaxOld`).
The reloads that the app causes itself, and the instances, are not bounded
at all. Resyncs are taken when the queue is empty, as one more list of the same objects
in the queue repeats what is there. Two further bounds: two old instances at one
start-up step count as one (`AccessLog`), a stopped reloader or watcher is handed at
most one more event.

`requests` enumerates its cases instead (`MCRequests`): each group varies the annotations
and parts of a request that can meet in one handler, and leaves the rest out; integers
have 8 bits and kibi is 4, so that every unit can overflow.

`CHECK_DEADLOCK FALSE` is set where the system really stops. `ConfigReloader` and
`WafConfigMap`: no ConfigMap or no Ingress is there and all bounds are used up, and then
no informer has anything to resync. `Lifecycle`: without an HTTPS server `run` waits until
there is one. `Requests`: a request has been answered. Elsewhere the resync of an empty
list is a step.

### Fairness

Weak fairness, and only of what runs by itself: the goroutine of the handlers
(`Controller`, `Handler`, `Manager`, `Reloader`), the watcher's, those of stopped
instances that nothing cancels (`Zombie`), the informer's resync, the admin endpoint
working off requests it has accepted (`LateRequest`, `LatePatch`, `LatePush`,
`LateLoad`), Kubernetes' garbage collector (`Collect`). `Lifecycle` adds Caddy itself
(`Caddy`: a load that has begun goes on, for nothing in it waits for a goroutine of the
app) and has `run`, handlers and resync of the running instance, and `run` of stopped
ones, as goroutines of their own. No user, fault, refused load, foreign reload
or crash has to happen. `Spec` of `TLSCerts` leaves the resync out, for what the watcher
does by itself (its informer has a resync period of zero), and `Loaded` asks for it
(`WF_vars(Resync) => ...`). Where a goroutine has a choice between succeeding and
failing, `left.faults` ends the failures. `Requests` and `RouteTable` state no fairness
and no liveness.

## What is proved

TLAPS checks these theorems for every value of the constants that satisfies the
`ASSUME`s of the modules (finite sets of keys, disjoint special values, natural
bounds); TLC evaluates the assumptions in every run.

**`IngressControllerProofs`**

* `SyncInvCorrect == Spec => []SyncInv`, the inductive invariant below, with the type of
  the state.
* `SyncedCorrect == Spec => []SyncedInstalled`: what the log line "synced ingress"
  stands for. `SyncedInstalled` is not inductive: nothing in it says that the
  call which is about to log has done its work, nor that a route found with the
  right content is on the right server. The inductive invariant is `SyncInv`:
  `Progress` follows a call through its loops (the routes before the current one are
  live or among those it has given up, since any change of the configuration would have
  ended the call),
  `Placement` says that a content that depends on the server is only ever on that
  server, `Bookkeeping` that the key being worked on counts as not synced. One lemma
  (`Restart`) covers all the steps that replace the instance, whoever causes them.
* `OthersCorrect == IdsSeparate => (Spec => OthersUntouched)`: no handler call changes a
  route of another Ingress. `IdsSeparate` is the hypothesis that `routeID` keeps the
  Ingresses apart, which it does not always (`a`/`b-c` and `a-b`/`c`).
* `WantedCorrect == IdsSeparate /\ HostsDistinct => (Spec => WantedKept)`: neither an
  update nor a stale deletion takes away a route that the cluster asks for.
  Two rules for one host would take turns (`routes.go:103`), hence `HostsDistinct`. Both
  theorems rest on the invariant `Owned` (what is owned or about to be deleted is an identifier of its
  Ingress) and on the lemma `ConfigChange`, which lists all the ways in which a step
  can change the configuration.

* `TableCorrect`: if `IdsSeparate`, then `Spec => ImplementsTable`. Initial states
  map to initial states; every step maps to a step of `RouteTable` or leaves its variables
  alone. It rests on `SyncInv` and `Owned`, and on what a step does to `Known`
  (`Learn`: what the app takes for current it has taken for current before, or the cluster
  says so); the heart is that each request of the loops (`UpsertRequests`,
  `DeleteRequests`) is one that the version being handled asks for.

**`ConfigReloaderProofs`**: `HashCorrect == Spec => []ReloaderInv`, which is about
`HashCurrent`; `QueueCurrent` says of an instance with queued events what `HashCurrent`
says of one without.

**`TLSCertsProofs`**: `CertsCorrect == Spec => []CertsInv`, which is about
`ManagedLive`; `AnswersCurrent` covers the step between Caddy's answer and its
recording: a push in between would have replaced the manager.

**`AccessLogProofs`**: `CacheCorrect == Spec => []CacheInv`, inductive as it stands: `Sent`
follows `rebuild` from server to server, and whoever changes a setting ends the
instance that remembers it.

**`WafConfigMapProofs`**: `WafCorrect == Spec => []WafInv`. `OneIngress` strengthens it: until
the first deletion every copy of the Ingress (cached, queued, handled) is of one UID,
so that what is read of a copy holds of the Ingress.

**`TLSPolicyProofs`**: `PolicyCorrect == Spec => []PolicyInv`, with `Asking` (who looks for
a policy wants one). What `routeExists` answered with a 200 or a 404 cannot be undone
before the write, since whoever undoes it replaces the instance; an unclear answer says
nothing, and its POST is the step `guess`, of which `ChecksHold` claims nothing.

**`LifecycleProofs`**: `TypeCorrect == Spec => []TypeOK`, `NamesCorrect == Spec =>
[]NamesCurrent` and `StrayCorrect == Spec => []StrayWatcherIdle`, for any number of
stopped instances. The inductive invariant `IndInv` says of every instance that it has
work only once its informer runs (`Unused`), of the stopped ones that they have none (`Gone`), and when in a
load there is a new one (`NewThere`). `Becomes`, a step of one instance among those side
by side, has one lemma (`BecomesInd`) that all steps use.

**`RequestsProofs`**: what the app builds from annotations does to a request what the
annotations say, for every Ingress, any number of rules, paths, aliases, origins and
headers, every content of the ConfigMaps and Secrets, and every request. `Typed` is about
`TypeOK`; `GuardedAlways`, `PreflightedAlways`, `CORSAnsweredAlways`, `InspectedAlways`,
`BodyLimitedAlways` and `RoutedAlways` are about the six properties of the run. All follow
from `Invariant == Spec => []IInv`.

* The invariant is about what the code does, for every request that it takes: `Taken` is
  the code's `Concerned`, with a rule without host narrowed down (`TakenBy`), and `Safe` has
  the properties for it in their strongest form (`GuardedTaken`, `PreflightedTaken`,
  `CORSAdded`, `RoutedTaken`). The lemmas `TakenRules` (what is `Taken` is `Addressed`,
  what is `Concerned` is `Taken` with the same rule) and `Promised` lead from there to the
  properties as documented.
* `Safe` speaks of answers and says nothing of what is left to do for a request without
  one, so it is not inductive. `IInv` adds that such a request is in one of eleven
  `Places`: among the routes of the server (`AtServer`), in a redirect route
  (`AtRedirect`), in the subroute of its rule (`AtRule`, `AtRoutes`), at the guards
  (`AtGuard`), the preflight (`AtPreflight`), a permanent or temporal
  redirect (`AtRedirection`), the choice between several origins (`AtChoice`, `AtOrigins`), the CORS headers (`AtCORS`) or
  the n-th check (`AtChecks`). A place says what is left, and what has been set and
  passed so far. TLC has found nothing against the places on the run `requests`.
* One lemma `Step…` per place says where the request goes next, or why its answer is right.
* About the routes: `OnServerTaken` and `OfRuleTaken` say for which requests a server and a
  rule have a route, `Paths` that the first path that covers the request decides; `Guards`
  and `PreflightMatches` translate the matchers; `ChecksNamed` has the documented order
  of the checks, and `EngineBlocks` says which mode of the WAF refuses.
* About the parsers: `Keep…` (`KeepElems`, `FirstKept`, `NoneKept`), `AllowedElems` for the
  lists of origins, `BodySize` for limits that fit, `HeadersSent` for the headers of
  requests, configured or built in.

`CasesAssumption` says which cases there are: an Ingress, annotations, objects and a
request of the right type; no browser sends the origin `*`, and no list of origins holds
Caddy's placeholder `{http.request.header.Origin}`, which the list would copy into a header
that Caddy then fills in. Which names a pattern stands for (`HostsOf`, `OriginsOf`) is
left to the constants, without any assumption.

Model-checked only: all liveness (`<>[]`, `~>`), which needs fairness and `ENABLED`, out of
the prover's reach. Every invariant and every action property of a passing run has a
theorem. That a request is answered at all is not stated: `Requests` has no fairness.

## What is not modelled

* `caddyfile.go`, the `UnmarshalCaddyfile` of the reloader and the names of servers set in
  a Caddyfile: options are parsed once, before anything runs.
* The transport of the reverse proxy (timeouts, TLS, HTTP version, retries, load
  balancing), the methods, headers and maximum age of CORS, the realm of
  `basic-auth`: values that are copied into the configuration.
* All managers over one configuration: each module has the reloads of the others as
  foreign reloads (`ExternalReload`, `OtherReload`, `Reload`), `Lifecycle` has one write
  of each. The product of the modules is out of TLC's reach. Two apps
  (`k8s_ingress`, `k8s_config_reloader`) in one Caddy meet in the same way: a load of the
  Caddyfile is the foreign reload that takes the routes away.
* Clashing `@id`s of policies, and a Caddyfile without automation policies, to
  which a POST is refused.
* RBAC: the README's role must allow each request; a request that is not allowed is one
  that always fails, which the bound on faults excludes.
* Time: the informer's periods, timeouts and backoffs are steps that may happen.

## Order of reading

`Lifecycle` for what a reload is; `IngressController` with `RouteTable` for the routes, then
their proofs; `AccessLog`, `TLSCerts`, `TLSPolicy`, `WafConfigMap`, `ConfigReloader` in any order;
`Annotations`, `Routes`, `Requests`, and `RequestsProofs` from its end, where the invariant
and the lemmas per place are put together. What could come next: the product of two
managers over one configuration for instances small enough (`AccessLog` and `TLSCerts`,
whose reloads interrupt each other).
