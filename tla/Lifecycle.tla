------------------------------ MODULE Lifecycle ------------------------------
(***************************************************************************)
(* The life of k8s_ingress inside the Caddy that it configures (app.go:    *)
(* Provision, Start, run, Stop, handleAdd, handleDelete).                  *)
(*                                                                         *)
(* Caddy loads a configuration under a lock: it provisions and starts the  *)
(* new instance of the app, then stops the old one.  Whoever asks the      *)
(* admin endpoint for anything waits for that lock, the goroutines of both *)
(* instances included; these run side by side for a while, and run() of a  *)
(* stopped instance is not waited for by anybody.                          *)
(*                                                                         *)
(* The other modules replace an instance in one step.  Here that step is   *)
(* taken apart, and in exchange everything that an instance does to the    *)
(* configuration is reduced to whether it is there: the settings of the    *)
(* loggers, and the certificate, the redirect and the route of one Ingress *)
(* with spec.tls, in the order of run and handleAdd.                       *)
(***************************************************************************)
EXTENDS Naturals, Sequences, Bags

CONSTANTS
    AccessLog,   \* App.AccessLog
    Verbose,     \* App.VerboseLogs
    MaxTroubles, \* bound: user actions, failed calls, loads from elsewhere, loads
                 \* that are refused, requests that outlive their instance
    MaxOld,      \* bound: stopped instances in run() when another load begins
    None         \* no load, no instance, no call

ASSUME LifecycleAssumption ==
    /\ AccessLog \in BOOLEAN /\ Verbose \in BOOLEAN
    /\ MaxTroubles \in Nat /\ MaxOld \in Nat \ {0}

\* The writes of Enable and configureDefaultLogger, in their order.
LogWrites ==
    (IF AccessLog THEN <<"access">> ELSE <<>>)
    \o (IF AccessLog \/ ~Verbose THEN <<"default">> ELSE <<>>)
    \o (IF ~Verbose THEN <<"admin.api">> ELSE <<>>)

Logs == {"access", "default", "admin.api"}

\* https, http: is there a server on that port?  The rest: what the app has
\* put there; a "bare" route lacks the handlers of a ConfigMap or Secret.
Configs == [https: BOOLEAN, http: BOOLEAN, logs: SUBSET Logs, cert: BOOLEAN,
            redirect: BOOLEAN, route: {"none", "bare", "full"}]

Pristine(https, http) ==
    [https |-> https, http |-> http, logs |-> {}, cert |-> FALSE,
     redirect |-> FALSE, route |-> "none"]

\* A handler at one of its requests; full: nothing was looked up in vain.
Calls == [op: {"add", "delete"}, at: {"cert", "redirect", "route"},
          full: BOOLEAN]

\* An App.  run: where its goroutine is; n: the next of LogWrites; stopped:
\* stopCh closed, ctx cancelled and store closed; manager: tlsManager and its
\* stopCh; managed: the manager has certificates to push; owned: routeIDs knows
\* the route; queue: the events that the informer has for it.
Apps == [run: {"provisioned", "https", "http", "restore", "watch", "logs",
               "watching"},
         n: Nat \ {0}, https: BOOLEAN, http: BOOLEAN, stopped: BOOLEAN,
         manager: {"nil", "open", "closed"}, managed: BOOLEAN, owned: BOOLEAN,
         queue: Seq({"add", "delete"}), call: Calls \cup {None}]

VARIABLES
    api,    \* the cluster: is there an Ingress?
    config, \* Caddy's configuration; during a load, the one being loaded
    load,   \* the load in progress, which holds Caddy's lock, or None
    app,    \* the instance that Caddy runs
    new,    \* during a load, the instance that is to replace it, or None
    old,    \* the stopped instances that have not come to their end, a bag
    store,  \* Redis knows the route
    late,   \* admin requests of stopped instances, not processed yet
    left    \* the troubles that remain

vars == <<api, config, load, app, new, old, store, late, left>>

Requests ==
    [op: {"cert", "redirect", "delete"}, arg: {"-"}]
    \cup [op: {"post"}, arg: {"bare", "full"}]
    \cup [op: {"log"}, arg: Logs]

Loads == [phase: {"provision", "start", "stop"}, prev: Configs, asked: BOOLEAN]

ASSUME NoneAssumption == None \notin Calls \cup Apps \cup Loads

TypeOK ==
    /\ api \in BOOLEAN
    /\ config \in Configs
    /\ load \in Loads \cup {None}
    /\ app \in Apps
    /\ new \in Apps \cup {None}
    /\ new # None => load # None
    /\ IsABag(old) /\ BagToSet(old) \subseteq Apps
    /\ store \in BOOLEAN
    /\ late \subseteq Requests
    /\ left \in Nat

Trouble == left > 0 /\ left' = left - 1

-----------------------------------------------------------------------------
(* Caddy *)

\* Names taken from the configuration that is being replaced.
BugProvisioned(found) ==
    LET c == IF load = None THEN config ELSE load.prev
    IN  [run |-> "provisioned", n |-> 1,
         https |-> found /\ c.https, http |-> found /\ c.http,
         stopped |-> FALSE, manager |-> "nil", managed |-> FALSE,
         owned |-> FALSE, queue |-> <<>>, call |-> None]

\* Provision: the names of the servers come from the HTTP app of the same
\* configuration, if that can be had.
Provisioned(found) ==
    [run |-> "provisioned", n |-> 1,
     https |-> found /\ config.https, http |-> found /\ config.http,
     stopped |-> FALSE, manager |-> "nil", managed |-> FALSE, owned |-> FALSE,
     queue |-> <<>>, call |-> None]

\* run() asks only for the names that Provision has not found.
Started(a) ==
    [a EXCEPT !.run = IF ~a.https THEN "https"
                      ELSE IF ~a.http THEN "http" ELSE "restore"]

Init ==
    /\ api \in BOOLEAN
    /\ config \in {Pristine(s, p) : s, p \in BOOLEAN}
    /\ load = None
    /\ app = Started(Provisioned(TRUE))
    /\ new = None
    /\ old = EmptyBag
    /\ store = FALSE
    /\ late = {}
    /\ left = MaxTroubles

\* What a request makes of configuration c.  Nothing when it is so already, or
\* when Caddy refuses: no such server, or the @id is taken.
Effect(c, q) ==
    CASE q.op = "log" -> [c EXCEPT !.logs = @ \cup {q.arg}]
      [] q.op = "cert" -> [c EXCEPT !.cert = TRUE]
      [] q.op = "redirect" -> [c EXCEPT !.redirect = @ \/ c.http]
      [] q.op = "post" -> [c EXCEPT !.route =
                              IF c.https /\ @ = "none" THEN q.arg ELSE @]
      [] q.op = "delete" -> [c EXCEPT !.route = "none"]

\* The admin endpoint takes the lock and begins to load configuration c; asked:
\* by the handler of the current instance.
BeginLoad(c, asked) ==
    /\ load = None
    /\ load' = [phase |-> "provision", prev |-> config, asked |-> asked]
    /\ config' = c

\* Only what a stopped instance asks for itself may exceed the bound.
Room == BagCardinality(old) < MaxOld

Loading(phase) == load # None /\ load.phase = phase

Provision ==
    /\ Loading("provision")
    /\ \/ new' = Provisioned(TRUE) /\ UNCHANGED left
       \/ new' = Provisioned(FALSE) /\ Trouble
    /\ load' = [load EXCEPT !.phase = "start"]
    /\ UNCHANGED <<api, config, app, old, store, late>>

\* A Start that looks for the servers at the admin endpoint.
BugStart ==
    /\ Loading("start")
    /\ load = None
    /\ new' = Started(new)
    /\ load' = [load EXCEPT !.phase = "stop"]
    /\ UNCHANGED <<api, config, app, old, store, late, left>>

\* Start leaves everything to the goroutine.
Start ==
    /\ Loading("start")
    /\ new' = Started(new)
    /\ load' = [load EXCEPT !.phase = "stop"]
    /\ UNCHANGED <<api, config, app, old, store, late, left>>

\* A Stop that leaves stopCh open.
BugStoppedInformer(a, seen) ==
    [a EXCEPT !.manager = IF @ = "open" /\ seen THEN "closed" ELSE @,
              !.call = None]

\* Stop: ctx is cancelled, stopCh closed, the TLS manager stopped if it is
\* there.
Stopped(a, seen) ==
    [a EXCEPT !.stopped = TRUE,
              !.manager = IF @ = "open" /\ seen THEN "closed" ELSE @,
              !.call = None,
              !.queue = <<>>]

\* The assignment to tlsManager and its reading by Stop are not synchronised:
\* Stop may miss one that has only just been made.
Seen(a) == IF a.run = "watch" THEN BOOLEAN ELSE {TRUE}

\* A stopped instance goes on in run(), if it has not come to its end.
AfterStop(a) ==
    {IF b.stopped /\ b.run = "watching" THEN EmptyBag ELSE SetToBag({b}) :
        b \in {Stopped(a, seen) : seen \in Seen(a)}}

\* A POST without looking whether the route is there already.
BugRequest(c) ==
    IF c.at # "route" THEN [op |-> c.at, arg |-> "-"]
    ELSE IF c.op = "add" /\ config.route = "none"
         THEN [op |-> "post", arg |-> IF c.full THEN "full" ELSE "bare"]
         ELSE [op |-> "delete", arg |-> "-"]

\* The request that a handler is at: of the route, the DELETE of one that
\* differs before the POST.
Request(c) ==
    IF c.at # "route" THEN [op |-> c.at, arg |-> "-"]
    ELSE LET wanted == IF c.full THEN "full" ELSE "bare"
         IN  IF c.op = "add" /\ config.route \in {"none", wanted}
             THEN [op |-> "post", arg |-> wanted]
             ELSE [op |-> "delete", arg |-> "-"]

\* The old instance is stopped, the new one is the current one.  A request of
\* the old one may still wait for the lock.
Stop ==
    /\ Loading("stop")
    /\ \E b \in AfterStop(app) : old' = old (+) b
    /\ app' = new
    /\ new' = None
    /\ load' = None
    /\ \/ UNCHANGED <<late, left>>
       \/ /\ app.call # None
          /\ Trouble
          /\ late' = late \cup {Request(app.call)}
    /\ UNCHANGED <<api, config, store>>

\* A handler has the answer to its request, or an error, and goes on.
Answered(a, ok) ==
    CASE a.call.at = "cert" ->
            [a EXCEPT !.managed = @ \/ ok,
                      !.call.at = IF a.http THEN "redirect" ELSE "route"]
      [] a.call.at = "redirect" -> [a EXCEPT !.call.at = "route"]
      [] a.call.at = "route" ->
            [a EXCEPT !.owned = (a.call.op = "add"), !.call = None]

\* Another app does not provision or does not start: Caddy stops what it has
\* started of the new configuration and goes on with the old one.  The sender
\* of the request gets an error: upsertRoute may try again.
RefuseLoad ==
    /\ load # None
    /\ Trouble
    /\ \E b \in IF load.phase = "stop" THEN AfterStop(new) ELSE {EmptyBag} :
          old' = old (+) b
    /\ new' = None
    /\ \/ UNCHANGED app
       \/ load.asked /\ app' = Answered(app, FALSE)
    /\ config' = load.prev
    /\ load' = None
    /\ UNCHANGED <<api, store, late>>

\* POST /load by an operator or by k8s_config_reloader: a Caddyfile says
\* nothing of what the app has added.
Reload ==
    /\ Trouble
    /\ Room
    /\ \E s, p \in BOOLEAN : BeginLoad(Pristine(s, p), FALSE)
    /\ UNCHANGED <<api, app, new, old, store, late>>

\* The endpoint processes a request whose sender is gone.
LateRequest ==
    /\ load = None
    /\ \E q \in late :
          /\ late' = late \ {q}
          /\ IF Effect(config, q) = config
             THEN UNCHANGED <<config, load>>
             ELSE Room /\ BeginLoad(Effect(config, q), FALSE)
    /\ UNCHANGED <<api, app, new, old, store, left>>

-----------------------------------------------------------------------------
(* run() of instance a *)

\* The instance becomes b, or comes to its end.
Becomes(a, b) ==
    \/ a = app /\ app' = b /\ UNCHANGED <<new, old>>
    \/ a = new /\ new' = b /\ UNCHANGED <<app, old>>
    \/ /\ BagIn(a, old)
       /\ old' = (old (-) SetToBag({a})) (+) SetToBag({b} \ {None})
       /\ UNCHANGED <<app, new>>

\* resolveServerName: does a server listen on that port?
ResolveServerName(port) == config[port]

\* run() gives up when the server is not there at the first attempt.
BugFindHTTPS(a) ==
    /\ a.run = "https"
    /\ load = None
    /\ IF ResolveServerName("https")
       THEN Becomes(a, [a EXCEPT !.https = TRUE,
                                 !.run = IF a.http THEN "restore" ELSE "http"])
       ELSE Becomes(a, [a EXCEPT !.run = "ended"])
    /\ UNCHANGED <<api, config, load, store, late, left>>

\* The admin endpoint is asked until there is an HTTPS server (a failed attempt
\* changes nothing), or the instance is stopped.
FindHTTPS(a) ==
    /\ a.run = "https"
    /\ \/ /\ load = None /\ ResolveServerName("https")
          /\ Becomes(a, [a EXCEPT !.https = TRUE,
                                  !.run = IF a.http THEN "restore" ELSE "http"])
       \/ a.stopped /\ Becomes(a, None)
    /\ UNCHANGED <<api, config, load, store, late, left>>

\* The HTTP server is asked for once.
FindHTTP(a) ==
    /\ a.run = "http"
    /\ load = None
    /\ \/ /\ Becomes(a, [a EXCEPT !.run = "restore", !.http = ResolveServerName("http")])
          /\ UNCHANGED left
       \/ Trouble /\ Becomes(a, [a EXCEPT !.run = "restore"])
    /\ UNCHANGED <<api, config, load, store, late>>

\* loadAll, which fails when Stop has closed the store; then the TLS manager is
\* made and assigned.
Restore(a) ==
    /\ a.run = "restore"
    /\ Becomes(a, [a EXCEPT !.run = "watch", !.manager = "open",
                            !.owned = store /\ ~a.stopped])
    /\ UNCHANGED <<api, config, load, store, late, left>>

\* WatchSecrets is started, whether its stopCh is closed or not.
Watch(a) ==
    /\ a.run = "watch"
    /\ Becomes(a, [a EXCEPT !.run = "logs"])
    /\ UNCHANGED <<api, config, load, store, late, left>>

\* The settings of the loggers, with context.Background(): a stopped instance
\* writes them as well.
WriteLog(a) ==
    /\ a.run = "logs"
    /\ load = None
    /\ a.n \in DOMAIN LogWrites
    /\ Becomes(a, [a EXCEPT !.n = @ + 1])
    /\ LET c == Effect(config, [op |-> "log", arg |-> LogWrites[a.n]])
       IN  \/ /\ IF c = config THEN UNCHANGED <<config, load>>
                               ELSE (a.stopped \/ Room) /\ BeginLoad(c, FALSE)
              /\ UNCHANGED left
           \/ Trouble /\ UNCHANGED <<config, load>>
    /\ UNCHANGED <<api, store, late>>

Listing == IF api THEN <<"add">> ELSE <<>>

\* factory.Start(stopCh): nothing comes when it is closed.
Inform(a) ==
    /\ a.run = "logs"
    /\ a.n \notin DOMAIN LogWrites
    /\ Becomes(a, IF a.stopped THEN None
                  ELSE [a EXCEPT !.run = "watching", !.queue = Listing])
    /\ UNCHANGED <<api, config, load, store, late, left>>

Run(a) ==
    \/ FindHTTPS(a) \/ FindHTTP(a) \/ Restore(a) \/ Watch(a) \/ WriteLog(a)
    \/ Inform(a)

-----------------------------------------------------------------------------
(* handleAdd and handleDelete of instance a *)

Idle(a) == a.call = None /\ a.queue # <<>>

\* handleAdd, from resolveAnnotations on: a ConfigMap or Secret that cannot be
\* read leaves a handler out.
BeginAdd(a) ==
    /\ Idle(a)
    /\ Head(a.queue) = "add"
    /\ \E full \in BOOLEAN :
          /\ Becomes(a, [a EXCEPT !.queue = Tail(@),
                           !.call = [op |-> "add", at |-> "cert", full |-> full]])
          /\ IF full THEN UNCHANGED left ELSE Trouble
    /\ UNCHANGED <<api, config, load, store, late>>

\* handleDelete drops the certificate and asks for the routes it knows of.
BeginDelete(a) ==
    /\ Idle(a)
    /\ Head(a.queue) = "delete"
    /\ Becomes(a, [a EXCEPT
                     !.queue = Tail(@), !.managed = FALSE, !.owned = FALSE,
                     !.call = IF ~a.owned THEN None
                              ELSE [op |-> "delete", at |-> "route", full |-> TRUE]])
    /\ store' = (store /\ a.owned)
    /\ UNCHANGED <<api, config, load, late, left>>

\* One request, which waits for the lock.  One that changes nothing is answered,
\* another begins a load; it may also fail, and the handler goes on.  After the
\* last one the ownership is saved.
Ask(a) ==
    /\ a.call # None
    /\ load = None
    /\ LET to == Effect(config, Request(a.call))
           Saved == store' = IF a.call.at = "route" THEN a.call.op = "add" ELSE store
       IN  \/ /\ to = config
              /\ Becomes(a, Answered(a, TRUE))
              /\ Saved
              /\ UNCHANGED <<config, load, left>>
           \/ /\ to # config
              /\ Room
              /\ BeginLoad(to, TRUE)
              /\ UNCHANGED <<app, new, old, store, left>>
           \/ /\ Trouble
              /\ Becomes(a, Answered(a, FALSE))
              /\ Saved \/ UNCHANGED store
              /\ UNCHANGED <<config, load>>
    /\ UNCHANGED <<api, late>>

Handle(a) == BeginAdd(a) \/ BeginDelete(a) \/ Ask(a)

-----------------------------------------------------------------------------
(* The informers and the users *)

\* An instance that watches hears of a change.
Heard(a, e) ==
    IF a # None /\ a.run = "watching" /\ ~a.stopped
    THEN [a EXCEPT !.queue = Append(@, e)] ELSE a

Deliver(e) ==
    /\ app' = Heard(app, e)
    /\ new' = Heard(new, e)
    /\ UNCHANGED old

\* Every 30 seconds the informer hands out what it knows of.
Resync(a) ==
    /\ a.run = "watching"
    /\ ~a.stopped
    /\ api /\ a.queue = <<>> /\ a.call = None
    /\ Becomes(a, [a EXCEPT !.queue = Listing])
    /\ UNCHANGED <<api, config, load, store, late, left>>

Apply ==
    /\ Trouble
    /\ ~api
    /\ api' = TRUE
    /\ Deliver("add")
    /\ UNCHANGED <<config, load, store, late>>

Delete ==
    /\ Trouble
    /\ api
    /\ api' = FALSE
    /\ Deliver("delete")
    /\ UNCHANGED <<config, load, store, late>>

-----------------------------------------------------------------------------
Caddy == Provision \/ Start \/ Stop

Environment == RefuseLoad \/ Reload \/ Apply \/ Delete

Live(a) == Run(a) \/ Handle(a) \/ Resync(a)

Next ==
    \/ Caddy
    \/ LateRequest
    \/ Environment
    \/ \E a \in ({app, new} \ {None}) \cup BagToSet(old) : Live(a)

\* Caddy goes on loading, every goroutine running; informers resync; the admin
\* endpoint works off what it has accepted.
Fairness ==
    /\ WF_vars(Caddy)
    /\ WF_vars(LateRequest)
    /\ WF_vars(Run(app)) /\ WF_vars(Handle(app)) /\ WF_vars(Resync(app))
    /\ WF_vars(\E a \in BagToSet(old) : Run(a))

Spec == Init /\ [][Next]_vars /\ Fairness
-----------------------------------------------------------------------------
(* Properties *)

\* The names that an instance has resolved (Provision, resolveServerName) are
\* those of servers that the configuration has: it never posts to one that an
\* earlier configuration had.
Named(a, c) == (a.https => c.https) /\ (a.http => c.http)

NamesCurrent ==
    /\ Named(app, IF load = None THEN config ELSE load.prev)
    /\ new # None => Named(new, config)

\* A secret watcher that Stop has missed, because run() had not assigned the
\* manager yet (app.go:333, app.go:381), is never stopped; but it has no
\* certificate to push, for the handlers of its instance never run.
StrayWatcherIdle ==
    \A a \in BagToSet(old) : a.stopped /\ (a.manager = "open" => ~a.managed)

\* app.go:245, "Any call to the admin API from within Start() will deadlock":
\* whatever the app is at, every load comes to its end, and the lock is free.
LoadsEnd == [](load # None => <>(load = None))

\* With all the requests of handleAdd and the writes of run, each of which may
\* cost the instance its life, an Ingress ends up with its certificate, its
\* redirect and its whole route, whatever was looked up in vain on the way.  The
\* HTTP server is looked up once, so a failure there leaves out the redirect.
Serves ==
    /\ config.cert
    /\ config.route = "full"
    /\ app.http => config.redirect

Served == <>[](config.https /\ api => Serves)

\* Every write of an instance reloads the configuration and makes a new instance
\* that writes the same again, "would sync again, mutate again" (admin.go:31):
\* it comes to an end nevertheless.
Rests == <>[](load = None)
=============================================================================
