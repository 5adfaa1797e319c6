----------------------------- MODULE TLSPolicy -----------------------------
(***************************************************************************)
(* The CertMagic automation policies of Ingresses (tls_policy.go and       *)
(* upsertTLSPolicy, deleteTLSPolicy of admin.go) and their place in the    *)
(* handlers: handleAdd syncs the policy before the route, handleDelete     *)
(* removes the policy before the route, and either change replaces the app. *)
(* Each Ingress has one route here; see IngressController for the routes   *)
(* as such.                                                                *)
(***************************************************************************)
EXTENDS Naturals, Sequences, FiniteSets, Functions

CONSTANTS
    Keys,        \* Ingress keys
    Policies,    \* what a policy says: hosts, on-demand, CA and its account
    Rejected,    \* policies that Caddy refuses to load
    Default,     \* an Ingress with spec.tls and no policy of its own
    Plain,       \* an Ingress without spec.tls
    None,        \* no Ingress, no policy, no handler call
    MaxChanges,  \* bound: changes of the Ingresses
    MaxFaults,   \* bound: failed requests
    MaxReloads   \* bound: reloads and crashes not of the app's making

ASSUME PoliciesAssumption ==
    /\ IsFiniteSet(Keys)
    /\ Rejected \subseteq Policies
    /\ {Default, Plain, None} \cap Policies = {}
    /\ None \notin {Default, Plain}

ASSUME LimitsAssumption ==
    /\ MaxChanges \in Nat
    /\ MaxFaults \in Nat
    /\ MaxReloads \in Nat

Ingresses == Policies \cup {Default, Plain}

VARIABLES
    ingress,  \* the cluster
    policy,   \* Caddy's automation policies, by the Ingress of their @id
    routes,   \* the Ingresses that Caddy has a route for
    pc,       \* the handler: the request that it makes next
    queue,    \* informer events
    job,      \* the event being handled, or None
    owned,    \* routeIDs: the Ingresses whose route the instance knows of
    late,     \* cancelled requests
    owed,     \* history: an Ingress with spec.tls whose deletion the instance got
              \* a fair chance at
    left      \* what remains of the bounds

instance == <<pc, queue, job, owned>>
vars == <<ingress, policy, routes, instance, late, owed, left>>

Events == [key: Keys, ing: Ingresses, deleted: BOOLEAN]

\* What a request does to Caddy's configuration.
Requests == [key: Keys, what: {"post", "put", "delete"}, policy: Policies \cup {None}]

Steps == {"find", "put", "post", "guess", "route", "findGone", "delete", "unroute"}

\* Requests that change the configuration; a guess is a POST, too.
Changing == {"put", "post", "guess", "delete"}

TypeOK ==
    /\ ingress \in [Keys -> Ingresses \cup {None}]
    /\ policy \in [Keys -> Policies \cup {None}]
    /\ routes \subseteq Keys
    /\ pc \in {"list", "idle"} \cup Steps
    /\ queue \in Seq(Events)
    /\ IF pc \in Steps THEN job \in Events ELSE job = None
    /\ owned \subseteq Keys
    /\ late \subseteq Requests
    /\ owed \subseteq Keys
    /\ left \in [changes: Nat, faults: Nat, reloads: Nat]

Init ==
    /\ ingress \in [Keys -> Ingresses \cup {None}]
    /\ policy = [k \in Keys |-> None]
    /\ routes = {}
    /\ pc = "list"
    /\ queue = <<>>
    /\ job = None
    /\ owned = {}
    /\ late = {}
    /\ owed = {}
    /\ left = [changes |-> MaxChanges, faults |-> MaxFaults,
               reloads |-> MaxReloads]

Restart ==
    /\ pc' = "list"
    /\ queue' = <<>>
    /\ job' = None
    /\ owned' = {}

-----------------------------------------------------------------------------
(* Caddy.  An insertion under an @id that exists is refused, be it a POST to *)
(* the list or a PUT, which inserts before the element (admin.go:65).        *)

Accepted(q) ==
    IF q.what = "delete"
    THEN policy[q.key] # None
    ELSE policy[q.key] = None /\ q.what = "post" /\ q.policy \notin Rejected

Apply(q) == policy' = [policy EXCEPT ![q.key] = q.policy]

\* The request the handler is about to make.
Request == [key    |-> job.key,
            what   |-> IF pc = "guess" THEN "post" ELSE pc,
            policy |-> IF pc = "delete" THEN None ELSE job.ing]

\* A cancelled request may be processed late.
Cancelled == IF pc \in Changing THEN {Request} ELSE {}

-----------------------------------------------------------------------------
Present == {k \in Keys : ingress[k] # None}

\* One event for each Ingress, in any order.
Listings ==
    LET n == Cardinality(Present)
    IN  {[i \in 1..n |-> [key |-> f[i], ing |-> ingress[f[i]],
                          deleted |-> FALSE]] : f \in Bijection(1..n, Present)}

List ==
    /\ pc = "list"
    /\ pc' = "idle"
    /\ queue' \in Listings
    /\ UNCHANGED <<ingress, policy, routes, job, owned, late, owed, left>>

Resync ==
    /\ pc # "list"
    /\ queue = <<>>
    /\ queue' \in Listings
    /\ UNCHANGED <<ingress, policy, routes, pc, job, owned, late, owed, left>>

Idle == pc' = "idle" /\ job' = None

GoTo(step) == pc' = step /\ UNCHANGED job

\* A request that changes the configuration.
Land ==
    /\ Accepted(Request)
    /\ Apply(Request)
    /\ Restart

-----------------------------------------------------------------------------
(* handleAdd: TLSPolicyManager.Sync, then the route. *)

BeginAdd ==
    /\ pc = "idle"
    /\ queue # <<>>
    /\ ~Head(queue).deleted
    /\ job' = Head(queue)
    /\ pc' = IF job'.ing \in Policies THEN "find" ELSE "route"
    /\ queue' = Tail(queue)
    /\ UNCHANGED <<ingress, policy, routes, owned, late, owed, left>>

\* Posted, whether or not the @id exists.
BugFind ==
    /\ pc = "find"
    /\ GoTo("post")
    /\ UNCHANGED <<ingress, policy, routes, queue, owned, late, owed, left>>

\* Deleted and posted again, as upsertRoute does, but without comparing.
BugFindReplace ==
    /\ pc = "find"
    /\ GoTo(IF policy[job.key] = None THEN "post" ELSE "delete")
    /\ UNCHANGED <<ingress, policy, routes, queue, owned, late, owed, left>>

\* upsertTLSPolicy asks whether the @id exists.
Find ==
    /\ pc = "find"
    /\ GoTo(IF policy[job.key] = None THEN "post" ELSE "put")
    /\ UNCHANGED <<ingress, policy, routes, queue, owned, late, owed, left>>

\* routeExists takes every answer but a 200 for "not there": an answer that
\* says neither makes upsertTLSPolicy post, whether or not the @id exists.
FindUnclear ==
    /\ pc = "find"
    /\ left.faults > 0
    /\ left' = [left EXCEPT !.faults = @ - 1]
    /\ GoTo("guess")
    /\ owed' = {}
    /\ UNCHANGED <<ingress, policy, routes, queue, owned, late>>

Write ==
    /\ pc \in {"post", "put", "guess"}
    /\ Land
    /\ UNCHANGED <<ingress, routes, late, owed, left>>

\* An Ingress whose policy could not be synced gets no route.
BugWriteRefused ==
    /\ pc \in {"post", "put", "guess"}
    /\ ~Accepted(Request)
    /\ Idle
    /\ UNCHANGED <<ingress, policy, routes, queue, owned, late, owed, left>>

\* Sync returns an error, which handleAdd logs.
WriteRefused ==
    /\ pc \in {"post", "put", "guess"}
    /\ ~Accepted(Request)
    /\ GoTo("route")
    /\ UNCHANGED <<ingress, policy, routes, queue, owned, late, owed, left>>

Route ==
    /\ pc = "route"
    /\ routes' = routes \cup {job.key}
    /\ IF job.key \in routes
       THEN Idle /\ owned' = owned \cup {job.key} /\ UNCHANGED queue
       ELSE Restart
    /\ UNCHANGED <<ingress, policy, late, owed, left>>

-----------------------------------------------------------------------------
(* handleDelete: TLSPolicyManager.Remove, unless the Ingress has no spec.tls, *)
(* then the routes that the instance knows of.                               *)

\* Only an Ingress that still asks for a policy has one to remove.
BugBeginDelete ==
    /\ pc = "idle"
    /\ queue # <<>>
    /\ Head(queue).deleted
    /\ job' = Head(queue)
    /\ pc' = IF job'.ing \notin Policies THEN "unroute" ELSE "findGone"
    /\ queue' = Tail(queue)
    /\ UNCHANGED <<ingress, policy, routes, owned, late, owed, left>>

BeginDelete ==
    /\ pc = "idle"
    /\ queue # <<>>
    /\ Head(queue).deleted
    /\ job' = Head(queue)
    /\ pc' = IF job'.ing = Plain THEN "unroute" ELSE "findGone"
    /\ queue' = Tail(queue)
    /\ UNCHANGED <<ingress, policy, routes, owned, late, owed, left>>

FindGone ==
    /\ pc = "findGone"
    /\ GoTo(IF policy[job.key] = None THEN "unroute" ELSE "delete")
    /\ UNCHANGED <<ingress, policy, routes, queue, owned, late, owed, left>>

Delete ==
    /\ pc = "delete"
    /\ Land
    /\ UNCHANGED <<ingress, routes, late, owed, left>>

Unroute ==
    /\ pc = "unroute"
    /\ IF job.key \in owned \cap routes
       THEN routes' = routes \ {job.key} /\ Restart
       ELSE Idle /\ owned' = owned \ {job.key} /\ UNCHANGED <<routes, queue>>
    /\ UNCHANGED <<ingress, policy, late, owed, left>>

\* A request for the policy fails, or the account of its CA cannot be read; to
\* deleteTLSPolicy an answer of routeExists that says neither is one more way to
\* give up.
Fails ==
    /\ pc \in {"find", "findGone"} \cup Changing
    /\ left.faults > 0
    /\ left' = [left EXCEPT !.faults = @ - 1]
    /\ GoTo(IF job.deleted THEN "unroute" ELSE "route")
    /\ owed' = {}
    /\ UNCHANGED <<ingress, policy, routes, queue, owned, late>>

-----------------------------------------------------------------------------
(* The surroundings. *)

Notify(e) == queue' = IF pc = "list" THEN queue ELSE Append(queue, e)

Change ==
    /\ left.changes > 0
    /\ left' = [left EXCEPT !.changes = @ - 1]

ApplyIngress ==
    /\ Change
    /\ \E k \in Keys, i \in Ingresses :
          /\ ingress[k] # i
          /\ ingress' = [ingress EXCEPT ![k] = i]
          /\ Notify([key |-> k, ing |-> i, deleted |-> FALSE])
    /\ owed' = {}
    /\ UNCHANGED <<policy, routes, pc, job, owned, late>>

DeleteIngress ==
    /\ Change
    /\ \E k \in Present :
          /\ ingress' = [ingress EXCEPT ![k] = None]
          /\ Notify([key |-> k, ing |-> ingress[k], deleted |-> TRUE])
          /\ owed' = IF pc = "idle" /\ queue = <<>> /\ late = {} /\ ingress[k] # Plain
                     THEN {k} ELSE {}
    /\ UNCHANGED <<policy, routes, pc, job, owned, late>>

\* A reload for another change leaves the configuration; loading the Caddyfile
\* takes policies and routes away.
OtherReload ==
    /\ left.reloads > 0
    /\ left' = [left EXCEPT !.reloads = @ - 1]
    /\ \/ UNCHANGED <<policy, routes>>
       \/ policy' = [k \in Keys |-> None] /\ routes' = {}
    /\ late' \in {late, late \cup Cancelled}
    /\ Restart
    /\ owed' = {}
    /\ UNCHANGED ingress

LateRequest ==
    /\ \E q \in late :
          /\ late' = (late \ {q}) \cup (IF Accepted(q) THEN Cancelled ELSE {})
          /\ IF Accepted(q)
             THEN Apply(q) /\ Restart
             ELSE UNCHANGED <<policy, instance>>
    /\ owed' = {}
    /\ UNCHANGED <<ingress, routes, left>>

-----------------------------------------------------------------------------
Handler ==
    \/ List
    \/ BeginAdd
    \/ Find
    \/ FindUnclear
    \/ Write
    \/ WriteRefused
    \/ Route
    \/ BeginDelete
    \/ FindGone
    \/ Delete
    \/ Unroute
    \/ Fails

Next ==
    \/ Handler
    \/ Resync
    \/ LateRequest
    \/ ApplyIngress
    \/ DeleteIngress
    \/ OtherReload

\* The informer's goroutine goes on and resyncs, the admin endpoint works off
\* its requests.
Fairness == WF_vars(Handler) /\ WF_vars(Resync) /\ WF_vars(LateRequest)

Spec == Init /\ [][Next]_vars /\ Fairness
-----------------------------------------------------------------------------
(* Properties *)

\* What routeExists has found still holds when the write that depends on it is
\* made, whoever else writes in between.  (A guess rests on nothing found.)
ChecksHold ==
    /\ pc = "post" => policy[job.key] = None
    /\ pc \in {"put", "delete"} => policy[job.key] # None

\* And the routes that an instance knows of are there.
PolicyInv == TypeOK /\ ChecksHold /\ owned \subseteq routes

\* Every Ingress that asks for a policy ends up with one, and every Ingress with
\* a route whether or not its policy could be synced, though each policy and
\* each route ends the instance that puts it there.
Installed ==
    <>[](\A k \in Present :
            /\ k \in routes
            /\ ingress[k] \in Policies \ Rejected => policy[k] # None)

\* And reloading ends: an update that is refused reloads nothing.
Settles == <>[](pc # "list")

\* The deletion of an Ingress that has spec.tls takes its policy away, also when
\* its annotations no longer ask for one, unless a fault, a reload or another
\* change gets in its way.  An Ingress that has lost its spec.tls before it is
\* deleted is not among them: handleDelete skips deleteTLSPolicy (app.go:556),
\* and the policy it once had stays for ever.
PolicyRemoved ==
    \A k \in Keys : (k \in owed) ~> (policy[k] = None \/ k \notin owed)
=============================================================================
