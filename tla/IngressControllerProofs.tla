----------------------- MODULE IngressControllerProofs -----------------------
(***************************************************************************)
(* What holds of IngressController for every cluster, every set of hosts   *)
(* and Ingresses, and any number of changes, failures and reloads; and     *)
(* that it implements RouteTable.                                          *)
(***************************************************************************)
EXTENDS IngressController, FiniteSetTheorems, TLAPS

-----------------------------------------------------------------------------
(* The data. *)

\* routeID and the redirect suffix stay within the identifiers.
LEMMA IdsType ==
    ASSUME NEW k \in Keys, NEW h \in Hosts
    PROVE  /\ RouteId(k, h) \in IdsOf(k)
           /\ RedirectId(k, h) \in IdsOf(k)
           /\ RouteId(k, h) \in RouteIds
           /\ RedirectId(k, h) \in RouteIds
<1>1. RouteId(k, h) \in IdsOf(k) /\ RedirectId(k, h) \in IdsOf(k)
  BY DEF IdsOf
<1>2. IdsOf(k) \subseteq RouteIds
  BY DEF RouteIds
<1> QED  BY <1>1, <1>2

\* The rules of an Ingress name hosts and backends.
LEMMA SpecType ==
    ASSUME NEW ing \in IngressSpecs
    PROVE  /\ ing \in [ours: BOOLEAN, tls: BOOLEAN, sslRedirect: BOOLEAN,
                       rules: Seq(Rules)]
           /\ \A i \in DOMAIN ing.rules :
                 /\ i \in Nat \ {0}
                 /\ ing.rules[i] \in Rules
                 /\ ing.rules[i].host \in Hosts
                 /\ ing.rules[i].backend \in Backends \cup {NoBackend}
<1>1. ing \in [ours: BOOLEAN, tls: BOOLEAN, sslRedirect: BOOLEAN, rules: Seq(Rules)]
  BY SpecsAssumption
<1>2. ing.rules \in Seq(Rules)
  BY <1>1
<1>3. \A i \in DOMAIN ing.rules : i \in Nat \ {0} /\ ing.rules[i] \in Rules
  BY <1>2
<1> QED  BY <1>1, <1>3 DEF Rules

\* convertIngress and httpRedirectRoutes make routes.
LEMMA RoutesType ==
    ASSUME NEW ing \in IngressSpecs, NEW r \in Rules
    PROVE  /\ r.backend # NoBackend => RouteOf(ing, r) \in Routes
           /\ RedirectOf(r) \in Routes
BY SpecType DEF Rules, RouteOf, RedirectOf, Routes, Bodies

\* newIDs of handleAdd holds route identifiers.
LEMMA NewIDsType ==
    ASSUME NEW k \in Keys, NEW ing \in IngressSpecs
    PROVE  NewIDs(k, ing) \subseteq RouteIds
BY SpecType, IdsType DEF NewIDs

\* The informer lists Ingresses of the cluster.
LEMMA ListingsType ==
    ASSUME TypeOK
    PROVE  Listings \subseteq Seq(Events)
<1>1. IsFiniteSet(Present) /\ Cardinality(Present) \in Nat
  <2>1. Present \subseteq Keys
    BY DEF Present
  <2> QED  BY <2>1, KeysAssumption, FS_Subset, FS_CardinalityType
<1> SUFFICES ASSUME NEW q \in Listings PROVE q \in Seq(Events)
  OBVIOUS
<1> DEFINE n == Cardinality(Present)
<1>2. PICK f \in [1..n -> Present] :
         q = [i \in 1..n |-> [type |-> "apply", key |-> f[i], ing |-> api[f[i]]]]
  BY DEF Listings
<1>3. ASSUME NEW i \in 1..n
      PROVE  [type |-> "apply", key |-> f[i], ing |-> api[f[i]]] \in Events
  <2>1. f[i] \in Present
    OBVIOUS
  <2>2. f[i] \in Keys /\ api[f[i]] \in IngressSpecs
    BY <2>1 DEF Present, TypeOK
  <2> QED  BY <2>2 DEF Events
<1>4. q \in [1..n -> Events]
  BY <1>2, <1>3
<1> QED  BY <1>1, <1>4

-----------------------------------------------------------------------------
(* Requests and reloads. *)

\* The handler call in progress is about a key and an Ingress.
LEMMA JobType ==
    ASSUME TypeOK, pc \in Working
    PROVE  /\ job \in Jobs
           /\ job.key \in Keys
           /\ job.ing \in IngressSpecs
           /\ NewIDs(job.key, job.ing) \subseteq RouteIds
BY NewIDsType DEF TypeOK, Jobs

\* In an upsert loop the identifier and the wanted route are well typed.
LEMMA LoopType ==
    ASSUME TypeOK, Upserting
    PROVE  /\ pc \in Working
           /\ Rule \in Rules
           /\ Id \in IdsOf(job.key)
           /\ Id \in RouteIds
           /\ Wanted \in Routes
<1>1. pc \in {"redirect", "main"} /\ pc \in Working
  BY DEF Upserting, InLoop, Working
<1>2. job.key \in Keys /\ job.ing \in IngressSpecs
  BY <1>1, JobType
<1>3. Rule \in Rules /\ Rule.host \in Hosts
  BY <1>2, SpecType DEF Upserting, InLoop, Rule, Rules
<1>4. Id \in IdsOf(job.key) /\ Id \in RouteIds
  BY <1>2, <1>3, IdsType DEF Id
<1>5. Wanted \in Routes
  <2>1. CASE pc = "redirect"
    BY <2>1, <1>2, <1>3, RoutesType DEF Wanted
  <2>2. CASE pc = "main"
    BY <2>2, <1>2, <1>3, RoutesType DEF Wanted, Upserting, Skipped
  <2> QED  BY <1>1, <2>1, <2>2
<1> QED  BY <1>1, <1>3, <1>4, <1>5

\* What the handlers send to the admin API are requests.
LEMMA RequestsType ==
    ASSUME TypeOK
    PROVE  /\ UpsertRequests \subseteq Requests
           /\ DeleteRequests \subseteq Requests
<1>1. UpsertRequests \subseteq Requests
  BY LoopType DEF UpsertRequests, Current, Requests, Delete
<1>2. DeleteRequests \subseteq Requests
  <2>1. Deleting => job.todo \subseteq RouteIds
    BY JobType DEF Deleting, Working, Jobs
  <2> QED  BY <2>1 DEF DeleteRequests, Requests, Delete
<1> QED  BY <1>1, <1>2

\* A new instance is well typed.
LEMMA RestartType ==
    ASSUME TypeOK, Restart
    PROVE  /\ durable' \in BOOLEAN
           /\ routeIDs' \in [Keys -> SUBSET RouteIds]
           /\ queue' \in Seq(Events)
           /\ pc' = "restore"
           /\ pc' \notin Working
           /\ job' = None
           /\ synced' \in [Keys -> Syncs \cup {None}]
BY DEF Restart, TypeOK, Working

\* A request that lands leaves a well typed configuration and instance.
LEMMA LandType ==
    ASSUME TypeOK, NEW q \in Requests, Land(q)
    PROVE  config' \in [RouteIds -> Routes \cup {Absent}] /\ Restart
BY DEF Land, TypeOK, Requests

-----------------------------------------------------------------------------
(* Type correctness. *)

\* Types: the initial states.
LEMMA InitType == Init => TypeOK
<1> SUFFICES ASSUME Init PROVE TypeOK
  OBVIOUS
<1>1. left \in [changes: Nat, faults: Nat, reloads: Nat, late: Nat]
  BY BoundsAssumption DEF Init
<1>2. queue \in Seq(Events)
  BY DEF Init
<1>3. IF pc \in Working THEN job \in Jobs ELSE job = None
  BY DEF Init, Working
<1> QED  BY <1>1, <1>2, <1>3 DEF Init, TypeOK

\* Types: a failure uses up its bound.
LEMMA FaultType ==
    ASSUME TypeOK, Fault
    PROVE  left' \in [changes: Nat, faults: Nat, reloads: Nat, late: Nat]
BY DEF TypeOK, Fault

\* Types: upsertRoute is done with a rule.
LEMMA NextRuleType ==
    ASSUME job \in Jobs, NEW failed \in SUBSET RouteIds, NextRule(failed)
    PROVE  job' \in Jobs
<1>1. job.n + 1 \in Nat \ {0}
  BY DEF Jobs
<1>2. job' = [key |-> job.key, ing |-> job.ing, n |-> job.n + 1, attempt |-> 0,
              todo |-> job.todo, failed |-> failed]
  BY DEF NextRule, Jobs
<1> QED  BY <1>1, <1>2 DEF Jobs

\* Types: upsertRoute fails an attempt.
LEMMA FailAttemptType ==
    ASSUME TypeOK, Upserting, FailAttempt
    PROVE  job' \in Jobs
<1>1. job \in Jobs /\ job.failed \cup {Id} \in SUBSET RouteIds
  <2>1. job \in Jobs
    BY JobType DEF Upserting, InLoop, Working
  <2> QED  BY <2>1, LoopType DEF Jobs
<1>2. CASE job.attempt < 2
  <2>1. job.attempt + 1 \in 0..2
    BY <1>1, <1>2 DEF Jobs
  <2>2. job' = [job EXCEPT !.attempt = @ + 1]
    BY <1>2 DEF FailAttempt
  <2> QED  BY <1>1, <2>1, <2>2 DEF Jobs
<1>3. CASE ~(job.attempt < 2)
  BY <1>1, <1>3, NextRuleType DEF FailAttempt
<1> QED  BY <1>2, <1>3

\* Types: handleAdd turns to the stale routes.
LEMMA EnterStaleType ==
    ASSUME TypeOK, NEW j \in Jobs, EnterStale(j)
    PROVE  pc' \in Working /\ job' \in Jobs
<1>1. routeIDs[j.key] \ NewIDs(j.key, j.ing) \in SUBSET RouteIds
  BY DEF TypeOK, Jobs
<1>2. job' = [key |-> j.key, ing |-> j.ing, n |-> 1, attempt |-> j.attempt,
              todo |-> routeIDs[j.key] \ NewIDs(j.key, j.ing), failed |-> j.failed]
  BY DEF EnterStale, Jobs
<1> QED  BY <1>1, <1>2 DEF EnterStale, Jobs, Working

\* Types: every step, one by one.
LEMMA TypeStep == TypeOK /\ [Next]_vars => TypeOK'
<1> SUFFICES ASSUME TypeOK, [Next]_vars PROVE TypeOK'
  OBVIOUS
<1>1. CASE Restore
  <2>1. routeIDs' \in [Keys -> SUBSET RouteIds]
    BY <1>1 DEF Restore, LoadAll, TypeOK
  <2>2. durable' \in BOOLEAN
    BY <1>1, FlagsAssumption DEF Restore, TypeOK
  <2>3. left' \in [changes: Nat, faults: Nat, reloads: Nat, late: Nat]
    BY <1>1, FaultType DEF Restore, TypeOK
  <2>4. pc' = "list" /\ job' = None
    BY <1>1 DEF Restore, TypeOK, Working
  <2> QED  BY <1>1, <2>1, <2>2, <2>3, <2>4 DEF Restore, TypeOK, Working
<1>2. CASE List
  BY <1>2, ListingsType DEF List, TypeOK, Working
<1>3. CASE Resync
  BY <1>3, ListingsType DEF Resync, TypeOK
<1>4. CASE HandleAdd
  <2>1. CASE IgnoreForeign
    BY <2>1 DEF IgnoreForeign, TypeOK
  <2>2. CASE BeginAdd
    <3> DEFINE e == Head(queue)
               j == [key |-> e.key, ing |-> e.ing, n |-> 1, attempt |-> 0,
                     todo |-> {}, failed |-> {}]
    <3>1. queue' \in Seq(Events) /\ e \in Events
      BY <2>2 DEF BeginAdd, TypeOK
    <3>2. j \in Jobs
      BY <3>1 DEF Events, Jobs
    <3>3. synced' \in [Keys -> Syncs \cup {None}]
      BY <2>2 DEF BeginAdd, TypeOK
    <3>4. \/ pc' = "redirect" /\ job' = j
          \/ EnterStale(j)
      BY <2>2 DEF BeginAdd
    <3>5. pc' \in Working /\ job' \in Jobs
      BY <3>2, <3>4, EnterStaleType DEF Working
    <3> QED  BY <2>2, <3>1, <3>3, <3>5 DEF BeginAdd, TypeOK
  <2>3. CASE SkipRule
    <3>1. job \in Jobs /\ job.failed \in SUBSET RouteIds
      BY <2>3, JobType DEF SkipRule, InLoop, Jobs, Working
    <3>2. job' \in Jobs
      BY <2>3, <3>1, NextRuleType DEF SkipRule
    <3>3. pc' \in Working
      BY <2>3 DEF SkipRule, InLoop, Working
    <3> QED  BY <2>3, <3>2, <3>3 DEF SkipRule, TypeOK
  <2>4. CASE RouteCurrent
    <3>1. job \in Jobs /\ job.failed \in SUBSET RouteIds
      BY <2>4, JobType DEF RouteCurrent, Upserting, InLoop, Jobs, Working
    <3>2. job' \in Jobs
      BY <2>4, <3>1, NextRuleType DEF RouteCurrent
    <3>3. pc' \in Working
      BY <2>4 DEF RouteCurrent, Upserting, InLoop, Working
    <3> QED  BY <2>4, <3>2, <3>3 DEF RouteCurrent, TypeOK
  <2>5. CASE UpsertRoute
    <3>1. PICK q \in UpsertRequests : Land(q)
      BY <2>5 DEF UpsertRoute
    <3>2. q \in Requests
      BY <3>1, RequestsType
    <3> QED  BY <2>5, <3>1, <3>2, LandType, RestartType DEF UpsertRoute, TypeOK
  <2>6. CASE UpsertRejected
    <3>1. Upserting
      BY <2>6 DEF UpsertRejected, UpsertRequests
    <3> QED  BY <2>6, <3>1, FailAttemptType
             DEF UpsertRejected, Upserting, InLoop, Working, TypeOK
  <2>7. CASE UpsertError
    <3>1. Upserting
      BY <2>7 DEF UpsertError
    <3> QED  BY <2>7, <3>1, FailAttemptType, FaultType
             DEF UpsertError, Upserting, InLoop, Working, TypeOK
  <2>8. CASE EndRedirects
    <3>1. job \in Jobs
      BY <2>8, JobType DEF EndRedirects, Working
    <3> QED  BY <2>8, <3>1, EnterStaleType DEF EndRedirects, TypeOK
  <2>9. CASE SkipPlain
    BY <2>9 DEF SkipPlain, TypeOK, Working
  <2>10. CASE EndStale
    BY <2>10 DEF EndStale, TypeOK, Working
  <2>11. CASE EndMain
    BY <2>11 DEF EndMain, TypeOK, Working
  <2>12. CASE Commit
    <3>1. /\ job.key \in Keys
          /\ job.ing \in IngressSpecs
          /\ job.failed \in SUBSET RouteIds
          /\ NewIDs(job.key, job.ing) \subseteq RouteIds
      BY <2>12, JobType DEF Commit, Working, Jobs
    <3>2. /\ routeIDs' \in [Keys -> SUBSET RouteIds]
          /\ store' \in [Keys -> SUBSET RouteIds]
      BY <2>12, <3>1 DEF Commit, Stored, TypeOK
    <3>3. PICK saved \in BOOLEAN :
             synced' = [synced EXCEPT ![job.key] =
                           [ing |-> job.ing, failed |-> job.failed, saved |-> saved]]
      BY <2>12 DEF Commit
    <3>4. [ing |-> job.ing, failed |-> job.failed, saved |-> saved] \in Syncs
      BY <3>1 DEF Syncs
    <3>5. synced' \in [Keys -> Syncs \cup {None}]
      BY <3>3, <3>4 DEF TypeOK
    <3>6. left' \in [changes: Nat, faults: Nat, reloads: Nat, late: Nat]
      BY <2>12, FaultType DEF Commit, TypeOK
    <3> QED  BY <2>12, <3>2, <3>5, <3>6 DEF Commit, TypeOK, Working
  <2> QED  BY <1>4, <2>1, <2>2, <2>3, <2>4, <2>5, <2>6, <2>7, <2>8, <2>9, <2>10,
              <2>11, <2>12 DEF HandleAdd
<1>5. CASE HandleDelete
  <2>1. CASE IgnoreTombstone
    BY <2>1 DEF IgnoreTombstone, TypeOK
  <2>2. CASE BeginDelete
    <3> DEFINE e == Head(queue)
    <3>1. queue' \in Seq(Events) /\ e \in Events
      BY <2>2 DEF BeginDelete, TypeOK
    <3>2. job' \in Jobs
      BY <2>2, <3>1 DEF BeginDelete, Events, Jobs, TypeOK
    <3>3. /\ routeIDs' \in [Keys -> SUBSET RouteIds]
          /\ synced' \in [Keys -> Syncs \cup {None}]
      BY <2>2 DEF BeginDelete, TypeOK
    <3> QED  BY <2>2, <3>1, <3>2, <3>3 DEF BeginDelete, TypeOK, Working
  <2>3. CASE DeleteRoute
    <3>1. PICK q \in DeleteRequests : Land(q)
      BY <2>3 DEF DeleteRoute
    <3>2. q \in Requests
      BY <3>1, RequestsType
    <3> QED  BY <2>3, <3>1, <3>2, LandType, RestartType DEF DeleteRoute, TypeOK
  <2>4. CASE DeleteMissing
    BY <2>4, JobType DEF DeleteMissing, Deleting, Working, Jobs, TypeOK
  <2>5. CASE DeleteError
    BY <2>5, JobType, FaultType DEF DeleteError, Deleting, Working, Jobs, TypeOK
  <2>6. CASE Forget
    <3>1. store' \in [Keys -> SUBSET RouteIds]
      BY <2>6 DEF Forget, Stored, TypeOK
    <3>2. left' \in [changes: Nat, faults: Nat, reloads: Nat, late: Nat]
      BY <2>6, FaultType DEF Forget, Stored, TypeOK
    <3> QED  BY <2>6, <3>1, <3>2 DEF Forget, TypeOK, Working
  <2> QED  BY <1>5, <2>1, <2>2, <2>3, <2>4, <2>5, <2>6 DEF HandleDelete
<1>6. CASE LateRequest
  <2>1. PICK q \in late : /\ late' = late \ {q}
                          /\ \/ Land(q)
                             \/ ~Accepted(q) /\ UNCHANGED <<config, instance>>
    BY <1>6 DEF LateRequest
  <2>2. late' \in SUBSET Requests /\ q \in Requests
    BY <2>1 DEF TypeOK
  <2>3. CASE Land(q)
    BY <1>6, <2>2, <2>3, LandType, RestartType DEF LateRequest, TypeOK
  <2>4. CASE UNCHANGED <<config, instance>>
    BY <1>6, <2>2, <2>4 DEF LateRequest, instance, TypeOK
  <2> QED  BY <2>1, <2>3, <2>4
<1>7. CASE Apply
  <2>1. PICK k \in Keys, s \in IngressSpecs :
           /\ api' = [api EXCEPT ![k] = s]
           /\ queue' = IF Watching
                       THEN Append(queue, [type |-> "apply", key |-> k, ing |-> s])
                       ELSE queue
    BY <1>7 DEF Apply
  <2>2. queue' \in Seq(Events)
    <3>1. [type |-> "apply", key |-> k, ing |-> s] \in Events
      BY DEF Events
    <3> QED  BY <2>1, <3>1 DEF TypeOK
  <2>3. left' \in [changes: Nat, faults: Nat, reloads: Nat, late: Nat]
    BY <1>7 DEF Apply, UserMayAct, TypeOK
  <2> QED  BY <1>7, <2>1, <2>2, <2>3 DEF Apply, TypeOK
<1>8. CASE Remove
  <2>1. PICK k \in Present, t \in {"delete", "tombstone"} :
           /\ t = "tombstone" => Watching /\ left.faults > 0
           /\ api' = [api EXCEPT ![k] = None]
           /\ queue' = IF Watching
                       THEN Append(queue, [type |-> t, key |-> k, ing |-> api[k]])
                       ELSE queue
           /\ left' = [left EXCEPT
                         !.changes = @ - 1,
                         !.faults = IF t = "tombstone" THEN @ - 1 ELSE @]
    BY <1>8 DEF Remove
  <2>2. k \in Keys /\ api[k] \in IngressSpecs
    BY DEF Present, TypeOK
  <2>3. queue' \in Seq(Events)
    <3>1. [type |-> t, key |-> k, ing |-> api[k]] \in Events
      BY <2>2 DEF Events
    <3> QED  BY <2>1, <3>1 DEF TypeOK
  <2>4. left' \in [changes: Nat, faults: Nat, reloads: Nat, late: Nat]
    <3>1. left.changes - 1 \in Nat
      BY <1>8 DEF Remove, UserMayAct, TypeOK
    <3>2. (IF t = "tombstone" THEN left.faults - 1 ELSE left.faults) \in Nat
      BY <2>1 DEF TypeOK
    <3> QED  BY <2>1, <3>1, <3>2 DEF TypeOK
  <2> QED  BY <1>8, <2>1, <2>2, <2>3, <2>4 DEF Remove, TypeOK
<1>9. CASE ExternalReload
  <2>1. config' \in [RouteIds -> Routes \cup {Absent}]
    BY <1>9 DEF ExternalReload, Wiped, TypeOK
  <2>2. late' \in SUBSET Requests
    BY <1>9, RequestsType DEF ExternalReload, TypeOK
  <2>3. left' \in [changes: Nat, faults: Nat, reloads: Nat, late: Nat]
    <3>1. left.reloads - 1 \in Nat
      BY <1>9 DEF ExternalReload, TypeOK
    <3>2. left.late > 0 => left.late - 1 \in Nat
      BY DEF TypeOK
    <3>3. \/ left' = [left EXCEPT !.reloads = @ - 1]
          \/ left.late > 0 /\ left' = [left EXCEPT !.reloads = @ - 1, !.late = @ - 1]
      BY <1>9 DEF ExternalReload
    <3> QED  BY <3>1, <3>2, <3>3 DEF TypeOK
  <2> QED  BY <1>9, <2>1, <2>2, <2>3, RestartType DEF ExternalReload, TypeOK
<1>10. CASE Crash
  <2>1. config' \in [RouteIds -> Routes \cup {Absent}]
    BY <1>10 DEF Crash, Wiped, TypeOK
  <2>2. left' \in [changes: Nat, faults: Nat, reloads: Nat, late: Nat]
    BY <1>10 DEF Crash, TypeOK
  <2> QED  BY <1>10, <2>1, <2>2, RestartType DEF Crash, TypeOK
<1>11. CASE UNCHANGED vars
  BY <1>11 DEF vars, instance, TypeOK
<1> QED  BY <1>1, <1>2, <1>3, <1>4, <1>5, <1>6, <1>7, <1>8, <1>9, <1>10, <1>11
         DEF Next, Controller, Environment

\* The type invariant of app.go's state and of Caddy's configuration.
THEOREM TypeCorrect == Spec => []TypeOK
BY InitType, TypeStep, PTL DEF Spec

-----------------------------------------------------------------------------
(* What "synced" stands for. *)

\* handleAdd wants every route on the server it is for.
LEMMA WantedPlaced ==
    ASSUME NEW ing \in IngressSpecs, NEW r \in Rules
    PROVE  /\ r.backend # NoBackend => WellPlaced(RouteOf(ing, r))
           /\ WellPlaced(RedirectOf(r))
<1>1. ing.tls \in BOOLEAN
  BY SpecType
<1>2. r.backend # NoBackend => WellPlaced(RouteOf(ing, r))
  BY <1>1, BackendsAssumption DEF WellPlaced, RouteOf, Rules
<1>3. WellPlaced(RedirectOf(r))
  BY BackendsAssumption DEF WellPlaced, RedirectOf
<1> QED  BY <1>2, <1>3

\* So do the requests it sends.
LEMMA RequestsPlaced ==
    ASSUME TypeOK, NEW q \in UpsertRequests \cup DeleteRequests
    PROVE  WellPlaced(q.route)
<1>1. CASE q.route = Absent
  BY <1>1 DEF WellPlaced
<1>2. CASE q.route # Absent
  <2>1. Upserting /\ q.route = Wanted
    BY <1>2 DEF UpsertRequests, Current, DeleteRequests, Delete
  <2>2. Rule \in Rules /\ job.ing \in IngressSpecs
    BY <2>1, LoopType, JobType
  <2> QED  BY <2>1, <2>2, WantedPlaced DEF Wanted, Upserting, Skipped, InLoop
<1> QED  BY <1>1, <1>2

\* A route with the wanted content is the wanted route.
LEMMA CurrentServes ==
    ASSUME TypeOK, Placement, Upserting,
           config[Id] # Absent, config[Id].body = Wanted.body
    PROVE  Serves(config, Id, Wanted)
<1>1. /\ Id \in RouteIds
      /\ Rule \in Rules
      /\ job.ing \in IngressSpecs
  BY LoopType, JobType
<1>2. WellPlaced(config[Id])
  BY <1>1 DEF Placement
<1>3. WellPlaced(Wanted)
  BY <1>1, WantedPlaced DEF Wanted, Upserting, Skipped, InLoop
<1>4. Wanted.body.backend \in Backends \cup {HTTPSRedirect}
  BY LoopType DEF Routes, Bodies
<1>5. Wanted # Absent
  BY LoopType, RoutesAssumption
<1>6. ASSUME Wanted.body.backend \notin ServerNeutral
      PROVE  config[Id].server = Wanted.server
  <2>1. CASE Wanted.body.backend = HTTPSRedirect
    BY <1>2, <1>3, <1>5, <2>1 DEF WellPlaced
  <2>2. CASE Wanted.body.backend \in Backends \ ServerNeutral
    BY <1>2, <1>3, <1>5, <2>2 DEF WellPlaced
  <2> QED  BY <1>4, <1>6, <2>1, <2>2
<1> QED  BY <1>6 DEF Serves

\* A new instance has nothing to show.
LEMMA RestartSync ==
    ASSUME TypeOK, Restart, Placement'
    PROVE  Placement' /\ Progress' /\ Bookkeeping' /\ SyncedInstalled'
<1>1. pc' = "restore" /\ pc' \notin Working /\ synced' = [k \in Keys |-> None]
  BY DEF Restart, Working
<1>2. \A k \in Keys : synced'[k] = None
  BY <1>1
<1>3. Progress'
  BY <1>1 DEF Progress
<1>4. Bookkeeping'
  BY <1>1, <1>2 DEF Bookkeeping
<1>5. SyncedInstalled'
  BY <1>2 DEF SyncedInstalled
<1> QED  BY <1>3, <1>4, <1>5

\* A change of the configuration keeps the routes in place, and ends the
\* instance.
LEMMA LandSync ==
    ASSUME TypeOK, Placement, NEW q \in Requests, WellPlaced(q.route),
           Land(q), late' \subseteq late
    PROVE  Placement' /\ Progress' /\ Bookkeeping' /\ SyncedInstalled'
<1>1. Restart /\ config' = [config EXCEPT ![q.id] = q.route]
  BY DEF Land
<1>2. Placement'
  BY <1>1 DEF Placement, TypeOK, Requests
<1> QED  BY <1>1, <1>2, RestartSync

\* Most steps leave the configuration, Redis and the ownership map as they are.
LEMMA StillSynced ==
    ASSUME SyncedInstalled, synced' = synced,
           UNCHANGED <<config, store, durable, routeIDs>>
    PROVE  SyncedInstalled'
BY DEF SyncedInstalled

\* Steps that change neither routes nor requests keep them in place.
LEMMA StillPlaced ==
    ASSUME Placement, config' = config, late' \subseteq late
    PROVE  Placement'
BY DEF Placement

\* Steps of the environment leave the handler call alone, too.
LEMMA StillInstance ==
    ASSUME SyncInv, TypeOK',
           UNCHANGED <<config, store, durable, routeIDs, pc, job, synced>>,
           late' \subseteq late
    PROVE  SyncInv'
<1>1. SyncedInstalled'
  BY StillSynced DEF SyncInv
<1>2. Placement'
  BY StillPlaced DEF SyncInv
<1>3. Progress'
  BY DEF SyncInv, Progress
<1>4. Bookkeeping'
  BY DEF SyncInv, Bookkeeping
<1> QED  BY <1>1, <1>2, <1>3, <1>4 DEF SyncInv

\* In a loop the call gets on with: the next rule is served, given up, or asks
\* for nothing.
LEMMA NextRuleProgress ==
    ASSUME SyncInv, InLoop, UNCHANGED <<config, pc>>,
           NEW failed, job.failed \subseteq failed, NextRule(failed),
           Upserting => Id \in failed \/ Serves(config, Id, Wanted)
    PROVE  Progress'
<1>1. /\ job \in Jobs
      /\ pc' \in {"redirect", "main"} /\ pc' = pc /\ pc \in Working
  BY JobType DEF SyncInv, InLoop, Working
<1>2. /\ job'.key = job.key /\ job'.ing = job.ing /\ job'.failed = failed
      /\ job'.n = job.n + 1
  BY <1>1 DEF NextRule, Jobs
<1>3. DOMAIN job.ing.rules \subseteq Nat /\ job.n \in Nat
  BY <1>1, SpecType DEF Jobs
<1>4. ASSUME pc = "redirect", NEW i \in Redirected(job.ing), i < job.n + 1
      PROVE  \/ RedirectId(job.key, job.ing.rules[i].host) \in failed
             \/ RedirectServed(config, job.key, job.ing, i)
  <2>1. CASE i < job.n
    BY <1>1, <1>4, <2>1 DEF SyncInv, Progress
  <2>2. CASE i = job.n
    BY <1>4, <2>2 DEF Redirected, RedirectServed, Upserting, Skipped, Id, Wanted, Rule
  <2> QED  BY <1>3, <1>4, <2>1, <2>2 DEF Redirected
<1>5. ASSUME pc = "main", NEW i \in Redirected(job.ing)
      PROVE  \/ RedirectId(job.key, job.ing.rules[i].host) \in failed
             \/ RedirectServed(config, job.key, job.ing, i)
  BY <1>1, <1>5 DEF SyncInv, Progress
<1>6. ASSUME pc = "main", NEW i \in Routed(job.ing), i < job.n + 1
      PROVE  \/ RouteId(job.key, job.ing.rules[i].host) \in failed
             \/ RouteServed(config, job.key, job.ing, i)
  <2>1. CASE i < job.n
    BY <1>1, <1>6, <2>1 DEF SyncInv, Progress
  <2>2. CASE i = job.n
    BY <1>6, <2>2 DEF Routed, RouteServed, Upserting, Skipped, Id, Wanted, Rule
  <2> QED  BY <1>3, <1>6, <2>1, <2>2 DEF Routed
<1> QED  BY <1>1, <1>2, <1>4, <1>5, <1>6 DEF Progress

\* A failed attempt: the call tries again, or gives the route up.
LEMMA FailAttemptProgress ==
    ASSUME SyncInv, InLoop, FailAttempt, UNCHANGED <<config, pc>>
    PROVE  Progress'
<1>1. job \in Jobs /\ pc \in Working
  BY JobType DEF SyncInv, InLoop, Working
<1>2. CASE job.attempt < 2
  <2>1. /\ job'.key = job.key /\ job'.ing = job.ing /\ job'.failed = job.failed
        /\ job'.n = job.n
    BY <1>1, <1>2 DEF FailAttempt, Jobs
  <2> QED  BY <2>1 DEF SyncInv, Progress
<1>3. CASE ~(job.attempt < 2)
  <2>1. NextRule(job.failed \cup {Id})
    BY <1>3 DEF FailAttempt
  <2> QED  BY <2>1, NextRuleProgress
<1> QED  BY <1>2, <1>3

\* The end of a loop: every rule has had its turn.
LEMMA LoopOver ==
    ASSUME TypeOK, pc \in Working, job.n \notin DOMAIN job.ing.rules,
           NEW i \in DOMAIN job.ing.rules
    PROVE  i < job.n
<1>1. job.ing.rules \in Seq(Rules) /\ job.n \in Nat \ {0}
  BY JobType, SpecType DEF Jobs
<1>2. DOMAIN job.ing.rules = 1..Len(job.ing.rules) /\ Len(job.ing.rules) \in Nat
  BY <1>1
<1> QED  BY <1>1, <1>2

-----------------------------------------------------------------------------
(* SyncInv is inductive. *)

\* The initial states have nothing to show.
LEMMA InitSync == Init => SyncInv
<1> SUFFICES ASSUME Init PROVE SyncInv
  OBVIOUS
<1>1. TypeOK
  BY InitType
<1>2. Placement
  BY DEF Init, Placement, WellPlaced
<1>3. Progress /\ Bookkeeping
  BY DEF Init, Progress, Bookkeeping, Working
<1>4. SyncedInstalled
  BY DEF Init, SyncedInstalled
<1> QED  BY <1>1, <1>2, <1>3, <1>4 DEF SyncInv

\* The steps of handleAdd keep SyncInv; Commit turns Progress into synced.
LEMMA HandleAddSync == SyncInv /\ TypeOK' /\ HandleAdd => SyncInv'
<1> SUFFICES ASSUME SyncInv, TypeOK', HandleAdd PROVE SyncInv'
  OBVIOUS
<1> USE DEF SyncInv
<1>1. CASE IgnoreForeign
  BY <1>1, StillInstance DEF IgnoreForeign
<1>2. CASE BeginAdd
  <2> DEFINE e == Head(queue)
             j == [key |-> e.key, ing |-> e.ing, n |-> 1, attempt |-> 0,
                   todo |-> {}, failed |-> {}]
  <2>1. /\ pc = "idle"
        /\ e \in Events
        /\ synced' = [synced EXCEPT ![e.key] = None]
        /\ UNCHANGED <<config, store, durable, routeIDs, late>>
    BY <1>2 DEF BeginAdd, TypeOK
  <2>2. \/ Redirects(e.ing) /\ pc' = "redirect" /\ job' = j
        \/ ~Redirects(e.ing) /\ EnterStale(j)
    BY <1>2 DEF BeginAdd
  <2>3. /\ pc' \in {"redirect", "stale"} /\ (pc' = "stale" => ~Redirects(e.ing))
        /\ job'.key = e.key /\ job'.ing = e.ing /\ job'.n = 1
    <3>1. j \in Jobs
      BY <2>1 DEF Events, Jobs
    <3>2. CASE Redirects(e.ing) /\ pc' = "redirect" /\ job' = j
      BY <3>2
    <3>3. CASE ~Redirects(e.ing) /\ EnterStale(j)
      <4>1. /\ pc' = "stale"
            /\ job' = [j EXCEPT !.n = 1,
                               !.todo = routeIDs[j.key] \ NewIDs(j.key, j.ing)]
        BY <3>3 DEF EnterStale
      <4>2. job'.key = j.key /\ job'.ing = j.ing /\ job'.n = 1
        BY <3>1, <4>1 DEF Jobs
      <4> QED  BY <3>3, <4>1, <4>2
    <3> QED  BY <2>2, <3>2, <3>3
  <2>4. SyncedInstalled'
    BY <2>1 DEF SyncedInstalled, TypeOK
  <2>5. Placement'
    BY <2>1, StillPlaced
  <2>6. Progress'
    <3>1. \A i \in Redirected(e.ing) : i \in Nat \ {0}
      BY <2>1, SpecType DEF Redirected, Events
    <3>2. \A i \in Redirected(e.ing) : ~(pc' # "redirect" \/ i < 1)
      BY <2>3, <3>1 DEF Redirected
    <3> QED  BY <2>3, <3>2 DEF Progress
  <2>7. Bookkeeping'
    BY <2>1, <2>3 DEF Bookkeeping, TypeOK, Events
  <2> QED  BY <2>4, <2>5, <2>6, <2>7
<1>3. CASE SkipRule
  <2>1. ~Upserting /\ InLoop
    BY <1>3 DEF SkipRule, Upserting
  <2>2. Progress'
    BY <1>3, <2>1, NextRuleProgress DEF SkipRule
  <2>3. Bookkeeping'
    BY <1>3, JobType DEF SkipRule, InLoop, NextRule, Bookkeeping, Jobs, Working
  <2> QED  BY <1>3, <2>2, <2>3, StillSynced, StillPlaced DEF SkipRule
<1>4. CASE RouteCurrent
  <2>1. InLoop /\ Serves(config, Id, Wanted)
    BY <1>4, CurrentServes DEF RouteCurrent, Current, Upserting
  <2>2. Progress'
    BY <1>4, <2>1, NextRuleProgress DEF RouteCurrent
  <2>3. Bookkeeping'
    BY <1>4, <2>1, JobType DEF RouteCurrent, InLoop, NextRule, Bookkeeping, Jobs, Working
  <2> QED  BY <1>4, <2>2, <2>3, StillSynced, StillPlaced DEF RouteCurrent
<1>5. CASE UpsertRoute
  <2>1. PICK q \in UpsertRequests : Land(q)
    BY <1>5 DEF UpsertRoute
  <2>2. q \in Requests /\ WellPlaced(q.route)
    BY <2>1, RequestsType, RequestsPlaced
  <2> QED  BY <1>5, <2>1, <2>2, LandSync DEF UpsertRoute
<1>6. CASE UpsertRejected
  <2>1. InLoop
    BY <1>6 DEF UpsertRejected, UpsertRequests, Upserting
  <2>2. Progress'
    BY <1>6, <2>1, FailAttemptProgress DEF UpsertRejected
  <2>3. Bookkeeping'
    BY <1>6, <2>1, JobType DEF UpsertRejected, FailAttempt, InLoop, NextRule,
                               Bookkeeping, Jobs, Working
  <2> QED  BY <1>6, <2>2, <2>3, StillSynced, StillPlaced DEF UpsertRejected
<1>7. CASE UpsertError
  <2>1. InLoop
    BY <1>7 DEF UpsertError, Upserting
  <2>2. Progress'
    BY <1>7, <2>1, FailAttemptProgress DEF UpsertError
  <2>3. Bookkeeping'
    BY <1>7, <2>1, JobType DEF UpsertError, FailAttempt, InLoop, NextRule,
                               Bookkeeping, Jobs, Working
  <2> QED  BY <1>7, <2>2, <2>3, StillSynced, StillPlaced DEF UpsertError
<1>8. CASE EndRedirects
  <2>1. pc = "redirect" /\ job \in Jobs /\ pc' = "stale"
    BY <1>8, JobType DEF EndRedirects, EnterStale, Working
  <2>2. /\ job'.key = job.key /\ job'.ing = job.ing /\ job'.failed = job.failed
        /\ job'.n = 1
    BY <1>8, <2>1 DEF EndRedirects, EnterStale, Jobs
  <2>3. \A i \in Redirected(job.ing) : i < job.n
    BY <1>8, <2>1, LoopOver DEF EndRedirects, Redirected, Working
  <2>4. Progress'
    BY <1>8, <2>1, <2>2, <2>3 DEF EndRedirects, Progress, Working
  <2>5. Bookkeeping'
    BY <1>8, <2>1, <2>2 DEF EndRedirects, Bookkeeping, Working
  <2> QED  BY <1>8, <2>4, <2>5, StillSynced, StillPlaced DEF EndRedirects
<1>9. CASE SkipPlain
  <2>1. Progress' /\ Bookkeeping'
    BY <1>9 DEF SkipPlain, Progress, Bookkeeping, Working
  <2> QED  BY <1>9, <2>1, StillSynced, StillPlaced DEF SkipPlain
<1>10. CASE EndStale
  <2>1. pc = "stale" /\ pc' = "main" /\ job' = job /\ job.n = 1
    BY <1>10 DEF EndStale, Bookkeeping
  <2>2. \A i \in Routed(job.ing) : ~(i < 1)
    <3>1. job.ing \in IngressSpecs
      BY <2>1, JobType DEF Working
    <3> QED  BY <3>1, SpecType DEF Routed
  <2>3. Progress'
    BY <1>10, <2>1, <2>2 DEF EndStale, Progress, Working
  <2>4. Bookkeeping'
    BY <1>10, <2>1 DEF EndStale, Bookkeeping, Working
  <2> QED  BY <1>10, <2>3, <2>4, StillSynced, StillPlaced DEF EndStale
<1>11. CASE EndMain
  <2>1. pc = "main" /\ pc' = "commit" /\ job' = job
    BY <1>11 DEF EndMain
  <2>2. \A i \in Routed(job.ing) : i < job.n
    BY <1>11, <2>1, LoopOver DEF EndMain, Routed, Working
  <2>3. Progress'
    BY <1>11, <2>1, <2>2 DEF EndMain, Progress, Working
  <2>4. Bookkeeping'
    BY <1>11, <2>1 DEF EndMain, Bookkeeping, Working
  <2> QED  BY <1>11, <2>3, <2>4, StillSynced, StillPlaced DEF EndMain
<1>12. CASE Commit
  <2>1. /\ pc = "commit" /\ pc \in Working /\ pc' = "idle" /\ config' = config
        /\ job.key \in Keys
        /\ late' = late /\ durable' = durable
    BY <1>12, JobType DEF Commit, Working
  <2>2. Progress' /\ Bookkeeping'
    BY <2>1 DEF Progress, Bookkeeping, Working
  <2>3. ASSUME NEW k \in Keys, k # job.key
        PROVE  /\ synced'[k] = synced[k]
               /\ routeIDs'[k] = routeIDs[k]
               /\ store'[k] = store[k]
    BY <1>12, <2>3 DEF Commit, Stored, TypeOK
  <2>4. /\ synced'[job.key].ing = job.ing
        /\ synced'[job.key].failed = job.failed
        /\ routeIDs'[job.key] = NewIDs(job.key, job.ing)
        /\ durable /\ synced'[job.key].saved =>
              store'[job.key] = NewIDs(job.key, job.ing)
    BY <1>12, <2>1 DEF Commit, Stored, TypeOK
  <2>5. /\ \A i \in Routed(job.ing) :
              \/ RouteId(job.key, job.ing.rules[i].host) \in job.failed
              \/ RouteServed(config, job.key, job.ing, i)
        /\ \A i \in Redirected(job.ing) :
              \/ RedirectId(job.key, job.ing.rules[i].host) \in job.failed
              \/ RedirectServed(config, job.key, job.ing, i)
    BY <2>1 DEF Progress
  <2> DEFINE Worth(k, s) ==
                /\ \A i \in Routed(s.ing) :
                      \/ RouteId(k, s.ing.rules[i].host) \in s.failed
                      \/ RouteServed(config, k, s.ing, i)
                /\ \A i \in Redirected(s.ing) :
                      \/ RedirectId(k, s.ing.rules[i].host) \in s.failed
                      \/ RedirectServed(config, k, s.ing, i)
  <2>6. ASSUME NEW k \in Keys, synced'[k] # None
        PROVE  /\ Worth(k, synced'[k])
               /\ routeIDs'[k] = NewIDs(k, synced'[k].ing)
               /\ durable' /\ synced'[k].saved => store'[k] = NewIDs(k, synced'[k].ing)
    <3>1. CASE k = job.key
      BY <2>1, <2>4, <2>5, <3>1
    <3>2. CASE k # job.key
      BY <2>1, <2>3, <2>6, <3>2 DEF SyncedInstalled
    <3> QED  BY <3>1, <3>2
  <2>7. SyncedInstalled'
    BY <2>1, <2>6 DEF SyncedInstalled, RouteServed, RedirectServed
  <2> QED  BY <2>1, <2>2, <2>7, StillPlaced
<1> QED  BY <1>1, <1>2, <1>3, <1>4, <1>5, <1>6, <1>7, <1>8, <1>9, <1>10, <1>11,
            <1>12 DEF HandleAdd

\* The steps of handleDelete, and the deletions of stale routes, keep SyncInv.
LEMMA HandleDeleteSync == SyncInv /\ TypeOK' /\ HandleDelete => SyncInv'
<1> SUFFICES ASSUME SyncInv, TypeOK', HandleDelete PROVE SyncInv'
  OBVIOUS
<1> USE DEF SyncInv
<1>1. CASE IgnoreTombstone
  BY <1>1, StillInstance DEF IgnoreTombstone
<1>2. CASE BeginDelete
  <2> DEFINE e == Head(queue)
  <2>1. /\ e \in Events /\ pc' = "delete"
        /\ job'.key = e.key
        /\ routeIDs' = [routeIDs EXCEPT ![e.key] = {}]
        /\ synced' = [synced EXCEPT ![e.key] = None]
        /\ UNCHANGED <<config, store, durable, late>>
    BY <1>2 DEF BeginDelete, TypeOK
  <2>2. SyncedInstalled'
    BY <2>1 DEF SyncedInstalled, TypeOK
  <2>3. Progress' /\ Bookkeeping'
    BY <2>1 DEF Progress, Bookkeeping, TypeOK, Events
  <2> QED  BY <2>1, <2>2, <2>3, StillPlaced
<1>3. CASE DeleteRoute
  <2>1. PICK q \in DeleteRequests : Land(q)
    BY <1>3 DEF DeleteRoute
  <2>2. q \in Requests /\ WellPlaced(q.route)
    BY <2>1, RequestsType, RequestsPlaced
  <2> QED  BY <1>3, <2>1, <2>2, LandSync DEF DeleteRoute
<1>4. CASE DeleteMissing
  <2>1. /\ pc \in {"stale", "delete"} /\ pc' = pc /\ job \in Jobs
        /\ job'.key = job.key /\ job'.ing = job.ing /\ job'.failed = job.failed
        /\ job'.n = job.n
    BY <1>4, JobType DEF DeleteMissing, Deleting, Working, Jobs
  <2>2. Progress'
    BY <1>4, <2>1 DEF DeleteMissing, Progress, Working
  <2>3. Bookkeeping'
    BY <1>4, <2>1 DEF DeleteMissing, Bookkeeping, Working
  <2> QED  BY <1>4, <2>2, <2>3, StillSynced, StillPlaced DEF DeleteMissing
<1>5. CASE DeleteError
  <2>1. /\ pc \in {"stale", "delete"} /\ pc' = pc /\ job \in Jobs
        /\ job'.key = job.key /\ job'.ing = job.ing /\ job'.failed = job.failed
        /\ job'.n = job.n
    BY <1>5, JobType DEF DeleteError, Deleting, Working, Jobs
  <2>2. Progress'
    BY <1>5, <2>1 DEF DeleteError, Progress, Working
  <2>3. Bookkeeping'
    BY <1>5, <2>1 DEF DeleteError, Bookkeeping, Working
  <2> QED  BY <1>5, <2>2, <2>3, StillSynced, StillPlaced DEF DeleteError
<1>6. CASE Forget
  <2>1. /\ pc \in Working /\ pc' = "idle" /\ job.key \in Keys
        /\ synced[job.key] = None
        /\ UNCHANGED <<config, durable, routeIDs, late, synced>>
        /\ \A k \in Keys \ {job.key} : store'[k] = store[k]
    BY <1>6, JobType DEF Forget, Stored, Working, TypeOK, Bookkeeping
  <2>2. SyncedInstalled'
    BY <2>1 DEF SyncedInstalled
  <2>3. Progress' /\ Bookkeeping'
    BY <2>1 DEF Progress, Bookkeeping, Working
  <2> QED  BY <2>1, <2>2, <2>3, StillPlaced
<1> QED  BY <1>1, <1>2, <1>3, <1>4, <1>5, <1>6 DEF HandleDelete

\* Every step keeps SyncInv.
LEMMA SyncStep == SyncInv /\ [Next]_vars => SyncInv'
<1> SUFFICES ASSUME SyncInv, [Next]_vars PROVE SyncInv'
  OBVIOUS
<1> USE DEF SyncInv
<1>0. TypeOK'
  BY TypeStep
<1>1. CASE Restore
  <2>1. /\ pc = "restore" /\ pc' = "list"
        /\ \A k \in Keys : synced'[k] = None
        /\ UNCHANGED <<config, late>>
    BY <1>1 DEF Restore, Bookkeeping
  <2>2. SyncedInstalled'
    BY <2>1 DEF SyncedInstalled
  <2>3. Progress' /\ Bookkeeping'
    BY <2>1 DEF Progress, Bookkeeping, Working
  <2> QED  BY <1>0, <2>1, <2>2, <2>3, StillPlaced
<1>2. CASE List
  <2>1. Progress' /\ Bookkeeping'
    BY <1>2 DEF List, Progress, Bookkeeping, Working
  <2> QED  BY <1>0, <1>2, <2>1, StillSynced, StillPlaced DEF List
<1>3. CASE Resync
  BY <1>0, <1>3, StillInstance DEF Resync
<1>4. CASE HandleAdd
  BY <1>0, <1>4, HandleAddSync
<1>5. CASE HandleDelete
  BY <1>0, <1>5, HandleDeleteSync
<1>6. CASE LateRequest
  <2>1. PICK q \in late : /\ late' = late \ {q}
                          /\ \/ Land(q)
                             \/ ~Accepted(q) /\ UNCHANGED <<config, instance>>
    BY <1>6 DEF LateRequest
  <2>2. q \in Requests /\ WellPlaced(q.route)
    BY <2>1 DEF TypeOK, Placement
  <2>3. CASE Land(q)
    BY <1>0, <2>1, <2>2, <2>3, LandSync
  <2>4. CASE UNCHANGED <<config, instance>>
    BY <1>0, <1>6, <2>1, <2>4, StillInstance DEF LateRequest, instance
  <2> QED  BY <2>1, <2>3, <2>4
<1>7. CASE Apply \/ Remove
  BY <1>0, <1>7, StillInstance DEF Apply, Remove
<1>8. CASE ExternalReload
  <2>1. \A q \in late' : WellPlaced(q.route)
    BY <1>8, RequestsPlaced DEF ExternalReload, Placement
  <2>2. Placement'
    BY <1>8, <2>1 DEF ExternalReload, Placement, Wiped, WellPlaced
  <2> QED  BY <1>0, <1>8, <2>2, RestartSync DEF ExternalReload
<1>9. CASE Crash
  <2>1. Placement'
    BY <1>9 DEF Crash, Placement, Wiped, WellPlaced
  <2> QED  BY <1>0, <1>9, <2>1, RestartSync DEF Crash
<1>10. CASE UNCHANGED vars
  BY <1>0, <1>10, StillInstance DEF vars, instance
<1> QED  BY <1>1, <1>2, <1>3, <1>4, <1>5, <1>6, <1>7, <1>8, <1>9, <1>10
         DEF Next, Controller, Environment

\* The inductive invariant of app.go's handlers: what a handler call has been
\* through and not given up is in Caddy, each route is on the server it is for.
THEOREM SyncInvCorrect == Spec => []SyncInv
BY InitSync, SyncStep, PTL DEF Spec

\* What the log line "synced ingress" at the end of handleAdd is worth, which
\* the code writes whatever has failed before: the routes upsertRoute has not
\* given up are in Caddy, the ownership map and, unless the save failed, Redis
\* hold the Ingress's route IDs.
THEOREM SyncedCorrect == Spec => []SyncedInstalled
<1>1. SyncInv => SyncedInstalled
  BY DEF SyncInv
<1> QED  BY <1>1, SyncInvCorrect, PTL

-----------------------------------------------------------------------------
(* Who changes whose routes. *)

HostIds(k) == {RouteId(k, h) : h \in Hosts}

\* What an instance believes an Ingress owns carries the Ingress's own
\* identifiers, and what is being deleted as stale is not wanted.
Owned ==
    /\ \A k \in Keys : routeIDs[k] \subseteq HostIds(k)
    /\ \A k \in Keys : store[k] \subseteq HostIds(k)
    /\ pc \in Working => job.todo \subseteq HostIds(job.key)
    /\ pc = "stale" => job.todo \cap NewIDs(job.key, job.ing) = {}

\* newIDs are identifiers of hosts of the Ingress.
LEMMA NewIDsOwned ==
    ASSUME NEW k \in Keys, NEW ing \in IngressSpecs
    PROVE  NewIDs(k, ing) \subseteq HostIds(k)
BY SpecType DEF NewIDs, HostIds

\* Those are identifiers of the Ingress.
LEMMA HostIdsOwned ==
    ASSUME NEW k \in Keys
    PROVE  HostIds(k) \subseteq IdsOf(k)
BY DEF HostIds, IdsOf

\* A new instance has no handler call.
LEMMA RestartOwned ==
    ASSUME Owned, Restart, store' = store
    PROVE  Owned'
<1>1. pc' = "restore" /\ routeIDs' = [k \in Keys |-> {}]
  BY DEF Restart
<1> QED  BY <1>1 DEF Owned, Working

\* The upsert loops do not touch the IDs to delete.
LEMMA LoopOwned ==
    ASSUME Owned, TypeOK, InLoop, NextRule(job.failed) \/ FailAttempt,
           UNCHANGED <<store, routeIDs, pc>>
    PROVE  Owned'
<1>1. pc \in {"redirect", "main"} /\ pc \in Working /\ job \in Jobs
  BY JobType DEF InLoop, Working
<1>2. job'.key = job.key /\ job'.todo = job.todo
  BY <1>1 DEF NextRule, FailAttempt, Jobs
<1> QED  BY <1>1, <1>2 DEF Owned

\* The stale IDs are IDs of the Ingress, and none it still asks for.
LEMMA EnterStaleOwned ==
    ASSUME Owned, NEW j \in Jobs, EnterStale(j), UNCHANGED <<store, routeIDs>>
    PROVE  Owned'
<1>1. /\ pc' = "stale" /\ job'.key = j.key /\ job'.ing = j.ing
      /\ job'.todo = routeIDs[j.key] \ NewIDs(j.key, j.ing)
  BY DEF EnterStale, Jobs
<1>2. j.key \in Keys
  BY DEF Jobs
<1> QED  BY <1>1, <1>2 DEF Owned

\* The initial states: nobody owns an ID.
LEMMA InitOwned == Init => Owned
BY DEF Init, Owned, Working

\* Every step: an ID is recorded under the key whose Ingress it was made for.
LEMMA OwnedStep == TypeOK /\ Owned /\ [Next]_vars => Owned'
<1> SUFFICES ASSUME TypeOK, Owned, [Next]_vars PROVE Owned'
  OBVIOUS
<1>1. CASE Restore
  BY <1>1 DEF Restore, LoadAll, Owned, TypeOK, Working
<1>2. CASE List
  BY <1>2 DEF List, Owned, Working
<1>3. CASE Resync
  BY <1>3 DEF Resync, Owned
<1>4. CASE HandleAdd
  <2>1. CASE IgnoreForeign
    BY <2>1 DEF IgnoreForeign, Owned
  <2>2. CASE BeginAdd
    <3> DEFINE e == Head(queue)
               j == [key |-> e.key, ing |-> e.ing, n |-> 1, attempt |-> 0,
                     todo |-> {}, failed |-> {}]
    <3>0. e \in Events
      BY <2>2 DEF BeginAdd, TypeOK
    <3>1. j \in Jobs
      BY <3>0 DEF Events, Jobs
    <3>2. CASE EnterStale(j)
      BY <2>2, <3>1, <3>2, EnterStaleOwned DEF BeginAdd
    <3>3. CASE pc' = "redirect" /\ job' = j
      BY <2>2, <3>3 DEF BeginAdd, Owned
    <3> QED  BY <2>2, <3>2, <3>3 DEF BeginAdd
  <2>3. CASE SkipRule \/ RouteCurrent
    BY <2>3, LoopOwned DEF SkipRule, RouteCurrent, Upserting
  <2>4. CASE UpsertRoute
    BY <2>4, RestartOwned DEF UpsertRoute, Land
  <2>5. CASE UpsertRejected \/ UpsertError
    BY <2>5, LoopOwned DEF UpsertRejected, UpsertError, UpsertRequests, Upserting
  <2>6. CASE EndRedirects
    BY <2>6, JobType, EnterStaleOwned DEF EndRedirects, Working
  <2>7. CASE SkipPlain
    BY <2>7 DEF SkipPlain, Owned, Working
  <2>8. CASE EndStale
    BY <2>8 DEF EndStale, Owned, Working
  <2>9. CASE EndMain
    BY <2>9 DEF EndMain, Owned, Working
  <2>10. CASE Commit
    <3>1. NewIDs(job.key, job.ing) \subseteq HostIds(job.key)
      BY <2>10, JobType, NewIDsOwned DEF Commit, Working
    <3> QED  BY <2>10, <3>1 DEF Commit, Stored, Owned, Working, TypeOK
  <2> QED  BY <1>4, <2>1, <2>2, <2>3, <2>4, <2>5, <2>6, <2>7, <2>8, <2>9, <2>10
           DEF HandleAdd
<1>5. CASE HandleDelete
  <2>1. CASE IgnoreTombstone
    BY <2>1 DEF IgnoreTombstone, Owned
  <2>2. CASE BeginDelete
    <3>0. Head(queue) \in Events
      BY <2>2 DEF BeginDelete, TypeOK
    <3>1. Head(queue).key \in Keys
      BY <3>0 DEF Events
    <3> QED  BY <2>2, <3>1 DEF BeginDelete, Owned, TypeOK
  <2>3. CASE DeleteRoute
    BY <2>3, RestartOwned DEF DeleteRoute, Land
  <2>4. CASE DeleteMissing \/ DeleteError
    <3>1. /\ pc \in Working /\ job \in Jobs /\ pc' = pc
          /\ job'.key = job.key /\ job'.ing = job.ing
          /\ job'.todo \subseteq job.todo
      BY <2>4, JobType DEF DeleteMissing, DeleteError, Deleting, Working, Jobs
    <3> QED  BY <2>4, <3>1 DEF DeleteMissing, DeleteError, Owned
  <2>5. CASE Forget
    BY <2>5, JobType DEF Forget, Stored, Owned, Working, TypeOK
  <2> QED  BY <1>5, <2>1, <2>2, <2>3, <2>4, <2>5 DEF HandleDelete
<1>6. CASE LateRequest
  BY <1>6, RestartOwned DEF LateRequest, Land, instance, Owned
<1>7. CASE Apply \/ Remove
  BY <1>7 DEF Apply, Remove, Owned
<1>8. CASE ExternalReload \/ Crash
  BY <1>8, RestartOwned DEF ExternalReload, Crash
<1>9. CASE UNCHANGED vars
  BY <1>9 DEF vars, instance, Owned
<1> QED  BY <1>1, <1>2, <1>3, <1>4, <1>5, <1>6, <1>7, <1>8, <1>9
         DEF Next, Controller, Environment

\* A step changes the configuration by a whole reload, a late request, or a
\* request of the handler call in progress, under an identifier of its Ingress.
LEMMA ConfigChange ==
    ASSUME TypeOK, Owned, [Next]_vars
    PROVE  \/ config' = config
           \/ WholeReload
           \/ \E q \in late : q \in Requests /\ Land(q)
           \/ /\ pc \in Working
              /\ \E q \in UpsertRequests \cup DeleteRequests :
                    q.id \in IdsOf(job.key) /\ q \in Requests /\ Land(q)
<1>1. CASE UpsertRoute
  <2>1. PICK q \in UpsertRequests : Land(q)
    BY <1>1 DEF UpsertRoute
  <2>2. Upserting /\ q.id = Id
    BY <2>1 DEF UpsertRequests, Current, Delete
  <2> QED  BY <2>1, <2>2, LoopType, RequestsType
<1>2. CASE DeleteRoute
  <2>1. PICK q \in DeleteRequests : Land(q)
    BY <1>2 DEF DeleteRoute
  <2>2. pc \in Working /\ q.id \in job.todo
    BY <2>1 DEF DeleteRequests, Deleting, Delete, Working
  <2>3. q.id \in IdsOf(job.key)
    BY <2>2, JobType, HostIdsOwned DEF Owned
  <2> QED  BY <2>1, <2>2, <2>3, RequestsType
<1>3. CASE LateRequest
  <2>1. PICK q \in late : \/ Land(q)
                          \/ config' = config
    BY <1>3 DEF LateRequest
  <2>2. q \in Requests
    BY DEF TypeOK
  <2> QED  BY <2>1, <2>2
<1>4. CASE ExternalReload \/ Crash
  <2>1. left'.reloads = left.reloads - 1 /\ left.reloads \in Nat
    BY <1>4 DEF ExternalReload, Crash, TypeOK
  <2> QED  BY <2>1 DEF WholeReload
<1>5. CASE Controller /\ ~UpsertRoute /\ ~DeleteRoute
  BY <1>5 DEF Controller, HandleAdd, HandleDelete, Restore, List, IgnoreForeign,
              BeginAdd, SkipRule, RouteCurrent, UpsertRejected, UpsertError,
              EndRedirects, SkipPlain, EndStale, EndMain, Commit,
              IgnoreTombstone, BeginDelete, DeleteMissing, DeleteError, Forget
<1>6. CASE Resync \/ Apply \/ Remove \/ UNCHANGED vars
  BY <1>6 DEF Resync, Apply, Remove, vars
<1> QED  BY <1>1, <1>2, <1>3, <1>4, <1>5, <1>6 DEF Next, Environment, Controller,
                                                  HandleAdd, HandleDelete

\* README.md:717, "other routes are untouched", of every cluster whose
\* identifiers routeID keeps apart.
THEOREM OthersCorrect ==
    ASSUME IdsSeparate
    PROVE  Spec => OthersUntouched
<1> DEFINE Touch(k) ==
       (\E id \in IdsOf(k) : config'[id] # config[id]) =>
          \/ WholeReload
          \/ pc \in Working /\ job.key = k
          \/ \E q \in late : q.id \in IdsOf(k)
<1>1. ASSUME NEW k \in Keys, NEW l \in Keys, NEW id \in IdsOf(k), id \in IdsOf(l)
      PROVE  k = l
  BY <1>1, IdsSeparate DEF IdsSeparate, IdsOf
<1>2. ASSUME TypeOK, Owned, [Next]_vars, NEW k \in Keys
      PROVE  Touch(k)
  <2> SUFFICES ASSUME NEW id \in IdsOf(k), config'[id] # config[id], ~WholeReload
               PROVE  \/ pc \in Working /\ job.key = k
                      \/ \E q \in late : q.id \in IdsOf(k)
    OBVIOUS
  <2>1. id \in RouteIds
    BY DEF RouteIds
  <2>2. CASE \E q \in late : q \in Requests /\ Land(q)
    BY <1>2, <2>1, <2>2 DEF TypeOK, Land, Requests
  <2>3. CASE /\ pc \in Working
             /\ \E q \in UpsertRequests \cup DeleteRequests :
                   q.id \in IdsOf(job.key) /\ q \in Requests /\ Land(q)
    <3>1. job.key \in Keys /\ id \in IdsOf(job.key)
      BY <1>2, <2>1, <2>3, JobType DEF TypeOK, Land, Requests
    <3> QED  BY <2>3, <3>1, <1>1
  <2> QED  BY <1>2, <2>2, <2>3, ConfigChange
<1>3. TypeOK /\ Owned /\ [Next]_vars => [\A k \in Keys : Touch(k)]_vars
  BY <1>2
<1> QED  BY <1>3, InitType, InitOwned, TypeStep, OwnedStep, PTL DEF Spec, OthersUntouched

-----------------------------------------------------------------------------
(* A route the cluster asks for stays. *)

\* Two rules of one Ingress never share an identifier.
LEMMA OneRulePerId ==
    ASSUME IdsSeparate, HostsDistinct,
           NEW k \in Keys, NEW l \in Keys, NEW ing \in IngressSpecs,
           NEW i \in DOMAIN ing.rules, NEW j \in DOMAIN ing.rules
    PROVE  /\ RouteId(k, ing.rules[i].host) = RouteId(l, ing.rules[j].host) =>
                 i = j
           /\ RedirectId(k, ing.rules[i].host) = RedirectId(l, ing.rules[j].host) =>
                 i = j
           /\ RouteId(k, ing.rules[i].host) # RedirectId(l, ing.rules[j].host)
<1>1. ing.rules[i].host \in Hosts /\ ing.rules[j].host \in Hosts
  BY SpecType
<1> QED  BY <1>1 DEF IdsSeparate, HostsDistinct

\* A handler call that follows the cluster deletes no route it asks for.
LEMMA FollowingSpares ==
    ASSUME IdsSeparate, HostsDistinct, TypeOK, Owned,
           NEW k \in Keys, Following(k),
           NEW q \in UpsertRequests \cup DeleteRequests
    PROVE  /\ \A i \in Routed(api[k]) :
                 RouteServed(config, k, api[k], i) =>
                    \/ q.id # RouteId(k, api[k].rules[i].host)
                    \/ q.route # Absent
           /\ \A i \in Redirected(api[k]) :
                 RedirectServed(config, k, api[k], i) =>
                    \/ q.id # RedirectId(k, api[k].rules[i].host)
                    \/ q.route # Absent
<1> DEFINE ing == api[k]
<1>1. pc \in Working /\ pc # "delete" /\ job.key = k /\ job.ing = ing
      /\ ing \in IngressSpecs
  BY JobType DEF Following
<1>2. Routed(ing) \subseteq DOMAIN ing.rules /\ Redirected(ing) \subseteq DOMAIN ing.rules
  BY DEF Routed, Redirected
<1>3. CASE q \in UpsertRequests /\ q.route = Absent
  <2>1. /\ Upserting
        /\ q.id = Id /\ config[Id].body # Wanted.body
        /\ job.n \in DOMAIN ing.rules
        /\ pc \in {"redirect", "main"}
    <3>1. Upserting
      BY <1>3 DEF UpsertRequests
    <3>2. Wanted # Absent
      BY <3>1, LoopType, RoutesAssumption
    <3>3. q = Delete(Id) /\ config[Id].body # Wanted.body
      BY <1>3, <3>1, <3>2 DEF UpsertRequests, Current
    <3> QED  BY <1>1, <3>1, <3>3 DEF Delete, Upserting, InLoop
  <2>2. CASE pc = "redirect"
    <3>1. /\ Id = RedirectId(k, ing.rules[job.n].host)
          /\ Wanted = RedirectOf(ing.rules[job.n])
      BY <1>1, <2>2 DEF Id, Wanted, Rule
    <3>2. \A i \in Routed(ing) : q.id # RouteId(k, ing.rules[i].host)
      BY <1>1, <1>2, <2>1, <3>1, OneRulePerId
    <3>3. \A i \in Redirected(ing) :
             q.id = RedirectId(k, ing.rules[i].host) => i = job.n
      BY <1>1, <1>2, <2>1, <3>1, OneRulePerId
    <3>4. ~RedirectServed(config, k, ing, job.n)
      BY <2>1, <3>1 DEF RedirectServed, Serves
    <3> QED  BY <3>2, <3>3, <3>4
  <2>3. CASE pc = "main"
    <3>1. /\ Id = RouteId(k, ing.rules[job.n].host)
          /\ Wanted = RouteOf(ing, ing.rules[job.n])
      BY <1>1, <2>3 DEF Id, Wanted, Rule
    <3>2. \A i \in Redirected(ing) : q.id # RedirectId(k, ing.rules[i].host)
      BY <1>1, <1>2, <2>1, <3>1, OneRulePerId
    <3>3. \A i \in Routed(ing) :
             q.id = RouteId(k, ing.rules[i].host) => i = job.n
      BY <1>1, <1>2, <2>1, <3>1, OneRulePerId
    <3>4. ~RouteServed(config, k, ing, job.n)
      BY <2>1, <3>1 DEF RouteServed, Serves
    <3> QED  BY <3>2, <3>3, <3>4
  <2> QED  BY <2>1, <2>2, <2>3
<1>4. CASE q \in DeleteRequests
  <2>1. pc = "stale" /\ q.id \in job.todo
    BY <1>1, <1>4 DEF DeleteRequests, Deleting, Delete
  <2>2. q.id \in HostIds(k) /\ q.id \notin NewIDs(k, ing)
    BY <1>1, <2>1 DEF Owned
  <2>3. \A i \in Routed(ing) : q.id # RouteId(k, ing.rules[i].host)
    BY <2>2 DEF NewIDs, Routed
  <2>4. \A i \in Redirected(ing) : q.id # RedirectId(k, ing.rules[i].host)
    BY <1>1, <1>2, <2>2, SpecType DEF HostIds, IdsSeparate
  <2> QED  BY <2>3, <2>4
<1> QED  BY <1>3, <1>4

\* A live route changes by a whole reload or because a request deletes it.
LEMMA RouteLost ==
    ASSUME TypeOK, Owned, [Next]_vars,
           NEW id \in RouteIds, config[id] # Absent
    PROVE  \/ config'[id] = config[id]
           \/ WholeReload
           \/ Delete(id) \in late
           \/ /\ pc \in Working
              /\ id \in IdsOf(job.key)
              /\ \E q \in UpsertRequests \cup DeleteRequests :
                    q.id = id /\ q.route = Absent
<1>1. ASSUME NEW q \in Requests, Land(q), config'[id] # config[id]
      PROVE  q.id = id /\ q.route = Absent /\ q = Delete(id)
  <2>1. q.id = id
    BY <1>1 DEF Land, TypeOK, Requests
  <2>2. q.route = Absent
    BY <1>1, <2>1 DEF Land, Accepted
  <2> QED  BY <2>1, <2>2 DEF Requests, Delete
<1>2. CASE \E q \in late : q \in Requests /\ Land(q)
  BY <1>1, <1>2
<1>3. CASE /\ pc \in Working
           /\ \E q \in UpsertRequests \cup DeleteRequests :
                 q.id \in IdsOf(job.key) /\ q \in Requests /\ Land(q)
  BY <1>1, <1>3
<1> QED  BY <1>2, <1>3, ConfigChange

\* No update, stale deletion or other Ingress takes away a route that the
\* cluster asks for: README.md:717 and the comment of upsertRoute, of clusters
\* with one rule per host and identifiers that routeID keeps apart.
THEOREM WantedCorrect ==
    ASSUME IdsSeparate, HostsDistinct
    PROVE  Spec => WantedKept
<1> DEFINE MayGo(k, id) == \/ WholeReload
                           \/ pc \in Working /\ job.key = k /\ ~Following(k)
                           \/ Delete(id) \in late
           Kept(k) ==
              api[k] # None =>
                 /\ \A i \in Routed(api[k]) :
                       RouteServed(config, k, api[k], i) =>
                          \/ RouteServed(config', k, api[k], i)
                          \/ MayGo(k, RouteId(k, api[k].rules[i].host))
                 /\ \A i \in Redirected(api[k]) :
                       RedirectServed(config, k, api[k], i) =>
                          \/ RedirectServed(config', k, api[k], i)
                          \/ MayGo(k, RedirectId(k, api[k].rules[i].host))
<1>1. ASSUME TypeOK, Owned, [Next]_vars, NEW k \in Keys, api[k] # None
      PROVE  Kept(k)
  <2>1. api[k] \in IngressSpecs
    BY <1>1 DEF TypeOK
  <2>2. ASSUME NEW l \in Keys, NEW id \in IdsOf(k), id \in IdsOf(l)
        PROVE  k = l
    BY <2>2, IdsSeparate DEF IdsSeparate, IdsOf
  <2>3. ASSUME NEW id \in IdsOf(k), config[id] # Absent,
               config'[id] # config[id], ~MayGo(k, id)
        PROVE  /\ Following(k)
               /\ \E q \in UpsertRequests \cup DeleteRequests :
                     q.id = id /\ q.route = Absent
    <3>1. id \in RouteIds
      BY DEF RouteIds
    <3>2. /\ pc \in Working
          /\ id \in IdsOf(job.key)
          /\ \E q \in UpsertRequests \cup DeleteRequests :
                q.id = id /\ q.route = Absent
      BY <1>1, <2>3, <3>1, RouteLost
    <3>3. job.key = k
      BY <1>1, <2>2, <3>2, JobType
    <3> QED  BY <2>3, <3>2, <3>3
  <2>4. ASSUME NEW i \in Routed(api[k]), RouteServed(config, k, api[k], i),
               ~MayGo(k, RouteId(k, api[k].rules[i].host))
        PROVE  RouteServed(config', k, api[k], i)
    <3> DEFINE id == RouteId(k, api[k].rules[i].host)
    <3>1. id \in IdsOf(k)
      BY <2>1, SpecType, IdsType DEF Routed
    <3>2. config[id] # Absent
      BY <2>4 DEF RouteServed, Serves
    <3>3. config'[id] = config[id]
      BY <1>1, <2>3, <2>4, <3>1, <3>2, FollowingSpares
    <3> QED  BY <2>4, <3>3 DEF RouteServed, Serves
  <2>5. ASSUME NEW i \in Redirected(api[k]), RedirectServed(config, k, api[k], i),
               ~MayGo(k, RedirectId(k, api[k].rules[i].host))
        PROVE  RedirectServed(config', k, api[k], i)
    <3> DEFINE id == RedirectId(k, api[k].rules[i].host)
    <3>1. id \in IdsOf(k)
      BY <2>1, SpecType, IdsType DEF Redirected
    <3>2. config[id] # Absent
      BY <2>5 DEF RedirectServed, Serves
    <3>3. config'[id] = config[id]
      BY <1>1, <2>3, <2>5, <3>1, <3>2, FollowingSpares
    <3> QED  BY <2>5, <3>3 DEF RedirectServed, Serves
  <2> QED  BY <2>4, <2>5
<1>2. TypeOK /\ Owned /\ [Next]_vars => [\A k \in Keys : Kept(k)]_vars
  BY <1>1
<1> QED  BY <1>2, InitType, InitOwned, TypeStep, OwnedStep, PTL DEF Spec, WantedKept

-----------------------------------------------------------------------------
(* The app implements RouteTable. *)

\* handleAdd gets past its class check with the Ingresses of the class only,
\* and into the redirects with those that ask for them.
Entitled ==
    /\ pc \in Working \ {"delete"} => job.ing.ours
    /\ pc = "redirect" => Redirects(job.ing)

\* Entitled: the initial states.
LEMMA InitEntitled == Init => Entitled
BY DEF Init, Entitled, Working

\* Entitled: a call that goes on has passed its guards.
LEMMA SameEntitled ==
    ASSUME Entitled, job'.ing = job.ing, pc' \in Working => pc \in Working,
           pc' # "delete" => pc # "delete", pc' = "redirect" => pc = "redirect"
    PROVE  Entitled'
BY DEF Entitled, Redirects, Working

\* Entitled: every step.
LEMMA EntitledStep == TypeOK /\ Entitled /\ [Next]_vars => Entitled'
<1> SUFFICES ASSUME TypeOK, Entitled, [Next]_vars PROVE Entitled'
  OBVIOUS
<1>1. CASE pc' \notin Working
  BY <1>1 DEF Entitled, Working
<1>2. CASE BeginAdd
  <2> DEFINE e == Head(queue)
             j == [key |-> e.key, ing |-> e.ing, n |-> 1, attempt |-> 0,
                   todo |-> {}, failed |-> {}]
  <2>1. e.ing.ours
    BY <1>2 DEF BeginAdd
  <2>2. CASE Redirects(e.ing) /\ pc' = "redirect" /\ job' = j
    BY <2>1, <2>2 DEF Entitled, Redirects
  <2>3. CASE EnterStale(j)
    BY <2>1, <2>3 DEF EnterStale, Entitled
  <2> QED  BY <1>2, <2>2, <2>3 DEF BeginAdd
<1>3. CASE BeginDelete
  BY <1>3 DEF BeginDelete, Entitled
<1>4. CASE SkipRule \/ RouteCurrent \/ UpsertRejected \/ UpsertError
  <2>1. InLoop /\ (NextRule(job.failed) \/ FailAttempt) /\ pc' = pc
    BY <1>4 DEF SkipRule, RouteCurrent, UpsertRejected, UpsertError, UpsertRequests,
                Upserting
  <2>2. job'.ing = job.ing
    BY <2>1, JobType DEF NextRule, FailAttempt, InLoop, Working, Jobs
  <2> QED  BY <2>1, <2>2, SameEntitled
<1>5. CASE EndRedirects
  BY <1>5, JobType, SameEntitled DEF EndRedirects, EnterStale, Working, Jobs
<1>6. CASE EndStale \/ EndMain
  BY <1>6, SameEntitled DEF EndStale, EndMain, Working
<1>7. CASE DeleteMissing \/ DeleteError
  BY <1>7, JobType, SameEntitled DEF DeleteMissing, DeleteError, Deleting, Working, Jobs
<1>8. CASE UNCHANGED <<pc, job>>
  BY <1>8, SameEntitled
<1>9. CASE Restore \/ List \/ Forget \/ Commit \/ SkipPlain
  BY <1>1, <1>9 DEF Restore, List, Forget, Commit, SkipPlain, Working
<1>10. CASE UpsertRoute \/ DeleteRoute \/ ExternalReload \/ Crash
  BY <1>1, <1>10 DEF UpsertRoute, DeleteRoute, ExternalReload, Crash, Land, Restart,
                     Working
<1>11. CASE LateRequest
  BY <1>1, <1>8, <1>11 DEF LateRequest, Land, Restart, instance, Working
<1>12. CASE IgnoreForeign \/ IgnoreTombstone \/ Resync \/ Apply \/ Remove \/ UNCHANGED vars
  BY <1>8, <1>12 DEF IgnoreForeign, IgnoreTombstone, Resync, Apply, Remove, vars,
                     instance
<1> QED  BY <1>2, <1>3, <1>4, <1>5, <1>6, <1>7, <1>9, <1>10, <1>11, <1>12
         DEF Next, Controller, HandleAdd, HandleDelete, Environment

-----------------------------------------------------------------------------
(* Which versions the app may take for current. *)

Queued(k) == {EventVersion(queue[i]) : i \in {j \in DOMAIN queue : queue[j].key = k}}

Handled(k) == IF pc \in Working /\ job.key = k THEN {JobVersion} ELSE {}

\* An event stands for an Ingress, or for none.
LEMMA EventType ==
    ASSUME NEW e \in Events
    PROVE  /\ e.key \in Keys
           /\ EventVersion(e) \in IngressSpecs \cup {None}
BY DEF Events, EventVersion

\* The versions of an Ingress are Ingresses, or none.
LEMMA KnownType == TypeOK => Known \in [Keys -> SUBSET (IngressSpecs \cup {None})]
<1> SUFFICES ASSUME TypeOK PROVE Known \in [Keys -> SUBSET (IngressSpecs \cup {None})]
  OBVIOUS
<1>1. ASSUME NEW k \in Keys
      PROVE  VersionsOf(k) \subseteq IngressSpecs \cup {None}
  <2>1. api[k] \in IngressSpecs \cup {None}
    BY DEF TypeOK
  <2>2. \A i \in DOMAIN queue : queue[i] \in Events
    BY DEF TypeOK
  <2>3. Queued(k) \subseteq IngressSpecs \cup {None}
    BY <2>2, EventType DEF Queued
  <2>4. Handled(k) \subseteq IngressSpecs \cup {None}
    BY JobType DEF Handled, JobVersion
  <2> QED  BY <2>1, <2>3, <2>4 DEF VersionsOf, Queued, Handled
<1> QED  BY <1>1 DEF Known

\* So they are after a step.
LEMMA KnownAfter == TypeOK' => (Known \in [Keys -> SUBSET (IngressSpecs \cup {None})])'
BY KnownType, PTL

\* The first event gone, the rest is known as before.
LEMMA TailQueued ==
    ASSUME TypeOK, queue # <<>>, queue' = Tail(queue), NEW k \in Keys
    PROVE  /\ Queued(k)' \subseteq Queued(k)
           /\ Head(queue) \in Events
           /\ Head(queue).key = k => EventVersion(Head(queue)) \in Queued(k)
<1>1. /\ queue \in Seq(Events) /\ Head(queue) = queue[1] /\ 1 \in DOMAIN queue
      /\ Head(queue) \in Events
  BY DEF TypeOK
<1>2. ASSUME NEW i \in DOMAIN queue'
      PROVE  i + 1 \in DOMAIN queue /\ queue'[i] = queue[i + 1]
  BY <1>1, <1>2
<1>3. Queued(k)' \subseteq Queued(k)
  BY <1>2 DEF Queued, EventVersion
<1> QED  BY <1>1, <1>3 DEF Queued

\* The informer lists what the cluster has.
LEMMA ListingsQueued ==
    ASSUME TypeOK, queue' \in Listings, NEW k \in Keys
    PROVE  Queued(k)' \subseteq {api[k]}
<1> DEFINE n == Cardinality(Present)
<1>1. PICK f \in [1..n -> Present] :
         queue' = [i \in 1..n |-> [type |-> "apply", key |-> f[i], ing |-> api[f[i]]]]
  BY DEF Listings
<1> QED  BY <1>1 DEF Queued, EventVersion

\* An event is added for what the cluster says now.
LEMMA AppendQueued ==
    ASSUME TypeOK, NEW e \in Events, queue' \in {queue, Append(queue, e)},
           NEW k \in Keys
    PROVE  Queued(k)' \subseteq Queued(k) \cup
              (IF e.key = k THEN {EventVersion(e)} ELSE {})
<1>1. ASSUME NEW i \in DOMAIN queue'
      PROVE  \/ i \in DOMAIN queue /\ queue'[i] = queue[i]
             \/ queue'[i] = e
  <2>1. queue \in Seq(Events)
    BY DEF TypeOK
  <2>2. CASE queue' = queue
    BY <1>1, <2>2
  <2>3. CASE queue' = Append(queue, e)
    <3>1. /\ Len(queue') = Len(queue) + 1 /\ Len(queue) \in Nat
          /\ DOMAIN queue' = 1..Len(queue') /\ DOMAIN queue = 1..Len(queue)
          /\ \A x \in 1..Len(queue) : queue'[x] = queue[x]
          /\ queue'[Len(queue) + 1] = e
      BY <2>1, <2>3
    <3> QED  BY <1>1, <3>1
  <2> QED  BY <2>2, <2>3
<1>2. ASSUME NEW v \in Queued(k)'
      PROVE  v \in Queued(k) \/ (e.key = k /\ v = EventVersion(e))
  <2>1. PICK i \in DOMAIN queue' : /\ queue'[i].key = k
                                  /\ v = EventVersion(queue'[i])
    BY <1>2 DEF Queued, EventVersion
  <2> QED  BY <1>1, <2>1 DEF Queued
<1> QED  BY <1>2

\* A handler call in progress goes on for the same Ingress, or is over.
LEMMA SameHandled ==
    ASSUME NEW k \in Keys,
           pc' \in Working =>
              /\ pc \in Working /\ (pc = "delete" <=> pc' = "delete")
              /\ job'.key = job.key /\ job'.ing = job.ing
    PROVE  Handled(k)' \subseteq Handled(k)
BY DEF Handled, JobVersion

\* A new instance knows what the cluster will tell it.
LEMMA RestartVersions ==
    ASSUME Restart, NEW k \in Keys
    PROVE  VersionsOf(k)' \subseteq {api'[k]}
<1>1. queue' = <<>> /\ pc' \notin Working
  BY DEF Restart, Working
<1> QED  BY <1>1 DEF VersionsOf

\* No step of handleAdd makes up a version of an Ingress.
LEMMA HandleAddVersions ==
    ASSUME TypeOK, HandleAdd, NEW k \in Keys
    PROVE  VersionsOf(k)' \subseteq VersionsOf(k) \cup {api'[k]}
<1> USE DEF VersionsOf
<1>1. ASSUME UNCHANGED <<api, queue>>, Handled(k)' \subseteq Handled(k)
      PROVE  VersionsOf(k)' \subseteq VersionsOf(k)
  BY <1>1 DEF Handled, EventVersion
<1>2. CASE IgnoreForeign
  <2>1. queue # <<>> /\ queue' = Tail(queue) /\ UNCHANGED <<api, pc, job>>
    BY <1>2 DEF IgnoreForeign
  <2>2. Queued(k)' \subseteq Queued(k) /\ Handled(k)' = Handled(k)
    BY <2>1, TailQueued DEF Handled, JobVersion
  <2> QED  BY <2>1, <2>2 DEF Queued, Handled
<1>3. CASE BeginAdd
  <2> DEFINE e == Head(queue)
             j == [key |-> e.key, ing |-> e.ing, n |-> 1, attempt |-> 0,
                   todo |-> {}, failed |-> {}]
  <2>1. /\ queue # <<>> /\ queue' = Tail(queue) /\ UNCHANGED api
        /\ e.type = "apply"
        /\ (pc' = "redirect" /\ job' = j) \/ EnterStale(j)
    BY <1>3 DEF BeginAdd
  <2>2. /\ Queued(k)' \subseteq Queued(k)
        /\ e.key = k => EventVersion(e) \in Queued(k)
    BY <2>1, TailQueued
  <2>3. pc' # "delete" /\ job'.key = e.key /\ job'.ing = e.ing
    <3>1. j \in Jobs
      BY <2>1, TailQueued DEF Events, Jobs
    <3>2. CASE EnterStale(j)
      <4>1. /\ pc' = "stale"
            /\ job' = [j EXCEPT !.n = 1,
                               !.todo = routeIDs[j.key] \ NewIDs(j.key, j.ing)]
        BY <3>2 DEF EnterStale
      <4>2. job'.key = j.key /\ job'.ing = j.ing
        BY <3>1, <4>1 DEF Jobs
      <4> QED  BY <4>1, <4>2
    <3> QED  BY <2>1, <3>2
  <2>4. Handled(k)' \subseteq Queued(k)
    BY <2>1, <2>2, <2>3 DEF Handled, JobVersion, EventVersion
  <2> QED  BY <2>1, <2>2, <2>4 DEF Queued, Handled
<1>4. CASE SkipRule \/ RouteCurrent \/ UpsertRejected \/ UpsertError
  <2>1. /\ InLoop /\ (NextRule(job.failed) \/ FailAttempt) /\ pc' = pc
        /\ UNCHANGED <<api, queue>>
    BY <1>4 DEF SkipRule, RouteCurrent, UpsertRejected, UpsertError, UpsertRequests,
                Upserting
  <2>2. job'.ing = job.ing /\ job'.key = job.key
    BY <2>1, JobType DEF NextRule, FailAttempt, InLoop, Working, Jobs
  <2> QED  BY <1>1, <2>1, <2>2, SameHandled
<1>5. CASE UpsertRoute
  BY <1>5, RestartVersions DEF UpsertRoute, Land
<1>6. CASE EndRedirects
  <2>1. /\ pc = "redirect" /\ pc' = "stale" /\ UNCHANGED <<api, queue>>
        /\ job'.key = job.key /\ job'.ing = job.ing
    BY <1>6, JobType DEF EndRedirects, EnterStale, Working, Jobs
  <2> QED  BY <1>1, <2>1, SameHandled DEF Working
<1>7. CASE SkipPlain \/ Commit
  BY <1>1, <1>7, SameHandled DEF SkipPlain, Commit, Working
<1>8. CASE EndStale \/ EndMain
  BY <1>1, <1>8, SameHandled DEF EndStale, EndMain, Working
<1> QED  BY <1>2, <1>3, <1>4, <1>5, <1>6, <1>7, <1>8 DEF HandleAdd

\* Nor does one of handleDelete.
LEMMA HandleDeleteVersions ==
    ASSUME TypeOK, HandleDelete, NEW k \in Keys
    PROVE  VersionsOf(k)' \subseteq VersionsOf(k) \cup {api'[k]}
<1> USE DEF VersionsOf
<1>1. CASE IgnoreTombstone
  <2>1. queue # <<>> /\ queue' = Tail(queue) /\ UNCHANGED <<api, pc, job>>
    BY <1>1 DEF IgnoreTombstone
  <2>2. Queued(k)' \subseteq Queued(k) /\ Handled(k)' = Handled(k)
    BY <2>1, TailQueued DEF Handled, JobVersion
  <2> QED  BY <2>1, <2>2 DEF Queued, Handled
<1>2. CASE BeginDelete
  <2> DEFINE e == Head(queue)
  <2>1. /\ queue # <<>> /\ queue' = Tail(queue) /\ UNCHANGED api
        /\ e.type = "delete" /\ pc' = "delete" /\ job'.key = e.key
    BY <1>2 DEF BeginDelete
  <2>2. /\ Queued(k)' \subseteq Queued(k)
        /\ e.key = k => None \in Queued(k)
    BY <2>1, TailQueued DEF EventVersion
  <2>3. Handled(k)' \subseteq Queued(k)
    BY <2>1, <2>2 DEF Handled, JobVersion
  <2> QED  BY <2>1, <2>2, <2>3 DEF Queued, Handled
<1>3. CASE DeleteRoute
  BY <1>3, RestartVersions DEF DeleteRoute, Land
<1>4. CASE DeleteMissing \/ DeleteError \/ Forget
  <2>1. /\ UNCHANGED <<api, queue>>
        /\ pc' \in Working => /\ pc \in Working /\ pc' = pc
                              /\ job'.key = job.key /\ job'.ing = job.ing
    BY <1>4, JobType DEF DeleteMissing, DeleteError, Forget, Deleting, Working, Jobs
  <2>2. Handled(k)' \subseteq Handled(k)
    BY <2>1, SameHandled
  <2> QED  BY <2>1, <2>2 DEF Handled, EventVersion
<1> QED  BY <1>1, <1>2, <1>3, <1>4 DEF HandleDelete

\* Every step: what the app takes for current it has taken for current before,
\* or the cluster says so.
LEMMA LearnStep ==
    ASSUME TypeOK, TypeOK', [Next]_vars
    PROVE  Table!Learn
<1>1. ASSUME NEW k \in Keys
      PROVE  VersionsOf(k)' \subseteq VersionsOf(k) \cup {api'[k]}
  <2> USE DEF VersionsOf
  <2>1. CASE HandleAdd \/ HandleDelete
    BY <2>1, HandleAddVersions, HandleDeleteVersions
  <2>2. CASE Restore
    BY <2>2 DEF Restore, Working, EventVersion
  <2>3. CASE List \/ Resync
    <3>1. /\ queue' \in Listings /\ api' = api /\ job' = job
          /\ pc' \in Working => pc' = pc
      BY <2>3 DEF List, Resync, Working
    <3>2. Queued(k)' \subseteq {api[k]} /\ Handled(k)' \subseteq Handled(k)
      BY <3>1, ListingsQueued, SameHandled
    <3> QED  BY <3>1, <3>2 DEF Queued, Handled
  <2>4. CASE LateRequest
    <3>1. CASE Restart
      BY <3>1, RestartVersions
    <3>2. CASE UNCHANGED <<api, queue, pc, job>>
      BY <3>2 DEF EventVersion, JobVersion
    <3> QED  BY <2>4, <3>1, <3>2 DEF LateRequest, Land, instance
  <2>5. CASE Apply
    <3>1. PICK l \in Keys, v \in IngressSpecs :
             /\ api' = [api EXCEPT ![l] = v]
             /\ queue' \in {queue, Append(queue, [type |-> "apply", key |-> l, ing |-> v])}
             /\ UNCHANGED <<pc, job>>
      BY <2>5 DEF Apply
    <3> DEFINE e == [type |-> "apply", key |-> l, ing |-> v]
    <3>2. e \in Events /\ EventVersion(e) = v
      BY DEF Events, EventVersion
    <3>3. Queued(k)' \subseteq Queued(k) \cup (IF e.key = k THEN {EventVersion(e)} ELSE {})
      BY <3>1, <3>2, AppendQueued
    <3>4. e.key = k => api'[k] = v
      BY <3>1 DEF TypeOK
    <3>5. Queued(k)' \subseteq Queued(k) \cup {api'[k]}
      BY <3>2, <3>3, <3>4
    <3>6. Handled(k)' \subseteq Handled(k)
      BY <3>1, SameHandled
    <3> QED  BY <3>5, <3>6 DEF Queued, Handled
  <2>6. CASE Remove
    <3>1. PICK l \in Present, t \in {"delete", "tombstone"} :
             /\ api' = [api EXCEPT ![l] = None]
             /\ queue' \in {queue, Append(queue, [type |-> t, key |-> l, ing |-> api[l]])}
             /\ UNCHANGED <<pc, job>>
      BY <2>6 DEF Remove
    <3> DEFINE e == [type |-> t, key |-> l, ing |-> api[l]]
    <3>2. l \in Keys /\ e \in Events /\ EventVersion(e) = None
      BY DEF Events, EventVersion, Present, TypeOK
    <3>3. Queued(k)' \subseteq Queued(k) \cup (IF e.key = k THEN {EventVersion(e)} ELSE {})
      BY <3>1, <3>2, AppendQueued
    <3>4. e.key = k => api'[k] = None
      BY <3>1, <3>2 DEF TypeOK
    <3>5. Queued(k)' \subseteq Queued(k) \cup {api'[k]}
      BY <3>2, <3>3, <3>4
    <3>6. Handled(k)' \subseteq Handled(k)
      BY <3>1, SameHandled
    <3> QED  BY <3>5, <3>6 DEF Queued, Handled
  <2>7. CASE ExternalReload \/ Crash
    BY <2>7, RestartVersions DEF ExternalReload, Crash
  <2>8. CASE UNCHANGED vars
    BY <2>8 DEF vars, instance, EventVersion, JobVersion
  <2> QED  BY <2>1, <2>2, <2>3, <2>4, <2>5, <2>6, <2>7, <2>8
           DEF Next, Controller, Environment
<1>2. Known' \in [Keys -> SUBSET (IngressSpecs \cup {None})]
  BY KnownAfter
<1>3. \A k \in Keys : Known'[k] \subseteq Known[k] \cup {api'[k]}
  <2>1. \A k \in Keys : /\ Known'[k] = {v \in VersionsOf(k)' : v = None \/ v.ours}
                        /\ Known[k] = {v \in VersionsOf(k) : v = None \/ v.ours}
    BY DEF Known
  <2> QED  BY <1>1, <2>1
<1> QED  BY <1>2, <1>3 DEF Table!Learn

-----------------------------------------------------------------------------
(* Every request is accounted for. *)

\* The handler at work takes its version for current.
LEMMA JobKnown ==
    ASSUME TypeOK, Entitled, pc \in Working
    PROVE  /\ JobVersion \in Known[job.key]
           /\ pc # "delete" => JobVersion = job.ing
           /\ pc = "delete" => JobVersion = None
BY JobType DEF Known, VersionsOf, JobVersion, Entitled

\* What version v of an Ingress wants.
LEMMA WantsType ==
    ASSUME NEW k \in Keys, NEW v \in IngressSpecs
    PROVE  /\ WantsOf[k][None] = {}
           /\ \A w : w \in WantsOf[k][v] <=>
                 \/ \E i \in Routed(v) :
                       w = [id |-> RouteId(k, v.rules[i].host),
                            route |-> RouteOf(v, v.rules[i])]
                 \/ \E i \in Redirected(v) :
                       w = [id |-> RedirectId(k, v.rules[i].host),
                            route |-> RedirectOf(v.rules[i])]
BY SpecsAssumption DEF WantsOf

\* A route that an upsert loop wants is one that its Ingress wants.
LEMMA WantedAsked ==
    ASSUME TypeOK, Entitled, Upserting
    PROVE  [id |-> Id, route |-> Wanted] \in WantsOf[job.key][job.ing]
<1>1. /\ pc \in Working /\ job.key \in Keys /\ job.ing \in IngressSpecs
      /\ pc \in {"redirect", "main"} /\ job.n \in DOMAIN job.ing.rules
  BY LoopType, JobType DEF Upserting, InLoop
<1>2. CASE pc = "redirect"
  <2>1. job.n \in Redirected(job.ing)
    BY <1>1, <1>2 DEF Upserting, Skipped, Rule, Redirected, Entitled
  <2> QED  BY <1>1, <1>2, <2>1, WantsType DEF Id, Wanted, Rule
<1>3. CASE pc = "main"
  <2>1. job.n \in Routed(job.ing)
    BY <1>1, <1>3 DEF Upserting, Skipped, Rule, Routed
  <2> QED  BY <1>1, <1>3, <2>1, WantsType DEF Id, Wanted, Rule
<1> QED  BY <1>1, <1>2, <1>3

\* A stale identifier is none of a route that the Ingress wants.
LEMMA StaleUnwanted ==
    ASSUME IdsSeparate, NEW k \in Keys, NEW ing \in IngressSpecs,
           NEW id \in HostIds(k) \ NewIDs(k, ing)
    PROVE  \A w \in WantsOf[k][ing] : w.id # id
<1> SUFFICES ASSUME NEW w \in WantsOf[k][ing] PROVE w.id # id
  OBVIOUS
<1>1. CASE \E i \in Routed(ing) : w = [id |-> RouteId(k, ing.rules[i].host),
                                      route |-> RouteOf(ing, ing.rules[i])]
  BY <1>1 DEF Routed, NewIDs
<1>2. CASE \E i \in Redirected(ing) : w = [id |-> RedirectId(k, ing.rules[i].host),
                                          route |-> RedirectOf(ing.rules[i])]
  BY <1>2, SpecType DEF Redirected, HostIds, IdsSeparate
<1> QED  BY <1>1, <1>2, WantsType

\* A request of a handler is one that the version it works on accounts for.
LEMMA RequestAsked ==
    ASSUME IdsSeparate, TypeOK, Owned, Entitled,
           NEW q \in UpsertRequests \cup DeleteRequests
    PROVE  Table!Asked(q) /\ q \in Table!Posts \cup Table!Deletes
<1> DEFINE k == job.key
           v == JobVersion
<1>1. pc \in Working /\ q.id \in IdsOf(k)
  <2>1. CASE q \in UpsertRequests
    BY <2>1, LoopType DEF UpsertRequests, Current, Delete
  <2>2. CASE q \in DeleteRequests
    <3>1. pc \in Working /\ q.id \in job.todo
      BY <2>2 DEF DeleteRequests, Deleting, Delete, Working
    <3> QED  BY <3>1, JobType, HostIdsOwned DEF Owned
  <2> QED  BY <2>1, <2>2
<1>2. k \in Keys /\ v \in Known[k] /\ job.ing \in IngressSpecs
  BY <1>1, JobType, JobKnown
<1>3. Table!AskedBy(k, v, q)
  <2>1. CASE q \in UpsertRequests
    <3>1. /\ Upserting /\ v = job.ing
          /\ [id |-> Id, route |-> Wanted] \in WantsOf[k][v]
      BY <1>1, <2>1, WantedAsked, JobKnown DEF UpsertRequests, Upserting, InLoop
    <3>2. CASE q = [id |-> Id, route |-> Wanted]
      BY <3>1, <3>2 DEF Table!AskedBy
    <3>3. CASE q = Delete(Id) /\ config[Id].body # Wanted.body
      <4> DEFINE routes == {w.route : w \in {x \in WantsOf[k][v] : x.id = Id}}
      <4>1. Wanted \in routes
        BY <3>1
      <4>2. routes # {config[Id]}
        BY <3>3, <4>1
      <4> QED  BY <1>1, <1>2, <3>3, <4>2 DEF Table!AskedBy, Table!Outdated, Owns, Delete
    <3> QED  BY <2>1, <3>1, <3>2, <3>3 DEF UpsertRequests, Current
  <2>2. CASE q \in DeleteRequests
    <3>1. /\ pc \in {"stale", "delete"} /\ q = Delete(q.id) /\ q.id \in job.todo
      BY <2>2 DEF DeleteRequests, Deleting, Delete
    <3>2. \A w \in WantsOf[k][v] : w.id # q.id
      <4>1. CASE pc = "stale"
        <5>1. q.id \in HostIds(k) \ NewIDs(k, job.ing)
          BY <1>1, <3>1, <4>1 DEF Owned
        <5> QED  BY <1>1, <1>2, <4>1, <5>1, JobKnown, StaleUnwanted
      <4>2. CASE pc = "delete"
        BY <1>1, <1>2, <4>2, JobKnown, WantsType
      <4> QED  BY <3>1, <4>1, <4>2
    <3> DEFINE routes == {w.route : w \in {x \in WantsOf[k][v] : x.id = q.id}}
    <3>3. routes # {config[q.id]}
      BY <3>2
    <3> QED  BY <1>1, <1>2, <3>1, <3>3 DEF Table!AskedBy, Table!Outdated, Owns, Delete
  <2> QED  BY <2>1, <2>2
<1>4. q.id \in RouteIds
  BY <1>1, <1>2 DEF RouteIds
<1>5. q \in Table!Posts \cup Table!Deletes
  <2>1. CASE q.route = Absent
    <3>1. q = Delete(q.id)
      <4>1. CASE q \in DeleteRequests
        BY <4>1 DEF DeleteRequests, Delete
      <4>2. CASE q \in UpsertRequests
        <5>1. Upserting /\ Wanted # Absent
          BY <4>2, LoopType, RoutesAssumption DEF UpsertRequests
        <5>2. q = Delete(Id)
          BY <2>1, <4>2, <5>1 DEF UpsertRequests
        <5> QED  BY <5>2 DEF Delete
      <4> QED  BY <4>1, <4>2
    <3> QED  BY <1>4, <3>1 DEF Table!Deletes, Delete
  <2>2. CASE q.route # Absent
    <3>1. q \in WantsOf[k][v]
      BY <1>3, <2>2 DEF Table!AskedBy
    <3> QED  BY <1>2, <3>1 DEF Table!Posts
  <2> QED  BY <2>1, <2>2
<1> QED  BY <1>2, <1>3, <1>5 DEF Table!Asked

\* What Caddy accepts fits into the table.
LEMMA AcceptedFits ==
    ASSUME TypeOK, NEW q \in Requests, Land(q)
    PROVE  Table!Fits(q) /\ config' = Table!Result(q)
BY DEF Land, Accepted, Requests, Table!Fits, Table!Result

-----------------------------------------------------------------------------
(* The refinement. *)

\* The initial states: a table without routes, nothing known but the cluster.
LEMMA InitRefines == Init => Table!Init
<1> SUFFICES ASSUME Init PROVE Table!Init
  OBVIOUS
<1>1. Known \in [Keys -> SUBSET (IngressSpecs \cup {None})]
  BY InitType, KnownType
<1>2. \A k \in Keys : Known[k] \subseteq {api[k]}
  BY DEF Init, Known, VersionsOf, Working
<1> QED  BY <1>1, <1>2 DEF Init, Table!Init, Table!Empty

\* Every step of the app is one of the table.
LEMMA StepRefines ==
    ASSUME IdsSeparate
    PROVE  TypeOK /\ TypeOK' /\ Owned /\ Entitled /\ [Next]_vars => Table!Next
<1> SUFFICES ASSUME TypeOK, TypeOK', Owned, Entitled, [Next]_vars PROVE Table!Next
  OBVIOUS
<1>0. Table!Learn
  BY LearnStep
<1>1. CASE UpsertRoute \/ DeleteRoute
  <2>1. PICK q \in UpsertRequests \cup DeleteRequests : Land(q)
    BY <1>1 DEF UpsertRoute, DeleteRoute
  <2>2. /\ Table!Asked(q) /\ q \in Table!Posts \cup Table!Deletes
        /\ q \in Requests
    BY RequestAsked, RequestsType
  <2>3. Table!Fits(q) /\ config' = Table!Result(q)
    BY <2>1, <2>2, AcceptedFits
  <2>4. UNCHANGED <<api, late>>
    BY <1>1 DEF UpsertRoute, DeleteRoute
  <2>5. Table!Write
    BY <2>2, <2>3, <2>4 DEF Table!Write
  <2> QED  BY <1>0, <2>5 DEF Table!Next
<1>2. CASE LateRequest
  <2>1. PICK q \in late : /\ late' = late \ {q}
                          /\ Land(q) \/ config' = config
                          /\ api' = api
    BY <1>2 DEF LateRequest
  <2>2. config' = config \/ (Table!Fits(q) /\ config' = Table!Result(q))
    BY <2>1, AcceptedFits DEF TypeOK
  <2>3. Table!Late
    BY <2>1, <2>2 DEF Table!Late
  <2> QED  BY <1>0, <2>3 DEF Table!Next
<1>3. CASE ExternalReload
  <2>1. /\ config' \in {config, Wiped} /\ api' = api
        /\ \/ late' = late
           \/ \E q \in UpsertRequests \cup DeleteRequests : late' = late \cup {q}
    BY <1>3 DEF ExternalReload
  <2>2. \/ late' = late
        \/ \E q \in Table!Posts \cup Table!Deletes :
              Table!Asked(q) /\ late' = late \cup {q}
    BY <2>1, RequestAsked
  <2>3. Table!Reload
    BY <2>1, <2>2 DEF Table!Reload, Table!Empty, Wiped
  <2> QED  BY <1>0, <2>3 DEF Table!Next
<1>4. CASE Crash
  <2>1. Table!Reload
    BY <1>4 DEF Crash, Table!Reload, Table!Empty, Wiped
  <2> QED  BY <1>0, <2>1 DEF Table!Next
<1>5. CASE UNCHANGED <<config, late>>
  <2>1. Table!Follow
    BY <1>5 DEF Table!Follow, TypeOK
  <2> QED  BY <1>0, <2>1 DEF Table!Next
<1>6. CASE HandleAdd /\ ~UpsertRoute
  BY <1>5, <1>6 DEF HandleAdd, IgnoreForeign, BeginAdd, SkipRule, RouteCurrent,
                    UpsertRejected, UpsertError, EndRedirects, SkipPlain, EndStale,
                    EndMain, Commit
<1>7. CASE HandleDelete /\ ~DeleteRoute
  BY <1>5, <1>7 DEF HandleDelete, IgnoreTombstone, BeginDelete, DeleteMissing,
                    DeleteError, Forget
<1>8. CASE Restore \/ List \/ Resync \/ Apply \/ Remove \/ UNCHANGED vars
  BY <1>5, <1>8 DEF Restore, List, Resync, Apply, Remove, vars
<1> QED  BY <1>1, <1>2, <1>3, <1>4, <1>6, <1>7, <1>8
         DEF Next, Controller, HandleAdd, HandleDelete, Environment

\* README.md:717, "other routes are untouched", and the comment of upsertRoute
\* (admin.go:27-33), of every cluster whose identifiers routeID keeps apart:
\* each change of Caddy's routes is one request that some version of an Ingress
\* on its way through the app accounts for.
THEOREM TableCorrect ==
    ASSUME IdsSeparate
    PROVE  Spec => ImplementsTable
<1>1. TypeOK /\ TypeOK' /\ Owned /\ Entitled /\ [Next]_vars => [Table!Next]_(Table!vars)
  BY StepRefines
<1> QED  BY <1>1, InitRefines, InitType, InitOwned, InitEntitled, TypeStep, OwnedStep,
            EntitledStep, PTL DEF Spec, ImplementsTable, Table!Spec
=============================================================================
