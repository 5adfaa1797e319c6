------------------------------ MODULE TLSCerts ------------------------------
(***************************************************************************)
(* The certificates of spec.tls (tls.go): handleAdd and handleDelete call  *)
(* LoadFromIngress and RemoveFromIngress; a second informer watches the    *)
(* Secrets and reloads those that are managed.  Both push to one place of  *)
(* Caddy's configuration, and a push that changes it replaces the manager  *)
(* with all that it remembers.                                             *)
(***************************************************************************)
EXTENDS Naturals, Sequences, FiniteSets, Functions

CONSTANTS
    Keys,        \* Ingress keys
    Secrets,     \* keys of Secrets
    Contents,    \* certificate and private key of a Secret
    Invalid,     \* those that Caddy refuses to load
    Unusable,    \* a TLS Secret without certificate or key
    Absent,      \* no Ingress; no Secret, or one that is not a TLS Secret
    None,        \* no certificate
    Specs,       \* what Ingresses say about TLS
    MaxChanges,  \* bound: changes of Ingresses and Secrets
    MaxFaults,   \* bound: requests that fail
    MaxReloads,  \* bound: reloads and crashes not of the manager's making
    MaxLate      \* bound: pushes that outlive a cancelled handler or watcher

ASSUME SpecsAssumption ==
    /\ IsFiniteSet(Keys)
    /\ Specs \subseteq [secrets: Seq(Secrets), certmagic: BOOLEAN]
    /\ Absent \notin Specs

ASSUME ContentsAssumption ==
    /\ Invalid \subseteq Contents
    /\ {Unusable, Absent, None} \cap Contents = {}
    /\ Unusable # Absent

ASSUME LimitsAssumption ==
    /\ MaxChanges \in Nat
    /\ MaxFaults \in Nat
    /\ MaxReloads \in Nat
    /\ MaxLate \in Nat

Certificates == [secret: Secrets, content: Contents]

ASSUME NoneAssumption == None \notin Certificates

VARIABLES
    ingress,  \* the cluster: Ingresses
    secret,   \* the cluster: Secrets
    live,     \* Caddy's pushed certificate, None for what its Caddyfile has
    pc,       \* the handlers
    queue,    \* Ingress events
    key,      \* the Ingress of the handler call in progress
    todo,     \* the secrets LoadFromIngress has still to load
    cert,     \* the certificate it has read, or None
    managed,  \* managedCerts: each secret's content, or None
    refs,     \* secretToIngress
    wpc,      \* the watcher
    updates,  \* its events
    wcert,    \* the certificate it pushes, or None
    late,     \* pushes of stopped instances
    owed,     \* history: the update the watcher was given a fair chance at
    left      \* what remains of the bounds

handlers == <<pc, queue, key, todo, cert>>
watcher == <<wpc, updates, wcert>>
instance == <<handlers, managed, refs, watcher>>
cluster == <<ingress, secret>>
vars == <<cluster, live, instance, late, owed, left>>

Events == [key: Keys, spec: Specs, deleted: BOOLEAN]
Updates == [secret: Secrets, content: Contents \cup {Unusable}]

TypeOK ==
    /\ ingress \in [Keys -> Specs \cup {Absent}]
    /\ secret \in [Secrets -> Contents \cup {Unusable, Absent}]
    /\ live \in Certificates \cup {None}
    /\ pc \in {"list", "idle", "fetch", "push", "record"}
    /\ queue \in Seq(Events)
    /\ key \in Keys \cup {None}
    /\ todo \in Seq(Secrets)
    /\ pc \in {"fetch", "push", "record"} => key \in Keys /\ todo # <<>>
    /\ cert \in Certificates \cup {None}
    /\ pc \in {"push", "record"} => cert # None
    /\ managed \in [Secrets -> Contents \cup {None}]
    /\ refs \in [Secrets -> SUBSET Keys]
    /\ wpc \in {"list", "idle", "push", "record"}
    /\ updates \in Seq(Updates)
    /\ wcert \in Certificates \cup {None}
    /\ wpc \in {"push", "record"} => wcert # None
    /\ late \subseteq Certificates
    /\ owed \in Certificates \cup {None}
    /\ left \in [changes: Nat, faults: Nat, reloads: Nat, late: Nat]

Init ==
    /\ ingress \in [Keys -> Specs \cup {Absent}]
    /\ secret \in [Secrets -> Contents \cup {Unusable, Absent}]
    /\ live = None
    /\ pc = "list"
    /\ queue = <<>>
    /\ key = None
    /\ todo = <<>>
    /\ cert = None
    /\ managed = [s \in Secrets |-> None]
    /\ refs = [s \in Secrets |-> {}]
    /\ wpc = "list"
    /\ updates = <<>>
    /\ wcert = None
    /\ late = {}
    /\ owed = None
    /\ left = [changes |-> MaxChanges, faults |-> MaxFaults,
               reloads |-> MaxReloads, late |-> MaxLate]

Restart ==
    /\ pc' = "list"
    /\ queue' = <<>>
    /\ key' = None
    /\ todo' = <<>>
    /\ cert' = None
    /\ managed' = [s \in Secrets |-> None]
    /\ refs' = [s \in Secrets |-> {}]
    /\ wpc' = "list"
    /\ updates' = <<>>
    /\ wcert' = None

Fault == left.faults > 0 /\ left' = [left EXCEPT !.faults = @ - 1]

-----------------------------------------------------------------------------
(* Stop.  The context of the handlers is cancelled, and Caddy may process    *)
(* their request all the same.  Nothing cancels what the watcher does.       *)

\* What the watcher makes of an event: managed already, and not unusable?
Reloads(e) == managed[e.secret] # None /\ e.content \in Contents

\* The watcher's push goes on.
Uncancelled == IF wpc = "push" THEN {wcert} ELSE {}

\* The cancelled push of a handler, and one more event for the old watcher.
Stragglers ==
    (IF pc = "push" THEN {cert} ELSE {})
        \cup (IF updates # <<>> /\ Reloads(Head(updates))
              THEN {Head(updates)} ELSE {})

\* The instance is replaced; of the stragglers, some come late.
Replace(pending, stragglers, budget) ==
    /\ Restart
    /\ \E l \in SUBSET stragglers :
          /\ Cardinality(l) <= budget.late
          /\ late' = pending \cup l
          /\ left' = [budget EXCEPT !.late = @ - Cardinality(l)]

-----------------------------------------------------------------------------
(* pushCertToCaddy: the POST replaces the whole certificates object.         *)

\* Every accepted push reloads, whether or not it changes anything.
BugChanges(c) == c.content \notin Invalid

Changes(c) == c # live /\ c.content \notin Invalid

\* Answered with success, and nothing to reload.
Same(c) == c = live

Refused(c) == c # live /\ c.content \in Invalid

-----------------------------------------------------------------------------
(* Informers of the Ingresses. *)

Present == {k \in Keys : ingress[k] # Absent}

\* One event for each Ingress, in any order.
Listings ==
    LET n == Cardinality(Present)
    IN  {[i \in 1..n |-> [key |-> f[i], spec |-> ingress[f[i]],
                          deleted |-> FALSE]] :
            f \in Bijection(1..n, Present)}

List ==
    /\ pc = "list"
    /\ pc' = "idle"
    /\ queue' \in Listings
    /\ UNCHANGED <<cluster, live, key, todo, cert, managed, refs, watcher, late,
                   owed, left>>

\* The periodic resync, once the queue has drained (bound).
Resync ==
    /\ pc # "list"
    /\ queue = <<>>
    /\ queue' \in Listings
    /\ UNCHANGED <<cluster, live, pc, key, todo, cert, managed, refs, watcher,
                   late, owed, left>>

-----------------------------------------------------------------------------
(* handleAdd: LoadFromIngress, unless CertMagic looks after the hosts.       *)

ToLoad(spec) == IF spec.certmagic THEN <<>> ELSE spec.secrets

Continue(rest) ==
    /\ todo' = rest
    /\ pc' = IF rest = <<>> THEN "idle" ELSE "fetch"
    /\ cert' = None

BeginAdd ==
    /\ pc = "idle"
    /\ queue # <<>>
    /\ ~Head(queue).deleted
    /\ queue' = Tail(queue)
    /\ key' = Head(queue).key
    /\ Continue(ToLoad(Head(queue).spec))
    /\ UNCHANGED <<cluster, live, managed, refs, watcher, late, owed, left>>

\* The reference is recorded whatever comes of the Secret.
Refer == refs' = [refs EXCEPT ![Head(todo)] = @ \cup {key}]

\* A secret that is managed already is taken for up to date.
BugFetch ==
    /\ pc = "fetch"
    /\ Refer
    /\ LET s == Head(todo)
       IN  IF secret[s] \in Contents /\ managed[s] = None
           THEN /\ pc' = "push"
                /\ cert' = [secret |-> s, content |-> secret[s]]
                /\ UNCHANGED todo
           ELSE Continue(Tail(todo))
    /\ UNCHANGED <<cluster, live, queue, key, managed, watcher, late, owed, left>>

\* Get: a Secret that is missing, of another type or incomplete is left out.
Fetch ==
    /\ pc = "fetch"
    /\ Refer
    /\ LET s == Head(todo)
       IN  IF secret[s] \in Contents
           THEN /\ pc' = "push"
                /\ cert' = [secret |-> s, content |-> secret[s]]
                /\ UNCHANGED todo
           ELSE Continue(Tail(todo))
    /\ UNCHANGED <<cluster, live, queue, key, managed, watcher, late, owed, left>>

FetchFails ==
    /\ pc = "fetch"
    /\ Fault
    /\ Refer
    /\ Continue(Tail(todo))
    /\ owed' = None
    /\ UNCHANGED <<cluster, live, queue, key, managed, watcher, late>>

Push ==
    /\ pc = "push"
    /\ Changes(cert)
    /\ live' = cert
    /\ Replace(late \cup Uncancelled, Stragglers \ {cert}, left)
    /\ UNCHANGED <<cluster, owed>>

PushSame ==
    /\ pc = "push"
    /\ Same(cert)
    /\ pc' = "record"
    /\ UNCHANGED <<cluster, live, queue, key, todo, cert, managed, refs, watcher,
                   late, owed, left>>

PushRefused ==
    /\ pc = "push"
    /\ Refused(cert)
    /\ Continue(Tail(todo))
    /\ UNCHANGED <<cluster, live, queue, key, managed, refs, watcher, late, owed,
                   left>>

\* The failed push is recorded like any other.
BugPushFails ==
    /\ pc = "push"
    /\ Fault
    /\ pc' = "record"
    /\ owed' = None
    /\ UNCHANGED <<cluster, live, queue, key, todo, cert, managed, refs, watcher,
                   late>>

PushFails ==
    /\ pc = "push"
    /\ Fault
    /\ Continue(Tail(todo))
    /\ owed' = None
    /\ UNCHANGED <<cluster, live, queue, key, managed, refs, watcher, late>>

Record ==
    /\ pc = "record"
    /\ managed' = [managed EXCEPT ![cert.secret] = cert.content]
    /\ Continue(Tail(todo))
    /\ UNCHANGED <<cluster, live, queue, key, refs, watcher, late, owed, left>>

-----------------------------------------------------------------------------
(* handleDelete: RemoveFromIngress.  Caddy keeps the certificate.            *)

Remove ==
    /\ pc = "idle"
    /\ queue # <<>>
    /\ Head(queue).deleted
    /\ queue' = Tail(queue)
    /\ LET e == Head(queue)
           gone == {s \in Range(e.spec.secrets) : refs[s] = {e.key}}
       IN  /\ refs' = [s \in Secrets |-> IF s \in Range(e.spec.secrets)
                                         THEN refs[s] \ {e.key} ELSE refs[s]]
           /\ managed' = [s \in Secrets |-> IF s \in gone THEN None
                                                          ELSE managed[s]]
    /\ UNCHANGED <<cluster, live, pc, key, todo, cert, watcher, late, owed, left>>

-----------------------------------------------------------------------------
(* WatchSecrets and reloadSecret. *)

\* The watcher's first list makes no updates.
Watch ==
    /\ wpc = "list"
    /\ wpc' = "idle"
    /\ UNCHANGED <<cluster, live, handlers, managed, refs, updates, wcert, late,
                   owed, left>>

\* The certificate pushed is the one known already.
BugTake ==
    /\ wpc = "idle"
    /\ updates # <<>>
    /\ updates' = Tail(updates)
    /\ IF Reloads(Head(updates))
       THEN /\ wpc' = "push"
            /\ wcert' = [secret  |-> Head(updates).secret,
                         content |-> managed[Head(updates).secret]]
       ELSE UNCHANGED <<wpc, wcert>>
    /\ UNCHANGED <<cluster, live, handlers, managed, refs, late, owed, left>>

Take ==
    /\ wpc = "idle"
    /\ updates # <<>>
    /\ updates' = Tail(updates)
    /\ IF Reloads(Head(updates))
       THEN wpc' = "push" /\ wcert' = Head(updates)
       ELSE UNCHANGED <<wpc, wcert>>
    /\ UNCHANGED <<cluster, live, handlers, managed, refs, late, owed, left>>

WatcherDone == wpc' = "idle" /\ wcert' = None

WatcherPush ==
    /\ wpc = "push"
    /\ Changes(wcert)
    /\ live' = wcert
    /\ Replace(late, Stragglers, left)
    /\ UNCHANGED <<cluster, owed>>

WatcherPushSame ==
    /\ wpc = "push"
    /\ Same(wcert)
    /\ wpc' = "record"
    /\ UNCHANGED <<cluster, live, handlers, managed, refs, updates, wcert, late,
                   owed, left>>

WatcherPushRefused ==
    /\ wpc = "push"
    /\ Refused(wcert)
    /\ WatcherDone
    /\ UNCHANGED <<cluster, live, handlers, managed, refs, updates, late, owed,
                   left>>

WatcherPushFails ==
    /\ wpc = "push"
    /\ Fault
    /\ WatcherDone
    /\ owed' = None
    /\ UNCHANGED <<cluster, live, handlers, managed, refs, updates, late>>

WatcherRecord ==
    /\ wpc = "record"
    /\ managed' = [managed EXCEPT ![wcert.secret] = wcert.content]
    /\ WatcherDone
    /\ UNCHANGED <<cluster, live, handlers, refs, updates, late, owed, left>>

-----------------------------------------------------------------------------
(* The surroundings. *)

Notify(e) == queue' = IF pc = "list" THEN queue ELSE Append(queue, e)

Change ==
    /\ left.changes > 0
    /\ left' = [left EXCEPT !.changes = @ - 1]

ApplyIngress ==
    /\ Change
    /\ \E k \in Keys, spec \in Specs :
          /\ ingress[k] # spec
          /\ ingress' = [ingress EXCEPT ![k] = spec]
          /\ Notify([key |-> k, spec |-> spec, deleted |-> FALSE])
    /\ owed' = None
    /\ UNCHANGED <<secret, live, pc, key, todo, cert, managed, refs, watcher, late>>

DeleteIngress ==
    /\ Change
    /\ \E k \in Present :
          /\ ingress' = [ingress EXCEPT ![k] = Absent]
          /\ Notify([key |-> k, spec |-> ingress[k], deleted |-> TRUE])
    /\ owed' = None
    /\ UNCHANGED <<secret, live, pc, key, todo, cert, managed, refs, watcher, late>>

\* Is the whole instance at rest?
AtRest ==
    /\ pc = "idle"
    /\ queue = <<>>
    /\ wpc = "idle"
    /\ updates = <<>>
    /\ late = {}

\* A Secret is created (an event without handler) or updated, be it only in its
\* metadata.
WriteSecret ==
    /\ Change
    /\ \E s \in Secrets, c \in Contents \cup {Unusable} :
          /\ secret' = [secret EXCEPT ![s] = c]
          /\ updates' = IF secret[s] = Absent \/ wpc = "list"
                        THEN updates
                        ELSE Append(updates, [secret |-> s, content |-> c])
          /\ owed' = IF /\ AtRest
                        /\ managed[s] # None
                        /\ secret[s] # Absent
                        /\ c \in Contents \ Invalid
                     THEN [secret |-> s, content |-> c] ELSE None
    /\ UNCHANGED <<ingress, live, handlers, managed, refs, wpc, wcert, late>>

\* No handler for this event either.
DeleteSecret ==
    /\ Change
    /\ \E s \in Secrets :
          /\ secret[s] # Absent
          /\ secret' = [secret EXCEPT ![s] = Absent]
    /\ owed' = None
    /\ UNCHANGED <<ingress, live, instance, late>>

\* A reload for another change, or of the Caddyfile.
OtherReload ==
    /\ left.reloads > 0
    /\ live' \in {live, None}
    /\ Replace(late \cup Uncancelled, Stragglers, [left EXCEPT !.reloads = @ - 1])
    /\ owed' = None
    /\ UNCHANGED cluster

Crash ==
    /\ left.reloads > 0
    /\ live' = None
    /\ Replace({}, {}, [left EXCEPT !.reloads = @ - 1])
    /\ owed' = None
    /\ UNCHANGED cluster

LatePush ==
    /\ \E c \in late :
          IF Changes(c)
          THEN /\ live' = c
               /\ Replace((late \ {c}) \cup Uncancelled, Stragglers, left)
          ELSE /\ late' = late \ {c}
               /\ UNCHANGED <<live, instance, left>>
    /\ owed' = None
    /\ UNCHANGED cluster

-----------------------------------------------------------------------------
Handler ==
    \/ List
    \/ BeginAdd
    \/ Fetch
    \/ FetchFails
    \/ Push
    \/ PushSame
    \/ PushRefused
    \/ PushFails
    \/ Record
    \/ Remove

Watcher ==
    \/ Watch
    \/ Take
    \/ WatcherPush
    \/ WatcherPushSame
    \/ WatcherPushRefused
    \/ WatcherPushFails
    \/ WatcherRecord

Next ==
    \/ Handler
    \/ Watcher
    \/ Resync
    \/ LatePush
    \/ ApplyIngress
    \/ DeleteIngress
    \/ WriteSecret
    \/ DeleteSecret
    \/ OtherReload
    \/ Crash

\* The two goroutines go on, the admin endpoint works off its requests.
Fairness == WF_vars(Handler) /\ WF_vars(Watcher) /\ WF_vars(LatePush)

Spec == Init /\ [][Next]_vars /\ Fairness
-----------------------------------------------------------------------------
(* Properties *)

\* tls.go:24, managedCerts "tracks which secrets are currently loaded into
\* Caddy": whoever has pushed in the meantime, what is recorded is what is live.
ManagedLive ==
    \A s \in Secrets :
        managed[s] # None => live = [secret |-> s, content |-> managed[s]]

\* What makes it so: no push has come between an answer and its recording.
AnswersCurrent ==
    /\ pc = "record" => live = cert
    /\ wpc = "record" => live = wcert

CertsInv == TypeOK /\ AnswersCurrent /\ ManagedLive

\* README.md:678, "The Secret is watched - renewals are applied automatically":
\* the watcher alone sees to it, without the resync of the Ingresses, unless a
\* fault, a reload or a further change gets in its way.
RenewalLoaded ==
    \A c \in Certificates : (owed = c) ~> (live = c \/ owed # c)

Needed ==
    {s \in UNION {Range(ToLoad(ingress[k])) : k \in Present} :
        secret[s] \in Contents \ Invalid}

\* README.md:678, "caddy-k8s loads the certificate from the Secret referenced in
\* spec.tls": as long as the Ingress informer resyncs, every 30 seconds
\* (app.go:357), Caddy has in the end every certificate that is asked for, whatever
\* failed, came late or was missed by the watcher.
Loaded ==
    WF_vars(Resync) =>
        <>[](\A s \in Needed : live = [secret |-> s, content |-> secret[s]])

\* And it stops reloading.
Settles == <>[](pc # "list")
=============================================================================
