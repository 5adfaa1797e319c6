----------------------------- MODULE AccessLog -----------------------------
(***************************************************************************)
(* The access log manager (access_log.go), with the part of App that       *)
(* drives it: run, which configures Caddy's loggers before it starts the   *)
(* informer, and the handlers, which call Skip or Unskip.                  *)
(*                                                                         *)
(* The manager writes to the configuration that its own instance runs in,  *)
(* so a write that changes anything ends the instance; but its start-up    *)
(* writes are made with context.Background(), and an old instance goes on  *)
(* with them next to the new one.                                          *)
(***************************************************************************)
EXTENDS Naturals, Sequences, FiniteSets, SequencesExt

CONSTANTS
    Keys,        \* Ingress keys
    Hosts,       \* hosts of their rules
    HostLists,   \* what an Ingress may ask to skip; << >> when it opts in
    Servers,     \* the HTTPS server, then the HTTP server
    Verbose,     \* verbose_logs
    MaxChanges,  \* bound: user actions
    MaxFaults,   \* bound: failed admin requests
    MaxReloads,  \* bound: reloads and crashes not of the manager's making
    MaxLate,     \* bound: PATCHes that outlive their instance
    Absent,      \* no Ingress
    Unset        \* no setting, no list

ASSUME ServersAssumption ==
    /\ Servers \in Seq(STRING)
    /\ Servers # <<>>
    /\ IsInjective(Servers)
    /\ ToSet(Servers) \cap {"access", "default", "admin.api"} = {}

ASSUME ListsAssumption ==
    /\ HostLists \subseteq Seq(Hosts)
    /\ << >> \in HostLists
    /\ Absent \notin HostLists

-----------------------------------------------------------------------------
(* Definitions named Bug... are not the code: each changes the definition   *)
(* that follows it the way a slip in the code would.                        *)

\* Only the HTTPS server is pointed at the "access" logger.
BugStartup ==
    <<"access", Servers[1], "default">>
        \o (IF Verbose THEN <<>> ELSE <<"admin.api">>)

\* What run writes before it watches: Enable's logger and server settings,
\* then those of configureDefaultLogger.
Startup ==
    <<"access">> \o Servers \o <<"default">>
        \o (IF Verbose THEN <<>> ELSE <<"admin.api">>)

Steps == DOMAIN Startup

\* The step after i, none after the last.
After(i) == {i + 1} \cap Steps

\* The step after an error at i: Enable returns, configureDefaultLogger only
\* warns.
AfterError(i) ==
    IF i <= Len(Servers) + 1 THEN {Len(Servers) + 2} ELSE After(i)

Settings == {"access", "default", "admin.api"} \cup ToSet(Servers)

Lists == UNION {SetToSeqs(S) : S \in SUBSET Hosts}

ASSUME KeysAssumption == IsFiniteSet(Keys)

ASSUME UnsetAssumption == Unset \notin Lists

ASSUME LimitsAssumption ==
    /\ MaxChanges \in Nat
    /\ MaxFaults \in Nat
    /\ MaxReloads \in Nat
    /\ MaxLate \in Nat

VARIABLES
    off,      \* the cluster: the hosts each Ingress asks to skip, or Absent
    config,   \* Caddy: each setting, Unset or a list (a server's skip_hosts)
    pc,       \* where the running instance is
    at,       \* its start-up step, or the server it PATCHes
    queue,    \* informer events
    disabled, \* accessLogManager.disabled, << >> for no entry
    lastSkip, \* accessLogManager.lastSkip, Unset at first
    body,     \* the list a rebuild is sending, or Unset
    zombies,  \* start-up steps that stopped instances are still at
    late,     \* PATCHes of stopped instances, not processed yet
    left      \* what remains of the bounds

instance == <<pc, at, queue, disabled, lastSkip, body>>
vars == <<off, config, instance, zombies, late, left>>

TypeOK ==
    /\ off \in [Keys -> HostLists \cup {Absent}]
    /\ config \in [Settings -> Lists \cup {Unset}]
    /\ pc \in {"startup", "list", "idle", "patch"}
    /\ at \in Nat \ {0}
    /\ pc = "startup" => at \in Steps
    /\ queue \in Seq([key: Keys, hosts: HostLists])
    /\ disabled \in [Keys -> HostLists]
    /\ lastSkip \in Lists \cup {Unset}
    /\ body \in Lists \cup {Unset}
    /\ pc = "patch" => body # Unset
    /\ zombies \subseteq Steps
    /\ late \subseteq [server: ToSet(Servers), body: Lists]
    /\ left \in [changes: Nat, faults: Nat, reloads: Nat, late: Nat]

Wiped == [p \in Settings |-> Unset]

Init ==
    /\ off \in [Keys -> HostLists \cup {Absent}]
    /\ config = Wiped
    /\ pc = "startup"
    /\ at = 1
    /\ queue = <<>>
    /\ disabled = [k \in Keys |-> <<>>]
    /\ lastSkip = Unset
    /\ body = Unset
    /\ zombies = {}
    /\ late = {}
    /\ left = [changes |-> MaxChanges, faults |-> MaxFaults,
               reloads |-> MaxReloads, late |-> MaxLate]

Restart ==
    /\ pc' = "startup"
    /\ at' = 1
    /\ queue' = <<>>
    /\ disabled' = [k \in Keys |-> <<>>]
    /\ lastSkip' = Unset
    /\ body' = Unset

Fault == left.faults > 0 /\ left' = [left EXCEPT !.faults = @ - 1]

\* Two old instances at one step count as one (bound).
Lingering == IF pc = "startup" THEN {at} ELSE {}

\* Every write is sent with Cache-Control: must-revalidate, and reloads.
BugUnchanged(p, v) == FALSE

\* Caddy takes value v for setting p.  Writing what is there already is
\* answered with success, and nothing is reloaded.
Unchanged(p, v) == config[p] = v

Change(p, v) ==
    /\ ~Unchanged(p, v)
    /\ config' = [config EXCEPT ![p] = v]
    /\ Restart

-----------------------------------------------------------------------------
(* Start of an instance. *)

GoOn(steps) ==
    /\ IF steps = {} THEN pc' = "list" /\ at' = 1
                     ELSE pc' = pc /\ at' \in steps
    /\ UNCHANGED <<queue, disabled, lastSkip, body>>

\* putOrPatch of the next start-up setting: skip_hosts starts empty.
StartupWrite ==
    /\ pc = "startup"
    /\ \/ /\ Unchanged(Startup[at], <<>>)
          /\ GoOn(After(at))
          /\ UNCHANGED <<config, zombies>>
       \/ /\ Change(Startup[at], <<>>)
          /\ zombies' = zombies \cup After(at)
    /\ UNCHANGED <<off, late, left>>

StartupError ==
    /\ pc = "startup"
    /\ Fault
    /\ GoOn(AfterError(at))
    /\ UNCHANGED <<off, config, zombies, late>>

\* A stopped instance finishes its start-up: nothing cancels these writes.
\* Its informers never start.
Zombie ==
    /\ \E i \in zombies :
          \/ /\ Unchanged(Startup[i], <<>>)
             /\ zombies' = (zombies \ {i}) \cup After(i)
             /\ UNCHANGED <<config, instance>>
          \/ /\ Change(Startup[i], <<>>)
             /\ zombies' = (zombies \ {i}) \cup After(i) \cup Lingering
    /\ UNCHANGED <<off, late, left>>

ZombieError ==
    /\ Fault
    /\ \E i \in zombies : zombies' = (zombies \ {i}) \cup AfterError(i)
    /\ UNCHANGED <<off, config, instance, late>>

Present == {k \in Keys : off[k] # Absent}

\* One event for each Ingress, in any order.
Listings ==
    {[i \in DOMAIN ks |-> [key |-> ks[i], hosts |-> off[ks[i]]]] :
        ks \in SetToSeqs(Present)}

List ==
    /\ pc = "list"
    /\ pc' = "idle"
    /\ queue' \in Listings
    /\ UNCHANGED <<off, config, at, disabled, lastSkip, body, zombies, late, left>>

\* The periodic resync, once the queue has drained (bound).
Resync ==
    /\ pc \in {"idle", "patch"}
    /\ queue = <<>>
    /\ queue' \in Listings
    /\ UNCHANGED <<off, config, pc, at, disabled, lastSkip, body, zombies, late,
                   left>>

-----------------------------------------------------------------------------
(* Skip, Unskip and rebuild *)

\* The hosts of d, each once and where it comes first, Ingresses in the order in
\* which Go happens to iterate the map.
Bodies(d) ==
    {b \in Lists : \E ks \in SetToSeqs({k \in Keys : d[k] # <<>>}) :
        LET all == FlattenSeq([i \in DOMAIN ks |-> d[ks[i]]])
            First(h) == SelectInSeq(all, LAMBDA g : g = h)
        IN  /\ ToSet(b) = ToSet(all)
            /\ \A i, j \in DOMAIN b : i < j => First(b[i]) < First(b[j])}

\* The list is remembered before it has been sent.
BugHandle ==
    /\ pc = "idle"
    /\ queue # <<>>
    /\ queue' = Tail(queue)
    /\ disabled' = [disabled EXCEPT ![Head(queue).key] = Head(queue).hosts]
    /\ \E b \in Bodies(disabled') :
          IF b = lastSkip
          THEN UNCHANGED <<pc, at, body, lastSkip>>
          ELSE pc' = "patch" /\ at' = 1 /\ body' = b /\ lastSkip' = b
    /\ UNCHANGED <<off, config, zombies, late, left>>

\* Unskip leaves it to the next Skip to rebuild the list.
BugUnskip ==
    /\ pc = "idle"
    /\ queue # <<>>
    /\ queue' = Tail(queue)
    /\ disabled' = [disabled EXCEPT ![Head(queue).key] = Head(queue).hosts]
    /\ \E b \in Bodies(disabled') :
          IF b = lastSkip \/ Head(queue).hosts = <<>>
          THEN UNCHANGED <<pc, at, body>>
          ELSE pc' = "patch" /\ at' = 1 /\ body' = b
    /\ UNCHANGED <<off, config, lastSkip, zombies, late, left>>

\* handleAdd or handleDelete calls Skip or Unskip, and rebuild compares the
\* new list with the last one sent.
Handle ==
    /\ pc = "idle"
    /\ queue # <<>>
    /\ queue' = Tail(queue)
    /\ disabled' = [disabled EXCEPT ![Head(queue).key] = Head(queue).hosts]
    /\ \E b \in Bodies(disabled') :
          IF b = lastSkip
          THEN UNCHANGED <<pc, at, body>>
          ELSE pc' = "patch" /\ at' = 1 /\ body' = b
    /\ UNCHANGED <<off, config, lastSkip, zombies, late, left>>

Patching == pc = "patch" /\ at \in DOMAIN Servers

\* PATCH of the server's skip_hosts, which must exist.
PatchSame ==
    /\ Patching
    /\ Unchanged(Servers[at], body)
    /\ at' = at + 1
    /\ UNCHANGED <<off, config, pc, queue, disabled, lastSkip, body, zombies, late,
                   left>>

PatchChanges ==
    /\ Patching
    /\ config[Servers[at]] # Unset
    /\ Change(Servers[at], body)
    /\ UNCHANGED <<off, zombies, late, left>>

\* rebuild returns the error, and the handler goes on without it.
PatchFails ==
    /\ Patching
    /\ \/ config[Servers[at]] = Unset /\ UNCHANGED left
       \/ Fault
    /\ pc' = "idle"
    /\ body' = Unset
    /\ at' = 1
    /\ UNCHANGED <<off, config, queue, disabled, lastSkip, zombies, late>>

\* lastSkip is set once every server has answered.
Remember ==
    /\ pc = "patch"
    /\ at \notin DOMAIN Servers
    /\ lastSkip' = body
    /\ pc' = "idle"
    /\ body' = Unset
    /\ at' = 1
    /\ UNCHANGED <<off, config, queue, disabled, zombies, late, left>>

-----------------------------------------------------------------------------
(* The surroundings. *)

Event(k, hosts) ==
    queue' = IF pc \in {"idle", "patch"}
             THEN Append(queue, [key |-> k, hosts |-> hosts])
             ELSE queue

\* An Ingress is applied, with or without the annotation, or deleted.
UserActs ==
    /\ left.changes > 0
    /\ left' = [left EXCEPT !.changes = @ - 1]
    /\ \E k \in Keys, hosts \in HostLists \cup {Absent} :
          /\ off[k] # hosts
          /\ off' = [off EXCEPT ![k] = hosts]
          /\ Event(k, IF hosts = Absent THEN <<>> ELSE hosts)
    /\ UNCHANGED <<config, pc, at, disabled, lastSkip, body, zombies, late>>

\* A reload for a route or by another client; POST /load drops the settings.
\* The PATCH the instance was waiting for may still be processed.
ExternalReload ==
    /\ left.reloads > 0
    /\ config' \in {config, Wiped}
    /\ zombies' = zombies \cup Lingering
    /\ \/ /\ left' = [left EXCEPT !.reloads = @ - 1]
          /\ UNCHANGED late
       \/ /\ Patching
          /\ left.late > 0
          /\ late' = late \cup {[server |-> Servers[at], body |-> body]}
          /\ left' = [left EXCEPT !.reloads = @ - 1, !.late = @ - 1]
    /\ Restart
    /\ UNCHANGED off

Crash ==
    /\ left.reloads > 0
    /\ left' = [left EXCEPT !.reloads = @ - 1]
    /\ config' \in {config, Wiped}
    /\ zombies' = {}
    /\ late' = {}
    /\ Restart
    /\ UNCHANGED off

LatePatch ==
    /\ \E q \in late :
          /\ late' = late \ {q}
          /\ \/ /\ config[q.server] # Unset
                /\ Change(q.server, q.body)
                /\ zombies' = zombies \cup Lingering
             \/ /\ config[q.server] \in {Unset, q.body}
                /\ UNCHANGED <<config, instance, zombies>>
    /\ UNCHANGED <<off, left>>

-----------------------------------------------------------------------------
Manager ==
    \/ StartupWrite
    \/ StartupError
    \/ List
    \/ Handle
    \/ PatchSame
    \/ PatchChanges
    \/ PatchFails
    \/ Remember

Next ==
    \/ Manager
    \/ Zombie
    \/ ZombieError
    \/ Resync
    \/ LatePatch
    \/ UserActs
    \/ ExternalReload
    \/ Crash

\* The goroutines of running and stopped instances go on, the informer
\* resyncs, the admin endpoint works off its requests.
Fairness ==
    /\ WF_vars(Manager)
    /\ WF_vars(Zombie)
    /\ WF_vars(Resync)
    /\ WF_vars(LatePatch)

Spec == Init /\ [][Next]_vars /\ Fairness
-----------------------------------------------------------------------------
(* Properties *)

\* rebuild trusts lastSkip instead of asking Caddy: what it remembers is what
\* every server has, whoever else has written in the meantime.
CacheFresh == lastSkip # Unset => \A s \in ToSet(Servers) : config[s] = lastSkip

\* What makes it so: the servers a rebuild has been to have what it sends.
Sent == pc = "patch" => \A i \in 1..(at - 1) : config[Servers[i]] = body

CacheInv == TypeOK /\ Sent /\ CacheFresh

\* The hosts that some Ingress asks to skip.
Asked == UNION {ToSet(off[k]) : k \in Present}

\* Logging comes back: once and for all, no server skips a host that no Ingress
\* asks to skip, whatever failed, was late or was left over by old instances;
\* provided there is an Ingress at all, for only its events make a rebuild.
Restored ==
    <>[](Present # {} =>
            \A s \in ToSet(Servers) :
               config[s] # Unset => ToSet(config[s]) \subseteq Asked)

\* Enable (access_log.go:44) reaches every server in spite of the reloads that
\* it causes itself: unless a request fails, all of them keep an access log.
LoggingOn ==
    [](left.faults = MaxFaults) =>
        <>[](\A p \in {"access"} \cup ToSet(Servers) : config[p] # Unset)

\* As long as nobody asks to skip a host, the start-up writes and the rebuilds
\* end in a configuration that they recognise: no instance starts any more.
QuietWhenAllLogged == (<>[](Asked = {})) => <>[](pc # "startup")

\* README.md:286, caddy.ingress/access-log is "false" "to suppress access logs
\* for this Ingress": its hosts end up in every server's skip_hosts.
Suppressed ==
    <>[](\A s \in ToSet(Servers) :
            config[s] # Unset /\ Asked \subseteq ToSet(config[s]))
=============================================================================
