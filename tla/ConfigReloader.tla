--------------------------- MODULE ConfigReloader ---------------------------
(***************************************************************************)
(* The k8s_config_reloader app (reloader.go): it watches the ConfigMap      *)
(* that holds the Caddyfile and POSTs a changed one to /load.  The load    *)
(* replaces the app itself, and so does every other reload: an instance    *)
(* takes what it first sees of the ConfigMap for what Caddy runs.          *)
(***************************************************************************)
EXTENDS Naturals, Sequences

CONSTANTS
    Contents,    \* Caddyfiles; all of them keep the k8s_config_reloader block
    Invalid,     \* those that Caddy refuses to load
    NoKey,       \* a ConfigMap without the key
    Absent,      \* no ConfigMap
    None,        \* no hash, no load
    MaxChanges,  \* bound: changes of the ConfigMap
    MaxFaults,   \* bound: loads that fail or time out
    MaxReloads,  \* bound: reloads and crashes not of the app's making
    MaxLate      \* bound: loads of stopped instances

ASSUME ContentsAssumption ==
    /\ Invalid \subseteq Contents
    /\ {NoKey, Absent, None} \cap Contents = {}
    /\ Absent # NoKey

ASSUME LimitsAssumption ==
    /\ MaxChanges \in Nat
    /\ MaxFaults \in Nat
    /\ MaxReloads \in Nat
    /\ MaxLate \in Nat

VARIABLES
    cm,       \* the ConfigMap: a content, NoKey or Absent
    running,  \* the Caddyfile that Caddy runs
    pc,       \* the instance: waiting for its cache, watching or loading
    queue,    \* informer events
    lastHash, \* ConfigReloader.lastHash, a content or None
    posting,  \* the content being loaded, or None
    late,     \* loads that nobody waits for any more
    owed,     \* history: the change the instance was given a fair chance at
    left      \* what remains of the bounds

instance == <<pc, queue, lastHash, posting>>
vars == <<cm, running, instance, late, owed, left>>

Events == [update: BOOLEAN, content: Contents \cup {NoKey}]

TypeOK ==
    /\ cm \in Contents \cup {NoKey, Absent}
    /\ running \in Contents \ Invalid
    /\ pc \in {"sync", "watch", "load"}
    /\ queue \in Seq(Events)
    /\ lastHash \in Contents \cup {None}
    /\ posting \in Contents \cup {None}
    /\ pc = "load" <=> posting # None
    /\ late \subseteq Contents
    /\ owed \in Contents \cup {None}
    /\ left \in [changes: Nat, faults: Nat, reloads: Nat, late: Nat]

\* Caddy may have started from another Caddyfile than the ConfigMap has now.
Init ==
    /\ cm \in Contents \cup {NoKey, Absent}
    /\ running \in Contents \ Invalid
    /\ pc = "sync"
    /\ queue = <<>>
    /\ lastHash = None
    /\ posting = None
    /\ late = {}
    /\ owed = None
    /\ left = [changes |-> MaxChanges, faults |-> MaxFaults,
               reloads |-> MaxReloads, late |-> MaxLate]

Restart ==
    /\ pc' = "sync"
    /\ queue' = <<>>
    /\ lastHash' = None
    /\ posting' = None

\* The first list is loaded, too.
BugReloads(e, hash) == e.content \notin {NoKey, hash}

\* The first content seen, and not the first list, seeds the hash.
BugReloadsSeed(e, hash) ==
    e.update /\ hash # None /\ e.content \notin {NoKey, hash}

\* Does the event make an instance with this hash load its content?
Reloads(e, hash) == e.update /\ e.content \notin {NoKey, hash}

\* The load an instance waits for is not cancelled with it.
Unanswered == IF posting = None THEN {} ELSE {posting}

\* How many of its queued events a stopped instance is still handed (bound).
Handed == {n \in 0..1 : n <= left.late}

\* What it makes of them.
Dangling(n) ==
    IF n = 1 /\ queue # <<>> /\ Reloads(Head(queue), lastHash)
    THEN {Head(queue).content}
    ELSE {}

-----------------------------------------------------------------------------
(* Start: the informer lists the ConfigMap, and Start waits for it. *)

Sync ==
    /\ pc = "sync"
    /\ pc' = "watch"
    /\ queue' = IF cm = Absent THEN <<>>
                               ELSE <<[update |-> FALSE, content |-> cm]>>
    /\ UNCHANGED <<cm, running, lastHash, posting, late, owed, left>>

\* The ten-minute resync: an update with nothing new, once the queue is empty
\* (bound).
Resync ==
    /\ pc = "watch"
    /\ queue = <<>>
    /\ cm # Absent
    /\ queue' = <<[update |-> TRUE, content |-> cm]>>
    /\ UNCHANGED <<cm, running, pc, lastHash, posting, late, owed, left>>

-----------------------------------------------------------------------------
(* handle *)

\* The first list leaves the hash at zero.
BugHandle ==
    /\ pc = "watch"
    /\ queue # <<>>
    /\ queue' = Tail(queue)
    /\ LET e == Head(queue)
       IN  /\ lastHash' = IF e.content = NoKey \/ ~e.update
                          THEN lastHash ELSE e.content
           /\ IF Reloads(e, lastHash)
              THEN pc' = "load" /\ posting' = e.content
              ELSE UNCHANGED <<pc, posting>>
    /\ UNCHANGED <<cm, running, late, owed, left>>

\* The hash is set before the load, and whether or not there is one.
Handle ==
    /\ pc = "watch"
    /\ queue # <<>>
    /\ queue' = Tail(queue)
    /\ LET e == Head(queue)
       IN  /\ lastHash' = IF e.content = NoKey THEN lastHash ELSE e.content
           /\ IF Reloads(e, lastHash)
              THEN pc' = "load" /\ posting' = e.content
              ELSE UNCHANGED <<pc, posting>>
    /\ UNCHANGED <<cm, running, late, owed, left>>

Answered ==
    /\ pc' = "watch"
    /\ posting' = None
    /\ UNCHANGED <<queue, lastHash>>

\* Caddy loads the content, reload included.  When it runs nothing but this
\* Caddyfile already it answers without a reload.
Load ==
    /\ pc = "load"
    /\ posting \notin Invalid
    /\ running' = posting
    /\ \/ /\ Restart
          /\ \E n \in Handed :
                /\ late' = late \cup Dangling(n)
                /\ left' = [left EXCEPT !.late = @ - n]
       \/ /\ running = posting
          /\ Answered
          /\ UNCHANGED <<late, left>>
    /\ UNCHANGED <<cm, owed>>

\* reload returns an error, which handle logs.
LoadRejected ==
    /\ pc = "load"
    /\ posting \in Invalid
    /\ Answered
    /\ UNCHANGED <<cm, running, late, owed, left>>

\* The request fails, or runs into its 30 seconds and is processed later.
LoadFails ==
    /\ pc = "load"
    /\ left.faults > 0
    /\ Answered
    /\ \/ /\ UNCHANGED late
          /\ left' = [left EXCEPT !.faults = @ - 1]
       \/ /\ left.late > 0
          /\ late' = late \cup {posting}
          /\ left' = [left EXCEPT !.faults = @ - 1, !.late = @ - 1]
    /\ owed' = None
    /\ UNCHANGED <<cm, running>>

-----------------------------------------------------------------------------
(* The surroundings. *)

Watching == pc \in {"watch", "load"}

\* kubectl apply.  A ConfigMap that was gone comes back as an Add.
Publish ==
    /\ left.changes > 0
    /\ left' = [left EXCEPT !.changes = @ - 1]
    /\ \E c \in (Contents \cup {NoKey}) \ {cm} :
          /\ cm' = c
          /\ queue' = IF Watching
                      THEN Append(queue, [update |-> cm # Absent, content |-> c])
                      ELSE queue
          /\ owed' = IF /\ pc = "watch" /\ queue = <<>> /\ late = {}
                        /\ cm \in {lastHash, NoKey}
                        /\ c \in Contents \ (Invalid \cup {lastHash})
                     THEN c ELSE None
    /\ UNCHANGED <<running, pc, lastHash, posting, late>>

\* kubectl delete: no handler.
Withdraw ==
    /\ left.changes > 0
    /\ left' = [left EXCEPT !.changes = @ - 1]
    /\ cm # Absent
    /\ cm' = Absent
    /\ owed' = None
    /\ UNCHANGED <<running, instance, late>>

\* k8s_ingress, or anybody else, changes the configuration.
OtherReload ==
    /\ left.reloads > 0
    /\ \E n \in Handed :
          /\ late' = late \cup Unanswered \cup Dangling(n)
          /\ left' = [left EXCEPT !.reloads = @ - 1, !.late = @ - n]
    /\ Restart
    /\ owed' = None
    /\ UNCHANGED <<cm, running>>

\* Caddy restarts with the file it started from, or the ConfigMap's content.
Crash ==
    /\ left.reloads > 0
    /\ left' = [left EXCEPT !.reloads = @ - 1]
    /\ running' \in {running} \cup ({cm} \cap (Contents \ Invalid))
    /\ Restart
    /\ late' = {}
    /\ owed' = None
    /\ UNCHANGED cm

LateLoad ==
    /\ \E c \in late :
          \/ /\ c \notin Invalid
             /\ running' = c
             /\ late' = (late \ {c}) \cup Unanswered
             /\ Restart
          \/ /\ c \in Invalid \cup {running}
             /\ late' = late \ {c}
             /\ UNCHANGED <<running, instance>>
    /\ UNCHANGED <<cm, owed, left>>

-----------------------------------------------------------------------------
Reloader == Sync \/ Handle \/ Load \/ LoadRejected \/ LoadFails

Next ==
    \/ Reloader
    \/ Resync
    \/ LateLoad
    \/ Publish
    \/ Withdraw
    \/ OtherReload
    \/ Crash

Fairness == WF_vars(Reloader) /\ WF_vars(LateLoad) /\ WF_vars(Resync)

Spec == Init /\ [][Next]_vars /\ Fairness
-----------------------------------------------------------------------------
(* Properties *)

\* With no event left to handle, the hash that the next one is compared with is
\* that of the ConfigMap as it is.
HashCurrent ==
    (pc # "sync" /\ queue = <<>> /\ cm \in Contents) => lastHash = cm

\* The last event an instance has queued is the ConfigMap as it is.
QueueCurrent ==
    (pc # "sync" /\ queue # <<>> /\ cm # Absent) => queue[Len(queue)].content = cm

ReloaderInv == TypeOK /\ QueueCurrent /\ HashCurrent

\* reloader.go:116, the first list must "NOT reload": a load starts an instance
\* which lists the ConfigMap, and reloading would never end.  It does, although
\* resyncs keep coming and loads fail, are refused or arrive late.
Settles == <>[](pc # "sync")

\* An update of the ConfigMap, to content that loads and differs from the hash,
\* made while an instance is watching with nothing else to do, is loaded, unless
\* a further change, a failed load or a reload gets in its way.  Not among them:
\* - a ConfigMap created while the instance watches, or deleted and created
\*   again: its content arrives as an Add, seeds the hash (reloader.go:117), and
\*   no instance ever loads it, against README.md:24 and README.md:111;
\* - content that the hash stands for already although it has never been loaded:
\*   what an instance first sees of the ConfigMap, and a load that failed.
ChangeLoaded ==
    \A c \in Contents : (owed = c) ~> (owed # c \/ running = c)
=============================================================================
