---------------------------- MODULE WafConfigMap ----------------------------
(***************************************************************************)
(* The ConfigMap of WAF rules that handleAdd gives to an Ingress (waf_cm.go *)
(* and app.go): it is created once, and an annotation on the Ingress says   *)
(* so ever after.  Two requests to the API server, an informer cache whose *)
(* objects the handler writes to, and the garbage collector of Kubernetes. *)
(* One Ingress name.                                                       *)
(***************************************************************************)
EXTENDS Naturals, Sequences

CONSTANTS
    None,            \* no Ingress, no ConfigMap, no handler call
    MaxChanges,      \* bound: creations and updates of the Ingress
    MaxDeletions,    \* bound: deletions of the Ingress
    MaxFaults,       \* bound: failed requests for the ConfigMap
    MaxPatchFaults,  \* bound: failed patches of the Ingress
    MaxReloads       \* bound: reloads and crashes

\* The owner of a ConfigMap that the operator has made.
NoOwner == 0

ASSUME NoneAssumption == None \notin Nat

ASSUME LimitsAssumption ==
    /\ MaxChanges \in Nat
    /\ MaxDeletions \in Nat
    /\ MaxFaults \in Nat
    /\ MaxPatchFaults \in Nat
    /\ MaxReloads \in Nat

\* uid: the Ingress's identity; rv: its version; waf: is caddy.ingress/waf "on"
\* or "detection"? annotated: has it caddy.ingress/waf-rules-configmap?
Ingresses == [uid: Nat, rv: Nat, waf: BOOLEAN, annotated: BOOLEAN]

ASSUME IngressesAssumption == None \notin Ingresses

VARIABLES
    ing,    \* the cluster: the Ingress
    cm,     \* the cluster: the ConfigMap, as the uid of its owner
    rv,     \* the last version the API server has given
    cache,  \* the informer's copy of the Ingress
    queue,  \* events not handled yet, each with its copy
    pc,     \* the handler: where it is in ensureWAFConfigMap
    job,    \* the copy it works on
    late,   \* cancelled requests: to create a ConfigMap for an owner, or None to
            \* patch the Ingress
    left    \* what remains of the bounds

instance == <<cache, queue, pc, job>>
vars == <<ing, cm, rv, instance, late, left>>

TypeOK ==
    /\ ing \in Ingresses \cup {None}
    /\ cm \in Nat \cup {None}
    /\ rv \in Nat
    /\ cache \in Ingresses \cup {None}
    /\ queue \in Seq(Ingresses)
    /\ pc \in {"list", "idle", "get", "create", "patch"}
    /\ IF pc \in {"get", "create", "patch"} THEN job \in Ingresses ELSE job = None
    /\ late \subseteq Nat \cup {None}
    /\ left \in [changes: Nat, deletions: Nat, faults: Nat, patchFaults: Nat,
                 reloads: Nat]

Init ==
    /\ ing = None
    /\ cm \in {None, NoOwner}
    /\ rv = 0
    /\ cache = None
    /\ queue = <<>>
    /\ pc = "list"
    /\ job = None
    /\ late = {}
    /\ left = [changes |-> MaxChanges, deletions |-> MaxDeletions,
               faults |-> MaxFaults, patchFaults |-> MaxPatchFaults,
               reloads |-> MaxReloads]

-----------------------------------------------------------------------------
(* The API server. *)

\* The informer takes over a new version and queues it; q is queued already.
Notify(i, q) ==
    IF pc = "list"
    THEN UNCHANGED <<cache, queue>>
    ELSE cache' = i /\ queue' = Append(q, i)

\* The patch goes by name.  One that changes nothing makes no new version.
Patchable == ing # None /\ ~ing.annotated

PatchIngress(q) ==
    /\ ing' = [ing EXCEPT !.rv = rv + 1, !.annotated = TRUE]
    /\ rv' = rv + 1
    /\ Notify(ing', q)

\* Created without an OwnerReference.
BugCreateCM(owner) == cm' = IF cm = None THEN NoOwner ELSE cm

CreateCM(owner) == cm' = IF cm = None THEN owner ELSE cm

\* Garbage collection: the owner is gone.
Collect ==
    /\ cm \notin {None, NoOwner}
    /\ ing # None => ing.uid # cm
    /\ cm' = None
    /\ UNCHANGED <<ing, rv, instance, late, left>>

-----------------------------------------------------------------------------
(* Informer. *)

List ==
    /\ pc = "list"
    /\ pc' = "idle"
    /\ cache' = ing
    /\ queue' = IF ing = None THEN <<>> ELSE <<ing>>
    /\ UNCHANGED <<ing, cm, rv, job, late, left>>

\* The 30-second resync hands out the cached object itself.
Resync ==
    /\ pc # "list"
    /\ queue = <<>>
    /\ cache # None
    /\ queue' = <<cache>>
    /\ UNCHANGED <<ing, cm, rv, cache, pc, job, late, left>>

-----------------------------------------------------------------------------
(* ensureWAFConfigMap, called by handleAdd *)

Begin ==
    /\ pc = "idle"
    /\ queue # <<>>
    /\ LET i == Head(queue)
       IN  IF i.waf /\ ~i.annotated
           THEN pc' = "get" /\ job' = i
           ELSE UNCHANGED <<pc, job>>
    /\ queue' = Tail(queue)
    /\ UNCHANGED <<ing, cm, rv, cache, late, left>>

GoTo(step) == pc' = step /\ UNCHANGED job

Return == pc' = "idle" /\ job' = None

\* The patch comes first.
BugGet ==
    /\ pc = "get"
    /\ GoTo("patch")
    /\ UNCHANGED <<ing, cm, rv, cache, queue, late, left>>

\* A ConfigMap that exists leaves nothing to do.
BugGetDone ==
    /\ pc = "get"
    /\ IF cm = None THEN GoTo("create") ELSE Return
    /\ UNCHANGED <<ing, cm, rv, cache, queue, late, left>>

Get ==
    /\ pc = "get"
    /\ GoTo(IF cm = None THEN "create" ELSE "patch")
    /\ UNCHANGED <<ing, cm, rv, cache, queue, late, left>>

\* A ConfigMap that somebody else has just created will do.
Create ==
    /\ pc = "create"
    /\ CreateCM(job.uid)
    /\ GoTo("patch")
    /\ UNCHANGED <<ing, rv, cache, queue, late, left>>

\* The error is logged, and the rest of handleAdd goes on without the rules.
Fails ==
    /\ pc \in {"get", "create"}
    /\ left.faults > 0
    /\ left' = [left EXCEPT !.faults = @ - 1]
    /\ Return
    /\ UNCHANGED <<ing, cm, rv, cache, queue, late>>

\* handleAdd writes the annotation into the object it was given, which is the
\* cached one.
Inject(i) == IF i # None /\ i = job THEN [i EXCEPT !.annotated = TRUE] ELSE i

Injected == [n \in DOMAIN queue |-> Inject(queue[n])]

Patch ==
    /\ pc = "patch"
    /\ IF Patchable
       THEN PatchIngress(Injected)
       ELSE cache' = Inject(cache) /\ queue' = Injected /\ UNCHANGED <<ing, rv>>
    /\ Return
    /\ UNCHANGED <<cm, late, left>>

\* "failed to patch waf-rules-configmap annotation - will retry on next sync":
\* the warning, and the annotation is injected all the same.
PatchFails ==
    /\ pc = "patch"
    /\ left.patchFaults > 0
    /\ left' = [left EXCEPT !.patchFaults = @ - 1]
    /\ cache' = Inject(cache)
    /\ queue' = Injected
    /\ Return
    /\ UNCHANGED <<ing, cm, rv, late>>

-----------------------------------------------------------------------------
(* The surroundings. *)

\* kubectl create, apply or replace; only the last drops the annotation.
Apply ==
    /\ left.changes > 0
    /\ left' = [left EXCEPT !.changes = @ - 1]
    /\ \E waf, annotated \in BOOLEAN :
          /\ annotated => ing # None /\ ing.annotated
          /\ ing' = [uid       |-> IF ing = None THEN rv + 1 ELSE ing.uid,
                     rv        |-> rv + 1,
                     waf       |-> waf,
                     annotated |-> annotated]
    /\ rv' = rv + 1
    /\ Notify(ing', queue)
    /\ UNCHANGED <<cm, pc, job, late>>

\* handleDelete does nothing about the ConfigMap.
Delete ==
    /\ left.deletions > 0
    /\ left' = [left EXCEPT !.deletions = @ - 1]
    /\ ing # None
    /\ ing' = None
    /\ cache' = None
    /\ UNCHANGED <<cm, rv, queue, pc, job, late>>

\* The instance is replaced; the API server may still process the request that
\* is cancelled.
Reload ==
    /\ left.reloads > 0
    /\ left' = [left EXCEPT !.reloads = @ - 1]
    /\ \/ UNCHANGED late
       \/ pc = "create" /\ late' = late \cup {job.uid}
       \/ pc = "patch" /\ late' = late \cup {None}
    /\ pc' = "list"
    /\ job' = None
    /\ cache' = None
    /\ queue' = <<>>
    /\ UNCHANGED <<ing, cm, rv>>

LateRequest ==
    /\ \E r \in late :
          /\ late' = late \ {r}
          /\ \/ /\ r # None
                /\ CreateCM(r)
                /\ UNCHANGED <<ing, rv, cache, queue>>
             \/ /\ r = None
                /\ Patchable
                /\ PatchIngress(queue)
                /\ UNCHANGED cm
             \/ /\ r = None
                /\ ~Patchable
                /\ UNCHANGED <<ing, rv, cache, queue, cm>>
    /\ UNCHANGED <<pc, job, left>>

-----------------------------------------------------------------------------
Handler == List \/ Begin \/ Get \/ Create \/ Fails \/ Patch \/ PatchFails

Next ==
    \/ Handler
    \/ Resync
    \/ LateRequest
    \/ Collect
    \/ Apply
    \/ Delete
    \/ Reload

\* The handler goes on, the informer resyncs (app.go:357), the API server works
\* off its requests and its garbage collector runs.
Fairness ==
    /\ WF_vars(Handler)
    /\ WF_vars(Resync)
    /\ WF_vars(LateRequest)
    /\ WF_vars(Collect)

Spec == Init /\ [][Next]_vars /\ Fairness
-----------------------------------------------------------------------------
(* Properties *)

\* The annotation is not written before the ConfigMap that it names exists: by
\* nobody, and neither in the cluster nor in the informer's copy.  (Before
\* the first deletion: an Ingress that is created again takes over a ConfigMap
\* that is about to be collected.)
AnnotationBacked ==
    (left.deletions = MaxDeletions /\ cm = None) =>
        /\ ing # None => ~ing.annotated
        /\ cache # None => ~cache.annotated

\* What makes it so: no patch is sent before the ConfigMap exists, and until
\* the first deletion it belongs to the Ingress.
PatchBacked ==
    (left.deletions = MaxDeletions) =>
        /\ cm = None => pc # "patch" /\ None \notin late
        /\ cm \notin {None, NoOwner} => ing # None /\ cm = ing.uid

WafInv == TypeOK /\ PatchBacked /\ AnnotationBacked

WantsRules == ing # None /\ ing.waf

\* waf_cm.go:41, the ConfigMap is created "when the Ingress has
\* caddy.ingress/waf set" and "no annotation is present yet": unless a patch fails
\* or the Ingress is deleted, one with WAF ends up with an annotation and with the
\* ConfigMap, whatever other request fails, is cut off or comes late.
Backed ==
    [](left.deletions = MaxDeletions /\ left.patchFaults = MaxPatchFaults) =>
        <>[](WantsRules => ing.annotated /\ cm # None)

\* waf_cm.go:85, "so K8s GC deletes it when the Ingress is removed": whatever
\* comes late, no ConfigMap but the operator's own stays behind an Ingress that is
\* gone.
Collected == (cm = None) => <>[](ing = None => cm = None)
=============================================================================
