------------------------- MODULE WafConfigMapProofs -------------------------
(***************************************************************************)
(* Proofs about WafConfigMap, for every bound.  WafInv is not inductive:   *)
(* that a ConfigMap which ensureWAFConfigMap creates belongs to the Ingress *)
(* of the moment takes that all copies and requests on their way are of the *)
(* one Ingress there has been (OneIngress).                                *)
(***************************************************************************)
EXTENDS WafConfigMap, TLAPS

Busy == {"get", "create", "patch"}

\* Until the first deletion there is one Ingress, and every copy and request in
\* flight is of it.
OneIngress ==
    /\ left.deletions \leq MaxDeletions
    /\ left.deletions = MaxDeletions =>
          /\ ing = None =>
                cache = None /\ queue = <<>> /\ job = None /\ late = {}
          /\ ing # None =>
                /\ cache # None => cache.uid = ing.uid
                /\ job # None => job.uid = ing.uid
                /\ \A n \in DOMAIN queue : queue[n].uid = ing.uid
                /\ \A r \in late \ {None} : r = ing.uid

IndInv == WafInv /\ OneIngress

\* A version of an Ingress that is written is an Ingress.
LEMMA VersionType ==
    ASSUME TypeOK, Patchable
    PROVE  /\ [ing EXCEPT !.rv = rv + 1, !.annotated = TRUE] \in Ingresses
           /\ [ing EXCEPT !.rv = rv + 1, !.annotated = TRUE].uid = ing.uid
<1>1. ing \in Ingresses /\ rv + 1 \in Nat
  BY DEF TypeOK, Patchable
<1>2. ASSUME NEW v \in Nat
      PROVE  /\ [ing EXCEPT !.rv = v, !.annotated = TRUE] \in Ingresses
             /\ [ing EXCEPT !.rv = v, !.annotated = TRUE].uid = ing.uid
  BY <1>1 DEF Ingresses
<1> QED  BY <1>1, <1>2

\* An event is added at the end.
LEMMA AppendAt ==
    ASSUME NEW i \in Ingresses, NEW q \in Seq(Ingresses),
           NEW s, s = Append(q, i), NEW n \in DOMAIN s
    PROVE  s[n] = i \/ (n \in DOMAIN q /\ s[n] = q[n])
<1>1. /\ DOMAIN s = 1..(Len(q) + 1) /\ Len(q) \in Nat
      /\ DOMAIN q = 1..Len(q)
      /\ s[Len(q) + 1] = i
      /\ \A x \in 1..Len(q) : s[x] = q[x]
  OBVIOUS
<1> QED  BY <1>1

\* The informer's copies are Ingresses.
LEMMA NotifyType ==
    ASSUME TypeOK, NEW i \in Ingresses, NEW q \in Seq(Ingresses), Notify(i, q)
    PROVE  /\ cache' \in Ingresses \cup {None}
           /\ queue' \in Seq(Ingresses)
<1>1. CASE pc = "list"
  BY <1>1 DEF Notify, TypeOK
<1>2. CASE pc # "list"
  BY <1>2 DEF Notify
<1> QED  BY <1>1, <1>2

\* They are of the Ingress that was written, if those before were.
LEMMA NotifyCopies ==
    ASSUME TypeOK, NEW i \in Ingresses, NEW q \in Seq(Ingresses), Notify(i, q),
           cache # None => cache.uid = i.uid,
           \A n \in DOMAIN queue : queue[n].uid = i.uid,
           \A n \in DOMAIN q : q[n].uid = i.uid
    PROVE  /\ cache' # None => cache'.uid = i.uid
           /\ \A n \in DOMAIN queue' : queue'[n].uid = i.uid
<1>1. CASE pc = "list"
  BY <1>1 DEF Notify
<1>2. CASE pc # "list"
  <2>1. cache' = i /\ queue' = Append(q, i)
    BY <1>2 DEF Notify
  <2>2. \A n \in DOMAIN queue' : queue'[n] = i \/ (n \in DOMAIN q /\ queue'[n] = q[n])
    BY <2>1, AppendAt
  <2> QED  BY <2>1, <2>2
<1> QED  BY <1>1, <1>2

\* handleAdd writes to its copy nothing but the annotation.
LEMMA InjectType ==
    ASSUME TypeOK, NEW i \in Ingresses \cup {None}
    PROVE  /\ Inject(i) \in Ingresses \cup {None}
           /\ i = None <=> Inject(i) = None
           /\ i # None => Inject(i).uid = i.uid
<1>1. ASSUME i # None
      PROVE  /\ [i EXCEPT !.annotated = TRUE] \in Ingresses
             /\ [i EXCEPT !.annotated = TRUE].uid = i.uid
  BY <1>1 DEF Ingresses
<1> QED  BY <1>1, IngressesAssumption DEF Inject

\* Nor to the copies that are queued.
LEMMA InjectedType ==
    ASSUME TypeOK
    PROVE  /\ Injected \in Seq(Ingresses)
           /\ DOMAIN Injected = DOMAIN queue
           /\ \A n \in DOMAIN queue : Injected[n].uid = queue[n].uid
           /\ queue = <<>> => Injected = <<>>
<1>1. /\ queue \in Seq(Ingresses) /\ Len(queue) \in Nat
      /\ DOMAIN queue = 1..Len(queue)
      /\ \A n \in DOMAIN queue : queue[n] \in Ingresses
  BY DEF TypeOK
<1>2. \A n \in DOMAIN queue : /\ Inject(queue[n]) \in Ingresses
                              /\ Inject(queue[n]).uid = queue[n].uid
  BY <1>1, InjectType, IngressesAssumption
<1>3. Injected = [n \in 1..Len(queue) |-> Inject(queue[n])]
  BY <1>1 DEF Injected
<1>4. Injected \in Seq(Ingresses) /\ DOMAIN Injected = DOMAIN queue
  BY <1>1, <1>2, <1>3
<1>5. queue = <<>> => Injected = <<>>
  BY <1>1, <1>3
<1> QED  BY <1>2, <1>3, <1>4, <1>5, <1>1

\* The limits count down.
Limits == [changes: Nat, deletions: Nat, faults: Nat, patchFaults: Nat, reloads: Nat]

\* The initial states.
LEMMA InitInd == Init => IndInv
<1> SUFFICES ASSUME Init PROVE IndInv
  OBVIOUS
<1>1. TypeOK
  BY LimitsAssumption DEF Init, TypeOK, NoOwner
<1>2. OneIngress
  BY LimitsAssumption DEF Init, OneIngress
<1>3. PatchBacked /\ AnnotationBacked
  BY DEF Init, PatchBacked, AnnotationBacked
<1> QED  BY <1>1, <1>2, <1>3 DEF IndInv, WafInv

\* A patch of the Ingress, on behalf of a handler or late.
LEMMA PatchedInd ==
    ASSUME TypeOK, Patchable, NEW q \in Seq(Ingresses), PatchIngress(q)
    PROVE  /\ ing' \in Ingresses /\ ing' # None /\ ing'.uid = ing.uid
           /\ rv' \in Nat
           /\ cache' \in Ingresses \cup {None}
           /\ queue' \in Seq(Ingresses)
           /\ (/\ cache # None => cache.uid = ing.uid
               /\ \A n \in DOMAIN queue : queue[n].uid = ing.uid
               /\ \A n \in DOMAIN q : q[n].uid = ing.uid) =>
                 /\ cache' # None => cache'.uid = ing'.uid
                 /\ \A n \in DOMAIN queue' : queue'[n].uid = ing'.uid
<1>1. ing' \in Ingresses /\ ing'.uid = ing.uid /\ Notify(ing', q) /\ rv' = rv + 1
  BY VersionType DEF PatchIngress
<1>2. rv' \in Nat
  BY <1>1 DEF TypeOK
<1> QED  BY <1>1, <1>2, NotifyType, NotifyCopies, IngressesAssumption

\* The steps of handleAdd before the patch change neither the Ingress nor the
\* copies of it.
LEMMA QuietInd ==
    ASSUME IndInv, UNCHANGED <<ing, cm, rv, cache>>,
           left' \in Limits, left'.deletions = left.deletions,
           queue' \in Seq(Ingresses),
           \A n \in DOMAIN queue' : \/ cache # None /\ queue'[n] = cache
                                    \/ \E m \in DOMAIN queue : queue'[n] = queue[m],
           queue = <<>> /\ cache = None => queue' = <<>>,
           late' \subseteq late,
           pc' \in {"list", "idle"} \cup Busy,
           job' \in {job, None} \/ (\E m \in DOMAIN queue : job' = queue[m]),
           IF pc' \in Busy THEN job' \in Ingresses ELSE job' = None,
           pc' = "patch" => pc = "patch" \/ cm # None
    PROVE  IndInv'
<1>1. TypeOK'
  BY DEF IndInv, WafInv, TypeOK, Busy, Limits
<1>2. OneIngress'
  <2> SUFFICES ASSUME left.deletions = MaxDeletions PROVE OneIngress'
    BY DEF IndInv, OneIngress
  <2>1. CASE ing = None
    BY <2>1 DEF IndInv, OneIngress
  <2>2. CASE ing # None
    BY <2>2 DEF IndInv, OneIngress
  <2> QED  BY <2>1, <2>2
<1>3. PatchBacked' /\ AnnotationBacked'
  BY DEF IndInv, WafInv, PatchBacked, AnnotationBacked
<1> QED  BY <1>1, <1>2, <1>3 DEF IndInv, WafInv

\* Every step.
LEMMA StepInd == IndInv /\ [Next]_vars => IndInv'
<1> SUFFICES ASSUME IndInv, [Next]_vars PROVE IndInv'
  OBVIOUS
<1> USE DEF IndInv, WafInv
<1>0. /\ left \in Limits /\ pc \in {"list", "idle"} \cup Busy
      /\ \A n \in DOMAIN queue : queue[n] \in Ingresses
      /\ None \notin Ingresses
  BY IngressesAssumption DEF TypeOK, Limits, Busy
<1>1. CASE List
  <2>1. TypeOK'
    BY <1>1 DEF List, TypeOK
  <2>2. OneIngress'
    BY <1>1 DEF List, OneIngress
  <2>3. PatchBacked' /\ AnnotationBacked'
    BY <1>1 DEF List, PatchBacked, AnnotationBacked
  <2> QED  BY <2>1, <2>2, <2>3
<1>2. CASE Resync
  <2>1. cache \in Ingresses
    BY <1>2 DEF Resync, TypeOK
  <2> QED  BY <1>0, <1>2, <2>1, QuietInd DEF Resync, TypeOK, Busy
<1>3. CASE Begin
  <2>1. /\ queue \in Seq(Ingresses) /\ queue # <<>> /\ queue' = Tail(queue)
        /\ Head(queue) = queue[1] /\ 1 \in DOMAIN queue
    BY <1>3 DEF Begin, TypeOK
  <2>2. /\ queue' \in Seq(Ingresses)
        /\ \A n \in DOMAIN queue' : n + 1 \in DOMAIN queue /\ queue'[n] = queue[n + 1]
    BY <2>1
  <2>3. /\ pc = "idle" /\ job = None
        /\ \/ pc' = "get" /\ job' = queue[1]
           \/ pc' = pc /\ job' = job
    BY <1>3, <2>1 DEF Begin, TypeOK
  <2> QED  BY <1>0, <1>3, <2>1, <2>2, <2>3, QuietInd DEF Begin, Busy
<1>4. CASE Get
  BY <1>0, <1>4, QuietInd DEF Get, GoTo, TypeOK, Busy
<1>5. CASE Fails
  <2>1. left' \in Limits /\ left'.deletions = left.deletions
    BY <1>0, <1>5 DEF Fails, Limits
  <2> QED  BY <1>0, <1>5, <2>1, QuietInd DEF Fails, Return, TypeOK, Busy
<1>6. CASE Create
  <2>1. /\ pc = "create" /\ pc' = "patch" /\ job' = job /\ job \in Ingresses
        /\ UNCHANGED <<ing, rv, cache, queue, late, left>>
        /\ cm' = IF cm = None THEN job.uid ELSE cm
    BY <1>6 DEF Create, CreateCM, GoTo, TypeOK
  <2>2. TypeOK'
    BY <2>1 DEF TypeOK, Ingresses
  <2>3. OneIngress'
    BY <2>1 DEF OneIngress
  <2>4. job.uid # None /\ cm' # None
    BY <2>1, NoneAssumption DEF Ingresses
  <2>5. PatchBacked'
    BY <1>0, <2>1, <2>4 DEF PatchBacked, OneIngress
  <2>6. AnnotationBacked'
    BY <2>4 DEF AnnotationBacked
  <2> QED  BY <2>2, <2>3, <2>5, <2>6
<1>7. CASE Patch /\ Patchable
  <2>1. /\ pc = "patch" /\ job \in Ingresses /\ pc' = "idle" /\ job' = None
        /\ PatchIngress(Injected) /\ UNCHANGED <<cm, late, left>>
    BY <1>7 DEF Patch, Return, TypeOK
  <2>2. /\ ing' \in Ingresses /\ ing' # None /\ ing'.uid = ing.uid
        /\ rv' \in Nat
        /\ cache' \in Ingresses \cup {None}
        /\ queue' \in Seq(Ingresses)
    BY <1>7, <2>1, InjectedType, PatchedInd
  <2>3. TypeOK'
    BY <2>1, <2>2 DEF TypeOK
  <2>4. OneIngress'
    <3>1. ing # None
      BY <1>7 DEF Patchable
    <3>2. left.deletions = MaxDeletions =>
             /\ cache' # None => cache'.uid = ing'.uid
             /\ \A n \in DOMAIN queue' : queue'[n].uid = ing'.uid
      BY <1>7, <2>1, <3>1, InjectedType, PatchedInd DEF OneIngress
    <3> QED  BY <2>1, <2>2, <3>1, <3>2 DEF OneIngress
  <2>5. PatchBacked' /\ AnnotationBacked'
    BY <2>1, <2>2 DEF PatchBacked, AnnotationBacked
  <2> QED  BY <2>3, <2>4, <2>5
<1>8. CASE (Patch /\ ~Patchable) \/ PatchFails
  <2>1. /\ pc = "patch" /\ job \in Ingresses /\ pc' = "idle" /\ job' = None
        /\ cache' = Inject(cache) /\ queue' = Injected
        /\ UNCHANGED <<ing, cm, rv, late>>
        /\ left' \in Limits /\ left'.deletions = left.deletions
    BY <1>0, <1>8 DEF Patch, PatchFails, Return, TypeOK, Limits
  <2>2. /\ cache' \in Ingresses \cup {None}
        /\ cache = None <=> cache' = None
        /\ cache # None => cache'.uid = cache.uid
    BY <2>1, InjectType DEF TypeOK
  <2>3. /\ queue' \in Seq(Ingresses) /\ DOMAIN queue' = DOMAIN queue
        /\ \A n \in DOMAIN queue : queue'[n].uid = queue[n].uid
        /\ queue = <<>> => queue' = <<>>
    BY <2>1, InjectedType
  <2>4. TypeOK'
    BY <2>1, <2>2, <2>3 DEF TypeOK, Limits
  <2>5. OneIngress'
    BY <2>1, <2>2, <2>3 DEF OneIngress
  <2>6. PatchBacked' /\ AnnotationBacked'
    BY <2>1 DEF PatchBacked, AnnotationBacked
  <2> QED  BY <2>4, <2>5, <2>6
<1>9. CASE LateRequest
  <2>1. PICK r \in late :
           /\ late' = late \ {r}
           /\ \/ /\ r # None
                 /\ CreateCM(r)
                 /\ UNCHANGED <<ing, rv, cache, queue>>
              \/ /\ r = None
                 /\ Patchable
                 /\ PatchIngress(queue)
                 /\ UNCHANGED cm
              \/ /\ r = None
                 /\ ~Patchable
                 /\ UNCHANGED <<ing, rv, cache, queue, cm>>
    BY <1>9 DEF LateRequest
  <2>2. UNCHANGED <<pc, job, left>> /\ r \in Nat \cup {None} /\ late' \subseteq late
    BY <1>9, <2>1 DEF LateRequest, TypeOK
  <2>3. CASE r # None /\ CreateCM(r) /\ UNCHANGED <<ing, rv, cache, queue>>
    <3>1. cm' = (IF cm = None THEN r ELSE cm) /\ cm' # None /\ cm' \in Nat
      BY <2>2, <2>3 DEF CreateCM, TypeOK
    <3>2. TypeOK' /\ OneIngress'
      BY <2>2, <2>3, <3>1 DEF TypeOK, OneIngress
    <3>3. PatchBacked' /\ AnnotationBacked'
      BY <2>1, <2>2, <2>3, <3>1 DEF PatchBacked, AnnotationBacked, OneIngress
    <3> QED  BY <3>2, <3>3
  <2>4. CASE r = None /\ Patchable /\ PatchIngress(queue) /\ UNCHANGED cm
    <3>1. /\ ing # None
          /\ ing' \in Ingresses /\ ing' # None /\ ing'.uid = ing.uid
          /\ rv' \in Nat
          /\ cache' \in Ingresses \cup {None}
          /\ queue' \in Seq(Ingresses)
      BY <2>4, PatchedInd DEF Patchable, TypeOK
    <3>2. TypeOK'
      BY <2>2, <2>4, <3>1 DEF TypeOK
    <3>3. OneIngress'
      <4>1. left.deletions = MaxDeletions =>
               /\ cache' # None => cache'.uid = ing'.uid
               /\ \A n \in DOMAIN queue' : queue'[n].uid = ing'.uid
        BY <2>4, <3>1, PatchedInd DEF OneIngress, TypeOK
      <4> QED  BY <2>2, <3>1, <4>1 DEF OneIngress
    <3>4. PatchBacked' /\ AnnotationBacked'
      BY <2>1, <2>2, <2>4, <3>1 DEF PatchBacked, AnnotationBacked
    <3> QED  BY <3>2, <3>3, <3>4
  <2>5. CASE UNCHANGED <<ing, rv, cache, queue, cm>>
    BY <2>2, <2>5 DEF TypeOK, OneIngress, PatchBacked, AnnotationBacked
  <2> QED  BY <2>1, <2>3, <2>4, <2>5
<1>10. CASE Collect
  <2>1. /\ cm \notin {None, NoOwner} /\ (ing # None => ing.uid # cm) /\ cm' = None
        /\ UNCHANGED <<ing, rv, cache, queue, pc, job, late, left>>
    BY <1>10 DEF Collect, instance
  <2>2. left.deletions # MaxDeletions
    BY <2>1 DEF PatchBacked
  <2> QED  BY <2>1, <2>2 DEF TypeOK, OneIngress, PatchBacked, AnnotationBacked
<1>11. CASE Apply
  <2>1. PICK waf \in BOOLEAN, annotated \in BOOLEAN :
           /\ annotated => ing # None /\ ing.annotated
           /\ ing' = [uid       |-> IF ing = None THEN rv + 1 ELSE ing.uid,
                      rv        |-> rv + 1,
                      waf       |-> waf,
                      annotated |-> annotated]
    BY <1>11 DEF Apply
  <2>2. /\ rv' = rv + 1 /\ rv' \in Nat /\ Notify(ing', queue)
        /\ UNCHANGED <<cm, pc, job, late>>
        /\ left' \in Limits /\ left'.deletions = left.deletions
    BY <1>0, <1>11 DEF Apply, TypeOK, Limits
  <2>3. /\ ing' \in Ingresses /\ ing' # None
        /\ ing # None => ing'.uid = ing.uid
        /\ annotated => ing # None /\ ing.annotated
        /\ ing'.annotated = annotated
    <3>1. (IF ing = None THEN rv + 1 ELSE ing.uid) \in Nat
      BY <2>2 DEF TypeOK, Ingresses
    <3> QED  BY <1>0, <2>1, <2>2, <3>1 DEF Ingresses
  <2>4. cache' \in Ingresses \cup {None} /\ queue' \in Seq(Ingresses)
    BY <2>2, <2>3, NotifyType DEF TypeOK
  <2>5. TypeOK'
    BY <2>2, <2>3, <2>4 DEF TypeOK, Limits
  <2>6. OneIngress'
    <3>1. CASE left.deletions = MaxDeletions
      <4>1. /\ cache # None => cache.uid = ing'.uid
            /\ \A n \in DOMAIN queue : queue[n].uid = ing'.uid
            /\ job # None => job.uid = ing'.uid
            /\ \A r \in late \ {None} : r = ing'.uid
        <5>1. CASE ing = None
          BY <3>1, <5>1 DEF OneIngress
        <5>2. CASE ing # None
          BY <2>3, <3>1, <5>2 DEF OneIngress
        <5> QED  BY <5>1, <5>2
      <4>2. /\ cache' # None => cache'.uid = ing'.uid
            /\ \A n \in DOMAIN queue' : queue'[n].uid = ing'.uid
        BY <2>2, <2>3, <4>1, NotifyCopies DEF TypeOK
      <4> QED  BY <2>2, <2>3, <4>1, <4>2 DEF OneIngress
    <3>2. CASE left.deletions # MaxDeletions
      BY <2>2, <3>2 DEF OneIngress
    <3> QED  BY <3>1, <3>2
  <2>7. PatchBacked'
    BY <2>2, <2>3 DEF PatchBacked
  <2>8. cache' = cache \/ cache' = ing'
    BY <2>2 DEF Notify
  <2>9. AnnotationBacked'
    BY <2>2, <2>3, <2>8 DEF AnnotationBacked
  <2> QED  BY <2>5, <2>6, <2>7, <2>9
<1>12. CASE Delete
  <2>1. left' \in Limits /\ left'.deletions < MaxDeletions
    BY <1>0, <1>12, LimitsAssumption DEF Delete, Limits, OneIngress
  <2>2. TypeOK'
    BY <1>12, <2>1 DEF Delete, TypeOK, Limits
  <2>3. left'.deletions # MaxDeletions /\ left'.deletions \leq MaxDeletions
    BY <2>1, LimitsAssumption DEF Limits
  <2> QED  BY <2>2, <2>3 DEF OneIngress, PatchBacked, AnnotationBacked
<1>13. CASE Reload
  <2>1. /\ pc' = "list" /\ job' = None /\ cache' = None /\ queue' = <<>>
        /\ UNCHANGED <<ing, cm, rv>>
        /\ left' \in Limits /\ left'.deletions = left.deletions
    BY <1>0, <1>13 DEF Reload, Limits
  <2>2. \A r \in late' : \/ r \in late
                         \/ pc = "create" /\ job \in Ingresses /\ r = job.uid
                         \/ pc = "patch" /\ job \in Ingresses /\ r = None
    BY <1>13 DEF Reload, TypeOK
  <2>3. TypeOK'
    <3>1. late' \subseteq Nat \cup {None}
      BY <2>2 DEF TypeOK, Ingresses
    <3> QED  BY <2>1, <3>1 DEF TypeOK, Limits
  <2>4. OneIngress'
    BY <1>0, <2>1, <2>2 DEF OneIngress
  <2>5. PatchBacked'
    <3>1. pc = "create" => job.uid # None
      BY NoneAssumption DEF TypeOK, Ingresses
    <3> QED  BY <2>1, <2>2, <3>1 DEF PatchBacked
  <2>6. AnnotationBacked'
    BY <2>1 DEF AnnotationBacked
  <2> QED  BY <2>3, <2>4, <2>5, <2>6
<1>14. CASE UNCHANGED vars
  BY <1>14 DEF vars, instance, TypeOK, OneIngress, PatchBacked, AnnotationBacked
<1> QED  BY <1>1, <1>2, <1>3, <1>4, <1>5, <1>6, <1>7, <1>8, <1>9, <1>10, <1>11,
            <1>12, <1>13, <1>14 DEF Next, Handler

\* The annotation never names a ConfigMap that was never made (waf_cm.go:61-74):
\* whoever creates, patches, repeats or cuts off a request.
THEOREM WafCorrect == Spec => []WafInv
<1>1. IndInv => WafInv
  BY DEF IndInv
<1> QED  BY <1>1, InitInd, StepInd, PTL DEF Spec
=============================================================================
