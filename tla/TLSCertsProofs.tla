--------------------------- MODULE TLSCertsProofs ---------------------------
(***************************************************************************)
(* Proofs about TLSCerts, for every set of Ingresses, Secrets and contents *)
(* and every bound.  ManagedLive is not inductive alone: a certificate is  *)
(* recorded a step after Caddy's answer, and AnswersCurrent says that no   *)
(* push can come in between without replacing the manager.                 *)
(***************************************************************************)
EXTENDS TLSCerts, FiniteSetTheorems, TLAPS

\* What remains of the bounds.
Left == [changes: Nat, faults: Nat, reloads: Nat, late: Nat]

\* The initial states.
LEMMA InitCerts == Init => CertsInv
BY LimitsAssumption
DEF Init, CertsInv, TypeOK, AnswersCurrent, ManagedLive

\* A new instance manages nothing and waits for no answer.
LEMMA RestartCerts ==
    ASSUME TypeOK, Restart, UNCHANGED cluster,
           live' \in Certificates \cup {None}, late' \subseteq Certificates,
           owed' \in Certificates \cup {None}, left' \in Left
    PROVE  CertsInv'
<1>1. TypeOK'
  BY DEF Restart, cluster, TypeOK, Left
<1>2. AnswersCurrent' /\ ManagedLive'
  BY DEF Restart, AnswersCurrent, ManagedLive
<1> QED  BY <1>1, <1>2 DEF CertsInv

\* Whatever comes late keeps to the bound.
LEMMA ReplaceCerts ==
    ASSUME TypeOK, NEW pending, NEW stragglers, NEW budget \in Left,
           pending \subseteq Certificates, stragglers \subseteq Certificates,
           Replace(pending, stragglers, budget), UNCHANGED cluster,
           live' \in Certificates \cup {None}, owed' \in Certificates \cup {None},
           IsFiniteSet(stragglers)
    PROVE  CertsInv'
<1>1. PICK l \in SUBSET stragglers :
         /\ Cardinality(l) <= budget.late
         /\ late' = pending \cup l
         /\ left' = [budget EXCEPT !.late = @ - Cardinality(l)]
  BY DEF Replace
<1>2. Cardinality(l) \in Nat
  BY <1>1, FS_Subset, FS_CardinalityType
<1>3. budget.late - Cardinality(l) \in Nat
  BY <1>1, <1>2 DEF Left
<1>4. left' \in Left
  BY <1>1, <1>3 DEF Left
<1>5. late' \subseteq Certificates
  BY <1>1
<1> QED  BY <1>4, <1>5, RestartCerts DEF Replace

\* What a replaced instance leaves behind are certificates.
LEMMA StragglersType ==
    ASSUME TypeOK
    PROVE  /\ Stragglers \subseteq Certificates
           /\ Uncancelled \subseteq Certificates
           /\ IsFiniteSet(Stragglers)
<1>1. ASSUME updates # <<>>, Reloads(Head(updates))
      PROVE  Head(updates) \in Certificates
  <2>1. Head(updates) \in Updates
    BY <1>1 DEF TypeOK
  <2> QED  BY <1>1, <2>1 DEF Reloads, Updates, Certificates
<1>2. pc = "push" => cert \in Certificates
  BY DEF TypeOK
<1>3. wpc = "push" => wcert \in Certificates
  BY DEF TypeOK
<1>4. /\ Stragglers \subseteq Certificates
      /\ Uncancelled \subseteq Certificates
  BY <1>1, <1>2, <1>3 DEF Stragglers, Uncancelled
<1>5. IsFiniteSet(Stragglers)
  <2>1. IsFiniteSet(IF pc = "push" THEN {cert} ELSE {})
    BY FS_EmptySet, FS_Singleton
  <2>2. IsFiniteSet(IF updates # <<>> /\ Reloads(Head(updates))
                    THEN {Head(updates)} ELSE {})
    BY FS_EmptySet, FS_Singleton
  <2> QED  BY <2>1, <2>2, FS_Union DEF Stragglers
<1> QED  BY <1>4, <1>5

\* A list makes one event for each Ingress that exists.
LEMMA ListingsType ==
    ASSUME TypeOK
    PROVE  Listings \subseteq Seq(Events)
<1>1. Present \subseteq Keys /\ \A k \in Present : ingress[k] \in Specs
  BY DEF Present, TypeOK
<1>2. Cardinality(Present) \in Nat
  BY <1>1, SpecsAssumption, FS_Subset, FS_CardinalityType
<1>3. ASSUME NEW f \in Bijection(1..Cardinality(Present), Present)
      PROVE  [i \in 1..Cardinality(Present) |->
                 [key |-> f[i], spec |-> ingress[f[i]], deleted |-> FALSE]]
                    \in Seq(Events)
  <2>1. f \in [1..Cardinality(Present) -> Present]
    BY <1>3 DEF Bijection, Injection
  <2>2. \A i \in 1..Cardinality(Present) :
           [key |-> f[i], spec |-> ingress[f[i]], deleted |-> FALSE] \in Events
    BY <1>1, <2>1 DEF Events
  <2> QED  BY <1>2, <2>2
<1> QED  BY <1>3 DEF Listings

\* The rest of a list of secrets is one.
LEMMA ContinueType ==
    ASSUME NEW rest \in Seq(Secrets), Continue(rest), key' \in Keys
    PROVE  /\ todo' \in Seq(Secrets)
           /\ pc' \in {"idle", "fetch"}
           /\ pc' = "fetch" => todo' # <<>>
           /\ cert' = None
BY DEF Continue

\* A fault keeps to the bound.
LEMMA FaultType == ASSUME TypeOK, Fault PROVE left' \in Left
<1>1. left.faults - 1 \in Nat
  BY DEF TypeOK, Fault
<1> QED  BY <1>1 DEF TypeOK, Fault, Left

\* So does a change.
LEMMA ChangeType == ASSUME TypeOK, Change PROVE left' \in Left
<1>1. left.changes - 1 \in Nat
  BY DEF TypeOK, Change
<1> QED  BY <1>1 DEF TypeOK, Change, Left

\* The queue takes an event or leaves it.
LEMMA NotifyType ==
    ASSUME TypeOK, NEW e \in Events, Notify(e)
    PROVE  queue' \in Seq(Events)
BY DEF TypeOK, Notify

\* Every step.
LEMMA CertsStep == CertsInv /\ [Next]_vars => CertsInv'
<1> SUFFICES ASSUME CertsInv, [Next]_vars
             PROVE  CertsInv'
  OBVIOUS
<1> USE DEF CertsInv
<1>1. CASE List
  <2>1. queue' \in Seq(Events)
    BY <1>1, ListingsType DEF List
  <2>2. TypeOK'
    BY <1>1, <2>1 DEF List, watcher, cluster, TypeOK
  <2> QED  BY <1>1, <2>2 DEF List, watcher, AnswersCurrent, ManagedLive
<1>2. CASE Resync
  <2>1. queue' \in Seq(Events)
    BY <1>2, ListingsType DEF Resync
  <2>2. TypeOK'
    BY <1>2, <2>1 DEF Resync, watcher, cluster, TypeOK
  <2> QED  BY <1>2, <2>2 DEF Resync, watcher, AnswersCurrent, ManagedLive
<1>3. CASE BeginAdd
  <2>1. Head(queue) \in Events /\ Tail(queue) \in Seq(Events)
    BY <1>3 DEF BeginAdd, TypeOK
  <2>2. ToLoad(Head(queue).spec) \in Seq(Secrets) /\ Head(queue).key \in Keys
    BY <2>1, SpecsAssumption DEF Events, ToLoad
  <2>3. TypeOK'
    BY <1>3, <2>1, <2>2, ContinueType
    DEF BeginAdd, watcher, cluster, TypeOK
  <2>4. pc' # "record"
    BY <1>3, <2>2, ContinueType DEF BeginAdd
  <2> QED  BY <1>3, <2>3, <2>4 DEF BeginAdd, watcher, AnswersCurrent, ManagedLive
<1>4. CASE Fetch
  <2>1. /\ Head(todo) \in Secrets
        /\ Tail(todo) \in Seq(Secrets)
        /\ key \in Keys
    BY <1>4 DEF Fetch, TypeOK
  <2>2. refs' \in [Secrets -> SUBSET Keys]
    BY <1>4, <2>1 DEF Fetch, Refer, TypeOK
  <2>3. CASE secret[Head(todo)] \in Contents
    <3>1. cert' \in Certificates /\ pc' = "push" /\ todo' = todo
      BY <1>4, <2>1, <2>3 DEF Fetch, Certificates
    <3>2. TypeOK'
      BY <1>4, <2>2, <3>1, NoneAssumption
      DEF Fetch, watcher, cluster, TypeOK
    <3> QED  BY <1>4, <3>1, <3>2 DEF Fetch, watcher, AnswersCurrent, ManagedLive
  <2>4. CASE secret[Head(todo)] \notin Contents
    <3>1. Continue(Tail(todo)) /\ key' = key
      BY <1>4, <2>4 DEF Fetch
    <3>2. TypeOK'
      BY <1>4, <2>1, <2>2, <3>1, ContinueType
      DEF Fetch, watcher, cluster, TypeOK
    <3>3. pc' # "record"
      BY <2>1, <3>1, ContinueType
    <3> QED  BY <1>4, <3>2, <3>3 DEF Fetch, watcher, AnswersCurrent, ManagedLive
  <2> QED  BY <2>3, <2>4
<1>5. CASE FetchFails
  <2>1. /\ Head(todo) \in Secrets
        /\ Tail(todo) \in Seq(Secrets)
        /\ key \in Keys
        /\ key' = key
    BY <1>5 DEF FetchFails, TypeOK
  <2>2. refs' \in [Secrets -> SUBSET Keys]
    BY <1>5, <2>1 DEF FetchFails, Refer, TypeOK
  <2>3. TypeOK'
    BY <1>5, <2>1, <2>2, ContinueType, FaultType
    DEF FetchFails, Left, watcher, cluster, TypeOK
  <2>4. pc' # "record"
    BY <1>5, <2>1, ContinueType DEF FetchFails
  <2> QED  BY <1>5, <2>3, <2>4 DEF FetchFails, watcher, AnswersCurrent,
                                   ManagedLive
<1>6. CASE Push
  <2>1. cert \in Certificates
    BY <1>6 DEF Push, TypeOK
  <2>2. /\ late \cup Uncancelled \subseteq Certificates
        /\ Stragglers \ {cert} \subseteq Certificates
        /\ IsFiniteSet(Stragglers \ {cert})
        /\ left \in Left
    BY StragglersType, FS_Subset DEF TypeOK, Left
  <2> QED  BY <1>6, <2>1, <2>2, ReplaceCerts DEF Push, TypeOK
<1>7. CASE PushSame
  <2>1. TypeOK'
    BY <1>7 DEF PushSame, watcher, cluster, TypeOK
  <2> QED  BY <1>7, <2>1 DEF PushSame, Same, watcher, AnswersCurrent, ManagedLive
<1>8. CASE PushRefused
  <2>1. Tail(todo) \in Seq(Secrets) /\ key' \in Keys /\ Continue(Tail(todo))
    BY <1>8 DEF PushRefused, TypeOK
  <2>2. TypeOK' /\ pc' # "record"
    BY <1>8, <2>1, ContinueType DEF PushRefused, watcher, cluster, TypeOK
  <2> QED  BY <1>8, <2>2 DEF PushRefused, watcher, AnswersCurrent, ManagedLive
<1>9. CASE PushFails
  <2>1. Tail(todo) \in Seq(Secrets) /\ key' \in Keys /\ Continue(Tail(todo))
    BY <1>9 DEF PushFails, TypeOK
  <2>2. TypeOK' /\ pc' # "record"
    BY <1>9, <2>1, ContinueType, FaultType
    DEF PushFails, Left, watcher, cluster, TypeOK
  <2> QED  BY <1>9, <2>2 DEF PushFails, watcher, AnswersCurrent, ManagedLive
<1>10. CASE Record
  <2>1. /\ Tail(todo) \in Seq(Secrets)
        /\ key' \in Keys
        /\ Continue(Tail(todo))
        /\ cert \in Certificates
        /\ live = cert
    BY <1>10 DEF Record, AnswersCurrent, TypeOK
  <2>2. managed' \in [Secrets -> Contents \cup {None}]
    BY <1>10, <2>1 DEF Record, Certificates, TypeOK
  <2>3. TypeOK' /\ pc' # "record"
    BY <1>10, <2>1, <2>2, ContinueType DEF Record, watcher, cluster, TypeOK
  <2>4. ManagedLive'
    <3> SUFFICES ASSUME NEW s \in Secrets, managed'[s] # None
                 PROVE  live' = [secret |-> s, content |-> managed'[s]]
      BY DEF ManagedLive
    <3>1. CASE s = cert.secret
      BY <1>10, <2>1, <3>1 DEF Record, Certificates, TypeOK
    <3>2. CASE s # cert.secret
      BY <1>10, <3>2 DEF Record, ManagedLive, TypeOK
    <3> QED  BY <3>1, <3>2
  <2> QED  BY <1>10, <2>3, <2>4 DEF Record, watcher, AnswersCurrent
<1>11. CASE Remove
  <2>1. Head(queue) \in Events /\ Tail(queue) \in Seq(Events)
    BY <1>11 DEF Remove, TypeOK
  <2>2. \A s \in Secrets : managed'[s] \in {managed[s], None}
    BY <1>11 DEF Remove
  <2>3. managed' \in [Secrets -> Contents \cup {None}]
    BY <1>11 DEF Remove, TypeOK
  <2>4. refs' \in [Secrets -> SUBSET Keys]
    BY <1>11 DEF Remove, TypeOK
  <2>5. TypeOK'
    BY <1>11, <2>1, <2>3, <2>4 DEF Remove, watcher, cluster, TypeOK
  <2>6. ManagedLive'
    BY <1>11, <2>2 DEF Remove, ManagedLive
  <2> QED  BY <1>11, <2>5, <2>6 DEF Remove, watcher, AnswersCurrent
<1>12. CASE Watch
  <2>1. TypeOK'
    BY <1>12 DEF Watch, handlers, cluster, TypeOK
  <2> QED  BY <1>12, <2>1 DEF Watch, handlers, AnswersCurrent, ManagedLive
<1>13. CASE Take
  <2>1. Head(updates) \in Updates /\ Tail(updates) \in Seq(Updates)
    BY <1>13 DEF Take, TypeOK
  <2>2. /\ wpc' \in {"idle", "push"}
        /\ wcert' \in Certificates \cup {None}
        /\ wpc' = "push" => wcert' # None
    BY <1>13, <2>1, NoneAssumption
    DEF Take, Reloads, Updates, Certificates, TypeOK
  <2>3. TypeOK'
    BY <1>13, <2>1, <2>2 DEF Take, handlers, cluster, TypeOK
  <2> QED  BY <1>13, <2>2, <2>3 DEF Take, handlers, AnswersCurrent, ManagedLive
<1>14. CASE WatcherPush
  <2>1. wcert \in Certificates
    BY <1>14 DEF WatcherPush, TypeOK
  <2>2. /\ late \subseteq Certificates
        /\ Stragglers \subseteq Certificates
        /\ IsFiniteSet(Stragglers)
        /\ left \in Left
    BY StragglersType DEF TypeOK, Left
  <2> QED  BY <1>14, <2>1, <2>2, ReplaceCerts DEF WatcherPush, TypeOK
<1>15. CASE WatcherPushSame
  <2>1. TypeOK'
    BY <1>15 DEF WatcherPushSame, handlers, cluster, TypeOK
  <2> QED  BY <1>15, <2>1 DEF WatcherPushSame, Same, handlers, AnswersCurrent,
                              ManagedLive
<1>16. CASE WatcherPushRefused
  <2>1. TypeOK'
    BY <1>16 DEF WatcherPushRefused, WatcherDone, handlers, cluster, TypeOK
  <2> QED  BY <1>16, <2>1 DEF WatcherPushRefused, WatcherDone, handlers,
                              AnswersCurrent, ManagedLive
<1>17. CASE WatcherPushFails
  <2>1. TypeOK'
    BY <1>17, FaultType
    DEF WatcherPushFails, WatcherDone, Left, handlers, cluster, TypeOK
  <2> QED  BY <1>17, <2>1 DEF WatcherPushFails, WatcherDone, handlers,
                              AnswersCurrent, ManagedLive
<1>18. CASE WatcherRecord
  <2>1. wcert \in Certificates /\ live = wcert
    BY <1>18 DEF WatcherRecord, AnswersCurrent, TypeOK
  <2>2. managed' \in [Secrets -> Contents \cup {None}]
    BY <1>18, <2>1 DEF WatcherRecord, Certificates, TypeOK
  <2>3. TypeOK'
    BY <1>18, <2>2 DEF WatcherRecord, WatcherDone, handlers, cluster, TypeOK
  <2>4. ManagedLive'
    <3> SUFFICES ASSUME NEW s \in Secrets, managed'[s] # None
                 PROVE  live' = [secret |-> s, content |-> managed'[s]]
      BY DEF ManagedLive
    <3>1. CASE s = wcert.secret
      BY <1>18, <2>1, <3>1 DEF WatcherRecord, Certificates, TypeOK
    <3>2. CASE s # wcert.secret
      BY <1>18, <3>2 DEF WatcherRecord, ManagedLive, TypeOK
    <3> QED  BY <3>1, <3>2
  <2> QED  BY <1>18, <2>3, <2>4 DEF WatcherRecord, WatcherDone, handlers,
                                    AnswersCurrent
<1>19. CASE ApplyIngress
  <2>1. queue' \in Seq(Events)
    <3>1. PICK k \in Keys, spec \in Specs :
             Notify([key |-> k, spec |-> spec, deleted |-> FALSE])
      BY <1>19 DEF ApplyIngress
    <3> QED  BY <3>1, NotifyType DEF Events
  <2>2. left' \in Left
    BY <1>19, ChangeType DEF ApplyIngress
  <2>3. ingress' \in [Keys -> Specs \cup {Absent}]
    BY <1>19 DEF ApplyIngress, TypeOK
  <2>4. TypeOK'
    BY <1>19, <2>1, <2>2, <2>3 DEF ApplyIngress, Left, watcher, TypeOK
  <2> QED  BY <1>19, <2>4 DEF ApplyIngress, watcher, AnswersCurrent, ManagedLive
<1>20. CASE DeleteIngress
  <2>1. \A k \in Present : k \in Keys /\ ingress[k] \in Specs
    BY DEF Present, TypeOK
  <2>2. queue' \in Seq(Events)
    <3>1. PICK k \in Present :
             Notify([key |-> k, spec |-> ingress[k], deleted |-> TRUE])
      BY <1>20 DEF DeleteIngress
    <3> QED  BY <2>1, <3>1, NotifyType DEF Events
  <2>3. left' \in Left
    BY <1>20, ChangeType DEF DeleteIngress
  <2>4. ingress' \in [Keys -> Specs \cup {Absent}]
    BY <1>20 DEF DeleteIngress, TypeOK
  <2>5. TypeOK'
    BY <1>20, <2>2, <2>3, <2>4 DEF DeleteIngress, Left, watcher, TypeOK
  <2> QED  BY <1>20, <2>5 DEF DeleteIngress, watcher, AnswersCurrent, ManagedLive
<1>21. CASE WriteSecret
  <2>1. PICK s \in Secrets, c \in Contents \cup {Unusable} :
           /\ secret' = [secret EXCEPT ![s] = c]
           /\ updates' \in {updates, Append(updates, [secret |-> s, content |-> c])}
           /\ \/ owed' = None
              \/ owed' = [secret |-> s, content |-> c] /\ c \in Contents
    BY <1>21 DEF WriteSecret
  <2>2. updates' \in Seq(Updates)
    <3>1. [secret |-> s, content |-> c] \in Updates
      BY DEF Updates
    <3>2. Append(updates, [secret |-> s, content |-> c]) \in Seq(Updates)
      BY <3>1 DEF TypeOK
    <3> QED  BY <2>1, <3>2 DEF TypeOK
  <2>3. owed' \in Certificates \cup {None}
    BY <2>1 DEF Certificates
  <2>4. left' \in Left
    BY <1>21, ChangeType DEF WriteSecret
  <2>5. secret' \in [Secrets -> Contents \cup {Unusable, Absent}]
    BY <2>1 DEF TypeOK
  <2>6. TypeOK'
    BY <1>21, <2>2, <2>3, <2>4, <2>5 DEF WriteSecret, Left, handlers, TypeOK
  <2> QED  BY <1>21, <2>6 DEF WriteSecret, handlers, AnswersCurrent, ManagedLive
<1>22. CASE DeleteSecret
  <2>1. left' \in Left
    BY <1>22, ChangeType DEF DeleteSecret
  <2>2. secret' \in [Secrets -> Contents \cup {Unusable, Absent}]
    BY <1>22 DEF DeleteSecret, TypeOK
  <2>3. TypeOK'
    BY <1>22, <2>1, <2>2
    DEF DeleteSecret, Left, instance, handlers, watcher, TypeOK
  <2> QED  BY <1>22, <2>3 DEF DeleteSecret, instance, handlers, watcher,
                              AnswersCurrent, ManagedLive
<1>23. CASE OtherReload
  <2>1. /\ late \cup Uncancelled \subseteq Certificates
        /\ Stragglers \subseteq Certificates
        /\ IsFiniteSet(Stragglers)
    BY StragglersType DEF TypeOK
  <2>2. [left EXCEPT !.reloads = @ - 1] \in Left
    <3>1. left.reloads - 1 \in Nat
      BY <1>23 DEF OtherReload, TypeOK
    <3> QED  BY <3>1 DEF Left, TypeOK
  <2> QED  BY <1>23, <2>1, <2>2, ReplaceCerts DEF OtherReload, TypeOK
<1>24. CASE Crash
  <2>1. [left EXCEPT !.reloads = @ - 1] \in Left
    <3>1. left.reloads - 1 \in Nat
      BY <1>24 DEF Crash, TypeOK
    <3> QED  BY <3>1 DEF Left, TypeOK
  <2> QED  BY <1>24, <2>1, ReplaceCerts, FS_EmptySet DEF Crash, TypeOK
<1>25. CASE LatePush
  <2>1. PICK c \in late :
           IF Changes(c)
           THEN /\ live' = c
                /\ Replace((late \ {c}) \cup Uncancelled, Stragglers, left)
           ELSE /\ late' = late \ {c}
                /\ UNCHANGED <<live, instance, left>>
    BY <1>25 DEF LatePush
  <2>2. CASE Changes(c)
    <3>1. /\ (late \ {c}) \cup Uncancelled \subseteq Certificates
          /\ Stragglers \subseteq Certificates
          /\ IsFiniteSet(Stragglers)
          /\ left \in Left
          /\ c \in Certificates
      BY StragglersType DEF TypeOK, Left
    <3> QED  BY <1>25, <2>1, <2>2, <3>1, ReplaceCerts DEF LatePush, TypeOK
  <2>3. CASE ~Changes(c)
    <3>1. TypeOK'
      BY <1>25, <2>1, <2>3
      DEF LatePush, instance, handlers, watcher, cluster, TypeOK
    <3> QED  BY <2>1, <2>3, <3>1 DEF instance, handlers, watcher,
                                     AnswersCurrent, ManagedLive
  <2> QED  BY <2>2, <2>3
<1>26. CASE UNCHANGED vars
  <2>1. TypeOK'
    BY <1>26 DEF vars, cluster, instance, handlers, watcher, TypeOK
  <2> QED  BY <1>26, <2>1 DEF vars, cluster, instance, handlers, watcher,
                              AnswersCurrent, ManagedLive
<1> QED  BY <1>1, <1>2, <1>3, <1>4, <1>5, <1>6, <1>7, <1>8, <1>9, <1>10, <1>11,
            <1>12, <1>13, <1>14, <1>15, <1>16, <1>17, <1>18, <1>19, <1>20,
            <1>21, <1>22, <1>23, <1>24, <1>25, <1>26
         DEF Next, Handler, Watcher

\* A secret counts as managed only while Caddy has just the content recorded
\* for it (tls.go:131, 262), through replaced managers, pushes that come
\* late and everything else that can happen.
THEOREM CertsCorrect == Spec => []CertsInv
BY InitCerts, CertsStep, PTL DEF Spec
=============================================================================
