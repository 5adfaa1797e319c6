-------------------------- MODULE AccessLogProofs --------------------------
(***************************************************************************)
(* What rebuild remembers of its last PATCH is what every server has,      *)
(* whatever the Ingresses, the hosts, the servers and the bounds.          *)
(***************************************************************************)
EXTENDS AccessLog, FiniteSetTheorems, TLAPS

Events == [key: Keys, hosts: HostLists]

Limits == [changes: Nat, faults: Nat, reloads: Nat, late: Nat]

\* The empty list is one that a server may have.
LEMMA EmptyList == <<>> \in Lists /\ Unset \notin Lists
<1>1. <<>> \in SetToSeqs({})
  BY FS_EmptySet DEF SetToSeqs
<1> QED  BY <1>1, UnsetAssumption DEF Lists

\* The steps of a start-up and the settings that they write.
LEMMA StartupType ==
    /\ Startup \in Seq(Settings)
    /\ 1 \in Steps
    /\ Steps \subseteq Nat \ {0}
<1>1. Servers \in Seq(Settings) /\ ToSet(Servers) = {Servers[i] : i \in DOMAIN Servers}
  BY ServersAssumption DEF Settings, ToSet
<1>2. <<"access">> \in Seq(Settings) /\ <<"default">> \in Seq(Settings)
      /\ <<"admin.api">> \in Seq(Settings) /\ <<>> \in Seq(Settings)
  BY DEF Settings
<1>3. \A s, t \in Seq(Settings) :
         s \o t \in Seq(Settings) /\ Len(s \o t) = Len(s) + Len(t)
  OBVIOUS
<1>4. Startup \in Seq(Settings) /\ Len(Startup) >= 1
  <2>1. /\ <<"access">> \o Servers \in Seq(Settings)
        /\ Len(<<"access">> \o Servers) = 1 + Len(Servers)
    BY <1>1, <1>2
  <2>2. /\ <<"access">> \o Servers \o <<"default">> \in Seq(Settings)
        /\ Len(<<"access">> \o Servers \o <<"default">>) = 2 + Len(Servers)
    BY <1>2, <2>1
  <2>3. (IF Verbose THEN <<>> ELSE <<"admin.api">>) \in Seq(Settings)
    BY <1>2
  <2> QED  BY <1>1, <1>3, <2>2, <2>3 DEF Startup
<1> QED  BY <1>4 DEF Steps

\* What is listed, and in which order, is events of Ingresses that are there.
LEMMA ListingsType ==
    ASSUME TypeOK, NEW q \in Listings
    PROVE  q \in Seq(Events)
<1>1. PICK ks \in SetToSeqs(Present) :
         q = [i \in DOMAIN ks |-> [key |-> ks[i], hosts |-> off[ks[i]]]]
  BY DEF Listings
<1>2. Cardinality(Present) \in Nat
  BY KeysAssumption, FS_Subset, FS_CardinalityType DEF Present
<1>3. ks \in [1..Cardinality(Present) -> Present]
  BY DEF SetToSeqs
<1>4. \A k \in Present : k \in Keys /\ off[k] \in HostLists
  BY DEF Present, TypeOK
<1>5. q \in [1..Cardinality(Present) -> Events]
  BY <1>1, <1>3, <1>4 DEF Events
<1> QED  BY <1>2, <1>5

\* A new instance remembers nothing and sends nothing.
LEMMA RestartInd ==
    ASSUME Restart,
           off' \in [Keys -> HostLists \cup {Absent}],
           config' \in [Settings -> Lists \cup {Unset}],
           zombies' \subseteq Steps,
           late' \subseteq [server: ToSet(Servers), body: Lists],
           left' \in Limits
    PROVE  CacheInv'
<1>1. <<>> \in HostLists /\ 1 \in Steps
  BY ListsAssumption, StartupType
<1>2. TypeOK'
  BY <1>1 DEF Restart, TypeOK, Limits
<1> QED  BY <1>2 DEF Restart, CacheInv, Sent, CacheFresh

\* The configuration after a write.
LEMMA ChangeType ==
    ASSUME CacheInv, NEW p \in Settings, NEW v \in Lists, Change(p, v)
    PROVE  Restart /\ config' \in [Settings -> Lists \cup {Unset}]
BY DEF CacheInv, TypeOK, Change

\* The steps that follow one.
LEMMA AfterType ==
    ASSUME NEW i \in Steps
    PROVE  After(i) \subseteq Steps /\ AfterError(i) \subseteq Steps
BY DEF After, AfterError, Steps, Startup

LEMMA InitInd == Init => CacheInv
<1> SUFFICES ASSUME Init PROVE CacheInv
  OBVIOUS
<1>1. <<>> \in HostLists /\ 1 \in Steps
  BY ListsAssumption, StartupType
<1>2. TypeOK
  BY <1>1, LimitsAssumption DEF Init, TypeOK, Wiped
<1> QED  BY <1>2 DEF Init, CacheInv, Sent, CacheFresh

\* The steps of an instance that change neither the configuration nor what is
\* remembered, and send nothing new.
LEMMA QuietInd ==
    ASSUME CacheInv, UNCHANGED <<config, lastSkip, body>>,
           off' \in [Keys -> HostLists \cup {Absent}],
           pc' \in {"startup", "list", "idle", "patch"},
           pc' = "patch" => pc = "patch" /\ at' = at,
           at' \in Nat \ {0},
           pc' = "startup" => at' \in Steps,
           queue' \in Seq(Events),
           disabled' \in [Keys -> HostLists],
           zombies' \subseteq Steps,
           late' \subseteq [server: ToSet(Servers), body: Lists],
           left' \in Limits
    PROVE  CacheInv'
<1>1. TypeOK'
  <2>1. /\ config' \in [Settings -> Lists \cup {Unset}]
        /\ lastSkip' \in Lists \cup {Unset} /\ body' \in Lists \cup {Unset}
        /\ pc' = "patch" => body' # Unset
    BY DEF CacheInv, TypeOK
  <2> QED  BY <2>1 DEF TypeOK, Events, Limits
<1>2. Sent' /\ CacheFresh'
  BY DEF CacheInv, Sent, CacheFresh
<1> QED  BY <1>1, <1>2 DEF CacheInv

\* Skip and Unskip.
LEMMA HandleInd ==
    ASSUME CacheInv, Handle
    PROVE  CacheInv'
<1>1. /\ pc = "idle" /\ queue # <<>> /\ queue' = Tail(queue)
      /\ UNCHANGED <<off, config, lastSkip, zombies, late, left>>
      /\ disabled' = [disabled EXCEPT ![Head(queue).key] = Head(queue).hosts]
  BY DEF Handle
<1>2. Head(queue) \in Events /\ queue' \in Seq(Events)
  <2>1. queue \in Seq(Events)
    BY DEF CacheInv, TypeOK, Events
  <2> QED  BY <1>1, <2>1
<1>3. disabled' \in [Keys -> HostLists]
  BY <1>1, <1>2 DEF CacheInv, TypeOK, Events
<1>4. PICK b \in Bodies(disabled') :
         IF b = lastSkip
         THEN UNCHANGED <<pc, at, body>>
         ELSE pc' = "patch" /\ at' = 1 /\ body' = b
  BY DEF Handle
<1>5. b \in Lists /\ b # Unset
  BY EmptyList DEF Bodies
<1>6. CASE b = lastSkip
  <2>1. TypeOK'
    BY <1>1, <1>2, <1>3, <1>4, <1>6 DEF CacheInv, TypeOK, Events
  <2> QED  BY <1>1, <1>4, <1>6, <2>1 DEF CacheInv, Sent, CacheFresh
<1>7. CASE b # lastSkip
  <2>1. TypeOK'
    BY <1>1, <1>2, <1>3, <1>4, <1>5, <1>7 DEF CacheInv, TypeOK, Events
  <2> QED  BY <1>1, <1>4, <1>7, <2>1 DEF CacheInv, Sent, CacheFresh
<1> QED  BY <1>6, <1>7

\* rebuild goes from server to server.
LEMMA PatchInd ==
    ASSUME CacheInv, PatchSame \/ PatchChanges \/ PatchFails \/ Remember
    PROVE  CacheInv'
<1> USE DEF CacheInv
<1>1. CASE PatchSame
  <2>1. TypeOK'
    BY <1>1 DEF PatchSame, Patching, TypeOK
  <2>2. Sent'
    BY <1>1 DEF PatchSame, Patching, Unchanged, Sent, TypeOK
  <2> QED  BY <1>1, <2>1, <2>2 DEF PatchSame, CacheFresh
<1>2. CASE PatchChanges
  <2>1. Servers[at] \in Settings /\ body \in Lists
    BY <1>2 DEF PatchChanges, Patching, TypeOK, Settings, ToSet
  <2>2. Restart /\ config' \in [Settings -> Lists \cup {Unset}]
    BY <1>2, <2>1, ChangeType DEF PatchChanges
  <2> QED  BY <1>2, <2>2, RestartInd DEF PatchChanges, TypeOK, Limits
<1>3. CASE PatchFails
  <2>1. left' \in Limits
    BY <1>3 DEF PatchFails, Fault, TypeOK, Limits
  <2>2. TypeOK'
    BY <1>3, <2>1 DEF PatchFails, TypeOK, Limits
  <2> QED  BY <1>3, <2>2 DEF PatchFails, Sent, CacheFresh
<1>4. CASE Remember
  <2>1. TypeOK'
    BY <1>4 DEF Remember, TypeOK
  <2>2. \A s \in ToSet(Servers) : config[s] = body
    <3>1. DOMAIN Servers \subseteq 1..(at - 1)
      BY <1>4, ServersAssumption DEF Remember, TypeOK
    <3> QED  BY <1>4, <3>1 DEF Remember, Sent, ToSet
  <2>3. CacheFresh'
    BY <1>4, <2>2 DEF Remember, CacheFresh
  <2> QED  BY <1>4, <2>1, <2>3 DEF Remember, Sent
<1> QED  BY <1>1, <1>2, <1>3, <1>4

\* Every step.
LEMMA StepInd == CacheInv /\ [Next]_vars => CacheInv'
<1> SUFFICES ASSUME CacheInv, [Next]_vars PROVE CacheInv'
  OBVIOUS
<1> USE DEF Limits
<1>0. TypeOK
  BY DEF CacheInv
<1>1. CASE StartupWrite
  <2>1. pc = "startup" /\ at \in Steps /\ Startup[at] \in Settings
        /\ After(at) \subseteq Steps
    BY <1>0, <1>1, StartupType, AfterType DEF StartupWrite, TypeOK, Steps
  <2>2. CASE GoOn(After(at)) /\ UNCHANGED <<config, zombies>>
    BY <1>0, <1>1, <2>1, <2>2, StartupType, QuietInd
    DEF StartupWrite, GoOn, TypeOK, Events
  <2>3. CASE Change(Startup[at], <<>>) /\ zombies' = zombies \cup After(at)
    BY <1>0, <1>1, <2>1, <2>3, EmptyList, ChangeType, RestartInd
    DEF StartupWrite, TypeOK
  <2> QED  BY <1>1, <2>2, <2>3 DEF StartupWrite
<1>2. CASE StartupError
  <2>1. pc = "startup" /\ AfterError(at) \subseteq Steps /\ left' \in Limits
    BY <1>0, <1>2, AfterType DEF StartupError, Fault, TypeOK
  <2> QED  BY <1>0, <1>2, <2>1, StartupType, QuietInd
           DEF StartupError, GoOn, TypeOK, Events
<1>3. CASE List \/ Resync
  <2>1. queue' \in Seq(Events)
    BY <1>0, <1>3, ListingsType DEF List, Resync
  <2> QED  BY <1>0, <1>3, <2>1, QuietInd DEF List, Resync, TypeOK
<1>4. CASE Handle
  BY <1>4, HandleInd
<1>5. CASE PatchSame \/ PatchChanges \/ PatchFails \/ Remember
  BY <1>5, PatchInd
<1>6. CASE Zombie
  <2>1. PICK i \in zombies :
          \/ /\ Unchanged(Startup[i], <<>>)
             /\ zombies' = (zombies \ {i}) \cup After(i)
             /\ UNCHANGED <<config, instance>>
          \/ /\ Change(Startup[i], <<>>)
             /\ zombies' = (zombies \ {i}) \cup After(i) \cup Lingering
    BY <1>6 DEF Zombie
  <2>2. i \in Steps /\ Startup[i] \in Settings /\ After(i) \subseteq Steps
        /\ Lingering \subseteq Steps
    BY <1>0, StartupType, AfterType DEF TypeOK, Steps, Lingering
  <2>3. zombies' \subseteq Steps
    BY <1>0, <2>1, <2>2 DEF TypeOK
  <2>4. CASE UNCHANGED <<config, instance>>
    BY <1>0, <1>6, <2>3, <2>4, QuietInd DEF Zombie, instance, TypeOK, Events
  <2>5. CASE Change(Startup[i], <<>>)
    BY <1>0, <1>6, <2>2, <2>3, <2>5, EmptyList, ChangeType, RestartInd
    DEF Zombie, TypeOK
  <2> QED  BY <2>1, <2>4, <2>5
<1>7. CASE ZombieError
  <2>1. zombies' \subseteq Steps /\ left' \in Limits
    BY <1>0, <1>7, AfterType DEF ZombieError, Fault, TypeOK
  <2> QED  BY <1>0, <1>7, <2>1, QuietInd DEF ZombieError, instance, TypeOK, Events
<1>8. CASE LatePatch
  <2>1. PICK q \in late :
          /\ late' = late \ {q}
          /\ \/ /\ Change(q.server, q.body)
                /\ zombies' = zombies \cup Lingering
             \/ UNCHANGED <<config, instance, zombies>>
    BY <1>8 DEF LatePatch
  <2>2. q.server \in Settings /\ q.body \in Lists
        /\ late' \subseteq [server: ToSet(Servers), body: Lists]
    BY <1>0, <2>1 DEF TypeOK, Settings
  <2>3. CASE Change(q.server, q.body) /\ zombies' = zombies \cup Lingering
    <3>1. zombies' \subseteq Steps
      BY <1>0, <2>3 DEF TypeOK, Lingering
    <3> QED  BY <1>0, <1>8, <2>2, <2>3, <3>1, ChangeType, RestartInd
             DEF LatePatch, TypeOK
  <2>4. CASE UNCHANGED <<config, instance, zombies>>
    BY <1>0, <1>8, <2>2, <2>4, QuietInd DEF LatePatch, instance, TypeOK, Events
  <2> QED  BY <2>1, <2>3, <2>4
<1>9. CASE UserActs
  <2>1. left' \in Limits
    BY <1>0, <1>9 DEF UserActs, TypeOK
  <2>2. PICK k \in Keys, hosts \in HostLists \cup {Absent} :
          /\ off' = [off EXCEPT ![k] = hosts]
          /\ Event(k, IF hosts = Absent THEN <<>> ELSE hosts)
    BY <1>9 DEF UserActs
  <2>3. (IF hosts = Absent THEN <<>> ELSE hosts) \in HostLists
    BY ListsAssumption
  <2>4. off' \in [Keys -> HostLists \cup {Absent}]
    BY <1>0, <2>2 DEF TypeOK
  <2>5. queue' \in Seq(Events)
    <3> DEFINE e == [key |-> k, hosts |-> IF hosts = Absent THEN <<>> ELSE hosts]
    <3>1. e \in Events /\ queue \in Seq(Events)
      BY <1>0, <2>3 DEF TypeOK, Events
    <3>2. queue' \in {queue, Append(queue, e)}
      BY <2>2 DEF Event
    <3> HIDE DEF e
    <3> QED  BY <3>1, <3>2
  <2> QED  BY <1>0, <1>9, <2>1, <2>4, <2>5, QuietInd DEF UserActs, TypeOK
<1>10. CASE ExternalReload
  <2>1. config' \in [Settings -> Lists \cup {Unset}] /\ zombies' \subseteq Steps
    BY <1>0, <1>10 DEF ExternalReload, Wiped, TypeOK, Lingering
  <2>2. left' \in Limits
    <3>1. CASE left' = [left EXCEPT !.reloads = @ - 1]
      BY <1>0, <1>10, <3>1 DEF ExternalReload, TypeOK
    <3>2. CASE /\ left.late > 0
               /\ left' = [left EXCEPT !.reloads = @ - 1, !.late = @ - 1]
      <4>1. /\ left \in Limits
            /\ left.reloads - 1 \in Nat /\ left.late - 1 \in Nat
        BY <1>0, <1>10, <3>2 DEF ExternalReload, TypeOK
      <4>2. left' = [left EXCEPT !.reloads = left.reloads - 1,
                                 !.late = left.late - 1]
        BY <3>2
      <4> QED  BY <4>1, <4>2
    <3> QED  BY <1>10, <3>1, <3>2 DEF ExternalReload
  <2>3. late' \subseteq [server: ToSet(Servers), body: Lists]
    BY <1>0, <1>10 DEF ExternalReload, Patching, TypeOK, ToSet
  <2> QED  BY <1>0, <1>10, <2>1, <2>2, <2>3, RestartInd DEF ExternalReload, TypeOK
<1>11. CASE Crash
  <2>1. config' \in [Settings -> Lists \cup {Unset}] /\ left' \in Limits
    BY <1>0, <1>11 DEF Crash, Wiped, TypeOK
  <2> QED  BY <1>0, <1>11, <2>1, RestartInd DEF Crash, TypeOK
<1>12. CASE UNCHANGED vars
  BY <1>0, <1>12, QuietInd DEF vars, instance, TypeOK, Events
<1> QED  BY <1>1, <1>2, <1>3, <1>4, <1>5, <1>6, <1>7, <1>8, <1>9, <1>10, <1>11,
            <1>12 DEF Next, Manager

\* lastSkip of rebuild (access_log.go:137) is what every server has, and the
\* servers that a rebuild has been to have what it is sending, whoever else
\* writes to them in the meantime.
THEOREM CacheCorrect == Spec => []CacheInv
BY InitInd, StepInd, PTL DEF Spec
=============================================================================
