-------------------------- MODULE LifecycleProofs --------------------------
(***************************************************************************)
(* What holds of every instance at every moment of a load: the servers     *)
(* that it knows are those of its configuration, and one that was stopped  *)
(* has nothing left to do, whatever the bounds.                            *)
(***************************************************************************)
EXTENDS Lifecycle, TLAPS

\* An instance has work only once its informer runs.
Unused(a) == ~a.managed /\ a.call = None /\ a.queue = <<>>

Fresh(a) == ~a.stopped /\ (a.run # "watching" => Unused(a))

Gone(a) == a.stopped /\ a.run # "watching" /\ Unused(a)

Instances ==
    /\ app \in Apps /\ Fresh(app)
    /\ new \in Apps \cup {None} /\ (new # None => Fresh(new))
    /\ IsABag(old)
    /\ \A a \in BagToSet(old) : a \in Apps /\ Gone(a)

\* What is not an instance's.
Rest ==
    /\ api \in BOOLEAN
    /\ config \in Configs
    /\ load \in Loads \cup {None}
    /\ store \in BOOLEAN
    /\ late \subseteq Requests
    /\ left \in Nat

\* There is a new instance from its provisioning to the end of the load, and a
\* handler that asked for the load waits for it.
NewThere ==
    /\ load = None => new = None
    /\ load # None => (load.phase = "provision" <=> new = None)
    /\ load # None /\ load.phase = "start" => new.run = "provisioned"
    /\ load # None /\ load.asked => app.call # None

IndInv == Instances /\ Rest /\ NewThere /\ NamesCurrent

-----------------------------------------------------------------------------
(* The parts of an instance *)

\* The rest of Provision's instance.
LEMMA ProvisionedType ==
    ASSUME NEW found \in BOOLEAN, config \in Configs
    PROVE  /\ Provisioned(found) \in Apps
           /\ Fresh(Provisioned(found))
           /\ Named(Provisioned(found), config)
           /\ Provisioned(found).run = "provisioned"
<1>1. <<>> \in Seq({"add", "delete"})
  OBVIOUS
<1> QED  BY <1>1 DEF Provisioned, Apps, Fresh, Unused, Named, Configs

\* Start sets the goroutine going.
LEMMA StartedType ==
    ASSUME NEW a \in Apps, Fresh(a), a.run # "watching"
    PROVE  /\ Started(a) \in Apps
           /\ Fresh(Started(a))
           /\ Started(a).https = a.https /\ Started(a).http = a.http
BY DEF Started, Apps, Fresh, Unused

\* The settings of the loggers.
LEMMA LogWritesType == LogWrites \in Seq(Logs)
<1>1. /\ <<"access">> \in Seq(Logs) /\ <<"default">> \in Seq(Logs)
      /\ <<"admin.api">> \in Seq(Logs) /\ <<>> \in Seq(Logs)
  BY DEF Logs
<1>2. \A s, t \in Seq(Logs) : s \o t \in Seq(Logs)
  OBVIOUS
<1>3. (IF AccessLog THEN <<"access">> ELSE <<>>)
        \o (IF AccessLog \/ ~Verbose THEN <<"default">> ELSE <<>>) \in Seq(Logs)
  <2>1. (IF AccessLog THEN <<"access">> ELSE <<>>) \in Seq(Logs)
    BY <1>1
  <2>2. (IF AccessLog \/ ~Verbose THEN <<"default">> ELSE <<>>) \in Seq(Logs)
    BY <1>1
  <2> QED  BY <1>2, <2>1, <2>2
<1>4. (IF ~Verbose THEN <<"admin.api">> ELSE <<>>) \in Seq(Logs)
  BY <1>1
<1> QED  BY <1>2, <1>3, <1>4 DEF LogWrites

\* What a request makes of a configuration is one.
LEMMA EffectType ==
    ASSUME NEW c \in Configs, NEW q \in Requests
    PROVE  Effect(c, q) \in Configs
<1>1. CASE q.op = "log"
  BY <1>1 DEF Effect, Configs, Requests
<1>2. CASE q.op = "cert"
  BY <1>2 DEF Effect, Configs, Requests
<1>3. CASE q.op = "redirect"
  BY <1>3 DEF Effect, Configs, Requests
<1>4. CASE q.op = "post"
  <2>1. q.arg \in {"bare", "full"}
    BY <1>4 DEF Requests
  <2> QED  BY <1>4, <2>1 DEF Effect, Configs
<1>5. CASE q.op = "delete"
  BY <1>5 DEF Effect, Configs, Requests
<1> QED  BY <1>1, <1>2, <1>3, <1>4, <1>5 DEF Requests

\* The request of a handler is one.
LEMMA RequestType ==
    ASSUME NEW c \in Calls
    PROVE  Request(c) \in Requests
<1>1. CASE c.at # "route"
  BY <1>1 DEF Request, Requests, Calls
<1>2. CASE c.at = "route"
  BY <1>2 DEF Request, Requests, Calls
<1> QED  BY <1>1, <1>2

\* A handler that goes on is of the same instance.
LEMMA AnsweredType ==
    ASSUME NEW a \in Apps, a.call # None, a.run = "watching", NEW ok \in BOOLEAN
    PROVE  /\ Answered(a, ok) \in Apps
           /\ Answered(a, ok).run = "watching"
           /\ Answered(a, ok).stopped = a.stopped
           /\ Answered(a, ok).https = a.https /\ Answered(a, ok).http = a.http
<1>1. a.call \in Calls
  BY DEF Apps
<1>2. CASE a.call.at = "cert"
  <2> DEFINE next == IF a.http THEN "redirect" ELSE "route"
  <2>1. [a.call EXCEPT !.at = next] \in Calls
    BY <1>1 DEF Calls
  <2>2. Answered(a, ok) = [a EXCEPT !.managed = a.managed \/ ok,
                                    !.call = [a.call EXCEPT !.at = next]]
    BY <1>2 DEF Answered
  <2> HIDE DEF next
  <2>3. a.managed \/ ok \in BOOLEAN
    BY DEF Apps
  <2> QED  BY <2>1, <2>2, <2>3 DEF Apps
<1>3. CASE a.call.at = "redirect"
  <2>1. [a.call EXCEPT !.at = "route"] \in Calls
    BY <1>1 DEF Calls
  <2>2. Answered(a, ok) = [a EXCEPT !.call = [a.call EXCEPT !.at = "route"]]
    BY <1>3 DEF Answered
  <2> QED  BY <2>1, <2>2 DEF Apps
<1>4. CASE a.call.at = "route"
  <2>1. Answered(a, ok) = [a EXCEPT !.owned = (a.call.op = "add"), !.call = None]
    BY <1>4 DEF Answered
  <2> QED  BY <2>1 DEF Apps
<1> QED  BY <1>1, <1>2, <1>3, <1>4 DEF Calls

-----------------------------------------------------------------------------
(* The bag of stopped instances *)

\* One joins it.
LEMMA OldPlus ==
    ASSUME NEW o, IsABag(o), NEW P, BagToSet(o) \subseteq P,
           NEW S \in SUBSET P
    PROVE  IsABag(o (+) SetToBag(S)) /\ BagToSet(o (+) SetToBag(S)) \subseteq P
BY DEF IsABag, BagToSet, SetToBag, (+)

\* One leaves it.
LEMMA OldMinus ==
    ASSUME NEW o, IsABag(o), NEW P, BagToSet(o) \subseteq P, NEW a \in BagToSet(o)
    PROVE  /\ IsABag(o (-) SetToBag({a}))
           /\ BagToSet(o (-) SetToBag({a})) \subseteq P
<1> DEFINE B == [e \in DOMAIN o |-> IF e \in DOMAIN SetToBag({a})
                                   THEN o[e] - SetToBag({a})[e] ELSE o[e]]
<1>1. \A e \in DOMAIN o : o[e] \in Nat /\ o[e] > 0
  BY DEF IsABag
<1>2. \A e \in DOMAIN o : B[e] \in Nat
  <2> TAKE e \in DOMAIN o
  <2>1. CASE e = a
    BY <1>1, <2>1 DEF SetToBag
  <2>2. CASE e # a
    BY <1>1, <2>2 DEF SetToBag
  <2> QED  BY <2>1, <2>2
<1>3. o (-) SetToBag({a}) = [e \in {d \in DOMAIN B : B[d] > 0} |-> B[e]]
  BY DEF (-)
<1>4. DOMAIN B = DOMAIN o
  OBVIOUS
<1> HIDE DEF B
<1> QED  BY <1>2, <1>3, <1>4 DEF IsABag, BagToSet

\* What a step of one instance leaves of them all.
Move ==
    /\ Instances'
    /\ Named(app', IF load = None THEN config ELSE load.prev)
    /\ new = None <=> new' = None
    /\ new' # None => Named(new', config)
    /\ new # None /\ new.run = "provisioned" => new' = new
    /\ load # None /\ app.call # None => app'.call # None

\* A step of one instance leaves the instances what they are and the names that
\* they know current.
LEMMA BecomesInd ==
    ASSUME IndInv,
           NEW a \in ({app, new} \ {None}) \cup BagToSet(old), NEW b,
           a.run # "provisioned",
           load = None \/ a.call = None,
           Becomes(a, b),
           ~a.stopped => b # None,
           b # None => /\ b \in Apps
                       /\ b.stopped = a.stopped
                       /\ IF a.stopped THEN Gone(b) ELSE Fresh(b)
                       /\ b.https => a.https \/ (load = None /\ config.https)
                       /\ b.http => a.http \/ (load = None /\ config.http)
    PROVE  Move
<1> USE DEF IndInv, Move
<1>1. app.stopped = FALSE /\ (new # None => new.stopped = FALSE)
      /\ \A c \in BagToSet(old) : c.stopped = TRUE
  BY DEF Instances, Fresh, Gone, Apps
<1>2. app # None
  BY NoneAssumption DEF Instances
<1>3. CASE a = app /\ app' = b /\ UNCHANGED <<new, old>>
  <2>1. b # None /\ Fresh(b) /\ b \in Apps
    BY <1>1, <1>3
  <2>2. Named(b, IF load = None THEN config ELSE load.prev)
    BY <1>3, <2>1 DEF NamesCurrent, Named
  <2> QED  BY <1>3, <2>1, <2>2 DEF Instances, NamesCurrent
<1>4. CASE a = new /\ new' = b /\ UNCHANGED <<app, old>>
  <2>1. new # None
    BY <1>1, <1>2, <1>4, NoneAssumption DEF Instances
  <2>2. b # None /\ Fresh(b) /\ b \in Apps /\ load # None
    BY <1>1, <1>4, <2>1 DEF NewThere
  <2>3. Named(b, config)
    BY <1>4, <2>1, <2>2 DEF NamesCurrent, Named
  <2> QED  BY <1>4, <2>1, <2>2, <2>3 DEF Instances, NamesCurrent
<1>5. CASE /\ BagIn(a, old)
           /\ old' = (old (-) SetToBag({a})) (+) SetToBag({b} \ {None})
           /\ UNCHANGED <<app, new>>
  <2> DEFINE P == {c \in Apps : Gone(c)}
  <2>1. a \in BagToSet(old) /\ BagToSet(old) \subseteq P
    BY <1>5 DEF BagIn, Instances
  <2>2. {b} \ {None} \in SUBSET P
    BY <1>1, <2>1
  <2>3. IsABag(old)
    BY DEF Instances
  <2> HIDE DEF P
  <2>4. /\ IsABag(old (-) SetToBag({a}))
        /\ BagToSet(old (-) SetToBag({a})) \subseteq P
    BY <2>1, <2>3, OldMinus
  <2>5. IsABag(old') /\ BagToSet(old') \subseteq P
    BY <1>5, <2>2, <2>4, OldPlus
  <2> QED  BY <1>5, <2>5 DEF P, Instances, NamesCurrent, Fresh, Gone, Unused
<1> QED  BY <1>3, <1>4, <1>5 DEF Becomes

\* A step that leaves the configuration and the lock alone.
LEMMA StayInd ==
    ASSUME IndInv, Move, Rest', UNCHANGED <<config, load>>
    PROVE  IndInv'
<1>1. NewThere'
  BY DEF IndInv, Move, NewThere
<1>2. NamesCurrent'
  BY DEF Move, NamesCurrent
<1> QED  BY <1>1, <1>2 DEF IndInv, Move

\* A step that begins a load.
LEMMA BeginInd ==
    ASSUME IndInv, Move, NEW c \in Configs, NEW asked \in BOOLEAN,
           BeginLoad(c, asked), asked => app'.call # None,
           api' \in BOOLEAN, store' \in BOOLEAN, late' \subseteq Requests,
           left' \in Nat
    PROVE  IndInv'
<1>1. /\ load = None /\ new = None /\ new' = None
      /\ load' = [phase |-> "provision", prev |-> config, asked |-> asked]
      /\ config' = c
  BY DEF BeginLoad, IndInv, NewThere, Move
<1>2. load' \in Loads /\ load' # None
  BY <1>1, NoneAssumption DEF Loads, IndInv, Rest
<1>3. Rest'
  BY <1>1, <1>2 DEF Rest
<1>4. NewThere'
  BY <1>1, <1>2 DEF NewThere
<1>5. NamesCurrent'
  BY <1>1, <1>2 DEF Move, NamesCurrent
<1> QED  BY <1>3, <1>4, <1>5 DEF IndInv, Move

\* No step of an instance.
LEMMA NoMove ==
    ASSUME IndInv, UNCHANGED <<app, new, old>>
    PROVE  Move
BY DEF IndInv, Move, Instances, NamesCurrent, Fresh, Gone, Unused

\* A step may cost one of the troubles.
LEMMA TroubleType ==
    ASSUME IndInv, Trouble \/ UNCHANGED left
    PROVE  left' \in Nat
BY DEF IndInv, Rest, Trouble

\* The instances there are.
LEMMA LiveType ==
    ASSUME IndInv, NEW a \in ({app, new} \ {None}) \cup BagToSet(old)
    PROVE  /\ a \in Apps
           /\ a.run # "watching" => Unused(a)
           /\ a.stopped => Gone(a)
           /\ ~a.stopped => Fresh(a)
BY DEF IndInv, Instances, Fresh, Gone

-----------------------------------------------------------------------------
(* run() *)

LEMMA RunInd ==
    ASSUME IndInv, NEW a \in ({app, new} \ {None}) \cup BagToSet(old), Run(a)
    PROVE  IndInv'
<1>0. /\ a \in Apps
      /\ a.run # "watching" => Unused(a)
      /\ a.stopped => Gone(a)
      /\ ~a.stopped => Fresh(a)
      /\ None \notin Apps
      /\ a.run # "watching" => a.call = None
  BY LiveType, NoneAssumption DEF Unused
<1>1. /\ api \in BOOLEAN /\ config \in Configs /\ load \in Loads \cup {None}
      /\ store \in BOOLEAN /\ late \subseteq Requests /\ left \in Nat
  BY DEF IndInv, Rest
<1>2. CASE FindHTTPS(a)
  <2>1. UNCHANGED <<api, config, load, store, late, left>>
    BY <1>2 DEF FindHTTPS
  <2>2. CASE a.stopped /\ Becomes(a, None)
    <3>1. Move
      BY <1>0, <1>2, <2>2, BecomesInd DEF FindHTTPS
    <3> QED  BY <1>1, <2>1, <3>1, StayInd DEF Rest
  <2>3. CASE load = None /\ ResolveServerName("https")
             /\ Becomes(a, [a EXCEPT !.https = TRUE,
                                     !.run = IF a.http THEN "restore" ELSE "http"])
    <3> DEFINE b == [a EXCEPT !.https = TRUE,
                              !.run = IF a.http THEN "restore" ELSE "http"]
    <3>1. b \in Apps
      BY <1>0 DEF Apps
    <3>2. /\ b.stopped = a.stopped /\ b.http = a.http
          /\ b.run \in {"restore", "http"} /\ Unused(b)
      BY <1>0, <1>2 DEF Apps, Unused, FindHTTPS
    <3>3. config.https
      BY <2>3 DEF ResolveServerName
    <3>4. IF a.stopped THEN Gone(b) ELSE Fresh(b)
      BY <1>0, <3>1, <3>2 DEF Apps, Gone, Fresh
    <3>5. Becomes(a, b) /\ a.run # "provisioned"
      BY <1>2, <2>3 DEF FindHTTPS
    <3> HIDE DEF b
    <3>6. Move
      BY <1>0, <2>3, <3>1, <3>2, <3>3, <3>4, <3>5, BecomesInd
    <3> QED  BY <1>1, <2>1, <3>6, StayInd DEF Rest
  <2> QED  BY <1>2, <2>2, <2>3 DEF FindHTTPS
<1>3. CASE FindHTTP(a)
  <2>1. /\ load = None /\ UNCHANGED <<api, config, load, store, late>>
        /\ left' \in Nat
    BY <1>1, <1>3 DEF FindHTTP, Trouble
  <2>2. PICK h \in BOOLEAN :
           /\ h => a.http \/ config.http
           /\ Becomes(a, [a EXCEPT !.run = "restore", !.http = h])
    <3>1. CASE Becomes(a, [a EXCEPT !.run = "restore",
                                    !.http = ResolveServerName("http")])
      <4>1. ResolveServerName("http") = config.http /\ config.http \in BOOLEAN
        BY <1>1 DEF ResolveServerName, Configs
      <4> QED  BY <3>1, <4>1
    <3>2. CASE Becomes(a, [a EXCEPT !.run = "restore"])
      <4>1. [a EXCEPT !.run = "restore"] = [a EXCEPT !.run = "restore", !.http = a.http]
            /\ a.http \in BOOLEAN
        BY <1>0 DEF Apps
      <4> QED  BY <3>2, <4>1
    <3> QED  BY <1>3, <3>1, <3>2 DEF FindHTTP
  <2> DEFINE b == [a EXCEPT !.run = "restore", !.http = h]
  <2>3. b \in Apps
    BY <1>0 DEF Apps
  <2>4. /\ b.stopped = a.stopped /\ b.https = a.https /\ b.http = h
        /\ b.run = "restore" /\ Unused(b)
    BY <1>0, <1>3 DEF Apps, Unused, FindHTTP
  <2>5. IF a.stopped THEN Gone(b) ELSE Fresh(b)
    BY <1>0, <2>3, <2>4 DEF Apps, Gone, Fresh
  <2>6. Becomes(a, b) /\ a.run # "provisioned"
    BY <1>3, <2>2 DEF FindHTTP
  <2> HIDE DEF b
  <2>7. Move
    BY <1>0, <2>1, <2>2, <2>3, <2>4, <2>5, <2>6, BecomesInd
  <2> QED  BY <1>1, <2>1, <2>7, StayInd DEF Rest
<1>4. CASE Restore(a) \/ Watch(a)
  <2>1. UNCHANGED <<api, config, load, store, late, left>>
    BY <1>4 DEF Restore, Watch
  <2>2. PICK b \in Apps :
           /\ Becomes(a, b)
           /\ b.stopped = a.stopped /\ b.https = a.https /\ b.http = a.http
           /\ b.run \in {"watch", "logs"} /\ Unused(b)
    <3>1. CASE Restore(a)
      <4> DEFINE b == [a EXCEPT !.run = "watch", !.manager = "open",
                                !.owned = store /\ ~a.stopped]
      <4>1. (store /\ ~a.stopped) \in BOOLEAN
        BY <1>1
      <4>2. b \in Apps
        BY <1>0, <4>1 DEF Apps
      <4>3. /\ b.stopped = a.stopped /\ b.https = a.https /\ b.http = a.http
            /\ b.run = "watch" /\ Unused(b)
        BY <1>0, <3>1 DEF Apps, Unused, Restore
      <4> QED  BY <3>1, <4>2, <4>3 DEF Restore
    <3>2. CASE Watch(a)
      <4> DEFINE b == [a EXCEPT !.run = "logs"]
      <4>1. b \in Apps
        BY <1>0 DEF Apps
      <4>2. /\ b.stopped = a.stopped /\ b.https = a.https /\ b.http = a.http
            /\ b.run = "logs" /\ Unused(b)
        BY <1>0, <3>2 DEF Apps, Unused, Watch
      <4> QED  BY <3>2, <4>1, <4>2 DEF Watch
    <3> QED  BY <1>4, <3>1, <3>2
  <2>3. IF a.stopped THEN Gone(b) ELSE Fresh(b)
    BY <1>0, <2>2 DEF Apps, Gone, Fresh
  <2>4. Move
    BY <1>0, <1>4, <2>2, <2>3, BecomesInd DEF Restore, Watch
  <2> QED  BY <1>1, <2>1, <2>4, StayInd DEF Rest
<1>5. CASE WriteLog(a)
  <2> DEFINE b == [a EXCEPT !.n = @ + 1]
             c == Effect(config, [op |-> "log", arg |-> LogWrites[a.n]])
  <2>1. b \in Apps
    BY <1>0 DEF Apps
  <2>2. /\ b.stopped = a.stopped /\ b.https = a.https /\ b.http = a.http
        /\ b.run = "logs" /\ Unused(b)
    BY <1>0, <1>5 DEF Apps, Unused, WriteLog
  <2>3. IF a.stopped THEN Gone(b) ELSE Fresh(b)
    BY <1>0, <2>1, <2>2 DEF Apps, Gone, Fresh
  <2>4. Becomes(a, b) /\ a.run = "logs"
    BY <1>5 DEF WriteLog
  <2>5. c \in Configs
    <3>1. LogWrites[a.n] \in Logs
      BY <1>5, LogWritesType DEF WriteLog
    <3>2. [op |-> "log", arg |-> LogWrites[a.n]] \in Requests
      BY <3>1 DEF Requests
    <3> QED  BY <1>1, <3>2, EffectType
  <2> HIDE DEF b
  <2>6. /\ UNCHANGED <<api, store, late>> /\ left' \in Nat
        /\ UNCHANGED <<config, load>> \/ BeginLoad(c, FALSE)
    <3>1. UNCHANGED <<api, store, late>> /\ (Trouble \/ UNCHANGED left)
      BY <1>5 DEF WriteLog
    <3>2. UNCHANGED <<config, load>> \/ BeginLoad(c, FALSE)
      BY <1>5 DEF WriteLog
    <3> QED  BY <3>1, <3>2, TroubleType
  <2> HIDE DEF c
  <2>7. Move
    BY <1>0, <2>1, <2>2, <2>3, <2>4, BecomesInd
  <2>8. CASE UNCHANGED <<config, load>>
    BY <1>1, <2>6, <2>7, <2>8, StayInd DEF Rest
  <2>9. CASE BeginLoad(c, FALSE)
    BY <1>1, <2>5, <2>6, <2>7, <2>9, BeginInd
  <2> QED  BY <2>6, <2>8, <2>9
<1>6. CASE Inform(a)
  <2>1. UNCHANGED <<api, config, load, store, late, left>> /\ a.run = "logs"
    BY <1>6 DEF Inform
  <2>2. CASE a.stopped
    <3>1. Move
      BY <1>0, <1>6, <2>1, <2>2, BecomesInd DEF Inform
    <3> QED  BY <1>1, <2>1, <3>1, StayInd DEF Rest
  <2>3. CASE ~a.stopped
    <3> DEFINE b == [a EXCEPT !.run = "watching", !.queue = Listing]
    <3>1. b \in Apps
      <4>1. Listing \in Seq({"add", "delete"})
        <5>1. <<"add">> \in Seq({"add", "delete"}) /\ <<>> \in Seq({"add", "delete"})
          OBVIOUS
        <5> QED  BY <5>1 DEF Listing
      <4> QED  BY <1>0, <4>1 DEF Apps
    <3>2. /\ b.stopped = a.stopped /\ b.https = a.https /\ b.http = a.http
          /\ b.run = "watching"
      BY <1>0 DEF Apps
    <3>3. Becomes(a, b)
      BY <1>6, <2>3 DEF Inform
    <3>4. Fresh(b)
      BY <2>3, <3>1, <3>2 DEF Fresh, Apps
    <3> HIDE DEF b
    <3>5. Move
      BY <1>0, <2>1, <2>3, <3>1, <3>2, <3>3, <3>4, BecomesInd
    <3> QED  BY <1>1, <2>1, <3>5, StayInd DEF Rest
  <2> QED  BY <2>2, <2>3
<1> QED  BY <1>2, <1>3, <1>4, <1>5, <1>6 DEF Run

-----------------------------------------------------------------------------
(* The handlers and the informer of an instance *)

LEMMA HandleInd ==
    ASSUME IndInv, NEW a \in ({app, new} \ {None}) \cup BagToSet(old),
           Handle(a) \/ Resync(a)
    PROVE  IndInv'
<1>0. /\ a \in Apps
      /\ a.run # "watching" => Unused(a)
      /\ a.stopped => Gone(a)
      /\ ~a.stopped => Fresh(a)
      /\ None \notin Apps /\ None \notin Calls
  BY LiveType, NoneAssumption
<1>1. /\ api \in BOOLEAN /\ config \in Configs /\ load \in Loads \cup {None}
      /\ store \in BOOLEAN /\ late \subseteq Requests /\ left \in Nat
  BY DEF IndInv, Rest
<1>2. a.run = "watching"
  BY <1>0 DEF Handle, BeginAdd, BeginDelete, Ask, Idle, Resync, Unused
<1>3. a.stopped = FALSE
  BY <1>0, <1>2 DEF Gone, Apps
<1>4. ASSUME NEW b \in Apps, Becomes(a, b), b.run = "watching",
             b.stopped = FALSE, b.https = a.https, b.http = a.http,
             load = None \/ a.call = None
      PROVE  Move
  BY <1>0, <1>2, <1>3, <1>4, BecomesInd DEF Fresh
<1>5. a.queue \in Seq({"add", "delete"})
  BY <1>0 DEF Apps
<1>6. CASE BeginAdd(a)
  <2>1. PICK full \in BOOLEAN :
          Becomes(a, [a EXCEPT !.queue = Tail(@),
                        !.call = [op |-> "add", at |-> "cert", full |-> full]])
    BY <1>6 DEF BeginAdd
  <2>2. Tail(a.queue) \in Seq({"add", "delete"})
    BY <1>5, <1>6 DEF BeginAdd, Idle
  <2>3. [op |-> "add", at |-> "cert", full |-> full] \in Calls
    BY DEF Calls
  <2> DEFINE b == [a EXCEPT !.queue = Tail(@),
                     !.call = [op |-> "add", at |-> "cert", full |-> full]]
  <2>4. /\ b \in Apps /\ b.run = "watching" /\ b.stopped = FALSE
        /\ b.https = a.https /\ b.http = a.http
    BY <1>0, <1>2, <1>3, <2>2, <2>3 DEF Apps
  <2>5. Becomes(a, b)
    BY <2>1
  <2> HIDE DEF b
  <2>6. Move
    BY <1>4, <1>6, <2>4, <2>5 DEF BeginAdd, Idle
  <2>7. UNCHANGED <<api, config, load, store, late>> /\ left' \in Nat
    <3>1. Trouble \/ UNCHANGED left
      BY <1>6 DEF BeginAdd
    <3> QED  BY <1>6, <3>1, TroubleType DEF BeginAdd
  <2> QED  BY <1>1, <2>6, <2>7, StayInd DEF Rest
<1>7. CASE BeginDelete(a)
  <2> DEFINE call == IF ~a.owned THEN None
                     ELSE [op |-> "delete", at |-> "route", full |-> TRUE]
             b == [a EXCEPT !.queue = Tail(@), !.managed = FALSE,
                            !.owned = FALSE, !.call = call]
  <2>1. Becomes(a, b)
    BY <1>7 DEF BeginDelete
  <2>2. Tail(a.queue) \in Seq({"add", "delete"})
    BY <1>5, <1>7 DEF BeginDelete, Idle
  <2>3. call \in Calls \cup {None}
    BY DEF Calls
  <2> HIDE DEF call
  <2>4. /\ b \in Apps /\ b.run = "watching" /\ b.stopped = FALSE
        /\ b.https = a.https /\ b.http = a.http
    BY <1>0, <1>2, <1>3, <2>2, <2>3 DEF Apps
  <2> HIDE DEF b
  <2>5. Move
    BY <1>4, <1>7, <2>1, <2>4 DEF BeginDelete, Idle
  <2>6. store' \in BOOLEAN /\ UNCHANGED <<api, config, load, late, left>>
    BY <1>0, <1>1, <1>7 DEF BeginDelete, Apps
  <2> QED  BY <1>1, <2>5, <2>6, StayInd DEF Rest
<1>8. CASE Ask(a)
  <2>1. a.call \in Calls /\ a.call # None
    BY <1>0, <1>8 DEF Ask, Apps
  <2>2. ASSUME NEW ok \in BOOLEAN, Becomes(a, Answered(a, ok))
        PROVE  Move
    BY <1>0, <1>2, <1>3, <1>4, <1>8, <2>1, <2>2, AnsweredType DEF Ask
  <2> DEFINE to == Effect(config, Request(a.call))
  <2>3. to \in Configs
    BY <1>1, <2>1, RequestType, EffectType
  <2>4. \/ /\ \E ok \in BOOLEAN : Becomes(a, Answered(a, ok))
           /\ UNCHANGED <<config, load>>
        \/ BeginLoad(to, TRUE) /\ UNCHANGED <<app, new, old>>
    BY <1>8 DEF Ask
  <2>5. UNCHANGED <<api, late>> /\ store' \in BOOLEAN
    BY <1>1, <1>8 DEF Ask
  <2>6. left' \in Nat
    <3>1. Trouble \/ UNCHANGED left
      BY <1>8 DEF Ask
    <3> QED  BY <3>1, TroubleType
  <2> HIDE DEF to
  <2>7. CASE /\ \E ok \in BOOLEAN : Becomes(a, Answered(a, ok))
             /\ UNCHANGED <<config, load>>
    <3>1. Move
      BY <2>2, <2>7
    <3> QED  BY <1>1, <2>5, <2>6, <2>7, <3>1, StayInd DEF Rest
  <2>8. CASE BeginLoad(to, TRUE) /\ UNCHANGED <<app, new, old>>
    <3>1. a = app
      BY <1>3, <1>8, <2>1 DEF Ask, IndInv, NewThere, Instances, Gone
    <3>2. app'.call # None /\ Move
      BY <2>1, <2>8, <3>1, NoMove
    <3> QED  BY <1>1, <2>3, <2>5, <2>6, <2>8, <3>2, BeginInd
  <2> QED  BY <2>4, <2>7, <2>8
<1>9. CASE Resync(a)
  <2> DEFINE b == [a EXCEPT !.queue = Listing]
  <2>1. Listing \in Seq({"add", "delete"})
    BY <1>9 DEF Listing, Resync
  <2>2. /\ b \in Apps /\ b.run = "watching" /\ b.stopped = FALSE
        /\ b.https = a.https /\ b.http = a.http
    BY <1>0, <1>2, <1>3, <2>1 DEF Apps
  <2>3. Becomes(a, b) /\ UNCHANGED <<api, config, load, store, late, left>>
    BY <1>9 DEF Resync
  <2> HIDE DEF b
  <2>4. Move
    BY <1>4, <1>9, <2>2, <2>3 DEF Resync
  <2> QED  BY <1>1, <2>3, <2>4, StayInd DEF Rest
<1> QED  BY <1>6, <1>7, <1>8, <1>9 DEF Handle

-----------------------------------------------------------------------------
(* Caddy, the users and the others *)

LEMMA InitInd == Init => IndInv
<1> SUFFICES ASSUME Init PROVE IndInv
  OBVIOUS
<1>1. Rest
  <2>1. config \in Configs
    <3>1. PICK https \in BOOLEAN, http \in BOOLEAN : config = Pristine(https, http)
      BY DEF Init
    <3> QED  BY <3>1 DEF Pristine, Configs
  <2>2. api \in BOOLEAN /\ load = None /\ store = FALSE /\ late = {}
        /\ left = MaxTroubles
    BY DEF Init
  <2> QED  BY <2>1, <2>2, LifecycleAssumption DEF Rest
<1>2. /\ Provisioned(TRUE) \in Apps /\ Fresh(Provisioned(TRUE))
      /\ Named(Provisioned(TRUE), config)
      /\ Provisioned(TRUE).run # "watching"
  BY <1>1, ProvisionedType DEF Rest
<1>3. app \in Apps /\ Fresh(app) /\ Named(app, config)
  BY <1>2, StartedType DEF Init, Named
<1>4. IsABag(old) /\ BagToSet(old) = {}
  BY DEF Init, EmptyBag, SetToBag, IsABag, BagToSet
<1> QED  BY <1>1, <1>3, <1>4 DEF Init, IndInv, Instances, NewThere, NamesCurrent

\* What Stop leaves of an instance has nothing to do any more.
LEMMA AfterStopType ==
    ASSUME NEW a \in Apps, Fresh(a), NEW b \in AfterStop(a)
    PROVE  \E S \in SUBSET {c \in Apps : Gone(c)} : b = SetToBag(S)
<1>1. PICK seen \in BOOLEAN :
         b = IF Stopped(a, seen).stopped /\ Stopped(a, seen).run = "watching"
             THEN EmptyBag ELSE SetToBag({Stopped(a, seen)})
  BY DEF AfterStop, Seen
<1> DEFINE c == Stopped(a, seen)
           manager == IF a.manager = "open" /\ seen THEN "closed" ELSE a.manager
<1>2. c = [a EXCEPT !.stopped = TRUE, !.manager = manager, !.call = None,
                    !.queue = <<>>]
  BY DEF Stopped
<1>3. manager \in {"nil", "open", "closed"} /\ <<>> \in Seq({"add", "delete"})
  BY DEF Apps
<1> HIDE DEF manager
<1>4. /\ c \in Apps /\ c.stopped = TRUE /\ c.run = a.run /\ c.call = None
      /\ c.queue = <<>> /\ c.managed = a.managed
  <2> HIDE DEF c
  <2> QED  BY <1>2, <1>3 DEF Apps
<1>5. CASE a.run = "watching"
  <2>1. b = SetToBag({})
    BY <1>1, <1>4, <1>5 DEF EmptyBag
  <2> QED  BY <2>1
<1>6. CASE a.run # "watching"
  <2>1. Gone(c)
    BY <1>4, <1>6 DEF Fresh, Gone, Unused
  <2>2. b = SetToBag({c})
    BY <1>1, <1>4, <1>6
  <2> HIDE DEF c
  <2> QED  BY <1>4, <2>1, <2>2
<1> QED  BY <1>5, <1>6

\* Which joins the others.
LEMMA OldAfterStop ==
    ASSUME IndInv, NEW a \in Apps, Fresh(a), NEW b \in AfterStop(a),
           old' = old (+) b
    PROVE  IsABag(old') /\ \A c \in BagToSet(old') : c \in Apps /\ Gone(c)
<1> DEFINE P == {c \in Apps : Gone(c)}
<1>1. PICK S \in SUBSET P : b = SetToBag(S)
  BY AfterStopType
<1>2. IsABag(old) /\ BagToSet(old) \subseteq P
  BY DEF IndInv, Instances
<1> HIDE DEF P
<1>3. IsABag(old') /\ BagToSet(old') \subseteq P
  BY <1>1, <1>2, OldPlus
<1> QED  BY <1>3 DEF P

LEMMA CaddyInd ==
    ASSUME IndInv, Caddy
    PROVE  IndInv'
<1> USE DEF IndInv
<1>0. None \notin Apps /\ None \notin Loads
  BY NoneAssumption
<1>1. CASE Provision
  <2>1. /\ load \in Loads /\ load.phase = "provision" /\ new = None
        /\ load' = [load EXCEPT !.phase = "start"]
        /\ UNCHANGED <<api, config, app, old, store, late>>
    BY <1>1 DEF Provision, Loading, Rest, NewThere
  <2>2. PICK found \in BOOLEAN : new' = Provisioned(found)
    BY <1>1 DEF Provision
  <2>3. left' \in Nat
    <3>1. Trouble \/ UNCHANGED left
      BY <1>1 DEF Provision
    <3> QED  BY <3>1, TroubleType
  <2>4. /\ load' \in Loads /\ load' # None /\ load'.phase = "start"
        /\ load'.prev = load.prev /\ load'.asked = load.asked
    BY <1>0, <2>1 DEF Loads
  <2>5. /\ new' \in Apps /\ Fresh(new') /\ Named(new', config)
        /\ new'.run = "provisioned" /\ new' # None
    BY <1>0, <2>2, ProvisionedType DEF Rest
  <2>6. Instances'
    BY <2>1, <2>5 DEF Instances, Fresh, Gone, Unused
  <2>7. Rest'
    BY <2>1, <2>3, <2>4 DEF Rest
  <2>8. NewThere'
    BY <1>0, <2>1, <2>4, <2>5 DEF NewThere
  <2>9. NamesCurrent'
    BY <1>0, <2>1, <2>4, <2>5 DEF NamesCurrent
  <2> QED  BY <2>6, <2>7, <2>8, <2>9
<1>2. CASE Start
  <2>1. /\ load \in Loads /\ load.phase = "start" /\ new # None
        /\ new.run = "provisioned" /\ new' = Started(new)
        /\ load' = [load EXCEPT !.phase = "stop"]
        /\ UNCHANGED <<api, config, app, old, store, late, left>>
    BY <1>2 DEF Start, Loading, Rest, NewThere
  <2>2. /\ load' \in Loads /\ load' # None /\ load'.phase = "stop"
        /\ load'.prev = load.prev /\ load'.asked = load.asked
    BY <1>0, <2>1 DEF Loads
  <2>3. /\ new' \in Apps /\ Fresh(new') /\ Named(new', config) /\ new' # None
    BY <1>0, <2>1, StartedType DEF Instances, NamesCurrent, Named
  <2>4. Instances'
    BY <2>1, <2>3 DEF Instances, Fresh, Gone, Unused
  <2>5. Rest'
    BY <2>1, <2>2 DEF Rest
  <2>6. NewThere'
    BY <1>0, <2>1, <2>2, <2>3 DEF NewThere
  <2>7. NamesCurrent'
    BY <1>0, <2>1, <2>2, <2>3 DEF NamesCurrent
  <2> QED  BY <2>4, <2>5, <2>6, <2>7
<1>3. CASE Stop
  <2>1. /\ load \in Loads /\ load # None /\ load.phase = "stop" /\ new # None
        /\ app' = new /\ new' = None /\ load' = None
        /\ UNCHANGED <<api, config, store>>
    BY <1>0, <1>3 DEF Stop, Loading, Rest, NewThere
  <2>2. left' \in Nat
    <3>1. Trouble \/ UNCHANGED left
      BY <1>3 DEF Stop
    <3> QED  BY <3>1, TroubleType
  <2>3. late' \subseteq Requests
    <3>1. CASE app.call = None
      BY <1>3, <3>1 DEF Stop, Rest
    <3>2. CASE app.call # None
      <4>1. app.call \in Calls
        BY <3>2 DEF Instances, Apps
      <4> QED  BY <1>3, <4>1, RequestType DEF Stop, Rest
    <3> QED  BY <3>1, <3>2
  <2>4. IsABag(old') /\ \A c \in BagToSet(old') : c \in Apps /\ Gone(c)
    BY <1>3, OldAfterStop DEF Stop, Instances
  <2>5. Instances'
    BY <2>1, <2>4 DEF Instances, Fresh, Gone, Unused
  <2>6. Rest'
    BY <2>1, <2>2, <2>3 DEF Rest
  <2>7. NewThere' /\ NamesCurrent'
    BY <2>1 DEF NewThere, NamesCurrent
  <2> QED  BY <2>5, <2>6, <2>7
<1> QED  BY <1>1, <1>2, <1>3 DEF Caddy

LEMMA RefuseInd ==
    ASSUME IndInv, RefuseLoad
    PROVE  IndInv'
<1> USE DEF IndInv
<1>0. None \notin Apps /\ None \notin Loads
  BY NoneAssumption
<1>1. /\ load \in Loads /\ load # None /\ load.prev \in Configs
      /\ new' = None /\ load' = None /\ config' = load.prev
      /\ UNCHANGED <<api, store, late>>
      /\ app' = app \/ (load.asked /\ app' = Answered(app, FALSE))
  BY DEF RefuseLoad, Rest, Loads
<1>2. left' \in Nat
  BY TroubleType DEF RefuseLoad
<1>3. app' \in Apps /\ Fresh(app') /\ Named(app', load.prev)
  <2>1. CASE app' = app
    BY <1>1, <2>1 DEF Instances, NamesCurrent
  <2>2. CASE load.asked /\ app' = Answered(app, FALSE)
    <3>1. app.call # None
      BY <1>1, <2>2 DEF NewThere
    <3>2. app.run = "watching" /\ app.stopped = FALSE
      BY <3>1 DEF Instances, Fresh, Unused, Apps
    <3>3. /\ app' \in Apps /\ app'.run = "watching" /\ app'.stopped = FALSE
          /\ app'.https = app.https /\ app'.http = app.http
      BY <2>2, <3>1, <3>2, AnsweredType DEF Instances
    <3> QED  BY <1>1, <3>3 DEF Fresh, NamesCurrent, Named
  <2> QED  BY <1>1, <2>1, <2>2
<1>4. IsABag(old') /\ \A c \in BagToSet(old') : c \in Apps /\ Gone(c)
  <2>1. CASE load.phase = "stop"
    <3>1. new \in Apps /\ Fresh(new)
      BY <1>1, <2>1 DEF NewThere, Instances
    <3> QED  BY <2>1, <3>1, OldAfterStop DEF RefuseLoad
  <2>2. CASE load.phase # "stop"
    <3>1. old' = old (+) SetToBag({})
      BY <2>2 DEF RefuseLoad, EmptyBag
    <3> DEFINE P == {c \in Apps : Gone(c)}
    <3>2. IsABag(old) /\ BagToSet(old) \subseteq P /\ {} \in SUBSET P
      BY DEF Instances
    <3> HIDE DEF P
    <3>3. IsABag(old') /\ BagToSet(old') \subseteq P
      BY <3>1, <3>2, OldPlus
    <3> QED  BY <3>3 DEF P
  <2> QED  BY <2>1, <2>2
<1>5. Instances'
  BY <1>1, <1>3, <1>4 DEF Instances, Fresh, Gone, Unused
<1>6. Rest'
  BY <1>1, <1>2 DEF Rest
<1>7. NewThere' /\ NamesCurrent'
  BY <1>1, <1>3 DEF NewThere, NamesCurrent
<1> QED  BY <1>5, <1>6, <1>7

\* An instance that hears of a change is the same one.
LEMMA HeardType ==
    ASSUME NEW a \in Apps, Fresh(a), NEW e \in {"add", "delete"}
    PROVE  /\ Heard(a, e) \in Apps /\ Fresh(Heard(a, e))
           /\ Heard(a, e).https = a.https /\ Heard(a, e).http = a.http
           /\ Heard(a, e).call = a.call
           /\ a.run = "provisioned" => Heard(a, e) = a
<1>1. CASE a.run = "watching" /\ ~a.stopped
  <2>1. Append(a.queue, e) \in Seq({"add", "delete"})
    BY DEF Apps
  <2>2. Heard(a, e) = [a EXCEPT !.queue = Append(a.queue, e)]
    BY <1>1, NoneAssumption DEF Heard
  <2> QED  BY <1>1, <2>1, <2>2 DEF Apps, Fresh
<1>2. CASE ~(a.run = "watching" /\ ~a.stopped)
  BY <1>2 DEF Heard
<1> QED  BY <1>1, <1>2

LEMMA UsersInd ==
    ASSUME IndInv, Apply \/ Delete
    PROVE  IndInv'
<1>1. PICK e \in {"add", "delete"} : Deliver(e)
  BY DEF Apply, Delete
<1>2. /\ app' \in Apps /\ Fresh(app') /\ app'.call = app.call
      /\ app'.https = app.https /\ app'.http = app.http
  BY <1>1, HeardType DEF Deliver, IndInv, Instances
<1>3. CASE new = None
  <2>1. new' = None /\ old' = old
    BY <1>1, <1>3 DEF Deliver, Heard
  <2>2. Move
    BY <1>2, <1>3, <2>1
    DEF Move, IndInv, Instances, NamesCurrent, Named, Fresh, Gone, Unused
  <2> QED  BY <2>2, StayInd, TroubleType DEF Apply, Delete, IndInv, Rest
<1>4. CASE new # None
  <2>1. /\ new' \in Apps /\ Fresh(new') /\ new'.https = new.https
        /\ new'.http = new.http /\ old' = old
        /\ new.run = "provisioned" => new' = new
    BY <1>1, <1>4, HeardType DEF Deliver, IndInv, Instances
  <2>2. Move
    BY <1>2, <1>4, <2>1, NoneAssumption
    DEF Move, IndInv, Instances, NamesCurrent, Named, Fresh, Gone, Unused
  <2> QED  BY <2>2, StayInd, TroubleType DEF Apply, Delete, IndInv, Rest
<1> QED  BY <1>3, <1>4

LEMMA ReloadInd ==
    ASSUME IndInv, Reload \/ LateRequest
    PROVE  IndInv'
<1>1. CASE Reload
  <2>1. PICK https \in BOOLEAN, http \in BOOLEAN :
          BeginLoad(Pristine(https, http), FALSE)
    BY <1>1 DEF Reload
  <2>2. Pristine(https, http) \in Configs
    BY DEF Pristine, Configs
  <2>3. Move
    BY <1>1, NoMove DEF Reload
  <2> QED  BY <1>1, <2>1, <2>2, <2>3, BeginInd, TroubleType
           DEF Reload, IndInv, Rest
<1>2. CASE LateRequest
  <2>1. PICK q \in late :
          /\ late' = late \ {q}
          /\ \/ UNCHANGED <<config, load>>
             \/ BeginLoad(Effect(config, q), FALSE)
    BY <1>2 DEF LateRequest
  <2>2. Effect(config, q) \in Configs /\ late' \subseteq Requests
    BY <2>1, EffectType DEF IndInv, Rest
  <2>3. Move
    BY <1>2, NoMove DEF LateRequest
  <2>4. CASE UNCHANGED <<config, load>>
    BY <1>2, <2>2, <2>3, <2>4, StayInd DEF LateRequest, IndInv, Rest
  <2>5. CASE BeginLoad(Effect(config, q), FALSE)
    BY <1>2, <2>2, <2>3, <2>5, BeginInd DEF LateRequest, IndInv, Rest
  <2> QED  BY <2>1, <2>4, <2>5
<1> QED  BY <1>1, <1>2

\* Every step.
LEMMA StepInd == IndInv /\ [Next]_vars => IndInv'
<1> SUFFICES ASSUME IndInv, [Next]_vars PROVE IndInv'
  OBVIOUS
<1>1. CASE \E a \in ({app, new} \ {None}) \cup BagToSet(old) : Live(a)
  <2>1. PICK a \in ({app, new} \ {None}) \cup BagToSet(old) : Live(a)
    BY <1>1
  <2> QED  BY <2>1, RunInd, HandleInd DEF Live
<1>2. CASE UNCHANGED vars
  BY <1>2, NoMove, StayInd DEF vars, IndInv, Rest
<1> QED  BY <1>1, <1>2, CaddyInd, RefuseInd, UsersInd, ReloadInd
         DEF Next, Environment

\* An instance is at one of the steps of run and of its handlers, and there is a new
\* one only while Caddy's lock is held (app.go: Provision, Start, Stop).
THEOREM TypeCorrect == Spec => []TypeOK
<1>1. IndInv => TypeOK
  <2>1. ASSUME IndInv
        PROVE  /\ BagToSet(old) \subseteq Apps /\ IsABag(old)
               /\ new # None => load # None
    BY <2>1 DEF IndInv, Instances, NewThere
  <2>2. ASSUME IndInv
        PROVE  /\ api \in BOOLEAN /\ config \in Configs /\ load \in Loads \cup {None}
               /\ app \in Apps /\ new \in Apps \cup {None}
               /\ store \in BOOLEAN /\ late \subseteq Requests /\ left \in Nat
    BY <2>2 DEF IndInv, Instances, Rest
  <2>3. QED
    BY <2>1, <2>2 DEF TypeOK
<1> QED  BY <1>1, InitInd, StepInd, PTL DEF Spec

\* Whenever an instance asks for a route of a server, that is a server of the
\* configuration it runs in (app.go:207, app.go:289), in the middle of a load
\* as well.
THEOREM NamesCorrect == Spec => []NamesCurrent
<1>1. IndInv => NamesCurrent
  BY DEF IndInv
<1> QED  BY <1>1, InitInd, StepInd, PTL DEF Spec

\* A secret watcher that Stop has missed, because tlsManager was not assigned
\* yet (app.go:333, app.go:381), has no certificate to push.
THEOREM StrayCorrect == Spec => []StrayWatcherIdle
<1>1. IndInv => StrayWatcherIdle
  BY DEF IndInv, Instances, Gone, Unused, StrayWatcherIdle
<1> QED  BY <1>1, InitInd, StepInd, PTL DEF Spec
=============================================================================
