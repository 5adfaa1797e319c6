----------------------- MODULE ConfigReloaderProofs -----------------------
(***************************************************************************)
(* Proofs about ConfigReloader, for every set of contents and every bound. *)
(* ReloaderInv is inductive as it stands: QueueCurrent says of an instance *)
(* with queued events what HashCurrent says of one without.                *)
(***************************************************************************)
EXTENDS ConfigReloader, TLAPS

\* The initial states.
LEMMA InitReloader == Init => ReloaderInv
BY ContentsAssumption, LimitsAssumption
DEF Init, ReloaderInv, TypeOK, QueueCurrent, HashCurrent, Events

\* A new instance has nothing queued and no hash.
LEMMA RestartReloader ==
    ASSUME ReloaderInv, Restart, cm' = cm,
           running' \in Contents \ Invalid, late' \subseteq Contents,
           owed' \in Contents \cup {None},
           left' \in [changes: Nat, faults: Nat, reloads: Nat, late: Nat]
    PROVE  ReloaderInv'
BY ContentsAssumption
DEF Restart, ReloaderInv, TypeOK, QueueCurrent, HashCurrent

\* Loads left behind are contents.
LEMMA LeftoverType ==
    ASSUME TypeOK
    PROVE  /\ Unanswered \subseteq Contents
           /\ \A n \in 0..1 : Dangling(n) \subseteq Contents
<1>1. Unanswered \subseteq Contents
  BY DEF TypeOK, Unanswered
<1>2. ASSUME NEW n \in 0..1, queue # <<>>, Reloads(Head(queue), lastHash)
      PROVE  Head(queue).content \in Contents
  <2>1. Head(queue) \in Events
    BY <1>2 DEF TypeOK
  <2> QED  BY <1>2, <2>1 DEF Events, Reloads
<1>3. \A n \in 0..1 : Dangling(n) \subseteq Contents
  BY <1>2 DEF Dangling
<1> QED  BY <1>1, <1>3

\* The bound on loads left behind is kept.
LEMMA HandedType ==
    ASSUME TypeOK, NEW n \in Handed
    PROVE  /\ n \in 0..1
           /\ left.late - n \in Nat
BY DEF TypeOK, Handed

\* The event after which nothing is queued is the last one.
LEMMA LastEvent ==
    ASSUME NEW q \in Seq(Events), q # <<>>, Tail(q) = <<>>
    PROVE  Len(q) = 1 /\ Head(q) = q[Len(q)]
<1>1. Len(Tail(q)) = Len(q) - 1 /\ Len(q) \in Nat
  OBVIOUS
<1>2. Len(<< >>) = 0
  OBVIOUS
<1>3. Len(q) = 1
  BY <1>1, <1>2
<1> QED  BY <1>3

\* Every step.
LEMMA ReloaderStep == ReloaderInv /\ [Next]_vars => ReloaderInv'
<1> SUFFICES ASSUME ReloaderInv, [Next]_vars
             PROVE  ReloaderInv'
  OBVIOUS
<1> USE ContentsAssumption DEF ReloaderInv
<1>1. CASE Sync
  <2>1. TypeOK'
    <3>1. queue' \in Seq(Events)
      <4>1. CASE cm = Absent
        BY <1>1, <4>1 DEF Sync
      <4>2. CASE cm # Absent
        <5>1. [update |-> FALSE, content |-> cm] \in Events
          BY <4>2 DEF TypeOK, Events
        <5> QED  BY <1>1, <4>2, <5>1 DEF Sync
      <4> QED  BY <4>1, <4>2
    <3> QED  BY <1>1, <3>1 DEF Sync, TypeOK
  <2>2. QueueCurrent' /\ HashCurrent'
    BY <1>1 DEF Sync, QueueCurrent, HashCurrent, TypeOK
  <2> QED  BY <2>1, <2>2
<1>2. CASE Resync
  <2>1. TypeOK'
    BY <1>2 DEF Resync, TypeOK, Events
  <2>2. QueueCurrent' /\ HashCurrent'
    BY <1>2 DEF Resync, QueueCurrent, HashCurrent, TypeOK
  <2> QED  BY <2>1, <2>2
<1>3. CASE Handle
  <2>1. /\ queue \in Seq(Events)
        /\ queue # <<>>
        /\ Head(queue) \in Events
        /\ queue' = Tail(queue)
        /\ queue' \in Seq(Events)
    BY <1>3 DEF Handle, TypeOK
  <2>2. TypeOK'
    BY <1>3, <2>1 DEF Handle, TypeOK, Events, Reloads
  <2>3. QueueCurrent'
    <3> SUFFICES ASSUME queue' # <<>>, cm # Absent
                 PROVE  queue'[Len(queue')].content = cm
      BY <1>3 DEF Handle, QueueCurrent
    <3>1. Len(queue') = Len(queue) - 1 /\ Len(queue') \in Nat \ {0}
      BY <2>1
    <3>2. queue'[Len(queue')] = queue[Len(queue)]
      BY <2>1, <3>1
    <3> QED  BY <1>3, <2>1, <3>2 DEF Handle, QueueCurrent
  <2>4. HashCurrent'
    <3> SUFFICES ASSUME queue' = <<>>, cm \in Contents
                 PROVE  lastHash' = cm
      BY <1>3 DEF Handle, HashCurrent
    <3>1. Len(queue) = 1 /\ Head(queue) = queue[Len(queue)]
      BY <2>1, LastEvent
    <3>2. Head(queue).content = cm
      BY <1>3, <2>1, <3>1 DEF Handle, QueueCurrent
    <3> QED  BY <1>3, <3>2 DEF Handle
  <2> QED  BY <2>2, <2>3, <2>4
<1>4. CASE Load
  <2>1. CASE Restart
    <3>1. PICK n \in Handed :
             /\ late' = late \cup Dangling(n)
             /\ left' = [left EXCEPT !.late = @ - n]
      BY <1>4, <2>1 DEF Load, Restart, Answered
    <3>2. /\ late' \subseteq Contents
          /\ left' \in [changes: Nat, faults: Nat, reloads: Nat, late: Nat]
      BY <3>1, LeftoverType, HandedType DEF TypeOK
    <3> QED  BY <1>4, <2>1, <3>2, RestartReloader DEF Load, TypeOK
  <2>2. CASE running = posting /\ Answered /\ UNCHANGED <<late, left>>
    BY <1>4, <2>2 DEF Load, Answered, TypeOK, QueueCurrent, HashCurrent
  <2> QED  BY <1>4, <2>1, <2>2 DEF Load
<1>5. CASE LoadRejected
  BY <1>5 DEF LoadRejected, Answered, TypeOK, QueueCurrent, HashCurrent
<1>6. CASE LoadFails
  <2>1. /\ late' \subseteq Contents
        /\ left' \in [changes: Nat, faults: Nat, reloads: Nat, late: Nat]
    <3>1. posting \in Contents
      BY <1>6 DEF LoadFails, TypeOK
    <3>2. CASE late' = late /\ left' = [left EXCEPT !.faults = @ - 1]
      BY <1>6, <3>2 DEF LoadFails, TypeOK
    <3>3. CASE /\ left.late > 0
               /\ late' = late \cup {posting}
               /\ left' = [left EXCEPT !.faults = @ - 1, !.late = @ - 1]
      <4>1. late' \subseteq Contents
        BY <3>1, <3>3 DEF TypeOK
      <4>2. left.faults - 1 \in Nat /\ left.late - 1 \in Nat
        BY <1>6, <3>3 DEF LoadFails, TypeOK
      <4> QED  BY <3>3, <4>1, <4>2 DEF TypeOK
    <3> QED  BY <1>6, <3>2, <3>3 DEF LoadFails
  <2> QED  BY <1>6, <2>1 DEF LoadFails, Answered, TypeOK, QueueCurrent,
                             HashCurrent
<1>7. CASE LateLoad
  <2>1. PICK c \in late :
           \/ /\ c \notin Invalid
              /\ running' = c
              /\ late' = (late \ {c}) \cup Unanswered
              /\ Restart
           \/ /\ late' = late \ {c}
              /\ UNCHANGED <<running, instance>>
    BY <1>7 DEF LateLoad
  <2>2. CASE running' = c /\ Restart /\ c \notin Invalid
                /\ late' = (late \ {c}) \cup Unanswered
    BY <1>7, <2>2, RestartReloader, LeftoverType DEF LateLoad, TypeOK
  <2>3. CASE late' = late \ {c} /\ UNCHANGED <<running, instance>>
    BY <1>7, <2>3 DEF LateLoad, instance, TypeOK, QueueCurrent, HashCurrent
  <2> QED  BY <2>1, <2>2, <2>3
<1>8. CASE Publish
  <2>1. PICK c \in (Contents \cup {NoKey}) \ {cm} :
           /\ cm' = c
           /\ queue' = IF Watching
                       THEN Append(queue, [update |-> cm # Absent, content |-> c])
                       ELSE queue
    BY <1>8 DEF Publish
  <2>2. TypeOK'
    <3>1. [update |-> cm # Absent, content |-> c] \in Events
      BY <2>1 DEF TypeOK, Events
    <3>2. queue' \in Seq(Events)
      BY <2>1, <3>1 DEF TypeOK
    <3>3. owed' \in Contents \cup {None}
      BY <1>8 DEF Publish
    <3> QED  BY <1>8, <2>1, <3>2, <3>3 DEF Publish, TypeOK
  <2>3. QueueCurrent' /\ HashCurrent'
    <3>1. CASE Watching
      <4>1. /\ queue' = Append(queue, [update |-> cm # Absent, content |-> c])
            /\ queue' # <<>>
            /\ queue'[Len(queue')] = [update |-> cm # Absent, content |-> c]
        BY <2>1, <3>1 DEF TypeOK
      <4> QED  BY <2>1, <4>1 DEF QueueCurrent, HashCurrent
    <3>2. CASE ~Watching
      BY <1>8, <3>2 DEF Publish, Watching, TypeOK, QueueCurrent, HashCurrent
    <3> QED  BY <3>1, <3>2
  <2> QED  BY <2>2, <2>3
<1>9. CASE Withdraw
  <2>1. TypeOK'
    BY <1>9 DEF Withdraw, instance, TypeOK
  <2> QED  BY <1>9, <2>1 DEF Withdraw, QueueCurrent, HashCurrent
<1>10. CASE OtherReload
  <2>1. PICK n \in Handed :
           /\ late' = late \cup Unanswered \cup Dangling(n)
           /\ left' = [left EXCEPT !.reloads = @ - 1, !.late = @ - n]
    BY <1>10 DEF OtherReload
  <2>2. late' \subseteq Contents
    BY <2>1, LeftoverType, HandedType DEF TypeOK
  <2>3. left' \in [changes: Nat, faults: Nat, reloads: Nat, late: Nat]
    <3>1. left.reloads - 1 \in Nat /\ left.late - n \in Nat
      BY <1>10, HandedType DEF OtherReload, TypeOK
    <3> QED  BY <2>1, <3>1 DEF TypeOK
  <2> QED  BY <1>10, <2>2, <2>3, RestartReloader DEF OtherReload, TypeOK
<1>11. CASE Crash
  BY <1>11, RestartReloader DEF Crash, TypeOK
<1>12. CASE UNCHANGED vars
  BY <1>12 DEF vars, instance, TypeOK, QueueCurrent, HashCurrent
<1> QED  BY <1>1, <1>2, <1>3, <1>4, <1>5, <1>6, <1>7, <1>8, <1>9, <1>10, <1>11,
            <1>12 DEF Next, Reloader

\* An instance with nothing left to handle compares the next change with the
\* ConfigMap as it is (reloader.go:156-160), through changes, resyncs, failed
\* loads and restarts.
THEOREM HashCorrect == Spec => []ReloaderInv
BY InitReloader, ReloaderStep, PTL DEF Spec
=============================================================================
