-------------------------- MODULE TLSPolicyProofs --------------------------
(***************************************************************************)
(* Proofs about TLSPolicy, for every set of Ingresses and policies and     *)
(* every bound.  PolicyInv lacks one thing to be inductive: that Sync is   *)
(* only at work for an Ingress that asks for a policy.                     *)
(***************************************************************************)
EXTENDS TLSPolicy, FiniteSetTheorems, TLAPS

Asking == pc \in {"find", "post", "put", "guess"} => job.ing \in Policies

IndInv == PolicyInv /\ Asking

Limits == [changes: Nat, faults: Nat, reloads: Nat]

\* The initial states.
LEMMA InitInd == Init => IndInv
<1> SUFFICES ASSUME Init PROVE IndInv
  OBVIOUS
<1>1. left \in Limits
  BY LimitsAssumption DEF Init, Limits
<1>2. TypeOK
  BY <1>1 DEF Init, TypeOK, Limits, Steps
<1> QED  BY <1>2 DEF Init, IndInv, PolicyInv, ChecksHold, Asking

\* The informer lists Ingresses of the cluster.
LEMMA ListingsType ==
    ASSUME TypeOK
    PROVE  Listings \subseteq Seq(Events)
<1>1. IsFiniteSet(Present) /\ Cardinality(Present) \in Nat
  <2>1. Present \subseteq Keys
    BY DEF Present
  <2> QED  BY <2>1, PoliciesAssumption, FS_Subset, FS_CardinalityType
<1> DEFINE n == Cardinality(Present)
<1> SUFFICES ASSUME NEW q \in Listings PROVE q \in Seq(Events)
  OBVIOUS
<1>2. PICK f \in [1..n -> Present] :
         q = [i \in 1..n |-> [key |-> f[i], ing |-> ingress[f[i]], deleted |-> FALSE]]
  BY DEF Listings, Bijection, Injection, Surjection
<1>3. ASSUME NEW i \in 1..n
      PROVE  [key |-> f[i], ing |-> ingress[f[i]], deleted |-> FALSE] \in Events
  <2>1. f[i] \in Present
    OBVIOUS
  <2>2. f[i] \in Keys /\ ingress[f[i]] \in Ingresses
    BY <2>1 DEF Present, TypeOK
  <2> QED  BY <2>2 DEF Events
<1>4. q \in [1..n -> Events]
  BY <1>2, <1>3
<1> QED  BY <1>1, <1>4

\* What the handler asks of Caddy is a request.
LEMMA RequestType ==
    ASSUME IndInv, pc \in Changing
    PROVE  /\ Request \in Requests
           /\ Request.key = job.key /\ job.key \in Keys
BY DEF IndInv, PolicyInv, Asking, TypeOK, Request, Requests, Events, Steps, Changing

\* So is what it leaves behind.
LEMMA CancelledType ==
    ASSUME IndInv
    PROVE  Cancelled \subseteq Requests
BY RequestType DEF Cancelled

\* A new instance has asked nothing and owns nothing.
LEMMA RestartInd ==
    ASSUME IndInv, Restart, ingress' \in [Keys -> Ingresses \cup {None}],
           policy' \in [Keys -> Policies \cup {None}], routes' \subseteq Keys,
           late' \subseteq Requests, owed' \subseteq Keys, left' \in Limits
    PROVE  IndInv'
<1>1. TypeOK'
  BY DEF Restart, TypeOK, Limits, Steps
<1> QED  BY <1>1 DEF Restart, IndInv, PolicyInv, ChecksHold, Asking

\* A request changes one policy.
LEMMA ApplyType ==
    ASSUME TypeOK, NEW q \in Requests, Apply(q)
    PROVE  policy' \in [Keys -> Policies \cup {None}]
BY DEF TypeOK, Apply, Requests

\* The informer's event is queued once the informer has listed.
LEMMA NotifyType ==
    ASSUME TypeOK, NEW e \in Events, Notify(e)
    PROVE  queue' \in Seq(Events)
<1>1. CASE pc = "list"
  BY <1>1 DEF Notify, TypeOK
<1>2. CASE pc # "list"
  <2>1. queue' = Append(queue, e) /\ queue \in Seq(Events)
    BY <1>2 DEF Notify, TypeOK
  <2> QED  BY <2>1
<1> QED  BY <1>1, <1>2

\* A change of the cluster uses up one of the changes.
LEMMA ChangeType ==
    ASSUME left \in Limits, Change
    PROVE  left' \in Limits
BY DEF Change, Limits

\* Every step.
LEMMA StepInd == IndInv /\ [Next]_vars => IndInv'
<1> SUFFICES ASSUME IndInv, [Next]_vars PROVE IndInv'
  OBVIOUS
<1> USE DEF IndInv, PolicyInv
<1>0. left \in Limits
  BY DEF TypeOK, Limits
<1>1. CASE List
  BY <1>1, ListingsType DEF List, TypeOK, Steps, ChecksHold, Asking
<1>2. CASE Resync
  BY <1>2, ListingsType DEF Resync, TypeOK, ChecksHold, Asking
<1>3. CASE BeginAdd \/ BeginDelete
  <2>0. Head(queue) \in Events /\ Tail(queue) \in Seq(Events)
    BY <1>3 DEF BeginAdd, BeginDelete, TypeOK
  <2>1. /\ pc = "idle" /\ queue' \in Seq(Events) /\ job' \in Events
        /\ pc' \in {"find", "route", "findGone", "unroute"}
        /\ pc' = "find" => job'.ing \in Policies
        /\ UNCHANGED <<ingress, policy, routes, owned, late, owed, left>>
    <3>1. CASE BeginAdd
      BY <2>0, <3>1 DEF BeginAdd
    <3>2. CASE BeginDelete
      BY <2>0, <3>2 DEF BeginDelete
    <3> QED  BY <1>3, <3>1, <3>2
  <2> QED  BY <2>1 DEF TypeOK, Steps, ChecksHold, Asking
<1>4. CASE Find \/ FindGone
  BY <1>4 DEF Find, FindGone, GoTo, TypeOK, Steps, ChecksHold, Asking
<1>5. CASE Write \/ Delete
  <2>1. /\ Apply(Request) /\ Restart /\ pc \in Changing
        /\ UNCHANGED <<ingress, routes, late, owed, left>>
    BY <1>5 DEF Write, Delete, Land, Changing
  <2>2. policy' \in [Keys -> Policies \cup {None}]
    BY <2>1, RequestType, ApplyType
  <2> QED  BY <1>0, <2>1, <2>2, RestartInd DEF TypeOK
<1>6. CASE WriteRefused
  BY <1>6 DEF WriteRefused, GoTo, TypeOK, Steps, ChecksHold, Asking
<1>7. CASE Route
  <2>1. job \in Events /\ job.key \in Keys
    BY <1>7 DEF Route, TypeOK, Steps, Events
  <2>2. CASE job.key \in routes
    BY <1>7, <2>1, <2>2 DEF Route, Idle, TypeOK, Steps, ChecksHold, Asking
  <2>3. CASE job.key \notin routes
    BY <1>0, <1>7, <2>1, <2>3, RestartInd DEF Route, TypeOK
  <2> QED  BY <2>2, <2>3
<1>8. CASE Unroute
  <2>1. CASE job.key \in owned \cap routes
    BY <1>0, <1>8, <2>1, RestartInd DEF Unroute, TypeOK
  <2>2. CASE job.key \notin owned \cap routes
    BY <1>8, <2>2 DEF Unroute, Idle, TypeOK, Steps, ChecksHold, Asking
  <2> QED  BY <2>1, <2>2
<1>9. CASE Fails \/ FindUnclear
  <2>1. left' \in Limits
    BY <1>0, <1>9 DEF Fails, FindUnclear, Limits
  <2>2. /\ pc \in Steps /\ job' = job
        /\ \/ pc' \in {"unroute", "route"}
           \/ pc = "find" /\ pc' = "guess"
    BY <1>9 DEF Fails, FindUnclear, GoTo, Steps, Changing
  <2> QED  BY <1>9, <2>1, <2>2
           DEF Fails, FindUnclear, TypeOK, Limits, Steps, ChecksHold, Asking
<1>10. CASE ApplyIngress
  <2>1. PICK k \in Keys, i \in Ingresses :
           /\ ingress' = [ingress EXCEPT ![k] = i]
           /\ Notify([key |-> k, ing |-> i, deleted |-> FALSE])
    BY <1>10 DEF ApplyIngress
  <2>2. PICK e \in Events : Notify(e)
    BY <2>1, [key |-> k, ing |-> i, deleted |-> FALSE] \in Events DEF Events
  <2>3. queue' \in Seq(Events)
    BY <2>2, NotifyType
  <2>4. left' \in Limits
    BY <1>0, <1>10, ChangeType DEF ApplyIngress
  <2>5. ingress' \in [Keys -> Ingresses \cup {None}]
    BY <2>1 DEF TypeOK
  <2> QED  BY <1>10, <2>3, <2>4, <2>5 DEF ApplyIngress, TypeOK, Limits, ChecksHold, Asking
<1>11. CASE DeleteIngress
  <2>1. PICK k \in Present :
           /\ ingress' = [ingress EXCEPT ![k] = None]
           /\ Notify([key |-> k, ing |-> ingress[k], deleted |-> TRUE])
           /\ owed' \in {{k}, {}}
    BY <1>11 DEF DeleteIngress
  <2>2. k \in Keys /\ [key |-> k, ing |-> ingress[k], deleted |-> TRUE] \in Events
    BY DEF Events, Present, TypeOK
  <2>3. queue' \in Seq(Events)
    <3>1. PICK e \in Events : Notify(e)
      BY <2>1, <2>2
    <3> QED  BY <3>1, NotifyType
  <2>4. left' \in Limits
    BY <1>0, <1>11, ChangeType DEF DeleteIngress
  <2>5. ingress' \in [Keys -> Ingresses \cup {None}] /\ owed' \subseteq Keys
    BY <2>1, <2>2 DEF TypeOK
  <2> QED  BY <1>11, <2>3, <2>4, <2>5 DEF DeleteIngress, TypeOK, Limits, ChecksHold, Asking
<1>12. CASE OtherReload
  <2>1. left' \in Limits /\ late' \subseteq Requests
    BY <1>0, <1>12, CancelledType DEF OtherReload, Limits, TypeOK
  <2>2. policy' \in [Keys -> Policies \cup {None}] /\ routes' \subseteq Keys
    BY <1>12 DEF OtherReload, TypeOK
  <2> QED  BY <1>12, <2>1, <2>2, RestartInd DEF OtherReload, TypeOK
<1>13. CASE LateRequest
  <2>1. PICK q \in late :
           /\ late' = (late \ {q}) \cup (IF Accepted(q) THEN Cancelled ELSE {})
           /\ IF Accepted(q)
              THEN Apply(q) /\ Restart
              ELSE UNCHANGED <<policy, instance>>
    BY <1>13 DEF LateRequest
  <2>2. q \in Requests /\ late' \subseteq Requests
    BY <2>1, CancelledType DEF TypeOK
  <2>3. CASE Apply(q) /\ Restart
    BY <1>0, <1>13, <2>2, <2>3, ApplyType, RestartInd DEF LateRequest, TypeOK
  <2>4. CASE UNCHANGED <<policy, instance>>
    BY <1>13, <2>2, <2>4 DEF LateRequest, instance, TypeOK, ChecksHold, Asking
  <2> QED  BY <2>1, <2>3, <2>4
<1>14. CASE UNCHANGED vars
  BY <1>14 DEF vars, instance, TypeOK, ChecksHold, Asking
<1> QED  BY <1>1, <1>2, <1>3, <1>4, <1>5, <1>6, <1>7, <1>8, <1>9, <1>10, <1>11,
            <1>12, <1>13, <1>14 DEF Next, Handler

\* What upsertTLSPolicy and deleteTLSPolicy have found out about the @id
\* (admin.go:217, admin.go:234) still holds when the request that depends on it
\* is made, and the routes an instance knows of are there.
THEOREM PolicyCorrect == Spec => []PolicyInv
<1>1. IndInv => PolicyInv
  BY DEF IndInv
<1> QED  BY <1>1, InitInd, StepInd, PTL DEF Spec
=============================================================================
