--------------------------- MODULE RequestsProofs ---------------------------
(***************************************************************************)
(* The properties of Requests hold for every Ingress with any annotations, *)
(* ConfigMaps and Secrets, and for every request, whatever the address     *)
(* ranges, the width of the integers and the names are.                    *)
(***************************************************************************)
EXTENDS Requests, FiniteSetTheorems, SequenceTheorems, TLAPS

-----------------------------------------------------------------------------
(* Sequences *)

IsSeq(s) == s \in Seq(Elems(s))

\* A sequence is one of its elements.
LEMMA SeqIsSeq == ASSUME NEW S, NEW s \in Seq(S) PROVE IsSeq(s)
<1>1. s \in [1..Len(s) -> Elems(s)]
  BY DEF Elems
<1>2. QED
  BY <1>1 DEF IsSeq

\* What a concatenation is.
LEMMA Concat ==
    ASSUME NEW s, NEW t, IsSeq(s), IsSeq(t)
    PROVE  /\ IsSeq(s \o t)
           /\ Len(s \o t) = Len(s) + Len(t)
           /\ \A i \in 1..Len(s) : (s \o t)[i] = s[i]
           /\ \A i \in 1..Len(t) : (s \o t)[Len(s) + i] = t[i]
           /\ Elems(s \o t) = Elems(s) \cup Elems(t)
<1> DEFINE S == Elems(s) \cup Elems(t)
<1>1. s \in Seq(S) /\ t \in Seq(S)
  BY DEF IsSeq
<1> HIDE DEF S
<1>2. s \o t \in Seq(S)
  BY <1>1
<1>3. /\ Len(s \o t) = Len(s) + Len(t)
      /\ \A i \in 1..Len(s) : (s \o t)[i] = s[i]
      /\ \A i \in 1..Len(t) : (s \o t)[Len(s) + i] = t[i]
  BY <1>1
<1>4. \A i \in DOMAIN (s \o t) : i \in 1..Len(s) \/ \E j \in 1..Len(t) : i = Len(s) + j
  <2> TAKE i \in DOMAIN (s \o t)
  <2>1. i \in 1..Len(s) + Len(t) /\ Len(s) \in Nat /\ Len(t) \in Nat
    BY <1>1, <1>2, <1>3
  <2>2. i \notin 1..Len(s) => i - Len(s) \in 1..Len(t) /\ i = Len(s) + (i - Len(s))
    BY <2>1
  <2>3. QED
    BY <2>2
<1>5. Elems(s \o t) \subseteq Elems(s) \cup Elems(t)
  BY <1>1, <1>3, <1>4 DEF Elems
<1>6. Elems(s) \subseteq Elems(s \o t)
  BY <1>1, <1>2, <1>3 DEF Elems
<1>7. Elems(t) \subseteq Elems(s \o t)
  <2>1. \A i \in DOMAIN t : Len(s) + i \in DOMAIN (s \o t)
    BY <1>1, <1>2, <1>3
  <2>2. QED
    BY <1>1, <1>3, <2>1 DEF Elems
<1>8. QED
  BY <1>2, <1>3, <1>5, <1>6, <1>7, SeqIsSeq

\* A sequence of one element.
LEMMA Single ==
    ASSUME NEW x
    PROVE  IsSeq(<<x>>) /\ Len(<<x>>) = 1 /\ <<x>>[1] = x /\ Elems(<<x>>) = {x}
<1>1. <<x>> \in Seq({x}) /\ DOMAIN <<x>> = 1..1 /\ <<x>>[1] = x
  OBVIOUS
<1>2. Elems(<<x>>) = {x}
  BY <1>1 DEF Elems
<1>3. QED
  BY <1>1, <1>2, SeqIsSeq

\* A sequence of two elements.
LEMMA Pair == ASSUME NEW x, NEW y PROVE <<x, y>> = <<x>> \o <<y>>
<1> DEFINE c == <<x>> \o <<y>>
           d == <<x, y>>
<1>1. /\ IsSeq(<<x>>) /\ Len(<<x>>) = 1 /\ <<x>>[1] = x
      /\ IsSeq(<<y>>) /\ Len(<<y>>) = 1 /\ <<y>>[1] = y
  BY Single
<1>2. /\ IsSeq(c) /\ Len(c) = Len(<<x>>) + Len(<<y>>)
      /\ \A i \in 1..Len(<<x>>) : c[i] = <<x>>[i]
      /\ \A i \in 1..Len(<<y>>) : c[Len(<<x>>) + i] = <<y>>[i]
  BY <1>1, Concat
<1>3. DOMAIN d = 1..2 /\ d[1] = x /\ d[2] = y /\ d = [i \in 1..2 |-> d[i]]
  OBVIOUS
<1> HIDE DEF c, d
<1>4. 1 \in 1..Len(<<x>>) /\ 1 \in 1..Len(<<y>>) /\ Len(<<x>>) + 1 = 2
  BY <1>1
<1>5. Len(c) = 2 /\ c[1] = x /\ c[2] = y
  BY <1>1, <1>2, <1>4
<1>6. c = [i \in 1..2 |-> c[i]]
  BY <1>2, <1>5 DEF IsSeq
<1>7. \A i \in 1..2 : i = 1 \/ i = 2
  OBVIOUS
<1>8. \A i \in 1..2 : d[i] = c[i]
  BY <1>3, <1>5, <1>7
<1>9. c = d
  BY <1>3, <1>6, <1>8
<1>10. QED
  BY <1>9 DEF c, d

\* The empty sequence.
LEMMA Empty == IsSeq(<<>>) /\ Len(<<>>) = 0 /\ Elems(<<>>) = {}
<1>1. <<>> \in Seq({}) /\ DOMAIN <<>> = {} /\ Len(<<>>) = 0
  OBVIOUS
<1>2. Elems(<<>>) = {}
  BY <1>1 DEF Elems
<1>3. QED
  BY <1>1, <1>2 DEF IsSeq

\* An element behind which others follow.
LEMMA Cons ==
    ASSUME NEW x, NEW s, IsSeq(s)
    PROVE  <<x>> \o s # <<>> /\ Head(<<x>> \o s) = x /\ Tail(<<x>> \o s) = s
<1>1. s \in Seq(Elems(s) \cup {x})
  BY DEF IsSeq
<1>2. QED
  BY <1>1

\* Keep picks exactly the elements of S, at increasing positions.
LEMMA KeepPositions ==
    ASSUME NEW s, IsSeq(s), NEW S
    PROVE  LET k == Keep(s, S)
           IN  /\ IsSeq(k)
               /\ \E f \in [1..Len(k) -> DOMAIN s] :
                     /\ \A n \in 1..Len(k) : k[n] = s[f[n]] /\ k[n] \in S
                     /\ \A m, n \in 1..Len(k) : m < n => f[m] < f[n]
                     /\ \A i \in DOMAIN s : s[i] \in S => \E n \in 1..Len(k) : f[n] = i
<1> DEFINE at == {i \in DOMAIN s : s[i] \in S}
           below(i) == {j \in at : j <= i}
           N == Cardinality(at)
           r == [i \in at |-> Cardinality(below(i))]
           f == [n \in 1..N |-> CHOOSE i \in at : Cardinality(below(i)) = n]
           k == Keep(s, S)
<1>1. DOMAIN s = 1..Len(s) /\ Len(s) \in Nat
  BY DEF IsSeq
<1>2. at \subseteq 1..Len(s) /\ at \subseteq Nat /\ IsFiniteSet(at) /\ N \in Nat
  <2>1. IsFiniteSet(1..Len(s)) /\ at \subseteq 1..Len(s)
    BY <1>1, FS_Interval
  <2>2. IsFiniteSet(at)
    BY <2>1, FS_Subset
  <2>3. N \in Nat
    BY <2>2, FS_CardinalityType
  <2>4. QED
    BY <2>1, <2>2, <2>3
<1>3. \A i \in at : r[i] = Cardinality(below(i))
  OBVIOUS
<1>4. \A i \in at : i \in below(i) /\ below(i) \in SUBSET at
  BY <1>2
<1>5. \A i, j \in at : i < j => /\ below(i) \in SUBSET below(j)
                               /\ j \in below(j) /\ j \notin below(i)
  BY <1>2
<1>6. k = [n \in 1..N |-> s[f[n]]]
  BY DEF Keep
<1>7. \A i \in at : i \in DOMAIN s /\ s[i] \in S
  OBVIOUS
<1>8. \A i \in DOMAIN s : s[i] \in S => i \in at
  OBVIOUS
<1>9. \A n \in 1..N : f[n] = CHOOSE i \in at : Cardinality(below(i)) = n
  OBVIOUS
<1>10. f = [n \in 1..N |-> f[n]] /\ r = [i \in at |-> r[i]]
  <2>1. f = [n \in 1..N |-> f[n]]
    BY SMTT(30)
  <2>2. r = [i \in at |-> r[i]]
    OBVIOUS
  <2>3. QED
    BY <2>1, <2>2
<1> HIDE DEF at, below, r, f
<1>11. \A i \in at : /\ IsFiniteSet(below(i)) /\ Cardinality(below(i)) <= N
                     /\ Cardinality(below(i)) \in Nat /\ Cardinality(below(i)) # 0
  <2> SUFFICES ASSUME NEW i \in at
               PROVE  /\ IsFiniteSet(below(i)) /\ Cardinality(below(i)) <= N
                      /\ Cardinality(below(i)) \in Nat /\ Cardinality(below(i)) # 0
    OBVIOUS
  <2>1. IsFiniteSet(below(i)) /\ Cardinality(below(i)) <= N
    BY <1>2, <1>4, FS_Subset
  <2>2. Cardinality(below(i)) \in Nat
    BY <2>1, FS_CardinalityType
  <2>3. Cardinality(below(i)) # 0
    BY <2>1, <1>4, FS_EmptySet
  <2>4. QED
    BY <2>1, <2>2, <2>3
<1>12. \A i \in at : r[i] \in 1..N
  <2> HIDE DEF N
  <2>1. \A i \in at : r[i] \in Nat /\ r[i] <= N /\ r[i] # 0
    BY <1>3, <1>11
  <2>2. QED
    BY <1>2, <2>1
<1>13. \A i, j \in at : i < j => r[i] < r[j]
  <2> SUFFICES ASSUME NEW i \in at, NEW j \in at, i < j PROVE r[i] < r[j]
    OBVIOUS
  <2>1. below(i) \in SUBSET below(j) /\ j \in below(j) /\ j \notin below(i)
    BY <1>5
  <2>2. Cardinality(below(i)) <= Cardinality(below(j))
        /\ (Cardinality(below(j)) = Cardinality(below(i)) => below(i) = below(j))
    BY <1>11, <2>1, FS_Subset
  <2>3. Cardinality(below(j)) # Cardinality(below(i))
    BY <2>1, <2>2
  <2>4. r[i] \in Nat /\ r[j] \in Nat /\ r[i] <= r[j] /\ r[i] # r[j]
    BY <1>3, <1>11, <2>2, <2>3
  <2>5. QED
    BY <2>4
<1> HIDE DEF N
<1>14. \A i, j \in at : r[i] = r[j] => i = j
  <2> SUFFICES ASSUME NEW i \in at, NEW j \in at, i # j PROVE r[i] # r[j]
    OBVIOUS
  <2>1. i \in Nat /\ j \in Nat /\ (i < j \/ j < i)
    BY <1>2
  <2>2. r[i] \in Nat /\ r[j] \in Nat
    BY <1>2, <1>12
  <2>3. QED
    BY <1>13, <2>1, <2>2
<1>15. \A n \in 1..N : \E i \in at : r[i] = n
  <2>1. r \in [at -> 1..N]
    BY <1>10, <1>12
  <2>2. r \in Injection(at, 1..N)
    BY <1>14, <2>1 DEF Injection, IsInjective
  <2>3. IsFiniteSet(1..N) /\ Cardinality(1..N) = N
    BY <1>2, FS_Interval
  <2>4. r \in Surjection(at, 1..N)
    BY <1>2, <2>2, <2>3, FS_Injection DEF N
  <2>5. QED
    BY <2>4 DEF Surjection
<1>16. \A n \in 1..N : f[n] \in at /\ r[f[n]] = n
  <2> SUFFICES ASSUME NEW n \in 1..N PROVE f[n] \in at /\ r[f[n]] = n
    OBVIOUS
  <2>1. \E i \in at : Cardinality(below(i)) = n
    BY <1>3, <1>15
  <2>2. f[n] \in at /\ Cardinality(below(f[n])) = n
    BY <1>9, <2>1
  <2>3. QED
    BY <1>3, <2>2
<1>17. \A m, n \in 1..N : m < n => f[m] < f[n]
  <2> SUFFICES ASSUME NEW m \in 1..N, NEW n \in 1..N, m < n PROVE f[m] < f[n]
    OBVIOUS
  <2>1. f[m] \in Nat /\ f[n] \in Nat /\ f[m] \in at /\ f[n] \in at
    BY <1>2, <1>16
  <2>2. r[f[m]] = m /\ r[f[n]] = n
    BY <1>16
  <2>3. f[n] < f[m] => n < m
    BY <1>13, <2>1, <2>2
  <2>4. f[n] # f[m]
    BY <1>2, <2>2
  <2>5. QED
    BY <1>2, <2>1, <2>3, <2>4
<1>18. \A i \in at : f[r[i]] = i
  BY <1>12, <1>14, <1>16
<1>19. k \in Seq(Elems(k)) /\ Len(k) = N
  <2>1. k \in [1..N -> Elems(k)]
    BY <1>6 DEF Elems
  <2> HIDE DEF k
  <2>2. QED
    BY <1>2, <2>1
<1>20. f \in [1..Len(k) -> DOMAIN s]
  BY <1>7, <1>10, <1>16, <1>19
<1>21. \A n \in 1..Len(k) : k[n] = s[f[n]] /\ k[n] \in S
  BY <1>6, <1>7, <1>16, <1>19
<1>22. \A i \in DOMAIN s : s[i] \in S => \E n \in 1..Len(k) : f[n] = i
  BY <1>8, <1>12, <1>18, <1>19
<1>23. QED
  BY <1>17, <1>19, <1>20, <1>21, <1>22 DEF IsSeq

\* What Keep keeps.
LEMMA KeepElems ==
    ASSUME NEW s, IsSeq(s), NEW S
    PROVE  /\ IsSeq(Keep(s, S))
           /\ Elems(Keep(s, S)) = {x \in Elems(s) : x \in S}
           /\ Keep(s, S) = <<>> <=> Elems(Keep(s, S)) = {}
<1> DEFINE k == Keep(s, S)
<1> HIDE DEF k
<1>1. PICK f \in [1..Len(k) -> DOMAIN s] :
         /\ \A n \in 1..Len(k) : k[n] = s[f[n]] /\ k[n] \in S
         /\ \A i \in DOMAIN s : s[i] \in S => \E n \in 1..Len(k) : f[n] = i
  BY KeepPositions DEF k
<1>2. IsSeq(k)
  BY KeepPositions DEF k
<1>3. DOMAIN k = 1..Len(k)
  BY <1>2 DEF IsSeq
<1>4. Elems(k) = {x \in Elems(s) : x \in S}
  BY <1>1, <1>3 DEF Elems
<1>5. k = <<>> <=> Elems(k) = {}
  <2>1. Len(k) \in Nat /\ (k = <<>> <=> Len(k) = 0)
    BY <1>2, EmptySeq DEF IsSeq
  <2>2. DOMAIN k = {} <=> Len(k) = 0
    BY <1>3, <2>1
  <2>3. DOMAIN k = {} <=> Elems(k) = {}
    BY DEF Elems
  <2>4. QED
    BY <2>1, <2>2, <2>3
<1>6. QED
  BY <1>2, <1>4, <1>5 DEF k

\* The positions of the elements of S and Q.
Wanted(s, S, Q) == {i \in DOMAIN s : s[i] \in S /\ s[i] \in Q}

\* The first of the kept elements that is in Q is the first of all.
LEMMA FirstKept ==
    ASSUME NEW s, IsSeq(s), NEW S, NEW Q, NEW n \in 1..Len(Keep(s, S)),
           Keep(s, S)[n] \in Q, \A m \in 1..n - 1 : Keep(s, S)[m] \notin Q
    PROVE  LET T == Wanted(s, S, Q)
           IN  T # {} /\ Keep(s, S)[n] = s[First(T)]
<1> DEFINE k == Keep(s, S)
           T == Wanted(s, S, Q)
<1>1. PICK f \in [1..Len(k) -> DOMAIN s] :
         /\ \A m \in 1..Len(k) : k[m] = s[f[m]] /\ k[m] \in S
         /\ \A l, m \in 1..Len(k) : l < m => f[l] < f[m]
         /\ \A i \in DOMAIN s : s[i] \in S => \E m \in 1..Len(k) : f[m] = i
  BY KeepPositions
<1>2. IsSeq(k)
  BY KeepPositions
<1>3. n \in 1..Len(k) /\ k[n] \in Q /\ \A m \in 1..n - 1 : k[m] \notin Q
  OBVIOUS
<1> HIDE DEF k
<1>4. Len(k) \in Nat /\ DOMAIN s = 1..Len(s) /\ Len(s) \in Nat
  BY <1>2 DEF IsSeq
<1>5. f[n] \in T
  BY <1>1, <1>3 DEF Wanted
<1>6. \A j \in T : f[n] <= j
  <2> SUFFICES ASSUME NEW j \in T PROVE f[n] <= j
    OBVIOUS
  <2>1. PICK m \in 1..Len(k) : f[m] = j
    BY <1>1 DEF Wanted
  <2>2. k[m] \in Q
    BY <1>1, <2>1 DEF Wanted
  <2>3. ~(m < n)
    BY <1>3, <1>4, <2>2
  <2>4. m = n \/ n < m
    BY <1>3, <1>4, <2>3
  <2>5. f[n] \in Nat /\ f[m] \in Nat
    <3>1. f[n] \in DOMAIN s /\ f[m] \in DOMAIN s
      BY <1>1, <1>3
    <3>2. QED
      BY <1>4, <3>1
  <2>6. QED
    BY <1>1, <1>3, <2>1, <2>4, <2>5
<1>7. T \subseteq Nat
  BY <1>4 DEF Wanted
<1> HIDE DEF T
<1>8. First(T) = f[n]
  <2>1. \A i \in T : (\A j \in T : i <= j) => i = f[n]
    <3> SUFFICES ASSUME NEW i \in T, \A j \in T : i <= j PROVE i = f[n]
      OBVIOUS
    <3>1. i <= f[n] /\ f[n] <= i /\ i \in Nat /\ f[n] \in Nat
      BY <1>5, <1>6, <1>7
    <3>2. QED
      BY <3>1
  <2>2. QED
    BY <1>5, <1>6, <2>1 DEF First
<1>9. QED
  BY <1>1, <1>3, <1>5, <1>8 DEF k, T

\* Whether there is one.
LEMMA NoneKept ==
    ASSUME NEW s, IsSeq(s), NEW S, NEW Q
    PROVE  Wanted(s, S, Q) = {} <=>
              \A m \in 1..Len(Keep(s, S)) : Keep(s, S)[m] \notin Q
<1> DEFINE k == Keep(s, S)
<1>1. PICK f \in [1..Len(k) -> DOMAIN s] :
         /\ \A m \in 1..Len(k) : k[m] = s[f[m]] /\ k[m] \in S
         /\ \A i \in DOMAIN s : s[i] \in S => \E m \in 1..Len(k) : f[m] = i
  BY KeepPositions
<1> HIDE DEF k
<1>2. QED
  <2>1. Wanted(s, S, Q) = {} <=> \A m \in 1..Len(k) : k[m] \notin Q
    BY <1>1 DEF Wanted
  <2>2. QED
    BY <2>1 DEF k

\* A conditional element.
LEMMA IfSeq ==
    ASSUME NEW c, NEW x
    PROVE  IsSeq(If(c, x)) /\ Elems(If(c, x)) = IF c THEN {x} ELSE {}
BY Single, Empty DEF If

\* One more element.
LEMMA AppendSeq ==
    ASSUME NEW s, IsSeq(s), NEW x
    PROVE  /\ IsSeq(Append(s, x))
           /\ Len(Append(s, x)) = Len(s) + 1
           /\ \A i \in 1..Len(s) : Append(s, x)[i] = s[i]
           /\ Append(s, x)[Len(s) + 1] = x
           /\ Elems(Append(s, x)) = Elems(s) \cup {x}
<1>1. s \in Seq(Elems(s) \cup {x}) /\ x \in Elems(s) \cup {x}
  BY DEF IsSeq
<1>2. Append(s, x) = s \o <<x>>
  BY <1>1
<1>3. QED
  BY <1>1, <1>2, Concat, Single

\* The rest of a sequence.
LEMMA TailSeq ==
    ASSUME NEW s, IsSeq(s), s # <<>>
    PROVE  /\ IsSeq(Tail(s)) /\ Len(s) \in Nat /\ Len(s) >= 1
           /\ Len(Tail(s)) = Len(s) - 1
           /\ \A i \in 1..Len(s) - 1 : Tail(s)[i] = s[i + 1]
           /\ Head(s) = s[1] /\ Head(s) \in Elems(s)
           /\ Elems(Tail(s)) \subseteq Elems(s)
<1> DEFINE S == Elems(s)
<1>1. s \in Seq(S)
  BY DEF IsSeq
<1>2. DOMAIN s = 1..Len(s) /\ \A i \in 1..Len(s) : s[i] \in S
  BY <1>1 DEF Elems
<1> HIDE DEF S
<1>3. Tail(s) \in Seq(S) /\ Len(s) \in Nat /\ Len(s) >= 1 /\ Len(Tail(s)) = Len(s) - 1
  BY <1>1
<1>4. Head(s) = s[1] /\ s[1] \in S
  BY <1>1, <1>2, <1>3
<1>5. \A i \in 1..Len(s) - 1 : Tail(s)[i] = s[i + 1]
  BY <1>1, <1>3
<1>6. Elems(Tail(s)) \subseteq S
  BY <1>3 DEF Elems
<1>7. QED
  BY <1>3, <1>4, <1>5, <1>6, SeqIsSeq DEF S

-----------------------------------------------------------------------------
(* Where a request is *)

\* What CasesAssumption says of the case.
CaseOK == /\ case \in CaseType
          /\ case.req.origin # "*"
          /\ "{http.request.header.Origin}" \notin Elems(case.ann.origins)

Cfg == ResolveAnnotations(Ann, case.objs)

OnServer == ServerRoutes(case)

\* What the code takes the request for: it differs from Requests' Concerned, which
\* says what the documentation has, in a rule without host when there are aliases.
TakenBy(rule) ==
    \/ \E h \in ({rule.host} \ {""}) \cup Aliases : HostMatches(h, Req.host)
    \/ rule.host = "" /\ Aliases = {}

Takers == {i \in DOMAIN case.ing.rules :
             TakenBy(case.ing.rules[i]) /\ Backed(case.ing.rules[i])}

TakenRule == case.ing.rules[First(Takers)]

Taken == Req.https = case.ing.tls /\ Takers # {} /\ ~Redirected

TakenPaths ==
    {i \in DOMAIN TakenRule.paths :
        TakenRule.paths[i].service # "" /\ Covers(TakenRule.paths[i], Req.path)}

OfRule == RuleRoutes(case.ing, TakenRule, case.sec, Cfg)

Chain(u) ==
    Checks(case.sec, Cfg, ~case.ing.tls)
    \o <<ReverseProxy(u, case.sec, Cfg, ~case.ing.tls)>>

\* With several origins in the list, the response echoes the one that asks.
Several == Cfg.cors # <<>> /\ Len(Cfg.cors[1].origins) > 1

Listed == \E p \in Elems(Cfg.cors[1].origins) : OriginMatches(p, Req.origin)

WithCORS(u) == <<CORSResponse(Cfg.cors[1], Several)>> \o Chain(u)

OriginRoutes(u) ==
    <<Route([Nil EXCEPT !.origin = Elems(Cfg.cors[1].origins)],
            BuildCoreHandlers(u, case.sec, Cfg, ~case.ing.tls, TRUE, TRUE), TRUE),
      Route(Nil,
            BuildCoreHandlers(u, case.sec, Cfg, ~case.ing.tls, FALSE, FALSE), TRUE)>>

PreflightHandlers ==
    <<CORSResponse(Cfg.cors[1], Len(Cfg.cors[1].origins) > 1), StaticResponse(204)>>

\* list starts with what s has from its n-th element on.
Follows(list, s, n) ==
    /\ n \in 1..Len(s) + 1
    /\ Len(s) - n + 1 <= Len(list)
    /\ \A i \in n..Len(s) : list[i - n + 1] = s[i]

\* The routes of s are being tried.
Trying(s, list, req) ==
    \E n \in 1..Len(s) + 1 :
       /\ Follows(list, s, n) /\ Len(list) = Len(s) - n + 1
       /\ \A i \in 1..n - 1 : ~Matches(s[i].match, req)

Untouched == cors = NoCORS /\ limit = 0 /\ passed = <<>>

Preflight == Req.method = "OPTIONS" /\ OriginAllowed

Accepted == Taken /\ Admitted /\ ~Preflight

AllRegular == \A i \in DOMAIN TakenRule.paths : Regular(TakenRule.paths[i])

\* u is the Service for the request.
Backend(u) ==
    AllRegular => TakenPaths # {} /\ u = TakenRule.paths[First(TakenPaths)].service

\* c is what corsResponseHandler makes of the CORS headers for this origin.
Right(c) ==
    /\ c.origin = IF ~Ann.enableCORS THEN ""
                  ELSE IF StarAlone THEN "*"
                  ELSE IF Len(NonBlank(Ann.origins)) = 1
                       THEN NonBlank(Ann.origins)[1]
                  ELSE IF OriginAllowed THEN Req.origin ELSE ""
    /\ c.creds <=> (Ann.allowCreds /\ c.origin \notin {"", "*"})
    /\ c.vary <=> c.origin \notin {"", "*"}

HasOrigin == cors.origin # ""

AtServer == Untouched /\ Trying(OnServer, agenda, Req)

AtRedirect == Untouched /\ ~Taken /\ Follows(agenda, <<StaticResponse(301)>>, 1)

AtRule == Untouched /\ Taken /\ agenda = <<Subroute(OfRule)>>

AtRoutes == Untouched /\ Taken /\ Trying(OfRule, agenda, Req)

AtGuard ==
    Untouched /\ Taken /\ ~Admitted /\ Follows(agenda, <<StaticResponse(403)>>, 1)

AtPreflight ==
    /\ Taken /\ Admitted /\ Preflight
    /\ limit = 0 /\ passed = <<>>
    /\ \E n \in 1..2 : Follows(agenda, PreflightHandlers, n) /\ (n = 2 => HasOrigin)

AtRedirection ==
    Untouched /\ Accepted /\ Follows(agenda, <<StaticResponse(RedirectStatus(Cfg))>>, 1)

AtChoice(u) ==
    /\ Untouched /\ Accepted /\ Backend(u) /\ Several
    /\ Follows(agenda, <<Subroute(OriginRoutes(u))>>, 1)

AtOrigins(u) ==
    /\ Untouched /\ Accepted /\ Backend(u) /\ Several
    /\ \E n \in 1..2 : Follows(agenda, OriginRoutes(u), n) /\ (n = 2 => ~Listed)

AtCORS(u) ==
    /\ Untouched /\ Accepted /\ Backend(u) /\ Cfg.cors # <<>> /\ (Several => Listed)
    /\ Follows(agenda, WithCORS(u), 1)

\* Everything in front of the n-th handler has let the request through.
AtCheck(u, n) ==
    /\ Accepted /\ Backend(u) /\ Right(cors)
    /\ n \in 1..Len(Chain(u)) /\ Follows(agenda, Chain(u), n)
    /\ IsSeq(passed) /\ Len(passed) = n - 1
    /\ \A i \in 1..n - 1 : passed[i] = Chain(u)[i].handler
    /\ limit = IF "request_body" \in Elems(passed) THEN Cfg.maxBodySize ELSE 0
    /\ "authentication" \in Elems(passed) =>
          \E l \in Bcrypt(case.objs.auth) : l.user = Req.user
    /\ "waf" \in Elems(passed) =>
          ~(/\ Req.attack
            /\ Blocks(WafHandler(WafMode(case.sec, Cfg), Cfg.wafDirectives).directives))

AtChecks(u) == \E n \in 1..Len(Chain(u)) : AtCheck(u, n)

Services == {p.service : p \in Elems(TakenRule.paths)}

Places ==
    \/ AtServer \/ AtRedirect \/ AtRule \/ AtRoutes \/ AtGuard \/ AtPreflight
    \/ AtRedirection
    \/ \E u \in Services : AtChoice(u) \/ AtOrigins(u) \/ AtCORS(u) \/ AtChecks(u)

\* The properties of Requests as the code has them, for every request that it takes.
GuardedTaken ==
    Taken =>
       /\ ~Admitted => /\ passed = <<>> /\ cors = NoCORS
                       /\ answer # None => Answered("static_response", 403)
       /\ Admitted /\ answer # None => ~Answered("static_response", 403)

PreflightedTaken ==
    (Taken /\ Admitted) =>
       /\ (Req.method = "OPTIONS" /\ OriginAllowed) =>
             /\ passed = <<>>
             /\ answer # None => Answered("static_response", 204)
       /\ (answer # None /\ Answered("static_response", 204)) =>
             Req.method = "OPTIONS" /\ OriginAllowed /\ cors.origin # ""

CORSAdded ==
    (answer # None /\ answer.by \notin {"none", "static_response"}) => Right(cors)

RoutedTaken ==
    /\ (answer # None /\ answer.by = "reverse_proxy") => Taken
    /\ (/\ answer # None /\ Taken /\ Admitted
        /\ \A i \in DOMAIN TakenRule.paths : Regular(TakenRule.paths[i])) =>
          /\ answer.by = "reverse_proxy" =>
                /\ TakenPaths # {}
                /\ answer.upstream = TakenRule.paths[First(TakenPaths)].service
          /\ answer.by = "none" => TakenPaths = {}

Safe == /\ GuardedTaken /\ PreflightedTaken /\ CORSAdded /\ Inspected /\ BodyLimited /\ RoutedTaken

-----------------------------------------------------------------------------
(* Walking through a sequence *)

\* list starts with s as it is, and with all of it.
LEMMA FollowsStart ==
    ASSUME NEW s, IsSeq(s), NEW t, IsSeq(t)
    PROVE  IsSeq(s \o t) /\ Follows(s \o t, s, 1) /\ Follows(s, s, 1)
<1>1. Len(s) \in Nat /\ Len(t) \in Nat
  BY DEF IsSeq
<1>2. QED
  BY <1>1, Concat DEF Follows

\* The head is the next one, and the tail starts with the others.
LEMMA FollowsNext ==
    ASSUME NEW list, IsSeq(list), NEW s, IsSeq(s), NEW n \in 1..Len(s),
           Follows(list, s, n)
    PROVE  /\ list # <<>> /\ Head(list) = s[n] /\ s[n] \in Elems(s)
           /\ IsSeq(Tail(list)) /\ Elems(Tail(list)) \subseteq Elems(list)
           /\ Follows(Tail(list), s, n + 1)
           /\ Len(Tail(list)) = Len(list) - 1
<1>1. Len(s) \in Nat /\ Len(list) \in Nat /\ DOMAIN s = 1..Len(s)
  BY DEF IsSeq
<1>2. /\ Len(s) - n + 1 <= Len(list)
      /\ \A i \in n..Len(s) : list[i - n + 1] = s[i]
  BY DEF Follows
<1>3. Len(list) >= 1 /\ list # <<>>
  BY <1>1, <1>2, EmptySeq
<1>4. /\ IsSeq(Tail(list)) /\ Len(Tail(list)) = Len(list) - 1
      /\ \A i \in 1..Len(list) - 1 : Tail(list)[i] = list[i + 1]
      /\ Head(list) = list[1] /\ Elems(Tail(list)) \subseteq Elems(list)
  BY <1>3, TailSeq
<1>5. n \in n..Len(s) /\ n - n + 1 = 1
  BY <1>1
<1>6. list[1] = s[n]
  BY <1>2, <1>5
<1>7. \A i \in n + 1..Len(s) : Tail(list)[i - (n + 1) + 1] = s[i]
  <2> SUFFICES ASSUME NEW i \in n + 1..Len(s)
               PROVE  Tail(list)[i - (n + 1) + 1] = s[i]
    OBVIOUS
  <2>1. i \in n..Len(s) /\ i - (n + 1) + 1 = i - n /\ i - n \in 1..Len(list) - 1
    BY <1>1, <1>2
  <2>2. list[i - n + 1] = s[i] /\ Tail(list)[i - n] = list[i - n + 1]
    BY <1>2, <1>4, <2>1
  <2>3. QED
    BY <2>1, <2>2
<1>8. QED
  BY <1>1, <1>2, <1>3, <1>4, <1>6, <1>7 DEF Follows, Elems

\* The only one.
LEMMA FollowsSingle ==
    ASSUME NEW list, IsSeq(list), NEW x, Follows(list, <<x>>, 1)
    PROVE  list # <<>> /\ Head(list) = x
BY Single, FollowsNext

\* No route of s is for req; or r is the first that is.
Passes(s, req) == \A i \in DOMAIN s : ~Matches(s[i].match, req)

Takes(s, r, req) ==
    \E n \in DOMAIN s : /\ s[n] = r /\ Matches(r.match, req)
                        /\ \A i \in 1..n - 1 : ~Matches(s[i].match, req)

\* Whether a single route is taken.
LEMMA TakesIf ==
    ASSUME NEW c, NEW x, NEW req
    PROVE  /\ Passes(If(c, x), req) <=> (c => ~Matches(x.match, req))
           /\ \A r : Takes(If(c, x), r, req) => c /\ r = x /\ Matches(x.match, req)
<1>1. DOMAIN <<x>> = {1} /\ <<x>>[1] = x /\ DOMAIN <<>> = {}
  OBVIOUS
<1>2. QED
  BY <1>1 DEF If, Passes, Takes

\* A route is taken out of the first part, or the first part is passed.
LEMMA TakesConcat ==
    ASSUME NEW s, IsSeq(s), NEW t, IsSeq(t), NEW req
    PROVE  /\ Passes(s \o t, req) <=> Passes(s, req) /\ Passes(t, req)
           /\ \A r : Takes(s \o t, r, req) =>
                        Takes(s, r, req) \/ (Passes(s, req) /\ Takes(t, r, req))
<1> DEFINE c == s \o t
<1>1. /\ IsSeq(c) /\ Len(c) = Len(s) + Len(t)
      /\ \A i \in 1..Len(s) : c[i] = s[i]
      /\ \A i \in 1..Len(t) : c[Len(s) + i] = t[i]
  BY Concat
<1> HIDE DEF c
<1>2. /\ Len(s) \in Nat /\ Len(t) \in Nat /\ DOMAIN s = 1..Len(s)
      /\ DOMAIN t = 1..Len(t) /\ DOMAIN c = 1..Len(s) + Len(t)
  BY <1>1 DEF IsSeq
<1>3. \A i \in DOMAIN c : i \in DOMAIN s \/ \E j \in DOMAIN t : i = Len(s) + j
  <2> TAKE i \in DOMAIN c
  <2>1. i \notin 1..Len(s) => i - Len(s) \in 1..Len(t) /\ i = Len(s) + (i - Len(s))
    BY <1>2
  <2>2. QED
    BY <1>2, <2>1
<1>4. \A i \in DOMAIN s : i \in DOMAIN c /\ c[i] = s[i]
  BY <1>1, <1>2
<1>5. \A j \in DOMAIN t : Len(s) + j \in DOMAIN c /\ c[Len(s) + j] = t[j]
  BY <1>1, <1>2
<1>6. Passes(c, req) <=> Passes(s, req) /\ Passes(t, req)
  BY <1>3, <1>4, <1>5 DEF Passes
<1>7. ASSUME NEW r, Takes(c, r, req)
      PROVE  Takes(s, r, req) \/ (Passes(s, req) /\ Takes(t, r, req))
  <2>1. PICK n \in DOMAIN c : /\ c[n] = r /\ Matches(r.match, req)
                              /\ \A i \in 1..n - 1 : ~Matches(c[i].match, req)
    BY <1>7 DEF Takes
  <2>2. CASE n \in DOMAIN s
    <3>1. \A i \in 1..n - 1 : i \in DOMAIN s
      BY <1>2, <2>2
    <3>2. QED
      BY <1>4, <2>1, <2>2, <3>1 DEF Takes
  <2>3. CASE \E j \in DOMAIN t : n = Len(s) + j
    <3>1. PICK j \in DOMAIN t : n = Len(s) + j
      BY <2>3
    <3>2. Passes(s, req)
      <4>1. \A i \in DOMAIN s : i \in 1..n - 1
        BY <1>2, <3>1
      <4>2. QED
        BY <1>4, <2>1, <4>1 DEF Passes
    <3>3. \A i \in 1..j - 1 : ~Matches(t[i].match, req)
      <4>1. \A i \in 1..j - 1 : i \in DOMAIN t /\ Len(s) + i \in 1..n - 1
        BY <1>2, <3>1
      <4>2. QED
        BY <1>5, <2>1, <4>1
    <3>4. QED
      BY <1>5, <2>1, <3>1, <3>2, <3>3 DEF Takes
  <2>4. QED
    BY <1>3, <2>2, <2>3
<1>8. QED
  BY <1>6, <1>7 DEF c

\* Starting out to try the routes of s.
LEMMA TryingStart == ASSUME NEW s, IsSeq(s), NEW req PROVE Trying(s, s, req)
<1>1. Len(s) \in Nat
  BY DEF IsSeq
<1>2. Follows(s, s, 1) /\ 1 \in 1..Len(s) + 1 /\ Len(s) = Len(s) - 1 + 1
  BY <1>1 DEF Follows
<1>3. \A i \in 1..1 - 1 : FALSE
  OBVIOUS
<1>4. QED
  BY <1>2, <1>3 DEF Trying

\* What trying the next route comes to.
LEMMA TryingNext ==
    ASSUME NEW s, IsSeq(s), NEW list, IsSeq(list), NEW req, Trying(s, list, req)
    PROVE  /\ list = <<>> => Passes(s, req)
           /\ list # <<>> => /\ Head(list) \in Elems(s)
                             /\ IF Matches(Head(list).match, req)
                                THEN Takes(s, Head(list), req)
                                ELSE Trying(s, Tail(list), req)
<1>1. PICK n \in 1..Len(s) + 1 :
         /\ Follows(list, s, n) /\ Len(list) = Len(s) - n + 1
         /\ \A i \in 1..n - 1 : ~Matches(s[i].match, req)
  BY DEF Trying
<1>2. Len(s) \in Nat /\ DOMAIN s = 1..Len(s) /\ Len(list) \in Nat
  BY DEF IsSeq
<1>3. ASSUME list = <<>>
      PROVE  Passes(s, req)
  <2>1. Len(list) = 0
    BY <1>3
  <2>2. n - 1 = Len(s)
    BY <1>1, <1>2, <2>1
  <2>3. QED
    BY <1>1, <1>2, <2>2 DEF Passes
<1>4. ASSUME list # <<>>
      PROVE  /\ Head(list) \in Elems(s)
             /\ IF Matches(Head(list).match, req)
                THEN Takes(s, Head(list), req)
                ELSE Trying(s, Tail(list), req)
  <2>1. Len(list) # 0
    BY <1>4, EmptySeq DEF IsSeq
  <2>2. n \in 1..Len(s)
    BY <1>1, <1>2, <2>1
  <2>3. /\ Head(list) = s[n] /\ s[n] \in Elems(s)
        /\ Follows(Tail(list), s, n + 1) /\ Len(Tail(list)) = Len(list) - 1
    BY <1>1, <2>2, FollowsNext
  <2>4. CASE Matches(s[n].match, req)
    <3>1. Takes(s, s[n], req)
      BY <1>1, <1>2, <2>2, <2>4 DEF Takes
    <3>2. QED
      BY <2>3, <2>4, <3>1
  <2>5. CASE ~Matches(s[n].match, req)
    <3>1. n + 1 \in 1..Len(s) + 1 /\ Len(Tail(list)) = Len(s) - (n + 1) + 1
      <4>1. Len(list) = Len(s) - n + 1 /\ Len(Tail(list)) = Len(list) - 1
        BY <1>1, <2>3
      <4>2. Len(s) \in Nat /\ n \in 1..Len(s)
        BY <1>2, <2>2
      <4>3. QED
        BY <4>1, <4>2
    <3>2. \A i \in 1..n + 1 - 1 : i \in 1..n - 1 \/ i = n
      BY <2>2
    <3>3. Trying(s, Tail(list), req)
      BY <1>1, <2>3, <2>5, <3>1, <3>2 DEF Trying
    <3>4. QED
      BY <2>3, <2>5, <3>3
  <2>6. QED
    BY <2>4, <2>5
<1>5. QED
  BY <1>3, <1>4

-----------------------------------------------------------------------------
(* What the annotations are made into *)

LEMMA NonBlankElems ==
    ASSUME NEW parts \in Seq(STRING)
    PROVE  /\ IsSeq(NonBlank(parts)) /\ Elems(NonBlank(parts)) = Said(parts)
           /\ NonBlank(parts) = <<>> <=> Said(parts) = {}
<1>1. IsSeq(parts)
  BY SeqIsSeq
<1> DEFINE S == Elems(parts) \ {""}
<1>2. NonBlank(parts) = Keep(parts, S)
  BY DEF NonBlank
<1> HIDE DEF S
<1>3. /\ IsSeq(Keep(parts, S)) /\ Elems(Keep(parts, S)) = {x \in Elems(parts) : x \in S}
      /\ Keep(parts, S) = <<>> <=> Elems(Keep(parts, S)) = {}
  BY <1>1, KeepElems
<1>4. {x \in Elems(parts) : x \in S} = Said(parts)
  BY DEF S, Said
<1>5. QED
  BY <1>2, <1>3, <1>4

LEMMA AnnType ==
    ASSUME CaseOK
    PROVE  /\ Ann.whitelist \in Seq(STRING) /\ Ann.blocklist \in Seq(STRING)
           /\ Ann.serverAlias \in Seq(STRING) /\ Ann.origins \in Seq(STRING)
           /\ Ann.enableCORS \in BOOLEAN /\ Ann.allowCreds \in BOOLEAN
           /\ case.ing.tls \in BOOLEAN /\ Req.https \in BOOLEAN
           /\ case.ing.rules \in Seq([host: STRING, http: BOOLEAN,
                 paths: Seq([path: PathType, type: STRING, service: STRING])])
           /\ Req.path \in PathType /\ Req.origin \in STRING /\ Req.size \in Nat
           /\ Ann.requestHeaders \in Seq(HeaderType)
           /\ Ann.responseHeaders \in Seq(HeaderType)
           /\ Ann.bodySize \in Seq([n: Seq(Int) \ {<<>>}, unit: Units])
           /\ case.objs.rules.lines \in Seq(STRING)
           /\ case.objs.policy.lines
                 \in {<<>>, <<"no JSON">>, <<"null">>, <<"handler">>}
           /\ case.objs.auth.lines \in Seq([user: STRING, hash: STRING])
<1> DEFINE AnnSet ==
         [whitelist: Seq(STRING), blocklist: Seq(STRING), sslRedirect: BOOLEAN,
          permanentRedirect: STRING, temporalRedirect: STRING,
          redirectCode: Seq(Int), rewriteTarget: STRING, serverAlias: Seq(STRING),
          limitRPS: Seq(Int), enableCORS: BOOLEAN, origins: Seq(STRING),
          allowCreds: BOOLEAN, requestHeaders: Seq(HeaderType),
          responseHeaders: Seq(HeaderType), waf: STRING, wafRules: BOOLEAN,
          bodySize: Seq([n: Seq(Int) \ {<<>>}, unit: Units]),
          xForwardedPrefix: STRING, upstreamVhost: STRING, basicAuth: BOOLEAN,
          authPolicy: BOOLEAN]
<1>1. /\ case.ann \in AnnSet
      /\ case.ing \in [tls: BOOLEAN,
           rules: Seq([host: STRING, http: BOOLEAN,
                       paths: Seq([path: PathType, type: STRING, service: STRING])])]
      /\ case.req \in
           [ip: STRING, method: STRING, host: STRING, https: BOOLEAN, origin: STRING,
            path: PathType, size: Nat, user: STRING, attack: BOOLEAN]
  BY DEF CaseOK, CaseType
<1>2. /\ case.objs.rules \in ObjectType(Seq(STRING))
      /\ case.objs.policy \in
           ObjectType({<<>>, <<"no JSON">>, <<"null">>, <<"handler">>})
      /\ case.objs.auth \in ObjectType(Seq([user: STRING, hash: STRING]))
  BY DEF CaseOK, CaseType
<1>3. QED
  BY <1>1, <1>2 DEF Ann, Req, ObjectType

\* The CORS configuration, and the origins that it allows.
LEMMA CORSConfigured ==
    ASSUME CaseOK
    PROVE  /\ Cfg.cors = <<>> <=> ~Ann.enableCORS
           /\ Cfg.cors # <<>> =>
                 LET c == Cfg.cors[1]
                 IN  /\ IsSeq(c.origins) /\ c.origins # <<>>
                     /\ c.origins = IF StarAlone THEN <<"*">> ELSE NonBlank(Ann.origins)
                     /\ Wildcard(c) <=> StarAlone
                     /\ c.creds = (Ann.allowCreds /\ ~StarAlone)
<1> DEFINE named == NonBlank(Ann.origins)
           cfg == [origins |-> IF named = <<>> THEN <<"*">> ELSE named]
           c == [origins |-> cfg.origins, creds |-> Ann.allowCreds /\ ~Wildcard(cfg)]
<1>1. Cfg.cors = IF ~Ann.enableCORS THEN <<>> ELSE <<c>>
  BY DEF Cfg, ResolveAnnotations, ResolveCORS
<1>2. IsSeq(named)
  BY AnnType, NonBlankElems
<1>3. c.origins = IF StarAlone THEN <<"*">> ELSE named
  BY DEF StarAlone
<1>4. IsSeq(c.origins) /\ c.origins # <<>>
  BY <1>2, Single
<1>5. (Wildcard(c) <=> StarAlone) /\ c.creds = (Ann.allowCreds /\ ~StarAlone)
  BY DEF Wildcard, StarAlone
<1> HIDE DEF c
<1>6. <<c>> # <<>> /\ <<c>>[1] = c
  OBVIOUS
<1>7. QED
  BY <1>1, <1>3, <1>4, <1>5, <1>6

\* Whose origin is allowed by name.
LEMMA AllowedElems ==
    ASSUME CaseOK, Cfg.cors # <<>>, ~StarAlone
    PROVE  /\ Elems(Cfg.cors[1].origins) = Said(Ann.origins)
           /\ Said(Ann.origins) # {}
           /\ \A o \in Said(Ann.origins) : o # "" /\ o # "{http.request.header.Origin}"
<1>1. Cfg.cors[1].origins = NonBlank(Ann.origins)
  BY CORSConfigured
<1>2. NonBlank(Ann.origins) # <<>>
  BY DEF StarAlone
<1>3. QED
  BY <1>1, <1>2, AnnType, NonBlankElems DEF Said, CaseOK, Ann

LEMMA PreflightMatches ==
    ASSUME CaseOK
    PROVE  /\ Cfg.cors = <<>> => ~Preflight
           /\ Cfg.cors # <<>> =>
                 (Matches(CorsPreflightRoute(Cfg.cors[1]).match, Req) <=> Preflight)
<1>1. Cfg.cors = <<>> => ~Preflight
  BY CORSConfigured DEF Preflight, OriginAllowed
<1>2. ASSUME Cfg.cors # <<>>
      PROVE  Matches(CorsPreflightRoute(Cfg.cors[1]).match, Req) <=> Preflight
  <2> DEFINE c == Cfg.cors[1]
             m == CorsPreflightRoute(c).match
  <2>1. m = [Nil EXCEPT !.method = {"OPTIONS"},
                        !.origin = IF Wildcard(c) THEN {} ELSE Elems(c.origins)]
    BY DEF CorsPreflightRoute, Route
  <2>2. /\ m.host = {} /\ m.path = {} /\ m.in = {} /\ m.notIn = {}
        /\ m.method = {"OPTIONS"}
        /\ m.origin = IF Wildcard(c) THEN {} ELSE Elems(c.origins)
    BY <2>1 DEF Nil
  <2>3. Ann.enableCORS /\ (Wildcard(c) <=> StarAlone)
    BY <1>2, CORSConfigured
  <2> HIDE DEF c, m
  <2>4. Matches(m, Req) <=> /\ Req.method = "OPTIONS"
                            /\ m.origin # {} =>
                                  \E p \in m.origin : OriginMatches(p, Req.origin)
    BY <2>2 DEF Matches
  <2>5. ~StarAlone => Elems(c.origins) = Said(Ann.origins) /\ Said(Ann.origins) # {}
    BY <1>2, AllowedElems DEF c
  <2>6. Matches(m, Req) <=> Preflight
    BY <2>2, <2>3, <2>4, <2>5 DEF Preflight, OriginAllowed
  <2>7. QED
    BY <2>6 DEF c, m
<1>3. QED
  BY <1>1, <1>2

\* The guards let through whom the lists admit.
LEMMA Guards ==
    ASSUME CaseOK
    PROVE  /\ IsSeq(BuildIPGuardRoutes(Cfg))
           /\ \A r \in Elems(BuildIPGuardRoutes(Cfg)) : r.handler = "route"
           /\ Passes(BuildIPGuardRoutes(Cfg), Req) <=> Admitted
           /\ \A r : Takes(BuildIPGuardRoutes(Cfg), r, Req) =>
                        /\ ~Admitted
                        /\ r.handle = <<StaticResponse(403)>> /\ r.terminal
<1> DEFINE w == NonBlank(Ann.whitelist)
           b == NonBlank(Ann.blocklist)
           g1 == Route([Nil EXCEPT !.notIn = Elems(w)], <<StaticResponse(403)>>, TRUE)
           g2 == Route([Nil EXCEPT !.in = Elems(b)], <<StaticResponse(403)>>, TRUE)
           s == If(w # <<>>, g1)
           t == If(b # <<>>, g2)
<1>1. BuildIPGuardRoutes(Cfg) = s \o t
  BY DEF BuildIPGuardRoutes, Cfg, ResolveAnnotations
<1>2. /\ Elems(w) = Said(Ann.whitelist) /\ (w = <<>> <=> Said(Ann.whitelist) = {})
      /\ Elems(b) = Said(Ann.blocklist) /\ (b = <<>> <=> Said(Ann.blocklist) = {})
  BY AnnType, NonBlankElems
<1>3. /\ g1.handle = <<StaticResponse(403)>> /\ g1.terminal /\ g1.handler = "route"
      /\ g2.handle = <<StaticResponse(403)>> /\ g2.terminal /\ g2.handler = "route"
  BY DEF Route
<1>4. /\ g1.match = [Nil EXCEPT !.notIn = Elems(w)]
      /\ g2.match = [Nil EXCEPT !.in = Elems(b)]
  BY DEF Route
<1> HIDE DEF w, b, g1, g2
<1>5. w # <<>> => (Matches(g1.match, Req) <=> ~InRanges(Req.ip, Said(Ann.whitelist)))
  BY <1>2, <1>4 DEF Matches, Nil
<1>6. b # <<>> => (Matches(g2.match, Req) <=> InRanges(Req.ip, Said(Ann.blocklist)))
  BY <1>2, <1>4 DEF Matches, Nil
<1>7. b = <<>> => ~InRanges(Req.ip, Said(Ann.blocklist))
  BY <1>2 DEF InRanges
<1>8. /\ IsSeq(s) /\ IsSeq(t) /\ Elems(s) \subseteq {g1} /\ Elems(t) \subseteq {g2}
  BY IfSeq
<1>9. /\ Passes(s, Req) <=> (w # <<>> => ~Matches(g1.match, Req))
      /\ Passes(t, Req) <=> (b # <<>> => ~Matches(g2.match, Req))
      /\ \A r : Takes(s, r, Req) => w # <<>> /\ r = g1 /\ Matches(g1.match, Req)
      /\ \A r : Takes(t, r, Req) => b # <<>> /\ r = g2 /\ Matches(g2.match, Req)
  BY TakesIf
<1>10. Admitted <=> Passes(s, Req) /\ Passes(t, Req)
  BY <1>2, <1>5, <1>6, <1>7, <1>9 DEF Admitted
<1> HIDE DEF s, t
<1>11. /\ IsSeq(s \o t) /\ Elems(s \o t) = Elems(s) \cup Elems(t)
       /\ Passes(s \o t, Req) <=> Passes(s, Req) /\ Passes(t, Req)
       /\ \A r : Takes(s \o t, r, Req) =>
                    Takes(s, r, Req) \/ (Passes(s, Req) /\ Takes(t, r, Req))
  BY <1>8, Concat, TakesConcat
<1>12. \A r \in Elems(s \o t) : r.handler = "route"
  BY <1>3, <1>8, <1>11
<1>13. \A r : Takes(s \o t, r, Req) =>
                 ~Admitted /\ r.handle = <<StaticResponse(403)>> /\ r.terminal
  BY <1>3, <1>9, <1>10, <1>11
<1>14. QED
  BY <1>1, <1>10, <1>11, <1>12, <1>13

-----------------------------------------------------------------------------
(* The routes of a rule *)

\* A set of positions has a least one.
LEMMA Least ==
    ASSUME NEW n \in Nat, NEW T \in SUBSET (1..n), T # {}
    PROVE  First(T) \in T /\ \A j \in T : First(T) <= j
<1> DEFINE id == [i \in 1..n |-> i]
           k == Keep(id, T)
<1>1. id \in Seq(1..n) /\ DOMAIN id = 1..n /\ \A i \in 1..n : id[i] = i
  OBVIOUS
<1>2. IsSeq(id)
  BY <1>1, SeqIsSeq
<1> HIDE DEF id
<1>3. PICK f \in [1..Len(k) -> DOMAIN id] :
         /\ \A m \in 1..Len(k) : k[m] = id[f[m]] /\ k[m] \in T
         /\ \A l, m \in 1..Len(k) : l < m => f[l] < f[m]
         /\ \A i \in DOMAIN id : id[i] \in T => \E m \in 1..Len(k) : f[m] = i
  BY <1>2, KeepPositions
<1>4. IsSeq(k)
  BY <1>2, KeepPositions
<1> HIDE DEF k
<1>5. Len(k) \in Nat
  BY <1>4 DEF IsSeq
<1>6. \A j \in T : \E m \in 1..Len(k) : f[m] = j
  BY <1>1, <1>3
<1>7. 1 \in 1..Len(k)
  <2>1. PICK j \in T : TRUE
    OBVIOUS
  <2>2. PICK m \in 1..Len(k) : f[m] = j
    BY <1>6, <2>1
  <2>3. QED
    BY <1>5, <2>2
<1>8. \A m \in 1..Len(k) : f[m] \in 1..n /\ f[m] \in T
  BY <1>1, <1>3
<1>9. \A m \in 1..Len(k) : f[1] <= f[m]
  <2> SUFFICES ASSUME NEW m \in 1..Len(k) PROVE f[1] <= f[m]
    OBVIOUS
  <2>1. m = 1 \/ 1 < m
    BY <1>5
  <2>2. 1 < m => f[1] < f[m]
    BY <1>3, <1>7
  <2>3. f[1] \in Nat /\ f[m] \in Nat
    BY <1>7, <1>8
  <2>4. QED
    BY <2>1, <2>2, <2>3
<1>10. f[1] \in T /\ \A j \in T : f[1] <= j
  BY <1>6, <1>7, <1>8, <1>9
<1>11. \E l \in T : \A j \in T : l <= j
  BY <1>10
<1>12. QED
  BY <1>11 DEF First

\* Making something of each element.
LEMMA MapSeq ==
    ASSUME NEW s, IsSeq(s), NEW t, t = [i \in DOMAIN s |-> t[i]]
    PROVE  IsSeq(t) /\ Len(t) = Len(s) /\ DOMAIN t = 1..Len(s)
<1>1. DOMAIN s = 1..Len(s) /\ Len(s) \in Nat
  BY DEF IsSeq
<1>2. t \in [1..Len(s) -> Elems(t)]
  BY <1>1 DEF Elems
<1>3. QED
  BY <1>1, <1>2 DEF IsSeq

PathEntry == [path: PathType, type: STRING, service: STRING]

RuleType == [host: STRING, http: BOOLEAN, paths: Seq(PathEntry)]

\* The rule that the request is for is one of the Ingress, and the first one.
LEMMA RuleFound ==
    ASSUME CaseOK, Takers # {}
    PROVE  TakenRule \in RuleType
<1>1. case.ing.rules \in Seq(RuleType)
  BY AnnType DEF RuleType, PathEntry
<1>2. Len(case.ing.rules) \in Nat /\ DOMAIN case.ing.rules = 1..Len(case.ing.rules)
  BY <1>1
<1>3. Takers \in SUBSET (1..Len(case.ing.rules))
  BY <1>2 DEF Takers
<1>4. First(Takers) \in Takers
  BY <1>2, <1>3, Least
<1>5. \A i \in 1..Len(case.ing.rules) : case.ing.rules[i] \in RuleType
  BY <1>1
<1>6. QED
  BY <1>3, <1>4, <1>5 DEF TakenRule

\* For the paths that RoutedTaken speaks of, the matcher is the one of the Ingress API.
LEMMA PathCovered ==
    ASSUME NEW p \in PathEntry, Regular(p), NEW req, req.path \in PathType
    PROVE  Matches([Nil EXCEPT !.path = ConvertPath(p.path, p.type)], req)
              <=> Covers(p, req.path)
<1> DEFINE m == ConvertPath(p.path, p.type)
           q == req.path
           n == Len(p.path.segs)
<1>1. Matches([Nil EXCEPT !.path = m], req) <=> (m # {} => \E x \in m : PathMatches(x, q))
  BY DEF Matches, Nil
<1>2. /\ p.path \in PathType /\ p.path.segs \in Seq(STRING) /\ n \in Nat
      /\ q \in PathType /\ q.segs \in Seq(STRING) /\ Len(q.segs) \in Nat
      /\ p.path.dir \in BOOLEAN /\ q.dir \in BOOLEAN
      /\ p.path = [segs |-> p.path.segs, dir |-> p.path.dir]
      /\ q = [segs |-> q.segs, dir |-> q.dir]
  BY DEF PathEntry, PathType
<1>3. CASE p.path = Root
  <2>1. m = {} /\ p.type # "Exact"
    BY <1>3 DEF ConvertPath, Regular
  <2>2. p.path.segs = <<>> /\ n = 0
    BY <1>3 DEF Root
  <2>3. SubSeq(q.segs, 1, 0) = <<>>
    BY <1>2
  <2>4. Covers(p, q)
    BY <1>2, <2>1, <2>2, <2>3 DEF Covers
  <2>5. QED
    BY <1>1, <2>1, <2>4
<1>4. CASE p.path # Root /\ p.type = "Exact"
  <2>1. m = {[path |-> p.path, glob |-> FALSE]}
    BY <1>4 DEF ConvertPath
  <2>2. PathMatches([path |-> p.path, glob |-> FALSE], q) <=> p.path = q
    BY DEF PathMatches
  <2>3. Covers(p, q) <=> p.path = q
    BY <1>4 DEF Covers
  <2>4. QED
    BY <1>1, <2>1, <2>2, <2>3
<1>5. CASE p.path # Root /\ p.type # "Exact"
  <2>1. ~p.path.dir
    BY <1>5 DEF Regular
  <2>2. m = {[path |-> p.path, glob |-> FALSE], [path |-> p.path, glob |-> TRUE]}
    BY <1>5, <2>1 DEF ConvertPath
  <2>3. PathMatches([path |-> p.path, glob |-> FALSE], q) <=> p.path = q
    BY DEF PathMatches
  <2>4. PathMatches([path |-> p.path, glob |-> TRUE], q) <=>
           /\ Len(q.segs) > n \/ (Len(q.segs) = n /\ q.dir)
           /\ SubSeq(q.segs, 1, n) = p.path.segs
    BY DEF PathMatches
  <2>5. Covers(p, q) <=> n <= Len(q.segs) /\ SubSeq(q.segs, 1, n) = p.path.segs
    BY <1>5 DEF Covers
  <2>6. SubSeq(q.segs, 1, Len(q.segs)) = q.segs
    BY <1>2
  <2>7. p.path = q => n = Len(q.segs) /\ SubSeq(q.segs, 1, n) = p.path.segs
    BY <2>6
  <2>8. ASSUME n = Len(q.segs), ~q.dir, SubSeq(q.segs, 1, n) = p.path.segs
        PROVE  p.path = q
    BY <1>2, <2>1, <2>6, <2>8
  <2>9. (\E x \in m : PathMatches(x, q)) <=>
           \/ p.path = q
           \/ /\ Len(q.segs) > n \/ (Len(q.segs) = n /\ q.dir)
              /\ SubSeq(q.segs, 1, n) = p.path.segs
    BY <2>2, <2>3, <2>4
  <2>10. Covers(p, q) <=> \E x \in m : PathMatches(x, q)
    BY <1>2, <2>5, <2>7, <2>8, <2>9
  <2>11. m # {}
    BY <2>2
  <2>12. QED
    BY <1>1, <2>10, <2>11
<1>6. QED
  BY <1>3, <1>4, <1>5

\* The routes of the paths lead to the Service for the request, or nowhere.
LEMMA Paths ==
    ASSUME CaseOK, Takers # {}
    PROVE  LET R == PathRoutes(case.ing, TakenRule, case.sec, Cfg)
           IN  /\ IsSeq(R) /\ \A r \in Elems(R) : r.handler = "route"
               /\ \A r : Takes(R, r, Req) =>
                     /\ ~r.terminal
                     /\ \E u \in Services :
                           /\ Backend(u)
                           /\ r.handle = BuildHandlers(u, case.sec, Cfg, ~case.ing.tls)
               /\ Passes(R, Req) => (AllRegular => TakenPaths = {})
<1> DEFINE ps == TakenRule.paths
           S == {p \in Elems(ps) : p.service # ""}
           Q == {p \in Elems(ps) : Covers(p, Req.path)}
           k == Keep(ps, S)
           H(p) == BuildHandlers(p.service, case.sec, Cfg, ~case.ing.tls)
           M(p) == [Nil EXCEPT !.path = ConvertPath(p.path, p.type)]
           R == [i \in DOMAIN k |-> Route(M(k[i]), H(k[i]), FALSE)]
<1>1. PathRoutes(case.ing, TakenRule, case.sec, Cfg) = R
  BY DEF PathRoutes, Served
<1>2. ps \in Seq(PathEntry)
  BY RuleFound DEF RuleType
<1>3. IsSeq(ps) /\ Elems(ps) \subseteq PathEntry
  BY <1>2, SeqIsSeq DEF Elems
<1>4. Wanted(ps, S, Q) = TakenPaths
  BY DEF Wanted, TakenPaths, Elems
<1>5. Services = {p.service : p \in Elems(ps)}
  BY DEF Services
<1>6. S \subseteq Elems(ps) /\ \A p \in Elems(ps) : p \in Q <=> Covers(p, Req.path)
  OBVIOUS
<1>7. AllRegular <=> \A p \in Elems(ps) : Regular(p)
  BY DEF AllRegular, Elems
<1> HIDE DEF ps, S, Q
<1>8. IsSeq(k) /\ Elems(k) = {x \in Elems(ps) : x \in S}
  BY <1>3, KeepElems
<1>9. \A i \in DOMAIN k : k[i] \in Elems(ps)
  BY <1>8 DEF Elems
<1>10. R = [i \in DOMAIN k |-> R[i]]
  OBVIOUS
<1>11. \A i \in DOMAIN k : /\ R[i].match = M(k[i]) /\ R[i].handle = H(k[i])
                           /\ R[i].terminal = FALSE /\ R[i].handler = "route"
  BY DEF Route
<1> HIDE DEF R, H, M
<1>12. IsSeq(R) /\ Len(R) = Len(k) /\ DOMAIN R = 1..Len(k) /\ DOMAIN k = 1..Len(k)
  BY <1>8, <1>10, MapSeq DEF IsSeq
<1>13. ASSUME AllRegular
       PROVE  \A i \in DOMAIN k : Matches(R[i].match, Req) <=> k[i] \in Q
  <2> SUFFICES ASSUME NEW i \in DOMAIN k
               PROVE  Matches(R[i].match, Req) <=> k[i] \in Q
    OBVIOUS
  <2>1. k[i] \in PathEntry /\ Regular(k[i]) /\ Req.path \in PathType
    BY <1>3, <1>7, <1>9, <1>13, AnnType
  <2>2. Matches(M(k[i]), Req) <=> Covers(k[i], Req.path)
    BY <2>1, PathCovered DEF M
  <2>3. QED
    BY <1>6, <1>9, <1>11, <2>2
<1>14. ASSUME NEW r, Takes(R, r, Req)
       PROVE  /\ ~r.terminal
              /\ \E u \in Services :
                    Backend(u) /\ r.handle = BuildHandlers(u, case.sec, Cfg, ~case.ing.tls)
  <2>1. PICK n \in DOMAIN R : /\ R[n] = r /\ Matches(r.match, Req)
                              /\ \A i \in 1..n - 1 : ~Matches(R[i].match, Req)
    BY <1>14 DEF Takes
  <2>2. n \in 1..Len(k) /\ \A i \in 1..n - 1 : i \in DOMAIN k
    BY <1>8, <1>12, <2>1 DEF IsSeq
  <2>3. k[n].service \in Services
    BY <1>5, <1>9, <1>12, <2>2
  <2>4. Backend(k[n].service)
    <3> SUFFICES ASSUME AllRegular
                 PROVE  /\ TakenPaths # {}
                        /\ k[n].service = TakenRule.paths[First(TakenPaths)].service
      BY DEF Backend
    <3>1. k[n] \in Q /\ \A i \in 1..n - 1 : k[i] \notin Q
      BY <1>12, <1>13, <2>1, <2>2
    <3>2. TakenPaths # {} /\ k[n] = ps[First(TakenPaths)]
      BY <1>3, <1>4, <2>2, <3>1, FirstKept
    <3>3. QED
      BY <3>2 DEF ps
  <2>5. r.handle = BuildHandlers(k[n].service, case.sec, Cfg, ~case.ing.tls) /\ ~r.terminal
    BY <1>11, <1>12, <2>1 DEF H
  <2>6. QED
    BY <2>3, <2>4, <2>5
<1>15. ASSUME Passes(R, Req), AllRegular
       PROVE  TakenPaths = {}
  <2>1. \A m \in 1..Len(k) : k[m] \notin Q
    BY <1>12, <1>13, <1>15 DEF Passes
  <2>2. QED
    BY <1>3, <1>4, <2>1, NoneKept
<1>16. \A r \in Elems(R) : r.handler = "route"
  BY <1>11, <1>12 DEF Elems
<1>17. QED
  BY <1>1, <1>12, <1>14, <1>15, <1>16

\* The routes of the rule: guards, preflight, paths, in this order.
LEMMA OfRuleTaken ==
    ASSUME CaseOK, Takers # {}
    PROVE  /\ IsSeq(OfRule) /\ \A r \in Elems(OfRule) : r.handler = "route"
           /\ Passes(OfRule, Req) =>
                 Admitted /\ ~Preflight /\ (AllRegular => TakenPaths = {})
           /\ \A r : Takes(OfRule, r, Req) =>
                 \/ ~Admitted /\ r.terminal /\ r.handle = <<StaticResponse(403)>>
                 \/ /\ Admitted /\ Preflight /\ Cfg.cors # <<>>
                    /\ r.terminal /\ r.handle = PreflightHandlers
                 \/ /\ Admitted /\ ~Preflight /\ ~r.terminal
                    /\ \E u \in Services :
                          /\ Backend(u)
                          /\ r.handle = BuildHandlers(u, case.sec, Cfg, ~case.ing.tls)
<1> DEFINE G == BuildIPGuardRoutes(Cfg)
           x == CorsPreflightRoute(Cfg.cors[1])
           P == IF Cfg.cors # <<>> THEN <<x>> ELSE <<>>
           R == PathRoutes(case.ing, TakenRule, case.sec, Cfg)
<1>1. OfRule = (G \o P) \o R
  BY DEF OfRule, RuleRoutes
<1>2. /\ IsSeq(G) /\ \A r \in Elems(G) : r.handler = "route"
      /\ Passes(G, Req) <=> Admitted
      /\ \A r : Takes(G, r, Req) =>
                   ~Admitted /\ r.handle = <<StaticResponse(403)>> /\ r.terminal
  BY Guards
<1>3. x.handler = "route" /\ x.terminal /\ x.handle = PreflightHandlers
  BY DEF CorsPreflightRoute, PreflightHandlers, Route
<1>4. /\ Cfg.cors = <<>> => ~Preflight
      /\ Cfg.cors # <<>> => (Matches(x.match, Req) <=> Preflight)
  BY PreflightMatches
<1>5. /\ IsSeq(R) /\ \A r \in Elems(R) : r.handler = "route"
      /\ \A r : Takes(R, r, Req) =>
            /\ ~r.terminal
            /\ \E u \in Services :
                  /\ Backend(u)
                  /\ r.handle = BuildHandlers(u, case.sec, Cfg, ~case.ing.tls)
      /\ Passes(R, Req) => (AllRegular => TakenPaths = {})
  BY Paths
<1> HIDE DEF G, x, R
<1>6. P = If(Cfg.cors # <<>>, x)
  BY DEF If
<1>7. /\ IsSeq(P) /\ Elems(P) \subseteq {x}
      /\ Passes(P, Req) <=> (Cfg.cors # <<>> => ~Matches(x.match, Req))
      /\ \A r : Takes(P, r, Req) => Cfg.cors # <<>> /\ r = x /\ Matches(x.match, Req)
  <2>1. IsSeq(If(Cfg.cors # <<>>, x)) /\ Elems(If(Cfg.cors # <<>>, x)) \subseteq {x}
    BY IfSeq
  <2>2. /\ Passes(If(Cfg.cors # <<>>, x), Req)
             <=> (Cfg.cors # <<>> => ~Matches(x.match, Req))
        /\ \A r : Takes(If(Cfg.cors # <<>>, x), r, Req) =>
                     Cfg.cors # <<>> /\ r = x /\ Matches(x.match, Req)
    BY TakesIf
  <2> HIDE DEF P
  <2>3. QED
    BY <1>6, <2>1, <2>2
<1> HIDE DEF P
<1>8. Passes(P, Req) <=> ~Preflight
  BY <1>4, <1>7
<1>9. /\ IsSeq(G \o P) /\ Elems(G \o P) = Elems(G) \cup Elems(P)
      /\ Passes(G \o P, Req) <=> Passes(G, Req) /\ Passes(P, Req)
      /\ \A r : Takes(G \o P, r, Req) =>
                   Takes(G, r, Req) \/ (Passes(G, Req) /\ Takes(P, r, Req))
  BY <1>2, <1>7, Concat, TakesConcat
<1>10. /\ IsSeq(OfRule) /\ Elems(OfRule) = Elems(G \o P) \cup Elems(R)
       /\ Passes(OfRule, Req) <=> Passes(G \o P, Req) /\ Passes(R, Req)
       /\ \A r : Takes(OfRule, r, Req) =>
                    Takes(G \o P, r, Req) \/ (Passes(G \o P, Req) /\ Takes(R, r, Req))
  BY <1>1, <1>5, <1>9, Concat, TakesConcat
<1>11. \A r \in Elems(OfRule) : r.handler = "route"
  BY <1>2, <1>3, <1>5, <1>7, <1>9, <1>10
<1>12. Passes(OfRule, Req) => Admitted /\ ~Preflight /\ (AllRegular => TakenPaths = {})
  BY <1>2, <1>5, <1>8, <1>9, <1>10
<1>13. ASSUME NEW r, Takes(OfRule, r, Req)
       PROVE  \/ ~Admitted /\ r.terminal /\ r.handle = <<StaticResponse(403)>>
              \/ /\ Admitted /\ Preflight /\ Cfg.cors # <<>>
                 /\ r.terminal /\ r.handle = PreflightHandlers
              \/ /\ Admitted /\ ~Preflight /\ ~r.terminal
                 /\ \E u \in Services :
                       /\ Backend(u)
                       /\ r.handle = BuildHandlers(u, case.sec, Cfg, ~case.ing.tls)
  <2>1. CASE Takes(G, r, Req)
    BY <1>2, <2>1
  <2>2. CASE Passes(G, Req) /\ Takes(P, r, Req)
    BY <1>2, <1>3, <1>4, <1>7, <2>2
  <2>3. CASE Passes(G \o P, Req) /\ Takes(R, r, Req)
    BY <1>2, <1>5, <1>8, <1>9, <2>3
  <2>4. QED
    BY <1>9, <1>10, <1>13, <2>1, <2>2, <2>3
<1>14. QED
  BY <1>10, <1>11, <1>12, <1>13

-----------------------------------------------------------------------------
(* The routes on a server *)

\* A route of the Ingress is for the requests that its rule applies to.
LEMMA RuleMatches ==
    ASSUME CaseOK, NEW rule
    PROVE  LET r == RuleRoute(case.ing, rule, case.sec, Cfg)
           IN  /\ r.handler = "route" /\ r.terminal
               /\ Matches(r.match, Req) <=> TakenBy(rule)
<1> DEFINE hosts == ({rule.host} \ {""}) \cup Elems(Cfg.serverAliases)
           r == RuleRoute(case.ing, rule, case.sec, Cfg)
<1>1. r.handler = "route" /\ r.terminal /\ r.match = [Nil EXCEPT !.host = hosts]
  BY DEF RuleRoute, Route
<1>2. Elems(Cfg.serverAliases) = Aliases
  BY AnnType, NonBlankElems DEF Cfg, ResolveAnnotations, Aliases
<1>3. Matches([Nil EXCEPT !.host = hosts], Req) <=>
         (hosts # {} => \E h \in hosts : HostMatches(h, Req.host))
  BY DEF Matches, Nil
<1>4. hosts = {} <=> rule.host = "" /\ Aliases = {}
  BY <1>2
<1>5. (hosts # {} => \E h \in hosts : HostMatches(h, Req.host)) <=> TakenBy(rule)
  BY <1>2, <1>4 DEF TakenBy
<1>6. QED
  BY <1>1, <1>3, <1>5

\* The first route of the Ingress that takes the request is the one of TakenRule.
LEMMA ConvertedTaken ==
    ASSUME CaseOK
    PROVE  LET C == ConvertIngress(case.ing, case.sec, Cfg)
           IN  /\ IsSeq(C) /\ \A r \in Elems(C) : r.handler = "route"
               /\ Passes(C, Req) => Takers = {}
               /\ \A r : Takes(C, r, Req) =>
                     /\ Takers # {} /\ r.terminal
                     /\ r = RuleRoute(case.ing, TakenRule, case.sec, Cfg)
<1> DEFINE rs == case.ing.rules
           S == {r \in Elems(rs) : r.http /\ Served(r) # <<>>}
           Q == {r \in Elems(rs) : TakenBy(r)}
           k == Keep(rs, S)
           F(rule) == RuleRoute(case.ing, rule, case.sec, Cfg)
           C == [i \in DOMAIN k |-> F(k[i])]
<1>1. ConvertIngress(case.ing, case.sec, Cfg) = C
  BY DEF ConvertIngress
<1>2. rs \in Seq(RuleType) /\ IsSeq(rs) /\ Elems(rs) \subseteq RuleType
  <2>1. rs \in Seq(RuleType)
    BY AnnType DEF RuleType, PathEntry
  <2> HIDE DEF rs
  <2>2. QED
    BY <2>1, SeqIsSeq DEF Elems
<1>3. \A r \in Elems(rs) : (r.http /\ Served(r) # <<>>) <=> Backed(r)
  <2> SUFFICES ASSUME NEW r \in RuleType PROVE Served(r) # <<>> <=>
                         \E i \in DOMAIN r.paths : r.paths[i].service # ""
    BY <1>2 DEF Backed
  <2>1. IsSeq(r.paths)
    BY SeqIsSeq DEF RuleType
  <2> DEFINE T == {p \in Elems(r.paths) : p.service # ""}
  <2>2. Served(r) = Keep(r.paths, T)
    BY DEF Served
  <2>3. Keep(r.paths, T) = <<>> <=> {p \in Elems(r.paths) : p \in T} = {}
    <3> HIDE DEF T
    <3>1. QED
      BY <2>1, KeepElems
  <2>4. {p \in Elems(r.paths) : p \in T} = {} <=>
           ~ \E i \in DOMAIN r.paths : r.paths[i].service # ""
    BY DEF Elems
  <2>5. QED
    BY <2>2, <2>3, <2>4
<1>4. Wanted(rs, S, Q) = Takers
  BY <1>3 DEF Wanted, Takers, Elems
<1>5. \A r \in Elems(rs) : r \in Q <=> TakenBy(r)
  OBVIOUS
<1>6. rs[First(Takers)] = TakenRule
  BY DEF TakenRule
<1> HIDE DEF rs, S, Q
<1>7. IsSeq(k) /\ Elems(k) \subseteq Elems(rs)
  BY <1>2, KeepElems
<1>8. \A i \in DOMAIN k : k[i] \in Elems(rs)
  BY <1>7 DEF Elems
<1>9. C = [i \in DOMAIN k |-> C[i]] /\ \A i \in DOMAIN k : C[i] = F(k[i])
  OBVIOUS
<1> HIDE DEF C
<1>10. IsSeq(C) /\ Len(C) = Len(k) /\ DOMAIN C = 1..Len(k) /\ DOMAIN k = 1..Len(k)
  BY <1>7, <1>9, MapSeq DEF IsSeq
<1>11. \A i \in DOMAIN k : /\ C[i].handler = "route" /\ C[i].terminal
                           /\ Matches(C[i].match, Req) <=> k[i] \in Q
  BY <1>5, <1>8, <1>9, RuleMatches
<1>12. \A r \in Elems(C) : r.handler = "route"
  BY <1>10, <1>11 DEF Elems
<1>13. ASSUME Passes(C, Req)
       PROVE  Takers = {}
  <2>1. \A m \in 1..Len(k) : k[m] \notin Q
    BY <1>10, <1>11, <1>13 DEF Passes
  <2>2. QED
    BY <1>2, <1>4, <2>1, NoneKept
<1>14. ASSUME NEW r, Takes(C, r, Req)
       PROVE  Takers # {} /\ r.terminal /\ r = F(TakenRule)
  <2>1. PICK n \in DOMAIN C : /\ C[n] = r /\ Matches(r.match, Req)
                              /\ \A i \in 1..n - 1 : ~Matches(C[i].match, Req)
    BY <1>14 DEF Takes
  <2>2. n \in 1..Len(k) /\ \A i \in 1..n - 1 : i \in DOMAIN k
    BY <1>7, <1>10, <2>1 DEF IsSeq
  <2>3. k[n] \in Q /\ \A i \in 1..n - 1 : k[i] \notin Q
    BY <1>10, <1>11, <2>1, <2>2
  <2>4. Takers # {} /\ k[n] = rs[First(Takers)]
    BY <1>2, <1>4, <2>2, <2>3, FirstKept
  <2>5. C[n] = F(TakenRule)
    BY <1>6, <1>9, <1>10, <2>2, <2>4
  <2>6. QED
    BY <1>10, <1>11, <2>1, <2>2, <2>4, <2>5
<1>15. QED
  BY <1>1, <1>10, <1>12, <1>13, <1>14

\* The redirects are for the requests that are Redirected, on plain HTTP.
LEMMA RedirectsTaken ==
    ASSUME CaseOK
    PROVE  LET D == HttpRedirectRoutes(case.ing)
           IN  /\ IsSeq(D) /\ \A r \in Elems(D) : r.handler = "route"
               /\ Passes(D, Req) <=>
                     \A rule \in Elems(case.ing.rules) :
                        rule.host # "" => ~HostMatches(rule.host, Req.host)
               /\ \A r : Takes(D, r, Req) =>
                     r.terminal /\ r.handle = <<StaticResponse(301)>>
<1> DEFINE rs == case.ing.rules
           S == {r \in Elems(rs) : r.host # ""}
           k == Keep(rs, S)
           D == [i \in DOMAIN k |-> Route([Nil EXCEPT !.host = {k[i].host}],
                                          <<StaticResponse(301)>>, TRUE)]
<1>1. HttpRedirectRoutes(case.ing) = D
  BY DEF HttpRedirectRoutes
<1>2. IsSeq(rs)
  BY AnnType, SeqIsSeq
<1>3. \A r \in Elems(rs) : r \in S <=> r.host # ""
  OBVIOUS
<1> HIDE DEF rs, S
<1>4. IsSeq(k) /\ Elems(k) = {x \in Elems(rs) : x \in S}
  BY <1>2, KeepElems
<1>5. D = [i \in DOMAIN k |-> D[i]]
  OBVIOUS
<1>6. \A i \in DOMAIN k : /\ D[i].handler = "route" /\ D[i].terminal
                          /\ D[i].handle = <<StaticResponse(301)>>
                          /\ D[i].match = [Nil EXCEPT !.host = {k[i].host}]
  BY DEF Route
<1> HIDE DEF D
<1>7. \A i \in DOMAIN k : Matches(D[i].match, Req) <=> HostMatches(k[i].host, Req.host)
  <2> SUFFICES ASSUME NEW i \in DOMAIN k
               PROVE  Matches(D[i].match, Req) <=> HostMatches(k[i].host, Req.host)
    OBVIOUS
  <2> DEFINE h == {k[i].host}
  <2>1. D[i].match = [Nil EXCEPT !.host = h]
    BY <1>6
  <2>2. /\ h # {}
        /\ (\E p \in h : HostMatches(p, Req.host)) <=> HostMatches(k[i].host, Req.host)
    OBVIOUS
  <2> HIDE DEF h
  <2>3. Matches([Nil EXCEPT !.host = h], Req) <=>
           \E p \in h : HostMatches(p, Req.host)
    BY <2>2 DEF Matches, Nil
  <2>4. QED
    BY <2>1, <2>2, <2>3
<1> HIDE DEF k
<1>8. IsSeq(D) /\ Len(D) = Len(k) /\ DOMAIN D = 1..Len(k) /\ DOMAIN k = 1..Len(k)
  BY <1>4, <1>5, MapSeq DEF IsSeq
<1>9. Passes(D, Req) <=> \A i \in DOMAIN k : ~HostMatches(k[i].host, Req.host)
  BY <1>7, <1>8 DEF Passes
<1>10. (\A i \in DOMAIN k : ~HostMatches(k[i].host, Req.host)) <=>
          \A r \in Elems(k) : ~HostMatches(r.host, Req.host)
  BY DEF Elems
<1>11. (\A r \in Elems(k) : ~HostMatches(r.host, Req.host)) <=>
          \A r \in Elems(rs) : r.host # "" => ~HostMatches(r.host, Req.host)
  BY <1>3, <1>4
<1>12. \A r \in Elems(D) : r.handler = "route"
  BY <1>6, <1>8 DEF Elems
<1>13. ASSUME NEW r, Takes(D, r, Req)
       PROVE  r.terminal /\ r.handle = <<StaticResponse(301)>>
  <2>1. PICK i \in DOMAIN D : D[i] = r
    BY <1>13 DEF Takes
  <2> HIDE DEF D
  <2>2. QED
    BY <1>6, <1>8, <2>1
<1>14. QED
  BY <1>1, <1>8, <1>9, <1>10, <1>11, <1>12, <1>13 DEF rs

\* What the server does first.
LEMMA OnServerTaken ==
    ASSUME CaseOK
    PROVE  /\ IsSeq(OnServer) /\ \A r \in Elems(OnServer) : r.handler = "route"
           /\ Passes(OnServer, Req) => ~Taken
           /\ \A r : Takes(OnServer, r, Req) =>
                 /\ r.terminal
                 /\ \/ ~Taken /\ r.handle = <<StaticResponse(301)>>
                    \/ Taken /\ r = RuleRoute(case.ing, TakenRule, case.sec, Cfg)
<1> DEFINE d == HttpRedirectRoutes(case.ing)
           c == ConvertIngress(case.ing, case.sec, Cfg)
           D == IF ~Req.https /\ Ann.sslRedirect THEN d ELSE <<>>
           C == IF Req.https = case.ing.tls THEN c ELSE <<>>
<1>1. /\ IsSeq(d) /\ \A r \in Elems(d) : r.handler = "route"
      /\ Passes(d, Req) <=>
            \A rule \in Elems(case.ing.rules) :
               rule.host # "" => ~HostMatches(rule.host, Req.host)
      /\ \A r : Takes(d, r, Req) => r.terminal /\ r.handle = <<StaticResponse(301)>>
  BY RedirectsTaken
<1>2. /\ IsSeq(c) /\ \A r \in Elems(c) : r.handler = "route"
      /\ Passes(c, Req) => Takers = {}
      /\ \A r : Takes(c, r, Req) =>
            /\ Takers # {} /\ r.terminal
            /\ r = RuleRoute(case.ing, TakenRule, case.sec, Cfg)
  BY ConvertedTaken
<1>3. OnServer = IF Req.https THEN IF case.ing.tls THEN c ELSE <<>>
                 ELSE (IF Ann.sslRedirect THEN d ELSE <<>>)
                      \o (IF case.ing.tls THEN <<>> ELSE c)
  BY DEF OnServer, ServerRoutes, Cfg, Ann, Req, ResolveAnnotations
<1>4. Req.https \in BOOLEAN /\ case.ing.tls \in BOOLEAN
  BY AnnType
<1> HIDE DEF c, d
<1>5. DOMAIN <<>> = {} /\ Elems(<<>>) = {} /\ IsSeq(<<>>)
  BY Empty DEF Elems
<1>6. /\ IsSeq(D) /\ \A r \in Elems(D) : r.handler = "route"
      /\ Passes(D, Req) <=> ~Redirected
      /\ \A r : Takes(D, r, Req) => r.terminal /\ r.handle = <<StaticResponse(301)>>
  <2>1. CASE ~Req.https /\ Ann.sslRedirect
    BY <1>1, <2>1 DEF Redirected
  <2>2. CASE ~(~Req.https /\ Ann.sslRedirect)
    BY <1>5, <2>2 DEF Redirected, Passes, Takes
  <2>3. QED
    BY <2>1, <2>2
<1>7. /\ IsSeq(C) /\ \A r \in Elems(C) : r.handler = "route"
      /\ Passes(C, Req) => ~(Req.https = case.ing.tls /\ Takers # {})
      /\ \A r : Takes(C, r, Req) =>
            /\ Req.https = case.ing.tls /\ Takers # {} /\ r.terminal
            /\ r = RuleRoute(case.ing, TakenRule, case.sec, Cfg)
  <2>1. CASE Req.https = case.ing.tls
    BY <1>2, <2>1
  <2>2. CASE Req.https # case.ing.tls
    BY <1>5, <2>2 DEF Passes, Takes
  <2>3. QED
    BY <2>1, <2>2
<1>8. OnServer = D \o C
  <2>1. c = <<>> \o c /\ <<>> = <<>> \o <<>>
    BY <1>2 DEF IsSeq
  <2>2. QED
    BY <1>3, <1>4, <2>1
<1> HIDE DEF C, D
<1>9. /\ IsSeq(OnServer) /\ Elems(OnServer) = Elems(D) \cup Elems(C)
      /\ Passes(OnServer, Req) <=> Passes(D, Req) /\ Passes(C, Req)
      /\ \A r : Takes(OnServer, r, Req) =>
                   Takes(D, r, Req) \/ (Passes(D, Req) /\ Takes(C, r, Req))
  BY <1>6, <1>7, <1>8, Concat, TakesConcat
<1>10. \A r : Takes(D, r, Req) => Redirected
  <2>1. \A r : Takes(D, r, Req) => ~Passes(D, Req)
    BY DEF Takes, Passes
  <2>2. QED
    BY <1>6, <2>1
<1>11. QED
  BY <1>6, <1>7, <1>9, <1>10 DEF Taken

-----------------------------------------------------------------------------
(* The handlers in front of the proxy *)

\* The checks for the Ingress.
Chk == Checks(case.sec, Cfg, ~case.ing.tls)

Engine == WafHandler(WafMode(case.sec, Cfg), Cfg.wafDirectives)

\* Each part of a concatenation of eight.
LEMMA Eight ==
    ASSUME NEW a, NEW b, NEW c, NEW d, NEW e, NEW f, NEW g, NEW h,
           IsSeq(a), IsSeq(b), IsSeq(c), IsSeq(d), IsSeq(e), IsSeq(f), IsSeq(g), IsSeq(h)
    PROVE  LET all == a \o b \o c \o d \o e \o f \o g \o h
           IN  /\ IsSeq(all)
               /\ Elems(all) = Elems(a) \cup Elems(b) \cup Elems(c) \cup Elems(d)
                               \cup Elems(e) \cup Elems(f) \cup Elems(g) \cup Elems(h)
<1>1. IsSeq(a \o b) /\ Elems(a \o b) = Elems(a) \cup Elems(b)
  BY Concat
<1>2. IsSeq(a \o b \o c) /\ Elems(a \o b \o c) = Elems(a \o b) \cup Elems(c)
  BY <1>1, Concat
<1>3. /\ IsSeq(a \o b \o c \o d)
      /\ Elems(a \o b \o c \o d) = Elems(a \o b \o c) \cup Elems(d)
  BY <1>2, Concat
<1>4. /\ IsSeq(a \o b \o c \o d \o e)
      /\ Elems(a \o b \o c \o d \o e) = Elems(a \o b \o c \o d) \cup Elems(e)
  BY <1>3, Concat
<1>5. /\ IsSeq(a \o b \o c \o d \o e \o f)
      /\ Elems(a \o b \o c \o d \o e \o f) = Elems(a \o b \o c \o d \o e) \cup Elems(f)
  BY <1>4, Concat
<1>6. /\ IsSeq(a \o b \o c \o d \o e \o f \o g)
      /\ Elems(a \o b \o c \o d \o e \o f \o g)
           = Elems(a \o b \o c \o d \o e \o f) \cup Elems(g)
  BY <1>5, Concat
<1>7. /\ IsSeq(a \o b \o c \o d \o e \o f \o g \o h)
      /\ Elems(a \o b \o c \o d \o e \o f \o g \o h)
           = Elems(a \o b \o c \o d \o e \o f \o g) \cup Elems(h)
  BY <1>6, Concat
<1>8. QED
  BY <1>1, <1>2, <1>3, <1>4, <1>5, <1>6, <1>7

\* What each check is, and which ones are there.
LEMMA ChecksElems ==
    /\ IsSeq(Chk)
    /\ \A x \in Elems(Chk) :
          \/ x = BasicAuthHandler(Cfg.basicAuth) /\ Cfg.basicAuth # <<>>
          \/ x = [handler |-> "request_body", max |-> Cfg.maxBodySize]
          \/ x = RateLimitHandler(Cfg.limitRPS)
          \/ x = [handler |-> "rewrite", uri |-> Cfg.rewriteTarget]
          \/ x = SecurityHeadersHandler
          \/ x = ResponseHeadersHandler(Cfg.responseHeaders)
          \/ x = Engine
          \/ x = [handler |-> "policy"]
    /\ Cfg.maxBodySize > 0
          => [handler |-> "request_body", max |-> Cfg.maxBodySize] \in Elems(Chk)
    /\ [handler |-> "request_body", max |-> Cfg.maxBodySize] \in Elems(Chk)
          => Cfg.maxBodySize > 0
    /\ WafEnabled(case.sec, Cfg) => Engine \in Elems(Chk)
<1> DEFINE x1 == BasicAuthHandler(Cfg.basicAuth)
           x2 == [handler |-> "request_body", max |-> Cfg.maxBodySize]
           x3 == RateLimitHandler(Cfg.limitRPS)
           x4 == [handler |-> "rewrite", uri |-> Cfg.rewriteTarget]
           x5 == SecurityHeadersHandler
           x6 == ResponseHeadersHandler(Cfg.responseHeaders)
           x7 == Engine
           x8 == [handler |-> "policy"]
           c5 == case.sec.securityHeaders /\ ~~case.ing.tls
           s1 == If(Cfg.basicAuth # <<>>, x1)
           s2 == If(Cfg.maxBodySize > 0, x2)
           s3 == If(Cfg.limitRPS > 0, x3)
           s4 == If(Cfg.rewriteTarget # "", x4)
           s5 == If(c5, x5)
           s6 == If(~NoHeaders(Cfg.responseHeaders), x6)
           s7 == If(WafEnabled(case.sec, Cfg), x7)
           s8 == If(Cfg.authPolicy # <<>>, x8)
<1>1. Chk = s1 \o s2 \o s3 \o s4 \o s5 \o s6 \o s7 \o s8
  BY DEF Chk, Checks, Engine
<1>2. /\ IsSeq(s1) /\ Elems(s1) = IF Cfg.basicAuth # <<>> THEN {x1} ELSE {}
      /\ IsSeq(s2) /\ Elems(s2) = IF Cfg.maxBodySize > 0 THEN {x2} ELSE {}
      /\ IsSeq(s3) /\ Elems(s3) = IF Cfg.limitRPS > 0 THEN {x3} ELSE {}
      /\ IsSeq(s4) /\ Elems(s4) = IF Cfg.rewriteTarget # "" THEN {x4} ELSE {}
      /\ IsSeq(s5) /\ Elems(s5) = IF c5 THEN {x5} ELSE {}
      /\ IsSeq(s6) /\ Elems(s6) = IF ~NoHeaders(Cfg.responseHeaders) THEN {x6} ELSE {}
      /\ IsSeq(s7) /\ Elems(s7) = IF WafEnabled(case.sec, Cfg) THEN {x7} ELSE {}
      /\ IsSeq(s8) /\ Elems(s8) = IF Cfg.authPolicy # <<>> THEN {x8} ELSE {}
  <2> HIDE DEF x1, x2, x3, x4, x5, x6, x7, x8, c5
  <2>1. QED
    BY IfSeq
<1>3. x2.handler = "request_body" /\ x1.handler # "request_body"
      /\ x3.handler # "request_body" /\ x4.handler # "request_body"
      /\ x5.handler # "request_body" /\ x6.handler # "request_body"
      /\ x7.handler # "request_body" /\ x8.handler # "request_body"
  BY DEF BasicAuthHandler, RateLimitHandler, SecurityHeadersHandler,
         ResponseHeadersHandler, Engine, WafHandler
<1> HIDE DEF s1, s2, s3, s4, s5, s6, s7, s8
<1>4. IsSeq(s1 \o s2 \o s3 \o s4 \o s5 \o s6 \o s7 \o s8)
      /\ Elems(s1 \o s2 \o s3 \o s4 \o s5 \o s6 \o s7 \o s8)
           = Elems(s1) \cup Elems(s2) \cup Elems(s3) \cup Elems(s4)
             \cup Elems(s5) \cup Elems(s6) \cup Elems(s7) \cup Elems(s8)
  <2>1. /\ IsSeq(s1) /\ IsSeq(s2) /\ IsSeq(s3) /\ IsSeq(s4)
        /\ IsSeq(s5) /\ IsSeq(s6) /\ IsSeq(s7) /\ IsSeq(s8)
    BY <1>2
  <2>2. QED
    BY ONLY <2>1, Eight
<1> HIDE DEF x1, x2, x3, x4, x5, x6, x7, x8, c5
<1>5. IsSeq(Chk) /\ Elems(Chk)
           = Elems(s1) \cup Elems(s2) \cup Elems(s3) \cup Elems(s4)
             \cup Elems(s5) \cup Elems(s6) \cup Elems(s7) \cup Elems(s8)
  BY <1>1, <1>4
<1>6. \A x \in Elems(Chk) :
         \/ x = x1 /\ Cfg.basicAuth # <<>>
         \/ x = x2 /\ Cfg.maxBodySize > 0
         \/ x = x3 \/ x = x4 \/ x = x5 \/ x = x6 \/ x = x7 \/ x = x8
  BY <1>2, <1>5
<1>7. /\ Cfg.maxBodySize > 0 => x2 \in Elems(Chk)
      /\ WafEnabled(case.sec, Cfg) => x7 \in Elems(Chk)
  BY <1>2, <1>5
<1>8. x2 \in Elems(Chk) => Cfg.maxBodySize > 0
  BY <1>3, <1>6
<1>9. QED
  BY <1>5, <1>6, <1>7, <1>8 DEF x1, x2, x3, x4, x5, x6, x7, x8

\* The names of the checks.
Names(s) == [i \in DOMAIN s |-> s[i].handler]

LEMMA NamesIf ==
    ASSUME NEW c, NEW x
    PROVE  Names(If(c, x)) = If(c, x.handler) /\ IsSeq(Names(If(c, x)))
<1>1. CASE c
  <2>1. If(c, x) = <<x>> /\ If(c, x.handler) = <<x.handler>>
    BY <1>1 DEF If
  <2>2. Names(<<x>>) = <<x.handler>>
    BY DEF Names
  <2>3. QED
    BY <2>1, <2>2, Single
<1>2. CASE ~c
  <2>1. If(c, x) = <<>> /\ If(c, x.handler) = <<>>
    BY <1>2 DEF If
  <2>2. Names(<<>>) = <<>>
    BY DEF Names
  <2>3. QED
    BY <2>1, <2>2, Empty
<1>3. QED
  BY <1>1, <1>2

LEMMA NamesConcat ==
    ASSUME NEW s, IsSeq(s), NEW t, IsSeq(t)
    PROVE  Names(s \o t) = Names(s) \o Names(t) /\ IsSeq(Names(s))
<1>1. /\ IsSeq(s \o t) /\ Len(s \o t) = Len(s) + Len(t)
      /\ \A i \in 1..Len(s) : (s \o t)[i] = s[i]
      /\ \A i \in 1..Len(t) : (s \o t)[Len(s) + i] = t[i]
  BY Concat
<1>2. /\ Names(s) = [i \in DOMAIN s |-> Names(s)[i]]
      /\ Names(t) = [i \in DOMAIN t |-> Names(t)[i]]
      /\ Names(s \o t) = [i \in DOMAIN (s \o t) |-> Names(s \o t)[i]]
  BY DEF Names
<1>3. /\ IsSeq(Names(s)) /\ Len(Names(s)) = Len(s)
      /\ IsSeq(Names(t)) /\ Len(Names(t)) = Len(t)
      /\ IsSeq(Names(s \o t)) /\ Len(Names(s \o t)) = Len(s) + Len(t)
  BY <1>1, <1>2, MapSeq
<1>4. /\ IsSeq(Names(s) \o Names(t))
      /\ Len(Names(s) \o Names(t)) = Len(s) + Len(t)
      /\ \A i \in 1..Len(s) : (Names(s) \o Names(t))[i] = Names(s)[i]
      /\ \A i \in 1..Len(t) : (Names(s) \o Names(t))[Len(s) + i] = Names(t)[i]
  <2> DEFINE p == Names(s)
             q == Names(t)
  <2>1. IsSeq(p) /\ IsSeq(q) /\ Len(p) = Len(s) /\ Len(q) = Len(t)
    BY <1>3
  <2> HIDE DEF p, q
  <2>2. /\ IsSeq(p \o q) /\ Len(p \o q) = Len(p) + Len(q)
        /\ \A i \in 1..Len(p) : (p \o q)[i] = p[i]
        /\ \A i \in 1..Len(q) : (p \o q)[Len(p) + i] = q[i]
    BY <2>1, Concat
  <2>3. QED
    BY <2>1, <2>2 DEF p, q
<1> DEFINE a == Names(s \o t)
           b == Names(s) \o Names(t)
           n == Len(s) + Len(t)
<1>5. /\ Len(s) \in Nat /\ Len(t) \in Nat /\ DOMAIN s = 1..Len(s) /\ DOMAIN t = 1..Len(t)
      /\ DOMAIN (s \o t) = 1..n
  BY <1>1 DEF IsSeq
<1>6. \A i \in 1..Len(s) : a[i] = b[i]
  BY <1>1, <1>4, <1>5 DEF Names
<1>7. \A i \in 1..Len(t) : a[Len(s) + i] = b[Len(s) + i]
  <2> SUFFICES ASSUME NEW i \in 1..Len(t) PROVE a[Len(s) + i] = b[Len(s) + i]
    OBVIOUS
  <2>1. Len(s) + i \in 1..n
    BY <1>5
  <2>2. QED
    BY <1>1, <1>4, <1>5, <2>1 DEF Names
<1> HIDE DEF a, b
<1>8. \A i \in 1..n : a[i] = b[i]
  <2> SUFFICES ASSUME NEW i \in 1..n PROVE a[i] = b[i]
    OBVIOUS
  <2>1. CASE i \in 1..Len(s)
    BY <1>6, <2>1
  <2>2. CASE i \notin 1..Len(s)
    <3>1. i - Len(s) \in 1..Len(t) /\ Len(s) + (i - Len(s)) = i
      BY <1>5, <2>2
    <3>2. QED
      BY <1>7, <3>1
  <2>3. QED
    BY <2>1, <2>2
<1>9. /\ IsSeq(a) /\ Len(a) = n /\ IsSeq(b) /\ Len(b) = n
  BY <1>3, <1>4 DEF a, b
<1>10. a = [i \in 1..n |-> a[i]] /\ b = [i \in 1..n |-> b[i]]
  BY <1>9 DEF IsSeq
<1>11. a = b
  BY <1>8, <1>10
<1>12. QED
  BY <1>3, <1>11 DEF a, b

LEMMA SameIf == ASSUME NEW c, NEW d, NEW x, c <=> d PROVE If(c, x) = If(d, x)
BY DEF If

\* What the conditions come to, in the words of the annotations.
LEMMA Conditions ==
    ASSUME CaseOK
    PROVE  /\ Cfg.basicAuth # <<>> <=>
                 (Ann.basicAuth /\ Readable(case.objs.auth) /\ Bcrypt(case.objs.auth) # {})
           /\ \A i \in DOMAIN Cfg.basicAuth : Cfg.basicAuth[i] \in Bcrypt(case.objs.auth)
           /\ Cfg.limitRPS > 0 <=> (Ann.limitRPS # <<>> /\ Ann.limitRPS[1] > 0)
           /\ Cfg.rewriteTarget = Ann.rewriteTarget
           /\ ~NoHeaders(Cfg.responseHeaders) <=> \E i \in DOMAIN Ann.responseHeaders : TRUE
           /\ WafEnabled(case.sec, Cfg) <=>
                 (Enabled(Ann.waf) \/ (case.sec.waf /\ Ann.waf # "off"))
           /\ Cfg.authPolicy # <<>> <=>
                 /\ Ann.authPolicy /\ Readable(case.objs.policy)
                 /\ case.objs.policy.lines = <<"handler">>
<1>1. /\ Cfg.basicAuth # <<>> <=>
            (Ann.basicAuth /\ Readable(case.objs.auth) /\ Bcrypt(case.objs.auth) # {})
      /\ \A i \in DOMAIN Cfg.basicAuth : Cfg.basicAuth[i] \in Bcrypt(case.objs.auth)
  <2> DEFINE o == case.objs.auth
             S == {l \in Elems(o.lines) : IsAccount(l)}
             k == Keep(o.lines, S)
             fetched == IF o.found /\ o.key /\ k # <<>> THEN <<k>> ELSE <<>>
  <2>1. Cfg.basicAuth = IF Ann.basicAuth /\ fetched # <<>> THEN fetched[1] ELSE <<>>
    BY DEF Cfg, ResolveAnnotations, ResolveBasicAuth, FetchBasicAuthAccounts
  <2>2. S = Bcrypt(o) /\ S \subseteq Elems(o.lines)
    BY DEF IsAccount, Bcrypt
  <2>3. IsSeq(o.lines)
    BY AnnType, SeqIsSeq
  <2> HIDE DEF S
  <2>4. Elems(k) = S /\ (k = <<>> <=> S = {})
    <3>1. Elems(k) = {x \in Elems(o.lines) : x \in S} /\ (k = <<>> <=> Elems(k) = {})
      BY <2>3, KeepElems
    <3>2. {x \in Elems(o.lines) : x \in S} = S
      BY <2>2
    <3>3. QED
      BY <3>1, <3>2
  <2> HIDE DEF k
  <2>5. Cfg.basicAuth = IF Ann.basicAuth /\ o.found /\ o.key /\ k # <<>> THEN k ELSE <<>>
    BY <2>1
  <2>6. \A i \in DOMAIN k : k[i] \in S
    BY <2>4 DEF Elems
  <2>7. Cfg.basicAuth # <<>> <=> Ann.basicAuth /\ Readable(o) /\ Bcrypt(o) # {}
    BY <2>2, <2>4, <2>5 DEF Readable
  <2>8. \A i \in DOMAIN Cfg.basicAuth : Cfg.basicAuth[i] \in Bcrypt(o)
    <3>1. CASE Cfg.basicAuth = <<>>
      BY <3>1
    <3>2. CASE Cfg.basicAuth # <<>>
      <4>1. Cfg.basicAuth = k
        BY <2>5, <3>2
      <4>2. QED
        BY <2>2, <2>6, <4>1
    <3>3. QED
      BY <3>1, <3>2
  <2>9. QED
    BY <2>7, <2>8
<1>2. Cfg.limitRPS > 0 <=> (Ann.limitRPS # <<>> /\ Ann.limitRPS[1] > 0)
  BY DEF Cfg, ResolveAnnotations, ResolveRPS
<1>3. Cfg.rewriteTarget = Ann.rewriteTarget
  BY DEF Cfg, ResolveAnnotations
<1>4. ~NoHeaders(Cfg.responseHeaders) <=> \E i \in DOMAIN Ann.responseHeaders : TRUE
  <2> DEFINE h == Ann.responseHeaders
             set == {h[i].name : i \in {j \in DOMAIN h : h[j].op = "set"}}
             del == {h[i].name : i \in {j \in DOMAIN h : h[j].op = "delete"}}
  <2>1. NoHeaders(Cfg.responseHeaders) <=> set = {} /\ del = {}
    BY DEF Cfg, ResolveAnnotations, ParseHeaders, NoHeaders, Ann
  <2>2. \A i \in DOMAIN h : h[i].op = "set" \/ h[i].op = "delete"
    <3>1. h \in Seq(HeaderType)
      BY AnnType
    <3> HIDE DEF h
    <3>2. \A i \in DOMAIN h : h[i] \in HeaderType
      BY <3>1
    <3>3. QED
      BY <3>2 DEF HeaderType
  <2>3. QED
    BY <2>1, <2>2
<1>5. WafEnabled(case.sec, Cfg) <=> (Enabled(Ann.waf) \/ (case.sec.waf /\ Ann.waf # "off"))
  <2>1. /\ Cfg.waf = ResolveWAF(Ann)
        /\ \A v, w : <<v, w>> # <<>> /\ <<v, w>>[1] = v /\ <<v, w>>[2] = w
    BY DEF Cfg, ResolveAnnotations
  <2>2. CASE Ann.waf = "off"
    <3>1. Cfg.waf = <<FALSE, "">>
      BY <2>1, <2>2 DEF ResolveWAF
    <3>2. QED
      BY <2>1, <2>2, <3>1 DEF WafEnabled, Enabled
  <2>3. CASE Ann.waf = "on"
    <3>1. Cfg.waf = <<TRUE, "On">>
      BY <2>1, <2>3 DEF ResolveWAF
    <3>2. QED
      BY <2>1, <2>3, <3>1 DEF WafEnabled, Enabled
  <2>4. CASE Ann.waf = "detection"
    <3>1. Cfg.waf = <<TRUE, "DetectionOnly">>
      BY <2>1, <2>4 DEF ResolveWAF
    <3>2. QED
      BY <2>1, <2>4, <3>1 DEF WafEnabled, Enabled
  <2>5. CASE Ann.waf \notin {"off", "on", "detection"}
    <3>1. Cfg.waf = <<>>
      BY <2>1, <2>5 DEF ResolveWAF
    <3>2. QED
      BY <2>5, <3>1 DEF WafEnabled, Enabled
  <2>6. QED
    BY <2>2, <2>3, <2>4, <2>5
<1>6. Cfg.authPolicy # <<>> <=>
         /\ Ann.authPolicy /\ Readable(case.objs.policy)
         /\ case.objs.policy.lines = <<"handler">>
  <2> DEFINE o == case.objs.policy
             fetched == FetchAuthPolicyHandler(o)
  <2>1. Cfg.authPolicy = IF Ann.authPolicy /\ fetched # <<"null">> THEN fetched ELSE <<>>
    BY DEF Cfg, ResolveAnnotations, ResolvePolicy
  <2>2. fetched = IF o.found /\ o.key /\ o.lines # <<"no JSON">> THEN o.lines ELSE <<>>
    BY DEF FetchAuthPolicyHandler
  <2>3. o.lines \in {<<>>, <<"no JSON">>, <<"null">>, <<"handler">>}
    BY AnnType
  <2>4. /\ <<"handler">> # <<>> /\ <<"handler">> # <<"null">>
        /\ <<"handler">> # <<"no JSON">>
    OBVIOUS
  <2> HIDE DEF fetched
  <2>5. QED
    BY <2>1, <2>2, <2>3, <2>4 DEF Readable
<1>7. QED
  BY <1>1, <1>2, <1>3, <1>4, <1>5, <1>6

\* The checks are those that are required, in their order.
LEMMA ChecksNamed ==
    ASSUME CaseOK
    PROVE  Names(Chk) =
             If(Ann.basicAuth /\ Readable(case.objs.auth) /\ Bcrypt(case.objs.auth) # {},
                "authentication")
             \o If(Cfg.maxBodySize > 0, "request_body")
             \o If(Ann.limitRPS # <<>> /\ Ann.limitRPS[1] > 0, "rate_limit")
             \o If(Ann.rewriteTarget # "", "rewrite")
             \o If(case.sec.securityHeaders /\ case.ing.tls, "security_headers")
             \o If(\E i \in DOMAIN Ann.responseHeaders : TRUE, "response_headers")
             \o If(Enabled(Ann.waf) \/ (case.sec.waf /\ Ann.waf # "off"), "waf")
             \o If(Ann.authPolicy /\ Readable(case.objs.policy)
                   /\ case.objs.policy.lines = <<"handler">>, "policy")
<1> DEFINE x1 == BasicAuthHandler(Cfg.basicAuth)
           x2 == [handler |-> "request_body", max |-> Cfg.maxBodySize]
           x3 == RateLimitHandler(Cfg.limitRPS)
           x4 == [handler |-> "rewrite", uri |-> Cfg.rewriteTarget]
           x5 == SecurityHeadersHandler
           x6 == ResponseHeadersHandler(Cfg.responseHeaders)
           x7 == Engine
           x8 == [handler |-> "policy"]
           c1 == Cfg.basicAuth # <<>>
           c2 == Cfg.maxBodySize > 0
           c3 == Cfg.limitRPS > 0
           c4 == Cfg.rewriteTarget # ""
           c5 == case.sec.securityHeaders /\ ~~case.ing.tls
           c6 == ~NoHeaders(Cfg.responseHeaders)
           c7 == WafEnabled(case.sec, Cfg)
           c8 == Cfg.authPolicy # <<>>
<1>1. Chk = If(c1, x1) \o If(c2, x2) \o If(c3, x3) \o If(c4, x4)
            \o If(c5, x5) \o If(c6, x6) \o If(c7, x7) \o If(c8, x8)
  BY DEF Chk, Checks, Engine
<1>2. /\ x1.handler = "authentication" /\ x2.handler = "request_body"
      /\ x3.handler = "rate_limit" /\ x4.handler = "rewrite"
      /\ x5.handler = "security_headers" /\ x6.handler = "response_headers"
      /\ x7.handler = "waf" /\ x8.handler = "policy"
  BY DEF BasicAuthHandler, RateLimitHandler, SecurityHeadersHandler,
         ResponseHeadersHandler, Engine, WafHandler
<1> DEFINE d1 == Ann.basicAuth /\ Readable(case.objs.auth)
                 /\ Bcrypt(case.objs.auth) # {}
           d3 == Ann.limitRPS # <<>> /\ Ann.limitRPS[1] > 0
           d4 == Ann.rewriteTarget # ""
           d5 == case.sec.securityHeaders /\ case.ing.tls
           d6 == \E i \in DOMAIN Ann.responseHeaders : TRUE
           d7 == Enabled(Ann.waf) \/ (case.sec.waf /\ Ann.waf # "off")
           d8 == Ann.authPolicy /\ Readable(case.objs.policy)
                 /\ case.objs.policy.lines = <<"handler">>
<1>3. /\ (c1 <=> d1) /\ (c3 <=> d3) /\ (c4 <=> d4) /\ (c5 <=> d5)
      /\ (c6 <=> d6) /\ (c7 <=> d7) /\ (c8 <=> d8)
  BY Conditions
<1> HIDE DEF x1, x2, x3, x4, x5, x6, x7, x8, c1, c2, c3, c4, c5, c6, c7, c8,
             d1, d3, d4, d5, d6, d7, d8
<1>4. /\ If(c1, "authentication") = If(d1, "authentication")
      /\ If(c3, "rate_limit") = If(d3, "rate_limit")
      /\ If(c4, "rewrite") = If(d4, "rewrite")
      /\ If(c5, "security_headers") = If(d5, "security_headers")
      /\ If(c6, "response_headers") = If(d6, "response_headers")
      /\ If(c7, "waf") = If(d7, "waf")
      /\ If(c8, "policy") = If(d8, "policy")
  BY <1>3, SameIf
<1> DEFINE s1 == If(c1, x1)  s2 == If(c2, x2)  s3 == If(c3, x3)  s4 == If(c4, x4)
           s5 == If(c5, x5)  s6 == If(c6, x6)  s7 == If(c7, x7)  s8 == If(c8, x8)
<1>5. /\ IsSeq(s1) /\ IsSeq(s2) /\ IsSeq(s3) /\ IsSeq(s4)
      /\ IsSeq(s5) /\ IsSeq(s6) /\ IsSeq(s7) /\ IsSeq(s8)
  BY IfSeq
<1>6. /\ Names(s1) = If(c1, "authentication") /\ Names(s2) = If(c2, "request_body")
      /\ Names(s3) = If(c3, "rate_limit") /\ Names(s4) = If(c4, "rewrite")
      /\ Names(s5) = If(c5, "security_headers")
      /\ Names(s6) = If(c6, "response_headers")
      /\ Names(s7) = If(c7, "waf") /\ Names(s8) = If(c8, "policy")
  <2>1. /\ Names(s1) = If(c1, x1.handler) /\ Names(s2) = If(c2, x2.handler)
        /\ Names(s3) = If(c3, x3.handler) /\ Names(s4) = If(c4, x4.handler)
        /\ Names(s5) = If(c5, x5.handler) /\ Names(s6) = If(c6, x6.handler)
        /\ Names(s7) = If(c7, x7.handler) /\ Names(s8) = If(c8, x8.handler)
    BY NamesIf
  <2>2. QED
    BY <1>2, <2>1
<1> HIDE DEF s1, s2, s3, s4, s5, s6, s7, s8
<1>7. Names(s1 \o s2) = Names(s1) \o Names(s2) /\ IsSeq(s1 \o s2)
  BY <1>5, Concat, NamesConcat
<1>8. Names(s1 \o s2 \o s3) = Names(s1 \o s2) \o Names(s3) /\ IsSeq(s1 \o s2 \o s3)
  BY <1>5, <1>7, Concat, NamesConcat
<1>9. /\ Names(s1 \o s2 \o s3 \o s4) = Names(s1 \o s2 \o s3) \o Names(s4)
      /\ IsSeq(s1 \o s2 \o s3 \o s4)
  BY <1>5, <1>8, Concat, NamesConcat
<1>10. /\ Names(s1 \o s2 \o s3 \o s4 \o s5) = Names(s1 \o s2 \o s3 \o s4) \o Names(s5)
       /\ IsSeq(s1 \o s2 \o s3 \o s4 \o s5)
  BY <1>5, <1>9, Concat, NamesConcat
<1>11. /\ Names(s1 \o s2 \o s3 \o s4 \o s5 \o s6)
            = Names(s1 \o s2 \o s3 \o s4 \o s5) \o Names(s6)
       /\ IsSeq(s1 \o s2 \o s3 \o s4 \o s5 \o s6)
  BY <1>5, <1>10, Concat, NamesConcat
<1>12. /\ Names(s1 \o s2 \o s3 \o s4 \o s5 \o s6 \o s7)
            = Names(s1 \o s2 \o s3 \o s4 \o s5 \o s6) \o Names(s7)
       /\ IsSeq(s1 \o s2 \o s3 \o s4 \o s5 \o s6 \o s7)
  BY <1>5, <1>11, Concat, NamesConcat
<1>13. Names(s1 \o s2 \o s3 \o s4 \o s5 \o s6 \o s7 \o s8)
            = Names(s1 \o s2 \o s3 \o s4 \o s5 \o s6 \o s7) \o Names(s8)
  BY <1>5, <1>12, NamesConcat
<1>14. Chk = s1 \o s2 \o s3 \o s4 \o s5 \o s6 \o s7 \o s8
  BY <1>1 DEF s1, s2, s3, s4, s5, s6, s7, s8
<1>15. Names(Chk) = Names(s1) \o Names(s2) \o Names(s3) \o Names(s4)
                    \o Names(s5) \o Names(s6) \o Names(s7) \o Names(s8)
  BY <1>7, <1>8, <1>9, <1>10, <1>11, <1>12, <1>13, <1>14
<1>16. QED
  BY <1>4, <1>6, <1>15 DEF c2, d1, d3, d4, d5, d6, d7, d8

\* A WAF that is to block does, unless the rule has been removed.
LEMMA EngineBlocks ==
    ASSUME CaseOK, Blocking, ~Removed
    PROVE  WafEnabled(case.sec, Cfg) /\ Blocks(Engine.directives)
<1> DEFINE o == case.objs.rules
           S == Elems(o.lines) \ {"", "#"}
           k == Keep(o.lines, S)
           dirs == Cfg.wafDirectives
           pre == <<"SecRuleEngine DetectionOnly", "Include @owasp_crs">>
           on == <<"SecRuleEngine On">>
           D == (pre \o dirs) \o on
           fetched == IF o.found /\ o.key THEN <<k>> ELSE <<>>
<1>1. dirs = IF Ann.wafRules /\ fetched # <<>> THEN fetched[1] ELSE <<>>
  BY DEF Cfg, ResolveAnnotations, ResolveDirectives, FetchWAFDirectives
<1>2. IsSeq(o.lines)
  BY AnnType, SeqIsSeq
<1>3. IsSeq(k) /\ Elems(k) \subseteq Elems(o.lines)
  <2> HIDE DEF S
  <2>1. QED
    BY <1>2, KeepElems
<1> HIDE DEF k
<1>4. dirs = IF Ann.wafRules /\ Readable(o) THEN k ELSE <<>>
  BY <1>1 DEF Readable
<1>5. IsSeq(dirs) /\ "SecRuleRemoveById" \notin Elems(dirs)
  BY <1>3, <1>4, Empty DEF Removed
<1>6. WafEnabled(case.sec, Cfg) /\ WafMode(case.sec, Cfg) = "On"
  <2>1. /\ Cfg.waf = ResolveWAF(Ann)
        /\ \A v, w : <<v, w>> # <<>> /\ <<v, w>>[1] = v /\ <<v, w>>[2] = w
    BY DEF Cfg, ResolveAnnotations
  <2>2. CASE Ann.waf = "on"
    <3>1. Cfg.waf = <<TRUE, "On">>
      BY <2>1, <2>2 DEF ResolveWAF
    <3>2. QED
      BY <2>1, <3>1 DEF WafEnabled, WafMode
  <2>3. CASE Ann.waf # "on"
    <3>1. /\ Ann.waf \notin {"off", "on", "detection"}
          /\ case.sec.waf /\ case.sec.wafMode = "On"
      BY <2>3 DEF Blocking
    <3>2. Cfg.waf = <<>>
      BY <2>1, <3>1 DEF ResolveWAF
    <3>3. QED
      BY <3>1, <3>2 DEF WafEnabled, WafMode
  <2>4. QED
    BY <2>2, <2>3
<1>7. Engine.directives = D
  BY <1>6 DEF Engine, WafHandler
<1> HIDE DEF dirs
<1>8. /\ IsSeq(pre) /\ Len(pre) = 2 /\ pre[2] = "Include @owasp_crs"
      /\ Elems(pre) = {"SecRuleEngine DetectionOnly", "Include @owasp_crs"}
  <2> DEFINE x == "SecRuleEngine DetectionOnly"
             y == "Include @owasp_crs"
  <2>1. pre = <<x>> \o <<y>>
    BY Pair
  <2> HIDE DEF pre, x, y
  <2>2. /\ IsSeq(<<x>>) /\ Len(<<x>>) = 1 /\ Elems(<<x>>) = {x}
        /\ IsSeq(<<y>>) /\ Len(<<y>>) = 1 /\ <<y>>[1] = y /\ Elems(<<y>>) = {y}
    BY Single
  <2>3. /\ IsSeq(pre) /\ Len(pre) = Len(<<x>>) + Len(<<y>>)
        /\ \A i \in 1..Len(<<y>>) : pre[Len(<<x>>) + i] = <<y>>[i]
        /\ Elems(pre) = Elems(<<x>>) \cup Elems(<<y>>)
    BY <2>1, <2>2, Concat
  <2>4. 1 \in 1..Len(<<y>>) /\ Len(<<x>>) + 1 = 2 /\ Len(<<x>>) + Len(<<y>>) = 2
    BY <2>2
  <2>5. pre[2] = y
    BY <2>2, <2>3, <2>4
  <2>6. Elems(pre) = {x, y}
    BY <2>2, <2>3
  <2>7. QED
    BY <2>3, <2>4, <2>5, <2>6 DEF x, y
<1>9. IsSeq(on) /\ Len(on) = 1 /\ on[1] = "SecRuleEngine On" /\ Elems(on) = {"SecRuleEngine On"}
  BY Single
<1> HIDE DEF pre, on
<1>18. Len(pre) = 2
  BY <1>8
<1>10. /\ IsSeq(pre \o dirs) /\ Len(pre \o dirs) = 2 + Len(dirs)
       /\ (pre \o dirs)[2] = "Include @owasp_crs"
       /\ Elems(pre \o dirs) = Elems(pre) \cup Elems(dirs)
  <2>1. /\ IsSeq(pre \o dirs) /\ Len(pre \o dirs) = Len(pre) + Len(dirs)
        /\ \A i \in 1..Len(pre) : (pre \o dirs)[i] = pre[i]
        /\ Elems(pre \o dirs) = Elems(pre) \cup Elems(dirs)
    BY <1>5, <1>8, Concat
  <2>2. 2 \in 1..Len(pre)
    BY <1>18
  <2>3. QED
    BY <1>8, <1>18, <2>1, <2>2
<1>11. Len(dirs) \in Nat
  BY <1>5 DEF IsSeq
<1> DEFINE n == Len(dirs) + 3
<1>12. /\ IsSeq(D) /\ Len(D) = n
       /\ D[2] = "Include @owasp_crs"
       /\ D[n] = "SecRuleEngine On"
       /\ Elems(D) = Elems(pre \o dirs) \cup Elems(on)
  <2>1. /\ IsSeq(D) /\ Len(D) = Len(pre \o dirs) + Len(on)
        /\ \A i \in 1..Len(pre \o dirs) : D[i] = (pre \o dirs)[i]
        /\ \A i \in 1..Len(on) : D[Len(pre \o dirs) + i] = on[i]
        /\ Elems(D) = Elems(pre \o dirs) \cup Elems(on)
    <3> DEFINE e == pre \o dirs
    <3>1. IsSeq(e) /\ IsSeq(on)
      BY <1>9, <1>10
    <3> HIDE DEF e
    <3>2. /\ IsSeq(e \o on) /\ Len(e \o on) = Len(e) + Len(on)
          /\ \A i \in 1..Len(e) : (e \o on)[i] = e[i]
          /\ \A i \in 1..Len(on) : (e \o on)[Len(e) + i] = on[i]
          /\ Elems(e \o on) = Elems(e) \cup Elems(on)
      BY <3>1, Concat
    <3>3. QED
      BY <3>2 DEF e
  <2>4. Len(pre \o dirs) = 2 + Len(dirs) /\ Len(on) = 1
    BY <1>9, <1>10
  <2>2. 2 \in 1..Len(pre \o dirs) /\ 1 \in 1..Len(on)
        /\ Len(pre \o dirs) + 1 = n /\ Len(pre \o dirs) + Len(on) = n
    BY <2>4, <1>11
  <2>3. QED
    BY <1>9, <1>10, <2>1, <2>2
<1> HIDE DEF D
<1>19. IsSeq(D) /\ Len(D) = n
  BY <1>12
<1>13. DOMAIN D = 1..n
  BY <1>19 DEF IsSeq
<1>14. \A i \in DOMAIN D : D[i] # "SecRuleRemoveById"
  <2>1. "SecRuleRemoveById" \notin Elems(D)
    BY <1>5, <1>8, <1>9, <1>10, <1>12
  <2>2. QED
    BY <2>1 DEF Elems
<1>15. n \in DOMAIN D /\ 2 \in DOMAIN D /\ \A i \in DOMAIN D : i <= n
  BY <1>11, <1>13
<1>16. Blocks(D)
  <2>1. n \in Positions(D, Engines) /\ \A j \in Positions(D, Engines) : j <= n
    BY <1>12, <1>15 DEF Positions, Engines
  <2>2. Positions(D, {"SecRuleRemoveById"}) = {}
    BY <1>14 DEF Positions
  <2>3. 2 \in Positions(D, {"Include @owasp_crs"})
    BY <1>12, <1>15 DEF Positions
  <2>4. QED
    BY <1>12, <2>1, <2>2, <2>3 DEF Blocks
<1>17. QED
  BY <1>6, <1>7, <1>16

\* An integer that fits is computed as it is.
LEMMA WrappedFits ==
    ASSUME NEW i \in Int
    PROVE  /\ Wrapped(i) \in Int
           /\ (-IntLimit <= i /\ i < IntLimit) => Wrapped(i) = i
<1>1. IntLimit \in Nat \ {0}
  BY WidthAssumption
<1>2. i + IntLimit \in Int /\ 2 * IntLimit \in Nat \ {0}
  BY <1>1
<1>3. (i + IntLimit) % (2 * IntLimit) \in Int
  BY <1>2
<1>4. Wrapped(i) \in Int
  BY <1>1, <1>3 DEF Wrapped
<1>5. ASSUME -IntLimit <= i, i < IntLimit
      PROVE  Wrapped(i) = i
  BY <1>1, <1>5 DEF Wrapped
<1>6. QED
  BY <1>4, <1>5

LEMMA FirstElement == ASSUME NEW T, NEW s \in Seq(T), s # <<>> PROVE s[1] \in T
OBVIOUS

LEMMA Product == ASSUME NEW a \in Nat \ {0}, NEW b \in Nat \ {0} PROVE a * b \in Nat \ {0}
OBVIOUS

\* The number of a positive product is at most the product.
LEMMA Smaller ==
    ASSUME NEW n \in Int, NEW unit \in Nat \ {0}, n * unit > 0
    PROVE  n > 0 /\ n <= n * unit
<1>1. ~(n <= 0)
  <2>1. SUFFICES ASSUME n <= 0 PROVE FALSE
    OBVIOUS
  <2>2. n * unit <= 0
    BY <2>1
  <2>3. QED
    BY <2>2
<1>2. QED
  BY <1>1

\* The limit is the size that the annotation gives, where that fits.
LEMMA BodySize ==
    ASSUME CaseOK
    PROVE  /\ Cfg.maxBodySize \in Int
           /\ Cfg.maxBodySize > 0 =>
                 Ann.bodySize # <<>> /\ (Fits => Cfg.maxBodySize = Bytes)
           /\ (Ann.bodySize # <<>> /\ Fits /\ Bytes > 0) => Cfg.maxBodySize = Bytes
           /\ Ann.bodySize # <<>> => Bytes \in Int
<1>1. Cfg.maxBodySize = IF Ann.bodySize = <<>> THEN 0 ELSE ParseBodySize(Ann.bodySize[1])
  BY DEF Cfg, ResolveAnnotations, ResolveBodySize
<1>2. CASE Ann.bodySize = <<>>
  BY <1>1, <1>2
<1>3. CASE Ann.bodySize # <<>>
  <2> DEFINE size == Ann.bodySize[1]
             unit == UnitSize[size.unit]
  <2>1. size \in [n: Seq(Int) \ {<<>>}, unit: Units]
    <3> DEFINE b == Ann.bodySize
    <3>1. b \in Seq([n: Seq(Int) \ {<<>>}, unit: Units]) /\ b # <<>>
      BY <1>3, AnnType
    <3> HIDE DEF b
    <3>2. b[1] \in [n: Seq(Int) \ {<<>>}, unit: Units]
      BY <3>1, FirstElement
    <3>3. QED
      BY <3>2 DEF b
  <2> HIDE DEF size
  <2>2. size.n \in Seq(Int) /\ size.n # <<>> /\ size.n[1] \in Int /\ size.unit \in Units
    BY <2>1
  <2>3. unit \in Nat \ {0}
    <3>1. Kibi \in Nat \ {0}
      BY WidthAssumption
    <3>2. Kibi * Kibi \in Nat \ {0}
      BY <3>1
    <3>3. Kibi * Kibi * Kibi \in Nat \ {0}
      BY <3>1, <3>2, Product
    <3> DEFINE byte == ""
    <3>4. unit = CASE size.unit = byte -> 1 [] size.unit = "k" -> Kibi
                   [] size.unit = "m" -> Kibi * Kibi
                   [] size.unit = "g" -> Kibi * Kibi * Kibi
      BY <2>2 DEF UnitSize
    <3>5. size.unit \in {byte, "k", "m", "g"}
      BY <2>2 DEF Units
    <3>7. byte # "k" /\ byte # "m" /\ byte # "g"
      OBVIOUS
    <3> HIDE DEF byte
    <3>6. QED
      BY <3>1, <3>2, <3>3, <3>4, <3>5, <3>7
  <2>4. Bytes = size.n[1] * unit
    BY DEF Bytes, size
  <2>5. Cfg.maxBodySize = IF ~Parses(size.n) THEN 0 ELSE Wrapped(Bytes)
    BY <1>1, <1>3, <2>4 DEF ParseBodySize, size
  <2> HIDE DEF unit
  <2>6. Bytes \in Int
    BY <2>2, <2>3, <2>4
  <2>7. (Bytes > 0 /\ Fits) => Parses(size.n)
    <3> SUFFICES ASSUME Bytes > 0, Fits PROVE Parses(size.n)
      OBVIOUS
    <3>1. IntLimit \in Nat
      BY WidthAssumption
    <3>2. size.n[1] > 0 /\ size.n[1] <= Bytes
      BY <2>2, <2>3, <2>4, Smaller
    <3>3. size.n[1] < IntLimit
      BY <2>2, <2>6, <3>1, <3>2 DEF Fits
    <3>4. size.n[1] \in -IntLimit..IntLimit-1
      BY <2>2, <3>1, <3>2, <3>3
    <3>5. size.n # <<-1>>
      <4>1. SUFFICES ASSUME size.n = <<-1>> PROVE FALSE
        OBVIOUS
      <4>2. size.n[1] = -1
        BY <4>1
      <4>3. QED
        BY <3>2, <4>2
    <3>6. QED
      BY <3>4, <3>5 DEF Parses
  <2>8. Wrapped(Bytes) \in Int /\ (Fits => Wrapped(Bytes) = Bytes)
    BY <2>6, WrappedFits DEF Fits
  <2>9. QED
    BY <1>3, <2>5, <2>6, <2>7, <2>8
<1>4. QED
  BY <1>2, <1>3

\* What the backend gets: nothing that is to be deleted, and what is to be set.
LEMMA HeadersSent ==
    ASSUME CaseOK, NEW u, NEW h \in Sent(ReverseProxy(u, case.sec, Cfg, ~case.ing.tls)),
           NEW i \in DOMAIN Ann.requestHeaders
    PROVE  LET part == Ann.requestHeaders[i]
           IN  /\ part.op = "delete" => Canonical(part.name) \notin DOMAIN h
               /\ (/\ part.op = "set" /\ part.name = Canonical(part.name)
                   /\ \A j \in DOMAIN Ann.requestHeaders :
                         j = i \/ Canonical(Ann.requestHeaders[j].name) # part.name) =>
                     h[part.name] = part.value
<1> DEFINE rs == Ann.requestHeaders
           setters == {j \in DOMAIN rs : rs[j].op = "set"}
           dels == {rs[j].name : j \in {l \in DOMAIN rs : rs[l].op = "delete"}}
           value(n) == rs[CHOOSE l \in DOMAIN rs :
                             /\ rs[l].op = "set" /\ rs[l].name = n
                             /\ \A j \in DOMAIN rs :
                                   (rs[j].op = "set" /\ rs[j].name = n) => j <= l].value
           aset == [n \in {rs[j].name : j \in setters} |-> value(n)]
           builtin == {"X-Forwarded-For", "X-Forwarded-Proto", "Host", "X-Forwarded-Prefix"}
           hs == RequestHeaders(case.sec, Cfg, ~case.ing.tls)
           names == {Canonical(n) : n \in DOMAIN hs} \ {Canonical(n) : n \in dels}
<1>1. Cfg.requestHeaders = [set |-> aset, delete |-> dels]
  BY DEF Cfg, ResolveAnnotations, ParseHeaders
<1>2. \E f : DOMAIN f \subseteq builtin /\ hs = With(f, aset)
  <2> DEFINE realIP == [n \in IF case.sec.injectRealIP
                              THEN {"X-Forwarded-For", "X-Forwarded-Proto"} ELSE {} |->
                          IF n = "X-Forwarded-For" THEN "client_ip"
                          ELSE IF ~case.ing.tls THEN "http" ELSE "https"]
             vhost == [n \in IF Cfg.upstreamVhost # "" THEN {"Host"} ELSE {} |->
                          Cfg.upstreamVhost]
             prefix == [n \in IF Cfg.xForwardedPrefix # "" THEN {"X-Forwarded-Prefix"}
                                                          ELSE {} |->
                          Cfg.xForwardedPrefix]
             f == With(With(realIP, vhost), prefix)
  <2>1. hs = With(f, Cfg.requestHeaders.set)
    BY DEF RequestHeaders
  <2>2. Cfg.requestHeaders.set = aset
    <3> HIDE DEF aset, dels
    <3>1. QED
      BY <1>1
  <2>3. DOMAIN f = DOMAIN realIP \cup DOMAIN vhost \cup DOMAIN prefix
    <3> HIDE DEF realIP, vhost, prefix
    <3>1. QED
      BY DEF With
  <2>4. DOMAIN realIP \subseteq builtin /\ DOMAIN vhost \subseteq builtin
        /\ DOMAIN prefix \subseteq builtin
    OBVIOUS
  <2> HIDE DEF f, aset
  <2>5. QED
    BY <2>1, <2>2, <2>3, <2>4
<1>3. PICK f : DOMAIN f \subseteq builtin /\ hs = With(f, aset)
  BY <1>2
<1>4. DOMAIN aset = {rs[j].name : j \in setters} /\ \A n \in DOMAIN aset : aset[n] = value(n)
  OBVIOUS
<1>5. \A n \in builtin : Canonical(n) = n
  BY DEF Canonical
<1>6. /\ h \in [names -> {hs[n] : n \in DOMAIN hs}]
      /\ \A n \in names : \E m \in DOMAIN hs : Canonical(m) = n /\ h[n] = hs[m]
  <2> DEFINE pr == ReverseProxy(u, case.sec, Cfg, ~case.ing.tls)
  <2>1. pr.set = hs /\ pr.delete = dels
    <3>1. pr.set = hs /\ pr.delete = Cfg.requestHeaders.delete
      BY DEF ReverseProxy
    <3> HIDE DEF hs, aset, dels, pr
    <3>2. QED
      BY <1>1, <3>1
  <2> HIDE DEF pr, hs, dels
  <2>2. h \in Sent(pr)
    BY DEF pr
  <2> DEFINE N == {Canonical(n) : n \in DOMAIN pr.set} \ {Canonical(n) : n \in pr.delete}
             V == {pr.set[n] : n \in DOMAIN pr.set}
  <2>3. /\ h \in [N -> V]
        /\ \A n \in N : \E m \in DOMAIN pr.set : Canonical(m) = n /\ h[n] = pr.set[m]
    BY <2>2 DEF Sent
  <2>4. N = names /\ V = {hs[n] : n \in DOMAIN hs}
    BY <2>1
  <2> HIDE DEF N, V
  <2>5. \A n \in names : \E m \in DOMAIN pr.set : Canonical(m) = n /\ h[n] = pr.set[m]
    BY <2>3, <2>4
  <2>6. QED
    BY <2>1, <2>3, <2>4, <2>5
<1> DEFINE part == rs[i]
<1> HIDE DEF aset, hs, builtin, value
<1>7. /\ DOMAIN hs = DOMAIN f \cup DOMAIN aset
      /\ \A n \in DOMAIN aset : hs[n] = aset[n]
  BY <1>3 DEF With
<1>8. DOMAIN h = names
  BY <1>6
<1>9. ASSUME part.op = "delete"
      PROVE  Canonical(part.name) \notin DOMAIN h
  <2>1. part.name \in dels
    BY <1>9
  <2>2. Canonical(part.name) \in {Canonical(n) : n \in dels}
    BY <2>1
  <2>3. QED
    BY <1>8, <2>2
<1>10. ASSUME part.op = "set", part.name = Canonical(part.name),
              \A j \in DOMAIN rs : j = i \/ Canonical(rs[j].name) # part.name
       PROVE  h[part.name] = part.value
  <2> DEFINE n == part.name
  <2>1. n \in DOMAIN aset
    BY <1>4, <1>10
  <2>2. n \in DOMAIN hs /\ hs[n] = value(n)
    BY <1>4, <1>7, <2>1
  <2>3. n \notin {Canonical(m) : m \in dels}
    <3> SUFFICES ASSUME NEW m \in dels PROVE Canonical(m) # n
      OBVIOUS
    <3>1. PICK j \in DOMAIN rs : rs[j].op = "delete" /\ rs[j].name = m
      OBVIOUS
    <3>2. j # i
      BY <1>10, <3>1
    <3>3. QED
      BY <1>10, <3>1, <3>2
  <2>4. n \in {Canonical(m) : m \in DOMAIN hs}
    BY <1>10, <2>2
  <2>5. n \in names
    BY <2>3, <2>4
  <2>6. PICK m \in DOMAIN hs : Canonical(m) = n /\ h[n] = hs[m]
    BY <1>6, <2>5
  <2>7. m = n
    <3>1. CASE m \in DOMAIN f
      <4>1. m \in builtin
        BY <1>3, <3>1
      <4>2. QED
        BY <1>5, <2>6, <4>1
    <3>2. CASE m \in DOMAIN aset
      <4>1. PICK j \in setters : rs[j].name = m
        BY <1>4, <3>2
      <4>2. j = i
        BY <1>10, <2>6, <4>1
      <4>3. QED
        BY <4>1, <4>2
    <3>3. QED
      BY <1>7, <3>1, <3>2
  <2>8. i \in Int
    <3>1. rs \in Seq(HeaderType)
      BY AnnType
    <3> HIDE DEF rs
    <3>2. DOMAIN rs \subseteq Int
      BY <3>1
    <3>3. QED
      BY <3>2 DEF rs
  <2>9. value(n) = part.value
    <3> DEFINE P(l) == /\ rs[l].op = "set" /\ rs[l].name = n
                       /\ \A j \in DOMAIN rs :
                             (rs[j].op = "set" /\ rs[j].name = n) => j <= l
    <3>1. i \in DOMAIN rs
      OBVIOUS
    <3>2. \A j \in DOMAIN rs : rs[j].name = n => j = i
      BY <1>10
    <3>3. P(i)
      BY <1>10, <2>8, <3>1, <3>2
    <3>4. \A l \in DOMAIN rs : P(l) => l = i
      BY <3>2
    <3>5. (CHOOSE l \in DOMAIN rs : P(l)) = i
      <4> HIDE DEF P
      <4>1. QED
        BY <3>1, <3>3, <3>4
    <3>6. QED
      BY <3>5 DEF value
  <2>10. QED
    BY <2>2, <2>6, <2>7, <2>9
<1>11. QED
  BY <1>9, <1>10

-----------------------------------------------------------------------------
(* Steps *)

\* What is said of the case does not change with the request's place.
LEMMA SameCase ==
    ASSUME case' = case
    PROVE  /\ Ann' = Ann /\ Req' = Req /\ Cfg' = Cfg
           /\ CaseOK' <=> CaseOK
           /\ StarAlone' <=> StarAlone
           /\ OriginAllowed' <=> OriginAllowed
           /\ Preflight' <=> Preflight
           /\ Admitted' <=> Admitted
           /\ Taken' <=> Taken
           /\ TakenRule' = TakenRule /\ Services' = Services
           /\ AllRegular' <=> AllRegular
           /\ TakenPaths' = TakenPaths
           /\ OnServer' = OnServer /\ OfRule' = OfRule
           /\ Several' <=> Several
           /\ Listed' <=> Listed
           /\ PreflightHandlers' = PreflightHandlers
           /\ Chk' = Chk /\ Engine' = Engine
<1>1. Ann' = Ann /\ Req' = Req
  BY DEF Ann, Req
<1>2. Cfg' = Cfg
  BY <1>1 DEF Cfg
<1>3. CaseOK' <=> CaseOK
  BY DEF CaseOK
<1>4. StarAlone' <=> StarAlone
  BY <1>1 DEF StarAlone
<1>5. OriginAllowed' <=> OriginAllowed
  BY <1>1, <1>4 DEF OriginAllowed
<1>6. Preflight' <=> Preflight
  BY <1>1, <1>5 DEF Preflight
<1>7. Admitted' <=> Admitted
  BY <1>1 DEF Admitted
<1>8. Aliases' = Aliases
  BY <1>1 DEF Aliases
<1>9. \A rule : TakenBy(rule)' <=> TakenBy(rule)
  BY <1>1, <1>8 DEF TakenBy
<1>10. Takers' = Takers
  BY <1>9 DEF Takers
<1>11. Redirected' <=> Redirected
  BY <1>1 DEF Redirected
<1>12. Taken' <=> Taken
  BY <1>1, <1>10, <1>11 DEF Taken
<1>13. TakenRule' = TakenRule
  BY <1>10 DEF TakenRule
<1>14. Services' = Services
  BY <1>13 DEF Services
<1>15. AllRegular' <=> AllRegular
  BY <1>13 DEF AllRegular
<1>16. TakenPaths' = TakenPaths
  BY <1>1, <1>13 DEF TakenPaths
<1>17. OnServer' = OnServer
  BY DEF OnServer
<1>18. OfRule' = OfRule
  BY <1>2, <1>13 DEF OfRule
<1>19. Several' <=> Several
  BY <1>2 DEF Several
<1>20. Listed' <=> Listed
  BY <1>1, <1>2 DEF Listed
<1>21. PreflightHandlers' = PreflightHandlers
  BY <1>2 DEF PreflightHandlers
<1>22. Chk' = Chk
  BY <1>2 DEF Chk
<1>23. Engine' = Engine
  BY <1>2 DEF Engine
<1>24. QED
  BY <1>1, <1>2, <1>3, <1>4, <1>5, <1>6, <1>7, <1>12, <1>13, <1>14, <1>15, <1>16,
     <1>17, <1>18, <1>19, <1>20, <1>21, <1>22, <1>23

\* The same for what depends on the Service.
LEMMA SameService ==
    ASSUME case' = case, NEW u
    PROVE  /\ Backend(u)' <=> Backend(u)
           /\ Chain(u)' = Chain(u)
           /\ WithCORS(u)' = WithCORS(u)
           /\ OriginRoutes(u)' = OriginRoutes(u)
<1>1. Backend(u)' <=> Backend(u)
  BY SameCase DEF Backend
<1>2. Chain(u)' = Chain(u)
  BY SameCase DEF Chain
<1>3. WithCORS(u)' = WithCORS(u)
  <2>1. Cfg' = Cfg /\ (Several' <=> Several)
    BY SameCase
  <2>2. CORSResponse(Cfg.cors[1], Several)' = CORSResponse(Cfg.cors[1], Several)
    BY <2>1 DEF CORSResponse
  <2>3. QED
    BY <1>2, <2>2 DEF WithCORS
<1>4. OriginRoutes(u)' = OriginRoutes(u)
  BY SameCase DEF OriginRoutes
<1>5. QED
  BY <1>1, <1>2, <1>3, <1>4

\* The kind of the next element decides what happens.
LEMMA Kind ==
    ASSUME Next
    PROVE  /\ answer = None
           /\ agenda = <<>> => RunOut
           /\ agenda # <<>> =>
                 /\ Head(agenda).handler = "route" => TryRoute
                 /\ Head(agenda).handler = "subroute" => EnterSubroute
                 /\ Head(agenda).handler = "cors" => AddCORS
                 /\ Head(agenda).handler = "static_response" => Respond
                 /\ Head(agenda).handler = "authentication" => Authenticate
                 /\ Head(agenda).handler = "request_body" => LimitBody
                 /\ Head(agenda).handler = "rate_limit" => RateLimit
                 /\ Head(agenda).handler \in {"rewrite", "security_headers", "response_headers"}
                       => Alter
                 /\ Head(agenda).handler = "waf" => Inspect
                 /\ Head(agenda).handler = "policy" => Authorize
                 /\ Head(agenda).handler = "reverse_proxy" => Proxy
<1>1. CASE TryRoute
  BY <1>1 DEF TryRoute, Is, Next1
<1>2. CASE EnterSubroute
  BY <1>2 DEF EnterSubroute, Is, Next1
<1>3. CASE AddCORS
  BY <1>3 DEF AddCORS, Is, Next1
<1>4. CASE Respond
  BY <1>4 DEF Respond, Is, Next1
<1>5. CASE Authenticate
  BY <1>5 DEF Authenticate, Is, Next1
<1>6. CASE LimitBody
  BY <1>6 DEF LimitBody, Is, Next1
<1>7. CASE RateLimit
  BY <1>7 DEF RateLimit, Is, Next1
<1>8. CASE Authorize
  BY <1>8 DEF Authorize, Is, Next1
<1>9. CASE Alter
  BY <1>9 DEF Alter, Is, Next1
<1>10. CASE Inspect
  BY <1>10 DEF Inspect, Is, Next1
<1>11. CASE Proxy
  BY <1>11 DEF Proxy, Is, Next1
<1>12. CASE RunOut
  BY <1>12 DEF RunOut
<1>13. QED
  BY <1>1, <1>2, <1>3, <1>4, <1>5, <1>6, <1>7, <1>8, <1>9, <1>10, <1>11, <1>12
     DEF Next

\* Before there is an answer, the place alone makes the properties true.
LEMMA PlacesSafe == ASSUME answer = None, Places PROVE Safe
<1>1. (Taken /\ ~Admitted) => passed = <<>> /\ cors = NoCORS
  BY DEF Places, AtServer, AtRedirect, AtRule, AtRoutes, AtGuard, AtPreflight,
         AtRedirection, AtChoice, AtOrigins, AtCORS, AtChecks, AtCheck, Untouched, Accepted
<1>2. (Taken /\ Admitted /\ Preflight) => passed = <<>>
  BY DEF Places, AtServer, AtRedirect, AtRule, AtRoutes, AtGuard, AtPreflight,
         AtRedirection, AtChoice, AtOrigins, AtCORS, AtChecks, AtCheck, Untouched, Accepted
<1>3. GuardedTaken
  BY <1>1 DEF GuardedTaken
<1>4. PreflightedTaken
  BY <1>2 DEF PreflightedTaken, Preflight
<1>5. CORSAdded /\ Inspected /\ BodyLimited /\ RoutedTaken
  BY DEF CORSAdded, Inspected, BodyLimited, RoutedTaken
<1>6. QED
  BY <1>3, <1>4, <1>5 DEF Safe

\* A response that the app has configured.
LEMMA SafeStatic ==
    ASSUME UNCHANGED <<case, cors, limit, passed>>,
           NEW status, NEW up, NEW hs, answer' = Answers("static_response", status, up, hs),
           Taken => /\ ~Admitted => /\ passed = <<>> /\ cors = NoCORS
                                    /\ status = 403
                    /\ Admitted => status # 403,
           (Taken /\ Admitted) =>
              /\ Preflight => passed = <<>> /\ status = 204
              /\ status = 204 => Preflight /\ HasOrigin
    PROVE  Safe'
<1>1. answer'.by = "static_response" /\ answer'.status = status
  BY DEF Answers
<1>2. /\ Taken' <=> Taken
      /\ Admitted' <=> Admitted
      /\ OriginAllowed' <=> OriginAllowed
      /\ Req' = Req
  BY SameCase
<1>3. cors' = cors /\ passed' = passed
  OBVIOUS
<1>4. GuardedTaken'
  BY <1>1, <1>2, <1>3 DEF GuardedTaken, Answered
<1>5. PreflightedTaken'
  <2>1. ASSUME Taken, Admitted, Req.method = "OPTIONS", OriginAllowed
        PROVE  passed' = <<>> /\ answer'.status = 204
    BY <1>1, <1>3, <2>1 DEF Preflight
  <2>2. ASSUME Taken, Admitted, answer'.status = 204
        PROVE  Req.method = "OPTIONS" /\ OriginAllowed /\ HasOrigin
    BY <1>1, <1>3, <2>2 DEF Preflight
  <2>3. HasOrigin => cors'.origin # ""
    BY <1>3 DEF HasOrigin
  <2>4. QED
    BY <1>1, <1>2, <2>1, <2>2, <2>3 DEF PreflightedTaken, Answered
<1>6. CORSAdded'
  BY <1>1 DEF CORSAdded
<1>7. Inspected'
  BY <1>1 DEF Inspected
<1>8. BodyLimited'
  BY <1>1 DEF BodyLimited
<1>9. RoutedTaken'
  BY <1>1 DEF RoutedTaken
<1>10. QED
  BY <1>4, <1>5, <1>6, <1>7, <1>8, <1>9 DEF Safe

\* Nobody has answered.
LEMMA SafeNobody ==
    ASSUME UNCHANGED <<case, cors, limit, passed>>,
           answer' = Answers("none", 200, "", <<>>),
           Taken => Admitted /\ ~Preflight /\ (AllRegular => TakenPaths = {})
    PROVE  Safe'
<1>1. answer'.by = "none" /\ answer'.status = 200
  BY DEF Answers
<1>2. /\ Taken' <=> Taken
      /\ Admitted' <=> Admitted
      /\ OriginAllowed' <=> OriginAllowed
      /\ AllRegular' <=> AllRegular
      /\ Req' = Req /\ TakenPaths' = TakenPaths
  BY SameCase
<1>3. cors' = cors /\ passed' = passed
  OBVIOUS
<1>4. GuardedTaken'
  BY <1>1, <1>2, <1>3 DEF GuardedTaken, Answered
<1>5. PreflightedTaken'
  BY <1>1, <1>2, <1>3 DEF PreflightedTaken, Preflight, Answered
<1>6. CORSAdded'
  BY <1>1 DEF CORSAdded
<1>7. Inspected'
  BY <1>1 DEF Inspected
<1>8. BodyLimited'
  BY <1>1 DEF BodyLimited
<1>9. RoutedTaken'
  BY <1>1, <1>2 DEF RoutedTaken, AllRegular
<1>10. QED
  BY <1>4, <1>5, <1>6, <1>7, <1>8, <1>9 DEF Safe

\* A handler of the chain has answered.
LEMMA SafeHandler ==
    ASSUME UNCHANGED <<case, cors, limit, passed>>, Accepted, Right(cors),
           NEW by, NEW status, NEW up, NEW hs, answer' = Answers(by, status, up, hs),
           by \notin {"none", "static_response"},
           by = "reverse_proxy" =>
              /\ Inspected' /\ Backend(up)
              /\ (Ann.bodySize # <<>> /\ Fits) => ~TooLarge,
           by = "request_body" => Ann.bodySize # <<>> /\ (Fits => TooLarge)
    PROVE  Safe'
<1>1. answer'.by = by /\ answer'.status = status /\ answer'.upstream = up
  BY DEF Answers
<1>2. /\ Taken' <=> Taken
      /\ Admitted' <=> Admitted
      /\ StarAlone' <=> StarAlone
      /\ OriginAllowed' <=> OriginAllowed
      /\ AllRegular' <=> AllRegular
      /\ Ann' = Ann /\ Req' = Req /\ TakenPaths' = TakenPaths /\ TakenRule' = TakenRule
  BY SameCase
<1>3. cors' = cors /\ passed' = passed /\ limit' = limit
  OBVIOUS
<1>4. Taken /\ Admitted /\ ~Preflight
  BY DEF Accepted
<1>5. GuardedTaken'
  BY <1>1, <1>2, <1>4 DEF GuardedTaken, Answered
<1>6. PreflightedTaken'
  BY <1>1, <1>2, <1>3, <1>4 DEF PreflightedTaken, Preflight, Answered
<1>7. CORSAdded'
  BY <1>1, <1>2, <1>3 DEF CORSAdded, Right
<1>8. Inspected'
  BY <1>1 DEF Inspected
<1>9. BodyLimited'
  <2>1. (Fits' <=> Fits) /\ (TooLarge' <=> TooLarge)
    BY <1>2 DEF Fits, TooLarge, Bytes
  <2>2. QED
    BY <1>1, <1>2, <2>1 DEF BodyLimited
<1>10. RoutedTaken'
  <2>1. by = "reverse_proxy" =>
           (AllRegular => TakenPaths # {} /\ up = TakenRule.paths[First(TakenPaths)].service)
    BY DEF Backend
  <2>2. QED
    BY <1>1, <1>2, <1>4, <2>1 DEF RoutedTaken, AllRegular
<1>11. QED
  BY <1>5, <1>6, <1>7, <1>8, <1>9, <1>10 DEF Safe

-----------------------------------------------------------------------------
(* The CORS headers *)

\* The headers that the handler sets.
SetBy(x) ==
    [origin |-> IF x.origin = "{http.request.header.Origin}" THEN Req.origin ELSE x.origin,
     vary |-> x.vary, creds |-> x.creds]

LEMMA OnlyOne == ASSUME NEW n \in Nat, n >= 1, ~(n > 1) PROVE n = 1
OBVIOUS

LEMMA MoreThanOne == ASSUME NEW n \in Nat, n > 1 PROVE n # 1
OBVIOUS

\* They are right wherever the handler is put.
LEMMA CORSSet ==
    ASSUME CaseOK, Cfg.cors # <<>>, Several => Listed
    PROVE  LET c == SetBy(CORSResponse(Cfg.cors[1], Several))
           IN  /\ Right(c) /\ c.origin # ""
               /\ c.origin \in {"*"} \cup Elems(NonBlank(Ann.origins)) \cup {Req.origin}
<1> DEFINE k == Cfg.cors[1]
           x == CORSResponse(k, Several)
           c == SetBy(x)
           os == NonBlank(Ann.origins)
<1>1. /\ IsSeq(k.origins) /\ k.origins # <<>>
      /\ k.origins = IF StarAlone THEN <<"*">> ELSE os
      /\ k.creds = (Ann.allowCreds /\ ~StarAlone)
      /\ Ann.enableCORS
  BY CORSConfigured
<1>2. Several <=> Len(k.origins) > 1
  BY DEF Several
<1>3. Len(k.origins) \in Nat /\ Len(k.origins) >= 1
  BY <1>1, TailSeq
<1>4. /\ x.origin = IF Several THEN "{http.request.header.Origin}" ELSE k.origins[1]
      /\ x.vary = (Several \/ k.origins[1] # "*")
      /\ x.creds = k.creds
  BY DEF CORSResponse
<1>5. /\ c.origin = IF x.origin = "{http.request.header.Origin}"
                    THEN Req.origin ELSE x.origin
      /\ c.vary = x.vary /\ c.creds = x.creds
  BY DEF SetBy
<1>6. ~StarAlone => /\ Elems(os) = Said(Ann.origins) /\ IsSeq(os)
                    /\ \A o \in Said(Ann.origins) :
                          o # "" /\ o # "{http.request.header.Origin}"
  BY AllowedElems, AnnType, NonBlankElems
<1> HIDE DEF k, x, c, os
<1>7. CASE StarAlone
  <2>1. k.origins = <<"*">> /\ Len(k.origins) = 1 /\ k.origins[1] = "*"
    BY <1>1, <1>7, Single
  <2>2. ~Several
    BY <1>2, <2>1
  <2>3. c.origin = "*" /\ c.vary = FALSE /\ c.creds = FALSE
    BY <1>1, <1>4, <1>5, <1>7, <2>1, <2>2
  <2>4. "*" # ""
    OBVIOUS
  <2>5. Right(c)
    BY <1>1, <1>7, <2>3 DEF Right
  <2>6. QED
    BY <2>3, <2>4, <2>5 DEF c, x, k
<1>8. CASE ~StarAlone /\ Several
  <2>1. k.origins = os /\ Len(os) # 1
    <3>1. k.origins = os
      BY <1>1, <1>8
    <3>2. Len(k.origins) > 1
      BY <1>2, <1>8
    <3>3. Len(k.origins) # 1
      BY <1>3, <3>2, MoreThanOne
    <3>4. QED
      BY <3>1, <3>3
  <2>2. PICK p \in Said(Ann.origins) : OriginMatches(p, Req.origin)
    BY <1>6, <1>8, <2>1 DEF Listed, k
  <2>3. Req.origin # "" /\ Req.origin # "*"
    BY <2>2 DEF OriginMatches, CaseOK, Req
  <2>4. c.origin = Req.origin /\ c.vary = TRUE /\ c.creds = Ann.allowCreds
    <3>1. c.origin = Req.origin /\ c.vary = TRUE
      BY <1>4, <1>5, <1>8
    <3>2. c.creds = (Ann.allowCreds /\ ~StarAlone)
      BY <1>1, <1>4, <1>5
    <3>3. Ann.allowCreds \in BOOLEAN
      BY AnnType
    <3>4. QED
      BY <1>8, <3>1, <3>2, <3>3
  <2>5. OriginAllowed
    BY <1>1, <2>2 DEF OriginAllowed
  <2>6. Right(c)
    BY <1>1, <1>8, <2>1, <2>3, <2>4, <2>5 DEF Right, os
  <2>7. QED
    BY <2>3, <2>4, <2>6 DEF c, x, k
<1>9. CASE ~StarAlone /\ ~Several
  <2>1. k.origins = os /\ Len(os) = 1
    <3>1. k.origins = os
      BY <1>1, <1>9
    <3>2. Len(os) \in Nat /\ Len(os) >= 1 /\ ~(Len(os) > 1)
      BY <1>2, <1>3, <1>9, <3>1
    <3>3. QED
      BY <3>1, <3>2, OnlyOne
  <2>2. os[1] \in Elems(os)
    BY <1>1, <2>1 DEF Elems, IsSeq
  <2>3. os[1] # "" /\ os[1] # "{http.request.header.Origin}"
    BY <1>6, <1>9, <2>2
  <2>4. os[1] # "*"
    <3>1. SUFFICES ASSUME os[1] = "*" PROVE FALSE
      OBVIOUS
    <3>2. os = [i \in 1..1 |-> os[i]]
      <4>1. os \in Seq(Elems(os)) /\ Len(os) = 1
        BY <1>6, <1>9, <2>1 DEF IsSeq
      <4>2. QED
        BY <4>1
    <3>3. <<"*">> = [i \in 1..1 |-> "*"]
      OBVIOUS
    <3>4. \A i \in 1..1 : os[i] = "*"
      BY <3>1
    <3>5. os = <<"*">>
      BY <3>2, <3>3, <3>4
    <3>6. QED
      BY <1>9, <3>5 DEF StarAlone, os
  <2>5. c.origin = os[1] /\ c.vary = TRUE /\ c.creds = Ann.allowCreds
    <3>1. c.origin = os[1]
      BY <1>4, <1>5, <1>9, <2>1, <2>3
    <3>2. c.vary = TRUE
      BY <1>4, <1>5, <2>1, <2>4
    <3>3. c.creds = (Ann.allowCreds /\ ~StarAlone)
      BY <1>1, <1>4, <1>5
    <3>4. Ann.allowCreds \in BOOLEAN
      BY AnnType
    <3>5. QED
      BY <1>9, <3>1, <3>2, <3>3, <3>4
  <2>6. Right(c)
    BY <1>1, <1>9, <2>1, <2>3, <2>4, <2>5 DEF Right, os
  <2>7. QED
    BY <2>2, <2>3, <2>5, <2>6 DEF c, x, k, os
<1>10. QED
  BY <1>7, <1>8, <1>9

\* And so is their absence: without CORS, or for an origin that the list does not allow.
LEMMA CORSAbsent ==
    ASSUME CaseOK, Cfg.cors = <<>> \/ (Several /\ ~Listed)
    PROVE  Right(NoCORS)
<1>1. NoCORS.origin = "" /\ NoCORS.vary = FALSE /\ NoCORS.creds = FALSE
  BY DEF NoCORS
<1>2. CASE Cfg.cors = <<>>
  <2>1. ~Ann.enableCORS
    BY <1>2, CORSConfigured
  <2>2. QED
    BY <1>1, <2>1 DEF Right
<1>3. CASE Cfg.cors # <<>> /\ Several /\ ~Listed
  <2> DEFINE k == Cfg.cors[1]
             os == NonBlank(Ann.origins)
  <2>1. /\ k.origins = IF StarAlone THEN <<"*">> ELSE os
        /\ Ann.enableCORS
    BY <1>3, CORSConfigured
  <2>2. Len(k.origins) > 1
    BY <1>3 DEF Several
  <2> HIDE DEF k, os
  <2> DEFINE star == <<"*">>
  <2>3. Len(k.origins) # 1
    <3>1. IsSeq(k.origins)
      BY <1>3, CORSConfigured DEF k
    <3>2. Len(k.origins) \in Nat
      BY <3>1 DEF IsSeq
    <3>3. QED
      BY <2>2, <3>2, MoreThanOne
  <2>4. ~StarAlone
    <3>1. Len(star) = 1
      BY Single
    <3>2. k.origins = IF StarAlone THEN star ELSE os
      BY <2>1
    <3> HIDE DEF star
    <3>3. k.origins # star
      BY <2>3, <3>1
    <3>4. QED
      BY <3>2, <3>3
  <2>5. k.origins = os /\ Len(os) # 1
    <3>1. k.origins = os
      BY <2>1, <2>4
    <3>2. QED
      BY <2>3, <3>1
  <2>6. Elems(k.origins) = Said(Ann.origins)
    BY <1>3, <2>4, AllowedElems DEF k
  <2>7. ~OriginAllowed
    BY <1>3, <2>4, <2>6 DEF OriginAllowed, Listed, k
  <2>8. QED
    BY <1>1, <2>1, <2>4, <2>5, <2>7 DEF Right, os
<1>4. QED
  BY <1>2, <1>3

\* Right does not depend on the request's place.
LEMMA RightNext == ASSUME case' = case, Right(cors') PROVE Right(cors)'
<1>1. /\ Ann' = Ann /\ Req' = Req
      /\ StarAlone' <=> StarAlone
      /\ OriginAllowed' <=> OriginAllowed
  BY SameCase
<1>2. QED
  BY <1>1 DEF Right

-----------------------------------------------------------------------------
(* The agenda *)

Kinds == Handlers \cup {"route", "subroute", "cors", "static_response", "reverse_proxy"}

OfKinds(s) == \A x \in Elems(s) : x.handler \in Kinds

\* A step that only changes the agenda.
LEMMA MoveTyped ==
    ASSUME TypeOK, UNCHANGED <<case, cors, limit, passed, answer>>, OfKinds(agenda')
    PROVE  TypeOK'
<1>1. Elems(agenda') \subseteq {r \in Elems(agenda') :
         r.handler \in Handlers \cup {"route", "subroute", "cors",
                                      "static_response", "reverse_proxy"}}
  BY DEF OfKinds, Kinds
<1>2. cors'.origin \in {"", "*"} \cup Elems(NonBlank(case'.ann.origins))
                       \cup {case'.req.origin}
  BY DEF TypeOK
<1>3. /\ limit' \in Int /\ Elems(passed') \subseteq Handlers
      /\ answer' # None => answer'.status \in 200..599
  BY DEF TypeOK
<1>4. QED
  BY <1>1, <1>2, <1>3 DEF TypeOK

\* An answer.
LEMMA AnswerTyped ==
    ASSUME TypeOK, UNCHANGED <<case, agenda, cors, limit, passed>>,
           answer'.status \in 200..599
    PROVE  TypeOK'
<1>1. Elems(agenda') \subseteq {r \in Elems(agenda') :
         r.handler \in Handlers \cup {"route", "subroute", "cors",
                                      "static_response", "reverse_proxy"}}
  BY DEF TypeOK
<1>2. cors'.origin \in {"", "*"} \cup Elems(NonBlank(case'.ann.origins))
                       \cup {case'.req.origin}
  BY ZenonT(60) DEF TypeOK
<1>3. limit' \in Int /\ Elems(passed') \subseteq Handlers
  BY DEF TypeOK
<1>4. QED
  BY <1>1, <1>2, <1>3 DEF TypeOK

LEMMA TypeKinds == ASSUME TypeOK PROVE OfKinds(agenda)
BY DEF TypeOK, OfKinds, Kinds

LEMMA CheckKinds ==
    /\ \A v : BasicAuthHandler(v).handler = "authentication"
    /\ \A v : [handler |-> "request_body", max |-> v].handler = "request_body"
    /\ \A v : RateLimitHandler(v).handler = "rate_limit"
    /\ \A v : [handler |-> "rewrite", uri |-> v].handler = "rewrite"
    /\ SecurityHeadersHandler.handler = "security_headers"
    /\ \A v : ResponseHeadersHandler(v).handler = "response_headers"
    /\ Engine.handler = "waf"
    /\ [handler |-> "policy"].handler = "policy"
    /\ \A x \in Elems(Chk) : x.handler \in Handlers
<1>1. /\ \A v : BasicAuthHandler(v).handler = "authentication"
      /\ \A v : [handler |-> "request_body", max |-> v].handler = "request_body"
      /\ \A v : RateLimitHandler(v).handler = "rate_limit"
      /\ \A v : [handler |-> "rewrite", uri |-> v].handler = "rewrite"
  BY DEF BasicAuthHandler, RateLimitHandler
<1>2. /\ SecurityHeadersHandler.handler = "security_headers"
      /\ \A v : ResponseHeadersHandler(v).handler = "response_headers"
      /\ Engine.handler = "waf"
      /\ [handler |-> "policy"].handler = "policy"
  BY DEF SecurityHeadersHandler, ResponseHeadersHandler, Engine, WafHandler
<1>3. ASSUME NEW x \in Elems(Chk) PROVE x.handler \in Handlers
  <2>1. \/ x = BasicAuthHandler(Cfg.basicAuth)
        \/ x = [handler |-> "request_body", max |-> Cfg.maxBodySize]
        \/ x = RateLimitHandler(Cfg.limitRPS)
        \/ x = [handler |-> "rewrite", uri |-> Cfg.rewriteTarget]
        \/ x = SecurityHeadersHandler
        \/ x = ResponseHeadersHandler(Cfg.responseHeaders)
        \/ x = Engine
        \/ x = [handler |-> "policy"]
    BY <1>3, ChecksElems
  <2>2. \/ x.handler = "authentication" \/ x.handler = "request_body"
        \/ x.handler = "rate_limit" \/ x.handler = "rewrite"
        \/ x.handler = "security_headers" \/ x.handler = "response_headers"
        \/ x.handler = "waf" \/ x.handler = "policy"
    BY <1>1, <1>2, <2>1
  <2>3. QED
    BY <2>2 DEF Handlers
<1>4. QED
  BY <1>1, <1>2, <1>3

\* The chain of a Service: the checks, then the proxy.
LEMMA ChainShape ==
    ASSUME NEW u
    PROVE  LET n == Len(Chk)
           IN  /\ n \in Nat /\ IsSeq(Chain(u)) /\ Len(Chain(u)) = n + 1
               /\ \A i \in 1..n : Chain(u)[i] = Chk[i] /\ Chk[i] \in Elems(Chk)
               /\ Chain(u)[n + 1] = ReverseProxy(u, case.sec, Cfg, ~case.ing.tls)
               /\ OfKinds(Chain(u))
<1> DEFINE n == Len(Chk)
           p == ReverseProxy(u, case.sec, Cfg, ~case.ing.tls)
<1>1. Chain(u) = Chk \o <<p>>
  BY DEF Chain, Chk
<1>2. IsSeq(Chk) /\ n \in Nat /\ DOMAIN Chk = 1..n
  BY ChecksElems DEF IsSeq
<1>3. p.handler = "reverse_proxy"
  BY DEF ReverseProxy
<1> HIDE DEF p
<1>4. /\ IsSeq(<<p>>) /\ Len(<<p>>) = 1 /\ <<p>>[1] = p /\ Elems(<<p>>) = {p}
  BY Single
<1>5. /\ IsSeq(Chk \o <<p>>) /\ Len(Chk \o <<p>>) = n + Len(<<p>>)
      /\ \A i \in 1..n : (Chk \o <<p>>)[i] = Chk[i]
      /\ \A i \in 1..Len(<<p>>) : (Chk \o <<p>>)[n + i] = <<p>>[i]
      /\ Elems(Chk \o <<p>>) = Elems(Chk) \cup Elems(<<p>>)
  BY <1>2, <1>4, Concat
<1>6. 1 \in 1..Len(<<p>>)
  BY <1>4
<1>7. \A x \in Elems(Chk) : x.handler \in Handlers
  BY CheckKinds
<1>8. OfKinds(Chk \o <<p>>)
  BY <1>3, <1>4, <1>5, <1>7 DEF OfKinds, Kinds
<1>9. \A i \in 1..n : Chk[i] \in Elems(Chk)
  BY <1>2 DEF Elems
<1>10. QED
  BY <1>1, <1>2, <1>4, <1>5, <1>6, <1>8, <1>9 DEF p

\* The other lists.
LEMMA WithCORSShape ==
    ASSUME NEW u
    PROVE  /\ IsSeq(WithCORS(u)) /\ OfKinds(WithCORS(u))
           /\ WithCORS(u) # <<>> /\ Len(WithCORS(u)) = Len(Chain(u)) + 1
           /\ WithCORS(u)[1] = CORSResponse(Cfg.cors[1], Several)
           /\ \A i \in 1..Len(Chain(u)) : WithCORS(u)[i + 1] = Chain(u)[i]
<1> DEFINE x == CORSResponse(Cfg.cors[1], Several)
           c == Chain(u)
<1>1. IsSeq(c) /\ OfKinds(c)
  BY ChainShape
<1>2. WithCORS(u) = <<x>> \o c
  BY DEF WithCORS
<1>3. x.handler = "cors"
  BY DEF CORSResponse
<1> HIDE DEF x, c
<1>4. IsSeq(<<x>>) /\ Len(<<x>>) = 1 /\ <<x>>[1] = x /\ Elems(<<x>>) = {x}
  BY Single
<1>5. /\ IsSeq(<<x>> \o c) /\ Len(<<x>> \o c) = Len(<<x>>) + Len(c)
      /\ \A i \in 1..Len(<<x>>) : (<<x>> \o c)[i] = <<x>>[i]
      /\ \A i \in 1..Len(c) : (<<x>> \o c)[Len(<<x>>) + i] = c[i]
      /\ Elems(<<x>> \o c) = Elems(<<x>>) \cup Elems(c)
  BY <1>1, <1>4, Concat
<1>6. Len(c) \in Nat /\ 1 \in 1..Len(<<x>>)
  BY <1>1, <1>4 DEF IsSeq
<1>7. OfKinds(<<x>> \o c)
  BY <1>1, <1>3, <1>4, <1>5 DEF OfKinds, Kinds
<1>8. Len(<<x>> \o c) = Len(c) + 1
  BY <1>4, <1>5, <1>6
<1>9. \A i \in 1..Len(c) : (<<x>> \o c)[i + 1] = c[i]
  <2> SUFFICES ASSUME NEW i \in 1..Len(c) PROVE (<<x>> \o c)[i + 1] = c[i]
    OBVIOUS
  <2>1. Len(<<x>>) + i = i + 1
    BY <1>4, <1>6
  <2>2. QED
    BY <1>5, <2>1
<1>10. (<<x>> \o c)[1] = x
  BY <1>4, <1>5, <1>6
<1>11. <<x>> \o c # <<>>
  BY <1>1, Cons
<1>12. QED
  BY <1>2, <1>5, <1>7, <1>8, <1>9, <1>10, <1>11 DEF x, c

LEMMA OriginRoutesShape ==
    ASSUME NEW u
    PROVE  /\ IsSeq(OriginRoutes(u)) /\ OfKinds(OriginRoutes(u))
           /\ Len(OriginRoutes(u)) = 2
           /\ \A i \in 1..2 : OriginRoutes(u)[i].handler = "route"
                              /\ OriginRoutes(u)[i].terminal
<1> DEFINE x == Route([Nil EXCEPT !.origin = Elems(Cfg.cors[1].origins)],
                  BuildCoreHandlers(u, case.sec, Cfg, ~case.ing.tls, TRUE, TRUE), TRUE)
           y == Route(Nil,
                  BuildCoreHandlers(u, case.sec, Cfg, ~case.ing.tls, FALSE, FALSE), TRUE)
<1>1. OriginRoutes(u) = <<x, y>>
  BY DEF OriginRoutes
<1>2. x.handler = "route" /\ y.handler = "route" /\ x.terminal /\ y.terminal
  BY DEF Route
<1> HIDE DEF x, y
<1>3. <<x, y>> \in Seq({x, y}) /\ Len(<<x, y>>) = 2 /\ <<x, y>>[1] = x /\ <<x, y>>[2] = y
  OBVIOUS
<1>4. IsSeq(<<x, y>>)
  BY <1>3, SeqIsSeq
<1>5. \A i \in 1..2 : i = 1 \/ i = 2
  OBVIOUS
<1>6. \A i \in 1..2 : <<x, y>>[i].handler = "route" /\ <<x, y>>[i].terminal
  BY <1>2, <1>3, <1>5
<1>7. DOMAIN <<x, y>> = 1..2
  BY <1>3
<1>8. OfKinds(<<x, y>>)
  BY <1>6, <1>7 DEF OfKinds, Kinds, Elems
<1>9. QED
  BY <1>1, <1>3, <1>4, <1>6, <1>8

LEMMA PreflightShape ==
    ASSUME Cfg.cors # <<>>
    PROVE  /\ IsSeq(PreflightHandlers) /\ OfKinds(PreflightHandlers)
           /\ Len(PreflightHandlers) = 2
           /\ PreflightHandlers[1] = CORSResponse(Cfg.cors[1], Several)
           /\ PreflightHandlers[2] = StaticResponse(204)
<1> DEFINE x == CORSResponse(Cfg.cors[1], Several)
           y == StaticResponse(204)
<1>1. CORSResponse(Cfg.cors[1], Len(Cfg.cors[1].origins) > 1) = x
  BY DEF CORSResponse, Several
<1>2. PreflightHandlers = <<x, y>>
  BY <1>1 DEF PreflightHandlers
<1>3. x.handler = "cors" /\ y.handler = "static_response"
  BY DEF CORSResponse, StaticResponse
<1> HIDE DEF x, y
<1>4. <<x, y>> \in Seq({x, y}) /\ Len(<<x, y>>) = 2 /\ <<x, y>>[1] = x /\ <<x, y>>[2] = y
  OBVIOUS
<1>8. DOMAIN <<x, y>> = 1..2 /\ \A i \in 1..2 : i = 1 \/ i = 2
  BY <1>4
<1>5. IsSeq(<<x, y>>) /\ Elems(<<x, y>>) \subseteq {x, y}
  BY <1>4, <1>8, SeqIsSeq DEF Elems
<1>6. OfKinds(<<x, y>>)
  BY <1>3, <1>5 DEF OfKinds, Kinds
<1>7. QED
  BY <1>2, <1>4, <1>5, <1>6 DEF x, y

LEMMA SingleKind ==
    ASSUME NEW x, x.handler \in Kinds
    PROVE  IsSeq(<<x>>) /\ OfKinds(<<x>>) /\ Follows(<<x>>, <<x>>, 1)
<1>1. IsSeq(<<x>>) /\ Elems(<<x>>) = {x}
  BY Single
<1>2. QED
  BY <1>1, FollowsStart DEF OfKinds

\* Putting a list in front of what is left.
LEMMA Prepend ==
    ASSUME NEW s, IsSeq(s), OfKinds(s), NEW t, IsSeq(t), OfKinds(t)
    PROVE  IsSeq(s \o t) /\ OfKinds(s \o t) /\ Follows(s \o t, s, 1)
<1>1. IsSeq(s \o t) /\ Elems(s \o t) = Elems(s) \cup Elems(t)
  BY Concat
<1>2. QED
  BY <1>1, FollowsStart DEF OfKinds

LEMMA Drop ==
    ASSUME NEW s, IsSeq(s), OfKinds(s), s # <<>>
    PROVE  IsSeq(Tail(s)) /\ OfKinds(Tail(s))
BY TailSeq DEF OfKinds


-----------------------------------------------------------------------------
(* From the path to the chain of its Service *)

HandlersOf(u) == BuildHandlers(u, case.sec, Cfg, ~case.ing.tls)

\* buildCoreHandlers with and without the CORS handler in front.
LEMMA CoreForm ==
    ASSUME CaseOK, NEW u, NEW dynamic
    PROVE  /\ Cfg.cors # <<>> /\ (dynamic <=> Several) =>
                 BuildCoreHandlers(u, case.sec, Cfg, ~case.ing.tls, TRUE, dynamic)
                    = WithCORS(u)
           /\ BuildCoreHandlers(u, case.sec, Cfg, ~case.ing.tls, FALSE, dynamic) = Chain(u)
<1>1. <<>> \o Chain(u) = Chain(u)
  BY ChainShape DEF IsSeq
<1>2. ASSUME Cfg.cors # <<>>, dynamic <=> Several
      PROVE  CORSResponse(Cfg.cors[1], dynamic) = CORSResponse(Cfg.cors[1], Several)
  BY <1>2 DEF CORSResponse
<1>3. QED
  BY <1>1, <1>2 DEF BuildCoreHandlers, WithCORS, Chain

LEMMA HandlersForm ==
    ASSUME CaseOK, NEW u
    PROVE  \/ HandlersOf(u) = <<StaticResponse(RedirectStatus(Cfg))>>
           \/ Several /\ HandlersOf(u) = <<Subroute(OriginRoutes(u))>>
           \/ Cfg.cors # <<>> /\ ~Several /\ HandlersOf(u) = WithCORS(u)
           \/ Cfg.cors = <<>> /\ HandlersOf(u) = Chain(u)
<1>1. CASE Redirects(Cfg)
  BY <1>1 DEF HandlersOf, BuildHandlers
<1>2. CASE ~Redirects(Cfg) /\ Several
  BY <1>2 DEF HandlersOf, BuildHandlers, Several, OriginRoutes
<1>3. CASE ~Redirects(Cfg) /\ ~Several
  <2>1. HandlersOf(u) = BuildCoreHandlers(u, case.sec, Cfg, ~case.ing.tls,
                                          Cfg.cors # <<>>, FALSE)
    BY <1>3 DEF HandlersOf, BuildHandlers, Several
  <2>2. CASE Cfg.cors = <<>>
    <3>1. HandlersOf(u) = BuildCoreHandlers(u, case.sec, Cfg, ~case.ing.tls, FALSE, FALSE)
      BY <2>1, <2>2
    <3>2. QED
      BY <2>2, <3>1, CoreForm
  <2>3. CASE Cfg.cors # <<>>
    <3>1. HandlersOf(u) = BuildCoreHandlers(u, case.sec, Cfg, ~case.ing.tls, TRUE, FALSE)
      BY <2>1, <2>3
    <3>2. QED
      BY <1>3, <2>3, <3>1, CoreForm
  <2>4. QED
    BY <2>2, <2>3
<1>4. QED
  BY <1>1, <1>2, <1>3

LEMMA HandlersShape ==
    ASSUME CaseOK, NEW u
    PROVE  IsSeq(HandlersOf(u)) /\ OfKinds(HandlersOf(u))
<1>1. /\ StaticResponse(RedirectStatus(Cfg)).handler \in Kinds
      /\ Subroute(OriginRoutes(u)).handler \in Kinds
  BY DEF StaticResponse, Subroute, Kinds
<1>2. QED
  BY <1>1, HandlersForm, SingleKind, WithCORSShape, ChainShape

\* The first handler of the chain is next.
LEMMA StartChecks ==
    ASSUME case' = case, NEW u, Accepted, Backend(u), Follows(agenda', Chain(u), 1),
           Right(cors'), limit' = 0, passed' = <<>>
    PROVE  AtChecks(u)'
<1>1. /\ Accepted' /\ Backend(u)' /\ Right(cors)'
      /\ Chain(u)' = Chain(u)
  BY SameCase, SameService, RightNext DEF Accepted
<1>2. Len(Chain(u)) \in Nat /\ 1 \in 1..Len(Chain(u))
  BY ChainShape
<1>3. IsSeq(passed') /\ Len(passed') = 0 /\ Elems(passed') = {}
  BY Empty
<1>4. \A i \in 1..1 - 1 : FALSE
  OBVIOUS
<1>5. AtCheck(u, 1)'
  BY <1>1, <1>2, <1>3, <1>4 DEF AtCheck
<1>6. QED
  BY <1>1, <1>2, <1>5 DEF AtChecks

\* What comes next once a path has been found for the request.
LEMMA Handled ==
    ASSUME CaseOK, UNCHANGED <<case, cors, limit, passed>>, Untouched, Accepted,
           NEW u \in Services, Backend(u), Follows(agenda', HandlersOf(u), 1)
    PROVE  Places'
<1>1. /\ Accepted' /\ Backend(u)' /\ Untouched' /\ u \in Services'
      /\ Cfg' = Cfg /\ (Several' <=> Several)
      /\ WithCORS(u)' = WithCORS(u) /\ OriginRoutes(u)' = OriginRoutes(u)
  BY SameCase, SameService DEF Accepted, Untouched
<1>2. CASE HandlersOf(u) = <<StaticResponse(RedirectStatus(Cfg))>>
  BY <1>1, <1>2 DEF Places, AtRedirection
<1>3. CASE Several /\ HandlersOf(u) = <<Subroute(OriginRoutes(u))>>
  <2>1. AtChoice(u)'
    BY <1>1, <1>3 DEF AtChoice
  <2>2. QED
    BY <1>1, <2>1 DEF Places
<1>4. CASE Cfg.cors # <<>> /\ ~Several /\ HandlersOf(u) = WithCORS(u)
  <2>1. AtCORS(u)'
    BY <1>1, <1>4 DEF AtCORS
  <2>2. QED
    BY <1>1, <2>1 DEF Places
<1>5. CASE Cfg.cors = <<>> /\ HandlersOf(u) = Chain(u)
  <2>1. Right(NoCORS)
    BY <1>5, CORSAbsent
  <2>2. Right(cors')
    BY <2>1 DEF Untouched
  <2>3. limit' = 0 /\ passed' = <<>>
    BY DEF Untouched
  <2>4. AtChecks(u)'
    BY <1>5, <2>2, <2>3, StartChecks
  <2>5. QED
    BY <1>1, <2>4 DEF Places
<1>6. QED
  BY <1>2, <1>3, <1>4, <1>5, HandlersForm

-----------------------------------------------------------------------------
(* The steps, place by place *)

\* What a step has to lead to.
Stepped ==
    /\ IsSeq(agenda') /\ TypeOK'
    /\ answer' = None => Places'
    /\ answer' # None => Safe'

\* A step to another place.
LEMMA Moves ==
    ASSUME TypeOK, UNCHANGED <<case, cors, limit, passed, answer>>, answer = None,
           IsSeq(agenda'), OfKinds(agenda'), Places'
    PROVE  Stepped
BY MoveTyped DEF Stepped

\* An answer is the end.
LEMMA Ends ==
    ASSUME TypeOK, IsSeq(agenda), NEW by, by # "", NEW status \in 200..599,
           NEW up, NEW hs, Answer(by, status, up, hs), Safe'
    PROVE  Stepped
<1>5. answer' = Answers(by, status, up, hs)
  BY DEF Answer
<1>6. /\ Answers(by, status, up, hs).status = status
      /\ Answers(by, status, up, hs) # None
  <2>1. /\ Answers(by, status, up, hs).status = status
        /\ Answers(by, status, up, hs).by = by
    BY DEF Answers
  <2>2. None.by = ""
    BY DEF None, Answers
  <2>3. QED
    BY <2>1, <2>2
<1>1. answer'.status = status /\ answer' # None
  BY <1>5, <1>6
<1>2. UNCHANGED <<case, agenda, cors, limit, passed>>
  BY DEF Answer
<1>3. TypeOK'
  BY <1>1, <1>2, AnswerTyped
<1>4. QED
  BY <1>1, <1>2, <1>3 DEF Stepped

\* A route of the rule that is taken leads on.
LEMMA RouteShape ==
    ASSUME CaseOK, Takers # {}, NEW r, Takes(OfRule, r, Req)
    PROVE  IsSeq(r.handle) /\ OfKinds(r.handle)
<1>1. StaticResponse(403).handler \in Kinds
  BY DEF StaticResponse, Kinds
<1>2. \A u : r.handle = HandlersOf(u) => IsSeq(r.handle) /\ OfKinds(r.handle)
  BY HandlersShape
<1>3. CASE r.handle = <<StaticResponse(403)>>
  BY <1>1, <1>3, SingleKind
<1>4. CASE Cfg.cors # <<>> /\ r.handle = PreflightHandlers
  BY <1>4, PreflightShape
<1>5. CASE \E u \in Services : r.handle = HandlersOf(u)
  BY <1>2, <1>5
<1>6. QED
  BY <1>3, <1>4, <1>5, OfRuleTaken DEF HandlersOf

LEMMA RouteTaken ==
    ASSUME CaseOK, UNCHANGED <<case, cors, limit, passed>>, Untouched, Taken,
           NEW r, Takes(OfRule, r, Req), Follows(agenda', r.handle, 1)
    PROVE  Places'
<1>1. Takers # {}
  BY DEF Taken
<1>2. /\ Taken' /\ Untouched' /\ (Admitted' <=> Admitted)
      /\ (Preflight' <=> Preflight) /\ PreflightHandlers' = PreflightHandlers
  BY SameCase DEF Untouched
<1>3. CASE ~Admitted /\ r.handle = <<StaticResponse(403)>>
  BY <1>2, <1>3 DEF Places, AtGuard
<1>4. CASE Admitted /\ Preflight /\ r.handle = PreflightHandlers
  <2>1. 1 \in 1..2 /\ 1 # 2
    OBVIOUS
  <2>2. AtPreflight'
    BY <1>2, <1>4, <2>1 DEF AtPreflight, Untouched
  <2>3. QED
    BY <2>2 DEF Places
<1>5. CASE /\ Admitted /\ ~Preflight
           /\ \E u \in Services : Backend(u) /\ r.handle = HandlersOf(u)
  BY <1>5, Handled DEF Accepted
<1>6. QED
  BY <1>1, <1>3, <1>4, <1>5, OfRuleTaken DEF HandlersOf

\* The routes of a server.
LEMMA StepServer ==
    ASSUME CaseOK, IsSeq(agenda), TypeOK, Next, AtServer
    PROVE  Stepped
<1>1. answer = None /\ Untouched /\ Trying(OnServer, agenda, Req)
  BY Kind DEF AtServer
<1>2. IsSeq(OnServer) /\ \A r \in Elems(OnServer) : r.handler = "route"
  BY OnServerTaken
<1>3. CASE agenda = <<>>
  <2>1. Answer("none", 200, "", <<>>)
    BY <1>3, Kind DEF RunOut
  <2>2. ~Taken
    BY <1>1, <1>2, <1>3, TryingNext, OnServerTaken
  <2>3. Safe'
    BY <2>1, <2>2, SafeNobody DEF Answer
  <2>4. 200 \in 200..599 /\ "none" # ""
    OBVIOUS
  <2>5. QED
    BY <2>1, <2>3, <2>4, Ends, ZenonT(60)
<1>4. CASE agenda # <<>> /\ ~Matches(Head(agenda).match, Req)
  <2>1. Trying(OnServer, Tail(agenda), Req) /\ Head(agenda).handler = "route"
    BY <1>1, <1>2, <1>4, TryingNext
  <2>2. TryRoute
    BY <1>4, <2>1, Kind
  <2>3. agenda' = Tail(agenda) /\ UNCHANGED <<case, cors, limit, passed, answer>>
    BY <1>4, <2>2 DEF TryRoute, Next1, Req
  <2>4. AtServer'
    <3>1. OnServer' = OnServer /\ Req' = Req
      BY <2>3, SameCase
    <3>2. QED
      BY <1>1, <2>1, <2>3, <3>1 DEF AtServer, Untouched
  <2>5. QED
    BY <1>1, <1>4, <2>3, <2>4, Drop, TypeKinds, Moves DEF Places
<1>5. CASE agenda # <<>> /\ Matches(Head(agenda).match, Req)
  <2> DEFINE r == Head(agenda)
  <2>1. Takes(OnServer, r, Req) /\ r.handler = "route"
    BY <1>1, <1>2, <1>5, TryingNext
  <2>2. TryRoute
    BY <1>5, <2>1, Kind
  <2>3. /\ r.terminal
        /\ \/ ~Taken /\ r.handle = <<StaticResponse(301)>>
           \/ Taken /\ r = RuleRoute(case.ing, TakenRule, case.sec, Cfg)
    BY <2>1, OnServerTaken
  <2>4. agenda' = r.handle /\ UNCHANGED <<case, cors, limit, passed, answer>>
    BY <1>5, <2>2, <2>3 DEF TryRoute, Next1, Req
  <2> HIDE DEF r
  <2>5. CASE ~Taken /\ r.handle = <<StaticResponse(301)>>
    <3>1. StaticResponse(301).handler \in Kinds
      BY DEF StaticResponse, Kinds
    <3>2. IsSeq(agenda') /\ OfKinds(agenda') /\ Follows(agenda', <<StaticResponse(301)>>, 1)
      BY <2>4, <2>5, <3>1, SingleKind
    <3>3. AtRedirect'
      BY <1>1, <2>4, <2>5, <3>2, SameCase DEF AtRedirect, Untouched
    <3>4. QED
      BY <1>1, <2>4, <3>2, <3>3, Moves DEF Places
  <2>6. CASE Taken /\ r = RuleRoute(case.ing, TakenRule, case.sec, Cfg)
    <3> DEFINE alone == /\ Len(OfRule) = 1 /\ OfRule[1].match = Nil
                        /\ BuildIPGuardRoutes(Cfg) = <<>>
    <3>1. r.handle = IF alone THEN OfRule[1].handle ELSE <<Subroute(OfRule)>>
      BY <2>6 DEF RuleRoute, Route, OfRule
    <3>2. CASE ~alone
      <4>1. Subroute(OfRule).handler \in Kinds
        BY DEF Subroute, Kinds
      <4>2. IsSeq(agenda') /\ OfKinds(agenda') /\ agenda' = <<Subroute(OfRule)>>
        BY <2>4, <3>1, <3>2, <4>1, SingleKind
      <4>3. AtRule'
        BY <1>1, <2>4, <2>6, <4>2, SameCase DEF AtRule, Untouched
      <4>4. QED
        BY <1>1, <2>4, <4>2, <4>3, Moves DEF Places
    <3>3. CASE alone
      <4> DEFINE x == OfRule[1]
      <4>1. Takers # {}
        BY <2>6 DEF Taken
      <4>2. IsSeq(OfRule) /\ DOMAIN OfRule = 1..1
        BY <3>3, <4>1, OfRuleTaken DEF IsSeq
      <4>3. Matches(x.match, Req)
        BY <3>3 DEF Matches, Nil
      <4>4. 1 \in DOMAIN OfRule /\ \A i \in 1..1 - 1 : FALSE
        BY <4>2
      <4>5. Takes(OfRule, x, Req)
        BY <4>3, <4>4 DEF Takes
      <4>6. agenda' = x.handle
        BY <2>4, <3>1, <3>3
      <4> HIDE DEF x
      <4>7. IsSeq(agenda') /\ OfKinds(agenda')
        BY <4>1, <4>5, <4>6, RouteShape
      <4>8. Follows(agenda', x.handle, 1)
        BY <4>6, <4>7, Empty, FollowsStart
      <4>9. Places'
        BY <1>1, <2>4, <2>6, <4>5, <4>8, RouteTaken
      <4>10. QED
        BY <1>1, <2>4, <4>7, <4>9, Moves
    <3>4. QED
      BY <3>2, <3>3
  <2>7. QED
    BY <2>3, <2>5, <2>6
<1>6. QED
  BY <1>3, <1>4, <1>5

\* A configured response.
LEMMA Responds ==
    ASSUME Next, agenda # <<>>, NEW status, Head(agenda) = StaticResponse(status)
    PROVE  Answer("static_response", status, "", <<>>)
<1>1. Head(agenda).handler = "static_response" /\ Head(agenda).status = status
  BY DEF StaticResponse
<1>2. Respond
  BY <1>1, Kind
<1>3. QED
  BY <1>1, <1>2 DEF Respond, Next1

LEMMA StepStatic ==
    ASSUME CaseOK, IsSeq(agenda), TypeOK, Next, agenda # <<>>,
           NEW status \in 200..599, Head(agenda) = StaticResponse(status),
           Taken => /\ ~Admitted => /\ passed = <<>> /\ cors = NoCORS
                                    /\ status = 403
                    /\ Admitted => status # 403,
           (Taken /\ Admitted) =>
              /\ Preflight => passed = <<>> /\ status = 204
              /\ status = 204 => Preflight /\ HasOrigin
    PROVE  Stepped
<1>1. Answer("static_response", status, "", <<>>)
  BY Responds
<1>2. Safe'
  BY <1>1, SafeStatic DEF Answer
<1>3. "static_response" # ""
  OBVIOUS
<1>4. QED
  BY <1>1, <1>2, <1>3, Ends, ZenonT(60)

LEMMA StepRedirect ==
    ASSUME CaseOK, IsSeq(agenda), TypeOK, Next, AtRedirect
    PROVE  Stepped
<1>1. ~Taken /\ agenda # <<>> /\ Head(agenda) = StaticResponse(301)
  BY FollowsSingle DEF AtRedirect
<1>2. 301 \in 200..599
  OBVIOUS
<1>3. QED
  BY <1>1, <1>2, StepStatic

LEMMA StepGuard ==
    ASSUME CaseOK, IsSeq(agenda), TypeOK, Next, AtGuard
    PROVE  Stepped
<1>1. /\ Taken /\ ~Admitted /\ Untouched
      /\ agenda # <<>> /\ Head(agenda) = StaticResponse(403)
  BY FollowsSingle DEF AtGuard
<1>2. 403 \in 200..599
  OBVIOUS
<1>3. QED
  BY <1>1, <1>2, StepStatic DEF Untouched

\* redirect-code is a redirect.
LEMMA StepRedirection ==
    ASSUME CaseOK, IsSeq(agenda), TypeOK, Next, AtRedirection
    PROVE  Stepped
<1> DEFINE s == RedirectStatus(Cfg)
<1>1. /\ Accepted /\ Untouched
      /\ agenda # <<>> /\ Head(agenda) = StaticResponse(s)
  BY FollowsSingle DEF AtRedirection
<1>2. s \in 300..399
  <2>1. Cfg.redirectCode = 0 \/ Cfg.redirectCode \in 300..399
    BY DEF Cfg, ResolveAnnotations, ResolveCode
  <2> DEFINE temporal == Cfg.temporalRedirect # ""
  <2>2. s = IF Cfg.redirectCode > 0 THEN Cfg.redirectCode
            ELSE IF temporal THEN 302 ELSE 301
    BY DEF RedirectStatus
  <2> HIDE DEF s, temporal
  <2>3. QED
    BY <2>1, <2>2
<1> HIDE DEF s
<1>3. s \in 200..599 /\ s # 403 /\ s # 204
  BY <1>2
<1>4. QED
  BY <1>1, <1>3, StepStatic DEF Accepted

\* Into the routes of the rule.
LEMMA StepRule ==
    ASSUME CaseOK, IsSeq(agenda), TypeOK, Next, AtRule
    PROVE  Stepped
<1>1. answer = None /\ Untouched /\ Taken /\ agenda = <<Subroute(OfRule)>>
  BY Kind DEF AtRule
<1>2. Takers # {}
  BY <1>1 DEF Taken
<1>3. /\ agenda # <<>> /\ Head(agenda) = Subroute(OfRule) /\ Tail(agenda) = <<>>
  BY <1>1
<1>4. Head(agenda).handler = "subroute" /\ Head(agenda).routes = OfRule
  BY <1>3 DEF Subroute
<1>5. EnterSubroute
  BY <1>3, <1>4, Kind
<1>6. IsSeq(OfRule) /\ \A r \in Elems(OfRule) : r.handler = "route"
  BY <1>2, OfRuleTaken
<1>7. agenda' = OfRule /\ UNCHANGED <<case, cors, limit, passed, answer>>
  <2>1. OfRule \o <<>> = OfRule
    BY <1>6 DEF IsSeq
  <2>2. QED
    BY <1>3, <1>4, <1>5, <2>1 DEF EnterSubroute, Next1
<1>8. OfKinds(agenda')
  BY <1>6, <1>7 DEF OfKinds, Kinds
<1>9. AtRoutes'
  <2>1. Trying(OfRule, OfRule, Req)
    BY <1>6, TryingStart
  <2>2. OfRule' = OfRule /\ Req' = Req /\ Taken' /\ Untouched'
    BY <1>1, <1>7, SameCase DEF Untouched
  <2>3. QED
    BY <1>7, <2>1, <2>2 DEF AtRoutes
<1>10. QED
  BY <1>1, <1>6, <1>7, <1>8, <1>9, Moves DEF Places

\* The routes of the rule.
LEMMA StepRoutes ==
    ASSUME CaseOK, IsSeq(agenda), TypeOK, Next, AtRoutes
    PROVE  Stepped
<1>1. answer = None /\ Untouched /\ Taken /\ Trying(OfRule, agenda, Req)
  BY Kind DEF AtRoutes
<1>2. Takers # {}
  BY <1>1 DEF Taken
<1>3. IsSeq(OfRule) /\ \A r \in Elems(OfRule) : r.handler = "route"
  BY <1>2, OfRuleTaken
<1>4. CASE agenda = <<>>
  <2>1. Answer("none", 200, "", <<>>)
    BY <1>4, Kind DEF RunOut
  <2>2. Passes(OfRule, Req)
    BY <1>1, <1>3, <1>4, TryingNext
  <2>3. Admitted /\ ~Preflight /\ (AllRegular => TakenPaths = {})
    BY <1>2, <2>2, OfRuleTaken
  <2>4. Safe'
    BY <2>1, <2>3, SafeNobody DEF Answer
  <2>5. 200 \in 200..599 /\ "none" # ""
    OBVIOUS
  <2>6. QED
    BY <2>1, <2>4, <2>5, Ends, ZenonT(60)
<1>5. CASE agenda # <<>> /\ ~Matches(Head(agenda).match, Req)
  <2>1. Trying(OfRule, Tail(agenda), Req) /\ Head(agenda).handler = "route"
    BY <1>1, <1>3, <1>5, TryingNext
  <2>2. TryRoute
    BY <1>5, <2>1, Kind
  <2>3. agenda' = Tail(agenda) /\ UNCHANGED <<case, cors, limit, passed, answer>>
    BY <1>5, <2>2 DEF TryRoute, Next1, Req
  <2>4. AtRoutes'
    <3>1. OfRule' = OfRule /\ Req' = Req /\ Taken' /\ Untouched'
      BY <1>1, <2>3, SameCase DEF Untouched
    <3>2. QED
      BY <2>1, <2>3, <3>1 DEF AtRoutes
  <2>5. QED
    BY <1>1, <1>5, <2>3, <2>4, Drop, TypeKinds, Moves DEF Places
<1>6. CASE agenda # <<>> /\ Matches(Head(agenda).match, Req)
  <2> DEFINE r == Head(agenda)
             t == Tail(agenda)
  <2>1. Takes(OfRule, r, Req) /\ r.handler = "route"
    BY <1>1, <1>3, <1>6, TryingNext
  <2>2. TryRoute
    BY <1>6, <2>1, Kind
  <2>3. /\ agenda' = IF r.terminal THEN r.handle ELSE r.handle \o t
        /\ UNCHANGED <<case, cors, limit, passed, answer>>
    BY <1>6, <2>2 DEF TryRoute, Next1, Req
  <2>4. IsSeq(t) /\ OfKinds(t)
    BY <1>6, Drop, TypeKinds
  <2> HIDE DEF r, t
  <2>5. IsSeq(r.handle) /\ OfKinds(r.handle)
    BY <1>2, <2>1, RouteShape
  <2>6. IsSeq(agenda') /\ OfKinds(agenda') /\ Follows(agenda', r.handle, 1)
    BY <2>3, <2>4, <2>5, Prepend, FollowsStart
  <2>7. Places'
    BY <1>1, <2>1, <2>3, <2>6, RouteTaken
  <2>8. QED
    BY <1>1, <2>3, <2>6, <2>7, Moves
<1>7. QED
  BY <1>4, <1>5, <1>6

\* The CORS handler puts the right headers on the response.
LEMMA AddsCORS ==
    ASSUME CaseOK, IsSeq(agenda), TypeOK, Next, agenda # <<>>,
           Cfg.cors # <<>>, Several => Listed,
           Head(agenda) = CORSResponse(Cfg.cors[1], Several)
    PROVE  /\ UNCHANGED <<case, limit, passed, answer>> /\ agenda' = Tail(agenda)
           /\ IsSeq(agenda') /\ TypeOK' /\ Right(cors') /\ HasOrigin'
<1> DEFINE x == CORSResponse(Cfg.cors[1], Several)
           c == SetBy(x)
<1>1. x.handler = "cors"
  BY DEF CORSResponse
<1>2. AddCORS
  BY <1>1, Kind
<1>3. /\ UNCHANGED <<case, limit, passed, answer>> /\ agenda' = Tail(agenda)
      /\ cors' = c
  <2> HIDE DEF x
  <2>1. Head(agenda) = x
    BY DEF x
  <2>2. QED
    BY <1>2, <2>1 DEF AddCORS, Next1, SetBy, Req
<1>4. /\ Right(c) /\ c.origin # ""
      /\ c.origin \in {"*"} \cup Elems(NonBlank(Ann.origins)) \cup {Req.origin}
  BY CORSSet
<1> HIDE DEF c
<1>5. IsSeq(agenda') /\ OfKinds(agenda')
  BY <1>3, Drop, TypeKinds
<1>6. TypeOK'
  <2>1. case' = case /\ limit' = limit /\ passed' = passed /\ answer' = answer
    BY <1>3
  <2>2. cors'.origin \in {"*"} \cup Elems(NonBlank(case'.ann.origins)) \cup {case'.req.origin}
    BY <1>3, <1>4, <2>1 DEF Ann, Req
  <2>3. Elems(agenda') \subseteq {r \in Elems(agenda') :
           r.handler \in Handlers \cup {"route", "subroute", "cors",
                                        "static_response", "reverse_proxy"}}
    BY <1>5 DEF OfKinds, Kinds
  <2>4. QED
    BY <2>1, <2>2, <2>3 DEF TypeOK
<1>7. HasOrigin'
  BY <1>3, <1>4 DEF HasOrigin
<1>8. QED
  BY <1>3, <1>4, <1>5, <1>6, <1>7

\* A preflight request is answered for an origin that the list allows only.
LEMMA PreflightListed ==
    ASSUME CaseOK, Preflight
    PROVE  Cfg.cors # <<>> /\ (Several => Listed)
<1>1. Cfg.cors # <<>>
  BY CORSConfigured DEF Preflight, OriginAllowed
<1>2. CASE StarAlone
  <2>1. Cfg.cors[1].origins = <<"*">>
    BY <1>1, <1>2, CORSConfigured
  <2>2. Len(Cfg.cors[1].origins) = 1
    BY <2>1, Single
  <2>3. QED
    BY <1>1, <2>2 DEF Several
<1>3. CASE ~StarAlone
  BY <1>1, <1>3, AllowedElems DEF Preflight, OriginAllowed, Listed
<1>4. QED
  BY <1>2, <1>3

LEMMA StepPreflight ==
    ASSUME CaseOK, IsSeq(agenda), TypeOK, Next, AtPreflight
    PROVE  Stepped
<1>1. /\ answer = None /\ Taken /\ Admitted /\ Preflight
      /\ limit = 0 /\ passed = <<>>
  BY Kind DEF AtPreflight
<1>2. PICK n \in 1..2 : Follows(agenda, PreflightHandlers, n) /\ (n = 2 => HasOrigin)
  BY DEF AtPreflight
<1>3. Cfg.cors # <<>> /\ (Several => Listed)
  BY <1>1, PreflightListed
<1>4. /\ IsSeq(PreflightHandlers) /\ Len(PreflightHandlers) = 2
      /\ PreflightHandlers[1] = CORSResponse(Cfg.cors[1], Several)
      /\ PreflightHandlers[2] = StaticResponse(204)
  BY <1>3, PreflightShape
<1>5. /\ agenda # <<>> /\ Head(agenda) = PreflightHandlers[n]
      /\ Follows(Tail(agenda), PreflightHandlers, n + 1)
  <2>1. n \in 1..Len(PreflightHandlers)
    BY <1>4
  <2>2. QED
    BY <1>2, <1>4, <2>1, FollowsNext
<1>6. CASE n = 1
  <2>1. Head(agenda) = CORSResponse(Cfg.cors[1], Several)
    BY <1>4, <1>5, <1>6
  <2>2. /\ UNCHANGED <<case, limit, passed, answer>> /\ agenda' = Tail(agenda)
        /\ IsSeq(agenda') /\ TypeOK' /\ HasOrigin'
    BY <1>3, <1>5, <2>1, AddsCORS
  <2>3. 2 \in 1..2 /\ n + 1 = 2
    BY <1>6
  <2>4. Follows(agenda', PreflightHandlers, 2)
    BY <1>5, <2>2, <2>3
  <2>5. AtPreflight'
    <3>1. /\ Taken' /\ Admitted' /\ Preflight' /\ limit' = 0 /\ passed' = <<>>
          /\ PreflightHandlers' = PreflightHandlers
      BY <1>1, <2>2, SameCase
    <3>2. QED
      BY <2>2, <2>3, <2>4, <3>1 DEF AtPreflight
  <2>6. QED
    BY <1>1, <2>2, <2>5 DEF Stepped, Places
<1>7. CASE n = 2
  <2>1. Head(agenda) = StaticResponse(204) /\ HasOrigin
    BY <1>2, <1>4, <1>5, <1>7
  <2>2. 204 \in 200..599 /\ 204 # 403
    OBVIOUS
  <2>3. QED
    BY <1>1, <1>5, <2>1, <2>2, StepStatic
<1>8. QED
  BY <1>6, <1>7

\* Into the two routes for the origins.
LEMMA StepChoice ==
    ASSUME CaseOK, IsSeq(agenda), TypeOK, Next, NEW u \in Services, AtChoice(u)
    PROVE  Stepped
<1>1. /\ answer = None /\ Untouched /\ Accepted /\ Backend(u) /\ Several
      /\ Follows(agenda, <<Subroute(OriginRoutes(u))>>, 1)
  BY Kind DEF AtChoice
<1>2. agenda # <<>> /\ Head(agenda) = Subroute(OriginRoutes(u))
  BY <1>1, FollowsSingle
<1>3. Head(agenda).handler = "subroute" /\ Head(agenda).routes = OriginRoutes(u)
  BY <1>2 DEF Subroute
<1>4. EnterSubroute
  BY <1>2, <1>3, Kind
<1>5. /\ agenda' = OriginRoutes(u) \o Tail(agenda)
      /\ UNCHANGED <<case, cors, limit, passed, answer>>
  BY <1>3, <1>4 DEF EnterSubroute, Next1
<1>6. IsSeq(OriginRoutes(u)) /\ OfKinds(OriginRoutes(u))
  BY OriginRoutesShape
<1>7. IsSeq(Tail(agenda)) /\ OfKinds(Tail(agenda))
  BY <1>2, Drop, TypeKinds
<1>8. IsSeq(agenda') /\ OfKinds(agenda') /\ Follows(agenda', OriginRoutes(u), 1)
  BY <1>5, <1>6, <1>7, Prepend
<1>9. AtOrigins(u)'
  <2>1. /\ Untouched' /\ Accepted' /\ Backend(u)' /\ Several'
        /\ OriginRoutes(u)' = OriginRoutes(u)
    BY <1>1, <1>5, SameCase, SameService DEF Untouched, Accepted
  <2>2. 1 \in 1..2 /\ 1 # 2
    OBVIOUS
  <2>3. QED
    BY <1>8, <2>1, <2>2 DEF AtOrigins
<1>10. u \in Services'
  BY <1>5, SameCase
<1>11. QED
  BY <1>1, <1>5, <1>8, <1>9, <1>10, Moves DEF Places

\* What the two routes are, and for whom.
LEMMA OriginRoutesTaken ==
    ASSUME CaseOK, NEW u, Several
    PROVE  /\ OriginRoutes(u)[1].handle = WithCORS(u)
           /\ Matches(OriginRoutes(u)[1].match, Req) <=> Listed
           /\ OriginRoutes(u)[2].handle = Chain(u)
           /\ Matches(OriginRoutes(u)[2].match, Req)
<1> DEFINE S == Elems(Cfg.cors[1].origins)
           m == [Nil EXCEPT !.origin = S]
           h1 == BuildCoreHandlers(u, case.sec, Cfg, ~case.ing.tls, TRUE, TRUE)
           h2 == BuildCoreHandlers(u, case.sec, Cfg, ~case.ing.tls, FALSE, FALSE)
           x == Route(m, h1, TRUE)
           y == Route(Nil, h2, TRUE)
<1>1. Cfg.cors # <<>>
  BY DEF Several
<1>2. h1 = WithCORS(u) /\ h2 = Chain(u)
  <2> DEFINE yes == TRUE
             no == FALSE
  <2>1. yes <=> Several
    OBVIOUS
  <2> HIDE DEF yes, no
  <2>2. /\ BuildCoreHandlers(u, case.sec, Cfg, ~case.ing.tls, TRUE, yes) = WithCORS(u)
        /\ BuildCoreHandlers(u, case.sec, Cfg, ~case.ing.tls, FALSE, no) = Chain(u)
    BY <1>1, <2>1, CoreForm
  <2>3. QED
    BY <2>2 DEF yes, no
<1>3. S # {}
  <2>1. IsSeq(Cfg.cors[1].origins) /\ Cfg.cors[1].origins # <<>>
    BY <1>1, CORSConfigured
  <2>2. QED
    BY <2>1, TailSeq
<1>4. Matches(m, Req) <=> Listed
  <2>1. Listed <=> \E p \in S : OriginMatches(p, Req.origin)
    BY DEF Listed
  <2> HIDE DEF S
  <2>2. /\ m.host = {} /\ m.path = {} /\ m.method = {} /\ m.in = {} /\ m.notIn = {}
        /\ m.origin = S
    BY DEF Nil
  <2> HIDE DEF m
  <2>3. QED
    BY <1>3, <2>1, <2>2 DEF Matches
<1>5. Matches(Nil, Req)
  BY DEF Matches, Nil
<1> HIDE DEF m, h1, h2
<1>6. x.handle = h1 /\ x.match = m /\ y.handle = h2 /\ y.match = Nil
  BY DEF Route
<1>7. OriginRoutes(u) = <<x, y>>
  BY DEF OriginRoutes, m, h1, h2
<1> HIDE DEF x, y
<1>8. <<x, y>>[1] = x /\ <<x, y>>[2] = y
  OBVIOUS
<1>9. QED
  BY <1>2, <1>4, <1>5, <1>6, <1>7, <1>8

LEMMA StepOrigins ==
    ASSUME CaseOK, IsSeq(agenda), TypeOK, Next, NEW u \in Services, AtOrigins(u)
    PROVE  Stepped
<1> DEFINE R == OriginRoutes(u)
<1>1. answer = None /\ Untouched /\ Accepted /\ Backend(u) /\ Several
  BY Kind DEF AtOrigins
<1>2. PICK n \in 1..2 : Follows(agenda, R, n) /\ (n = 2 => ~Listed)
  BY DEF AtOrigins
<1>3. /\ IsSeq(R) /\ Len(R) = 2
      /\ R[n].handler = "route" /\ R[n].terminal
  BY OriginRoutesShape
<1>4. /\ agenda # <<>> /\ Head(agenda) = R[n]
      /\ Follows(Tail(agenda), R, n + 1)
  <2>1. n \in 1..Len(R)
    BY <1>3
  <2> HIDE DEF R
  <2>2. QED
    BY <1>2, <1>3, <2>1, FollowsNext
<1>5. /\ R[1].handle = WithCORS(u) /\ (Matches(R[1].match, Req) <=> Listed)
      /\ R[2].handle = Chain(u) /\ Matches(R[2].match, Req)
  BY <1>1, OriginRoutesTaken
<1>6. /\ agenda' = IF Matches(R[n].match, Req) THEN R[n].handle ELSE Tail(agenda)
      /\ UNCHANGED <<case, cors, limit, passed, answer>>
  BY <1>3, <1>4, Kind DEF TryRoute, Next1, Req
<1>7. /\ Untouched' /\ Accepted' /\ Backend(u)' /\ (Several' <=> Several)
      /\ (Listed' <=> Listed) /\ u \in Services' /\ Cfg' = Cfg
      /\ OriginRoutes(u)' = OriginRoutes(u) /\ WithCORS(u)' = WithCORS(u)
  BY <1>1, <1>6, SameCase, SameService DEF Untouched, Accepted
<1> HIDE DEF R
<1>8. CASE n = 1 /\ ~Listed
  <2>1. agenda' = Tail(agenda)
    BY <1>5, <1>6, <1>8
  <2>2. IsSeq(agenda') /\ OfKinds(agenda')
    BY <1>4, <2>1, Drop, TypeKinds
  <2>3. 2 \in 1..2 /\ n + 1 = 2
    BY <1>8
  <2>4. AtOrigins(u)'
    BY <1>1, <1>4, <1>7, <1>8, <2>1, <2>3 DEF AtOrigins, R
  <2>5. QED
    BY <1>1, <1>6, <1>7, <2>2, <2>4, Moves DEF Places
<1>9. CASE n = 1 /\ Listed
  <2>1. agenda' = WithCORS(u)
    BY <1>5, <1>6, <1>9
  <2>2. IsSeq(agenda') /\ OfKinds(agenda') /\ Follows(agenda', WithCORS(u), 1)
    BY <2>1, WithCORSShape, Empty, FollowsStart
  <2>3. AtCORS(u)'
    BY <1>1, <1>7, <1>9, <2>2 DEF AtCORS, Several
  <2>4. QED
    BY <1>1, <1>6, <1>7, <2>2, <2>3, Moves DEF Places
<1>10. CASE n = 2
  <2>1. ~Listed /\ agenda' = Chain(u)
    BY <1>2, <1>5, <1>6, <1>10
  <2>2. IsSeq(agenda') /\ OfKinds(agenda') /\ Follows(agenda', Chain(u), 1)
    BY <2>1, ChainShape, Empty, FollowsStart
  <2>3. Right(cors') /\ limit' = 0 /\ passed' = <<>>
    <3>1. Right(NoCORS)
      BY <1>1, <2>1, CORSAbsent
    <3>2. QED
      BY <1>1, <1>6, <3>1 DEF Untouched
  <2>4. AtChecks(u)'
    BY <1>1, <1>6, <2>2, <2>3, StartChecks
  <2>5. QED
    BY <1>1, <1>6, <1>7, <2>2, <2>4, Moves DEF Places
<1>11. QED
  BY <1>8, <1>9, <1>10

\* The CORS handler of a chain.
LEMMA StepCORS ==
    ASSUME CaseOK, IsSeq(agenda), TypeOK, Next, NEW u \in Services, AtCORS(u)
    PROVE  Stepped
<1> DEFINE W == WithCORS(u)
           C == Chain(u)
<1>1. /\ answer = None /\ Untouched /\ Accepted /\ Backend(u)
      /\ Cfg.cors # <<>> /\ (Several => Listed)
      /\ Follows(agenda, W, 1)
  BY Kind DEF AtCORS
<1>2. /\ IsSeq(W) /\ Len(W) = Len(C) + 1
      /\ W[1] = CORSResponse(Cfg.cors[1], Several)
      /\ \A i \in 1..Len(C) : W[i + 1] = C[i]
  BY WithCORSShape
<1>3. IsSeq(C) /\ Len(C) \in Nat
  BY ChainShape
<1> HIDE DEF W, C
<1>4. /\ agenda # <<>> /\ Head(agenda) = CORSResponse(Cfg.cors[1], Several)
      /\ Follows(Tail(agenda), W, 2)
  <2>1. 1 \in 1..Len(W) /\ 1 + 1 = 2
    BY <1>2, <1>3
  <2>2. Head(agenda) = W[1] /\ Follows(Tail(agenda), W, 1 + 1) /\ agenda # <<>>
    BY <1>1, <1>2, <2>1, FollowsNext
  <2>3. QED
    BY <1>2, <2>1, <2>2
<1>5. /\ UNCHANGED <<case, limit, passed, answer>> /\ agenda' = Tail(agenda)
      /\ IsSeq(agenda') /\ TypeOK' /\ Right(cors')
  BY <1>1, <1>4, AddsCORS
<1>6. Follows(agenda', C, 1)
  <2>1. /\ Len(W) - 2 + 1 <= Len(agenda')
        /\ \A i \in 2..Len(W) : agenda'[i - 2 + 1] = W[i]
    BY <1>4, <1>5 DEF Follows
  <2>2. Len(agenda') \in Nat
    BY <1>5 DEF IsSeq
  <2>3. Len(C) - 1 + 1 <= Len(agenda') /\ 1 \in 1..Len(C) + 1
    BY <1>2, <1>3, <2>1, <2>2
  <2>4. ASSUME NEW i \in 1..Len(C) PROVE agenda'[i - 1 + 1] = C[i]
    <3>1. i + 1 \in 2..Len(W) /\ i + 1 - 2 + 1 = i - 1 + 1
      BY <1>2, <1>3
    <3>2. agenda'[i + 1 - 2 + 1] = W[i + 1]
      BY <2>1, <3>1
    <3>3. QED
      BY <1>2, <3>1, <3>2
  <2>5. QED
    BY <2>3, <2>4 DEF Follows
<1>7. AtChecks(u)'
  <2>1. limit' = 0 /\ passed' = <<>>
    BY <1>1, <1>5 DEF Untouched
  <2>2. QED
    BY <1>1, <1>5, <1>6, <2>1, StartChecks DEF C
<1>8. QED
  BY <1>1, <1>5, <1>7, SameCase DEF Stepped, Places

\* The accounts are lines of the Secret.
LEMMA Accounts ==
    ASSUME CaseOK, Cfg.basicAuth # <<>>
    PROVE  \A i \in DOMAIN Cfg.basicAuth : Cfg.basicAuth[i] \in Bcrypt(case.objs.auth)
<1> DEFINE o == case.objs.auth
           S == {l \in Elems(o.lines) : IsAccount(l)}
           k == Keep(o.lines, S)
           fetched == FetchBasicAuthAccounts(o)
<1>1. IsSeq(o.lines)
  BY AnnType, SeqIsSeq
<1>2. Elems(k) \subseteq S
  <2> HIDE DEF S
  <2>1. QED
    BY <1>1, KeepElems
<1>3. Cfg.basicAuth = IF Ann.basicAuth /\ fetched # <<>> THEN fetched[1] ELSE <<>>
  BY DEF Cfg, ResolveAnnotations, ResolveBasicAuth
<1>4. fetched = IF o.found /\ o.key /\ k # <<>> THEN <<k>> ELSE <<>>
  BY DEF FetchBasicAuthAccounts
<1>5. S \subseteq Bcrypt(o)
  BY DEF IsAccount, Bcrypt
<1> HIDE DEF k, fetched, S
<1>6. Cfg.basicAuth = k
  BY <1>3, <1>4
<1>7. QED
  BY <1>2, <1>5, <1>6 DEF Elems

\* A check refuses the request.
LEMMA Refuses ==
    ASSUME CaseOK, TypeOK, IsSeq(agenda), Accepted, Right(cors),
           NEW by \in Handlers \ {"request_body"}, NEW status \in 200..599,
           Answer(by, status, "", <<>>)
    PROVE  Stepped
<1>1. by \notin {"none", "static_response", "reverse_proxy", "request_body"}
  BY DEF Handlers
<1>2. by # ""
  BY DEF Handlers
<1>3. Safe'
  BY <1>1, SafeHandler DEF Answer
<1>4. QED
  BY <1>2, <1>3, Ends, ZenonT(60)

\* A check lets the request through.
LEMMA Passing ==
    ASSUME CaseOK, IsSeq(agenda), TypeOK, answer = None,
           NEW u \in Services, NEW n \in 1..Len(Chk), AtCheck(u, n),
           Pass,
           LET kind == Chk[n].handler
           IN  /\ limit' = IF kind = "request_body" THEN Cfg.maxBodySize ELSE limit
               /\ kind = "authentication" =>
                     \E l \in Bcrypt(case.objs.auth) : l.user = Req.user
               /\ kind = "waf" => ~(Req.attack /\ Blocks(Engine.directives))
    PROVE  Stepped
<1> DEFINE kind == Chk[n].handler
           C == Chain(u)
           m == n + 1
<1>1. /\ Accepted /\ Backend(u) /\ Right(cors) /\ Follows(agenda, C, n)
      /\ IsSeq(passed) /\ Len(passed) = n - 1
      /\ \A i \in 1..n - 1 : passed[i] = C[i].handler
      /\ limit = IF "request_body" \in Elems(passed) THEN Cfg.maxBodySize ELSE 0
  BY DEF AtCheck
<1>2. /\ "authentication" \in Elems(passed) =>
            \E l \in Bcrypt(case.objs.auth) : l.user = Req.user
      /\ "waf" \in Elems(passed) => ~(Req.attack /\ Blocks(Engine.directives))
  BY DEF AtCheck, Engine
<1>3. /\ IsSeq(C) /\ Len(Chk) \in Nat /\ Len(C) = Len(Chk) + 1
      /\ C[n] = Chk[n] /\ Chk[n] \in Elems(Chk)
  BY ChainShape
<1>4. kind \in Handlers
  BY <1>3, CheckKinds
<1> HIDE DEF C
<1>5. n \in 1..Len(C) /\ m \in 1..Len(C)
  BY <1>3
<1>6. /\ agenda # <<>> /\ Head(agenda) = C[n] /\ Follows(Tail(agenda), C, m)
  BY <1>1, <1>3, <1>5, FollowsNext
<1>7. /\ UNCHANGED <<case, cors, answer>>
      /\ agenda' = Tail(agenda) /\ passed' = Append(passed, kind)
  BY <1>3, <1>6 DEF Pass, Next1
<1>8. IsSeq(agenda') /\ OfKinds(agenda')
  BY <1>6, <1>7, Drop, TypeKinds
<1> HIDE DEF kind
<1>9. /\ IsSeq(passed') /\ Len(passed') = m - 1
      /\ Elems(passed') = Elems(passed) \cup {kind}
      /\ \A i \in 1..m - 1 : passed'[i] = C[i].handler
  <2>1. /\ IsSeq(passed') /\ Len(passed') = Len(passed) + 1
        /\ \A i \in 1..Len(passed) : passed'[i] = passed[i]
        /\ passed'[Len(passed) + 1] = kind
        /\ Elems(passed') = Elems(passed) \cup {kind}
    BY <1>1, <1>7, AppendSeq
  <2>2. Len(passed) + 1 = m - 1 /\ Len(passed) + 1 = n
    BY <1>1
  <2>3. \A i \in 1..m - 1 : i \in 1..n - 1 \/ i = n
    OBVIOUS
  <2>4. kind = C[n].handler
    BY <1>3 DEF kind
  <2>5. QED
    BY <1>1, <2>1, <2>2, <2>3, <2>4
<1>10. limit' = IF "request_body" \in Elems(passed') THEN Cfg.maxBodySize ELSE 0
  <2>1. limit' = IF kind = "request_body" THEN Cfg.maxBodySize ELSE limit
    BY DEF kind
  <2>2. QED
    BY <1>1, <1>9, <2>1
<1>11. /\ kind = "authentication" =>
             \E l \in Bcrypt(case.objs.auth) : l.user = Req.user
       /\ kind = "waf" => ~(Req.attack /\ Blocks(Engine.directives))
  BY DEF kind
<1>12. /\ "authentication" \in Elems(passed') =>
             \E l \in Bcrypt(case.objs.auth) : l.user = Req.user
       /\ "waf" \in Elems(passed') => ~(Req.attack /\ Blocks(Engine.directives))
  BY <1>2, <1>9, <1>11
<1>13. AtCheck(u, m)'
  <2>1. /\ Accepted' /\ Backend(u)' /\ C' = C /\ Cfg' = Cfg /\ Req' = Req
        /\ case' = case /\ Engine' = Engine
    BY <1>1, <1>7, SameCase, SameService DEF Accepted, C
  <2>2. Right(cors)'
    BY <1>1, <1>7, RightNext
  <2> HIDE DEF m
  <2>3. Follows(agenda', C, m)
    BY <1>6, <1>7
  <2>4. QED
    BY <1>5, <1>9, <1>10, <1>12, <2>1, <2>2, <2>3 DEF AtCheck, C, Engine
<1>14. AtChecks(u)'
  <2>1. C' = C
    BY <1>7, SameService DEF C
  <2> HIDE DEF m
  <2>2. QED
    BY <1>5, <1>13, <2>1 DEF AtChecks, C
<1>15. Places'
  BY <1>7, <1>14, SameCase DEF Places
<1>16. TypeOK'
  <2>1. limit' \in Int
    BY <1>10, BodySize
  <2>2. Elems(passed') \subseteq Handlers
    BY <1>4, <1>9 DEF TypeOK
  <2>3. cors'.origin \in {"", "*"} \cup Elems(NonBlank(case'.ann.origins))
                         \cup {case'.req.origin}
    BY <1>7, ZenonT(60) DEF TypeOK
  <2>4. Elems(agenda') \subseteq {r \in Elems(agenda') :
           r.handler \in Handlers \cup {"route", "subroute", "cors",
                                        "static_response", "reverse_proxy"}}
    BY <1>8 DEF OfKinds, Kinds
  <2>5. answer' = None
    BY <1>7
  <2>6. QED
    BY <2>1, <2>2, <2>3, <2>4, <2>5 DEF TypeOK
<1>17. QED
  BY <1>7, <1>8, <1>15, <1>16 DEF Stepped

\* The checks, one after the other.
LEMMA StepCheck ==
    ASSUME CaseOK, IsSeq(agenda), TypeOK, Next, NEW u \in Services,
           NEW n \in 1..Len(Chk), AtCheck(u, n)
    PROVE  Stepped
<1> DEFINE x == Chk[n]
<1>1. answer = None /\ Accepted /\ Right(cors)
  BY Kind DEF AtCheck
<1>2. x \in Elems(Chk) /\ agenda # <<>> /\ Head(agenda) = x
  <2>1. /\ IsSeq(Chain(u)) /\ Len(Chk) \in Nat /\ Len(Chain(u)) = Len(Chk) + 1
        /\ Chain(u)[n] = x /\ x \in Elems(Chk)
    BY ChainShape
  <2>2. n \in 1..Len(Chain(u)) /\ Follows(agenda, Chain(u), n)
    BY <2>1 DEF AtCheck
  <2>3. QED
    BY <2>1, <2>2, FollowsNext
<1> HIDE DEF x
<1>3. /\ CaseOK /\ IsSeq(agenda) /\ TypeOK /\ AtCheck(u, n)
  OBVIOUS
<1>4. ASSUME Pass, UNCHANGED limit,
             x.handler \notin {"request_body", "authentication", "waf"}
      PROVE  Stepped
  <2>1. /\ x.handler # "request_body" /\ x.handler # "authentication"
        /\ x.handler # "waf"
    BY <1>4
  <2>2. limit' = limit
    BY <1>4
  <2>3. QED
    BY <1>1, <1>4, <2>1, <2>2, Passing DEF x
<1>5. CASE x = BasicAuthHandler(Cfg.basicAuth) /\ Cfg.basicAuth # <<>>
  <2>1. x.handler = "authentication" /\ x.accounts = Cfg.basicAuth
    BY <1>5 DEF BasicAuthHandler
  <2>2. Authenticate
    BY <1>2, <2>1, Kind
  <2>3. CASE \E i \in DOMAIN Cfg.basicAuth : Cfg.basicAuth[i].user = Req.user
    <3>1. Pass /\ limit' = limit
      BY <1>2, <2>1, <2>2, <2>3 DEF Authenticate, Next1, Req
    <3>2. \E l \in Bcrypt(case.objs.auth) : l.user = Req.user
      BY <1>5, <2>3, Accounts
    <3>3. "authentication" # "request_body" /\ "authentication" # "waf"
      OBVIOUS
    <3>4. QED
      BY <1>1, <2>1, <3>1, <3>2, <3>3, Passing DEF x
  <2>4. CASE ~\E i \in DOMAIN Cfg.basicAuth : Cfg.basicAuth[i].user = Req.user
    <3>1. Answer("authentication", 401, "", <<>>)
      BY <1>2, <2>1, <2>2, <2>4 DEF Authenticate, Next1, Req
    <3>2. "authentication" \in Handlers \ {"request_body"} /\ 401 \in 200..599
      BY DEF Handlers
    <3>3. QED
      BY <1>1, <3>1, <3>2, Refuses, ZenonT(60)
  <2>5. QED
    BY <2>3, <2>4
<1>6. CASE x = [handler |-> "request_body", max |-> Cfg.maxBodySize]
  <2>1. x.handler = "request_body" /\ x.max = Cfg.maxBodySize
    BY <1>6
  <2>2. LimitBody
    BY <1>2, <2>1, Kind
  <2>3. Pass /\ limit' = Cfg.maxBodySize
    BY <1>2, <2>1, <2>2 DEF LimitBody, Next1
  <2>4. "request_body" # "authentication" /\ "request_body" # "waf"
    OBVIOUS
  <2>5. QED
    BY <1>1, <2>1, <2>3, <2>4, Passing DEF x
<1>7. CASE x = RateLimitHandler(Cfg.limitRPS)
  <2>1. x.handler = "rate_limit"
    BY <1>7 DEF RateLimitHandler
  <2>2. (Pass /\ UNCHANGED limit) \/ Answer("rate_limit", 429, "", <<>>)
    BY <1>2, <2>1, Kind DEF RateLimit
  <2>3. "rate_limit" \in Handlers \ {"request_body"} /\ 429 \in 200..599
    BY DEF Handlers
  <2>4. QED
    BY <1>1, <1>4, <2>1, <2>2, <2>3, Refuses, ZenonT(60)
<1>8. ASSUME x.handler \in {"rewrite", "security_headers", "response_headers"}
      PROVE  Stepped
  <2>1. Pass /\ UNCHANGED limit
    BY <1>2, <1>8, Kind DEF Alter
  <2>2. QED
    BY <1>4, <1>8, <2>1
<1>9. CASE x = Engine
  <2>1. x.handler = "waf"
    BY <1>9, CheckKinds
  <2>2. Inspect
    BY <1>2, <2>1, Kind
  <2>3. CASE Req.attack /\ Blocks(Engine.directives)
    <3>1. Answer("waf", 403, "", <<>>)
      BY <1>2, <1>9, <2>2, <2>3 DEF Inspect, Next1, Req
    <3>2. "waf" \in Handlers \ {"request_body"} /\ 403 \in 200..599
      BY DEF Handlers
    <3>3. QED
      BY <1>1, <3>1, <3>2, Refuses, ZenonT(60)
  <2>4. CASE ~(Req.attack /\ Blocks(Engine.directives))
    <3>1. Pass /\ limit' = limit
      BY <1>2, <1>9, <2>2, <2>4 DEF Inspect, Next1, Req
    <3>2. "waf" # "request_body" /\ "waf" # "authentication"
      OBVIOUS
    <3>3. QED
      BY <1>1, <2>1, <2>4, <3>1, <3>2, Passing DEF x
  <2>5. QED
    BY <2>3, <2>4
<1>10. CASE x = [handler |-> "policy"]
  <2>1. x.handler = "policy"
    BY <1>10
  <2>2. (Pass /\ UNCHANGED limit) \/ Answer("policy", 403, "", <<>>)
    BY <1>2, <2>1, Kind DEF Authorize
  <2>3. "policy" \in Handlers \ {"request_body"} /\ 403 \in 200..599
    BY DEF Handlers
  <2>4. QED
    BY <1>1, <1>4, <2>1, <2>2, <2>3, Refuses, ZenonT(60)
<1>11. /\ x = [handler |-> "rewrite", uri |-> Cfg.rewriteTarget] => x.handler = "rewrite"
       /\ x = SecurityHeadersHandler => x.handler = "security_headers"
       /\ x = ResponseHeadersHandler(Cfg.responseHeaders)
             => x.handler = "response_headers"
  BY CheckKinds
<1>12. QED
  BY <1>2, <1>5, <1>6, <1>7, <1>8, <1>9, <1>10, <1>11, ChecksElems

\* Once all checks have been passed, their names are what Required asks for.
LEMMA AllPassed ==
    ASSUME CaseOK, NEW u, AtCheck(u, Len(Chk) + 1)
    PROVE  /\ passed = Names(Chk) /\ passed = Required
           /\ limit > 0 => limit = Cfg.maxBodySize
           /\ Cfg.maxBodySize > 0 => limit = Cfg.maxBodySize
<1> DEFINE m == Len(Chk)
<1>1. /\ IsSeq(Chk) /\ m \in Nat
      /\ \A i \in 1..m : Chain(u)[i] = Chk[i] /\ Chk[i] \in Elems(Chk)
  BY ChainShape, ChecksElems
<1>2. /\ IsSeq(passed) /\ Len(passed) = m + 1 - 1
      /\ \A i \in 1..m + 1 - 1 : passed[i] = Chain(u)[i].handler
      /\ limit = IF "request_body" \in Elems(passed) THEN Cfg.maxBodySize ELSE 0
  BY DEF AtCheck
<1>3. m + 1 - 1 = m
  BY <1>1
<1>4. passed = Names(Chk)
  <2>1. DOMAIN passed = 1..m /\ DOMAIN Chk = 1..m
    BY <1>1, <1>2, <1>3 DEF IsSeq
  <2>2. \A i \in 1..m : passed[i] = Chk[i].handler
    BY <1>1, <1>2, <1>3
  <2>3. passed = [i \in 1..m |-> passed[i]]
    BY <1>2, <2>1 DEF IsSeq
  <2>4. QED
    BY <2>1, <2>2, <2>3 DEF Names
<1>5. "request_body" \in Elems(passed) <=> Cfg.maxBodySize > 0
  <2>1. ASSUME "request_body" \in Elems(passed) PROVE Cfg.maxBodySize > 0
    <3>1. PICK x \in Elems(Chk) : x.handler = "request_body"
      BY <1>4, <2>1 DEF Names, Elems
    <3>2. x = [handler |-> "request_body", max |-> Cfg.maxBodySize]
      BY <3>1, ChecksElems, CheckKinds
    <3>3. QED
      BY <3>1, <3>2, ChecksElems
  <2>2. ASSUME Cfg.maxBodySize > 0 PROVE "request_body" \in Elems(passed)
    <3>1. PICK x \in Elems(Chk) : x = [handler |-> "request_body", max |-> Cfg.maxBodySize]
      BY <2>2, ChecksElems
    <3>2. x.handler = "request_body"
      BY <3>1
    <3>3. QED
      BY <1>4, <3>2 DEF Names, Elems
  <2>3. QED
    BY <2>1, <2>2
<1>6. Cfg.maxBodySize \in Int
  BY BodySize
<1>7. /\ limit > 0 <=> Cfg.maxBodySize > 0
      /\ limit > 0 => limit = Cfg.maxBodySize
  BY <1>2, <1>5, <1>6
<1>8. If(limit > 0, "request_body") = If(Cfg.maxBodySize > 0, "request_body")
  BY <1>7, SameIf
<1>9. passed = Required
  BY <1>4, <1>8, ChecksNamed DEF Required
<1>10. QED
  BY <1>4, <1>7, <1>9

\* The proxy sends the headers that were asked for.
LEMMA ForwardedNext ==
    ASSUME CaseOK, case' = case, NEW u,
           NEW h \in Sent(ReverseProxy(u, case.sec, Cfg, ~case.ing.tls)),
           answer'.headers = h
    PROVE  Forwarded'
<1>1. Ann' = Ann
  BY SameCase
<1>2. SUFFICES ASSUME NEW i \in DOMAIN Ann.requestHeaders
               PROVE  LET part == Ann.requestHeaders[i]
                      IN  /\ part.op = "delete" => Canonical(part.name) \notin DOMAIN h
                          /\ (/\ part.op = "set" /\ part.name = Canonical(part.name)
                              /\ \A j \in DOMAIN Ann.requestHeaders :
                                    j = i \/ Canonical(Ann.requestHeaders[j].name) # part.name)
                                => h[part.name] = part.value
  BY <1>1 DEF Forwarded
<1>3. QED
  BY HeadersSent

\* A request that gets to the proxy has been inspected.
LEMMA InspectedNext ==
    ASSUME CaseOK, UNCHANGED <<case, cors, limit, passed>>,
           NEW u, AtCheck(u, Len(Chk) + 1),
           NEW h \in Sent(ReverseProxy(u, case.sec, Cfg, ~case.ing.tls)),
           answer'.headers = h
    PROVE  Inspected'
<1>1. /\ Ann' = Ann /\ Req' = Req /\ Required' = Required
      /\ (Blocking' <=> Blocking) /\ (Removed' <=> Removed)
  <2>1. Ann' = Ann /\ Req' = Req /\ case' = case /\ limit' = limit
    BY SameCase
  <2>2. Required' = Required
    BY <2>1 DEF Required
  <2>3. (Blocking' <=> Blocking) /\ (Removed' <=> Removed)
    BY <2>1 DEF Blocking, Removed
  <2>4. QED
    BY <2>1, <2>2, <2>3
<1>2. passed = Required /\ passed = Names(Chk)
  BY AllPassed
<1>3. "authentication" \in Elems(passed) =>
         \E l \in Bcrypt(case.objs.auth) : l.user = Req.user
  BY DEF AtCheck
<1>4. ASSUME Blocking, ~Removed PROVE ~Req.attack
  <2>1. Engine \in Elems(Chk) /\ Blocks(Engine.directives)
    BY <1>4, EngineBlocks, ChecksElems
  <2>2. Engine.handler = "waf"
    BY CheckKinds
  <2>3. "waf" \in Elems(passed)
    BY <1>2, <2>1, <2>2 DEF Names, Elems
  <2>4. ~(Req.attack /\ Blocks(Engine.directives))
    BY <2>3 DEF AtCheck, Engine
  <2>5. QED
    BY <2>1, <2>4
<1>5. Forwarded'
  BY ForwardedNext
<1>6. case' = case /\ passed' = passed
  OBVIOUS
<1>7. QED
  BY <1>1, <1>2, <1>3, <1>4, <1>5, <1>6 DEF Inspected

\* The proxy.
LEMMA StepProxy ==
    ASSUME CaseOK, IsSeq(agenda), TypeOK, Next, NEW u \in Services,
           AtCheck(u, Len(Chk) + 1)
    PROVE  Stepped
<1> DEFINE p == ReverseProxy(u, case.sec, Cfg, ~case.ing.tls)
           m == Len(Chk)
<1>1. answer = None /\ Accepted /\ Backend(u) /\ Right(cors)
  BY Kind DEF AtCheck
<1>2. agenda # <<>> /\ Head(agenda) = p
  <2>1. /\ IsSeq(Chain(u)) /\ m \in Nat /\ Len(Chain(u)) = m + 1
        /\ Chain(u)[m + 1] = p
    BY ChainShape
  <2>2. m + 1 \in 1..Len(Chain(u)) /\ Follows(agenda, Chain(u), m + 1)
    BY <2>1 DEF AtCheck
  <2>3. QED
    BY <2>1, <2>2, FollowsNext
<1>3. p.handler = "reverse_proxy" /\ p.upstream = u
  BY DEF ReverseProxy
<1> HIDE DEF p
<1>4. Proxy
  BY <1>2, <1>3, Kind
<1>5. /\ limit > 0 => limit = Cfg.maxBodySize
      /\ Cfg.maxBodySize > 0 => limit = Cfg.maxBodySize
  BY AllPassed
<1>6. /\ Cfg.maxBodySize \in Int
      /\ Cfg.maxBodySize > 0 =>
            Ann.bodySize # <<>> /\ (Fits => Cfg.maxBodySize = Bytes)
      /\ (Ann.bodySize # <<>> /\ Fits /\ Bytes > 0) => Cfg.maxBodySize = Bytes
      /\ Ann.bodySize # <<>> => Bytes \in Int
  BY BodySize
<1>7. limit \in Int /\ Req.size \in Nat
  BY AnnType DEF TypeOK
<1>8. CASE limit > 0 /\ Req.size > limit
  <2>1. Answer("request_body", 413, "", <<>>)
    BY <1>4, <1>8 DEF Proxy, Req
  <2>2. Ann.bodySize # <<>> /\ (Fits => TooLarge)
    BY <1>5, <1>6, <1>7, <1>8 DEF TooLarge
  <2>3. "request_body" \notin {"none", "static_response"}
        /\ "request_body" # "reverse_proxy"
    OBVIOUS
  <2>4. Safe'
    BY <1>1, <2>1, <2>2, <2>3, SafeHandler, ZenonT(60) DEF Answer
  <2>5. "request_body" # "" /\ 413 \in 200..599
    OBVIOUS
  <2>6. QED
    BY <2>1, <2>4, <2>5, Ends, ZenonT(60)
<1>9. CASE ~(limit > 0 /\ Req.size > limit)
  <2>1. PICK h \in Sent(p) : Answer("reverse_proxy", 200, u, h)
    BY <1>2, <1>3, <1>4, <1>9 DEF Proxy, Next1, Req
  <2>2. /\ UNCHANGED <<case, agenda, cors, limit, passed>>
        /\ answer' = Answers("reverse_proxy", 200, u, h)
    BY <2>1 DEF Answer
  <2>3. answer'.headers = h
    BY <2>2 DEF Answers
  <2>4. Inspected'
    BY <2>2, <2>3, InspectedNext DEF p
  <2>5. (Ann.bodySize # <<>> /\ Fits) => ~TooLarge
    BY <1>5, <1>6, <1>7, <1>9 DEF TooLarge
  <2>6. "reverse_proxy" \notin {"none", "static_response"}
        /\ "reverse_proxy" # "request_body"
    OBVIOUS
  <2>7. Safe'
    BY <1>1, <2>2, <2>4, <2>5, <2>6, SafeHandler
  <2>8. "reverse_proxy" # "" /\ 200 \in 200..599
    OBVIOUS
  <2>9. QED
    BY <2>1, <2>7, <2>8, Ends, ZenonT(60)
<1>10. QED
  BY <1>8, <1>9

-----------------------------------------------------------------------------
(* The theorems *)

\* Without an answer the request is in one of the places; with one, all is well.
IInv ==
    /\ CaseOK /\ IsSeq(agenda) /\ TypeOK
    /\ answer = None => Places
    /\ answer # None => Safe

\* A request starts with the routes of its server.
LEMMA InitIInv == Init => IInv
<1> SUFFICES ASSUME Init PROVE IInv
  OBVIOUS
<1>1. CaseOK
  BY CasesAssumption DEF Init, CaseOK
<1>2. /\ IsSeq(OnServer) /\ \A r \in Elems(OnServer) : r.handler = "route"
      /\ agenda = OnServer
  BY <1>1, OnServerTaken DEF Init, OnServer
<1>3. AtServer
  BY <1>2, TryingStart DEF AtServer, Untouched, Init
<1>4. TypeOK
  <2>1. cors.origin = ""
    BY DEF Init, NoCORS
  <2>2. Elems(passed) = {}
    BY Empty DEF Init
  <2>3. \A r \in Elems(agenda) : r.handler \in Handlers \cup
           {"route", "subroute", "cors", "static_response", "reverse_proxy"}
    BY <1>2
  <2>4. limit \in Int /\ answer = None
    BY DEF Init
  <2>5. QED
    BY <2>1, <2>2, <2>3, <2>4 DEF TypeOK
<1>5. QED
  BY <1>1, <1>2, <1>3, <1>4 DEF IInv, Places, Init

\* Nothing changes when nothing changes.
LEMMA Stutters ==
    ASSUME UNCHANGED <<case, agenda, cors, limit, passed, answer>>, IInv
    PROVE  IInv'
<1>1. /\ CaseOK' /\ IsSeq(agenda')
  BY SameCase DEF IInv
<1>2. TypeOK'
  BY DEF IInv, TypeOK
<1>3. ASSUME answer' = None PROVE Places'
  <2>1. Places
    BY <1>3 DEF IInv
  <2>2. /\ Ann' = Ann /\ Req' = Req /\ Cfg' = Cfg /\ OnServer' = OnServer /\ OfRule' = OfRule
        /\ (Taken' <=> Taken) /\ (Admitted' <=> Admitted)
        /\ (Preflight' <=> Preflight) /\ (Accepted' <=> Accepted)
        /\ (Several' <=> Several) /\ (Listed' <=> Listed)
        /\ PreflightHandlers' = PreflightHandlers
        /\ (Untouched' <=> Untouched) /\ (HasOrigin' <=> HasOrigin)
        /\ Services' = Services
    BY SameCase DEF Accepted, Untouched, HasOrigin
  <2>3. ASSUME NEW u
        PROVE  /\ AtChoice(u) => AtChoice(u)'
               /\ AtOrigins(u) => AtOrigins(u)'
               /\ AtCORS(u) => AtCORS(u)'
               /\ AtChecks(u) => AtChecks(u)'
    <3>1. /\ (Backend(u)' <=> Backend(u)) /\ Chain(u)' = Chain(u)
          /\ WithCORS(u)' = WithCORS(u) /\ OriginRoutes(u)' = OriginRoutes(u)
      BY SameService
    <3>2. AtChoice(u) => AtChoice(u)'
      BY <2>2, <3>1 DEF AtChoice
    <3>3. AtOrigins(u) => AtOrigins(u)'
      BY <2>2, <3>1 DEF AtOrigins
    <3>4. AtCORS(u) => AtCORS(u)'
      BY <2>2, <3>1 DEF AtCORS
    <3>5. Right(cors) => Right(cors)'
      BY RightNext
    <3>6. ASSUME NEW n, AtCheck(u, n) PROVE AtCheck(u, n)'
      BY <2>2, <3>1, <3>5, <3>6 DEF AtCheck
    <3>7. AtChecks(u) => AtChecks(u)'
      BY <3>1, <3>6 DEF AtChecks
    <3>8. QED
      BY <3>2, <3>3, <3>4, <3>7
  <2>4. /\ AtServer => AtServer'
        /\ AtRedirect => AtRedirect'
        /\ AtRule => AtRule'
        /\ AtRoutes => AtRoutes'
        /\ AtGuard => AtGuard'
        /\ AtPreflight => AtPreflight'
        /\ AtRedirection => AtRedirection'
    BY <2>2 DEF AtServer, AtRedirect, AtRule, AtRoutes, AtGuard, AtPreflight,
       AtRedirection
  <2>5. QED
    BY <2>1, <2>2, <2>3, <2>4 DEF Places
<1>4. ASSUME answer' # None PROVE Safe'
  <2>1. GuardedTaken /\ PreflightedTaken /\ CORSAdded /\ Inspected /\ BodyLimited /\ RoutedTaken
    BY <1>4 DEF IInv, Safe
  <2>2. /\ Ann' = Ann /\ Req' = Req /\ (StarAlone' <=> StarAlone)
        /\ (OriginAllowed' <=> OriginAllowed) /\ (Taken' <=> Taken)
        /\ (Admitted' <=> Admitted) /\ TakenRule' = TakenRule /\ TakenPaths' = TakenPaths
    BY SameCase
  <2>3. GuardedTaken'
    BY <2>1, <2>2 DEF GuardedTaken, Answered
  <2>4. PreflightedTaken'
    BY <2>1, <2>2 DEF PreflightedTaken, Answered
  <2>5. CORSAdded'
    BY <2>1, <2>2 DEF CORSAdded, Right
  <2>6. Inspected'
    <3>1. /\ Required' = Required /\ (Blocking' <=> Blocking) /\ (Removed' <=> Removed)
          /\ (Forwarded' <=> Forwarded)
      BY <2>2 DEF Required, Blocking, Removed, Forwarded
    <3>2. QED
      BY <2>1, <2>2, <3>1 DEF Inspected
  <2>7. BodyLimited'
    BY <2>1, <2>2 DEF BodyLimited, Fits, TooLarge, Bytes
  <2>8. RoutedTaken'
    BY <2>1, <2>2 DEF RoutedTaken
  <2>9. QED
    BY <2>3, <2>4, <2>5, <2>6, <2>7, <2>8 DEF Safe
<1>5. QED
  BY <1>1, <1>2, <1>3, <1>4 DEF IInv

\* Each place leads to another one, or to an answer.
LEMMA NextIInv == IInv /\ [Next]_vars => IInv'
<1> SUFFICES ASSUME IInv, [Next]_vars PROVE IInv'
  OBVIOUS
<1>1. CASE Next
  <2>1. CaseOK /\ IsSeq(agenda) /\ TypeOK /\ answer = None /\ Places
    BY <1>1, Kind DEF IInv
  <2>2. Stepped
    <3>1. CASE AtServer
      BY <1>1, <2>1, <3>1, StepServer
    <3>2. CASE AtRedirect
      BY <1>1, <2>1, <3>2, StepRedirect
    <3>3. CASE AtRule
      BY <1>1, <2>1, <3>3, StepRule
    <3>4. CASE AtRoutes
      BY <1>1, <2>1, <3>4, StepRoutes
    <3>5. CASE AtGuard
      BY <1>1, <2>1, <3>5, StepGuard
    <3>6. CASE AtPreflight
      BY <1>1, <2>1, <3>6, StepPreflight
    <3>7. CASE AtRedirection
      BY <1>1, <2>1, <3>7, StepRedirection
    <3>8. ASSUME NEW u \in Services, AtChoice(u) PROVE Stepped
      BY <1>1, <2>1, <3>8, StepChoice
    <3>9. ASSUME NEW u \in Services, AtOrigins(u) PROVE Stepped
      BY <1>1, <2>1, <3>9, StepOrigins
    <3>10. ASSUME NEW u \in Services, AtCORS(u) PROVE Stepped
      BY <1>1, <2>1, <3>10, StepCORS
    <3>11. ASSUME NEW u \in Services, AtChecks(u) PROVE Stepped
      <4>1. PICK n \in 1..Len(Chain(u)) : AtCheck(u, n)
        BY <3>11 DEF AtChecks
      <4>2. Len(Chk) \in Nat /\ Len(Chain(u)) = Len(Chk) + 1
        BY ChainShape
      <4>3. n \in 1..Len(Chk) \/ n = Len(Chk) + 1
        BY <4>2
      <4>4. QED
        BY <1>1, <2>1, <3>11, <4>1, <4>3, StepCheck, StepProxy
    <3>12. QED
      BY <2>1, <3>1, <3>2, <3>3, <3>4, <3>5, <3>6, <3>7, <3>8, <3>9, <3>10, <3>11
         DEF Places
  <2>3. case' = case
    BY <1>1 DEF Next, TryRoute, EnterSubroute, AddCORS, Respond, Authenticate,
       LimitBody, RateLimit, Authorize, Alter, Inspect, Proxy, RunOut, Answer, Pass
  <2>4. CaseOK'
    BY <2>1, <2>3, SameCase
  <2>5. QED
    BY <2>2, <2>4 DEF Stepped, IInv
<1>2. CASE UNCHANGED vars
  <2>1. UNCHANGED <<case, agenda, cors, limit, passed, answer>>
    BY <1>2 DEF vars
  <2>2. QED
    BY <2>1, Stutters
<1>3. QED
  BY <1>1, <1>2

\* Every request is in one of the places until it is answered, and safe then.
THEOREM Invariant == Spec => []IInv
<1>1. Init => IInv
  BY InitIInv
<1>2. IInv /\ [Next]_vars => IInv'
  BY NextIInv
<1>3. QED
  BY <1>1, <1>2, PTL DEF Spec

LEMMA IInvSafe == IInv => Safe
BY PlacesSafe DEF IInv

\* Whom the code takes the request for is whom the documentation means; and the
\* other way round, unless the rule is narrowed down.
LEMMA TakenRules ==
    ASSUME CaseOK
    PROVE  /\ Taken => Addressed
           /\ Concerned => Taken /\ TakenRule = TheRule /\ TakenPaths = Covering
<1>1. /\ \A rule : TakenBy(rule) => Applies(rule)
      /\ \A rule : Applies(rule) /\ ~Narrowed(rule) => TakenBy(rule)
  BY DEF TakenBy, Applies, Narrowed
<1>2. Takers \subseteq RulesFor
  BY <1>1 DEF Takers, RulesFor
<1>3. Taken => Addressed
  BY <1>2 DEF Taken, Addressed
<1>4. ASSUME Concerned PROVE Taken /\ First(Takers) = First(RulesFor)
  <2> DEFINE n == Len(case.ing.rules)
             i == First(Takers)
             j == First(RulesFor)
  <2>1. n \in Nat /\ DOMAIN case.ing.rules = 1..n
    <3>1. IsSeq(case.ing.rules)
      BY AnnType, SeqIsSeq
    <3>2. QED
      BY <3>1 DEF IsSeq
  <2>2. RulesFor \in SUBSET (1..n) /\ Takers \in SUBSET (1..n)
    BY <2>1 DEF RulesFor, Takers
  <2>3. RulesFor # {}
    BY <1>4 DEF Concerned, Addressed
  <2> HIDE DEF n
  <2>4. j \in RulesFor /\ \A k \in RulesFor : j <= k
    BY <2>1, <2>2, <2>3, Least
  <2>5. j \in Takers
    BY <1>1, <1>4, <2>4 DEF Concerned, TheRule, Takers, RulesFor
  <2>6. i \in Takers /\ \A k \in Takers : i <= k
    BY <2>1, <2>2, <2>5, Least
  <2> HIDE DEF i, j
  <2>7. i = j
    BY <1>2, <2>1, <2>2, <2>4, <2>5, <2>6
  <2>8. Taken
    BY <1>4, <2>5 DEF Concerned, Addressed, Taken
  <2>9. QED
    BY <2>7, <2>8 DEF i, j
<1>5. ASSUME Concerned PROVE TakenRule = TheRule
  BY <1>4, <1>5 DEF TakenRule, TheRule
<1>6. ASSUME Concerned PROVE TakenPaths = Covering
  BY <1>5, <1>6 DEF TakenPaths, Covering
<1>7. QED
  BY <1>3, <1>4, <1>5, <1>6

\* What the code does keeps what the documentation promises.
LEMMA Promised ==
    ASSUME CaseOK, Safe
    PROVE  Guarded /\ Preflighted /\ CORSAnswered /\ Routed
<1>1. Guarded
  BY TakenRules DEF Safe, GuardedTaken, Guarded
<1>2. Preflighted
  BY TakenRules DEF Safe, PreflightedTaken, Preflighted, OriginAllowed
<1>3. CORSAnswered
  BY DEF Safe, CORSAdded, Right, CORSAnswered
<1>4. Routed
  BY TakenRules DEF Safe, RoutedTaken, Routed
<1>5. QED
  BY <1>1, <1>2, <1>3, <1>4

\* The agenda is a list of routes and of handlers that routes.go builds, and the
\* answer a status of HTTP.
THEOREM Typed == Spec => []TypeOK
<1>1. IInv => TypeOK
  BY DEF IInv
<1>2. QED
  BY <1>1, Invariant, PTL

\* Whom the whitelist or the blocklist keeps out gets 403 and nothing else, and no
\* one else gets it: buildIPGuardRoutes comes first in the routes of every rule.
THEOREM GuardedAlways == Spec => []Guarded
<1>1. IInv => Guarded
  BY IInvSafe, Promised DEF IInv
<1>2. QED
  BY <1>1, Invariant, PTL

\* corsPreflightRoute answers the preflight requests of the allowed origins before
\* any check, with the CORS headers; "*" in a list allows every origin that there is.
THEOREM PreflightedAlways == Spec => []Preflighted
<1>1. IInv => Preflighted
  BY IInvSafe, Promised DEF IInv
<1>2. QED
  BY <1>1, Invariant, PTL

\* Whoever answers on behalf of a path, corsResponseHandler adds the CORS headers of
\* this origin; credentials where no list has "*" next to other origins.
THEOREM CORSAnsweredAlways == Spec => []CORSAnswered
<1>1. IInv => CORSAnswered
  BY IInvSafe, Promised DEF IInv
<1>2. QED
  BY <1>1, Invariant, PTL

\* buildCoreHandlers puts every check that is asked for in front of the proxy, in
\* the documented order; what gets to a backend has passed them all.
THEOREM InspectedAlways == Spec => []Inspected
<1>1. IInv => Inspected
  BY IInvSafe DEF Safe
<1>2. QED
  BY <1>1, Invariant, PTL

\* A limit that parseBodySize can hold is the one that is enforced.
THEOREM BodyLimitedAlways == Spec => []BodyLimited
<1>1. IInv => BodyLimited
  BY IInvSafe DEF Safe
<1>2. QED
  BY <1>1, Invariant, PTL

\* A request is proxied to the Service of the first path that covers it, through
\* the rules, hosts and aliases that convertIngress turns into routes; save for the
\* hosts from which a rule without host is narrowed down to the aliases.
THEOREM RoutedAlways == Spec => []Routed
<1>1. IInv => Routed
  BY IInvSafe, Promised DEF IInv
<1>2. QED
  BY <1>1, Invariant, PTL
=============================================================================
