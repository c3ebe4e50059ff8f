--------------------------- MODULE RouteLineProofs ----------------------------
(***************************************************************************)
(* How a line of places runs through a list of waypoints: what the walk of *)
(* anchorIndices finds, what the engine's route looks like, and when a     *)
(* line makes no detour.  Facts about RoutePath's operators on any         *)
(* unbroken line of places, which RoutePatchProofs and RoutePathProofs     *)
(* build on.                                                               *)
(***************************************************************************)
EXTENDS RoutePath, SequenceTheorems, WellFoundedInduction, TLAPS

----------------------------------------------------------------------------
(* Induction over an initial segment of the naturals.  The library's           *)
(* induction theorems take an operator; these take a set, and follow from the  *)
(* well-foundedness of the naturals.                                           *)

Below == {m \in Nat \X Nat : m[1] < m[2]}

LEMMA BelowIsWellFounded == IsWellFoundedOn(Below, Nat)
<1>1. OpToRel(<, Nat) = Below
  BY Zenon DEF OpToRel, Below
<1>2. QED
  BY <1>1, NatLessThanWellFounded, Zenon

LEMMA LeastElement ==
  ASSUME NEW S \in SUBSET Nat, S # {}
  PROVE  \E m \in S : \A n \in S : m <= n
<1>1. PICK m \in S : \A n \in S : ~ (<<n, m>> \in Below)
  BY BelowIsWellFounded, WFMin, Zenon
<1>2. ASSUME NEW n \in S PROVE m <= n
  <2>1. <<n, m>> \in Nat \X Nat /\ ~ (<<n, m>> \in Below)
    BY <1>1, <1>2
  <2>2. <<n, m>>[1] = n /\ <<n, m>>[2] = m
    OBVIOUS
  <2>3. ~ (n < m)
    BY <2>1, <2>2 DEF Below
  <2>4. QED
    BY <2>3
<1>3. QED
  BY <1>2

\* What holds at m, and after each step up to n, holds from m to n.
LEMMA UpTo ==
  ASSUME NEW m \in Nat, NEW n \in Nat, NEW S, m <= n => m \in S,
         \A k \in m .. n - 1 : k \in S => k + 1 \in S
  PROVE  m .. n \subseteq S
<1>1. SUFFICES ASSUME (m .. n) \ S # {} PROVE FALSE
  OBVIOUS
<1> DEFINE T == (m .. n) \ S
<1> HIDE DEF T
<1>2. PICK k \in T : \A i \in T : k <= i
  <2>1. T \in SUBSET Nat /\ T # {}
    BY <1>1 DEF T
  <2>2. QED
    BY <2>1, LeastElement
<1>3. k # m /\ k - 1 \in m .. n - 1 /\ k - 1 \in S
  BY <1>2 DEF T
<1>4. QED
  BY <1>2, <1>3 DEF T

\* ... and the other way, from n down to m.
LEMMA DownTo ==
  ASSUME NEW m \in Nat, NEW n \in Nat, NEW S, m <= n => n \in S,
         \A k \in m + 1 .. n : k \in S => k - 1 \in S
  PROVE  m .. n \subseteq S
<1> DEFINE T == {k \in 0 .. n - m : n - k \in S}
<1>1. CASE m > n
  BY <1>1
<1>2. CASE m <= n
  <2>1. 0 \in T
    BY <1>2
  <2>2. ASSUME NEW k \in 0 .. n - m - 1, k \in T PROVE k + 1 \in T
    <3>1. n - k \in m + 1 .. n /\ n - k \in S /\ (n - k) - 1 = n - (k + 1)
      BY <2>2
    <3>2. QED
      BY <1>2, <3>1
  <2>3. n - m \in Nat
    BY <1>2
  <2> HIDE DEF T
  <2>4. 0 .. n - m \subseteq T
    BY <2>1, <2>2, <2>3, UpTo
  <2>5. QED
    BY <1>2, <2>4 DEF T
<1>3. QED
  BY <1>1, <1>2

\* A walk along 1 .. n, each step a function of the value before it, exists.
IsWalk(f, m, V, start, step) ==
  /\ f \in [0 .. m -> V]
  /\ f[0] = start
  /\ \A k \in 1 .. m : f[k] = step[f[k - 1]][k]

LEMMA WalkExists ==
  ASSUME NEW n \in Nat, NEW V, NEW start \in V, NEW step \in [V -> [1 .. n -> V]]
  PROVE  \E f : IsWalk(f, n, V, start, step)
<1> DEFINE S == {m \in 0 .. n : \E f : IsWalk(f, m, V, start, step)}
<1>1. 0 \in S
  <2> DEFINE f == [k \in 0 .. 0 |-> start]
  <2>1. IsWalk(f, 0, V, start, step)
    BY DEF IsWalk
  <2> HIDE DEF f
  <2>2. QED
    BY <2>1
<1>2. ASSUME NEW m \in 0 .. n - 1, m \in S PROVE m + 1 \in S
  <2>1. PICK f : IsWalk(f, m, V, start, step)
    BY <1>2
  <2> DEFINE g == [k \in 0 .. m + 1 |-> IF k = m + 1 THEN step[f[m]][m + 1] ELSE f[k]]
  <2>2. f \in [0 .. m -> V] /\ f[m] \in V /\ m + 1 \in 1 .. n /\ step[f[m]][m + 1] \in V
    BY <2>1 DEF IsWalk
  <2>3. g \in [0 .. m + 1 -> V]
    BY <2>2
  <2>4. g[0] = start /\ g[m + 1] = step[f[m]][m + 1] /\ \A k \in 0 .. m : g[k] = f[k]
    BY <2>1 DEF IsWalk
  <2> HIDE DEF g
  <2>5. ASSUME NEW k \in 1 .. m + 1 PROVE g[k] = step[g[k - 1]][k]
    <3>1. CASE k = m + 1
      BY <2>4, <3>1
    <3>2. CASE k # m + 1
      <4>1. k \in 1 .. m /\ k \in 0 .. m /\ k - 1 \in 0 .. m
        BY <3>2
      <4>2. QED
        BY <2>1, <2>4, <4>1 DEF IsWalk
    <3>3. QED
      BY <3>1, <3>2
  <2>6. IsWalk(g, m + 1, V, start, step)
    BY <2>3, <2>4, <2>5 DEF IsWalk
  <2>7. m + 1 \in 0 .. n
    OBVIOUS
  <2>8. QED
    BY <2>6, <2>7
<1> HIDE DEF S
<1>3. n \in S
  <2>1. 0 .. n \subseteq S
    BY <1>1, <1>2, UpTo
  <2>2. QED
    BY <2>1
<1>4. QED
  BY <1>3 DEF S

----------------------------------------------------------------------------
(* Anchors: the forward walk along a line.                                 *)

Hits(from, place, line) == {i \in from .. Len(line) : line[i] = place}
NextHit(from, place, line) ==
  IF from = Off \/ Hits(from, place, line) = {} THEN Off ELSE Least(Hits(from, place, line))

LEMMA LeastIsLeast ==
  ASSUME NEW S \in SUBSET Nat, S # {}
  PROVE  Least(S) \in S /\ \A n \in S : Least(S) <= n
BY LeastElement DEF Least

\* The next hit is the first at or after from, and Off where there is none.
LEMMA NextHitIsFirst ==
  ASSUME NEW from \in Nat, NEW place, NEW line \in Seq(Int)
  PROVE  LET hit == NextHit(from, place, line)
         IN  /\ hit \in Nat
             /\ hit # Off => /\ from # Off /\ hit \in from .. Len(line) /\ line[hit] = place
                            /\ \A i \in from .. Len(line) : line[i] = place => hit <= i
             /\ hit = Off => from = Off \/ \A i \in from .. Len(line) : line[i] # place
<1> DEFINE H == Hits(from, place, line)
<1>1. H \in SUBSET Nat /\ Len(line) \in Nat
  BY LenProperties DEF Hits
<1>2. CASE from = Off \/ H = {}
  BY <1>2 DEF NextHit, Hits, Off
<1>3. CASE from # Off /\ H # {}
  <2>1. NextHit(from, place, line) = Least(H)
    BY <1>3 DEF NextHit
  <2>2. Least(H) \in H /\ \A n \in H : Least(H) <= n
    BY <1>1, <1>3, LeastIsLeast
  <2>3. QED
    BY <1>1, <1>3, <2>1, <2>2 DEF Hits, Off
<1>4. QED
  BY <1>2, <1>3

LEMMA AnchorsWalk ==
  ASSUME NEW stops \in Seq(Int), NEW line \in Seq(Int)
  PROVE  /\ Anchors(stops, line) \in [0 .. Len(stops) -> Nat]
         /\ Anchors(stops, line)[0] = 1
         /\ \A k \in 1 .. Len(stops) :
              Anchors(stops, line)[k] = NextHit(Anchors(stops, line)[k - 1], stops[k], line)
<1> DEFINE n == Len(stops)
           step == [v \in Nat |-> [k \in 1 .. n |-> NextHit(v, stops[k], line)]]
<1>1. n \in Nat
  BY LenProperties
<1>2. step \in [Nat -> [1 .. n -> Nat]]
  BY NextHitIsFirst
<1>3. \A v \in Nat, k \in 1 .. n : step[v][k] = NextHit(v, stops[k], line)
  OBVIOUS
<1> HIDE DEF step
<1>4. PICK g : IsWalk(g, n, Nat, 1, step)
  BY <1>1, <1>2, WalkExists
<1>5. g = [k \in 0 .. n |-> IF k = 0 THEN 1 ELSE NextHit(g[k - 1], stops[k], line)]
  <2>1. g \in [0 .. n -> Nat] /\ g[0] = 1 /\ \A k \in 1 .. n : g[k] = step[g[k - 1]][k]
    BY <1>4 DEF IsWalk
  <2>2. ASSUME NEW k \in 1 .. n PROVE g[k] = NextHit(g[k - 1], stops[k], line)
    <3>1. k - 1 \in 0 .. n
      BY <1>1
    <3>2. g[k - 1] \in Nat
      BY <2>1, <3>1
    <3>3. QED
      BY <1>3, <2>1, <3>2
  <2>3. \A k \in 0 .. n : g[k] = IF k = 0 THEN 1 ELSE NextHit(g[k - 1], stops[k], line)
    BY <1>1, <2>1, <2>2
  <2>4. QED
    BY <2>1, <2>3
<1> DEFINE A == Anchors(stops, line)
<1>6. A = [k \in 0 .. n |-> IF k = 0 THEN 1 ELSE NextHit(A[k - 1], stops[k], line)]
  BY <1>5, Zenon DEF Anchors, NextHit, Hits
<1> HIDE DEF A
<1>7. A[0] = 1 /\ \A k \in 1 .. n : A[k] = NextHit(A[k - 1], stops[k], line)
  BY <1>1, <1>6, SMTT(30)
<1>8. 0 .. n \subseteq {k \in 0 .. n : A[k] \in Nat}
  <2>1. ASSUME NEW k \in 0 .. n - 1, A[k] \in Nat PROVE A[k + 1] \in Nat
    <3>1. k + 1 \in 1 .. n /\ (k + 1) - 1 = k
      BY <1>1
    <3>2. A[k + 1] = NextHit(A[k], stops[k + 1], line)
      BY <1>7, <3>1
    <3>3. QED
      BY <2>1, <3>2, NextHitIsFirst
  <2> DEFINE T == {k \in 0 .. n : A[k] \in Nat}
  <2>2. 0 \in T /\ \A k \in 0 .. n - 1 : k \in T => k + 1 \in T
    BY <1>1, <1>7, <2>1
  <2> HIDE DEF T
  <2>3. 0 .. n \subseteq T
    BY <1>1, <2>2, UpTo
  <2>4. QED
    BY <2>3 DEF T
<1>9. A \in [0 .. n -> Nat]
  BY <1>6, <1>8
<1>10. QED
  BY <1>7, <1>9 DEF A

----------------------------------------------------------------------------
(* Where a line runs through a list of places.                             *)

\* The line runs through the places in their order, at the indices e.
Embeds(w, p, e) ==
  /\ \A k \in 1 .. Len(w) : e[k] \in 1 .. Len(p) /\ p[e[k]] = w[k]
  /\ \A j, k \in 1 .. Len(w) : j <= k => e[j] <= e[k]

LEMMA Ascending ==
  ASSUME NEW m \in Nat, NEW n \in Nat, NEW e, \A k \in m .. n : e[k] \in Int,
         \A k \in m .. n - 1 : e[k] <= e[k + 1]
  PROVE  \A j, k \in m .. n : j <= k => e[j] <= e[k]
<1> SUFFICES ASSUME NEW j \in m .. n PROVE \A k \in m .. n : j <= k => e[j] <= e[k]
  OBVIOUS
<1> DEFINE T == {k \in j .. n : e[j] <= e[k]}
<1>1. j \in T
  OBVIOUS
<1>2. ASSUME NEW k \in j .. n - 1, k \in T PROVE k + 1 \in T
  BY <1>2
<1>3. j \in Nat
  OBVIOUS
<1> HIDE DEF T
<1>4. j .. n \subseteq T
  BY <1>1, <1>2, <1>3, UpTo
<1>5. QED
  BY <1>4 DEF T

LEMMA AnchorsEmbed ==
  ASSUME NEW w \in Seq(Int), NEW p \in Seq(Int), OnPath(w, p)
  PROVE  LET a == Anchors(w, p)
         IN  /\ Embeds(w, p, a)
             /\ a[0] = 1
             /\ \A k \in 0 .. Len(w) : a[k] \in Nat \ {0}
             /\ \A k \in 1 .. Len(w) : a[k - 1] <= a[k]
             /\ \A k \in 1 .. Len(w) : \A i \in a[k - 1] .. Len(p) : p[i] = w[k] => a[k] <= i
<1> DEFINE a == Anchors(w, p)
           n == Len(w)
<1>1. n \in Nat /\ Len(p) \in Nat
  BY LenProperties
<1>2. /\ a \in [0 .. n -> Nat] /\ a[0] = 1 /\ a[n] # Off
      /\ \A k \in 1 .. n : a[k] = NextHit(a[k - 1], w[k], p)
  BY AnchorsWalk DEF OnPath
<1> HIDE DEF a, n
<1>3. ASSUME NEW k \in 1 .. n, a[k] # Off
      PROVE  /\ a[k - 1] \in Nat \ {0} /\ a[k] \in a[k - 1] .. Len(p) /\ p[a[k]] = w[k]
             /\ \A i \in a[k - 1] .. Len(p) : p[i] = w[k] => a[k] <= i
  <2>1. k - 1 \in 0 .. n
    BY <1>1
  <2>2. a[k - 1] \in Nat /\ a[k] = NextHit(a[k - 1], w[k], p)
    BY <1>2, <2>1
  <2>3. QED
    BY <1>3, <2>2, NextHitIsFirst, SMTT(30) DEF Off
<1>4. 0 .. n \subseteq {k \in 0 .. n : a[k] # Off}
  <2> DEFINE T == {k \in 0 .. n : a[k] # Off}
  <2>1. n \in T
    BY <1>1, <1>2
  <2>2. ASSUME NEW k \in 0 + 1 .. n, k \in T PROVE k - 1 \in T
    <3>1. k \in 1 .. n /\ k - 1 \in 0 .. n
      BY <1>1
    <3>2. QED
      BY <1>3, <2>2, <3>1 DEF Off
  <2> HIDE DEF T
  <2>3. 0 .. n \subseteq T
    BY <1>1, <2>1, <2>2, DownTo
  <2>4. QED
    BY <2>3 DEF T
<1>5. \A k \in 0 .. n : a[k] \in Nat \ {0}
  BY <1>2, <1>4 DEF Off
<1>6. ASSUME NEW k \in 1 .. n
      PROVE  /\ a[k - 1] \in Nat \ {0} /\ a[k] \in 1 .. Len(p) /\ a[k - 1] <= a[k] /\ p[a[k]] = w[k]
             /\ \A i \in a[k - 1] .. Len(p) : p[i] = w[k] => a[k] <= i
  <2>1. k \in 0 .. n /\ a[k] # Off
    BY <1>1, <1>4
  <2>2. QED
    BY <1>1, <1>3, <2>1
<1>7. \A j, k \in 1 .. n : j <= k => a[j] <= a[k]
  <2>1. \A k \in 1 .. n : a[k] \in Int
    BY <1>6
  <2>2. ASSUME NEW k \in 1 .. n - 1 PROVE a[k] <= a[k + 1]
    <3>1. k + 1 \in 1 .. n /\ (k + 1) - 1 = k
      BY <1>1
    <3>2. QED
      BY <1>6, <3>1
  <2>3. QED
    BY <1>1, <2>1, <2>2, Ascending
<1>8. Embeds(w, p, a)
  BY <1>6, <1>7 DEF Embeds, n
<1>9. QED
  BY <1>2, <1>5, <1>6, <1>8 DEF a, n

\* Any way the line runs through the places, the walk finds one no later.
LEMMA AnchorsAreFirst ==
  ASSUME NEW w \in Seq(Int), NEW p \in Seq(Int), NEW e, Embeds(w, p, e)
  PROVE  OnPath(w, p) /\ \A k \in 1 .. Len(w) : Anchors(w, p)[k] <= e[k]
<1> DEFINE a == Anchors(w, p)
           n == Len(w)
<1>1. n \in Nat /\ Len(p) \in Nat
  BY LenProperties
<1>2. /\ a \in [0 .. n -> Nat] /\ a[0] = 1
      /\ \A k \in 1 .. n : a[k] = NextHit(a[k - 1], w[k], p)
  BY AnchorsWalk
<1>3. /\ \A k \in 1 .. n : e[k] \in 1 .. Len(p) /\ p[e[k]] = w[k]
      /\ \A j, k \in 1 .. n : j <= k => e[j] <= e[k]
  BY DEF Embeds
<1> HIDE DEF a, n
<1> DEFINE T == {k \in 0 .. n : a[k] # Off /\ (k >= 1 => a[k] <= e[k])}
<1>4. 0 \in T
  BY <1>1, <1>2 DEF Off
<1>5. ASSUME NEW k \in 0 .. n - 1, k \in T PROVE k + 1 \in T
  <2>1. k + 1 \in 1 .. n /\ (k + 1) - 1 = k /\ k \in 0 .. n
    BY <1>1
  <2>2. a[k] \in Nat /\ a[k] # Off /\ a[k + 1] = NextHit(a[k], w[k + 1], p)
    BY <1>2, <1>5, <2>1
  <2>3. e[k + 1] \in 1 .. Len(p) /\ p[e[k + 1]] = w[k + 1]
    BY <1>3, <2>1
  <2>4. a[k] <= e[k + 1]
    <3>1. CASE k = 0
      BY <1>2, <2>3, <3>1
    <3>2. CASE k >= 1
      <4>1. k \in 1 .. n /\ a[k] <= e[k] /\ e[k] <= e[k + 1] /\ e[k] \in 1 .. Len(p)
        BY <1>3, <1>5, <2>1, <3>2
      <4>2. QED
        BY <2>2, <2>3, <4>1, SMTT(30)
    <3>3. QED
      BY <3>1, <3>2
  <2>5. e[k + 1] \in a[k] .. Len(p)
    BY <1>1, <2>2, <2>3, <2>4
  <2>6. a[k + 1] # Off /\ a[k + 1] <= e[k + 1]
    BY <2>2, <2>3, <2>5, NextHitIsFirst, SMTT(30)
  <2>7. QED
    BY <2>1, <2>6
<1> HIDE DEF T
<1>6. 0 .. n \subseteq T
  BY <1>1, <1>4, <1>5, UpTo
<1>7. a[n] # Off /\ \A k \in 1 .. n : a[k] <= e[k]
  <2>1. n \in 0 .. n /\ 1 .. n \subseteq 0 .. n /\ \A k \in 1 .. n : k >= 1
    BY <1>1
  <2>2. QED
    BY <1>6, <2>1 DEF T
<1>8. QED
  BY <1>7 DEF OnPath, a, n

----------------------------------------------------------------------------
(* The engine's route.                                                     *)

\* A set of places without gaps.
Unbroken(S) == S \subseteq Int /\ \A a, b \in S : a .. b \subseteq S

LEMMA TailOfLeg ==
  ASSUME NEW S, Unbroken(S), NEW a \in S, NEW b \in S
  PROVE  LET tail == Tail(Leg(a, b))
         IN  /\ tail \in Seq(S)
             /\ Len(tail) = IF a <= b THEN b - a ELSE a - b
             /\ \A i \in 1 .. Len(tail) : tail[i] = IF a <= b THEN a + i ELSE a - i
<1> DEFINE n == IF a <= b THEN b - a ELSE a - b
           leg == Leg(a, b)
<1>1. a \in Int /\ b \in Int /\ n \in Nat
  BY DEF Unbroken
<1>2. leg = [i \in 1 .. n + 1 |-> IF a <= b THEN a + i - 1 ELSE a - i + 1]
  BY <1>1 DEF Leg
<1>3. \A i \in 1 .. n + 1 : (IF a <= b THEN a + i - 1 ELSE a - i + 1) \in S
  <2>1. CASE a <= b
    <3>1. a .. b \subseteq S
      BY DEF Unbroken
    <3>2. \A i \in 1 .. n + 1 : a + i - 1 \in a .. b
      BY <1>1, <2>1
    <3>3. QED
      BY <2>1, <3>1, <3>2
  <2>2. CASE ~ (a <= b)
    <3>1. b .. a \subseteq S
      BY DEF Unbroken
    <3>2. \A i \in 1 .. n + 1 : a - i + 1 \in b .. a
      BY <1>1, <2>2
    <3>3. QED
      BY <2>2, <3>1, <3>2
  <2>3. QED
    BY <2>1, <2>2
<1>4. leg \in [1 .. n + 1 -> S]
  BY <1>2, <1>3
<1> HIDE DEF n, leg
<1>5. leg \in Seq(S) /\ Len(leg) = n + 1 /\ leg # <<>>
  BY <1>1, <1>4
<1>6. /\ Tail(leg) \in Seq(S) /\ Len(Tail(leg)) = n
      /\ \A i \in 1 .. n : Tail(leg)[i] = leg[i + 1]
  BY <1>1, <1>5, HeadTailProperties
<1>7. \A i \in 1 .. n : leg[i + 1] = IF a <= b THEN a + i ELSE a - i
  BY <1>1, <1>2
<1>8. QED
  BY <1>6, <1>7 DEF n, leg

RouteUpTo(stops) ==
  LET upTo[n \in 1 .. Len(stops)] ==
        IF n = 1 THEN <<stops[1]>> ELSE upTo[n - 1] \o Tail(Leg(stops[n - 1], stops[n]))
  IN  upTo

LEMMA RouteWalk ==
  ASSUME NEW S, Unbroken(S), NEW stops \in Seq(S), Len(stops) >= 1
  PROVE  LET u == RouteUpTo(stops)
         IN  /\ \A n \in 1 .. Len(stops) : u[n] \in Seq(S)
             /\ u[1] = <<stops[1]>>
             /\ \A n \in 1 .. Len(stops) - 1 : u[n + 1] = u[n] \o Tail(Leg(stops[n], stops[n + 1]))
             /\ Route(stops) = u[Len(stops)]
<1> DEFINE m == Len(stops)
           step == [v \in Seq(S) |-> [k \in 1 .. m - 1 |-> v \o Tail(Leg(stops[k], stops[k + 1]))]]
<1>1. m \in Nat /\ m >= 1 /\ m - 1 \in Nat /\ \A k \in 1 .. m : stops[k] \in S
  BY LenProperties, ElementOfSeq
<1>2. ASSUME NEW v \in Seq(S), NEW k \in 1 .. m - 1
      PROVE  v \o Tail(Leg(stops[k], stops[k + 1])) \in Seq(S)
  <2>1. stops[k] \in S /\ stops[k + 1] \in S
    BY <1>1
  <2>2. Tail(Leg(stops[k], stops[k + 1])) \in Seq(S)
    BY <2>1, TailOfLeg
  <2>3. QED
    BY <2>2, ConcatProperties
<1>3. step \in [Seq(S) -> [1 .. m - 1 -> Seq(S)]]
  BY <1>2
<1>4. \A v \in Seq(S), k \in 1 .. m - 1 : step[v][k] = v \o Tail(Leg(stops[k], stops[k + 1]))
  OBVIOUS
<1>5. <<stops[1]>> \in Seq(S)
  BY <1>1
<1> HIDE DEF step, m
<1>6. PICK f : IsWalk(f, m - 1, Seq(S), <<stops[1]>>, step)
  BY <1>1, <1>3, <1>5, WalkExists
<1>7. /\ f \in [0 .. m - 1 -> Seq(S)] /\ f[0] = <<stops[1]>>
      /\ \A k \in 1 .. m - 1 : f[k] = step[f[k - 1]][k]
  BY <1>6 DEF IsWalk
<1> DEFINE g == [n \in 1 .. m |-> f[n - 1]]
<1>8. ASSUME NEW n \in 1 .. m
      PROVE  g[n] = f[n - 1] /\ n - 1 \in 0 .. m - 1 /\ g[n] \in Seq(S)
  <2>1. g[n] = f[n - 1] /\ n - 1 \in 0 .. m - 1
    BY <1>1
  <2>2. QED
    BY <1>7, <2>1
<1>9. g = [n \in 1 .. m |->
             IF n = 1 THEN <<stops[1]>> ELSE g[n - 1] \o Tail(Leg(stops[n - 1], stops[n]))]
  <2>1. ASSUME NEW n \in 1 .. m, n # 1
        PROVE  g[n] = g[n - 1] \o Tail(Leg(stops[n - 1], stops[n]))
    <3>1. n - 1 \in 1 .. m /\ n - 1 \in 1 .. m - 1 /\ (n - 1) + 1 = n
      BY <1>1, <2>1
    <3>2. g[n] = f[n - 1] /\ g[n - 1] = f[(n - 1) - 1] /\ g[n - 1] \in Seq(S)
      BY <1>8, <3>1
    <3>3. f[n - 1] = step[f[(n - 1) - 1]][n - 1]
      BY <1>7, <3>1
    <3>4. step[g[n - 1]][n - 1] = g[n - 1] \o Tail(Leg(stops[n - 1], stops[(n - 1) + 1]))
      BY <1>4, <3>1, <3>2
    <3>5. QED
      BY <3>1, <3>2, <3>3, <3>4
  <2>2. g[1] = <<stops[1]>>
    BY <1>1, <1>7, <1>8
  <2> HIDE DEF g
  <2>3. \A n \in 1 .. m : g[n] = IF n = 1 THEN <<stops[1]>>
                                 ELSE g[n - 1] \o Tail(Leg(stops[n - 1], stops[n]))
    BY <2>1, <2>2
  <2>4. g = [n \in 1 .. m |-> g[n]]
    BY DEF g
  <2>5. QED
    BY <2>3, <2>4
<1> HIDE DEF g
<1> DEFINE U == RouteUpTo(stops)
<1>10. U = [n \in 1 .. m |->
             IF n = 1 THEN <<stops[1]>> ELSE U[n - 1] \o Tail(Leg(stops[n - 1], stops[n]))]
  BY <1>9, Zenon DEF RouteUpTo, m
<1>11. Route(stops) = U[m]
  BY DEF Route, RouteUpTo, m
<1> HIDE DEF U
<1>12. U[1] = <<stops[1]>>
  BY <1>1, <1>10
<1>13. ASSUME NEW n \in 1 .. m - 1
       PROVE  U[n + 1] = U[n] \o Tail(Leg(stops[n], stops[n + 1]))
  <2>1. n + 1 \in 1 .. m /\ n + 1 # 1 /\ (n + 1) - 1 = n
    BY <1>1
  <2>2. QED
    BY <1>10, <2>1
<1>14. \A n \in 1 .. m : U[n] \in Seq(S)
  <2> DEFINE T == {n \in 1 .. m : U[n] \in Seq(S)}
  <2>1. 1 \in T
    <3>1. 1 \in 1 .. m
      BY <1>1
    <3>2. QED
      BY <1>5, <1>12, <3>1
  <2>2. ASSUME NEW n \in 1 .. m - 1, n \in T PROVE n + 1 \in T
    <3>1. n + 1 \in 1 .. m
      BY <1>1
    <3>2. QED
      BY <1>2, <1>13, <2>2, <3>1
  <2> HIDE DEF T
  <2>3. 1 .. m \subseteq T
    BY <1>1, <2>1, <2>2, UpTo
  <2>4. QED
    BY <2>3 DEF T
<1>15. QED
  BY <1>11, <1>12, <1>13, <1>14 DEF U, m

\* The k-th place after which the route is a steps on the way from a to b.
Towards(a, b, i) == IF a <= b THEN a + i ELSE a - i

\* The route starts at the first stop, ends at the last, and walks straight
\* from each stop to the next.
LEMMA RouteShape ==
  ASSUME NEW S, Unbroken(S), NEW stops \in Seq(S), Len(stops) >= 1
  PROVE  LET r == Route(stops)
             n == Len(stops)
         IN  /\ r \in Seq(S)
             /\ \E e : /\ Embeds(stops, r, e) /\ e[1] = 1 /\ e[n] = Len(r)
                       /\ \A k \in 1 .. n - 1 : \A x \in e[k] .. e[k + 1] :
                            r[x] = Towards(stops[k], stops[k + 1], x - e[k])
<1> DEFINE n == Len(stops)
           u == RouteUpTo(stops)
           r == Route(stops)
<1>1. n \in Nat /\ n >= 1 /\ n - 1 \in Nat /\ \A k \in 1 .. n : stops[k] \in S
  BY LenProperties, ElementOfSeq
<1>2. /\ \A k \in 1 .. n : u[k] \in Seq(S)
      /\ u[1] = <<stops[1]>>
      /\ \A k \in 1 .. n - 1 : u[k + 1] = u[k] \o Tail(Leg(stops[k], stops[k + 1]))
      /\ r = u[n]
  BY RouteWalk
<1> HIDE DEF n, u, r
<1>3. S \subseteq Int
  BY DEF Unbroken
<1>4. ASSUME NEW k \in 1 .. n - 1
      PROVE  LET d == IF stops[k] <= stops[k + 1] THEN stops[k + 1] - stops[k]
                                                  ELSE stops[k] - stops[k + 1]
             IN  /\ d \in Nat /\ Len(u[k]) \in Nat /\ Len(u[k + 1]) = Len(u[k]) + d
                 /\ \A x \in 1 .. Len(u[k]) : u[k + 1][x] = u[k][x]
                 /\ \A x \in Len(u[k]) + 1 .. Len(u[k]) + d :
                      u[k + 1][x] = Towards(stops[k], stops[k + 1], x - Len(u[k]))
  <2> DEFINE a == stops[k]
             b == stops[k + 1]
             d == IF a <= b THEN b - a ELSE a - b
             tail == Tail(Leg(a, b))
  <2>1. k \in 1 .. n /\ k + 1 \in 1 .. n
    BY <1>1
  <2>2. a \in S /\ b \in S /\ u[k] \in Seq(S) /\ Len(u[k]) \in Nat /\ u[k + 1] = u[k] \o tail
    BY <1>1, <1>2, <2>1, LenProperties
  <2>3. /\ tail \in Seq(S) /\ Len(tail) = d
        /\ \A i \in 1 .. d : tail[i] = Towards(a, b, i)
    <3> HIDE DEF a, b
    <3>1. a \in S /\ b \in S
      BY <2>2
    <3> HIDE DEF a, b
    <3>2. tail \in Seq(S)
      BY <3>1, TailOfLeg
    <3>3. Len(tail) = d
      BY <3>1, TailOfLeg
    <3>4. \A i \in 1 .. Len(tail) : tail[i] = IF a <= b THEN a + i ELSE a - i
      BY <3>1, TailOfLeg, ZenonT(30)
    <3> HIDE DEF d
    <3>5. QED
      BY <3>2, <3>3, <3>4 DEF Towards
  <2>4. a \in Int /\ b \in Int
    BY <1>3, <2>2
  <2>5. d \in Nat
    BY <2>4
  <2> HIDE DEF a, b, d, tail
  <2>6. /\ Len(u[k + 1]) = Len(u[k]) + d
        /\ \A x \in 1 .. Len(u[k]) + d :
             u[k + 1][x] = IF x <= Len(u[k]) THEN u[k][x] ELSE tail[x - Len(u[k])]
    <3>1. /\ Len(u[k] \o tail) = Len(u[k]) + Len(tail)
          /\ \A x \in 1 .. Len(u[k]) + Len(tail) :
               (u[k] \o tail)[x] = IF x <= Len(u[k]) THEN u[k][x] ELSE tail[x - Len(u[k])]
      BY <2>2, <2>3, ConcatProperties, ZenonT(30)
    <3>2. QED
      BY <2>2, <2>3, <3>1
  <2>7. \A x \in Len(u[k]) + 1 .. Len(u[k]) + d :
          u[k + 1][x] = Towards(a, b, x - Len(u[k]))
    <3>1. ASSUME NEW x \in Len(u[k]) + 1 .. Len(u[k]) + d
          PROVE  u[k + 1][x] = Towards(a, b, x - Len(u[k]))
      <4>1. x \in 1 .. Len(u[k]) + d /\ ~ (x <= Len(u[k])) /\ x - Len(u[k]) \in 1 .. d
        BY <2>2, <2>5
      <4>2. QED
        BY <2>3, <2>6, <4>1
    <3>2. QED
      BY <3>1
  <2>8. \A x \in 1 .. Len(u[k]) : u[k + 1][x] = u[k][x]
    <3>1. \A x \in 1 .. Len(u[k]) : x \in 1 .. Len(u[k]) + d /\ x <= Len(u[k])
      BY <2>2, <2>5
    <3>2. QED
      BY <2>6, <3>1
  <2>9. QED
    BY <2>2, <2>5, <2>6, <2>7, <2>8 DEF a, b, d
<1> DEFINE e == [k \in 1 .. n |-> Len(u[k])]
<1>5. \A k \in 1 .. n : e[k] = Len(u[k])
  OBVIOUS
<1> HIDE DEF e
<1>6. ASSUME NEW k \in 1 .. n PROVE e[k] >= 1 /\ e[k] \in Nat /\ u[k][e[k]] = stops[k]
  <2> DEFINE T == {j \in 1 .. n : e[j] >= 1 /\ e[j] \in Nat /\ u[j][e[j]] = stops[j]}
  <2>1. 1 \in T
    <3>1. 1 \in 1 .. n /\ e[1] = Len(u[1]) /\ Len(<<stops[1]>>) = 1 /\ <<stops[1]>>[1] = stops[1]
      BY <1>1, <1>5
    <3>2. QED
      BY <1>2, <3>1
  <2>2. ASSUME NEW j \in 1 .. n - 1, j \in T PROVE j + 1 \in T
    <3> DEFINE a == stops[j]
               b == stops[j + 1]
               d == IF a <= b THEN b - a ELSE a - b
    <3>1. j \in 1 .. n /\ j + 1 \in 1 .. n /\ a \in Int /\ b \in Int /\ d \in Nat
      <4>1. j \in 1 .. n /\ j + 1 \in 1 .. n
        BY <1>1
      <4>2. a \in Int /\ b \in Int
        BY <1>1, <1>3, <4>1
      <4>3. QED
        BY <4>1, <4>2
    <3>2. /\ e[j] \in Nat /\ e[j + 1] = e[j] + d
          /\ \A x \in 1 .. e[j] : u[j + 1][x] = u[j][x]
          /\ \A x \in e[j] + 1 .. e[j] + d : u[j + 1][x] = Towards(a, b, x - e[j])
      BY <1>4, <1>5, <3>1, SMTT(30)
    <3>3. e[j] >= 1 /\ u[j][e[j]] = a
      BY <2>2
    <3>4. a # b => d # 0 /\ Towards(a, b, d) = b
      BY <3>1 DEF Towards
    <3>5. a = b => d = 0
      BY <3>1
    <3> HIDE DEF a, b, d
    <3>6. CASE a = b
      <4>1. e[j + 1] = e[j] /\ e[j] \in 1 .. e[j]
        BY <3>2, <3>3, <3>5, <3>6
      <4>2. u[j + 1][e[j + 1]] = b
        BY <3>2, <3>3, <3>6, <4>1
      <4>3. QED
        BY <3>1, <3>2, <3>3, <4>1, <4>2 DEF b
    <3>7. CASE a # b
      <4>1. e[j + 1] \in e[j] + 1 .. e[j] + d /\ e[j + 1] - e[j] = d
        BY <3>1, <3>2, <3>4, <3>7
      <4>2. u[j + 1][e[j + 1]] = b
        BY <3>2, <3>4, <3>7, <4>1
      <4>3. QED
        BY <3>1, <3>2, <3>3, <4>2 DEF b
    <3>8. QED
      BY <3>6, <3>7
  <2> HIDE DEF T
  <2>3. 1 .. n \subseteq T
    BY <1>1, <2>1, <2>2, UpTo
  <2>4. QED
    BY <2>3 DEF T
<1>7. \A k \in 1 .. n : u[k][e[k]] = stops[k] /\ e[k] \in Nat /\ e[k] >= 1
  BY <1>6
<1>8. \A j, k \in 1 .. n : j <= k => e[j] <= e[k]
  <2>1. ASSUME NEW k \in 1 .. n - 1 PROVE e[k] <= e[k + 1]
    <3>1. k \in 1 .. n /\ k + 1 \in 1 .. n
      BY <1>1
    <3>2. QED
      BY <1>4, <1>5, <3>1, SMTT(30)
  <2>2. \A k \in 1 .. n : e[k] \in Int
    BY <1>7
  <2>3. QED
    BY <1>1, <2>1, <2>2, Ascending
<1>9. ASSUME NEW k \in 1 .. n PROVE \A x \in 1 .. e[k] : r[x] = u[k][x]
  <2> DEFINE T == {j \in k .. n : \A x \in 1 .. e[k] : u[j][x] = u[k][x]}
  <2>1. k \in T
    BY <1>1
  <2>2. ASSUME NEW j \in k .. n - 1, j \in T PROVE j + 1 \in T
    <3>1. j \in 1 .. n - 1 /\ j \in 1 .. n /\ j + 1 \in k .. n
      BY <1>1
    <3>2. e[k] <= e[j] /\ e[k] \in Nat /\ e[j] \in Nat
      BY <1>6, <1>8, <3>1
    <3>3. \A x \in 1 .. e[j] : u[j + 1][x] = u[j][x]
      BY <1>4, <1>5, <3>1
    <3>4. \A x \in 1 .. e[k] : u[j + 1][x] = u[j][x]
      BY <3>2, <3>3
    <3>5. QED
      BY <2>2, <3>1, <3>4
  <2> HIDE DEF T
  <2>3. k \in Nat
    BY <1>1
  <2>4. k .. n \subseteq T
    BY <1>1, <2>1, <2>2, <2>3, UpTo
  <2>5. n \in T
    BY <1>1, <2>4
  <2>6. QED
    BY <1>2, <2>5 DEF T
<1>10. r \in Seq(S) /\ Len(r) = e[n] /\ n \in 1 .. n /\ 1 \in 1 .. n
  BY <1>1, <1>2, <1>5
<1>11. Embeds(stops, r, e)
  <2>1. ASSUME NEW k \in 1 .. n PROVE e[k] \in 1 .. Len(r) /\ r[e[k]] = stops[k]
    <3>1. e[k] <= e[n] /\ e[k] \in 1 .. e[k]
      BY <1>1, <1>6, <1>8, <1>10
    <3>2. QED
      BY <1>7, <1>9, <1>10, <3>1
  <2>2. QED
    BY <1>8, <2>1 DEF Embeds, n
<1>12. ASSUME NEW k \in 1 .. n - 1, NEW x \in e[k] .. e[k + 1]
       PROVE  r[x] = Towards(stops[k], stops[k + 1], x - e[k])
  <2>1. k \in 1 .. n /\ k + 1 \in 1 .. n
    BY <1>1
  <2>2. x \in 1 .. e[k + 1] /\ e[k] \in Nat
    BY <1>6, <2>1
  <2>3. r[x] = u[k + 1][x]
    BY <1>9, <2>1, <2>2
  <2>4. CASE x = e[k]
    <3>1. e[k] \in 1 .. e[k] /\ x - e[k] = 0
      BY <1>6, <2>1, <2>4
    <3>2. r[x] = stops[k] /\ stops[k] \in Int
      BY <1>1, <1>3, <1>7, <1>9, <2>1, <2>4, <3>1
    <3>3. QED
      BY <3>1, <3>2 DEF Towards
  <2>5. CASE x # e[k]
    <3>1. x \in e[k] + 1 .. e[k + 1]
      BY <2>2, <2>5
    <3>2. QED
      BY <1>4, <1>5, <2>1, <2>3, <3>1
  <2>6. QED
    BY <2>4, <2>5
<1>13. e[1] = 1
  <2>1. Len(<<stops[1]>>) = 1
    OBVIOUS
  <2>2. QED
    BY <1>2, <1>5, <1>10, <2>1
<1>14. QED
  BY <1>10, <1>11, <1>12, <1>13 DEF n, r

----------------------------------------------------------------------------
(* Lines without detours.                                                  *)

Still(p, i, j) == \A x, y \in i .. j : p[x] = p[y]
Rises(p, i, j) == \A x, y \in i .. j : x <= y => p[x] <= p[y]
Falls(p, i, j) == \A x, y \in i .. j : x <= y => p[y] <= p[x]
Straight(p, i, j) == Rises(p, i, j) \/ Falls(p, i, j)

\* Between two of the places the line never turns, and it goes nowhere before
\* the first and after the last.
Neat(w, p, e) ==
  /\ Still(p, 1, e[1]) /\ Still(p, e[Len(w)], Len(p))
  /\ \A k \in 1 .. Len(w) - 1 : Straight(p, e[k], e[k + 1])

\* The line runs through the places and makes no detour on the way.
Fitted(w, p) == OnPath(w, p) /\ Neat(w, p, Anchors(w, p))

\* An increasing sequence of integers has a last one up to a given place.
LEMMA LastBefore ==
  ASSUME NEW n \in Nat, NEW e, \A k \in 1 .. n : e[k] \in Int,
         NEW x \in Int, n >= 1, e[1] <= x
  PROVE  \E k \in 1 .. n : e[k] <= x /\ (k < n => x < e[k + 1])
<1> SUFFICES ASSUME \A k \in 1 .. n : e[k] <= x => k < n /\ ~ (x < e[k + 1]) PROVE FALSE
  OBVIOUS
<1> DEFINE T == {k \in 1 .. n : e[k] <= x}
<1>1. 1 \in T
  OBVIOUS
<1>2. ASSUME NEW k \in 1 .. n - 1, k \in T PROVE k + 1 \in T
  BY <1>2
<1>3. n \in 1 .. n
  OBVIOUS
<1> HIDE DEF T
<1>4. 1 .. n \subseteq T
  BY <1>1, <1>2, UpTo
<1>5. n \in T
  BY <1>3, <1>4
<1>6. QED
  BY <1>5 DEF T

\* The line is straight wherever no place it runs through lies strictly inside.
LEMMA StraightBetween ==
  ASSUME NEW w \in Seq(Int), NEW p \in Seq(Int), NEW e, Len(w) >= 1,
         Embeds(w, p, e), Neat(w, p, e),
         NEW x \in 1 .. Len(p), NEW y \in x .. Len(p),
         \A j \in 1 .. Len(w) : ~ (x < e[j] /\ e[j] < y)
  PROVE  Straight(p, x, y)
<1> DEFINE n == Len(w)
           m == Len(p)
<1>1. n \in Nat /\ n >= 1 /\ m \in Nat /\ \A i \in 1 .. m : p[i] \in Int
  BY LenProperties, ElementOfSeq
<1>2. \A k \in 1 .. n : e[k] \in 1 .. m
  BY DEF Embeds
<1>3. /\ Still(p, 1, e[1]) /\ Still(p, e[n], m)
      /\ \A k \in 1 .. n - 1 : Straight(p, e[k], e[k + 1])
  BY DEF Neat
<1>4. \A j \in 1 .. n : ~ (x < e[j] /\ e[j] < y)
  OBVIOUS
<1>5. x \in 1 .. m /\ y \in x .. m
  OBVIOUS
<1> HIDE DEF n, m
<1>6. 1 \in 1 .. n /\ n \in 1 .. n
  BY <1>1
<1>7. CASE x < e[1]
  <2>1. y <= e[1] /\ x .. y \subseteq 1 .. e[1] /\ x .. y \subseteq 1 .. m
    BY <1>1, <1>2, <1>4, <1>5, <1>6, <1>7
  <2>2. \A i, j \in x .. y : p[i] = p[j] /\ p[i] \in Int
    BY <1>1, <1>3, <2>1 DEF Still
  <2>3. QED
    BY <2>2 DEF Straight, Rises
<1>8. CASE e[1] <= x
  <2>1. PICK k \in 1 .. n : e[k] <= x /\ (k < n => x < e[k + 1])
    <3>1. \A k \in 1 .. n : e[k] \in Int
      BY <1>1, <1>2
    <3>2. x \in Int
      BY <1>5
    <3>3. QED
      BY <1>1, <1>8, <3>1, <3>2, LastBefore, Zenon
  <2>2. CASE k = n
    <3>1. x .. y \subseteq e[n] .. m /\ x .. y \subseteq 1 .. m
      BY <1>1, <1>2, <1>5, <2>1, <2>2
    <3>2. \A i, j \in x .. y : p[i] = p[j] /\ p[i] \in Int
      BY <1>1, <1>3, <3>1 DEF Still
    <3>3. QED
      BY <3>2 DEF Straight, Rises
  <2>3. CASE k < n
    <3>1. k + 1 \in 1 .. n /\ k \in 1 .. n - 1
      BY <1>1, <2>3
    <3>2. y <= e[k + 1]
      BY <1>1, <1>2, <1>4, <1>5, <2>1, <2>3, <3>1
    <3>3. x .. y \subseteq e[k] .. e[k + 1]
      BY <1>1, <1>2, <1>5, <2>1, <3>1, <3>2, SMTT(30)
    <3>4. QED
      BY <1>3, <3>1, <3>3 DEF Straight, Rises, Falls
  <2>4. QED
    BY <1>1, <2>2, <2>3
<1>9. QED
  BY <1>1, <1>2, <1>5, <1>6, <1>7, <1>8

\* A straight stretch that ends where it began stands still.
LEMMA StraightBack ==
  ASSUME NEW p \in Seq(Int), NEW i \in 1 .. Len(p), NEW j \in i .. Len(p),
         Straight(p, i, j), NEW x \in i .. j, NEW y \in x .. j, p[x] = p[y]
  PROVE  Still(p, x, y)
<1>1. Len(p) \in Nat /\ \A k \in 1 .. Len(p) : p[k] \in Int
  BY LenProperties, ElementOfSeq
<1>2. \A k \in x .. y : k \in i .. j /\ p[k] \in Int /\ x <= k /\ k <= y
  BY <1>1
<1>3. x \in i .. j /\ y \in i .. j
  OBVIOUS
<1>4. \A k \in x .. y : p[k] = p[x]
  BY <1>2, <1>3 DEF Straight, Rises, Falls
<1>5. QED
  BY <1>4 DEF Still

LEMMA StillThenStraight ==
  ASSUME NEW p \in Seq(Int), NEW i \in 1 .. Len(p), NEW j \in i .. Len(p), NEW k \in j .. Len(p),
         Still(p, i, j), Straight(p, j, k)
  PROVE  Straight(p, i, k)
<1>1. Len(p) \in Nat /\ \A x \in 1 .. Len(p) : p[x] \in Int
  BY LenProperties, ElementOfSeq
<1>2. ASSUME NEW x \in i .. k
      PROVE  /\ p[x] \in Int
             /\ \E z \in j .. k : p[z] = p[x] /\ (x < j => z = j) /\ (j <= x => z = x)
  <2>1. p[x] \in Int
    BY <1>1
  <2>2. CASE x < j
    <3>1. x \in i .. j /\ j \in i .. j /\ j \in j .. k
      BY <2>2
    <3>2. QED
      BY <2>1, <2>2, <3>1 DEF Still
  <2>3. CASE j <= x
    BY <2>1, <2>3
  <2>4. QED
    BY <2>2, <2>3
<1>3. ASSUME Rises(p, j, k) PROVE Rises(p, i, k)
  <2>1. ASSUME NEW x \in i .. k, NEW y \in i .. k, x <= y PROVE p[x] <= p[y]
    <3>1. PICK s \in j .. k : p[s] = p[x] /\ (x < j => s = j) /\ (j <= x => s = x)
      BY <1>2
    <3>2. PICK t \in j .. k : p[t] = p[y] /\ (y < j => t = j) /\ (j <= y => t = y)
      BY <1>2
    <3>3. s <= t
      BY <2>1, <3>1, <3>2
    <3>4. QED
      BY <1>3, <3>1, <3>2, <3>3 DEF Rises
  <2>2. QED
    BY <2>1 DEF Rises
<1>4. ASSUME Falls(p, j, k) PROVE Falls(p, i, k)
  <2>1. ASSUME NEW x \in i .. k, NEW y \in i .. k, x <= y PROVE p[y] <= p[x]
    <3>1. PICK s \in j .. k : p[s] = p[x] /\ (x < j => s = j) /\ (j <= x => s = x)
      BY <1>2
    <3>2. PICK t \in j .. k : p[t] = p[y] /\ (y < j => t = j) /\ (j <= y => t = y)
      BY <1>2
    <3>3. s <= t
      BY <2>1, <3>1, <3>2
    <3>4. QED
      BY <1>4, <3>1, <3>2, <3>3 DEF Falls
  <2>2. QED
    BY <2>1 DEF Falls
<1>5. QED
  BY <1>3, <1>4 DEF Straight

LEMMA StraightThenStill ==
  ASSUME NEW p \in Seq(Int), NEW i \in 1 .. Len(p), NEW j \in i .. Len(p), NEW k \in j .. Len(p),
         Straight(p, i, j), Still(p, j, k)
  PROVE  Straight(p, i, k)
<1>1. Len(p) \in Nat /\ \A x \in 1 .. Len(p) : p[x] \in Int
  BY LenProperties, ElementOfSeq
<1>2. ASSUME NEW x \in i .. k
      PROVE  /\ p[x] \in Int
             /\ \E z \in i .. j : p[z] = p[x] /\ (j < x => z = j) /\ (x <= j => z = x)
  <2>1. p[x] \in Int
    BY <1>1
  <2>2. CASE j < x
    <3>1. x \in j .. k /\ j \in j .. k /\ j \in i .. j
      BY <2>2
    <3>2. QED
      BY <2>1, <2>2, <3>1 DEF Still
  <2>3. CASE x <= j
    BY <2>1, <2>3
  <2>4. QED
    BY <2>2, <2>3
<1>3. ASSUME Rises(p, i, j) PROVE Rises(p, i, k)
  <2>1. ASSUME NEW x \in i .. k, NEW y \in i .. k, x <= y PROVE p[x] <= p[y]
    <3>1. PICK s \in i .. j : p[s] = p[x] /\ (j < x => s = j) /\ (x <= j => s = x)
      BY <1>2
    <3>2. PICK t \in i .. j : p[t] = p[y] /\ (j < y => t = j) /\ (y <= j => t = y)
      BY <1>2
    <3>3. s <= t
      BY <2>1, <3>1, <3>2
    <3>4. QED
      BY <1>3, <3>1, <3>2, <3>3 DEF Rises
  <2>2. QED
    BY <2>1 DEF Rises
<1>4. ASSUME Falls(p, i, j) PROVE Falls(p, i, k)
  <2>1. ASSUME NEW x \in i .. k, NEW y \in i .. k, x <= y PROVE p[y] <= p[x]
    <3>1. PICK s \in i .. j : p[s] = p[x] /\ (j < x => s = j) /\ (x <= j => s = x)
      BY <1>2
    <3>2. PICK t \in i .. j : p[t] = p[y] /\ (j < y => t = j) /\ (y <= j => t = y)
      BY <1>2
    <3>3. s <= t
      BY <2>1, <3>1, <3>2
    <3>4. QED
      BY <1>4, <3>1, <3>2, <3>3 DEF Falls
  <2>2. QED
    BY <2>1 DEF Falls
<1>5. QED
  BY <1>3, <1>4 DEF Straight

\* Legs that only stand still after an old place strictly inside them are
\* straight: the places of a new list fit a line that was neat for another.
LEMMA Refit ==
  ASSUME NEW v \in Seq(Int), NEW w \in Seq(Int), NEW p \in Seq(Int), NEW a, NEW b,
         Len(v) >= 1, Len(w) >= 1,
         Embeds(v, p, a), Neat(v, p, a), Embeds(w, p, b),
         Still(p, 1, b[1]), Still(p, b[Len(w)], Len(p)),
         \A k \in 1 .. Len(w) - 1, j \in 1 .. Len(v) :
           b[k] < a[j] /\ a[j] < b[k + 1] => Still(p, a[j], b[k + 1])
  PROVE  Neat(w, p, b)
<1>1. Len(v) \in Nat /\ Len(w) \in Nat /\ Len(p) \in Nat
  BY LenProperties
<1>2. \A j \in 1 .. Len(v) : a[j] \in 1 .. Len(p)
  BY DEF Embeds
<1>3. /\ \A k \in 1 .. Len(w) : b[k] \in 1 .. Len(p)
      /\ \A i, j \in 1 .. Len(w) : i <= j => b[i] <= b[j]
  BY DEF Embeds
<1>4. ASSUME NEW k \in 1 .. Len(w) - 1 PROVE Straight(p, b[k], b[k + 1])
  <2> DEFINE x == b[k]
             y == b[k + 1]
             J == {j \in 1 .. Len(v) : x < a[j] /\ a[j] < y}
  <2>1. x \in 1 .. Len(p) /\ y \in x .. Len(p)
    <3>1. k \in 1 .. Len(w) /\ k + 1 \in 1 .. Len(w) /\ k <= k + 1
      BY <1>1
    <3>2. QED
      BY <1>1, <1>3, <3>1, SMTT(30)
  <2>2. \A j \in J : Still(p, a[j], y)
    OBVIOUS
  <2> HIDE DEF x, y
  <2>3. CASE J = {}
    <3>1. \A j \in 1 .. Len(v) : ~ (x < a[j] /\ a[j] < y)
      BY <2>3
    <3>2. QED
      BY <2>1, <3>1, StraightBetween DEF x, y
  <2>4. CASE J # {}
    <3>1. J \in SUBSET Nat
      BY <1>1
    <3>2. PICK j \in J : \A i \in J : j <= i
      BY <2>4, <3>1, LeastElement
    <3>3. j \in 1 .. Len(v) /\ x < a[j] /\ a[j] < y
      BY <3>2
    <3>4. a[j] \in 1 .. Len(p)
      BY <1>2, <3>3
    <3> DEFINE z == a[j]
    <3>5. z \in x .. Len(p) /\ y \in z .. Len(p) /\ z \in Int /\ x \in Int /\ y \in Int
      <4> HIDE DEF J
      <4>1. z \in 1 .. Len(p) /\ x < z /\ z < y
        BY <3>3, <3>4
      <4> HIDE DEF z
      <4>2. QED
        BY <1>1, <2>1, <4>1
    <3>6. ASSUME NEW i \in 1 .. Len(v) PROVE ~ (x < a[i] /\ a[i] < z)
      <4>1. SUFFICES ASSUME x < a[i], a[i] < z PROVE FALSE
        OBVIOUS
      <4>2. a[i] \in Int /\ i \in Int /\ j \in Int
        BY <1>1, <1>2, <3>3, SMTT(30)
      <4>3. a[i] < y
        BY <3>3, <3>5, <4>1, <4>2, SMTT(30)
      <4>4. i \in J
        BY <4>1, <4>3
      <4>5. a[j] <= a[i]
        <5>1. j <= i
          BY <3>2, <4>4
        <5>2. \A g, h \in 1 .. Len(v) : g <= h => a[g] <= a[h]
          BY DEF Embeds
        <5>3. QED
          BY <3>3, <5>1, <5>2
      <4>6. QED
        BY <3>5, <4>1, <4>2, <4>5, SMTT(30)
    <3> HIDE DEF J
    <3>7. Straight(p, x, z)
      BY <2>1, <3>5, <3>6, StraightBetween DEF z
    <3>8. Still(p, z, y)
      BY <2>2, <3>2
    <3>9. QED
      BY <2>1, <3>5, <3>7, <3>8, StraightThenStill DEF x, y
  <2>5. QED
    BY <2>3, <2>4
<1>5. QED
  BY <1>4 DEF Neat

\* However the line is neat for the places, the forward walk finds it so.
LEMMA Fitting ==
  ASSUME NEW w \in Seq(Int), NEW p \in Seq(Int), NEW e, Len(w) >= 1,
         Embeds(w, p, e), Neat(w, p, e)
  PROVE  Fitted(w, p)
<1> DEFINE n == Len(w)
           m == Len(p)
           a == Anchors(w, p)
<1>1. OnPath(w, p) /\ \A k \in 1 .. n : a[k] <= e[k]
  BY AnchorsAreFirst
<1>2. Embeds(w, p, a)
  BY <1>1, AnchorsEmbed
<1>3. n \in Nat /\ n >= 1 /\ m \in Nat
  BY LenProperties
<1>4. /\ \A k \in 1 .. n : a[k] \in 1 .. m /\ p[a[k]] = w[k]
      /\ \A k \in 1 .. n : e[k] \in 1 .. m /\ p[e[k]] = w[k]
  BY <1>2 DEF Embeds
<1>5. \A j, k \in 1 .. n : j <= k => a[j] <= a[k] /\ e[j] <= e[k]
  BY <1>2 DEF Embeds
<1>6. /\ Still(p, 1, e[1]) /\ Still(p, e[n], m)
      /\ \A k \in 1 .. n - 1 : Straight(p, e[k], e[k + 1])
  BY DEF Neat
<1>7. \A i \in 1 .. m : p[i] \in Int
  BY ElementOfSeq
<1>8. 1 \in 1 .. n /\ n \in 1 .. n
  BY <1>3
<1> HIDE DEF a, n, m
<1>9. \A k \in 1 .. n : Still(p, a[k], e[k])
  <2> DEFINE T == {k \in 1 .. n : Still(p, a[k], e[k])}
  <2>1. 1 \in T
    <3>1. a[1] .. e[1] \subseteq 1 .. e[1]
      BY <1>4, <1>8
    <3>2. QED
      BY <1>6, <1>8, <3>1 DEF Still
  <2>2. ASSUME NEW k \in 1 .. n - 1, k \in T PROVE k + 1 \in T
    <3> DEFINE j == k + 1
    <3>1. k \in 1 .. n /\ j \in 1 .. n /\ k <= j
      BY <1>3
    <3>2. /\ e[k] \in 1 .. m /\ e[j] \in e[k] .. m /\ a[j] \in 1 .. e[j] /\ a[k] \in 1 .. a[j]
          /\ p[a[j]] = p[e[j]]
      <4>1. /\ e[k] \in 1 .. m /\ e[j] \in 1 .. m /\ a[k] \in 1 .. m /\ a[j] \in 1 .. m
            /\ p[a[j]] = p[e[j]] /\ a[j] <= e[j]
        BY <1>1, <1>4, <3>1
      <4>2. e[k] <= e[j] /\ a[k] <= a[j]
        BY <1>5, <3>1
      <4>3. QED
        BY <1>3, <4>1, <4>2, SMTT(30)
    <3>3. Straight(p, e[k], e[j])
      BY <1>6
    <3> HIDE DEF j
    <3>4. CASE e[k] <= a[j]
      <4>1. a[j] \in e[k] .. e[j] /\ e[j] \in a[j] .. e[j]
        BY <3>2, <3>4
      <4>2. Still(p, a[j], e[j])
        BY <3>2, <3>3, <4>1, StraightBack DEF m
      <4>3. QED
        BY <3>1, <4>2 DEF j
    <3>5. CASE a[j] < e[k]
      <4>1. a[j] \in a[k] .. e[k] /\ e[k] \in a[k] .. e[k]
        BY <3>2, <3>5, SMTT(30)
      <4>2. Still(p, a[k], e[k])
        BY <2>2
      <4>3. p[e[k]] = p[e[j]]
        BY <3>2, <4>1, <4>2 DEF Still
      <4>4. e[k] \in e[k] .. e[j] /\ e[j] \in e[k] .. e[j]
        BY <3>2
      <4>5. Still(p, e[k], e[j])
        BY <3>2, <3>3, <4>3, <4>4, StraightBack DEF m
      <4>6. \A x \in a[j] .. e[j] : x \in a[k] .. e[k] \/ x \in e[k] .. e[j]
        BY <3>2, SMTT(30)
      <4>7. \A x \in a[j] .. e[j] : p[x] = p[e[k]]
        BY <4>1, <4>2, <4>4, <4>5, <4>6 DEF Still
      <4>8. Still(p, a[j], e[j])
        BY <4>7 DEF Still
      <4>9. QED
        BY <3>1, <4>8 DEF j
    <3>6. QED
      BY <3>2, <3>4, <3>5
  <2> HIDE DEF T
  <2>3. 1 .. n \subseteq T
    BY <1>3, <2>1, <2>2, UpTo
  <2>4. QED
    BY <2>3 DEF T
<1>10. Still(p, 1, a[1])
  <2>1. 1 .. a[1] \subseteq 1 .. e[1]
    BY <1>1, <1>4, <1>8
  <2>2. QED
    BY <1>6, <2>1 DEF Still
<1>11. Still(p, a[n], m)
  <2>1. Still(p, a[n], e[n]) /\ a[n] \in 1 .. m /\ e[n] \in a[n] .. m
    BY <1>1, <1>4, <1>8, <1>9
  <2>2. \A x \in a[n] .. m : x \in a[n] .. e[n] \/ x \in e[n] .. m
    BY <2>1
  <2>3. e[n] \in a[n] .. e[n] /\ e[n] \in e[n] .. m
    BY <2>1
  <2>4. \A x \in a[n] .. m : p[x] = p[e[n]]
    BY <1>6, <2>1, <2>2, <2>3 DEF Still
  <2>5. QED
    BY <2>4 DEF Still
<1>12. ASSUME NEW k \in 1 .. n - 1 PROVE Straight(p, a[k], a[k + 1])
  <2> DEFINE j == k + 1
  <2>1. k \in 1 .. n /\ j \in 1 .. n /\ k <= j
    BY <1>3
  <2>2. /\ e[k] \in a[k] .. m /\ e[j] \in e[k] .. m /\ a[j] \in a[k] .. e[j] /\ a[k] \in 1 .. m
        /\ a[j] \in 1 .. m
    BY <1>1, <1>3, <1>4, <1>5, <2>1
  <2>3. Straight(p, e[k], e[j]) /\ Still(p, a[k], e[k])
    BY <1>6, <1>9, <2>1
  <2> HIDE DEF j
  <2>4. CASE a[j] <= e[k]
    <3>1. a[k] .. a[j] \subseteq a[k] .. e[k] /\ a[k] .. a[j] \subseteq 1 .. m
      <4>1. a[k] \in Int /\ a[j] \in Int /\ e[k] \in Int /\ 1 <= a[k] /\ a[j] <= m
        BY <1>3, <2>2
      <4>2. QED
        BY <1>3, <2>4, <4>1
    <3>2. \A x, y \in a[k] .. a[j] : p[x] = p[y] /\ p[x] \in Int
      BY <1>7, <2>3, <3>1 DEF Still
    <3>3. QED
      BY <3>2 DEF Straight, Rises, j
  <2>5. CASE e[k] < a[j]
    <3>1. e[k] .. a[j] \subseteq e[k] .. e[j]
      BY <2>2
    <3>2. Straight(p, e[k], a[j])
      BY <2>3, <3>1 DEF Straight, Rises, Falls
    <3>3. a[j] \in e[k] .. m
      BY <2>2, <2>5
    <3>4. QED
      BY <2>2, <2>3, <3>2, <3>3, StillThenStraight DEF j, m
  <2>6. QED
    BY <2>2, <2>4, <2>5
<1>13. QED
  BY <1>1, <1>10, <1>11, <1>12 DEF Fitted, Neat, a, n, m

----------------------------------------------------------------------------
(* The engine's route makes no detour, and covers every line that fits.    *)

LEMMA Wider ==
  ASSUME NEW S, NEW T, S \subseteq T, NEW s \in Seq(S)
  PROVE  s \in Seq(T)
<1>1. Len(s) \in Nat /\ s \in [1 .. Len(s) -> S]
  BY LenProperties
<1>2. s \in [1 .. Len(s) -> T]
  BY <1>1
<1>3. QED
  BY <1>1, <1>2

\* A list of integers, as the lemmas above take it.
LEMMA IntSeq ==
  ASSUME NEW S, Unbroken(S), NEW s \in Seq(S)
  PROVE  s \in Seq(Int) /\ Len(s) \in Nat /\ DOMAIN s = 1 .. Len(s)
         /\ \A i \in 1 .. Len(s) : s[i] \in S /\ s[i] \in Int
<1>1. S \subseteq Int
  BY DEF Unbroken
<1>2. Len(s) \in Nat /\ DOMAIN s = 1 .. Len(s) /\ \A i \in 1 .. Len(s) : s[i] \in S
  BY LenProperties, ElementOfSeq
<1>3. s \in Seq(Int)
  BY <1>1, Wider
<1>4. QED
  BY <1>1, <1>2, <1>3

\* Every stop is routed to, and each leg walks straight.
LEMMA RouteNeat ==
  ASSUME NEW S, Unbroken(S), NEW stops \in Seq(S), Len(stops) >= 1
  PROVE  LET r == Route(stops)
         IN  /\ r \in Seq(S)
             /\ \E e : /\ Embeds(stops, r, e) /\ Neat(stops, r, e)
                       /\ e[1] = 1 /\ e[Len(stops)] = Len(r)
<1> DEFINE r == Route(stops)
           n == Len(stops)
<1>1. /\ r \in Seq(S)
      /\ \E e : /\ Embeds(stops, r, e) /\ e[1] = 1 /\ e[n] = Len(r)
                /\ \A k \in 1 .. n - 1 : \A x \in e[k] .. e[k + 1] :
                     r[x] = Towards(stops[k], stops[k + 1], x - e[k])
  BY RouteShape
<1>2. stops \in Seq(Int) /\ n \in Nat /\ \A k \in 1 .. n : stops[k] \in Int
  BY IntSeq
<1>3. r \in Seq(Int)
  BY <1>1, IntSeq
<1>4. PICK e : /\ Embeds(stops, r, e) /\ e[1] = 1 /\ e[n] = Len(r)
               /\ \A k \in 1 .. n - 1 : \A x \in e[k] .. e[k + 1] :
                    r[x] = Towards(stops[k], stops[k + 1], x - e[k])
  BY <1>1
<1> HIDE DEF r
<1>5. ASSUME NEW k \in 1 .. n - 1 PROVE Straight(r, e[k], e[k + 1])
  <2>1. k \in 1 .. n /\ k + 1 \in 1 .. n
    BY <1>2
  <2>2. e[k] \in Int /\ stops[k] \in Int /\ stops[k + 1] \in Int
    BY <1>2, <1>4, <2>1 DEF Embeds
  <2>3. \A x \in e[k] .. e[k + 1] : r[x] = Towards(stops[k], stops[k + 1], x - e[k])
    BY <1>4
  <2> HIDE DEF n
  <2> DEFINE v == stops[k]
             w == stops[k + 1]
             i == e[k]
             j == e[k + 1]
  <2> HIDE DEF v, w, i, j
  <2>4. CASE v <= w
    <3>1. \A x, y \in i .. j : x <= y => r[x] <= r[y]
      BY <2>2, <2>3, <2>4 DEF Towards, v, w, i, j
    <3>2. QED
      BY <3>1 DEF Straight, Rises, i, j
  <2>5. CASE ~ (v <= w)
    <3>1. \A x, y \in i .. j : x <= y => r[y] <= r[x]
      BY <2>2, <2>3, <2>5 DEF Towards, v, w, i, j
    <3>2. QED
      BY <3>1 DEF Straight, Falls, i, j
  <2>6. QED
    BY <2>4, <2>5
<1>6. Still(r, 1, e[1]) /\ Still(r, e[n], Len(r))
  <2>1. Len(r) \in Nat
    BY <1>3, LenProperties
  <2>2. QED
    BY <1>4, <2>1 DEF Still
<1>7. Neat(stops, r, e)
  BY <1>5, <1>6 DEF Neat
<1>8. QED
  BY <1>1, <1>4, <1>7 DEF r, n

LEMMA RouteFits ==
  ASSUME NEW S, Unbroken(S), NEW stops \in Seq(S), Len(stops) >= 1
  PROVE  Fitted(stops, Route(stops)) /\ Route(stops) \in Seq(S)
<1> DEFINE r == Route(stops)
<1>1. /\ r \in Seq(S)
      /\ \E e : Embeds(stops, r, e) /\ Neat(stops, r, e)
  BY RouteNeat
<1> HIDE DEF r
<1>2. stops \in Seq(Int) /\ r \in Seq(Int)
  BY <1>1, IntSeq
<1>3. Fitted(stops, r)
  BY <1>1, <1>2, Fitting
<1>4. QED
  BY <1>1, <1>3 DEF r

LEMMA RouteNotEmpty ==
  ASSUME NEW S, Unbroken(S), NEW stops \in Seq(S), Len(stops) >= 1
  PROVE  Route(stops) # <<>> /\ Len(Route(stops)) >= 1
<1> DEFINE r == Route(stops)
<1>1. r \in Seq(S) /\ \E e : Embeds(stops, r, e)
  BY RouteNeat
<1> HIDE DEF r
<1>2. 1 \in 1 .. Len(stops) /\ Len(r) \in Nat
  BY <1>1, LenProperties
<1>3. Len(r) >= 1
  BY <1>1, <1>2 DEF Embeds
<1>4. r # <<>>
  BY <1>3, EmptySeq
<1>5. QED
  BY <1>3, <1>4 DEF r

\* The route runs over every place between two stops in a row.
LEMMA RouteCovers ==
  ASSUME NEW S, Unbroken(S), NEW stops \in Seq(S), Len(stops) >= 1
  PROVE  /\ \A k \in 1 .. Len(stops) : stops[k] \in ToSet(Route(stops))
         /\ \A k \in 1 .. Len(stops) - 1 : \A v \in Int :
              \/ stops[k] <= v /\ v <= stops[k + 1]
              \/ stops[k + 1] <= v /\ v <= stops[k]
              => v \in ToSet(Route(stops))
<1> DEFINE r == Route(stops)
           n == Len(stops)
<1>1. /\ r \in Seq(S)
      /\ \E e : /\ Embeds(stops, r, e) /\ e[1] = 1 /\ e[n] = Len(r)
                /\ \A k \in 1 .. n - 1 : \A x \in e[k] .. e[k + 1] :
                     r[x] = Towards(stops[k], stops[k + 1], x - e[k])
  BY RouteShape
<1>2. n \in Nat /\ \A k \in 1 .. n : stops[k] \in Int
  BY IntSeq
<1>3. PICK e : /\ Embeds(stops, r, e)
               /\ \A k \in 1 .. n - 1 : \A x \in e[k] .. e[k + 1] :
                    r[x] = Towards(stops[k], stops[k + 1], x - e[k])
  BY <1>1
<1>4. DOMAIN r = 1 .. Len(r) /\ Len(r) \in Nat
  BY <1>1, LenProperties
<1>5. \A x \in 1 .. Len(r) : r[x] \in ToSet(r)
  BY <1>4 DEF ToSet
<1> HIDE DEF r, n
<1>6. /\ \A k \in 1 .. n : e[k] \in 1 .. Len(r) /\ r[e[k]] = stops[k]
      /\ \A j, k \in 1 .. n : j <= k => e[j] <= e[k]
  BY <1>3 DEF Embeds, n
<1>7. ASSUME NEW k \in 1 .. n PROVE stops[k] \in ToSet(r)
  BY <1>5, <1>6
<1>8. ASSUME NEW k \in 1 .. n - 1, NEW v \in Int,
             \/ stops[k] <= v /\ v <= stops[k + 1]
             \/ stops[k + 1] <= v /\ v <= stops[k]
      PROVE  v \in ToSet(r)
  <2> DEFINE a == stops[k]
             b == stops[k + 1]
             i == e[k]
             j == e[k + 1]
  <2>1. k \in 1 .. n /\ k + 1 \in 1 .. n /\ k <= k + 1
    BY <1>2
  <2>2. /\ i \in 1 .. Len(r) /\ j \in 1 .. Len(r) /\ i <= j /\ a \in Int /\ b \in Int
        /\ r[j] = b
    BY <1>2, <1>6, <2>1
  <2>3. \A x \in i .. j : r[x] = Towards(a, b, x - i)
    BY <1>3
  <2>4. (a <= v /\ v <= b) \/ (b <= v /\ v <= a)
    BY <1>8
  <2> HIDE DEF a, b, i, j
  <2>5. i \in Int /\ j \in Int /\ i <= j
    BY <2>2
  <2>6. b = Towards(a, b, j - i)
    <3>1. j \in i .. j
      BY <2>5
    <3>2. QED
      BY <2>2, <2>3, <3>1
  <2> DEFINE x == IF a <= b THEN i + v - a ELSE i + a - v
  <2>7. x \in i .. j /\ Towards(a, b, x - i) = v
    BY <2>2, <2>4, <2>5, <2>6 DEF Towards
  <2> HIDE DEF x
  <2>8. r[x] = v /\ x \in 1 .. Len(r)
    <3>1. i .. j \subseteq 1 .. Len(r)
      BY <1>4, <2>2
    <3>2. QED
      BY <2>3, <2>7, <3>1
  <2>9. QED
    BY <1>5, <2>8
<1>9. QED
  BY <1>7, <1>8 DEF r, n

\* A line that makes no detour stays on its places' own route.
LEMMA FittedIsCovered ==
  ASSUME NEW S, Unbroken(S), NEW w \in Seq(S), Len(w) >= 1,
         NEW p \in Seq(Int), Fitted(w, p)
  PROVE  ToSet(p) \subseteq ToSet(Route(w))
<1> DEFINE a == Anchors(w, p)
           n == Len(w)
<1>1. /\ w \in Seq(Int) /\ n \in Nat /\ n >= 1 /\ Len(p) \in Nat
      /\ DOMAIN p = 1 .. Len(p) /\ \A x \in 1 .. Len(p) : p[x] \in Int
  BY IntSeq, LenProperties, ElementOfSeq
<1>2. Embeds(w, p, a) /\ Neat(w, p, a)
  BY <1>1, AnchorsEmbed DEF Fitted
<1>3. /\ \A k \in 1 .. n : w[k] \in ToSet(Route(w))
      /\ \A k \in 1 .. n - 1 : \A v \in Int :
           (w[k] <= v /\ v <= w[k + 1]) \/ (w[k + 1] <= v /\ v <= w[k]) => v \in ToSet(Route(w))
  BY RouteCovers
<1> HIDE DEF a
<1>4. /\ \A k \in 1 .. n : a[k] \in 1 .. Len(p) /\ p[a[k]] = w[k]
      /\ \A j, k \in 1 .. n : j <= k => a[j] <= a[k]
      /\ Still(p, 1, a[1]) /\ Still(p, a[n], Len(p))
      /\ \A k \in 1 .. n - 1 : Straight(p, a[k], a[k + 1])
  BY <1>2 DEF Embeds, Neat
<1> HIDE DEF n
<1>5. ASSUME NEW x \in 1 .. Len(p) PROVE p[x] \in ToSet(Route(w))
  <2>1. 1 \in 1 .. n /\ n \in 1 .. n
    BY <1>1
  <2>2. a[1] \in 1 .. Len(p) /\ a[n] \in 1 .. Len(p) /\ a[1] \in Int /\ a[n] \in Int /\ x \in Int
    BY <1>4, <2>1
  <2>3. CASE x <= a[1]
    <3>1. x \in 1 .. a[1] /\ a[1] \in 1 .. a[1]
      BY <2>2, <2>3
    <3>2. p[x] = p[a[1]]
      BY <1>4, <3>1 DEF Still
    <3>3. QED
      BY <1>3, <1>4, <2>1, <3>2
  <2>4. CASE a[n] <= x
    <3>1. x \in a[n] .. Len(p) /\ a[n] \in a[n] .. Len(p)
      BY <1>1, <2>2, <2>4
    <3>2. p[x] = p[a[n]]
      BY <1>4, <3>1 DEF Still
    <3>3. QED
      BY <1>3, <1>4, <2>1, <3>2
  <2>5. CASE a[1] < x /\ x < a[n]
    <3>1. \A k \in 1 .. n : a[k] \in Int
      BY <1>4
    <3>2. PICK k \in 1 .. n : a[k] <= x /\ (k < n => x < a[k + 1])
      <4>1. a[1] <= x
        BY <2>2, <2>5
      <4>2. QED
        BY <1>1, <2>2, <3>1, <4>1, LastBefore, Zenon
    <3>3. k # n
      BY <2>2, <2>5, <3>2
    <3>4. k \in 1 .. n - 1 /\ k + 1 \in 1 .. n /\ k < n /\ k <= k + 1
      BY <1>1, <3>3
    <3>5. a[k] \in Int /\ a[k + 1] \in Int /\ a[k] <= x /\ x < a[k + 1]
      BY <3>1, <3>2, <3>4
    <3>6. x \in a[k] .. a[k + 1] /\ a[k] \in a[k] .. a[k + 1] /\ a[k + 1] \in a[k] .. a[k + 1]
      BY <2>2, <3>5, SMTT(30)
    <3>7. Straight(p, a[k], a[k + 1]) /\ p[a[k]] = w[k] /\ p[a[k + 1]] = w[k + 1] /\ p[x] \in Int
      BY <1>1, <1>4, <3>4
    <3>8. (w[k] <= p[x] /\ p[x] <= w[k + 1]) \/ (w[k + 1] <= p[x] /\ p[x] <= w[k])
      <4>1. CASE Rises(p, a[k], a[k + 1])
        <5>1. p[a[k]] <= p[x] /\ p[x] <= p[a[k + 1]]
          BY <3>5, <3>6, <4>1, <2>2 DEF Rises
        <5>2. QED
          BY <3>7, <5>1
      <4>2. CASE Falls(p, a[k], a[k + 1])
        <5>1. p[a[k + 1]] <= p[x] /\ p[x] <= p[a[k]]
          BY <3>5, <3>6, <4>2, <2>2 DEF Falls
        <5>2. QED
          BY <3>7, <5>1
      <4>3. QED
        BY <3>7, <4>1, <4>2 DEF Straight
    <3>9. QED
      BY <1>3, <3>4, <3>7, <3>8
  <2>6. QED
    BY <2>2, <2>3, <2>4, <2>5
<1>6. QED
  BY <1>1, <1>5 DEF ToSet
===============================================================================
