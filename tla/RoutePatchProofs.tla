--------------------------- MODULE RoutePatchProofs ---------------------------
(***************************************************************************)
(* The three ways patchRoute spares the engine a full route, and what each *)
(* makes of a path that ran through the old waypoints: the trim of a       *)
(* restore (TrimFits), the spliced segment (SpliceFits), and the path kept *)
(* for waypoints put on it (InsertOne, KeepFits).                          *)
(***************************************************************************)
EXTENDS RouteLineProofs

----------------------------------------------------------------------------
(* Seen: which waypoints of one list survive in another.                   *)

NextSeen(prev, place, v) ==
  IF v < Len(prev) /\ place = prev[v + 1] THEN v + 1 ELSE v

LEMMA SeenWalk ==
  ASSUME NEW prev \in Seq(Int), NEW next \in Seq(Int)
  PROVE  LET seen == Seen(prev, next)
         IN  /\ seen[0] = 0
             /\ \A n \in 0 .. Len(next) : seen[n] \in 0 .. Len(prev)
             /\ \A n \in 1 .. Len(next) : seen[n] = NextSeen(prev, next[n], seen[n - 1])
             /\ \A i, j \in 0 .. Len(next) : i <= j => seen[i] <= seen[j]
<1> DEFINE m == Len(next)
           V == 0 .. Len(prev)
           step == [v \in V |-> [n \in 1 .. m |-> NextSeen(prev, next[n], v)]]
<1>1. m \in Nat /\ Len(prev) \in Nat /\ 0 \in V
  BY LenProperties
<1>2. \A v \in V, n \in 1 .. m : NextSeen(prev, next[n], v) \in V
  BY <1>1 DEF NextSeen
<1> HIDE DEF m, V
<1>3. step \in [V -> [1 .. m -> V]]
  BY <1>2
<1>4. \A v \in V, n \in 1 .. m : step[v][n] = NextSeen(prev, next[n], v)
  OBVIOUS
<1> HIDE DEF step
<1>5. PICK g : IsWalk(g, m, V, 0, step)
  BY <1>1, <1>3, WalkExists
<1>6. g \in [0 .. m -> V] /\ g[0] = 0 /\ \A n \in 1 .. m : g[n] = step[g[n - 1]][n]
  BY <1>5 DEF IsWalk
<1>7. ASSUME NEW n \in 1 .. m PROVE g[n] = NextSeen(prev, next[n], g[n - 1])
  <2>1. n - 1 \in 0 .. m
    BY <1>1
  <2>2. g[n - 1] \in V
    BY <1>6, <2>1
  <2>3. QED
    BY <1>4, <1>6, <2>2
<1>8. g = [n \in 0 .. m |-> IF n = 0 THEN 0 ELSE NextSeen(prev, next[n], g[n - 1])]
  <2>1. \A n \in 0 .. m : g[n] = IF n = 0 THEN 0 ELSE NextSeen(prev, next[n], g[n - 1])
    BY <1>1, <1>6, <1>7
  <2>2. g = [n \in 0 .. m |-> g[n]]
    BY <1>6
  <2>3. QED
    BY <2>1, <2>2
<1> DEFINE s == Seen(prev, next)
<1>9. s = [n \in 0 .. m |-> IF n = 0 THEN 0 ELSE NextSeen(prev, next[n], s[n - 1])]
  BY <1>8, Zenon DEF Seen, NextSeen, m
<1> HIDE DEF s
<1>10. s[0] = 0 /\ \A n \in 1 .. m : s[n] = NextSeen(prev, next[n], s[n - 1])
  BY <1>1, <1>9
<1>11. \A n \in 0 .. m : s[n] \in V
  <2> DEFINE T == {n \in 0 .. m : s[n] \in V}
  <2>1. 0 \in T
    BY <1>1, <1>10
  <2>2. ASSUME NEW n \in 0 .. m - 1, n \in T PROVE n + 1 \in T
    <3>1. n + 1 \in 1 .. m /\ n + 1 \in 0 .. m /\ (n + 1) - 1 = n
      BY <1>1
    <3>2. QED
      BY <1>2, <1>10, <2>2, <3>1
  <2> HIDE DEF T
  <2>3. 0 .. m \subseteq T
    BY <1>1, <2>1, <2>2, UpTo
  <2>4. QED
    BY <2>3 DEF T
<1>12. \A n \in 0 .. m : s[n] \in Int
  BY <1>11 DEF V
<1>13. ASSUME NEW n \in 0 .. m - 1 PROVE s[n] <= s[n + 1]
  <2>1. n + 1 \in 1 .. m /\ n \in 0 .. m /\ (n + 1) - 1 = n
    BY <1>1
  <2>2. QED
    BY <1>10, <1>12, <2>1 DEF NextSeen
<1>14. \A i, j \in 0 .. m : i <= j => s[i] <= s[j]
  BY <1>1, <1>12, <1>13, Ascending
<1>15. QED
  BY <1>10, <1>11, <1>14 DEF s, m, V

----------------------------------------------------------------------------
(* The trimmed path of an undo or redo.                                    *)

LEMMA SubLine ==
  ASSUME NEW S, NEW p \in Seq(S), NEW i \in 1 .. Len(p), NEW j \in i .. Len(p)
  PROVE  LET q == SubSeq(p, i, j)
         IN  q \in Seq(S) /\ Len(q) = j - i + 1 /\ \A x \in 1 .. j - i + 1 : q[x] = p[i + x - 1]
<1>1. i \in Int /\ j \in Int /\ i <= j /\ Len(p) \in Nat
  BY LenProperties
<1>2. \A x \in i .. j : p[x] \in S
  BY <1>1, ElementOfSeq
<1>3. QED
  BY <1>1, <1>2, SubSeqProperties

\* A stretch of a line, from the first of the places to the last.
LEMMA TrimEmbeds ==
  ASSUME NEW w \in Seq(Int), NEW p \in Seq(Int), Len(w) >= 1, OnPath(w, p)
  PROVE  LET b == Anchors(w, p)
             n == Len(w)
             q == SubSeq(p, b[1], b[n])
         IN  /\ q \in Seq(Int) /\ OnPath(w, q)
             /\ (\A k \in 1 .. n - 1 : Straight(p, b[k], b[k + 1])) => Fitted(w, q)
<1> DEFINE n == Len(w)
           b == Anchors(w, p)
           q == SubSeq(p, b[1], b[n])
           f == [k \in 1 .. n |-> b[k] - b[1] + 1]
<1>1. n \in Nat /\ n >= 1 /\ 1 \in 1 .. n /\ n \in 1 .. n /\ Len(p) \in Nat
  BY LenProperties
<1>2. /\ \A k \in 1 .. n : b[k] \in 1 .. Len(p) /\ p[b[k]] = w[k]
      /\ \A j, k \in 1 .. n : j <= k => b[j] <= b[k]
  BY AnchorsEmbed DEF Embeds
<1> HIDE DEF b, n
<1>3. \A k \in 1 .. n : f[k] = b[k] - b[1] + 1
  OBVIOUS
<1>4. b[1] \in 1 .. Len(p) /\ b[n] \in b[1] .. Len(p)
  BY <1>1, <1>2
<1>5. q \in Seq(Int) /\ Len(q) = b[n] - b[1] + 1 /\ \A x \in 1 .. b[n] - b[1] + 1 : q[x] = p[b[1] + x - 1]
  BY <1>4, SubLine
<1> HIDE DEF q, f
<1>6. ASSUME NEW k \in 1 .. n
      PROVE  b[k] \in b[1] .. b[n] /\ f[k] = b[k] - b[1] + 1 /\ f[k] \in 1 .. Len(q)
  <2> DEFINE x == b[k]
             y == b[1]
             z == b[n]
  <2>1. x \in 1 .. Len(p) /\ y <= x /\ x <= z
    BY <1>1, <1>2
  <2>2. y \in 1 .. Len(p) /\ z \in y .. Len(p) /\ Len(q) = z - y + 1
    BY <1>4, <1>5
  <2>3. f[k] = x - y + 1
    BY <1>3
  <2> HIDE DEF x, y, z
  <2>4. x \in Int /\ y \in Int /\ z \in Int
    BY <1>1, <2>1, <2>2
  <2>5. x \in y .. z /\ f[k] \in 1 .. Len(q)
    BY <2>1, <2>2, <2>3, <2>4
  <2>6. QED
    BY <2>3, <2>5 DEF x, y, z
<1>7. Embeds(w, q, f)
  <2>1. ASSUME NEW k \in 1 .. n PROVE q[f[k]] = w[k]
    <3>1. b[1] + f[k] - 1 = b[k]
      <4>1. b[1] \in Int /\ b[k] \in Int /\ f[k] = b[k] - b[1] + 1
        BY <1>1, <1>2, <1>6
      <4>2. QED
        BY <4>1
    <3>2. QED
      BY <1>2, <1>5, <1>6, <3>1
  <2>2. ASSUME NEW j \in 1 .. n, NEW k \in 1 .. n, j <= k PROVE f[j] <= f[k]
    <3>1. b[j] <= b[k]
      BY <1>2, <2>2
    <3>2. QED
      BY <1>4, <1>6, <3>1, SMTT(30)
  <2>3. QED
    BY <1>6, <2>1, <2>2 DEF Embeds, n
<1>8. OnPath(w, q)
  BY <1>5, <1>7, AnchorsAreFirst
<1>9. ASSUME \A k \in 1 .. n - 1 : Straight(p, b[k], b[k + 1]) PROVE Fitted(w, q)
  <2>1. f[1] = 1 /\ f[n] = Len(q)
    <3>1. f[1] = b[1] - b[1] + 1 /\ f[n] = b[n] - b[1] + 1 /\ b[1] \in Int
      BY <1>1, <1>3, <1>4
    <3>2. QED
      BY <1>5, <3>1
  <2>2. Still(q, 1, f[1]) /\ Still(q, f[n], Len(q))
    BY <1>5, <1>4, <2>1 DEF Still
  <2>3. ASSUME NEW k \in 1 .. n - 1 PROVE Straight(q, f[k], f[k + 1])
    <3> DEFINE x == b[k]
               y == b[k + 1]
               z == b[1]
    <3>1. k \in 1 .. n /\ k + 1 \in 1 .. n
      BY <1>1
    <3>2. /\ x \in z .. b[n] /\ y \in z .. b[n] /\ z \in Int /\ b[n] \in Int
          /\ f[k] = x - z + 1 /\ f[k + 1] = y - z + 1
      BY <1>4, <1>6, <3>1
    <3>3. Straight(p, x, y)
      BY <1>9
    <3>4. \A i \in 1 .. b[n] - z + 1 : q[i] = p[z + i - 1]
      BY <1>5
    <3> HIDE DEF x, y, z
    <3>5. ASSUME NEW i \in f[k] .. f[k + 1]
          PROVE  q[i] = p[z + i - 1] /\ z + i - 1 \in x .. y /\ i \in Int
      <4>1. x \in Int /\ y \in Int /\ z <= x /\ y <= b[n]
        BY <3>2
      <4>2. i \in Int /\ x - z + 1 <= i /\ i <= y - z + 1
        BY <3>2
      <4>3. i \in 1 .. b[n] - z + 1 /\ z + i - 1 \in x .. y
        BY <3>2, <4>1, <4>2, SMTT(30)
      <4>4. QED
        BY <3>4, <4>3
    <3>6. \A i, j \in f[k] .. f[k + 1] : i <= j => z + i - 1 <= z + j - 1
      BY <3>2
    <3>7. CASE Rises(p, x, y)
      <4>1. \A i, j \in f[k] .. f[k + 1] : i <= j => q[i] <= q[j]
        BY <3>5, <3>6, <3>7 DEF Rises
      <4>2. QED
        BY <4>1 DEF Straight, Rises
    <3>8. CASE Falls(p, x, y)
      <4>1. \A i, j \in f[k] .. f[k + 1] : i <= j => q[j] <= q[i]
        BY <3>5, <3>6, <3>8 DEF Falls
      <4>2. QED
        BY <4>1 DEF Straight, Falls
    <3>9. QED
      BY <3>3, <3>7, <3>8 DEF Straight
  <2>4. Neat(w, q, f)
    BY <2>2, <2>3 DEF Neat, n
  <2>5. QED
    BY <1>5, <1>7, <2>4, Fitting
<1>10. QED
  BY <1>5, <1>8, <1>9 DEF q, b, n

LEMMA AnchorsAscend ==
  ASSUME NEW w \in Seq(Int), NEW p \in Seq(Int), OnPath(w, p)
  PROVE  /\ \A k \in 0 .. Len(w) : Anchors(w, p)[k] \in Nat \ {0}
         /\ \A j, k \in 0 .. Len(w) : j <= k => Anchors(w, p)[j] <= Anchors(w, p)[k]
<1> DEFINE a == Anchors(w, p)
           n == Len(w)
<1>1. n \in Nat /\ 0 \in Nat
  BY LenProperties
<1>2. (\A k \in 0 .. n : a[k] \in Nat \ {0}) /\ \A k \in 1 .. n : a[k - 1] <= a[k]
  BY AnchorsEmbed
<1> HIDE DEF a, n
<1>3. ASSUME NEW k \in 0 .. n - 1 PROVE a[k] <= a[k + 1]
  <2>1. k + 1 \in 1 .. n /\ (k + 1) - 1 = k
    BY <1>1
  <2>2. QED
    BY <1>2, <2>1
<1>4. \A k \in 0 .. n : a[k] \in Int
  BY <1>2
<1>5. \A j, k \in 0 .. n : j <= k => a[j] <= a[k]
  BY <1>1, <1>3, <1>4, Ascending
<1>6. QED
  BY <1>2, <1>5 DEF a, n

\* a is a forward walk to the m places of w along p, up to its last index.
Walks(m, w, p, last, a) ==
  /\ a[0] = 1
  /\ \A k \in 0 .. m : a[k] \in Int /\ 1 <= a[k]
  /\ \A i, k \in 0 .. m : i <= k => a[i] <= a[k]
  /\ \A k \in 1 .. m : a[k] <= last /\ p[a[k]] = w[k]
  /\ \A k \in 1 .. m : \A i \in a[k - 1] .. last : p[i] = w[k] => a[k] <= i

LEMMA AnchorsWalkAlong ==
  ASSUME NEW w \in Seq(Int), NEW p \in Seq(Int), OnPath(w, p)
  PROVE  Walks(Len(w), w, p, Len(p), Anchors(w, p))
<1> DEFINE a == Anchors(w, p)
           n == Len(w)
           last == Len(p)
<1>1. n \in Nat /\ last \in Nat
  BY LenProperties
<1>2. /\ \A k \in 0 .. n : a[k] \in Nat \ {0}
      /\ \A j, k \in 0 .. n : j <= k => a[j] <= a[k]
  BY AnchorsAscend
<1>3. /\ \A k \in 1 .. n : a[k] \in 1 .. last /\ p[a[k]] = w[k]
      /\ a[0] = 1
      /\ \A k \in 1 .. n : \A i \in a[k - 1] .. last : p[i] = w[k] => a[k] <= i
  BY AnchorsEmbed DEF Embeds
<1> HIDE DEF a, n, last
<1>4. \A k \in 0 .. n : a[k] \in Int /\ 1 <= a[k]
  BY <1>2
<1>5. \A k \in 1 .. n : a[k] <= last /\ p[a[k]] = w[k]
  BY <1>1, <1>3
<1>6. Walks(n, w, p, last, a)
  BY <1>2, <1>3, <1>4, <1>5, Zenon DEF Walks
<1>7. QED
  BY <1>6 DEF a, n, last

\* The places of prev that survive in next, and where those that do not lie.
Survive(m, n, prev, next, seen, a, b) ==
  /\ seen[0] = 0
  /\ \A j \in 0 .. m : seen[j] \in 0 .. n
  /\ \A j \in 1 .. m : \/ seen[j] = seen[j - 1] /\ ~ (b[1] < a[j] /\ a[j] < b[n])
                       \/ seen[j] = seen[j - 1] + 1 /\ prev[j] = next[seen[j]]

\* The survivors of two walks along one line: where nothing but survivors lies
\* between the first and the last of the new places, the walks meet there.
LEMMA WalksMeet ==
  ASSUME NEW m \in Nat, NEW n \in Nat, n >= 1, NEW last \in Nat,
         NEW prev, NEW next, NEW line, NEW a, NEW b, NEW seen,
         Walks(m, prev, line, last, a), Walks(n, next, line, last, b),
         Survive(m, n, prev, next, seen, a, b)
  PROVE  \A k \in 1 .. n - 1, j \in 1 .. m : ~ (b[k] < a[j] /\ a[j] < b[k + 1])
<1> USE DEF Walks, Survive
<1>1. 0 \in 0 .. m /\ 0 \in 0 .. n /\ 1 \in 0 .. n /\ n \in 0 .. n /\ 1 \in 1 .. n
  OBVIOUS
<1>2. ASSUME NEW i \in 0 .. m - 1
      PROVE  LET j == i + 1
             IN  /\ i \in 0 .. m /\ j \in 0 .. m /\ j \in 1 .. m /\ j - 1 = i
                 /\ a[i] <= a[j] /\ seen[i] \in 0 .. n /\ seen[j] \in 0 .. n
                 /\ \/ seen[j] = seen[i] /\ ~ (b[1] < a[j] /\ a[j] < b[n])
                    \/ /\ seen[j] = seen[i] + 1 /\ prev[j] = next[seen[j]]
                       /\ seen[j] \in 1 .. n /\ seen[j] - 1 = seen[i]
  <2> DEFINE j == i + 1
  <2>1. i \in 0 .. m /\ j \in 0 .. m /\ j \in 1 .. m /\ j - 1 = i /\ i <= j
    OBVIOUS
  <2> HIDE DEF j
  <2>2. a[i] <= a[j] /\ seen[i] \in 0 .. n /\ seen[j] \in 0 .. n
    BY <2>1
  <2>3. \/ seen[j] = seen[i] /\ ~ (b[1] < a[j] /\ a[j] < b[n])
        \/ seen[j] = seen[i] + 1 /\ prev[j] = next[seen[j]]
    BY <2>1
  <2>4. seen[j] = seen[i] + 1 => seen[j] \in 1 .. n /\ seen[j] - 1 = seen[i]
    BY <2>2
  <2>5. QED
    BY <2>1, <2>2, <2>3, <2>4 DEF j
<1>3. \A j \in 0 .. m : b[seen[j]] <= a[j]
  <2> DEFINE T == {j \in 0 .. m : b[seen[j]] <= a[j]}
  <2>1. 0 \in T
    BY <1>1
  <2>2. ASSUME NEW i \in 0 .. m - 1, i \in T PROVE i + 1 \in T
    <3> DEFINE j == i + 1
    <3>1. /\ i \in 0 .. m /\ j \in 0 .. m /\ j \in 1 .. m /\ j - 1 = i
          /\ a[i] <= a[j] /\ seen[i] \in 0 .. n /\ seen[j] \in 0 .. n
          /\ \/ seen[j] = seen[i]
             \/ /\ seen[j] = seen[i] + 1 /\ prev[j] = next[seen[j]]
                /\ seen[j] \in 1 .. n /\ seen[j] - 1 = seen[i]
      BY <1>2
    <3>2. b[seen[i]] <= a[i]
      BY <2>2
    <3> HIDE DEF j, T
    <3>3. a[i] \in Int /\ a[j] \in Int /\ b[seen[i]] \in Int
      BY <3>1
    <3>4. b[seen[i]] <= a[j]
      BY <3>1, <3>2, <3>3
    <3>5. CASE seen[j] = seen[i] + 1
      <4>1. seen[j] \in 1 .. n /\ seen[j] - 1 = seen[i] /\ prev[j] = next[seen[j]]
        BY <3>1, <3>5
      <4>2. a[j] <= last /\ line[a[j]] = next[seen[j]]
        BY <3>1, <4>1
      <4>3. a[j] \in b[seen[j] - 1] .. last
        BY <3>3, <3>4, <4>1, <4>2
      <4>4. b[seen[j]] <= a[j]
        BY <4>1, <4>2, <4>3
      <4>5. QED
        BY <3>1, <4>4 DEF T, j
    <3>6. QED
      BY <3>1, <3>4, <3>5 DEF T, j
  <2> HIDE DEF T
  <2>3. 0 .. m \subseteq T
    BY <2>1, <2>2, UpTo
  <2>4. QED
    BY <2>3 DEF T
<1>4. \A j \in 0 .. m : b[1] < a[j] /\ a[j] < b[n] => a[j] <= b[seen[j]]
  <2> DEFINE T == {j \in 0 .. m : b[1] < a[j] /\ a[j] < b[n] => a[j] <= b[seen[j]]}
  <2>1. 0 \in T
    <3>1. b[1] \in Int /\ 1 <= b[1]
      BY <1>1
    <3>2. QED
      BY <1>1, <3>1
  <2>2. ASSUME NEW i \in 0 .. m - 1, i \in T PROVE i + 1 \in T
    <3> DEFINE j == i + 1
               s == seen[j]
    <3>1. /\ i \in 0 .. m /\ j \in 0 .. m /\ j \in 1 .. m /\ j - 1 = i
          /\ a[i] <= a[j] /\ seen[i] \in 0 .. n /\ s \in 0 .. n
          /\ \/ s = seen[i] /\ ~ (b[1] < a[j] /\ a[j] < b[n])
             \/ s = seen[i] + 1 /\ prev[j] = next[s] /\ s \in 1 .. n
      BY <1>2
    <3>2. b[1] < a[i] /\ a[i] < b[n] => a[i] <= b[seen[i]]
      BY <2>2
    <3>3. ASSUME b[1] < a[j], a[j] < b[n] PROVE a[j] <= b[s]
      <4> HIDE DEF s, j, T
      <4>1. s = seen[i] + 1 /\ prev[j] = next[s] /\ s \in 1 .. n
        BY <3>1, <3>3
      <4>2. a[i] \in Int /\ a[j] \in Int /\ b[1] \in Int /\ b[n] \in Int /\ b[s] \in Int /\ b[seen[i]] \in Int
        BY <1>1, <3>1
      <4>3. b[1] <= b[s] /\ b[seen[i]] <= b[s]
        <5>1. 1 <= s /\ seen[i] <= s
          BY <3>1, <4>1
        <5>2. QED
          BY <1>1, <3>1, <5>1
      <4>4. a[i] <= b[s]
        BY <3>1, <3>2, <3>3, <4>2, <4>3
      <4>5. b[s] <= last /\ line[b[s]] = prev[j]
        BY <4>1
      <4>6. b[s] \in a[j - 1] .. last
        BY <3>1, <4>2, <4>4, <4>5
      <4>7. QED
        BY <3>1, <4>5, <4>6
    <3> HIDE DEF s
    <3>4. QED
      BY <3>1, <3>3 DEF s
  <2> HIDE DEF T
  <2>3. 0 .. m \subseteq T
    BY <2>1, <2>2, UpTo
  <2>4. QED
    BY <2>3 DEF T
<1>5. ASSUME NEW k \in 1 .. n - 1, NEW j \in 1 .. m, b[k] < a[j], a[j] < b[k + 1] PROVE FALSE
  <2>1. k \in 0 .. n /\ k + 1 \in 0 .. n /\ j \in 0 .. m /\ 1 <= k /\ k + 1 <= n /\ k \in Int
    OBVIOUS
  <2>2. /\ b[1] \in Int /\ b[k] \in Int /\ b[k + 1] \in Int /\ b[n] \in Int /\ a[j] \in Int
        /\ b[1] <= b[k] /\ b[k + 1] <= b[n] /\ seen[j] \in 0 .. n /\ b[seen[j]] \in Int
    BY <1>1, <2>1
  <2>3. b[1] < a[j] /\ a[j] < b[n]
    BY <1>5, <2>2
  <2>4. a[j] <= b[seen[j]] /\ b[seen[j]] <= a[j]
    BY <1>3, <1>4, <2>1, <2>3
  <2>5. seen[j] <= k \/ k + 1 <= seen[j]
    BY <2>1, <2>2
  <2>6. b[seen[j]] <= b[k] \/ b[k + 1] <= b[seen[j]]
    BY <2>1, <2>2, <2>5
  <2>7. QED
    BY <1>5, <2>2, <2>4, <2>6
<1>6. QED
  BY <1>5

\* What a restore keeps makes no detour: no place the draft lost lies inside it.
LEMMA TrimFits ==
  ASSUME NEW prev \in Seq(Int), NEW next \in Seq(Int), NEW line \in Seq(Int),
         Len(prev) >= 1, Len(next) >= 1, Fitted(prev, line), OnPath(next, line),
         LET b == Anchors(next, line)
         IN  ~ DeadViaInsideKeptSpan(prev, next, line, b[1], b[Len(next)])
  PROVE  LET b == Anchors(next, line)
         IN  Fitted(next, SubSeq(line, b[1], b[Len(next)]))
<1> DEFINE m == Len(prev)
           n == Len(next)
           a == Anchors(prev, line)
           b == Anchors(next, line)
           seen == Seen(next, prev)
           last == Len(line)
<1>1. m \in Nat /\ n \in Nat /\ n >= 1 /\ last \in Nat
  BY LenProperties
<1>2. OnPath(prev, line) /\ Neat(prev, line, a)
  BY DEF Fitted
<1>3. Walks(m, prev, line, last, a) /\ Walks(n, next, line, last, b) /\ Embeds(prev, line, a)
  BY <1>2, AnchorsWalkAlong, AnchorsEmbed
<1>4. /\ seen[0] = 0
      /\ \A j \in 0 .. m : seen[j] \in 0 .. n
      /\ \A j \in 1 .. m : seen[j] = NextSeen(next, prev[j], seen[j - 1])
  BY SeenWalk
<1>5. \A j \in 1 .. m : seen[j] = seen[j - 1] => ~ (b[1] < a[j] /\ a[j] < b[n])
  BY DEF DeadViaInsideKeptSpan
<1> HIDE DEF m, n, a, b, seen, last
<1>6. Survive(m, n, prev, next, seen, a, b)
  <2>1. ASSUME NEW j \in 1 .. m
        PROVE  \/ seen[j] = seen[j - 1] /\ ~ (b[1] < a[j] /\ a[j] < b[n])
               \/ seen[j] = seen[j - 1] + 1 /\ prev[j] = next[seen[j]]
    BY <1>4, <1>5 DEF NextSeen
  <2>2. QED
    BY <1>4, <2>1, Zenon DEF Survive
<1>7. \A k \in 1 .. n - 1, j \in 1 .. m : ~ (b[k] < a[j] /\ a[j] < b[k + 1])
  BY <1>1, <1>3, <1>6, WalksMeet, Zenon
<1>8. ASSUME NEW k \in 1 .. n - 1 PROVE Straight(line, b[k], b[k + 1])
  <2>1. k \in 1 .. n /\ k + 1 \in 1 .. n /\ k \in 0 .. n /\ k + 1 \in 0 .. n /\ k <= k + 1
    BY <1>1
  <2>2. /\ b[k] \in Int /\ 1 <= b[k] /\ b[k + 1] \in Int /\ b[k] <= b[k + 1]
        /\ b[k + 1] <= last
    BY <1>3, <2>1 DEF Walks
  <2>3. b[k] \in 1 .. Len(line) /\ b[k + 1] \in b[k] .. Len(line)
    BY <1>1, <2>2 DEF last
  <2>4. \A j \in 1 .. Len(prev) : ~ (b[k] < a[j] /\ a[j] < b[k + 1])
    BY <1>7 DEF m
  <2>5. QED
    BY <1>2, <1>3, <2>3, <2>4, StraightBetween
<1>9. QED
  BY <1>8, TrimEmbeds DEF b, n

\* What undo or redo keeps of the path runs through the waypoints it restores,
\* over a path that ran through those before it, and makes no detour where that
\* one made none: no via that is gone can have stretched it.
THEOREM RestoredFits ==
  ASSUME NEW S, Unbroken(S), NEW prev \in Seq(S), NEW next \in Seq(S), NEW line \in Seq(S),
         Len(prev) >= 1, Len(next) >= 1, Len(Restored(prev, next, line)) >= 2
  PROVE  LET r == Restored(prev, next, line)
         IN  r \in Seq(S) /\ OnPath(next, r) /\ OnPath(prev, line)
             /\ (Fitted(prev, line) => Fitted(next, r))
<1> DEFINE n == Len(next)
           b == Anchors(next, line)
           r == Restored(prev, next, line)
<1>1. /\ prev \in Seq(Int) /\ next \in Seq(Int) /\ line \in Seq(Int)
      /\ n \in Nat /\ Len(line) \in Nat
  BY IntSeq
<1>2. Len(<<>>) = 0
  BY EmptySeq
<1>3. /\ OnPath(next, line) /\ b[n] > b[1]
      /\ ~ DeadViaInsideKeptSpan(prev, next, line, b[1], b[n])
      /\ r = SubSeq(line, b[1], b[n])
  <2> DEFINE kept == /\ OnPath(next, line) /\ b[n] > b[1]
                     /\ ~ DeadViaInsideKeptSpan(prev, next, line, b[1], b[n])
  <2>1. r = IF kept THEN SubSeq(line, b[1], b[n]) ELSE <<>>
    BY DEF Restored
  <2>2. kept
    <3> HIDE DEF kept
    <3>1. r # <<>>
      BY <1>2
    <3>2. QED
      BY <2>1, <3>1
  <2> HIDE DEF r, b, n
  <2>3. QED
    BY <2>1, <2>2
<1>4. OnPath(prev, line)
  BY <1>3 DEF DeadViaInsideKeptSpan
<1>5. \A k \in 1 .. n : b[k] \in 1 .. Len(line)
  BY <1>1, <1>3, AnchorsEmbed DEF Embeds
<1>6. OnPath(next, SubSeq(line, b[1], b[n]))
  BY <1>1, <1>3, TrimEmbeds
<1>7. Fitted(prev, line) => Fitted(next, SubSeq(line, b[1], b[n]))
  BY <1>1, <1>3, TrimFits
<1> HIDE DEF b, r, n
<1>8. b[1] \in 1 .. Len(line) /\ b[n] \in b[1] .. Len(line)
  <2>1. 1 \in 1 .. n /\ n \in 1 .. n
    BY <1>1 DEF n
  <2>2. b[1] \in 1 .. Len(line) /\ b[n] \in 1 .. Len(line)
    BY <1>5, <2>1
  <2>3. QED
    BY <1>1, <1>3, <2>2, SMTT(30)
<1>9. SubSeq(line, b[1], b[n]) \in Seq(S)
  BY <1>8, SubLine
<1>10. QED
  BY <1>3, <1>4, <1>6, <1>7, <1>9 DEF r

----------------------------------------------------------------------------
(* What a patch splices together.                                          *)

\* A match that goes on as long as it can.
LEMMA LongestMatch ==
  ASSUME NEW m \in Nat, NEW T
  PROVE  \E n \in 0 .. m : (\A i \in 1 .. n : i \in T) /\ (n < m => n + 1 \notin T)
<1>1. SUFFICES ASSUME \A n \in 0 .. m :
                        (\A i \in 1 .. n : i \in T) => n < m /\ n + 1 \in T
               PROVE  FALSE
  OBVIOUS
<1> DEFINE U == {n \in 0 .. m : \A i \in 1 .. n : i \in T}
<1>2. 0 \in U
  OBVIOUS
<1>3. ASSUME NEW n \in 0 .. m - 1, n \in U PROVE n + 1 \in U
  <2>1. n + 1 \in T /\ \A i \in 1 .. n : i \in T
    BY <1>1, <1>3
  <2>2. QED
    BY <2>1
<1> HIDE DEF U
<1>4. 0 .. m \subseteq U
  BY <1>2, <1>3, UpTo
<1>5. m \in U
  BY <1>4
<1>6. QED
  BY <1>1, <1>5 DEF U

LEMMA PrefixMatches ==
  ASSUME NEW a \in Seq(Int), NEW b \in Seq(Int)
  PROVE  LET n == CommonPrefix(a, b)
         IN  /\ n \in Nat /\ n <= Len(a) /\ n <= Len(b)
             /\ \A i \in 1 .. n : a[i] = b[i]
<1> DEFINE m == IF Len(a) < Len(b) THEN Len(a) ELSE Len(b)
           T == {i \in 1 .. m : a[i] = b[i]}
           P(n) == /\ n <= Len(b) /\ \A i \in 1 .. n : a[i] = b[i]
                   /\ n < Len(a) /\ n < Len(b) => a[n + 1] # b[n + 1]
<1>1. Len(a) \in Nat /\ Len(b) \in Nat /\ m \in Nat
  BY LenProperties
<1>2. PICK n \in 0 .. m : (\A i \in 1 .. n : i \in T) /\ (n < m => n + 1 \notin T)
  BY <1>1, LongestMatch, Zenon
<1>3. n \in 0 .. Len(a) /\ P(n)
  <2>1. \A i \in 1 .. n : a[i] = b[i]
    BY <1>2
  <2>2. n < Len(a) /\ n < Len(b) => a[n + 1] # b[n + 1]
    BY <1>1, <1>2
  <2>3. QED
    BY <1>1, <2>1, <2>2
<1>4. CommonPrefix(a, b) = CHOOSE k \in 0 .. Len(a) : P(k)
  BY DEF CommonPrefix
<1> HIDE DEF P
<1>5. CommonPrefix(a, b) \in 0 .. Len(a) /\ P(CommonPrefix(a, b))
  BY <1>3, <1>4, Zenon
<1>6. QED
  BY <1>1, <1>5 DEF P

LEMMA SuffixMatches ==
  ASSUME NEW a \in Seq(Int), NEW b \in Seq(Int), NEW prefix \in Nat,
         prefix <= Len(a), prefix <= Len(b)
  PROVE  LET n == CommonSuffix(a, b, prefix)
         IN  /\ n \in Nat /\ prefix + n <= Len(a) /\ prefix + n <= Len(b)
             /\ \A i \in 1 .. n : a[Len(a) + 1 - i] = b[Len(b) + 1 - i]
<1> DEFINE match(n) == a[Len(a) + 1 - n] = b[Len(b) + 1 - n]
           most == (IF Len(a) < Len(b) THEN Len(a) ELSE Len(b)) - prefix
           T == {i \in 1 .. most : match(i)}
           P(n) == (\A i \in 1 .. n : match(i)) /\ (n < most => ~ match(n + 1))
<1>1. Len(a) \in Nat /\ Len(b) \in Nat /\ most \in Nat
  BY LenProperties
<1>2. PICK n \in 0 .. most : (\A i \in 1 .. n : i \in T) /\ (n < most => n + 1 \notin T)
  BY <1>1, LongestMatch, Zenon
<1>3. P(n)
  <2> HIDE DEF most
  <2>1. \A i \in 1 .. n : match(i)
    BY <1>2
  <2>2. n < most => n + 1 \in 1 .. most
    BY <1>1
  <2> HIDE DEF match
  <2>3. n < most => ~ match(n + 1)
    BY <1>2, <2>2
  <2>4. QED
    BY <2>1, <2>3
<1> HIDE DEF P, most
<1> DEFINE c == CommonSuffix(a, b, prefix)
<1>4. c = CHOOSE k \in 0 .. most : P(k)
  BY DEF CommonSuffix, P, most, match
<1> HIDE DEF c
<1>5. c \in 0 .. most /\ P(c)
  BY <1>3, <1>4, Zenon
<1>6. c \in Nat /\ prefix + c <= Len(a) /\ prefix + c <= Len(b)
  BY <1>1, <1>5 DEF most
<1>7. \A i \in 1 .. c : match(i)
  BY <1>5 DEF P
<1>8. QED
  BY <1>6, <1>7 DEF c, match

\* r runs as p does up to i, then as mid, then as p does from j on: mid starts
\* at the place p was left at, and may end at the place p goes on from.
MiddleFrom(i) == IF i = 0 THEN 0 ELSE i - 1
Spliced(r, p, mid, i, j, off) ==
  LET n == MiddleFrom(i) + Len(mid)
  IN  /\ Len(r) = IF j > Len(p) THEN n ELSE off + Len(p)
      /\ \A x \in 1 .. i : r[x] = p[x]
      /\ \A x \in 1 .. Len(mid) : r[MiddleFrom(i) + x] = mid[x]
      /\ j <= Len(p) => off + j \in n .. n + 1
      /\ j <= Len(p) => \A x \in j .. Len(p) : r[off + x] = p[x]

\* The part of a line a splice keeps of it.
Kept(p, i, j) == IF i > j THEN <<>> ELSE SubSeq(p, i, j)

LEMMA KeptLine ==
  ASSUME NEW S, NEW p \in Seq(S), NEW i \in 1 .. Len(p) + 1, NEW j \in 0 .. Len(p), i <= j + 1
  PROVE  LET q == Kept(p, i, j)
         IN  q \in Seq(S) /\ Len(q) = j - i + 1 /\ \A x \in 1 .. j - i + 1 : q[x] = p[i + x - 1]
<1>1. Len(p) \in Nat /\ i \in Int /\ j \in Int
  BY LenProperties
<1>2. CASE i <= j
  <2>1. i \in 1 .. Len(p) /\ j \in i .. Len(p)
    BY <1>1, <1>2
  <2>2. Kept(p, i, j) = SubSeq(p, i, j)
    BY <1>1, <1>2 DEF Kept
  <2>3. QED
    BY <2>1, <2>2, SubLine
<1>3. CASE i > j
  <2>1. Kept(p, i, j) = <<>> /\ j - i + 1 = 0
    BY <1>1, <1>3 DEF Kept
  <2>2. QED
    BY <2>1
<1>4. QED
  BY <1>1, <1>2, <1>3

LEMMA TailLine ==
  ASSUME NEW S, NEW q \in Seq(S), Len(q) >= 1
  PROVE  Tail(q) \in Seq(S) /\ Len(Tail(q)) = Len(q) - 1
         /\ \A x \in 1 .. Len(q) - 1 : Tail(q)[x] = q[x + 1]
<1>1. q # <<>> /\ Len(q) \in Nat
  BY LenProperties
<1>2. QED
  BY <1>1, HeadTailProperties

LEMMA FrontLine ==
  ASSUME NEW S, NEW q \in Seq(S), Len(q) >= 1
  PROVE  Front(q) \in Seq(S) /\ Len(Front(q)) = Len(q) - 1
         /\ \A x \in 1 .. Len(q) - 1 : Front(q)[x] = q[x]
<1>1. Len(q) \in Nat /\ \A x \in 1 .. Len(q) - 1 : q[x] \in S
  BY LenProperties, ElementOfSeq
<1>2. /\ Front(q) \in Seq(S)
      /\ Len(Front(q)) = IF 1 <= Len(q) - 1 THEN Len(q) - 1 - 1 + 1 ELSE 0
      /\ \A x \in 1 .. Len(q) - 1 - 1 + 1 : Front(q)[x] = q[1 + x - 1]
  BY <1>1, SubSeqProperties DEF Front
<1> DEFINE n == Len(q)
           f == Front(q)
<1>3. n \in Nat /\ n >= 1
  BY <1>1
<1> HIDE DEF n, f
<1>4. f \in Seq(S) /\ Len(f) = n - 1
  <2>1. f \in Seq(S) /\ Len(f) = IF 1 <= n - 1 THEN n - 1 - 1 + 1 ELSE 0
    BY <1>2 DEF n, f
  <2>2. (IF 1 <= n - 1 THEN n - 1 - 1 + 1 ELSE 0) = n - 1
    BY <1>3
  <2>3. QED
    BY <2>1, <2>2
<1>5. ASSUME NEW x \in 1 .. n - 1 PROVE f[x] = q[x]
  <2>1. x \in 1 .. n - 1 - 1 + 1 /\ 1 + x - 1 = x
    BY <1>3
  <2>2. f[x] = q[1 + x - 1]
    BY <1>2, <2>1 DEF n, f
  <2>3. QED
    BY <2>1, <2>2
<1>6. QED
  BY <1>4, <1>5 DEF n, f

LEMMA JoinLines ==
  ASSUME NEW S, NEW b \in Seq(S), NEW w \in Seq(S), NEW a \in Seq(S)
  PROVE  LET r == b \o w \o a
             m == Len(b) + Len(w)
         IN  /\ r \in Seq(S) /\ Len(r) = m + Len(a)
             /\ \A x \in 1 .. Len(b) : r[x] = b[x]
             /\ \A x \in 1 .. Len(w) : r[Len(b) + x] = w[x]
             /\ \A x \in 1 .. Len(a) : r[m + x] = a[x]
<1>1. /\ b \o w \in Seq(S) /\ Len(b \o w) = Len(b) + Len(w)
      /\ \A x \in 1 .. Len(b) + Len(w) :
           (b \o w)[x] = IF x <= Len(b) THEN b[x] ELSE w[x - Len(b)]
  BY ConcatProperties
<1> DEFINE q == b \o w
<1> HIDE DEF q
<1>2. /\ q \o a \in Seq(S) /\ Len(q \o a) = Len(q) + Len(a)
      /\ \A x \in 1 .. Len(q) + Len(a) :
           (q \o a)[x] = IF x <= Len(q) THEN q[x] ELSE a[x - Len(q)]
  BY <1>1, ConcatProperties DEF q
<1> DEFINE r == q \o a
           m == Len(b) + Len(w)
<1>3. Len(b) \in Nat /\ Len(w) \in Nat /\ Len(a) \in Nat
  BY LenProperties
<1> HIDE DEF r
<1>4. Len(q) = m /\ \A x \in 1 .. m : q[x] = IF x <= Len(b) THEN b[x] ELSE w[x - Len(b)]
  BY <1>1 DEF q
<1>5. Len(r) = m + Len(a) /\ \A x \in 1 .. m + Len(a) : r[x] = IF x <= m THEN q[x] ELSE a[x - m]
  BY <1>2, <1>4 DEF r
<1>6. \A x \in 1 .. Len(b) : r[x] = b[x]
  BY <1>3, <1>4, <1>5
<1>7. \A x \in 1 .. Len(w) : r[Len(b) + x] = w[x]
  BY <1>3, <1>4, <1>5
<1>8. \A x \in 1 .. Len(a) : r[m + x] = a[x]
  BY <1>3, <1>5, SMTT(30)
<1>9. QED
  BY <1>2, <1>5, <1>6, <1>7, <1>8 DEF r, q

LEMMA SpliceLine ==
  ASSUME NEW S, NEW p \in Seq(S), NEW patch, NEW i \in 0 .. Len(p), NEW j \in 1 .. Len(p) + 1,
         LET mid == Route(patch.segment)
         IN  /\ mid \in Seq(S) /\ Len(mid) >= 1
             /\ i > 0 => p[i] = mid[1]
             /\ j <= Len(p) => p[j] = mid[Len(mid)],
         patch.before = Kept(p, 1, i), patch.after = Kept(p, j, Len(p))
  PROVE  /\ Splice(patch) \in Seq(S)
         /\ \E off \in Int : Spliced(Splice(patch), p, Route(patch.segment), i, j, off)
<1> DEFINE mid == Route(patch.segment)
           M == Len(mid)
           N == Len(p)
           before == patch.before
           after == patch.after
           head == IF before = <<>> THEN mid ELSE Tail(mid)
           whole == IF after = <<>> \/ head = <<>> THEN head ELSE Front(head)
           cut == IF i = 0 THEN 0 ELSE 1
           A == N - j + 1
           W == IF A = 0 \/ M - cut = 0 THEN M - cut ELSE M - cut - 1
           r == before \o whole \o after
<1>1. M \in Nat /\ M >= 1 /\ N \in Nat /\ i \in Int /\ j \in Int /\ mid \in Seq(S)
  BY LenProperties
<1>2. r = Splice(patch)
  BY DEF Splice
<1>3. before \in Seq(S) /\ Len(before) = i /\ \A x \in 1 .. i : before[x] = p[x]
  <2>1. i \in 0 .. N /\ 1 \in 1 .. N + 1 /\ 1 <= i + 1
    BY <1>1
  <2>2. LET q == Kept(p, 1, i)
        IN  q \in Seq(S) /\ Len(q) = i - 1 + 1 /\ \A x \in 1 .. i - 1 + 1 : q[x] = p[1 + x - 1]
    BY <2>1, KeptLine
  <2>3. i - 1 + 1 = i /\ \A x \in Int : 1 + x - 1 = x
    BY <1>1
  <2> HIDE DEF before
  <2>4. before = Kept(p, 1, i)
    BY DEF before
  <2>5. before \in Seq(S) /\ Len(before) = i /\ \A x \in 1 .. i : before[x] = p[1 + x - 1]
    BY <2>2, <2>3, <2>4
  <2>6. QED
    BY <2>3, <2>5
<1>4. after \in Seq(S) /\ Len(after) = A /\ \A x \in 1 .. A : after[x] = p[j + x - 1]
  <2>1. j \in 1 .. N + 1 /\ N \in 0 .. N /\ j <= N + 1
    BY <1>1
  <2>2. QED
    BY <2>1, KeptLine
<1> HIDE DEF mid, M, N, before, after
<1>5. head \in Seq(S) /\ Len(head) = M - cut /\ \A x \in 1 .. M - cut : head[x] = mid[x + cut]
  <2>1. before = <<>> <=> i = 0
    BY <1>1, <1>3, EmptySeq
  <2>2. CASE i = 0
    BY <1>1, <2>1, <2>2 DEF M
  <2>3. CASE i # 0
    BY <1>1, <2>1, <2>3, TailLine DEF M
  <2>4. QED
    BY <2>2, <2>3
<1>6. cut \in {0, 1} /\ A \in Nat
  BY <1>1 DEF N
<1> HIDE DEF head, A
<1>7. whole \in Seq(S) /\ Len(whole) = W /\ \A x \in 1 .. W : whole[x] = mid[x + cut]
  <2>1. (after = <<>> <=> A = 0) /\ (head = <<>> <=> M - cut = 0)
    BY <1>4, <1>5, EmptySeq
  <2> HIDE DEF cut
  <2>2. CASE A = 0 \/ M - cut = 0
    BY <1>5, <2>1, <2>2
  <2>3. CASE A # 0 /\ M - cut # 0
    <3>1. whole = Front(head) /\ W = M - cut - 1
      BY <2>1, <2>3
    <3>2. Len(head) >= 1
      BY <1>1, <1>5, <1>6, <2>3
    <3>3. Front(head) \in Seq(S) /\ Len(Front(head)) = M - cut - 1
          /\ \A x \in 1 .. M - cut - 1 : Front(head)[x] = head[x]
      BY <1>5, <3>2, FrontLine, ZenonT(30)
    <3>4. \A x \in 1 .. M - cut - 1 : x \in 1 .. M - cut
      BY <1>1, <1>6
    <3> HIDE DEF whole, W
    <3>5. QED
      BY <1>5, <3>1, <3>3, <3>4
  <2>4. QED
    BY <2>2, <2>3
<1>8. W \in Nat /\ W <= M - cut /\ M - cut <= W + 1
      /\ (A = 0 => W = M - cut) /\ (A # 0 /\ W = M - cut => W = 0)
  BY <1>1, <1>6
<1>9. /\ r \in Seq(S) /\ Len(r) = i + W + A
      /\ \A x \in 1 .. i : r[x] = before[x]
      /\ \A x \in 1 .. W : r[i + x] = whole[x]
      /\ \A x \in 1 .. A : r[i + W + x] = after[x]
  <2> HIDE DEF W, whole
  <2>1. /\ r \in Seq(S) /\ Len(r) = Len(before) + Len(whole) + Len(after)
        /\ \A x \in 1 .. Len(before) : r[x] = before[x]
        /\ \A x \in 1 .. Len(whole) : r[Len(before) + x] = whole[x]
        /\ \A x \in 1 .. Len(after) : r[Len(before) + Len(whole) + x] = after[x]
    <3>1. before \in Seq(S) /\ whole \in Seq(S) /\ after \in Seq(S)
      BY <1>3, <1>4, <1>7
    <3>2. r \in Seq(S) /\ Len(r) = Len(before) + Len(whole) + Len(after)
      BY <3>1, JoinLines
    <3>3. \A x \in 1 .. Len(before) : r[x] = before[x]
      BY <3>1, JoinLines
    <3>4. \A x \in 1 .. Len(whole) : r[Len(before) + x] = whole[x]
      BY <3>1, JoinLines
    <3>5. \A x \in 1 .. Len(after) : r[Len(before) + Len(whole) + x] = after[x]
      BY <3>1, JoinLines
    <3>6. QED
      BY <3>2, <3>3, <3>4, <3>5
  <2> HIDE DEF r
  <2>2. Len(before) = i /\ Len(whole) = W /\ Len(after) = A
    BY <1>3, <1>4, <1>7
  <2>3. QED
    BY <2>1, <2>2
<1> HIDE DEF r, W, whole
<1> DEFINE off == i + W - j + 1
           c == MiddleFrom(i)
<1>10. c = i - cut /\ (i = 0 <=> cut = 0)
  BY <1>1 DEF MiddleFrom
<1> HIDE DEF c, cut
<1>11. A = N - j + 1
  BY DEF A
<1>12. Len(r) = IF j > N THEN c + M ELSE off + N
  BY <1>1, <1>6, <1>8, <1>9, <1>10, <1>11
<1>13. \A x \in 1 .. i : r[x] = p[x]
  BY <1>3, <1>9
<1>14. j <= N => off + j \in c + M .. c + M + 1
  BY <1>1, <1>6, <1>8, <1>10, <1>11
<1>15. ASSUME j <= N, NEW x \in j .. N PROVE r[off + x] = p[x]
  <2>1. x - j + 1 \in 1 .. A /\ i + W + (x - j + 1) = off + x /\ j + (x - j + 1) - 1 = x
    BY <1>1, <1>8, <1>11
  <2>2. r[i + W + (x - j + 1)] = after[x - j + 1] /\ after[x - j + 1] = p[j + (x - j + 1) - 1]
    BY <1>4, <1>9, <2>1
  <2>3. QED
    BY <2>1, <2>2
<1>16. ASSUME NEW x \in 1 .. M PROVE r[c + x] = mid[x]
  <2>1. CASE i > 0 /\ x = 1
    <3>1. c + x = i /\ i \in 1 .. i
      BY <1>1, <1>6, <1>10, <2>1
    <3>2. QED
      BY <1>13, <2>1, <3>1 DEF mid
  <2>2. CASE x - cut \in 1 .. W
    <3>1. i + (x - cut) = c + x /\ (x - cut) + cut = x
      BY <1>1, <1>6, <1>10
    <3>2. r[i + (x - cut)] = whole[x - cut] /\ whole[x - cut] = mid[(x - cut) + cut]
      BY <1>7, <1>9, <2>2
    <3>3. QED
      BY <3>1, <3>2
  <2>3. CASE ~ (i > 0 /\ x = 1) /\ x - cut \notin 1 .. W
    <3>1. x - cut >= 1
      BY <1>1, <1>6, <1>10, <2>3
    <3>2. x - cut = M - cut /\ W = M - cut - 1 /\ A # 0
      BY <1>1, <1>6, <1>8, <2>3, <3>1
    <3>3. x = M /\ c + x = off + j /\ j <= N /\ j \in j .. N
      BY <1>1, <1>6, <1>8, <1>10, <1>11, <3>2
    <3>4. r[off + j] = p[j] /\ p[j] = mid[M]
      BY <1>15, <3>3 DEF mid, M, N
    <3>5. QED
      BY <3>3, <3>4
  <2>4. QED
    BY <2>1, <2>2, <2>3
<1>17. off \in Int
  BY <1>1, <1>8
<1> HIDE DEF off
<1>18. Spliced(r, p, mid, i, j, off)
  BY <1>12, <1>13, <1>14, <1>15, <1>16 DEF Spliced, M, N, c
<1>19. QED
  BY <1>2, <1>9, <1>17, <1>18 DEF mid

----------------------------------------------------------------------------
(* The path a segment is spliced into.                                     *)

\* e runs through the n places of w along p, up to its index last.
Runs(n, w, p, last, e) ==
  /\ \A k \in 1 .. n : e[k] \in 1 .. last /\ p[e[k]] = w[k]
  /\ \A i, k \in 1 .. n : i <= k => e[i] <= e[k]

\* The first places of both lists are the same, and so are their last ones.
Around(prefix, suffix, m, n, prev, next) ==
  /\ prefix + suffix <= m /\ prefix + suffix <= n
  /\ \A k \in 1 .. prefix : prev[k] = next[k]
  /\ \A k \in 1 .. suffix : prev[m + 1 - k] = next[n + 1 - k]

\* The legs a patch routes, from one stop to another.
FirstStop(prefix) == IF prefix = 0 THEN 1 ELSE prefix
LastStop(suffix, n) == n - (IF suffix = 0 THEN 0 ELSE suffix - 1)

\* Where the stops of the new list lie along the spliced line.
Stops(n, from, to, c, off, gap, a, e) ==
  [k \in 1 .. n |-> IF k < from THEN a[k]
                    ELSE IF k <= to THEN c + e[k - from + 1] ELSE off + a[k - gap]]

\* What is kept of p around the legs from from to to.
KeptTo(prefix, a) == IF prefix = 0 THEN 0 ELSE a[prefix]
KeptFrom(suffix, m, last, a) == IF suffix = 0 THEN last + 1 ELSE a[LastStop(suffix, m)]

\* e runs through the stops of next from from to to, and over all of mid.
RunsOver(e, mid, next, from, to) ==
  /\ \A x \in 1 .. to - from + 1 : e[x] \in 1 .. Len(mid) /\ mid[e[x]] = next[from + x - 1]
  /\ \A x, y \in 1 .. to - from + 1 : x <= y => e[x] <= e[y]
  /\ e[1] = 1 /\ e[to - from + 1] = Len(mid)

\* r is p patched for the new list: prefix and suffix places are kept, and e
\* runs over the legs between them.
PatchedLine(prefix, suffix, m, n, prev, next, p, mid, r, a, e, off) ==
  LET from == FirstStop(prefix)
      to == LastStop(suffix, n)
  IN  /\ Len(p) \in Nat /\ Len(mid) \in Nat /\ from < to
      /\ Around(prefix, suffix, m, n, prev, next) /\ Runs(m, prev, p, Len(p), a)
      /\ RunsOver(e, mid, next, from, to)
      /\ Spliced(r, p, mid, KeptTo(prefix, a), KeptFrom(suffix, m, Len(p), a), off)

LEMMA SpliceStops ==
  ASSUME NEW m \in Nat, NEW n \in Nat, NEW prefix \in Nat, NEW suffix \in Nat, NEW off \in Int,
         NEW prev, NEW next, NEW p, NEW mid, NEW r, NEW a, NEW e,
         PatchedLine(prefix, suffix, m, n, prev, next, p, mid, r, a, e, off)
  PROVE  LET from == FirstStop(prefix)
             to == LastStop(suffix, n)
             i == KeptTo(prefix, a)
             j == KeptFrom(suffix, m, Len(p), a)
             c == MiddleFrom(i)
             f == Stops(n, from, to, c, off, n - m, a, e)
         IN  /\ Runs(n, next, r, Len(r), f)
             /\ \A k \in 1 .. from - 1 : f[k] = a[k]
             /\ \A k \in from .. to : f[k] = c + e[k - from + 1]
             /\ \A k \in to + 1 .. n : f[k] = off + a[k - (n - m)] /\ k - (n - m) \in 1 .. m
             /\ prefix > 0 => f[from] = a[from] /\ from <= m /\ a[from] = i /\ i \in 1 .. Len(p)
             /\ f[from] = c + 1 /\ f[to] = c + Len(mid)
             /\ suffix > 0 => to - (n - m) \in 1 .. m /\ a[to - (n - m)] = j /\ j \in 1 .. Len(p)
             /\ from \in 1 .. n /\ to \in 1 .. n /\ c \in Nat
<1> DEFINE from == FirstStop(prefix)
           to == LastStop(suffix, n)
           last == Len(p)
           i == KeptTo(prefix, a)
           j == KeptFrom(suffix, m, last, a)
           c == MiddleFrom(i)
           gap == n - m
           f == Stops(n, from, to, c, off, gap, a, e)
           M == Len(mid)
           end == Len(r)
<1>0. /\ Len(p) \in Nat /\ Len(mid) \in Nat /\ from < to
      /\ Around(prefix, suffix, m, n, prev, next) /\ Runs(m, prev, p, Len(p), a)
      /\ RunsOver(e, mid, next, from, to) /\ Spliced(r, p, mid, i, j, off)
  BY DEF PatchedLine
<1> HIDE DEF from, to, last, i, j, c, f, M, end
<1>1. /\ \A x \in 1 .. to - from + 1 : e[x] \in 1 .. M /\ mid[e[x]] = next[from + x - 1]
      /\ \A x, y \in 1 .. to - from + 1 : x <= y => e[x] <= e[y]
      /\ e[1] = 1 /\ e[to - from + 1] = M
  BY <1>0 DEF RunsOver, M
<1>2. /\ end = IF j > last THEN c + M ELSE off + last
      /\ \A x \in 1 .. i : r[x] = p[x]
      /\ \A x \in 1 .. M : r[c + x] = mid[x]
      /\ j <= last => off + j \in c + M .. c + M + 1
      /\ j <= last => \A x \in j .. last : r[off + x] = p[x]
  BY <1>0 DEF Spliced, M, last, end, c
<1>3. \A k \in 1 .. n : f[k] = IF k < from THEN a[k]
                              ELSE IF k <= to THEN c + e[k - from + 1] ELSE off + a[k - gap]
  BY DEF Stops, f
<1>4. last \in Nat /\ M \in Nat /\ from < to
  BY <1>0 DEF last, M
<1>5. /\ prefix + suffix <= m /\ prefix + suffix <= n
      /\ \A k \in 1 .. prefix : prev[k] = next[k]
      /\ \A k \in 1 .. suffix : prev[m + 1 - k] = next[n + 1 - k]
  BY <1>0 DEF Around
<1>6. /\ \A k \in 1 .. m : a[k] \in 1 .. last /\ p[a[k]] = prev[k]
      /\ \A x, k \in 1 .. m : x <= k => a[x] <= a[k]
  BY <1>0 DEF Runs, last
<1>7. /\ from \in 1 .. n /\ to \in 1 .. n /\ from \in Int /\ to \in Int
      /\ prefix > 0 => from = prefix /\ from <= m
      /\ prefix = 0 => from = 1
      /\ suffix > 0 => to = n - suffix + 1 /\ to - gap = m - suffix + 1 /\ to - gap \in 1 .. m
      /\ suffix = 0 => to = n
  BY <1>4, <1>5 DEF FirstStop, LastStop, from, to
<1>8. prefix > 0 => i = a[from] /\ i \in 1 .. last /\ c = i - 1
  BY <1>6, <1>7 DEF KeptTo, MiddleFrom, i, c
<1>9. prefix = 0 => i = 0 /\ c = 0
  BY DEF KeptTo, MiddleFrom, i, c
<1>10. suffix > 0 => j = a[to - gap] /\ j \in 1 .. last
  <2>1. LastStop(suffix, m) = to - gap
    BY <1>7 DEF LastStop, to
  <2>2. QED
    BY <1>6, <1>7, <2>1 DEF KeptFrom, j
<1>11. suffix = 0 => j = last + 1
  BY DEF KeptFrom, j
<1> HIDE DEF gap
<1>12. c \in Nat /\ i \in Nat /\ (i > 0 <=> prefix > 0) /\ (j <= last <=> suffix > 0) /\ j \in Int
  BY <1>4, <1>8, <1>9, <1>10, <1>11
<1>13. c + M <= end /\ end \in Int /\ (suffix > 0 => end = off + last)
  BY <1>2, <1>4, <1>10, <1>11, <1>12
<1>14. 1 \in 1 .. to - from + 1 /\ to - from + 1 \in 1 .. to - from + 1 /\ M >= 1
  BY <1>1, <1>4, <1>7
<1>15. ASSUME NEW k \in 1 .. from - 1
       PROVE  /\ f[k] = a[k] /\ k \in 1 .. m /\ a[k] \in 1 .. i /\ i <= c + M
              /\ r[f[k]] = next[k] /\ f[k] \in 1 .. end
  <2>1. k \in 1 .. n /\ k < from /\ prefix > 0 /\ k \in 1 .. m /\ k \in 1 .. prefix /\ from \in 1 .. m
    BY <1>7
  <2>2. f[k] = a[k]
    BY <1>3, <2>1
  <2>3. a[k] \in 1 .. last /\ a[k] <= a[from] /\ p[a[k]] = prev[k] /\ prev[k] = next[k]
    BY <1>5, <1>6, <1>7, <2>1
  <2>4. a[k] \in 1 .. i /\ i <= c + M
    BY <1>4, <1>8, <1>12, <1>14, <2>1, <2>3
  <2>5. QED
    BY <1>2, <1>4, <1>12, <1>13, <2>1, <2>2, <2>3, <2>4
<1>16. ASSUME NEW k \in from .. to
       PROVE  /\ k \in 1 .. n /\ k - from + 1 \in 1 .. to - from + 1
              /\ f[k] = c + e[k - from + 1] /\ e[k - from + 1] \in 1 .. M
              /\ r[f[k]] = next[k] /\ f[k] \in 1 .. end
  <2>1. k \in 1 .. n /\ ~ (k < from) /\ k <= to /\ k - from + 1 \in 1 .. to - from + 1
        /\ from + (k - from + 1) - 1 = k
    BY <1>7
  <2>2. f[k] = c + e[k - from + 1]
    BY <1>3, <2>1
  <2>3. e[k - from + 1] \in 1 .. M /\ mid[e[k - from + 1]] = next[k]
    BY <1>1, <2>1
  <2>4. QED
    BY <1>2, <1>4, <1>12, <1>13, <2>1, <2>2, <2>3
<1>17. ASSUME NEW k \in to + 1 .. n
       PROVE  /\ suffix > 0 /\ k \in 1 .. n
              /\ f[k] = off + a[k - gap] /\ k - gap \in 1 .. m
              /\ a[k - gap] \in j .. last
              /\ r[f[k]] = next[k] /\ f[k] \in 1 .. end
  <2>1. suffix > 0 /\ k \in 1 .. n /\ ~ (k < from) /\ ~ (k <= to)
    BY <1>4, <1>7
  <2>2. f[k] = off + a[k - gap]
    BY <1>3, <2>1
  <2> DEFINE x == n + 1 - k
  <2>3. x \in 1 .. suffix /\ m + 1 - x = k - gap /\ n + 1 - x = k /\ k - gap \in 1 .. m
        /\ to - gap <= k - gap
    BY <1>5, <1>7, <2>1 DEF gap
  <2> HIDE DEF x
  <2>4. prev[k - gap] = next[k]
    BY <1>5, <2>3
  <2>5. a[k - gap] \in 1 .. last /\ p[a[k - gap]] = prev[k - gap] /\ j <= a[k - gap]
    BY <1>6, <1>7, <1>10, <2>1, <2>3
  <2>6. a[k - gap] \in j .. last
    BY <1>10, <2>1, <2>5
  <2>7. r[f[k]] = next[k]
    BY <1>2, <1>12, <2>1, <2>2, <2>4, <2>5, <2>6
  <2>8. off + j \in c + M .. c + M + 1
    BY <1>2, <1>12, <2>1
  <2>9. f[k] \in 1 .. end
    BY <1>4, <1>10, <1>12, <1>13, <1>14, <2>1, <2>2, <2>6, <2>8
  <2>10. QED
    BY <2>1, <2>2, <2>3, <2>6, <2>7, <2>9
<1>18. f[from] = c + 1 /\ f[to] = c + M
  <2>1. from \in from .. to /\ to \in from .. to /\ from - from + 1 = 1
    BY <1>4, <1>7
  <2>2. QED
    BY <1>1, <1>16, <2>1
<1>19. prefix > 0 => f[from] = a[from] /\ from <= m /\ a[from] = i
  BY <1>7, <1>8, <1>18
<1>20. \A k \in 1 .. n : k \in 1 .. from - 1 \/ k \in from .. to \/ k \in to + 1 .. n
  BY <1>7
<1>21. \A k \in 1 .. n : f[k] \in 1 .. end /\ r[f[k]] = next[k]
  BY <1>15, <1>16, <1>17, <1>20
<1>22. ASSUME NEW k \in 1 .. n - 1 PROVE f[k] <= f[k + 1]
  <2>1. k \in Int /\ k + 1 \in Int
    OBVIOUS
  <2>2. CASE k + 1 < from
    <3>1. k \in 1 .. from - 1 /\ k + 1 \in 1 .. from - 1 /\ k <= k + 1
      BY <1>7, <2>2
    <3>2. f[k] = a[k] /\ f[k + 1] = a[k + 1] /\ k \in 1 .. m /\ k + 1 \in 1 .. m
      BY <1>15, <3>1
    <3>3. QED
      BY <1>6, <3>1, <3>2
  <2>3. CASE k + 1 = from
    <3>1. k \in 1 .. from - 1 /\ prefix > 0
      BY <1>7, <2>3
    <3>2. f[k] = a[k] /\ a[k] \in 1 .. i /\ f[k + 1] = i
      BY <1>15, <1>19, <2>3, <3>1
    <3>3. QED
      BY <1>12, <3>2
  <2>4. CASE from <= k /\ k < to
    <3> DEFINE x == k - from + 1
               y == (k + 1) - from + 1
    <3>1. k \in from .. to /\ k + 1 \in from .. to /\ x <= y
      BY <1>7, <2>4
    <3>2. /\ f[k] = c + e[x] /\ f[k + 1] = c + e[y] /\ e[x] \in 1 .. M /\ e[y] \in 1 .. M
          /\ x \in 1 .. to - from + 1 /\ y \in 1 .. to - from + 1
      BY <1>16, <3>1
    <3> HIDE DEF x, y
    <3>3. e[x] <= e[y]
      BY <1>1, <3>1, <3>2
    <3>4. QED
      BY <1>4, <1>12, <3>2, <3>3
  <2>5. CASE k = to
    <3>1. k + 1 \in to + 1 .. n
      BY <1>7, <2>5
    <3>2. PICK x \in to + 1 .. n : x = k + 1
      BY <3>1
    <3>3. suffix > 0 /\ f[x] = off + a[x - gap] /\ a[x - gap] \in j .. last
      BY <1>17
    <3>4. f[k] = c + M
      BY <1>18, <2>5
    <3>5. off + j \in c + M .. c + M + 1
      BY <1>2, <1>12, <3>3
    <3>6. QED
      BY <1>4, <1>12, <3>2, <3>3, <3>4, <3>5
  <2>6. CASE to < k
    <3>1. k \in to + 1 .. n /\ k + 1 \in to + 1 .. n
      BY <1>7, <2>6
    <3>2. PICK x \in to + 1 .. n : x = k + 1
      BY <3>1
    <3>3. /\ f[k] = off + a[k - gap] /\ f[x] = off + a[x - gap]
          /\ k - gap \in 1 .. m /\ x - gap \in 1 .. m
      BY <1>17, <3>1
    <3>4. k - gap <= x - gap
      BY <3>2 DEF gap
    <3>5. a[k - gap] <= a[x - gap] /\ a[k - gap] \in Int /\ a[x - gap] \in Int
      BY <1>6, <3>3, <3>4
    <3>6. QED
      BY <3>2, <3>3, <3>5
  <2>7. k + 1 < from \/ k + 1 = from \/ (from <= k /\ k < to) \/ k = to \/ to < k
    BY <1>7, <2>1
  <2>8. QED
    BY <2>2, <2>3, <2>4, <2>5, <2>6, <2>7, Zenon
<1>23. \A x, k \in 1 .. n : x <= k => f[x] <= f[k]
  <2>1. \A k \in 1 .. n : f[k] \in Int
    BY <1>13, <1>21
  <2>2. 1 \in Nat
    OBVIOUS
  <2>3. QED
    BY <1>22, <2>1, <2>2, Ascending, Zenon
<1>24. Runs(n, next, r, end, f)
  BY <1>21, <1>23 DEF Runs
<1>25. /\ \A k \in 1 .. from - 1 : f[k] = a[k]
       /\ \A k \in from .. to : f[k] = c + e[k - from + 1]
       /\ \A k \in to + 1 .. n : f[k] = off + a[k - gap] /\ k - gap \in 1 .. m
  BY <1>15, <1>16, <1>17, Zenon
<1>26. suffix > 0 => to - gap \in 1 .. m /\ a[to - gap] = j /\ j \in 1 .. last
  BY <1>7, <1>10
<1>27. prefix > 0 => f[from] = a[from] /\ from <= m /\ a[from] = i /\ i \in 1 .. last
  BY <1>8, <1>19
<1>28. QED
  BY <1>7, <1>12, <1>18, <1>24, <1>25, <1>26, <1>27 DEF gap, last, M, end, from, to, i, j, c, f

\* A stretch that one line copies from another is as straight there.
LEMMA CopiedStretch ==
  ASSUME NEW q, NEW r, NEW i \in Int, NEW j \in Int, NEW d \in Int,
         \A x \in i .. j : r[d + x] = q[x]
  PROVE  /\ Straight(q, i, j) => Straight(r, d + i, d + j)
         /\ Still(q, i, j) => Still(r, d + i, d + j)
<1>1. ASSUME NEW x \in d + i .. d + j PROVE x - d \in i .. j /\ r[x] = q[x - d] /\ x \in Int
  <2>1. x - d \in i .. j /\ d + (x - d) = x /\ x \in Int
    OBVIOUS
  <2>2. QED
    BY <2>1
<1>2. \A x, y \in d + i .. d + j : x <= y => x - d <= y - d
  OBVIOUS
<1>3. Rises(q, i, j) => Rises(r, d + i, d + j)
  BY <1>1, <1>2 DEF Rises
<1>4. Falls(q, i, j) => Falls(r, d + i, d + j)
  BY <1>1, <1>2 DEF Falls
<1>5. Still(q, i, j) => Still(r, d + i, d + j)
  BY <1>1 DEF Still
<1>6. QED
  BY <1>3, <1>4, <1>5 DEF Straight

LEMMA SameStretch ==
  ASSUME NEW q, NEW r, NEW i \in Int, NEW j \in Int, \A x \in i .. j : r[x] = q[x]
  PROVE  (Straight(q, i, j) => Straight(r, i, j)) /\ (Still(q, i, j) => Still(r, i, j))
BY DEF Straight, Rises, Falls, Still

\* A line patched between stretches without detours makes none.
LEMMA SpliceNeat ==
  ASSUME NEW prefix \in Nat, NEW suffix \in Nat, NEW off \in Int,
         NEW prev, NEW next, NEW seg, NEW p, NEW mid, NEW r \in Seq(Int), NEW a, NEW e,
         Len(prev) \in Nat, Len(next) \in Nat,
         PatchedLine(prefix, suffix, Len(prev), Len(next), prev, next, p, mid, r, a, e, off),
         Len(seg) = LastStop(suffix, Len(next)) - FirstStop(prefix) + 1,
         Neat(prev, p, a), Neat(seg, mid, e)
  PROVE  Neat(next, r, Stops(Len(next), FirstStop(prefix), LastStop(suffix, Len(next)),
                             MiddleFrom(KeptTo(prefix, a)), off, Len(next) - Len(prev), a, e))
<1> DEFINE m == Len(prev)
           n == Len(next)
           from == FirstStop(prefix)
           to == LastStop(suffix, n)
           last == Len(p)
           i == KeptTo(prefix, a)
           j == KeptFrom(suffix, m, last, a)
           c == MiddleFrom(i)
           gap == n - m
           f == Stops(n, from, to, c, off, gap, a, e)
           M == Len(mid)
           end == Len(r)
<1>1. m \in Nat /\ n \in Nat
  OBVIOUS
<1>2. /\ last \in Nat /\ M \in Nat /\ from < to
      /\ Around(prefix, suffix, m, n, prev, next) /\ Runs(m, prev, p, last, a)
      /\ RunsOver(e, mid, next, from, to) /\ Spliced(r, p, mid, i, j, off)
  BY DEF PatchedLine
<1>3. /\ Runs(n, next, r, end, f)
      /\ \A k \in 1 .. from - 1 : f[k] = a[k]
      /\ \A k \in from .. to : f[k] = c + e[k - from + 1]
      /\ \A k \in to + 1 .. n : f[k] = off + a[k - gap] /\ k - gap \in 1 .. m
      /\ prefix > 0 => f[from] = a[from] /\ from <= m /\ a[from] = i /\ i \in 1 .. last
      /\ f[from] = c + 1 /\ f[to] = c + M
      /\ suffix > 0 => to - gap \in 1 .. m /\ a[to - gap] = j /\ j \in 1 .. last
      /\ from \in 1 .. n /\ to \in 1 .. n /\ c \in Nat
  BY <1>1, SpliceStops
<1>4. /\ Still(p, 1, a[1]) /\ Still(p, a[m], last)
      /\ \A k \in 1 .. m - 1 : Straight(p, a[k], a[k + 1])
  BY DEF Neat
<1>5. \A x \in 1 .. to - from : Straight(mid, e[x], e[x + 1])
  <2>1. from \in Int /\ to \in Int /\ Len(seg) = to - from + 1
    BY <1>3
  <2>2. \A x \in 1 .. Len(seg) - 1 : Straight(mid, e[x], e[x + 1])
    BY DEF Neat
  <2>3. Len(seg) - 1 = to - from
    BY <2>1
  <2>4. QED
    BY <2>2, <2>3
<1>6. /\ prefix = 0 => from = 1 /\ i = 0 /\ c = 0
      /\ prefix > 0 => from = prefix
      /\ suffix = 0 => to = n /\ j = last + 1
      /\ suffix > 0 => to = n - suffix + 1 /\ gap = n - m
  BY DEF FirstStop, LastStop, KeptTo, KeptFrom, MiddleFrom
<1>7. gap \in Int /\ gap = n - m
  BY <1>1
<1> HIDE DEF m, n, from, to, last, i, j, c, gap, f, M, end
<1>8. /\ end = IF j > last THEN c + M ELSE off + last
      /\ \A x \in 1 .. i : r[x] = p[x]
      /\ \A x \in 1 .. M : r[c + x] = mid[x]
      /\ j <= last => off + j \in c + M .. c + M + 1
      /\ j <= last => \A x \in j .. last : r[off + x] = p[x]
  BY <1>2 DEF Spliced, last, M, end, c
<1>9. /\ \A k \in 1 .. m : a[k] \in 1 .. last /\ p[a[k]] = prev[k]
      /\ \A x, k \in 1 .. m : x <= k => a[x] <= a[k]
  BY <1>2 DEF Runs
<1>10. /\ \A k \in 1 .. n : f[k] \in 1 .. end /\ r[f[k]] = next[k]
       /\ \A x, k \in 1 .. n : x <= k => f[x] <= f[k]
  BY <1>3 DEF Runs
<1>11. /\ \A x \in 1 .. to - from + 1 : e[x] \in 1 .. M
       /\ e[1] = 1
  BY <1>2 DEF RunsOver, M
<1>12. end \in Nat /\ from \in Int /\ to \in Int
  BY <1>3, LenProperties DEF end

\* Where the middle ends the kept rest begins, at the same place.
<1>13. ASSUME suffix > 0 PROVE Still(r, c + M, off + j) /\ off + j \in c + M .. c + M + 1
                             /\ j \in 1 .. last /\ end = off + last
  <2>1. j \in 1 .. last /\ to - gap \in 1 .. m /\ a[to - gap] = j /\ f[to] = c + M
    BY <1>3, <1>13
  <2>2. j \in j .. last /\ j <= last /\ j \in Int
    BY <1>2, <2>1
  <2>3. r[off + j] = p[j] /\ off + j \in c + M .. c + M + 1 /\ end = off + last
    BY <1>2, <1>8, <2>2
  <2>4. p[j] = prev[to - gap] /\ r[c + M] = next[to]
    BY <1>3, <1>9, <1>10, <2>1
  <2>5. prev[to - gap] = next[to]
    <3>1. suffix \in 1 .. suffix /\ m + 1 - suffix = to - gap /\ n + 1 - suffix = to
      BY <1>1, <1>6, <1>7, <1>13
    <3>2. prev[m + 1 - suffix] = next[n + 1 - suffix]
      BY <1>2, <3>1 DEF Around
    <3>3. QED
      BY <3>1, <3>2
  <2>6. r[c + M] = r[off + j]
    BY <2>3, <2>4, <2>5
  <2>7. \A x \in c + M .. off + j : x = c + M \/ x = off + j
    BY <1>2, <1>3, <2>2, <2>3
  <2>8. Still(r, c + M, off + j)
    BY <2>6, <2>7 DEF Still
  <2>9. QED
    BY <2>1, <2>3, <2>8
<1>14. ASSUME NEW k \in 1 .. n - 1 PROVE Straight(r, f[k], f[k + 1])
  <2>1. k \in Int /\ k + 1 \in Int /\ k \in 1 .. n /\ k + 1 \in 1 .. n
    BY <1>1
  <2>2. CASE k + 1 <= from
    <3>1. prefix > 0 /\ from <= m /\ a[from] = i /\ i \in 1 .. last
      BY <1>3, <1>6, <2>1, <2>2
    <3>2. k \in 1 .. from - 1 /\ k \in 1 .. m /\ k + 1 \in 1 .. m /\ k \in 1 .. m - 1 /\ from \in 1 .. m
      BY <1>1, <1>12, <2>1, <2>2, <3>1
    <3>3. f[k] = a[k] /\ f[k + 1] = a[k + 1]
      <4>1. CASE k + 1 = from
        BY <1>3, <3>1, <3>2, <4>1
      <4>2. CASE k + 1 # from
        <5>1. k + 1 \in 1 .. from - 1
          BY <1>12, <2>1, <2>2, <4>2
        <5>2. QED
          BY <1>3, <3>2, <5>1
      <4>3. QED
        BY <4>1, <4>2
    <3>4. a[k] \in 1 .. last /\ a[k + 1] \in 1 .. last /\ a[k + 1] <= i
      BY <1>9, <2>2, <3>1, <3>2
    <3>5. \A x \in a[k] .. a[k + 1] : r[x] = p[x]
      BY <1>8, <3>1, <3>4, SMTT(30)
    <3>6. Straight(p, a[k], a[k + 1])
      BY <1>4, <3>2
    <3>7. a[k] \in Int /\ a[k + 1] \in Int
      BY <3>4
    <3>8. QED
      BY <3>3, <3>5, <3>6, <3>7, SameStretch
  <2>3. CASE from <= k /\ k < to
    <3> DEFINE x == k - from + 1
    <3>1. k \in from .. to /\ k + 1 \in from .. to /\ x \in 1 .. to - from /\ (k + 1) - from + 1 = x + 1
          /\ x \in 1 .. to - from + 1 /\ x + 1 \in 1 .. to - from + 1
      BY <1>12, <2>1, <2>3
    <3>2. f[k] = c + e[x] /\ f[k + 1] = c + e[(k + 1) - from + 1]
      BY <1>3, <3>1
    <3> HIDE DEF x
    <3>3. e[x] \in 1 .. M /\ e[x + 1] \in 1 .. M /\ Straight(mid, e[x], e[x + 1])
      BY <1>5, <1>11, <3>1
    <3>4. \A y \in e[x] .. e[x + 1] : r[c + y] = mid[y]
      BY <1>2, <1>8, <3>3
    <3>5. e[x] \in Int /\ e[x + 1] \in Int /\ c \in Int
      BY <1>3, <3>3
    <3>6. Straight(r, c + e[x], c + e[x + 1])
      BY <3>3, <3>4, <3>5, CopiedStretch
    <3>7. QED
      BY <3>1, <3>2, <3>6
  <2>4. CASE to <= k
    <3>1. suffix > 0
      BY <1>6, <1>12, <2>1, <2>4
    <3>2. PICK x \in to + 1 .. n : x = k + 1
      BY <1>12, <2>1, <2>4
    <3>3. f[x] = off + a[x - gap] /\ x - gap \in 1 .. m
      BY <1>3
    <3>4. k - gap \in 1 .. m - 1 /\ k - gap \in 1 .. m /\ (k - gap) + 1 = x - gap
          /\ to - gap <= k - gap /\ to - gap <= x - gap
      BY <1>1, <1>3, <1>7, <1>12, <2>1, <2>4, <3>1, <3>2, <3>3
    <3> DEFINE y == k - gap
               z == x - gap
    <3>5. Straight(p, a[y], a[z])
      BY <1>4, <3>4
    <3>6. a[y] \in 1 .. last /\ a[z] \in 1 .. last /\ j <= a[y] /\ j <= a[z] /\ j \in 1 .. last
      BY <1>3, <1>9, <3>1, <3>3, <3>4
    <3> HIDE DEF y, z
    <3>7. \A t \in a[y] .. a[z] : r[off + t] = p[t]
      <4>1. j <= last /\ \A t \in a[y] .. a[z] : t \in j .. last
        BY <1>2, <3>6, SMTT(30)
      <4>2. QED
        BY <1>8, <4>1
    <3>8. a[y] \in Int /\ a[z] \in Int
      BY <3>6
    <3>9. Straight(r, off + a[y], off + a[z])
      BY <3>5, <3>7, <3>8, CopiedStretch
    <3>10. f[k + 1] = off + a[z]
      BY <3>2, <3>3 DEF z
    <3>11. CASE k = to
      <4>1. f[k] = c + M /\ a[y] = j
        BY <1>3, <3>1, <3>11 DEF y
      <4>2. Still(r, c + M, off + j) /\ off + j \in c + M .. c + M + 1
        BY <1>13, <3>1
      <4>3. f[k] \in 1 .. end /\ f[k + 1] \in 1 .. end /\ f[k] <= f[k + 1]
        BY <1>10, <2>1
      <4>4. c + M \in 1 .. Len(r) /\ off + j \in c + M .. Len(r) /\ off + a[z] \in off + j .. Len(r)
        <5>1. c + M \in 1 .. end /\ off + a[z] \in 1 .. end
          BY <3>10, <4>1, <4>3
        <5>2. /\ off \in Int /\ j \in Int /\ a[z] \in Int /\ j <= a[z] /\ end \in Int
              /\ c \in Int /\ M \in Int
          <6>1. M \in Int
            BY <1>2 DEF M
          <6>2. c \in Int
            BY <1>3
          <6>3. a[z] \in Int /\ j <= a[z] /\ j \in Int
            BY <3>6
          <6>4. QED
            BY <1>12, <6>1, <6>2, <6>3
        <5>3. off + j \in c + M .. end /\ off + a[z] \in off + j .. end
          BY <4>2, <5>1, <5>2, SMTT(30)
        <5>4. QED
          BY <5>1, <5>3 DEF end
      <4>5. Straight(r, c + M, off + a[z])
        BY <3>9, <4>1, <4>2, <4>4, StillThenStraight
      <4>6. QED
        BY <3>10, <4>1, <4>5
    <3>12. CASE k # to
      <4>1. k \in to + 1 .. n
        BY <1>12, <2>1, <2>4, <3>12
      <4>2. f[k] = off + a[y]
        BY <1>3, <4>1 DEF y
      <4>3. QED
        BY <3>9, <3>10, <4>2
    <3>13. QED
      BY <3>11, <3>12
  <2>5. QED
    BY <1>12, <2>1, <2>2, <2>3, <2>4
<1>15. Still(r, 1, f[1])
  <2>1. CASE prefix = 0
    <3>1. f[1] = 1
      BY <1>3, <1>6, <2>1
    <3>2. QED
      BY <3>1 DEF Still
  <2>2. CASE prefix > 0
    <3>1. from \in 1 .. m /\ 1 \in 1 .. m /\ 1 <= from /\ a[from] = i /\ i \in 1 .. last
      BY <1>1, <1>3, <1>12, <2>2
    <3>2. f[1] = a[1]
      <4>1. CASE from = 1
        BY <1>3, <2>2, <4>1
      <4>2. CASE from # 1
        <5>1. 1 \in 1 .. from - 1
          BY <3>1, <4>2
        <5>2. QED
          BY <1>3, <5>1
      <4>3. QED
        BY <4>1, <4>2
    <3>3. a[1] \in 1 .. last /\ a[1] <= i
      BY <1>9, <3>1
    <3>4. \A x \in 1 .. a[1] : r[x] = p[x]
      BY <1>8, <3>1, <3>3
    <3>5. a[1] \in Int /\ 1 \in Int
      BY <3>3
    <3>6. QED
      BY <1>4, <3>2, <3>4, <3>5, SameStretch
  <2>3. QED
    BY <2>1, <2>2
<1>16. Still(r, f[n], end)
  <2>1. CASE suffix = 0
    <3>1. f[n] = c + M /\ end = c + M
      BY <1>2, <1>3, <1>6, <1>8, <2>1
    <3>2. QED
      BY <1>12, <3>1 DEF Still
  <2>2. CASE suffix > 0
    <3>1. j \in 1 .. last /\ end = off + last /\ to - gap \in 1 .. m /\ a[to - gap] = j
      BY <1>3, <1>13, <2>2
    <3>2. m \in 1 .. m /\ a[m] \in 1 .. last /\ j <= a[m] /\ to - gap <= m
      BY <1>1, <1>9, <3>1
    <3>3. \A x \in a[m] .. last : r[off + x] = p[x]
      BY <1>2, <1>8, <3>1, <3>2, SMTT(30)
    <3>4. a[m] \in Int /\ last \in Int
      BY <1>2, <3>2
    <3>5. Still(r, off + a[m], off + last)
      BY <1>4, <3>3, <3>4, CopiedStretch
    <3>6. CASE to = n
      <4>1. to - gap = m /\ f[n] = c + M /\ a[m] = j
        BY <1>1, <1>3, <1>7, <3>1, <3>6
      <4>2. Still(r, c + M, off + j) /\ off + j \in c + M .. c + M + 1
        BY <1>13, <2>2
      <4>3. Still(r, off + j, end)
        BY <3>1, <3>5, <4>1
      <4>4. ASSUME NEW x \in c + M .. end PROVE r[x] = r[off + j]
        <5>1. off + j \in c + M .. off + j /\ off + j \in off + j .. end
          BY <1>2, <1>3, <3>1, <4>2
        <5>2. x \in c + M .. off + j \/ x \in off + j .. end
          BY <1>2, <1>3, <1>12, <3>1, <4>2
        <5>3. QED
          BY <4>2, <4>3, <5>1, <5>2 DEF Still
      <4>5. QED
        BY <4>1, <4>4 DEF Still
    <3>7. CASE to # n
      <4>1. n \in to + 1 .. n /\ n - gap = m
        BY <1>1, <1>3, <1>7, <1>12, <3>7
      <4>2. f[n] = off + a[m]
        BY <1>3, <4>1
      <4>3. QED
        BY <3>1, <3>5, <4>2
    <3>8. QED
      BY <3>6, <3>7
  <2>3. QED
    BY <2>1, <2>2
<1>17. Neat(next, r, f)
  BY <1>14, <1>15, <1>16 DEF Neat, n, end
<1>18. QED
  BY <1>17 DEF f, n, m, from, to, i, c, gap

LEMMA PatchSegment ==
  ASSUME NEW S, Unbroken(S), NEW prev \in Seq(S), NEW next \in Seq(S), NEW p
  PROVE  Patch(prev, next, p).segment \in Seq(S)
<1> DEFINE prefix == CommonPrefix(prev, next)
           suffix == CommonSuffix(prev, next, prefix)
           legs == IF suffix = 0 THEN 0 ELSE suffix - 1
           from == IF prefix = 0 THEN 1 ELSE prefix
           to == Len(next) - legs
<1>1. /\ prev \in Seq(Int) /\ next \in Seq(Int) /\ Len(prev) \in Nat /\ Len(next) \in Nat
      /\ \A i \in 1 .. Len(next) : next[i] \in S
  BY IntSeq
<1>2. prefix \in Nat /\ prefix <= Len(prev) /\ prefix <= Len(next)
  BY <1>1, PrefixMatches
<1> HIDE DEF prefix
<1>3. suffix \in Nat /\ prefix + suffix <= Len(next)
  BY <1>1, <1>2, SuffixMatches
<1>4. Patch(prev, next, p).segment = SubSeq(next, from, to)
  BY DEF Patch, prefix
<1> HIDE DEF suffix
<1>5. from \in Int /\ to \in Int /\ from >= 1 /\ to <= Len(next)
  BY <1>1, <1>2, <1>3
<1> HIDE DEF from, to
<1>6. \A i \in from .. to : next[i] \in S
  BY <1>1, <1>5
<1>7. QED
  BY <1>4, <1>5, <1>6, SubSeqProperties

\* The legs that patchRoute routes between two kept stretches of the line.
LEMMA PatchShape ==
  ASSUME NEW S, Unbroken(S), NEW prev \in Seq(S), NEW next \in Seq(S), NEW p \in Seq(S),
         OnPath(prev, p), Len(Patch(prev, next, p).segment) >= 2
  PROVE  LET prefix == CommonPrefix(prev, next)
             suffix == CommonSuffix(prev, next, prefix)
             from == FirstStop(prefix)
             to == LastStop(suffix, Len(next))
             a == Anchors(prev, p)
             patch == Patch(prev, next, p)
         IN  /\ prefix \in Nat /\ suffix \in Nat
             /\ Around(prefix, suffix, Len(prev), Len(next), prev, next)
             /\ from \in 1 .. Len(next) /\ to \in 1 .. Len(next) /\ from < to
             /\ patch.segment \in Seq(S) /\ Len(patch.segment) = to - from + 1
             /\ \A x \in 1 .. to - from + 1 : patch.segment[x] = next[from + x - 1]
             /\ patch.before = Kept(p, 1, KeptTo(prefix, a))
             /\ patch.after = Kept(p, KeptFrom(suffix, Len(prev), Len(p), a), Len(p))
             /\ Runs(Len(prev), prev, p, Len(p), a)
<1> DEFINE prefix == CommonPrefix(prev, next)
           suffix == CommonSuffix(prev, next, prefix)
           from == FirstStop(prefix)
           to == LastStop(suffix, Len(next))
           a == Anchors(prev, p)
           patch == Patch(prev, next, p)
           legs == IF suffix = 0 THEN 0 ELSE suffix - 1
           m == Len(prev)
           n == Len(next)
           last == Len(p)
<1>1. /\ prev \in Seq(Int) /\ next \in Seq(Int) /\ p \in Seq(Int)
      /\ m \in Nat /\ n \in Nat /\ last \in Nat
  BY IntSeq
<1>2. /\ prefix \in Nat /\ prefix <= m /\ prefix <= n
      /\ \A i \in 1 .. prefix : prev[i] = next[i]
  BY <1>1, PrefixMatches
<1> HIDE DEF prefix
<1>3. /\ suffix \in Nat /\ prefix + suffix <= m /\ prefix + suffix <= n
      /\ \A i \in 1 .. suffix : prev[m + 1 - i] = next[n + 1 - i]
  BY <1>1, <1>2, SuffixMatches
<1>4. /\ patch.segment = SubSeq(next, from, n - legs)
      /\ patch.before = IF prefix = 0 THEN <<>> ELSE SubSeq(p, 1, a[from])
      /\ patch.after = IF suffix = 0 THEN <<>> ELSE SubSeq(p, a[m - legs], last)
  BY DEF Patch, FirstStop, prefix
<1> HIDE DEF suffix, a, patch, m, n, last
<1>5. Around(prefix, suffix, m, n, prev, next)
  BY <1>2, <1>3 DEF Around
<1>6. Embeds(prev, p, a) /\ \A k \in 0 .. m : a[k] \in Nat \ {0}
  BY <1>1, AnchorsEmbed DEF a, m
<1>7. Runs(m, prev, p, last, a)
  BY <1>6 DEF Embeds, Runs, m, last
<1>8. /\ from = (IF prefix = 0 THEN 1 ELSE prefix) /\ from \in Nat /\ from >= 1
      /\ to = n - legs /\ legs \in Nat
      /\ suffix > 0 => m - legs = LastStop(suffix, m) /\ m - legs \in 1 .. m
  BY <1>1, <1>2, <1>3 DEF FirstStop, LastStop, n
<1>9. patch.segment = SubSeq(next, from, to) /\ Len(patch.segment) >= 2
  BY <1>4, <1>8 DEF patch
<1>10. to \in Int /\ to <= n /\ from \in Int
  BY <1>1, <1>8
<1>11. from <= to
  <2>1. CASE ~ (from <= to)
    <3>1. SubSeq(next, from, to) = <<>>
      <4>1. from > to
        BY <1>10, <2>1
      <4>2. QED
        BY <1>10, <4>1, SubSeqProperties
    <3>2. QED
      BY <1>9, <3>1
  <2>2. QED
    BY <2>1
<1>12. from \in 1 .. n /\ to \in from .. n
  BY <1>1, <1>8, <1>10, <1>11
<1> HIDE DEF from, to, legs
<1>13. /\ patch.segment \in Seq(S) /\ Len(patch.segment) = to - from + 1
       /\ \A x \in 1 .. to - from + 1 : patch.segment[x] = next[from + x - 1]
  BY <1>9, <1>12, SubLine DEF n
<1>14. from < to /\ to \in 1 .. n
  BY <1>9, <1>10, <1>12, <1>13
<1>15. patch.before = Kept(p, 1, KeptTo(prefix, a))
  <2>1. CASE prefix = 0
    BY <1>4, <2>1 DEF Kept, KeptTo
  <2>2. CASE prefix # 0
    <3>1. from = prefix /\ prefix \in 1 .. m /\ prefix \in 0 .. m
      BY <1>2, <1>8, <1>1, <2>2
    <3>2. KeptTo(prefix, a) = a[from] /\ ~ (1 > a[from])
      BY <1>6, <2>2, <3>1 DEF KeptTo
    <3>3. QED
      BY <1>4, <2>2, <3>2 DEF Kept
  <2>3. QED
    BY <2>1, <2>2
<1>16. patch.after = Kept(p, KeptFrom(suffix, m, last, a), last)
  <2>1. CASE suffix = 0
    BY <1>1, <1>4, <2>1 DEF Kept, KeptFrom
  <2>2. CASE suffix # 0
    <3>1. m - legs = LastStop(suffix, m) /\ m - legs \in 1 .. m
      BY <1>3, <1>8, <2>2
    <3>2. KeptFrom(suffix, m, last, a) = a[m - legs] /\ a[m - legs] \in 1 .. last
      BY <1>7, <2>2, <3>1 DEF KeptFrom, Runs
    <3>3. ~ (a[m - legs] > last)
      BY <1>1, <3>2
    <3>4. QED
      BY <1>4, <2>2, <3>2, <3>3 DEF Kept
  <2>3. QED
    BY <2>1, <2>2
<1>17. QED
  BY <1>2, <1>3, <1>5, <1>7, <1>12, <1>13, <1>14, <1>15, <1>16 DEF prefix, suffix, a, patch, m, n, last, from, to

\* The path patchRoute splices together runs through the new waypoints, and
\* makes no detour where the old path made none.
THEOREM SpliceFits ==
  ASSUME NEW S, Unbroken(S), NEW prev \in Seq(S), NEW next \in Seq(S), NEW p \in Seq(S),
         OnPath(prev, p), Len(Patch(prev, next, p).segment) >= 2
  PROVE  LET r == Splice(Patch(prev, next, p))
         IN  r \in Seq(S) /\ OnPath(next, r) /\ (Fitted(prev, p) => Fitted(next, r))
<1> DEFINE prefix == CommonPrefix(prev, next)
           suffix == CommonSuffix(prev, next, prefix)
           m == Len(prev)
           n == Len(next)
           from == FirstStop(prefix)
           to == LastStop(suffix, n)
           a == Anchors(prev, p)
           patch == Patch(prev, next, p)
           seg == patch.segment
           mid == Route(seg)
           i == KeptTo(prefix, a)
           j == KeptFrom(suffix, m, Len(p), a)
           r == Splice(patch)
<1>1. /\ prev \in Seq(Int) /\ next \in Seq(Int) /\ p \in Seq(Int)
      /\ m \in Nat /\ n \in Nat /\ Len(p) \in Nat
  BY IntSeq
<1>2. /\ prefix \in Nat /\ suffix \in Nat
      /\ Around(prefix, suffix, m, n, prev, next)
      /\ from \in 1 .. n /\ to \in 1 .. n /\ from < to
      /\ seg \in Seq(S) /\ Len(seg) = to - from + 1
      /\ \A x \in 1 .. to - from + 1 : seg[x] = next[from + x - 1]
      /\ patch.before = Kept(p, 1, i)
      /\ patch.after = Kept(p, j, Len(p))
      /\ Runs(m, prev, p, Len(p), a)
  BY PatchShape
<1> HIDE DEF prefix, suffix, a, patch
<1>3. Len(seg) \in Nat /\ Len(seg) >= 1
  BY <1>2
<1>4. /\ mid \in Seq(S)
      /\ \E e : Embeds(seg, mid, e) /\ Neat(seg, mid, e) /\ e[1] = 1 /\ e[Len(seg)] = Len(mid)
  BY <1>2, <1>3, RouteNeat
<1>5. PICK e : Embeds(seg, mid, e) /\ Neat(seg, mid, e) /\ e[1] = 1 /\ e[Len(seg)] = Len(mid)
  BY <1>4
<1> HIDE DEF mid
<1>6. Len(mid) \in Nat
  BY <1>4, LenProperties
<1>7. /\ \A x \in 1 .. to - from + 1 : e[x] \in 1 .. Len(mid) /\ mid[e[x]] = next[from + x - 1]
      /\ \A x, y \in 1 .. to - from + 1 : x <= y => e[x] <= e[y]
      /\ e[1] = 1 /\ e[to - from + 1] = Len(mid)
  <2>1. Len(seg) = to - from + 1
    BY <1>2
  <2>2. /\ \A x \in 1 .. to - from + 1 : e[x] \in 1 .. Len(mid) /\ mid[e[x]] = seg[x]
        /\ \A x, y \in 1 .. to - from + 1 : x <= y => e[x] <= e[y]
        /\ e[1] = 1 /\ e[to - from + 1] = Len(mid)
    BY <1>5, <2>1 DEF Embeds
  <2>3. QED
    BY <1>2, <2>2
<1>8. RunsOver(e, mid, next, from, to)
  BY <1>7 DEF RunsOver
<1>9. 1 \in 1 .. to - from + 1 /\ to - from + 1 \in 1 .. to - from + 1
      /\ from + 1 - 1 = from /\ from + (to - from + 1) - 1 = to
  <2>1. from \in Int /\ to \in Int /\ from < to
    BY <1>2
  <2> HIDE DEF from, to
  <2>2. QED
    BY <2>1
<1>10. Len(mid) >= 1 /\ mid[1] = next[from] /\ mid[Len(mid)] = next[to]
  BY <1>6, <1>7, <1>9
<1>11. i \in 0 .. Len(p) /\ (i > 0 => p[i] = mid[1])
  <2>1. CASE prefix = 0
    BY <1>1, <2>1 DEF KeptTo
  <2>2. CASE prefix > 0
    <3>1. prefix \in 1 .. m /\ from = prefix /\ prefix \in 1 .. prefix /\ i = a[prefix]
      BY <1>1, <1>2, <2>2 DEF Around, FirstStop, KeptTo
    <3>2. a[prefix] \in 1 .. Len(p) /\ p[a[prefix]] = prev[prefix]
      BY <1>2, <3>1 DEF Runs
    <3>3. prev[prefix] = next[prefix]
      BY <1>2, <3>1 DEF Around
    <3>4. QED
      BY <1>10, <3>1, <3>2, <3>3
  <2>3. QED
    BY <1>2, <2>1, <2>2
<1>12. j \in 1 .. Len(p) + 1 /\ (j <= Len(p) => p[j] = mid[Len(mid)])
  <2>1. CASE suffix = 0
    BY <1>1, <2>1 DEF KeptFrom
  <2>2. CASE suffix > 0
    <3>1. /\ suffix \in 1 .. suffix /\ m + 1 - suffix \in 1 .. m
          /\ j = a[m + 1 - suffix] /\ to = n + 1 - suffix
      <4>1. prefix + suffix <= m
        BY <1>2 DEF Around
      <4>2. m - (suffix - 1) = m + 1 - suffix /\ n - (suffix - 1) = n + 1 - suffix
        BY <1>1, <1>2
      <4>3. j = a[m - (suffix - 1)] /\ to = n - (suffix - 1)
        BY <2>2 DEF KeptFrom, LastStop
      <4>4. QED
        BY <1>1, <1>2, <2>2, <4>1, <4>2, <4>3
    <3>2. a[m + 1 - suffix] \in 1 .. Len(p) /\ p[a[m + 1 - suffix]] = prev[m + 1 - suffix]
      BY <1>2, <3>1 DEF Runs
    <3>3. prev[m + 1 - suffix] = next[n + 1 - suffix]
      BY <1>2, <3>1 DEF Around
    <3>4. j \in 1 .. Len(p) /\ p[j] = mid[Len(mid)]
      BY <1>10, <3>1, <3>2, <3>3, Zenon
    <3> HIDE DEF j
    <3>5. QED
      BY <1>1, <3>4
  <2>3. QED
    BY <1>2, <2>1, <2>2
<1> HIDE DEF i, j
<1>13. /\ r \in Seq(S)
       /\ \E off \in Int : Spliced(r, p, mid, i, j, off)
  BY <1>2, <1>4, <1>10, <1>11, <1>12, SpliceLine DEF mid
<1>14. PICK off \in Int : Spliced(r, p, mid, i, j, off)
  BY <1>13
<1> HIDE DEF r
<1>15. PatchedLine(prefix, suffix, m, n, prev, next, p, mid, r, a, e, off)
  BY <1>1, <1>2, <1>6, <1>8, <1>14 DEF PatchedLine, i, j
<1> DEFINE f == Stops(n, from, to, MiddleFrom(i), off, n - m, a, e)
<1>16. Runs(n, next, r, Len(r), f)
  BY <1>1, <1>2, <1>15, SpliceStops DEF i
<1>17. Embeds(next, r, f)
  BY <1>16 DEF Embeds, Runs
<1>18. r \in Seq(Int)
  BY <1>13, IntSeq
<1>19. OnPath(next, r)
  BY <1>1, <1>17, <1>18, AnchorsAreFirst
<1>20. ASSUME Fitted(prev, p) PROVE Fitted(next, r)
  <2>1. Neat(prev, p, a)
    BY <1>20 DEF Fitted, a
  <2>2. Len(seg) = to - from + 1 /\ Neat(seg, mid, e)
    BY <1>2, <1>5
  <2>3. Neat(next, r, f)
    BY <1>1, <1>2, <1>15, <1>18, <2>1, <2>2, SpliceNeat DEF i
  <2>4. n >= 1
    BY <1>2
  <2>5. QED
    BY <1>1, <1>17, <1>18, <2>3, <2>4, Fitting
<1>21. QED
  BY <1>13, <1>19, <1>20 DEF r, patch

----------------------------------------------------------------------------
(* The path kept for waypoints put on it.                                  *)

\* The places of next that prev has too, and where the line passes the others.
Inserted(m, n, prev, next, p, a, seen) ==
  /\ seen[0] = 0 /\ seen[n] = m
  /\ \A k \in 0 .. n : seen[k] \in 0 .. m
  /\ \A k \in 1 .. n : \/ /\ seen[k] = seen[k - 1] /\ seen[k] \in 1 .. m - 1
                          /\ \E i \in a[seen[k]] .. a[seen[k] + 1] : p[i] = next[k]
                       \/ seen[k] = seen[k - 1] + 1 /\ next[k] = prev[seen[k]]

LEMMA InsertionShape ==
  ASSUME NEW prev \in Seq(Int), NEW next \in Seq(Int), NEW p \in Seq(Int),
         IsPureOnPathInsertion(prev, next, p)
  PROVE  /\ OnPath(prev, p) /\ Len(next) > Len(prev) /\ Len(prev) >= 1
         /\ Inserted(Len(prev), Len(next), prev, next, p, Anchors(prev, p), Seen(prev, next))
<1> DEFINE m == Len(prev)
           n == Len(next)
           a == Anchors(prev, p)
           seen == Seen(prev, next)
<1>1. m \in Nat /\ n \in Nat
  BY LenProperties
<1>2. /\ seen[0] = 0
      /\ \A k \in 0 .. n : seen[k] \in 0 .. m
      /\ \A k \in 1 .. n : seen[k] = NextSeen(prev, next[k], seen[k - 1])
  BY SeenWalk
<1>3. /\ n > m /\ OnPath(prev, p) /\ seen[n] = m
      /\ \A k \in 1 .. n : seen[k] = seen[k - 1] =>
           /\ seen[k] \in 1 .. m - 1
           /\ \E i \in a[seen[k]] .. a[seen[k] + 1] : p[i] = next[k]
  BY DEF IsPureOnPathInsertion
<1> HIDE DEF m, n, a, seen
<1>4. ASSUME NEW k \in 1 .. n
      PROVE  \/ /\ seen[k] = seen[k - 1] /\ seen[k] \in 1 .. m - 1
                /\ \E i \in a[seen[k]] .. a[seen[k] + 1] : p[i] = next[k]
             \/ seen[k] = seen[k - 1] + 1 /\ next[k] = prev[seen[k]]
  <2>1. CASE seen[k] = seen[k - 1]
    BY <1>3, <2>1
  <2>2. CASE seen[k] # seen[k - 1]
    BY <1>2, <2>2 DEF NextSeen
  <2>3. QED
    BY <2>1, <2>2
<1>5. Inserted(m, n, prev, next, p, a, seen)
  BY <1>2, <1>3, <1>4 DEF Inserted
<1>6. m >= 1
  <2>1. 1 \in 1 .. n /\ 1 - 1 = 0 /\ 1 \in 0 .. n
    BY <1>1, <1>3
  <2>2. seen[1] \in 0 .. m /\ (seen[1] \in 1 .. m - 1 \/ seen[1] = seen[0] + 1)
    BY <1>2, <1>4, <2>1
  <2>3. QED
    BY <1>1, <1>2, <2>2
<1>7. QED
  BY <1>3, <1>5, <1>6 DEF m, n, a, seen

\* For one waypoint put on the path isPureOnPathInsertion is right: the path runs
\* through the list with the new one in its place.  Not so for several in a leg.
THEOREM InsertOne ==
  ASSUME NEW prev \in Seq(Int), NEW next \in Seq(Int), NEW p \in Seq(Int),
         IsPureOnPathInsertion(prev, next, p), Len(next) = Len(prev) + 1
  PROVE  OnPath(next, p)
<1> DEFINE m == Len(prev)
           n == Len(next)
           last == Len(p)
           a == Anchors(prev, p)
           seen == Seen(prev, next)
<1>1. m \in Nat /\ n \in Nat /\ last \in Nat
  BY LenProperties
<1>2. OnPath(prev, p) /\ Inserted(m, n, prev, next, p, a, seen)
  BY InsertionShape
<1>3. Walks(m, prev, p, last, a)
  BY <1>2, AnchorsWalkAlong
<1>4. n = m + 1
  OBVIOUS
<1> HIDE DEF m, n, last, a, seen
<1>5. /\ seen[0] = 0 /\ seen[n] = m
      /\ \A k \in 0 .. n : seen[k] \in 0 .. m
      /\ \A k \in 1 .. n : \/ /\ seen[k] = seen[k - 1] /\ seen[k] \in 1 .. m - 1
                              /\ \E i \in a[seen[k]] .. a[seen[k] + 1] : p[i] = next[k]
                           \/ seen[k] = seen[k - 1] + 1 /\ next[k] = prev[seen[k]]
  BY <1>2 DEF Inserted
<1> DEFINE New(k) == seen[k] = seen[k - 1]
           lag == [k \in 0 .. n |-> k - seen[k]]
\* Two new places in a row would be one too many.
<1>6. \A i, j \in 0 .. n : i <= j => lag[i] <= lag[j]
  <2>1. \A k \in 0 .. n : lag[k] \in Int
    BY <1>5
  <2>2. ASSUME NEW k \in 0 .. n - 1 PROVE lag[k] <= lag[k + 1]
    <3>1. k \in 0 .. n /\ k + 1 \in 0 .. n /\ k + 1 \in 1 .. n /\ (k + 1) - 1 = k
      BY <1>1
    <3>2. PICK x \in 1 .. n : x = k + 1
      BY <3>1
    <3>3. seen[k] \in Int /\ seen[x] \in Int
      BY <1>5, <3>1, <3>2
    <3>4. seen[x] = seen[x - 1] \/ seen[x] = seen[x - 1] + 1
      BY <1>5
    <3>5. lag[k] = k - seen[k] /\ lag[x] = x - seen[x] /\ x - 1 = k
      BY <3>1, <3>2
    <3> HIDE DEF lag
    <3>6. lag[k] <= lag[x]
      BY <3>1, <3>2, <3>3, <3>4, <3>5
    <3>7. QED
      BY <3>2, <3>6
  <2> HIDE DEF lag
  <2>3. QED
    BY <1>1, <2>1, <2>2, Ascending
<1>7. ASSUME NEW k \in 1 .. n - 1, New(k), New(k + 1) PROVE FALSE
  <2>1. k - 1 \in 0 .. n /\ k + 1 \in 0 .. n /\ 0 \in 0 .. n /\ n \in 0 .. n /\ k \in Int
        /\ (k + 1) - 1 = k /\ 0 <= k - 1 /\ k + 1 <= n /\ k \in 0 .. n
    BY <1>1
  <2>2. lag[0] <= lag[k - 1] /\ lag[k + 1] <= lag[n]
    BY <1>6, <2>1
  <2>3. seen[k + 1] = seen[k - 1] /\ seen[k - 1] \in Int
    BY <1>5, <1>7, <2>1
  <2>4. lag[0] = 0 /\ lag[n] = n - m /\ lag[k - 1] = (k - 1) - seen[k - 1]
        /\ lag[k + 1] = (k + 1) - seen[k + 1]
    BY <1>1, <1>5, <2>1, SMTT(30)
  <2>5. QED
    BY <1>1, <1>4, <2>1, <2>2, <2>3, <2>4
<1> HIDE DEF lag
<1> DEFINE at(k) == CHOOSE i \in a[seen[k]] .. a[seen[k] + 1] : p[i] = next[k]
           e == [k \in 1 .. n |-> IF New(k) THEN at(k) ELSE a[seen[k]]]
<1>8. ASSUME NEW k \in 1 .. n, New(k)
      PROVE  /\ e[k] \in a[seen[k]] .. a[seen[k] + 1] /\ p[e[k]] = next[k]
             /\ seen[k] \in 1 .. m - 1
  <2>1. seen[k] \in 1 .. m - 1 /\ \E i \in a[seen[k]] .. a[seen[k] + 1] : p[i] = next[k]
    <3>1. k \in Int /\ k - 1 \in 0 .. n
      BY <1>1
    <3>2. seen[k - 1] \in Int
      BY <1>5, <3>1
    <3>3. seen[k] # seen[k - 1] + 1
      BY <1>8, <3>2
    <3>4. QED
      BY <1>5, <3>3
  <2>2. at(k) \in a[seen[k]] .. a[seen[k] + 1] /\ p[at(k)] = next[k]
    BY <2>1
  <2>3. e[k] = at(k)
    BY <1>8
  <2>4. QED
    BY <2>1, <2>2, <2>3
<1>9. ASSUME NEW k \in 1 .. n, ~ New(k)
      PROVE  /\ e[k] = a[seen[k]] /\ seen[k] = seen[k - 1] + 1 /\ next[k] = prev[seen[k]]
             /\ seen[k] \in 1 .. m
  <2>1. e[k] = a[seen[k]]
    BY <1>9
  <2>2. seen[k] = seen[k - 1] + 1 /\ next[k] = prev[seen[k]]
    BY <1>5, <1>9
  <2>3. k - 1 \in 0 .. n /\ k \in 0 .. n
    BY <1>1
  <2>4. seen[k] \in 1 .. m
    BY <1>5, <2>2, <2>3, SMTT(30)
  <2>5. QED
    BY <2>1, <2>2, <2>4
<1> HIDE DEF e, New
<1>10. /\ \A k \in 0 .. m : a[k] \in Int /\ 1 <= a[k]
       /\ \A i, k \in 0 .. m : i <= k => a[i] <= a[k]
       /\ \A k \in 1 .. m : a[k] <= last /\ p[a[k]] = prev[k]
  BY <1>3 DEF Walks
<1>11. ASSUME NEW k \in 1 .. n PROVE e[k] \in 1 .. last /\ p[e[k]] = next[k]
  <2>1. CASE New(k)
    <3>1. seen[k] \in 0 .. m /\ seen[k] + 1 \in 0 .. m /\ seen[k] + 1 \in 1 .. m
      BY <1>1, <1>8, <2>1, SMTT(30)
    <3>2. a[seen[k]] \in Int /\ 1 <= a[seen[k]] /\ a[seen[k] + 1] \in Int /\ a[seen[k] + 1] <= last
      BY <1>10, <3>1
    <3>3. e[k] \in a[seen[k]] .. a[seen[k] + 1] /\ p[e[k]] = next[k]
      BY <1>8, <2>1
    <3>4. e[k] \in 1 .. last
      BY <1>1, <3>2, <3>3, SMTT(30)
    <3>5. QED
      BY <3>3, <3>4
  <2>2. CASE ~ New(k)
    <3>1. seen[k] \in 1 .. m /\ seen[k] \in 0 .. m /\ e[k] = a[seen[k]] /\ next[k] = prev[seen[k]]
      BY <1>9, <2>2
    <3> DEFINE s == seen[k]
    <3> HIDE DEF s
    <3>2. s \in 0 .. m /\ s \in 1 .. m /\ e[k] = a[s] /\ next[k] = prev[s]
      BY <3>1 DEF s
    <3>3. a[s] \in Int /\ 1 <= a[s] /\ a[s] <= last /\ p[a[s]] = prev[s]
      BY <1>10, <3>2
    <3>4. QED
      BY <1>1, <3>2, <3>3
  <2>3. QED
    BY <2>1, <2>2
<1>12. ASSUME NEW k \in 1 .. n - 1 PROVE e[k] <= e[k + 1]
  <2>1. k \in 1 .. n /\ k + 1 \in 1 .. n /\ (k + 1) - 1 = k
    BY <1>1
  <2>2. PICK x \in 1 .. n : x = k + 1
    BY <2>1
  <2>3. New(x) = (seen[x] = seen[k])
    BY <2>1, <2>2 DEF New
  <2>4. CASE New(k)
    <3>1. ~ New(x)
      BY <1>7, <2>2, <2>4
    <3>2. e[x] = a[seen[x]] /\ seen[x] = seen[x - 1] + 1
      BY <1>9, <3>1
    <3>3. e[x] = a[seen[k] + 1]
      BY <2>1, <2>2, <3>2
    <3>4. e[k] \in a[seen[k]] .. a[seen[k] + 1]
      BY <1>8, <2>1, <2>4
    <3>5. QED
      BY <2>2, <3>3, <3>4
  <2>5. CASE ~ New(k) /\ New(x)
    <3>1. e[k] = a[seen[k]]
      BY <1>9, <2>1, <2>5
    <3>2. e[x] \in a[seen[x]] .. a[seen[x] + 1] /\ seen[x] = seen[k]
      BY <1>8, <2>3, <2>5
    <3>3. QED
      BY <2>2, <3>1, <3>2
  <2>6. CASE ~ New(k) /\ ~ New(x)
    <3>1. e[k] = a[seen[k]] /\ seen[k] \in 1 .. m
      BY <1>9, <2>1, <2>6
    <3>2. e[x] = a[seen[x]] /\ seen[x] = seen[x - 1] + 1 /\ seen[x] \in 1 .. m
      BY <1>9, <2>6
    <3>3. seen[x] = seen[k] + 1
      BY <2>1, <2>2, <3>2
    <3>4. seen[k] \in 0 .. m /\ seen[x] \in 0 .. m /\ seen[k] <= seen[x]
      BY <3>1, <3>2, <3>3
    <3>5. a[seen[k]] <= a[seen[x]]
      BY <1>10, <3>4
    <3>6. QED
      BY <2>2, <3>1, <3>2, <3>5
  <2>7. QED
    BY <2>4, <2>5, <2>6
<1>13. \A i, k \in 1 .. n : i <= k => e[i] <= e[k]
  <2>1. \A k \in 1 .. n : e[k] \in Int
    BY <1>11
  <2>2. 1 \in Nat
    OBVIOUS
  <2>3. QED
    BY <1>1, <1>12, <2>1, <2>2, Ascending
<1>14. Embeds(next, p, e)
  BY <1>11, <1>13 DEF Embeds, n, last
<1>15. QED
  BY <1>14, AnchorsAreFirst

\* Where a straight stretch from i comes back to its first place it has stood
\* still, and stands still as long as the line does after it.
LEMMA StillOn ==
  ASSUME NEW p \in Seq(Int), NEW i \in 1 .. Len(p), NEW j \in i .. Len(p), Straight(p, i, j),
         NEW x \in i .. Len(p), p[x] = p[i], NEW y \in x .. Len(p), Still(p, j, y)
  PROVE  Still(p, i, x)
<1>1. Len(p) \in Nat
  BY LenProperties
<1>2. CASE x <= j
  <2>1. i \in i .. j /\ x \in i .. j
    BY <1>1, <1>2
  <2>2. QED
    BY <2>1, StraightBack
<1>3. CASE ~ (x <= j)
  <2>1. j \in j .. y /\ x \in j .. y /\ i \in i .. j /\ j \in i .. j
    BY <1>1, <1>3
  <2>2. p[j] = p[x]
    BY <2>1 DEF Still
  <2>3. Still(p, i, j)
    BY <2>1, <2>2, StraightBack
  <2>4. ASSUME NEW z \in i .. x PROVE p[z] = p[i]
    <3>1. z \in i .. j \/ z \in j .. y
      BY <1>1, <2>1
    <3>2. QED
      BY <2>1, <2>2, <2>3, <3>1 DEF Still
  <2>5. QED
    BY <2>4 DEF Still
<1>4. QED
  BY <1>2, <1>3

\* The walk through more places is never behind the walk through the old ones.
LEMMA NeverBehind ==
  ASSUME NEW m \in Nat, NEW n \in Nat, NEW last \in Nat,
         NEW prev, NEW next, NEW p, NEW a, NEW b, NEW seen,
         Walks(m, prev, p, last, a), Walks(n, next, p, last, b),
         Inserted(m, n, prev, next, p, a, seen)
  PROVE  \A k \in 0 .. n : a[seen[k]] <= b[k]
<1> DEFINE T == {k \in 0 .. n : a[seen[k]] <= b[k]}
<1>1. /\ a[0] = 1
      /\ \A k \in 0 .. m : a[k] \in Int /\ 1 <= a[k]
      /\ \A i, k \in 0 .. m : i <= k => a[i] <= a[k]
      /\ \A k \in 1 .. m : a[k] <= last /\ p[a[k]] = prev[k]
      /\ \A k \in 1 .. m : \A i \in a[k - 1] .. last : p[i] = prev[k] => a[k] <= i
  BY DEF Walks
<1>2. /\ b[0] = 1
      /\ \A k \in 0 .. n : b[k] \in Int /\ 1 <= b[k]
      /\ \A i, k \in 0 .. n : i <= k => b[i] <= b[k]
      /\ \A k \in 1 .. n : b[k] <= last /\ p[b[k]] = next[k]
  BY DEF Walks
<1>3. /\ seen[0] = 0
      /\ \A k \in 0 .. n : seen[k] \in 0 .. m
      /\ \A k \in 1 .. n : \/ seen[k] = seen[k - 1]
                           \/ seen[k] = seen[k - 1] + 1 /\ next[k] = prev[seen[k]]
  BY DEF Inserted
<1>4. 0 \in T
  BY <1>1, <1>2, <1>3
<1>5. ASSUME NEW k \in 0 .. n - 1, k \in T PROVE k + 1 \in T
  <2>1. k \in 0 .. n /\ k + 1 \in 0 .. n /\ k + 1 \in 1 .. n
    OBVIOUS
  <2>2. PICK x \in 1 .. n : x = k + 1
    BY <2>1
  <2>3. x \in 0 .. n /\ k <= x /\ x - 1 = k
    BY <2>1, <2>2
  <2>4. a[seen[k]] <= b[k] /\ b[k] <= b[x] /\ b[k] \in Int /\ b[x] \in Int /\ a[seen[k]] \in Int
    <3>1. seen[k] \in 0 .. m
      BY <1>3, <2>1
    <3>2. QED
      BY <1>1, <1>2, <1>5, <2>1, <2>3, <3>1
  <2>5. CASE seen[x] = seen[k]
    <3>1. a[seen[x]] <= b[x]
      BY <2>4, <2>5
    <3>2. QED
      BY <2>2, <2>3, <3>1
  <2>6. CASE seen[x] # seen[k]
    <3> DEFINE s == seen[x]
    <3>1. s = seen[k] + 1 /\ next[x] = prev[s] /\ s \in 1 .. m /\ s - 1 = seen[k]
      BY <1>3, <2>1, <2>3, <2>6
    <3> HIDE DEF s
    <3>2. b[x] <= last /\ p[b[x]] = prev[s]
      BY <1>2, <3>1
    <3>3. b[x] \in a[s - 1] .. last
      BY <2>4, <3>1, <3>2
    <3>4. a[s] <= b[x]
      BY <1>1, <3>1, <3>2, <3>3
    <3>5. QED
      BY <2>2, <2>3, <3>4 DEF s
  <2>7. QED
    BY <2>5, <2>6
<1> HIDE DEF T
<1>6. 0 .. n \subseteq T
  BY <1>4, <1>5, UpTo
<1>7. QED
  BY <1>6 DEF T

\* Where the old line made no detour it stands still from an old place to
\* where the new walk takes it.
LEMMA StillUpToNew ==
  ASSUME NEW prev \in Seq(Int), NEW p \in Seq(Int), NEW m \in Nat, NEW n \in Nat,
         m = Len(prev), m >= 1, NEW next, NEW a, NEW b, NEW seen,
         Walks(m, prev, p, Len(p), a), Walks(n, next, p, Len(p), b),
         Inserted(m, n, prev, next, p, a, seen), Neat(prev, p, a)
  PROVE  \A j \in 1 .. m : \E x \in 1 .. n : a[j] <= b[x] /\ Still(p, a[j], b[x])
<1> DEFINE last == Len(p)
           Met(j, k) == \E x \in k .. n : a[j] <= b[x] /\ Still(p, a[j], b[x])
           T == {k \in 1 .. n + 1 : \A j \in seen[k - 1] + 1 .. m : Met(j, k)}
<1>1. last \in Nat
  BY LenProperties
<1>2. \A k \in 0 .. n : a[seen[k]] <= b[k]
  BY <1>1, NeverBehind
<1>3. /\ \A k \in 0 .. m : a[k] \in Int /\ 1 <= a[k]
      /\ \A i, k \in 0 .. m : i <= k => a[i] <= a[k]
      /\ \A k \in 1 .. m : a[k] <= last /\ p[a[k]] = prev[k]
  BY DEF Walks
<1>4. /\ \A k \in 0 .. n : b[k] \in Int /\ 1 <= b[k]
      /\ \A i, k \in 0 .. n : i <= k => b[i] <= b[k]
      /\ \A k \in 1 .. n : b[k] <= last /\ p[b[k]] = next[k]
  BY DEF Walks
<1>5. /\ seen[0] = 0 /\ seen[n] = m
      /\ \A k \in 0 .. n : seen[k] \in 0 .. m
      /\ \A k \in 1 .. n : \/ seen[k] = seen[k - 1]
                           \/ seen[k] = seen[k - 1] + 1 /\ next[k] = prev[seen[k]]
  BY DEF Inserted
<1>6. Still(p, a[m], last) /\ \A k \in 1 .. m - 1 : Straight(p, a[k], a[k + 1])
  BY DEF Neat
<1>7. n + 1 \in T
  <2>1. (n + 1) - 1 = n /\ n + 1 \in 1 .. n + 1 /\ seen[n] + 1 .. m = {}
    BY <1>5
  <2> HIDE DEF Met
  <2>2. \A j \in seen[(n + 1) - 1] + 1 .. m : Met(j, n + 1)
    BY <2>1
  <2>3. QED
    BY <2>1, <2>2
<1> HIDE DEF last
<1>8. ASSUME NEW z \in 2 .. n + 1, z \in T PROVE z - 1 \in T
  <2> DEFINE k == z - 1
  <2>1. k \in 1 .. n /\ k \in 0 .. n /\ k - 1 \in 0 .. n /\ k \in 1 .. n + 1 /\ k \in Int
        /\ z = k + 1 /\ z - 1 = k
    OBVIOUS
  <2> HIDE DEF k
  <2>2. \A j \in seen[k] + 1 .. m : \E x \in k + 1 .. n : a[j] <= b[x] /\ Still(p, a[j], b[x])
    BY <1>8, <2>1
  <2>3. seen[k] \in 0 .. m /\ seen[k - 1] \in 0 .. m
    BY <1>5, <2>1
  <2>4. ASSUME NEW j \in seen[k - 1] + 1 .. m PROVE Met(j, k)
    <3>1. CASE j \in seen[k] + 1 .. m
      <4>1. PICK x \in k + 1 .. n : a[j] <= b[x] /\ Still(p, a[j], b[x])
        BY <2>2, <3>1
      <4>2. x \in k .. n
        BY <2>1
      <4>3. QED
        BY <4>1, <4>2
    <3>2. CASE j \notin seen[k] + 1 .. m
      <4>1. seen[k] = seen[k - 1] + 1 \/ seen[k] = seen[k - 1]
        BY <1>5, <2>1
      <4>2. j = seen[k] /\ next[k] = prev[j] /\ j \in 1 .. m /\ j \in 0 .. m
        BY <1>5, <2>1, <2>3, <3>2, <4>1, SMTT(30)
      <4>3. /\ a[j] \in Int /\ 1 <= a[j] /\ a[j] <= last /\ p[a[j]] = prev[j]
            /\ b[k] \in Int /\ b[k] <= last /\ p[b[k]] = next[k] /\ a[j] <= b[k]
        BY <1>2, <1>3, <1>4, <2>1, <4>2
      <4>4. Still(p, a[j], b[k])
        <5>1. CASE j = m
          <6>1. a[m] \in a[m] .. last /\ b[k] \in a[m] .. last
            BY <1>1, <4>3, <5>1
          <6>2. a[m] .. b[k] \subseteq a[m] .. last
            BY <1>1, <4>3, <5>1, SMTT(30)
          <6>3. QED
            BY <1>6, <5>1, <6>2 DEF Still
        <5>2. CASE j # m
          <6>1. j \in 1 .. m - 1 /\ j + 1 \in seen[k] + 1 .. m /\ j + 1 \in 1 .. m /\ j + 1 \in 0 .. m
                /\ j <= j + 1
            BY <2>3, <4>2, <5>2, SMTT(30)
          <6>2. PICK h \in 1 .. m : h = j + 1
            BY <6>1
          <6>3. Straight(p, a[j], a[h])
            BY <1>6, <6>1, <6>2
          <6>4. PICK x \in k + 1 .. n : a[h] <= b[x] /\ Still(p, a[h], b[x])
            BY <2>2, <6>1, <6>2
          <6>5. x \in 0 .. n /\ x \in 1 .. n /\ k <= x
            BY <2>1
          <6>6. b[x] \in Int /\ b[x] <= last /\ b[k] <= b[x]
            BY <1>4, <2>1, <6>5
          <6>7. a[h] \in Int /\ a[h] <= last /\ a[j] <= a[h]
            BY <1>3, <4>2, <6>1, <6>2
          <6>8. /\ a[j] \in 1 .. Len(p) /\ a[h] \in a[j] .. Len(p) /\ b[k] \in a[j] .. Len(p)
                /\ b[x] \in b[k] .. Len(p) /\ p[b[k]] = p[a[j]]
            <7>1. p[b[k]] = p[a[j]]
              BY <4>2, <4>3
            <7>2. a[j] \in 1 .. last /\ b[k] \in a[j] .. last
              BY <1>1, <4>3, SMTT(30)
            <7>3. a[h] \in a[j] .. last
              BY <1>1, <4>3, <6>7
            <7>4. b[x] \in b[k] .. last
              BY <1>1, <4>3, <6>6
            <7>5. QED
              BY <7>1, <7>2, <7>3, <7>4 DEF last
          <6>9. QED
            BY <6>3, <6>4, <6>8, StillOn
        <5>3. QED
          BY <5>1, <5>2
      <4>5. k \in k .. n
        BY <2>1
      <4>6. QED
        BY <4>3, <4>4, <4>5
    <3>3. QED
      BY <3>1, <3>2
  <2> HIDE DEF Met
  <2>5. k \in T
    BY <2>1, <2>4
  <2>6. QED
    BY <2>1, <2>5
<1>9. 1 .. n + 1 \subseteq T
  <2> HIDE DEF T
  <2>1. \A k \in 1 + 1 .. n + 1 : k \in T => k - 1 \in T
    BY <1>8
  <2>2. 1 \in Nat /\ n + 1 \in Nat
    OBVIOUS
  <2>3. QED
    BY <1>7, <2>1, <2>2, DownTo
<1>10. 1 \in T /\ 1 - 1 = 0
  BY <1>9, SMTT(30)
<1>11. QED
  BY <1>5, <1>10

\* A path kept for waypoints put on it (isPureOnPathInsertion) makes no detour on
\* the way to the new ones either, if it visits them in order.
THEOREM KeepFits ==
  ASSUME NEW prev \in Seq(Int), NEW next \in Seq(Int), NEW p \in Seq(Int),
         IsPureOnPathInsertion(prev, next, p), OnPath(next, p), Fitted(prev, p)
  PROVE  Fitted(next, p)
<1> DEFINE m == Len(prev)
           n == Len(next)
           last == Len(p)
           a == Anchors(prev, p)
           b == Anchors(next, p)
           seen == Seen(prev, next)
<1>1. m \in Nat /\ n \in Nat /\ last \in Nat
  BY LenProperties
<1>2. /\ OnPath(prev, p) /\ n > m /\ m >= 1
      /\ Inserted(m, n, prev, next, p, a, seen)
  BY InsertionShape
<1>3. Walks(m, prev, p, last, a) /\ Walks(n, next, p, last, b)
  BY <1>2, AnchorsWalkAlong
<1>4. Embeds(prev, p, a) /\ Embeds(next, p, b)
  BY <1>2, AnchorsEmbed
<1>5. Neat(prev, p, a)
  BY DEF Fitted
<1>6. \A j \in 1 .. m : \E x \in 1 .. n : a[j] <= b[x] /\ Still(p, a[j], b[x])
  BY <1>1, <1>2, <1>3, <1>5, StillUpToNew
<1>7. \A k \in 0 .. n : a[seen[k]] <= b[k]
  BY <1>1, <1>2, <1>3, NeverBehind
<1> HIDE DEF m, n, a, b, seen, last
<1>8. Still(p, 1, a[1]) /\ Still(p, a[m], last)
  BY <1>5 DEF Neat, m, last
<1>9. /\ a[0] = 1
      /\ \A k \in 0 .. m : a[k] \in Int /\ 1 <= a[k]
      /\ \A k \in 1 .. m : a[k] <= last /\ p[a[k]] = prev[k]
  BY <1>3 DEF Walks
<1>10. /\ b[0] = 1
       /\ \A k \in 0 .. n : b[k] \in Int /\ 1 <= b[k]
       /\ \A i, k \in 0 .. n : i <= k => b[i] <= b[k]
       /\ \A k \in 1 .. n : b[k] <= last
       /\ \A k \in 1 .. n : \A i \in b[k - 1] .. last : p[i] = next[k] => b[k] <= i
  BY <1>3 DEF Walks
<1>11. Still(p, 1, b[1])
  <2>1. 1 \in 1 .. n /\ 1 - 1 = 0 /\ 1 \in 0 .. n /\ 1 \in 1 .. m /\ 1 \in 0 .. m
    BY <1>1, <1>2
  <2>2. seen[1] = 1 /\ next[1] = prev[1]
    <3>1. /\ seen[0] = 0
          /\ \/ seen[1] = seen[0] /\ seen[1] \in 1 .. m - 1
             \/ seen[1] = seen[0] + 1 /\ next[1] = prev[seen[1]]
      BY <1>2, <2>1 DEF Inserted
    <3>2. QED
      BY <3>1
  <2>3. a[1] \in b[1 - 1] .. last /\ p[a[1]] = next[1]
    BY <1>1, <1>9, <1>10, <2>1, <2>2
  <2>4. b[1] <= a[1] /\ a[1] \in Int /\ b[1] \in Int
    BY <1>9, <1>10, <2>1, <2>3
  <2>5. 1 .. b[1] \subseteq 1 .. a[1]
    BY <2>4
  <2>6. QED
    BY <1>8, <2>5 DEF Still
<1>12. Still(p, b[n], last)
  <2>1. n \in 0 .. n /\ m \in 0 .. m /\ seen[n] = m
    BY <1>1, <1>2 DEF Inserted
  <2>2. a[m] <= b[n] /\ a[m] \in Int /\ b[n] \in Int
    BY <1>7, <1>9, <1>10, <2>1
  <2>3. b[n] .. last \subseteq a[m] .. last
    BY <1>1, <2>2
  <2>4. QED
    BY <1>8, <2>3 DEF Still
<1>13. ASSUME NEW k \in 1 .. n - 1, NEW j \in 1 .. m, b[k] < a[j], a[j] < b[k + 1]
       PROVE  Still(p, a[j], b[k + 1])
  <2>1. k \in 0 .. n /\ k + 1 \in 0 .. n /\ k \in Int /\ j \in 0 .. m
    BY <1>1
  <2>2. PICK x \in 1 .. n : a[j] <= b[x] /\ Still(p, a[j], b[x])
    BY <1>6
  <2>3. x \in 0 .. n /\ x \in Int
    BY <1>1
  <2>4. a[j] \in Int /\ b[k] \in Int /\ b[x] \in Int /\ b[k + 1] \in Int
    BY <1>9, <1>10, <2>1, <2>3
  <2>5. ~ (x <= k)
    <3>1. x <= k => b[x] <= b[k]
      BY <1>10, <2>1, <2>3
    <3>2. QED
      BY <1>13, <2>2, <2>4, <3>1
  <2>6. k + 1 <= x
    BY <2>1, <2>3, <2>5
  <2>7. b[k + 1] <= b[x]
    BY <1>10, <2>1, <2>3, <2>6
  <2>8. a[j] .. b[k + 1] \subseteq a[j] .. b[x]
    BY <2>4, <2>7
  <2>9. QED
    BY <2>2, <2>8 DEF Still
<1>14. n >= 1
  BY <1>1, <1>2
<1>15. Neat(next, p, b)
  BY <1>2, <1>4, <1>5, <1>11, <1>12, <1>13, <1>14, Refit DEF m, n, last
<1>16. QED
  BY <1>15 DEF Fitted, b

\* A waypoint appended to the list is never one that leaves the path as it is,
\* also where the path passes its place.
LEMMA AppendedIsNoInsertion ==
  ASSUME NEW prev \in Seq(Int), NEW c \in Int, NEW p \in Seq(Int)
  PROVE  ~ IsPureOnPathInsertion(prev, Append(prev, c), p)
<1>1. SUFFICES ASSUME IsPureOnPathInsertion(prev, Append(prev, c), p) PROVE FALSE
  OBVIOUS
<1> DEFINE next == Append(prev, c)
           m == Len(prev)
           n == Len(next)
           seen == Seen(prev, next)
           a == Anchors(prev, p)
<1>2. next \in Seq(Int) /\ n = m + 1 /\ m \in Nat /\ \A k \in 1 .. m : next[k] = prev[k]
  BY LenProperties
<1>3. seen[0] = 0 /\ \A k \in 1 .. n : seen[k] = NextSeen(prev, next[k], seen[k - 1])
  BY <1>2, SeenWalk
<1>4. Inserted(m, n, prev, next, p, a, seen)
  BY <1>1, <1>2, InsertionShape
<1> HIDE DEF next, m, n, seen, a
<1>5. seen[m] = m
  <2> DEFINE T == {k \in 0 .. m : seen[k] = k}
  <2>1. 0 \in T
    BY <1>2, <1>3
  <2>2. ASSUME NEW k \in 0 .. m - 1, k \in T PROVE k + 1 \in T
    <3>0. n = m + 1 /\ m \in Nat
      BY <1>2
    <3>1. k + 1 \in 1 .. n /\ k + 1 \in 1 .. m /\ k + 1 \in 0 .. m /\ (k + 1) - 1 = k /\ k < m
      BY <3>0
    <3>2. seen[k + 1] = NextSeen(prev, prev[k + 1], k)
      BY <1>2, <1>3, <2>2, <3>1
    <3>3. QED
      BY <3>1, <3>2 DEF NextSeen, m
  <2> HIDE DEF T
  <2>3. 0 .. m \subseteq T
    BY <1>2, <2>1, <2>2, UpTo
  <2>4. m \in 0 .. m
    BY <1>2
  <2>5. QED
    BY <2>3, <2>4 DEF T
<1>6. n \in 1 .. n /\ n \in 0 .. n /\ n - 1 = m
  BY <1>2
<1>7. /\ seen[n] \in 0 .. m
      /\ (seen[n] = seen[n - 1] /\ seen[n] \in 1 .. m - 1) \/ seen[n] = seen[n - 1] + 1
  BY <1>4, <1>6 DEF Inserted
<1>8. QED
  BY <1>2, <1>5, <1>6, <1>7

\* What RouteCalculationService says of isPureOnPathInsertion and the tests ask of
\* closely-spaced clicks, loop closings and out-and-backs: a waypoint appended to
\* the list the path was drawn for is routed, wherever it lies.
THEOREM AppendedWaypointIsRouted ==
  ASSUME NEW prev, prev.waypoints \in Seq(Int), prev.path \in Seq(Int), NEW c \in Int
  PROVE  Plan(prev, Append(prev.waypoints, c), FALSE) \in {"clear", "segment", "full"}
<1> DEFINE old == prev.waypoints
           next == Append(old, c)
<1>1. ~ IsPureOnPathInsertion(old, next, prev.path)
  BY AppendedIsNoInsertion
<1>2. Len(next) = Len(old) + 1 /\ Len(old) \in Nat
  BY LenProperties
<1>3. old # next
  BY <1>2
<1> HIDE DEF old, next
<1>4. QED
  BY <1>1, <1>2, <1>3 DEF Plan, old, next
===============================================================================
