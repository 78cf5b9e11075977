------------------------- MODULE PickClustersProofs -------------------------
(****************************************************************************)
(* What the loops of one reconciliation compute, for lists of any length.   *)
(****************************************************************************)
EXTENDS PickClusters, FiniteSetTheorems, SequenceTheorems, WellFoundedInduction, TLAPS

LEMMA Induction ==
    ASSUME NEW T \in SUBSET Nat, 0 \in T, \A n \in T : n + 1 \in T
    PROVE  T = Nat
<1> DEFINE Below == OpToRel(<, Nat)
           Missing == Nat \ T
<1>1. ASSUME Missing # {} PROVE FALSE
  <2>1. PICK x \in Missing : \A y \in Missing : <<y, x>> \notin Below
    BY <1>1, WFMin, NatLessThanWellFounded
  <2>2. x # 0 /\ x \in Nat
    OBVIOUS
  <2>3. x - 1 \in Nat /\ x - 1 < x
    BY <2>2
  <2>4. <<x - 1, x>> \in Below
    BY <2>2, <2>3 DEF OpToRel
  <2>5. x - 1 \in T
    BY <2>1, <2>3, <2>4
  <2>6. (x - 1) + 1 = x
    BY <2>2
  <2>7. QED BY <2>5, <2>6
<1>2. QED BY <1>1


\* The first n values of f are those of the recursion.
Runs(X, base, G, n, f) ==
    /\ f \in [Nat -> X]
    /\ f[0] = base
    /\ \A k \in Nat : k < n => f[k + 1] = G[k][f[k]]

LEMMA RunsExist ==
    ASSUME NEW X, NEW base \in X, NEW G \in [Nat -> [X -> X]]
    PROVE  \A n \in Nat : \E f : Runs(X, base, G, n, f)
<1> DEFINE T == {n \in Nat : \E f : Runs(X, base, G, n, f)}
<1>1. 0 \in T
  <2>1. Runs(X, base, G, 0, [k \in Nat |-> base])
    BY DEF Runs
  <2>2. QED BY <2>1
<1>2. ASSUME NEW n \in T PROVE n + 1 \in T
  <2>1. PICK f : Runs(X, base, G, n, f)
    OBVIOUS
  <2>2. n \in Nat /\ n + 1 \in Nat
    OBVIOUS
  <2> DEFINE g == [k \in Nat |-> IF k = n + 1 THEN G[n][f[n]] ELSE f[k]]
  <2> HIDE DEF T
  <2>3. G[n][f[n]] \in X /\ f \in [Nat -> X] /\ f[0] = base
    BY <2>1, <2>2 DEF Runs
  <2>4. g \in [Nat -> X] /\ g[0] = base
    BY <2>2, <2>3
  <2>5. ASSUME NEW k \in Nat, k < n + 1 PROVE g[k + 1] = G[k][g[k]]
    <3>1. CASE k = n
      BY <2>2, <3>1
    <3>2. CASE k # n
      <4>1. k < n /\ k + 1 \in Nat /\ k + 1 # n + 1 /\ k # n + 1
        BY <2>2, <2>5, <3>2
      <4>2. f[k + 1] = G[k][f[k]]
        BY <2>1, <4>1 DEF Runs
      <4>3. QED BY <4>1, <4>2
    <3>3. QED BY <3>1, <3>2
  <2>6. Runs(X, base, G, n + 1, g)
    BY <2>4, <2>5 DEF Runs
  <2>7. QED BY <2>2, <2>6 DEF T
<1>3. T \in SUBSET Nat
  OBVIOUS
<1> HIDE DEF T
<1>4. T = Nat
  BY <1>1, <1>2, <1>3, Induction
<1>5. QED BY <1>4 DEF T

LEMMA RunsAgree ==
    ASSUME NEW X, NEW base \in X, NEW G \in [Nat -> [X -> X]]
    PROVE  \A n, l, m \in Nat : \A f, g :
               n <= l /\ n <= m /\ Runs(X, base, G, l, f) /\ Runs(X, base, G, m, g) => f[n] = g[n]
<1> DEFINE Same(n) == \A l, m \in Nat : \A f, g :
               n <= l /\ n <= m /\ Runs(X, base, G, l, f) /\ Runs(X, base, G, m, g) => f[n] = g[n]
           T == {n \in Nat : Same(n)}
<1>1. 0 \in T
  BY DEF Runs
<1>2. ASSUME NEW n \in T PROVE n + 1 \in T
  <2>1. n \in Nat /\ n + 1 \in Nat /\ Same(n)
    OBVIOUS
  <2>2. ASSUME NEW l \in Nat, NEW m \in Nat, NEW f, NEW g, n + 1 <= l, n + 1 <= m,
               Runs(X, base, G, l, f), Runs(X, base, G, m, g)
        PROVE  f[n + 1] = g[n + 1]
    <3>1. n <= l /\ n <= m /\ n < l /\ n < m
      BY <2>1, <2>2
    <3>2. f[n] = g[n]
      BY <2>1, <2>2, <3>1
    <3>3. f[n + 1] = G[n][f[n]] /\ g[n + 1] = G[n][g[n]]
      BY <2>1, <2>2, <3>1 DEF Runs
    <3>4. QED BY <3>2, <3>3
  <2>3. Same(n + 1)
    BY <2>2
  <2>4. QED BY <2>1, <2>3
<1>3. T \in SUBSET Nat
  OBVIOUS
<1> HIDE DEF T
<1>4. T = Nat
  BY <1>1, <1>2, <1>3, Induction
<1>5. QED BY <1>4 DEF T

\* f is the recursion.
Recurs(X, base, G, f) ==
    /\ f \in [Nat -> X]
    /\ f[0] = base
    /\ \A k \in Nat : f[k + 1] = G[k][f[k]]

LEMMA Recursion ==
    ASSUME NEW X, NEW base \in X, NEW G \in [Nat -> [X -> X]]
    PROVE  \E f : Recurs(X, base, G, f)
<1>0. \A n, l, m \in Nat : \A f, g :
          n <= l /\ n <= m /\ Runs(X, base, G, l, f) /\ Runs(X, base, G, m, g) => f[n] = g[n]
  BY RunsAgree
<1> DEFINE F(n) == CHOOSE f : Runs(X, base, G, n, f)
           H == [n \in Nat |-> F(n)[n]]
<1>1. \A n \in Nat : Runs(X, base, G, n, F(n))
  BY RunsExist
<1> HIDE DEF F
<1>2. H \in [Nat -> X] /\ H[0] = base
  <2>1. \A n \in Nat : F(n)[n] \in X
    BY <1>1 DEF Runs
  <2>2. F(0)[0] = base
    BY <1>1 DEF Runs
  <2>3. QED BY <2>1, <2>2
<1>3. ASSUME NEW n \in Nat PROVE H[n + 1] = G[n][H[n]]
  <2>1. n + 1 \in Nat /\ n <= n /\ n <= n + 1 /\ n < n + 1
    OBVIOUS
  <2>2. F(n + 1)[n] = F(n)[n]
    <3>1. Runs(X, base, G, n, F(n)) /\ Runs(X, base, G, n + 1, F(n + 1))
      BY <1>1, <2>1
    <3> DEFINE next == n + 1
               f == F(n)
               g == F(next)
    <3>3. /\ n \in Nat /\ next \in Nat /\ n <= n /\ n <= next
          /\ Runs(X, base, G, n, f) /\ Runs(X, base, G, next, g)
      BY <2>1, <3>1
    <3> HIDE DEF next, f, g
    <3>4. g[n] = f[n]
      BY <1>0, <3>3, Zenon
    <3>5. QED BY <3>4 DEF next, f, g
  <2>3. F(n + 1)[n + 1] = G[n][F(n + 1)[n]]
    BY <1>1, <2>1 DEF Runs
  <2>4. QED BY <2>1, <2>2, <2>3
<1>4. Recurs(X, base, G, H)
  BY <1>2, <1>3 DEF Recurs
<1>5. QED BY <1>4

\* f is the recursion of length N.
Iterates(X, base, N, G, f) ==
    /\ f \in [0 .. N -> X]
    /\ f = [n \in 0 .. N |-> IF n = 0 THEN base ELSE G[n][f[n - 1]]]

LEMMA BoundedRecursion ==
    ASSUME NEW X, NEW base \in X, NEW N \in Nat, NEW G \in [1 .. N -> [X -> X]]
    PROVE  \E f : Iterates(X, base, N, G, f)
<1> DEFINE K == [n \in Nat |-> IF n < N THEN G[n + 1] ELSE [x \in X |-> x]]
<1>1. K \in [Nat -> [X -> X]]
  <2>1. ASSUME NEW n \in Nat PROVE K[n] \in [X -> X]
    <3>1. CASE n < N
      BY <3>1, n + 1 \in 1 .. N
    <3>2. CASE ~(n < N)
      BY <3>2
    <3>3. QED BY <3>1, <3>2
  <2>2. QED BY <2>1
<1>2. PICK k \in [Nat -> [X -> X]] : k = K
  BY <1>1
<1>3. PICK h : Recurs(X, base, k, h)
  BY Recursion
<1> DEFINE f == [n \in 0 .. N |-> h[n]]
<1>4. f \in [0 .. N -> X]
  BY <1>3 DEF Recurs
<1>5. ASSUME NEW n \in 0 .. N, n # 0 PROVE f[n] = G[n][f[n - 1]]
  <2>1. n - 1 \in Nat /\ n - 1 < N /\ n - 1 \in 0 .. N /\ (n - 1) + 1 = n
    BY <1>5
  <2>2. h[n] = k[n - 1][h[n - 1]]
    BY <1>3, <2>1 DEF Recurs
  <2>3. k[n - 1] = G[n]
    BY <1>2, <2>1
  <2>4. QED BY <2>1, <2>2, <2>3
<1>6. f[0] = base
  BY <1>3 DEF Recurs
<1>7. f = [n \in 0 .. N |-> IF n = 0 THEN base ELSE G[n][f[n - 1]]]
  BY <1>5, <1>6
<1>8. QED BY <1>4, <1>7 DEF Iterates

LEMMA BoundedInduction ==
    ASSUME NEW N \in Nat, NEW T \in SUBSET (0 .. N), 0 \in T, \A n \in T : n < N => n + 1 \in T
    PROVE  \A n \in 0 .. N : n \in T
<1> DEFINE U == {n \in Nat : n \in T \/ n > N}
<1>1. 0 \in U
  OBVIOUS
<1>2. ASSUME NEW n \in U PROVE n + 1 \in U
  <2>1. CASE n \in T /\ n < N
    BY <2>1
  <2>2. CASE ~(n \in T /\ n < N)
    BY <2>2
  <2>3. QED BY <2>1, <2>2
<1>3. U = Nat
  <2>1. U \in SUBSET Nat
    OBVIOUS
  <2> HIDE DEF U
  <2>2. QED BY <1>1, <1>2, <2>1, Induction
<1>4. QED BY <1>3

-----------------------------------------------------------------------------
(* Finite sets of numbers, lists.                                           *)

LEMMA MaxExists ==
    ASSUME NEW N \in Nat, NEW S \in SUBSET (0 .. N), S # {}
    PROVE  Max(S) \in S /\ \A y \in S : y <= Max(S)
<1> DEFINE Below == OpToRel(<, Nat)
           T == {N - x : x \in S}
<1>1. T \subseteq Nat /\ T # {}
  OBVIOUS
<1>2. PICK t \in T : \A y \in T : <<y, t>> \notin Below
  <2> HIDE DEF T
  <2>1. QED BY <1>1, WFMin, NatLessThanWellFounded
<1>3. PICK x \in S : t = N - x
  OBVIOUS
<1>4. ASSUME NEW y \in S PROVE y <= x
  <2>1. N - y \in T /\ N - y \in Nat /\ t \in Nat
    BY <1>1
  <2>2. ~(N - y < t)
    BY <1>2, <2>1 DEF OpToRel
  <2>3. QED BY <1>3, <2>2
<1>5. \E z \in S : \A y \in S : z >= y
  BY <1>4
<1>6. QED BY <1>5 DEF Max

LEMMA InsertAtPlace ==
    ASSUME NEW S, NEW s \in Seq(S), NEW x \in S, NEW p \in 1 .. Len(s) + 1
    PROVE  /\ InsertAt(s, p, x) \in Seq(S)
           /\ Len(InsertAt(s, p, x)) = Len(s) + 1
           /\ \A i \in 1 .. Len(s) + 1 :
                 InsertAt(s, p, x)[i] = IF i < p THEN s[i] ELSE IF i = p THEN x ELSE s[i - 1]
<1> DEFINE a == SubSeq(s, 1, p - 1)
           b == SubSeq(s, p, Len(s))
<1>1. a \in Seq(S) /\ Len(a) = p - 1 /\ \A i \in 1 .. p - 1 : a[i] = s[i]
  OBVIOUS
<1>2. b \in Seq(S) /\ Len(b) = Len(s) + 1 - p /\ \A i \in 1 .. Len(s) + 1 - p : b[i] = s[i + p - 1]
  OBVIOUS
<1>3. InsertAt(s, p, x) = (a \o <<x>>) \o b
  BY DEF InsertAt
<1> HIDE DEF a, b
<1> DEFINE c == a \o <<x>>
<1>4. c \in Seq(S) /\ Len(c) = p /\ (\A i \in 1 .. p - 1 : c[i] = a[i]) /\ c[p] = x
  BY <1>1
<1> HIDE DEF c
<1>5. c \o b \in Seq(S) /\ Len(c \o b) = Len(s) + 1
  <2>1. c \o b \in Seq(S) /\ Len(c \o b) = Len(c) + Len(b)
    BY <1>2, <1>4, ConcatProperties
  <2>2. QED BY <1>2, <1>4, <2>1
<1>6. ASSUME NEW i \in 1 .. Len(s) + 1
      PROVE  (c \o b)[i] = IF i < p THEN s[i] ELSE IF i = p THEN x ELSE s[i - 1]
  <2>1. CASE i <= p
    BY <1>1, <1>2, <1>4, <2>1
  <2>2. CASE i > p
    <3>1. (c \o b)[i] = b[i - p]
      BY <1>2, <1>4, <2>2
    <3>2. i - p \in 1 .. Len(s) + 1 - p /\ (i - p) + p - 1 = i - 1
      BY <2>2
    <3>3. b[i - p] = s[i - 1]
      BY <1>2, <3>2
    <3>4. QED BY <2>2, <3>1, <3>3
  <2>3. i <= p \/ i > p
    OBVIOUS
  <2>4. QED BY <2>1, <2>2, <2>3
<1>7. InsertAt(s, p, x) = c \o b
  BY <1>3 DEF c
<1>8. QED BY <1>5, <1>6, <1>7

LEMMA Elements ==
    ASSUME NEW S, NEW s \in Seq(S)
    PROVE  /\ Len(s) \in Nat /\ DOMAIN s = 1 .. Len(s)
           /\ ToSet(s) = {s[i] : i \in 1 .. Len(s)} /\ ToSet(s) \subseteq S
  BY LenProperties, ElementOfSeq DEF ToSet

\* Lists without repetition have as many elements as their set.
LEMMA DistinctLength ==
    ASSUME NEW S, NEW s \in Seq(S), IsInjective(s)
    PROVE  IsFiniteSet(ToSet(s)) /\ Cardinality(ToSet(s)) = Len(s)
<1>1. IsFiniteSet(1 .. Len(s)) /\ Cardinality(1 .. Len(s)) = Len(s)
  <2>1. Len(s) \in Nat /\ 1 \in Int /\ Len(s) \in Int
    OBVIOUS
  <2>2. IsFiniteSet(1 .. Len(s)) /\ Cardinality(1 .. Len(s)) = IF 1 > Len(s) THEN 0 ELSE Len(s) - 1 + 1
    BY <2>1, FS_Interval
  <2>3. QED BY <2>1, <2>2
<1>2. s \in [1 .. Len(s) -> ToSet(s)]
  <2>1. s \in [1 .. Len(s) -> S]
    BY LenProperties
  <2>2. \A i \in 1 .. Len(s) : s[i] \in ToSet(s)
    BY DEF ToSet
  <2>3. QED BY <2>1, <2>2
<1>3. s \in Bijection(1 .. Len(s), ToSet(s))
  BY <1>2 DEF Bijection, Injection, Surjection, IsInjective, ToSet
<1>4. ExistsBijection(1 .. Len(s), ToSet(s))
  BY <1>3 DEF ExistsBijection
<1>5. QED BY <1>1, <1>4, FS_Bijection

-----------------------------------------------------------------------------
(* The loops of pickClustersByReplicas.                                     *)

\* picked is what a loop over the first n elements of list may have made of start.
Loop(clmap, total, start, list, n, picked) ==
    /\ picked \in Seq(clmap) /\ IsInjective(picked)
    /\ ToSet(start) \subseteq ToSet(picked)
    /\ ToSet(picked) \subseteq ToSet(start) \cup {list[i] : i \in 1 .. n}
    /\ Len(picked) <= total \/ picked = start
    /\ Len(start) >= total => picked = start
    /\ Len(picked) < total => \A i \in 1 .. n : list[i] \in clmap => list[i] \in ToSet(picked)
    /\ \A c \in ToSet(picked) \ ToSet(start) : \E i \in 1 .. n :
           list[i] = c /\ \A j \in 1 .. i : list[j] \in clmap => list[j] \in ToSet(picked)

\* One turn of a loop.
LEMMA LoopTurn ==
    ASSUME NEW clmap, NEW total \in Int, NEW start \in Seq(clmap), NEW S, NEW list \in Seq(S),
           NEW n \in Nat, n < Len(list), NEW picked, Loop(clmap, total, start, list, n, picked)
    PROVE  Loop(clmap, total, start, list, n + 1, Take(clmap, total, picked, list[n + 1]))
<1> DEFINE c == list[n + 1]
<1>1. \A i \in 1 .. n + 1 : i \in 1 .. n \/ i = n + 1
  OBVIOUS
<1>2. CASE c \in clmap \ ToSet(picked) /\ Len(picked) < total
  <2> DEFINE r == Append(picked, c)
  <2>1. Take(clmap, total, picked, c) = r
    BY <1>2 DEF Take
  <2>2. /\ picked \in Seq(clmap) /\ r \in Seq(clmap) /\ Len(r) = Len(picked) + 1
        /\ \A i \in 1 .. Len(picked) : r[i] = picked[i]
        /\ r[Len(picked) + 1] = c
    BY <1>2 DEF Loop
  <2> HIDE DEF r
  <2>3. ToSet(r) = ToSet(picked) \cup {c}
    <3>1. ToSet(r) = {r[i] : i \in 1 .. Len(picked) + 1} /\ ToSet(picked) = {picked[i] : i \in 1 .. Len(picked)}
      BY <2>2, Elements
    <3>2. \A i \in 1 .. Len(picked) + 1 : i \in 1 .. Len(picked) \/ i = Len(picked) + 1
      BY <2>2
    <3> DEFINE m == Len(picked)
    <3>3. m \in Nat /\ m + 1 \in 1 .. m + 1
      BY <2>2
    <3>4. ASSUME NEW x \in ToSet(r) PROVE x \in ToSet(picked) \cup {c}
      <4>1. PICK i \in 1 .. m + 1 : x = r[i]
        BY <3>1
      <4>2. CASE i \in 1 .. m
        BY <2>2, <3>1, <4>1, <4>2
      <4>3. CASE i = m + 1
        BY <2>2, <4>1, <4>3
      <4>4. QED BY <3>2, <4>2, <4>3
    <3>5. ASSUME NEW x \in ToSet(picked) PROVE x \in ToSet(r)
      <4>1. PICK i \in 1 .. m : x = picked[i]
        BY <3>1
      <4>2. i \in 1 .. m + 1 /\ r[i] = x
        BY <2>2, <3>3, <4>1
      <4>3. QED BY <3>1, <4>2
    <3>6. c \in ToSet(r)
      BY <2>2, <3>1, <3>3
    <3>7. QED BY <3>4, <3>5, <3>6
  <2>4. IsInjective(r)
    <3>1. DOMAIN r = 1 .. Len(picked) + 1 /\ DOMAIN picked = 1 .. Len(picked)
      BY <2>2
    <3>2. \A i \in 1 .. Len(picked) + 1 : i \in 1 .. Len(picked) \/ i = Len(picked) + 1
      BY <2>2
    <3>3. \A i \in 1 .. Len(picked) : r[i] # c
      BY <1>2, <2>2, <3>1 DEF ToSet
    <3>4. \A i, j \in 1 .. Len(picked) : picked[i] = picked[j] => i = j
      BY <3>1 DEF Loop, IsInjective
    <3>5. QED BY <2>2, <3>1, <3>2, <3>3, <3>4 DEF IsInjective
  <2>5. ToSet(start) \subseteq ToSet(r)
    BY <2>3 DEF Loop
  <2>6. ToSet(r) \subseteq ToSet(start) \cup {list[i] : i \in 1 .. n + 1}
    BY <2>3 DEF Loop
  <2>7. Len(r) <= total
    BY <1>2, <2>2
  <2>8. ~(Len(start) >= total)
    BY <1>2 DEF Loop
  <2>9. \A i \in 1 .. n + 1 : list[i] \in clmap => list[i] \in ToSet(r)
    BY <1>1, <1>2, <2>3 DEF Loop
  <2>10. ASSUME NEW d \in ToSet(r) \ ToSet(start)
         PROVE  \E i \in 1 .. n + 1 :
                   list[i] = d /\ \A j \in 1 .. i : list[j] \in clmap => list[j] \in ToSet(r)
    <3>1. CASE d = c
      <4>1. n + 1 \in 1 .. n + 1 /\ list[n + 1] = d
        BY <3>1
      <4>2. QED BY <2>9, <4>1
    <3>2. CASE d \in ToSet(picked)
      <4>1. PICK i \in 1 .. n :
                   list[i] = d /\ \A j \in 1 .. i : list[j] \in clmap => list[j] \in ToSet(picked)
        BY <2>10, <3>2 DEF Loop
      <4>2. i \in 1 .. n + 1
        OBVIOUS
      <4>3. QED BY <2>3, <4>1, <4>2
    <3>3. QED BY <2>3, <2>10, <3>1, <3>2
  <2> HIDE DEF c
  <2>11. Loop(clmap, total, start, list, n + 1, r)
    BY <2>2, <2>4, <2>5, <2>6, <2>7, <2>8, <2>9, <2>10 DEF Loop
  <2>12. QED BY <2>1, <2>11 DEF c
<1>3. CASE ~(c \in clmap \ ToSet(picked) /\ Len(picked) < total)
  <2>1. Take(clmap, total, picked, c) = picked
    BY <1>3 DEF Take
  <2>2. Len(picked) < total => \A i \in 1 .. n + 1 : list[i] \in clmap => list[i] \in ToSet(picked)
    BY <1>1, <1>3 DEF Loop
  <2>3. \A i \in 1 .. n : i \in 1 .. n + 1
    OBVIOUS
  <2>4. Loop(clmap, total, start, list, n + 1, picked)
    BY <2>2, <2>3 DEF Loop
  <2>5. QED BY <2>1, <2>4
<1>4. QED BY <1>2, <1>3

LEMMA LoopResult ==
    ASSUME NEW clmap, NEW total \in Int, NEW start \in Seq(clmap), IsInjective(start),
           NEW S, NEW list \in Seq(S)
    PROVE  Loop(clmap, total, start, list, Len(list), TakeFrom(clmap, total, start, list))
<1> DEFINE N == Len(list)
           Turn(p, n) == Take(clmap, total, p, list[n])
           Runs1(f) == f = [n \in 0 .. N |-> IF n = 0 THEN start ELSE Turn(f[n - 1], n)]
           G == [n \in 1 .. N |-> [p \in Seq(clmap) |-> Turn(p, n)]]
<1>1. N \in Nat
  OBVIOUS
<1>2. G \in [1 .. N -> [Seq(clmap) -> Seq(clmap)]]
  <2>1. ASSUME NEW n \in 1 .. N, NEW p \in Seq(clmap) PROVE Turn(p, n) \in Seq(clmap)
    BY DEF Take
  <2>2. QED BY <2>1
<1> HIDE DEF N
<1>3. PICK g : Iterates(Seq(clmap), start, N, G, g)
  <2> HIDE DEF G
  <2>1. QED BY <1>1, <1>2, BoundedRecursion
<1>4. Runs1(g)
  <2>1. \A n \in 0 .. N : n # 0 => n \in 1 .. N /\ n - 1 \in 0 .. N
    BY <1>1
  <2>2. \A n \in 0 .. N : g[n] \in Seq(clmap)
    BY <1>3 DEF Iterates
  <2>3. \A n \in 0 .. N : n # 0 => G[n][g[n - 1]] = Turn(g[n - 1], n)
    BY <2>1, <2>2
  <2> HIDE DEF G, Turn
  <2>4. QED BY <1>3, <2>3 DEF Iterates
<1> DEFINE f == CHOOSE h : Runs1(h)
<1>5. Runs1(f)
  <2> HIDE DEF Runs1
  <2>1. QED BY <1>4
<1>6. TakeFrom(clmap, total, start, list) = f[N]
  BY DEF TakeFrom, N
<1> HIDE DEF f
<1> DEFINE T == {n \in 0 .. N : Loop(clmap, total, start, list, n, f[n])}
<1>7. 0 \in T
  <2>1. f[0] = start
    BY <1>1, <1>5
  <2>2. Loop(clmap, total, start, list, 0, start)
    BY DEF Loop
  <2>3. QED BY <1>1, <2>1, <2>2
<1>8. ASSUME NEW n \in T, n < N PROVE n + 1 \in T
  <2>1. n \in Nat /\ n + 1 \in 0 .. N /\ n + 1 # 0 /\ (n + 1) - 1 = n
    BY <1>1, <1>8
  <2>2. f[n + 1] = Turn(f[n], n + 1)
    <3> HIDE DEF Turn
    <3>1. QED BY <1>5, <2>1
  <2>3. Loop(clmap, total, start, list, n, f[n])
    OBVIOUS
  <2>4. Loop(clmap, total, start, list, n + 1, Turn(f[n], n + 1))
    BY <1>8, <2>1, <2>3, LoopTurn DEF N
  <2>5. QED BY <2>1, <2>2, <2>4
<1>9. N \in T
  <2>1. T \in SUBSET (0 .. N)
    OBVIOUS
  <2>2. \A n \in T : n < N => n + 1 \in T
    BY <1>8
  <2> HIDE DEF T
  <2>3. \A n \in 0 .. N : n \in T
    BY <1>1, <1>7, <2>1, <2>2, BoundedInduction
  <2>4. QED BY <1>1, <2>3
<1>10. QED BY <1>6, <1>9 DEF N

-----------------------------------------------------------------------------
(* sortClustersByResourceHint.                                              *)

\* s is in the order of the hint.
Ranked(s) == \A i, j \in DOMAIN s : i < j => ~Before(spec, view, s[j], s[i])

LEMMA EligibleClusters ==
    ASSUME TypeOK
    PROVE  /\ IsFiniteSet(Eligible(spec, view))
           /\ \A c \in Eligible(spec, view) : c \in Clusters /\ view[c].res \in Nat
<1>1. Eligible(spec, view) \subseteq Clusters
  BY DEF Eligible, Listed
<1>2. IsFiniteSet(Eligible(spec, view))
  BY <1>1, InputsAssumption, FS_Subset
<1>3. \A c \in Eligible(spec, view) : view[c].res \in Nat
  BY DEF TypeOK, View, ClusterState, Eligible, Listed
<1>4. QED BY <1>1, <1>2, <1>3

\* What Less is in an insertion: x goes before y only if it may, and stays after y
\* only if it may.
LEMMA LessAgrees ==
    ASSUME TypeOK, spec.hint # "none",
           NEW x \in Eligible(spec, view), NEW y \in Eligible(spec, view)
    PROVE  /\ Less(x, y) => ~Before(spec, view, y, x)
           /\ ~Less(x, y) => ~Before(spec, view, x, y)
<1>1. view[x].res \in Nat /\ view[y].res \in Nat
  BY EligibleClusters
<1>2. spec.hint \in {"asc", "desc"}
  BY InputsAssumption DEF TypeOK, SpecRecord
<1>3. QED BY <1>1, <1>2 DEF Less, Before

LEMMA BeforeTransitive ==
    ASSUME TypeOK, spec.hint # "none",
           NEW x \in Eligible(spec, view), NEW y \in Eligible(spec, view),
           NEW z \in Eligible(spec, view),
           ~Before(spec, view, y, x), ~Before(spec, view, z, y)
    PROVE  ~Before(spec, view, z, x)
<1>1. view[x].res \in Nat /\ view[y].res \in Nat /\ view[z].res \in Nat
  BY EligibleClusters
<1>2. spec.hint \in {"asc", "desc"}
  BY InputsAssumption DEF TypeOK, SpecRecord
<1>3. QED BY <1>1, <1>2 DEF Before

LEMMA Insertion ==
    ASSUME TypeOK, spec.hint # "none",
           NEW s \in Seq(Eligible(spec, view)), Ranked(s), NEW x \in Eligible(spec, view)
    PROVE  /\ Insert(s, x) \in Seq(Eligible(spec, view))
           /\ ToSet(Insert(s, x)) = ToSet(s) \cup {x}
           /\ Ranked(Insert(s, x))
<1> DEFINE E == Eligible(spec, view)
           N == Len(s)
           stays == {i \in DOMAIN s : ~Less(x, s[i])}
           m == Max({0} \cup stays)
           r == InsertAt(s, m + 1, x)
<1>1. N \in Nat /\ DOMAIN s = 1 .. N
  BY Elements
<1>2. m \in {0} \cup stays /\ \A i \in {0} \cup stays : i <= m
  <2>1. {0} \cup stays \in SUBSET (0 .. N)
    BY <1>1
  <2> HIDE DEF stays
  <2>2. QED BY <1>1, <2>1, MaxExists
<1>3. Insert(s, x) = r
  <2>1. 1 + m = m + 1
    BY <1>1, <1>2
  <2>2. QED BY <2>1 DEF Insert
<1>4. \A i \in 1 .. N : i > m => Less(x, s[i])
  BY <1>1, <1>2
<1>5. m \in 0 .. N /\ (m # 0 => ~Less(x, s[m]))
  BY <1>1, <1>2
<1> HIDE DEF m
<1>6. /\ r \in Seq(E)
      /\ Len(r) = N + 1
      /\ \A i \in 1 .. N + 1 : r[i] = IF i < m + 1 THEN s[i] ELSE IF i = m + 1 THEN x ELSE s[i - 1]
  <2>1. PICK p \in 1 .. Len(s) + 1 : p = m + 1
    BY <1>1, <1>5
  <2> HIDE DEF E
  <2>2. s \in Seq(E) /\ x \in E
    BY DEF E
  <2>3. /\ InsertAt(s, p, x) \in Seq(E)
        /\ Len(InsertAt(s, p, x)) = Len(s) + 1
        /\ \A i \in 1 .. Len(s) + 1 :
              InsertAt(s, p, x)[i] = IF i < p THEN s[i] ELSE IF i = p THEN x ELSE s[i - 1]
    BY <2>2, InsertAtPlace
  <2>4. QED BY <2>1, <2>3
<1> HIDE DEF r, E, N
<1>7. \A i \in 1 .. N : s[i] \in E
  BY <1>1, Elements DEF E, N
<1>8. DOMAIN r = 1 .. N + 1 /\ ToSet(r) = {r[i] : i \in 1 .. N + 1} /\ ToSet(s) = {s[i] : i \in 1 .. N}
  BY <1>6, Elements DEF E, N
<1>9. ToSet(r) = ToSet(s) \cup {x}
  <2>1. ASSUME NEW i \in 1 .. N + 1 PROVE r[i] \in ToSet(s) \cup {x}
    <3>1. CASE i < m + 1
      BY <1>1, <1>5, <1>6, <1>8, <3>1
    <3>2. CASE i > m + 1
      <4>1. i - 1 \in 1 .. N
        BY <1>1, <1>5, <3>2
      <4>2. r[i] = s[i - 1]
        BY <1>5, <1>6, <3>2
      <4>3. QED BY <1>8, <4>1, <4>2
    <3>3. CASE i = m + 1
      BY <1>5, <1>6, <3>3
    <3>4. QED BY <1>5, <3>1, <3>2, <3>3
  <2>2. ASSUME NEW i \in 1 .. N PROVE s[i] \in ToSet(r)
    <3>1. CASE i <= m
      <4>1. i \in 1 .. N + 1 /\ r[i] = s[i]
        BY <1>1, <1>5, <1>6, <3>1
      <4>2. QED BY <1>8, <4>1
    <3>2. CASE i > m
      <4>1. i + 1 \in 1 .. N + 1 /\ (i + 1) - 1 = i /\ ~(i + 1 < m + 1) /\ i + 1 # m + 1
        BY <1>1, <1>5, <3>2
      <4>2. r[i + 1] = s[i]
        BY <1>6, <4>1
      <4>3. QED BY <1>8, <4>1, <4>2
    <3>3. QED BY <1>1, <1>5, <3>1, <3>2
  <2>3. x \in ToSet(r)
    <3>1. m + 1 \in 1 .. N + 1 /\ r[m + 1] = x
      BY <1>1, <1>5, <1>6
    <3>2. QED BY <1>8, <3>1
  <2>4. QED BY <1>8, <2>1, <2>2, <2>3
<1>10. ASSUME NEW i \in 1 .. N + 1, NEW j \in 1 .. N + 1, i < j
       PROVE  ~Before(spec, view, r[j], r[i])
  <2>1. \A k, l \in 1 .. N : k < l => ~Before(spec, view, s[l], s[k])
    BY <1>1 DEF Ranked
  <2>2. CASE j < m + 1
    <3>1. i \in 1 .. N /\ j \in 1 .. N /\ r[i] = s[i] /\ r[j] = s[j]
      BY <1>1, <1>5, <1>6, <1>10, <2>2
    <3>2. QED BY <1>10, <2>1, <3>1
  <2>3. CASE j = m + 1
    <3>1. i \in 1 .. N /\ m \in 1 .. N /\ m # 0 /\ i <= m /\ r[i] = s[i] /\ r[j] = x
      BY <1>1, <1>5, <1>6, <1>10, <2>3
    <3>2. ~Before(spec, view, x, s[m])
      BY <1>5, <1>7, <3>1, LessAgrees DEF E
    <3>3. CASE i = m
      BY <3>1, <3>2, <3>3
    <3>4. CASE i < m
      BY <1>7, <2>1, <3>1, <3>2, <3>4, BeforeTransitive DEF E
    <3>5. QED BY <1>5, <3>1, <3>3, <3>4
  <2>4. CASE i < m + 1 /\ j > m + 1
    <3>1. i \in 1 .. N /\ j - 1 \in 1 .. N /\ i < j - 1 /\ r[i] = s[i] /\ r[j] = s[j - 1]
      BY <1>1, <1>5, <1>6, <1>10, <2>4
    <3>2. QED BY <2>1, <3>1
  <2>5. CASE i = m + 1
    <3>1. j - 1 \in 1 .. N /\ j - 1 > m /\ r[i] = x /\ r[j] = s[j - 1]
      BY <1>1, <1>5, <1>6, <1>10, <2>5
    <3>2. Less(x, s[j - 1])
      BY <1>4, <3>1
    <3>3. QED BY <1>7, <3>1, <3>2, LessAgrees DEF E
  <2>6. CASE i > m + 1
    <3>1. i - 1 \in 1 .. N /\ j - 1 \in 1 .. N /\ i - 1 < j - 1
          /\ r[i] = s[i - 1] /\ r[j] = s[j - 1]
      BY <1>1, <1>5, <1>6, <1>10, <2>6
    <3>2. QED BY <2>1, <3>1
  <2>7. QED BY <1>5, <1>10, <2>2, <2>3, <2>4, <2>5, <2>6
<1>11. Ranked(r)
  BY <1>8, <1>10 DEF Ranked
<1>12. QED BY <1>3, <1>6, <1>9, <1>11 DEF E

LEMMA SortResult ==
    ASSUME TypeOK, spec.hint # "none", NEW list \in Seq(Eligible(spec, view))
    PROVE  /\ Sort(list) \in Seq(Eligible(spec, view))
           /\ ToSet(Sort(list)) = ToSet(list)
           /\ Ranked(Sort(list))
<1> DEFINE E == Eligible(spec, view)
           N == Len(list)
           X == {s \in Seq(E) : Ranked(s)}
           Runs1(f) == f = [n \in 0 .. N |-> IF n = 0 THEN <<>> ELSE Insert(f[n - 1], list[n])]
           G == [n \in 1 .. N |-> [s \in X |-> Insert(s, list[n])]]
<1>1. N \in Nat /\ \A n \in 1 .. N : list[n] \in E
  BY Elements, ElementOfSeq
<1>2. <<>> \in X
  BY DEF Ranked
<1>3. G \in [1 .. N -> [X -> X]]
  <2>1. ASSUME NEW n \in 1 .. N, NEW s \in X PROVE Insert(s, list[n]) \in X
    BY <1>1, Insertion
  <2> HIDE DEF X
  <2>2. QED BY <2>1
<1> HIDE DEF N, X
<1>4. PICK g : Iterates(X, <<>>, N, G, g)
  <2> HIDE DEF G
  <2>1. QED BY <1>1, <1>2, <1>3, BoundedRecursion
<1>5. Runs1(g)
  <2>1. \A n \in 0 .. N : n # 0 => n \in 1 .. N /\ n - 1 \in 0 .. N
    BY <1>1
  <2>2. \A n \in 0 .. N : g[n] \in X
    BY <1>4 DEF Iterates
  <2>3. \A n \in 0 .. N : n # 0 => G[n][g[n - 1]] = Insert(g[n - 1], list[n])
    BY <2>1, <2>2
  <2> HIDE DEF G
  <2>4. QED BY <1>4, <2>3 DEF Iterates
<1> DEFINE f == CHOOSE h : Runs1(h)
<1>6. Runs1(f)
  <2> HIDE DEF Runs1
  <2>1. QED BY <1>5
<1>7. Sort(list) = f[N]
  BY DEF Sort, N
<1> HIDE DEF f
<1> DEFINE T == {n \in 0 .. N : f[n] \in X /\ ToSet(f[n]) = {list[i] : i \in 1 .. n}}
<1>8. 0 \in T
  <2>1. f[0] = <<>>
    BY <1>1, <1>6
  <2>2. ToSet(<<>>) = {list[i] : i \in 1 .. 0}
    BY DEF ToSet
  <2>3. QED BY <1>1, <1>2, <2>1, <2>2
<1>9. ASSUME NEW n \in T, n < N PROVE n + 1 \in T
  <2>1. n \in Nat /\ n + 1 \in 0 .. N /\ n + 1 \in 1 .. N /\ n + 1 # 0 /\ (n + 1) - 1 = n
    BY <1>1, <1>9
  <2>2. f[n + 1] = Insert(f[n], list[n + 1])
    BY <1>6, <2>1
  <2>3. f[n] \in Seq(E) /\ Ranked(f[n]) /\ ToSet(f[n]) = {list[i] : i \in 1 .. n}
    BY DEF X
  <2>4. /\ Insert(f[n], list[n + 1]) \in Seq(E) /\ Ranked(Insert(f[n], list[n + 1]))
        /\ ToSet(Insert(f[n], list[n + 1])) = ToSet(f[n]) \cup {list[n + 1]}
    BY <1>1, <2>1, <2>3, Insertion
  <2>5. \A i \in 1 .. n + 1 : i \in 1 .. n \/ i = n + 1
    BY <2>1
  <2>6. {list[i] : i \in 1 .. n + 1} = {list[i] : i \in 1 .. n} \cup {list[n + 1]}
    BY <2>1, <2>5
  <2>7. QED BY <2>1, <2>2, <2>3, <2>4, <2>6 DEF X
<1>10. N \in T
  <2>1. T \in SUBSET (0 .. N)
    OBVIOUS
  <2>2. \A n \in T : n < N => n + 1 \in T
    BY <1>9
  <2> HIDE DEF T
  <2>3. \A n \in 0 .. N : n \in T
    BY <1>1, <1>8, <2>1, <2>2, BoundedInduction
  <2>4. QED BY <1>1, <2>3
<1>11. ToSet(list) = {list[i] : i \in 1 .. N}
  BY Elements DEF N
<1>12. QED BY <1>7, <1>10, <1>11 DEF X

-----------------------------------------------------------------------------
(* What a reconciliation picks.                                             *)

LEMMA Orders ==
    ASSUME NEW S, IsFiniteSet(S), NEW order \in MapOrders(S)
    PROVE  order \in Seq(S) /\ IsInjective(order) /\ ToSet(order) = S
<1> DEFINE n == Cardinality(S)
<1>1. n \in Nat
  BY FS_CardinalityType
<1>2. order \in [1 .. n -> S] /\ \A i, j \in 1 .. n : i # j => order[i] # order[j]
  BY DEF MapOrders, SetToSeqs
<1>3. IsFiniteSet(1 .. n) /\ Cardinality(1 .. n) = n
  <2>1. 1 \in Int /\ n \in Int
    BY <1>1
  <2>2. IsFiniteSet(1 .. n) /\ Cardinality(1 .. n) = IF 1 > n THEN 0 ELSE n - 1 + 1
    BY <2>1, FS_Interval
  <2>3. QED BY <1>1, <2>2
<1> HIDE DEF n
<1>4. order \in Injection(1 .. n, S)
  BY <1>2 DEF Injection, IsInjective
<1>5. order \in Surjection(1 .. n, S)
  BY <1>3, <1>4, FS_Injection DEF n
<1>6. order \in Seq(S)
  BY <1>1, <1>2
<1>7. QED BY <1>2, <1>5, <1>6 DEF Surjection, ToSet, IsInjective

\* The ranges over the map have an order.
LEMMA OrdersExist ==
    ASSUME NEW S, IsFiniteSet(S)
    PROVE  MapOrders(S) # {}
<1> DEFINE n == Cardinality(S)
<1>1. ExistsBijection(1 .. n, S)
  BY FS_CardinalityType
<1>2. PICK f : f \in Bijection(1 .. n, S)
  BY <1>1 DEF ExistsBijection
<1>3. f \in MapOrders(S)
  BY <1>2 DEF Bijection, Injection, IsInjective, MapOrders, SetToSeqs
<1>4. QED BY <1>3

LEMMA Numbers ==
    ASSUME TypeOK, NEW n \in Nat
    PROVE  /\ Limit(n) \in Int /\ Limit(n) <= n
           /\ Total(spec, n) = IF Limit(n) < 0 THEN 0 ELSE Limit(n)
<1>1. spec.replicas \in Int \cup {Nil}
  BY InputsAssumption DEF TypeOK, SpecRecord
<1>2. QED BY <1>1 DEF Limit, Total

\* The loop has picked as many as it is to.
LEMMA LoopFills ==
    ASSUME NEW clmap, IsFiniteSet(clmap), NEW total \in Int, total <= Cardinality(clmap),
           NEW start \in Seq(clmap), Len(start) <= total \/ start = <<>>, NEW list,
           ToSet(list) = clmap, NEW S, list \in Seq(S),
           NEW r, Loop(clmap, total, start, list, Len(list), r)
    PROVE  /\ IsFiniteSet(ToSet(r)) /\ ToSet(r) \subseteq clmap
           /\ Cardinality(ToSet(r)) = IF total < 0 THEN 0 ELSE total
<1>1. r \in Seq(clmap) /\ IsInjective(r)
  BY DEF Loop
<1>2. IsFiniteSet(ToSet(r)) /\ Cardinality(ToSet(r)) = Len(r) /\ ToSet(r) \subseteq clmap /\ Len(r) \in Nat
  BY <1>1, DistinctLength, Elements
<1>3. CASE Len(r) < total
  <2>1. ToSet(list) = {list[i] : i \in 1 .. Len(list)}
    BY Elements
  <2>2. clmap \subseteq ToSet(r)
    BY <1>3, <2>1 DEF Loop
  <2>3. ToSet(r) = clmap
    BY <1>2, <2>2
  <2>4. QED BY <1>2, <1>3, <2>3
<1>4. CASE Len(r) >= total
  <2>1. Len(<<>>) = 0
    OBVIOUS
  <2>2. Len(r) <= total \/ r = <<>>
    BY <1>4, <2>1 DEF Loop
  <2>3. QED BY <1>2, <1>4, <2>1, <2>2
<1>5. QED BY <1>2, <1>3, <1>4

LEMMA UnsortedResult ==
    ASSUME TypeOK, spec.hint = "none", NEW order \in MapOrders(Eligible(spec, view))
    PROVE  LET r == Pick(Eligible(spec, view), order)
           IN  /\ r \in Seq(Eligible(spec, view)) /\ IsInjective(r)
               /\ ToSet(r) \in Picks(spec, view, Eligible(spec, view), Names(decisions))
<1> DEFINE E == Eligible(spec, view)
           names == NamesOf(decisions)
           total == Limit(Cardinality(E))
           old == TakeFrom(E, total, <<>>, names)
           r == TakeFrom(E, total, old, order)
<1>1. IsFiniteSet(E) /\ Cardinality(E) \in Nat
  BY EligibleClusters, FS_CardinalityType
<1>2. total \in Int /\ total <= Cardinality(E)
      /\ Total(spec, Cardinality(E)) = IF total < 0 THEN 0 ELSE total
  BY <1>1, Numbers
<1>3. order \in Seq(E) /\ IsInjective(order) /\ ToSet(order) = E
  BY <1>1, Orders
<1>4. names \in Seq(Clusters) /\ ToSet(names) = Names(decisions)
  <2>1. decisions \in Seq(Decision) /\ DOMAIN decisions = 1 .. Len(decisions) /\ Len(decisions) \in Nat
    BY Elements DEF TypeOK
  <2>2. ASSUME NEW i \in 1 .. Len(decisions) PROVE decisions[i].name \in Clusters
    <3>1. decisions[i] \in Decision
      BY <2>1, ElementOfSeq
    <3>2. QED BY <3>1 DEF Decision
  <2>3. QED BY <2>1, <2>2 DEF NamesOf, Names
<1>5. Pick(E, order) = r
  BY DEF Pick, PickUnsorted
<1> HIDE DEF E, total, names
<1>6. <<>> \in Seq(E) /\ IsInjective(<<>>) /\ ToSet(<<>>) = {} /\ Len(<<>>) = 0
  BY DEF IsInjective, ToSet
<1>7. Loop(E, total, <<>>, names, Len(names), old)
  BY <1>2, <1>4, <1>6, LoopResult
<1> HIDE DEF old
<1>8. old \in Seq(E) /\ IsInjective(old) /\ (Len(old) <= total \/ old = <<>>)
  BY <1>7 DEF Loop
<1>9. Loop(E, total, old, order, Len(order), r)
  BY <1>2, <1>3, <1>8, LoopResult
<1> HIDE DEF r
<1>10. IsFiniteSet(ToSet(r)) /\ ToSet(r) \subseteq E /\ Cardinality(ToSet(r)) = Total(spec, Cardinality(E))
  BY <1>1, <1>2, <1>3, <1>8, <1>9, LoopFills
<1>11. ToSet(names) = {names[i] : i \in 1 .. Len(names)}
  BY <1>4, Elements
<1>12. ToSet(old) \subseteq Names(decisions) \cap E
  <2>1. ToSet(old) \subseteq E
    BY <1>8, Elements
  <2>2. QED BY <1>4, <1>6, <1>7, <1>11, <2>1 DEF Loop
<1>13. ToSet(r) \subseteq Names(decisions) \cap E \/ Names(decisions) \cap E \subseteq ToSet(r)
  <2>1. CASE Len(old) >= total
    BY <1>9, <1>12, <2>1 DEF Loop
  <2>2. CASE Len(old) < total
    <3>1. Names(decisions) \cap E \subseteq ToSet(old)
      BY <1>4, <1>7, <1>11, <2>2 DEF Loop
    <3>2. QED BY <1>9, <3>1 DEF Loop
  <2>3. Len(old) \in Nat
    BY <1>8, Elements
  <2>4. QED BY <1>2, <2>1, <2>2, <2>3
<1>14. ToSet(r) \in Picks(spec, view, E, Names(decisions))
  BY <1>10, <1>13 DEF Picks
<1>15. r \in Seq(E) /\ IsInjective(r)
  BY <1>9 DEF Loop
<1>16. QED BY <1>5, <1>14, <1>15 DEF E

LEMMA SortedResult ==
    ASSUME TypeOK, spec.hint # "none", NEW order \in MapOrders(Eligible(spec, view))
    PROVE  LET r == Pick(Eligible(spec, view), order)
           IN  /\ r \in Seq(Eligible(spec, view)) /\ IsInjective(r)
               /\ ToSet(r) \in Picks(spec, view, Eligible(spec, view), Names(decisions))
<1> DEFINE E == Eligible(spec, view)
           total == Limit(Cardinality(E))
           list == Sort(order)
           r == TakeFrom(E, total, <<>>, list)
<1>1. IsFiniteSet(E) /\ Cardinality(E) \in Nat
  BY EligibleClusters, FS_CardinalityType
<1>2. total \in Int /\ total <= Cardinality(E)
      /\ Total(spec, Cardinality(E)) = IF total < 0 THEN 0 ELSE total
  BY <1>1, Numbers
<1>3. order \in Seq(E) /\ ToSet(order) = E
  BY <1>1, Orders
<1>4. list \in Seq(E) /\ ToSet(list) = E /\ Ranked(list)
  BY <1>3, SortResult
<1>5. Pick(E, order) = r
  BY DEF Pick
<1> HIDE DEF E, total, list
<1> DEFINE start == <<>>
<1>6. start \in Seq(E) /\ IsInjective(start) /\ ToSet(start) = {}
  BY DEF IsInjective, ToSet
<1>7. Loop(E, total, start, list, Len(list), r)
  BY <1>2, <1>4, <1>6, LoopResult
<1> HIDE DEF r
<1>8. IsFiniteSet(ToSet(r)) /\ ToSet(r) \subseteq E /\ Cardinality(ToSet(r)) = Total(spec, Cardinality(E))
  <2>1. Len(start) <= total \/ start = <<>>
    OBVIOUS
  <2> HIDE DEF start
  <2>2. QED BY <1>1, <1>2, <1>4, <1>6, <1>7, <2>1, LoopFills
<1>9. ASSUME NEW x \in ToSet(r), NEW y \in E \ ToSet(r)
      PROVE  ~Before(spec, view, y, x)
  <2>1. DOMAIN list = 1 .. Len(list) /\ Len(list) \in Nat /\ ToSet(list) = {list[i] : i \in 1 .. Len(list)}
    BY <1>4, Elements
  <2>2. PICK i \in 1 .. Len(list) :
            list[i] = x /\ \A j \in 1 .. i : list[j] \in E => list[j] \in ToSet(r)
    BY <1>6, <1>7 DEF Loop
  <2>3. PICK k \in 1 .. Len(list) : list[k] = y
    BY <1>4, <2>1
  <2>4. i < k
    <3>1. ~(k \in 1 .. i)
      BY <2>2, <2>3
    <3>2. QED BY <2>1, <3>1
  <2>5. QED BY <1>4, <2>1, <2>2, <2>3, <2>4 DEF Ranked
<1>10. ToSet(r) \in Picks(spec, view, E, Names(decisions))
  BY <1>8, <1>9 DEF Picks
<1>11. r \in Seq(E) /\ IsInjective(r)
  BY <1>7 DEF Loop
<1>12. QED BY <1>5, <1>10, <1>11 DEF E

LEMMA NothingWanted ==
    ASSUME TypeOK, spec.replicas = 0
    PROVE  {} \in Picks(spec, view, Eligible(spec, view), Names(decisions))
<1> DEFINE E == Eligible(spec, view)
<1>1. Cardinality(E) \in Nat /\ Cardinality({}) = 0
  BY EligibleClusters, FS_CardinalityType, FS_EmptySet
<1>2. Total(spec, Cardinality(E)) = 0
  BY <1>1, InputsAssumption DEF Total
<1>3. QED BY <1>1, <1>2 DEF Picks

\* The decisions computed: chosen as the sets are, without repetition, and this
\* controller's.
LEMMA DecideResult ==
    ASSUME TypeOK, NEW order \in MapOrders(Eligible(spec, view))
    PROVE  /\ Decide(order) \in Seq(Decision)
           /\ Proper(Decide(order))
           /\ Names(Decide(order)) \in Picks(spec, view, Eligible(spec, view), Names(decisions))
<1> DEFINE E == Eligible(spec, view)
           new == IF spec.replicas = 0 THEN <<>> ELSE Pick(E, order)
<1>1. new \in Seq(E) /\ IsInjective(new) /\ ToSet(new) \in Picks(spec, view, E, Names(decisions))
  <2>1. CASE spec.replicas = 0
    <3>1. ToSet(<<>>) = {} /\ IsInjective(<<>>) /\ <<>> \in Seq(E)
      BY DEF ToSet, IsInjective
    <3>2. QED BY <2>1, <3>1, NothingWanted
  <2>2. CASE spec.replicas # 0
    BY <2>2, SortedResult, UnsortedResult
  <2>3. QED BY <2>1, <2>2
<1>2. Decide(order) = [i \in DOMAIN new |-> Own(new[i])]
  BY DEF Decide
<1> HIDE DEF new
<1>3. E \subseteq Clusters
  BY EligibleClusters
<1>4. DOMAIN new = 1 .. Len(new) /\ Len(new) \in Nat /\ \A i \in 1 .. Len(new) : new[i] \in Clusters
  BY <1>1, <1>3, Elements DEF ToSet
<1>5. /\ Decide(order) \in Seq(Decision) /\ DOMAIN Decide(order) = 1 .. Len(new)
      /\ \A i \in 1 .. Len(new) : Decide(order)[i] = Own(new[i]) /\ Decide(order)[i].name = new[i]
  BY <1>2, <1>4 DEF Decision, Own
<1>6. NamesOf(Decide(order)) = new
  <2>1. new = [i \in 1 .. Len(new) |-> new[i]]
    BY <1>1, <1>4
  <2>2. QED BY <1>5, <2>1 DEF NamesOf
<1>7. Proper(Decide(order))
  BY <1>1, <1>4, <1>5 DEF Proper, IsInjective
<1>8. QED BY <1>1, <1>5, <1>6, <1>7 DEF Names

\* The comparison by map sees every difference of names, and of namespaces too if
\* no cluster was named twice.
LEMMA NotUpdated ==
    ASSUME TypeOK, NEW new, new \in Seq(Decision), Proper(new), ~Updated(new)
    PROVE  /\ Names(decisions) = Names(new)
           /\ IsInjective(NamesOf(decisions)) => Proper(decisions)
<1>1. Names(decisions) = {decisions[i].name : i \in DOMAIN decisions} /\ Names(new) = {new[i].name : i \in DOMAIN new}
  BY DEF Names, NamesOf, ToSet
<1>2. \A i \in DOMAIN new : new[i].name \in Names(decisions) /\ new[i].ns = OldNamespace(new[i].name)
  BY DEF Updated
<1>3. Names(decisions) = Names(new)
  <2>1. Names(decisions) \ Names(new) = {}
    BY DEF Updated
  <2>2. Names(new) \subseteq Names(decisions)
    BY <1>1, <1>2
  <2>3. QED BY <2>1, <2>2
<1>4. ASSUME IsInjective(NamesOf(decisions)) PROVE Proper(decisions)
  <2>1. \A i, j \in DOMAIN decisions : decisions[i].name = decisions[j].name => i = j
    BY <1>4 DEF IsInjective, NamesOf
  <2>2. ASSUME NEW i \in DOMAIN decisions PROVE decisions[i] = Own(decisions[i].name)
    <3>1. PICK k \in DOMAIN new : new[k].name = decisions[i].name
      BY <1>1, <1>3
    <3>2. new[k].ns = new[k].name
      BY <3>1 DEF Proper, Own
    <3>3. {j \in DOMAIN decisions : decisions[j].name = decisions[i].name} = {i}
      BY <2>1
    <3>4. Max({i}) = i
      <4>1. i \in Nat /\ \A y \in {i} : i >= y
        BY DEF TypeOK
      <4>2. QED BY <4>1 DEF Max
    <3>5. decisions[i].ns = decisions[i].name
      BY <1>2, <3>1, <3>2, <3>3, <3>4 DEF OldNamespace
    <3>6. decisions[i] \in Decision
      BY DEF TypeOK
    <3>7. QED BY <3>5, <3>6 DEF Decision, Own
  <2>3. QED BY <2>1, <2>2 DEF Proper
<1>5. QED BY <1>3, <1>4

LEMMA Result ==
    ASSUME TypeOK, NEW order \in MapOrders(Eligible(spec, view))
    PROVE  /\ After(order) \in Seq(Decision)
           /\ Names(After(order)) \in Picks(spec, view, Eligible(spec, view), Names(decisions))
           /\ After(order) = decisions \/ Proper(After(order))
           /\ IsInjective(NamesOf(decisions)) => Proper(After(order))
<1> DEFINE new == Decide(order)
<1>1. /\ new \in Seq(Decision) /\ Proper(new)
      /\ Names(new) \in Picks(spec, view, Eligible(spec, view), Names(decisions))
  BY DecideResult
<1> HIDE DEF new
<1>2. CASE Updated(new)
  <2>1. After(order) = new
    BY <1>2 DEF After, new
  <2>2. QED BY <1>1, <2>1
<1>3. CASE ~Updated(new)
  <2>1. After(order) = decisions
    BY <1>3 DEF After, new
  <2>2. Names(decisions) = Names(new) /\ (IsInjective(NamesOf(decisions)) => Proper(decisions))
    BY <1>1, <1>3, NotUpdated
  <2>3. QED BY <1>1, <2>1, <2>2 DEF TypeOK
<1>4. QED BY <1>2, <1>3

LEMMA AlwaysImplements == TypeOK => ImplementsPicks
BY Result DEF ImplementsPicks, Leaves

-----------------------------------------------------------------------------
(* A reconciliation triggered by the status of the last.                    *)

\* Without ties, the choice that keeps what it can is unique.
LEMMA OneChoice ==
    ASSUME TypeOK, Untied, NEW S, NEW R,
           S \in Picks(spec, view, Eligible(spec, view), S),
           R \in Picks(spec, view, Eligible(spec, view), S)
    PROVE  R = S
<1> DEFINE E == Eligible(spec, view)
<1>1. IsFiniteSet(E)
  BY EligibleClusters
<1>2. S \subseteq E /\ R \subseteq E /\ Cardinality(R) = Cardinality(S)
  BY DEF Picks
<1>3. IsFiniteSet(S) /\ IsFiniteSet(R)
  BY <1>1, <1>2, FS_Subset
<1>4. R \subseteq S => R = S
  BY <1>2, <1>3, FS_Subset
<1>5. S \subseteq R => R = S
  BY <1>2, <1>3, FS_Subset
<1>6. CASE spec.hint = "none"
  <2>1. R \subseteq S \/ S \subseteq R
    BY <1>2, <1>6 DEF Picks
  <2>2. QED BY <1>4, <1>5, <2>1
<1>7. CASE spec.hint # "none"
  <2>1. ASSUME NEW x \in R \ S, NEW y \in S \ R PROVE FALSE
    <3>1. ~Before(spec, view, y, x) /\ ~Before(spec, view, x, y)
      BY <1>2, <1>7, <2>1 DEF Picks
    <3>2. x \in E /\ y \in E /\ view[x].res \in Nat /\ view[y].res \in Nat
      BY <1>2, EligibleClusters
    <3>3. spec.hint \in {"asc", "desc"}
      BY <1>7, InputsAssumption DEF TypeOK, SpecRecord
    <3>4. view[x].res = view[y].res
      BY <3>1, <3>2, <3>3 DEF Before
    <3>5. QED BY <1>7, <3>2, <3>4 DEF Untied
  <2>2. R \subseteq S \/ S \subseteq R
    BY <2>1
  <2>3. QED BY <1>4, <1>5, <2>2
<1>8. QED BY <1>6, <1>7

LEMMA AlwaysSettles == TypeOK => SelfTriggerSettles
<1> SUFFICES ASSUME TypeOK, Untied, Proper(decisions),
                    Names(decisions) \in Picks(spec, view, Eligible(spec, view), Names(decisions)),
                    NEW order \in MapOrders(Eligible(spec, view))
             PROVE  After(order) = decisions
  BY DEF SelfTriggerSettles, Leaves
<1> DEFINE new == Decide(order)
<1>1. /\ new \in Seq(Decision) /\ Proper(new)
      /\ Names(new) \in Picks(spec, view, Eligible(spec, view), Names(decisions))
  BY DecideResult
<1> HIDE DEF new
<1>2. Names(new) = Names(decisions)
  BY <1>1, OneChoice
<1>3. DOMAIN new = 1 .. Len(new) /\ Len(new) \in Nat
  BY <1>1, Elements
<1>4. Names(decisions) = {decisions[i].name : i \in DOMAIN decisions} /\ Names(new) = {new[i].name : i \in DOMAIN new}
  BY DEF Names, NamesOf, ToSet
<1>5. ASSUME NEW i \in DOMAIN new
      PROVE  new[i].name \in Names(decisions) \ Names(SubSeq(new, 1, i - 1))
  <2>1. SubSeq(new, 1, i - 1) \in Seq(Decision) /\ Len(SubSeq(new, 1, i - 1)) = i - 1
        /\ \A j \in 1 .. i - 1 : SubSeq(new, 1, i - 1)[j] = new[j]
    BY <1>1, <1>3
  <2>2. Names(SubSeq(new, 1, i - 1)) = {new[j].name : j \in 1 .. i - 1}
    <3>1. DOMAIN SubSeq(new, 1, i - 1) = 1 .. i - 1
      BY <1>3, <2>1
    <3>2. QED BY <2>1, <3>1 DEF Names, NamesOf, ToSet
  <2>3. \A j \in 1 .. i - 1 : new[j].name # new[i].name
    BY <1>1, <1>3 DEF Proper
  <2>4. QED BY <1>2, <1>4, <2>2, <2>3
<1>6. ASSUME NEW i \in DOMAIN new
      PROVE  new[i].ns = OldNamespace(new[i].name)
  <2>1. PICK k \in DOMAIN decisions : decisions[k].name = new[i].name
    BY <1>2, <1>4
  <2>2. {j \in DOMAIN decisions : decisions[j].name = new[i].name} = {k}
    BY <2>1 DEF Proper
  <2>3. Max({k}) = k
    <3>1. k \in Nat /\ \A y \in {k} : k >= y
      BY DEF TypeOK
    <3>2. QED BY <3>1 DEF Max
  <2>4. decisions[k] = Own(new[i].name) /\ new[i] = Own(new[i].name)
    BY <1>1, <2>1 DEF Proper
  <2>5. QED BY <2>2, <2>3, <2>4 DEF OldNamespace, Own
<1>7. ~Updated(new)
  BY <1>2, <1>5, <1>6 DEF Updated
<1>8. QED BY <1>7 DEF After, new

-----------------------------------------------------------------------------
(* The theorems.                                                            *)

\* The rule, the clusters and the status have their types.
THEOREM TypeCorrect == Spec => []TypeOK
<1>1. Init => TypeOK
  BY InputsAssumption DEF Init, TypeOK, View
<1>2. TypeOK /\ [Next]_vars => TypeOK'
  <2> SUFFICES ASSUME TypeOK, [Next]_vars PROVE TypeOK'
    OBVIOUS
  <2>1. ASSUME NEW order \in MapOrders(Eligible(spec, view)), Reconcile(order) PROVE TypeOK'
    BY <2>1, Result DEF Reconcile, TypeOK
  <2>2. ASSUME NEW c \in Clusters, ChangeCluster(c) PROVE TypeOK'
    BY <2>2, InputsAssumption DEF ChangeCluster, Change, TypeOK, View
  <2>3. CASE EditSpec
    BY <2>3, InputsAssumption DEF EditSpec, Change, TypeOK
  <2>4. CASE UNCHANGED vars
    BY <2>4 DEF vars, TypeOK
  <2>5. QED BY <2>1, <2>2, <2>3, <2>4 DEF Next
<1>3. QED BY <1>1, <1>2, PTL DEF Spec

\* For lists of any length, in any map order, the sort, the pick loops and the
\* comparison of one Reconcile (placement.go:156-259, placementrule_controller.go:188-218)
\* make a choice that Picks allows, which is what PlacementRuleController assumes.
THEOREM LoopsImplementPicks == Spec => []ImplementsPicks
<1>1. Spec => []TypeOK
  BY TypeCorrect
<1>2. QED BY <1>1, AlwaysImplements, PTL

\* However many clusters there are, a reconciliation that finds the status as this
\* controller may have left it writes nothing, unless a hint has ties to break.
THEOREM SelfTriggersSettle == Spec => []SelfTriggerSettles
<1>1. Spec => []TypeOK
  BY TypeCorrect
<1>2. QED BY <1>1, AlwaysSettles, PTL

\* There is always something to choose: a worker that decides is never stuck.
THEOREM AlwaysAChoice ==
    Spec => [](Picks(spec, view, Eligible(spec, view), Names(decisions)) # {})
<1>1. TypeOK => Picks(spec, view, Eligible(spec, view), Names(decisions)) # {}
  BY EligibleClusters, OrdersExist, DecideResult
<1>2. Spec => []TypeOK
  BY TypeCorrect
<1>3. QED BY <1>1, <1>2, PTL
=============================================================================
