-------------------------- MODULE LinkedListProofs --------------------------
(***************************************************************************)
(* Facts about the lists of fixed pools, for any pool and any list: what   *)
(* following the successors finds, that a list that ends holds each slot   *)
(* once, and what becomes of it when a slot is put before it or its end is *)
(* cut off.  A walk is a recursive function, so facts about it are proved  *)
(* by a least counterexample.                                              *)
(***************************************************************************)
EXTENDS LinkedLists, FiniteSetTheorems, SequenceTheorems, WellFoundedInduction, TLAPS

\* A pool of slots, and where each leads.
Pool(D, next) ==
  /\ IsFiniteSet(D) /\ 0 \notin D
  /\ next \in [D -> D \cup {0}]

\* q holds slots each of which leads to the one after it.
Chained(next, q) ==
  /\ q \in Seq(DOMAIN next)
  /\ \A i \in 1 .. Len(q) - 1 : next[q[i]] = q[i + 1]

\* q is the list that begins at `from', and it ends.
WholeList(next, from, q) ==
  /\ Chained(next, q)
  /\ q = <<>> => from = 0
  /\ q # <<>> => q[1] = from /\ next[q[Len(q)]] = 0

\* q is what following n slots from `from' finds.
Follows(next, from, n, q) ==
  /\ Chained(next, q)
  /\ Len(q) <= n
  /\ from = 0 => q = <<>>
  /\ from # 0 /\ n > 0 => q # <<>> /\ q[1] = from
  /\ q # <<>> /\ Len(q) < n => next[q[Len(q)]] = 0

\* f is the walk of up to k steps.
IsWalk(next, k, f) ==
  f = [n \in 0 .. k |->
         [i \in DOMAIN next \cup {0} |->
            IF i = 0 \/ n = 0 THEN <<>> ELSE <<i>> \o f[n - 1][next[i]]]]

\* A set of natural numbers that is not empty has a least one.
LEMMA Smallest ==
  ASSUME NEW S \in SUBSET Nat, S # {}
  PROVE  \E n \in S : \A m \in S : n <= m
<1> DEFINE R == OpToRel(<, Nat)
<1>1. IsWellFoundedOn(R, Nat)
  BY NatLessThanWellFounded
<1>2. \A x, y \in Nat : <<x, y>> \in R <=> x < y
  BY DEF OpToRel
<1> HIDE DEF R
<1>3. PICK n \in S : \A m \in S : ~(<<m, n>> \in R)
  BY <1>1, WFMin
<1>4. n \in Nat /\ \A m \in S : m \in Nat /\ ~(m < n)
  BY <1>2, <1>3
<1>5. \A m \in S : n <= m
  BY <1>4
<1> QED
  BY <1>5

\* A set of natural numbers that has a bound has a greatest one.
LEMMA Largest ==
  ASSUME NEW b \in Nat, NEW S \in SUBSET (0 .. b), S # {}
  PROVE  \E n \in S : \A m \in S : m <= n
<1> DEFINE T == {k \in Nat : \E m \in S : k = b - m}
<1>1. \A m \in S : m \in Nat /\ b - m \in T
  OBVIOUS
<1>2. T # {} /\ T \in SUBSET Nat
  BY <1>1
<1>3. PICK k \in T : \A l \in T : k <= l
  BY <1>2, Smallest
<1>4. PICK n \in S : k = b - n
  BY <1>3
<1>5. \A m \in S : b - n <= b - m
  BY <1>1, <1>3, <1>4
<1> QED
  BY <1>1, <1>5

\* What holds before a loop, and after a round if it did before, holds throughout.
LEMMA Throughout ==
  ASSUME NEW n \in Nat, NEW S, 0 \in S, \A k \in 1 .. n : k - 1 \in S => k \in S
  PROVE  \A k \in 0 .. n : k \in S
<1> DEFINE Bad == {k \in 0 .. n : k \notin S}
<1> SUFFICES ASSUME Bad # {} PROVE FALSE
  OBVIOUS
<1>1. Bad \in SUBSET Nat
  OBVIOUS
<1>2. PICK k \in Bad : \A m \in Bad : k <= m
  BY <1>1, Smallest
<1>3. k \in 0 .. n /\ k \notin S /\ k # 0
  BY <1>2
<1>4. k \in 1 .. n /\ k - 1 \in 0 .. n /\ ~(k <= k - 1)
  BY <1>3
<1>5. k - 1 \in S
  BY <1>2, <1>4
<1> QED
  BY <1>3, <1>4, <1>5

\* f is a loop of n rounds from s, each as step says.
IsLoop(step, s, n, f) == f = [k \in 0 .. n |-> IF k = 0 THEN s ELSE step[k][f[k - 1]]]

\* A loop whose rounds stay in a set is one that comes to an end.
LEMMA LoopExists ==
  ASSUME NEW n \in Nat, NEW D, NEW s \in D, NEW step \in [1 .. n -> [D -> D]]
  PROVE  \E f \in [0 .. n -> D] : IsLoop(step, s, n, f)
<1> DEFINE S == {m \in Nat : m <= n => \E f \in [0 .. m -> D] : IsLoop(step, s, m, f)}
<1>1. 0 \in S
  <2> DEFINE f == [k \in 0 .. 0 |-> s]
  <2>1. f \in [0 .. 0 -> D]
    OBVIOUS
  <2>2. f = [k \in 0 .. 0 |-> IF k = 0 THEN s ELSE step[k][f[k - 1]]]
    OBVIOUS
  <2> QED
    BY <2>1, <2>2 DEF IsLoop
<1>2. ASSUME NEW m \in 1 .. n, m - 1 \in S PROVE m \in S
  <2>1. m \in Nat /\ m - 1 \in Nat /\ m - 1 <= n /\ m # 0 /\ m - 1 \in 0 .. m - 1
    OBVIOUS
  <2>2. PICK f \in [0 .. m - 1 -> D] : IsLoop(step, s, m - 1, f)
    BY <1>2, <2>1
  <2>3. step[m] \in [D -> D] /\ f[m - 1] \in D
    BY <2>1, <2>2
  <2>4. step[m][f[m - 1]] \in D
    BY <2>3
  <2> DEFINE x == step[m][f[m - 1]]
             g == [k \in 0 .. m |-> IF k = m THEN x ELSE f[k]]
             round(h, k) == IF k = 0 THEN s ELSE step[k][h[k - 1]]
  <2>5. \A k \in 0 .. m : k # m => k \in 0 .. m - 1
    BY <2>1
  <2>6. g \in [0 .. m -> D]
    BY <2>2, <2>4, <2>5
  <2>7. \A k \in 0 .. m - 1 : f[k] = round(f, k)
    BY <2>2, Zenon DEF IsLoop
  <2>8. \A k \in 0 .. m - 1 : k \in 0 .. m /\ k # m
    BY <2>1
  <2>9. \A k \in 0 .. m - 1 : g[k] = f[k]
    BY <2>8
  <2>10. \A k \in 0 .. m : k # 0 => k - 1 \in 0 .. m - 1
    BY <2>1
  <2>11. g[m] = round(f, m)
    BY <2>1
  <2> HIDE DEF g, x
  <2>12. \A k \in 0 .. m : round(g, k) = round(f, k)
    BY <2>9, <2>10
  <2>13. \A k \in 0 .. m : g[k] = round(g, k)
    <3> HIDE DEF round
    <3> QED
      BY <2>5, <2>7, <2>9, <2>11, <2>12
  <2>14. g = [k \in 0 .. m |-> g[k]]
    BY <2>6
  <2>15. g = [k \in 0 .. m |-> round(g, k)]
    BY <2>13, <2>14
  <2>16. IsLoop(step, s, m, g)
    BY <2>15 DEF IsLoop
  <2> QED
    BY <2>1, <2>6, <2>16
<1>3. n \in 0 .. n /\ \A k \in 0 .. n : k \in S
  <2>1. \A m \in 1 .. n : m - 1 \in S => m \in S
    BY <1>2
  <2> HIDE DEF S
  <2>2. \A m \in 0 .. n : m \in S
    BY <1>1, <2>1, Throughout
  <2> QED
    BY <2>2
<1> QED
  BY <1>3

\* A set whose members are all one has at most one.
LEMMA AtMostOne ==
  ASSUME NEW S, \A x, y \in S : x = y
  PROVE  IsFiniteSet(S) /\ Cardinality(S) = IF S = {} THEN 0 ELSE 1
<1>1. CASE S = {}
  BY <1>1, FS_EmptySet
<1>2. CASE S # {}
  <2>1. PICK x : x \in S
    BY <1>2
  <2>2. S = {x}
    BY <2>1
  <2> QED
    BY <1>2, <2>2, FS_Singleton
<1> QED
  BY <1>1, <1>2

\* There is a walk of any length.
LEMMA WalkExists ==
  ASSUME NEW next, NEW k \in Nat, next \in [DOMAIN next -> DOMAIN next \cup {0}]
  PROVE  \E f : IsWalk(next, k, f)
<1> DEFINE Bad == {n \in Nat : \A f : ~IsWalk(next, n, f)}
<1> SUFFICES ASSUME Bad # {} PROVE FALSE
  OBVIOUS
<1>1. PICK n \in Bad : \A m \in Bad : n <= m
  BY Smallest
<1>2. CASE n = 0
  <2> DEFINE f == [m \in 0 .. 0 |-> [i \in DOMAIN next \cup {0} |-> <<>>]]
  <2>1. IsWalk(next, 0, f)
    BY DEF IsWalk
  <2> QED
    BY <1>2, <2>1
<1>3. CASE n # 0
  <2>1. n \in Nat /\ n - 1 \in Nat /\ n - 1 \notin Bad
    BY <1>1, <1>3
  <2>2. PICK f : IsWalk(next, n - 1, f)
    BY <2>1
  <2> DEFINE g == [m \in 0 .. n |->
                     IF m < n THEN f[m]
                     ELSE [i \in DOMAIN next \cup {0} |->
                             IF i = 0 \/ n = 0 THEN <<>> ELSE <<i>> \o f[n - 1][next[i]]]]
             step(h, m) == [i \in DOMAIN next \cup {0} |->
                              IF i = 0 \/ m = 0 THEN <<>> ELSE <<i>> \o h[m - 1][next[i]]]
  <2>3. \A m \in 0 .. n - 1 : g[m] = f[m] /\ f[m] = step(f, m)
    <3>1. \A m \in 0 .. n - 1 : m \in 0 .. n /\ m < n
      BY <2>1
    <3>2. \A m \in 0 .. n - 1 : g[m] = f[m]
      BY <3>1
    <3>3. \A m \in 0 .. n - 1 : f[m] = step(f, m)
      BY <2>2, Zenon DEF IsWalk
    <3> QED
      BY <3>2, <3>3
  <2>4. \A m \in 0 .. n - 1 : step(f, m) = step(g, m)
    <3> SUFFICES ASSUME NEW m \in 0 .. n - 1 PROVE step(f, m) = step(g, m)
      OBVIOUS
    <3>1. CASE m = 0
      BY <3>1
    <3>2. CASE m # 0
      <4>1. m - 1 \in 0 .. n - 1
        BY <3>2, <2>1
      <4>2. g[m - 1] = f[m - 1]
        BY <4>1, <2>3
      <4> QED
        BY <4>2
    <3> QED
      BY <3>1, <3>2
  <2>5. g[n] = step(g, n)
    <3>1. g[n - 1] = f[n - 1] /\ g[n] = step(f, n)
      BY <2>1, <2>3
    <3> QED
      BY <3>1
  <2>6. \A m \in 0 .. n : g[m] = step(g, m)
    <3> HIDE DEF g, step
    <3>1. \A m \in 0 .. n : m = n \/ m \in 0 .. n - 1
      BY <2>1
    <3> QED
      BY <3>1, <2>3, <2>4, <2>5
  <2>7. DOMAIN g = 0 .. n /\ g = [m \in 0 .. n |-> g[m]]
    OBVIOUS
  <2> HIDE DEF g
  <2>8. g = [m \in 0 .. n |-> step(g, m)]
    BY <2>6, <2>7
  <2>9. IsWalk(next, n, g)
    BY <2>8 DEF IsWalk
  <2> QED
    BY <2>9
<1> QED
  BY <1>2, <1>3

\* What Walk returns is what its recursive function finds.
LEMMA WalkIs ==
  ASSUME NEW next, NEW from, NEW N \in Nat, N = Cardinality(DOMAIN next),
         next \in [DOMAIN next -> DOMAIN next \cup {0}]
  PROVE  \E f : IsWalk(next, N, f) /\ Walk(next, from) = f[N][from]
<1> DEFINE w == CHOOSE f : IsWalk(next, N, f)
<1>1. IsWalk(next, N, w)
  BY WalkExists
<1>2. Walk(next, from) = w[N][from]
  BY DEF Walk, IsWalk
<1> QED
  BY <1>1, <1>2


\* A slot before a list: its elements and its length.
LEMMA SlotBefore ==
  ASSUME NEW S, NEW x \in S, NEW q \in Seq(S)
  PROVE  /\ <<x>> \o q \in Seq(S)
         /\ Len(<<x>> \o q) = Len(q) + 1
         /\ (<<x>> \o q)[1] = x
         /\ \A i \in 1 .. Len(q) : (<<x>> \o q)[i + 1] = q[i]
         /\ \A i \in 2 .. Len(q) + 1 : (<<x>> \o q)[i] = q[i - 1]
<1> <<x>> \in Seq(S) /\ Len(<<x>>) = 1
  OBVIOUS
<1> QED
  OBVIOUS

\* One step more.
LEMMA OneMoreStep ==
  ASSUME NEW next, next \in [DOMAIN next -> DOMAIN next \cup {0}], 0 \notin DOMAIN next,
         NEW n \in Nat \ {0}, NEW i \in DOMAIN next, NEW q,
         Follows(next, next[i], n - 1, q)
  PROVE  Follows(next, i, n, <<i>> \o q)
<1> DEFINE p == <<i>> \o q
<1>1. q \in Seq(DOMAIN next) /\ Len(q) \in Nat
  BY DEF Follows, Chained
<1>2. /\ p \in Seq(DOMAIN next) /\ Len(p) = Len(q) + 1 /\ p[1] = i
      /\ \A k \in 2 .. Len(q) + 1 : p[k] = q[k - 1]
  BY <1>1, SlotBefore
<1> HIDE DEF p
<1>3. \A k \in 1 .. Len(p) - 1 : next[p[k]] = p[k + 1]
  <2> SUFFICES ASSUME NEW k \in 1 .. Len(p) - 1 PROVE next[p[k]] = p[k + 1]
    OBVIOUS
  <2>1. p[k + 1] = q[k] /\ k \in 1 .. Len(q)
    BY <1>1, <1>2
  <2>2. CASE k = 1
    <3>1. q # <<>>
      BY <2>1, <1>1
    <3>2. next[i] # 0
      BY <3>1 DEF Follows
    <3>3. n - 1 > 0
      BY <2>1, <1>1 DEF Follows
    <3>4. q[1] = next[i]
      BY <3>2, <3>3 DEF Follows
    <3> QED
      BY <2>1, <2>2, <3>4, <1>2
  <2>3. CASE k > 1
    <3>1. p[k] = q[k - 1] /\ k - 1 \in 1 .. Len(q) - 1 /\ k - 1 + 1 = k
      BY <2>1, <2>3, <1>1, <1>2
    <3>2. next[q[k - 1]] = q[k - 1 + 1]
      BY <3>1 DEF Follows, Chained
    <3> QED
      BY <2>1, <3>1, <3>2
  <2> QED
    BY <2>2, <2>3
<1>4. p # <<>> /\ Len(p) <= n
  BY <1>1, <1>2 DEF Follows
<1>5. ASSUME Len(p) < n PROVE next[p[Len(p)]] = 0
  <2>1. CASE q = <<>>
    <3>1. n - 1 > 0 /\ Len(p) = 1
      BY <2>1, <1>5, <1>2
    <3>2. next[i] = 0
      BY <2>1, <3>1 DEF Follows
    <3> QED
      BY <3>1, <3>2, <1>2
  <2>2. CASE q # <<>>
    <3>1. Len(q) > 0 /\ Len(q) < n - 1 /\ p[Len(p)] = q[Len(q)]
      BY <2>2, <1>1, <1>2, <1>5
    <3> QED
      BY <2>2, <3>1 DEF Follows
  <2> QED
    BY <2>1, <2>2
<1>6. i # 0
  OBVIOUS
<1> QED
  BY <1>2, <1>3, <1>4, <1>5, <1>6 DEF Follows, Chained, p

\* What a walk finds is chained from its start, and is all of a list that is short
\* enough.
LEMMA WalkFollows ==
  ASSUME NEW D, NEW next, Pool(D, next), NEW from \in D \cup {0}
  PROVE  Follows(next, from, Cardinality(D), Walk(next, from))
<1> DEFINE N == Cardinality(D)
<1>1. DOMAIN next = D /\ N \in Nat /\ next \in [D -> D \cup {0}] /\ 0 \notin D
  BY FS_CardinalityType DEF Pool
<1> HIDE DEF N
<1>2. PICK f : IsWalk(next, N, f) /\ Walk(next, from) = f[N][from]
  BY <1>1, WalkIs DEF N
<1>3. \A n \in 0 .. N : \A i \in D \cup {0} :
        f[n][i] = IF i = 0 \/ n = 0 THEN <<>> ELSE <<i>> \o f[n - 1][next[i]]
  BY <1>1, <1>2 DEF IsWalk
<1> DEFINE Bad == {n \in 0 .. N : \E i \in D \cup {0} : ~Follows(next, i, n, f[n][i])}
<1>4. Bad = {}
  <2> SUFFICES ASSUME Bad # {} PROVE FALSE
    OBVIOUS
  <2>1. Bad \in SUBSET Nat
    BY <1>1
  <2>2. PICK n \in Bad : \A m \in Bad : n <= m
    BY <2>1, Smallest
  <2>3. PICK i \in D \cup {0} : ~Follows(next, i, n, f[n][i])
    BY <2>2
  <2>4. n \in 0 .. N /\ n \in Nat
    BY <2>2, <1>1
  <2>5. CASE i = 0 \/ n = 0
    <3>1. f[n][i] = <<>>
      BY <2>4, <2>5, <1>3
    <3>2. Follows(next, i, n, <<>>)
      BY <2>4, <2>5 DEF Follows, Chained
    <3> QED
      BY <2>3, <3>1, <3>2
  <2>6. CASE i # 0 /\ n # 0
    <3>1. f[n][i] = <<i>> \o f[n - 1][next[i]]
      BY <2>4, <2>6, <1>3
    <3>2. n - 1 \in 0 .. N /\ n - 1 \notin Bad /\ n \in Nat \ {0}
      BY <2>2, <2>4, <2>6, <1>1
    <3>3. i \in D /\ next[i] \in D \cup {0}
      BY <2>6, <1>1
    <3>4. Follows(next, next[i], n - 1, f[n - 1][next[i]])
      BY <3>2, <3>3
    <3>5. Follows(next, i, n, <<i>> \o f[n - 1][next[i]])
      BY <3>2, <3>3, <3>4, <1>1, OneMoreStep
    <3> QED
      BY <3>1, <3>5, <2>3
  <2> QED
    BY <2>5, <2>6
<1>5. N \in 0 .. N
  BY <1>1
<1> QED
  BY <1>2, <1>4, <1>5 DEF N


\* Where a chain comes back to a slot it goes on as it did before.
LEMMA SameAgain ==
  ASSUME NEW next, NEW q, Chained(next, q),
         NEW i \in 1 .. Len(q), NEW j \in 1 .. Len(q), i < j, q[i] = q[j]
  PROVE  \A k \in 0 .. Len(q) - j : q[i + k] = q[j + k]
<1> DEFINE Bad == {k \in 0 .. Len(q) - j : q[i + k] # q[j + k]}
<1> SUFFICES ASSUME Bad # {} PROVE FALSE
  OBVIOUS
<1>1. Len(q) \in Nat
  BY DEF Chained
<1>2. Bad \in SUBSET Nat
  BY <1>1
<1>3. PICK k \in Bad : \A m \in Bad : k <= m
  BY <1>2, Smallest
<1>4. k \in Nat /\ k <= Len(q) - j /\ q[i + k] # q[j + k]
  BY <1>2, <1>3
<1>5. k > 0
  <2>1. k # 0
    BY <1>4
  <2> QED
    BY <2>1, <1>4
<1>6. k - 1 \in 0 .. Len(q) - j /\ k - 1 \notin Bad
  <2>1. k - 1 \in 0 .. Len(q) - j /\ ~(k <= k - 1)
    BY <1>1, <1>4, <1>5
  <2>2. k - 1 \notin Bad
    BY <2>1, <1>3
  <2> QED
    BY <2>1, <2>2
<1>7. q[i + (k - 1)] = q[j + (k - 1)]
  BY <1>6
<1>8. /\ i + (k - 1) \in 1 .. Len(q) - 1 /\ i + (k - 1) + 1 = i + k
      /\ j + (k - 1) \in 1 .. Len(q) - 1 /\ j + (k - 1) + 1 = j + k
  BY <1>1, <1>4, <1>5
<1>9. next[q[i + (k - 1)]] = q[i + k] /\ next[q[j + (k - 1)]] = q[j + k]
  BY <1>8 DEF Chained
<1> QED
  BY <1>4, <1>7, <1>9

\* A list that ends holds no slot twice, and so is no longer than its pool.
LEMMA NoSlotTwice ==
  ASSUME NEW D, NEW next, Pool(D, next), NEW from, NEW q, WholeList(next, from, q)
  PROVE  /\ \A i, j \in 1 .. Len(q) : q[i] = q[j] => i = j
         /\ Cardinality(D) \in Nat /\ Len(q) \in Nat
         /\ Len(q) <= Cardinality(D)
<1>1. /\ DOMAIN next = D /\ q \in Seq(D) /\ Len(q) \in Nat /\ Cardinality(D) \in Nat
      /\ 0 \notin D /\ \A i \in 1 .. Len(q) : q[i] \in D
  BY FS_CardinalityType DEF Pool, WholeList, Chained
<1>2. ASSUME NEW i \in 1 .. Len(q), NEW j \in 1 .. Len(q), i < j, q[i] = q[j]
      PROVE  FALSE
  <2>1. Len(q) - j \in 0 .. Len(q) - j /\ i + (Len(q) - j) \in 1 .. Len(q) - 1
        /\ j + (Len(q) - j) = Len(q)
    BY <1>1, <1>2
  <2>2. Chained(next, q)
    BY DEF WholeList
  <2>3. q[i + (Len(q) - j)] = q[Len(q)]
    <3>1. \A k \in 0 .. Len(q) - j : q[i + k] = q[j + k]
      BY <2>2, <1>2, SameAgain
    <3>2. q[i + (Len(q) - j)] = q[j + (Len(q) - j)]
      BY <2>1, <3>1
    <3> QED
      BY <2>1, <3>2
  <2>4. next[q[i + (Len(q) - j)]] = q[i + (Len(q) - j) + 1]
    BY <2>1, <2>2 DEF Chained
  <2>5. q # <<>>
    BY <1>1
  <2>6. next[q[Len(q)]] = 0
    BY <2>5 DEF WholeList
  <2>7. q[i + (Len(q) - j) + 1] \in D
    BY <2>1, <1>1
  <2> QED
    BY <2>3, <2>4, <2>6, <2>7, <1>1
<1>3. \A i, j \in 1 .. Len(q) : q[i] = q[j] => i = j
  <2> SUFFICES ASSUME NEW i \in 1 .. Len(q), NEW j \in 1 .. Len(q), q[i] = q[j], i # j
               PROVE  FALSE
    OBVIOUS
  <2>1. i < j \/ j < i
    BY <1>1
  <2> QED
    BY <2>1, <1>2
<1>4. q \in Injection(1 .. Len(q), D)
  <2>1. q \in [1 .. Len(q) -> D]
    BY <1>1
  <2> QED
    BY <2>1, <1>3 DEF Injection, IsInjective
<1>5. Cardinality(1 .. Len(q)) <= Cardinality(D)
  BY <1>4, FS_Injection DEF Pool
<1>6. Cardinality(1 .. Len(q)) = Len(q)
  <2>1. 1 \in Int /\ Len(q) \in Int
    BY <1>1
  <2>2. Cardinality(1 .. Len(q)) = IF 1 > Len(q) THEN 0 ELSE Len(q) - 1 + 1
    BY <2>1, FS_Interval
  <2> QED
    BY <2>2, <1>1
<1> QED
  BY <1>1, <1>3, <1>5, <1>6

\* A list that ends is what its walk finds.
LEMMA ListIsWalk ==
  ASSUME NEW D, NEW next, Pool(D, next), NEW from \in D \cup {0},
         NEW p, WholeList(next, from, p)
  PROVE  Walk(next, from) = p /\ ~Endless(next, from)
<1> DEFINE N == Cardinality(D)
           q == Walk(next, from)
<1>1. Follows(next, from, N, q)
  BY WalkFollows
<1> HIDE DEF q
<1>2. /\ DOMAIN next = D /\ p \in Seq(D) /\ Len(p) \in Nat /\ N \in Nat /\ 0 \notin D
      /\ q \in Seq(D) /\ Len(q) \in Nat /\ Len(p) <= N
      /\ (\A i \in 1 .. Len(p) : p[i] \in D) /\ (\A i \in 1 .. Len(q) : q[i] \in D)
  <2>1. DOMAIN next = D /\ 0 \notin D
    BY DEF Pool
  <2>2. p \in Seq(D) /\ q \in Seq(D)
    BY <1>1, <2>1 DEF WholeList, Chained, Follows
  <2>3. N \in Nat /\ Len(p) <= N
    BY NoSlotTwice
  <2> QED
    BY <2>1, <2>2, <2>3
<1> HIDE DEF N
<1> DEFINE Bad == {k \in 1 .. Len(p) : ~(k <= Len(q) /\ p[k] = q[k])}
<1>3. Bad = {}
  <2> SUFFICES ASSUME Bad # {} PROVE FALSE
    OBVIOUS
  <2>1. Bad \in SUBSET Nat
    BY <1>2
  <2>2. PICK k \in Bad : \A m \in Bad : k <= m
    BY <2>1, Smallest
  <2>3. k \in 1 .. Len(p) /\ p # <<>> /\ ~(k <= Len(q) /\ p[k] = q[k])
    BY <2>2, <1>2
  <2>4. CASE k = 1
    <3>1. p[1] = from /\ from # 0 /\ N > 0
      BY <2>3, <2>4, <1>2 DEF WholeList
    <3>2. q # <<>> /\ q[1] = from
      BY <3>1, <1>1 DEF Follows
    <3>3. 1 <= Len(q)
      BY <3>2, <1>2
    <3> QED
      BY <2>3, <2>4, <3>1, <3>2, <3>3
  <2>5. CASE k > 1
    <3>1. k - 1 \in 1 .. Len(p) - 1 /\ k - 1 \notin Bad /\ k - 1 + 1 = k
      BY <2>2, <2>3, <2>5, <1>2
    <3>2. k - 1 <= Len(q) /\ p[k - 1] = q[k - 1]
      BY <3>1
    <3>3. next[p[k - 1]] = p[k] /\ p[k] \in D
      BY <3>1, <2>3, <1>2 DEF WholeList, Chained
    <3>4. Len(q) # k - 1
      <4> SUFFICES ASSUME Len(q) = k - 1 PROVE FALSE
        OBVIOUS
      <4>1. Len(q) < N /\ q # <<>>
        BY <3>1, <1>2, <2>5
      <4>2. next[q[Len(q)]] = 0
        BY <4>1, <1>1 DEF Follows
      <4> QED
        BY <4>2, <3>2, <3>3, <1>2
    <3>5. k <= Len(q) /\ k - 1 \in 1 .. Len(q) - 1
      BY <3>2, <3>4, <3>1, <2>3, <1>2
    <3>6. next[q[k - 1]] = q[k]
      BY <3>5, <3>1, <1>1 DEF Follows, Chained
    <3> QED
      BY <2>3, <3>2, <3>3, <3>5, <3>6
  <2> QED
    BY <2>3, <2>4, <2>5, <1>2
<1>4. Len(p) <= Len(q)
  <2>1. CASE Len(p) = 0
    BY <2>1, <1>2
  <2>2. CASE Len(p) > 0
    <3>1. Len(p) \in 1 .. Len(p)
      BY <2>2, <1>2
    <3> QED
      BY <3>1, <1>3
  <2> QED
    BY <2>1, <2>2, <1>2
<1>5. Len(q) <= Len(p)
  <2> SUFFICES ASSUME Len(p) < Len(q) PROVE FALSE
    BY <1>2
  <2>1. CASE p = <<>>
    <3>1. from = 0
      BY <2>1 DEF WholeList
    <3> QED
      BY <3>1, <1>1, <1>2 DEF Follows
  <2>2. CASE p # <<>>
    <3>1. Len(p) \in 1 .. Len(q) - 1 /\ Len(p) \in 1 .. Len(p) /\ Len(p) + 1 \in 1 .. Len(q)
      BY <2>2, <1>2
    <3>2. next[q[Len(p)]] = q[Len(p) + 1] /\ q[Len(p) + 1] \in D
      BY <3>1, <1>1, <1>2 DEF Follows, Chained
    <3>3. q[Len(p)] = p[Len(p)] /\ next[p[Len(p)]] = 0
      BY <3>1, <2>2, <1>3 DEF WholeList
    <3> QED
      BY <3>2, <3>3, <1>2
  <2> QED
    BY <2>1, <2>2
<1>6. Len(p) = Len(q) /\ \A i \in 1 .. Len(p) : p[i] = q[i]
  BY <1>2, <1>3, <1>4, <1>5
<1>7. p = q
  BY <1>2, <1>6, SeqEqual
<1>8. ~Endless(next, from)
  BY <1>7 DEF Endless, WholeList, q
<1> QED
  BY <1>7, <1>8 DEF q


\* A walk that does not end in a loop is the whole list.
LEMMA WalkIsList ==
  ASSUME NEW D, NEW next, Pool(D, next), NEW from \in D \cup {0},
         ~Endless(next, from), D # {}
  PROVE  WholeList(next, from, Walk(next, from))
<1> DEFINE q == Walk(next, from)
<1>1. Follows(next, from, Cardinality(D), q)
  BY WalkFollows
<1>2. Cardinality(D) > 0
  <2>1. IsFiniteSet(D) /\ Cardinality(D) \in Nat
    BY FS_CardinalityType DEF Pool
  <2>2. Cardinality(D) # 0
    BY <2>1, FS_EmptySet
  <2> QED
    BY <2>1, <2>2
<1>3. q # <<>> => next[q[Len(q)]] = 0
  BY DEF Endless
<1> HIDE DEF q
<1>4. q = <<>> => from = 0
  BY <1>1, <1>2 DEF Follows
<1>5. q # <<>> => q[1] = from
  BY <1>1, <1>2 DEF Follows
<1>6. Chained(next, q)
  BY <1>1 DEF Follows
<1> QED
  BY <1>3, <1>4, <1>5, <1>6 DEF WholeList, q

\* Slots that lead to nothing but themselves are a loop.
LEMMA ClosedIsEndless ==
  ASSUME NEW D, NEW next, Pool(D, next), NEW S \in SUBSET D, NEW from \in S,
         \A x \in S : next[x] \in S
  PROVE  Endless(next, from)
<1> SUFFICES ASSUME ~Endless(next, from) PROVE FALSE
  OBVIOUS
<1> DEFINE q == Walk(next, from)
<1>1. WholeList(next, from, q)
  BY WalkIsList
<1> HIDE DEF q
<1>2. DOMAIN next = D /\ q \in Seq(D) /\ Len(q) \in Nat /\ 0 \notin D
  BY <1>1 DEF WholeList, Chained, Pool
<1>3. q # <<>> /\ q[1] = from
  BY <1>1, <1>2 DEF WholeList
<1> DEFINE Bad == {k \in 1 .. Len(q) : q[k] \notin S}
<1>4. Bad = {}
  <2> SUFFICES ASSUME Bad # {} PROVE FALSE
    OBVIOUS
  <2>1. Bad \in SUBSET Nat
    OBVIOUS
  <2>2. PICK k \in Bad : \A m \in Bad : k <= m
    BY <2>1, Smallest
  <2>3. k \in 1 .. Len(q) /\ k # 1
    BY <2>2, <1>3
  <2>4. k - 1 \in 1 .. Len(q) - 1 /\ k - 1 \in 1 .. Len(q) /\ k - 1 + 1 = k /\ ~(k <= k - 1)
    BY <2>3, <1>2
  <2>5. q[k - 1] \in S
    BY <2>2, <2>4
  <2>6. next[q[k - 1]] = q[k]
    BY <2>4, <1>1 DEF WholeList, Chained
  <2> QED
    BY <2>2, <2>5, <2>6
<1>5. Len(q) \in 1 .. Len(q)
  BY <1>2, <1>3
<1>6. q[Len(q)] \in S /\ next[q[Len(q)]] = 0
  BY <1>1, <1>3, <1>4, <1>5 DEF WholeList
<1> QED
  BY <1>6, <1>2

\* A slot that is put before a list.
LEMMA ListWithHead ==
  ASSUME NEW D, NEW next, Pool(D, next), NEW from, NEW q, WholeList(next, from, q),
         NEW r \in D, NEW next2, Pool(D, next2), next2[r] = from,
         \A i \in 1 .. Len(q) : next2[q[i]] = next[q[i]]
  PROVE  WholeList(next2, r, <<r>> \o q)
<1> DEFINE p == <<r>> \o q
<1>1. DOMAIN next = D /\ DOMAIN next2 = D /\ q \in Seq(D) /\ Len(q) \in Nat
  BY DEF WholeList, Chained, Pool
<1>2. /\ p \in Seq(D) /\ Len(p) = Len(q) + 1 /\ p[1] = r
      /\ \A i \in 2 .. Len(q) + 1 : p[i] = q[i - 1]
  BY <1>1, SlotBefore
<1> HIDE DEF p
<1>3. \A i \in 1 .. Len(p) - 1 : next2[p[i]] = p[i + 1]
  <2> SUFFICES ASSUME NEW i \in 1 .. Len(p) - 1 PROVE next2[p[i]] = p[i + 1]
    OBVIOUS
  <2>1. p[i + 1] = q[i] /\ i \in 1 .. Len(q)
    BY <1>1, <1>2
  <2>2. CASE i = 1
    <3>1. q # <<>>
      BY <2>1, <1>1
    <3> QED
      BY <2>1, <2>2, <3>1, <1>2 DEF WholeList
  <2>3. CASE i > 1
    <3>1. p[i] = q[i - 1] /\ i - 1 \in 1 .. Len(q) - 1 /\ i - 1 \in 1 .. Len(q) /\ i - 1 + 1 = i
      BY <2>1, <2>3, <1>1, <1>2
    <3>2. next[q[i - 1]] = q[i - 1 + 1]
      BY <3>1 DEF WholeList, Chained
    <3> QED
      BY <2>1, <3>1, <3>2
  <2> QED
    BY <2>2, <2>3
<1>4. p # <<>>
  BY <1>1, <1>2
<1>5. next2[p[Len(p)]] = 0
  <2>1. CASE q = <<>>
    <3>1. from = 0 /\ Len(p) = 1
      BY <2>1, <1>2 DEF WholeList
    <3> QED
      BY <3>1, <1>2
  <2>2. CASE q # <<>>
    <3>1. Len(q) \in 1 .. Len(q) /\ p[Len(p)] = q[Len(q)]
      BY <2>2, <1>1, <1>2
    <3> QED
      BY <2>2, <3>1 DEF WholeList
  <2> QED
    BY <2>1, <2>2
<1> QED
  BY <1>1, <1>2, <1>3, <1>4, <1>5 DEF WholeList, Chained, p

\* A list whose end is cut off after slot k.
LEMMA ListCut ==
  ASSUME NEW D, NEW next, Pool(D, next), NEW from, NEW q, WholeList(next, from, q),
         NEW k \in 1 .. Len(q), NEW next2, Pool(D, next2), next2[q[k]] = 0,
         \A i \in 1 .. k - 1 : next2[q[i]] = next[q[i]]
  PROVE  /\ WholeList(next2, from, SubSeq(q, 1, k))
         /\ Len(SubSeq(q, 1, k)) = k
         /\ \A i \in 1 .. k : SubSeq(q, 1, k)[i] = q[i]
<1> DEFINE p == SubSeq(q, 1, k)
<1>1. DOMAIN next = D /\ DOMAIN next2 = D /\ q \in Seq(D) /\ Len(q) \in Nat
      /\ \A i \in 1 .. Len(q) - 1 : next[q[i]] = q[i + 1]
  BY DEF WholeList, Chained, Pool
<1>2. p \in Seq(D) /\ Len(p) = k /\ \A i \in 1 .. k : p[i] = q[i]
  BY <1>1
<1> HIDE DEF p
<1>3. \A i \in 1 .. Len(p) - 1 : next2[p[i]] = p[i + 1]
  <2> SUFFICES ASSUME NEW i \in 1 .. Len(p) - 1 PROVE next2[p[i]] = p[i + 1]
    OBVIOUS
  <2>1. p[i] = q[i] /\ p[i + 1] = q[i + 1] /\ i \in 1 .. k - 1 /\ i \in 1 .. Len(q) - 1
    BY <1>1, <1>2
  <2> QED
    BY <2>1, <1>1
<1>4. p # <<>> /\ p[1] = from /\ p[Len(p)] = q[k]
  <2>1. q # <<>> /\ k \in 1 .. k /\ 1 \in 1 .. k
    BY <1>1
  <2> QED
    BY <2>1, <1>2 DEF WholeList
<1> QED
  BY <1>1, <1>2, <1>3, <1>4 DEF WholeList, Chained, p


\* S are the slots of the list that begins at `from', which ends.
ListOf(next, from, S) == \E q : WholeList(next, from, q) /\ S = {q[i] : i \in 1 .. Len(q)}

\* The list without slots.
LEMMA ListOfNone ==
  ASSUME NEW D, NEW next, Pool(D, next)
  PROVE  ListOf(next, 0, {})
<1>1. WholeList(next, 0, <<>>)
  BY DEF WholeList, Chained
<1>2. {} = {<<>>[i] : i \in 1 .. Len(<<>>)}
  OBVIOUS
<1> QED
  BY <1>1, <1>2 DEF ListOf

\* It begins with one of its slots, and each leads to one of them or ends it.
LEMMA ListOfIs ==
  ASSUME NEW D, NEW next, Pool(D, next), NEW from, NEW S, ListOf(next, from, S)
  PROVE  /\ S \in SUBSET D /\ IsFiniteSet(S) /\ 0 \notin S
         /\ from = 0 <=> S = {}
         /\ from # 0 => from \in S
         /\ \A x \in S : next[x] \in S \cup {0}
         /\ \A x \in S : x # from => \E b \in S : next[b] = x
         /\ \A b, c \in S : next[b] = next[c] /\ next[b] # 0 => b = c
         /\ \A b \in S : next[b] # from \/ from = 0
<1>1. PICK q : WholeList(next, from, q) /\ S = {q[i] : i \in 1 .. Len(q)}
  BY DEF ListOf
<1>2. /\ DOMAIN next = D /\ IsFiniteSet(D) /\ 0 \notin D /\ q \in Seq(D) /\ Len(q) \in Nat
      /\ \A i \in 1 .. Len(q) : q[i] \in D /\ q[i] \in S
  BY <1>1 DEF Pool, WholeList, Chained
<1>3. \A i, j \in 1 .. Len(q) : q[i] = q[j] => i = j
  BY <1>1, NoSlotTwice
<1>4. S \in SUBSET D /\ IsFiniteSet(S) /\ 0 \notin S
  <2>1. S \in SUBSET D
    BY <1>1, <1>2
  <2> QED
    BY <2>1, <1>2, FS_Subset
<1>5. \A i \in 1 .. Len(q) - 1 : next[q[i]] = q[i + 1] /\ i + 1 \in 1 .. Len(q)
  BY <1>1, <1>2 DEF WholeList, Chained
<1>6. q # <<>> => q[1] = from /\ next[q[Len(q)]] = 0 /\ 1 \in 1 .. Len(q) /\ Len(q) \in 1 .. Len(q)
  BY <1>1, <1>2 DEF WholeList
<1>7. q = <<>> => from = 0 /\ S = {}
  BY <1>1, <1>2 DEF WholeList
<1>8. q # <<>> => from \in S /\ from # 0 /\ S # {}
  BY <1>2, <1>6, <1>4
<1>9. ASSUME NEW i \in 1 .. Len(q)
      PROVE  next[q[i]] = IF i = Len(q) THEN 0 ELSE q[i + 1]
  <2>1. q # <<>>
    BY <1>2
  <2>2. CASE i = Len(q)
    BY <2>1, <2>2, <1>6
  <2>3. CASE i # Len(q)
    <3>1. i \in 1 .. Len(q) - 1
      BY <2>3, <1>2
    <3> QED
      BY <3>1, <2>3, <1>5
  <2> QED
    BY <2>2, <2>3
<1>10. \A x \in S : next[x] \in S \cup {0}
  <2> SUFFICES ASSUME NEW i \in 1 .. Len(q) PROVE next[q[i]] \in S \cup {0}
    BY <1>1
  <2>1. i # Len(q) => i + 1 \in 1 .. Len(q)
    BY <1>2
  <2>2. i # Len(q) => q[i + 1] \in S
    BY <2>1, <1>2
  <2> QED
    BY <1>9, <2>2
<1>11. ASSUME NEW x \in S, x # from
       PROVE  \E b \in S : next[b] = x
  <2>1. PICK i \in 1 .. Len(q) : x = q[i]
    BY <1>1
  <2>2. q # <<>>
    BY <1>2
  <2>3. i # 1
    BY <2>1, <2>2, <1>6, <1>11
  <2>4. i - 1 \in 1 .. Len(q) - 1 /\ i - 1 \in 1 .. Len(q) /\ i - 1 + 1 = i
    BY <2>3, <1>2
  <2>5. next[q[i - 1]] = q[i] /\ q[i - 1] \in S
    BY <2>4, <1>5, <1>2
  <2> QED
    BY <2>1, <2>5
<1>12. ASSUME NEW b \in S, NEW c \in S, next[b] = next[c], next[b] # 0
       PROVE  b = c
  <2>1. PICK i \in 1 .. Len(q) : b = q[i]
    BY <1>1
  <2>2. PICK j \in 1 .. Len(q) : c = q[j]
    BY <1>1
  <2>3. next[q[i]] # 0 /\ next[q[j]] # 0
    BY <2>1, <2>2, <1>12
  <2>4. i # Len(q) /\ j # Len(q) /\ q[i + 1] = q[j + 1]
    BY <2>1, <2>2, <2>3, <1>9, <1>12
  <2>5. i + 1 \in 1 .. Len(q) /\ j + 1 \in 1 .. Len(q)
    BY <2>4, <1>2
  <2>6. i + 1 = j + 1
    BY <2>4, <2>5, <1>3
  <2>7. i = j
    BY <2>6
  <2> QED
    BY <2>1, <2>2, <2>7
<1>13. ASSUME NEW b \in S, next[b] = from, from # 0
       PROVE  FALSE
  <2>1. PICK i \in 1 .. Len(q) : b = q[i]
    BY <1>1
  <2>2. q # <<>>
    BY <1>2
  <2>3. i # Len(q) /\ q[i + 1] = q[1]
    BY <2>1, <2>2, <1>6, <1>9, <1>13
  <2>4. i + 1 \in 1 .. Len(q) /\ 1 \in 1 .. Len(q) /\ i + 1 # 1
    BY <2>3, <1>2
  <2> QED
    BY <2>3, <2>4, <1>3
<1> QED
  BY <1>4, <1>7, <1>8, <1>10, <1>11, <1>12, <1>13

\* A walk finds its slots, each once.
LEMMA ListOfWalk ==
  ASSUME NEW D, NEW next, Pool(D, next), NEW from, NEW S, ListOf(next, from, S)
  PROVE  /\ Walk(next, from) \in Seq(D)
         /\ S = {Walk(next, from)[i] : i \in 1 .. Len(Walk(next, from))}
         /\ Len(Walk(next, from)) = Cardinality(S)
         /\ \A i, j \in 1 .. Len(Walk(next, from)) :
              Walk(next, from)[i] = Walk(next, from)[j] => i = j
         /\ WholeList(next, from, Walk(next, from))
<1>1. PICK q : WholeList(next, from, q) /\ S = {q[i] : i \in 1 .. Len(q)}
  BY DEF ListOf
<1>2. /\ DOMAIN next = D /\ IsFiniteSet(D) /\ q \in Seq(D) /\ Len(q) \in Nat
      /\ \A i \in 1 .. Len(q) : q[i] \in D
  BY <1>1 DEF Pool, WholeList, Chained
<1>3. \A i, j \in 1 .. Len(q) : q[i] = q[j] => i = j
  BY <1>1, NoSlotTwice
<1>4. from \in D \cup {0}
  BY ListOfIs
<1>5. Walk(next, from) = q
  BY <1>1, <1>4, ListIsWalk
<1>6. q \in Bijection(1 .. Len(q), S)
  <2>1. q \in [1 .. Len(q) -> S]
    BY <1>1, <1>2
  <2>2. IsInjective(q)
    BY <1>2, <1>3 DEF IsInjective
  <2>3. \A x \in S : \E i \in 1 .. Len(q) : q[i] = x
    BY <1>1
  <2> QED
    BY <2>1, <2>2, <2>3 DEF Bijection, Injection, Surjection
<1>7. Len(q) = Cardinality(S)
  <2>1. IsFiniteSet(1 .. Len(q)) /\ Cardinality(1 .. Len(q)) = Len(q)
    <3>1. 1 \in Int /\ Len(q) \in Int
      BY <1>2
    <3>2. /\ IsFiniteSet(1 .. Len(q))
          /\ Cardinality(1 .. Len(q)) = IF 1 > Len(q) THEN 0 ELSE Len(q) - 1 + 1
      BY <3>1, FS_Interval
    <3> QED
      BY <3>2, <1>2
  <2>2. Cardinality(S) = Cardinality(1 .. Len(q))
    BY <2>1, <1>6, FS_Bijection DEF ExistsBijection
  <2> QED
    BY <2>1, <2>2
<1> QED
  BY <1>1, <1>2, <1>3, <1>5, <1>7

\* It stays what it is as long as its slots lead where they did.
LEMMA ListOfSame ==
  ASSUME NEW D, NEW next, Pool(D, next), NEW from, NEW S, ListOf(next, from, S),
         NEW next2, Pool(D, next2), \A x \in S : next2[x] = next[x]
  PROVE  ListOf(next2, from, S)
<1>1. PICK q : WholeList(next, from, q) /\ S = {q[i] : i \in 1 .. Len(q)}
  BY DEF ListOf
<1>2. DOMAIN next = D /\ DOMAIN next2 = D /\ q \in Seq(D) /\ Len(q) \in Nat
  BY <1>1 DEF Pool, WholeList, Chained
<1>3. \A i \in 1 .. Len(q) : next2[q[i]] = next[q[i]]
  BY <1>1
<1>4. \A i \in 1 .. Len(q) - 1 : next2[q[i]] = q[i + 1]
  <2> SUFFICES ASSUME NEW i \in 1 .. Len(q) - 1 PROVE next2[q[i]] = q[i + 1]
    OBVIOUS
  <2>1. i \in 1 .. Len(q)
    BY <1>2
  <2> QED
    BY <2>1, <1>1, <1>3 DEF WholeList, Chained
<1>5. q # <<>> => Len(q) \in 1 .. Len(q)
  BY <1>2
<1>6. q # <<>> => next2[q[Len(q)]] = 0
  BY <1>1, <1>3, <1>5 DEF WholeList
<1>7. WholeList(next2, from, q)
  BY <1>1, <1>2, <1>4, <1>6 DEF WholeList, Chained
<1> QED
  BY <1>1, <1>7 DEF ListOf

\* A slot that is put before it.
LEMMA ListOfPut ==
  ASSUME NEW D, NEW next, Pool(D, next), NEW from, NEW S, ListOf(next, from, S),
         NEW r \in D, NEW next2, Pool(D, next2), next2[r] = from,
         \A x \in S : next2[x] = next[x]
  PROVE  ListOf(next2, r, S \cup {r})
<1>1. PICK q : WholeList(next, from, q) /\ S = {q[i] : i \in 1 .. Len(q)}
  BY DEF ListOf
<1>2. DOMAIN next = D /\ q \in Seq(D) /\ Len(q) \in Nat
  BY <1>1 DEF Pool, WholeList, Chained
<1> DEFINE p == <<r>> \o q
<1>3. WholeList(next2, r, p)
  <2>1. \A i \in 1 .. Len(q) : next2[q[i]] = next[q[i]]
    BY <1>1
  <2> QED
    BY <1>1, <2>1, ListWithHead
<1>4. /\ Len(p) = Len(q) + 1 /\ p[1] = r
      /\ \A i \in 1 .. Len(q) : p[i + 1] = q[i]
      /\ \A i \in 2 .. Len(q) + 1 : p[i] = q[i - 1]
  BY <1>2, SlotBefore
<1> HIDE DEF p
<1>5. S \cup {r} \subseteq {p[i] : i \in 1 .. Len(p)}
  <2>1. 1 \in 1 .. Len(p) /\ \A i \in 1 .. Len(q) : i + 1 \in 1 .. Len(p)
    BY <1>2, <1>4
  <2> QED
    BY <2>1, <1>1, <1>4
<1>6. {p[i] : i \in 1 .. Len(p)} \subseteq S \cup {r}
  <2> SUFFICES ASSUME NEW i \in 1 .. Len(p) PROVE p[i] \in S \cup {r}
    OBVIOUS
  <2>1. i = 1 \/ (i \in 2 .. Len(q) + 1 /\ i - 1 \in 1 .. Len(q))
    BY <1>2, <1>4
  <2> QED
    BY <2>1, <1>1, <1>4
<1> QED
  BY <1>3, <1>5, <1>6 DEF ListOf


\* What is left of a list without the slot after the k-th.
Without(q, k) == [i \in 1 .. Len(q) - 1 |-> IF i <= k THEN q[i] ELSE q[i + 1]]

\* The slot before it, if there is one, leads past it.
Bypassed(next, next2, q, k) ==
  /\ \A i \in 1 .. Len(q) : i \notin {k, k + 1} => next2[q[i]] = next[q[i]]
  /\ k > 0 => next2[q[k]] = next[q[k + 1]]

\* The rest is a list that begins at `from'.
Remaining(next2, from, q, k) ==
  /\ WholeList(next2, from, Without(q, k))
  /\ {Without(q, k)[i] : i \in 1 .. Len(Without(q, k))} = {q[i] : i \in 1 .. Len(q)} \ {q[k + 1]}

\* A slot that is taken out of a list, where `from' leads past the first and the slot
\* before it past any other.
LEMMA ListWithout ==
  ASSUME NEW D, NEW next, Pool(D, next), NEW from, NEW q, WholeList(next, from, q),
         NEW k \in 0 .. Len(q) - 1, NEW next2, Pool(D, next2), Bypassed(next, next2, q, k)
  PROVE  /\ k = 0 => Remaining(next2, next[from], q, k)
         /\ k > 0 => Remaining(next2, from, q, k)
<1> USE DEF Bypassed
<1> DEFINE p == Without(q, k)
           n == Len(q)
<1>1. /\ DOMAIN next = D /\ DOMAIN next2 = D /\ q \in Seq(D) /\ n \in Nat /\ n > 0 /\ k \in Nat
      /\ 0 \notin D
      /\ \A i \in 1 .. n : q[i] \in D
      /\ \A i \in 1 .. n - 1 : next[q[i]] = q[i + 1]
  BY DEF Pool, WholeList, Chained
<1>2. q # <<>> /\ q[1] = from /\ next[q[n]] = 0
  BY <1>1 DEF WholeList
<1>3. \A i, j \in 1 .. n : q[i] = q[j] => i = j
  BY NoSlotTwice
<1>4. \A i \in 1 .. n - 1 : p[i] = IF i <= k THEN q[i] ELSE q[i + 1]
  BY DEF Without
<1>5. p \in Seq(D) /\ Len(p) = n - 1
  <2>1. \A i \in 1 .. n - 1 : i \in 1 .. n /\ i + 1 \in 1 .. n
    BY <1>1
  <2>2. p \in [1 .. n - 1 -> D]
    BY <2>1, <1>1 DEF Without
  <2>3. n - 1 \in Nat
    BY <1>1
  <2> QED
    BY <2>2, <2>3
<1> HIDE DEF p
<1>6. ASSUME NEW i \in 1 .. Len(p) - 1
      PROVE  next2[p[i]] = p[i + 1]
  <2>1. i \in 1 .. n - 1 /\ i + 1 \in 1 .. n - 1 /\ i \in 1 .. n /\ i + 1 \in 1 .. n
        /\ i + 1 + 1 = i + 2 /\ i + 2 \in 1 .. n
    BY <1>1, <1>5
  <2>2. next[q[i]] = q[i + 1] /\ next[q[i + 1]] = q[i + 2]
    BY <2>1, <1>1
  <2>3. CASE i < k
    <3>1. p[i] = q[i] /\ p[i + 1] = q[i + 1] /\ i \notin {k, k + 1}
      BY <2>1, <2>3, <1>1, <1>4
    <3> QED
      BY <3>1, <2>1, <2>2
  <2>4. CASE i = k
    <3>1. p[i] = q[k] /\ p[i + 1] = q[k + 2] /\ k > 0
      BY <2>1, <2>4, <1>1, <1>4
    <3> QED
      BY <3>1, <2>2, <2>4
  <2>5. CASE i > k
    <3>1. p[i] = q[i + 1] /\ p[i + 1] = q[i + 2] /\ i + 1 \notin {k, k + 1}
      BY <2>1, <2>5, <1>1, <1>4
    <3> QED
      BY <3>1, <2>1, <2>2
  <2> QED
    BY <2>1, <2>3, <2>4, <2>5, <1>1
<1>7. p = <<>> => n = 1 /\ k = 0
  <2>1. p = <<>> => Len(p) = 0
    OBVIOUS
  <2>2. Len(p) = 0 => n = 1
    BY <1>1, <1>5
  <2>3. n = 1 => k = 0
    BY <1>1
  <2> QED
    BY <2>1, <2>2, <2>3
<1>8. ASSUME p # <<>>
      PROVE  p[1] = (IF k = 0 THEN next[from] ELSE from) /\ next2[p[Len(p)]] = 0
  <2>1. n - 1 \in Nat /\ n - 1 > 0 /\ 1 \in 1 .. n - 1 /\ n - 1 \in 1 .. n - 1 /\ n - 1 + 1 = n
        /\ n \in 1 .. n /\ n - 1 \in 1 .. n /\ 1 + 1 = 2
    BY <1>1, <1>5, <1>8
  <2>2. p[1] = IF k = 0 THEN q[2] ELSE q[1]
    <3>1. k = 0 \/ 1 <= k
      BY <1>1
    <3> QED
      BY <3>1, <2>1, <1>1, <1>4
  <2>3. next[q[1]] = q[2]
    BY <2>1, <1>1
  <2>4. CASE k = n - 1
    <3>1. k > 0 /\ k + 1 = n /\ n - 1 <= k
      <4>1. \A m \in Nat : m > 0 /\ k \in Nat /\ k = m - 1 /\ m - 1 > 0 => k > 0 /\ k + 1 = m /\ m - 1 <= k
        OBVIOUS
      <4> QED
        BY <4>1, <2>1, <2>4, <1>1
    <3>2. p[n - 1] = q[k]
      BY <2>1, <2>4, <3>1, <1>4
    <3>3. next2[p[Len(p)]] = 0
      BY <3>1, <3>2, <1>2, <1>5
    <3> QED
      BY <3>3, <2>2, <2>3, <1>2
  <2>5. CASE k # n - 1
    <3>1. ~(n - 1 <= k) /\ n \notin {k, k + 1}
      <4>1. \A m \in Nat : k \in 0 .. m - 1 /\ k # m - 1 => ~(m - 1 <= k) /\ m \notin {k, k + 1}
        OBVIOUS
      <4> QED
        BY <4>1, <2>5, <1>1
    <3>2. p[n - 1] = q[n]
      BY <2>1, <3>1, <1>4
    <3>3. next2[q[n]] = next[q[n]]
      BY <3>1, <2>1
    <3>4. next2[p[Len(p)]] = 0
      BY <3>2, <3>3, <1>2, <1>5
    <3> QED
      BY <3>4, <2>2, <2>3, <1>2
  <2> QED
    BY <2>4, <2>5
<1>9. WholeList(next2, IF k = 0 THEN next[from] ELSE from, p)
  <2>1. Chained(next2, p)
    BY <1>1, <1>5, <1>6 DEF Chained
  <2>2. p = <<>> => (IF k = 0 THEN next[from] ELSE from) = 0
    BY <1>2, <1>7
  <2> QED
    BY <2>1, <2>2, <1>8 DEF WholeList
<1>10. {p[i] : i \in 1 .. Len(p)} \subseteq {q[i] : i \in 1 .. n} \ {q[k + 1]}
  <2> SUFFICES ASSUME NEW i \in 1 .. Len(p)
               PROVE  p[i] \in {q[j] : j \in 1 .. n} /\ p[i] # q[k + 1]
    OBVIOUS
  <2>1. i \in 1 .. n - 1 /\ i \in 1 .. n /\ i + 1 \in 1 .. n /\ k + 1 \in 1 .. n
    BY <1>1, <1>5
  <2>2. CASE i <= k
    <3>1. i # k + 1 /\ p[i] = q[i]
      BY <2>1, <2>2, <1>1, <1>4
    <3> QED
      BY <3>1, <2>1, <1>3
  <2>3. CASE ~(i <= k)
    <3>1. i + 1 # k + 1 /\ p[i] = q[i + 1]
      BY <2>1, <2>3, <1>1, <1>4
    <3> QED
      BY <3>1, <2>1, <1>3
  <2> QED
    BY <2>2, <2>3
<1>11. {q[i] : i \in 1 .. n} \ {q[k + 1]} \subseteq {p[i] : i \in 1 .. Len(p)}
  <2> SUFFICES ASSUME NEW i \in 1 .. n, q[i] # q[k + 1]
               PROVE  \E j \in 1 .. Len(p) : q[i] = p[j]
    OBVIOUS
  <2>1. i # k + 1
    OBVIOUS
  <2>2. CASE i <= k
    <3>1. i \in 1 .. n - 1 /\ p[i] = q[i]
      BY <2>2, <1>1, <1>4
    <3> QED
      BY <3>1, <1>5
  <2>3. CASE ~(i <= k)
    <3>1. i - 1 \in 1 .. n - 1 /\ ~(i - 1 <= k) /\ i - 1 + 1 = i
      BY <2>1, <2>3, <1>1
    <3>2. p[i - 1] = q[i]
      BY <3>1, <1>4
    <3> QED
      BY <3>1, <3>2, <1>5
  <2> QED
    BY <2>2, <2>3
<1>12. {p[i] : i \in 1 .. Len(p)} = {q[i] : i \in 1 .. n} \ {q[k + 1]}
  BY <1>10, <1>11
<1>13. k = 0 => Remaining(next2, next[from], q, k)
  BY <1>9, <1>12 DEF p, Remaining
<1>14. k > 0 => Remaining(next2, from, q, k)
  <2>1. k > 0 => k # 0
    BY <1>1
  <2> QED
    BY ONLY <2>1, <1>9, <1>12 DEF p, Remaining
<1> QED
  BY <1>13, <1>14

\* Its first slot is taken out: it begins with the next one.
LEMMA ListOfBehead ==
  ASSUME NEW D, NEW next, Pool(D, next), NEW from, NEW S, ListOf(next, from, S), from # 0,
         NEW next2, Pool(D, next2), \A x \in S \ {from} : next2[x] = next[x]
  PROVE  ListOf(next2, next[from], S \ {from})
<1>1. PICK q : WholeList(next, from, q) /\ S = {q[i] : i \in 1 .. Len(q)}
  BY DEF ListOf
<1>2. DOMAIN next = D /\ q \in Seq(D) /\ Len(q) \in Nat /\ q # <<>> /\ q[1] = from
  BY <1>1 DEF Pool, WholeList, Chained
<1>3. 0 \in 0 .. Len(q) - 1 /\ 0 + 1 = 1 /\ 1 \in 1 .. Len(q)
  BY <1>2
<1>4. \A i \in 1 .. Len(q) : i \notin {0, 0 + 1} => next2[q[i]] = next[q[i]]
  <2> SUFFICES ASSUME NEW i \in 1 .. Len(q), i # 1 PROVE next2[q[i]] = next[q[i]]
    BY <1>3
  <2>1. q[i] # q[1]
    BY <1>1, <1>3, NoSlotTwice
  <2> QED
    BY <2>1, <1>1, <1>2
<1> DEFINE p == Without(q, 0)
<1>5. WholeList(next2, next[from], p) /\ {p[i] : i \in 1 .. Len(p)} = S \ {from}
  <2>1. Bypassed(next, next2, q, 0)
    BY <1>4 DEF Bypassed
  <2>2. Remaining(next2, next[from], q, 0)
    BY <2>1, <1>1, <1>3, ListWithout
  <2> QED
    BY <2>2, <1>1, <1>2, <1>3 DEF Remaining
<1> QED
  BY <1>5 DEF ListOf

\* Another is taken out: the slot before it leads to the one after it.
LEMMA ListOfDrop ==
  ASSUME NEW D, NEW next, Pool(D, next), NEW from, NEW S, ListOf(next, from, S),
         NEW b \in S, NEW x \in S, next[b] = x,
         NEW next2, Pool(D, next2), next2[b] = next[x],
         \A y \in S \ {b, x} : next2[y] = next[y]
  PROVE  ListOf(next2, from, S \ {x})
<1>1. PICK q : WholeList(next, from, q) /\ S = {q[i] : i \in 1 .. Len(q)}
  BY DEF ListOf
<1>2. /\ DOMAIN next = D /\ q \in Seq(D) /\ Len(q) \in Nat /\ 0 \notin D
      /\ \A i \in 1 .. Len(q) : q[i] \in D
      /\ \A i \in 1 .. Len(q) - 1 : next[q[i]] = q[i + 1]
  BY <1>1 DEF Pool, WholeList, Chained
<1>3. \A i, j \in 1 .. Len(q) : q[i] = q[j] => i = j
  BY <1>1, NoSlotTwice
<1>4. PICK k \in 1 .. Len(q) : b = q[k]
  BY <1>1
<1>5. k # Len(q)
  <2>1. x \in D /\ q # <<>>
    BY <1>1, <1>2
  <2>2. next[q[Len(q)]] = 0
    BY <2>1, <1>1 DEF WholeList
  <2> QED
    BY <2>1, <2>2, <1>2, <1>4
<1>6. k \in 0 .. Len(q) - 1 /\ k \in 1 .. Len(q) - 1 /\ k > 0 /\ k + 1 \in 1 .. Len(q)
  BY <1>2, <1>5
<1>7. x = q[k + 1]
  BY <1>2, <1>4, <1>6
<1>8. \A i \in 1 .. Len(q) : i \notin {k, k + 1} => next2[q[i]] = next[q[i]]
  <2> SUFFICES ASSUME NEW i \in 1 .. Len(q), i \notin {k, k + 1} PROVE next2[q[i]] = next[q[i]]
    OBVIOUS
  <2>1. q[i] # b /\ q[i] # x
    BY <1>3, <1>4, <1>6, <1>7
  <2> QED
    BY <2>1, <1>1
<1>9. next2[q[k]] = next[q[k + 1]]
  BY <1>4, <1>7
<1> DEFINE p == Without(q, k)
<1>10. WholeList(next2, from, p) /\ {p[i] : i \in 1 .. Len(p)} = S \ {x}
  <2>1. Bypassed(next, next2, q, k)
    BY <1>8, <1>9 DEF Bypassed
  <2>2. Remaining(next2, from, q, k)
    BY <2>1, <1>1, <1>6, ListWithout
  <2> QED
    BY <2>2, <1>1, <1>7 DEF Remaining
<1> QED
  BY <1>10 DEF ListOf
=============================================================================
