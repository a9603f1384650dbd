-------------------------- MODULE AllocationProofs --------------------------
(***************************************************************************)
(* Who is given what.  First the multicast groups of components, then the  *)
(* records of SDT: every operation of SdtRecords leaves the pools and the  *)
(* components in order, however far it comes, and gives back what it took  *)
(* when it fails; so every state is in order.                              *)
(***************************************************************************)
EXTENDS Mcast, SdtRecords, LinkedListProofs

-----------------------------------------------------------------------------
(***************************************************************************)
(* Numbers and their bits.                                                 *)
(***************************************************************************)
\* Powers of 2 double.
LEMMA Powers ==
  \A k \in 1 .. 16 : 2^(k - 1) \in Nat \ {0} /\ 2^k \in Nat \ {0} /\ 2^k = 2 * 2^(k - 1)
<1> SUFFICES ASSUME NEW k \in 1 .. 16
             PROVE  2^(k - 1) \in Nat \ {0} /\ 2^k \in Nat \ {0} /\ 2^k = 2 * 2^(k - 1)
  OBVIOUS
<1>1. CASE k = 1
  BY <1>1
<1>2. CASE k = 2
  BY <1>2
<1>3. CASE k = 3
  BY <1>3
<1>4. CASE k = 4
  BY <1>4
<1>5. CASE k = 5
  BY <1>5
<1>6. CASE k = 6
  BY <1>6
<1>7. CASE k = 7
  BY <1>7
<1>8. CASE k = 8
  BY <1>8
<1>9. CASE k = 9
  BY <1>9
<1>10. CASE k = 10
  BY <1>10
<1>11. CASE k = 11
  BY <1>11
<1>12. CASE k = 12
  BY <1>12
<1>13. CASE k = 13
  BY <1>13
<1>14. CASE k = 14
  BY <1>14
<1>15. CASE k = 15
  BY <1>15
<1>16. CASE k = 16
  BY <1>16
<1> QED
  BY <1>1, <1>2, <1>3, <1>4, <1>5, <1>6, <1>7, <1>8, <1>9, <1>10, <1>11, <1>12, <1>13,
     <1>14, <1>15, <1>16

\* The powers of 2 that fit in 16 bits.
Pow == [k \in 0 .. 16 |-> 2^k]

\* The last octets hosts may have.
LastOctets == 1 .. 255

\* The numbers of 16 bits.
Shorts == {n \in Nat : n < 65536}

\* Three of them.
LEMMA PowValues == Pow[0] = 1 /\ Pow[8] = 256 /\ Pow[16] = 65536
BY DEF Pow

\* They are below the last.
LEMMA ShortsAre == \A n \in Shorts : n \in Nat /\ n < Pow[16]
BY PowValues, SMT DEF Shorts

\* They are numbers, and double.
LEMMA PowDoubles ==
  /\ Pow[0] = 1
  /\ \A k \in 0 .. 16 : Pow[k] \in Nat \ {0}
  /\ \A k \in 1 .. 16 : Pow[k] = 2 * Pow[k - 1]
<1> DEFINE e(k) == 2^k
<1>0. e(0) = 1
  OBVIOUS
<1>1. \A k \in 1 .. 16 : e(k - 1) \in Nat \ {0} /\ e(k) \in Nat \ {0} /\ e(k) = 2 * e(k - 1)
  BY Powers, Zenon
<1>2. \A k \in 0 .. 16 : Pow[k] = e(k)
  BY Zenon DEF Pow
<1> HIDE DEF e
<1>3. \A k \in 0 .. 16 : k = 0 \/ k \in 1 .. 16
  OBVIOUS
<1>4. \A k \in 0 .. 16 : Pow[k] \in Nat \ {0}
  <2> SUFFICES ASSUME NEW k \in 0 .. 16 PROVE e(k) \in Nat \ {0}
    BY <1>2
  <2>1. CASE k = 0
    BY <1>0, <2>1
  <2> QED
    BY <1>1, <1>3, <2>1
<1>5. \A k \in 1 .. 16 : k \in 0 .. 16 /\ k - 1 \in 0 .. 16
  OBVIOUS
<1>6. \A k \in 1 .. 16 : Pow[k] = 2 * Pow[k - 1]
  BY <1>1, <1>2, <1>5
<1>7. Pow[0] = 1
  BY <1>0, <1>2
<1> QED
  BY <1>4, <1>6, <1>7

\* They grow.
LEMMA PowGrows ==
  ASSUME NEW j \in 0 .. 16, NEW k \in 0 .. 16, j <= k
  PROVE  Pow[j] <= Pow[k]
<1> DEFINE S == {n \in 0 .. 16 : j <= n => Pow[j] <= Pow[n]}
<1>1. 0 \in S
  BY PowDoubles
<1>2. \A n \in 1 .. 16 : n - 1 \in S => n \in S
  <2> SUFFICES ASSUME NEW n \in 1 .. 16, n - 1 \in S, j <= n PROVE Pow[j] <= Pow[n]
    OBVIOUS
  <2>1. /\ Pow[n] = 2 * Pow[n - 1] /\ Pow[n - 1] \in Nat /\ Pow[j] \in Nat
    BY PowDoubles
  <2>2. CASE j = n
    BY <2>1, <2>2
  <2>3. CASE j # n
    <3>1. Pow[j] <= Pow[n - 1]
      BY <2>3
    <3> QED
      BY <2>1, <3>1
  <2> QED
    BY <2>2, <2>3
<1> HIDE DEF S
<1>3. \A n \in 0 .. 16 : n \in S
  BY <1>1, <1>2, Throughout
<1> QED
  BY <1>3 DEF S

\* A number without its last j bits, and its bit j.
Top(n, j) == n \div Pow[j]
HasBit(n, j) == Top(n, j) % 2 = 1

\* They have the same bits.
Alike(m, n) == \A j \in 0 .. 16 : HasBit(m, j) <=> HasBit(n, j)

\* What is left of a number.
LEMMA TopIs ==
  ASSUME NEW n \in Nat
  PROVE  /\ Top(n, 0) = n
         /\ \A j \in 0 .. 16 : Top(n, j) \in Nat
         /\ \A j \in 0 .. 15 : Top(n, j + 1) = Top(n, j) \div 2
<1>1. n \div 1 = n
  OBVIOUS
<1>2. Top(n, 0) = n
  BY <1>1, PowDoubles DEF Top
<1>3. ASSUME NEW j \in 0 .. 16 PROVE Top(n, j) \in Nat
  <2> DEFINE p == Pow[j]
  <2>1. p \in Nat \ {0}
    BY PowDoubles
  <2> HIDE DEF p
  <2>2. n \div p \in Nat
    BY <2>1
  <2> QED
    BY <2>2 DEF Top, p
<1>4. ASSUME NEW j \in 0 .. 15 PROVE Top(n, j + 1) = Top(n, j) \div 2
  <2> DEFINE p == Pow[j]
             r == Pow[j + 1]
  <2>1. j \in 0 .. 16 /\ j + 1 \in 1 .. 16 /\ (j + 1) - 1 = j
    OBVIOUS
  <2>2. p \in Nat \ {0} /\ r = 2 * p
    BY <2>1, PowDoubles
  <2> HIDE DEF p, r
  <2>3. n \div r = (n \div p) \div 2
    BY <2>2
  <2> QED
    BY <2>3 DEF Top, p, r
<1> QED
  BY <1>2, <1>3, <1>4

\* Nothing is left of a number below a power of 2.
LEMMA TopNone ==
  ASSUME NEW k \in 0 .. 16, NEW n \in Nat, n < Pow[k], NEW j \in 0 .. 16, k <= j
  PROVE  Top(n, j) = 0
<1> DEFINE p == Pow[j]
<1>1. Pow[k] <= p /\ Pow[k] \in Nat /\ p \in Nat \ {0}
  BY PowDoubles, PowGrows
<1> HIDE DEF p
<1>2. n < p
  BY <1>1
<1>3. n \div p = 0
  BY <1>1, <1>2
<1> QED
  BY <1>3 DEF Top, p

\* Numbers with the same bits are equal.
LEMMA SameBits ==
  ASSUME NEW m \in Shorts, NEW n \in Shorts, Alike(m, n)
  PROVE  m = n
<1> DEFINE S == {i \in 0 .. 16 : Top(m, 16 - i) = Top(n, 16 - i)}
<1>0. m \in Nat /\ n \in Nat /\ m < Pow[16] /\ n < Pow[16]
  BY ShortsAre
<1>1. 0 \in S
  <2>1. 16 - 0 = 16
    OBVIOUS
  <2>2. Top(m, 16) = 0 /\ Top(n, 16) = 0
    BY <1>0, TopNone
  <2> QED
    BY <2>1, <2>2
<1>2. \A i \in 1 .. 16 : i - 1 \in S => i \in S
  <2> SUFFICES ASSUME NEW i \in 1 .. 16, i - 1 \in S
               PROVE  Top(m, 16 - i) = Top(n, 16 - i)
    OBVIOUS
  <2> DEFINE j == 16 - i
             a == Top(m, j)
             b == Top(n, j)
  <2>1. j \in 0 .. 16 /\ j \in 0 .. 15 /\ 16 - (i - 1) = j + 1
    OBVIOUS
  <2> HIDE DEF j
  <2>2. Top(m, j + 1) = Top(n, j + 1)
    BY <2>1
  <2>3. a \in Nat /\ b \in Nat /\ Top(m, j + 1) = a \div 2 /\ Top(n, j + 1) = b \div 2
    BY <1>0, <2>1, TopIs
  <2>4. a % 2 = 1 <=> b % 2 = 1
    BY <2>1, Zenon DEF HasBit, Alike
  <2> HIDE DEF a, b
  <2>5. a \div 2 = b \div 2
    BY <2>2, <2>3
  <2>6. a = b
    BY <2>3, <2>4, <2>5
  <2> QED
    BY <2>6 DEF a, b, j
<1> HIDE DEF S
<1>3. 16 \in S
  <2>1. \A i \in 0 .. 16 : i \in S
    BY <1>1, <1>2, Throughout
  <2> QED
    BY <2>1
<1>4. Top(m, 0) = Top(n, 0)
  BY <1>3 DEF S
<1> QED
  BY <1>0, <1>4, TopIs

\* Which bits an address has.
LEMMA BitsAre ==
  ASSUME NEW n \in Nat, NEW k \in Nat, NEW b
  PROVE  b \in Bits(n, k) <=> \E j \in 0 .. 16 : b = j + k /\ HasBit(n, j)
<1>1. \A j \in 0 .. 16 : Pow[j] = 2^j
  BY Zenon DEF Pow
<1>2. Bits(n, k) = {i + k : i \in {j \in 0 .. 16 : HasBit(n, j)}}
  BY <1>1, Zenon DEF Bits, HasBit, Top
<1> QED
  BY <1>2, Zenon

\* The bits of a number below 2^w lie in the w places from k on.
LEMMA BitsWithin ==
  ASSUME NEW w \in 0 .. 16, NEW n \in Nat, n < Pow[w], NEW k \in Nat, NEW b \in Bits(n, k)
  PROVE  b \in k .. k + w - 1
<1>1. PICK j \in 0 .. 16 : b = j + k /\ HasBit(n, j)
  BY BitsAre
<1>2. ASSUME w <= j PROVE FALSE
  <2>1. Top(n, j) = 0
    BY <1>2, TopNone
  <2>2. 0 % 2 = 1
    BY <1>1, <2>1, Zenon DEF HasBit
  <2> QED
    BY <2>2
<1> QED
  BY <1>1, <1>2

\* Numbers whose bits are moved to the same places are equal.
LEMMA BitsTell ==
  ASSUME NEW m \in Shorts, NEW n \in Shorts, NEW k \in Nat, Bits(m, k) = Bits(n, k)
  PROVE  m = n
<1>1. m \in Nat /\ n \in Nat
  BY ShortsAre
<1>2. ASSUME NEW j \in 0 .. 16, NEW x \in Nat PROVE j + k \in Bits(x, k) <=> HasBit(x, j)
  <2>1. \A i \in 0 .. 16 : j + k = i + k => i = j
    OBVIOUS
  <2>2. j + k \in Bits(x, k) <=> \E i \in 0 .. 16 : j + k = i + k /\ HasBit(x, i)
    BY BitsAre
  <2> QED
    BY <2>1, <2>2, Zenon
<1>3. Alike(m, n)
  BY <1>1, <1>2, Zenon DEF Alike
<1> QED
  BY <1>3, SameBits

-----------------------------------------------------------------------------
(***************************************************************************)
(* Groups.                                                                 *)
(***************************************************************************)
\* A scope as mcast_alloc_init accepts it.
Proper(s) ==
  /\ s.mask \in SUBSET Nat /\ 24 \in s.mask
  /\ \A b \in s.mask : 16 <= b
  /\ s.addr \in SUBSET s.mask

\* The group host h draws in scope s with number x.
GroupOf(h, s, x) ==
  s.addr \cup Bits(h, HostShift(s.mask)) \cup Bits(x % Pow[HostShift(s.mask)], 0)

\* The masks that limit a scope leave the bit of the first octet, and none below the
\* second.
LEMMA Masks ==
  /\ 24 \in EPI10_SCOPE_MIN_MASK /\ 24 \in EPI10_SCOPE_MAX_MASK
  /\ \A b \in EPI10_SCOPE_MAX_MASK : b \in Nat /\ 16 <= b
<1>1. 24 \in Bits(255, 24)
  <2>1. Top(255, 0) = 255
    BY TopIs
  <2>2. HasBit(255, 0)
    BY <2>1 DEF HasBit
  <2>3. 0 \in 0 .. 16 /\ 24 = 0 + 24
    OBVIOUS
  <2> QED
    BY <2>2, <2>3, BitsAre
<1>2. ASSUME NEW k \in Nat, NEW b \in Bits(0, k) PROVE FALSE
  <2>1. PICK j \in 0 .. 16 : b = j + k /\ HasBit(0, j)
    BY <1>2, BitsAre
  <2>2. Top(0, j) = 0
    BY PowValues, TopNone
  <2> QED
    BY <2>1, <2>2 DEF HasBit
<1>3. ASSUME NEW b \in EPI10_SCOPE_MAX_MASK PROVE b \in Nat /\ 16 <= b
  <2>1. b \in Bits(255, 24) \/ b \in Bits(255, 16)
    BY <1>2 DEF EPI10_SCOPE_MAX_MASK, Address
  <2>2. \E j \in 0 .. 16 : b = j + 24 \/ b = j + 16
    BY <2>1, BitsAre
  <2> QED
    BY <2>2
<1> QED
  BY <1>1, <1>3 DEF EPI10_SCOPE_MIN_MASK, EPI10_SCOPE_MAX_MASK, Address

\* What is accepted is proper.
LEMMA AcceptedIsProper ==
  ASSUME NEW scope, NEW s, s = InRange(scope), s.addr \subseteq s.mask
  PROVE  Proper(s)
<1>1. s.mask = (scope.mask \cup EPI10_SCOPE_MIN_MASK) \cap EPI10_SCOPE_MAX_MASK
  BY DEF InRange
<1> QED
  BY <1>1, Masks DEF Proper

\* The host's octet fits between the scope and the number of the component.
LEMMA ShiftIs ==
  ASSUME NEW s, Proper(s)
  PROVE  /\ HostShift(s.mask) \in 8 .. 16
         /\ \A b \in s.mask : HostShift(s.mask) + 8 <= b
<1> DEFINE M == s.mask
<1>1. M \in SUBSET Nat /\ 24 \in M /\ \A b \in M : 16 <= b
  BY DEF Proper
<1> HIDE DEF M
<1>2. \E n \in M : \A m \in M : n <= m
  BY <1>1, Smallest
<1>3. Min(M) \in M /\ \A m \in M : Min(M) <= m
  BY <1>2 DEF Min
<1>4. HostShift(M) = Min(M) + 1 - 9
  BY DEF HostShift
<1> DEFINE l == Min(M)
<1>5. l \in Nat /\ 16 <= l /\ l <= 24 /\ HostShift(M) = l + 1 - 9
  BY <1>1, <1>3, <1>4
<1>6. \A b \in M : b \in Nat /\ l <= b
  BY <1>1, <1>3
<1> HIDE DEF l
<1>7. HostShift(M) \in 8 .. 16 /\ \A b \in M : HostShift(M) + 8 <= b
  BY <1>5, <1>6
<1> QED
  BY <1>7 DEF M

\* Where the three parts of a group lie.
LEMMA PartsLie ==
  ASSUME NEW s, Proper(s), NEW h \in LastOctets, NEW x \in Shorts,
         NEW k, k = HostShift(s.mask)
  PROVE  /\ k \in 8 .. 16 /\ h \in Shorts /\ x % Pow[k] \in Shorts
         /\ \A b \in s.mask : b \in Nat /\ k + 8 <= b
         /\ \A b \in Bits(h, k) : b \in Nat /\ k <= b /\ b < k + 8
         /\ \A b \in Bits(x % Pow[k], 0) : b \in Nat /\ b < k
<1>1. k \in 8 .. 16 /\ k \in 0 .. 16 /\ k \in Nat /\ \A b \in s.mask : b \in Nat /\ k + 8 <= b
  <2>1. k \in 8 .. 16 /\ \A b \in s.mask : k + 8 <= b
    BY ShiftIs
  <2>2. s.mask \in SUBSET Nat
    BY DEF Proper
  <2> QED
    BY <2>1, <2>2
<1>2. h \in Shorts /\ h \in Nat /\ h < Pow[8]
  BY PowValues, SMT DEF Shorts, LastOctets
<1> DEFINE p == Pow[k]
           r == x % p
<1>3. p \in Nat \ {0} /\ x \in Nat
  BY <1>1, PowDoubles, ShortsAre
<1> HIDE DEF p
<1>4. r \in Nat /\ r < p /\ r <= x
  BY <1>3
<1> HIDE DEF r
<1>5. r \in Shorts
  BY <1>3, <1>4, SMT DEF Shorts
<1>6. \A b \in Bits(h, k) : b \in k .. k + 8 - 1
  BY <1>1, <1>2, BitsWithin
<1>7. \A b \in Bits(r, 0) : b \in 0 .. 0 + k - 1
  BY <1>1, <1>4, BitsWithin DEF p
<1>8. /\ \A b \in Bits(h, k) : b \in Nat /\ k <= b /\ b < k + 8
      /\ \A b \in Bits(r, 0) : b \in Nat /\ b < k
  BY <1>1, <1>6, <1>7
<1> QED
  BY <1>1, <1>2, <1>5, <1>8 DEF r, p

\* A group lies in its scope.
LEMMA GroupInScope ==
  ASSUME NEW s, Proper(s), NEW h \in LastOctets, NEW x \in Shorts
  PROVE  GroupOf(h, s, x) \cap s.mask = s.addr
<1> DEFINE k == HostShift(s.mask)
           B == Bits(h, k)
           C == Bits(x % Pow[k], 0)
<1>1. /\ k \in 8 .. 16 /\ \A b \in s.mask : b \in Nat /\ k + 8 <= b
      /\ \A b \in B : b \in Nat /\ k <= b /\ b < k + 8
      /\ \A b \in C : b \in Nat /\ b < k
  BY PartsLie
<1>2. GroupOf(h, s, x) = s.addr \cup B \cup C
  BY DEF GroupOf
<1> HIDE DEF k, B, C
<1>3. ASSUME NEW b \in s.mask PROVE b \notin B /\ b \notin C
  <2>1. b \in Nat /\ k + 8 <= b /\ k \in Nat
    BY <1>1
  <2> QED
    BY <1>1, <2>1
<1> QED
  BY <1>2, <1>3 DEF Proper

\* A group tells the host, and the number as far as it goes.
LEMMA GroupTells ==
  ASSUME NEW s, Proper(s), NEW h \in LastOctets, NEW x \in Shorts,
         NEW g \in LastOctets, NEW y \in Shorts, GroupOf(h, s, x) = GroupOf(g, s, y),
         NEW k, k = HostShift(s.mask)
  PROVE  h = g /\ x % Pow[k] = y % Pow[k]
<1> DEFINE m == x % Pow[k]
           n == y % Pow[k]
           B == Bits(h, k)
           D == Bits(g, k)
           C == Bits(m, 0)
           E == Bits(n, 0)
<1>1. /\ k \in 8 .. 16 /\ h \in Shorts /\ m \in Shorts /\ g \in Shorts /\ n \in Shorts
      /\ \A b \in s.mask : b \in Nat /\ k + 8 <= b
      /\ \A b \in B : b \in Nat /\ k <= b /\ b < k + 8
      /\ \A b \in C : b \in Nat /\ b < k
      /\ \A b \in D : b \in Nat /\ k <= b /\ b < k + 8
      /\ \A b \in E : b \in Nat /\ b < k
  BY PartsLie
<1>2. s.addr \cup B \cup C = s.addr \cup D \cup E
  BY DEF GroupOf
<1> HIDE DEF m, n, B, C, D, E
<1>3. \A b \in s.addr : b \in Nat /\ k + 8 <= b
  BY <1>1 DEF Proper
<1>4. k \in Nat
  BY <1>1
<1>5. B = D
  <2>1. ASSUME NEW b \in B PROVE b \in D
    BY <1>1, <1>2, <1>3, <1>4
  <2>2. ASSUME NEW b \in D PROVE b \in B
    BY <1>1, <1>2, <1>3, <1>4
  <2> QED
    BY <2>1, <2>2
<1>6. C = E
  <2>1. ASSUME NEW b \in C PROVE b \in E
    BY <1>1, <1>2, <1>3, <1>4
  <2>2. ASSUME NEW b \in E PROVE b \in C
    BY <1>1, <1>2, <1>3, <1>4
  <2> QED
    BY <2>1, <2>2
<1>7. h = g
  BY <1>1, <1>4, <1>5, BitsTell DEF B, D
<1>8. m = n
  <2>1. Bits(m, 0) = Bits(n, 0) /\ 0 \in Nat
    BY <1>6 DEF C, E
  <2> QED
    BY <1>1, <2>1, BitsTell
<1> QED
  BY <1>7, <1>8 DEF m, n

\* The number after k draws.
Later(x, k) == (x + k) % 65536

\* Numbers go round in 16 bits.
LEMMA LaterIs ==
  ASSUME NEW x \in Shorts, NEW k \in Nat
  PROVE  /\ Later(x, k) \in Shorts
         /\ Later(Later(x, k), 1) = Later(x, k + 1)
         /\ (x + 1) % 2^16 = Later(x, 1)
BY SMT DEF Shorts, Later

\* A counter that went on less than 256 steps draws another number.
LEMMA NumbersDiffer ==
  ASSUME NEW x \in Shorts, NEW d \in 1 .. 255, NEW k \in 8 .. 16
  PROVE  Later(x, d) % Pow[k] # x % Pow[k]
<1> DEFINE y == Later(x, d)
<1>1. x \in Nat /\ y \in Nat
  BY SMT DEF Shorts, Later
<1>2. y = x + d \/ y = x + d - 65536
  BY SMT DEF Shorts, Later
<1> HIDE DEF y
<1>3. ASSUME NEW p \in {256, 512, 1024, 2048, 4096, 8192, 16384, 32768, 65536}
      PROVE  y % p # x % p
  <2>1. CASE p = 256
    BY <1>1, <1>2, <2>1, SMT
  <2>2. CASE p = 512
    BY <1>1, <1>2, <2>2, SMT
  <2>3. CASE p = 1024
    BY <1>1, <1>2, <2>3, SMT
  <2>4. CASE p = 2048
    BY <1>1, <1>2, <2>4, SMT
  <2>5. CASE p = 4096
    BY <1>1, <1>2, <2>5, SMT
  <2>6. CASE p = 8192
    BY <1>1, <1>2, <2>6, SMT
  <2>7. CASE p = 16384
    BY <1>1, <1>2, <2>7, SMT
  <2>8. CASE p = 32768
    BY <1>1, <1>2, <2>8, SMT
  <2>9. CASE p = 65536
    BY <1>1, <1>2, <2>9, SMT
  <2> QED
    BY <1>3, <2>1, <2>2, <2>3, <2>4, <2>5, <2>6, <2>7, <2>8, <2>9, SMT
<1>4. Pow[k] \in {256, 512, 1024, 2048, 4096, 8192, 16384, 32768, 65536}
  <2>1. /\ Pow[8] = 256 /\ Pow[9] = 512 /\ Pow[10] = 1024 /\ Pow[11] = 2048 /\ Pow[12] = 4096
        /\ Pow[13] = 8192 /\ Pow[14] = 16384 /\ Pow[15] = 32768 /\ Pow[16] = 65536
    BY SMT DEF Pow
  <2>2. k \in {8, 9, 10, 11, 12, 13, 14, 15, 16}
    BY SMT
  <2> QED
    BY <2>1, <2>2, SMT
<1> QED
  BY <1>1, <1>3, <1>4, SMT DEF y

-----------------------------------------------------------------------------
(***************************************************************************)
(* The invariant of the groups.                                            *)
(***************************************************************************)
ScopeType == [addr : SUBSET Int, mask : SUBSET Int]
GlobalsType == [scope_and_host : SUBSET Int, shift : 0 .. 16]
DrawnType ==
  [host : Octets, comp : Locals, group : SUBSET Int, scope : ScopeType, init : BOOLEAN]

McastTypes ==
  /\ globals \in [Octets -> GlobalsType]
  /\ dyn_mcast \in [Octets -> [Locals -> Shorts]]
  /\ scope_of \in [Octets -> ScopeType]
  /\ inited \in [Octets -> SUBSET Locals]
  /\ drawn \in Seq(DrawnType) /\ Len(drawn) <= MaxDraws

\* A host whose scope is asked for draws in it.
GlobalsOf(h, s) ==
  [scope_and_host |-> s.addr \cup Bits(h, HostShift(s.mask)), shift |-> HostShift(s.mask)]

HostsReady ==
  \A h \in Octets : scope_of[h].mask # {} =>
    Proper(scope_of[h]) /\ globals[h] = GlobalsOf(h, scope_of[h])

\* Entry e, number i of `drawn', was drawn with number x, and its component went on
\* from there unless it was initialised meanwhile.
DrawnWith(e, x) == e.scope.mask # {} => Proper(e.scope) /\ e.group = GroupOf(e.host, e.scope, x)
WentOn(e, i, x) ==
  e.init = (e.comp \in inited[e.host]) =>
    \E k \in 1 .. Len(drawn) + 1 - i : dyn_mcast[e.host][e.comp] = Later(x, k)

EntryOK(e, i) ==
  /\ e.init => e.comp \in inited[e.host]
  /\ \E x \in Shorts : DrawnWith(e, x) /\ WentOn(e, i, x)

EntriesOK == \A i \in 1 .. Len(drawn) : EntryOK(drawn[i], i)

McastInv == McastTypes /\ HostsReady /\ EntriesOK /\ GroupsApart

\* What two entries must not be (GroupsApart), d the earlier one.
Apart(d, e) ==
  d.scope = e.scope /\ d.scope.mask # {} /\ d.group = e.group =>
    d.host = e.host /\ (d.comp = e.comp => d.init # e.init)

\* What an entry must be (GroupsApart).
InScope(d) == d.scope.mask # {} => d.group \cap d.scope.mask = d.scope.addr

\* All are.
AllApart(q) == \A i, j \in DOMAIN q : InScope(q[i]) /\ (i < j => Apart(q[i], q[j]))

\* The same in other words, before and after a step.
LEMMA ApartIs == (GroupsApart <=> AllApart(drawn)) /\ (GroupsApart' <=> AllApart(drawn'))
BY Zenon DEF GroupsApart, AllApart, InScope, Apart

\* What the constants are.
LEMMA BoundsAre ==
  /\ \A h \in Octets : h \in LastOctets /\ h \in Nat
  /\ \A n \in Hashes : n \in Shorts
  /\ MaxDraws \in Nat /\ MaxDraws <= 255
<1>1. Octets \subseteq 1 .. 255
  BY McastAssumption
<1>2. Hashes \subseteq 0 .. 2^16 - 1
  BY McastAssumption
<1>3. MaxDraws \in 1 .. 2^8 - 1
  BY McastAssumption
<1>4. \A h \in Octets : h \in LastOctets /\ h \in Nat
  BY <1>1, SMT DEF LastOctets
<1>5. ASSUME NEW n \in Hashes PROVE n \in Shorts
  <2>1. n \in 0 .. 2^16 - 1
    BY <1>2
  <2> QED
    BY <2>1, SMT DEF Shorts
<1>6. MaxDraws \in Nat /\ MaxDraws <= 255
  BY <1>3, SMT
<1> QED
  BY <1>4, <1>5, <1>6

\* Bits are numbers.
LEMMA BitsType ==
  ASSUME NEW n \in Nat, NEW k \in Nat
  PROVE  Bits(n, k) \in SUBSET Int
<1>1. ASSUME NEW b \in Bits(n, k) PROVE b \in Int
  BY BitsAre
<1> QED
  BY <1>1

\* The invariant holds at first.
LEMMA McastFirst == McastInit => McastInv
<1> SUFFICES ASSUME McastInit PROVE McastInv
  OBVIOUS
<1>1. drawn = <<>> /\ Len(drawn) = 0 /\ DOMAIN drawn = {}
  BY DEF McastInit
<1>2. 0 \in Shorts
  BY SMT DEF Shorts
<1>3. {} \in SUBSET Int /\ 0 \in 0 .. 16 /\ {} \in SUBSET Locals
  OBVIOUS
<1>4. McastTypes
  <2>1. globals \in [Octets -> GlobalsType]
    BY <1>3 DEF McastInit, GlobalsType
  <2>2. scope_of \in [Octets -> ScopeType]
    BY <1>3 DEF McastInit, ScopeType
  <2>3. dyn_mcast \in [Octets -> [Locals -> Shorts]]
    BY <1>2, Zenon DEF McastInit
  <2>4. inited \in [Octets -> SUBSET Locals]
    BY <1>3, Zenon DEF McastInit
  <2>5. drawn \in Seq(DrawnType) /\ Len(drawn) <= MaxDraws
    <3>1. drawn \in Seq(DrawnType)
      BY <1>1
    <3>2. MaxDraws \in Nat
      BY BoundsAre
    <3> QED
      BY <1>1, <3>1, <3>2
  <2> QED
    BY <2>1, <2>2, <2>3, <2>4, <2>5 DEF McastTypes
<1>5. HostsReady
  BY DEF McastInit, HostsReady
<1>6. EntriesOK
  BY <1>1 DEF EntriesOK
<1>7. GroupsApart
  BY <1>1, ApartIs DEF AllApart
<1> QED
  BY <1>4, <1>5, <1>6, <1>7 DEF McastInv

\* mcast_alloc_init keeps the invariant.
LEMMA InitKeeps ==
  ASSUME McastInv, NEW h \in Octets, NEW c \in Locals, NEW wanted, NEW hash \in Hashes,
         mcast_alloc_init(h, c, wanted, hash)
  PROVE  McastInv'
<1> DEFINE s == InRange(Wanted(wanted))
           g == GlobalsOf(h, s)
           k == HostShift(s.mask)
<1>1. /\ c \notin inited[h] /\ s.addr \subseteq s.mask
      /\ globals' = [globals EXCEPT ![h] = g]
      /\ dyn_mcast' = [dyn_mcast EXCEPT ![h][c] = hash % 2^k]
      /\ scope_of' = [scope_of EXCEPT ![h] = s]
      /\ inited' = [inited EXCEPT ![h] = @ \cup {c}]
      /\ drawn' = drawn
  BY Zenon DEF mcast_alloc_init, GlobalsOf
<1>2. Proper(s)
  BY <1>1, AcceptedIsProper
<1>3. k \in 8 .. 16 /\ h \in Nat /\ h \in LastOctets
  BY <1>2, ShiftIs, BoundsAre
<1>4. s \in ScopeType
  <2>1. s.addr \in SUBSET Int /\ s.mask \in SUBSET Int
    BY <1>2 DEF Proper
  <2>2. \E a, m : s = [addr |-> a, mask |-> m]
    BY DEF InRange
  <2> HIDE DEF s
  <2> QED
    BY <2>1, <2>2 DEF ScopeType
<1>5. g \in GlobalsType
  <2>1. k \in Nat /\ k \in 0 .. 16
    BY <1>3
  <2>2. Bits(h, k) \in SUBSET Int /\ s.addr \in SUBSET Int
    BY <1>3, <1>4, <2>1, BitsType DEF ScopeType
  <2> DEFINE w == s.addr \cup Bits(h, k)
  <2>3. w \in SUBSET Int
    BY <2>2
  <2>4. g = [scope_and_host |-> w, shift |-> k]
    BY DEF GlobalsOf
  <2> HIDE DEF g, w, k
  <2> QED
    BY <2>1, <2>3, <2>4 DEF GlobalsType
<1> DEFINE n == hash % 2^k
<1>6. n \in Shorts
  <2> DEFINE p == 2^k
  <2>1. p \in Nat \ {0}
    <3>1. k \in 0 .. 16
      BY <1>3
    <3>2. Pow[k] = 2^k
      BY <3>1, Zenon DEF Pow
    <3> QED
      BY <3>1, <3>2, PowDoubles
  <2>2. hash \in Shorts
    BY BoundsAre
  <2> HIDE DEF p
  <2>3. hash % p \in Nat /\ hash % p <= hash
    <3>1. hash \in Nat
      BY <2>2, ShortsAre
    <3> QED
      BY <2>1, <3>1
  <2>4. hash % p \in Shorts
    BY <2>2, <2>3, SMT DEF Shorts
  <2> QED
    BY <2>4 DEF p
<1> HIDE DEF s, g, k, n
<1>7. /\ McastTypes /\ HostsReady /\ EntriesOK /\ GroupsApart
  BY DEF McastInv
<1>8. McastTypes'
  <2>1. globals' \in [Octets -> GlobalsType]
    BY <1>1, <1>5, <1>7 DEF McastTypes
  <2>2. scope_of' \in [Octets -> ScopeType]
    BY <1>1, <1>4, <1>7 DEF McastTypes
  <2>3. inited' \in [Octets -> SUBSET Locals]
    BY <1>1, <1>7 DEF McastTypes
  <2>4. dyn_mcast' \in [Octets -> [Locals -> Shorts]]
    BY <1>1, <1>6, <1>7 DEF McastTypes, n
  <2>5. drawn' \in Seq(DrawnType) /\ Len(drawn') <= MaxDraws
    BY <1>1, <1>7 DEF McastTypes
  <2> QED
    BY <2>1, <2>2, <2>3, <2>4, <2>5 DEF McastTypes
<1>9. HostsReady'
  <2> SUFFICES ASSUME NEW o \in Octets, scope_of'[o].mask # {}
               PROVE  Proper(scope_of'[o]) /\ globals'[o] = GlobalsOf(o, scope_of'[o])
    BY DEF HostsReady
  <2>1. CASE o = h
    <3>1. scope_of'[o] = s /\ globals'[o] = g
      BY <1>1, <1>7, <2>1 DEF McastTypes
    <3> QED
      BY <1>2, <2>1, <3>1 DEF g
  <2>2. CASE o # h
    <3>1. scope_of'[o] = scope_of[o] /\ globals'[o] = globals[o]
      BY <1>1, <1>7, <2>2 DEF McastTypes
    <3> QED
      BY <1>7, <3>1 DEF HostsReady
  <2> QED
    BY <2>1, <2>2
<1>10. EntriesOK'
  <2> SUFFICES ASSUME NEW i \in 1 .. Len(drawn) PROVE EntryOK(drawn[i], i)'
    BY <1>1 DEF EntriesOK
  <2> DEFINE e == drawn[i]
  <2>1. e' = e /\ Len(drawn') = Len(drawn)
    BY <1>1
  <2>2. e \in DrawnType
    BY <1>7 DEF McastTypes
  <2> HIDE DEF e
  <2>3. EntryOK(e, i)
    BY <1>7 DEF EntriesOK, e
  <2>4. PICK x \in Shorts : DrawnWith(e, x) /\ WentOn(e, i, x)
    BY <2>3 DEF EntryOK
  <2>5. e.init => e.comp \in inited[e.host]
    BY <2>3 DEF EntryOK
  <2>6. e.host \in Octets /\ e.comp \in Locals /\ e.init \in BOOLEAN
    BY <2>2 DEF DrawnType
  <2>7. CASE e.host = h /\ e.comp = c
    <3>1. e.init = FALSE
      BY <1>1, <2>5, <2>6, <2>7
    <3>2. e.comp \in inited'[e.host]
      BY <1>1, <1>7, <2>7 DEF McastTypes
    <3>3. EntryOK(e, i)'
      BY <2>1, <2>4, <3>1, <3>2 DEF EntryOK, WentOn, DrawnWith
    <3> QED
      BY <3>3 DEF e
  <2>8. CASE ~(e.host = h /\ e.comp = c)
    <3>1. e.comp \in inited'[e.host] <=> e.comp \in inited[e.host]
      BY <1>1, <1>7, <2>6, <2>8 DEF McastTypes
    <3>2. dyn_mcast'[e.host][e.comp] = dyn_mcast[e.host][e.comp]
      BY <1>1, <1>7, <2>6, <2>8 DEF McastTypes
    <3>3. EntryOK(e, i)'
      BY <2>1, <2>4, <2>5, <3>1, <3>2 DEF EntryOK, WentOn, DrawnWith
    <3> QED
      BY <3>3 DEF e
  <2> QED
    BY <2>7, <2>8
<1>11. GroupsApart'
  BY <1>1, <1>7, ApartIs
<1> QED
  BY <1>8, <1>9, <1>10, <1>11 DEF McastInv

\* mcast_alloc_new keeps it.
LEMMA NewKeeps ==
  ASSUME McastInv, NEW h \in Octets, NEW c \in Locals, mcast_alloc_new(h, c)
  PROVE  McastInv'
<1> DEFINE g == globals[h]
           x == dyn_mcast[h][c]
           s == scope_of[h]
           b == c \in inited[h]
           group == g.scope_and_host \cup Bits(x % 2^g.shift, 0)
           d == [host |-> h, comp |-> c, group |-> group, scope |-> s, init |-> b]
           l == Len(drawn)
<1>1. /\ l < MaxDraws
      /\ dyn_mcast' = [dyn_mcast EXCEPT ![h][c] = (@ + 1) % 2^16]
      /\ drawn' = Append(drawn, d)
      /\ globals' = globals /\ scope_of' = scope_of /\ inited' = inited
  BY Zenon DEF mcast_alloc_new
<1>2. /\ McastTypes /\ HostsReady /\ EntriesOK /\ GroupsApart
  BY DEF McastInv
<1>3. g \in GlobalsType /\ x \in Shorts /\ s \in ScopeType /\ b \in BOOLEAN /\ l \in Nat
  BY <1>2 DEF McastTypes
<1>4. h \in Nat /\ h \in LastOctets /\ MaxDraws \in Nat /\ MaxDraws <= 255
  BY BoundsAre
<1>5. g.shift \in 0 .. 16 /\ Pow[g.shift] = 2^g.shift
  BY <1>3, Zenon DEF GlobalsType, Pow
<1> HIDE DEF s, b
<1>6. group \in SUBSET Int
  <2> DEFINE p == 2^g.shift
  <2>1. p \in Nat \ {0}
    BY <1>5, PowDoubles
  <2>2. x \in Nat
    BY <1>3, ShortsAre
  <2> HIDE DEF p, x, g
  <2>3. x % p \in Nat
    BY <2>1, <2>2
  <2>4. g.scope_and_host \in SUBSET Int
    BY <1>3 DEF GlobalsType
  <2>5. Bits(x % p, 0) \in SUBSET Int
    BY <2>3, BitsType
  <2> QED
    BY <2>4, <2>5 DEF p
<1>7. s.mask # {} => Proper(s) /\ group = GroupOf(h, s, x)
  <2> SUFFICES ASSUME s.mask # {} PROVE Proper(s) /\ group = GroupOf(h, s, x)
    OBVIOUS
  <2>1. Proper(s) /\ g = GlobalsOf(h, s)
    BY <1>2 DEF HostsReady, s
  <2>2. g.shift = HostShift(s.mask) /\ g.scope_and_host = s.addr \cup Bits(h, HostShift(s.mask))
    BY <2>1 DEF GlobalsOf
  <2> HIDE DEF g, x
  <2>3. group = GroupOf(h, s, x)
    BY <1>5, <2>2, Zenon DEF GroupOf
  <2> QED
    BY <2>1, <2>3
<1> HIDE DEF g, group
<1>8. d \in DrawnType
  BY <1>3, <1>6 DEF DrawnType
<1>9. /\ Len(drawn') = l + 1 /\ drawn'[l + 1] = d
      /\ \A i \in 1 .. l : drawn'[i] = drawn[i]
      /\ drawn' \in Seq(DrawnType) /\ DOMAIN drawn' = 1 .. l + 1 /\ DOMAIN drawn = 1 .. l
  BY <1>1, <1>2, <1>8 DEF McastTypes
<1>10. d.host = h /\ d.comp = c /\ d.group = group /\ d.scope = s /\ d.init = b
  OBVIOUS
<1>11. Later(x, 1) \in Shorts /\ (x + 1) % 2^16 = Later(x, 1)
  BY <1>3, LaterIs
<1> HIDE DEF x, l, d
<1>12. /\ dyn_mcast' = [dyn_mcast EXCEPT ![h][c] = Later(x, 1)]
       /\ x = dyn_mcast[h][c]
  <2>1. dyn_mcast' = [dyn_mcast EXCEPT ![h][c] = (x + 1) % 2^16]
    BY <1>1, Zenon DEF x
  <2> QED
    BY <1>11, <2>1, Zenon DEF x
<1>13. McastTypes'
  <2>1. dyn_mcast' \in [Octets -> [Locals -> Shorts]]
    BY <1>2, <1>11, <1>12 DEF McastTypes
  <2>2. Len(drawn') <= MaxDraws
    BY <1>1, <1>3, <1>4, <1>9
  <2> QED
    BY <1>1, <1>2, <1>9, <2>1, <2>2 DEF McastTypes
<1>14. HostsReady'
  BY <1>1, <1>2 DEF HostsReady
<1>15. EntriesOK'
  <2> SUFFICES ASSUME NEW i \in 1 .. l + 1 PROVE EntryOK(drawn[i], i)'
    BY <1>9 DEF EntriesOK
  <2>1. CASE i = l + 1
    <3>1. DrawnWith(d, x)
      BY <1>7, <1>10 DEF DrawnWith
    <3>2. dyn_mcast'[h][c] = Later(x, 1)
      BY <1>2, <1>12 DEF McastTypes
    <3>3. 1 \in 1 .. Len(drawn') + 1 - i
      BY <1>3, <1>9, <2>1
    <3>4. \E k \in 1 .. Len(drawn') + 1 - i : dyn_mcast'[d.host][d.comp] = Later(x, k)
      BY <1>10, <3>2, <3>3
    <3>5. d.init => d.comp \in inited'[d.host]
      BY <1>1, <1>10 DEF b
    <3>6. drawn'[i] = d
      BY <1>9, <2>1
    <3> QED
      BY <1>3, <3>1, <3>4, <3>5, <3>6 DEF EntryOK, DrawnWith, WentOn
  <2>2. CASE i # l + 1
    <3>1. i \in 1 .. l /\ i \in Nat
      BY <1>3, <2>2
    <3> DEFINE e == drawn[i]
    <3>2. drawn'[i] = e /\ e \in DrawnType
      BY <1>2, <1>9, <3>1 DEF McastTypes, l
    <3>3. EntryOK(e, i)
      BY <1>2, <3>1 DEF EntriesOK, l
    <3> HIDE DEF e
    <3>4. PICK y \in Shorts : DrawnWith(e, y) /\ WentOn(e, i, y)
      BY <3>3 DEF EntryOK
    <3>5. e.init => e.comp \in inited'[e.host]
      BY <1>1, <3>3 DEF EntryOK
    <3>6. e.host \in Octets /\ e.comp \in Locals /\ e.init \in BOOLEAN
      BY <3>2 DEF DrawnType
    <3>7. ASSUME e.init = (e.comp \in inited[e.host])
          PROVE  \E k \in 1 .. Len(drawn') + 1 - i : dyn_mcast'[e.host][e.comp] = Later(y, k)
      <4>1. PICK k \in 1 .. l + 1 - i : dyn_mcast[e.host][e.comp] = Later(y, k)
        BY <3>4, <3>7 DEF WentOn, l
      <4>2. k \in Nat /\ k \in 1 .. Len(drawn') + 1 - i /\ k + 1 \in 1 .. Len(drawn') + 1 - i
        BY <1>3, <1>9, <3>1
      <4>3. CASE e.host = h /\ e.comp = c
        <5>1. dyn_mcast'[e.host][e.comp] = Later(x, 1)
          BY <1>2, <1>12, <4>3 DEF McastTypes
        <5>2. x = Later(y, k)
          BY <1>12, <4>1, <4>3
        <5>3. dyn_mcast'[e.host][e.comp] = Later(y, k + 1)
          BY <4>2, <5>1, <5>2, LaterIs
        <5> QED
          BY <4>2, <5>3
      <4>4. CASE ~(e.host = h /\ e.comp = c)
        <5>1. dyn_mcast'[e.host][e.comp] = dyn_mcast[e.host][e.comp]
          BY <1>2, <1>12, <3>6, <4>4 DEF McastTypes
        <5> QED
          BY <4>1, <4>2, <5>1
      <4> QED
        BY <4>3, <4>4
    <3>8. EntryOK(drawn[i], i)'
      BY <1>1, <3>2, <3>4, <3>5, <3>7 DEF EntryOK, DrawnWith, WentOn
    <3> QED
      BY <3>8
  <2> QED
    BY <2>1, <2>2
<1>16. GroupsApart'
  <2>1. AllApart(drawn)
    BY <1>2, ApartIs
  <2>2. ASSUME NEW i \in 1 .. l + 1 PROVE InScope(drawn'[i])
    <3>1. CASE i = l + 1
      <4>1. ASSUME s.mask # {} PROVE group \cap s.mask = s.addr
        BY <1>3, <1>4, <1>7, <4>1, GroupInScope
      <4> QED
        BY <1>9, <1>10, <3>1, <4>1 DEF InScope
    <3>2. CASE i # l + 1
      <4>1. i \in 1 .. l
        BY <1>3, <3>2
      <4> QED
        BY <1>9, <2>1, <4>1 DEF AllApart
    <3> QED
      BY <3>1, <3>2
  <2>3. ASSUME NEW i \in 1 .. l PROVE Apart(drawn[i], d)
    <3> DEFINE e == drawn[i]
    <3>1. e \in DrawnType /\ EntryOK(e, i)
      BY <1>2 DEF McastTypes, EntriesOK, l
    <3> HIDE DEF e
    <3>2. e.host \in Octets /\ e.init \in BOOLEAN
      BY <3>1 DEF DrawnType
    <3>3. PICK y \in Shorts : DrawnWith(e, y) /\ WentOn(e, i, y)
      BY <3>1 DEF EntryOK
    <3>4. ASSUME e.scope = s, s.mask # {}, e.group = group
          PROVE  e.host = h /\ (e.comp = c => e.init # b)
      <4> DEFINE k == HostShift(s.mask)
      <4>1. Proper(s) /\ GroupOf(e.host, s, y) = GroupOf(h, s, x)
        BY <1>7, <3>3, <3>4 DEF DrawnWith
      <4>2. e.host \in LastOctets /\ k \in 8 .. 16
        BY <3>2, <4>1, BoundsAre, ShiftIs
      <4>3. e.host = h /\ y % Pow[k] = x % Pow[k]
        <5> DEFINE o == e.host
        <5>1. k = HostShift(s.mask) /\ o \in LastOctets /\ GroupOf(o, s, y) = GroupOf(h, s, x)
          BY <4>1, <4>2
        <5> HIDE DEF o, k
        <5>2. x \in Shorts /\ h \in LastOctets /\ Proper(s)
          BY <1>3, <1>4, <4>1
        <5>3. o = h /\ y % Pow[k] = x % Pow[k]
          BY <5>1, <5>2, GroupTells
        <5> QED
          BY <5>3 DEF o
      <4>4. ASSUME e.comp = c, e.init = b PROVE FALSE
        <5>1. e.init = (e.comp \in inited[e.host])
          BY <4>3, <4>4 DEF b
        <5>2. PICK n \in 1 .. l + 1 - i : dyn_mcast[e.host][e.comp] = Later(y, n)
          BY <3>3, <5>1 DEF WentOn, l
        <5>3. x = Later(y, n)
          BY <1>12, <4>3, <4>4, <5>2
        <5>4. n \in 1 .. 255
          <6>1. i \in Nat /\ 1 <= i /\ l \in Nat /\ n \in Nat /\ 1 <= n /\ n <= l + 1 - i
            BY <1>3
          <6>2. MaxDraws \in Nat /\ MaxDraws <= 255 /\ l < MaxDraws
            BY <1>1, <1>4
          <6> QED
            BY <6>1, <6>2, SMT
        <5> QED
          BY <4>2, <4>3, <5>3, <5>4, NumbersDiffer
      <4> QED
        BY <4>3, <4>4
    <3>5. Apart(e, d)
      BY <1>10, <3>4 DEF Apart
    <3> QED
      BY <3>5 DEF e
  <2>4. ASSUME NEW i \in 1 .. l + 1, NEW j \in 1 .. l + 1, i < j PROVE Apart(drawn'[i], drawn'[j])
    <3>1. i \in 1 .. l
      BY <1>3, <2>4
    <3>2. CASE j = l + 1
      BY <1>9, <2>3, <3>1, <3>2
    <3>3. CASE j # l + 1
      <4>1. j \in 1 .. l
        BY <1>3, <3>3
      <4> QED
        BY <1>9, <2>1, <2>4, <3>1, <4>1 DEF AllApart
    <3> QED
      BY <3>2, <3>3
  <2>5. AllApart(drawn')
    BY <1>9, <2>2, <2>4 DEF AllApart
  <2> QED
    BY <2>5, ApartIs
<1> QED
  BY <1>13, <1>14, <1>15, <1>16 DEF McastInv

\* Whatever components ask for and draw, in whatever order: a group lies in its
\* scope, hosts with different last octets never draw the same group of a scope,
\* and no component draws a group of a scope twice while its counter has not come
\* round.
THEOREM GroupsStayApart == McastSpec => []GroupsApart
<1>1. ASSUME McastInv, [McastNext]_mcastVars PROVE McastInv'
  <2>1. ASSUME NEW h \in Octets, NEW c \in Locals, NEW scope \in Scopes, NEW hash \in Hashes,
               mcast_alloc_init(h, c, scope, hash)
        PROVE  McastInv'
    BY <1>1, <2>1, InitKeeps
  <2>2. ASSUME NEW h \in Octets, NEW c \in Locals, mcast_alloc_new(h, c) PROVE McastInv'
    BY <1>1, <2>2, NewKeeps
  <2>3. CASE UNCHANGED mcastVars
    <3>1. /\ drawn' = drawn /\ globals' = globals /\ dyn_mcast' = dyn_mcast
          /\ scope_of' = scope_of /\ inited' = inited
      BY <2>3 DEF mcastVars
    <3>2. GroupsApart'
      BY <1>1, <3>1, ApartIs DEF McastInv
    <3>3. EntriesOK'
      BY <1>1, <3>1, Zenon DEF McastInv, EntriesOK, EntryOK, DrawnWith, WentOn
    <3> QED
      BY <1>1, <3>1, <3>2, <3>3 DEF McastInv, McastTypes, HostsReady
  <2> QED
    BY <1>1, <2>1, <2>2, <2>3 DEF McastNext
<1>2. McastInv => GroupsApart
  BY DEF McastInv
<1> QED
  BY <1>1, <1>2, McastFirst, PTL DEF McastSpec

-----------------------------------------------------------------------------
(***************************************************************************)
(* Lists.                                                                  *)
(***************************************************************************)
\* What stands in a list, and that nothing stands in it twice.
Elems(q) == {q[n] : n \in DOMAIN q}
NoDup(q) == \A m, n \in DOMAIN q : q[m] = q[n] => m = n

\* Nothing stands in the empty list.
LEMMA NothingListed == Elems(<<>>) = {} /\ NoDup(<<>>)
BY DEF Elems, NoDup

\* A list in which nothing stands is empty.
LEMMA NoElems ==
  ASSUME NEW E, NEW q \in Seq(E), Elems(q) = {}
  PROVE  q = <<>>
<1>1. Len(q) \in Nat /\ DOMAIN q = 1 .. Len(q)
  OBVIOUS
<1>2. Len(q) = 0
  <2> SUFFICES ASSUME Len(q) # 0 PROVE FALSE
    OBVIOUS
  <2>1. 1 \in DOMAIN q
    BY <1>1
  <2> QED
    BY <2>1 DEF Elems
<1> QED
  BY <1>2

\* What a list is with one more at its end.
LEMMA Appended ==
  ASSUME NEW E, NEW q \in Seq(E), NEW e \in E
  PROVE  /\ Append(q, e) \in Seq(E) /\ Len(Append(q, e)) = Len(q) + 1
         /\ \A x : x \in Elems(Append(q, e)) <=> x \in Elems(q) \/ x = e
         /\ NoDup(q) /\ e \notin Elems(q) => NoDup(Append(q, e))
<1> DEFINE l == Len(q)
           r == Append(q, e)
<1>1. /\ l \in Nat /\ DOMAIN q = 1 .. l /\ r \in Seq(E) /\ Len(r) = l + 1 /\ DOMAIN r = 1 .. l + 1
      /\ r[l + 1] = e /\ \A n \in 1 .. l : r[n] = q[n]
  OBVIOUS
<1> HIDE DEF l, r
<1>2. \A n \in 1 .. l + 1 : n \in 1 .. l \/ n = l + 1
  BY <1>1
<1>3. \A n \in 1 .. l : n \in 1 .. l + 1 /\ n # l + 1
  BY <1>1
<1>4. l + 1 \in 1 .. l + 1
  BY <1>1
<1>5. Elems(r) = Elems(q) \cup {e}
  <2>1. ASSUME NEW x \in Elems(r) PROVE x \in Elems(q) \cup {e}
    BY <1>1, <1>2 DEF Elems
  <2>2. ASSUME NEW x \in Elems(q) \cup {e} PROVE x \in Elems(r)
    <3>1. CASE x = e
      BY <1>1, <1>4, <3>1 DEF Elems
    <3>2. CASE x \in Elems(q)
      BY <1>1, <1>3, <3>2 DEF Elems
    <3> QED
      BY <3>1, <3>2
  <2> QED
    BY <2>1, <2>2
<1>6. ASSUME NoDup(q), e \notin Elems(q) PROVE NoDup(r)
  <2> SUFFICES ASSUME NEW m \in 1 .. l + 1, NEW n \in 1 .. l + 1, r[m] = r[n] PROVE m = n
    BY <1>1 DEF NoDup
  <2>1. \A k \in 1 .. l : r[k] # e
    BY <1>1, <1>6 DEF Elems
  <2> QED
    BY <1>1, <1>2, <1>6, <2>1 DEF NoDup
<1> QED
  BY <1>1, <1>5, <1>6 DEF l, r

\* What it is with one more at its head.
LEMMA Prepended ==
  ASSUME NEW E, NEW q \in Seq(E), NEW e \in E
  PROVE  /\ (<<e>> \o q) \in Seq(E) /\ Len(<<e>> \o q) = Len(q) + 1
         /\ \A x : x \in Elems(<<e>> \o q) <=> x \in Elems(q) \/ x = e
         /\ NoDup(q) /\ e \notin Elems(q) => NoDup(<<e>> \o q)
<1> DEFINE l == Len(q)
           r == <<e>> \o q
<1>1. /\ l \in Nat /\ DOMAIN q = 1 .. l /\ r \in Seq(E) /\ Len(r) = l + 1 /\ DOMAIN r = 1 .. l + 1
      /\ r[1] = e /\ \A n \in 1 .. l : r[n + 1] = q[n]
  OBVIOUS
<1> HIDE DEF l, r
<1>2. \A n \in 1 .. l + 1 : n = 1 \/ (n - 1 \in 1 .. l /\ r[n] = q[n - 1])
  <2> SUFFICES ASSUME NEW n \in 1 .. l + 1, n # 1 PROVE n - 1 \in 1 .. l /\ r[n] = q[n - 1]
    OBVIOUS
  <2>1. n - 1 \in 1 .. l /\ (n - 1) + 1 = n
    BY <1>1
  <2> QED
    BY <1>1, <2>1
<1>3. \A n \in 1 .. l : n + 1 \in 1 .. l + 1
  BY <1>1
<1>4. 1 \in 1 .. l + 1
  BY <1>1
<1>5. Elems(r) = Elems(q) \cup {e}
  <2>1. ASSUME NEW x \in Elems(r) PROVE x \in Elems(q) \cup {e}
    <3>1. PICK n \in 1 .. l + 1 : x = r[n]
      BY <1>1 DEF Elems
    <3>2. CASE n = 1
      BY <1>1, <3>1, <3>2
    <3>3. CASE n # 1
      BY <1>1, <1>2, <3>1, <3>3 DEF Elems
    <3> QED
      BY <3>2, <3>3
  <2>2. ASSUME NEW x \in Elems(q) \cup {e} PROVE x \in Elems(r)
    <3>1. CASE x = e
      BY <1>1, <1>4, <3>1 DEF Elems
    <3>2. CASE x \in Elems(q)
      <4>1. PICK n \in 1 .. l : x = q[n]
        BY <1>1, <3>2 DEF Elems
      <4> QED
        BY <1>1, <1>3, <4>1 DEF Elems
    <3> QED
      BY <3>1, <3>2
  <2> QED
    BY <2>1, <2>2
<1>6. ASSUME NoDup(q), e \notin Elems(q) PROVE NoDup(r)
  <2> SUFFICES ASSUME NEW m \in 1 .. l + 1, NEW n \in 1 .. l + 1, r[m] = r[n] PROVE m = n
    BY <1>1 DEF NoDup
  <2>1. \A k \in 1 .. l : q[k] # e
    BY <1>1, <1>6 DEF Elems
  <2>2. \A j, k \in 1 .. l : q[j] = q[k] => j = k
    BY <1>1, <1>6 DEF NoDup
  <2>3. m = 1 <=> n = 1
    BY <1>1, <1>2, <2>1
  <2>4. CASE m # 1 /\ n # 1
    <3>1. m - 1 = n - 1
      BY <1>2, <2>2, <2>4
    <3> QED
      BY <3>1, <1>1
  <2> QED
    BY <2>3, <2>4
<1> QED
  BY <1>1, <1>5, <1>6 DEF l, r

\* How many stand in a list without repetitions.
LEMMA AsLongAsMany ==
  ASSUME NEW E, NEW q \in Seq(E), NoDup(q)
  PROVE  IsFiniteSet(Elems(q)) /\ Cardinality(Elems(q)) = Len(q)
<1> DEFINE l == Len(q)
           S == Elems(q)
<1>1. l \in Nat /\ DOMAIN q = 1 .. l
  OBVIOUS
<1>2. q \in [1 .. l -> S]
  BY <1>1 DEF Elems
<1>3. \A x \in S : \E n \in 1 .. l : q[n] = x
  BY <1>1 DEF Elems
<1>4. \A m, n \in 1 .. l : q[m] = q[n] => m = n
  BY <1>1 DEF NoDup
<1> HIDE DEF l, S
<1>5. q \in Bijection(1 .. l, S)
  <2>1. q \in Injection(1 .. l, S)
    BY <1>2, <1>4, Zenon DEF Injection, IsInjective
  <2>2. q \in Surjection(1 .. l, S)
    BY <1>2, <1>3, Zenon DEF Surjection
  <2> QED
    BY <2>1, <2>2, Zenon DEF Bijection
<1>6. ExistsBijection(1 .. l, S)
  BY <1>5 DEF ExistsBijection
<1>7. IsFiniteSet(S) /\ Cardinality(S) = l
  BY <1>1, <1>6, FS_NatBijection, FS_CountingElements
<1> QED
  BY <1>7 DEF l, S

\* What Keep leaves of a list.
LEMMA KeepIs ==
  ASSUME NEW E, NEW q \in Seq(E), NEW S
  PROVE  /\ Keep(q, S) \in Seq(E)
         /\ \A x : x \in Elems(Keep(q, S)) <=> x \in Elems(q) /\ x \in S
         /\ NoDup(q) => NoDup(Keep(q, S))
         /\ Len(Keep(q, S)) <= Len(q)
<1> DEFINE r == Keep(q, S)
           l == Len(q)
           D == Seq(E)
           round(x, k) == IF q[k] \in S THEN Append(x, q[k]) ELSE x
           step == [k \in 1 .. l |-> [x \in D |-> round(x, k)]]
           IsKept(f) == f = [k \in 0 .. l |-> IF k = 0 THEN <<>> ELSE round(f[k - 1], k)]
           kept == CHOOSE f : IsKept(f)
<1>1. l \in Nat /\ DOMAIN q = 1 .. l /\ \A k \in 1 .. l : q[k] \in E
  OBVIOUS
<1> HIDE DEF r
<1>2. r = kept[l]
  BY Zenon DEF Keep, r
<1>3. \A k \in 1 .. l : \A x \in D : round(x, k) \in D
  BY <1>1, Appended
<1>4. step \in [1 .. l -> [D -> D]] /\ <<>> \in D
  BY <1>3
<1>5. \A k \in 1 .. l : \A x \in D : step[k][x] = round(x, k)
  OBVIOUS
<1> HIDE DEF l, D, round, step
<1>6. \A k \in 0 .. l : k # 0 => k \in 1 .. l /\ k - 1 \in 0 .. l
  BY <1>1
<1>7. \E f : IsKept(f)
  <2>1. PICK f \in [0 .. l -> D] : IsLoop(step, <<>>, l, f)
    BY <1>1, <1>4, LoopExists
  <2>2. \A k \in 0 .. l : k # 0 => step[k][f[k - 1]] = round(f[k - 1], k)
    BY <1>5, <1>6, <2>1
  <2>3. f = [k \in 0 .. l |-> IF k = 0 THEN <<>> ELSE step[k][f[k - 1]]]
    BY <2>1, Zenon DEF IsLoop
  <2>4. IsKept(f)
    BY <2>2, <2>3
  <2> QED
    BY <2>4
<1>8. IsKept(kept)
  BY <1>7, Zenon
<1> HIDE DEF kept
<1>9. kept[0] = <<>> /\ \A k \in 1 .. l : kept[k] = round(kept[k - 1], k)
  <2>1. \A k \in 1 .. l : k \in 0 .. l /\ k # 0
    BY <1>1
  <2>2. 0 \in 0 .. l
    BY <1>1
  <2> QED
    BY <1>8, <2>1, <2>2
<1> HIDE DEF IsKept
<1> DEFINE Upto(k) == {q[j] : j \in 1 .. k} \cap S
           Good(k) == /\ kept[k] \in D /\ Elems(kept[k]) = Upto(k)
                      /\ NoDup(q) => NoDup(kept[k])
                      /\ Len(kept[k]) <= k
           T == {k \in 0 .. l : Good(k)}
<1>10. 0 \in T
  <2>1. kept[0] = <<>> /\ Elems(<<>>) = {} /\ NoDup(<<>>) /\ Upto(0) = {} /\ Len(<<>>) = 0
    BY <1>9 DEF Elems, NoDup
  <2> QED
    BY <1>1, <1>4, <2>1
<1>11. ASSUME NEW k \in 1 .. l, k - 1 \in T PROVE k \in T
  <2> DEFINE x == kept[k - 1]
             y == kept[k]
  <2>1. y = round(x, k) /\ q[k] \in E /\ k \in 0 .. l /\ k \in Nat /\ k - 1 \in Nat
    BY <1>1, <1>6, <1>9
  <2>2. x \in Seq(E) /\ Elems(x) = Upto(k - 1) /\ (NoDup(q) => NoDup(x)) /\ Len(x) <= k - 1
    BY <1>11 DEF D
  <2>3. Upto(k) = (Upto(k - 1) \cup {q[k]}) \cap S
    <3>1. \A j \in 1 .. k : j \in 1 .. k - 1 \/ j = k
      BY <2>1
    <3>2. \A j \in 1 .. k - 1 : j \in 1 .. k
      BY <2>1
    <3>3. k \in 1 .. k
      BY <2>1
    <3> QED
      BY <3>1, <3>2, <3>3
  <2>4. NoDup(q) => q[k] \notin Upto(k - 1)
    <3>1. \A j \in 1 .. k - 1 : j \in 1 .. l /\ j # k
      BY <1>1, <2>1
    <3> QED
      BY <1>1, <3>1 DEF NoDup
  <2> HIDE DEF x, y, Upto
  <2>5. CASE q[k] \in S
    <3>1. y = Append(x, q[k])
      BY <2>1, <2>5 DEF round
    <3>2. /\ y \in Seq(E) /\ Len(y) = Len(x) + 1
          /\ \A z : z \in Elems(y) <=> z \in Elems(x) \/ z = q[k]
          /\ NoDup(x) /\ q[k] \notin Elems(x) => NoDup(y)
      <4> DEFINE e == q[k]
      <4>1. e \in E /\ x \in Seq(E) /\ y = Append(x, e)
        BY <2>1, <2>2, <3>1
      <4> HIDE DEF e
      <4>2. y \in Seq(E)
        BY <4>1
      <4>3. Len(y) = Len(x) + 1
        BY <4>1
      <4>4. \A z : z \in Elems(y) <=> z \in Elems(x) \/ z = e
        BY <4>1, Appended, Zenon
      <4>5. NoDup(x) /\ e \notin Elems(x) => NoDup(y)
        BY <4>1, Appended, Zenon
      <4> QED
        BY <4>2, <4>3, <4>4, <4>5 DEF e
    <3>3. Elems(y) = Upto(k)
      <4>1. Upto(k - 1) \subseteq S
        BY DEF Upto
      <4> QED
        BY <2>2, <2>3, <2>5, <3>2, <4>1
    <3>4. Len(y) <= k
      BY <2>1, <2>2, <3>2
    <3> QED
      BY <2>1, <2>2, <2>4, <3>2, <3>3, <3>4 DEF y, D
  <2>6. CASE q[k] \notin S
    <3>1. y = x
      BY <2>1, <2>6 DEF round
    <3>2. Upto(k) = Upto(k - 1)
      <4>1. Upto(k - 1) \subseteq S
        BY DEF Upto
      <4> QED
        BY <2>3, <2>6, <4>1
    <3>3. Len(y) <= k
      BY <2>1, <2>2, <3>1
    <3> QED
      BY <2>1, <2>2, <3>1, <3>2, <3>3 DEF y, D
  <2> QED
    BY <2>5, <2>6
<1> HIDE DEF T, Good
<1>12. l \in T
  <2>1. \A k \in 0 .. l : k \in T
    BY <1>1, <1>10, <1>11, Throughout
  <2> QED
    BY <1>1, <2>1
<1>13. Upto(l) = Elems(q) \cap S
  BY <1>1 DEF Elems
<1> QED
  BY <1>2, <1>12, <1>13 DEF T, Good, D, l, r

\* The least of a set of positive numbers.
LEMMA LowestIs ==
  ASSUME NEW S \in SUBSET (Nat \ {0})
  PROVE  /\ S = {} => LowestOf(S) = Nil
         /\ S # {} => LowestOf(S) \in S /\ \A m \in S : LowestOf(S) <= m
<1>1. CASE S = {}
  BY <1>1 DEF LowestOf
<1>2. CASE S # {}
  <2>1. \E n \in S : \A m \in S : n <= m
    BY <1>2, Smallest
  <2> QED
    BY <1>2, <2>1 DEF LowestOf
<1> QED
  BY <1>1, <1>2

\* The first element of a list in a set.
LEMMA FirstInIs ==
  ASSUME NEW E \in SUBSET (Nat \ {0}), NEW q \in Seq(E), NEW S
  PROVE  /\ FirstIn(q, S) = Nil => \A x \in Elems(q) : x \notin S
         /\ FirstIn(q, S) # Nil => FirstIn(q, S) \in Elems(q) /\ FirstIn(q, S) \in S
<1> DEFINE K == {k \in DOMAIN q : q[k] \in S}
           n == LowestOf(K)
<1>1. Len(q) \in Nat /\ DOMAIN q = 1 .. Len(q) /\ \A k \in DOMAIN q : q[k] \in E
  OBVIOUS
<1>2. K \in SUBSET (Nat \ {0})
  BY <1>1
<1>3. FirstIn(q, S) = IF n = Nil THEN Nil ELSE q[n]
  BY Zenon DEF FirstIn
<1> HIDE DEF n
<1>4. (K = {} => n = Nil) /\ (K # {} => n \in K)
  <2> HIDE DEF K
  <2> QED
    BY <1>2, LowestIs DEF n
<1>5. n \in K => n # Nil
  BY <1>2 DEF Nil
<1>6. \A x \in Elems(q) : x \in S => K # {}
  BY DEF Elems
<1>7. n # Nil => q[n] \in Elems(q) /\ q[n] \in S /\ q[n] # Nil
  <2> SUFFICES ASSUME n # Nil PROVE q[n] \in Elems(q) /\ q[n] \in S /\ q[n] # Nil
    OBVIOUS
  <2>1. n \in DOMAIN q /\ q[n] \in S
    BY <1>4
  <2> QED
    BY <1>1, <2>1 DEF Elems, Nil
<1> HIDE DEF K
<1> QED
  BY <1>3, <1>4, <1>5, <1>6, <1>7

-----------------------------------------------------------------------------
(***************************************************************************)
(* States, and what is sound.                                              *)
(***************************************************************************)
Mids == 0 .. MidWidth - 1
CompType == [created_by : {"cbNONE", "cbAPP", "cbDISC", "cbJOIN"}, tx_channel : Channels \cup {Nil}]
ChanType == [number : ChannelNumbers \cup {0}, available_mid : Mids, members : Seq(Members)]
MemType == [component : Cids \cup {"none"}, mid : Mids]

StateType ==
  [started : BOOLEAN, died : {"no", "short", "added twice"}, shared : BOOLEAN,
   allcomps : Seq(Cids), comp : [Cids -> CompType], chan : [Channels -> ChanType],
   mem : [Members -> MemType]]

Known(s) == Elems(s.allcomps)
In(s, i) == Elems(s.chan[i].members)
Tx(s, c) == s.comp[c].tx_channel
Of(s, m) == s.mem[m].component

\* Who is known is listed, once, and no two have one channel.
CompsSound(s) ==
  /\ NoDup(s.allcomps)
  /\ \A c \in Cids : c \in Known(s) <=> s.comp[c].created_by # "cbNONE"
  /\ \A c \in Cids : Tx(s, c) # Nil => c \in Known(s)
  /\ \A c, d \in Cids : Tx(s, c) = Tx(s, d) /\ Tx(s, c) # Nil => c = d

\* Members in use stand in one list, once, each for another component.
MembersSound(s) ==
  /\ \A i \in Channels : NoDup(s.chan[i].members)
  /\ \A i, j \in Channels : \A m \in In(s, i) : m \in In(s, j) => i = j
  /\ \A m \in Members : Of(s, m) # "none" <=> \E i \in Channels : m \in In(s, i)
  /\ \A i \in Channels : \A m, n \in In(s, i) : m # n =>
       Of(s, m) # Of(s, n) /\ (s.mem[m].mid # 0 => s.mem[m].mid # s.mem[n].mid)

\* The members of our channel are peers, we are the member of theirs.
OwnersSound(s) ==
  /\ \A i \in Channels : (\A c \in Cids : Tx(s, c) # i) =>
       s.chan[i].number = 0 /\ s.chan[i].members = <<>>
  /\ \A i \in Channels : \A m \in In(s, i) :
       Of(s, m) \in Known(s) /\ (Of(s, m) \in Peers <=> i = Tx(s, LOCAL_COMP))

Sound(s) == CompsSound(s) /\ MembersSound(s) /\ OwnersSound(s)

\* Until a record in use is handed out.
OK(s) == s \in StateType /\ (~s.shared => Sound(s))

\* What no step of an operation touches.
Frame(s, t) ==
  t.started = s.started /\ t.died = s.died /\ (s.shared => t.shared) /\ t.shared \in BOOLEAN

\* What the constants are.
LEMMA RecordConstants ==
  /\ SDT_MAX_CHANNELS \in Nat \ {0} /\ SDT_MAX_MEMBERS \in Nat \ {0}
  /\ CONFIG_MAX_COMPONENTS \in Nat \ {0}
  /\ ChannelNumbers \subseteq Nat
  /\ MidLimit \in Nat \ {0} /\ MidWidth \in Nat /\ MidLimit < MidWidth
  /\ SDT_MAX_MEMBERS < MidWidth
  /\ "local" \notin Peers /\ "none" \notin Peers
  /\ 0 \in Mids /\ 1 \in Mids
  /\ Channels \in SUBSET (Nat \ {0}) /\ Members \in SUBSET (Nat \ {0})
  /\ Nil \notin Channels /\ Nil \notin Members
<1>1. /\ {SDT_MAX_CHANNELS, SDT_MAX_MEMBERS, CONFIG_MAX_COMPONENTS} \subseteq Nat \ {0}
      /\ ChannelNumbers \subseteq Nat
      /\ MidLimit \in Nat \ {0} /\ MidWidth \in Nat /\ MidLimit < MidWidth
      /\ SDT_MAX_MEMBERS < MidWidth
      /\ {"local", "none"} \cap Peers = {}
  BY RecordsAssumption
<1>2. 0 \in Mids /\ 1 \in Mids
  BY <1>1 DEF Mids
<1>3. Channels \in SUBSET (Nat \ {0}) /\ Members \in SUBSET (Nat \ {0})
  BY <1>1 DEF Channels, Members
<1>4. Nil \notin Channels /\ Nil \notin Members
  BY <1>3 DEF Nil
<1> QED
  BY <1>1, <1>2, <1>3, <1>4

\* The components.
LEMMA CidsAre ==
  /\ LOCAL_COMP \in Cids /\ LOCAL_COMP \notin Peers /\ "none" \notin Cids /\ Peers \subseteq Cids
  /\ \A c \in Cids : c \in Peers \/ c = LOCAL_COMP
BY RecordConstants DEF Cids, LOCAL_COMP

\* A state with one field replaced.
WithShared(s, v) == [s EXCEPT !.shared = v]
WithAll(s, v) == [s EXCEPT !.allcomps = v]
WithComp(s, v) == [s EXCEPT !.comp = v]
WithChan(s, v) == [s EXCEPT !.chan = v]
WithMem(s, v) == [s EXCEPT !.mem = v]

\* Only shared is replaced.
LEMMA WithSharedIs ==
  ASSUME NEW s \in StateType, NEW v \in BOOLEAN, NEW t, t = WithShared(s, v)
  PROVE  /\ t \in StateType /\ t.shared = v
         /\ t.started = s.started /\ t.died = s.died /\ t.allcomps = s.allcomps
         /\ t.comp = s.comp /\ t.chan = s.chan /\ t.mem = s.mem
BY DEF StateType, WithShared

\* Only allcomps is replaced.
LEMMA WithAllIs ==
  ASSUME NEW s \in StateType, NEW v \in Seq(Cids), NEW t, t = WithAll(s, v)
  PROVE  /\ t \in StateType /\ t.allcomps = v
         /\ t.started = s.started /\ t.died = s.died /\ t.shared = s.shared
         /\ t.comp = s.comp /\ t.chan = s.chan /\ t.mem = s.mem
BY DEF StateType, WithAll

\* Only comp is replaced.
LEMMA WithCompIs ==
  ASSUME NEW s \in StateType, NEW v \in [Cids -> CompType], NEW t, t = WithComp(s, v)
  PROVE  /\ t \in StateType /\ t.comp = v
         /\ t.started = s.started /\ t.died = s.died /\ t.shared = s.shared
         /\ t.allcomps = s.allcomps /\ t.chan = s.chan /\ t.mem = s.mem
BY DEF StateType, WithComp

\* Only chan is replaced.
LEMMA WithChanIs ==
  ASSUME NEW s \in StateType, NEW v \in [Channels -> ChanType], NEW t, t = WithChan(s, v)
  PROVE  /\ t \in StateType /\ t.chan = v
         /\ t.started = s.started /\ t.died = s.died /\ t.shared = s.shared
         /\ t.allcomps = s.allcomps /\ t.comp = s.comp /\ t.mem = s.mem
BY DEF StateType, WithChan

\* Only mem is replaced.
LEMMA WithMemIs ==
  ASSUME NEW s \in StateType, NEW v \in [Members -> MemType], NEW t, t = WithMem(s, v)
  PROVE  /\ t \in StateType /\ t.mem = v
         /\ t.started = s.started /\ t.died = s.died /\ t.shared = s.shared
         /\ t.allcomps = s.allcomps /\ t.comp = s.comp /\ t.chan = s.chan
BY DEF StateType, WithMem

-----------------------------------------------------------------------------
(***************************************************************************)
(* Members that go.                                                        *)
(***************************************************************************)
\* t is s with fewer members.
Less(s, t) ==
  /\ t.started = s.started /\ t.died = s.died /\ t.shared = s.shared
  /\ t.allcomps = s.allcomps /\ t.comp = s.comp
  /\ ~s.shared => \A i \in Channels : \A m \in In(t, i) : m \in In(s, i) /\ Of(t, m) = Of(s, m)

\* Fewer and fewer.
LEMMA LessAndLess ==
  ASSUME NEW s, NEW t, NEW u, Less(s, t), Less(t, u)
  PROVE  Less(s, u)
BY Zenon DEF Less

\* Of one thing there is nothing less to say.
LEMMA LessIsFrame ==
  ASSUME NEW s \in StateType, NEW t, Less(s, t)
  PROVE  Frame(s, t) /\ t.allcomps = s.allcomps /\ Known(t) = Known(s)
BY DEF Less, Frame, Known, StateType

\* What stands in the lists of a state are members.
LEMMA InMembers ==
  ASSUME NEW s \in StateType, NEW i \in Channels
  PROVE  /\ s.chan[i] \in ChanType /\ s.chan[i].members \in Seq(Members)
         /\ \A m \in In(s, i) : m \in Members
<1>1. s.chan[i] \in ChanType
  BY DEF StateType
<1>2. s.chan[i].members \in Seq(Members)
  BY <1>1 DEF ChanType
<1>3. \A q \in Seq(Members) : \A n \in DOMAIN q : q[n] \in Members
  OBVIOUS
<1> QED
  BY <1>1, <1>2, <1>3 DEF In, Elems

\* The fields of a state.
LEMMA Fields ==
  ASSUME NEW s \in StateType
  PROVE  /\ s.started \in BOOLEAN /\ s.died \in {"no", "short", "added twice"} /\ s.shared \in BOOLEAN
         /\ s.allcomps \in Seq(Cids) /\ s.comp \in [Cids -> CompType]
         /\ s.chan \in [Channels -> ChanType] /\ s.mem \in [Members -> MemType]
         /\ \A c \in Known(s) : c \in Cids
         /\ \A c \in Cids : s.comp[c] \in CompType /\ Tx(s, c) \in Channels \cup {Nil}
         /\ \A m \in Members : s.mem[m] \in MemType /\ Of(s, m) \in Cids \cup {"none"}
<1>1. /\ s.started \in BOOLEAN /\ s.died \in {"no", "short", "added twice"} /\ s.shared \in BOOLEAN
      /\ s.allcomps \in Seq(Cids) /\ s.comp \in [Cids -> CompType]
      /\ s.chan \in [Channels -> ChanType] /\ s.mem \in [Members -> MemType]
  BY DEF StateType
<1>2. \A q \in Seq(Cids) : \A n \in DOMAIN q : q[n] \in Cids
  OBVIOUS
<1>3. \A c \in Cids : s.comp[c] \in CompType
  BY <1>1
<1>4. \A c \in Cids : Tx(s, c) \in Channels \cup {Nil}
  BY <1>3 DEF CompType, Tx
<1>5. \A m \in Members : s.mem[m] \in MemType
  BY <1>1
<1>6. \A m \in Members : Of(s, m) \in Cids \cup {"none"}
  BY <1>5 DEF MemType, Of
<1> QED
  BY <1>1, <1>2, <1>3, <1>4, <1>5, <1>6 DEF Known, Elems

\* Members go from the list of one channel, and their records are free.
LEMMA Removal ==
  ASSUME NEW s, OK(s), NEW i \in Channels, NEW R, NEW t \in StateType,
         t.started = s.started, t.died = s.died, t.shared = s.shared,
         t.allcomps = s.allcomps, t.comp = s.comp,
         \A j \in Channels : j # i => t.chan[j] = s.chan[j],
         t.chan[i].number = s.chan[i].number,
         NoDup(s.chan[i].members) => NoDup(t.chan[i].members),
         \A m : m \in In(t, i) <=> m \in In(s, i) /\ m \notin R,
         \A m \in Members : t.mem[m] = IF m \in R /\ m \in In(s, i) THEN FreeMember ELSE s.mem[m]
  PROVE  OK(t) /\ Less(s, t)
<1>1. CASE s.shared
  BY <1>1 DEF OK, Less
<1>2. CASE ~s.shared
  <2>1. s \in StateType /\ CompsSound(s) /\ MembersSound(s) /\ OwnersSound(s)
    BY <1>2 DEF OK, Sound
  <2>2. \A j \in Channels : j # i => In(t, j) = In(s, j)
    BY DEF In
  <2>3. \A j \in Channels : \A m \in In(t, j) :
          m \in Members /\ m \in In(s, j) /\ t.mem[m] = s.mem[m]
    <3> SUFFICES ASSUME NEW j \in Channels, NEW m \in In(t, j)
                 PROVE  m \in Members /\ m \in In(s, j) /\ t.mem[m] = s.mem[m]
      OBVIOUS
    <3>1. m \in Members
      BY InMembers
    <3>2. CASE j = i
      BY <3>1, <3>2
    <3>3. CASE j # i
      <4>1. m \in In(s, j)
        BY <2>2, <3>3
      <4>2. m \notin In(s, i)
        BY <2>1, <3>3, <4>1 DEF MembersSound
      <4> QED
        BY <3>1, <4>1, <4>2
    <3> QED
      BY <3>2, <3>3
  <2>4. Less(s, t)
    BY <2>3 DEF Less, Of
  <2>5. Known(t) = Known(s) /\ \A c \in Cids : Tx(t, c) = Tx(s, c)
    BY DEF Known, Tx
  <2>6. CompsSound(t)
    BY <2>1, <2>5 DEF CompsSound
  <2>7. MembersSound(t)
    <3>1. \A j \in Channels : NoDup(t.chan[j].members)
      BY <2>1 DEF MembersSound
    <3>2. \A j, k \in Channels : \A m \in In(t, j) : m \in In(t, k) => j = k
      BY <2>1, <2>3 DEF MembersSound
    <3>3. ASSUME NEW m \in Members PROVE Of(t, m) # "none" <=> \E j \in Channels : m \in In(t, j)
      <4>1. CASE m \in R /\ m \in In(s, i)
        <5>1. Of(t, m) = "none"
          BY <4>1 DEF Of, FreeMember
        <5>2. \A j \in Channels : m \notin In(t, j)
          BY <2>1, <2>3, <4>1 DEF MembersSound
        <5> QED
          BY <5>1, <5>2
      <4>2. CASE ~(m \in R /\ m \in In(s, i))
        <5>1. Of(t, m) = Of(s, m)
          BY <4>2 DEF Of
        <5>2. \A j \in Channels : m \in In(t, j) <=> m \in In(s, j)
          BY <2>2, <4>2
        <5> QED
          BY <2>1, <5>1, <5>2 DEF MembersSound
      <4> QED
        BY <4>1, <4>2
    <3>4. \A j \in Channels : \A m, n \in In(t, j) : m # n =>
            Of(t, m) # Of(t, n) /\ (t.mem[m].mid # 0 => t.mem[m].mid # t.mem[n].mid)
      BY <2>1, <2>3 DEF MembersSound, Of
    <3> QED
      BY <3>1, <3>2, <3>3, <3>4 DEF MembersSound
  <2>8. OwnersSound(t)
    <3>1. ASSUME NEW j \in Channels, \A c \in Cids : Tx(t, c) # j
          PROVE  t.chan[j].number = 0 /\ t.chan[j].members = <<>>
      <4>1. s.chan[j].number = 0 /\ s.chan[j].members = <<>>
        BY <2>1, <2>5, <3>1 DEF OwnersSound
      <4>2. CASE j # i
        BY <4>1, <4>2
      <4>3. CASE j = i
        <5>1. In(t, i) = {}
          <6>1. In(s, i) = {}
            BY <4>1, <4>3 DEF In, Elems
          <6> QED
            BY <6>1
        <5>2. t.chan[i].members \in Seq(Members) /\ Elems(t.chan[i].members) = {}
          BY <5>1, InMembers DEF In
        <5> QED
          BY <4>1, <4>3, <5>2, NoElems
      <4> QED
        BY <4>2, <4>3
    <3>2. ASSUME NEW j \in Channels, NEW m \in In(t, j)
          PROVE  Of(t, m) \in Known(t) /\ (Of(t, m) \in Peers <=> j = Tx(t, LOCAL_COMP))
      <4>1. m \in In(s, j) /\ Of(t, m) = Of(s, m)
        BY <2>3 DEF Of
      <4>2. Tx(t, LOCAL_COMP) = Tx(s, LOCAL_COMP)
        BY <2>5, CidsAre
      <4> QED
        BY <2>1, <2>5, <4>1, <4>2 DEF OwnersSound
    <3> QED
      BY <3>1, <3>2 DEF OwnersSound
  <2> QED
    BY <2>4, <2>6, <2>7, <2>8 DEF OK, Sound
<1> QED
  BY <1>1, <1>2

\* What is free fits.
LEMMA FreeTypes ==
  /\ FreeMember \in MemType /\ FreeChannel \in ChanType /\ Unknown \in CompType
  /\ FreeMember.component = "none" /\ FreeMember.mid = 0
  /\ FreeChannel.number = 0 /\ FreeChannel.members = <<>>
  /\ Unknown.tx_channel = Nil /\ Unknown.created_by = "cbNONE"
<1>1. <<>> \in Seq(Members) /\ 0 \in Mids
  BY RecordConstants
<1> QED
  BY <1>1, Zenon DEF FreeMember, FreeChannel, Unknown, MemType, ChanType, CompType, Nil

\* A member goes from a list; one that is not in it changes nothing.
LEMMA DelMemberIs ==
  ASSUME NEW s, OK(s), NEW i \in Channels, NEW m
  PROVE  LET t == sdt_del_member(s, i, m)
         IN  OK(t) /\ Less(s, t) /\ m \notin In(t, i)
<1> DEFINE t == sdt_del_member(s, i, m)
           q == s.chan[i].members
           k == Keep(q, Members \ {m})
           ch == [s.chan EXCEPT ![i] = [@ EXCEPT !.members = k]]
           me == [s.mem EXCEPT ![m] = FreeMember]
           u == WithChan(s, ch)
           v == WithMem(u, me)
<1>1. s \in StateType /\ s.chan[i] \in ChanType /\ q \in Seq(Members) /\ \A x \in In(s, i) : x \in Members
  BY InMembers DEF OK
<1>2. CASE m \notin In(s, i)
  <2>1. t = s
    BY <1>2 DEF sdt_del_member, In, Elems
  <2>2. Less(s, s)
    BY DEF Less
  <2> QED
    BY <1>2, <2>1, <2>2
<1>3. CASE m \in In(s, i)
  <2>1. m \in Members
    BY <1>1, <1>3
  <2>2. t = v
    <3>1. ~\A n \in DOMAIN s.chan[i].members : s.chan[i].members[n] # m
      BY <1>3 DEF In, Elems
    <3>2. t = [s EXCEPT !.chan[i].members = Keep(@, Members \ {m}), !.mem[m] = FreeMember]
      BY <3>1, Zenon DEF sdt_del_member
    <3> QED
      BY <1>1, <3>2 DEF WithChan, WithMem, StateType
  <2> HIDE DEF t
  <2>3. /\ k \in Seq(Members)
        /\ \A x : x \in Elems(k) <=> x \in Elems(q) /\ x \in Members \ {m}
        /\ NoDup(q) => NoDup(k)
    <3> HIDE DEF q, k
    <3>1. k = Keep(q, Members \ {m})
      BY DEF k
    <3> QED
      BY <1>1, <3>1, KeepIs
  <2> HIDE DEF k
  <2>4. ch \in [Channels -> ChanType] /\ me \in [Members -> MemType]
    <3>1. [s.chan[i] EXCEPT !.members = k] \in ChanType
      BY <1>1, <2>3 DEF ChanType
    <3>2. s.chan \in [Channels -> ChanType] /\ s.mem \in [Members -> MemType]
      BY <1>1, Fields
    <3> QED
      BY <2>1, <3>1, <3>2, FreeTypes
  <2>5. /\ ch[i].members = k /\ ch[i].number = s.chan[i].number
        /\ \A j \in Channels : j # i => ch[j] = s.chan[j]
        /\ \A x \in Members : me[x] = IF x = m THEN FreeMember ELSE s.mem[x]
    <3>1. s.chan \in [Channels -> ChanType] /\ s.mem \in [Members -> MemType]
      BY <1>1, Fields
    <3>2. ch[i] = [s.chan[i] EXCEPT !.members = k]
      BY <3>1
    <3>3. ch[i].members = k /\ ch[i].number = s.chan[i].number
      BY <1>1, <3>2 DEF ChanType
    <3> QED
      BY <2>1, <3>1, <3>3
  <2> HIDE DEF ch, me
  <2>6. /\ u \in StateType /\ u.chan = ch
        /\ u.started = s.started /\ u.died = s.died /\ u.shared = s.shared
        /\ u.allcomps = s.allcomps /\ u.comp = s.comp /\ u.mem = s.mem
    BY <1>1, <2>4, WithChanIs
  <2> HIDE DEF u
  <2>7. /\ v \in StateType /\ v.mem = me
        /\ v.started = u.started /\ v.died = u.died /\ v.shared = u.shared
        /\ v.allcomps = u.allcomps /\ v.comp = u.comp /\ v.chan = u.chan
    BY <2>4, <2>6, WithMemIs
  <2> HIDE DEF v
  <2>8. \A x : x \in In(v, i) <=> x \in In(s, i) /\ x \notin {m}
    BY <1>1, <2>3, <2>5, <2>6, <2>7 DEF In
  <2>9. \A x \in Members : v.mem[x] = IF x \in {m} /\ x \in In(s, i) THEN FreeMember ELSE s.mem[x]
    BY <1>3, <2>5, <2>7
  <2>10. NoDup(s.chan[i].members) => NoDup(v.chan[i].members)
    BY <2>3, <2>5, <2>6, <2>7
  <2>11. OK(v) /\ Less(s, v)
    <3>1. /\ v.started = s.started /\ v.died = s.died /\ v.shared = s.shared
          /\ v.allcomps = s.allcomps /\ v.comp = s.comp
          /\ \A j \in Channels : j # i => v.chan[j] = s.chan[j]
          /\ v.chan[i].number = s.chan[i].number
      BY <2>5, <2>6, <2>7
    <3> QED
      BY <2>7, <2>8, <2>9, <2>10, <3>1, Removal
  <2> QED
    BY <2>2, <2>8, <2>11 DEF t
<1> QED
  BY <1>2, <1>3

\* Members of a set go from a list.
LEMMA DelMembersIs ==
  ASSUME NEW s, OK(s), NEW i \in Channels, NEW S
  PROVE  LET t == DelMembers(s, i, S)
         IN  /\ OK(t) /\ Less(s, t)
             /\ \A x : x \in In(t, i) <=> x \in In(s, i) /\ x \notin S
<1> DEFINE t == DelMembers(s, i, S)
           q == s.chan[i].members
           k == Keep(q, Members \ S)
           its == {q[n] : n \in DOMAIN q} \cap S
           ch == [s.chan EXCEPT ![i] = [@ EXCEPT !.members = k]]
           me == [m \in Members |-> IF m \in its THEN FreeMember ELSE s.mem[m]]
           u == WithChan(s, ch)
           v == WithMem(u, me)
<1>1. s \in StateType /\ s.chan[i] \in ChanType /\ q \in Seq(Members) /\ \A x \in In(s, i) : x \in Members
  BY InMembers DEF OK
<1>2. t = v
  BY <1>1 DEF DelMembers, WithChan, WithMem, StateType
<1> HIDE DEF t
<1>3. /\ k \in Seq(Members)
      /\ \A x : x \in Elems(k) <=> x \in Elems(q) /\ x \in Members \ S
      /\ NoDup(q) => NoDup(k)
  <2> DEFINE M == Members \ S
  <2> HIDE DEF q, k, M
  <2>1. k = Keep(q, M)
    BY DEF k, M
  <2>2. /\ k \in Seq(Members)
        /\ \A x : x \in Elems(k) <=> x \in Elems(q) /\ x \in M
        /\ NoDup(q) => NoDup(k)
    BY <1>1, <2>1, KeepIs
  <2> QED
    BY <2>2 DEF M
<1> HIDE DEF k
<1>4. s.chan \in [Channels -> ChanType] /\ s.mem \in [Members -> MemType]
  BY <1>1, Fields
<1>5. ch \in [Channels -> ChanType] /\ me \in [Members -> MemType]
  <2>1. [s.chan[i] EXCEPT !.members = k] \in ChanType
    BY <1>1, <1>3 DEF ChanType
  <2> HIDE DEF its
  <2> QED
    BY <2>1, <1>4, FreeTypes
<1>6. /\ ch[i].members = k /\ ch[i].number = s.chan[i].number
      /\ \A j \in Channels : j # i => ch[j] = s.chan[j]
      /\ \A x \in Members : me[x] = IF x \in S /\ x \in In(s, i) THEN FreeMember ELSE s.mem[x]
  <2>1. ch[i] = [s.chan[i] EXCEPT !.members = k]
    BY <1>4
  <2>2. ch[i].members = k /\ ch[i].number = s.chan[i].number
    BY <1>1, <2>1 DEF ChanType
  <2>3. \A x : x \in its <=> x \in S /\ x \in In(s, i)
    BY DEF In, Elems
  <2> HIDE DEF its
  <2> QED
    BY <1>4, <2>2, <2>3
<1> HIDE DEF ch, me
<1>7. /\ u \in StateType /\ u.chan = ch
      /\ u.started = s.started /\ u.died = s.died /\ u.shared = s.shared
      /\ u.allcomps = s.allcomps /\ u.comp = s.comp /\ u.mem = s.mem
  BY <1>1, <1>5, WithChanIs
<1> HIDE DEF u
<1>8. /\ v \in StateType /\ v.mem = me
      /\ v.started = u.started /\ v.died = u.died /\ v.shared = u.shared
      /\ v.allcomps = u.allcomps /\ v.comp = u.comp /\ v.chan = u.chan
  BY <1>5, <1>7, WithMemIs
<1> HIDE DEF v
<1>9. \A x : x \in In(v, i) <=> x \in In(s, i) /\ x \notin S
  BY <1>1, <1>3, <1>6, <1>7, <1>8 DEF In
<1>10. \A x \in Members : v.mem[x] = IF x \in S /\ x \in In(s, i) THEN FreeMember ELSE s.mem[x]
  BY <1>6, <1>8
<1>11. NoDup(s.chan[i].members) => NoDup(v.chan[i].members)
  BY <1>3, <1>6, <1>7, <1>8
<1>12. OK(v) /\ Less(s, v)
  <2>1. /\ v.started = s.started /\ v.died = s.died /\ v.shared = s.shared
        /\ v.allcomps = s.allcomps /\ v.comp = s.comp
        /\ \A j \in Channels : j # i => v.chan[j] = s.chan[j]
        /\ v.chan[i].number = s.chan[i].number
    BY <1>6, <1>7, <1>8
  <2> QED
    BY <1>8, <1>9, <1>10, <1>11, <2>1, Removal
<1> QED
  BY <1>2, <1>9, <1>12 DEF t

\* A component's channel goes with its members.
LEMMA DelChannelIs ==
  ASSUME NEW s, OK(s), NEW c \in Cids
  PROVE  LET t == sdt_del_channel(s, c)
         IN  /\ OK(t) /\ t.started = s.started /\ t.died = s.died /\ t.shared = s.shared
             /\ t.allcomps = s.allcomps
             /\ Tx(t, c) = Nil /\ \A d \in Cids : d # c => t.comp[d] = s.comp[d]
             /\ t.comp[c].created_by = s.comp[c].created_by
             /\ ~s.shared => \A i \in Channels : \A m \in In(t, i) : m \in In(s, i) /\ Of(t, m) = Of(s, m)
<1> DEFINE t == sdt_del_channel(s, c)
           i == Tx(s, c)
           a == DelMembers(s, i, Members)
           co == [a.comp EXCEPT ![c] = [@ EXCEPT !.tx_channel = Nil]]
           ch == [a.chan EXCEPT ![i] = FreeChannel]
           u == WithComp(a, co)
           v == WithChan(u, ch)
<1>1. s \in StateType /\ i \in Channels \cup {Nil}
  BY Fields DEF OK
<1>2. CASE i = Nil
  <2>1. t = s
    BY <1>2 DEF sdt_del_channel, Tx
  <2> HIDE DEF t
  <2>2. OK(t) /\ Tx(t, c) = Nil
    BY <1>2, <2>1
  <2> QED
    BY <2>1, <2>2 DEF t
<1>3. CASE i # Nil
  <2>1. i \in Channels
    BY <1>1, <1>3
  <2>2. t = [a EXCEPT !.comp[c].tx_channel = Nil, !.chan[i] = FreeChannel]
    BY <1>3 DEF sdt_del_channel, Tx
  <2> HIDE DEF t, i
  <2>3. OK(a) /\ Less(s, a) /\ \A x : x \in In(a, i) <=> x \in In(s, i) /\ x \notin Members
    BY <2>1, DelMembersIs
  <2> HIDE DEF a
  <2>4. a \in StateType /\ a.comp \in [Cids -> CompType] /\ a.chan \in [Channels -> ChanType]
        /\ a.comp[c] \in CompType
    BY <2>3, Fields DEF OK
  <2>5. t = v
    BY <2>2, <2>4 DEF WithComp, WithChan, StateType
  <2>6. co \in [Cids -> CompType] /\ ch \in [Channels -> ChanType]
    <3>1. [a.comp[c] EXCEPT !.tx_channel = Nil] \in CompType
      BY <2>4 DEF CompType
    <3> QED
      BY <2>1, <2>4, <3>1, FreeTypes
  <2>7. /\ co[c].tx_channel = Nil /\ co[c].created_by = a.comp[c].created_by
        /\ \A d \in Cids : d # c => co[d] = a.comp[d]
        /\ ch[i] = FreeChannel /\ \A j \in Channels : j # i => ch[j] = a.chan[j]
    <3>1. co[c] = [a.comp[c] EXCEPT !.tx_channel = Nil]
      BY <2>4
    <3>2. co[c].tx_channel = Nil /\ co[c].created_by = a.comp[c].created_by
      BY <2>4, <3>1 DEF CompType
    <3> QED
      BY <2>1, <2>4, <3>2
  <2> HIDE DEF co, ch
  <2>8. /\ u \in StateType /\ u.comp = co
        /\ u.started = a.started /\ u.died = a.died /\ u.shared = a.shared
        /\ u.allcomps = a.allcomps /\ u.chan = a.chan /\ u.mem = a.mem
    BY <2>4, <2>6, WithCompIs
  <2> HIDE DEF u
  <2>9. /\ v \in StateType /\ v.chan = ch
        /\ v.started = a.started /\ v.died = a.died /\ v.shared = a.shared
        /\ v.allcomps = a.allcomps /\ v.comp = co /\ v.mem = a.mem
    BY <2>6, <2>8, WithChanIs
  <2> HIDE DEF v
  <2>10. /\ \A j \in Channels : j # i => v.chan[j] = a.chan[j]
         /\ v.chan[i].number = 0 /\ v.chan[i].members = <<>> /\ In(v, i) = {}
         /\ \A j \in Channels : \A x \in In(v, j) : j # i /\ x \in In(a, j)
    <3>1. \A j \in Channels : j # i => v.chan[j] = a.chan[j]
      BY <2>7, <2>9
    <3>2. v.chan[i].number = 0 /\ v.chan[i].members = <<>>
      BY <2>1, <2>7, <2>9, FreeTypes
    <3>3. In(v, i) = {}
      BY <3>2 DEF In, Elems
    <3>4. \A j \in Channels : j # i => In(v, j) = In(a, j)
      BY <3>1 DEF In
    <3> QED
      BY <3>1, <3>2, <3>3, <3>4
  <2>11. In(a, i) = {}
    BY <1>1, <2>1, <2>3, InMembers
  <2>12. /\ v.started = s.started /\ v.died = s.died /\ v.shared = s.shared
         /\ v.allcomps = s.allcomps
         /\ Tx(v, c) = Nil /\ \A d \in Cids : d # c => v.comp[d] = s.comp[d]
         /\ v.comp[c].created_by = s.comp[c].created_by
         /\ a.comp = s.comp /\ Known(v) = Known(a)
    BY <2>3, <2>7, <2>9 DEF Less, Tx, Known
  <2>13. \A m : Of(v, m) = Of(a, m)
    BY <2>9 DEF Of
  <2>14. ASSUME ~s.shared PROVE \A j \in Channels : \A m \in In(v, j) : m \in In(s, j) /\ Of(v, m) = Of(s, m)
    BY <2>3, <2>10, <2>13, <2>14 DEF Less
  <2>15. ASSUME ~s.shared PROVE Sound(v)
    <3>1. CompsSound(a) /\ MembersSound(a) /\ OwnersSound(a)
      BY <2>3, <2>15 DEF OK, Sound, Less
    <3>2. /\ \A d \in Cids : d # c => Tx(v, d) = Tx(a, d)
          /\ Tx(a, c) = i /\ i # Nil
          /\ \A d \in Cids : v.comp[d].created_by = a.comp[d].created_by
      BY <1>3, <2>12 DEF Tx, i
    <3>3. CompsSound(v)
      <4>1. v.allcomps = a.allcomps
        BY <2>9
      <4> QED
        BY <2>12, <3>1, <3>2, <4>1 DEF CompsSound
    <3>4. MembersSound(v)
      <4>1. \A j \in Channels : NoDup(v.chan[j].members)
        BY <2>10, <3>1 DEF MembersSound, NoDup
      <4>2. \A j, k \in Channels : \A m \in In(v, j) : m \in In(v, k) => j = k
        BY <2>10, <3>1 DEF MembersSound
      <4>3. \A m \in Members : Of(v, m) # "none" <=> \E j \in Channels : m \in In(v, j)
        <5>1. \A j \in Channels : \A m : m \in In(v, j) <=> m \in In(a, j)
          BY <2>10, <2>11 DEF In
        <5> QED
          BY <2>13, <3>1, <5>1 DEF MembersSound
      <4>4. \A j \in Channels : \A m, n \in In(v, j) : m # n =>
              Of(v, m) # Of(v, n) /\ (v.mem[m].mid # 0 => v.mem[m].mid # v.mem[n].mid)
        BY <2>9, <2>10, <2>13, <3>1 DEF MembersSound
      <4> QED
        BY <4>1, <4>2, <4>3, <4>4 DEF MembersSound
    <3>5. OwnersSound(v)
      <4>1. ASSUME NEW j \in Channels, \A d \in Cids : Tx(v, d) # j
            PROVE  v.chan[j].number = 0 /\ v.chan[j].members = <<>>
        <5>1. CASE j = i
          BY <2>10, <5>1
        <5>2. CASE j # i
          <6>1. \A d \in Cids : Tx(a, d) # j
            BY <3>2, <4>1, <5>2
          <6> QED
            BY <2>10, <3>1, <5>2, <6>1 DEF OwnersSound
        <5> QED
          BY <5>1, <5>2
      <4>2. ASSUME NEW j \in Channels, NEW m \in In(v, j)
            PROVE  Of(v, m) \in Known(v) /\ (Of(v, m) \in Peers <=> j = Tx(v, LOCAL_COMP))
        <5>1. j # i /\ m \in In(a, j) /\ Of(v, m) = Of(a, m)
          BY <2>10, <2>13
        <5>2. j = Tx(v, LOCAL_COMP) <=> j = Tx(a, LOCAL_COMP)
          <6>1. CASE c = LOCAL_COMP
            <7>1. j # Nil
              BY RecordConstants
            <7> QED
              BY <2>12, <3>2, <5>1, <6>1, <7>1
          <6>2. CASE c # LOCAL_COMP
            BY <3>2, <6>2, CidsAre
          <6> QED
            BY <6>1, <6>2
        <5> QED
          BY <2>12, <3>1, <5>1, <5>2 DEF OwnersSound
      <4> QED
        BY <4>1, <4>2 DEF OwnersSound
    <3> QED
      BY <3>3, <3>4, <3>5 DEF Sound
  <2>16. OK(v)
    BY <2>9, <2>12, <2>15 DEF OK
  <2> QED
    BY <2>5, <2>12, <2>14, <2>16 DEF t
<1> QED
  BY <1>2, <1>3

\* The member of a list that is a component's.
LEMMA FoundByComponent ==
  ASSUME NEW s \in StateType, NEW i \in Channels, NEW c
  PROVE  LET m == sdt_find_member_by_component(s, i, c)
         IN  /\ m = Nil => \A n \in In(s, i) : Of(s, n) # c
             /\ m # Nil => m \in In(s, i) /\ m \in Members /\ Of(s, m) = c
<1> DEFINE q == s.chan[i].members
           S == {m \in Members : s.mem[m].component = c}
           m == FirstIn(q, S)
<1>1. sdt_find_member_by_component(s, i, c) = m
  BY DEF sdt_find_member_by_component
<1>2. q \in Seq(Members) /\ Members \in SUBSET (Nat \ {0}) /\ \A n \in In(s, i) : n \in Members
  BY InMembers, RecordConstants
<1>3. In(s, i) = Elems(q)
  BY DEF In
<1> HIDE DEF q, m
<1>4. /\ m = Nil => \A x \in Elems(q) : x \notin S
      /\ m # Nil => m \in Elems(q) /\ m \in S
  <2> HIDE DEF S
  <2> QED
    BY <1>2, FirstInIs DEF m
<1>5. m = Nil => \A n \in In(s, i) : Of(s, n) # c
  BY <1>2, <1>3, <1>4 DEF Of
<1>6. m # Nil => m \in In(s, i) /\ m \in Members /\ Of(s, m) = c
  BY <1>3, <1>4 DEF Of
<1> QED
  BY <1>1, <1>5, <1>6

\* A component leaves the channel of another.
Leave(x, c, d) ==
  IF x.comp[d].tx_channel = Nil THEN x
  ELSE sdt_del_member(x, x.comp[d].tx_channel,
                      sdt_find_member_by_component(x, x.comp[d].tx_channel, c))

\* It is no member of it then.
LEMMA LeaveIs ==
  ASSUME NEW x, OK(x), NEW c \in Cids, NEW d \in Cids
  PROVE  LET t == Leave(x, c, d)
         IN  /\ OK(t) /\ Less(x, t)
             /\ ~x.shared /\ Tx(x, d) # Nil => \A n \in In(t, Tx(x, d)) : Of(t, n) # c
<1> DEFINE t == Leave(x, c, d)
           i == Tx(x, d)
           m == sdt_find_member_by_component(x, i, c)
<1>1. x \in StateType /\ i \in Channels \cup {Nil}
  BY Fields DEF OK
<1>2. CASE i = Nil
  <2>1. t = x
    BY <1>2 DEF Leave, Tx
  <2>2. Less(x, x)
    BY DEF Less
  <2> HIDE DEF t
  <2> QED
    BY <1>2, <2>1, <2>2 DEF t
<1>3. CASE i # Nil
  <2>1. i \in Channels
    BY <1>1, <1>3
  <2>2. t = sdt_del_member(x, i, m)
    BY <1>3 DEF Leave, Tx
  <2>3. /\ m = Nil => \A n \in In(x, i) : Of(x, n) # c
        /\ m # Nil => m \in In(x, i) /\ Of(x, m) = c
    BY <1>1, <2>1, FoundByComponent
  <2> HIDE DEF t, i, m
  <2>4. OK(t) /\ Less(x, t) /\ m \notin In(t, i)
    BY <2>1, <2>2, DelMemberIs
  <2>5. ASSUME ~x.shared PROVE \A n \in In(t, i) : Of(t, n) # c
    <3> SUFFICES ASSUME NEW n \in In(t, i) PROVE Of(t, n) # c
      OBVIOUS
    <3>1. n \in In(x, i) /\ Of(t, n) = Of(x, n)
      BY <2>1, <2>4, <2>5 DEF Less
    <3>2. MembersSound(x)
      BY <2>5 DEF OK, Sound
    <3> QED
      BY <2>1, <2>3, <2>4, <3>1, <3>2 DEF MembersSound
  <2> QED
    BY <2>4, <2>5 DEF t, i
<1> QED
  BY <1>2, <1>3

\* A component is released; nothing may be left of it.
LEMMA ReleaseIs ==
  ASSUME NEW s \in StateType, NEW c \in Cids
  PROVE  LET t == comp_release(s, c)
         IN  /\ t \in StateType /\ t.started = s.started /\ t.died = s.died /\ t.shared = s.shared
             /\ Tx(t, c) = Nil /\ \A d \in Cids : d # c => t.comp[d] = s.comp[d]
             /\ \A d : d \in Known(t) <=> d \in Known(s) /\ d # c
             /\ OK(s) /\ (~s.shared => Tx(s, c) = Nil /\
                            \A i \in Channels : \A m \in In(s, i) : Of(s, m) # c) => OK(t)
<1> DEFINE t == comp_release(s, c)
           k == Keep(s.allcomps, Cids \ {c})
           co == [s.comp EXCEPT ![c] = Unknown]
           u == WithAll(s, k)
           v == WithComp(u, co)
<1>1. s.allcomps \in Seq(Cids) /\ s.comp \in [Cids -> CompType] /\ \A d \in Known(s) : d \in Cids
  BY Fields
<1>2. t = v
  BY DEF comp_release, WithAll, WithComp, StateType
<1> HIDE DEF t
<1>3. /\ k \in Seq(Cids)
      /\ \A x : x \in Elems(k) <=> x \in Elems(s.allcomps) /\ x \in Cids \ {c}
      /\ NoDup(s.allcomps) => NoDup(k)
  <2> DEFINE q == s.allcomps
             M == Cids \ {c}
  <2>1. k = Keep(q, M) /\ q \in Seq(Cids)
    BY <1>1 DEF k, M
  <2> HIDE DEF q, k, M
  <2>2. /\ k \in Seq(Cids)
        /\ \A x : x \in Elems(k) <=> x \in Elems(q) /\ x \in M
        /\ NoDup(q) => NoDup(k)
    BY <2>1, KeepIs
  <2> QED
    BY <2>2 DEF M, q
<1> HIDE DEF k
<1>4. co \in [Cids -> CompType] /\ co[c] = Unknown /\ \A d \in Cids : d # c => co[d] = s.comp[d]
  BY <1>1, FreeTypes
<1> HIDE DEF co
<1>5. /\ u \in StateType /\ u.allcomps = k
      /\ u.started = s.started /\ u.died = s.died /\ u.shared = s.shared
      /\ u.comp = s.comp /\ u.chan = s.chan /\ u.mem = s.mem
  BY <1>3, WithAllIs
<1> HIDE DEF u
<1>6. /\ v \in StateType /\ v.comp = co
      /\ v.started = s.started /\ v.died = s.died /\ v.shared = s.shared
      /\ v.allcomps = k /\ v.chan = s.chan /\ v.mem = s.mem
  BY <1>4, <1>5, WithCompIs
<1> HIDE DEF v
<1>7. /\ Tx(v, c) = Nil /\ v.comp[c].created_by = "cbNONE"
      /\ \A d \in Cids : d # c => v.comp[d] = s.comp[d]
      /\ \A d \in Cids : d # c => Tx(v, d) = Tx(s, d)
  BY <1>4, <1>6, FreeTypes DEF Tx
<1>8. \A d : d \in Known(v) <=> d \in Known(s) /\ d # c
  BY <1>1, <1>3, <1>6 DEF Known
<1>9. ASSUME OK(s), ~s.shared => Tx(s, c) = Nil /\
                        \A i \in Channels : \A m \in In(s, i) : Of(s, m) # c
      PROVE  OK(v)
  <2> SUFFICES ASSUME ~s.shared PROVE Sound(v)
    BY <1>6 DEF OK
  <2>1. CompsSound(s) /\ MembersSound(s) /\ OwnersSound(s)
    BY <1>9 DEF OK, Sound
  <2>2. /\ \A i \in Channels : In(v, i) = In(s, i)
        /\ \A m : Of(v, m) = Of(s, m)
    BY <1>6 DEF In, Of
  <2>3. \A d \in Cids : Tx(v, d) = Tx(s, d)
    BY <1>7, <1>9
  <2>4. CompsSound(v)
    <3>1. NoDup(v.allcomps)
      BY <1>3, <1>6, <2>1 DEF CompsSound
    <3>2. \A d \in Cids : d \in Known(v) <=> v.comp[d].created_by # "cbNONE"
      BY <1>7, <1>8, <2>1 DEF CompsSound
    <3>3. \A d \in Cids : Tx(v, d) # Nil => d \in Known(v)
      BY <1>7, <1>8, <2>1 DEF CompsSound
    <3> QED
      BY <2>1, <2>3, <3>1, <3>2, <3>3 DEF CompsSound
  <2>5. MembersSound(v)
    BY <1>6, <2>1, <2>2 DEF MembersSound
  <2>6. OwnersSound(v)
    <3>1. \A i \in Channels : (\A d \in Cids : Tx(v, d) # i) =>
            v.chan[i].number = 0 /\ v.chan[i].members = <<>>
      BY <1>6, <2>1, <2>3 DEF OwnersSound
    <3>2. Tx(v, LOCAL_COMP) = Tx(s, LOCAL_COMP)
      BY <2>3, CidsAre
    <3>3. \A i \in Channels : \A m \in In(v, i) :
            Of(v, m) \in Known(v) /\ (Of(v, m) \in Peers <=> i = Tx(v, LOCAL_COMP))
      BY <1>8, <1>9, <2>1, <2>2, <3>2 DEF OwnersSound
    <3> QED
      BY <3>1, <3>3 DEF OwnersSound
  <2> QED
    BY <2>4, <2>5, <2>6 DEF Sound
<1> QED
  BY <1>2, <1>6, <1>7, <1>8, <1>9 DEF t

\* A component goes: it leaves the channels of all others, and its channel goes.
LEMMA DelComponentIs ==
  ASSUME NEW s, OK(s), NEW c \in Cids
  PROVE  LET t == sdt_del_component(s, c)
         IN  /\ OK(t) /\ t.started = s.started /\ t.died = s.died /\ t.shared = s.shared
             /\ \A d : d \in Known(t) <=> d \in Known(s) /\ d # c
<1> DEFINE t == sdt_del_component(s, c)
           list == s.allcomps
           l == Len(list)
           D == {x \in StateType : OK(x)}
           round(x, k) == Leave(x, c, list[k])
           step == [k \in 1 .. l |-> [x \in D |-> round(x, k)]]
           IsDone(f) == f = [k \in 0 .. l |-> IF k = 0 THEN s ELSE round(f[k - 1], k)]
           done == CHOOSE f : IsDone(f)
           z == done[l]
<1>1. s \in D /\ list \in Seq(Cids)
  BY Fields DEF OK
<1>2. l \in Nat /\ DOMAIN list = 1 .. l /\ \A k \in 1 .. l : list[k] \in Cids
  BY <1>1
<1>3. t = comp_release(sdt_del_channel(z, c), c)
  BY Zenon DEF sdt_del_component, InTurn, Leave
<1> HIDE DEF t, list
<1>4. \A k \in 1 .. l : \A x \in D : round(x, k) \in D /\ Less(x, round(x, k))
  BY <1>2, LeaveIs DEF OK
<1>5. step \in [1 .. l -> [D -> D]]
  BY <1>4
<1>6. \A k \in 1 .. l : \A x \in D : step[k][x] = round(x, k)
  OBVIOUS
<1> HIDE DEF l, D, round, step
<1>7. \A k \in 0 .. l : k # 0 => k \in 1 .. l /\ k - 1 \in 0 .. l
  BY <1>2
<1>8. \E f : IsDone(f)
  <2>1. PICK f \in [0 .. l -> D] : IsLoop(step, s, l, f)
    BY <1>1, <1>2, <1>5, LoopExists
  <2>2. \A k \in 0 .. l : k # 0 => step[k][f[k - 1]] = round(f[k - 1], k)
    BY <1>6, <1>7, <2>1
  <2>3. f = [k \in 0 .. l |-> IF k = 0 THEN s ELSE step[k][f[k - 1]]]
    BY <2>1, Zenon DEF IsLoop
  <2>4. IsDone(f)
    BY <2>2, <2>3
  <2> QED
    BY <2>4
<1>9. IsDone(done)
  BY <1>8, Zenon
<1> HIDE DEF done
<1>10. done[0] = s /\ \A k \in 1 .. l : done[k] = round(done[k - 1], k)
  <2>1. \A k \in 1 .. l : k \in 0 .. l /\ k # 0
    BY <1>2
  <2>2. 0 \in 0 .. l
    BY <1>2
  <2> QED
    BY <1>9, <2>1, <2>2
<1> HIDE DEF IsDone
<1> DEFINE Left(x, j) == Tx(s, list[j]) # Nil => \A n \in In(x, Tx(s, list[j])) : Of(x, n) # c
           Good(k) == done[k] \in D /\ Less(s, done[k]) /\ (~s.shared => \A j \in 1 .. k : Left(done[k], j))
           T == {k \in 0 .. l : Good(k)}
<1>11. 0 \in T
  <2>1. Less(s, s)
    BY DEF Less
  <2>2. 0 \in 0 .. l /\ \A j \in 1 .. 0 : FALSE
    BY <1>2
  <2> QED
    BY <1>1, <1>10, <2>1, <2>2
<1>12. ASSUME NEW k \in 1 .. l, k - 1 \in T PROVE k \in T
  <2> DEFINE x == done[k - 1]
             y == done[k]
  <2>1. y = round(x, k) /\ list[k] \in Cids /\ k \in 0 .. l /\ k \in Nat
    BY <1>2, <1>7, <1>10
  <2>2. x \in D /\ Less(s, x) /\ (~s.shared => \A j \in 1 .. k - 1 : Left(x, j))
    BY <1>12
  <2>3. y \in D /\ Less(x, y)
    BY <1>4, <2>1, <2>2
  <2>4. Less(s, y)
    BY <2>2, <2>3, LessAndLess
  <2>5. x.comp = s.comp /\ x.shared = s.shared
    BY <2>2 DEF Less
  <2>6. ASSUME ~s.shared PROVE Left(y, k)
    <3>1. OK(x) /\ y = Leave(x, c, list[k])
      BY <2>1, <2>2 DEF D, round
    <3>2. Tx(x, list[k]) = Tx(s, list[k])
      BY <2>5 DEF Tx
    <3> HIDE DEF x, y
    <3>3. Tx(x, list[k]) # Nil => \A n \in In(y, Tx(x, list[k])) : Of(y, n) # c
      BY <2>1, <2>5, <2>6, <3>1, LeaveIs
    <3> QED
      BY <3>2, <3>3
  <2>7. ASSUME ~s.shared, NEW j \in 1 .. k - 1 PROVE Left(y, j)
    <3>1. list[j] \in Cids
      BY <1>2, <2>1
    <3>2. Tx(s, list[j]) \in Channels \cup {Nil}
      BY <1>1, <3>1, Fields DEF D
    <3>3. Left(x, j)
      BY <2>2, <2>7
    <3> QED
      BY <2>3, <2>5, <2>7, <3>2, <3>3 DEF Less
  <2>8. \A j \in 1 .. k : j \in 1 .. k - 1 \/ j = k
    BY <2>1
  <2> HIDE DEF x, y, Left
  <2>9. ~s.shared => \A j \in 1 .. k : Left(y, j)
    BY <2>6, <2>7, <2>8
  <2> QED
    BY <2>1, <2>3, <2>4, <2>9 DEF y
<1> HIDE DEF T, Good, Left
<1>13. l \in T
  <2>1. \A k \in 0 .. l : k \in T
    BY <1>2, <1>11, <1>12, Throughout
  <2> QED
    BY <1>2, <2>1
<1>14. OK(z) /\ Less(s, z) /\ (~s.shared => \A j \in 1 .. l : Left(z, j))
  BY <1>13 DEF T, Good, D
<1> HIDE DEF z
<1> DEFINE v == sdt_del_channel(z, c)
<1>15. /\ OK(v) /\ v.started = z.started /\ v.died = z.died /\ v.shared = z.shared
       /\ v.allcomps = z.allcomps
       /\ Tx(v, c) = Nil
       /\ ~z.shared => \A i \in Channels : \A m \in In(v, i) : m \in In(z, i) /\ Of(v, m) = Of(z, m)
  BY <1>14, DelChannelIs
<1>16. v.started = s.started /\ v.died = s.died /\ v.shared = s.shared /\ Known(v) = Known(s)
  BY <1>14, <1>15 DEF Less, Known
<1> HIDE DEF v
<1>17. ASSUME ~s.shared PROVE \A i \in Channels : \A m \in In(z, i) : Of(z, m) # c
  <2> SUFFICES ASSUME NEW i \in Channels, NEW m \in In(z, i) PROVE Of(z, m) # c
    OBVIOUS
  <2>1. CompsSound(z) /\ OwnersSound(z) /\ z.comp = s.comp /\ z.allcomps = list
    BY <1>14, <1>17 DEF OK, Sound, Less, list
  <2>2. PICK d \in Cids : Tx(z, d) = i
    <3>1. \A n \in DOMAIN <<>> : FALSE
      OBVIOUS
    <3> QED
      BY <2>1, <3>1 DEF OwnersSound, In, Elems
  <2>3. i # Nil
    BY RecordConstants
  <2>4. d \in Known(z)
    BY <2>1, <2>2, <2>3 DEF CompsSound
  <2>5. PICK j \in 1 .. l : list[j] = d
    BY <1>2, <2>1, <2>4 DEF Known, Elems
  <2>6. Left(z, j)
    BY <1>14, <1>17
  <2>7. Tx(s, list[j]) = i
    BY <2>1, <2>2, <2>5 DEF Tx
  <2> QED
    BY <2>3, <2>6, <2>7 DEF Left
<1>18. ~v.shared => Tx(v, c) = Nil /\ \A i \in Channels : \A m \in In(v, i) : Of(v, m) # c
  BY <1>14, <1>15, <1>16, <1>17 DEF Less
<1>19. LET r == comp_release(v, c)
       IN  /\ OK(r) /\ r.started = v.started /\ r.died = v.died /\ r.shared = v.shared
           /\ \A d : d \in Known(r) <=> d \in Known(v) /\ d # c
  BY <1>15, <1>18, ReleaseIs DEF OK
<1>20. t = comp_release(v, c)
  BY <1>3 DEF v
<1> QED
  BY <1>16, <1>19, <1>20 DEF t

-----------------------------------------------------------------------------
(***************************************************************************)
(* Components, channels and members that come.                             *)
(***************************************************************************)
\* A channel record counts as free when its number is 0.
LEMMA NewChannelIs ==
  ASSUME NEW s \in StateType
  PROVE  LET i == sdtm_new_channel(s)
         IN  i \in Channels \cup {Nil} /\ (i # Nil => s.chan[i].number = 0)
<1> DEFINE S == {i \in Channels : s.chan[i].number = 0}
<1>1. S \in SUBSET (Nat \ {0}) /\ sdtm_new_channel(s) = LowestOf(S)
  BY RecordConstants DEF sdtm_new_channel
<1>2. (S = {} => LowestOf(S) = Nil) /\ (S # {} => LowestOf(S) \in S)
  <2> HIDE DEF S
  <2> QED
    BY <1>1, LowestIs
<1> QED
  BY <1>1, <1>2

\* A member record is free when it is no component's.
LEMMA NewMemberIs ==
  ASSUME NEW s \in StateType
  PROVE  LET m == sdtm_new_member(s)
         IN  /\ m = Nil => \A n \in Members : Of(s, n) # "none"
             /\ m # Nil => m \in Members /\ Of(s, m) = "none"
<1> DEFINE S == {m \in Members : s.mem[m].component = "none"}
<1>1. S \in SUBSET (Nat \ {0}) /\ sdtm_new_member(s) = LowestOf(S)
  BY RecordConstants DEF sdtm_new_member
<1>2. (S = {} => LowestOf(S) = Nil) /\ (S # {} => LowestOf(S) \in S)
  <2> HIDE DEF S
  <2> QED
    BY <1>1, LowestIs
<1>3. Nil \notin Members
  BY RecordConstants
<1> QED
  BY <1>1, <1>2, <1>3 DEF Of

\* A component that is known has a channel then, unless all are in use.
LEMMA AddChannelIs ==
  ASSUME NEW s, OK(s), NEW c \in Cids, NEW number \in ChannelNumbers \cup {0},
         ~s.shared => c \in Known(s)
  PROVE  LET r == sdt_add_channel(s, c, number)
         IN  /\ OK(r.s) /\ Frame(s, r.s) /\ r.s.allcomps = s.allcomps
             /\ r.i \in Channels \cup {Nil} /\ Tx(r.s, c) = r.i
             /\ \A d \in Cids : d # c => r.s.comp[d] = s.comp[d]
             /\ r.s.mem = s.mem
             /\ ~r.s.shared => \A j \in Channels : In(r.s, j) = In(s, j)
<1> DEFINE r == sdt_add_channel(s, c, number)
           i == sdtm_new_channel(s)
           new == [number |-> number, available_mid |-> 1, members |-> <<>>]
           ch == [s.chan EXCEPT ![i] = new]
           co == [s.comp EXCEPT ![c] = [@ EXCEPT !.tx_channel = i]]
           sh == s.shared \/ \E d \in Cids : s.comp[d].tx_channel = i
           u == WithChan(s, ch)
           v == WithComp(u, co)
           w == WithShared(v, sh)
<1>1. /\ s \in StateType /\ i \in Channels \cup {Nil} /\ (i # Nil => s.chan[i].number = 0)
      /\ s.comp[c] \in CompType /\ Tx(s, c) \in Channels \cup {Nil}
      /\ s.chan \in [Channels -> ChanType] /\ s.comp \in [Cids -> CompType] /\ s.shared \in BOOLEAN
  BY NewChannelIs, Fields DEF OK
<1>0. /\ Tx(s, c) # Nil => r = [i |-> Tx(s, c), s |-> s]
      /\ Tx(s, c) = Nil /\ i = Nil => r = [i |-> Nil, s |-> s]
      /\ Tx(s, c) = Nil /\ i # Nil =>
           r = [i |-> i, s |-> TakeChannel(s, i, c, number)]
  <2> DEFINE A == Tx(s, c) # Nil
             B == Tx(s, c) = Nil /\ i = Nil
             C == Tx(s, c) = Nil /\ i # Nil
             ra == [i |-> Tx(s, c), s |-> s]
             rb == [i |-> Nil, s |-> s]
             rc == [i |-> i, s |-> TakeChannel(s, i, c, number)]
  <2>1. r = CASE A -> ra [] B -> rb [] C -> rc
    BY Zenon DEF sdt_add_channel, Tx
  <2>2. (A => ~B /\ ~C) /\ (B => ~A /\ ~C) /\ (C => ~A /\ ~B)
    <3> HIDE DEF i
    <3> QED
      OBVIOUS
  <2> HIDE DEF r, A, B, C, ra, rb, rc
  <2>3. (A => r = ra) /\ (B => r = rb) /\ (C => r = rc)
    BY <2>1, <2>2
  <2> QED
    BY <2>3 DEF A, B, C, ra, rb, rc
<1>2. CASE Tx(s, c) # Nil \/ i = Nil
  <2>1. r.i = Tx(s, c) /\ r.s = s
    <3> HIDE DEF r, i
    <3> QED
      BY <1>2, <1>0
  <2> HIDE DEF r
  <2>2. Frame(s, s)
    BY <1>1 DEF Frame
  <2> QED
    BY <1>1, <2>1, <2>2 DEF r
<1>3. CASE Tx(s, c) = Nil /\ i # Nil
  <2>1. r = [i |-> i, s |-> TakeChannel(s, i, c, number)]
    BY <1>3, <1>0
  <2> HIDE DEF r, i
  <2>2. r.i = i /\ r.s = w
    BY <1>1, <2>1 DEF TakeChannel, WithChan, WithComp, WithShared, StateType
  <2>3. i \in Channels
    BY <1>1, <1>3
  <2>4. /\ ch \in [Channels -> ChanType] /\ co \in [Cids -> CompType] /\ sh \in BOOLEAN
        /\ ch[i] = new /\ \A j \in Channels : j # i => ch[j] = s.chan[j]
        /\ co[c].tx_channel = i /\ co[c].created_by = s.comp[c].created_by
        /\ \A d \in Cids : d # c => co[d] = s.comp[d]
    <3>1. new \in ChanType
      <4>1. <<>> \in Seq(Members) /\ 1 \in Mids
        BY RecordConstants
      <4> QED
        BY <4>1, Zenon DEF ChanType
    <3>2. co[c] = [s.comp[c] EXCEPT !.tx_channel = i]
      BY <1>1
    <3>3. [s.comp[c] EXCEPT !.tx_channel = i] \in CompType
      BY <1>1 DEF CompType
    <3>4. co[c].tx_channel = i /\ co[c].created_by = s.comp[c].created_by
      BY <1>1, <3>2 DEF CompType
    <3>5. sh \in BOOLEAN
      OBVIOUS
    <3>6. co \in [Cids -> CompType] /\ \A d \in Cids : d # c => co[d] = s.comp[d]
      BY <1>1, <3>3
    <3> HIDE DEF new
    <3>7. ch \in [Channels -> ChanType] /\ ch[i] = new /\ \A j \in Channels : j # i => ch[j] = s.chan[j]
      BY <1>1, <2>3, <3>1
    <3> QED
      BY <3>4, <3>5, <3>6, <3>7
  <2>5. sh <=> s.shared \/ \E d \in Cids : Tx(s, d) = i
    BY DEF Tx
  <2> HIDE DEF ch, co, sh
  <2>6. /\ u \in StateType /\ u.chan = ch
        /\ u.started = s.started /\ u.died = s.died /\ u.shared = s.shared
        /\ u.allcomps = s.allcomps /\ u.comp = s.comp /\ u.mem = s.mem
    BY <1>1, <2>4, WithChanIs
  <2> HIDE DEF u
  <2>7. /\ v \in StateType /\ v.comp = co
        /\ v.started = s.started /\ v.died = s.died /\ v.shared = s.shared
        /\ v.allcomps = s.allcomps /\ v.chan = ch /\ v.mem = s.mem
    BY <2>4, <2>6, WithCompIs
  <2> HIDE DEF v
  <2>8. /\ w \in StateType /\ w.shared = sh
        /\ w.started = s.started /\ w.died = s.died
        /\ w.allcomps = s.allcomps /\ w.comp = co /\ w.chan = ch /\ w.mem = s.mem
    BY <2>4, <2>7, WithSharedIs
  <2> HIDE DEF w
  <2>9. Frame(s, w)
    BY <2>4, <2>5, <2>8 DEF Frame
  <2>10. Tx(w, c) = i /\ \A d \in Cids : d # c => w.comp[d] = s.comp[d]
    BY <2>4, <2>8 DEF Tx
  <2>11. ASSUME ~w.shared PROVE Sound(w) /\ \A j \in Channels : In(w, j) = In(s, j)
    <3>1. ~s.shared /\ \A d \in Cids : Tx(s, d) # i
      BY <2>5, <2>8, <2>11
    <3>2. CompsSound(s) /\ MembersSound(s) /\ OwnersSound(s) /\ c \in Known(s)
      BY <3>1 DEF OK, Sound
    <3>3. In(s, i) = {} /\ In(w, i) = {} /\ NoDup(w.chan[i].members)
      <4>1. s.chan[i].members = <<>> /\ w.chan[i].members = <<>>
        BY <2>3, <2>4, <2>8, <3>1, <3>2 DEF OwnersSound
      <4>2. Elems(<<>>) = {} /\ NoDup(<<>>)
        BY DEF Elems, NoDup
      <4> QED
        BY <4>1, <4>2 DEF In
    <3>4. \A j \in Channels : In(w, j) = In(s, j)
      <4>1. \A j \in Channels : j # i => In(w, j) = In(s, j)
        BY <2>4, <2>8 DEF In
      <4> QED
        BY <3>3, <4>1
    <3>5. /\ \A d \in Cids : d # c => Tx(w, d) = Tx(s, d)
          /\ \A d \in Cids : w.comp[d].created_by = s.comp[d].created_by
          /\ Known(w) = Known(s) /\ \A m : Of(w, m) = Of(s, m)
      BY <2>4, <2>8 DEF Tx, Known, Of
    <3>6. CompsSound(w)
      BY <2>8, <2>10, <3>1, <3>2, <3>5 DEF CompsSound
    <3>7. MembersSound(w)
      <4>1. \A j \in Channels : NoDup(w.chan[j].members)
        <5>1. \A j \in Channels : j # i => NoDup(w.chan[j].members)
          BY <2>4, <2>8, <3>2 DEF MembersSound
        <5> QED
          BY <3>3, <5>1
      <4>2. /\ \A j, k \in Channels : \A m \in In(w, j) : m \in In(w, k) => j = k
            /\ \A m \in Members : Of(w, m) # "none" <=> \E j \in Channels : m \in In(w, j)
            /\ \A j \in Channels : \A m, n \in In(w, j) : m # n =>
                 Of(w, m) # Of(w, n) /\ (w.mem[m].mid # 0 => w.mem[m].mid # w.mem[n].mid)
        BY <2>8, <3>2, <3>4, <3>5 DEF MembersSound
      <4> QED
        BY <4>1, <4>2 DEF MembersSound
    <3>8. OwnersSound(w)
      <4>1. ASSUME NEW j \in Channels, \A d \in Cids : Tx(w, d) # j
            PROVE  w.chan[j].number = 0 /\ w.chan[j].members = <<>>
        <5>1. j # i
          BY <2>10, <4>1
        <5>2. \A d \in Cids : Tx(s, d) # j
          <6>1. j # Nil
            BY RecordConstants
          <6> QED
            BY <1>3, <3>5, <4>1, <6>1
        <5> QED
          BY <2>4, <2>8, <3>2, <5>1, <5>2 DEF OwnersSound
      <4>2. ASSUME NEW j \in Channels, NEW m \in In(w, j)
            PROVE  Of(w, m) \in Known(w) /\ (Of(w, m) \in Peers <=> j = Tx(w, LOCAL_COMP))
        <5>1. m \in In(s, j) /\ j # i
          BY <3>3, <3>4
        <5>2. j = Tx(w, LOCAL_COMP) <=> j = Tx(s, LOCAL_COMP)
          <6>1. j # Nil
            BY RecordConstants
          <6> QED
            BY <1>3, <2>10, <3>5, <5>1, <6>1, CidsAre
        <5> QED
          BY <3>2, <3>5, <5>1, <5>2 DEF OwnersSound
      <4> QED
        BY <4>1, <4>2 DEF OwnersSound
    <3> QED
      BY <3>4, <3>6, <3>7, <3>8 DEF Sound
  <2>12. OK(w)
    BY <2>8, <2>11 DEF OK
  <2> QED
    BY <2>2, <2>3, <2>8, <2>9, <2>10, <2>11, <2>12 DEF r
<1> QED
  BY <1>1, <1>2, <1>3

\* A component that was not known is then, unless all records are in use.
LEMMA AddComponentIs ==
  ASSUME NEW s, OK(s), NEW c \in Cids, c \notin Known(s),
         NEW creator \in {"cbAPP", "cbDISC", "cbJOIN"}
  PROVE  LET t == AddComponent(s, c, creator)
         IN  /\ OK(t) /\ t.started = s.started /\ t.died = s.died /\ t.shared = s.shared
             /\ \A d \in Known(s) : d \in Known(t)
             /\ t.chan = s.chan /\ t.mem = s.mem
             /\ \A d \in Cids : d # c => t.comp[d] = s.comp[d]
             /\ ~s.shared => \A d \in Cids : Tx(t, d) = Tx(s, d)
<1> DEFINE t == AddComponent(s, c, creator)
           list == s.allcomps
           new == [created_by |-> creator, tx_channel |-> Nil]
           all == <<c>> \o list
           co == [s.comp EXCEPT ![c] = new]
           u == WithAll(s, all)
           v == WithComp(u, co)
<1>1. s \in StateType /\ list \in Seq(Cids) /\ s.comp \in [Cids -> CompType]
  BY Fields DEF OK
<1>2. CASE Len(s.allcomps) = CONFIG_MAX_COMPONENTS
  <2>1. t = s
    BY <1>2 DEF AddComponent
  <2> HIDE DEF t
  <2> QED
    BY <2>1 DEF t
<1>3. CASE Len(s.allcomps) # CONFIG_MAX_COMPONENTS
  <2>1. t = v
    BY <1>1, <1>3 DEF AddComponent, WithAll, WithComp, StateType
  <2> HIDE DEF t
  <2>2. /\ all \in Seq(Cids)
        /\ \A x : x \in Elems(all) <=> x \in Elems(list) \/ x = c
        /\ NoDup(list) /\ c \notin Elems(list) => NoDup(all)
    <3> HIDE DEF list
    <3> QED
      BY <1>1, Prepended
  <2> HIDE DEF all
  <2>3. new \in CompType
    BY Zenon DEF CompType
  <2>4. new.tx_channel = Nil /\ new.created_by # "cbNONE"
    OBVIOUS
  <2> HIDE DEF new
  <2>5. co \in [Cids -> CompType] /\ co[c] = new /\ \A d \in Cids : d # c => co[d] = s.comp[d]
    BY <1>1, <2>3
  <2> HIDE DEF co
  <2>6. /\ u \in StateType /\ u.allcomps = all
        /\ u.started = s.started /\ u.died = s.died /\ u.shared = s.shared
        /\ u.comp = s.comp /\ u.chan = s.chan /\ u.mem = s.mem
    BY <1>1, <2>2, WithAllIs
  <2> HIDE DEF u
  <2>7. /\ v \in StateType /\ v.comp = co
        /\ v.started = s.started /\ v.died = s.died /\ v.shared = s.shared
        /\ v.allcomps = all /\ v.chan = s.chan /\ v.mem = s.mem
    BY <2>5, <2>6, WithCompIs
  <2> HIDE DEF v
  <2>8. \A d : d \in Known(v) <=> d \in Known(s) \/ d = c
    BY <2>2, <2>7 DEF Known
  <2>9. Tx(v, c) = Nil /\ v.comp[c].created_by # "cbNONE"
    BY <2>4, <2>5, <2>7 DEF Tx
  <2>10. \A d \in Cids : d # c => v.comp[d] = s.comp[d] /\ Tx(v, d) = Tx(s, d)
    BY <2>5, <2>7 DEF Tx
  <2>11. ASSUME ~s.shared PROVE Sound(v) /\ \A d \in Cids : Tx(v, d) = Tx(s, d)
    <3>1. CompsSound(s) /\ MembersSound(s) /\ OwnersSound(s)
      BY <2>11 DEF OK, Sound
    <3>2. Tx(s, c) = Nil
      BY <3>1 DEF CompsSound
    <3>3. \A d \in Cids : Tx(v, d) = Tx(s, d)
      BY <2>9, <2>10, <3>2
    <3>4. NoDup(v.allcomps)
      BY <2>2, <2>7, <3>1 DEF CompsSound, Known
    <3>5. CompsSound(v)
      BY <2>8, <2>9, <2>10, <3>1, <3>3, <3>4 DEF CompsSound
    <3>6. (\A i \in Channels : In(v, i) = In(s, i)) /\ \A m : Of(v, m) = Of(s, m)
      BY <2>7 DEF In, Of
    <3>7. MembersSound(v)
      BY <2>7, <3>1, <3>6 DEF MembersSound
    <3>8. Tx(v, LOCAL_COMP) = Tx(s, LOCAL_COMP)
      BY <3>3, CidsAre
    <3>9. OwnersSound(v)
      BY <2>7, <2>8, <3>1, <3>3, <3>6, <3>8 DEF OwnersSound
    <3> QED
      BY <3>3, <3>5, <3>7, <3>9 DEF Sound
  <2>12. OK(v)
    BY <2>7, <2>11 DEF OK
  <2> QED
    BY <2>1, <2>7, <2>8, <2>10, <2>11, <2>12 DEF t
<1> QED
  BY <1>2, <1>3

\* Component c may be a member of channel i.
MayJoin(s, i, c) ==
  /\ c \in Known(s)
  /\ \/ c \in Peers /\ i = Tx(s, LOCAL_COMP)
     \/ c = LOCAL_COMP /\ \E p \in Peers : i = Tx(s, p)

\* A component that may be a member is one then, unless all records are in use.
LEMMA MemberOfIs ==
  ASSUME NEW s, OK(s), NEW i \in Channels, NEW c \in Cids, ~s.shared => MayJoin(s, i, c)
  PROVE  LET r == MemberOf(s, i, c)
         IN  /\ OK(r.s) /\ Frame(s, r.s) /\ r.s.shared = s.shared
             /\ r.s.allcomps = s.allcomps /\ r.s.comp = s.comp
             /\ r.m # Nil => r.m \in Members /\ r.m \in In(r.s, i) /\ Of(r.s, r.m) = c
             /\ r.m = Nil => /\ r.s = s /\ \A n \in In(s, i) : Of(s, n) # c
                             /\ \A n \in Members : Of(s, n) # "none"
             /\ \A j \in Channels : j # i => In(r.s, j) = In(s, j)
             /\ \A n : n \in In(s, i) => n \in In(r.s, i)
<1> DEFINE r == MemberOf(s, i, c)
           old == sdt_find_member_by_component(s, i, c)
           m == sdtm_new_member(s)
           q == s.chan[i].members
           l == <<m>> \o q
           new == [component |-> c, mid |-> 0]
           ch == [s.chan EXCEPT ![i] = [@ EXCEPT !.members = l]]
           me == [s.mem EXCEPT ![m] = new]
           u == WithMem(s, me)
           v == WithChan(u, ch)
<1>1. /\ s \in StateType /\ s.chan[i] \in ChanType /\ q \in Seq(Members)
      /\ s.chan \in [Channels -> ChanType] /\ s.mem \in [Members -> MemType]
      /\ \A x \in In(s, i) : x \in Members
  BY InMembers, Fields DEF OK
<1>2. /\ m = Nil => \A n \in Members : Of(s, n) # "none"
      /\ m # Nil => m \in Members /\ Of(s, m) = "none"
  BY <1>1, NewMemberIs
<1>3. /\ old = Nil => \A n \in In(s, i) : Of(s, n) # c
      /\ old # Nil => old \in In(s, i) /\ old \in Members /\ Of(s, old) = c
  BY <1>1, FoundByComponent
<1>4. Frame(s, s)
  BY <1>1, Fields DEF Frame
<1>0. /\ old # Nil => r = [m |-> old, s |-> s]
      /\ old = Nil /\ m = Nil => r = [m |-> Nil, s |-> s]
      /\ old = Nil /\ m # Nil =>
           r = [m |-> m, s |-> TakeMember(s, m, i, c)]
  <2> DEFINE A == old # Nil
             B == old = Nil /\ m = Nil
             C == old = Nil /\ m # Nil
             ra == [m |-> old, s |-> s]
             rb == [m |-> Nil, s |-> s]
             rc == [m |-> m, s |-> TakeMember(s, m, i, c)]
  <2>1. r = CASE A -> ra [] B -> rb [] C -> rc
    BY Zenon DEF MemberOf
  <2>2. (A => ~B /\ ~C) /\ (B => ~A /\ ~C) /\ (C => ~A /\ ~B)
    <3> HIDE DEF old, m
    <3> QED
      OBVIOUS
  <2> HIDE DEF r, A, B, C, ra, rb, rc
  <2>3. (A => r = ra) /\ (B => r = rb) /\ (C => r = rc)
    BY <2>1, <2>2
  <2> QED
    BY <2>3 DEF A, B, C, ra, rb, rc
<1>5. CASE old # Nil
  <2>1. r = [m |-> old, s |-> s]
    BY <1>5, <1>0
  <2> HIDE DEF r, old
  <2>2. r.m = old /\ r.s = s
    BY <2>1
  <2> QED
    BY <1>3, <1>4, <1>5, <2>2 DEF r
<1>6. CASE old = Nil /\ m = Nil
  <2>1. r = [m |-> Nil, s |-> s]
    BY <1>6, <1>0
  <2> HIDE DEF r, old, m
  <2>2. r.m = Nil /\ r.s = s
    BY <2>1
  <2> QED
    BY <1>2, <1>3, <1>4, <1>6, <2>2 DEF r
<1>7. CASE old = Nil /\ m # Nil
  <2>1. r = [m |-> m, s |-> TakeMember(s, m, i, c)]
    BY <1>7, <1>0
  <2> HIDE DEF r, old, m
  <2>2. r.m = m /\ r.s = v
    BY <1>1, <2>1 DEF TakeMember, WithChan, WithMem, StateType
  <2>3. m \in Members /\ Of(s, m) = "none" /\ \A n \in In(s, i) : Of(s, n) # c
    BY <1>2, <1>3, <1>7
  <2>4. /\ l \in Seq(Members)
        /\ \A x : x \in Elems(l) <=> x \in In(s, i) \/ x = m
        /\ NoDup(q) /\ m \notin In(s, i) => NoDup(l)
    <3>1. In(s, i) = Elems(q)
      BY DEF In
    <3> HIDE DEF q
    <3> QED
      BY <1>1, <2>3, <3>1, Prepended
  <2> HIDE DEF l
  <2>5. /\ ch \in [Channels -> ChanType] /\ me \in [Members -> MemType]
        /\ ch[i].members = l /\ ch[i].number = s.chan[i].number
        /\ \A j \in Channels : j # i => ch[j] = s.chan[j]
        /\ me[m].component = c /\ me[m].mid = 0 /\ \A n \in Members : n # m => me[n] = s.mem[n]
    <3>1. [s.chan[i] EXCEPT !.members = l] \in ChanType
      BY <1>1, <2>4 DEF ChanType
    <3>2. ch[i] = [s.chan[i] EXCEPT !.members = l]
      BY <1>1
    <3>3. ch[i].members = l /\ ch[i].number = s.chan[i].number
      BY <1>1, <3>2 DEF ChanType
    <3>4. new \in MemType
      <4>1. 0 \in Mids
        BY RecordConstants
      <4> QED
        BY <4>1, Zenon DEF MemType
    <3>5. new.component = c /\ new.mid = 0
      OBVIOUS
    <3> HIDE DEF new
    <3>6. me \in [Members -> MemType] /\ me[m] = new /\ \A n \in Members : n # m => me[n] = s.mem[n]
      BY <1>1, <2>3, <3>4
    <3>7. ch \in [Channels -> ChanType] /\ \A j \in Channels : j # i => ch[j] = s.chan[j]
      BY <1>1, <3>1
    <3> HIDE DEF ch, me
    <3> QED
      BY <3>3, <3>5, <3>6, <3>7
  <2> HIDE DEF ch, me
  <2>6. /\ u \in StateType /\ u.mem = me
        /\ u.started = s.started /\ u.died = s.died /\ u.shared = s.shared
        /\ u.allcomps = s.allcomps /\ u.comp = s.comp /\ u.chan = s.chan
    BY <1>1, <2>5, WithMemIs
  <2> HIDE DEF u
  <2>7. /\ v \in StateType /\ v.chan = ch
        /\ v.started = s.started /\ v.died = s.died /\ v.shared = s.shared
        /\ v.allcomps = s.allcomps /\ v.comp = s.comp /\ v.mem = me
    BY <2>5, <2>6, WithChanIs
  <2> HIDE DEF v
  <2>8. /\ \A x : x \in In(v, i) <=> x \in In(s, i) \/ x = m
        /\ \A j \in Channels : j # i => In(v, j) = In(s, j)
        /\ Of(v, m) = c /\ \A n \in Members : n # m => Of(v, n) = Of(s, n)
    BY <2>4, <2>5, <2>7 DEF In, Of
  <2>9. Frame(s, v)
    BY <1>1, <2>7, Fields DEF Frame
  <2>10. ASSUME ~s.shared PROVE Sound(v)
    <3>1. CompsSound(s) /\ MembersSound(s) /\ OwnersSound(s) /\ MayJoin(s, i, c)
      BY <2>10 DEF OK, Sound
    <3>2. /\ Known(v) = Known(s) /\ \A d \in Cids : Tx(v, d) = Tx(s, d)
          /\ Tx(v, LOCAL_COMP) = Tx(s, LOCAL_COMP)
      BY <2>7 DEF Known, Tx
    <3>3. CompsSound(v)
      BY <2>7, <3>1, <3>2 DEF CompsSound
    <3>4. \A j \in Channels : m \notin In(s, j)
      BY <2>3, <3>1 DEF MembersSound
    <3>5. /\ \A j \in Channels : \A n \in In(s, j) : n \in Members /\ n # m /\ v.mem[n] = s.mem[n]
      BY <1>1, <2>5, <2>7, <3>4, InMembers
    <3>6. c # "none"
      BY CidsAre
    <3>7. MembersSound(v)
      <4>1. \A j \in Channels : NoDup(v.chan[j].members)
        <5>1. NoDup(v.chan[i].members)
          BY <2>4, <2>5, <2>7, <3>1, <3>4 DEF MembersSound
        <5>2. \A j \in Channels : j # i => NoDup(v.chan[j].members)
          BY <2>5, <2>7, <3>1 DEF MembersSound
        <5> QED
          BY <5>1, <5>2
      <4>2. \A j, k \in Channels : \A n \in In(v, j) : n \in In(v, k) => j = k
        BY <2>8, <3>1, <3>4 DEF MembersSound
      <4>3. \A n \in Members : Of(v, n) # "none" <=> \E j \in Channels : n \in In(v, j)
        <5>1. ASSUME NEW n \in Members, n # m PROVE Of(v, n) # "none" <=> \E j \in Channels : n \in In(v, j)
          <6>1. \A j \in Channels : n \in In(v, j) <=> n \in In(s, j)
            BY <2>8, <5>1
          <6> QED
            BY <2>8, <3>1, <5>1, <6>1 DEF MembersSound
        <5>2. Of(v, m) # "none" /\ m \in In(v, i)
          BY <2>8, <3>6
        <5> QED
          BY <5>1, <5>2
      <4>4. ASSUME NEW j \in Channels, NEW x \in In(v, j), NEW y \in In(v, j), x # y
            PROVE  Of(v, x) # Of(v, y) /\ (v.mem[x].mid # 0 => v.mem[x].mid # v.mem[y].mid)
        <5>1. CASE x # m /\ y # m
          <6>1. x \in In(s, j) /\ y \in In(s, j)
            BY <2>8, <5>1
          <6> QED
            BY <3>1, <3>5, <4>4, <6>1 DEF MembersSound, Of
        <5>2. CASE x = m
          <6>1. j = i /\ y \in In(s, i)
            BY <2>8, <3>4, <4>4, <5>2
          <6>2. Of(v, y) = Of(s, y) /\ Of(s, y) # c
            BY <2>3, <3>5, <6>1 DEF Of
          <6>3. v.mem[x].mid = 0
            BY <2>5, <2>7, <5>2
          <6> QED
            BY <2>8, <5>2, <6>2, <6>3
        <5>3. CASE y = m
          <6>1. j = i /\ x \in In(s, i)
            BY <2>8, <3>4, <4>4, <5>3
          <6>2. Of(v, x) = Of(s, x) /\ Of(s, x) # c
            BY <2>3, <3>5, <6>1 DEF Of
          <6>3. v.mem[y].mid = 0
            BY <2>5, <2>7, <5>3
          <6> QED
            BY <2>8, <5>3, <6>2, <6>3
        <5> QED
          BY <5>1, <5>2, <5>3
      <4> QED
        BY <4>1, <4>2, <4>3, <4>4 DEF MembersSound
    <3>8. OwnersSound(v)
      <4>1. ASSUME NEW j \in Channels, \A d \in Cids : Tx(v, d) # j
            PROVE  v.chan[j].number = 0 /\ v.chan[j].members = <<>>
        <5>1. j # i
          BY <3>1, <3>2, <4>1, CidsAre DEF MayJoin
        <5> QED
          BY <2>5, <2>7, <3>1, <3>2, <4>1, <5>1 DEF OwnersSound
      <4>2. ASSUME NEW j \in Channels, NEW n \in In(v, j)
            PROVE  Of(v, n) \in Known(v) /\ (Of(v, n) \in Peers <=> j = Tx(v, LOCAL_COMP))
        <5>1. CASE n # m
          <6>1. n \in In(s, j)
            BY <2>8, <5>1
          <6> QED
            BY <3>1, <3>2, <3>5, <6>1 DEF OwnersSound, Of
        <5>2. CASE n = m
          <6>1. j = i
            BY <2>8, <3>4, <5>2
          <6>2. c = LOCAL_COMP => i # Tx(s, LOCAL_COMP)
            <7>1. ASSUME c = LOCAL_COMP PROVE i # Tx(s, LOCAL_COMP)
              <8>1. PICK p \in Peers : i = Tx(s, p)
                BY <3>1, <7>1, CidsAre DEF MayJoin
              <8>2. p \in Cids /\ p # LOCAL_COMP /\ i # Nil
                BY CidsAre, RecordConstants
              <8> QED
                BY <3>1, <8>1, <8>2, CidsAre DEF CompsSound
            <7> QED
              BY <7>1
          <6> QED
            BY <2>8, <3>1, <3>2, <5>2, <6>1, <6>2, CidsAre DEF MayJoin
        <5> QED
          BY <5>1, <5>2
      <4> QED
        BY <4>1, <4>2 DEF OwnersSound
    <3> QED
      BY <3>3, <3>7, <3>8 DEF Sound
  <2>11. OK(v)
    BY <2>7, <2>10 DEF OK
  <2> QED
    BY <1>7, <2>2, <2>3, <2>7, <2>8, <2>9, <2>11 DEF r
<1> QED
  BY <1>5, <1>6, <1>7

-----------------------------------------------------------------------------
(***************************************************************************)
(* Numbers.                                                                *)
(***************************************************************************)
\* The lists stay, and members' and channels' numbers change.
LEMMA SameMembers ==
  ASSUME NEW s, OK(s), NEW t \in StateType,
         t.shared = s.shared, t.allcomps = s.allcomps, t.comp = s.comp,
         \A j \in Channels : t.chan[j].members = s.chan[j].members,
         ~s.shared => \A j \in Channels : (\A c \in Cids : Tx(s, c) # j) => t.chan[j].number = s.chan[j].number,
         \A m \in Members : Of(t, m) = Of(s, m),
         ~s.shared => \A j \in Channels : \A m, n \in In(s, j) : m # n =>
           (t.mem[m].mid # 0 => t.mem[m].mid # t.mem[n].mid)
  PROVE  OK(t) /\ \A j \in Channels : In(t, j) = In(s, j)
<1>1. \A j \in Channels : In(t, j) = In(s, j)
  BY DEF In
<1>2. ASSUME ~s.shared PROVE Sound(t)
  <2>1. CompsSound(s) /\ MembersSound(s) /\ OwnersSound(s)
    BY <1>2 DEF OK, Sound
  <2>2. Known(t) = Known(s) /\ \A c : Tx(t, c) = Tx(s, c)
    BY DEF Known, Tx
  <2>3. \A j \in Channels : \A m \in In(s, j) : m \in Members /\ Of(t, m) = Of(s, m)
    BY InMembers DEF OK
  <2>4. CompsSound(t)
    BY <2>1, <2>2 DEF CompsSound
  <2>5. MembersSound(t)
    <3>1. \A j \in Channels : NoDup(t.chan[j].members)
      BY <2>1 DEF MembersSound
    <3>2. /\ \A j, k \in Channels : \A m \in In(t, j) : m \in In(t, k) => j = k
          /\ \A m \in Members : Of(t, m) # "none" <=> \E j \in Channels : m \in In(t, j)
      BY <1>1, <2>1 DEF MembersSound
    <3>3. \A j \in Channels : \A m, n \in In(t, j) : m # n =>
            Of(t, m) # Of(t, n) /\ (t.mem[m].mid # 0 => t.mem[m].mid # t.mem[n].mid)
      BY <1>1, <1>2, <2>1, <2>3 DEF MembersSound
    <3> QED
      BY <3>1, <3>2, <3>3 DEF MembersSound
  <2>6. OwnersSound(t)
    <3>1. \A j \in Channels : (\A c \in Cids : Tx(t, c) # j) =>
            t.chan[j].number = 0 /\ t.chan[j].members = <<>>
      BY <1>2, <2>1, <2>2 DEF OwnersSound
    <3>2. \A j \in Channels : \A m \in In(t, j) :
            Of(t, m) \in Known(t) /\ (Of(t, m) \in Peers <=> j = Tx(t, LOCAL_COMP))
      BY <1>1, <2>1, <2>2, <2>3 DEF OwnersSound
    <3> QED
      BY <3>1, <3>2 DEF OwnersSound
  <2> QED
    BY <2>4, <2>5, <2>6 DEF Sound
<1> QED
  BY <1>1, <1>2 DEF OK

\* A member gets a number no other of its list has.
LEMMA MidIs ==
  ASSUME NEW s, OK(s), NEW m \in Members, NEW v \in Mids,
         ~s.shared => \A j \in Channels : \A n \in In(s, j) :
                        m \in In(s, j) /\ n # m => s.mem[n].mid # v
  PROVE  LET t == [s EXCEPT !.mem[m].mid = v]
         IN  /\ OK(t) /\ Frame(s, t) /\ t.shared = s.shared
             /\ t.allcomps = s.allcomps /\ t.comp = s.comp /\ t.chan = s.chan
             /\ \A n \in Members : Of(t, n) = Of(s, n)
             /\ \A j \in Channels : In(t, j) = In(s, j)
<1> DEFINE t == [s EXCEPT !.mem[m].mid = v]
           me == [s.mem EXCEPT ![m] = [@ EXCEPT !.mid = v]]
<1>1. s \in StateType /\ s.mem \in [Members -> MemType] /\ s.mem[m] \in MemType
  BY Fields DEF OK
<1>2. t = WithMem(s, me)
  BY DEF WithMem
<1> HIDE DEF t
<1>3. /\ me \in [Members -> MemType]
      /\ me[m].mid = v /\ me[m].component = s.mem[m].component
      /\ \A n \in Members : n # m => me[n] = s.mem[n]
  <2>1. [s.mem[m] EXCEPT !.mid = v] \in MemType
    BY <1>1 DEF MemType
  <2>2. me[m] = [s.mem[m] EXCEPT !.mid = v]
    BY <1>1
  <2>3. me[m].mid = v /\ me[m].component = s.mem[m].component
    BY <1>1, <2>2 DEF MemType
  <2>4. me \in [Members -> MemType] /\ \A n \in Members : n # m => me[n] = s.mem[n]
    BY <1>1, <2>1
  <2> QED
    BY <2>3, <2>4
<1> HIDE DEF me
<1>4. /\ t \in StateType /\ t.mem = me
      /\ t.started = s.started /\ t.died = s.died /\ t.shared = s.shared
      /\ t.allcomps = s.allcomps /\ t.comp = s.comp /\ t.chan = s.chan
  BY <1>1, <1>2, <1>3, WithMemIs
<1>5. \A n \in Members : Of(t, n) = Of(s, n)
  BY <1>3, <1>4 DEF Of
<1>6. ASSUME ~s.shared
      PROVE  \A j \in Channels : \A x, y \in In(s, j) : x # y =>
               (t.mem[x].mid # 0 => t.mem[x].mid # t.mem[y].mid)
  <2> SUFFICES ASSUME NEW j \in Channels, NEW x \in In(s, j), NEW y \in In(s, j), x # y,
                      t.mem[x].mid # 0
               PROVE  t.mem[x].mid # t.mem[y].mid
    OBVIOUS
  <2>1. MembersSound(s)
    BY <1>6 DEF OK, Sound
  <2>2. x \in Members /\ y \in Members
    BY <1>1, InMembers
  <2>3. t.mem[m].mid = v /\ \A n \in Members : n # m => t.mem[n].mid = s.mem[n].mid
    BY <1>3, <1>4
  <2>4. s.mem[x].mid # 0 => s.mem[x].mid # s.mem[y].mid
    BY <2>1 DEF MembersSound
  <2>5. CASE x # m /\ y # m
    BY <2>2, <2>3, <2>4, <2>5
  <2>6. CASE x = m
    BY <1>6, <2>2, <2>3, <2>6
  <2>7. CASE y = m
    BY <1>6, <2>2, <2>3, <2>7
  <2> QED
    BY <2>5, <2>6, <2>7
<1>7. OK(t) /\ \A j \in Channels : In(t, j) = In(s, j)
  BY <1>4, <1>5, <1>6, SameMembers
<1>8. Frame(s, t)
  BY <1>1, <1>4, Fields DEF Frame
<1> QED
  BY <1>4, <1>5, <1>7, <1>8 DEF t

\* A channel that is a component's gets another number, or one to go on from.
LEMMA ChannelNumberIs ==
  ASSUME NEW s, OK(s), NEW i \in Channels, NEW n \in ChannelNumbers \cup {0}, NEW a \in Mids,
         NEW t, \/ /\ t = [s EXCEPT !.chan[i].number = n]
                   /\ ~s.shared => \E c \in Cids : Tx(s, c) = i
                \/ t = [s EXCEPT !.chan[i].available_mid = a]
  PROVE  /\ OK(t) /\ Frame(s, t) /\ t.shared = s.shared
         /\ t.allcomps = s.allcomps /\ t.comp = s.comp /\ t.mem = s.mem
         /\ \A j \in Channels : In(t, j) = In(s, j)
<1> DEFINE cn == [s.chan EXCEPT ![i] = [@ EXCEPT !.number = n]]
           ca == [s.chan EXCEPT ![i] = [@ EXCEPT !.available_mid = a]]
<1>1. s \in StateType /\ s.chan \in [Channels -> ChanType] /\ s.chan[i] \in ChanType
  BY Fields DEF OK
<1>2. PICK ch : t = WithChan(s, ch) /\ \/ ch = cn /\ (~s.shared => \E c \in Cids : Tx(s, c) = i)
                                       \/ ch = ca
  BY DEF WithChan
<1>3. /\ ch \in [Channels -> ChanType] /\ ch[i].members = s.chan[i].members
      /\ \A j \in Channels : j # i => ch[j] = s.chan[j]
      /\ ch = ca => ch[i].number = s.chan[i].number
  <2>1. [s.chan[i] EXCEPT !.number = n] \in ChanType /\ [s.chan[i] EXCEPT !.available_mid = a] \in ChanType
    BY <1>1 DEF ChanType
  <2>2. cn[i] = [s.chan[i] EXCEPT !.number = n] /\ ca[i] = [s.chan[i] EXCEPT !.available_mid = a]
    BY <1>1
  <2>3. cn[i].members = s.chan[i].members /\ ca[i].members = s.chan[i].members
        /\ ca[i].number = s.chan[i].number
    BY <1>1, <2>2 DEF ChanType
  <2>4. /\ cn \in [Channels -> ChanType] /\ ca \in [Channels -> ChanType]
        /\ \A j \in Channels : j # i => cn[j] = s.chan[j] /\ ca[j] = s.chan[j]
    BY <1>1, <2>1
  <2> HIDE DEF cn, ca
  <2> QED
    BY <1>2, <2>3, <2>4
<1> HIDE DEF cn, ca
<1>4. /\ t \in StateType /\ t.chan = ch
      /\ t.started = s.started /\ t.died = s.died /\ t.shared = s.shared
      /\ t.allcomps = s.allcomps /\ t.comp = s.comp /\ t.mem = s.mem
  BY <1>1, <1>2, <1>3, WithChanIs
<1>5. \A j \in Channels : t.chan[j].members = s.chan[j].members
  BY <1>3, <1>4
<1>6. ~s.shared => \A j \in Channels : (\A c \in Cids : Tx(s, c) # j) => t.chan[j].number = s.chan[j].number
  BY <1>2, <1>3, <1>4
<1>7. \A m \in Members : Of(t, m) = Of(s, m)
  BY <1>4 DEF Of
<1>8. ~s.shared => \A j \in Channels : \A x, y \in In(s, j) : x # y =>
        (t.mem[x].mid # 0 => t.mem[x].mid # t.mem[y].mid)
  BY <1>4 DEF OK, Sound, MembersSound
<1>9. OK(t) /\ \A j \in Channels : In(t, j) = In(s, j)
  BY <1>4, <1>5, <1>6, <1>7, <1>8, SameMembers
<1>10. Frame(s, t)
  BY <1>1, <1>4, Fields DEF Frame
<1> QED
  BY <1>4, <1>9, <1>10

\* Going round the numbers.
LEMMA RoundTheMids ==
  ASSUME NEW W \in Nat \ {0}, NEW x \in 0 .. 2 * W - 1
  PROVE  x % W = IF x < W THEN x ELSE x - W
OBVIOUS

\* No list holds all numbers: there are fewer members.
LEMMA SomeMidIsFree ==
  ASSUME NEW s \in StateType, NEW i \in Channels, NEW from \in Mids
  PROVE  \E k \in Mids : sdt_find_member_by_mid(s, i, (from + k) % MidWidth) = Nil
<1> SUFFICES ASSUME \A k \in Mids : sdt_find_member_by_mid(s, i, (from + k) % MidWidth) # Nil
             PROVE  FALSE
  OBVIOUS
<1> DEFINE W == MidWidth
           at(k) == (from + k) % W
           f == [k \in Mids |-> sdt_find_member_by_mid(s, i, at(k))]
           q == s.chan[i].members
<1>1. W \in Nat \ {0} /\ SDT_MAX_MEMBERS < W /\ SDT_MAX_MEMBERS \in Nat /\ Mids = 0 .. W - 1
  BY RecordConstants DEF Mids
<1>2. q \in Seq(Members) /\ Members \in SUBSET (Nat \ {0}) /\ \A n \in Elems(q) : n \in Members
  BY InMembers, RecordConstants DEF In
<1>3. ASSUME NEW k \in Mids PROVE f[k] \in Members /\ s.mem[f[k]].mid = at(k)
  <2> DEFINE v == at(k)
             S == {m \in Members : s.mem[m].mid = v}
  <2>1. f[k] = FirstIn(q, S) /\ FirstIn(q, S) # Nil
    BY DEF sdt_find_member_by_mid
  <2> HIDE DEF f, q, v
  <2>2. FirstIn(q, S) \in Elems(q) /\ FirstIn(q, S) \in S
    <3> HIDE DEF S
    <3> QED
      BY <1>2, <2>1, FirstInIs
  <2> QED
    BY <2>1, <2>2 DEF v
<1> HIDE DEF f, q
<1>4. ASSUME NEW j \in Mids, NEW k \in Mids, at(j) = at(k) PROVE j = k
  <2>1. from \in 0 .. W - 1 /\ j \in 0 .. W - 1 /\ k \in 0 .. W - 1
    BY <1>1
  <2>2. from + j \in 0 .. 2 * W - 1 /\ from + k \in 0 .. 2 * W - 1
    BY <1>1, <2>1
  <2> HIDE DEF W
  <2>3. \A x \in 0 .. 2 * W - 1 : x % W = IF x < W THEN x ELSE x - W
    BY <1>1, RoundTheMids
  <2>4. /\ at(j) = IF from + j < W THEN from + j ELSE (from + j) - W
        /\ at(k) = IF from + k < W THEN from + k ELSE (from + k) - W
    <3> DEFINE x == from + j
               y == from + k
    <3>1. at(j) = x % W /\ at(k) = y % W /\ x \in 0 .. 2 * W - 1 /\ y \in 0 .. 2 * W - 1
      BY <2>2
    <3> HIDE DEF at, x, y
    <3>2. at(j) = (IF x < W THEN x ELSE x - W) /\ at(k) = (IF y < W THEN y ELSE y - W)
      BY <2>3, <3>1
    <3> QED
      BY <3>2 DEF x, y
  <2>5. (IF from + j < W THEN from + j ELSE (from + j) - W) = (IF from + k < W THEN from + k ELSE (from + k) - W)
    <3> HIDE DEF at
    <3> QED
      BY <1>4, <2>4
  <2> QED
    BY <1>1, <2>1, <2>5
<1> HIDE DEF at
<1>5. IsFiniteSet(Mids) /\ Cardinality(Mids) = W
  <2>1. 0 \in Int /\ W - 1 \in Int /\ ~(0 > W - 1) /\ (W - 1) - 0 + 1 = W
    BY <1>1
  <2> HIDE DEF W
  <2> QED
    BY <1>1, <2>1, FS_Interval
<1>6. IsFiniteSet(Members) /\ Cardinality(Members) = SDT_MAX_MEMBERS
  <2>1. 1 \in Int /\ SDT_MAX_MEMBERS \in Int /\ SDT_MAX_MEMBERS - 1 + 1 = SDT_MAX_MEMBERS
        /\ (1 > SDT_MAX_MEMBERS => SDT_MAX_MEMBERS = 0)
    BY <1>1
  <2> QED
    BY <2>1, FS_Interval DEF Members
<1>7. f \in [Mids -> Members]
  <2>1. f = [k \in Mids |-> f[k]]
    BY DEF f
  <2> QED
    BY <1>3, <2>1
<1>8. \E j, k \in Mids : j # k /\ f[j] = f[k]
  BY <1>1, <1>5, <1>6, <1>7, FS_PigeonHole
<1> QED
  BY <1>3, <1>4, <1>8

\* sdt_next_member finds a number, and no other member of the list has it.
LEMMA NumberedIs ==
  ASSUME NEW s, OK(s), NEW i \in Channels, NEW m \in Members, ~s.shared => m \in In(s, i)
  PROVE  LET t == Numbered(s, i, m)
         IN  /\ OK(t) /\ Frame(s, t) /\ t.shared = s.shared
             /\ t.allcomps = s.allcomps /\ t.comp = s.comp
             /\ \A n \in Members : Of(t, n) = Of(s, n)
             /\ \A j \in Channels : In(t, j) = In(s, j)
<1> DEFINE t == Numbered(s, i, m)
           W == MidWidth
           from == IF s.chan[i].available_mid = MidLimit THEN 1 ELSE s.chan[i].available_mid
           Taken(k) == sdt_find_member_by_mid(s, i, (from + k) % W) # Nil
           IsNext(n) == ~Taken(n) /\ \A j \in 0 .. n - 1 : Taken(j)
           k == CHOOSE n \in 0 .. W - 1 : IsNext(n)
           v == (from + k) % W
           a == (from + k + 1) % W
           u == [s EXCEPT !.mem[m].mid = v]
           w == [u EXCEPT !.chan[i].available_mid = a]
<1>1. s \in StateType /\ s.chan[i] \in ChanType /\ W \in Nat \ {0} /\ Mids = 0 .. W - 1
  BY InMembers, RecordConstants DEF OK, Mids
<1>2. from \in Mids
  BY <1>1, RecordConstants DEF ChanType
<1>3. t = w
  <2>1. t = [s EXCEPT !.mem[m].mid = v, !.chan[i].available_mid = a]
    BY Zenon DEF Numbered
  <2> HIDE DEF t, v, a
  <2> QED
    BY <2>1
<1> HIDE DEF from, t
<1>4. \E n \in 0 .. W - 1 : IsNext(n)
  <2> DEFINE S == {n \in Mids : ~Taken(n)}
  <2>1. S # {}
    <3>1. PICK n \in Mids : sdt_find_member_by_mid(s, i, (from + n) % MidWidth) = Nil
      BY <1>1, <1>2, SomeMidIsFree
    <3>2. n \in S
      BY <3>1
    <3> QED
      BY <3>2
  <2>2. S \in SUBSET Nat
    BY <1>1
  <2>3. PICK n \in S : \A j \in S : n <= j
    <3> HIDE DEF S
    <3> QED
      BY <2>1, <2>2, Smallest
  <2>4. n \in Mids /\ ~Taken(n) /\ \A j \in Mids : ~Taken(j) => n <= j
    BY <2>3
  <2> HIDE DEF Taken, S
  <2>5. ASSUME NEW j \in 0 .. n - 1 PROVE Taken(j)
    <3>1. j \in Mids /\ ~(n <= j)
      BY <1>1, <2>4
    <3> QED
      BY <2>4, <3>1
  <2> QED
    BY <1>1, <2>4, <2>5
<1>5. k \in 0 .. W - 1 /\ IsNext(k)
  <2> HIDE DEF IsNext
  <2> QED
    BY <1>4, Zenon
<1> HIDE DEF k
<1>6. v \in Mids /\ a \in Mids
  <2>1. from \in Nat /\ k \in Nat
    BY <1>1, <1>2, <1>5
  <2>2. from + k \in Nat /\ from + k + 1 \in Nat
    BY <2>1
  <2> DEFINE x == from + k
             y == from + k + 1
  <2>3. x \in Nat /\ y \in Nat
    BY <2>2
  <2> HIDE DEF x, y
  <2>4. x % W \in 0 .. W - 1 /\ y % W \in 0 .. W - 1
    BY <1>1, <2>3
  <2> QED
    BY <1>1, <2>4 DEF x, y
<1>7. sdt_find_member_by_mid(s, i, v) = Nil
  BY <1>5
<1> HIDE DEF v, a, IsNext, Taken
<1>8. \A n \in In(s, i) : s.mem[n].mid # v
  <2> DEFINE S == {n \in Members : s.mem[n].mid = v}
             q == s.chan[i].members
  <2>1. FirstIn(q, S) = Nil
    BY <1>7 DEF sdt_find_member_by_mid
  <2>2. q \in Seq(Members) /\ Members \in SUBSET (Nat \ {0}) /\ In(s, i) = Elems(q)
        /\ \A n \in In(s, i) : n \in Members
    BY <1>1, InMembers, RecordConstants DEF In
  <2>3. \A n \in Elems(q) : n \notin S
    <3> HIDE DEF S, q
    <3> QED
      BY <2>1, <2>2, FirstInIs
  <2> QED
    BY <2>2, <2>3
<1>9. ASSUME ~s.shared
      PROVE  \A j \in Channels : \A n \in In(s, j) : m \in In(s, j) /\ n # m => s.mem[n].mid # v
  BY <1>8, <1>9 DEF OK, Sound, MembersSound
<1>10. /\ OK(u) /\ Frame(s, u) /\ u.shared = s.shared
       /\ u.allcomps = s.allcomps /\ u.comp = s.comp /\ u.chan = s.chan
       /\ \A n \in Members : Of(u, n) = Of(s, n)
       /\ \A j \in Channels : In(u, j) = In(s, j)
  BY <1>6, <1>9, MidIs
<1> HIDE DEF u
<1>11. /\ OK(w) /\ Frame(u, w) /\ w.shared = u.shared
       /\ w.allcomps = u.allcomps /\ w.comp = u.comp /\ w.mem = u.mem
       /\ \A j \in Channels : In(w, j) = In(u, j)
  <2>1. 0 \in ChannelNumbers \cup {0}
    OBVIOUS
  <2> QED
    BY <1>6, <1>10, <2>1, ChannelNumberIs
<1>12. Frame(s, w)
  BY <1>10, <1>11 DEF Frame
<1>13. \A n \in Members : Of(w, n) = Of(s, n)
  BY <1>10, <1>11 DEF Of
<1> HIDE DEF w
<1> QED
  BY <1>3, <1>10, <1>11, <1>12, <1>13 DEF t

-----------------------------------------------------------------------------
(***************************************************************************)
(* Joining.                                                                *)
(***************************************************************************)
\* Who is found is known.
LEMMA FoundIsKnown ==
  ASSUME NEW s, NEW c
  PROVE  sdt_find_comp_by_cid(s, c) <=> c \in Known(s)
BY DEF sdt_find_comp_by_cid, Known, Elems

\* In a peer's channel there is one member: we are.
LEMMA OnlyMember ==
  ASSUME NEW s, OK(s), ~s.shared, NEW p \in Peers, NEW i \in Channels, i = Tx(s, p),
         NEW m \in In(s, i), NEW n \in In(s, i)
  PROVE  m = n
<1>1. CompsSound(s) /\ MembersSound(s) /\ OwnersSound(s) /\ s \in StateType
  BY DEF OK, Sound
<1>2. p \in Cids /\ p # LOCAL_COMP /\ LOCAL_COMP \in Cids /\ i # Nil
  BY CidsAre, RecordConstants
<1>3. i # Tx(s, LOCAL_COMP)
  BY <1>1, <1>2 DEF CompsSound
<1>4. Of(s, m) \in Cids /\ Of(s, n) \in Cids
  BY <1>1, Fields DEF OwnersSound
<1>5. Of(s, m) = LOCAL_COMP /\ Of(s, n) = LOCAL_COMP
  BY <1>1, <1>3, <1>4, CidsAre DEF OwnersSound
<1> QED
  BY <1>1, <1>5 DEF MembersSound

\* Whose channel a member stands in.
Owner(s, m) == CHOOSE c \in Cids : Tx(s, c) # Nil /\ m \in In(s, Tx(s, c))

\* If no record is free and a peer that is known is not in our channel, there are more
\* peers than pairs of records.
LEMMA TooFewRecords ==
  ASSUME NEW s, OK(s), ~s.shared, NEW p \in Peers, p \in Known(s), LOCAL_COMP \in Known(s),
         NEW i \in Channels, i = Tx(s, LOCAL_COMP), \A n \in In(s, i) : Of(s, n) # p,
         \A n \in Members : Of(s, n) # "none"
  PROVE  2 * (Len(s.allcomps) - 1) > SDT_MAX_MEMBERS
<1> DEFINE K == Known(s)
           l == Len(s.allcomps)
           A == {m \in Members : Of(s, m) \in Peers}
           B == {m \in Members : Of(s, m) = LOCAL_COMP}
           P == (K \ {LOCAL_COMP}) \ {p}
           Q == K \ {LOCAL_COMP}
           f == [m \in A |-> Of(s, m)]
           g == [m \in B |-> Owner(s, m)]
<1>1. CompsSound(s) /\ MembersSound(s) /\ OwnersSound(s) /\ s \in StateType
  BY DEF OK, Sound
<1>2. p \in Cids /\ p # LOCAL_COMP /\ LOCAL_COMP \in Cids /\ i # Nil
  BY CidsAre, RecordConstants
<1>3. IsFiniteSet(K) /\ Cardinality(K) = l /\ l \in Nat
  <2>1. s.allcomps \in Seq(Cids) /\ NoDup(s.allcomps)
    BY <1>1, Fields DEF CompsSound
  <2> QED
    BY <2>1, AsLongAsMany DEF Known
<1>4. IsFiniteSet(Members) /\ Cardinality(Members) = SDT_MAX_MEMBERS /\ SDT_MAX_MEMBERS \in Nat
  <2>1. SDT_MAX_MEMBERS \in Nat
    BY RecordConstants
  <2>2. 1 \in Int /\ SDT_MAX_MEMBERS \in Int /\ SDT_MAX_MEMBERS - 1 + 1 = SDT_MAX_MEMBERS
        /\ (1 > SDT_MAX_MEMBERS => SDT_MAX_MEMBERS = 0)
    BY <2>1
  <2> QED
    BY <2>1, <2>2, FS_Interval DEF Members
<1>5. ASSUME NEW m \in Members
      PROVE  /\ Of(s, m) \in Cids
             /\ Owner(s, m) \in Cids /\ Tx(s, Owner(s, m)) \in Channels
             /\ Owner(s, m) \in Known(s) /\ m \in In(s, Tx(s, Owner(s, m)))
  <2>1. PICK j \in Channels : m \in In(s, j)
    BY <1>1 DEF MembersSound
  <2>2. s.chan[j].members # <<>>
    BY <2>1 DEF In, Elems
  <2>3. PICK d \in Cids : Tx(s, d) = j
    BY <1>1, <2>2 DEF OwnersSound
  <2>4. j # Nil
    BY RecordConstants
  <2>5. \E c \in Cids : Tx(s, c) # Nil /\ m \in In(s, Tx(s, c))
    BY <2>1, <2>3, <2>4
  <2>6. Owner(s, m) \in Cids /\ Tx(s, Owner(s, m)) # Nil /\ m \in In(s, Tx(s, Owner(s, m)))
    BY <2>5, Zenon DEF Owner
  <2>7. Tx(s, Owner(s, m)) \in Channels
    BY <1>1, <2>6, Fields
  <2>8. Owner(s, m) \in Known(s)
    BY <1>1, <2>6 DEF CompsSound
  <2>9. Of(s, m) \in Cids
    BY <1>1, Fields
  <2> QED
    BY <2>6, <2>7, <2>8, <2>9
<1>6. ASSUME NEW m \in A PROVE m \in In(s, i) /\ Of(s, m) \in P
  <2> DEFINE j == Tx(s, Owner(s, m))
  <2>1. j \in Channels /\ m \in In(s, j) /\ Of(s, m) \in Peers
    BY <1>5
  <2>2. j = i /\ Of(s, m) \in Known(s)
    BY <1>1, <2>1 DEF OwnersSound
  <2> QED
    BY <2>1, <2>2, CidsAre
<1>7. ASSUME NEW m \in B PROVE Owner(s, m) \in Q
  <2> DEFINE j == Tx(s, Owner(s, m))
  <2>1. j \in Channels /\ m \in In(s, j) /\ Of(s, m) = LOCAL_COMP
    BY <1>5
  <2>2. j # i
    BY <1>1, <2>1, CidsAre DEF OwnersSound
  <2> QED
    BY <1>5, <2>2
<1>8. f \in Injection(A, P)
  <2>1. f \in [A -> P]
    BY <1>6
  <2>2. \A x, y \in A : f[x] = f[y] => x = y
    BY <1>1, <1>6 DEF MembersSound
  <2> HIDE DEF A, P, f
  <2> QED
    BY <2>1, <2>2, Zenon DEF Injection, IsInjective
<1>9. g \in Injection(B, Q)
  <2>1. g \in [B -> Q]
    BY <1>7
  <2>2. ASSUME NEW x \in B, NEW y \in B, g[x] = g[y] PROVE x = y
    <3> DEFINE j == Tx(s, Owner(s, x))
    <3>1. x \in In(s, j) /\ y \in In(s, j) /\ j \in Channels
      BY <1>5, <2>2
    <3>2. Of(s, x) = Of(s, y)
      OBVIOUS
    <3> QED
      BY <1>1, <3>1, <3>2 DEF MembersSound
  <2> HIDE DEF B, Q, g
  <2> QED
    BY <2>1, <2>2, Zenon DEF Injection, IsInjective
<1>10. IsFiniteSet(Q) /\ Cardinality(Q) = l - 1 /\ IsFiniteSet(P) /\ Cardinality(P) = l - 2
  <2>1. IsFiniteSet(Q) /\ Cardinality(Q) = l - 1
    BY <1>3, FS_RemoveElement
  <2>2. p \in Q
    BY <1>2
  <2>3. IsFiniteSet(P) /\ Cardinality(P) = (l - 1) - 1
    <3> HIDE DEF Q, l
    <3>1. P = Q \ {p}
      BY DEF Q
    <3> HIDE DEF P
    <3> QED
      BY <2>1, <2>2, <3>1, FS_RemoveElement
  <2> HIDE DEF l, P, Q
  <2> QED
    BY <1>3, <2>1, <2>3
<1>11. Members = A \cup B /\ A \cap B = {}
  BY <1>5, CidsAre
<1> HIDE DEF A, B, P, Q, f, g, l
<1>12. IsFiniteSet(A) /\ Cardinality(A) <= l - 2 /\ IsFiniteSet(B) /\ Cardinality(B) <= l - 1
  BY <1>8, <1>9, <1>10, FS_Injection
<1>13. Cardinality(Members) = Cardinality(A) + Cardinality(B) - Cardinality(A \cap B)
  BY <1>11, <1>12, FS_Union
<1>14. Cardinality(A \cap B) = 0 /\ Cardinality(A) \in Nat /\ Cardinality(B) \in Nat
  BY <1>11, <1>12, FS_EmptySet, FS_CardinalityType
<1>15. SDT_MAX_MEMBERS <= (l - 2) + (l - 1)
  BY <1>3, <1>4, <1>12, <1>13, <1>14
<1>16. 2 * (l - 1) > SDT_MAX_MEMBERS
  BY <1>3, <1>4, <1>15
<1> QED
  BY <1>16 DEF l

\* What deleting does not touch.
Same(s, t) == t.started = s.started /\ t.died = s.died /\ t.shared = s.shared

\* A member that was added goes again.
LEMMA UndoMember ==
  ASSUME NEW s, OK(s), NEW i, NEW m, m # Nil => i \in Channels
  PROVE  LET t == IF m # Nil THEN sdt_del_member(s, i, m) ELSE s
         IN  OK(t) /\ Same(s, t)
<1>1. CASE m = Nil
  BY <1>1 DEF Same
<1>2. CASE m # Nil
  <2> DEFINE t == sdt_del_member(s, i, m)
  <2>1. OK(t) /\ Less(s, t)
    BY <1>2, DelMemberIs
  <2> HIDE DEF t
  <2>2. OK(t) /\ Same(s, t)
    BY <2>1 DEF Less, Same
  <2> QED
    BY <1>2, <2>2 DEF t
<1> QED
  BY <1>1, <1>2

\* A channel that was added goes again.
LEMMA UndoChannel ==
  ASSUME NEW s, OK(s), NEW c \in Cids, NEW undo
  PROVE  LET t == IF undo THEN sdt_del_channel(s, c) ELSE s
         IN  OK(t) /\ Same(s, t)
<1> DEFINE t == sdt_del_channel(s, c)
<1>1. OK(t) /\ Same(s, t)
  BY DelChannelIs DEF Same
<1> HIDE DEF t
<1>2. OK(s) /\ Same(s, s)
  BY DEF Same
<1> QED
  BY <1>1, <1>2 DEF t

\* A component that was added goes again.
LEMMA UndoComponent ==
  ASSUME NEW s, OK(s), NEW c \in Cids, NEW undo
  PROVE  LET t == IF undo THEN sdt_del_component(s, c) ELSE s
         IN  OK(t) /\ Same(s, t)
<1> DEFINE t == sdt_del_component(s, c)
<1>1. OK(t) /\ Same(s, t)
  BY DelComponentIs DEF Same
<1> HIDE DEF t
<1>2. OK(s) /\ Same(s, s)
  BY DEF Same
<1> QED
  BY <1>1, <1>2 DEF t

\* What a join that fails gives back leaves the rest in order.
LEMMA TxUndoIs ==
  ASSUME NEW s, NEW x, OK(x), NEW p \in Peers, NEW i \in Channels,
         NEW j, NEW fm, NEW lm, lm # Nil => j \in Channels
  PROVE  OK(TxUndo(s, x, p, i, j, fm, lm)) /\ Same(x, TxUndo(s, x, p, i, j, fm, lm))
<1> DEFINE t == TxUndo(s, x, p, i, j, fm, lm)
           a == IF lm # Nil THEN sdt_del_member(x, j, lm) ELSE x
           b == IF s.comp[p].tx_channel = Nil THEN sdt_del_channel(a, p) ELSE a
           c == IF fm # Nil THEN sdt_del_member(b, i, fm) ELSE b
           d == IF Own(s) = Nil THEN sdt_del_channel(c, LOCAL_COMP) ELSE c
<1>1. t = d
  BY Zenon DEF TxUndo
<1>2. p \in Cids /\ LOCAL_COMP \in Cids
  BY CidsAre
<1>3. OK(a) /\ Same(x, a)
  BY UndoMember
<1> HIDE DEF t, a
<1>4. OK(b) /\ Same(a, b)
  BY <1>2, <1>3, UndoChannel
<1> HIDE DEF b
<1>5. OK(c) /\ Same(b, c)
  BY <1>4, UndoMember
<1> HIDE DEF c
<1>6. OK(d) /\ Same(c, d)
  BY <1>2, <1>5, UndoChannel
<1> HIDE DEF d
<1>7. OK(t) /\ Same(x, t)
  BY <1>1, <1>3, <1>4, <1>5, <1>6 DEF Same
<1> QED
  BY <1>7 DEF t

\* The same for what a JOIN of the peer's that fails gives back.
LEMMA RxUndoIs ==
  ASSUME NEW s, NEW x, OK(x), NEW p \in Peers, NEW j, NEW lm, lm # Nil => j \in Channels
  PROVE  OK(RxUndo(s, x, p, j, lm)) /\ Same(x, RxUndo(s, x, p, j, lm))
<1> DEFINE t == RxUndo(s, x, p, j, lm)
           a == IF lm # Nil THEN sdt_del_member(x, j, lm) ELSE x
           b == IF s.comp[p].tx_channel = Nil THEN sdt_del_channel(a, p) ELSE a
           c == IF ~sdt_find_comp_by_cid(s, p) THEN sdt_del_component(b, p) ELSE b
           d == IF Own(s) = Nil THEN sdt_del_channel(c, LOCAL_COMP) ELSE c
<1>1. t = d
  BY Zenon DEF RxUndo
<1>2. p \in Cids /\ LOCAL_COMP \in Cids
  BY CidsAre
<1>3. OK(a) /\ Same(x, a)
  BY UndoMember
<1> HIDE DEF t, a
<1>4. OK(b) /\ Same(a, b)
  BY <1>2, <1>3, UndoChannel
<1> HIDE DEF b
<1>5. OK(c) /\ Same(b, c)
  BY <1>2, <1>4, UndoComponent
<1> HIDE DEF c
<1>6. OK(d) /\ Same(c, d)
  BY <1>2, <1>5, UndoChannel
<1> HIDE DEF d
<1>7. OK(t) /\ Same(x, t)
  BY <1>1, <1>3, <1>4, <1>5, <1>6 DEF Same
<1> QED
  BY <1>7 DEF t

\* A join of ours leaves the records in order however far it comes.
LEMMA TxJoinIs ==
  ASSUME NEW s, OK(s), NEW p \in Peers, NEW number \in ChannelNumbers \cup {0}, NEW built \in BOOLEAN,
         ~s.shared => LOCAL_COMP \in Known(s) /\ p \in Known(s)
  PROVE  OK(TxJoin(s, p, number, built).s) /\ Frame(s, TxJoin(s, p, number, built).s)
<1> DEFINE r == TxJoin(s, p, number, built)
           own == sdt_add_channel(s, LOCAL_COMP, number)
           fm == MemberOf(own.s, own.i, p)
           numbered == Numbered(fm.s, own.i, fm.m)
           copy == sdt_add_channel(numbered, p, 0)
           lm == MemberOf(copy.s, copy.i, LOCAL_COMP)
           newFm == IF fm.s = own.s THEN Nil ELSE fm.m
           newLm == IF lm.s = copy.s THEN Nil ELSE lm.m
           Good(t) == OK(t) /\ Frame(s, t)
<1>1. /\ own.i = Nil => r.s = s
      /\ own.i # Nil /\ fm.m = Nil => r.s = TxUndo(s, fm.s, p, own.i, Nil, Nil, Nil)
      /\ own.i # Nil /\ fm.m # Nil /\ copy.i = Nil => r.s = TxUndo(s, copy.s, p, own.i, Nil, newFm, Nil)
      /\ own.i # Nil /\ fm.m # Nil /\ copy.i # Nil /\ (lm.m = Nil \/ ~built) =>
           r.s = TxUndo(s, lm.s, p, own.i, copy.i, newFm, newLm)
      /\ own.i # Nil /\ fm.m # Nil /\ copy.i # Nil /\ lm.m # Nil /\ built => r.s = lm.s
  <2> DEFINE A == own.i = Nil
             B == own.i # Nil /\ fm.m = Nil
             C == own.i # Nil /\ fm.m # Nil /\ copy.i = Nil
             D == own.i # Nil /\ fm.m # Nil /\ copy.i # Nil /\ (lm.m = Nil \/ ~built)
             E == own.i # Nil /\ fm.m # Nil /\ copy.i # Nil /\ lm.m # Nil /\ built
             ra == [ok |-> FALSE, s |-> s]
             rb == [ok |-> FALSE, s |-> TxUndo(s, fm.s, p, own.i, Nil, Nil, Nil)]
             rc == [ok |-> FALSE, s |-> TxUndo(s, copy.s, p, own.i, Nil, newFm, Nil)]
             rd == [ok |-> FALSE, s |-> TxUndo(s, lm.s, p, own.i, copy.i, newFm, newLm)]
             re == [ok |-> TRUE, s |-> lm.s]
  <2>1. r = CASE A -> ra [] B -> rb [] C -> rc [] D -> rd [] E -> re
    BY Zenon DEF TxJoin
  <2>2. /\ A => ~B /\ ~C /\ ~D /\ ~E
        /\ B => ~A /\ ~C /\ ~D /\ ~E
        /\ C => ~A /\ ~B /\ ~D /\ ~E
        /\ D => ~A /\ ~B /\ ~C /\ ~E
        /\ E => ~A /\ ~B /\ ~C /\ ~D
    <3> HIDE DEF own, fm, copy, lm
    <3> QED
      OBVIOUS
  <2> HIDE DEF own, fm, copy, lm, newFm, newLm, r
  <2>3. /\ ra.s = s /\ rb.s = TxUndo(s, fm.s, p, own.i, Nil, Nil, Nil)
        /\ rc.s = TxUndo(s, copy.s, p, own.i, Nil, newFm, Nil)
        /\ rd.s = TxUndo(s, lm.s, p, own.i, copy.i, newFm, newLm) /\ re.s = lm.s
    OBVIOUS
  <2> HIDE DEF A, B, C, D, E, ra, rb, rc, rd, re
  <2>4. (A => r = ra) /\ (B => r = rb) /\ (C => r = rc) /\ (D => r = rd) /\ (E => r = re)
    BY <2>1, <2>2
  <2> QED
    BY <2>3, <2>4 DEF A, B, C, D, E
<1> HIDE DEF r
<1>2. p \in Cids /\ LOCAL_COMP \in Cids /\ p # LOCAL_COMP /\ Nil \notin Channels /\ Nil \notin Members
  BY CidsAre, RecordConstants
<1>3. Frame(s, s)
  BY Fields DEF OK, Frame
<1>4. /\ OK(own.s) /\ Frame(s, own.s) /\ own.s.allcomps = s.allcomps
      /\ own.i \in Channels \cup {Nil} /\ Tx(own.s, LOCAL_COMP) = own.i
  BY <1>2, AddChannelIs
<1> HIDE DEF own
<1>5. CASE own.i = Nil
  BY <1>1, <1>3, <1>5 DEF r
<1>6. CASE own.i # Nil
  <2>1. own.i \in Channels
    BY <1>4, <1>6
  <2>2. ~own.s.shared => LOCAL_COMP \in Known(own.s) /\ p \in Known(own.s)
    BY <1>4 DEF Frame, Known
  <2>3. ~own.s.shared => MayJoin(own.s, own.i, p)
    BY <1>4, <2>2 DEF MayJoin
  <2>4. /\ OK(fm.s) /\ Frame(own.s, fm.s) /\ fm.s.shared = own.s.shared
        /\ fm.s.allcomps = own.s.allcomps /\ fm.s.comp = own.s.comp
        /\ fm.m # Nil => fm.m \in Members /\ fm.m \in In(fm.s, own.i)
    BY <1>2, <1>4, <2>1, <2>3, MemberOfIs
  <2>5. Frame(s, fm.s)
    BY <1>4, <2>4 DEF Frame
  <2> HIDE DEF fm
  <2>6. CASE fm.m = Nil
    <3> DEFINE t == TxUndo(s, fm.s, p, own.i, Nil, Nil, Nil)
    <3>1. OK(t) /\ Same(fm.s, t)
      BY <2>1, <2>4, TxUndoIs
    <3> HIDE DEF t
    <3>2. r.s = t
      BY <1>1, <1>6, <2>6 DEF t
    <3>3. OK(t) /\ Frame(s, t)
      BY <2>5, <3>1 DEF Same, Frame
    <3> QED
      BY <3>2, <3>3 DEF r
  <2>7. CASE fm.m # Nil
    <3>1. /\ OK(numbered) /\ Frame(fm.s, numbered) /\ numbered.shared = fm.s.shared
          /\ numbered.allcomps = fm.s.allcomps /\ numbered.comp = fm.s.comp
      BY <2>1, <2>4, <2>7, NumberedIs
    <3> HIDE DEF numbered
    <3>2. ~numbered.shared => LOCAL_COMP \in Known(numbered) /\ p \in Known(numbered)
      BY <2>2, <2>4, <3>1 DEF Known
    <3>3. /\ OK(copy.s) /\ Frame(numbered, copy.s) /\ copy.s.allcomps = numbered.allcomps
          /\ copy.i \in Channels \cup {Nil} /\ Tx(copy.s, p) = copy.i
      BY <1>2, <3>1, <3>2, AddChannelIs
    <3> HIDE DEF copy
    <3>4. Frame(s, copy.s)
      BY <2>5, <3>1, <3>3 DEF Frame
    <3>5. CASE copy.i = Nil
      <4> DEFINE t == TxUndo(s, copy.s, p, own.i, Nil, newFm, Nil)
      <4>1. OK(t) /\ Same(copy.s, t)
        BY <2>1, <3>3, TxUndoIs
      <4> HIDE DEF t
      <4>2. r.s = t
        BY <1>1, <1>6, <2>7, <3>5 DEF t
      <4>3. OK(t) /\ Frame(s, t)
        BY <3>4, <4>1 DEF Same, Frame
      <4> QED
        BY <4>2, <4>3 DEF r
    <3>6. CASE copy.i # Nil
      <4>1. copy.i \in Channels
        BY <3>3, <3>6
      <4>2. ~copy.s.shared => MayJoin(copy.s, copy.i, LOCAL_COMP)
        BY <3>2, <3>3 DEF MayJoin, Frame, Known
      <4>3. OK(lm.s) /\ Frame(copy.s, lm.s)
        BY <1>2, <3>3, <4>1, <4>2, MemberOfIs
      <4> HIDE DEF lm
      <4>4. Frame(s, lm.s)
        BY <3>4, <4>3 DEF Frame
      <4>5. CASE lm.m = Nil \/ ~built
        <5> DEFINE t == TxUndo(s, lm.s, p, own.i, copy.i, newFm, newLm)
        <5>1. OK(t) /\ Same(lm.s, t)
          <6> HIDE DEF newFm, newLm
          <6> QED
            BY <2>1, <4>1, <4>3, TxUndoIs
        <5> HIDE DEF t
        <5>2. r.s = t
          BY <1>1, <1>6, <2>7, <3>6, <4>5 DEF t
        <5>3. OK(t) /\ Frame(s, t)
          BY <4>4, <5>1 DEF Same, Frame
        <5> QED
          BY <5>2, <5>3 DEF r
      <4>6. CASE lm.m # Nil /\ built
        <5>1. r.s = lm.s
          BY <1>1, <1>6, <2>7, <3>6, <4>6
        <5> QED
          BY <4>3, <4>4, <5>1 DEF r
      <4> QED
        BY <4>5, <4>6
    <3> QED
      BY <3>5, <3>6
  <2> QED
    BY <2>6, <2>7
<1> QED
  BY <1>5, <1>6

\* What a call may do that has no member record to give: it dies when there are too few.
Enough(t) == ~t.shared /\ t.died = "short" => 2 * (Len(t.allcomps) - 1) > SDT_MAX_MEMBERS

\* A JOIN of a peer's leaves the records in order however far it comes, and there are
\* too few of them when it dies.
LEMMA RxJoinIs ==
  ASSUME NEW s, OK(s), s.died = "no", NEW p \in Peers, NEW number \in ChannelNumbers \cup {0},
         NEW m \in [chan : ChannelNumbers, mid : {1}, reciprocal : BOOLEAN], NEW outcome \in Outcomes,
         ~s.shared => LOCAL_COMP \in Known(s)
  PROVE  LET t == RxJoin(s, p, m, number, outcome)
         IN  OK(t) /\ t.started = s.started /\ Enough(t)
<1> DEFINE t == RxJoin(s, p, m, number, outcome)
           own == sdt_add_channel(s, LOCAL_COMP, number)
           known == IF sdt_find_comp_by_cid(s, p) THEN own.s ELSE AddComponent(own.s, p, "cbJOIN")
           other == s.comp[p].tx_channel # Nil
                    /\ known.chan[s.comp[p].tx_channel].number \notin {0, m.chan}
           copy == sdt_add_channel(known, p, m.chan)
           lm == MemberOf(copy.s, copy.i, LOCAL_COMP)
           newLm == IF lm.s = copy.s THEN Nil ELSE lm.m
           y == [lm.s EXCEPT !.mem[lm.m].mid = m.mid]
           fm == MemberOf(y, own.i, p)
           x == [fm.s EXCEPT !.chan[copy.i].number = m.chan]
           built == outcome = "done" /\ m.chan > 0
           join == TxJoin(x, p, 0, built)
           early == own.i # Nil /\ (~sdt_find_comp_by_cid(known, p) \/ other \/ copy.i = Nil)
           late == outcome = "no listener" \/ lm.m = Nil
                   \/ (newLm = Nil /\ copy.s.chan[copy.i].number # 0 /\ lm.s.mem[lm.m].mid # m.mid)
           rest == IF late THEN RxUndo(s, copy.s, p, copy.i, Nil)
                   ELSE IF fm.m = Nil THEN [fm.s EXCEPT !.died = "short"]
                   ELSE IF outcome = "no answer" THEN RxUndo(s, x, p, copy.i, newLm)
                   ELSE IF m.reciprocal THEN x
                   ELSE IF join.ok THEN join.s
                   ELSE RxUndo(s, join.s, p, copy.i, newLm)
           Good(v) == OK(v) /\ v.started = s.started /\ Enough(v)
<1>1. /\ own.i = Nil => t = s
      /\ early => t = RxUndo(s, known, p, Nil, Nil)
      /\ own.i # Nil /\ ~early => t = rest
  <2>1. t = CASE own.i = Nil -> s [] early -> RxUndo(s, known, p, Nil, Nil) [] OTHER -> rest
    BY Zenon DEF RxJoin
  <2> DEFINE A == own.i = Nil
  <2>2. early => ~A
    <3> HIDE DEF own, known, other, copy
    <3> QED
      OBVIOUS
  <2> HIDE DEF t, own, known, copy, rest, early
  <2> QED
    BY <2>1, <2>2
<1> HIDE DEF t
<1>2. p \in Cids /\ LOCAL_COMP \in Cids /\ p # LOCAL_COMP /\ Nil \notin Channels /\ Nil \notin Members
      /\ m.chan \in ChannelNumbers \cup {0} /\ m.mid \in Mids /\ m.reciprocal \in BOOLEAN
      /\ 0 \in ChannelNumbers \cup {0} /\ built \in BOOLEAN
  BY CidsAre, RecordConstants
<1>3. \A v : OK(v) /\ v.started = s.started /\ v.died = "no" => Good(v)
  BY DEF Enough
<1>4. /\ OK(own.s) /\ Frame(s, own.s) /\ own.s.allcomps = s.allcomps
      /\ own.i \in Channels \cup {Nil} /\ Tx(own.s, LOCAL_COMP) = own.i
  BY <1>2, AddChannelIs
<1>5. /\ ~own.s.shared => LOCAL_COMP \in Known(own.s)
      /\ Known(own.s) = Known(s)
  <2> HIDE DEF own
  <2> QED
    BY <1>4 DEF Frame, Known
<1>6. /\ OK(known) /\ Frame(own.s, known)
      /\ ~known.shared => LOCAL_COMP \in Known(known)
      /\ known.comp[LOCAL_COMP] = own.s.comp[LOCAL_COMP]
  <2>1. CASE sdt_find_comp_by_cid(s, p)
    <3>1. known = own.s
      BY <2>1
    <3> HIDE DEF known, own
    <3>2. Frame(own.s, own.s)
      BY <1>4, Fields DEF OK, Frame
    <3> QED
      BY <1>4, <1>5, <3>1, <3>2
  <2>2. CASE ~sdt_find_comp_by_cid(s, p)
    <3> DEFINE v == AddComponent(own.s, p, "cbJOIN")
    <3>1. known = v
      BY <2>2
    <3> HIDE DEF known, own
    <3>2. p \notin Known(own.s)
      BY <1>5, <2>2, FoundIsKnown
    <3>3. /\ OK(v) /\ v.started = own.s.started /\ v.died = own.s.died /\ v.shared = own.s.shared
          /\ \A d \in Known(own.s) : d \in Known(v)
          /\ \A d \in Cids : d # p => v.comp[d] = own.s.comp[d]
      BY <1>2, <1>4, <3>2, AddComponentIs
    <3> HIDE DEF v
    <3>4. v.shared \in BOOLEAN
      BY <3>3, Fields DEF OK
    <3> QED
      BY <1>2, <1>5, <3>1, <3>3, <3>4 DEF Frame
  <2> QED
    BY <2>1, <2>2
<1>7. known.started = s.started /\ known.died = "no" /\ Tx(known, LOCAL_COMP) = own.i
  <2> HIDE DEF known, own
  <2> QED
    BY <1>4, <1>6 DEF Frame, Tx
<1> HIDE DEF Good
<1>8. CASE own.i = Nil
  <2>1. Good(s)
    BY <1>3
  <2> QED
    BY <1>1, <1>8, <2>1 DEF t, Good
<1>9. CASE early
  <2> DEFINE v == RxUndo(s, known, p, Nil, Nil)
  <2>1. OK(v) /\ Same(known, v)
    <3> HIDE DEF known
    <3> QED
      BY <1>6, RxUndoIs
  <2>2. t = v
    BY <1>1, <1>9
  <2> HIDE DEF v, known, early
  <2>3. Good(v)
    BY <1>3, <1>7, <2>1 DEF Same
  <2> QED
    BY <2>2, <2>3 DEF t, Good
<1>10. CASE own.i # Nil /\ ~early
  <2>1. own.i \in Channels /\ p \in Known(known) /\ copy.i # Nil /\ t = rest
    <3>1. sdt_find_comp_by_cid(known, p) /\ copy.i # Nil
      <4> HIDE DEF own, known, copy
      <4> QED
        BY <1>10
    <3>2. t = rest
      <4> HIDE DEF own, early, rest
      <4> QED
        BY <1>1, <1>10
    <3> HIDE DEF own, known, copy, rest
    <3> QED
      BY <1>4, <1>10, <3>1, <3>2, FoundIsKnown
  <2> HIDE DEF early, own, known, other
  <2>2. /\ OK(copy.s) /\ Frame(known, copy.s) /\ copy.s.allcomps = known.allcomps
        /\ copy.i \in Channels \cup {Nil} /\ Tx(copy.s, p) = copy.i
        /\ \A d \in Cids : d # p => copy.s.comp[d] = known.comp[d]
    <3> DEFINE n == m.chan
    <3>1. n \in ChannelNumbers \cup {0} /\ copy = sdt_add_channel(known, p, n) /\ p \in Cids
          /\ OK(known) /\ (~known.shared => p \in Known(known))
      BY <1>2, <1>6, <2>1
    <3> HIDE DEF n, known, copy
    <3> QED
      BY <3>1, AddChannelIs
  <2> HIDE DEF copy
  <2>3. /\ copy.i \in Channels /\ copy.s.started = s.started /\ copy.s.died = "no"
        /\ Tx(copy.s, LOCAL_COMP) = own.i
        /\ ~copy.s.shared => LOCAL_COMP \in Known(copy.s) /\ p \in Known(copy.s)
    BY <1>2, <1>6, <1>7, <2>1, <2>2 DEF Frame, Known, Tx
  <2>4. ~copy.s.shared => MayJoin(copy.s, copy.i, LOCAL_COMP)
    BY <2>2, <2>3 DEF MayJoin
  <2>5. /\ OK(lm.s) /\ Frame(copy.s, lm.s) /\ lm.s.shared = copy.s.shared
        /\ lm.s.allcomps = copy.s.allcomps /\ lm.s.comp = copy.s.comp
        /\ lm.m # Nil => lm.m \in Members /\ lm.m \in In(lm.s, copy.i)
    BY <1>2, <2>2, <2>3, <2>4, MemberOfIs
  <2> HIDE DEF lm
  <2>6. CASE late
    <3> DEFINE v == RxUndo(s, copy.s, p, copy.i, Nil)
    <3>1. OK(v) /\ Same(copy.s, v)
      BY <2>2, RxUndoIs
    <3>2. t = v
      BY <2>1, <2>6
    <3> HIDE DEF v
    <3>3. Good(v)
      BY <1>3, <2>3, <3>1 DEF Same
    <3> QED
      BY <3>2, <3>3 DEF t, Good
  <2>7. CASE ~late
    <3> DEFINE short == [fm.s EXCEPT !.died = "short"]
               undoX == RxUndo(s, x, p, copy.i, newLm)
               undoJ == RxUndo(s, join.s, p, copy.i, newLm)
    <3>1. /\ lm.m # Nil
          /\ t = IF fm.m = Nil THEN short ELSE IF outcome = "no answer" THEN undoX
                 ELSE IF m.reciprocal THEN x ELSE IF join.ok THEN join.s ELSE undoJ
      BY <2>1, <2>7
    <3> HIDE DEF late, rest, newLm
    <3>2. lm.m \in Members /\ lm.m \in In(lm.s, copy.i)
      BY <2>5, <3>1
    <3>3. ASSUME ~lm.s.shared
          PROVE  \A j \in Channels : \A n \in In(lm.s, j) :
                   lm.m \in In(lm.s, j) /\ n # lm.m => lm.s.mem[n].mid # m.mid
      <4> SUFFICES ASSUME NEW j \in Channels, NEW n \in In(lm.s, j), lm.m \in In(lm.s, j) PROVE n = lm.m
        OBVIOUS
      <4>1. j = copy.i
        BY <2>3, <2>5, <3>2, <3>3 DEF OK, Sound, MembersSound
      <4>2. copy.i = Tx(lm.s, p)
        BY <2>2, <2>5 DEF Tx
      <4> QED
        BY <2>3, <2>5, <3>2, <3>3, <4>1, <4>2, OnlyMember
    <3>4. /\ OK(y) /\ Frame(lm.s, y) /\ y.shared = lm.s.shared
          /\ y.allcomps = lm.s.allcomps /\ y.comp = lm.s.comp
      BY <1>2, <2>5, <3>2, <3>3, MidIs
    <3> HIDE DEF y
    <3>5. /\ y.started = s.started /\ y.died = "no"
          /\ ~y.shared => LOCAL_COMP \in Known(y) /\ p \in Known(y)
          /\ Tx(y, LOCAL_COMP) = own.i /\ Tx(y, p) = copy.i
      BY <2>2, <2>3, <2>5, <3>4 DEF Frame, Known, Tx
    <3>6. ~y.shared => MayJoin(y, own.i, p)
      BY <3>5 DEF MayJoin
    <3>7. /\ OK(fm.s) /\ Frame(y, fm.s) /\ fm.s.shared = y.shared
          /\ fm.s.allcomps = y.allcomps /\ fm.s.comp = y.comp
          /\ fm.m = Nil => /\ fm.s = y /\ \A n \in In(y, own.i) : Of(y, n) # p
                           /\ \A n \in Members : Of(y, n) # "none"
      BY <1>2, <2>1, <3>4, <3>6, MemberOfIs
    <3> HIDE DEF fm
    <3>8. CASE fm.m = Nil
      <4>1. ~y.shared => 2 * (Len(y.allcomps) - 1) > SDT_MAX_MEMBERS
        BY <2>1, <3>4, <3>5, <3>7, <3>8, TooFewRecords
      <4>2. fm.s = y /\ y \in StateType
        BY <3>4, <3>7, <3>8 DEF OK
      <4>3. /\ short \in StateType /\ short.started = y.started /\ short.died = "short"
            /\ short.shared = y.shared /\ short.allcomps = y.allcomps /\ short.comp = y.comp
            /\ short.chan = y.chan /\ short.mem = y.mem
        BY <4>2 DEF StateType
      <4>4. t = short
        BY <3>1, <3>8
      <4> HIDE DEF short
      <4>5. ~y.shared => Sound(short)
        <5>1. ASSUME ~y.shared PROVE Sound(short)
          <6>1. CompsSound(y) /\ MembersSound(y) /\ OwnersSound(y)
            BY <3>4, <5>1 DEF OK, Sound
          <6>2. /\ Known(short) = Known(y) /\ \A c : Tx(short, c) = Tx(y, c)
                /\ (\A i : In(short, i) = In(y, i)) /\ \A n : Of(short, n) = Of(y, n)
            BY <4>3 DEF Known, Tx, In, Of
          <6>3. CompsSound(short)
            BY <4>3, <6>1, <6>2 DEF CompsSound
          <6>4. MembersSound(short)
            BY <4>3, <6>1, <6>2 DEF MembersSound
          <6>5. OwnersSound(short)
            BY <4>3, <6>1, <6>2 DEF OwnersSound
          <6> QED
            BY <6>3, <6>4, <6>5 DEF Sound
        <5> QED
          BY <5>1
      <4>6. OK(short)
        BY <4>3, <4>5 DEF OK
      <4>7. Enough(short)
        BY <4>1, <4>3 DEF Enough
      <4> QED
        BY <3>5, <4>3, <4>4, <4>6, <4>7 DEF t
    <3>9. CASE fm.m # Nil
      <4>1. ~fm.s.shared => \E c \in Cids : Tx(fm.s, c) = copy.i
        BY <1>2, <3>5, <3>7 DEF Tx
      <4>2. /\ OK(x) /\ Frame(fm.s, x) /\ x.shared = fm.s.shared /\ x.allcomps = fm.s.allcomps
        <5>1. 0 \in Mids
          BY RecordConstants
        <5> QED
          BY <1>2, <2>3, <3>7, <4>1, <5>1, ChannelNumberIs
      <4> HIDE DEF x
      <4>3. /\ x.started = s.started /\ x.died = "no"
            /\ ~x.shared => LOCAL_COMP \in Known(x) /\ p \in Known(x)
        BY <3>5, <3>7, <4>2 DEF Frame, Known
      <4>4. OK(join.s) /\ Frame(x, join.s)
        BY <1>2, <4>2, <4>3, TxJoinIs
      <4> HIDE DEF join
      <4>5. OK(undoX) /\ Same(x, undoX) /\ OK(undoJ) /\ Same(join.s, undoJ)
        BY <2>3, <4>2, <4>4, RxUndoIs
      <4> HIDE DEF undoX, undoJ
      <4>6. Good(x) /\ Good(join.s) /\ Good(undoX) /\ Good(undoJ)
        <5>1. Good(x)
          BY <1>3, <4>2, <4>3
        <5>2. join.s.started = s.started /\ join.s.died = "no"
          BY <4>3, <4>4 DEF Frame
        <5>3. undoX.started = s.started /\ undoX.died = "no" /\ undoJ.started = s.started /\ undoJ.died = "no"
          BY <4>3, <4>5, <5>2 DEF Same
        <5> QED
          BY <1>3, <4>4, <4>5, <5>1, <5>2, <5>3
      <4>7. t = x \/ t = join.s \/ t = undoX \/ t = undoJ
        BY <3>1, <3>9
      <4> QED
        BY <4>6, <4>7 DEF t, Good
    <3> QED
      BY <3>8, <3>9
  <2> QED
    BY <2>6, <2>7
<1> QED
  BY <1>8, <1>9, <1>10

-----------------------------------------------------------------------------
(***************************************************************************)
(* A tick, and the end.                                                    *)
(***************************************************************************)
\* What a tick does to one component.
Visit(s, c, gone) ==
  LET i == s.comp[c].tx_channel
      a == IF i = Nil THEN s ELSE DelMembers(s, i, gone)
      b == IF i # Nil /\ a.chan[i].members = <<>> THEN sdt_del_channel(a, c) ELSE a
  IN  IF b.comp[c].tx_channel = Nil /\ b.comp[c].created_by = "cbJOIN"
      THEN sdt_del_component(b, c) ELSE b

\* It leaves the records in order.
LEMMA VisitIs ==
  ASSUME NEW s, OK(s), NEW c \in Cids, NEW gone
  PROVE  OK(Visit(s, c, gone)) /\ Same(s, Visit(s, c, gone))
<1> DEFINE t == Visit(s, c, gone)
           i == Tx(s, c)
           a == IF i = Nil THEN s ELSE DelMembers(s, i, gone)
           e == i # Nil /\ a.chan[i].members = <<>>
           b == IF e THEN sdt_del_channel(a, c) ELSE a
           r == b.comp[c].tx_channel = Nil /\ b.comp[c].created_by = "cbJOIN"
           d == IF r THEN sdt_del_component(b, c) ELSE b
<1>1. t = d
  BY Zenon DEF Visit, Tx
<1>2. i \in Channels \cup {Nil}
  BY Fields DEF OK
<1>3. OK(a) /\ Same(s, a)
  <2>1. CASE i = Nil
    BY <2>1 DEF Same
  <2>2. CASE i # Nil
    <3> DEFINE v == DelMembers(s, i, gone)
    <3>1. OK(v) /\ Less(s, v)
      BY <1>2, <2>2, DelMembersIs
    <3>2. a = v
      BY <2>2
    <3> HIDE DEF a, v
    <3> QED
      BY <3>1, <3>2 DEF Less, Same
  <2> QED
    BY <2>1, <2>2
<1> HIDE DEF t, a, e
<1>4. OK(b) /\ Same(a, b)
  BY <1>3, UndoChannel
<1> HIDE DEF b, r
<1>5. OK(d) /\ Same(b, d)
  BY <1>4, UndoComponent
<1> HIDE DEF d
<1>6. OK(t) /\ Same(s, t)
  BY <1>1, <1>3, <1>4, <1>5 DEF Same
<1> QED
  BY <1>6 DEF t

\* What a tick does to all components.
Ticked(s, gone) ==
  LET visit(x, c) == Visit(x, c, gone)
  IN  InTurn(s, s.allcomps, visit)

\* It leaves the records in order.
LEMMA TickedIs ==
  ASSUME NEW s, OK(s), NEW gone
  PROVE  OK(Ticked(s, gone)) /\ Same(s, Ticked(s, gone))
<1> DEFINE t == Ticked(s, gone)
           list == s.allcomps
           l == Len(list)
           D == {x \in StateType : OK(x)}
           round(x, k) == Visit(x, list[k], gone)
           step == [k \in 1 .. l |-> [x \in D |-> round(x, k)]]
           IsDone(f) == f = [k \in 0 .. l |-> IF k = 0 THEN s ELSE round(f[k - 1], k)]
           done == CHOOSE f : IsDone(f)
<1>1. s \in D /\ list \in Seq(Cids)
  BY Fields DEF OK
<1>2. l \in Nat /\ DOMAIN list = 1 .. l /\ \A k \in 1 .. l : list[k] \in Cids
  BY <1>1
<1>3. t = done[l]
  BY Zenon DEF Ticked, InTurn
<1> HIDE DEF t, list
<1>4. \A k \in 1 .. l : \A x \in D : round(x, k) \in D /\ Same(x, round(x, k))
  BY <1>2, VisitIs DEF OK
<1>5. step \in [1 .. l -> [D -> D]]
  BY <1>4
<1>6. \A k \in 1 .. l : \A x \in D : step[k][x] = round(x, k)
  OBVIOUS
<1> HIDE DEF l, D, round, step
<1>7. \A k \in 0 .. l : k # 0 => k \in 1 .. l /\ k - 1 \in 0 .. l
  BY <1>2
<1>8. \E f : IsDone(f)
  <2>1. PICK f \in [0 .. l -> D] : IsLoop(step, s, l, f)
    BY <1>1, <1>2, <1>5, LoopExists
  <2>2. \A k \in 0 .. l : k # 0 => step[k][f[k - 1]] = round(f[k - 1], k)
    BY <1>6, <1>7, <2>1
  <2>3. f = [k \in 0 .. l |-> IF k = 0 THEN s ELSE step[k][f[k - 1]]]
    BY <2>1, Zenon DEF IsLoop
  <2>4. IsDone(f)
    BY <2>2, <2>3
  <2> QED
    BY <2>4
<1>9. IsDone(done)
  BY <1>8, Zenon
<1> HIDE DEF done
<1>10. done[0] = s /\ \A k \in 1 .. l : done[k] = round(done[k - 1], k)
  <2>1. \A k \in 1 .. l : k \in 0 .. l /\ k # 0
    BY <1>2
  <2>2. 0 \in 0 .. l
    BY <1>2
  <2> QED
    BY <1>9, <2>1, <2>2
<1> HIDE DEF IsDone
<1> DEFINE T == {k \in 0 .. l : done[k] \in D /\ Same(s, done[k])}
<1>11. 0 \in T
  <2>1. Same(s, s) /\ 0 \in 0 .. l
    BY <1>2 DEF Same
  <2> QED
    BY <1>1, <1>10, <2>1
<1>12. ASSUME NEW k \in 1 .. l, k - 1 \in T PROVE k \in T
  <2>1. done[k] = round(done[k - 1], k) /\ k \in 0 .. l
    BY <1>2, <1>10
  <2>2. done[k - 1] \in D /\ Same(s, done[k - 1])
    BY <1>12
  <2>3. done[k] \in D /\ Same(done[k - 1], done[k])
    BY <1>4, <2>1, <2>2
  <2>4. Same(s, done[k])
    BY <2>2, <2>3 DEF Same
  <2> QED
    BY <2>1, <2>3, <2>4
<1> HIDE DEF T
<1>13. l \in T
  <2>1. \A k \in 0 .. l : k \in T
    BY <1>2, <1>11, <1>12, Throughout
  <2> QED
    BY <1>2, <2>1
<1>14. OK(t) /\ Same(s, t)
  BY <1>3, <1>13 DEF T, D
<1> QED
  BY <1>14 DEF t

\* All components go, and no channel is left.
LEMMA AllGone ==
  ASSUME NEW s, OK(s)
  PROVE  LET t == InTurn(s, s.allcomps, sdt_del_component)
         IN  OK(t) /\ Same(s, t) /\ (~s.shared => \A c \in Cids : Tx(t, c) = Nil)
<1> DEFINE t == InTurn(s, s.allcomps, sdt_del_component)
           list == s.allcomps
           l == Len(list)
           D == {x \in StateType : OK(x)}
           round(x, k) == sdt_del_component(x, list[k])
           step == [k \in 1 .. l |-> [x \in D |-> round(x, k)]]
           IsDone(f) == f = [k \in 0 .. l |-> IF k = 0 THEN s ELSE round(f[k - 1], k)]
           done == CHOOSE f : IsDone(f)
<1>1. s \in D /\ list \in Seq(Cids)
  BY Fields DEF OK
<1>2. l \in Nat /\ DOMAIN list = 1 .. l /\ \A k \in 1 .. l : list[k] \in Cids
  BY <1>1
<1>3. t = done[l]
  BY Zenon DEF InTurn
<1>4. \A d \in Known(s) : \E j \in 1 .. l : list[j] = d
  BY <1>2 DEF Known, Elems
<1> HIDE DEF t, list
<1>5. \A k \in 1 .. l : \A x \in D :
        /\ round(x, k) \in D /\ Same(x, round(x, k))
        /\ \A d : d \in Known(round(x, k)) <=> d \in Known(x) /\ d # list[k]
  BY <1>2, DelComponentIs DEF OK, Same
<1>6. step \in [1 .. l -> [D -> D]]
  BY <1>5
<1>7. \A k \in 1 .. l : \A x \in D : step[k][x] = round(x, k)
  OBVIOUS
<1> HIDE DEF l, D, round, step
<1>8. \A k \in 0 .. l : k # 0 => k \in 1 .. l /\ k - 1 \in 0 .. l
  BY <1>2
<1>9. \E f : IsDone(f)
  <2>1. PICK f \in [0 .. l -> D] : IsLoop(step, s, l, f)
    BY <1>1, <1>2, <1>6, LoopExists
  <2>2. \A k \in 0 .. l : k # 0 => step[k][f[k - 1]] = round(f[k - 1], k)
    BY <1>7, <1>8, <2>1
  <2>3. f = [k \in 0 .. l |-> IF k = 0 THEN s ELSE step[k][f[k - 1]]]
    BY <2>1, Zenon DEF IsLoop
  <2>4. IsDone(f)
    BY <2>2, <2>3
  <2> QED
    BY <2>4
<1>10. IsDone(done)
  BY <1>9, Zenon
<1> HIDE DEF done
<1>11. done[0] = s /\ \A k \in 1 .. l : done[k] = round(done[k - 1], k)
  <2>1. \A k \in 1 .. l : k \in 0 .. l /\ k # 0
    BY <1>2
  <2>2. 0 \in 0 .. l
    BY <1>2
  <2> QED
    BY <1>10, <2>1, <2>2
<1> HIDE DEF IsDone
<1> DEFINE Good(k) == /\ done[k] \in D /\ Same(s, done[k])
                      /\ \A d \in Known(done[k]) : \E j \in 1 .. l : j > k /\ list[j] = d
           T == {k \in 0 .. l : Good(k)}
<1>12. 0 \in T
  <2>1. Same(s, s) /\ 0 \in 0 .. l /\ \A j \in 1 .. l : j > 0
    BY <1>2 DEF Same
  <2> QED
    BY <1>1, <1>4, <1>11, <2>1
<1>13. ASSUME NEW k \in 1 .. l, k - 1 \in T PROVE k \in T
  <2> DEFINE x == done[k - 1]
             y == done[k]
  <2>1. y = round(x, k) /\ k \in 0 .. l
    BY <1>2, <1>11
  <2>2. x \in D /\ Same(s, x) /\ \A d \in Known(x) : \E j \in 1 .. l : j > k - 1 /\ list[j] = d
    BY <1>13
  <2>3. y \in D /\ Same(x, y) /\ \A d : d \in Known(y) <=> d \in Known(x) /\ d # list[k]
    <3> HIDE DEF x, y
    <3> QED
      BY <1>5, <2>1, <2>2
  <2>4. Same(s, y)
    BY <2>2, <2>3 DEF Same
  <2>5. \A j \in 1 .. l : j > k - 1 /\ j # k => j > k
    BY <1>2
  <2> HIDE DEF x, y
  <2>6. ASSUME NEW d \in Known(y) PROVE \E j \in 1 .. l : j > k /\ list[j] = d
    <3>1. PICK j \in 1 .. l : j > k - 1 /\ list[j] = d
      BY <2>2, <2>3
    <3>2. j # k
      BY <2>3, <3>1
    <3> QED
      BY <2>5, <3>1, <3>2
  <2> QED
    BY <2>1, <2>3, <2>4, <2>6 DEF y
<1> HIDE DEF T, Good
<1>14. l \in T
  <2>1. \A k \in 0 .. l : k \in T
    BY <1>2, <1>12, <1>13, Throughout
  <2> QED
    BY <1>2, <2>1
<1>15. OK(t) /\ Same(s, t) /\ \A d : d \notin Known(t)
  <2>1. \A j \in 1 .. l : ~(j > l)
    BY <1>2
  <2> QED
    BY <1>3, <1>14, <2>1 DEF T, Good, D
<1>16. ASSUME ~s.shared PROVE \A c \in Cids : Tx(t, c) = Nil
  BY <1>15, <1>16 DEF OK, Sound, CompsSound, Same
<1> QED
  BY <1>15, <1>16 DEF t

-----------------------------------------------------------------------------
(***************************************************************************)
(* The invariant of the records.                                           *)
(***************************************************************************)
\* The records are in order as long as none in use was handed out and our component was
\* not added twice; a peer's channel is known to SDT that is started.
RecordsInv ==
  /\ sdt \in StateType
  /\ ~sdt.started => \A p \in Peers : Tx(sdt, p) = Nil
  /\ sdt.died # "added twice" => OK(sdt)
  /\ sdt.died # "added twice" => Enough(sdt)

\* At first all is free.
LEMMA RecordsInitially ==
  ASSUME RecordsInit
  PROVE  RecordsInv
<1>1. <<>> \in Seq(Cids) /\ <<>> \in Seq(Members)
  OBVIOUS
<1>2. /\ sdt.started = TRUE /\ sdt.died = "no" /\ sdt.shared = FALSE /\ sdt.allcomps = <<>>
      /\ sdt.comp = [c \in Cids |-> Unknown]
      /\ sdt.chan = [i \in Channels |-> FreeChannel] /\ sdt.mem = [m \in Members |-> FreeMember]
  BY DEF RecordsInit
<1>3. sdt \in StateType
  <2>1. /\ [c \in Cids |-> Unknown] \in [Cids -> CompType]
        /\ [i \in Channels |-> FreeChannel] \in [Channels -> ChanType]
        /\ [m \in Members |-> FreeMember] \in [Members -> MemType]
    BY FreeTypes
  <2> DEFINE co == [c \in Cids |-> Unknown]
             ch == [i \in Channels |-> FreeChannel]
             me == [m \in Members |-> FreeMember]
  <2>2. sdt = [started |-> TRUE, died |-> "no", shared |-> FALSE, allcomps |-> <<>>,
               comp |-> co, chan |-> ch, mem |-> me]
    BY DEF RecordsInit
  <2>3. co \in [Cids -> CompType] /\ ch \in [Channels -> ChanType] /\ me \in [Members -> MemType]
    BY <2>1
  <2> HIDE DEF co, ch, me
  <2> QED
    BY <1>1, <2>2, <2>3 DEF StateType
<1>4. /\ \A c \in Cids : Tx(sdt, c) = Nil /\ sdt.comp[c].created_by = "cbNONE"
      /\ \A i \in Channels : sdt.chan[i].number = 0 /\ sdt.chan[i].members = <<>>
      /\ \A m \in Members : Of(sdt, m) = "none"
  BY <1>2, FreeTypes DEF Tx, Of
<1>5. /\ Known(sdt) = {} /\ NoDup(<<>>) /\ \A i \in Channels : In(sdt, i) = {}
  <2>1. Elems(<<>>) = {} /\ NoDup(<<>>)
    BY DEF Elems, NoDup
  <2> QED
    BY <1>2, <1>4, <2>1 DEF Known, In
<1>6. CompsSound(sdt)
  BY <1>2, <1>4, <1>5 DEF CompsSound
<1>7. MembersSound(sdt)
  BY <1>4, <1>5 DEF MembersSound
<1>8. OwnersSound(sdt)
  BY <1>4, <1>5 DEF OwnersSound
<1> QED
  BY <1>2, <1>3, <1>6, <1>7, <1>8 DEF RecordsInv, OK, Sound, Enough

\* Every step leaves it so.
LEMMA RecordsStep ==
  ASSUME RecordsInv, [RecordsNext]_sdt
  PROVE  RecordsInv'
<1>1. CASE UNCHANGED sdt
  <2> DEFINE Inv(v) == /\ v \in StateType
                       /\ ~v.started => \A p \in Peers : Tx(v, p) = Nil
                       /\ v.died # "added twice" => OK(v)
                       /\ v.died # "added twice" => Enough(v)
  <2>1. Inv(sdt)
    BY DEF RecordsInv
  <2>2. RecordsInv' <=> Inv(sdt')
    BY DEF RecordsInv, OK, Sound, CompsSound, MembersSound, OwnersSound, Enough, Known, In, Tx, Of
  <2> HIDE DEF Inv
  <2> QED
    BY <1>1, <2>1, <2>2
<1>2. ASSUME RecordsNext PROVE RecordsInv'
  <2> DEFINE s == sdt
             t == sdt'
             Inv(v) == /\ v \in StateType
                       /\ ~v.started => \A p \in Peers : Tx(v, p) = Nil
                       /\ v.died # "added twice" => OK(v)
                       /\ v.died # "added twice" => Enough(v)
  <2>1. s \in StateType /\ s.died = "no" /\ ~s.shared /\ OK(s)
        /\ (~s.started => \A p \in Peers : Tx(s, p) = Nil)
    BY <1>2 DEF RecordsInv, RecordsNext
  <2>2. RecordsInv' <=> Inv(t)
    BY DEF RecordsInv, OK, Sound, CompsSound, MembersSound, OwnersSound, Enough, Known, In, Tx, Of
  <2>3. \A v : OK(v) /\ Enough(v) /\ (~v.started => \A p \in Peers : Tx(v, p) = Nil) => Inv(v)
    BY DEF OK
  <2>4. \A v : v.died = "no" => Enough(v)
    BY DEF Enough
  <2>5. \A p \in Peers : p \in Cids /\ p # LOCAL_COMP
    BY CidsAre
  <2>6. LOCAL_COMP \in Cids
    BY CidsAre
  <2>7. ASSUME AddLocal PROVE Inv(t)
    <3>1. CASE sdt_find_comp_by_cid(s, LOCAL_COMP)
      <4> DEFINE u == comp_release(s, LOCAL_COMP)
      <4>1. t = [u EXCEPT !.died = "added twice"]
        BY <2>7, <3>1, Zenon DEF AddLocal
      <4>2. u \in StateType /\ u.started = s.started /\ \A d \in Cids : d # LOCAL_COMP => u.comp[d] = s.comp[d]
        BY <2>1, <2>6, ReleaseIs
      <4> HIDE DEF u
      <4>3. /\ t \in StateType /\ t.died = "added twice" /\ t.started = u.started /\ t.comp = u.comp
        BY <4>1, <4>2 DEF StateType
      <4> HIDE DEF t
      <4>4. ~t.started => \A p \in Peers : Tx(t, p) = Nil
        BY <2>1, <2>5, <4>2, <4>3 DEF Tx
      <4> QED
        BY <4>3, <4>4
    <3>2. CASE ~sdt_find_comp_by_cid(s, LOCAL_COMP)
      <4> DEFINE u == AddComponent(s, LOCAL_COMP, "cbAPP")
      <4>1. t = u
        BY <2>7, <3>2, Zenon DEF AddLocal
      <4>2. LOCAL_COMP \notin Known(s)
        BY <3>2, FoundIsKnown
      <4>3. OK(u) /\ u.started = s.started /\ u.died = s.died /\ \A d \in Cids : Tx(u, d) = Tx(s, d)
        BY <2>1, <2>6, <4>2, AddComponentIs
      <4> HIDE DEF u, t, Inv
      <4> QED
        BY <2>1, <2>3, <2>4, <2>5, <4>1, <4>3
    <3> QED
      BY <3>1, <3>2
  <2>8. ASSUME NEW p \in Peers, Discovered(p) PROVE Inv(t)
    <3> DEFINE u == AddComponent(s, p, "cbDISC")
    <3>1. t = u /\ p \notin Known(s)
      BY <2>8, FoundIsKnown DEF Discovered
    <3>2. OK(u) /\ u.started = s.started /\ u.died = s.died /\ \A d \in Cids : Tx(u, d) = Tx(s, d)
      BY <2>1, <2>5, <3>1, AddComponentIs
    <3> HIDE DEF u, t, Inv
    <3> QED
      BY <2>1, <2>3, <2>4, <2>5, <3>1, <3>2
  <2>9. \A number \in Draws : number \in ChannelNumbers \cup {0}
    BY DEF Draws
  <2>10. ASSUME NEW p \in Peers, NEW number \in Draws, NEW built \in BOOLEAN, JoinPeer(p, number, built)
         PROVE  Inv(t)
    <3> DEFINE u == TxJoin(s, p, number, built).s
    <3>1. t = u /\ s.started /\ LOCAL_COMP \in Known(s) /\ p \in Known(s)
      BY <2>10, FoundIsKnown DEF JoinPeer
    <3>2. OK(u) /\ Frame(s, u)
      BY <2>1, <2>9, <3>1, TxJoinIs
    <3> HIDE DEF u, t, Inv
    <3>3. u.started /\ u.died = "no"
      BY <2>1, <3>1, <3>2 DEF Frame
    <3> QED
      BY <2>3, <2>4, <3>1, <3>2, <3>3
  <2>11. ASSUME NEW p \in Peers, NEW number \in Draws,
                NEW m \in [chan : ChannelNumbers, mid : {1}, reciprocal : BOOLEAN],
                NEW outcome \in Outcomes, JoinedBy(p, m, number, outcome)
         PROVE  Inv(t)
    <3> DEFINE u == RxJoin(s, p, m, number, outcome)
    <3>1. t = u /\ s.started /\ LOCAL_COMP \in Known(s)
      BY <2>11, FoundIsKnown DEF JoinedBy
    <3>2. OK(u) /\ u.started = s.started /\ Enough(u)
      BY <2>1, <2>9, <3>1, RxJoinIs
    <3> HIDE DEF u, t, Inv
    <3> QED
      BY <2>3, <3>1, <3>2
  <2>12. ASSUME NEW gone, TickRecords(gone) PROVE Inv(t)
    <3> DEFINE u == Ticked(s, gone)
    <3>1. t = u /\ s.started
      BY <2>12, Zenon DEF TickRecords, Ticked, Visit
    <3>2. OK(u) /\ Same(s, u)
      BY <2>1, TickedIs
    <3> HIDE DEF u, t, Inv
    <3>3. u.started /\ u.died = "no"
      BY <2>1, <3>1, <3>2 DEF Same
    <3> QED
      BY <2>3, <2>4, <3>1, <3>2, <3>3
  <2>13. ASSUME ShutdownRecords PROVE Inv(t)
    <3> DEFINE u == InTurn(s, s.allcomps, sdt_del_component)
    <3>1. t = [u EXCEPT !.started = FALSE]
      BY <2>13, Zenon DEF ShutdownRecords
    <3>2. OK(u) /\ Same(s, u) /\ \A c \in Cids : Tx(u, c) = Nil
      BY <2>1, AllGone
    <3> HIDE DEF u
    <3>3. /\ t \in StateType /\ t.died = u.died /\ t.shared = u.shared /\ t.allcomps = u.allcomps
          /\ t.comp = u.comp /\ t.chan = u.chan /\ t.mem = u.mem
      BY <3>1, <3>2 DEF OK, StateType
    <3>4. OK(t)
      <4>1. t.shared = u.shared
        BY <3>3
      <4>2. /\ \A j \in Channels : t.chan[j].members = u.chan[j].members
            /\ \A j \in Channels : t.chan[j].number = u.chan[j].number
            /\ \A n \in Members : Of(t, n) = Of(u, n)
        BY <3>3 DEF Of
      <4>3. ~u.shared => \A j \in Channels : \A x, y \in In(u, j) : x # y =>
              (t.mem[x].mid # 0 => t.mem[x].mid # t.mem[y].mid)
        BY <3>2, <3>3 DEF OK, Sound, MembersSound
      <4> HIDE DEF t
      <4> QED
        BY <3>2, <3>3, <4>2, <4>3, SameMembers
    <3> HIDE DEF t, Inv
    <3>5. t.died = "no"
      BY <2>1, <3>2, <3>3 DEF Same
    <3>6. \A p \in Peers : Tx(t, p) = Nil
      BY <2>5, <3>2, <3>3 DEF Tx
    <3> QED
      BY <2>3, <2>4, <3>4, <3>5, <3>6
  <2>14. ASSUME StartupRecords PROVE Inv(t)
    <3>1. t = [s EXCEPT !.started = TRUE]
      BY <2>14 DEF StartupRecords
    <3>2. /\ t \in StateType /\ t.started = TRUE /\ t.died = s.died /\ t.shared = s.shared
          /\ t.allcomps = s.allcomps
          /\ t.comp = s.comp /\ t.chan = s.chan /\ t.mem = s.mem
      BY <2>1, <3>1 DEF StateType
    <3>3. OK(t)
      <4>1. /\ \A j \in Channels : t.chan[j].members = s.chan[j].members
            /\ \A j \in Channels : t.chan[j].number = s.chan[j].number
            /\ \A n \in Members : Of(t, n) = Of(s, n)
        BY <3>2 DEF Of
      <4>2. ~s.shared => \A j \in Channels : \A x, y \in In(s, j) : x # y =>
              (t.mem[x].mid # 0 => t.mem[x].mid # t.mem[y].mid)
        BY <2>1, <3>2 DEF OK, Sound, MembersSound
      <4> HIDE DEF s, t
      <4> QED
        BY <2>1, <3>2, <4>1, <4>2, SameMembers
    <3> HIDE DEF s, t, Inv
    <3> QED
      BY <2>1, <2>3, <2>4, <3>2, <3>3
  <2> HIDE DEF t, Inv
  <2>15. Inv(t)
    BY <1>2, <2>7, <2>8, <2>10, <2>11, <2>12, <2>13, <2>14 DEF RecordsNext
  <2> QED
    BY <2>2, <2>15
<1> QED
  BY <1>1, <1>2

\* The invariant of the records.
LEMMA RecordsAlways == RecordsSpec => []RecordsInv
BY RecordsInitially, RecordsStep, PTL DEF RecordsSpec

\* The records, the pools and the lists have their types, and SDT that is not started knows
\* no peer's channel, for any peers and pools of any size (RecTypeOK).
THEOREM RecordsTypes == RecordsSpec => []RecTypeOK
<1>1. RecordsInv => RecTypeOK
  <2> SUFFICES ASSUME RecordsInv PROVE RecTypeOK
    OBVIOUS
  <2>1. sdt \in StateType
    BY DEF RecordsInv
  <2>2. /\ sdt.died \in {"no", "short", "added twice"} /\ sdt.allcomps \in Seq(Cids)
        /\ sdt.comp \in [Cids -> CompType] /\ sdt.mem \in [Members -> MemType]
        /\ \A i \in Channels : sdt.chan[i] \in ChanType
    BY <2>1, Fields
  <2>3. ~sdt.started => \A p \in Peers : sdt.comp[p].tx_channel = Nil
    BY DEF RecordsInv, Tx
  <2> QED
    BY <2>2, <2>3 DEF RecTypeOK, CompType, ChanType, MemType, Mids
<1> QED
  BY <1>1, RecordsAlways, PTL

\* The components and the pools agree, for any peers and pools of any size, whatever joins
\* fail half way, go and are shut down (RecordsSound; sdtmem.c, component.c).
THEOREM RecordsAreSound == RecordsSpec => []RecordsSound
<1>1. RecordsInv => RecordsSound
  <2> SUFFICES ASSUME RecordsInv, ~sdt.shared, sdt.died # "added twice" PROVE
        LET owned == {sdt.comp[c].tx_channel : c \in Cids} \ {Nil}
            known == {sdt.allcomps[n] : n \in DOMAIN sdt.allcomps}
        IN  /\ Cardinality(known) = Len(sdt.allcomps)
            /\ known = {c \in Cids : sdt.comp[c].created_by # "cbNONE"}
            /\ \A c, d \in Cids : c # d /\ sdt.comp[c].tx_channel = sdt.comp[d].tx_channel =>
                 sdt.comp[c].tx_channel = Nil
            /\ \A c \in Cids \ known : sdt.comp[c].tx_channel = Nil
            /\ \A i \in Channels \ owned : sdt.chan[i].number = 0 /\ sdt.chan[i].members = <<>>
            /\ \A i \in owned : Cardinality(Listed(i)) = Len(sdt.chan[i].members)
            /\ \A i, j \in owned : i # j => Listed(i) \cap Listed(j) = {}
            /\ {m \in Members : sdt.mem[m].component # "none"} = UNION {Listed(i) : i \in owned}
            /\ \A i \in owned : \A m, n \in Listed(i) : m # n =>
                 /\ sdt.mem[m].component # sdt.mem[n].component
                 /\ sdt.mem[m].mid # 0 => sdt.mem[m].mid # sdt.mem[n].mid
            /\ \A i \in owned : \A m \in Listed(i) : sdt.mem[m].component \in known
    <3>1. RecordsInv /\ ~sdt.shared => (sdt.died = "short" => 2 * (Len(sdt.allcomps) - 1) > SDT_MAX_MEMBERS)
      BY DEF RecordsInv, Enough
    <3> QED
      BY <3>1, Zenon DEF RecordsSound
  <2> DEFINE owned == {sdt.comp[c].tx_channel : c \in Cids} \ {Nil}
             known == {sdt.allcomps[n] : n \in DOMAIN sdt.allcomps}
  <2>1. sdt \in StateType /\ CompsSound(sdt) /\ MembersSound(sdt) /\ OwnersSound(sdt)
    BY DEF RecordsInv, OK, Sound
  <2>2. known = Known(sdt) /\ \A i : Listed(i) = In(sdt, i)
    BY DEF Known, In, Elems, Listed
  <2>3. \A i : i \in owned <=> i # Nil /\ \E c \in Cids : Tx(sdt, c) = i
    BY DEF Tx
  <2> HIDE DEF owned, known
  <2>4. \A i \in owned : i \in Channels
    <3> SUFFICES ASSUME NEW i \in owned PROVE i \in Channels
      OBVIOUS
    <3>1. PICK c \in Cids : Tx(sdt, c) = i /\ i # Nil
      BY <2>3
    <3>2. Tx(sdt, c) \in Channels \cup {Nil}
      BY <2>1, Fields
    <3> QED
      BY <3>1, <3>2
  <2>5. Cardinality(known) = Len(sdt.allcomps)
    <3>1. sdt.allcomps \in Seq(Cids) /\ NoDup(sdt.allcomps)
      BY <2>1, Fields DEF CompsSound
    <3> QED
      BY <2>2, <3>1, AsLongAsMany DEF Known
  <2>6. known = {c \in Cids : sdt.comp[c].created_by # "cbNONE"}
    BY <2>1, <2>2, Fields DEF CompsSound
  <2>7. \A c, d \in Cids : c # d /\ sdt.comp[c].tx_channel = sdt.comp[d].tx_channel =>
          sdt.comp[c].tx_channel = Nil
    BY <2>1 DEF CompsSound, Tx
  <2>8. \A c \in Cids \ known : sdt.comp[c].tx_channel = Nil
    BY <2>1, <2>2 DEF CompsSound, Tx
  <2>9. \A i \in Channels \ owned : sdt.chan[i].number = 0 /\ sdt.chan[i].members = <<>>
    <3>1. \A i \in Channels : i # Nil
      BY RecordConstants
    <3> QED
      BY <2>1, <2>3, <3>1 DEF OwnersSound
  <2>10. \A i \in owned : Cardinality(Listed(i)) = Len(sdt.chan[i].members)
    <3> SUFFICES ASSUME NEW i \in owned PROVE Cardinality(Listed(i)) = Len(sdt.chan[i].members)
      OBVIOUS
    <3>1. sdt.chan[i].members \in Seq(Members) /\ NoDup(sdt.chan[i].members)
      BY <2>1, <2>4, InMembers DEF MembersSound
    <3> QED
      BY <2>2, <3>1, AsLongAsMany DEF In
  <2>11. \A i, j \in owned : i # j => Listed(i) \cap Listed(j) = {}
    BY <2>1, <2>2, <2>4 DEF MembersSound
  <2>12. {m \in Members : sdt.mem[m].component # "none"} = UNION {Listed(i) : i \in owned}
    <3>1. ASSUME NEW m \in Members, sdt.mem[m].component # "none" PROVE \E i \in owned : m \in Listed(i)
      <4>1. PICK i \in Channels : m \in In(sdt, i)
        BY <2>1, <3>1 DEF MembersSound, Of
      <4>2. sdt.chan[i].members # <<>>
        BY <4>1, NothingListed DEF In
      <4>3. i \in owned
        BY <2>9, <4>2
      <4> QED
        BY <2>2, <4>1, <4>3
    <3>2. ASSUME NEW i \in owned, NEW m \in Listed(i) PROVE m \in Members /\ sdt.mem[m].component # "none"
      <4>1. m \in In(sdt, i) /\ i \in Channels
        BY <2>2, <2>4
      <4>2. m \in Members
        BY <2>1, <4>1, InMembers
      <4> QED
        BY <2>1, <4>1, <4>2 DEF MembersSound, Of
    <3> QED
      BY <3>1, <3>2
  <2>13. \A i \in owned : \A m, n \in Listed(i) : m # n =>
           /\ sdt.mem[m].component # sdt.mem[n].component
           /\ sdt.mem[m].mid # 0 => sdt.mem[m].mid # sdt.mem[n].mid
    <3> SUFFICES ASSUME NEW i \in owned, NEW m \in In(sdt, i), NEW n \in In(sdt, i), m # n
                 PROVE  /\ sdt.mem[m].component # sdt.mem[n].component
                        /\ sdt.mem[m].mid # 0 => sdt.mem[m].mid # sdt.mem[n].mid
      BY <2>2
    <3> QED
      BY <2>1, <2>4 DEF MembersSound, Of
  <2>14. \A i \in owned : \A m \in Listed(i) : sdt.mem[m].component \in known
    BY <2>1, <2>2, <2>4 DEF OwnersSound, Of
  <2> QED
    BY <2>5, <2>6, <2>7, <2>8, <2>9, <2>10, <2>11, <2>12, <2>13, <2>14 DEF owned, known
<1> QED
  BY <1>1, RecordsAlways, PTL

=============================================================================
