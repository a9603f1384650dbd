--------------------------- MODULE TxBuffersProofs ---------------------------
(***************************************************************************)
(* Theorems about the transmit buffers and the list of resend records, for *)
(* pools of any size: types, each buffer in use has one holder, the list   *)
(* of records ends and holds what it should, and who wants to send finds a *)
(* buffer.                                                                 *)
(***************************************************************************)
EXTENDS TxBuffers, LinkedListProofs

\* What a record and a sender are.
RecordType == [buf : Buffers \cup {None}, next : Records \cup {None}]
SenderType == [pc : {"idle", "found", "sending"}, buf : Buffers \cup {0}]

\* The buffers that threads are sending.
Sending == {sender[t].buf : t \in {x \in Threads : sender[x].pc = "sending"}}

\* A thread that is not idle has a buffer.
SendersHave == \A t \in Threads : sender[t].pc # "idle" => sender[t].buf # 0

\* A buffer in use has one holder: a record, a thread that sends it, or nobody any
\* more, since DMP let go of it.
OneHolder ==
  /\ \A b \in Buffers : usage[b] # 0 <=> b \in Held \cup Sending \cup lost
  /\ \A r, q \in Records : record[r].buf # None /\ record[r].buf = record[q].buf => r = q
  /\ \A t, o \in Threads :
       sender[t].pc = "sending" /\ sender[o].pc = "sending" /\ sender[t].buf = sender[o].buf
         => t = o
  /\ Held \cap Sending = {} /\ Held \cap lost = {} /\ Sending \cap lost = {}

\* The list may have become a loop: SDT was shut down with records in it, or the
\* pool is of one record, which sdt_save_buffer then puts before itself.
MayLoop == left \/ SDT_MAX_RESENDS = 1

\* From head the records lead round, and never to an end.
RingOf(rec, head) == \E S \in SUBSET Records : head \in S /\ \A r \in S : rec[r].next \in S

\* q is the list from head, and it ends; every record that holds a buffer is on it,
\* and unless records were left in it, no other.
Holds(rec, head, q, some_left) ==
  /\ WholeList(Links(rec), head, q)
  /\ \A r \in Records : rec[r].buf # None => \E i \in 1 .. Len(q) : q[i] = r
  /\ ~some_left => \A i \in 1 .. Len(q) : rec[q[i]].buf # None

ListHolds ==
  /\ Holds(record, resends, RecordList, left) \/ (MayLoop /\ RingOf(record, resends))
  /\ ~MayLoop => died = "no"

\* The inductive invariant.
TxIInv == TxTypeOK /\ SendersHave /\ (~raced => OneHolder) /\ ListHolds

-----------------------------------------------------------------------------
\* The pools are not empty.
LEMMA PoolsNotEmpty ==
  /\ MAX_TXBUFS \in Nat /\ MAX_TXBUFS > 0 /\ 1 \in Buffers
  /\ SDT_MAX_RESENDS \in Nat /\ SDT_MAX_RESENDS > 0 /\ 1 \in Records
  /\ IsFiniteSet(Records) /\ Cardinality(Records) = SDT_MAX_RESENDS
  /\ IsFiniteSet(Buffers) /\ Cardinality(Buffers) = MAX_TXBUFS
  /\ None \notin Records /\ None \notin Buffers
<1>1. /\ MAX_TXBUFS \in Nat /\ MAX_TXBUFS > 0 /\ SDT_MAX_RESENDS \in Nat /\ SDT_MAX_RESENDS > 0
  BY BuffersAssumption
<1>2. \A n \in Nat : n > 0 => IsFiniteSet(1 .. n) /\ Cardinality(1 .. n) = n
  <2> SUFFICES ASSUME NEW n \in Nat, n > 0
               PROVE  IsFiniteSet(1 .. n) /\ Cardinality(1 .. n) = n
    OBVIOUS
  <2>1. IsFiniteSet(1 .. n) /\ Cardinality(1 .. n) = IF 1 > n THEN 0 ELSE n - 1 + 1
    BY FS_Interval
  <2> QED
    BY <2>1
<1> QED
  BY <1>1, <1>2 DEF Records, Buffers, None

\* The records are a pool, each of which leads where it says.
LEMMA LinksPool ==
  ASSUME NEW rec \in [Records -> RecordType]
  PROVE  /\ Pool(Records, Links(rec))
         /\ DOMAIN Links(rec) = Records
         /\ \A r \in Records : Links(rec)[r] = rec[r].next
<1>1. \A r \in Records : rec[r].next \in Records \cup {0}
  BY DEF RecordType, None
<1> QED
  BY <1>1, PoolsNotEmpty DEF Pool, Links, None

\* q is the list of records from head: each record once, each leading to the next.
IsList(rec, head, q) ==
  /\ q \in Seq(Records) /\ Len(q) \in Nat /\ Len(q) <= SDT_MAX_RESENDS
  /\ \A i \in 1 .. Len(q) : q[i] \in Records
  /\ \A i, j \in 1 .. Len(q) : q[i] = q[j] => i = j
  /\ \A i \in 1 .. Len(q) - 1 : rec[q[i]].next = q[i + 1]
  /\ q = <<>> <=> head = None
  /\ q # <<>> => q[1] = head /\ rec[q[Len(q)]].next = None
  /\ Walk(Links(rec), head) = q /\ ~Endless(Links(rec), head)

\* What Holds says of the list is that it is one.
LEMMA HoldsIs ==
  ASSUME NEW rec \in [Records -> RecordType], NEW head \in Records \cup {None},
         NEW q, NEW some_left, Holds(rec, head, q, some_left)
  PROVE  IsList(rec, head, q)
<1>1. Pool(Records, Links(rec)) /\ DOMAIN Links(rec) = Records
      /\ \A r \in Records : Links(rec)[r] = rec[r].next
  BY LinksPool
<1>2. WholeList(Links(rec), head, q)
  BY DEF Holds
<1>3. Walk(Links(rec), head) = q /\ ~Endless(Links(rec), head)
  BY <1>1, <1>2, ListIsWalk DEF None
<1>4. /\ \A i, j \in 1 .. Len(q) : q[i] = q[j] => i = j
      /\ Len(q) <= SDT_MAX_RESENDS
  BY <1>1, <1>2, NoSlotTwice, PoolsNotEmpty
<1>5. q \in Seq(Records) /\ Len(q) \in Nat /\ \A i \in 1 .. Len(q) : q[i] \in Records
  BY <1>1, <1>2 DEF WholeList, Chained
<1>6. \A i \in 1 .. Len(q) - 1 : rec[q[i]].next = q[i + 1]
  <2>1. \A i \in 1 .. Len(q) - 1 : Links(rec)[q[i]] = q[i + 1] /\ i \in 1 .. Len(q)
    BY <1>2, <1>5 DEF WholeList, Chained
  <2> QED
    BY <2>1, <1>1, <1>5
<1>7. q # <<>> => Len(q) \in 1 .. Len(q) /\ 1 \in 1 .. Len(q)
  BY <1>5
<1>8. q # <<>> => q[1] = head /\ rec[q[Len(q)]].next = None
  BY <1>1, <1>2, <1>5, <1>7 DEF WholeList, None
<1>9. q = <<>> <=> head = None
  <2>1. q = <<>> => head = None
    BY <1>2 DEF WholeList, None
  <2>2. q # <<>> => head # None
    BY <1>5, <1>7, <1>8, PoolsNotEmpty
  <2> QED
    BY <2>1, <2>2
<1> QED
  BY <1>3, <1>4, <1>5, <1>6, <1>8, <1>9 DEF IsList

\* A list that is one is the list.
LEMMA ListHasIt ==
  ASSUME NEW rec \in [Records -> RecordType], NEW head \in Records \cup {None},
         NEW q, NEW some_left, Holds(rec, head, q, some_left)
  PROVE  Holds(rec, head, Walk(Links(rec), head), some_left)
<1>1. IsList(rec, head, q)
  BY HoldsIs
<1> QED
  BY <1>1 DEF IsList

\* Records that lead round are a loop.
LEMMA RingLoops ==
  ASSUME NEW rec \in [Records -> RecordType], NEW head, RingOf(rec, head)
  PROVE  Endless(Links(rec), head) /\ head \in Records
<1>1. Pool(Records, Links(rec)) /\ \A r \in Records : Links(rec)[r] = rec[r].next
  BY LinksPool
<1>2. PICK S \in SUBSET Records : head \in S /\ \A r \in S : rec[r].next \in S
  BY DEF RingOf
<1>3. \A r \in S : Links(rec)[r] \in S
  BY <1>1, <1>2
<1> QED
  BY <1>1, <1>2, <1>3, ClosedIsEndless

-----------------------------------------------------------------------------
(***************************************************************************)
(* What becomes of the list.                                               *)
(***************************************************************************)
\* Record r gets buffer b and is put before the list from head.
Put(rec, head, r, b) == [rec EXCEPT ![r] = [buf |-> b, next |-> head]]

\* p is the beginning of q, k long.
Start(p, q, k) == Len(p) = k /\ \A i \in 1 .. k : p[i] = q[i]

\* A record that is put before a list on which it is not.
LEMMA PutBefore ==
  ASSUME NEW rec \in [Records -> RecordType], NEW head \in Records \cup {None},
         NEW q, NEW some_left, Holds(rec, head, q, some_left),
         NEW r \in Records, \A i \in 1 .. Len(q) : q[i] # r, NEW b \in Buffers
  PROVE  Holds(Put(rec, head, r, b), r, <<r>> \o q, some_left)
<1> DEFINE rec2 == Put(rec, head, r, b)
<1>0. IsList(rec, head, q)
  BY HoldsIs
<1>1. /\ q \in Seq(Records) /\ Len(q) \in Nat /\ \A i \in 1 .. Len(q) : q[i] \in Records
  BY <1>0 DEF IsList
<1>2. rec2 \in [Records -> RecordType]
  BY DEF RecordType, Put
<1>3. /\ rec2[r].next = head /\ rec2[r].buf = b /\ b # None
      /\ \A x \in Records : x # r => rec2[x] = rec[x]
  BY PoolsNotEmpty DEF Put
<1> HIDE DEF rec2
<1>4. /\ Pool(Records, Links(rec)) /\ \A x \in Records : Links(rec)[x] = rec[x].next
      /\ Pool(Records, Links(rec2)) /\ \A x \in Records : Links(rec2)[x] = rec2[x].next
  BY <1>2, LinksPool
<1> DEFINE p == <<r>> \o q
<1>5. /\ Len(p) = Len(q) + 1 /\ p[1] = r
      /\ \A i \in 1 .. Len(q) : p[i + 1] = q[i]
      /\ \A i \in 2 .. Len(q) + 1 : p[i] = q[i - 1]
  BY <1>1, SlotBefore
<1>6. WholeList(Links(rec2), r, p)
  <2>1. \A i \in 1 .. Len(q) : Links(rec2)[q[i]] = Links(rec)[q[i]]
    BY <1>1, <1>3, <1>4
  <2>2. Links(rec2)[r] = head /\ WholeList(Links(rec), head, q)
    BY <1>3, <1>4 DEF Holds
  <2> QED
    <3> DEFINE n1 == Links(rec)
               n2 == Links(rec2)
    <3>1. Pool(Records, n1) /\ Pool(Records, n2) /\ WholeList(n1, head, q) /\ n2[r] = head
          /\ \A i \in 1 .. Len(q) : n2[q[i]] = n1[q[i]]
      BY <2>1, <2>2, <1>4
    <3> HIDE DEF n1, n2, p
    <3>2. WholeList(n2, r, <<r>> \o q)
      BY <3>1, ListWithHead
    <3> QED
      BY <3>2 DEF n2, p
<1> HIDE DEF p
<1>7. ASSUME NEW x \in Records, rec2[x].buf # None
      PROVE  \E i \in 1 .. Len(p) : p[i] = x
  <2>1. CASE x = r
    <3>1. 1 \in 1 .. Len(p)
      BY <1>1, <1>5
    <3> QED
      BY <2>1, <3>1, <1>5
  <2>2. CASE x # r
    <3>1. PICK i \in 1 .. Len(q) : q[i] = x
      BY <2>2, <1>3, <1>7 DEF Holds
    <3>2. i + 1 \in 1 .. Len(p) /\ p[i + 1] = x
      BY <3>1, <1>1, <1>5
    <3> QED
      BY <3>2
  <2> QED
    BY <2>1, <2>2
<1>8. ASSUME ~some_left, NEW i \in 1 .. Len(p) PROVE rec2[p[i]].buf # None
  <2>1. CASE i = 1
    BY <2>1, <1>3, <1>5
  <2>2. CASE i # 1
    <3>1. i \in 2 .. Len(q) + 1 /\ i - 1 \in 1 .. Len(q)
      BY <2>2, <1>1, <1>5
    <3>2. p[i] = q[i - 1] /\ q[i - 1] \in Records /\ q[i - 1] # r
      BY <3>1, <1>1, <1>5
    <3>3. rec[q[i - 1]].buf # None
      BY <3>1, <1>8 DEF Holds
    <3> QED
      BY <3>2, <3>3, <1>3
  <2> QED
    BY <2>1, <2>2
<1> QED
  BY <1>6, <1>7, <1>8 DEF Holds, p, rec2

\* A record of the list that is put before it makes it a loop.
LEMMA PutBeforeItself ==
  ASSUME NEW rec \in [Records -> RecordType], NEW head \in Records \cup {None},
         NEW q, NEW some_left, Holds(rec, head, q, some_left),
         NEW k \in 1 .. Len(q), NEW b
  PROVE  RingOf(Put(rec, head, q[k], b), q[k])
<1> DEFINE rec2 == Put(rec, head, q[k], b)
<1>0. IsList(rec, head, q)
  BY HoldsIs
<1>1. /\ q \in Seq(Records) /\ Len(q) \in Nat /\ \A i \in 1 .. Len(q) : q[i] \in Records
      /\ \A i \in 1 .. Len(q) - 1 : rec[q[i]].next = q[i + 1]
      /\ q # <<>> => q[1] = head
  BY <1>0 DEF IsList
<1> DEFINE S == {q[i] : i \in 1 .. k}
<1>2. \A i \in 1 .. k : i \in 1 .. Len(q)
  BY <1>1
<1>3. S \in SUBSET Records /\ q[k] \in S
  BY <1>1, <1>2
<1>4. head \in S
  <2>1. q # <<>> /\ 1 \in 1 .. k
    BY <1>1
  <2> QED
    BY <2>1, <1>1
<1>5. ASSUME NEW r \in S PROVE rec2[r].next \in S
  <2>1. CASE r = q[k]
    BY <2>1, <1>1, <1>4 DEF Put
  <2>2. CASE r # q[k]
    <3>1. PICK i \in 1 .. k : r = q[i]
      BY <1>5
    <3>2. i \in 1 .. Len(q) - 1 /\ i + 1 \in 1 .. k
      BY <2>2, <3>1, <1>1
    <3>3. rec2[r].next = rec[r].next
      BY <2>2, <1>3, <1>5 DEF Put
    <3> QED
      BY <3>1, <3>2, <3>3, <1>1
  <2> QED
    BY <2>1, <2>2
<1> QED
  BY <1>3, <1>5 DEF RingOf

\* A record that is put before a loop, or is of it.
LEMMA PutBeforeRing ==
  ASSUME NEW rec \in [Records -> RecordType], NEW head, RingOf(rec, head),
         NEW r \in Records, NEW b
  PROVE  RingOf(Put(rec, head, r, b), r)
<1> DEFINE rec2 == Put(rec, head, r, b)
<1>1. PICK S \in SUBSET Records : head \in S /\ \A x \in S : rec[x].next \in S
  BY DEF RingOf
<1>2. rec2[r].next = head /\ \A x \in Records : x # r => rec2[x] = rec[x]
  BY DEF Put
<1>3. \A x \in S \cup {r} : rec2[x].next \in S \cup {r}
  BY <1>1, <1>2
<1>4. S \cup {r} \in SUBSET Records
  OBVIOUS
<1> QED
  BY <1>3, <1>4 DEF RingOf


\* The records of list q up to its k-th, where it ends now; the others hold nothing.
CutAt(rec, rec2, q, k) ==
  /\ \A i \in 1 .. k : rec2[q[i]].buf = rec[q[i]].buf
  /\ \A i \in 1 .. k - 1 : rec2[q[i]].next = rec[q[i]].next
  /\ rec2[q[k]].next = None
  /\ \A x \in Records : (\A i \in 1 .. k : q[i] # x) => rec2[x].buf = None

\* A list whose end is cut off after its k-th record.
LEMMA CutEnd ==
  ASSUME NEW rec \in [Records -> RecordType], NEW head \in Records \cup {None},
         NEW q, NEW some_left, Holds(rec, head, q, some_left), NEW k \in 1 .. Len(q),
         NEW rec2 \in [Records -> RecordType], CutAt(rec, rec2, q, k)
  PROVE  Holds(rec2, head, SubSeq(q, 1, k), some_left) /\ Start(SubSeq(q, 1, k), q, k)
<1> USE DEF CutAt
<1>0. IsList(rec, head, q)
  BY HoldsIs
<1>1. /\ q \in Seq(Records) /\ Len(q) \in Nat /\ \A i \in 1 .. Len(q) : q[i] \in Records
      /\ \A i \in 1 .. k : i \in 1 .. Len(q) /\ q[i] \in Records
  BY <1>0 DEF IsList
<1> DEFINE n1 == Links(rec)
           n2 == Links(rec2)
           p == SubSeq(q, 1, k)
<1>2. /\ Pool(Records, n1) /\ \A x \in Records : n1[x] = rec[x].next
      /\ Pool(Records, n2) /\ \A x \in Records : n2[x] = rec2[x].next
  BY LinksPool
<1>3. WholeList(n1, head, q)
  BY DEF Holds
<1> HIDE DEF n1, n2
<1>4. /\ \A i \in 1 .. k - 1 : i \in 1 .. k /\ n2[q[i]] = n1[q[i]]
      /\ n2[q[k]] = 0
  BY <1>1, <1>2 DEF None
<1>5. WholeList(n2, head, p) /\ Len(p) = k /\ \A i \in 1 .. k : p[i] = q[i]
  BY <1>2, <1>3, <1>4, ListCut
<1> HIDE DEF p
<1>6. ASSUME NEW x \in Records, rec2[x].buf # None
      PROVE  \E i \in 1 .. Len(p) : p[i] = x
  <2>1. PICK i \in 1 .. k : q[i] = x
    BY <1>6
  <2> QED
    BY <2>1, <1>5
<1>7. ASSUME ~some_left, NEW i \in 1 .. Len(p) PROVE rec2[p[i]].buf # None
  <2>1. i \in 1 .. k /\ i \in 1 .. Len(q) /\ p[i] = q[i]
    BY <1>1, <1>5
  <2>2. rec[q[i]].buf # None
    BY <2>1, <1>7 DEF Holds
  <2> QED
    BY <2>1, <2>2
<1>8. Holds(rec2, head, p, some_left)
  BY <1>5, <1>6, <1>7 DEF Holds, n2
<1> QED
  BY <1>5, <1>8 DEF p, Start

\* The record at the end of a full list is put before it.
LEMMA LastPutFirst ==
  ASSUME NEW rec \in [Records -> RecordType], NEW head \in Records \cup {None},
         NEW q, NEW some_left, Holds(rec, head, q, some_left),
         \A x \in Records : rec[x].buf # None, NEW b \in Buffers, Len(q) > 1
  PROVE  \E p : Holds(Put([rec EXCEPT ![q[Len(q) - 1]].next = None], head, q[Len(q)], b),
                      q[Len(q)], p, some_left)
<1>0. IsList(rec, head, q)
  BY HoldsIs
<1>1. /\ q \in Seq(Records) /\ Len(q) \in Nat /\ \A i \in 1 .. Len(q) : q[i] \in Records
      /\ \A i, j \in 1 .. Len(q) : q[i] = q[j] => i = j
  BY <1>0 DEF IsList
<1> DEFINE n == Len(q)
           cut == [rec EXCEPT ![q[n - 1]].next = None]
           none == [buf |-> None, next |-> None]
           rec3 == [cut EXCEPT ![q[n]] = none]
<1>2. /\ n \in Nat /\ n - 1 \in 1 .. n /\ n \in 1 .. n /\ n - 1 # n
      /\ n - 1 \in 1 .. Len(q)
  BY <1>1
<1>3. q[n] \in Records /\ q[n - 1] \in Records /\ q[n] # q[n - 1]
  BY <1>1, <1>2
<1>4. cut \in [Records -> RecordType] /\ none \in RecordType
  BY <1>3 DEF RecordType
<1>5. /\ \A x \in Records : x # q[n - 1] => cut[x] = rec[x]
      /\ cut[q[n - 1]].buf = rec[q[n - 1]].buf /\ cut[q[n - 1]].next = None
  BY <1>3 DEF RecordType
<1> HIDE DEF cut
<1>7. rec3 \in [Records -> RecordType]
  BY <1>3, <1>4
<1>8. /\ \A x \in Records : x # q[n] => rec3[x] = cut[x]
      /\ rec3[q[n]].buf = None
  BY <1>3, <1>4
<1>9. Put(cut, head, q[n], b) = Put(rec3, head, q[n], b)
  BY <1>4 DEF Put
<1> HIDE DEF rec3
<1>10. ASSUME NEW i \in 1 .. n - 1
       PROVE  /\ rec3[q[i]].buf = rec[q[i]].buf
              /\ i < n - 1 => rec3[q[i]].next = rec[q[i]].next
  <2>1. i \in 1 .. n /\ i # n /\ q[i] \in Records /\ q[i] # q[n]
    BY <1>1, <1>2
  <2>2. i < n - 1 => q[i] # q[n - 1]
    BY <2>1, <1>1, <1>2
  <2>3. rec3[q[i]] = cut[q[i]]
    BY <2>1, <1>8
  <2> QED
    BY <2>1, <2>2, <2>3, <1>5
<1>11. rec3[q[n - 1]].next = None
  BY <1>3, <1>5, <1>8
<1>12. \A x \in Records : (\A i \in 1 .. n - 1 : q[i] # x) => rec3[x].buf = None
  <2> SUFFICES ASSUME NEW x \in Records, \A i \in 1 .. n - 1 : q[i] # x
               PROVE  rec3[x].buf = None
    OBVIOUS
  <2>1. PICK i \in 1 .. n : q[i] = x
    BY DEF Holds
  <2>2. i = n
    BY <2>1, <1>2
  <2> QED
    BY <2>1, <2>2, <1>8
<1> DEFINE k == n - 1
           s == SubSeq(q, 1, k)
<1>13. k \in 1 .. Len(q) /\ \A i \in 1 .. k - 1 : i \in 1 .. n - 1 /\ i < n - 1
  BY <1>2
<1>14. CutAt(rec, rec3, q, k)
  BY <1>10, <1>11, <1>12, <1>13 DEF CutAt
<1> HIDE DEF k
<1>15. Holds(rec3, head, s, some_left) /\ Start(s, q, k)
  BY <1>7, <1>13, <1>14, CutEnd
<1> HIDE DEF s
<1>16. \A i \in 1 .. Len(s) : s[i] # q[n]
  <2> SUFFICES ASSUME NEW i \in 1 .. k PROVE q[i] # q[n]
    BY <1>15 DEF Start
  <2>1. i \in 1 .. n /\ i # n
    BY <1>2 DEF k
  <2> QED
    BY <2>1, <1>1, <1>2
<1>17. Holds(Put(rec3, head, q[n], b), q[n], <<q[n]>> \o s, some_left)
  BY <1>3, <1>7, <1>15, <1>16, PutBefore
<1> QED
  BY <1>9, <1>17 DEF cut


\* The records after those of gone have expired.
Expired(rec, gone) ==
  [r \in Records |->
     [buf |-> IF r \in gone THEN None ELSE rec[r].buf,
      next |-> IF rec[r].next \in gone /\ r \notin gone THEN None ELSE rec[r].next]]

\* The list then begins nowhere, if its first record has expired.
HeadLeft(head, gone) == IF head \in gone THEN None ELSE head

\* The n oldest records expire.
LEMMA OldestExpire ==
  ASSUME NEW rec \in [Records -> RecordType], NEW head \in Records \cup {None},
         NEW q, NEW some_left, Holds(rec, head, q, some_left),
         NEW n \in Nat, n > 0, n <= Len(q),
         NEW gone, gone = {q[i] : i \in Len(q) - n + 1 .. Len(q)}
  PROVE  \E p : Holds(Expired(rec, gone), HeadLeft(head, gone), p, some_left)
<1>0. IsList(rec, head, q)
  BY HoldsIs
<1>1. /\ q \in Seq(Records) /\ Len(q) \in Nat /\ \A i \in 1 .. Len(q) : q[i] \in Records
      /\ \A i, j \in 1 .. Len(q) : q[i] = q[j] => i = j
      /\ \A i \in 1 .. Len(q) - 1 : rec[q[i]].next = q[i + 1]
      /\ q # <<>> => q[1] = head
  BY <1>0 DEF IsList
<1> DEFINE k == Len(q) - n
           rec2 == Expired(rec, gone)
<1>2. k \in Nat /\ k < Len(q) /\ q # <<>> /\ 1 \in 1 .. Len(q) /\ q[1] = head
  BY <1>1
<1>3. \A i \in 1 .. Len(q) : q[i] \in gone <=> i > k
  <2> SUFFICES ASSUME NEW i \in 1 .. Len(q) PROVE q[i] \in gone <=> i > k
    OBVIOUS
  <2>1. i > k => i \in Len(q) - n + 1 .. Len(q)
    BY <1>1, <1>2
  <2>2. \A j \in Len(q) - n + 1 .. Len(q) : j \in 1 .. Len(q) /\ j > k
    BY <1>1, <1>2
  <2> QED
    BY <2>1, <2>2, <1>1
<1>4. \A x \in gone : \E i \in 1 .. Len(q) : i > k /\ q[i] = x
  <2>1. \A j \in Len(q) - n + 1 .. Len(q) : j \in 1 .. Len(q) /\ j > k
    BY <1>1, <1>2
  <2> QED
    BY <2>1
<1>5. rec2 \in [Records -> RecordType]
  BY DEF Expired, RecordType
<1>6. \A x \in Records :
        /\ rec2[x].buf = IF x \in gone THEN None ELSE rec[x].buf
        /\ rec2[x].next = IF rec[x].next \in gone /\ x \notin gone THEN None ELSE rec[x].next
  BY DEF Expired
<1> HIDE DEF rec2
<1>7. CASE k = 0
  <2>1. head \in gone
    BY <1>2, <1>3, <1>7
  <2>2. \A x \in Records : rec2[x].buf = None
    <3> SUFFICES ASSUME NEW x \in Records, x \notin gone PROVE rec[x].buf = None
      BY <1>6
    <3> SUFFICES ASSUME rec[x].buf # None PROVE FALSE
      OBVIOUS
    <3>1. PICK i \in 1 .. Len(q) : q[i] = x
      BY DEF Holds
    <3> QED
      BY <3>1, <1>3, <1>7
  <2>3. Holds(rec2, None, <<>>, some_left)
    BY <2>2 DEF Holds, WholeList, Chained, None
  <2> QED
    BY <2>1, <2>3 DEF rec2, HeadLeft
<1>8. CASE k > 0
  <2>1. k \in 1 .. Len(q) /\ \A i \in 1 .. k : i \in 1 .. Len(q) /\ ~(i > k)
    BY <1>2, <1>8
  <2>2. \A i \in 1 .. k : q[i] \in Records /\ q[i] \notin gone /\ rec2[q[i]].buf = rec[q[i]].buf
    BY <2>1, <1>1, <1>3, <1>6
  <2>3. \A i \in 1 .. k - 1 : rec2[q[i]].next = rec[q[i]].next
    <3> SUFFICES ASSUME NEW i \in 1 .. k - 1 PROVE rec2[q[i]].next = rec[q[i]].next
      OBVIOUS
    <3>1. i \in 1 .. Len(q) - 1 /\ i + 1 \in 1 .. k /\ i \in 1 .. k
      BY <1>1, <1>2
    <3>2. rec[q[i]].next \notin gone
      BY <3>1, <2>2, <1>1
    <3> QED
      BY <3>1, <3>2, <2>2, <1>6
  <2>4. rec2[q[k]].next = None
    <3>1. k \in 1 .. Len(q) - 1 /\ k + 1 \in 1 .. Len(q) /\ k + 1 > k /\ k \in 1 .. k
      BY <1>1, <1>2, <1>8
    <3>2. rec[q[k]].next \in gone
      BY <3>1, <1>1, <1>3
    <3> QED
      BY <3>1, <3>2, <2>2, <1>6
  <2>5. \A x \in Records : (\A i \in 1 .. k : q[i] # x) => rec2[x].buf = None
    <3> SUFFICES ASSUME NEW x \in Records, \A i \in 1 .. k : q[i] # x, rec2[x].buf # None
                 PROVE  FALSE
      OBVIOUS
    <3>1. x \notin gone /\ rec[x].buf # None
      BY <1>6
    <3>2. PICK i \in 1 .. Len(q) : q[i] = x
      BY <3>1 DEF Holds
    <3>3. ~(i > k)
      BY <3>1, <3>2, <1>3
    <3>4. i \in 1 .. k
      BY <3>3, <1>1, <1>2
    <3> QED
      BY <3>2, <3>4
  <2> HIDE DEF k
  <2>6. Holds(rec2, head, SubSeq(q, 1, k), some_left)
    <3>1. Holds(rec2, head, SubSeq(q, 1, k), some_left) /\ Start(SubSeq(q, 1, k), q, k)
      <4>1. k \in 1 .. Len(q)
        BY <2>1
      <4>2. \A i \in 1 .. k : rec2[q[i]].buf = rec[q[i]].buf
        BY <2>2
      <4>3. CutAt(rec, rec2, q, k)
        BY <4>2, <2>3, <2>4, <2>5 DEF CutAt
      <4> QED
        BY <4>1, <4>3, <1>5, CutEnd
    <3> QED
      BY <3>1
  <2>7. head \notin gone
    BY <2>1, <1>2, <1>3, <1>8
  <2> QED
    BY <2>6, <2>7 DEF rec2, HeadLeft
<1>9. k = 0 \/ k > 0
  BY <1>2
<1> HIDE DEF k
<1> QED
  BY <1>7, <1>8, <1>9

\* The buffers of all records are given up, and the records stay where they are.
LEMMA AllGiveUp ==
  ASSUME NEW rec \in [Records -> RecordType], NEW head \in Records \cup {None},
         NEW q, NEW some_left, Holds(rec, head, q, some_left),
         NEW rec2, rec2 = [r \in Records |-> [rec[r] EXCEPT !.buf = None]],
         NEW more_left, more_left = (some_left \/ head # None)
  PROVE  Holds(rec2, head, q, more_left)
<1>0. IsList(rec, head, q)
  BY HoldsIs
<1>1. q = <<>> <=> head = None
  BY <1>0 DEF IsList
<1>2. \A x \in Records : rec2[x].buf = None /\ rec2[x].next = rec[x].next
  BY DEF RecordType
<1>3. Links(rec2) = Links(rec)
  BY <1>2 DEF Links
<1>4. WholeList(Links(rec2), head, q)
  BY <1>3 DEF Holds
<1>5. ASSUME ~more_left PROVE Len(q) = 0
  <2>1. head = None
    BY <1>5
  <2>2. q = <<>>
    BY <1>1, <2>1
  <2> QED
    BY <2>2
<1> QED
  BY <1>2, <1>4, <1>5 DEF Holds

-----------------------------------------------------------------------------
(***************************************************************************)
(* Which buffer and which record are found.                                *)
(***************************************************************************)
\* Counting round the pool.
LEMMA Modulo ==
  ASSUME NEW m \in Nat, m > 0, NEW x \in Nat
  PROVE  /\ x % m \in 0 .. m - 1
         /\ x < m => x % m = x
         /\ m <= x /\ x < 2 * m => x % m = x - m
OBVIOUS

\* The buffers after one of them are all of them.
LEMMA AfterIs ==
  ASSUME NEW from \in Buffers
  PROVE  /\ \A n \in 0 .. MAX_TXBUFS - 1 : After(from, n) \in Buffers
         /\ \A b \in Buffers : \E n \in 0 .. MAX_TXBUFS - 1 : After(from, n) = b
<1>1. MAX_TXBUFS \in Nat /\ MAX_TXBUFS > 0 /\ from \in Nat /\ 1 <= from /\ from <= MAX_TXBUFS
  BY PoolsNotEmpty DEF Buffers
<1>2. ASSUME NEW n \in 0 .. MAX_TXBUFS - 1 PROVE After(from, n) \in Buffers
  <2>1. from - 1 + n \in Nat
    BY <1>1
  <2>2. (from - 1 + n) % MAX_TXBUFS \in 0 .. MAX_TXBUFS - 1
    BY <2>1, <1>1, Modulo
  <2> QED
    BY <2>2, <1>1 DEF After, Buffers
<1>3. ASSUME NEW b \in Buffers
      PROVE  \E n \in 0 .. MAX_TXBUFS - 1 : After(from, n) = b
  <2>1. b \in Nat /\ 1 <= b /\ b <= MAX_TXBUFS
    BY DEF Buffers
  <2>2. CASE from <= b
    <3>1. b - from \in 0 .. MAX_TXBUFS - 1 /\ from - 1 + (b - from) = b - 1
          /\ b - 1 \in Nat /\ b - 1 < MAX_TXBUFS
      BY <1>1, <2>1, <2>2
    <3>2. (b - 1) % MAX_TXBUFS = b - 1
      BY <3>1, <1>1, Modulo
    <3>3. After(from, b - from) = b
      BY <3>1, <3>2, <2>1 DEF After
    <3> QED
      BY <3>1, <3>3
  <2>3. CASE b < from
    <3>1. b - from + MAX_TXBUFS \in 0 .. MAX_TXBUFS - 1
          /\ from - 1 + (b - from + MAX_TXBUFS) = b - 1 + MAX_TXBUFS
          /\ b - 1 + MAX_TXBUFS \in Nat
          /\ MAX_TXBUFS <= b - 1 + MAX_TXBUFS /\ b - 1 + MAX_TXBUFS < 2 * MAX_TXBUFS
      BY <1>1, <2>1, <2>3
    <3>2. (b - 1 + MAX_TXBUFS) % MAX_TXBUFS = b - 1 + MAX_TXBUFS - MAX_TXBUFS
      BY <3>1, <1>1, Modulo
    <3>3. After(from, b - from + MAX_TXBUFS) = b
      BY <3>1, <3>2, <2>1, <1>1 DEF After
    <3> QED
      BY <3>1, <3>3
  <2> QED
    BY <2>1, <2>2, <2>3, <1>1
<1> QED
  BY <1>2, <1>3

\* rlpm_new_txbuf finds a buffer that is not in use, if there is one.
LEMMA BufferFound ==
  ASSUME NEW u \in [Buffers -> Nat], NEW from \in Buffers
  PROVE  /\ new_txbuf(u, from) \in Buffers \cup {0}
         /\ new_txbuf(u, from) # 0 => u[new_txbuf(u, from)] = 0
         /\ new_txbuf(u, from) = 0 => \A b \in Buffers : u[b] # 0
<1> DEFINE free == {n \in 0 .. MAX_TXBUFS - 1 : u[After(from, n)] = 0}
<1>1. /\ \A n \in 0 .. MAX_TXBUFS - 1 : After(from, n) \in Buffers
      /\ \A b \in Buffers : \E n \in 0 .. MAX_TXBUFS - 1 : After(from, n) = b
  BY AfterIs
<1>2. CASE free = {}
  <2>1. new_txbuf(u, from) = 0
    BY <1>2 DEF new_txbuf
  <2>2. \A b \in Buffers : u[b] # 0
    BY <1>1, <1>2
  <2> QED
    BY <2>1, <2>2
<1>3. CASE free # {}
  <2>1. free \in SUBSET Nat
    BY PoolsNotEmpty
  <2>2. \E n \in free : \A k \in free : n <= k
    BY <2>1, <1>3, Smallest
  <2> DEFINE n == CHOOSE n \in free : \A k \in free : n <= k
  <2>3. n \in free
    BY <2>2
  <2>4. new_txbuf(u, from) = After(from, n)
    BY <1>3 DEF new_txbuf
  <2>5. n \in 0 .. MAX_TXBUFS - 1 /\ u[After(from, n)] = 0
    BY <2>3
  <2> HIDE DEF n
  <2>6. After(from, n) \in Buffers
    BY <2>5, <1>1
  <2> QED
    BY <2>4, <2>5, <2>6, PoolsNotEmpty DEF None
<1> QED
  BY <1>2, <1>3

\* sdtm_new_resend finds a record that holds no buffer, if there is one.
LEMMA RecordFound ==
  /\ sdtm_new_resend # None =>
       sdtm_new_resend \in Records /\ record[sdtm_new_resend].buf = None
  /\ sdtm_new_resend = None => \A r \in Records : record[r].buf # None
<1> DEFINE free == {r \in Records : record[r].buf = None}
<1>1. CASE free = {}
  BY <1>1 DEF sdtm_new_resend
<1>2. CASE free # {}
  <2>1. free \in SUBSET Nat
    BY PoolsNotEmpty DEF Records
  <2>2. \E n \in free : \A k \in free : n <= k
    BY <2>1, <1>2, Smallest
  <2> DEFINE n == CHOOSE n \in free : \A k \in free : n <= k
  <2>3. n \in free
    BY <2>2
  <2>4. sdtm_new_resend = n
    BY <1>2 DEF sdtm_new_resend
  <2> HIDE DEF n
  <2> QED
    BY <2>3, <2>4, PoolsNotEmpty
<1> QED
  BY <1>1, <1>2

-----------------------------------------------------------------------------
(***************************************************************************)
(* The steps.                                                              *)
(***************************************************************************)
\* Buffer b is given to record r, whose buffer, if it has one, is released.
Saved(b, r) ==
  /\ r \in Records
  /\ resends' = r
  /\ record' \in [Records -> RecordType]
  /\ record'[r].buf = b
  /\ \A x \in Records : x # r => record'[x].buf = record[x].buf
  /\ usage' = Release([(IF record[r].buf # None THEN Release(usage, record[r].buf) ELSE usage)
                        EXCEPT ![b] = @ + 1], b)
  /\ Holds(record', r, Walk(Links(record'), r), left) \/ (MayLoop /\ RingOf(record', r))

\* What TxTypeOK says of the list.
LEMMA ListTypes ==
  ASSUME TxTypeOK
  PROVE  record \in [Records -> RecordType] /\ resends \in Records \cup {None}
BY DEF TxTypeOK, RecordType

\* A record put before a list, wherever the record was.
LEMMA PutAnyhow ==
  ASSUME TxTypeOK, ListHolds, NEW r \in Records, record[r].buf = None, NEW b \in Buffers,
         NEW rec2, rec2 = Put(record, resends, r, b)
  PROVE  Holds(rec2, r, Walk(Links(rec2), r), left) \/ (MayLoop /\ RingOf(rec2, r))
<1> DEFINE q == RecordList
<1>1. record \in [Records -> RecordType] /\ resends \in Records \cup {None}
  BY ListTypes
<1>2. rec2 \in [Records -> RecordType] /\ r \in Records \cup {None}
  BY <1>1 DEF Put, RecordType
<1>3. CASE MayLoop /\ RingOf(record, resends)
  BY <1>1, <1>3, PutBeforeRing
<1>4. CASE Holds(record, resends, q, left)
  <2> HIDE DEF q
  <2>1. CASE \A i \in 1 .. Len(q) : q[i] # r
    <3>1. Holds(rec2, r, <<r>> \o q, left)
      BY <2>1, <1>1, <1>4, PutBefore
    <3> QED
      BY <3>1, <1>2, ListHasIt
  <2>2. CASE \E i \in 1 .. Len(q) : q[i] = r
    <3>1. PICK i \in 1 .. Len(q) : q[i] = r
      BY <2>2
    <3>2. RingOf(Put(record, resends, q[i], b), q[i])
      BY <1>1, <1>4, PutBeforeItself
    <3>3. left
      BY <3>1, <1>4 DEF Holds
    <3> QED
      BY <3>1, <3>2, <3>3 DEF MayLoop
  <2> QED
    BY <2>1, <2>2
<1> QED
  BY <1>3, <1>4 DEF ListHolds

\* sdt_save_buffer.
LEMMA SaveIs ==
  ASSUME TxTypeOK, ListHolds, NEW b \in Buffers, sdt_save_buffer(b),
         ~(sdtm_new_resend = None /\ Loops)
  PROVE  \E r \in Records : Saved(b, r)
<1> DEFINE q == RecordList
           n == Len(q)
<1>1. record \in [Records -> RecordType] /\ resends \in Records \cup {None}
  BY ListTypes
<1>2. CASE sdtm_new_resend # None
  <2> DEFINE r == sdtm_new_resend
  <2>1. r \in Records /\ record[r].buf = None
    BY <1>2, RecordFound
  <2>2. /\ record' = Put(record, resends, r, b) /\ resends' = r
        /\ usage' = Release([usage EXCEPT ![b] = @ + 1], b)
    BY <1>2 DEF sdt_save_buffer, Put
  <2> HIDE DEF r
  <2>3. /\ record' \in [Records -> RecordType] /\ record'[r].buf = b
        /\ \A x \in Records : x # r => record'[x].buf = record[x].buf
    BY <1>1, <2>1, <2>2 DEF Put, RecordType
  <2>4. Holds(record', r, Walk(Links(record'), r), left) \/ (MayLoop /\ RingOf(record', r))
    BY <2>1, <2>2, PutAnyhow
  <2> QED
    BY <2>1, <2>2, <2>3, <2>4 DEF Saved
<1>3. CASE sdtm_new_resend = None
  <2>1. \A x \in Records : record[x].buf # None
    BY <1>3, RecordFound
  <2>2. Holds(record, resends, q, left)
    <3>1. ~RingOf(record, resends)
      BY <1>1, <1>3, RingLoops DEF Loops
    <3> QED
      BY <3>1 DEF ListHolds
  <2> DEFINE r == q[n]
             cut == IF n > 1 THEN [record EXCEPT ![q[n - 1]].next = None] ELSE record
  <2>3. /\ record' = Put(cut, resends, r, b) /\ resends' = r
        /\ usage' = Release([Release(usage, record[r].buf) EXCEPT ![b] = @ + 1], b)
    BY <1>3 DEF sdt_save_buffer, Put
  <2>4. IsList(record, resends, q)
    BY <1>1, <2>2, HoldsIs
  <2> HIDE DEF q
  <2>5. n \in Nat /\ \A i \in 1 .. n : q[i] \in Records
    BY <2>4 DEF IsList
  <2>6. \A x \in Records : \E i \in 1 .. n : q[i] = x
    BY <2>1, <2>2 DEF Holds
  <2>7. n > 0
    <3>1. \E i \in 1 .. n : q[i] = 1
      BY <2>6, PoolsNotEmpty
    <3> QED
      BY <3>1, <2>5
  <2>8. r \in Records /\ n \in 1 .. n
    BY <2>5, <2>7
  <2>9. cut \in [Records -> RecordType] /\ \A x \in Records : cut[x].buf = record[x].buf
    <3>1. n > 1 => n - 1 \in 1 .. n
      BY <2>5
    <3> QED
      BY <3>1, <1>1, <2>5 DEF RecordType
  <2> HIDE DEF cut
  <2>10. /\ record' \in [Records -> RecordType] /\ record'[r].buf = b
         /\ \A x \in Records : x # r => record'[x].buf = record[x].buf
    BY <2>3, <2>8, <2>9, <1>1 DEF Put, RecordType
  <2>11. Holds(record', r, Walk(Links(record'), r), left) \/ (MayLoop /\ RingOf(record', r))
    <3>1. CASE n > 1
      <4>1. \E p : Holds(Put([record EXCEPT ![q[n - 1]].next = None], resends, q[n], b),
                         q[n], p, left)
        BY <3>1, <1>1, <2>1, <2>2, LastPutFirst
      <4>2. \E p : Holds(record', r, p, left)
        BY <4>1, <3>1, <2>3 DEF cut
      <4> HIDE DEF r, n
      <4>3. r \in Records \cup {None}
        BY <2>8
      <4> QED
        BY <4>2, <4>3, <2>10, ListHasIt
    <3>2. CASE n = 1
      <4>1. RingOf(Put(record, resends, q[1], b), q[1])
        <5>1. 1 \in 1 .. Len(q)
          BY <2>8, <3>2
        <5> QED
          BY <5>1, <1>1, <2>2, PutBeforeItself
      <4>2. RingOf(record', r)
        BY <4>1, <3>2, <2>3 DEF cut
      <4>3. SDT_MAX_RESENDS = 1
        <5>1. \A x \in Records : x = q[1]
          BY <2>6, <3>2
        <5>2. SDT_MAX_RESENDS \in Records
          BY PoolsNotEmpty DEF Records
        <5> QED
          BY <5>1, <5>2, PoolsNotEmpty
      <4> QED
        BY <4>2, <4>3 DEF MayLoop
    <3> QED
      <4>1. n > 1 \/ n = 1
        BY <2>5, <2>7
      <4> QED
        BY <3>1, <3>2, <4>1
  <2>12. record[r].buf # None
    BY <2>1, <2>8
  <2> HIDE DEF r
  <2> QED
    BY <2>3, <2>8, <2>10, <2>11, <2>12 DEF Saved
<1> QED
  BY <1>2, <1>3


\* The conditions under which the invariant is kept.
TxBefore == TxIInv /\ ~raced

\* The steps that only a sender takes: a buffer is found,
LEMMA FindKeeps ==
  ASSUME TxBefore, NEW t \in Threads, FindBuffer(t)
  PROVE  TxIInv'
<1> USE DEF TxBefore, TxIInv
<1> DEFINE b == new_txbuf(usage, bufnum)
<1>1. usage \in [Buffers -> Nat] /\ bufnum \in Buffers
  BY DEF TxTypeOK
<1>2. b \in Buffers /\ b # 0
  BY <1>1, BufferFound DEF FindBuffer
<1>3. /\ sender' = [sender EXCEPT ![t] = [pc |-> "found", buf |-> b]]
      /\ bufnum' = b /\ sender[t].pc = "idle"
      /\ UNCHANGED <<usage, record, resends, started, died, left, lost, raced>>
  BY DEF FindBuffer, poolVars
<1> HIDE DEF b
<1>4. sender \in [Threads -> SenderType]
  BY DEF TxTypeOK, SenderType
<1>5. sender' \in [Threads -> SenderType]
  BY <1>2, <1>3, <1>4 DEF SenderType
<1>6. /\ sender'[t].pc = "found" /\ sender'[t].buf = b
      /\ \A o \in Threads : o # t => sender'[o] = sender[o]
  BY <1>3, <1>4
<1>7. TxTypeOK'
  BY <1>2, <1>3, <1>5 DEF TxTypeOK, SenderType
<1>8. SendersHave'
  BY <1>2, <1>6 DEF SendersHave
<1>9. Sending' = Sending /\ Held' = Held
  BY <1>3, <1>6 DEF Sending, Held
<1>10. OneHolder'
  BY <1>3, <1>6, <1>9 DEF OneHolder
<1>11. ListHolds'
  BY <1>3 DEF ListHolds, MayLoop, RecordList
<1> QED
  BY <1>7, <1>8, <1>10, <1>11

\* and marked,
LEMMA TakeKeeps ==
  ASSUME TxBefore, NEW t \in Threads, TakeBuffer(t)
  PROVE  TxIInv'
<1> USE DEF TxBefore, TxIInv
<1> DEFINE b == sender[t].buf
<1>1. /\ sender' = [sender EXCEPT ![t].pc = "sending"]
      /\ usage' = [usage EXCEPT ![b] = 1] /\ sender[t].pc = "found"
      /\ UNCHANGED <<bufnum, record, resends, started, died, left, lost>>
  BY DEF TakeBuffer, poolVars
<1>2. sender \in [Threads -> SenderType] /\ usage \in [Buffers -> {0, 1}]
  BY DEF TxTypeOK, SenderType
<1>3. b \in Buffers
  BY <1>1, <1>2 DEF SendersHave, SenderType
<1>4. /\ sender' \in [Threads -> SenderType]
      /\ sender'[t].pc = "sending" /\ sender'[t].buf = b
      /\ \A o \in Threads : o # t => sender'[o] = sender[o]
  BY <1>1, <1>2 DEF SenderType
<1>5. /\ usage' \in [Buffers -> {0, 1}] /\ usage'[b] = 1
      /\ \A x \in Buffers : x # b => usage'[x] = usage[x]
  BY <1>1, <1>2, <1>3
<1>6. raced' \in BOOLEAN
  BY DEF TakeBuffer, TxTypeOK
<1>7. TxTypeOK'
  BY <1>1, <1>4, <1>5, <1>6 DEF TxTypeOK, SenderType
<1>8. SendersHave'
  BY <1>1, <1>3, <1>4, PoolsNotEmpty DEF SendersHave, None
<1>9. ASSUME ~raced' PROVE OneHolder'
  <2>1. b \notin Held /\ b \notin lost
        /\ \A o \in Threads \ {t} : sender[o].pc = "sending" => sender[o].buf # b
    BY <1>9 DEF TakeBuffer
  <2>2. Held' = Held
    BY <1>1 DEF Held
  <2>3. Sending' = Sending \cup {b}
    BY <1>1, <1>4 DEF Sending
  <2>4. \A x \in Buffers : usage'[x] # 0 <=> x \in Held' \cup Sending' \cup lost'
    BY <1>1, <1>5, <2>2, <2>3 DEF OneHolder
  <2>5. \A o, p \in Threads :
          sender'[o].pc = "sending" /\ sender'[p].pc = "sending" /\ sender'[o].buf = sender'[p].buf
            => o = p
    BY <1>4, <2>1 DEF OneHolder
  <2>6. b \notin Sending
    BY <1>1, <2>1 DEF Sending
  <2>7. Held' \cap Sending' = {} /\ Held' \cap lost' = {} /\ Sending' \cap lost' = {}
    BY <1>1, <2>1, <2>2, <2>3 DEF OneHolder
  <2> QED
    BY <1>1, <2>4, <2>5, <2>7 DEF OneHolder
<1>10. ListHolds'
  BY <1>1 DEF ListHolds, MayLoop, RecordList
<1> QED
  BY <1>7, <1>8, <1>9, <1>10


\* A sender that is idle again has its buffer no more.
LEMMA IdleAgain ==
  ASSUME TxBefore, NEW t \in Threads, sender[t].pc = "sending",
         sender' = [sender EXCEPT ![t] = Idle]
  PROVE  /\ sender[t].buf \in Buffers /\ sender[t].buf \in Sending
         /\ usage[sender[t].buf] = 1
         /\ sender' \in [Threads -> SenderType] /\ SendersHave'
         /\ Sending' = Sending \ {sender[t].buf}
         /\ \A o, p \in Threads :
              sender'[o].pc = "sending" /\ sender'[p].pc = "sending"
                /\ sender'[o].buf = sender'[p].buf => o = p
<1> USE DEF TxBefore, TxIInv
<1> DEFINE b == sender[t].buf
<1>1. sender \in [Threads -> SenderType] /\ usage \in [Buffers -> {0, 1}]
  BY DEF TxTypeOK, SenderType
<1>2. b \in Buffers /\ b \in Sending
  BY <1>1 DEF SendersHave, SenderType, Sending
<1>3. usage[b] = 1
  BY <1>1, <1>2 DEF OneHolder
<1>4. /\ sender' \in [Threads -> SenderType] /\ sender'[t].pc = "idle"
      /\ \A o \in Threads : o # t => sender'[o] = sender[o]
  BY <1>1 DEF Idle, SenderType
<1>5. SendersHave'
  BY <1>4 DEF SendersHave
<1>6. Sending' = Sending \ {b}
  <2>1. \A o \in Threads : sender[o].pc = "sending" /\ o # t => sender[o].buf # b
    BY DEF OneHolder
  <2>2. \A x \in Sending' : x \in Sending /\ x # b
    BY <1>4, <2>1 DEF Sending
  <2>3. \A x \in Sending : x # b => x \in Sending'
    BY <1>4 DEF Sending
  <2> QED
    BY <2>2, <2>3
<1>7. \A o, p \in Threads :
        sender'[o].pc = "sending" /\ sender'[p].pc = "sending" /\ sender'[o].buf = sender'[p].buf
          => o = p
  BY <1>4 DEF OneHolder
<1> QED
  BY <1>2, <1>3, <1>4, <1>5, <1>6, <1>7

\* sent,
LEMMA SendStepKeeps ==
  ASSUME TxBefore, NEW t \in Threads, Send(t)
  PROVE  TxIInv'
<1> USE DEF TxBefore, TxIInv
<1> DEFINE b == sender[t].buf
<1>1. /\ sender[t].pc = "sending" /\ sender' = [sender EXCEPT ![t] = Idle]
      /\ usage' = Release(usage, b)
      /\ UNCHANGED <<bufnum, record, resends, started, died, left, lost, raced>>
  BY DEF Send, poolVars
<1>2. b \in Buffers /\ b \in Sending /\ usage[b] = 1
  BY <1>1, IdleAgain
<1>3. sender' \in [Threads -> SenderType] /\ SendersHave'
  BY <1>1, IdleAgain
<1>4. Sending' = Sending \ {b}
  BY <1>1, IdleAgain
<1>5. \A o, p \in Threads :
        sender'[o].pc = "sending" /\ sender'[p].pc = "sending" /\ sender'[o].buf = sender'[p].buf
          => o = p
  BY <1>1, IdleAgain
<1> HIDE DEF b
<1>6. usage \in [Buffers -> {0, 1}]
  BY DEF TxTypeOK
<1>7. /\ usage' \in [Buffers -> {0, 1}] /\ usage'[b] = 0
      /\ \A x \in Buffers : x # b => usage'[x] = usage[x]
  BY <1>1, <1>2, <1>6 DEF Release
<1>8. TxTypeOK'
  BY <1>1, <1>3, <1>7 DEF TxTypeOK, SenderType
<1>9. Held' = Held
  BY <1>1 DEF Held
<1>10. OneHolder'
  <2>1. \A x \in Buffers : usage'[x] # 0 <=> x \in Held' \cup Sending' \cup lost'
    BY <1>1, <1>2, <1>4, <1>7, <1>9 DEF OneHolder
  <2>2. Held' \cap Sending' = {} /\ Held' \cap lost' = {} /\ Sending' \cap lost' = {}
    BY <1>1, <1>4, <1>9 DEF OneHolder
  <2> QED
    BY <1>1, <1>5, <2>1, <2>2 DEF OneHolder
<1>11. ListHolds'
  BY <1>1 DEF ListHolds, MayLoop, RecordList
<1> QED
  BY <1>3, <1>8, <1>10, <1>11

\* or let go of;
LEMMA ForgetKeeps ==
  ASSUME TxBefore, DmpForgets
  PROVE  TxIInv'
<1> USE DEF TxBefore, TxIInv
<1> DEFINE t == "application"
           b == sender[t].buf
<1>1. /\ t \in Threads /\ sender[t].pc = "sending" /\ sender' = [sender EXCEPT ![t] = Idle]
      /\ lost' = lost \cup {b}
      /\ UNCHANGED <<usage, bufnum, record, resends, started, died, left, raced>>
  BY DEF DmpForgets, poolVars, Threads
<1> HIDE DEF t
<1>2. b \in Buffers /\ b \in Sending /\ usage[b] = 1
  BY <1>1, IdleAgain
<1>3. sender' \in [Threads -> SenderType] /\ SendersHave'
  BY <1>1, IdleAgain
<1>4. Sending' = Sending \ {b}
  BY <1>1, IdleAgain
<1>5. \A o, p \in Threads :
        sender'[o].pc = "sending" /\ sender'[p].pc = "sending" /\ sender'[o].buf = sender'[p].buf
          => o = p
  BY <1>1, IdleAgain
<1> HIDE DEF b
<1>6. TxTypeOK'
  BY <1>1, <1>2, <1>3 DEF TxTypeOK, SenderType
<1>7. Held' = Held
  BY <1>1 DEF Held
<1>8. OneHolder'
  <2>1. \A x \in Buffers : usage'[x] # 0 <=> x \in Held' \cup Sending' \cup lost'
    BY <1>1, <1>2, <1>4, <1>7 DEF OneHolder
  <2>2. Held' \cap Sending' = {} /\ Held' \cap lost' = {} /\ Sending' \cap lost' = {}
    BY <1>1, <1>2, <1>4, <1>7 DEF OneHolder
  <2> QED
    BY <1>1, <1>5, <2>1, <2>2 DEF OneHolder
<1>9. ListHolds'
  BY <1>1 DEF ListHolds, MayLoop, RecordList
<1> QED
  BY <1>3, <1>6, <1>8, <1>9

\* A reliable wrapper is kept and sent.
LEMMA SaveKeeps ==
  ASSUME TxBefore, NEW t \in Threads, SaveAndSend(t)
  PROVE  TxIInv'
<1> USE DEF TxBefore, TxIInv
<1> DEFINE b == sender[t].buf
<1>1. /\ sender[t].pc = "sending"
      /\ UNCHANGED <<bufnum, started, left, lost, raced>>
  BY DEF SaveAndSend
<1>2. CASE sdtm_new_resend = None /\ Loops
  <2>1. died' = "hung" /\ UNCHANGED <<record, resends, usage, sender>>
    BY <1>2 DEF SaveAndSend
  <2>2. TxTypeOK' /\ SendersHave' /\ OneHolder'
    <3>1. TxTypeOK'
      BY <1>1, <2>1 DEF TxTypeOK
    <3>2. SendersHave' /\ Held' = Held /\ Sending' = Sending
      BY <1>1, <2>1 DEF SendersHave, Held, Sending
    <3>3. OneHolder'
      BY <1>1, <2>1, <3>2 DEF OneHolder
    <3> QED
      BY <3>1, <3>2, <3>3
  <2>3. MayLoop
    <3>1. record \in [Records -> RecordType] /\ resends \in Records \cup {None}
      BY ListTypes
    <3> SUFFICES ASSUME Holds(record, resends, RecordList, left) PROVE FALSE
      BY DEF ListHolds
    <3>2. IsList(record, resends, RecordList)
      BY <3>1, HoldsIs
    <3> QED
      BY <3>2, <1>2 DEF IsList, Loops
  <2>4. ListHolds'
    BY <1>1, <2>1, <2>3 DEF ListHolds, MayLoop, RecordList
  <2> QED
    BY <2>2, <2>4
<1>3. CASE ~(sdtm_new_resend = None /\ Loops)
  <2>1. sdt_save_buffer(b) /\ sender' = [sender EXCEPT ![t] = Idle] /\ died' = died
    BY <1>3 DEF SaveAndSend
  <2>2. b \in Buffers /\ b \in Sending /\ usage[b] = 1
    BY <1>1, <2>1, IdleAgain
  <2>3. sender' \in [Threads -> SenderType] /\ SendersHave'
    BY <1>1, <2>1, IdleAgain
  <2>4. Sending' = Sending \ {b}
    BY <1>1, <2>1, IdleAgain
  <2>5. \A o, p \in Threads :
          sender'[o].pc = "sending" /\ sender'[p].pc = "sending" /\ sender'[o].buf = sender'[p].buf
            => o = p
    BY <1>1, <2>1, IdleAgain
  <2> HIDE DEF b
  <2>6. PICK r \in Records : Saved(b, r)
    BY <1>3, <2>1, <2>2, SaveIs
  <2> DEFINE old == record[r].buf
  <2>7. usage \in [Buffers -> {0, 1}] /\ record \in [Records -> RecordType]
    BY DEF TxTypeOK, RecordType
  <2>8. old # None => old \in Buffers /\ old # b /\ usage[old] = 1 /\ old \in Held
    <3> SUFFICES ASSUME old # None
                 PROVE  old \in Buffers /\ old # b /\ usage[old] = 1 /\ old \in Held
      OBVIOUS
    <3>1. old \in Buffers /\ old \in Held
      BY <2>7 DEF RecordType, Held
    <3> QED
      BY <3>1, <2>2, <2>7 DEF OneHolder
  <2>9. \A x \in Buffers : usage'[x] = IF x = old THEN 0 ELSE usage[x]
    <3> DEFINE u == IF old # None THEN Release(usage, old) ELSE usage
               v == [u EXCEPT ![b] = @ + 1]
    <3>1. u \in [Buffers -> {0, 1}] /\ \A x \in Buffers : u[x] = IF x = old THEN 0 ELSE usage[x]
      BY <2>7, <2>8, PoolsNotEmpty DEF Release
    <3>2. b # old
      BY <2>2, <2>8, PoolsNotEmpty
    <3> HIDE DEF u
    <3>3. u[b] = 1
      BY <2>2, <3>1, <3>2
    <3>4. v \in [Buffers -> Nat] /\ v[b] = 2 /\ \A x \in Buffers : x # b => v[x] = u[x]
      BY <2>2, <3>1, <3>3
    <3>5. usage' = Release(v, b)
      BY <2>6 DEF Saved, u
    <3> HIDE DEF v
    <3>6. usage'[b] = 1 /\ \A x \in Buffers : x # b => usage'[x] = u[x]
      BY <3>4, <3>5, <2>2 DEF Release
    <3> QED
      BY <3>1, <3>3, <3>6, <2>2
  <2>10. usage' \in [Buffers -> {0, 1}]
    <3>1. DOMAIN usage' = Buffers /\ usage' = [x \in Buffers |-> usage'[x]]
      <4>1. \A u : u \in [Buffers -> Nat] => [u EXCEPT ![b] = @ + 1] \in [Buffers -> Nat]
        BY <2>2
      <4>2. \A u, x : u \in [Buffers -> Nat] /\ x \in Buffers => Release(u, x) \in [Buffers -> Nat]
        BY DEF Release
      <4>3. (IF old # None THEN Release(usage, old) ELSE usage) \in [Buffers -> Nat]
        BY <2>7, <2>8, <4>2
      <4>4. usage' \in [Buffers -> Nat]
        BY <2>2, <2>6, <4>1, <4>2, <4>3 DEF Saved
      <4> QED
        BY <4>4
    <3> QED
      BY <3>1, <2>7, <2>9
  <2>11. /\ resends' = r /\ record' \in [Records -> RecordType] /\ record'[r].buf = b
         /\ \A x \in Records : x # r => record'[x].buf = record[x].buf
         /\ Holds(record', r, Walk(Links(record'), r), left) \/ (MayLoop /\ RingOf(record', r))
    BY <2>6 DEF Saved
  <2>12. TxTypeOK'
    BY <1>1, <2>1, <2>3, <2>10, <2>11 DEF TxTypeOK, SenderType, RecordType
  <2>13. Held' = (Held \ {old}) \cup {b}
    <3>1. \A x \in Held' : x \in (Held \ {old}) \cup {b}
      <4> SUFFICES ASSUME NEW y \in Records, record'[y].buf # None, record'[y].buf # b
                   PROVE  record'[y].buf \in Held /\ record'[y].buf # old
        BY DEF Held
      <4>1. y # r /\ record'[y].buf = record[y].buf
        BY <2>11
      <4> QED
        BY <4>1 DEF Held, OneHolder
    <3>2. b \in Held'
      BY <2>2, <2>11, PoolsNotEmpty DEF Held
    <3>3. \A x \in Held : x # old => x \in Held'
      <4> SUFFICES ASSUME NEW y \in Records, record[y].buf # None, record[y].buf # old
                   PROVE  record[y].buf \in Held'
        BY DEF Held
      <4>1. y # r /\ record'[y].buf = record[y].buf
        BY <2>11
      <4> QED
        BY <4>1 DEF Held
    <3> QED
      BY <3>1, <3>2, <3>3
  <2>14. OneHolder'
    <3>1. \A x \in Buffers : usage'[x] # 0 <=> x \in Held' \cup Sending' \cup lost'
      <4> SUFFICES ASSUME NEW x \in Buffers
                   PROVE  usage'[x] # 0 <=> x \in Held' \cup Sending' \cup lost'
        OBVIOUS
      <4>1. usage[x] # 0 <=> x \in Held \cup Sending \cup lost
        BY DEF OneHolder
      <4>2. x = old => x \notin Held' \cup Sending' \cup lost'
        BY <1>1, <2>4, <2>8, <2>13, PoolsNotEmpty DEF OneHolder
      <4>3. usage'[x] = IF x = old THEN 0 ELSE usage[x]
        BY <2>9
      <4>4. x # old => (x \in Held' \cup Sending' \cup lost' <=> x \in Held \cup Sending \cup lost)
        BY <1>1, <2>2, <2>4, <2>13
      <4> HIDE DEF old
      <4> QED
        BY <4>1, <4>2, <4>3, <4>4
    <3>2. Held' \cap Sending' = {} /\ Held' \cap lost' = {} /\ Sending' \cap lost' = {}
      BY <1>1, <2>2, <2>4, <2>13 DEF OneHolder
    <3>3. \A x, y \in Records :
            record'[x].buf # None /\ record'[x].buf = record'[y].buf => x = y
      <4>1. \A x \in Records : x # r => record'[x].buf # b
        <5> SUFFICES ASSUME NEW x \in Records, x # r, record[x].buf = b PROVE FALSE
          BY <2>11
        <5>1. b \in Held
          BY <2>2, PoolsNotEmpty DEF Held
        <5> QED
          BY <5>1, <2>2 DEF OneHolder
      <4> QED
        BY <4>1, <2>11 DEF OneHolder
    <3> QED
      BY <2>5, <3>1, <3>2, <3>3 DEF OneHolder
  <2>15. ListHolds'
    BY <1>1, <2>1, <2>11 DEF ListHolds, MayLoop, RecordList
  <2> QED
    BY <2>3, <2>12, <2>14, <2>15
<1> QED
  BY <1>2, <1>3


\* The buffers of the records in G are released, and those records hold nothing.
LEMMA GivenUp ==
  ASSUME TxBefore, NEW G \in SUBSET Records,
         usage' = ReleaseAll(usage, {record[r].buf : r \in G}),
         record' \in [Records -> RecordType],
         \A r \in Records : record'[r].buf = IF r \in G THEN None ELSE record[r].buf,
         UNCHANGED <<sender, lost>>
  PROVE  usage' \in [Buffers -> {0, 1}] /\ OneHolder' /\ SendersHave'
<1> USE DEF TxBefore, TxIInv
<1> DEFINE B == {record[r].buf : r \in G}
<1>1. usage \in [Buffers -> {0, 1}] /\ record \in [Records -> RecordType]
  BY DEF TxTypeOK, RecordType
<1>2. \A b \in Buffers : usage'[b] = IF b \in B THEN 0 ELSE usage[b]
  BY <1>1 DEF ReleaseAll, Release
<1>3. usage' \in [Buffers -> {0, 1}]
  <2>1. usage' = [b \in Buffers |-> usage'[b]]
    BY DEF ReleaseAll
  <2> QED
    BY <1>1, <1>2, <2>1
<1>4. Held' = Held \ B
  <2>1. \A x \in Held' : x \in Held /\ x \notin B
    <3> SUFFICES ASSUME NEW y \in Records, record'[y].buf # None
                 PROVE  record'[y].buf \in Held /\ record'[y].buf \notin B
      BY DEF Held
    <3>1. y \notin G /\ record'[y].buf = record[y].buf
      OBVIOUS
    <3> QED
      BY <3>1 DEF Held, OneHolder
  <2>2. \A x \in Held : x \notin B => x \in Held'
    <3> SUFFICES ASSUME NEW y \in Records, record[y].buf # None, record[y].buf \notin B
                 PROVE  record[y].buf \in Held'
      BY DEF Held
    <3>1. record'[y].buf = record[y].buf
      OBVIOUS
    <3> QED
      BY <3>1 DEF Held
  <2> QED
    BY <2>1, <2>2
<1>5. B \subseteq Held \cup {None}
  BY DEF Held
<1>6. Sending' = Sending /\ SendersHave'
  BY DEF Sending, SendersHave
<1> HIDE DEF B
<1>7. \A b \in Buffers : usage'[b] # 0 <=> b \in Held' \cup Sending' \cup lost'
  <2> SUFFICES ASSUME NEW b \in Buffers
               PROVE  usage'[b] # 0 <=> b \in Held' \cup Sending' \cup lost'
    OBVIOUS
  <2>1. usage[b] # 0 <=> b \in Held \cup Sending \cup lost
    BY DEF OneHolder
  <2>2. usage'[b] = IF b \in B THEN 0 ELSE usage[b]
    BY <1>2
  <2>3. b # None
    BY PoolsNotEmpty
  <2>4. b \in B => b \notin Held' \cup Sending' \cup lost'
    BY <1>4, <1>5, <1>6, <2>3 DEF OneHolder
  <2> QED
    BY <2>1, <2>2, <2>4, <1>4, <1>6
<1>8. Held' \cap Sending' = {} /\ Held' \cap lost' = {} /\ Sending' \cap lost' = {}
  BY <1>4, <1>6 DEF OneHolder
<1>9. \A x, y \in Records :
        record'[x].buf # None /\ record'[x].buf = record'[y].buf => x = y
  BY DEF OneHolder
<1>10. \A t, o \in Threads :
         sender'[t].pc = "sending" /\ sender'[o].pc = "sending" /\ sender'[t].buf = sender'[o].buf
           => t = o
  BY DEF OneHolder
<1> QED
  BY <1>3, <1>6, <1>7, <1>8, <1>9, <1>10 DEF OneHolder

\* A call that hangs or crashes does so on a list that may be a loop.
LEMMA DiesKeeps ==
  ASSUME TxBefore, died' \in {"hung", "crashed"}, MayLoop,
         UNCHANGED <<usage, bufnum, record, resends, started, left, sender, lost, raced>>
  PROVE  TxIInv'
<1> USE DEF TxBefore, TxIInv
<1>1. TxTypeOK'
  BY DEF TxTypeOK
<1>2. SendersHave' /\ Held' = Held /\ Sending' = Sending
  BY DEF SendersHave, Held, Sending
<1>3. OneHolder'
  BY <1>2 DEF OneHolder
<1>4. ListHolds'
  BY DEF ListHolds, MayLoop, RecordList
<1> QED
  BY <1>1, <1>2, <1>3, <1>4

\* A list that is a loop may be one.
LEMMA LoopsMay ==
  ASSUME TxBefore
  PROVE  /\ Loops => MayLoop
         /\ ~Loops => Holds(record, resends, RecordList, left)
<1> USE DEF TxBefore, TxIInv
<1>1. record \in [Records -> RecordType] /\ resends \in Records \cup {None}
  BY ListTypes
<1>2. ASSUME Loops PROVE MayLoop
  <2> SUFFICES ASSUME Holds(record, resends, RecordList, left) PROVE FALSE
    BY DEF ListHolds
  <2>1. IsList(record, resends, RecordList)
    BY <1>1, HoldsIs
  <2> QED
    BY <2>1, <1>2 DEF IsList, Loops
<1>3. ASSUME ~Loops PROVE Holds(record, resends, RecordList, left)
  <2>1. ~RingOf(record, resends)
    BY <1>1, <1>3, RingLoops DEF Loops
  <2> QED
    BY <2>1 DEF ListHolds
<1> QED
  BY <1>2, <1>3

\* The oldest records expire.
LEMMA ExpireKeeps ==
  ASSUME TxBefore, NEW n \in Records, Expire(n)
  PROVE  TxIInv'
<1> USE DEF TxBefore, TxIInv
<1> DEFINE q == RecordList
           gone == {q[i] : i \in Len(q) - n + 1 .. Len(q)}
<1>1. /\ n <= Len(q)
      /\ UNCHANGED <<bufnum, started, left, sender, lost, raced>>
  BY DEF Expire
<1>2. record \in [Records -> RecordType] /\ resends \in Records \cup {None}
  BY ListTypes
<1>3. CASE Loops
  <2>1. died' = "hung" /\ UNCHANGED <<usage, record, resends>>
    BY <1>3 DEF Expire
  <2> QED
    BY <1>1, <1>3, <2>1, LoopsMay, DiesKeeps
<1>4. CASE ~Loops
  <2>1. Holds(record, resends, q, left)
    BY <1>4, LoopsMay
  <2>2. IsList(record, resends, q)
    BY <1>2, <2>1, HoldsIs
  <2> HIDE DEF q
  <2>3. Len(q) \in Nat /\ n \in Nat /\ n > 0 /\ \A i \in 1 .. Len(q) : q[i] \in Records
    BY <2>2 DEF IsList, Records
  <2>4. \A i \in Len(q) - n + 1 .. Len(q) : i \in 1 .. Len(q)
    BY <2>3, <1>1
  <2>5. gone \in SUBSET Records
    BY <2>3, <2>4
  <2>6. CASE \E r \in gone : record[r].buf = None
    <3>1. died' = "crashed" /\ UNCHANGED <<usage, record, resends>>
      BY <1>4, <2>6 DEF Expire, q
    <3>2. left
      BY <2>1, <2>4, <2>6 DEF Holds
    <3> QED
      BY <1>1, <3>1, <3>2, DiesKeeps DEF MayLoop
  <2>7. CASE \A r \in gone : record[r].buf # None
    <3>1. /\ usage' = ReleaseAll(usage, {record[r].buf : r \in gone})
          /\ record' = Expired(record, gone)
          /\ resends' = IF resends \in gone THEN None ELSE resends
          /\ died' = died
      BY <1>4, <2>7 DEF Expire, Expired, q
    <3>2. \E p : Holds(Expired(record, gone), HeadLeft(resends, gone), p, left)
      <4>1. gone = {q[i] : i \in Len(q) - n + 1 .. Len(q)}
        OBVIOUS
      <4> HIDE DEF gone
      <4> QED
        BY <4>1, <1>1, <1>2, <2>1, <2>3, OldestExpire
    <3> HIDE DEF gone
    <3>3. record' \in [Records -> RecordType]
      BY <1>2, <3>1 DEF Expired, RecordType
    <3>4. \A r \in Records : record'[r].buf = IF r \in gone THEN None ELSE record[r].buf
      BY <3>1 DEF Expired
    <3>5. resends' \in Records \cup {None}
      BY <1>2, <3>1
    <3>6. usage' \in [Buffers -> {0, 1}] /\ OneHolder' /\ SendersHave'
      BY <1>1, <2>5, <3>1, <3>3, <3>4, GivenUp
    <3>7. TxTypeOK'
      BY <1>1, <3>1, <3>3, <3>5, <3>6 DEF TxTypeOK, RecordType
    <3>8. ListHolds'
      <4>1. PICK p : Holds(record', resends', p, left)
        BY <3>1, <3>2 DEF HeadLeft
      <4>2. Holds(record', resends', Walk(Links(record'), resends'), left)
        BY <4>1, <3>3, <3>5, ListHasIt
      <4> QED
        BY <1>1, <3>1, <4>2 DEF ListHolds, MayLoop, RecordList
    <3> QED
      BY <3>6, <3>7, <3>8
  <2> QED
    BY <2>6, <2>7
<1> QED
  BY <1>3, <1>4

\* SDT is shut down.
LEMMA ShutdownKeeps ==
  ASSUME TxBefore, Shutdown
  PROVE  TxIInv'
<1> USE DEF TxBefore, TxIInv
<1> DEFINE q == RecordList
<1>1. UNCHANGED <<bufnum, resends, sender, lost, raced>>
  BY DEF Shutdown
<1>2. record \in [Records -> RecordType] /\ resends \in Records \cup {None}
  BY ListTypes
<1>3. CASE Loops
  <2>1. died' = "hung" /\ UNCHANGED <<usage, record, started, left>>
    BY <1>3 DEF Shutdown
  <2> QED
    BY <1>1, <1>3, <2>1, LoopsMay, DiesKeeps
<1>4. CASE ~Loops
  <2>1. Holds(record, resends, q, left)
    BY <1>4, LoopsMay
  <2>2. IsList(record, resends, q)
    BY <1>2, <2>1, HoldsIs
  <2> DEFINE G == {q[i] : i \in 1 .. Len(q)}
  <2>3. /\ usage' = ReleaseAll(usage, {record[q[i]].buf : i \in DOMAIN q})
        /\ record' = [r \in Records |-> [record[r] EXCEPT !.buf = None]]
        /\ started' = FALSE /\ left' = (left \/ resends # None) /\ died' = died
    BY <1>4 DEF Shutdown
  <2> HIDE DEF q
  <2>4. q \in Seq(Records) /\ DOMAIN q = 1 .. Len(q) /\ G \in SUBSET Records
    BY <2>2 DEF IsList
  <2>5. {record[q[i]].buf : i \in DOMAIN q} = {record[r].buf : r \in G}
    BY <2>4
  <2>6. record' \in [Records -> RecordType]
    BY <1>2, <2>3 DEF RecordType
  <2>7. \A r \in Records : record'[r].buf = IF r \in G THEN None ELSE record[r].buf
    <3>1. \A r \in Records : record'[r].buf = None
      BY <1>2, <2>3 DEF RecordType
    <3>2. \A r \in Records : r \notin G => record[r].buf = None
      BY <2>1 DEF Holds
    <3> QED
      BY <3>1, <3>2
  <2>8. usage' = ReleaseAll(usage, {record[r].buf : r \in G})
    BY <2>3, <2>5
  <2> HIDE DEF G
  <2>9. usage' \in [Buffers -> {0, 1}] /\ OneHolder' /\ SendersHave'
    BY <1>1, <2>4, <2>6, <2>7, <2>8, GivenUp
  <2>10. TxTypeOK'
    BY <1>1, <2>3, <2>6, <2>9 DEF TxTypeOK, RecordType
  <2>11. ListHolds'
    <3>1. Holds(record', resends, q, left')
      BY <1>2, <2>1, <2>3, AllGiveUp
    <3>2. Holds(record', resends', Walk(Links(record'), resends'), left')
      BY <1>1, <1>2, <2>6, <3>1, ListHasIt
    <3> QED
      BY <1>1, <2>3, <3>2 DEF ListHolds, MayLoop, RecordList
  <2> QED
    BY <2>9, <2>10, <2>11
<1> QED
  BY <1>3, <1>4

\* SDT is started again.
LEMMA StartupKeeps ==
  ASSUME TxBefore, Startup
  PROVE  TxIInv'
<1> USE DEF TxBefore, TxIInv
<1>1. started' = TRUE /\ UNCHANGED <<usage, bufnum, record, resends, died, left, sender, lost, raced>>
  BY DEF Startup
<1>2. TxTypeOK'
  BY <1>1 DEF TxTypeOK
<1>3. SendersHave' /\ Held' = Held /\ Sending' = Sending
  BY <1>1 DEF SendersHave, Held, Sending
<1>4. OneHolder'
  BY <1>1, <1>3 DEF OneHolder
<1>5. ListHolds'
  BY <1>1 DEF ListHolds, MayLoop, RecordList
<1> QED
  BY <1>2, <1>3, <1>4, <1>5

\* The invariant holds in the beginning.
LEMMA TxInitIInv == TxInit => TxIInv
<1> SUFFICES ASSUME TxInit PROVE TxIInv
  OBVIOUS
<1>1. TxTypeOK
  BY PoolsNotEmpty DEF TxInit, TxTypeOK, Idle
<1>2. SendersHave
  BY DEF TxInit, SendersHave, Idle
<1>3. OneHolder
  <2>1. Held = {} /\ Sending = {}
    BY DEF TxInit, Held, Sending, Idle
  <2> QED
    BY <2>1 DEF TxInit, OneHolder, Idle
<1>4. ListHolds
  <2>1. record \in [Records -> RecordType] /\ resends \in Records \cup {None}
    BY <1>1, ListTypes
  <2>2. resends = None /\ \A r \in Records : record[r].buf = None
    BY DEF TxInit
  <2>3. Holds(record, resends, <<>>, left)
    BY <2>2 DEF Holds, WholeList, Chained, None
  <2>4. Holds(record, resends, RecordList, left)
    BY <2>1, <2>3, ListHasIt DEF RecordList
  <2> QED
    BY <2>4 DEF ListHolds, TxInit
<1> QED
  BY <1>1, <1>2, <1>3, <1>4 DEF TxIInv

\* Every step keeps the invariant.
LEMMA TxStepIInv == TxIInv /\ [TxNext]_txVars => TxIInv'
<1> SUFFICES ASSUME TxIInv, [TxNext]_txVars PROVE TxIInv'
  OBVIOUS
<1>1. CASE UNCHANGED txVars
  <2>1. UNCHANGED <<usage, bufnum, record, resends, started, died, left, sender, lost, raced>>
    BY <1>1 DEF txVars, poolVars
  <2>2. TxTypeOK'
    BY <2>1 DEF TxTypeOK, TxIInv
  <2>3. SendersHave' /\ Held' = Held /\ Sending' = Sending
    BY <2>1 DEF SendersHave, Held, Sending, TxIInv
  <2>4. OneHolder => OneHolder'
    BY <2>1, <2>3 DEF OneHolder
  <2>5. ListHolds'
    BY <2>1 DEF ListHolds, MayLoop, RecordList, TxIInv
  <2> QED
    BY <2>1, <2>2, <2>3, <2>4, <2>5 DEF TxIInv
<1>2. CASE TxNext
  <2>1. TxBefore
    BY <1>2 DEF TxNext, TxBefore
  <2>2. ASSUME NEW t \in Threads, FindBuffer(t) \/ TakeBuffer(t) \/ Send(t) \/ SaveAndSend(t)
        PROVE  TxIInv'
    BY <2>1, <2>2, FindKeeps, TakeKeeps, SendStepKeeps, SaveKeeps
  <2>3. ASSUME NEW n \in Records, Expire(n) PROVE TxIInv'
    BY <2>1, <2>3, ExpireKeeps
  <2>4. DmpForgets \/ Shutdown \/ Startup => TxIInv'
    BY <2>1, ForgetKeeps, ShutdownKeeps, StartupKeeps
  <2> QED
    BY <1>2, <2>2, <2>3, <2>4 DEF TxNext
<1> QED
  BY <1>1, <1>2

\* The invariant holds throughout, whatever the pools and whoever sends.
THEOREM BuffersInvariant == TxSpec => []TxIInv
<1>1. TxInit => TxIInv
  BY TxInitIInv
<1>2. TxIInv /\ [TxNext]_txVars => TxIInv'
  BY TxStepIInv
<1> QED
  BY <1>1, <1>2, PTL DEF TxSpec

-----------------------------------------------------------------------------
(***************************************************************************)
(* What follows.                                                           *)
(***************************************************************************)
\* TxTypeOK: the variables have their types, and between two calls no buffer is
\* counted twice, though a record and the call that sends each count it.
THEOREM BuffersTypes == TxSpec => []TxTypeOK
<1>1. TxIInv => TxTypeOK
  BY DEF TxIInv
<1> QED
  BY <1>1, BuffersInvariant, PTL

\* HeldOnce: the use count of a buffer is the number of its holders, one at most
\* (rlpmem.c), as long as no two threads were in rlpm_new_txbuf at once.
THEOREM BuffersHeldOnce == TxSpec => []HeldOnce
<1>1. TxIInv => HeldOnce
  <2> SUFFICES ASSUME TxIInv, ~raced, NEW b \in Buffers
               PROVE  LET records == Cardinality({r \in Records : record[r].buf = b})
                          sending == Cardinality({t \in Threads : sender[t].pc = "sending"
                                                                  /\ sender[t].buf = b})
                      IN  /\ usage[b] = records + sending + (IF b \in lost THEN 1 ELSE 0)
                          /\ usage[b] <= 1
    BY DEF HeldOnce
  <2> DEFINE R == {r \in Records : record[r].buf = b}
             T == {t \in Threads : sender[t].pc = "sending" /\ sender[t].buf = b}
  <2>1. OneHolder /\ usage[b] \in {0, 1} /\ b # None
    BY PoolsNotEmpty DEF TxIInv, TxTypeOK
  <2>2. Cardinality(R) = IF R = {} THEN 0 ELSE 1
    <3>1. \A x, y \in R : x = y
      BY <2>1 DEF OneHolder
    <3> HIDE DEF R
    <3> QED
      BY <3>1, AtMostOne
  <2>3. Cardinality(T) = IF T = {} THEN 0 ELSE 1
    <3>1. \A x, y \in T : x = y
      BY <2>1 DEF OneHolder
    <3> HIDE DEF T
    <3> QED
      BY <3>1, AtMostOne
  <2>4. R # {} <=> b \in Held
    BY <2>1 DEF Held
  <2>5. T # {} <=> b \in Sending
    BY DEF Sending
  <2>6. usage[b] # 0 <=> b \in Held \cup Sending \cup lost
    BY <2>1 DEF OneHolder
  <2>7. /\ ~(b \in Held /\ b \in Sending) /\ ~(b \in Held /\ b \in lost)
        /\ ~(b \in Sending /\ b \in lost)
    BY <2>1 DEF OneHolder
  <2> HIDE DEF R, T
  <2>8. /\ usage[b] = Cardinality(R) + Cardinality(T) + (IF b \in lost THEN 1 ELSE 0)
        /\ usage[b] <= 1
    BY <2>1, <2>2, <2>3, <2>4, <2>5, <2>6, <2>7
  <2> QED
    BY <2>8 DEF R, T
<1> QED
  BY <1>1, BuffersInvariant, PTL

\* ListOfRecords: the list of resend records ends and holds just the records that
\* hold a buffer, until SDT is shut down with wrappers in it.  A pool of one record
\* is left out: sdt_save_buffer puts that record before itself.
THEOREM RecordsListed ==
  ASSUME SDT_MAX_RESENDS > 1
  PROVE  TxSpec => []ListOfRecords
<1>1. TxIInv => ListOfRecords
  <2> SUFFICES ASSUME TxIInv, ~left
               PROVE  /\ died = "no"
                      /\ ~Loops
                      /\ {RecordList[i] : i \in DOMAIN RecordList}
                           = {r \in Records : record[r].buf # None}
    BY DEF ListOfRecords
  <2>1. ~MayLoop
    <3>1. SDT_MAX_RESENDS # 1
      BY PoolsNotEmpty
    <3> QED
      BY <3>1 DEF MayLoop
  <2>2. died = "no" /\ Holds(record, resends, RecordList, left)
    BY <2>1 DEF TxIInv, ListHolds
  <2>3. IsList(record, resends, RecordList)
    <3>1. record \in [Records -> RecordType] /\ resends \in Records \cup {None}
      BY ListTypes DEF TxIInv
    <3> QED
      BY <2>2, <3>1, HoldsIs
  <2>4. ~Loops
    BY <2>3 DEF IsList, Loops
  <2>5. DOMAIN RecordList = 1 .. Len(RecordList)
        /\ \A i \in 1 .. Len(RecordList) : RecordList[i] \in Records
    BY <2>3 DEF IsList
  <2>6. {RecordList[i] : i \in DOMAIN RecordList} = {r \in Records : record[r].buf # None}
    BY <2>2, <2>5 DEF Holds
  <2> QED
    BY <2>2, <2>4, <2>6
<1> QED
  BY <1>1, BuffersInvariant, PTL

\* StarvedByLoss: a thread that is idle and finds no buffer does so because DMP has
\* lost as many as the pool has more than the resend records and one sender take.
THEOREM StarvedOnlyByLoss == TxSpec => []StarvedByLoss
<1>1. TxIInv => StarvedByLoss
  <2> SUFFICES ASSUME TxIInv, NEW t \in Threads, sender[t].pc = "idle",
                      new_txbuf(usage, bufnum) = 0, ~raced
               PROVE  Cardinality(lost) + SDT_MAX_RESENDS + 1 >= MAX_TXBUFS
    BY DEF StarvedByLoss
  <2>1. OneHolder /\ usage \in [Buffers -> Nat] /\ bufnum \in Buffers /\ lost \in SUBSET Buffers
    BY DEF TxIInv, TxTypeOK
  <2>2. \A b \in Buffers : usage[b] # 0
    BY <2>1, BufferFound
  <2>3. Buffers \subseteq (Held \cup Sending) \cup lost
    BY <2>1, <2>2 DEF OneHolder
  <2>4. IsFiniteSet(lost) /\ Cardinality(lost) \in Nat
    BY <2>1, PoolsNotEmpty, FS_Subset, FS_CardinalityType
  <2>5. IsFiniteSet(Held) /\ Cardinality(Held) \in Nat /\ Cardinality(Held) <= SDT_MAX_RESENDS
    <3> DEFINE R == {r \in Records : record[r].buf # None}
               f == [r \in R |-> record[r].buf]
    <3>1. R \in SUBSET Records
      OBVIOUS
    <3>2. IsFiniteSet(R) /\ Cardinality(R) \in Nat /\ Cardinality(R) <= SDT_MAX_RESENDS
      <4> HIDE DEF R
      <4> QED
        BY <3>1, PoolsNotEmpty, FS_Subset, FS_CardinalityType
    <3>3. f \in Surjection(R, Held)
      BY DEF Held, Surjection
    <3>4. IsFiniteSet(Held) /\ Cardinality(Held) <= Cardinality(R)
      <4> HIDE DEF R, f
      <4> QED
        BY <3>2, <3>3, FS_Surjection
    <3> HIDE DEF R
    <3> QED
      BY <3>2, <3>4, FS_CardinalityType, PoolsNotEmpty
  <2>6. IsFiniteSet(Sending) /\ Cardinality(Sending) \in Nat /\ Cardinality(Sending) <= 1
    <3>1. \A x, y \in Sending : x = y
      BY DEF Sending, Threads
    <3>2. IsFiniteSet(Sending) /\ Cardinality(Sending) = IF Sending = {} THEN 0 ELSE 1
      BY <3>1, AtMostOne
    <3> QED
      BY <3>2
  <2> DEFINE H == Held
             S == Sending
             U == (H \cup S) \cup lost
  <2>7. IsFiniteSet(H \cup S) /\ Cardinality(H \cup S) \in Nat
        /\ Cardinality(H \cup S) <= SDT_MAX_RESENDS + 1
    <3>1. IsFiniteSet(H \cup S)
          /\ Cardinality(H \cup S) = Cardinality(H) + Cardinality(S) - Cardinality(H \cap S)
      BY <2>5, <2>6, FS_Union
    <3>2. Cardinality(H \cap S) \in Nat
      BY <2>5, FS_Intersection, FS_CardinalityType
    <3>3. Cardinality(H \cup S) \in Nat
      BY <3>1, FS_CardinalityType
    <3> QED
      BY <3>1, <3>2, <3>3, <2>5, <2>6, PoolsNotEmpty
  <2>8. IsFiniteSet(U) /\ Cardinality(U) \in Nat
        /\ Cardinality(U) <= SDT_MAX_RESENDS + 1 + Cardinality(lost)
    <3> DEFINE V == H \cup S
    <3>0. IsFiniteSet(V) /\ Cardinality(V) \in Nat /\ Cardinality(V) <= SDT_MAX_RESENDS + 1
      BY <2>7
    <3> HIDE DEF V
    <3>1. IsFiniteSet(V \cup lost)
          /\ Cardinality(V \cup lost) = Cardinality(V) + Cardinality(lost) - Cardinality(V \cap lost)
      BY <3>0, <2>4, FS_Union
    <3>2. Cardinality(V \cap lost) \in Nat
      BY <3>0, FS_Intersection, FS_CardinalityType
    <3>3. Cardinality(V \cup lost) \in Nat
      BY <3>1, FS_CardinalityType
    <3>4. Cardinality(V \cup lost) <= SDT_MAX_RESENDS + 1 + Cardinality(lost)
      BY <3>0, <3>1, <3>2, <3>3, <2>4, PoolsNotEmpty
    <3> QED
      BY <3>1, <3>3, <3>4 DEF V
  <2>9. MAX_TXBUFS <= Cardinality(U)
    <3>1. Buffers \in SUBSET U
      BY <2>3
    <3> HIDE DEF U
    <3>2. Cardinality(Buffers) <= Cardinality(U)
      BY <3>1, <2>8, FS_Subset
    <3> QED
      BY <3>2, PoolsNotEmpty
  <2> HIDE DEF U
  <2> QED
    BY <2>4, <2>8, <2>9, PoolsNotEmpty
<1> QED
  BY <1>1, BuffersInvariant, PTL
=============================================================================
