------------------------------ MODULE DmpProofs ------------------------------
(***************************************************************************)
(* Theorems about DMP, for any pool of subscriptions, any foreign          *)
(* components and any addresses: types, the subscriptions that are held,   *)
(* and what an address header means to its receiver.                       *)
(***************************************************************************)
EXTENDS Dmp, DmpMessages, LinkedListProofs

SubType == [property : Properties \cup {"none"}, state : {"EMPTY"}, next : Subs \cup {NoSub}]

\* The subscriptions and the addresses, apart: no step changes both.
SubTypeOK ==
  /\ subs \in [Subs -> SubType]
  /\ heads \in [Remotes -> Subs \cup {NoSub}]
  /\ refs \in [Properties -> Int]
  /\ end \in {"runs", "hung", "crashed"}
  /\ wanted \subseteq Remotes \X Properties

\* Component c has one subscription, in slot i, to property p, and there is no other.
OnlyOne(c, p, i) ==
  /\ wanted = {<<c, p>>} /\ c \in Remotes /\ p \in Properties /\ i \in Subs
  /\ heads = [d \in Remotes |-> IF d = c THEN i ELSE NoSub]
  /\ subs[i].property = p /\ subs[i].next = NoSub
  /\ refs = [q \in Properties |-> IF q = p THEN 1 ELSE 0]

\* There is no subscription.
NoneHeld ==
  /\ wanted = {}
  /\ heads = [d \in Remotes |-> NoSub]
  /\ refs = [q \in Properties |-> 0]

\* Until a subscription is added while there is another there is one at most.
OneAtMost ==
  ~several => end = "runs" /\ (NoneHeld \/ \E c \in Remotes, p \in Properties, i \in Subs : OnlyOne(c, p, i))

AddressesOK ==
  /\ last \in [{"virtual", "actual"} -> Nat]
  /\ heard.got = heard.meant
  /\ \A i \in DOMAIN heard.got : heard.got[i].num > 0

\* The inductive invariant.
DmpIInv == SubTypeOK /\ OneAtMost /\ AddressesOK

-----------------------------------------------------------------------------
(***************************************************************************)
(* Subscriptions.                                                          *)
(***************************************************************************)
\* The pool of subscriptions.
LEMMA SubPool ==
  /\ DMP_MAX_SUBSCRIPTIONS \in Nat /\ 1 \in Subs /\ NoSub \notin Subs
  /\ IsFiniteSet(Subs) /\ Subs \in SUBSET Nat
<1>1. DMP_MAX_SUBSCRIPTIONS \in Nat /\ DMP_MAX_SUBSCRIPTIONS > 0
  BY DmpAssumption
<1>2. IsFiniteSet(1 .. DMP_MAX_SUBSCRIPTIONS)
  BY <1>1, FS_Interval
<1> QED
  BY <1>1, <1>2 DEF Subs, NoSub

\* Where the slots lead.
LEMMA SubLinksPool ==
  ASSUME SubTypeOK
  PROVE  /\ Pool(Subs, SubLinks) /\ DOMAIN SubLinks = Subs
         /\ \A i \in Subs : SubLinks[i] = subs[i].next
<1>1. \A i \in Subs : subs[i].next \in Subs \cup {0}
  BY DEF SubTypeOK, SubType, NoSub
<1> QED
  BY <1>1, SubPool DEF Pool, SubLinks, NoSub

\* The list of a component is made of slots, and it begins with its head.
LEMMA ChainOfSlots ==
  ASSUME SubTypeOK, NEW c \in Remotes
  PROVE  /\ Chain(c) \in Seq(Subs)
         /\ \A i \in 1 .. Len(Chain(c)) : Chain(c)[i] \in Subs
         /\ Chain(c) # <<>> => heads[c] \in Subs
<1>1. Pool(Subs, SubLinks) /\ DOMAIN SubLinks = Subs
  BY SubLinksPool
<1>2. heads[c] \in Subs \cup {0}
  BY DEF SubTypeOK, NoSub
<1>3. Follows(SubLinks, heads[c], Cardinality(Subs), Walk(SubLinks, heads[c]))
  BY <1>1, <1>2, WalkFollows
<1>4. Chain(c) \in Seq(Subs)
  BY <1>1, <1>3 DEF Follows, Chained, Chain
<1>5. Chain(c) # <<>> => heads[c] # 0
  BY <1>3 DEF Follows, Chain
<1> QED
  BY <1>2, <1>4, <1>5

\* A list of one slot, and an empty list.
LEMMA ShortChain ==
  ASSUME SubTypeOK, NEW c \in Remotes
  PROVE  /\ heads[c] = NoSub => Chain(c) = <<>> /\ ~EndlessChain(c)
         /\ heads[c] \in Subs /\ subs[heads[c]].next = NoSub =>
              Chain(c) = <<heads[c]>> /\ ~EndlessChain(c)
<1>1. Pool(Subs, SubLinks) /\ DOMAIN SubLinks = Subs
      /\ \A i \in Subs : SubLinks[i] = subs[i].next
  BY SubLinksPool
<1>2. heads[c] \in Subs \cup {0}
  BY DEF SubTypeOK, NoSub
<1>3. ASSUME heads[c] = NoSub PROVE Chain(c) = <<>> /\ ~EndlessChain(c)
  <2>1. WholeList(SubLinks, heads[c], <<>>)
    BY <1>3 DEF WholeList, Chained, NoSub
  <2> QED
    BY <1>1, <1>2, <2>1, ListIsWalk DEF Chain, EndlessChain
<1>4. ASSUME heads[c] \in Subs, subs[heads[c]].next = NoSub
      PROVE  Chain(c) = <<heads[c]>> /\ ~EndlessChain(c)
  <2> DEFINE h == heads[c]
             q == <<h>>
  <2>1. q \in Seq(Subs) /\ Len(q) = 1 /\ q[1] = h /\ q # <<>>
    BY <1>4
  <2>2. SubLinks[h] = 0
    BY <1>1, <1>4 DEF NoSub
  <2> HIDE DEF q
  <2>3. \A i \in 1 .. Len(q) - 1 : SubLinks[q[i]] = q[i + 1]
    BY <2>1
  <2>4. WholeList(SubLinks, heads[c], q)
    BY <1>1, <2>1, <2>2, <2>3 DEF WholeList, Chained
  <2> QED
    BY <1>1, <1>2, <2>4, ListIsWalk DEF Chain, EndlessChain, q
<1> QED
  BY <1>3, <1>4

\* A slot is always found: none is ever marked as used.
LEMMA SlotFound ==
  ASSUME SubTypeOK
  PROVE  dmpm_new_subscription \in Subs
<1> DEFINE free == {i \in Subs : subs[i].state = "EMPTY"}
<1>1. free = Subs
  BY DEF SubTypeOK, SubType
<1>2. \E i \in Subs : \A j \in Subs : i <= j
  BY SubPool, Smallest
<1>3. Subs # {}
  BY SubPool
<1> QED
  BY <1>1, <1>2, <1>3 DEF dmpm_new_subscription

\* What a subscription does to the types.
LEMMA SubscribeTypes ==
  ASSUME SubTypeOK, NEW c \in Remotes, NEW p \in Properties, Subscribe(c, p)
  PROVE  SubTypeOK'
<1>1. wanted' \subseteq Remotes \X Properties
  BY DEF SubTypeOK, Subscribe
<1>2. CASE UNCHANGED <<subs, heads, refs>> /\ end' \in {end, "hung"}
  BY <1>1, <1>2 DEF SubTypeOK
<1>3. CASE dmp_add_subscription(c, p) /\ end' = end
  <2> DEFINE i == dmpm_new_subscription
             s == [property |-> p, state |-> "EMPTY", next |-> heads[c]]
  <2>1. i \in Subs
    BY SlotFound
  <2>2. s \in SubType
    BY DEF SubTypeOK, SubType
  <2>3. /\ subs' = [subs EXCEPT ![i] = s] /\ heads' = [heads EXCEPT ![c] = i]
        /\ refs' = [refs EXCEPT ![p] = @ + 1]
    BY <1>3 DEF dmp_add_subscription
  <2> HIDE DEF i, s
  <2>4. subs' \in [Subs -> SubType]
    BY <2>1, <2>2, <2>3 DEF SubTypeOK
  <2>5. heads' \in [Remotes -> Subs \cup {NoSub}]
    BY <2>1, <2>3 DEF SubTypeOK
  <2>6. refs' \in [Properties -> Int]
    BY <2>3 DEF SubTypeOK
  <2> QED
    BY <1>1, <1>3, <2>4, <2>5, <2>6 DEF SubTypeOK
<1> QED
  BY <1>2, <1>3 DEF Subscribe

\* What giving one up does to the types.
LEMMA UnsubscribeTypes ==
  ASSUME SubTypeOK, NEW c \in Remotes, NEW p \in Properties, Unsubscribe(c, p)
  PROVE  SubTypeOK'
<1> DEFINE chain == Chain(c)
           after == {i \in 1 .. Len(chain) - 1 : subs[chain[i + 1]].property = p}
           n == CHOOSE i \in after : \A j \in after : i <= j
<1>1. wanted' \subseteq Remotes \X Properties
  BY DEF SubTypeOK, Unsubscribe
<1>2. CASE UNCHANGED <<subs, heads, refs>> /\ end' \in {"hung", "crashed"}
  BY <1>1, <1>2 DEF SubTypeOK
<1>3. CASE /\ chain # <<>>
           /\ heads' = [heads EXCEPT ![c] = subs[@].next]
           /\ refs' = [refs EXCEPT ![p] = @ - 1]
           /\ UNCHANGED <<subs, end>>
  <2>1. heads[c] \in Subs
    BY <1>3, ChainOfSlots
  <2>2. subs[heads[c]].next \in Subs \cup {NoSub}
    BY <2>1 DEF SubTypeOK, SubType
  <2>3. heads' \in [Remotes -> Subs \cup {NoSub}]
    BY <1>3, <2>2 DEF SubTypeOK
  <2>4. refs' \in [Properties -> Int]
    BY <1>3 DEF SubTypeOK
  <2> QED
    BY <1>1, <1>3, <2>3, <2>4 DEF SubTypeOK
<1>4. CASE /\ after # {}
           /\ subs' = [subs EXCEPT ![chain[n]].next = subs[chain[n + 1]].next]
           /\ refs' = [refs EXCEPT ![p] = @ - 1]
           /\ UNCHANGED <<heads, end>>
  <2>1. chain \in Seq(Subs) /\ \A i \in 1 .. Len(chain) : chain[i] \in Subs
    BY ChainOfSlots
  <2>2. after \in SUBSET Nat
    OBVIOUS
  <2>3. \E i \in after : \A j \in after : i <= j
    <3> HIDE DEF after
    <3> QED
      BY <1>4, <2>2, Smallest
  <2>4. n \in after
    BY <2>3
  <2>5. n \in 1 .. Len(chain) /\ n + 1 \in 1 .. Len(chain)
    <3> HIDE DEF n
    <3> QED
      BY <2>1, <2>4
  <2> HIDE DEF n, chain
  <2>6. chain[n] \in Subs /\ chain[n + 1] \in Subs
    BY <2>1, <2>5
  <2>7. subs[chain[n + 1]].next \in Subs \cup {NoSub}
    BY <2>6 DEF SubTypeOK, SubType
  <2>8. subs' \in [Subs -> SubType]
    BY <1>4, <2>6, <2>7 DEF SubTypeOK, SubType
  <2>9. refs' \in [Properties -> Int]
    BY <1>4 DEF SubTypeOK
  <2> QED
    BY <1>1, <1>4, <2>8, <2>9 DEF SubTypeOK
<1> QED
  BY <1>2, <1>3, <1>4 DEF Unsubscribe

\* With one subscription, what the lists are.
LEMMA ListsOfOne ==
  ASSUME SubTypeOK, NEW c, NEW p, NEW i, OnlyOne(c, p, i), NEW d \in Remotes
  PROVE  /\ d = c => Chain(d) = <<i>> /\ heads[d] = i
         /\ d # c => Chain(d) = <<>>
         /\ ~EndlessChain(d)
<1>1. c \in Remotes /\ i \in Subs /\ subs[i].next = NoSub
      /\ heads = [e \in Remotes |-> IF e = c THEN i ELSE NoSub]
  BY DEF OnlyOne
<1>2. CASE d = c
  <2>1. heads[d] = i
    BY <1>1, <1>2
  <2> QED
    BY <1>1, <1>2, <2>1, ShortChain
<1>3. CASE d # c
  <2>1. heads[d] = NoSub
    BY <1>1, <1>3
  <2> QED
    BY <1>3, <2>1, ShortChain
<1> QED
  BY <1>2, <1>3

\* With none, the lists are empty.
LEMMA ListsOfNone ==
  ASSUME SubTypeOK, NoneHeld, NEW d \in Remotes
  PROVE  heads[d] = NoSub /\ Chain(d) = <<>> /\ ~EndlessChain(d)
<1>1. heads[d] = NoSub
  BY DEF NoneHeld
<1> QED
  BY <1>1, ShortChain

\* A subscription that is added while there is no other is the only one.
LEMMA SubscribeOne ==
  ASSUME SubTypeOK, OneAtMost, NEW c \in Remotes, NEW p \in Properties, Subscribe(c, p)
  PROVE  OneAtMost'
<1> SUFFICES ASSUME ~several'
             PROVE  end' = "runs" /\ (NoneHeld \/ \E d \in Remotes, q \in Properties, i \in Subs : OnlyOne(d, q, i))'
  BY DEF OneAtMost
<1>1. wanted' = wanted \cup {<<c, p>>} /\ end = "runs"
  BY DEF Subscribe
<1>2. several' = several \/ (several' = (several \/ wanted # {}))
  BY DEF Subscribe
<1>3. ~several
  BY <1>2
<1>4. CASE NoneHeld
  <2>1. Chain(c) = <<>> /\ ~EndlessChain(c) /\ heads[c] = NoSub
    BY <1>4, ListsOfNone
  <2>2. ~dmp_find_subscription(c, p)
    BY <2>1 DEF dmp_find_subscription
  <2>3. dmp_add_subscription(c, p) /\ end' = end
    BY <2>1, <2>2 DEF Subscribe
  <2> DEFINE s == [property |-> p, state |-> "EMPTY", next |-> heads[c]]
  <2>4. PICK i \in Subs : i = dmpm_new_subscription
    BY SlotFound
  <2>5. s.property = p /\ s.next = NoSub
    BY <2>1
  <2>6. /\ subs' = [subs EXCEPT ![i] = s] /\ heads' = [heads EXCEPT ![c] = i]
        /\ refs' = [refs EXCEPT ![p] = @ + 1]
    BY <2>3, <2>4 DEF dmp_add_subscription
  <2> HIDE DEF s
  <2>7. wanted' = {<<c, p>>}
    BY <1>1, <1>4 DEF NoneHeld
  <2>8. heads' = [d \in Remotes |-> IF d = c THEN i ELSE NoSub]
    BY <1>4, <2>6 DEF NoneHeld
  <2>9. subs'[i].property = p /\ subs'[i].next = NoSub
    BY <2>4, <2>5, <2>6 DEF SubTypeOK
  <2>10. refs' = [q \in Properties |-> IF q = p THEN 1 ELSE 0]
    BY <1>4, <2>6 DEF NoneHeld
  <2>11. OnlyOne(c, p, i)'
    BY <2>4, <2>7, <2>8, <2>9, <2>10 DEF OnlyOne
  <2> QED
    BY <1>1, <2>3, <2>4, <2>11
<1>5. ASSUME NEW d \in Remotes, NEW q \in Properties, NEW i \in Subs, OnlyOne(d, q, i)
      PROVE  OnlyOne(d, q, i)' /\ end' = "runs"
  <2>1. wanted = {<<d, q>>} /\ subs[i].property = q
    BY <1>5 DEF OnlyOne
  <2>2. ~EndlessChain(c)
    BY <1>5, ListsOfOne
  <2>3. dmp_find_subscription(c, p)
    BY <2>1, <2>2 DEF Subscribe
  <2>4. UNCHANGED <<subs, heads, refs, end>>
    BY <2>3 DEF Subscribe
  <2>5. c = d
    BY <1>5, <2>3, ListsOfOne DEF dmp_find_subscription
  <2>6. Chain(c) = <<i>>
    BY <1>5, <2>5, ListsOfOne
  <2>7. p = q
    BY <2>1, <2>3, <2>6 DEF dmp_find_subscription
  <2>8. wanted' = wanted
    BY <1>1, <2>1, <2>5, <2>7
  <2> QED
    BY <1>1, <1>5, <2>4, <2>8 DEF OnlyOne
<1> QED
  BY <1>3, <1>4, <1>5 DEF OneAtMost

\* Only what is subscribed is given up, and then there is none.
LEMMA UnsubscribeOne ==
  ASSUME SubTypeOK, OneAtMost, NEW c \in Remotes, NEW p \in Properties, Unsubscribe(c, p)
  PROVE  OneAtMost'
<1> SUFFICES ASSUME ~several'
             PROVE  end' = "runs" /\ (NoneHeld \/ \E d \in Remotes, q \in Properties, i \in Subs : OnlyOne(d, q, i))'
  BY DEF OneAtMost
<1>1. /\ wanted' = wanted \ {<<c, p>>} /\ <<c, p>> \in wanted /\ end = "runs"
      /\ several' = several
  BY DEF Unsubscribe
<1>2. ~NoneHeld
  BY <1>1 DEF NoneHeld
<1>3. PICK d \in Remotes, q \in Properties, i \in Subs : OnlyOne(d, q, i)
  BY <1>1, <1>2 DEF OneAtMost
<1>4. wanted = {<<c, p>>} /\ d = c /\ q = p
  BY <1>1, <1>3 DEF OnlyOne
<1>5. Chain(c) = <<i>> /\ heads[c] = i /\ subs[i].property = p /\ subs[i].next = NoSub
  BY <1>3, <1>4, ListsOfOne DEF OnlyOne
<1>6. /\ heads' = [heads EXCEPT ![c] = subs[@].next]
      /\ refs' = [refs EXCEPT ![p] = @ - 1] /\ end' = end
  BY <1>5 DEF Unsubscribe
<1>7. heads' = [e \in Remotes |-> NoSub]
  BY <1>3, <1>4, <1>5, <1>6 DEF OnlyOne
<1>8. refs' = [e \in Properties |-> 0]
  BY <1>3, <1>4, <1>6 DEF OnlyOne
<1>9. wanted' = {}
  BY <1>1, <1>4
<1> QED
  BY <1>1, <1>6, <1>7, <1>8, <1>9 DEF NoneHeld

-----------------------------------------------------------------------------
(***************************************************************************)
(* Addresses.                                                              *)
(***************************************************************************)
AddressRange == [kind : {"virtual", "actual"}, start : Nat, inc : Nat, num : Nat \ {0}]
Lasts == [{"virtual", "actual"} -> Nat]

\* d holds what the first k headers are decoded to.
IsDecoded(headers, k, d) ==
  d = [n \in 0 .. k |->
         IF n = 0 THEN [range |-> <<>>, last |-> last]
         ELSE dmp_decode_address_header(headers[n], d[n - 1].last)]

\* Header h stands for the range r after the addresses l.
Stands(h, l, r) ==
  /\ h.kind = r.kind /\ h.inc = r.inc /\ h.num = r.num
  /\ h.start + (IF h.relative THEN l[h.kind] ELSE 0) = r.start

\* The last address of a range is a number, a single address its own last one.
LEMMA LastAddress ==
  ASSUME NEW r \in AddressRange
  PROVE  /\ LastOf(r) \in Nat
         /\ LastOf(Single(r)) = LastOf(r)
         /\ Single(r) = [kind |-> r.kind, start |-> r.start,
                         inc |-> IF r.num = 1 THEN 0 ELSE r.inc, num |-> r.num]
<1>1. r.start \in Nat /\ r.inc \in Nat /\ r.num \in Nat /\ r.num > 0
  BY DEF AddressRange
<1>2. Single(r) = [kind |-> r.kind, start |-> r.start,
                   inc |-> IF r.num = 1 THEN 0 ELSE r.inc, num |-> r.num]
  BY DEF Single, AddressRange
<1>3. \A a, b, n \in Nat : n > 0 => a + (n - 1) * b \in Nat
  BY SMT
<1>4. LastOf(r) \in Nat
  BY <1>1, <1>3 DEF LastOf
<1>5. CASE r.num = 1
  <2>1. Single(r).num = 1 /\ Single(r).start = r.start /\ Single(r).inc = 0
    BY <1>2, <1>5
  <2>2. LastOf(Single(r)) = r.start /\ LastOf(r) = r.start
    BY <1>1, <1>5, <2>1 DEF LastOf
  <2> QED
    BY <1>2, <1>4, <2>2
<1>6. CASE r.num # 1
  <2>1. Single(r).num = r.num /\ Single(r).start = r.start /\ Single(r).inc = r.inc
    BY <1>2, <1>6
  <2> QED
    BY <1>2, <1>4, <2>1 DEF LastOf
<1> QED
  BY <1>5, <1>6

\* A header is decoded to the range it stands for, and its last address is
\* remembered.
LEMMA DecodeOne ==
  ASSUME NEW h, NEW l \in Lasts, NEW r \in AddressRange, Stands(h, l, r)
  PROVE  /\ dmp_decode_address_header(h, l).range = Single(r)
         /\ dmp_decode_address_header(h, l).last = [l EXCEPT ![r.kind] = LastOf(r)]
         /\ dmp_decode_address_header(h, l).last \in Lasts
<1> DEFINE s == [kind |-> h.kind, start |-> h.start + (IF h.relative THEN l[h.kind] ELSE 0),
                 inc |-> IF h.num = 1 THEN 0 ELSE h.inc, num |-> h.num]
<1>1. s = Single(r)
  BY LastAddress DEF Stands
<1>2. /\ dmp_decode_address_header(h, l).range = s
      /\ dmp_decode_address_header(h, l).last = [l EXCEPT ![h.kind] = LastOf(s)]
  BY DEF dmp_decode_address_header
<1> HIDE DEF s
<1>3. LastOf(s) = LastOf(r) /\ LastOf(r) \in Nat /\ h.kind = r.kind
      /\ r.kind \in {"virtual", "actual"}
  BY <1>1, LastAddress DEF Stands, AddressRange
<1>4. [l EXCEPT ![r.kind] = LastOf(r)] \in Lasts
  BY <1>3 DEF Lasts
<1> QED
  BY <1>1, <1>2, <1>3, <1>4

\* Headers can be decoded, as many as there are.
LEMMA DecodedExists ==
  ASSUME NEW headers, NEW k \in Nat
  PROVE  \E d : IsDecoded(headers, k, d)
<1> DEFINE Bad == {n \in Nat : \A d : ~IsDecoded(headers, n, d)}
<1> SUFFICES ASSUME Bad # {} PROVE FALSE
  OBVIOUS
<1>1. PICK n \in Bad : \A m \in Bad : n <= m
  BY Smallest
<1>2. CASE n = 0
  <2> DEFINE d == [m \in 0 .. 0 |-> [range |-> <<>>, last |-> last]]
  <2>1. IsDecoded(headers, 0, d)
    BY DEF IsDecoded
  <2> QED
    BY <1>1, <1>2, <2>1
<1>3. CASE n > 0
  <2>1. n - 1 \in Nat /\ n - 1 \notin Bad
    BY <1>1, <1>3
  <2>2. PICK e : IsDecoded(headers, n - 1, e)
    BY <2>1
  <2> DEFINE d == [m \in 0 .. n |->
                     IF m = 0 THEN [range |-> <<>>, last |-> last]
                     ELSE dmp_decode_address_header(headers[m], e[m - 1].last)]
  <2>3. \A m \in 0 .. n - 1 : d[m] = e[m]
    BY <2>1, <2>2 DEF IsDecoded
  <2>4. \A m \in 0 .. n : m # 0 => m - 1 \in 0 .. n - 1
    BY <2>1
  <2>5. d = [m \in 0 .. n |->
               IF m = 0 THEN [range |-> <<>>, last |-> last]
               ELSE dmp_decode_address_header(headers[m], d[m - 1].last)]
    <3>1. \A m \in 0 .. n : m # 0 => d[m - 1] = e[m - 1]
      BY <2>3, <2>4
    <3> QED
      BY <3>1
  <2> HIDE DEF d
  <2>6. IsDecoded(headers, n, d)
    BY <2>5 DEF IsDecoded
  <2> QED
    BY <1>1, <2>6
<1> QED
  BY <1>1, <1>2, <1>3

\* What Decoded is.
LEMMA DecodedIs ==
  ASSUME NEW headers, Len(headers) \in Nat
  PROVE  \E d : /\ IsDecoded(headers, Len(headers), d)
                /\ Decoded(headers).ranges = [i \in DOMAIN headers |-> d[i].range]
                /\ Decoded(headers).last = d[Len(headers)].last
<1> DEFINE d == CHOOSE f : IsDecoded(headers, Len(headers), f)
<1>1. IsDecoded(headers, Len(headers), d)
  BY DecodedExists
<1>2. Decoded(headers) = [ranges |-> [i \in DOMAIN headers |-> d[i].range],
                          last |-> d[Len(headers)].last]
  BY DEF Decoded, IsDecoded
<1> HIDE DEF d
<1> QED
  BY <1>1, <1>2

\* Range j is the last of its kind among the first n.
LastOfKind(ranges, n, j) ==
  j \in 1 .. n /\ \A k \in 1 .. n : ranges[k].kind = ranges[j].kind => k <= j

\* The first n headers of a block were decoded to its first n ranges, and the
\* addresses remembered are those of the last range of each kind.
Remembers(ranges, d, n) ==
  /\ d[n].last \in Lasts
  /\ n > 0 => d[n].range = Single(ranges[n])
  /\ \A j \in 1 .. n : LastOfKind(ranges, n, j) =>
       d[n].last[ranges[j].kind] = LastOf(ranges[j])

\* One more header of a block.
LEMMA OneMoreHeader ==
  ASSUME NEW N \in Nat, NEW ranges \in [1 .. N -> AddressRange], NEW headers, NEW d,
         IsDecoded(headers, N, d), NEW n \in 1 .. N, Remembers(ranges, d, n - 1),
         Stands(headers[n], d[n - 1].last, ranges[n])
  PROVE  Remembers(ranges, d, n)
<1> DEFINE r == ranges[n]
           l == d[n - 1].last
<1>1. r \in AddressRange /\ l \in Lasts
  BY DEF Remembers
<1>2. d[n] = dmp_decode_address_header(headers[n], l)
  BY DEF IsDecoded
<1>3. Stands(headers[n], l, r)
  OBVIOUS
<1> HIDE DEF l
<1>4. /\ d[n].range = Single(r) /\ d[n].last \in Lasts
      /\ d[n].last = [l EXCEPT ![r.kind] = LastOf(r)]
  BY <1>1, <1>2, <1>3, DecodeOne
<1>5. ASSUME NEW j \in 1 .. n, LastOfKind(ranges, n, j)
      PROVE  d[n].last[ranges[j].kind] = LastOf(ranges[j])
  <2>1. ranges[j].kind \in {"virtual", "actual"} /\ r.kind \in {"virtual", "actual"}
    BY DEF AddressRange
  <2>2. DOMAIN l = {"virtual", "actual"}
    BY <1>1 DEF Lasts
  <2>3. CASE j = n
    BY <1>4, <2>1, <2>2, <2>3
  <2>4. CASE j # n
    <3>1. j \in 1 .. n - 1 /\ LastOfKind(ranges, n - 1, j)
      BY <1>5, <2>4 DEF LastOfKind
    <3>2. r.kind # ranges[j].kind
      BY <1>5, <2>4 DEF LastOfKind
    <3>3. l[ranges[j].kind] = LastOf(ranges[j])
      BY <3>1 DEF Remembers, l
    <3> QED
      BY <1>4, <2>1, <2>2, <3>2, <3>3
  <2> QED
    BY <2>3, <2>4
<1> QED
  BY <1>4, <1>5 DEF Remembers

\* A block whose headers stand for its ranges is decoded to them.
LEMMA BlockDecoded ==
  ASSUME AddressesOK, NEW N \in Nat, NEW ranges \in [1 .. N -> AddressRange],
         NEW headers, DOMAIN headers = 1 .. N, Len(headers) = N,
         \A d : IsDecoded(headers, N, d) =>
           \A n \in 1 .. N : Remembers(ranges, d, n - 1) =>
             Stands(headers[n], d[n - 1].last, ranges[n])
  PROVE  /\ Decoded(headers).ranges = [i \in 1 .. N |-> Single(ranges[i])]
         /\ Decoded(headers).last \in Lasts
<1>1. PICK d : /\ IsDecoded(headers, N, d)
               /\ Decoded(headers).ranges = [i \in 1 .. N |-> d[i].range]
               /\ Decoded(headers).last = d[N].last
  BY DecodedIs
<1> DEFINE Bad == {n \in 0 .. N : ~Remembers(ranges, d, n)}
<1>2. Bad = {}
  <2> SUFFICES ASSUME Bad # {} PROVE FALSE
    OBVIOUS
  <2>1. Bad \in SUBSET Nat
    OBVIOUS
  <2>2. PICK n \in Bad : \A m \in Bad : n <= m
    BY <2>1, Smallest
  <2>3. CASE n = 0
    <3>1. d[0].last = last
      BY <1>1 DEF IsDecoded
    <3>2. Remembers(ranges, d, 0)
      BY <3>1 DEF Remembers, AddressesOK, Lasts
    <3> QED
      BY <2>2, <2>3, <3>2
  <2>4. CASE n > 0
    <3>1. n \in 1 .. N /\ n - 1 \in 0 .. N /\ n - 1 \notin Bad
      BY <2>2, <2>4
    <3>2. Remembers(ranges, d, n - 1)
      BY <3>1
    <3>3. Stands(headers[n], d[n - 1].last, ranges[n])
      BY <1>1, <3>1, <3>2
    <3>4. Remembers(ranges, d, n)
      BY <1>1, <3>1, <3>2, <3>3, OneMoreHeader
    <3> QED
      BY <2>2, <3>4
  <2> QED
    BY <2>2, <2>3, <2>4
<1>3. \A n \in 0 .. N : Remembers(ranges, d, n)
  BY <1>2
<1>4. d[N].last \in Lasts
  BY <1>3 DEF Remembers
<1>5. \A n \in 1 .. N : d[n].range = Single(ranges[n])
  BY <1>3 DEF Remembers
<1> QED
  BY <1>1, <1>4, <1>5

\* What is left of a step after which what was heard is what was meant.
LEMMA Understood ==
  ASSUME NEW N \in Nat, NEW ranges \in [1 .. N -> AddressRange], last' \in Lasts,
         heard'.got = [i \in 1 .. N |-> Single(ranges[i])], heard'.meant = heard'.got
  PROVE  AddressesOK'
<1>1. \A i \in 1 .. N : Single(ranges[i]).num > 0
  BY LastAddress DEF AddressRange
<1>2. \A i \in DOMAIN heard'.got : heard'.got[i].num > 0
  BY <1>1
<1> QED
  BY <1>2 DEF AddressesOK, Lasts

\* The ranges of the model are address ranges.
LEMMA RangesAre == Ranges \subseteq AddressRange
<1>1. Starts \subseteq Nat /\ Incs \subseteq Nat /\ MaxCount \in Nat
  BY DmpAssumption
<1>2. 1 .. MaxCount \subseteq Nat \ {0}
  BY <1>1
<1> QED
  BY <1>1, <1>2 DEF Ranges, AddressRange

\* What fits in the octets of a field is not cut.
LEMMA NotCut ==
  ASSUME NEW octets \in Sizes, NEW v \in Nat
  PROVE  /\ v \in 0 .. 256 ^ octets - 1 => Cut(v, octets) = v
         /\ Cut(v % 256, octets) = v % 256 /\ v % 256 \in Nat
<1>1. CASE octets = 1
  BY <1>1 DEF Cut
<1>2. CASE octets = 2
  BY <1>2 DEF Cut
<1> QED
  BY <1>1, <1>2 DEF Sizes

\* A header of this code is understood, its start modulo 256.
LEMMA OursUnderstood ==
  ASSUME AddressesOK, NEW r \in Ranges, NEW octets \in Sizes, HearOurs(r, octets)
  PROVE  AddressesOK'
<1> DEFINE h == dmp_encode_address_header(r, octets)
           s == [r EXCEPT !.start = r.start % 256]
           headers == <<h>>
           ranges == [i \in 1 .. 1 |-> s]
<1>1. r \in AddressRange
  BY RangesAre
<1>2. r.start \in Nat /\ r.inc \in Nat /\ r.num \in Nat
  BY <1>1 DEF AddressRange
<1>3. /\ Cut(r.inc, octets) = r.inc /\ Cut(r.num, octets) = r.num
      /\ Cut(r.start % 256, octets) = r.start % 256 /\ r.start % 256 \in Nat
  BY <1>2, NotCut DEF HearOurs
<1>4. /\ h.kind = r.kind /\ h.inc = r.inc /\ h.num = r.num
      /\ h.start = r.start % 256 /\ h.relative = FALSE
  BY <1>3 DEF dmp_encode_address_header
<1>5. /\ s \in AddressRange /\ s.kind = r.kind /\ s.inc = r.inc /\ s.num = r.num
      /\ s.start = r.start % 256
  BY <1>1, <1>3 DEF AddressRange
<1>6. Single(s) = [Single(r) EXCEPT !.start = @ % 256]
  <2> HIDE DEF s
  <2>1. Single(s) = [kind |-> r.kind, start |-> r.start % 256,
                     inc |-> IF r.num = 1 THEN 0 ELSE r.inc, num |-> r.num]
    BY <1>5, LastAddress
  <2>2. Single(r) = [kind |-> r.kind, start |-> r.start,
                     inc |-> IF r.num = 1 THEN 0 ELSE r.inc, num |-> r.num]
    BY <1>1, LastAddress
  <2> QED
    BY <2>1, <2>2
<1>7. /\ heard'.got = Decoded(headers).ranges /\ last' = Decoded(headers).last
      /\ heard'.meant = <<Single(s)>>
  BY <1>6 DEF HearOurs
<1> HIDE DEF h, s
<1>8. \A l : Stands(h, l, s)
  BY <1>3, <1>4, <1>5 DEF Stands
<1>9. DOMAIN headers = 1 .. 1 /\ Len(headers) = 1 /\ headers[1] = h
  OBVIOUS
<1>10. ranges \in [1 .. 1 -> AddressRange] /\ ranges[1] = s
  BY <1>5
<1>11. \A d, n : n \in 1 .. 1 => Stands(headers[n], d[n - 1].last, ranges[n])
  BY <1>8, <1>9, <1>10
<1> HIDE DEF headers, ranges
<1>12. /\ Decoded(headers).ranges = [i \in 1 .. 1 |-> Single(ranges[i])]
       /\ Decoded(headers).last \in Lasts
  BY <1>9, <1>10, <1>11, BlockDecoded
<1>13. [i \in 1 .. 1 |-> Single(ranges[i])] = <<Single(s)>>
  BY <1>10
<1> QED
  BY <1>7, <1>10, <1>12, <1>13, Understood

\* So is every header of a block of another sender.
LEMMA OthersUnderstood ==
  ASSUME AddressesOK, NEW N \in 1 .. MaxRanges, NEW ranges \in [1 .. N -> Ranges],
         NEW rel \in SUBSET (1 .. N), HearOthers(ranges, rel)
  PROVE  AddressesOK'
<1> DEFINE before(i) == {j \in 1 .. i - 1 : ranges[j].kind = ranges[i].kind}
           m(i) == CHOOSE j \in before(i) : \A k \in before(i) : k <= j
           base(i) == LastOf(ranges[m(i)])
           header(i) == [kind |-> ranges[i].kind, octets |-> 2, relative |-> i \in rel,
                         start |-> ranges[i].start - (IF i \in rel THEN base(i) ELSE 0),
                         inc |-> ranges[i].inc, num |-> ranges[i].num]
           headers == [i \in 1 .. N |-> header(i)]
<1>1. N \in Nat /\ ranges \in [1 .. N -> AddressRange] /\ DOMAIN ranges = 1 .. N
  BY RangesAre, DmpAssumption
<1>2. DOMAIN headers = 1 .. N /\ Len(headers) = N
  BY <1>1
<1>3. \A i \in rel : before(i) # {} /\ base(i) <= ranges[i].start
  BY <1>1 DEF HearOthers
<1>4. /\ heard'.got = Decoded(headers).ranges /\ last' = Decoded(headers).last
      /\ heard'.meant = [i \in 1 .. N |-> Single(ranges[i])]
  BY <1>1 DEF HearOthers
<1>5. ASSUME NEW i \in rel, NEW d, Remembers(ranges, d, i - 1)
      PROVE  d[i - 1].last[ranges[i].kind] = base(i)
  <2>1. i \in 1 .. N /\ before(i) \in SUBSET Nat /\ before(i) # {}
    BY <1>1, <1>3
  <2>2. before(i) \in SUBSET (0 .. i - 1) /\ i - 1 \in Nat
    BY <2>1
  <2>3. \E j \in before(i) : \A k \in before(i) : k <= j
    <3> HIDE DEF before
    <3> QED
      BY <2>1, <2>2, Largest
  <2>4. m(i) \in before(i) /\ \A k \in before(i) : k <= m(i)
    BY <2>3
  <2> DEFINE j == m(i)
  <2> HIDE DEF m
  <2>5. j \in 1 .. i - 1 /\ ranges[j].kind = ranges[i].kind
    BY <2>4
  <2>6. LastOfKind(ranges, i - 1, j)
    BY <2>4, <2>5 DEF LastOfKind
  <2>7. d[i - 1].last[ranges[j].kind] = LastOf(ranges[j])
    BY <1>5, <2>5, <2>6 DEF Remembers
  <2> QED
    BY <2>5, <2>7
<1>6. ASSUME NEW d, NEW n \in 1 .. N, Remembers(ranges, d, n - 1)
      PROVE  Stands(headers[n], d[n - 1].last, ranges[n])
  <2> DEFINE l == d[n - 1].last
  <2>1. /\ headers[n].kind = ranges[n].kind /\ headers[n].inc = ranges[n].inc
        /\ headers[n].num = ranges[n].num /\ (headers[n].relative <=> n \in rel)
        /\ headers[n].start = ranges[n].start - (IF n \in rel THEN base(n) ELSE 0)
    <3> HIDE DEF base
    <3> QED
      OBVIOUS
  <2>2. ranges[n].start \in Nat /\ ranges[n].kind \in {"virtual", "actual"}
    BY <1>1 DEF AddressRange
  <2>3. l[ranges[n].kind] \in Nat
    BY <1>6, <2>2 DEF Remembers, Lasts
  <2>4. n \in rel => base(n) = l[ranges[n].kind]
    BY <1>5, <1>6
  <2> HIDE DEF headers, base, l
  <2>5. headers[n].start + (IF headers[n].relative THEN l[headers[n].kind] ELSE 0) = ranges[n].start
    BY <2>1, <2>2, <2>3, <2>4
  <2> QED
    BY <2>1, <2>5 DEF Stands, l
<1> HIDE DEF headers
<1>7. \A d : IsDecoded(headers, N, d) =>
        \A n \in 1 .. N : Remembers(ranges, d, n - 1) =>
          Stands(headers[n], d[n - 1].last, ranges[n])
  BY <1>6
<1>8. /\ Decoded(headers).ranges = [i \in 1 .. N |-> Single(ranges[i])]
      /\ Decoded(headers).last \in Lasts
  BY <1>1, <1>2, <1>7, BlockDecoded
<1> QED
  BY <1>1, <1>4, <1>8, Understood

-----------------------------------------------------------------------------

\* Before the first call - the pool empty, no address read - every part of the
\* invariant holds.
LEMMA DmpInitIInv == DmpInit => DmpIInv
<1> SUFFICES ASSUME DmpInit PROVE DmpIInv
  OBVIOUS
<1>1. SubTypeOK
  BY DEF DmpInit, SubTypeOK, SubType
<1>2. OneAtMost
  BY DEF DmpInit, OneAtMost, NoneHeld
<1>3. AddressesOK
  <2>1. last \in [{"virtual", "actual"} -> Nat]
    BY DEF DmpInit
  <2>2. heard.got = <<>> /\ heard.meant = <<>>
    BY DEF DmpInit
  <2> QED
    BY <2>1, <2>2 DEF AddressesOK
<1> QED
  BY <1>1, <1>2, <1>3 DEF DmpIInv

\* Every call on the subscription pool, and every addressing of a message,
\* keeps the three parts of the invariant.
LEMMA DmpStepIInv == DmpIInv /\ [DmpNext]_dmpVars => DmpIInv'
<1> SUFFICES ASSUME DmpIInv, [DmpNext]_dmpVars PROVE DmpIInv'
  OBVIOUS
<1>1. SubTypeOK /\ OneAtMost /\ AddressesOK
  BY DEF DmpIInv
<1>2. ASSUME UNCHANGED <<last, heard>> PROVE AddressesOK'
  BY <1>1, <1>2 DEF AddressesOK
<1>3. ASSUME UNCHANGED <<subs, heads, refs, end, wanted, several>>
      PROVE  SubTypeOK' /\ OneAtMost'
  BY <1>1, <1>3 DEF SubTypeOK, OneAtMost, NoneHeld, OnlyOne
<1>4. ASSUME NEW c \in Remotes, NEW p \in Properties, Subscribe(c, p)
      PROVE  DmpIInv'
  <2>1. UNCHANGED <<last, heard>>
    BY <1>4 DEF Subscribe
  <2> QED
    BY <1>1, <1>2, <1>4, <2>1, SubscribeTypes, SubscribeOne DEF DmpIInv
<1>5. ASSUME NEW c \in Remotes, NEW p \in Properties, Unsubscribe(c, p)
      PROVE  DmpIInv'
  <2>1. UNCHANGED <<last, heard>>
    BY <1>5 DEF Unsubscribe
  <2> QED
    BY <1>1, <1>2, <1>5, <2>1, UnsubscribeTypes, UnsubscribeOne DEF DmpIInv
<1>6. ASSUME NEW r \in Ranges, NEW octets \in Sizes, HearOurs(r, octets)
      PROVE  DmpIInv'
  <2>1. UNCHANGED <<subs, heads, refs, end, wanted, several>>
    BY <1>6 DEF HearOurs
  <2> QED
    BY <1>1, <1>3, <1>6, <2>1, OursUnderstood DEF DmpIInv
<1>7. ASSUME NEW n \in 1 .. MaxRanges, NEW ranges \in [1 .. n -> Ranges],
             NEW rel \in SUBSET (1 .. n), HearOthers(ranges, rel)
      PROVE  DmpIInv'
  <2>1. UNCHANGED <<subs, heads, refs, end, wanted, several>>
    BY <1>7 DEF HearOthers
  <2> QED
    BY <1>1, <1>3, <1>7, <2>1, OthersUnderstood DEF DmpIInv
<1>8. CASE UNCHANGED dmpVars
  BY <1>1, <1>2, <1>3, <1>8 DEF dmpVars, DmpIInv
<1>9. SubscriptionNext => DmpIInv'
  BY <1>4, <1>5 DEF SubscriptionNext
<1>10. AddressNext => DmpIInv'
  BY <1>6, <1>7 DEF AddressNext
<1> QED
  BY <1>8, <1>9, <1>10 DEF DmpNext

\* DmpIInv holds in every state: the types, what one subscription is, and what
\* headers mean (dmp.c, dmpmem.c).
THEOREM DmpInvariant == DmpSpec => []DmpIInv
<1> QED
  BY DmpInitIInv, DmpStepIInv, PTL DEF DmpSpec

\* DmpTypeOK: the types; an address header that is read has at least one address
\* (dmp_decode_address_header).
THEOREM DmpTypes == DmpSpec => []DmpTypeOK
<1>1. DmpIInv => DmpTypeOK
  BY DEF DmpIInv, DmpTypeOK, SubTypeOK, SubType, AddressesOK
<1> QED
  BY <1>1, DmpInvariant, PTL

\* AddressesUnderstood: a header means to its receiver what it meant to its sender,
\* for every address and increment and however long the block
\* (dmp_encode_address_header, dmp_decode_address_header).
THEOREM HeadersUnderstood == DmpSpec => []AddressesUnderstood
<1>1. DmpIInv => AddressesUnderstood
  BY DEF DmpIInv, AddressesUnderstood, AddressesOK
<1> QED
  BY <1>1, DmpInvariant, PTL

\* SubscriptionsHeld: until a subscription is added while there is another, each
\* property is counted once for each component it is subscribed at, each list
\* holds what was subscribed, and no call loops or crashes (dmp_add_subscription,
\* dmp_del_subscription).
THEOREM OneSubscriptionHeld == DmpSpec => []SubscriptionsHeld
<1>1. DmpIInv => SubscriptionsHeld
  <2> SUFFICES ASSUME DmpIInv, ~several
               PROVE  /\ end = "runs"
                      /\ \A p \in Properties :
                           refs[p] = Cardinality({c \in Remotes : <<c, p>> \in wanted})
                      /\ \A c \in Remotes :
                           {subs[Chain(c)[i]].property : i \in DOMAIN Chain(c)} =
                             {p \in Properties : <<c, p>> \in wanted}
    BY DEF SubscriptionsHeld
  <2>1. SubTypeOK /\ OneAtMost
    BY DEF DmpIInv
  <2>2. end = "runs"
    BY <2>1 DEF OneAtMost
  <2>3. CASE NoneHeld
    <3>1. ASSUME NEW p \in Properties
          PROVE  refs[p] = Cardinality({c \in Remotes : <<c, p>> \in wanted})
      <4>1. {c \in Remotes : <<c, p>> \in wanted} = {} /\ refs[p] = 0
        BY <2>3 DEF NoneHeld
      <4> QED
        BY <4>1, FS_EmptySet
    <3>2. ASSUME NEW c \in Remotes
          PROVE  {subs[Chain(c)[i]].property : i \in DOMAIN Chain(c)} =
                   {p \in Properties : <<c, p>> \in wanted}
      <4>1. Chain(c) = <<>>
        BY <2>1, <2>3, ListsOfNone
      <4>2. {p \in Properties : <<c, p>> \in wanted} = {}
        BY <2>3 DEF NoneHeld
      <4> QED
        BY <4>1, <4>2
    <3> QED
      BY <2>2, <3>1, <3>2
  <2>4. ASSUME NEW d \in Remotes, NEW q \in Properties, NEW i \in Subs, OnlyOne(d, q, i)
        PROVE  /\ \A p \in Properties :
                    refs[p] = Cardinality({c \in Remotes : <<c, p>> \in wanted})
               /\ \A c \in Remotes :
                    {subs[Chain(c)[k]].property : k \in DOMAIN Chain(c)} =
                      {p \in Properties : <<c, p>> \in wanted}
    <3>1. /\ wanted = {<<d, q>>} /\ subs[i].property = q
          /\ refs = [p \in Properties |-> IF p = q THEN 1 ELSE 0]
      BY <2>4 DEF OnlyOne
    <3>2. ASSUME NEW p \in Properties
          PROVE  refs[p] = Cardinality({c \in Remotes : <<c, p>> \in wanted})
      <4>1. CASE p = q
        <5>1. {c \in Remotes : <<c, p>> \in wanted} = {d} /\ refs[p] = 1
          BY <3>1, <4>1
        <5> QED
          BY <5>1, FS_Singleton
      <4>2. CASE p # q
        <5>1. {c \in Remotes : <<c, p>> \in wanted} = {} /\ refs[p] = 0
          BY <3>1, <4>2
        <5> QED
          BY <5>1, FS_EmptySet
      <4> QED
        BY <4>1, <4>2
    <3>3. ASSUME NEW c \in Remotes
          PROVE  {subs[Chain(c)[k]].property : k \in DOMAIN Chain(c)} =
                   {p \in Properties : <<c, p>> \in wanted}
      <4>1. CASE c = d
        <5>1. Chain(c) = <<i>> /\ DOMAIN Chain(c) = {1} /\ Chain(c)[1] = i
          BY <2>1, <2>4, <4>1, ListsOfOne
        <5>2. {p \in Properties : <<c, p>> \in wanted} = {q}
          BY <3>1, <4>1
        <5>3. {subs[Chain(c)[k]].property : k \in DOMAIN Chain(c)} = {q}
          BY <3>1, <5>1
        <5> QED
          BY <5>2, <5>3
      <4>2. CASE c # d
        <5>1. Chain(c) = <<>>
          BY <2>1, <2>4, <4>2, ListsOfOne
        <5>2. {p \in Properties : <<c, p>> \in wanted} = {}
          BY <3>1, <4>2
        <5> QED
          BY <5>1, <5>2
      <4> QED
        BY <4>1, <4>2
    <3> QED
      BY <3>2, <3>3
  <2> QED
    BY <2>1, <2>2, <2>3, <2>4 DEF OneAtMost
<1> QED
  BY <1>1, DmpInvariant, PTL

-----------------------------------------------------------------------------
(***************************************************************************)
(* Messages: how a block is read.                                          *)
(***************************************************************************)
\* f is the loop over the first k PDUs of a block.
IsReading(block, k, f) ==
  f = [n \in 0 .. k |->
         IF n = 0 THEN [at |-> NoMessage, out |-> <<>>, ok |-> TRUE]
         ELSE IF ~f[n - 1].ok \/ ~block[n].fits THEN [f[n - 1] EXCEPT !.ok = FALSE]
         ELSE LET at == Taken(block[n], f[n - 1].at)
              IN  [at |-> at, out |-> Append(f[n - 1].out, at), ok |-> TRUE]]

\* One round of it.
Round(pdu, before) ==
  IF ~before.ok \/ ~pdu.fits THEN [before EXCEPT !.ok = FALSE]
  ELSE [at |-> Taken(pdu, before.at), out |-> Append(before.out, Taken(pdu, before.at)),
        ok |-> TRUE]

\* The loop is its rounds.
LEMMA LoopRounds ==
  ASSUME NEW block, NEW k, NEW f
  PROVE  IsReading(block, k, f) <=>
           f = [n \in 0 .. k |->
                  IF n = 0 THEN [at |-> NoMessage, out |-> <<>>, ok |-> TRUE]
                  ELSE Round(block[n], f[n - 1])]
<1> QED
  BY DEF IsReading, Round

\* The loop can be run over any number of PDUs.
LEMMA ReadingExists ==
  ASSUME NEW block, NEW k \in Nat
  PROVE  \E f : IsReading(block, k, f)
<1> DEFINE Bad == {n \in Nat : \A f : ~IsReading(block, n, f)}
           start == [at |-> NoMessage, out |-> <<>>, ok |-> TRUE]
<1> SUFFICES ASSUME Bad # {} PROVE FALSE
  OBVIOUS
<1>1. PICK n \in Bad : \A m \in Bad : n <= m
  BY Smallest
<1>2. CASE n = 0
  <2> DEFINE f == [m \in 0 .. 0 |-> start]
  <2>1. IsReading(block, 0, f)
    BY DEF IsReading
  <2> QED
    BY <1>1, <1>2, <2>1
<1>3. CASE n > 0
  <2>1. n - 1 \in Nat /\ n - 1 \notin Bad
    BY <1>1, <1>3
  <2>2. PICK e : IsReading(block, n - 1, e)
    BY <2>1
  <2> DEFINE f == [m \in 0 .. n |-> IF m = 0 THEN start ELSE Round(block[m], e[m - 1])]
  <2> HIDE DEF start
  <2>3. \A m \in 0 .. n - 1 : f[m] = e[m]
    <3>1. e = [m \in 0 .. n - 1 |-> IF m = 0 THEN start ELSE Round(block[m], e[m - 1])]
      BY <2>2, LoopRounds DEF start
    <3> QED
      BY <2>1, <3>1
  <2>4. \A m \in 0 .. n : m # 0 => m - 1 \in 0 .. n - 1
    BY <2>1
  <2>5. f = [m \in 0 .. n |-> IF m = 0 THEN start ELSE Round(block[m], f[m - 1])]
    <3>1. \A m \in 0 .. n : m # 0 => f[m - 1] = e[m - 1]
      BY <2>3, <2>4
    <3> QED
      BY <3>1
  <2> HIDE DEF f
  <2>6. IsReading(block, n, f)
    BY <2>5, LoopRounds DEF start
  <2> QED
    BY <1>1, <2>6
<1> QED
  BY <1>1, <1>2, <1>3

\* What is read of a block is what the loop gives out.
LEMMA HandlerIs ==
  ASSUME NEW block, Len(block) \in Nat, Whole(block)
  PROVE  \E f : /\ f[0] = [at |-> NoMessage, out |-> <<>>, ok |-> TRUE]
                /\ \A n \in 1 .. Len(block) : f[n] = Round(block[n], f[n - 1])
                /\ dmp_client_rx_handler(block) = f[Len(block)].out
<1> DEFINE f == CHOOSE g : IsReading(block, Len(block), g)
<1>1. IsReading(block, Len(block), f)
  BY ReadingExists
<1>2. dmp_client_rx_handler(block) = f[Len(block)].out
  BY DEF dmp_client_rx_handler, IsReading
<1> HIDE DEF f
<1> DEFINE start == [at |-> NoMessage, out |-> <<>>, ok |-> TRUE]
<1>3. f = [n \in 0 .. Len(block) |-> IF n = 0 THEN start ELSE Round(block[n], f[n - 1])]
  BY <1>1, LoopRounds
<1> HIDE DEF start
<1>4. f[0] = start
  BY <1>3
<1>5. ASSUME NEW n \in 1 .. Len(block) PROVE f[n] = Round(block[n], f[n - 1])
  <2>1. n \in 0 .. Len(block) /\ n # 0
    OBVIOUS
  <2> QED
    BY <1>3, <2>1
<1> QED
  BY <1>2, <1>4, <1>5 DEF start

\* PDU i is the last of the first n that gives the field.
Gives(block, n, field, i) ==
  /\ i \in 1 .. n /\ block[i][field] # Same
  /\ \A j \in i + 1 .. n : block[j][field] = Same

\* What the last of the first n PDUs that gives the field gives.
Given(block, n, field) ==
  block[CHOOSE i \in 1 .. n : /\ block[i][field] # Same
                              /\ \A j \in i + 1 .. n : block[j][field] = Same][field]

\* What PDU n means.
Meant(block, n) ==
  [vector |-> Given(block, n, "vector"), header |-> Given(block, n, "header"),
   data |-> Given(block, n, "data")]

\* There is such a PDU when the first gives the field.
LEMMA SomeGives ==
  ASSUME NEW block, NEW n \in Nat \ {0}, NEW field, block[1][field] # Same
  PROVE  \E i \in 1 .. n : Gives(block, n, field, i) /\ Given(block, n, field) = block[i][field]
<1> DEFINE S == {i \in 1 .. n : block[i][field] # Same}
<1>1. S \in SUBSET (0 .. n) /\ S # {}
  <2>1. 1 \in S
    OBVIOUS
  <2> QED
    BY <2>1
<1>2. PICK i \in S : \A j \in S : j <= i
  BY <1>1, Largest
<1>3. /\ i \in 1 .. n /\ block[i][field] # Same
      /\ \A j \in i + 1 .. n : block[j][field] = Same
  BY <1>2
<1> DEFINE k == CHOOSE j \in 1 .. n : /\ block[j][field] # Same
                                      /\ \A l \in j + 1 .. n : block[l][field] = Same
<1>4. /\ k \in 1 .. n /\ block[k][field] # Same
      /\ \A l \in k + 1 .. n : block[l][field] = Same
  BY <1>3
<1>5. Given(block, n, field) = block[k][field]
  BY DEF Given
<1> HIDE DEF k
<1> QED
  BY <1>4, <1>5 DEF Gives

\* One PDU more: its own field if it gives it, or what was given before.
LEMMA GivenNext ==
  ASSUME NEW block, NEW n \in Nat \ {0}, NEW field, block[1][field] # Same
  PROVE  Given(block, n, field) = IF block[n][field] = Same THEN Given(block, n - 1, field)
                                  ELSE block[n][field]
<1>1. PICK i \in 1 .. n : Gives(block, n, field, i) /\ Given(block, n, field) = block[i][field]
  BY SomeGives
<1>2. CASE block[n][field] # Same
  <2>1. i = n
    BY <1>1, <1>2 DEF Gives
  <2> QED
    BY <1>1, <1>2, <2>1
<1>3. CASE block[n][field] = Same
  <2>1. n - 1 \in Nat \ {0} /\ i \in 1 .. n - 1
    BY <1>1, <1>3 DEF Gives
  <2>2. PICK k \in 1 .. n - 1 : /\ Gives(block, n - 1, field, k)
                                /\ Given(block, n - 1, field) = block[k][field]
    BY <2>1, SomeGives
  <2>3. ~(i < k) /\ ~(k < i)
    <3>1. \A j \in i + 1 .. n - 1 : block[j][field] = Same
      BY <1>1 DEF Gives
    <3>2. \A j \in k + 1 .. n - 1 : block[j][field] = Same
      BY <2>2 DEF Gives
    <3>3. block[i][field] # Same /\ block[k][field] # Same
      BY <1>1, <2>2 DEF Gives
    <3> QED
      BY <2>1, <3>1, <3>2, <3>3
  <2>4. i = k
    BY <2>1, <2>3
  <2> QED
    BY <1>1, <1>3, <2>2, <2>4
<1> QED
  BY <1>2, <1>3

\* So the variables of the loop hold what a PDU means once it is read.
LEMMA MeantNext ==
  ASSUME NEW block, Whole(block), NEW n \in Nat \ {0}, NEW before,
         n # 1 => before = Meant(block, n - 1)
  PROVE  Taken(block[n], before) = Meant(block, n)
<1>1. /\ block[1]["vector"] # Same /\ block[1]["header"] # Same /\ block[1]["data"] # Same
  BY DEF Whole
<1>2. \A field \in {"vector", "header", "data"} :
        Given(block, n, field) = IF block[n][field] = Same THEN Given(block, n - 1, field)
                                 ELSE block[n][field]
  BY <1>1, GivenNext
<1>3. ASSUME n # 1 PROVE /\ before.vector = Given(block, n - 1, "vector")
                         /\ before.header = Given(block, n - 1, "header")
                         /\ before.data = Given(block, n - 1, "data")
  BY <1>3 DEF Meant
<1>4. /\ Given(block, n, "vector") = IF block[n].vector = Same THEN before.vector
                                     ELSE block[n].vector
      /\ Given(block, n, "header") = IF block[n].header = Same THEN before.header
                                     ELSE block[n].header
      /\ Given(block, n, "data") = IF block[n].data = Same THEN before.data
                                   ELSE block[n].data
  <2>1. CASE n = 1
    BY <1>1, <1>2, <2>1
  <2>2. CASE n # 1
    BY <1>2, <1>3, <2>2
  <2> QED
    BY <2>1, <2>2
<1> QED
  BY <1>4 DEF Taken, Meant

\* What a block means.
LEMMA MeaningIs ==
  ASSUME NEW block, Len(block) \in Nat
  PROVE  \E ends \in 0 .. Len(block) :
           /\ \A i \in 1 .. ends : block[i].fits
           /\ ends = Len(block) \/ ~block[ends + 1].fits
           /\ Meaning(block) = [n \in 1 .. ends |-> Meant(block, n)]
<1> DEFINE N == Len(block)
           S == {n \in 0 .. N : n = N \/ ~block[n + 1].fits}
           ends == CHOOSE n \in 0 .. N : /\ \A i \in 1 .. n : block[i].fits
                                         /\ n = N \/ ~block[n + 1].fits
<1>1. S \in SUBSET Nat /\ N \in S
  OBVIOUS
<1>2. PICK n \in S : \A m \in S : n <= m
  BY <1>1, Smallest
<1>3. ASSUME NEW i \in 1 .. n PROVE block[i].fits
  <2>1. i - 1 \in 0 .. N /\ i - 1 \notin S /\ (i - 1) + 1 = i
    BY <1>2
  <2> QED
    BY <2>1
<1>4. /\ ends \in 0 .. N /\ \A i \in 1 .. ends : block[i].fits
      /\ ends = N \/ ~block[ends + 1].fits
  <2>1. n \in 0 .. N /\ (n = N \/ ~block[n + 1].fits)
    BY <1>2
  <2> QED
    BY <1>3, <2>1
<1>5. Meaning(block) = [m \in 1 .. ends |-> Meant(block, m)]
  BY DEF Meaning, Meant, Given
<1> HIDE DEF ends
<1> QED
  BY <1>4, <1>5

\* What the first n PDUs mean.
MeantBy(block, n) == [i \in 1 .. n |-> Meant(block, i)]

\* The variables of the loop.
LoopAt(at, out, ok) == [at |-> at, out |-> out, ok |-> ok]

\* After n PDUs the loop f has read them all, the last of them PDU n; or it has
\* stopped after `ends'.
ReadTo(block, f, n) ==
  \E a : f[n] = LoopAt(a, MeantBy(block, n), TRUE)
         /\ (n # 0 => a = Meant(block, n))

StoppedAfter(block, f, ends, n) ==
  \E a : f[n] = LoopAt(a, MeantBy(block, ends), FALSE)

\* One PDU more.
LEMMA MeantByNext ==
  ASSUME NEW block, NEW n \in Nat \ {0}
  PROVE  Append(MeantBy(block, n - 1), Meant(block, n)) = MeantBy(block, n)
<1> DEFINE p == MeantBy(block, n - 1)
           R == {Meant(block, i) : i \in 1 .. n}
<1>1. p \in Seq(R) /\ Len(p) = n - 1 /\ \A i \in 1 .. n - 1 : p[i] = Meant(block, i)
  BY DEF MeantBy
<1>2. Meant(block, n) \in R
  OBVIOUS
<1>3. /\ Append(p, Meant(block, n)) \in Seq(R) /\ Len(Append(p, Meant(block, n))) = n
      /\ \A i \in 1 .. n : Append(p, Meant(block, n))[i] =
                             IF i = n THEN Meant(block, n) ELSE p[i]
  <2> HIDE DEF p, R
  <2> QED
    BY <1>1, <1>2
<1> DEFINE q == Append(p, Meant(block, n))
<1> HIDE DEF p
<1>4. \A i \in 1 .. n : q[i] = Meant(block, i)
  BY <1>1, <1>3
<1>5. DOMAIN q = 1 .. n /\ q = [i \in DOMAIN q |-> q[i]]
  <2>1. q \in Seq(R) /\ Len(q) = n
    BY <1>3
  <2> HIDE DEF q, R
  <2> QED
    BY <2>1
<1>6. q = MeantBy(block, n)
  <2> HIDE DEF q
  <2> QED
    BY <1>4, <1>5 DEF MeantBy
<1> QED
  BY <1>6 DEF p

\* The loop reads one PDU more.
LEMMA ReadsOn ==
  ASSUME NEW block, Whole(block), NEW n \in Nat \ {0}, NEW f, ReadTo(block, f, n - 1),
         f[n] = Round(block[n], f[n - 1]), block[n].fits
  PROVE  ReadTo(block, f, n)
<1> DEFINE b == f[n - 1]
<1>1. PICK a : /\ b = LoopAt(a, MeantBy(block, n - 1), TRUE)
               /\ n # 1 => a = Meant(block, n - 1)
  <2>1. n # 1 => n - 1 # 0
    OBVIOUS
  <2> QED
    BY <2>1 DEF ReadTo
<1>2. Taken(block[n], a) = Meant(block, n)
  BY <1>1, MeantNext
<1>3. Append(MeantBy(block, n - 1), Meant(block, n)) = MeantBy(block, n)
  BY MeantByNext
<1> HIDE DEF b
<1>4. b.at = a /\ b.out = MeantBy(block, n - 1) /\ b.ok = TRUE
  BY <1>1 DEF LoopAt
<1>5. f[n] = Round(block[n], b)
  BY DEF b
<1>6. f[n] = LoopAt(Meant(block, n), MeantBy(block, n), TRUE)
  BY <1>2, <1>3, <1>4, <1>5 DEF Round, LoopAt
<1> QED
  BY <1>6 DEF ReadTo

\* A loop that has stopped, or not.
WithOk(b, ok) == [b EXCEPT !.ok = ok]

\* What ok becomes is all that changes.
LEMMA LoopStopped ==
  ASSUME NEW b, NEW at, NEW out, NEW before, NEW after, b = LoopAt(at, out, before)
  PROVE  WithOk(b, after) = LoopAt(at, out, after)
<1> QED
  BY DEF LoopAt, WithOk

\* It stops at a PDU that does not fit, and it stays stopped.
LEMMA Stops ==
  ASSUME NEW block, NEW n, NEW ends, NEW f, f[n] = Round(block[n], f[n - 1]),
         \/ n - 1 = ends /\ ReadTo(block, f, n - 1) /\ ~block[n].fits
         \/ StoppedAfter(block, f, ends, n - 1)
  PROVE  StoppedAfter(block, f, ends, n)
<1> DEFINE b == f[n - 1]
           o == MeantBy(block, ends)
<1>1. CASE n - 1 = ends /\ ReadTo(block, f, n - 1) /\ ~block[n].fits
  <2>1. PICK a : b = LoopAt(a, o, TRUE)
    BY <1>1 DEF ReadTo
  <2> HIDE DEF b, o
  <2>2. Round(block[n], b) = WithOk(b, FALSE)
    BY <1>1 DEF Round, WithOk
  <2>3. WithOk(b, FALSE) = LoopAt(a, o, FALSE)
    <3> DEFINE was == TRUE
               is == FALSE
    <3>1. b = LoopAt(a, o, was)
      BY <2>1
    <3> HIDE DEF was, is
    <3>2. WithOk(b, is) = LoopAt(a, o, is)
      BY <3>1, LoopStopped
    <3> QED
      BY <3>2 DEF is
  <2> QED
    BY <2>2, <2>3 DEF StoppedAfter, b, o
<1>2. CASE StoppedAfter(block, f, ends, n - 1)
  <2>1. PICK a : b = LoopAt(a, o, FALSE)
    BY <1>2 DEF StoppedAfter
  <2> HIDE DEF b, o
  <2>2. b.ok = FALSE
    BY <2>1 DEF LoopAt
  <2>3. Round(block[n], b) = WithOk(b, FALSE)
    BY <2>2 DEF Round, WithOk
  <2>4. WithOk(b, FALSE) = LoopAt(a, o, FALSE)
    <3> DEFINE was == FALSE
               is == FALSE
    <3>1. b = LoopAt(a, o, was)
      BY <2>1
    <3> HIDE DEF was, is
    <3>2. WithOk(b, is) = LoopAt(a, o, is)
      BY <3>1, LoopStopped
    <3> QED
      BY <3>2 DEF is
  <2> QED
    BY <2>3, <2>4 DEF StoppedAfter, b, o
<1> QED
  BY <1>1, <1>2

\* A block whose first PDU is whole is read as it was meant.
LEMMA BlockRead ==
  ASSUME NEW block, Len(block) \in Nat, Whole(block)
  PROVE  dmp_client_rx_handler(block) = Meaning(block)
<1> DEFINE N == Len(block)
<1>1. PICK f : /\ f[0] = [at |-> NoMessage, out |-> <<>>, ok |-> TRUE]
               /\ \A n \in 1 .. N : f[n] = Round(block[n], f[n - 1])
               /\ dmp_client_rx_handler(block) = f[N].out
  BY HandlerIs
<1>2. PICK ends \in 0 .. N :
             /\ \A i \in 1 .. ends : block[i].fits
             /\ ends = N \/ ~block[ends + 1].fits
             /\ Meaning(block) = [n \in 1 .. ends |-> Meant(block, n)]
  BY MeaningIs
<1> DEFINE Right(n) == IF n <= ends THEN ReadTo(block, f, n) ELSE StoppedAfter(block, f, ends, n)
           Bad == {n \in 0 .. N : ~Right(n)}
<1>3. Right(0)
  <2>1. MeantBy(block, 0) = <<>>
    BY DEF MeantBy
  <2>2. ReadTo(block, f, 0)
    BY <1>1, <2>1 DEF ReadTo, LoopAt
  <2> QED
    BY <2>2
<1>4. ASSUME NEW n \in 1 .. N, Right(n - 1) PROVE Right(n)
  <2>1. f[n] = Round(block[n], f[n - 1])
    BY <1>1
  <2>2. CASE n <= ends
    <3>1. ReadTo(block, f, n - 1) /\ block[n].fits
      BY <1>2, <1>4, <2>2
    <3>2. ReadTo(block, f, n)
      BY <2>1, <3>1, ReadsOn
    <3> QED
      BY <2>2, <3>2
  <2>3. CASE n = ends + 1
    <3>1. ReadTo(block, f, n - 1) /\ ~block[n].fits /\ n - 1 = ends
      BY <1>2, <1>4, <2>3
    <3>2. StoppedAfter(block, f, ends, n)
      BY <2>1, <3>1, Stops
    <3> QED
      BY <2>3, <3>2
  <2>4. CASE n > ends + 1
    <3>1. StoppedAfter(block, f, ends, n - 1)
      BY <1>4, <2>4
    <3>2. StoppedAfter(block, f, ends, n)
      BY <2>1, <3>1, Stops
    <3> QED
      BY <2>4, <3>2
  <2> QED
    BY <2>2, <2>3, <2>4
<1>5. Bad = {}
  <2> SUFFICES ASSUME Bad # {} PROVE FALSE
    OBVIOUS
  <2> HIDE DEF Right
  <2>1. Bad \in SUBSET Nat
    OBVIOUS
  <2>2. PICK n \in Bad : \A m \in Bad : n <= m
    BY <2>1, Smallest
  <2>3. n \in 1 .. N /\ n - 1 \in 0 .. N /\ n - 1 \notin Bad
    BY <1>3, <2>2
  <2> QED
    BY <1>4, <2>2, <2>3
<1>6. f[N].out = MeantBy(block, ends)
  <2>1. Right(N)
    <3> HIDE DEF Right
    <3> QED
      BY <1>5
  <2>2. CASE N = ends
    <3>1. ReadTo(block, f, N)
      BY <2>1, <2>2
    <3> QED
      BY <2>2, <3>1 DEF ReadTo, LoopAt
  <2>3. CASE N > ends
    <3>1. StoppedAfter(block, f, ends, N)
      BY <2>1, <2>3
    <3> QED
      BY <3>1 DEF StoppedAfter, LoopAt
  <2> QED
    BY <2>2, <2>3
<1> QED
  BY <1>1, <1>2, <1>6 DEF MeantBy

-----------------------------------------------------------------------------
(***************************************************************************)
(* Messages: how they are composed.                                        *)
(***************************************************************************)
Vectors == {"none", "GET_PROPERTY_REPLY", "EVENT", "SET_PROPERTY_FAIL", "GET_PROPERTY_FAIL",
            "SUBSCRIBE_ACCEPT", "SUBSCRIBE_REJECT"}
Headers == {a.header : a \in Addrs} \cup {"none"}
MsgType == [vector : Vectors, header : Headers, data : Seq(Nat)]
WriterType == [pc : {"idle", "body", "length", "send"}, msg : MsgType, at : Nat,
               disturbed : BOOLEAN]

MsgTypes ==
  /\ area \in [vector : Vectors, header : Headers, data : Seq(Nat), length : Nat]
  /\ writer \in [Writers -> WriterType]

\* The area holds what thread t has composed so far.
AreaHolds(t) ==
  /\ area.vector = writer[t].msg.vector /\ area.header = writer[t].msg.header
  /\ \A i \in 1 .. writer[t].at : area.data[i] = writer[t].msg.data[i]
  /\ writer[t].pc = "send" => area.length = writer[t].at

\* How far a thread that composes is; what it wrote is there unless another wrote.
WriterOK(t) ==
  writer[t].pc # "idle" =>
    /\ /\ writer[t].msg.vector # Same /\ writer[t].msg.header # Same
       /\ writer[t].msg.data # Same
    /\ writer[t].at <= Len(writer[t].msg.data) /\ writer[t].at <= Len(area.data)
    /\ writer[t].pc \in {"length", "send"} => writer[t].at = Len(writer[t].msg.data)
    /\ ~writer[t].disturbed => AreaHolds(t)

\* The inductive invariant.
MsgIInv == MsgTypes /\ (\A t \in Writers : WriterOK(t)) /\ MessagesRead

\* A message begins with its address.
LEMMA MessageIs ==
  ASSUME NEW a \in Addrs, NEW v \in Vectors, NEW body \in Seq(Nat)
  PROVE  /\ Message(v, a, body) \in MsgType /\ Message(v, a, body).header = a.header
         /\ Len(Message(v, a, body).data) = Len(a.octets) + Len(body)
         /\ \A i \in 1 .. Len(a.octets) : Message(v, a, body).data[i] = a.octets[i]
<1>1. a.octets \in Seq(Nat) /\ a.header \in Headers
  BY MessagesAssumption DEF Headers
<1> DEFINE d == a.octets \o body
<1>3. /\ d \in Seq(Nat) /\ Len(d) = Len(a.octets) + Len(body)
      /\ \A i \in 1 .. Len(a.octets) : d[i] = a.octets[i]
  BY <1>1
<1>4. Message(v, a, body) = [vector |-> v, header |-> a.header, data |-> d]
  BY DEF Message
<1> HIDE DEF d
<1> QED
  BY <1>1, <1>3, <1>4 DEF MsgType

\* So does every one that is sent, and it has all its fields.
LEMMA SendableAre ==
  ASSUME NEW a \in Addrs, NEW m \in Sendable(a)
  PROVE  /\ m \in MsgType /\ a.octets \in Seq(Nat)
         /\ m.header = a.header /\ Len(a.octets) <= Len(m.data)
         /\ \A i \in 1 .. Len(a.octets) : m.data[i] = a.octets[i]
         /\ m.vector # Same /\ m.header # Same /\ m.data # Same
<1>1. \E v \in Vectors, body \in Seq(Nat) : m = Message(v, a, body)
  <2>1. CASE \E value \in Values : m \in {dmp_tx_get_prop_reply(a, value), dmp_tx_event(a, value)}
    BY <2>1, MessagesAssumption DEF dmp_tx_get_prop_reply, dmp_tx_event, Vectors
  <2>2. CASE \E r \in Reasons : m \in {dmp_tx_set_prop_fail(a, r), dmp_tx_get_prop_fail(a, r),
                                       dmp_tx_subscribe_reject(a, r)}
    <3>1. PICK r \in Reasons : m \in {dmp_tx_set_prop_fail(a, r), dmp_tx_get_prop_fail(a, r),
                                      dmp_tx_subscribe_reject(a, r)}
      BY <2>2
    <3>2. <<r>> \in Seq(Nat)
      BY MessagesAssumption
    <3> DEFINE body == <<r>>
    <3> HIDE DEF body
    <3>3. \/ m = Message("SET_PROPERTY_FAIL", a, body) \/ m = Message("GET_PROPERTY_FAIL", a, body)
          \/ m = Message("SUBSCRIBE_REJECT", a, body)
      BY <3>1 DEF dmp_tx_set_prop_fail, dmp_tx_get_prop_fail, dmp_tx_subscribe_reject, body
    <3> QED
      BY <3>2, <3>3 DEF Vectors, body
  <2>3. CASE m = dmp_tx_subscribe_accept(a)
    <3>1. <<>> \in Seq(Nat)
      OBVIOUS
    <3> QED
      BY <2>3, <3>1 DEF dmp_tx_subscribe_accept, Vectors
  <2> DEFINE A(v) == {dmp_tx_get_prop_reply(a, v), dmp_tx_event(a, v)}
             B(r) == {dmp_tx_set_prop_fail(a, r), dmp_tx_get_prop_fail(a, r),
                      dmp_tx_subscribe_reject(a, r)}
  <2>4. m \in (UNION {A(v) : v \in Values}) \cup (UNION {B(r) : r \in Reasons})
              \cup {dmp_tx_subscribe_accept(a)}
    BY DEF Sendable
  <2> HIDE DEF A, B
  <2>5. (\E v \in Values : m \in A(v)) \/ (\E r \in Reasons : m \in B(r))
        \/ m = dmp_tx_subscribe_accept(a)
    <3>1. m \in UNION {A(v) : v \in Values} => \E v \in Values : m \in A(v)
      OBVIOUS
    <3>2. m \in UNION {B(r) : r \in Reasons} => \E r \in Reasons : m \in B(r)
      OBVIOUS
    <3>3. \/ m \in UNION {A(v) : v \in Values} \/ m \in UNION {B(r) : r \in Reasons}
          \/ m = dmp_tx_subscribe_accept(a)
      <4> DEFINE S == UNION {A(v) : v \in Values}
                 T == UNION {B(r) : r \in Reasons}
      <4> HIDE DEF S, T
      <4>1. m \in S \cup T \cup {dmp_tx_subscribe_accept(a)}
        BY <2>4 DEF S, T
      <4>2. m \in S \/ m \in T \/ m = dmp_tx_subscribe_accept(a)
        BY <4>1
      <4> QED
        BY <4>2 DEF S, T
    <3> QED
      BY <3>1, <3>2, <3>3
  <2> QED
    BY <2>1, <2>2, <2>3, <2>5 DEF A, B
<1>2. PICK v \in Vectors, body \in Seq(Nat) : m = Message(v, a, body)
  BY <1>1
<1>3. a.octets \in Seq(Nat)
  BY MessagesAssumption
<1>4. /\ m \in MsgType /\ m.header = a.header /\ Len(m.data) = Len(a.octets) + Len(body)
      /\ \A i \in 1 .. Len(a.octets) : m.data[i] = a.octets[i]
  BY <1>2, MessageIs
<1>5. Len(a.octets) <= Len(m.data)
  BY <1>3, <1>4
<1>6. m.vector # Same /\ m.header # Same /\ m.data # Same
  BY MessagesAssumption
<1> QED
  BY <1>3, <1>4, <1>5, <1>6

\* Octets that are written over others, and what stays.
LEMMA OverwrittenIs ==
  ASSUME NEW old \in Seq(Nat), NEW new \in Seq(Nat), NEW at \in Nat, at <= Len(old)
  PROVE  /\ Overwritten(old, new, at) \in Seq(Nat)
         /\ Len(Overwritten(old, new, at)) >= Len(old)
         /\ Len(Overwritten(old, new, at)) >= at + Len(new)
         /\ \A i \in 1 .. at : Overwritten(old, new, at)[i] = old[i]
         /\ \A i \in at + 1 .. at + Len(new) : Overwritten(old, new, at)[i] = new[i - at]
<1> DEFINE top == IF Len(old) > at + Len(new) THEN Len(old) ELSE at + Len(new)
           q == [i \in 1 .. top |-> IF i \in at + 1 .. at + Len(new) THEN new[i - at] ELSE old[i]]
<1>1. top \in Nat /\ top >= Len(old) /\ top >= at + Len(new)
  OBVIOUS
<1>2. \A i \in 1 .. top : i \notin at + 1 .. at + Len(new) => i \in 1 .. Len(old)
  OBVIOUS
<1>3. \A i \in 1 .. top : (IF i \in at + 1 .. at + Len(new) THEN new[i - at] ELSE old[i]) \in Nat
  BY <1>1, <1>2
<1> HIDE DEF top
<1>4. q \in Seq(Nat) /\ Len(q) = top
  BY <1>1, <1>3
<1>5. \A i \in 1 .. at : q[i] = old[i]
  BY <1>1
<1>6. \A i \in at + 1 .. at + Len(new) : q[i] = new[i - at]
  BY <1>1
<1>7. Overwritten(old, new, at) = q
  BY DEF Overwritten, top
<1> HIDE DEF q
<1> QED
  BY <1>1, <1>4, <1>5, <1>6, <1>7

\* Those that compose when another writes are disturbed.
LEMMA OthersDisturbed ==
  ASSUME MsgTypes, NEW t \in Writers, NEW new \in WriterType, Writes(t, new),
         \A u \in Writers : WriterOK(u), Len(area'.data) >= Len(area.data),
         area'.data \in Seq(Nat)
  PROVE  /\ writer' \in [Writers -> WriterType] /\ writer'[t] = new
         /\ \A u \in Writers \ {t} : WriterOK(u)'
<1>1. writer' = [u \in Writers |->
                   IF u = t THEN new
                   ELSE [writer[u] EXCEPT !.disturbed = @ \/ writer[u].pc # "idle"]]
  BY DEF Writes
<1>2. ASSUME NEW u \in Writers \ {t}
      PROVE  /\ writer'[u] \in WriterType /\ writer'[u].pc = writer[u].pc
             /\ writer'[u].msg = writer[u].msg /\ writer'[u].at = writer[u].at
             /\ writer[u].pc # "idle" => writer'[u].disturbed = TRUE
  <2> DEFINE w == writer[u]
             d == (w.disturbed \/ w.pc # "idle")
             v == [w EXCEPT !.disturbed = d]
  <2>1. w \in WriterType
    BY DEF MsgTypes
  <2>2. d \in BOOLEAN /\ (w.pc # "idle" => d = TRUE)
    BY <2>1 DEF WriterType
  <2>3. writer'[u] = v
    BY <1>1
  <2> HIDE DEF d, w
  <2>4. v \in WriterType /\ v.pc = w.pc /\ v.msg = w.msg /\ v.at = w.at /\ v.disturbed = d
    BY <2>1, <2>2 DEF WriterType
  <2> HIDE DEF v
  <2> QED
    BY <2>2, <2>3, <2>4 DEF w
<1>3. writer'[t] = new
  BY <1>1
<1>4. writer' \in [Writers -> WriterType]
  <2>1. \A u \in Writers : writer'[u] \in WriterType
    BY <1>2, <1>3
  <2>2. DOMAIN writer' = Writers /\ writer' = [u \in Writers |-> writer'[u]]
    BY <1>1
  <2> QED
    BY <2>1, <2>2
<1>5. ASSUME NEW u \in Writers \ {t} PROVE WriterOK(u)'
  <2>1. writer[u].at \in Nat /\ Len(area.data) \in Nat /\ Len(area'.data) \in Nat
    BY DEF MsgTypes, WriterType
  <2>2. writer[u].at <= Len(area.data) => writer[u].at <= Len(area'.data)
    BY <2>1
  <2>3. WriterOK(u)
    OBVIOUS
  <2>4. ASSUME writer[u].pc # "idle" PROVE writer'[u].disturbed
    BY <1>2, <2>4
  <2> QED
    BY <1>2, <2>2, <2>3, <2>4 DEF WriterOK
<1> QED
  BY <1>3, <1>4, <1>5

\* A thread begins a message.
LEMMA HeaderComposed ==
  ASSUME MsgIInv, NEW t \in Writers, NEW a \in Addrs, NEW m \in Sendable(a),
         ComposeHeader(t, a, m)
  PROVE  MsgIInv'
<1> DEFINE d == Overwritten(area.data, a.octets, 0)
           new == [pc |-> "body", msg |-> m, at |-> Len(a.octets), disturbed |-> FALSE]
<1>1. MsgTypes /\ \A u \in Writers : WriterOK(u)
  BY DEF MsgIInv
<1>2. /\ m \in MsgType /\ a.octets \in Seq(Nat) /\ Len(a.octets) \in Nat
      /\ m.header = a.header /\ Len(a.octets) <= Len(m.data)
      /\ \A i \in 1 .. Len(a.octets) : m.data[i] = a.octets[i]
      /\ m.vector # Same /\ m.header # Same /\ m.data # Same
  BY SendableAre
<1>3. area.data \in Seq(Nat) /\ Len(area.data) \in Nat
  BY <1>1 DEF MsgTypes
<1>4. /\ d \in Seq(Nat) /\ Len(d) >= Len(area.data) /\ Len(d) >= Len(a.octets)
      /\ \A i \in 1 .. Len(a.octets) : d[i] = a.octets[i]
  <2>1. /\ d \in Seq(Nat) /\ Len(d) >= Len(area.data) /\ Len(d) >= 0 + Len(a.octets)
        /\ \A i \in 0 + 1 .. 0 + Len(a.octets) : d[i] = a.octets[i - 0]
    <3>1. 0 \in Nat /\ 0 <= Len(area.data)
      BY <1>3
    <3> QED
      BY <1>2, <1>3, <3>1, OverwrittenIs
  <2> HIDE DEF d
  <2> QED
    BY <1>2, <2>1
<1>5. area' = [area EXCEPT !.vector = m.vector, !.header = m.header, !.data = d]
      /\ Writes(t, new) /\ read' = NoBlock
  BY DEF ComposeHeader
<1>6. new \in WriterType /\ new.pc = "body" /\ new.msg = m /\ new.at = Len(a.octets)
  BY <1>2 DEF WriterType
<1> HIDE DEF d, new
<1>7. /\ area'.vector = m.vector /\ area'.header = m.header /\ area'.data = d
      /\ area' \in [vector : Vectors, header : Headers, data : Seq(Nat), length : Nat]
  <2>1. m.vector \in Vectors /\ m.header \in Headers
    BY <1>2 DEF MsgType
  <2> QED
    BY <1>1, <1>4, <1>5, <2>1 DEF MsgTypes
<1>8. /\ writer' \in [Writers -> WriterType] /\ writer'[t] = new
      /\ \A u \in Writers \ {t} : WriterOK(u)'
  BY <1>1, <1>4, <1>5, <1>6, <1>7, OthersDisturbed
<1>9. WriterOK(t)'
  BY <1>2, <1>4, <1>6, <1>7, <1>8 DEF WriterOK, AreaHolds
<1>10. MessagesRead'
  BY <1>5 DEF MessagesRead, NoBlock
<1> QED
  BY <1>7, <1>8, <1>9, <1>10 DEF MsgIInv, MsgTypes

\* It goes on with what follows the address.
LEMMA BodyComposed ==
  ASSUME MsgIInv, NEW t \in Writers, ComposeBody(t)
  PROVE  MsgIInv'
<1> DEFINE w == writer[t]
           rest == SubSeq(w.msg.data, w.at + 1, Len(w.msg.data))
           d == Overwritten(area.data, rest, w.at)
           new == [w EXCEPT !.pc = "length", !.at = Len(w.msg.data)]
<1>1. MsgTypes /\ \A u \in Writers : WriterOK(u)
  BY DEF MsgIInv
<1>2. w \in WriterType /\ w.msg \in MsgType /\ w.msg.data \in Seq(Nat) /\ w.at \in Nat
      /\ w.disturbed \in BOOLEAN /\ Len(w.msg.data) \in Nat
  BY <1>1 DEF MsgTypes, WriterType, MsgType
<1>3. /\ w.pc = "body" /\ w.at <= Len(w.msg.data) /\ w.at <= Len(area.data)
      /\ w.msg.vector # Same /\ w.msg.header # Same /\ w.msg.data # Same
      /\ ~w.disturbed => AreaHolds(t)
  BY <1>1 DEF ComposeBody, WriterOK
<1>4. area.data \in Seq(Nat) /\ Len(area.data) \in Nat
  BY <1>1 DEF MsgTypes
<1>5. /\ area' = [area EXCEPT !.data = d] /\ Writes(t, new) /\ read' = NoBlock
  BY DEF ComposeBody
<1>6. /\ new \in WriterType /\ new.pc = "length" /\ new.at = Len(w.msg.data)
      /\ new.msg = w.msg /\ new.disturbed = w.disturbed
  <2> HIDE DEF w
  <2> QED
    BY <1>2 DEF WriterType
<1> DEFINE full == w.msg.data
           from == w.at
<1>7. /\ rest \in Seq(Nat) /\ Len(rest) = Len(full) - from
      /\ \A i \in from + 1 .. Len(full) : rest[i - from] = full[i]
  <2>1. full \in Seq(Nat) /\ from \in Nat /\ from <= Len(full) /\ Len(full) \in Nat
    BY <1>2, <1>3
  <2>2. rest = SubSeq(full, from + 1, Len(full))
    OBVIOUS
  <2> HIDE DEF full, from, rest
  <2> QED
    BY <2>1, <2>2
<1>8. /\ d \in Seq(Nat) /\ Len(d) >= Len(area.data) /\ Len(d) >= Len(full)
      /\ \A i \in 1 .. from : d[i] = area.data[i]
      /\ \A i \in from + 1 .. Len(full) : d[i] = full[i]
  <2>1. full \in Seq(Nat) /\ from \in Nat /\ from <= Len(full) /\ Len(full) \in Nat
        /\ from <= Len(area.data)
    BY <1>2, <1>3
  <2>2. d = Overwritten(area.data, rest, from)
    OBVIOUS
  <2> HIDE DEF d, full, from, rest
  <2>3. /\ d \in Seq(Nat) /\ Len(d) >= Len(area.data) /\ Len(d) >= from + Len(rest)
        /\ \A i \in 1 .. from : d[i] = area.data[i]
        /\ \A i \in from + 1 .. from + Len(rest) : d[i] = rest[i - from]
    BY <1>4, <1>7, <2>1, <2>2, OverwrittenIs
  <2>4. from + Len(rest) = Len(full)
    BY <1>7, <2>1
  <2> QED
    BY <1>7, <2>3, <2>4
<1> HIDE DEF d, new, rest
<1>9. /\ area'.vector = area.vector /\ area'.header = area.header /\ area'.data = d
      /\ area' \in [vector : Vectors, header : Headers, data : Seq(Nat), length : Nat]
  BY <1>1, <1>5, <1>8 DEF MsgTypes
<1>10. /\ writer' \in [Writers -> WriterType] /\ writer'[t] = new
       /\ \A u \in Writers \ {t} : WriterOK(u)'
  BY <1>1, <1>5, <1>6, <1>8, <1>9, OthersDisturbed
<1>11. ~w.disturbed => \A i \in 1 .. Len(full) : d[i] = full[i]
  <2>1. from \in Nat /\ Len(full) \in Nat
    BY <1>2
  <2>2. ~w.disturbed => \A i \in 1 .. from : area.data[i] = full[i]
    BY <1>3 DEF AreaHolds
  <2>3. \A i \in 1 .. Len(full) : i \in 1 .. from \/ i \in from + 1 .. Len(full)
    <3> HIDE DEF from, full
    <3> QED
      BY <2>1
  <2> HIDE DEF from, full
  <2> QED
    BY <1>8, <2>2, <2>3
<1>12. ~w.disturbed => area.vector = w.msg.vector /\ area.header = w.msg.header
  BY <1>3 DEF AreaHolds
<1>13. WriterOK(t)'
  <2>1. /\ writer'[t].pc = "length" /\ writer'[t].at = Len(full) /\ writer'[t].msg = w.msg
        /\ writer'[t].disturbed = w.disturbed
    BY <1>6, <1>10
  <2>2. ~w.disturbed => AreaHolds(t)'
    BY <1>9, <1>11, <1>12, <2>1 DEF AreaHolds
  <2>3. Len(full) <= Len(full) /\ Len(full) <= Len(area'.data)
    BY <1>2, <1>8, <1>9
  <2> QED
    BY <1>3, <2>1, <2>2, <2>3 DEF WriterOK
<1>14. MessagesRead'
  BY <1>5 DEF MessagesRead, NoBlock
<1> QED
  BY <1>9, <1>10, <1>13, <1>14 DEF MsgIInv, MsgTypes

\* It notes how long the message is.
LEMMA LengthComposed ==
  ASSUME MsgIInv, NEW t \in Writers, ComposeLength(t)
  PROVE  MsgIInv'
<1> DEFINE w == writer[t]
           new == [w EXCEPT !.pc = "send"]
<1>1. MsgTypes /\ \A u \in Writers : WriterOK(u)
  BY DEF MsgIInv
<1>2. w \in WriterType /\ w.at \in Nat
  BY <1>1 DEF MsgTypes, WriterType
<1>3. /\ w.pc = "length" /\ w.at <= Len(w.msg.data) /\ w.at <= Len(area.data)
      /\ w.at = Len(w.msg.data)
      /\ w.msg.vector # Same /\ w.msg.header # Same /\ w.msg.data # Same
      /\ ~w.disturbed => AreaHolds(t)
  BY <1>1 DEF ComposeLength, WriterOK
<1>4. /\ area' = [area EXCEPT !.length = w.at] /\ Writes(t, new) /\ read' = NoBlock
  BY DEF ComposeLength
<1>5. /\ new \in WriterType /\ new.pc = "send" /\ new.at = w.at
      /\ new.msg = w.msg /\ new.disturbed = w.disturbed
  <2> HIDE DEF w
  <2> QED
    BY <1>2 DEF WriterType
<1> HIDE DEF new
<1>6. /\ area'.vector = area.vector /\ area'.header = area.header /\ area'.data = area.data
      /\ area'.length = w.at
      /\ area' \in [vector : Vectors, header : Headers, data : Seq(Nat), length : Nat]
  BY <1>1, <1>2, <1>4 DEF MsgTypes
<1>7. area'.data \in Seq(Nat) /\ Len(area'.data) >= Len(area.data)
  BY <1>1, <1>6 DEF MsgTypes
<1>8. /\ writer' \in [Writers -> WriterType] /\ writer'[t] = new
      /\ \A u \in Writers \ {t} : WriterOK(u)'
  BY <1>1, <1>4, <1>5, <1>7, OthersDisturbed
<1>9. WriterOK(t)'
  <2>1. /\ writer'[t].pc = "send" /\ writer'[t].at = w.at /\ writer'[t].msg = w.msg
        /\ writer'[t].disturbed = w.disturbed
    BY <1>5, <1>8
  <2>2. ~w.disturbed => AreaHolds(t)'
    BY <1>3, <1>6, <2>1 DEF AreaHolds
  <2> QED
    BY <1>3, <1>6, <2>1, <2>2 DEF WriterOK
<1>10. MessagesRead'
  BY <1>4 DEF MessagesRead, NoBlock
<1> QED
  BY <1>6, <1>8, <1>9, <1>10 DEF MsgIInv, MsgTypes

\* One PDU with all its fields, and within the block, is read as it is.
LEMMA OnePduRead ==
  ASSUME NEW pdu, NEW m \in MsgType, pdu.vector = m.vector, pdu.header = m.header,
         pdu.data = m.data, pdu.fits,
         m.vector # Same, m.header # Same, m.data # Same
  PROVE  dmp_client_rx_handler(<<pdu>>) = <<m>>
<1> DEFINE block == <<pdu>>
<1>1. Len(block) = 1 /\ block[1] = pdu /\ block # <<>>
  OBVIOUS
<1> HIDE DEF block
<1>2. Whole(block)
  BY <1>1 DEF Whole
<1>3. PICK f : /\ f[0] = [at |-> NoMessage, out |-> <<>>, ok |-> TRUE]
               /\ \A n \in 1 .. Len(block) : f[n] = Round(block[n], f[n - 1])
               /\ dmp_client_rx_handler(block) = f[Len(block)].out
  <2>1. Len(block) \in Nat
    BY <1>1
  <2> QED
    BY <1>2, <2>1, HandlerIs
<1>4. f[1] = Round(pdu, f[0]) /\ dmp_client_rx_handler(block) = f[1].out
  <2>1. f[1] = Round(block[1], f[1 - 1])
    BY <1>1, <1>3
  <2> QED
    BY <1>1, <1>3, <2>1
<1>5. f[0].ok = TRUE /\ f[0].out = <<>>
  BY <1>3
<1>6. Taken(pdu, f[0].at) = [vector |-> m.vector, header |-> m.header, data |-> m.data]
  BY DEF Taken
<1>7. m = [vector |-> m.vector, header |-> m.header, data |-> m.data]
  BY DEF MsgType
<1>8. f[1].out = Append(<<>>, m)
  BY <1>4, <1>5, <1>6, <1>7 DEF Round
<1> QED
  BY <1>4, <1>8 DEF block

\* What a thread that was not disturbed sends is read as it was meant.
LEMMA Transmitted ==
  ASSUME MsgIInv, NEW t \in Writers, Transmit(t)
  PROVE  MsgIInv'
<1> DEFINE w == writer[t]
           pdu == [vector |-> area.vector, header |-> area.header,
                   data |-> SubSeq(area.data, 1, w.at), fits |-> area.length = w.at]
           new == [pc |-> "idle", msg |-> NoMessage, at |-> 0, disturbed |-> FALSE]
<1>1. MsgTypes /\ \A u \in Writers : WriterOK(u)
  BY DEF MsgIInv
<1>2. w \in WriterType /\ w.at \in Nat /\ w.msg \in MsgType /\ w.msg.data \in Seq(Nat)
  BY <1>1 DEF MsgTypes, WriterType, MsgType
<1>3. /\ w.pc = "send" /\ w.at <= Len(area.data) /\ w.at = Len(w.msg.data)
      /\ w.msg.vector # Same /\ w.msg.header # Same /\ w.msg.data # Same
      /\ ~w.disturbed => AreaHolds(t)
  BY <1>1 DEF Transmit, WriterOK
<1>4. /\ read' = [meant |-> <<w.msg>>, got |-> dmp_client_rx_handler(<<pdu>>),
                  disturbed |-> w.disturbed]
      /\ writer' = [writer EXCEPT ![t] = new] /\ area' = area
  BY DEF Transmit
<1>5. ASSUME ~w.disturbed PROVE dmp_client_rx_handler(<<pdu>>) = <<w.msg>>
  <2>1. /\ area.vector = w.msg.vector /\ area.header = w.msg.header
        /\ \A i \in 1 .. w.at : area.data[i] = w.msg.data[i]
        /\ area.length = w.at
    BY <1>3, <1>5 DEF AreaHolds
  <2>2. SubSeq(area.data, 1, w.at) = w.msg.data
    <3> DEFINE at == w.at
               full == w.msg.data
               d == area.data
    <3>1. /\ d \in Seq(Nat) /\ full \in Seq(Nat) /\ at = Len(full) /\ at <= Len(d)
          /\ \A i \in 1 .. at : d[i] = full[i]
      BY <1>1, <1>2, <1>3, <2>1 DEF MsgTypes
    <3> HIDE DEF at, full, d
    <3>2. /\ SubSeq(d, 1, at) \in Seq(Nat) /\ Len(SubSeq(d, 1, at)) = Len(full)
          /\ \A i \in 1 .. Len(full) : SubSeq(d, 1, at)[i] = full[i]
      BY <3>1
    <3> DEFINE q == SubSeq(d, 1, at)
    <3> HIDE DEF q
    <3>3. q = full
      BY <3>1, <3>2, SeqEqual DEF q
    <3> QED
      BY <3>3 DEF q, at, full, d
  <2>3. pdu.vector = w.msg.vector /\ pdu.header = w.msg.header /\ pdu.data = w.msg.data
    BY <2>1, <2>2
  <2>4. pdu.fits
    BY <2>1
  <2> HIDE DEF pdu
  <2> DEFINE m == w.msg
  <2> QED
    BY <1>2, <1>3, <2>3, <2>4, OnePduRead
<1>6. new \in WriterType /\ new.pc = "idle"
  BY DEF WriterType, NoMessage, MsgType, Vectors, Headers
<1>7. MessagesRead'
  <2> HIDE DEF pdu, w
  <2>1. read'.disturbed = w.disturbed /\ read'.meant = <<w.msg>>
        /\ read'.got = dmp_client_rx_handler(<<pdu>>)
    BY <1>4
  <2> QED
    BY <1>5, <2>1 DEF MessagesRead
<1> HIDE DEF new, pdu
<1>8. MsgTypes'
  BY <1>1, <1>4, <1>6 DEF MsgTypes
<1>9. ASSUME NEW u \in Writers PROVE WriterOK(u)'
  <2>1. CASE u = t
    <3>1. writer'[t] = new
      BY <1>1, <1>4 DEF MsgTypes
    <3> QED
      BY <1>6, <2>1, <3>1 DEF WriterOK
  <2>2. CASE u # t
    <3>1. writer'[u] = writer[u]
      BY <1>1, <1>4, <2>2 DEF MsgTypes
    <3> QED
      BY <1>1, <1>4, <3>1 DEF WriterOK, AreaHolds
  <2> QED
    BY <2>1, <2>2
<1> QED
  BY <1>7, <1>8, <1>9 DEF MsgIInv

\* So is every block of another sender.
LEMMA OthersRead ==
  ASSUME MsgIInv, NEW block \in Blocks, ReadBlock(block)
  PROVE  MsgIInv'
<1>1. Len(block) \in Nat
  BY BlocksAssumption
<1>2. UNCHANGED <<area, writer>> /\ read'.got = dmp_client_rx_handler(block)
      /\ read'.meant = IF Whole(block) THEN Meaning(block) ELSE <<>>
  BY DEF ReadBlock
<1>3. dmp_client_rx_handler(block) = IF Whole(block) THEN Meaning(block) ELSE <<>>
  <2>1. CASE Whole(block)
    BY <1>1, <2>1, BlockRead
  <2>2. CASE ~Whole(block)
    BY <2>2 DEF dmp_client_rx_handler
  <2> QED
    BY <2>1, <2>2
<1>4. MessagesRead'
  BY <1>2, <1>3 DEF MessagesRead
<1> QED
  BY <1>2, <1>4 DEF MsgIInv, MsgTypes, WriterOK, AreaHolds

\* MsgIInv holds in every state: where each thread is with its message, and what
\* the area holds of it (dmp.c).
THEOREM MessagesInvariant == MsgSpec => []MsgIInv
<1>1. MsgInit => MsgIInv
  <2> SUFFICES ASSUME MsgInit PROVE MsgIInv
    OBVIOUS
  <2>1. MsgTypes
    <3>1. <<>> \in Seq(Nat)
      OBVIOUS
    <3> QED
      BY <3>1 DEF MsgInit, MsgTypes, WriterType, NoMessage, MsgType, Vectors, Headers
  <2>2. \A t \in Writers : WriterOK(t)
    BY DEF MsgInit, WriterOK
  <2>3. MessagesRead
    BY DEF MsgInit, MessagesRead, NoBlock
  <2> QED
    BY <2>1, <2>2, <2>3 DEF MsgIInv
<1>2. MsgIInv /\ [MsgNext]_msgVars => MsgIInv'
  <2> SUFFICES ASSUME MsgIInv, [MsgNext]_msgVars PROVE MsgIInv'
    OBVIOUS
  <2>1. CASE UNCHANGED msgVars
    BY <2>1 DEF msgVars, MsgIInv, MsgTypes, WriterOK, AreaHolds, MessagesRead
  <2>2. ComposeNext => MsgIInv'
    BY HeaderComposed, BodyComposed, LengthComposed, Transmitted DEF ComposeNext
  <2>3. ReadNext => MsgIInv'
    BY OthersRead DEF ReadNext
  <2> QED
    BY <2>1, <2>2, <2>3 DEF MsgNext
<1> QED
  BY <1>1, <1>2, PTL DEF MsgSpec

\* MessagesRead: a message is read as it was meant, ours whatever was in the static
\* area before unless another thread wrote over it, and those of others whichever
\* fields they leave out, however long the block (dmp_client_rx_handler).
THEOREM MessagesAreRead == MsgSpec => []MessagesRead
<1>1. MsgIInv => MessagesRead
  BY DEF MsgIInv
<1> QED
  BY <1>1, MessagesInvariant, PTL
=============================================================================
