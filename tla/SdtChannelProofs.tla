-------------------------- MODULE SdtChannelProofs --------------------------
(***************************************************************************)
(* Proofs about SdtChannel, for every set of members, pool size, timeout   *)
(* and number of wrappers.                                                 *)
(***************************************************************************)
EXTENDS SdtChannel, FiniteSetTheorems, TLAPS

(***************************************************************************)
(* Type correctness.                                                       *)
(***************************************************************************)
\* What sdt_format_wrapper puts on the wire, once or n times, has the shape
\* of a wire.
LEMMA TransmitType ==
  ASSUME TypeOK, NEW n \in Nat,
         NEW w \in [rel : Nat, reliable : BOOLEAN, oldest : Nat]
  PROVE  /\ channel.total_seq + n \in Nat
         /\ Transmit(n, w) \in
              [1..(channel.total_seq + n) -> [rel : Nat, reliable : BOOLEAN, oldest : Nat]]
         /\ \A t \in 1..channel.total_seq : Transmit(n, w)[t] = sent[t]
         /\ \A t \in (channel.total_seq + 1)..(channel.total_seq + n) : Transmit(n, w)[t] = w
BY DEF TypeOK, Transmit

\* The channel record as sdt_format_wrapper leaves it.
LEMMA FormatReliableType ==
  ASSUME TypeOK
  PROVE  /\ OldestAfter(channel.reliable_seq + 1) \in Nat
         /\ FormatReliable = [total_seq    |-> channel.total_seq + 1,
                              reliable_seq |-> channel.reliable_seq + 1,
                              oldest_avail |-> OldestAfter(channel.reliable_seq + 1)]
<1>1. channel.reliable_seq \in Nat /\ channel.oldest_avail \in Nat
  BY DEF TypeOK
<1>2. OldestAfter(channel.reliable_seq + 1) \in Nat
  BY <1>1, PoolSize DEF OldestAfter
<1>3. QED
  BY <1>2 DEF FormatReliable

\* What sdt_format_wrapper does to a channel before n unreliable wrappers:
\* only total_seq moves.
LEMMA FormatUnreliableType ==
  ASSUME TypeOK, NEW n \in Nat
  PROVE  FormatUnreliable(n) = [total_seq    |-> channel.total_seq + n,
                                reliable_seq |-> channel.reliable_seq,
                                oldest_avail |-> channel.oldest_avail]
<1>1. channel \in [total_seq : Nat, reliable_seq : Nat, oldest_avail : Nat]
  BY BoundNat DEF TypeOK
<1>2. QED
  BY <1>1 DEF FormatUnreliable

\* The records of sdt_save_buffer.
LEMMA SaveBufferType ==
  ASSUME TypeOK, NEW r \in Nat
  PROVE  /\ DOMAIN SaveBuffer(r) \subseteq Nat
         /\ SaveBuffer(r) \in [DOMAIN SaveBuffer(r) -> [ttl : 1..ResendTicks, blank : BOOLEAN]]
BY TicksPositive DEF TypeOK, SaveBuffer, Held

\* Every action of leader, wire and members preserves the types.
LEMMA TypeStep ==
  ASSUME TypeOK, [Next]_vars
  PROVE  TypeOK'
<1>1. CASE TxReliable
  <2> DEFINE w == [rel |-> FormatReliable.reliable_seq,
                   reliable |-> TRUE,
                   oldest |-> FormatReliable.oldest_avail]
  <2>1. /\ channel.total_seq + 1 \in 0..MaxTotal
        /\ channel.reliable_seq + 1 \in Nat
    BY <1>1, BoundNat DEF TxReliable, TypeOK
  <2>2. /\ FormatReliable \in [total_seq : 0..MaxTotal, reliable_seq : Nat, oldest_avail : Nat]
        /\ FormatReliable.total_seq = channel.total_seq + 1
        /\ w \in [rel : Nat, reliable : BOOLEAN, oldest : Nat]
        /\ FormatReliable.reliable_seq \in Nat
    BY <2>1, FormatReliableType
  <2>3. Transmit(1, w) \in
          [1..(channel.total_seq + 1) -> [rel : Nat, reliable : BOOLEAN, oldest : Nat]]
    BY <2>2, TransmitType
  <2>4. /\ channel' = FormatReliable
        /\ sent' = Transmit(1, w)
        /\ resends' = SaveBuffer(FormatReliable.reliable_seq)
    BY <1>1 DEF TxReliable
  <2>5. resends' \in [DOMAIN resends' -> [ttl : 1..ResendTicks, blank : BOOLEAN]]
        /\ DOMAIN resends' \subseteq Nat
    BY <2>2, <2>4, SaveBufferType
  <2> HIDE DEF w
  <2>6. UNCHANGED memberVars
    BY <1>1 DEF TxReliable
  <2>7. /\ channel' \in [total_seq : 0..MaxTotal, reliable_seq : Nat, oldest_avail : Nat]
        /\ sent' \in [1..channel'.total_seq -> [rel : Nat, reliable : BOOLEAN, oldest : Nat]]
    BY <2>2, <2>3, <2>4
  <2>8. QED
    BY <1>1, <2>5, <2>6, <2>7 DEF TxReliable, TypeOK, Held, memberVars
<1>2. ASSUME NEW n \in Nat, SendUnreliable(n), channel.total_seq + n <= MaxTotal
      PROVE  /\ channel' \in [total_seq : 0..MaxTotal, reliable_seq : Nat, oldest_avail : Nat]
             /\ sent' \in [1..channel'.total_seq -> [rel : Nat, reliable : BOOLEAN, oldest : Nat]]
  <2> DEFINE w == [rel |-> channel.reliable_seq,
                   reliable |-> FALSE,
                   oldest |-> channel.oldest_avail]
  <2>1. /\ channel' = [total_seq    |-> channel.total_seq + n,
                       reliable_seq |-> channel.reliable_seq,
                       oldest_avail |-> channel.oldest_avail]
        /\ sent' = Transmit(n, w)
    BY <1>2, FormatUnreliableType DEF SendUnreliable
  <2>2. /\ channel.total_seq + n \in 0..MaxTotal
        /\ w \in [rel : Nat, reliable : BOOLEAN, oldest : Nat]
        /\ channel.reliable_seq \in Nat /\ channel.oldest_avail \in Nat
    BY <1>2, BoundNat DEF TypeOK
  <2>3. Transmit(n, w) \in
          [1..(channel.total_seq + n) -> [rel : Nat, reliable : BOOLEAN, oldest : Nat]]
    BY <2>2, TransmitType
  <2> HIDE DEF w
  <2>4. QED
    BY <2>1, <2>2, <2>3
<1>3. CASE TxUnreliable
  <2>1. SendUnreliable(1) /\ channel.total_seq + 1 <= MaxTotal
    BY <1>3, BoundNat DEF TxUnreliable, TypeOK
  <2>2. QED
    BY <1>2, <1>3, <2>1 DEF TxUnreliable, TypeOK, Held, memberVars
<1>4. CASE LeaderTick
  <2> DEFINE young == {s \in Held : resends[s].ttl > 1}
  <2>1. /\ foreign' = [m \in Members |-> IF foreign[m] = "delete" THEN "none" ELSE foreign[m]]
        /\ resends' = [s \in young |-> [ttl |-> resends[s].ttl - 1, blank |-> FALSE]]
        /\ UNCHANGED <<channel, sent_reliable, hung, wireVars, memberVars>>
    BY <1>4 DEF LeaderTick
  <2>2. \A s \in young : s \in Nat /\ resends[s].ttl - 1 \in 1..ResendTicks
    BY TicksPositive DEF TypeOK
  <2>3. Held' = young /\ young \subseteq Nat
    BY <2>1, <2>2 DEF Held
  <2>4. resends' \in [young -> [ttl : 1..ResendTicks, blank : BOOLEAN]]
    BY <2>1, <2>2
  <2>5. foreign' \in [Members -> {"none", "member", "delete"}]
    BY <2>1 DEF TypeOK
  <2> HIDE DEF young
  <2>6. QED
    BY <2>1, <2>3, <2>4, <2>5 DEF TypeOK, wireVars, memberVars
<1>5. ASSUME NEW n \in naks, RxNak(n) PROVE TypeOK'
  <2> DEFINE room  == MaxTotal - channel.total_seq
             count == n.last - n.first + 1
             maks  == IF foreign[n.from] = "none" THEN 0
                      ELSE IF count <= room THEN count ELSE room
  <2>1. n.first \in Nat /\ n.last \in Nat /\ n.first <= n.last /\ channel.total_seq \in 0..MaxTotal
    BY <1>5 DEF RxNak, TypeOK
  <2>2. maks \in Nat /\ channel.total_seq + maks <= MaxTotal
    BY <2>1, BoundNat
  <2>3. CASE SendUnreliable(maks) /\ UNCHANGED <<resends, hung>>
    <3> HIDE DEF maks
    <3>1. QED
      BY <1>2, <1>5, <2>2, <2>3 DEF RxNak, TypeOK, Held, memberVars
  <2>4. CASE /\ resends' = [resends EXCEPT ![n.first].blank = TRUE]
             /\ UNCHANGED <<channel, sent, hung>>
    <3>1. resends' \in [Held -> [ttl : 1..ResendTicks, blank : BOOLEAN]]
      <4>1. resends \in [Held -> [ttl : 1..ResendTicks, blank : BOOLEAN]]
        BY DEF TypeOK
      <4>2. QED
        BY <2>4, <4>1
    <3>2. Held' = Held
      BY <3>1 DEF Held
    <3>3. QED
      BY <1>5, <2>4, <3>1, <3>2 DEF RxNak, TypeOK, memberVars
  <2>5. CASE hung' = TRUE /\ UNCHANGED <<channel, sent, resends>>
    BY <1>5, <2>5 DEF RxNak, TypeOK, Held, memberVars
  <2>6. QED
    BY <1>5, <2>3, <2>4, <2>5 DEF RxNak
<1>6. ASSUME NEW m \in Members, TxJoin(m) PROVE TypeOK'
  <2>1. [isSent |-> TRUE, total |-> channel.total_seq, rel |-> channel.reliable_seq]
          \in [isSent : BOOLEAN, total : Nat, rel : Nat]
    BY BoundNat DEF TypeOK
  <2>2. join' \in [Members -> [isSent : BOOLEAN, total : Nat, rel : Nat]]
    BY <1>6, <2>1 DEF TxJoin, TypeOK
  <2>3. QED
    BY <1>6, <2>2 DEF TxJoin, TypeOK, Held, memberVars
<1>7. ASSUME NEW m \in Members, RxLeaving(m) PROVE TypeOK'
  BY <1>7 DEF RxLeaving, TypeOK, Held, wireVars, memberVars
<1>8. ASSUME NEW m \in Members, RxJoin(m) PROVE TypeOK'
  BY <1>8 DEF RxJoin, TypeOK, Held, leaderVars, wireVars
<1>9. ASSUME NEW m \in Members, NEW t \in DOMAIN sent, RxWrapper(m, t) PROVE TypeOK'
  <2>1. /\ t \in Nat
        /\ sent[t] \in [rel : Nat, reliable : BOOLEAN, oldest : Nat]
    <3>1. DOMAIN sent = 1..channel.total_seq /\ channel.total_seq \in Nat
      BY BoundNat DEF TypeOK
    <3>2. sent \in [1..channel.total_seq -> [rel : Nat, reliable : BOOLEAN, oldest : Nat]]
      BY DEF TypeOK
    <3>3. QED
      BY <3>1, <3>2
  <2>2. ASSUME HandOn(m, t)
        PROVE  /\ handled' \in [Members -> SUBSET Nat]
               /\ again' \in [Members -> SUBSET Nat]
               /\ delivered' \in [Members -> Seq(Nat)]
    BY <2>1, <2>2 DEF HandOn, TypeOK
  <2>3. CASE RxValid(m, t)
    BY <2>1, <2>2, <2>3 DEF RxValid, TypeOK, Held, leaderVars, wireVars
  <2>4. CASE RxGap(m, t)
    <3>1. sdt_tx_nak(m, sent[t].rel) \in [from : Members, first : Nat, last : Nat]
      BY <2>1 DEF TypeOK, sdt_tx_nak
    <3>2. naks' \subseteq [from : Members, first : Nat, last : Nat]
      BY <2>4, <3>1 DEF RxGap, TypeOK
    <3>3. /\ handled' \in [Members -> SUBSET Nat]
          /\ again' \in [Members -> SUBSET Nat]
          /\ delivered' \in [Members -> Seq(Nat)]
      BY <2>2, <2>4 DEF RxGap, TypeOK
    <3>4. QED
      BY <2>4, <3>2, <3>3 DEF RxGap, TypeOK, Held, leaderVars
  <2>5. CASE RxLost(m, t)
    BY <2>5 DEF RxLost, TypeOK, Held, leaderVars
  <2>6. QED
    BY <1>9, <2>3, <2>4, <2>5 DEF RxWrapper
<1>10. ASSUME NEW m \in Members, MemberTick(m) PROVE TypeOK'
  BY <1>10 DEF MemberTick, TypeOK, Held, leaderVars
<1>11. CASE UNCHANGED vars
  BY <1>11 DEF vars, leaderVars, wireVars, memberVars, TypeOK, Held
<1>12. QED
  BY <1>1, <1>3, <1>4, <1>5, <1>6, <1>7, <1>8, <1>9, <1>10, <1>11 DEF Next

\* Every state of a behaviour has the types of TypeOK.
THEOREM TypeCorrect == Spec => []TypeOK
<1>1. Init => TypeOK
  <2> SUFFICES ASSUME Init PROVE TypeOK
    OBVIOUS
  <2>1. /\ channel \in [total_seq : 0..MaxTotal, reliable_seq : Nat, oldest_avail : Nat]
        /\ channel.total_seq = 0
    BY BoundNat DEF Init
  <2>2. /\ Held \subseteq Nat
        /\ resends \in [Held -> [ttl : 1..ResendTicks, blank : BOOLEAN]]
    BY DEF Init, Held
  <2>3. sent \in [1..channel.total_seq -> [rel : Nat, reliable : BOOLEAN, oldest : Nat]]
    BY <2>1 DEF Init
  <2>4. join \in [Members -> [isSent : BOOLEAN, total : Nat, rel : Nat]]
    BY DEF Init, NoJoin
  <2>5. /\ delivered \in [Members -> Seq(Nat)]
        /\ handled \in [Members -> SUBSET Nat]
        /\ again \in [Members -> SUBSET Nat]
    BY DEF Init
  <2>6. /\ foreign \in [Members -> {"none", "member", "delete"}]
        /\ leaving \in [Members -> SUBSET {"LOST_SEQUENCE", "CHANNEL_EXPIRED"}]
        /\ status \in [Members -> {"out", "in", "delete", "gone"}]
        /\ copy \in [Members -> [total : Nat, rel : Nat]]
        /\ sent_reliable \in BOOLEAN
        /\ hung \in BOOLEAN
        /\ naks \subseteq [from : Members, first : Nat, last : Nat]
    BY DEF Init
  <2>7. QED
    BY <2>1, <2>2, <2>3, <2>4, <2>5, <2>6 DEF TypeOK
<1>2. TypeOK /\ [Next]_vars => TypeOK'
  BY TypeStep
<1>3. QED
  BY <1>1, <1>2, PTL DEF Spec

(***************************************************************************)
(* The resend pool.  The records held are the last ones transmitted: an    *)
(* interval that ends at reliable_seq, because a tick makes the older ones *)
(* expire first and a full pool gives up its oldest.  The window that      *)
(* sdt_format_wrapper offers starts at the beginning of the channel or is  *)
(* exactly as long as the pool.                                            *)
(***************************************************************************)
HeldFrom(lo) ==
  /\ lo \in 1..(channel.reliable_seq + 1)
  /\ Held = lo..channel.reliable_seq
  /\ channel.reliable_seq - lo + 1 <= SDT_MAX_RESENDS

PoolInv ==
  /\ \E lo \in Nat : HeldFrom(lo)
  /\ \A s, u \in Held : s <= u => resends[s].ttl <= resends[u].ttl
  /\ ~sent_reliable => channel.reliable_seq = 0
  /\ channel.oldest_avail <= channel.reliable_seq
  /\ channel.reliable_seq - channel.oldest_avail < SDT_MAX_RESENDS
  /\ \/ channel.oldest_avail <= 1
     \/ channel.oldest_avail = channel.reliable_seq - SDT_MAX_RESENDS + 1

\* The pool invariant bounds the window from both sides.
LEMMA PoolInvWindow ==
  ASSUME TypeOK, PoolInv
  PROVE  WindowFits
<1>1. PICK lo \in Nat : HeldFrom(lo)
  BY DEF PoolInv
<1>2. /\ channel.reliable_seq \in Nat /\ channel.oldest_avail \in Nat
      /\ channel.oldest_avail <= 1 \/ channel.oldest_avail = channel.reliable_seq - SDT_MAX_RESENDS + 1
      /\ channel.oldest_avail <= channel.reliable_seq
      /\ channel.reliable_seq - channel.oldest_avail < SDT_MAX_RESENDS
  BY DEF TypeOK, PoolInv
<1>3. ASSUME NEW s \in Held
      PROVE  channel.oldest_avail <= s /\ s <= channel.reliable_seq
  BY <1>1, <1>2, <1>3, PoolSize DEF HeldFrom
<1>4. QED
  BY <1>2, <1>3 DEF WindowFits

\* sdt_save_buffer on a pool that holds lo..reliable_seq: if it is full, the
\* tail makes room, so that the new record ends an interval again.
LEMMA SaveBufferHolds ==
  ASSUME TypeOK, NEW lo \in Nat, HeldFrom(lo),
         NEW r, r = channel.reliable_seq + 1
  PROVE  \E new \in {lo, lo + 1} :
           /\ new \in 1..(r + 1)
           /\ DOMAIN SaveBuffer(r) = new..r
           /\ r - new + 1 <= SDT_MAX_RESENDS
           /\ SaveBuffer(r)[r].ttl = ResendTicks
           /\ \A s \in new..(r - 1) : s \in Held /\ SaveBuffer(r)[s] = resends[s]
<1> DEFINE full == Cardinality(Held) = SDT_MAX_RESENDS
           kept == IF full THEN Held \ {Oldest} ELSE Held
<1>1. /\ lo \in 1..(channel.reliable_seq + 1)
      /\ Held = lo..channel.reliable_seq
      /\ channel.reliable_seq - lo + 1 <= SDT_MAX_RESENDS
      /\ channel.reliable_seq \in Nat
      /\ r \in Nat
  BY DEF HeldFrom, TypeOK
<1>2. Cardinality(Held) = channel.reliable_seq - lo + 1
  <2>1. Cardinality(lo..channel.reliable_seq)
          = IF lo > channel.reliable_seq THEN 0 ELSE channel.reliable_seq - lo + 1
    <3>1. lo \in Int /\ channel.reliable_seq \in Int
      BY <1>1
    <3>2. QED
      BY <3>1, FS_Interval
  <2>2. QED
    BY <1>1, <2>1
<1>3. /\ DOMAIN SaveBuffer(r) = kept \cup {r}
      /\ SaveBuffer(r)[r].ttl = ResendTicks
      /\ \A s \in kept \ {r} : SaveBuffer(r)[s] = resends[s]
  BY DEF SaveBuffer
<1>4. CASE full
  <2>1. lo \in Held /\ \A x \in Held : lo <= x
    BY <1>1, <1>2, <1>4, PoolSize
  <2>2. Oldest = lo
    <3>1. Oldest \in Held /\ \A x \in Held : Oldest <= x
      BY <2>1 DEF Oldest
    <3>2. Oldest <= lo /\ lo <= Oldest /\ Oldest \in Nat
      BY <1>1, <2>1, <3>1
    <3>3. QED
      BY <3>2
  <2>3. kept = (lo + 1)..channel.reliable_seq
    BY <1>1, <1>4, <2>2
  <2> HIDE DEF kept
  <2>4. /\ kept \cup {r} = (lo + 1)..r
        /\ (lo + 1)..(r - 1) \subseteq kept \ {r}
        /\ kept \subseteq Held
    <3>1. kept \cup {r} = (lo + 1)..r
      BY <1>1, <2>1, <2>3
    <3>2. (lo + 1)..(r - 1) \subseteq kept \ {r}
      BY <1>1, <2>3
    <3>3. kept \subseteq Held
      BY <1>1, <2>3
    <3>4. QED
      BY <3>1, <3>2, <3>3
  <2>5. /\ lo + 1 \in 1..(r + 1)
        /\ r - (lo + 1) + 1 <= SDT_MAX_RESENDS
    BY <1>1
  <2>6. QED
    BY <1>3, <2>4, <2>5
<1>5. CASE ~full
  <2>1. kept = lo..channel.reliable_seq
    BY <1>1, <1>5
  <2> HIDE DEF kept
  <2>2. kept \cup {r} = lo..r /\ lo..(r - 1) \subseteq kept \ {r} /\ kept \subseteq Held
    BY <1>1, <2>1
  <2>3. /\ lo \in 1..(r + 1)
        /\ r - lo + 1 <= SDT_MAX_RESENDS
    BY <1>1, <1>2, <1>5, PoolSize
  <2>4. QED
    BY <1>3, <2>2, <2>3
<1>6. QED
  BY <1>4, <1>5

\* A part of lo..hi that holds with a number all greater ones is an interval
\* that ends at hi.
LEMMA UpperPartIsInterval ==
  ASSUME NEW lo \in Nat, NEW hi \in Nat,
         NEW U, U \subseteq lo..hi, \A s \in U : s..hi \subseteq U
  PROVE  U = (hi - Cardinality(U) + 1)..hi
<1> DEFINE k == Cardinality(U)
           V == (hi - k + 1)..hi
<1>1. IsFiniteSet(lo..hi)
  BY FS_Interval
<1>2. IsFiniteSet(U) /\ k \in Nat
  BY <1>1, FS_Subset, FS_CardinalityType
<1>3. hi - k + 1 \in Int /\ IsFiniteSet(V) /\ Cardinality(V) = k
  <2>1. hi - k + 1 \in Int /\ hi \in Int
    BY <1>2
  <2>2. /\ IsFiniteSet(V)
        /\ Cardinality(V) = IF hi - k + 1 > hi THEN 0 ELSE hi - (hi - k + 1) + 1
    BY <2>1, FS_Interval
  <2> HIDE DEF k, V
  <2>3. QED
    BY <1>2, <2>1, <2>2
<1>4. ASSUME NEW s \in U PROVE s \in V
  <2>1. s \in Int /\ s <= hi /\ hi \in Int
    BY <1>4
  <2>2. /\ IsFiniteSet(s..hi)
        /\ Cardinality(s..hi) = IF s > hi THEN 0 ELSE hi - s + 1
    BY <2>1, FS_Interval
  <2>3. Cardinality(s..hi) <= k
    BY <1>2, <1>4, FS_Subset
  <2> HIDE DEF k
  <2>4. QED
    BY <1>2, <2>1, <2>2, <2>3
<1>5. U \subseteq V
  BY <1>4
<1> HIDE DEF V
<1>6. U = V
  BY <1>2, <1>3, <1>5, FS_Subset
<1>7. QED
  BY <1>6 DEF V

\* Steps that leave the numbers, the flag and the pool alone keep PoolInv.
LEMMA PoolInvStable ==
  ASSUME PoolInv, UNCHANGED <<sent_reliable, resends>>,
         channel'.reliable_seq = channel.reliable_seq,
         channel'.oldest_avail = channel.oldest_avail
  PROVE  PoolInv'
BY DEF PoolInv, HeldFrom, Held

\* Every step keeps the shape of the pool.
LEMMA PoolInvStep ==
  ASSUME TypeOK, PoolInv, [Next]_vars
  PROVE  PoolInv'
<1>1. CASE TxReliable
  <2> DEFINE r == channel.reliable_seq + 1
  <2>1. PICK lo \in Nat : HeldFrom(lo)
    BY DEF PoolInv
  <2>2. PICK new \in {lo, lo + 1} :
          /\ new \in 1..(r + 1)
          /\ DOMAIN SaveBuffer(r) = new..r
          /\ r - new + 1 <= SDT_MAX_RESENDS
          /\ SaveBuffer(r)[r].ttl = ResendTicks
          /\ \A s \in new..(r - 1) : s \in Held /\ SaveBuffer(r)[s] = resends[s]
    BY <2>1, SaveBufferHolds
  <2>3. /\ channel' = [total_seq    |-> channel.total_seq + 1,
                       reliable_seq |-> r,
                       oldest_avail |-> OldestAfter(r)]
        /\ OldestAfter(r) \in Nat
        /\ r \in Nat
    <3>1. channel' = FormatReliable
      BY <1>1 DEF TxReliable
    <3>2. r \in Nat
      BY DEF TypeOK
    <3>3. QED
      BY <3>1, <3>2, FormatReliableType
  <2>4. /\ channel'.reliable_seq = r
        /\ resends' = SaveBuffer(r)
        /\ sent_reliable' = TRUE
    BY <1>1, <2>3 DEF TxReliable
  <2>5. HeldFrom(new)' /\ new \in Nat
    BY <2>2, <2>3, <2>4 DEF HeldFrom, Held
  <2>6. ASSUME NEW s \in Held', NEW u \in Held', s <= u
        PROVE  resends'[s].ttl <= resends'[u].ttl
    <3>1. s \in new..r /\ u \in new..r
      BY <2>2, <2>4 DEF Held
    <3>2. \A x \in new..(r - 1) : x \in Held /\ resends'[x] = resends[x]
      BY <2>2, <2>4
    <3>3. \A x \in Held : resends[x].ttl \in 1..ResendTicks
      BY DEF TypeOK
    <3>4. CASE u = r
      <4>1. resends'[u].ttl = ResendTicks
        BY <2>2, <2>4, <3>4
      <4>2. resends'[s].ttl <= ResendTicks
        <5>1. CASE s = u
          BY <4>1, <5>1, TicksPositive
        <5>2. CASE s # u
          <6>1. s \in new..(r - 1)
            BY <2>3, <2>5, <2>6, <3>1, <3>4, <5>2
          <6>2. resends'[s].ttl \in 1..ResendTicks
            BY <3>2, <3>3, <6>1
          <6>3. QED
            BY <6>2, TicksPositive
        <5>3. QED
          BY <5>1, <5>2
      <4>3. QED
        BY <4>1, <4>2
    <3>5. CASE u # r
      <4>1. s \in new..(r - 1) /\ u \in new..(r - 1)
        BY <2>3, <2>5, <2>6, <3>1, <3>5
      <4>2. QED
        BY <2>6, <3>2, <4>1 DEF PoolInv
    <3>6. QED
      BY <3>4, <3>5
  <2>7. /\ channel'.oldest_avail <= r
        /\ r - channel'.oldest_avail < SDT_MAX_RESENDS
        /\ \/ channel'.oldest_avail <= 1
           \/ channel'.oldest_avail = r - SDT_MAX_RESENDS + 1
    <3>1. channel'.oldest_avail = OldestAfter(r)
      BY <2>3
    <3>2. channel.oldest_avail \in Nat /\ channel.reliable_seq \in Nat
      BY DEF TypeOK
    <3>3. QED
      BY <3>1, <3>2, PoolSize DEF OldestAfter, PoolInv
  <2>8. QED
    BY <2>4, <2>5, <2>6, <2>7 DEF PoolInv
<1>2. CASE LeaderTick
  <2> DEFINE young == {s \in Held : resends[s].ttl > 1}
  <2>1. PICK lo \in Nat : HeldFrom(lo)
    BY DEF PoolInv
  <2>2. /\ resends' = [s \in young |-> [ttl |-> resends[s].ttl - 1, blank |-> FALSE]]
        /\ UNCHANGED <<channel, sent_reliable>>
    BY <1>2 DEF LeaderTick
  <2>3. Held' = young
    BY <2>2 DEF Held
  <2>4. \A s, u \in young : s <= u => resends'[s].ttl <= resends'[u].ttl
    BY <2>2, TicksPositive DEF PoolInv, TypeOK
  <2>5. \E new \in Nat : HeldFrom(new)'
    <3> DEFINE hi == channel.reliable_seq
               new == hi - Cardinality(young) + 1
    <3>1. \A s, u \in Held : s <= u /\ s \in young => u \in young
      BY TicksPositive DEF PoolInv, TypeOK
    <3>2. /\ hi \in Nat
          /\ lo \in 1..(hi + 1)
          /\ Held = lo..hi
          /\ hi - lo + 1 <= SDT_MAX_RESENDS
      BY <2>1 DEF TypeOK, HeldFrom
    <3>3. young \subseteq lo..hi /\ \A s \in young : s..hi \subseteq young
      BY <3>1, <3>2
    <3>4. young = new..hi
      <4> HIDE DEF young, hi
      <4>1. QED
        BY <3>2, <3>3, UpperPartIsInterval
    <3>5. IsFiniteSet(young) /\ Cardinality(young) \in Nat
      <4>1. IsFiniteSet(lo..hi)
        BY <3>2, FS_Interval
      <4> HIDE DEF young
      <4>2. QED
        BY <3>3, <4>1, FS_Subset, FS_CardinalityType
    <3>6. CASE young = {}
      <4>1. PICK n \in Nat : n = hi + 1
        BY <3>2
      <4>2. young = n..hi /\ n \in 1..(hi + 1) /\ hi - n + 1 <= SDT_MAX_RESENDS
        BY <3>2, <3>6, <4>1, PoolSize
      <4>3. HeldFrom(n)'
        BY <2>2, <2>3, <4>2 DEF HeldFrom
      <4>4. QED
        BY <4>3
    <3>7. CASE young # {}
      <4> HIDE DEF young
      <4>1. new \in Int /\ new <= hi
        BY <3>2, <3>4, <3>5, <3>7
      <4>2. new \in young
        BY <3>2, <3>4, <4>1
      <4>3. new >= lo /\ new \in Nat
        BY <3>2, <3>3, <4>1, <4>2
      <4>4. PICK n \in Nat : n = new
        BY <4>3
      <4>5. n \in lo..hi /\ young = n..hi
        BY <3>4, <4>1, <4>3, <4>4
      <4> HIDE DEF new
      <4>6. HeldFrom(n)'
        <5>1. channel'.reliable_seq = hi /\ Held' = n..hi
          BY <2>2, <2>3, <4>5
        <5> HIDE DEF hi, young
        <5>2. n \in 1..(hi + 1) /\ hi - n + 1 <= SDT_MAX_RESENDS
          BY <3>2, <4>5, PoolSize
        <5>3. QED
          BY <5>1, <5>2 DEF HeldFrom
      <4>7. QED
        BY <4>6
    <3>8. QED
      BY <3>6, <3>7
  <2>6. QED
    BY <2>2, <2>3, <2>4, <2>5 DEF PoolInv
<1>3. ASSUME NEW n \in naks, RxNak(n) PROVE PoolInv'
  <2>1. sent_reliable' = sent_reliable
    BY <1>3 DEF RxNak
  <2>2. CASE /\ resends' = [resends EXCEPT ![n.first].blank = TRUE]
             /\ UNCHANGED <<channel, sent, hung>>
    <3>1. resends \in [Held -> [ttl : 1..ResendTicks, blank : BOOLEAN]]
      BY DEF TypeOK
    <3>2. Held' = Held /\ \A s \in Held : resends'[s].ttl = resends[s].ttl
      BY <2>2, <3>1 DEF Held
    <3>3. QED
      BY <2>1, <2>2, <3>2 DEF PoolInv, HeldFrom
  <2>3. ASSUME NEW k, SendUnreliable(k), UNCHANGED resends PROVE PoolInv'
    <3>1. channel \in [total_seq : 0..MaxTotal, reliable_seq : Nat, oldest_avail : Nat]
      BY DEF TypeOK
    <3>2. /\ channel'.reliable_seq = channel.reliable_seq
          /\ channel'.oldest_avail = channel.oldest_avail
      BY <2>3, <3>1 DEF SendUnreliable, FormatUnreliable
    <3>3. QED
      BY <2>1, <2>3, <3>2, PoolInvStable
  <2>4. CASE UNCHANGED <<channel, sent, resends>>
    BY <2>1, <2>4, PoolInvStable
  <2>5. QED
    BY <1>3, <2>2, <2>3, <2>4 DEF RxNak
<1>4. CASE TxUnreliable
  <2>1. channel \in [total_seq : 0..MaxTotal, reliable_seq : Nat, oldest_avail : Nat]
    BY DEF TypeOK
  <2>2. /\ channel'.reliable_seq = channel.reliable_seq
        /\ channel'.oldest_avail = channel.oldest_avail
    BY <1>4, <2>1 DEF TxUnreliable, SendUnreliable, FormatUnreliable
  <2>3. QED
    BY <1>4, <2>2, PoolInvStable DEF TxUnreliable
<1>5. ASSUME UNCHANGED <<channel, sent_reliable, resends>> PROVE PoolInv'
  BY <1>5, PoolInvStable
<1>6. ASSUME NEW m \in Members, TxJoin(m) \/ RxLeaving(m) PROVE PoolInv'
  BY <1>5, <1>6 DEF TxJoin, RxLeaving
<1>7. ASSUME NEW m \in Members, RxJoin(m) \/ MemberTick(m) PROVE PoolInv'
  BY <1>5, <1>7 DEF RxJoin, MemberTick, leaderVars
<1>8. ASSUME NEW m \in Members, NEW t \in DOMAIN sent, RxWrapper(m, t) PROVE PoolInv'
  BY <1>5, <1>8 DEF RxWrapper, RxValid, RxGap, RxLost, leaderVars
<1>9. CASE UNCHANGED vars
  BY <1>5, <1>9 DEF vars, leaderVars
<1>10. QED
  BY <1>1, <1>2, <1>3, <1>4, <1>6, <1>7, <1>8, <1>9 DEF Next

\* The pool invariant holds in every state.
LEMMA PoolAlwaysHolds == Spec => []PoolInv
<1>1. Init => PoolInv
  <2> SUFFICES ASSUME Init PROVE PoolInv
    OBVIOUS
  <2>1. HeldFrom(1)
    BY PoolSize DEF Init, HeldFrom, Held
  <2>2. QED
    BY <2>1, PoolSize DEF Init, PoolInv, Held
<1>2. PoolInv /\ TypeOK /\ [Next]_vars => PoolInv'
  BY PoolInvStep
<1>3. QED
  BY <1>1, <1>2, TypeCorrect, PTL DEF Spec

\* The numbers sdt_format_wrapper offers always fit the resend pool, and what
\* the pool holds is always offered.
THEOREM WindowAlwaysFits == Spec => []WindowFits
<1>1. TypeOK /\ PoolInv => WindowFits
  BY PoolInvWindow
<1>2. QED
  BY <1>1, TypeCorrect, PoolAlwaysHolds, PTL

-----------------------------------------------------------------------------
(***************************************************************************)
(* What the members of an SDT channel make of its wrappers: their copy of  *)
(* the channel is a past of it, their NAKs are logical, they lose the      *)
(* sequence only when they must, and what is handed to them is the stream  *)
(* of ReliableStream.  The argument is an invariant of the wire: reliable  *)
(* numbers only grow along it, by one at each reliable wrapper, so that a  *)
(* member that knows the numbers of one wrapper can tell from another's    *)
(* whether a reliable one lies between them.                               *)
(***************************************************************************)
\* The wire: a reliable wrapper takes the next reliable number, any other
\* repeats the last; the channel's number is the last one's; the offer of
\* the oldest wrapper never goes back.
WireInv ==
  /\ \A t \in 1..channel.total_seq :
       /\ sent[t].rel = RelAt(t - 1) + (IF sent[t].reliable THEN 1 ELSE 0)
       /\ sent[t].oldest <= channel.oldest_avail
  /\ \A t, u \in 0..channel.total_seq : t <= u => RelAt(t) <= RelAt(u)
  /\ RelAt(channel.total_seq) = channel.reliable_seq

\* What the members and the JOINs on the wire know of it.
JoinIsPast ==
  \A m \in Members :
    /\ join[m].total <= channel.total_seq
    /\ join[m].rel = RelAt(join[m].total)

PastInv == WireInv /\ JoinIsPast /\ CopyIsPast

WrapperSet == [rel : Nat, reliable : BOOLEAN, oldest : Nat]

\* Facts of TypeOK about the wire, in the form the provers want.
LEMMA WireTypes ==
  ASSUME TypeOK
  PROVE  /\ channel.total_seq \in Nat /\ channel.reliable_seq \in Nat
         /\ channel.oldest_avail \in Nat
         /\ DOMAIN sent = 1..channel.total_seq
         /\ \A t \in 1..channel.total_seq : sent[t] \in WrapperSet
         /\ \A t \in 0..channel.total_seq : RelAt(t) \in Nat
<1>1. /\ channel.total_seq \in Nat /\ channel.reliable_seq \in Nat
      /\ channel.oldest_avail \in Nat
  BY BoundNat DEF TypeOK
<1>2. sent \in [1..channel.total_seq -> WrapperSet]
  BY DEF TypeOK, WrapperSet
<1>3. \A t \in 1..channel.total_seq : sent[t] \in WrapperSet
  BY <1>2
<1>4. ASSUME NEW t \in 0..channel.total_seq PROVE RelAt(t) \in Nat
  <2>1. CASE t = 0
    BY <2>1 DEF RelAt
  <2>2. CASE t # 0
    <3>1. t \in 1..channel.total_seq
      BY <1>1, <2>2
    <3>2. QED
      BY <1>3, <2>2, <3>1 DEF RelAt, WrapperSet
  <2>3. QED
    BY <2>1, <2>2
<1>5. QED
  BY <1>1, <1>2, <1>3, <1>4

\* Wrappers that carry the number the channel had, or, for a single reliable
\* one, the next, keep the wire in order.
LEMMA WireInvTransmit ==
  ASSUME TypeOK, WireInv, NEW n \in Nat, NEW w \in WrapperSet,
         sent' = Transmit(n, w),
         channel'.total_seq = channel.total_seq + n,
         channel'.reliable_seq = IF n = 0 THEN channel.reliable_seq ELSE w.rel,
         w.rel = channel.reliable_seq + (IF w.reliable THEN 1 ELSE 0),
         w.reliable => n = 1,
         w.oldest <= channel'.oldest_avail,
         channel.oldest_avail <= channel'.oldest_avail,
         channel'.oldest_avail \in Nat
  PROVE  /\ WireInv'
         /\ \A t \in 0..channel.total_seq : RelAt(t)' = RelAt(t)
<1> DEFINE total == channel.total_seq
           next  == channel'.total_seq
<1>1. /\ total \in Nat /\ next = total + n /\ next \in Nat
      /\ channel.reliable_seq \in Nat /\ w.rel \in Nat /\ w.oldest \in Nat
      /\ w.reliable \in BOOLEAN /\ channel.oldest_avail \in Nat
  BY WireTypes DEF WrapperSet
<1>2. /\ \A t \in 1..total : sent'[t] = sent[t]
      /\ \A t \in (total + 1)..next : sent'[t] = w
  <2>1. w \in [rel : Nat, reliable : BOOLEAN, oldest : Nat]
    BY DEF WrapperSet
  <2>2. /\ \A t \in 1..channel.total_seq : Transmit(n, w)[t] = sent[t]
        /\ \A t \in (channel.total_seq + 1)..(channel.total_seq + n) : Transmit(n, w)[t] = w
    BY <2>1, TransmitType
  <2>3. QED
    BY <2>2
<1>3. ASSUME NEW t \in 0..total PROVE RelAt(t)' = RelAt(t)
  BY <1>1, <1>2 DEF RelAt
<1>4. ASSUME NEW t \in (total + 1)..next PROVE RelAt(t)' = w.rel
  BY <1>1, <1>2 DEF RelAt
<1>5. RelAt(total) = channel.reliable_seq
  BY DEF WireInv
<1>6. ASSUME NEW t \in 1..next
      PROVE  /\ sent'[t].rel = RelAt(t - 1)' + (IF sent'[t].reliable THEN 1 ELSE 0)
             /\ sent'[t].oldest <= channel'.oldest_avail
  <2>1. CASE t \in 1..total
    <3>1. t - 1 \in 0..total
      BY <1>1, <2>1
    <3>2. /\ sent[t].rel = RelAt(t - 1) + (IF sent[t].reliable THEN 1 ELSE 0)
          /\ sent[t].oldest <= channel.oldest_avail
          /\ sent[t].oldest \in Nat
      BY <2>1, WireTypes DEF WireInv, WrapperSet
    <3>3. QED
      BY <1>1, <1>2, <1>3, <2>1, <3>1, <3>2
  <2>2. CASE t = total + 1
    <3>1. sent'[t] = w
      BY <1>1, <1>2, <1>6, <2>2
    <3>2. RelAt(t - 1)' = channel.reliable_seq
      BY <1>1, <1>3, <1>5, <2>2
    <3>3. QED
      BY <3>1, <3>2
  <2>3. CASE t \in (total + 2)..next
    <3>1. sent'[t] = w /\ ~w.reliable
      BY <1>1, <1>2, <2>3
    <3>2. RelAt(t - 1)' = w.rel
      BY <1>1, <1>4, <2>3
    <3>3. QED
      BY <1>1, <3>1, <3>2
  <2>4. QED
    BY <1>1, <1>6, <2>1, <2>2, <2>3
<1>7. ASSUME NEW t \in 0..next, NEW u \in 0..next, t <= u
      PROVE  RelAt(t)' <= RelAt(u)'
  <2>1. CASE u \in 0..total
    BY <1>1, <1>3, <1>7, <2>1 DEF WireInv
  <2>2. CASE t \in 0..total /\ u \in (total + 1)..next
    <3>1. RelAt(t) <= channel.reliable_seq /\ RelAt(t) \in Nat
      BY <1>1, <1>5, <2>2, WireTypes DEF WireInv
    <3>2. QED
      BY <1>1, <1>3, <1>4, <2>2, <3>1
  <2>3. CASE t \in (total + 1)..next /\ u \in (total + 1)..next
    BY <1>1, <1>4, <2>3
  <2>4. QED
    BY <1>1, <1>7, <2>1, <2>2, <2>3
<1>8. RelAt(channel.total_seq)' = channel'.reliable_seq
  <2>1. PICK k \in Nat : k = next
    BY <1>1
  <2>2. RelAt(channel.total_seq)' = RelAt(k)'
    BY <2>1 DEF RelAt
  <2>3. CASE n = 0
    <3>1. k \in 0..total /\ k = total
      BY <1>1, <2>1, <2>3
    <3>2. RelAt(k)' = RelAt(k) /\ RelAt(k) = RelAt(total)
      BY <1>3, <3>1
    <3>3. QED
      BY <1>5, <2>2, <2>3, <3>2
  <2>4. CASE n # 0
    BY <1>1, <1>4, <2>1, <2>2, <2>4
  <2>5. QED
    BY <2>3, <2>4
<1>9. QED
  BY <1>3, <1>6, <1>7, <1>8 DEF WireInv

\* n unreliable wrappers, as SendUnreliable puts them on the wire.
LEMMA WireInvUnreliable ==
  ASSUME TypeOK, WireInv, NEW n \in Nat, SendUnreliable(n)
  PROVE  /\ WireInv'
         /\ \A t \in 0..channel.total_seq : RelAt(t)' = RelAt(t)
         /\ channel.total_seq <= channel'.total_seq
         /\ channel'.reliable_seq = channel.reliable_seq
<1> DEFINE w == [rel |-> channel.reliable_seq,
                 reliable |-> FALSE,
                 oldest |-> channel.oldest_avail]
<1>1. /\ channel' = [total_seq    |-> channel.total_seq + n,
                     reliable_seq |-> channel.reliable_seq,
                     oldest_avail |-> channel.oldest_avail]
      /\ sent' = Transmit(n, w)
  BY FormatUnreliableType DEF SendUnreliable
<1>2. /\ channel.total_seq \in Nat /\ channel.reliable_seq \in Nat
      /\ channel.oldest_avail \in Nat
  BY WireTypes
<1>3. /\ w \in WrapperSet /\ w.rel = channel.reliable_seq /\ ~w.reliable
      /\ w.oldest = channel.oldest_avail
  BY <1>2 DEF WrapperSet
<1>4. /\ channel'.total_seq = channel.total_seq + n
      /\ channel'.reliable_seq = channel.reliable_seq
      /\ channel'.oldest_avail = channel.oldest_avail
  BY <1>1
<1> HIDE DEF w
<1>5. WireInv' /\ \A t \in 0..channel.total_seq : RelAt(t)' = RelAt(t)
  BY <1>1, <1>2, <1>3, <1>4, WireInvTransmit
<1>6. QED
  BY <1>2, <1>4, <1>5

\* The ways a step can touch the leader's numbers and the wire.
LEMMA WireSteps ==
  ASSUME TypeOK, [Next]_vars
  PROVE  \/ UNCHANGED <<channel, sent>>
         \/ \E n \in Nat : SendUnreliable(n)
         \/ TxReliable
<1> DEFINE Goal == \/ UNCHANGED <<channel, sent>>
                   \/ \E n \in Nat : SendUnreliable(n)
                   \/ TxReliable
<1>1. ASSUME TxUnreliable PROVE Goal
  BY <1>1 DEF TxUnreliable
<1>2. ASSUME NEW n \in naks, RxNak(n) PROVE Goal
  <2> DEFINE room  == MaxTotal - channel.total_seq
             count == n.last - n.first + 1
             maks  == IF foreign[n.from] = "none" THEN 0
                      ELSE IF count <= room THEN count ELSE room
  <2>1. maks \in Nat
    <3>1. n.first \in Nat /\ n.last \in Nat /\ n.first <= n.last
      BY <1>2 DEF RxNak, TypeOK
    <3>2. channel.total_seq \in 0..MaxTotal
      BY DEF TypeOK
    <3>3. QED
      BY <3>1, <3>2, BoundNat
  <2>2. SendUnreliable(maks) \/ UNCHANGED <<channel, sent>>
    BY <1>2 DEF RxNak
  <2> HIDE DEF maks
  <2>3. QED
    BY <2>1, <2>2
<1>3. ASSUME LeaderTick PROVE Goal
  BY <1>3 DEF LeaderTick, wireVars
<1>4. ASSUME NEW m \in Members, TxJoin(m) \/ RxLeaving(m) PROVE Goal
  BY <1>4 DEF TxJoin, RxLeaving, wireVars
<1>5. ASSUME NEW m \in Members, RxJoin(m) \/ MemberTick(m) PROVE Goal
  BY <1>5 DEF RxJoin, MemberTick, leaderVars, wireVars
<1>6. ASSUME NEW m \in Members, NEW t \in DOMAIN sent, RxWrapper(m, t) PROVE Goal
  BY <1>6 DEF RxWrapper, RxValid, RxGap, RxLost, leaderVars, wireVars
<1>7. ASSUME UNCHANGED vars PROVE Goal
  BY <1>7 DEF vars, leaderVars, wireVars
<1>8. ASSUME TxReliable PROVE Goal
  BY <1>8
<1> HIDE DEF Goal
<1>9. Goal
  BY <1>1, <1>2, <1>3, <1>4, <1>5, <1>6, <1>7, <1>8 DEF Next
<1>10. QED
  BY <1>9 DEF Goal

\* Every step keeps the wire in order and what was on it as it was.
LEMMA WireInvStep ==
  ASSUME TypeOK, PoolInv, WireInv, [Next]_vars
  PROVE  /\ WireInv'
         /\ \A t \in 0..channel.total_seq : RelAt(t)' = RelAt(t)
         /\ channel.total_seq <= channel'.total_seq
         /\ channel.reliable_seq <= channel'.reliable_seq
<1> DEFINE Goal == /\ WireInv'
                   /\ \A t \in 0..channel.total_seq : RelAt(t)' = RelAt(t)
                   /\ channel.total_seq <= channel'.total_seq
                   /\ channel.reliable_seq <= channel'.reliable_seq
<1>1. /\ channel.total_seq \in Nat /\ channel.reliable_seq \in Nat
      /\ channel.oldest_avail \in Nat
  BY WireTypes
<1>2. ASSUME UNCHANGED <<channel, sent>> PROVE Goal
  <2>1. \A t : RelAt(t)' = RelAt(t)
    BY <1>2 DEF RelAt
  <2>2. WireInv'
    BY <1>2 DEF WireInv, RelAt
  <2>3. QED
    BY <1>1, <1>2, <2>1, <2>2
<1>3. ASSUME NEW n \in Nat, SendUnreliable(n) PROVE Goal
  BY <1>1, <1>3, WireInvUnreliable
<1>4. ASSUME TxReliable PROVE Goal
  <2> DEFINE r == channel.reliable_seq + 1
             w == [rel |-> r, reliable |-> TRUE, oldest |-> OldestAfter(r)]
  <2>1. /\ channel' = [total_seq    |-> channel.total_seq + 1,
                       reliable_seq |-> r,
                       oldest_avail |-> OldestAfter(r)]
        /\ OldestAfter(r) \in Nat
    <3>1. channel' = FormatReliable
      BY <1>4 DEF TxReliable
    <3>2. QED
      BY <3>1, FormatReliableType
  <2>2. /\ channel'.total_seq = channel.total_seq + 1
        /\ channel'.reliable_seq = r
        /\ channel'.oldest_avail = OldestAfter(r)
    BY <2>1
  <2>3. sent' = Transmit(1, w)
    BY <1>4, <2>2 DEF TxReliable
  <2>4. channel.oldest_avail <= OldestAfter(r)
    BY <1>1, PoolSize DEF OldestAfter, PoolInv
  <2>5. /\ w \in WrapperSet /\ w.rel = r /\ w.reliable
        /\ w.oldest = OldestAfter(r)
    BY <1>1, <2>1 DEF WrapperSet
  <2> HIDE DEF w
  <2>6. WireInv' /\ \A t \in 0..channel.total_seq : RelAt(t)' = RelAt(t)
    BY <1>1, <2>1, <2>2, <2>3, <2>4, <2>5, WireInvTransmit
  <2>7. QED
    BY <1>1, <2>2, <2>6
<1> HIDE DEF Goal
<1>5. Goal
  BY <1>2, <1>3, <1>4, WireSteps
<1>6. QED
  BY <1>5 DEF Goal

-----------------------------------------------------------------------------
\* What check_sequence's verdict says of the wrapper: a valid one is the next
\* reliable wrapper or adds none to what the member has; a gap is one that
\* misses reliable wrappers; a loss is one after which the next is not
\* offered any more.
LEMMA Verdicts ==
  ASSUME TypeOK, WireInv, CopyIsPast, NEW m \in Members, NEW t \in 1..channel.total_seq
  PROVE  /\ check_sequence(m, t) = "SEQ_VALID" =>
              sent[t].rel = copy[m].rel + (IF sent[t].reliable THEN 1 ELSE 0)
         /\ check_sequence(m, t) \in {"SEQ_NAK", "SEQ_LOST"} => copy[m].rel < sent[t].rel
         /\ check_sequence(m, t) = "SEQ_LOST" => copy[m].rel + 1 < sent[t].oldest
<1> DEFINE w == sent[t]
           c == copy[m]
           diff  == t - c.total
           rdiff == w.rel - c.rel
<1>1. /\ w.rel \in Nat /\ w.reliable \in BOOLEAN /\ w.oldest \in Nat
      /\ c.total \in Nat /\ c.rel \in Nat
      /\ channel.total_seq \in Nat /\ t \in Nat
  <2>1. copy[m] \in [total : Nat, rel : Nat]
    BY DEF TypeOK
  <2>2. sent[t] \in WrapperSet /\ channel.total_seq \in Nat
    BY WireTypes
  <2>3. QED
    BY <2>1, <2>2 DEF WrapperSet
<1>2. c.total \in 0..channel.total_seq /\ c.rel = RelAt(c.total)
  BY <1>1 DEF CopyIsPast
<1>3. w.rel = RelAt(t - 1) + (IF w.reliable THEN 1 ELSE 0) /\ w.rel = RelAt(t)
  BY <1>1 DEF WireInv, RelAt
<1>4. RelAt(t - 1) \in Nat /\ t - 1 \in 0..channel.total_seq
  BY <1>1, WireTypes
<1>5. /\ c.total <= t - 1 => c.rel <= RelAt(t - 1)
      /\ c.total = t - 1 => c.rel = RelAt(t - 1)
  BY <1>2, <1>4 DEF WireInv
<1>6. check_sequence(m, t) =
        CASE diff = 1 -> "SEQ_VALID"
          [] diff < 1 -> "SEQ_DUPLICATE"
          [] diff > 1 /\ (rdiff = 0 \/ (w.reliable /\ rdiff = 1)) -> "SEQ_VALID"
          [] diff > 1 /\ rdiff # 0 /\ ~(w.reliable /\ rdiff = 1) ->
               IF w.oldest - c.rel > 1 THEN "SEQ_LOST" ELSE "SEQ_NAK"
  BY DEF check_sequence
<1> HIDE DEF w, c
<1>7. CASE diff = 1
  <2>1. check_sequence(m, t) = "SEQ_VALID"
    BY <1>1, <1>6, <1>7
  <2>2. c.total = t - 1
    BY <1>1, <1>7
  <2>3. w.rel = c.rel + (IF w.reliable THEN 1 ELSE 0)
    BY <1>3, <1>5, <2>2
  <2>4. QED
    BY <2>1, <2>3 DEF w, c
<1>8. CASE diff < 1
  <2>1. check_sequence(m, t) = "SEQ_DUPLICATE"
    BY <1>1, <1>6, <1>8
  <2>2. QED
    BY <2>1
<1>9. CASE diff > 1
  <2>1. c.rel <= RelAt(t - 1)
    BY <1>1, <1>5, <1>9
  <2>2. CASE rdiff = 0 \/ (w.reliable /\ rdiff = 1)
    <3>1. check_sequence(m, t) = "SEQ_VALID"
      BY <1>1, <1>6, <1>9, <2>2
    <3>2. w.rel = c.rel + (IF w.reliable THEN 1 ELSE 0)
      BY <1>1, <1>3, <1>4, <2>1, <2>2
    <3>3. QED
      BY <3>1, <3>2 DEF w, c
  <2>3. CASE ~(rdiff = 0 \/ (w.reliable /\ rdiff = 1))
    <3>1. check_sequence(m, t) = IF w.oldest - c.rel > 1 THEN "SEQ_LOST" ELSE "SEQ_NAK"
      BY <1>1, <1>6, <1>9, <2>3
    <3>2. c.rel < w.rel
      BY <1>1, <1>3, <1>4, <2>1, <2>3
    <3>3. w.oldest - c.rel > 1 => c.rel + 1 < w.oldest
      BY <1>1
    <3>4. QED
      BY <3>1, <3>2, <3>3 DEF w, c
  <2>4. QED
    BY <2>2, <2>3
<1>10. QED
  BY <1>1, <1>7, <1>8, <1>9

\* JOINs and copies stay pasts of the channel.
LEMMA PastInvStep ==
  ASSUME TypeOK, PoolInv, PastInv, [Next]_vars
  PROVE  PastInv'
<1> DEFINE Stays(m) == /\ join'[m] = join[m]
                       /\ copy'[m] = copy[m]
<1> USE DEF PastInv
<1>1. /\ WireInv'
      /\ \A t \in 0..channel.total_seq : RelAt(t)' = RelAt(t)
      /\ channel.total_seq <= channel'.total_seq
      /\ channel.total_seq \in Nat
      /\ channel'.total_seq \in Nat
  <2>1. TypeOK'
    BY TypeStep
  <2>2. channel'.total_seq \in Nat
    BY <2>1, BoundNat DEF TypeOK
  <2>3. QED
    BY <2>2, WireInvStep, WireTypes
<1>2. ASSUME NEW m \in Members
      PROVE  /\ join[m].total \in 0..channel.total_seq
             /\ copy[m].total \in 0..channel.total_seq
  <2>1. copy[m] \in [total : Nat, rel : Nat]
    BY DEF TypeOK
  <2>2. join[m] \in [isSent : BOOLEAN, total : Nat, rel : Nat]
    BY DEF TypeOK
  <2>3. QED
    BY <1>1, <2>1, <2>2 DEF JoinIsPast, CopyIsPast
<1>3. \A m \in Members :
         \/ join'[m] = join[m]
         \/ /\ join'[m].total = channel.total_seq
            /\ join'[m].rel = channel.reliable_seq
  <2>1. ASSUME NEW x \in Members, TxJoin(x), NEW m \in Members
        PROVE  \/ join'[m] = join[m]
               \/ /\ join'[m].total = channel.total_seq
                  /\ join'[m].rel = channel.reliable_seq
    BY <2>1 DEF TxJoin, TypeOK
  <2>2. (\E x \in Members : TxJoin(x)) \/ join' = join
    BY DEF Next, vars, wireVars, TxReliable, TxUnreliable, LeaderTick, RxNak,
           RxLeaving, RxJoin, RxWrapper, RxValid, RxGap, RxLost, MemberTick
  <2>3. QED
    BY <2>1, <2>2
<1>4. \A m \in Members :
         \/ copy'[m] = copy[m]
         \/ copy'[m].total = join[m].total /\ copy'[m].rel = join[m].rel
         \/ \E t \in 1..channel.total_seq : copy'[m].total = t /\ copy'[m].rel = sent[t].rel
  <2> DEFINE Goal == \A m \in Members :
         \/ copy'[m] = copy[m]
         \/ copy'[m].total = join[m].total /\ copy'[m].rel = join[m].rel
         \/ \E t \in 1..channel.total_seq : copy'[m].total = t /\ copy'[m].rel = sent[t].rel
  <2>1. ASSUME NEW x \in Members, RxJoin(x) PROVE Goal
    BY <2>1 DEF RxJoin, TypeOK
  <2>2. ASSUME NEW x \in Members, NEW t \in DOMAIN sent, RxValid(x, t) PROVE Goal
    <3>1. copy' = [copy EXCEPT ![x] = [total |-> t, rel |-> sent[t].rel]]
      BY <2>2 DEF RxValid
    <3>2. copy \in [Members -> [total : Nat, rel : Nat]]
      BY DEF TypeOK
    <3>3. t \in 1..channel.total_seq
      BY <2>2, WireTypes
    <3>4. QED
      BY <3>1, <3>2, <3>3
  <2>3. \/ \E x \in Members : RxJoin(x)
        \/ \E x \in Members : \E t \in DOMAIN sent : RxValid(x, t)
        \/ copy' = copy
    BY DEF Next, vars, wireVars, memberVars, TxReliable, TxUnreliable, LeaderTick,
           RxNak, TxJoin, RxLeaving, RxWrapper, RxGap, RxLost, MemberTick
  <2> HIDE DEF Goal
  <2>4. Goal
    <3>1. copy' = copy => Goal
      BY DEF Goal
    <3>2. QED
      BY <2>1, <2>2, <2>3, <3>1
  <2>5. QED
    BY <2>4 DEF Goal
<1>5. ASSUME NEW m \in Members
      PROVE  /\ join'[m].total <= channel'.total_seq
             /\ join'[m].rel = RelAt(join[m].total)'
  <2>1. PICK k \in 0..channel.total_seq : join'[m].total = k /\ join'[m].rel = RelAt(k)
    BY <1>1, <1>2, <1>3 DEF JoinIsPast, WireInv
  <2>2. RelAt(join[m].total)' = RelAt(k)'
    BY <2>1 DEF RelAt
  <2>3. QED
    BY <1>1, <2>1, <2>2
<1>6. ASSUME NEW m \in Members
      PROVE  /\ copy'[m].total <= channel'.total_seq
             /\ copy'[m].rel = RelAt(copy[m].total)'
  <2>1. PICK k \in 0..channel.total_seq : copy'[m].total = k /\ copy'[m].rel = RelAt(k)
    <3>1. ASSUME NEW t \in 1..channel.total_seq
          PROVE  t \in 0..channel.total_seq /\ RelAt(t) = sent[t].rel
      BY <1>1 DEF RelAt
    <3>2. CASE copy'[m] = copy[m]
      BY <1>2, <3>2 DEF CopyIsPast
    <3>3. CASE copy'[m].total = join[m].total /\ copy'[m].rel = join[m].rel
      BY <1>2, <3>3 DEF JoinIsPast
    <3>4. QED
      BY <1>4, <3>1, <3>2, <3>3
  <2>2. RelAt(copy[m].total)' = RelAt(k)'
    BY <2>1 DEF RelAt
  <2>3. QED
    BY <1>1, <2>1, <2>2
<1>7. QED
  BY <1>1, <1>5, <1>6 DEF JoinIsPast, CopyIsPast

\* The inductive invariant: types, pool, wire and what is known of the wire.
ChannelInv == TypeOK /\ PoolInv /\ PastInv

\* The invariant of a channel and its members holds in every state: what
\* SdtChannelProofs shows of steps, as one fact about behaviours.
LEMMA ChannelInvHolds == Spec => []ChannelInv
<1>1. Init => PastInv
  <2> SUFFICES ASSUME Init PROVE PastInv
    OBVIOUS
  <2>1. /\ channel.total_seq = 0 /\ channel.reliable_seq = 0
        /\ \A m \in Members : join[m].total = 0 /\ join[m].rel = 0
        /\ \A m \in Members : copy[m].total = 0 /\ copy[m].rel = 0
    BY DEF Init, NoJoin
  <2>2. RelAt(0) = 0
    BY DEF RelAt
  <2>3. WireInv
    BY <2>1, <2>2 DEF WireInv
  <2>4. JoinIsPast /\ CopyIsPast
    BY <2>1, <2>2 DEF JoinIsPast, CopyIsPast
  <2>5. QED
    BY <2>3, <2>4 DEF PastInv
<1>2. TypeOK /\ PoolInv /\ PastInv /\ [Next]_vars => PastInv'
  BY PastInvStep
<1>3. QED
  BY <1>1, <1>2, TypeCorrect, PoolAlwaysHolds, PTL DEF Spec, ChannelInv

\* What a member believes of the channel always is a past of it.
THEOREM CopyAlwaysPast == Spec => []CopyIsPast
<1>1. ChannelInv => CopyIsPast
  BY DEF ChannelInv, PastInv
<1>2. QED
  BY <1>1, ChannelInvHolds, PTL

\* A member gives a channel up (SEQ_LOST in sdt_rx_wrapper) only after a
\* wrapper it has not had has left the leader's resend pool.
THEOREM LostAlwaysReal == Spec => LostIsReal
<1> DEFINE Real == \A m \in Members :
             "LOST_SEQUENCE" \in leaving'[m] \ leaving[m] =>
               /\ copy[m].rel < channel.reliable_seq
               /\ copy[m].rel + 1 \notin Held
<1>1. ASSUME ChannelInv, [Next]_vars PROVE [Real]_vars
  <2>1. ASSUME NEW m \in Members, "LOST_SEQUENCE" \in leaving'[m] \ leaving[m]
        PROVE  /\ copy[m].rel < channel.reliable_seq
               /\ copy[m].rel + 1 \notin Held
    <3> USE DEF ChannelInv, PastInv
    <3>1. leaving \in [Members -> SUBSET {"LOST_SEQUENCE", "CHANNEL_EXPIRED"}]
      BY <1>1 DEF TypeOK
    <3>2. \/ \E x \in Members : \E t \in DOMAIN sent : RxLost(x, t)
          \/ \E x \in Members : MemberTick(x)
      BY <1>1, <2>1 DEF Next, vars, wireVars, TxReliable, TxUnreliable, LeaderTick,
           RxNak, TxJoin, RxLeaving, RxJoin, RxWrapper, RxValid, RxGap
    <3>3. ASSUME NEW x \in Members, MemberTick(x) PROVE FALSE
      BY <2>1, <3>1, <3>3 DEF MemberTick
    <3>4. PICK x \in Members, t \in DOMAIN sent : RxLost(x, t)
      BY <3>2, <3>3
    <3>5. x = m
      BY <2>1, <3>1, <3>4 DEF RxLost
    <3>6. t \in 1..channel.total_seq
      BY <1>1, WireTypes
    <3>7. check_sequence(m, t) = "SEQ_LOST"
      BY <3>4, <3>5 DEF RxLost
    <3>8. copy[m].rel < sent[t].rel /\ copy[m].rel + 1 < sent[t].oldest
      BY <1>1, <3>6, <3>7, Verdicts
    <3>9. sent[t].rel <= channel.reliable_seq /\ sent[t].oldest <= channel.oldest_avail
      <4>1. /\ sent[t].rel = RelAt(t)
            /\ t \in 0..channel.total_seq
            /\ channel.total_seq \in 0..channel.total_seq
            /\ t <= channel.total_seq
        BY <1>1, <3>6, WireTypes DEF RelAt
      <4>2. RelAt(t) <= RelAt(channel.total_seq)
        BY <1>1, <4>1 DEF WireInv
      <4>3. QED
        BY <1>1, <3>6, <4>1, <4>2 DEF WireInv
    <3>10. /\ copy[m].rel \in Nat /\ sent[t].rel \in Nat /\ sent[t].oldest \in Nat
           /\ channel.reliable_seq \in Nat /\ channel.oldest_avail \in Nat
      <4>1. copy[m] \in [total : Nat, rel : Nat]
        BY <1>1 DEF TypeOK
      <4>2. QED
        BY <1>1, <3>6, <4>1, WireTypes DEF WrapperSet
    <3>11. \A s \in Held : channel.oldest_avail <= s
      BY <1>1, PoolInvWindow DEF WindowFits
    <3>12. QED
      BY <3>8, <3>9, <3>10, <3>11
  <2>2. QED
    BY <2>1
<1>2. QED
  BY <1>1, ChannelInvHolds, PTL DEF Spec, LostIsReal

-----------------------------------------------------------------------------
(***************************************************************************)
(* NAKs.  A member that listens was sent a JOIN, and has moved on from the *)
(* numbers of that JOIN only.                                              *)
(***************************************************************************)
ListenerInv ==
  \A m \in Members :
    status[m] # "out" => join[m].isSent /\ join[m].rel <= copy[m].rel

NakInv ==
  /\ ListenerInv
  /\ \A n \in naks : status[n.from] # "out"
  /\ NakIsLogical

\* A step adds only NAKs that ask for wrappers their member has not seen,
\* and no member's copy falls back behind its JOIN.
LEMMA NakInvStep ==
  ASSUME ChannelInv, NakInv, [Next]_vars
  PROVE  NakInv'
<1> USE DEF ChannelInv, PastInv
<1>1. /\ join \in [Members -> [isSent : BOOLEAN, total : Nat, rel : Nat]]
      /\ status \in [Members -> {"out", "in", "delete", "gone"}]
      /\ copy \in [Members -> [total : Nat, rel : Nat]]
      /\ naks \subseteq [from : Members, first : Nat, last : Nat]
      /\ channel.reliable_seq \in Nat
  BY DEF TypeOK
<1>2. channel.reliable_seq <= channel'.reliable_seq /\ channel'.reliable_seq \in Nat
  <2>1. TypeOK'
    BY TypeStep
  <2>2. QED
    BY <2>1, WireInvStep DEF TypeOK
<1>3. ASSUME UNCHANGED <<join, naks, status, copy>> PROVE NakInv'
  <2>1. \A n \in naks : n.last <= channel'.reliable_seq
    BY <1>1, <1>2 DEF NakInv, NakIsLogical
  <2>2. QED
    BY <1>3, <2>1 DEF NakInv, ListenerInv, NakIsLogical
<1>4. ASSUME NEW x \in Members, TxJoin(x) PROVE NakInv'
  <2>1. UNCHANGED <<naks, status, copy, channel>> /\ ~join[x].isSent
    BY <1>4 DEF TxJoin, memberVars
  <2>2. \A m \in Members : m # x => join'[m] = join[m]
    BY <1>1, <1>4 DEF TxJoin
  <2>3. status[x] = "out"
    BY <2>1 DEF NakInv, ListenerInv
  <2>4. ListenerInv'
    BY <2>1, <2>2, <2>3 DEF NakInv, ListenerInv
  <2>5. \A n \in naks : n.from \in Members /\ n.from # x /\ join'[n.from] = join[n.from]
    BY <1>1, <2>2, <2>3 DEF NakInv
  <2>6. NakIsLogical'
    BY <2>1, <2>5 DEF NakInv, NakIsLogical
  <2>7. QED
    BY <2>1, <2>4, <2>6 DEF NakInv
<1>5. ASSUME NEW x \in Members, RxJoin(x) PROVE NakInv'
  <2>1. /\ UNCHANGED <<channel, join, naks>>
        /\ join[x].isSent
        /\ copy' = [copy EXCEPT ![x] = [total |-> join[x].total, rel |-> join[x].rel]]
        /\ status' = [status EXCEPT ![x] = IF @ = "out" THEN "in" ELSE @]
    BY <1>5 DEF RxJoin, leaderVars, wireVars
  <2>2. /\ copy'[x].rel = join[x].rel /\ join[x].rel \in Nat
        /\ \A m \in Members : m # x => copy'[m] = copy[m] /\ status'[m] = status[m]
        /\ \A m \in Members : status[m] # "out" => status'[m] # "out"
    BY <1>1, <2>1
  <2>3. ListenerInv'
    BY <2>1, <2>2 DEF NakInv, ListenerInv
  <2>4. \A n \in naks : status'[n.from] # "out"
    BY <1>1, <2>2 DEF NakInv
  <2>5. NakIsLogical'
    BY <2>1 DEF NakInv, NakIsLogical
  <2>6. QED
    BY <2>1, <2>3, <2>4, <2>5 DEF NakInv
<1>6. ASSUME NEW x \in Members, NEW t \in DOMAIN sent, RxWrapper(x, t) PROVE NakInv'
  <2>1. /\ t \in 1..channel.total_seq /\ sent[t].rel \in Nat /\ t \in Nat
        /\ sent[t].reliable \in BOOLEAN
    BY WireTypes DEF WrapperSet
  <2>2. status[x] # "out" /\ join[x].isSent /\ join[x].rel <= copy[x].rel
    BY <1>6 DEF RxWrapper, Listening, NakInv, ListenerInv
  <2>3. join[x].rel \in Nat /\ copy[x].rel \in Nat
    BY <1>1
  <2>4. CASE RxValid(x, t)
    <3>1. /\ UNCHANGED <<channel, join, naks, status>>
          /\ copy' = [copy EXCEPT ![x] = [total |-> t, rel |-> sent[t].rel]]
      BY <2>4 DEF RxValid, leaderVars, wireVars
    <3>2. sent[t].rel = copy[x].rel + (IF sent[t].reliable THEN 1 ELSE 0)
      BY <2>1, <2>4, Verdicts DEF RxValid
    <3>3. /\ copy'[x].rel = sent[t].rel
          /\ \A m \in Members : m # x => copy'[m] = copy[m]
      BY <1>1, <3>1
    <3>4. join[x].rel <= sent[t].rel
      BY <2>1, <2>2, <2>3, <3>2
    <3>5. ListenerInv'
      BY <2>2, <3>1, <3>3, <3>4 DEF NakInv, ListenerInv
    <3>6. QED
      BY <3>1, <3>5 DEF NakInv, NakIsLogical
  <2>5. CASE RxGap(x, t)
    <3> DEFINE n == [from |-> x, first |-> copy[x].rel + 1, last |-> sent[t].rel]
    <3>1. /\ UNCHANGED <<channel, join, copy, status>>
          /\ naks' = naks \cup {n}
      BY <2>5 DEF RxGap, sdt_tx_nak, leaderVars
    <3>2. copy[x].rel < sent[t].rel
      BY <2>1, <2>5, Verdicts DEF RxGap
    <3>3. sent[t].rel <= channel.reliable_seq
      <4>1. /\ sent[t].rel = RelAt(t)
            /\ t \in 0..channel.total_seq
            /\ channel.total_seq \in 0..channel.total_seq
            /\ t <= channel.total_seq
        BY <2>1, WireTypes DEF RelAt
      <4>2. QED
        BY <4>1 DEF WireInv
    <3>4. /\ n.from = x
          /\ join[x].rel < n.first /\ n.first <= n.last /\ n.last <= channel.reliable_seq
      BY <2>1, <2>2, <2>3, <3>2, <3>3
    <3> HIDE DEF n
    <3>5. NakIsLogical'
      BY <3>1, <3>4 DEF NakInv, NakIsLogical
    <3>6. QED
      BY <2>2, <3>1, <3>4, <3>5 DEF NakInv, ListenerInv
  <2>6. CASE RxLost(x, t)
    <3>1. /\ UNCHANGED <<channel, join, copy, naks>>
          /\ status' = [status EXCEPT ![x] = "delete"]
      BY <2>6 DEF RxLost, leaderVars
    <3>2. \A m \in Members : status'[m] # "out" <=> status[m] # "out"
      BY <1>1, <2>2, <3>1
    <3>3. QED
      BY <1>1, <3>1, <3>2 DEF NakInv, ListenerInv, NakIsLogical
  <2>7. QED
    BY <1>6, <2>4, <2>5, <2>6 DEF RxWrapper
<1>7. ASSUME NEW x \in Members, MemberTick(x) PROVE NakInv'
  <2>1. /\ UNCHANGED <<channel, join, copy, naks>>
        /\ status' = [status EXCEPT ![x] = "gone"]
        /\ status[x] # "out"
    BY <1>7 DEF MemberTick, Listening, leaderVars
  <2>2. \A m \in Members : status'[m] # "out" <=> status[m] # "out"
    BY <1>1, <2>1
  <2>3. QED
    BY <1>1, <2>1, <2>2 DEF NakInv, ListenerInv, NakIsLogical
<1>8. ASSUME \/ TxReliable \/ TxUnreliable \/ LeaderTick
             \/ \E n \in naks : RxNak(n)
             \/ \E m \in Members : RxLeaving(m)
             \/ UNCHANGED vars
      PROVE  NakInv'
  <2>1. UNCHANGED <<join, naks, status, copy>>
    BY <1>8 DEF TxReliable, TxUnreliable, LeaderTick, RxNak, RxLeaving, vars,
         wireVars, memberVars
  <2>2. QED
    BY <1>3, <2>1
<1>9. QED
  BY <1>4, <1>5, <1>6, <1>7, <1>8 DEF Next

\* No NAK is "illogical" to the leader that gets it.
THEOREM NakAlwaysLogical == Spec => []NakIsLogical
<1>1. Init => NakInv
  BY DEF Init, NakInv, ListenerInv, NakIsLogical
<1>2. ChannelInv /\ NakInv /\ [Next]_vars => NakInv'
  BY NakInvStep
<1>3. NakInv => NakIsLogical
  BY DEF NakInv
<1>4. QED
  BY <1>1, <1>2, <1>3, ChannelInvHolds, PTL DEF Spec

-----------------------------------------------------------------------------
(***************************************************************************)
(* The stream.  As long as the network does not deliver a JOIN again, what *)
(* was handed to a member is all its copy counts past the JOIN's numbers.  *)
(***************************************************************************)
StreamInv ==
  \A m \in Members :
    IF status[m] = "out"
    THEN delivered[m] = <<>>
    ELSE /\ join[m].isSent
         /\ copy[m].rel = join[m].rel + Len(delivered[m])

\* The state of the stream, as the refinement mapping of Stream sees it.
AbsState == [m \in Members |-> IF status[m] = "delete" THEN "in" ELSE status[m]]
AbsBase  == [m \in Members |-> IF status[m] = "out" THEN 0 ELSE join[m].rel]

\* One step of the channel, on the invariants and on the abstract state.
LEMMA StreamStep ==
  ASSUME DuplicateJoins = FALSE, ChannelInv, StreamInv, [Next]_vars
  PROVE  StreamInv' /\ [Stream!Next]_(Stream!svars)
<1> USE DEF ChannelInv, PastInv
<1>1. /\ join \in [Members -> [isSent : BOOLEAN, total : Nat, rel : Nat]]
      /\ status \in [Members -> {"out", "in", "delete", "gone"}]
      /\ copy \in [Members -> [total : Nat, rel : Nat]]
      /\ delivered \in [Members -> Seq(Nat)]
      /\ channel.reliable_seq \in Nat
  BY DEF TypeOK
<1> DEFINE Goal == StreamInv' /\ [Stream!Next]_(Stream!svars)
<1>2. ASSUME UNCHANGED <<join, status, copy, delivered>>,
             channel'.reliable_seq = channel.reliable_seq
      PROVE  Goal
  BY <1>2 DEF StreamInv, Stream!svars
<1>3. ASSUME TxReliable PROVE Goal
  <2>1. channel'.reliable_seq = channel.reliable_seq + 1
    <3>1. channel' = FormatReliable
      BY <1>3 DEF TxReliable
    <3>2. QED
      BY <3>1, FormatReliableType
  <2>2. UNCHANGED <<join, status, copy, delivered>>
    BY <1>3 DEF TxReliable, memberVars
  <2>3. StreamInv'
    BY <2>2 DEF StreamInv
  <2>4. Stream!Publish
    BY <2>1, <2>2 DEF Stream!Publish
  <2>5. QED
    BY <2>3, <2>4 DEF Stream!Next
<1>4. ASSUME NEW x \in Members, TxJoin(x) PROVE Goal
  <2>1. UNCHANGED <<channel, status, copy, delivered>> /\ ~join[x].isSent
    BY <1>4 DEF TxJoin, memberVars
  <2>2. \A m \in Members : m # x => join'[m] = join[m]
    BY <1>1, <1>4 DEF TxJoin
  <2>3. status[x] = "out"
    BY <2>1 DEF StreamInv
  <2>4. StreamInv'
    BY <2>1, <2>2, <2>3 DEF StreamInv
  <2>5. AbsBase' = AbsBase
    BY <2>1, <2>2, <2>3 DEF AbsBase
  <2>6. UNCHANGED Stream!svars
    BY <2>1, <2>5 DEF Stream!svars, AbsBase
  <2>7. QED
    BY <2>4, <2>6
<1>5. ASSUME NEW x \in Members, RxJoin(x) PROVE Goal
  <2>1. /\ UNCHANGED <<channel, join, delivered>>
        /\ join[x].isSent
        /\ status[x] = "out"
        /\ copy' = [copy EXCEPT ![x] = [total |-> join[x].total, rel |-> join[x].rel]]
        /\ status' = [status EXCEPT ![x] = "in"]
    BY <1>5 DEF RxJoin, leaderVars, wireVars
  <2>2. /\ copy'[x].rel = join[x].rel /\ join[x].rel \in Nat
        /\ status'[x] = "in"
        /\ \A m \in Members : m # x => copy'[m] = copy[m] /\ status'[m] = status[m]
    BY <1>1, <2>1
  <2>3. delivered[x] = <<>>
    BY <2>1 DEF StreamInv
  <2>4. StreamInv'
    <3>1. copy'[x].rel = join[x].rel + Len(delivered[x])
      BY <2>2, <2>3
    <3>2. QED
      BY <2>1, <2>2, <3>1 DEF StreamInv
  <2>5. join[x].rel \in 0..channel.reliable_seq
    <3>1. /\ join[x].total \in 0..channel.total_seq
          /\ channel.total_seq \in 0..channel.total_seq
          /\ join[x].total <= channel.total_seq
      BY <1>1, WireTypes DEF JoinIsPast
    <3>2. join[x].rel = RelAt(join[x].total)
      BY DEF JoinIsPast
    <3>3. RelAt(join[x].total) <= RelAt(channel.total_seq)
      BY <3>1 DEF WireInv
    <3>4. QED
      BY <1>1, <2>2, <3>2, <3>3 DEF WireInv
  <2>6. /\ AbsState' = [AbsState EXCEPT ![x] = "in"]
        /\ AbsBase' = [AbsBase EXCEPT ![x] = join[x].rel]
        /\ AbsState[x] = "out"
    BY <2>1, <2>2 DEF AbsState, AbsBase
  <2>7. Stream!Start(x)
    BY <2>1, <2>5, <2>6 DEF Stream!Start, AbsState, AbsBase
  <2>8. QED
    BY <2>4, <2>7 DEF Stream!Next
<1>6. ASSUME NEW x \in Members, NEW t \in DOMAIN sent, Listening(x), RxValid(x, t)
      PROVE  Goal
  <2>1. /\ t \in 1..channel.total_seq /\ sent[t].rel \in Nat
        /\ sent[t].reliable \in BOOLEAN
    BY WireTypes DEF WrapperSet
  <2>2. /\ UNCHANGED <<channel, join, status>>
        /\ copy' = [copy EXCEPT ![x] = [total |-> t, rel |-> sent[t].rel]]
        /\ delivered' = [delivered EXCEPT ![x] =
                           IF sent[t].reliable THEN Append(@, sent[t].rel) ELSE @]
    BY <1>6 DEF RxValid, HandOn, leaderVars, wireVars
  <2>3. sent[t].rel = copy[x].rel + (IF sent[t].reliable THEN 1 ELSE 0)
    BY <1>6, <2>1, Verdicts DEF RxValid
  <2>4. /\ status[x] \in {"in", "delete"}
        /\ join[x].isSent
        /\ copy[x].rel = join[x].rel + Len(delivered[x])
    BY <1>6 DEF Listening, StreamInv
  <2>5. /\ join[x].rel \in Nat /\ copy[x].rel \in Nat
        /\ delivered[x] \in Seq(Nat) /\ Len(delivered[x]) \in Nat
    BY <1>1
  <2>6. /\ copy'[x].rel = sent[t].rel
        /\ \A m \in Members : m # x => copy'[m] = copy[m] /\ delivered'[m] = delivered[m]
    BY <1>1, <2>2
  <2>7. CASE sent[t].reliable
    <3>1. /\ delivered'[x] = Append(delivered[x], sent[t].rel)
          /\ Len(delivered'[x]) = Len(delivered[x]) + 1
      BY <1>1, <2>1, <2>2, <2>5, <2>7
    <3>2. copy'[x].rel = join[x].rel + Len(delivered'[x])
      <4>1. sent[t].rel = copy[x].rel + 1
        BY <2>3, <2>7
      <4>2. sent[t].rel = join[x].rel + (Len(delivered[x]) + 1)
        BY <2>4, <2>5, <4>1
      <4>3. QED
        BY <2>6, <3>1, <4>2
    <3>3. StreamInv'
      BY <2>2, <2>4, <2>6, <3>2 DEF StreamInv
    <3>4. /\ AbsState[x] = "in" /\ AbsBase[x] = join[x].rel
          /\ AbsState' = AbsState /\ AbsBase' = AbsBase
      BY <2>2, <2>4 DEF AbsState, AbsBase
    <3>5. sent[t].rel = AbsBase[x] + Len(delivered[x]) + 1
      BY <2>3, <2>4, <2>5, <2>7, <3>4
    <3>6. sent[t].rel <= channel.reliable_seq
      <4>1. /\ sent[t].rel = RelAt(t)
            /\ t \in 0..channel.total_seq
            /\ channel.total_seq \in 0..channel.total_seq
            /\ t <= channel.total_seq
        BY <2>1, WireTypes DEF RelAt
      <4>2. QED
        BY <4>1 DEF WireInv
    <3>7. delivered' = [delivered EXCEPT ![x] = Append(@, sent[t].rel)]
      BY <2>2, <2>7
    <3>8. Stream!Deliver(x)
      BY <2>2, <3>4, <3>5, <3>6, <3>7 DEF Stream!Deliver, AbsState, AbsBase
    <3>9. QED
      BY <3>3, <3>8 DEF Stream!Next
  <2>8. CASE ~sent[t].reliable
    <3>1. delivered' = delivered
      BY <1>1, <2>2, <2>8
    <3>2. copy'[x].rel = copy[x].rel
      BY <2>3, <2>5, <2>6, <2>8
    <3>3. StreamInv'
      BY <2>2, <2>4, <2>6, <3>1, <3>2 DEF StreamInv
    <3>4. UNCHANGED Stream!svars
      BY <2>2, <3>1 DEF Stream!svars
    <3>5. QED
      BY <3>3, <3>4
  <2>9. QED
    BY <2>1, <2>7, <2>8
<1>7. ASSUME NEW x \in Members, NEW t \in DOMAIN sent, RxGap(x, t) PROVE Goal
  <2>1. delivered' = delivered
    BY <1>1, <1>7 DEF RxGap, HandOn
  <2>2. QED
    BY <1>2, <1>7, <2>1 DEF RxGap, leaderVars
<1>8. ASSUME NEW x \in Members, NEW t \in DOMAIN sent, Listening(x), RxLost(x, t)
      PROVE  Goal
  <2>1. /\ UNCHANGED <<channel, join, copy, delivered>>
        /\ status' = [status EXCEPT ![x] = "delete"]
        /\ status[x] \in {"in", "delete"}
    BY <1>8 DEF RxLost, Listening, leaderVars
  <2>2. /\ status'[x] = "delete"
        /\ \A m \in Members : m # x => status'[m] = status[m]
    BY <1>1, <2>1
  <2>3. StreamInv'
    BY <2>1, <2>2 DEF StreamInv
  <2>4. AbsState' = AbsState /\ AbsBase' = AbsBase
    BY <2>1, <2>2 DEF AbsState, AbsBase
  <2>5. UNCHANGED Stream!svars
    BY <2>1, <2>4 DEF Stream!svars, AbsState, AbsBase
  <2>6. QED
    BY <2>3, <2>5
<1>9. ASSUME NEW x \in Members, MemberTick(x) PROVE Goal
  <2>1. /\ UNCHANGED <<channel, join, copy, delivered>>
        /\ status' = [status EXCEPT ![x] = "gone"]
        /\ status[x] \in {"in", "delete"}
    BY <1>9 DEF MemberTick, Listening, leaderVars
  <2>2. /\ status'[x] = "gone"
        /\ \A m \in Members : m # x => status'[m] = status[m]
    BY <1>1, <2>1
  <2>3. StreamInv'
    BY <2>1, <2>2 DEF StreamInv
  <2>4. /\ AbsState' = [AbsState EXCEPT ![x] = "gone"]
        /\ AbsBase' = AbsBase
        /\ AbsState[x] = "in"
    BY <2>1, <2>2 DEF AbsState, AbsBase
  <2>5. Stream!Leave(x)
    BY <2>1, <2>4 DEF Stream!Leave, AbsState, AbsBase
  <2>6. QED
    BY <2>3, <2>5 DEF Stream!Next
<1>10. ASSUME NEW n \in naks, RxNak(n) PROVE Goal
  <2>1. UNCHANGED <<join, status, copy, delivered>>
    BY <1>10 DEF RxNak, memberVars
  <2>2. channel'.reliable_seq = channel.reliable_seq
    <3>1. channel \in [total_seq : 0..MaxTotal, reliable_seq : Nat, oldest_avail : Nat]
      BY DEF TypeOK
    <3>2. ASSUME NEW k, channel' = FormatUnreliable(k)
          PROVE  channel'.reliable_seq = channel.reliable_seq
      BY <3>1, <3>2 DEF FormatUnreliable
    <3>3. channel' = channel \/ \E k : channel' = FormatUnreliable(k)
      BY <1>10 DEF RxNak, SendUnreliable
    <3>4. QED
      BY <3>2, <3>3
  <2>3. QED
    BY <1>2, <2>1, <2>2
<1>11. ASSUME TxUnreliable PROVE Goal
  <2>1. channel \in [total_seq : 0..MaxTotal, reliable_seq : Nat, oldest_avail : Nat]
    BY DEF TypeOK
  <2>2. channel'.reliable_seq = channel.reliable_seq
    BY <1>11, <2>1 DEF TxUnreliable, SendUnreliable, FormatUnreliable
  <2>3. QED
    BY <1>2, <1>11, <2>2 DEF TxUnreliable, memberVars
<1>12. ASSUME \/ LeaderTick \/ UNCHANGED vars
              \/ \E m \in Members : RxLeaving(m)
       PROVE  Goal
  <2>1. UNCHANGED <<join, status, copy, delivered, channel>>
    BY <1>12 DEF LeaderTick, RxLeaving, vars, leaderVars, wireVars, memberVars
  <2>2. QED
    BY <1>2, <2>1
<1> HIDE DEF Goal
<1>13. Goal
  BY <1>3, <1>4, <1>5, <1>6, <1>7, <1>8, <1>9, <1>10, <1>11, <1>12 DEF Next, RxWrapper
<1>14. QED
  BY <1>13 DEF Goal

\* The wrapper layer implements the reliable stream: what is handed to a
\* member is base+1, base+2, ... from its JOIN on, whatever the network loses,
\* repeats or reorders, if it does not deliver the JOIN itself again.
THEOREM ImplementsStream ==
  ASSUME DuplicateJoins = FALSE
  PROVE  Spec => StreamPromise
<1>1. Init => StreamInv /\ Stream!Init
  BY DEF Init, StreamInv, Stream!Init
<1>2. ChannelInv /\ StreamInv /\ [Next]_vars => StreamInv' /\ [Stream!Next]_(Stream!svars)
  BY StreamStep
<1>3. QED
  BY <1>1, <1>2, ChannelInvHolds, PTL DEF Spec, StreamPromise, Stream!Spec

(***************************************************************************)
(* Numbers of 32 bits.                                                     *)
(***************************************************************************)
\* 2^31.
Half == 2147483648

\* The signed difference of two numbers of 32 bits is that of the numbers, if they are
\* less than half the range apart, whether one of them has wrapped around or not.
LEMMA DifferenceIs ==
  ASSUME NEW a \in Nat, NEW b \in Nat, -Half < a - b, a - b < Half
  PROVE  Difference(a, b, Half) = a - b
<1>1. ((a % 4294967296) - (b % 4294967296)) % 4294967296 = (a - b) % 4294967296
  OBVIOUS
<1>2. CASE a - b >= 0
  <2>1. (a - b) % 4294967296 = a - b
    BY <1>2 DEF Half
  <2> QED
    BY <1>1, <2>1 DEF Half, Difference
<1>3. CASE a - b < 0
  <2>1. (a - b) % 4294967296 = a - b + 4294967296
    BY <1>3 DEF Half
  <2> QED
    BY <1>1, <2>1 DEF Half, Difference
<1> QED
  BY <1>2, <1>3

\* Along the wire the reliable numbers grow no faster than the total ones, and a
\* wrapper's oldest is its own reliable number or one of the pool's before it.
GapsInv ==
  /\ \A t, u \in 0..channel.total_seq : t <= u => RelAt(u) - RelAt(t) <= u - t
  /\ \A t \in 1..channel.total_seq :
       /\ sent[t].oldest <= sent[t].rel
       /\ sent[t].rel - sent[t].oldest < SDT_MAX_RESENDS

\* Wrappers as in WireInvTransmit, with an oldest of that kind, keep it so.
LEMMA GapsTransmit ==
  ASSUME TypeOK, WireInv, GapsInv, NEW n \in Nat, NEW w \in WrapperSet,
         sent' = Transmit(n, w),
         channel'.total_seq = channel.total_seq + n,
         w.rel = channel.reliable_seq + (IF w.reliable THEN 1 ELSE 0),
         w.reliable => n = 1,
         w.oldest <= w.rel,
         w.rel - w.oldest < SDT_MAX_RESENDS
  PROVE  GapsInv'
<1> DEFINE total == channel.total_seq
           next  == channel'.total_seq
<1>1. /\ total \in Nat /\ next = total + n /\ next \in Nat
      /\ channel.reliable_seq \in Nat /\ w.rel \in Nat /\ w.oldest \in Nat
      /\ w.reliable \in BOOLEAN
  BY WireTypes DEF WrapperSet
<1>2. /\ \A t \in 1..total : sent'[t] = sent[t]
      /\ \A t \in (total + 1)..next : sent'[t] = w
  <2>1. w \in [rel : Nat, reliable : BOOLEAN, oldest : Nat]
    BY DEF WrapperSet
  <2>2. /\ \A t \in 1..channel.total_seq : Transmit(n, w)[t] = sent[t]
        /\ \A t \in (channel.total_seq + 1)..(channel.total_seq + n) : Transmit(n, w)[t] = w
    BY <2>1, TransmitType
  <2>3. QED
    BY <2>2
<1>3. ASSUME NEW t \in 0..total PROVE RelAt(t)' = RelAt(t)
  BY <1>1, <1>2 DEF RelAt
<1>4. ASSUME NEW t \in (total + 1)..next PROVE RelAt(t)' = w.rel
  BY <1>1, <1>2 DEF RelAt
<1>5. ASSUME NEW t \in 1..next
      PROVE  /\ sent'[t].oldest <= sent'[t].rel
             /\ sent'[t].rel - sent'[t].oldest < SDT_MAX_RESENDS
  <2>1. CASE t \in 1..total
    BY <1>2, <2>1 DEF GapsInv
  <2>2. CASE t \in (total + 1)..next
    BY <1>2, <2>2
  <2>3. QED
    BY <1>1, <1>5, <2>1, <2>2
<1>6. ASSUME NEW t \in 0..next, NEW u \in 0..next, t <= u
      PROVE  RelAt(u)' - RelAt(t)' <= u - t
  <2>1. CASE u \in 0..total
    BY <1>1, <1>3, <1>6, <2>1 DEF GapsInv
  <2>2. CASE t \in 0..total /\ u \in (total + 1)..next
    <3>1. /\ RelAt(total) - RelAt(t) <= total - t /\ RelAt(t) \in Nat
          /\ RelAt(total) = channel.reliable_seq
      BY <1>1, <2>2, WireTypes DEF GapsInv, WireInv
    <3>2. w.rel <= channel.reliable_seq + 1 /\ RelAt(t)' = RelAt(t) /\ RelAt(u)' = w.rel
      BY <1>1, <1>3, <1>4, <2>2
    <3>3. QED
      BY <1>1, <2>2, <3>1, <3>2
  <2>3. CASE t \in (total + 1)..next /\ u \in (total + 1)..next
    BY <1>1, <1>4, <1>6, <2>3
  <2>4. QED
    BY <1>1, <1>6, <2>1, <2>2, <2>3
<1>7. QED
  BY <1>5, <1>6 DEF GapsInv

\* Every step keeps it so.
LEMMA GapsStep ==
  ASSUME TypeOK, PoolInv, WireInv, GapsInv, [Next]_vars
  PROVE  GapsInv'
<1>1. /\ channel.total_seq \in Nat /\ channel.reliable_seq \in Nat
      /\ channel.oldest_avail \in Nat
  BY WireTypes
<1>2. CASE UNCHANGED <<channel, sent>>
  BY <1>2 DEF GapsInv, RelAt
<1>3. ASSUME NEW n \in Nat, SendUnreliable(n) PROVE GapsInv'
  <2> DEFINE w == [rel |-> channel.reliable_seq,
                   reliable |-> FALSE,
                   oldest |-> channel.oldest_avail]
  <2>1. /\ channel'.total_seq = channel.total_seq + n
        /\ sent' = Transmit(n, w)
    BY <1>3, FormatUnreliableType DEF SendUnreliable
  <2>2. /\ w \in WrapperSet /\ w.rel = channel.reliable_seq /\ ~w.reliable
        /\ w.oldest <= w.rel /\ w.rel - w.oldest < SDT_MAX_RESENDS
    BY <1>1 DEF WrapperSet, PoolInv
  <2> HIDE DEF w
  <2>3. QED
    BY <1>1, <2>1, <2>2, GapsTransmit
<1>4. CASE TxReliable
  <2> DEFINE r == channel.reliable_seq + 1
             w == [rel |-> r, reliable |-> TRUE, oldest |-> OldestAfter(r)]
  <2>1. /\ channel' = [total_seq    |-> channel.total_seq + 1,
                       reliable_seq |-> r,
                       oldest_avail |-> OldestAfter(r)]
        /\ OldestAfter(r) \in Nat
    <3>1. channel' = FormatReliable
      BY <1>4 DEF TxReliable
    <3>2. QED
      BY <3>1, FormatReliableType
  <2>2. channel'.total_seq = channel.total_seq + 1 /\ sent' = Transmit(1, w)
    BY <1>4, <2>1 DEF TxReliable
  <2>3. OldestAfter(r) <= r /\ r - OldestAfter(r) < SDT_MAX_RESENDS
    BY <1>1, PoolSize DEF OldestAfter, PoolInv
  <2>4. /\ w \in WrapperSet /\ w.rel = r /\ w.reliable
        /\ w.oldest <= w.rel /\ w.rel - w.oldest < SDT_MAX_RESENDS
    BY <1>1, <2>1, <2>3 DEF WrapperSet
  <2> HIDE DEF w
  <2>5. QED
    BY <1>1, <2>2, <2>4, GapsTransmit
<1>5. QED
  BY <1>2, <1>3, <1>4, WireSteps

\* Wrapper t lies less than half the range, less the pool, from the last that m has
\* taken, whether before it or after.
Near(m, t) ==
  /\ t - copy[m].total < Half - SDT_MAX_RESENDS
  /\ copy[m].total - t < Half - SDT_MAX_RESENDS

\* Then its other numbers are less than half the range from those of m too.
LEMMA NearIsNear ==
  ASSUME TypeOK, WireInv, CopyIsPast, GapsInv,
         NEW m \in Members, NEW t \in 1..channel.total_seq, Near(m, t)
  PROVE  /\ -Half < t - copy[m].total /\ t - copy[m].total < Half
         /\ -Half < sent[t].rel - copy[m].rel /\ sent[t].rel - copy[m].rel < Half
         /\ -Half < sent[t].oldest - copy[m].rel /\ sent[t].oldest - copy[m].rel < Half
<1> DEFINE c == copy[m]
           w == sent[t]
<1>1. /\ channel.total_seq \in Nat /\ t \in Nat
      /\ w.rel \in Nat /\ w.oldest \in Nat /\ w.rel = RelAt(t)
  BY WireTypes DEF WrapperSet, RelAt
<1>2. c.total \in Nat /\ c.rel \in Nat
  BY DEF TypeOK
<1>3. c.total \in 0..channel.total_seq /\ t \in 0..channel.total_seq /\ c.rel = RelAt(c.total)
  BY <1>1, <1>2 DEF CopyIsPast
<1>4. w.oldest <= w.rel /\ w.rel - w.oldest < SDT_MAX_RESENDS
  BY DEF GapsInv
<1>5. /\ t - c.total < Half - SDT_MAX_RESENDS
      /\ c.total - t < Half - SDT_MAX_RESENDS
  BY DEF Near
<1>6. /\ t <= c.total => RelAt(t) <= RelAt(c.total) /\ RelAt(c.total) - RelAt(t) <= c.total - t
      /\ c.total <= t => RelAt(c.total) <= RelAt(t) /\ RelAt(t) - RelAt(c.total) <= t - c.total
  BY <1>3 DEF WireInv, GapsInv
<1> HIDE DEF c, w
<1>7. /\ -Half < t - c.total /\ t - c.total < Half
      /\ -Half < w.rel - c.rel /\ w.rel - c.rel < Half
      /\ -Half < w.oldest - c.rel /\ w.oldest - c.rel < Half
  <2>1. CASE t <= c.total
    BY <1>1, <1>2, <1>3, <1>4, <1>5, <1>6, <2>1, PoolSize DEF Half
  <2>2. CASE c.total <= t
    BY <1>1, <1>2, <1>3, <1>4, <1>5, <1>6, <2>2, PoolSize DEF Half
  <2>3. QED
    BY <1>1, <1>2, <2>1, <2>2
<1>8. QED
  BY <1>7 DEF c, w

\* And then 32 bits of them are enough.
LEMMA WordsAgree ==
  ASSUME TypeOK, WireInv, CopyIsPast, GapsInv,
         NEW m \in Members, NEW t \in 1..channel.total_seq, Near(m, t)
  PROVE  check_sequence_words(m, t, Half) = check_sequence(m, t)
<1>1. /\ t \in Nat /\ sent[t].rel \in Nat /\ sent[t].oldest \in Nat
      /\ copy[m].total \in Nat /\ copy[m].rel \in Nat
  <2>1. copy[m] \in [total : Nat, rel : Nat]
    BY DEF TypeOK
  <2>2. sent[t] \in WrapperSet
    BY WireTypes
  <2>3. QED
    BY <2>1, <2>2 DEF WrapperSet
<1>2. /\ Difference(t, copy[m].total, Half) = t - copy[m].total
      /\ Difference(sent[t].rel, copy[m].rel, Half) = sent[t].rel - copy[m].rel
      /\ Difference(sent[t].oldest, copy[m].rel, Half) = sent[t].oldest - copy[m].rel
  BY <1>1, NearIsNear, DifferenceIs
<1>3. QED
  BY <1>2 DEF check_sequence_words, check_sequence

\* The signed differences of 32-bit numbers that check_sequence works on give every
\* wrapper the verdict that its place in the sequence gives it, as long as fewer than
\* 2^31 wrappers, less the pool, lie between it and the last one the member took.
THEOREM WordsCompareRight ==
  Spec => [](\A m \in Members, t \in DOMAIN sent :
               Near(m, t) => check_sequence_words(m, t, Half) = check_sequence(m, t))
<1> DEFINE Right == \A m \in Members, t \in DOMAIN sent :
                      Near(m, t) => check_sequence_words(m, t, Half) = check_sequence(m, t)
<1>1. Init => GapsInv
  <2> SUFFICES ASSUME Init PROVE GapsInv
    OBVIOUS
  <2>1. channel.total_seq = 0 /\ RelAt(0) = 0
    BY DEF Init, RelAt
  <2>2. QED
    BY <2>1 DEF GapsInv
<1>2. ChannelInv /\ GapsInv /\ [Next]_vars => GapsInv'
  BY GapsStep DEF ChannelInv, PastInv
<1>3. ChannelInv /\ GapsInv => Right
  <2> SUFFICES ASSUME ChannelInv, GapsInv, NEW m \in Members, NEW t \in DOMAIN sent, Near(m, t)
               PROVE  check_sequence_words(m, t, Half) = check_sequence(m, t)
    OBVIOUS
  <2>1. TypeOK /\ WireInv /\ CopyIsPast
    BY DEF ChannelInv, PastInv
  <2>2. t \in 1..channel.total_seq
    BY <2>1, WireTypes
  <2>3. QED
    BY <2>1, <2>2, WordsAgree
<1> HIDE DEF Right
<1>4. Spec => []Right
  BY <1>1, <1>2, <1>3, ChannelInvHolds, PTL DEF Spec
<1>5. QED
  BY <1>4 DEF Right
=============================================================================
